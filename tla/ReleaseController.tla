------------------------- MODULE ReleaseController -------------------------
(***************************************************************************)
(* Promotion and rollback of the control plane's code                      *)
(* (server/edge1_release_controller.py).                                   *)
(*                                                                         *)
(* promote() is a transaction without a log: it changes two drop-in files, *)
(* two symbolic links, two running services, the installed controller and  *)
(* state.json one after the other.  Every one of those is a step here.  A  *)
(* step that raises sends the controller through its except branch, which  *)
(* undoes the earlier steps in its own order and may fail in turn; the     *)
(* process may die between any two steps, and systemd restarts a managed   *)
(* service whenever it likes (Restart= in both units).                     *)
(*                                                                         *)
(* One controller runs at a time: it is an operator's command.             *)
(***************************************************************************)
EXTENDS Naturals, FiniteSets

CONSTANTS
  Releases,     \* the commits that require_target() and prepare() accept
  NoRelease,    \* no link, no drop-in file, no recorded release
  Legacy,       \* the checkout a service runs from without its drop-in
  MaxTransactions  \* bound on the calls of promote()

ASSUME ReleasesDiffer == NoRelease \notin Releases /\ Legacy \notin Releases
                         /\ NoRelease # Legacy /\ MaxTransactions \in Nat

VARIABLES
  relPrepared,   \* the directories under releases/
  relLinks,      \* the symbolic links current and previous
  relDropins,    \* service -> the release its drop-in file came from
  relRunning,    \* service -> the code its process runs, NoRelease when down
  relInstalled,  \* the release INSTALLED_CONTROLLER came from
  relState,      \* state.json, or NoState
  relRun,        \* the controller process: where it is and its manifest
  relBegun,      \* calls of promote() so far
  relCutShort,   \* the last transaction ended without writing state.json
  relVerified,   \* history: releases that have passed a postflight
  relSuspect     \* history: releases left as current by a broken transaction

relVars == <<relPrepared, relLinks, relDropins, relRunning, relInstalled,
             relState, relRun, relBegun, relCutShort, relVerified, relSuspect>>

Services == {"operations", "operator"}
MaybeRelease == Releases \cup {NoRelease}
NoState == [status |-> "none"]

\* What transaction.json holds, and state.json repeats.
Manifests ==
  [transaction : {"promote", "rollback"}, target : Releases,
   oldCurrent : MaybeRelease, oldPrevious : MaybeRelease,
   backups : [Services -> MaybeRelease]]

ForwardSteps == {"dropin1", "dropin2", "previous", "current", "restart1",
                 "restart2", "postflight", "refresh", "record"}
UndoSteps == {"undoCurrent", "undoPrevious", "undoDropin1", "undoDropin2",
              "undoRestart1", "undoRestart2", "undoPostflight"}
RelIdle == [at |-> "idle"]
----------------------------------------------------------------------------
RelInit ==
  /\ relPrepared = {}
  /\ relLinks = [current |-> NoRelease, previous |-> NoRelease]
  /\ relDropins = [s \in Services |-> NoRelease]
  /\ relRunning = [s \in Services |-> Legacy]
  /\ relInstalled = Legacy
  /\ relState = NoState
  /\ relRun = RelIdle
  /\ relBegun = 0
  /\ relCutShort = FALSE
  /\ relVerified = {} /\ relSuspect = {}

\* What a service runs once it is started: its drop-in points it at the
\* current link, and without a current release it does not start.
Booted(s) == IF relDropins[s] = NoRelease THEN Legacy ELSE relLinks.current

GoTo(step) == relRun' = [relRun EXCEPT !.at = step]

\* prepare(): the clone appears under its final name by one rename.
PrepareRelease(r) ==
  /\ relRun = RelIdle
  /\ r \notin relPrepared
  /\ relPrepared' = relPrepared \cup {r}
  /\ UNCHANGED <<relLinks, relDropins, relRunning, relInstalled, relState,
                 relRun, relCutShort, relVerified, relSuspect, relBegun>>

\* promote() up to its try block: prepare the target, read the links, back up
\* the drop-ins.  The release that is already current is only checked.
BeginPromote(r, why) ==
  /\ relRun = RelIdle
  /\ relBegun < MaxTransactions
  /\ relBegun' = relBegun + 1
  /\ relPrepared' = relPrepared \cup {r}
  /\ relRun' = [at |-> IF relLinks.current = r THEN "recheck" ELSE "dropin1",
                transaction |-> why, target |-> r,
                oldCurrent |-> relLinks.current,
                oldPrevious |-> relLinks.previous, backups |-> relDropins]
  /\ UNCHANGED <<relLinks, relDropins, relRunning, relInstalled, relState,
                 relCutShort, relVerified, relSuspect>>

\* The release rollback-last returns to.
RollbackTarget ==
  IF relState.status = "succeeded" /\ relState.previous # NoRelease
  THEN relState.previous ELSE relLinks.previous

RollbackLast ==
  /\ relState # NoState
  /\ RollbackTarget \notin {NoRelease, relLinks.current}
  /\ BeginPromote(RollbackTarget, "rollback")

InstallDropin(s, at, next) ==
  /\ relRun.at = at
  /\ relDropins' = [relDropins EXCEPT ![s] = relRun.target]
  /\ GoTo(next)
  /\ UNCHANGED <<relPrepared, relLinks, relRunning, relInstalled, relState,
                 relCutShort, relVerified, relSuspect, relBegun>>

MovePrevious ==
  /\ relRun.at = "previous"
  /\ relLinks' = IF relRun.oldCurrent = NoRelease THEN relLinks
                 ELSE [relLinks EXCEPT !.previous = relRun.oldCurrent]
  /\ GoTo("current")
  /\ UNCHANGED <<relPrepared, relDropins, relRunning, relInstalled, relState,
                 relCutShort, relVerified, relSuspect, relBegun>>

SwitchCurrent ==
  /\ relRun.at = "current"
  /\ relLinks' = [relLinks EXCEPT !.current = relRun.target]
  /\ GoTo("restart1")
  /\ UNCHANGED <<relPrepared, relDropins, relRunning, relInstalled, relState,
                 relCutShort, relVerified, relSuspect, relBegun>>

\* One "systemctl restart" of _restart_services().
RestartService(s, at, next) ==
  /\ relRun.at = at
  /\ relRunning' = [relRunning EXCEPT ![s] = Booted(s)]
  /\ GoTo(next)
  /\ UNCHANGED <<relPrepared, relLinks, relDropins, relInstalled, relState,
                 relCutShort, relVerified, relSuspect, relBegun>>

\* A restart that fails leaves the service down, and raises.
RestartFails(s, at, next) ==
  /\ relRun.at = at
  /\ relRunning' = [relRunning EXCEPT ![s] = NoRelease]
  /\ GoTo(next)
  /\ UNCHANGED <<relPrepared, relLinks, relDropins, relInstalled, relState,
                 relCutShort, relVerified, relSuspect, relBegun>>

\* What _postflight_once() can see: the current link, both services active,
\* and through repository_root_stable that the Operations API started from
\* what current points at now.  It cannot see what the operator service runs.
PostflightSees(r) ==
  /\ relLinks.current = r
  /\ \A s \in Services : relRunning[s] # NoRelease
  /\ relRunning["operations"] = relLinks.current

PassPostflight ==
  /\ relRun.at = "postflight"
  /\ PostflightSees(relRun.target)
  /\ relVerified' = relVerified \cup {relRun.target}
  /\ GoTo("refresh")
  /\ UNCHANGED <<relPrepared, relLinks, relDropins, relRunning, relInstalled,
                 relState, relCutShort, relSuspect, relBegun>>

RefreshController ==
  /\ relRun.at = "refresh"
  /\ relInstalled' = relRun.target
  /\ GoTo("record")
  /\ UNCHANGED <<relPrepared, relLinks, relDropins, relRunning, relState,
                 relCutShort, relVerified, relSuspect, relBegun>>

Manifest == [transaction |-> relRun.transaction, target |-> relRun.target,
             oldCurrent |-> relRun.oldCurrent,
             oldPrevious |-> relRun.oldPrevious, backups |-> relRun.backups]

\* result.json and state.json of a promotion that worked.
RecordSuccess ==
  /\ relRun.at = "record"
  /\ relState' = [status |-> "succeeded", manifest |-> Manifest,
                  previous |-> relRun.oldCurrent]
  /\ relRun' = RelIdle
  /\ relCutShort' = FALSE
  /\ UNCHANGED <<relPrepared, relLinks, relDropins, relRunning, relInstalled,
                 relVerified, relSuspect, relBegun>>

\* Any step of the try block may raise without an effect of its own.
StepFails ==
  /\ relRun.at \in ForwardSteps
  /\ GoTo("undoCurrent")
  /\ UNCHANGED <<relPrepared, relLinks, relDropins, relRunning, relInstalled,
                 relState, relCutShort, relVerified, relSuspect, relBegun>>

\* Mutant: a drop-in is only restored when there was one before.
UndoDropinIfPresent(s, at, next) ==
  /\ relRun.at = at
  /\ relDropins' = IF relRun.backups[s] = NoRelease THEN relDropins
                   ELSE [relDropins EXCEPT ![s] = relRun.backups[s]]
  /\ GoTo(next)
  /\ UNCHANGED <<relPrepared, relLinks, relRunning, relInstalled, relState,
                 relCutShort, relVerified, relSuspect, relBegun>>

UndoLink(link, to, at, next) ==
  /\ relRun.at = at
  /\ relLinks' = [relLinks EXCEPT ![link] = to]
  /\ GoTo(next)
  /\ UNCHANGED <<relPrepared, relDropins, relRunning, relInstalled, relState,
                 relCutShort, relVerified, relSuspect, relBegun>>

UndoDropin(s, at, next) ==
  /\ relRun.at = at
  /\ relDropins' = [relDropins EXCEPT ![s] = relRun.backups[s]]
  /\ GoTo(next)
  /\ UNCHANGED <<relPrepared, relLinks, relRunning, relInstalled, relState,
                 relCutShort, relVerified, relSuspect, relBegun>>

\* state.json of a promotion that did not work; it has no "previous" key.
RecordFailure(ok) ==
  /\ relState' = [status |-> "failed", manifest |-> Manifest, restored |-> ok]
  /\ relRun' = RelIdle
  /\ relCutShort' = FALSE
  /\ UNCHANGED <<relPrepared, relLinks, relDropins, relRunning, relInstalled,
                 relVerified, relBegun>>

\* wait_postflight(old_current), where there was one.
UndoComplete ==
  /\ relRun.at = "undoPostflight"
  /\ relRun.oldCurrent # NoRelease => PostflightSees(relRun.oldCurrent)
  /\ RecordFailure(TRUE)
  /\ UNCHANGED relSuspect

\* A step of the except branch raises: the rest of the undoing is given up.
UndoFails ==
  /\ relRun.at \in UndoSteps
  /\ RecordFailure(FALSE)
  /\ relSuspect' = relSuspect \cup ({relLinks.current} \ {NoRelease})

\* promote() of the current release ends in "already-current" or raises; it
\* writes nothing either way.
EndRecheck ==
  /\ relRun.at = "recheck"
  /\ relRun' = RelIdle
  /\ UNCHANGED <<relPrepared, relLinks, relDropins, relRunning, relInstalled,
                 relState, relCutShort, relVerified, relSuspect, relBegun>>

\* The controller dies, or cannot write state.json.
ControllerDies ==
  /\ relRun.at \in ForwardSteps \cup UndoSteps
  /\ relRun' = RelIdle
  /\ relCutShort' = TRUE
  /\ relSuspect' = relSuspect \cup ({relLinks.current} \ {NoRelease})
  /\ UNCHANGED <<relPrepared, relLinks, relDropins, relRunning, relInstalled,
                 relState, relVerified, relBegun>>

\* systemd restarts a service that has died; it reads the link as it is now.
ServiceRestarts(s) ==
  /\ relRunning' = [relRunning EXCEPT ![s] = Booted(s)]
  /\ UNCHANGED <<relPrepared, relLinks, relDropins, relInstalled, relState,
                 relRun, relCutShort, relVerified, relSuspect, relBegun>>

RelNext ==
  \/ \E r \in Releases : PrepareRelease(r) \/ BeginPromote(r, "promote")
  \/ RollbackLast
  \/ InstallDropin("operations", "dropin1", "dropin2")
  \/ InstallDropin("operator", "dropin2", "previous")
  \/ MovePrevious
  \/ SwitchCurrent
  \/ RestartService("operations", "restart1", "restart2")
  \/ RestartService("operator", "restart2", "postflight")
  \/ RestartFails("operations", "restart1", "undoCurrent")
  \/ RestartFails("operator", "restart2", "undoCurrent")
  \/ PassPostflight
  \/ RefreshController
  \/ RecordSuccess
  \/ StepFails
  \/ UndoLink("current", relRun.oldCurrent, "undoCurrent", "undoPrevious")
  \/ UndoLink("previous", relRun.oldPrevious, "undoPrevious", "undoDropin1")
  \/ UndoDropin("operations", "undoDropin1", "undoDropin2")
  \/ UndoDropin("operator", "undoDropin2", "undoRestart1")
  \/ RestartService("operations", "undoRestart1", "undoRestart2")
  \/ RestartService("operator", "undoRestart2", "undoPostflight")
  \/ UndoComplete
  \/ UndoFails
  \/ EndRecheck
  \/ ControllerDies
  \/ \E s \in Services : ServiceRestarts(s)

RelSpec == RelInit /\ [][RelNext]_relVars
----------------------------------------------------------------------------
\* The controller's files and links are of their kinds, and neither link ever
\* dangles: it names a prepared release, wherever a transaction was cut.
RelTypeOK ==
  /\ relPrepared \subseteq Releases
  /\ relLinks \in [{"current", "previous"} -> relPrepared \cup {NoRelease}]
  /\ relDropins \in [Services -> MaybeRelease]
  /\ relRunning \in [Services -> MaybeRelease \cup {Legacy}]
  /\ relInstalled \in Releases \cup {Legacy}
  /\ relBegun \in 0..MaxTransactions
  /\ relState # NoState => relState.manifest \in Manifests
  /\ relRun.at \in {"idle", "recheck"} \cup ForwardSteps \cup UndoSteps
  /\ relVerified \cup relSuspect \subseteq relPrepared

\* When state.json says a promotion succeeded and no later one was cut short,
\* everything promote() changes agrees with it: the links, both drop-ins, both
\* running services (also after systemd restarted them) and the controller.
SuccessIsComplete ==
  relRun = RelIdle /\ ~relCutShort /\ relState.status = "succeeded" =>
    LET r == relState.manifest.target IN
    /\ relLinks.current = r /\ relInstalled = r
    /\ \A s \in Services : relDropins[s] = r /\ relRunning[s] = r
    /\ relState.previous # NoRelease => relLinks.previous = relState.previous

\* When state.json says that an automatic rollback succeeded, the links and
\* drop-ins are what they were before, and no service runs the failed target
\* any more, at whichever step the promotion failed.
FailureRestores ==
  relRun = RelIdle /\ ~relCutShort /\ relState.status = "failed" =>
    (relState.restored =>
      LET m == relState.manifest IN
      /\ relLinks = [current |-> m.oldCurrent, previous |-> m.oldPrevious]
      /\ relDropins = m.backups
      /\ \A s \in Services :
           relRunning[s] = Booted(s) /\ relRunning[s] # m.target)

\* Between transactions the links name releases that have passed a postflight,
\* or that a broken transaction (a dead controller or a failed automatic
\* rollback) left behind: a promotion that failed never leaves its target.
LinksAreKnownGood ==
  relRun = RelIdle =>
    {relLinks.current, relLinks.previous} \subseteq
      relVerified \cup relSuspect \cup {NoRelease}

\* promote() is all or nothing as far as its own records say, at whichever step
\* it fails, dies or is undone, and whatever systemd restarts meanwhile.
PromotionIsSound ==
  RelTypeOK /\ SuccessIsComplete /\ FailureRestores /\ LinksAreKnownGood
=============================================================================

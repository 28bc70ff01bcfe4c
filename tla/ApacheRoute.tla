----------------------------- MODULE ApacheRoute -----------------------------
(***************************************************************************)
(* The Apache route to the preparation API                                 *)
(* (deploy/messaging/activate-outbound-mail-phase-b2-apache.sh), composed  *)
(* with the migration of the gateway behind it.                            *)
(*                                                                         *)
(* "install" adds a fragment and one (optional) include line to the        *)
(* virtual host and undoes both when a command fails or the shell takes a  *)
(* signal; "rollback" undoes an accepted activation later, from its        *)
(* evidence.  What undoes a failure goes on when its own commands fail.    *)
(* Commands end before the shell takes a signal, so that signals fall      *)
(* between the steps.  The migration script may run at the same time: it   *)
(* stops the gateway that this script probes.                              *)
(***************************************************************************)
EXTENDS RuntimeMigration

CONSTANT MaxEdits   \* bound on an administrator's changes of the virtual host

ASSUME RouteBounds == MaxEdits \in Nat

VARIABLES
  arVhost,     \* the virtual host: has the include line; the edits in it; is half
               \* a copy
  arFragment,  \* the fragment exists
  arServed,    \* the configuration Apache has loaded has the route
  arEvidence,  \* accepted activations: the virtual host each one found
  arStep,      \* what the script does next
  arSaved,     \* the virtual host that the running script has put aside
  arTarget,    \* the virtual host that a manual rollback restores
  arSignalled, \* history: the running or last manual rollback took a signal
  arTrouble,   \* history: a copy or a removal failed in what undid the last failure, or
               \* the virtual host was half a copy when the script began
  arOutcome,   \* how the last script ended
  arEdits      \* history: edits made so far

arVars == <<arVhost, arFragment, arServed, arEvidence, arStep, arSaved, arTarget,
            arSignalled, arTrouble, arOutcome, arEdits>>

Included(vhost) == [vhost EXCEPT !.include = TRUE]
NoVhost == [include |-> FALSE, edit |-> 0, torn |-> FALSE]
\* What a failing cp of a virtual host may leave.
TornCopies(vhost) == [include : {FALSE, vhost.include}, edit : {0}, torn : {TRUE}]
Route == arVhost.include /\ arFragment
InstallSteps == {"fragment", "mark", "patch", "reload", "probe", "record", "accept"}
ManualSteps == {"old_vhost", "old_fragment", "old_reload", "old_probe", "old_record", "old_end"}
----------------------------------------------------------------------------
RouteInit ==
  /\ arVhost = NoVhost /\ arFragment = FALSE
  /\ arServed = FALSE /\ arEvidence = {} /\ arStep = "idle"
  /\ arSaved = NoVhost /\ arTarget = NoVhost /\ arSignalled = FALSE
  /\ arTrouble = FALSE /\ arOutcome = "none" /\ arEdits = 0

\* The script ends; what it had put aside is of no more use to it.
EndRoute(outcome) ==
  arStep' = "idle" /\ arSaved' = NoVhost /\ arTarget' = NoVhost /\ arOutcome' = outcome

\* verify_common_host_state(): of the host and the repository, only the gateway
\* changes here.
HostReady == gwRuns # "down"

\* The checks that the route is not there, and the backup of the virtual host.
BeginRoute ==
  /\ arStep = "idle" /\ HostReady /\ ~arFragment /\ ~arVhost.include
  /\ arStep' = "fragment" /\ arSaved' = arVhost /\ arSignalled' = FALSE
  /\ arTrouble' = arVhost.torn
  /\ UNCHANGED <<arVhost, arFragment, arServed, arEvidence, arTarget, arOutcome, arEdits>>

InstallFragment ==
  /\ arStep = "fragment"
  /\ arFragment' = TRUE /\ arStep' = "mark"
  /\ UNCHANGED <<arVhost, arServed, arEvidence, arSaved, arTarget, arSignalled,
                 arTrouble, arOutcome, arEdits>>

\* MUTATION_STARTED=true: from here on a failure is undone.
MarkMutation ==
  /\ arStep = "mark" /\ arStep' = "patch"
  /\ UNCHANGED <<arVhost, arFragment, arServed, arEvidence, arSaved, arTarget,
                 arSignalled, arTrouble, arOutcome, arEdits>>

\* patch_vhost(), which refuses a file without the approved virtual host, and the
\* comparison with the backup.
PatchVhost ==
  /\ arStep = "patch" /\ ~arVhost.torn
  /\ arVhost' = Included(arVhost) /\ arStep' = "reload"
  /\ UNCHANGED <<arFragment, arServed, arEvidence, arSaved, arTarget, arSignalled,
                 arTrouble, arOutcome, arEdits>>

\* apache2ctl configtest and systemctl reload, of the activation and of a manual rollback.
ReloadApache ==
  /\ \/ arStep = "reload" /\ arStep' = "probe"
     \/ arStep = "old_reload" /\ arStep' = "old_probe"
  /\ arServed' = Route
  /\ UNCHANGED <<arVhost, arFragment, arEvidence, arSaved, arTarget, arSignalled,
                 arTrouble, arOutcome, arEdits>>

\* The probes through Apache and of the gateway itself.
ProbeRoutes ==
  /\ arStep = "probe" /\ arServed /\ gwRuns # "down"
  /\ arStep' = "record"
  /\ UNCHANGED <<arVhost, arFragment, arServed, arEvidence, arSaved, arTarget,
                 arSignalled, arTrouble, arOutcome, arEdits>>

\* The summary and its SHA256SUMS: enough for a manual rollback.
RecordRoute ==
  /\ arStep = "record"
  /\ arEvidence' = arEvidence \cup {arSaved} /\ arStep' = "accept"
  /\ UNCHANGED <<arVhost, arFragment, arServed, arSaved, arTarget, arSignalled,
                 arTrouble, arOutcome, arEdits>>

AcceptRoute ==
  /\ arStep = "accept"
  /\ EndRoute("activated")
  /\ UNCHANGED <<arVhost, arFragment, arServed, arEvidence, arSignalled, arTrouble, arEdits>>

\* A command or a probe fails, or a signal arrives: on_exit() and on_signal() call
\* rollback_if_needed().
UndoesFromRecord(step) == step \in {"record", "accept"}
Undoes(step) == step \in InstallSteps \ {"fragment", "mark"}

RouteFails ==
  /\ arStep \in InstallSteps
  /\ IF Undoes(arStep)
       THEN arStep' = "undo_vhost" /\ UNCHANGED <<arSaved, arTarget, arOutcome>>
       ELSE EndRoute("refused")
  /\ UNCHANGED <<arVhost, arFragment, arServed, arEvidence, arSignalled, arTrouble, arEdits>>

\* restore_from_current_evidence(): the condition of an if, so that it goes on after a
\* cp or an rm that fails.
UndoVhost ==
  /\ arStep = "undo_vhost" /\ arStep' = "undo_fragment"
  /\ \/ arVhost' = arSaved /\ UNCHANGED arTrouble
     \/ arVhost' \in {arVhost} \cup TornCopies(arSaved) /\ arTrouble' = TRUE
  /\ UNCHANGED <<arFragment, arServed, arEvidence, arSaved, arTarget, arSignalled,
                 arOutcome, arEdits>>

UndoFragment ==
  /\ arStep = "undo_fragment" /\ arStep' = "undo_reload"
  /\ \/ arFragment' = FALSE /\ UNCHANGED arTrouble
     \/ UNCHANGED arFragment /\ arTrouble' = TRUE
  /\ UNCHANGED <<arVhost, arServed, arEvidence, arSaved, arTarget, arSignalled,
                 arOutcome, arEdits>>

\* Whether Apache takes the configuration or not, the answer is that of is-active:
\* "automatic_rollback=pass".
UndoReload ==
  /\ arStep = "undo_reload"
  /\ \/ arServed' = Route /\ EndRoute("undone")
     \/ UNCHANGED arServed /\ EndRoute("undone_not_loaded")
  /\ UNCHANGED <<arVhost, arFragment, arEvidence, arSignalled, arTrouble, arEdits>>
----------------------------------------------------------------------------
\* manual_rollback(): the live files must be the ones that were activated.
UnchangedFragment(before) == arFragment
Unchanged(before) == arFragment /\ arVhost = Included(before)

BeginManual(before) ==
  /\ arStep = "idle" /\ HostReady /\ Unchanged(before)
  /\ arStep' = "old_vhost" /\ arSaved' = arVhost /\ arTarget' = before
  /\ arSignalled' = FALSE /\ arTrouble' = FALSE
  /\ UNCHANGED <<arVhost, arFragment, arServed, arEvidence, arOutcome, arEdits>>

OldVhost ==
  /\ arStep = "old_vhost"
  /\ arVhost' = arTarget /\ arStep' = "old_fragment"
  /\ UNCHANGED <<arFragment, arServed, arEvidence, arSaved, arTarget, arSignalled,
                 arTrouble, arOutcome, arEdits>>

OldFragment ==
  /\ arStep = "old_fragment"
  /\ arFragment' = FALSE /\ arStep' = "old_reload"
  /\ UNCHANGED <<arVhost, arServed, arEvidence, arSaved, arTarget, arSignalled,
                 arTrouble, arOutcome, arEdits>>

\* No file of Apache mentions the route, and the gateway answers; then the results
\* are recorded.
ConfirmRollback ==
  /\ \/ arStep = "old_probe" /\ ~arFragment /\ gwRuns # "down" /\ arStep' = "old_record"
     \/ arStep = "old_record" /\ arStep' = "old_end"
  /\ UNCHANGED <<arVhost, arFragment, arServed, arEvidence, arSaved, arTarget,
                 arSignalled, arTrouble, arOutcome, arEdits>>

\* rollback_restore_needed=false, and the trap is removed.
EndRollback ==
  /\ arStep = "old_end"
  /\ EndRoute("restored")
  /\ UNCHANGED <<arVhost, arFragment, arServed, arEvidence, arSignalled, arTrouble, arEdits>>

\* rollback_restore(): the trap of EXIT and of the signals, each command followed by
\* "|| true".  It does not exit: after a signal the shell goes on with the next command.
\* A fragment counts as there however much of it was copied.
RollbackRestore ==
  /\ arStep \in ManualSteps
  /\ \/ arVhost' = arSaved /\ arFragment' = TRUE /\ UNCHANGED arTrouble
     \/ /\ arVhost' \in {arSaved, arVhost} \cup TornCopies(arSaved)
        /\ arFragment' \in {arFragment, TRUE}
        /\ arTrouble' = TRUE
  /\ arServed' \in {arServed, Route'}
  /\ \/ EndRoute("still_active") /\ UNCHANGED arSignalled
     \/ arSignalled' = TRUE /\ UNCHANGED <<arStep, arSaved, arTarget, arOutcome>>
  /\ UNCHANGED <<arEvidence, arEdits>>
----------------------------------------------------------------------------
\* The shell dies where it is.
RouteKilled ==
  /\ arStep # "idle"
  /\ EndRoute("killed")
  /\ UNCHANGED <<arVhost, arFragment, arServed, arEvidence, arSignalled, arTrouble, arEdits>>

\* An administrator changes the virtual host, while no script runs.
EditVhost ==
  /\ arStep = "idle" /\ arEdits < MaxEdits /\ ~arVhost.torn
  /\ arEdits' = arEdits + 1 /\ arVhost' = [arVhost EXCEPT !.edit = arEdits + 1]
  /\ arOutcome' = "none"
  /\ UNCHANGED <<arFragment, arServed, arEvidence, arStep, arSaved, arTarget, arSignalled,
                 arTrouble>>

\* An administrator removes a route, or half of one, that no evidence can roll back, and
\* completes a virtual host that is half a copy.
AdminRemovesRoute ==
  /\ arStep = "idle" /\ ~\E before \in arEvidence : Unchanged(before)
  /\ arVhost' = [include |-> FALSE, edit |-> arEdits, torn |-> FALSE]
  /\ arFragment' = FALSE /\ arServed' = FALSE /\ arOutcome' = "none"
  /\ UNCHANGED <<arEvidence, arStep, arSaved, arTarget, arSignalled, arTrouble, arEdits>>

RouteNext ==
  \/ BeginRoute \/ InstallFragment \/ MarkMutation \/ PatchVhost \/ ReloadApache
  \/ ProbeRoutes \/ RecordRoute \/ AcceptRoute \/ RouteFails
  \/ UndoVhost \/ UndoFragment \/ UndoReload
  \/ (\E before \in arEvidence : BeginManual(before))
  \/ OldVhost \/ OldFragment \/ ConfirmRollback \/ EndRollback \/ RollbackRestore
  \/ RouteKilled \/ EditVhost \/ AdminRemovesRoute

RolloutInit == MigrationInit /\ RouteInit
RolloutNext == (MigrationNext /\ UNCHANGED arVars) \/ (RouteNext /\ UNCHANGED rmVars)
rolloutVars == <<rmVars, arVars>>

RolloutSpec == RolloutInit /\ [][RolloutNext]_rolloutVars
----------------------------------------------------------------------------
\* What each way of ending the script leaves behind.  A failed activation leaves no
\* include line, and no route once Apache has loaded the files; an accepted one can
\* be rolled back; a manual rollback that took no signal has removed the route, and
\* one that failed has put the activated files back.  What undoes a failure promises
\* this only where its own copies and removals succeed.
EndsAsReported ==
  arStep = "idle" =>
    /\ arOutcome = "refused" => ~arVhost.include
    /\ arOutcome \in {"undone", "undone_not_loaded"} /\ ~arTrouble =>
         ~arVhost.include /\ ~arFragment
    /\ arOutcome = "undone" /\ ~arTrouble => ~arServed
    /\ arOutcome = "activated" =>
         Route /\ arServed /\ \E before \in arEvidence : Unchanged(before)
    /\ arOutcome = "restored" /\ ~arSignalled => ~arVhost.include /\ ~arFragment /\ ~arServed
    /\ arOutcome = "still_active" /\ ~arTrouble => Route

\* No rollback overwrites a change that an administrator made, unless the copy fails
\* half-way.
EditsAreKept == arVhost.edit = arEdits \/ (arVhost.torn /\ arTrouble)

\* The rollout of the gateway can be undone: wherever a step of either script fails, is
\* interrupted or is repeated, also while the other script runs, the configuration
\* files, what was loaded from them and the report agree; the rollback's own commands
\* may fail too, and then files and edits that were there before are still kept.
RolloutIsReversible ==
  /\ MigrationIsReversible /\ RuntimeHasItsFiles
  /\ EndsAsReported /\ EditsAreKept
=============================================================================

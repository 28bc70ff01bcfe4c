--------------------------- MODULE HostFilesProofs ---------------------------
(***************************************************************************)
(* Proofs about the components that keep their state in files, links and   *)
(* processes of one host: the release links (ReleaseController), the       *)
(* activation of Cookie Monster (CookieActivation), the one-message pilot  *)
(* (MailPilot), the quarantine of attachments (MediaQuarantine), agent     *)
(* commits (RepositoryController), the connector's sessions                *)
(* (ConnectorSessions) and sign-in (ConnectorSignIn), staged changes of    *)
(* files (StagedProposals), the rollout of the outbound gateway            *)
(* (RuntimeMigration, ApacheRoute) and the relay's ingestion               *)
(* (CommsIngest).                                                          *)
(***************************************************************************)
EXTENDS ReleaseController, CookieActivation, MailPilot, MediaQuarantine,
        RepositoryController, ConnectorSessions, StagedProposals, ConnectorSignIn,
        ApacheRoute, CommsIngest, FiniteSetTheorems, SequenceTheorems, TLAPS

----------------------------------------------------------------------------
\* ReleaseController: promotion and rollback of release links.

\* The controller process inside promote(), and what state.json may hold.
RelSteps == {"recheck"} \cup ForwardSteps \cup UndoSteps
RelRuns == [at : RelSteps, transaction : {"promote", "rollback"}, target : Releases,
            oldCurrent : MaybeRelease, oldPrevious : MaybeRelease,
            backups : [Services -> MaybeRelease]]
RelStates == {NoState} \cup
  [status : {"succeeded"}, manifest : Manifests, previous : MaybeRelease] \cup
  [status : {"failed"}, manifest : Manifests, restored : BOOLEAN]

Known == relVerified \cup relSuspect \cup {NoRelease}

\* RelTypeOK with the whole types of the process and of state.json.
RelTyped ==
  /\ RelTypeOK /\ relRun \in {RelIdle} \cup RelRuns /\ relState \in RelStates

\* What promote() has read before it changes anything stays true.
RunIsSound ==
  relRun \in RelRuns =>
    /\ relRun.at # "recheck" => relRun.target # relRun.oldCurrent
    /\ relRun.target \in relPrepared
    /\ {relRun.oldCurrent, relRun.oldPrevious} \subseteq relPrepared \cup {NoRelease}
    /\ {relRun.oldCurrent, relRun.oldPrevious} \subseteq Known
    /\ relLinks.previous \in {relRun.oldCurrent, relRun.oldPrevious}

\* What the try block of promote() has done before each of its steps.
Forward ==
  relRun \in RelRuns =>
    /\ relRun.at \in {"dropin1", "dropin2", "previous", "current"} =>
         relLinks.current = relRun.oldCurrent
    /\ relRun.at \in {"dropin1", "dropin2", "previous"} => relLinks.previous = relRun.oldPrevious
    /\ relRun.at \in ForwardSteps \ {"dropin1", "dropin2", "previous"} =>
         (relRun.oldCurrent # NoRelease => relLinks.previous = relRun.oldCurrent)
    /\ relRun.at \in ForwardSteps \ {"dropin1", "dropin2", "previous", "current"} =>
         relLinks.current = relRun.target
    /\ relRun.at \in ForwardSteps \ {"dropin1"} => relDropins["operations"] = relRun.target
    /\ relRun.at \in ForwardSteps \ {"dropin1", "dropin2"} => relDropins["operator"] = relRun.target
    /\ relRun.at \in {"restart2", "postflight", "refresh", "record"} =>
         relRunning["operations"] = relRun.target
    /\ relRun.at \in {"postflight", "refresh", "record"} => relRunning["operator"] = relRun.target
    /\ relRun.at \in {"refresh", "record"} => relRun.target \in relVerified
    /\ relRun.at = "record" => relInstalled = relRun.target

\* What its except branch has undone before each of its steps.
Undone ==
  relRun \in RelRuns =>
    /\ relRun.at \in UndoSteps \ {"undoCurrent"} => relLinks.current = relRun.oldCurrent
    /\ relRun.at \in UndoSteps \ {"undoCurrent", "undoPrevious"} =>
         relLinks.previous = relRun.oldPrevious
    /\ relRun.at \in {"undoDropin2", "undoRestart1", "undoRestart2", "undoPostflight"} =>
         relDropins["operations"] = relRun.backups["operations"]
    /\ relRun.at \in {"undoRestart1", "undoRestart2", "undoPostflight"} =>
         relDropins["operator"] = relRun.backups["operator"]
    /\ relRun.at \in {"undoRestart2", "undoPostflight"} =>
         relRunning["operations"] = Booted("operations")
    /\ relRun.at = "undoPostflight" => relRunning["operator"] = Booted("operator")

\* PromotionIsSound while a call for the release that is current checks it, too.
Resting == relRun.at \in {"idle", "recheck"}
StateIsTrue ==
  Resting /\ ~relCutShort =>
    /\ relState.status = "succeeded" =>
         /\ relLinks.current = relState.manifest.target
         /\ relInstalled = relState.manifest.target
         /\ \A s \in Services : /\ relDropins[s] = relState.manifest.target
                                /\ relRunning[s] = relState.manifest.target
         /\ relState.previous # NoRelease => relLinks.previous = relState.previous
    /\ relState.status = "failed" /\ relState.restored =>
         /\ relLinks.current = relState.manifest.oldCurrent
         /\ relLinks.previous = relState.manifest.oldPrevious
         /\ relDropins = relState.manifest.backups
         /\ relLinks.current # relState.manifest.target
         /\ \A s \in Services : relRunning[s] = Booted(s)
LinksKnown == Resting => {relLinks.current, relLinks.previous} \subseteq Known

RelInv == RelTyped /\ RunIsSound /\ Forward /\ Undone /\ StateIsTrue /\ LinksKnown
----------------------------------------------------------------------------
\* GoTo() writes the step of the process and keeps its manifest.
LEMMA RunMoves ==
  ASSUME relRun \in RelRuns, NEW step \in RelSteps, GoTo(step)
  PROVE  /\ relRun' \in RelRuns /\ relRun'.at = step
         /\ relRun'.target = relRun.target /\ relRun'.transaction = relRun.transaction
         /\ relRun'.oldCurrent = relRun.oldCurrent /\ relRun'.oldPrevious = relRun.oldPrevious
         /\ relRun'.backups = relRun.backups
<1>1. PICK w \in RelRuns : w = relRun
  OBVIOUS
<1>2. relRun' = [w EXCEPT !.at = step]
  BY <1>1 DEF GoTo
<1>3. QED
  BY <1>1, <1>2 DEF RelRuns

\* Which steps there are.
LEMMA StepsDiffer ==
  /\ ForwardSteps \cup UndoSteps \subseteq RelSteps
  /\ ForwardSteps \cap UndoSteps = {}
  /\ "idle" \notin RelSteps /\ "recheck" \notin ForwardSteps \cup UndoSteps
  /\ RelIdle.at = "idle" /\ RelIdle \notin RelRuns
  /\ \A w \in RelRuns : w.at \in RelSteps
<1>1. "idle" \notin RelSteps /\ "recheck" \notin ForwardSteps \cup UndoSteps
  BY DEF RelSteps, ForwardSteps, UndoSteps
<1>2. ForwardSteps \cap UndoSteps = {}
  BY DEF ForwardSteps, UndoSteps
<1>3. RelIdle.at = "idle" /\ \A w \in RelRuns : w.at \in RelSteps
  BY DEF RelIdle, RelRuns
<1>4. QED
  BY <1>1, <1>2, <1>3 DEF RelSteps

\* The types of the manifest.
LEMMA RunTyped ==
  ASSUME NEW w \in RelRuns
  PROVE  /\ w.target \in Releases /\ w.oldCurrent \in MaybeRelease
         /\ w.oldPrevious \in MaybeRelease /\ w.backups \in [Services -> MaybeRelease]
         /\ w.transaction \in {"promote", "rollback"}
BY DEF RelRuns

\* A step of the process from one step of a transaction to another keeps the invariant
\* when it has done what the next step expects of it.
LEMMA MovesOn ==
  ASSUME RelInv, relRun \in RelRuns, relRun.at # "recheck",
         NEW step \in ForwardSteps \cup UndoSteps, GoTo(step),
         UNCHANGED <<relPrepared, relState, relBegun, relSuspect>>,
         relVerified \subseteq relVerified', relVerified' \subseteq relPrepared,
         relLinks' \in [{"current", "previous"} -> relPrepared \cup {NoRelease}],
         relLinks'.previous \in {relRun.oldCurrent, relRun.oldPrevious},
         relDropins' \in [Services -> MaybeRelease],
         relRunning' \in [Services -> MaybeRelease \cup {Legacy}],
         relInstalled' \in Releases \cup {Legacy},
         Forward', Undone'
  PROVE  RelInv'
<1>0. /\ RelTyped /\ RelTypeOK /\ RunIsSound /\ step \in RelSteps
      /\ step \notin {"idle", "recheck"}
  BY StepsDiffer DEF RelInv, RelTyped
<1>1. /\ relRun' \in RelRuns /\ relRun'.at = step
      /\ relRun'.target = relRun.target
      /\ relRun'.oldCurrent = relRun.oldCurrent /\ relRun'.oldPrevious = relRun.oldPrevious
  BY <1>0, RunMoves
<1>2. RelTyped'
  <2>1. RelTypeOK'
    BY <1>0, <1>1, StepsDiffer DEF RelTypeOK
  <2>2. QED
    BY <1>0, <1>1, <2>1 DEF RelTyped
<1>3. RunIsSound'
  BY <1>0, <1>1 DEF RunIsSound, Known
<1>4. StateIsTrue' /\ LinksKnown'
  BY <1>0, <1>1 DEF StateIsTrue, LinksKnown, Resting
<1>5. QED
  BY <1>2, <1>3, <1>4 DEF RelInv

\* A step of the try block.
LEMMA ForwardStep ==
  ASSUME RelInv,
         \/ InstallDropin("operations", "dropin1", "dropin2")
         \/ InstallDropin("operator", "dropin2", "previous")
         \/ MovePrevious \/ SwitchCurrent
         \/ RestartService("operations", "restart1", "restart2")
         \/ RestartService("operator", "restart2", "postflight")
         \/ PassPostflight \/ RefreshController
  PROVE  RelInv'
<1>0. /\ RelTyped /\ RelTypeOK /\ RunIsSound /\ Forward /\ Undone
  BY DEF RelInv, RelTyped
<1>1. relRun.at \in ForwardSteps \ {"record"}
  BY DEF InstallDropin, MovePrevious, SwitchCurrent, RestartService, PassPostflight,
         RefreshController, ForwardSteps
<1>2. relRun \in RelRuns /\ relRun.at # "recheck" /\ relRun.at \notin UndoSteps
  BY <1>0, <1>1, StepsDiffer DEF RelTyped
<1>3. /\ relRun.target \in Releases /\ relRun.oldCurrent \in MaybeRelease
      /\ relRun.target \in relPrepared /\ relRun.oldCurrent \in relPrepared \cup {NoRelease}
      /\ relRun.oldPrevious \in relPrepared \cup {NoRelease}
      /\ relLinks.previous \in {relRun.oldCurrent, relRun.oldPrevious}
      /\ relRun.target # NoRelease
  BY <1>0, <1>2, RunTyped, ReleasesDiffer DEF RunIsSound
<1>4. ASSUME NEW step \in ForwardSteps, GoTo(step)
      PROVE  /\ relRun' \in RelRuns /\ relRun'.at = step /\ relRun'.target = relRun.target
             /\ relRun'.oldCurrent = relRun.oldCurrent /\ relRun'.oldPrevious = relRun.oldPrevious
             /\ Undone'
  <2>1. /\ relRun' \in RelRuns /\ relRun'.at = step /\ relRun'.target = relRun.target
        /\ relRun'.oldCurrent = relRun.oldCurrent /\ relRun'.oldPrevious = relRun.oldPrevious
        /\ step \notin UndoSteps
    BY <1>2, <1>4, StepsDiffer, RunMoves
  <2>2. Undone'
    BY <2>1 DEF Undone, UndoSteps
  <2>3. QED
    BY <2>1, <2>2
<1>5. CASE InstallDropin("operations", "dropin1", "dropin2")
  <2>1. /\ relRun.at = "dropin1" /\ GoTo("dropin2") /\ "dropin2" \in ForwardSteps
        /\ relDropins' = [relDropins EXCEPT !["operations"] = relRun.target]
        /\ UNCHANGED <<relPrepared, relLinks, relRunning, relInstalled, relState,
                       relVerified, relSuspect, relBegun>>
    BY <1>5 DEF InstallDropin, ForwardSteps
  <2>2. /\ relRun' \in RelRuns /\ relRun'.at = "dropin2" /\ relRun'.target = relRun.target
        /\ relRun'.oldCurrent = relRun.oldCurrent /\ relRun'.oldPrevious = relRun.oldPrevious
        /\ Undone'
    BY <1>4, <2>1
  <2>3. relDropins' \in [Services -> MaybeRelease] /\ relDropins'["operations"] = relRun.target
    BY <1>0, <1>3, <2>1 DEF RelTypeOK, MaybeRelease, Services
  <2>4. Forward'
    BY <1>0, <1>2, <2>1, <2>2, <2>3 DEF Forward, ForwardSteps
  <2>5. QED
    BY <1>0, <1>2, <1>3, <2>1, <2>2, <2>3, <2>4, MovesOn DEF RelTypeOK
<1>6. CASE InstallDropin("operator", "dropin2", "previous")
  <2>1. /\ relRun.at = "dropin2" /\ GoTo("previous") /\ "previous" \in ForwardSteps
        /\ relDropins' = [relDropins EXCEPT !["operator"] = relRun.target]
        /\ UNCHANGED <<relPrepared, relLinks, relRunning, relInstalled, relState,
                       relVerified, relSuspect, relBegun>>
    BY <1>6 DEF InstallDropin, ForwardSteps
  <2>2. /\ relRun' \in RelRuns /\ relRun'.at = "previous" /\ relRun'.target = relRun.target
        /\ relRun'.oldCurrent = relRun.oldCurrent /\ relRun'.oldPrevious = relRun.oldPrevious
        /\ Undone'
    BY <1>4, <2>1
  <2>3. /\ relDropins' \in [Services -> MaybeRelease] /\ relDropins'["operator"] = relRun.target
        /\ relDropins'["operations"] = relDropins["operations"]
    BY <1>0, <1>3, <2>1 DEF RelTypeOK, MaybeRelease, Services
  <2>4. Forward'
    BY <1>0, <1>2, <2>1, <2>2, <2>3 DEF Forward, ForwardSteps
  <2>5. QED
    BY <1>0, <1>2, <1>3, <2>1, <2>2, <2>3, <2>4, MovesOn DEF RelTypeOK
<1>7. CASE MovePrevious
  <2>1. /\ relRun.at = "previous" /\ GoTo("current") /\ "current" \in ForwardSteps
        /\ relLinks' = IF relRun.oldCurrent = NoRelease THEN relLinks
                       ELSE [relLinks EXCEPT !.previous = relRun.oldCurrent]
        /\ UNCHANGED <<relPrepared, relDropins, relRunning, relInstalled, relState,
                       relVerified, relSuspect, relBegun>>
    BY <1>7 DEF MovePrevious, ForwardSteps
  <2>2. /\ relRun' \in RelRuns /\ relRun'.at = "current" /\ relRun'.target = relRun.target
        /\ relRun'.oldCurrent = relRun.oldCurrent /\ relRun'.oldPrevious = relRun.oldPrevious
        /\ Undone'
    BY <1>4, <2>1
  <2>3. /\ relLinks' \in [{"current", "previous"} -> relPrepared \cup {NoRelease}]
        /\ relLinks'.current = relLinks.current
        /\ relRun.oldCurrent # NoRelease => relLinks'.previous = relRun.oldCurrent
        /\ relRun.oldCurrent = NoRelease => relLinks'.previous = relLinks.previous
    BY <1>0, <1>3, <2>1 DEF RelTypeOK
  <2>4. Forward'
    BY <1>0, <1>2, <2>1, <2>2, <2>3 DEF Forward, ForwardSteps
  <2>5. QED
    BY <1>0, <1>2, <1>3, <2>1, <2>2, <2>3, <2>4, MovesOn DEF RelTypeOK
<1>8. CASE SwitchCurrent
  <2>1. /\ relRun.at = "current" /\ GoTo("restart1") /\ "restart1" \in ForwardSteps
        /\ relLinks' = [relLinks EXCEPT !.current = relRun.target]
        /\ UNCHANGED <<relPrepared, relDropins, relRunning, relInstalled, relState,
                       relVerified, relSuspect, relBegun>>
    BY <1>8 DEF SwitchCurrent, ForwardSteps
  <2>2. /\ relRun' \in RelRuns /\ relRun'.at = "restart1" /\ relRun'.target = relRun.target
        /\ relRun'.oldCurrent = relRun.oldCurrent /\ relRun'.oldPrevious = relRun.oldPrevious
        /\ Undone'
    BY <1>4, <2>1
  <2>3. /\ relLinks' \in [{"current", "previous"} -> relPrepared \cup {NoRelease}]
        /\ relLinks'.current = relRun.target /\ relLinks'.previous = relLinks.previous
    BY <1>0, <1>3, <2>1 DEF RelTypeOK
  <2>4. Forward'
    BY <1>0, <1>2, <2>1, <2>2, <2>3 DEF Forward, ForwardSteps
  <2>5. QED
    BY <1>0, <1>2, <1>3, <2>1, <2>2, <2>3, <2>4, MovesOn DEF RelTypeOK
<1>9. CASE RestartService("operations", "restart1", "restart2")
  <2>1. /\ relRun.at = "restart1" /\ GoTo("restart2") /\ "restart2" \in ForwardSteps
        /\ relRunning' = [relRunning EXCEPT !["operations"] = Booted("operations")]
        /\ UNCHANGED <<relPrepared, relLinks, relDropins, relInstalled, relState,
                       relVerified, relSuspect, relBegun>>
    BY <1>9 DEF RestartService, ForwardSteps
  <2>2. /\ relRun' \in RelRuns /\ relRun'.at = "restart2" /\ relRun'.target = relRun.target
        /\ relRun'.oldCurrent = relRun.oldCurrent /\ relRun'.oldPrevious = relRun.oldPrevious
        /\ Undone'
    BY <1>4, <2>1
  <2>3. Booted("operations") = relRun.target
    BY <1>0, <1>2, <1>3, <2>1 DEF Forward, Booted, ForwardSteps
  <2>4. /\ relRunning' \in [Services -> MaybeRelease \cup {Legacy}]
        /\ relRunning'["operations"] = relRun.target
    BY <1>0, <1>3, <2>1, <2>3 DEF RelTypeOK, MaybeRelease, Services
  <2>5. Forward'
    BY <1>0, <1>2, <2>1, <2>2, <2>4 DEF Forward, ForwardSteps
  <2>6. QED
    BY <1>0, <1>2, <1>3, <2>1, <2>2, <2>4, <2>5, MovesOn DEF RelTypeOK
<1>10. CASE RestartService("operator", "restart2", "postflight")
  <2>1. /\ relRun.at = "restart2" /\ GoTo("postflight") /\ "postflight" \in ForwardSteps
        /\ relRunning' = [relRunning EXCEPT !["operator"] = Booted("operator")]
        /\ UNCHANGED <<relPrepared, relLinks, relDropins, relInstalled, relState,
                       relVerified, relSuspect, relBegun>>
    BY <1>10 DEF RestartService, ForwardSteps
  <2>2. /\ relRun' \in RelRuns /\ relRun'.at = "postflight" /\ relRun'.target = relRun.target
        /\ relRun'.oldCurrent = relRun.oldCurrent /\ relRun'.oldPrevious = relRun.oldPrevious
        /\ Undone'
    BY <1>4, <2>1
  <2>3. Booted("operator") = relRun.target
    BY <1>0, <1>2, <1>3, <2>1 DEF Forward, Booted, ForwardSteps
  <2>4. /\ relRunning' \in [Services -> MaybeRelease \cup {Legacy}]
        /\ relRunning'["operator"] = relRun.target
        /\ relRunning'["operations"] = relRunning["operations"]
    BY <1>0, <1>3, <2>1, <2>3 DEF RelTypeOK, MaybeRelease, Services
  <2>5. Forward'
    BY <1>0, <1>2, <2>1, <2>2, <2>4 DEF Forward, ForwardSteps
  <2>6. QED
    BY <1>0, <1>2, <1>3, <2>1, <2>2, <2>4, <2>5, MovesOn DEF RelTypeOK
<1>11. CASE PassPostflight
  <2>1. /\ relRun.at = "postflight" /\ GoTo("refresh") /\ "refresh" \in ForwardSteps
        /\ relVerified' = relVerified \cup {relRun.target}
        /\ UNCHANGED <<relPrepared, relLinks, relDropins, relRunning, relInstalled, relState,
                       relSuspect, relBegun>>
    BY <1>11 DEF PassPostflight, ForwardSteps
  <2>2. /\ relRun' \in RelRuns /\ relRun'.at = "refresh" /\ relRun'.target = relRun.target
        /\ relRun'.oldCurrent = relRun.oldCurrent /\ relRun'.oldPrevious = relRun.oldPrevious
        /\ Undone'
    BY <1>4, <2>1
  <2>3. relVerified \subseteq relVerified' /\ relVerified' \subseteq relPrepared
    BY <1>0, <1>3, <2>1 DEF RelTypeOK
  <2>4. Forward'
    BY <1>0, <1>2, <2>1, <2>2, <2>3 DEF Forward, ForwardSteps
  <2>5. QED
    BY <1>0, <1>2, <1>3, <2>1, <2>2, <2>3, <2>4, MovesOn DEF RelTypeOK
<1>12. CASE RefreshController
  <2>1. /\ relRun.at = "refresh" /\ GoTo("record") /\ "record" \in ForwardSteps
        /\ relInstalled' = relRun.target
        /\ UNCHANGED <<relPrepared, relLinks, relDropins, relRunning, relState,
                       relVerified, relSuspect, relBegun>>
    BY <1>12 DEF RefreshController, ForwardSteps
  <2>2. /\ relRun' \in RelRuns /\ relRun'.at = "record" /\ relRun'.target = relRun.target
        /\ relRun'.oldCurrent = relRun.oldCurrent /\ relRun'.oldPrevious = relRun.oldPrevious
        /\ Undone'
    BY <1>4, <2>1
  <2>3. Forward'
    BY <1>0, <1>2, <2>1, <2>2 DEF Forward, ForwardSteps
  <2>4. QED
    BY <1>0, <1>2, <1>3, <2>1, <2>2, <2>3, MovesOn DEF RelTypeOK
<1>13. QED
  BY <1>5, <1>6, <1>7, <1>8, <1>9, <1>10, <1>11, <1>12

\* A step of the except branch.
LEMMA UndoStep ==
  ASSUME RelInv,
         \/ UndoLink("current", relRun.oldCurrent, "undoCurrent", "undoPrevious")
         \/ UndoLink("previous", relRun.oldPrevious, "undoPrevious", "undoDropin1")
         \/ UndoDropin("operations", "undoDropin1", "undoDropin2")
         \/ UndoDropin("operator", "undoDropin2", "undoRestart1")
         \/ RestartService("operations", "undoRestart1", "undoRestart2")
         \/ RestartService("operator", "undoRestart2", "undoPostflight")
  PROVE  RelInv'
<1>0. /\ RelTyped /\ RelTypeOK /\ RunIsSound /\ Forward /\ Undone
  BY DEF RelInv, RelTyped
<1>1. relRun.at \in UndoSteps
  BY DEF UndoLink, UndoDropin, RestartService, UndoSteps
<1>2. relRun \in RelRuns /\ relRun.at # "recheck"
  BY <1>0, <1>1, StepsDiffer DEF RelTyped
<1>3. /\ relRun.oldCurrent \in relPrepared \cup {NoRelease}
      /\ relRun.oldPrevious \in relPrepared \cup {NoRelease}
      /\ relLinks.previous \in {relRun.oldCurrent, relRun.oldPrevious}
      /\ relRun.backups \in [Services -> MaybeRelease]
      /\ \A s \in Services : Booted(s) \in MaybeRelease \cup {Legacy}
  <2>1. \A s \in Services : Booted(s) \in MaybeRelease \cup {Legacy}
    BY <1>0 DEF Booted, RelTypeOK, MaybeRelease
  <2>2. QED
    BY <1>0, <1>2, <2>1, RunTyped DEF RunIsSound
<1>4. ASSUME NEW step \in UndoSteps, GoTo(step)
      PROVE  /\ relRun' \in RelRuns /\ relRun'.at = step
             /\ relRun'.oldCurrent = relRun.oldCurrent /\ relRun'.oldPrevious = relRun.oldPrevious
             /\ relRun'.backups = relRun.backups /\ Forward'
  <2>1. /\ relRun' \in RelRuns /\ relRun'.at = step
        /\ relRun'.oldCurrent = relRun.oldCurrent /\ relRun'.oldPrevious = relRun.oldPrevious
        /\ relRun'.backups = relRun.backups /\ step \notin ForwardSteps
    BY <1>2, <1>4, StepsDiffer, RunMoves
  <2>2. Forward'
    BY <2>1 DEF Forward, ForwardSteps
  <2>3. QED
    BY <2>1, <2>2
<1>5. CASE UndoLink("current", relRun.oldCurrent, "undoCurrent", "undoPrevious")
  <2>1. /\ relRun.at = "undoCurrent" /\ GoTo("undoPrevious") /\ "undoPrevious" \in UndoSteps
        /\ relLinks' = [relLinks EXCEPT !["current"] = relRun.oldCurrent]
        /\ UNCHANGED <<relPrepared, relDropins, relRunning, relInstalled, relState,
                       relVerified, relSuspect, relBegun>>
    BY <1>5 DEF UndoLink, UndoDropin, RestartService, UndoSteps
  <2>2. /\ relLinks' \in [{"current", "previous"} -> relPrepared \cup {NoRelease}]
        /\ relLinks'.current = relRun.oldCurrent /\ relLinks'.previous = relLinks.previous
    BY <1>0, <1>3, <2>1 DEF RelTypeOK
  <2>3. /\ relRun' \in RelRuns /\ relRun'.at = "undoPrevious"
        /\ relRun'.oldCurrent = relRun.oldCurrent /\ relRun'.oldPrevious = relRun.oldPrevious
        /\ relRun'.backups = relRun.backups /\ Forward'
    BY <1>4, <2>1
  <2>4. Undone'
    BY <1>0, <1>2, <2>1, <2>2, <2>3 DEF Undone, UndoSteps, Booted
  <2>5. QED
    BY <1>0, <1>2, <1>3, <2>1, <2>2, <2>3, <2>4, MovesOn DEF RelTypeOK
<1>6. CASE UndoLink("previous", relRun.oldPrevious, "undoPrevious", "undoDropin1")
  <2>1. /\ relRun.at = "undoPrevious" /\ GoTo("undoDropin1") /\ "undoDropin1" \in UndoSteps
        /\ relLinks' = [relLinks EXCEPT !["previous"] = relRun.oldPrevious]
        /\ UNCHANGED <<relPrepared, relDropins, relRunning, relInstalled, relState,
                       relVerified, relSuspect, relBegun>>
    BY <1>6 DEF UndoLink, UndoDropin, RestartService, UndoSteps
  <2>2. /\ relLinks' \in [{"current", "previous"} -> relPrepared \cup {NoRelease}]
        /\ relLinks'.previous = relRun.oldPrevious /\ relLinks'.current = relLinks.current
    BY <1>0, <1>3, <2>1 DEF RelTypeOK
  <2>3. /\ relRun' \in RelRuns /\ relRun'.at = "undoDropin1"
        /\ relRun'.oldCurrent = relRun.oldCurrent /\ relRun'.oldPrevious = relRun.oldPrevious
        /\ relRun'.backups = relRun.backups /\ Forward'
    BY <1>4, <2>1
  <2>4. Undone'
    BY <1>0, <1>2, <2>1, <2>2, <2>3 DEF Undone, UndoSteps, Booted
  <2>5. QED
    BY <1>0, <1>2, <1>3, <2>1, <2>2, <2>3, <2>4, MovesOn DEF RelTypeOK
<1>7. CASE UndoDropin("operations", "undoDropin1", "undoDropin2")
  <2>1. /\ relRun.at = "undoDropin1" /\ GoTo("undoDropin2") /\ "undoDropin2" \in UndoSteps
        /\ relDropins' = [relDropins EXCEPT !["operations"] = relRun.backups["operations"]]
        /\ UNCHANGED <<relPrepared, relLinks, relRunning, relInstalled, relState,
                       relVerified, relSuspect, relBegun>>
    BY <1>7 DEF UndoLink, UndoDropin, RestartService, UndoSteps
  <2>2. /\ relDropins' \in [Services -> MaybeRelease]
        /\ relDropins'["operations"] = relRun.backups["operations"]
    BY <1>0, <1>3, <2>1 DEF RelTypeOK, Services
  <2>3. /\ relRun' \in RelRuns /\ relRun'.at = "undoDropin2"
        /\ relRun'.oldCurrent = relRun.oldCurrent /\ relRun'.oldPrevious = relRun.oldPrevious
        /\ relRun'.backups = relRun.backups /\ Forward'
    BY <1>4, <2>1
  <2>4. Undone'
    BY <1>0, <1>2, <2>1, <2>2, <2>3 DEF Undone, UndoSteps, Booted
  <2>5. QED
    BY <1>0, <1>2, <1>3, <2>1, <2>2, <2>3, <2>4, MovesOn DEF RelTypeOK
<1>8. CASE UndoDropin("operator", "undoDropin2", "undoRestart1")
  <2>1. /\ relRun.at = "undoDropin2" /\ GoTo("undoRestart1") /\ "undoRestart1" \in UndoSteps
        /\ relDropins' = [relDropins EXCEPT !["operator"] = relRun.backups["operator"]]
        /\ UNCHANGED <<relPrepared, relLinks, relRunning, relInstalled, relState,
                       relVerified, relSuspect, relBegun>>
    BY <1>8 DEF UndoLink, UndoDropin, RestartService, UndoSteps
  <2>2. /\ relDropins' \in [Services -> MaybeRelease]
        /\ relDropins'["operator"] = relRun.backups["operator"]
        /\ relDropins'["operations"] = relDropins["operations"]
    BY <1>0, <1>3, <2>1 DEF RelTypeOK, Services
  <2>3. /\ relRun' \in RelRuns /\ relRun'.at = "undoRestart1"
        /\ relRun'.oldCurrent = relRun.oldCurrent /\ relRun'.oldPrevious = relRun.oldPrevious
        /\ relRun'.backups = relRun.backups /\ Forward'
    BY <1>4, <2>1
  <2>4. Undone'
    BY <1>0, <1>2, <2>1, <2>2, <2>3 DEF Undone, UndoSteps, Booted
  <2>5. QED
    BY <1>0, <1>2, <1>3, <2>1, <2>2, <2>3, <2>4, MovesOn DEF RelTypeOK
<1>9. CASE RestartService("operations", "undoRestart1", "undoRestart2")
  <2>1. /\ relRun.at = "undoRestart1" /\ GoTo("undoRestart2") /\ "undoRestart2" \in UndoSteps
        /\ relRunning' = [relRunning EXCEPT !["operations"] = Booted("operations")]
        /\ UNCHANGED <<relPrepared, relLinks, relDropins, relInstalled, relState,
                       relVerified, relSuspect, relBegun>>
    BY <1>9 DEF UndoLink, UndoDropin, RestartService, UndoSteps
  <2>2. /\ relRunning' \in [Services -> MaybeRelease \cup {Legacy}]
        /\ relRunning'["operations"] = Booted("operations")
    BY <1>0, <1>3, <2>1 DEF RelTypeOK, Services
  <2>3. /\ relRun' \in RelRuns /\ relRun'.at = "undoRestart2"
        /\ relRun'.oldCurrent = relRun.oldCurrent /\ relRun'.oldPrevious = relRun.oldPrevious
        /\ relRun'.backups = relRun.backups /\ Forward'
    BY <1>4, <2>1
  <2>4. Undone'
    BY <1>0, <1>2, <2>1, <2>2, <2>3 DEF Undone, UndoSteps, Booted
  <2>5. QED
    BY <1>0, <1>2, <1>3, <2>1, <2>2, <2>3, <2>4, MovesOn DEF RelTypeOK
<1>10. CASE RestartService("operator", "undoRestart2", "undoPostflight")
  <2>1. /\ relRun.at = "undoRestart2" /\ GoTo("undoPostflight") /\ "undoPostflight" \in UndoSteps
        /\ relRunning' = [relRunning EXCEPT !["operator"] = Booted("operator")]
        /\ UNCHANGED <<relPrepared, relLinks, relDropins, relInstalled, relState,
                       relVerified, relSuspect, relBegun>>
    BY <1>10 DEF UndoLink, UndoDropin, RestartService, UndoSteps
  <2>2. /\ relRunning' \in [Services -> MaybeRelease \cup {Legacy}]
        /\ relRunning'["operator"] = Booted("operator")
        /\ relRunning'["operations"] = relRunning["operations"]
    BY <1>0, <1>3, <2>1 DEF RelTypeOK, Services
  <2>3. /\ relRun' \in RelRuns /\ relRun'.at = "undoPostflight"
        /\ relRun'.oldCurrent = relRun.oldCurrent /\ relRun'.oldPrevious = relRun.oldPrevious
        /\ relRun'.backups = relRun.backups /\ Forward'
    BY <1>4, <2>1
  <2>4. Undone'
    BY <1>0, <1>2, <2>1, <2>2, <2>3 DEF Undone, UndoSteps, Booted
  <2>5. QED
    BY <1>0, <1>2, <1>3, <2>1, <2>2, <2>3, <2>4, MovesOn DEF RelTypeOK
<1>11. QED
  BY <1>5, <1>6, <1>7, <1>8, <1>9, <1>10

\* A step of the try block raises, a restart with its service left down.
LEMMA FailStep ==
  ASSUME RelInv,
         \/ StepFails
         \/ RestartFails("operations", "restart1", "undoCurrent")
         \/ RestartFails("operator", "restart2", "undoCurrent")
  PROVE  RelInv'
<1>0. /\ RelTyped /\ RelTypeOK /\ RunIsSound
  BY DEF RelInv, RelTyped
<1>1. /\ relRun.at \in ForwardSteps /\ GoTo("undoCurrent") /\ "undoCurrent" \in UndoSteps
      /\ UNCHANGED <<relPrepared, relLinks, relDropins, relInstalled, relState,
                     relVerified, relSuspect, relBegun>>
  BY DEF StepFails, RestartFails, ForwardSteps, UndoSteps
<1>2. relRun \in RelRuns /\ relRun.at # "recheck"
  BY <1>0, <1>1, StepsDiffer DEF RelTyped
<1>3. relRunning' \in [Services -> MaybeRelease \cup {Legacy}]
  BY <1>0 DEF RelTypeOK, StepFails, RestartFails, Services, MaybeRelease
<1>4. relRun' \in RelRuns /\ relRun'.at = "undoCurrent"
  BY <1>1, <1>2, StepsDiffer, RunMoves
<1>5. Forward' /\ Undone'
  BY <1>4 DEF Forward, Undone, ForwardSteps
<1>6. relLinks.previous \in {relRun.oldCurrent, relRun.oldPrevious}
  BY <1>0, <1>2 DEF RunIsSound
<1>7. QED
  BY <1>0, <1>1, <1>2, <1>3, <1>5, <1>6, MovesOn DEF RelTypeOK

\* The controller stands still again: there is no transaction to speak of.
LEMMA Rests ==
  ASSUME RelTyped', relRun' = RelIdle, StateIsTrue', LinksKnown'
  PROVE  RelInv'
<1>1. relRun' \notin RelRuns
  BY StepsDiffer
<1>2. RunIsSound' /\ Forward' /\ Undone'
  BY <1>1 DEF RunIsSound, Forward, Undone
<1>3. QED
  BY <1>2 DEF RelInv

\* state.json repeats the manifest.
LEMMA ManifestTyped ==
  ASSUME relRun \in RelRuns
  PROVE  /\ Manifest \in Manifests /\ Manifest.target = relRun.target
         /\ Manifest.oldCurrent = relRun.oldCurrent /\ Manifest.oldPrevious = relRun.oldPrevious
         /\ Manifest.backups = relRun.backups
<1>1. Manifest \in Manifests
  BY RunTyped DEF Manifest, Manifests
<1>2. QED
  BY <1>1 DEF Manifest

\* The end of a transaction that reached it.
LEMMA SuccessStep ==
  ASSUME RelInv, RecordSuccess
  PROVE  RelInv'
<1>0. /\ RelTyped /\ RelTypeOK /\ RunIsSound /\ Forward
      /\ relRun.at = "record" /\ relRun' = RelIdle /\ relCutShort' = FALSE
      /\ UNCHANGED <<relPrepared, relLinks, relDropins, relRunning, relInstalled,
                     relVerified, relSuspect, relBegun>>
  BY DEF RelInv, RelTyped, RecordSuccess
<1>1. relRun \in RelRuns
  BY <1>0, StepsDiffer DEF RelTyped
<1>2. PICK m \in Manifests :
        /\ m = Manifest /\ m.target = relRun.target
        /\ m.oldCurrent = relRun.oldCurrent /\ m.oldPrevious = relRun.oldPrevious
  BY <1>1, ManifestTyped
<1>3. relRun.oldCurrent \in MaybeRelease
  BY <1>1, RunTyped
<1>4. relState' = [status |-> "succeeded", manifest |-> m, previous |-> relRun.oldCurrent]
  BY <1>2 DEF RecordSuccess
<1>5. /\ relState' \in RelStates /\ relState'.status = "succeeded" /\ relState'.manifest = m
      /\ relState'.previous = relRun.oldCurrent
  BY <1>3, <1>4 DEF RelStates
<1>6. RelTyped'
  BY <1>0, <1>5, StepsDiffer DEF RelTyped, RelTypeOK
<1>7. StateIsTrue'
  BY <1>0, <1>1, <1>2, <1>5 DEF StateIsTrue, Forward, ForwardSteps, Services
<1>8. LinksKnown'
  BY <1>0, <1>1 DEF LinksKnown, Known, RunIsSound, Forward, ForwardSteps
<1>9. QED
  BY <1>0, <1>6, <1>7, <1>8, Rests

\* What a service starts with is never the release that could not be promoted, when the
\* links and the drop-ins are as they were before.
LEMMA FailureStep ==
  ASSUME RelInv, UndoComplete \/ UndoFails
  PROVE  RelInv'
<1>0. /\ RelTyped /\ RelTypeOK /\ RunIsSound /\ Undone
      /\ relRun.at \in UndoSteps /\ relRun' = RelIdle /\ relCutShort' = FALSE
      /\ UNCHANGED <<relPrepared, relLinks, relDropins, relRunning, relInstalled,
                     relVerified, relBegun>>
  BY DEF RelInv, RelTyped, UndoComplete, UndoFails, RecordFailure, UndoSteps
<1>1. relRun \in RelRuns /\ relRun.at # "recheck"
  BY <1>0, StepsDiffer DEF RelTyped
<1>2. PICK m \in Manifests :
        /\ m = Manifest /\ m.target = relRun.target /\ m.backups = relRun.backups
        /\ m.oldCurrent = relRun.oldCurrent /\ m.oldPrevious = relRun.oldPrevious
  BY <1>1, ManifestTyped
<1>3. PICK ok \in BOOLEAN :
        /\ relState' = [status |-> "failed", manifest |-> m, restored |-> ok]
        /\ ok => relRun.at = "undoPostflight" /\ UNCHANGED relSuspect
        /\ ~ok => relSuspect' = relSuspect \cup ({relLinks.current} \ {NoRelease})
  <2>1. CASE UndoComplete
    BY <1>2, <2>1 DEF UndoComplete, RecordFailure
  <2>2. CASE UndoFails
    BY <1>2, <2>2 DEF UndoFails, RecordFailure
  <2>3. QED
    BY <2>1, <2>2
<1>4. /\ relState' \in RelStates /\ relState'.status = "failed" /\ relState'.manifest = m
      /\ relState'.restored = ok
  BY <1>3 DEF RelStates
<1>5. RelTyped'
  <2>1. relSuspect' \subseteq relPrepared
    BY <1>0, <1>3 DEF RelTypeOK
  <2>2. RelTypeOK'
    BY <1>0, <1>4, <2>1, StepsDiffer DEF RelTypeOK
  <2>3. QED
    BY <1>0, <1>4, <2>2 DEF RelTyped
<1>6. StateIsTrue'
  <2>1. CASE ok
    <3>1. /\ relLinks.current = m.oldCurrent /\ relLinks.previous = m.oldPrevious
          /\ relLinks.current # m.target
          /\ \A s \in Services : relDropins[s] = m.backups[s] /\ relRunning[s] = Booted(s)
      BY <1>0, <1>1, <1>2, <1>3, <2>1 DEF Undone, UndoSteps, Services, RunIsSound
    <3>2. relDropins = m.backups
      BY <1>0, <1>1, <1>2, <3>1, RunTyped DEF RelTypeOK
    <3>3. \A s \in Services : Booted(s)' = Booted(s)
      BY <1>0 DEF Booted
    <3>4. QED
      BY <1>0, <1>4, <3>1, <3>2, <3>3 DEF StateIsTrue
  <2>2. CASE ~ok
    BY <1>4, <2>2 DEF StateIsTrue
  <2>3. QED
    BY <2>1, <2>2
<1>7. LinksKnown'
  <2>1. relLinks.current \in Known'
    BY <1>0, <1>1, <1>3 DEF Known, RunIsSound, Undone, UndoSteps
  <2>2. relLinks.previous \in Known'
    BY <1>0, <1>1, <1>3 DEF Known, RunIsSound
  <2>3. QED
    BY <1>0, <2>1, <2>2 DEF LinksKnown
<1>8. QED
  BY <1>0, <1>5, <1>6, <1>7, Rests

LEMMA DieStep ==
  ASSUME RelInv, ControllerDies
  PROVE  RelInv'
<1>0. /\ RelTyped /\ RelTypeOK /\ RunIsSound
      /\ relRun.at \in ForwardSteps \cup UndoSteps /\ relRun' = RelIdle /\ relCutShort' = TRUE
      /\ relSuspect' = relSuspect \cup ({relLinks.current} \ {NoRelease})
      /\ UNCHANGED <<relPrepared, relLinks, relDropins, relRunning, relInstalled, relState,
                     relVerified, relBegun>>
  BY DEF RelInv, RelTyped, ControllerDies
<1>1. relRun \in RelRuns
  BY <1>0, StepsDiffer DEF RelTyped
<1>2. RelTyped'
  <2>1. relSuspect' \subseteq relPrepared
    BY <1>0 DEF RelTypeOK
  <2>2. RelTypeOK'
    BY <1>0, <2>1, StepsDiffer DEF RelTypeOK
  <2>3. QED
    BY <1>0, <2>2 DEF RelTyped
<1>3. LinksKnown'
  <2>1. relLinks.current \in Known' /\ relLinks.previous \in Known'
    BY <1>0, <1>1 DEF Known, RunIsSound
  <2>2. QED
    BY <1>0, <2>1 DEF LinksKnown
<1>4. StateIsTrue'
  BY <1>0 DEF StateIsTrue
<1>5. QED
  BY <1>0, <1>2, <1>3, <1>4, Rests

\* promote() begins, or rollback-last does with a release it has found.
LEMMA BeginsStep ==
  ASSUME RelInv, NEW r \in Releases, NEW why \in {"promote", "rollback"}, BeginPromote(r, why)
  PROVE  RelInv'
<1>0. /\ RelTyped /\ RelTypeOK /\ StateIsTrue /\ LinksKnown
      /\ relRun = RelIdle /\ relPrepared' = relPrepared \cup {r}
      /\ relBegun < MaxTransactions /\ relBegun' = relBegun + 1
      /\ UNCHANGED <<relLinks, relDropins, relRunning, relInstalled, relState,
                     relCutShort, relVerified, relSuspect>>
  BY DEF RelInv, RelTyped, BeginPromote
<1>1. PICK at \in {"recheck", "dropin1"} :
        /\ at = "recheck" <=> relLinks.current = r
        /\ relRun' = [at |-> at, transaction |-> why, target |-> r,
                      oldCurrent |-> relLinks.current,
                      oldPrevious |-> relLinks.previous, backups |-> relDropins]
  BY DEF BeginPromote
<1>2. /\ relLinks.current \in MaybeRelease /\ relLinks.previous \in MaybeRelease
      /\ relLinks.current \in relPrepared \cup {NoRelease}
      /\ relLinks.previous \in relPrepared \cup {NoRelease}
      /\ relDropins \in [Services -> MaybeRelease] /\ relBegun \in 0..MaxTransactions
  BY <1>0 DEF RelTypeOK, MaybeRelease
<1>3. at \in RelSteps
  BY DEF RelSteps, ForwardSteps
<1>4. relRun' \in RelRuns
  BY <1>1, <1>2, <1>3 DEF RelRuns
<1>5. /\ relRun'.at = at /\ relRun'.target = r /\ relRun'.oldCurrent = relLinks.current
      /\ relRun'.oldPrevious = relLinks.previous
  BY <1>1
<1>6. RelTyped'
  <2>1. relBegun' \in 0..MaxTransactions
    BY <1>0, <1>2, ReleasesDiffer
  <2>2. /\ relPrepared' \subseteq Releases
        /\ relLinks' \in [{"current", "previous"} -> relPrepared' \cup {NoRelease}]
        /\ relVerified' \cup relSuspect' \subseteq relPrepared'
    BY <1>0 DEF RelTypeOK
  <2>3. relRun'.at \in {"idle", "recheck"} \cup ForwardSteps \cup UndoSteps
    BY <1>3, <1>5 DEF RelSteps
  <2>4. RelTypeOK'
    BY <1>0, <2>1, <2>2, <2>3 DEF RelTypeOK
  <2>5. QED
    BY <1>0, <1>4, <2>4 DEF RelTyped
<1>7. RunIsSound'
  BY <1>0, <1>1, <1>2, <1>5, StepsDiffer DEF RunIsSound, LinksKnown, Resting, Known
<1>8. Forward' /\ Undone'
  BY <1>0, <1>5 DEF Forward, Undone, ForwardSteps, UndoSteps
<1>9. StateIsTrue' /\ LinksKnown'
  <2>1. Resting
    BY <1>0, StepsDiffer DEF Resting
  <2>2. \A s : Booted(s)' = Booted(s)
    BY <1>0 DEF Booted
  <2>3. QED
    BY <1>0, <2>1, <2>2 DEF StateIsTrue, LinksKnown, Known
<1>10. QED
  BY <1>6, <1>7, <1>8, <1>9 DEF RelInv

\* promote() of the current release ends, and prepare() outside a transaction.
LEMMA QuietStep ==
  ASSUME RelInv,
         EndRecheck \/ (\E r \in Releases : PrepareRelease(r)) \/ UNCHANGED relVars
  PROVE  RelInv'
<1>0. /\ RelTyped /\ RelTypeOK /\ RunIsSound /\ Forward /\ Undone /\ StateIsTrue /\ LinksKnown
  BY DEF RelInv, RelTyped
<1>1. /\ relPrepared \subseteq relPrepared' /\ relPrepared' \subseteq Releases
      /\ UNCHANGED <<relLinks, relDropins, relRunning, relInstalled, relState,
                     relCutShort, relVerified, relSuspect, relBegun>>
  BY <1>0 DEF EndRecheck, PrepareRelease, relVars, RelTypeOK
<1>2. \A s : Booted(s)' = Booted(s)
  BY <1>1 DEF Booted
<1>3. relRun' = relRun \/ (relRun.at = "recheck" /\ relRun' = RelIdle)
  BY DEF EndRecheck, PrepareRelease, relVars
<1>4. RelTyped'
  <2>1. relLinks' \in [{"current", "previous"} -> relPrepared' \cup {NoRelease}]
    BY <1>0, <1>1 DEF RelTypeOK
  <2>2. RelTypeOK'
    BY <1>0, <1>1, <1>3, <2>1, StepsDiffer DEF RelTypeOK
  <2>3. QED
    BY <1>0, <1>1, <1>3, <2>2 DEF RelTyped
<1>5. StateIsTrue' /\ LinksKnown'
  <2>1. Resting' => Resting
    BY <1>3 DEF Resting
  <2>2. QED
    BY <1>0, <1>1, <1>2, <2>1 DEF StateIsTrue, LinksKnown, Known
<1>6. CASE relRun' = relRun
  <2>1. RunIsSound'
    BY <1>0, <1>1, <1>6 DEF RunIsSound, Known
  <2>2. Forward' /\ Undone'
    BY <1>0, <1>1, <1>2, <1>6 DEF Forward, Undone
  <2>3. QED
    BY <1>4, <1>5, <2>1, <2>2 DEF RelInv
<1>7. CASE relRun' = RelIdle
  BY <1>4, <1>5, <1>7, Rests
<1>8. QED
  BY <1>3, <1>6, <1>7

\* systemd restarts a service: it starts what a transaction or state.json says.
LEMMA RestartStep ==
  ASSUME RelInv, NEW s \in Services, ServiceRestarts(s)
  PROVE  RelInv'
<1>0. /\ RelTyped /\ RelTypeOK /\ RunIsSound /\ Forward /\ Undone /\ StateIsTrue /\ LinksKnown
      /\ UNCHANGED <<relPrepared, relLinks, relDropins, relInstalled, relState,
                     relRun, relCutShort, relVerified, relSuspect, relBegun>>
  BY DEF RelInv, RelTyped, ServiceRestarts
<1>1. Booted(s) \in MaybeRelease \cup {Legacy}
  BY <1>0 DEF Booted, RelTypeOK, MaybeRelease
<1>2. /\ relRunning' \in [Services -> MaybeRelease \cup {Legacy}]
      /\ relRunning'[s] = Booted(s) /\ \A x \in Services : x # s => relRunning'[x] = relRunning[x]
  BY <1>0, <1>1 DEF ServiceRestarts, RelTypeOK
<1>3. \A x : Booted(x)' = Booted(x)
  BY <1>0 DEF Booted
<1>4. RelTyped' /\ RunIsSound' /\ LinksKnown'
  BY <1>0, <1>2 DEF RelTyped, RelTypeOK, RunIsSound, Known, LinksKnown, Resting
<1>5. Forward'
  <2>1. relRun \in RelRuns /\ relRun.at \in {"restart2", "postflight", "refresh", "record"} =>
          Booted("operations") = relRun.target
    BY <1>0, RunTyped, ReleasesDiffer DEF Forward, ForwardSteps, Booted
  <2>2. relRun \in RelRuns /\ relRun.at \in {"postflight", "refresh", "record"} =>
          Booted("operator") = relRun.target
    BY <1>0, RunTyped, ReleasesDiffer DEF Forward, ForwardSteps, Booted
  <2>3. QED
    BY <1>0, <1>2, <2>1, <2>2 DEF Forward, Services
<1>6. Undone'
  BY <1>0, <1>2, <1>3 DEF Undone, Services
<1>7. StateIsTrue'
  <2>1. ASSUME Resting, ~relCutShort, relState.status = "succeeded"
        PROVE  Booted(s) = relState.manifest.target
    <3>1. relLinks.current = relState.manifest.target /\ relDropins[s] = relState.manifest.target
      BY <1>0, <2>1 DEF StateIsTrue
    <3>2. relState.manifest \in Manifests
      BY <1>0, <2>1 DEF RelTypeOK, NoState
    <3>3. relState.manifest.target # NoRelease
      BY <3>2, ReleasesDiffer DEF Manifests
    <3>4. QED
      BY <3>1, <3>3 DEF Booted
  <2>2. Resting' <=> Resting
    BY <1>0 DEF Resting
  <2>3. QED
    BY <1>0, <1>2, <1>3, <2>1, <2>2 DEF StateIsTrue
<1>8. QED
  BY <1>4, <1>5, <1>6, <1>7 DEF RelInv

LEMMA RelStart == RelInit => RelInv
<1>0. SUFFICES ASSUME RelInit PROVE RelInv
  OBVIOUS
<1>1. RelTyped
  <2>1. RelTypeOK
    BY <1>0, ReleasesDiffer, StepsDiffer DEF RelInit, RelTypeOK, MaybeRelease
  <2>2. QED
    BY <1>0, <2>1 DEF RelInit, RelTyped, RelStates
<1>2. relRun \notin RelRuns
  BY <1>0, StepsDiffer DEF RelInit
<1>3. RunIsSound /\ Forward /\ Undone
  BY <1>2 DEF RunIsSound, Forward, Undone
<1>4. StateIsTrue /\ LinksKnown
  BY <1>0 DEF RelInit, StateIsTrue, LinksKnown, NoState, Known
<1>5. QED
  BY <1>1, <1>3, <1>4 DEF RelInv

LEMMA RelStep == RelInv /\ [RelNext]_relVars => RelInv'
<1>0. SUFFICES ASSUME RelInv, [RelNext]_relVars PROVE RelInv'
  OBVIOUS
<1>1. ASSUME RollbackLast PROVE RelInv'
  <2>1. RelTyped /\ RelTypeOK
    BY <1>0 DEF RelInv, RelTyped
  <2>2. RollbackTarget \in MaybeRelease
    <3>1. relState.status = "succeeded" => relState.previous \in MaybeRelease
      BY <2>1 DEF RelTyped, RelStates, NoState
    <3>2. relLinks.previous \in MaybeRelease
      BY <2>1 DEF RelTypeOK, MaybeRelease
    <3>3. QED
      BY <3>1, <3>2 DEF RollbackTarget
  <2>3. PICK r \in Releases : r = RollbackTarget
    BY <1>1, <2>2 DEF RollbackLast, MaybeRelease
  <2>4. BeginPromote(r, "rollback")
    BY <1>1, <2>3 DEF RollbackLast
  <2>5. QED
    BY <1>0, <2>4, BeginsStep
<1>2. ASSUME NEW r \in Releases, BeginPromote(r, "promote") PROVE RelInv'
  BY <1>0, <1>2, BeginsStep
<1>3. ASSUME NEW r \in Releases, PrepareRelease(r) PROVE RelInv'
  BY <1>0, <1>3, QuietStep
<1>4. ASSUME NEW s \in Services, ServiceRestarts(s) PROVE RelInv'
  BY <1>0, <1>4, RestartStep
<1>5. QED
  BY <1>0, <1>1, <1>2, <1>3, <1>4, ForwardStep, UndoStep, FailStep, SuccessStep, FailureStep,
     DieStep, QuietStep DEF RelNext

\* promote() is all or nothing as its own records tell it: after every sequence of failed
\* steps, failed undos, dead controllers and service restarts, a recorded success or a
\* completed automatic rollback agrees with the links, the drop-ins and what runs, and no
\* link dangles or names a release that failed (edge1_release_controller.py, promote()).
THEOREM PromotionStaysSound == RelSpec => []PromotionIsSound
<1>1. RelInv => PromotionIsSound
  <2>0. SUFFICES ASSUME RelInv PROVE PromotionIsSound
    OBVIOUS
  <2>1. RelTyped /\ RelTypeOK /\ StateIsTrue /\ LinksKnown
    BY <2>0 DEF RelInv, RelTyped
  <2>2. relRun = RelIdle => Resting
    BY StepsDiffer DEF Resting
  <2>3. SuccessIsComplete
    BY <2>1, <2>2 DEF SuccessIsComplete, StateIsTrue
  <2>4. FailureRestores
    <3>0. SUFFICES ASSUME relRun = RelIdle, ~relCutShort, relState.status = "failed",
                          relState.restored
                   PROVE  LET m == relState.manifest IN
                          /\ relLinks = [current |-> m.oldCurrent, previous |-> m.oldPrevious]
                          /\ relDropins = m.backups
                          /\ \A s \in Services : relRunning[s] = Booted(s) /\ relRunning[s] # m.target
      BY DEF FailureRestores
    <3>1. PICK m \in Manifests : m = relState.manifest
      BY <2>1, <3>0 DEF RelTypeOK, NoState
    <3>2. /\ relLinks.current = m.oldCurrent /\ relLinks.previous = m.oldPrevious
          /\ relDropins = m.backups /\ relLinks.current # m.target
          /\ \A s \in Services : relRunning[s] = Booted(s)
      BY <2>1, <2>2, <3>0, <3>1 DEF StateIsTrue
    <3>3. relLinks = [current |-> m.oldCurrent, previous |-> m.oldPrevious]
      BY <2>1, <3>2 DEF RelTypeOK
    <3>4. \A s \in Services : Booted(s) # m.target
      BY <3>1, <3>2, ReleasesDiffer DEF Booted, Manifests
    <3>5. QED
      BY <3>1, <3>2, <3>3, <3>4
  <2>5. LinksAreKnownGood
    BY <2>1, <2>2 DEF LinksAreKnownGood, LinksKnown, Known
  <2>6. QED
    BY <2>1, <2>3, <2>4, <2>5 DEF PromotionIsSound
<1>2. QED
  BY <1>1, RelStart, RelStep, PTL DEF RelSpec

----------------------------------------------------------------------------
\* CookieActivation: the activation of Cookie Monster and its backups.

\* What create_backup() finds, and a backup directory.
Originals == BOOLEAN \X Versions \X [WebFiles -> Versions]
Backups == [before : {<<>>} \cup Originals, published : BOOLEAN, recorded : BOOLEAN]

ApplySteps == {"prepare", "enable", "job", "dispatch", "backup", "publish", "note", "current"}
CookieSteps == ApplySteps \cup
  {"idle", "undo_publish", "undo_web", "undo_registry", "undo_job", "back_web", "back_registry", "back_job", "marker"}

CookieTypeOK ==
  /\ cmRegistry \in BOOLEAN /\ cmJob \in Versions /\ cmWeb \in [WebFiles -> Versions]
  /\ cmBackups \in [Applications -> Backups]
  /\ cmRuns \in 0..MaxApplies /\ cmOf \in 0..cmRuns /\ cmFile \in 1..2
  /\ cmStep \in CookieSteps /\ cmSwallowed \in {"none", "publish", "except"}
  /\ cmCurrent \in [status : {"none", "active", "rolled_back"}, backup : 0..cmRuns]
  /\ \A a \in 1..cmRuns : cmBackups[a].before \in Originals

\* What the published files, the registry and the job file were at a backup.
WebIsBack(b) == cmWeb = cmBackups[b].before[3]
RegistryIsBack(b) == cmRegistry = cmBackups[b].before[1]
JobIsBack(b) == cmJob = cmBackups[b].before[2]
FilesAreBack(b) == \A f \in WebFiles : f < cmFile => cmWeb[f] = cmBackups[b].before[3][f]

\* apply() leaves the published files alone until the publisher has its backup of them,
\* and the current-activation file until activation-state.json names that backup.
ApplyIsOrdered ==
  cmStep \in ApplySteps =>
    /\ cmRuns # 0 /\ cmSwallowed = "none"
    /\ cmStep \in {"prepare", "enable", "job", "dispatch", "backup"} => WebIsBack(cmRuns)
    /\ cmStep \in {"publish", "note", "current"} => cmBackups[cmRuns].published
    /\ cmStep = "current" => cmBackups[cmRuns].recorded

\* What publish() and the except clause have put back before each of their steps, the
\* published files only if the publisher's rollback did not fail.
UndoIsOrdered ==
  cmStep \in {"undo_publish", "undo_web", "undo_registry", "undo_job"} =>
    /\ cmOf = cmRuns /\ cmRuns # 0 /\ cmSwallowed \in {"none", "publish"}
    /\ cmStep \in {"undo_publish", "undo_web"} => FilesAreBack(cmOf) /\ cmSwallowed = "none"
    /\ cmStep \in {"undo_registry", "undo_job"} /\ cmSwallowed = "none" => WebIsBack(cmOf)
    /\ cmStep = "undo_job" => RegistryIsBack(cmOf)

\* The same for rollback(), which restores the published files of a recorded activation.
RollbackIsOrdered ==
  cmStep \in {"back_web", "back_registry", "back_job", "marker"} =>
    /\ cmOf # 0
    /\ cmStep = "back_web" => FilesAreBack(cmOf)
    /\ cmStep # "back_web" /\ cmBackups[cmOf].recorded => WebIsBack(cmOf)
    /\ cmStep \in {"back_job", "marker"} => RegistryIsBack(cmOf)
    /\ cmStep = "marker" => JobIsBack(cmOf)

ActiveIsBackedUp == ActiveIsRestorable /\ (cmCurrent.status = "active" => cmCurrent.backup # 0)

CookieInv ==
  /\ CookieTypeOK /\ ApplyIsOrdered /\ UndoIsOrdered /\ RollbackIsOrdered
  /\ FailedApplyRestores /\ RollbackRestores /\ ActiveIsBackedUp
----------------------------------------------------------------------------
\* A command that goes on: nothing is said of its outcome yet.
LEMMA GoesOn ==
  ASSUME CookieTypeOK', ApplyIsOrdered', UndoIsOrdered', RollbackIsOrdered', ActiveIsBackedUp',
         cmStep' # "idle"
  PROVE  CookieInv'
BY DEF CookieInv, FailedApplyRestores, RollbackRestores

\* Only the backups, applications and the current-activation file matter to it.
LEMMA ActiveStays ==
  ASSUME CookieInv, UNCHANGED <<cmBackups, cmRuns, cmCurrent>>
  PROVE  ActiveIsBackedUp'
BY DEF CookieInv, ActiveIsBackedUp, ActiveIsRestorable

\* The numbers of applications, and the files of the view.
LEMMA CookieNumbers ==
  ASSUME CookieTypeOK
  PROVE  /\ cmRuns \in Nat /\ cmRuns <= MaxApplies /\ MaxApplies \in Nat /\ cmRuns \in Versions
         /\ cmRuns # 0 => cmRuns \in Applications /\ cmRuns \in 1..cmRuns
         /\ cmOf # 0 => cmOf \in Applications /\ cmOf \in 1..cmRuns
         /\ cmFile \in {1, 2} /\ WebFiles = {1, 2}
<1>1. cmRuns \in 0..MaxApplies /\ cmOf \in 0..cmRuns /\ MaxApplies \in Nat /\ cmFile \in 1..2
  BY CookieBounds DEF CookieTypeOK
<1>2. QED
  BY <1>1 DEF Versions, Applications, WebFiles

\* The parts of what a backup holds.
LEMMA OriginalParts ==
  ASSUME CookieTypeOK, NEW b \in 1..cmRuns
  PROVE  /\ cmBackups[b].before[1] \in BOOLEAN /\ cmBackups[b].before[2] \in Versions
         /\ cmBackups[b].before[3] \in [WebFiles -> Versions]
<1>1. cmBackups[b].before \in Originals
  BY DEF CookieTypeOK
<1>2. QED
  BY <1>1 DEF Originals

\* apply() begins: the backup holds what is there.
LEMMA ApplyBegins ==
  ASSUME CookieInv, BeginApply
  PROVE  CookieInv'
<1>0. /\ CookieTypeOK /\ ActiveIsBackedUp /\ cmRuns < MaxApplies /\ cmRuns' = cmRuns + 1
      /\ cmStep' = "prepare" /\ MaxApplies \in Nat /\ cmRuns \in Nat /\ cmSwallowed' = "none"
      /\ UNCHANGED <<cmRegistry, cmJob, cmWeb, cmCurrent, cmFile, cmOf>>
  BY CookieNumbers DEF CookieInv, BeginApply
<1>1. PICK n \in Applications : n = cmRuns + 1 /\ n \notin 1..cmRuns
  BY <1>0 DEF Applications
<1>2. PICK now \in Originals : now = Managed /\ now[3] = cmWeb
  <2>1. <<cmRegistry, cmJob, cmWeb>> \in Originals
    BY <1>0 DEF Originals, CookieTypeOK
  <2>2. QED
    BY <2>1 DEF Managed
<1>3. cmBackups' = [cmBackups EXCEPT ![n].before = now]
  BY <1>1, <1>2 DEF BeginApply
<1>4. /\ cmBackups' \in [Applications -> Backups] /\ cmBackups'[n].before = now
      /\ \A a \in Applications : a # n => cmBackups'[a] = cmBackups[a]
  BY <1>0, <1>3 DEF CookieTypeOK, Backups
<1>5. CookieTypeOK'
  <2>1. \A a \in 1..cmRuns' : a = n \/ (a \in 1..cmRuns /\ a \in Applications /\ a # n)
    BY <1>0, <1>1 DEF Applications
  <2>2. \A a \in 1..cmRuns' : cmBackups'[a].before \in Originals
    BY <1>0, <1>4, <2>1 DEF CookieTypeOK
  <2>3. cmRuns' \in 0..MaxApplies /\ cmOf' \in 0..cmRuns' /\ cmFile' \in 1..2
    BY <1>0 DEF CookieTypeOK
  <2>4. cmCurrent' \in [status : {"none", "active", "rolled_back"}, backup : 0..cmRuns']
    BY <1>0 DEF CookieTypeOK
  <2>5. cmStep' \in CookieSteps
    BY <1>0 DEF CookieSteps, ApplySteps
  <2>6. QED
    BY <1>0, <1>4, <2>2, <2>3, <2>4, <2>5 DEF CookieTypeOK
<1>6. ApplyIsOrdered'
  BY <1>0, <1>1, <1>2, <1>4 DEF ApplyIsOrdered, WebIsBack
<1>7. UndoIsOrdered' /\ RollbackIsOrdered'
  BY <1>0 DEF UndoIsOrdered, RollbackIsOrdered
<1>8. ActiveIsBackedUp'
  <2>1. cmCurrent.status = "active" => /\ cmCurrent.backup \in Applications
                                       /\ cmCurrent.backup # n
    <3>1. cmCurrent.backup \in 0..cmRuns /\ (cmCurrent.status = "active" => cmCurrent.backup # 0)
      BY <1>0 DEF CookieTypeOK, ActiveIsBackedUp
    <3>2. QED
      BY <1>0, <1>1, <3>1 DEF Applications
  <2>2. QED
    BY <1>0, <1>4, <2>1 DEF ActiveIsBackedUp, ActiveIsRestorable
<1>9. QED
  BY <1>0, <1>5, <1>6, <1>7, <1>8, GoesOn

\* The steps of apply() before the publisher runs.
LEMMA ApplyStep ==
  ASSUME CookieInv, PrepareDataset \/ EnableDataset \/ WriteJob \/ RunJob
  PROVE  CookieInv'
<1>0. /\ CookieTypeOK /\ ApplyIsOrdered
      /\ cmStep \in {"prepare", "enable", "job", "dispatch"}
      /\ cmStep' \in {"prepare", "enable", "job", "dispatch", "backup"}
      /\ cmRegistry' \in {cmRegistry, TRUE} /\ cmJob' \in {cmJob, cmRuns}
      /\ UNCHANGED <<cmWeb, cmCurrent, cmBackups, cmRuns, cmFile, cmOf, cmSwallowed>>
  BY DEF CookieInv, PrepareDataset, EnableDataset, WriteJob, RunJob, Go
<1>1. CookieTypeOK'
  <2>1. cmJob' \in Versions /\ cmRegistry' \in BOOLEAN
    BY <1>0, CookieNumbers DEF CookieTypeOK
  <2>2. cmStep' \in CookieSteps
    BY <1>0 DEF CookieSteps, ApplySteps
  <2>3. QED
    BY <1>0, <2>1, <2>2 DEF CookieTypeOK
<1>2. ApplyIsOrdered'
  BY <1>0 DEF ApplyIsOrdered, ApplySteps, WebIsBack
<1>3. UndoIsOrdered' /\ RollbackIsOrdered'
  BY <1>0 DEF UndoIsOrdered, RollbackIsOrdered
<1>4. ActiveIsBackedUp'
  BY <1>0, ActiveStays
<1>5. QED
  BY <1>0, <1>1, <1>2, <1>3, <1>4, GoesOn

\* The publisher makes its backup, and activation-state.json names it.
LEMMA BackupStep ==
  ASSUME CookieInv,
         \/ BackupDestination
         \/ NoteBackup /\ UNCHANGED <<cmDataset, cmRegistry, cmJob, cmWeb, cmCurrent, cmRuns,
                                      cmFile, cmOf>>
  PROVE  CookieInv'
<1>0. /\ CookieTypeOK /\ ApplyIsOrdered /\ ActiveIsBackedUp
      /\ cmStep \in {"backup", "note"} /\ cmStep' \in {"publish", "current"}
      /\ cmStep = "note" <=> cmStep' = "current"
      /\ UNCHANGED <<cmRegistry, cmJob, cmWeb, cmCurrent, cmRuns, cmOf, cmSwallowed>> /\ cmFile' \in {1, cmFile}
  BY DEF CookieInv, BackupDestination, NoteBackup, Go
<1>1. PICK n \in Applications : n = cmRuns /\ cmRuns # 0
  BY <1>0, CookieNumbers DEF ApplyIsOrdered, ApplySteps
<1>2. cmBackups[n] \in Backups
  BY <1>0 DEF CookieTypeOK
<1>3. /\ cmBackups' \in [Applications -> Backups]
      /\ cmBackups'[n].before = cmBackups[n].before
      /\ \A a \in Applications : a # n => cmBackups'[a] = cmBackups[a]
      /\ cmBackups[n].recorded => cmBackups'[n].recorded
      /\ cmBackups[n].published => cmBackups'[n].published
      /\ cmStep' = "publish" => cmBackups'[n].published
      /\ cmStep' = "current" => cmBackups'[n].recorded
  <2>1. CASE BackupDestination
    <3>1. cmBackups' = [cmBackups EXCEPT ![n].published = TRUE] /\ cmStep' = "publish"
      BY <1>1, <2>1 DEF BackupDestination, Go
    <3>2. QED
      BY <1>0, <1>2, <3>1 DEF CookieTypeOK, Backups
  <2>2. CASE NoteBackup
    <3>1. cmBackups' = [cmBackups EXCEPT ![n].recorded = TRUE] /\ cmStep' = "current"
      BY <1>1, <2>2 DEF NoteBackup, Go
    <3>2. QED
      BY <1>0, <1>2, <3>1 DEF CookieTypeOK, Backups
  <2>3. QED
    BY <2>1, <2>2
<1>4. \A a \in 1..cmRuns : a \in Applications
  BY <1>0, CookieNumbers DEF Applications
<1>5. CookieTypeOK'
  <2>1. \A a \in 1..cmRuns' : cmBackups'[a].before \in Originals
    BY <1>0, <1>3, <1>4 DEF CookieTypeOK
  <2>2. cmStep' \in CookieSteps /\ cmFile' \in 1..2
    BY <1>0 DEF CookieSteps, ApplySteps, CookieTypeOK
  <2>3. QED
    BY <1>0, <1>3, <2>1, <2>2 DEF CookieTypeOK
<1>6. ApplyIsOrdered'
  BY <1>0, <1>1, <1>3 DEF ApplyIsOrdered, ApplySteps
<1>7. UndoIsOrdered' /\ RollbackIsOrdered'
  BY <1>0 DEF UndoIsOrdered, RollbackIsOrdered
<1>8. ActiveIsBackedUp'
  <2>1. cmCurrent.status = "active" => cmCurrent.backup \in Applications
    <3>1. cmCurrent.backup \in 0..cmRuns /\ (cmCurrent.status = "active" => cmCurrent.backup # 0)
      BY <1>0 DEF CookieTypeOK, ActiveIsBackedUp
    <3>2. QED
      BY <1>0, <1>4, <3>1, CookieNumbers
  <2>2. QED
    BY <1>0, <1>3, <2>1 DEF ActiveIsBackedUp, ActiveIsRestorable
<1>9. QED
  BY <1>0, <1>5, <1>6, <1>7, <1>8, GoesOn

LEMMA PublishStep ==
  ASSUME CookieInv, PublishFile
  PROVE  CookieInv'
<1>0. /\ CookieTypeOK /\ ApplyIsOrdered /\ cmStep = "publish" /\ cmStep' \in {"publish", "note"}
      /\ cmWeb' = [cmWeb EXCEPT ![cmFile] = cmRuns]
      /\ cmFile' = IF cmFile = 2 THEN 1 ELSE cmFile + 1
      /\ UNCHANGED <<cmRegistry, cmJob, cmCurrent, cmBackups, cmRuns, cmOf, cmSwallowed>>
  BY DEF CookieInv, PublishFile, Go
<1>1. CookieTypeOK'
  <2>1. cmWeb' \in [WebFiles -> Versions] /\ cmFile' \in 1..2
    BY <1>0, CookieNumbers DEF CookieTypeOK
  <2>2. cmStep' \in CookieSteps
    BY <1>0 DEF CookieSteps, ApplySteps
  <2>3. QED
    BY <1>0, <2>1, <2>2 DEF CookieTypeOK
<1>2. ApplyIsOrdered'
  BY <1>0 DEF ApplyIsOrdered, ApplySteps
<1>3. UndoIsOrdered' /\ RollbackIsOrdered'
  BY <1>0 DEF UndoIsOrdered, RollbackIsOrdered
<1>4. ActiveIsBackedUp'
  BY <1>0, ActiveStays
<1>5. QED
  BY <1>0, <1>1, <1>2, <1>3, <1>4, GoesOn

\* The end of apply().
LEMMA ActivateStep ==
  ASSUME CookieInv, cmStep = "current",
         cmCurrent' = [status |-> "active", backup |-> cmRuns], EndCommand("activated"),
         UNCHANGED <<cmRegistry, cmJob, cmWeb, cmBackups, cmRuns, cmFile, cmOf>>
  PROVE  CookieInv'
<1>0. /\ CookieTypeOK /\ ApplyIsOrdered /\ cmStep' = "idle" /\ cmOutcome' = "activated"
      /\ UNCHANGED cmSwallowed
  BY DEF CookieInv, EndCommand
<1>1. cmCurrent' \in [status : {"none", "active", "rolled_back"}, backup : 0..cmRuns]
  BY <1>0, CookieNumbers
<1>2. cmCurrent'.backup = cmRuns
  OBVIOUS
<1>3. CookieTypeOK'
  BY <1>0, <1>1 DEF CookieTypeOK, CookieSteps
<1>4. ApplyIsOrdered' /\ UndoIsOrdered' /\ RollbackIsOrdered'
  BY <1>0 DEF ApplyIsOrdered, ApplySteps, UndoIsOrdered, RollbackIsOrdered
<1>5. FailedApplyRestores' /\ RollbackRestores'
  BY <1>0 DEF FailedApplyRestores, RollbackRestores
<1>6. ActiveIsBackedUp'
  BY <1>0, <1>2 DEF ActiveIsBackedUp, ActiveIsRestorable, ApplyIsOrdered, ApplySteps
<1>7. QED
  BY <1>3, <1>4, <1>5, <1>6 DEF CookieInv

\* A step of apply() raises: its files are still to be put back, or were not touched.
LEMMA RaiseStep ==
  ASSUME CookieInv, ApplyFails
  PROVE  CookieInv'
<1>0. /\ CookieTypeOK /\ ApplyIsOrdered /\ ActiveIsBackedUp /\ cmStep \in ApplySteps
      /\ cmStep' \in AfterFailure /\ cmFile' = 1 /\ cmOf' = cmRuns
      /\ UNCHANGED <<cmRegistry, cmJob, cmWeb, cmCurrent, cmRuns, cmSwallowed>>
  BY DEF CookieInv, ApplyFails, Go, ApplySteps
<1>1. /\ cmStep' \in {"undo_publish", "undo_web", "undo_registry"} /\ cmRuns # 0
      /\ cmSwallowed = "none"
      /\ cmStep' = "undo_registry" => WebIsBack(cmRuns)
  BY <1>0 DEF AfterFailure, ApplyIsOrdered, ApplySteps
<1>2. PICK n \in Applications : n = cmRuns
  BY <1>0, <1>1, CookieNumbers
<1>3. /\ cmBackups' \in [Applications -> Backups]
      /\ \A a \in Applications :
           /\ cmBackups'[a].before = cmBackups[a].before
           /\ cmBackups'[a].published = cmBackups[a].published
           /\ cmBackups[a].recorded => cmBackups'[a].recorded
  <2>1. cmBackups' = cmBackups \/ cmBackups' = [cmBackups EXCEPT ![n].recorded = TRUE]
    BY <1>2 DEF ApplyFails
  <2>2. cmBackups \in [Applications -> Backups]
    BY <1>0 DEF CookieTypeOK
  <2>3. CASE cmBackups' = cmBackups
    BY <2>2, <2>3
  <2>4. CASE cmBackups' = [cmBackups EXCEPT ![n].recorded = TRUE]
    <3>1. \A a \in Applications : a # n => cmBackups'[a] = cmBackups[a]
      BY <2>2, <2>4
    <3>2. cmBackups[n] \in Backups
      BY <2>2
    <3>3. /\ cmBackups'[n].before = cmBackups[n].before
          /\ cmBackups'[n].published = cmBackups[n].published
          /\ cmBackups'[n].recorded = TRUE
      BY <2>2, <2>4, <3>2 DEF Backups
    <3>4. cmBackups' \in [Applications -> Backups]
      BY <2>2, <2>4, <3>2 DEF Backups
    <3>5. QED
      BY <3>1, <3>3, <3>4
  <2>5. QED
    BY <2>1, <2>3, <2>4
<1>4. \A a \in 1..cmRuns : a \in Applications
  BY <1>0, CookieNumbers DEF Applications
<1>5. CookieTypeOK'
  <2>1. cmOf' \in 0..cmRuns' /\ cmFile' \in 1..2
    BY <1>0, CookieNumbers
  <2>2. cmStep' \in CookieSteps
    BY <1>1 DEF CookieSteps
  <2>3. \A a \in 1..cmRuns' : cmBackups'[a].before \in Originals
    BY <1>0, <1>3, <1>4 DEF CookieTypeOK
  <2>4. QED
    BY <1>0, <1>3, <2>1, <2>2, <2>3 DEF CookieTypeOK
<1>6. UndoIsOrdered'
  <2>1. \A f \in WebFiles : ~(f < cmFile')
    BY <1>0 DEF WebFiles
  <2>2. cmBackups'[n].before = cmBackups[n].before
    BY <1>3
  <2>3. QED
    BY <1>0, <1>1, <1>2, <2>1, <2>2 DEF UndoIsOrdered, WebIsBack, FilesAreBack
<1>7. ApplyIsOrdered' /\ RollbackIsOrdered'
  BY <1>1 DEF ApplyIsOrdered, ApplySteps, RollbackIsOrdered
<1>8. ActiveIsBackedUp'
  <2>1. cmCurrent.status = "active" => cmCurrent.backup \in Applications
    <3>1. cmCurrent.backup \in 0..cmRuns /\ (cmCurrent.status = "active" => cmCurrent.backup # 0)
      BY <1>0 DEF CookieTypeOK, ActiveIsBackedUp
    <3>2. QED
      BY <1>0, <1>4, <3>1, CookieNumbers
  <2>2. QED
    BY <1>0, <1>3, <2>1 DEF ActiveIsBackedUp, ActiveIsRestorable
<1>9. QED
  BY <1>1, <1>5, <1>6, <1>7, <1>8, GoesOn

\* A restore fails and is swallowed: by publish(), after which the except clause goes
\* on, or by the except clause, which ends.
LEMMA SwallowStep ==
  ASSUME CookieInv, RestoreFails
  PROVE  CookieInv'
<1>0. /\ CookieTypeOK /\ UndoIsOrdered /\ cmFile' = 1
      /\ cmStep \in {"undo_publish", "undo_web", "undo_registry", "undo_job"}
      /\ UNCHANGED <<cmRegistry, cmJob, cmWeb, cmCurrent, cmBackups, cmRuns, cmOf>>
  BY DEF CookieInv, RestoreFails
<1>1. CASE cmStep' = "undo_registry" /\ cmSwallowed' = "publish"
  <2>1. CookieTypeOK'
    BY <1>0, <1>1 DEF CookieTypeOK, CookieSteps
  <2>2. UndoIsOrdered' /\ RollbackIsOrdered' /\ ApplyIsOrdered'
    BY <1>0, <1>1 DEF UndoIsOrdered, RollbackIsOrdered, ApplyIsOrdered, ApplySteps
  <2>3. QED
    BY <1>0, <1>1, <2>1, <2>2, ActiveStays, GoesOn
<1>2. CASE cmStep' = "idle" /\ cmSwallowed' = "except" /\ cmOutcome' = "failed"
  <2>1. CookieTypeOK'
    BY <1>0, <1>2 DEF CookieTypeOK, CookieSteps
  <2>2. UndoIsOrdered' /\ RollbackIsOrdered' /\ ApplyIsOrdered'
    BY <1>2 DEF UndoIsOrdered, RollbackIsOrdered, ApplyIsOrdered, ApplySteps
  <2>3. FailedApplyRestores' /\ RollbackRestores'
    BY <1>2 DEF FailedApplyRestores, RollbackRestores
  <2>4. QED
    BY <1>0, <2>1, <2>2, <2>3, ActiveStays DEF CookieInv
<1>3. QED
  BY <1>1, <1>2 DEF RestoreFails

LEMMA RollbackBegins ==
  ASSUME CookieInv, NEW b \in 1..cmRuns, BeginRollback(b)
  PROVE  CookieInv'
<1>0. /\ CookieTypeOK /\ cmOf' = b /\ cmFile' = 1
      /\ cmStep' = IF cmBackups[b].recorded THEN "back_web" ELSE "back_registry"
      /\ UNCHANGED <<cmRegistry, cmJob, cmWeb, cmCurrent, cmBackups, cmRuns, cmSwallowed>>
  BY DEF CookieInv, BeginRollback, Go
<1>1. CookieTypeOK'
  <2>1. cmOf' \in 0..cmRuns' /\ cmFile' \in 1..2
    BY <1>0, CookieNumbers
  <2>2. cmStep' \in CookieSteps
    BY <1>0 DEF CookieSteps
  <2>3. QED
    BY <1>0, <2>1, <2>2 DEF CookieTypeOK
<1>2. RollbackIsOrdered'
  <2>1. \A f \in WebFiles : ~(f < cmFile')
    BY <1>0 DEF WebFiles
  <2>2. cmOf' # 0
    BY <1>0, CookieNumbers
  <2>3. QED
    BY <1>0, <2>1, <2>2 DEF RollbackIsOrdered, FilesAreBack
<1>3. ApplyIsOrdered' /\ UndoIsOrdered'
  BY <1>0 DEF ApplyIsOrdered, ApplySteps, UndoIsOrdered
<1>4. ActiveIsBackedUp'
  BY <1>0, ActiveStays
<1>5. QED
  BY <1>0, <1>1, <1>2, <1>3, <1>4, GoesOn

\* The publisher's rollback() puts back a file, and after the last of them all are back.
LEMMA WebStep ==
  ASSUME CookieInv,
         \/ RestoreWeb("undo_publish", "undo_registry")
         \/ RestoreWeb("undo_web", "undo_registry") \/ RestoreWeb("back_web", "back_registry")
  PROVE  CookieInv'
<1>0. /\ CookieTypeOK /\ UndoIsOrdered /\ RollbackIsOrdered
      /\ cmStep \in {"undo_publish", "undo_web", "back_web"}
      /\ cmWeb' = [cmWeb EXCEPT ![cmFile] = cmBackups[cmOf].before[3][cmFile]]
      /\ cmFile' = IF cmFile = 2 THEN 1 ELSE cmFile + 1
      /\ cmFile # 2 => cmStep' = cmStep
      /\ cmFile = 2 => cmStep' = IF cmStep = "back_web" THEN "back_registry" ELSE "undo_registry"
      /\ UNCHANGED <<cmRegistry, cmJob, cmCurrent, cmBackups, cmRuns, cmOf, cmSwallowed>>
  BY DEF CookieInv, RestoreWeb, Go
<1>1. /\ cmOf \in 1..cmRuns /\ FilesAreBack(cmOf) /\ cmOf # 0 /\ cmRuns # 0
      /\ cmStep # "back_web" => cmOf = cmRuns /\ cmSwallowed = "none"
  <2>1. /\ cmOf # 0 /\ FilesAreBack(cmOf)
        /\ cmStep # "back_web" => cmOf = cmRuns /\ cmSwallowed = "none"
    BY <1>0 DEF UndoIsOrdered, RollbackIsOrdered
  <2>2. QED
    BY <1>0, <2>1, CookieNumbers
<1>2. PICK web \in [WebFiles -> Versions] : web = cmBackups[cmOf].before[3]
  BY <1>0, <1>1, OriginalParts
<1>3. cmFile \in {1, 2} /\ WebFiles = {1, 2}
  BY <1>0, CookieNumbers
<1>4. /\ cmWeb' \in [WebFiles -> Versions] /\ cmWeb'[cmFile] = web[cmFile]
      /\ \A f \in WebFiles : f # cmFile => cmWeb'[f] = cmWeb[f]
  BY <1>0, <1>2, <1>3 DEF CookieTypeOK
<1>5. CASE cmFile = 1
  <2>1. FilesAreBack(cmOf)'
    BY <1>0, <1>2, <1>3, <1>4, <1>5 DEF FilesAreBack
  <2>2. CookieTypeOK'
    BY <1>0, <1>4, <1>5 DEF CookieTypeOK
  <2>3. UndoIsOrdered' /\ RollbackIsOrdered' /\ ApplyIsOrdered'
    BY <1>0, <1>1, <1>5, <2>1 DEF UndoIsOrdered, RollbackIsOrdered, ApplyIsOrdered, ApplySteps
  <2>4. QED
    BY <1>0, <1>5, <2>2, <2>3, ActiveStays, GoesOn
<1>6. CASE cmFile = 2
  <2>1. \A f \in WebFiles : cmWeb'[f] = web[f]
    BY <1>1, <1>2, <1>3, <1>4, <1>6 DEF FilesAreBack
  <2>2. WebIsBack(cmOf)'
    BY <1>0, <1>2, <1>4, <2>1 DEF WebIsBack
  <2>3. CookieTypeOK'
    BY <1>0, <1>4, <1>6 DEF CookieTypeOK, CookieSteps
  <2>4. UndoIsOrdered' /\ RollbackIsOrdered' /\ ApplyIsOrdered'
    BY <1>0, <1>1, <1>6, <2>2 DEF UndoIsOrdered, RollbackIsOrdered, ApplyIsOrdered, ApplySteps
  <2>5. QED
    BY <1>0, <1>6, <2>3, <2>4, ActiveStays, GoesOn
<1>7. QED
  BY <1>3, <1>5, <1>6

LEMMA RegistryStep ==
  ASSUME CookieInv,
         \/ RestoreRegistry("undo_registry", "undo_job") \/ RestoreRegistry("back_registry", "back_job")
  PROVE  CookieInv'
<1>0. /\ CookieTypeOK /\ UndoIsOrdered /\ RollbackIsOrdered
      /\ cmStep \in {"undo_registry", "back_registry"}
      /\ cmRegistry' = cmBackups[cmOf].before[1]
      /\ cmStep' = IF cmStep = "undo_registry" THEN "undo_job" ELSE "back_job"
      /\ UNCHANGED <<cmJob, cmWeb, cmCurrent, cmBackups, cmRuns, cmFile, cmOf, cmSwallowed>>
  BY DEF CookieInv, RestoreRegistry, Go
<1>1. cmOf # 0
  BY <1>0 DEF UndoIsOrdered, RollbackIsOrdered
<1>2. cmRegistry' \in BOOLEAN
  BY <1>0, <1>1, CookieNumbers, OriginalParts
<1>3. CookieTypeOK'
  BY <1>0, <1>2 DEF CookieTypeOK, CookieSteps
<1>4. UndoIsOrdered' /\ RollbackIsOrdered' /\ ApplyIsOrdered'
  BY <1>0 DEF UndoIsOrdered, RollbackIsOrdered, ApplyIsOrdered, ApplySteps, WebIsBack, RegistryIsBack
<1>5. QED
  BY <1>0, <1>3, <1>4, ActiveStays, GoesOn

\* The last restore of rollback().
LEMMA BackJobStep ==
  ASSUME CookieInv, cmStep = "back_job", cmJob' = JobBefore, Go("marker"),
         UNCHANGED <<cmRegistry, cmWeb, cmCurrent, cmBackups, cmRuns, cmFile, cmOf>>
  PROVE  CookieInv'
<1>0. /\ CookieTypeOK /\ RollbackIsOrdered /\ cmStep' = "marker" /\ UNCHANGED cmSwallowed
      /\ cmJob' = cmBackups[cmOf].before[2]
  BY DEF CookieInv, Go, JobBefore
<1>1. cmOf # 0
  BY <1>0 DEF RollbackIsOrdered
<1>2. cmJob' \in Versions
  BY <1>0, <1>1, CookieNumbers, OriginalParts
<1>3. CookieTypeOK'
  BY <1>0, <1>2 DEF CookieTypeOK, CookieSteps
<1>4. UndoIsOrdered' /\ RollbackIsOrdered' /\ ApplyIsOrdered'
  BY <1>0 DEF UndoIsOrdered, RollbackIsOrdered, ApplyIsOrdered, ApplySteps, WebIsBack,
     RegistryIsBack, JobIsBack
<1>5. QED
  BY <1>0, <1>3, <1>4, ActiveStays, GoesOn

\* Everything a backup holds is back.
LEMMA AllIsBack ==
  ASSUME CookieTypeOK, NEW b \in 1..cmRuns, WebIsBack(b), RegistryIsBack(b), JobIsBack(b)
  PROVE  Managed = cmBackups[b].before
<1>1. cmBackups[b].before \in Originals
  BY DEF CookieTypeOK
<1>2. QED
  BY <1>1 DEF Managed, Originals, WebIsBack, RegistryIsBack, JobIsBack

\* The end of the except clause.
LEMMA UndoJobStep ==
  ASSUME CookieInv, UndoJob
  PROVE  CookieInv'
<1>0. /\ CookieTypeOK /\ UndoIsOrdered /\ cmStep = "undo_job" /\ cmStep' = "idle"
      /\ cmJob' = cmBackups[cmOf].before[2] /\ cmOutcome' = "failed"
      /\ UNCHANGED <<cmRegistry, cmWeb, cmCurrent, cmBackups, cmRuns, cmFile, cmOf, cmSwallowed>>
  BY DEF CookieInv, UndoJob, EndCommand, JobBefore
<1>1. /\ cmOf = cmRuns /\ cmRuns # 0 /\ RegistryIsBack(cmOf)
      /\ cmSwallowed \in {"none", "publish"} /\ (cmSwallowed = "none" => WebIsBack(cmOf))
  BY <1>0 DEF UndoIsOrdered
<1>2. cmJob' \in Versions
  BY <1>0, <1>1, CookieNumbers, OriginalParts
<1>3. CookieTypeOK'
  BY <1>0, <1>2 DEF CookieTypeOK, CookieSteps
<1>4. UndoIsOrdered' /\ RollbackIsOrdered' /\ ApplyIsOrdered'
  BY <1>0 DEF UndoIsOrdered, RollbackIsOrdered, ApplyIsOrdered, ApplySteps
<1>5. FailedApplyRestores'
  <2>1. cmRuns \in 1..cmRuns
    BY <1>0, <1>1, CookieNumbers
  <2>2. cmBackups[cmRuns].before \in Originals
    BY <1>0, <2>1 DEF CookieTypeOK
  <2>3. cmSwallowed = "none" => <<cmRegistry', cmJob', cmWeb'>> = cmBackups[cmRuns].before
    BY <1>0, <1>1, <2>2 DEF Originals, WebIsBack, RegistryIsBack
  <2>4. cmRegistry' = cmBackups[cmRuns].before[1] /\ cmJob' = cmBackups[cmRuns].before[2]
    BY <1>0, <1>1 DEF RegistryIsBack
  <2>5. QED
    BY <1>0, <2>3, <2>4 DEF FailedApplyRestores, Managed
<1>6. RollbackRestores'
  BY <1>0 DEF RollbackRestores
<1>7. QED
  BY <1>0, <1>3, <1>4, <1>5, <1>6, ActiveStays DEF CookieInv

\* The marker of rollback().
LEMMA MarkerStep ==
  ASSUME CookieInv, cmStep = "marker", cmCurrent' = [status |-> "rolled_back", backup |-> cmOf],
         EndCommand("rolled_back"),
         UNCHANGED <<cmRegistry, cmJob, cmWeb, cmBackups, cmRuns, cmFile, cmOf>>
  PROVE  CookieInv'
<1>0. /\ CookieTypeOK /\ RollbackIsOrdered /\ cmStep' = "idle" /\ cmOutcome' = "rolled_back"
      /\ UNCHANGED cmSwallowed
  BY DEF CookieInv, EndCommand
<1>1. cmCurrent' \in [status : {"none", "active", "rolled_back"}, backup : 0..cmRuns]
  BY <1>0 DEF CookieTypeOK
<1>2. cmCurrent'.status = "rolled_back"
  OBVIOUS
<1>3. CookieTypeOK'
  BY <1>0, <1>1 DEF CookieTypeOK, CookieSteps
<1>4. ApplyIsOrdered' /\ UndoIsOrdered' /\ RollbackIsOrdered'
  BY <1>0 DEF ApplyIsOrdered, ApplySteps, UndoIsOrdered, RollbackIsOrdered
<1>5. RollbackRestores'
  <2>1. cmBackups[cmOf].recorded => /\ cmOf \in 1..cmRuns /\ WebIsBack(cmOf)
                                    /\ RegistryIsBack(cmOf) /\ JobIsBack(cmOf)
    BY <1>0, CookieNumbers DEF RollbackIsOrdered
  <2>2. cmBackups[cmOf].recorded => Managed = cmBackups[cmOf].before
    BY <1>0, <2>1, AllIsBack
  <2>3. QED
    BY <2>2 DEF RollbackRestores, Managed
<1>6. FailedApplyRestores' /\ ActiveIsBackedUp'
  BY <1>0, <1>2 DEF FailedApplyRestores, ActiveIsBackedUp, ActiveIsRestorable
<1>7. QED
  BY <1>3, <1>4, <1>5, <1>6 DEF CookieInv

\* The process dies, or nothing happens.
LEMMA CookieStops ==
  ASSUME CookieInv, CommandStops \/ UNCHANGED cmVars
  PROVE  CookieInv'
<1>0. /\ CookieTypeOK
      /\ UNCHANGED <<cmRegistry, cmJob, cmWeb, cmCurrent, cmBackups, cmRuns, cmFile, cmOf, cmSwallowed>>
  BY DEF CookieInv, CommandStops, EndCommand, cmVars
<1>1. CASE CommandStops
  <2>1. cmStep' = "idle" /\ cmOutcome' = "stopped"
    BY <1>1 DEF CommandStops, EndCommand
  <2>2. CookieTypeOK'
    BY <1>0, <2>1 DEF CookieTypeOK, CookieSteps
  <2>3. ApplyIsOrdered' /\ UndoIsOrdered' /\ RollbackIsOrdered'
    BY <2>1 DEF ApplyIsOrdered, ApplySteps, UndoIsOrdered, RollbackIsOrdered
  <2>4. FailedApplyRestores' /\ RollbackRestores'
    BY <2>1 DEF FailedApplyRestores, RollbackRestores
  <2>5. QED
    BY <1>0, <2>2, <2>3, <2>4, ActiveStays DEF CookieInv
<1>2. CASE UNCHANGED cmVars
  <2>1. cmStep' = cmStep /\ cmOutcome' = cmOutcome
    BY <1>2 DEF cmVars
  <2>2. CookieTypeOK' /\ ApplyIsOrdered' /\ UndoIsOrdered' /\ RollbackIsOrdered'
    BY <1>0, <2>1 DEF CookieInv, CookieTypeOK, ApplyIsOrdered, UndoIsOrdered, RollbackIsOrdered,
       WebIsBack, RegistryIsBack, JobIsBack, FilesAreBack
  <2>3. FailedApplyRestores' /\ RollbackRestores'
    BY <1>0, <2>1 DEF CookieInv, FailedApplyRestores, RollbackRestores, Managed
  <2>4. QED
    BY <1>0, <2>2, <2>3, ActiveStays DEF CookieInv
<1>3. QED
  BY <1>1, <1>2

LEMMA CookieStart == CookieInit => CookieInv
<1>0. SUFFICES ASSUME CookieInit PROVE CookieInv
  OBVIOUS
<1>1. CookieTypeOK
  <2>1. NoBackup \in Backups
    BY DEF NoBackup, Backups
  <2>2. 0 \in Versions /\ 1..0 = {} /\ 0 \in 0..MaxApplies
    BY CookieBounds DEF Versions
  <2>3. cmCurrent \in [status : {"none", "active", "rolled_back"}, backup : 0..cmRuns]
    BY <1>0 DEF CookieInit
  <2>4. cmBackups \in [Applications -> Backups] /\ cmWeb \in [WebFiles -> Versions]
    BY <1>0, <2>1, <2>2 DEF CookieInit
  <2>5. cmRuns = 0 /\ cmOf = 0 /\ cmFile = 1 /\ cmRegistry \in BOOLEAN /\ cmJob = 0 /\ cmStep = "idle"
        /\ cmSwallowed = "none"
    BY <1>0 DEF CookieInit
  <2>6. QED
    BY <2>2, <2>3, <2>4, <2>5 DEF CookieTypeOK, CookieSteps
<1>2. ApplyIsOrdered /\ UndoIsOrdered /\ RollbackIsOrdered
  BY <1>0 DEF CookieInit, ApplyIsOrdered, ApplySteps, UndoIsOrdered, RollbackIsOrdered
<1>3. FailedApplyRestores /\ RollbackRestores
  BY <1>0 DEF CookieInit, FailedApplyRestores, RollbackRestores
<1>4. ActiveIsBackedUp
  BY <1>0 DEF CookieInit, ActiveIsBackedUp, ActiveIsRestorable
<1>5. QED
  BY <1>1, <1>2, <1>3, <1>4 DEF CookieInv

LEMMA CookieStep == CookieInv /\ [CookieNext]_cmVars => CookieInv'
<1>0. SUFFICES ASSUME CookieInv, [CookieNext]_cmVars PROVE CookieInv'
  OBVIOUS
<1>1. ASSUME RecordActivation PROVE CookieInv'
  <2>1. \/ NoteBackup /\ UNCHANGED <<cmDataset, cmRegistry, cmJob, cmWeb, cmCurrent, cmRuns,
                                     cmFile, cmOf>>
        \/ /\ cmStep = "current" /\ cmCurrent' = [status |-> "active", backup |-> cmRuns]
           /\ EndCommand("activated")
           /\ UNCHANGED <<cmRegistry, cmJob, cmWeb, cmBackups, cmRuns, cmFile, cmOf>>
    BY <1>1 DEF RecordActivation
  <2>2. QED
    BY <1>0, <2>1, BackupStep, ActivateStep
<1>2. ASSUME NEW b \in Applications, BeginRollback(b) PROVE CookieInv'
  <2>1. b \in 1..cmRuns
    BY <1>2 DEF BeginRollback
  <2>2. QED
    BY <1>0, <1>2, <2>1, RollbackBegins
<1>3. ASSUME RollbackLastActivation PROVE CookieInv'
  <2>1. BeginRollback(cmCurrent.backup)
    BY <1>3 DEF RollbackLastActivation
  <2>2. PICK b \in 1..cmRuns : b = cmCurrent.backup
    BY <2>1 DEF BeginRollback
  <2>3. BeginRollback(b)
    BY <2>1, <2>2
  <2>4. QED
    BY <1>0, <2>3, RollbackBegins
<1>4. ASSUME FinishRollback PROVE CookieInv'
  <2>1. CASE cmStep = "back_job"
    <3>1. /\ cmJob' = JobBefore /\ Go("marker")
          /\ UNCHANGED <<cmRegistry, cmWeb, cmCurrent, cmBackups, cmRuns, cmFile, cmOf>>
      BY <1>4, <2>1 DEF FinishRollback
    <3>2. QED
      BY <1>0, <2>1, <3>1, BackJobStep
  <2>2. CASE cmStep = "marker"
    <3>1. /\ cmCurrent' = [status |-> "rolled_back", backup |-> cmOf] /\ EndCommand("rolled_back")
          /\ UNCHANGED <<cmRegistry, cmJob, cmWeb, cmBackups, cmRuns, cmFile, cmOf>>
      BY <1>4, <2>2 DEF FinishRollback
    <3>2. QED
      BY <1>0, <2>2, <3>1, MarkerStep
  <2>3. QED
    BY <1>4, <2>1, <2>2 DEF FinishRollback
<1>5. ASSUME Restore PROVE CookieInv'
  BY <1>0, <1>4, <1>5, WebStep, RegistryStep, UndoJobStep DEF Restore
<1>6. QED
  BY <1>0, <1>1, <1>2, <1>3, <1>5, ApplyBegins, ApplyStep, BackupStep, PublishStep, RaiseStep,
     SwallowStep, CookieStops DEF CookieNext

\* An activation can be taken back: by apply() when one of its steps raises, as far as
\* its own restores do not fail (registry and job file also when the publisher's rollback
\* does), and by rollback() of a recorded activation after any later applications, failures, crashes and
\* interrupted rollbacks; and the current-activation file never names an activation whose
\* published files could not be restored (cookie_monster_edge1_activate.py).
THEOREM ActivationStaysReversible == CookieSpec => []ActivationIsReversible
<1>1. CookieInv => ActivationIsReversible
  BY DEF CookieInv, ActivationIsReversible, ActiveIsBackedUp
<1>2. QED
  BY <1>1, CookieStart, CookieStep, PTL DEF CookieSpec

----------------------------------------------------------------------------
\* MailPilot: the one-message pilot, the gateway's route and the event ledger.

\* What the pilot, the gateway's handler and the ledger are made of.
PilotSteps == {"idle", "activate", "restart", "send", "wait", "rollback", "rerestart",
               "verify", "record", "record_failed"}
Threads == [at : {"none", "received", "loaded", "cleared"}, run : Nat, late : BOOLEAN]
MailStates == [active : BOOLEAN, first : MailEventIds \cup {"none"}, count : Nat, transient : Nat]
PilotTypeOK ==
  /\ pilotFiles \in [Documents -> {"safe", "active"}] /\ pilotIndex \in Documents
  /\ pilotStep \in PilotSteps /\ pilotRuns \in Nat /\ pilotPosted \in BOOLEAN
  /\ pilotRecord \in [posted : BOOLEAN, rolledBack : BOOLEAN, written : BOOLEAN]
  /\ gwThread \in Threads /\ mailSent \subseteq [run : Nat, late : BOOLEAN]
  /\ mailEvents \subseteq [id : MailEventIds, type : MailEventTypes] /\ IsFiniteSet(mailEvents)
  /\ mailState \in MailStates

\* Before the first suppressive event no event is named.
UnsuppressedIsUnnamed == ~mailState.active => mailState.first = "none"

\* A request that came when the recipient was suppressed does not get past the
\* gateway's own look at the ledger, which never takes a suppression back.
LateIsHeld ==
  gwThread.late => mailState.active /\ gwThread.at # "cleared"

\* What is in the gateway, or went out, of the last execution was posted by it.
PostedIsKnown ==
  /\ gwThread.at # "none" => gwThread.run <= pilotRuns /\ (gwThread.run = pilotRuns => pilotPosted)
  /\ \A m \in mailSent : m.run <= pilotRuns /\ (m.run = pilotRuns => pilotPosted)

\* The rollback as the execution sees it, and as its record tells it.
Restored == pilotFiles = SafeFiles /\ gwThread = NoThread
RollbackIsTold ==
  /\ pilotStep = "send" => gwThread = NoThread
  /\ pilotStep = "verify" => gwThread = NoThread
  /\ pilotStep = "record" => Restored
  /\ pilotStep # "idle" => ~pilotRecord.written
  /\ pilotRecord.written => pilotRecord.posted = pilotPosted
                            /\ (pilotRecord.rolledBack => Restored)

PilotInv ==
  PilotTypeOK /\ UnsuppressedIsUnnamed /\ LateIsHeld /\ PostedIsKnown /\ RollbackIsTold
    /\ SuppressionHolds /\ BackupsAreSafe
----------------------------------------------------------------------------
\* A step that leaves the ledger alone leaves its claims.
LEMMA LedgerStays ==
  ASSUME PilotInv, UNCHANGED ledgerVars
  PROVE  LedgerCountsOnce' /\ UnsuppressedIsUnnamed'
BY DEF PilotInv, SuppressionHolds, ledgerVars, LedgerCountsOnce, UnsuppressedIsUnnamed

\* A step of the pilot that leaves the gateway and what went out alone.
LEMMA PilotGoesOn ==
  ASSUME PilotInv, PilotTypeOK', UNCHANGED <<ledgerVars, gwThread, mailSent, pilotBackup>>,
         RollbackIsTold',
         pilotRuns' = pilotRuns /\ pilotPosted' = pilotPosted
  PROVE  PilotInv'
<1>1. /\ LateIsHeld /\ PostedIsKnown /\ SuppressedIsNotMailed /\ BackupsAreSafe
      /\ UNCHANGED <<mailState, mailEvents>>
  BY DEF PilotInv, SuppressionHolds, ledgerVars
<1>2. LateIsHeld' /\ PostedIsKnown' /\ SuppressedIsNotMailed' /\ BackupsAreSafe'
  BY <1>1 DEF LateIsHeld, PostedIsKnown, SuppressedIsNotMailed, BackupsAreSafe
<1>3. QED
  BY <1>2, LedgerStays DEF PilotInv, SuppressionHolds

\* The documents are replaced one by one, there and back.
LEMMA ReplaceStep ==
  ASSUME PilotInv, ActivateDocument \/ RestoreDocument
  PROVE  PilotInv'
<1>0. PilotTypeOK /\ RollbackIsTold /\ pilotBackup = SafeFiles
  BY DEF PilotInv, BackupsAreSafe
<1>1. PICK from \in {ActiveFiles, SafeFiles}, step \in {"activate", "rollback"},
           after \in {"restart", "rerestart"} : ReplaceDocument(from, step, after)
  BY <1>0 DEF ActivateDocument, RestoreDocument
<1>2. /\ pilotStep = step /\ pilotFiles' = [pilotFiles EXCEPT ![pilotIndex] = from[pilotIndex]]
      /\ pilotIndex' = IF pilotIndex = 3 THEN 1 ELSE pilotIndex + 1
      /\ pilotStep' = IF pilotIndex = 3 THEN after ELSE step
      /\ UNCHANGED <<pilotBackup, pilotRuns, pilotPosted, pilotRecord, gwThread, mailSent,
                     mailEvents, mailState>>
  BY <1>1 DEF ReplaceDocument, ledgerVars
<1>3. from[pilotIndex] \in {"safe", "active"}
  BY <1>0 DEF PilotTypeOK, ActiveFiles, SafeFiles
<1>4. /\ pilotFiles' \in [Documents -> {"safe", "active"}] /\ pilotIndex' \in Documents
      /\ pilotStep' \in PilotSteps
  BY <1>0, <1>2, <1>3 DEF PilotTypeOK, Documents, PilotSteps
<1>5. PilotTypeOK'
  BY <1>0, <1>2, <1>4 DEF PilotTypeOK
<1>6. RollbackIsTold'
  BY <1>0, <1>2 DEF RollbackIsTold
<1>7. QED
  BY <1>2, <1>5, <1>6, PilotGoesOn DEF ledgerVars

\* A new execution, which finds the safe documents, and a new request.
LEMMA StartStep ==
  ASSUME PilotInv, StartPilot \/ SendOnce
  PROVE  PilotInv'
<1>0. /\ PilotTypeOK /\ LateIsHeld /\ PostedIsKnown /\ RollbackIsTold
      /\ SuppressedIsNotMailed /\ BackupsAreSafe
  BY DEF PilotInv, SuppressionHolds
<1>1. CASE StartPilot
  <2>1. /\ pilotRuns' = pilotRuns + 1 /\ pilotBackup' = SafeFiles /\ pilotRecord' = NoRecord
        /\ pilotPosted' = FALSE /\ pilotStep' = "activate" /\ pilotIndex' = 1
        /\ UNCHANGED <<pilotFiles, gwThread, mailSent, mailEvents, mailState>>
    BY <1>1 DEF StartPilot, Preflight, ledgerVars
  <2>2. NoRecord \in [posted : BOOLEAN, rolledBack : BOOLEAN, written : BOOLEAN] /\ ~NoRecord.written
    BY DEF NoRecord
  <2>3. PilotTypeOK' /\ RollbackIsTold'
    <3>1. pilotRuns' \in Nat /\ pilotIndex' \in Documents /\ pilotStep' \in PilotSteps
      BY <1>0, <2>1 DEF PilotTypeOK, PilotSteps, Documents
    <3>2. PilotTypeOK'
      BY <1>0, <2>1, <2>2, <3>1 DEF PilotTypeOK
    <3>3. QED
      BY <2>1, <2>2, <3>2 DEF RollbackIsTold
  <2>4. PostedIsKnown'
    <3>1. gwThread.run \in Nat /\ pilotRuns \in Nat /\ \A m \in mailSent : m.run \in Nat
      BY <1>0 DEF PilotTypeOK, Threads
    <3>2. QED
      BY <1>0, <2>1, <3>1 DEF PostedIsKnown
  <2>5. LateIsHeld' /\ SuppressedIsNotMailed' /\ BackupsAreSafe'
    BY <1>0, <2>1 DEF LateIsHeld, SuppressedIsNotMailed, BackupsAreSafe
  <2>6. QED
    BY <2>1, <2>3, <2>4, <2>5, LedgerStays DEF PilotInv, SuppressionHolds, ledgerVars
<1>2. CASE SendOnce
  <2>1. /\ pilotPosted' = TRUE /\ pilotStep = "send" /\ pilotStep' = "wait"
        /\ gwThread' = [at |-> "received", run |-> pilotRuns, late |-> mailState.active]
        /\ UNCHANGED <<pilotFiles, pilotIndex, pilotBackup, pilotRuns, pilotRecord, mailSent,
                       mailEvents, mailState>>
    BY <1>2 DEF SendOnce, ledgerVars
  <2>2. mailState.active \in BOOLEAN /\ pilotRuns \in Nat
    BY <1>0 DEF PilotTypeOK, MailStates
  <2>3. /\ gwThread' \in Threads /\ gwThread'.at = "received" /\ gwThread'.run = pilotRuns
        /\ gwThread'.late = mailState.active
    BY <2>1, <2>2 DEF Threads
  <2>4. PilotTypeOK'
    BY <1>0, <2>1, <2>3 DEF PilotTypeOK, PilotSteps
  <2>5. LateIsHeld' /\ SuppressedIsNotMailed' /\ BackupsAreSafe'
    BY <1>0, <2>1, <2>3 DEF LateIsHeld, SuppressedIsNotMailed, BackupsAreSafe
  <2>6. PostedIsKnown' /\ RollbackIsTold'
    <3>1. PostedIsKnown'
      BY <1>0, <2>1, <2>2, <2>3 DEF PostedIsKnown
    <3>2. QED
      BY <1>0, <2>1, <3>1 DEF RollbackIsTold
  <2>7. QED
    BY <2>1, <2>4, <2>5, <2>6, LedgerStays DEF PilotInv, SuppressionHolds, ledgerVars
<1>3. QED
  BY <1>1, <1>2

\* A restart ends the gateway's threads.
LEMMA GatewayRestarts ==
  ASSUME PilotInv, ActivateGateway \/ RestartRestored \/ OperatorRestores
  PROVE  PilotInv'
<1>0. /\ PilotTypeOK /\ LateIsHeld /\ PostedIsKnown /\ RollbackIsTold
      /\ SuppressedIsNotMailed /\ BackupsAreSafe
  BY DEF PilotInv, SuppressionHolds
<1>1. /\ gwThread' = NoThread /\ pilotStep' \in {"send", "verify", "idle"}
      /\ pilotFiles' \in {pilotFiles, SafeFiles}
      /\ pilotStep' # "idle" => pilotStep # "idle" /\ pilotFiles' = pilotFiles
      /\ pilotStep' = "idle" => pilotStep = "idle" /\ pilotFiles' = SafeFiles
      /\ UNCHANGED <<pilotIndex, pilotBackup, pilotRuns, pilotPosted, pilotRecord, mailSent,
                     mailEvents, mailState>>
  BY <1>0 DEF ActivateGateway, RestartRestored, OperatorRestores, ledgerVars, BackupsAreSafe
<1>2. NoThread \in Threads /\ NoThread.at = "none" /\ ~NoThread.late
  BY DEF NoThread, Threads
<1>3. SafeFiles \in [Documents -> {"safe", "active"}]
  BY DEF SafeFiles
<1>4. PilotTypeOK'
  BY <1>0, <1>1, <1>2, <1>3 DEF PilotTypeOK, PilotSteps
<1>5. LateIsHeld' /\ SuppressedIsNotMailed' /\ BackupsAreSafe' /\ PostedIsKnown'
  BY <1>0, <1>1, <1>2 DEF LateIsHeld, SuppressedIsNotMailed, BackupsAreSafe, PostedIsKnown
<1>6. RollbackIsTold'
  BY <1>0, <1>1 DEF RollbackIsTold, Restored
<1>7. QED
  BY <1>1, <1>4, <1>5, <1>6, LedgerStays DEF PilotInv, SuppressionHolds, ledgerVars

\* The execution goes on, fails, dies or writes what it has seen.
LEMMA ExecutionStep ==
  ASSUME PilotInv, LeaveSend \/ ActivationFails \/ VerifyRestored \/ RollbackFails \/ PilotDies
  PROVE  PilotInv'
<1>0. PilotTypeOK /\ RollbackIsTold
  BY DEF PilotInv
<1>1. /\ pilotStep' \in {"rollback", "record", "record_failed", "idle"} /\ pilotStep # "idle"
      /\ pilotIndex' \in {pilotIndex, 1}
      /\ pilotStep' = "record" => pilotStep = "verify" /\ pilotFiles = SafeFiles
      /\ UNCHANGED <<pilotFiles, pilotBackup, pilotRuns, pilotPosted, pilotRecord, gwThread,
                     mailSent, mailEvents, mailState>>
  BY DEF LeaveSend, ActivationFails, VerifyRestored, RollbackFails, PilotDies, ledgerVars
<1>2. PilotTypeOK'
  BY <1>0, <1>1 DEF PilotTypeOK, PilotSteps, Documents
<1>3. RollbackIsTold'
  BY <1>0, <1>1 DEF RollbackIsTold, Restored
<1>4. QED
  BY <1>1, <1>2, <1>3, PilotGoesOn DEF ledgerVars

LEMMA WriteStep ==
  ASSUME PilotInv, WriteRecord
  PROVE  PilotInv'
<1>0. PilotTypeOK /\ RollbackIsTold
  BY DEF PilotInv
<1>1. /\ pilotRecord' = [posted |-> pilotPosted, rolledBack |-> RolledBack, written |-> TRUE]
      /\ pilotStep' = "idle"
      /\ UNCHANGED <<pilotFiles, pilotIndex, pilotBackup, pilotRuns, pilotPosted, gwThread,
                     mailSent, mailEvents, mailState>>
  BY DEF WriteRecord, ledgerVars
<1>2. RolledBack \in BOOLEAN /\ pilotPosted \in BOOLEAN
  BY <1>0 DEF RolledBack, PilotTypeOK
<1>3. /\ pilotRecord' \in [posted : BOOLEAN, rolledBack : BOOLEAN, written : BOOLEAN]
      /\ pilotRecord'.posted = pilotPosted /\ pilotRecord'.rolledBack = RolledBack
  BY <1>1, <1>2
<1>4. PilotTypeOK'
  BY <1>0, <1>1, <1>3 DEF PilotTypeOK, PilotSteps
<1>5. RollbackIsTold'
  BY <1>0, <1>1, <1>3 DEF RollbackIsTold, Restored, RolledBack
<1>6. QED
  BY <1>1, <1>4, <1>5, PilotGoesOn DEF ledgerVars

\* The gateway's handler, which looks at the ledger before it submits.
LEMMA GatewayStep ==
  ASSUME PilotInv, GatewayLoads \/ SuppressionPreflight \/ GatewaySubmits
  PROVE  PilotInv'
<1>0. /\ PilotTypeOK /\ LateIsHeld /\ PostedIsKnown /\ RollbackIsTold
      /\ SuppressedIsNotMailed /\ BackupsAreSafe
  BY DEF PilotInv, SuppressionHolds
<1>1. NoThread \in Threads /\ NoThread.at = "none" /\ ~NoThread.late
  BY DEF NoThread, Threads
<1>2. PICK t \in Threads : t = gwThread
  BY <1>0 DEF PilotTypeOK
<1>3. /\ t.at # "none"
      /\ UNCHANGED <<pilotFiles, pilotStep, pilotIndex, pilotBackup, pilotRuns, pilotPosted,
                     pilotRecord, mailEvents, mailState>>
  BY <1>2 DEF GatewayLoads, SuppressionPreflight, GatewaySubmits, Gateway, ledgerVars
<1>4. PICK u \in Threads :
        /\ gwThread' = u /\ u.at \in {"none", "loaded", "cleared"}
        /\ u = NoThread \/ (u.run = t.run /\ u.late = t.late)
        /\ u.at = "cleared" => ~mailState.active
    <2>1. CASE gwThread' = NoThread
      BY <1>1, <2>1
    <2>2. CASE gwThread' = [t EXCEPT !.at = "loaded"]
      <3>1. [t EXCEPT !.at = "loaded"] \in Threads
        BY DEF Threads
      <3>2. PICK u \in Threads : u = [t EXCEPT !.at = "loaded"]
        BY <3>1
      <3>3. u.at = "loaded" /\ u.run = t.run /\ u.late = t.late
        BY <3>2 DEF Threads
      <3>4. QED
        BY <2>2, <3>2, <3>3
    <2>3. CASE ~mailState.active /\ gwThread' = [t EXCEPT !.at = "cleared"]
      <3>1. [t EXCEPT !.at = "cleared"] \in Threads
        BY DEF Threads
      <3>2. PICK u \in Threads : u = [t EXCEPT !.at = "cleared"]
        BY <3>1
      <3>3. u.at = "cleared" /\ u.run = t.run /\ u.late = t.late
        BY <3>2 DEF Threads
      <3>4. QED
        BY <2>3, <3>2, <3>3
    <2>4. QED
      BY <1>2, <2>1, <2>2, <2>3 DEF GatewayLoads, SuppressionPreflight, GatewaySubmits, Gateway
<1>5. \A m \in mailSent' : m \in mailSent \/
        (m \in [run : Nat, late : BOOLEAN] /\ t.at = "cleared" /\ m.run = t.run /\ m.late = t.late)
  <2>1. CASE UNCHANGED mailSent
    BY <2>1
  <2>2. CASE t.at = "cleared" /\ mailSent' = mailSent \cup {[run |-> t.run, late |-> t.late]}
    <3>1. t.run \in Nat /\ t.late \in BOOLEAN
      BY DEF Threads
    <3>2. QED
      BY <2>2, <3>1
  <2>3. QED
    BY <1>2, <2>1, <2>2 DEF GatewayLoads, SuppressionPreflight, GatewaySubmits, Gateway
<1>6. PilotTypeOK'
  BY <1>0, <1>3, <1>4, <1>5 DEF PilotTypeOK
<1>7. LateIsHeld' /\ BackupsAreSafe'
  BY <1>0, <1>1, <1>2, <1>3, <1>4 DEF LateIsHeld, BackupsAreSafe
<1>8. SuppressedIsNotMailed' /\ PostedIsKnown'
  BY <1>0, <1>1, <1>2, <1>3, <1>4, <1>5 DEF SuppressedIsNotMailed, LateIsHeld, PostedIsKnown
<1>9. RollbackIsTold'
  BY <1>0, <1>1, <1>2, <1>3, <1>4 DEF RollbackIsTold, Restored
<1>10. QED
  BY <1>3, <1>6, <1>7, <1>8, <1>9, LedgerStays DEF PilotInv, SuppressionHolds, ledgerVars

\* apply_event(): a new row, counted once; the suppression stays and keeps its name.
LEMMA EventStep ==
  ASSUME PilotInv, NEW id \in MailEventIds, NEW type \in MailEventTypes, ApplyEvent(id, type)
  PROVE  PilotInv'
<1> DEFINE e == [id |-> id, type |-> type]
           Bounces == {x \in mailEvents : x.type \in {"transient_bounce"}}
<1>0. /\ PilotTypeOK /\ LateIsHeld /\ PostedIsKnown /\ RollbackIsTold /\ LedgerCountsOnce
      /\ SuppressedIsNotMailed /\ BackupsAreSafe /\ UnsuppressedIsUnnamed
  BY DEF PilotInv, SuppressionHolds
<1>1. /\ \A x \in mailEvents : x.id # id
      /\ mailEvents' = mailEvents \cup {e}
      /\ UNCHANGED <<pilotFiles, pilotStep, pilotIndex, pilotBackup, pilotRuns, pilotPosted,
                     pilotRecord, gwThread, mailSent>>
  BY DEF ApplyEvent, NewEvent
<1>2. e \in [id : MailEventIds, type : MailEventTypes] /\ e.id = id /\ e.type = type
  OBVIOUS
<1>3. /\ mailState.active \in BOOLEAN /\ mailState.first \in MailEventIds \cup {"none"}
      /\ mailState.count \in Nat /\ mailState.transient \in Nat
  BY <1>0 DEF PilotTypeOK, MailStates
<1>4. /\ mailState' \in MailStates
      /\ mailState'.active = (mailState.active \/ type \in SuppressiveTypes)
      /\ mailState'.first = IF mailState.first = "none" /\ type \in SuppressiveTypes
                              THEN id ELSE mailState.first
      /\ mailState'.count = mailState.count + 1
      /\ mailState'.transient = IF type = "transient_bounce" THEN mailState.transient + 1
                                ELSE IF type = "delivered" /\ ~mailState.active THEN 0
                                ELSE mailState.transient
  BY <1>3 DEF ApplyEvent, MailStates
<1>5. /\ IsFiniteSet(mailEvents) /\ IsFiniteSet(mailEvents')
      /\ Cardinality(mailEvents') = Cardinality(mailEvents) + 1
  BY <1>0, <1>1, <1>2, FS_AddElement DEF PilotTypeOK
<1>6. PilotTypeOK'
  BY <1>0, <1>1, <1>2, <1>4, <1>5 DEF PilotTypeOK
<1>7. LateIsHeld' /\ PostedIsKnown' /\ SuppressedIsNotMailed' /\ BackupsAreSafe'
  BY <1>0, <1>1, <1>4 DEF LateIsHeld, PostedIsKnown, SuppressedIsNotMailed, BackupsAreSafe
<1>8. RollbackIsTold'
  BY <1>0, <1>1 DEF RollbackIsTold, Restored
<1>9. UnsuppressedIsUnnamed'
  BY <1>0, <1>4 DEF UnsuppressedIsUnnamed
<1>10. mailState'.transient \in 0 .. Cardinality({x \in mailEvents' : x.type \in {"transient_bounce"}})
  <2>1. IsFiniteSet(Bounces) /\ e \notin Bounces /\ Cardinality(Bounces) \in Nat
    BY <1>1, <1>2, <1>5, FS_Subset, FS_CardinalityType
  <2>2. mailState.transient \in 0 .. Cardinality(Bounces)
    BY <1>0 DEF LedgerCountsOnce
  <2>3. CASE type = "transient_bounce"
    <3>1. {x \in mailEvents' : x.type \in {"transient_bounce"}} = Bounces \cup {e}
      BY <1>1, <1>2, <2>3
    <3>2. Cardinality(Bounces \cup {e}) = Cardinality(Bounces) + 1
      BY <2>1, FS_AddElement
    <3>3. mailState'.transient = mailState.transient + 1
      BY <1>4, <2>3
    <3>4. Cardinality({x \in mailEvents' : x.type \in {"transient_bounce"}}) = Cardinality(Bounces) + 1
      BY <3>1, <3>2
    <3>5. QED
      BY <1>3, <2>1, <2>2, <3>3, <3>4
  <2>4. CASE type # "transient_bounce"
    <3>1. {x \in mailEvents' : x.type \in {"transient_bounce"}} = Bounces
      BY <1>1, <1>2, <2>4
    <3>2. QED
      BY <1>3, <1>4, <2>1, <2>2, <2>4, <3>1
  <2>5. QED
    BY <2>3, <2>4
<1>11. /\ mailState'.active = ({x \in mailEvents' : x.type \in SuppressiveTypes} # {})
       /\ mailState'.active => \E x \in {y \in mailEvents' : y.type \in SuppressiveTypes} :
                                x.id = mailState'.first
  <2>1. /\ mailState.active = ({x \in mailEvents : x.type \in SuppressiveTypes} # {})
        /\ mailState.active => \E x \in {y \in mailEvents : y.type \in SuppressiveTypes} :
                                x.id = mailState.first
    BY <1>0 DEF LedgerCountsOnce
  <2>2. e \in mailEvents' /\ mailEvents \subseteq mailEvents'
    BY <1>1
  <2>3. CASE type \notin SuppressiveTypes
    <3>1. {x \in mailEvents' : x.type \in SuppressiveTypes}
            = {x \in mailEvents : x.type \in SuppressiveTypes}
      BY <1>1, <1>2, <2>3
    <3>2. mailState'.active = mailState.active /\ mailState'.first = mailState.first
      BY <1>3, <1>4, <2>3
    <3>3. QED
      BY <2>1, <3>1, <3>2
  <2>4. CASE type \in SuppressiveTypes
    <3>1. mailState'.active = TRUE
      BY <1>3, <1>4, <2>4
    <3>2. e \in {x \in mailEvents' : x.type \in SuppressiveTypes}
      BY <1>2, <2>2, <2>4
    <3>3. CASE mailState.first = "none"
      BY <1>2, <1>4, <2>4, <3>1, <3>2, <3>3
    <3>4. CASE mailState.first # "none"
      <4>1. mailState.active /\ mailState'.first = mailState.first
        BY <1>0, <1>3, <1>4, <3>4 DEF UnsuppressedIsUnnamed
      <4>2. PICK x \in mailEvents : x.type \in SuppressiveTypes /\ x.id = mailState.first
        BY <2>1, <4>1
      <4>3. QED
        BY <2>2, <3>1, <3>2, <4>1, <4>2
    <3>5. QED
      BY <3>3, <3>4
  <2>5. QED
    BY <2>3, <2>4
<1>12. LedgerCountsOnce'
  BY <1>0, <1>4, <1>5, <1>10, <1>11 DEF LedgerCountsOnce
<1>13. QED
  BY <1>6, <1>7, <1>8, <1>9, <1>12 DEF PilotInv, SuppressionHolds

LEMMA PilotStart == PilotInit => PilotInv
<1>0. SUFFICES ASSUME PilotInit PROVE PilotInv
  OBVIOUS
<1>1. /\ SafeFiles \in [Documents -> {"safe", "active"}] /\ 1 \in Documents
      /\ NoRecord \in [posted : BOOLEAN, rolledBack : BOOLEAN, written : BOOLEAN] /\ ~NoRecord.written
      /\ NoThread \in Threads /\ NoThread.at = "none" /\ ~NoThread.late
  BY DEF SafeFiles, Documents, NoRecord, NoThread, Threads
<1>2. /\ mailState \in MailStates /\ mailState.active = FALSE /\ mailState.first = "none"
      /\ mailState.count = 0 /\ mailState.transient = 0
  BY <1>0 DEF PilotInit, MailStates
<1>3. IsFiniteSet(mailEvents) /\ Cardinality(mailEvents) = 0 /\ mailEvents = {}
  BY <1>0, FS_EmptySet DEF PilotInit
<1>4. PilotTypeOK
  BY <1>0, <1>1, <1>2, <1>3 DEF PilotInit, PilotTypeOK, PilotSteps
<1>5. UnsuppressedIsUnnamed /\ LateIsHeld /\ PostedIsKnown /\ SuppressedIsNotMailed /\ BackupsAreSafe
  BY <1>0, <1>1, <1>2 DEF PilotInit, UnsuppressedIsUnnamed, LateIsHeld, PostedIsKnown,
     SuppressedIsNotMailed, BackupsAreSafe
<1>6. RollbackIsTold
  BY <1>0, <1>1 DEF PilotInit, RollbackIsTold
<1>7. LedgerCountsOnce
  <2>1. {x \in mailEvents : x.type \in {"transient_bounce"}} = {}
        /\ {x \in mailEvents : x.type \in SuppressiveTypes} = {}
    BY <1>3
  <2>2. Cardinality({x \in mailEvents : x.type \in {"transient_bounce"}}) = 0
    BY <2>1, FS_EmptySet
  <2>3. mailState.transient \in 0 .. Cardinality({x \in mailEvents : x.type \in {"transient_bounce"}})
    BY <1>2, <2>2
  <2>4. mailState.active = ({x \in mailEvents : x.type \in SuppressiveTypes} # {})
    BY <1>2, <2>1
  <2>5. QED
    BY <1>2, <1>3, <2>3, <2>4 DEF LedgerCountsOnce
<1>8. QED
  BY <1>4, <1>5, <1>6, <1>7 DEF PilotInv, SuppressionHolds

LEMMA PilotKeepsInv == PilotInv /\ [PilotNext]_pilotVars => PilotInv'
<1>0. SUFFICES ASSUME PilotInv, [PilotNext]_pilotVars PROVE PilotInv'
  OBVIOUS
<1>1. CASE UNCHANGED pilotVars
  <2>1. PilotTypeOK /\ RollbackIsTold
    BY <1>0 DEF PilotInv
  <2>2. PilotTypeOK' /\ RollbackIsTold'
    BY <1>1, <2>1 DEF pilotVars, PilotTypeOK, RollbackIsTold, Restored
  <2>3. QED
    BY <1>0, <1>1, <2>2, PilotGoesOn DEF pilotVars, ledgerVars
<1>2. CASE ActivateDocument \/ RestoreDocument
  BY <1>0, <1>2, ReplaceStep
<1>3. CASE StartPilot \/ SendOnce
  BY <1>0, <1>3, StartStep
<1>4. CASE ActivateGateway \/ RestartRestored \/ OperatorRestores
  BY <1>0, <1>4, GatewayRestarts
<1>5. CASE LeaveSend \/ ActivationFails \/ VerifyRestored \/ RollbackFails \/ PilotDies
  BY <1>0, <1>5, ExecutionStep
<1>6. CASE WriteRecord
  BY <1>0, <1>6, WriteStep
<1>7. CASE GatewayLoads \/ SuppressionPreflight \/ GatewaySubmits
  BY <1>0, <1>7, GatewayStep
<1>8. ASSUME NEW id \in MailEventIds, NEW type \in MailEventTypes, ApplyEvent(id, type)
      PROVE  PilotInv'
  BY <1>0, <1>8, EventStep
<1>9. QED
  BY <1>0, <1>1, <1>2, <1>3, <1>4, <1>5, <1>6, <1>7, <1>8 DEF PilotNext

\* The ledger that the gateway consults counts every event once and names the first
\* suppression, and no request that came after a suppression is submitted
\* (delivery_events.py apply_event(), outbound_mail_gateway.py do_POST()).
THEOREM SuppressionStays == PilotSpec => []SuppressionHolds
<1>1. PilotInv => SuppressionHolds
  BY DEF PilotInv
<1>2. QED
  BY <1>1, PilotStart, PilotKeepsInv, PTL DEF PilotSpec

\* Whatever dies, times out or fails to roll back, the backups hold the safe documents
\* and execution.json tells the truth of the rollback and of the message
\* (execute_outbound_mail_one_message_pilot.py execute_pilot()).
THEOREM PilotStaysReversible == PilotSpec => []PilotIsReversible
<1>1. PilotInv => PilotIsReversible
  <2>1. SUFFICES ASSUME PilotInv PROVE PilotIsReversible
    OBVIOUS
  <2>2. BackupsAreSafe /\ RollbackIsTold /\ PostedIsKnown
    BY <2>1 DEF PilotInv
  <2>3. EvidenceIsTrue
    BY <2>2 DEF EvidenceIsTrue, RollbackIsTold, PostedIsKnown, Restored
  <2>4. QED
    BY <2>2, <2>3 DEF PilotIsReversible
<1>2. QED
  BY <1>1, PilotStart, PilotKeepsInv, PTL DEF PilotSpec

----------------------------------------------------------------------------
\* MediaQuarantine: the files of an attachment.

\* Where a worker may stand.
IngestSteps == {"idle", "receive", "link", "meta", "state", "duplicate"}
ScanStates == {"scanned_clean_held", "quarantined_malicious"} \cup ScanExceptions
MqOps == [at : IngestSteps \cup {"scan", "scanner"}] \cup
         [at : {"reverify", "record"}, state : ScanStates]

MqTypeOK ==
  /\ mqBlob \in {"absent", "intact", "altered"} /\ mqContent \in {"clean", "malicious"}
  /\ mqOp \in [QWorkers -> MqOps]

\* The ingest that has linked the blob writes its other two files; until it has, or
\* when it fails, no identifier is answered, nothing is scanned and there is no state.
Linking(w) == mqOp[w].at \in {"meta", "state"}
Scanning(w) == mqOp[w].at \in {"scan", "scanner", "reverify", "record"}
FirstIngestAlone ==
  /\ \A v, w \in QWorkers : Linking(v) /\ Linking(w) => v = w
  /\ mqBlob = "absent" => \A w \in QWorkers : ~Linking(w)
  /\ mqBlob = "absent" \/ (\E w \in QWorkers : Linking(w)) =>
       mqState = "none" /\ ~mqKnown /\ \A w \in QWorkers : ~Scanning(w)

\* A verdict "clean" that a worker carries is true, unless the blob has been altered
\* and the worker will find out.
CarriedIsGenuine ==
  \A w \in QWorkers :
    mqOp[w].at \in {"reverify", "record"} /\ mqOp[w].state = "scanned_clean_held"
      /\ mqBlob = "intact" => mqContent = "clean"

MqInv == MqTypeOK /\ FirstIngestAlone /\ CarriedIsGenuine /\ CleanIsGenuine
----------------------------------------------------------------------------
\* A step of one worker that leaves the files alone.
LEMMA WorkerGoesOn ==
  ASSUME MqInv, NEW w \in QWorkers, NEW o \in MqOps, mqOp' = [mqOp EXCEPT ![w] = o],
         UNCHANGED <<mqFiles, mqContent>>, o.at \notin {"meta", "state"},
         mqKnown' => mqState # "none" \/ mqKnown,
         o.at \in {"scan", "scanner", "reverify", "record"} => Scanning(w) \/ mqKnown,
         o.at \in {"reverify", "record"} /\ o.state = "scanned_clean_held" /\ mqBlob = "intact"
           => mqContent = "clean"
  PROVE  MqInv' /\ (VerdictStands /\ CleanIsGenuine')
<1>0. MqTypeOK /\ FirstIngestAlone /\ CarriedIsGenuine /\ CleanIsGenuine
  BY DEF MqInv
<1>1. /\ mqOp' \in [QWorkers -> MqOps] /\ mqOp'[w] = o
      /\ \A v \in QWorkers : v # w => mqOp'[v] = mqOp[v]
  BY <1>0 DEF MqTypeOK
<1>2. UNCHANGED <<mqBlob, mqState, mqContent>>
  BY DEF mqFiles
<1>3. MqTypeOK'
  BY <1>0, <1>1, <1>2 DEF MqTypeOK
<1>4. FirstIngestAlone'
  <2>1. \A v \in QWorkers : Linking(v)' => Linking(v) /\ v # w
    BY <1>1 DEF Linking
  <2>2. \A v \in QWorkers : Scanning(v)' => Scanning(v) \/ mqKnown
    BY <1>1 DEF Scanning
  <2>3. \A u, v \in QWorkers : Linking(u)' /\ Linking(v)' => u = v
    BY <1>0, <2>1 DEF FirstIngestAlone
  <2>4. ASSUME mqBlob = "absent" \/ \E v \in QWorkers : Linking(v)'
        PROVE  mqState = "none" /\ ~mqKnown' /\ \A v \in QWorkers : ~Scanning(v)'
    <3>1. mqState = "none" /\ ~mqKnown /\ \A v \in QWorkers : ~Scanning(v)
      BY <1>0, <2>1, <2>4 DEF FirstIngestAlone
    <3>2. QED
      BY <2>2, <3>1
  <2>5. mqBlob = "absent" => \A v \in QWorkers : ~Linking(v)'
    BY <1>0, <2>1 DEF FirstIngestAlone
  <2>6. QED
    BY <1>2, <2>3, <2>4, <2>5 DEF FirstIngestAlone
<1>5. CarriedIsGenuine'
  BY <1>0, <1>1, <1>2 DEF CarriedIsGenuine
<1>6. CleanIsGenuine'
  BY <1>0, <1>2 DEF CleanIsGenuine
<1>7. VerdictStands
  BY <1>2 DEF VerdictStands
<1>8. QED
  BY <1>3, <1>4, <1>5, <1>6, <1>7 DEF MqInv

\* To() gives up what the worker carried.
LEMMA StepsTyped ==
  /\ \A step \in IngestSteps \cup {"scan", "scanner"} :
       [at |-> step] \in MqOps /\ [at |-> step].at = step
  /\ \A step \in {"reverify", "record"}, s \in ScanStates :
       /\ [at |-> step, state |-> s] \in MqOps
       /\ [at |-> step, state |-> s].at = step /\ [at |-> step, state |-> s].state = s
  /\ \A o \in MqOps : /\ o.at \in {"reverify", "record"} => o.state \in ScanStates
                      /\ o.at \in IngestSteps \cup {"scan", "scanner", "reverify", "record"}
BY DEF MqOps, IngestSteps

\* os.link(), the metadata, the scan state.
LEMMA LinkStep ==
  ASSUME MqInv, NEW w \in QWorkers, LinkBlob(w) \/ WriteMetadata(w) \/ WritePending(w)
  PROVE  MqInv' /\ (VerdictStands /\ CleanIsGenuine')
<1>0. MqTypeOK /\ FirstIngestAlone /\ CarriedIsGenuine /\ CleanIsGenuine
  BY DEF MqInv
<1>1. CASE LinkBlob(w)
  <2>1. CASE mqBlob = "absent"
    <3>1. /\ mqBlob' = "intact" /\ mqOp' = [mqOp EXCEPT ![w] = [at |-> "meta"]]
          /\ UNCHANGED <<mqState, mqKnown, mqContent>>
      BY <1>1, <2>1 DEF LinkBlob, To
    <3>2. [at |-> "meta"] \in MqOps
      BY StepsTyped DEF IngestSteps
    <3>3. /\ mqOp' \in [QWorkers -> MqOps] /\ mqOp'[w].at = "meta"
          /\ \A v \in QWorkers : v # w => mqOp'[v] = mqOp[v]
      BY <1>0, <3>1, <3>2 DEF MqTypeOK
    <3>4. /\ \A v \in QWorkers : ~Linking(v) /\ ~Scanning(v)
          /\ mqState = "none" /\ ~mqKnown
      BY <1>0, <2>1 DEF FirstIngestAlone
    <3>5. \A v \in QWorkers : (Linking(v)' => v = w) /\ ~Scanning(v)'
      BY <3>3, <3>4 DEF Linking, Scanning
    <3>6. MqTypeOK' /\ FirstIngestAlone'
      BY <1>0, <3>1, <3>3, <3>4, <3>5 DEF MqTypeOK, FirstIngestAlone
    <3>7. CarriedIsGenuine' /\ CleanIsGenuine'
      BY <3>1, <3>4, <3>5 DEF CarriedIsGenuine, CleanIsGenuine, Scanning
    <3>8. QED
      BY <3>1, <3>4, <3>6, <3>7 DEF MqInv, VerdictStands
  <2>2. CASE mqBlob # "absent"
    <3>1. mqOp' = [mqOp EXCEPT ![w] = [at |-> "duplicate"]]
          /\ UNCHANGED <<mqFiles, mqKnown, mqContent>>
      BY <1>1, <2>2 DEF LinkBlob, To, mqFiles
    <3>2. PICK o \in MqOps : o = [at |-> "duplicate"] /\ o.at = "duplicate"
      BY StepsTyped DEF IngestSteps
    <3>3. QED
      BY <3>1, <3>2, WorkerGoesOn
  <2>3. QED
    BY <2>1, <2>2
<1>2. CASE WriteMetadata(w)
  <2>1. /\ mqOp' = [mqOp EXCEPT ![w] = [at |-> "state"]] /\ mqOp[w].at = "meta"
        /\ UNCHANGED <<mqBlob, mqState, mqKnown, mqContent>>
    BY <1>2 DEF WriteMetadata, To
  <2>2. [at |-> "state"] \in MqOps
    BY StepsTyped DEF IngestSteps
  <2>3. /\ mqOp' \in [QWorkers -> MqOps] /\ mqOp'[w].at = "state"
        /\ \A v \in QWorkers : v # w => mqOp'[v] = mqOp[v]
    BY <1>0, <2>1, <2>2 DEF MqTypeOK
  <2>4. \A v \in QWorkers : (Linking(v)' <=> Linking(v)) /\ (Scanning(v)' <=> Scanning(v))
    BY <2>1, <2>3 DEF Linking, Scanning
  <2>5. MqTypeOK' /\ FirstIngestAlone'
    BY <1>0, <2>1, <2>3, <2>4 DEF MqTypeOK, FirstIngestAlone
  <2>6. CarriedIsGenuine' /\ CleanIsGenuine'
    BY <1>0, <2>1, <2>3 DEF CarriedIsGenuine, CleanIsGenuine
  <2>7. QED
    BY <2>1, <2>5, <2>6 DEF MqInv, VerdictStands
<1>3. CASE WritePending(w)
  <2>1. /\ mqOp' = [mqOp EXCEPT ![w] = [at |-> "idle"]] /\ mqOp[w].at = "state"
        /\ mqState' = Pending /\ UNCHANGED <<mqBlob, mqContent>>
    BY <1>3 DEF WritePending, To
  <2>2. [at |-> "idle"] \in MqOps
    BY StepsTyped DEF IngestSteps
  <2>3. /\ mqOp' \in [QWorkers -> MqOps] /\ mqOp'[w].at = "idle"
        /\ \A v \in QWorkers : v # w => mqOp'[v] = mqOp[v]
    BY <1>0, <2>1, <2>2 DEF MqTypeOK
  <2>4. Linking(w) /\ mqState = "none" /\ mqBlob # "absent"
    BY <1>0, <2>1 DEF Linking, FirstIngestAlone
  <2>5. \A v \in QWorkers : ~Linking(v)'
    BY <1>0, <2>3, <2>4 DEF Linking, FirstIngestAlone
  <2>6. MqTypeOK' /\ FirstIngestAlone'
    BY <1>0, <2>1, <2>3, <2>4, <2>5 DEF MqTypeOK, FirstIngestAlone
  <2>7. CarriedIsGenuine' /\ CleanIsGenuine'
    BY <1>0, <2>1, <2>3 DEF CarriedIsGenuine, CleanIsGenuine, Pending
  <2>8. QED
    BY <2>1, <2>4, <2>6, <2>7 DEF MqInv, VerdictStands
<1>4. QED
  BY <1>1, <1>2, <1>3

\* record_scan_state(): only an intact blob gets the verdict.
LEMMA RecordStep ==
  ASSUME MqInv, NEW w \in QWorkers, RecordScanState(w)
  PROVE  MqInv' /\ (VerdictStands /\ CleanIsGenuine')
<1>0. /\ MqTypeOK /\ FirstIngestAlone /\ CarriedIsGenuine /\ CleanIsGenuine
      /\ mqOp[w].at = "record" /\ mqState' = IF Intact THEN mqOp[w].state ELSE mqState
      /\ mqOp' = [mqOp EXCEPT ![w] = [at |-> "idle"]]
      /\ UNCHANGED <<mqBlob, mqKnown, mqContent>>
  BY DEF MqInv, RecordScanState, To
<1>1. [at |-> "idle"] \in MqOps
  BY StepsTyped DEF IngestSteps
<1>2. /\ mqOp' \in [QWorkers -> MqOps] /\ mqOp'[w].at = "idle"
      /\ \A v \in QWorkers : v # w => mqOp'[v] = mqOp[v]
  BY <1>0, <1>1 DEF MqTypeOK
<1>3. Scanning(w) /\ mqOp[w].state \in ScanStates
  BY <1>0, StepsTyped DEF Scanning, MqTypeOK
<1>4. mqBlob # "absent" /\ \A v \in QWorkers : ~Linking(v)
  BY <1>0, <1>3 DEF FirstIngestAlone
<1>5. \A v \in QWorkers : ~Linking(v)'
  BY <1>2, <1>4 DEF Linking
<1>6. MqTypeOK' /\ FirstIngestAlone'
  BY <1>0, <1>2, <1>4, <1>5 DEF MqTypeOK, FirstIngestAlone
<1>7. CarriedIsGenuine'
  BY <1>0, <1>2 DEF CarriedIsGenuine
<1>8. CleanIsGenuine'
  BY <1>0 DEF CleanIsGenuine, CarriedIsGenuine, Intact
<1>9. VerdictStands
  BY <1>0, <1>3 DEF VerdictStands, Pending, ScanStates, ScanExceptions
<1>10. QED
  BY <1>6, <1>7, <1>8, <1>9 DEF MqInv

LEMMA AlterStep ==
  ASSUME MqInv, BlobAltered \/ UNCHANGED mqVars
  PROVE  MqInv' /\ (VerdictStands /\ CleanIsGenuine')
<1>0. /\ MqTypeOK /\ FirstIngestAlone /\ CarriedIsGenuine /\ CleanIsGenuine
      /\ UNCHANGED <<mqState, mqOp, mqKnown, mqContent>>
      /\ mqBlob' = mqBlob \/ (mqBlob = "intact" /\ mqBlob' = "altered")
  BY DEF MqInv, BlobAltered, mqVars
<1>1. \A v \in QWorkers : (Linking(v)' <=> Linking(v)) /\ (Scanning(v)' <=> Scanning(v))
  BY <1>0 DEF Linking, Scanning
<1>2. MqTypeOK' /\ FirstIngestAlone'
  BY <1>0, <1>1 DEF MqTypeOK, FirstIngestAlone
<1>3. CarriedIsGenuine' /\ CleanIsGenuine'
  BY <1>0 DEF CarriedIsGenuine, CleanIsGenuine
<1>4. QED
  BY <1>0, <1>2, <1>3 DEF MqInv, VerdictStands

\* The steps that move a worker and leave the files alone.
LEMMA OtherStep ==
  ASSUME MqInv, NEW w \in QWorkers,
         \/ AcquireMedia(w) \/ ReceiveChunks(w) \/ AnswerDuplicate(w)
         \/ \E scanner \in BOOLEAN : BeginScan(w, scanner)
         \/ VerifyBeforeScan(w) \/ RunScanner(w) \/ VerifyAfterScan(w) \/ QWorkerFails(w)
  PROVE  MqInv' /\ (VerdictStands /\ CleanIsGenuine')
<1>0. MqTypeOK /\ FirstIngestAlone /\ CarriedIsGenuine /\ mqOp[w] \in MqOps
  BY DEF MqInv, MqTypeOK
<1>1. ASSUME NEW step \in {"idle", "receive", "link"}, To(w, step), UNCHANGED <<mqFiles, mqContent>>,
             mqKnown' => mqState # "none" \/ mqKnown
      PROVE  MqInv' /\ (VerdictStands /\ CleanIsGenuine')
  <2>1. PICK o \in MqOps : o = [at |-> step] /\ o.at = step
    BY StepsTyped DEF IngestSteps
  <2>2. mqOp' = [mqOp EXCEPT ![w] = o]
    BY <1>1, <2>1 DEF To
  <2>3. QED
    BY <1>1, <2>1, <2>2, WorkerGoesOn
<1>2. CASE AcquireMedia(w) \/ ReceiveChunks(w) \/ QWorkerFails(w)
  BY <1>1, <1>2 DEF AcquireMedia, ReceiveChunks, QWorkerFails
<1>3. CASE AnswerDuplicate(w)
  BY <1>1, <1>3 DEF AnswerDuplicate, DuplicateComplete
<1>4. ASSUME NEW scanner \in BOOLEAN, BeginScan(w, scanner)
      PROVE  MqInv' /\ (VerdictStands /\ CleanIsGenuine')
  <2>1. PICK o \in MqOps :
          /\ mqOp' = [mqOp EXCEPT ![w] = o] /\ o.at \in {"idle", "scan", "record"}
          /\ o.at = "record" => o.state = "quarantined_scanner_unavailable"
    <3>1. CASE ~Intact
      <4>1. mqOp' = [mqOp EXCEPT ![w] = [at |-> "idle"]]
        BY <1>4, <3>1 DEF BeginScan, QIdle
      <4>2. PICK o \in MqOps : o = [at |-> "idle"] /\ o.at = "idle"
        BY StepsTyped DEF IngestSteps
      <4>3. QED
        BY <4>1, <4>2
    <3>2. CASE Intact /\ scanner
      <4>1. mqOp' = [mqOp EXCEPT ![w] = [at |-> "scan"]]
        BY <1>4, <3>2 DEF BeginScan
      <4>2. PICK o \in MqOps : o = [at |-> "scan"] /\ o.at = "scan"
        BY StepsTyped
      <4>3. QED
        BY <4>1, <4>2
    <3>3. CASE Intact /\ ~scanner
      <4>1. mqOp' = [mqOp EXCEPT ![w] = [at |-> "record", state |-> "quarantined_scanner_unavailable"]]
        BY <1>4, <3>3 DEF BeginScan
      <4>2. "quarantined_scanner_unavailable" \in ScanStates
        BY DEF ScanStates, ScanExceptions
      <4>3. QED
        BY <4>1, <4>2, StepsTyped
    <3>4. QED
      BY <3>1, <3>2, <3>3
  <2>2. mqKnown /\ UNCHANGED <<mqFiles, mqKnown, mqContent>>
    BY <1>4 DEF BeginScan
  <2>3. QED
    BY <2>1, <2>2, WorkerGoesOn
<1>5. CASE VerifyBeforeScan(w)
  <2>1. PICK o \in MqOps : mqOp' = [mqOp EXCEPT ![w] = o] /\ o.at \in {"idle", "scanner"}
    <3>1. PICK step \in {"idle", "scanner"} : mqOp' = [mqOp EXCEPT ![w] = [at |-> step]]
      BY <1>5 DEF VerifyBeforeScan, To
    <3>2. QED
      BY <3>1, StepsTyped DEF IngestSteps
  <2>2. Scanning(w) /\ UNCHANGED <<mqFiles, mqKnown, mqContent>>
    BY <1>5 DEF VerifyBeforeScan, Scanning
  <2>3. QED
    BY <2>1, <2>2, WorkerGoesOn
<1>6. CASE RunScanner(w)
  <2>1. Scanning(w) /\ UNCHANGED <<mqFiles, mqKnown, mqContent>>
    BY <1>6 DEF RunScanner, Scanning
  <2>2. PICK o \in MqOps :
          /\ mqOp' = [mqOp EXCEPT ![w] = o] /\ o.at \in {"reverify", "record"}
          /\ o.state = "scanned_clean_held" /\ mqBlob = "intact" => mqContent = "clean"
    <3>1. CASE \E s \in ScanExceptions : mqOp' = [mqOp EXCEPT ![w] = [at |-> "record", state |-> s]]
      <4>1. PICK s \in ScanExceptions : mqOp' = [mqOp EXCEPT ![w] = [at |-> "record", state |-> s]]
        BY <3>1
      <4>2. s \in ScanStates /\ s # "scanned_clean_held"
        BY DEF ScanStates, ScanExceptions
      <4>3. QED
        BY <4>1, <4>2, StepsTyped
    <3>2. CASE \E v \in IF mqBlob = "intact" THEN {mqContent} ELSE DOMAIN ScanVerdicts :
                 mqOp' = [mqOp EXCEPT ![w] = [at |-> "reverify", state |-> ScanVerdicts[v]]]
      <4>1. PICK v \in DOMAIN ScanVerdicts :
              /\ mqOp' = [mqOp EXCEPT ![w] = [at |-> "reverify", state |-> ScanVerdicts[v]]]
              /\ mqBlob = "intact" => v = mqContent
        BY <1>0, <3>2 DEF MqTypeOK, ScanVerdicts
      <4>2. /\ ScanVerdicts[v] \in ScanStates
            /\ ScanVerdicts[v] = "scanned_clean_held" => v = "clean"
        BY DEF ScanVerdicts, ScanStates, ScanExceptions
      <4>3. QED
        BY <4>1, <4>2, StepsTyped
    <3>3. QED
      BY <1>6, <3>1, <3>2 DEF RunScanner
  <2>3. QED
    BY <2>1, <2>2, WorkerGoesOn
<1>7. CASE VerifyAfterScan(w)
  <2>1. Scanning(w) /\ UNCHANGED <<mqFiles, mqKnown, mqContent>> /\ mqOp[w].at = "reverify"
    BY <1>7 DEF VerifyAfterScan, Scanning
  <2>2. PICK r \in MqOps : r = mqOp[w]
    BY <1>0
  <2>3. r \in [at : {"reverify", "record"}, state : ScanStates]
    BY <2>1, <2>2 DEF MqOps, IngestSteps
  <2>4. mqOp' = [mqOp EXCEPT ![w] = IF Intact THEN [r EXCEPT !.at = "record"] ELSE [at |-> "idle"]]
    BY <1>7, <2>2 DEF VerifyAfterScan, QIdle
  <2>5. PICK o \in MqOps :
          /\ mqOp' = [mqOp EXCEPT ![w] = o] /\ o.at \in {"record", "idle"}
          /\ o.at = "record" => o.state = r.state
    <3>1. CASE Intact
      <4>1. [r EXCEPT !.at = "record"] = [at |-> "record", state |-> r.state]
        BY <2>3
      <4>2. r.state \in ScanStates
        BY <2>3
      <4>3. QED
        BY <2>4, <3>1, <4>1, <4>2, StepsTyped
    <3>2. CASE ~Intact
      BY <2>4, <3>2, StepsTyped DEF IngestSteps
    <3>3. QED
      BY <3>1, <3>2
  <2>6. o.at = "record" /\ o.state = "scanned_clean_held" /\ mqBlob = "intact" => mqContent = "clean"
    BY <1>0, <2>1, <2>2, <2>5 DEF CarriedIsGenuine
  <2>7. QED
    BY <2>1, <2>5, <2>6, WorkerGoesOn
<1>8. QED
  BY <1>2, <1>3, <1>4, <1>5, <1>6, <1>7

LEMMA MqStart == MqInit => MqInv
<1>0. SUFFICES ASSUME MqInit PROVE MqInv
  OBVIOUS
<1>1. QIdle \in MqOps /\ QIdle.at = "idle"
  BY StepsTyped DEF QIdle, IngestSteps
<1>2. /\ MqTypeOK /\ \A w \in QWorkers : mqOp[w].at = "idle"
  BY <1>0, <1>1 DEF MqInit, MqTypeOK
<1>3. FirstIngestAlone /\ CarriedIsGenuine /\ CleanIsGenuine
  BY <1>0, <1>2 DEF MqInit, FirstIngestAlone, Linking, Scanning, CarriedIsGenuine, CleanIsGenuine
<1>4. QED
  BY <1>2, <1>3 DEF MqInv

LEMMA MqStep == MqInv /\ [MqNext]_mqVars => MqInv' /\ (VerdictStands /\ CleanIsGenuine')
<1>0. SUFFICES ASSUME MqInv, [MqNext]_mqVars PROVE MqInv' /\ (VerdictStands /\ CleanIsGenuine')
  OBVIOUS
<1>1. ASSUME NEW w \in QWorkers,
             \/ AcquireMedia(w) \/ ReceiveChunks(w) \/ AnswerDuplicate(w)
             \/ \E scanner \in BOOLEAN : BeginScan(w, scanner)
             \/ VerifyBeforeScan(w) \/ RunScanner(w) \/ VerifyAfterScan(w) \/ QWorkerFails(w)
      PROVE  MqInv' /\ (VerdictStands /\ CleanIsGenuine')
  BY <1>0, <1>1, OtherStep
<1>2. ASSUME NEW w \in QWorkers, LinkBlob(w) \/ WriteMetadata(w) \/ WritePending(w)
      PROVE  MqInv' /\ (VerdictStands /\ CleanIsGenuine')
  BY <1>0, <1>2, LinkStep
<1>3. ASSUME NEW w \in QWorkers, RecordScanState(w)
      PROVE  MqInv' /\ (VerdictStands /\ CleanIsGenuine')
  BY <1>0, <1>3, RecordStep
<1>4. CASE BlobAltered \/ UNCHANGED mqVars
  BY <1>0, <1>4, AlterStep
<1>5. QED
  BY <1>0, <1>1, <1>2, <1>3, <1>4 DEF MqNext

\* A scan state is true of the stored bytes and no ingest takes it back, for any number of
\* workers that acquire, scan, alter and crash (quarantine_storage.py, media_quarantine.py).
THEOREM QuarantineStays == MqSpec => QuarantineHolds
<1>1. MqInv /\ [MqNext]_mqVars => [VerdictStands /\ CleanIsGenuine']_mqVars
  BY MqStep
<1>2. QED
  BY <1>1, MqStart, MqStep, PTL DEF MqSpec, QuarantineHolds

----------------------------------------------------------------------------
\* RepositoryController: branch commits of the control plane.

\* Where a process of create_branch_commit() may stand.
RepoSteps == {"record", "branch", "build", "ref", "save", "audit"}
RepoOps == [at : RepoSteps, q : RepoRequests]

RcTypeOK ==
  /\ rcBranch \in [AgentBranches -> RepoRequests \cup {NoCommitYet}]
  /\ rcRecord \in [RequestIds -> RepoRequests \cup {NoCommitYet}]
  /\ rcOp \in [RepoProcs -> {RcIdle} \cup RepoOps]

\* A process that has created its branch still finds its commit there, because a
\* branch is created once: it is about to record and to report the truth.
CreatedIsThere ==
  \A p \in RepoProcs : rcOp[p].at \in {"save", "audit"} =>
    rcBranch[rcOp[p].q.branch] = rcOp[p].q

RcInv == RcTypeOK /\ CreatedIsThere /\ CommittedIsThere
----------------------------------------------------------------------------
\* What the type invariant says of a process at work, and of its request.
LEMMA RepoTyped ==
  ASSUME RcInv, NEW p \in RepoProcs, rcOp[p].at # "idle"
  PROVE  /\ rcOp[p] \in RepoOps /\ rcOp[p].q \in RepoRequests
         /\ rcOp[p].q.branch \in AgentBranches /\ rcOp[p].q.request_id \in RequestIds
         /\ rcOp[p].q # NoCommitYet
<1>1. rcOp[p] \in RepoOps
  BY DEF RcInv, RcTypeOK, RcIdle
<1>2. QED
  BY <1>1, RepoAssumption DEF RepoOps, AgentBranches, RequestIds

\* Goto() and Leave() write the process's own entry.
LEMMA RepoMoves ==
  ASSUME RcInv, NEW p \in RepoProcs, rcOp[p].at # "idle",
         Leave(p) \/ \E step \in RepoSteps : Goto(p, step)
  PROVE  /\ rcOp' \in [RepoProcs -> {RcIdle} \cup RepoOps]
         /\ \A o \in RepoProcs : o # p => rcOp'[o] = rcOp[o]
         /\ rcOp'[p].at # "idle" => rcOp'[p].q = rcOp[p].q
         /\ Leave(p) => rcOp'[p].at = "idle"
         /\ \A step \in RepoSteps : Goto(p, step) => rcOp'[p].at = step
<1>1. PICK w \in RepoOps : w = rcOp[p]
  BY RepoTyped
<1>2. RcTypeOK
  BY DEF RcInv
<1>3. CASE Leave(p)
  <2>1. rcOp' = [rcOp EXCEPT ![p] = RcIdle] /\ RcIdle.at = "idle"
    BY <1>3 DEF Leave, RcIdle
  <2>2. /\ rcOp' \in [RepoProcs -> {RcIdle} \cup RepoOps] /\ rcOp'[p].at = "idle"
        /\ \A o \in RepoProcs : o # p => rcOp'[o] = rcOp[o]
    BY <1>2, <2>1 DEF RcTypeOK
  <2>3. \A step \in RepoSteps : ~Goto(p, step)
    <3>1. ASSUME NEW step \in RepoSteps, Goto(p, step) PROVE FALSE
      <4>1. rcOp' = [rcOp EXCEPT ![p] = [w EXCEPT !.at = step]]
        BY <1>1, <3>1 DEF Goto
      <4>2. rcOp'[p].at = step
        BY <1>2, <4>1 DEF RcTypeOK, RepoOps
      <4>3. QED
        BY <2>2, <4>2 DEF RepoSteps
    <3>2. QED
      BY <3>1
  <2>4. QED
    BY <2>2, <2>3
<1>4. ASSUME NEW step \in RepoSteps, Goto(p, step)
      PROVE  /\ rcOp' \in [RepoProcs -> {RcIdle} \cup RepoOps]
             /\ \A o \in RepoProcs : o # p => rcOp'[o] = rcOp[o]
             /\ rcOp'[p].at = step /\ rcOp'[p].q = rcOp[p].q
  <2>1. rcOp' = [rcOp EXCEPT ![p] = [w EXCEPT !.at = step]]
    BY <1>1, <1>4 DEF Goto
  <2>2. [w EXCEPT !.at = step] \in RepoOps /\ [w EXCEPT !.at = step].at = step
        /\ [w EXCEPT !.at = step].q = w.q
    BY DEF RepoOps
  <2>3. QED
    BY <1>1, <1>2, <2>1, <2>2 DEF RcTypeOK
<1>5. QED
  <2>1. CASE ~Leave(p)
    BY <1>4, <2>1
  <2>2. QED
    BY <1>3, <2>1

\* Every step keeps the invariant: one step per action of a process.
LEMMA RepoStep ==
  ASSUME RcInv, NEW p \in RepoProcs,
         \/ \E q \in RepoRequests : RunBranchWrite(p, q)
         \/ IdempotentResult(p) \/ CheckBranch(p) \/ BuildCommit(p) \/ UpdateRef(p)
         \/ SaveResult(p) \/ AuditCommitted(p) \/ ControllerKilled(p)
  PROVE  RcInv'
<1>0. RcTypeOK /\ CreatedIsThere /\ CommittedIsThere
  BY DEF RcInv
<1>1. ASSUME NEW q \in RepoRequests, RunBranchWrite(p, q)
      PROVE  RcInv'
  <2> DEFINE w == [at |-> "record", q |-> q]
  <2>1. w \in RepoOps /\ w.at = "record"
    BY DEF RepoOps, RepoSteps
  <2>2. rcOp' = [rcOp EXCEPT ![p] = w] /\ UNCHANGED <<rcBranch, rcRecord, rcAudit, rcAnswered>>
    BY <1>1 DEF RunBranchWrite
  <2> HIDE DEF w
  <2>3. /\ rcOp' \in [RepoProcs -> {RcIdle} \cup RepoOps] /\ rcOp'[p].at = "record"
        /\ \A o \in RepoProcs : o # p => rcOp'[o] = rcOp[o]
    BY <1>0, <2>1, <2>2 DEF RcTypeOK
  <2>4. QED
    BY <1>0, <2>2, <2>3 DEF RcInv, RcTypeOK, CreatedIsThere, CommittedIsThere
<1>2. ASSUME rcOp[p].at # "idle", UNCHANGED <<rcBranch, rcRecord>>,
             Leave(p) \/ \E step \in RepoSteps \ {"save", "audit"} : Goto(p, step),
             \A q \in RepoRequests :
               <<"repository.branch.committed", q>> \in rcAudit' \/ q \in rcAnswered' =>
                 rcBranch[q.branch] = q
      PROVE  RcInv'
  <2>1. /\ rcOp' \in [RepoProcs -> {RcIdle} \cup RepoOps]
        /\ \A o \in RepoProcs : o # p => rcOp'[o] = rcOp[o]
        /\ rcOp'[p].at \notin {"save", "audit"}
    BY <1>2, RepoMoves
  <2>2. QED
    BY <1>0, <1>2, <2>1 DEF RcInv, RcTypeOK, CreatedIsThere, CommittedIsThere
<1>3. ASSUME rcOp[p].at # "idle", Leave(p), AuditFailed(p), UNCHANGED <<rcBranch, rcRecord, rcAnswered>>
      PROVE  RcInv'
  BY <1>0, <1>2, <1>3 DEF AuditFailed, CommittedIsThere
<1>4. ASSUME IdempotentResult(p)
      PROVE  RcInv'
  <2>1. /\ rcOp[p].at # "idle" /\ UNCHANGED <<rcBranch, rcRecord, rcAudit>>
        /\ Leave(p) \/ Goto(p, "branch")
        /\ \A q \in rcAnswered' : q \in rcAnswered \/
             (rcRecord[q.request_id] = q /\ q = rcOp[p].q)
    BY <1>4 DEF IdempotentResult
  <2>2. \A q \in RepoRequests : rcRecord[q.request_id] = q => rcBranch[q.branch] = q
    BY <1>0, RepoAssumption DEF CommittedIsThere, RequestIds
  <2>3. QED
    BY <1>0, <1>2, <2>1, <2>2 DEF CommittedIsThere, RepoSteps
<1>5. ASSUME CheckBranch(p) \/ ControllerKilled(p) \/ (BuildCommit(p) /\ UNCHANGED rcAudit)
      PROVE  RcInv'
  <2>1. rcOp[p].at # "idle"
    BY <1>0, <1>5 DEF CheckBranch, ControllerKilled, BuildCommit, RcTypeOK, RepoOps, RepoSteps
  <2>2. /\ UNCHANGED <<rcBranch, rcRecord, rcAudit, rcAnswered>>
        /\ Leave(p) \/ Goto(p, "build") \/ Goto(p, "ref")
    BY <1>5 DEF CheckBranch, ControllerKilled, BuildCommit
  <2>3. QED
    BY <1>0, <1>2, <2>1, <2>2 DEF CommittedIsThere, RepoSteps
<1>6. ASSUME BuildCommit(p), rcAudit' # rcAudit
      PROVE  RcInv'
  BY <1>3, <1>6 DEF BuildCommit
<1>7. ASSUME UpdateRef(p)
      PROVE  RcInv'
  <2>0. rcOp[p].at = "ref" /\ UNCHANGED <<rcRecord, rcAnswered>>
    BY <1>7 DEF UpdateRef
  <2>1. PICK q \in RepoRequests : q = rcOp[p].q /\ q.branch \in AgentBranches
    BY <2>0, RepoTyped
  <2>2. CASE ~MayCreate(q.branch)
    BY <1>3, <1>7, <2>0, <2>1, <2>2 DEF UpdateRef
  <2>3. CASE MayCreate(q.branch)
    <3>1. /\ rcBranch' = [rcBranch EXCEPT ![q.branch] = q] /\ Goto(p, "save") /\ UNCHANGED rcAudit
          /\ rcBranch[q.branch] = NoCommitYet
      BY <1>7, <2>1, <2>3 DEF UpdateRef, MayCreate
    <3>2. /\ rcOp' \in [RepoProcs -> {RcIdle} \cup RepoOps]
          /\ \A o \in RepoProcs : o # p => rcOp'[o] = rcOp[o]
          /\ rcOp'[p].at = "save" /\ rcOp'[p].q = q
      BY <2>0, <2>1, <3>1, RepoMoves DEF RepoSteps
    <3>3. /\ rcBranch' \in [AgentBranches -> RepoRequests \cup {NoCommitYet}]
          /\ rcBranch'[q.branch] = q
          /\ \A b \in AgentBranches : b # q.branch => rcBranch'[b] = rcBranch[b]
      BY <1>0, <2>1, <3>1 DEF RcTypeOK
    <3>4. \A r \in RepoRequests : rcBranch[r.branch] = r => rcBranch'[r.branch] = r
      BY <3>1, <3>3, RepoAssumption DEF AgentBranches
    <3>5. RcTypeOK'
      BY <1>0, <2>0, <3>2, <3>3 DEF RcTypeOK
    <3>6. CreatedIsThere'
      <4>1. ASSUME NEW o \in RepoProcs, rcOp'[o].at \in {"save", "audit"}
            PROVE  rcBranch'[rcOp'[o].q.branch] = rcOp'[o].q
        <5>1. CASE o = p
          BY <3>2, <3>3, <5>1
        <5>2. CASE o # p
          BY <1>0, <3>2, <3>4, <4>1, <5>2, RepoTyped DEF CreatedIsThere
        <5>3. QED
          BY <5>1, <5>2
      <4>2. QED
        BY <4>1 DEF CreatedIsThere
    <3>7. CommittedIsThere'
      BY <1>0, <2>0, <3>1, <3>4 DEF CommittedIsThere, RcTypeOK
    <3>8. QED
      BY <3>5, <3>6, <3>7 DEF RcInv
  <2>4. QED
    BY <2>2, <2>3
<1>8. ASSUME SaveResult(p)
      PROVE  RcInv'
  <2>0. rcOp[p].at = "save" /\ UNCHANGED <<rcBranch, rcAnswered>>
    BY <1>8 DEF SaveResult
  <2>1. PICK q \in RepoRequests :
          /\ q = rcOp[p].q /\ q.request_id \in RequestIds
          /\ rcBranch[q.branch] = q
    BY <1>0, <2>0, RepoTyped DEF CreatedIsThere
  <2>2. CASE Leave(p) /\ AuditFailed(p) /\ UNCHANGED rcRecord
    BY <1>3, <2>0, <2>2
  <2>3. CASE rcRecord' = [rcRecord EXCEPT ![q.request_id] = q] /\ Goto(p, "audit") /\ UNCHANGED rcAudit
    <3>1. /\ rcOp' \in [RepoProcs -> {RcIdle} \cup RepoOps]
          /\ \A o \in RepoProcs : o # p => rcOp'[o] = rcOp[o]
          /\ rcOp'[p].at = "audit" /\ rcOp'[p].q = q
      BY <2>0, <2>1, <2>3, RepoMoves DEF RepoSteps
    <3>2. /\ rcRecord' \in [RequestIds -> RepoRequests \cup {NoCommitYet}]
          /\ rcRecord'[q.request_id] = q
          /\ \A i \in RequestIds : i # q.request_id => rcRecord'[i] = rcRecord[i]
      BY <1>0, <2>1, <2>3 DEF RcTypeOK
    <3>3. RcTypeOK'
      BY <1>0, <2>0, <3>1, <3>2 DEF RcTypeOK
    <3>4. CreatedIsThere'
      BY <1>0, <2>0, <2>1, <3>1 DEF CreatedIsThere
    <3>5. CommittedIsThere'
      BY <1>0, <2>0, <2>1, <2>3, <3>2 DEF CommittedIsThere
    <3>6. QED
      BY <3>3, <3>4, <3>5 DEF RcInv
  <2>4. QED
    BY <1>8, <2>1, <2>2, <2>3 DEF SaveResult
<1>9. ASSUME AuditCommitted(p)
      PROVE  RcInv'
  <2>1. /\ rcOp[p].at = "audit" /\ UNCHANGED <<rcBranch, rcRecord>> /\ Leave(p)
        /\ rcAudit' = rcAudit \cup {<<"repository.branch.committed", rcOp[p].q>>}
        /\ rcAnswered' = rcAnswered \cup {rcOp[p].q}
    BY <1>9 DEF AuditCommitted
  <2>2. rcBranch[rcOp[p].q.branch] = rcOp[p].q
    BY <1>0, <2>1 DEF CreatedIsThere
  <2>3. QED
    BY <1>0, <1>2, <2>1, <2>2 DEF CommittedIsThere
<1>10. QED
  BY <1>1, <1>4, <1>5, <1>6, <1>7, <1>8, <1>9

\* Whatever processes share a request id or a branch, and wherever the time limit kills
\* them: a record, a "committed" audit line and an answer name a branch that holds
\* exactly the commit of that request.
THEOREM CommittedStaysThere == RcSpec => []CommittedIsThere
<1>1. RcInit => RcInv
  <2> SUFFICES ASSUME RcInit PROVE RcInv
    OBVIOUS
  <2>1. RcTypeOK /\ \A p \in RepoProcs : rcOp[p].at = "idle"
    BY DEF RcInit, RcTypeOK, RcIdle
  <2>2. CommittedIsThere
    BY DEF RcInit, CommittedIsThere
  <2>3. QED
    BY <2>1, <2>2 DEF RcInv, CreatedIsThere
<1>2. RcInv /\ [RcNext]_rcVars => RcInv'
  <2> SUFFICES ASSUME RcInv, [RcNext]_rcVars PROVE RcInv'
    OBVIOUS
  <2>1. CASE UNCHANGED rcVars
    BY <2>1 DEF rcVars, RcInv, RcTypeOK, CreatedIsThere, CommittedIsThere
  <2>2. QED
    BY <2>1, RepoStep DEF RcNext
<1>3. QED
  BY <1>1, <1>2, PTL DEF RcSpec, RcInv

----------------------------------------------------------------------------
\* ConnectorSessions: the connector's sessions and their children.

\* Where a thread of the connector gateway may stand.
SendStates == [at : {"send"}, s : Children, id : CgIds \cup {NoId}]
WaitStates == [at : {"wait"}, s : Children, id : CgIds, no : Nat \ {0}]
CreateStates == [at : {"create"}, first : CgIds]
DropStates == [at : {"drop"}, todo : SUBSET Children, then : {CgIdle} \cup CreateStates]
TimedOut == [at : {"drop"}, todo : SUBSET Children, then : {CgIdle}, s : Children, id : CgIds]
CloseStates == [at : {"close"}, close : Children, rest : DropStates \cup TimedOut]
CgStates == {CgIdle} \cup SendStates \cup WaitStates \cup CreateStates \cup DropStates
              \cup TimedOut \cup CloseStates

CgTypeOK ==
  /\ cgPool \subseteq Children
  /\ cgProc \in [Children -> {"none", "running", "dead"}]
  /\ cgInbox \in [Children -> SUBSET (CgIds \X (Nat \ {0}))]
  /\ cgResponses \in [Children -> [CgIds -> Nat]]
  /\ cgThread \in [CgThreads -> CgStates]
  /\ cgMessages \in Nat

\* A thread in state w uses the id in session s, or is still dropping that session
\* after it gave up.
Uses(w, s, id) ==
  \/ w \in SendStates \cup WaitStates \cup TimedOut /\ w.s = s /\ w.id = id
  \/ w \in CloseStates /\ w.rest \in TimedOut /\ w.rest.s = s /\ w.rest.id = id

\* No message with the id is with the child or answered; or only message no is.
Quiet(s, id) == cgResponses[s][id] = 0 /\ \A m \in cgInbox[s] : m[1] # id
Only(s, id, no) == cgResponses[s][id] \in {0, no} /\ \A m \in cgInbox[s] : m[1] = id => m[2] = no

\* Children are numbered as they are started; one that was not started is unused.
ChildrenNumbered ==
  /\ \E k \in 0..MaxChildren : {s \in Children : cgProc[s] # "none"} = 1..k
  /\ \A s \in Children : cgProc[s] = "none" =>
       /\ s \notin cgPool /\ \A id \in CgIds : Quiet(s, id)
       /\ \A t \in CgThreads, id \in CgIds \cup {NoId} : ~Uses(cgThread[t], s, id)

\* An id of a session is used by one thread at a time, and at most one message
\* with it is on its way.
UsesDiffer ==
  /\ \A t, u \in CgThreads, s \in Children, id \in CgIds \cup {NoId} :
       Uses(cgThread[t], s, id) /\ Uses(cgThread[u], s, id) => t = u
  /\ \A s \in Children : \A m, n \in cgInbox[s] : m[1] = n[1] => m = n
  /\ \A s \in Children : \A m \in cgInbox[s] : cgResponses[s][m[1]] = 0

\* In the state w of a thread: what is on its way for an id is the thread's own, and a
\* session whose caller gave up leaves the pool before the id may be used again.
StateIsSound(w) ==
  /\ w \in SendStates /\ w.id \in CgIds => Quiet(w.s, w.id)
  /\ w \in WaitStates => Only(w.s, w.id, w.no)
  /\ w \in TimedOut => w.todo \subseteq {w.s} /\ (w.s \in w.todo \/ w.s \notin cgPool)
  /\ w \in CloseStates /\ w.rest \in TimedOut => w.rest.todo = {} /\ w.rest.s \notin cgPool
  /\ w \in CloseStates => cgProc[w.close] # "none"

ThreadsAreSound ==
  /\ \A t \in CgThreads : StateIsSound(cgThread[t])
  /\ \A s \in cgPool, id \in CgIds :
       (\A t \in CgThreads : ~Uses(cgThread[t], s, id)) => Quiet(s, id)

CgInv ==
  /\ CgTypeOK /\ ChildrenNumbered /\ UsesDiffer /\ ThreadsAreSound
  /\ AnswersMatch /\ ChildrenAccounted
----------------------------------------------------------------------------
\* The states of a thread are told apart by their steps and fields.
LEMMA StatesDiffer ==
  ASSUME NEW w \in CgStates
  PROVE  /\ w.at = "idle" => w = CgIdle
         /\ w.at = "send" => w \in SendStates
         /\ w.at = "wait" => w \in WaitStates
         /\ w.at = "create" => w \in CreateStates
         /\ w.at = "drop" => w \in DropStates \cup TimedOut
         /\ w.at = "close" => w \in CloseStates
         /\ w \in SendStates => w.at = "send"
         /\ w \in WaitStates => w.at = "wait"
         /\ w \in DropStates => w.at = "drop" /\ w \notin TimedOut
         /\ w \in TimedOut => w.at = "drop" /\ w \notin DropStates
         /\ w \in CloseStates => w.at = "close"
         /\ w \in CreateStates => w.at = "create"
         /\ w = CgIdle => w.at = "idle"
         /\ w \in SendStates \cup WaitStates \cup TimedOut => "id" \in DOMAIN w
<1>1. w = CgIdle => w.at = "idle"
  BY DEF CgIdle
<1>2. w \in SendStates => w.at = "send" /\ "id" \in DOMAIN w
  BY DEF SendStates
<1>3. w \in WaitStates => w.at = "wait" /\ "id" \in DOMAIN w
  BY DEF WaitStates
<1>4. w \in CreateStates => w.at = "create"
  BY DEF CreateStates
<1>5. w \in DropStates => w.at = "drop" /\ w \notin TimedOut
  BY DEF DropStates, TimedOut
<1>6. w \in TimedOut => w.at = "drop" /\ "id" \in DOMAIN w
  BY DEF TimedOut
<1>7. w \in CloseStates => w.at = "close"
  BY DEF CloseStates
<1>8. QED
  BY <1>1, <1>2, <1>3, <1>4, <1>5, <1>6, <1>7 DEF CgStates

\* A step of one thread that starts no message and no child keeps the invariant if the
\* thread uses nothing new, and what it no longer uses is quiet or out of the pool.
LEMMA ThreadGoesOn ==
  ASSUME CgInv, NEW t \in CgThreads, NEW w \in CgStates,
         cgThread' = [cgThread EXCEPT ![t] = w],
         UNCHANGED <<cgInbox, cgResponses, cgDelivered>>, cgMessages' \in Nat,
         cgPool' \subseteq cgPool,
         \A s \in cgPool : s \notin cgPool' => w.at = "close" /\ w.close = s,
         cgProc' \in [Children -> {"none", "running", "dead"}],
         \A s \in Children : /\ cgProc'[s] = "none" <=> cgProc[s] = "none"
                             /\ cgProc'[s] = "running" => cgProc[s] = "running",
         cgThread[t].at = "close" => cgProc'[cgThread[t].close] = "dead",
         \A s \in Children, id \in CgIds \cup {NoId} :
           Uses(w, s, id) => Uses(cgThread[t], s, id),
         \A s \in cgPool', id \in CgIds :
           Uses(cgThread[t], s, id) => Uses(w, s, id) \/ Quiet(s, id),
         StateIsSound(w)'
  PROVE  CgInv'
<1>0. /\ CgTypeOK /\ ChildrenNumbered /\ UsesDiffer /\ ThreadsAreSound
      /\ AnswersMatch /\ ChildrenAccounted
  BY DEF CgInv
<1>1. cgThread'[t] = w /\ \A u \in CgThreads : u # t => cgThread'[u] = cgThread[u]
  BY <1>0 DEF CgTypeOK
<1>2. CgTypeOK'
  BY <1>0 DEF CgTypeOK
<1>3. \A s, id, no : (Quiet(s, id)' <=> Quiet(s, id)) /\ (Only(s, id, no)' <=> Only(s, id, no))
  BY DEF Quiet, Only
<1>4. ChildrenNumbered'
  <2>1. {s \in Children : cgProc'[s] # "none"} = {s \in Children : cgProc[s] # "none"}
    OBVIOUS
  <2>2. ASSUME NEW s \in Children, cgProc'[s] = "none"
        PROVE  /\ s \notin cgPool' /\ \A id \in CgIds : Quiet(s, id)
               /\ \A u \in CgThreads, id \in CgIds \cup {NoId} : ~Uses(cgThread'[u], s, id)
    BY <1>0, <1>1, <2>2 DEF ChildrenNumbered
  <2>3. \A s \in Children : cgProc'[s] = "none" =>
          /\ s \notin cgPool' /\ \A id \in CgIds : Quiet(s, id)'
          /\ \A u \in CgThreads, id \in CgIds \cup {NoId} : ~Uses(cgThread'[u], s, id)
    BY <1>3, <2>2
  <2>4. QED
    BY <1>0, <2>1, <2>3 DEF ChildrenNumbered
<1>5. UsesDiffer'
  <2>1. \A u \in CgThreads, s \in Children, id \in CgIds \cup {NoId} :
          Uses(cgThread'[u], s, id) => Uses(cgThread[u], s, id)
    BY <1>1
  <2>2. QED
    BY <1>0, <2>1 DEF UsesDiffer
<1>6. ThreadsAreSound'
  <2>1. ASSUME NEW u \in CgThreads
        PROVE  StateIsSound(cgThread[u])'
    <3>1. CASE u = t
      BY <1>1, <3>1
    <3>2. CASE u # t
      <4>1. cgThread'[u] = cgThread[u] /\ StateIsSound(cgThread[u])
        BY <1>0, <1>1, <3>2 DEF ThreadsAreSound
      <4>2. cgThread[u] \in CloseStates => cgThread[u].close \in Children
        BY DEF CloseStates
      <4>3. QED
        BY <1>3, <4>1, <4>2 DEF StateIsSound
    <3>3. QED
      BY <3>1, <3>2
  <2>2. ASSUME NEW s \in cgPool', NEW id \in CgIds, \A u \in CgThreads : ~Uses(cgThread'[u], s, id)
        PROVE  Quiet(s, id)
    BY <1>0, <1>1, <2>2 DEF ThreadsAreSound
  <2>3. QED
    BY <1>3, <2>1, <2>2 DEF ThreadsAreSound
<1>7. AnswersMatch'
  BY <1>0 DEF AnswersMatch
<1>8. ChildrenAccounted'
  <2>1. Cardinality(cgPool') <= MaxPool
    <3>1. IsFiniteSet(Children) /\ MaxChildren \in Nat
      BY CgAssumption, FS_Interval DEF Children
    <3>2. IsFiniteSet(cgPool)
      BY <1>0, <3>1, FS_Subset DEF CgTypeOK
    <3>3. /\ IsFiniteSet(cgPool') /\ Cardinality(cgPool') <= Cardinality(cgPool)
          /\ Cardinality(cgPool') \in Nat /\ Cardinality(cgPool) \in Nat
      BY <3>2, FS_Subset, FS_CardinalityType
    <3>4. QED
      BY <1>0, <3>3, CgAssumption DEF ChildrenAccounted
  <2>2. ASSUME NEW s \in Children, cgProc'[s] = "running", s \notin cgPool'
        PROVE  \E u \in CgThreads : cgThread'[u].at = "close" /\ cgThread'[u].close = s
    <3>1. CASE s \in cgPool
      BY <1>1, <2>2, <3>1
    <3>2. CASE s \notin cgPool
      <4>1. PICK u \in CgThreads : cgThread[u].at = "close" /\ cgThread[u].close = s
        BY <1>0, <2>2, <3>2 DEF ChildrenAccounted
      <4>2. QED
        BY <1>1, <2>2, <4>1
    <3>3. QED
      BY <3>1, <3>2
  <2>3. QED
    BY <2>1, <2>2 DEF ChildrenAccounted
<1>9. QED
  BY <1>2, <1>4, <1>5, <1>6, <1>7, <1>8 DEF CgInv

\* Threads that are idle, creating, or dropping sessions for another reason use no id.
LEMMA UsesNothing ==
  ASSUME NEW w \in {CgIdle} \cup CreateStates \cup DropStates
  PROVE  /\ w \in CgStates /\ w.at \in {"idle", "create", "drop"}
         /\ \A s, id : ~Uses(w, s, id)
         /\ StateIsSound(w) /\ StateIsSound(w)'
<1>1. w \in CgStates
  BY DEF CgStates
<1>2. w.at \in {"idle", "create", "drop"} /\ w \notin TimedOut
  BY <1>1, StatesDiffer
<1>3. w \notin SendStates /\ w \notin WaitStates /\ w \notin CloseStates
  BY <1>1, <1>2, StatesDiffer
<1>4. QED
  BY <1>1, <1>2, <1>3 DEF Uses, StateIsSound

\* A step that only moves a thread to a state that uses no id, from one whose uses
\* are quiet or whose session has left the pool.
LEMMA ThreadLetsGo ==
  ASSUME CgInv, NEW t \in CgThreads, NEW w \in {CgIdle} \cup CreateStates \cup DropStates,
         cgThread' = [cgThread EXCEPT ![t] = w], cgThread[t].at # "close",
         UNCHANGED <<cgPool, cgProc, cgInbox, cgResponses, cgDelivered>>, cgMessages' \in Nat,
         \A s \in cgPool, id \in CgIds : Uses(cgThread[t], s, id) => Quiet(s, id)
  PROVE  CgInv'
<1>1. /\ w \in CgStates /\ \A s, id : ~Uses(w, s, id)
      /\ StateIsSound(w)'
  BY UsesNothing
<1>2. cgProc' \in [Children -> {"none", "running", "dead"}]
  BY DEF CgInv, CgTypeOK
<1>3. QED
  BY <1>1, <1>2, ThreadGoesOn

\* reap(), DELETE, and get() of a session whose child is dead.
LEMMA ListStep ==
  ASSUME CgInv, NEW t \in CgThreads,
         \/ \E then \in {CgIdle} \cup CreateStates : ReapList(t, then)
         \/ \E s \in cgPool : DeleteSession(t, s)
         \/ \E s \in Children, id \in CgIds \cup {NoId} : BeginMessage(t, s, id) /\ cgProc[s] = "dead"
  PROVE  CgInv'
<1>0. CgTypeOK
  BY DEF CgInv
<1>1. PICK todo \in SUBSET Children, then \in {CgIdle} \cup CreateStates :
        /\ CgSet(t, Dropping(todo, then)) /\ cgThread[t] = CgIdle
        /\ UNCHANGED <<cgPool, cgProc, cgInbox, cgResponses, cgMessages, cgDelivered>>
  <2>1. ASSUME NEW then \in {CgIdle} \cup CreateStates, ReapList(t, then)
        PROVE  /\ \E todo \in SUBSET Children : CgSet(t, Dropping(todo, then))
               /\ cgThread[t] = CgIdle
               /\ UNCHANGED <<cgPool, cgProc, cgInbox, cgResponses, cgMessages, cgDelivered>>
    <3>1. PICK idle \in SUBSET {s \in cgPool : ~Waiting(s)} :
            CgSet(t, Dropping(idle \cup {s \in cgPool : cgProc[s] = "dead"}, then))
      BY <2>1 DEF ReapList
    <3>2. idle \cup {s \in cgPool : cgProc[s] = "dead"} \in SUBSET Children
      BY <1>0 DEF CgTypeOK
    <3>3. QED
      BY <2>1, <3>1, <3>2 DEF ReapList, cgChildren
  <2>2. ASSUME NEW s \in cgPool, DeleteSession(t, s)
        PROVE  /\ CgSet(t, Dropping({s}, CgIdle)) /\ {s} \in SUBSET Children
               /\ cgThread[t] = CgIdle
               /\ UNCHANGED <<cgPool, cgProc, cgInbox, cgResponses, cgMessages, cgDelivered>>
    BY <1>0, <2>2 DEF DeleteSession, cgChildren, CgTypeOK
  <2>3. ASSUME NEW s \in Children, NEW id \in CgIds \cup {NoId}, BeginMessage(t, s, id),
               cgProc[s] = "dead"
        PROVE  /\ CgSet(t, Dropping({s}, CgIdle)) /\ {s} \in SUBSET Children
               /\ cgThread[t] = CgIdle
               /\ UNCHANGED <<cgPool, cgProc, cgInbox, cgResponses, cgMessages, cgDelivered>>
    BY <2>3 DEF BeginMessage, cgChildren
  <2>4. QED
    BY <2>1, <2>2, <2>3
<1> DEFINE w == Dropping(todo, then)
<1>2. w \in DropStates
  BY DEF DropStates, Dropping
<1>3. cgThread' = [cgThread EXCEPT ![t] = w]
  BY <1>1 DEF CgSet
<1> HIDE DEF w
<1>4. cgThread[t].at = "idle" /\ \A s, id : ~Uses(cgThread[t], s, id)
  BY <1>1, UsesNothing DEF CgIdle
<1>5. cgMessages' \in Nat
  BY <1>0, <1>1 DEF CgTypeOK
<1>6. QED
  BY <1>1, <1>2, <1>3, <1>4, <1>5, ThreadLetsGo

\* drop(): the session leaves the pool, and the thread that took it out closes it.
LEMMA DropStep ==
  ASSUME CgInv, NEW t \in CgThreads, DropSession(t)
  PROVE  CgInv'
<1>0. /\ CgTypeOK /\ ThreadsAreSound /\ cgThread[t].at = "drop"
      /\ UNCHANGED <<cgProc, cgInbox, cgResponses, cgMessages, cgDelivered>>
  BY DEF CgInv, DropSession, cgChildren
<1>1. PICK d \in DropStates \cup TimedOut : d = cgThread[t] /\ d \in CgStates
  BY <1>0, StatesDiffer DEF CgTypeOK
<1>2. /\ d.at = "drop" /\ d.then \in {CgIdle} \cup CreateStates /\ d.todo \subseteq Children
      /\ d \notin SendStates /\ d \notin WaitStates /\ d \notin CloseStates
  BY <1>1, StatesDiffer DEF DropStates, TimedOut
<1>3. StateIsSound(d)
  BY <1>0, <1>1 DEF ThreadsAreSound
<1>4. cgProc' \in [Children -> {"none", "running", "dead"}] /\ cgMessages' \in Nat
  BY <1>0 DEF CgTypeOK
<1>5. CASE d.todo = {}
  <2>1. cgThread' = [cgThread EXCEPT ![t] = d.then] /\ UNCHANGED cgPool
    BY <1>1, <1>5 DEF DropSession, CgSet
  <2>2. \A s \in cgPool, id \in CgIds : ~Uses(cgThread[t], s, id)
    BY <1>1, <1>2, <1>3, <1>5 DEF Uses, StateIsSound
  <2>3. QED
    BY <1>0, <1>1, <1>2, <1>4, <2>1, <2>2, ThreadLetsGo
<1>6. CASE d.todo # {}
  <2> DEFINE rest(s) == [d EXCEPT !.todo = d.todo \ {s}]
  <2>1. PICK s \in d.todo :
          /\ cgPool' = cgPool \ {s}
          /\ cgThread' = [cgThread EXCEPT ![t] =
               IF s \in cgPool THEN [at |-> "close", close |-> s, rest |-> rest(s)] ELSE rest(s)]
    BY <1>1, <1>6 DEF DropSession, CgSet
  <2>2. PICK r \in DropStates \cup TimedOut :
          /\ r = rest(s) /\ r.at = "drop" /\ r.todo = d.todo \ {s}
          /\ r \in TimedOut <=> d \in TimedOut
          /\ r \in TimedOut => r.s = d.s /\ r.id = d.id
    <3>1. CASE d \in DropStates
      <4>1. rest(s) \in DropStates /\ rest(s).at = "drop" /\ rest(s).todo = d.todo \ {s}
        BY <3>1 DEF DropStates
      <4>2. rest(s) \notin TimedOut /\ d \notin TimedOut
        BY <3>1, <4>1, StatesDiffer DEF CgStates
      <4>3. QED
        BY <4>1, <4>2
    <3>2. CASE d \in TimedOut
      <4>1. /\ rest(s) \in TimedOut /\ rest(s).at = "drop" /\ rest(s).todo = d.todo \ {s}
            /\ rest(s).s = d.s /\ rest(s).id = d.id
        BY <3>2 DEF TimedOut
      <4>2. QED
        BY <3>2, <4>1
    <3>3. QED
      BY <3>1, <3>2
  <2> HIDE DEF rest
  <2>3. r \in CgStates /\ r \notin SendStates /\ r \notin WaitStates /\ r \notin CloseStates
    BY <2>2, StatesDiffer DEF CgStates
  <2>4. r \in TimedOut => r.todo = {} /\ r.s \notin cgPool'
    <3>1. r \in TimedOut => d.todo \subseteq {d.s}
      BY <1>3, <2>2 DEF StateIsSound
    <3>2. QED
      BY <2>1, <2>2, <3>1
  <2>5. CASE s \in cgPool
    <3> DEFINE w == [at |-> "close", close |-> s, rest |-> r]
    <3>1. w \in CloseStates
      BY <1>2, <2>1 DEF CloseStates
    <3>2. w.at = "close" /\ w.close = s /\ w.rest = r
      OBVIOUS
    <3>3. cgThread' = [cgThread EXCEPT ![t] = w]
      BY <2>1, <2>2, <2>5
    <3> HIDE DEF w
    <3>4. w \in CgStates /\ w \notin SendStates /\ w \notin WaitStates /\ w \notin TimedOut
      BY <3>1, <3>2, StatesDiffer DEF CgStates
    <3>5. \A x, id : Uses(w, x, id) <=> Uses(cgThread[t], x, id)
      BY <1>1, <1>2, <2>2, <3>1, <3>2, <3>4 DEF Uses
    <3>6. StateIsSound(w)'
      <4>1. cgProc'[s] # "none"
        BY <1>0, <1>2, <2>5 DEF CgInv, ChildrenNumbered
      <4>2. QED
        BY <2>4, <3>2, <3>4, <4>1 DEF StateIsSound
    <3>7. QED
      BY <1>0, <1>4, <2>1, <3>2, <3>3, <3>4, <3>5, <3>6, ThreadGoesOn
  <2>6. CASE s \notin cgPool
    <3>1. cgThread' = [cgThread EXCEPT ![t] = r] /\ cgPool' = cgPool
      BY <2>1, <2>2, <2>6
    <3>2. \A x, id : Uses(r, x, id) <=> Uses(cgThread[t], x, id)
      BY <1>1, <1>2, <2>2, <2>3 DEF Uses
    <3>3. StateIsSound(r)'
      BY <2>3, <2>4 DEF StateIsSound
    <3>4. QED
      BY <1>0, <1>4, <2>3, <3>1, <3>2, <3>3, ThreadGoesOn
  <2>7. QED
    BY <2>5, <2>6
<1>7. QED
  BY <1>5, <1>6

\* close()
LEMMA CloseStep ==
  ASSUME CgInv, NEW t \in CgThreads, CloseChild(t)
  PROVE  CgInv'
<1>0. /\ CgTypeOK /\ ChildrenNumbered /\ ThreadsAreSound /\ ChildrenAccounted /\ cgThread[t].at = "close"
      /\ UNCHANGED <<cgPool, cgInbox, cgResponses, cgMessages, cgDelivered>>
  BY DEF CgInv, CloseChild
<1>1. PICK c \in CloseStates : c = cgThread[t] /\ c \in CgStates
  BY <1>0, StatesDiffer DEF CgTypeOK
<1>2. PICK r \in DropStates \cup TimedOut : r = c.rest /\ r \in CgStates
  BY <1>1 DEF CloseStates, CgStates
<1>3. c.close \in Children /\ c \notin SendStates \cup WaitStates \cup TimedOut
  BY <1>0, <1>1, StatesDiffer DEF CloseStates
<1>4. r \notin SendStates /\ r \notin WaitStates /\ r \notin CloseStates
  BY <1>2, StatesDiffer
<1>5. /\ cgThread' = [cgThread EXCEPT ![t] = r]
      /\ cgProc' = [cgProc EXCEPT ![c.close] = "dead"]
  BY <1>1, <1>2 DEF CloseChild, CgSet
<1>6. \A s, id : Uses(r, s, id) <=> Uses(cgThread[t], s, id)
  BY <1>1, <1>2, <1>3, <1>4 DEF Uses
<1>7. StateIsSound(r)'
  <2>1. r \in TimedOut => r.todo = {} /\ r.s \notin cgPool
    BY <1>0, <1>1, <1>2 DEF ThreadsAreSound, StateIsSound
  <2>2. QED
    BY <1>0, <1>4, <2>1 DEF StateIsSound
<1>8. cgProc[c.close] # "none"
  BY <1>0, <1>1 DEF ThreadsAreSound, StateIsSound
<1>9. /\ cgProc' \in [Children -> {"none", "running", "dead"}] /\ cgProc'[c.close] = "dead"
      /\ \A s \in Children : s # c.close => cgProc'[s] = cgProc[s]
  BY <1>0, <1>3, <1>5 DEF CgTypeOK
<1>10. \A s \in Children : /\ cgProc'[s] = "none" <=> cgProc[s] = "none"
                           /\ cgProc'[s] = "running" => cgProc[s] = "running"
  BY <1>8, <1>9
<1>11. cgMessages' \in Nat
  BY <1>0 DEF CgTypeOK
<1>12. QED
  BY <1>0, <1>1, <1>2, <1>5, <1>6, <1>7, <1>9, <1>10, <1>11, ThreadGoesOn

\* GiveUp(): the session is dropped before the id can be used again.
LEMMA GiveUpStep ==
  ASSUME CgInv, NEW t \in CgThreads, GiveUp(t)
  PROVE  CgInv'
<1>0. /\ CgTypeOK /\ cgThread[t].at = "wait"
      /\ UNCHANGED <<cgPool, cgProc, cgInbox, cgResponses, cgMessages, cgDelivered>>
  BY DEF CgInv, GiveUp, cgChildren
<1>1. PICK c \in WaitStates : c = cgThread[t] /\ c \in CgStates
  BY <1>0, StatesDiffer DEF CgTypeOK
<1>2. c.s \in Children /\ c.id \in CgIds
  BY DEF WaitStates
<1> DEFINE w == [at |-> "drop", todo |-> {c.s}, then |-> CgIdle, s |-> c.s, id |-> c.id]
<1>3. w \in TimedOut
  BY <1>2 DEF TimedOut
<1>4. w.s = c.s /\ w.id = c.id /\ w.todo = {c.s} /\ w.at = "drop"
  OBVIOUS
<1>5. cgThread' = [cgThread EXCEPT ![t] = w]
  BY <1>1 DEF GiveUp, AfterTimeout, CgSet
<1> HIDE DEF w
<1>6. w \in CgStates /\ w \notin SendStates /\ w \notin WaitStates /\ w \notin CloseStates
  BY <1>3, <1>4, StatesDiffer DEF CgStates
<1>7. c \notin SendStates /\ c \notin TimedOut /\ c \notin CloseStates
  BY <1>0, <1>1, StatesDiffer
<1>8. \A s, id : Uses(w, s, id) <=> Uses(cgThread[t], s, id)
  BY <1>1, <1>3, <1>4, <1>6, <1>7 DEF Uses
<1>9. StateIsSound(w)'
  BY <1>4, <1>6 DEF StateIsSound
<1>10. cgProc' \in [Children -> {"none", "running", "dead"}] /\ cgMessages' \in Nat
  BY <1>0 DEF CgTypeOK
<1>11. QED
  BY <1>0, <1>5, <1>6, <1>8, <1>9, <1>10, ThreadGoesOn

\* A thread takes up an id of a session that nobody uses, of a session of the pool or
\* of a child that has just been started: nothing is on its way under it.
LEMMA TakesUp ==
  ASSUME CgInv, NEW t \in CgThreads, NEW s \in Children, NEW id \in CgIds \cup {NoId},
         cgThread' = [cgThread EXCEPT ![t] = [at |-> "send", s |-> s, id |-> id]],
         \A x, i : ~Uses(cgThread[t], x, i),
         \A u \in CgThreads : ~Uses(cgThread[u], s, id),
         id \in CgIds => Quiet(s, id),
         UNCHANGED <<cgInbox, cgResponses, cgDelivered, cgMessages>>,
         cgPool' \subseteq cgPool \cup {s},
         s \notin cgPool => \A i \in CgIds : /\ Quiet(s, i)
                                            /\ \A u \in CgThreads : ~Uses(cgThread[u], s, i),
         cgProc' \in [Children -> {"none", "running", "dead"}], cgProc'[s] # "none",
         \A x \in Children \ {s} : cgProc'[x] = "none" <=> cgProc[x] = "none",
         \E k \in 0..MaxChildren : {x \in Children : cgProc'[x] # "none"} = 1..k,
         ChildrenAccounted'
  PROVE  CgInv'
<1>0. /\ CgTypeOK /\ ChildrenNumbered /\ UsesDiffer /\ ThreadsAreSound /\ AnswersMatch
  BY DEF CgInv
<1> DEFINE w == [at |-> "send", s |-> s, id |-> id]
<1>1. w \in SendStates
  BY DEF SendStates
<1>2. w.at = "send" /\ w.s = s /\ w.id = id /\ cgThread' = [cgThread EXCEPT ![t] = w]
  OBVIOUS
<1> HIDE DEF w
<1>3. w \in CgStates /\ w \notin WaitStates /\ w \notin TimedOut /\ w \notin CloseStates
  BY <1>1, <1>2, StatesDiffer DEF CgStates
<1>4. cgThread'[t] = w /\ \A u \in CgThreads : u # t => cgThread'[u] = cgThread[u]
  BY <1>0, <1>2 DEF CgTypeOK
<1>5. \A x, i : Uses(w, x, i) <=> x = s /\ i = id
  BY <1>1, <1>2, <1>3 DEF Uses
<1>6. \A x, i, no : (Quiet(x, i)' <=> Quiet(x, i)) /\ (Only(x, i, no)' <=> Only(x, i, no))
  BY DEF Quiet, Only
<1>7. CgTypeOK'
  BY <1>0, <1>2, <1>3 DEF CgTypeOK
<1>8. ChildrenNumbered'
  <2>1. ASSUME NEW x \in Children, cgProc'[x] = "none"
        PROVE  /\ x \notin cgPool' /\ \A i \in CgIds : Quiet(x, i)
               /\ \A u \in CgThreads, i \in CgIds \cup {NoId} : ~Uses(cgThread'[u], x, i)
    <3>1. x # s /\ cgProc[x] = "none"
      BY <2>1
    <3>2. QED
      BY <1>0, <1>4, <1>5, <3>1 DEF ChildrenNumbered
  <2>2. \A x \in Children : cgProc'[x] = "none" =>
          /\ x \notin cgPool' /\ \A i \in CgIds : Quiet(x, i)'
          /\ \A u \in CgThreads, i \in CgIds \cup {NoId} : ~Uses(cgThread'[u], x, i)
    BY <1>6, <2>1
  <2>3. QED
    BY <2>2 DEF ChildrenNumbered
<1>9. UsesDiffer'
  <2>1. \A u, v \in CgThreads, x \in Children, i \in CgIds \cup {NoId} :
          Uses(cgThread'[u], x, i) /\ Uses(cgThread'[v], x, i) => u = v
    BY <1>0, <1>4, <1>5 DEF UsesDiffer
  <2>2. QED
    BY <1>0, <2>1 DEF UsesDiffer
<1>10. ThreadsAreSound'
  <2>1. ASSUME NEW u \in CgThreads
        PROVE  StateIsSound(cgThread[u])'
    <3>1. CASE u = t
      BY <1>2, <1>3, <1>4, <1>6, <3>1 DEF StateIsSound
    <3>2. CASE u # t
      <4>1. /\ cgThread'[u] = cgThread[u] /\ StateIsSound(cgThread[u]) /\ cgThread[u] \in CgStates
        BY <1>0, <1>4, <3>2 DEF ThreadsAreSound, CgTypeOK
      <4>2. cgThread[u] \in CloseStates => /\ cgThread[u].close \in Children
                                           /\ cgThread[u].rest \in DropStates \cup TimedOut
        BY DEF CloseStates
      <4>3. cgThread[u] \in TimedOut /\ cgThread[u].s \notin cgPool => cgThread[u].s \notin cgPool'
        <5>1. cgThread[u] \in TimedOut => /\ Uses(cgThread[u], cgThread[u].s, cgThread[u].id)
                                          /\ cgThread[u].id \in CgIds
          BY DEF Uses, TimedOut
        <5>2. QED
          BY <5>1
      <4>4. cgThread[u] \in CloseStates /\ cgThread[u].rest \in TimedOut =>
              (cgThread[u].rest.s \notin cgPool => cgThread[u].rest.s \notin cgPool')
        <5>1. cgThread[u] \in CloseStates /\ cgThread[u].rest \in TimedOut =>
                /\ Uses(cgThread[u], cgThread[u].rest.s, cgThread[u].rest.id)
                /\ cgThread[u].rest.id \in CgIds
          BY DEF Uses, TimedOut
        <5>2. QED
          BY <5>1
      <4>5. \A x \in Children : cgProc[x] # "none" => cgProc'[x] # "none"
        OBVIOUS
      <4>6. QED
        BY <1>6, <4>1, <4>2, <4>3, <4>4, <4>5 DEF StateIsSound
    <3>3. QED
      BY <3>1, <3>2
  <2>2. ASSUME NEW x \in cgPool', NEW i \in CgIds, \A u \in CgThreads : ~Uses(cgThread'[u], x, i)
        PROVE  Quiet(x, i)
    BY <1>0, <1>4, <1>5, <2>2 DEF ThreadsAreSound
  <2>3. QED
    BY <1>6, <2>1, <2>2 DEF ThreadsAreSound
<1>11. AnswersMatch'
  BY <1>0 DEF AnswersMatch
<1>12. QED
  BY <1>7, <1>8, <1>9, <1>10, <1>11 DEF CgInv

\* mcp_post() for a session whose child lives: a client does not use an id again while
\* it is open, and one that a thread still drops belongs to no session of the pool.
LEMMA BeginStep ==
  ASSUME CgInv, NEW t \in CgThreads, NEW s \in Children, NEW id \in CgIds \cup {NoId},
         BeginMessage(t, s, id), cgProc[s] # "dead"
  PROVE  CgInv'
<1>0. /\ CgTypeOK /\ ChildrenNumbered /\ ThreadsAreSound /\ ChildrenAccounted
      /\ cgThread[t] = CgIdle /\ s \in cgPool /\ ~Open(s, id)
      /\ cgThread' = [cgThread EXCEPT ![t] = [at |-> "send", s |-> s, id |-> id]]
      /\ UNCHANGED <<cgPool, cgProc, cgInbox, cgResponses, cgMessages, cgDelivered>>
  BY DEF CgInv, BeginMessage, CgSet, cgChildren
<1>1. ASSUME NEW u \in CgThreads, Uses(cgThread[u], s, id)
      PROVE  FALSE
  <2>1. cgThread[u] \in CgStates /\ StateIsSound(cgThread[u])
    BY <1>0 DEF CgTypeOK, ThreadsAreSound
  <2>2. CASE cgThread[u] \in SendStates \cup WaitStates \cup TimedOut /\ cgThread[u].s = s /\ cgThread[u].id = id
    BY <1>0, <2>1, <2>2, StatesDiffer DEF Open
  <2>3. CASE cgThread[u] \in CloseStates /\ cgThread[u].rest \in TimedOut /\ cgThread[u].rest.s = s
    BY <1>0, <2>1, <2>3 DEF StateIsSound
  <2>4. QED
    BY <1>1, <2>2, <2>3 DEF Uses
<1>2. \A x, i : ~Uses(cgThread[t], x, i)
  BY <1>0, UsesNothing
<1>3. id \in CgIds => Quiet(s, id)
  BY <1>0, <1>1 DEF ThreadsAreSound
<1>4. /\ cgProc' \in [Children -> {"none", "running", "dead"}] /\ cgProc'[s] # "none"
      /\ \E k \in 0..MaxChildren : {x \in Children : cgProc'[x] # "none"} = 1..k
  BY <1>0 DEF CgTypeOK, ChildrenNumbered
<1>5. ChildrenAccounted'
  <2>1. cgThread[t].at = "idle"
    BY <1>0 DEF CgIdle
  <2>2. \A u \in CgThreads : cgThread[u].at = "close" => cgThread'[u] = cgThread[u]
    BY <1>0, <2>1 DEF CgTypeOK
  <2>3. QED
    BY <1>0, <2>2 DEF ChildrenAccounted
<1>6. QED
  BY <1>0, <1>1, <1>2, <1>3, <1>4, <1>5, TakesUp

\* create(): the new child has the next number, and the pool keeps its limit because
\* the oldest session leaves it when it is full.
LEMMA CreateStep ==
  ASSUME CgInv, NEW t \in CgThreads, CreateSession(t)
  PROVE  CgInv'
<1>0. /\ CgTypeOK /\ ChildrenNumbered /\ ChildrenAccounted /\ cgThread[t].at = "create"
      /\ UNCHANGED <<cgInbox, cgResponses, cgMessages, cgDelivered>>
  BY DEF CgInv, CreateSession
<1>1. PICK k \in 0..MaxChildren : {s \in Children : cgProc[s] # "none"} = 1..k
  BY <1>0 DEF ChildrenNumbered
<1>2. Cardinality({s \in Children : cgProc[s] # "none"}) = k /\ MaxChildren \in Nat
  <2>1. k \in Nat /\ MaxChildren \in Nat
    BY CgAssumption
  <2>2. Cardinality(1..k) = k
    BY <2>1, FS_Interval
  <2>3. QED
    BY <1>1, <2>1, <2>2
<1>3. PICK new \in Children : new = k + 1 /\ cgProc[new] = "none" /\ new \in Nat
  BY <1>0, <1>1, <1>2 DEF CreateSession, Children
<1>4. PICK out \in Evicted :
        /\ cgPool' = (cgPool \ out) \cup {new}
        /\ cgProc' = [s \in Children |-> IF s = new THEN "running"
                                         ELSE IF s \in out THEN "dead" ELSE cgProc[s]]
  BY <1>2, <1>3 DEF CreateSession
<1>5. out \subseteq cgPool
  BY DEF Evicted, Oldest
<1>6. PICK c \in CreateStates : c = cgThread[t]
  BY <1>0, StatesDiffer DEF CgTypeOK
<1>7. PICK id \in CgIds : id = cgThread[t].first
  BY <1>6 DEF CreateStates
<1>8. cgThread' = [cgThread EXCEPT ![t] = [at |-> "send", s |-> new, id |-> id]]
  BY <1>2, <1>3, <1>7 DEF CreateSession, CgSet
<1>9. /\ new \notin cgPool /\ \A i \in CgIds : Quiet(new, i)
      /\ \A u \in CgThreads, i \in CgIds \cup {NoId} : ~Uses(cgThread[u], new, i)
  BY <1>0, <1>3 DEF ChildrenNumbered
<1>10. \A x, i : ~Uses(cgThread[t], x, i)
  BY <1>6, UsesNothing
<1>11. /\ cgProc' \in [Children -> {"none", "running", "dead"}] /\ cgProc'[new] = "running"
       /\ \A s \in Children : s # new => cgProc'[s] = IF s \in out THEN "dead" ELSE cgProc[s]
  BY <1>0, <1>4 DEF CgTypeOK
<1>12. \A x \in Children \ {new} : cgProc'[x] = "none" <=> cgProc[x] = "none"
  BY <1>0, <1>5, <1>11 DEF ChildrenNumbered
<1>13. \E j \in 0..MaxChildren : {x \in Children : cgProc'[x] # "none"} = 1..j
  <2>1. {x \in Children : cgProc'[x] # "none"} = (1..k) \cup {new}
    BY <1>1, <1>11, <1>12
  <2>2. (1..k) \cup {new} = 1..(k + 1) /\ k + 1 \in 0..MaxChildren
    BY <1>2, <1>3 DEF Children
  <2>3. QED
    BY <2>1, <2>2
<1>14. ChildrenAccounted'
  <2>1. IsFiniteSet(Children)
    BY <1>2, FS_Interval DEF Children
  <2>2. IsFiniteSet(cgPool) /\ IsFiniteSet(cgPool \ out)
    BY <1>0, <2>1, FS_Subset DEF CgTypeOK
  <2>3. /\ Cardinality(cgPool') = Cardinality(cgPool \ out) + 1
        /\ Cardinality(cgPool \ out) \in Nat /\ Cardinality(cgPool) \in Nat
    BY <1>4, <1>9, <2>2, FS_AddElement, FS_CardinalityType
  <2>4. Cardinality(cgPool') <= MaxPool
    <3>1. CASE Cardinality(cgPool) >= MaxPool
      <4>1. PICK x \in cgPool : out = {x}
        BY <3>1 DEF Evicted, Oldest
      <4>2. Cardinality(cgPool \ out) = Cardinality(cgPool) - 1
        BY <2>2, <4>1, FS_RemoveElement
      <4>3. QED
        BY <1>0, <2>3, <4>2, CgAssumption DEF ChildrenAccounted
    <3>2. CASE ~(Cardinality(cgPool) >= MaxPool)
      <4>1. out = {}
        BY <3>2 DEF Evicted
      <4>2. Cardinality(cgPool \ out) = Cardinality(cgPool)
        BY <4>1
      <4>3. QED
        BY <2>3, <3>2, <4>2, CgAssumption
    <3>3. QED
      BY <3>1, <3>2
  <2>5. \A u \in CgThreads : cgThread[u].at = "close" => cgThread'[u] = cgThread[u]
    BY <1>0, <1>8 DEF CgTypeOK
  <2>6. ASSUME NEW s \in Children, cgProc'[s] = "running", s \notin cgPool'
        PROVE  \E u \in CgThreads : cgThread'[u].at = "close" /\ cgThread'[u].close = s
    <3>1. s # new /\ cgProc[s] = "running" /\ s \notin cgPool
      BY <1>4, <1>11, <2>6
    <3>2. QED
      BY <1>0, <2>5, <3>1 DEF ChildrenAccounted
  <2>7. QED
    BY <2>4, <2>6 DEF ChildrenAccounted
<1>15. QED
  BY <1>0, <1>3, <1>4, <1>8, <1>9, <1>10, <1>11, <1>12, <1>13, <1>14, TakesUp

\* The threads that a step moves have only used the id of session s, and take up no other.
ThreadsMove(s, id) ==
  \A u \in CgThreads : cgThread'[u] # cgThread[u] =>
    /\ StateIsSound(cgThread[u])' /\ cgThread[u].at # "close"
    /\ \A x, i : Uses(cgThread'[u], x, i) => Uses(cgThread[u], x, i)
    /\ \A x, i : Uses(cgThread[u], x, i) => x = s /\ i = id

\* A step that changes only what is on its way under one id of one session, and the
\* state of threads that use that id.
LEMMA MailMoves ==
  ASSUME CgInv, NEW s \in Children, NEW id \in CgIds, cgProc[s] # "none",
         UNCHANGED <<cgPool, cgProc>>, cgMessages' \in Nat, AnswersMatch',
         cgThread' \in [CgThreads -> CgStates],
         cgInbox' \in [Children -> SUBSET (CgIds \X (Nat \ {0}))],
         cgResponses' \in [Children -> [CgIds -> Nat]],
         \A x \in Children, i \in CgIds : x # s \/ i # id =>
           /\ cgResponses'[x][i] = cgResponses[x][i]
           /\ \A m : m[1] = i => (m \in cgInbox'[x] <=> m \in cgInbox[x]),
         \A m, n \in cgInbox'[s] : m[1] = id /\ n[1] = id => m = n,
         \A m \in cgInbox'[s] : m[1] = id => cgResponses'[s][id] = 0,
         ThreadsMove(s, id),
         \A u \in CgThreads :
           cgThread'[u] = cgThread[u] /\ cgThread[u] \in SendStates \cup WaitStates =>
             (cgThread[u].s = s /\ cgThread[u].id = id => StateIsSound(cgThread[u])'),
         s \in cgPool /\ (\A u \in CgThreads : ~Uses(cgThread'[u], s, id)) => Quiet(s, id)'
  PROVE  CgInv'
<1>0. /\ CgTypeOK /\ ChildrenNumbered /\ UsesDiffer /\ ThreadsAreSound /\ ChildrenAccounted
  BY DEF CgInv
<1>1. CgTypeOK'
  BY <1>0 DEF CgTypeOK
<1>2. \A x \in Children : \A m \in cgInbox'[x] \cup cgInbox[x] : m[1] \in CgIds /\ m[2] \in Nat
  BY <1>0 DEF CgTypeOK
<1>3. ASSUME NEW x \in Children, NEW i \in CgIds, x # s \/ i # id
      PROVE  /\ Quiet(x, i)' <=> Quiet(x, i)
             /\ \A no : Only(x, i, no)' <=> Only(x, i, no)
  BY <1>3 DEF Quiet, Only
<1>4. ChildrenNumbered'
  <2>1. ASSUME NEW x \in Children, cgProc'[x] = "none"
        PROVE  /\ x \notin cgPool' /\ \A i \in CgIds : Quiet(x, i)'
               /\ \A u \in CgThreads, i \in CgIds \cup {NoId} : ~Uses(cgThread'[u], x, i)
    <3>1. x # s /\ cgProc[x] = "none"
      BY <2>1
    <3>2. /\ x \notin cgPool /\ \A i \in CgIds : Quiet(x, i)
          /\ \A u \in CgThreads, i \in CgIds \cup {NoId} : ~Uses(cgThread[u], x, i)
      BY <1>0, <3>1 DEF ChildrenNumbered
    <3>3. \A i \in CgIds : Quiet(x, i)'
      BY <1>3, <3>1, <3>2
    <3>4. QED
      BY <3>2, <3>3 DEF ThreadsMove
  <2>2. QED
    BY <1>0, <2>1 DEF ChildrenNumbered
<1>5. UsesDiffer'
  <2>1. \A u \in CgThreads : \A x, i : Uses(cgThread'[u], x, i) => Uses(cgThread[u], x, i)
    BY DEF ThreadsMove
  <2>2. ASSUME NEW x \in Children, NEW m \in cgInbox'[x], NEW n \in cgInbox'[x], m[1] = n[1]
        PROVE  m = n
    <3>1. CASE x = s /\ m[1] = id
      BY <2>2, <3>1
    <3>2. CASE x # s \/ m[1] # id
      BY <1>0, <1>2, <2>2, <3>2 DEF UsesDiffer
    <3>3. QED
      BY <3>1, <3>2
  <2>3. ASSUME NEW x \in Children, NEW m \in cgInbox'[x]
        PROVE  cgResponses'[x][m[1]] = 0
    <3>1. CASE x = s /\ m[1] = id
      BY <3>1
    <3>2. CASE x # s \/ m[1] # id
      BY <1>0, <1>2, <3>2 DEF UsesDiffer
    <3>3. QED
      BY <3>1, <3>2
  <2>4. QED
    BY <1>0, <2>1, <2>2, <2>3 DEF UsesDiffer
<1>6. ThreadsAreSound'
  <2>1. ASSUME NEW u \in CgThreads
        PROVE  StateIsSound(cgThread[u])'
    <3>1. CASE cgThread'[u] # cgThread[u]
      BY <3>1 DEF ThreadsMove
    <3>2. CASE /\ cgThread'[u] = cgThread[u] /\ cgThread[u] \in SendStates \cup WaitStates
               /\ cgThread[u].s = s /\ cgThread[u].id = id
      BY <3>2
    <3>3. CASE /\ cgThread'[u] = cgThread[u]
               /\ ~(/\ cgThread[u] \in SendStates \cup WaitStates
                    /\ cgThread[u].s = s /\ cgThread[u].id = id)
      <4>1. StateIsSound(cgThread[u])
        BY <1>0 DEF ThreadsAreSound
      <4>2. cgThread[u] \in SendStates /\ cgThread[u].id \in CgIds =>
              Quiet(cgThread[u].s, cgThread[u].id)'
        <5>1. cgThread[u] \in SendStates => cgThread[u].s \in Children
          BY DEF SendStates
        <5>2. QED
          BY <1>3, <3>3, <4>1, <5>1 DEF StateIsSound
      <4>3. cgThread[u] \in WaitStates => Only(cgThread[u].s, cgThread[u].id, cgThread[u].no)'
        <5>1. cgThread[u] \in WaitStates => cgThread[u].s \in Children /\ cgThread[u].id \in CgIds
          BY DEF WaitStates
        <5>2. QED
          BY <1>3, <3>3, <4>1, <5>1 DEF StateIsSound
      <4>4. QED
        BY <3>3, <4>1, <4>2, <4>3 DEF StateIsSound
    <3>4. QED
      BY <3>1, <3>2, <3>3
  <2>2. ASSUME NEW x \in cgPool', NEW i \in CgIds, \A u \in CgThreads : ~Uses(cgThread'[u], x, i)
        PROVE  Quiet(x, i)'
    <3>1. CASE x = s /\ i = id
      BY <2>2, <3>1
    <3>2. CASE x # s \/ i # id
      <4>1. \A u \in CgThreads : ~Uses(cgThread[u], x, i)
        BY <2>2, <3>2 DEF ThreadsMove
      <4>2. x \in Children /\ Quiet(x, i)
        BY <1>0, <4>1 DEF ThreadsAreSound, CgTypeOK
      <4>3. QED
        BY <1>3, <3>2, <4>2
    <3>3. QED
      BY <3>1, <3>2
  <2>3. QED
    BY <2>1, <2>2 DEF ThreadsAreSound
<1>7. ChildrenAccounted'
  BY <1>0 DEF ChildrenAccounted, ThreadsMove
<1>8. QED
  BY <1>1, <1>4, <1>5, <1>6, <1>7 DEF CgInv

\* send(): the message is the only one under its id.
LEMMA SendStep ==
  ASSUME CgInv, NEW t \in CgThreads, SendMessage(t)
  PROVE  CgInv'
<1>0. /\ CgTypeOK /\ ChildrenNumbered /\ UsesDiffer /\ ThreadsAreSound /\ AnswersMatch
      /\ cgThread[t].at = "send" /\ cgMessages \in Nat
      /\ UNCHANGED <<cgPool, cgProc, cgResponses, cgDelivered>>
  BY DEF CgInv, SendMessage, CgTypeOK
<1>1. PICK c \in SendStates : c = cgThread[t] /\ c \in CgStates
  BY <1>0, StatesDiffer DEF CgTypeOK
<1>2. PICK s \in Children : s = c.s
  BY DEF SendStates
<1>3. PICK id \in CgIds \cup {NoId} : id = c.id
  BY DEF SendStates
<1>4. \A x, i : Uses(cgThread[t], x, i) <=> x = s /\ i = id
  <2>1. c \notin WaitStates /\ c \notin TimedOut /\ c \notin CloseStates
    BY <1>0, <1>1, StatesDiffer
  <2>2. QED
    BY <1>1, <1>2, <1>3, <2>1 DEF Uses
<1>5. id \in CgIds => Quiet(s, id)
  BY <1>0, <1>1, <1>2, <1>3 DEF ThreadsAreSound, StateIsSound
<1>6. CASE cgProc[s] = "dead" \/ id = NoId
  <2>1. /\ cgThread' = [cgThread EXCEPT ![t] = CgIdle] /\ UNCHANGED cgInbox
        /\ cgMessages' \in {cgMessages, cgMessages + 1}
    <3>1. CASE cgProc[s] = "dead"
      BY <1>1, <1>2, <1>3, <3>1 DEF SendMessage, CgSet
    <3>2. CASE cgProc[s] # "dead" /\ id = NoId
      BY <1>1, <1>2, <1>3, <3>2 DEF SendMessage, CgSet
    <3>3. QED
      BY <1>6, <3>1, <3>2
  <2>4. cgMessages' \in Nat
    BY <1>0, <2>1
  <2>2. \A x \in cgPool, i \in CgIds : Uses(cgThread[t], x, i) => Quiet(x, i)
    BY <1>4, <1>5
  <2>5. QED
    BY <1>0, <2>1, <2>2, <2>4, ThreadLetsGo
<1>7. CASE ~(cgProc[s] = "dead" \/ id = NoId)
  <2>1. id \in CgIds /\ cgMessages + 1 \in Nat \ {0}
    BY <1>0, <1>7
  <2>2. PICK no \in Nat \ {0} : no = cgMessages + 1
    BY <2>1
  <2>3. PICK w \in WaitStates : /\ w.at = "wait" /\ w.s = s /\ w.id = id /\ w.no = no
                                /\ w = [at |-> "wait", s |-> s, id |-> id, no |-> no]
    <3>1. [at |-> "wait", s |-> s, id |-> id, no |-> no] \in WaitStates
      BY <2>1 DEF WaitStates
    <3>2. QED
      BY <3>1
  <2>4. /\ cgThread' = [cgThread EXCEPT ![t] = w] /\ cgMessages' = no
        /\ cgInbox' = [cgInbox EXCEPT ![s] = cgInbox[s] \cup {<<id, no>>}]
    BY <1>1, <1>2, <1>3, <1>7, <2>2, <2>3 DEF SendMessage, CgSet
  <2>5. w \in CgStates /\ w \notin SendStates /\ w \notin TimedOut /\ w \notin CloseStates
    BY <2>2, <2>3, StatesDiffer DEF CgStates
  <2>6. cgThread'[t] = w /\ \A u \in CgThreads : u # t => cgThread'[u] = cgThread[u]
    BY <1>0, <2>4 DEF CgTypeOK
  <2>7. \A x, i : Uses(w, x, i) <=> x = s /\ i = id
    BY <2>3, <2>5 DEF Uses
  <2>8. /\ cgThread' \in [CgThreads -> CgStates]
        /\ cgInbox' \in [Children -> SUBSET (CgIds \X (Nat \ {0}))]
        /\ cgResponses' \in [Children -> [CgIds -> Nat]] /\ cgMessages' \in Nat
    BY <1>0, <2>1, <2>4, <2>5 DEF CgTypeOK
  <2>9. cgProc[s] # "none"
    BY <1>0, <1>4 DEF ChildrenNumbered
  <2>10. /\ cgInbox'[s] = cgInbox[s] \cup {<<id, no>>}
         /\ \A x \in Children : x # s => cgInbox'[x] = cgInbox[x]
    BY <1>0, <2>4 DEF CgTypeOK
  <2>11. \A x \in Children, i \in CgIds : x # s \/ i # id =>
           /\ cgResponses'[x][i] = cgResponses[x][i]
           /\ \A m : m[1] = i => (m \in cgInbox'[x] <=> m \in cgInbox[x])
    BY <1>0, <2>10
  <2>12. /\ cgResponses'[s][id] = 0
         /\ \A m \in cgInbox'[s] : m[1] = id => m = <<id, no>>
    BY <1>0, <1>5, <2>1, <2>10 DEF Quiet
  <2>13. \A m, n \in cgInbox'[s] : m[1] = id /\ n[1] = id => m = n
    BY <2>12
  <2>14. Only(s, id, no)'
    <3>1. \A m \in cgInbox'[s] : m[1] = id => m[2] = no
      BY <2>12
    <3>2. cgResponses'[s][id] \in {0, no} /\ \A m \in cgInbox'[s] : m[1] = id => m[2] = no
      BY <2>12, <3>1
    <3>3. QED
      BY <3>2 DEF Only
  <2>15. StateIsSound(cgThread[t])'
    BY <2>3, <2>5, <2>6, <2>14 DEF StateIsSound
  <2>16. \A u \in CgThreads : u # t => ~Uses(cgThread[u], s, id)
    BY <1>0, <1>4 DEF UsesDiffer
  <2>17. ASSUME NEW u \in CgThreads, cgThread'[u] = cgThread[u],
                cgThread[u] \in SendStates \cup WaitStates, cgThread[u].s = s, cgThread[u].id = id
         PROVE  StateIsSound(cgThread[u])'
    <3>1. Uses(cgThread[u], s, id)
      BY <2>17 DEF Uses
    <3>2. u = t
      BY <2>16, <3>1
    <3>3. QED
      BY <2>15, <3>2
  <2>18. Uses(cgThread'[t], s, id) /\ AnswersMatch'
    BY <1>0, <2>6, <2>7 DEF AnswersMatch
  <2>19. ThreadsMove(s, id)
    <3>1. SUFFICES /\ StateIsSound(cgThread[t])' /\ cgThread[t].at # "close"
                   /\ \A x, i : Uses(cgThread'[t], x, i) => Uses(cgThread[t], x, i)
                   /\ \A x, i : Uses(cgThread[t], x, i) => x = s /\ i = id
      BY <2>6 DEF ThreadsMove
    <3>2. QED
      BY <1>0, <1>4, <2>6, <2>7, <2>15
  <2>20. \A u \in CgThreads :
           cgThread'[u] = cgThread[u] /\ cgThread[u] \in SendStates \cup WaitStates =>
             (cgThread[u].s = s /\ cgThread[u].id = id => StateIsSound(cgThread[u])')
    BY <2>17
  <2>21. /\ \A m \in cgInbox'[s] : m[1] = id => cgResponses'[s][id] = 0
         /\ s \in cgPool /\ (\A u \in CgThreads : ~Uses(cgThread'[u], s, id)) => Quiet(s, id)'
         /\ UNCHANGED <<cgPool, cgProc>>
    BY <1>0, <2>12, <2>18
  <2>22. QED
    BY <2>1, <2>8, <2>9, <2>11, <2>13, <2>18, <2>19, <2>20, <2>21, MailMoves
<1>8. QED
  BY <1>6, <1>7

\* request(): the answer the thread is given is to its own message, and with it nothing
\* is left under the id.
LEMMA TakeStep ==
  ASSUME CgInv, NEW t \in CgThreads, TakeResponse(t)
  PROVE  CgInv'
<1>0. /\ CgTypeOK /\ ChildrenNumbered /\ UsesDiffer /\ ThreadsAreSound /\ AnswersMatch
      /\ cgThread[t].at = "wait"
      /\ UNCHANGED <<cgPool, cgProc, cgInbox, cgMessages>>
  BY DEF CgInv, TakeResponse
<1>1. PICK c \in WaitStates : c = cgThread[t] /\ c \in CgStates
  BY <1>0, StatesDiffer DEF CgTypeOK
<1>2. PICK s \in Children : s = c.s
  BY DEF WaitStates
<1>3. PICK id \in CgIds : id = c.id
  BY DEF WaitStates
<1>4. /\ cgResponses[s][id] # 0 /\ cgThread' = [cgThread EXCEPT ![t] = CgIdle]
      /\ cgDelivered' = cgDelivered \cup {<<c.no, cgResponses[s][id]>>}
      /\ cgResponses' = [cgResponses EXCEPT ![s][id] = 0]
  BY <1>1, <1>2, <1>3 DEF TakeResponse, CgSet
<1>5. \A x, i : Uses(cgThread[t], x, i) <=> x = s /\ i = id
  <2>1. c \notin SendStates /\ c \notin TimedOut /\ c \notin CloseStates
    BY <1>0, <1>1, StatesDiffer
  <2>2. QED
    BY <1>1, <1>2, <1>3, <2>1 DEF Uses
<1>6. cgResponses[s][id] = c.no
  BY <1>0, <1>1, <1>2, <1>3, <1>4 DEF ThreadsAreSound, StateIsSound, Only
<1>7. AnswersMatch'
  BY <1>0, <1>4, <1>6 DEF AnswersMatch
<1>8. \A m \in cgInbox[s] : m[1] # id
  BY <1>0, <1>4 DEF UsesDiffer
<1>9. /\ cgResponses' \in [Children -> [CgIds -> Nat]] /\ cgResponses'[s][id] = 0
      /\ \A x \in Children, i \in CgIds : x # s \/ i # id => cgResponses'[x][i] = cgResponses[x][i]
  BY <1>0, <1>4 DEF CgTypeOK
<1>10. cgThread'[t] = CgIdle /\ \A u \in CgThreads : u # t => cgThread'[u] = cgThread[u]
  BY <1>0, <1>4 DEF CgTypeOK
<1>11. /\ CgIdle \in CgStates /\ \A x, i : ~Uses(CgIdle, x, i)
       /\ StateIsSound(CgIdle)'
  BY UsesNothing
<1>12. /\ cgThread' \in [CgThreads -> CgStates] /\ cgMessages' \in Nat
       /\ cgInbox' \in [Children -> SUBSET (CgIds \X (Nat \ {0}))]
  BY <1>0, <1>4, <1>11 DEF CgTypeOK
<1>13. cgProc[s] # "none"
  BY <1>0, <1>5 DEF ChildrenNumbered
<1>14. \A u \in CgThreads : u # t => ~Uses(cgThread[u], s, id)
  BY <1>0, <1>5 DEF UsesDiffer
<1>15. ASSUME NEW u \in CgThreads, cgThread'[u] = cgThread[u],
              cgThread[u] \in SendStates \cup WaitStates, cgThread[u].s = s, cgThread[u].id = id
       PROVE  FALSE
  <2>1. Uses(cgThread[u], s, id)
    BY <1>15 DEF Uses
  <2>2. u = t
    BY <1>14, <2>1
  <2>3. QED
    BY <1>0, <1>10, <1>15, <2>2 DEF CgIdle
<1>16. Quiet(s, id)'
  BY <1>0, <1>8, <1>9 DEF Quiet
<1>17. \A x \in Children, i \in CgIds : x # s \/ i # id =>
           /\ cgResponses'[x][i] = cgResponses[x][i]
           /\ \A m : m[1] = i => (m \in cgInbox'[x] <=> m \in cgInbox[x])
  BY <1>0, <1>9
<1>18. ThreadsMove(s, id)
  <2>1. SUFFICES /\ StateIsSound(cgThread[t])' /\ cgThread[t].at # "close"
                 /\ \A x, i : Uses(cgThread'[t], x, i) => Uses(cgThread[t], x, i)
                 /\ \A x, i : Uses(cgThread[t], x, i) => x = s /\ i = id
    BY <1>10 DEF ThreadsMove
  <2>2. StateIsSound(cgThread[t])'
    BY <1>10, <1>11
  <2>3. QED
    BY <1>0, <1>5, <1>10, <1>11, <2>2
<1>19. /\ \A m, n \in cgInbox'[s] : m[1] = id /\ n[1] = id => m = n
       /\ \A m \in cgInbox'[s] : m[1] = id => cgResponses'[s][id] = 0
       /\ \A u \in CgThreads :
           cgThread'[u] = cgThread[u] /\ cgThread[u] \in SendStates \cup WaitStates =>
             (cgThread[u].s = s /\ cgThread[u].id = id => StateIsSound(cgThread[u])')
       /\ UNCHANGED <<cgPool, cgProc>>
  BY <1>0, <1>8, <1>15
<1>20. QED
  BY <1>7, <1>9, <1>12, <1>13, <1>16, <1>17, <1>18, <1>19, MailMoves

\* _read_stdout(): the answer is filed for the thread that waits for it, if one does.
LEMMA ReadStep ==
  ASSUME CgInv, NEW s \in Children, NEW a \in cgInbox[s], ReadAnswer(s, a)
  PROVE  CgInv'
<1>0. /\ CgTypeOK /\ ChildrenNumbered /\ UsesDiffer /\ ThreadsAreSound /\ AnswersMatch
      /\ UNCHANGED <<cgPool, cgProc, cgThread, cgMessages, cgDelivered>>
  BY DEF CgInv, ReadAnswer
<1>1. a \in CgIds \X (Nat \ {0})
  BY <1>0 DEF CgTypeOK
<1>2. PICK id \in CgIds, no \in Nat \ {0} : a[1] = id /\ a[2] = no
  BY <1>1
<1>3. /\ cgInbox' = [cgInbox EXCEPT ![s] = cgInbox[s] \ {a}]
      /\ cgResponses' = [cgResponses EXCEPT ![s][id] = no]
  BY <1>2 DEF ReadAnswer
<1>4. /\ cgResponses' \in [Children -> [CgIds -> Nat]] /\ cgResponses'[s][id] = no
      /\ \A x \in Children, i \in CgIds : x # s \/ i # id => cgResponses'[x][i] = cgResponses[x][i]
  BY <1>0, <1>3 DEF CgTypeOK
<1>5. /\ cgInbox' \in [Children -> SUBSET (CgIds \X (Nat \ {0}))] /\ cgInbox'[s] = cgInbox[s] \ {a}
      /\ \A x \in Children : x # s => cgInbox'[x] = cgInbox[x]
  BY <1>0, <1>3 DEF CgTypeOK
<1>6. \A m \in cgInbox'[s] : m[1] # id
  BY <1>0, <1>2, <1>5 DEF UsesDiffer
<1>7. cgProc[s] # "none" /\ ~Quiet(s, id)
  BY <1>0, <1>2 DEF ChildrenNumbered, Quiet
<1>8. ASSUME NEW u \in CgThreads, cgThread[u] \in SendStates \cup WaitStates,
             cgThread[u].s = s, cgThread[u].id = id
      PROVE  StateIsSound(cgThread[u])'
  <2>1. StateIsSound(cgThread[u]) /\ cgThread[u] \in CgStates /\ cgThread'[u] = cgThread[u]
    BY <1>0 DEF ThreadsAreSound, CgTypeOK
  <2>2. PICK c \in WaitStates : c = cgThread[u] /\ c = cgThread'[u]
    BY <1>7, <1>8, <2>1 DEF StateIsSound
  <2>3. Only(s, id, c.no)
    BY <1>8, <2>1, <2>2 DEF StateIsSound
  <2>4. c.no = no
    BY <1>2, <2>3 DEF Only
  <2>5. Only(s, id, c.no)'
    BY <1>4, <1>6, <2>4 DEF Only
  <2>6. c \notin SendStates /\ c \notin TimedOut /\ c \notin CloseStates
    BY <2>1, <2>2, StatesDiffer
  <2>7. StateIsSound(c)'
    BY <1>8, <2>2, <2>5, <2>6 DEF StateIsSound
  <2>8. QED
    BY <2>2, <2>7
<1>9. cgThread' \in [CgThreads -> CgStates] /\ cgMessages' \in Nat
  BY <1>0 DEF CgTypeOK
<1>10. AnswersMatch'
  BY <1>0 DEF AnswersMatch
<1>11. \A x \in Children, i \in CgIds : x # s \/ i # id =>
           /\ cgResponses'[x][i] = cgResponses[x][i]
           /\ \A m : m[1] = i => (m \in cgInbox'[x] <=> m \in cgInbox[x])
  BY <1>2, <1>4, <1>5
<1>12. /\ \A m, n \in cgInbox'[s] : m[1] = id /\ n[1] = id => m = n
       /\ \A m \in cgInbox'[s] : m[1] = id => cgResponses'[s][id] = 0
  BY <1>6
<1>13. \A u \in CgThreads :
           cgThread'[u] = cgThread[u] /\ cgThread[u] \in SendStates \cup WaitStates =>
             (cgThread[u].s = s /\ cgThread[u].id = id => StateIsSound(cgThread[u])')
  BY <1>8
<1>14. s \in cgPool /\ (\A u \in CgThreads : ~Uses(cgThread'[u], s, id)) => Quiet(s, id)'
  BY <1>0, <1>7 DEF ThreadsAreSound
<1>15. UNCHANGED <<cgPool, cgProc, cgThread>>
  BY <1>0
<1>16. ThreadsMove(s, id)
  BY <1>15 DEF ThreadsMove
<1>17. QED
  BY <1>4, <1>5, <1>7, <1>9, <1>10, <1>11, <1>12, <1>13, <1>14, <1>15, <1>16, MailMoves

\* A child dies or its reader ends: nothing else changes.
LEMMA ChildStep ==
  ASSUME CgInv, UNCHANGED <<cgPool, cgInbox, cgResponses, cgThread, cgMessages, cgDelivered>>,
         cgProc' \in [Children -> {"none", "running", "dead"}],
         \A s \in Children : /\ cgProc'[s] = "none" <=> cgProc[s] = "none"
                             /\ cgProc'[s] = "running" => cgProc[s] = "running"
  PROVE  CgInv'
<1>0. /\ CgTypeOK /\ ChildrenNumbered /\ UsesDiffer /\ ThreadsAreSound
      /\ AnswersMatch /\ ChildrenAccounted
  BY DEF CgInv
<1>1. \A x, i, no : (Quiet(x, i)' <=> Quiet(x, i)) /\ (Only(x, i, no)' <=> Only(x, i, no))
  BY DEF Quiet, Only
<1>2. CgTypeOK'
  BY <1>0 DEF CgTypeOK
<1>3. ChildrenNumbered'
  <2>1. {s \in Children : cgProc'[s] # "none"} = {s \in Children : cgProc[s] # "none"}
    OBVIOUS
  <2>2. \A s \in Children : cgProc'[s] = "none" =>
          /\ s \notin cgPool' /\ \A id \in CgIds : Quiet(s, id)'
          /\ \A u \in CgThreads, id \in CgIds \cup {NoId} : ~Uses(cgThread'[u], s, id)
    BY <1>0, <1>1 DEF ChildrenNumbered
  <2>3. QED
    BY <1>0, <2>1, <2>2 DEF ChildrenNumbered
<1>4. UsesDiffer'
  BY <1>0 DEF UsesDiffer
<1>5. ThreadsAreSound'
  <2>1. ASSUME NEW u \in CgThreads
        PROVE  StateIsSound(cgThread[u])'
    <3>1. cgThread'[u] = cgThread[u] /\ StateIsSound(cgThread[u])
      BY <1>0 DEF ThreadsAreSound
    <3>2. cgThread[u] \in CloseStates => cgThread[u].close \in Children
      BY DEF CloseStates
    <3>3. QED
      BY <1>1, <3>1, <3>2 DEF StateIsSound
  <2>2. \A s \in cgPool', id \in CgIds :
          (\A u \in CgThreads : ~Uses(cgThread'[u], s, id)) => Quiet(s, id)'
    BY <1>0, <1>1 DEF ThreadsAreSound
  <2>3. QED
    BY <2>1, <2>2 DEF ThreadsAreSound
<1>6. AnswersMatch' /\ ChildrenAccounted'
  BY <1>0 DEF AnswersMatch, ChildrenAccounted
<1>7. QED
  BY <1>2, <1>3, <1>4, <1>5, <1>6 DEF CgInv

LEMMA CgStart == CgInit => CgInv
<1>0. SUFFICES ASSUME CgInit PROVE CgInv
  OBVIOUS
<1>1. /\ CgIdle \in CgStates /\ StateIsSound(CgIdle)
      /\ \A s, id : ~Uses(CgIdle, s, id)
  BY UsesNothing
<1>2. /\ cgPool = {} /\ cgDelivered = {} /\ cgMessages = 0
      /\ \A s \in Children : cgProc[s] = "none" /\ cgInbox[s] = {}
      /\ \A s \in Children, id \in CgIds : cgResponses[s][id] = 0
      /\ \A t \in CgThreads : cgThread[t] = CgIdle
  BY <1>0 DEF CgInit
<1>3. CgTypeOK
  BY <1>0, <1>1 DEF CgInit, CgTypeOK
<1>4. ChildrenNumbered
  <2>1. {s \in Children : cgProc[s] # "none"} = 1..0 /\ 0 \in 0..MaxChildren
    BY <1>2, CgAssumption
  <2>2. \A s \in Children, id \in CgIds : Quiet(s, id)
    BY <1>2 DEF Quiet
  <2>3. QED
    BY <1>1, <1>2, <2>1, <2>2 DEF ChildrenNumbered
<1>5. UsesDiffer
  BY <1>1, <1>2 DEF UsesDiffer
<1>6. ThreadsAreSound
  BY <1>1, <1>2 DEF ThreadsAreSound
<1>7. AnswersMatch
  BY <1>2 DEF AnswersMatch
<1>8. ChildrenAccounted
  <2>1. Cardinality(cgPool) = 0
    BY <1>2, FS_EmptySet
  <2>2. QED
    BY <1>2, <2>1, CgAssumption DEF ChildrenAccounted
<1>9. QED
  BY <1>3, <1>4, <1>5, <1>6, <1>7, <1>8 DEF CgInv

LEMMA CgStep == CgInv /\ [CgNext]_cgVars => CgInv'
<1>0. SUFFICES ASSUME CgInv, [CgNext]_cgVars PROVE CgInv'
  OBVIOUS
<1>1. CgTypeOK
  BY <1>0 DEF CgInv
<1>2. ASSUME NEW t \in CgThreads, ReapList(t, CgIdle) PROVE CgInv'
  BY <1>0, <1>2, ListStep
<1>3. ASSUME NEW t \in CgThreads, NEW id \in CgIds, ReapList(t, [at |-> "create", first |-> id])
      PROVE  CgInv'
  <2>1. [at |-> "create", first |-> id] \in CreateStates
    BY DEF CreateStates
  <2>2. QED
    BY <1>0, <1>3, <2>1, ListStep
<1>4. ASSUME NEW t \in CgThreads, NEW s \in cgPool, DeleteSession(t, s) PROVE CgInv'
  BY <1>0, <1>4, ListStep
<1>5. ASSUME NEW t \in CgThreads, NEW s \in Children, NEW id \in CgIds \cup {NoId},
             BeginMessage(t, s, id)
      PROVE  CgInv'
  <2>1. CASE cgProc[s] = "dead"
    BY <1>0, <1>5, <2>1, ListStep
  <2>2. CASE cgProc[s] # "dead"
    BY <1>0, <1>5, <2>2, BeginStep
  <2>3. QED
    BY <2>1, <2>2
<1>6. ASSUME NEW t \in CgThreads,
             \/ DropSession(t) \/ CloseChild(t) \/ CreateSession(t)
             \/ SendMessage(t) \/ TakeResponse(t) \/ GiveUp(t)
      PROVE  CgInv'
  BY <1>0, <1>6, DropStep, CloseStep, CreateStep, SendStep, TakeStep, GiveUpStep
<1>7. ASSUME NEW s \in Children, NEW m \in cgInbox[s], ReadAnswer(s, m) PROVE CgInv'
  BY <1>0, <1>7, ReadStep
<1>8. ASSUME NEW s \in Children, ReaderEnds(s) PROVE CgInv'
  <2>1. /\ UNCHANGED <<cgPool, cgInbox, cgResponses, cgThread, cgMessages, cgDelivered>>
        /\ cgProc' = cgProc
    BY <1>8 DEF ReaderEnds
  <2>2. QED
    BY <1>0, <1>1, <2>1, ChildStep DEF CgTypeOK
<1>9. ASSUME NEW s \in Children, ChildDies(s) PROVE CgInv'
  <2>1. /\ UNCHANGED <<cgPool, cgInbox, cgResponses, cgThread, cgMessages, cgDelivered>>
        /\ cgProc' \in [Children -> {"none", "running", "dead"}]
        /\ cgProc[s] = "running" /\ cgProc'[s] = "dead"
        /\ \A x \in Children : x # s => cgProc'[x] = cgProc[x]
    BY <1>1, <1>9 DEF ChildDies, CgTypeOK
  <2>2. QED
    BY <1>0, <2>1, ChildStep
<1>10. CASE UNCHANGED cgVars
  <2>1. /\ UNCHANGED <<cgPool, cgInbox, cgResponses, cgThread, cgMessages, cgDelivered>>
        /\ cgProc' = cgProc
    BY <1>10 DEF cgVars
  <2>2. QED
    BY <1>0, <1>1, <2>1, ChildStep DEF CgTypeOK
<1>11. QED
  BY <1>0, <1>2, <1>3, <1>4, <1>5, <1>6, <1>7, <1>8, <1>9, <1>10 DEF CgNext

\* Every child process of the connector gateway that runs is in the pool, which keeps
\* its limit, or about to be closed by the thread that took it out; and a caller is only
\* given the answer to its own message (business159_claude_gateway.py, SessionPool,
\* ChildSession.request and _read_stdout).
THEOREM SessionsStayAccounted == CgSpec => []SessionsAreAccounted
<1>1. CgInv => SessionsAreAccounted
  BY DEF CgInv, SessionsAreAccounted
<1>2. QED
  BY <1>1, CgStart, CgStep, PTL DEF CgSpec

----------------------------------------------------------------------------
\* StagedProposals: staged changes, their approval, application and revert.

\* Manifests, snapshots and the commands that work with them.
Contents == Stages \cup {Original, Torn}
FsManifests == [valid : BOOLEAN, approval : {"pending_review", "approved", "rejected"},
                applied : {"not_applied", "applied", "applied_verification_failed"}, snap : Nat]
Snapshots == [stage : Stages, files : [Files -> Contents \cup {NoCopy}]]
FsSteps == {"approve", "reject", "validate", "apply", "snapshot", "write", "check", "manifest"}
Commands == [at : FsSteps, stage : Stages, m : FsManifests, file : Files, snap : Nat, ok : BOOLEAN]

StagedTypeOK ==
  /\ fsRepo \in [Files -> Contents]
  /\ fsManifest \in [Stages -> {Unstaged, Unreadable} \cup FsManifests]
  /\ fsSnaps \in Seq(Snapshots)
  /\ fsCmd \in [FsCommands -> {NoFsCommand} \cup Commands]

\* The verdict of validate_proposal() is one or the other.
AcceptsIsKnown == fsAccepts \in BOOLEAN

\* The original of a file is in some snapshot.
Kept(f) == \E n \in DOMAIN fsSnaps : fsSnaps[n].files[f] = Original

\* What a manifest of a proposal, on disk or in a command's hands, says is true.
ManifestIsTrue(s, m) ==
  /\ m.approval = "approved" => s \in fsGranted
  /\ m.applied = "applied" =>
       /\ m.snap \in DOMAIN fsSnaps /\ fsSnaps[m.snap].stage = s
       /\ \A f \in Files : fsSnaps[m.snap].files[f] # NoCopy /\ fsRepo[f] # Original

\* What a command has done when it has come to its step.
CommandIsSound(c) ==
  /\ ManifestIsTrue(c.stage, c.m)
  /\ c.at \in {"apply", "snapshot", "write", "check"} => c.stage \in fsGranted
  /\ c.at = "apply" => c.file = 1
  /\ c.at \in {"snapshot", "write", "check"} =>
       c.snap \in DOMAIN fsSnaps /\ fsSnaps[c.snap].stage = c.stage
  /\ c.at = "snapshot" => \A f \in Files : f >= c.file => fsSnaps[c.snap].files[f] = NoCopy
  /\ \A f \in Files : c.at \in {"write", "check"} \/ (c.at = "snapshot" /\ f < c.file) =>
       fsSnaps[c.snap].files[f] # NoCopy /\ Kept(f)
  /\ \A f \in Files : c.at \in {"write", "check"} /\ (f < c.file \/ (c.at = "check" /\ f = c.file)) =>
       fsRepo[f] # Original

ManifestsAreTrue == \A s \in Stages : fsManifest[s] \in FsManifests => ManifestIsTrue(s, fsManifest[s])
CommandsAreSound == \A p \in FsCommands : fsCmd[p] # NoFsCommand => CommandIsSound(fsCmd[p])

\* Two commands never copy into the same snapshot.
SnapshotsAreOwn ==
  \A p, q \in FsCommands :
    p # q /\ fsCmd[p].at = "snapshot" /\ fsCmd[q].at = "snapshot" => fsCmd[p].snap # fsCmd[q].snap

StagedInv ==
  StagedTypeOK /\ OriginalKept /\ OnlyApprovedIsWritten /\ ManifestsAreTrue /\ CommandsAreSound
    /\ SnapshotsAreOwn
----------------------------------------------------------------------------
\* A proposal once approved stays approved in history, a changed file never becomes
\* the original again, and what a snapshot holds stays in it.
Grows ==
  /\ fsGranted \subseteq fsGranted'
  /\ \A f \in Files : fsRepo[f] # Original => fsRepo'[f] # Original
  /\ DOMAIN fsSnaps \subseteq DOMAIN fsSnaps'
  /\ \A n \in DOMAIN fsSnaps : fsSnaps'[n].stage = fsSnaps[n].stage
  /\ \A n \in DOMAIN fsSnaps, f \in Files :
       fsSnaps[n].files[f] # NoCopy => fsSnaps'[n].files[f] = fsSnaps[n].files[f]

LEMMA KeptStays ==
  ASSUME Grows, NEW f \in Files, Kept(f)
  PROVE  Kept(f)'
BY StagedAssumption DEF Grows, Kept

LEMMA ManifestStaysTrue ==
  ASSUME Grows, NEW s \in Stages, NEW m \in FsManifests, ManifestIsTrue(s, m)
  PROVE  ManifestIsTrue(s, m)'
<1>1. CASE m.applied = "applied"
  <2>1. /\ m.snap \in DOMAIN fsSnaps' /\ fsSnaps'[m.snap].stage = s
        /\ \A f \in Files : fsSnaps'[m.snap].files[f] # NoCopy /\ fsRepo'[f] # Original
    BY <1>1 DEF Grows, ManifestIsTrue
  <2>2. QED
    BY <2>1 DEF Grows, ManifestIsTrue
<1>2. CASE m.applied # "applied"
  BY <1>2 DEF Grows, ManifestIsTrue
<1>3. QED
  BY <1>1, <1>2

LEMMA CommandStaysSound ==
  ASSUME Grows, NEW c \in Commands, CommandIsSound(c),
         c.at = "snapshot" => fsSnaps'[c.snap] = fsSnaps[c.snap]
  PROVE  CommandIsSound(c)'
<1>1. c.stage \in Stages /\ c.m \in FsManifests
  BY DEF Commands
<1>2. ManifestIsTrue(c.stage, c.m)'
  BY <1>1, ManifestStaysTrue DEF CommandIsSound
<1>3. \A f \in Files : Kept(f) => Kept(f)'
  BY KeptStays
<1>4. c.at \in {"snapshot", "write", "check"} =>
        c.snap \in DOMAIN fsSnaps' /\ fsSnaps'[c.snap].stage = c.stage
  BY DEF CommandIsSound, Grows
<1>5. c.at = "snapshot" => \A f \in Files : f >= c.file => fsSnaps'[c.snap].files[f] = NoCopy
  BY DEF CommandIsSound
<1>6. \A f \in Files : c.at \in {"write", "check"} \/ (c.at = "snapshot" /\ f < c.file) =>
        fsSnaps'[c.snap].files[f] # NoCopy /\ Kept(f)'
  BY <1>3 DEF CommandIsSound, Grows
<1>7. \A f \in Files : c.at \in {"write", "check"} /\ (f < c.file \/ (c.at = "check" /\ f = c.file)) =>
        fsRepo'[f] # Original
  BY DEF CommandIsSound, Grows
<1>8. QED
  BY <1>2, <1>4, <1>5, <1>6, <1>7 DEF CommandIsSound, Grows

\* A step of one command, which ends or comes to what c stands for.
LEMMA CommandMoves ==
  ASSUME StagedInv, Grows, NEW p \in FsCommands, NEW c \in {NoFsCommand} \cup Commands,
         fsCmd' = [fsCmd EXCEPT ![p] = c], c # NoFsCommand => CommandIsSound(c)',
         \A q \in FsCommands : q # p /\ fsCmd[q].at = "snapshot" =>
           fsSnaps'[fsCmd[q].snap] = fsSnaps[fsCmd[q].snap],
         c.at = "snapshot" => \/ fsCmd[p].at = "snapshot" /\ c.snap = fsCmd[p].snap
                              \/ c.snap \notin DOMAIN fsSnaps
  PROVE  /\ fsCmd' \in [FsCommands -> {NoFsCommand} \cup Commands]
         /\ CommandsAreSound' /\ SnapshotsAreOwn'
<1>0. /\ fsCmd \in [FsCommands -> {NoFsCommand} \cup Commands]
      /\ CommandsAreSound /\ SnapshotsAreOwn
  BY DEF StagedInv, StagedTypeOK
<1>1. /\ fsCmd' \in [FsCommands -> {NoFsCommand} \cup Commands] /\ fsCmd'[p] = c
      /\ \A q \in FsCommands : q # p => fsCmd'[q] = fsCmd[q]
  BY <1>0
<1>2. NoFsCommand.at = "idle"
  BY DEF NoFsCommand
<1>3. CommandsAreSound'
  <2>1. SUFFICES ASSUME NEW q \in FsCommands, fsCmd'[q] # NoFsCommand PROVE CommandIsSound(fsCmd[q])'
    BY DEF CommandsAreSound
  <2>2. CASE q = p
    <3>1. fsCmd'[q] = c /\ CommandIsSound(c)'
      BY <1>1, <2>1, <2>2
    <3>2. QED
      BY <3>1 DEF CommandIsSound, ManifestIsTrue
  <2>3. CASE q # p
    <3>1. PICK d \in Commands : d = fsCmd[q]
      BY <1>0, <1>1, <2>1, <2>3
    <3>2. fsCmd'[q] = d /\ CommandIsSound(d)
      BY <1>0, <1>1, <2>1, <2>3, <3>1 DEF CommandsAreSound
    <3>3. CommandIsSound(d)'
      BY <2>3, <3>1, <3>2, CommandStaysSound
    <3>4. QED
      BY <3>2, <3>3 DEF CommandIsSound, ManifestIsTrue
  <2>4. QED
    BY <2>2, <2>3
<1>4. \A q \in FsCommands : fsCmd[q].at = "snapshot" => fsCmd[q].snap \in DOMAIN fsSnaps
  BY <1>0, <1>2 DEF CommandsAreSound, CommandIsSound
<1>5. SnapshotsAreOwn'
  BY <1>0, <1>1, <1>4 DEF SnapshotsAreOwn
<1>6. QED
  BY <1>1, <1>3, <1>5

\* A step that leaves the files and the manifests alone.
LEMMA CommandGoesOn ==
  ASSUME StagedInv, NEW p \in FsCommands, NEW c \in {NoFsCommand} \cup Commands,
         fsCmd' = [fsCmd EXCEPT ![p] = c], UNCHANGED <<fsRepo, fsManifest, fsSnaps>>,
         fsGranted \subseteq fsGranted', c # NoFsCommand => CommandIsSound(c)',
         c.at # "snapshot"
  PROVE  StagedInv'
<1>0. StagedTypeOK /\ OriginalKept /\ OnlyApprovedIsWritten /\ ManifestsAreTrue
  BY DEF StagedInv
<1>1. Grows
  BY DEF Grows
<1>2. /\ fsCmd' \in [FsCommands -> {NoFsCommand} \cup Commands]
      /\ CommandsAreSound' /\ SnapshotsAreOwn'
  BY <1>1, CommandMoves
<1>3. StagedTypeOK' /\ OriginalKept' /\ OnlyApprovedIsWritten'
  BY <1>0, <1>2 DEF StagedTypeOK, OriginalKept, OnlyApprovedIsWritten
<1>4. ManifestsAreTrue'
  BY <1>0, <1>1, ManifestStaysTrue DEF ManifestsAreTrue, ManifestIsTrue
<1>5. QED
  BY <1>2, <1>3, <1>4 DEF StagedInv

\* Continue() names a command of the same proposal.
LEMMA ContinueMoves ==
  ASSUME StagedInv, NEW p \in FsCommands, fsCmd[p] # NoFsCommand, NEW step \in FsSteps,
         NEW m \in FsManifests, Continue(p, step, m)
  PROVE  \E c \in Commands : /\ fsCmd' = [fsCmd EXCEPT ![p] = c] /\ c.at = step /\ c.m = m
                             /\ c.stage = fsCmd[p].stage /\ c.file = fsCmd[p].file
                             /\ c.snap = fsCmd[p].snap
<1>1. PICK d \in Commands : d = fsCmd[p]
  BY DEF StagedInv, StagedTypeOK
<1>2. [d EXCEPT !.at = step, !.m = m] \in Commands
  BY DEF Commands
<1>3. PICK c \in Commands : c = [d EXCEPT !.at = step, !.m = m]
  BY <1>2
<1>4. c.at = step /\ c.m = m /\ c.stage = d.stage /\ c.file = d.file /\ c.snap = d.snap
  BY <1>3 DEF Commands
<1>5. fsCmd' = [fsCmd EXCEPT ![p] = c]
  BY <1>1, <1>3 DEF Continue, StagedInv, StagedTypeOK
<1>6. QED
  BY <1>1, <1>4, <1>5

\* Commands begin with the manifest as it is.
LEMMA StagedBeginStep ==
  ASSUME StagedInv, NEW p \in FsCommands, NEW s \in Stages,
         NEW kind \in {"approve", "reject", "validate", "apply"}, BeginFsCommand(p, kind, s)
  PROVE  StagedInv'
<1>0. StagedTypeOK /\ ManifestsAreTrue
  BY DEF StagedInv
<1>1. PICK m \in FsManifests : m = fsManifest[s]
  BY <1>0 DEF BeginFsCommand, StagedTypeOK
<1>2. PICK c \in Commands :
        c = [at |-> kind, stage |-> s, m |-> m, file |-> 1, snap |-> 0, ok |-> TRUE]
  BY DEF Commands, FsSteps, Files
<1>3. c.at = kind /\ c.stage = s /\ c.m = m /\ c.file = 1
  BY <1>2
<1>4. /\ fsCmd' = [fsCmd EXCEPT ![p] = c]
      /\ UNCHANGED <<fsRepo, fsManifest, fsSnaps, fsGranted>>
      /\ kind = "apply" => m.approval = "approved"
  BY <1>1, <1>2 DEF BeginFsCommand, MayBegin
<1>5. ManifestIsTrue(s, m)
  BY <1>0, <1>1 DEF ManifestsAreTrue
<1>6. CommandIsSound(c)'
  BY <1>3, <1>4, <1>5 DEF CommandIsSound, ManifestIsTrue
<1>7. QED
  BY <1>3, <1>4, <1>6, CommandGoesOn

\* The decision, or a validation, in the command's copy of the manifest.
LEMMA DecideStep ==
  ASSUME StagedInv, NEW p \in FsCommands,
         RecordApproval(p) \/ Revalidate(p) \/ (BeginSnapshot(p) /\ ~fsAccepts)
  PROVE  StagedInv'
<1>0. StagedTypeOK /\ CommandsAreSound
  BY DEF StagedInv
<1>1. fsCmd[p].at \in {"approve", "reject", "validate", "apply"} /\ fsCmd[p] # NoFsCommand
  BY DEF RecordApproval, Revalidate, BeginSnapshot, NoFsCommand
<1>2. PICK d \in Commands : d = fsCmd[p]
  BY <1>0, <1>1 DEF StagedTypeOK
<1>3. CommandIsSound(d) /\ d.m \in FsManifests /\ d.stage \in Stages
  BY <1>0, <1>1, <1>2 DEF CommandsAreSound, Commands
<1>4. PICK m \in FsManifests :
        /\ Continue(p, "manifest", m) /\ UNCHANGED <<fsRepo, fsManifest, fsSnaps>>
        /\ m.applied = d.m.applied /\ m.snap = d.m.snap /\ fsGranted \subseteq fsGranted'
        /\ m.approval = "approved" => d.m.approval = "approved" \/ d.stage \in fsGranted'
  <2>1. CASE RecordApproval(p)
    <3>1. PICK decision \in {"approved", "rejected"} :
            /\ Continue(p, "manifest", [d.m EXCEPT !.approval = decision])
            /\ UNCHANGED <<fsRepo, fsManifest, fsSnaps>> /\ fsGranted \subseteq fsGranted'
            /\ decision = "approved" => d.stage \in fsGranted'
      BY <1>2, <2>1 DEF RecordApproval
    <3>2. PICK m \in FsManifests : m = [d.m EXCEPT !.approval = decision]
      BY <1>3 DEF FsManifests
    <3>3. m.applied = d.m.applied /\ m.snap = d.m.snap /\ m.approval = decision
      BY <1>3, <3>2 DEF FsManifests
    <3>4. QED
      BY <3>1, <3>2, <3>3
  <2>2. CASE \/ Revalidate(p) /\ fsAccepts
    <3>1. PICK m \in FsManifests : m = [d.m EXCEPT !.valid = TRUE]
      BY <1>3 DEF FsManifests
    <3>2. m.applied = d.m.applied /\ m.snap = d.m.snap /\ m.approval = d.m.approval
      BY <1>3, <3>1 DEF FsManifests
    <3>3. Continue(p, "manifest", m) /\ UNCHANGED <<fsRepo, fsManifest, fsSnaps, fsGranted>>
      BY <1>2, <2>2, <3>1 DEF Revalidate
    <3>4. QED
      BY <3>1, <3>2, <3>3
  <2>3. CASE ~fsAccepts /\ (Revalidate(p) \/ BeginSnapshot(p))
    <3>1. Invalidated(d.m) \in FsManifests
      BY <1>3 DEF FsManifests, Invalidated
    <3>2. PICK m \in FsManifests : m = Invalidated(d.m)
      BY <3>1
    <3>3. m.applied = d.m.applied /\ m.snap = d.m.snap /\ m.approval # "approved"
      BY <1>3, <3>2 DEF FsManifests, Invalidated
    <3>4. Continue(p, "manifest", m) /\ UNCHANGED <<fsRepo, fsManifest, fsSnaps, fsGranted>>
      BY <1>2, <2>3, <3>2 DEF Revalidate, BeginSnapshot
    <3>5. QED
      BY <3>2, <3>3, <3>4
  <2>4. QED
    BY <2>1, <2>2, <2>3
<1>5. PICK c \in Commands : /\ fsCmd' = [fsCmd EXCEPT ![p] = c] /\ c.at = "manifest" /\ c.m = m
                            /\ c.stage = d.stage
  BY <1>1, <1>2, <1>4, ContinueMoves DEF FsSteps
<1>6. CommandIsSound(c)'
  <2>1. ManifestIsTrue(d.stage, d.m)
    BY <1>3 DEF CommandIsSound
  <2>2. ManifestIsTrue(d.stage, m)'
    BY <1>4, <2>1 DEF ManifestIsTrue
  <2>3. QED
    BY <1>5, <2>2 DEF CommandIsSound, ManifestIsTrue
<1>7. QED
  BY <1>4, <1>5, <1>6, CommandGoesOn

\* A file of the repository is written, or torn.
LEMMA RepoIsWritten ==
  ASSUME StagedInv, NEW p \in FsCommands, NEW d \in Commands, d = fsCmd[p], d.at = "write",
         NEW v \in {d.stage, Torn}, fsRepo' = [fsRepo EXCEPT ![d.file] = v],
         UNCHANGED <<fsManifest, fsSnaps, fsGranted>>,
         NEW c \in {NoFsCommand} \cup Commands, fsCmd' = [fsCmd EXCEPT ![p] = c],
         c # NoFsCommand => CommandIsSound(c)', c.at # "snapshot"
  PROVE  StagedInv'
<1>0. /\ StagedTypeOK /\ OriginalKept /\ OnlyApprovedIsWritten /\ ManifestsAreTrue
      /\ CommandsAreSound
  BY DEF StagedInv
<1>1. d # NoFsCommand /\ d.stage \in Stages /\ d.file \in Files
  BY DEF NoFsCommand, Commands
<1>2. CommandIsSound(d)
  BY <1>0, <1>1 DEF CommandsAreSound
<1>3. d.stage \in fsGranted /\ Kept(d.file)
  BY <1>1, <1>2 DEF CommandIsSound
<1>4. /\ v \in Contents /\ v # Original /\ fsRepo' \in [Files -> Contents] /\ fsRepo'[d.file] = v
      /\ \A f \in Files : f # d.file => fsRepo'[f] = fsRepo[f]
  BY <1>0, <1>1, StagedAssumption DEF StagedTypeOK, Contents
<1>5. Grows
  BY <1>4 DEF Grows
<1>6. /\ fsCmd' \in [FsCommands -> {NoFsCommand} \cup Commands]
      /\ CommandsAreSound' /\ SnapshotsAreOwn'
  BY <1>5, CommandMoves
<1>7. StagedTypeOK'
  BY <1>0, <1>4, <1>6 DEF StagedTypeOK
<1>8. OriginalKept'
  BY <1>0, <1>3, <1>4 DEF OriginalKept, Kept
<1>9. OnlyApprovedIsWritten'
  BY <1>0, <1>3, <1>4 DEF OnlyApprovedIsWritten
<1>10. ManifestsAreTrue'
  BY <1>0, <1>5, ManifestStaysTrue DEF ManifestsAreTrue, ManifestIsTrue
<1>11. QED
  BY <1>6, <1>7, <1>8, <1>9, <1>10 DEF StagedInv

LEMMA StagedApplyStep ==
  ASSUME StagedInv, NEW p \in FsCommands, ApplyChange(p)
  PROVE  StagedInv'
<1>0. StagedTypeOK /\ CommandsAreSound
  BY DEF StagedInv
<1>1. fsCmd[p].at = "write" /\ fsCmd[p] # NoFsCommand
  BY DEF ApplyChange, NoFsCommand
<1>2. PICK d \in Commands : d = fsCmd[p]
  BY <1>0, <1>1 DEF StagedTypeOK
<1>3. CommandIsSound(d) /\ d.m \in FsManifests /\ d.stage \in Stages /\ d.file \in Files
  BY <1>0, <1>1, <1>2 DEF CommandsAreSound, Commands
<1>4. /\ fsRepo' = [fsRepo EXCEPT ![d.file] = d.stage] /\ Continue(p, "check", d.m)
      /\ UNCHANGED <<fsManifest, fsSnaps, fsGranted>>
  BY <1>2 DEF ApplyChange
<1>5. PICK c \in Commands : /\ fsCmd' = [fsCmd EXCEPT ![p] = c] /\ c.at = "check" /\ c.m = d.m
                            /\ c.stage = d.stage /\ c.file = d.file /\ c.snap = d.snap
  BY <1>1, <1>2, <1>3, <1>4, ContinueMoves DEF FsSteps
<1>6. /\ fsRepo'[d.file] # Original
      /\ \A f \in Files : fsRepo[f] # Original => fsRepo'[f] # Original
  BY <1>0, <1>3, <1>4, StagedAssumption DEF StagedTypeOK
<1>7. Grows
  BY <1>4, <1>6 DEF Grows
<1>8. CommandIsSound(d)'
  BY <1>1, <1>2, <1>3, <1>7, CommandStaysSound
<1>9. CommandIsSound(c)'
  BY <1>1, <1>2, <1>5, <1>6, <1>8 DEF CommandIsSound, ManifestIsTrue
<1>10. QED
  BY <1>1, <1>2, <1>4, <1>5, <1>9, RepoIsWritten

\* The last check makes the report.
LEMMA CheckStep ==
  ASSUME StagedInv, NEW p \in FsCommands, CheckChange(p)
  PROVE  StagedInv'
<1>0. StagedTypeOK /\ CommandsAreSound
  BY DEF StagedInv
<1>1. fsCmd[p].at = "check" /\ fsCmd[p] # NoFsCommand
  BY DEF CheckChange, NoFsCommand
<1>2. PICK d \in Commands : d = fsCmd[p]
  BY <1>0, <1>1 DEF StagedTypeOK
<1>3. /\ CommandIsSound(d) /\ d.m \in FsManifests /\ d.stage \in Stages /\ d.file \in Files
      /\ d.snap \in Nat
  BY <1>0, <1>1, <1>2 DEF CommandsAreSound, Commands
<1>4. Verified(d) \in {"applied", "applied_verification_failed"}
  BY DEF Verified
<1>5. UNCHANGED <<fsRepo, fsManifest, fsSnaps, fsGranted>>
  BY DEF CheckChange
<1>6. CASE d.file = 2
  <2>1. PICK m \in FsManifests :
          m = [d.m EXCEPT !.valid = TRUE, !.applied = Verified(d), !.snap = d.snap]
    BY <1>3, <1>4 DEF FsManifests
  <2>2. m.approval = d.m.approval /\ m.snap = d.snap
    BY <1>3, <2>1 DEF FsManifests
  <2>3. PICK c \in Commands : c = [d EXCEPT !.at = "manifest", !.m = m]
    <3>1. [d EXCEPT !.at = "manifest", !.m = m] \in Commands
      BY DEF Commands, FsSteps
    <3>2. QED
      BY <3>1
  <2>4. c.at = "manifest" /\ c.m = m /\ c.stage = d.stage
    BY <2>3 DEF Commands
  <2>5. fsCmd' = [fsCmd EXCEPT ![p] = c]
    BY <1>2, <1>6, <2>1, <2>3 DEF CheckChange
  <2>6. \A f \in Files : f < d.file \/ f = d.file
    BY <1>6 DEF Files
  <2>7. ManifestIsTrue(d.stage, m)
    BY <1>1, <1>2, <1>3, <2>2, <2>6 DEF CommandIsSound, ManifestIsTrue
  <2>8. CommandIsSound(c)'
    BY <1>5, <2>4, <2>7 DEF CommandIsSound, ManifestIsTrue
  <2>9. QED
    BY <1>5, <2>4, <2>5, <2>8, CommandGoesOn
<1>7. CASE d.file # 2
  <2>1. d.file = 1 /\ 2 \in Files
    BY <1>3, <1>7 DEF Files
  <2>2. [d EXCEPT !.at = "write", !.file = 2, !.ok = (Verified(d) = "applied")] \in Commands
    BY <2>1 DEF Commands, FsSteps
  <2>3. PICK c \in Commands : c = [d EXCEPT !.at = "write", !.file = 2, !.ok = (Verified(d) = "applied")]
    BY <2>2
  <2>4. c.at = "write" /\ c.m = d.m /\ c.stage = d.stage /\ c.file = 2 /\ c.snap = d.snap
    BY <2>3 DEF Commands
  <2>5. fsCmd' = [fsCmd EXCEPT ![p] = c]
    BY <1>2, <1>7, <2>3 DEF CheckChange
  <2>6. \A f \in Files : f < 2 => f = 1
    BY DEF Files
  <2>7. CommandIsSound(c)
    BY <1>1, <1>2, <1>3, <2>1, <2>4, <2>6 DEF CommandIsSound
  <2>8. CommandIsSound(c)'
    BY <1>5, <2>7 DEF CommandIsSound, ManifestIsTrue, Kept
  <2>9. QED
    BY <1>5, <2>4, <2>5, <2>8, CommandGoesOn
<1>8. QED
  BY <1>6, <1>7

\* The snapshots of a step, one of which is new or gets a copy.
LEMMA SnapshotMoves ==
  ASSUME StagedInv, Grows, fsSnaps' \in Seq(Snapshots),
         UNCHANGED <<fsRepo, fsManifest, fsGranted>>,
         \A n \in DOMAIN fsSnaps', f \in Files :
           \/ n \in DOMAIN fsSnaps /\ fsSnaps'[n].files[f] = fsSnaps[n].files[f]
           \/ fsSnaps'[n].files[f] \in {NoCopy, fsRepo[f]},
         fsCmd' \in [FsCommands -> {NoFsCommand} \cup Commands],
         CommandsAreSound', SnapshotsAreOwn'
  PROVE  StagedInv'
<1>0. StagedTypeOK /\ OriginalKept /\ OnlyApprovedIsWritten /\ ManifestsAreTrue
  BY DEF StagedInv
<1>1. StagedTypeOK'
  BY <1>0 DEF StagedTypeOK
<1>2. OriginalKept'
  <2>1. SUFFICES ASSUME NEW f \in Files, fsRepo[f] # Original PROVE Kept(f)'
    BY DEF OriginalKept, Kept
  <2>2. Kept(f)
    BY <1>0, <2>1 DEF OriginalKept, Kept
  <2>3. QED
    BY <2>2, KeptStays
<1>3. OnlyApprovedIsWritten'
  <2>1. SUFFICES ASSUME NEW f \in Files, NEW n \in DOMAIN fsSnaps'
                 PROVE  /\ fsRepo[f] \in fsGranted \cup {Original, Torn, NoCopy}
                        /\ fsSnaps'[n].files[f] \in fsGranted \cup {Original, Torn, NoCopy}
    <3>1. \A f \in Files : fsRepo[f] \in fsGranted \cup {Original, Torn, NoCopy}
      BY <1>0 DEF OnlyApprovedIsWritten
    <3>2. \A f \in Files, n \in DOMAIN fsSnaps' :
            fsSnaps'[n].files[f] \in fsGranted \cup {Original, Torn, NoCopy}
      BY <2>1
    <3>3. QED
      BY <3>1, <3>2 DEF OnlyApprovedIsWritten
  <2>2. fsRepo[f] \in fsGranted \cup {Original, Torn, NoCopy}
    BY <1>0 DEF OnlyApprovedIsWritten
  <2>3. n \in DOMAIN fsSnaps => fsSnaps[n].files[f] \in fsGranted \cup {Original, Torn, NoCopy}
    BY <1>0 DEF OnlyApprovedIsWritten
  <2>4. QED
    BY <2>2, <2>3
<1>4. ManifestsAreTrue'
  BY <1>0, ManifestStaysTrue DEF ManifestsAreTrue, ManifestIsTrue
<1>5. QED
  BY <1>1, <1>2, <1>3, <1>4 DEF StagedInv

\* apply_stage() makes a directory of its own.
LEMMA SnapshotBegins ==
  ASSUME StagedInv, NEW p \in FsCommands, BeginSnapshot(p), fsAccepts
  PROVE  StagedInv'
<1>0. StagedTypeOK /\ CommandsAreSound
  BY DEF StagedInv
<1>1. fsCmd[p].at = "apply" /\ fsCmd[p] # NoFsCommand
  BY DEF BeginSnapshot, NoFsCommand
<1>2. PICK d \in Commands : d = fsCmd[p]
  BY <1>0, <1>1 DEF StagedTypeOK
<1>3. CommandIsSound(d) /\ d.m \in FsManifests /\ d.stage \in Stages /\ d.file \in Files
  BY <1>0, <1>1, <1>2 DEF CommandsAreSound, Commands
<1>4. PICK k \in Nat : k = Len(fsSnaps) /\ DOMAIN fsSnaps = 1..k
  BY <1>0 DEF StagedTypeOK
<1>5. PICK new \in Snapshots : new = [stage |-> d.stage, files |-> [f \in Files |-> NoCopy]]
  BY <1>3 DEF Snapshots
<1>6. new.stage = d.stage /\ \A f \in Files : new.files[f] = NoCopy
  BY <1>5
<1>7. /\ fsSnaps' = Append(fsSnaps, new) /\ UNCHANGED <<fsRepo, fsManifest, fsGranted>>
      /\ fsCmd' = [fsCmd EXCEPT ![p].at = "snapshot", ![p].snap = k + 1]
  BY <1>2, <1>4, <1>5 DEF BeginSnapshot
<1>8. /\ fsSnaps' \in Seq(Snapshots) /\ DOMAIN fsSnaps' = 1..(k + 1) /\ fsSnaps'[k + 1] = new
      /\ \A n \in 1..k : fsSnaps'[n] = fsSnaps[n]
  BY <1>0, <1>4, <1>7 DEF StagedTypeOK
<1>9. PICK c \in Commands : c = [d EXCEPT !.at = "snapshot", !.snap = k + 1]
  <2>1. PICK next \in Nat : next = k + 1
    OBVIOUS
  <2>2. [d EXCEPT !.at = "snapshot", !.snap = next] \in Commands
    BY DEF Commands, FsSteps
  <2>3. QED
    BY <2>1, <2>2
<1>10. c.at = "snapshot" /\ c.snap = k + 1 /\ c.stage = d.stage /\ c.m = d.m /\ c.file = d.file
  BY <1>9 DEF Commands
<1>11. fsCmd' = [fsCmd EXCEPT ![p] = c]
  BY <1>0, <1>2, <1>7, <1>9 DEF StagedTypeOK
<1>12. Grows
  BY <1>4, <1>7, <1>8 DEF Grows
<1>13. CommandIsSound(c)'
  <2>1. ManifestIsTrue(d.stage, d.m)' /\ d.stage \in fsGranted
    BY <1>1, <1>2, <1>3, <1>12, ManifestStaysTrue DEF CommandIsSound
  <2>2. c.snap \in DOMAIN fsSnaps' /\ fsSnaps'[c.snap] = new
    BY <1>8, <1>10
  <2>3. c.file = 1
    BY <1>1, <1>2, <1>3, <1>10 DEF CommandIsSound
  <2>4. QED
    BY <1>6, <1>7, <1>10, <2>1, <2>2, <2>3 DEF CommandIsSound, ManifestIsTrue, Files
<1>14. /\ fsCmd' \in [FsCommands -> {NoFsCommand} \cup Commands]
       /\ CommandsAreSound' /\ SnapshotsAreOwn'
  <2>1. \A q \in FsCommands : fsCmd[q].at = "snapshot" => fsCmd[q].snap \in 1..k
    BY <1>0, <1>4 DEF CommandsAreSound, CommandIsSound, NoFsCommand
  <2>2. \A q \in FsCommands : q # p /\ fsCmd[q].at = "snapshot" =>
          fsSnaps'[fsCmd[q].snap] = fsSnaps[fsCmd[q].snap]
    BY <1>8, <2>1
  <2>3. c.snap \notin DOMAIN fsSnaps
    BY <1>4, <1>10
  <2>4. QED
    BY <1>11, <1>12, <1>13, <2>2, <2>3, CommandMoves
<1>15. \A n \in DOMAIN fsSnaps', f \in Files :
         \/ n \in DOMAIN fsSnaps /\ fsSnaps'[n].files[f] = fsSnaps[n].files[f]
         \/ fsSnaps'[n].files[f] \in {NoCopy, fsRepo[f]}
  BY <1>4, <1>6, <1>8
<1>16. QED
  BY <1>7, <1>8, <1>12, <1>14, <1>15, SnapshotMoves

\* snapshot_change() copies a file that the snapshot does not have yet.
LEMMA SnapshotStep ==
  ASSUME StagedInv, NEW p \in FsCommands, SnapshotChange(p)
  PROVE  StagedInv'
<1>0. StagedTypeOK /\ OriginalKept /\ CommandsAreSound /\ SnapshotsAreOwn
  BY DEF StagedInv
<1>1. fsCmd[p].at = "snapshot" /\ fsCmd[p] # NoFsCommand
  BY DEF SnapshotChange, NoFsCommand
<1>2. PICK d \in Commands : d = fsCmd[p]
  BY <1>0, <1>1 DEF StagedTypeOK
<1>3. CommandIsSound(d) /\ d.m \in FsManifests /\ d.stage \in Stages /\ d.file \in Files
  BY <1>0, <1>1, <1>2 DEF CommandsAreSound, Commands
<1>4. /\ d.snap \in DOMAIN fsSnaps /\ fsSnaps[d.snap].stage = d.stage /\ d.stage \in fsGranted
      /\ \A f \in Files : f >= d.file => fsSnaps[d.snap].files[f] = NoCopy
      /\ \A f \in Files : f < d.file => fsSnaps[d.snap].files[f] # NoCopy /\ Kept(f)
  BY <1>1, <1>2, <1>3 DEF CommandIsSound
<1>5. PICK old \in Snapshots : old = fsSnaps[d.snap]
  BY <1>0, <1>4 DEF StagedTypeOK
<1>6. fsRepo[d.file] \in Contents /\ fsRepo[d.file] # NoCopy
  BY <1>0, <1>3, StagedAssumption DEF StagedTypeOK, Contents
<1>7. [old EXCEPT !.files[d.file] = fsRepo[d.file]] \in Snapshots
  BY <1>3, <1>6 DEF Snapshots
<1>8. PICK new \in Snapshots : new = [old EXCEPT !.files[d.file] = fsRepo[d.file]]
  BY <1>7
<1>9. /\ new.stage = old.stage /\ new.files[d.file] = fsRepo[d.file]
      /\ \A f \in Files : f # d.file => new.files[f] = old.files[f]
  BY <1>3, <1>8 DEF Snapshots
<1>10. /\ fsSnaps' = [fsSnaps EXCEPT ![d.snap] = new]
       /\ UNCHANGED <<fsRepo, fsManifest, fsGranted>>
  BY <1>2, <1>5, <1>8 DEF SnapshotChange
<1>11. /\ fsSnaps' \in Seq(Snapshots) /\ DOMAIN fsSnaps' = DOMAIN fsSnaps
       /\ fsSnaps'[d.snap] = new
       /\ \A n \in DOMAIN fsSnaps : n # d.snap => fsSnaps'[n] = fsSnaps[n]
  BY <1>0, <1>4, <1>10 DEF StagedTypeOK
<1>12. old.files[d.file] = NoCopy
  BY <1>3, <1>4, <1>5 DEF Files
<1>13. Grows
  <2>1. \A n \in DOMAIN fsSnaps : fsSnaps'[n].stage = fsSnaps[n].stage
    BY <1>5, <1>9, <1>11
  <2>2. \A n \in DOMAIN fsSnaps, f \in Files :
          fsSnaps[n].files[f] # NoCopy => fsSnaps'[n].files[f] = fsSnaps[n].files[f]
    BY <1>5, <1>9, <1>11, <1>12
  <2>3. QED
    BY <1>10, <1>11, <2>1, <2>2 DEF Grows
<1>14. Kept(d.file)'
  <2>1. CASE fsRepo[d.file] = Original
    BY <1>4, <1>9, <1>11, <2>1 DEF Kept
  <2>2. CASE fsRepo[d.file] # Original
    <3>1. Kept(d.file)
      BY <1>0, <1>3, <2>2 DEF OriginalKept, Kept
    <3>2. QED
      BY <1>3, <1>13, <3>1, KeptStays
  <2>3. QED
    BY <2>1, <2>2
<1>15. \A f \in Files : f < d.file \/ f = d.file => new.files[f] # NoCopy /\ Kept(f)'
  <2>1. \A f \in Files : f < d.file => f # d.file
    BY <1>3 DEF Files
  <2>2. \A f \in Files : Kept(f) => Kept(f)'
    BY <1>13, KeptStays
  <2>3. QED
    BY <1>4, <1>5, <1>6, <1>9, <1>14, <2>1, <2>2
<1>16. ManifestIsTrue(d.stage, d.m)'
  BY <1>3, <1>13, ManifestStaysTrue DEF CommandIsSound
<1>17. PICK c \in Commands :
         /\ fsCmd' = [fsCmd EXCEPT ![p] = c] /\ c.m = d.m /\ c.stage = d.stage /\ c.snap = d.snap
         /\ \/ c.at = "write" /\ c.file = 1 /\ d.file = 2
            \/ c.at = "snapshot" /\ c.file = 2 /\ d.file = 1
  <2>1. CASE d.file = 2
    <3>1. [d EXCEPT !.at = "write", !.file = 1] \in Commands
      BY DEF Commands, FsSteps, Files
    <3>2. PICK c \in Commands : c = [d EXCEPT !.at = "write", !.file = 1]
      BY <3>1
    <3>3. c.m = d.m /\ c.stage = d.stage /\ c.snap = d.snap /\ c.at = "write" /\ c.file = 1
      BY <3>2 DEF Commands
    <3>4. fsCmd' = [fsCmd EXCEPT ![p] = c]
      BY <1>0, <1>2, <2>1, <3>2 DEF SnapshotChange, StagedTypeOK
    <3>5. QED
      BY <2>1, <3>3, <3>4
  <2>2. CASE d.file # 2
    <3>0. d.file = 1
      BY <1>3, <2>2 DEF Files
    <3>1. [d EXCEPT !.file = 2] \in Commands
      BY DEF Commands, FsSteps, Files
    <3>2. PICK c \in Commands : c = [d EXCEPT !.file = 2]
      BY <3>1
    <3>3. c.m = d.m /\ c.stage = d.stage /\ c.snap = d.snap /\ c.at = d.at /\ c.file = 2
      BY <3>2 DEF Commands
    <3>4. fsCmd' = [fsCmd EXCEPT ![p] = c]
      BY <1>0, <1>2, <3>0, <3>2 DEF SnapshotChange, StagedTypeOK
    <3>5. QED
      BY <1>1, <1>2, <3>0, <3>3, <3>4
  <2>3. QED
    BY <2>1, <2>2
<1>18. CommandIsSound(c)'
  <2>0. /\ c.snap \in DOMAIN fsSnaps' /\ fsSnaps'[c.snap] = new /\ new.stage = c.stage
        /\ c.stage \in fsGranted' /\ ManifestIsTrue(c.stage, c.m)'
    BY <1>4, <1>5, <1>9, <1>10, <1>11, <1>16, <1>17 DEF ManifestIsTrue
  <2>1. CASE c.at = "write" /\ c.file = 1 /\ d.file = 2
    <3>1. \A f \in Files : (f < 2 \/ f = 2) /\ ~(f < 1)
      BY DEF Files
    <3>2. QED
      BY <1>15, <2>0, <2>1, <3>1 DEF CommandIsSound, ManifestIsTrue
  <2>2. CASE c.at = "snapshot" /\ c.file = 2 /\ d.file = 1
    <3>1. \A f \in Files : (f >= 2 => f >= 1 /\ f # 1) /\ (f < 2 => f = 1)
      BY DEF Files
    <3>2. \A f \in Files : f >= 2 => new.files[f] = NoCopy
      BY <1>4, <1>5, <1>9, <2>2, <3>1
    <3>3. QED
      BY <1>15, <2>0, <2>2, <3>1, <3>2 DEF CommandIsSound, ManifestIsTrue
  <2>3. QED
    BY <1>17, <2>1, <2>2
<1>19. /\ fsCmd' \in [FsCommands -> {NoFsCommand} \cup Commands]
       /\ CommandsAreSound' /\ SnapshotsAreOwn'
  <2>1. \A q \in FsCommands : q # p /\ fsCmd[q].at = "snapshot" =>
          fsCmd[q].snap \in DOMAIN fsSnaps /\ fsCmd[q].snap # d.snap
    BY <1>0, <1>1, <1>2 DEF CommandsAreSound, CommandIsSound, SnapshotsAreOwn, NoFsCommand
  <2>2. \A q \in FsCommands : q # p /\ fsCmd[q].at = "snapshot" =>
          fsSnaps'[fsCmd[q].snap] = fsSnaps[fsCmd[q].snap]
    BY <1>11, <2>1
  <2>3. QED
    BY <1>1, <1>2, <1>13, <1>17, <1>18, <2>2, CommandMoves
<1>20. \A n \in DOMAIN fsSnaps', f \in Files :
         \/ n \in DOMAIN fsSnaps /\ fsSnaps'[n].files[f] = fsSnaps[n].files[f]
         \/ fsSnaps'[n].files[f] \in {NoCopy, fsRepo[f]}
  BY <1>5, <1>9, <1>11
<1>21. QED
  BY <1>10, <1>11, <1>13, <1>19, <1>20, SnapshotMoves

\* A manifest of s is written, or torn.
LEMMA ManifestIsWritten ==
  ASSUME StagedInv, NEW s \in Stages, NEW m \in {Unstaged, Unreadable} \cup FsManifests,
         fsManifest' = [fsManifest EXCEPT ![s] = m], m \in FsManifests => ManifestIsTrue(s, m),
         UNCHANGED <<fsRepo, fsSnaps, fsGranted>>,
         fsCmd' = fsCmd \/ \E p \in FsCommands : fsCmd' = [fsCmd EXCEPT ![p] = NoFsCommand]
  PROVE  StagedInv'
<1>0. /\ StagedTypeOK /\ OriginalKept /\ OnlyApprovedIsWritten /\ ManifestsAreTrue
      /\ CommandsAreSound /\ SnapshotsAreOwn
  BY DEF StagedInv
<1>1. Grows /\ NoFsCommand.at # "snapshot"
  BY DEF Grows, NoFsCommand
<1>2. /\ fsCmd' \in [FsCommands -> {NoFsCommand} \cup Commands]
      /\ CommandsAreSound' /\ SnapshotsAreOwn'
  <2>1. CASE fsCmd' = fsCmd
    BY <1>0, <2>1 DEF StagedTypeOK, CommandsAreSound, SnapshotsAreOwn, CommandIsSound,
       ManifestIsTrue, Kept
  <2>2. CASE \E p \in FsCommands : fsCmd' = [fsCmd EXCEPT ![p] = NoFsCommand]
    BY <1>1, <2>2, CommandMoves
  <2>3. QED
    BY <2>1, <2>2
<1>3. StagedTypeOK' /\ OriginalKept' /\ OnlyApprovedIsWritten'
  BY <1>0, <1>2 DEF StagedTypeOK, OriginalKept, OnlyApprovedIsWritten
<1>4. ManifestsAreTrue'
  <2>1. SUFFICES ASSUME NEW t \in Stages, fsManifest'[t] \in FsManifests
                 PROVE  ManifestIsTrue(t, fsManifest[t])'
    BY DEF ManifestsAreTrue
  <2>2. ManifestIsTrue(t, fsManifest'[t])
    BY <1>0, <2>1 DEF ManifestsAreTrue, StagedTypeOK
  <2>3. QED
    BY <2>2 DEF ManifestIsTrue
<1>5. QED
  BY <1>2, <1>3, <1>4 DEF StagedInv

LEMMA WriteManifestStep ==
  ASSUME StagedInv, fsAccepts \in BOOLEAN,
         \/ \E s \in Stages : StageProposal(s)
         \/ \E p \in FsCommands : WriteManifest(p)
  PROVE  StagedInv'
<1>0. StagedTypeOK /\ CommandsAreSound
  BY DEF StagedInv
<1>1. ASSUME NEW s \in Stages, StageProposal(s) PROVE StagedInv'
  <2>1. PICK m \in FsManifests : m = [valid |-> fsAccepts, approval |-> "pending_review",
                                     applied |-> "not_applied", snap |-> 0]
    BY DEF FsManifests
  <2>2. ManifestIsTrue(s, m)
    BY <2>1 DEF ManifestIsTrue
  <2>3. fsManifest' = [fsManifest EXCEPT ![s] = m] /\ UNCHANGED <<fsRepo, fsSnaps, fsGranted, fsCmd>>
    BY <1>1, <2>1 DEF StageProposal
  <2>4. QED
    BY <2>2, <2>3, ManifestIsWritten
<1>2. ASSUME NEW p \in FsCommands, WriteManifest(p) PROVE StagedInv'
  <2>1. fsCmd[p] # NoFsCommand
    BY <1>2 DEF WriteManifest, NoFsCommand
  <2>2. PICK d \in Commands : d = fsCmd[p]
    BY <1>0, <2>1 DEF StagedTypeOK
  <2>3. ManifestIsTrue(d.stage, d.m) /\ d.m \in FsManifests /\ d.stage \in Stages
    BY <1>0, <2>1, <2>2 DEF CommandsAreSound, CommandIsSound, Commands
  <2>4. /\ fsManifest' = [fsManifest EXCEPT ![d.stage] = d.m]
        /\ fsCmd' = [fsCmd EXCEPT ![p] = NoFsCommand] /\ UNCHANGED <<fsRepo, fsSnaps, fsGranted>>
    BY <1>2, <2>2 DEF WriteManifest
  <2>5. QED
    BY <2>3, <2>4, ManifestIsWritten
<1>3. QED
  BY <1>1, <1>2

\* A command that dies may tear the file it writes.
LEMMA HandlerDiesStep ==
  ASSUME StagedInv, NEW p \in FsCommands, FsCommandDies(p)
  PROVE  StagedInv'
<1>0. StagedTypeOK /\ CommandsAreSound
  BY DEF StagedInv
<1>1. fsCmd[p] # NoFsCommand /\ fsCmd' = [fsCmd EXCEPT ![p] = NoFsCommand]
  BY DEF FsCommandDies
<1>2. PICK d \in Commands : d = fsCmd[p]
  BY <1>0, <1>1 DEF StagedTypeOK
<1>3. d.stage \in Stages /\ NoFsCommand.at # "snapshot"
  BY DEF Commands, NoFsCommand
<1>4. UNCHANGED <<fsSnaps, fsGranted>>
  BY DEF FsCommandDies
<1>5. CASE UNCHANGED <<fsRepo, fsManifest>>
  BY <1>1, <1>3, <1>4, <1>5, CommandGoesOn
<1>6. CASE d.at = "write" /\ fsRepo' = [fsRepo EXCEPT ![d.file] = Torn] /\ UNCHANGED fsManifest
  BY <1>1, <1>2, <1>3, <1>4, <1>6, RepoIsWritten
<1>7. CASE fsManifest' = [fsManifest EXCEPT ![d.stage] = Unreadable] /\ UNCHANGED fsRepo
  <2>1. Unreadable \notin FsManifests
    BY DEF Unreadable, FsManifests
  <2>2. QED
    BY <1>1, <1>3, <1>4, <1>7, <2>1, ManifestIsWritten
<1>8. QED
  BY <1>2, <1>5, <1>6, <1>7 DEF FsCommandDies

LEMMA StagedStart == StagedInit => StagedInv /\ AcceptsIsKnown
<1>0. SUFFICES ASSUME StagedInit PROVE StagedInv /\ AcceptsIsKnown
  OBVIOUS
<1>1. /\ fsSnaps = <<>> /\ DOMAIN fsSnaps = {} /\ fsSnaps \in Seq(Snapshots)
      /\ fsRepo = [f \in Files |-> Original] /\ fsManifest = [s \in Stages |-> Unstaged]
      /\ fsCmd = [p \in FsCommands |-> NoFsCommand] /\ fsAccepts = TRUE
  BY <1>0 DEF StagedInit
<1>2. Unstaged \notin FsManifests /\ NoFsCommand.at = "idle"
  BY DEF Unstaged, FsManifests, NoFsCommand
<1>3. StagedTypeOK
  BY <1>1 DEF StagedTypeOK, Contents
<1>4. OriginalKept /\ OnlyApprovedIsWritten
  BY <1>1 DEF OriginalKept, OnlyApprovedIsWritten
<1>5. ManifestsAreTrue /\ CommandsAreSound /\ SnapshotsAreOwn
  BY <1>1, <1>2 DEF ManifestsAreTrue, CommandsAreSound, SnapshotsAreOwn
<1>6. QED
  BY <1>1, <1>3, <1>4, <1>5 DEF StagedInv, AcceptsIsKnown

LEMMA StagedKeepsInv ==
  StagedInv /\ AcceptsIsKnown /\ [StagedNext]_fsVars => StagedInv' /\ AcceptsIsKnown'
<1>0. SUFFICES ASSUME StagedInv, AcceptsIsKnown, [StagedNext]_fsVars
               PROVE  StagedInv' /\ AcceptsIsKnown'
  OBVIOUS
<1>1. AcceptsIsKnown'
  BY <1>0 DEF AcceptsIsKnown, StagedNext, fsVars, PolicyChanges, StageProposal, BeginFsCommand, RecordApproval,
     Revalidate, BeginSnapshot, SnapshotChange, ApplyChange, CheckChange, WriteManifest, FsCommandDies
<1>2. SUFFICES StagedInv'
  BY <1>1
<1>3. CASE UNCHANGED <<fsRepo, fsManifest, fsSnaps, fsCmd, fsGranted>>
  BY <1>0, <1>3 DEF StagedInv, StagedTypeOK, OriginalKept, OnlyApprovedIsWritten, ManifestsAreTrue,
     ManifestIsTrue, CommandsAreSound, CommandIsSound, Kept, SnapshotsAreOwn
<1>4. ASSUME NEW s \in Stages, NEW p \in FsCommands,
             NEW kind \in {"approve", "reject", "validate", "apply"}, BeginFsCommand(p, kind, s)
      PROVE  StagedInv'
  BY <1>0, <1>4, StagedBeginStep
<1>5. ASSUME NEW p \in FsCommands, RecordApproval(p) \/ Revalidate(p) \/ BeginSnapshot(p)
      PROVE  StagedInv'
  BY <1>0, <1>5, DecideStep, SnapshotBegins
<1>6. ASSUME NEW p \in FsCommands,
             SnapshotChange(p) \/ ApplyChange(p) \/ CheckChange(p) \/ FsCommandDies(p)
      PROVE  StagedInv'
  BY <1>0, <1>6, SnapshotStep, StagedApplyStep, CheckStep, HandlerDiesStep
<1>7. CASE (\E s \in Stages : StageProposal(s)) \/ \E p \in FsCommands : WriteManifest(p)
  BY <1>0, <1>7, WriteManifestStep DEF AcceptsIsKnown
<1>8. CASE PolicyChanges \/ UNCHANGED fsVars
  BY <1>3, <1>8 DEF PolicyChanges, fsVars
<1>9. QED
  BY <1>0, <1>4, <1>5, <1>6, <1>7, <1>8 DEF StagedNext

\* Whatever commands overlap, repeat and die, the original of every changed file is in a
\* snapshot, only approved changes are in the repository, and a manifest that says
\* "applied" names its complete snapshot (staged_proposals.py).
THEOREM ApplyStaysAccountable == StagedSpec => []ApplyIsAccountable
<1>1. StagedInv => ApplyIsAccountable
  <2>1. SUFFICES ASSUME StagedInv PROVE ApplyIsAccountable
    OBVIOUS
  <2>2. StagedTypeOK /\ OriginalKept /\ OnlyApprovedIsWritten /\ ManifestsAreTrue
    BY <2>1 DEF StagedInv
  <2>3. AppliedIsRecorded
    BY <2>2 DEF StagedTypeOK, ManifestsAreTrue, ManifestIsTrue, AppliedIsRecorded
  <2>4. QED
    BY <2>2, <2>3 DEF ApplyIsAccountable
<1>2. QED
  BY <1>1, StagedStart, StagedKeepsInv, PTL DEF StagedSpec

----------------------------------------------------------------------------
\* ConnectorSignIn: sign-in codes, tokens and state.json of the connector gateway.

\* state.json, and what a thread may be doing.
SgStores == [access : SUBSET SgEntries, refresh : SUBSET SgEntries, last : Nat, failures : Nat,
             locked : Nat]
FormStates == [at : {"verify", "grant"}, pending : Serials, code : Nat, since : Nat]
IssueStates == [at : {"issue"}, origin : Serials, since : Nat]
SgStates == {SgIdle} \cup FormStates \cup IssueStates
SgPairs == [origin : Serials, id : Serials, access : Nat, refresh : Nat]

SgTyped ==
  /\ sgNow \in Nat /\ sgSerial \in Nat /\ sgWrong \in Nat
  /\ sgPending \subseteq SgEntries /\ sgCodes \subseteq SgEntries
  /\ sgMem \in SgStores /\ sgDisk \in SgStores
  /\ sgThread \in [SgThreads -> SgStates]
  /\ sgGranted \subseteq Nat \X Serials /\ sgPairs \subseteq SgPairs

\* A code of the authenticator that was accepted is on disk as the last one.
Granting(t) == sgThread[t].at = "grant"
StepsUsedOnce ==
  /\ sgDisk.last <= sgMem.last
  /\ \A g \in sgGranted : g[1] <= sgDisk.last
  /\ \A t \in SgThreads : Granting(t) => sgThread[t].code <= sgDisk.last
  /\ \A t, u \in SgThreads : Granting(t) /\ Granting(u) /\ sgThread[t].code = sgThread[u].code => t = u
  /\ \A t \in SgThreads, g \in sgGranted : Granting(t) => g[1] # sgThread[t].code
  /\ \A g, h \in sgGranted : g[1] = h[1] => g = h

\* An authorization code or refresh token that a pair was, or is about to be, issued
\* for can be found nowhere any more, neither in memory nor on disk.
Issuing(t) == sgThread[t].at = "issue"
Used(o) == \/ \E p \in sgPairs : p.origin = o
           \/ \E t \in SgThreads : Issuing(t) /\ sgThread[t].origin = o
Stored(id) == Named(sgMem.refresh, id) \/ Named(sgDisk.refresh, id)
OriginsUsedOnce ==
  /\ \A o \in Serials : Used(o) => o <= sgSerial /\ ~Named(sgCodes, o) /\ ~Stored(o)
  /\ \A id \in Serials : Named(sgCodes, id) => id <= sgSerial /\ ~Stored(id)
  /\ \A id \in Serials : Stored(id) => id <= sgSerial
  /\ \A t, u \in SgThreads : Issuing(t) /\ Issuing(u) /\ sgThread[t].origin = sgThread[u].origin => t = u
  /\ \A t \in SgThreads, p \in sgPairs : Issuing(t) => p.origin # sgThread[t].origin
  /\ \A p, q \in sgPairs : p.origin = q.origin => p = q

\* A store has the tokens of the pairs as they were answered.
Keeps(store) ==
  \A p \in sgPairs :
    /\ p.access > sgNow => [id |-> p.id, exp |-> p.access] \in store.access
    /\ p.refresh > sgNow /\ p.id \notin sgPresented => [id |-> p.id, exp |-> p.refresh] \in store.refresh
TokensAreKept == Keeps(sgMem) /\ Keeps(sgDisk)

\* A store has counted the wrong codes.
Counts(store) == sgWrong <= store.failures /\ store.failures < LockoutFailures
FailuresAreCounted == Counts(sgMem) /\ Counts(sgDisk)

SgInv == SgTyped /\ StepsUsedOnce /\ OriginsUsedOnce /\ TokensAreKept /\ FailuresAreCounted
----------------------------------------------------------------------------
\* update() and mutate() of the store: what is on disk is what is in memory, or as it was.
LEMMA StoreMoves ==
  ASSUME SgTyped, NEW data \in SgStores, NEW written \in BOOLEAN, Store(data, written)
  PROVE  /\ sgMem' \in SgStores /\ sgDisk' \in SgStores
         /\ sgMem'.access = Live(data.access) /\ sgMem'.refresh = Live(data.refresh)
         /\ sgMem'.last = data.last /\ sgMem'.failures = data.failures
         /\ sgDisk' = sgMem' \/ (~written /\ sgDisk' = sgDisk)
<1>1. Live(data.access) \in SUBSET SgEntries /\ Live(data.refresh) \in SUBSET SgEntries
  BY DEF SgStores, Live
<1>2. sgMem' = [data EXCEPT !.access = Live(data.access), !.refresh = Live(data.refresh)]
  BY DEF Store
<1>3. /\ sgMem' \in SgStores
      /\ sgMem'.access = Live(data.access) /\ sgMem'.refresh = Live(data.refresh)
      /\ sgMem'.last = data.last /\ sgMem'.failures = data.failures
  BY <1>1, <1>2 DEF SgStores
<1>4. sgDisk' = sgMem' \/ (~written /\ sgDisk' = sgDisk)
  BY DEF Store
<1>5. QED
  BY <1>3, <1>4 DEF SgTyped

LEMMA ThreadMoves ==
  ASSUME SgTyped, NEW t \in SgThreads, NEW state \in SgStates, SgSet(t, state)
  PROVE  /\ sgThread' \in [SgThreads -> SgStates] /\ sgThread'[t] = state
         /\ \A u \in SgThreads : u # t => sgThread'[u] = sgThread[u]
BY DEF SgTyped, SgSet

\* Entries are dropped, never renamed.
LEMMA LiveIsNamed ==
  /\ \A entries, id : Named(Live(entries), id) => Named(entries, id)
  /\ \A entries, id, gone : Named(Without(entries, gone), id) => Named(entries, id) /\ id # gone
BY DEF Named, Live, Without

\* A step that accepts no code.
LEMMA StepsStay ==
  ASSUME SgTyped, SgTyped', StepsUsedOnce, UNCHANGED sgGranted,
         sgDisk.last <= sgDisk'.last, sgDisk'.last <= sgMem'.last,
         \A t \in SgThreads : Granting(t)' => Granting(t) /\ sgThread'[t].code = sgThread[t].code
  PROVE  StepsUsedOnce'
<1>1. /\ sgDisk.last \in Nat /\ sgDisk'.last \in Nat /\ \A g \in sgGranted : g[1] \in Nat
      /\ \A t \in SgThreads : Granting(t) => sgThread[t].code \in Nat
  BY DEF SgTyped, SgStores, SgStates, SgIdle, FormStates, IssueStates, Granting
<1>2. \A g \in sgGranted : g[1] <= sgDisk'.last
  BY <1>1 DEF StepsUsedOnce
<1>3. \A t \in SgThreads : Granting(t)' => sgThread'[t].code <= sgDisk'.last
  BY <1>1 DEF StepsUsedOnce
<1>4. \A t, u \in SgThreads :
        Granting(t)' /\ Granting(u)' /\ sgThread'[t].code = sgThread'[u].code => t = u
  BY DEF StepsUsedOnce
<1>5. \A t \in SgThreads, g \in sgGranted : Granting(t)' => g[1] # sgThread'[t].code
  BY DEF StepsUsedOnce
<1>6. QED
  BY <1>2, <1>3, <1>4, <1>5 DEF StepsUsedOnce

\* A step that begins to issue, or issues, nothing.
LEMMA OriginsStay ==
  ASSUME SgTyped, SgTyped', OriginsUsedOnce, UNCHANGED sgPairs, sgSerial <= sgSerial',
         \A t \in SgThreads : Issuing(t)' => Issuing(t) /\ sgThread'[t].origin = sgThread[t].origin,
         \A id \in Serials : Named(sgCodes', id) =>
           Named(sgCodes, id) \/ (id > sgSerial /\ id <= sgSerial'),
         \A id \in Serials : Stored(id)' => Stored(id)
  PROVE  OriginsUsedOnce'
<1>1. sgSerial \in Nat /\ sgSerial' \in Nat /\ Serials \subseteq Nat
  BY SgAssumption DEF SgTyped, Serials
<1>2. \A o \in Serials : Used(o)' => Used(o)
  BY DEF Used
<1>3. \A o \in Serials : Used(o)' => o <= sgSerial' /\ ~Named(sgCodes', o) /\ ~Stored(o)'
  BY <1>1, <1>2 DEF OriginsUsedOnce
<1>4. \A id \in Serials : Named(sgCodes', id) => id <= sgSerial' /\ ~Stored(id)'
  BY <1>1 DEF OriginsUsedOnce
<1>5. \A id \in Serials : Stored(id)' => id <= sgSerial'
  <2>1. SUFFICES ASSUME NEW id \in Serials, Stored(id)' PROVE id <= sgSerial'
    OBVIOUS
  <2>2. id <= sgSerial /\ id \in Nat
    BY <1>1, <2>1 DEF OriginsUsedOnce
  <2>3. QED
    BY <1>1, <2>2
<1>6. \A t, u \in SgThreads :
        Issuing(t)' /\ Issuing(u)' /\ sgThread'[t].origin = sgThread'[u].origin => t = u
  BY DEF OriginsUsedOnce
<1>7. \A t \in SgThreads, p \in sgPairs : Issuing(t)' => p.origin # sgThread'[t].origin
  BY DEF OriginsUsedOnce
<1>8. QED
  BY <1>3, <1>4, <1>5, <1>6, <1>7 DEF OriginsUsedOnce

\* A store that keeps what is live, and may lose what was presented.
LEMMA TokensStay ==
  ASSUME SgTyped, SgTyped', NEW old \in SgStores, NEW new \in SgStores, Keeps(old),
         UNCHANGED sgPairs, sgNow <= sgNow', sgPresented \subseteq sgPresented',
         \A e \in old.access : e.exp > sgNow' => e \in new.access,
         \A e \in old.refresh : e.exp > sgNow' /\ e.id \notin sgPresented' => e \in new.refresh
  PROVE  Keeps(new)'
<1>1. SUFFICES ASSUME NEW p \in sgPairs
               PROVE  /\ p.access > sgNow' => [id |-> p.id, exp |-> p.access] \in new.access
                      /\ p.refresh > sgNow' /\ p.id \notin sgPresented' =>
                           [id |-> p.id, exp |-> p.refresh] \in new.refresh
  BY DEF Keeps
<1>2. p.access \in Nat /\ p.refresh \in Nat /\ sgNow \in Nat /\ sgNow' \in Nat
  BY DEF SgTyped, SgPairs
<1>3. ASSUME p.access > sgNow' PROVE [id |-> p.id, exp |-> p.access] \in new.access
  <2>1. p.access > sgNow
    BY <1>2, <1>3
  <2>2. PICK e \in old.access : e = [id |-> p.id, exp |-> p.access]
    BY <2>1 DEF Keeps
  <2>3. e.exp = p.access
    BY <2>2
  <2>4. QED
    BY <1>3, <2>2, <2>3
<1>4. ASSUME p.refresh > sgNow', p.id \notin sgPresented'
      PROVE  [id |-> p.id, exp |-> p.refresh] \in new.refresh
  <2>1. p.refresh > sgNow /\ p.id \notin sgPresented
    BY <1>2, <1>4
  <2>2. PICK e \in old.refresh : e = [id |-> p.id, exp |-> p.refresh]
    BY <2>1 DEF Keeps
  <2>3. e.exp = p.refresh /\ e.id = p.id
    BY <2>2
  <2>4. QED
    BY <1>4, <2>2, <2>3
<1>5. QED
  BY <1>3, <1>4

\* New sign-ins, posted forms, the clock and a restart.
LEMMA SgQuietStep ==
  ASSUME SgInv,
         \/ StartAuthorization \/ RestartGateway \/ SgTick \/ UNCHANGED sgVars
         \/ \E t \in SgThreads, p \in Serials, code \in {WrongCode} \cup (sgNow..(sgNow + StepsAhead)) :
              PostForm(t, p, code)
  PROVE  SgInv'
<1>0. SgTyped /\ StepsUsedOnce /\ OriginsUsedOnce /\ TokensAreKept /\ FailuresAreCounted
  BY DEF SgInv
<1>1. /\ sgMem' \in {sgMem, sgDisk} /\ sgNow' \in {sgNow, sgNow + 1}
      /\ UNCHANGED <<sgDisk, sgGranted, sgPairs, sgPresented, sgWrong>>
  BY DEF StartAuthorization, RestartGateway, SgTick, sgVars, PostForm, sgHistory
<1>2. sgNow \in Nat /\ sgSerial \in Nat /\ Drawn \in Nat /\ Drawn > sgSerial
  BY <1>0 DEF SgTyped, Drawn
<1>3. /\ sgSerial' \in {sgSerial, Drawn} /\ sgPending' \subseteq SgEntries
      /\ sgCodes' \subseteq sgCodes
  <2>1. CASE StartAuthorization
    <3>0. PICK d \in Serials, x \in Nat : d = Drawn /\ x = sgNow + PendingTtl
      BY <1>2, <2>1, SgAssumption DEF StartAuthorization
    <3>1. PICK e \in SgEntries : e = [id |-> Drawn, exp |-> sgNow + PendingTtl]
      BY <3>0 DEF SgEntries
    <3>2. sgPending' = Live(sgPending) \cup {e} /\ sgCodes' = Live(sgCodes) /\ sgSerial' = Drawn
      BY <2>1, <3>1 DEF StartAuthorization
    <3>3. QED
      BY <1>0, <3>2 DEF Live, SgTyped
  <2>2. CASE ~StartAuthorization
    BY <1>0, <2>2 DEF RestartGateway, SgTick, sgVars, PostForm, Live, SgTyped
  <2>3. QED
    BY <2>1, <2>2
<1>4. /\ sgThread' \in [SgThreads -> SgStates]
      /\ \A t \in SgThreads : sgThread'[t] = sgThread[t] \/ sgThread'[t].at \in {"idle", "verify"}
  <2>1. CASE \E t \in SgThreads, p \in Serials, code \in {WrongCode} \cup (sgNow..(sgNow + StepsAhead)) :
               PostForm(t, p, code)
    <3>1. PICK t \in SgThreads, p \in Serials,
               code \in {WrongCode} \cup (sgNow..(sgNow + StepsAhead)) : PostForm(t, p, code)
      BY <2>1
    <3>2. code \in Nat
      BY <1>2, SgAssumption DEF WrongCode
    <3>3. PICK f \in FormStates : f = [at |-> "verify", pending |-> p, code |-> code, since |-> sgNow]
      BY <1>2, <3>2 DEF FormStates
    <3>4. SgSet(t, f) /\ f \in SgStates /\ f.at = "verify"
      BY <3>1, <3>3 DEF PostForm, SgStates
    <3>5. QED
      BY <1>0, <3>4, ThreadMoves
  <2>2. CASE sgThread' = [t \in SgThreads |-> SgIdle]
    BY <2>2 DEF SgStates, SgIdle
  <2>3. CASE UNCHANGED sgThread
    BY <1>0, <2>3 DEF SgTyped
  <2>4. QED
    BY <2>1, <2>2, <2>3 DEF StartAuthorization, RestartGateway, SgTick, sgVars
<1>5. SgTyped'
  <2>1. sgNow' \in Nat /\ sgSerial' \in Nat
    BY <1>1, <1>2, <1>3
  <2>2. QED
    BY <1>0, <1>1, <1>3, <1>4, <2>1 DEF SgTyped
<1>6. StepsUsedOnce'
  <2>1. sgDisk.last <= sgDisk'.last /\ sgDisk'.last <= sgMem'.last
    BY <1>0, <1>1 DEF SgTyped, SgStores, StepsUsedOnce
  <2>2. \A t \in SgThreads : Granting(t)' => Granting(t) /\ sgThread'[t].code = sgThread[t].code
    BY <1>4 DEF Granting
  <2>3. QED
    BY <1>0, <1>1, <1>5, <2>1, <2>2, StepsStay
<1>7. OriginsUsedOnce'
  <2>1. sgSerial <= sgSerial'
    BY <1>2, <1>3
  <2>2. \A t \in SgThreads : Issuing(t)' => Issuing(t) /\ sgThread'[t].origin = sgThread[t].origin
    BY <1>4 DEF Issuing
  <2>3. \A id \in Serials : (Named(sgCodes', id) => Named(sgCodes, id)) /\ (Stored(id)' => Stored(id))
    BY <1>1, <1>3 DEF Named, Stored
  <2>4. QED
    BY <1>0, <1>1, <1>5, <2>1, <2>2, <2>3, OriginsStay
<1>8. TokensAreKept'
  <2>1. sgNow <= sgNow' /\ \A n \in Nat : n > sgNow' => n > sgNow
    BY <1>1, <1>2
  <2>2. ASSUME NEW store \in SgStores, Keeps(store) PROVE Keeps(store)'
    BY <1>0, <1>1, <1>5, <2>1, <2>2, TokensStay
  <2>3. PICK mem \in SgStores : mem = sgMem'
    BY <1>5 DEF SgTyped
  <2>4. PICK disk \in SgStores : disk = sgDisk'
    BY <1>5 DEF SgTyped
  <2>5. Keeps(mem) /\ Keeps(disk)
    BY <1>0, <1>1, <2>3, <2>4 DEF TokensAreKept
  <2>6. Keeps(mem)' /\ Keeps(disk)'
    BY <2>2, <2>5
  <2>7. QED
    BY <2>3, <2>4, <2>6 DEF TokensAreKept, Keeps
<1>9. FailuresAreCounted'
  BY <1>0, <1>1 DEF FailuresAreCounted, Counts
<1>10. QED
  BY <1>5, <1>6, <1>7, <1>8, <1>9 DEF SgInv

\* The store is written without a change of the tokens but the expiry of some.
LEMMA StoreKeepsTokens ==
  ASSUME SgTyped, SgTyped', TokensAreKept, NEW data \in SgStores, NEW written \in BOOLEAN,
         Store(data, written), UNCHANGED <<sgPairs, sgNow>>, sgPresented \subseteq sgPresented',
         sgMem.access \subseteq data.access,
         \A e \in sgMem.refresh : e.id \notin sgPresented' => e \in data.refresh
  PROVE  TokensAreKept'
<1>1. /\ sgMem'.access = Live(data.access) /\ sgMem'.refresh = Live(data.refresh)
      /\ sgDisk' = sgMem' \/ sgDisk' = sgDisk
  BY StoreMoves
<1>2. PICK old \in SgStores : old = sgMem
  BY DEF SgTyped
<1>3. PICK mem \in SgStores : mem = sgMem'
  BY DEF SgTyped
<1>4. PICK disk \in SgStores : disk = sgDisk
  BY DEF SgTyped
<1>5. Keeps(old) /\ Keeps(disk) /\ sgNow <= sgNow'
  BY <1>2, <1>4 DEF TokensAreKept, SgTyped
<1>6. /\ \A e \in old.access : e.exp > sgNow' => e \in mem.access
      /\ \A e \in old.refresh : e.exp > sgNow' /\ e.id \notin sgPresented' => e \in mem.refresh
  BY <1>1, <1>2, <1>3 DEF Live
<1>7. Keeps(mem)'
  BY <1>5, <1>6, TokensStay
<1>8. Keeps(disk)'
  BY <1>5, TokensStay
<1>9. Keeps(sgMem)' /\ Keeps(sgDisk)'
  BY <1>1, <1>3, <1>4, <1>7, <1>8 DEF Keeps
<1>10. QED
  BY <1>9 DEF TokensAreKept

\* verify(): a code is accepted only past every step that was accepted before, and goes
\* on only when it is on disk; a wrong one is counted in memory and on disk.
LEMMA VerifyStep ==
  ASSUME SgInv, NEW t \in SgThreads, VerifyCode(t)
  PROVE  SgInv'
<1>0. SgTyped /\ StepsUsedOnce /\ OriginsUsedOnce /\ TokensAreKept /\ FailuresAreCounted
  BY DEF SgInv
<1>1. PICK r \in FormStates : r = sgThread[t] /\ r.at = "verify"
  BY <1>0 DEF SgTyped, VerifyCode, SgStates, SgIdle, IssueStates
<1>2. /\ UNCHANGED <<sgNow, sgSerial, sgPending, sgCodes, sgGranted, sgPairs, sgPresented>>
  BY DEF VerifyCode, sgHistory
<1>3. PICK now \in r.since..sgNow, written \in BOOLEAN :
        \/ /\ SgSet(t, SgIdle) /\ UNCHANGED <<sgMem, sgDisk, sgWrong>>
        \/ /\ Matches(r.code, now)
           /\ Store([sgMem EXCEPT !.last = r.code, !.failures = 0], written)
           /\ sgWrong' = 0
           /\ SgSet(t, IF written THEN [r EXCEPT !.at = "grant"] ELSE SgIdle)
        \/ /\ Store(Failed(now), written)
           /\ sgWrong' = IF Failed(now).failures = 0 THEN 0
                         ELSE IF written THEN sgWrong + 1 ELSE sgWrong
           /\ SgSet(t, SgIdle)
  BY <1>1 DEF VerifyCode
<1>4. /\ sgMem.last \in Nat /\ sgMem.failures \in Nat /\ sgDisk.last \in Nat /\ sgDisk.failures \in Nat
      /\ sgMem \in SgStores /\ sgDisk \in SgStores /\ sgWrong \in Nat /\ r.code \in Nat
  BY <1>0 DEF SgTyped, SgStores, FormStates
<1>5. now \in Nat /\ LockoutFailures \in Nat \ {0} /\ LockoutTime \in Nat
  BY <1>0, SgAssumption DEF SgTyped, FormStates
<1>6. SgIdle \in SgStates /\ SgIdle.at = "idle"
  BY DEF SgStates, SgIdle
\* Whichever way it goes, the thread ends or has its code as the last one on disk.
<1>7. ASSUME sgMem' \in SgStores, sgDisk' \in SgStores, sgWrong' \in Nat,
             NEW next \in SgStates, SgSet(t, next), next.at \in {"idle", "grant"},
             TokensAreKept' \/ UNCHANGED <<sgMem, sgDisk>>, FailuresAreCounted',
             \A id \in Serials : Stored(id)' => Stored(id),
             sgDisk.last <= sgDisk'.last, sgDisk'.last <= sgMem'.last,
             next.at = "grant" => /\ next.code = r.code /\ r.code > sgMem.last
                                  /\ sgDisk'.last = r.code
      PROVE  SgInv'
  <2>1. /\ sgThread' \in [SgThreads -> SgStates] /\ sgThread'[t] = next
        /\ \A u \in SgThreads : u # t => sgThread'[u] = sgThread[u]
    BY <1>0, <1>7, ThreadMoves
  <2>2. SgTyped'
    BY <1>0, <1>2, <1>7, <2>1 DEF SgTyped
  <2>3. OriginsUsedOnce'
    <3>1. \A u \in SgThreads : Issuing(u)' => Issuing(u) /\ sgThread'[u].origin = sgThread[u].origin
      BY <1>7, <2>1 DEF Issuing
    <3>2. sgSerial <= sgSerial'
      BY <1>0, <1>2 DEF SgTyped
    <3>3. QED
      BY <1>0, <1>2, <1>7, <2>2, <3>1, <3>2, OriginsStay
  <2>4. StepsUsedOnce'
    <3>1. CASE next.at # "grant"
      <4>1. \A u \in SgThreads : Granting(u)' => Granting(u) /\ sgThread'[u].code = sgThread[u].code
        BY <1>7, <2>1, <3>1 DEF Granting
      <4>2. QED
        BY <1>0, <1>2, <1>7, <2>2, <4>1, StepsStay
    <3>2. CASE next.at = "grant"
      <4>0. /\ sgDisk'.last \in Nat /\ sgMem'.last \in Nat /\ \A g \in sgGranted : g[1] \in Nat
            /\ \A u \in SgThreads : Granting(u) => sgThread[u].code \in Nat
        BY <1>0, <1>7 DEF SgTyped, SgStores, SgStates, SgIdle, FormStates, IssueStates, Granting
      <4>1. /\ \A g \in sgGranted : g[1] < r.code
            /\ \A u \in SgThreads : Granting(u) => sgThread[u].code < r.code
        BY <1>0, <1>4, <1>7, <3>2, <4>0 DEF StepsUsedOnce
      <4>2. /\ \A u \in SgThreads : u # t /\ Granting(u)' =>
                  Granting(u) /\ sgThread'[u].code = sgThread[u].code
            /\ Granting(t)' /\ sgThread'[t].code = r.code
        BY <1>7, <2>1, <3>2 DEF Granting
      <4>3. \A g \in sgGranted : g[1] <= sgDisk'.last /\ g[1] # r.code
        BY <1>4, <1>7, <3>2, <4>0, <4>1
      <4>4. \A u \in SgThreads : Granting(u)' =>
              sgThread'[u].code <= sgDisk'.last /\ (u # t => sgThread'[u].code # r.code)
        BY <1>4, <1>7, <3>2, <4>0, <4>1, <4>2
      <4>5. \A u, v \in SgThreads :
              Granting(u)' /\ Granting(v)' /\ sgThread'[u].code = sgThread'[v].code => u = v
        BY <1>0, <4>2, <4>4 DEF StepsUsedOnce
      <4>6. \A u \in SgThreads, g \in sgGranted : Granting(u)' => g[1] # sgThread'[u].code
        BY <1>0, <4>2, <4>3 DEF StepsUsedOnce
      <4>7. QED
        BY <1>0, <1>2, <1>7, <4>3, <4>4, <4>5, <4>6 DEF StepsUsedOnce
    <3>3. QED
      BY <3>1, <3>2
  <2>5. TokensAreKept'
    BY <1>0, <1>2, <1>7 DEF TokensAreKept, Keeps
  <2>6. QED
    BY <1>7, <2>2, <2>3, <2>4, <2>5 DEF SgInv
\* A written store of which only the guard's fields are new.
<1>8. ASSUME NEW data \in SgStores, Store(data, written), data.access = sgMem.access,
             data.refresh = sgMem.refresh, sgWrong' \in Nat, NEW next \in SgStates, SgSet(t, next)
      PROVE  /\ sgMem' \in SgStores /\ sgDisk' \in SgStores /\ TokensAreKept'
             /\ sgMem'.last = data.last /\ sgMem'.failures = data.failures
             /\ sgDisk' = sgMem' \/ (~written /\ sgDisk' = sgDisk)
             /\ \A id \in Serials : Stored(id)' => Stored(id)
  <2>1. /\ sgMem' \in SgStores /\ sgDisk' \in SgStores
        /\ sgMem'.refresh = Live(data.refresh)
        /\ sgMem'.last = data.last /\ sgMem'.failures = data.failures
        /\ sgDisk' = sgMem' \/ (~written /\ sgDisk' = sgDisk)
    BY <1>0, <1>8, StoreMoves
  <2>2. SgTyped'
    BY <1>0, <1>2, <1>8, <2>1, ThreadMoves DEF SgTyped
  <2>3. TokensAreKept'
    BY <1>0, <1>2, <1>8, <2>2, StoreKeepsTokens
  <2>4. \A id \in Serials : Stored(id)' => Stored(id)
    BY <1>8, <2>1 DEF Stored, Named, Live
  <2>5. QED
    BY <2>1, <2>3, <2>4
<1>9. CASE SgSet(t, SgIdle) /\ UNCHANGED <<sgMem, sgDisk, sgWrong>>
  <2>1. FailuresAreCounted' /\ \A id \in Serials : Stored(id)' => Stored(id)
    BY <1>0, <1>9 DEF FailuresAreCounted, Counts, Stored
  <2>2. sgDisk.last <= sgDisk'.last /\ sgDisk'.last <= sgMem'.last
    BY <1>0, <1>4, <1>9 DEF StepsUsedOnce
  <2>3. QED
    BY <1>4, <1>6, <1>7, <1>9, <2>1, <2>2
<1>10. CASE /\ Matches(r.code, now)
            /\ Store([sgMem EXCEPT !.last = r.code, !.failures = 0], written)
            /\ sgWrong' = 0
            /\ SgSet(t, IF written THEN [r EXCEPT !.at = "grant"] ELSE SgIdle)
  <2>1. PICK data \in SgStores : data = [sgMem EXCEPT !.last = r.code, !.failures = 0]
    BY <1>4 DEF SgStores
  <2>2. /\ data.access = sgMem.access /\ data.refresh = sgMem.refresh /\ data.last = r.code
        /\ data.failures = 0
    BY <1>4, <2>1 DEF SgStores
  <2>3. PICK next \in SgStates :
          /\ SgSet(t, next) /\ next.at \in {"idle", "grant"}
          /\ next.at = "grant" => written /\ next.code = r.code
    <3>1. CASE written
      <4>1. [r EXCEPT !.at = "grant"] \in FormStates
        BY DEF FormStates
      <4>2. PICK g \in FormStates : g = [r EXCEPT !.at = "grant"]
        BY <4>1
      <4>3. g.at = "grant" /\ g.code = r.code /\ g \in SgStates
        BY <4>2 DEF FormStates, SgStates
      <4>4. QED
        BY <1>10, <3>1, <4>2, <4>3
    <3>2. CASE ~written
      BY <1>6, <1>10, <3>2
    <3>3. QED
      BY <3>1, <3>2
  <2>4. /\ sgMem' \in SgStores /\ sgDisk' \in SgStores /\ TokensAreKept'
        /\ sgMem'.last = r.code /\ sgMem'.failures = 0
        /\ sgDisk' = sgMem' \/ (~written /\ sgDisk' = sgDisk)
        /\ \A id \in Serials : Stored(id)' => Stored(id)
    BY <1>8, <1>10, <2>1, <2>2, <2>3
  <2>5. r.code > sgMem.last /\ sgDisk.last <= sgMem.last
    BY <1>0, <1>10 DEF Matches, StepsUsedOnce
  <2>6. sgDisk.last <= sgDisk'.last /\ sgDisk'.last <= sgMem'.last
    BY <1>4, <2>4, <2>5
  <2>7. FailuresAreCounted'
    BY <1>0, <1>4, <1>5, <1>10, <2>4 DEF FailuresAreCounted, Counts
  <2>8. QED
    BY <1>7, <1>10, <2>3, <2>4, <2>5, <2>6, <2>7
<1>11. CASE /\ Store(Failed(now), written)
            /\ sgWrong' = IF Failed(now).failures = 0 THEN 0
                          ELSE IF written THEN sgWrong + 1 ELSE sgWrong
            /\ SgSet(t, SgIdle)
  <2>1. PICK data \in SgStores :
          /\ data = Failed(now) /\ data.access = sgMem.access /\ data.refresh = sgMem.refresh
          /\ data.last = sgMem.last
          /\ data.failures = IF sgMem.failures + 1 >= LockoutFailures THEN 0 ELSE sgMem.failures + 1
    <3>1. CASE sgMem.failures + 1 >= LockoutFailures
      <4>1. PICK locked \in Nat : locked = now + LockoutTime
        BY <1>5
      <4>2. PICK data \in SgStores : data = [sgMem EXCEPT !.failures = 0, !.locked = locked]
        BY <1>4 DEF SgStores
      <4>3. /\ data.access = sgMem.access /\ data.refresh = sgMem.refresh
            /\ data.last = sgMem.last /\ data.failures = 0
        BY <1>4, <4>2 DEF SgStores
      <4>4. QED
        BY <3>1, <4>1, <4>2, <4>3 DEF Failed
    <3>2. CASE ~(sgMem.failures + 1 >= LockoutFailures)
      <4>1. PICK n \in Nat : n = sgMem.failures + 1
        BY <1>4
      <4>2. PICK data \in SgStores : data = [sgMem EXCEPT !.failures = n]
        BY <1>4 DEF SgStores
      <4>3. /\ data.access = sgMem.access /\ data.refresh = sgMem.refresh
            /\ data.last = sgMem.last /\ data.failures = n
        BY <1>4, <4>2 DEF SgStores
      <4>4. QED
        BY <3>2, <4>1, <4>2, <4>3 DEF Failed
    <3>3. QED
      BY <3>1, <3>2
  <2>2. sgWrong' = (IF data.failures = 0 THEN 0 ELSE IF written THEN sgWrong + 1 ELSE sgWrong)
        /\ sgWrong' \in Nat
    BY <1>4, <1>11, <2>1
  <2>3. /\ sgMem' \in SgStores /\ sgDisk' \in SgStores /\ TokensAreKept'
        /\ sgMem'.last = sgMem.last /\ sgMem'.failures = data.failures
        /\ sgDisk' = sgMem' \/ (~written /\ sgDisk' = sgDisk)
        /\ \A id \in Serials : Stored(id)' => Stored(id)
    BY <1>6, <1>8, <1>11, <2>1, <2>2
  <2>4. sgDisk.last <= sgDisk'.last /\ sgDisk'.last <= sgMem'.last
    BY <1>0, <1>4, <2>3 DEF StepsUsedOnce
  <2>5. FailuresAreCounted'
    <3>1. /\ sgWrong <= sgMem.failures /\ sgMem.failures < LockoutFailures
          /\ sgWrong <= sgDisk.failures /\ sgDisk.failures < LockoutFailures
      BY <1>0 DEF FailuresAreCounted, Counts
    <3>2. sgWrong' <= sgMem'.failures /\ sgMem'.failures < LockoutFailures
      BY <1>4, <1>5, <2>1, <2>2, <2>3, <3>1
    <3>3. sgWrong' <= sgDisk'.failures /\ sgDisk'.failures < LockoutFailures
      BY <1>4, <1>5, <2>1, <2>2, <2>3, <3>1, <3>2
    <3>4. QED
      BY <3>2, <3>3 DEF FailuresAreCounted, Counts
  <2>6. QED
    BY <1>6, <1>7, <1>11, <2>2, <2>3, <2>4, <2>5
<1>12. QED
  BY <1>3, <1>9, <1>10, <1>11

\* A step that leaves the stores alone.
LEMMA StoresStay ==
  ASSUME SgInv, UNCHANGED <<sgNow, sgMem, sgDisk, sgPairs, sgPresented, sgWrong>>
  PROVE  TokensAreKept' /\ FailuresAreCounted'
BY DEF SgInv, TokensAreKept, Keeps, FailuresAreCounted, Counts

\* The rest of complete_authorization().
LEMMA GrantStep ==
  ASSUME SgInv, NEW t \in SgThreads, GrantCode(t)
  PROVE  SgInv'
<1>0. SgTyped /\ StepsUsedOnce /\ OriginsUsedOnce
  BY DEF SgInv
<1>1. PICK r \in FormStates : r = sgThread[t] /\ r.at = "grant"
  BY <1>0 DEF SgTyped, GrantCode, SgStates, SgIdle, IssueStates
<1>2. PICK d \in Serials : d = Drawn /\ d = sgSerial + 1
  BY DEF GrantCode, Drawn
<1>3. /\ UNCHANGED <<sgNow, sgMem, sgDisk, sgPairs, sgPresented, sgWrong>> /\ sgSerial' = d
      /\ SgSet(t, SgIdle) /\ sgPending' = Without(sgPending, r.pending)
      /\ sgCodes' = sgCodes \cup {[id |-> d, exp |-> sgNow + CodeTtl]}
      /\ sgGranted' = sgGranted \cup {<<r.code, d>>}
  BY <1>1, <1>2 DEF GrantCode
<1>4. SgIdle \in SgStates /\ SgIdle.at = "idle"
  BY DEF SgStates, SgIdle
<1>5. /\ sgThread' \in [SgThreads -> SgStates] /\ sgThread'[t] = SgIdle
      /\ \A u \in SgThreads : u # t => sgThread'[u] = sgThread[u]
  BY <1>0, <1>3, <1>4, ThreadMoves
<1>6. sgNow \in Nat /\ sgSerial \in Nat /\ r.code \in Nat /\ d \in Nat /\ d > sgSerial
  BY <1>0, <1>2 DEF SgTyped, FormStates
<1>7. PICK x \in Nat : x = sgNow + CodeTtl
  BY <1>6, SgAssumption
<1>8. PICK e \in SgEntries : e = [id |-> d, exp |-> x]
  BY DEF SgEntries
<1>9. PICK new \in Nat \X Serials : new = <<r.code, d>>
  BY <1>6
<1>10. /\ sgCodes' = sgCodes \cup {e} /\ sgGranted' = sgGranted \cup {new} /\ new[1] = r.code
       /\ e.id = d /\ sgPending' \subseteq sgPending
  BY <1>3, <1>7, <1>8, <1>9 DEF Without
<1>11. SgTyped'
  <2>1. sgSerial' \in Nat /\ sgPending' \subseteq SgEntries /\ sgCodes' \subseteq SgEntries
        /\ sgGranted' \subseteq Nat \X Serials
    BY <1>0, <1>3, <1>6, <1>10 DEF SgTyped
  <2>2. QED
    BY <1>0, <1>3, <1>5, <2>1 DEF SgTyped
<1>12. OriginsUsedOnce'
  <2>1. \A u \in SgThreads : Issuing(u)' => Issuing(u) /\ sgThread'[u].origin = sgThread[u].origin
    BY <1>4, <1>5 DEF Issuing
  <2>2. sgSerial <= sgSerial' /\ d <= sgSerial' /\ d > sgSerial
    BY <1>3, <1>6
  <2>3. \A id \in Serials : Named(sgCodes', id) => Named(sgCodes, id) \/ id = d
    BY <1>10 DEF Named
  <2>4. \A id \in Serials : Stored(id)' => Stored(id)
    BY <1>3 DEF Stored
  <2>5. QED
    BY <1>0, <1>3, <1>11, <2>1, <2>2, <2>3, <2>4, OriginsStay
<1>13. StepsUsedOnce'
  <2>1. Granting(t) /\ sgThread[t].code = r.code
    BY <1>1 DEF Granting
  <2>2. \A u \in SgThreads : Granting(u)' => u # t /\ Granting(u) /\ sgThread'[u].code = sgThread[u].code
    BY <1>4, <1>5 DEF Granting
  <2>3. \A u \in SgThreads : Granting(u)' => /\ sgThread'[u].code <= sgDisk.last
                                             /\ sgThread'[u].code # r.code
    BY <1>0, <2>1, <2>2 DEF StepsUsedOnce
  <2>4. \A g \in sgGranted' : g[1] <= sgDisk.last
    BY <1>0, <1>10, <2>1 DEF StepsUsedOnce
  <2>5. \A g, h \in sgGranted' : g[1] = h[1] => g = h
    BY <1>0, <1>10, <2>1 DEF StepsUsedOnce
  <2>6. \A u \in SgThreads, g \in sgGranted' : Granting(u)' => g[1] # sgThread'[u].code
    BY <1>0, <1>10, <2>2, <2>3 DEF StepsUsedOnce
  <2>7. \A u, v \in SgThreads :
          Granting(u)' /\ Granting(v)' /\ sgThread'[u].code = sgThread'[v].code => u = v
    BY <1>0, <2>2 DEF StepsUsedOnce
  <2>8. sgDisk'.last <= sgMem'.last /\ sgDisk' = sgDisk
    BY <1>0, <1>3 DEF StepsUsedOnce
  <2>9. QED
    BY <2>3, <2>4, <2>5, <2>6, <2>7, <2>8 DEF StepsUsedOnce
<1>14. QED
  BY <1>3, <1>11, <1>12, <1>13, StoresStay DEF SgInv

\* A code or a refresh token is given up for good before a pair is issued for it.
LEMMA OriginIsTaken ==
  ASSUME SgTyped, SgTyped', OriginsUsedOnce, UNCHANGED <<sgPairs, sgSerial>>,
         NEW t \in SgThreads, NEW o \in Serials, ~Issuing(t), o <= sgSerial, ~Used(o),
         ~Named(sgCodes', o), ~Stored(o)', sgThread'[t].origin = o,
         \A u \in SgThreads : u # t => sgThread'[u] = sgThread[u],
         \A id \in Serials : (Named(sgCodes', id) => Named(sgCodes, id)) /\ (Stored(id)' => Stored(id))
  PROVE  OriginsUsedOnce'
<1>1. \A u \in SgThreads : u # t => (Issuing(u)' <=> Issuing(u)) /\ sgThread'[u].origin = sgThread[u].origin
  BY DEF Issuing
<1>2. \A x \in Serials : Used(x)' => Used(x) \/ x = o
  BY <1>1 DEF Used
<1>3. \A x \in Serials : Used(x)' => x <= sgSerial' /\ ~Named(sgCodes', x) /\ ~Stored(x)'
  BY <1>2 DEF OriginsUsedOnce
<1>4. \A id \in Serials : Named(sgCodes', id) => id <= sgSerial' /\ ~Stored(id)'
  BY DEF OriginsUsedOnce
<1>5. \A id \in Serials : Stored(id)' => id <= sgSerial'
  BY DEF OriginsUsedOnce
<1>6. \A u, v \in SgThreads :
        Issuing(u)' /\ Issuing(v)' /\ sgThread'[u].origin = sgThread'[v].origin => u = v
  BY <1>1 DEF OriginsUsedOnce, Used
<1>7. \A u \in SgThreads, p \in sgPairs : Issuing(u)' => p.origin # sgThread'[u].origin
  BY <1>1 DEF OriginsUsedOnce, Used
<1>8. QED
  BY <1>3, <1>4, <1>5, <1>6, <1>7 DEF OriginsUsedOnce

LEMMA ExchangeCodeStep ==
  ASSUME SgInv, NEW t \in SgThreads, NEW c \in Serials, ExchangeCode(t, c)
  PROVE  SgInv'
<1>0. SgTyped /\ StepsUsedOnce /\ OriginsUsedOnce
  BY DEF SgInv
<1>1. /\ UNCHANGED <<sgNow, sgSerial, sgMem, sgDisk, sgGranted, sgPairs, sgPresented, sgWrong>>
      /\ sgThread[t] = SgIdle /\ Named(sgCodes, c)
      /\ sgCodes' = Without(Live(sgCodes), c) /\ sgPending' = Live(sgPending)
  BY LiveIsNamed DEF ExchangeCode, sgHistory
<1>2. sgCodes' \subseteq sgCodes /\ sgPending' \subseteq sgPending /\ ~Named(sgCodes', c)
  BY <1>1 DEF Without, Live, Named
<1>3. SgIdle \in SgStates /\ SgIdle.at = "idle"
  BY DEF SgStates, SgIdle
<1>4. PICK i \in IssueStates : i = [at |-> "issue", origin |-> c, since |-> sgNow]
  BY <1>0 DEF IssueStates, SgTyped
<1>5. i \in SgStates /\ i.at = "issue" /\ i.origin = c
  BY <1>4 DEF SgStates
<1>6. PICK next \in {SgIdle, i} : SgSet(t, next)
  BY <1>4 DEF ExchangeCode
<1>7. /\ sgThread' \in [SgThreads -> SgStates] /\ sgThread'[t] = next
      /\ \A u \in SgThreads : u # t => sgThread'[u] = sgThread[u]
  BY <1>0, <1>3, <1>5, <1>6, ThreadMoves
<1>8. SgTyped'
  BY <1>0, <1>1, <1>2, <1>7 DEF SgTyped
<1>9. StepsUsedOnce'
  <2>1. \A u \in SgThreads : Granting(u)' => Granting(u) /\ sgThread'[u].code = sgThread[u].code
    BY <1>3, <1>5, <1>7 DEF Granting
  <2>2. sgDisk.last <= sgDisk'.last /\ sgDisk'.last <= sgMem'.last
    BY <1>0, <1>1 DEF SgTyped, SgStores, StepsUsedOnce
  <2>3. QED
    BY <1>0, <1>1, <1>8, <2>1, <2>2, StepsStay
<1>10. OriginsUsedOnce'
  <2>1. \A id \in Serials : (Named(sgCodes', id) => Named(sgCodes, id)) /\ (Stored(id)' => Stored(id))
    BY <1>1, <1>2 DEF Named, Stored
  <2>2. c <= sgSerial /\ ~Used(c) /\ ~Stored(c)'
    BY <1>0, <1>1, <2>1 DEF OriginsUsedOnce
  <2>3. CASE next = i
    <3>1. ~Issuing(t) /\ sgThread'[t].origin = c
      BY <1>1, <1>3, <1>5, <1>7, <2>3 DEF Issuing
    <3>2. QED
      BY <1>0, <1>1, <1>2, <1>7, <1>8, <2>1, <2>2, <3>1, OriginIsTaken
  <2>4. CASE next = SgIdle
    <3>1. \A u \in SgThreads : Issuing(u)' => Issuing(u) /\ sgThread'[u].origin = sgThread[u].origin
      BY <1>3, <1>7, <2>4 DEF Issuing
    <3>2. sgSerial <= sgSerial'
      BY <1>0, <1>1 DEF SgTyped
    <3>3. QED
      BY <1>0, <1>1, <1>8, <2>1, <3>1, <3>2, OriginsStay
  <2>5. QED
    BY <2>3, <2>4
<1>11. QED
  BY <1>1, <1>8, <1>9, <1>10, StoresStay DEF SgInv

\* A refresh token goes on only when state.json no longer has it.
LEMMA ExchangeRefreshStep ==
  ASSUME SgInv, NEW t \in SgThreads, NEW n \in Serials, ExchangeRefresh(t, n)
  PROVE  SgInv'
<1>0. SgTyped /\ StepsUsedOnce /\ OriginsUsedOnce /\ TokensAreKept /\ FailuresAreCounted
  BY DEF SgInv
<1>1. /\ UNCHANGED <<sgNow, sgSerial, sgPending, sgCodes, sgGranted, sgPairs, sgWrong>>
      /\ sgThread[t] = SgIdle /\ sgPresented' = sgPresented \cup {n}
  BY DEF ExchangeRefresh
<1>2. PICK written \in BOOLEAN :
        /\ Store([sgMem EXCEPT !.refresh = Without(sgMem.refresh, n)], written)
        /\ SgSet(t, IF written /\ Named(Live(sgMem.refresh), n)
                    THEN [at |-> "issue", origin |-> n, since |-> sgNow] ELSE SgIdle)
  BY DEF ExchangeRefresh
<1>3. sgMem \in SgStores /\ sgDisk \in SgStores /\ sgNow \in Nat
  BY <1>0 DEF SgTyped
<1>4. Without(sgMem.refresh, n) \in SUBSET SgEntries
  BY <1>3 DEF Without, SgStores
<1>5. PICK data \in SgStores : data = [sgMem EXCEPT !.refresh = Without(sgMem.refresh, n)]
  BY <1>3, <1>4 DEF SgStores
<1>6. /\ data.access = sgMem.access /\ data.refresh = Without(sgMem.refresh, n)
      /\ data.last = sgMem.last /\ data.failures = sgMem.failures
  BY <1>3, <1>5 DEF SgStores
<1>7. /\ sgMem' \in SgStores /\ sgDisk' \in SgStores
      /\ sgMem'.refresh = Live(data.refresh)
      /\ sgMem'.last = sgMem.last /\ sgMem'.failures = sgMem.failures
      /\ sgDisk' = sgMem' \/ (~written /\ sgDisk' = sgDisk)
  BY <1>0, <1>2, <1>5, <1>6, StoreMoves
<1>8. SgIdle \in SgStates /\ SgIdle.at = "idle"
  BY DEF SgStates, SgIdle
<1>9. PICK i \in IssueStates : i = [at |-> "issue", origin |-> n, since |-> sgNow]
  BY <1>3 DEF IssueStates
<1>10. i \in SgStates /\ i.at = "issue" /\ i.origin = n
  BY <1>9 DEF SgStates
<1>11. PICK next \in {SgIdle, i} :
         SgSet(t, next) /\ (next = i => written /\ Named(Live(sgMem.refresh), n))
  <2>1. SgIdle # i
    BY <1>8, <1>10
  <2>2. CASE written /\ Named(Live(sgMem.refresh), n)
    <3>1. SgSet(t, i)
      BY <1>2, <1>9, <2>2
    <3>2. QED
      BY <2>2, <3>1
  <2>3. CASE ~(written /\ Named(Live(sgMem.refresh), n))
    <3>1. SgSet(t, SgIdle)
      BY <1>2, <2>3
    <3>2. QED
      BY <2>1, <3>1
  <2>4. QED
    BY <2>2, <2>3
<1>12. /\ sgThread' \in [SgThreads -> SgStates] /\ sgThread'[t] = next
       /\ \A u \in SgThreads : u # t => sgThread'[u] = sgThread[u]
  BY <1>0, <1>8, <1>10, <1>11, ThreadMoves
<1>13. SgTyped'
  BY <1>0, <1>1, <1>7, <1>12 DEF SgTyped
<1>14. StepsUsedOnce'
  <2>1. \A u \in SgThreads : Granting(u)' => Granting(u) /\ sgThread'[u].code = sgThread[u].code
    BY <1>8, <1>10, <1>12 DEF Granting
  <2>2. sgDisk.last <= sgDisk'.last /\ sgDisk'.last <= sgMem'.last
    <3>1. sgDisk.last \in Nat /\ sgMem.last \in Nat /\ sgDisk.last <= sgMem.last
      BY <1>0, <1>3 DEF SgStores, StepsUsedOnce
    <3>2. QED
      BY <1>7, <3>1
  <2>3. QED
    BY <1>0, <1>1, <1>13, <2>1, <2>2, StepsStay
<1>15. OriginsUsedOnce'
  <2>1. \A id \in Serials : Stored(id)' => Stored(id)
    BY <1>6, <1>7 DEF Stored, Named, Live, Without
  <2>2. sgSerial <= sgSerial'
    BY <1>0, <1>1 DEF SgTyped
  <2>3. CASE next = i
    <3>1. Stored(n) /\ sgDisk' = sgMem'
      BY <1>7, <1>11, <2>3, LiveIsNamed DEF Stored
    <3>2. ~Stored(n)'
      BY <1>6, <1>7, <3>1 DEF Stored, Named, Live, Without
    <3>3. n <= sgSerial /\ ~Used(n) /\ ~Named(sgCodes', n)
      BY <1>0, <1>1, <3>1 DEF OriginsUsedOnce
    <3>4. ~Issuing(t) /\ sgThread'[t].origin = n
      BY <1>1, <1>8, <1>10, <1>12, <2>3 DEF Issuing
    <3>5. QED
      BY <1>0, <1>1, <1>12, <1>13, <2>1, <3>2, <3>3, <3>4, OriginIsTaken
  <2>4. CASE next = SgIdle
    <3>1. \A u \in SgThreads : Issuing(u)' => Issuing(u) /\ sgThread'[u].origin = sgThread[u].origin
      BY <1>8, <1>12, <2>4 DEF Issuing
    <3>2. QED
      BY <1>0, <1>1, <1>13, <2>1, <2>2, <3>1, OriginsStay
  <2>5. QED
    BY <2>3, <2>4
<1>16. TokensAreKept'
  <2>1. /\ sgMem.access \subseteq data.access /\ sgPresented \subseteq sgPresented'
        /\ \A e \in sgMem.refresh : e.id \notin sgPresented' => e \in data.refresh
    BY <1>1, <1>6 DEF Without
  <2>2. QED
    BY <1>0, <1>1, <1>2, <1>5, <1>13, <2>1, StoreKeepsTokens
<1>17. FailuresAreCounted'
  <2>1. sgWrong' <= sgMem'.failures /\ sgMem'.failures < LockoutFailures
    BY <1>0, <1>1, <1>7 DEF FailuresAreCounted, Counts
  <2>2. sgWrong' <= sgDisk'.failures /\ sgDisk'.failures < LockoutFailures
    BY <1>0, <1>1, <1>7, <2>1 DEF FailuresAreCounted, Counts
  <2>3. QED
    BY <2>1, <2>2 DEF FailuresAreCounted, Counts
<1>18. QED
  BY <1>13, <1>14, <1>15, <1>16, <1>17 DEF SgInv

\* issue_tokens(): the pair is answered when both stores have its tokens.
LEMMA IssueStep ==
  ASSUME SgInv, NEW t \in SgThreads, IssueTokens(t)
  PROVE  SgInv'
<1>0. SgTyped /\ StepsUsedOnce /\ OriginsUsedOnce /\ TokensAreKept /\ FailuresAreCounted
  BY DEF SgInv
<1>1. PICK r \in IssueStates : r = sgThread[t] /\ r.at = "issue"
  BY <1>0 DEF SgTyped, IssueTokens, SgStates, SgIdle, FormStates
<1>2. PICK d \in Serials : d = Drawn /\ d = sgSerial + 1
  BY DEF IssueTokens, Drawn
<1>3. /\ UNCHANGED <<sgNow, sgPending, sgCodes, sgGranted, sgPresented, sgWrong>>
      /\ sgSerial' = d /\ SgSet(t, SgIdle)
  BY <1>2 DEF IssueTokens
<1>4. PICK now \in r.since..sgNow, written \in BOOLEAN :
        /\ Store([sgMem EXCEPT
                    !.access = sgMem.access \cup {[id |-> d, exp |-> now + AccessTtl]},
                    !.refresh = sgMem.refresh \cup {[id |-> d, exp |-> now + RefreshTtl]}], written)
        /\ sgPairs' = IF ~written THEN sgPairs ELSE sgPairs \cup
             {[origin |-> r.origin, id |-> d, access |-> now + AccessTtl, refresh |-> now + RefreshTtl]}
  BY <1>1, <1>2 DEF IssueTokens
<1>5. /\ sgMem \in SgStores /\ sgDisk \in SgStores /\ sgNow \in Nat /\ sgSerial \in Nat
      /\ now \in Nat /\ r.origin \in Serials /\ d \in Nat /\ d > sgSerial
  BY <1>0, <1>2 DEF SgTyped, IssueStates
<1>6. PICK a \in Nat, f \in Nat : a = now + AccessTtl /\ f = now + RefreshTtl
  BY <1>5, SgAssumption
<1>7. PICK ea \in SgEntries : ea = [id |-> d, exp |-> a]
  BY DEF SgEntries
<1>8. PICK ef \in SgEntries : ef = [id |-> d, exp |-> f]
  BY DEF SgEntries
<1>9. PICK pair \in SgPairs : pair = [origin |-> r.origin, id |-> d, access |-> a, refresh |-> f]
  BY <1>5 DEF SgPairs
<1>10. /\ ea.id = d /\ ea.exp = a /\ ef.id = d /\ ef.exp = f
       /\ pair.origin = r.origin /\ pair.id = d /\ pair.access = a /\ pair.refresh = f
  BY <1>7, <1>8, <1>9
<1>11. sgMem.access \in SUBSET SgEntries /\ sgMem.refresh \in SUBSET SgEntries
  BY <1>5 DEF SgStores
<1>12. PICK A \in SUBSET SgEntries, F \in SUBSET SgEntries :
         A = sgMem.access \cup {ea} /\ F = sgMem.refresh \cup {ef}
  BY <1>11
<1>13. PICK data \in SgStores : data = [sgMem EXCEPT !.access = A, !.refresh = F]
  BY <1>5 DEF SgStores
<1>14. /\ data.access = A /\ data.refresh = F /\ data.last = sgMem.last
       /\ data.failures = sgMem.failures
  BY <1>5, <1>13 DEF SgStores
<1>15. /\ Store(data, written)
       /\ sgPairs' = IF ~written THEN sgPairs ELSE sgPairs \cup {pair}
  BY <1>4, <1>6, <1>7, <1>8, <1>9, <1>12, <1>13
<1>16. /\ sgMem' \in SgStores /\ sgDisk' \in SgStores
       /\ sgMem'.access = Live(A) /\ sgMem'.refresh = Live(F)
       /\ sgMem'.last = sgMem.last /\ sgMem'.failures = sgMem.failures
       /\ sgDisk' = sgMem' \/ (~written /\ sgDisk' = sgDisk)
  BY <1>0, <1>14, <1>15, StoreMoves
<1>17. SgIdle \in SgStates /\ SgIdle.at = "idle"
  BY DEF SgStates, SgIdle
<1>18. /\ sgThread' \in [SgThreads -> SgStates] /\ sgThread'[t] = SgIdle
       /\ \A u \in SgThreads : u # t => sgThread'[u] = sgThread[u]
  BY <1>0, <1>3, <1>17, ThreadMoves
<1>19. SgTyped'
  <2>1. sgPairs' \subseteq SgPairs /\ sgSerial' \in Nat
    BY <1>0, <1>3, <1>5, <1>15 DEF SgTyped
  <2>2. QED
    BY <1>0, <1>3, <1>16, <1>18, <2>1 DEF SgTyped
<1>20. StepsUsedOnce'
  <2>1. \A u \in SgThreads : Granting(u)' => Granting(u) /\ sgThread'[u].code = sgThread[u].code
    BY <1>17, <1>18 DEF Granting
  <2>2. sgDisk.last <= sgDisk'.last /\ sgDisk'.last <= sgMem'.last
    <3>1. sgDisk.last \in Nat /\ sgMem.last \in Nat /\ sgDisk.last <= sgMem.last
      BY <1>0, <1>5 DEF SgStores, StepsUsedOnce
    <3>2. QED
      BY <1>16, <3>1
  <2>3. QED
    BY <1>0, <1>3, <1>19, <2>1, <2>2, StepsStay
<1>21. OriginsUsedOnce'
  <2>0. Serials \subseteq Nat
    BY SgAssumption DEF Serials
  <2>1. Issuing(t) /\ sgThread[t].origin = r.origin /\ Used(r.origin)
    BY <1>1 DEF Issuing, Used
  <2>2. \A u \in SgThreads : Issuing(u)' => u # t /\ Issuing(u) /\ sgThread'[u].origin = sgThread[u].origin
    BY <1>17, <1>18 DEF Issuing
  <2>3. \A p \in sgPairs' : p \in sgPairs \/ p = pair
    BY <1>15
  <2>4. \A x \in Serials : Used(x)' => Used(x)
    BY <1>10, <2>1, <2>2, <2>3 DEF Used
  <2>5. \A id \in Serials : Stored(id)' => Stored(id) \/ id = d
    BY <1>10, <1>12, <1>16 DEF Stored, Named, Live
  <2>6. ASSUME NEW x \in Serials, Used(x)'
        PROVE  x <= sgSerial' /\ ~Named(sgCodes', x) /\ ~Stored(x)'
    <3>1. x <= sgSerial /\ ~Named(sgCodes, x) /\ ~Stored(x) /\ x \in Nat
      BY <1>0, <2>0, <2>4, <2>6 DEF OriginsUsedOnce
    <3>2. x # d /\ x <= sgSerial'
      BY <1>3, <1>5, <3>1
    <3>3. QED
      BY <1>3, <2>5, <3>1, <3>2
  <2>7. ASSUME NEW id \in Serials, Named(sgCodes', id) PROVE id <= sgSerial' /\ ~Stored(id)'
    <3>1. id <= sgSerial /\ ~Stored(id) /\ id \in Nat
      BY <1>0, <1>3, <2>0, <2>7 DEF OriginsUsedOnce
    <3>2. id # d /\ id <= sgSerial'
      BY <1>3, <1>5, <3>1
    <3>3. QED
      BY <2>5, <3>1, <3>2
  <2>8. ASSUME NEW id \in Serials, Stored(id)' PROVE id <= sgSerial'
    <3>1. id = d \/ (id <= sgSerial /\ id \in Nat)
      BY <1>0, <2>0, <2>5, <2>8 DEF OriginsUsedOnce
    <3>2. QED
      BY <1>3, <1>5, <3>1
  <2>9. \A u, v \in SgThreads :
          Issuing(u)' /\ Issuing(v)' /\ sgThread'[u].origin = sgThread'[v].origin => u = v
    BY <1>0, <2>2 DEF OriginsUsedOnce
  <2>10. \A u \in SgThreads, p \in sgPairs' : Issuing(u)' => p.origin # sgThread'[u].origin
    BY <1>0, <1>10, <2>1, <2>2, <2>3 DEF OriginsUsedOnce
  <2>11. \A p, q \in sgPairs' : p.origin = q.origin => p = q
    BY <1>0, <1>10, <2>1, <2>3 DEF OriginsUsedOnce
  <2>12. QED
    BY <2>6, <2>7, <2>8, <2>9, <2>10, <2>11 DEF OriginsUsedOnce
<1>22. TokensAreKept'
  <2>1. Keeps(sgMem) /\ Keeps(sgDisk)
    BY <1>0 DEF TokensAreKept
  <2>2. ASSUME NEW p \in sgPairs'
        PROVE  /\ p.access > sgNow => [id |-> p.id, exp |-> p.access] \in sgMem'.access
               /\ p.refresh > sgNow /\ p.id \notin sgPresented =>
                    [id |-> p.id, exp |-> p.refresh] \in sgMem'.refresh
    <3>1. CASE p \in sgPairs
      <4>1. /\ [id |-> p.id, exp |-> p.access].exp = p.access
            /\ [id |-> p.id, exp |-> p.refresh].exp = p.refresh
        OBVIOUS
      <4>2. QED
        BY <1>12, <1>16, <2>1, <3>1, <4>1 DEF Keeps, Live
    <3>2. CASE p = pair
      BY <1>7, <1>8, <1>10, <1>12, <1>16, <3>2 DEF Live
    <3>3. QED
      BY <1>15, <3>1, <3>2
  <2>3. Keeps(sgMem)'
    BY <1>3, <2>2 DEF Keeps
  <2>4. Keeps(sgDisk)'
    <3>1. CASE sgDisk' = sgMem'
      BY <2>3, <3>1 DEF Keeps
    <3>2. CASE ~written /\ sgDisk' = sgDisk
      BY <1>3, <1>15, <2>1, <3>2 DEF Keeps
    <3>3. QED
      BY <1>16, <3>1, <3>2
  <2>5. QED
    BY <2>3, <2>4 DEF TokensAreKept
<1>23. FailuresAreCounted'
  <2>1. sgWrong' <= sgMem'.failures /\ sgMem'.failures < LockoutFailures
    BY <1>0, <1>3, <1>16 DEF FailuresAreCounted, Counts
  <2>2. sgWrong' <= sgDisk'.failures /\ sgDisk'.failures < LockoutFailures
    BY <1>0, <1>3, <1>16, <2>1 DEF FailuresAreCounted, Counts
  <2>3. QED
    BY <2>1, <2>2 DEF FailuresAreCounted, Counts
<1>24. QED
  BY <1>19, <1>20, <1>21, <1>22, <1>23 DEF SgInv

LEMMA SgStart == SgInit => SgInv
<1>0. SUFFICES ASSUME SgInit PROVE SgInv
  OBVIOUS
<1>1. /\ EmptyStore \in SgStores /\ EmptyStore.access = {} /\ EmptyStore.refresh = {}
      /\ EmptyStore.last = 0 /\ EmptyStore.failures = 0
  BY DEF EmptyStore, SgStores
<1>2. SgIdle \in SgStates /\ SgIdle.at = "idle"
  BY DEF SgStates, SgIdle
<1>3. SgTyped
  BY <1>0, <1>1, <1>2 DEF SgInit, SgTyped
<1>4. \A t \in SgThreads : sgThread[t].at = "idle"
  BY <1>0, <1>2 DEF SgInit
<1>5. StepsUsedOnce
  BY <1>0, <1>1, <1>4 DEF SgInit, StepsUsedOnce, Granting
<1>6. OriginsUsedOnce
  BY <1>0, <1>1, <1>4 DEF SgInit, OriginsUsedOnce, Used, Issuing, Stored, Named
<1>7. TokensAreKept
  BY <1>0 DEF SgInit, TokensAreKept, Keeps
<1>8. FailuresAreCounted
  BY <1>0, <1>1, SgAssumption DEF SgInit, FailuresAreCounted, Counts
<1>9. QED
  BY <1>3, <1>5, <1>6, <1>7, <1>8 DEF SgInv

LEMMA SgKeepsInv == SgInv /\ [SgNext]_sgVars => SgInv'
<1>0. SUFFICES ASSUME SgInv, [SgNext]_sgVars PROVE SgInv'
  OBVIOUS
<1>1. CASE \/ StartAuthorization \/ RestartGateway \/ SgTick \/ UNCHANGED sgVars
           \/ \E t \in SgThreads, p \in Serials, code \in {WrongCode} \cup (sgNow..(sgNow + StepsAhead)) :
                PostForm(t, p, code)
  BY <1>0, <1>1, SgQuietStep
<1>2. ASSUME NEW t \in SgThreads, VerifyCode(t) \/ GrantCode(t) \/ IssueTokens(t)
      PROVE  SgInv'
  BY <1>0, <1>2, VerifyStep, GrantStep, IssueStep
<1>3. ASSUME NEW t \in SgThreads, NEW c \in Serials, ExchangeCode(t, c)
      PROVE  SgInv'
  BY <1>0, <1>3, ExchangeCodeStep
<1>4. ASSUME NEW t \in SgThreads, NEW p \in sgPairs, ExchangeRefresh(t, p.id)
      PROVE  SgInv'
  <2>1. p.id \in Serials
    BY <1>0 DEF SgInv, SgTyped, SgPairs
  <2>2. QED
    BY <1>0, <1>4, <2>1, ExchangeRefreshStep
<1>5. QED
  BY <1>0, <1>1, <1>2, <1>3, <1>4 DEF SgNext

\* Every code of the authenticator, authorization code and refresh token is used once, a
\* client's tokens are accepted until they expire, and wrong codes are bounded, whatever
\* write to state.json fails and whenever the gateway restarts
\* (business159_claude_gateway.py).
THEOREM SignInStaysAccountable == SgSpec => []SignInIsAccountable
<1>1. SgInv => SignInIsAccountable
  <2>1. SUFFICES ASSUME SgInv PROVE SignInIsAccountable
    OBVIOUS
  <2>2. SgTyped /\ StepsUsedOnce /\ OriginsUsedOnce /\ TokensAreKept /\ FailuresAreCounted
    BY <2>1 DEF SgInv
  <2>3. SgTypeOK
    BY <2>2 DEF SgTyped, SgStores, SgTypeOK
  <2>4. UsedOnce
    BY <2>2 DEF UsedOnce, StepsUsedOnce, OriginsUsedOnce
  <2>5. ASSUME NEW p \in sgPairs, NEW store, Keeps(store)
        PROVE  /\ p.access > sgNow => BearerValid(store, p.id)
               /\ p.refresh > sgNow /\ p.id \notin sgPresented => Named(Live(store.refresh), p.id)
    <3>1. /\ [id |-> p.id, exp |-> p.access].exp = p.access /\ [id |-> p.id, exp |-> p.access].id = p.id
          /\ [id |-> p.id, exp |-> p.refresh].exp = p.refresh /\ [id |-> p.id, exp |-> p.refresh].id = p.id
      OBVIOUS
    <3>2. QED
      BY <2>5, <3>1 DEF Keeps, BearerValid, Named, Live
  <2>6. StaysSignedIn
    BY <2>2, <2>5 DEF StaysSignedIn, TokensAreKept
  <2>7. WrongCodesBounded
    <3>1. /\ sgWrong <= sgMem.failures /\ sgMem.failures < LockoutFailures /\ sgWrong \in Nat
          /\ sgMem.failures \in Nat /\ LockoutFailures \in Nat
      BY <2>2, SgAssumption DEF FailuresAreCounted, Counts, SgTyped, SgStores
    <3>2. QED
      BY <3>1 DEF WrongCodesBounded
  <2>8. QED
    BY <2>3, <2>4, <2>6, <2>7 DEF SignInIsAccountable
<1>2. QED
  BY <1>1, SgStart, SgKeepsInv, PTL DEF SgSpec

----------------------------------------------------------------------------
\* RuntimeMigration and ApacheRoute: the rollout of the outbound gateway.

\* What the migration script has done when it comes to each of its steps: which files
\* are its own, what it found, and what its rollback has put back so far if all of its
\* commands have succeeded.
MigrationIsOrdered ==
  rmStep # "idle" =>
    /\ rmBefore.files \subseteq rmFiles \ rmCreated
    /\ rmFiles \subseteq rmBefore.files \cup rmCreated \cup {RuntimeFiles[rmFile]}
    /\ rmCreated # {} => rmBefore.dropin = "none"
    /\ rmStep \in MigrationSteps \ {"flag"} => rmFiles \subseteq rmBefore.files \cup rmCreated
    /\ rmStep = "flag" => RuntimeFiles[rmFile] \notin rmBefore.files
    /\ rmStep \in {"roots", "create", "flag", "dropin"} => rmBefore.dropin = "none"
    /\ ~rmTrouble =>
         /\ rmStep \in {"rb_reload", "rb_restart", "rb_files"} => rmDropin = rmBefore.dropin
         /\ rmStep \in {"rb_restart", "rb_files"} => gwUnit = EntryPoint(rmDropin)
         /\ rmStep = "rb_files" => gwRuns \in {gwUnit, "down"}

MigrationInv == rmTrouble \in BOOLEAN /\ MigrationIsOrdered /\ MigrationIsReversible /\ RuntimeHasItsFiles

\* The route's state; a virtual host that an activation found has no include line.
Vhosts == [include : BOOLEAN, edit : Nat, torn : BOOLEAN]

RouteTyped ==
  /\ arVhost \in Vhosts /\ arSaved \in Vhosts /\ arTarget \in Vhosts
  /\ arFragment \in BOOLEAN /\ arServed \in BOOLEAN /\ arSignalled \in BOOLEAN
  /\ arTrouble \in BOOLEAN
  /\ arEdits \in Nat /\ arEvidence \subseteq Vhosts
  /\ \A before \in arEvidence : ~before.include /\ ~before.torn

\* No edit is made while a script runs, so both of its copies have them all, unless an
\* activation has found half of a copy.
CopiesAreCurrent ==
  /\ arStep # "idle" => arSaved.edit = arEdits \/ (arSaved.torn /\ arTrouble)
  /\ arStep \in ManualSteps => arSaved.edit = arEdits /\ arTarget.edit = arEdits

\* What the activation, and what its undoing, has done before each of its steps.
ActivationOrdered ==
  /\ arStep \in InstallSteps \cup {"undo_vhost", "undo_fragment", "undo_reload"} =>
       ~arSaved.include
  /\ arStep \in {"fragment", "mark", "patch"} => arVhost = arSaved
  /\ arStep \in {"mark", "patch", "reload", "probe", "record", "accept"} => arFragment
  /\ arStep \in {"reload", "probe", "record", "accept"} =>
       arVhost = Included(arSaved) /\ ~arSaved.torn
  /\ arStep \in {"record", "accept"} => arServed
  /\ arStep = "accept" => arSaved \in arEvidence
  /\ arStep \in {"undo_fragment", "undo_reload"} /\ ~arTrouble => arVhost = arSaved
  /\ arStep = "undo_reload" /\ ~arTrouble => ~arFragment

\* The same of a manual rollback as long as it has taken no signal.
ManualOrdered ==
  arStep \in ManualSteps =>
    /\ arSaved.include /\ ~arTarget.include
    /\ ~arSignalled =>
         /\ arStep # "old_vhost" => arVhost = arTarget
         /\ arStep \in {"old_reload", "old_probe", "old_record", "old_end"} => ~arFragment
         /\ arStep \in {"old_probe", "old_record", "old_end"} => ~arServed

RouteInv ==
  /\ RouteTyped /\ CopiesAreCurrent /\ ActivationOrdered /\ ManualOrdered
  /\ EndsAsReported /\ EditsAreKept
----------------------------------------------------------------------------
\* A set with at most the one element has a cardinality of at most one.
LEMMA AtMostOneFile ==
  ASSUME NEW S, NEW x, S \subseteq {x}
  PROVE  Cardinality(S) <= 1
<1>1. CASE S = {}
  BY <1>1, FS_EmptySet
<1>2. CASE S = {x}
  BY <1>2, FS_Singleton
<1>3. QED
  BY <1>1, <1>2

\* A step that is not the last of a script does not end it.
LEMMA MigrationGoesOn ==
  ASSUME rmStep' # "idle", rmTrouble' \in BOOLEAN, MigrationIsOrdered', RuntimeHasItsFiles'
  PROVE  MigrationInv'
BY DEF MigrationInv, MigrationIsReversible

\* The script ends otherwise than by a rollback.
LEMMA MigrationEnds ==
  ASSUME NEW outcome, outcome # "rolled_back", EndMigration(outcome),
         rmTrouble' \in BOOLEAN, RuntimeHasItsFiles'
  PROVE  MigrationInv'
BY DEF EndMigration, MigrationInv, MigrationIsOrdered, MigrationIsReversible

LEMMA MigrationStep ==
  ASSUME MigrationInv, [MigrationNext]_rmVars
  PROVE  MigrationInv'
<1>0. rmTrouble \in BOOLEAN /\ MigrationIsOrdered /\ MigrationIsReversible /\ RuntimeHasItsFiles
  BY DEF MigrationInv
<1>1. ASSUME BeginInstall \/ BeginDisable PROVE MigrationInv'
  <2>1. /\ rmStep' \in {"roots", "remove"} /\ rmCreated' = {} /\ rmFile' = 1
        /\ rmBefore' = [dropin |-> rmDropin, files |-> rmFiles]
        /\ rmTrouble' = ~RuntimeIsComplete
        /\ UNCHANGED <<rmDropin, rmFiles, rmOutcome, gwUnit, gwRuns>>
        /\ rmStep' = "roots" => rmDropin = "none"
    BY <1>1 DEF BeginInstall, BeginDisable, Begin
  <2>2. rmBefore'.dropin = rmDropin /\ rmBefore'.files = rmFiles
    BY <2>1
  <2>3. MigrationIsOrdered'
    BY <2>1, <2>2 DEF MigrationIsOrdered
  <2>4. RuntimeIsComplete' <=> RuntimeIsComplete
    BY <2>1 DEF RuntimeIsComplete, NeededFiles, AllFiles
  <2>5. rmTrouble' \in BOOLEAN /\ RuntimeHasItsFiles'
    BY <2>1, <2>4 DEF RuntimeHasItsFiles
  <2>6. QED
    BY <2>1, <2>3, <2>5, MigrationGoesOn
<1>2. ASSUME StopGateway PROVE MigrationInv'
  <2>1. MigrationIsOrdered' /\ RuntimeHasItsFiles'
    BY <1>0, <1>2 DEF StopGateway, MigrationIsOrdered, MigrationSteps, RuntimeHasItsFiles,
       RuntimeIsComplete
  <2>2. QED
    BY <1>0, <1>2, <2>1, MigrationGoesOn DEF StopGateway
<1>3. ASSUME CreateFile PROVE MigrationInv'
  <2>1. /\ rmStep = "create" /\ rmFiles' \in {rmFiles, rmFiles \cup {RuntimeFiles[rmFile]}}
        /\ UNCHANGED <<rmDropin, rmCreated, rmBefore, rmOutcome, rmTrouble, gwUnit, gwRuns>>
        /\ \/ rmFiles' = rmFiles /\ rmStep' \in {"create", "dropin"}
           \/ RuntimeFiles[rmFile] \notin rmFiles /\ rmStep' = "flag" /\ rmFile' = rmFile
    BY <1>3 DEF CreateFile, NextFile
  <2>2. MigrationIsOrdered'
    BY <1>0, <2>1 DEF MigrationIsOrdered, MigrationSteps
  <2>3. RuntimeHasItsFiles'
    BY <1>0, <2>1 DEF RuntimeHasItsFiles, RuntimeIsComplete, NeededFiles, AllFiles
  <2>4. QED
    BY <1>0, <2>1, <2>2, <2>3, MigrationGoesOn
<1>4. ASSUME FlagFile PROVE MigrationInv'
  <2>1. /\ rmStep = "flag" /\ rmCreated' = rmCreated \cup {RuntimeFiles[rmFile]}
        /\ UNCHANGED <<rmDropin, rmFiles, rmBefore, rmOutcome, rmTrouble, gwUnit, gwRuns>>
        /\ rmStep' \in {"create", "dropin"}
    BY <1>4 DEF FlagFile, NextFile
  <2>2. MigrationIsOrdered'
    BY <1>0, <2>1 DEF MigrationIsOrdered, MigrationSteps
  <2>3. QED
    BY <1>0, <2>1, <2>2, MigrationGoesOn DEF RuntimeHasItsFiles, RuntimeIsComplete, NeededFiles, AllFiles
<1>5. ASSUME WriteDropin \/ RemoveDropin \/ DaemonReload \/ MigrationFails
      PROVE  MigrationInv'
  <2>1. /\ UNCHANGED <<rmFiles, rmCreated, rmFile, rmBefore, rmOutcome, rmTrouble, gwRuns>>
        /\ rmStep' # "idle"
    BY <1>5 DEF WriteDropin, RemoveDropin, DaemonReload, MigrationFails
  <2>2. MigrationIsOrdered'
    <3>1. CASE WriteDropin
      BY <1>0, <2>1, <3>1 DEF WriteDropin, MigrationIsOrdered, MigrationSteps
    <3>2. CASE RemoveDropin
      BY <1>0, <2>1, <3>2 DEF RemoveDropin, MigrationIsOrdered, MigrationSteps
    <3>3. CASE DaemonReload
      BY <1>0, <2>1, <3>3 DEF DaemonReload, MigrationIsOrdered, MigrationSteps
    <3>4. CASE MigrationFails
      BY <1>0, <2>1, <3>4 DEF MigrationFails, MigrationIsOrdered, MigrationSteps
    <3>5. QED
      BY <1>5, <3>1, <3>2, <3>3, <3>4
  <2>3. QED
    BY <1>0, <2>1, <2>2, MigrationGoesOn DEF RuntimeHasItsFiles, RuntimeIsComplete, NeededFiles, AllFiles
<1>6. ASSUME StartGateway \/ RestartOld PROVE MigrationInv'
  <2>1. /\ UNCHANGED <<rmDropin, rmFiles, rmCreated, rmFile, rmBefore, rmOutcome, gwUnit>>
        /\ \/ rmStep = "start" /\ rmStep' = "verify" /\ gwRuns' \in Startable /\ rmTrouble' = rmTrouble
           \/ rmStep = "restart" /\ rmStep' = "check" /\ gwRuns' \in Startable /\ rmTrouble' = rmTrouble
           \/ /\ rmStep = "rb_restart" /\ rmStep' = "rb_files" /\ gwRuns' \in Startable \cup {gwRuns}
              /\ rmTrouble' = (rmTrouble \/ gwRuns' \notin Startable)
    BY <1>6 DEF StartGateway, RestartOld
  <2>2. /\ rmStep' # "idle" /\ rmTrouble' \in BOOLEAN
        /\ ~rmTrouble' => ~rmTrouble /\ gwRuns' \in Startable
    BY <1>0, <2>1
  <2>3. gwRuns' \in Startable =>
          gwRuns' \in {gwUnit, "down"} /\ (gwRuns' = "runtime" => NeededFiles \subseteq rmFiles)
    BY DEF Startable
  <2>4. MigrationIsOrdered'
    BY <1>0, <2>1, <2>2, <2>3 DEF MigrationIsOrdered, MigrationSteps, EntryPoint
  <2>5. RuntimeHasItsFiles'
    <3>1. CASE gwRuns' \in Startable
      BY <2>1, <2>3, <3>1 DEF RuntimeHasItsFiles, RuntimeIsComplete, NeededFiles, AllFiles
    <3>2. CASE gwRuns' \notin Startable
      BY <1>0, <2>1, <2>2, <3>2 DEF RuntimeHasItsFiles
    <3>3. QED
      BY <3>1, <3>2
  <2>6. QED
    BY <2>2, <2>4, <2>5, MigrationGoesOn
<1>7. ASSUME RestoreDropin \/ ReloadOld PROVE MigrationInv'
  <2>1. /\ UNCHANGED <<rmFiles, rmCreated, rmFile, rmBefore, rmOutcome, gwRuns>>
        /\ \/ /\ rmStep = "rb_dropin" /\ rmStep' = "rb_reload"
              /\ rmTrouble' = (rmTrouble \/ rmDropin' # rmBefore.dropin)
           \/ /\ rmStep = "rb_reload" /\ rmStep' = "rb_restart" /\ rmDropin' = rmDropin
              /\ rmTrouble' = (rmTrouble \/ gwUnit' # EntryPoint(rmDropin))
    BY <1>7 DEF RestoreDropin, ReloadOld
  <2>2. rmStep' # "idle" /\ rmTrouble' \in BOOLEAN /\ (~rmTrouble' => ~rmTrouble)
    BY <1>0, <2>1
  <2>3. MigrationIsOrdered'
    BY <1>0, <2>1, <2>2 DEF MigrationIsOrdered, MigrationSteps, EntryPoint
  <2>4. RuntimeHasItsFiles'
    BY <1>0, <2>1, <2>2 DEF RuntimeHasItsFiles, RuntimeIsComplete, NeededFiles, AllFiles
  <2>5. QED
    BY <2>2, <2>3, <2>4, MigrationGoesOn
<1>8. ASSUME CompleteMigration \/ MigrationKilled PROVE MigrationInv'
  <2>1. /\ UNCHANGED <<rmFiles, gwRuns, rmTrouble>>
        /\ EndMigration("installed") \/ EndMigration("disabled") \/ EndMigration("killed")
    BY <1>8 DEF CompleteMigration, MigrationKilled
  <2>2. RuntimeHasItsFiles'
    BY <1>0, <2>1 DEF RuntimeHasItsFiles, RuntimeIsComplete, NeededFiles, AllFiles
  <2>3. QED
    BY <1>0, <2>1, <2>2, MigrationEnds
<1>9. ASSUME UndoFiles PROVE MigrationInv'
  <2>1. PICK moved \in SUBSET rmCreated :
          rmFiles' = rmFiles \ moved /\ rmTrouble' = (rmTrouble \/ moved # rmCreated)
    BY <1>9 DEF UndoFiles, MovedAside
  <2>2. /\ rmStep = "rb_files" /\ rmStep' = "idle" /\ rmBefore' = rmBefore
        /\ UNCHANGED <<rmDropin, gwUnit, gwRuns>>
    BY <1>9 DEF UndoFiles, EndMigration
  <2>3. rmTrouble' \in BOOLEAN /\ (~rmTrouble' => ~rmTrouble /\ moved = rmCreated)
    BY <1>0, <2>1
  <2>4. rmBefore.files \subseteq rmFiles'
    BY <1>0, <2>1, <2>2 DEF MigrationIsOrdered
  <2>5. ASSUME ~rmTrouble'
        PROVE  /\ rmDropin = rmBefore.dropin
               /\ gwUnit = EntryPoint(rmDropin) /\ gwRuns \in {gwUnit, "down"}
               /\ Cardinality(rmFiles' \ rmBefore.files) <= 1
               /\ RuntimeIsComplete'
    <3>1. /\ rmDropin = rmBefore.dropin
          /\ gwUnit = EntryPoint(rmDropin) /\ gwRuns \in {gwUnit, "down"}
          /\ rmFiles' \ rmBefore.files \subseteq {RuntimeFiles[rmFile]}
      BY <1>0, <2>1, <2>2, <2>3, <2>5 DEF MigrationIsOrdered
    <3>2. Cardinality(rmFiles' \ rmBefore.files) <= 1
      BY <3>1, AtMostOneFile
    <3>3. CASE rmCreated = {}
      BY <1>0, <2>1, <2>2, <2>3, <2>5, <3>3, <3>1, <3>2
         DEF RuntimeHasItsFiles, RuntimeIsComplete, NeededFiles, AllFiles
    <3>4. CASE rmCreated # {}
      <4>1. gwRuns # "runtime"
        BY <1>0, <2>2, <3>1, <3>4 DEF MigrationIsOrdered, EntryPoint
      <4>2. QED
        BY <2>2, <3>1, <3>2, <4>1 DEF RuntimeIsComplete
    <3>5. QED
      BY <3>3, <3>4
  <2>6. RuntimeHasItsFiles' /\ MigrationIsReversible'
    BY <2>2, <2>3, <2>4, <2>5 DEF MigrationIsReversible, RuntimeHasItsFiles, EntryPoint
  <2>7. QED
    BY <2>2, <2>3, <2>6 DEF MigrationInv, MigrationIsOrdered
<1>10. ASSUME EditDropin \/ AdminStart \/ AdminClears PROVE MigrationInv'
  <2>1. rmStep' = "idle" /\ rmOutcome' = "none" /\ rmTrouble' = rmTrouble
    BY <1>10 DEF EditDropin, AdminStart, AdminClears
  <2>2. RuntimeHasItsFiles'
    <3>1. CASE EditDropin
      BY <1>0, <3>1 DEF EditDropin, RuntimeHasItsFiles, RuntimeIsComplete, NeededFiles, AllFiles
    <3>2. CASE AdminStart
      BY <3>2 DEF AdminStart, RuntimeHasItsFiles, RuntimeIsComplete, NeededFiles, AllFiles, EntryPoint
    <3>3. CASE AdminClears
      BY <3>3 DEF AdminClears, RuntimeHasItsFiles, RuntimeIsComplete
    <3>4. QED
      BY <1>10, <3>1, <3>2, <3>3
  <2>3. QED
    BY <1>0, <2>1, <2>2 DEF MigrationInv, MigrationIsOrdered, MigrationIsReversible
<1>11. CASE UNCHANGED rmVars
  BY <1>0, <1>11 DEF rmVars, MigrationInv, MigrationIsOrdered, MigrationIsReversible,
                     RuntimeHasItsFiles, RuntimeIsComplete, NeededFiles, AllFiles, EntryPoint
<1>12. QED
  BY <1>1, <1>2, <1>3, <1>4, <1>5, <1>6, <1>7, <1>8, <1>9, <1>10, <1>11 DEF MigrationNext
----------------------------------------------------------------------------
\* Including the line changes nothing else.
LEMMA IncludedVhost ==
  ASSUME NEW vhost \in Vhosts
  PROVE  /\ Included(vhost) \in Vhosts /\ Included(vhost).include
         /\ Included(vhost).edit = vhost.edit /\ Included(vhost).torn = vhost.torn
BY DEF Included, Vhosts

\* Half of a copy is a virtual host, and known as such.
LEMMA TornVhost ==
  ASSUME NEW vhost \in Vhosts, NEW torn \in TornCopies(vhost)
  PROVE  torn \in Vhosts /\ torn.torn = TRUE
<1>1. vhost.include \in BOOLEAN
  BY DEF Vhosts
<1>2. PICK b \in {FALSE, vhost.include} : torn = [include |-> b, edit |-> 0, torn |-> TRUE]
  BY DEF TornCopies
<1>3. QED
  BY <1>1, <1>2 DEF Vhosts

\* The script of the route ends with one of its outcomes.
LEMMA RouteEnds ==
  ASSUME RouteInv, NEW outcome, EndRoute(outcome),
         arVhost' \in Vhosts, arFragment' \in BOOLEAN, arServed' \in BOOLEAN, arTrouble' \in BOOLEAN,
         UNCHANGED <<arEvidence, arSignalled, arEdits>>, EditsAreKept', EndsAsReported'
  PROVE  RouteInv'
BY DEF RouteInv, RouteTyped, CopiesAreCurrent, ActivationOrdered, ManualOrdered, EditsAreKept,
       EndRoute, InstallSteps, ManualSteps, NoVhost, Vhosts

LEMMA RouteStep ==
  ASSUME RouteInv, [RouteNext]_arVars
  PROVE  RouteInv'
<1>0. /\ RouteTyped /\ CopiesAreCurrent /\ ActivationOrdered /\ ManualOrdered
      /\ EndsAsReported /\ EditsAreKept
  BY DEF RouteInv
<1>1. ASSUME BeginRoute PROVE RouteInv'
  BY <1>0, <1>1 DEF BeginRoute, RouteInv, RouteTyped, CopiesAreCurrent, ActivationOrdered, ManualOrdered,
     EditsAreKept, EndsAsReported, InstallSteps, ManualSteps, Vhosts
<1>2. ASSUME InstallFragment \/ MarkMutation PROVE RouteInv'
  BY <1>0, <1>2 DEF InstallFragment, MarkMutation, RouteInv, RouteTyped, CopiesAreCurrent,
     ActivationOrdered, ManualOrdered, EditsAreKept, EndsAsReported, InstallSteps, ManualSteps
<1>3. ASSUME PatchVhost PROVE RouteInv'
  <2>1. /\ arVhost' \in Vhosts /\ arVhost'.edit = arVhost.edit /\ arVhost'.torn = arVhost.torn
        /\ arVhost' = Included(arVhost)
    BY <1>0, <1>3, IncludedVhost DEF PatchVhost, RouteTyped
  <2>2. QED
    BY <1>0, <1>3, <2>1 DEF PatchVhost, RouteInv, RouteTyped, CopiesAreCurrent,
       ActivationOrdered, ManualOrdered, EditsAreKept, EndsAsReported, InstallSteps, ManualSteps
<1>4. ASSUME ReloadApache \/ ProbeRoutes \/ ConfirmRollback PROVE RouteInv'
  BY <1>0, <1>4 DEF ReloadApache, ProbeRoutes, ConfirmRollback, Route, RouteInv, RouteTyped,
     CopiesAreCurrent, ActivationOrdered, ManualOrdered, EditsAreKept, EndsAsReported,
     InstallSteps, ManualSteps, Vhosts
<1>5. ASSUME RecordRoute PROVE RouteInv'
  BY <1>0, <1>5 DEF RecordRoute, RouteInv, RouteTyped, CopiesAreCurrent, ActivationOrdered,
     ManualOrdered, EditsAreKept, EndsAsReported, InstallSteps, ManualSteps
<1>6. ASSUME AcceptRoute PROVE RouteInv'
  <2>1. /\ EndRoute("activated") /\ UNCHANGED <<arVhost, arFragment, arServed, arEvidence, arSignalled, arTrouble, arEdits>>
        /\ arStep = "accept"
    BY <1>6 DEF AcceptRoute
  <2>2. /\ arFragment /\ arServed /\ arSaved \in arEvidence
        /\ arVhost = Included(arSaved) /\ arVhost.include
    BY <1>0, <2>1, IncludedVhost DEF ActivationOrdered, RouteTyped
  <2>3. EndsAsReported'
    BY <2>1, <2>2 DEF EndsAsReported, EndRoute, Route, Unchanged
  <2>4. QED
    BY <1>0, <2>1, <2>3, RouteEnds DEF RouteTyped, EditsAreKept
<1>7. ASSUME RouteFails PROVE RouteInv'
  <2>1. CASE Undoes(arStep)
    <3>1. /\ arStep \in InstallSteps \ {"fragment", "mark"} /\ arStep' = "undo_vhost"
          /\ UNCHANGED <<arVhost, arFragment, arServed, arEvidence, arSaved, arTarget, arSignalled,
                         arTrouble, arOutcome, arEdits>>
      BY <1>7, <2>1 DEF RouteFails, Undoes
    <3>2. QED
      BY <1>0, <3>1 DEF RouteInv, RouteTyped, CopiesAreCurrent, ActivationOrdered, ManualOrdered,
         EditsAreKept, EndsAsReported, InstallSteps, ManualSteps
  <2>2. CASE ~Undoes(arStep)
    <3>1. /\ arStep \in {"fragment", "mark"} /\ EndRoute("refused")
          /\ UNCHANGED <<arVhost, arFragment, arServed, arEvidence, arSignalled, arTrouble, arEdits>>
      BY <1>7, <2>2 DEF RouteFails, Undoes
    <3>2. ~arVhost.include
      BY <1>0, <3>1 DEF ActivationOrdered, InstallSteps
    <3>3. EndsAsReported'
      BY <3>1, <3>2 DEF EndsAsReported, EndRoute
    <3>4. QED
      BY <1>0, <3>1, <3>3, RouteEnds DEF RouteTyped, EditsAreKept
  <2>3. QED
    BY <2>1, <2>2
<1>8. ASSUME UndoVhost \/ UndoFragment PROVE RouteInv'
  <2>1. CASE UndoVhost
    <3>1. /\ arStep = "undo_vhost" /\ arStep' = "undo_fragment"
          /\ \/ arVhost' = arSaved /\ arTrouble' = arTrouble
             \/ arVhost' = arVhost /\ arTrouble' = TRUE
             \/ arVhost' \in TornCopies(arSaved) /\ arTrouble' = TRUE
          /\ UNCHANGED <<arFragment, arServed, arEvidence, arSaved, arTarget, arSignalled,
                         arOutcome, arEdits>>
      BY <2>1 DEF UndoVhost
    <3>2. arVhost' \in Vhosts /\ EditsAreKept'
      BY <1>0, <3>1, TornVhost DEF RouteTyped, CopiesAreCurrent, EditsAreKept
    <3>3. QED
      BY <1>0, <3>1, <3>2 DEF RouteInv, RouteTyped, CopiesAreCurrent, ActivationOrdered,
         ManualOrdered, EndsAsReported, InstallSteps, ManualSteps
  <2>2. CASE UndoFragment
    BY <1>0, <2>2 DEF UndoFragment, RouteInv, RouteTyped, CopiesAreCurrent,
       ActivationOrdered, ManualOrdered, EditsAreKept, EndsAsReported, InstallSteps, ManualSteps
  <2>3. QED
    BY <1>8, <2>1, <2>2
<1>9. ASSUME UndoReload PROVE RouteInv'
  <2>1. /\ arStep = "undo_reload"
        /\ UNCHANGED <<arVhost, arFragment, arEvidence, arSignalled, arTrouble, arEdits>>
        /\ \/ arServed' = Route /\ EndRoute("undone")
           \/ arServed' = arServed /\ EndRoute("undone_not_loaded")
    BY <1>9 DEF UndoReload
  <2>2. ~arTrouble => ~arVhost.include /\ ~arFragment
    BY <1>0, <2>1 DEF ActivationOrdered
  <2>3. EndsAsReported' /\ arServed' \in BOOLEAN
    BY <1>0, <2>1, <2>2 DEF EndsAsReported, EndRoute, Route, RouteTyped
  <2>4. QED
    BY <1>0, <2>1, <2>3, RouteEnds DEF RouteTyped, EditsAreKept
<1>10. ASSUME NEW before \in arEvidence, BeginManual(before) PROVE RouteInv'
  <2>1. /\ before \in Vhosts /\ ~before.include /\ arVhost = Included(before)
        /\ arVhost.include /\ arVhost.edit = before.edit /\ ~arVhost.torn /\ arVhost.edit = arEdits
    BY <1>0, <1>10, IncludedVhost DEF RouteTyped, BeginManual, Unchanged, EditsAreKept
  <2>2. QED
    BY <1>0, <1>10, <2>1 DEF BeginManual, RouteInv, RouteTyped, CopiesAreCurrent, ActivationOrdered,
       ManualOrdered, EditsAreKept, EndsAsReported, InstallSteps, ManualSteps
<1>11. ASSUME OldVhost \/ OldFragment PROVE RouteInv'
  BY <1>0, <1>11 DEF OldVhost, OldFragment, RouteInv, RouteTyped, CopiesAreCurrent,
     ActivationOrdered, ManualOrdered, EditsAreKept, EndsAsReported, InstallSteps, ManualSteps
<1>12. ASSUME EndRollback PROVE RouteInv'
  <2>1. /\ arStep = "old_end" /\ EndRoute("restored")
        /\ UNCHANGED <<arVhost, arFragment, arServed, arEvidence, arSignalled, arTrouble, arEdits>>
    BY <1>12 DEF EndRollback
  <2>2. ~arSignalled => ~arVhost.include /\ ~arFragment /\ ~arServed
    BY <1>0, <2>1 DEF ManualOrdered, ManualSteps
  <2>3. EndsAsReported'
    BY <2>1, <2>2 DEF EndsAsReported, EndRoute
  <2>4. QED
    BY <1>0, <2>1, <2>3, RouteEnds DEF RouteTyped, EditsAreKept
<1>13. ASSUME RollbackRestore PROVE RouteInv'
  <2>1. /\ arStep \in ManualSteps /\ UNCHANGED <<arEvidence, arEdits>>
        /\ \/ arVhost' = arSaved /\ arFragment' = TRUE /\ arTrouble' = arTrouble
           \/ arVhost' \in {arSaved, arVhost} /\ arTrouble' = TRUE
           \/ arVhost' \in TornCopies(arSaved) /\ arTrouble' = TRUE
        /\ arFragment' \in {arFragment, TRUE} /\ arServed' \in {arServed, Route'}
        /\ \/ EndRoute("still_active") /\ UNCHANGED arSignalled
           \/ arSignalled' = TRUE /\ UNCHANGED <<arStep, arSaved, arTarget, arOutcome>>
    BY <1>13 DEF RollbackRestore
  <2>2. /\ arSaved \in Vhosts /\ arSaved.include /\ arSaved.edit = arEdits
        /\ arStep # "idle"
    BY <1>0, <2>1 DEF RouteTyped, ManualOrdered, CopiesAreCurrent, ManualSteps
  <2>3. arVhost' \in Vhosts /\ EditsAreKept' /\ arTrouble' \in BOOLEAN /\ arFragment' \in BOOLEAN
    BY <1>0, <2>1, <2>2, TornVhost DEF RouteTyped, EditsAreKept
  <2>4. arServed' \in BOOLEAN
    BY <1>0, <2>1, <2>3 DEF RouteTyped, Route, Vhosts
  <2>5. CASE EndRoute("still_active") /\ UNCHANGED arSignalled
    <3>1. ~arTrouble' => Route'
      BY <2>1, <2>2 DEF Route
    <3>2. EndsAsReported'
      BY <2>5, <3>1 DEF EndsAsReported, EndRoute
    <3>3. QED
      BY <2>1, <2>3, <2>4, <2>5, <3>2, RouteEnds
  <2>6. CASE arSignalled' = TRUE /\ UNCHANGED <<arStep, arSaved, arTarget, arOutcome>>
    BY <1>0, <2>1, <2>2, <2>3, <2>4, <2>6 DEF RouteInv, RouteTyped, CopiesAreCurrent,
       ActivationOrdered, ManualOrdered, EndsAsReported, InstallSteps, ManualSteps
  <2>7. QED
    BY <2>1, <2>5, <2>6
<1>14. ASSUME RouteKilled PROVE RouteInv'
  <2>1. /\ EndRoute("killed")
        /\ UNCHANGED <<arVhost, arFragment, arServed, arEvidence, arSignalled, arTrouble, arEdits>>
    BY <1>14 DEF RouteKilled
  <2>2. EndsAsReported'
    BY <2>1 DEF EndsAsReported, EndRoute
  <2>3. QED
    BY <1>0, <2>1, <2>2, RouteEnds DEF RouteTyped, EditsAreKept
<1>15. ASSUME EditVhost \/ AdminRemovesRoute PROVE RouteInv'
  <2>1. /\ arStep = "idle" /\ arOutcome' = "none"
        /\ UNCHANGED <<arEvidence, arStep, arSaved, arTarget, arSignalled>>
    BY <1>15 DEF EditVhost, AdminRemovesRoute
  <2>2. /\ arVhost' \in Vhosts /\ arEdits' \in Nat /\ arVhost'.edit = arEdits'
        /\ arTrouble' = arTrouble /\ arFragment' \in BOOLEAN /\ arServed' \in BOOLEAN
    <3>1. /\ arVhost \in Vhosts /\ arEdits \in Nat
          /\ arFragment \in BOOLEAN /\ arServed \in BOOLEAN
      BY <1>0 DEF RouteTyped, EditsAreKept
    <3>2. CASE EditVhost
      <4>1. /\ arEdits' = arEdits + 1 /\ arVhost' = [arVhost EXCEPT !.edit = arEdits + 1]
            /\ arFragment' = arFragment /\ arServed' = arServed /\ arTrouble' = arTrouble
        BY <3>2 DEF EditVhost
      <4>2. [arVhost EXCEPT !.edit = arEdits + 1] \in Vhosts
        BY <3>1 DEF Vhosts
      <4>3. [arVhost EXCEPT !.edit = arEdits + 1].edit = arEdits + 1
        BY <3>1 DEF Vhosts
      <4>4. QED
        BY <3>1, <4>1, <4>2, <4>3
    <3>3. CASE AdminRemovesRoute
      BY <3>1, <3>3 DEF AdminRemovesRoute, Vhosts
    <3>4. QED
      BY <1>15, <3>2, <3>3
  <2>3. QED
    BY <1>0, <2>1, <2>2 DEF RouteInv, RouteTyped, CopiesAreCurrent, ActivationOrdered,
       ManualOrdered, EditsAreKept, EndsAsReported, InstallSteps, ManualSteps
<1>16. CASE UNCHANGED arVars
  BY <1>0, <1>16 DEF arVars, RouteInv, RouteTyped, CopiesAreCurrent, ActivationOrdered,
     ManualOrdered, EditsAreKept, EndsAsReported, InstallSteps, ManualSteps, Route, Unchanged
<1>17. QED
  BY <1>1, <1>2, <1>3, <1>4, <1>5, <1>6, <1>7, <1>8, <1>9, <1>10, <1>11, <1>12, <1>13,
     <1>14, <1>15, <1>16 DEF RouteNext

\* Both scripts, for every list of runtime files and every number of edits, whatever step
\* of either fails, is interrupted or repeated while the other one runs: a rollback takes
\* no file away that was there before, nor an administrator's edit.  Unless a command of
\* the rollback itself has failed, it leaves what was found, the gateway does not run
\* without its files, and every way of ending the activation leaves what it reports.
THEOREM RolloutStaysReversible == RolloutSpec => []RolloutIsReversible
<1>1. RolloutInit => MigrationInv /\ RouteInv
  <2>1. SUFFICES ASSUME RolloutInit PROVE MigrationInv /\ RouteInv
    OBVIOUS
  <2>2. MigrationInv
    BY <2>1 DEF RolloutInit, MigrationInit, MigrationInv, MigrationIsOrdered, MigrationIsReversible,
       RuntimeHasItsFiles, RuntimeIsComplete
  <2>3. RouteInv
    BY <2>1 DEF RolloutInit, RouteInit, RouteInv, RouteTyped, CopiesAreCurrent, ActivationOrdered,
       ManualOrdered, EditsAreKept, EndsAsReported, InstallSteps, ManualSteps, NoVhost, Vhosts
  <2>4. QED
    BY <2>2, <2>3
<1>2. MigrationInv /\ RouteInv /\ [RolloutNext]_rolloutVars => (MigrationInv /\ RouteInv)'
  BY MigrationStep, RouteStep DEF RolloutNext, rolloutVars
<1>3. MigrationInv /\ RouteInv => RolloutIsReversible
  BY DEF MigrationInv, RouteInv, RolloutIsReversible
<1>4. QED
  BY <1>1, <1>2, <1>3, PTL DEF RolloutSpec

----------------------------------------------------------------------------
\* CommsIngest: the items and the cursors of the relay's ingestion.

\* The upstream group, the nntp cursor and what it counts from.
IngTyped ==
  /\ upstream \in [low : Nat \ {0}, arts : Seq(MessageIds), numbering : Nat]
  /\ {"nntp"} \subseteq DOMAIN ingCursor /\ ingCursor.nntp \in Int
  /\ ingCovers \in [numbering : Nat, base : Nat \ {0}]

\* The numbers from base to cursor are dealt with, or still in a run's batch.
DealtWith(n) ==
  \/ n < upstream.low \/ upstream.arts[n] \in Unfit
  \/ <<"nntp", upstream.arts[n]>> \in ingLedger
InBatch(n) == \E k \in DOMAIN ingRun.batch : ingRun.batch[k] = <<"nntp", upstream.arts[n]>>

\* The cursor is a number of the numbering that it counts in.
CursorIsOfNow ==
  /\ ingCovers.numbering <= upstream.numbering
  /\ ingCovers.numbering = upstream.numbering => ingCursor.nntp <= High

\* What a scan found, and the cursor that it will leave.
ScanIsSound ==
  LET scan == ingRun.more
      base == IF scan.fresh THEN scan.base ELSE ingCovers.base
      numbering == IF scan.fresh THEN scan.numbering ELSE ingCovers.numbering
  IN
  /\ scan.fresh \in BOOLEAN /\ scan.cursor \in Int
  /\ scan.numbering \in Nat /\ scan.base \in Nat \ {0}
  /\ ingCovers.numbering <= scan.numbering /\ scan.numbering <= upstream.numbering
  /\ numbering = upstream.numbering =>
       /\ scan.cursor <= High
       /\ \A n \in base..scan.cursor : DealtWith(n) \/ InBatch(n)

RunIsOrdered ==
  /\ ingRun.at \in {"idle", "list", "tip", "post", "cursor", "end"}
  /\ ingRun.at # "idle" => ingRun.left \in Int
  /\ ingRun.at \in {"tip", "cursor"} => ingRun.src = "git"
  /\ ingRun.at = "end" => DOMAIN ingRun.batch = {}
  /\ ingRun.at \in {"post", "end"} /\ ingRun.src = "nntp" => ScanIsSound

IngInv ==
  /\ IngTyped /\ CursorIsOfNow /\ CursorPassesNothing /\ RunIsOrdered
  /\ ingPosts \in [IngItems -> Nat] /\ ItemsPostedOnce
----------------------------------------------------------------------------
\* The larger and the smaller of two numbers.
LEMMA LargerOfTwo ==
  ASSUME NEW a \in Int, NEW b \in Int
  PROVE  Max({a, b}) \in {a, b} /\ Max({a, b}) >= a /\ Max({a, b}) >= b
<1>1. \E x \in {a, b} : \A y \in {a, b} : x >= y
  <2>1. CASE a >= b
    BY <2>1
  <2>2. CASE ~(a >= b)
    BY <2>2
  <2>3. QED
    BY <2>1, <2>2
<1>2. QED
  BY <1>1 DEF Max

LEMMA SmallerOfTwo ==
  ASSUME NEW a \in Int, NEW b \in Int
  PROVE  Min({a, b}) \in {a, b} /\ Min({a, b}) <= a /\ Min({a, b}) <= b
<1>1. \E x \in {a, b} : \A y \in {a, b} : x <= y
  <2>1. CASE a <= b
    BY <2>1
  <2>2. CASE ~(a <= b)
    BY <2>2
  <2>3. QED
    BY <2>1, <2>2
<1>2. QED
  BY <1>1 DEF Min

\* The budget cuts nothing off that it has room for.
LEMMA RoomForAll ==
  ASSUME NEW S, IsFiniteSet(S), S \subseteq Int, NEW n \in Int, Cardinality(S) <= n
  PROVE  FirstOf(S, n) = S
<1>1. SUFFICES ASSUME NEW c \in S PROVE Cardinality({d \in S : d < c}) < n
  BY DEF FirstOf
<1>2. {d \in S : d < c} \subseteq S \ {c}
  BY DEF FirstOf
<1>3. IsFiniteSet(S \ {c}) /\ Cardinality(S \ {c}) = Cardinality(S) - 1
  BY FS_RemoveElement
<1>4. Cardinality({d \in S : d < c}) <= Cardinality(S \ {c})
  BY <1>2, <1>3, FS_Subset
<1>5. Cardinality({d \in S : d < c}) \in Nat /\ Cardinality(S) \in Nat
  BY <1>2, <1>3, FS_Subset, FS_CardinalityType
<1>6. QED
  BY <1>3, <1>4, <1>5

\* Where a scan starts and ends: at the first article that is there, after the cursor
\* when it counts.
LEMMA ScanBounds ==
  ASSUME IngTyped
  PROVE  /\ High \in Nat
         /\ ScanStart \in Nat \ {0} /\ ScanStart >= upstream.low
         /\ ~Fresh => ScanStart = upstream.low \/ ScanStart = ingCursor.nntp + 1
         /\ ScanEnd \in Int /\ ScanEnd <= High
<1>1. High \in Nat /\ upstream.low \in Nat \ {0} /\ ingCursor.nntp \in Int
  BY LenProperties DEF IngTyped, High
<1>2. InitialItems \in Nat /\ ScanLimit \in Nat
  BY IngestAssumption
<1> DEFINE from == IF Fresh THEN High - InitialItems + 1 ELSE ingCursor.nntp + 1
<1>3. from \in Int
  BY <1>1, <1>2
<1>4. /\ ScanStart \in {upstream.low, from} /\ ScanStart >= upstream.low
  <2>1. ScanStart = Max({upstream.low, from})
    BY DEF ScanStart
  <2> HIDE DEF from
  <2>2. upstream.low \in Int
    BY <1>1
  <2>3. QED
    BY <1>3, <2>1, <2>2, LargerOfTwo
<1>5. ScanStart \in Int
  BY <1>1, <1>3, <1>4
<1>6. ScanEnd \in {High, ScanStart + ScanLimit - 1} /\ ScanEnd <= High
  <2>1. High \in Int /\ ScanStart + ScanLimit - 1 \in Int
    BY <1>1, <1>2, <1>5
  <2>2. QED
    BY <2>1, SmallerOfTwo DEF ScanEnd
<1>7. QED
  BY <1>1, <1>2, <1>3, <1>4, <1>5, <1>6

\* A scan takes up every number that it passes and that is wanted.
LEMMA ScanFindsAll ==
  ASSUME IngTyped, ingRun.left \in Int, NEW last \in 0..High, ScanStops(last)
  PROVE  /\ \A n \in ScanStart..last : DealtWith(n) \/ n \in Wanted
         /\ {k \in Wanted : k <= last} \subseteq Nat
         /\ FirstOf({k \in Wanted : k <= last}, ingRun.left) = {k \in Wanted : k <= last}
<1>1. /\ High \in Nat /\ ScanStart \in Nat \ {0} /\ ScanEnd \in Int /\ ScanEnd <= High
  BY ScanBounds
<1>2. Wanted \subseteq ScanStart..ScanEnd /\ IsFiniteSet(ScanStart..ScanEnd)
  <2>1. Wanted \subseteq ScanStart..ScanEnd
    BY DEF Wanted
  <2>2. ScanStart \in Int
    BY <1>1
  <2>3. QED
    BY <1>1, <2>1, <2>2, FS_Interval
<1> DEFINE taken == {k \in Wanted : k <= last}
<1>3. /\ taken \subseteq Nat /\ IsFiniteSet(taken) /\ Cardinality(taken) \in Nat
  <2>1. taken \subseteq ScanStart..ScanEnd
    BY <1>2
  <2>2. taken \subseteq Nat
    BY <1>1, <2>1
  <2>3. IsFiniteSet(taken)
    BY <1>2, <2>1, FS_Subset
  <2>4. QED
    BY <2>2, <2>3, FS_CardinalityType
<1>4. CASE ScanStart > High
  <2>1. last = High
    BY <1>4 DEF ScanStops
  <2>2. taken = {}
    <3>1. ScanStart..ScanEnd = {}
      BY <1>1, <1>4
    <3>2. QED
      BY <1>2, <3>1
  <2>3. FirstOf(taken, ingRun.left) = {}
    BY <2>2 DEF FirstOf
  <2>4. QED
    BY <1>1, <1>3, <1>4, <2>1, <2>2, <2>3
<1>5. CASE ~(ScanStart > High)
  <2>1. last \in ScanStart..ScanEnd /\ Cardinality(taken) <= ingRun.left
    BY <1>1, <1>3, <1>5 DEF ScanStops
  <2>2. FirstOf(taken, ingRun.left) = taken
    BY <1>3, <2>1, RoomForAll
  <2>3. \A n \in ScanStart..last : DealtWith(n) \/ n \in Wanted
    BY <1>1, <2>1 DEF DealtWith, Wanted
  <2>4. QED
    BY <1>3, <2>2, <2>3
<1>6. QED
  BY <1>4, <1>5

\* A step of the run that neither posts nor moves a cursor.
LEMMA QuietIngest ==
  ASSUME IngInv, RunIsOrdered',
         UNCHANGED <<upstream, ingCursor, ingCovers, ingLedger, ingPosts>>
  PROVE  IngInv'
BY DEF IngInv, IngTyped, CursorIsOfNow, CursorPassesNothing, ItemsPostedOnce, High

\* The candidates that Candidates() leaves, for a source other than the upstream reader.
LEMMA OtherCandidates ==
  ASSUME IngInv, NEW items, NEW more, Candidates(items, more), ingRun.src # "nntp",
         ingRun.at # "idle",
         UNCHANGED <<upstream, ingCursor, ingCovers, ingLedger, ingPosts>>
  PROVE  IngInv'
<1> DEFINE cut == FirstOf(DOMAIN items, ingRun.left)
<1>1. ingRun' = [at |-> IF cut = {} THEN "end" ELSE "post", src |-> ingRun.src,
                 nth |-> ingRun.nth, left |-> ingRun.left, batch |-> Restrict(items, cut),
                 none |-> cut = {}, more |-> more]
  BY DEF Candidates
<1> HIDE DEF cut
<1>2. /\ ingRun'.at = (IF cut = {} THEN "end" ELSE "post") /\ ingRun'.src # "nntp"
      /\ ingRun'.left = ingRun.left /\ DOMAIN ingRun'.batch = cut
  BY <1>1 DEF Restrict
<1>3. RunIsOrdered'
  BY <1>2 DEF IngInv, RunIsOrdered
<1>4. QED
  BY <1>3, QuietIngest

\* Where a run stands between two sources.
LEMMA EnterIsOrdered ==
  ASSUME NEW k, NEW left \in Int, ingRun' = Enter(k, left)
  PROVE  RunIsOrdered' /\ ingRun'.at \in {"idle", "list"}
BY DEF Enter, IngIdle, RunIsOrdered

\* The scan of the upstream group.
LEMMA PullStep ==
  ASSUME IngInv, PullArticles
  PROVE  IngInv'
<1>0. IngTyped /\ CursorIsOfNow /\ CursorPassesNothing /\ RunIsOrdered
  BY DEF IngInv
<1>1. PICK last \in 0..High :
        /\ ScanStops(last)
        /\ Candidates([n \in {k \in Wanted : k <= last} |-> <<"nntp", upstream.arts[n]>>],
                      [cursor |-> ScanCursor(last), fresh |-> Fresh \/ High = 0,
                       base |-> IF High = 0 THEN 1 ELSE ScanStart,
                       numbering |-> upstream.numbering])
  BY DEF PullArticles
<1>2. /\ ingRun.at = "list" /\ ingRun.src = "nntp" /\ ingRun.left \in Int
      /\ UNCHANGED <<upstream, ingCursor, ingCovers, ingLedger, ingPosts>>
  BY <1>0 DEF PullArticles, RunIsOrdered, ingHistory
<1> DEFINE taken == {k \in Wanted : k <= last}
           items == [n \in taken |-> <<"nntp", upstream.arts[n]>>]
           scan == [cursor |-> ScanCursor(last), fresh |-> Fresh \/ High = 0,
                    base |-> IF High = 0 THEN 1 ELSE ScanStart,
                    numbering |-> upstream.numbering]
<1>3. /\ \A n \in ScanStart..last : DealtWith(n) \/ n \in Wanted
      /\ FirstOf(taken, ingRun.left) = taken
  BY <1>0, <1>1, <1>2, ScanFindsAll
<1>4. ingRun' = [at |-> IF taken = {} THEN "end" ELSE "post", src |-> ingRun.src,
                 nth |-> ingRun.nth, left |-> ingRun.left, batch |-> Restrict(items, taken),
                 none |-> taken = {}, more |-> scan]
  <2>1. DOMAIN items = taken
    OBVIOUS
  <2>2. Candidates(items, scan)
    BY <1>1
  <2> HIDE DEF items, scan, taken
  <2>3. QED
    BY <1>3, <2>1, <2>2 DEF Candidates
<1>5. /\ ingRun'.at = (IF taken = {} THEN "end" ELSE "post") /\ ingRun'.left \in Int
      /\ ingRun'.src = "nntp" /\ ingRun'.batch = items /\ ingRun'.more = scan
  <2>1. Restrict(items, taken) = items
    BY DEF Restrict
  <2> HIDE DEF items, scan, taken
  <2>2. QED
    BY <1>2, <1>4, <2>1
<1>6. /\ ingRun'.more.fresh = (Fresh \/ High = 0) /\ ingRun'.more.cursor = last
      /\ ingRun'.more.base = (IF High = 0 THEN 1 ELSE ScanStart)
      /\ ingRun'.more.numbering = upstream.numbering
  BY <1>5 DEF ScanCursor
<1>7. /\ High \in Nat /\ ScanStart \in Nat \ {0} /\ ScanStart >= upstream.low
      /\ ~Fresh => ScanStart = upstream.low \/ ScanStart = ingCursor.nntp + 1
  BY <1>0, ScanBounds
<1>8. ASSUME NEW n \in ScanStart..last PROVE DealtWith(n) \/ InBatch(n)'
  <2>1. CASE n \in Wanted
    <3>1. n \in taken /\ items[n] = <<"nntp", upstream.arts[n]>> /\ DOMAIN items = taken
      BY <1>7, <1>8, <2>1
    <3>2. QED
      BY <1>2, <1>5, <3>1 DEF InBatch
  <2>2. QED
    BY <1>3, <1>8, <2>1
<1>9. ASSUME NEW n PROVE DealtWith(n) => DealtWith(n)'
  BY <1>2 DEF DealtWith
<1>10. ScanIsSound'
  <2>1. /\ ingRun'.more.fresh \in BOOLEAN /\ ingRun'.more.cursor \in Int
        /\ ingRun'.more.numbering \in Nat /\ ingRun'.more.base \in Nat \ {0}
        /\ ingCovers'.numbering <= ingRun'.more.numbering
        /\ ingRun'.more.numbering <= upstream'.numbering
        /\ ingRun'.more.cursor <= High'
    BY <1>0, <1>2, <1>6, <1>7 DEF IngTyped, CursorIsOfNow, High
  <2>2. CASE ingRun'.more.fresh
    <3>1. \A n \in ingRun'.more.base..ingRun'.more.cursor : DealtWith(n)' \/ InBatch(n)'
      BY <1>6, <1>7, <1>8, <1>9
    <3>2. QED
      BY <2>1, <2>2, <3>1 DEF ScanIsSound
  <2>3. CASE ~ingRun'.more.fresh
    <3>1. ~Fresh /\ ingCursor.nntp \in Int /\ ingCovers.base \in Nat \ {0}
      BY <1>0, <1>6, <2>3 DEF IngTyped
    <3>2. SUFFICES ASSUME ingCovers.numbering = upstream.numbering,
                          NEW n \in ingCovers.base..last
                   PROVE  DealtWith(n)' \/ InBatch(n)'
      BY <1>2, <1>6, <2>1, <2>3 DEF ScanIsSound
    <3>3. CASE n <= ingCursor.nntp
      <4>1. n \in ingCovers.base..ingCursor.nntp
        BY <1>0, <3>1, <3>2, <3>3
      <4>2. DealtWith(n)
        BY <1>0, <3>2, <4>1 DEF CursorPassesNothing, DealtWith
      <4>3. QED
        BY <1>9, <4>2
    <3>4. CASE n \in ScanStart..last
      BY <1>8, <1>9, <3>4
    <3>5. CASE n < upstream.low
      BY <1>9, <3>5 DEF DealtWith
    <3>6. QED
      BY <1>0, <1>7, <3>1, <3>2, <3>3, <3>4, <3>5 DEF IngTyped
  <2>4. QED
    BY <2>1, <2>2, <2>3
<1>11. RunIsOrdered'
  <2>1. DOMAIN ingRun'.batch = taken
    BY <1>5
  <2>2. QED
    BY <1>5, <1>10, <2>1 DEF RunIsOrdered
<1>12. QED
  BY <1>2, <1>11, QuietIngest

\* A scan stays sound while the numbering and the cursor stay and nothing that was dealt
\* with, or is still in the batch, is lost.
LEMMA ScanStays ==
  ASSUME IngTyped, ScanIsSound, ingRun'.more = ingRun.more, ingCovers' = ingCovers,
         upstream'.numbering = upstream.numbering, High' \in Int, High <= High',
         \A n \in 1..High : DealtWith(n) \/ InBatch(n) => (DealtWith(n) \/ InBatch(n))'
  PROVE  ScanIsSound'
<1> DEFINE scan == ingRun.more
           base == IF scan.fresh THEN scan.base ELSE ingCovers.base
           numbering == IF scan.fresh THEN scan.numbering ELSE ingCovers.numbering
<1>1. /\ scan.fresh \in BOOLEAN /\ scan.cursor \in Int
      /\ scan.numbering \in Nat /\ scan.base \in Nat \ {0}
      /\ ingCovers.numbering <= scan.numbering /\ scan.numbering <= upstream.numbering
      /\ numbering = upstream.numbering =>
           /\ scan.cursor <= High
           /\ \A n \in base..scan.cursor : DealtWith(n) \/ InBatch(n)
  BY DEF ScanIsSound
<1>2. High \in Nat /\ base \in Nat \ {0}
  BY <1>1, LenProperties DEF IngTyped, High
<1>3. scan' = scan /\ base' = base /\ numbering' = numbering
  OBVIOUS
<1>4. ASSUME numbering = upstream.numbering
      PROVE  /\ scan.cursor <= High'
             /\ \A n \in base..scan.cursor : (DealtWith(n) \/ InBatch(n))'
  <2> HIDE DEF scan, base, numbering
  <2>1. base..scan.cursor \subseteq 1..High
    BY <1>1, <1>2, <1>4
  <2>2. QED
    BY <1>1, <1>2, <1>4, <2>1
<1>5. ScanIsSound' <=>
        /\ scan'.fresh \in BOOLEAN /\ scan'.cursor \in Int
        /\ scan'.numbering \in Nat /\ scan'.base \in Nat \ {0}
        /\ ingCovers'.numbering <= scan'.numbering
        /\ scan'.numbering <= upstream'.numbering
        /\ numbering' = upstream'.numbering =>
             /\ scan'.cursor <= High'
             /\ \A n \in base'..scan'.cursor : (DealtWith(n) \/ InBatch(n))'
  BY DEF ScanIsSound
<1> HIDE DEF scan, base, numbering
<1>6. QED
  BY <1>1, <1>3, <1>4, <1>5

\* A candidate is posted, was there already, or is refused.
LEMMA PostStep ==
  ASSUME IngInv, PostItem
  PROVE  IngInv'
<1>0. /\ IngTyped /\ CursorIsOfNow /\ CursorPassesNothing /\ RunIsOrdered
      /\ ingPosts \in [IngItems -> Nat] /\ ItemsPostedOnce
  BY DEF IngInv
<1>1. PICK n \in DOMAIN ingRun.batch :
        LET i == ingRun.batch[n]
            spent == [ingRun EXCEPT !.left = @ - 1]
        IN
        \/ i \in Unpostable /\ ingRun' = IngIdle /\ UNCHANGED <<ingLedger, ingPosts>>
        \/ /\ ingRun' = IF ingRun.src = "git" THEN [spent EXCEPT !.at = "cursor"]
                         ELSE Advance(spent, n)
           /\ \/ i \in ingLedger /\ UNCHANGED <<ingLedger, ingPosts>>
              \/ /\ i \notin ingLedger /\ ingLedger' = ingLedger \cup {i}
                 /\ ingPosts' = [ingPosts EXCEPT ![i] = @ + 1]
  BY DEF PostItem, AlreadyIngested
<1> DEFINE i == ingRun.batch[n]
           spent == [ingRun EXCEPT !.left = @ - 1]
<1>2. UNCHANGED <<upstream, ingCursor, ingCovers>> /\ ingRun.at = "post"
  BY DEF PostItem
<1>3. ingLedger \subseteq ingLedger'
  BY <1>1
<1>4. ingPosts' \in [IngItems -> Nat] /\ ItemsPostedOnce'
  <2>1. CASE UNCHANGED <<ingLedger, ingPosts>>
    BY <1>0, <2>1 DEF ItemsPostedOnce
  <2>2. CASE /\ i \notin ingLedger /\ ingLedger' = ingLedger \cup {i}
             /\ ingPosts' = [ingPosts EXCEPT ![i] = @ + 1]
    <3> HIDE DEF i
    <3>1. i \in IngItems => ingPosts[i] = 0
      BY <1>0, <2>2 DEF ItemsPostedOnce
    <3>2. ingPosts' \in [IngItems -> Nat]
      <4>1. CASE i \in IngItems
        BY <1>0, <2>2, <3>1, <4>1
      <4>2. CASE i \notin IngItems
        BY <1>0, <2>2, <4>2
      <4>3. QED
        BY <4>1, <4>2
    <3>3. ASSUME NEW j \in IngItems
          PROVE  ingPosts'[j] = IF j \in ingLedger' THEN 1 ELSE 0
      <4>1. CASE j = i
        BY <1>0, <2>2, <3>1, <4>1
      <4>2. CASE j # i
        BY <1>0, <2>2, <4>2 DEF ItemsPostedOnce
      <4>3. QED
        BY <4>1, <4>2
    <3>4. QED
      BY <3>2, <3>3 DEF ItemsPostedOnce
  <2>3. QED
    BY <1>1, <2>1, <2>2
<1>5. IngTyped' /\ CursorIsOfNow' /\ CursorPassesNothing'
  BY <1>0, <1>2, <1>3 DEF IngTyped, CursorIsOfNow, CursorPassesNothing, High
<1>6. RunIsOrdered'
  <2>1. CASE ingRun' = IngIdle
    BY <2>1 DEF IngIdle, RunIsOrdered
  <2>2. CASE ingRun.src = "git" /\ ingRun' = [spent EXCEPT !.at = "cursor"]
    <3>1. /\ ingRun'.at = "cursor" /\ ingRun'.src = "git" /\ ingRun'.left \in Int
      BY <1>0, <1>2, <2>2 DEF RunIsOrdered
    <3>2. QED
      BY <3>1 DEF RunIsOrdered
  <2>3. CASE ingRun.src # "git" /\ i \in ingLedger' /\ ingRun' = Advance(spent, n)
    <3> DEFINE rest == DOMAIN ingRun.batch \ {n}
    <3>1. /\ ingRun'.at = (IF rest = {} THEN "end" ELSE "post")
          /\ ingRun'.src = ingRun.src /\ ingRun'.left = ingRun.left - 1
          /\ ingRun'.batch = Restrict(ingRun.batch, rest) /\ ingRun'.more = ingRun.more
      BY <2>3 DEF Advance
    <3>2. DOMAIN ingRun'.batch = rest /\ \A k \in rest : ingRun'.batch[k] = ingRun.batch[k]
      BY <3>1 DEF Restrict
    <3>3. ASSUME NEW m, DealtWith(m) \/ InBatch(m) PROVE (DealtWith(m) \/ InBatch(m))'
      <4>1. DealtWith(m) => DealtWith(m)'
        BY <1>2, <1>3 DEF DealtWith
      <4>2. ASSUME NEW k \in DOMAIN ingRun.batch, ingRun.batch[k] = <<"nntp", upstream.arts[m]>>
            PROVE  (DealtWith(m) \/ InBatch(m))'
        <5>1. CASE k = n
          BY <1>2, <2>3, <4>2, <5>1 DEF DealtWith
        <5>2. CASE k # n
          BY <1>2, <3>2, <4>2, <5>2 DEF InBatch
        <5>3. QED
          BY <5>1, <5>2
      <4>3. QED
        BY <3>3, <4>1, <4>2 DEF InBatch
    <3>4. ingRun.src = "nntp" => ScanIsSound'
      <4>1. SUFFICES ASSUME ingRun.src = "nntp" PROVE ScanIsSound'
        OBVIOUS
      <4>2. ScanIsSound
        BY <1>0, <1>2, <4>1 DEF RunIsOrdered
      <4>3. QED
        BY <1>0, <1>2, <3>1, <3>3, <4>2, ScanStays DEF High
    <3>5. ingRun.left \in Int
      BY <1>0, <1>2 DEF RunIsOrdered
    <3>6. /\ ingRun'.at \in {"post", "end"} /\ ingRun'.left \in Int
          /\ ingRun'.at = "end" => DOMAIN ingRun'.batch = {}
          /\ ingRun'.src = "nntp" => ScanIsSound'
      <4> HIDE DEF rest
      <4>1. QED
        BY <3>1, <3>2, <3>4, <3>5
    <3>7. QED
      BY <3>6 DEF RunIsOrdered
  <2>4. QED
    BY <1>1, <2>1, <2>2, <2>3
<1>7. QED
  BY <1>4, <1>5, <1>6 DEF IngInv

\* The end of a source: the cursor is what the scan promised.
LEMMA EndStep ==
  ASSUME IngInv, EndSource
  PROVE  IngInv'
<1>0. /\ IngTyped /\ CursorIsOfNow /\ CursorPassesNothing /\ RunIsOrdered
      /\ ingPosts \in [IngItems -> Nat] /\ ItemsPostedOnce
  BY DEF IngInv
<1>1. /\ ingRun.at = "end" /\ ingRun' = Enter(ingRun.nth + 1, ingRun.left)
      /\ UNCHANGED <<upstream, ingLedger, ingPosts>>
  BY DEF EndSource
<1>2. RunIsOrdered'
  BY <1>0, <1>1, EnterIsOrdered DEF RunIsOrdered
<1>3. CASE ingRun.src # "nntp"
  <2>1. ingCovers' = ingCovers
    BY <1>3 DEF EndSource
  <2>2. ingCursor' = ingCursor \/ ingCursor' = [ingCursor EXCEPT !.git = ingRun.more.tip]
    BY <1>3 DEF EndSource
  <2>3. ingCursor'.nntp = ingCursor.nntp /\ {"nntp"} \subseteq DOMAIN ingCursor'
    BY <1>0, <2>2 DEF IngTyped
  <2>4. QED
    BY <1>0, <1>1, <1>2, <2>1, <2>3
       DEF IngInv, IngTyped, CursorIsOfNow, CursorPassesNothing, ItemsPostedOnce, High
<1>4. CASE ingRun.src = "nntp"
  <2> DEFINE scan == ingRun.more
  <2>1. /\ ingCursor' = [ingCursor EXCEPT !.nntp = scan.cursor]
        /\ ingCovers' = IF scan.fresh
                        THEN [numbering |-> scan.numbering, base |-> scan.base] ELSE ingCovers
    BY <1>4 DEF EndSource
  <2>2. ScanIsSound /\ DOMAIN ingRun.batch = {}
    BY <1>0, <1>1, <1>4 DEF RunIsOrdered
  <2>3. ingCursor'.nntp = scan.cursor /\ {"nntp"} \subseteq DOMAIN ingCursor'
    BY <1>0, <2>1 DEF IngTyped
  <2>4. /\ scan.fresh \in BOOLEAN /\ scan.cursor \in Int
        /\ scan.numbering \in Nat /\ scan.base \in Nat \ {0}
        /\ scan.numbering <= upstream.numbering
    BY <2>2 DEF ScanIsSound
  <2>5. /\ ingCovers'.base = IF scan.fresh THEN scan.base ELSE ingCovers.base
        /\ ingCovers'.numbering = IF scan.fresh THEN scan.numbering ELSE ingCovers.numbering
        /\ ingCovers' \in [numbering : Nat, base : Nat \ {0}]
    BY <1>0, <2>1, <2>4 DEF IngTyped
  <2>6. ASSUME ingCovers'.numbering = upstream.numbering
        PROVE  /\ scan.cursor <= High
               /\ \A n \in ingCovers'.base..scan.cursor : DealtWith(n)
    <3>1. \A n : ~InBatch(n)
      BY <2>2 DEF InBatch
    <3>2. QED
      BY <2>2, <2>5, <2>6, <3>1 DEF ScanIsSound
  <2>7. IngTyped'
    BY <1>0, <1>1, <2>3, <2>4, <2>5 DEF IngTyped
  <2>8. CursorIsOfNow'
    BY <1>0, <1>1, <2>3, <2>4, <2>5, <2>6 DEF CursorIsOfNow, High
  <2>9. CursorPassesNothing'
    BY <1>1, <2>3, <2>6 DEF CursorPassesNothing, DealtWith
  <2>10. QED
    BY <1>0, <1>1, <1>2, <2>7, <2>8, <2>9 DEF IngInv, ItemsPostedOnce
<1>5. QED
  BY <1>3, <1>4

\* The upstream group grows or loses its oldest articles.
LEMMA UpstreamMoves ==
  ASSUME IngInv, UNCHANGED <<ingRun, ingCursor, ingCovers, ingLedger, ingPosts>>,
         upstream' \in [low : Nat \ {0}, arts : Seq(MessageIds), numbering : Nat],
         upstream'.numbering = upstream.numbering, upstream.low <= upstream'.low,
         High' \in Int, High <= High',
         \A n \in 1..High : upstream'.arts[n] = upstream.arts[n]
  PROVE  IngInv'
<1>0. /\ IngTyped /\ CursorIsOfNow /\ CursorPassesNothing /\ RunIsOrdered
      /\ ingPosts \in [IngItems -> Nat] /\ ItemsPostedOnce
  BY DEF IngInv
<1>1. High \in Nat /\ upstream.low \in Nat /\ upstream'.low \in Nat
  BY <1>0, LenProperties DEF IngTyped, High
<1>2. IngTyped' /\ CursorIsOfNow'
  BY <1>0, <1>1 DEF IngTyped, CursorIsOfNow
<1>3. \A n \in 1..High : DealtWith(n) => DealtWith(n)'
  BY <1>1 DEF DealtWith
<1>4. \A n \in 1..High : DealtWith(n) \/ InBatch(n) => (DealtWith(n) \/ InBatch(n))'
  BY <1>3 DEF InBatch
<1>5. CursorPassesNothing'
  <2>1. SUFFICES ASSUME ingCovers.numbering = upstream.numbering,
                        NEW n \in ingCovers.base..ingCursor.nntp
                 PROVE  DealtWith(n)'
    BY DEF CursorPassesNothing, DealtWith
  <2>2. n \in 1..High
    BY <1>0, <1>1, <2>1 DEF IngTyped, CursorIsOfNow
  <2>3. DealtWith(n)
    BY <1>0, <2>1 DEF CursorPassesNothing, DealtWith
  <2>4. QED
    BY <1>3, <2>2, <2>3
<1>6. ScanIsSound => ScanIsSound'
  BY <1>0, <1>4, ScanStays
<1>7. QED
  BY <1>0, <1>2, <1>5, <1>6 DEF IngInv, RunIsOrdered, ItemsPostedOnce

\* The upstream group is renumbered: nothing that was counted before counts.
LEMMA RenumberStep ==
  ASSUME IngInv, UpstreamRenumbers
  PROVE  IngInv'
<1>0. /\ IngTyped /\ CursorIsOfNow /\ RunIsOrdered
      /\ ingPosts \in [IngItems -> Nat] /\ ItemsPostedOnce
  BY DEF IngInv
<1>1. /\ upstream' = [low |-> 1, arts |-> SubSeq(upstream.arts, upstream.low, High),
                      numbering |-> upstream.numbering + 1]
      /\ UNCHANGED <<ingRun, ingCursor, ingCovers, ingLedger, ingPosts>>
  BY DEF UpstreamRenumbers, ingTables, ingHistory
<1>2. SubSeq(upstream.arts, upstream.low, High) \in Seq(MessageIds)
  <2>1. /\ upstream.arts \in Seq(MessageIds) /\ upstream.low \in Nat \ {0}
        /\ High = Len(upstream.arts)
    BY <1>0 DEF IngTyped, High
  <2>2. QED
    BY <2>1, SubSeqProperties
<1>3. IngTyped' /\ upstream'.numbering = upstream.numbering + 1
  BY <1>0, <1>1, <1>2 DEF IngTyped
<1>4. ingCovers.numbering < upstream'.numbering /\ ingCovers' = ingCovers
  BY <1>0, <1>1, <1>3 DEF IngTyped, CursorIsOfNow
<1>5. CursorIsOfNow' /\ CursorPassesNothing'
  BY <1>0, <1>3, <1>4 DEF IngTyped, CursorIsOfNow, CursorPassesNothing
<1>6. ScanIsSound => ScanIsSound'
  BY <1>0, <1>1, <1>3, <1>4 DEF IngTyped, ScanIsSound
<1>7. QED
  BY <1>0, <1>1, <1>3, <1>5, <1>6 DEF IngInv, RunIsOrdered, ItemsPostedOnce

\* The ingestion, for every upstream group and repository and every number of runs: no
\* item gets a second article, and the nntp cursor passes over no article of its
\* numbering, whatever is renumbered, expires, is refused or pruned, or dies.
THEOREM EveryItemStaysOnce == IngSpec => []EveryItemOnce
<1>1. IngInit => IngInv
  BY DEF IngInit, IngInv, IngTyped, CursorIsOfNow, CursorPassesNothing, RunIsOrdered, IngIdle,
         ItemsPostedOnce, High
<1>2. IngInv /\ [IngNext]_ingVars => IngInv'
  <2> SUFFICES ASSUME IngInv, [IngNext]_ingVars PROVE IngInv'
    OBVIOUS
  <2>0. IngTyped /\ RunIsOrdered
    BY DEF IngInv
  <2>1. ASSUME IngBegin PROVE IngInv'
    <3>1. RunIsOrdered'
      BY <2>1, EnterIsOrdered, IngestAssumption DEF IngBegin
    <3>2. QED
      BY <2>1, <3>1, QuietIngest DEF IngBegin, ingTables, ingHistory
  <2>2. ASSUME ListGroups PROVE IngInv'
    <3>1. ingRun.src = "bootstrap" /\ ingRun.at = "list"
      BY <2>2 DEF ListGroups
    <3>2. PICK items : Candidates(items, <<>>)
      BY <2>2 DEF ListGroups
    <3>3. QED
      BY <2>2, <3>1, <3>2, OtherCandidates DEF ListGroups, ingTables, ingHistory
  <2>3. ASSUME GitHashes PROVE IngInv'
    <3>1. ingRun'.at = "tip" /\ ingRun'.src = "git" /\ ingRun'.left = ingRun.left
          /\ ingRun.at = "list"
      BY <2>3 DEF GitHashes
    <3>2. RunIsOrdered'
      BY <2>0, <3>1 DEF RunIsOrdered
    <3>3. QED
      BY <2>3, <3>2, QuietIngest DEF GitHashes, ingTables, ingHistory
  <2>4. ASSUME GitTip PROVE IngInv'
    <3>1. ingRun.src = "git" /\ ingRun.at = "tip"
      BY <2>0, <2>4 DEF GitTip, RunIsOrdered
    <3>2. PICK items, more : Candidates(items, more)
      BY <2>4 DEF GitTip
    <3>3. QED
      BY <2>4, <3>1, <3>2, OtherCandidates DEF GitTip, ingTables, ingHistory
  <2>5. ASSUME SetGitCursor PROVE IngInv'
    <3>1. PICK n \in DOMAIN ingRun.batch :
            /\ ingCursor' = [ingCursor EXCEPT !.git = ingRun.batch[n][2]]
            /\ ingRun' = Advance(ingRun, n)
      BY <2>5 DEF SetGitCursor
    <3>2. ingRun.at = "cursor" /\ ingRun.src = "git" /\ ingRun.left \in Int
      BY <2>0, <2>5 DEF SetGitCursor, RunIsOrdered
    <3>3. /\ ingRun'.at = (IF DOMAIN ingRun.batch \ {n} = {} THEN "end" ELSE "post")
          /\ ingRun'.src = "git" /\ ingRun'.left \in Int
          /\ ingRun'.batch = Restrict(ingRun.batch, DOMAIN ingRun.batch \ {n})
      BY <3>1, <3>2 DEF Advance
    <3>4. DOMAIN ingRun'.batch = DOMAIN ingRun.batch \ {n}
      BY <3>3 DEF Restrict
    <3>5. RunIsOrdered'
      BY <3>3, <3>4 DEF RunIsOrdered
    <3>6. ingCursor'.nntp = ingCursor.nntp /\ {"nntp"} \subseteq DOMAIN ingCursor'
      BY <2>0, <3>1 DEF IngTyped
    <3>7. UNCHANGED <<upstream, ingCovers, ingLedger, ingPosts>>
      BY <2>5 DEF SetGitCursor
    <3>8. QED
      BY <3>5, <3>6, <3>7 DEF IngInv, IngTyped, CursorIsOfNow, CursorPassesNothing,
         ItemsPostedOnce, High
  <2>6. ASSUME IngDies PROVE IngInv'
    <3>1. RunIsOrdered'
      BY <2>6 DEF IngDies, IngIdle, RunIsOrdered
    <3>2. QED
      BY <2>6, <3>1, QuietIngest DEF IngDies, ingTables, ingHistory
  <2>7. ASSUME NEW m \in MessageIds, UpstreamPosts(m) PROVE IngInv'
    <3>1. /\ upstream' = [upstream EXCEPT !.arts = Append(@, m)]
          /\ UNCHANGED <<ingRun, ingCursor, ingCovers, ingLedger, ingPosts>>
      BY <2>7 DEF UpstreamPosts, ingTables, ingHistory
    <3>2. upstream.arts \in Seq(MessageIds)
      BY <2>0 DEF IngTyped
    <3>3. /\ Append(upstream.arts, m) \in Seq(MessageIds)
          /\ Len(Append(upstream.arts, m)) = Len(upstream.arts) + 1
          /\ \A n \in 1..Len(upstream.arts) : Append(upstream.arts, m)[n] = upstream.arts[n]
          /\ Len(upstream.arts) \in Nat
      BY <3>2, AppendProperties, LenProperties
    <3>4. /\ upstream'.arts = Append(upstream.arts, m) /\ upstream'.low = upstream.low
          /\ upstream'.numbering = upstream.numbering
          /\ upstream' \in [low : Nat \ {0}, arts : Seq(MessageIds), numbering : Nat]
      BY <2>0, <3>1, <3>3 DEF IngTyped
    <3>5. upstream.low <= upstream'.low
      BY <2>0, <3>4 DEF IngTyped
    <3>6. QED
      BY <3>1, <3>3, <3>4, <3>5, UpstreamMoves DEF High
  <2>8. ASSUME UpstreamExpires PROVE IngInv'
    <3>1. /\ upstream' = [upstream EXCEPT !.low = @ + 1]
          /\ UNCHANGED <<ingRun, ingCursor, ingCovers, ingLedger, ingPosts>>
      BY <2>8 DEF UpstreamExpires, ingTables, ingHistory
    <3>2. /\ upstream'.arts = upstream.arts /\ upstream'.low = upstream.low + 1
          /\ upstream'.numbering = upstream.numbering
          /\ upstream' \in [low : Nat \ {0}, arts : Seq(MessageIds), numbering : Nat]
          /\ upstream.low <= upstream'.low
      BY <2>0, <3>1 DEF IngTyped
    <3>3. High' = High /\ High \in Nat
      BY <2>0, <3>2, LenProperties DEF IngTyped, High
    <3>4. QED
      BY <3>1, <3>2, <3>3, UpstreamMoves
  <2>9. ASSUME (\E i \in IngItems : PruneArticle(i)) \/ (\E c \in Commits : MoveTip(c))
               \/ UNCHANGED ingVars
        PROVE  IngInv'
    <3>1. UNCHANGED <<upstream, ingRun, ingCursor, ingCovers, ingLedger, ingPosts>>
      BY <2>9 DEF PruneArticle, MoveTip, ingVars, ingTables, ingHistory
    <3>2. RunIsOrdered'
      BY <2>0, <3>1 DEF RunIsOrdered, ScanIsSound, DealtWith, InBatch, High
    <3>3. QED
      BY <3>1, <3>2, QuietIngest
  <2>10. QED
    BY <2>1, <2>2, <2>3, <2>4, <2>5, <2>6, <2>7, <2>8, <2>9, PullStep, PostStep, EndStep,
       RenumberStep DEF IngNext
<1>3. IngInv => EveryItemOnce
  BY DEF IngInv, EveryItemOnce
<1>4. QED
  BY <1>1, <1>2, <1>3, PTL DEF IngSpec
=============================================================================

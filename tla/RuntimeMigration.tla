-------------------------- MODULE RuntimeMigration --------------------------
(***************************************************************************)
(* Migration of the outbound mail gateway to its runtime paths             *)
(* (deploy/messaging/install-outbound-mail-disabled-runtime-migration.sh). *)
(*                                                                         *)
(* The script stops the gateway, creates runtime files, installs a systemd *)
(* drop-in and starts the gateway again; "disable" takes the drop-in away. *)
(* A command that fails, a check that fails and a signal all lead to       *)
(* rollback(), which runs under "set +e": its own commands may fail, and   *)
(* it goes on and reports a rollback all the same.  SIGKILL, and a second  *)
(* signal, end the script where it is.                                     *)
(***************************************************************************)
EXTENDS FiniteSets, Naturals, Sequences

CONSTANT RuntimeFiles   \* in the order of their creation: audit, nonces, suppression,
                        \* config, policy, identities

ASSUME FilesAssumption == RuntimeFiles \in Seq(STRING) /\ RuntimeFiles # <<>>

VARIABLES
  rmDropin,   \* 40-runtime-paths.conf: "none", "written" or "edited" afterwards
  rmFiles,    \* the runtime files that exist
  rmCreated,  \* the ..._created flags that say yes
  rmStep,     \* what the script does next
  rmFile,     \* the number of the next file to create
  rmBefore,   \* history: the drop-in and the files that the script found
  rmOutcome,  \* how the last script ended
  rmTrouble,  \* history: a command of rollback() failed in the last script, or what
              \* an earlier one led to was still there when it began
  gwUnit,     \* the entry point that systemd has loaded
  gwRuns      \* the entry point of the gateway's process, or "down"

rmVars == <<rmDropin, rmFiles, rmCreated, rmStep, rmFile, rmBefore, rmOutcome,
            rmTrouble, gwUnit, gwRuns>>

AllFiles == {RuntimeFiles[i] : i \in DOMAIN RuntimeFiles}
MigrationSteps == {"roots", "create", "flag", "dropin", "reload", "start", "verify",
                   "remove", "unload", "restart", "check"}

Nothing == [dropin |-> "none", files |-> {}]

EntryPoint(dropin) == IF dropin = "none" THEN "source" ELSE "runtime"

\* The files that the runtime entry point loads: it starts without an audit file, a
\* nonce store and a suppression database.
NeededFiles == AllFiles \cap {"config", "policy", "identities"}
RuntimeIsComplete == gwRuns = "runtime" => NeededFiles \subseteq rmFiles

\* What a start leads to: the unit's entry point, unless it fails.
Startable == IF gwUnit = "runtime" /\ ~(NeededFiles \subseteq rmFiles) THEN {"down"}
                                                               ELSE {gwUnit, "down"}
----------------------------------------------------------------------------
\* The suppression database may be there already.
MigrationInit ==
  /\ rmDropin = "none" /\ rmFiles \in {{}, {"suppression"}} /\ rmCreated = {}
  /\ rmStep = "idle" /\ rmFile = 1 /\ rmBefore = Nothing
  /\ rmOutcome = "none" /\ rmTrouble = FALSE /\ gwUnit = "source" /\ gwRuns = "source"

\* The script ends; its flags and its position are gone.
EndMigration(outcome) ==
  /\ rmStep' = "idle" /\ rmFile' = 1 /\ rmCreated' = {} /\ rmOutcome' = outcome
  /\ rmBefore' = IF outcome = "rolled_back" THEN rmBefore ELSE Nothing

\* The checks before the first change; the drop-in is backed up.
Begin(step) ==
  /\ rmStep = "idle" /\ gwRuns # "down"
  /\ rmStep' = step /\ rmFile' = 1 /\ rmCreated' = {}
  /\ rmBefore' = [dropin |-> rmDropin, files |-> rmFiles]
  /\ rmTrouble' = ~RuntimeIsComplete
  /\ UNCHANGED <<rmDropin, rmFiles, rmOutcome, gwUnit, gwRuns>>

BeginInstall ==
  /\ rmDropin = "none" /\ rmFiles \subseteq {"suppression"}
  /\ Begin("roots")

\* Roots are made and validated, and the gateway is stopped.
StopGateway ==
  /\ rmStep = "roots"
  /\ gwRuns' = "down" /\ rmStep' = "create"
  /\ UNCHANGED <<rmDropin, rmFiles, rmCreated, rmFile, rmBefore, rmOutcome,
                 rmTrouble, gwUnit>>

NextFile ==
  IF rmFile = Len(RuntimeFiles)
  THEN rmStep' = "dropin" /\ UNCHANGED rmFile
  ELSE rmStep' = "create" /\ rmFile' = rmFile + 1

\* One runtime file is put in its place; an existing suppression database is
\* verified instead, and without a source there is no nonce store to copy.
CreateFile ==
  /\ rmStep = "create"
  /\ LET f == RuntimeFiles[rmFile] IN
     \/ /\ rmFiles' = rmFiles \cup {f}
        /\ IF f \in rmFiles THEN NextFile ELSE rmStep' = "flag" /\ UNCHANGED rmFile
     \/ /\ f = "nonces" /\ NextFile /\ UNCHANGED rmFiles
  /\ UNCHANGED <<rmDropin, rmCreated, rmBefore, rmOutcome, rmTrouble, gwUnit, gwRuns>>

\* Its flag is set by the next command.
FlagFile ==
  /\ rmStep = "flag"
  /\ rmCreated' = rmCreated \cup {RuntimeFiles[rmFile]} /\ NextFile
  /\ UNCHANGED <<rmDropin, rmFiles, rmBefore, rmOutcome, rmTrouble, gwUnit, gwRuns>>

\* "install" writes the drop-in, "disable" moves it away; an edited one is refused.
WriteDropin ==
  /\ rmStep = "dropin"
  /\ rmDropin' = "written" /\ rmStep' = "reload"
  /\ UNCHANGED <<rmFiles, rmCreated, rmFile, rmBefore, rmOutcome, rmTrouble, gwUnit,
                 gwRuns>>

BeginDisable == rmDropin = "written" /\ Begin("remove")

RemoveDropin ==
  /\ rmStep = "remove"
  /\ rmDropin' = "none" /\ rmStep' = "unload"
  /\ UNCHANGED <<rmFiles, rmCreated, rmFile, rmBefore, rmOutcome, rmTrouble, gwUnit,
                 gwRuns>>

\* systemctl daemon-reload, in either direction.
DaemonReload ==
  /\ \/ rmStep = "reload" /\ rmStep' = "start"
     \/ rmStep = "unload" /\ rmStep' = "restart"
  /\ gwUnit' = EntryPoint(rmDropin)
  /\ UNCHANGED <<rmDropin, rmFiles, rmCreated, rmFile, rmBefore, rmOutcome, rmTrouble,
                 gwRuns>>

\* systemctl start or restart.
StartGateway ==
  /\ \/ rmStep = "start" /\ rmStep' = "verify"
     \/ rmStep = "restart" /\ rmStep' = "check"
  /\ gwRuns' \in Startable
  /\ UNCHANGED <<rmDropin, rmFiles, rmCreated, rmFile, rmBefore, rmOutcome,
                 rmTrouble, gwUnit>>

\* verify_live(), or the checks after disable, pass and the script is done.
CompleteMigration ==
  /\ \/ rmStep = "verify" /\ gwRuns = "runtime" /\ AllFiles \ {"nonces"} \subseteq rmFiles
        /\ EndMigration("installed")
     \/ rmStep = "check" /\ gwRuns = "source" /\ EndMigration("disabled")
  /\ UNCHANGED <<rmDropin, rmFiles, rmTrouble, gwUnit, gwRuns>>

\* A command or a check fails, or the shell takes a signal: on_exit() or the
\* check itself calls rollback().
MigrationFails ==
  /\ rmStep \in MigrationSteps
  /\ rmStep' = "rb_dropin"
  /\ UNCHANGED <<rmDropin, rmFiles, rmCreated, rmFile, rmBefore, rmOutcome, rmTrouble,
                 gwUnit, gwRuns>>

\* restore_dropin(): a failing mv leaves the drop-in there, a failing install the old
\* one, none or half of one.
RestoreDropin ==
  /\ rmStep = "rb_dropin" /\ rmStep' = "rb_reload"
  /\ \/ rmDropin' = rmBefore.dropin
     \/ UNCHANGED rmDropin
     \/ rmBefore.dropin # "none" /\ rmDropin' \in {"none", "edited"}
  /\ rmTrouble' = (rmTrouble \/ rmDropin' # rmBefore.dropin)
  /\ UNCHANGED <<rmFiles, rmCreated, rmFile, rmBefore, rmOutcome, gwUnit, gwRuns>>

\* rollback()'s daemon-reload and restart; a failing one changes nothing.
ReloadOld ==
  /\ rmStep = "rb_reload" /\ rmStep' = "rb_restart"
  /\ gwUnit' \in {EntryPoint(rmDropin), gwUnit}
  /\ rmTrouble' = (rmTrouble \/ gwUnit' # EntryPoint(rmDropin))
  /\ UNCHANGED <<rmDropin, rmFiles, rmCreated, rmFile, rmBefore, rmOutcome, gwRuns>>

RestartOld ==
  /\ rmStep = "rb_restart" /\ rmStep' = "rb_files"
  /\ gwRuns' \in Startable \cup {gwRuns}
  /\ rmTrouble' = (rmTrouble \/ gwRuns' \notin Startable)
  /\ UNCHANGED <<rmDropin, rmFiles, rmCreated, rmFile, rmBefore, rmOutcome, gwUnit>>

\* The files that rollback() moves aside, wherever the restart has led.
MovedAsideAll == AllFiles
MovedAside == rmCreated

\* Any of the moves may fail; "rollback_executed=yes" is recorded in any case.
UndoFiles ==
  /\ rmStep = "rb_files"
  /\ \E moved \in SUBSET MovedAside :
       /\ rmFiles' = rmFiles \ moved
       /\ rmTrouble' = (rmTrouble \/ moved # MovedAside)
  /\ EndMigration("rolled_back")
  /\ UNCHANGED <<rmDropin, gwUnit, gwRuns>>

\* The shell dies where it is.
MigrationKilled ==
  /\ rmStep # "idle"
  /\ EndMigration("killed")
  /\ UNCHANGED <<rmDropin, rmFiles, rmTrouble, gwUnit, gwRuns>>

\* An administrator edits the drop-in or takes the edit back, reloads and starts a
\* gateway that does not run what the files say, or removes what a script has left
\* behind.
EditDropin ==
  /\ rmStep = "idle" /\ rmDropin # "none"
  /\ rmDropin' \in {"written", "edited"} \ {rmDropin} /\ rmOutcome' = "none"
  /\ UNCHANGED <<rmFiles, rmCreated, rmStep, rmFile, rmBefore, rmTrouble, gwUnit, gwRuns>>

AdminStart ==
  /\ rmStep = "idle" /\ gwRuns # EntryPoint(rmDropin)
  /\ gwUnit' = EntryPoint(rmDropin)
  /\ gwRuns' = IF gwUnit' = "source" \/ NeededFiles \subseteq rmFiles THEN gwUnit' ELSE "down"
  /\ rmOutcome' = "none"
  /\ UNCHANGED <<rmDropin, rmFiles, rmCreated, rmStep, rmFile, rmBefore, rmTrouble>>

AdminClears ==
  /\ rmStep = "idle"
  /\ gwRuns = "down" \/ (gwRuns = "source" /\ rmDropin = "none")
  /\ rmDropin' = "none" /\ gwUnit' = "source" /\ gwRuns' = "source"
  /\ rmFiles' = rmFiles \cap {"suppression"} /\ rmOutcome' = "none"
  /\ UNCHANGED <<rmCreated, rmStep, rmFile, rmBefore, rmTrouble>>

MigrationNext ==
  \/ BeginInstall \/ StopGateway \/ CreateFile \/ FlagFile \/ WriteDropin
  \/ BeginDisable \/ RemoveDropin \/ DaemonReload \/ StartGateway \/ CompleteMigration
  \/ MigrationFails \/ RestoreDropin \/ ReloadOld \/ RestartOld \/ UndoFiles
  \/ MigrationKilled \/ EditDropin \/ AdminStart \/ AdminClears
----------------------------------------------------------------------------
\* rollback() never takes away a file that was there before.  Where its own commands
\* succeed it leaves what the script found: its drop-in, loaded and, unless the
\* gateway does not start, running, and none of the script's own files but one that
\* was interrupted before its flag.
MigrationIsReversible ==
  rmOutcome = "rolled_back" /\ rmStep = "idle" =>
    /\ rmBefore.files \subseteq rmFiles
    /\ ~rmTrouble =>
         /\ rmDropin = rmBefore.dropin
         /\ gwUnit = EntryPoint(rmDropin) /\ gwRuns \in {gwUnit, "down"}
         /\ Cardinality(rmFiles \ rmBefore.files) <= 1

\* The runtime entry point never runs without its files, also not while a script puts
\* things in place or takes them away, or after it died: only a rollback whose own
\* commands fail may take them from a gateway that it has not restarted.
RuntimeHasItsFiles == rmTrouble \/ RuntimeIsComplete
=============================================================================

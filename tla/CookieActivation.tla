-------------------------- MODULE CookieActivation --------------------------
(***************************************************************************)
(* Activation of the Cookie Monster alpha staging                          *)
(* (deploy/cookie_monster_edge1_activate.py) with the publication of the   *)
(* operator view it calls (deploy/cookie_monster_runtime_publish.py).      *)
(*                                                                         *)
(* apply() changes a registry, a job file and the published files one      *)
(* after the other and any step may raise.  publish() then rolls its own   *)
(* failure back and apply()'s except clause the rest; a restore that fails *)
(* there is swallowed.  rollback() restores later from a backup directory. *)
(* The process may die between any two steps.  Versions number the         *)
(* applications.                                                           *)
(***************************************************************************)
EXTENDS Integers

CONSTANT MaxApplies   \* bound on the applications (each makes one backup)

ASSUME CookieBounds == MaxApplies \in Nat

VARIABLES
  cmDataset,   \* the alpha-staging directory
  cmRegistry,  \* "enabled" of the dataset registry
  cmJob,       \* the version of the job file, 0 when there is none
  cmWeb,       \* published file -> version, 0 when absent
  cmCurrent,   \* the current-activation file
  cmBackups,   \* application -> its backup directories
  cmRuns,      \* applications so far
  cmStep,      \* what the process does next
  cmFile,      \* the next published file to write
  cmOf,        \* the backup that a rollback restores
  cmOutcome,   \* how the last command ended
  cmSwallowed  \* history: the failed restore that the last apply() swallowed

cmVars == <<cmDataset, cmRegistry, cmJob, cmWeb, cmCurrent, cmBackups, cmRuns,
            cmStep, cmFile, cmOf, cmOutcome, cmSwallowed>>

WebFiles == 1..2      \* the view's files, and its manifest last
Versions == 0..MaxApplies
Applications == 1..MaxApplies
\* "before" is what create_backup() found (the published files too, of which
\* the publisher makes its own backup later); "recorded" tells whether
\* activation-state.json names that publisher backup.
NoBackup == [before |-> <<>>, published |-> FALSE, recorded |-> FALSE]
Managed == <<cmRegistry, cmJob, cmWeb>>

EndCommand(outcome) ==
  cmStep' = "idle" /\ cmOutcome' = outcome /\ UNCHANGED cmSwallowed
Go(step) == cmStep' = step /\ UNCHANGED <<cmOutcome, cmSwallowed>>
----------------------------------------------------------------------------
CookieInit ==
  /\ cmDataset = "empty" /\ cmRegistry = FALSE /\ cmJob = 0
  /\ cmWeb = [f \in WebFiles |-> 0]
  /\ cmCurrent = [status |-> "none", backup |-> 0]
  /\ cmBackups = [a \in Applications |-> NoBackup]
  /\ cmRuns = 0 /\ cmStep = "idle" /\ cmFile = 1 /\ cmOf = 0
  /\ cmOutcome = "none" /\ cmSwallowed = "none"

\* apply(): preflight() and create_backup().
BeginApply ==
  /\ cmStep = "idle" /\ cmRuns < MaxApplies
  /\ cmDataset \in {"empty", "ready"}
  /\ cmRegistry => cmDataset = "ready"
  /\ cmRuns' = cmRuns + 1
  /\ cmBackups' = [cmBackups EXCEPT ![cmRuns + 1].before = Managed]
  /\ cmStep' = "prepare" /\ cmSwallowed' = "none"
  /\ UNCHANGED <<cmDataset, cmRegistry, cmJob, cmWeb, cmCurrent, cmFile, cmOf,
                 cmOutcome>>

\* prepare_synthetic_dataset(): file after file; what is there when it stops
\* early is a conflict for every later preflight.
PrepareDataset ==
  /\ cmStep = "prepare"
  /\ \/ /\ cmDataset = "ready" /\ Go("enable")
        /\ UNCHANGED cmDataset
     \/ /\ cmDataset = "empty" /\ cmDataset' = "conflict"
        /\ Go("prepare")
     \/ /\ cmDataset = "conflict" /\ cmDataset' = "ready"
        /\ Go("enable")
  /\ UNCHANGED <<cmRegistry, cmJob, cmWeb, cmCurrent, cmBackups, cmRuns, cmFile,
                 cmOf>>

EnableDataset ==
  /\ cmStep = "enable" /\ cmRegistry' = TRUE /\ Go("job")
  /\ UNCHANGED <<cmDataset, cmJob, cmWeb, cmCurrent, cmBackups, cmRuns, cmFile,
                 cmOf>>

WriteJob ==
  /\ cmStep = "job" /\ cmJob' = cmRuns /\ Go("dispatch")
  /\ UNCHANGED <<cmDataset, cmRegistry, cmWeb, cmCurrent, cmBackups, cmRuns,
                 cmFile, cmOf>>

\* dispatch_job(), run_fengus() and the acceptance record: they write evidence
\* that nothing takes back.
RunJob ==
  /\ cmStep = "dispatch" /\ Go("backup")
  /\ UNCHANGED <<cmDataset, cmRegistry, cmJob, cmWeb, cmCurrent, cmBackups,
                 cmRuns, cmFile, cmOf>>

\* publish(): backup_destination() in the publisher process.
BackupDestination ==
  /\ cmStep = "backup"
  /\ cmBackups' = [cmBackups EXCEPT ![cmRuns].published = TRUE]
  /\ cmFile' = 1 /\ Go("publish")
  /\ UNCHANGED <<cmDataset, cmRegistry, cmJob, cmWeb, cmCurrent, cmRuns, cmOf>>

\* The publisher's apply(): one os.replace() per file.
PublishFile ==
  /\ cmStep = "publish"
  /\ cmWeb' = [cmWeb EXCEPT ![cmFile] = cmRuns]
  /\ IF cmFile = 2 THEN cmFile' = 1 /\ Go("note")
                   ELSE cmFile' = cmFile + 1 /\ Go("publish")
  /\ UNCHANGED <<cmDataset, cmRegistry, cmJob, cmCurrent, cmBackups, cmRuns,
                 cmOf>>

\* activation-state.json gets the publisher backup before anything names it.
NoteBackup ==
  /\ cmStep = "note"
  /\ cmBackups' = [cmBackups EXCEPT ![cmRuns].recorded = TRUE]
  /\ Go("current")

RecordActivation ==
  \/ /\ NoteBackup
     /\ UNCHANGED <<cmDataset, cmRegistry, cmJob, cmWeb, cmCurrent, cmRuns,
                    cmFile, cmOf>>
  \/ /\ cmStep = "current"
     /\ cmCurrent' = [status |-> "active", backup |-> cmRuns]
     /\ EndCommand("activated")
     /\ UNCHANGED <<cmDataset, cmRegistry, cmJob, cmWeb, cmBackups, cmRuns,
                    cmFile, cmOf>>
----------------------------------------------------------------------------
\* Mutant: a publisher that failed half-way is left as it is.
AfterFailureNoRecovery ==
  IF cmStep \in {"prepare", "enable", "job", "dispatch", "backup", "publish"}
  THEN {"undo_registry"} ELSE {"undo_web"}

\* publish() rolls back a publisher that failed or whose answer it cannot use;
\* after that the except clause knows the publisher backup and does it.
AfterFailure ==
  CASE cmStep \in {"prepare", "enable", "job", "dispatch", "backup"} ->
         {"undo_registry"}
    [] cmStep = "publish" -> {"undo_publish"}
    [] cmStep = "note"    -> {"undo_publish", "undo_web"}
    [] cmStep = "current" -> {"undo_web"}

\* The except clause first tries to write activation-state.json, which by now
\* may name the publisher backup.
ApplyFails ==
  /\ cmStep \in {"prepare", "enable", "job", "dispatch", "backup", "publish",
                 "note", "current"}
  /\ \E next \in AfterFailure :
       /\ Go(next)
       /\ \/ UNCHANGED cmBackups
          \/ /\ next = "undo_web"
             /\ cmBackups' = [cmBackups EXCEPT ![cmRuns].recorded = TRUE]
  /\ cmFile' = 1 /\ cmOf' = cmRuns
  /\ UNCHANGED <<cmDataset, cmRegistry, cmJob, cmWeb, cmCurrent, cmRuns>>

\* rollback() and rollback_last() of a backup directory.
BeginRollback(b) ==
  /\ cmStep = "idle" /\ b \in 1..cmRuns
  /\ cmOf' = b /\ cmFile' = 1
  /\ Go(IF cmBackups[b].recorded THEN "back_web" ELSE "back_registry")
  /\ UNCHANGED <<cmDataset, cmRegistry, cmJob, cmWeb, cmCurrent, cmBackups,
                 cmRuns>>

RollbackLastActivation == cmCurrent.backup # 0 /\ BeginRollback(cmCurrent.backup)

\* The publisher's rollback(): one file after the other.
RestoreWeb(step, next) ==
  /\ cmStep = step
  /\ cmWeb' = [cmWeb EXCEPT ![cmFile] = cmBackups[cmOf].before[3][cmFile]]
  /\ IF cmFile = 2 THEN cmFile' = 1 /\ Go(next)
                   ELSE cmFile' = cmFile + 1 /\ Go(step)
  /\ UNCHANGED <<cmDataset, cmRegistry, cmJob, cmCurrent, cmBackups, cmRuns,
                 cmOf>>

RestoreRegistry(step, next) ==
  /\ cmStep = step
  /\ cmRegistry' = cmBackups[cmOf].before[1]
  /\ Go(next)
  /\ UNCHANGED <<cmDataset, cmJob, cmWeb, cmCurrent, cmBackups, cmRuns, cmFile,
                 cmOf>>

\* _restore_file(): an absent original means that the file is removed.
JobBefore == cmBackups[cmOf].before[2]

\* The last step of the except clause.
UndoJob ==
  /\ cmStep = "undo_job"
  /\ cmJob' = JobBefore
  /\ EndCommand("failed")
  /\ UNCHANGED <<cmDataset, cmRegistry, cmWeb, cmCurrent, cmBackups, cmRuns,
                 cmFile, cmOf>>

\* The last restore of rollback(), and its marker.
FinishRollback ==
  \/ /\ cmStep = "back_job"
     /\ cmJob' = JobBefore /\ Go("marker")
     /\ UNCHANGED <<cmDataset, cmRegistry, cmWeb, cmCurrent, cmBackups, cmRuns,
                    cmFile, cmOf>>
  \/ /\ cmStep = "marker"
     /\ cmCurrent' = [status |-> "rolled_back", backup |-> cmOf]
     /\ EndCommand("rolled_back")
     /\ UNCHANGED <<cmDataset, cmRegistry, cmJob, cmWeb, cmBackups, cmRuns,
                    cmFile, cmOf>>

\* A restore fails after apply() has: publish() ignores that of the publisher
\* and the except clause goes on, a later one ends the except clause silently.
RestoreFails ==
  /\ \/ /\ cmStep = "undo_publish"
        /\ cmStep' = "undo_registry" /\ cmSwallowed' = "publish"
        /\ UNCHANGED cmOutcome
     \/ /\ cmStep \in {"undo_web", "undo_registry", "undo_job"}
        /\ cmStep' = "idle" /\ cmSwallowed' = "except"
        /\ cmOutcome' = "failed"
  /\ cmFile' = 1
  /\ UNCHANGED <<cmDataset, cmRegistry, cmJob, cmWeb, cmCurrent, cmBackups,
                 cmRuns, cmOf>>

Restore ==
  \/ RestoreWeb("undo_publish", "undo_registry")
  \/ RestoreWeb("undo_web", "undo_registry")
  \/ RestoreRegistry("undo_registry", "undo_job")
  \/ UndoJob
  \/ RestoreWeb("back_web", "back_registry")
  \/ RestoreRegistry("back_registry", "back_job")
  \/ FinishRollback

\* rollback() raises, or the process dies anywhere.
CommandStops ==
  /\ cmStep # "idle"
  /\ EndCommand("stopped")
  /\ UNCHANGED <<cmDataset, cmRegistry, cmJob, cmWeb, cmCurrent, cmBackups,
                 cmRuns, cmFile, cmOf>>

CookieNext ==
  \/ BeginApply \/ PrepareDataset \/ EnableDataset \/ WriteJob \/ RunJob
  \/ BackupDestination \/ PublishFile \/ RecordActivation \/ ApplyFails
  \/ \E b \in Applications : BeginRollback(b)
  \/ RollbackLastActivation \/ Restore \/ RestoreFails \/ CommandStops

CookieSpec == CookieInit /\ [][CookieNext]_cmVars
----------------------------------------------------------------------------
\* An apply() that raises puts back what it had changed, wherever it failed:
\* registry and job file unless the except clause itself fails, the published
\* files unless the publisher's rollback fails.
FailedApplyRestores ==
  cmOutcome = "failed" /\ cmStep = "idle" =>
    /\ cmSwallowed = "none" => Managed = cmBackups[cmRuns].before
    /\ cmSwallowed = "publish" => /\ cmRegistry = cmBackups[cmRuns].before[1]
                                  /\ cmJob = cmBackups[cmRuns].before[2]

\* A rollback() that ran to its end, of an activation that was recorded, leads
\* back to what was there before it, whatever later applications, swallowed
\* failures, crashes and interrupted rollbacks have left behind.
RollbackRestores ==
  cmOutcome = "rolled_back" /\ cmStep = "idle" /\ cmBackups[cmOf].recorded
    => Managed = cmBackups[cmOf].before

\* The current-activation file never names an activation whose published files
\* rollback_last() could not restore.
ActiveIsRestorable ==
  cmCurrent.status = "active" =>
    cmBackups[cmCurrent.backup].published /\ cmBackups[cmCurrent.backup].recorded

\* An activation can be taken back: by apply() when it fails, as far as its
\* restores succeed, and by rollback() later, whatever was applied, interrupted
\* or rolled back in between.
ActivationIsReversible ==
  FailedApplyRestores /\ RollbackRestores /\ ActiveIsRestorable
============================================================================

----------------------------- MODULE MailPilot -----------------------------
(***************************************************************************)
(* The one-message outbound-mail pilot                                     *)
(* (tools/messaging/execute_outbound_mail_one_message_pilot.py), the       *)
(* gateway's guarded send route and the delivery-event ledger it consults. *)
(*                                                                         *)
(* The pilot installs three runtime documents one by one, restarts the     *)
(* gateway, posts one message and restores its own backups.  The gateway   *)
(* reads the documents on every request, in a thread of its own that goes  *)
(* on when the pilot's 30 second timeout has passed.  Delivery events are  *)
(* applied by another process at any time, and any may come twice.         *)
(*                                                                         *)
(* The verdict of the final scanner is a free choice (the entry point of   *)
(* this commit passes none, which is the choice of refusing every time).   *)
(***************************************************************************)
EXTENDS Integers, FiniteSets

CONSTANTS
  MailEventIds,   \* delivery-event identifiers, all for the pilot recipient
  MaxPilotRuns    \* bound on the executions

ASSUME PilotBounds == MaxPilotRuns \in Nat

VARIABLES
  pilotFiles,    \* document -> "safe" or "active"
  pilotStep,     \* where the execution stands
  pilotIndex,    \* the next document to replace
  pilotBackup,   \* the last execution's runtime-backup directory
  pilotRuns,     \* executions so far
  pilotPosted,   \* send_attempted of the execution in progress
  pilotRecord,   \* execution.json of the last execution
  gwThread,      \* the gateway's handler of the posted message
  mailSent,      \* submissions to the provider, by execution
  mailEvents,    \* rows of delivery_events
  mailState      \* the row of recipient_delivery_state

pilotVars == <<pilotFiles, pilotStep, pilotIndex, pilotBackup, pilotRuns,
               pilotPosted, pilotRecord, gwThread, mailSent, mailEvents,
               mailState>>
ledgerVars == <<mailEvents, mailState>>

Documents == 1..3   \* RUNTIME_FILENAMES, in the order they are replaced
SafeFiles == [d \in Documents |-> "safe"]
ActiveFiles == [d \in Documents |-> "active"]
NoRecord == [posted |-> FALSE, rolledBack |-> FALSE, written |-> FALSE]
NoThread == [at |-> "none", run |-> 0, late |-> FALSE]

SuppressiveTypes == {"permanent_bounce", "complaint", "unsubscribe"}
MailEventTypes ==
  SuppressiveTypes \cup {"delivered", "transient_bounce", "provider_accepted",
                        "provider_rejected"}
----------------------------------------------------------------------------
PilotInit ==
  /\ pilotFiles = SafeFiles /\ pilotBackup = SafeFiles
  /\ pilotStep = "idle" /\ pilotIndex = 1
  /\ pilotRuns = 0 /\ pilotPosted = FALSE /\ pilotRecord = NoRecord
  /\ gwThread = NoThread /\ mailSent = {}
  /\ mailEvents = {}
  /\ mailState = [active |-> FALSE, first |-> "none", count |-> 0,
                  transient |-> 0]

\* audit_context(): build_bundle() takes only the safe-disabled documents as
\* its source, and the recipient must not be suppressed.
Preflight == pilotFiles = SafeFiles /\ ~mailState.active

\* execute_pilot() up to its try: preflight, a new evidence directory and the
\* copies of the three documents in it.
StartPilot ==
  /\ pilotStep = "idle" /\ pilotRuns < MaxPilotRuns
  /\ Preflight
  /\ pilotRuns' = pilotRuns + 1
  /\ pilotBackup' = pilotFiles
  /\ pilotRecord' = NoRecord /\ pilotPosted' = FALSE
  /\ pilotStep' = "activate" /\ pilotIndex' = 1
  /\ UNCHANGED <<pilotFiles, gwThread, mailSent, ledgerVars>>

\* replace_runtime(): one os.replace() per document.
ReplaceDocument(from, step, after) ==
  /\ pilotStep = step
  /\ pilotFiles' = [pilotFiles EXCEPT ![pilotIndex] = from[pilotIndex]]
  /\ pilotIndex' = IF pilotIndex = 3 THEN 1 ELSE pilotIndex + 1
  /\ pilotStep' = IF pilotIndex = 3 THEN after ELSE step
  /\ UNCHANGED <<pilotBackup, pilotRuns, pilotPosted, pilotRecord, gwThread,
                 mailSent, ledgerVars>>

ActivateDocument == ReplaceDocument(ActiveFiles, "activate", "restart")

\* The installed documents are compared, the service restarted, and its health
\* and its one live sender required.
ActivateGateway ==
  /\ pilotStep = "restart" /\ pilotFiles = ActiveFiles
  /\ gwThread' = NoThread
  /\ pilotStep' = "send"
  /\ UNCHANGED <<pilotFiles, pilotIndex, pilotBackup, pilotRuns, pilotPosted,
                 pilotRecord, mailSent, ledgerVars>>

\* send_once(): "late" tells whether the recipient was suppressed already.
SendOnce ==
  /\ pilotStep = "send"
  /\ pilotPosted' = TRUE
  /\ gwThread' = [at |-> "received", run |-> pilotRuns, late |-> mailState.active]
  /\ pilotStep' = "wait"
  /\ UNCHANGED <<pilotFiles, pilotIndex, pilotBackup, pilotRuns, pilotRecord,
                 mailSent, ledgerVars>>

\* An answer, or the end of the 30 seconds: either way finally: comes next.
LeaveSend ==
  /\ pilotStep = "wait"
  /\ pilotStep' = "rollback" /\ pilotIndex' = 1
  /\ UNCHANGED <<pilotFiles, pilotBackup, pilotRuns, pilotPosted, pilotRecord,
                 gwThread, mailSent, ledgerVars>>

\* Any exception of the try block.
ActivationFails ==
  /\ pilotStep \in {"activate", "restart", "send"}
  /\ pilotStep' = "rollback" /\ pilotIndex' = 1
  /\ UNCHANGED <<pilotFiles, pilotBackup, pilotRuns, pilotPosted, pilotRecord,
                 gwThread, mailSent, ledgerVars>>
----------------------------------------------------------------------------
\* The finally block.
RestoreDocument == ReplaceDocument(pilotBackup, "rollback", "rerestart")

\* Mutant: the gateway is reloaded and goes on with the requests it has.
RestartReload ==
  /\ pilotStep = "rerestart"
  /\ pilotStep' = "verify"
  /\ UNCHANGED <<pilotFiles, pilotIndex, pilotBackup, pilotRuns, pilotPosted,
                 pilotRecord, gwThread, mailSent, ledgerVars>>

\* systemctl restart ends the old process and its threads.
RestartRestored ==
  /\ pilotStep = "rerestart"
  /\ gwThread' = NoThread
  /\ pilotStep' = "verify"
  /\ UNCHANGED <<pilotFiles, pilotIndex, pilotBackup, pilotRuns, pilotPosted,
                 pilotRecord, mailSent, ledgerVars>>

\* Safe sources, equal hashes, health and a disabled status; any of them, or a
\* step before, may fail, which becomes rollback_error.
VerifyRestored ==
  /\ pilotStep = "verify" /\ pilotFiles = SafeFiles /\ pilotFiles = pilotBackup
  /\ pilotStep' = "record"
  /\ UNCHANGED <<pilotFiles, pilotIndex, pilotBackup, pilotRuns, pilotPosted,
                 pilotRecord, gwThread, mailSent, ledgerVars>>

RollbackFails ==
  /\ pilotStep \in {"rollback", "rerestart", "verify"}
  /\ pilotStep' = "record_failed"
  /\ UNCHANGED <<pilotFiles, pilotIndex, pilotBackup, pilotRuns, pilotPosted,
                 pilotRecord, gwThread, mailSent, ledgerVars>>

RolledBack == pilotStep = "record"

\* secure_write_json() of execution.json.
WriteRecord ==
  /\ pilotStep \in {"record", "record_failed"}
  /\ pilotRecord' = [posted |-> pilotPosted, rolledBack |-> RolledBack,
                     written |-> TRUE]
  /\ pilotStep' = "idle"
  /\ UNCHANGED <<pilotFiles, pilotIndex, pilotBackup, pilotRuns, pilotPosted,
                 gwThread, mailSent, ledgerVars>>

\* The pilot dies, or cannot write its record.
PilotDies ==
  /\ pilotStep # "idle"
  /\ pilotStep' = "idle"
  /\ UNCHANGED <<pilotFiles, pilotIndex, pilotBackup, pilotRuns, pilotPosted,
                 pilotRecord, gwThread, mailSent, ledgerVars>>

\* Emergency recovery by an operator from the last evidence directory.
OperatorRestores ==
  /\ pilotStep = "idle" /\ pilotFiles # pilotBackup
  /\ pilotFiles' = pilotBackup /\ gwThread' = NoThread
  /\ UNCHANGED <<pilotStep, pilotIndex, pilotBackup, pilotRuns, pilotPosted,
                 pilotRecord, mailSent, ledgerVars>>
----------------------------------------------------------------------------
\* do_POST(): the documents are loaded, the suppression state is read, the
\* delivery gate and the scanner decide, and the provider takes the message.
Gateway(step, after) ==
  /\ gwThread.at = step
  /\ gwThread' = after
  /\ UNCHANGED <<pilotFiles, pilotStep, pilotIndex, pilotBackup, pilotRuns,
                 pilotPosted, pilotRecord, ledgerVars>>

\* With any document still safe the delivery gate refuses later on.
GatewayLoads ==
  /\ Gateway("received", IF pilotFiles = ActiveFiles
                           THEN [gwThread EXCEPT !.at = "loaded"]
                           ELSE NoThread)
  /\ UNCHANGED mailSent

\* Mutant: the reading of audit_context() is taken for good.
SuppressionPreflightSkipped ==
  /\ Gateway("loaded", [gwThread EXCEPT !.at = "cleared"])
  /\ UNCHANGED mailSent

SuppressionPreflight ==
  /\ Gateway("loaded", IF mailState.active THEN NoThread
                       ELSE [gwThread EXCEPT !.at = "cleared"])
  /\ UNCHANGED mailSent

GatewaySubmits ==
  \/ /\ Gateway("cleared", NoThread)
     /\ mailSent' = mailSent \cup {[run |-> gwThread.run, late |-> gwThread.late]}
  \/ Gateway("cleared", NoThread) /\ UNCHANGED mailSent

NewEvent(id) == \A e \in mailEvents : e.id # id

\* apply_event(), one BEGIN IMMEDIATE transaction; a known event_id changes
\* nothing, whatever it carries.
ApplyEvent(id, type) ==
  /\ NewEvent(id)
  /\ mailEvents' = mailEvents \cup {[id |-> id, type |-> type]}
  /\ mailState' =
       [active |-> mailState.active \/ type \in SuppressiveTypes,
        first |-> IF mailState.first = "none" /\ type \in SuppressiveTypes
                    THEN id ELSE mailState.first,
        count |-> mailState.count + 1,
        transient |->
          IF type = "transient_bounce" THEN mailState.transient + 1
          ELSE IF type = "delivered" /\ ~mailState.active THEN 0
          ELSE mailState.transient]
  /\ UNCHANGED <<pilotFiles, pilotStep, pilotIndex, pilotBackup, pilotRuns,
                 pilotPosted, pilotRecord, gwThread, mailSent>>

PilotNext ==
  \/ StartPilot \/ ActivateDocument \/ ActivateGateway \/ SendOnce \/ LeaveSend
  \/ ActivationFails \/ RestoreDocument \/ RestartRestored \/ VerifyRestored
  \/ RollbackFails \/ WriteRecord \/ PilotDies \/ OperatorRestores
  \/ GatewayLoads \/ SuppressionPreflight \/ GatewaySubmits
  \/ \E id \in MailEventIds, type \in MailEventTypes : ApplyEvent(id, type)

PilotSpec == PilotInit /\ [][PilotNext]_pilotVars
----------------------------------------------------------------------------
\* The ledger is a fold of the events, each counted once however often it is
\* delivered: the counters match the rows, and the recipient is suppressed
\* exactly when a suppressive event is recorded, the first one being named.
LedgerCountsOnce ==
  LET OfType(T) == {e \in mailEvents : e.type \in T}
  IN /\ mailState.count = Cardinality(mailEvents)
     /\ mailState.transient \in 0 .. Cardinality(OfType({"transient_bounce"}))
     /\ mailState.active = (OfType(SuppressiveTypes) # {})
     /\ mailState.active =>
          \E e \in OfType(SuppressiveTypes) : e.id = mailState.first

\* guarded_identity_send(): no message for which the suppression was recorded
\* before the request reached the gateway goes to the provider.
SuppressedIsNotMailed == \A m \in mailSent : ~m.late

\* A suppression holds: repeated and reordered delivery events leave the ledger
\* that the gateway consults exact, and no request sends past it.
SuppressionHolds == LedgerCountsOnce /\ SuppressedIsNotMailed

\* An execution that died half-way leaves documents that the next preflight
\* refuses, so every backup directory holds the safe-disabled documents.
BackupsAreSafe == pilotBackup = SafeFiles

\* execution.json can be relied on: a rollback it reports as successful has
\* left the safe documents and no request that could still send, and a message
\* that went out is reported as a send attempt.
EvidenceIsTrue ==
  pilotStep = "idle" /\ pilotRecord.written =>
    /\ pilotRecord.rolledBack => pilotFiles = SafeFiles /\ gwThread = NoThread
    /\ (\E m \in mailSent : m.run = pilotRuns) => pilotRecord.posted

\* Whatever is left by timeouts, failed rollbacks and dead executions, backups
\* and evidence can be relied on to put the gateway back.
PilotIsReversible == BackupsAreSafe /\ EvidenceIsTrue
============================================================================

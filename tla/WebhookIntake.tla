--------------------------- MODULE WebhookIntake ---------------------------
(***************************************************************************)
(* Inbound provider webhooks: the HTTP handler (receive_provider_webhook,  *)
(* app/main.py), the durable receipt ledger (app/webhook_receipts.py), the *)
(* replay comparison (app/webhook_collision.py), the boundary counters     *)
(* (app/webhook_audit.py) and the one-shot recovery worker                 *)
(* (app/inbound_worker.py), over the idempotent event store                *)
(* (put_if_absent, app/persistence.py).                                    *)
(*                                                                         *)
(* Every database call is a step.  The carrier may deliver the same event  *)
(* again, with the same or with another body, at any time; servers and     *)
(* workers may die, and the event store may fail, between any two steps.   *)
(***************************************************************************)
EXTENDS Integers, FiniteSets

CONSTANTS
    Servers,      \* gateway processes; each handles one webhook at a time
    Workers,      \* recovery workers
    Keys,         \* (provider, provider_event_id) pairs
    Bodies,       \* SHA-256 digests of raw request bodies
    MaxAttempts,  \* max_attempts of retry_processing(), clamped to 1..100
    MaxDeliveries  \* bound: webhooks delivered

ASSUME IntakeAssumption ==
    /\ MaxAttempts \in 1..100
    /\ MaxDeliveries \in Nat
    /\ Keys # {} /\ Bodies # {}
    /\ IsFiniteSet(Keys) /\ IsFiniteSet(Servers)

VARIABLES
    paused,   \* messaging_control_state.paused
    received, \* receipts so far; receipt ids are 1..received, in received_at order
    receipt,  \* receipt[r]: a row of messaging_webhook_receipts
    event,    \* event[k]: the receipt whose payload is stored for k, 0 if none
    server,   \* server[s]: where a request handler is
    worker,   \* worker[w]: where a run_once() is
    audit,    \* messaging_webhook_boundary_counters
    reply     \* history: what the carrier was told about receipt r

handlers == <<server, worker>>
vars == <<paused, received, receipt, event, handlers, audit, reply>>

Ids == 1..MaxDeliveries
Done == {"accepted", "duplicate"}
Statuses == {"none", "verified", "processing", "failed"} \cup Done
Refusals == {"unknown_provider", "verification_failed", "invalid_payload", "paused"}
Verdicts == {"accepted", "duplicate", "payload_conflict"}
Answers == {"none", "error"} \cup Verdicts

Receipt == [key : Keys, body : Bodies, status : Statuses,
            attempts : 0..MaxAttempts, due : BOOLEAN]
ServerState == [pc : {"idle", "record", "put", "compare", "mark", "audit"},
                key : Keys, body : Bodies, r : 0..MaxDeliveries,
                verdict : {"none"} \cup Verdicts]
WorkerState == [pc : {"exit", "claim", "put", "mark", "retry"},
                r : 0..MaxDeliveries, verdict : {"none"} \cup Done]

TypeOK ==
    /\ paused \in BOOLEAN
    /\ received \in 0..MaxDeliveries
    /\ receipt \in [Ids -> Receipt]
    /\ event \in [Keys -> 0..MaxDeliveries]
    /\ server \in [Servers -> ServerState]
    /\ worker \in [Workers -> WorkerState]
    /\ audit \in [Refusals \cup Verdicts -> Nat]
    /\ reply \in [Ids -> Answers]

AnyKey == CHOOSE k \in Keys : TRUE
AnyBody == CHOOSE b \in Bodies : TRUE
IdleServer == [pc |-> "idle", key |-> AnyKey, body |-> AnyBody, r |-> 0, verdict |-> "none"]
IdleWorker == [pc |-> "exit", r |-> 0, verdict |-> "none"]

Init ==
    /\ paused = FALSE
    /\ received = 0
    /\ receipt = [r \in Ids |-> [key |-> AnyKey, body |-> AnyBody, status |-> "none",
                                 attempts |-> 0, due |-> FALSE]]
    /\ event = [k \in Keys |-> 0]
    /\ server = [s \in Servers |-> IdleServer]
    /\ worker = [w \in Workers |-> IdleWorker]
    /\ audit = [o \in Refusals \cup Verdicts |-> 0]
    /\ reply = [r \in Ids |-> "none"]

ServerGoto(s, pc) == server' = [server EXCEPT ![s].pc = pc]
ServerReturns(s) == server' = [server EXCEPT ![s] = IdleServer]
WorkerExits(w) == worker' = [worker EXCEPT ![w] = IdleWorker]
Count(outcome) == audit' = [audit EXCEPT ![outcome] = @ + 1]

-----------------------------------------------------------------------------
(* receive_provider_webhook().                                             *)

Refused == audit["unknown_provider"] + audit["verification_failed"]
           + audit["invalid_payload"] + audit["paused"]

\* The early exits: each is counted, and none leaves a receipt.
Refuse(outcome) ==
    /\ received + Refused < MaxDeliveries
    /\ outcome = "paused" => paused
    /\ Count(outcome)
    /\ UNCHANGED <<paused, received, receipt, event, handlers, reply>>

\* A verified, well-formed webhook finds intake running ...
Admit(s, k, b) ==
    /\ server[s].pc = "idle"
    /\ ~paused
    /\ server' = [server EXCEPT ![s] = [IdleServer EXCEPT !.pc = "record", !.key = k, !.body = b]]
    /\ UNCHANGED <<paused, received, receipt, event, worker, audit, reply>>

\* ... and record_verified() inserts its receipt.
RecordVerified(s) ==
    LET r == received + 1 IN
    /\ server[s].pc = "record"
    /\ r + Refused <= MaxDeliveries
    /\ received' = r
    /\ receipt' = [receipt EXCEPT ![r] = [key |-> server[s].key, body |-> server[s].body,
                                          status |-> "verified", attempts |-> 0, due |-> TRUE]]
    /\ server' = [server EXCEPT ![s].pc = "put", ![s].r = r]
    /\ UNCHANGED <<paused, event, worker, audit, reply>>

\* Mutant of Stores: ON CONFLICT DO UPDATE, a replay overwrites the event.
StoresAlways(r) == TRUE

\* put_if_absent(): event, message and compliance record in one transaction,
\* unless the event is there already.
Stores(r) == event[receipt[r].key] = 0
PutIfAbsent(r) ==
    event' = IF Stores(r) THEN [event EXCEPT ![receipt[r].key] = r] ELSE event

ServerPut(s) ==
    LET r == server[s].r IN
    /\ server[s].pc = "put"
    /\ PutIfAbsent(r)
    /\ server' = [server EXCEPT ![s].pc = IF Stores(r) THEN "mark" ELSE "compare",
                                ![s].verdict = IF Stores(r) THEN "accepted" ELSE "none"]
    /\ UNCHANGED <<paused, received, receipt, worker, audit, reply>>

\* The processed receipts of the same event other than r.
Processed(r) == {q \in Ids : q # r /\ receipt[q].key = receipt[r].key
                                   /\ receipt[q].status \in Done}

\* duplicate_body_matches_previous(): the first of them by received_at.
Conflicts(r) ==
    \E q \in Processed(r) : /\ \A p \in Processed(r) : q <= p
                            /\ receipt[q].body # receipt[r].body

ServerCompare(s) ==
    /\ server[s].pc = "compare"
    /\ server' = [server EXCEPT ![s].pc = "mark",
                    ![s].verdict = IF Conflicts(server[s].r) THEN "payload_conflict"
                                                             ELSE "duplicate"]
    /\ UNCHANGED <<paused, received, receipt, event, worker, audit, reply>>

\* Mutant of Markable: the UPDATE has no condition on processing_status.
MarkableAlways(r) == TRUE

\* mark_processed(): only from 'verified' or 'processing'; RuntimeError otherwise.
Markable(r) == receipt[r].status \in {"verified", "processing"}
MarkProcessed(r, status) ==
    receipt' = IF Markable(r) THEN [receipt EXCEPT ![r].status = status] ELSE receipt

ServerMark(s) ==
    LET r == server[s].r
        status == IF server[s].verdict = "accepted" THEN "accepted" ELSE "duplicate"
    IN
    /\ server[s].pc = "mark"
    /\ MarkProcessed(r, status)
    /\ IF Markable(r) THEN ServerGoto(s, "audit") /\ UNCHANGED reply
                      ELSE ServerReturns(s) /\ reply' = [reply EXCEPT ![r] = "error"]
    /\ UNCHANGED <<paused, received, event, worker, audit>>

\* The outcome is counted and the carrier answered: 202, or 409 on a conflict.
ServerAudit(s) ==
    /\ server[s].pc = "audit"
    /\ Count(server[s].verdict)
    /\ reply' = [reply EXCEPT ![server[s].r] = server[s].verdict]
    /\ ServerReturns(s)
    /\ UNCHANGED <<paused, received, receipt, event, worker>>

\* A database call raises (HTTP 500) or the process dies (no answer).
ServerFails(s) ==
    /\ server[s].pc # "idle"
    /\ ServerReturns(s)
    /\ reply' = IF server[s].r = 0 THEN reply ELSE [reply EXCEPT ![server[s].r] = "error"]
    /\ UNCHANGED <<paused, received, receipt, event, worker, audit>>

-----------------------------------------------------------------------------
(* inbound_worker.run_once().                                              *)

WorkerStart(w) ==
    /\ worker[w].pc = "exit"
    /\ worker' = [worker EXCEPT ![w].pc = "claim"]
    /\ UNCHANGED <<paused, received, receipt, event, server, audit, reply>>

\* Mutant of Claimable: a retried receipt is never picked up again.
ClaimableOnce == {r \in Ids : /\ receipt[r].status = "verified" /\ receipt[r].due
                              /\ receipt[r].attempts = 0}

\* claim_verified(): FOR UPDATE SKIP LOCKED, one statement and one UPDATE.
\* Which due receipt goes first (ORDER BY) is left open.
Claimable == {r \in Ids : receipt[r].status = "verified" /\ receipt[r].due}
Claim(w) ==
    /\ worker[w].pc = "claim"
    /\ \/ \E r \in Claimable :
            /\ receipt' = [receipt EXCEPT ![r].status = "processing", ![r].attempts = @ + 1]
            /\ worker' = [worker EXCEPT ![w].pc = "put", ![w].r = r]
       \/ Claimable = {} /\ WorkerExits(w) /\ UNCHANGED receipt
    /\ UNCHANGED <<paused, received, event, server, audit, reply>>

WorkerPut(w) ==
    LET r == worker[w].r IN
    /\ worker[w].pc = "put"
    /\ PutIfAbsent(r)
    /\ worker' = [worker EXCEPT ![w].pc = "mark",
                                ![w].verdict = IF Stores(r) THEN "accepted" ELSE "duplicate"]
    /\ UNCHANGED <<paused, received, receipt, server, audit, reply>>

\* put_if_absent() raises and rolls back.
WorkerPutFails(w) ==
    /\ worker[w].pc = "put"
    /\ worker' = [worker EXCEPT ![w].pc = "retry"]
    /\ UNCHANGED <<paused, received, receipt, event, server, audit, reply>>

\* retry_processing(): only from 'processing'; RuntimeError otherwise.
Exhausted(r) == receipt[r].attempts >= MaxAttempts
WorkerRetry(w) ==
    LET r == worker[w].r IN
    /\ worker[w].pc = "retry"
    /\ receipt' =
         IF receipt[r].status # "processing" THEN receipt
         ELSE IF Exhausted(r) THEN [receipt EXCEPT ![r].status = "failed"]
         ELSE [receipt EXCEPT ![r].status = "verified", ![r].due = FALSE]
    /\ WorkerExits(w)
    /\ UNCHANGED <<paused, received, event, server, audit, reply>>

WorkerMark(w) ==
    /\ worker[w].pc = "mark"
    /\ MarkProcessed(worker[w].r, worker[w].verdict)
    /\ WorkerExits(w)
    /\ UNCHANGED <<paused, received, event, server, audit, reply>>

WorkerCrash(w) ==
    /\ worker[w].pc # "exit"
    /\ WorkerExits(w)
    /\ UNCHANGED <<paused, received, receipt, event, server, audit, reply>>

-----------------------------------------------------------------------------
\* The retry delay of receipt r is over.
BecomeDue(r) ==
    /\ receipt[r].status = "verified" /\ ~receipt[r].due
    /\ receipt' = [receipt EXCEPT ![r].due = TRUE]
    /\ UNCHANGED <<paused, received, event, handlers, audit, reply>>

SetPaused ==
    /\ paused' = ~paused
    /\ UNCHANGED <<received, receipt, event, handlers, audit, reply>>

ServerStep(s) ==
    RecordVerified(s) \/ ServerPut(s) \/ ServerCompare(s) \/ ServerMark(s) \/ ServerAudit(s)
WorkerStep(w) ==
    Claim(w) \/ WorkerPut(w) \/ WorkerPutFails(w) \/ WorkerRetry(w) \/ WorkerMark(w)

Next ==
    \/ SetPaused
    \/ \E o \in Refusals : Refuse(o)
    \/ \E s \in Servers :
         \/ \E k \in Keys, b \in Bodies : Admit(s, k, b)
         \/ ServerStep(s) \/ ServerFails(s)
    \/ \E w \in Workers : WorkerStart(w) \/ WorkerStep(w) \/ WorkerCrash(w)
    \/ \E r \in Ids : BecomeDue(r)

Spec == Init /\ [][Next]_vars

\* Retry delays end and a started recovery run is scheduled until it returns.
FairSpec ==
    /\ Spec
    /\ \A r \in Ids : WF_vars(BecomeDue(r))
    /\ \A w \in Workers : WF_vars(WorkerStep(w))

-----------------------------------------------------------------------------
(* Properties.                                                             *)

\* At most one receipt of an event is 'accepted', and it is the one whose
\* payload put_if_absent() stored; a 'duplicate' has a stored event behind it.
ReceiptsAgreeWithStore ==
    \A r \in Ids :
        /\ receipt[r].status = "accepted" => event[receipt[r].key] = r
        /\ receipt[r].status = "duplicate" => event[receipt[r].key] # 0

\* The carrier is told 202 or 409, and so stops redelivering, only when the
\* event is durably stored.
AcknowledgedIsStored ==
    \A r \in Ids : reply[r] \in Verdicts => event[receipt[r].key] # 0

\* The boundary counters never report an event as accepted twice.
AuditNeverOvercounts ==
    audit["accepted"] <= Cardinality({k \in Keys : event[k] # 0})

\* Receipts, event store, answers and counters tell the same story, whichever
\* handler or worker died, was slow or was overtaken.
ReceiptsAreTrue ==
    TypeOK /\ ReceiptsAgreeWithStore /\ AcknowledgedIsStored /\ AuditNeverOvercounts

\* A processed or failed receipt is never processed again: late marks and
\* retries of a slow handler or worker bounce off it.
TerminalReceiptIsFinal ==
    [][\A r \in Ids : receipt[r].status \in Done \cup {"failed"}
                      => receipt'[r].status = receipt[r].status]_vars

Held(r) == \E w \in Workers : worker[w].pc \notin {"exit", "claim"} /\ worker[w].r = r

\* Recovery ends: if workers keep being started and eventually stop crashing, a
\* verified receipt is in the end processed or failed, or was orphaned by a
\* worker that died holding it; store failures and retries do not stop this.
\* A crash that does what the code's own next step would do is none.
RecoveryEnds ==
    (/\ []<><<\E w \in Workers : WorkerStart(w)>>_vars
     /\ <>[][\A w \in Workers : WorkerCrash(w) => WorkerStep(w)]_vars)
    => \A r \in Ids :
         (receipt[r].status = "verified") ~>
         (\/ receipt[r].status \in Done \cup {"failed"}
          \/ receipt[r].status = "processing" /\ ~Held(r))

-----------------------------------------------------------------------------
(* What the documentation says and the code does not do.                   *)

\* "successful new events become accepted, genuine replays become duplicate".
OnlyReplaysAreDuplicates ==
    \A r \in Ids : receipt[r].status = "duplicate" => event[receipt[r].key] # r

\* "changed body under the same event ID: rejected with HTTP 409".
ChangedBodyIsConflict ==
    \A r \in Ids : reply[r] = "duplicate" =>
        receipt[event[receipt[r].key]].body = receipt[r].body

\* "A storage/application failure therefore leaves a durable verified receipt".
FailureLeavesVerified ==
    \A r \in Ids : receipt[r].status = "processing" => Held(r)
=============================================================================

--------------------------- MODULE OutboundQueue ---------------------------
(***************************************************************************)
(* The durable outbound queue of the messaging gateway: the outbound_jobs  *)
(* and messages tables (app/persistence.py), the one-shot workers that     *)
(* drain them (run_once, app/outbound_worker.py), the rate limiter they    *)
(* reserve capacity from (SendRateLimiter) and the carrier behind the      *)
(* provider adapters (app/telnyx_provider.py, app/bandwidth_provider.py).  *)
(*                                                                         *)
(* Each step of a worker is one transaction or one call to the carrier,    *)
(* together with the local code that follows it; several workers, operator *)
(* commands and suppression changes interleave between the steps, and a    *)
(* worker may die between any two of them.  The delivery reconciler        *)
(* (app/delivery_status.py, module DeliveryStatus) is the second writer of *)
(* messages.status.                                                        *)
(***************************************************************************)
EXTENDS Integers, FiniteSets, Sequences

CONSTANTS
    Jobs, Workers,
    Senders, SenderOf,  \* the (provider, sender) pair of a job's message
    Adapter,            \* Adapter[j]: the provider adapter the job names
    Allowed,            \* jobs whose provider is allowlisted AND registered
    PolicyRefuses,      \* jobs for which OutboundPolicy.evaluate has a reason
    MmsMedia,           \* jobs that are MMS with media
    Recipients,         \* addresses
    RecipientsOf,       \* the addresses a job's message goes to
    MaxAttempts,        \* max_attempts after the clamp to 1..100
    RetryDelay,         \* delay_seconds after the clamp to 1..86400, in ticks
    Hour, Day, HourlyLimit, DailyLimit,
    MaxClock,           \* bound: later instants are all taken to be this one
    NoTx, NoJob

ASSUME QueueAssumption ==
    /\ Allowed \subseteq Jobs /\ PolicyRefuses \subseteq Jobs /\ MmsMedia \subseteq Jobs
    /\ Adapter \in [Jobs -> {"simulator", "contract", "telnyx", "bandwidth"}]
    /\ RecipientsOf \in [Jobs -> SUBSET Recipients]
    /\ MaxAttempts \in 1..100
    /\ RetryDelay \in Nat \ {0}
    /\ MaxClock \in Nat
    /\ NoJob \notin Jobs

VARIABLES
    clock, reservations, tx,   \* the rate limiter's state
    job,         \* job[j]: the outbound_jobs row, state "absent" before enqueue
    message,     \* message[j]: status and provider_message_id of the messages row
    paused,      \* messaging_control_state.paused
    suppressed,  \* addresses in the suppressions table
    worker,      \* worker[w]: where a run_once() is and what it holds
    submissions, \* history: submissions[j], when the carrier was called for j
    accepted     \* history: accepted[j], how often the carrier took the message

limiterVars == <<clock, reservations, tx>>
rowVars == <<job, message>>
controlVars == <<paused, suppressed>>
carrierVars == <<submissions, accepted>>
vars == <<limiterVars, rowVars, controlVars, worker, carrierVars>>

Limiter == INSTANCE SendRateLimiter WITH Clients <- Workers

ASSUME LimiterAssumption ==
    /\ SenderOf \in [Jobs -> Senders]
    /\ NoTx \notin Limiter!Transaction

Instants == 0..MaxClock
BlockStates == {"blocked", "suppressed", "quarantined", "rate_limited"}
JobStates == {"absent", "pending", "processing", "sent", "failed"} \cup BlockStates
Terminal == {"sent", "failed"} \cup BlockStates

\* What the carrier's callbacks report of a message it has taken.
DeliveryStates == {"delivered", "failed", "undelivered"}

\* Where run_once() is; "block" carries the status to write, "record" the
\* way provider.send() ended.
Outcomes == {"accepted", "not_accepted", "safe_retry", "rejected", "unknown"}
Steps == {"exit", "claim", "claiming", "gates", "reserve", "reserving",
          "send", "record", "block"}

Idle == [pc |-> "exit", job |-> NoJob, note |-> "none"]

JobRow == [state : JobStates, attempts : Nat, available : Instants, created : Instants]
MessageRow == [status : JobStates \cup DeliveryStates \cup {"none", "queued"},
               provider_message_id : Jobs \cup {NoJob}]
WorkerState == [pc : Steps, job : Jobs \cup {NoJob},
                note : {"none"} \cup BlockStates \cup Outcomes]

RowsOK == job \in [Jobs -> JobRow] /\ message \in [Jobs -> MessageRow]
ControlOK == paused \in BOOLEAN /\ suppressed \subseteq Recipients
CarrierOK == submissions \in [Jobs -> Seq(Instants)] /\ accepted \in [Jobs -> Nat]
WorkersOK ==
    /\ worker \in [Workers -> WorkerState]
    /\ \A w \in Workers :
         /\ worker[w].job = NoJob <=> worker[w].pc \in {"exit", "claim"}
         /\ worker[w].pc = "block" => worker[w].note \in BlockStates
         /\ worker[w].pc = "record" => worker[w].note \in Outcomes
         /\ tx[w] # NoTx <=> worker[w].pc = "reserving"

TypeOK == Limiter!TypeOK /\ RowsOK /\ ControlOK /\ CarrierOK /\ WorkersOK

Init ==
    /\ Limiter!Init
    /\ job = [j \in Jobs |-> [state |-> "absent", attempts |-> 0,
                              available |-> 0, created |-> 0]]
    /\ message = [j \in Jobs |-> [status |-> "none", provider_message_id |-> NoJob]]
    /\ paused = FALSE
    /\ suppressed = {}
    /\ worker = [w \in Workers |-> Idle]
    /\ submissions = [j \in Jobs |-> <<>>]
    /\ accepted = [j \in Jobs |-> 0]

Move(w, pc, j, note) ==
    worker' = [worker EXCEPT ![w] = [pc |-> pc, job |-> j, note |-> note]]
Goto(w, pc, note) == Move(w, pc, worker[w].job, note)
Exit(w) == worker' = [worker EXCEPT ![w] = Idle]

-----------------------------------------------------------------------------
(* The rest of the gateway, seen from the queue.                           *)

\* enqueue_outbound(): event, message and job in one transaction.  A second
\* call with the same (provider, provider_event_id) inserts nothing.
Enqueue(j) ==
    /\ job[j].state = "absent"
    /\ job' = [job EXCEPT ![j] = [state |-> "pending", attempts |-> 0,
                                  available |-> clock, created |-> clock]]
    /\ message' = [message EXCEPT ![j].status = "queued"]
    /\ UNCHANGED <<limiterVars, controlVars, worker, carrierVars>>

\* set_paused(): the operator's pause and resume.
SetPaused ==
    /\ paused' = ~paused
    /\ UNCHANGED <<limiterVars, rowVars, suppressed, worker, carrierVars>>

\* The compliance store adds or removes a suppression (STOP, START, manual).
SetSuppressed(a) ==
    /\ suppressed' = IF a \in suppressed THEN suppressed \ {a} ELSE suppressed \cup {a}
    /\ UNCHANGED <<limiterVars, rowVars, paused, worker, carrierVars>>

\* put_if_absent() and reconcile_one() of the delivery store write a status
\* into the messages row that has the carrier's id; the job is left alone.
\* Which status is current is the subject of module DeliveryStatus.
DeliveryUpdate(j) ==
    /\ message[j].provider_message_id = j
    /\ \E status \in DeliveryStates : message' = [message EXCEPT ![j].status = status]
    /\ UNCHANGED <<limiterVars, job, controlVars, worker, carrierVars>>

Tick ==
    /\ Limiter!Tick
    /\ UNCHANGED <<rowVars, controlVars, worker, carrierVars>>

-----------------------------------------------------------------------------
(* run_once().                                                             *)

\* Mutant of Start: the pause is not read.
StartUnasked(w) ==
    /\ worker[w].pc = "exit"
    /\ Goto(w, "claim", "none")
    /\ UNCHANGED <<limiterVars, rowVars, controlVars, carrierVars>>

\* get_control_state(): a paused gateway makes run_once() return at once.
Start(w) ==
    /\ worker[w].pc = "exit"
    /\ ~paused
    /\ Goto(w, "claim", "none")
    /\ UNCHANGED <<limiterVars, rowVars, controlVars, carrierVars>>

\* Rows other claim transactions hold: SKIP LOCKED passes over them.
Locked == {worker[w].job : w \in {v \in Workers : worker[v].pc = "claiming"}}

\* Mutant of Ready: failed jobs are picked up again.
ReadyOrFailed == {j \in Jobs \ Locked :
                    job[j].state \in {"pending", "failed"} /\ job[j].available <= clock}

\* WHERE state = 'pending' AND available_at <= now().
Ready == {j \in Jobs \ Locked : job[j].state = "pending" /\ job[j].available <= clock}

\* ORDER BY available_at, created_at, id; ids are random.
Precedes(i, j) ==
    \/ job[i].available < job[j].available
    \/ job[i].available = job[j].available /\ job[i].created < job[j].created

\* claim_outbound_job(): SELECT ... FOR UPDATE SKIP LOCKED LIMIT 1.
ClaimLock(w) ==
    /\ worker[w].pc = "claim"
    /\ \/ \E j \in Ready :
            /\ \A i \in Ready : ~Precedes(i, j)
            /\ Move(w, "claiming", j, "none")
       \/ Ready = {} /\ Exit(w)
    /\ UNCHANGED <<limiterVars, rowVars, controlVars, carrierVars>>

\* ... UPDATE to 'processing' and commit.
ClaimCommit(w) ==
    LET j == worker[w].job IN
    /\ worker[w].pc = "claiming"
    /\ job' = [job EXCEPT ![j].state = "processing", ![j].attempts = @ + 1]
    /\ Goto(w, "gates", "none")
    /\ UNCHANGED <<limiterVars, message, controlVars, carrierVars>>

\* Mutant of GateVerdict: MMS media is no longer held back.
GateVerdictNoMedia(j) ==
    IF j \notin Allowed \/ j \in PolicyRefuses THEN "blocked"
    ELSE IF RecipientsOf[j] \cap suppressed # {} THEN "suppressed"
    ELSE "none"

\* Mutant of GateVerdict: a retried job has passed the suppressions already.
GateVerdictFirstAttempt(j) ==
    IF j \notin Allowed \/ j \in PolicyRefuses THEN "blocked"
    ELSE IF RecipientsOf[j] \cap suppressed # {} /\ job[j].attempts = 1 THEN "suppressed"
    ELSE IF j \in MmsMedia THEN "quarantined"
    ELSE "none"

\* The gates in the code's order: allowlist, registry, policy, suppressions
\* (a database read) and MMS media.
GateVerdict(j) ==
    IF j \notin Allowed \/ j \in PolicyRefuses THEN "blocked"
    ELSE IF RecipientsOf[j] \cap suppressed # {} THEN "suppressed"
    ELSE IF j \in MmsMedia THEN "quarantined"
    ELSE "none"

Gates(w) ==
    LET verdict == GateVerdict(worker[w].job) IN
    /\ worker[w].pc = "gates"
    /\ Goto(w, IF verdict = "none" THEN "reserve" ELSE "block", verdict)
    /\ UNCHANGED <<limiterVars, rowVars, controlVars, carrierVars>>

\* rate_limiter.reserve(): the transaction begins and fixes its now() ...
ReserveBegin(w) ==
    /\ worker[w].pc = "reserve"
    /\ Limiter!Begin(w, worker[w].job)
    /\ Goto(w, "reserving", "none")
    /\ UNCHANGED <<rowVars, controlVars, carrierVars>>

\* ... and, under the advisory lock, decides and commits.
ReserveCommit(w) ==
    /\ worker[w].pc = "reserving"
    /\ Limiter!Commit(w)
    /\ IF Limiter!Granted(tx[w]) THEN Goto(w, "send", "none")
                                 ELSE Goto(w, "block", "rate_limited")
    /\ UNCHANGED <<rowVars, controlVars, carrierVars>>

\* What can become of one HTTP submission, and when the carrier may have taken
\* the message (Bandwidth documents 429 and 5xx as "not sent").
Replies == {"ok", "connect_failed", "lost", "unusable_reply",
            "http_4xx", "http_429", "http_5xx"}
MayBeTaken(adapter, reply) ==
    \/ reply \in {"ok", "lost", "unusable_reply"}
    \/ reply = "http_5xx" /\ adapter # "bandwidth"

\* Mutant of SafeRetryReplies: a lost reply counts as "not submitted".
SafeRetryWhenLost(adapter) == {"connect_failed", "lost"}

\* The replies an HTTP adapter turns into ProviderSafeRetryError.
SafeRetryReplies(adapter) ==
    {"connect_failed"} \cup IF adapter = "bandwidth" THEN {"http_429", "http_5xx"} ELSE {}

\* Mutant of Report: every other failure counts as a rejection.
ReportRejected(adapter, reply) ==
    IF reply = "ok" THEN "accepted"
    ELSE IF reply \in SafeRetryReplies(adapter) THEN "safe_retry" ELSE "rejected"

\* How send() of the two HTTP adapters reports a reply to run_once().
Report(adapter, reply) ==
    IF reply = "ok" THEN "accepted"
    ELSE IF reply \in SafeRetryReplies(adapter) THEN "safe_retry"
    ELSE IF reply \in {"http_4xx", "http_429"} THEN "rejected"
    ELSE "unknown"

\* The ways send() can end: the simulator accepts; "contract" is any adapter
\* that keeps the MessagingProvider contract, accepted=False included.
SendMayEnd(adapter, taken, report) ==
    \/ adapter = "simulator" /\ taken /\ report = "accepted"
    \/ /\ adapter = "contract"
       /\ report = "accepted" => taken
       /\ report \in {"not_accepted", "safe_retry", "rejected"} => ~taken
    \/ /\ adapter \in {"telnyx", "bandwidth"}
       /\ \E reply \in Replies :
            /\ report = Report(adapter, reply)
            /\ taken => MayBeTaken(adapter, reply)
            /\ reply = "ok" => taken

\* provider.send().
Send(w) ==
    LET j == worker[w].job IN
    /\ worker[w].pc = "send"
    /\ \E taken \in BOOLEAN, report \in Outcomes :
         /\ SendMayEnd(Adapter[j], taken, report)
         /\ submissions' = [submissions EXCEPT ![j] = Append(@, clock)]
         /\ accepted' = [accepted EXCEPT ![j] = IF taken THEN @ + 1 ELSE @]
         /\ Goto(w, "record", report)
    /\ UNCHANGED <<limiterVars, rowVars, controlVars>>

\* Mutant of Finish: the messages row is not updated with the job.
FinishJobOnly(w, row, status, id) ==
    /\ job' = [job EXCEPT ![worker[w].job] = row]
    /\ Exit(w)
    /\ UNCHANGED <<limiterVars, message, controlVars, carrierVars>>

\* The three UPDATEs that end a claim all require state = 'processing' and
\* raise RuntimeError otherwise, which ends the process.
Finish(w, row, status, id) ==
    LET j == worker[w].job IN
    /\ IF job[j].state = "processing"
       THEN /\ job' = [job EXCEPT ![j] = row]
            /\ message' = [message EXCEPT ![j] = [status |-> status,
                                                  provider_message_id |-> id]]
       ELSE UNCHANGED rowVars
    /\ Exit(w)
    /\ UNCHANGED <<limiterVars, controlVars, carrierVars>>

\* block_outbound_job().
Block(w) ==
    LET j == worker[w].job IN
    /\ worker[w].pc = "block"
    /\ Finish(w, [job[j] EXCEPT !.state = worker[w].note], worker[w].note,
              message[j].provider_message_id)

\* Mutant of Exhausted: one attempt too many is allowed.
ExhaustedTooLate(j) == job[j].attempts > MaxAttempts

\* retry_outbound_job(): the last allowed attempt fails the job, an earlier
\* one returns it to the queue at now() + delay.
Later(t) == IF t + RetryDelay <= MaxClock THEN t + RetryDelay ELSE MaxClock
Exhausted(j) == job[j].attempts >= MaxAttempts
Retry(w) ==
    LET j == worker[w].job
        exhausted == Exhausted(j)
    IN
    /\ worker[w].pc = "record"
    /\ worker[w].note \in {"safe_retry", "not_accepted"}
    /\ Finish(w,
              [job[j] EXCEPT !.state = IF exhausted THEN "failed" ELSE "pending",
                             !.available = IF exhausted THEN @ ELSE Later(clock)],
              IF exhausted THEN "failed" ELSE "queued",
              message[j].provider_message_id)

\* Mutant of Rejected: a rejected message gets its reservation back.
RejectedWithRefund(w) ==
    LET j == worker[w].job IN
    /\ worker[w].pc = "record"
    /\ worker[w].note = "rejected"
    /\ reservations' = {r \in reservations : r.job # j}
    /\ job' = [job EXCEPT ![j].state = "blocked"]
    /\ message' = [message EXCEPT ![j].status = "blocked"]
    /\ Exit(w)
    /\ UNCHANGED <<clock, tx, controlVars, carrierVars>>

\* A permanent rejection blocks the job for operator review.
Rejected(w) ==
    LET j == worker[w].job IN
    /\ worker[w].pc = "record"
    /\ worker[w].note = "rejected"
    /\ Finish(w, [job[j] EXCEPT !.state = "blocked"], "blocked",
              message[j].provider_message_id)

\* complete_outbound_job(): the carrier's id is recorded with the status.
Complete(w) ==
    LET j == worker[w].job IN
    /\ worker[w].pc = "record"
    /\ worker[w].note = "accepted"
    /\ Finish(w, [job[j] EXCEPT !.state = "sent"], "sent", j)

\* An uncertain outcome: the job stays 'processing' for reconciliation.
ReconcileRequired(w) ==
    /\ worker[w].pc = "record"
    /\ worker[w].note = "unknown"
    /\ Exit(w)
    /\ UNCHANGED <<limiterVars, rowVars, controlVars, carrierVars>>

\* The process dies or a database call raises: an open transaction rolls
\* back, nothing else is undone.
Crash(w) ==
    /\ worker[w].pc # "exit"
    /\ IF tx[w] # NoTx THEN Limiter!Abort(w) ELSE UNCHANGED limiterVars
    /\ Exit(w)
    /\ UNCHANGED <<rowVars, controlVars, carrierVars>>

-----------------------------------------------------------------------------
Step(w) ==
    \/ Start(w) \/ ClaimLock(w) \/ ClaimCommit(w) \/ Gates(w)
    \/ ReserveBegin(w) \/ ReserveCommit(w) \/ Send(w)
    \/ Block(w) \/ Retry(w) \/ Rejected(w) \/ Complete(w) \/ ReconcileRequired(w)

Environment ==
    \/ Tick \/ SetPaused
    \/ \E j \in Jobs : Enqueue(j) \/ DeliveryUpdate(j)
    \/ \E a \in Recipients : SetSuppressed(a)

Next == Environment \/ \E w \in Workers : Step(w) \/ Crash(w)

Spec == Init /\ [][Next]_vars

-----------------------------------------------------------------------------
(* Properties.                                                             *)

\* Claims are exclusive: between its claim and its last UPDATE, a run_once()
\* holds a 'processing' job that no other worker holds, so the "outbound job
\* is not processing" errors of complete/block/retry_outbound_job cannot occur.
Holding(w) == worker[w].pc \notin {"exit", "claim"}
ClaimExclusive ==
    \A w \in Workers : Holding(w) =>
        /\ job[worker[w].job].state =
             (IF worker[w].pc = "claiming" THEN "pending" ELSE "processing")
        /\ \A v \in Workers \ {w} : worker[v].job # worker[w].job

\* At most once: whatever crashes, lost replies and retries occur, the carrier
\* never takes a message twice.
AtMostOnce == \A j \in Jobs : accepted[j] <= 1

\* The rows, and what a worker is about to write into them, tell the truth
\* about the carrier: a job reported as sent was taken, and a job that may be
\* sent again, or is reported as not sent, was not.  Only a 'processing' job
\* that nobody holds, or whose reply was lost, may be either.
RowsAgreeWithCarrier ==
    /\ \A j \in Jobs :
         /\ job[j].state = "sent" => accepted[j] = 1
         /\ job[j].state \notin {"processing", "sent"} => accepted[j] = 0
    /\ \A w \in Workers : Holding(w) =>
         /\ worker[w].pc # "record" => accepted[worker[w].job] = 0
         /\ worker[w].pc = "record" =>
              /\ worker[w].note = "accepted" => accepted[worker[w].job] = 1
              /\ worker[w].note \notin {"accepted", "unknown"} => accepted[worker[w].job] = 0

\* The messages row never disagrees with the job it was queued with: only a
\* sent job's row has the carrier's id, and only there a delivery report may
\* have replaced the status, never by one of the queue.
MessageStatus(state) ==
    CASE state = "absent" -> "none"
      [] state \in {"pending", "processing"} -> "queued"
      [] OTHER -> state
MessageAgreesWithJob ==
    \A j \in Jobs :
        /\ message[j].provider_message_id = (IF job[j].state = "sent" THEN j ELSE NoJob)
        /\ \/ message[j].status = MessageStatus(job[j].state)
           \/ job[j].state = "sent" /\ message[j].status \in DeliveryStates

\* Retries are bounded: the carrier is called at most once per claim, and a job
\* is claimed at most max_attempts times even when workers crash.
SubmissionsBounded ==
    \A j \in Jobs : Len(submissions[j]) <= job[j].attempts /\ job[j].attempts <= MaxAttempts

\* Every job is accounted for: its message row fits its state, and it has no
\* more submissions than claims, nor more claims than max_attempts.
JobsAreAccounted == MessageAgreesWithJob /\ SubmissionsBounded

\* Nothing reaches the carrier around the gates: a submitted job has its
\* reservation and passed the allowlist, the policy and the MMS gate.
SubmittedIsAuthorized ==
    \A j \in Jobs : submissions[j] # <<>> =>
        /\ \E r \in reservations : r.job = j
        /\ j \in Allowed \ (PolicyRefuses \cup MmsMedia)

\* What an "hourly messages per provider+sender" limit would say: less than an
\* hour never sees more messages of one sender submitted than the limit.
SubmittedWithin(s, t, w) ==
    {j \in Jobs : /\ SenderOf[j] = s
                  /\ \E n \in 1..Len(submissions[j]) : submissions[j][n] \in t..(t + w)}
HourlySubmissionsBounded ==
    \A s \in Senders, t \in Instants :
        Cardinality(SubmittedWithin(s, t, Hour - 1)) <= HourlyLimit

\* A job that left the queue never comes back to it: its row and the carrier's
\* id stay as they are, whatever lost workers still do, and its message is only
\* ever changed to what a delivery report says of a sent one.
TerminalIsFinal ==
    [][\A j \in Jobs : job[j].state \in Terminal =>
         /\ UNCHANGED <<job[j], message[j].provider_message_id>>
         /\ \/ UNCHANGED message[j].status
            \/ job[j].state = "sent" /\ message[j].status' \in DeliveryStates]_vars

\* The worker's use of the ledger is a behaviour of the rate limiter.
ImplementsLimiter == Limiter!Spec
=============================================================================

--------------------------- MODULE TelegraphQueue ---------------------------
(***************************************************************************)
(* The store-and-forward queue of the telegraph offices                    *)
(* (reference/telegraph_store_forward.py): enqueue(), cancel() and workers *)
(* that run process_once() against one SQLite file.                        *)
(*                                                                         *)
(* Most methods read in one transaction and write in the next, so every    *)
(* call is a read step and a write step; claim_due() begins with an UPDATE *)
(* and is one step.  process_once() reads the clock once, at its start.    *)
(***************************************************************************)
EXTENDS Naturals, FiniteSets

CONSTANTS
  Telegrams,
  TgProducers,   \* processes that call enqueue()
  TgWorkers,     \* processes that call process_once()
  MaxQueued,     \* limits.max_messages
  MaxTries,      \* retry_policy.max_attempts
  TgLease,       \* lease_seconds
  TgExpiry,      \* expires_at of every telegram
  NoTelegram,
  MaxTgTime      \* bound on the clock

ASSUME TelegraphAssumption ==
  /\ MaxTgTime \in Nat /\ TgExpiry \in 1..MaxTgTime
  /\ MaxTries \in Nat \ {0} /\ TgLease \in Nat \ {0}
  /\ NoTelegram \notin Telegrams \cup TgWorkers

VARIABLES
  tgNow,     \* the clock
  tgRow,     \* telegram -> its row of telegraph_queue
  tgLast,    \* telegram -> the newest row of telegraph_queue_events
  tgEnq,     \* producer -> the telegram that enqueue() has found room for
  tgWork,    \* worker -> where its process_once() stands
  tgCancel,  \* the telegram that a cancel() has found cancellable
  tgTaken    \* history: telegrams the sender has handed over

tgVars == <<tgNow, tgRow, tgLast, tgEnq, tgWork, tgCancel, tgTaken>>

TerminalStates == {"delivered", "expired", "rejected", "cancelled"}
TgRows == [state : {"absent", "queued", "retry_wait", "in_flight",
                    "custody_transferred"} \cup TerminalStates,
           tries : 0..MaxTries, due : Nat, owner : TgWorkers \cup {NoTelegram},
           lease : Nat]
TgIdle == [at |-> "idle"]
ActiveTelegrams ==
  {m \in Telegrams : tgRow[m].state \notin TerminalStates \cup {"absent"}}

\* A row leaves its lease.
Released(row, state) ==
  [row EXCEPT !.state = state, !.owner = NoTelegram, !.lease = 0]
----------------------------------------------------------------------------
TgInit ==
  /\ tgNow = 0
  /\ tgRow = [m \in Telegrams |-> [state |-> "absent", tries |-> 0, due |-> 0,
                                   owner |-> NoTelegram, lease |-> 0]]
  /\ tgLast = [m \in Telegrams |-> "none"]
  /\ tgEnq = [p \in TgProducers |-> NoTelegram]
  /\ tgWork = [w \in TgWorkers |-> TgIdle]
  /\ tgCancel = NoTelegram
  /\ tgTaken = {}

HasRoom == Cardinality(ActiveTelegrams) < MaxQueued

\* enqueue() up to the capacity check; a stored telegram is not stored again.
AdmitTelegram(p, m) ==
  /\ tgEnq[p] = NoTelegram /\ tgNow < TgExpiry
  /\ tgRow[m].state = "absent" /\ HasRoom
  /\ tgEnq' = [tgEnq EXCEPT ![p] = m]
  /\ UNCHANGED <<tgNow, tgRow, tgLast, tgWork, tgCancel, tgTaken>>

\* The INSERT and its event; the primary key refuses a second row.
InsertTelegram(p) ==
  LET m == tgEnq[p] IN
  /\ m # NoTelegram
  /\ tgEnq' = [tgEnq EXCEPT ![p] = NoTelegram]
  /\ IF tgRow[m].state = "absent"
     THEN /\ tgRow' = [tgRow EXCEPT ![m].state = "queued"]
          /\ tgLast' = [tgLast EXCEPT ![m] = "accepted_for_custody"]
     ELSE UNCHANGED <<tgRow, tgLast>>
  /\ UNCHANGED <<tgNow, tgWork, tgCancel, tgTaken>>

\* cancel(): its SELECT, and its UPDATE by message_id alone.
CancelReads(m) ==
  /\ tgCancel = NoTelegram
  /\ m \in ActiveTelegrams /\ tgRow[m].state # "custody_transferred"
  /\ tgCancel' = m
  /\ UNCHANGED <<tgNow, tgRow, tgLast, tgEnq, tgWork, tgTaken>>

CancelWrites ==
  /\ tgCancel # NoTelegram
  /\ tgRow' = [tgRow EXCEPT ![tgCancel] = Released(@, "cancelled")]
  /\ tgLast' = [tgLast EXCEPT ![tgCancel] = "cancelled"]
  /\ tgCancel' = NoTelegram
  /\ UNCHANGED <<tgNow, tgEnq, tgWork, tgTaken>>

\* Mutant: only telegrams that wait for an attempt expire.
FindExpiredWaiting(w) ==
  /\ tgWork[w] = TgIdle
  /\ tgWork' = [tgWork EXCEPT ![w] =
       [at |-> "expire", now |-> tgNow,
        batch |-> {m \in ActiveTelegrams : /\ TgExpiry <= tgNow
                                           /\ tgRow[m].state # "custody_transferred"}]]
  /\ UNCHANGED <<tgNow, tgRow, tgLast, tgEnq, tgCancel, tgTaken>>

\* process_once() begins: the clock, and the SELECT of expire().
FindExpired(w) ==
  /\ tgWork[w] = TgIdle
  /\ tgWork' = [tgWork EXCEPT ![w] =
       [at |-> "expire", now |-> tgNow,
        batch |-> IF TgExpiry <= tgNow THEN ActiveTelegrams ELSE {}]]
  /\ UNCHANGED <<tgNow, tgRow, tgLast, tgEnq, tgCancel, tgTaken>>

\* The UPDATEs of expire(), again by message_id alone.
ExpireFound(w) ==
  LET c == tgWork[w] IN
  /\ c.at = "expire"
  /\ tgRow' = [m \in Telegrams |->
       IF m \in c.batch THEN Released(tgRow[m], "expired") ELSE tgRow[m]]
  /\ tgLast' = [m \in Telegrams |-> IF m \in c.batch THEN "expired" ELSE tgLast[m]]
  /\ tgWork' = [tgWork EXCEPT ![w] = [at |-> "claim", now |-> c.now, batch |-> {}]]
  /\ UNCHANGED <<tgNow, tgEnq, tgCancel, tgTaken>>

\* claim_due() takes back the leases that have run out ...
Reclaimable(row, now) == row.state = "in_flight" /\ row.lease <= now

\* ... and leases what is due.
Due(row, now) ==
  /\ row.state \in {"queued", "retry_wait"} \/ Reclaimable(row, now)
  /\ row.due <= now /\ TgExpiry > now

ClaimDue(w) ==
  LET c == tgWork[w]
      claimed == {m \in Telegrams : Due(tgRow[m], c.now)}
  IN
  /\ c.at = "claim"
  /\ tgRow' = [m \in Telegrams |->
       IF m \in claimed
       THEN [tgRow[m] EXCEPT !.state = "in_flight", !.owner = w,
                             !.lease = c.now + TgLease]
       ELSE IF Reclaimable(tgRow[m], c.now)
       THEN Released(tgRow[m], "retry_wait") ELSE tgRow[m]]
  /\ tgLast' = [m \in Telegrams |->
       IF m \in claimed THEN "delivery_attempt_started" ELSE tgLast[m]]
  /\ tgWork' = [tgWork EXCEPT ![w] = IF claimed = {} THEN TgIdle
                 ELSE [at |-> "send", now |-> c.now, batch |-> claimed]]
  /\ UNCHANGED <<tgNow, tgEnq, tgCancel, tgTaken>>

\* The state that fail() writes.
FailState(row, now, retryable) ==
  CASE now >= TgExpiry -> "expired"
    [] now < TgExpiry /\ (~retryable \/ row.tries + 1 >= MaxTries) -> "rejected"
    [] OTHER -> "retry_wait"

\* sender(), and the row that the method for its outcome reads.  An exception,
\* one of acknowledge_delivery() included, ends in fail(); a lost lease makes
\* fail() raise as well and process_once() end.
SendTelegram(w, m, outcome, taken) ==
  LET c == tgWork[w]
      failed == outcome \in {"unsupported", "exception"}
      state == IF failed THEN FailState(tgRow[m], c.now, outcome = "exception")
               ELSE outcome
      tries == IF failed THEN tgRow[m].tries + 1 ELSE tgRow[m].tries
  IN
  /\ c.at = "send" /\ m \in c.batch
  /\ ~failed => taken
  /\ tgTaken' = IF taken THEN tgTaken \cup {m} ELSE tgTaken
  /\ tgWork' = [tgWork EXCEPT ![w] =
       IF tgRow[m].state = "in_flight" /\ tgRow[m].owner = w
       THEN [at |-> "write", now |-> c.now, batch |-> c.batch, m |-> m,
             state |-> state, tries |-> tries]
       ELSE TgIdle]
  /\ UNCHANGED <<tgNow, tgRow, tgLast, tgEnq, tgCancel>>

\* Mutant: the row and its event are two transactions, the row first.
OutcomeEventLost(c) == tgLast[c.m]

\* The event that is written together with the row.
OutcomeEvent(c) ==
  IF c.state \in {"delivered", "custody_transferred"} THEN c.state
  ELSE "delivery_failed"

\* The row that its UPDATE writes.
Recorded(row, c, delay) ==
  [Released(row, c.state) EXCEPT
     !.tries = IF c.state \in {"delivered", "custody_transferred"} THEN @ ELSE c.tries,
     !.due = IF c.state = "retry_wait" THEN c.now + delay ELSE @]

\* Its UPDATE.  The retry delay is at least one second.
WriteOutcome(w) ==
  LET c == tgWork[w]
      rest == c.batch \ {c.m}
  IN
  /\ c.at = "write"
  /\ \E delay \in 1..MaxTgTime :
       tgRow' = [tgRow EXCEPT ![c.m] = Recorded(@, c, delay)]
  /\ tgLast' = [tgLast EXCEPT ![c.m] = OutcomeEvent(c)]
  /\ tgWork' = [tgWork EXCEPT ![w] = IF rest = {} THEN TgIdle
                 ELSE [at |-> "send", now |-> c.now, batch |-> rest]]
  /\ UNCHANGED <<tgNow, tgEnq, tgCancel, tgTaken>>

TgWorkerDies(w) ==
  /\ tgWork[w] # TgIdle
  /\ tgWork' = [tgWork EXCEPT ![w] = TgIdle]
  /\ UNCHANGED <<tgNow, tgRow, tgLast, tgEnq, tgCancel, tgTaken>>

TgTick ==
  /\ tgNow < MaxTgTime /\ tgNow' = tgNow + 1
  /\ UNCHANGED <<tgRow, tgLast, tgEnq, tgWork, tgCancel, tgTaken>>

ProcessStep(w) ==
  \/ FindExpired(w) \/ ExpireFound(w) \/ ClaimDue(w) \/ WriteOutcome(w)
  \/ \E m \in Telegrams, taken \in BOOLEAN,
        outcome \in {"delivered", "custody_transferred", "unsupported", "exception"} :
       SendTelegram(w, m, outcome, taken)

TgNext ==
  \/ TgTick \/ CancelWrites
  \/ \E p \in TgProducers : InsertTelegram(p) \/ \E m \in Telegrams : AdmitTelegram(p, m)
  \/ \E m \in Telegrams : CancelReads(m)
  \/ \E w \in TgWorkers : ProcessStep(w) \/ TgWorkerDies(w)

TgSpec == TgInit /\ [][TgNext]_tgVars

\* Time passes, workers are run again and again, and they do not die for ever
\* before their first write.
TgFairness ==
  /\ WF_tgVars(TgTick)
  /\ \A w \in TgWorkers : WF_tgVars(ProcessStep(w))
  /\ SF_tgVars(\E w \in TgWorkers : ExpireFound(w))
----------------------------------------------------------------------------
\* The newest event of a telegram explains its state, whatever calls of other
\* processes came between the read and the write of a call; a telegram whose
\* lease has run out is the only one that waits without an event of its own.
EventsTellState ==
  \A m \in Telegrams :
    tgRow[m].state \in
      CASE tgLast[m] = "none" -> {"absent"}
        [] tgLast[m] = "accepted_for_custody" -> {"queued"}
        [] tgLast[m] = "delivery_attempt_started" -> {"in_flight", "retry_wait"}
        [] tgLast[m] = "delivery_failed" -> {"retry_wait", "rejected", "expired"}
        [] OTHER -> {tgLast[m]}

\* The rows are of their type and agree with their events, a row is leased
\* exactly while it is in flight, a telegram that may be sent again has attempts
\* left, and what is reported as delivered or transferred was handed over.
TelegramsAreSound ==
  /\ EventsTellState
  /\ tgRow \in [Telegrams -> TgRows]
  /\ \A m \in Telegrams :
       /\ tgRow[m].state = "in_flight" <=> tgRow[m].owner # NoTelegram
       /\ tgRow[m].state \in {"queued", "retry_wait", "in_flight"} =>
            tgRow[m].tries < MaxTries
       /\ tgRow[m].state \in {"delivered", "custody_transferred"} => m \in tgTaken

\* "expiry [...] and explicit terminal states": every stored telegram reaches
\* one, although workers die, lose their leases and overwrite each other.
EveryTelegramEnds ==
  \A m \in Telegrams :
    tgRow[m].state # "absent" ~> tgRow[m].state \in TerminalStates
=============================================================================

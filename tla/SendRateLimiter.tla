-------------------------- MODULE SendRateLimiter --------------------------
(***************************************************************************)
(* PostgresSendRateLimiter (app/outbound_policy.py): the durable ledger of *)
(* send reservations that bounds how often a (provider, sender) pair may   *)
(* submit messages.                                                        *)
(*                                                                         *)
(* reserve() is one transaction.  PostgreSQL's now() is the time at which  *)
(* the transaction STARTED, and the advisory lock is taken afterwards, so  *)
(* a transaction that waited for the lock counts and inserts with a        *)
(* timestamp older than rows that are already committed.  The transaction  *)
(* is therefore two steps: Begin fixes the timestamp, Commit (atomic under *)
(* the lock) decides and inserts.  Abort is a crash or a database error in *)
(* between.                                                                *)
(***************************************************************************)
EXTENDS Integers, FiniteSets

CONSTANTS
    Jobs,        \* outbound_jobs.id
    Clients,     \* worker processes, at most one transaction each
    Senders,     \* (provider, sender) pairs: the key of the advisory lock
    SenderOf,    \* the pair a job's message is sent with
    Hour, Day,   \* the two window lengths, in clock ticks
    HourlyLimit, DailyLimit,
    MaxClock,    \* bound: the last instant of the model
    NoTx         \* a client with no open transaction

ASSUME SenderAssumption == SenderOf \in [Jobs -> Senders]
ASSUME LimitAssumption ==
    /\ Hour \in Nat /\ Day \in Nat /\ Hour <= Day
    /\ HourlyLimit \in Nat \ {0}        \* from_values clamps both to >= 1
    /\ DailyLimit \in Nat \ {0}
    /\ MaxClock \in Nat

VARIABLES
    clock,         \* the database server's time
    reservations,  \* rows of messaging_outbound_send_reservations
    tx             \* tx[c]: the open reserve() transaction of client c

vars == <<clock, reservations, tx>>

Instants == 0..MaxClock
Reservation == [job : Jobs, sender : Senders, at : Instants]
Transaction == [job : Jobs, at : Instants]

ASSUME NoTxAssumption == NoTx \notin Transaction

Init ==
    /\ clock = 0
    /\ reservations = {}
    /\ tx = [c \in Clients |-> NoTx]

-----------------------------------------------------------------------------
\* Mutant of Recent: the count has an upper end (BETWEEN now() - w AND now()).
RecentUpToNow(s, t, w) ==
    {r \in reservations : r.sender = s /\ r.at >= t - w /\ r.at <= t}

\* The reservations of s that a window of length w looking back from t counts:
\* there is no upper end, rows newer than t are counted too.
Recent(s, t, w) == {r \in reservations : r.sender = s /\ r.at >= t - w}

\* SELECT 1 ... WHERE job_id = j.
AlreadyReserved(j) == \E r \in reservations : r.job = j

HourFull(x) == Cardinality(Recent(SenderOf[x.job], x.at, Hour)) >= HourlyLimit
DayFull(x)  == Cardinality(Recent(SenderOf[x.job], x.at, Day)) >= DailyLimit

\* What the statements under the advisory lock decide for transaction x.
Verdict(x) ==
    IF AlreadyReserved(x.job) THEN "existing"
    ELSE IF HourFull(x) THEN "hourly_message_limit_exceeded"
    ELSE IF DayFull(x) THEN "daily_message_limit_exceeded"
    ELSE "reserve"

\* reserve() returned None.
Granted(x) == Verdict(x) \in {"existing", "reserve"}

\* The inserted row; reserved_at has the default now(), the start of the transaction.
Row(x) == [job |-> x.job, sender |-> SenderOf[x.job], at |-> x.at]

\* BEGIN: now() is fixed here, before the wait for the advisory lock.
Begin(c, j) ==
    /\ tx[c] = NoTx
    /\ tx' = [tx EXCEPT ![c] = [job |-> j, at |-> clock]]
    /\ UNCHANGED <<clock, reservations>>

\* Lock, decide, insert and commit.
Commit(c) ==
    /\ tx[c] # NoTx
    /\ reservations' =
         IF Verdict(tx[c]) = "reserve" THEN reservations \cup {Row(tx[c])}
                                       ELSE reservations
    /\ tx' = [tx EXCEPT ![c] = NoTx]
    /\ UNCHANGED clock

\* The client dies or the database call fails: the transaction rolls back.
Abort(c) ==
    /\ tx[c] # NoTx
    /\ tx' = [tx EXCEPT ![c] = NoTx]
    /\ UNCHANGED <<clock, reservations>>

Tick ==
    /\ clock < MaxClock
    /\ clock' = clock + 1
    /\ UNCHANGED <<reservations, tx>>

Next ==
    \/ Tick
    \/ \E c \in Clients :
         \/ \E j \in Jobs : Begin(c, j)
         \/ Commit(c)
         \/ Abort(c)

Spec == Init /\ [][Next]_vars

-----------------------------------------------------------------------------
TypeOK ==
    /\ clock \in Instants
    /\ reservations \subseteq Reservation
    /\ tx \in [Clients -> Transaction \cup {NoTx}]

\* The reservations of s stamped within the closed window [t, t + w].
Window(s, t, w) == {r \in reservations : r.sender = s /\ t <= r.at /\ r.at <= t + w}

\* Sliding windows: no hour and no day, wherever it starts, holds more
\* reservations of one (provider, sender) than reserve()'s limits allow,
\* although concurrent transactions insert with stale, out-of-order now().
WindowsBounded ==
    \A s \in Senders, t \in Instants :
        /\ Cardinality(Window(s, t, Hour)) <= HourlyLimit
        /\ Cardinality(Window(s, t, Day)) <= DailyLimit

\* job_id is UNIQUE in the ledger: the existing-row check keeps a retried or
\* doubly started job from paying twice or violating the constraint.
OneReservationPerJob ==
    \A r1, r2 \in reservations : r1.job = r2.job => r1 = r2
=============================================================================

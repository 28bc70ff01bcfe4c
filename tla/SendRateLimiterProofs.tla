----------------------- MODULE SendRateLimiterProofs -----------------------
(***************************************************************************)
(* Proofs about SendRateLimiter for every set of jobs, clients and         *)
(* senders, every window length and every limit.                           *)
(***************************************************************************)
EXTENDS SendRateLimiter, FiniteSetTheorems, TLAPS

\* The inductive invariant: the bound on the windows needs the ledger to be
\* finite, for the cardinality of a window to grow by at most one per insert.
IInv ==
    /\ TypeOK
    /\ IsFiniteSet(reservations)
    /\ WindowsBounded
    /\ OneReservationPerJob

-----------------------------------------------------------------------------
\* reserve() either leaves the ledger alone or adds one row, for a job that
\* has none, after finding room in the two windows that look back from its
\* own timestamp.
LEMMA CommitCases ==
    ASSUME NEW c \in Clients, Commit(c), TypeOK
    PROVE  \/ reservations' = reservations
           \/ /\ tx[c] \in Transaction
              /\ ~AlreadyReserved(tx[c].job) /\ ~HourFull(tx[c]) /\ ~DayFull(tx[c])
              /\ reservations' = reservations \cup {Row(tx[c])}
<1>1. tx[c] \in Transaction
  BY DEF Commit, TypeOK
<1> QED
  BY <1>1 DEF Commit, Verdict

\* If the rows at or after a - w leave room for one more, then so does every
\* window of length w that a new row stamped a falls into.
LEMMA InsertKeepsWindow ==
    ASSUME IsFiniteSet(reservations), reservations \subseteq Reservation,
           NEW r \in Reservation, reservations' = reservations \cup {r},
           NEW s \in Senders, NEW t \in Instants,
           NEW w \in Nat, NEW limit \in Nat,
           ~(Cardinality(Recent(r.sender, r.at, w)) >= limit),
           Cardinality(Window(s, t, w)) <= limit
    PROVE  Cardinality(Window(s, t, w)') <= limit
<1> DEFINE W == Window(s, t, w)
<1> USE LimitAssumption
<1>1. IsFiniteSet(W) /\ IsFiniteSet(Recent(r.sender, r.at, w))
  <2>1. W \subseteq reservations /\ Recent(r.sender, r.at, w) \subseteq reservations
    BY DEF Window, Recent
  <2> QED BY <2>1, FS_Subset
<1>2. CASE r.sender = s /\ t <= r.at /\ r.at <= t + w
  <2>1. W' = W \cup {r}
    BY <1>2 DEF Window
  <2>2. W \subseteq Recent(r.sender, r.at, w)
    BY <1>2 DEF Window, Recent, Reservation, Instants
  <2>3. Cardinality(W) <= Cardinality(Recent(r.sender, r.at, w))
    BY <1>1, <2>2, FS_Subset
  <2>4. Cardinality(W \cup {r}) \in {Cardinality(W), Cardinality(W) + 1}
    BY <1>1, FS_AddElement
  <2>5. Cardinality(W) \in Nat /\ Cardinality(Recent(r.sender, r.at, w)) \in Nat
    BY <1>1, FS_CardinalityType
  <2> QED BY <2>1, <2>3, <2>4, <2>5
<1>3. CASE ~(r.sender = s /\ t <= r.at /\ r.at <= t + w)
  <2>1. W' = W
    BY <1>3 DEF Window
  <2> QED BY <2>1
<1> QED BY <1>2, <1>3

LEMMA InitIInv == Init => IInv
<1> SUFFICES ASSUME Init PROVE IInv
  OBVIOUS
<1>1. TypeOK
  BY LimitAssumption DEF Init, TypeOK, Instants
<1>2. IsFiniteSet(reservations)
  BY FS_EmptySet DEF Init
<1>3. WindowsBounded
  <2>1. \A s \in Senders, t \in Instants, w \in Nat : Window(s, t, w) = {}
    BY DEF Init, Window
  <2> QED BY <2>1, FS_EmptySet, LimitAssumption DEF WindowsBounded
<1> QED BY <1>1, <1>2, <1>3 DEF IInv, Init, OneReservationPerJob

LEMMA NextIInv == IInv /\ [Next]_vars => IInv'
<1> SUFFICES ASSUME IInv, [Next]_vars PROVE IInv'
  OBVIOUS
<1>1. ASSUME UNCHANGED reservations, TypeOK' PROVE IInv'
  <2>1. IsFiniteSet(reservations)' /\ OneReservationPerJob'
    BY <1>1 DEF IInv, OneReservationPerJob
  <2>2. \A s \in Senders, t \in Instants, w \in Nat : Window(s, t, w)' = Window(s, t, w)
    BY <1>1 DEF Window
  <2> QED BY <1>1, <2>1, <2>2, LimitAssumption DEF IInv, WindowsBounded
<1>2. CASE Tick
  BY <1>1, <1>2, LimitAssumption DEF Tick, IInv, TypeOK, Instants
<1>3. ASSUME NEW c \in Clients, NEW j \in Jobs, Begin(c, j) PROVE IInv'
  BY <1>1, <1>3 DEF Begin, IInv, TypeOK, Transaction
<1>4. ASSUME NEW c \in Clients, Commit(c) PROVE IInv'
  <2>1. TypeOK'
    BY <1>4, SenderAssumption, CommitCases
       DEF Commit, IInv, TypeOK, Reservation, Transaction, Row
  <2>2. CASE reservations' = reservations
    BY <1>1, <2>1, <2>2
  <2>3. CASE /\ tx[c] \in Transaction
             /\ ~AlreadyReserved(tx[c].job) /\ ~HourFull(tx[c]) /\ ~DayFull(tx[c])
             /\ reservations' = reservations \cup {Row(tx[c])}
    <3> DEFINE r == Row(tx[c])
    <3>1. r \in Reservation /\ r.sender = SenderOf[tx[c].job] /\ r.at = tx[c].at
      BY <2>3, SenderAssumption DEF Row, Reservation, Transaction
    <3>2. IsFiniteSet(reservations)'
      BY <2>3, FS_AddElement DEF IInv
    <3>3. OneReservationPerJob'
      BY <2>3 DEF IInv, OneReservationPerJob, AlreadyReserved, Row
    <3>4. ASSUME NEW s \in Senders, NEW t \in Instants
          PROVE  /\ Cardinality(Window(s, t, Hour)') <= HourlyLimit
                 /\ Cardinality(Window(s, t, Day)') <= DailyLimit
      <4>1. /\ IsFiniteSet(reservations) /\ reservations \subseteq Reservation
            /\ reservations' = reservations \cup {r}
            /\ Cardinality(Window(s, t, Hour)) <= HourlyLimit
            /\ Cardinality(Window(s, t, Day)) <= DailyLimit
        BY <2>3 DEF IInv, TypeOK, WindowsBounded
      <4>2. /\ ~(Cardinality(Recent(r.sender, r.at, Hour)) >= HourlyLimit)
            /\ ~(Cardinality(Recent(r.sender, r.at, Day)) >= DailyLimit)
        BY <2>3, <3>1 DEF HourFull, DayFull
      <4> HIDE DEF r
      <4> QED BY <3>1, <4>1, <4>2, InsertKeepsWindow, LimitAssumption
    <3>5. WindowsBounded'
      BY <3>4 DEF WindowsBounded
    <3> QED BY <2>1, <3>2, <3>3, <3>5 DEF IInv
  <2> QED BY <1>4, <2>2, <2>3, CommitCases DEF IInv
<1>5. ASSUME NEW c \in Clients, Abort(c) PROVE IInv'
  BY <1>1, <1>5 DEF Abort, IInv, TypeOK
<1>6. CASE UNCHANGED vars
  BY <1>1, <1>6 DEF vars, IInv, TypeOK
<1> QED BY <1>2, <1>3, <1>4, <1>5, <1>6 DEF Next

\* Whatever the interleaving of reserve() transactions and however stale the
\* timestamp each one carries, no sliding hour or day ever holds more
\* reservations of a (provider, sender) pair than its limit, and no job holds
\* two: the guarantee of PostgresSendRateLimiter.
THEOREM RateLimit == Spec => [](TypeOK /\ WindowsBounded /\ OneReservationPerJob)
<1>1. IInv => TypeOK /\ WindowsBounded /\ OneReservationPerJob
  BY DEF IInv
<1> QED BY <1>1, InitIInv, NextIInv, PTL DEF Spec
=============================================================================

--------------------------- MODULE ConsentProofs ---------------------------
(***************************************************************************)
(* Proofs about Consent for every set of handlers, commands and addresses. *)
(***************************************************************************)
EXTENDS Consent, TLAPS

-----------------------------------------------------------------------------
\* (occurred_at, event_id) orders the commands totally.
LEMMA TotalOrder ==
    ASSUME NEW c \in Commands, NEW d \in Commands
    PROVE  /\ c # d => Supersedes(c, d) \/ Supersedes(d, c)
           /\ ~(Supersedes(c, d) /\ Supersedes(d, c))
           /\ \A e \in Commands : Supersedes(c, d) /\ Supersedes(d, e) => Supersedes(c, e)
BY CommandAssumption DEF Supersedes

-----------------------------------------------------------------------------
(* The inductive invariant.                                                *)

\* No event is being inserted twice, and one being inserted is not there yet.
OneTransactionPerEvent ==
    /\ \A g, h \in Handlers :
         g # h => handler[g].cmd = NoCommand \/ handler[g].cmd # handler[h].cmd
    /\ \A h \in Handlers : handler[h].cmd # NoCommand => logged[handler[h].cmd] = "absent"

\* The row lock: one decision per address is between its upsert and its commit.
OneDecisionPerAddress ==
    \A g, h \in Handlers :
        /\ g # h
        /\ handler[g].pc = "commit" /\ handler[g].cmd \in Decisions
        /\ handler[h].pc = "commit" /\ handler[h].cmd \in Decisions
        => AddressOf[handler[g].cmd] # AddressOf[handler[h].cmd]

\* What the upsert decided is still true when the transaction commits.
DecisionIsFresh ==
    \A h \in Handlers :
        /\ handler[h].pc = "decide" => handler[h].cmd \in Decisions
        /\ handler[h].pc = "commit" =>
             IF handler[h].cmd \in Decisions
             THEN handler[h].applied <=>
                    Supersedes(handler[h].cmd, consent[AddressOf[handler[h].cmd]].source)
             ELSE handler[h].applied

\* The consent row holds the newest committed decision, and its state.
NewestOnTop ==
    \A a \in Addresses :
        LET s == consent[a].source IN
        /\ s = NoCommand =>
             /\ consent[a].state = "none"
             /\ \A c \in Decisions : AddressOf[c] = a => logged[c] = "absent"
        /\ s # NoCommand =>
             /\ s \in Decisions /\ AddressOf[s] = a /\ logged[s] = "applied"
             /\ consent[a].state = (IF ActionOf[s] = "stop" THEN "suppressed" ELSE "active")
             /\ \A c \in Decisions :
                  AddressOf[c] = a /\ logged[c] # "absent" /\ c # s => Supersedes(s, c)

\* HELP is never stale.
HelpIsApplied == \A c \in Commands \ Decisions : logged[c] # "stale"

\* A stale decision is not the one in force.
StaleIsNotOnTop ==
    \A c \in Decisions : logged[c] = "stale" => consent[AddressOf[c]].source # NoCommand

IInv ==
    /\ TypeOK /\ OneTransactionPerEvent /\ OneDecisionPerAddress /\ DecisionIsFresh
    /\ NewestOnTop /\ HelpIsApplied /\ StaleIsNotOnTop /\ NewestDecisionIsEnforced

LEMMA InitIInv == Init => IInv
<1> SUFFICES ASSUME Init PROVE IInv
  OBVIOUS
<1> USE CommandAssumption DEF Init, Idle
<1>1. TypeOK
  BY DEF TypeOK, ConsentRow, HandlerState
<1>2. OneTransactionPerEvent /\ OneDecisionPerAddress /\ DecisionIsFresh
  BY DEF OneTransactionPerEvent, OneDecisionPerAddress, DecisionIsFresh
<1>3. NewestOnTop /\ HelpIsApplied /\ StaleIsNotOnTop /\ NewestDecisionIsEnforced
  BY DEF NewestOnTop, HelpIsApplied, StaleIsNotOnTop, NewestDecisionIsEnforced, Decisions
<1> QED BY <1>1, <1>2, <1>3 DEF IInv

-----------------------------------------------------------------------------
(* Each step preserves it.                                                 *)

LEMMA InsertIInv ==
    ASSUME IInv, NEW h \in Handlers, NEW c \in Commands, Insert(h, c)
    PROVE  IInv'
<1> USE CommandAssumption DEF IInv, Insert
<1>1. TypeOK'
  BY DEF TypeOK, HandlerState, Decisions
<1>2. OneTransactionPerEvent'
  BY DEF OneTransactionPerEvent, EventLocked, TypeOK
<1>3. OneDecisionPerAddress'
  BY DEF OneDecisionPerAddress, TypeOK, HandlerState
<1>4. DecisionIsFresh'
  BY DEF DecisionIsFresh, TypeOK, HandlerState, Supersedes
<1>5. NewestOnTop' /\ HelpIsApplied' /\ StaleIsNotOnTop' /\ NewestDecisionIsEnforced'
  BY DEF NewestOnTop, HelpIsApplied, StaleIsNotOnTop, NewestDecisionIsEnforced, Supersedes
<1> QED BY <1>1, <1>2, <1>3, <1>4, <1>5

LEMMA DecideIInv ==
    ASSUME IInv, NEW h \in Handlers, Decide(h)
    PROVE  IInv'
<1> DEFINE v == Supersedes(handler[h].cmd, consent[AddressOf[handler[h].cmd]].source)
<1>0. /\ v \in BOOLEAN
      /\ handler' = [handler EXCEPT ![h] = [@ EXCEPT !.pc = "commit", !.applied = v]]
      /\ handler[h].pc = "decide"
      /\ ~ConsentLocked(AddressOf[handler[h].cmd])
      /\ UNCHANGED <<logged, consent, suppression>>
  BY DEF Decide, Supersedes
<1> USE CommandAssumption DEF IInv
<1>1. TypeOK'
  <2> HIDE DEF v
  <2> QED BY <1>0 DEF TypeOK, HandlerState
<1>2. OneTransactionPerEvent'
  BY <1>0 DEF OneTransactionPerEvent, TypeOK, HandlerState
<1>3. OneDecisionPerAddress'
  BY <1>0 DEF OneDecisionPerAddress, ConsentLocked, DecisionIsFresh, TypeOK, HandlerState
<1>4. DecisionIsFresh'
  <2> SUFFICES ASSUME NEW g \in Handlers
               PROVE  /\ handler'[g].pc = "decide" => handler'[g].cmd \in Decisions
                      /\ handler'[g].pc = "commit" =>
                           IF handler'[g].cmd \in Decisions
                           THEN handler'[g].applied <=>
                                  Supersedes(handler'[g].cmd,
                                             consent[AddressOf[handler'[g].cmd]].source)
                           ELSE handler'[g].applied
    BY <1>0 DEF DecisionIsFresh, Supersedes
  <2>1. CASE g = h
    <3>1. /\ handler'[h].pc = "commit"
          /\ handler'[h].cmd = handler[h].cmd
          /\ handler'[h].applied = v
      <4> HIDE DEF v
      <4> QED BY <1>0 DEF TypeOK, HandlerState
    <3>2. handler[h].cmd \in Decisions
      BY <1>0 DEF DecisionIsFresh
    <3> QED BY <2>1, <3>1, <3>2
  <2>2. CASE g # h
    <3>1. handler'[g] = handler[g]
      <4> HIDE DEF v
      <4> QED BY <1>0, <2>2 DEF TypeOK
    <3> QED BY <3>1 DEF DecisionIsFresh
  <2> QED BY <2>1, <2>2
<1>5. NewestOnTop' /\ HelpIsApplied' /\ StaleIsNotOnTop' /\ NewestDecisionIsEnforced'
  BY <1>0 DEF NewestOnTop, HelpIsApplied, StaleIsNotOnTop, NewestDecisionIsEnforced, Supersedes
<1> QED BY <1>1, <1>2, <1>3, <1>4, <1>5

LEMMA AbortIInv ==
    ASSUME IInv, NEW h \in Handlers, Abort(h)
    PROVE  IInv'
<1> USE CommandAssumption DEF IInv, Abort, Idle
<1>1. TypeOK'
  BY DEF TypeOK, HandlerState
<1>2. OneTransactionPerEvent'
  BY DEF OneTransactionPerEvent, TypeOK, HandlerState
<1>3. OneDecisionPerAddress'
  BY DEF OneDecisionPerAddress, TypeOK, HandlerState
<1>4. DecisionIsFresh'
  BY DEF DecisionIsFresh, TypeOK, HandlerState, Supersedes
<1>5. NewestOnTop' /\ HelpIsApplied' /\ StaleIsNotOnTop' /\ NewestDecisionIsEnforced'
  BY DEF NewestOnTop, HelpIsApplied, StaleIsNotOnTop, NewestDecisionIsEnforced, Supersedes
<1> QED BY <1>1, <1>2, <1>3, <1>4, <1>5

LEMMA ManualIInv ==
    ASSUME IInv, NEW a \in Addresses, ManualSuppress(a)
    PROVE  IInv'
<1> USE CommandAssumption DEF IInv, ManualSuppress
<1>1. TypeOK'
  BY DEF TypeOK
<1>2. OneTransactionPerEvent' /\ OneDecisionPerAddress'
  BY DEF OneTransactionPerEvent, OneDecisionPerAddress
<1>3. DecisionIsFresh'
  BY DEF DecisionIsFresh, Supersedes
<1>4. NewestOnTop' /\ HelpIsApplied' /\ StaleIsNotOnTop'
  BY DEF NewestOnTop, HelpIsApplied, StaleIsNotOnTop, Supersedes
<1>5. NewestDecisionIsEnforced'
  BY DEF NewestDecisionIsEnforced, TypeOK
<1> QED BY <1>1, <1>2, <1>3, <1>4, <1>5

\* What a commit does to the rows of its address.
LEMMA CommitRows ==
    ASSUME IInv, NEW h \in Handlers, Commit(h)
    PROVE  LET c == handler[h].cmd
               a == AddressOf[c]
               s == consent[a].source
           IN  /\ c \in Commands /\ a \in Addresses /\ logged[c] = "absent"
               /\ \A b \in Addresses : b # a => /\ consent'[b] = consent[b]
                                               /\ suppression'[b] = suppression[b]
               /\ \A d \in Commands : d # c => logged'[d] = logged[d]
               /\ \/ /\ c \in Decisions /\ Supersedes(c, s)
                     /\ logged'[c] = "applied"
                     /\ consent'[a].source = c
                     /\ consent'[a].state =
                          (IF ActionOf[c] = "stop" THEN "suppressed" ELSE "active")
                     /\ suppression'[a] = Enforce(ActionOf[c], suppression[a])
                  \/ /\ c \in Decisions /\ s \in Decisions /\ Supersedes(s, c)
                     /\ logged'[c] = "stale"
                     /\ consent'[a] = consent[a] /\ suppression'[a] = suppression[a]
                  \/ /\ c \notin Decisions
                     /\ logged'[c] = "applied"
                     /\ consent'[a] = consent[a] /\ suppression'[a] = suppression[a]
<1> DEFINE c == handler[h].cmd
           a == AddressOf[c]
           s == consent[a].source
<1>1. /\ c \in Commands /\ a \in Addresses /\ logged[c] = "absent"
      /\ handler[h].applied \in BOOLEAN /\ handler[h].pc = "commit"
  BY CommandAssumption DEF IInv, TypeOK, HandlerState, OneTransactionPerEvent, Commit
<1>2. /\ \A b \in Addresses : b # a => consent'[b] = consent[b] /\ suppression'[b] = suppression[b]
      /\ \A d \in Commands : d # c => logged'[d] = logged[d]
  BY <1>1 DEF Commit, IInv, TypeOK
<1>3. CASE c \in Decisions /\ handler[h].applied
  <2>1. Supersedes(c, s)
    BY <1>1, <1>3 DEF IInv, DecisionIsFresh
  <2>2. /\ logged'[c] = "applied"
        /\ consent'[a].source = c
        /\ consent'[a].state = (IF ActionOf[c] = "stop" THEN "suppressed" ELSE "active")
        /\ suppression'[a] = Enforce(ActionOf[c], suppression[a])
    BY <1>1, <1>3 DEF Commit, Audit, Applies, IInv, TypeOK
  <2> QED BY <1>1, <1>2, <1>3, <2>1, <2>2
<1>4. CASE c \in Decisions /\ ~handler[h].applied
  <2>1. ~Supersedes(c, s)
    BY <1>1, <1>4 DEF IInv, DecisionIsFresh
  <2>2. s \in Decisions /\ s # c
    BY <1>1, <2>1 DEF Supersedes, IInv, NewestOnTop
  <2>3. Supersedes(s, c)
    BY <1>1, <2>1, <2>2, TotalOrder DEF Decisions
  <2>4. logged'[c] = "stale" /\ consent'[a] = consent[a] /\ suppression'[a] = suppression[a]
    BY <1>1, <1>4 DEF Commit, Audit, Applies, IInv, TypeOK
  <2> QED BY <1>1, <1>2, <1>4, <2>2, <2>3, <2>4
<1>5. CASE c \notin Decisions
  <2>1. handler[h].applied
    BY <1>1, <1>5 DEF IInv, DecisionIsFresh
  <2>2. logged'[c] = "applied" /\ consent'[a] = consent[a] /\ suppression'[a] = suppression[a]
    BY <1>1, <1>5, <2>1 DEF Commit, Audit, Applies, IInv, TypeOK
  <2> QED BY <1>1, <1>2, <1>5, <2>2
<1> QED BY <1>1, <1>3, <1>4, <1>5

LEMMA CommitIInv ==
    ASSUME IInv, NEW h \in Handlers, Commit(h)
    PROVE  IInv'
<1> DEFINE c == handler[h].cmd
           a == AddressOf[c]
           s == consent[a].source
<1>1. /\ c \in Commands /\ a \in Addresses /\ logged[c] = "absent"
      /\ \A b \in Addresses : b # a => consent'[b] = consent[b] /\ suppression'[b] = suppression[b]
      /\ \A d \in Commands : d # c => logged'[d] = logged[d]
      /\ handler[h].pc = "commit" /\ handler' = [handler EXCEPT ![h] = Idle]
  BY CommitRows DEF Commit
<1>2. \/ /\ c \in Decisions /\ Supersedes(c, s)
         /\ logged'[c] = "applied"
         /\ consent'[a].source = c
         /\ consent'[a].state = (IF ActionOf[c] = "stop" THEN "suppressed" ELSE "active")
         /\ suppression'[a] = Enforce(ActionOf[c], suppression[a])
      \/ /\ c \in Decisions /\ s \in Decisions /\ Supersedes(s, c)
         /\ logged'[c] = "stale"
         /\ consent'[a] = consent[a] /\ suppression'[a] = suppression[a]
      \/ /\ c \notin Decisions
         /\ logged'[c] = "applied"
         /\ consent'[a] = consent[a] /\ suppression'[a] = suppression[a]
  BY CommitRows
<1>3. TypeOK'
  BY <1>1, CommandAssumption DEF IInv, TypeOK, Commit, Audit, Applies, Enforce,
     ConsentRow, HandlerState, Idle
<1>4. \A g \in Handlers \ {h} : handler'[g] = handler[g]
  BY <1>1 DEF IInv, TypeOK
<1>5. handler'[h] = Idle
  BY <1>1 DEF IInv, TypeOK
<1>6. OneTransactionPerEvent'
  <2>1. \A g \in Handlers \ {h} : handler[g].cmd # c
    BY <1>1, CommandAssumption DEF IInv, OneTransactionPerEvent
  <2> QED BY <1>1, <1>4, <1>5, <2>1, CommandAssumption
          DEF IInv, OneTransactionPerEvent, Idle, TypeOK, HandlerState
<1>7. OneDecisionPerAddress'
  BY <1>4, <1>5 DEF IInv, OneDecisionPerAddress, Idle
<1>8. DecisionIsFresh'
  <2> SUFFICES ASSUME NEW g \in Handlers
               PROVE  /\ handler'[g].pc = "decide" => handler'[g].cmd \in Decisions
                      /\ handler'[g].pc = "commit" =>
                           IF handler'[g].cmd \in Decisions
                           THEN handler'[g].applied <=>
                                  Supersedes(handler'[g].cmd,
                                             consent'[AddressOf[handler'[g].cmd]].source)
                           ELSE handler'[g].applied
    BY DEF DecisionIsFresh, Supersedes
  <2>1. CASE g = h
    BY <1>5, <2>1 DEF Idle
  <2>2. CASE g # h
    <3>1. handler'[g] = handler[g]
      BY <1>4, <2>2
    <3>2. CASE handler[g].pc = "commit" /\ handler[g].cmd \in Decisions
      <4>1. AddressOf[handler[g].cmd] # a \/ c \notin Decisions
        BY <1>1, <2>2, <3>2 DEF IInv, OneDecisionPerAddress
      <4>2. consent'[AddressOf[handler[g].cmd]] = consent[AddressOf[handler[g].cmd]]
        BY <1>1, <1>2, <3>2, <4>1, CommandAssumption DEF Decisions
      <4> QED BY <3>1, <3>2, <4>2 DEF IInv, DecisionIsFresh
    <3>3. CASE ~(handler[g].pc = "commit" /\ handler[g].cmd \in Decisions)
      BY <3>1, <3>3 DEF IInv, DecisionIsFresh
    <3> QED BY <3>2, <3>3
  <2> QED BY <2>1, <2>2
<1>9. NewestOnTop'
  <2> SUFFICES ASSUME NEW b \in Addresses
               PROVE  LET t == consent'[b].source IN
                      /\ t = NoCommand =>
                           /\ consent'[b].state = "none"
                           /\ \A d \in Decisions : AddressOf[d] = b => logged'[d] = "absent"
                      /\ t # NoCommand =>
                           /\ t \in Decisions /\ AddressOf[t] = b /\ logged'[t] = "applied"
                           /\ consent'[b].state =
                                (IF ActionOf[t] = "stop" THEN "suppressed" ELSE "active")
                           /\ \A d \in Decisions :
                                AddressOf[d] = b /\ logged'[d] # "absent" /\ d # t
                                => Supersedes(t, d)
    BY DEF NewestOnTop, Supersedes
  <2>1. CASE b # a
    <3>1. consent'[b] = consent[b] /\ \A d \in Commands : AddressOf[d] = b => logged'[d] = logged[d]
      BY <1>1, <2>1
    <3> QED BY <3>1 DEF IInv, NewestOnTop, Decisions
  <2>2. CASE b = a /\ c \in Decisions /\ consent'[a].source = c /\ Supersedes(c, s)
    <3>1. \A d \in Decisions : AddressOf[d] = a /\ logged'[d] # "absent" /\ d # c
                               => Supersedes(c, d)
      <4> SUFFICES ASSUME NEW d \in Decisions, AddressOf[d] = a, logged'[d] # "absent", d # c
                   PROVE  Supersedes(c, d)
        OBVIOUS
      <4>1. logged[d] # "absent"
        BY <1>1 DEF Decisions
      <4>2. s # NoCommand /\ s \in Decisions /\ (d = s \/ Supersedes(s, d))
        BY <1>1, <4>1 DEF IInv, NewestOnTop
      <4> QED BY <1>1, <2>2, <4>2, TotalOrder DEF Decisions
    <3> QED BY <1>1, <1>2, <2>2, <3>1, CommandAssumption, TotalOrder DEF Decisions
  <2>3. CASE b = a /\ consent'[a] = consent[a] /\ c \in Decisions /\ s \in Decisions
             /\ Supersedes(s, c) /\ logged'[c] = "stale"
    <3>1. s # NoCommand /\ s # c /\ s \in Commands
      BY <1>1, <2>3, CommandAssumption, TotalOrder DEF Decisions
    <3> QED BY <1>1, <2>3, <3>1 DEF IInv, NewestOnTop, Decisions
  <2>4. CASE b = a /\ consent'[a] = consent[a] /\ c \notin Decisions
    BY <1>1, <2>4 DEF IInv, NewestOnTop, Decisions
  <2> QED BY <1>2, <2>1, <2>2, <2>3, <2>4
<1>10. HelpIsApplied'
  BY <1>1, <1>2 DEF IInv, HelpIsApplied
<1>11. StaleIsNotOnTop'
  BY <1>1, <1>2, CommandAssumption DEF IInv, StaleIsNotOnTop, Decisions
<1>12. NewestDecisionIsEnforced'
  <2> SUFFICES ASSUME NEW b \in Addresses
               PROVE  /\ consent'[b].state = "suppressed" => suppression'[b] # "none"
                      /\ consent'[b].state # "suppressed" => suppression'[b] # "keyword"
    BY DEF NewestDecisionIsEnforced
  <2>1. CASE consent'[b] = consent[b] /\ suppression'[b] = suppression[b]
    BY <2>1 DEF IInv, NewestDecisionIsEnforced
  <2>2. CASE /\ b = a /\ c \in Decisions
             /\ consent'[a].state = (IF ActionOf[c] = "stop" THEN "suppressed" ELSE "active")
             /\ suppression'[a] = Enforce(ActionOf[c], suppression[a])
    BY <1>1, <2>2 DEF Enforce, Decisions, IInv, TypeOK
  <2> QED BY <1>1, <1>2, <2>1, <2>2
<1> QED BY <1>3, <1>6, <1>7, <1>8, <1>9, <1>10, <1>11, <1>12 DEF IInv

LEMMA NextIInv == IInv /\ [Next]_vars => IInv'
<1> SUFFICES ASSUME IInv, [Next]_vars PROVE IInv'
  OBVIOUS
<1>1. ASSUME NEW h \in Handlers, NEW c \in Commands, Insert(h, c) PROVE IInv'
  BY <1>1, InsertIInv
<1>2. ASSUME NEW h \in Handlers, Decide(h) PROVE IInv'
  BY <1>2, DecideIInv
<1>3. ASSUME NEW h \in Handlers, Commit(h) PROVE IInv'
  BY <1>3, CommitIInv
<1>4. ASSUME NEW h \in Handlers, Abort(h) PROVE IInv'
  BY <1>4, AbortIInv
<1>5. ASSUME NEW a \in Addresses, ManualSuppress(a) PROVE IInv'
  BY <1>5, ManualIInv
<1>6. CASE UNCHANGED vars
  BY <1>6 DEF vars, IInv, TypeOK, OneTransactionPerEvent, OneDecisionPerAddress,
     DecisionIsFresh, NewestOnTop, HelpIsApplied, StaleIsNotOnTop,
     NewestDecisionIsEnforced, Supersedes
<1> QED BY <1>1, <1>2, <1>3, <1>4, <1>5, <1>6 DEF Next

\* Every behaviour of put_if_absent() keeps the invariant.
THEOREM InvariantHolds == Spec => []IInv
BY InitIInv, NextIInv, PTL DEF Spec

-----------------------------------------------------------------------------
\* Whatever the number of processes, commands and addresses, the suppressions
\* table enforces the newest decision and the audit trail is honest.
THEOREM StopIsHonoured == Spec => [](NewestDecisionIsEnforced /\ AuditIsHonest)
<1>1. IInv => NewestDecisionIsEnforced /\ AuditIsHonest
  <2> SUFFICES ASSUME IInv PROVE AuditIsHonest
    BY DEF IInv
  <2>1. ASSUME NEW c \in Commands, logged[c] = "stale"
        PROVE  LET d == consent[AddressOf[c]].source IN
               c \in Decisions /\ d # NoCommand /\ Supersedes(d, c)
    <3>1. c \in Decisions
      BY <2>1 DEF IInv, HelpIsApplied
    <3>2. consent[AddressOf[c]].source # NoCommand
      BY <2>1, <3>1 DEF IInv, StaleIsNotOnTop
    <3> QED BY <2>1, <3>1, <3>2, CommandAssumption DEF IInv, NewestOnTop, Decisions
  <2>2. \A a \in Addresses : consent[a].source # NoCommand =>
          logged[consent[a].source] = "applied"
    BY DEF IInv, NewestOnTop
  <2> QED BY <2>1, <2>2 DEF AuditIsHonest
<1> QED BY <1>1, InvariantHolds, PTL

\* Keyword commands never touch an operator's suppression.
THEOREM ManualStays == Spec => ManualSuppressionStays
<1>1. ASSUME IInv, [Next]_vars
      PROVE  [\A a \in Addresses : suppression[a] = "manual" => suppression'[a] = "manual"]_vars
  <2>1. CASE \E h \in Handlers : Commit(h)
    <3> PICK h \in Handlers : Commit(h)
      BY <2>1
    <3> QED BY <1>1 DEF Commit, Enforce, IInv, TypeOK
  <2>2. CASE ~\E h \in Handlers : Commit(h)
    BY <1>1, <2>2 DEF Next, Insert, Decide, Abort, ManualSuppress, vars, IInv, TypeOK
  <2> QED BY <2>1, <2>2
<1> QED BY <1>1, InvariantHolds, PTL DEF Spec, ManualSuppressionStays

-----------------------------------------------------------------------------
(* Refinement.                                                             *)

\* The newest element of a set of decisions is unique.
LEMMA NewestIsUnique ==
    ASSUME NEW S \in SUBSET Decisions, NEW c \in S,
           \A d \in S \ {c} : Supersedes(c, d)
    PROVE  Latest!Newest(S) = c
<1>1. \A d \in S, e \in S : Latest!Newer(d, e) <=> Supersedes(d, e)
  BY CommandAssumption DEF Latest!Newer, Supersedes, Decisions
<1>2. Latest!IsNewest(c, S)
  BY <1>1 DEF Latest!IsNewest
<1>3. \A d \in S : Latest!IsNewest(d, S) => d = c
  BY <1>1, TotalOrder DEF Latest!IsNewest, Decisions
<1> QED BY <1>2, <1>3 DEF Latest!Newest

\* The consent table is a last-writer-wins register by (occurred_at, event_id).
THEOREM ConsentImplementsLatestWins == Spec => ImplementsLatestWins
<1> DEFINE acc == {c \in Decisions : logged[c] # "absent"}
           cur == [a \in Addresses |-> consent[a].source]
<1>1. Init => Latest!Init
  BY CommandAssumption DEF Init, Latest!Init, Decisions
<1>2. ASSUME IInv, IInv', [Next]_vars
      PROVE  [Latest!Next]_(Latest!vars)
  <2>1. ASSUME NEW h \in Handlers, Commit(h), handler[h].cmd \in Decisions
        PROVE  Latest!Next
    <3>0. PICK c \in Decisions : c = handler[h].cmd
      BY <2>1
    <3> DEFINE a == AddressOf[c]
    <3>1. /\ c \in Commands /\ a \in Addresses /\ logged[c] = "absent"
          /\ \A b \in Addresses : b # a => consent'[b] = consent[b]
          /\ \A d \in Commands : d # c => logged'[d] = logged[d]
          /\ logged'[c] # "absent"
      BY <1>2, <2>1, <3>0, CommitRows
    <3>2. acc' = acc \cup {c}
      BY <2>1, <3>1 DEF Decisions
    <3>3. consent'[a].source # NoCommand
      BY <1>2, <2>1, <3>1 DEF IInv, NewestOnTop
    <3>4. Latest!Newest(Latest!Of(a, acc')) = consent'[a].source
      <4> DEFINE S == {d \in acc' : AddressOf[d] = a}
      <4>1. Latest!Of(a, acc') = S
        BY DEF Latest!Of, Decisions
      <4>2. consent'[a].source \in S /\ S \in SUBSET Decisions
        BY <1>2, <3>1, <3>3 DEF IInv, NewestOnTop
      <4>3. \A d \in S \ {consent'[a].source} : Supersedes(consent'[a].source, d)
        BY <1>2, <3>1, <3>3 DEF IInv, NewestOnTop, Supersedes
      <4> HIDE DEF S
      <4> QED BY <4>1, <4>2, <4>3, NewestIsUnique
    <3>5. cur' = [cur EXCEPT ![a] = consent'[a].source]
      BY <3>1
    <3>6. Latest!Accept(c)
      BY <2>1, <3>1, <3>2, <3>4, <3>5 DEF Latest!Accept
    <3> QED BY <3>6 DEF Latest!Next
  <2>2. ASSUME NEW h \in Handlers, Commit(h), handler[h].cmd \notin Decisions
        PROVE  UNCHANGED Latest!vars
    <3>1. /\ \A b \in Addresses : consent'[b] = consent[b]
          /\ \A d \in Decisions : logged'[d] = logged[d]
      BY <1>2, <2>2, CommitRows DEF Decisions
    <3>2. acc' = acc /\ cur' = cur
      BY <3>1
    <3> QED BY <3>2 DEF Latest!vars
  <2>3. CASE ~\E h \in Handlers : Commit(h)
    <3>1. UNCHANGED <<logged, consent>>
      BY <1>2, <2>3 DEF Next, Insert, Decide, Abort, ManualSuppress, vars
    <3> QED BY <3>1 DEF Latest!vars
  <2> QED BY <2>1, <2>2, <2>3
<1> QED BY <1>1, <1>2, InvariantHolds, PTL DEF Spec, ImplementsLatestWins, Latest!Spec
=============================================================================

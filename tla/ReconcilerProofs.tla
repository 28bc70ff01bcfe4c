-------------------------- MODULE ReconcilerProofs --------------------------
(***************************************************************************)
(* Proofs about the two reconcilers: the delivery status of a message      *)
(* (DeliveryStatus), for every set of gateway processes, reconcile runs,   *)
(* messages and delivery events, and the synchronisation of the VPN        *)
(* registry (VpnSync), for every ledger of enrolled devices.               *)
(***************************************************************************)
EXTENDS DeliveryStatus, VpnSync, TLAPS

\* (occurred_at, provider_event_id) orders the events totally.
LEMMA TotalOrder ==
    ASSUME NEW e \in Events, NEW f \in Events
    PROVE  /\ e # f => Supersedes(e, f) \/ Supersedes(f, e)
           /\ ~(Supersedes(e, f) /\ Supersedes(f, e))
           /\ \A g \in Events : Supersedes(e, f) /\ Supersedes(f, g) => Supersedes(e, g)
BY EventAssumption DEF Supersedes

-----------------------------------------------------------------------------
(* The inductive invariant.                                                *)

Locks(h) == handler[h].pc \in {"message", "commit"}
MessageId(h) == MessageOf[handler[h].event]

\* The unique index serialises the transactions of one event, the row lock those
\* of one delivery state, callbacks and reconcile runs alike.
LocksExclude ==
    /\ \A g, h \in Handlers :
         g # h => handler[g].event = NoEvent \/ handler[g].event # handler[h].event
    /\ \A h \in Handlers : handler[h].event # NoEvent => ~row[handler[h].event].stored
    /\ \A g, h \in Handlers : g # h /\ Locks(g) /\ Locks(h) => MessageId(g) # MessageId(h)
    /\ \A h \in Handlers, w \in Workers : Locks(h) => worker[w].message # MessageId(h)
    /\ \A v, w \in Workers :
         v # w => worker[v].message = NoMessage \/ worker[v].message # worker[w].message

\* What a transaction has read under the row lock is still so when it commits.
\* Only `known` may have turned true since the UPDATE that looked for it.
HandlersKnow ==
    \A h \in Handlers :
        /\ handler[h].pc # "commit" => ~handler[h].matched
        /\ Locks(h) =>
             /\ handler[h].applied <=> Supersedes(handler[h].event, state[MessageId(h)].source)
             /\ handler[h].matched => handler[h].applied /\ message[MessageId(h)].known
             /\ handler[h].pc = "commit" /\ handler[h].applied /\ ~handler[h].matched
                => ~state[MessageId(h)].matched
WorkersKnow ==
    \A w \in Workers : worker[w].pc = "write" =>
        LET m == worker[w].message IN
        /\ state[m].source # NoEvent /\ message[m].known
        /\ worker[w].status = StatusOf[state[m].source]

\* The delivery state shows the newest event stored for its message.
NewestOnTop ==
    \A m \in Messages :
        LET s == state[m].source IN
        /\ s = NoEvent => \A e \in Events : MessageOf[e] = m => ~row[e].stored
        /\ s # NoEvent =>
             /\ MessageOf[s] = m /\ row[s].stored
             /\ \A e \in Events : MessageOf[e] = m /\ row[e].stored /\ e # s => Supersedes(s, e)

IInv ==
    /\ TypeOK /\ LocksExclude /\ HandlersKnow /\ WorkersKnow
    /\ NewestOnTop /\ MessageShowsCurrent /\ EventRowsAreHonest

LEMMA InitIInv == Init => IInv
<1> SUFFICES ASSUME Init PROVE IInv
  OBVIOUS
<1>1. TypeOK
  BY EventAssumption DEF Init, TypeOK, Row, State, MessageRow, HandlerState, WorkerState,
     IdleHandler, IdleWorker
<1>2. LocksExclude /\ HandlersKnow /\ WorkersKnow
  BY EventAssumption DEF Init, LocksExclude, HandlersKnow, WorkersKnow, Locks, IdleHandler, IdleWorker
<1>3. NewestOnTop /\ MessageShowsCurrent /\ EventRowsAreHonest
  BY EventAssumption DEF Init, NewestOnTop, MessageShowsCurrent, EventRowsAreHonest, FinalStatuses
<1> QED BY <1>1, <1>2, <1>3 DEF IInv

-----------------------------------------------------------------------------
\* A step of one callback that commits nothing: the others do not notice, so only
\* what this callback itself holds and knows is to be shown.
LEMMA HandlerStepIInv ==
    ASSUME IInv, UNCHANGED <<row, state, message, worker>>,
           NEW h \in Handlers, handler' \in [Handlers -> HandlerState],
           \A g \in Handlers \ {h} : handler'[g] = handler[g],
           handler'[h].pc = "idle" <=> handler'[h].event = NoEvent,
           handler'[h].event # NoEvent =>
             /\ ~row[handler'[h].event].stored
             /\ \A g \in Handlers \ {h} : handler[g].event # handler'[h].event,
           handler'[h].pc # "commit" => ~handler'[h].matched,
           handler'[h].pc \in {"message", "commit"} =>
             LET m == MessageOf[handler'[h].event] IN
             /\ \A g \in Handlers \ {h} : Locks(g) => MessageId(g) # m
             /\ \A w \in Workers : worker[w].message # m
             /\ handler'[h].applied <=> Supersedes(handler'[h].event, state[m].source)
             /\ handler'[h].matched => handler'[h].applied /\ message[m].known
             /\ handler'[h].pc = "commit" /\ handler'[h].applied /\ ~handler'[h].matched
                => ~state[m].matched
    PROVE  IInv'
<1>1. \A g \in Handlers \ {h} : handler'[g] = handler[g]
  OBVIOUS
<1>2. TypeOK'
  BY <1>1 DEF IInv, TypeOK
<1>3. LocksExclude'
  <2>1. \A g, f \in Handlers :
          g # f => handler'[g].event = NoEvent \/ handler'[g].event # handler'[f].event
    BY <1>1 DEF IInv, LocksExclude
  <2>2. \A g \in Handlers : handler'[g].event # NoEvent => ~row'[handler'[g].event].stored
    BY <1>1 DEF IInv, LocksExclude
  <2>3. \A g, f \in Handlers : g # f /\ Locks(g)' /\ Locks(f)' => MessageId(g)' # MessageId(f)'
    BY <1>1 DEF IInv, LocksExclude, Locks, MessageId
  <2>4. \A g \in Handlers, w \in Workers : Locks(g)' => worker'[w].message # MessageId(g)'
    BY <1>1 DEF IInv, LocksExclude, Locks, MessageId
  <2> QED BY <2>1, <2>2, <2>3, <2>4 DEF IInv, LocksExclude
<1>4. HandlersKnow'
  BY <1>1 DEF IInv, HandlersKnow, Locks, MessageId, Supersedes
<1>5. WorkersKnow'
  BY DEF IInv, WorkersKnow
<1>6. NewestOnTop' /\ MessageShowsCurrent' /\ EventRowsAreHonest'
  BY DEF IInv, NewestOnTop, MessageShowsCurrent, EventRowsAreHonest, Supersedes
<1> QED BY <1>2, <1>3, <1>4, <1>5, <1>6 DEF IInv

\* The INSERT takes the event's entry of the unique index.
LEMMA InsertIInv ==
    ASSUME IInv, NEW h \in Handlers, NEW e \in Events, Insert(h, e)
    PROVE  IInv'
<1>1. /\ handler'[h].pc = "state" /\ handler'[h].event = e /\ ~handler'[h].matched
      /\ handler' \in [Handlers -> HandlerState]
      /\ \A g \in Handlers \ {h} : handler'[g] = handler[g]
  BY DEF Insert, IInv, TypeOK, IdleHandler, HandlerState
<1>2. \A g \in Handlers : handler[g].event # e
  BY DEF Insert, EventLocked
<1>3. ~row[e].stored /\ UNCHANGED <<row, state, message, worker>>
  BY DEF Insert
<1> QED BY <1>1, <1>2, <1>3, EventAssumption, HandlerStepIInv

\* The upsert takes the lock of the state row and decides by what it finds there.
LEMMA UpsertIInv ==
    ASSUME IInv, NEW h \in Handlers, Upsert(h)
    PROVE  IInv'
<1> DEFINE e == handler[h].event
           m == MessageOf[e]
           a == Supersedes(e, state[m].source)
<1>1. handler[h].pc = "state" /\ ~StateLocked(m) /\ UNCHANGED <<row, state, message, worker>>
  BY DEF Upsert
<1>2. handler[h] \in HandlerState /\ e \in Events /\ e # NoEvent /\ ~handler[h].matched
  BY <1>1, EventAssumption DEF IInv, TypeOK, HandlerState, HandlersKnow
<1>3. a \in BOOLEAN
  BY DEF Supersedes
<1>4. handler' = [handler EXCEPT ![h].pc = "message", ![h].applied = a]
  BY DEF Upsert
<1> HIDE DEF a
<1>5. /\ handler'[h].pc = "message" /\ handler'[h].event = e
      /\ handler'[h].applied = a /\ ~handler'[h].matched
      /\ handler' \in [Handlers -> HandlerState]
      /\ \A g \in Handlers \ {h} : handler'[g] = handler[g]
  BY <1>2, <1>3, <1>4 DEF IInv, TypeOK, HandlerState
<1>6. /\ \A g \in Handlers \ {h} : Locks(g) => MessageId(g) # m
      /\ \A w \in Workers : worker[w].message # m
  BY <1>1 DEF StateLocked, Locks, MessageId
<1>7. ~row[e].stored /\ \A g \in Handlers \ {h} : handler[g].event # e
  BY <1>2 DEF IInv, LocksExclude
<1> QED BY <1>1, <1>2, <1>5, <1>6, <1>7, HandlerStepIInv DEF a

\* A state that was matched has a known message, so that an applied event either
\* finds the message or belongs to a state that was never matched.
LEMMA MatchIInv ==
    ASSUME IInv, NEW h \in Handlers, Match(h)
    PROVE  IInv'
<1> DEFINE e == handler[h].event
           m == MessageOf[e]
           b == handler[h].applied /\ message[m].known
<1>1. handler[h].pc = "message" /\ UNCHANGED <<row, state, message, worker>>
  BY DEF Match
<1>2. /\ handler[h] \in HandlerState /\ e \in Events /\ e # NoEvent /\ m \in Messages
      /\ message[m].known \in BOOLEAN /\ handler[h].applied \in BOOLEAN
  BY <1>1, EventAssumption DEF IInv, TypeOK, HandlerState, MessageRow
<1>3. b \in BOOLEAN
  OBVIOUS
<1>4. handler' = [handler EXCEPT ![h].pc = "commit", ![h].matched = b]
  BY DEF Match
<1> HIDE DEF b
<1>5. /\ handler'[h].pc = "commit" /\ handler'[h].event = e
      /\ handler'[h].applied = handler[h].applied /\ handler'[h].matched = b
      /\ handler' \in [Handlers -> HandlerState]
      /\ \A g \in Handlers \ {h} : handler'[g] = handler[g]
  BY <1>2, <1>3, <1>4 DEF IInv, TypeOK, HandlerState
<1>6. /\ \A g \in Handlers \ {h} : Locks(g) => MessageId(g) # m
      /\ \A w \in Workers : worker[w].message # m
  BY <1>1 DEF IInv, LocksExclude, Locks, MessageId
<1>7. ~row[e].stored /\ \A g \in Handlers \ {h} : handler[g].event # e
  BY <1>2 DEF IInv, LocksExclude
<1>8. handler[h].applied <=> Supersedes(e, state[m].source)
  BY <1>1 DEF IInv, HandlersKnow, Locks, MessageId
<1>9. handler[h].applied /\ ~b => ~state[m].matched
  BY <1>2 DEF IInv, MessageShowsCurrent, b
<1> QED BY <1>1, <1>2, <1>5, <1>6, <1>7, <1>8, <1>9, HandlerStepIInv DEF b

\* A rollback gives the locks back and nothing else.
LEMMA HandlerFailsIInv ==
    ASSUME IInv, NEW h \in Handlers, HandlerFails(h)
    PROVE  IInv'
<1>1. /\ handler'[h].pc = "idle" /\ handler'[h].event = NoEvent /\ ~handler'[h].matched
      /\ handler' \in [Handlers -> HandlerState]
      /\ \A g \in Handlers \ {h} : handler'[g] = handler[g]
  BY DEF HandlerFails, IInv, TypeOK, IdleHandler, HandlerState
<1>2. UNCHANGED <<row, state, message, worker>>
  BY DEF HandlerFails
<1> QED BY <1>1, <1>2, HandlerStepIInv

-----------------------------------------------------------------------------
\* What Commit writes.
LEMMA CommitRows ==
    ASSUME IInv, NEW h \in Handlers, Commit(h)
    PROVE  LET e == handler[h].event
               m == MessageOf[e]
           IN  /\ e \in Events /\ m \in Messages /\ ~row[e].stored /\ Locks(h)
               /\ handler[h].applied <=> Supersedes(e, state[m].source)
               /\ handler[h].matched => handler[h].applied /\ message[m].known
               /\ handler[h].applied /\ ~handler[h].matched => ~state[m].matched
               /\ row'[e].stored /\ (row'[e].applied <=> handler[h].applied)
               /\ row'[e].matched <=> handler[h].matched
               /\ \A f \in Events \ {e} : row'[f] = row[f]
               /\ \A n \in Messages \ {m} : state'[n] = state[n] /\ message'[n] = message[n]
               /\ message'[m].known = message[m].known
               /\ handler[h].applied => /\ state'[m].source = e
                                        /\ state'[m].matched <=> state[m].matched \/ handler[h].matched
               /\ ~handler[h].applied => state'[m] = state[m]
               /\ message'[m].status = IF handler[h].matched THEN StatusOf[e] ELSE message[m].status
<1> DEFINE e == handler[h].event
           m == MessageOf[e]
<1>1. /\ e \in Events /\ m \in Messages /\ ~row[e].stored /\ Locks(h)
      /\ handler[h].applied \in BOOLEAN /\ handler[h].matched \in BOOLEAN
  BY EventAssumption DEF Commit, IInv, TypeOK, HandlerState, LocksExclude, Locks
<1>2. /\ handler[h].applied <=> Supersedes(e, state[m].source)
      /\ handler[h].matched => handler[h].applied /\ message[m].known
      /\ handler[h].applied /\ ~handler[h].matched => ~state[m].matched
  BY <1>1 DEF Commit, IInv, HandlersKnow, MessageId
<1>3. /\ row'[e].stored /\ (row'[e].applied <=> handler[h].applied)
      /\ row'[e].matched <=> handler[h].matched
      /\ \A f \in Events \ {e} : row'[f] = row[f]
  BY <1>1 DEF Commit, EventRow, IInv, TypeOK
<1>4. /\ \A n \in Messages \ {m} : state'[n] = state[n]
      /\ handler[h].applied => /\ state'[m].source = e
                               /\ state'[m].matched <=> state[m].matched \/ handler[h].matched
      /\ ~handler[h].applied => state'[m] = state[m]
  BY <1>1 DEF Commit, IInv, TypeOK
<1>5. /\ \A n \in Messages \ {m} : message'[n] = message[n]
      /\ message'[m].known = message[m].known
      /\ message'[m].status = IF handler[h].matched THEN StatusOf[e] ELSE message[m].status
  BY <1>1 DEF Commit, IInv, TypeOK, MessageRow
<1> QED BY <1>1, <1>2, <1>3, <1>4, <1>5

\* The commit: an applied event takes the place of an older one, a stale one is
\* stored below a newer one.
LEMMA CommitIInv ==
    ASSUME IInv, NEW h \in Handlers, Commit(h)
    PROVE  IInv'
<1> DEFINE e == handler[h].event
           m == MessageOf[e]
           s == state[m].source
           applied == handler[h].applied
           matched == handler[h].matched
<1>1. /\ e \in Events /\ m \in Messages /\ ~row[e].stored /\ Locks(h)
      /\ applied <=> Supersedes(e, s)
      /\ matched => applied /\ message[m].known
      /\ applied /\ ~matched => ~state[m].matched
  BY CommitRows
<1>2. /\ row'[e].stored /\ (row'[e].applied <=> applied) /\ (row'[e].matched <=> matched)
      /\ \A f \in Events \ {e} : row'[f] = row[f]
      /\ \A n \in Messages \ {m} : state'[n] = state[n] /\ message'[n] = message[n]
      /\ message'[m].known = message[m].known
      /\ applied => state'[m].source = e /\ (state'[m].matched <=> state[m].matched \/ matched)
      /\ ~applied => state'[m] = state[m]
      /\ message'[m].status = IF matched THEN StatusOf[e] ELSE message[m].status
  BY CommitRows
<1>3. handler' = [handler EXCEPT ![h] = IdleHandler] /\ UNCHANGED worker
  BY DEF Commit
<1>4. handler'[h] = IdleHandler /\ \A g \in Handlers \ {h} : handler'[g] = handler[g]
  BY <1>3 DEF IInv, TypeOK
<1>5. TypeOK'
  <2>1. row' \in [Events -> Row]
    BY <1>1 DEF Commit, EventRow, Row, IInv, TypeOK, HandlerState
  <2>2. state' \in [Messages -> State]
    BY <1>1 DEF Commit, State, IInv, TypeOK, HandlerState
  <2>3. message' \in [Messages -> MessageRow]
    <3>1. StatusOf[e] \in FinalStatuses
      BY <1>1, EventAssumption
    <3> QED BY <1>1, <3>1 DEF Commit, MessageRow, IInv, TypeOK
  <2>4. handler' \in [Handlers -> HandlerState]
        /\ \A g \in Handlers : handler'[g].pc = "idle" <=> handler'[g].event = NoEvent
    BY <1>3 DEF IInv, TypeOK, IdleHandler, HandlerState
  <2> QED BY <1>3, <2>1, <2>2, <2>3, <2>4 DEF IInv, TypeOK
<1>6. \A g \in Handlers \ {h} : Locks(g) => MessageId(g) \in Messages \ {m}
  <2> SUFFICES ASSUME NEW g \in Handlers \ {h}, Locks(g) PROVE MessageId(g) \in Messages \ {m}
    OBVIOUS
  <2>1. handler[g].event \in Events
    BY DEF IInv, TypeOK, HandlerState, Locks
  <2> QED BY <1>1, <2>1, EventAssumption DEF IInv, LocksExclude, MessageId
<1>7. LocksExclude'
  <2>1. \A g \in Handlers \ {h} : handler[g].event # e
    BY <1>1, EventAssumption DEF IInv, LocksExclude
  <2>2. \A g \in Handlers : handler'[g].event # NoEvent => ~row'[handler'[g].event].stored
    BY <1>2, <1>4, <2>1 DEF IInv, TypeOK, HandlerState, LocksExclude, IdleHandler
  <2>3. \A g, f \in Handlers :
          g # f => handler'[g].event = NoEvent \/ handler'[g].event # handler'[f].event
    BY <1>4 DEF IInv, LocksExclude, IdleHandler
  <2>4. /\ \A g, f \in Handlers : g # f /\ Locks(g)' /\ Locks(f)' => MessageId(g)' # MessageId(f)'
        /\ \A g \in Handlers, w \in Workers : Locks(g)' => worker'[w].message # MessageId(g)'
    BY <1>3, <1>4 DEF IInv, LocksExclude, IdleHandler, Locks, MessageId
  <2> QED BY <1>3, <2>2, <2>3, <2>4 DEF IInv, LocksExclude
<1>8. HandlersKnow'
  <2> SUFFICES ASSUME NEW g \in Handlers \ {h}
               PROVE  /\ handler'[g].pc # "commit" => ~handler'[g].matched
                      /\ Locks(g)' =>
                           /\ handler'[g].applied <=>
                                 Supersedes(handler'[g].event, state'[MessageId(g)'].source)
                           /\ handler'[g].matched => handler'[g].applied /\ message'[MessageId(g)'].known
                           /\ handler'[g].pc = "commit" /\ handler'[g].applied /\ ~handler'[g].matched
                              => ~state'[MessageId(g)'].matched
    BY <1>4 DEF HandlersKnow, IdleHandler, Locks, Supersedes
  <2>1. handler'[g] = handler[g] /\ MessageId(g)' = MessageId(g) /\ (Locks(g)' <=> Locks(g))
    BY <1>4 DEF MessageId, Locks
  <2> QED BY <1>2, <1>6, <2>1 DEF IInv, HandlersKnow
<1>9. WorkersKnow'
  <2>1. \A w \in Workers : worker[w].pc = "write" => worker[w].message \in Messages \ {m}
    BY <1>1, EventAssumption DEF IInv, TypeOK, WorkerState, LocksExclude, MessageId
  <2> QED BY <1>2, <1>3, <2>1 DEF IInv, WorkersKnow
<1>10. s # NoEvent => s \in Events /\ s # e /\ row[s].stored /\ MessageOf[s] = m
  BY <1>1 DEF IInv, TypeOK, State, NewestOnTop
<1>11. ~applied => s # NoEvent /\ Supersedes(s, e)
  BY <1>1, <1>10, TotalOrder DEF Supersedes
<1>12. NewestOnTop'
  <2> SUFFICES ASSUME NEW n \in Messages
               PROVE  LET t == state'[n].source IN
                      /\ t = NoEvent => \A f \in Events : MessageOf[f] = n => ~row'[f].stored
                      /\ t # NoEvent =>
                           /\ MessageOf[t] = n /\ row'[t].stored
                           /\ \A f \in Events : MessageOf[f] = n /\ row'[f].stored /\ f # t
                                                 => Supersedes(t, f)
    BY DEF NewestOnTop, Supersedes
  <2>1. CASE n # m
    <3>1. state'[n] = state[n] /\ \A f \in Events : MessageOf[f] = n => row'[f] = row[f]
      BY <1>2, <2>1
    <3>2. state[n].source # NoEvent => state[n].source \in Events
      BY DEF IInv, TypeOK, State
    <3> QED BY <3>1, <3>2 DEF IInv, NewestOnTop
  <2>2. CASE n = m /\ applied
    <3>1. state'[n].source = e /\ e # NoEvent /\ MessageOf[e] = n /\ row'[e].stored
      BY <1>1, <1>2, <2>2, EventAssumption
    <3>2. ASSUME NEW f \in Events, MessageOf[f] = m, row'[f].stored, f # e PROVE Supersedes(e, f)
      <4>1. row[f].stored
        BY <1>2, <3>2
      <4>2. s # NoEvent /\ (f = s \/ Supersedes(s, f))
        BY <1>1, <3>2, <4>1 DEF IInv, NewestOnTop
      <4> QED BY <1>1, <1>10, <2>2, <3>2, <4>2, TotalOrder
    <3> QED BY <2>2, <3>1, <3>2
  <2>3. CASE n = m /\ ~applied
    <3>1. state'[n].source = s /\ s # NoEvent /\ s \in Events /\ row'[s].stored /\ MessageOf[s] = n
      BY <1>2, <1>10, <1>11, <2>3
    <3>2. ASSUME NEW f \in Events, MessageOf[f] = m, row'[f].stored, f # s PROVE Supersedes(s, f)
      <4>1. CASE f = e
        BY <1>11, <2>3, <4>1
      <4>2. CASE f # e
        BY <1>1, <1>2, <1>11, <2>3, <3>2, <4>2 DEF IInv, NewestOnTop
      <4> QED BY <4>1, <4>2
    <3> QED BY <2>3, <3>1, <3>2
  <2> QED BY <2>1, <2>2, <2>3
<1>13. MessageShowsCurrent'
  <2> SUFFICES ASSUME NEW n \in Messages
               PROVE  /\ state'[n].matched => message'[n].known
                                              /\ message'[n].status = StatusOf[state'[n].source]
                      /\ ~state'[n].matched => message'[n].status \notin FinalStatuses
    BY DEF MessageShowsCurrent
  <2>1. CASE n # m
    BY <1>2, <2>1 DEF IInv, MessageShowsCurrent
  <2>2. CASE n = m /\ matched
    BY <1>1, <1>2, <2>2
  <2>3. CASE n = m /\ ~matched
    BY <1>1, <1>2, <2>3 DEF IInv, MessageShowsCurrent
  <2> QED BY <2>1, <2>2, <2>3
<1>14. EventRowsAreHonest'
  <2>1. ASSUME NEW n \in Messages, state'[n].source # NoEvent
        PROVE  row'[state'[n].source].applied
    <3>1. CASE n # m
      <4>1. state[n].source \in Events /\ MessageOf[state[n].source] = n
            /\ row[state[n].source].applied /\ state'[n] = state[n]
        BY <1>2, <2>1, <3>1 DEF IInv, TypeOK, State, NewestOnTop, EventRowsAreHonest
      <4> QED BY <1>2, <3>1, <4>1
    <3>2. CASE n = m /\ applied
      BY <1>2, <3>2
    <3>3. CASE n = m /\ ~applied
      BY <1>1, <1>2, <1>10, <1>11, <3>3 DEF IInv, EventRowsAreHonest
    <3> QED BY <3>1, <3>2, <3>3
  <2>2. ASSUME NEW f \in Events, row'[f].stored, ~row'[f].applied
        PROVE  state'[MessageOf[f]].source # NoEvent /\ Supersedes(state'[MessageOf[f]].source, f)
    <3> DEFINE n == MessageOf[f]
               t == state'[n].source
    <3>1. n \in Messages
      BY EventAssumption
    <3>2. t # NoEvent
      BY <1>12, <2>2, <3>1 DEF NewestOnTop
    <3>3. t # f
      BY <2>1, <2>2, <3>1, <3>2
    <3>4. \A g \in Events : MessageOf[g] = n /\ row'[g].stored /\ g # t => Supersedes(t, g)
      BY <1>12, <3>1, <3>2 DEF NewestOnTop, Supersedes
    <3> QED BY <2>2, <3>2, <3>3, <3>4
  <2>3. ASSUME NEW f \in Events, row'[f].matched
        PROVE  row'[f].applied /\ message'[MessageOf[f]].known
    <3>1. MessageOf[f] \in Messages
      BY EventAssumption
    <3>2. CASE f = e
      BY <1>1, <1>2, <2>3, <3>2
    <3>3. CASE f # e
      <4>1. row[f].applied /\ message[MessageOf[f]].known
        BY <1>2, <2>3, <3>3 DEF IInv, EventRowsAreHonest
      <4>2. message'[MessageOf[f]].known = message[MessageOf[f]].known
        BY <1>2, <3>1
      <4> QED BY <1>2, <3>3, <4>1, <4>2
    <3> QED BY <3>2, <3>3
  <2> QED BY <2>1, <2>2, <2>3 DEF EventRowsAreHonest, Supersedes
<1> QED BY <1>5, <1>7, <1>8, <1>9, <1>12, <1>13, <1>14 DEF IInv

-----------------------------------------------------------------------------
\* complete_outbound_job() makes a message known that no transaction has matched.
LEMMA CompleteIInv ==
    ASSUME IInv, NEW m \in Messages, Complete(m)
    PROVE  IInv'
<1>1. /\ ~message[m].known /\ message'[m].known /\ message'[m].status = "sent"
      /\ \A n \in Messages \ {m} : message'[n] = message[n]
      /\ UNCHANGED <<row, state, handler, worker>>
  BY DEF Complete, IInv, TypeOK
<1>2. TypeOK'
  BY DEF Complete, IInv, TypeOK, MessageRow
<1>3. \A n \in Messages : message[n].known => message'[n] = message[n]
  BY <1>1
<1>4. LocksExclude' /\ NewestOnTop'
  BY <1>1 DEF IInv, LocksExclude, NewestOnTop, Locks, MessageId, Supersedes
<1>5. HandlersKnow'
  <2>1. \A h \in Handlers : Locks(h) => MessageId(h) \in Messages
    BY EventAssumption DEF IInv, TypeOK, HandlerState, Locks, MessageId
  <2> QED BY <1>1, <1>3, <2>1 DEF IInv, HandlersKnow, Locks, MessageId, Supersedes
<1>6. WorkersKnow'
  <2>1. \A w \in Workers : worker[w].pc = "write" => worker[w].message \in Messages
    BY DEF IInv, TypeOK, WorkerState
  <2> QED BY <1>1, <1>3, <2>1 DEF IInv, WorkersKnow
<1>7. MessageShowsCurrent'
  BY <1>1, <1>3 DEF IInv, MessageShowsCurrent, FinalStatuses
<1>8. EventRowsAreHonest'
  <2>1. \A e \in Events : message[MessageOf[e]].known => message'[MessageOf[e]].known
    BY <1>3, EventAssumption
  <2> QED BY <1>1, <2>1 DEF IInv, EventRowsAreHonest, Supersedes
<1> QED BY <1>2, <1>4, <1>5, <1>6, <1>7, <1>8 DEF IInv

\* A step of one reconcile run that commits nothing.
LEMMA WorkerStepIInv ==
    ASSUME IInv, UNCHANGED <<row, state, message, handler>>,
           NEW w \in Workers, worker' \in [Workers -> WorkerState],
           \A v \in Workers \ {w} : worker'[v] = worker[v],
           worker'[w].pc = "write" <=> worker'[w].message # NoMessage,
           worker'[w].pc = "write" =>
             LET m == worker'[w].message IN
             /\ \A h \in Handlers : Locks(h) => MessageId(h) # m
             /\ \A v \in Workers \ {w} : worker[v].message # m
             /\ state[m].source # NoEvent /\ message[m].known
             /\ worker'[w].status = StatusOf[state[m].source]
    PROVE  IInv'
<1>1. TypeOK'
  BY DEF IInv, TypeOK
<1>2. LocksExclude'
  <2>1. \A h \in Handlers, v \in Workers : Locks(h)' => worker'[v].message # MessageId(h)'
    <3>1. \A h \in Handlers : Locks(h) => MessageId(h) # NoMessage
      BY EventAssumption DEF IInv, TypeOK, HandlerState, Locks, MessageId
    <3> QED BY <3>1 DEF IInv, LocksExclude, Locks, MessageId
  <2>2. \A u, v \in Workers :
          u # v => worker'[u].message = NoMessage \/ worker'[u].message # worker'[v].message
    BY DEF IInv, LocksExclude
  <2> QED BY <2>1, <2>2 DEF IInv, LocksExclude, Locks, MessageId
<1>3. HandlersKnow'
  BY DEF IInv, HandlersKnow, Locks, MessageId, Supersedes
<1>4. WorkersKnow'
  BY DEF IInv, WorkersKnow
<1>5. NewestOnTop' /\ MessageShowsCurrent' /\ EventRowsAreHonest'
  BY DEF IInv, NewestOnTop, MessageShowsCurrent, EventRowsAreHonest, Supersedes
<1> QED BY <1>1, <1>2, <1>3, <1>4, <1>5 DEF IInv

\* A reconcile run starts ...
LEMMA WorkerStartIInv ==
    ASSUME IInv, NEW w \in Workers, WorkerStart(w)
    PROVE  IInv'
<1>1. /\ worker' \in [Workers -> WorkerState] /\ UNCHANGED <<row, state, message, handler>>
      /\ \A v \in Workers \ {w} : worker'[v] = worker[v]
      /\ worker'[w].pc = "select" /\ worker'[w].message = worker[w].message
  BY DEF WorkerStart, IInv, TypeOK, WorkerState
<1>2. worker[w].message = NoMessage
  BY DEF WorkerStart, IInv, TypeOK
<1> QED BY <1>1, <1>2, WorkerStepIInv

\* ... ends, or fails and rolls back ...
LEMMA WorkerIdleIInv ==
    ASSUME IInv, NEW w \in Workers, worker' = [worker EXCEPT ![w] = IdleWorker],
           UNCHANGED <<row, state, message, handler>>
    PROVE  IInv'
<1>1. /\ worker' \in [Workers -> WorkerState]
      /\ \A v \in Workers \ {w} : worker'[v] = worker[v]
      /\ worker'[w].pc = "exit" /\ worker'[w].message = NoMessage
  BY DEF IInv, TypeOK, WorkerState, IdleWorker
<1> QED BY <1>1, WorkerStepIInv

\* ... or selects a state and holds its row lock.
LEMMA SelectIInv ==
    ASSUME IInv, NEW w \in Workers, Select(w)
    PROVE  IInv'
<1>1. UNCHANGED <<row, state, message, handler>>
  BY DEF Select
<1>2. CASE worker' = [worker EXCEPT ![w] = IdleWorker]
  BY <1>1, <1>2, WorkerIdleIInv
<1>3. ASSUME NEW m \in Candidates,
             worker' = [worker EXCEPT ![w] = [pc |-> "write", message |-> m,
                                              status |-> StatusOf[state[m].source]]]
      PROVE  IInv'
  <2>1. /\ m \in Messages /\ m # NoMessage /\ state[m].source # NoEvent /\ message[m].known
        /\ ~StateLocked(m)
    BY EventAssumption DEF Candidates
  <2>2. StatusOf[state[m].source] \in FinalStatuses
    BY <2>1, EventAssumption DEF IInv, TypeOK, State
  <2>3. /\ worker'[w].pc = "write" /\ worker'[w].message = m
        /\ worker'[w].status = StatusOf[state[m].source]
        /\ worker' \in [Workers -> WorkerState]
        /\ \A v \in Workers \ {w} : worker'[v] = worker[v]
    BY <1>3, <2>1, <2>2 DEF IInv, TypeOK, WorkerState
  <2>4. /\ \A h \in Handlers : Locks(h) => MessageId(h) # m
        /\ \A v \in Workers \ {w} : worker[v].message # m
    BY <2>1 DEF StateLocked, Locks, MessageId
  <2> QED BY <1>1, <2>1, <2>3, <2>4, WorkerStepIInv
<1> QED BY <1>2, <1>3 DEF Select

\* The reconciler writes, under the row lock, the status of the event in force.
LEMMA ReconcileIInv ==
    ASSUME IInv, NEW w \in Workers, Reconcile(w)
    PROVE  IInv'
<1> DEFINE m == worker[w].message
           s == state[m].source
<1>1. /\ m \in Messages /\ m # NoMessage /\ message[m].known
      /\ worker[w].status = StatusOf[s] /\ s \in Events
  BY DEF Reconcile, IInv, TypeOK, WorkerState, WorkersKnow, State
<1>2. /\ message'[m].known /\ message'[m].status = StatusOf[s]
      /\ \A n \in Messages \ {m} : message'[n] = message[n]
      /\ state'[m].matched /\ state'[m].source = s
      /\ \A n \in Messages \ {m} : state'[n] = state[n]
  BY <1>1 DEF Reconcile, IInv, TypeOK, MessageRow, State
<1>3. \A n \in Messages : state'[n].source = state[n].source
                         /\ (message'[n].known <=> message[n].known)
  BY <1>1, <1>2
<1>4. \A e \in Events : /\ row'[e].stored = row[e].stored /\ row'[e].applied = row[e].applied
                        /\ row'[e].matched => row[e].matched \/ (MessageOf[e] = m /\ row[e].applied)
  BY DEF Reconcile, IInv, TypeOK, Row
<1>5. /\ worker'[w].pc = "exit" /\ worker'[w].message = NoMessage /\ handler' = handler
      /\ \A v \in Workers \ {w} : worker'[v] = worker[v]
  BY DEF Reconcile, IInv, TypeOK, IdleWorker
<1>6. TypeOK'
  <2>1. row' \in [Events -> Row]
    BY DEF Reconcile, IInv, TypeOK, Row
  <2>2. state' \in [Messages -> State]
    BY <1>1 DEF Reconcile, IInv, TypeOK, State
  <2>3. StatusOf[s] \in FinalStatuses
    BY <1>1, EventAssumption
  <2>4. message' \in [Messages -> MessageRow]
    BY <1>1, <2>3 DEF Reconcile, IInv, TypeOK, MessageRow
  <2>5. worker' \in [Workers -> WorkerState]
    BY DEF Reconcile, IInv, TypeOK, WorkerState, IdleWorker
  <2> QED BY <1>5, <2>1, <2>2, <2>4, <2>5 DEF IInv, TypeOK
<1>7. \A h \in Handlers : Locks(h) => handler[h].event \in Events /\ MessageId(h) \in Messages \ {m}
  BY EventAssumption DEF IInv, TypeOK, HandlerState, Locks, MessageId, LocksExclude
<1>8. LocksExclude'
  <2>1. \A h \in Handlers : handler'[h].event # NoEvent => ~row'[handler'[h].event].stored
    BY <1>4, <1>5 DEF IInv, TypeOK, HandlerState, LocksExclude
  <2>2. \A h \in Handlers, v \in Workers : Locks(h)' => worker'[v].message # MessageId(h)'
    BY <1>5, <1>7, EventAssumption DEF IInv, LocksExclude, Locks, MessageId
  <2>3. \A u, v \in Workers :
          u # v => worker'[u].message = NoMessage \/ worker'[u].message # worker'[v].message
    BY <1>5 DEF IInv, LocksExclude
  <2> QED BY <1>5, <2>1, <2>2, <2>3 DEF IInv, LocksExclude, Locks, MessageId
<1>9. HandlersKnow'
  <2> SUFFICES ASSUME NEW h \in Handlers
               PROVE  /\ handler'[h].pc # "commit" => ~handler'[h].matched
                      /\ Locks(h)' =>
                           /\ handler'[h].applied <=>
                                 Supersedes(handler'[h].event, state'[MessageId(h)'].source)
                           /\ handler'[h].matched => handler'[h].applied /\ message'[MessageId(h)'].known
                           /\ handler'[h].pc = "commit" /\ handler'[h].applied /\ ~handler'[h].matched
                              => ~state'[MessageId(h)'].matched
    BY DEF HandlersKnow, Supersedes
  <2>1. handler'[h] = handler[h] /\ MessageId(h)' = MessageId(h) /\ (Locks(h)' <=> Locks(h))
    BY <1>5 DEF MessageId, Locks
  <2> QED BY <1>2, <1>7, <2>1 DEF IInv, HandlersKnow
<1>10. WorkersKnow'
  <2>1. \A v \in Workers \ {w} : worker[v].pc = "write" => worker[v].message \in Messages \ {m}
    BY <1>1 DEF IInv, TypeOK, WorkerState, LocksExclude
  <2> QED BY <1>2, <1>5, <2>1 DEF IInv, WorkersKnow
<1>11. NewestOnTop'
  <2> SUFFICES ASSUME NEW n \in Messages
               PROVE  LET t == state'[n].source IN
                      /\ t = NoEvent => \A f \in Events : MessageOf[f] = n => ~row'[f].stored
                      /\ t # NoEvent =>
                           /\ MessageOf[t] = n /\ row'[t].stored
                           /\ \A f \in Events : MessageOf[f] = n /\ row'[f].stored /\ f # t
                                                 => Supersedes(t, f)
    BY DEF NewestOnTop, Supersedes
  <2>1. state'[n].source = state[n].source
        /\ (state[n].source # NoEvent => state[n].source \in Events)
    BY <1>3 DEF IInv, TypeOK, State
  <2>2. \A f \in Events : row'[f].stored = row[f].stored
    BY <1>4
  <2> QED BY <2>1, <2>2 DEF IInv, NewestOnTop
<1>12. MessageShowsCurrent'
  BY <1>1, <1>2 DEF IInv, MessageShowsCurrent
<1>13. EventRowsAreHonest'
  <2>1. \A n \in Messages : state'[n].source # NoEvent => row'[state'[n].source].applied
    BY <1>3, <1>4 DEF IInv, TypeOK, State, EventRowsAreHonest
  <2>2. \A e \in Events : row'[e].stored /\ ~row'[e].applied =>
          state'[MessageOf[e]].source # NoEvent /\ Supersedes(state'[MessageOf[e]].source, e)
    BY <1>3, <1>4, EventAssumption DEF IInv, EventRowsAreHonest
  <2>3. \A e \in Events : row'[e].matched => row'[e].applied /\ message'[MessageOf[e]].known
    BY <1>1, <1>3, <1>4, EventAssumption DEF IInv, EventRowsAreHonest
  <2> QED BY <2>1, <2>2, <2>3 DEF EventRowsAreHonest, Supersedes
<1> QED BY <1>6, <1>8, <1>9, <1>10, <1>11, <1>12, <1>13 DEF IInv

\* Every step keeps the invariant.
LEMMA NextIInv == IInv /\ [Next]_vars => IInv'
<1> SUFFICES ASSUME IInv, [Next]_vars PROVE IInv'
  OBVIOUS
<1>1. ASSUME NEW h \in Handlers, NEW e \in Events, Insert(h, e) PROVE IInv'
  BY <1>1, InsertIInv
<1>2. ASSUME NEW h \in Handlers, HandlerStep(h) \/ HandlerFails(h) PROVE IInv'
  BY <1>2, UpsertIInv, MatchIInv, CommitIInv, HandlerFailsIInv DEF HandlerStep
<1>3. ASSUME NEW w \in Workers, WorkerStart(w) \/ WorkerStep(w) \/ WorkerFails(w) PROVE IInv'
  BY <1>3, WorkerStartIInv, SelectIInv, ReconcileIInv, WorkerIdleIInv DEF WorkerStep, WorkerFails
<1>4. ASSUME NEW m \in Messages, Complete(m) PROVE IInv'
  BY <1>4, CompleteIInv
<1>5. CASE UNCHANGED vars
  BY <1>5 DEF vars, IInv, TypeOK, LocksExclude, HandlersKnow, WorkersKnow, NewestOnTop,
     MessageShowsCurrent, EventRowsAreHonest, Locks, MessageId, Supersedes
<1> QED BY <1>1, <1>2, <1>3, <1>4, <1>5 DEF Next

\* Every interleaving of callbacks, reconcile runs and completions keeps it.
THEOREM InvariantHolds == Spec => []IInv
BY InitIInv, NextIInv, PTL DEF Spec

-----------------------------------------------------------------------------
\* Messages, delivery state and event rows agree in every reachable state: no
\* interleaving of put_if_absent(), reconcile_one() and complete_outbound_job()
\* loses a status, brings an older one back or marks a row for what it is not.
THEOREM StatusIsNeverLost == Spec => []StatusIsTrue
<1>1. IInv => StatusIsTrue
  BY DEF IInv, StatusIsTrue
<1> QED BY <1>1, InvariantHolds, PTL

-----------------------------------------------------------------------------
(* Refinement.                                                             *)

\* The newest element of a set of events is unique.
LEMMA NewestIsUnique ==
    ASSUME NEW S \in SUBSET Events, NEW e \in S, \A f \in S \ {e} : Supersedes(e, f)
    PROVE  Latest!Newest(S) = e
<1>1. \A f \in S, g \in S : Latest!Newer(f, g) <=> Supersedes(f, g)
  BY EventAssumption DEF Latest!Newer, Supersedes
<1>2. Latest!IsNewest(e, S)
  BY <1>1 DEF Latest!IsNewest
<1>3. \A f \in S : Latest!IsNewest(f, S) => f = e
  BY <1>1, TotalOrder DEF Latest!IsNewest
<1> QED BY <1>2, <1>3 DEF Latest!Newest

\* messaging_delivery_state is a last-writer-wins register by (occurred_at,
\* provider_event_id): what a callback found when it took the row lock is still
\* what its commit replaces.
THEOREM DeliveryImplementsLatestWins == Spec => ImplementsLatestWins
<1> DEFINE acc == {e \in Events : row[e].stored}
           cur == [m \in Messages |-> state[m].source]
<1>1. Init => Latest!Init
  BY DEF Init, Latest!Init
<1>2. ASSUME IInv, IInv', [Next]_vars
      PROVE  [Latest!Next]_(Latest!vars)
  <2>1. ASSUME NEW h \in Handlers, Commit(h) PROVE Latest!Next
    <3>0. PICK e \in Events : e = handler[h].event
      BY <1>2, <2>1, CommitRows
    <3> DEFINE m == MessageOf[e]
    <3>1. /\ m \in Messages /\ ~row[e].stored /\ row'[e].stored
          /\ \A f \in Events \ {e} : row'[f] = row[f]
          /\ \A n \in Messages \ {m} : state'[n] = state[n]
      BY <1>2, <2>1, <3>0, CommitRows
    <3>2. acc' = acc \cup {e} /\ e \notin acc
      BY <3>1
    <3>3. state'[m].source # NoEvent
      BY <1>2, <3>1 DEF IInv, NewestOnTop
    <3>4. Latest!Newest(Latest!Of(m, acc')) = state'[m].source
      <4> DEFINE S == {f \in acc' : MessageOf[f] = m}
      <4>1. Latest!Of(m, acc') = S
        BY DEF Latest!Of
      <4>2. state'[m].source \in S /\ S \in SUBSET Events
        BY <1>2, <3>1, <3>3 DEF IInv, TypeOK, State, NewestOnTop
      <4>3. \A f \in S \ {state'[m].source} : Supersedes(state'[m].source, f)
        BY <1>2, <3>1, <3>3 DEF IInv, NewestOnTop, Supersedes
      <4> HIDE DEF S
      <4> QED BY <4>1, <4>2, <4>3, NewestIsUnique
    <3>5. cur' = [cur EXCEPT ![m] = state'[m].source]
      BY <3>1
    <3>6. Latest!Accept(e)
      BY <3>1, <3>2, <3>4, <3>5 DEF Latest!Accept
    <3> QED BY <3>6 DEF Latest!Next
  <2>2. ASSUME NEW w \in Workers, Reconcile(w) PROVE UNCHANGED Latest!vars
    <3>1. \A e \in Events : row'[e].stored = row[e].stored
      BY <1>2, <2>2 DEF Reconcile, IInv, TypeOK, Row
    <3>2. \A m \in Messages : state'[m].source = state[m].source
      BY <1>2, <2>2 DEF Reconcile, IInv, TypeOK, State
    <3> QED BY <3>1, <3>2 DEF Latest!vars
  <2>3. CASE UNCHANGED <<row, state>>
    BY <2>3 DEF Latest!vars
  <2>4. ASSUME NEW h \in Handlers,
               (\E e \in Events : Insert(h, e)) \/ Upsert(h) \/ Match(h) \/ HandlerFails(h)
        PROVE  UNCHANGED <<row, state>>
    BY <2>4 DEF Insert, Upsert, Match, HandlerFails
  <2>5. ASSUME NEW w \in Workers, WorkerStart(w) \/ Select(w) \/ WorkerFails(w)
        PROVE  UNCHANGED <<row, state>>
    BY <2>5 DEF WorkerStart, Select, WorkerFails
  <2>6. CASE UNCHANGED vars \/ \E m \in Messages : Complete(m)
    BY <2>3, <2>6 DEF vars, Complete
  <2> QED BY <1>2, <2>1, <2>2, <2>3, <2>4, <2>5, <2>6 DEF Next, HandlerStep, WorkerStep
<1> QED BY <1>1, <1>2, InvariantHolds, PTL DEF Spec, ImplementsLatestWins, Latest!Spec

----------------------------------------------------------------------------
\* VpnSync: quarantine of the devices that were revoked.

\* The registry's rows, here also with the synchronisation's own quarantine, and a run
\* of sync_once() with its two snapshots.
SyncRows == [address : AllAddresses, label : {"given", "renamed"},
             quarantined : {"operator", "no", "sync"}]
RegTables == [RegKeys -> SyncRows \cup {NoRegDevice}]
SyncReading == [at : {"rows"}, devices : RegTables]
SyncPosting == [at : {"posts"}, devices : RegTables, rows : Seq(DeviceRows), next : Nat]

SyncTyped ==
  /\ ledger \in Seq(DeviceRows)
  /\ regDevices \in RegTables
  /\ sync \in {SyncIdle} \cup SyncReading \cup SyncPosting

\* The device is revoked in the given enrollment rows.
RevokedIn(rows, k) == \E d \in DOMAIN rows : rows[d].key = k /\ rows[d].revoked

\* What a run has read of the enrollment rows as revoked is revoked for ever.
SnapshotIsPast ==
  sync \in SyncPosting =>
    \A d \in DOMAIN sync.rows : sync.rows[d].revoked => RevokedIn(ledger, sync.rows[d].key)

SyncInv == SyncTyped /\ SnapshotIsPast /\ SyncQuarantinesRevoked
----------------------------------------------------------------------------
\* The ledger takes no revocation back.
LEMMA RevocationsStay ==
  ASSUME ledger \in Seq(DeviceRows), LedgerNext
  PROVE  /\ ledger' \in Seq(DeviceRows)
         /\ \A k : RevokedIn(ledger, k) => RevokedIn(ledger', k)
<1>1. ASSUME NEW i \in Invites, NEW k \in 1..MaxKeys, NEW a \in AllAddresses, EnrollRow(i, k, a)
      PROVE  /\ ledger' \in Seq(DeviceRows)
             /\ \A j : RevokedIn(ledger, j) => RevokedIn(ledger', j)
  <2>1. PICK posted \in DeviceRows : ledger' = Append(ledger, posted)
    <3>1. [invite |-> i, key |-> k, address |-> a, label |-> "given", revoked |-> FALSE] \in DeviceRows
      BY DEF DeviceRows
    <3>2. QED
      BY <1>1, <3>1 DEF EnrollRow
  <2>2. ledger' \in Seq(DeviceRows)
    BY <2>1
  <2>3. \A d \in DOMAIN ledger : d \in DOMAIN ledger' /\ ledger'[d] = ledger[d]
    BY <2>1
  <2>4. QED
    BY <2>2, <2>3 DEF RevokedIn
<1>2. ASSUME NEW d \in DOMAIN ledger, RevokeRow(d) \/ RenameRow(d)
      PROVE  /\ ledger' \in Seq(DeviceRows)
             /\ \A j : RevokedIn(ledger, j) => RevokedIn(ledger', j)
  <2>1. ledger[d] \in DeviceRows /\ ~ledger[d].revoked
    BY <1>2 DEF RevokeRow, RenameRow
  <2>2. PICK posted \in DeviceRows : ledger' = [ledger EXCEPT ![d] = posted]
    <3>1. [ledger[d] EXCEPT !.revoked = TRUE] \in DeviceRows
          /\ [ledger[d] EXCEPT !.label = "renamed"] \in DeviceRows
      BY <2>1 DEF DeviceRows
    <3>2. QED
      BY <1>2, <3>1 DEF RevokeRow, RenameRow
  <2>3. ledger' \in Seq(DeviceRows) /\ DOMAIN ledger' = DOMAIN ledger
    BY <2>2
  <2>4. \A e \in DOMAIN ledger : e # d => ledger'[e] = ledger[e]
    BY <2>2
  <2>5. QED
    BY <2>1, <2>3, <2>4 DEF RevokedIn
<1>3. QED
  BY <1>1, <1>2 DEF LedgerNext

\* A quarantine by the operator, or its end, is none of the synchronisation's.
LEMMA QuarantineSet ==
  ASSUME regDevices \in RegTables, NEW k, NEW actor \in {"operator", "no", "sync"},
         SetQuarantine(k, actor)
  PROVE  /\ regDevices' \in RegTables
         /\ \A j \in RegKeys : Known(j)' /\ regDevices'[j].quarantined = "sync" =>
              \/ Known(j) /\ regDevices[j].quarantined = "sync"
              \/ j = k /\ actor = "sync"
<1>1. Known(k) /\ regDevices' = [regDevices EXCEPT ![k].quarantined = actor]
  BY DEF SetQuarantine
<1>2. CASE k \notin RegKeys
  <2>1. regDevices' = regDevices
    BY <1>1, <1>2 DEF RegTables
  <2>2. QED
    BY <2>1 DEF Known
<1>3. CASE k \in RegKeys
  <2>1. regDevices[k] \in SyncRows
    BY <1>1, <1>3 DEF Known, RegTables
  <2>2. PICK posted \in SyncRows : posted = [regDevices[k] EXCEPT !.quarantined = actor] /\ posted.quarantined = actor
    <3>1. PICK old \in SyncRows : old = regDevices[k]
      BY <2>1
    <3>2. [old EXCEPT !.quarantined = actor] \in SyncRows
      BY DEF SyncRows
    <3>3. [old EXCEPT !.quarantined = actor].quarantined = actor
      BY DEF SyncRows
    <3>4. QED
      BY <3>1, <3>2, <3>3
  <2>3. regDevices' = [regDevices EXCEPT ![k] = posted]
    BY <1>1, <2>2
  <2>4. /\ regDevices' \in RegTables /\ regDevices'[k] = posted
        /\ \A j \in RegKeys : j # k => regDevices'[j] = regDevices[j]
    BY <1>3, <2>3 DEF RegTables
  <2>5. QED
    BY <2>2, <2>4 DEF Known
<1>4. QED
  BY <1>2, <1>3

\* An upsert keeps the quarantine that there is.
LEMMA QuarantineUpserted ==
  ASSUME regDevices \in RegTables, NEW k, NEW a \in AllAddresses, NEW label \in {"given", "renamed"},
         UpsertDevice(k, a, label)
  PROVE  /\ regDevices' \in RegTables
         /\ \A j \in RegKeys : Known(j)' /\ regDevices'[j].quarantined = "sync" =>
              Known(j) /\ regDevices[j].quarantined = "sync"
<1> DEFINE kept == IF Known(k) THEN regDevices[k].quarantined ELSE "no"
           posted == [address |-> a, label |-> label, quarantined |-> kept]
<1>1. regDevices' = [regDevices EXCEPT ![k] = posted]
  BY DEF UpsertDevice, Upserted
<1>2. CASE k \notin RegKeys
  <2>1. regDevices' = regDevices
    BY <1>1, <1>2 DEF RegTables
  <2>2. QED
    BY <2>1 DEF Known
<1>3. CASE k \in RegKeys
  <2>1. kept \in {"operator", "no", "sync"} /\ (kept = "sync" => Known(k) /\ regDevices[k].quarantined = "sync")
    BY <1>3 DEF Known, RegTables, SyncRows
  <2>2. posted \in SyncRows /\ posted.quarantined = kept
    BY <2>1 DEF SyncRows
  <2> HIDE DEF posted
  <2>3. /\ regDevices' \in RegTables /\ regDevices'[k] = posted
        /\ \A j \in RegKeys : j # k => regDevices'[j] = regDevices[j]
    BY <1>1, <1>3, <2>2 DEF RegTables
  <2>4. QED
    BY <2>1, <2>2, <2>3 DEF Known
<1>4. QED
  BY <1>2, <1>3

\* Each post is about a row that was read: a quarantine about one that is revoked by now.
LEMMA PostStep ==
  ASSUME SyncInv, NEW n, PostRow(n)
  PROVE  SyncInv'
<1>1. PICK s \in SyncPosting : s = sync
  BY DEF PostRow, SyncInv, SyncTyped, SyncIdle, SyncReading
<1>2. n \in DOMAIN s.rows /\ n \in Nat /\ s.rows[n] \in DeviceRows
  BY <1>1 DEF PostRow, SyncPosting
<1>3. PICK next \in SyncPosting : sync' = next /\ next.rows = s.rows
  BY <1>1, <1>2 DEF PostRow, SyncPosting
<1>4. ledger' = ledger
  BY DEF PostRow
<1>5. /\ regDevices' \in RegTables
      /\ \A j \in RegKeys : Known(j)' /\ regDevices'[j].quarantined = "sync" =>
           \/ Known(j) /\ regDevices[j].quarantined = "sync"
           \/ j = s.rows[n].key /\ s.rows[n].revoked
  <2>0. regDevices \in RegTables
    BY DEF SyncInv, SyncTyped
  <2>1. CASE NeedsQuarantine(s.rows[n]) /\ SetQuarantine(s.rows[n].key, "sync")
    BY <2>0, <2>1, QuarantineSet DEF NeedsQuarantine
  <2>2. CASE UpsertDevice(s.rows[n].key, s.rows[n].address, s.rows[n].label)
    <3>1. s.rows[n].address \in AllAddresses /\ s.rows[n].label \in {"given", "renamed"}
      BY <1>2 DEF DeviceRows
    <3>2. QED
      BY <2>0, <2>2, <3>1, QuarantineUpserted
  <2>3. CASE UNCHANGED regVars
    BY <2>0, <2>3 DEF regVars, Known
  <2>4. QED
    BY <1>1, <2>1, <2>2, <2>3 DEF PostRow
<1>6. SyncTyped'
  BY <1>3, <1>4, <1>5 DEF SyncInv, SyncTyped
<1>7. SnapshotIsPast'
  BY <1>1, <1>3, <1>4 DEF SyncInv, SnapshotIsPast
<1>8. SyncQuarantinesRevoked'
  <2>1. s.rows[n].revoked => RevokedIn(ledger, s.rows[n].key)
    BY <1>1, <1>2 DEF SyncInv, SnapshotIsPast
  <2>2. QED
    BY <1>4, <1>5, <2>1 DEF SyncInv, SyncQuarantinesRevoked, RevokedIn
<1>9. QED
  BY <1>6, <1>7, <1>8 DEF SyncInv

LEMMA SyncStep ==
  ASSUME SyncInv, [SyncNext]_syncVars
  PROVE  SyncInv'
<1>1. CASE LedgerNext /\ UNCHANGED <<regVars, sync>>
  <2>1. /\ ledger' \in Seq(DeviceRows)
        /\ \A k : RevokedIn(ledger, k) => RevokedIn(ledger', k)
    BY <1>1, RevocationsStay DEF SyncInv, SyncTyped
  <2>2. UNCHANGED <<regDevices, sync>>
    BY <1>1 DEF regVars
  <2>3. SyncTyped' /\ SnapshotIsPast'
    BY <2>1, <2>2 DEF SyncInv, SyncTyped, SnapshotIsPast
  <2>4. SyncQuarantinesRevoked'
    BY <2>1, <2>2 DEF SyncInv, SyncQuarantinesRevoked, RevokedIn, Known
  <2>5. QED
    BY <2>3, <2>4 DEF SyncInv
<1>2. ASSUME NEW k \in RegKeys, NEW actor \in {"operator", "no"}, SetQuarantine(k, actor),
             UNCHANGED <<ledger, sync>>
      PROVE  SyncInv'
  <2>1. /\ regDevices' \in RegTables
        /\ \A j \in RegKeys : Known(j)' /\ regDevices'[j].quarantined = "sync" =>
             Known(j) /\ regDevices[j].quarantined = "sync"
    BY <1>2, QuarantineSet DEF SyncInv, SyncTyped
  <2>2. QED
    BY <1>2, <2>1 DEF SyncInv, SyncTyped, SnapshotIsPast, SyncQuarantinesRevoked
<1>3. CASE ReadRegistry
  <2>1. sync' \in SyncReading /\ UNCHANGED <<ledger, regDevices>>
    BY <1>3 DEF ReadRegistry, regVars, SyncInv, SyncTyped, SyncReading
  <2>2. sync' \notin SyncPosting
    BY <2>1 DEF SyncReading, SyncPosting
  <2>3. QED
    BY <2>1, <2>2 DEF SyncInv, SyncTyped, SnapshotIsPast, SyncQuarantinesRevoked, Known
<1>4. CASE ReadRows
  <2>1. PICK s \in SyncReading : s = sync
    BY <1>4 DEF ReadRows, SyncInv, SyncTyped, SyncIdle, SyncPosting
  <2>2. sync' \in SyncPosting /\ sync'.rows = ledger /\ UNCHANGED <<ledger, regDevices>>
    BY <1>4, <2>1 DEF ReadRows, regVars, SyncInv, SyncTyped, SyncReading, SyncPosting
  <2>3. QED
    BY <2>2 DEF SyncInv, SyncTyped, SnapshotIsPast, SyncQuarantinesRevoked, Known, RevokedIn
<1>5. CASE SyncEnds \/ SyncFails
  <2>1. sync' = SyncIdle /\ UNCHANGED <<ledger, regDevices>>
    BY <1>5 DEF SyncEnds, SyncFails, regVars
  <2>2. SyncIdle \notin SyncPosting
    BY DEF SyncIdle, SyncPosting
  <2>3. QED
    BY <2>1, <2>2 DEF SyncInv, SyncTyped, SnapshotIsPast, SyncQuarantinesRevoked, Known
<1>6. CASE UNCHANGED syncVars
  BY <1>6 DEF syncVars, regVars, SyncInv, SyncTyped, SnapshotIsPast, SyncQuarantinesRevoked, Known
<1>7. QED
  BY <1>1, <1>2, <1>3, <1>4, <1>5, <1>6, PostStep DEF SyncNext, OperatorActs

\* vpn_enrollment_registration_sync.py, for every set of invites, keys and addresses: a
\* device that is shown as quarantined by the synchronisation is revoked in the enrollment
\* service, however stale the snapshots are from which the run posts.
THEOREM OnlyRevokedAreQuarantined == SyncSpec => []SyncQuarantinesRevoked
<1>1. SyncInit => SyncInv
  <2>1. SUFFICES ASSUME SyncInit PROVE SyncInv
    OBVIOUS
  <2>2. SyncTyped
    BY <2>1 DEF SyncInit, LedgerInit, RegInit, SyncTyped, RegTables
  <2>3. SnapshotIsPast /\ SyncQuarantinesRevoked
    BY <2>1 DEF SyncInit, RegInit, SnapshotIsPast, SyncPosting, SyncIdle, SyncQuarantinesRevoked, Known
  <2>4. QED
    BY <2>2, <2>3 DEF SyncInv
<1>2. SyncInv => SyncQuarantinesRevoked
  BY DEF SyncInv
<1>3. QED
  BY <1>1, <1>2, SyncStep, PTL DEF SyncSpec
=============================================================================

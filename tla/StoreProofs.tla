---------------------------- MODULE StoreProofs ----------------------------
(***************************************************************************)
(* Proofs about the stores behind the operator services: turn ownership    *)
(* (TurnState), sessions and action guards (SecurityAuth), the typed       *)
(* reload of the Operations API (OperationsControl), the nonces of the     *)
(* mail preparation API (PreparationNonces) and the telegrams of the       *)
(* store-and-forward reference (TelegraphQueue).                           *)
(***************************************************************************)
EXTENDS TurnState, SecurityAuth, OperationsControl, PreparationNonces,
        TelegraphQueue, FiniteSetTheorems, SequenceTheorems, TLAPS

----------------------------------------------------------------------------
\* TurnState: who owns a conversation.

\* Where a caller of handoff() may stand.
AskedCalls == [at : {"asked"}, request : HandoffRequests]
AnsweredCalls == [at : {"answered"}, request : HandoffRequests,
                  answer : Refusals \cup {"done"}, row : TurnRows \cup {NoTurn}]
CallStates == {[at |-> "idle"]} \cup AskedCalls \cup AnsweredCalls

\* A row of turn_state belongs to its conversation and to its latest life, and no
\* audit row is of a later one.
LivesAgree ==
  /\ \A c \in Conversations : turnState[c] # NoTurn =>
       turnState[c].conv = c /\ turnState[c].life = turnSeeds[c]
  /\ \A r \in turnAudit : r.life <= turnSeeds[r.conv]

\* The audit and the keys describe the same handoffs: a stored fingerprint is that
\* of the handoff its key was used for, and every audited key is stored.
KeysAgreeWithAudit ==
  /\ \A i \in turnIdempotency :
       /\ i.result \in turnOutbox
       /\ \E r \in turnAudit : /\ r.conv = i.conv /\ r.key = i.key
                               /\ r.epoch = i.result.epoch
                               /\ i.fingerprint[1] = r.from /\ i.fingerprint[2] = r.to
                               /\ r.epoch = i.fingerprint[3] + 1
  /\ \A r \in turnAudit : \E i \in turnIdempotency : i.conv = r.conv /\ i.key = r.key
  /\ \A r, s \in turnAudit : r.conv = s.conv /\ r.key = s.key => r = s

\* The two tables grow together.
SameSize ==
  /\ IsFiniteSet(turnAudit) /\ IsFiniteSet(turnIdempotency)
  /\ Cardinality(turnAudit) = Cardinality(turnIdempotency)

TInv ==
  /\ TurnTypeOK /\ turnCalls \in [Callers -> CallStates]
  /\ LivesAgree /\ TurnsFormAChain /\ KeysAgreeWithAudit /\ SameSize /\ AnswersAreTrue

----------------------------------------------------------------------------
\* The empty tables satisfy the invariant.
LEMMA InitTInv == TurnInit => TInv
<1> SUFFICES ASSUME TurnInit PROVE TInv
  OBVIOUS
<1>1. TurnTypeOK /\ turnCalls \in [Callers -> CallStates]
  BY TurnBounds DEF TurnInit, TurnTypeOK, CallStates
<1>2. SameSize
  BY FS_EmptySet DEF TurnInit, SameSize
<1>3. QED
  BY <1>1, <1>2 DEF TurnInit, TInv, LivesAgree, TurnsFormAChain, KeysAgreeWithAudit,
                    AnswersAreTrue

\* What the type invariant says of the rows and the callers.
LEMMA TurnTyped ==
  ASSUME TInv
  PROVE  /\ MaxEpoch \in Nat /\ MaxSeeds \in Nat
         /\ \A r \in turnAudit : /\ r \in AuditRows /\ r.conv \in Conversations
                                 /\ r.epoch \in 1..MaxEpoch /\ r.life \in 1..MaxSeeds
         /\ \A c \in Conversations : turnSeeds[c] \in 0..MaxSeeds
         /\ \A c \in Conversations : turnState[c] # NoTurn =>
              /\ turnState[c] \in TurnRows /\ turnState[c].epoch \in 0..MaxEpoch
              /\ turnState[c].owner \in Agents
         /\ \A p \in Callers : turnCalls[p].at \in {"asked", "answered"} =>
              turnCalls[p].request \in HandoffRequests
BY TurnBounds DEF TInv, TurnTypeOK, AuditRows, TurnRows, CallStates, AskedCalls, AnsweredCalls

\* The steps in which a caller's request or answer alone moves.
LEMMA CallsStep ==
  ASSUME TInv, NEW p \in Callers, NEW call \in CallStates,
         turnCalls' = [turnCalls EXCEPT ![p] = call],
         UNCHANGED <<turnState, turnAudit, turnOutbox, turnIdempotency, turnSeeds>>,
         call.at = "answered" /\ call.answer = "done" =>
           \E r \in turnAudit :
             /\ r.conv = call.request.conv /\ r.key = call.request.key
             /\ r.from = call.request.agent /\ r.to = call.request.to
             /\ r.epoch = call.request.epoch + 1
  PROVE  TInv'
<1> USE DEF TInv
<1>1. turnCalls' \in [Callers -> CallStates] /\ turnCalls'[p] = call
      /\ \A q \in Callers : q # p => turnCalls'[q] = turnCalls[q]
  OBVIOUS
<1>2. TurnTypeOK'
  BY <1>1 DEF TurnTypeOK, CallStates, AskedCalls, AnsweredCalls
<1>3. AnswersAreTrue'
  BY <1>1 DEF AnswersAreTrue
<1>4. QED
  BY <1>1, <1>2, <1>3 DEF LivesAgree, TurnsFormAChain, ThisLife, KeysAgreeWithAudit, SameSize

\* A request is made up, sent again or given up.
LEMMA AskStep ==
  ASSUME TInv, NEW p \in Callers,
         (\E q \in HandoffRequests : AskHandoff(p, q)) \/ RetryHandoff(p) \/ AcceptAnswer(p)
  PROVE  TInv'
<1>1. CASE \E q \in HandoffRequests : AskHandoff(p, q)
  <2>1. PICK q \in HandoffRequests : AskHandoff(p, q)
    BY <1>1
  <2>2. [at |-> "asked", request |-> q] \in CallStates
    BY DEF CallStates, AskedCalls
  <2>3. QED
    BY <2>1, <2>2, CallsStep DEF AskHandoff
<1>2. CASE RetryHandoff(p)
  <2>1. turnCalls[p].request \in HandoffRequests
    BY <1>2, TurnTyped DEF RetryHandoff
  <2>2. [at |-> "asked", request |-> turnCalls[p].request] \in CallStates
    BY <2>1 DEF CallStates, AskedCalls
  <2>3. QED
    BY <1>2, <2>2, CallsStep DEF RetryHandoff
<1>3. CASE AcceptAnswer(p)
  <2>1. [at |-> "idle"] \in CallStates
    BY DEF CallStates
  <2>2. QED
    BY <1>3, <2>1, CallsStep DEF AcceptAnswer
<1>4. QED
  BY <1>1, <1>2, <1>3

\* Each refusal of handoff() is one of the four the code gives.
LEMMA RefusalTyped ==
  ASSUME NEW q
  PROVE  HandoffRefusal(q) \in Refusals
<1> DEFINE current == turnState[q.conv]
<1>1. CASE current = NoTurn
  BY <1>1, Zenon DEF HandoffRefusal, Refusals
<1>2. CASE current # NoTurn /\ StoredUnder(q) # {}
  BY <1>2, Zenon DEF HandoffRefusal, Refusals
<1>3. CASE current # NoTurn /\ StoredUnder(q) = {} /\ current.owner # q.agent
  BY <1>3, Zenon DEF HandoffRefusal, Refusals
<1>4. CASE current # NoTurn /\ StoredUnder(q) = {} /\ current.owner = q.agent
  BY <1>4, Zenon DEF HandoffRefusal, Refusals
<1>5. QED
  BY <1>1, <1>2, <1>3, <1>4

\* handoff() answers without an effect: the refusal of a request, or the stored
\* result of the request it repeats.
LEMMA AnswerStep ==
  ASSUME TInv, NEW p \in Callers, ReplayHandoff(p) \/ RefuseHandoff(p)
  PROVE  TInv'
<1> DEFINE q == turnCalls[p].request
<1>0. q \in HandoffRequests
  BY TurnTyped DEF ReplayHandoff, RefuseHandoff
<1>1. CASE RefuseHandoff(p)
  <2> DEFINE call == [at |-> "answered", request |-> q,
                      answer |-> HandoffRefusal(q), row |-> NoTurn]
  <2>1. call \in CallStates /\ call.answer # "done"
    BY <1>0, RefusalTyped DEF CallStates, AnsweredCalls, Refusals
  <2>2. turnCalls' = [turnCalls EXCEPT ![p] = call]
    BY <1>1 DEF RefuseHandoff, Answered
  <2> HIDE DEF call
  <2>3. QED
    BY <1>1, <2>1, <2>2, CallsStep DEF RefuseHandoff
<1>2. CASE ReplayHandoff(p)
  <2>1. PICK i \in StoredUnder(q) : i.fingerprint = RequestFingerprint(q)
    BY <1>2 DEF ReplayHandoff, ReplaysStored
  <2>2. PICK j \in StoredUnder(q) : Answered(p, "done", j.result)
    BY <1>2 DEF ReplayHandoff
  <2> DEFINE call == [at |-> "answered", request |-> q, answer |-> "done", row |-> j.result]
  <2>3. j.result \in TurnRows
    BY DEF TInv, KeysAgreeWithAudit, StoredUnder, TurnTypeOK
  <2>4. call \in CallStates /\ call.request = q
    BY <1>0, <2>3 DEF CallStates, AnsweredCalls
  <2>5. turnCalls' = [turnCalls EXCEPT ![p] = call]
    BY <2>2 DEF Answered
  <2>6. \E r \in turnAudit : /\ r.conv = q.conv /\ r.key = q.key
                             /\ r.from = q.agent /\ r.to = q.to /\ r.epoch = q.epoch + 1
    <3>1. i \in turnIdempotency /\ i.conv = q.conv /\ i.key = q.key
      BY DEF StoredUnder
    <3>2. /\ i.fingerprint[1] = q.agent /\ i.fingerprint[2] = q.to
          /\ i.fingerprint[3] = q.epoch
      BY <2>1 DEF RequestFingerprint
    <3>3. QED
      BY <3>1, <3>2 DEF TInv, KeysAgreeWithAudit
  <2> HIDE DEF call
  <2>7. QED
    BY <1>2, <2>4, <2>5, <2>6, CallsStep DEF ReplayHandoff
<1>3. QED
  BY <1>1, <1>2

\* seed() starts a new life: the audit has no row of it yet.
LEMMA SeedStep ==
  ASSUME TInv, NEW c \in Conversations, NEW a \in Agents, SeedTurn(c, a)
  PROVE  TInv'
<1> USE DEF TInv
<1> DEFINE row == [conv |-> c, owner |-> a, state |-> "ACTIVE", epoch |-> 0,
                   previous |-> NoAgent, life |-> turnSeeds[c] + 1]
<1>u. /\ UNCHANGED <<turnAudit, turnOutbox, turnIdempotency, turnCalls>>
      /\ turnState' = [turnState EXCEPT ![c] = row]
      /\ turnSeeds[c] < MaxSeeds /\ turnSeeds[c] \in 0..MaxSeeds
      /\ turnSeeds' = [turnSeeds EXCEPT ![c] = turnSeeds[c] + 1]
  BY TurnTyped DEF SeedTurn
<1>1. row \in TurnRows /\ row.conv = c /\ row.epoch = 0 /\ row.life = turnSeeds[c] + 1
  BY <1>u, TurnTyped DEF TurnRows
<1> HIDE DEF row
<1>2. /\ turnState' \in [Conversations -> TurnRows \cup {NoTurn}] /\ turnState'[c] = row
      /\ turnSeeds' \in [Conversations -> 0..MaxSeeds] /\ turnSeeds'[c] = turnSeeds[c] + 1
      /\ \A d \in Conversations \ {c} :
           turnState'[d] = turnState[d] /\ turnSeeds'[d] = turnSeeds[d]
  BY <1>u, <1>1, TurnTyped DEF TurnTypeOK
<1>3. TurnTypeOK'
  BY <1>u, <1>2 DEF TurnTypeOK
<1>4. LivesAgree'
  BY <1>u, <1>1, <1>2, TurnTyped DEF LivesAgree
<1>5. TurnsFormAChain'
  <2>1. ThisLife(c)' = {}
    BY <1>u, <1>2, TurnTyped DEF ThisLife, LivesAgree
  <2>2. \A d \in Conversations \ {c} : ThisLife(d)' = ThisLife(d)
    BY <1>u, <1>2 DEF ThisLife
  <2>3. ASSUME NEW d \in Conversations, turnState'[d] # NoTurn
        PROVE  /\ {r.epoch : r \in ThisLife(d)'} = 1..turnState'[d].epoch
               /\ \A r, s \in ThisLife(d)' :
                    /\ r.epoch = s.epoch => r = s
                    /\ s.epoch = r.epoch + 1 => s.from = r.to
               /\ \A r \in ThisLife(d)' : r.epoch = turnState'[d].epoch =>
                    r.to = turnState'[d].owner /\ r.from = turnState'[d].previous
    <3>1. CASE d = c
      BY <1>1, <1>2, <2>1, <3>1
    <3>2. CASE d # c
      BY <1>2, <2>2, <2>3, <3>2 DEF TurnsFormAChain
    <3>3. QED
      BY <3>1, <3>2
  <2>4. QED
    BY <2>3 DEF TurnsFormAChain
<1>6. QED
  BY <1>u, <1>3, <1>4, <1>5 DEF KeysAgreeWithAudit, SameSize, AnswersAreTrue

\* handoff() takes effect: one row in each of the tables, the next of its chain.
LEMMA ApplyStep ==
  ASSUME TInv, NEW p \in Callers, ApplyHandoff(p)
  PROVE  TInv'
<1> USE DEF TInv
<1>1. PICK q \in HandoffRequests : q = turnCalls[p].request
  BY TurnTyped DEF ApplyHandoff
<1>2. PICK c \in Conversations : c = q.conv
  BY DEF HandoffRequests
<1>3. PICK row : row = HandedOff(q)
  OBVIOUS
<1>4. PICK audit : audit = [conv |-> c, from |-> row.previous, to |-> q.to,
                            epoch |-> row.epoch, key |-> q.key, life |-> row.life]
  OBVIOUS
<1>5. PICK idem : idem = [conv |-> c, key |-> q.key,
                          fingerprint |-> RequestFingerprint(q), result |-> row]
  OBVIOUS
<1>6. PICK call : call = [at |-> "answered", request |-> q, answer |-> "done", row |-> row]
  OBVIOUS
<1>u. /\ MayHandOff(q) /\ turnState[c].epoch < MaxEpoch
      /\ turnState' = [turnState EXCEPT ![c] = row]
      /\ turnAudit' = turnAudit \cup {audit}
      /\ turnOutbox' = turnOutbox \cup {row}
      /\ turnIdempotency' = turnIdempotency \cup {idem}
      /\ turnCalls' = [turnCalls EXCEPT ![p] = call]
      /\ turnSeeds' = turnSeeds
  BY <1>1, <1>2, <1>3, <1>4, <1>5, <1>6 DEF ApplyHandoff, Answered
<1>7. /\ turnState[c] # NoTurn /\ turnState[c] \in TurnRows
      /\ turnState[c].owner = q.agent /\ turnState[c].epoch = q.epoch
      /\ q.epoch \in 0..MaxEpoch /\ turnState[c].life = turnSeeds[c] /\ turnState[c].conv = c
      /\ q.agent \in Agents /\ q.to \in Agents /\ q.key \in Keys
      /\ turnState[c].life \in 1..MaxSeeds
      /\ \A i \in turnIdempotency : ~(i.conv = c /\ i.key = q.key)
  BY <1>u, <1>2, TurnTyped DEF MayHandOff, StoredUnder, LivesAgree, HandoffRequests, TurnRows
<1>8. /\ row \in TurnRows /\ row.conv = c /\ row.life = turnSeeds[c]
      /\ row.epoch = q.epoch + 1 /\ row.owner = q.to /\ row.previous = q.agent
  <2>1. row = [conv |-> turnState[c].conv, owner |-> q.to, state |-> "HANDED_OFF",
               epoch |-> turnState[c].epoch + 1, previous |-> turnState[c].owner,
               life |-> turnState[c].life]
    BY <1>2, <1>3, <1>7 DEF HandedOff, TurnRows
  <2>2. QED
    BY <2>1, <1>7, <1>u, TurnTyped DEF TurnRows
<1>9. /\ audit \in AuditRows /\ audit.conv = c /\ audit.from = q.agent /\ audit.to = q.to
      /\ audit.epoch = q.epoch + 1 /\ audit.key = q.key /\ audit.life = turnSeeds[c]
  BY <1>4, <1>7, <1>8, <1>u, TurnTyped DEF AuditRows
<1>10. /\ idem.conv = c /\ idem.key = q.key /\ idem.result = row
       /\ idem.fingerprint[1] = q.agent /\ idem.fingerprint[2] = q.to
       /\ idem.fingerprint[3] = q.epoch
  BY <1>5 DEF RequestFingerprint
<1>11. call \in AnsweredCalls /\ call \in CallStates /\ call.request = q
  BY <1>6, <1>8 DEF CallStates, AnsweredCalls
<1>12. /\ turnState' \in [Conversations -> TurnRows \cup {NoTurn}] /\ turnState'[c] = row
       /\ \A d \in Conversations \ {c} : turnState'[d] = turnState[d]
       /\ turnCalls' \in [Callers -> CallStates] /\ turnCalls'[p] = call
       /\ \A o \in Callers \ {p} : turnCalls'[o] = turnCalls[o]
  BY <1>u, <1>8, <1>11 DEF TurnTypeOK
<1>13. TurnTypeOK'
  <2>1. turnAudit' \subseteq AuditRows /\ turnOutbox' \subseteq TurnRows
    BY <1>u, <1>8, <1>9 DEF TurnTypeOK
  <2>2. \A o \in Callers : \/ turnCalls'[o] = [at |-> "idle"]
                           \/ turnCalls'[o] \in AskedCalls \/ turnCalls'[o] \in AnsweredCalls
    BY <1>12 DEF CallStates
  <2>3. QED
    BY <1>u, <1>12, <2>1, <2>2 DEF TurnTypeOK, AskedCalls, AnsweredCalls
<1>14. LivesAgree'
  BY <1>u, <1>8, <1>9, <1>12, TurnTyped DEF LivesAgree
<1>15. TurnsFormAChain'
  <2>1. ThisLife(c)' = ThisLife(c) \cup {audit}
    BY <1>u, <1>9 DEF ThisLife
  <2>2. \A d \in Conversations \ {c} : ThisLife(d)' = ThisLife(d)
    BY <1>u, <1>9 DEF ThisLife
  <2>3. /\ {r.epoch : r \in ThisLife(c)} = 1..q.epoch
        /\ \A r, s \in ThisLife(c) : /\ r.epoch = s.epoch => r = s
                                     /\ s.epoch = r.epoch + 1 => s.from = r.to
        /\ \A r \in ThisLife(c) : r.epoch = q.epoch => r.to = q.agent
    BY <1>7 DEF TurnsFormAChain
  <2>4. \A r \in ThisLife(c) : r.epoch \in 1..q.epoch
    BY <2>3
  <2>5. {r.epoch : r \in ThisLife(c) \cup {audit}} = 1..(q.epoch + 1)
    <3>1. {r.epoch : r \in ThisLife(c) \cup {audit}} = 1..q.epoch \cup {q.epoch + 1}
      BY <1>9, <2>3
    <3>2. QED
      BY <1>7, <3>1
  <2>6. \A r, s \in ThisLife(c) \cup {audit} : /\ r.epoch = s.epoch => r = s
                                               /\ s.epoch = r.epoch + 1 => s.from = r.to
    BY <1>7, <1>9, <2>3, <2>4
  <2>7. \A r \in ThisLife(c) \cup {audit} : r.epoch = q.epoch + 1 => r.to = q.to /\ r.from = q.agent
    BY <1>7, <1>9, <2>4
  <2>8. ASSUME NEW d \in Conversations, turnState'[d] # NoTurn
        PROVE  /\ {r.epoch : r \in ThisLife(d)'} = 1..turnState'[d].epoch
               /\ \A r, s \in ThisLife(d)' :
                    /\ r.epoch = s.epoch => r = s
                    /\ s.epoch = r.epoch + 1 => s.from = r.to
               /\ \A r \in ThisLife(d)' : r.epoch = turnState'[d].epoch =>
                    r.to = turnState'[d].owner /\ r.from = turnState'[d].previous
    <3>1. CASE d = c
      BY <1>8, <1>12, <2>1, <2>5, <2>6, <2>7, <3>1
    <3>2. CASE d # c
      BY <1>12, <2>2, <2>8, <3>2 DEF TurnsFormAChain
    <3>3. QED
      BY <3>1, <3>2
  <2>9. QED
    BY <2>8 DEF TurnsFormAChain
<1>16. audit \notin turnAudit /\ idem \notin turnIdempotency
       /\ \A r \in turnAudit : ~(r.conv = c /\ r.key = q.key)
  BY <1>7, <1>9, <1>10 DEF KeysAgreeWithAudit
<1>17. KeysAgreeWithAudit'
  <2>1. \A i \in turnIdempotency' :
          /\ i.result \in turnOutbox'
          /\ \E r \in turnAudit' : /\ r.conv = i.conv /\ r.key = i.key
                                   /\ r.epoch = i.result.epoch
                                   /\ i.fingerprint[1] = r.from /\ i.fingerprint[2] = r.to
                                   /\ r.epoch = i.fingerprint[3] + 1
    <3>1. /\ idem.result \in turnOutbox' /\ audit \in turnAudit'
          /\ audit.conv = idem.conv /\ audit.key = idem.key
          /\ audit.epoch = idem.result.epoch
          /\ idem.fingerprint[1] = audit.from /\ idem.fingerprint[2] = audit.to
          /\ audit.epoch = idem.fingerprint[3] + 1
      BY <1>u, <1>8, <1>9, <1>10
    <3>2. QED
      BY <1>u, <3>1 DEF KeysAgreeWithAudit
  <2>2. \A r \in turnAudit' : \E i \in turnIdempotency' : i.conv = r.conv /\ i.key = r.key
    BY <1>u, <1>9, <1>10 DEF KeysAgreeWithAudit
  <2>3. \A r, s \in turnAudit' : r.conv = s.conv /\ r.key = s.key => r = s
    BY <1>u, <1>9, <1>16 DEF KeysAgreeWithAudit
  <2>4. QED
    BY <2>1, <2>2, <2>3 DEF KeysAgreeWithAudit
<1>18. SameSize'
  <2>1. /\ IsFiniteSet(turnAudit \cup {audit})
        /\ Cardinality(turnAudit \cup {audit}) = Cardinality(turnAudit) + 1
    BY <1>16, FS_AddElement DEF SameSize
  <2>2. /\ IsFiniteSet(turnIdempotency \cup {idem})
        /\ Cardinality(turnIdempotency \cup {idem}) = Cardinality(turnIdempotency) + 1
    BY <1>16, FS_AddElement DEF SameSize
  <2>3. QED
    BY <1>u, <2>1, <2>2 DEF SameSize
<1>19. AnswersAreTrue'
  <2>1. audit \in turnAudit'
    BY <1>u
  <2>2. ASSUME NEW o \in Callers, turnCalls'[o].at = "answered", turnCalls'[o].answer = "done"
        PROVE  \E r \in turnAudit' :
                 /\ r.conv = turnCalls'[o].request.conv /\ r.key = turnCalls'[o].request.key
                 /\ r.from = turnCalls'[o].request.agent /\ r.to = turnCalls'[o].request.to
                 /\ r.epoch = turnCalls'[o].request.epoch + 1
    <3>1. CASE o = p
      BY <1>2, <1>9, <1>11, <1>12, <2>1, <3>1
    <3>2. CASE o # p
      BY <1>u, <1>12, <2>2, <3>2 DEF AnswersAreTrue
    <3>3. QED
      BY <3>1, <3>2
  <2>3. QED
    BY <2>2 DEF AnswersAreTrue
<1>20. QED
  BY <1>12, <1>13, <1>14, <1>15, <1>17, <1>18, <1>19

\* server/edge1_operator_turn_state.py, for any agents, conversations, callers and
\* keys: whoever loses an answer, reuses a key or asks from a stale status(), the
\* epochs of a conversation form one chain, each key takes effect once and each caller
\* is told the truth.
THEOREM TurnsStayAccounted == TurnSpec => []TurnsAreAccounted
<1>1. TInv /\ [TurnNext]_turnVars => TInv'
  <2> SUFFICES ASSUME TInv, [TurnNext]_turnVars PROVE TInv'
    OBVIOUS
  <2>1. ASSUME NEW c \in Conversations, NEW a \in Agents, SeedTurn(c, a)
        PROVE  TInv'
    BY <2>1, SeedStep
  <2>2. ASSUME NEW p \in Callers,
               (\E q \in HandoffRequests : AskHandoff(p, q)) \/ RetryHandoff(p) \/ AcceptAnswer(p)
        PROVE  TInv'
    BY <2>2, AskStep
  <2>3. ASSUME NEW p \in Callers, ReplayHandoff(p) \/ RefuseHandoff(p) \/ ApplyHandoff(p)
        PROVE  TInv'
    BY <2>3, AnswerStep, ApplyStep
  <2>4. ASSUME UNCHANGED turnVars
        PROVE  TInv'
    BY <2>4 DEF turnVars, TInv, TurnTypeOK, LivesAgree, TurnsFormAChain, ThisLife,
                KeysAgreeWithAudit, SameSize, AnswersAreTrue
  <2>5. QED
    BY <2>1, <2>2, <2>3, <2>4 DEF TurnNext
<1>2. TInv => TurnsAreAccounted
  BY DEF TInv, TurnsAreAccounted, OneEffectPerKey, KeysAgreeWithAudit, SameSize
<1>3. QED
  BY InitTInv, <1>1, <1>2, PTL DEF TurnSpec
----------------------------------------------------------------------------
\* SecurityAuth: sessions and the guards of actions.

\* A request as the threads keep it.
AuthReqs ==
  [at : AuthSteps, kind : {"none", "console", "account", "page", "action", "logout"},
   sid : 0..MaxSessions, from : Assertions \cup {"none"}, stamp : AuthTimes,
   begun : AuthTimes \cup {Unset}]

\* Requests that make a session of their own, and requests that use one they were
\* given the token of.
Making(r) ==
  \/ authReq[r].at \in {"audit", "create", "csrf", "account"}
  \/ authReq[r].at = "revoke" /\ authReq[r].kind = "account"
Using(r) ==
  \/ authReq[r].at \in {"resolve", "checked", "begin"} \cup Acting
  \/ authReq[r].at = "revoke" /\ authReq[r].kind # "account"

\* Where a request stands says which of its fields are set, and its clock reading
\* is not of the future.
RequestsTyped ==
  /\ authReq \in [AuthRequests -> AuthReqs]
  /\ \A r \in AuthRequests :
       /\ authReq[r].stamp <= authNow
       /\ authReq[r].at \in {"consume", "audit", "create"} => authReq[r].from \in Assertions
       /\ authReq[r].at \in {"audit", "create"} \cup Acting => authReq[r].begun \in AuthTimes
       /\ authReq[r].at = "account" => authReq[r].kind = "account"
       /\ Using(r) => authReq[r].sid \in authHeld

\* A session in the making belongs to one request, and nobody has its token yet.
MakersAreAlone ==
  /\ \A s \in SessionIds : AuthRow(s) # NoSession => s <= authIssued
  /\ \A r \in AuthRequests : Making(r) =>
       /\ authReq[r].sid \in 1..authIssued /\ authReq[r].sid \notin authHeld
       /\ authReq[r].at \in {"audit", "create"} <=> AuthRow(authReq[r].sid) = NoSession
       /\ authReq[r].at = "csrf" => ~AuthRow(authReq[r].sid).revoked
       /\ authReq[r].at # "audit" => authReq[r].sid \in authLogins
  /\ \A q, r \in AuthRequests : q # r /\ Making(q) /\ Making(r) =>
       authReq[q].sid # authReq[r].sid

\* Session s was made, or is being made, from assertion a consumed at time t.
BornFrom(s, a, t) ==
  \/ AuthRow(s) # NoSession /\ AuthRow(s).from = a /\ AuthRow(s).born = t
  \/ \E r \in AuthRequests : /\ authReq[r].at \in {"audit", "create"}
                             /\ authReq[r].sid = s /\ authReq[r].from = a
                             /\ authReq[r].begun = t

\* Until it expires an assertion stays in the replay table once it was consumed,
\* and is consumed once.
ConsumedOnce ==
  \A s \in SessionIds, a \in Assertions, t \in AuthTimes :
    BornFrom(s, a, t) /\ t <= AssertionExpiry[a] =>
      /\ a \in authSpent \/ authNow > AssertionExpiry[a]
      /\ \A u \in SessionIds, v \in AuthTimes :
           BornFrom(u, a, v) /\ v <= AssertionExpiry[a] => u = s

\* A call is guarded from its begin_action() to its finish_action(): the guard's row
\* is that of the call, younger than the in-flight timeout, and there is no second one.
CallsAreGuarded ==
  /\ \A r \in AuthRequests :
       /\ authReq[r].at \in Acting =>
            /\ authGuards[authReq[r].sid].started = authReq[r].begun
            /\ authGuards[authReq[r].sid].completed = Unset
            /\ authReq[r].begun <= authNow /\ authNow - authReq[r].begun <= CallMax
       /\ authReq[r].at = "begin" => authNow - authReq[r].stamp <= CallMax
  /\ \A q, r \in AuthRequests :
       q # r /\ authReq[q].at \in Acting /\ authReq[r].at \in Acting =>
         authReq[q].sid # authReq[r].sid

AInv ==
  /\ AuthTypeOK /\ RequestsTyped /\ MakersAreAlone /\ ConsumedOnce
  /\ SessionsAreAudited /\ CsrfFollowsSession /\ CallsAreGuarded
----------------------------------------------------------------------------
\* The constants are numbers, and a row of a session is not the lack of one.
LEMMA AuthNumbers ==
  /\ AuthIdle \in Nat /\ AuthAbsolute \in Nat /\ InFlight \in Nat /\ Cooldown \in Nat
  /\ MaxSessions \in Nat /\ MaxAuthTime \in Nat /\ ClockSkew \in Nat
  /\ CallMax \in Nat /\ CallMax < InFlight
  /\ \A a \in Assertions : AssertionExpiry[a] \in Nat
  /\ AuthTimes \subseteq Nat /\ Unset \notin AuthTimes
BY AuthBounds DEF AuthTimes, Unset

\* A row of a session is not the lack of one.
LEMMA RowIsNoSession == NoSession \notin SessionRows
<1> SUFFICES ASSUME NoSession \in SessionRows PROVE FALSE
  OBVIOUS
<1>1. DOMAIN NoSession = {"from", "born", "expires", "seen", "revoked"}
  BY DEF SessionRows
<1>2. DOMAIN NoSession = {"from"}
  BY DEF NoSession
<1>3. QED
  BY <1>1, <1>2

\* The fields of a request in any state.
LEMMA ReqFields ==
  ASSUME AInv, NEW r \in AuthRequests
  PROVE  /\ authReq[r] \in AuthReqs /\ authReq[r].at \in AuthSteps
         /\ authReq[r].sid \in 0..MaxSessions /\ authReq[r].stamp \in AuthTimes
         /\ authReq[r].begun \in AuthTimes \cup {Unset}
         /\ authNow \in AuthTimes /\ authNow \in Nat /\ authReq[r].stamp \in Nat
         /\ authReq[r].stamp <= authNow
         /\ Using(r) => /\ authReq[r].sid \in SessionIds
                        /\ AuthRow(authReq[r].sid) \in SessionRows
         /\ Making(r) => authReq[r].sid \in SessionIds
<1>1. /\ authReq[r] \in AuthReqs /\ authReq[r].stamp <= authNow
      /\ Using(r) => authReq[r].sid \in authHeld
  BY DEF AInv, RequestsTyped
<1>2. /\ authReq[r].at \in AuthSteps
      /\ authReq[r].sid \in 0..MaxSessions /\ authReq[r].stamp \in AuthTimes
      /\ authReq[r].begun \in AuthTimes \cup {Unset}
  BY <1>1 DEF AuthReqs
<1>3. Using(r) => /\ authReq[r].sid \in SessionIds
                  /\ AuthRow(authReq[r].sid) \in SessionRows
  BY <1>1 DEF AInv, AuthTypeOK, AuthRow
<1>4. Making(r) => authReq[r].sid \in SessionIds
  BY AuthNumbers DEF AInv, MakersAreAlone, SessionIds, AuthTypeOK
<1>5. QED
  BY <1>1, <1>2, <1>3, <1>4, AuthNumbers DEF AInv, AuthTypeOK

\* The empty store satisfies the invariant.
LEMMA InitAInv == AuthInit => AInv
<1> SUFFICES ASSUME AuthInit PROVE AInv
  OBVIOUS
<1>1. IdleReq \in AuthReqs /\ IdleReq.at = "idle" /\ IdleReq.stamp = 0
  BY AuthNumbers DEF IdleReq, AuthReqs, AuthSteps, AuthTimes, Unset
<1>2. \A r \in AuthRequests : authReq[r] = IdleReq
  BY DEF AuthInit
<1>3. \A r \in AuthRequests : /\ authReq[r].at = "idle" /\ ~Making(r) /\ ~Using(r)
                              /\ authReq[r].at \notin Acting
  BY <1>1, <1>2 DEF Making, Using, Acting
<1>4. \A s \in SessionIds : AuthRow(s) = NoSession
  BY DEF AuthInit, AuthRow
<1>5. AuthTypeOK
  <2>1. NoGuard \in [started : AuthTimes \cup {Unset}, completed : AuthTimes \cup {Unset}]
    BY DEF NoGuard
  <2>2. QED
    BY <1>3, <2>1, AuthNumbers DEF AuthTypeOK, AuthInit, AuthTimes, AuthSteps
<1>6. RequestsTyped
  BY <1>1, <1>2, <1>3 DEF RequestsTyped, AuthInit
<1>7. MakersAreAlone /\ ConsumedOnce /\ CallsAreGuarded
  BY <1>3, <1>4 DEF MakersAreAlone, ConsumedOnce, BornFrom, CallsAreGuarded
<1>8. QED
  BY <1>4, <1>5, <1>6, <1>7 DEF AInv, SessionsAreAudited, CsrfFollowsSession, AuthInit

\* A request may move to: its end; the consumption of an assertion; a step on a
\* session whose token it was given; from one step of a run to the next; or the end
\* of the session it made.
MovesTo(r) ==
  \/ authReq'[r].at = "idle"
  \/ authReq'[r].at = "consume" /\ authReq'[r].from \in Assertions
  \/ /\ \/ authReq'[r].at \in {"resolve", "checked", "begin"}
        \/ authReq'[r].at = "revoke" /\ authReq'[r].kind # "account"
     /\ authReq'[r].sid \in authHeld
     /\ authReq'[r].at = "begin" => authNow - authReq'[r].stamp <= CallMax
  \/ /\ authReq[r].at \in Acting /\ authReq'[r].at \in Acting
     /\ authReq'[r].sid = authReq[r].sid /\ authReq'[r].begun = authReq[r].begun
  \/ /\ Making(r) /\ authReq[r].at = "account"
     /\ authReq'[r].at = "revoke" /\ authReq'[r].kind = "account"
     /\ authReq'[r].sid = authReq[r].sid

\* A step in which a request moves on and rows of sessions are at most touched or
\* revoked, the form token with them, keeps the invariant.
LEMMA MoveStep ==
  ASSUME AInv, NEW r \in AuthRequests,
         UNCHANGED <<authNow, authSpent, authIssued, authLogins, authHeld, authGuards>>,
         authReq' \in [AuthRequests -> AuthReqs], authReq'[r].stamp <= authNow,
         \A q \in AuthRequests : q # r => authReq'[q] = authReq[q],
         MovesTo(r),
         authSessions' \in [SessionIds -> SessionRows \cup {NoSession}],
         \A s \in SessionIds :
           /\ authSessions'[s] = NoSession <=> AuthRow(s) = NoSession
           /\ AuthRow(s) # NoSession => /\ authSessions'[s].from = AuthRow(s).from
                                        /\ authSessions'[s].born = AuthRow(s).born
           /\ s \in authHeld \/ authSessions'[s] = AuthRow(s)
                \/ (Making(r) /\ s = authReq[r].sid),
         authCsrf' \subseteq authCsrf,
         \A s \in authCsrf' : ~authSessions'[s].revoked
  PROVE  AInv'
<1> USE DEF AInv
<1>1. AuthTypeOK'
  <2>1. \A q \in AuthRequests : authReq'[q].at \in AuthSteps
    BY DEF AuthReqs
  <2>2. QED
    BY <2>1 DEF AuthTypeOK, AuthRow
<1>2. \A q \in AuthRequests : q # r => (Making(q)' <=> Making(q)) /\ (Using(q)' <=> Using(q))
  BY DEF Making, Using
<1>3. /\ Using(r)' => authReq'[r].sid \in authHeld
      /\ Making(r)' => /\ Making(r) /\ authReq[r].at = "account" /\ authReq'[r].at = "revoke"
                       /\ authReq'[r].sid = authReq[r].sid
      /\ authReq'[r].at \notin {"audit", "create"}
      /\ authReq'[r].at # "account"
      /\ authReq'[r].at = "consume" => authReq'[r].from \in Assertions
  BY ReqFields DEF MovesTo, Making, Using, Acting, RequestsTyped
<1>4. authReq'[r].at \in Acting => /\ authReq[r].at \in Acting
                                   /\ authReq'[r].sid = authReq[r].sid
                                   /\ authReq'[r].begun = authReq[r].begun
  BY DEF MovesTo, Acting
<1>5. RequestsTyped'
  BY <1>2, <1>3, <1>4 DEF RequestsTyped
<1>6. MakersAreAlone'
  <2>1. \A s \in SessionIds : AuthRow(s)' # NoSession => s <= authIssued'
    BY DEF MakersAreAlone, AuthRow
  <2>2. ASSUME NEW q \in AuthRequests, Making(q)'
        PROVE  /\ Making(q) /\ authReq'[q].sid = authReq[q].sid /\ authReq[q].sid \in SessionIds
               /\ authReq'[q].at \in {"audit", "create"} <=> authReq[q].at \in {"audit", "create"}
               /\ authReq'[q].at = "csrf" => authReq[q].at = "csrf" /\ q # r
               /\ authReq'[q].at # "audit" => authReq[q].at # "audit"
    BY <1>2, <1>3, <2>2, ReqFields
  <2>3. ASSUME NEW q \in AuthRequests, Making(q)', authReq'[q].at = "csrf"
        PROVE  ~authSessions'[authReq'[q].sid].revoked
    <3>1. q # r /\ authReq[q].at = "csrf" /\ authReq[q].sid = authReq'[q].sid
      BY <2>2, <2>3
    <3>2. ~(Making(r) /\ authReq[q].sid = authReq[r].sid) /\ authReq[q].sid \notin authHeld
      BY <2>2, <2>3, <3>1 DEF MakersAreAlone
    <3>3. QED
      BY <2>2, <2>3, <3>1, <3>2 DEF MakersAreAlone, AuthRow
  <2>4. QED
    BY <2>1, <2>2, <2>3 DEF MakersAreAlone, AuthRow
<1>7. ConsumedOnce'
  <2>1. ASSUME NEW s \in SessionIds, NEW a, NEW t, BornFrom(s, a, t)'
        PROVE  BornFrom(s, a, t)
    BY <1>3, <2>1 DEF BornFrom, AuthRow
  <2>2. QED
    BY <2>1 DEF ConsumedOnce
<1>8. SessionsAreAudited' /\ CsrfFollowsSession'
  BY DEF SessionsAreAudited, CsrfFollowsSession, AuthRow, AuthTypeOK
<1>9. CallsAreGuarded'
  <2>1. authReq'[r].at = "begin" => authNow - authReq'[r].stamp <= CallMax
    BY DEF MovesTo, Acting
  <2>2. QED
    BY <1>4, <2>1 DEF CallsAreGuarded
<1>10. QED
  BY <1>1, <1>5, <1>6, <1>7, <1>8, <1>9

\* Requests that begin, and the steps that only move one on.
LEMMA PlainMoves ==
  ASSUME AInv, NEW r \in AuthRequests,
         UNCHANGED <<authNow, authSpent, authSessions, authIssued, authLogins, authHeld,
                     authCsrf, authGuards>>,
         authReq' \in [AuthRequests -> AuthReqs], authReq'[r].stamp <= authNow,
         \A q \in AuthRequests : q # r => authReq'[q] = authReq[q],
         MovesTo(r)
  PROVE  AInv'
<1>1. /\ authSessions \in [SessionIds -> SessionRows \cup {NoSession}]
      /\ \A s \in authCsrf : ~authSessions[s].revoked
  BY DEF AInv, AuthTypeOK, CsrfFollowsSession, AuthRow
<1>2. QED
  BY <1>1, MoveStep DEF AuthRow

\* EndRequest() writes the idle record over the thread's own.
LEMMA Ended ==
  ASSUME AInv, NEW r \in AuthRequests, EndRequest(r)
  PROVE  /\ authReq' \in [AuthRequests -> AuthReqs] /\ authReq'[r].stamp <= authNow
         /\ \A q \in AuthRequests : q # r => authReq'[q] = authReq[q]
         /\ authReq'[r].at = "idle" /\ MovesTo(r)
<1>1. IdleReq \in AuthReqs /\ IdleReq.at = "idle" /\ IdleReq.stamp = 0
  BY AuthNumbers DEF IdleReq, AuthReqs, AuthSteps, AuthTimes, Unset
<1>2. /\ authReq' \in [AuthRequests -> AuthReqs] /\ authReq'[r] = IdleReq
      /\ \A q \in AuthRequests : q # r => authReq'[q] = authReq[q]
  BY <1>1 DEF EndRequest, AInv, RequestsTyped
<1>3. QED
  BY <1>1, <1>2, ReqFields DEF MovesTo

\* Advance() writes the step of a request and nothing else of it.
LEMMA Advanced ==
  ASSUME AInv, NEW r \in AuthRequests, NEW step \in AuthSteps, Advance(r, step)
  PROVE  /\ authReq' \in [AuthRequests -> AuthReqs] /\ authReq'[r].stamp <= authNow
         /\ \A q \in AuthRequests : q # r => authReq'[q] = authReq[q]
         /\ authReq'[r].at = step /\ authReq'[r].kind = authReq[r].kind
         /\ authReq'[r].sid = authReq[r].sid /\ authReq'[r].from = authReq[r].from
         /\ authReq'[r].begun = authReq[r].begun
<1>0. authReq \in [AuthRequests -> AuthReqs]
  BY DEF AInv, RequestsTyped
<1>1. authReq' = [authReq EXCEPT ![r] = [authReq[r] EXCEPT !.at = step]]
  BY DEF Advance
<1>2. QED
  BY <1>0, <1>1, ReqFields DEF AuthReqs

\* AdvanceNow() reads the clock again.
LEMMA AdvancedNow ==
  ASSUME AInv, NEW r \in AuthRequests, NEW step \in AuthSteps, AdvanceNow(r, step)
  PROVE  /\ authReq' \in [AuthRequests -> AuthReqs] /\ authReq'[r].stamp = authNow
         /\ \A q \in AuthRequests : q # r => authReq'[q] = authReq[q]
         /\ authReq'[r].at = step /\ authReq'[r].kind = authReq[r].kind
         /\ authReq'[r].sid = authReq[r].sid /\ authReq'[r].from = authReq[r].from
         /\ authReq'[r].begun = authReq[r].begun
<1>0. authReq \in [AuthRequests -> AuthReqs]
  BY DEF AInv, RequestsTyped
<1>1. authReq' = [authReq EXCEPT ![r] = [[authReq[r] EXCEPT !.at = step] EXCEPT !.stamp = authNow]]
  BY <1>0 DEF AdvanceNow, AuthReqs
<1>2. QED
  BY <1>0, <1>1, ReqFields DEF AuthReqs

\* A request begins, with an assertion or with a token.
LEMMA BeginSteps ==
  ASSUME AInv, NEW r \in AuthRequests,
         \/ \E a \in Assertions, k \in {"console", "account"} : BeginExchange(r, a, k)
         \/ \E s \in SessionIds, k \in {"page", "action", "logout"} : BeginRequest(r, s, k)
  PROVE  AInv'
<1>0. authReq \in [AuthRequests -> AuthReqs] /\ authNow \in AuthTimes /\ authNow <= authNow
      /\ authHeld \subseteq SessionIds
  BY AuthNumbers DEF AInv, RequestsTyped, AuthTypeOK
<1>i. IdleReq \in AuthReqs
  BY AuthNumbers DEF IdleReq, AuthReqs, AuthSteps, AuthTimes, Unset
<1>1. ASSUME NEW a \in Assertions, NEW k \in {"console", "account"}, BeginExchange(r, a, k)
      PROVE  AInv'
  <2> DEFINE x == [IdleReq EXCEPT !.at = "consume", !.kind = k, !.from = a, !.stamp = authNow]
  <2>1. x \in AuthReqs /\ x.at = "consume" /\ x.from = a /\ x.stamp = authNow
    BY <1>0, <1>i DEF AuthReqs, AuthSteps
  <2>2. authReq' = [authReq EXCEPT ![r] = x]
    BY <1>1 DEF BeginExchange
  <2> HIDE DEF x
  <2>3. /\ authReq' \in [AuthRequests -> AuthReqs] /\ authReq'[r] = x
        /\ \A q \in AuthRequests : q # r => authReq'[q] = authReq[q]
    BY <1>0, <2>1, <2>2
  <2>4. MovesTo(r)
    BY <2>1, <2>3 DEF MovesTo
  <2>5. QED
    BY <1>0, <1>1, <2>1, <2>3, <2>4, PlainMoves DEF BeginExchange
<1>2. ASSUME NEW s \in SessionIds, NEW k \in {"page", "action", "logout"}, BeginRequest(r, s, k)
      PROVE  AInv'
  <2> DEFINE x == [IdleReq EXCEPT !.at = "resolve", !.kind = k, !.sid = s, !.stamp = authNow]
  <2>1. x \in AuthReqs /\ x.at = "resolve" /\ x.sid = s /\ x.stamp = authNow
    <3>1. s \in 0..MaxSessions
      BY AuthNumbers DEF SessionIds
    <3>2. QED
      BY <1>0, <1>i, <3>1 DEF AuthReqs, AuthSteps
  <2>2. authReq' = [authReq EXCEPT ![r] = x] /\ s \in authHeld
    BY <1>2 DEF BeginRequest
  <2> HIDE DEF x
  <2>3. /\ authReq' \in [AuthRequests -> AuthReqs] /\ authReq'[r] = x
        /\ \A q \in AuthRequests : q # r => authReq'[q] = authReq[q]
    BY <1>0, <2>1, <2>2
  <2>4. MovesTo(r)
    BY <2>1, <2>2, <2>3 DEF MovesTo
  <2>5. QED
    BY <1>0, <1>2, <2>1, <2>3, <2>4, PlainMoves DEF BeginRequest
<1>3. QED
  BY <1>1, <1>2

\* A request ends with nothing written: failures and refusals.
LEMMA EndSteps ==
  ASSUME AInv, NEW r \in AuthRequests,
         ExchangeFails(r) \/ RefuseRequest(r)
  PROVE  AInv'
<1>1. /\ EndRequest(r)
      /\ UNCHANGED <<authNow, authSpent, authSessions, authIssued, authLogins, authHeld,
                     authCsrf, authGuards>>
  BY DEF ExchangeFails, RefuseRequest
<1>2. QED
  BY <1>1, Ended, PlainMoves

\* A request goes on with nothing written.
LEMMA GoOnSteps ==
  ASSUME AInv, NEW r \in AuthRequests, EndAccount(r) \/ CheckCsrf(r) \/ CallEnds(r)
  PROVE  AInv'
<1>0. UNCHANGED <<authNow, authSpent, authSessions, authIssued, authLogins, authHeld,
                  authCsrf, authGuards>>
  BY DEF EndAccount, CheckCsrf, CallEnds
<1>f. /\ authNow \in Nat /\ CallMax \in Nat /\ authNow <= authNow /\ authNow - authNow <= CallMax
      /\ Using(r) => authReq[r].sid \in authHeld
  BY ReqFields, AuthNumbers DEF AInv, RequestsTyped
<1>1. CASE EndAccount(r)
  <2>1. authReq[r].at = "account" /\ Advance(r, "revoke") /\ "revoke" \in AuthSteps /\ Making(r)
    BY <1>1 DEF EndAccount, AuthSteps, Making
  <2>2. /\ authReq' \in [AuthRequests -> AuthReqs] /\ authReq'[r].stamp <= authNow
        /\ \A q \in AuthRequests : q # r => authReq'[q] = authReq[q]
        /\ authReq'[r].at = "revoke" /\ authReq'[r].kind = authReq[r].kind
        /\ authReq'[r].sid = authReq[r].sid
    BY <2>1, Advanced
  <2>3. authReq[r].kind = "account"
    BY <2>1 DEF AInv, RequestsTyped
  <2>4. MovesTo(r)
    BY <2>1, <2>2, <2>3 DEF MovesTo
  <2>5. QED
    BY <1>0, <2>2, <2>4, PlainMoves
<1>2. CASE CheckCsrf(r)
  <2>1. authReq[r].at = "checked" /\ authReq[r].sid \in authHeld
    BY <1>2, <1>f DEF CheckCsrf, Using
  <2>2. \/ EndRequest(r)
        \/ AdvanceNow(r, "begin")
        \/ authReq[r].kind = "logout" /\ AdvanceNow(r, "revoke")
    BY <1>2 DEF CheckCsrf
  <2>3. CASE EndRequest(r)
    BY <1>0, <2>3, Ended, PlainMoves
  <2>4. CASE AdvanceNow(r, "begin")
    <3>1. /\ authReq' \in [AuthRequests -> AuthReqs] /\ authReq'[r].stamp = authNow
          /\ \A q \in AuthRequests : q # r => authReq'[q] = authReq[q]
          /\ authReq'[r].at = "begin" /\ authReq'[r].sid = authReq[r].sid
      BY <2>4, AdvancedNow DEF AuthSteps
    <3>2. MovesTo(r)
      BY <1>f, <2>1, <3>1 DEF MovesTo
    <3>3. QED
      BY <1>0, <1>f, <3>1, <3>2, PlainMoves
  <2>5. CASE authReq[r].kind = "logout" /\ AdvanceNow(r, "revoke")
    <3>1. /\ authReq' \in [AuthRequests -> AuthReqs] /\ authReq'[r].stamp = authNow
          /\ \A q \in AuthRequests : q # r => authReq'[q] = authReq[q]
          /\ authReq'[r].at = "revoke" /\ authReq'[r].sid = authReq[r].sid
          /\ authReq'[r].kind = authReq[r].kind
      BY <2>5, AdvancedNow DEF AuthSteps
    <3>2. MovesTo(r)
      BY <1>f, <2>1, <2>5, <3>1 DEF MovesTo
    <3>3. QED
      BY <1>0, <1>f, <3>1, <3>2, PlainMoves
  <2>6. QED
    BY <2>2, <2>3, <2>4, <2>5
<1>3. CASE CallEnds(r)
  <2>1. PICK step \in {"correlate", "finish"} : AdvanceNow(r, step)
    BY <1>3 DEF CallEnds
  <2>2. authReq[r].at \in Acting /\ step \in Acting /\ step \in AuthSteps
    BY <1>3 DEF CallEnds, Acting, AuthSteps
  <2>3. /\ authReq' \in [AuthRequests -> AuthReqs] /\ authReq'[r].stamp = authNow
        /\ \A q \in AuthRequests : q # r => authReq'[q] = authReq[q]
        /\ authReq'[r].at = step /\ authReq'[r].sid = authReq[r].sid
        /\ authReq'[r].begun = authReq[r].begun
    BY <2>1, <2>2, AdvancedNow
  <2>4. MovesTo(r)
    BY <2>2, <2>3 DEF MovesTo
  <2>5. QED
    BY <1>0, <1>f, <2>3, <2>4, PlainMoves
<1>4. QED
  BY <1>1, <1>2, <1>3

\* resolve_session() touches the row of a session or revokes it with its form token.
LEMMA ResolvedRows ==
  ASSUME AInv, NEW s \in authHeld, NEW now \in AuthTimes, Resolved(s, now)
  PROVE  /\ authSessions' \in [SessionIds -> SessionRows \cup {NoSession}]
         /\ \A u \in SessionIds :
              /\ authSessions'[u] = NoSession <=> AuthRow(u) = NoSession
              /\ AuthRow(u) # NoSession => /\ authSessions'[u].from = AuthRow(u).from
                                           /\ authSessions'[u].born = AuthRow(u).born
              /\ u \in authHeld \/ authSessions'[u] = AuthRow(u)
         /\ authCsrf' \subseteq authCsrf
         /\ \A u \in authCsrf' : ~authSessions'[u].revoked
<1>1. PICK row \in SessionRows : row = AuthRow(s)
  BY DEF AInv, AuthTypeOK, AuthRow
<1>2. /\ s \in SessionIds /\ authSessions \in [SessionIds -> SessionRows \cup {NoSession}]
      /\ authCsrf \subseteq SessionIds /\ \A u \in authCsrf : ~authSessions[u].revoked
  BY DEF AInv, AuthTypeOK, CsrfFollowsSession, AuthRow
<1>3. /\ [row EXCEPT !.seen = now] \in SessionRows /\ [row EXCEPT !.revoked = TRUE] \in SessionRows
      /\ [row EXCEPT !.seen = now].from = row.from /\ [row EXCEPT !.seen = now].born = row.born
      /\ [row EXCEPT !.seen = now].revoked = row.revoked
      /\ [row EXCEPT !.revoked = TRUE].from = row.from
      /\ [row EXCEPT !.revoked = TRUE].born = row.born
  BY DEF SessionRows
<1>4. PICK new \in SessionRows :
        /\ authSessions' = [authSessions EXCEPT ![s] = new]
        /\ new.from = row.from /\ new.born = row.born
        /\ \/ authCsrf' = authCsrf /\ new.revoked = row.revoked
           \/ authCsrf' = authCsrf \ {s}
  <2>1. CASE Active(s, now)
    BY <1>1, <1>2, <1>3, <2>1 DEF Resolved, AuthRow
  <2>2. CASE ~Active(s, now)
    BY <1>1, <1>2, <1>3, <2>2 DEF Resolved, AuthRow
  <2>3. QED
    BY <2>1, <2>2
<1>5. /\ authSessions'[s] = new /\ \A u \in SessionIds : u # s => authSessions'[u] = authSessions[u]
      /\ authSessions' \in [SessionIds -> SessionRows \cup {NoSession}]
  BY <1>2, <1>4
<1>6. QED
  BY <1>1, <1>2, <1>4, <1>5, RowIsNoSession DEF AuthRow

\* authenticate_session(), at the start of a request and again for its audit line.
LEMMA ResolveSteps ==
  ASSUME AInv, NEW r \in AuthRequests, ResolveSession(r) \/ Correlate(r)
  PROVE  AInv'
<1>0. UNCHANGED <<authNow, authSpent, authIssued, authLogins, authHeld, authGuards>>
  BY DEF ResolveSession, Correlate
<1>f. /\ authReq[r].sid \in authHeld /\ authReq[r].stamp \in AuthTimes /\ authNow <= authNow
  BY ReqFields DEF AInv, RequestsTyped, Using, Acting, ResolveSession, Correlate
<1>1. /\ authSessions' \in [SessionIds -> SessionRows \cup {NoSession}]
      /\ \A u \in SessionIds :
           /\ authSessions'[u] = NoSession <=> AuthRow(u) = NoSession
           /\ AuthRow(u) # NoSession => /\ authSessions'[u].from = AuthRow(u).from
                                        /\ authSessions'[u].born = AuthRow(u).born
           /\ u \in authHeld \/ authSessions'[u] = AuthRow(u)
      /\ authCsrf' \subseteq authCsrf
      /\ \A u \in authCsrf' : ~authSessions'[u].revoked
  BY <1>f, ResolvedRows DEF ResolveSession, Correlate
<1>2. /\ authReq' \in [AuthRequests -> AuthReqs] /\ authReq'[r].stamp <= authNow
      /\ \A q \in AuthRequests : q # r => authReq'[q] = authReq[q]
      /\ MovesTo(r)
  <2>1. CASE EndRequest(r)
    BY <2>1, Ended
  <2>2. CASE ResolveSession(r) /\ Advance(r, "checked")
    <3>1. /\ authReq' \in [AuthRequests -> AuthReqs] /\ authReq'[r].stamp <= authNow
          /\ \A q \in AuthRequests : q # r => authReq'[q] = authReq[q]
          /\ authReq'[r].at = "checked" /\ authReq'[r].sid = authReq[r].sid
      BY <2>2, Advanced DEF AuthSteps
    <3>2. QED
      BY <1>f, <3>1 DEF MovesTo
  <2>3. CASE Correlate(r) /\ AdvanceNow(r, "finish")
    <3>1. /\ authReq' \in [AuthRequests -> AuthReqs] /\ authReq'[r].stamp = authNow
          /\ \A q \in AuthRequests : q # r => authReq'[q] = authReq[q]
          /\ authReq'[r].at = "finish" /\ authReq'[r].sid = authReq[r].sid
          /\ authReq'[r].begun = authReq[r].begun
      BY <2>3, AdvancedNow DEF AuthSteps
    <3>2. QED
      BY <1>f, <2>3, <3>1 DEF MovesTo, Acting, Correlate
  <2>4. QED
    BY <2>1, <2>2, <2>3 DEF ResolveSession, Correlate
<1>3. QED
  BY <1>0, <1>1, <1>2, MoveStep

\* logout(), done or failed.
LEMMA RevokeStep ==
  ASSUME AInv, NEW r \in AuthRequests, RevokeSession(r)
  PROVE  AInv'
<1>0. /\ UNCHANGED <<authNow, authSpent, authIssued, authLogins, authHeld, authGuards>>
      /\ EndRequest(r) /\ authReq[r].at = "revoke"
  BY DEF RevokeSession
<1>1. PICK s \in SessionIds : s = authReq[r].sid
  BY <1>0, ReqFields DEF Making, Using
<1>2. /\ Making(r) \/ s \in authHeld
      /\ AuthRow(s) # NoSession
  <2>1. CASE authReq[r].kind = "account"
    BY <1>0, <1>1, <2>1 DEF AInv, MakersAreAlone, Making
  <2>2. CASE authReq[r].kind # "account"
    BY <1>0, <1>1, <2>2 DEF AInv, RequestsTyped, Using, AuthTypeOK
  <2>3. QED
    BY <2>1, <2>2
<1>3. PICK row \in SessionRows : row = AuthRow(s)
  BY <1>2 DEF AInv, AuthTypeOK, AuthRow
<1>4. /\ authSessions \in [SessionIds -> SessionRows \cup {NoSession}]
      /\ authCsrf \subseteq SessionIds /\ \A u \in authCsrf : ~authSessions[u].revoked
  BY DEF AInv, AuthTypeOK, CsrfFollowsSession, AuthRow
<1>5. CASE UNCHANGED <<authSessions, authCsrf>>
  BY <1>0, <1>5, Ended, PlainMoves
<1>6. CASE /\ authSessions' = [authSessions EXCEPT ![authReq[r].sid].revoked = TRUE]
           /\ authCsrf' = authCsrf \ {authReq[r].sid}
  <2>1. PICK new \in SessionRows : new = [row EXCEPT !.revoked = TRUE]
    BY DEF SessionRows
  <2>2. new.from = row.from /\ new.born = row.born
    BY <2>1 DEF SessionRows
  <2>3. authSessions' = [authSessions EXCEPT ![s] = new] /\ authCsrf' = authCsrf \ {s}
    BY <1>1, <1>3, <1>6, <2>1 DEF AuthRow
  <2>4. /\ authSessions'[s] = new /\ \A u \in SessionIds : u # s => authSessions'[u] = authSessions[u]
        /\ authSessions' \in [SessionIds -> SessionRows \cup {NoSession}]
    BY <1>4, <2>3
  <2>5. \A u \in SessionIds :
           /\ authSessions'[u] = NoSession <=> AuthRow(u) = NoSession
           /\ AuthRow(u) # NoSession => /\ authSessions'[u].from = AuthRow(u).from
                                        /\ authSessions'[u].born = AuthRow(u).born
           /\ u \in authHeld \/ authSessions'[u] = AuthRow(u)
                \/ (Making(r) /\ u = authReq[r].sid)
    BY <1>1, <1>2, <1>3, <2>2, <2>4, RowIsNoSession DEF AuthRow
  <2>6. authCsrf' \subseteq authCsrf /\ \A u \in authCsrf' : ~authSessions'[u].revoked
    BY <1>4, <2>3, <2>4
  <2>7. QED
    BY <1>0, <2>4, <2>5, <2>6, Ended, MoveStep
<1>7. QED
  BY <1>5, <1>6 DEF RevokeSession
----------------------------------------------------------------------------
\* A fresh identifier is nobody's: no session has it and no request makes or uses it.
LEMMA FreshId ==
  ASSUME AInv, authIssued < MaxSessions
  PROVE  /\ authIssued \in Nat /\ authIssued + 1 \in SessionIds
         /\ AuthRow(authIssued + 1) = NoSession /\ authIssued + 1 \notin authHeld
         /\ \A q \in AuthRequests : Making(q) => authReq[q].sid # authIssued + 1
<1>1. authIssued \in Nat /\ authIssued + 1 \in SessionIds /\ ~(authIssued + 1 <= authIssued)
  BY AuthNumbers DEF AInv, AuthTypeOK, SessionIds
<1>2. AuthRow(authIssued + 1) = NoSession
  BY <1>1 DEF AInv, MakersAreAlone
<1>3. QED
  BY <1>1, <1>2 DEF AInv, MakersAreAlone, AuthTypeOK

\* consume_assertion(): the replayed assertion is refused; the other one is spent, and
\* what the purge took had expired.
LEMMA ConsumeStep ==
  ASSUME AInv, NEW r \in AuthRequests, ConsumeAssertion(r)
  PROVE  AInv'
<1> USE DEF AInv
<1>0. /\ UNCHANGED <<authNow, authSessions, authLogins, authHeld, authCsrf, authGuards>>
      /\ authReq[r].at = "consume"
  BY DEF ConsumeAssertion
<1>1. CASE EndRequest(r) /\ UNCHANGED <<authSpent, authIssued>>
  BY <1>0, <1>1, Ended, PlainMoves
<1>2. CASE /\ authReq[r].from \notin StillSpent(authReq[r].stamp)
           /\ authIssued < MaxSessions
           /\ authIssued' = authIssued + 1
           /\ authSpent' = StillSpent(authReq[r].stamp) \cup {authReq[r].from}
           /\ authReq' = [authReq EXCEPT ![r].at = "audit", ![r].sid = authIssued + 1,
                                         ![r].begun = authNow]
  <2>1. PICK a \in Assertions : a = authReq[r].from
    BY <1>0 DEF RequestsTyped
  <2>2. PICK t \in AuthTimes : t = authReq[r].stamp
    BY ReqFields
  <2>3. PICK s \in SessionIds : /\ s = authIssued + 1 /\ AuthRow(s) = NoSession
                                /\ s \notin authHeld
                                /\ \A q \in AuthRequests : Making(q) => authReq[q].sid # s
    BY <1>2, FreshId
  <2>4. /\ t \in Nat /\ authNow \in Nat /\ authNow \in AuthTimes /\ t <= authNow
        /\ authIssued \in Nat /\ \A b \in Assertions : AssertionExpiry[b] \in Nat
        /\ s \in 0..MaxSessions /\ s \in 1..authIssued'
    BY <1>2, <2>2, <2>3, ReqFields, AuthNumbers DEF AuthTypeOK, SessionIds
  <2>5. /\ authReq' \in [AuthRequests -> AuthReqs] /\ authReq'[r].at = "audit"
        /\ authReq'[r].sid = s /\ authReq'[r].begun = authNow /\ authReq'[r].from = a
        /\ authReq'[r].stamp = t
        /\ \A q \in AuthRequests : q # r => authReq'[q] = authReq[q]
    <3>1. authReq \in [AuthRequests -> AuthReqs] /\ "audit" \in AuthSteps
      BY DEF RequestsTyped, AuthSteps
    <3>2. authReq' = [authReq EXCEPT ![r].at = "audit", ![r].sid = s, ![r].begun = authNow]
      BY <1>2, <2>3
    <3>3. QED
      BY <2>1, <2>2, <2>4, <3>1, <3>2 DEF AuthReqs
  <2>6. \A q \in AuthRequests : q # r => (Making(q)' <=> Making(q)) /\ (Using(q)' <=> Using(q))
    BY <2>5 DEF Making, Using
  <2>7. Making(r)' /\ ~Using(r)' /\ authReq'[r].at \notin Acting
    BY <2>5 DEF Making, Using, Acting
  <2>8. authSpent' \subseteq Assertions
    BY <1>2, <2>1 DEF StillSpent, AuthTypeOK
  <2>9. AuthTypeOK'
    <3>1. \A q \in AuthRequests : authReq'[q].at \in AuthSteps
      BY <2>5 DEF AuthReqs
    <3>2. authIssued' \in 0..MaxSessions
      BY <1>2, <2>4, AuthNumbers
    <3>3. QED
      BY <1>0, <2>8, <3>1, <3>2 DEF AuthTypeOK, AuthRow
  <2>10. RequestsTyped'
    BY <1>0, <2>4, <2>5, <2>6, <2>7 DEF RequestsTyped
  <2>11. MakersAreAlone'
    <3>1. \A u \in SessionIds : AuthRow(u)' # NoSession => u <= authIssued'
      BY <1>0, <1>2, <2>4, AuthNumbers DEF MakersAreAlone, AuthRow, SessionIds
    <3>2. \A q \in AuthRequests : q # r /\ Making(q) => authReq[q].sid \in 1..authIssued'
      BY <1>2, <2>4 DEF MakersAreAlone
    <3>3. AuthRow(s)' = NoSession /\ s \notin authHeld'
      BY <1>0, <2>3 DEF AuthRow
    <3>4. ASSUME NEW q \in AuthRequests, Making(q)'
          PROVE  /\ authReq'[q].sid \in 1..authIssued' /\ authReq'[q].sid \notin authHeld'
                 /\ authReq'[q].at \in {"audit", "create"} <=> authSessions'[authReq'[q].sid] = NoSession
                 /\ authReq'[q].at = "csrf" => ~authSessions'[authReq'[q].sid].revoked
                 /\ authReq'[q].at # "audit" => authReq'[q].sid \in authLogins'
      <4>1. CASE q = r
        BY <2>4, <2>5, <3>3, <4>1 DEF AuthRow
      <4>2. CASE q # r
        <5>1. authReq'[q] = authReq[q] /\ Making(q)
          BY <2>5, <2>6, <3>4, <4>2
        <5>2. QED
          BY <1>0, <3>2, <4>2, <5>1 DEF MakersAreAlone, AuthRow
      <4>3. QED
        BY <4>1, <4>2
    <3>5. \A p, q \in AuthRequests : p # q /\ Making(p)' /\ Making(q)' =>
            authReq'[p].sid # authReq'[q].sid
      BY <2>3, <2>5, <2>6 DEF MakersAreAlone
    <3>6. QED
      BY <3>1, <3>4, <3>5 DEF MakersAreAlone, AuthRow
  <2>12. ConsumedOnce'
    <3>1. ASSUME NEW u \in SessionIds, NEW b \in Assertions, NEW v \in AuthTimes,
                 BornFrom(u, b, v)'
          PROVE  BornFrom(u, b, v) \/ (u = s /\ b = a /\ v = authNow)
      BY <1>0, <2>5, <3>1 DEF BornFrom, AuthRow
    <3>2. \A b \in authSpent : b \in authSpent' \/ authNow > AssertionExpiry[b]
      BY <1>2, <2>2, <2>4 DEF StillSpent, AuthTypeOK
    <3>3. a \in authSpent'
      BY <1>2, <2>1
    <3>4. authNow <= AssertionExpiry[a] => a \notin authSpent
      BY <1>2, <2>1, <2>2, <2>4 DEF StillSpent
    <3>5. ASSUME NEW u \in SessionIds, NEW v \in AuthTimes, BornFrom(u, a, v),
                 v <= AssertionExpiry[a], authNow <= AssertionExpiry[a]
          PROVE  FALSE
      BY <2>4, <3>4, <3>5 DEF ConsumedOnce
    <3>6. ASSUME NEW u \in SessionIds, NEW b \in Assertions, NEW v \in AuthTimes,
                 BornFrom(u, b, v)', v <= AssertionExpiry[b]
          PROVE  b \in authSpent' \/ authNow' > AssertionExpiry[b]
      BY <1>0, <3>1, <3>2, <3>3, <3>6 DEF ConsumedOnce
    <3>7. ASSUME NEW u \in SessionIds, NEW b \in Assertions, NEW v \in AuthTimes,
                 NEW w \in SessionIds, NEW x \in AuthTimes,
                 BornFrom(u, b, v)', v <= AssertionExpiry[b],
                 BornFrom(w, b, x)', x <= AssertionExpiry[b]
          PROVE  w = u
      BY <3>1, <3>5, <3>7 DEF ConsumedOnce
    <3>8. QED
      BY <3>6, <3>7 DEF ConsumedOnce
  <2>13. CallsAreGuarded'
    BY <1>0, <2>5, <2>7 DEF CallsAreGuarded
  <2>14. SessionsAreAudited' /\ CsrfFollowsSession'
    BY <1>0 DEF SessionsAreAudited, CsrfFollowsSession, AuthRow
  <2>15. QED
    BY <2>9, <2>10, <2>11, <2>12, <2>13, <2>14
<1>3. QED
  BY <1>1, <1>2 DEF ConsumeAssertion

\* The login line is written before the session: create_session() comes after it.
LEMMA AuditStep ==
  ASSUME AInv, NEW r \in AuthRequests, AuditLogin(r)
  PROVE  AInv'
<1> USE DEF AInv
<1>0. /\ UNCHANGED <<authNow, authSpent, authSessions, authIssued, authHeld, authCsrf, authGuards>>
      /\ authReq[r].at = "audit" /\ authLogins' = authLogins \cup {authReq[r].sid}
  BY DEF AuditLogin
<1>1. /\ authReq' \in [AuthRequests -> AuthReqs] /\ authReq'[r].stamp <= authNow
      /\ \A q \in AuthRequests : q # r => authReq'[q] = authReq[q]
      /\ authReq'[r].at = "create" /\ authReq'[r].sid = authReq[r].sid
      /\ authReq'[r].from = authReq[r].from /\ authReq'[r].begun = authReq[r].begun
  BY Advanced DEF AuditLogin, AuthSteps
<1>2. \A q \in AuthRequests : (Making(q)' <=> Making(q)) /\ (Using(q)' <=> Using(q))
  BY <1>0, <1>1 DEF Making, Using, Acting
<1>3. AuthTypeOK'
  <2>1. \A q \in AuthRequests : authReq'[q].at \in AuthSteps
    BY <1>1 DEF AuthReqs
  <2>2. QED
    BY <1>0, <2>1 DEF AuthTypeOK, AuthRow
<1>4. RequestsTyped'
  BY <1>0, <1>1, <1>2 DEF RequestsTyped, Acting
<1>5. MakersAreAlone'
  BY <1>0, <1>1, <1>2 DEF MakersAreAlone, AuthRow
<1>6. ConsumedOnce'
  <2>1. ASSUME NEW s, NEW a, NEW t, BornFrom(s, a, t)'
        PROVE  BornFrom(s, a, t)
    BY <1>0, <1>1, <2>1 DEF BornFrom, AuthRow
  <2>2. QED
    BY <1>0, <2>1 DEF ConsumedOnce
<1>7. CallsAreGuarded'
  BY <1>0, <1>1 DEF CallsAreGuarded, Acting
<1>8. QED
  BY <1>0, <1>3, <1>4, <1>5, <1>6, <1>7 DEF SessionsAreAudited, CsrfFollowsSession, AuthRow

\* The request's own step from "create": the row is new, born when the assertion was
\* consumed.
LEMMA CreateStep ==
  ASSUME AInv, NEW r \in AuthRequests, CreateSession(r)
  PROVE  AInv'
<1> USE DEF AInv
<1> DEFINE next == IF authReq[r].kind = "account" THEN "account" ELSE "csrf"
<1>0. /\ UNCHANGED <<authNow, authSpent, authIssued, authLogins, authHeld, authCsrf, authGuards>>
      /\ authReq[r].at = "create" /\ Advance(r, next) /\ next \in AuthSteps
      /\ next \in {"account", "csrf"} /\ (next = "account" => authReq[r].kind = "account")
  BY DEF CreateSession, AuthSteps
<1>1. PICK s \in SessionIds : s = authReq[r].sid
  BY <1>0, ReqFields DEF Making
<1>2. PICK a \in Assertions : a = authReq[r].from
  BY <1>0 DEF RequestsTyped
<1>3. PICK t \in AuthTimes : t = authReq[r].begun
  BY <1>0 DEF RequestsTyped
<1>4. PICK row \in SessionRows : /\ authSessions' = [authSessions EXCEPT ![s] = row]
                                 /\ row.from = a /\ row.born = t /\ ~row.revoked
  <2>1. Sooner(AssertionExpiry[a] + AuthAbsolute, authReq[r].stamp + AuthAbsolute) \in Nat
    BY AuthNumbers, ReqFields DEF Sooner
  <2>2. [from |-> a, born |-> t,
         expires |-> Sooner(AssertionExpiry[a] + AuthAbsolute, authReq[r].stamp + AuthAbsolute),
         seen |-> authReq[r].stamp, revoked |-> FALSE] \in SessionRows
    BY <2>1, ReqFields DEF SessionRows
  <2>3. QED
    BY <1>1, <1>2, <1>3, <2>2 DEF CreateSession
<1> HIDE DEF next
<1>5. /\ authReq' \in [AuthRequests -> AuthReqs] /\ authReq'[r].stamp <= authNow
      /\ \A q \in AuthRequests : q # r => authReq'[q] = authReq[q]
      /\ authReq'[r].at = next /\ authReq'[r].sid = s /\ authReq'[r].kind = authReq[r].kind
  BY <1>0, <1>1, Advanced
<1>6. /\ authSessions'[s] = row /\ \A u \in SessionIds : u # s => authSessions'[u] = authSessions[u]
      /\ authSessions' \in [SessionIds -> SessionRows \cup {NoSession}]
      /\ row # NoSession
  BY <1>4, RowIsNoSession DEF AuthTypeOK
<1>7. /\ Making(r) /\ AuthRow(s) = NoSession /\ s \in authLogins /\ s \notin authHeld
      /\ s \in 1..authIssued
      /\ \A q \in AuthRequests : q # r /\ Making(q) => authReq[q].sid # s
      /\ \A q \in AuthRequests : Making(q) => authReq[q].sid \in SessionIds
  BY <1>0, <1>1, ReqFields DEF Making, MakersAreAlone
<1>8. \A q \in AuthRequests : (Making(q)' <=> Making(q)) /\ (Using(q)' <=> Using(q))
  BY <1>0, <1>5 DEF Making, Using, Acting
<1>9. AuthTypeOK'
  <2>1. \A q \in AuthRequests : authReq'[q].at \in AuthSteps
    BY <1>5 DEF AuthReqs
  <2>2. authHeld' \subseteq {u \in SessionIds : authSessions'[u] # NoSession}
    BY <1>0, <1>6 DEF AuthTypeOK, AuthRow
  <2>3. QED
    BY <1>0, <1>6, <2>1, <2>2 DEF AuthTypeOK, AuthRow
<1>10. RequestsTyped'
  <2>1. ~Using(r) /\ authReq'[r].at \in {"account", "csrf"}
    BY <1>0, <1>5 DEF Using, Acting
  <2>2. QED
    BY <1>0, <1>5, <1>8, <2>1 DEF RequestsTyped, Acting
<1>11. MakersAreAlone'
  <2>1. ASSUME NEW u \in SessionIds, authSessions'[u] # NoSession
        PROVE  u <= authIssued'
    BY <1>0, <1>6, <1>7, <2>1 DEF MakersAreAlone, AuthRow, AuthTypeOK
  <2>2. ASSUME NEW q \in AuthRequests, Making(q)'
        PROVE  /\ authReq'[q].sid \in 1..authIssued' /\ authReq'[q].sid \notin authHeld'
               /\ authReq'[q].at \in {"audit", "create"} <=> authSessions'[authReq'[q].sid] = NoSession
               /\ authReq'[q].at = "csrf" => ~authSessions'[authReq'[q].sid].revoked
               /\ authReq'[q].at # "audit" => authReq'[q].sid \in authLogins'
    <3>1. CASE q = r
      BY <1>0, <1>4, <1>5, <1>6, <1>7, <3>1
    <3>2. CASE q # r
      <4>1. /\ authReq'[q] = authReq[q] /\ Making(q) /\ authReq[q].sid # s
            /\ authReq[q].sid \in SessionIds
        BY <1>5, <1>7, <1>8, <2>2, <3>2
      <4>2. authSessions'[authReq[q].sid] = authSessions[authReq[q].sid]
        BY <1>6, <4>1
      <4>3. QED
        BY <1>0, <4>1, <4>2 DEF MakersAreAlone, AuthRow
    <3>3. QED
      BY <3>1, <3>2
  <2>3. \A p, q \in AuthRequests : p # q /\ Making(p)' /\ Making(q)' =>
          authReq'[p].sid # authReq'[q].sid
    BY <1>1, <1>5, <1>8 DEF MakersAreAlone
  <2>4. QED
    BY <2>1, <2>2, <2>3 DEF MakersAreAlone, AuthRow
<1>12. ConsumedOnce'
  <2>1. ASSUME NEW u \in SessionIds, NEW b, NEW v, BornFrom(u, b, v)'
        PROVE  BornFrom(u, b, v)
    <3>1. CASE authSessions'[u] # NoSession /\ authSessions'[u].from = b /\ authSessions'[u].born = v
      <4>1. BornFrom(s, a, t)
        BY <1>0, <1>1, <1>2, <1>3 DEF BornFrom
      <4>2. CASE u = s
        BY <1>4, <1>6, <3>1, <4>1, <4>2
      <4>3. CASE u # s
        BY <1>6, <3>1, <4>3 DEF BornFrom, AuthRow
      <4>4. QED
        BY <4>2, <4>3
    <3>2. CASE \E q \in AuthRequests : /\ authReq'[q].at \in {"audit", "create"}
                                       /\ authReq'[q].sid = u /\ authReq'[q].from = b
                                       /\ authReq'[q].begun = v
      BY <1>0, <1>5, <3>2 DEF BornFrom
    <3>3. QED
      BY <2>1, <3>1, <3>2 DEF BornFrom, AuthRow
  <2>2. QED
    BY <1>0, <2>1 DEF ConsumedOnce
<1>13. CallsAreGuarded'
  BY <1>0, <1>5 DEF CallsAreGuarded, Acting
<1>14. SessionsAreAudited'
  BY <1>0, <1>6, <1>7 DEF SessionsAreAudited, AuthRow
<1>15. CsrfFollowsSession'
  BY <1>0, <1>6, <1>7 DEF CsrfFollowsSession, AuthRow, AuthTypeOK
<1>16. QED
  BY <1>9, <1>10, <1>11, <1>12, <1>13, <1>14, <1>15

\* set_csrf() and the answer: the client has the token, the request is over.
LEMMA SetCsrfStep ==
  ASSUME AInv, NEW r \in AuthRequests, SetCsrf(r)
  PROVE  AInv'
<1> USE DEF AInv
<1>0. /\ UNCHANGED <<authNow, authSpent, authSessions, authIssued, authLogins, authGuards>>
      /\ authReq[r].at = "csrf" /\ EndRequest(r) /\ Making(r)
      /\ authCsrf' = authCsrf \cup {authReq[r].sid} /\ authHeld' = authHeld \cup {authReq[r].sid}
  BY DEF SetCsrf, Making
<1>1. PICK s \in SessionIds : /\ s = authReq[r].sid /\ AuthRow(s) # NoSession /\ ~AuthRow(s).revoked
  BY <1>0, ReqFields DEF MakersAreAlone
<1>2. /\ authReq' \in [AuthRequests -> AuthReqs] /\ authReq'[r].stamp <= authNow
      /\ \A q \in AuthRequests : q # r => authReq'[q] = authReq[q]
      /\ authReq'[r].at = "idle"
  BY <1>0, Ended
<1>3. /\ \A q \in AuthRequests : q # r => (Making(q)' <=> Making(q)) /\ (Using(q)' <=> Using(q))
      /\ ~Making(r)' /\ ~Using(r)' /\ authReq'[r].at \notin Acting
  BY <1>2 DEF Making, Using, Acting
<1>4. AuthTypeOK'
  <2>1. \A q \in AuthRequests : authReq'[q].at \in AuthSteps
    BY <1>2 DEF AuthReqs
  <2>2. QED
    BY <1>0, <1>1, <2>1 DEF AuthTypeOK, AuthRow
<1>5. RequestsTyped'
  BY <1>0, <1>2, <1>3 DEF RequestsTyped
<1>6. MakersAreAlone'
  BY <1>0, <1>2, <1>3 DEF MakersAreAlone, AuthRow
<1>7. ConsumedOnce'
  <2>1. ASSUME NEW u, NEW b, NEW v, BornFrom(u, b, v)'
        PROVE  BornFrom(u, b, v)
    BY <1>0, <1>2, <2>1 DEF BornFrom, AuthRow
  <2>2. QED
    BY <1>0, <2>1 DEF ConsumedOnce
<1>8. CallsAreGuarded'
  BY <1>0, <1>2, <1>3 DEF CallsAreGuarded
<1>9. QED
  BY <1>0, <1>1, <1>4, <1>5, <1>6, <1>7, <1>8 DEF SessionsAreAudited, CsrfFollowsSession, AuthRow

\* begin_action() refuses while a run of the session is under way: the guard is the
\* run's own and is younger than the in-flight timeout.
LEMMA BeginActionStep ==
  ASSUME AInv, NEW r \in AuthRequests, BeginAction(r)
  PROVE  AInv'
<1> USE DEF AInv
<1>0. /\ UNCHANGED <<authNow, authSpent, authSessions, authIssued, authLogins, authHeld, authCsrf>>
      /\ authReq[r].at = "begin" /\ Using(r)
  BY DEF BeginAction, Using
<1>1. PICK s \in SessionIds : s = authReq[r].sid /\ s \in authHeld
  BY <1>0, ReqFields DEF RequestsTyped
<1>2. PICK t \in AuthTimes : /\ t = authReq[r].stamp /\ t \in Nat /\ t <= authNow /\ authNow \in Nat
                             /\ authNow - t <= CallMax /\ authNow - t \in Nat
  BY <1>0, ReqFields DEF CallsAreGuarded
<1>3. CASE EndRequest(r) /\ UNCHANGED authGuards
  BY <1>0, <1>3, Ended, PlainMoves
<1>4. CASE /\ ~GuardRefuses(authGuards[s], t)
           /\ authGuards' = [authGuards EXCEPT ![s] = [started |-> t, completed |-> Unset]]
           /\ authReq' = [authReq EXCEPT ![r].at = "running", ![r].begun = t]
  <2>1. /\ authReq' \in [AuthRequests -> AuthReqs] /\ authReq'[r].at = "running"
        /\ authReq'[r].sid = s /\ authReq'[r].begun = t /\ authReq'[r].stamp = t
        /\ \A q \in AuthRequests : q # r => authReq'[q] = authReq[q]
    <3>1. authReq \in [AuthRequests -> AuthReqs] /\ "running" \in AuthSteps
      BY DEF RequestsTyped, AuthSteps
    <3>2. QED
      BY <1>1, <1>2, <1>4, <3>1 DEF AuthReqs
  <2>2. /\ \A q \in AuthRequests : q # r => (Making(q)' <=> Making(q)) /\ (Using(q)' <=> Using(q))
        /\ ~Making(r)' /\ Using(r)' /\ "running" \in Acting
    BY <2>1 DEF Making, Using, Acting
  <2>3. /\ authGuards' \in [SessionIds -> [started : AuthTimes \cup {Unset},
                                           completed : AuthTimes \cup {Unset}]]
        /\ authGuards'[s].started = t /\ authGuards'[s].completed = Unset
        /\ \A u \in SessionIds : u # s => authGuards'[u] = authGuards[u]
    BY <1>4 DEF AuthTypeOK
  <2>4. ASSUME NEW q \in AuthRequests, authReq[q].at \in Acting
        PROVE  authReq[q].sid # s /\ authReq[q].sid \in SessionIds
    <3> SUFFICES ASSUME authReq[q].sid = s PROVE FALSE
      BY <2>4, ReqFields DEF Using
    <3>1. PICK b \in AuthTimes : /\ b = authReq[q].begun /\ b \in Nat
                                 /\ authGuards[s].started = b /\ authGuards[s].completed = Unset
                                 /\ authNow - b <= CallMax
      BY <2>4, AuthNumbers DEF RequestsTyped, CallsAreGuarded
    <3>2. authGuards[s] # NoGuard
      BY <3>1, AuthNumbers DEF NoGuard
    <3>3. t - b < InFlight
      BY <1>2, <3>1, AuthNumbers
    <3>4. QED
      BY <1>4, <3>1, <3>2, <3>3 DEF GuardRefuses
  <2>5. AuthTypeOK'
    <3>1. \A q \in AuthRequests : authReq'[q].at \in AuthSteps
      BY <2>1 DEF AuthReqs
    <3>2. QED
      BY <1>0, <2>3, <3>1 DEF AuthTypeOK, AuthRow
  <2>6. RequestsTyped'
    BY <1>0, <1>1, <1>2, <2>1, <2>2 DEF RequestsTyped
  <2>7. MakersAreAlone'
    BY <1>0, <2>1, <2>2 DEF MakersAreAlone, AuthRow
  <2>8. ConsumedOnce'
    <3>1. ASSUME NEW u, NEW b, NEW v, BornFrom(u, b, v)'
          PROVE  BornFrom(u, b, v)
      BY <1>0, <2>1, <3>1 DEF BornFrom, AuthRow
    <3>2. QED
      BY <1>0, <3>1 DEF ConsumedOnce
  <2>9. CallsAreGuarded'
    <3>1. ASSUME NEW q \in AuthRequests, authReq'[q].at \in Acting
          PROVE  /\ authGuards'[authReq'[q].sid].started = authReq'[q].begun
                 /\ authGuards'[authReq'[q].sid].completed = Unset
                 /\ authReq'[q].begun <= authNow /\ authNow - authReq'[q].begun <= CallMax
      <4>1. CASE q = r
        BY <1>2, <2>1, <2>3, <4>1
      <4>2. CASE q # r
        BY <2>1, <2>3, <2>4, <3>1, <4>2 DEF CallsAreGuarded
      <4>3. QED
        BY <4>1, <4>2
    <3>2. \A q \in AuthRequests : authReq'[q].at = "begin" => authNow - authReq'[q].stamp <= CallMax
      BY <2>1 DEF CallsAreGuarded
    <3>3. \A p, q \in AuthRequests : p # q /\ authReq'[p].at \in Acting /\ authReq'[q].at \in Acting =>
            authReq'[p].sid # authReq'[q].sid
      BY <2>1, <2>4 DEF CallsAreGuarded
    <3>4. QED
      BY <1>0, <3>1, <3>2, <3>3 DEF CallsAreGuarded
  <2>10. QED
    BY <1>0, <2>5, <2>6, <2>7, <2>8, <2>9 DEF SessionsAreAudited, CsrfFollowsSession, AuthRow
<1>5. QED
  BY <1>1, <1>2, <1>3, <1>4 DEF BeginAction

\* finish_action(), done or failed: the guard it closes is nobody else's.
LEMMA FinishStep ==
  ASSUME AInv, NEW r \in AuthRequests, FinishAction(r)
  PROVE  AInv'
<1> USE DEF AInv
<1>0. /\ UNCHANGED <<authNow, authSpent, authSessions, authIssued, authLogins, authHeld, authCsrf>>
      /\ authReq[r].at = "finish" /\ EndRequest(r) /\ Using(r) /\ authReq[r].at \in Acting
  BY DEF FinishAction, Using, Acting
<1>1. PICK s \in SessionIds : s = authReq[r].sid
  BY <1>0, ReqFields
<1>2. CASE UNCHANGED authGuards
  BY <1>0, <1>2, Ended, PlainMoves
<1>3. CASE authGuards' = [authGuards EXCEPT ![authReq[r].sid].completed = authReq[r].stamp]
  <2>1. /\ authReq' \in [AuthRequests -> AuthReqs] /\ authReq'[r].stamp <= authNow
        /\ \A q \in AuthRequests : q # r => authReq'[q] = authReq[q]
        /\ authReq'[r].at = "idle"
    BY <1>0, Ended
  <2>2. /\ \A q \in AuthRequests : q # r => (Making(q)' <=> Making(q)) /\ (Using(q)' <=> Using(q))
        /\ ~Making(r)' /\ ~Using(r)' /\ authReq'[r].at \notin Acting
    BY <2>1 DEF Making, Using, Acting
  <2>3. /\ authGuards' \in [SessionIds -> [started : AuthTimes \cup {Unset},
                                           completed : AuthTimes \cup {Unset}]]
        /\ \A u \in SessionIds : u # s => authGuards'[u] = authGuards[u]
    BY <1>1, <1>3, ReqFields DEF AuthTypeOK
  <2>4. \A q \in AuthRequests : q # r /\ authReq[q].at \in Acting =>
          authReq[q].sid # s /\ authReq[q].sid \in SessionIds
    BY <1>0, <1>1, ReqFields DEF CallsAreGuarded, Using
  <2>5. AuthTypeOK'
    <3>1. \A q \in AuthRequests : authReq'[q].at \in AuthSteps
      BY <2>1 DEF AuthReqs
    <3>2. QED
      BY <1>0, <2>3, <3>1 DEF AuthTypeOK, AuthRow
  <2>6. RequestsTyped'
    BY <1>0, <2>1, <2>2 DEF RequestsTyped
  <2>7. MakersAreAlone'
    BY <1>0, <2>1, <2>2 DEF MakersAreAlone, AuthRow
  <2>8. ConsumedOnce'
    <3>1. ASSUME NEW u, NEW b, NEW v, BornFrom(u, b, v)'
          PROVE  BornFrom(u, b, v)
      BY <1>0, <2>1, <3>1 DEF BornFrom, AuthRow
    <3>2. QED
      BY <1>0, <3>1 DEF ConsumedOnce
  <2>9. CallsAreGuarded'
    BY <1>0, <2>1, <2>2, <2>3, <2>4 DEF CallsAreGuarded
  <2>10. QED
    BY <1>0, <2>5, <2>6, <2>7, <2>8, <2>9 DEF SessionsAreAudited, CsrfFollowsSession, AuthRow
<1>4. QED
  BY <1>2, <1>3 DEF FinishAction

\* A second passes: a run ends within the bound, and expired assertions stay expired.
LEMMA TickStep ==
  ASSUME AInv, AuthTick
  PROVE  AInv'
<1> USE DEF AInv
<1>0. /\ UNCHANGED <<authSpent, authSessions, authIssued, authLogins, authHeld, authCsrf,
                     authGuards, authReq>>
      /\ authNow < MaxAuthTime /\ authNow' = authNow + 1
      /\ \A r \in AuthRequests :
           /\ authReq[r].at \in Acting => authNow - authReq[r].begun < CallMax
           /\ authReq[r].at = "begin" => authNow - authReq[r].stamp < CallMax
  BY DEF AuthTick
<1>1. authNow \in Nat /\ authNow' \in AuthTimes
  BY <1>0, AuthNumbers DEF AuthTypeOK, AuthTimes
<1>2. AuthTypeOK'
  BY <1>0, <1>1 DEF AuthTypeOK, AuthRow
<1>3. RequestsTyped'
  <2>1. \A r \in AuthRequests : authReq[r].stamp <= authNow'
    BY <1>0, <1>1, ReqFields
  <2>2. QED
    BY <1>0, <2>1 DEF RequestsTyped, Using, Acting
<1>4. MakersAreAlone'
  BY <1>0 DEF MakersAreAlone, Making, AuthRow
<1>5. ConsumedOnce'
  <2>1. ASSUME NEW u, NEW b, NEW v, BornFrom(u, b, v)'
        PROVE  BornFrom(u, b, v)
    BY <1>0, <2>1 DEF BornFrom, AuthRow
  <2>2. \A a \in Assertions : authNow > AssertionExpiry[a] => authNow' > AssertionExpiry[a]
    BY <1>0, <1>1, AuthNumbers
  <2>3. QED
    BY <1>0, <2>1, <2>2 DEF ConsumedOnce
<1>6. CallsAreGuarded'
  <2>1. ASSUME NEW r \in AuthRequests, authReq[r].at \in Acting
        PROVE  authReq[r].begun <= authNow' /\ authNow' - authReq[r].begun <= CallMax
    <3>1. authReq[r].begun \in Nat /\ authReq[r].begun <= authNow
      BY <2>1, AuthNumbers DEF RequestsTyped, CallsAreGuarded
    <3>2. QED
      BY <1>0, <1>1, <2>1, <3>1, AuthNumbers
  <2>2. ASSUME NEW r \in AuthRequests, authReq[r].at = "begin"
        PROVE  authNow' - authReq[r].stamp <= CallMax
    BY <1>0, <1>1, <2>2, ReqFields, AuthNumbers
  <2>3. QED
    BY <1>0, <2>1, <2>2 DEF CallsAreGuarded
<1>7. QED
  BY <1>0, <1>2, <1>3, <1>4, <1>5, <1>6 DEF SessionsAreAudited, CsrfFollowsSession, AuthRow

\* The process dies: no request is left, and the rows stay.
LEMMA CrashStep ==
  ASSUME AInv, AuthCrash
  PROVE  AInv'
<1> USE DEF AInv
<1>0. UNCHANGED <<authNow, authSpent, authSessions, authIssued, authLogins, authHeld, authCsrf,
                  authGuards>>
  BY DEF AuthCrash
<1>1. IdleReq \in AuthReqs /\ IdleReq.at = "idle" /\ IdleReq.stamp = 0
  BY AuthNumbers DEF IdleReq, AuthReqs, AuthSteps, AuthTimes, Unset
<1>2. authReq' \in [AuthRequests -> AuthReqs] /\ \A r \in AuthRequests : authReq'[r] = IdleReq
  BY <1>1 DEF AuthCrash
<1>3. \A r \in AuthRequests : /\ authReq'[r].at = "idle" /\ ~Making(r)' /\ ~Using(r)'
                              /\ authReq'[r].at \notin Acting
  BY <1>1, <1>2 DEF Making, Using, Acting
<1>7. AuthTypeOK'
  BY <1>0, <1>3 DEF AuthTypeOK, AuthRow, AuthSteps
<1>8. RequestsTyped'
  <2>1. 0 <= authNow
    BY AuthNumbers DEF AuthTypeOK
  <2>2. QED
    BY <1>0, <1>1, <1>2, <1>3, <2>1 DEF RequestsTyped
<1>9. MakersAreAlone'
  BY <1>0, <1>3 DEF MakersAreAlone, AuthRow
<1>10. ConsumedOnce'
  <2>1. ASSUME NEW u, NEW b, NEW v, BornFrom(u, b, v)'
        PROVE  BornFrom(u, b, v)
    BY <1>0, <1>3, <2>1 DEF BornFrom, AuthRow
  <2>2. QED
    BY <1>0, <2>1 DEF ConsumedOnce
<1>11. CallsAreGuarded'
  BY <1>0, <1>3 DEF CallsAreGuarded
<1>12. QED
  BY <1>0, <1>7, <1>8, <1>9, <1>10, <1>11 DEF SessionsAreAudited, CsrfFollowsSession, AuthRow

\* Every step keeps the invariant.
LEMMA AInvStep == AInv /\ [AuthNext]_authVars => AInv'
<1> SUFFICES ASSUME AInv, [AuthNext]_authVars PROVE AInv'
  OBVIOUS
<1>1. ASSUME NEW r \in AuthRequests,
             \/ \E a \in Assertions, k \in {"console", "account"} : BeginExchange(r, a, k)
             \/ \E s \in SessionIds, k \in {"page", "action", "logout"} : BeginRequest(r, s, k)
      PROVE  AInv'
  BY <1>1, BeginSteps
<1>2. ASSUME NEW r \in AuthRequests,
             ConsumeAssertion(r) \/ AuditLogin(r) \/ CreateSession(r) \/ SetCsrf(r)
      PROVE  AInv'
  BY <1>2, ConsumeStep, AuditStep, CreateStep, SetCsrfStep
<1>3. ASSUME NEW r \in AuthRequests,
             \/ EndAccount(r) \/ ExchangeFails(r) \/ RefuseRequest(r) \/ CheckCsrf(r)
             \/ CallEnds(r)
      PROVE  AInv'
  BY <1>3, EndSteps, GoOnSteps
<1>4. ASSUME NEW r \in AuthRequests,
             ResolveSession(r) \/ RevokeSession(r) \/ BeginAction(r) \/ Correlate(r) \/ FinishAction(r)
      PROVE  AInv'
  BY <1>4, ResolveSteps, RevokeStep, BeginActionStep, FinishStep
<1>5. ASSUME UNCHANGED authVars
      PROVE  AInv'
  BY <1>5 DEF authVars, AInv, AuthTypeOK, RequestsTyped, MakersAreAlone, ConsumedOnce, BornFrom,
              SessionsAreAudited, CsrfFollowsSession, CallsAreGuarded, Making, Using, AuthRow
<1>6. QED
  BY <1>1, <1>2, <1>3, <1>4, <1>5, TickStep, CrashStep DEF AuthNext

\* server/edge1_security_auth_store.py under any number of request threads, clock
\* readings of any age, failures half-way and crashes: up to its expiry at most one
\* session is made from an assertion, its login is audited first, its form token ends with it.
THEOREM SessionsStaySound == AuthSpec => []SessionsAreSound
<1>1. AInv => SessionsAreSound
  <2> SUFFICES ASSUME AInv,
                      NEW s \in SessionIds, NEW t \in SessionIds, s # t,
                      AuthRow(s) # NoSession, AuthRow(t) # NoSession,
                      AuthRow(s).from = AuthRow(t).from,
                      \A u \in {s, t} : ~(AuthRow(u).born > AssertionExpiry[AuthRow(u).from])
               PROVE  FALSE
    BY DEF AInv, SessionsAreSound, ConsumedOnceUpToExpiry, Twins
  <2>1. AuthRow(s) \in SessionRows /\ AuthRow(t) \in SessionRows
    BY DEF AInv, AuthTypeOK, AuthRow
  <2>2. PICK a \in Assertions : a = AuthRow(s).from
    BY <2>1 DEF SessionRows
  <2>3. /\ AuthRow(s).born \in AuthTimes /\ AuthRow(t).born \in AuthTimes
        /\ AuthRow(s).born <= AssertionExpiry[a] /\ AuthRow(t).born <= AssertionExpiry[a]
    BY <2>1, <2>2, AuthNumbers DEF SessionRows
  <2>4. BornFrom(s, a, AuthRow(s).born) /\ BornFrom(t, a, AuthRow(t).born)
    BY <2>2 DEF BornFrom
  <2>5. QED
    BY <2>3, <2>4 DEF AInv, ConsumedOnce
<1>2. QED
  BY InitAInv, AInvStep, <1>1, PTL DEF AuthSpec

\* begin_action() and finish_action(): as long as the gateway's calls take less than
\* the in-flight timeout, no two calls of a session are under way at the same time.
THEOREM CallsNeverOverlap == AuthSpec => []OneCallAtATime
<1>1. AInv => OneCallAtATime
  BY DEF AInv, CallsAreGuarded, OneCallAtATime
<1>2. QED
  BY InitAInv, AInvStep, <1>1, PTL DEF AuthSpec
----------------------------------------------------------------------------
\* OperationsControl: the typed reload and the root broker.

\* The threads, requests, rows and restarts of the Operations API and the broker.
OpSteps == {"claim", "check", "submit", "await", "verify", "recover", "done", "fail"}
OpWork == [at : OpSteps, k : OpKeys, pid : Nat, n : Nat]
            \cup [at : OpSteps, k : OpKeys, pid : Nat, n : Nat, after : Nat]
OpReqs == [n : Nat, k : OpKeys, pid : Nat, recovery : BOOLEAN]
OpServing == [at : {"restart", "observe", "answer"}, q : OpReqs, before : Nat,
              ok : BOOLEAN, after : Nat]
OpRestartRows == [k : OpKeys, pid : Nat, recovery : BOOLEAN]
OpRows == [pid : Nat, response : {"none", "", "succeeded", "failed"}]

OpTypeOK ==
  /\ opInst \in Nat /\ opSent \in Nat
  /\ opRow \in [OpKeys -> OpRows]
  /\ opThread \in [OpThreads -> OpWork \cup {OpIdle}]
  /\ opQueue \in Seq(OpReqs)
  /\ opBroker \in OpServing \cup {BrokerIdle, [at |-> "down"]}
  /\ opRuns \in [OpKeys -> Nat]
  /\ opRestarts \in Seq(OpRestartRows)

\* The console was restarted for key k, as a reload or as a recovery.
RestartedFor(k, recovery) == RestartsOf(k, recovery) # {}

\* An execution has claimed its key, and an unclaimed key was never executed.
KeysClaimed ==
  /\ \A k \in OpKeys : opRuns[k] <= 1 /\ (opRow[k].response = "none" => opRuns[k] = 0)
  /\ \A t \in OpThreads : opThread[t].at \notin {"idle", "claim"} =>
       opRow[opThread[t].k].response # "none"

\* The process a reload replaced is gone, so the one the broker has just seen, and is
\* about to restart, was never replaced by a reload.
ProcessesPassed ==
  /\ \A i \in DOMAIN opRestarts : ~opRestarts[i].recovery => opRestarts[i].pid < opInst
  /\ opBroker.at = "restart" /\ ~opBroker.q.recovery =>
       /\ opBroker.q.pid <= opInst
       /\ \A i \in DOMAIN opRestarts :
            ~opRestarts[i].recovery => opRestarts[i].pid # opBroker.q.pid

\* Requests are numbered: whatever is in the backlog or being served under the number
\* a thread awaits is that thread's request.
RequestsAreTheirs ==
  /\ \A i \in DOMAIN opQueue : opQueue[i].n <= opSent
  /\ opBroker.at \in {"restart", "observe", "answer"} => opBroker.q.n <= opSent
  /\ \A t \in OpThreads : opThread[t].at = "await" =>
       /\ opThread[t].n <= opSent
       /\ \A i \in DOMAIN opQueue : opQueue[i].n = opThread[t].n =>
            opQueue[i].k = opThread[t].k /\ ~opQueue[i].recovery
       /\ opBroker.at \in {"restart", "observe", "answer"} /\ opBroker.q.n = opThread[t].n =>
            opBroker.q.k = opThread[t].k /\ ~opBroker.q.recovery

\* A good answer stands for a restart, from the broker to the stored response.
AnswersAreEarned ==
  /\ opBroker.at = "restart" => ~opBroker.ok
  /\ opBroker.at = "observe" \/ (opBroker.at = "answer" /\ opBroker.ok) =>
       RestartedFor(opBroker.q.k, opBroker.q.recovery)
  /\ \A t \in OpThreads : opThread[t].at \in {"verify", "done"} =>
       RestartedFor(opThread[t].k, FALSE)
  /\ SucceededIsTrue

OInv ==
  /\ OpTypeOK /\ KeysClaimed /\ ProcessesPassed /\ OneReloadPerProcess
  /\ RequestsAreTheirs /\ AnswersAreEarned
----------------------------------------------------------------------------
\* The empty tables satisfy the invariant.
LEMMA InitOInv == OpInit => OInv
<1> SUFFICES ASSUME OpInit PROVE OInv
  OBVIOUS
<1>1. /\ opRestarts \in Seq(OpRestartRows) /\ DOMAIN opRestarts = {}
      /\ opQueue \in Seq(OpReqs) /\ DOMAIN opQueue = {}
  BY EmptySeq DEF OpInit
<1>2. OpTypeOK
  BY <1>1 DEF OpInit, OpTypeOK, OpRows, NoRow
<1>3. opBroker.at = "accept" /\ \A t \in OpThreads : opThread[t].at = "idle"
  BY DEF OpInit, BrokerIdle, OpIdle
<1>4. \A k \in OpKeys : opRow[k].response = "none"
  BY DEF OpInit, NoRow
<1>5. KeysClaimed
  <2>1. \A k \in OpKeys : opRuns[k] = 0
    BY DEF OpInit
  <2>2. QED
    BY <1>3, <2>1 DEF KeysClaimed
<1>6. ProcessesPassed /\ OneReloadPerProcess
  BY <1>1, <1>3 DEF ProcessesPassed, OneReloadPerProcess
<1>7. RequestsAreTheirs
  BY <1>1, <1>3 DEF RequestsAreTheirs
<1>8. AnswersAreEarned
  BY <1>3, <1>4 DEF AnswersAreEarned, SucceededIsTrue
<1>9. QED
  BY <1>2, <1>5, <1>6, <1>7, <1>8 DEF OInv

\* What the type invariant says of a thread that is at work and of a broker that
\* serves a request.
LEMMA OpTyped ==
  ASSUME OInv
  PROVE  /\ \A t \in OpThreads : opThread[t].at # "idle" =>
              /\ opThread[t] \in OpWork /\ opThread[t].at \in OpSteps
              /\ opThread[t].k \in OpKeys /\ opThread[t].pid \in Nat /\ opThread[t].n \in Nat
         /\ opBroker.at \notin {"accept", "down"} =>
              /\ opBroker \in OpServing /\ opBroker.q \in OpReqs
              /\ opBroker.q.n \in Nat /\ opBroker.q.k \in OpKeys /\ opBroker.q.pid \in Nat
              /\ opBroker.q.recovery \in BOOLEAN
         /\ opBroker.at \in {"accept", "down", "restart", "observe", "answer"}
         /\ \A i \in DOMAIN opQueue :
              /\ opQueue[i] \in OpReqs /\ opQueue[i].n \in Nat /\ opQueue[i].pid \in Nat
              /\ opQueue[i].k \in OpKeys
         /\ \A i \in DOMAIN opRestarts :
              /\ opRestarts[i] \in OpRestartRows /\ opRestarts[i].pid \in Nat
              /\ opRestarts[i].recovery \in BOOLEAN
         /\ opInst \in Nat /\ opSent \in Nat
<1>0. OpTypeOK
  BY DEF OInv
<1>1. \A t \in OpThreads : opThread[t].at # "idle" =>
        /\ opThread[t] \in OpWork /\ opThread[t].at \in OpSteps
        /\ opThread[t].k \in OpKeys /\ opThread[t].pid \in Nat /\ opThread[t].n \in Nat
  BY <1>0 DEF OpTypeOK, OpWork, OpIdle
<1>2. /\ opBroker.at \notin {"accept", "down"} =>
           /\ opBroker \in OpServing /\ opBroker.q \in OpReqs
           /\ opBroker.q.n \in Nat /\ opBroker.q.k \in OpKeys /\ opBroker.q.pid \in Nat
           /\ opBroker.q.recovery \in BOOLEAN
      /\ opBroker.at \in {"accept", "down", "restart", "observe", "answer"}
  BY <1>0 DEF OpTypeOK, OpServing, OpReqs, BrokerIdle
<1>3. /\ \A i \in DOMAIN opQueue : opQueue[i] \in OpReqs
      /\ \A i \in DOMAIN opRestarts : opRestarts[i] \in OpRestartRows
  BY <1>0, LenProperties, ElementOfSeq DEF OpTypeOK
<1>4. QED
  BY <1>0, <1>1, <1>2, <1>3 DEF OpTypeOK, OpReqs, OpRestartRows

\* OpGo() writes the step of a thread and nothing else of it.
LEMMA WentOn ==
  ASSUME OInv, NEW t \in OpThreads, NEW step \in OpSteps, opThread[t].at # "idle",
         OpGo(t, step)
  PROVE  /\ opThread' \in [OpThreads -> OpWork \cup {OpIdle}]
         /\ opThread'[t].at = step /\ opThread'[t].k = opThread[t].k
         /\ \A u \in OpThreads : u # t => opThread'[u] = opThread[u]
<1>1. PICK w \in OpWork : w = opThread[t]
  BY OpTyped
<1>2. opThread' = [opThread EXCEPT ![t] = [w EXCEPT !.at = step]]
  BY <1>1 DEF OpGo
<1>3. [w EXCEPT !.at = step] \in OpWork /\ [w EXCEPT !.at = step].at = step
      /\ [w EXCEPT !.at = step].k = w.k
  BY DEF OpWork
<1>4. QED
  BY <1>1, <1>2, <1>3 DEF OInv, OpTypeOK

\* A step in which one thread moves, and not to the broker, keeps the invariant if the
\* thread has claimed its key and earned what it says.
LEMMA ThreadMoves ==
  ASSUME OInv, NEW t \in OpThreads,
         UNCHANGED <<opInst, opRow, opQueue, opBroker, opSent, opRuns, opRestarts>>,
         opThread' \in [OpThreads -> OpWork \cup {OpIdle}],
         \A u \in OpThreads : u # t => opThread'[u] = opThread[u],
         opThread'[t].at # "await",
         opThread'[t].at \notin {"idle", "claim"} => opRow[opThread'[t].k].response # "none",
         opThread'[t].at \in {"verify", "done"} => RestartedFor(opThread'[t].k, FALSE)
  PROVE  OInv'
<1> USE DEF OInv
<1>1. OpTypeOK'
  BY DEF OpTypeOK
<1>2. KeysClaimed' /\ ProcessesPassed' /\ OneReloadPerProcess'
  BY DEF KeysClaimed, ProcessesPassed, OneReloadPerProcess
<1>3. RequestsAreTheirs'
  BY DEF RequestsAreTheirs
<1>4. \A k, recovery : RestartsOf(k, recovery)' = RestartsOf(k, recovery)
  BY DEF RestartsOf
<1>5. AnswersAreEarned'
  BY <1>4 DEF AnswersAreEarned, RestartedFor, SucceededIsTrue
<1>6. QED
  BY <1>1, <1>2, <1>3, <1>5

\* A call begins; its preconditions are checked; it hangs up or is too late.
LEMMA CallSteps ==
  ASSUME OInv, NEW t \in OpThreads,
         \/ \E k \in OpKeys, pid \in 1..MaxInst : BeginTyped(t, k, pid)
         \/ CheckPreconditions(t) \/ HangUp(t) \/ TooLate(t)
  PROVE  OInv'
<1>0. UNCHANGED <<opInst, opRow, opQueue, opBroker, opSent, opRuns, opRestarts>>
  BY DEF BeginTyped, CheckPreconditions, HangUp, TooLate, opHost, opLog
<1>1. ASSUME NEW k \in OpKeys, NEW pid \in 1..MaxInst, BeginTyped(t, k, pid)
      PROVE  OInv'
  <2> DEFINE w == [at |-> "claim", k |-> k, pid |-> pid, n |-> 0]
  <2>1. w \in OpWork /\ w.at = "claim" /\ opThread' = [opThread EXCEPT ![t] = w]
    BY <1>1, OpBounds DEF OpWork, OpSteps, BeginTyped
  <2> HIDE DEF w
  <2>2. /\ opThread' \in [OpThreads -> OpWork \cup {OpIdle}] /\ opThread'[t].at = "claim"
        /\ \A u \in OpThreads : u # t => opThread'[u] = opThread[u]
    BY <2>1 DEF OInv, OpTypeOK
  <2>3. QED
    BY <1>0, <2>2, ThreadMoves
<1>2. ASSUME CheckPreconditions(t) \/ HangUp(t) \/ TooLate(t)
      PROVE  OInv'
  <2>1. PICK step \in {"submit", "fail"} : OpGo(t, step)
    BY <1>2 DEF CheckPreconditions, HangUp, TooLate
  <2>2. opThread[t].at \notin {"idle", "claim"} /\ step \in OpSteps
    BY <1>2 DEF CheckPreconditions, HangUp, TooLate, OpSteps
  <2>3. opRow[opThread[t].k].response # "none"
    BY <2>2 DEF OInv, KeysClaimed
  <2>4. /\ opThread' \in [OpThreads -> OpWork \cup {OpIdle}]
        /\ opThread'[t].at = step /\ opThread'[t].k = opThread[t].k
        /\ \A u \in OpThreads : u # t => opThread'[u] = opThread[u]
    BY <2>1, <2>2, WentOn
  <2>5. QED
    BY <1>0, <2>3, <2>4, ThreadMoves
<1>3. QED
  BY <1>1, <1>2

\* _idempotency_claim(): an execution starts only for a key without a row.
LEMMA ClaimStep ==
  ASSUME OInv, NEW t \in OpThreads, ClaimKey(t)
  PROVE  OInv'
<1> USE DEF OInv
<1>0. /\ opThread[t].at = "claim"
      /\ UNCHANGED <<opInst, opQueue, opBroker, opSent, opRestarts>>
  BY DEF ClaimKey, opHost
<1>1. PICK k \in OpKeys : k = opThread[t].k
  BY <1>0, OpTyped
<1>2. CASE MayClaim(k)
  <2>1. /\ opRow' = [opRow EXCEPT ![k] = [pid |-> opThread[t].pid, response |-> ""]]
        /\ opRuns' = [opRuns EXCEPT ![k] = opRuns[k] + 1]
        /\ OpGo(t, "check")
    BY <1>1, <1>2 DEF ClaimKey, OpTypeOK
  <2>2. [pid |-> opThread[t].pid, response |-> ""] \in OpRows
    BY <1>0, OpTyped DEF OpRows
  <2>3. /\ opRow' \in [OpKeys -> OpRows] /\ opRow'[k].response = ""
        /\ \A j \in OpKeys : j # k => opRow'[j] = opRow[j]
    BY <2>1, <2>2 DEF OpTypeOK
  <2>4. opRow[k].response = "none"
    BY <1>2 DEF MayClaim, NoRow
  <2>5. /\ opRuns' \in [OpKeys -> Nat] /\ opRuns'[k] = 1
        /\ \A j \in OpKeys : j # k => opRuns'[j] = opRuns[j]
    <3>1. opRuns[k] = 0 /\ opRuns \in [OpKeys -> Nat]
      BY <2>4 DEF OpTypeOK, KeysClaimed
    <3>2. PICK m \in Nat : m = opRuns[k] + 1 /\ m = 1
      BY <3>1
    <3>3. opRuns' = [opRuns EXCEPT ![k] = m]
      BY <2>1, <3>2
    <3>4. QED
      BY <3>1, <3>2, <3>3
  <2>6. /\ opThread' \in [OpThreads -> OpWork \cup {OpIdle}]
        /\ opThread'[t].at = "check" /\ opThread'[t].k = k
        /\ \A u \in OpThreads : u # t => opThread'[u] = opThread[u]
    BY <1>0, <1>1, <2>1, WentOn DEF OpSteps
  <2>7. OpTypeOK'
    BY <1>0, <2>3, <2>5, <2>6 DEF OpTypeOK
  <2>8. KeysClaimed'
    <3>1. \A j \in OpKeys : opRuns'[j] <= 1 /\ (opRow'[j].response = "none" => opRuns'[j] = 0)
      <4>1. ASSUME NEW j \in OpKeys
            PROVE  opRuns'[j] <= 1 /\ (opRow'[j].response = "none" => opRuns'[j] = 0)
        <5>1. CASE j = k
          <6>1. opRow'[k].response # "none"
            BY <2>3
          <6>2. opRuns'[k] <= 1
            BY <2>5
          <6>3. QED
            BY <5>1, <6>1, <6>2
        <5>2. CASE j # k
          BY <2>3, <2>5, <5>2 DEF KeysClaimed
        <5>3. QED
          BY <5>1, <5>2
      <4>2. QED
        BY <4>1
    <3>2. ASSUME NEW u \in OpThreads, opThread'[u].at \notin {"idle", "claim"}
          PROVE  opRow'[opThread'[u].k].response # "none"
      <4>1. CASE u = t
        BY <2>3, <2>6, <4>1
      <4>2. CASE u # t
        BY <2>3, <2>6, <3>2, <4>2, OpTyped DEF KeysClaimed
      <4>3. QED
        BY <4>1, <4>2
    <3>3. QED
      BY <3>1, <3>2 DEF KeysClaimed
  <2>9. ProcessesPassed' /\ OneReloadPerProcess'
    BY <1>0 DEF ProcessesPassed, OneReloadPerProcess
  <2>10. RequestsAreTheirs'
    BY <1>0, <2>6 DEF RequestsAreTheirs
  <2>11. AnswersAreEarned'
    <3>1. \A j, recovery : RestartsOf(j, recovery)' = RestartsOf(j, recovery)
      BY <1>0 DEF RestartsOf
    <3>2. QED
      BY <1>0, <2>3, <2>6, <3>1 DEF AnswersAreEarned, RestartedFor, SucceededIsTrue
  <2>12. QED
    BY <2>7, <2>8, <2>9, <2>10, <2>11
<1>3. CASE ~MayClaim(k)
  <2>1. opThread' = [opThread EXCEPT ![t] = OpIdle] /\ UNCHANGED <<opRow, opRuns>>
    BY <1>1, <1>3 DEF ClaimKey
  <2>2. /\ opThread' \in [OpThreads -> OpWork \cup {OpIdle}] /\ opThread'[t].at = "idle"
        /\ \A u \in OpThreads : u # t => opThread'[u] = opThread[u]
    BY <2>1 DEF OpTypeOK, OpIdle
  <2>3. QED
    BY <1>0, <2>1, <2>2, ThreadMoves
<1>4. QED
  BY <1>2, <1>3

\* A request goes to the backlog under a number of its own.
LEMMA SendStep ==
  ASSUME OInv, NEW t \in OpThreads, NEW pid \in Nat, NEW recovery \in BOOLEAN,
         NEW then \in {"await", "recover"}, then = "await" => ~recovery,
         opThread[t].at \notin {"idle", "claim"},
         Send(t, pid, recovery, then), UNCHANGED <<opInst, opRow, opBroker, opRuns, opRestarts>>
  PROVE  OInv'
<1> USE DEF OInv
<1>1. PICK w \in OpWork : w = opThread[t] /\ w.k \in OpKeys
  BY OpTyped
<1>2. PICK m \in Nat : m = opSent + 1 /\ opSent \in Nat /\ ~(m <= opSent)
  BY OpTyped
<1>3. PICK req \in OpReqs : /\ req = [n |-> m, k |-> w.k, pid |-> pid, recovery |-> recovery]
                            /\ req.n = m /\ req.k = w.k /\ req.recovery = recovery
  <2> DEFINE r == [n |-> m, k |-> w.k, pid |-> pid, recovery |-> recovery]
  <2>1. r \in OpReqs
    BY <1>1, <1>2 DEF OpReqs
  <2>2. r.n = m /\ r.k = w.k /\ r.recovery = recovery
    OBVIOUS
  <2>3. QED
    BY <2>1, <2>2
<1>4. /\ opSent' = m /\ opQueue' = Append(opQueue, req)
      /\ opThread' = [opThread EXCEPT ![t].at = then, ![t].n = m]
  BY <1>1, <1>2, <1>3 DEF Send
<1>5. /\ opThread' \in [OpThreads -> OpWork \cup {OpIdle}]
      /\ opThread'[t].at = then /\ opThread'[t].k = w.k /\ opThread'[t].n = m
      /\ \A u \in OpThreads : u # t => opThread'[u] = opThread[u]
  <2>1. PICK new : new = [w EXCEPT !.at = then, !.n = m]
    OBVIOUS
  <2>2. opThread' = [opThread EXCEPT ![t] = new]
    BY <1>1, <1>4, <2>1 DEF OpTypeOK
  <2>3. new \in OpWork /\ new.at = then /\ new.k = w.k /\ new.n = m
    <3>1. CASE w \in [at : OpSteps, k : OpKeys, pid : Nat, n : Nat]
      BY <2>1, <3>1 DEF OpWork, OpSteps
    <3>2. CASE w \in [at : OpSteps, k : OpKeys, pid : Nat, n : Nat, after : Nat]
      BY <2>1, <3>2 DEF OpWork, OpSteps
    <3>3. QED
      BY <3>1, <3>2 DEF OpWork
  <2>4. QED
    BY <2>2, <2>3 DEF OpTypeOK
<1>6. /\ opQueue' \in Seq(OpReqs)
      /\ \A i \in DOMAIN opQueue' : opQueue'[i] = req \/ (i \in DOMAIN opQueue /\ opQueue'[i] = opQueue[i])
  <2>1. /\ opQueue' \in Seq(OpReqs) /\ Len(opQueue') = Len(opQueue) + 1
        /\ \A i \in 1..Len(opQueue) : opQueue'[i] = opQueue[i]
        /\ opQueue'[Len(opQueue) + 1] = req
    BY <1>4, AppendProperties DEF OpTypeOK
  <2>2. DOMAIN opQueue' = 1..(Len(opQueue) + 1) /\ DOMAIN opQueue = 1..Len(opQueue) /\ Len(opQueue) \in Nat
    BY <2>1, LenProperties DEF OpTypeOK
  <2>3. QED
    BY <2>1, <2>2
<1>7. OpTypeOK'
  BY <1>4, <1>5, <1>6 DEF OpTypeOK
<1>8. KeysClaimed'
  BY <1>1, <1>5 DEF KeysClaimed
<1>9. ProcessesPassed' /\ OneReloadPerProcess'
  BY DEF ProcessesPassed, OneReloadPerProcess
<1>10. RequestsAreTheirs'
  <2>1. \A i \in DOMAIN opQueue' : opQueue'[i].n <= opSent'
    BY <1>2, <1>3, <1>4, <1>6, OpTyped DEF RequestsAreTheirs
  <2>2. opBroker'.at \in {"restart", "observe", "answer"} =>
          opBroker'.q.n <= opSent' /\ opBroker'.q.n # m
    BY <1>2, <1>4, OpTyped DEF RequestsAreTheirs
  <2>3. ASSUME NEW u \in OpThreads, opThread'[u].at = "await"
        PROVE  /\ opThread'[u].n <= opSent'
               /\ \A i \in DOMAIN opQueue' : opQueue'[i].n = opThread'[u].n =>
                    opQueue'[i].k = opThread'[u].k /\ ~opQueue'[i].recovery
               /\ opBroker'.at \in {"restart", "observe", "answer"} /\ opBroker'.q.n = opThread'[u].n =>
                    opBroker'.q.k = opThread'[u].k /\ ~opBroker'.q.recovery
    <3>1. CASE u = t
      <4>1. \A i \in DOMAIN opQueue : opQueue[i].n # m
        BY <1>2, OpTyped DEF RequestsAreTheirs
      <4>2. QED
        BY <1>2, <1>3, <1>4, <1>5, <1>6, <2>2, <2>3, <3>1, <4>1
    <3>2. CASE u # t
      <4>1. opThread'[u] = opThread[u] /\ opThread[u].n <= opSent /\ opThread[u].n \in Nat
        BY <1>5, <2>3, <3>2, OpTyped DEF RequestsAreTheirs
      <4>2. opThread[u].n # m /\ opThread[u].n <= opSent'
        BY <1>2, <1>4, <4>1
      <4>3. QED
        BY <1>3, <1>6, <2>3, <4>1, <4>2 DEF RequestsAreTheirs
    <3>3. QED
      BY <3>1, <3>2
  <2>4. QED
    BY <2>1, <2>2, <2>3 DEF RequestsAreTheirs
<1>11. AnswersAreEarned'
  <2>1. \A j, rec : RestartsOf(j, rec)' = RestartsOf(j, rec)
    BY DEF RestartsOf
  <2>2. QED
    BY <1>5, <2>1 DEF AnswersAreEarned, RestartedFor, SucceededIsTrue
<1>12. QED
  BY <1>7, <1>8, <1>9, <1>10, <1>11

\* _broker_reload() sends the request of the thread, or finds nobody listening.
LEMMA SubmitStep ==
  ASSUME OInv, NEW t \in OpThreads, SubmitReload(t)
  PROVE  OInv'
<1>0. /\ opThread[t].at = "submit"
      /\ UNCHANGED <<opInst, opRow, opBroker, opRuns, opRestarts>>
  BY DEF SubmitReload, opHost, opLog
<1>1. opRow[opThread[t].k].response # "none" /\ opThread[t].pid \in Nat
  BY <1>0, OpTyped DEF OInv, KeysClaimed
<1>2. CASE opBroker.at = "down"
  <2>1. OpGo(t, "fail") /\ UNCHANGED <<opQueue, opSent>>
    BY <1>2 DEF SubmitReload
  <2>2. /\ opThread' \in [OpThreads -> OpWork \cup {OpIdle}]
        /\ opThread'[t].at = "fail" /\ opThread'[t].k = opThread[t].k
        /\ \A u \in OpThreads : u # t => opThread'[u] = opThread[u]
    BY <1>0, <2>1, WentOn DEF OpSteps
  <2>3. QED
    BY <1>0, <1>1, <2>1, <2>2, ThreadMoves
<1>3. CASE opBroker.at # "down"
  <2>1. PICK pid \in Nat : Send(t, pid, FALSE, "await")
    BY <1>1, <1>3 DEF SubmitReload
  <2>2. QED
    BY <1>0, <2>1, SendStep
<1>4. QED
  BY <1>2, <1>3

\* The checks after the reload end the run, or send a recovery for it.
LEMMA VerifyStep ==
  ASSUME OInv, NEW t \in OpThreads, VerifyReload(t)
  PROVE  OInv'
<1>0. /\ opThread[t].at = "verify"
      /\ UNCHANGED <<opInst, opRow, opBroker, opRuns, opRestarts>>
  BY DEF VerifyReload, opHost, opLog
<1>1. opRow[opThread[t].k].response # "none" /\ RestartedFor(opThread[t].k, FALSE) /\ opInst \in Nat
  BY <1>0, OpTyped DEF OInv, KeysClaimed, AnswersAreEarned
<1>2. ASSUME NEW step \in {"done", "fail"}, OpGo(t, step), UNCHANGED <<opQueue, opSent>>
      PROVE  OInv'
  <2>1. /\ opThread' \in [OpThreads -> OpWork \cup {OpIdle}]
        /\ opThread'[t].at = step /\ opThread'[t].k = opThread[t].k
        /\ \A u \in OpThreads : u # t => opThread'[u] = opThread[u]
    BY <1>0, <1>2, WentOn DEF OpSteps
  <2>2. QED
    BY <1>0, <1>1, <1>2, <2>1, ThreadMoves
<1>3. ASSUME Send(t, opInst, TRUE, "recover")
      PROVE  OInv'
  <2>1. PICK pid \in Nat : Send(t, pid, TRUE, "recover")
    BY <1>1, <1>3
  <2>2. QED
    BY <1>0, <2>1, SendStep
<1>4. QED
  BY <1>2, <1>3 DEF VerifyReload

\* _idempotency_complete(): only a run that is done is stored as succeeded.
LEMMA CompleteStep ==
  ASSUME OInv, NEW t \in OpThreads, CompleteKey(t)
  PROVE  OInv'
<1> USE DEF OInv
<1>0. /\ opThread[t].at \in {"done", "fail"}
      /\ UNCHANGED <<opInst, opQueue, opBroker, opSent, opRuns, opRestarts>>
  BY DEF CompleteKey, opHost, opLog
<1>1. PICK k \in OpKeys : k = opThread[t].k
  BY <1>0, OpTyped
<1>2. PICK answer \in {"succeeded", "failed"} :
        /\ opRow' = [opRow EXCEPT ![k].response = answer]
        /\ answer = "succeeded" => opThread[t].at = "done"
  BY <1>0, <1>1 DEF CompleteKey
<1>3. /\ opRow' \in [OpKeys -> OpRows] /\ opRow'[k].response = answer
      /\ \A j \in OpKeys : j # k => opRow'[j] = opRow[j]
  <2>1. PICK row \in OpRows : row = opRow[k]
    BY DEF OpTypeOK
  <2>2. [row EXCEPT !.response = answer] \in OpRows /\ [row EXCEPT !.response = answer].response = answer
    BY DEF OpRows
  <2>3. opRow' = [opRow EXCEPT ![k] = [row EXCEPT !.response = answer]]
    BY <1>2, <2>1
  <2>4. QED
    BY <2>2, <2>3 DEF OpTypeOK
<1>4. /\ opThread' \in [OpThreads -> OpWork \cup {OpIdle}] /\ opThread'[t].at = "idle"
      /\ \A u \in OpThreads : u # t => opThread'[u] = opThread[u]
  BY DEF CompleteKey, OpTypeOK, OpIdle
<1>5. OpTypeOK'
  BY <1>0, <1>3, <1>4 DEF OpTypeOK
<1>6. KeysClaimed'
  <2>1. \A j \in OpKeys : opRow'[j].response = "none" => opRow[j].response = "none"
    BY <1>3
  <2>2. ASSUME NEW u \in OpThreads, opThread'[u].at \notin {"idle", "claim"}
        PROVE  opRow'[opThread'[u].k].response # "none"
    <3>1. u # t /\ opThread'[u] = opThread[u] /\ opThread[u].k \in OpKeys
      BY <1>4, <2>2, OpTyped
    <3>2. QED
      BY <2>1, <2>2, <3>1 DEF KeysClaimed
  <2>3. QED
    BY <1>0, <2>1, <2>2 DEF KeysClaimed
<1>7. ProcessesPassed' /\ OneReloadPerProcess'
  BY <1>0 DEF ProcessesPassed, OneReloadPerProcess
<1>8. RequestsAreTheirs'
  BY <1>0, <1>4 DEF RequestsAreTheirs
<1>9. AnswersAreEarned'
  <2>1. \A j, recovery : RestartsOf(j, recovery)' = RestartsOf(j, recovery)
    BY <1>0 DEF RestartsOf
  <2>2. answer = "succeeded" => RestartsOf(k, FALSE) # {}
    BY <1>1, <1>2 DEF AnswersAreEarned, RestartedFor
  <2>3. SucceededIsTrue'
    BY <1>3, <2>1, <2>2 DEF AnswersAreEarned, SucceededIsTrue
  <2>4. QED
    BY <1>0, <1>4, <2>1, <2>3 DEF AnswersAreEarned, RestartedFor
<1>10. QED
  BY <1>5, <1>6, <1>7, <1>8, <1>9

\* accept(): the process that the request expects is the one that is there.
LEMMA TakeStep ==
  ASSUME OInv, BrokerTakes
  PROVE  OInv'
<1> USE DEF OInv
<1>0. UNCHANGED <<opInst, opRow, opThread, opSent, opRuns, opRestarts>>
  BY DEF BrokerTakes, opHost, opLog
<1>1. PICK q \in OpReqs : q = Head(opQueue) /\ q = opQueue[1] /\ 1 \in DOMAIN opQueue
  <2>1. opQueue \in Seq(OpReqs) /\ opQueue # <<>>
    BY DEF BrokerTakes, OpTypeOK
  <2>2. Head(opQueue) = opQueue[1] /\ opQueue[1] \in OpReqs /\ 1 \in DOMAIN opQueue
    BY <2>1, HeadTailProperties, LenProperties, EmptySeq, ElementOfSeq
  <2>3. QED
    BY <2>2
<1>2. PICK at \in {"restart", "answer"} :
        /\ opBroker' = [at |-> at, q |-> q, before |-> opInst, ok |-> FALSE, after |-> 0]
        /\ at = "restart" => q.pid = opInst
  BY <1>1 DEF BrokerTakes, BrokerAccepts, AsExpected
<1>3. opBroker'.at = at /\ opBroker'.q = q /\ opBroker'.ok = FALSE /\ opBroker' \in OpServing
  BY <1>2, OpTyped DEF OpServing
<1>4. /\ opQueue' \in Seq(OpReqs)
      /\ \A i \in DOMAIN opQueue' : \E j \in DOMAIN opQueue : opQueue'[i] = opQueue[j]
  <2>1. /\ opQueue' \in Seq(OpReqs) /\ Len(opQueue') = Len(opQueue) - 1
        /\ \A i \in 1..Len(opQueue') : opQueue'[i] = opQueue[i + 1]
    BY HeadTailProperties DEF BrokerTakes, OpTypeOK
  <2>2. /\ DOMAIN opQueue' = 1..Len(opQueue') /\ DOMAIN opQueue = 1..Len(opQueue)
        /\ Len(opQueue) \in Nat
    BY <2>1, LenProperties DEF OpTypeOK
  <2>3. \A i \in 1..Len(opQueue') : i + 1 \in 1..Len(opQueue)
    BY <2>1, <2>2
  <2>4. QED
    BY <2>1, <2>2, <2>3
<1>5. OpTypeOK'
  BY <1>0, <1>3, <1>4 DEF OpTypeOK
<1>6. KeysClaimed' /\ OneReloadPerProcess'
  BY <1>0 DEF KeysClaimed, OneReloadPerProcess
<1>7. ProcessesPassed'
  <2>1. at = "restart" => /\ q.pid <= opInst
                          /\ \A i \in DOMAIN opRestarts :
                               ~opRestarts[i].recovery => opRestarts[i].pid # q.pid
    BY <1>2, OpTyped DEF ProcessesPassed
  <2>2. QED
    BY <1>0, <1>3, <2>1 DEF ProcessesPassed
<1>8. RequestsAreTheirs'
  <2>1. q.n <= opSent /\ \A i \in DOMAIN opQueue' : opQueue'[i].n <= opSent
    BY <1>1, <1>4 DEF RequestsAreTheirs
  <2>2. ASSUME NEW u \in OpThreads, opThread[u].at = "await"
        PROVE  /\ opThread[u].n <= opSent
               /\ \A i \in DOMAIN opQueue' : opQueue'[i].n = opThread[u].n =>
                    opQueue'[i].k = opThread[u].k /\ ~opQueue'[i].recovery
               /\ q.n = opThread[u].n => q.k = opThread[u].k /\ ~q.recovery
    BY <1>1, <1>4, <2>2 DEF RequestsAreTheirs
  <2>3. QED
    BY <1>0, <1>3, <2>1, <2>2 DEF RequestsAreTheirs
<1>9. AnswersAreEarned'
  <2>1. \A j, recovery : RestartsOf(j, recovery)' = RestartsOf(j, recovery)
    BY <1>0 DEF RestartsOf
  <2>2. QED
    BY <1>0, <1>3, <2>1 DEF AnswersAreEarned, RestartedFor, SucceededIsTrue
<1>10. QED
  BY <1>5, <1>6, <1>7, <1>8, <1>9

\* The broker goes on with the request it serves: it keeps the invariant if what it
\* says is earned and it does not start another restart.
LEMMA BrokerGoesOn ==
  ASSUME OInv, opBroker.at \in {"restart", "observe", "answer"},
         UNCHANGED <<opInst, opRow, opThread, opQueue, opSent, opRuns, opRestarts>>,
         opBroker' \in OpServing, opBroker'.q = opBroker.q,
         opBroker'.at = "answer",
         opBroker'.ok => RestartedFor(opBroker.q.k, opBroker.q.recovery)
  PROVE  OInv'
<1> USE DEF OInv
<1>1. OpTypeOK'
  BY DEF OpTypeOK
<1>2. KeysClaimed' /\ OneReloadPerProcess' /\ ProcessesPassed'
  BY DEF KeysClaimed, OneReloadPerProcess, ProcessesPassed
<1>3. RequestsAreTheirs'
  BY DEF RequestsAreTheirs
<1>4. \A k, recovery : RestartsOf(k, recovery)' = RestartsOf(k, recovery)
  BY DEF RestartsOf
<1>5. AnswersAreEarned'
  BY <1>4 DEF AnswersAreEarned, RestartedFor, SucceededIsTrue
<1>6. QED
  BY <1>1, <1>2, <1>3, <1>5

\* systemctl restart: the process that is replaced was not replaced before.
LEMMA RestartStep ==
  ASSUME OInv, BrokerRestarts
  PROVE  OInv'
<1> USE DEF OInv
<1>0. /\ opBroker.at = "restart"
      /\ UNCHANGED <<opRow, opThread, opQueue, opSent, opRuns>>
  BY DEF BrokerRestarts
<1>1. PICK b \in OpServing : b = opBroker /\ b.q \in OpReqs /\ b.q.k \in OpKeys
                              /\ b.q.pid \in Nat /\ b.q.recovery \in BOOLEAN /\ ~b.ok
  BY <1>0, OpTyped DEF AnswersAreEarned
<1>2. CASE opUp' = FALSE /\ opBroker' = [opBroker EXCEPT !.at = RestartFailed]
           /\ UNCHANGED <<opInst, opRestarts>>
  <2>1. [b EXCEPT !.at = "answer"] \in OpServing /\ [b EXCEPT !.at = "answer"].q = b.q
        /\ [b EXCEPT !.at = "answer"].at = "answer" /\ ~[b EXCEPT !.at = "answer"].ok
    BY <1>1 DEF OpServing
  <2>2. QED
    BY <1>0, <1>1, <1>2, <2>1, BrokerGoesOn DEF RestartFailed
<1>3. CASE /\ opInst' = opInst + 1
           /\ opRestarts' = Append(opRestarts,
                [k |-> opBroker.q.k, pid |-> opBroker.q.pid, recovery |-> opBroker.q.recovery])
           /\ opBroker' = [opBroker EXCEPT !.at = "observe"]
  <2>1. PICK r \in OpRestartRows :
          /\ opRestarts' = Append(opRestarts, r)
          /\ r.k = b.q.k /\ r.pid = b.q.pid /\ r.recovery = b.q.recovery
    <3> DEFINE row == [k |-> b.q.k, pid |-> b.q.pid, recovery |-> b.q.recovery]
    <3>1. row \in OpRestartRows
      BY <1>1 DEF OpRestartRows
    <3>2. row.k = b.q.k /\ row.pid = b.q.pid /\ row.recovery = b.q.recovery
      OBVIOUS
    <3>3. QED
      BY <1>1, <1>3, <3>1, <3>2
  <2>2. opBroker' \in OpServing /\ opBroker'.at = "observe" /\ opBroker'.q = b.q
    <3>1. opBroker' = [b EXCEPT !.at = "observe"]
      BY <1>1, <1>3
    <3>2. QED
      BY <3>1 DEF OpServing
  <2>3. PICK m \in Nat : m = Len(opRestarts) + 1 /\ ~(m \in DOMAIN opRestarts)
    BY LenProperties DEF OpTypeOK
  <2>4. /\ opRestarts' \in Seq(OpRestartRows)
        /\ DOMAIN opRestarts' = DOMAIN opRestarts \cup {m}
        /\ \A i \in DOMAIN opRestarts : opRestarts'[i] = opRestarts[i]
        /\ opRestarts'[m] = r
    <3>1. /\ opRestarts' \in Seq(OpRestartRows) /\ Len(opRestarts') = Len(opRestarts) + 1
          /\ \A i \in 1..Len(opRestarts) : opRestarts'[i] = opRestarts[i]
          /\ opRestarts'[Len(opRestarts) + 1] = r
      BY <2>1, AppendProperties DEF OpTypeOK
    <3>2. /\ DOMAIN opRestarts' = 1..(Len(opRestarts) + 1) /\ DOMAIN opRestarts = 1..Len(opRestarts)
          /\ Len(opRestarts) \in Nat
      BY <3>1, LenProperties DEF OpTypeOK
    <3>3. QED
      BY <2>3, <3>1, <3>2
  <2>5. opInst \in Nat /\ opInst' \in Nat /\ opInst < opInst'
    BY <1>3, OpTyped
  <2>6. OpTypeOK'
    BY <1>0, <2>2, <2>4, <2>5 DEF OpTypeOK
  <2>7. KeysClaimed'
    BY <1>0 DEF KeysClaimed
  <2>8. ~b.q.recovery => /\ b.q.pid < opInst'
                         /\ \A i \in DOMAIN opRestarts :
                              ~opRestarts[i].recovery => opRestarts[i].pid # b.q.pid
    BY <1>0, <1>1, <2>5 DEF ProcessesPassed
  <2>9. \A i \in DOMAIN opRestarts : ~opRestarts[i].recovery => opRestarts[i].pid < opInst'
    BY <2>5, OpTyped DEF ProcessesPassed
  <2>10. ProcessesPassed'
    BY <2>1, <2>2, <2>4, <2>8, <2>9 DEF ProcessesPassed
  <2>11. OneReloadPerProcess'
    BY <2>1, <2>4, <2>8 DEF OneReloadPerProcess
  <2>12. RequestsAreTheirs'
    BY <1>0, <1>1, <2>2 DEF RequestsAreTheirs
  <2>13. /\ \A k, recovery : RestartedFor(k, recovery) => RestartedFor(k, recovery)'
         /\ RestartedFor(b.q.k, b.q.recovery)'
    <3>1. ASSUME NEW k, NEW recovery, NEW i \in RestartsOf(k, recovery)
          PROVE  i \in RestartsOf(k, recovery)'
      BY <2>4, <3>1 DEF RestartsOf
    <3>2. m \in {i \in DOMAIN opRestarts' : opRestarts'[i].k = b.q.k
                                            /\ opRestarts'[i].recovery = b.q.recovery}
      BY <2>1, <2>4
    <3>3. QED
      BY <3>1, <3>2 DEF RestartedFor, RestartsOf
  <2>14. AnswersAreEarned'
    <3>1. SucceededIsTrue'
      BY <1>0, <2>13 DEF AnswersAreEarned, SucceededIsTrue, RestartedFor
    <3>2. \A t \in OpThreads : opThread'[t].at \in {"verify", "done"} =>
            RestartedFor(opThread[t].k, FALSE)'
      BY <1>0, <2>13 DEF AnswersAreEarned
    <3>3. QED
      BY <1>0, <2>2, <2>13, <3>1, <3>2 DEF AnswersAreEarned
  <2>15. QED
    BY <2>6, <2>7, <2>10, <2>11, <2>12, <2>14
<1>4. QED
  BY <1>2, <1>3 DEF BrokerRestarts

\* The checks of the broker after its restart.
LEMMA ObserveStep ==
  ASSUME OInv, BrokerObserves
  PROVE  OInv'
<1> USE DEF OInv
<1>0. /\ opBroker.at = "observe"
      /\ UNCHANGED <<opInst, opRow, opThread, opQueue, opSent, opRuns, opRestarts>>
  BY DEF BrokerObserves, opHost, opLog
<1>1. PICK b \in OpServing : b = opBroker
  BY <1>0, OpTyped
<1>2. PICK ok \in BOOLEAN : opBroker' = [b EXCEPT !.at = "answer", !.after = opInst, !.ok = ok]
  BY <1>1 DEF BrokerObserves
<1>3. opBroker' \in OpServing /\ opBroker'.q = b.q /\ opBroker'.at = "answer"
  BY <1>2, OpTyped DEF OpServing
<1>4. RestartedFor(opBroker.q.k, opBroker.q.recovery)
  BY <1>0 DEF AnswersAreEarned
<1>5. QED
  BY <1>0, <1>1, <1>3, <1>4, BrokerGoesOn

\* A step in which the broker drops its request, its backlog or both, threads end or
\* go on with what they have earned, and the console may be replaced.
LEMMA QuietStep ==
  ASSUME OInv, UNCHANGED <<opRow, opSent, opRuns, opRestarts>>,
         opInst' \in Nat, opInst <= opInst',
         opQueue' = opQueue \/ opQueue' = <<>>,
         opBroker' = opBroker \/ opBroker' \in {BrokerIdle, [at |-> "down"]},
         opThread' \in [OpThreads -> OpWork \cup {OpIdle}],
         \A u \in OpThreads :
           \/ opThread'[u] = opThread[u]
           \/ opThread'[u].at = "idle"
           \/ /\ opThread'[u].at \in {"verify", "fail"}
              /\ opRow[opThread'[u].k].response # "none"
              /\ opThread'[u].at = "verify" => RestartedFor(opThread'[u].k, FALSE)
  PROVE  OInv'
<1> USE DEF OInv
<1>1. /\ opQueue' \in Seq(OpReqs)
      /\ \A i \in DOMAIN opQueue' : i \in DOMAIN opQueue /\ opQueue'[i] = opQueue[i]
  <2>1. CASE opQueue' = opQueue
    BY <2>1 DEF OpTypeOK
  <2>2. CASE opQueue' = <<>>
    <3>1. opQueue' \in Seq(OpReqs) /\ DOMAIN opQueue' = {}
      BY <2>2, EmptySeq
    <3>2. QED
      BY <3>1
  <2>3. QED
    BY <2>1, <2>2
<1>2. opBroker' = opBroker \/ opBroker'.at \in {"accept", "down"}
  BY DEF BrokerIdle
<1>3. OpTypeOK'
  BY <1>1 DEF OpTypeOK
<1>4. KeysClaimed' /\ OneReloadPerProcess'
  BY DEF KeysClaimed, OneReloadPerProcess
<1>5. ProcessesPassed'
  <2>1. \A i \in DOMAIN opRestarts : ~opRestarts[i].recovery => opRestarts[i].pid < opInst'
    BY OpTyped DEF ProcessesPassed
  <2>2. CASE opBroker' = opBroker
    BY <2>1, <2>2, OpTyped DEF ProcessesPassed
  <2>3. CASE opBroker'.at \in {"accept", "down"}
    BY <2>1, <2>3 DEF ProcessesPassed
  <2>4. QED
    BY <1>2, <2>2, <2>3
<1>6. RequestsAreTheirs'
  <2>1. \A i \in DOMAIN opQueue' : opQueue'[i].n <= opSent
    BY <1>1 DEF RequestsAreTheirs
  <2>2. opBroker'.at \in {"restart", "observe", "answer"} => opBroker' = opBroker
    BY <1>2
  <2>3. \A u \in OpThreads : opThread'[u].at = "await" => opThread'[u] = opThread[u]
    OBVIOUS
  <2>4. QED
    BY <1>1, <2>1, <2>2, <2>3 DEF RequestsAreTheirs
<1>7. AnswersAreEarned'
  <2>1. \A k, recovery : RestartsOf(k, recovery)' = RestartsOf(k, recovery)
    BY DEF RestartsOf
  <2>2. SucceededIsTrue'
    BY <2>1 DEF AnswersAreEarned, SucceededIsTrue
  <2>3. \A t \in OpThreads : opThread'[t].at \in {"verify", "done"} =>
          RestartsOf(opThread'[t].k, FALSE) # {}
    BY DEF AnswersAreEarned, RestartedFor
  <2>4. QED
    BY <1>2, <2>1, <2>2, <2>3 DEF AnswersAreEarned, RestartedFor
<1>8. QED
  BY <1>3, <1>4, <1>5, <1>6, <1>7

\* _send(): the thread that awaits the number being served sent that request, so a
\* good answer tells it of a restart for its own key.
LEMMA BrokerAnswerStep ==
  ASSUME OInv, BrokerAnswers
  PROVE  OInv'
<1>0. OpTypeOK /\ KeysClaimed /\ RequestsAreTheirs /\ AnswersAreEarned
  BY DEF OInv
<1>1. /\ opBroker.at = "answer" /\ opBroker \in OpServing
      /\ UNCHANGED <<opInst, opRow, opSent, opRuns, opRestarts>> /\ opInst \in Nat
  BY OpTyped DEF BrokerAnswers, opHost, opLog
<1>2. opInst' \in Nat /\ opInst <= opInst'
  BY <1>1
<1>3. CASE ~Awaits(opBroker.q.n)
  <2>1. opBroker' = [at |-> "down"] /\ opQueue' = <<>> /\ UNCHANGED opThread
    BY <1>3 DEF BrokerAnswers
  <2>2. opThread' \in [OpThreads -> OpWork \cup {OpIdle}]
    BY <1>0, <2>1 DEF OpTypeOK
  <2>3. QED
    BY <1>1, <2>1, <2>2, QuietStep
<1>4. CASE Awaits(opBroker.q.n)
  <2>1. PICK t \in OpThreads :
          /\ opThread[t].at \in {"await", "recover"} /\ opThread[t].n = opBroker.q.n
          /\ opThread' = [opThread EXCEPT ![t] =
               IF opThread[t].at = "await" /\ opBroker.ok
               THEN [at |-> "verify", k |-> opThread[t].k, pid |-> opThread[t].pid,
                     n |-> opThread[t].n, after |-> opBroker.after]
               ELSE [opThread[t] EXCEPT !.at = "fail"]]
    BY <1>0, <1>4 DEF BrokerAnswers, OpTypeOK
  <2>2. opBroker' = BrokerIdle /\ opQueue' = opQueue
    BY <1>4 DEF BrokerAnswers
  <2>3. PICK w \in OpWork : w = opThread[t] /\ w.k \in OpKeys /\ w.pid \in Nat /\ w.n \in Nat
    BY <2>1, OpTyped
  <2>4. opRow[w.k].response # "none"
    BY <1>0, <2>1, <2>3 DEF KeysClaimed
  <2>5. CASE w.at = "await" /\ opBroker.ok
    <3>1. PICK after \in Nat : after = opBroker.after
      BY <1>1 DEF OpServing
    <3> DEFINE new == [at |-> "verify", k |-> w.k, pid |-> w.pid, n |-> w.n, after |-> after]
    <3>2. new \in OpWork
      BY <2>3 DEF OpWork, OpSteps
    <3>3. new.at = "verify" /\ new.k = w.k
      OBVIOUS
    <3>4. opThread' = [opThread EXCEPT ![t] = new]
      BY <2>1, <2>3, <2>5, <3>1
    <3> HIDE DEF new
    <3>5. /\ opThread' \in [OpThreads -> OpWork \cup {OpIdle}]
          /\ opThread'[t] = new
          /\ \A u \in OpThreads : u # t => opThread'[u] = opThread[u]
      BY <1>0, <3>2, <3>4 DEF OpTypeOK
    <3>6. RestartedFor(w.k, FALSE)
      <4>1. opBroker.q.k = w.k /\ opBroker.q.recovery = FALSE
        BY <1>0, <1>1, <2>1, <2>3, <2>5, OpTyped DEF RequestsAreTheirs
      <4>2. QED
        BY <1>0, <1>1, <2>5, <4>1 DEF AnswersAreEarned
    <3>7. QED
      <4>1. /\ opThread'[t].at = "verify" /\ opRow[opThread'[t].k].response # "none"
            /\ RestartedFor(opThread'[t].k, FALSE)
        BY <2>4, <3>3, <3>5, <3>6
      <4>2. QED
        BY <1>1, <1>2, <2>2, <3>5, <4>1, QuietStep
  <2>6. CASE ~(w.at = "await" /\ opBroker.ok)
    <3>1. opThread' = [opThread EXCEPT ![t] = [w EXCEPT !.at = "fail"]]
      BY <2>1, <2>3, <2>6
    <3>2. [w EXCEPT !.at = "fail"] \in OpWork /\ [w EXCEPT !.at = "fail"].at = "fail"
          /\ [w EXCEPT !.at = "fail"].k = w.k
      BY DEF OpWork, OpSteps
    <3>3. /\ opThread' \in [OpThreads -> OpWork \cup {OpIdle}]
          /\ opThread'[t].at = "fail" /\ opThread'[t].k = w.k
          /\ \A u \in OpThreads : u # t => opThread'[u] = opThread[u]
      BY <1>0, <3>1, <3>2 DEF OpTypeOK
    <3>4. QED
      <4>1. opThread'[t].at = "fail" /\ opRow[opThread'[t].k].response # "none"
        BY <2>4, <3>3
      <4>2. QED
        BY <1>1, <1>2, <2>2, <3>3, <4>1, QuietStep
  <2>7. QED
    BY <2>5, <2>6
<1>5. QED
  BY <1>3, <1>4

\* Deaths and starts of either process, and what others do to the console.
LEMMA HostSteps ==
  ASSUME OInv,
         \/ BrokerDies \/ BrokerStarts \/ ApiDies \/ ConsoleRotates \/ SourceChanges
         \/ UNCHANGED opVars
  PROVE  OInv'
<1>1. UNCHANGED <<opRow, opSent, opRuns, opRestarts>>
  BY DEF BrokerDies, BrokerStarts, ApiDies, ConsoleRotates, SourceChanges, opVars, opHost, opLog
<1>2. opInst \in Nat /\ (opInst' = opInst \/ opInst' = opInst + 1)
  BY OpTyped DEF BrokerDies, BrokerStarts, ApiDies, ConsoleRotates, SourceChanges, opVars, opHost
<1>3. opInst' \in Nat /\ opInst <= opInst'
  BY <1>2
<1>4. /\ opQueue' = opQueue \/ opQueue' = <<>>
      /\ opBroker' = opBroker \/ opBroker' \in {BrokerIdle, [at |-> "down"]}
  BY DEF BrokerDies, BrokerStarts, ApiDies, ConsoleRotates, SourceChanges, opVars
<1>5. opThread' = opThread \/ opThread' = [t \in OpThreads |-> OpIdle]
  BY DEF BrokerDies, BrokerStarts, ApiDies, ConsoleRotates, SourceChanges, opVars
<1>6. OpIdle.at = "idle"
  BY DEF OpIdle
<1>7. /\ opThread' \in [OpThreads -> OpWork \cup {OpIdle}]
      /\ \A u \in OpThreads : opThread'[u] = opThread[u] \/ opThread'[u].at = "idle"
  BY <1>5, <1>6 DEF OInv, OpTypeOK
<1>8. QED
  BY <1>1, <1>3, <1>4, <1>7, QuietStep

\* Every step keeps the invariant.
LEMMA NextOInv == OInv /\ [OpNext]_opVars => OInv'
<1> SUFFICES ASSUME OInv, [OpNext]_opVars PROVE OInv'
  OBVIOUS
<1> HIDE DEF OInv
<1>1. ASSUME NEW t \in OpThreads,
             \/ \E k \in OpKeys, pid \in 1..MaxInst : BeginTyped(t, k, pid)
             \/ CheckPreconditions(t) \/ HangUp(t) \/ TooLate(t)
      PROVE  OInv'
  BY <1>1, CallSteps
<1>2. ASSUME NEW t \in OpThreads,
             ClaimKey(t) \/ SubmitReload(t) \/ VerifyReload(t) \/ CompleteKey(t)
      PROVE  OInv'
  BY <1>2, ClaimStep, SubmitStep, VerifyStep, CompleteStep
<1>3. ASSUME BrokerTakes \/ BrokerRestarts \/ BrokerObserves \/ BrokerAnswers
      PROVE  OInv'
  BY <1>3, TakeStep, RestartStep, ObserveStep, BrokerAnswerStep
<1>4. QED
  BY <1>1, <1>2, <1>3, HostSteps DEF OpNext

\* Whatever threads retry, hang up or die, and whatever the broker's backlog holds: a
\* key is executed once, no two reloads replace the same process, and a stored
\* "succeeded" stands for a restart of the console for that key.
THEOREM ReloadsStayExact == OpSpec => []ReloadsAreExact
<1>1. OInv => ReloadsAreExact
  BY DEF OInv, ReloadsAreExact, OneRunPerKey, KeysClaimed, AnswersAreEarned
<1>2. QED
  BY InitOInv, NextOInv, <1>1, PTL DEF OpSpec

----------------------------------------------------------------------------
\* PreparationNonces: a signed request of the preparation API is accepted at most
\* once, in every configuration in which nonces are kept for twice the skew and the
\* wait for the lock.

Claims == [at : {"claim"}, nonce : Nonces, now : Nat]

PnTypeOK ==
  /\ pnNow \in Nat
  /\ pnSigned \in [Nonces -> Nat]
  /\ pnRows \subseteq Nonces \X Nat
  /\ pnThread \in [PnThreads -> {PnIdle} \cup Claims]
  /\ pnAccepted \in [Nonces -> Nat]

\* What a request that waits for the lock has been checked for.
Checked(c) ==
  /\ pnSigned[c.nonce] # 0
  /\ c.now <= pnNow
  /\ c.now <= pnSigned[c.nonce] + PnSkew
  /\ pnSigned[c.nonce] <= c.now + PnSkew

ClaimsAreChecked ==
  \A t \in PnThreads : pnThread[t].at = "claim" => Checked(pnThread[t])

\* The nonce of an accepted request is in the table, with a time near the
\* request's timestamp, or it is too late for any claim of it.
Remembered(n) == \E u \in Nat : <<n, u>> \in pnRows /\ pnSigned[n] <= u + PnSkew
TooLateFor(n) == pnSigned[n] + PnSkew + LockWait < pnNow
AcceptedIsKnown ==
  \A n \in Nonces : pnAccepted[n] # 0 =>
    pnSigned[n] # 0 /\ (Remembered(n) \/ TooLateFor(n))

PnInv == PnTypeOK /\ ClaimsAreChecked /\ AcceptedIsKnown /\ AcceptedOnce
----------------------------------------------------------------------------
\* Nothing has been signed or accepted when the store is created (_claim_nonce()
\* makes the table).
LEMMA InitHolds == PnInit => PnInv
  BY DEF PnInit, PnInv, PnTypeOK, ClaimsAreChecked, AcceptedIsKnown, AcceptedOnce, PnIdle

\* A step that changes neither rows nor acceptances, keeps signed timestamps and
\* does not turn back the clock keeps what is known of accepted requests.
LEMMA KnownStays ==
  ASSUME PnInv, pnNow' \in Nat, pnNow <= pnNow',
         pnRows' = pnRows, pnAccepted' = pnAccepted,
         \A n \in Nonces : pnSigned[n] # 0 => pnSigned'[n] = pnSigned[n]
  PROVE  AcceptedIsKnown' /\ AcceptedOnce'
  <1> SUFFICES ASSUME NEW n \in Nonces, pnAccepted[n] # 0
               PROVE  pnSigned'[n] # 0 /\ (Remembered(n)' \/ TooLateFor(n)')
    BY DEF AcceptedIsKnown, AcceptedOnce, PnInv
  <1>1. pnSigned'[n] = pnSigned[n] /\ pnSigned[n] # 0
    BY DEF PnInv, AcceptedIsKnown
  <1>2. CASE Remembered(n)
    BY <1>1, <1>2 DEF Remembered
  <1>3. CASE TooLateFor(n)
    BY <1>1, <1>3, PnAssumption DEF TooLateFor, PnInv, PnTypeOK
  <1> QED BY <1>2, <1>3 DEF PnInv, AcceptedIsKnown

\* build_headers(): only an unsigned nonce, which no request uses, is signed.
LEMMA SignKeeps ==
  ASSUME PnInv, NEW n \in Nonces, NEW stamp \in 1..MaxPnTime, SignRequest(n, stamp)
  PROVE  PnInv'
  <1>1. PnTypeOK'
    BY PnAssumption DEF PnInv, PnTypeOK, SignRequest
  <1>2. \A m \in Nonces : pnSigned[m] # 0 => pnSigned'[m] = pnSigned[m]
    BY DEF PnInv, PnTypeOK, SignRequest
  <1>3. ClaimsAreChecked'
    <2> SUFFICES ASSUME NEW t \in PnThreads, pnThread[t].at = "claim"
                 PROVE  Checked(pnThread[t])'
      BY DEF ClaimsAreChecked, SignRequest
    <2>1. pnThread[t].nonce \in Nonces
      BY DEF PnInv, PnTypeOK, Claims, PnIdle
    <2> QED BY <1>2, <2>1 DEF PnInv, ClaimsAreChecked, Checked, SignRequest
  <1>4. AcceptedIsKnown' /\ AcceptedOnce'
    BY <1>2, KnownStays DEF SignRequest, PnInv, PnTypeOK
  <1> QED BY <1>1, <1>3, <1>4 DEF PnInv

\* verify_request() up to the claim.
LEMMA CheckKeeps ==
  ASSUME PnInv, NEW t \in PnThreads, NEW n \in Nonces, CheckRequest(t, n)
  PROVE  PnInv'
  <1> DEFINE new == [at |-> "claim", nonce |-> n, now |-> pnNow]
  <1>1. PnTypeOK'
    BY DEF PnInv, PnTypeOK, CheckRequest, PnSet, Claims
  <1>2. ClaimsAreChecked'
    <2> SUFFICES ASSUME NEW s \in PnThreads, pnThread'[s].at = "claim"
                 PROVE  Checked(pnThread[s])'
      BY DEF ClaimsAreChecked
    <2>1. CASE s = t
      <3>1. pnThread'[s] = new
        BY <2>1 DEF CheckRequest, PnSet, PnInv, PnTypeOK
      <3>2. Distance(pnNow, pnSigned[n]) <= PnSkew /\ pnSigned[n] # 0
        BY DEF CheckRequest
      <3>3. pnNow <= pnSigned[n] + PnSkew /\ pnSigned[n] <= pnNow + PnSkew
        BY <3>2, PnAssumption DEF Distance, PnInv, PnTypeOK
      <3> QED BY <3>1, <3>2, <3>3 DEF Checked, CheckRequest, PnInv, PnTypeOK
    <2>2. CASE s # t
      <3>1. pnThread'[s] = pnThread[s]
        BY <2>2 DEF CheckRequest, PnSet, PnInv, PnTypeOK
      <3> QED BY <3>1 DEF PnInv, ClaimsAreChecked, Checked, CheckRequest
    <2> QED BY <2>1, <2>2
  <1>3. AcceptedIsKnown' /\ AcceptedOnce'
    BY KnownStays DEF CheckRequest, PnInv, PnTypeOK
  <1> QED BY <1>1, <1>2, <1>3 DEF PnInv

\* A thread that ends leaves the other claims as they are.
LEMMA OthersStayChecked ==
  ASSUME PnInv, NEW t \in PnThreads, PnSet(t, PnIdle), UNCHANGED <<pnNow, pnSigned>>
  PROVE  pnThread' \in [PnThreads -> {PnIdle} \cup Claims] /\ ClaimsAreChecked'
  <1>1. pnThread' \in [PnThreads -> {PnIdle} \cup Claims]
    BY DEF PnSet, PnInv, PnTypeOK
  <1>2. ASSUME NEW s \in PnThreads, pnThread'[s].at = "claim"
        PROVE  Checked(pnThread[s])'
    <2>1. s # t
      BY <1>2 DEF PnSet, PnInv, PnTypeOK, PnIdle
    <2>2. pnThread'[s] = pnThread[s]
      BY <2>1 DEF PnSet, PnInv, PnTypeOK
    <2> QED BY <1>2, <2>2 DEF PnInv, ClaimsAreChecked, Checked
  <1> QED BY <1>1, <1>2 DEF ClaimsAreChecked

\* _claim_nonce(). The nonce of an accepted request is found while its timestamp
\* passes; a row is deleted only when it is too late for its request.
LEMMA ClaimKeeps ==
  ASSUME PnInv, NEW t \in PnThreads, ClaimNonce(t)
  PROVE  PnInv'
  <1> DEFINE c == pnThread[t]
             kept == Unexpired(c.now)
             found == \E r \in kept : r[1] = c.nonce
  <1>1. c.at = "claim" /\ c.nonce \in Nonces /\ c.now \in Nat /\ Checked(c)
    BY DEF ClaimNonce, PnInv, PnTypeOK, ClaimsAreChecked, Claims, PnIdle
  <1>2. pnNow <= c.now + LockWait /\ UNCHANGED <<pnNow, pnSigned>> /\ PnSet(t, PnIdle)
    BY DEF ClaimNonce
  <1>3. pnThread' \in [PnThreads -> {PnIdle} \cup Claims] /\ ClaimsAreChecked'
    BY <1>2, OthersStayChecked
  <1>4. CASE found
    <2>1. UNCHANGED <<pnRows, pnAccepted>>
      BY <1>4 DEF ClaimNonce
    <2>2. AcceptedIsKnown' /\ AcceptedOnce'
      BY <1>2, <2>1, KnownStays DEF PnInv, PnTypeOK
    <2> QED BY <1>2, <1>3, <2>1, <2>2 DEF PnInv, PnTypeOK
  <1>5. CASE ~found
    <2>1. /\ pnRows' = kept \cup {<<c.nonce, c.now>>}
          /\ pnAccepted' = [pnAccepted EXCEPT ![c.nonce] = @ + 1]
      BY <1>5 DEF ClaimNonce
    <2>2. PnTypeOK'
      BY <1>1, <1>2, <1>3, <2>1 DEF PnInv, PnTypeOK, Unexpired
    <2>3. pnAccepted[c.nonce] = 0
      <3> SUFFICES ASSUME pnAccepted[c.nonce] # 0 PROVE FALSE
        OBVIOUS
      <3>1. ~TooLateFor(c.nonce)
        BY <1>1, <1>2, PnAssumption DEF TooLateFor, Checked, PnInv, PnTypeOK
      <3>2. PICK u \in Nat : <<c.nonce, u>> \in pnRows /\ pnSigned[c.nonce] <= u + PnSkew
        BY <1>1, <3>1 DEF PnInv, AcceptedIsKnown, Remembered
      <3>3. u + NonceTtl >= c.now
        BY <1>1, <3>2, PnAssumption DEF Checked, PnInv, PnTypeOK
      <3>4. <<c.nonce, u>> \in kept
        BY <3>2, <3>3 DEF Unexpired
      <3> QED BY <1>5, <3>4
    <2>4. AcceptedOnce'
      BY <1>1, <2>1, <2>3 DEF AcceptedOnce, PnInv, PnTypeOK
    <2>5. ASSUME NEW n \in Nonces, pnAccepted'[n] # 0
          PROVE  pnSigned'[n] # 0 /\ (Remembered(n)' \/ TooLateFor(n)')
      <3>1. CASE n = c.nonce
        BY <1>1, <1>2, <2>1, <3>1 DEF Checked, Remembered
      <3>2. CASE n # c.nonce
        <4>1. pnSigned[n] # 0 /\ (Remembered(n) \/ TooLateFor(n))
          BY <2>1, <2>5, <3>2 DEF PnInv, PnTypeOK, AcceptedIsKnown
        <4>2. CASE TooLateFor(n)
          BY <1>2, <4>1, <4>2 DEF TooLateFor
        <4>3. CASE Remembered(n)
          <5>1. PICK u \in Nat : <<n, u>> \in pnRows /\ pnSigned[n] <= u + PnSkew
            BY <4>3 DEF Remembered
          <5>2. CASE u + NonceTtl >= c.now
            <6>1. <<n, u>> \in pnRows'
              BY <2>1, <5>1, <5>2 DEF Unexpired
            <6> QED BY <1>2, <4>1, <5>1, <6>1 DEF Remembered
          <5>3. CASE u + NonceTtl < c.now
            <6>1. c.now <= pnNow
              BY <1>1 DEF Checked
            <6>2. pnSigned[n] + PnSkew + LockWait < pnNow
              BY <1>1, <5>1, <5>3, <6>1, PnAssumption DEF PnInv, PnTypeOK
            <6> QED BY <1>2, <4>1, <6>2 DEF TooLateFor
          <5> QED BY <1>1, <5>1, <5>2, <5>3, PnAssumption
        <4> QED BY <4>1, <4>2, <4>3
      <3> QED BY <3>1, <3>2
    <2> QED BY <1>3, <2>2, <2>4, <2>5 DEF PnInv, AcceptedIsKnown
  <1> QED BY <1>4, <1>5

\* The steps that only end a thread or move the clock.
LEMMA RestKeeps ==
  ASSUME PnInv, PnTick \/ (\E t \in PnThreads : ClaimFails(t)) \/ UNCHANGED pnVars
  PROVE  PnInv'
  <1>1. CASE PnTick
    <2>1. PnTypeOK' /\ pnNow <= pnNow'
      BY <1>1 DEF PnTick, PnInv, PnTypeOK
    <2>2. ClaimsAreChecked'
      <3> SUFFICES ASSUME NEW t \in PnThreads, pnThread[t].at = "claim"
                   PROVE  Checked(pnThread[t])'
        BY <1>1 DEF ClaimsAreChecked, PnTick
      <3>1. pnThread[t].now \in Nat
        BY DEF PnInv, PnTypeOK, Claims, PnIdle
      <3> QED BY <1>1, <2>1, <3>1 DEF PnInv, PnTypeOK, ClaimsAreChecked, Checked, PnTick
    <2>3. AcceptedIsKnown' /\ AcceptedOnce'
      BY <1>1, <2>1, KnownStays DEF PnTick, PnTypeOK
    <2> QED BY <2>1, <2>2, <2>3 DEF PnInv
  <1>2. ASSUME NEW t \in PnThreads, ClaimFails(t)
        PROVE  PnInv'
    <2>1. PnSet(t, PnIdle) /\ UNCHANGED <<pnNow, pnSigned, pnRows, pnAccepted>>
      BY <1>2 DEF ClaimFails
    <2>2. pnThread' \in [PnThreads -> {PnIdle} \cup Claims] /\ ClaimsAreChecked'
      BY <2>1, OthersStayChecked
    <2>3. AcceptedIsKnown' /\ AcceptedOnce'
      BY <2>1, KnownStays DEF PnInv, PnTypeOK
    <2> QED BY <2>1, <2>2, <2>3 DEF PnInv, PnTypeOK
  <1>3. CASE UNCHANGED pnVars
    BY <1>3 DEF pnVars, PnInv, PnTypeOK, ClaimsAreChecked, Checked, AcceptedIsKnown,
                Remembered, TooLateFor, AcceptedOnce
  <1> QED BY <1>1, <1>2, <1>3

\* The replay protection of verify_request() and _claim_nonce(): no signed request
\* is accepted twice, however requests wait, repeat and delete each other's nonces.
THEOREM RequestsAcceptedOnce == PnSpec => []AcceptedOnce
  <1>1. PnInit => PnInv
    BY InitHolds
  <1>2. PnInv /\ [PnNext]_pnVars => PnInv'
    <2> SUFFICES ASSUME PnInv, [PnNext]_pnVars PROVE PnInv'
      OBVIOUS
    <2>1. ASSUME NEW n \in Nonces, NEW stamp \in 1..MaxPnTime, SignRequest(n, stamp)
          PROVE  PnInv'
      BY <2>1, SignKeeps
    <2>2. ASSUME NEW t \in PnThreads, NEW n \in Nonces, CheckRequest(t, n)
          PROVE  PnInv'
      BY <2>2, CheckKeeps
    <2>3. ASSUME NEW t \in PnThreads, ClaimNonce(t)
          PROVE  PnInv'
      BY <2>3, ClaimKeeps
    <2>4. CASE PnTick \/ (\E t \in PnThreads : ClaimFails(t)) \/ UNCHANGED pnVars
      BY <2>4, RestKeeps
    <2> QED BY <2>1, <2>2, <2>3, <2>4 DEF PnNext
  <1>3. PnInv => AcceptedOnce
    BY DEF PnInv
  <1> QED BY <1>1, <1>2, <1>3, PTL DEF PnSpec

----------------------------------------------------------------------------
\* TelegraphQueue: custody of telegrams, their leases and their events.

\* Where process_once() may stand, and the events of a telegram.
Outcomes == {"delivered", "custody_transferred", "expired", "rejected", "retry_wait"}
TgPhases == [at : {"expire", "claim", "send"}, now : Nat, batch : SUBSET Telegrams]
TgWriting == [at : {"write"}, now : Nat, batch : SUBSET Telegrams, m : Telegrams,
              state : Outcomes, tries : 0..MaxTries]
TgEvents == {"none", "accepted_for_custody", "delivery_attempt_started", "delivery_failed",
             "delivered", "custody_transferred", "expired", "cancelled"}

TgTypeOK ==
  /\ tgNow \in Nat
  /\ tgRow \in [Telegrams -> TgRows]
  /\ tgLast \in [Telegrams -> TgEvents]
  /\ tgEnq \in [TgProducers -> Telegrams \cup {NoTelegram}]
  /\ tgWork \in [TgWorkers -> {TgIdle} \cup TgPhases \cup TgWriting]
  /\ tgCancel \in Telegrams \cup {NoTelegram}

\* What an event says of a row that has not changed since.
Explains(event, state) ==
  /\ event = "none" <=> state = "absent"
  /\ event = "accepted_for_custody" <=> state = "queued"
  /\ event = "delivery_attempt_started" => state \in {"in_flight", "retry_wait"}
  /\ event = "delivery_failed" => state \in {"retry_wait", "rejected", "expired"}
  /\ event \in {"delivered", "custody_transferred", "expired", "cancelled"} => state = event

\* A row that explains its event: it is leased exactly in flight, has attempts left while
\* it may be sent, and a telegram that was not stored has had none.
RowIsSound(m) ==
  LET row == tgRow[m] IN
  /\ Explains(tgLast[m], row.state)
  /\ row.state = "in_flight" <=> row.owner # NoTelegram
  /\ row.state \in {"absent", "queued", "retry_wait", "in_flight"} => row.tries < MaxTries
  /\ row.state \in {"delivered", "custody_transferred"} => m \in tgTaken

\* The outcome that a worker is about to write is true of the telegram, and leaves it
\* an attempt when it is to be sent again.
OutcomesAreTrue ==
  \A w \in TgWorkers : tgWork[w] \in TgWriting =>
    /\ tgWork[w].state \in {"delivered", "custody_transferred"} => tgWork[w].m \in tgTaken
    /\ tgWork[w].state = "retry_wait" => tgWork[w].tries < MaxTries

TgInv == TgTypeOK /\ (\A m \in Telegrams : RowIsSound(m)) /\ OutcomesAreTrue
----------------------------------------------------------------------------
\* A step of a worker keeps what other workers are about to write true.
LEMMA OutcomesStay ==
  ASSUME TgInv, NEW w \in TgWorkers, NEW next \in {TgIdle} \cup TgPhases,
         tgWork' = [tgWork EXCEPT ![w] = next], tgTaken \subseteq tgTaken'
  PROVE  /\ tgWork' \in [TgWorkers -> {TgIdle} \cup TgPhases \cup TgWriting]
         /\ OutcomesAreTrue'
<1>1. tgWork' \in [TgWorkers -> {TgIdle} \cup TgPhases \cup TgWriting]
  BY DEF TgInv, TgTypeOK
<1>2. next \notin TgWriting
  BY DEF TgPhases, TgWriting, TgIdle
<1>3. ASSUME NEW v \in TgWorkers, tgWork'[v] \in TgWriting PROVE v # w /\ tgWork'[v] = tgWork[v]
  BY <1>2, <1>3 DEF TgInv, TgTypeOK
<1>4. QED
  BY <1>1, <1>3 DEF TgInv, OutcomesAreTrue

\* A step that leaves rows, events and workers alone.
LEMMA QuietTelegraph ==
  ASSUME TgInv, UNCHANGED <<tgRow, tgLast, tgWork, tgTaken>>, tgNow' \in Nat,
         tgEnq' \in [TgProducers -> Telegrams \cup {NoTelegram}],
         tgCancel' \in Telegrams \cup {NoTelegram}
  PROVE  TgInv'
BY DEF TgInv, TgTypeOK, RowIsSound, OutcomesAreTrue

\* A row leaves its lease.
LEMMA ReleasedRow ==
  ASSUME NEW row \in TgRows, NEW state \in TerminalStates \cup {"retry_wait", "custody_transferred"}
  PROVE  /\ Released(row, state) \in TgRows
         /\ Released(row, state).state = state /\ Released(row, state).owner = NoTelegram
         /\ Released(row, state).tries = row.tries /\ Released(row, state).due = row.due
         /\ Released(row, state).lease = 0
BY DEF Released, TgRows, TerminalStates

LEMMA InsertStep ==
  ASSUME TgInv, NEW p \in TgProducers, InsertTelegram(p)
  PROVE  TgInv'
<1>1. PICK m \in Telegrams : m = tgEnq[p]
  BY DEF TgInv, TgTypeOK, InsertTelegram
<1>2. tgEnq' \in [TgProducers -> Telegrams \cup {NoTelegram}] /\ UNCHANGED <<tgNow, tgWork, tgCancel, tgTaken>>
  BY DEF TgInv, TgTypeOK, InsertTelegram
<1>3. CASE tgRow[m].state # "absent"
  <2>1. UNCHANGED <<tgRow, tgLast>>
    BY <1>1, <1>3 DEF InsertTelegram
  <2>2. QED
    BY <1>2, <2>1, QuietTelegraph DEF TgInv, TgTypeOK
<1>4. CASE tgRow[m].state = "absent"
  <2>1. /\ tgRow' = [tgRow EXCEPT ![m].state = "queued"]
        /\ tgLast' = [tgLast EXCEPT ![m] = "accepted_for_custody"]
    BY <1>1, <1>4 DEF InsertTelegram
  <2>2. tgRow[m] \in TgRows /\ tgRow' \in [Telegrams -> TgRows] /\ tgLast' \in [Telegrams -> TgEvents]
    BY <2>1 DEF TgInv, TgTypeOK, TgRows, TgEvents
  <2>3. TgTypeOK'
    BY <1>2, <2>2 DEF TgInv, TgTypeOK
  <2>4. ASSUME NEW n \in Telegrams PROVE RowIsSound(n)'
    <3>1. CASE n = m
      <4>1. /\ tgRow'[m].state = "queued" /\ tgLast'[m] = "accepted_for_custody"
            /\ tgRow'[m].owner = tgRow[m].owner /\ tgRow'[m].tries = tgRow[m].tries
        BY <2>1, <2>2 DEF TgInv, TgTypeOK, TgRows
      <4>2. RowIsSound(m)
        BY DEF TgInv
      <4>3. QED
        BY <1>4, <3>1, <4>1, <4>2 DEF RowIsSound, Explains
    <3>2. CASE n # m
      <4>1. tgRow'[n] = tgRow[n] /\ tgLast'[n] = tgLast[n] /\ RowIsSound(n)
        BY <2>1, <3>2 DEF TgInv, TgTypeOK
      <4>2. QED
        BY <1>2, <4>1 DEF RowIsSound
    <3>3. QED
      BY <3>1, <3>2
  <2>5. QED
    BY <1>2, <2>3, <2>4 DEF TgInv, OutcomesAreTrue
<1>5. QED
  BY <1>3, <1>4

\* cancel() writes by message_id alone: whatever the row is by then, it is cancelled.
LEMMA CancelStep ==
  ASSUME TgInv, CancelWrites
  PROVE  TgInv'
<1>1. PICK m \in Telegrams : m = tgCancel
  BY DEF TgInv, TgTypeOK, CancelWrites
<1>2. /\ tgRow' = [tgRow EXCEPT ![m] = Released(tgRow[m], "cancelled")]
      /\ tgLast' = [tgLast EXCEPT ![m] = "cancelled"]
      /\ tgCancel' = NoTelegram /\ UNCHANGED <<tgNow, tgEnq, tgWork, tgTaken>>
  BY <1>1 DEF CancelWrites, TgInv, TgTypeOK
<1>3. tgRow[m] \in TgRows /\ "cancelled" \in TerminalStates
  BY DEF TgInv, TgTypeOK, TerminalStates
<1>4. PICK row \in TgRows : row = Released(tgRow[m], "cancelled") /\ row.state = "cancelled"
                            /\ row.owner = NoTelegram
  BY <1>3, ReleasedRow
<1>5. TgTypeOK'
  BY <1>2, <1>4 DEF TgInv, TgTypeOK, TgEvents
<1>6. ASSUME NEW n \in Telegrams PROVE RowIsSound(n)'
  <2>1. CASE n = m
    <3>1. tgRow'[m] = row /\ tgLast'[m] = "cancelled"
      BY <1>2, <1>4 DEF TgInv, TgTypeOK
    <3>2. QED
      BY <1>4, <2>1, <3>1 DEF RowIsSound, Explains
  <2>2. CASE n # m
    <3>1. tgRow'[n] = tgRow[n] /\ tgLast'[n] = tgLast[n] /\ RowIsSound(n)
      BY <1>2, <2>2 DEF TgInv, TgTypeOK
    <3>2. QED
      BY <1>2, <3>1 DEF RowIsSound
  <2>3. QED
    BY <2>1, <2>2
<1>7. QED
  BY <1>2, <1>5, <1>6 DEF TgInv, OutcomesAreTrue

LEMMA FindStep ==
  ASSUME TgInv, NEW w \in TgWorkers, FindExpired(w)
  PROVE  TgInv'
<1>1. PICK next \in TgPhases : tgWork' = [tgWork EXCEPT ![w] = next]
  <2> DEFINE next == [at |-> "expire", now |-> tgNow,
                      batch |-> IF TgExpiry <= tgNow THEN ActiveTelegrams ELSE {}]
  <2>1. next \in TgPhases
    BY DEF TgInv, TgTypeOK, TgPhases, ActiveTelegrams
  <2>2. QED
    BY <2>1 DEF FindExpired
<1>2. UNCHANGED <<tgNow, tgRow, tgLast, tgEnq, tgCancel, tgTaken>>
  BY DEF FindExpired
<1>3. tgWork' \in [TgWorkers -> {TgIdle} \cup TgPhases \cup TgWriting] /\ OutcomesAreTrue'
  BY <1>1, <1>2, OutcomesStay
<1>4. QED
  BY <1>2, <1>3 DEF TgInv, TgTypeOK, RowIsSound

\* expire() writes by message_id alone, too.
LEMMA ExpireStep ==
  ASSUME TgInv, NEW w \in TgWorkers, ExpireFound(w)
  PROVE  TgInv'
<1>1. PICK c \in TgPhases : c = tgWork[w] /\ c.at = "expire"
  BY DEF ExpireFound, TgInv, TgTypeOK, TgIdle, TgPhases, TgWriting
<1>2. /\ tgRow' = [m \in Telegrams |-> IF m \in c.batch THEN Released(tgRow[m], "expired") ELSE tgRow[m]]
      /\ tgLast' = [m \in Telegrams |-> IF m \in c.batch THEN "expired" ELSE tgLast[m]]
      /\ UNCHANGED <<tgNow, tgEnq, tgCancel, tgTaken>>
  BY <1>1 DEF ExpireFound
<1>3. PICK next \in TgPhases : tgWork' = [tgWork EXCEPT ![w] = next]
  <2>1. [at |-> "claim", now |-> c.now, batch |-> {}] \in TgPhases
    BY DEF TgPhases
  <2>2. QED
    BY <1>1, <2>1 DEF ExpireFound
<1>4. tgWork' \in [TgWorkers -> {TgIdle} \cup TgPhases \cup TgWriting] /\ OutcomesAreTrue'
  BY <1>2, <1>3, OutcomesStay
<1>5. ASSUME NEW m \in Telegrams
      PROVE  /\ Released(tgRow[m], "expired") \in TgRows
             /\ Released(tgRow[m], "expired").state = "expired"
             /\ Released(tgRow[m], "expired").owner = NoTelegram
  <2>1. tgRow[m] \in TgRows /\ "expired" \in TerminalStates
    BY DEF TgInv, TgTypeOK, TerminalStates
  <2>2. QED
    BY <2>1, ReleasedRow
<1>6. tgRow' \in [Telegrams -> TgRows] /\ tgLast' \in [Telegrams -> TgEvents]
  BY <1>2, <1>5 DEF TgInv, TgTypeOK, TgEvents
<1>7. ASSUME NEW m \in Telegrams PROVE RowIsSound(m)'
  <2>1. CASE m \in c.batch
    <3>1. tgRow'[m] = Released(tgRow[m], "expired") /\ tgLast'[m] = "expired"
      BY <1>2, <2>1
    <3>2. QED
      BY <1>5, <3>1 DEF RowIsSound, Explains
  <2>2. CASE m \notin c.batch
    <3>1. tgRow'[m] = tgRow[m] /\ tgLast'[m] = tgLast[m] /\ RowIsSound(m)
      BY <1>2, <2>2 DEF TgInv
    <3>2. QED
      BY <1>2, <3>1 DEF RowIsSound
  <2>3. QED
    BY <2>1, <2>2
<1>8. QED
  BY <1>2, <1>4, <1>6, <1>7 DEF TgInv, TgTypeOK

\* A claim takes rows that wait or whose lease has run out.
LEMMA TelegraphClaimStep ==
  ASSUME TgInv, NEW w \in TgWorkers, ClaimDue(w)
  PROVE  TgInv'
<1>1. PICK c \in TgPhases : c = tgWork[w] /\ c.at = "claim"
  <2>1. tgWork[w].at = "claim"
    BY DEF ClaimDue
  <2>2. QED
    BY <2>1 DEF TgInv, TgTypeOK, TgIdle, TgPhases, TgWriting
<1> DEFINE claimed == {m \in Telegrams : Due(tgRow[m], c.now)}
           leased(m) == [tgRow[m] EXCEPT !.state = "in_flight", !.owner = w, !.lease = c.now + TgLease]
<1>2. /\ tgRow' = [m \in Telegrams |->
           IF m \in claimed THEN leased(m)
           ELSE IF Reclaimable(tgRow[m], c.now) THEN Released(tgRow[m], "retry_wait") ELSE tgRow[m]]
      /\ tgLast' = [m \in Telegrams |-> IF m \in claimed THEN "delivery_attempt_started" ELSE tgLast[m]]
      /\ tgWork' = [tgWork EXCEPT ![w] = IF claimed = {} THEN TgIdle
                      ELSE [at |-> "send", now |-> c.now, batch |-> claimed]]
      /\ UNCHANGED <<tgNow, tgEnq, tgCancel, tgTaken>>
  BY <1>1 DEF ClaimDue
<1>3. PICK next \in {TgIdle} \cup TgPhases : tgWork' = [tgWork EXCEPT ![w] = next]
  <2>1. [at |-> "send", now |-> c.now, batch |-> claimed] \in TgPhases
    BY DEF TgPhases
  <2>2. QED
    BY <1>2, <2>1
<1>4. tgWork' \in [TgWorkers -> {TgIdle} \cup TgPhases \cup TgWriting] /\ OutcomesAreTrue'
  BY <1>2, <1>3, OutcomesStay
<1>5. ASSUME NEW m \in Telegrams
      PROVE  tgRow'[m] \in TgRows /\ tgLast'[m] \in TgEvents /\ RowIsSound(m)'
  <2>0. tgRow[m] \in TgRows /\ tgLast[m] \in TgEvents /\ RowIsSound(m)
    BY DEF TgInv, TgTypeOK
  <2>1. CASE m \in claimed
    <3>1. tgRow'[m] = leased(m) /\ tgLast'[m] = "delivery_attempt_started"
      BY <1>2, <2>1
    <3>2. /\ leased(m) \in TgRows /\ leased(m).state = "in_flight" /\ leased(m).owner = w
          /\ leased(m).tries = tgRow[m].tries
      <4>1. c.now + TgLease \in Nat
        BY TelegraphAssumption DEF TgPhases
      <4>2. QED
        BY <2>0, <4>1 DEF TgRows
    <3>3. tgRow[m].state \in {"queued", "retry_wait", "in_flight"}
      BY <2>1 DEF Due, Reclaimable
    <3>4. tgRow[m].tries < MaxTries
      BY <2>0, <3>3 DEF RowIsSound
    <3>5. w # NoTelegram
      BY TelegraphAssumption
    <3>6. QED
      BY <3>1, <3>2, <3>4, <3>5 DEF RowIsSound, Explains, TgEvents
  <2>2. CASE m \notin claimed /\ Reclaimable(tgRow[m], c.now)
    <3>1. tgRow'[m] = Released(tgRow[m], "retry_wait") /\ tgLast'[m] = tgLast[m]
      BY <1>2, <2>2
    <3>2. /\ Released(tgRow[m], "retry_wait") \in TgRows
          /\ Released(tgRow[m], "retry_wait").state = "retry_wait"
          /\ Released(tgRow[m], "retry_wait").owner = NoTelegram
          /\ Released(tgRow[m], "retry_wait").tries = tgRow[m].tries
      BY <2>0, ReleasedRow
    <3>3. tgRow[m].state = "in_flight" /\ tgRow[m].tries < MaxTries
      BY <2>0, <2>2 DEF Reclaimable, RowIsSound
    <3>4. tgLast[m] = "delivery_attempt_started"
      BY <2>0, <3>3 DEF RowIsSound, Explains, TgEvents
    <3>5. QED
      BY <2>0, <3>1, <3>2, <3>3, <3>4 DEF RowIsSound, Explains
  <2>3. CASE m \notin claimed /\ ~Reclaimable(tgRow[m], c.now)
    <3>1. tgRow'[m] = tgRow[m] /\ tgLast'[m] = tgLast[m]
      BY <1>2, <2>3
    <3>2. QED
      BY <1>2, <2>0, <3>1 DEF RowIsSound
  <2>4. QED
    BY <2>1, <2>2, <2>3
<1>6. tgRow' \in [Telegrams -> TgRows] /\ tgLast' \in [Telegrams -> TgEvents]
  <2>1. tgRow' = [m \in Telegrams |-> tgRow'[m]] /\ tgLast' = [m \in Telegrams |-> tgLast'[m]]
    BY <1>2
  <2>2. QED
    BY <1>5, <2>1
<1>7. QED
  BY <1>2, <1>4, <1>5, <1>6 DEF TgInv, TgTypeOK

\* What the sender's outcome becomes is known from the row that was read.
LEMMA TelegraphSendStep ==
  ASSUME TgInv, NEW w \in TgWorkers, NEW m \in Telegrams, NEW taken \in BOOLEAN,
         NEW outcome \in {"delivered", "custody_transferred", "unsupported", "exception"},
         SendTelegram(w, m, outcome, taken)
  PROVE  TgInv'
<1>1. PICK c \in TgPhases : c = tgWork[w] /\ c.at = "send"
  BY DEF SendTelegram, TgInv, TgTypeOK, TgIdle, TgPhases, TgWriting
<1> DEFINE failed == outcome \in {"unsupported", "exception"}
           state == IF failed THEN FailState(tgRow[m], c.now, outcome = "exception") ELSE outcome
           tries == IF failed THEN tgRow[m].tries + 1 ELSE tgRow[m].tries
           writing == [at |-> "write", now |-> c.now, batch |-> c.batch, m |-> m,
                       state |-> state, tries |-> tries]
<1>2. /\ ~failed => taken
      /\ tgTaken' = IF taken THEN tgTaken \cup {m} ELSE tgTaken
      /\ tgWork' = [tgWork EXCEPT ![w] =
           IF tgRow[m].state = "in_flight" /\ tgRow[m].owner = w THEN writing ELSE TgIdle]
      /\ UNCHANGED <<tgNow, tgRow, tgLast, tgEnq, tgCancel>>
  BY <1>1 DEF SendTelegram
<1>3. tgTaken \subseteq tgTaken'
  BY <1>2
<1>4. tgRow[m] \in TgRows /\ RowIsSound(m)
  BY DEF TgInv, TgTypeOK
<1>5. /\ tgWork' \in [TgWorkers -> {TgIdle} \cup TgPhases \cup TgWriting]
      /\ OutcomesAreTrue'
  <2>1. CASE ~(tgRow[m].state = "in_flight" /\ tgRow[m].owner = w)
    <3>1. tgWork' = [tgWork EXCEPT ![w] = TgIdle]
      BY <1>2, <2>1
    <3>2. QED
      BY <1>3, <3>1, OutcomesStay
  <2>2. CASE tgRow[m].state = "in_flight" /\ tgRow[m].owner = w
    <3>1. tgWork' = [tgWork EXCEPT ![w] = writing]
      BY <1>2, <2>2
    <3>2. tgRow[m].tries \in 0..MaxTries /\ tgRow[m].tries < MaxTries
      BY <1>4, <2>2 DEF TgRows, RowIsSound
    <3>3. tries \in 0..MaxTries
      BY <3>2, TelegraphAssumption
    <3>4. /\ state \in Outcomes
          /\ state = "retry_wait" => tries < MaxTries
          /\ state \in {"delivered", "custody_transferred"} => m \in tgTaken'
      <4>1. CASE failed
        <5>1. /\ state = FailState(tgRow[m], c.now, outcome = "exception")
              /\ tries = tgRow[m].tries + 1
          BY <4>1
        <5>2. c.now \in Nat /\ TgExpiry \in Nat /\ MaxTries \in Nat /\ tgRow[m].tries \in Nat
          BY <3>2, TelegraphAssumption DEF TgPhases
        <5>3. /\ state \in {"expired", "rejected", "retry_wait"}
              /\ state = "retry_wait" => ~(tgRow[m].tries + 1 >= MaxTries)
          BY <5>1, <5>2 DEF FailState
        <5>4. QED
          BY <5>1, <5>2, <5>3 DEF Outcomes
      <4>2. CASE ~failed
        <5>1. state = outcome /\ m \in tgTaken' /\ outcome \in {"delivered", "custody_transferred"}
          BY <1>2, <4>2
        <5>2. QED
          BY <5>1 DEF Outcomes
      <4>3. QED
        BY <4>1, <4>2
    <3>5. writing \in TgWriting /\ writing.m = m /\ writing.state = state /\ writing.tries = tries
      BY <3>3, <3>4 DEF TgPhases, TgWriting
    <3>6. tgWork' \in [TgWorkers -> {TgIdle} \cup TgPhases \cup TgWriting]
      BY <3>1, <3>5 DEF TgInv, TgTypeOK
    <3>7. ASSUME NEW v \in TgWorkers, tgWork'[v] \in TgWriting
          PROVE  /\ tgWork'[v].state \in {"delivered", "custody_transferred"} => tgWork'[v].m \in tgTaken'
                 /\ tgWork'[v].state = "retry_wait" => tgWork'[v].tries < MaxTries
      <4>1. CASE v = w
        <5>1. tgWork'[v] = writing
          BY <3>1, <4>1 DEF TgInv, TgTypeOK
        <5>2. QED
          BY <3>4, <3>5, <5>1
      <4>2. CASE v # w
        <5>1. tgWork'[v] = tgWork[v]
          BY <3>1, <4>2 DEF TgInv, TgTypeOK
        <5>2. QED
          BY <1>3, <3>7, <5>1 DEF TgInv, OutcomesAreTrue
      <4>3. QED
        BY <4>1, <4>2
    <3>8. QED
      BY <3>6, <3>7 DEF OutcomesAreTrue
  <2>3. QED
    BY <2>1, <2>2
<1>6. ASSUME NEW n \in Telegrams PROVE RowIsSound(n)'
  <2>1. RowIsSound(n)
    BY DEF TgInv
  <2>2. QED
    BY <1>2, <1>3, <2>1 DEF RowIsSound
<1>7. QED
  BY <1>2, <1>5, <1>6 DEF TgInv, TgTypeOK

\* The outcome and its event are one write.
LEMMA WriteStep ==
  ASSUME TgInv, NEW w \in TgWorkers, WriteOutcome(w)
  PROVE  TgInv'
<1>1. PICK c \in TgWriting : c = tgWork[w]
  BY DEF WriteOutcome, TgInv, TgTypeOK, TgIdle, TgPhases
<1>2. PICK delay \in 1..MaxTgTime : tgRow' = [tgRow EXCEPT ![c.m] = Recorded(tgRow[c.m], c, delay)]
  BY <1>1 DEF WriteOutcome
<1>3. /\ tgLast' = [tgLast EXCEPT ![c.m] = OutcomeEvent(c)]
      /\ UNCHANGED <<tgNow, tgEnq, tgCancel, tgTaken>>
      /\ tgWork' = [tgWork EXCEPT ![w] = IF c.batch \ {c.m} = {} THEN TgIdle
                      ELSE [at |-> "send", now |-> c.now, batch |-> c.batch \ {c.m}]]
  BY <1>1 DEF WriteOutcome
<1>4. PICK next \in {TgIdle} \cup TgPhases : tgWork' = [tgWork EXCEPT ![w] = next]
  <2>1. [at |-> "send", now |-> c.now, batch |-> c.batch \ {c.m}] \in TgPhases
    BY DEF TgPhases, TgWriting
  <2>2. QED
    BY <1>3, <2>1
<1>5. tgWork' \in [TgWorkers -> {TgIdle} \cup TgPhases \cup TgWriting] /\ OutcomesAreTrue'
  BY <1>3, <1>4, OutcomesStay
<1>6. /\ c.m \in Telegrams /\ c.state \in Outcomes /\ c.tries \in 0..MaxTries /\ c.now \in Nat
      /\ c.state \in {"delivered", "custody_transferred"} => c.m \in tgTaken
      /\ c.state = "retry_wait" => c.tries < MaxTries
  BY <1>1 DEF TgWriting, TgInv, OutcomesAreTrue
<1>7. PICK free \in TgRows : /\ free = Released(tgRow[c.m], c.state)
                             /\ free.state = c.state /\ free.owner = NoTelegram
  <2>1. tgRow[c.m] \in TgRows /\ c.state \in TerminalStates \cup {"retry_wait", "custody_transferred"}
    BY <1>6 DEF TgInv, TgTypeOK, Outcomes, TerminalStates
  <2>2. QED
    BY <2>1, ReleasedRow
<1> DEFINE tries == IF c.state \in {"delivered", "custody_transferred"} THEN free.tries ELSE c.tries
           due == IF c.state = "retry_wait" THEN c.now + delay ELSE free.due
<1>8. PICK row \in TgRows : /\ row = [free EXCEPT !.tries = tries, !.due = due]
                            /\ row.state = c.state /\ row.owner = NoTelegram /\ row.tries = tries
  <2>1. tries \in 0..MaxTries /\ due \in Nat
    BY <1>6, TelegraphAssumption DEF TgRows
  <2>2. PICK t \in 0..MaxTries, d \in Nat : t = tries /\ d = due
    BY <2>1
  <2>3. [free EXCEPT !.tries = t, !.due = d] \in TgRows
    BY <1>7, <2>2 DEF TgRows
  <2>4. /\ [free EXCEPT !.tries = t, !.due = d].state = free.state
        /\ [free EXCEPT !.tries = t, !.due = d].owner = free.owner
        /\ [free EXCEPT !.tries = t, !.due = d].tries = t
    BY <1>7, <2>2 DEF TgRows
  <2>5. QED
    BY <1>7, <2>2, <2>3, <2>4
<1>9. tgRow' = [tgRow EXCEPT ![c.m] = row]
  <2>1. Recorded(tgRow[c.m], c, delay) = [free EXCEPT !.tries = tries, !.due = due]
    BY <1>7 DEF Recorded
  <2>2. QED
    BY <1>2, <1>8, <2>1
<1>10. OutcomeEvent(c) \in TgEvents /\ Explains(OutcomeEvent(c), c.state)
  BY <1>6 DEF OutcomeEvent, TgEvents, Explains, Outcomes
<1>11. tgRow' \in [Telegrams -> TgRows] /\ tgLast' \in [Telegrams -> TgEvents]
  BY <1>3, <1>6, <1>9, <1>10 DEF TgInv, TgTypeOK
<1>12. ASSUME NEW m \in Telegrams PROVE RowIsSound(m)'
  <2>1. CASE m = c.m
    <3>1. tgRow'[m] = row /\ tgLast'[m] = OutcomeEvent(c)
      BY <1>3, <1>9, <2>1 DEF TgInv, TgTypeOK
    <3>2. row.state # "in_flight" /\ row.state # "absent" /\ row.state # "queued"
      BY <1>6, <1>8 DEF Outcomes
    <3>3. row.state = "retry_wait" => row.tries < MaxTries
      BY <1>6, <1>8
    <3>4. QED
      BY <1>3, <1>6, <1>8, <1>10, <2>1, <3>1, <3>2, <3>3 DEF RowIsSound
  <2>2. CASE m # c.m
    <3>1. tgRow'[m] = tgRow[m] /\ tgLast'[m] = tgLast[m] /\ RowIsSound(m)
      BY <1>3, <1>9, <2>2 DEF TgInv, TgTypeOK
    <3>2. QED
      BY <1>3, <3>1 DEF RowIsSound
  <2>3. QED
    BY <2>1, <2>2
<1>13. QED
  BY <1>3, <1>5, <1>11, <1>12 DEF TgInv, TgTypeOK

LEMMA TelegraphStep ==
  ASSUME TgInv, [TgNext]_tgVars
  PROVE  TgInv'
<1>1. CASE TgTick
  BY <1>1, QuietTelegraph DEF TgTick, TgInv, TgTypeOK
<1>2. ASSUME NEW p \in TgProducers, NEW m \in Telegrams, AdmitTelegram(p, m) PROVE TgInv'
  BY <1>2, QuietTelegraph DEF AdmitTelegram, TgInv, TgTypeOK
<1>3. ASSUME NEW m \in Telegrams, CancelReads(m) PROVE TgInv'
  BY <1>3, QuietTelegraph DEF CancelReads, TgInv, TgTypeOK
<1>4. ASSUME NEW w \in TgWorkers, TgWorkerDies(w) PROVE TgInv'
  <2>1. tgWork' = [tgWork EXCEPT ![w] = TgIdle] /\ UNCHANGED <<tgNow, tgRow, tgLast, tgEnq, tgCancel, tgTaken>>
    BY <1>4 DEF TgWorkerDies
  <2>2. tgWork' \in [TgWorkers -> {TgIdle} \cup TgPhases \cup TgWriting] /\ OutcomesAreTrue'
    BY <2>1, OutcomesStay
  <2>3. QED
    BY <2>1, <2>2 DEF TgInv, TgTypeOK, RowIsSound
<1>5. CASE UNCHANGED tgVars
  BY <1>5, QuietTelegraph DEF tgVars, TgInv, TgTypeOK
<1>6. ASSUME NEW w \in TgWorkers, ProcessStep(w) PROVE TgInv'
  BY <1>6, FindStep, ExpireStep, TelegraphClaimStep, WriteStep, TelegraphSendStep DEF ProcessStep
<1>7. QED
  BY <1>1, <1>2, <1>3, <1>4, <1>5, <1>6, InsertStep, CancelStep DEF TgNext

\* Every row of the telegraph queue agrees with its newest event, is leased exactly in
\* flight, has attempts left while it may be sent, and is reported as delivered or
\* transferred only when it was handed over: for every number of telegrams, producers
\* and workers that write from rows they read before others wrote.
THEOREM TelegramsStaySound == TgSpec => []TelegramsAreSound
<1>1. TgInit => TgInv
  <2>1. SUFFICES ASSUME TgInit PROVE TgInv
    OBVIOUS
  <2>2. TgTypeOK
    BY <2>1, TelegraphAssumption DEF TgInit, TgTypeOK, TgRows, TgEvents
  <2>3. \A m \in Telegrams : RowIsSound(m)
    BY <2>1, TelegraphAssumption DEF TgInit, RowIsSound, Explains
  <2>4. OutcomesAreTrue
    BY <2>1 DEF TgInit, OutcomesAreTrue, TgWriting, TgIdle
  <2>5. QED
    BY <2>2, <2>3, <2>4 DEF TgInv
<1>2. TgInv => TelegramsAreSound
  <2>1. SUFFICES ASSUME TgInv PROVE TelegramsAreSound
    OBVIOUS
  <2>2. EventsTellState
    <3>1. SUFFICES ASSUME NEW m \in Telegrams
                   PROVE  tgRow[m].state \in
                            CASE tgLast[m] = "none" -> {"absent"}
                              [] tgLast[m] = "accepted_for_custody" -> {"queued"}
                              [] tgLast[m] = "delivery_attempt_started" -> {"in_flight", "retry_wait"}
                              [] tgLast[m] = "delivery_failed" -> {"retry_wait", "rejected", "expired"}
                              [] OTHER -> {tgLast[m]}
      BY DEF EventsTellState
    <3>2. tgLast[m] \in TgEvents /\ Explains(tgLast[m], tgRow[m].state)
      BY <2>1 DEF TgInv, TgTypeOK, RowIsSound
    <3>3. QED
      BY <3>2 DEF TgEvents, Explains
  <2>3. tgRow \in [Telegrams -> TgRows]
    BY <2>1 DEF TgInv, TgTypeOK
  <2>4. QED
    BY <2>1, <2>2, <2>3 DEF TelegramsAreSound, TgInv, RowIsSound
<1>3. QED
  BY <1>1, <1>2, TelegraphStep, PTL DEF TgSpec
=============================================================================

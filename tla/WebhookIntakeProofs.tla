------------------------ MODULE WebhookIntakeProofs ------------------------
(***************************************************************************)
(* Proofs about WebhookIntake for every number of gateway processes and    *)
(* recovery workers, every set of events and bodies, every max_attempts    *)
(* and every number of deliveries.                                         *)
(***************************************************************************)
EXTENDS WebhookIntake, FiniteSetTheorems, TLAPS

(* The inductive invariant.                                                *)

\* The rows up to `received` are the ones record_verified() inserted; a receipt
\* that may be claimed has an attempt left; only inserted receipts are answered.
RowsAreInserted ==
    \A r \in Ids :
        /\ receipt[r].status = "none" <=> r > received
        /\ receipt[r].status = "verified" => receipt[r].attempts < MaxAttempts
        /\ r > received => reply[r] = "none"

\* What a handler or a worker knows between two database calls stays true: past
\* put_if_absent() its event is stored, and if it says so, from its own receipt.
Stored(r) == event[receipt[r].key] # 0
StoredFrom(r) == event[receipt[r].key] = r
ServersKnow ==
    \A s \in Servers :
        /\ IF server[s].pc \in {"idle", "record"} THEN server[s].r = 0
                                                 ELSE server[s].r \in 1..received
        /\ server[s].pc \in {"compare", "mark", "audit"} => Stored(server[s].r)
        /\ server[s].pc \in {"mark", "audit"} =>
             /\ server[s].verdict \in Verdicts
             /\ server[s].verdict = "accepted" => StoredFrom(server[s].r)
WorkersKnow ==
    \A w \in Workers :
        /\ worker[w].pc \notin {"exit", "claim"} => worker[w].r \in 1..received
        /\ worker[w].pc = "mark" =>
             /\ worker[w].verdict \in Done /\ Stored(worker[w].r)
             /\ worker[w].verdict = "accepted" => StoredFrom(worker[w].r)

\* Every handler that is about to count an acceptance has its own stored event.
Crediting == {s \in Servers : server[s].pc \in {"mark", "audit"}
                              /\ server[s].verdict = "accepted"}
StoredKeys == {k \in Keys : event[k] # 0}
CreditsAreCovered ==
    audit["accepted"] + Cardinality(Crediting) <= Cardinality(StoredKeys)

IInv ==
    /\ TypeOK
    /\ RowsAreInserted /\ ServersKnow /\ WorkersKnow
    /\ ReceiptsAgreeWithStore /\ AcknowledgedIsStored /\ CreditsAreCovered

\* Credit sets are finite, so that they can be counted.
LEMMA CreditsAreFinite ==
    /\ IsFiniteSet(Crediting) /\ Cardinality(Crediting) \in Nat
    /\ IsFiniteSet(StoredKeys) /\ Cardinality(StoredKeys) \in Nat
<1>1. IsFiniteSet(Crediting) /\ IsFiniteSet(StoredKeys)
  BY IntakeAssumption, FS_Subset DEF Crediting, StoredKeys
<1> QED BY <1>1, FS_CardinalityType

LEMMA InitIInv == Init => IInv
<1> SUFFICES ASSUME Init PROVE IInv
  OBVIOUS
<1>0. AnyKey \in Keys /\ AnyBody \in Bodies
  BY IntakeAssumption DEF AnyKey, AnyBody
<1>1. TypeOK
  <2>1. IdleServer \in ServerState /\ IdleWorker \in WorkerState
    BY <1>0, IntakeAssumption DEF IdleServer, IdleWorker, ServerState, WorkerState
  <2>2. [key |-> AnyKey, body |-> AnyBody, status |-> "none", attempts |-> 0, due |-> FALSE] \in Receipt
    BY <1>0, IntakeAssumption DEF Receipt, Statuses
  <2>3. receipt \in [Ids -> Receipt] /\ server \in [Servers -> ServerState] /\ worker \in [Workers -> WorkerState]
    BY <2>1, <2>2 DEF Init
  <2>4. 0 \in 0..MaxDeliveries /\ "none" \in Answers
    BY IntakeAssumption DEF Answers
  <2>5. event \in [Keys -> 0..MaxDeliveries] /\ reply \in [Ids -> Answers]
        /\ audit \in [Refusals \cup Verdicts -> Nat]
    BY <2>4 DEF Init
  <2> QED BY <2>3, <2>4, <2>5 DEF Init, TypeOK
<1>2. RowsAreInserted /\ ServersKnow /\ WorkersKnow /\ ReceiptsAgreeWithStore /\ AcknowledgedIsStored
  BY <1>0, IntakeAssumption DEF Init, RowsAreInserted, ServersKnow, WorkersKnow, ReceiptsAgreeWithStore,
     AcknowledgedIsStored, IdleServer, IdleWorker, Ids, Verdicts
<1>3. CreditsAreCovered
  <2>1. Crediting = {} /\ StoredKeys = {} /\ audit["accepted"] = 0
    BY DEF Init, Crediting, StoredKeys, IdleServer, Verdicts
  <2> QED BY <2>1, FS_EmptySet DEF CreditsAreCovered
<1> QED BY <1>1, <1>2, <1>3 DEF IInv

-----------------------------------------------------------------------------
\* Types, action by action.
LEMMA NextType == IInv /\ [Next]_vars => TypeOK'
<1> SUFFICES ASSUME IInv, [Next]_vars PROVE TypeOK'
  OBVIOUS
<1> USE DEF IInv, TypeOK, handlers
<1>a. IdleServer \in ServerState /\ IdleWorker \in WorkerState
  BY IntakeAssumption DEF IdleServer, IdleWorker, AnyKey, AnyBody, ServerState, WorkerState
<1>b. Ids \subseteq 0..MaxDeliveries /\ Done \subseteq Statuses /\ Verdicts \subseteq Answers
  BY IntakeAssumption DEF Ids, Statuses, Answers
<1>c. \A r \in 1..received : r \in Ids
  BY IntakeAssumption DEF Ids
<1>d. ASSUME NEW s \in Servers, NEW pc \in {"mark", "compare"}, NEW verdict \in {"none"} \cup Verdicts,
             server' = [server EXCEPT ![s].pc = pc, ![s].verdict = verdict]
      PROVE  server' \in [Servers -> ServerState]
  BY <1>d DEF ServerState
<1>1. CASE SetPaused \/ UNCHANGED vars
  BY <1>1 DEF SetPaused, vars
<1>2. ASSUME NEW o \in Refusals, Refuse(o) PROVE TypeOK'
  BY <1>2 DEF Refuse, Count
<1>3. ASSUME NEW s \in Servers, NEW k \in Keys, NEW b \in Bodies, Admit(s, k, b) PROVE TypeOK'
  BY <1>3, <1>a DEF Admit, ServerState
<1>4. ASSUME NEW s \in Servers, RecordVerified(s) PROVE TypeOK'
  <2>1. Refused \in Nat
    BY DEF Refused, Refusals
  <2>2. received + 1 \in 1..MaxDeliveries
    BY <1>4, <2>1, IntakeAssumption DEF RecordVerified
  <2>3. [key |-> server[s].key, body |-> server[s].body,
         status |-> "verified", attempts |-> 0, due |-> TRUE] \in Receipt
    BY IntakeAssumption DEF Receipt, ServerState, Statuses
  <2>4. receipt' \in [Ids -> Receipt]
    BY <1>4, <2>3 DEF RecordVerified
  <2>5. server' \in [Servers -> ServerState]
    <3>1. received + 1 \in 0..MaxDeliveries
      BY <2>2
    <3> QED BY <1>4, <3>1 DEF RecordVerified, ServerState
  <2> QED BY <1>4, <2>2, <2>4, <2>5 DEF RecordVerified
<1>5. ASSUME NEW r \in Ids, PutIfAbsent(r) PROVE event' \in [Keys -> 0..MaxDeliveries]
  BY <1>5, <1>b DEF PutIfAbsent
<1>6. ASSUME NEW s \in Servers, ServerPut(s) PROVE TypeOK'
  <2>1. server[s].r \in Ids
    BY <1>6, <1>c DEF ServerPut, ServersKnow
  <2>2. server' \in [Servers -> ServerState]
    <3>1. PICK pc \in {"mark", "compare"}, verdict \in {"accepted", "none"} :
            server' = [server EXCEPT ![s].pc = pc, ![s].verdict = verdict]
      BY <1>6 DEF ServerPut
    <3> QED BY <1>d, <3>1 DEF Verdicts
  <2> QED BY <1>5, <1>6, <2>1, <2>2 DEF ServerPut
<1>7. ASSUME NEW s \in Servers, ServerCompare(s) PROVE TypeOK'
  <2>1. PICK verdict \in {"payload_conflict", "duplicate"} :
          server' = [server EXCEPT ![s].pc = "mark", ![s].verdict = verdict]
    BY <1>7 DEF ServerCompare
  <2>2. server' \in [Servers -> ServerState]
    BY <1>d, <2>1 DEF Verdicts
  <2> QED BY <1>7, <2>2 DEF ServerCompare
<1>8. ASSUME NEW r \in Ids, NEW status \in Done, MarkProcessed(r, status)
      PROVE  receipt' \in [Ids -> Receipt]
  BY <1>8 DEF MarkProcessed, Receipt, Statuses
<1>9. ASSUME NEW s \in Servers, ServerMark(s) PROVE TypeOK'
  <2>1. server[s].r \in Ids
    BY <1>9, <1>c DEF ServerMark, ServersKnow
  <2>2. receipt' \in [Ids -> Receipt]
    BY <1>8, <1>9, <2>1 DEF ServerMark, Done
  <2>3. server' \in [Servers -> ServerState]
    BY <1>9, <1>a DEF ServerMark, ServerGoto, ServerReturns, ServerState
  <2>4. reply' \in [Ids -> Answers]
    BY <1>9 DEF ServerMark, Answers
  <2> QED BY <1>9, <2>2, <2>3, <2>4 DEF ServerMark
<1>10. ASSUME NEW s \in Servers, ServerAudit(s) PROVE TypeOK'
  <2>1. server[s].verdict \in Verdicts
    BY <1>10 DEF ServerAudit, ServersKnow
  <2>2. audit' \in [Refusals \cup Verdicts -> Nat]
    BY <1>10, <2>1 DEF ServerAudit, Count
  <2>3. reply' \in [Ids -> Answers]
    BY <1>10, <1>b, <2>1 DEF ServerAudit
  <2> QED BY <1>10, <1>a, <2>2, <2>3 DEF ServerAudit, ServerReturns
<1>11. ASSUME NEW s \in Servers, ServerFails(s) PROVE TypeOK'
  BY <1>11, <1>a DEF ServerFails, ServerReturns, Answers
<1>12. ASSUME NEW w \in Workers, WorkerStart(w) \/ WorkerPutFails(w) \/ WorkerCrash(w)
       PROVE  TypeOK'
  BY <1>12, <1>a DEF WorkerStart, WorkerPutFails, WorkerCrash, WorkerExits, WorkerState
<1>13. ASSUME NEW w \in Workers, Claim(w) PROVE TypeOK'
  <2>1. CASE Claimable = {} /\ WorkerExits(w) /\ UNCHANGED receipt
    BY <1>13, <1>a, <2>1 DEF Claim, WorkerExits
  <2>2. ASSUME NEW r \in Claimable,
               receipt' = [receipt EXCEPT ![r].status = "processing", ![r].attempts = @ + 1],
               worker' = [worker EXCEPT ![w].pc = "put", ![w].r = r]
        PROVE  TypeOK'
    <3>1. r \in Ids /\ receipt[r].attempts + 1 \in 0..MaxAttempts
      BY IntakeAssumption DEF Claimable, RowsAreInserted, Receipt
    <3>2. receipt' \in [Ids -> Receipt]
      BY <2>2, <3>1 DEF Receipt, Statuses
    <3>3. worker' \in [Workers -> WorkerState]
      BY <2>2, <3>1, <1>b DEF WorkerState
    <3> QED BY <1>13, <3>2, <3>3 DEF Claim
  <2> QED BY <1>13, <2>1, <2>2 DEF Claim
<1>14. ASSUME NEW w \in Workers, WorkerPut(w) PROVE TypeOK'
  <2>1. worker[w].r \in Ids
    BY <1>14, <1>c DEF WorkerPut, WorkersKnow
  <2>2. worker' \in [Workers -> WorkerState]
    BY <1>14 DEF WorkerPut, WorkerState, Done
  <2> QED BY <1>5, <1>14, <2>1, <2>2 DEF WorkerPut
<1>15. ASSUME NEW w \in Workers, WorkerRetry(w) PROVE TypeOK'
  <2>1. receipt' \in [Ids -> Receipt]
    <3>1. \/ UNCHANGED receipt
          \/ receipt' = [receipt EXCEPT ![worker[w].r].status = "failed"]
          \/ receipt' = [receipt EXCEPT ![worker[w].r].status = "verified", ![worker[w].r].due = FALSE]
      BY <1>15 DEF WorkerRetry
    <3> QED BY <3>1 DEF Receipt, Statuses
  <2> QED BY <1>15, <1>a, <2>1 DEF WorkerRetry, WorkerExits
<1>16. ASSUME NEW w \in Workers, WorkerMark(w) PROVE TypeOK'
  <2>1. worker[w].r \in Ids /\ worker[w].verdict \in Done
    BY <1>16, <1>c DEF WorkerMark, WorkersKnow
  <2>2. receipt' \in [Ids -> Receipt]
    BY <1>8, <1>16, <2>1 DEF WorkerMark
  <2> QED BY <1>16, <1>a, <2>2 DEF WorkerMark, WorkerExits
<1>17. ASSUME NEW r \in Ids, BecomeDue(r) PROVE TypeOK'
  BY <1>17 DEF BecomeDue, Receipt
<1> QED
  BY <1>1, <1>2, <1>3, <1>4, <1>6, <1>7, <1>9, <1>10, <1>11, <1>12, <1>13, <1>14, <1>15, <1>16,
     <1>17 DEF Next, ServerStep, WorkerStep

-----------------------------------------------------------------------------
(* Receipts keep their event, and a stored event is never replaced: what a *)
(* handler or a worker learnt before a pause is not stale after it.        *)

\* put_if_absent() stores r's event, or finds it stored.
LEMMA PutStores ==
    ASSUME IInv, NEW r \in 1..received, PutIfAbsent(r), receipt' = receipt
    PROVE  /\ Stored(r)'
           /\ Stores(r) => StoredFrom(r)'
           /\ \A k \in Keys : event[k] # 0 => event'[k] = event[k]
<1>1. r \in Ids /\ r # 0
  BY IntakeAssumption DEF IInv, TypeOK, Ids
<1>2. receipt[r].key \in Keys
  BY <1>1 DEF IInv, TypeOK, Receipt
<1>3. CASE Stores(r)
  <2>1. event' = [event EXCEPT ![receipt[r].key] = r]
    BY <1>3 DEF PutIfAbsent
  <2>2. event'[receipt[r].key] = r /\ \A k \in Keys \ {receipt[r].key} : event'[k] = event[k]
    BY <1>2, <2>1 DEF IInv, TypeOK
  <2> QED BY <1>1, <1>3, <2>2 DEF Stored, StoredFrom, Stores
<1>4. CASE ~Stores(r)
  BY <1>4 DEF PutIfAbsent, Stored, Stores
<1> QED BY <1>3, <1>4

\* No step takes a receipt or a stored event away, or changes what it is about.
LEMMA NothingIsLost ==
    ASSUME IInv, [Next]_vars
    PROVE  /\ received' \in {received, received + 1}
           /\ \A r \in 1..received : receipt'[r].key = receipt[r].key
           /\ \A k \in Keys : event[k] # 0 => event'[k] = event[k]
<1> USE DEF IInv, TypeOK, handlers
<1> DEFINE P == /\ received' \in {received, received + 1}
                /\ \A r \in 1..received : receipt'[r].key = receipt[r].key
                /\ \A k \in Keys : event[k] # 0 => event'[k] = event[k]
<1> SUFFICES P
  OBVIOUS
<1>0. \A r \in 1..received : r \in Ids
  BY IntakeAssumption DEF Ids
<1>1. CASE UNCHANGED <<received, receipt, event>>
  BY <1>1
<1>2. ASSUME NEW s \in Servers, RecordVerified(s) PROVE P
  BY <1>2, <1>0 DEF RecordVerified
<1>3. ASSUME NEW r \in Ids, NEW status, MarkProcessed(r, status), UNCHANGED <<received, event>> PROVE P
  BY <1>3, <1>0 DEF MarkProcessed, Receipt
<1>4. ASSUME NEW s \in Servers, ServerPut(s) PROVE P
  <2>1. server[s].r \in 1..received
    BY <1>4 DEF ServerPut, ServersKnow
  <2> QED BY <1>4, <2>1, PutStores DEF ServerPut
<1>5. ASSUME NEW w \in Workers, WorkerPut(w) PROVE P
  <2>1. worker[w].r \in 1..received
    BY <1>5 DEF WorkerPut, WorkersKnow
  <2> QED BY <1>5, <2>1, PutStores DEF WorkerPut
<1>6. ASSUME NEW s \in Servers, ServerMark(s) PROVE P
  <2>1. server[s].r \in Ids
    BY <1>6, <1>0 DEF ServerMark, ServersKnow
  <2> QED BY <1>3, <1>6, <2>1 DEF ServerMark
<1>7. ASSUME NEW w \in Workers, WorkerMark(w) PROVE P
  <2>1. worker[w].r \in Ids
    BY <1>7, <1>0 DEF WorkerMark, WorkersKnow
  <2> QED BY <1>3, <1>7, <2>1 DEF WorkerMark
<1>8. ASSUME NEW w \in Workers, Claim(w) PROVE P
  <2>1. CASE UNCHANGED receipt
    BY <1>1, <1>8, <2>1 DEF Claim
  <2>2. ASSUME NEW r \in Claimable,
               receipt' = [receipt EXCEPT ![r].status = "processing", ![r].attempts = @ + 1]
        PROVE  P
    <3>1. \A q \in Ids : receipt'[q].key = receipt[q].key
      BY <2>2 DEF Receipt
    <3> QED BY <1>0, <1>8, <3>1 DEF Claim
  <2> QED BY <1>8, <2>1, <2>2 DEF Claim
<1>9. ASSUME NEW w \in Workers, WorkerRetry(w) PROVE P
  <2>1. \/ UNCHANGED receipt
        \/ receipt' = [receipt EXCEPT ![worker[w].r].status = "failed"]
        \/ receipt' = [receipt EXCEPT ![worker[w].r].status = "verified", ![worker[w].r].due = FALSE]
    BY <1>9 DEF WorkerRetry
  <2>2. \A q \in Ids : receipt'[q].key = receipt[q].key
    BY <2>1 DEF Receipt
  <2> QED BY <1>0, <1>9, <2>2 DEF WorkerRetry
<1>10. ASSUME NEW r \in Ids, BecomeDue(r) PROVE P
  <2>1. \A q \in Ids : receipt'[q].key = receipt[q].key
    BY <1>10 DEF BecomeDue, Receipt
  <2> QED BY <1>0, <1>10, <2>1 DEF BecomeDue
<1>11. ASSUME NEW s \in Servers,
              \/ \E k \in Keys, b \in Bodies : Admit(s, k, b)
              \/ ServerCompare(s) \/ ServerAudit(s) \/ ServerFails(s)
       PROVE  P
  BY <1>1, <1>11 DEF Admit, ServerCompare, ServerAudit, ServerFails
<1>14. ASSUME NEW w \in Workers, WorkerStart(w) \/ WorkerPutFails(w) \/ WorkerCrash(w) PROVE P
  BY <1>1, <1>14 DEF WorkerStart, WorkerPutFails, WorkerCrash
<1>15. CASE SetPaused \/ UNCHANGED vars \/ \E o \in Refusals : Refuse(o)
  BY <1>1, <1>15 DEF SetPaused, vars, Refuse
<1> HIDE DEF P, IInv, TypeOK
<1>12. ASSUME NEW s \in Servers, ServerStep(s) PROVE P
  BY <1>2, <1>4, <1>6, <1>11, <1>12 DEF ServerStep
<1>13. ASSUME NEW w \in Workers, WorkerStep(w) PROVE P
  BY <1>5, <1>7, <1>8, <1>9, <1>14, <1>13 DEF WorkerStep
<1> QED
  BY <1>10, <1>11, <1>12, <1>13, <1>14, <1>15 DEF Next

\* ... so that stored stays stored.
LEMMA StoredStays ==
    ASSUME IInv, [Next]_vars, NEW r \in 1..received
    PROVE  /\ r \in 1..received'
           /\ Stored(r) => Stored(r)'
           /\ StoredFrom(r) => StoredFrom(r)'
<1>1. r \in Ids /\ r # 0
  BY IntakeAssumption DEF IInv, TypeOK, Ids
<1>2. receipt[r].key \in Keys
  BY <1>1 DEF IInv, TypeOK, Receipt
<1>3. r \in 1..received'
  BY NothingIsLost DEF IInv, TypeOK
<1> QED BY <1>1, <1>2, <1>3, NothingIsLost DEF Stored, StoredFrom

-----------------------------------------------------------------------------
\* A handler's knowledge, after its own steps and after everybody else's.
LEMMA NextServers == IInv /\ [Next]_vars => ServersKnow'
<1> SUFFICES ASSUME IInv, [Next]_vars PROVE ServersKnow'
  OBVIOUS
<1> DEFINE Knows(t) ==
      /\ IF server[t].pc \in {"idle", "record"} THEN server[t].r = 0
                                               ELSE server[t].r \in 1..received
      /\ server[t].pc \in {"compare", "mark", "audit"} => Stored(server[t].r)
      /\ server[t].pc \in {"mark", "audit"} =>
           /\ server[t].verdict \in Verdicts
           /\ server[t].verdict = "accepted" => StoredFrom(server[t].r)
<1>0. \A t \in Servers : Knows(t)
  BY DEF IInv, ServersKnow
<1>a. ASSUME NEW t \in Servers, server'[t] = server[t] PROVE Knows(t)'
  <2>1. CASE server[t].pc \in {"idle", "record"}
    BY <1>0, <1>a, <2>1
  <2>2. CASE server[t].pc \notin {"idle", "record"}
    <3>1. server[t].r \in 1..received
      BY <1>0, <2>2
    <3> QED BY <1>0, <1>a, <3>1, StoredStays
  <2> QED BY <2>1, <2>2
<1> SUFFICES ASSUME NEW t \in Servers PROVE Knows(t)'
  BY DEF ServersKnow
<1> USE DEF IInv, TypeOK, handlers
<1>1. ASSUME NEW s \in Servers, NEW k \in Keys, NEW b \in Bodies, Admit(s, k, b) PROVE Knows(t)'
  <2>1. CASE t # s
    BY <1>1, <1>a, <2>1 DEF Admit
  <2>2. CASE t = s
    <3>1. server'[t].pc = "record" /\ server'[t].r = 0
      BY <1>1, <2>2 DEF Admit, IdleServer
    <3> QED BY <3>1
  <2> QED BY <2>1, <2>2
<1>2. ASSUME NEW s \in Servers, RecordVerified(s) PROVE Knows(t)'
  <2>1. CASE t # s
    BY <1>2, <1>a, <2>1 DEF RecordVerified
  <2>2. CASE t = s
    <3>1. server'[t].pc = "put" /\ server'[t].r = received' /\ received' = received + 1
      BY <1>2, <2>2 DEF RecordVerified, ServerState
    <3>2. received \in Nat
      OBVIOUS
    <3> QED BY <3>1, <3>2
  <2> QED BY <2>1, <2>2
<1>3. ASSUME NEW s \in Servers, ServerPut(s) PROVE Knows(t)'
  <2>1. CASE t # s
    BY <1>3, <1>a, <2>1 DEF ServerPut
  <2>2. CASE t = s
    <3>1. /\ server'[t].pc = IF Stores(server[s].r) THEN "mark" ELSE "compare"
          /\ server'[t].verdict = IF Stores(server[s].r) THEN "accepted" ELSE "none"
          /\ server'[t].r = server[s].r
      BY <1>3, <2>2 DEF ServerPut, ServerState
    <3>2. server[s].r \in 1..received /\ received' = received
      BY <1>0, <1>3 DEF ServerPut
    <3>3. Stored(server[s].r)' /\ (Stores(server[s].r) => StoredFrom(server[s].r)')
      BY <1>3, <3>2, PutStores DEF ServerPut, Stored, StoredFrom
    <3>4. CASE Stores(server[s].r)
      BY <2>2, <3>1, <3>2, <3>3, <3>4 DEF Verdicts, Stored, StoredFrom
    <3>5. CASE ~Stores(server[s].r)
      BY <2>2, <3>1, <3>2, <3>3, <3>5 DEF Stored
    <3> QED BY <3>4, <3>5
  <2> QED BY <2>1, <2>2
<1>4. ASSUME NEW s \in Servers, ServerCompare(s) PROVE Knows(t)'
  <2>1. CASE t # s
    BY <1>4, <1>a, <2>1 DEF ServerCompare
  <2>2. CASE t = s
    <3>1. PICK verdict \in {"payload_conflict", "duplicate"} :
            server' = [server EXCEPT ![s].pc = "mark", ![s].verdict = verdict]
      BY <1>4 DEF ServerCompare
    <3>2. server'[t].pc = "mark" /\ server'[t].verdict = verdict /\ server'[t].r = server[t].r
      BY <2>2, <3>1 DEF ServerState
    <3>3. server[t].r \in 1..received /\ Stored(server[t].r)
      BY <1>0, <1>4, <2>2 DEF ServerCompare
    <3>4. server[t].r \in 1..received' /\ Stored(server[t].r)'
      BY <1>4, <3>3, <3>2 DEF ServerCompare, Stored
    <3> QED BY <3>2, <3>4 DEF Verdicts, Stored
  <2> QED BY <2>1, <2>2
<1>5. ASSUME NEW s \in Servers, ServerReturns(s) PROVE Knows(t)'
  <2>1. CASE t # s
    BY <1>5, <1>a, <2>1 DEF ServerReturns
  <2>2. CASE t = s
    BY <1>5, <2>2 DEF ServerReturns, IdleServer
  <2> QED BY <2>1, <2>2
<1>6. ASSUME NEW s \in Servers, ServerMark(s), ServerGoto(s, "audit") PROVE Knows(t)'
  <2>1. CASE t # s
    BY <1>6, <1>a, <2>1 DEF ServerGoto
  <2>2. CASE t = s
    <3>1. server'[t].pc = "audit" /\ server'[t].verdict = server[t].verdict
          /\ server'[t].r = server[t].r
      BY <1>6, <2>2 DEF ServerGoto, ServerState
    <3>2. /\ server[t].r \in 1..received /\ Stored(server[t].r)
          /\ server[t].verdict \in Verdicts
          /\ server[t].verdict = "accepted" => StoredFrom(server[t].r)
      BY <1>0, <1>6, <2>2 DEF ServerMark
    <3>3. /\ server[t].r \in 1..received' /\ Stored(server[t].r)'
          /\ server[t].verdict = "accepted" => StoredFrom(server[t].r)'
      BY <3>1, <3>2, StoredStays DEF Stored, StoredFrom
    <3> QED BY <3>1, <3>2, <3>3 DEF Stored, StoredFrom
  <2> QED BY <2>1, <2>2
<1>7. CASE UNCHANGED server
  BY <1>7, <1>a
<1>8. CASE \/ SetPaused \/ UNCHANGED vars \/ (\E o \in Refusals : Refuse(o))
           \/ (\E w \in Workers : WorkerStart(w) \/ WorkerStep(w) \/ WorkerCrash(w))
           \/ \E r \in Ids : BecomeDue(r)
  <2>1. UNCHANGED server
    BY <1>8 DEF SetPaused, vars, Refuse, WorkerStart, WorkerStep, Claim, WorkerPut, WorkerPutFails,
                WorkerRetry, WorkerMark, WorkerCrash, BecomeDue
  <2> QED BY <1>7, <2>1
<1>9. ASSUME NEW s \in Servers, ServerMark(s) \/ ServerAudit(s) \/ ServerFails(s) PROVE Knows(t)'
  BY <1>5, <1>6, <1>9 DEF ServerMark, ServerAudit, ServerFails
<1> HIDE DEF Knows
<1> QED BY <1>1, <1>2, <1>3, <1>4, <1>8, <1>9 DEF Next, ServerStep

\* A recovery worker's knowledge, likewise.
LEMMA NextWorkers == IInv /\ [Next]_vars => WorkersKnow'
<1> SUFFICES ASSUME IInv, [Next]_vars PROVE WorkersKnow'
  OBVIOUS
<1> DEFINE Knows(v) ==
      /\ worker[v].pc \notin {"exit", "claim"} => worker[v].r \in 1..received
      /\ worker[v].pc = "mark" =>
           /\ worker[v].verdict \in Done /\ Stored(worker[v].r)
           /\ worker[v].verdict = "accepted" => StoredFrom(worker[v].r)
<1>0. \A v \in Workers : Knows(v)
  BY DEF IInv, WorkersKnow
<1>a. ASSUME NEW v \in Workers, worker'[v] = worker[v] PROVE Knows(v)'
  <2>1. CASE worker[v].pc \in {"exit", "claim"}
    BY <1>a, <2>1
  <2>2. CASE worker[v].pc \notin {"exit", "claim"}
    <3>1. worker[v].r \in 1..received
      BY <1>0, <2>2
    <3> QED BY <1>0, <1>a, <3>1, StoredStays
  <2> QED BY <2>1, <2>2
<1> SUFFICES ASSUME NEW v \in Workers PROVE Knows(v)'
  BY DEF WorkersKnow
<1> USE DEF IInv, TypeOK, handlers
<1>1. ASSUME NEW w \in Workers, WorkerStart(w) PROVE Knows(v)'
  <2>1. CASE v # w
    BY <1>1, <1>a, <2>1 DEF WorkerStart
  <2>2. CASE v = w
    <3>1. worker'[v].pc = "claim"
      BY <1>1, <2>2 DEF WorkerStart, WorkerState
    <3> QED BY <3>1
  <2> QED BY <2>1, <2>2
<1>2. ASSUME NEW w \in Workers, WorkerExits(w) PROVE Knows(v)'
  <2>1. CASE v # w
    BY <1>2, <1>a, <2>1 DEF WorkerExits
  <2>2. CASE v = w
    BY <1>2, <2>2 DEF WorkerExits, IdleWorker
  <2> QED BY <2>1, <2>2
<1>3. ASSUME NEW w \in Workers, Claim(w) PROVE Knows(v)'
  <2>1. ASSUME NEW r \in Claimable, worker' = [worker EXCEPT ![w].pc = "put", ![w].r = r]
        PROVE  Knows(v)'
    <3>1. CASE v # w
      BY <1>a, <2>1, <3>1
    <3>2. CASE v = w
      <4>1. worker'[v].pc = "put" /\ worker'[v].r = r
        BY <2>1, <3>2 DEF WorkerState
      <4>2. r \in 1..received
        BY DEF Claimable, RowsAreInserted, Ids
      <4> QED BY <1>3, <4>1, <4>2 DEF Claim
    <3> QED BY <3>1, <3>2
  <2> QED BY <1>2, <1>3, <2>1 DEF Claim
<1>4. ASSUME NEW w \in Workers, WorkerPut(w) PROVE Knows(v)'
  <2>1. CASE v # w
    BY <1>4, <1>a, <2>1 DEF WorkerPut
  <2>2. CASE v = w
    <3>1. /\ worker'[v].pc = "mark" /\ worker'[v].r = worker[v].r
          /\ worker'[v].verdict = IF Stores(worker[v].r) THEN "accepted" ELSE "duplicate"
      BY <1>4, <2>2 DEF WorkerPut, WorkerState
    <3>2. worker[v].r \in 1..received /\ received' = received
      BY <1>0, <1>4, <2>2 DEF WorkerPut
    <3>3. Stored(worker[v].r)' /\ (Stores(worker[v].r) => StoredFrom(worker[v].r)')
      BY <1>4, <2>2, <3>1, <3>2, PutStores DEF WorkerPut, Stored, StoredFrom
    <3>4. CASE Stores(worker[v].r)
      BY <3>1, <3>2, <3>3, <3>4 DEF Done
    <3>5. CASE ~Stores(worker[v].r)
      BY <3>1, <3>2, <3>3, <3>5 DEF Done
    <3> QED BY <3>4, <3>5
  <2> QED BY <2>1, <2>2
<1>5. ASSUME NEW w \in Workers, WorkerPutFails(w) PROVE Knows(v)'
  <2>1. CASE v # w
    BY <1>5, <1>a, <2>1 DEF WorkerPutFails
  <2>2. CASE v = w
    <3>1. worker'[v].pc = "retry" /\ worker'[v].r = worker[v].r
      BY <1>5, <2>2 DEF WorkerPutFails, WorkerState
    <3>2. worker[v].r \in 1..received /\ received' = received
      BY <1>0, <1>5, <2>2 DEF WorkerPutFails
    <3> QED BY <3>1, <3>2
  <2> QED BY <2>1, <2>2
<1>6. CASE UNCHANGED worker
  BY <1>6, <1>a
<1>7. CASE SetPaused \/ UNCHANGED vars \/ (\E o \in Refusals : Refuse(o)) \/ \E r \in Ids : BecomeDue(r)
  BY <1>6, <1>7 DEF SetPaused, vars, Refuse, BecomeDue
<1>8. ASSUME NEW s \in Servers,
             ServerStep(s) \/ ServerFails(s) \/ \E k \in Keys, b \in Bodies : Admit(s, k, b)
      PROVE  Knows(v)'
  <2>1. UNCHANGED worker
    BY <1>8 DEF Admit, ServerStep, ServerFails, RecordVerified, ServerPut, ServerCompare, ServerMark,
                ServerAudit
  <2> QED BY <1>6, <2>1
<1>9. ASSUME NEW w \in Workers, WorkerRetry(w) \/ WorkerMark(w) \/ WorkerCrash(w) PROVE Knows(v)'
  BY <1>2, <1>9 DEF WorkerRetry, WorkerMark, WorkerCrash
<1> HIDE DEF Knows, IInv, TypeOK
<1> QED BY <1>1, <1>3, <1>4, <1>5, <1>7, <1>8, <1>9 DEF Next, WorkerStep

-----------------------------------------------------------------------------
\* The lives of a receipt: inserted, claimed, given back, failed, or processed
\* from 'verified' or 'processing' by somebody who knows its event is stored.
Inserted(r) ==
    /\ r = received + 1 /\ received' = r
    /\ receipt'[r].status = "verified" /\ receipt'[r].attempts = 0
Kept(r) == receipt'[r].status = receipt[r].status /\ receipt'[r].attempts = receipt[r].attempts
Claimed(r) == receipt[r].status = "verified" /\ receipt'[r].status = "processing"
GivenBack(r) ==
    /\ receipt[r].status = "processing"
    /\ receipt'[r].attempts = receipt[r].attempts
    /\ \/ receipt'[r].status = "failed"
       \/ receipt'[r].status = "verified" /\ receipt[r].attempts < MaxAttempts
Marked(r) ==
    /\ receipt[r].status \in {"verified", "processing"}
    /\ receipt'[r].status \in Done /\ Stored(r)
    /\ receipt'[r].status = "accepted" => StoredFrom(r)

\* No step does anything else to a receipt.
LEMMA ReceiptSteps ==
    ASSUME IInv, [Next]_vars, NEW r \in Ids
    PROVE  \/ Inserted(r)
           \/ /\ r > received <=> r > received'
              /\ Kept(r) \/ Claimed(r) \/ GivenBack(r) \/ Marked(r)
<1> DEFINE P == \/ Inserted(r)
                \/ /\ r > received <=> r > received'
                   /\ Kept(r) \/ Claimed(r) \/ GivenBack(r) \/ Marked(r)
<1> SUFFICES P
  OBVIOUS
<1> USE DEF IInv, TypeOK, handlers
<1>0. \A q \in 1..received : q \in Ids
  BY IntakeAssumption DEF Ids
<1>1. CASE UNCHANGED <<received, receipt>>
  BY <1>1 DEF Kept
<1>2. ASSUME NEW s \in Servers, RecordVerified(s) PROVE P
  <2>1. CASE r = received + 1
    BY <1>2, <2>1 DEF RecordVerified, Inserted
  <2>2. CASE r # received + 1
    <3>1. Kept(r)
      BY <1>2, <2>2 DEF RecordVerified, Kept
    <3>2. received' = received + 1 /\ r \in Nat /\ received \in Nat
      BY <1>2, IntakeAssumption DEF RecordVerified, Ids
    <3> QED BY <2>2, <3>1, <3>2
  <2> QED BY <2>1, <2>2
<1>3. ASSUME NEW q \in Ids, NEW status \in Done, MarkProcessed(q, status), received' = received,
             Stored(q), status = "accepted" => StoredFrom(q)
      PROVE  P
  <2>1. CASE q = r /\ Markable(q)
    <3>1. receipt'[r].status = status
      BY <1>3, <2>1 DEF MarkProcessed, Receipt
    <3> QED BY <1>3, <2>1, <3>1 DEF Markable, Marked
  <2>2. CASE q # r \/ ~Markable(q)
    BY <1>3, <2>2 DEF MarkProcessed, Kept
  <2> QED BY <2>1, <2>2
<1>4. ASSUME NEW s \in Servers, ServerMark(s) PROVE P
  <2>1. /\ server[s].r \in Ids /\ Stored(server[s].r)
        /\ server[s].verdict = "accepted" => StoredFrom(server[s].r)
    BY <1>0, <1>4 DEF ServerMark, ServersKnow
  <2>2. PICK status \in Done : /\ MarkProcessed(server[s].r, status)
                               /\ status = "accepted" => server[s].verdict = "accepted"
    BY <1>4 DEF ServerMark, Done
  <2> QED BY <1>3, <1>4, <2>1, <2>2 DEF ServerMark
<1>5. ASSUME NEW w \in Workers, WorkerMark(w) PROVE P
  <2>1. /\ worker[w].r \in Ids /\ Stored(worker[w].r) /\ worker[w].verdict \in Done
        /\ worker[w].verdict = "accepted" => StoredFrom(worker[w].r)
    BY <1>0, <1>5 DEF WorkerMark, WorkersKnow
  <2> QED BY <1>3, <1>5, <2>1 DEF WorkerMark
<1>6. ASSUME NEW w \in Workers, Claim(w) PROVE P
  <2>1. ASSUME NEW q \in Claimable,
               receipt' = [receipt EXCEPT ![q].status = "processing", ![q].attempts = @ + 1]
        PROVE  P
    <3>1. CASE q = r
      <4>1. receipt'[r].status = "processing" /\ receipt[r].status = "verified"
        BY <2>1, <3>1 DEF Claimable, Receipt
      <4> QED BY <1>6, <4>1 DEF Claim, Claimed
    <3>2. CASE q # r
      BY <1>6, <2>1, <3>2 DEF Claim, Kept
    <3> QED BY <3>1, <3>2
  <2> QED BY <1>1, <1>6, <2>1 DEF Claim
<1>7. ASSUME NEW w \in Workers, WorkerRetry(w) PROVE P
  <2> DEFINE q == worker[w].r
  <2>1. CASE receipt[q].status # "processing"
    BY <1>1, <1>7, <2>1 DEF WorkerRetry
  <2>2. CASE q # r
    <3>1. \/ UNCHANGED receipt
          \/ receipt' = [receipt EXCEPT ![q].status = "failed"]
          \/ receipt' = [receipt EXCEPT ![q].status = "verified", ![q].due = FALSE]
      BY <1>7 DEF WorkerRetry
    <3>2. Kept(r)
      BY <2>2, <3>1 DEF Kept
    <3> QED BY <1>7, <3>2 DEF WorkerRetry
  <2>3. CASE q = r /\ receipt[q].status = "processing" /\ Exhausted(q)
    <3>1. receipt' = [receipt EXCEPT ![r].status = "failed"]
      BY <1>7, <2>3 DEF WorkerRetry
    <3>2. receipt'[r].status = "failed" /\ receipt'[r].attempts = receipt[r].attempts
      BY <3>1 DEF Receipt
    <3> QED BY <1>7, <2>3, <3>2 DEF GivenBack, WorkerRetry
  <2>4. CASE q = r /\ receipt[q].status = "processing" /\ ~Exhausted(q)
    <3>1. receipt' = [receipt EXCEPT ![r].status = "verified", ![r].due = FALSE]
      BY <1>7, <2>4 DEF WorkerRetry
    <3>2. receipt'[r].status = "verified" /\ receipt'[r].attempts = receipt[r].attempts
      BY <3>1 DEF Receipt
    <3>3. receipt[r].attempts < MaxAttempts
      BY <2>4, IntakeAssumption DEF Exhausted, Receipt
    <3> QED BY <1>7, <2>4, <3>2, <3>3 DEF GivenBack, WorkerRetry
  <2> QED BY <2>1, <2>2, <2>3, <2>4
<1>8. ASSUME NEW q \in Ids, BecomeDue(q) PROVE P
  <2>1. Kept(r)
    BY <1>8 DEF BecomeDue, Kept, Receipt
  <2> QED BY <1>8, <2>1 DEF BecomeDue
<1>9. CASE SetPaused \/ UNCHANGED vars \/ \E o \in Refusals : Refuse(o)
  BY <1>1, <1>9 DEF SetPaused, vars, Refuse
<1>10. ASSUME NEW s \in Servers,
              \/ \E k \in Keys, b \in Bodies : Admit(s, k, b)
              \/ ServerPut(s) \/ ServerCompare(s) \/ ServerAudit(s) \/ ServerFails(s)
       PROVE  P
  BY <1>1, <1>10 DEF Admit, ServerPut, ServerCompare, ServerAudit, ServerFails
<1>11. ASSUME NEW w \in Workers, WorkerStart(w) \/ WorkerPut(w) \/ WorkerPutFails(w) \/ WorkerCrash(w)
       PROVE  P
  BY <1>1, <1>11 DEF WorkerStart, WorkerPut, WorkerPutFails, WorkerCrash
<1> HIDE DEF P, IInv, TypeOK
<1> QED BY <1>2, <1>4, <1>5, <1>6, <1>7, <1>8, <1>9, <1>10, <1>11 DEF Next, ServerStep, WorkerStep

\* The carrier is answered about an inserted receipt, and told that it was
\* processed only when its event is stored.
LEMMA ReplySteps ==
    ASSUME IInv, [Next]_vars, NEW r \in Ids, reply'[r] # reply[r]
    PROVE  r \in 1..received /\ (reply'[r] \in Verdicts => Stored(r))
<1> USE DEF IInv, TypeOK, handlers
<1>1. ASSUME NEW s \in Servers, ServerMark(s) PROVE r \in 1..received /\ reply'[r] = "error"
  <2>1. server[s].r \in 1..received
    BY <1>1 DEF ServerMark, ServersKnow
  <2> QED BY <1>1, <2>1 DEF ServerMark
<1>2. ASSUME NEW s \in Servers, ServerAudit(s) PROVE r \in 1..received /\ Stored(r)
  <2>1. server[s].r \in 1..received /\ Stored(server[s].r)
    BY <1>2 DEF ServerAudit, ServersKnow
  <2> QED BY <1>2, <2>1 DEF ServerAudit
<1>3. ASSUME NEW s \in Servers, ServerFails(s) PROVE r \in 1..received /\ reply'[r] = "error"
  <2>1. r = server[s].r /\ reply'[r] = "error"
    BY <1>3 DEF ServerFails
  <2>2. server[s].pc \notin {"idle", "record"} => server[s].r \in 1..received
    BY DEF ServersKnow
  <2>3. server[s].pc \in {"idle", "record"} => server[s].r = 0
    BY DEF ServersKnow
  <2> QED BY <2>1, <2>2, <2>3, IntakeAssumption DEF Ids
<1>4. CASE UNCHANGED reply
  BY <1>4
<1>5. CASE \/ SetPaused \/ UNCHANGED vars \/ (\E o \in Refusals : Refuse(o))
           \/ (\E w \in Workers : WorkerStart(w) \/ WorkerStep(w) \/ WorkerCrash(w))
           \/ \E q \in Ids : BecomeDue(q)
  <2>1. UNCHANGED reply
    BY <1>5 DEF SetPaused, vars, Refuse, WorkerStart, WorkerStep, Claim, WorkerPut, WorkerPutFails,
                WorkerRetry, WorkerMark, WorkerCrash, BecomeDue
  <2> QED BY <2>1
<1>6. ASSUME NEW s \in Servers, \/ \E k \in Keys, b \in Bodies : Admit(s, k, b)
                                \/ RecordVerified(s) \/ ServerPut(s) \/ ServerCompare(s)
      PROVE  FALSE
  BY <1>6 DEF Admit, RecordVerified, ServerPut, ServerCompare
<1> HIDE DEF IInv, TypeOK
<1> QED BY <1>1, <1>2, <1>3, <1>5, <1>6 DEF Next, ServerStep, Verdicts

-----------------------------------------------------------------------------
\* Rows are inserted in order, and a receipt goes back to 'verified' only while
\* an attempt is left.
LEMMA NextRows == IInv /\ [Next]_vars => RowsAreInserted'
<1> SUFFICES ASSUME IInv, [Next]_vars, NEW r \in Ids
             PROVE  /\ receipt'[r].status = "none" <=> r > received'
                    /\ receipt'[r].status = "verified" => receipt'[r].attempts < MaxAttempts
                    /\ r > received' => reply'[r] = "none"
  BY DEF RowsAreInserted
<1>0. r \in Nat /\ received \in Nat /\ received' \in {received, received + 1}
  BY NothingIsLost, IntakeAssumption DEF IInv, TypeOK, Ids
<1>1. /\ receipt[r].status = "none" <=> r > received
      /\ receipt[r].status = "verified" => receipt[r].attempts < MaxAttempts
      /\ r > received => reply[r] = "none"
  BY DEF IInv, RowsAreInserted
<1>2. r > received' => reply'[r] = "none"
  BY <1>0, <1>1, ReplySteps
<1>3. CASE Inserted(r)
  BY <1>0, <1>2, <1>3, IntakeAssumption DEF Inserted
<1>4. CASE (r > received <=> r > received')
           /\ (Kept(r) \/ Claimed(r) \/ GivenBack(r) \/ Marked(r))
  BY <1>1, <1>2, <1>4 DEF Kept, Claimed, GivenBack, Marked, Done
<1> QED BY <1>3, <1>4, ReceiptSteps

\* Marks and answers agree with the store when they are made, and stay so.
LEMMA NextAgrees == IInv /\ [Next]_vars => ReceiptsAgreeWithStore' /\ AcknowledgedIsStored'
<1> SUFFICES ASSUME IInv, [Next]_vars, NEW r \in Ids
             PROVE  /\ receipt'[r].status = "accepted" => StoredFrom(r)'
                    /\ receipt'[r].status = "duplicate" => Stored(r)'
                    /\ reply'[r] \in Verdicts => Stored(r)'
  BY DEF ReceiptsAgreeWithStore, AcknowledgedIsStored, Stored, StoredFrom
<1>0. r \in Nat \ {0} /\ received \in Nat
  BY IntakeAssumption DEF IInv, TypeOK, Ids
<1>1. /\ receipt[r].status = "accepted" => StoredFrom(r)
      /\ receipt[r].status = "duplicate" => Stored(r)
      /\ reply[r] \in Verdicts => Stored(r)
      /\ receipt[r].status = "none" <=> r > received
      /\ r > received => reply[r] = "none"
  BY DEF IInv, RowsAreInserted, ReceiptsAgreeWithStore, AcknowledgedIsStored, Stored, StoredFrom
<1>2. reply'[r] \in Verdicts => r \in 1..received /\ Stored(r)
  BY <1>0, <1>1, ReplySteps DEF Verdicts
<1>3. /\ receipt'[r].status = "accepted" => r \in 1..received /\ StoredFrom(r)
      /\ receipt'[r].status = "duplicate" => r \in 1..received /\ Stored(r)
  BY <1>0, <1>1, ReceiptSteps DEF Inserted, Kept, Claimed, GivenBack, Marked, Done
<1> QED BY <1>2, <1>3, StoredStays

-----------------------------------------------------------------------------
\* put_if_absent() adds at most one stored event, and adds one when it stores.
LEMMA PutCounts ==
    ASSUME IInv, NEW r \in 1..received, PutIfAbsent(r)
    PROVE  /\ Stores(r) => Cardinality(StoredKeys') = Cardinality(StoredKeys) + 1
           /\ ~Stores(r) => StoredKeys' = StoredKeys
<1>1. r \in Ids /\ r # 0
  BY IntakeAssumption DEF IInv, TypeOK, Ids
<1>2. receipt[r].key \in Keys
  BY <1>1 DEF IInv, TypeOK, Receipt
<1>3. CASE Stores(r)
  <2>1. event'[receipt[r].key] = r /\ \A k \in Keys \ {receipt[r].key} : event'[k] = event[k]
    BY <1>2, <1>3 DEF PutIfAbsent, IInv, TypeOK
  <2>2. StoredKeys' = StoredKeys \cup {receipt[r].key} /\ receipt[r].key \notin StoredKeys
    BY <1>1, <1>2, <1>3, <2>1 DEF StoredKeys, Stores
  <2> QED BY <1>3, <2>2, CreditsAreFinite, FS_AddElement
<1>4. CASE ~Stores(r)
  BY <1>4 DEF PutIfAbsent, StoredKeys
<1> QED BY <1>3, <1>4

\* An acceptance is credited when a handler stores the event, and the credit is
\* spent when the handler counts it, or lost when it fails.
LEMMA NextCredits == IInv /\ [Next]_vars => CreditsAreCovered'
<1> SUFFICES ASSUME IInv, [Next]_vars PROVE CreditsAreCovered'
  OBVIOUS
<1> USE DEF IInv, TypeOK, handlers
<1>0. audit["accepted"] \in Nat
  BY DEF Verdicts
<1>a. ASSUME audit'["accepted"] = audit["accepted"], Crediting' \subseteq Crediting,
             StoredKeys' = StoredKeys
      PROVE  CreditsAreCovered'
  <2>1. Cardinality(Crediting') \in Nat /\ Cardinality(Crediting') <= Cardinality(Crediting)
    BY <1>a, CreditsAreFinite, FS_Subset, FS_CardinalityType
  <2> QED BY <1>0, <1>a, <2>1, CreditsAreFinite DEF CreditsAreCovered
<1>1. CASE UNCHANGED <<audit, server, event>>
  BY <1>1, <1>a DEF Crediting, StoredKeys
<1>2. ASSUME NEW o \in Refusals, Refuse(o) PROVE CreditsAreCovered'
  <2>1. audit'["accepted"] = audit["accepted"]
    BY <1>2 DEF Refuse, Count, Refusals, Verdicts
  <2> QED BY <1>2, <1>a, <2>1 DEF Refuse, Crediting, StoredKeys
<1>3. ASSUME NEW s \in Servers, ServerPut(s) PROVE CreditsAreCovered'
  <2> DEFINE r == server[s].r
  <2>0. r \in 1..received /\ PutIfAbsent(r) /\ audit' = audit
    BY <1>3 DEF ServerPut, ServersKnow
  <2>1. server[s].pc = "put" /\ s \notin Crediting
    BY <1>3 DEF ServerPut, Crediting
  <2>2. CASE Stores(r)
    <3>1. server' = [server EXCEPT ![s].pc = "mark", ![s].verdict = "accepted"]
      BY <1>3, <2>2 DEF ServerPut
    <3>2. server'[s].pc = "mark" /\ server'[s].verdict = "accepted"
          /\ \A t \in Servers \ {s} : server'[t] = server[t]
      BY <3>1 DEF ServerState
    <3>3. Crediting' = Crediting \cup {s}
      BY <3>2 DEF Crediting
    <3>4. Cardinality(Crediting') = Cardinality(Crediting) + 1
      BY <2>1, <3>3, CreditsAreFinite, FS_AddElement
    <3>5. Cardinality(StoredKeys') = Cardinality(StoredKeys) + 1
      BY <2>0, <2>2, PutCounts
    <3> QED BY <1>0, <2>0, <3>4, <3>5, CreditsAreFinite DEF CreditsAreCovered
  <2>3. CASE ~Stores(r)
    <3>1. server' = [server EXCEPT ![s].pc = "compare", ![s].verdict = "none"]
      BY <1>3, <2>3 DEF ServerPut
    <3>2. server'[s].pc = "compare" /\ \A t \in Servers \ {s} : server'[t] = server[t]
      BY <3>1 DEF ServerState
    <3>3. Crediting' \subseteq Crediting
      BY <3>2 DEF Crediting
    <3> QED BY <1>a, <2>0, <2>3, <3>3, PutCounts
  <2> QED BY <2>2, <2>3
<1>4. ASSUME NEW w \in Workers, WorkerPut(w) PROVE CreditsAreCovered'
  <2> DEFINE r == worker[w].r
  <2>0. r \in 1..received /\ PutIfAbsent(r) /\ audit' = audit /\ Crediting' = Crediting
    BY <1>4 DEF WorkerPut, WorkersKnow, Crediting
  <2>1. StoredKeys' = StoredKeys \/ Cardinality(StoredKeys') = Cardinality(StoredKeys) + 1
    BY <2>0, PutCounts
  <2> QED BY <1>0, <2>0, <2>1, CreditsAreFinite DEF CreditsAreCovered
<1>5. ASSUME NEW s \in Servers, ServerCompare(s) PROVE CreditsAreCovered'
  <2>1. PICK verdict \in {"payload_conflict", "duplicate"} :
          server' = [server EXCEPT ![s].pc = "mark", ![s].verdict = verdict]
    BY <1>5 DEF ServerCompare
  <2>2. server'[s].verdict # "accepted" /\ \A t \in Servers \ {s} : server'[t] = server[t]
    BY <2>1 DEF ServerState
  <2>3. Crediting' \subseteq Crediting
    BY <2>2 DEF Crediting
  <2> QED BY <1>5, <1>a, <2>3 DEF ServerCompare, StoredKeys
<1>6. ASSUME NEW s \in Servers, ServerMark(s) PROVE CreditsAreCovered'
  <2>1. CASE ServerGoto(s, "audit")
    <3>1. server'[s].verdict = server[s].verdict /\ \A t \in Servers \ {s} : server'[t] = server[t]
      BY <2>1 DEF ServerGoto, ServerState
    <3>2. Crediting' \subseteq Crediting
      BY <1>6, <3>1 DEF Crediting, ServerMark
    <3> QED BY <1>6, <1>a, <3>2 DEF ServerMark, StoredKeys
  <2>2. CASE ServerReturns(s)
    <3>1. Crediting' \subseteq Crediting
      BY <2>2 DEF ServerReturns, Crediting, IdleServer
    <3> QED BY <1>6, <1>a, <3>1 DEF ServerMark, StoredKeys
  <2> QED BY <1>6, <2>1, <2>2 DEF ServerMark
<1>7. ASSUME NEW s \in Servers, ServerAudit(s) PROVE CreditsAreCovered'
  <2>1. Crediting' = Crediting \ {s}
    BY <1>7 DEF ServerAudit, ServerReturns, Crediting, IdleServer
  <2>2. CASE server[s].verdict = "accepted"
    <3>1. audit'["accepted"] = audit["accepted"] + 1
      BY <1>7, <2>2 DEF ServerAudit, Count, Verdicts
    <3>2. s \in Crediting
      BY <1>7, <2>2 DEF ServerAudit, Crediting
    <3>3. Cardinality(Crediting') = Cardinality(Crediting) - 1
      BY <2>1, <3>2, CreditsAreFinite, FS_RemoveElement
    <3>4. StoredKeys' = StoredKeys
      BY <1>7 DEF ServerAudit, StoredKeys
    <3> QED BY <1>0, <3>1, <3>3, <3>4, CreditsAreFinite DEF CreditsAreCovered
  <2>3. CASE server[s].verdict # "accepted"
    <3>1. audit'["accepted"] = audit["accepted"]
      BY <1>7, <2>3 DEF ServerAudit, Count, Verdicts
    <3> QED BY <1>7, <1>a, <2>1, <3>1 DEF ServerAudit, StoredKeys
  <2> QED BY <2>2, <2>3
<1>8. ASSUME NEW s \in Servers, ServerFails(s) PROVE CreditsAreCovered'
  <2>1. Crediting' \subseteq Crediting
    BY <1>8 DEF ServerFails, ServerReturns, Crediting, IdleServer
  <2> QED BY <1>8, <1>a, <2>1 DEF ServerFails, StoredKeys
<1>9. ASSUME NEW s \in Servers, NEW k \in Keys, NEW b \in Bodies, Admit(s, k, b)
      PROVE  CreditsAreCovered'
  <2>1. Crediting' \subseteq Crediting
    BY <1>9 DEF Admit, Crediting, IdleServer
  <2> QED BY <1>9, <1>a, <2>1 DEF Admit, StoredKeys
<1>10. ASSUME NEW s \in Servers, RecordVerified(s) PROVE CreditsAreCovered'
  <2>1. server'[s].pc = "put" /\ \A t \in Servers \ {s} : server'[t] = server[t]
    BY <1>10 DEF RecordVerified, ServerState
  <2>2. Crediting' \subseteq Crediting
    BY <2>1 DEF Crediting
  <2> QED BY <1>10, <1>a, <2>2 DEF RecordVerified, StoredKeys
<1>11. CASE SetPaused \/ UNCHANGED vars \/ \E r \in Ids : BecomeDue(r)
  BY <1>1, <1>11 DEF SetPaused, vars, BecomeDue
<1>12. ASSUME NEW w \in Workers, \/ WorkerStart(w) \/ Claim(w) \/ WorkerPutFails(w) \/ WorkerRetry(w)
                                 \/ WorkerMark(w) \/ WorkerCrash(w)
       PROVE  CreditsAreCovered'
  BY <1>1, <1>12 DEF WorkerStart, Claim, WorkerPutFails, WorkerRetry, WorkerMark, WorkerCrash
<1> HIDE DEF IInv, TypeOK
<1> QED
  BY <1>2, <1>3, <1>4, <1>5, <1>6, <1>7, <1>8, <1>9, <1>10, <1>11, <1>12
     DEF Next, ServerStep, WorkerStep

\* Every step keeps the invariant.
LEMMA NextIInv == IInv /\ [Next]_vars => IInv'
BY NextType, NextRows, NextServers, NextWorkers, NextAgrees, NextCredits DEF IInv

-----------------------------------------------------------------------------
\* Receipts, event store, the answers given to the carrier and the boundary
\* counters tell the same story, whichever handlers and recovery workers of
\* whatever number die, are slow or overtake each other.
THEOREM ReceiptsTellTheTruth == Spec => []ReceiptsAreTrue
<1>1. IInv => ReceiptsAreTrue
  <2> SUFFICES ASSUME IInv PROVE AuditNeverOvercounts
    BY DEF IInv, ReceiptsAreTrue
  <2>1. audit["accepted"] \in Nat
    BY DEF IInv, TypeOK, Verdicts
  <2> QED BY <2>1, CreditsAreFinite
          DEF IInv, CreditsAreCovered, AuditNeverOvercounts, StoredKeys
<1> QED BY <1>1, InitIInv, NextIInv, PTL DEF Spec

\* A processed or failed receipt keeps its status: the conditions of
\* mark_processed(), retry_processing() and claim_verified() turn away everyone
\* who is late, and record_verified() never reuses a row.
THEOREM ProcessedStaysProcessed == Spec => TerminalReceiptIsFinal
<1>1. IInv /\ [Next]_vars =>
        [\A r \in Ids : receipt[r].status \in Done \cup {"failed"}
                        => receipt'[r].status = receipt[r].status]_vars
  <2> SUFFICES ASSUME IInv, [Next]_vars, NEW r \in Ids, receipt[r].status \in Done \cup {"failed"}
               PROVE  receipt'[r].status = receipt[r].status
    OBVIOUS
  <2>1. ~Inserted(r)
    <3>1. ~(r > received) /\ received \in Nat
      BY DEF IInv, TypeOK, RowsAreInserted, Done
    <3> QED BY <3>1 DEF Inserted
  <2> QED BY <2>1, ReceiptSteps DEF Kept, Claimed, GivenBack, Marked, Done
<1> QED BY <1>1, InitIInv, NextIInv, PTL DEF Spec, TerminalReceiptIsFinal
=============================================================================

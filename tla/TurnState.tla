----------------------------- MODULE TurnState -----------------------------
(***************************************************************************)
(* Turn ownership between agents (server/edge1_operator_turn_state.py).    *)
(*                                                                         *)
(* Both mutating operations run under BEGIN IMMEDIATE on one SQLite file,  *)
(* so each is one action; a process that dies inside the transaction, or a *)
(* statement that raises, leaves no row behind and is not a step.  What    *)
(* can still go wrong is around the transaction: the answer of a committed *)
(* handoff is lost and the caller sends the request again, a key is used   *)
(* for two requests, a request was made from a stale status(), and seed()  *)
(* starts a conversation over while keys of its former life remain.        *)
(***************************************************************************)
EXTENDS Integers, FiniteSets

CONSTANTS Agents, Conversations, Callers, Keys, Reasons,
          NoTurn,        \* a conversation without a row
          MaxEpoch,      \* bound on turn_epoch
          MaxSeeds       \* bound on the calls of seed() per conversation

ASSUME TurnBounds == MaxEpoch \in Nat /\ MaxSeeds \in Nat

VARIABLES
  turnState,        \* conversation -> row of turn_state
  turnAudit,        \* rows of turn_audit
  turnOutbox,       \* rows of turn_outbox
  turnIdempotency,  \* rows of turn_idempotency
  turnCalls,        \* caller -> its request and the answer it was given
  turnSeeds         \* conversation -> number of seed() calls so far

turnVars ==
  <<turnState, turnAudit, turnOutbox, turnIdempotency, turnCalls, turnSeeds>>

NoAgent == "none"
HandoffRequests ==
  [conv : Conversations, agent : Agents, to : Agents, epoch : 0..MaxEpoch,
   key : Keys, reason : Reasons]

\* A row of turn_state.  "life" counts the seeds and is not a column: it tells
\* the rows a conversation had before it was seeded again from later ones.
TurnRows ==
  [conv : Conversations, owner : Agents, state : {"ACTIVE", "HANDED_OFF"},
   epoch : 0..MaxEpoch, previous : Agents \cup {NoAgent}, life : 1..MaxSeeds]
AuditRows ==
  [conv : Conversations, from : Agents, to : Agents, epoch : 1..MaxEpoch,
   key : Keys, life : 1..MaxSeeds]
Refusals == {"unknown", "conflict", "unauthorized", "stale"}

\* What makes two requests with one key the same request.
RequestFingerprint(q) == <<q.agent, q.to, q.epoch, q.reason>>
----------------------------------------------------------------------------
TurnInit ==
  /\ turnState = [c \in Conversations |-> NoTurn]
  /\ turnAudit = {} /\ turnOutbox = {} /\ turnIdempotency = {}
  /\ turnCalls = [p \in Callers |-> [at |-> "idle"]]
  /\ turnSeeds = [c \in Conversations |-> 0]

\* Mutant: a second seed() changes the owner and keeps the epoch.
SeedKeepsEpoch(c, a) ==
  /\ turnSeeds[c] < MaxSeeds
  /\ turnSeeds' = [turnSeeds EXCEPT ![c] = @ + 1]
  /\ turnState' = [turnState EXCEPT ![c] =
       [conv |-> c, owner |-> a, state |-> "ACTIVE",
        epoch |-> IF turnState[c] = NoTurn THEN 0 ELSE turnState[c].epoch,
        previous |-> NoAgent, life |-> turnSeeds[c] + 1]]
  /\ UNCHANGED <<turnAudit, turnOutbox, turnIdempotency, turnCalls>>

\* seed(): inserts the row, or resets the one there is; the other tables stay.
SeedTurn(c, a) ==
  /\ turnSeeds[c] < MaxSeeds
  /\ turnSeeds' = [turnSeeds EXCEPT ![c] = @ + 1]
  /\ turnState' = [turnState EXCEPT ![c] =
       [conv |-> c, owner |-> a, state |-> "ACTIVE", epoch |-> 0,
        previous |-> NoAgent, life |-> turnSeeds[c] + 1]]
  /\ UNCHANGED <<turnAudit, turnOutbox, turnIdempotency, turnCalls>>

\* A caller makes up a request, from whatever it last read.
AskHandoff(p, q) ==
  /\ turnCalls[p].at = "idle"
  /\ turnCalls' = [turnCalls EXCEPT ![p] = [at |-> "asked", request |-> q]]
  /\ UNCHANGED <<turnState, turnAudit, turnOutbox, turnIdempotency, turnSeeds>>

\* Mutant: keys are looked up only in the life they were used in.
StoredUnderThisLife(q) ==
  {i \in turnIdempotency : i.conv = q.conv /\ i.key = q.key
                           /\ i.result.life = turnSeeds[q.conv]}

StoredUnder(q) ==
  {i \in turnIdempotency : i.conv = q.conv /\ i.key = q.key}

Answered(p, answer, row) ==
  turnCalls' = [turnCalls EXCEPT ![p] =
    [at |-> "answered", request |-> turnCalls[p].request,
     answer |-> answer, row |-> row]]

\* The answers of handoff() that change nothing, in the order of its checks:
\* the row, the idempotency key, the owner, the epoch.
HandoffRefusal(q) ==
  LET current == turnState[q.conv] IN
  CASE current = NoTurn -> "unknown"
    [] current # NoTurn /\ StoredUnder(q) # {} -> "conflict"
    [] current # NoTurn /\ StoredUnder(q) = {} /\ current.owner # q.agent ->
         "unauthorized"
    [] OTHER -> "stale"

\* An exact replay of a stored request is given the stored result.
ReplaysStored(q) ==
  /\ turnState[q.conv] # NoTurn
  /\ \E i \in StoredUnder(q) : i.fingerprint = RequestFingerprint(q)

MayHandOff(q) ==
  /\ turnState[q.conv] # NoTurn
  /\ StoredUnder(q) = {}
  /\ turnState[q.conv].owner = q.agent
  /\ turnState[q.conv].epoch = q.epoch

ReplayHandoff(p) ==
  /\ turnCalls[p].at = "asked"
  /\ ReplaysStored(turnCalls[p].request)
  /\ \E i \in StoredUnder(turnCalls[p].request) : 
       Answered(p, "done", i.result)
  /\ UNCHANGED <<turnState, turnAudit, turnOutbox, turnIdempotency, turnSeeds>>

RefuseHandoff(p) ==
  /\ turnCalls[p].at = "asked"
  /\ ~ReplaysStored(turnCalls[p].request)
  /\ ~MayHandOff(turnCalls[p].request)
  /\ Answered(p, HandoffRefusal(turnCalls[p].request), NoTurn)
  /\ UNCHANGED <<turnState, turnAudit, turnOutbox, turnIdempotency, turnSeeds>>

\* The row handoff() writes, and returns.
HandedOff(q) ==
  LET current == turnState[q.conv] IN
  [current EXCEPT !.previous = current.owner, !.owner = q.to,
                  !.state = "HANDED_OFF", !.epoch = current.epoch + 1]

ApplyHandoff(p) ==
  /\ turnCalls[p].at = "asked"
  /\ LET q == turnCalls[p].request
         row == HandedOff(q) IN
     /\ MayHandOff(q)
     /\ turnState[q.conv].epoch < MaxEpoch
     /\ turnState' = [turnState EXCEPT ![q.conv] = row]
     /\ turnAudit' = turnAudit \cup
          {[conv |-> q.conv, from |-> row.previous, to |-> q.to,
            epoch |-> row.epoch, key |-> q.key, life |-> row.life]}
     /\ turnOutbox' = turnOutbox \cup {row}
     /\ turnIdempotency' = turnIdempotency \cup
          {[conv |-> q.conv, key |-> q.key,
            fingerprint |-> RequestFingerprint(q), result |-> row]}
     /\ Answered(p, "done", row)
  /\ UNCHANGED turnSeeds

\* The answer does not arrive, and the caller sends the same request again.
RetryHandoff(p) ==
  /\ turnCalls[p].at = "answered"
  /\ turnCalls' = [turnCalls EXCEPT ![p] =
       [at |-> "asked", request |-> turnCalls[p].request]]
  /\ UNCHANGED <<turnState, turnAudit, turnOutbox, turnIdempotency, turnSeeds>>

AcceptAnswer(p) ==
  /\ turnCalls[p].at = "answered"
  /\ turnCalls' = [turnCalls EXCEPT ![p] = [at |-> "idle"]]
  /\ UNCHANGED <<turnState, turnAudit, turnOutbox, turnIdempotency, turnSeeds>>

TurnNext ==
  \/ \E c \in Conversations, a \in Agents : SeedTurn(c, a)
  \/ \E p \in Callers :
       \/ \E q \in HandoffRequests : AskHandoff(p, q)
       \/ ReplayHandoff(p) \/ RefuseHandoff(p) \/ ApplyHandoff(p)
       \/ RetryHandoff(p) \/ AcceptAnswer(p)

TurnSpec == TurnInit /\ [][TurnNext]_turnVars
----------------------------------------------------------------------------
\* Each table holds rows of its schema, and no caller is in an impossible place.
TurnTypeOK ==
  /\ turnState \in [Conversations -> TurnRows \cup {NoTurn}]
  /\ turnAudit \subseteq AuditRows
  /\ turnOutbox \subseteq TurnRows
  /\ turnSeeds \in [Conversations -> 0..MaxSeeds]
  /\ \A p \in Callers :
       \/ turnCalls[p] = [at |-> "idle"]
       \/ turnCalls[p] \in [at : {"asked"}, request : HandoffRequests]
       \/ turnCalls[p] \in [at : {"answered"}, request : HandoffRequests,
                            answer : Refusals \cup {"done"},
                            row : TurnRows \cup {NoTurn}]

ThisLife(c) ==
  {r \in turnAudit : r.conv = c /\ r.life = turnSeeds[c]}

\* The audit rows of a conversation since its last seed are a chain: one row
\* per epoch up to the current one, each handing on what the one before it
\* received, the last one naming the current owner.  Holds whatever mixture
\* of retries, stale requests and reused keys the callers send.
TurnsFormAChain ==
  \A c \in Conversations : turnState[c] # NoTurn =>
    /\ {r.epoch : r \in ThisLife(c)} = 1..turnState[c].epoch
    /\ \A r, s \in ThisLife(c) :
         /\ r.epoch = s.epoch => r = s
         /\ s.epoch = r.epoch + 1 => s.from = r.to
    /\ \A r \in ThisLife(c) : r.epoch = turnState[c].epoch =>
         r.to = turnState[c].owner /\ r.from = turnState[c].previous

\* However often a request is sent, a key takes effect once: every key has one
\* audit row and one published outbox row, and they say the same.
OneEffectPerKey ==
  /\ \A r, s \in turnAudit : r.conv = s.conv /\ r.key = s.key => r = s
  /\ \A i \in turnIdempotency :
       /\ i.result \in turnOutbox
       /\ \E r \in turnAudit : r.conv = i.conv /\ r.key = i.key
                            /\ r.epoch = i.result.epoch
  /\ Cardinality(turnAudit) = Cardinality(turnIdempotency)

\* A caller that was told its handoff is done asked for a handoff that really
\* happened, from the owner and epoch it named: never for somebody else's.
AnswersAreTrue ==
  \A p \in Callers :
    turnCalls[p].at = "answered" /\ turnCalls[p].answer = "done" =>
      LET q == turnCalls[p].request IN
      \E r \in turnAudit :
        /\ r.conv = q.conv /\ r.key = q.key
        /\ r.from = q.agent /\ r.to = q.to /\ r.epoch = q.epoch + 1

\* Turns are accounted for: whoever loses an answer, reuses a key or asks from a
\* stale status(), the conversation's epochs form one chain, handoff() takes effect
\* once and tells each caller the truth.
TurnsAreAccounted ==
  TurnTypeOK /\ TurnsFormAChain /\ OneEffectPerKey /\ AnswersAreTrue
=============================================================================

------------------------- MODULE OperationsControl -------------------------
(***************************************************************************)
(* The typed action telephony_console_reload of the Operations API         *)
(* (server/edge1_operations_api.py, edge1_operations_typed_actions.py) and *)
(* the root broker that restarts the service for it                        *)
(* (server/edge1_operator_privileged_broker.py).                           *)
(*                                                                         *)
(* The API is a threaded server with a table of idempotency keys; the      *)
(* broker serves one connection at a time.  A thread that has waited too   *)
(* long hangs up, but its request stays in the broker's backlog, and an    *)
(* answer to a caller that has hung up ends the broker.                    *)
(***************************************************************************)
EXTENDS Naturals, Sequences

CONSTANTS
  OpThreads, OpKeys,
  MaxInst, MaxOpRequests   \* bounds: processes of the console, broker requests

ASSUME OpBounds == MaxInst \in Nat /\ MaxOpRequests \in Nat

VARIABLES
  opInst,      \* the console's process, numbered
  opUp,        \* the console is active
  opSource,    \* its source is the one that requests and the approval marker name
  opRow,       \* operation_idempotency: key -> request and response
  opThread,    \* what each API thread is doing
  opQueue,     \* the broker's backlog
  opBroker,    \* the connection being served
  opSent,      \* requests sent to the broker so far
  \* history
  opRuns,      \* key -> executions started
  opRestarts   \* restarts by the broker: <<key, expected process, recovery>>

opVars == <<opInst, opUp, opSource, opRow, opThread, opQueue, opBroker, opSent,
            opRuns, opRestarts>>
opHost == <<opInst, opUp, opSource>>
opLog == <<opRuns, opRestarts>>

NoRow == [pid |-> 0, response |-> "none"]
OpIdle == [at |-> "idle"]
BrokerIdle == [at |-> "accept"]
OpGo(t, step) == opThread' = [opThread EXCEPT ![t].at = step]
Awaits(n) == \E t \in OpThreads : opThread[t].at \in {"await", "recover"} /\ opThread[t].n = n
----------------------------------------------------------------------------
OpInit ==
  /\ opInst = 1 /\ opUp = TRUE /\ opSource = TRUE
  /\ opRow = [k \in OpKeys |-> NoRow]
  /\ opThread = [t \in OpThreads |-> OpIdle]
  /\ opQueue = <<>> /\ opBroker = BrokerIdle /\ opSent = 0
  /\ opRuns = [k \in OpKeys |-> 0] /\ opRestarts = <<>>

\* do_POST() up to the claim; the caller expects a process that it inspected.
BeginTyped(t, k, pid) ==
  /\ opThread[t] = OpIdle /\ pid <= opInst
  /\ opThread' = [opThread EXCEPT ![t] = [at |-> "claim", k |-> k, pid |-> pid, n |-> 0]]
  /\ UNCHANGED <<opHost, opRow, opQueue, opBroker, opSent, opLog>>

\* _idempotency_claim(): only an unused key starts an execution.  A completed
\* request is replayed; another body and an incomplete one are refused.
MayClaim(k) == opRow[k] = NoRow

ClaimKey(t) ==
  LET k == opThread[t].k IN
  /\ opThread[t].at = "claim"
  /\ IF MayClaim(k)
     THEN /\ opRow' = [opRow EXCEPT ![k] = [pid |-> opThread[t].pid, response |-> ""]]
          /\ opRuns' = [opRuns EXCEPT ![k] = @ + 1]
          /\ OpGo(t, "check")
     ELSE /\ opThread' = [opThread EXCEPT ![t] = OpIdle]
          /\ UNCHANGED <<opRow, opRuns>>
  /\ UNCHANGED <<opHost, opQueue, opBroker, opSent, opRestarts>>

\* The preconditions of telephony_console_reload() and of _execute_reload().
AsExpected(pid) == opUp /\ opInst = pid /\ opSource

\* Mutant: the broker relies on the API for the process.
BrokerAcceptsAny(pid) == opUp /\ opSource

BrokerAccepts(pid) == AsExpected(pid)

CheckPreconditions(t) ==
  /\ opThread[t].at = "check"
  /\ OpGo(t, IF AsExpected(opThread[t].pid) THEN "submit" ELSE "fail")
  /\ UNCHANGED <<opHost, opRow, opQueue, opBroker, opSent, opLog>>

Send(t, pid, recovery, then) ==
  /\ opSent < MaxOpRequests /\ opSent' = opSent + 1
  /\ opQueue' = Append(opQueue, [n |-> opSent + 1, k |-> opThread[t].k, pid |-> pid,
                                 recovery |-> recovery])
  /\ opThread' = [opThread EXCEPT ![t].at = then, ![t].n = opSent + 1]

\* _broker_reload(); nobody listens while the broker is down.
SubmitReload(t) ==
  /\ opThread[t].at = "submit"
  /\ IF opBroker.at = "down"
     THEN OpGo(t, "fail") /\ UNCHANGED <<opQueue, opSent>>
     ELSE Send(t, opThread[t].pid, FALSE, "await")
  /\ UNCHANGED <<opHost, opRow, opBroker, opLog>>

\* The socket's timeout, or a broker that went away.
HangUp(t) ==
  /\ opThread[t].at \in {"await", "recover"}
  /\ OpGo(t, "fail")
  /\ UNCHANGED <<opHost, opRow, opQueue, opBroker, opSent, opLog>>

\* accept(), _receive_request() and the preconditions, checked once more.
BrokerTakes ==
  /\ opBroker.at = "accept" /\ opQueue # <<>>
  /\ opBroker' = [at |-> IF BrokerAccepts(Head(opQueue).pid) THEN "restart" ELSE "answer",
                  q |-> Head(opQueue), before |-> opInst, ok |-> FALSE, after |-> 0]
  /\ opQueue' = Tail(opQueue)
  /\ UNCHANGED <<opHost, opRow, opThread, opSent, opLog>>

RestartFailed == "answer"

\* systemctl restart: a failure leaves the console down.
BrokerRestarts ==
  /\ opBroker.at = "restart"
  /\ \/ /\ opInst < MaxInst /\ opInst' = opInst + 1 /\ opUp' = TRUE
        /\ opRestarts' = Append(opRestarts,
             [k |-> opBroker.q.k, pid |-> opBroker.q.pid, recovery |-> opBroker.q.recovery])
        /\ opBroker' = [opBroker EXCEPT !.at = "observe"]
     \/ /\ opUp' = FALSE /\ opBroker' = [opBroker EXCEPT !.at = RestartFailed]
        /\ UNCHANGED <<opInst, opRestarts>>
  /\ UNCHANGED <<opSource, opRow, opThread, opQueue, opSent, opRuns>>

\* The checks after the restart; the dependencies' processes may have changed.
BrokerObserves ==
  /\ opBroker.at = "observe"
  /\ \E dependencies \in BOOLEAN :
       opBroker' = [opBroker EXCEPT !.at = "answer", !.after = opInst,
                      !.ok = dependencies /\ opUp /\ opInst # opBroker.before]
  /\ UNCHANGED <<opHost, opRow, opThread, opQueue, opSent, opLog>>

\* _send(): the second failure in a row, for a caller that hung up, is not
\* handled, and the broker exits with its backlog.
BrokerAnswers ==
  /\ opBroker.at = "answer"
  /\ IF Awaits(opBroker.q.n)
     THEN /\ opBroker' = BrokerIdle /\ UNCHANGED opQueue
          /\ \E t \in OpThreads :
               /\ opThread[t].at \in {"await", "recover"} /\ opThread[t].n = opBroker.q.n
               /\ opThread' = [opThread EXCEPT ![t] =
                    IF opThread[t].at = "await" /\ opBroker.ok
                    THEN [at |-> "verify", k |-> @.k, pid |-> @.pid, n |-> @.n,
                          after |-> opBroker.after]
                    ELSE [@ EXCEPT !.at = "fail"]]
     ELSE /\ opBroker' = [at |-> "down"] /\ opQueue' = <<>>
          /\ UNCHANGED opThread
  /\ UNCHANGED <<opHost, opRow, opSent, opLog>>

BrokerDies ==
  /\ opBroker.at # "down" /\ opBroker' = [at |-> "down"] /\ opQueue' = <<>>
  /\ UNCHANGED <<opHost, opRow, opThread, opSent, opLog>>

BrokerStarts ==
  /\ opBroker.at = "down" /\ opBroker' = BrokerIdle
  /\ UNCHANGED <<opHost, opRow, opThread, opQueue, opSent, opLog>>

\* The checks of the API after the reload.  If they fail, one recovery restart of
\* the process that is there now; its result is not looked at.
VerifyReload(t) ==
  LET w == opThread[t] IN
  /\ w.at = "verify"
  /\ \/ /\ opUp /\ opInst # w.pid /\ opInst = w.after
        /\ OpGo(t, "done") /\ UNCHANGED <<opQueue, opSent>>
     \/ IF opBroker.at = "down"
        THEN OpGo(t, "fail") /\ UNCHANGED <<opQueue, opSent>>
        ELSE Send(t, opInst, TRUE, "recover")
  /\ UNCHANGED <<opHost, opRow, opBroker, opLog>>

\* A failed audit write, or a time limit that was exceeded.
TooLate(t) ==
  /\ opThread[t].at = "done"
  /\ OpGo(t, "fail")
  /\ UNCHANGED <<opHost, opRow, opQueue, opBroker, opSent, opLog>>

\* _idempotency_complete() and the answer.
CompleteKey(t) ==
  /\ opThread[t].at \in {"done", "fail"}
  /\ opRow' = [opRow EXCEPT ![opThread[t].k].response =
                 IF opThread[t].at = "done" THEN "succeeded" ELSE "failed"]
  /\ opThread' = [opThread EXCEPT ![t] = OpIdle]
  /\ UNCHANGED <<opHost, opQueue, opBroker, opSent, opLog>>

\* The API dies: incomplete claims stay.
ApiDies ==
  /\ \E t \in OpThreads : opThread[t] # OpIdle
  /\ opThread' = [t \in OpThreads |-> OpIdle]
  /\ UNCHANGED <<opHost, opRow, opQueue, opBroker, opSent, opLog>>

\* The console is restarted by somebody else; its source is deployed, approved.
ConsoleRotates ==
  /\ opInst < MaxInst /\ opInst' = opInst + 1 /\ opUp' = TRUE
  /\ UNCHANGED <<opSource, opRow, opThread, opQueue, opBroker, opSent, opLog>>

SourceChanges ==
  /\ opSource' = ~opSource
  /\ UNCHANGED <<opInst, opUp, opRow, opThread, opQueue, opBroker, opSent, opLog>>

OpNext ==
  \/ \E t \in OpThreads :
       \/ \E k \in OpKeys, pid \in 1..MaxInst : BeginTyped(t, k, pid)
       \/ ClaimKey(t) \/ CheckPreconditions(t) \/ SubmitReload(t) \/ HangUp(t)
       \/ VerifyReload(t) \/ TooLate(t) \/ CompleteKey(t)
  \/ BrokerTakes \/ BrokerRestarts \/ BrokerObserves \/ BrokerAnswers
  \/ BrokerDies \/ BrokerStarts \/ ApiDies \/ ConsoleRotates \/ SourceChanges

OpSpec == OpInit /\ [][OpNext]_opVars
----------------------------------------------------------------------------
RestartsOf(k, recovery) ==
  {i \in DOMAIN opRestarts : opRestarts[i].k = k /\ opRestarts[i].recovery = recovery}

\* "no second execution occurs merely because a caller retries after losing a
\* response": a key is executed once, however often it is sent, also after the
\* API died with the claim incomplete.
OneRunPerKey == \A k \in OpKeys : opRuns[k] <= 1

\* A process that callers inspected is replaced for at most one of them: whatever
\* threads, late answers and backlogged requests do, two reloads that expect the
\* same process do not both restart the console.
OneReloadPerProcess ==
  \A i, j \in DOMAIN opRestarts :
    i # j /\ opRestarts[i].pid = opRestarts[j].pid =>
      opRestarts[i].recovery \/ opRestarts[j].recovery

\* A stored "succeeded" is true: the broker restarted the console for that key.
SucceededIsTrue ==
  \A k \in OpKeys : opRow[k].response = "succeeded" => RestartsOf(k, FALSE) # {}

\* Retried keys, callers that hang up, a backlog and deaths of either process:
\* a key is run once, a process is replaced once, and a success is one.
ReloadsAreExact == OneRunPerKey /\ OneReloadPerProcess /\ SucceededIsTrue
=============================================================================

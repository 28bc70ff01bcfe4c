------------------------ MODULE OutboundQueueProofs ------------------------
(***************************************************************************)
(* Proofs about OutboundQueue, and OutboundStops on top of it, for every   *)
(* set of jobs and workers, every configuration of the gates and every     *)
(* limit.                                                                  *)
(***************************************************************************)
EXTENDS OutboundStops, FiniteSetTheorems, TLAPS

\* Every adapter reports a message it may have handed over as accepted or as
\* unknown, never as retryable or rejected.
LEMMA SendIsHonest ==
    ASSUME NEW j \in Jobs, NEW taken \in BOOLEAN, NEW report \in Outcomes,
           SendMayEnd(Adapter[j], taken, report)
    PROVE  /\ report = "accepted" => taken
           /\ report \notin {"accepted", "unknown"} => ~taken
BY DEF SendMayEnd, Outcomes, Replies, MayBeTaken, Report, SafeRetryReplies

-----------------------------------------------------------------------------
\* The rate limiter's own state keeps its type under its own actions.
LEMMA LimiterType ==
    ASSUME Limiter!TypeOK, NEW w \in Workers, NEW j \in Jobs
    PROVE  /\ Limiter!Begin(w, j) => Limiter!TypeOK'
           /\ Limiter!Commit(w) => Limiter!TypeOK'
           /\ Limiter!Abort(w) => Limiter!TypeOK'
           /\ Limiter!Tick => Limiter!TypeOK'
           /\ UNCHANGED limiterVars => Limiter!TypeOK'
<1> USE DEF Limiter!TypeOK, Limiter!Transaction
<1>1. Limiter!Begin(w, j) => Limiter!TypeOK'
  BY DEF Limiter!Begin
<1>2. Limiter!Commit(w) => Limiter!TypeOK'
  <2> SUFFICES ASSUME Limiter!Commit(w) PROVE Limiter!TypeOK'
    OBVIOUS
  <2>1. tx[w] \in Limiter!Transaction
    BY DEF Limiter!Commit
  <2>2. Limiter!Row(tx[w]) \in Limiter!Reservation
    BY <2>1, LimiterAssumption DEF Limiter!Row, Limiter!Reservation
  <2> QED BY <2>2 DEF Limiter!Commit
<1>3. Limiter!Abort(w) => Limiter!TypeOK'
  BY DEF Limiter!Abort
<1>4. Limiter!Tick => Limiter!TypeOK'
  BY QueueAssumption DEF Limiter!Tick, Limiter!Instants
<1>5. UNCHANGED limiterVars => Limiter!TypeOK'
  BY DEF limiterVars
<1> QED BY <1>1, <1>2, <1>3, <1>4, <1>5

LEMMA InitType == Init => TypeOK
<1> SUFFICES ASSUME Init PROVE TypeOK
  OBVIOUS
<1>1. Limiter!TypeOK
  BY QueueAssumption DEF Init, Limiter!Init, Limiter!TypeOK, Limiter!Instants
<1>2. RowsOK
  BY QueueAssumption DEF Init, RowsOK, JobRow, JobStates, MessageRow, Instants
<1>3. ControlOK /\ CarrierOK
  <2>1. <<>> \in Seq(Instants)
    OBVIOUS
  <2> QED BY <2>1 DEF Init, ControlOK, CarrierOK
<1>4. WorkersOK
  BY QueueAssumption DEF Init, Limiter!Init, WorkersOK, WorkerState, Steps, Idle
<1> QED BY <1>1, <1>2, <1>3, <1>4 DEF TypeOK

\* A worker that moves on, holding a job, keeps its shape.
LEMMA MoveType ==
    ASSUME WorkersOK, NEW w \in Workers,
           NEW pc \in Steps \ {"exit", "claim"}, NEW j \in Jobs,
           NEW note \in {"none"} \cup BlockStates \cup Outcomes, Move(w, pc, j, note),
           pc = "block" => note \in BlockStates,
           pc = "record" => note \in Outcomes,
           \A v \in Workers \ {w} : tx'[v] = tx[v],
           tx'[w] # NoTx <=> pc = "reserving"
    PROVE  WorkersOK'
<1> DEFINE new == [pc |-> pc, job |-> j, note |-> note]
<1>1. new \in WorkerState /\ j # NoJob
  BY QueueAssumption DEF WorkerState
<1>2. worker' = [worker EXCEPT ![w] = new]
  BY DEF Move
<1>3. worker' \in [Workers -> WorkerState]
  BY <1>1, <1>2 DEF WorkersOK
<1>4. ASSUME NEW v \in Workers PROVE worker'[v] = (IF v = w THEN new ELSE worker[v])
  BY <1>2 DEF WorkersOK
<1>5. new.pc = pc /\ new.job = j /\ new.note = note
  OBVIOUS
<1> HIDE DEF new
<1>6. ASSUME NEW v \in Workers
      PROVE  /\ worker'[v].job = NoJob <=> worker'[v].pc \in {"exit", "claim"}
             /\ worker'[v].pc = "block" => worker'[v].note \in BlockStates
             /\ worker'[v].pc = "record" => worker'[v].note \in Outcomes
             /\ tx'[v] # NoTx <=> worker'[v].pc = "reserving"
  <2>1. CASE v = w
    BY <1>1, <1>4, <1>5, <2>1
  <2>2. CASE v # w
    BY <1>4, <2>2 DEF WorkersOK
  <2> QED BY <2>1, <2>2
<1> QED BY <1>3, <1>6 DEF WorkersOK

\* A worker that returns or dies, its transaction closed, keeps its shape.
LEMMA ExitType ==
    ASSUME WorkersOK, NEW w \in Workers, tx \in [Workers -> Limiter!Transaction \cup {NoTx}],
           Exit(w), tx' = [tx EXCEPT ![w] = NoTx]
    PROVE  WorkersOK'
BY QueueAssumption DEF WorkersOK, WorkerState, Steps, Exit, Idle

\* The UPDATE that ends a claim writes well-typed rows.
LEMMA FinishType ==
    ASSUME TypeOK, NEW w \in Workers, worker[w].job \in Jobs, tx[w] = NoTx,
           NEW row \in JobRow, NEW status \in JobStates \cup {"none", "queued"},
           NEW id \in Jobs \cup {NoJob}, Finish(w, row, status, id)
    PROVE  TypeOK'
<1> USE DEF TypeOK
<1>1. Limiter!TypeOK'
  BY LimiterType, QueueAssumption DEF Finish, limiterVars
<1>2. RowsOK'
  BY DEF Finish, RowsOK, rowVars, MessageRow
<1>3. ControlOK' /\ CarrierOK'
  BY DEF Finish, ControlOK, CarrierOK, controlVars, carrierVars
<1>4. WorkersOK'
  <2>1. tx' = [tx EXCEPT ![w] = NoTx]
    BY DEF Finish, limiterVars, Limiter!TypeOK
  <2> QED BY <2>1, ExitType DEF Finish, Limiter!TypeOK
<1> QED BY <1>1, <1>2, <1>3, <1>4

LEMMA NextType == TypeOK /\ [Next]_vars => TypeOK'
<1> SUFFICES ASSUME TypeOK, [Next]_vars PROVE TypeOK'
  OBVIOUS
<1> USE DEF TypeOK
<1>a. ASSUME NEW w \in Workers, worker[w].pc \notin {"exit", "claim"}
      PROVE  worker[w].job \in Jobs
  BY <1>a DEF WorkersOK, WorkerState
<1>b. ASSUME UNCHANGED limiterVars PROVE Limiter!TypeOK'
  BY <1>b DEF limiterVars, Limiter!TypeOK
<1>c. ASSUME NEW w \in Workers, UNCHANGED limiterVars, worker[w].pc # "reserving"
      PROVE  tx' = [tx EXCEPT ![w] = NoTx] /\ tx[w] = NoTx
  BY <1>c DEF limiterVars, Limiter!TypeOK, WorkersOK
<1>d. UNCHANGED rowVars => RowsOK'
  BY DEF rowVars, RowsOK
<1>e. UNCHANGED controlVars => ControlOK'
  BY DEF controlVars, ControlOK
<1>f. UNCHANGED carrierVars => CarrierOK'
  BY DEF carrierVars, CarrierOK
<1>g. UNCHANGED <<worker, tx>> => WorkersOK'
  BY DEF WorkersOK
<1>1. CASE Tick
  BY <1>1, <1>d, <1>e, <1>f, <1>g, QueueAssumption
     DEF Tick, Limiter!TypeOK, Limiter!Tick, Limiter!Instants
<1>2. CASE SetPaused
  BY <1>2, <1>b, <1>d, <1>f, <1>g DEF SetPaused, ControlOK, limiterVars
<1>3. ASSUME NEW j \in Jobs, Enqueue(j) PROVE TypeOK'
  <2>1. RowsOK'
    BY <1>3 DEF Enqueue, RowsOK, JobRow, JobStates, MessageRow, Limiter!TypeOK,
                Limiter!Instants, Instants
  <2> QED BY <1>3, <2>1, <1>b, <1>e, <1>f, <1>g DEF Enqueue, limiterVars
<1>4. ASSUME NEW a \in Recipients, SetSuppressed(a) PROVE TypeOK'
  BY <1>4, <1>b, <1>d, <1>f, <1>g DEF SetSuppressed, ControlOK, limiterVars
<1>19. ASSUME NEW j \in Jobs, DeliveryUpdate(j) PROVE TypeOK'
  <2>1. RowsOK'
    BY <1>19 DEF DeliveryUpdate, RowsOK, MessageRow
  <2> QED BY <1>19, <2>1, <1>b, <1>e, <1>f, <1>g DEF DeliveryUpdate, limiterVars
<1>5. ASSUME NEW w \in Workers, Start(w) PROVE TypeOK'
  <2>1. WorkersOK'
    BY <1>5 DEF Start, Goto, Move, WorkersOK, WorkerState, Steps, limiterVars
  <2> QED BY <1>5, <2>1, <1>b, <1>d, <1>e, <1>f DEF Start
<1>6. ASSUME NEW w \in Workers, ClaimLock(w) PROVE TypeOK'
  <2>1. tx' = [tx EXCEPT ![w] = NoTx]
    BY <1>6, <1>c DEF ClaimLock
  <2>2. ASSUME Exit(w) PROVE WorkersOK'
    BY <2>1, <2>2, ExitType DEF Limiter!TypeOK
  <2>3. ASSUME NEW j \in Ready, Move(w, "claiming", j, "none") PROVE WorkersOK'
    <3>1. j \in Jobs
      BY <2>3 DEF Ready
    <3> QED BY <2>1, <2>3, <3>1, MoveType DEF Steps, Limiter!TypeOK
  <2>4. WorkersOK'
    BY <1>6, <2>2, <2>3 DEF ClaimLock
  <2> QED BY <1>6, <2>4, <1>b, <1>d, <1>e, <1>f DEF ClaimLock
<1>7. ASSUME NEW w \in Workers, ClaimCommit(w) PROVE TypeOK'
  <2>1. worker[w].job \in Jobs
    BY <1>7, <1>a DEF ClaimCommit
  <2>2. RowsOK'
    BY <1>7, <2>1 DEF ClaimCommit, RowsOK, JobRow, JobStates
  <2>3. WorkersOK'
    BY <1>7, <2>1, <1>c, MoveType DEF Goto, ClaimCommit, Steps, Limiter!TypeOK
  <2> QED BY <1>7, <2>2, <2>3, <1>b, <1>e, <1>f DEF ClaimCommit
<1>8. ASSUME NEW w \in Workers, Gates(w) PROVE TypeOK'
  <2>1. worker[w].job \in Jobs
    BY <1>8, <1>a DEF Gates
  <2>2. WorkersOK'
    BY <1>8, <2>1, <1>c, MoveType DEF Goto, Gates, GateVerdict, Steps, BlockStates, Limiter!TypeOK
  <2> QED BY <1>8, <2>2, <1>b, <1>d, <1>e, <1>f DEF Gates
<1>9. ASSUME NEW w \in Workers, ReserveBegin(w) PROVE TypeOK'
  <2>1. worker[w].job \in Jobs
    BY <1>9, <1>a DEF ReserveBegin
  <2>2. Limiter!TypeOK'
    BY <1>9, <2>1, LimiterType DEF ReserveBegin
  <2> DEFINE x == [job |-> worker[w].job, at |-> clock]
  <2>3. x \in Limiter!Transaction
    BY <2>1 DEF Limiter!TypeOK, Limiter!Transaction
  <2>4. x # NoTx /\ tx' = [tx EXCEPT ![w] = x]
    BY <1>9, <2>3, LimiterAssumption DEF ReserveBegin, Limiter!Begin
  <2> HIDE DEF x
  <2>5. WorkersOK'
    BY <1>9, <2>1, <2>4, MoveType DEF Goto, ReserveBegin, Steps, Limiter!TypeOK
  <2> QED BY <1>9, <2>2, <2>5, <1>d, <1>e, <1>f DEF ReserveBegin
<1>10. ASSUME NEW w \in Workers, ReserveCommit(w) PROVE TypeOK'
  <2>1. worker[w].job \in Jobs
    BY <1>10, <1>a DEF ReserveCommit
  <2>2. Limiter!TypeOK'
    BY <1>10, <2>1, LimiterType DEF ReserveCommit
  <2>3. tx' = [tx EXCEPT ![w] = NoTx]
    BY <1>10 DEF ReserveCommit, Limiter!Commit
  <2>4. WorkersOK'
    <3>1. CASE Goto(w, "send", "none")
      BY <2>1, <2>3, <3>1, MoveType DEF Goto, Steps, Limiter!TypeOK
    <3>2. CASE Goto(w, "block", "rate_limited")
      BY <2>1, <2>3, <3>2, MoveType DEF Goto, Steps, BlockStates, Limiter!TypeOK
    <3> QED BY <1>10, <3>1, <3>2 DEF ReserveCommit
  <2> QED BY <1>10, <2>2, <2>4, <1>d, <1>e, <1>f DEF ReserveCommit
<1>11. ASSUME NEW w \in Workers, Send(w) PROVE TypeOK'
  <2>1. worker[w].job \in Jobs
    BY <1>11, <1>a DEF Send
  <2>2. CarrierOK'
    <3>1. clock \in Instants
      BY DEF Limiter!TypeOK, Limiter!Instants, Instants
    <3>2. Append(submissions[worker[w].job], clock) \in Seq(Instants)
      BY <2>1, <3>1 DEF CarrierOK
    <3> QED BY <1>11, <2>1, <3>2 DEF Send, CarrierOK
  <2>3. WorkersOK'
    <3>1. PICK report \in Outcomes : Goto(w, "record", report)
      BY <1>11 DEF Send
    <3>2. tx' = [tx EXCEPT ![w] = NoTx]
      BY <1>11, <1>c DEF Send
    <3> QED BY <2>1, <3>1, <3>2, MoveType DEF Goto, Steps, Limiter!TypeOK
  <2> QED BY <1>11, <2>2, <2>3, <1>b, <1>d, <1>e DEF Send
<1>12. ASSUME NEW w \in Workers, Block(w) PROVE TypeOK'
  <2>1. worker[w].job \in Jobs /\ worker[w].note \in BlockStates /\ tx[w] = NoTx
    BY <1>12, <1>a DEF Block, WorkersOK
  <2> QED BY <1>12, <2>1, FinishType DEF Block, RowsOK, JobRow, JobStates, MessageRow
<1>13. ASSUME NEW w \in Workers, Retry(w) PROVE TypeOK'
  <2>1. worker[w].job \in Jobs /\ tx[w] = NoTx
    BY <1>13, <1>a DEF Retry, WorkersOK
  <2>2. Later(clock) \in Instants
    BY QueueAssumption DEF Later, Instants, Limiter!TypeOK, Limiter!Instants
  <2> QED BY <1>13, <2>1, <2>2, FinishType DEF Retry, RowsOK, JobRow, JobStates, MessageRow
<1>14. ASSUME NEW w \in Workers, Rejected(w) PROVE TypeOK'
  <2>1. worker[w].job \in Jobs /\ tx[w] = NoTx
    BY <1>14, <1>a DEF Rejected, WorkersOK
  <2> QED BY <1>14, <2>1, FinishType
          DEF Rejected, RowsOK, JobRow, JobStates, BlockStates, MessageRow
<1>15. ASSUME NEW w \in Workers, Complete(w) PROVE TypeOK'
  <2>1. worker[w].job \in Jobs /\ tx[w] = NoTx
    BY <1>15, <1>a DEF Complete, WorkersOK
  <2> QED BY <1>15, <2>1, FinishType DEF Complete, RowsOK, JobRow, JobStates
<1>16. ASSUME NEW w \in Workers, ReconcileRequired(w) PROVE TypeOK'
  BY <1>16, <1>b, <1>c, <1>d, <1>e, <1>f, ExitType DEF ReconcileRequired, Limiter!TypeOK
<1>17. ASSUME NEW w \in Workers, Crash(w) PROVE TypeOK'
  <2>1. CASE tx[w] # NoTx
    BY <1>17, <2>1, <1>d, <1>e, <1>f, ExitType DEF Crash, Limiter!Abort, Limiter!TypeOK
  <2>2. CASE tx[w] = NoTx
    BY <1>17, <2>2, <1>b, <1>d, <1>e, <1>f, ExitType DEF Crash, limiterVars, Limiter!TypeOK
  <2> QED BY <2>1, <2>2
<1>18. CASE UNCHANGED vars
  BY <1>18, <1>b, <1>d, <1>e, <1>f, <1>g DEF vars, limiterVars
<1> QED
  BY <1>1, <1>2, <1>3, <1>4, <1>5, <1>6, <1>7, <1>8, <1>9, <1>10, <1>11, <1>12, <1>13,
     <1>14, <1>15, <1>16, <1>17, <1>18, <1>19 DEF Next, Environment, Step

-----------------------------------------------------------------------------
\* The inductive invariant.  AtMostOnce alone is not inductive: a step that
\* submits must know that the message was not taken before (the worker's part
\* of RowsAgreeWithCarrier), which survives other workers' steps only because
\* claims are exclusive.
Safe == ClaimExclusive /\ AtMostOnce /\ RowsAgreeWithCarrier
IInv == TypeOK /\ Safe

LEMMA InitSafe == Init => Safe
BY DEF Init, Safe, ClaimExclusive, AtMostOnce, RowsAgreeWithCarrier, Holding, Idle

\* Steps that touch neither the rows, the workers nor the carrier.
LEMMA FrameSafe ==
    ASSUME Safe, UNCHANGED <<job, worker, accepted>> PROVE Safe'
BY DEF Safe, ClaimExclusive, AtMostOnce, RowsAgreeWithCarrier, Holding

\* A worker that gives up its job, leaving the row as it is, disturbs nothing.
LEMMA ExitSafe ==
    ASSUME IInv, NEW w \in Workers, Exit(w), UNCHANGED <<job, accepted>>
    PROVE  Safe'
<1>1. \A v \in Workers : worker'[v] = IF v = w THEN Idle ELSE worker[v]
  BY DEF Exit, IInv, TypeOK, WorkersOK
<1>2. \A v \in Workers : Holding(v)' => Holding(v) /\ v # w
  BY <1>1 DEF Holding, Idle
<1>3. ClaimExclusive'
  BY <1>1, <1>2, QueueAssumption
     DEF IInv, Safe, ClaimExclusive, Idle, TypeOK, WorkersOK, WorkerState, Holding
<1>4. AtMostOnce' /\ RowsAgreeWithCarrier'
  BY <1>1, <1>2 DEF IInv, Safe, AtMostOnce, RowsAgreeWithCarrier
<1> QED BY <1>3, <1>4 DEF Safe

\* A worker that moves on with its 'processing' job, the row unchanged.
LEMMA GotoSafe ==
    ASSUME IInv, NEW w \in Workers, worker[w].pc \notin {"exit", "claim", "claiming", "record"},
           NEW pc \in {"reserve", "reserving", "send", "block"}, NEW note,
           Goto(w, pc, note), UNCHANGED <<job, accepted>>
    PROVE  Safe'
<1>1. \A v \in Workers : v # w => worker'[v] = worker[v]
  BY DEF Goto, Move, IInv, TypeOK, WorkersOK
<1>2. worker'[w].pc = pc /\ worker'[w].job = worker[w].job
  BY DEF Goto, Move, IInv, TypeOK, WorkersOK
<1>3. Holding(w)
  BY DEF Holding
<1>4. ClaimExclusive'
  BY <1>1, <1>2, <1>3 DEF IInv, Safe, ClaimExclusive, Holding
<1>5. AtMostOnce' /\ RowsAgreeWithCarrier'
  BY <1>1, <1>2, <1>3 DEF IInv, Safe, AtMostOnce, RowsAgreeWithCarrier, Holding
<1> QED BY <1>4, <1>5 DEF Safe

\* The UPDATE that ends a claim is truthful when the state it writes is.
LEMMA FinishSafe ==
    ASSUME IInv, NEW w \in Workers, worker[w].pc \in {"block", "record"},
           NEW row \in JobRow, NEW status, NEW id, Finish(w, row, status, id),
           row.state = "sent" => accepted[worker[w].job] = 1,
           row.state \notin {"processing", "sent"} => accepted[worker[w].job] = 0
    PROVE  Safe'
<1> DEFINE j == worker[w].job
<1>1. j \in Jobs /\ Holding(w) /\ job[j].state = "processing"
  BY DEF IInv, TypeOK, WorkersOK, WorkerState, Safe, ClaimExclusive, Holding
<1>2. \A i \in Jobs : job'[i] = IF i = j THEN row ELSE job[i]
  BY <1>1 DEF Finish, IInv, TypeOK, RowsOK
<1>3. \A v \in Workers : worker'[v] = IF v = w THEN Idle ELSE worker[v]
  BY DEF Finish, Exit, IInv, TypeOK, WorkersOK
<1>4. \A v \in Workers : Holding(v)' => Holding(v) /\ v # w
  BY <1>3 DEF Holding, Idle
<1>5. \A v \in Workers : v # w => worker[v].job # j
  BY <1>1 DEF IInv, Safe, ClaimExclusive
<1>6. \A v \in Workers : Holding(v) => worker[v].job \in Jobs
  BY DEF IInv, TypeOK, WorkersOK, WorkerState, Holding
<1>7. UNCHANGED accepted
  BY DEF Finish, carrierVars
<1> HIDE DEF j
<1>8. ClaimExclusive'
  BY <1>2, <1>3, <1>4, <1>5, <1>6, QueueAssumption DEF IInv, Safe, ClaimExclusive, Idle
<1>9. AtMostOnce' /\ RowsAgreeWithCarrier'
  <2>1. AtMostOnce'
    BY <1>7 DEF IInv, Safe, AtMostOnce
  <2>2. \A i \in Jobs : /\ job'[i].state = "sent" => accepted'[i] = 1
                        /\ job'[i].state \notin {"processing", "sent"} => accepted'[i] = 0
    BY <1>2, <1>7 DEF IInv, Safe, RowsAgreeWithCarrier, j
  <2> QED BY <2>1, <2>2, <1>3, <1>4, <1>7 DEF IInv, Safe, RowsAgreeWithCarrier
<1> QED BY <1>8, <1>9 DEF Safe

LEMMA NextSafe == IInv /\ [Next]_vars => Safe'
<1> SUFFICES ASSUME IInv, [Next]_vars PROVE Safe'
  OBVIOUS
<1> USE DEF IInv
<1>a. \A v \in Workers : Holding(v) => worker[v].job \in Jobs
  BY DEF TypeOK, WorkersOK, WorkerState, Holding
<1>1. CASE \/ Tick \/ SetPaused \/ (\E a \in Recipients : SetSuppressed(a)) \/ UNCHANGED vars
           \/ \E j \in Jobs : DeliveryUpdate(j)
  BY <1>1, FrameSafe DEF Tick, SetPaused, SetSuppressed, DeliveryUpdate, vars, rowVars, carrierVars
<1>2. ASSUME NEW j \in Jobs, Enqueue(j) PROVE Safe'
  <2>1. \A i \in Jobs : i # j => job'[i] = job[i]
    BY <1>2 DEF Enqueue, TypeOK, RowsOK
  <2>2. job'[j].state = "pending" /\ job[j].state = "absent"
    BY <1>2 DEF Enqueue, TypeOK, RowsOK
  <2>3. UNCHANGED <<worker, accepted>>
    BY <1>2 DEF Enqueue, carrierVars
  <2>4. \A v \in Workers : Holding(v) => worker[v].job # j
    BY <2>2 DEF Safe, ClaimExclusive
  <2>5. ClaimExclusive'
    BY <1>a, <2>1, <2>3, <2>4 DEF Safe, ClaimExclusive, Holding
  <2>6. AtMostOnce' /\ RowsAgreeWithCarrier'
    BY <2>1, <2>2, <2>3 DEF Safe, AtMostOnce, RowsAgreeWithCarrier, Holding
  <2> QED BY <2>5, <2>6 DEF Safe
<1>3. ASSUME NEW w \in Workers, Start(w) PROVE Safe'
  <2>1. \A v \in Workers : v # w => worker'[v] = worker[v]
    BY <1>3 DEF Start, Goto, Move, TypeOK, WorkersOK
  <2>2. worker'[w].pc = "claim" /\ worker'[w].job = worker[w].job
    BY <1>3 DEF Start, Goto, Move, TypeOK, WorkersOK
  <2>3. UNCHANGED <<job, accepted>>
    BY <1>3 DEF Start, rowVars, carrierVars
  <2>4. ClaimExclusive'
    BY <2>1, <2>2, <2>3 DEF Safe, ClaimExclusive, Holding
  <2>5. AtMostOnce' /\ RowsAgreeWithCarrier'
    BY <2>1, <2>2, <2>3 DEF Safe, AtMostOnce, RowsAgreeWithCarrier, Holding
  <2> QED BY <2>4, <2>5 DEF Safe
<1>4. ASSUME NEW w \in Workers, ClaimLock(w) PROVE Safe'
  <2>0. UNCHANGED <<job, accepted>>
    BY <1>4 DEF ClaimLock, rowVars, carrierVars
  <2>1. CASE Exit(w)
    BY <2>0, <2>1, ExitSafe
  <2>2. ASSUME NEW j \in Ready, Move(w, "claiming", j, "none") PROVE Safe'
    <3>1. j \in Jobs /\ job[j].state = "pending"
      BY <2>2 DEF Ready
    <3>2. \A v \in Workers : worker[v].pc = "claiming" => worker[v].job # j
      BY <2>2 DEF Ready, Locked
    <3>3. \A v \in Workers : Holding(v) => worker[v].job # j
      BY <3>1, <3>2 DEF Safe, ClaimExclusive
    <3>4. \A v \in Workers : worker[v].job # j
      BY <3>1, <3>3, QueueAssumption DEF Holding, TypeOK, WorkersOK
    <3>5. \A v \in Workers : v # w => worker'[v] = worker[v]
      BY <2>2 DEF Move, TypeOK, WorkersOK
    <3>6. worker'[w].pc = "claiming" /\ worker'[w].job = j
      BY <2>2 DEF Move, TypeOK, WorkersOK
    <3>7. worker[w].pc = "claim" /\ worker[w].job = NoJob
      BY <1>4 DEF ClaimLock, TypeOK, WorkersOK
    <3>8. ClaimExclusive'
      BY <2>0, <3>1, <3>4, <3>5, <3>6 DEF Safe, ClaimExclusive, Holding
    <3>9. AtMostOnce' /\ RowsAgreeWithCarrier'
      BY <2>0, <3>1, <3>5, <3>6 DEF Safe, AtMostOnce, RowsAgreeWithCarrier, Holding
    <3> QED BY <3>8, <3>9 DEF Safe
  <2> QED BY <1>4, <2>1, <2>2 DEF ClaimLock
<1>5. ASSUME NEW w \in Workers, ClaimCommit(w) PROVE Safe'
  <2> DEFINE j == worker[w].job
  <2>1. Holding(w) /\ j \in Jobs /\ job[j].state = "pending"
    BY <1>5, <1>a DEF ClaimCommit, Holding, Safe, ClaimExclusive
  <2>2. job'[j].state = "processing" /\ \A i \in Jobs : i # j => job'[i] = job[i]
    BY <1>5, <2>1 DEF ClaimCommit, TypeOK, RowsOK, JobRow
  <2>3. \A v \in Workers : v # w => worker'[v] = worker[v] /\ worker[v].job # j
    BY <1>5, <2>1 DEF ClaimCommit, Goto, Move, TypeOK, WorkersOK, Safe, ClaimExclusive
  <2>4. worker'[w].pc = "gates" /\ worker'[w].job = j
    BY <1>5 DEF ClaimCommit, Goto, Move, TypeOK, WorkersOK
  <2>5. UNCHANGED accepted /\ accepted[j] = 0
    BY <1>5, <2>1 DEF ClaimCommit, carrierVars, Safe, RowsAgreeWithCarrier
  <2> HIDE DEF j
  <2>6. ClaimExclusive'
    BY <1>a, <2>1, <2>2, <2>3, <2>4 DEF Safe, ClaimExclusive, Holding
  <2>7. AtMostOnce' /\ RowsAgreeWithCarrier'
    BY <2>1, <2>2, <2>3, <2>4, <2>5 DEF Safe, AtMostOnce, RowsAgreeWithCarrier, Holding
  <2> QED BY <2>6, <2>7 DEF Safe
<1>6. ASSUME NEW w \in Workers, Gates(w) PROVE Safe'
  BY <1>6, GotoSafe DEF Gates, rowVars, carrierVars
<1>7. ASSUME NEW w \in Workers, ReserveBegin(w) PROVE Safe'
  BY <1>7, GotoSafe DEF ReserveBegin, rowVars, carrierVars
<1>8. ASSUME NEW w \in Workers, ReserveCommit(w) PROVE Safe'
  BY <1>8, GotoSafe DEF ReserveCommit, rowVars, carrierVars
<1>9. ASSUME NEW w \in Workers, Send(w) PROVE Safe'
  <2> DEFINE j == worker[w].job
  <2>1. Holding(w) /\ j \in Jobs /\ job[j].state = "processing" /\ accepted[j] = 0
    BY <1>9, <1>a DEF Send, Holding, Safe, ClaimExclusive, RowsAgreeWithCarrier
  <2>2. PICK taken \in BOOLEAN, report \in Outcomes :
          /\ SendMayEnd(Adapter[j], taken, report)
          /\ accepted' = [accepted EXCEPT ![j] = IF taken THEN @ + 1 ELSE @]
          /\ Goto(w, "record", report)
    BY <1>9 DEF Send
  <2>3. /\ report = "accepted" => taken
        /\ report \notin {"accepted", "unknown"} => ~taken
    BY <2>1, <2>2, SendIsHonest
  <2>4. /\ \A i \in Jobs : i # j => accepted'[i] = accepted[i]
        /\ accepted'[j] = IF taken THEN 1 ELSE 0
    BY <2>1, <2>2 DEF TypeOK, CarrierOK
  <2>5. \A v \in Workers : v # w => worker'[v] = worker[v] /\ worker[v].job # j
    BY <2>1, <2>2 DEF Goto, Move, TypeOK, WorkersOK, Safe, ClaimExclusive
  <2>6. worker'[w].pc = "record" /\ worker'[w].job = j /\ worker'[w].note = report
    BY <2>2 DEF Goto, Move, TypeOK, WorkersOK
  <2>7. UNCHANGED job
    BY <1>9 DEF Send, rowVars
  <2> HIDE DEF j
  <2>8. ClaimExclusive'
    BY <2>1, <2>5, <2>6, <2>7 DEF Safe, ClaimExclusive, Holding
  <2>9. AtMostOnce'
    BY <2>1, <2>4 DEF Safe, AtMostOnce
  <2>10. RowsAgreeWithCarrier'
    BY <1>a, <2>1, <2>3, <2>4, <2>5, <2>6, <2>7 DEF Safe, RowsAgreeWithCarrier, Holding
  <2> QED BY <2>8, <2>9, <2>10 DEF Safe
<1>10. ASSUME NEW w \in Workers, Block(w) PROVE Safe'
  <2>1. worker[w].job \in Jobs /\ accepted[worker[w].job] = 0 /\ worker[w].note \in BlockStates
    BY <1>10, <1>a DEF Block, Holding, Safe, RowsAgreeWithCarrier, TypeOK, WorkersOK
  <2>2. [job[worker[w].job] EXCEPT !.state = worker[w].note] \in JobRow
    BY <2>1 DEF TypeOK, RowsOK, JobRow, JobStates
  <2>3. [job[worker[w].job] EXCEPT !.state = worker[w].note].state # "sent"
    BY <2>1 DEF TypeOK, RowsOK, JobRow, BlockStates
  <2> QED BY <1>10, <2>1, <2>2, <2>3, FinishSafe DEF Block
<1>11. ASSUME NEW w \in Workers, Retry(w) PROVE Safe'
  <2> DEFINE j == worker[w].job
             exhausted == Exhausted(j)
             row == [job[j] EXCEPT !.state = IF exhausted THEN "failed" ELSE "pending",
                                   !.available = IF exhausted THEN @ ELSE Later(clock)]
  <2>1. j \in Jobs /\ accepted[j] = 0
    BY <1>11, <1>a DEF Retry, Holding, Safe, RowsAgreeWithCarrier
  <2>2. Later(clock) \in Instants
    BY QueueAssumption DEF Later, Instants, TypeOK, Limiter!TypeOK, Limiter!Instants
  <2>3. row \in JobRow /\ row.state \in {"failed", "pending"}
    BY <2>1, <2>2 DEF TypeOK, RowsOK, JobRow, JobStates
  <2>4. \E status, id : Finish(w, row, status, id)
    BY <1>11 DEF Retry
  <2> HIDE DEF row
  <2> QED BY <1>11, <2>1, <2>3, <2>4, FinishSafe DEF Retry
<1>12. ASSUME NEW w \in Workers, Rejected(w) PROVE Safe'
  <2>1. worker[w].job \in Jobs /\ accepted[worker[w].job] = 0
    BY <1>12, <1>a DEF Rejected, Holding, Safe, RowsAgreeWithCarrier
  <2>2. /\ [job[worker[w].job] EXCEPT !.state = "blocked"] \in JobRow
        /\ [job[worker[w].job] EXCEPT !.state = "blocked"].state = "blocked"
    BY <2>1 DEF TypeOK, RowsOK, JobRow, JobStates, BlockStates
  <2> QED BY <1>12, <2>1, <2>2, FinishSafe DEF Rejected
<1>13. ASSUME NEW w \in Workers, Complete(w) PROVE Safe'
  <2>1. worker[w].job \in Jobs /\ accepted[worker[w].job] = 1
    BY <1>13, <1>a DEF Complete, Holding, Safe, RowsAgreeWithCarrier
  <2>2. /\ [job[worker[w].job] EXCEPT !.state = "sent"] \in JobRow
        /\ [job[worker[w].job] EXCEPT !.state = "sent"].state = "sent"
    BY <2>1 DEF TypeOK, RowsOK, JobRow, JobStates
  <2> QED BY <1>13, <2>1, <2>2, FinishSafe DEF Complete
<1>14. ASSUME NEW w \in Workers, ReconcileRequired(w) \/ Crash(w) PROVE Safe'
  BY <1>14, ExitSafe DEF ReconcileRequired, Crash, rowVars, carrierVars
<1> QED
  BY <1>1, <1>2, <1>3, <1>4, <1>5, <1>6, <1>7, <1>8, <1>9, <1>10, <1>11, <1>12, <1>13,
     <1>14 DEF Next, Environment, Step

-----------------------------------------------------------------------------
\* Every reachable state of the queue is well typed.
THEOREM TypeCorrect == Spec => []TypeOK
BY InitType, NextType, PTL DEF Spec

\* However many workers run, crash or lose the carrier's reply, the carrier
\* takes no message twice, claims are exclusive, and no row claims that a taken
\* message was not sent or that an untaken one was.
THEOREM AtMostOnceDelivery ==
    Spec => [](ClaimExclusive /\ AtMostOnce /\ RowsAgreeWithCarrier)
<1>1. Init => IInv
  BY InitType, InitSafe DEF IInv
<1>2. IInv /\ [Next]_vars => IInv'
  BY NextType, NextSafe DEF IInv
<1>3. IInv => ClaimExclusive /\ AtMostOnce /\ RowsAgreeWithCarrier
  BY DEF IInv, Safe
<1> QED BY <1>1, <1>2, <1>3, PTL DEF Spec

\* The queue uses the ledger only through reserve(): every step is a step of
\* the rate limiter or leaves its state alone, so what RateLimit proves of the
\* limiter holds of the queue.
THEOREM QueueImplementsLimiter == Spec => ImplementsLimiter
<1>1. Init => Limiter!Init
  BY DEF Init
<1>2. TypeOK /\ [Next]_vars => [Limiter!Next]_(Limiter!vars)
  <2> SUFFICES ASSUME TypeOK, [Next]_vars PROVE [Limiter!Next]_(Limiter!vars)
    OBVIOUS
  <2>a. ASSUME UNCHANGED limiterVars PROVE [Limiter!Next]_(Limiter!vars)
    BY <2>a DEF limiterVars, Limiter!vars
  <2>1. CASE Tick
    BY <2>1 DEF Tick, Limiter!Next
  <2>2. ASSUME NEW w \in Workers, ReserveBegin(w) PROVE [Limiter!Next]_(Limiter!vars)
    <3>1. worker[w].job \in Jobs
      BY <2>2 DEF ReserveBegin, TypeOK, WorkersOK, WorkerState
    <3> QED BY <2>2, <3>1 DEF ReserveBegin, Limiter!Next
  <2>3. ASSUME NEW w \in Workers, ReserveCommit(w) PROVE [Limiter!Next]_(Limiter!vars)
    BY <2>3 DEF ReserveCommit, Limiter!Next
  <2>4. ASSUME NEW w \in Workers, Crash(w) PROVE [Limiter!Next]_(Limiter!vars)
    BY <2>4, <2>a DEF Crash, Limiter!Next
  <2>5. ASSUME NEW w \in Workers,
               \/ Start(w) \/ ClaimLock(w) \/ ClaimCommit(w) \/ Gates(w) \/ Send(w)
               \/ Block(w) \/ Retry(w) \/ Rejected(w) \/ Complete(w) \/ ReconcileRequired(w)
        PROVE  UNCHANGED limiterVars
    BY <2>5 DEF Start, ClaimLock, ClaimCommit, Gates, Send, Block, Retry, Rejected,
                Complete, ReconcileRequired, Finish
  <2>6. CASE \/ SetPaused
             \/ \E j \in Jobs : Enqueue(j) \/ DeliveryUpdate(j)
             \/ \E a \in Recipients : SetSuppressed(a)
             \/ UNCHANGED vars
    BY <2>6, <2>a DEF SetPaused, Enqueue, DeliveryUpdate, SetSuppressed, vars
  <2> QED
    BY <2>a, <2>1, <2>2, <2>3, <2>4, <2>5, <2>6 DEF Next, Environment, Step
<1> QED BY <1>1, <1>2, TypeCorrect, PTL DEF Spec, ImplementsLimiter, Limiter!Spec

-----------------------------------------------------------------------------

\* What the accounts of a job need to be inductive: a job that was never queued
\* has no submission, one that may be claimed has an attempt left, and a worker
\* that has claimed a job and not yet submitted it has a claim to spare.
BeforeSend(w) == worker[w].pc \in {"gates", "reserve", "reserving", "send", "block"}
SparedClaims ==
    /\ \A j \in Jobs :
         /\ job[j].state = "absent" => Len(submissions[j]) = 0
         /\ job[j].state = "pending" => job[j].attempts < MaxAttempts
    /\ \A w \in Workers : BeforeSend(w) =>
         Len(submissions[worker[w].job]) < job[worker[w].job].attempts
Accounts == MessageAgreesWithJob /\ SubmissionsBounded /\ SparedClaims
AInv == IInv /\ Accounts

LEMMA InitAccounts == Init => Accounts
<1> SUFFICES ASSUME Init PROVE Accounts
  OBVIOUS
<1>1. MessageAgreesWithJob
  BY DEF Init, MessageAgreesWithJob, MessageStatus
<1>2. SubmissionsBounded /\ SparedClaims
  BY QueueAssumption DEF Init, SubmissionsBounded, SparedClaims, BeforeSend, Idle
<1> QED BY <1>1, <1>2 DEF Accounts

\* Steps that write no row and submit nothing, and do not bring a worker past
\* its claim.
LEMMA FrameAccounts ==
    ASSUME Accounts, UNCHANGED <<job, message, submissions>>,
           \A v \in Workers : BeforeSend(v)' => BeforeSend(v) /\ worker'[v].job = worker[v].job
    PROVE  Accounts'
<1>1. MessageAgreesWithJob' /\ SubmissionsBounded'
  BY DEF Accounts, MessageAgreesWithJob, SubmissionsBounded
<1>2. SparedClaims'
  BY DEF Accounts, SparedClaims
<1> QED BY <1>1, <1>2 DEF Accounts

\* A worker that moves on with its job, before submitting it.
LEMMA GotoAccounts ==
    ASSUME AInv, NEW w \in Workers, BeforeSend(w), NEW pc, NEW note, Goto(w, pc, note),
           UNCHANGED <<job, message, submissions>>
    PROVE  Accounts'
<1>1. \A v \in Workers : worker'[v] = IF v = w THEN [pc |-> pc, job |-> worker[w].job, note |-> note]
                                               ELSE worker[v]
  BY DEF Goto, Move, AInv, IInv, TypeOK, WorkersOK
<1> QED BY <1>1, FrameAccounts DEF AInv, BeforeSend

\* A worker that ends without an UPDATE.
LEMMA ExitAccounts ==
    ASSUME AInv, NEW w \in Workers, Exit(w), UNCHANGED <<job, message, submissions>>
    PROVE  Accounts'
<1>1. \A v \in Workers : worker'[v] = IF v = w THEN Idle ELSE worker[v]
  BY DEF Exit, AInv, IInv, TypeOK, WorkersOK
<1> QED BY <1>1, FrameAccounts DEF AInv, BeforeSend, Idle

\* The UPDATE that ends a claim: it keeps the attempts, and puts a job back into
\* the queue only if it has an attempt left.
LEMMA FinishAccounts ==
    ASSUME AInv, NEW w \in Workers, worker[w].pc \in {"block", "record"},
           NEW row \in JobRow, NEW status, NEW id, Finish(w, row, status, id),
           row.state \in {"pending"} \cup Terminal,
           row.attempts = job[worker[w].job].attempts,
           row.state = "pending" => row.attempts < MaxAttempts,
           status = (IF row.state = "pending" THEN "queued" ELSE row.state),
           id = (IF row.state = "sent" THEN worker[w].job ELSE message[worker[w].job].provider_message_id)
    PROVE  Accounts'
<1> DEFINE j == worker[w].job
<1>1. j \in Jobs /\ Holding(w) /\ job[j].state = "processing"
  BY DEF AInv, IInv, TypeOK, WorkersOK, WorkerState, Safe, ClaimExclusive, Holding
<1>2. \A i \in Jobs : /\ job'[i] = IF i = j THEN row ELSE job[i]
                      /\ message'[i] = IF i = j THEN [status |-> status, provider_message_id |-> id]
                                                ELSE message[i]
  BY <1>1 DEF Finish, AInv, IInv, TypeOK, RowsOK
<1>3. \A v \in Workers : worker'[v] = IF v = w THEN Idle ELSE worker[v]
  BY DEF Finish, Exit, AInv, IInv, TypeOK, WorkersOK
<1>4. \A v \in Workers : v # w => worker[v].job # j
  BY <1>1 DEF AInv, IInv, Safe, ClaimExclusive
<1>5. UNCHANGED submissions
  BY DEF Finish, carrierVars
<1>6. message[j].provider_message_id = NoJob
  BY <1>1 DEF AInv, Accounts, MessageAgreesWithJob
<1>7. \A v \in Workers : BeforeSend(v) => worker[v].job \in Jobs
  BY DEF AInv, IInv, TypeOK, WorkersOK, WorkerState, BeforeSend
<1> HIDE DEF j
<1>8. MessageAgreesWithJob'
  <2>1. status = MessageStatus(row.state) /\ id = (IF row.state = "sent" THEN j ELSE NoJob)
    BY <1>6 DEF MessageStatus, Terminal, BlockStates, j
  <2>2. ASSUME NEW i \in Jobs
        PROVE  /\ message'[i].provider_message_id = (IF job'[i].state = "sent" THEN i ELSE NoJob)
               /\ \/ message'[i].status = MessageStatus(job'[i].state)
                  \/ job'[i].state = "sent" /\ message'[i].status \in DeliveryStates
    <3>1. CASE i = j
      BY <1>2, <2>1, <3>1
    <3>2. CASE i # j
      BY <1>2, <3>2 DEF AInv, Accounts, MessageAgreesWithJob
    <3> QED BY <3>1, <3>2
  <2> QED BY <2>2 DEF MessageAgreesWithJob, MessageStatus
<1>9. SubmissionsBounded'
  BY <1>2, <1>5 DEF AInv, Accounts, SubmissionsBounded, j
<1>10. SparedClaims'
  <2>1. \A i \in Jobs : /\ job'[i].state = "absent" => Len(submissions'[i]) = 0
                        /\ job'[i].state = "pending" => job'[i].attempts < MaxAttempts
    BY <1>2, <1>5 DEF AInv, Accounts, SparedClaims, Terminal, BlockStates
  <2>2. \A v \in Workers : BeforeSend(v)' => v # w /\ BeforeSend(v) /\ worker'[v] = worker[v]
    BY <1>3 DEF BeforeSend, Idle
  <2>3. \A v \in Workers : BeforeSend(v)' =>
          Len(submissions'[worker'[v].job]) < job'[worker'[v].job].attempts
    BY <1>2, <1>4, <1>5, <1>7, <2>2 DEF AInv, Accounts, SparedClaims
  <2> QED BY <2>1, <2>3 DEF SparedClaims
<1> QED BY <1>8, <1>9, <1>10 DEF Accounts

\* Every step of a worker, of the operator, of a delivery report or of the clock
\* keeps the accounts: a report finds only rows with the carrier's id, which are
\* those of sent jobs.
LEMMA NextAccounts == AInv /\ [Next]_vars => Accounts'
<1> SUFFICES ASSUME AInv, [Next]_vars PROVE Accounts'
  OBVIOUS
<1> USE DEF AInv, IInv
<1>a. \A v \in Workers : Holding(v) => worker[v].job \in Jobs
  BY DEF TypeOK, WorkersOK, WorkerState, Holding
<1>1. CASE Tick \/ SetPaused \/ (\E a \in Recipients : SetSuppressed(a)) \/ UNCHANGED vars
  <2>1. UNCHANGED <<job, message, submissions, worker>>
    BY <1>1 DEF Tick, SetPaused, SetSuppressed, vars, rowVars, carrierVars
  <2> QED BY <2>1, FrameAccounts DEF BeforeSend
<1>2. ASSUME NEW j \in Jobs, Enqueue(j) PROVE Accounts'
  <2>1. /\ \A i \in Jobs : i # j => job'[i] = job[i] /\ message'[i] = message[i]
        /\ job'[j].state = "pending" /\ job'[j].attempts = 0 /\ job[j].state = "absent"
        /\ message'[j].status = "queued"
        /\ message'[j].provider_message_id = message[j].provider_message_id
    BY <1>2 DEF Enqueue, TypeOK, RowsOK, JobRow, MessageRow
  <2>2. UNCHANGED <<worker, submissions>>
    BY <1>2 DEF Enqueue, carrierVars
  <2>3. \A v \in Workers : BeforeSend(v) => worker[v].job # j /\ worker[v].job \in Jobs
    BY <1>a, <2>1 DEF Safe, ClaimExclusive, BeforeSend, Holding
  <2>4. MessageAgreesWithJob'
    BY <2>1 DEF Accounts, MessageAgreesWithJob, MessageStatus
  <2>5. SubmissionsBounded'
    BY <2>1, <2>2, QueueAssumption DEF Accounts, SubmissionsBounded, SparedClaims
  <2>6. SparedClaims'
    <3>1. \A i \in Jobs : /\ job'[i].state = "absent" => Len(submissions'[i]) = 0
                          /\ job'[i].state = "pending" => job'[i].attempts < MaxAttempts
      BY <2>1, <2>2, QueueAssumption DEF Accounts, SparedClaims
    <3>2. \A v \in Workers : BeforeSend(v)' =>
            Len(submissions'[worker'[v].job]) < job'[worker'[v].job].attempts
      BY <2>1, <2>2, <2>3 DEF Accounts, SparedClaims, BeforeSend
    <3> QED BY <3>1, <3>2 DEF SparedClaims
  <2> QED BY <2>4, <2>5, <2>6 DEF Accounts
<1>15. ASSUME NEW j \in Jobs, DeliveryUpdate(j) PROVE Accounts'
  <2>1. PICK status \in DeliveryStates :
            /\ message'[j].status = status
            /\ message'[j].provider_message_id = message[j].provider_message_id
            /\ \A i \in Jobs : i # j => message'[i] = message[i]
    BY <1>15 DEF DeliveryUpdate, TypeOK, RowsOK, MessageRow
  <2>2. job[j].state = "sent"
    BY <1>15, QueueAssumption DEF DeliveryUpdate, Accounts, MessageAgreesWithJob
  <2>3. UNCHANGED <<job, worker, submissions>>
    BY <1>15 DEF DeliveryUpdate, carrierVars
  <2>4. MessageAgreesWithJob'
    BY <2>1, <2>2, <2>3 DEF Accounts, MessageAgreesWithJob, MessageStatus
  <2>5. SubmissionsBounded' /\ SparedClaims'
    BY <2>3 DEF Accounts, SubmissionsBounded, SparedClaims, BeforeSend
  <2> QED BY <2>4, <2>5 DEF Accounts
<1>3. ASSUME NEW w \in Workers, Start(w) PROVE Accounts'
  <2>1. \A v \in Workers : v # w => worker'[v] = worker[v]
    BY <1>3 DEF Start, Goto, Move, TypeOK, WorkersOK
  <2>2. worker'[w].pc = "claim"
    BY <1>3 DEF Start, Goto, Move, TypeOK, WorkersOK
  <2>3. UNCHANGED <<job, message, submissions>>
    BY <1>3 DEF Start, rowVars, carrierVars
  <2> QED BY <2>1, <2>2, <2>3, FrameAccounts DEF BeforeSend
<1>4. ASSUME NEW w \in Workers, ClaimLock(w) PROVE Accounts'
  <2>0. UNCHANGED <<job, message, submissions>>
    BY <1>4 DEF ClaimLock, rowVars, carrierVars
  <2>1. CASE Exit(w)
    BY <2>0, <2>1, ExitAccounts
  <2>2. ASSUME NEW j \in Ready, Move(w, "claiming", j, "none") PROVE Accounts'
    <3>1. \A v \in Workers : v # w => worker'[v] = worker[v]
      BY <2>2 DEF Move, TypeOK, WorkersOK
    <3>2. worker'[w].pc = "claiming"
      BY <2>2 DEF Move, TypeOK, WorkersOK
    <3> QED BY <2>0, <3>1, <3>2, FrameAccounts DEF BeforeSend
  <2> QED BY <1>4, <2>1, <2>2 DEF ClaimLock
<1>5. ASSUME NEW w \in Workers, ClaimCommit(w) PROVE Accounts'
  <2> DEFINE j == worker[w].job
  <2>1. Holding(w) /\ j \in Jobs /\ job[j].state = "pending"
    BY <1>5, <1>a DEF ClaimCommit, Holding, Safe, ClaimExclusive
  <2>2. /\ job'[j].state = "processing" /\ job'[j].attempts = job[j].attempts + 1
        /\ \A i \in Jobs : i # j => job'[i] = job[i]
    BY <1>5, <2>1 DEF ClaimCommit, TypeOK, RowsOK, JobRow
  <2>3. \A v \in Workers : v # w => worker'[v] = worker[v] /\ worker[v].job # j
    BY <1>5, <2>1 DEF ClaimCommit, Goto, Move, TypeOK, WorkersOK, Safe, ClaimExclusive
  <2>4. worker'[w].pc = "gates" /\ worker'[w].job = j
    BY <1>5 DEF ClaimCommit, Goto, Move, TypeOK, WorkersOK
  <2>5. UNCHANGED <<message, submissions>>
    BY <1>5 DEF ClaimCommit, carrierVars
  <2>6. job[j].attempts \in Nat /\ job[j].attempts < MaxAttempts /\ Len(submissions[j]) <= job[j].attempts
        /\ Len(submissions[j]) \in Nat
    BY <2>1 DEF Accounts, SubmissionsBounded, SparedClaims, TypeOK, RowsOK, JobRow, CarrierOK
  <2>7. \A v \in Workers : BeforeSend(v) => worker[v].job \in Jobs
    BY <1>a DEF BeforeSend, Holding
  <2> HIDE DEF j
  <2>8. MessageAgreesWithJob'
    BY <2>1, <2>2, <2>5 DEF Accounts, MessageAgreesWithJob, MessageStatus
  <2>9. SubmissionsBounded'
    BY <2>2, <2>5, <2>6, QueueAssumption DEF Accounts, SubmissionsBounded
  <2>10. SparedClaims'
    <3>1. \A i \in Jobs : /\ job'[i].state = "absent" => Len(submissions'[i]) = 0
                          /\ job'[i].state = "pending" => job'[i].attempts < MaxAttempts
      BY <2>2, <2>5 DEF Accounts, SparedClaims
    <3>2. ASSUME NEW v \in Workers, BeforeSend(v)'
          PROVE  Len(submissions'[worker'[v].job]) < job'[worker'[v].job].attempts
      <4>1. CASE v = w
        BY <2>2, <2>4, <2>5, <2>6, <4>1
      <4>2. CASE v # w
        BY <2>2, <2>3, <2>5, <2>7, <3>2, <4>2 DEF Accounts, SparedClaims, BeforeSend
      <4> QED BY <4>1, <4>2
    <3> QED BY <3>1, <3>2 DEF SparedClaims
  <2> QED BY <2>8, <2>9, <2>10 DEF Accounts
<1>6. ASSUME NEW w \in Workers, Gates(w) PROVE Accounts'
  BY <1>6, GotoAccounts DEF Gates, rowVars, carrierVars, BeforeSend
<1>7. ASSUME NEW w \in Workers, ReserveBegin(w) PROVE Accounts'
  BY <1>7, GotoAccounts DEF ReserveBegin, rowVars, carrierVars, BeforeSend
<1>8. ASSUME NEW w \in Workers, ReserveCommit(w) PROVE Accounts'
  BY <1>8, GotoAccounts DEF ReserveCommit, rowVars, carrierVars, BeforeSend
<1>9. ASSUME NEW w \in Workers, Send(w) PROVE Accounts'
  <2> DEFINE j == worker[w].job
  <2>1. Holding(w) /\ j \in Jobs /\ BeforeSend(w) /\ job[j].state = "processing"
    BY <1>9, <1>a DEF Send, Holding, BeforeSend, Safe, ClaimExclusive
  <2>2. PICK report \in Outcomes : Goto(w, "record", report)
    BY <1>9 DEF Send
  <2>3. submissions' = [submissions EXCEPT ![j] = Append(@, clock)]
    BY <1>9 DEF Send
  <2>4. submissions[j] \in Seq(Instants) /\ clock \in Instants
    BY <2>1 DEF TypeOK, CarrierOK, Limiter!TypeOK, Limiter!Instants, Instants
  <2>5. /\ \A i \in Jobs : i # j => submissions'[i] = submissions[i]
        /\ Len(submissions'[j]) = Len(submissions[j]) + 1
    BY <2>1, <2>3, <2>4 DEF TypeOK, CarrierOK
  <2>6. \A v \in Workers : v # w => worker'[v] = worker[v] /\ worker[v].job # j
    BY <2>1, <2>2 DEF Goto, Move, TypeOK, WorkersOK, Safe, ClaimExclusive
  <2>7. worker'[w].pc = "record"
    BY <2>2 DEF Goto, Move, TypeOK, WorkersOK
  <2>8. UNCHANGED <<job, message>>
    BY <1>9 DEF Send, rowVars
  <2>9. job[j].attempts \in Nat /\ Len(submissions[j]) \in Nat /\ Len(submissions[j]) < job[j].attempts
    BY <2>1, <2>4 DEF Accounts, SparedClaims, TypeOK, RowsOK, JobRow
  <2>10. \A v \in Workers : BeforeSend(v) => worker[v].job \in Jobs
    BY <1>a DEF BeforeSend, Holding
  <2> HIDE DEF j
  <2>11. MessageAgreesWithJob'
    BY <2>8 DEF Accounts, MessageAgreesWithJob
  <2>12. SubmissionsBounded'
    BY <2>5, <2>8, <2>9 DEF Accounts, SubmissionsBounded
  <2>13. SparedClaims'
    <3>1. \A i \in Jobs : /\ job'[i].state = "absent" => Len(submissions'[i]) = 0
                          /\ job'[i].state = "pending" => job'[i].attempts < MaxAttempts
      BY <2>1, <2>5, <2>8 DEF Accounts, SparedClaims
    <3>2. \A v \in Workers : BeforeSend(v)' =>
            Len(submissions'[worker'[v].job]) < job'[worker'[v].job].attempts
      BY <2>5, <2>6, <2>7, <2>8, <2>10 DEF Accounts, SparedClaims, BeforeSend
    <3> QED BY <3>1, <3>2 DEF SparedClaims
  <2> QED BY <2>11, <2>12, <2>13 DEF Accounts
<1>10. ASSUME NEW w \in Workers, Block(w) PROVE Accounts'
  <2> DEFINE j == worker[w].job
             row == [job[j] EXCEPT !.state = worker[w].note]
  <2>1. j \in Jobs /\ worker[w].note \in BlockStates
    BY <1>10, <1>a DEF Block, Holding, TypeOK, WorkersOK
  <2>2. row \in JobRow /\ row.state = worker[w].note /\ row.attempts = job[j].attempts
    BY <2>1 DEF TypeOK, RowsOK, JobRow, JobStates
  <2>3. Finish(w, row, worker[w].note, message[j].provider_message_id)
    BY <1>10 DEF Block
  <2>4. worker[w].pc = "block"
    BY <1>10 DEF Block
  <2> HIDE DEF row
  <2> QED BY <2>1, <2>2, <2>3, <2>4, FinishAccounts DEF Terminal, BlockStates
<1>11. ASSUME NEW w \in Workers, Retry(w) PROVE Accounts'
  <2> DEFINE j == worker[w].job
             row == [job[j] EXCEPT !.state = IF Exhausted(j) THEN "failed" ELSE "pending",
                                   !.available = IF Exhausted(j) THEN @ ELSE Later(clock)]
  <2>1. j \in Jobs
    BY <1>11, <1>a DEF Retry, Holding
  <2>2. Later(clock) \in Instants
    BY QueueAssumption DEF Later, Instants, TypeOK, Limiter!TypeOK, Limiter!Instants
  <2>3. /\ row \in JobRow /\ row.attempts = job[j].attempts
        /\ row.state = IF Exhausted(j) THEN "failed" ELSE "pending"
    BY <2>1, <2>2 DEF TypeOK, RowsOK, JobRow, JobStates
  <2>4. ~Exhausted(j) => row.attempts < MaxAttempts
    BY <2>1, <2>3, QueueAssumption DEF Exhausted, TypeOK, RowsOK, JobRow
  <2>5. Finish(w, row, IF Exhausted(j) THEN "failed" ELSE "queued", message[j].provider_message_id)
    BY <1>11 DEF Retry
  <2>6. worker[w].pc = "record"
    BY <1>11 DEF Retry
  <2> HIDE DEF row
  <2> QED BY <2>1, <2>3, <2>4, <2>5, <2>6, FinishAccounts DEF Terminal
<1>12. ASSUME NEW w \in Workers, Rejected(w) PROVE Accounts'
  <2> DEFINE j == worker[w].job
             row == [job[j] EXCEPT !.state = "blocked"]
  <2>1. j \in Jobs
    BY <1>12, <1>a DEF Rejected, Holding
  <2>2. row \in JobRow /\ row.state = "blocked" /\ row.attempts = job[j].attempts
    BY <2>1 DEF TypeOK, RowsOK, JobRow, JobStates, BlockStates
  <2>3. Finish(w, row, "blocked", message[j].provider_message_id) /\ worker[w].pc = "record"
    BY <1>12 DEF Rejected
  <2> HIDE DEF row
  <2> QED BY <2>1, <2>2, <2>3, FinishAccounts DEF Terminal, BlockStates
<1>13. ASSUME NEW w \in Workers, Complete(w) PROVE Accounts'
  <2> DEFINE j == worker[w].job
             row == [job[j] EXCEPT !.state = "sent"]
  <2>1. j \in Jobs
    BY <1>13, <1>a DEF Complete, Holding
  <2>2. row \in JobRow /\ row.state = "sent" /\ row.attempts = job[j].attempts
    BY <2>1 DEF TypeOK, RowsOK, JobRow, JobStates
  <2>3. Finish(w, row, "sent", j) /\ worker[w].pc = "record"
    BY <1>13 DEF Complete
  <2> HIDE DEF row
  <2> QED BY <2>1, <2>2, <2>3, FinishAccounts DEF Terminal
<1>14. ASSUME NEW w \in Workers, ReconcileRequired(w) \/ Crash(w) PROVE Accounts'
  BY <1>14, ExitAccounts DEF ReconcileRequired, Crash, rowVars, carrierVars
<1> QED
  BY <1>1, <1>2, <1>3, <1>4, <1>5, <1>6, <1>7, <1>8, <1>9, <1>10, <1>11, <1>12, <1>13,
     <1>14, <1>15 DEF Next, Environment, Step

\* The accounts hold in every reachable state: a messages row tells the state of
\* its job, or of a sent one what a delivery report said of it, the carrier was called no more often than the job was claimed, and the
\* job was claimed no more than max_attempts times, although claims are counted
\* when they commit and submissions happen later, in processes that may die.
THEOREM JobsAccounted == Spec => []JobsAreAccounted
<1>1. Init => AInv
  BY InitType, InitSafe, InitAccounts DEF AInv, IInv
<1>2. AInv /\ [Next]_vars => AInv'
  BY NextType, NextSafe, NextAccounts DEF AInv, IInv
<1>3. AInv => JobsAreAccounted
  BY DEF AInv, Accounts, JobsAreAccounted
<1> QED BY <1>1, <1>2, <1>3, PTL DEF Spec

-----------------------------------------------------------------------------

\* Who writes a row: enqueue_outbound() an absent one, the claim a pending one,
\* the UPDATE that ends a claim a 'processing' one, and a delivery report the
\* status of a message that has the carrier's id.
FinalRow(j) ==
    /\ UNCHANGED <<job[j], message[j].provider_message_id>>
    /\ \/ UNCHANGED message[j].status
       \/ job[j].state = "sent" /\ message[j].status' \in DeliveryStates

LEMMA RowsWritten ==
    ASSUME AInv, [Next]_vars, NEW j \in Jobs, job[j].state \in Terminal
    PROVE  FinalRow(j)
<1> USE DEF AInv, IInv
<1>1. ASSUME UNCHANGED <<job[j], message[j]>> PROVE FinalRow(j)
  BY <1>1 DEF FinalRow
<1>2. ASSUME NEW w \in Workers, NEW row, NEW status, NEW id, Finish(w, row, status, id)
      PROVE  UNCHANGED <<job[j], message[j]>>
  BY <1>2 DEF Finish, rowVars, TypeOK, RowsOK, Terminal, BlockStates
<1>3. ASSUME NEW i \in Jobs, Enqueue(i) PROVE FinalRow(j)
  BY <1>1, <1>3 DEF Enqueue, TypeOK, RowsOK, Terminal, BlockStates
<1>4. ASSUME NEW w \in Workers, ClaimCommit(w) PROVE FinalRow(j)
  <2>1. worker[w].job \in Jobs /\ job[worker[w].job].state = "pending"
    BY <1>4 DEF ClaimCommit, Safe, ClaimExclusive, Holding, TypeOK, WorkersOK, WorkerState
  <2> QED BY <1>1, <1>4, <2>1 DEF ClaimCommit, TypeOK, RowsOK, Terminal, BlockStates
<1>5. ASSUME NEW w \in Workers, Block(w) \/ Retry(w) \/ Rejected(w) \/ Complete(w)
      PROVE  FinalRow(j)
  BY <1>1, <1>2, <1>5 DEF Block, Retry, Rejected, Complete
<1>6. ASSUME NEW i \in Jobs, DeliveryUpdate(i) PROVE FinalRow(j)
  <2>1. job' = job /\ message[i].provider_message_id = i
    BY <1>6 DEF DeliveryUpdate
  <2>2. job[i].state = "sent"
    BY <2>1, QueueAssumption DEF Accounts, MessageAgreesWithJob
  <2>3. PICK status \in DeliveryStates : message' = [message EXCEPT ![i].status = status]
    BY <1>6 DEF DeliveryUpdate
  <2>4. CASE i = j
    <3>1. message'[j].status = status /\ message'[j].provider_message_id = message[j].provider_message_id
      BY <2>3, <2>4 DEF TypeOK, RowsOK, MessageRow
    <3> QED BY <2>1, <2>2, <2>4, <3>1 DEF FinalRow
  <2>5. CASE i # j
    BY <1>1, <2>1, <2>3, <2>5 DEF TypeOK, RowsOK
  <2> QED BY <2>4, <2>5
<1>7. CASE \/ Tick \/ SetPaused \/ (\E a \in Recipients : SetSuppressed(a)) \/ UNCHANGED vars
           \/ \E w \in Workers : \/ Start(w) \/ ClaimLock(w) \/ Gates(w) \/ ReserveBegin(w)
                                 \/ ReserveCommit(w) \/ Send(w) \/ ReconcileRequired(w) \/ Crash(w)
  BY <1>1, <1>7 DEF Tick, SetPaused, SetSuppressed, vars, rowVars, Start, ClaimLock, Gates,
                    ReserveBegin, ReserveCommit, Send, ReconcileRequired, Crash
<1> QED BY <1>3, <1>4, <1>5, <1>6, <1>7 DEF Next, Environment, Step

\* No UPDATE of complete, block or retry_outbound_job() and no claim touches a job
\* that was sent, failed or blocked, nor its messages row; of a sent job's message a
\* delivery report may still replace the status, never by one of the queue.
THEOREM TerminalStaysFinal == Spec => TerminalIsFinal
<1>1. AInv /\ [Next]_vars => [\A j \in Jobs : job[j].state \in Terminal => FinalRow(j)]_vars
  BY RowsWritten
<1>2. Init => AInv
  BY InitType, InitSafe, InitAccounts DEF AInv, IInv
<1>3. AInv /\ [Next]_vars => AInv'
  BY NextType, NextSafe, NextAccounts DEF AInv, IInv
<1> QED BY <1>1, <1>2, <1>3, PTL DEF Spec, TerminalIsFinal, FinalRow

-----------------------------------------------------------------------------
\* Where a worker is past the gates, its job has passed them, its transaction is
\* about that job, and before it submits the job has a reservation.
Cleared == Allowed \ (PolicyRefuses \cup MmsMedia)
ClearedByGates ==
    \A w \in Workers :
      /\ worker[w].pc \in {"reserve", "reserving", "send"} => worker[w].job \in Cleared
      /\ worker[w].pc = "reserving" => tx[w].job = worker[w].job
      /\ worker[w].pc = "send" => \E r \in reservations : r.job = worker[w].job
Authorized == SubmittedIsAuthorized /\ ClearedByGates

LEMMA InitAuthorized == Init => Authorized
BY DEF Init, Authorized, SubmittedIsAuthorized, ClearedByGates, Idle

\* Steps that submit nothing and bring nobody past a gate.
LEMMA FrameAuthorized ==
    ASSUME Authorized, reservations \subseteq reservations', UNCHANGED submissions,
           NEW W \in SUBSET Workers,
           \A v \in W : worker'[v] = worker[v] /\ tx'[v] = tx[v],
           \A v \in Workers \ W :
               worker'[v].pc \notin {"reserve", "reserving", "send"}
    PROVE  Authorized'
<1>1. SubmittedIsAuthorized'
  BY DEF Authorized, SubmittedIsAuthorized
<1>2. ClearedByGates'
  BY DEF Authorized, ClearedByGates
<1> QED BY <1>1, <1>2 DEF Authorized

\* Only Gates() and reserve() bring a worker towards provider.send().
LEMMA NextAuthorized == TypeOK /\ Authorized /\ [Next]_vars => Authorized'
<1> SUFFICES ASSUME TypeOK, Authorized, [Next]_vars PROVE Authorized'
  OBVIOUS
<1> USE DEF TypeOK
<1>a. ASSUME NEW w \in Workers, NEW pc, NEW note, NEW j, Move(w, pc, j, note)
      PROVE  /\ \A v \in Workers \ {w} : worker'[v] = worker[v]
             /\ worker'[w].pc = pc /\ worker'[w].job = j
  BY <1>a DEF Move, WorkersOK
<1>b. ASSUME NEW w \in Workers, Exit(w)
      PROVE  /\ \A v \in Workers \ {w} : worker'[v] = worker[v]
             /\ worker'[w].pc = "exit"
  BY <1>b DEF Exit, WorkersOK, Idle
<1>c. ASSUME NEW w \in Workers, UNCHANGED <<limiterVars, submissions>>,
             \/ Exit(w)
             \/ \E pc \in {"claim", "claiming", "gates", "block", "record"} : \E j, note : Move(w, pc, j, note)
      PROVE  Authorized'
  <2>1. \A v \in Workers \ {w} : worker'[v] = worker[v] /\ tx'[v] = tx[v]
    BY <1>a, <1>b, <1>c DEF limiterVars
  <2>2. worker'[w].pc \notin {"reserve", "reserving", "send"}
    BY <1>a, <1>b, <1>c
  <2>3. reservations \subseteq reservations'
    BY <1>c DEF limiterVars
  <2> QED BY <1>c, <2>1, <2>2, <2>3, FrameAuthorized
<1>1. CASE Tick \/ SetPaused \/ (\E a \in Recipients : SetSuppressed(a)) \/ UNCHANGED vars
           \/ \E j \in Jobs : Enqueue(j) \/ DeliveryUpdate(j)
  <2>1. UNCHANGED <<worker, tx, reservations, submissions>>
    BY <1>1 DEF Tick, Limiter!Tick, SetPaused, SetSuppressed, Enqueue, DeliveryUpdate, vars, limiterVars, carrierVars
  <2> QED BY <2>1, FrameAuthorized
<1>2. ASSUME NEW w \in Workers, Start(w) \/ ClaimLock(w) \/ ClaimCommit(w) \/ ReconcileRequired(w)
      PROVE  Authorized'
  BY <1>2, <1>c DEF Start, ClaimLock, ClaimCommit, ReconcileRequired, Goto, carrierVars
<1>3. ASSUME NEW w \in Workers, Block(w) \/ Retry(w) \/ Rejected(w) \/ Complete(w)
      PROVE  Authorized'
  BY <1>3, <1>c DEF Block, Retry, Rejected, Complete, Finish, carrierVars
<1>4. ASSUME NEW w \in Workers, Gates(w) PROVE Authorized'
  <2> DEFINE j == worker[w].job
  <2>0. UNCHANGED <<limiterVars, submissions>>
    BY <1>4 DEF Gates, carrierVars
  <2>1. j \in Jobs
    BY <1>4 DEF Gates, WorkersOK, WorkerState
  <2>2. CASE GateVerdict(j) = "none"
    <3>1. j \in Cleared
      BY <2>1, <2>2 DEF GateVerdict, Cleared
    <3>2. \A v \in Workers \ {w} : worker'[v] = worker[v]
      BY <1>4, <1>a DEF Gates, Goto
    <3>3. worker'[w].pc = "reserve" /\ worker'[w].job = j
      BY <1>4, <1>a, <2>2 DEF Gates, Goto
    <3>4. SubmittedIsAuthorized'
      BY <2>0 DEF limiterVars, Authorized, SubmittedIsAuthorized
    <3>5. ClearedByGates'
      BY <2>0, <3>1, <3>2, <3>3 DEF limiterVars, Authorized, ClearedByGates
    <3> QED BY <3>4, <3>5 DEF Authorized
  <2>3. CASE GateVerdict(j) # "none"
    BY <1>4, <1>c, <2>0, <2>3 DEF Gates, Goto
  <2> QED BY <2>2, <2>3
<1>5. ASSUME NEW w \in Workers, ReserveBegin(w) PROVE Authorized'
  <2>1. worker'[w].pc = "reserving" /\ worker'[w].job = worker[w].job
        /\ \A v \in Workers \ {w} : worker'[v] = worker[v]
    BY <1>5, <1>a DEF ReserveBegin, Goto
  <2>2. /\ UNCHANGED <<reservations, submissions>> /\ tx'[w].job = worker[w].job
        /\ \A v \in Workers \ {w} : tx'[v] = tx[v]
    BY <1>5 DEF ReserveBegin, Limiter!Begin, Limiter!TypeOK, carrierVars
  <2>3. SubmittedIsAuthorized'
    BY <2>2 DEF Authorized, SubmittedIsAuthorized
  <2>4. ClearedByGates'
    BY <1>5, <2>1, <2>2 DEF Authorized, ClearedByGates, ReserveBegin
  <2> QED BY <2>3, <2>4 DEF Authorized
<1>6. ASSUME NEW w \in Workers, ReserveCommit(w) PROVE Authorized'
  <2>0. /\ reservations \subseteq reservations' /\ UNCHANGED submissions
        /\ \A v \in Workers \ {w} : tx'[v] = tx[v]
    BY <1>6 DEF ReserveCommit, Limiter!Commit, Limiter!TypeOK, carrierVars
  <2>1. CASE Goto(w, "block", "rate_limited")
    <3>1. worker'[w].pc = "block" /\ \A v \in Workers \ {w} : worker'[v] = worker[v]
      BY <2>1, <1>a DEF Goto
    <3> QED BY <2>0, <3>1, FrameAuthorized
  <2>2. CASE Limiter!Granted(tx[w]) /\ Goto(w, "send", "none")
    <3>1. worker'[w].pc = "send" /\ worker'[w].job = worker[w].job
          /\ \A v \in Workers \ {w} : worker'[v] = worker[v]
      BY <2>2, <1>a DEF Goto
    <3>2. tx[w].job = worker[w].job /\ worker[w].job \in Cleared
      BY <1>6 DEF ReserveCommit, Authorized, ClearedByGates
    <3>3. \E r \in reservations' : r.job = worker[w].job
      <4>1. CASE Limiter!Verdict(tx[w]) = "reserve"
        <5>1. Limiter!Row(tx[w]) \in reservations'
          BY <1>6, <4>1 DEF ReserveCommit, Limiter!Commit
        <5>2. Limiter!Row(tx[w]).job = worker[w].job
          BY <3>2 DEF Limiter!Row
        <5> QED BY <5>1, <5>2
      <4>2. CASE Limiter!Verdict(tx[w]) = "existing"
        <5>1. Limiter!AlreadyReserved(tx[w].job)
          BY <4>2 DEF Limiter!Verdict
        <5> QED BY <2>0, <3>2, <5>1 DEF Limiter!AlreadyReserved
      <4> QED BY <2>2, <4>1, <4>2 DEF Limiter!Granted
    <3>4. SubmittedIsAuthorized'
      BY <2>0 DEF Authorized, SubmittedIsAuthorized
    <3>5. ClearedByGates'
      BY <2>0, <3>1, <3>2, <3>3 DEF Authorized, ClearedByGates
    <3> QED BY <3>4, <3>5 DEF Authorized
  <2> QED BY <1>6, <2>1, <2>2 DEF ReserveCommit
<1>7. ASSUME NEW w \in Workers, Send(w) PROVE Authorized'
  <2> DEFINE j == worker[w].job
  <2>1. PICK report \in Outcomes : Goto(w, "record", report)
    BY <1>7 DEF Send
  <2>2. worker'[w].pc = "record" /\ \A v \in Workers \ {w} : worker'[v] = worker[v]
    BY <2>1, <1>a DEF Goto
  <2>3. UNCHANGED <<tx, reservations>>
    BY <1>7 DEF Send, limiterVars
  <2>4. j \in Cleared /\ \E r \in reservations : r.job = j
    BY <1>7 DEF Send, Authorized, ClearedByGates
  <2>5. j \in Jobs /\ \A i \in Jobs \ {j} : submissions'[i] = submissions[i]
    BY <1>7 DEF Send, CarrierOK, WorkersOK, WorkerState
  <2> HIDE DEF j
  <2>6. SubmittedIsAuthorized'
    BY <2>3, <2>4, <2>5 DEF Authorized, SubmittedIsAuthorized, Cleared
  <2>7. ClearedByGates'
    BY <2>2, <2>3 DEF Authorized, ClearedByGates
  <2> QED BY <2>6, <2>7 DEF Authorized
<1>8. ASSUME NEW w \in Workers, Crash(w) PROVE Authorized'
  <2>1. worker'[w].pc = "exit" /\ \A v \in Workers \ {w} : worker'[v] = worker[v]
    BY <1>8, <1>b DEF Crash
  <2>2. /\ UNCHANGED <<reservations, submissions>>
        /\ \A v \in Workers \ {w} : tx'[v] = tx[v]
    BY <1>8 DEF Crash, Limiter!Abort, Limiter!TypeOK, limiterVars, carrierVars
  <2> QED BY <2>1, <2>2, FrameAuthorized
<1> QED
  BY <1>1, <1>2, <1>3, <1>4, <1>5, <1>6, <1>7, <1>8 DEF Next, Environment, Step

-----------------------------------------------------------------------------

\* The runs that may still submit: each of them once.  "While paused, submissions
\* since <= runs then" alone is not inductive, for a run in progress could submit
\* again and again; the invariant charges every run that may still submit.
Unsent == {w \in Workers : worker[w].pc \in
             {"claim", "claiming", "gates", "reserve", "reserving", "send"}}
PauseInv ==
    /\ pause \in [runs : Nat, sends : Nat]
    /\ paused => pause.sends + Cardinality(Unsent) <= pause.runs

\* Nothing is paused and nobody runs at first.
LEMMA InitPause == StopsInit => PauseInv
BY DEF StopsInit, Init, PauseInv

\* How the set of runs that may still submit changes.
LEMMA UnsentSteps ==
    ASSUME TypeOK, [Next]_vars
    PROVE  /\ paused' # paused => UNCHANGED <<worker, submissions>>
           /\ paused /\ submissions' = submissions => Unsent' \subseteq Unsent
           /\ submissions' # submissions =>
                 /\ UNCHANGED paused
                 /\ \E w \in Unsent : Unsent' \subseteq Unsent \ {w}
<1> USE DEF TypeOK
<1>a. ASSUME NEW w \in Workers, NEW pc, NEW note, NEW j, Move(w, pc, j, note)
      PROVE  /\ \A v \in Workers \ {w} : worker'[v] = worker[v]
             /\ worker'[w].pc = pc
  BY <1>a DEF Move, WorkersOK
<1>b. ASSUME NEW w \in Workers, Exit(w)
      PROVE  /\ \A v \in Workers \ {w} : worker'[v] = worker[v]
             /\ worker'[w].pc = "exit"
  BY <1>b DEF Exit, WorkersOK, Idle
<1>c. ASSUME NEW w \in Workers, UNCHANGED <<paused, submissions>>,
             \A v \in Workers \ {w} : worker'[v] = worker[v],
             worker'[w].pc \in {"exit", "block", "record"} \/ w \in Unsent
      PROVE  Unsent' \subseteq Unsent
  BY <1>c DEF Unsent
<1> DEFINE P == /\ paused' # paused => UNCHANGED <<worker, submissions>>
                /\ paused /\ submissions' = submissions => Unsent' \subseteq Unsent
                /\ submissions' # submissions =>
                      /\ UNCHANGED paused
                      /\ \E w \in Unsent : Unsent' \subseteq Unsent \ {w}
<1> SUFFICES P
  OBVIOUS
<1>1. CASE Tick \/ SetPaused \/ (\E a \in Recipients : SetSuppressed(a)) \/ UNCHANGED vars
           \/ \E j \in Jobs : Enqueue(j) \/ DeliveryUpdate(j)
  <2>1. UNCHANGED <<worker, submissions>>
    BY <1>1 DEF Tick, SetPaused, SetSuppressed, Enqueue, DeliveryUpdate, vars, carrierVars
  <2> QED BY <2>1 DEF Unsent
<1>2. ASSUME NEW w \in Workers, Start(w) PROVE P
  BY <1>2 DEF Start, controlVars, carrierVars
<1>3. ASSUME NEW w \in Workers, ClaimLock(w) \/ ClaimCommit(w) \/ Gates(w) \/ ReserveBegin(w)
                                \/ ReserveCommit(w)
      PROVE  P
  <2>1. w \in Unsent
    BY <1>3 DEF Unsent, ClaimLock, ClaimCommit, Gates, ReserveBegin, ReserveCommit
  <2>2. \A v \in Workers \ {w} : worker'[v] = worker[v]
    BY <1>3, <1>a, <1>b DEF ClaimLock, ClaimCommit, Gates, ReserveBegin, ReserveCommit, Goto
  <2>3. UNCHANGED <<paused, submissions>>
    BY <1>3 DEF ClaimLock, ClaimCommit, Gates, ReserveBegin, ReserveCommit, controlVars, carrierVars
  <2> QED BY <1>c, <2>1, <2>2, <2>3
<1>4. ASSUME NEW w \in Workers, Send(w) PROVE P
  <2>1. w \in Unsent /\ UNCHANGED paused
    BY <1>4 DEF Unsent, Send, controlVars
  <2>2. PICK report \in Outcomes : Goto(w, "record", report)
    BY <1>4 DEF Send
  <2>3. worker'[w].pc = "record" /\ \A v \in Workers \ {w} : worker'[v] = worker[v]
    BY <2>2, <1>a DEF Goto
  <2>4. Unsent' \subseteq Unsent \ {w}
    BY <2>3 DEF Unsent
  <2> QED BY <2>1, <2>4
<1>5. ASSUME NEW w \in Workers, Block(w) \/ Retry(w) \/ Rejected(w) \/ Complete(w)
                                \/ ReconcileRequired(w) \/ Crash(w)
      PROVE  P
  <2>1. Exit(w) /\ UNCHANGED <<paused, submissions>>
    BY <1>5 DEF Block, Retry, Rejected, Complete, ReconcileRequired, Crash, Finish,
                controlVars, carrierVars
  <2> QED BY <1>b, <1>c, <2>1
<1> HIDE DEF P
<1> QED
  BY <1>1, <1>2, <1>3, <1>4, <1>5 DEF Next, Environment, Step

\* A pause counts the runs in progress; each submission after it uses one up.
LEMMA NextPause == TypeOK /\ PauseInv /\ [StopsNext]_stopVars => PauseInv'
<1> SUFFICES ASSUME TypeOK, PauseInv, [StopsNext]_stopVars PROVE PauseInv'
  OBVIOUS
<1>0. IsFiniteSet(Unsent) /\ Cardinality(Unsent) \in Nat
  BY FiniteWorkers, FS_Subset, FS_CardinalityType DEF Unsent
<1>1. CASE UNCHANGED stopVars
  BY <1>1 DEF stopVars, vars, controlVars, PauseInv, Unsent
<1>2. CASE StopsNext
  <2>0. NotePause /\ [Next]_vars
    BY <1>2 DEF StopsNext
  <2>1. CASE ~paused'
    <3>1. pause' = [runs |-> 0, sends |-> 0]
      BY <2>0, <2>1 DEF NotePause
    <3> QED BY <2>1, <3>1 DEF PauseInv
  <2>2. CASE paused' /\ ~paused
    <3>1. pause' = [runs |-> Cardinality(InProgress), sends |-> 0]
      BY <2>0, <2>2 DEF NotePause
    <3>2. Unsent' = Unsent
      BY <2>0, <2>2, UnsentSteps DEF Unsent
    <3>3. Unsent \subseteq InProgress /\ IsFiniteSet(InProgress)
      BY FiniteWorkers, FS_Subset DEF Unsent, InProgress
    <3>4. Cardinality(InProgress) \in Nat /\ Cardinality(Unsent) <= Cardinality(InProgress)
      BY <3>3, FS_Subset, FS_CardinalityType
    <3> QED BY <1>0, <3>1, <3>2, <3>4 DEF PauseInv
  <2>3. CASE paused' /\ paused /\ submissions' = submissions
    <3>1. pause' = pause
      BY <2>0, <2>3 DEF NotePause
    <3>2. Unsent' \subseteq Unsent
      BY <2>0, <2>3, UnsentSteps
    <3>3. Cardinality(Unsent') \in Nat /\ Cardinality(Unsent') <= Cardinality(Unsent)
      BY <1>0, <3>2, FS_Subset, FS_CardinalityType
    <3>4. paused => pause.sends + Cardinality(Unsent) <= pause.runs
      BY DEF PauseInv
    <3>5. Cardinality(Unsent)' = Cardinality(Unsent')
      OBVIOUS
    <3> QED BY <1>0, <2>3, <3>1, <3>3, <3>4 DEF PauseInv
  <2>4. CASE paused' /\ paused /\ submissions' # submissions
    <3>1. pause' = [pause EXCEPT !.sends = @ + 1]
      BY <2>0, <2>4 DEF NotePause
    <3>2. PICK w \in Unsent : Unsent' \subseteq Unsent \ {w}
      BY <2>0, <2>4, UnsentSteps
    <3>3. IsFiniteSet(Unsent \ {w}) /\ Cardinality(Unsent \ {w}) = Cardinality(Unsent) - 1
      BY <1>0, FS_RemoveElement
    <3>4. Cardinality(Unsent') \in Nat /\ Cardinality(Unsent') <= Cardinality(Unsent) - 1
      BY <3>2, <3>3, FS_Subset, FS_CardinalityType
    <3> QED BY <1>0, <2>4, <3>1, <3>4 DEF PauseInv
  <2> QED BY <2>1, <2>2, <2>3, <2>4
<1> QED BY <1>1, <1>2

-----------------------------------------------------------------------------
\* A stopped job is not past the gates while its stop is in force.
StopInv == \A j \in stopped : j \in Jobs /\ StopInForce(j) /\ ~PastGates(j)

LEMMA InitStop == StopsInit => StopInv
BY DEF StopsInit, StopInv

\* Only Gates() brings a job past the gates, and not one with a stop in force.
LEMMA GatesStop ==
    ASSUME TypeOK, [Next]_vars, NEW j \in Jobs, StopInForce(j), ~PastGates(j)
    PROVE  ~PastGates(j)'
<1> USE DEF TypeOK
<1> DEFINE Past == {"reserve", "reserving", "send"}
<1>a. ASSUME NEW w \in Workers, NEW pc, NEW note, NEW i, Move(w, pc, i, note)
      PROVE  /\ \A v \in Workers \ {w} : worker'[v] = worker[v]
             /\ worker'[w].pc = pc /\ worker'[w].job = i
  BY <1>a DEF Move, WorkersOK
<1>b. ASSUME NEW w \in Workers, Exit(w)
      PROVE  /\ \A v \in Workers \ {w} : worker'[v] = worker[v]
             /\ worker'[w].pc = "exit"
  BY <1>b DEF Exit, WorkersOK, Idle
<1>c. ASSUME NEW w \in Workers,
             \A v \in Workers \ {w} : worker'[v] = worker[v],
             worker'[w].pc \notin Past \/ (worker'[w].job = worker[w].job /\ worker[w].pc \in Past)
      PROVE  ~PastGates(j)'
  BY <1>c DEF PastGates
<1>1. CASE Tick \/ SetPaused \/ (\E a \in Recipients : SetSuppressed(a)) \/ UNCHANGED vars
           \/ \E i \in Jobs : Enqueue(i) \/ DeliveryUpdate(i)
  <2>1. UNCHANGED worker
    BY <1>1 DEF Tick, SetPaused, SetSuppressed, Enqueue, DeliveryUpdate, vars
  <2> QED BY <2>1 DEF PastGates
<1>2. ASSUME NEW w \in Workers, \/ Start(w) \/ ClaimLock(w) \/ ClaimCommit(w) \/ Send(w)
      PROVE  ~PastGates(j)'
  <2>1. worker'[w].pc \notin Past /\ \A v \in Workers \ {w} : worker'[v] = worker[v]
    BY <1>2, <1>a, <1>b DEF Start, ClaimLock, ClaimCommit, Send, Goto
  <2> QED BY <1>c, <2>1
<1>3. ASSUME NEW w \in Workers, ReserveBegin(w) \/ ReserveCommit(w)
      PROVE  ~PastGates(j)'
  <2>1. worker'[w].job = worker[w].job /\ \A v \in Workers \ {w} : worker'[v] = worker[v]
    BY <1>3, <1>a DEF ReserveBegin, ReserveCommit, Goto
  <2>2. worker[w].pc \in Past
    BY <1>3 DEF ReserveBegin, ReserveCommit
  <2> QED BY <1>c, <2>1, <2>2
<1>4. ASSUME NEW w \in Workers, Gates(w) PROVE ~PastGates(j)'
  <2>1. PICK pc, note : pc = (IF GateVerdict(worker[w].job) = "none" THEN "reserve" ELSE "block")
                        /\ Goto(w, pc, note)
    BY <1>4 DEF Gates
  <2>2. worker'[w].pc = pc /\ worker'[w].job = worker[w].job
        /\ \A v \in Workers \ {w} : worker'[v] = worker[v]
    BY <2>1, <1>a DEF Goto
  <2>3. CASE worker[w].job = j
    <3>1. GateVerdict(j) # "none"
      BY DEF StopInForce, GateVerdict
    <3> QED BY <1>c, <2>1, <2>2, <2>3, <3>1
  <2>4. CASE worker[w].job # j
    BY <2>2, <2>4 DEF PastGates
  <2> QED BY <2>3, <2>4
<1>5. ASSUME NEW w \in Workers, Block(w) \/ Retry(w) \/ Rejected(w) \/ Complete(w)
                                \/ ReconcileRequired(w) \/ Crash(w)
      PROVE  ~PastGates(j)'
  <2>1. Exit(w)
    BY <1>5 DEF Block, Retry, Rejected, Complete, ReconcileRequired, Crash, Finish
  <2> QED BY <1>b, <1>c, <2>1
<1> QED
  BY <1>1, <1>2, <1>3, <1>4, <1>5 DEF Next, Environment, Step

\* A job enters the stopped set before the gates and stays before them.
LEMMA NextStop == TypeOK /\ StopInv /\ [StopsNext]_stopVars => StopInv'
<1> SUFFICES ASSUME TypeOK, StopInv, [StopsNext]_stopVars PROVE StopInv'
  OBVIOUS
<1>1. CASE UNCHANGED stopVars
  BY <1>1 DEF stopVars, vars, controlVars, StopInv, StopInForce, PastGates
<1>2. CASE StopsNext
  <2>1. ASSUME NEW j \in stopped' PROVE j \in Jobs /\ StopInForce(j)' /\ ~PastGates(j)'
    <3>1. j \in Jobs /\ StopInForce(j)' /\ (j \in stopped \/ ~PastGates(j)')
      BY <1>2, <2>1 DEF StopsNext, NoteStop
    <3>2. CASE j \in stopped
      BY <1>2, <3>1, <3>2, GatesStop DEF StopsNext, StopInv
    <3> QED BY <3>1, <3>2
  <2> QED BY <2>1 DEF StopInv
<1> QED BY <1>1, <1>2

\* The history variables observe the queue and do not restrict it.
LEMMA StopsStep == [StopsNext]_stopVars => [Next]_vars
BY DEF StopsNext, stopVars, vars

\* Whatever is submitted passed the gates and holds a reservation, and while the
\* gateway is paused no more is submitted than there were runs in progress.
THEOREM GatesAndPauseHold == StopsSpec => []GatesHold
<1> DEFINE Inv == TypeOK /\ Authorized /\ PauseInv
<1>1. StopsInit => Inv
  BY InitType, InitAuthorized, InitPause DEF StopsInit
<1>2. Inv /\ [StopsNext]_stopVars => Inv'
  BY StopsStep, NextType, NextAuthorized, NextPause
<1>3. Inv => GatesHold
  <2>1. ASSUME PauseInv, paused PROVE pause.sends <= pause.runs
    <3>1. Cardinality(Unsent) \in Nat
      BY FiniteWorkers, FS_Subset, FS_CardinalityType DEF Unsent
    <3>2. pause.sends \in Nat /\ pause.runs \in Nat
      BY <2>1 DEF PauseInv
    <3> QED BY <2>1, <3>1, <3>2 DEF PauseInv
  <2> QED BY <2>1 DEF GatesHold, PauseEndsSending, Authorized
<1> QED BY <1>1, <1>2, <1>3, PTL DEF StopsSpec

\* A suppression in force before a job passes the gates keeps it from the carrier,
\* on this attempt and every later one.
THEOREM StopsAreObeyed == StopsSpec => StoppedStaysUnsent
<1> DEFINE Inv == TypeOK /\ StopInv
<1>1. StopsInit => Inv
  BY InitType, InitStop DEF StopsInit
<1>2. Inv /\ [StopsNext]_stopVars => Inv'
  BY StopsStep, NextType, NextStop
<1>3. Inv /\ [StopsNext]_stopVars =>
        [\A j \in stopped : submissions'[j] = submissions[j]]_stopVars
  <2> SUFFICES ASSUME Inv, [Next]_vars, NEW j \in stopped PROVE submissions'[j] = submissions[j]
    BY StopsStep
  <2>1. j \in Jobs /\ ~PastGates(j)
    BY DEF StopInv
  <2>2. ASSUME NEW w \in Workers, Send(w) PROVE submissions'[j] = submissions[j]
    BY <2>1, <2>2 DEF Send, PastGates, TypeOK, CarrierOK
  <2>3. CASE UNCHANGED submissions
    BY <2>3
  <2>4. CASE Tick \/ SetPaused \/ (\E a \in Recipients : SetSuppressed(a)) \/ UNCHANGED vars
             \/ \E i \in Jobs : Enqueue(i) \/ DeliveryUpdate(i)
    BY <2>3, <2>4 DEF Tick, SetPaused, SetSuppressed, Enqueue, DeliveryUpdate, vars, carrierVars
  <2>5. ASSUME NEW w \in Workers, Start(w) \/ ClaimLock(w) \/ ClaimCommit(w) \/ Gates(w)
                                  \/ ReserveBegin(w) \/ ReserveCommit(w)
                                  \/ Block(w) \/ Retry(w) \/ Rejected(w) \/ Complete(w)
                                  \/ ReconcileRequired(w) \/ Crash(w)
        PROVE  UNCHANGED submissions
    BY <2>5 DEF Start, ClaimLock, ClaimCommit, Gates, ReserveBegin, ReserveCommit, Block, Retry,
                Rejected, Complete, ReconcileRequired, Crash, Finish, carrierVars
  <2> QED BY <2>2, <2>3, <2>4, <2>5 DEF Next, Environment, Step
<1> QED BY <1>1, <1>2, <1>3, PTL DEF StopsSpec, StoppedStaysUnsent
=============================================================================

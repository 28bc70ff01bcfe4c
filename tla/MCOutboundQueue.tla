-------------------------- MODULE MCOutboundQueue --------------------------
(***************************************************************************)
(* TLC instances of OutboundQueue.  The jobs share one (provider, sender)  *)
(* pair, one provider adapter and one recipient, so that they compete for  *)
(* the same capacity and the same suppression.                             *)
(***************************************************************************)
EXTENDS OutboundQueue, TLC

CONSTANTS j1, j2, w1, w2, s1, a1

TwoJobs == {j1, j2}
OneWorker == {w1}
TwoWorkers == {w1, w2}
OneSender == [j \in Jobs |-> s1]
OneRecipient == [j \in Jobs |-> {a1}]

Bandwidth == [j \in Jobs |-> "bandwidth"]

\* Behaviours in which every run_once() is over within one tick: what goes wrong
\* here is not due to a slow worker.
PromptSpec == Init /\ [][Next /\ (Tick => \A w \in Workers : worker[w].pc = "exit")]_vars

WorkerSymmetry == Permutations(TwoWorkers)
=============================================================================

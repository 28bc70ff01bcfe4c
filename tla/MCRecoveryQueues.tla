-------------------------- MODULE MCRecoveryQueues --------------------------
(***************************************************************************)
(* The TLC instance of the two queues whose work is taken up again after a *)
(* failure: webhook receipts and telegrams.  They share no state: each     *)
(* behaviour is a behaviour of one of them, chosen at the start.           *)
(***************************************************************************)
EXTENDS MCWebhookIntake, TelegraphQueue

CONSTANTS w2, p1, p2

VARIABLE part   \* the queue this behaviour is about

QueuesInit == part \in {"receipts", "telegrams"} /\ Init /\ TgInit

\* The bodies are interchangeable: the first receipt is taken to hold b1.
FirstBody == received > 0 => receipt[1].body = b1

QueuesNext ==
  /\ UNCHANGED part
  /\ \/ part = "receipts" /\ Next /\ FirstBody' /\ UNCHANGED tgVars
     \/ part = "telegrams" /\ TgNext /\ UNCHANGED vars

\* The fairness of each queue, for the behaviours that are about it.
QueuesFairness ==
  /\ \A r \in Ids : WF_vars(part = "receipts" /\ BecomeDue(r))
  /\ \A w \in Workers : WF_vars(part = "receipts" /\ WorkerStep(w))
  /\ WF_tgVars(part = "telegrams" /\ TgTick)
  /\ \A w \in TgWorkers : WF_tgVars(part = "telegrams" /\ ProcessStep(w))
  /\ SF_tgVars(\E w \in TgWorkers : part = "telegrams" /\ ExpireFound(w))

QueuesSpec ==
  QueuesInit /\ [][QueuesNext]_<<part, vars, tgVars>> /\ QueuesFairness
=============================================================================

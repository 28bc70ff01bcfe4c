------------------------- MODULE MCOutboundRollout -------------------------
(***************************************************************************)
(* The TLC instance of the outbound queue and of the rollout of the mail   *)
(* gateway.  They share no state: each behaviour is about one part, chosen *)
(* at the start.                                                           *)
(*                                                                         *)
(* Queue: j1 and j2 with two workers.  Stops: j1, which may pass the gates,*)
(* j3, which the policy refuses, and j4, MMS with media, with one run at a *)
(* time.  Rollout: four runtime files, of which one may have no source,    *)
(* one may exist before and one is needed by the runtime entry point.  The *)
(* commands of a rollback fail where each script runs alone; together the  *)
(* scripts run where the suppression database exists and with rollbacks    *)
(* whose commands succeed.                                                 *)
(***************************************************************************)
EXTENDS OutboundStops, ApacheRoute, TLC

CONSTANTS j1, j2, j3, j4, w1, w2, s1, a1

VARIABLE part   \* what this behaviour is about

TwoWorkers == {w1, w2}
OneSender == [j \in Jobs |-> s1]
OneRecipient == [j \in Jobs |-> {a1}]
Bandwidth == [j \in Jobs |-> "bandwidth"]
SomeFiles == <<"audit", "nonces", "suppression", "config">>

OutboundInit ==
  /\ part \in {"queue", "stops", "migration", "route", "rollout"}
  /\ StopsInit /\ RolloutInit
  /\ part \in {"queue", "stops"} => rmFiles = {}
  /\ part = "rollout" => rmFiles # {}

\* The jobs that are enqueued in each part.
JobsOf == [queue |-> {j1, j2}, stops |-> {j1, j3, j4}]
Queued == {j \in Jobs : job[j].state # "absent"}

OneRun == \A v, w \in InProgress : v = w

OutboundNext ==
  /\ UNCHANGED part
  /\ \/ /\ part = "queue" /\ Next /\ Queued' \subseteq JobsOf.queue
        /\ UNCHANGED <<pause, stopped, rolloutVars>>
     \/ /\ part = "stops" /\ StopsNext /\ Queued' \subseteq JobsOf.stops /\ OneRun'
        /\ UNCHANGED rolloutVars
     \/ /\ part = "migration" /\ MigrationNext
        /\ UNCHANGED <<stopVars, arVars>>
     \/ /\ part = "route" /\ RouteNext
        /\ UNCHANGED <<stopVars, rmVars>>
     \/ /\ part = "rollout" /\ RolloutNext /\ ~rmTrouble' /\ ~arTrouble'
        /\ UNCHANGED stopVars

OutboundSpec == OutboundInit /\ [][OutboundNext]_<<part, stopVars, rolloutVars>>

WorkerSymmetry == Permutations(TwoWorkers)
=============================================================================

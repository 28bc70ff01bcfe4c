--------------------------- MODULE MCReconcilers ---------------------------
(***************************************************************************)
(* The TLC instance of the components that are brought up to date by a     *)
(* periodic run: delivery status, and VPN registration with its            *)
(* synchronisation.  Each behaviour is a behaviour of one of them, chosen  *)
(* at the start.                                                           *)
(*                                                                         *)
(* DeliveryStatus: three events for one message, two of them with the same *)
(* timestamp, and one event for another message.                           *)
(***************************************************************************)
EXTENDS DeliveryStatus, VpnSync, TLC

CONSTANTS h1, h2, w1, w2, m1, m2, e1, e2, e3, e4, i1

VARIABLE part   \* the component this behaviour is about

TwoHandlers == {h1, h2}
TwoWorkers == {w1, w2}
Message == [e \in Events |-> IF e = e4 THEN m2 ELSE m1]
Status == [e \in Events |-> IF e = e1 THEN "failed" ELSE
                            IF e = e2 THEN "delivered" ELSE "undelivered"]
Time == [e \in Events |-> IF e \in {e1, e2} THEN 1 ELSE 0]
Id == [e \in Events |-> (e1 :> 1 @@ e2 :> 2 @@ e3 :> 3 @@ e4 :> 4)[e]]

\* What the behaviour is not about has its timer off.
ReconcilersInit ==
  /\ part \in {"delivery", "sync"}
  /\ Init /\ LedgerInit /\ RegInit
  /\ sync = IF part = "sync" THEN SyncIdle ELSE [at |-> "off"]

ReconcilersNext ==
  /\ UNCHANGED part
  /\ \/ part = "delivery" /\ Next /\ UNCHANGED syncVars
     \/ part = "sync" /\ SyncNext /\ UNCHANGED vars

ReconcilersSpec ==
  /\ ReconcilersInit /\ [][ReconcilersNext]_<<part, vars, syncVars>>
  /\ Fairness /\ SyncFairness
=============================================================================

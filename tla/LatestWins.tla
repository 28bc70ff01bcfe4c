----------------------------- MODULE LatestWins -----------------------------
(***************************************************************************)
(* What the gateway's two out-of-order-safe registers promise              *)
(* (docs/compliance-keywords.md, docs/delivery-status.md): every item is   *)
(* accepted at most once, in whatever order items arrive, and a key always *)
(* shows the newest of the items accepted for it, by time and then by      *)
(* identifier.  Consent and DeliveryStatus implement this specification.   *)
(***************************************************************************)
EXTENDS Integers

CONSTANTS
    Items, Keys,
    KeyOf,   \* the key an item is about
    TimeOf,  \* when the item happened, by the carrier's clock
    IdOf,    \* the item's identifier, unique, which breaks ties
    None     \* what a key shows before any item

VARIABLES accepted, current

vars == <<accepted, current>>

Newer(i, j) ==
    \/ TimeOf[i] > TimeOf[j]
    \/ TimeOf[i] = TimeOf[j] /\ IdOf[i] > IdOf[j]

Of(k, S) == {i \in S : KeyOf[i] = k}
IsNewest(i, S) == i \in S /\ \A j \in S \ {i} : Newer(i, j)
Newest(S) == IF S = {} THEN None ELSE CHOOSE i \in S : IsNewest(i, S)

Init ==
    /\ accepted = {}
    /\ current = [k \in Keys |-> None]

Accept(i) ==
    /\ i \notin accepted
    /\ accepted' = accepted \cup {i}
    /\ current' = [current EXCEPT ![KeyOf[i]] = Newest(Of(KeyOf[i], accepted'))]

Next == \E i \in Items : Accept(i)

Spec == Init /\ [][Next]_vars
=============================================================================

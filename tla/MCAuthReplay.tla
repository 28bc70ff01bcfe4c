---------------------------- MODULE MCAuthReplay ----------------------------
(***************************************************************************)
(* The TLC instance of SecurityAuth for one question: is an assertion that *)
(* was used once denied as long as its times are accepted?                 *)
(***************************************************************************)
EXTENDS SecurityAuth

CONSTANTS proof, r1, r2

\* The assertion expires at once; the clock skew admits it for two seconds more.
EarlyExpiry == [a \in Assertions |-> 0]
=============================================================================

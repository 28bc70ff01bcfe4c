------------------------------ MODULE MCStores ------------------------------
(***************************************************************************)
(* The TLC instance of components that keep their state in the tables of a *)
(* database of their own. They share no state: each behaviour is a         *)
(* behaviour of one of them, chosen at the start, while the others stay in *)
(* their initial states.                                                   *)
(***************************************************************************)
EXTENDS SendRateLimiter, TurnState, SecurityAuth, VpnEnrollment,
        VpnRegistration, OperationsControl, PreparationNonces, TLC

CONSTANTS j1, j2, j3, j4, s1, s2, fen, gus, conv, k1, k2, why, proof,
          n1, n2   \* two processes or items of a component, interchangeable in each

VARIABLE part   \* the component this behaviour is about

\* SendRateLimiter: three jobs of a busy sender, and one job of another sender that
\* checks that the windows are kept apart.
BusySender == [j \in Jobs |-> IF j = j4 THEN s2 ELSE s1]

\* SecurityAuth: the assertion expires at once; the clock skew admits it for longer.
EarlyExpiry == [a \in Assertions |-> 0]

StoresInit ==
  /\ Init /\ TurnInit /\ AuthInit /\ EnrInit /\ RegInit /\ OpInit /\
     PnInit
  /\ part \in {"limiter", "turn", "auth", "enrollment", "registration",
               "operations", "preparation"}

StoresNext ==
  /\ UNCHANGED part
  /\ \/ /\ part = "limiter" /\ Next
        /\ UNCHANGED <<turnVars, authVars, enrVars, regVars, opVars, pnVars>>
     \/ /\ part = "turn" /\ TurnNext
        /\ UNCHANGED <<vars, authVars, enrVars, regVars, opVars, pnVars>>
     \/ /\ part = "auth" /\ AuthNext
        /\ UNCHANGED <<vars, turnVars, enrVars, regVars, opVars, pnVars>>
     \/ /\ part = "enrollment" /\ EnrNext
        /\ UNCHANGED <<vars, turnVars, authVars, regVars, opVars, pnVars>>
     \/ /\ part = "registration" /\ RegNext
        /\ UNCHANGED <<vars, turnVars, authVars, enrVars, opVars, pnVars>>
     \/ /\ part = "operations" /\ OpNext
        /\ UNCHANGED <<vars, turnVars, authVars, enrVars, regVars, pnVars>>
     \/ /\ part = "preparation" /\ PnNext
        /\ UNCHANGED <<vars, turnVars, authVars, enrVars, regVars, opVars>>

StoresSpec ==
  StoresInit /\ [][StoresNext]_<<part, vars, turnVars, authVars, enrVars, regVars, opVars, pnVars>>

StoresSymmetry == Permutations({n1, n2}) \union Permutations({k1, k2})
=============================================================================

---------------------------- MODULE MCHostFiles -----------------------------
(***************************************************************************)
(* The TLC instance of the components that keep their state in files and   *)
(* links of the host, and of the keyword compliance transactions. They     *)
(* share no state: each behaviour is a behaviour of one of them, chosen at *)
(* the start, while the others stay in their initial states.               *)
(***************************************************************************)
EXTENDS Consent, ReleaseController, MailPilot, CookieActivation,
        StagedProposals, CommsIngest, MediaQuarantine, RepositoryController,
        ConnectorSessions, ConnectorSignIn, TLC

CONSTANTS h1, h2, h3, stop1, start1, stop2, help, stop3, a1, a2, stage,
          n1, n2   \* two processes or items of a component, interchangeable in each

VARIABLE part   \* the component this behaviour is about

\* Consent: two decisions with the same timestamp, an earlier one and a HELP for
\* one address; a STOP for another.
Address == [c \in Commands |-> IF c = stop3 THEN a2 ELSE a1]
Action == [c \in Commands |-> IF c = help THEN "help"
                              ELSE IF c = start1 THEN "start" ELSE "stop"]
Time == stop1 :> 1 @@ start1 :> 1 @@ stop2 :> 0 @@ help :> 1 @@ stop3 :> 2
Id == stop1 :> 1 @@ start1 :> 2 @@ stop2 :> 3 @@ help :> 4 @@ stop3 :> 5

\* CommsIngest: one upstream article is refused by the store; two commits continue
\* the first one on branches of their own.
RefusedItems == {<<"nntp", "b">>}
Branches == <<{1}, {1, 2}, {1, 3}>>

\* RepositoryController: a request, another body under its id, and another request
\* for the same branch.
Bodies == {[request_id |-> "r", branch |-> "a", body |-> 1],
           [request_id |-> "r", branch |-> "b", body |-> 2],
           [request_id |-> "s", branch |-> "a", body |-> 3]}

HostInit ==
  /\ Init /\ RelInit /\ PilotInit /\ CookieInit /\ StagedInit /\ IngInit /\
     MqInit /\ RcInit /\ CgInit /\ SgInit
  /\ part \in {"consent", "release", "pilot", "cookie", "staged", "ingest",
               "quarantine", "repository", "connector", "signin"}
  /\ part # "ingest" => ingSources = {"git"}
  /\ part # "quarantine" => mqContent = "clean"

HostNext ==
  /\ UNCHANGED part
  /\ \/ /\ part = "consent" /\ Next
        /\ UNCHANGED <<relVars, pilotVars, cmVars, fsVars, ingVars, mqVars,
                       rcVars, cgVars, sgVars>>
     \/ /\ part = "release" /\ RelNext
        /\ UNCHANGED <<vars, pilotVars, cmVars, fsVars, ingVars, mqVars,
                       rcVars, cgVars, sgVars>>
     \/ /\ part = "pilot" /\ PilotNext
        /\ UNCHANGED <<vars, relVars, cmVars, fsVars, ingVars, mqVars,
                       rcVars, cgVars, sgVars>>
     \/ /\ part = "cookie" /\ CookieNext
        /\ UNCHANGED <<vars, relVars, pilotVars, fsVars, ingVars, mqVars,
                       rcVars, cgVars, sgVars>>
     \/ /\ part = "staged" /\ StagedNext
        /\ UNCHANGED <<vars, relVars, pilotVars, cmVars, ingVars, mqVars,
                       rcVars, cgVars, sgVars>>
     \/ /\ part = "ingest" /\ IngNext
        /\ UNCHANGED <<vars, relVars, pilotVars, cmVars, fsVars, mqVars,
                       rcVars, cgVars, sgVars>>
     \/ /\ part = "quarantine" /\ MqNext
        /\ UNCHANGED <<vars, relVars, pilotVars, cmVars, fsVars, ingVars,
                       rcVars, cgVars, sgVars>>
     \/ /\ part = "repository" /\ RcNext
        /\ UNCHANGED <<vars, relVars, pilotVars, cmVars, fsVars, ingVars,
                       mqVars, cgVars, sgVars>>
     \/ /\ part = "connector" /\ CgNext
        /\ UNCHANGED <<vars, relVars, pilotVars, cmVars, fsVars, ingVars,
                       mqVars, rcVars, sgVars>>
     \/ /\ part = "signin" /\ SgNext
        /\ UNCHANGED <<vars, relVars, pilotVars, cmVars, fsVars, ingVars,
                       mqVars, rcVars, cgVars>>

HostSpec ==
  HostInit /\ [][HostNext]_<<part, vars, relVars, pilotVars, cmVars, fsVars, ingVars, mqVars,
                             rcVars, cgVars, sgVars>>

HostSymmetry == Permutations({n1, n2})
=============================================================================

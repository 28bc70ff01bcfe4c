--------------------------- MODULE OutboundStops ---------------------------
(***************************************************************************)
(* What a pause and a suppression still achieve while workers run.  The    *)
(* worker reads each of them once (app/outbound_worker.py): the pause      *)
(* before its claim, the suppressions at the gates.  Two history variables *)
(* on top of OutboundQueue remember how far the runs had come when the     *)
(* operator or the subscriber said stop.                                   *)
(***************************************************************************)
EXTENDS OutboundQueue

ASSUME FiniteWorkers == IsFiniteSet(Workers)

VARIABLES
    pause,    \* runs in progress when the gateway was paused, submissions since
    stopped   \* jobs with a recipient that has been suppressed ever since a
              \* moment when the job was not past the gates

stopVars == <<vars, pause, stopped>>

InProgress == {w \in Workers : worker[w].pc # "exit"}
PastGates(j) ==
    \E w \in Workers :
        worker[w].job = j /\ worker[w].pc \in {"reserve", "reserving", "send"}
StopInForce(j) == RecipientsOf[j] \cap suppressed # {}

StopsInit == Init /\ pause = [runs |-> 0, sends |-> 0] /\ stopped = {}

NotePause ==
    pause' = IF ~paused'  THEN [runs |-> 0, sends |-> 0]
             ELSE IF ~paused THEN [runs |-> Cardinality(InProgress), sends |-> 0]
             ELSE IF submissions' # submissions THEN [pause EXCEPT !.sends = @ + 1]
             ELSE pause

NoteStop ==
    stopped' = {j \in Jobs : StopInForce(j)' /\ (j \in stopped \/ ~PastGates(j)')}

StopsNext == Next /\ NotePause /\ NoteStop

StopsSpec == StopsInit /\ [][StopsNext]_stopVars

-----------------------------------------------------------------------------
\* "Global pause [...] enforcement before provider submission": runs that had
\* begun before the pause may still submit, each of them once; nothing else is
\* submitted until the gateway is resumed, whatever crashes and is started anew.
PauseEndsSending == paused => pause.sends <= pause.runs

\* No submission gets around the gates or the pause.
GatesHold == SubmittedIsAuthorized /\ PauseEndsSending

\* A STOP that is in force before a job passes the gates stops it for good: no
\* later retry or run of another worker submits it while the STOP stays.
StoppedStaysUnsent ==
    [][\A j \in stopped : submissions'[j] = submissions[j]]_stopVars
=============================================================================

--------------------------- MODULE DeliveryStatus ---------------------------
(***************************************************************************)
(* Delivery callbacks: PostgresDeliveryStatusStore (app/delivery_status.py)*)
(* behind the delivery route (app/delivery_router.py), and the one-shot    *)
(* reconciler (app/delivery_worker.py).                                    *)
(*                                                                         *)
(* A callback may overtake the outbound worker's own write of the carrier's*)
(* message id, and callbacks overtake each other.  A transaction is one    *)
(* step per statement that can wait for, or be overtaken by, another       *)
(* transaction; what it writes is visible from its commit.                 *)
(***************************************************************************)
EXTENDS Integers

CONSTANTS
    Handlers,    \* gateway processes that call put_if_absent()
    Workers,     \* reconcile_one() runs
    Messages,    \* provider_message_ids the carrier has handed out
    Events,      \* provider_event_ids of delivery callbacks
    MessageOf, StatusOf,
    TimeOf,      \* occurred_at
    IdOf,        \* provider_event_id as it is ordered by the database
    NoEvent, NoMessage

FinalStatuses == {"delivered", "failed", "undelivered"}

ASSUME EventAssumption ==
    /\ MessageOf \in [Events -> Messages]
    /\ StatusOf \in [Events -> FinalStatuses]
    /\ TimeOf \in [Events -> Nat]
    /\ IdOf \in [Events -> Nat]
    /\ \A e, f \in Events : IdOf[e] = IdOf[f] => e = f
    /\ NoEvent \notin Events
    /\ NoMessage \notin Messages

VARIABLES
    row,      \* row[e]: row of messaging_delivery_events
    state,    \* state[m]: row of messaging_delivery_state
    message,  \* message[m]: the outbound messages row the id belongs to
    handler,  \* handler[h]: an open put_if_absent() transaction
    worker    \* worker[w]: a reconcile_one() run

vars == <<row, state, message, handler, worker>>

Row == [stored : BOOLEAN, applied : BOOLEAN, matched : BOOLEAN]
State == [source : Events \cup {NoEvent}, matched : BOOLEAN]
MessageRow == [known : BOOLEAN,   \* provider_message_id is stored
               status : {"queued", "sent"} \cup FinalStatuses]
HandlerState == [pc : {"idle", "state", "message", "commit"},
                 event : Events \cup {NoEvent}, applied : BOOLEAN, matched : BOOLEAN]
WorkerState == [pc : {"exit", "select", "write"},
                message : Messages \cup {NoMessage},
                status : {"none"} \cup FinalStatuses]

TypeOK ==
    /\ row \in [Events -> Row]
    /\ state \in [Messages -> State]
    /\ message \in [Messages -> MessageRow]
    /\ handler \in [Handlers -> HandlerState]
    /\ worker \in [Workers -> WorkerState]
    /\ \A h \in Handlers : handler[h].pc = "idle" <=> handler[h].event = NoEvent
    /\ \A w \in Workers : worker[w].pc = "write" <=> worker[w].message # NoMessage

IdleHandler == [pc |-> "idle", event |-> NoEvent, applied |-> FALSE, matched |-> FALSE]
IdleWorker == [pc |-> "exit", message |-> NoMessage, status |-> "none"]

Init ==
    /\ row = [e \in Events |-> [stored |-> FALSE, applied |-> FALSE, matched |-> FALSE]]
    /\ state = [m \in Messages |-> [source |-> NoEvent, matched |-> FALSE]]
    /\ message = [m \in Messages |-> [known |-> FALSE, status |-> "queued"]]
    /\ handler = [h \in Handlers |-> IdleHandler]
    /\ worker = [w \in Workers |-> IdleWorker]

-----------------------------------------------------------------------------
(* Row locks.  No transaction waits for a messages row: put_if_absent()    *)
(* and reconcile_one() reach it only under the lock of its state row, and  *)
(* complete_outbound_job() writes it only while no WHERE clause matches it.*)

EventLocked(e) == \E h \in Handlers : handler[h].event = e

\* Mutant of StateLocked: reconcile_one() reads without FOR UPDATE.
StateLockedByHandler(m) ==
    \E h \in Handlers : handler[h].pc \in {"message", "commit"} /\ MessageOf[handler[h].event] = m

StateLocked(m) ==
    \/ \E h \in Handlers : /\ handler[h].pc \in {"message", "commit"}
                           /\ MessageOf[handler[h].event] = m
    \/ \E w \in Workers : worker[w].message = m

-----------------------------------------------------------------------------
(* put_if_absent(), for a verified and well-formed callback.               *)

\* INSERT INTO messaging_delivery_events ... ON CONFLICT DO NOTHING: the replay
\* of a committed event is a duplicate and changes nothing.
Insert(h, e) ==
    /\ handler[h].pc = "idle"
    /\ ~EventLocked(e)
    /\ ~row[e].stored
    /\ handler' = [handler EXCEPT ![h] = [IdleHandler EXCEPT !.pc = "state", !.event = e]]
    /\ UNCHANGED <<row, state, message, worker>>

\* Mutant of Supersedes: the callback that arrives last wins.
SupersedesAlways(e, f) == TRUE

\* The WHERE clause of ON CONFLICT (provider, provider_message_id) DO UPDATE.
Supersedes(e, f) ==
    \/ f = NoEvent
    \/ TimeOf[e] > TimeOf[f]
    \/ TimeOf[e] = TimeOf[f] /\ IdOf[e] > IdOf[f]

\* INSERT INTO messaging_delivery_state ... RETURNING.
Upsert(h) ==
    LET e == handler[h].event
        m == MessageOf[e]
    IN
    /\ handler[h].pc = "state"
    /\ ~StateLocked(m)
    /\ handler' = [handler EXCEPT ![h].pc = "message",
                                  ![h].applied = Supersedes(e, state[m].source)]
    /\ UNCHANGED <<row, state, message, worker>>

\* UPDATE messages ... WHERE provider_message_id = m: a statement of its own,
\* it sees what is committed now.
Match(h) ==
    /\ handler[h].pc = "message"
    /\ handler' = [handler EXCEPT
                     ![h].pc = "commit",
                     ![h].matched = /\ handler[h].applied
                                    /\ message[MessageOf[handler[h].event]].known]
    /\ UNCHANGED <<row, state, message, worker>>

EventRow(h) == [stored |-> TRUE, applied |-> handler[h].applied, matched |-> handler[h].matched]

Commit(h) ==
    LET e == handler[h].event
        m == MessageOf[e]
    IN
    /\ handler[h].pc = "commit"
    /\ row' = [row EXCEPT ![e] = EventRow(h)]
    /\ state' = IF handler[h].applied
                THEN [state EXCEPT ![m] = [source |-> e,
                                           matched |-> @.matched \/ handler[h].matched]]
                ELSE state
    /\ message' = IF handler[h].matched THEN [message EXCEPT ![m].status = StatusOf[e]]
                                        ELSE message
    /\ handler' = [handler EXCEPT ![h] = IdleHandler]
    /\ UNCHANGED worker

HandlerFails(h) ==
    /\ handler[h].pc # "idle"
    /\ handler' = [handler EXCEPT ![h] = IdleHandler]
    /\ UNCHANGED <<row, state, message, worker>>

-----------------------------------------------------------------------------
\* complete_outbound_job() of the outbound worker stores the carrier's id.
Complete(m) ==
    /\ ~message[m].known
    /\ message' = [message EXCEPT ![m] = [known |-> TRUE, status |-> "sent"]]
    /\ UNCHANGED <<row, state, handler, worker>>

-----------------------------------------------------------------------------
(* reconcile_one().                                                        *)

WorkerStart(w) ==
    /\ worker[w].pc = "exit"
    /\ worker' = [worker EXCEPT ![w].pc = "select"]
    /\ UNCHANGED <<row, state, message, handler>>

\* Mutant of Candidates: LIMIT 1 comes before the join, so that an unmatched
\* state without a message is selected, in vain, again and again.
CandidatesOldest ==
    LET unmatched == {m \in Messages : /\ state[m].source # NoEvent
                                       /\ ~state[m].matched
                                       /\ ~StateLocked(m)}
    IN  {m \in unmatched : \A n \in unmatched : message[n].known}

\* Unmatched states whose message is known, FOR UPDATE OF s SKIP LOCKED.
Candidates == {m \in Messages : /\ state[m].source # NoEvent
                                /\ ~state[m].matched
                                /\ message[m].known
                                /\ ~StateLocked(m)}

\* Which candidate goes first (ORDER BY) is left open.
Select(w) ==
    /\ worker[w].pc = "select"
    /\ \/ \E m \in Candidates :
            worker' = [worker EXCEPT ![w] = [pc |-> "write", message |-> m,
                                             status |-> StatusOf[state[m].source]]]
       \/ Candidates = {} /\ worker' = [worker EXCEPT ![w] = IdleWorker]
    /\ UNCHANGED <<row, state, message, handler>>

\* The three UPDATEs and the commit.
Reconcile(w) ==
    LET m == worker[w].message IN
    /\ worker[w].pc = "write"
    /\ message' = [message EXCEPT ![m].status = worker[w].status]
    /\ state' = [state EXCEPT ![m].matched = TRUE]
    /\ row' = [e \in Events |->
                 IF MessageOf[e] = m /\ row[e].applied THEN [row[e] EXCEPT !.matched = TRUE]
                                                       ELSE row[e]]
    /\ worker' = [worker EXCEPT ![w] = IdleWorker]
    /\ UNCHANGED handler

WorkerFails(w) ==
    /\ worker[w].pc # "exit"
    /\ worker' = [worker EXCEPT ![w] = IdleWorker]
    /\ UNCHANGED <<row, state, message, handler>>

HandlerStep(h) == Upsert(h) \/ Match(h) \/ Commit(h)
WorkerStep(w) == Select(w) \/ Reconcile(w)

Next ==
    \/ \E h \in Handlers :
         \/ \E e \in Events : Insert(h, e)
         \/ HandlerStep(h) \/ HandlerFails(h)
    \/ \E w \in Workers : WorkerStart(w) \/ WorkerStep(w) \/ WorkerFails(w)
    \/ \E m \in Messages : Complete(m)

Spec == Init /\ [][Next]_vars

\* Open transactions and started runs are executed; nothing obliges anybody to
\* start a run, a carrier to call back or the outbound worker to complete.
Fairness ==
    /\ \A h \in Handlers : WF_vars(HandlerStep(h))
    /\ \A w \in Workers : WF_vars(WorkerStep(w))

FairSpec == Spec /\ Fairness

-----------------------------------------------------------------------------
(* Properties.                                                             *)

\* A matched message shows the newest delivery event, and a message that is
\* known to the carrier's callbacks but not matched still shows 'sent' and is
\* left for reconcile_one(): no interleaving of callbacks, the reconciler and
\* the outbound worker loses a status or brings an older one back.
MessageShowsCurrent ==
    \A m \in Messages :
        /\ state[m].matched =>
             message[m].known /\ message[m].status = StatusOf[state[m].source]
        /\ ~state[m].matched => message[m].status \notin FinalStatuses

\* The event rows are honest: the event in force is marked applied, a stale
\* event was overtaken by a newer one, only known messages are matched.
EventRowsAreHonest ==
    /\ \A m \in Messages : state[m].source # NoEvent => row[state[m].source].applied
    /\ \A e \in Events :
         /\ row[e].stored /\ ~row[e].applied =>
              /\ state[MessageOf[e]].source # NoEvent
              /\ Supersedes(state[MessageOf[e]].source, e)
         /\ row[e].matched => row[e].applied /\ message[MessageOf[e]].known

\* Messages, delivery state and event rows agree after every commit.
StatusIsTrue == TypeOK /\ MessageShowsCurrent /\ EventRowsAreHonest

\* messaging_delivery_state shows the newest event ever stored for the message,
\* whatever order the callbacks arrived in.
Latest == INSTANCE LatestWins WITH
    Items <- Events, Keys <- Messages, KeyOf <- MessageOf, None <- NoEvent,
    accepted <- {e \in Events : row[e].stored},
    current <- [m \in Messages |-> state[m].source]
ImplementsLatestWins == Latest!Spec

\* No early callback is lost: if reconcile runs keep being started, and runs and
\* callbacks eventually stop failing (a failing callback holds the row's lock,
\* which the reconciler skips), a known message with a delivery event comes to
\* show it, and a callback without a message cannot starve it.  A failure that
\* does what the code's own next step would do is none.
EventuallyShown ==
    (/\ []<><<\E w \in Workers : WorkerStart(w)>>_vars
     /\ <>[][\A w \in Workers : WorkerFails(w) => WorkerStep(w)]_vars
     /\ <>[][\A h \in Handlers : ~HandlerFails(h)]_vars)
    => \A m \in Messages :
         (message[m].known /\ state[m].source # NoEvent)
         ~> (message[m].status \in FinalStatuses)
=============================================================================

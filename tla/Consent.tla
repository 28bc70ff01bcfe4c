------------------------------ MODULE Consent ------------------------------
(***************************************************************************)
(* STOP, START and HELP: put_if_absent() and _record_inbound_compliance()  *)
(* (app/persistence.py), the keyword classes of app/compliance.py and the  *)
(* suppressions table the outbound worker enforces.                        *)
(*                                                                         *)
(* A command is an accepted inbound SMS whose text is a keyword.  Commands *)
(* arrive late, out of order and more than once, through several web       *)
(* processes and recovery workers at the same time.  The transaction is    *)
(* three steps, one per statement that can wait for another transaction's  *)
(* row lock; what it writes is visible from its commit.                    *)
(***************************************************************************)
EXTENDS Integers

CONSTANTS
    Handlers,   \* processes that call put_if_absent()
    Commands,   \* (provider, provider_event_id) of keyword messages
    Addresses, AddressOf,
    ActionOf,   \* classify_compliance_keyword() of the message text
    TimeOf,     \* occurred_at, from the carrier
    IdOf,       \* event_id as text
    NoCommand

ASSUME CommandAssumption ==
    /\ AddressOf \in [Commands -> Addresses]
    /\ ActionOf \in [Commands -> {"stop", "start", "help"}]
    /\ TimeOf \in [Commands -> Nat]
    /\ IdOf \in [Commands -> Nat]
    /\ \A c, d \in Commands : IdOf[c] = IdOf[d] => c = d
    /\ NoCommand \notin Commands

VARIABLES
    logged,       \* logged[c]: row of messaging_compliance_events (and _events)
    consent,      \* consent[a]: row of messaging_consent_state
    suppression,  \* suppression[a]: reason class of the suppressions row
    handler       \* handler[h]: an open put_if_absent() transaction

vars == <<logged, consent, suppression, handler>>

Decisions == {c \in Commands : ActionOf[c] \in {"stop", "start"}}
ConsentRow == [state : {"none", "active", "suppressed"},
               source : Commands \cup {NoCommand}]
HandlerState == [pc : {"idle", "decide", "commit"},
                 cmd : Commands \cup {NoCommand}, applied : BOOLEAN]

TypeOK ==
    /\ logged \in [Commands -> {"absent", "applied", "stale"}]
    /\ consent \in [Addresses -> ConsentRow]
    /\ suppression \in [Addresses -> {"none", "keyword", "manual"}]
    /\ handler \in [Handlers -> HandlerState]
    /\ \A h \in Handlers : handler[h].pc = "idle" <=> handler[h].cmd = NoCommand

Idle == [pc |-> "idle", cmd |-> NoCommand, applied |-> FALSE]

Init ==
    /\ logged = [c \in Commands |-> "absent"]
    /\ consent = [a \in Addresses |-> [state |-> "none", source |-> NoCommand]]
    /\ suppression = [a \in Addresses |-> "none"]
    /\ handler = [h \in Handlers |-> Idle]

-----------------------------------------------------------------------------
(* put_if_absent() with _record_inbound_compliance().                      *)

\* An uncommitted INSERT of the same event makes a second one wait; so does the
\* consent row of the address, from the upsert (applied or not) to the commit.
EventLocked(c) == \E h \in Handlers : handler[h].cmd = c

\* Mutant of ConsentLocked: state is read and compared without a row lock.
NeverLocked(a) == FALSE

ConsentLocked(a) ==
    \E h \in Handlers : /\ handler[h].pc = "commit"
                        /\ handler[h].cmd \in Decisions
                        /\ AddressOf[handler[h].cmd] = a

\* INSERT INTO messaging_events ... ON CONFLICT DO NOTHING: a replay of a
\* committed event returns False and changes nothing.
Insert(h, c) ==
    /\ handler[h].pc = "idle"
    /\ ~EventLocked(c)
    /\ logged[c] = "absent"
    /\ handler' = [handler EXCEPT ![h] =
                     [pc |-> IF c \in Decisions THEN "decide" ELSE "commit",
                      cmd |-> c, applied |-> TRUE]]
    /\ UNCHANGED <<logged, consent, suppression>>

\* The WHERE clause of ON CONFLICT (address) DO UPDATE.
Supersedes(c, d) ==
    \/ d = NoCommand
    \/ TimeOf[c] > TimeOf[d]
    \/ TimeOf[c] = TimeOf[d] /\ IdOf[c] > IdOf[d]

\* INSERT INTO messaging_consent_state ... RETURNING state.
Decide(h) ==
    LET c == handler[h].cmd
        a == AddressOf[c]
    IN
    /\ handler[h].pc = "decide"
    /\ ~ConsentLocked(a)
    /\ handler' = [handler EXCEPT ![h].pc = "commit",
                                  ![h].applied = Supersedes(c, consent[a].source)]
    /\ UNCHANGED <<logged, consent, suppression>>

\* Mutants: START deletes whatever suppression it finds; suppressions follow the
\* message, applied or not.
EnforceAny(action, reason) ==
    CASE action = "stop" /\ reason = "none" -> "keyword"
      [] action = "start" -> "none"
      [] OTHER -> reason
AppliesAlways(h) == handler[h].cmd \in Decisions

\* STOP inserts a keyword suppression or refreshes one, START deletes one;
\* other reasons stay as they are.
Enforce(action, reason) ==
    CASE action = "stop" /\ reason = "none" -> "keyword"
      [] action = "start" /\ reason = "keyword" -> "none"
      [] OTHER -> reason

Applies(h) == handler[h].applied /\ handler[h].cmd \in Decisions

Audit(h) == IF handler[h].applied THEN "applied" ELSE "stale"

\* The suppression, the audit row and the commit.
Commit(h) ==
    LET c == handler[h].cmd
        a == AddressOf[c]
    IN
    /\ handler[h].pc = "commit"
    /\ logged' = [logged EXCEPT ![c] = Audit(h)]
    /\ consent' = IF handler[h].applied /\ c \in Decisions
                  THEN [consent EXCEPT ![a] =
                          [state |-> IF ActionOf[c] = "stop" THEN "suppressed" ELSE "active",
                           source |-> c]]
                  ELSE consent
    /\ suppression' = IF Applies(h)
                      THEN [suppression EXCEPT ![a] = Enforce(ActionOf[c], @)]
                      ELSE suppression
    /\ handler' = [handler EXCEPT ![h] = Idle]

\* The process dies or a statement fails: everything rolls back.
Abort(h) ==
    /\ handler[h].pc # "idle"
    /\ handler' = [handler EXCEPT ![h] = Idle]
    /\ UNCHANGED <<logged, consent, suppression>>

\* An operator suppresses the address for a reason of its own (no code in the
\* repository does; START and STOP provide for it).
ManualSuppress(a) ==
    /\ suppression[a] # "manual"
    /\ suppression' = [suppression EXCEPT ![a] = "manual"]
    /\ UNCHANGED <<logged, consent, handler>>

Next ==
    \/ \E h \in Handlers :
         \/ \E c \in Commands : Insert(h, c)
         \/ Decide(h) \/ Commit(h) \/ Abort(h)
    \/ \E a \in Addresses : ManualSuppress(a)

Spec == Init /\ [][Next]_vars

-----------------------------------------------------------------------------
(* Properties.                                                             *)

\* The outbound worker enforces the newest decision: an address whose newest
\* STOP or START is a STOP is in the suppressions table, and no keyword
\* suppression outlives a START, although two tables are written by concurrent,
\* late and repeated commands.
NewestDecisionIsEnforced ==
    \A a \in Addresses :
        /\ consent[a].state = "suppressed" => suppression[a] # "none"
        /\ consent[a].state # "suppressed" => suppression[a] # "keyword"

\* The audit trail is honest: a command marked stale was overtaken by a newer
\* applied one, and the decision in force is an applied one.
AuditIsHonest ==
    /\ \A c \in Commands : logged[c] = "stale" =>
         LET d == consent[AddressOf[c]].source IN
         c \in Decisions /\ d # NoCommand /\ Supersedes(d, c)
    /\ \A a \in Addresses : consent[a].source # NoCommand =>
         logged[consent[a].source] = "applied"

\* A keyword command never touches a suppression an operator set.
ManualSuppressionStays ==
    [][\A a \in Addresses : suppression[a] = "manual" => suppression'[a] = "manual"]_vars

\* messaging_consent_state shows the newest of all STOP and START commands ever
\* committed for the address, whatever order they arrived in.
Latest == INSTANCE LatestWins WITH
    Items <- Decisions, Keys <- Addresses,
    KeyOf <- [c \in Decisions |-> AddressOf[c]],
    TimeOf <- [c \in Decisions |-> TimeOf[c]],
    IdOf <- [c \in Decisions |-> IdOf[c]],
    None <- NoCommand,
    accepted <- {c \in Decisions : logged[c] # "absent"},
    current <- [a \in Addresses |-> consent[a].source]
ImplementsLatestWins == Latest!Spec
=============================================================================

------------------------- MODULE ConnectorSessions -------------------------
(***************************************************************************)
(* MCP sessions of the Business159 connector gateway                       *)
(* (server/business159_claude_gateway.py): SessionPool, ChildSession and   *)
(* the handler of /mcp.  A session is a child process; handler threads     *)
(* write to its stdin, a reader thread files its answers by message id and *)
(* the threads wait for theirs.                                            *)
(*                                                                         *)
(* What is done under the pool's lock is one step; closing a child happens *)
(* after the lock is released, except when a new session evicts one.       *)
(***************************************************************************)
EXTENDS Naturals, Sequences, FiniteSets

CONSTANTS
  CgThreads,     \* handler threads, and the reaper
  CgIds,         \* message ids that clients use
  NoId,          \* a notification has none
  MaxPool,       \* max_sessions
  MaxChildren, MaxMessages   \* bounds

ASSUME CgAssumption ==
  MaxPool \in Nat \ {0} /\ MaxChildren \in Nat /\ NoId \notin CgIds

VARIABLES
  cgPool,      \* SessionPool.sessions
  cgRecent,    \* the children in the order of their last_used, oldest first
  cgProc,      \* child -> "none", "running", "dead"
  cgEof,       \* children whose reader thread has ended
  cgInbox,     \* child -> messages it has not answered: <<id, number>>
  cgResponses, \* child -> [id -> number of the message answered, 0 for none]
  cgThread,    \* what each thread is doing
  cgMessages,  \* messages sent
  cgDelivered  \* history: <<message, message whose answer it was given>>

cgVars == <<cgPool, cgRecent, cgProc, cgEof, cgInbox, cgResponses,
            cgThread, cgMessages, cgDelivered>>
cgChildren == <<cgProc, cgEof, cgInbox, cgResponses>>

Children == 1..MaxChildren
CgIdle == [at |-> "idle"]
CgSet(t, state) == cgThread' = [cgThread EXCEPT ![t] = state]
\* The drops of a thread, and what it goes on with.
Dropping(which, then) == [at |-> "drop", todo |-> which, then |-> then]
\* A client does not use an id again while a request with it is open.
Open(s, id) == \E t \in CgThreads : "id" \in DOMAIN cgThread[t] /\
                                    cgThread[t].s = s /\ cgThread[t].id = id
Waiting(s) == \E t \in CgThreads : cgThread[t].at = "wait" /\ cgThread[t].s = s
----------------------------------------------------------------------------
CgInit ==
  /\ cgPool = {} /\ cgRecent = <<>> /\ cgEof = {}
  /\ cgProc = [s \in Children |-> "none"]
  /\ cgInbox = [s \in Children |-> {}]
  /\ cgResponses = [s \in Children |-> [i \in CgIds |-> 0]]
  /\ cgThread = [t \in CgThreads |-> CgIdle]
  /\ cgMessages = 0 /\ cgDelivered = {}

\* reap() by the reaper or by create(): dead children, and sessions that were
\* idle for session_idle, which is longer than a call may take.
ReapList(t, then) ==
  /\ cgThread[t] = CgIdle
  /\ \E idle \in SUBSET {s \in cgPool : ~Waiting(s)} :
       CgSet(t, Dropping(idle \cup {s \in cgPool : cgProc[s] = "dead"}, then))
  /\ UNCHANGED <<cgPool, cgRecent, cgChildren, cgMessages, cgDelivered>>

\* drop(): only the thread that takes the session out of the pool closes it.
DropSession(t) ==
  /\ cgThread[t].at = "drop"
  /\ IF cgThread[t].todo = {}
     THEN CgSet(t, cgThread[t].then) /\ UNCHANGED cgPool
     ELSE \E s \in cgThread[t].todo :
            LET rest == [cgThread[t] EXCEPT !.todo = @ \ {s}] IN
            /\ cgPool' = cgPool \ {s}
            /\ CgSet(t, IF s \in cgPool THEN [at |-> "close", close |-> s, rest |-> rest]
                        ELSE rest)
  /\ UNCHANGED <<cgRecent, cgChildren, cgMessages, cgDelivered>>

\* close(): terminate or kill.
CloseChild(t) ==
  /\ cgThread[t].at = "close"
  /\ cgProc' = [cgProc EXCEPT ![cgThread[t].close] = "dead"]
  /\ CgSet(t, cgThread[t].rest)
  /\ UNCHANGED <<cgPool, cgRecent, cgEof, cgInbox, cgResponses, cgMessages, cgDelivered>>

\* The session of the pool that was used least recently.
Oldest(pool) ==
  {s \in pool : \E i \in DOMAIN cgRecent : cgRecent[i] = s /\ \A j \in 1..(i - 1) : cgRecent[j] \notin pool}

\* What create() pops and closes: one session when the pool is full.
Evicted == IF Cardinality(cgPool) >= MaxPool THEN {{s} : s \in Oldest(cgPool)} ELSE {{}}

\* The rest of create(), under the lock.
CreateSession(t) ==
  LET new == Cardinality({s \in Children : cgProc[s] # "none"}) + 1 IN
  /\ cgThread[t].at = "create" /\ new \in Children
  /\ \E out \in Evicted :
       /\ cgPool' = (cgPool \ out) \cup {new}
       /\ cgProc' = [s \in Children |-> IF s = new THEN "running"
                                        ELSE IF s \in out THEN "dead" ELSE cgProc[s]]
  /\ cgRecent' = Append(cgRecent, new)
  /\ CgSet(t, [at |-> "send", s |-> new, id |-> cgThread[t].first])
  /\ UNCHANGED <<cgEof, cgInbox, cgResponses, cgMessages, cgDelivered>>

\* mcp_post() for any other message: get() drops a session whose child is dead.
BeginMessage(t, s, id) ==
  /\ cgThread[t] = CgIdle /\ s \in cgPool /\ ~Open(s, id)
  /\ CgSet(t, IF cgProc[s] = "dead" THEN Dropping({s}, CgIdle)
              ELSE [at |-> "send", s |-> s, id |-> id])
  /\ UNCHANGED <<cgPool, cgRecent, cgChildren, cgMessages, cgDelivered>>

DeleteSession(t, s) ==
  /\ cgThread[t] = CgIdle
  /\ CgSet(t, Dropping({s}, CgIdle))
  /\ UNCHANGED <<cgPool, cgRecent, cgChildren, cgMessages, cgDelivered>>

\* send(): a write to a dead child raises, and nothing above handles it.
SendMessage(t) ==
  LET s == cgThread[t].s
      id == cgThread[t].id
      no == cgMessages + 1
  IN
  /\ cgThread[t].at = "send" /\ cgMessages < MaxMessages
  /\ IF cgProc[s] = "dead"
     THEN CgSet(t, CgIdle) /\ UNCHANGED <<cgInbox, cgRecent, cgMessages>>
     ELSE /\ cgRecent' = Append(SelectSeq(cgRecent, LAMBDA x : x # s), s)
          /\ cgMessages' = no
          /\ IF id = NoId THEN CgSet(t, CgIdle) /\ UNCHANGED cgInbox
             ELSE /\ cgInbox' = [cgInbox EXCEPT ![s] = @ \cup {<<id, no>>}]
                  /\ CgSet(t, [at |-> "wait", s |-> s, id |-> id, no |-> no])
  /\ UNCHANGED <<cgPool, cgProc, cgEof, cgResponses, cgDelivered>>

\* request(): the answer filed under the id.
TakeResponse(t) ==
  LET s == cgThread[t].s
      id == cgThread[t].id
  IN
  /\ cgThread[t].at = "wait" /\ cgResponses[s][id] # 0
  /\ cgDelivered' = cgDelivered \cup {<<cgThread[t].no, cgResponses[s][id]>>}
  /\ cgResponses' = [cgResponses EXCEPT ![s][id] = 0]
  /\ cgRecent' = Append(SelectSeq(cgRecent, LAMBDA x : x # s), s)
  /\ CgSet(t, CgIdle)
  /\ UNCHANGED <<cgPool, cgProc, cgEof, cgInbox, cgMessages>>

\* Mutant: the session outlives the timeout.
AfterTimeoutKeep(w) == CgIdle

\* The 504 is sent after the session is dropped.
AfterTimeout(w) ==
  [at |-> "drop", todo |-> {w.s}, then |-> CgIdle, s |-> w.s, id |-> w.id]

\* No answer yet, and the session is closed or call_timeout is over.
GiveUp(t) ==
  /\ cgThread[t].at = "wait" /\ cgResponses[cgThread[t].s][cgThread[t].id] = 0
  /\ CgSet(t, AfterTimeout(cgThread[t]))
  /\ UNCHANGED <<cgPool, cgRecent, cgChildren, cgMessages, cgDelivered>>

\* _read_stdout() files an answer; what a dead child had written is still read.
ReadAnswer(s, m) ==
  /\ m \in cgInbox[s] /\ s \notin cgEof
  /\ cgInbox' = [cgInbox EXCEPT ![s] = @ \ {m}]
  /\ cgResponses' = [cgResponses EXCEPT ![s][m[1]] = m[2]]
  /\ UNCHANGED <<cgPool, cgRecent, cgProc, cgEof, cgThread, cgMessages, cgDelivered>>

ReaderEnds(s) ==
  /\ cgProc[s] = "dead" /\ s \notin cgEof
  /\ cgEof' = cgEof \cup {s}
  /\ UNCHANGED <<cgPool, cgRecent, cgProc, cgInbox, cgResponses, cgThread, cgMessages, cgDelivered>>

ChildDies(s) ==
  /\ cgProc[s] = "running" /\ cgProc' = [cgProc EXCEPT ![s] = "dead"]
  /\ UNCHANGED <<cgPool, cgRecent, cgEof, cgInbox, cgResponses, cgThread,
                 cgMessages, cgDelivered>>

CgNext ==
  \/ \E t \in CgThreads :
       \/ ReapList(t, CgIdle)
       \/ \E id \in CgIds : ReapList(t, [at |-> "create", first |-> id])
       \/ DropSession(t) \/ CloseChild(t) \/ CreateSession(t)
       \/ \E s \in Children, id \in CgIds \cup {NoId} : BeginMessage(t, s, id)
       \/ \E s \in cgPool : DeleteSession(t, s)
       \/ SendMessage(t) \/ TakeResponse(t) \/ GiveUp(t)
  \/ \E s \in Children :
       \/ \E m \in cgInbox[s] : ReadAnswer(s, m)
       \/ ReaderEnds(s) \/ ChildDies(s)

CgSpec == CgInit /\ [][CgNext]_cgVars
----------------------------------------------------------------------------
\* A caller is given the answer to its own message: one that comes after its
\* caller has given up is never handed to a later message with the same id.
AnswersMatch == \A d \in cgDelivered : d[1] = d[2]

\* No child process is lost: one that runs is in the pool, which keeps its limit,
\* or a thread is about to close it, whichever threads drop, evict or reap it.
ChildrenAccounted ==
  /\ Cardinality(cgPool) <= MaxPool
  /\ \A s \in Children : cgProc[s] = "running" =>
       s \in cgPool \/ \E t \in CgThreads : cgThread[t].at = "close" /\ cgThread[t].close = s

\* Time limits, evictions, deletions and the reaper neither mix up answers nor
\* leave a child process behind.
SessionsAreAccounted == AnswersMatch /\ ChildrenAccounted
=============================================================================

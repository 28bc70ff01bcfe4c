------------------------ MODULE RepositoryController ------------------------
(***************************************************************************)
(* Branch writes of the Big Bird control plane: run_repository_branch_write*)
(* (server/bigbird_edge1_control_plane.py) starts one process of           *)
(* tools/bigbird_repository_controller.py per request and kills it after a *)
(* time limit.  create_branch_commit() keeps a record per request id and   *)
(* creates a branch from a commit that it builds in a worktree of its own. *)
(*                                                                         *)
(* Nothing excludes a second process, so every command of git and every    *)
(* file is a step.  A commit is identified with the request it was built   *)
(* from: the digest of a request covers all of it.                         *)
(***************************************************************************)
EXTENDS Naturals

CONSTANTS
  RepoProcs,      \* processes of the controller
  RepoRequests,   \* request bodies: records with a request_id, a branch and more
  NoCommitYet

ASSUME RepoAssumption == NoCommitYet \notin RepoRequests

VARIABLES
  rcBranch,   \* refs/heads/agent/bigbird-*: branch -> the request committed there
  rcRecord,   \* requests/<id>.json: request id -> the request of the result
  rcAudit,    \* audit.jsonl: <<event, request>>
  rcOp,       \* what each process is doing
  rcAnswered  \* requests whose caller was told "committed"

rcVars == <<rcBranch, rcRecord, rcAudit, rcOp, rcAnswered>>

RequestIds == {q.request_id : q \in RepoRequests}
AgentBranches == {q.branch : q \in RepoRequests}
RcIdle == [at |-> "idle"]
Goto(p, step) == rcOp' = [rcOp EXCEPT ![p].at = step]
Leave(p) == rcOp' = [rcOp EXCEPT ![p] = RcIdle]
----------------------------------------------------------------------------
RcInit ==
  /\ rcBranch = [b \in AgentBranches |-> NoCommitYet]
  /\ rcRecord = [i \in RequestIds |-> NoCommitYet]
  /\ rcAudit = {} /\ rcAnswered = {}
  /\ rcOp = [p \in RepoProcs |-> RcIdle]

\* run_repository_branch_write(), and validate_request() in the new process.
RunBranchWrite(p, q) ==
  /\ rcOp[p] = RcIdle
  /\ rcOp' = [rcOp EXCEPT ![p] = [at |-> "record", q |-> q]]
  /\ UNCHANGED <<rcBranch, rcRecord, rcAudit, rcAnswered>>

\* idempotent_result(): the stored answer, an error for another content, or on.
IdempotentResult(p) ==
  LET q == rcOp[p].q IN
  /\ rcOp[p].at = "record"
  /\ IF rcRecord[q.request_id] = NoCommitYet
     THEN Goto(p, "branch") /\ UNCHANGED rcAnswered
     ELSE /\ rcAnswered' = rcAnswered \cup IF rcRecord[q.request_id] = q THEN {q} ELSE {}
          /\ Leave(p)
  /\ UNCHANGED <<rcBranch, rcRecord, rcAudit>>

\* ensure_base(), branch_exists().
CheckBranch(p) ==
  /\ rcOp[p].at = "branch"
  /\ IF rcBranch[rcOp[p].q.branch] = NoCommitYet THEN Goto(p, "build") ELSE Leave(p)
  /\ UNCHANGED <<rcBranch, rcRecord, rcAudit, rcAnswered>>

AuditFailed(p) ==
  rcAudit' = rcAudit \cup {<<"repository.branch.failed", rcOp[p].q>>}

\* The worktree, write_candidate(), validate_candidate() and the commit.
BuildCommit(p) ==
  /\ rcOp[p].at = "build"
  /\ \/ Goto(p, "ref") /\ UNCHANGED rcAudit
     \/ Leave(p) /\ AuditFailed(p)
  /\ UNCHANGED <<rcBranch, rcRecord, rcAnswered>>

\* Mutant: update-ref without the old value.
MayCreateAlways(b) == TRUE

\* update-ref with the zero hash as old value.
MayCreate(b) == rcBranch[b] = NoCommitYet

UpdateRef(p) ==
  LET q == rcOp[p].q IN
  /\ rcOp[p].at = "ref"
  /\ IF MayCreate(q.branch)
     THEN /\ rcBranch' = [rcBranch EXCEPT ![q.branch] = q]
          /\ Goto(p, "save") /\ UNCHANGED rcAudit
     ELSE Leave(p) /\ AuditFailed(p) /\ UNCHANGED rcBranch
  /\ UNCHANGED <<rcRecord, rcAnswered>>

\* save_result() replaces the record; a failed write is audited as a failure.
SaveResult(p) ==
  LET q == rcOp[p].q IN
  /\ rcOp[p].at = "save"
  /\ \/ /\ rcRecord' = [rcRecord EXCEPT ![q.request_id] = q]
        /\ Goto(p, "audit") /\ UNCHANGED rcAudit
     \/ Leave(p) /\ AuditFailed(p) /\ UNCHANGED rcRecord
  /\ UNCHANGED <<rcBranch, rcAnswered>>

AuditCommitted(p) ==
  LET q == rcOp[p].q IN
  /\ rcOp[p].at = "audit"
  /\ rcAudit' = rcAudit \cup {<<"repository.branch.committed", q>>}
  /\ rcAnswered' = rcAnswered \cup {q}
  /\ Leave(p)
  /\ UNCHANGED <<rcBranch, rcRecord>>

\* The control plane's time limit, or a crash.
ControllerKilled(p) ==
  /\ rcOp[p] # RcIdle
  /\ Leave(p)
  /\ UNCHANGED <<rcBranch, rcRecord, rcAudit, rcAnswered>>

RcNext ==
  \E p \in RepoProcs :
    \/ \E q \in RepoRequests : RunBranchWrite(p, q)
    \/ IdempotentResult(p) \/ CheckBranch(p) \/ BuildCommit(p) \/ UpdateRef(p)
    \/ SaveResult(p) \/ AuditCommitted(p) \/ ControllerKilled(p)

RcSpec == RcInit /\ [][RcNext]_rcVars
----------------------------------------------------------------------------
\* A record, a "committed" audit line and an answer all name a branch that holds
\* exactly the commit of that request, whatever other processes, with the same
\* request id or the same branch, did before, meanwhile or since.
CommittedIsThere ==
  /\ \A i \in RequestIds : rcRecord[i] # NoCommitYet =>
       rcRecord[i].request_id = i /\ rcBranch[rcRecord[i].branch] = rcRecord[i]
  /\ \A q \in RepoRequests :
       <<"repository.branch.committed", q>> \in rcAudit \/ q \in rcAnswered =>
         rcBranch[q.branch] = q
=============================================================================

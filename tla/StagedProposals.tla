-------------------------- MODULE StagedProposals --------------------------
(***************************************************************************)
(* Staged file proposals                                                   *)
(* (tools/ai_filesystem_connector/staged_proposals.py): proposals are      *)
(* staged, approved or rejected, validated again and applied to the        *)
(* repository by command-line processes that share nothing but files.      *)
(*                                                                         *)
(* Every command reads manifest.json at its start and writes it back at    *)
(* its end, without a lock and without an atomic replacement.  Every       *)
(* proposal here changes every file of Files; its content is the proposal. *)
(***************************************************************************)
EXTENDS Naturals, Sequences

CONSTANTS
  Stages,        \* staged proposals
  FsCommands,    \* processes of bigbird-fsctl
  MaxSnapshots,  \* bound on the applications that come to their snapshot
  Original,      \* what a file held before any application
  Torn           \* a file whose writer died half-way

VARIABLES
  fsRepo,      \* file -> its content
  fsManifest,  \* stage -> manifest.json, or Unstaged or Unreadable
  fsSnaps,     \* the snapshot directories, in the order of their creation
  fsAccepts,   \* whether validate_proposal() accepts the proposals now
  fsCmd,       \* process -> the command it executes
  fsGranted    \* history: stages some approval.json has called approved

fsVars == <<fsRepo, fsManifest, fsSnaps, fsAccepts, fsCmd, fsGranted>>

Files == {1, 2}
Unstaged == [approval |-> "none"]
Unreadable == [approval |-> "unreadable"]
NoCopy == "no copy"
NoFsCommand == [at |-> "idle"]

\* The contents that are told apart are different.
ASSUME StagedAssumption ==
  /\ {Original, Torn, NoCopy} \cap Stages = {}
  /\ Original # Torn /\ Original # NoCopy /\ Torn # NoCopy

\* The command goes on at step with its working copy m of the manifest.
Continue(p, step, m) == fsCmd' = [fsCmd EXCEPT ![p].at = step, ![p].m = m]
----------------------------------------------------------------------------
StagedInit ==
  /\ fsRepo = [f \in Files |-> Original]
  /\ fsManifest = [s \in Stages |-> Unstaged]
  /\ fsSnaps = <<>>
  /\ fsAccepts = TRUE
  /\ fsCmd = [p \in FsCommands |-> NoFsCommand]
  /\ fsGranted = {}

\* stage_proposal(): the manifest is the last file it writes.
StageProposal(s) ==
  /\ fsManifest[s] = Unstaged
  /\ fsManifest' = [fsManifest EXCEPT ![s] =
       [valid |-> fsAccepts, approval |-> "pending_review",
        applied |-> "not_applied", snap |-> 0]]
  /\ UNCHANGED <<fsRepo, fsSnaps, fsAccepts, fsCmd, fsGranted>>

\* The policy file or the repository's directories change.
PolicyChanges ==
  /\ fsAccepts' = ~fsAccepts
  /\ UNCHANGED <<fsRepo, fsManifest, fsSnaps, fsCmd, fsGranted>>

\* The checks that set_approval_status() and apply_stage() begin with.
MayBegin(kind, m) ==
  /\ kind = "approve" => m.valid
  /\ kind = "apply" => m.approval = "approved" /\ m.applied # "applied"

BeginFsCommand(p, kind, s) ==
  /\ fsCmd[p] = NoFsCommand
  /\ fsManifest[s] \notin {Unstaged, Unreadable}
  /\ MayBegin(kind, fsManifest[s])
  /\ fsCmd' = [fsCmd EXCEPT ![p] = [at |-> kind, stage |-> s, m |-> fsManifest[s],
                                    file |-> 1, snap |-> 0, ok |-> TRUE]]
  /\ UNCHANGED <<fsRepo, fsManifest, fsSnaps, fsAccepts, fsGranted>>

\* set_approval_status(): approval.json, then the manifest.
RecordApproval(p) ==
  LET c == fsCmd[p] IN
  \/ /\ c.at = "approve"
     /\ fsGranted' = fsGranted \cup {c.stage}
     /\ Continue(p, "manifest", [c.m EXCEPT !.approval = "approved"])
     /\ UNCHANGED <<fsRepo, fsManifest, fsSnaps, fsAccepts>>
  \/ /\ c.at = "reject"
     /\ Continue(p, "manifest", [c.m EXCEPT !.approval = "rejected"])
     /\ UNCHANGED <<fsRepo, fsManifest, fsSnaps, fsAccepts, fsGranted>>

\* The manifest after a validation that fails; validate resets an approval, and
\* apply has read one.
Invalidated(m) ==
  [m EXCEPT !.valid = FALSE,
            !.approval = IF @ = "approved" THEN "pending_review" ELSE @]

\* command_validate().
Revalidate(p) ==
  LET c == fsCmd[p] IN
  /\ c.at = "validate"
  /\ Continue(p, "manifest", IF fsAccepts THEN [c.m EXCEPT !.valid = TRUE]
                             ELSE Invalidated(c.m))
  /\ UNCHANGED <<fsRepo, fsManifest, fsSnaps, fsAccepts, fsGranted>>

\* apply_stage() up to the directory of the snapshot.
BeginSnapshot(p) ==
  LET c == fsCmd[p] IN
  /\ c.at = "apply"
  /\ \/ /\ ~fsAccepts
        /\ Continue(p, "manifest", Invalidated(c.m))
        /\ UNCHANGED fsSnaps
     \/ /\ fsAccepts /\ Len(fsSnaps) < MaxSnapshots
        /\ fsSnaps' = Append(fsSnaps, [stage |-> c.stage,
                                       files |-> [f \in Files |-> NoCopy]])
        /\ fsCmd' = [fsCmd EXCEPT ![p].at = "snapshot", ![p].snap = Len(fsSnaps) + 1]
  /\ UNCHANGED <<fsRepo, fsManifest, fsAccepts, fsGranted>>

\* Mutant: a proposal that has a snapshot directory already gets no second copy.
SnapshotChangeOnce(p) ==
  LET c == fsCmd[p]
      done == \E n \in 1..(c.snap - 1) : fsSnaps[n].stage = c.stage
  IN
  /\ c.at = "snapshot"
  /\ fsSnaps' = IF done THEN fsSnaps
                ELSE [fsSnaps EXCEPT ![c.snap].files[c.file] = fsRepo[c.file]]
  /\ fsCmd' = IF c.file = 2 \/ done
              THEN [fsCmd EXCEPT ![p].at = "write", ![p].file = 1]
              ELSE [fsCmd EXCEPT ![p].file = @ + 1]
  /\ UNCHANGED <<fsRepo, fsManifest, fsAccepts, fsGranted>>

\* snapshot_change() of one file.
SnapshotChange(p) ==
  LET c == fsCmd[p] IN
  /\ c.at = "snapshot"
  /\ fsSnaps' = [fsSnaps EXCEPT ![c.snap].files[c.file] = fsRepo[c.file]]
  /\ fsCmd' = IF c.file = 2 THEN [fsCmd EXCEPT ![p].at = "write", ![p].file = 1]
              ELSE [fsCmd EXCEPT ![p].file = @ + 1]
  /\ UNCHANGED <<fsRepo, fsManifest, fsAccepts, fsGranted>>

\* apply_change() of one file: the content, and what is read back.
ApplyChange(p) ==
  LET c == fsCmd[p] IN
  /\ c.at = "write"
  /\ fsRepo' = [fsRepo EXCEPT ![c.file] = c.stage]
  /\ Continue(p, "check", c.m)
  /\ UNCHANGED <<fsManifest, fsSnaps, fsAccepts, fsGranted>>

\* The apply_status of an application.
Verified(c) ==
  IF c.ok /\ fsRepo[c.file] = c.stage THEN "applied"
  ELSE "applied_verification_failed"

CheckChange(p) ==
  LET c == fsCmd[p] IN
  /\ c.at = "check"
  /\ fsCmd' = [fsCmd EXCEPT ![p] =
       IF c.file = 2
       THEN [c EXCEPT !.at = "manifest",
                      !.m = [c.m EXCEPT !.valid = TRUE, !.applied = Verified(c),
                                        !.snap = c.snap]]
       ELSE [c EXCEPT !.at = "write", !.file = 2,
                      !.ok = (Verified(c) = "applied")]]
  /\ UNCHANGED <<fsRepo, fsManifest, fsSnaps, fsAccepts, fsGranted>>

\* write_manifest(): the working copy replaces whatever is there.
WriteManifest(p) ==
  LET c == fsCmd[p] IN
  /\ c.at = "manifest"
  /\ fsManifest' = [fsManifest EXCEPT ![c.stage] = c.m]
  /\ fsCmd' = [fsCmd EXCEPT ![p] = NoFsCommand]
  /\ UNCHANGED <<fsRepo, fsSnaps, fsAccepts, fsGranted>>

\* The process dies or a file operation raises; write_text() may have
\* truncated the file it was about to write.
FsCommandDies(p) ==
  LET c == fsCmd[p] IN
  /\ c # NoFsCommand
  /\ fsCmd' = [fsCmd EXCEPT ![p] = NoFsCommand]
  /\ \/ UNCHANGED <<fsRepo, fsManifest>>
     \/ /\ c.at = "write"
        /\ fsRepo' = [fsRepo EXCEPT ![c.file] = Torn]
        /\ UNCHANGED fsManifest
     \/ /\ c.at = "manifest"
        /\ fsManifest' = [fsManifest EXCEPT ![c.stage] = Unreadable]
        /\ UNCHANGED fsRepo
  /\ UNCHANGED <<fsSnaps, fsAccepts, fsGranted>>

StagedNext ==
  \/ PolicyChanges
  \/ \E s \in Stages :
       \/ StageProposal(s)
       \/ \E p \in FsCommands, kind \in {"approve", "reject", "validate", "apply"} :
            BeginFsCommand(p, kind, s)
  \/ \E p \in FsCommands :
       \/ RecordApproval(p) \/ Revalidate(p) \/ BeginSnapshot(p)
       \/ SnapshotChange(p) \/ ApplyChange(p) \/ CheckChange(p)
       \/ WriteManifest(p) \/ FsCommandDies(p)

StagedSpec == StagedInit /\ [][StagedNext]_fsVars
----------------------------------------------------------------------------
\* "records originals": whatever is applied, torn by a crash and applied again,
\* by however many processes at the same time, the original of a changed file
\* is in some snapshot.
OriginalKept ==
  \A f \in Files :
    \/ fsRepo[f] = Original
    \/ \E n \in DOMAIN fsSnaps : fsSnaps[n].files[f] = Original

\* "Apply approved staged proposals only": the repository never holds, and no
\* snapshot ever found in it, a change that no operator has approved, although
\* manifests are written back from stale copies.
OnlyApprovedIsWritten ==
  \A f \in Files :
    {fsRepo[f]} \cup {fsSnaps[n].files[f] : n \in DOMAIN fsSnaps}
      \subseteq fsGranted \cup {Original, Torn, NoCopy}

\* A manifest that says "applied" names a complete snapshot that was made for its
\* own proposal, and no file of the proposal was left as it was.
AppliedIsRecorded ==
  \A s \in Stages :
    fsManifest[s] \notin {Unstaged, Unreadable} /\ fsManifest[s].applied = "applied" =>
      /\ fsSnaps[fsManifest[s].snap].stage = s
      /\ \A f \in Files : fsSnaps[fsManifest[s].snap].files[f] # NoCopy
                          /\ fsRepo[f] # Original

\* Concurrent, repeated and interrupted commands keep the record straight: what was
\* there before is in a snapshot, nothing that was never approved is written, and a
\* manifest that says applied names its snapshot.
ApplyIsAccountable == OriginalKept /\ OnlyApprovedIsWritten /\ AppliedIsRecorded
============================================================================

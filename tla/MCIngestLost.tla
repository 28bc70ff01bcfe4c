---------------------------- MODULE MCIngestLost ----------------------------
(***************************************************************************)
(* The TLC instance of CommsIngest that asks whether every commit of a     *)
(* ref that only moves forward is posted.                                  *)
(***************************************************************************)
EXTENDS CommsIngest

\* A linear history of two commits.
Line == <<{1}, {1, 2}>>
=============================================================================

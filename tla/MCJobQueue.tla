----------------------------- MODULE MCJobQueue -----------------------------
(* Small instances of JobQueue for TLC.                                    *)
EXTENDS JobQueue, TLC

CONSTANTS j1, j2, j3

\* j1 and j2 are drafts, j3 is a plan job.
MCStepOf == [j \in Jobs |-> IF j \in {j1, j2} THEN "draft" ELSE "plan"]

Symmetric == Permutations(Workers)
=============================================================================

--------------------------- MODULE MCContentPipeline ---------------------------
(***************************************************************************)
(* Instances of ContentPipeline for TLC.  Jobs are model values; all of    *)
(* them are of one topic, so that they compete, in one project.            *)
(***************************************************************************)
EXTENDS ContentPipeline, TLC

CONSTANTS p1, t1, r1, r2, c1, c2, j1, j2, j3

OneTopic == [t \in Topics |-> p1]
SameTopic == [j \in Jobs |-> t1]
AllOnFirst == [c \in Callers |-> r1]

\* The callers are served by one replica and the jobs are of one topic; nothing
\* else tells them apart.
Alike == Permutations(Callers) \cup Permutations(Jobs)
================================================================================

--------------------------- MODULE MCContentHistory ---------------------------
(***************************************************************************)
(* Instances of ContentHistory for TLC: one topic of one project.          *)
(***************************************************************************)
EXTENDS ContentHistory, TLC

CONSTANTS p1, t1, r1, r2, c1, c2, j1

OneTopic == [t \in Topics |-> p1]
SameTopic == [j \in Jobs |-> t1]
AllOnFirst == [c \in Callers |-> r1]

\* The callers are served by one replica and are told apart by nothing else.
CallersAlike == Permutations(Callers)
================================================================================

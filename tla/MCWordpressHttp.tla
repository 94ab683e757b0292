---------------------------- MODULE MCWordpressHttp ----------------------------
(***************************************************************************)
(* Instances of WordpressHttp for TLC.                                     *)
(***************************************************************************)
EXTENDS WordpressHttp

CONSTANTS c1, c2, s1

One == [c \in Callers |-> 1]
\* Every caller publishes; the second saves drafts too, or leaves it open.
AllPublish == [c \in Callers |-> {"publish"}]
OneDrafts == [c \in Callers |-> IF c = c2 THEN Statuses ELSE {"publish"}]
TwoAndOne == [c \in Callers |-> IF c = c1 THEN 2 ELSE 1]
================================================================================

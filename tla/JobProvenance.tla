----------------------------- MODULE JobProvenance -----------------------------
(***************************************************************************)
(* What the status checks of the content jobs service promise although     *)
(* every check may be stale when its write happens: a row is inserted      *)
(* pending, its status changes only to one the table allows from some      *)
(* status the row has held, and a deleted row does not come back.          *)
(***************************************************************************)
EXTENDS ContentJobStatus

CONSTANT Jobs

VARIABLES status, \* of each job: a status, or "unborn" or "deleted"
          held    \* of each job: the statuses its row has had

Init ==
  /\ status = [j \in Jobs |-> "unborn"]
  /\ held = [j \in Jobs |-> {}]

Insert(j) ==
  /\ status[j] = "unborn"
  /\ status' = [status EXCEPT ![j] = "pending"]
  /\ held' = [held EXCEPT ![j] = {"pending"}]

Move(j) ==
  \E to \in ContentJobStatuses :
    /\ status[j] \in ContentJobStatuses
    /\ \E from \in held[j] : TransitionAllowed(from, to)
    /\ status' = [status EXCEPT ![j] = to]
    /\ held' = [held EXCEPT ![j] = @ \cup {to}]

Delete ==
  \E gone \in SUBSET Jobs :
    /\ \A j \in gone : status[j] \in ContentJobStatuses
    /\ status' = [j \in Jobs |-> IF j \in gone THEN "deleted" ELSE status[j]]
    /\ UNCHANGED held

Next == Delete \/ \E j \in Jobs : Insert(j) \/ Move(j)

Spec == Init /\ [][Next]_<<status, held>>

\* A published job was posted or in review, a job that was either had been
\* generated, and one that was generated had been sent to generation.
Provenance ==
  \A j \in Jobs :
    /\ "published" \in held[j] =>
         held[j] \cap {"posted_to_wordpress", "review_pending"} # {}
    /\ held[j] \cap {"posted_to_wordpress", "review_pending"} # {} =>
         "generated" \in held[j]
    /\ "generated" \in held[j] => "sending_to_generation" \in held[j]
================================================================================

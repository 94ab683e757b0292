--------------------------- MODULE ContentJobStatus ---------------------------
(***************************************************************************)
(* The status machine of a content job: the table allowedTransitions and   *)
(* the check assertContentJobTransition that the content jobs service runs *)
(* before it writes a status.                                              *)
(***************************************************************************)

\* The enum ContentJobStatus of the database schema.
ContentJobStatuses ==
  {"pending", "sending_to_generation", "generated", "posted_to_wordpress",
   "review_pending", "published", "failed"}

\* The statuses create() counts as a live job of the same title and keyword.
ActiveStatuses ==
  {"pending", "sending_to_generation", "generated", "posted_to_wordpress",
   "review_pending"}

\* Mutant: a table that lets a job skip generation.
SkippingTransitions ==
  [from \in ContentJobStatuses |->
     CASE from = "pending"               -> {"sending_to_generation",
                                             "review_pending", "failed"}
       [] from = "sending_to_generation" -> {"generated", "failed"}
       [] from = "generated"             -> {"review_pending", "failed"}
       [] from = "review_pending"        -> {"published", "failed"}
       [] from = "failed"                -> {"pending",
                                             "sending_to_generation"}
       [] OTHER                          -> {}]

allowedTransitions ==
  [from \in ContentJobStatuses |->
     CASE from = "pending"               -> {"sending_to_generation", "failed"}
       [] from = "sending_to_generation" -> {"generated", "failed"}
       [] from = "generated"             -> {"posted_to_wordpress",
                                             "review_pending", "failed"}
       [] from = "posted_to_wordpress"   -> {"review_pending", "published",
                                             "failed"}
       [] from = "review_pending"        -> {"published", "failed"}
       [] from = "published"             -> {}
       [] from = "failed"                -> {"pending",
                                             "sending_to_generation"}]

\* assertContentJobTransition returns; otherwise it throws a 400.  Writing the
\* status a job already has is always accepted.
TransitionAllowed(from, to) == from = to \/ to \in allowedTransitions[from]
===============================================================================

---------------------------- MODULE ContentHistory ----------------------------
(***************************************************************************)
(* ContentPipeline with a history variable: the statuses each row has had. *)
(* With it, the pipeline implements JobProvenance.                         *)
(***************************************************************************)
EXTENDS ContentPipeline

VARIABLE held

HeldAfter(j) ==
  IF Exists(j)' THEN held[j] \cup {row'[j].status} ELSE held[j]

HistoryInit == Init /\ held = [j \in Jobs |-> {}]
HistoryNext == Next /\ held' = [j \in Jobs |-> HeldAfter(j)]
HistoryVars == <<vars, held>>

HistorySpec == HistoryInit /\ [][HistoryNext]_HistoryVars

StatusOf(j) == IF Exists(j) THEN row[j].status
               ELSE IF row[j] = Unborn THEN "unborn" ELSE "deleted"

Abstract == INSTANCE JobProvenance WITH status <- [j \in Jobs |-> StatusOf(j)]

\* The pipeline implements JobProvenance: no interleaving of readers and writers
\* gives a row a status that does not follow, in the table, from one it had.
ImplementsProvenance == Abstract!Spec

\* A published job went through generation, whatever the races.
Provenance == Abstract!Provenance

\* A status that a request, worker or handler has read and will act on is one
\* the row has held, and allows what will be written: why a stale check still
\* says something.
SeenAllows(seen, j, to) == seen \in held[j] /\ TransitionAllowed(seen, to)

SeenWasHeld ==
  /\ \A c \in Callers : call[c].pc = "update_write" =>
       SeenAllows(call[c].seen, call[c].job, call[c].to)
  /\ \A r \in Replicas :
       /\ run[r].pc = "sending_write" =>
            SeenAllows(run[r].seen, run[r].job, "sending_to_generation")
       /\ run[r].pc = "generated_write" =>
            SeenAllows(run[r].seen, run[r].job, "generated")
  /\ \A h \in failing : h.pc = "failed_write" =>
       SeenAllows(h.seen, h.job, "failed")
================================================================================

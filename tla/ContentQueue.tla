----------------------------- MODULE ContentQueue -----------------------------
(***************************************************************************)
(* The BullMQ queue "content-generation" kept in Redis, as QueueService    *)
(* configures it and QueueProcessor consumes it: one queue entry for each  *)
(* content job (jobId = contentJobId), a bounded number of attempts with a *)
(* delay between them, and a lock that says which worker has the entry.    *)
(* The library is external: what is modelled is what this code relies on.  *)
(* The order of the wait list is left out, any waiting entry may be        *)
(* delivered next; delays are nondeterministic.                            *)
(***************************************************************************)
EXTENDS Naturals

CONSTANTS
  Jobs,        \* ids of content jobs, and of their queue entries
  Replicas,    \* API processes; each one runs one worker of concurrency 1
  NoReplica,   \* the owner of an entry nobody has locked
  MaxAttempts, \* "attempts" of enqueueContentGeneration
  MaxStalled   \* maxStalledCount of the worker, its default

ASSUME QueueAssumption ==
  /\ NoReplica \notin Replicas
  /\ MaxAttempts \in Nat \ {0}
  /\ MaxStalled \in Nat

\* made: failed attempts so far; stalls: times the entry was taken from a
\* worker whose lock had expired; lock: the worker that has it.
VARIABLE bull

QueueStates == {"none", "wait", "active", "delayed", "completed", "failed"}

QueueTypeOK ==
  bull \in [Jobs -> [state  : QueueStates,
                     made   : 0 .. MaxAttempts,
                     stalls : 0 .. MaxStalled + 1,
                     lock   : Replicas \cup {NoReplica}]]

QueueInit ==
  bull = [j \in Jobs |-> [state |-> "none", made |-> 0, stalls |-> 0,
                          lock |-> NoReplica]]

HoldsLock(r, j) == bull[j].state = "active" /\ bull[j].lock = r

\* Queue.add with a custom job id does nothing when the id is known.
Add(j) ==
  bull' = [bull EXCEPT ![j].state = IF @ = "none" THEN "wait" ELSE @]

\* A worker takes a waiting entry and locks it.
Deliver(r, j) ==
  /\ bull[j].state = "wait"
  /\ bull' = [bull EXCEPT ![j].state = "active", ![j].lock = r]

\* The processor returned: removeOnComplete drops the entry.
Ack(r, j) ==
  /\ HoldsLock(r, j)
  /\ bull' = [bull EXCEPT ![j].state = "completed", ![j].lock = NoReplica]

\* The processor threw: another attempt after a delay, or the failed set.
Nack(r, j) ==
  /\ HoldsLock(r, j)
  /\ bull' = [bull EXCEPT
       ![j].state = IF bull[j].made + 1 < MaxAttempts THEN "delayed"
                                                      ELSE "failed",
       ![j].made  = @ + 1,
       ![j].lock  = NoReplica]

\* The backoff delay of an entry is over.
Promote(j) ==
  /\ bull[j].state = "delayed"
  /\ bull' = [bull EXCEPT ![j].state = "wait"]

StalledOut(j) == bull[j].stalls + 1 > MaxStalled

\* The stalled check finds an active entry whose lock has expired: back to the
\* wait list, or to the failed set when it happened too often.
Reclaim(j) ==
  /\ bull[j].state = "active"
  /\ bull' = [bull EXCEPT
       ![j].state  = IF StalledOut(j) THEN "failed" ELSE "wait",
       ![j].stalls = @ + 1,
       ![j].lock   = NoReplica]

InQueue(j) == bull[j].state \in {"wait", "active", "delayed"}
Settled(j) == bull[j].state \in {"completed", "failed"}
===============================================================================

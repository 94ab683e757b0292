---------------------------- MODULE ContentPipeline ----------------------------
(***************************************************************************)
(* The life of content jobs: API requests that create them and update      *)
(* their status (ContentJobsService), the worker that processes the queue  *)
(* and its 'failed' handler (QueueProcessor), the rows in PostgreSQL and   *)
(* the deletion of projects that cascades to them, on several replicas of  *)
(* the API over one database and one queue.                                *)
(*                                                                         *)
(* No method of the service runs in a transaction, so a method is a        *)
(* sequence of steps, one for each database or Redis call it awaits, and   *)
(* the steps of all requests, workers and handlers interleave.             *)
(***************************************************************************)
EXTENDS ContentJobStatus, ContentQueue, FiniteSets

CONSTANTS
  Projects,     \* ids of projects, all created before the first content job
  Topics,       \* pairs of a title and a keyword, each of one project
  ProjectOf,    \* the project of each topic
  TopicOf,      \* the topic an id is used for, if a job is created under it
  Callers,      \* clients of the REST API, one request at a time each
  HomeOf,       \* the replica that serves the requests of a caller
  AdminTargets, \* statuses the callers ask PATCH /content-jobs/:id/status for
  MaxFaults,    \* bound on crashes, refused calls and early lock expiries
  NoJob,        \* no content job
  Unborn,       \* an id no row was inserted under
  Deleted       \* an id whose row was deleted with its project

ASSUME PipelineAssumption ==
  /\ IsFiniteSet(Replicas) /\ IsFiniteSet(Callers)
  /\ ProjectOf \in [Topics -> Projects]
  /\ TopicOf \in [Jobs -> Topics]
  /\ HomeOf \in [Callers -> Replicas]
  /\ AdminTargets \subseteq ContentJobStatuses
  /\ MaxFaults \in Nat
  /\ NoJob \notin Jobs

VARIABLES
  projects, \* the rows of Project
  row,      \* the rows of ContentJob
  run,      \* what the worker of each replica is doing
  failing,  \* the calls of the 'failed' handler in progress
  call,     \* what each caller's request is doing
  faults    \* how many of the MaxFaults faults have happened

vars == <<projects, row, bull, run, failing, call, faults>>

--------------------------------------------------------------------------------
(* Rows *)

\* The columns of a ContentJob the code reads or a property is about: status,
\* providerStatus, attemptCount and whether normalizedContent is set.
Rows == [status   : ContentJobStatuses,
         provider : {"queued", "processing", "completed", "failed"},
         attempts : Nat,
         content  : BOOLEAN]

ASSUME SentinelAssumption == Unborn \notin Rows /\ Deleted \notin Rows
                             /\ Unborn # Deleted

Exists(j) == row[j] \notin {Unborn, Deleted}
Project(j) == ProjectOf[TopicOf[j]]

NewRow == [status |-> "pending", provider |-> "queued", attempts |-> 0,
           content |-> FALSE]

\* Mutants of the updates below: an attempt that is not counted, one that is
\* counted when it fails, too, a provider status the schema does not have.
UncountedRow(r) == [r EXCEPT !.status = "sending_to_generation",
                             !.provider = "processing"]
FailedAndCountedRow(r) == [r EXCEPT !.status = "failed", !.provider = "failed",
                                    !.attempts = @ + 1]
ErrorRow(r) == [r EXCEPT !.status = "failed", !.provider = "error"]

\* The data of the update of updateStatus, and of the mark methods.
StatusRow(r, to) == [r EXCEPT !.status = to]
SendingRow(r) == [r EXCEPT !.status = "sending_to_generation",
                           !.provider = "processing",
                           !.attempts = @ + 1]
GeneratedRow(r) == [r EXCEPT !.status = "generated",
                             !.provider = "completed",
                             !.content = TRUE]
FailedRow(r) == [r EXCEPT !.status = "failed", !.provider = "failed"]

\* findUnique followed by assertContentJobTransition lets the caller go on.
MayBecome(j, to) == Exists(j) /\ TransitionAllowed(row[j].status, to)

--------------------------------------------------------------------------------
(* Requests *)

CreatePcs == {"project", "existing", "duplicate_log", "insert", "create_log",
              "enqueue"}
UpdatePcs == {"update_read", "update_write"}

\* seen is the status a request has read, NoStatus before it has read one.
NoStatus == "none"
NoCall == [pc |-> "idle", job |-> NoJob, seen |-> NoStatus, to |-> NoStatus]

Busy(c) == call[c].pc \in CreatePcs \cup UpdatePcs
GoOn(c, pc) == call' = [call EXCEPT ![c].pc = pc]
\* The answer is sent, and what it says is of no more interest.
Answer(c) == call' = [call EXCEPT ![c] = NoCall]
\* create() answers with job j.
AnswerJob(c, j) == call' = [call EXCEPT ![c] = [NoCall EXCEPT !.pc = "created",
                                                             !.job = j]]

\* An id that create() may still insert a row under: Prisma makes a fresh one.
Fresh(j) ==
  /\ row[j] = Unborn
  /\ \A c \in Callers : call[c].pc \in CreatePcs => call[c].job # j

\* POST /content-jobs.  The id is chosen here, and given up when the request
\* does not come to its insert.
StartCreate(c) ==
  /\ ~Busy(c)
  /\ \E j \in Jobs :
       /\ Fresh(j)
       /\ call' = [call EXCEPT ![c] = [NoCall EXCEPT !.pc = "project",
                                                    !.job = j]]
  /\ UNCHANGED <<projects, row, bull, run, failing, faults>>

CheckProject(c) ==
  /\ call[c].pc = "project"
  /\ IF Project(call[c].job) \in projects THEN GoOn(c, "existing")
                                          ELSE Answer(c)
  /\ UNCHANGED <<projects, row, bull, run, failing, faults>>

\* The live jobs of the same project, title and keyword.
LiveDuplicates(j) ==
  {k \in Jobs : Exists(k) /\ TopicOf[k] = TopicOf[j]
                          /\ row[k].status \in ActiveStatuses}

\* Mutant: only a pending job prevents another.
FindPending(c) ==
  /\ call[c].pc = "existing"
  /\ LET found == {k \in LiveDuplicates(call[c].job) : row[k].status = "pending"} IN
     \/ /\ found = {}
        /\ GoOn(c, "insert")
     \/ \E k \in found :
          call' = [call EXCEPT ![c].pc = "duplicate_log", ![c].job = k]
  /\ UNCHANGED <<projects, row, bull, run, failing, faults>>

\* findFirst returns the newest one; here, any.
FindExisting(c) ==
  /\ call[c].pc = "existing"
  /\ LET found == LiveDuplicates(call[c].job) IN
     \/ /\ found = {}
        /\ GoOn(c, "insert")
     \/ \E k \in found :
          call' = [call EXCEPT ![c].pc = "duplicate_log", ![c].job = k]
  /\ UNCHANGED <<projects, row, bull, run, failing, faults>>

\* The warning is written with a foreign key on the job.
LogDuplicate(c) ==
  /\ call[c].pc = "duplicate_log"
  /\ IF Exists(call[c].job) THEN AnswerJob(c, call[c].job) ELSE Answer(c)
  /\ UNCHANGED <<projects, row, bull, run, failing, faults>>

\* Mutant: no foreign key.
InsertUnchecked(c) ==
  /\ call[c].pc = "insert"
  /\ row' = [row EXCEPT ![call[c].job] = NewRow]
  /\ GoOn(c, "create_log")
  /\ UNCHANGED <<projects, bull, run, failing, faults>>

\* Without an existing project the insert breaks the foreign key.
InsertRow(c) ==
  /\ call[c].pc = "insert"
  /\ LET j == call[c].job IN
     \/ /\ Project(j) \in projects
        /\ row' = [row EXCEPT ![j] = NewRow]
        /\ GoOn(c, "create_log")
     \/ /\ Project(j) \notin projects
        /\ Answer(c)
        /\ UNCHANGED row
  /\ UNCHANGED <<projects, bull, run, failing, faults>>

\* Mutant: the request is answered when its log is written.
LogAndAnswer(c) ==
  /\ call[c].pc = "create_log"
  /\ IF Exists(call[c].job) THEN AnswerJob(c, call[c].job) ELSE Answer(c)
  /\ UNCHANGED <<projects, row, bull, run, failing, faults>>

LogCreated(c) ==
  /\ call[c].pc = "create_log"
  /\ IF Exists(call[c].job) THEN GoOn(c, "enqueue") ELSE Answer(c)
  /\ UNCHANGED <<projects, row, bull, run, failing, faults>>

Enqueue(c) ==
  /\ call[c].pc = "enqueue"
  /\ Add(call[c].job)
  /\ AnswerJob(c, call[c].job)
  /\ UNCHANGED <<projects, row, run, failing, faults>>

\* PATCH /content-jobs/:id/status.
StartUpdate(c) ==
  /\ ~Busy(c)
  /\ \E j \in Jobs, to \in AdminTargets :
       /\ row[j] # Unborn
       /\ call' = [call EXCEPT ![c] = [pc |-> "update_read", job |-> j,
                                       seen |-> NoStatus, to |-> to]]
  /\ UNCHANGED <<projects, row, bull, run, failing, faults>>

\* Mutant: no assertContentJobTransition.
ReadWithoutCheck(c) ==
  /\ call[c].pc = "update_read"
  /\ LET j == call[c].job IN
     IF Exists(j) THEN call' = [call EXCEPT ![c].pc = "update_write",
                                            ![c].seen = row[j].status]
                  ELSE Answer(c)
  /\ UNCHANGED <<projects, row, bull, run, failing, faults>>

ReadForUpdate(c) ==
  /\ call[c].pc = "update_read"
  /\ LET j == call[c].job IN
     IF MayBecome(j, call[c].to)
     THEN call' = [call EXCEPT ![c].pc = "update_write",
                               ![c].seen = row[j].status]
     ELSE Answer(c)
  /\ UNCHANGED <<projects, row, bull, run, failing, faults>>

\* The update is not conditional on the status that was read.  The log written
\* after it changes nothing here: when it fails, the answer is an error.
WriteUpdate(c) ==
  /\ call[c].pc = "update_write"
  /\ LET j == call[c].job IN
     row' = IF Exists(j) THEN [row EXCEPT ![j] = StatusRow(@, call[c].to)] ELSE row
  /\ Answer(c)
  /\ UNCHANGED <<projects, bull, run, failing, faults>>

\* A call to PostgreSQL or Redis is refused: the request ends in a 500.
RefuseCall(c) ==
  /\ Busy(c)
  /\ faults < MaxFaults
  /\ faults' = faults + 1
  /\ Answer(c)
  /\ UNCHANGED <<projects, row, bull, run, failing>>

CallStep(c) ==
  \/ CheckProject(c) \/ FindExisting(c) \/ LogDuplicate(c)
  \/ InsertRow(c) \/ LogCreated(c) \/ Enqueue(c)
  \/ ReadForUpdate(c) \/ WriteUpdate(c)

--------------------------------------------------------------------------------
(* The worker of each replica *)

\* A step that throws leads to "fail", where the worker reports the error.
RunPcs == {"sending_read", "sending_write", "sending_log", "load",
           "generated_read", "generated_write", "generated_log", "finish",
           "fail"}
NoRun == [pc |-> "idle", job |-> NoJob, seen |-> NoStatus]

Proceed(r, pc) == run' = [run EXCEPT ![r].pc = pc]

Take(r, j) ==
  /\ run[r].pc = "idle"
  /\ Deliver(r, j)
  /\ run' = [run EXCEPT ![r] = [NoRun EXCEPT !.pc = "sending_read", !.job = j]]
  /\ UNCHANGED <<projects, row, failing, call, faults>>

\* The reading half of markSendingToGeneration and of markGenerated.
ReadFor(r, to, next) ==
  /\ LET j == run[r].job IN
     IF MayBecome(j, to)
     THEN run' = [run EXCEPT ![r].pc = next, ![r].seen = row[j].status]
     ELSE Proceed(r, "fail")
  /\ UNCHANGED <<projects, row, bull, failing, call, faults>>

\* The writing half: an update of a row that is gone throws.
WriteRow(r, value, next) ==
  /\ LET j == run[r].job IN
     IF Exists(j)
     THEN /\ row' = [row EXCEPT ![j] = value]
          /\ Proceed(r, next)
     ELSE UNCHANGED row /\ Proceed(r, "fail")
  /\ UNCHANGED <<projects, bull, failing, call, faults>>

\* A log of the job, or a read of its row: throws when the row is gone.
NeedRow(r, next) ==
  /\ Proceed(r, IF Exists(run[r].job) THEN next ELSE "fail")
  /\ UNCHANGED <<projects, row, bull, failing, call, faults>>

ReadSending(r) ==
  run[r].pc = "sending_read"
  /\ ReadFor(r, "sending_to_generation", "sending_write")
WriteSending(r) ==
  run[r].pc = "sending_write"
  /\ WriteRow(r, SendingRow(row[run[r].job]), "sending_log")
LogSending(r) == run[r].pc = "sending_log" /\ NeedRow(r, "load")

\* Mutant: a job that is gone is waited for.
LoadPatiently(r) ==
  /\ run[r].pc = "load"
  /\ Exists(run[r].job)
  /\ NeedRow(r, "generated_read")

\* findByIdOrThrow; the providers that are called next are stubs that always
\* answer.
Load(r) == run[r].pc = "load" /\ NeedRow(r, "generated_read")

\* Mutant: a refused transition ends the processing without an error.
ReadGeneratedQuietly(r) ==
  /\ run[r].pc = "generated_read"
  /\ LET j == run[r].job IN
     IF MayBecome(j, "generated")
     THEN run' = [run EXCEPT ![r].pc = "generated_write",
                             ![r].seen = row[j].status]
     ELSE Proceed(r, "finish")
  /\ UNCHANGED <<projects, row, bull, failing, call, faults>>

ReadGenerated(r) ==
  run[r].pc = "generated_read"
  /\ ReadFor(r, "generated", "generated_write")
WriteGenerated(r) ==
  run[r].pc = "generated_write"
  /\ WriteRow(r, GeneratedRow(row[run[r].job]), "generated_log")
LogGenerated(r) == run[r].pc = "generated_log" /\ NeedRow(r, "finish")

\* The processor returns.  A worker that has lost the lock cannot complete the
\* entry, and emits only 'error', which nobody listens to.
Complete(r) ==
  /\ run[r].pc = "finish"
  /\ \/ Ack(r, run[r].job)
     \/ ~HoldsLock(r, run[r].job) /\ UNCHANGED bull
  /\ run' = [run EXCEPT ![r] = NoRun]
  /\ UNCHANGED <<projects, row, failing, call, faults>>

\* A call of the 'failed' handler: n is the attempt that failed, 0 when the
\* entry failed by stalling; at is the replica it runs on.
NewFailure(j, n, r) ==
  [job |-> j, n |-> n, at |-> r, pc |-> "failed_read", seen |-> NoStatus]

\* The processor threw: the entry is retried or failed, and in both cases the
\* 'failed' event starts the handler, which the worker does not wait for.
Fail(r) ==
  /\ run[r].pc = "fail"
  /\ LET j == run[r].job IN
     \/ /\ Nack(r, j)
        /\ failing' = failing \cup {NewFailure(j, bull[j].made + 1, r)}
     \/ ~HoldsLock(r, j) /\ UNCHANGED <<bull, failing>>
  /\ run' = [run EXCEPT ![r] = NoRun]
  /\ UNCHANGED <<projects, row, call, faults>>

\* Mutant: the processor catches the error and returns.
SwallowRun(r) ==
  /\ run[r].pc \in RunPcs \ {"finish", "fail"}
  /\ faults < MaxFaults
  /\ faults' = faults + 1
  /\ Proceed(r, "finish")
  /\ UNCHANGED <<projects, row, bull, failing, call>>

\* A call to PostgreSQL is refused in the processor, which throws.  A call that
\* is refused after it took effect is the refusal of the next one.
RefuseRun(r) ==
  /\ run[r].pc \in RunPcs \ {"finish", "fail"}
  /\ faults < MaxFaults
  /\ faults' = faults + 1
  /\ Proceed(r, "fail")
  /\ UNCHANGED <<projects, row, bull, failing, call>>

RunStep(r) ==
  \/ ReadSending(r) \/ WriteSending(r) \/ LogSending(r) \/ Load(r)
  \/ ReadGenerated(r) \/ WriteGenerated(r) \/ LogGenerated(r)
  \/ Complete(r) \/ Fail(r)

--------------------------------------------------------------------------------
(* The 'failed' handler: markFailed, with every exception caught *)

ReadFailed(h) ==
  /\ h.pc = "failed_read"
  /\ failing' = IF MayBecome(h.job, "failed")
                 THEN (failing \ {h}) \cup
                      {[h EXCEPT !.pc = "failed_write",
                                 !.seen = row[h.job].status]}
                 ELSE failing \ {h}
  /\ UNCHANGED <<projects, row, bull, run, call, faults>>

\* The log written after the update changes nothing here.
WriteFailed(h) ==
  /\ h.pc = "failed_write"
  /\ row' = IF Exists(h.job) THEN [row EXCEPT ![h.job] = FailedRow(@)] ELSE row
  /\ failing' = failing \ {h}
  /\ UNCHANGED <<projects, bull, run, call, faults>>

RefuseFailed(h) ==
  /\ faults < MaxFaults
  /\ faults' = faults + 1
  /\ failing' = failing \ {h}
  /\ UNCHANGED <<projects, row, bull, run, call>>

HandlerStep == \E h \in failing : ReadFailed(h) \/ WriteFailed(h)

--------------------------------------------------------------------------------
(* The queue's own steps, crashes and the deletion of projects *)

EndDelay(j) == Promote(j) /\ UNCHANGED <<projects, row, run, failing, call, faults>>

\* The worker an entry is locked for still works on it.
OwnerRuns(j) == \E r \in Replicas : HoldsLock(r, j) /\ run[r].job = j

\* The stalled check of the worker of replica r.  The lock of a worker that is
\* gone expires; that of a live one is renewed, unless the process is blocked
\* or cut off for too long, which is a fault.
Stalled(r, j) ==
  /\ OwnerRuns(j) => faults < MaxFaults
  /\ faults' = IF OwnerRuns(j) THEN faults + 1 ELSE faults
  /\ Reclaim(j)
  /\ failing' = IF StalledOut(j) THEN failing \cup {NewFailure(j, 0, r)}
                                 ELSE failing
  /\ UNCHANGED <<projects, row, run, call>>

RecoverDead(j) == ~OwnerRuns(j) /\ \E r \in Replicas : Stalled(r, j)

\* A process dies and is started again (restart: unless-stopped); nothing it
\* was doing is resumed.
Crash(r) ==
  /\ faults < MaxFaults
  /\ faults' = faults + 1
  /\ run' = [run EXCEPT ![r] = NoRun]
  /\ failing' = {h \in failing : h.at # r}
  /\ call' = [c \in Callers |-> IF HomeOf[c] = r /\ Busy(c) THEN NoCall
                                                         ELSE call[c]]
  /\ UNCHANGED <<projects, row, bull>>

\* DELETE /projects/:id, cascading to the content jobs.  The lookup before the
\* delete is part of the step: a project that is gone at either is an error.
RemoveProject(p) ==
  /\ p \in projects
  /\ projects' = projects \ {p}
  /\ row' = [j \in Jobs |-> IF Exists(j) /\ Project(j) = p THEN Deleted
                                                          ELSE row[j]]
  /\ UNCHANGED <<bull, run, failing, call, faults>>

--------------------------------------------------------------------------------
(* Specification *)

Init ==
  /\ projects = Projects
  /\ row = [j \in Jobs |-> Unborn]
  /\ QueueInit
  /\ run = [r \in Replicas |-> NoRun]
  /\ failing = {}
  /\ call = [c \in Callers |-> NoCall]
  /\ faults = 0

Next ==
  \/ \E c \in Callers :
       StartCreate(c) \/ StartUpdate(c) \/ CallStep(c) \/ RefuseCall(c)
  \/ \E r \in Replicas :
       \/ RunStep(r) \/ RefuseRun(r) \/ Crash(r)
       \/ \E j \in Jobs : Take(r, j) \/ Stalled(r, j)
  \/ HandlerStep
  \/ \E h \in failing : RefuseFailed(h)
  \/ \E j \in Jobs : EndDelay(j)
  \/ \E p \in Projects : RemoveProject(p)

Spec == Init /\ [][Next]_vars

\* What is started runs on: node runs every continuation, BullMQ delivers
\* waiting entries to idle workers, ends delays and finds the entries of dead
\* workers.  Requests, deletions and faults need not happen.
Fairness ==
  /\ \A c \in Callers : WF_vars(CallStep(c))
  /\ \A r \in Replicas : WF_vars(RunStep(r))
  /\ WF_vars(HandlerStep)
  /\ \A j \in Jobs : /\ WF_vars(\E r \in Replicas : Take(r, j))
                     /\ WF_vars(EndDelay(j))
                     /\ WF_vars(RecoverDead(j))

FairSpec == Spec /\ Fairness
--------------------------------------------------------------------------------
(* Properties *)

RunRecords == [pc   : RunPcs \cup {"idle"},
               job  : Jobs \cup {NoJob},
               seen : ContentJobStatuses \cup {NoStatus}]

FailureRecords == [job  : Jobs,
                   n    : 0 .. MaxAttempts,
                   at   : Replicas,
                   pc   : {"failed_read", "failed_write"},
                   seen : ContentJobStatuses \cup {NoStatus}]

CallRecords == [pc   : CreatePcs \cup UpdatePcs \cup {"idle", "created"},
                job  : Jobs \cup {NoJob},
                seen : ContentJobStatuses \cup {NoStatus},
                to   : ContentJobStatuses \cup {NoStatus}]

\* The values of the variables: what a worker, a handler or a request may be doing
\* and with which status read.
TypeOK ==
  /\ projects \subseteq Projects
  /\ row \in [Jobs -> Rows \cup {Unborn, Deleted}]
  /\ QueueTypeOK
  /\ run \in [Replicas -> RunRecords]
  /\ failing \subseteq FailureRecords
  /\ call \in [Callers -> CallRecords]
  /\ faults \in 0 .. MaxFaults

\* A job row never outlives its project, whichever of an insert and a deletion
\* comes first (foreign key and cascade of ContentJob.project).
NoOrphanRows == \A j \in Jobs : Exists(j) => Project(j) \in projects

\* The queue forgets an entry (removeOnComplete) only when the generated content
\* is in the job's row, however many workers processed it and whatever other
\* writers did to its status meanwhile; otherwise nothing would produce it.
CompletedHasContent ==
  \A j \in Jobs : bull[j].state = "completed" /\ Exists(j) => row[j].content

\* The statuses that promise that content exists.
ContentStatuses == {"generated", "posted_to_wordpress", "review_pending",
                    "published"}

\* Unless a caller asks for the status "generated" itself, a job that is
\* generated, posted, in review or published has content, although no writer
\* makes sure that the status it has read is still there when it writes.
ContentBehindStatus ==
  "generated" \notin AdminTargets =>
    \A j \in Jobs : Exists(j) /\ row[j].status \in ContentStatuses => row[j].content

\* The queue never holds a job that was not inserted, and content comes from an
\* attempt that was counted in attemptCount.
ContentFromAttempt ==
  \A j \in Jobs :
    /\ bull[j].state # "none" => row[j] # Unborn
    /\ Exists(j) /\ row[j].content => row[j].attempts > 0

\* Deliveries of an entry so far: each ended in a failed attempt, in a stall, or
\* has not ended, or completed the entry.
Deliveries(j) ==
  bull[j].made + bull[j].stalls
    + (IF bull[j].state \in {"active", "completed"} THEN 1 ELSE 0)

NotYetCounted(j) ==
  {r \in Replicas : run[r].job = j
                    /\ run[r].pc \in {"sending_read", "sending_write"}}

\* attemptCount never counts one delivery twice, with workers that lost their
\* lock included: what is counted and what may still be counted are deliveries.
AttemptAccounting ==
  \A j \in Jobs :
    Exists(j) => row[j].attempts + Cardinality(NotYetCounted(j)) <= Deliveries(j)

\* The provider is called at most "attempts" times and once more for each stall
\* the queue tolerates.
AttemptsBounded ==
  \A j \in Jobs : Exists(j) => row[j].attempts <= MaxAttempts + MaxStalled

\* Two live jobs never have the same project, title and keyword.
OneLiveJob ==
  \A j, k \in Jobs :
    j \in LiveDuplicates(k) /\ k \in LiveDuplicates(j) => j = k

\* The statuses a client moves a job on to when it is generated.
LaterStatuses == {"posted_to_wordpress", "review_pending", "published"}

\* The lookup of create() is not atomic with the insert, nor the check of a status
\* with its write, but that makes no more live jobs of one project, title and
\* keyword than there are clients, one alone making one: until an attempt is
\* refused or lost, and as long as clients only move jobs on.
LiveJobsBounded ==
  faults = 0 /\ AdminTargets \subseteq LaterStatuses =>
    \A j \in Jobs : Cardinality(LiveDuplicates(j)) <= Cardinality(Callers)

\* A job that is in no queue, and that create() answers to whoever asks for its
\* topic, has a request that will enqueue it, until a call is refused or lost:
\* no deletion, no other client and no worker leaves it behind.
UnqueuedIsAttended ==
  faults = 0 =>
    \A j \in Jobs : Exists(j) /\ bull[j].state = "none" =>
      \E c \in Callers : call[c].pc \in {"create_log", "enqueue"} /\ call[c].job = j

--------------------------------------------------------------------------------
(* Strengthenings that make the invariants inductive *)

\* Attempts and stalls are within their limits until the entry has settled.
QueueBounds ==
  \A j \in Jobs : ~Settled(j) => /\ bull[j].made < MaxAttempts
                                 /\ bull[j].stalls <= MaxStalled

\* The steps of create() before a row exists under its id.
NewIdPcs == {"project", "existing", "insert"}

\* What is in progress is about a job that was inserted.
WorkersInHand ==
  \A r \in Replicas : run[r].pc # "idle" =>
    run[r].job \in Jobs /\ row[run[r].job] # Unborn
HandlersInHand == \A h \in failing : row[h.job] # Unborn
EntriesInHand == \A j \in Jobs : bull[j].state # "none" => row[j] # Unborn

\* A request is about a job, inserted or, in the first steps of create(), not.
RequestsInHand ==
  \A c \in Callers :
    /\ call[c].pc # "idle" => call[c].job \in Jobs
    /\ call[c].pc \in NewIdPcs => row[call[c].job] = Unborn
    /\ call[c].pc \notin NewIdPcs \cup {"idle"} => row[call[c].job] # Unborn

\* No two requests are about to insert under the same id.
FreshIdsDistinct ==
  \A c, d \in Callers :
    call[c].pc \in NewIdPcs /\ call[d].pc \in NewIdPcs /\ c # d =>
      call[c].job # call[d].job

\* A request that writes a status has checked it against the one it has read.
UpdatesChecked ==
  \A c \in Callers :
    /\ call[c].pc \in UpdatePcs => call[c].to \in AdminTargets
    /\ call[c].pc = "update_write" =>
         /\ call[c].seen \in ContentJobStatuses
         /\ TransitionAllowed(call[c].seen, call[c].to)

\* Where the worker is tells what its job's row has.
RunProgress ==
  \A r \in Replicas :
    /\ run[r].pc \in {"sending_log", "load", "generated_read", "generated_write"}
         /\ Exists(run[r].job) => row[run[r].job].attempts > 0
    /\ run[r].pc \in {"generated_log", "finish"}
         /\ Exists(run[r].job) => row[run[r].job].content

\* A status read from a job with content is used on a job with content.
StatusReadHadContent ==
  "generated" \notin AdminTargets =>
    \A c \in Callers :
      call[c].pc = "update_write" /\ call[c].seen \in ContentStatuses
        /\ Exists(call[c].job) => row[call[c].job].content

--------------------------------------------------------------------------------
(* Liveness *)

\* Every entry of the queue is completed or fails for good, whatever crashes.
QueueDrains == \A j \in Jobs : InQueue(j) ~> Settled(j)

\* The web panel says of every job it was answered that the job was created and
\* sent to the queue: it reaches the queue, or goes with its project.
AnsweredJobIsQueued ==
  \A j \in Jobs : (\E c \in Callers : call[c].pc = "created" /\ call[c].job = j)
                   ~> (bull[j].state # "none" \/ ~Exists(j))

\* A job that reached the queue ends, for good, generated or failed, or with a
\* status that a client has asked for, or deleted with its project: no worker
\* leaves it waiting or being sent.
JobSettles ==
  \A j \in Jobs : bull[j].state # "none" ~>
    [](Exists(j) => row[j].status \in {"generated", "failed"} \cup AdminTargets)
================================================================================

-------------------------- MODULE ContentSafetyProofs --------------------------
(***************************************************************************)
(* The safety properties of ContentPipeline, proved from TypeInvariance    *)
(* and from what one step can do to one row: for any number of clients     *)
(* and faults, and, at the end, until the first fault.                     *)
(***************************************************************************)
EXTENDS ContentPipelineProofs, FiniteSetTheorems

--------------------------------------------------------------------------------
(* What one step can do to one row, and who does it *)

Inserted(j) == /\ row[j] = Unborn /\ row'[j] = NewRow
               /\ Project(j) \in projects /\ projects' = projects
               /\ \E c \in Callers : InsertRow(c) /\ call[c].job = j
Removed(j) == Exists(j) /\ row'[j] = Deleted
Sent(j) == /\ Exists(j) /\ row'[j] = SendingRow(row[j])
           /\ \E r \in Replicas : WriteSending(r) /\ run[r].job = j
Completed(j) == /\ Exists(j) /\ row'[j] = GeneratedRow(row[j])
                /\ \E r \in Replicas : run[r].pc = "generated_write" /\ run[r].job = j
Failed(j) == /\ Exists(j) /\ row'[j] = FailedRow(row[j])
             /\ \E h \in failing : h.pc = "failed_write" /\ h.job = j
Updated(j) == \E c \in Callers :
  /\ Exists(j) /\ row'[j] = StatusRow(row[j], call[c].to)
  /\ call[c].pc = "update_write" /\ call[c].job = j

RowStep(j) ==
  \/ row'[j] = row[j] \/ Inserted(j) \/ Removed(j)
  \/ Sent(j) \/ Completed(j) \/ Failed(j) \/ Updated(j)

\* Everything a step can do to one row: nothing, insert it, delete it with its
\* project, or one of the four updates of the service, each by who is entitled to it.
LEMMA StepOnRow ==
  ASSUME TypeInv, [Next]_vars, NEW j \in Jobs
  PROVE  RowStep(j)
<1>0. row \in RowsType
  BY DEF TypeInv, TypeOK, RowsType
<1>1. CASE UNCHANGED row
  BY <1>1 DEF RowStep
<1>2. ASSUME NEW c \in Callers, InsertRow(c) PROVE RowStep(j)
  <2>1. CASE /\ Project(call[c].job) \in projects
             /\ row' = [row EXCEPT ![call[c].job] = NewRow]
    <3>1. row[call[c].job] = Unborn
      BY <1>2 DEF InsertRow, TypeInv, InHand, RequestsInHand, NewIdPcs
    <3> QED
      BY <1>0, <1>2, <2>1, <3>1 DEF InsertRow, RowStep, Inserted, RowsType
  <2>2. CASE UNCHANGED row
    BY <1>1, <2>2
  <2> QED
    BY <1>2, <2>1, <2>2 DEF InsertRow
<1>3. ASSUME NEW c \in Callers, WriteUpdate(c) PROVE RowStep(j)
  BY <1>0, <1>3 DEF WriteUpdate, RowStep, Updated, RowsType
<1>4. ASSUME NEW r \in Replicas, WriteSending(r) PROVE RowStep(j)
  BY <1>0, <1>4 DEF WriteSending, WriteRow, RowStep, Sent, RowsType
<1>5. ASSUME NEW r \in Replicas, WriteGenerated(r) PROVE RowStep(j)
  BY <1>0, <1>5 DEF WriteGenerated, WriteRow, RowStep, Completed, RowsType
<1>6. ASSUME NEW h \in failing, WriteFailed(h) PROVE RowStep(j)
  BY <1>0, <1>6 DEF WriteFailed, RowStep, Failed, RowsType
<1>7. ASSUME NEW p \in Projects, RemoveProject(p) PROVE RowStep(j)
  BY <1>7 DEF RemoveProject, RowStep, Removed
<1>8. ASSUME NEW c \in Callers,
             \/ StartCreate(c) \/ StartUpdate(c) \/ CallStep(c) \/ RefuseCall(c)
      PROVE  RowStep(j)
  BY <1>1, <1>2, <1>3, <1>8
  DEF StartCreate, StartUpdate, CallStep, RefuseCall, CheckProject, FindExisting,
      LogDuplicate, LogCreated, Enqueue, ReadForUpdate
<1>9. ASSUME NEW r \in Replicas,
             \/ RunStep(r) \/ RefuseRun(r) \/ Crash(r)
             \/ \E k \in Jobs : Take(r, k) \/ Stalled(r, k)
      PROVE  RowStep(j)
  BY <1>1, <1>4, <1>5, <1>9
  DEF RunStep, RefuseRun, Crash, Take, Stalled, ReadSending, ReadGenerated, ReadFor,
      LogSending, LogGenerated, Load, NeedRow, Complete, Fail
<1>10. ASSUME NEW h \in failing, ReadFailed(h) \/ WriteFailed(h) \/ RefuseFailed(h)
       PROVE  RowStep(j)
  BY <1>1, <1>6, <1>10 DEF ReadFailed, RefuseFailed
<1>11. ASSUME NEW k \in Jobs, EndDelay(k) PROVE RowStep(j)
  BY <1>1, <1>11 DEF EndDelay
<1>12. CASE UNCHANGED vars
  BY <1>1, <1>12 DEF vars
<1> QED
  BY <1>7, <1>8, <1>9, <1>10, <1>11, <1>12 DEF Next, HandlerStep

\* A row that exists after a step is new, or has at least what it had before.
LEMMA RowGrows ==
  ASSUME TypeInv, [Next]_vars, NEW j \in Jobs, Exists(j)'
  PROVE  \/ row[j] = Unborn /\ row'[j] = NewRow
         \/ /\ Exists(j)
            /\ row[j].attempts > 0 => row'[j].attempts > 0
            /\ row[j].content => row'[j].content
<1>1. RowStep(j)
  BY StepOnRow
<1>2. CASE row'[j] = row[j]
  BY <1>2 DEF Exists
<1>3. CASE Inserted(j)
  BY <1>3 DEF Inserted
<1>4. CASE Removed(j)
  BY <1>4 DEF Removed, Exists
<1>5. ASSUME Exists(j),
             \/ row'[j] = SendingRow(row[j]) \/ row'[j] = GeneratedRow(row[j])
             \/ row'[j] = FailedRow(row[j])
             \/ \E to \in ContentJobStatuses : row'[j] = StatusRow(row[j], to)
      PROVE  /\ row[j].attempts > 0 => row'[j].attempts > 0
             /\ row[j].content => row'[j].content
  <2>1. row[j] \in Rows
    BY <1>5 DEF TypeInv, TypeOK, Exists
  <2>2. CASE row'[j] = SendingRow(row[j])
    BY <2>1, <2>2 DEF Rows, SendingRow
  <2>3. CASE row'[j] = GeneratedRow(row[j])
    BY <2>1, <2>3 DEF Rows, GeneratedRow
  <2>4. CASE row'[j] = FailedRow(row[j])
    BY <2>1, <2>4 DEF Rows, FailedRow
  <2>5. ASSUME NEW to \in ContentJobStatuses, row'[j] = StatusRow(row[j], to)
        PROVE  /\ row[j].attempts > 0 => row'[j].attempts > 0
               /\ row[j].content => row'[j].content
    BY <2>1, <2>5 DEF Rows, StatusRow
  <2> QED
    BY <1>5, <2>2, <2>3, <2>4, <2>5
<1>6. ASSUME Updated(j)
      PROVE  Exists(j) /\ \E to \in ContentJobStatuses : row'[j] = StatusRow(row[j], to)
  BY <1>6, PipelineAssumption
  DEF Updated, TypeInv, InHand, UpdatesChecked, UpdatePcs
<1> QED
  BY <1>1, <1>2, <1>3, <1>4, <1>5, <1>6 DEF RowStep, Sent, Completed, Failed

--------------------------------------------------------------------------------
(* Rows and projects *)

\* A content job never outlives its project: an insert and a deletion of the
\* project that race leave no row behind.
THEOREM NoOrphans == Spec => []NoOrphanRows
<1>1. Init => NoOrphanRows
  BY DEF Init, NoOrphanRows, Exists
<1>2. TypeInv /\ NoOrphanRows /\ [Next]_vars => NoOrphanRows'
  <2> SUFFICES ASSUME TypeInv, NoOrphanRows, [Next]_vars, NEW j \in Jobs, Exists(j)'
               PROVE  Project(j) \in projects'
    BY DEF NoOrphanRows, Project
  <2>1. Project(j) \in projects
    <3>1. CASE Exists(j)
      BY <3>1 DEF NoOrphanRows
    <3>2. CASE Inserted(j)
      BY <3>2 DEF Inserted
    <3> QED
      BY <3>1, <3>2, StepOnRow
      DEF RowStep, Removed, Sent, Completed, Failed, Updated, Exists
  <2>2. projects' = projects \/ \E p \in Projects : RemoveProject(p)
    BY DEF Next, vars, StartCreate, StartUpdate, CallStep, RefuseCall, CheckProject,
           FindExisting, LogDuplicate, InsertRow, LogCreated, Enqueue, ReadForUpdate,
           WriteUpdate, RunStep, RefuseRun, Crash, Take, Stalled, ReadSending,
           ReadGenerated, ReadFor, WriteSending, WriteGenerated, WriteRow, LogSending,
           LogGenerated, Load, NeedRow, Complete, Fail, HandlerStep, ReadFailed,
           WriteFailed, RefuseFailed, EndDelay
  <2>3. ASSUME NEW p \in Projects, RemoveProject(p) PROVE Project(j) # p
    BY <2>3 DEF RemoveProject, Exists, NoOrphanRows
  <2> QED
    BY <2>1, <2>2, <2>3 DEF RemoveProject
<1> QED
  BY <1>1, <1>2, TypeInvariance, PTL DEF Spec

--------------------------------------------------------------------------------
(* Content *)

ContentInv ==
  /\ RunProgress
  /\ CompletedHasContent
  /\ \A j \in Jobs : Exists(j) /\ row[j].content => row[j].attempts > 0

\* Where a worker can be after a step.
LEMMA StepOnRun ==
  ASSUME TypeInv, [Next]_vars, NEW r \in Replicas
  PROVE  \/ run'[r] = run[r]
         \/ run'[r].pc \in {"idle", "sending_read", "sending_write", "fail"}
         \/ /\ run'[r].job = run[r].job
            /\ \/ WriteSending(r)
               \/ WriteGenerated(r)
               \/ run[r].pc \in {"sending_log", "load", "generated_read"}
                    /\ run'[r].pc \in {"load", "generated_read", "generated_write"}
               \/ run[r].pc = "generated_log" /\ run'[r].pc = "finish"
<1>0. run \in [Replicas -> RunRecords]
  BY DEF TypeInv, TypeOK
<1>1. CASE UNCHANGED run
  BY <1>1
<1>2. ASSUME NEW q \in Replicas, q # r,
             \/ RunStep(q) \/ RefuseRun(q) \/ Crash(q) \/ \E j \in Jobs : Take(q, j)
      PROVE  run'[r] = run[r]
  BY <1>0, <1>2
  DEF RunStep, RefuseRun, Crash, Take, ReadSending, ReadGenerated, ReadFor, Proceed,
      WriteSending, WriteGenerated, WriteRow, LogSending, LogGenerated, Load, NeedRow,
      Complete, Fail
<1>3. ASSUME ReadSending(r) \/ RefuseRun(r) \/ Crash(r) \/ Complete(r) \/ Fail(r)
             \/ \E j \in Jobs : Take(r, j)
      PROVE  run'[r].pc \in {"idle", "sending_read", "sending_write", "fail"}
  <2>1. CASE ReadSending(r) \/ RefuseRun(r)
    BY <1>0, <2>1 DEF ReadSending, ReadFor, RefuseRun, Proceed, RunRecords
  <2>2. CASE Crash(r) \/ Complete(r) \/ Fail(r)
    BY <1>0, <2>2 DEF Crash, Complete, Fail, NoRun
  <2>3. ASSUME NEW j \in Jobs, Take(r, j) PROVE run'[r].pc = "sending_read"
    BY <1>0, <2>3 DEF Take, NoRun
  <2> QED
    BY <1>3, <2>1, <2>2, <2>3
<1>4. ASSUME NEW pc, ReadFor(r, "generated", pc)
      PROVE  /\ run'[r].job = run[r].job
             /\ run'[r].pc \in {"fail", pc}
  BY <1>0, <1>4 DEF ReadFor, Proceed, RunRecords
<1>5. ASSUME NEW pc, NeedRow(r, pc)
      PROVE  /\ run'[r].job = run[r].job
             /\ run'[r].pc \in {"fail", pc}
  BY <1>0, <1>5 DEF NeedRow, Proceed, RunRecords
<1>6. ASSUME WriteSending(r) \/ WriteGenerated(r) PROVE run'[r].job = run[r].job
  BY <1>0, <1>6 DEF WriteSending, WriteGenerated, WriteRow, Proceed, RunRecords
<1>7. CASE ReadGenerated(r)
  BY <1>4, <1>7 DEF ReadGenerated
<1>8. CASE LogSending(r) \/ Load(r) \/ LogGenerated(r)
  BY <1>5, <1>8 DEF LogSending, Load, LogGenerated
<1>9. CASE RunStep(r)
  BY <1>3, <1>6, <1>7, <1>8, <1>9 DEF RunStep
<1> QED
  BY <1>1, <1>2, <1>3, <1>9
  DEF Next, vars, StartCreate, StartUpdate, CallStep, RefuseCall, CheckProject,
      FindExisting, LogDuplicate, InsertRow, LogCreated, Enqueue, ReadForUpdate,
      WriteUpdate, Stalled, HandlerStep, ReadFailed, WriteFailed, RefuseFailed,
      EndDelay, RemoveProject

\* An entry is completed by a worker at the end of its run, which changes no row.
LEMMA StepOnCompletion ==
  ASSUME TypeInv, [Next]_vars, NEW j \in Jobs, bull'[j].state = "completed"
  PROVE  \/ bull[j].state = "completed"
         \/ /\ UNCHANGED row
            /\ \E r \in Replicas : run[r].pc = "finish" /\ run[r].job = j
<1>0. QueueTypeOK
  BY DEF TypeInv, TypeOK
<1>1. CASE UNCHANGED bull
  BY <1>1
<1>2. ASSUME NEW r \in Replicas, Complete(r)
      PROVE  \/ bull[j].state = "completed"
             \/ UNCHANGED row /\ run[r].pc = "finish" /\ run[r].job = j
  BY <1>0, <1>2 DEF Complete, Ack, QueueTypeOK
<1>3. ASSUME NEW k \in Jobs, Add(k) \/ Promote(k) \/ Reclaim(k)
      PROVE  bull[j].state = "completed"
  BY <1>0, <1>3 DEF Add, Promote, Reclaim, QueueTypeOK
<1>4. ASSUME NEW r \in Replicas, NEW k \in Jobs, Deliver(r, k) \/ Nack(r, k)
      PROVE  bull[j].state = "completed"
  BY <1>0, <1>4 DEF Deliver, Nack, QueueTypeOK
<1>5. ASSUME NEW c \in Callers, Enqueue(c) PROVE bull[j].state = "completed"
  BY <1>3, <1>5 DEF Enqueue, TypeInv, InHand, RequestsInHand
<1>6. ASSUME NEW r \in Replicas, Fail(r) PROVE bull[j].state = "completed"
  BY <1>1, <1>4, <1>6 DEF Fail, TypeInv, InHand, WorkersInHand
<1>7. ASSUME NEW r \in Replicas, RunStep(r)
      PROVE  \/ bull[j].state = "completed"
             \/ UNCHANGED row /\ run[r].pc = "finish" /\ run[r].job = j
  BY <1>1, <1>2, <1>6, <1>7
  DEF RunStep, ReadSending, ReadGenerated, ReadFor, WriteSending, WriteGenerated,
      WriteRow, LogSending, LogGenerated, Load, NeedRow
<1>8. ASSUME NEW c \in Callers,
             StartCreate(c) \/ StartUpdate(c) \/ CallStep(c) \/ RefuseCall(c)
      PROVE  bull[j].state = "completed"
  BY <1>1, <1>5, <1>8
  DEF StartCreate, StartUpdate, CallStep, RefuseCall, CheckProject, FindExisting,
      LogDuplicate, InsertRow, LogCreated, ReadForUpdate, WriteUpdate
<1>9. ASSUME NEW r \in Replicas, NEW k \in Jobs, Take(r, k) \/ Stalled(r, k)
      PROVE  bull[j].state = "completed"
  BY <1>3, <1>4, <1>9 DEF Take, Stalled
<1> QED
  BY <1>1, <1>3, <1>7, <1>8, <1>9
  DEF Next, vars, RefuseRun, Crash, HandlerStep, ReadFailed, WriteFailed, RefuseFailed,
      EndDelay, RemoveProject

\* A worker past its writes finds what it wrote in the row, whoever else writes.
LEMMA RunProgressKept ==
  ASSUME TypeInv, ContentInv, [Next]_vars
  PROVE  RunProgress'
<1> SUFFICES ASSUME NEW r \in Replicas
             PROVE  /\ run'[r].pc \in {"sending_log", "load", "generated_read",
                                       "generated_write"}
                         /\ Exists(run[r].job)'
                       => row'[run'[r].job].attempts > 0
                    /\ run'[r].pc \in {"generated_log", "finish"}
                         /\ Exists(run[r].job)'
                       => row'[run'[r].job].content
  BY DEF RunProgress
<1> DEFINE j == run[r].job
<1>1. ASSUME run[r].pc # "idle"
      PROVE  j \in Jobs /\ row[j] # Unborn
  BY <1>1 DEF TypeInv, InHand, WorkersInHand
<1>2. ASSUME run[r].pc # "idle", row'[j] \notin {Unborn, Deleted}
      PROVE  /\ Exists(j)
             /\ row[j].attempts > 0 => row'[j].attempts > 0
             /\ row[j].content => row'[j].content
  BY <1>1, <1>2, RowGrows DEF Exists
<1>3. CASE run'[r] = run[r]
  BY <1>2, <1>3 DEF ContentInv, RunProgress, Exists
<1>4. CASE run'[r].pc \in {"idle", "sending_read", "sending_write", "fail"}
  BY <1>4
<1>5. CASE WriteSending(r) /\ run'[r].job = j
  <2>1. run[r].pc # "idle" /\ run'[r].pc \in {"sending_log", "fail"}
    BY <1>5 DEF WriteSending, WriteRow, Proceed, TypeInv, TypeOK, RunRecords
  <2>2. ASSUME row'[j] \notin {Unborn, Deleted} PROVE row'[j].attempts > 0
    <3>1. row[j] \in Rows
      BY <1>1, <1>2, <2>1, <2>2 DEF TypeInv, TypeOK, Exists
    <3>2. row'[j] = SendingRow(row[j])
      BY <1>1, <1>2, <1>5, <2>1, <2>2
      DEF WriteSending, WriteRow, TypeInv, TypeOK
    <3> QED
      BY <3>1, <3>2 DEF SendingRow, Rows
  <2> QED
    BY <1>5, <2>1, <2>2 DEF Exists
<1>6. CASE WriteGenerated(r) /\ run'[r].job = j
  <2>1. run[r].pc # "idle" /\ run'[r].pc \in {"generated_log", "fail"}
    BY <1>6 DEF WriteGenerated, WriteRow, Proceed, TypeInv, TypeOK, RunRecords
  <2>2. ASSUME row'[j] \notin {Unborn, Deleted} PROVE row'[j].content
    <3>1. row[j] \in Rows
      BY <1>1, <1>2, <2>1, <2>2 DEF TypeInv, TypeOK, Exists
    <3>2. row'[j] = GeneratedRow(row[j])
      BY <1>1, <1>2, <1>6, <2>1, <2>2
      DEF WriteGenerated, WriteRow, TypeInv, TypeOK
    <3> QED
      BY <3>1, <3>2 DEF GeneratedRow, Rows
  <2> QED
    BY <1>6, <2>1, <2>2 DEF Exists
<1>7. CASE /\ run'[r].job = j
           /\ run[r].pc \in {"sending_log", "load", "generated_read"}
           /\ run'[r].pc \in {"load", "generated_read", "generated_write"}
  BY <1>2, <1>7 DEF ContentInv, RunProgress, Exists
<1>8. CASE /\ run'[r].job = j
           /\ run[r].pc = "generated_log" /\ run'[r].pc = "finish"
  BY <1>2, <1>8 DEF ContentInv, RunProgress, Exists
<1> QED
  BY <1>3, <1>4, <1>5, <1>6, <1>7, <1>8, StepOnRun

\* An entry that has left the queue as completed left its content in the row of
\* its job; and content comes from an attempt that was counted.
LEMMA ContentInvariance == Spec => []ContentInv
<1>1. Init => ContentInv
  BY DEF Init, QueueInit, NoRun, ContentInv, RunProgress, CompletedHasContent, Exists
<1>2. TypeInv /\ ContentInv /\ [Next]_vars => ContentInv'
  <2> SUFFICES ASSUME TypeInv, ContentInv, [Next]_vars PROVE ContentInv'
    OBVIOUS
  <2>1. ASSUME NEW j \in Jobs, bull'[j].state = "completed", Exists(j)'
        PROVE  row'[j].content
    <3>1. CASE bull[j].state = "completed"
      <4>1. row[j] # Unborn
        BY <3>1 DEF TypeInv, InHand, EntriesInHand
      <4> QED
        BY <2>1, <3>1, <4>1, RowGrows DEF ContentInv, CompletedHasContent
    <3>2. CASE /\ UNCHANGED row
               /\ \E r \in Replicas : run[r].pc = "finish" /\ run[r].job = j
      BY <2>1, <3>2 DEF ContentInv, RunProgress, Exists
    <3> QED
      BY <2>1, <3>1, <3>2, StepOnCompletion
  <2>2. ASSUME NEW j \in Jobs, Exists(j)', row'[j].content
        PROVE  row'[j].attempts > 0
    <3>1. CASE row[j] = Unborn /\ row'[j] = NewRow
      BY <2>2, <3>1 DEF NewRow
    <3>2. CASE Exists(j) /\ (row[j].attempts > 0 => row'[j].attempts > 0)
      <4>1. CASE row[j].content
        BY <3>2, <4>1 DEF ContentInv
      <4>2. CASE Completed(j)
        BY <3>2, <4>2 DEF Completed, ContentInv, RunProgress
      <4>3. CASE ~row[j].content /\ ~Completed(j)
        <5>1. row[j] \in Rows
          BY <3>2 DEF TypeInv, TypeOK, Exists
        <5>2. CASE row'[j] = row[j]
          BY <2>2, <4>3, <5>2
        <5>3. CASE Sent(j)
          BY <2>2, <4>3, <5>1, <5>3 DEF Sent, SendingRow, Rows
        <5>4. CASE Failed(j)
          BY <2>2, <4>3, <5>1, <5>4 DEF Failed, FailedRow, Rows
        <5>5. CASE Updated(j)
          BY <2>2, <4>3, <5>1, <5>5 DEF Updated, StatusRow, Rows
        <5> QED
          BY <2>2, <3>2, <4>3, <5>2, <5>3, <5>4, <5>5, StepOnRow
          DEF RowStep, Inserted, Removed, Exists
      <4> QED
        BY <4>1, <4>2, <4>3
    <3> QED
      BY <2>2, <3>1, <3>2, RowGrows
  <2>3. RunProgress'
    BY RunProgressKept
  <2> QED
    BY <2>1, <2>2, <2>3 DEF ContentInv, CompletedHasContent, Exists
<1> QED
  BY <1>1, <1>2, TypeInvariance, PTL DEF Spec

\* When the queue forgets an entry, the generated content is stored.
THEOREM CompletedContent == Spec => []CompletedHasContent
  BY ContentInvariance, PTL DEF ContentInv

\* Jobs reach the queue after they are inserted, and content after an attempt.
THEOREM ContentAfterAttempt == Spec => []ContentFromAttempt
<1>1. TypeInv /\ ContentInv => ContentFromAttempt
  BY DEF TypeInv, InHand, EntriesInHand, ContentInv, ContentFromAttempt
<1> QED
  BY <1>1, TypeInvariance, ContentInvariance, PTL

--------------------------------------------------------------------------------
(* Content behind the statuses that promise it *)

\* How a request comes to the write of an update.
LEMMA StepOnCall ==
  ASSUME TypeInv, [Next]_vars, NEW c \in Callers, call'[c].pc = "update_write"
  PROVE  \/ call'[c] = call[c]
         \/ /\ UNCHANGED row
            /\ call'[c].job = call[c].job
            /\ Exists(call[c].job)
            /\ call'[c].seen = row[call[c].job].status
<1>0. call \in [Callers -> CallRecords]
  BY DEF TypeInv, TypeOK
<1>1. CASE UNCHANGED call
  BY <1>1
<1>2. CASE ReadForUpdate(c)
  BY <1>0, <1>2 DEF ReadForUpdate, MayBecome, Answer, NoCall, CallRecords
<1>3. ASSUME NEW d \in Callers, NEW pc, pc # "update_write", GoOn(d, pc)
      PROVE  call'[c] = call[c]
  BY <1>0, <1>3 DEF GoOn, CallRecords
<1>4. ASSUME NEW d \in Callers, Answer(d) PROVE call'[c] = call[c]
  BY <1>0, <1>4 DEF Answer, NoCall
<1>5. ASSUME NEW d \in Callers, NEW j, AnswerJob(d, j) PROVE call'[c] = call[c]
  BY <1>0, <1>5 DEF AnswerJob, NoCall
<1>6. ASSUME NEW d \in Callers, StartCreate(d) \/ StartUpdate(d) \/ FindExisting(d)
      PROVE  call'[c] = call[c]
  <2>1. CASE StartCreate(d)
    BY <1>0, <2>1 DEF StartCreate, NoCall
  <2>2. CASE StartUpdate(d)
    BY <1>0, <2>2 DEF StartUpdate
  <2>3. CASE FindExisting(d)
    BY <1>0, <1>3, <2>3 DEF FindExisting, CallRecords
  <2> QED
    BY <1>6, <2>1, <2>2, <2>3
<1>7. ASSUME NEW d \in Callers, d # c, ReadForUpdate(d) PROVE call'[c] = call[c]
  BY <1>0, <1>7 DEF ReadForUpdate, Answer
<1>8. ASSUME NEW d \in Callers,
             CheckProject(d) \/ LogDuplicate(d) \/ InsertRow(d) \/ LogCreated(d)
             \/ Enqueue(d) \/ WriteUpdate(d) \/ RefuseCall(d)
      PROVE  call'[c] = call[c]
  BY <1>3, <1>4, <1>5, <1>8
  DEF CheckProject, LogDuplicate, InsertRow, LogCreated, Enqueue, WriteUpdate, RefuseCall
<1>9. ASSUME NEW r \in Replicas, Crash(r) PROVE call'[c] = call[c]
  BY <1>0, <1>9 DEF Crash, NoCall
<1> QED
  BY <1>1, <1>2, <1>6, <1>7, <1>8, <1>9
  DEF Next, vars, CallStep, RunStep, RefuseRun, Take, Stalled, ReadSending,
      ReadGenerated, ReadFor, WriteSending, WriteGenerated, WriteRow, LogSending,
      LogGenerated, Load, NeedRow, Complete, Fail, HandlerStep, ReadFailed,
      WriteFailed, RefuseFailed, EndDelay, RemoveProject

BehindInv == ContentBehindStatus /\ StatusReadHadContent

\* When nobody asks for "generated" itself, whatever is generated, posted, in
\* review or published has content, however stale the checks were.
THEOREM ContentIsBehindStatus == Spec => []ContentBehindStatus
<1>1. Init => BehindInv
  BY DEF Init, NoCall, BehindInv, ContentBehindStatus, StatusReadHadContent, Exists
<1>2. TypeInv /\ BehindInv /\ [Next]_vars => BehindInv'
  <2> SUFFICES ASSUME TypeInv, BehindInv, [Next]_vars, "generated" \notin AdminTargets
               PROVE  BehindInv'
    BY DEF BehindInv, ContentBehindStatus, StatusReadHadContent
  <2>1. ASSUME NEW j \in Jobs, Exists(j)', row'[j].status \in ContentStatuses
        PROVE  row'[j].content
    <3>1. CASE row'[j] = row[j]
      BY <2>1, <3>1 DEF BehindInv, ContentBehindStatus, Exists
    <3>2. CASE Inserted(j)
      BY <2>1, <3>2 DEF Inserted, NewRow, ContentStatuses
    <3>3. CASE Sent(j) \/ Completed(j) \/ Failed(j)
      <4>1. row[j] \in Rows
        BY <3>3 DEF TypeInv, TypeOK, Exists, Sent, Completed, Failed
      <4>2. CASE Completed(j)
        BY <4>1, <4>2 DEF Completed, GeneratedRow, Rows
      <4>3. CASE Sent(j)
        BY <2>1, <4>1, <4>3 DEF Sent, SendingRow, Rows, ContentStatuses
      <4>4. CASE Failed(j)
        BY <2>1, <4>1, <4>4 DEF Failed, FailedRow, Rows, ContentStatuses
      <4> QED
        BY <3>3, <4>2, <4>3, <4>4
    <3>4. CASE Updated(j)
      <4>1. PICK c \in Callers :
              /\ Exists(j) /\ row'[j] = StatusRow(row[j], call[c].to)
              /\ call[c].pc = "update_write" /\ call[c].job = j
        BY <3>4 DEF Updated
      <4>2. /\ call[c].to \in AdminTargets
            /\ call[c].seen \in ContentJobStatuses
            /\ TransitionAllowed(call[c].seen, call[c].to)
        BY <4>1 DEF TypeInv, InHand, UpdatesChecked, UpdatePcs
      <4>3. /\ row'[j].status = call[c].to
            /\ row'[j].content = row[j].content
        BY <4>1 DEF StatusRow, Rows, TypeInv, TypeOK, Exists
      <4>4. call[c].seen \in ContentStatuses
        BY <2>1, <4>2, <4>3
        DEF TransitionAllowed, allowedTransitions, ContentStatuses, ContentJobStatuses
      <4> QED
        BY <4>1, <4>3, <4>4 DEF BehindInv, StatusReadHadContent
    <3> QED
      BY <2>1, <3>1, <3>2, <3>3, <3>4, StepOnRow DEF RowStep, Removed, Exists
  <2>2. ASSUME NEW c \in Callers, call'[c].pc = "update_write",
               call'[c].seen \in ContentStatuses,
               row'[call'[c].job] \notin {Unborn, Deleted}
        PROVE  row'[call'[c].job].content
    <3>1. CASE call'[c] = call[c]
      <4>1. call[c].job \in Jobs /\ row[call[c].job] # Unborn
        BY <2>2, <3>1 DEF TypeInv, InHand, RequestsInHand, NewIdPcs
      <4>2. /\ row[call[c].job] \notin {Unborn, Deleted}
            /\ row[call[c].job].content => row'[call[c].job].content
        BY <2>2, <3>1, <4>1, RowGrows DEF Exists
      <4> QED
        BY <2>2, <3>1, <4>2 DEF BehindInv, StatusReadHadContent, Exists
    <3>2. CASE /\ UNCHANGED row
               /\ call'[c].job = call[c].job
               /\ Exists(call[c].job)
               /\ call'[c].seen = row[call[c].job].status
      <4>1. call'[c].job \in Jobs
        BY <2>2, StepsKeepTypes DEF TypeInv, InHand, RequestsInHand
      <4> QED
        BY <2>2, <3>2, <4>1 DEF BehindInv, ContentBehindStatus
    <3> QED
      BY <2>2, <3>1, <3>2, StepOnCall
  <2> QED
    BY <2>1, <2>2
    DEF BehindInv, ContentBehindStatus, StatusReadHadContent, Exists
<1> QED
  BY <1>1, <1>2, TypeInvariance, PTL DEF Spec, BehindInv

--------------------------------------------------------------------------------
(* Attempts *)

\* The deliveries of an entry only grow, and stay within what the queue allows.
LEMMA QueueStepDelivers ==
  ASSUME QueueTypeOK, QueueBounds, NEW j \in Jobs, NEW k \in Jobs, QueueStep(k)
  PROVE  /\ Deliveries(j)' >= Deliveries(j)
         /\ Deliveries(j) <= MaxAttempts + MaxStalled => Deliveries(j)' <= MaxAttempts + MaxStalled
         /\ j = k /\ (\E r \in Replicas : Deliver(r, k)) => Deliveries(j)' = Deliveries(j) + 1
<1> USE QueueAssumption DEF QueueTypeOK, QueueStates, Deliveries
<1>1. CASE j # k
  BY <1>1, QueueStepEffect
<1>2. ASSUME j = k, Add(k) \/ Promote(k) \/ Reclaim(k)
      PROVE  Deliveries(j)' = Deliveries(j) /\ ~\E r \in Replicas : Deliver(r, k)
  BY <1>2 DEF Add, Promote, Reclaim, Deliver
<1>3. ASSUME j = k, NEW r \in Replicas, Ack(r, k) \/ Nack(r, k)
      PROVE  Deliveries(j)' = Deliveries(j) /\ ~\E q \in Replicas : Deliver(q, k)
  BY <1>3 DEF Ack, Nack, HoldsLock, Deliver
<1>4. ASSUME j = k, NEW r \in Replicas, Deliver(r, k)
      PROVE  /\ Deliveries(j)' = Deliveries(j) + 1
             /\ Deliveries(j)' <= MaxAttempts + MaxStalled
  BY <1>4 DEF Deliver, QueueBounds, Settled
<1>5. Deliveries(j) \in Nat
  OBVIOUS
<1> QED
  BY <1>1, <1>2, <1>3, <1>4, <1>5 DEF QueueStep

\* A step works on one entry of the queue, or on none.
LEMMA StepOnQueue ==
  ASSUME TypeInv, [Next]_vars
  PROVE  UNCHANGED bull \/ \E k \in Jobs : QueueStep(k)
<1>1. ASSUME NEW c \in Callers, Enqueue(c) PROVE \E k \in Jobs : QueueStep(k)
  BY <1>1 DEF Enqueue, QueueStep, TypeInv, InHand, RequestsInHand
<1>2. ASSUME NEW r \in Replicas, Complete(r) \/ Fail(r)
      PROVE  UNCHANGED bull \/ \E k \in Jobs : QueueStep(k)
  BY <1>2 DEF Complete, Fail, QueueStep, TypeInv, InHand, WorkersInHand
<1>3. ASSUME NEW r \in Replicas, NEW k \in Jobs, Take(r, k) \/ Stalled(r, k)
      PROVE  QueueStep(k)
  BY <1>3 DEF Take, Stalled, QueueStep
<1>4. ASSUME NEW k \in Jobs, EndDelay(k) PROVE QueueStep(k)
  BY <1>4 DEF EndDelay, QueueStep
<1>5. ASSUME NEW c \in Callers,
             StartCreate(c) \/ StartUpdate(c) \/ CallStep(c) \/ RefuseCall(c)
      PROVE  UNCHANGED bull \/ \E k \in Jobs : QueueStep(k)
  BY <1>1, <1>5
  DEF StartCreate, StartUpdate, CallStep, RefuseCall, CheckProject, FindExisting,
      LogDuplicate, InsertRow, LogCreated, ReadForUpdate, WriteUpdate
<1>6. ASSUME NEW r \in Replicas, RunStep(r) \/ RefuseRun(r) \/ Crash(r)
      PROVE  UNCHANGED bull \/ \E k \in Jobs : QueueStep(k)
  BY <1>2, <1>6
  DEF RunStep, RefuseRun, Crash, ReadSending, ReadGenerated, ReadFor, WriteSending,
      WriteGenerated, WriteRow, LogSending, LogGenerated, Load, NeedRow
<1> QED
  BY <1>3, <1>4, <1>5, <1>6
  DEF Next, vars, HandlerStep, ReadFailed, WriteFailed, RefuseFailed, RemoveProject

\* A worker that is yet to count an attempt was so before, or takes the entry now.
LEMMA StepOnCounting ==
  ASSUME TypeInv, [Next]_vars, NEW j \in Jobs, NEW r \in NotYetCounted(j)'
  PROVE  \/ r \in NotYetCounted(j) /\ ~WriteSending(r)
         \/ Take(r, j)
<1>0. /\ run \in [Replicas -> RunRecords] /\ r \in Replicas
      /\ run'[r].job = j /\ run'[r].pc \in {"sending_read", "sending_write"}
  BY DEF TypeInv, TypeOK, NotYetCounted
<1> USE <1>0
<1>1. CASE run'[r] = run[r]
  <2>1. ~WriteSending(r)
    BY <1>1 DEF WriteSending, WriteRow, Proceed, RunRecords
  <2> QED
    BY <1>1, <2>1 DEF NotYetCounted
<1>2. ASSUME NEW q \in Replicas, q # r,
             \/ RunStep(q) \/ RefuseRun(q) \/ Crash(q) \/ \E k \in Jobs : Take(q, k)
      PROVE  run'[r] = run[r]
  BY <1>2
  DEF RunStep, RefuseRun, Crash, Take, ReadSending, ReadGenerated, ReadFor, Proceed,
      WriteSending, WriteGenerated, WriteRow, LogSending, LogGenerated, Load, NeedRow,
      Complete, Fail
<1>3. CASE ReadSending(r)
  BY <1>3 DEF ReadSending, ReadFor, Proceed, RunRecords, NotYetCounted, WriteSending
<1>4. ASSUME \/ RefuseRun(r) \/ Crash(r) \/ Complete(r) \/ Fail(r)
             \/ WriteSending(r) \/ WriteGenerated(r)
      PROVE  FALSE
  <2>1. CASE RefuseRun(r) \/ WriteSending(r) \/ WriteGenerated(r)
    BY <2>1 DEF RefuseRun, WriteSending, WriteGenerated, WriteRow, Proceed, RunRecords
  <2>2. CASE Crash(r) \/ Complete(r) \/ Fail(r)
    BY <2>2 DEF Crash, Complete, Fail, NoRun
  <2> QED
    BY <1>4, <2>1, <2>2
<1>5. ASSUME LogSending(r) \/ Load(r) \/ LogGenerated(r) \/ ReadGenerated(r) PROVE FALSE
  BY <1>5
  DEF LogSending, Load, LogGenerated, ReadGenerated, ReadFor, NeedRow, Proceed, RunRecords
<1>6. ASSUME NEW k \in Jobs, Take(r, k) PROVE k = j
  BY <1>6 DEF Take, NoRun
<1>7. CASE RunStep(r)
  BY <1>3, <1>4, <1>5, <1>7 DEF RunStep
<1>8. ASSUME NEW q \in Replicas,
             \/ RunStep(q) \/ RefuseRun(q) \/ Crash(q) \/ \E k \in Jobs : Take(q, k)
      PROVE  (r \in NotYetCounted(j) /\ ~WriteSending(r)) \/ Take(r, j)
  BY <1>1, <1>2, <1>4, <1>6, <1>7, <1>8
<1> QED
  BY <1>1, <1>8
  DEF Next, vars, StartCreate, StartUpdate, CallStep, RefuseCall, CheckProject,
      FindExisting, LogDuplicate, InsertRow, LogCreated, Enqueue, ReadForUpdate,
      WriteUpdate, Stalled, HandlerStep, ReadFailed, WriteFailed, RefuseFailed,
      EndDelay, RemoveProject

CountInv ==
  AttemptAccounting /\ \A j \in Jobs : Deliveries(j) <= MaxAttempts + MaxStalled

\* What is counted and what may still be counted are deliveries, whoever counts.
LEMMA CountInvariance == Spec => []CountInv
<1>1. ASSUME Init PROVE CountInv
  BY <1>1, QueueAssumption DEF Init, QueueInit, CountInv, AttemptAccounting, Deliveries, Exists
<1>2. TypeInv /\ CountInv /\ [Next]_vars => CountInv'
  <2> SUFFICES ASSUME TypeInv, CountInv, [Next]_vars, NEW j \in Jobs
               PROVE  /\ Deliveries(j)' <= MaxAttempts + MaxStalled
                      /\ Exists(j)' => row'[j].attempts + Cardinality(NotYetCounted(j)')
                                         <= Deliveries(j)'
    BY DEF CountInv, AttemptAccounting
  <2> DEFINE N == NotYetCounted(j)
  <2>0. QueueTypeOK /\ QueueBounds
    BY DEF TypeInv, TypeOK
  <2>1. /\ Deliveries(j) \in Nat /\ Deliveries(j)' \in Nat
        /\ Deliveries(j)' >= Deliveries(j) /\ Deliveries(j)' <= MaxAttempts + MaxStalled
    <3>1. Deliveries(j) \in Nat
      BY <2>0, QueueAssumption DEF QueueTypeOK, Deliveries
    <3>2. Deliveries(j)' \in Nat
      BY StepsKeepTypes, QueueAssumption DEF TypeInv, TypeOK, QueueTypeOK, Deliveries
    <3>3. CASE UNCHANGED bull
      BY <3>1, <3>3 DEF Deliveries, CountInv
    <3>4. ASSUME NEW k \in Jobs, QueueStep(k)
          PROVE  Deliveries(j)' >= Deliveries(j) /\ Deliveries(j)' <= MaxAttempts + MaxStalled
      BY <2>0, <3>4, QueueStepDelivers DEF CountInv
    <3> QED
      BY <3>1, <3>2, <3>3, <3>4, StepOnQueue
  <2>2. IsFiniteSet(N) /\ IsFiniteSet(N') /\ Cardinality(N) \in Nat /\ Cardinality(N') \in Nat
    BY PipelineAssumption, FS_Subset, FS_CardinalityType DEF NotYetCounted
  <2>3. CASE \E r \in Replicas : Take(r, j)
    <3>1. PICK r \in Replicas : Take(r, j)
      BY <2>3
    <3>2. Deliveries(j)' = Deliveries(j) + 1
      BY <2>0, <3>1, QueueStepDelivers DEF Take, QueueStep
    <3>3. N' \subseteq N \cup {r}
      BY <3>1, StepOnCounting DEF Take, TypeInv, TypeOK, NotYetCounted
    <3>4. Cardinality(N') <= Cardinality(N) + 1
      <4>1. IsFiniteSet(N \cup {r}) /\ Cardinality(N \cup {r}) <= Cardinality(N) + 1
        BY <2>2, FS_AddElement
      <4>2. Cardinality(N \cup {r}) \in Nat /\ Cardinality(N') <= Cardinality(N \cup {r})
        BY <3>3, <4>1, FS_Subset, FS_CardinalityType
      <4> QED
        BY <2>2, <4>1, <4>2
    <3>5. Exists(j)' => Exists(j) /\ row'[j] = row[j] /\ row[j] \in Rows
      BY <3>1 DEF Take, Exists, TypeInv, TypeOK
    <3> QED
      BY <2>1, <2>2, <3>2, <3>4, <3>5 DEF CountInv, AttemptAccounting, Rows
  <2>4. CASE ~\E r \in Replicas : Take(r, j)
    <3>1. N' \subseteq N /\ Cardinality(N') <= Cardinality(N)
      <4>1. N' \subseteq Replicas
        BY DEF NotYetCounted
      <4>2. N' \subseteq N
        BY <2>4, <4>1, StepOnCounting
      <4> QED
        BY <2>2, <4>2, FS_Subset
    <3>2. CASE row[j] = Unborn /\ row'[j] = NewRow
      <4>1. N = {}
        BY <3>2 DEF NotYetCounted, TypeInv, InHand, WorkersInHand
      <4>2. N' = {} /\ Cardinality(N') = 0
        BY <3>1, <4>1, FS_EmptySet
      <4> QED
        BY <2>1, <3>2, <4>2 DEF NewRow
    <3>3. CASE Sent(j)
      <4>1. PICK r \in Replicas : WriteSending(r) /\ run[r].job = j
        BY <3>3 DEF Sent
      <4>2. r \in N
        BY <4>1 DEF WriteSending, NotYetCounted
      <4>3. N' \subseteq N \ {r}
        <5>1. r \notin N'
          BY <2>4, <4>1, StepOnCounting
        <5> QED
          BY <3>1, <5>1
      <4>4. Cardinality(N') <= Cardinality(N) - 1
        BY <2>2, <4>2, <4>3, FS_RemoveElement, FS_Subset
      <4>5. Exists(j) /\ row[j] \in Rows /\ row'[j].attempts = row[j].attempts + 1
        BY <3>3 DEF Sent, SendingRow, Rows, Exists, TypeInv, TypeOK
      <4> QED
        BY <2>1, <2>2, <4>4, <4>5 DEF CountInv, AttemptAccounting, Rows
    <3>4. ASSUME Exists(j), Exists(j)', ~Sent(j)
          PROVE  row[j] \in Rows /\ row'[j].attempts = row[j].attempts
      <4>1. row[j] \in Rows
        BY <3>4 DEF Exists, TypeInv, TypeOK
      <4>2. CASE row'[j] = row[j]
        BY <4>1, <4>2
      <4>3. CASE Completed(j)
        BY <4>1, <4>3 DEF Completed, GeneratedRow, Rows
      <4>4. CASE Failed(j)
        BY <4>1, <4>4 DEF Failed, FailedRow, Rows
      <4>5. CASE Updated(j)
        BY <4>1, <4>5 DEF Updated, StatusRow, Rows
      <4> QED
        BY <3>4, <4>1, <4>2, <4>3, <4>4, <4>5, StepOnRow DEF RowStep, Inserted, Removed, Exists
    <3>5. ASSUME Exists(j), Exists(j)', ~Sent(j)
          PROVE  row'[j].attempts + Cardinality(N') <= Deliveries(j)'
      BY <2>1, <2>2, <3>1, <3>4, <3>5 DEF CountInv, AttemptAccounting, Rows
    <3> QED
      BY <2>1, <3>2, <3>3, <3>5, RowGrows
  <2> QED
    BY <2>3, <2>4
<1> QED
  BY <1>1, <1>2, TypeInvariance, PTL DEF Spec

\* No delivery is counted twice in attemptCount, with workers that have lost
\* their lock and crashes at any point.
THEOREM AttemptsAreDeliveries == Spec => []AttemptAccounting
  BY CountInvariance, PTL DEF CountInv

\* The provider is called at most "attempts" times, and once more for each stall
\* the queue tolerates.
THEOREM AttemptsAreBounded == Spec => []AttemptsBounded
<1>1. TypeInv /\ CountInv => AttemptsBounded
  <2> SUFFICES ASSUME TypeInv, CountInv, NEW j \in Jobs, Exists(j)
               PROVE  row[j].attempts <= MaxAttempts + MaxStalled
    BY DEF AttemptsBounded
  <2>1. Cardinality(NotYetCounted(j)) \in Nat
    BY PipelineAssumption, FS_Subset, FS_CardinalityType DEF NotYetCounted
  <2>2. row[j].attempts \in Nat /\ Deliveries(j) \in Nat
    BY QueueAssumption DEF TypeInv, TypeOK, QueueTypeOK, Exists, Rows, Deliveries
  <2> QED
    BY <2>1, <2>2, QueueAssumption DEF CountInv, AttemptAccounting
<1> QED
  BY <1>1, TypeInvariance, CountInvariance, PTL

--------------------------------------------------------------------------------
(* Live jobs, until an attempt is refused or lost *)

\* What LiveJobsBounded assumes of the clients, however many they are.
ForwardTargets == AdminTargets \subseteq LaterStatuses

\* While nothing fails, a worker that processes an entry has its lock, and an
\* entry that is locked is being processed.
Working(r, j) == HoldsLock(r, j) /\ run[r].pc # "idle" /\ run[r].job = j
Owned ==
  /\ \A r \in Replicas : run[r].pc # "idle" => Working(r, run[r].job)
  /\ \A j \in Jobs : bull[j].state = "active" => \E r \in Replicas : Working(r, j)

\* The statuses a job may have while its worker is at pc, and while its entry is
\* where it is: none where only the failure of an attempt leads.
RunStatuses(pc) ==
  CASE pc \in {"sending_read", "sending_write"} -> {"pending"}
    [] pc \in {"sending_log", "load", "generated_read", "generated_write"} ->
         {"sending_to_generation"}
    [] pc \in {"generated_log", "finish"} -> ContentStatuses
    [] OTHER -> {}
EntryStatuses(j) ==
  CASE bull[j].state \in {"none", "wait"} -> {"pending"}
    [] bull[j].state = "active" -> RunStatuses(run[bull[j].lock].pc)
    [] bull[j].state = "completed" -> ContentStatuses
    [] OTHER -> {}
StatusesFit == \A j \in Jobs : Exists(j) => row[j].status \in EntryStatuses(j)

\* Only jobs that are gone fail.
FailuresAreGone == \A h \in failing : ~Exists(h.job)

\* Clients write statuses of jobs the workers are done with.
RequestsFit ==
  \A c \in Callers :
    call[c].pc = "update_write" /\ Exists(call[c].job) =>
      row[call[c].job].status \in ContentStatuses

\* A client whose write will make a job live, whatever became of it since the check.
Live(k) == Exists(k) /\ row[k].status \in ActiveStatuses
Reviver(c, j) ==
  /\ call[c].pc = "update_write" /\ call[c].job = j
  /\ call[c].to \in ActiveStatuses /\ Exists(j)

\* The jobs of a topic that are live or will be without another check, and the
\* clients that have found none: each client stands for one of them at most.
MayLive(t) ==
  {j \in Jobs : TopicOf[j] = t /\ (Live(j) \/ \E c \in Callers : Reviver(c, j))}
Creators(t) == {c \in Callers : call[c].pc = "insert" /\ TopicOf[call[c].job] = t}
Bound(t) ==
  /\ IsFiniteSet(MayLive(t))
  /\ Cardinality(MayLive(t)) + Cardinality(Creators(t)) <= Cardinality(Callers)
CountFits == \A t \in Topics : Bound(t)

QuietParts == Owned /\ StatusesFit /\ FailuresAreGone /\ RequestsFit /\ CountFits
QuietInv == faults = 0 => QuietParts

\* The steps that are left while the count of faults stays zero.
QuietStep ==
  \/ UNCHANGED vars
  \/ \E c \in Callers : StartCreate(c) \/ StartUpdate(c) \/ CallStep(c)
  \/ \E r \in Replicas : RunStep(r) \/ \E j \in Jobs : Take(r, j)
  \/ HandlerStep
  \/ \E j \in Jobs : EndDelay(j)
  \/ \E p \in Projects : RemoveProject(p)

\* Faults are never taken back.
LEMMA FaultsCount ==
  ASSUME TypeInv, [Next]_vars, faults' = 0
  PROVE  faults = 0
<1>0. faults \in Nat
  BY PipelineAssumption DEF TypeInv, TypeOK
<1>1. UNCHANGED faults \/ faults' = faults + 1
  BY DEF Next, vars, StartCreate, StartUpdate, CallStep, RefuseCall, CheckProject,
         FindExisting, LogDuplicate, InsertRow, LogCreated, Enqueue, ReadForUpdate,
         WriteUpdate, RunStep, RefuseRun, Crash, Take, Stalled, ReadSending,
         ReadGenerated, ReadFor, WriteSending, WriteGenerated, WriteRow, LogSending,
         LogGenerated, Load, NeedRow, Complete, Fail, HandlerStep, ReadFailed,
         WriteFailed, RefuseFailed, EndDelay, RemoveProject
<1> QED
  BY <1>0, <1>1

\* A stall takes an entry from a worker only by a fault.
LEMMA QuietSteps ==
  ASSUME TypeInv, Owned, [Next]_vars, faults = 0, faults' = 0
  PROVE  QuietStep
<1>1. ASSUME NEW r \in Replicas, NEW j \in Jobs, Stalled(r, j) PROVE FALSE
  <2>1. OwnerRuns(j)
    BY <1>1 DEF Stalled, Reclaim, Owned, Working, OwnerRuns
  <2> QED
    BY <1>1, <2>1 DEF Stalled
<1>2. ASSUME NEW c \in Callers, RefuseCall(c) PROVE FALSE
  BY <1>2 DEF RefuseCall
<1>3. ASSUME NEW r \in Replicas, RefuseRun(r) \/ Crash(r) PROVE FALSE
  BY <1>3 DEF RefuseRun, Crash
<1>4. ASSUME NEW h \in failing, RefuseFailed(h) PROVE FALSE
  BY <1>4 DEF RefuseFailed
<1> QED
  BY <1>1, <1>2, <1>3, <1>4 DEF Next, QuietStep

\* One worker and its entry move, in one of three ways.
Moves(r, j) ==
  /\ \A q \in Replicas \ {r} : run'[q] = run[q]
  /\ \A k \in Jobs \ {j} : bull'[k] = bull[k]
GoesOn(r, j) == /\ run[r].pc # "idle" /\ run[r].job = j
                /\ run'[r].pc # "idle" /\ run'[r].job = j
                /\ bull'[j] = bull[j]
Ends(r, j) == /\ run[r].pc # "idle" /\ run[r].job = j
              /\ run'[r].pc = "idle" /\ bull'[j].state # "active"
Begins(r, j) == /\ run[r].pc = "idle" /\ bull[j].state = "wait"
                /\ run'[r].pc = "sending_read" /\ run'[r].job = j
                /\ bull'[j].state = "active" /\ bull'[j].lock = r

\* Locks and workers go together, whichever worker moves.
LEMMA OwnedKept ==
  ASSUME TypeInv, Owned, NEW r \in Replicas, NEW j \in Jobs, Moves(r, j),
         GoesOn(r, j) \/ Ends(r, j) \/ Begins(r, j)
  PROVE  Owned'
<1>1. ASSUME NEW q \in Replicas, q # r, run'[q].pc # "idle"
      PROVE  Working(q, run[q].job)'
  <2>1. run'[q] = run[q] /\ Working(q, run[q].job) /\ run[q].job \in Jobs
    BY <1>1 DEF Moves, Owned, TypeInv, InHand, WorkersInHand
  <2>2. run[q].job # j
    BY <1>1, <2>1 DEF GoesOn, Ends, Begins, Owned, Working, HoldsLock
  <2> QED
    BY <2>1, <2>2 DEF Moves, Working, HoldsLock
<1>2. run'[r].pc # "idle" => Working(r, run[r].job)'
  BY DEF GoesOn, Ends, Begins, Owned, Working, HoldsLock
<1>3. ASSUME NEW k \in Jobs, bull'[k].state = "active"
      PROVE  \E q \in Replicas : Working(q, k)'
  <2>1. CASE k = j
    BY <1>2, <1>3, <2>1 DEF GoesOn, Ends, Begins, Working
  <2>2. CASE k # j
    <3>1. PICK q \in Replicas : Working(q, k)
      BY <1>3, <2>2 DEF Moves, Owned
    <3>2. q # r
      BY <2>2, <3>1 DEF Working, GoesOn, Ends, Begins
    <3> QED
      BY <2>2, <3>1, <3>2 DEF Moves, Working, HoldsLock
  <2> QED
    BY <2>1, <2>2
<1> QED
  BY <1>1, <1>2, <1>3 DEF Owned

\* What another entry allows is not touched.
LEMMA OtherEntries ==
  ASSUME TypeInv, Owned, NEW r \in Replicas, NEW j \in Jobs, Moves(r, j),
         run[r].pc # "idle" => run[r].job = j, NEW k \in Jobs, k # j
  PROVE  EntryStatuses(k)' = EntryStatuses(k)
<1>1. bull'[k] = bull[k]
  BY DEF Moves
<1>2. CASE bull[k].state = "active"
  <2>1. run'[bull[k].lock] = run[bull[k].lock]
    BY <1>2 DEF Moves, Owned, Working, HoldsLock
  <2> QED
    BY <1>1, <1>2, <2>1 DEF EntryStatuses
<1>3. CASE bull[k].state # "active"
  BY <1>1, <1>3 DEF EntryStatuses
<1> QED
  BY <1>2, <1>3
\* The step makes no job live.
NothingLives == \A k \in Jobs : (Live(k)' => Live(k)) /\ (Exists(k)' => Exists(k))

\* There are only so many clients to count.
LEMMA CreatorsCounted ==
  ASSUME NEW t
  PROVE  /\ IsFiniteSet(Callers) /\ IsFiniteSet(Creators(t))
         /\ Cardinality(Creators(t)) \in Nat /\ Cardinality(Callers) \in Nat
<1>1. Creators(t) \in SUBSET Callers
  BY DEF Creators
<1> QED
  BY <1>1, PipelineAssumption, FS_Subset, FS_CardinalityType

\* So it is after a step.
LEMMA CreatorsCountedNext ==
  \A t \in Topics : IsFiniteSet(Creators(t)') /\ Cardinality(Creators(t)') \in Nat
<1> SUFFICES ASSUME NEW t \in Topics
             PROVE  IsFiniteSet(Creators(t)') /\ Cardinality(Creators(t)') \in Nat
  OBVIOUS
<1>1. Creators(t)' \in SUBSET Callers
  BY DEF Creators
<1> QED
  BY <1>1, PipelineAssumption, FS_Subset, FS_CardinalityType

\* Fewer of both keep the bound.
LEMMA BoundKept ==
  ASSUME NEW t \in Topics, Bound(t),
         MayLive(t)' \subseteq MayLive(t), Creators(t)' \subseteq Creators(t)
  PROVE  Bound(t)'
<1>1. /\ IsFiniteSet(MayLive(t)') /\ Cardinality(MayLive(t)') <= Cardinality(MayLive(t))
      /\ Cardinality(MayLive(t)) \in Nat /\ Cardinality(MayLive(t)') \in Nat
  BY FS_Subset, FS_CardinalityType DEF Bound
<1>2. Cardinality(Creators(t)') <= Cardinality(Creators(t))
  BY CreatorsCounted, FS_Subset
<1>3. /\ Cardinality(Creators(t)) \in Nat /\ Cardinality(Creators(t)') \in Nat
      /\ Cardinality(Callers) \in Nat
  BY CreatorsCounted, CreatorsCountedNext
<1> QED
  BY <1>1, <1>2, <1>3 DEF Bound

\* A creator whose job lives keeps it too.
LEMMA BoundInserted ==
  ASSUME NEW t \in Topics, Bound(t), NEW j, NEW c \in Creators(t),
         MayLive(t)' \subseteq MayLive(t) \cup {j}, Creators(t)' \subseteq Creators(t) \ {c}
  PROVE  Bound(t)'
<1>1. IsFiniteSet(MayLive(t)) /\ Cardinality(MayLive(t)) \in Nat
  BY FS_CardinalityType DEF Bound
<1>2. /\ IsFiniteSet(MayLive(t) \cup {j})
      /\ Cardinality(MayLive(t) \cup {j}) <= Cardinality(MayLive(t)) + 1
      /\ Cardinality(MayLive(t) \cup {j}) \in Nat
  <2>1. /\ IsFiniteSet(MayLive(t) \cup {j})
        /\ \/ Cardinality(MayLive(t) \cup {j}) = Cardinality(MayLive(t))
           \/ Cardinality(MayLive(t) \cup {j}) = Cardinality(MayLive(t)) + 1
    BY <1>1, FS_AddElement
  <2> QED
    BY <1>1, <2>1
<1>3. /\ IsFiniteSet(MayLive(t)') /\ Cardinality(MayLive(t)') \in Nat
      /\ Cardinality(MayLive(t)') <= Cardinality(MayLive(t) \cup {j})
  BY <1>2, FS_Subset, FS_CardinalityType
<1>4. /\ IsFiniteSet(Creators(t) \ {c})
      /\ Cardinality(Creators(t) \ {c}) = Cardinality(Creators(t)) - 1
  BY CreatorsCounted, FS_RemoveElement
<1>5. Cardinality(Creators(t)') <= Cardinality(Creators(t)) - 1
  BY <1>4, FS_Subset
<1>6. /\ Cardinality(Creators(t)) \in Nat /\ Cardinality(Creators(t)') \in Nat
      /\ Cardinality(Callers) \in Nat
  BY CreatorsCounted, CreatorsCountedNext
<1> QED
  BY <1>1, <1>2, <1>3, <1>5, <1>6 DEF Bound

\* Where no job of a topic is live, each that will be has a client of its own, which
\* is not about to create one.
LEMMA NoneLive ==
  ASSUME NEW t \in Topics, \A j \in Jobs : TopicOf[j] = t => ~Live(j)
  PROVE  Bound(t)
<1> DEFINE R == {c \in Callers : \E j \in MayLive(t) : Reviver(c, j)}
<1>1. R \in SUBSET Callers /\ Creators(t) \in SUBSET Callers /\ R \cap Creators(t) = {}
  BY DEF Creators, Reviver
<1>2. /\ IsFiniteSet(R) /\ IsFiniteSet(Creators(t)) /\ Cardinality(R) \in Nat
      /\ Cardinality(Creators(t)) \in Nat /\ Cardinality(Callers) \in Nat
  BY <1>1, PipelineAssumption, FS_Subset, FS_CardinalityType
<1>3. PICK f : f = [c \in R |-> call[c].job]
  OBVIOUS
<1>4. f \in Surjection(R, MayLive(t))
  <2>1. f \in [R -> MayLive(t)]
    BY <1>3 DEF Reviver
  <2>2. \A j \in MayLive(t) : \E c \in R : f[c] = j
    BY <1>3 DEF MayLive, Reviver
  <2> QED
    BY <2>1, <2>2 DEF Surjection
<1>5. IsFiniteSet(MayLive(t)) /\ Cardinality(MayLive(t)) <= Cardinality(R)
  BY <1>2, <1>4, FS_Surjection
<1>6. Cardinality(R \cup Creators(t)) = Cardinality(R) + Cardinality(Creators(t))
  <2>1. Cardinality(R \cap Creators(t)) = 0
    BY <1>1, FS_EmptySet
  <2> HIDE DEF R
  <2> QED
    BY <1>2, <2>1, FS_Union
<1>7. Cardinality(R \cup Creators(t)) <= Cardinality(Callers)
  BY <1>1, PipelineAssumption, FS_Subset
<1>8. Cardinality(MayLive(t)) \in Nat
  BY <1>5, FS_CardinalityType
<1> HIDE DEF R
<1> QED
  BY <1>2, <1>5, <1>6, <1>7, <1>8 DEF Bound

\* So it is after a step.
LEMMA NoneLiveNext ==
  \A t \in Topics : (\A j \in Jobs : TopicOf[j] = t => ~Live(j)') => Bound(t)'
<1>1. \A t \in Topics : (\A j \in Jobs : TopicOf[j] = t => ~Live(j)) => Bound(t)
  BY NoneLive
<1>2. (\A t \in Topics : (\A j \in Jobs : TopicOf[j] = t => ~Live(j)) => Bound(t))'
  BY <1>1, PTL
<1> QED
  BY <1>2

\* Where nothing becomes live and no request moves, the counts stay.
LEMMA LiveKept ==
  ASSUME CountFits, NothingLives, UNCHANGED call
  PROVE  CountFits'
<1> SUFFICES ASSUME NEW t \in Topics PROVE Bound(t)'
  BY DEF CountFits
<1>1. MayLive(t)' \subseteq MayLive(t) /\ Creators(t)' \subseteq Creators(t)
  BY DEF NothingLives, MayLive, Reviver, Creators
<1> QED
  BY <1>1, BoundKept DEF CountFits

\* A client moves on only what the workers are done with.
LEMMA ForwardFrom ==
  ASSUME ForwardTargets, NEW to \in AdminTargets, NEW from \in ContentJobStatuses,
         TransitionAllowed(from, to)
  PROVE  /\ from \in ContentStatuses /\ to \in ContentStatuses
         /\ to \in ActiveStatuses => from \in ActiveStatuses
BY DEF ForwardTargets, LaterStatuses, TransitionAllowed, allowedTransitions,
       ContentJobStatuses, ContentStatuses, ActiveStatuses

\* A step of a worker moves the status of its own job along with the processing.
WorkerMoved(r, j) ==
  /\ Moves(r, j) /\ (GoesOn(r, j) \/ Ends(r, j) \/ Begins(r, j))
  /\ Exists(j)' => Exists(j) /\ row'[j].status \in EntryStatuses(j)'
  /\ \A k \in Jobs :
       \/ row'[k] = row[k]
       \/ k = j /\ Exists(j) /\ row[j].status \in {"pending", "sending_to_generation"}
  /\ \A h \in failing' : h \in failing \/ ~Exists(h.job)
  /\ UNCHANGED call

\* Every step of a worker does so while nothing fails.
LEMMA WorkerMoves ==
  ASSUME TypeInv, QuietParts, NEW r \in Replicas, RunStep(r),
         NEW j, run[r].job = j
  PROVE  WorkerMoved(r, j)
<1>0. /\ run \in [Replicas -> RunRecords] /\ row \in RowsType /\ QueueTypeOK
  BY DEF TypeInv, TypeOK, RowsType
<1>1. run[r].pc # "idle"
  BY DEF RunStep, ReadSending, WriteSending, LogSending, Load, ReadGenerated,
         WriteGenerated, LogGenerated, Complete, Fail
<1>2. run[r].job = j /\ j \in Jobs /\ row[j] # Unborn
  BY <1>1 DEF TypeInv, InHand, WorkersInHand
<1>3. bull[j].state = "active" /\ bull[j].lock = r
  BY <1>1 DEF QuietParts, Owned, Working, HoldsLock
<1>4. Exists(j) => row[j] \in Rows /\ row[j].status \in RunStatuses(run[r].pc)
  BY <1>0, <1>2, <1>3 DEF QuietParts, StatusesFit, EntryStatuses, RowsType, Exists
<1>5. ASSUME NEW pc \in RunPcs, bull' = bull,
             \A q \in Replicas \ {r} : run'[q] = run[q],
             run'[r].pc = pc, run'[r].job = j
      PROVE  /\ Moves(r, j) /\ GoesOn(r, j)
             /\ EntryStatuses(j)' = RunStatuses(pc)
  <2>1. pc # "idle"
    BY DEF RunPcs
  <2> QED
    BY <1>1, <1>3, <1>5, <2>1 DEF Moves, GoesOn, EntryStatuses
<1>6. ASSUME NEW pc \in RunPcs, Proceed(r, pc)
      PROVE  /\ \A q \in Replicas \ {r} : run'[q] = run[q]
             /\ run'[r].pc = pc /\ run'[r].job = j
  BY <1>0, <1>6 DEF Proceed, RunRecords
<1>7. ASSUME NEW next \in RunPcs, NeedRow(r, next),
             RunStatuses(run[r].pc) \subseteq RunStatuses(next)
      PROVE  WorkerMoved(r, j)
  <2>1. PICK pc \in RunPcs : Proceed(r, pc) /\ (Exists(j) => pc = next)
    BY <1>7 DEF NeedRow, RunPcs
  <2>2. UNCHANGED <<row, bull, failing, call>>
    BY <1>7 DEF NeedRow
  <2> QED
    BY <1>4, <1>5, <1>6, <1>7, <2>1, <2>2 DEF WorkerMoved, Exists
<1>8. ASSUME NEW to, NEW next \in RunPcs, ReadFor(r, to, next),
             RunStatuses(run[r].pc) \subseteq RunStatuses(next),
             Exists(j) => TransitionAllowed(row[j].status, to)
      PROVE  WorkerMoved(r, j)
  <2>1. UNCHANGED <<row, bull, failing, call>>
    BY <1>8 DEF ReadFor
  <2>2. CASE Exists(j)
    <3>1. run' = [run EXCEPT ![r].pc = next, ![r].seen = row[j].status]
      BY <1>8, <2>2 DEF ReadFor, MayBecome
    <3>2. /\ \A q \in Replicas \ {r} : run'[q] = run[q]
          /\ run'[r].pc = next /\ run'[r].job = j
      BY <1>0, <3>1 DEF RunRecords
    <3> QED
      BY <1>4, <1>5, <1>8, <2>1, <3>2 DEF WorkerMoved, Exists
  <2>3. CASE ~Exists(j)
    <3>1. Proceed(r, "fail") /\ "fail" \in RunPcs
      BY <1>8, <2>3 DEF ReadFor, MayBecome, RunPcs
    <3> QED
      BY <1>5, <1>6, <2>1, <2>3, <3>1 DEF WorkerMoved, Exists
  <2> QED
    BY <2>2, <2>3
<1>9. ASSUME NEW value \in Rows, NEW next \in RunPcs, WriteRow(r, value, next),
             Exists(j) => row[j].status \in {"pending", "sending_to_generation"},
             value.status \in RunStatuses(next)
      PROVE  WorkerMoved(r, j)
  <2>1. UNCHANGED <<bull, failing, call>>
    BY <1>9 DEF WriteRow
  <2>2. CASE Exists(j)
    <3>1. row' = [row EXCEPT ![j] = value] /\ Proceed(r, next)
      BY <1>9, <2>2 DEF WriteRow
    <3>2. row'[j] = value /\ \A k \in Jobs \ {j} : row'[k] = row[k]
      BY <1>0, <1>2, <3>1 DEF RowsType
    <3> QED
      BY <1>5, <1>6, <1>9, <2>1, <2>2, <3>1, <3>2 DEF WorkerMoved
  <2>3. CASE ~Exists(j)
    <3>1. Proceed(r, "fail") /\ "fail" \in RunPcs /\ UNCHANGED row
      BY <1>9, <2>3 DEF WriteRow, RunPcs
    <3> QED
      BY <1>5, <1>6, <2>1, <2>3, <3>1 DEF WorkerMoved, Exists
  <2> QED
    BY <2>2, <2>3
<1>10. CASE ReadSending(r)
  <2>1. Exists(j) => TransitionAllowed(row[j].status, "sending_to_generation")
    BY <1>4, <1>10
    DEF ReadSending, RunStatuses, TransitionAllowed, allowedTransitions, ContentJobStatuses
  <2>2. RunStatuses(run[r].pc) \subseteq RunStatuses("sending_write")
    BY <1>10 DEF ReadSending, RunStatuses
  <2> QED
    BY <1>8, <1>10, <2>1, <2>2 DEF ReadSending, RunPcs
<1>11. CASE ReadGenerated(r)
  <2>1. Exists(j) => TransitionAllowed(row[j].status, "generated")
    BY <1>4, <1>11
    DEF ReadGenerated, RunStatuses, TransitionAllowed, allowedTransitions, ContentJobStatuses
  <2>2. RunStatuses(run[r].pc) \subseteq RunStatuses("generated_write")
    BY <1>11 DEF ReadGenerated, RunStatuses
  <2> QED
    BY <1>8, <1>11, <2>1, <2>2 DEF ReadGenerated, RunPcs
<1>12. CASE LogSending(r) \/ Load(r) \/ LogGenerated(r)
  <2>1. PICK next \in {"load", "generated_read", "finish"} :
          NeedRow(r, next) /\ RunStatuses(run[r].pc) \subseteq RunStatuses(next)
    BY <1>12 DEF LogSending, Load, LogGenerated, RunStatuses
  <2> QED
    BY <1>7, <2>1 DEF RunPcs
<1>13. ASSUME WriteSending(r) \/ WriteGenerated(r), ~Exists(j) PROVE WorkerMoved(r, j)
  <2>1. /\ UNCHANGED <<row, bull, failing, call>>
        /\ Proceed(r, "fail") /\ "fail" \in RunPcs
    BY <1>13 DEF WriteSending, WriteGenerated, WriteRow, RunPcs
  <2> QED
    BY <1>5, <1>6, <1>13, <2>1 DEF WorkerMoved, Exists
<1>14. CASE WriteSending(r) /\ Exists(j)
  <2>0. row[j] \in Rows /\ SendingRow(row[j]) \in Rows
    BY <1>4, <1>14, RowValues
  <2>1. SendingRow(row[j]).status = "sending_to_generation"
    BY <2>0 DEF SendingRow, Rows
  <2>2. row[j].status = "pending" /\ "sending_to_generation" \in RunStatuses("sending_log")
    BY <1>4, <1>14 DEF WriteSending, RunStatuses
  <2> QED
    BY <1>9, <1>14, <2>0, <2>1, <2>2 DEF WriteSending, RunPcs
<1>15. CASE WriteGenerated(r) /\ Exists(j)
  <2>1. GeneratedRow(row[j]) \in Rows /\ GeneratedRow(row[j]).status = "generated"
    BY <1>4, <1>15 DEF GeneratedRow, Rows, ContentJobStatuses
  <2>2. /\ row[j].status = "sending_to_generation"
        /\ "generated" \in RunStatuses("generated_log")
    BY <1>4, <1>15 DEF WriteGenerated, RunStatuses, ContentStatuses
  <2> QED
    BY <1>9, <1>15, <2>1, <2>2 DEF WriteGenerated, RunPcs
<1>16. CASE Complete(r)
  <2>1. Ack(r, j) /\ UNCHANGED <<row, failing, call>> /\ run' = [run EXCEPT ![r] = NoRun]
    BY <1>3, <1>16 DEF Complete, HoldsLock
  <2>2. bull'[j].state = "completed" /\ Moves(r, j) /\ run'[r].pc = "idle"
    BY <1>0, <1>2, <2>1 DEF Ack, QueueTypeOK, Moves, NoRun
  <2>3. EntryStatuses(j)' = ContentStatuses
    BY <2>2 DEF EntryStatuses
  <2>4. Exists(j) => row[j].status \in ContentStatuses
    BY <1>4, <1>16 DEF Complete, RunStatuses
  <2> QED
    BY <1>1, <2>1, <2>2, <2>3, <2>4 DEF WorkerMoved, Ends, Exists
<1>17. CASE Fail(r)
  <2>1. ~Exists(j)
    BY <1>4, <1>17 DEF Fail, RunStatuses
  <2>2. /\ Nack(r, j) /\ UNCHANGED <<row, call>> /\ run' = [run EXCEPT ![r] = NoRun]
        /\ failing' = failing \cup {NewFailure(j, bull[j].made + 1, r)}
    BY <1>3, <1>17 DEF Fail, HoldsLock
  <2>3. bull'[j].state # "active" /\ Moves(r, j) /\ run'[r].pc = "idle"
    BY <1>0, <1>2, <2>2 DEF Nack, QueueTypeOK, Moves, NoRun
  <2>4. \A h \in failing' : h \in failing \/ h.job = j
    BY <2>2 DEF NewFailure
  <2> QED
    BY <1>1, <2>1, <2>2, <2>3, <2>4 DEF WorkerMoved, Ends, Exists
<1> QED
  BY <1>10, <1>11, <1>12, <1>13, <1>14, <1>15, <1>16, <1>17 DEF RunStep
\* A worker's step, or its taking of an entry, keeps the invariant.
LEMMA WorkersFit ==
  ASSUME TypeInv, TypeInv', QuietParts,
         NEW r \in Replicas, NEW j \in Jobs, WorkerMoved(r, j)
  PROVE  QuietParts'
<1>1. Owned'
  BY OwnedKept DEF WorkerMoved, QuietParts
<1>2. ASSUME NEW k \in Jobs, Exists(k)' PROVE row'[k].status \in EntryStatuses(k)'
  <2>1. CASE k = j
    BY <1>2, <2>1 DEF WorkerMoved
  <2>2. CASE k # j
    <3>1. row'[k] = row[k]
      BY <2>2 DEF WorkerMoved
    <3>2. EntryStatuses(k)' = EntryStatuses(k)
      BY <2>2, OtherEntries DEF WorkerMoved, QuietParts, GoesOn, Ends, Begins
    <3> QED
      BY <1>2, <3>1, <3>2 DEF QuietParts, StatusesFit, Exists
  <2> QED
    BY <2>1, <2>2
<1>3. FailuresAreGone'
  <2> SUFFICES ASSUME NEW h \in failing' PROVE ~Exists(h.job)'
    BY DEF FailuresAreGone
  <2>1. h.job \in Jobs
    BY DEF TypeInv, TypeOK, FailureRecords
  <2>2. ~Exists(h.job)
    BY DEF WorkerMoved, QuietParts, FailuresAreGone
  <2> QED
    BY <2>1, <2>2 DEF WorkerMoved, Exists
<1>4. NothingLives
  BY DEF WorkerMoved, NothingLives, Live, ActiveStatuses, Exists
<1>5. RequestsFit'
  <2> SUFFICES ASSUME NEW c \in Callers, call[c].pc = "update_write",
                      row'[call[c].job] \notin {Unborn, Deleted}
               PROVE  row'[call[c].job].status \in ContentStatuses
    BY DEF WorkerMoved, RequestsFit, Exists
  <2>1. call[c].job \in Jobs
    BY DEF TypeInv, InHand, RequestsInHand
  <2>2. Exists(call[c].job)
    BY <1>4, <2>1 DEF NothingLives, Exists
  <2>3. row[call[c].job].status \in ContentStatuses
    BY <2>2 DEF QuietParts, RequestsFit
  <2> QED
    BY <2>1, <2>3 DEF WorkerMoved, ContentStatuses
<1> QED
  BY <1>1, <1>2, <1>3, <1>4, <1>5, LiveKept DEF QuietParts, StatusesFit, WorkerMoved

\* What a worker finds when it takes an entry is what waited there.
LEMMA TakesFit ==
  ASSUME TypeInv, QuietParts, NEW r \in Replicas, NEW j \in Jobs, Take(r, j)
  PROVE  WorkerMoved(r, j)
<1>0. run \in [Replicas -> RunRecords] /\ QueueTypeOK
  BY DEF TypeInv, TypeOK
<1>1. UNCHANGED <<row, failing, call>>
  BY DEF Take
<1>2. Moves(r, j) /\ Begins(r, j)
  BY <1>0 DEF Take, Deliver, QueueTypeOK, Moves, Begins, NoRun
<1>3. EntryStatuses(j) = {"pending"} /\ EntryStatuses(j)' = {"pending"}
  BY <1>2 DEF Begins, EntryStatuses, RunStatuses
<1> QED
  BY <1>1, <1>2, <1>3 DEF WorkerMoved, QuietParts, StatusesFit, Exists

\* Steps that no worker takes: rows stay or go, entries that are not locked move
\* to where their jobs may be.
EntryStays(k) ==
  \/ bull'[k] = bull[k]
  \/ /\ bull[k].state # "active" /\ bull'[k].state # "active"
     /\ EntryStatuses(k) \subseteq EntryStatuses(k)'
RowsFade == \A k \in Jobs : row'[k] = row[k] \/ ~Exists(k)'

\* Such entries keep their locks, and allow the statuses they allowed.
LEMMA EntriesFit ==
  ASSUME TypeInv, Owned, UNCHANGED run, \A k \in Jobs : EntryStays(k)
  PROVE  /\ Owned'
         /\ \A k \in Jobs : EntryStatuses(k) \subseteq EntryStatuses(k)'
<1>1. ASSUME NEW r \in Replicas, NEW k \in Jobs
      PROVE  Working(r, k)' <=> Working(r, k)
  BY <1>1 DEF EntryStays, Working, HoldsLock
<1>2. ASSUME NEW r \in Replicas, run'[r].pc # "idle" PROVE Working(r, run[r].job)'
  BY <1>2 DEF EntryStays, Owned, Working, HoldsLock, TypeInv, InHand, WorkersInHand
<1>3. ASSUME NEW k \in Jobs, bull'[k].state = "active"
      PROVE  \E r \in Replicas : Working(r, k)'
  BY <1>1, <1>3 DEF EntryStays, Owned
<1>4. ASSUME NEW k \in Jobs PROVE EntryStatuses(k) \subseteq EntryStatuses(k)'
  BY DEF EntryStays, EntryStatuses
<1> QED
  BY <1>2, <1>3, <1>4 DEF Owned

\* Such steps keep the invariant, but for the requests that move.
LEMMA FadesFit ==
  ASSUME TypeInv, TypeInv', QuietParts, UNCHANGED run, \A k \in Jobs : EntryStays(k),
         RowsFade, failing' \subseteq failing
  PROVE  /\ Owned' /\ StatusesFit' /\ FailuresAreGone'
         /\ UNCHANGED call => RequestsFit' /\ CountFits'
<1>1. /\ Owned'
      /\ \A k \in Jobs : EntryStatuses(k) \subseteq EntryStatuses(k)'
  BY EntriesFit DEF QuietParts
<1>2. StatusesFit'
  BY <1>1 DEF QuietParts, StatusesFit, RowsFade, Exists
<1>3. FailuresAreGone'
  BY DEF QuietParts, FailuresAreGone, RowsFade, TypeInv, TypeOK, FailureRecords, Exists
<1>4. NothingLives
  BY DEF NothingLives, Live, RowsFade, Exists
<1>5. ASSUME UNCHANGED call PROVE RequestsFit' /\ CountFits'
  <2>1. \A c \in Callers : call[c].pc = "update_write" => call[c].job \in Jobs
    BY DEF TypeInv, InHand, RequestsInHand
  <2>2. RequestsFit'
    BY <1>5, <2>1 DEF QuietParts, RequestsFit, RowsFade, Exists
  <2> QED
    BY <1>4, <1>5, <2>2, LiveKept DEF QuietParts
<1> QED
  BY <1>1, <1>2, <1>3, <1>5
\* A request inserts after it has found no live job, and writes a status after it
\* has read one that allows it; the other requests stay where they are.
LEMMA RequestsMove ==
  ASSUME TypeInv, NEW c \in Callers, StartCreate(c) \/ StartUpdate(c) \/ CallStep(c)
  PROVE  /\ \A d \in Callers \ {c} : call'[d] = call[d]
         /\ call'[c].pc = "insert" =>
              /\ UNCHANGED row
              /\ call'[c].job \in Jobs /\ LiveDuplicates(call'[c].job) = {}
         /\ call'[c].pc = "update_write" =>
              /\ UNCHANGED row
              /\ TransitionAllowed(row[call'[c].job].status, call'[c].to)
<1>0. call \in [Callers -> CallRecords]
  BY DEF TypeInv, TypeOK
<1>1. ASSUME NEW pc \in {"existing", "create_log", "enqueue", "idle", "created", "project",
                         "update_read", "duplicate_log"},
             call'[c].pc = pc
      PROVE  call'[c].pc # "insert" /\ call'[c].pc # "update_write"
  BY <1>1
<1>9. ASSUME NEW d \in Callers, d # c PROVE call'[d] = call[d]
  BY <1>0, <1>9
  DEF StartCreate, StartUpdate, CallStep, CheckProject, FindExisting, LogDuplicate,
      InsertRow, LogCreated, Enqueue, ReadForUpdate, WriteUpdate, GoOn, Answer, AnswerJob
<1>2. CASE StartCreate(c)
  BY <1>0, <1>2 DEF StartCreate, NoCall
<1>3. CASE StartUpdate(c)
  BY <1>0, <1>3 DEF StartUpdate
<1>4. CASE CheckProject(c) \/ LogCreated(c)
  <2>1. GoOn(c, "existing") \/ GoOn(c, "enqueue") \/ Answer(c)
    BY <1>4 DEF CheckProject, LogCreated
  <2> QED
    BY <1>0, <1>1, <2>1, GoOnEffect, AnswerEffect DEF CreatePcs
<1>5. CASE LogDuplicate(c) \/ Enqueue(c)
  <2>1. call[c].job \in Jobs
    BY <1>5 DEF LogDuplicate, Enqueue, TypeInv, InHand, RequestsInHand
  <2>2. AnswerJob(c, call[c].job) \/ Answer(c)
    BY <1>5 DEF LogDuplicate, Enqueue
  <2> QED
    BY <1>0, <1>1, <2>1, <2>2, AnswerJobEffect, AnswerEffect
<1>6. CASE InsertRow(c) \/ WriteUpdate(c)
  <2>1. GoOn(c, "create_log") \/ Answer(c)
    BY <1>6 DEF InsertRow, WriteUpdate
  <2> QED
    BY <1>0, <1>1, <2>1, GoOnEffect, AnswerEffect DEF CreatePcs
<1>7. CASE FindExisting(c)
  <2>1. call[c].job \in Jobs /\ UNCHANGED row
    BY <1>7 DEF FindExisting, TypeInv, InHand, RequestsInHand
  <2>2. CASE LiveDuplicates(call[c].job) = {} /\ GoOn(c, "insert")
    BY <1>0, <2>1, <2>2, GoOnEffect DEF CreatePcs
  <2>3. ASSUME NEW k, call' = [call EXCEPT ![c].pc = "duplicate_log", ![c].job = k]
        PROVE  call'[c].pc = "duplicate_log"
    BY <1>0, <2>3 DEF CallRecords
  <2> QED
    BY <1>7, <1>9, <2>2, <2>3 DEF FindExisting
<1>8. CASE ReadForUpdate(c)
  <2>1. CASE MayBecome(call[c].job, call[c].to)
    <3>1. call' = [call EXCEPT ![c].pc = "update_write", ![c].seen = row[call[c].job].status]
      BY <1>8, <2>1 DEF ReadForUpdate
    <3>2. /\ call'[c].pc = "update_write" /\ call'[c].job = call[c].job
          /\ call'[c].to = call[c].to
      BY <1>0, <3>1 DEF CallRecords
    <3> QED
      BY <1>8, <1>9, <2>1, <3>2 DEF ReadForUpdate, MayBecome
  <2>2. CASE ~MayBecome(call[c].job, call[c].to)
    <3>1. Answer(c)
      BY <1>8, <2>2 DEF ReadForUpdate
    <3> QED
      BY <1>0, <1>1, <3>1, AnswerEffect
  <2> QED
    BY <2>1, <2>2
<1> QED
  BY <1>2, <1>3, <1>4, <1>5, <1>6, <1>7, <1>8, <1>9 DEF CallStep

\* What a client's step does to the rows: insert, or write the status it asks for.
LEMMA RequestRows ==
  ASSUME TypeInv, NEW c \in Callers, StartCreate(c) \/ StartUpdate(c) \/ CallStep(c)
  PROVE  \/ UNCHANGED row
         \/ /\ call[c].pc = "insert" /\ call[c].job \in Jobs /\ row[call[c].job] = Unborn
            /\ row' = [row EXCEPT ![call[c].job] = NewRow]
            /\ UNCHANGED bull /\ call'[c].pc \notin {"insert", "update_write"}
         \/ /\ call[c].pc = "update_write" /\ call[c].job \in Jobs /\ Exists(call[c].job)
            /\ call[c].to \in AdminTargets
            /\ row' = [row EXCEPT ![call[c].job] = StatusRow(row[call[c].job], call[c].to)]
            /\ UNCHANGED bull /\ call'[c].pc \notin {"insert", "update_write"}
<1>0. call \in [Callers -> CallRecords]
  BY DEF TypeInv, TypeOK
<1>1. ASSUME InsertRow(c), row' # row
      PROVE  /\ call[c].pc = "insert" /\ call[c].job \in Jobs /\ row[call[c].job] = Unborn
             /\ row' = [row EXCEPT ![call[c].job] = NewRow]
             /\ UNCHANGED bull /\ call'[c].pc \notin {"insert", "update_write"}
  BY <1>0, <1>1, GoOnEffect DEF InsertRow, TypeInv, InHand, RequestsInHand, NewIdPcs, CreatePcs
<1>2. ASSUME WriteUpdate(c), row' # row
      PROVE  /\ call[c].pc = "update_write" /\ call[c].job \in Jobs /\ Exists(call[c].job)
             /\ call[c].to \in AdminTargets
             /\ row' = [row EXCEPT ![call[c].job] = StatusRow(row[call[c].job], call[c].to)]
             /\ UNCHANGED bull /\ call'[c].pc \notin {"insert", "update_write"}
  BY <1>0, <1>2, AnswerEffect
  DEF WriteUpdate, TypeInv, InHand, RequestsInHand, UpdatesChecked, UpdatePcs
<1> QED
  BY <1>1, <1>2
  DEF StartCreate, StartUpdate, CallStep, CheckProject, FindExisting, LogDuplicate,
      InsertRow, LogCreated, Enqueue, ReadForUpdate, WriteUpdate

\* A status that is about to be written finds its job generated, by whoever.
LEMMA RequestsStayFit ==
  ASSUME TypeInv, TypeInv', QuietParts, ForwardTargets, NEW c \in Callers,
         StartCreate(c) \/ StartUpdate(c) \/ CallStep(c)
  PROVE  RequestsFit'
<1>0. row \in RowsType /\ \A d \in Callers : call[d].pc = "update_write" =>
        call[d].job \in Jobs /\ call[d].to \in AdminTargets /\ row[call[d].job] # Unborn
  BY DEF TypeInv, TypeOK, RowsType, InHand, RequestsInHand, UpdatesChecked, UpdatePcs, NewIdPcs
<1>1. ASSUME NEW j \in Jobs, Exists(j), NEW to \in AdminTargets,
             TransitionAllowed(row[j].status, to)
      PROVE  row[j].status \in ContentStatuses /\ to \in ContentStatuses
  BY <1>0, <1>1, ForwardFrom DEF RowsType, Exists, Rows
<1>2. ASSUME call'[c].pc = "update_write", Exists(call[c].job)'
      PROVE  row'[call'[c].job].status \in ContentStatuses
  <2>1. UNCHANGED row /\ TransitionAllowed(row[call'[c].job].status, call'[c].to)
    BY <1>2, RequestsMove
  <2>2. call'[c].job \in Jobs /\ call'[c].to \in AdminTargets
    BY <1>2 DEF TypeInv, InHand, RequestsInHand, UpdatesChecked, UpdatePcs
  <2> QED
    BY <1>1, <1>2, <2>1, <2>2 DEF Exists
<1>3. ASSUME NEW d \in Callers, d # c, call'[d].pc = "update_write", Exists(call[d].job)'
      PROVE  row'[call'[d].job].status \in ContentStatuses
  <2>1. call'[d] = call[d]
    BY <1>3, RequestsMove
  <2>2. CASE row'[call[d].job] = row[call[d].job]
    BY <1>3, <2>1, <2>2 DEF QuietParts, RequestsFit, Exists
  <2>3. CASE row'[call[d].job] # row[call[d].job]
    <3> DEFINE j == call[c].job
               x == StatusRow(row[j], call[c].to)
    <3>1. /\ call[c].pc = "update_write" /\ j \in Jobs /\ Exists(j) /\ j = call[d].job
          /\ call[c].to \in AdminTargets /\ row' = [row EXCEPT ![j] = x]
      BY <1>0, <1>3, <2>1, <2>3, RequestRows DEF RowsType
    <3>2. call[c].to \in LaterStatuses /\ row[j] \in Rows
      BY <1>0, <3>1 DEF ForwardTargets, RowsType, Exists
    <3>3. x.status = call[c].to
      BY <3>2 DEF StatusRow, Rows
    <3> HIDE DEF x
    <3> QED
      BY <1>0, <2>1, <3>1, <3>2, <3>3 DEF RowsType, LaterStatuses, ContentStatuses
  <2> QED
    BY <2>2, <2>3
<1> QED
  BY <1>2, <1>3 DEF RequestsFit

\* A client adds to the live jobs of a topic only what it was counted for; it is
\* counted when it finds none.
LEMMA RequestsCounted ==
  ASSUME TypeInv, TypeInv', QuietParts, ForwardTargets, NEW c \in Callers,
         StartCreate(c) \/ StartUpdate(c) \/ CallStep(c)
  PROVE  CountFits'
<1>0. row \in RowsType /\ CountFits
  BY DEF TypeInv, TypeOK, RowsType, QuietParts
<1> SUFFICES ASSUME NEW t \in Topics PROVE Bound(t)'
  BY DEF CountFits
<1>1. \A d \in Callers : d # c => call'[d] = call[d]
  BY RequestsMove
<1>2. CASE UNCHANGED row /\ call'[c].pc # "insert"
  <2>1. Creators(t)' \subseteq Creators(t)
    BY <1>1, <1>2 DEF Creators
  <2>2. ASSUME NEW j \in Jobs, Reviver(c, j)' PROVE Live(j)
    <3>1. /\ call'[c].pc = "update_write" /\ call'[c].job = j /\ call'[c].to \in ActiveStatuses
          /\ Exists(j) /\ row[j].status \in ContentJobStatuses
      BY <1>0, <1>2, <2>2 DEF Reviver, Exists, RowsType, Rows
    <3>2. TransitionAllowed(row[j].status, call'[c].to) /\ call'[c].to \in AdminTargets
      BY <3>1, RequestsMove DEF TypeInv, InHand, UpdatesChecked, UpdatePcs
    <3> QED
      BY <3>1, <3>2, ForwardFrom DEF Live
  <2>3. MayLive(t)' \subseteq MayLive(t)
    BY <1>1, <1>2, <2>2 DEF MayLive, Live, Reviver, Exists
  <2> QED
    BY <1>0, <2>1, <2>3, BoundKept DEF CountFits
<1>3. CASE call'[c].pc = "insert"
  <2>1. UNCHANGED row /\ call'[c].job \in Jobs /\ LiveDuplicates(call'[c].job) = {}
    BY <1>3, RequestsMove
  <2>2. CASE TopicOf[call'[c].job] = t
    <3>1. \A j \in Jobs : TopicOf[j] = t => ~Live(j)'
      BY <2>1, <2>2 DEF LiveDuplicates, Live, Exists
    <3> QED
      BY <3>1, NoneLiveNext
  <2>3. CASE TopicOf[call'[c].job] # t
    <3>1. Creators(t)' \subseteq Creators(t) /\ MayLive(t)' \subseteq MayLive(t)
      BY <1>1, <1>3, <2>1, <2>3 DEF Creators, MayLive, Live, Reviver, Exists
    <3> QED
      BY <1>0, <3>1, BoundKept DEF CountFits
  <2> QED
    BY <2>2, <2>3
<1> DEFINE i == call[c].job
<1>4. ASSUME call[c].pc = "insert", i \in Jobs, call'[c].pc \notin {"insert", "update_write"},
             row' = [row EXCEPT ![i] = NewRow]
      PROVE  Bound(t)'
  <2>1. \A k \in Jobs \ {i} : row'[k] = row[k]
    BY <1>0, <1>4 DEF RowsType
  <2>2. MayLive(t)' \subseteq MayLive(t) \cup (IF TopicOf[i] = t THEN {i} ELSE {})
    BY <1>1, <1>4, <2>1 DEF MayLive, Live, Reviver, Exists
  <2>3. Creators(t)' \subseteq Creators(t) \ {c} /\ (TopicOf[i] = t => c \in Creators(t))
    BY <1>1, <1>4 DEF Creators
  <2> HIDE DEF i
  <2> QED
    BY <1>0, <2>2, <2>3, BoundKept, BoundInserted DEF CountFits
<1>5. ASSUME call[c].pc = "update_write", NEW j \in Jobs, call[c].job = j, Exists(j),
             call'[c].pc \notin {"insert", "update_write"}, call[c].to \in AdminTargets,
             row' = [row EXCEPT ![j] = StatusRow(row[j], call[c].to)]
      PROVE  Bound(t)'
  <2>1. \A k \in Jobs \ {j} : row'[k] = row[k]
    BY <1>0, <1>5 DEF RowsType
  <2>2. row'[j].status = call[c].to
    BY <1>0, <1>5 DEF RowsType, Exists, StatusRow, Rows
  <2>3. Live(j)' => Reviver(c, j)
    BY <1>5, <2>2 DEF Live, Reviver
  <2>4. \A k \in Jobs : Exists(k)' => Exists(k)
    BY <1>5, <2>1 DEF Exists
  <2>5. \A k \in Jobs \ {j} : Live(k)' => Live(k)
    BY <2>1 DEF Live, Exists
  <2>6. \A d \in Callers, k \in Jobs : Reviver(d, k)' => Reviver(d, k)
    BY <1>1, <1>5, <2>4 DEF Reviver
  <2>7. MayLive(t)' \subseteq MayLive(t)
    BY <2>3, <2>5, <2>6 DEF MayLive
  <2>8. Creators(t)' \subseteq Creators(t)
    BY <1>1, <1>5 DEF Creators
  <2> QED
    BY <1>0, <2>7, <2>8, BoundKept DEF CountFits
<1> QED
  BY <1>2, <1>3, <1>4, <1>5, RequestRows

\* The clients' steps keep the invariant: an insert makes a job that waits to be
\* queued, and an update moves on a job the workers are done with.
LEMMA ClientFits ==
  ASSUME TypeInv, TypeInv', QuietParts, ForwardTargets, NEW c \in Callers,
         StartCreate(c) \/ StartUpdate(c) \/ CallStep(c)
  PROVE  QuietParts'
<1>0. /\ call \in [Callers -> CallRecords] /\ row \in RowsType /\ QueueTypeOK
  BY DEF TypeInv, TypeOK, RowsType
<1>1. RequestsFit' /\ CountFits'
  BY RequestsStayFit, RequestsCounted
<1>2. UNCHANGED <<run, failing>>
  BY DEF StartCreate, StartUpdate, CallStep, CheckProject, FindExisting, LogDuplicate,
         InsertRow, LogCreated, Enqueue, ReadForUpdate, WriteUpdate
<1>3. ASSUME \A k \in Jobs : EntryStays(k), UNCHANGED row PROVE QuietParts'
  <2>1. RowsFade
    BY <1>3 DEF RowsFade
  <2> QED
    BY <1>1, <1>2, <1>3, <2>1, FadesFit DEF QuietParts
<1>4. CASE Enqueue(c)
  <2>1. ASSUME NEW k \in Jobs PROVE EntryStays(k)
    BY <1>0, <1>4 DEF Enqueue, Add, EntryStays, EntryStatuses, QueueTypeOK
  <2> QED
    BY <1>3, <1>4, <2>1 DEF Enqueue
<1>5. ASSUME UNCHANGED bull, NEW j \in Jobs, NEW x \in Rows, row' = [row EXCEPT ![j] = x],
             x.status \in EntryStatuses(j), \A h \in failing : h.job # j
      PROVE  QuietParts'
  <2>1. row'[j] = x /\ \A k \in Jobs \ {j} : row'[k] = row[k]
    BY <1>0, <1>5 DEF RowsType
  <2>2. /\ Owned'
        /\ \A k \in Jobs : EntryStatuses(k)' = EntryStatuses(k)
    BY <1>2, <1>5 DEF QuietParts, Owned, Working, HoldsLock, EntryStatuses
  <2>3. StatusesFit'
    BY <1>5, <2>1, <2>2 DEF QuietParts, StatusesFit, Exists
  <2>4. FailuresAreGone'
    BY <1>2, <1>5, <2>1 DEF QuietParts, FailuresAreGone, TypeInv, TypeOK, FailureRecords, Exists
  <2> QED
    BY <1>1, <2>2, <2>3, <2>4 DEF QuietParts
<1> DEFINE j == call[c].job
           to == call[c].to
<1>6. ASSUME j \in Jobs, row[j] = Unborn, row' = [row EXCEPT ![j] = NewRow], UNCHANGED bull
      PROVE  QuietParts'
  <2>1. bull[j].state = "none" /\ \A h \in failing : h.job # j
    BY <1>6 DEF TypeInv, InHand, EntriesInHand, HandlersInHand
  <2>2. NewRow \in Rows /\ NewRow.status \in EntryStatuses(j)
    BY <2>1, RowValues DEF EntryStatuses, NewRow
  <2> HIDE DEF j
  <2> QED
    BY <1>5, <1>6, <2>1, <2>2
<1>7. ASSUME call[c].pc = "update_write", j \in Jobs, Exists(j), to \in AdminTargets,
             row' = [row EXCEPT ![j] = StatusRow(row[j], to)], UNCHANGED bull
      PROVE  QuietParts'
  <2>1. row[j] \in Rows /\ row[j].status \in ContentStatuses /\ to \in ContentStatuses
    BY <1>0, <1>7
    DEF RowsType, Exists, QuietParts, RequestsFit, ForwardTargets, LaterStatuses, ContentStatuses
  <2>2. StatusRow(row[j], to) \in Rows /\ StatusRow(row[j], to).status = to
    BY <1>7, <2>1, PipelineAssumption DEF StatusRow, Rows
  <2>3. to \in EntryStatuses(j)
    <3>1. row[j].status \in EntryStatuses(j)
      BY <1>7 DEF QuietParts, StatusesFit
    <3> QED
      BY <2>1, <3>1 DEF EntryStatuses, RunStatuses, ContentStatuses
  <2>4. \A h \in failing : h.job # j
    BY <1>7 DEF QuietParts, FailuresAreGone
  <2> HIDE DEF j, to
  <2> QED
    BY <1>5, <1>7, <2>2, <2>3, <2>4
<1>8. ASSUME UNCHANGED bull, UNCHANGED row PROVE QuietParts'
  BY <1>3, <1>8 DEF EntryStays
<1>9. Enqueue(c) \/ UNCHANGED bull
  BY DEF StartCreate, StartUpdate, CallStep, CheckProject, FindExisting, LogDuplicate,
         InsertRow, LogCreated, ReadForUpdate, WriteUpdate
<1> QED
  BY <1>4, <1>6, <1>7, <1>8, <1>9, RequestRows
\* The steps of the handler, of the queue and of deletions touch no live job and
\* no request.
LEMMA OthersFit ==
  ASSUME TypeInv, TypeInv', QuietParts,
         \/ UNCHANGED vars \/ HandlerStep
         \/ \E j \in Jobs : EndDelay(j)
         \/ \E p \in Projects : RemoveProject(p)
  PROVE  QuietParts'
<1>0. row \in RowsType /\ QueueTypeOK
  BY DEF TypeInv, TypeOK, RowsType
<1>1. ASSUME UNCHANGED <<run, call>>, \A k \in Jobs : EntryStays(k), RowsFade,
             failing' \subseteq failing
      PROVE  QuietParts'
  BY <1>1, FadesFit DEF QuietParts
<1>2. CASE UNCHANGED vars
  BY <1>1, <1>2 DEF vars, EntryStays, RowsFade
<1>3. ASSUME NEW h \in failing, ReadFailed(h) \/ WriteFailed(h) PROVE QuietParts'
  <2>1. ~Exists(h.job)
    BY DEF QuietParts, FailuresAreGone
  <2>2. failing' = failing \ {h} /\ UNCHANGED <<row, bull, run, call>>
    BY <1>3, <2>1 DEF ReadFailed, WriteFailed, MayBecome
  <2> QED
    BY <1>1, <2>2 DEF EntryStays, RowsFade
<1>4. ASSUME NEW j \in Jobs, EndDelay(j) PROVE QuietParts'
  <2>1. bull[j].state = "delayed" /\ bull' = [bull EXCEPT ![j].state = "wait"]
    BY <1>4 DEF EndDelay, Promote
  <2>2. bull'[j].state = "wait" /\ \A k \in Jobs \ {j} : bull'[k] = bull[k]
    BY <1>0, <2>1 DEF QueueTypeOK
  <2>3. \A k \in Jobs : EntryStays(k)
    BY <2>1, <2>2 DEF EntryStays, EntryStatuses
  <2> QED
    BY <1>1, <1>4, <2>3 DEF EndDelay, RowsFade
<1>5. ASSUME NEW p \in Projects, RemoveProject(p) PROVE QuietParts'
  BY <1>0, <1>1, <1>5 DEF RemoveProject, EntryStays, RowsFade, RowsType, Exists
<1> QED
  BY <1>2, <1>3, <1>4, <1>5 DEF HandlerStep

\* With clients that move jobs on, QuietInv is inductive.
LEMMA QuietInvariance ==
  ASSUME ForwardTargets
  PROVE  Spec => []QuietInv
<1>1. ASSUME Init PROVE QuietInv
  <2>1. Owned /\ StatusesFit /\ FailuresAreGone /\ RequestsFit
    BY <1>1 DEF Init, QueueInit, NoRun, NoCall, Owned, StatusesFit, FailuresAreGone,
                RequestsFit, Exists
  <2>2. CountFits
    BY <1>1, NoneLive DEF CountFits, Init, Live, Exists
  <2> QED
    BY <2>1, <2>2 DEF QuietInv, QuietParts
<1>2. TypeInv /\ QuietInv /\ [Next]_vars => QuietInv'
  <2> SUFFICES ASSUME TypeInv, QuietInv, [Next]_vars, faults' = 0 PROVE QuietParts'
    BY DEF QuietInv
  <2>1. QuietParts /\ TypeInv' /\ QuietStep
    BY FaultsCount, QuietSteps, StepsKeepTypes DEF QuietInv, QuietParts
  <2>2. ASSUME NEW r \in Replicas, RunStep(r) PROVE QuietParts'
    <3>1. run[r].job \in Jobs /\ WorkerMoved(r, run[r].job)
      BY <2>1, <2>2, WorkerMoves
      DEF RunStep, ReadSending, WriteSending, LogSending, Load, ReadGenerated,
          WriteGenerated, LogGenerated, Complete, Fail, TypeInv, InHand, WorkersInHand
    <3> QED
      BY <2>1, <3>1, WorkersFit
  <2>3. ASSUME NEW r \in Replicas, NEW j \in Jobs, Take(r, j) PROVE QuietParts'
    BY <2>1, <2>3, TakesFit, WorkersFit
  <2>4. ASSUME NEW c \in Callers, StartCreate(c) \/ StartUpdate(c) \/ CallStep(c)
        PROVE  QuietParts'
    BY <2>1, <2>4, ClientFits
  <2> QED
    BY <2>1, <2>2, <2>3, <2>4, OthersFit DEF QuietStep
<1> QED
  BY <1>1, <1>2, TypeInvariance, PTL DEF Spec

\* Where clients only move jobs on, a topic never has more live jobs than there are
\* clients, however their lookups and inserts, their checks and writes, and the
\* workers of all replicas interleave, until an attempt is refused or lost.
THEOREM LiveJobsAreBounded == Spec => []LiveJobsBounded
<1>1. CASE ForwardTargets
  <2>1. QuietInv => LiveJobsBounded
    <3> SUFFICES ASSUME QuietParts, NEW j \in Jobs
                 PROVE  Cardinality(LiveDuplicates(j)) <= Cardinality(Callers)
      BY DEF QuietInv, LiveJobsBounded
    <3>1. TopicOf[j] \in Topics /\ Bound(TopicOf[j])
      BY PipelineAssumption DEF QuietParts, CountFits
    <3>2. LiveDuplicates(j) \subseteq MayLive(TopicOf[j])
      BY DEF LiveDuplicates, MayLive, Live
    <3>3. /\ Cardinality(LiveDuplicates(j)) <= Cardinality(MayLive(TopicOf[j]))
          /\ IsFiniteSet(LiveDuplicates(j)) /\ IsFiniteSet(MayLive(TopicOf[j]))
      BY <3>1, <3>2, FS_Subset DEF Bound
    <3>4. /\ Cardinality(LiveDuplicates(j)) \in Nat /\ Cardinality(MayLive(TopicOf[j])) \in Nat
          /\ Cardinality(Creators(TopicOf[j])) \in Nat /\ Cardinality(Callers) \in Nat
      BY <3>3, FS_CardinalityType, CreatorsCounted
    <3> QED
      BY <3>1, <3>3, <3>4 DEF Bound
  <2> QED
    BY <1>1, <2>1, QuietInvariance, PTL
<1>2. CASE ~ForwardTargets
  <2>1. LiveJobsBounded
    BY <1>2 DEF ForwardTargets, LiveJobsBounded
  <2> QED
    BY <2>1, PTL
<1> QED
  BY <1>1, <1>2

--------------------------------------------------------------------------------
(* Jobs in no queue *)

\* A request about to enqueue a job does not lose it but by a fault.
LEMMA AttendantStays ==
  ASSUME TypeInv, [Next]_vars, faults = 0, faults' = 0, NEW j \in Jobs, Exists(j),
         NEW c \in Callers, call[c].pc \in {"create_log", "enqueue"}, call[c].job = j
  PROVE  \/ call'[c].pc \in {"create_log", "enqueue"} /\ call'[c].job = j
         \/ bull'[j].state # "none"
<1>0. call \in [Callers -> CallRecords] /\ QueueTypeOK
  BY DEF TypeInv, TypeOK
<1>1. CASE UNCHANGED call
  BY <1>1
<1>2. CASE LogCreated(c)
  <2>1. GoOn(c, "enqueue")
    BY <1>2 DEF LogCreated
  <2> QED
    BY <1>0, <2>1, GoOnEffect DEF CreatePcs
<1>3. CASE Enqueue(c)
  BY <1>0, <1>3 DEF Enqueue, Add, QueueTypeOK
<1>4. ASSUME NEW d \in Callers, d # c,
             StartCreate(d) \/ StartUpdate(d) \/ CallStep(d)
      PROVE  call'[c] = call[c]
  BY <1>0, <1>4
  DEF StartCreate, StartUpdate, CallStep, CheckProject, FindExisting, LogDuplicate,
      InsertRow, LogCreated, Enqueue, ReadForUpdate, WriteUpdate, GoOn, Answer, AnswerJob
<1>5. ASSUME StartCreate(c) \/ StartUpdate(c) \/ CallStep(c)
      PROVE  LogCreated(c) \/ Enqueue(c)
  BY <1>5
  DEF StartCreate, StartUpdate, CallStep, Busy, CreatePcs, CheckProject, FindExisting,
      LogDuplicate, InsertRow, ReadForUpdate, WriteUpdate
<1>6. ASSUME (\E d \in Callers : RefuseCall(d)) \/ \E r \in Replicas : Crash(r) PROVE FALSE
  BY <1>6 DEF RefuseCall, Crash
<1> QED
  BY <1>1, <1>2, <1>3, <1>4, <1>5, <1>6
  DEF Next, vars, RunStep, RefuseRun, Take, Stalled, ReadSending, ReadGenerated, ReadFor,
      WriteSending, WriteGenerated, WriteRow, LogSending, LogGenerated, Load, NeedRow,
      Complete, Fail, HandlerStep, ReadFailed, WriteFailed, RefuseFailed, EndDelay,
      RemoveProject

\* Only a refused or lost call leaves a job out of the queue, however many clients
\* create, find and delete it at once.
THEOREM UnqueuedStaysAttended == Spec => []UnqueuedIsAttended
<1>1. Init => UnqueuedIsAttended
  BY DEF Init, UnqueuedIsAttended, Exists
<1>2. TypeInv /\ UnqueuedIsAttended /\ [Next]_vars => UnqueuedIsAttended'
  <2> SUFFICES ASSUME TypeInv, UnqueuedIsAttended, [Next]_vars, faults' = 0,
                      NEW j \in Jobs, Exists(j)', bull'[j].state = "none"
               PROVE  \E c \in Callers : /\ call'[c].pc \in {"create_log", "enqueue"}
                                         /\ call'[c].job = j
    BY DEF UnqueuedIsAttended
  <2>0. faults = 0
    BY FaultsCount
  <2>1. CASE Exists(j)
    <3>1. bull[j].state = "none"
      BY StepOnQueue, QueueStepEffect DEF TypeInv, TypeOK
    <3>2. PICK c \in Callers : call[c].pc \in {"create_log", "enqueue"} /\ call[c].job = j
      BY <2>0, <2>1, <3>1 DEF UnqueuedIsAttended
    <3> QED
      BY <2>0, <2>1, <3>2, AttendantStays
  <2>2. CASE ~Exists(j)
    <3>1. Inserted(j) /\ row' # row
      BY <2>2, StepOnRow DEF RowStep, Removed, Sent, Completed, Failed, Updated, Exists
    <3>2. PICK c \in Callers : InsertRow(c) /\ call[c].job = j /\ GoOn(c, "create_log")
      BY <3>1 DEF Inserted, InsertRow
    <3>3. call'[c].pc = "create_log" /\ call'[c].job = j
      BY <3>2, GoOnEffect DEF TypeInv, TypeOK, CreatePcs
    <3> QED
      BY <3>3
  <2> QED
    BY <2>1, <2>2
<1> QED
  BY <1>1, <1>2, TypeInvariance, PTL DEF Spec
================================================================================

------------------------- MODULE ContentPipelineProofs -------------------------
(***************************************************************************)
(* Proofs about ContentPipeline, for any number of jobs, replicas, callers *)
(* and faults.                                                             *)
(***************************************************************************)
EXTENDS ContentPipeline, TLAPS

--------------------------------------------------------------------------------
(* The records of rows, workers and requests *)

\* The updates of a row keep its type.
LEMMA RowValues ==
  /\ NewRow \in Rows
  /\ \A x \in Rows :
       /\ SendingRow(x) \in Rows
       /\ GeneratedRow(x) \in Rows
       /\ FailedRow(x) \in Rows
       /\ x.status \in ContentJobStatuses
       /\ \A s \in ContentJobStatuses : StatusRow(x, s) \in Rows
<1>1. NewRow \in Rows
  BY DEF NewRow, Rows, ContentJobStatuses
<1>2. ASSUME NEW x \in Rows PROVE SendingRow(x) \in Rows
  <2>1. x.attempts + 1 \in Nat
    BY DEF Rows
  <2> QED
    BY <2>1 DEF Rows, SendingRow, ContentJobStatuses
<1>3. ASSUME NEW x \in Rows PROVE GeneratedRow(x) \in Rows
  BY DEF Rows, GeneratedRow, ContentJobStatuses
<1>4. ASSUME NEW x \in Rows PROVE FailedRow(x) \in Rows
  BY DEF Rows, FailedRow, ContentJobStatuses
<1>5. ASSUME NEW x \in Rows PROVE x.status \in ContentJobStatuses
  BY DEF Rows
<1>6. ASSUME NEW x \in Rows, NEW s \in ContentJobStatuses
      PROVE StatusRow(x, s) \in Rows
  BY DEF Rows, StatusRow
<1> QED
  BY <1>1, <1>2, <1>3, <1>4, <1>5, <1>6

\* The updates of a worker's record keep its type.
LEMMA RunValues ==
  /\ NoRun \in RunRecords
  /\ \A x \in RunRecords :
       /\ \A pc \in RunPcs : [x EXCEPT !.pc = pc] \in RunRecords
       /\ \A j \in Jobs : [x EXCEPT !.job = j] \in RunRecords
       /\ \A s \in ContentJobStatuses : [x EXCEPT !.seen = s] \in RunRecords
  BY DEF NoRun, RunRecords

\* The updates of a request's record keep its type.
LEMMA CallValues ==
  /\ NoCall \in CallRecords
  /\ \A x \in CallRecords :
       /\ \A pc \in CreatePcs \cup UpdatePcs \cup {"created"} :
            [x EXCEPT !.pc = pc] \in CallRecords
       /\ \A j \in Jobs : [x EXCEPT !.job = j] \in CallRecords
       /\ \A s \in ContentJobStatuses : [x EXCEPT !.seen = s] \in CallRecords
  BY DEF NoCall, CallRecords

\* What GoOn, Answer and AnswerJob do to the fields of the requests.
LEMMA GoOnEffect ==
  ASSUME call \in [Callers -> CallRecords], NEW c \in Callers,
         NEW pc \in CreatePcs \cup UpdatePcs, GoOn(c, pc)
  PROVE  /\ call' \in [Callers -> CallRecords]
         /\ call'[c].pc = pc
         /\ call'[c].job = call[c].job
         /\ \A d \in Callers \ {c} : call'[d] = call[d]
  BY DEF GoOn, CallRecords

\* Answer ends one request and leaves the others alone.
LEMMA AnswerEffect ==
  ASSUME call \in [Callers -> CallRecords], NEW c \in Callers, Answer(c)
  PROVE  /\ call' \in [Callers -> CallRecords]
         /\ call'[c].pc = "idle"
         /\ \A d \in Callers \ {c} : call'[d] = call[d]
  BY CallValues DEF Answer, NoCall

\* AnswerJob ends one request with a job and leaves the others alone.
LEMMA AnswerJobEffect ==
  ASSUME call \in [Callers -> CallRecords], NEW c \in Callers, NEW j \in Jobs,
         AnswerJob(c, j)
  PROVE  /\ call' \in [Callers -> CallRecords]
         /\ call'[c].pc = "created"
         /\ call'[c].job = j
         /\ \A d \in Callers \ {c} : call'[d] = call[d]
  BY DEF AnswerJob, NoCall, CallRecords

\* What a step of a worker does to the fields of the workers.
LEMMA ProceedEffect ==
  ASSUME run \in [Replicas -> RunRecords], NEW r \in Replicas,
         NEW pc \in RunPcs, Proceed(r, pc)
  PROVE  /\ run' \in [Replicas -> RunRecords]
         /\ run'[r].pc = pc
         /\ run'[r].job = run[r].job
         /\ \A q \in Replicas \ {r} : run'[q] = run[q]
  BY DEF Proceed, RunRecords

\* What an operation of the queue does to the entries.
QueueStep(j) ==
  \/ Add(j) \/ Promote(j) \/ Reclaim(j)
  \/ \E r \in Replicas : Deliver(r, j) \/ Ack(r, j) \/ Nack(r, j)

\* An operation of the queue changes one entry and keeps its counters in their limits.
LEMMA QueueStepEffect ==
  ASSUME QueueTypeOK, QueueBounds, NEW j \in Jobs, QueueStep(j)
  PROVE  /\ QueueTypeOK' /\ QueueBounds'
         /\ \A k \in Jobs \ {j} : bull'[k] = bull[k]
         /\ bull'[j].state # "none"
<1> USE QueueAssumption DEF QueueTypeOK, QueueStates, QueueBounds, Settled
<1>1. CASE Add(j)
  BY <1>1 DEF Add
<1>2. CASE Promote(j)
  BY <1>2 DEF Promote
<1>3. CASE Reclaim(j)
  BY <1>3 DEF Reclaim, StalledOut
<1>4. ASSUME NEW r \in Replicas, Deliver(r, j)
      PROVE  /\ QueueTypeOK' /\ QueueBounds'
             /\ \A k \in Jobs \ {j} : bull'[k] = bull[k]
             /\ bull'[j].state # "none"
  BY <1>4 DEF Deliver
<1>5. ASSUME NEW r \in Replicas, Ack(r, j)
      PROVE  /\ QueueTypeOK' /\ QueueBounds'
             /\ \A k \in Jobs \ {j} : bull'[k] = bull[k]
             /\ bull'[j].state # "none"
  BY <1>5 DEF Ack, HoldsLock
<1>6. ASSUME NEW r \in Replicas, Nack(r, j)
      PROVE  /\ QueueTypeOK' /\ QueueBounds'
             /\ \A k \in Jobs \ {j} : bull'[k] = bull[k]
             /\ bull'[j].state # "none"
  BY <1>6 DEF Nack, HoldsLock
<1> QED
  BY <1>1, <1>2, <1>3, <1>4, <1>5, <1>6 DEF QueueStep

--------------------------------------------------------------------------------
(* Types, and what is in hand *)

InHand ==
  /\ WorkersInHand /\ HandlersInHand /\ EntriesInHand
  /\ RequestsInHand /\ FreshIdsDistinct /\ UpdatesChecked

TypeInv == TypeOK /\ QueueBounds /\ InHand

RowsType == [Jobs -> Rows \cup {Unborn, Deleted}]
RowsStay == \A j \in Jobs : row[j] # Unborn => row'[j] # Unborn

\* What a step does not touch stays in hand when no row is unborn again.
LEMMA FrameInHand ==
  ASSUME TypeInv, RowsStay
  PROVE  /\ UNCHANGED run => WorkersInHand'
         /\ UNCHANGED failing => HandlersInHand'
         /\ UNCHANGED bull => QueueBounds' /\ EntriesInHand'
<1>1. ASSUME UNCHANGED run PROVE WorkersInHand'
  BY <1>1 DEF TypeInv, InHand, WorkersInHand, RowsStay
<1>2. ASSUME UNCHANGED failing PROVE HandlersInHand'
  BY <1>2 DEF TypeInv, InHand, HandlersInHand, RowsStay, TypeOK, FailureRecords
<1>3. ASSUME UNCHANGED bull PROVE QueueBounds' /\ EntriesInHand'
  BY <1>3 DEF TypeInv, InHand, EntriesInHand, RowsStay, QueueBounds, Settled
<1> QED
  BY <1>1, <1>2, <1>3

\* The requests stay in hand while they are left alone and no id is used up.
LEMMA RequestsFrame ==
  ASSUME TypeInv, RowsStay, UNCHANGED call,
         \A j \in Jobs : row[j] = Unborn => row'[j] = Unborn
  PROVE  RequestsInHand' /\ FreshIdsDistinct' /\ UpdatesChecked'
<1>1. RequestsInHand'
  BY DEF TypeInv, InHand, RequestsInHand, RowsStay, NewIdPcs
<1>2. FreshIdsDistinct' /\ UpdatesChecked'
  BY DEF TypeInv, InHand, FreshIdsDistinct, UpdatesChecked
<1> QED
  BY <1>1, <1>2

\* One caller's request changes, and no row comes or goes.
LEMMA OneRequestMoves ==
  ASSUME TypeInv, NEW c \in Callers, UNCHANGED <<row, projects, bull, run, failing>>,
         faults' \in 0 .. MaxFaults,
         call' \in [Callers -> CallRecords],
         \A d \in Callers \ {c} : call'[d] = call[d],
         call'[c].pc # "idle" => call'[c].job \in Jobs,
         call'[c].pc \in NewIdPcs =>
           /\ row[call'[c].job] = Unborn
           /\ \A d \in Callers \ {c} :
                call[d].pc \in NewIdPcs => call[d].job # call'[c].job,
         call'[c].pc \notin NewIdPcs \cup {"idle"} => row[call'[c].job] # Unborn,
         call'[c].pc \in UpdatePcs => call'[c].to \in AdminTargets,
         call'[c].pc = "update_write" =>
           /\ call'[c].seen \in ContentJobStatuses
           /\ TransitionAllowed(call'[c].seen, call'[c].to)
  PROVE  TypeInv'
<1>1. TypeOK'
  BY DEF TypeInv, TypeOK, QueueTypeOK
<1>2. WorkersInHand' /\ HandlersInHand' /\ QueueBounds' /\ EntriesInHand'
  BY FrameInHand DEF RowsStay
<1>3. RequestsInHand'
  BY DEF TypeInv, InHand, RequestsInHand
<1>4. FreshIdsDistinct'
  BY DEF TypeInv, InHand, FreshIdsDistinct
<1>5. UpdatesChecked'
  BY DEF TypeInv, InHand, UpdatesChecked
<1> QED
  BY <1>1, <1>2, <1>3, <1>4, <1>5 DEF TypeInv, InHand

\* The steps of requests keep TypeInv.
LEMMA RequestStepsKeepTypes ==
  ASSUME TypeInv, NEW c \in Callers,
         StartCreate(c) \/ StartUpdate(c) \/ CallStep(c) \/ RefuseCall(c)
  PROVE  TypeInv'
<1> USE PipelineAssumption
<1>0. /\ call \in [Callers -> CallRecords]
      /\ call[c] \in CallRecords
      /\ row \in RowsType
      /\ faults \in 0 .. MaxFaults
  BY DEF TypeInv, TypeOK, RowsType
<1>1. CASE StartCreate(c)
  <2>1. PICK j \in Jobs :
          /\ Fresh(j)
          /\ call' = [call EXCEPT ![c] = [NoCall EXCEPT !.pc = "project",
                                                       !.job = j]]
    BY <1>1 DEF StartCreate
  <2>2. /\ call'[c].pc = "project" /\ call'[c].job = j
        /\ call' \in [Callers -> CallRecords]
        /\ \A d \in Callers \ {c} : call'[d] = call[d]
    BY <1>0, <2>1 DEF NoCall, CallRecords, CreatePcs
  <2>3. /\ row[j] = Unborn
        /\ \A d \in Callers : call[d].pc \in NewIdPcs => call[d].job # j
    BY <2>1 DEF Fresh, NewIdPcs, CreatePcs
  <2>4. UNCHANGED <<row, projects, bull, run, failing, faults>>
    BY <1>1 DEF StartCreate
  <2> QED
    BY <1>0, <2>2, <2>3, <2>4, OneRequestMoves DEF UpdatePcs, NewIdPcs
<1>2. CASE StartUpdate(c)
  <2>1. PICK j \in Jobs, to \in AdminTargets :
          /\ row[j] # Unborn
          /\ call' = [call EXCEPT ![c] = [pc |-> "update_read", job |-> j,
                                         seen |-> NoStatus, to |-> to]]
    BY <1>2 DEF StartUpdate
  <2>2. /\ call'[c] = [pc |-> "update_read", job |-> j, seen |-> NoStatus,
                       to |-> to]
        /\ call' \in [Callers -> CallRecords]
        /\ \A d \in Callers \ {c} : call'[d] = call[d]
    BY <1>0, <2>1 DEF CallRecords, UpdatePcs
  <2> QED
    BY <1>0, <1>2, <2>1, <2>2, OneRequestMoves DEF StartUpdate, UpdatePcs, NewIdPcs
<1>3. ASSUME Answer(c), UNCHANGED <<row, projects, bull, run, failing>>,
             faults' \in 0 .. MaxFaults
      PROVE  TypeInv'
  BY <1>0, <1>3, AnswerEffect, OneRequestMoves DEF NewIdPcs, UpdatePcs
<1>4. CASE RefuseCall(c)
  <2>1. faults' \in 0 .. MaxFaults
    BY <1>0, <1>4 DEF RefuseCall
  <2> QED
    BY <2>1, <1>3, <1>4 DEF RefuseCall
<1>5. CASE CheckProject(c)
  <2>1. CASE GoOn(c, "existing")
    <3>1. /\ call[c].job \in Jobs
          /\ row[call[c].job] = Unborn
          /\ \A d \in Callers \ {c} :
               call[d].pc \in NewIdPcs => call[d].job # call[c].job
      BY <1>5 DEF CheckProject, TypeInv, InHand, RequestsInHand, FreshIdsDistinct,
                  NewIdPcs
    <3>2. /\ call' \in [Callers -> CallRecords]
          /\ call'[c].pc = "existing" /\ call'[c].job = call[c].job
          /\ \A d \in Callers \ {c} : call'[d] = call[d]
      BY <1>0, <2>1, GoOnEffect DEF CreatePcs
    <3> QED
      BY <1>0, <1>5, <3>1, <3>2, OneRequestMoves DEF CheckProject, NewIdPcs, UpdatePcs
  <2>2. CASE Answer(c)
    BY <1>0, <1>3, <1>5, <2>2 DEF CheckProject
  <2> QED
    BY <1>5, <2>1, <2>2 DEF CheckProject
<1>6. ASSUME call[c].pc \in NewIdPcs
      PROVE  /\ call[c].job \in Jobs
             /\ row[call[c].job] = Unborn
             /\ \A d \in Callers \ {c} :
                  call[d].pc \in NewIdPcs => call[d].job # call[c].job
  BY <1>6 DEF TypeInv, InHand, RequestsInHand, FreshIdsDistinct, NewIdPcs
<1>7. ASSUME call[c].pc \notin NewIdPcs \cup {"idle"}
      PROVE  call[c].job \in Jobs /\ row[call[c].job] # Unborn
  BY <1>7 DEF TypeInv, InHand, RequestsInHand
<1>8. CASE FindExisting(c)
  <2>1. UNCHANGED <<row, projects, bull, run, failing, faults>>
    BY <1>8 DEF FindExisting
  <2>2. CASE GoOn(c, "insert")
    <3>1. /\ call' \in [Callers -> CallRecords]
          /\ call'[c].pc = "insert" /\ call'[c].job = call[c].job
          /\ \A d \in Callers \ {c} : call'[d] = call[d]
      BY <1>0, <2>2, GoOnEffect DEF CreatePcs
    <3> QED
      BY <1>0, <1>6, <1>8, <2>1, <3>1, OneRequestMoves
      DEF FindExisting, NewIdPcs, UpdatePcs
  <2>3. ASSUME NEW k \in Jobs, Exists(k),
               call' = [call EXCEPT ![c].pc = "duplicate_log", ![c].job = k]
        PROVE  TypeInv'
    <3>1. /\ call' \in [Callers -> CallRecords]
          /\ call'[c].pc = "duplicate_log" /\ call'[c].job = k
          /\ \A d \in Callers \ {c} : call'[d] = call[d]
      BY <1>0, <2>3 DEF CallRecords, CreatePcs
    <3> QED
      BY <1>0, <2>1, <2>3, <3>1, OneRequestMoves DEF NewIdPcs, UpdatePcs, Exists
  <2> QED
    BY <1>8, <2>2, <2>3 DEF FindExisting, LiveDuplicates
<1>9. ASSUME AnswerJob(c, call[c].job), call[c].pc \notin NewIdPcs \cup {"idle"},
             UNCHANGED <<row, projects, bull, run, failing, faults>>
      PROVE  TypeInv'
  BY <1>0, <1>7, <1>9, AnswerJobEffect, OneRequestMoves DEF NewIdPcs, UpdatePcs
<1>10. CASE LogDuplicate(c)
  BY <1>0, <1>3, <1>9, <1>10 DEF LogDuplicate, NewIdPcs
<1>11. CASE InsertRow(c)
  <2> DEFINE j == call[c].job
  <2>1. /\ j \in Jobs
        /\ row[j] = Unborn
        /\ \A d \in Callers \ {c} :
             call[d].pc \in NewIdPcs => call[d].job # j
    BY <1>6, <1>11 DEF InsertRow, NewIdPcs
  <2>2. CASE row' = [row EXCEPT ![j] = NewRow] /\ GoOn(c, "create_log")
    <3>1. /\ call' \in [Callers -> CallRecords]
          /\ call'[c].pc = "create_log" /\ call'[c].job = j
          /\ \A d \in Callers \ {c} : call'[d] = call[d]
      BY <1>0, <2>2, GoOnEffect DEF CreatePcs
    <3>2. /\ row' \in RowsType
          /\ row'[j] # Unborn
          /\ \A k \in Jobs \ {j} : row'[k] = row[k]
          /\ RowsStay
      BY <1>0, <2>1, <2>2, RowValues, SentinelAssumption DEF RowsType, RowsStay
    <3>3. TypeOK'
      BY <1>0, <1>11, <3>1, <3>2 DEF InsertRow, TypeInv, TypeOK, RowsType, QueueTypeOK
    <3>4. WorkersInHand' /\ HandlersInHand' /\ QueueBounds' /\ EntriesInHand'
      BY <1>11, <3>2, FrameInHand DEF InsertRow
    <3>5. RequestsInHand'
      BY <2>1, <3>1, <3>2 DEF TypeInv, InHand, RequestsInHand, NewIdPcs
    <3>6. FreshIdsDistinct' /\ UpdatesChecked'
      BY <3>1 DEF TypeInv, InHand, FreshIdsDistinct, UpdatesChecked, NewIdPcs, UpdatePcs
    <3> QED
      BY <3>3, <3>4, <3>5, <3>6 DEF TypeInv, InHand
  <2>3. CASE Answer(c) /\ UNCHANGED row
    BY <1>0, <1>3, <1>11, <2>3 DEF InsertRow
  <2> QED
    BY <1>11, <2>2, <2>3 DEF InsertRow
<1>12. CASE LogCreated(c)
  <2>1. CASE GoOn(c, "enqueue")
    <3>1. /\ call' \in [Callers -> CallRecords]
          /\ call'[c].pc = "enqueue" /\ call'[c].job = call[c].job
          /\ \A d \in Callers \ {c} : call'[d] = call[d]
      BY <1>0, <2>1, GoOnEffect DEF CreatePcs
    <3> QED
      BY <1>0, <1>7, <1>12, <3>1, OneRequestMoves DEF LogCreated, NewIdPcs, UpdatePcs
  <2>2. CASE Answer(c)
    BY <1>0, <1>3, <1>12, <2>2 DEF LogCreated
  <2> QED
    BY <1>12, <2>1, <2>2 DEF LogCreated
<1>13. CASE Enqueue(c)
  <2> DEFINE j == call[c].job
  <2>1. j \in Jobs /\ row[j] # Unborn
    BY <1>7, <1>13 DEF Enqueue, NewIdPcs
  <2>2. /\ QueueTypeOK' /\ QueueBounds'
        /\ \A k \in Jobs \ {j} : bull'[k] = bull[k]
    BY <1>13, <2>1, QueueStepEffect DEF Enqueue, QueueStep, TypeInv, TypeOK
  <2>3. /\ call' \in [Callers -> CallRecords]
        /\ call'[c].pc = "created" /\ call'[c].job = j
        /\ \A d \in Callers \ {c} : call'[d] = call[d]
    BY <1>0, <1>13, <2>1, AnswerJobEffect DEF Enqueue
  <2>4. TypeOK'
    BY <1>13, <2>2, <2>3 DEF Enqueue, TypeInv, TypeOK
  <2>5. EntriesInHand'
    BY <1>13, <2>1, <2>2 DEF Enqueue, TypeInv, InHand, EntriesInHand
  <2>6. WorkersInHand' /\ HandlersInHand'
    BY <1>13, FrameInHand DEF Enqueue, RowsStay
  <2>7. RequestsInHand'
    BY <1>13, <2>1, <2>3 DEF Enqueue, TypeInv, InHand, RequestsInHand, NewIdPcs
  <2>8. FreshIdsDistinct' /\ UpdatesChecked'
    BY <2>3 DEF TypeInv, InHand, FreshIdsDistinct, UpdatesChecked, NewIdPcs, UpdatePcs
  <2> QED
    BY <2>2, <2>4, <2>5, <2>6, <2>7, <2>8 DEF TypeInv, InHand
<1>14. CASE ReadForUpdate(c)
  <2>1. CASE /\ MayBecome(call[c].job, call[c].to)
             /\ call' = [call EXCEPT ![c].pc = "update_write",
                                    ![c].seen = row[call[c].job].status]
    <3>1. /\ call[c].job \in Jobs /\ row[call[c].job] # Unborn
          /\ call[c].to \in AdminTargets
      BY <1>7, <1>14 DEF ReadForUpdate, NewIdPcs, UpdatePcs, TypeInv, InHand,
                         UpdatesChecked
    <3>2. /\ row[call[c].job].status \in ContentJobStatuses
          /\ TransitionAllowed(row[call[c].job].status, call[c].to)
      BY <1>0, <2>1, <3>1, RowValues DEF MayBecome, Exists, RowsType
    <3>3. /\ call' \in [Callers -> CallRecords]
          /\ call'[c].pc = "update_write"
          /\ call'[c].job = call[c].job /\ call'[c].to = call[c].to
          /\ call'[c].seen = row[call[c].job].status
          /\ \A d \in Callers \ {c} : call'[d] = call[d]
      BY <1>0, <2>1, <3>2 DEF CallRecords, UpdatePcs
    <3>4. UNCHANGED <<row, projects, bull, run, failing, faults>>
      BY <1>14 DEF ReadForUpdate
    <3> QED
      BY <1>0, <3>1, <3>2, <3>3, <3>4, OneRequestMoves DEF NewIdPcs, UpdatePcs
  <2>2. CASE Answer(c)
    BY <1>0, <1>3, <1>14, <2>2 DEF ReadForUpdate
  <2> QED
    BY <1>14, <2>1, <2>2 DEF ReadForUpdate
<1>15. CASE WriteUpdate(c)
  <2> DEFINE j == call[c].job
  <2>1. j \in Jobs /\ row[j] # Unborn /\ call[c].to \in ContentJobStatuses
    BY <1>7, <1>15 DEF WriteUpdate, NewIdPcs, UpdatePcs, TypeInv, InHand,
                       UpdatesChecked
  <2>2. /\ row' \in RowsType
        /\ RowsStay
        /\ \A k \in Jobs : row[k] = Unborn => row'[k] = Unborn
    <3>1. CASE Exists(j)
      <4>1. StatusRow(row[j], call[c].to) \in Rows
        BY <1>0, <2>1, <3>1, RowValues DEF RowsType, Exists
      <4>2. row' = [row EXCEPT ![j] = StatusRow(row[j], call[c].to)]
        BY <1>15, <3>1 DEF WriteUpdate
      <4> QED
        BY <1>0, <2>1, <4>1, <4>2, SentinelAssumption DEF RowsType, RowsStay
    <3>2. CASE ~Exists(j)
      BY <1>0, <1>15, <3>2 DEF WriteUpdate, RowsStay
    <3> QED
      BY <3>1, <3>2
  <2>3. /\ call' \in [Callers -> CallRecords]
        /\ call'[c].pc = "idle"
        /\ \A d \in Callers \ {c} : call'[d] = call[d]
    BY <1>0, <1>15, AnswerEffect DEF WriteUpdate
  <2>4. TypeOK'
    BY <1>15, <2>2, <2>3 DEF WriteUpdate, TypeInv, TypeOK, RowsType, QueueTypeOK
  <2>5. WorkersInHand' /\ HandlersInHand' /\ QueueBounds' /\ EntriesInHand'
    BY <1>15, <2>2, FrameInHand DEF WriteUpdate
  <2>6. RequestsInHand'
    BY <2>2, <2>3 DEF TypeInv, InHand, RequestsInHand, NewIdPcs, RowsStay
  <2>7. FreshIdsDistinct' /\ UpdatesChecked'
    BY <2>3 DEF TypeInv, InHand, FreshIdsDistinct, UpdatesChecked, NewIdPcs, UpdatePcs
  <2> QED
    BY <2>4, <2>5, <2>6, <2>7 DEF TypeInv, InHand
<1> QED
  BY <1>1, <1>2, <1>4, <1>5, <1>8, <1>10, <1>11, <1>12, <1>13, <1>14, <1>15
  DEF CallStep

UnbornStay == \A j \in Jobs : row[j] = Unborn => row'[j] = Unborn

\* An update of a row that exists brings no row and takes none away.
LEMMA RowUpdated ==
  ASSUME row \in RowsType, NEW j \in Jobs, Exists(j), NEW value \in Rows,
         row' = [row EXCEPT ![j] = value]
  PROVE  row' \in RowsType /\ RowsStay /\ UnbornStay
  BY SentinelAssumption DEF RowsType, RowsStay, UnbornStay, Exists

\* A worker that has a job moves on with it, or gives it up.
LEMMA OneWorkerMoves ==
  ASSUME TypeInv, NEW r \in Replicas, UNCHANGED <<projects, bull, failing, call>>,
         faults' \in 0 .. MaxFaults,
         row' \in RowsType, RowsStay, UnbornStay,
         run' \in [Replicas -> RunRecords],
         \A q \in Replicas \ {r} : run'[q] = run[q],
         run[r].pc # "idle", run'[r].job = run[r].job
  PROVE  TypeInv'
<1>1. TypeOK'
  BY DEF TypeInv, TypeOK, RowsType, QueueTypeOK
<1>2. WorkersInHand'
  BY DEF TypeInv, InHand, WorkersInHand, RowsStay
<1>3. HandlersInHand' /\ QueueBounds' /\ EntriesInHand'
  BY FrameInHand
<1>4. RequestsInHand' /\ FreshIdsDistinct' /\ UpdatesChecked'
  BY RequestsFrame DEF UnbornStay
<1> QED
  BY <1>1, <1>2, <1>3, <1>4 DEF TypeInv, InHand

\* The steps of workers keep TypeInv.
LEMMA WorkerStepsKeepTypes ==
  ASSUME TypeInv, NEW r \in Replicas,
         RunStep(r) \/ RefuseRun(r) \/ \E j \in Jobs : Take(r, j)
  PROVE  TypeInv'
<1> USE PipelineAssumption
<1>0. /\ run \in [Replicas -> RunRecords]
      /\ row \in RowsType
      /\ faults \in 0 .. MaxFaults
      /\ QueueTypeOK /\ QueueBounds
      /\ run[r].pc # "idle" => run[r].job \in Jobs /\ row[run[r].job] # Unborn
  BY DEF TypeInv, TypeOK, RowsType, InHand, WorkersInHand
<1>1. ASSUME NEW pc \in RunPcs, Proceed(r, pc), run[r].pc # "idle",
             UNCHANGED <<projects, bull, failing, call>>, faults' \in 0 .. MaxFaults,
             row' \in RowsType, RowsStay, UnbornStay
      PROVE  TypeInv'
  BY <1>0, <1>1, ProceedEffect, OneWorkerMoves
<1>2. ASSUME NEW pc \in RunPcs, Proceed(r, pc), run[r].pc # "idle",
             UNCHANGED <<projects, row, bull, failing, call>>,
             faults' \in 0 .. MaxFaults
      PROVE  TypeInv'
  BY <1>0, <1>1, <1>2 DEF RowsStay, UnbornStay
<1>3. ASSUME NEW to \in ContentJobStatuses, NEW pc \in RunPcs,
             run[r].pc # "idle", ReadFor(r, to, pc)
      PROVE  TypeInv'
  <2>1. CASE Proceed(r, "fail")
    BY <1>0, <1>2, <1>3, <2>1 DEF ReadFor, RunPcs
  <2>2. CASE /\ MayBecome(run[r].job, to)
             /\ run' = [run EXCEPT ![r].pc = pc,
                                  ![r].seen = row[run[r].job].status]
    <3>1. row[run[r].job].status \in ContentJobStatuses
      BY <1>0, <1>3, <2>2, RowValues DEF MayBecome, Exists, RowsType
    <3>2. /\ run' \in [Replicas -> RunRecords]
          /\ run'[r].job = run[r].job
          /\ \A q \in Replicas \ {r} : run'[q] = run[q]
      BY <1>0, <2>2, <3>1 DEF RunRecords
    <3> QED
      BY <1>0, <1>3, <3>2, OneWorkerMoves DEF ReadFor, RowsStay, UnbornStay
  <2> QED
    BY <1>3, <2>1, <2>2 DEF ReadFor
<1>4. ASSUME NEW value, Exists(run[r].job) => value \in Rows, NEW pc \in RunPcs,
             run[r].pc # "idle", WriteRow(r, value, pc)
      PROVE  TypeInv'
  <2>1. CASE Exists(run[r].job)
    <3>1. /\ row' = [row EXCEPT ![run[r].job] = value]
          /\ Proceed(r, pc)
          /\ UNCHANGED <<projects, bull, failing, call, faults>>
      BY <1>4, <2>1 DEF WriteRow
    <3>2. row' \in RowsType /\ RowsStay /\ UnbornStay
      BY <1>0, <1>4, <2>1, <3>1, RowUpdated
    <3> QED
      BY <1>0, <1>1, <1>4, <3>1, <3>2
  <2>2. CASE ~Exists(run[r].job)
    BY <1>0, <1>2, <1>4, <2>2 DEF WriteRow, RunPcs
  <2> QED
    BY <2>1, <2>2
<1>5. ASSUME NEW pc \in RunPcs, run[r].pc # "idle", NeedRow(r, pc)
      PROVE  TypeInv'
  BY <1>0, <1>2, <1>5 DEF NeedRow, RunPcs
<1>6. CASE ReadSending(r) \/ ReadGenerated(r)
  BY <1>3, <1>6 DEF ReadSending, ReadGenerated, RunPcs, ContentJobStatuses
<1>7. Exists(run[r].job) /\ run[r].pc # "idle" => row[run[r].job] \in Rows
  BY <1>0 DEF RowsType, Exists
<1>8. CASE WriteSending(r)
  <2>1. run[r].pc # "idle"
    BY <1>8 DEF WriteSending
  <2>2. Exists(run[r].job) => SendingRow(row[run[r].job]) \in Rows
    BY <1>7, <2>1, RowValues
  <2>3. WriteRow(r, SendingRow(row[run[r].job]), "sending_log")
    BY <1>8 DEF WriteSending
  <2> QED
    BY <1>4, <2>1, <2>2, <2>3 DEF RunPcs
<1>9. CASE WriteGenerated(r)
  <2>1. run[r].pc # "idle"
    BY <1>9 DEF WriteGenerated
  <2>2. Exists(run[r].job) => GeneratedRow(row[run[r].job]) \in Rows
    BY <1>7, <2>1, RowValues
  <2>3. WriteRow(r, GeneratedRow(row[run[r].job]), "generated_log")
    BY <1>9 DEF WriteGenerated
  <2> QED
    BY <1>4, <2>1, <2>2, <2>3 DEF RunPcs
<1>10. CASE LogSending(r) \/ Load(r) \/ LogGenerated(r)
  BY <1>5, <1>10 DEF LogSending, Load, LogGenerated, RunPcs
<1>11. CASE RefuseRun(r)
  <2>1. faults' \in 0 .. MaxFaults
    BY <1>0, <1>11 DEF RefuseRun
  <2> QED
    BY <1>2, <1>11, <2>1 DEF RefuseRun, RunPcs
<1>12. ASSUME run' = [run EXCEPT ![r] = NoRun], UNCHANGED <<projects, row, call, faults>>,
              QueueTypeOK', QueueBounds', EntriesInHand',
              failing' \subseteq FailureRecords, HandlersInHand'
       PROVE  TypeInv'
  <2>1. TypeOK'
    BY <1>0, <1>12, RunValues DEF TypeInv, TypeOK
  <2>2. WorkersInHand'
    BY <1>0, <1>12 DEF TypeInv, InHand, WorkersInHand, NoRun
  <2>3. RequestsInHand' /\ FreshIdsDistinct' /\ UpdatesChecked'
    BY <1>12, RequestsFrame DEF RowsStay
  <2> QED
    BY <1>12, <2>1, <2>2, <2>3 DEF TypeInv, InHand
<1>13. ASSUME QueueStep(run[r].job), run[r].pc # "idle", UNCHANGED row
       PROVE  QueueTypeOK' /\ QueueBounds' /\ EntriesInHand'
  <2>1. /\ QueueTypeOK' /\ QueueBounds'
        /\ \A k \in Jobs \ {run[r].job} : bull'[k] = bull[k]
    BY <1>0, <1>13, QueueStepEffect
  <2>2. EntriesInHand'
    BY <1>0, <1>13, <2>1 DEF TypeInv, InHand, EntriesInHand
  <2> QED
    BY <2>1, <2>2
<1>14. ASSUME UNCHANGED <<row, bull>>
       PROVE  QueueTypeOK' /\ QueueBounds' /\ EntriesInHand'
  BY <1>0, <1>14, FrameInHand DEF RowsStay, QueueTypeOK
<1>15. ASSUME UNCHANGED <<row, failing>>
       PROVE  failing' \subseteq FailureRecords /\ HandlersInHand'
  BY <1>15, FrameInHand DEF RowsStay, TypeInv, TypeOK
<1>16. CASE Complete(r)
  <2>1. QueueTypeOK' /\ QueueBounds' /\ EntriesInHand'
    BY <1>13, <1>14, <1>16 DEF Complete, QueueStep
  <2>2. failing' \subseteq FailureRecords /\ HandlersInHand'
    BY <1>15, <1>16 DEF Complete
  <2> QED
    BY <1>12, <1>16, <2>1, <2>2 DEF Complete
<1>17. CASE Fail(r)
  <2> DEFINE j == run[r].job
  <2>1. run[r].pc # "idle" /\ j \in Jobs /\ row[j] # Unborn
    BY <1>0, <1>17 DEF Fail
  <2>2. QueueTypeOK' /\ QueueBounds' /\ EntriesInHand'
    BY <1>13, <1>14, <1>17, <2>1 DEF Fail, QueueStep
  <2>3. failing' \subseteq FailureRecords /\ HandlersInHand'
    <3>1. CASE UNCHANGED failing
      BY <1>15, <1>17, <3>1 DEF Fail
    <3>2. CASE /\ Nack(r, j)
               /\ failing' = failing \cup {NewFailure(j, bull[j].made + 1, r)}
      <4>1. bull[j].made + 1 \in 0 .. MaxAttempts
        BY <1>0, <2>1, <3>2, QueueAssumption
        DEF Nack, HoldsLock, QueueBounds, QueueTypeOK, Settled
      <4>2. NewFailure(j, bull[j].made + 1, r) \in FailureRecords
        BY <2>1, <4>1 DEF NewFailure, FailureRecords
      <4> QED
        BY <1>17, <2>1, <3>2, <4>2
        DEF Fail, TypeInv, TypeOK, InHand, HandlersInHand, NewFailure
    <3> QED
      BY <1>17, <3>1, <3>2 DEF Fail
  <2> QED
    BY <1>12, <1>17, <2>2, <2>3 DEF Fail
<1>18. ASSUME NEW j \in Jobs, Take(r, j) PROVE TypeInv'
  <2>1. /\ QueueTypeOK' /\ QueueBounds'
        /\ \A k \in Jobs \ {j} : bull'[k] = bull[k]
    BY <1>0, <1>18, QueueStepEffect DEF Take, QueueStep
  <2>2. row[j] # Unborn
    BY <1>18 DEF Take, Deliver, TypeInv, InHand, EntriesInHand
  <2>3. /\ run' \in [Replicas -> RunRecords]
        /\ run'[r].job = j
        /\ \A q \in Replicas \ {r} : run'[q] = run[q]
    BY <1>0, <1>18 DEF Take, NoRun, RunRecords, RunPcs
  <2>4. TypeOK'
    BY <1>18, <2>1, <2>3 DEF Take, TypeInv, TypeOK
  <2>5. WorkersInHand'
    BY <1>18, <2>2, <2>3 DEF Take, TypeInv, InHand, WorkersInHand
  <2>6. EntriesInHand'
    BY <1>18, <2>1, <2>2 DEF Take, TypeInv, InHand, EntriesInHand
  <2>7. HandlersInHand'
    BY <1>18, FrameInHand DEF Take, RowsStay
  <2>8. RequestsInHand' /\ FreshIdsDistinct' /\ UpdatesChecked'
    BY <1>18, RequestsFrame DEF Take, RowsStay
  <2> QED
    BY <2>1, <2>4, <2>5, <2>6, <2>7, <2>8 DEF TypeInv, InHand
<1> QED
  BY <1>6, <1>8, <1>9, <1>10, <1>11, <1>16, <1>17, <1>18 DEF RunStep

\* The steps of the 'failed' handler keep TypeInv.
LEMMA HandlerStepsKeepTypes ==
  ASSUME TypeInv, NEW h \in failing,
         ReadFailed(h) \/ WriteFailed(h) \/ RefuseFailed(h)
  PROVE  TypeInv'
<1> USE PipelineAssumption
<1>0. /\ row \in RowsType
      /\ failing \subseteq FailureRecords
      /\ faults \in 0 .. MaxFaults
      /\ h.job \in Jobs /\ row[h.job] # Unborn
  BY DEF TypeInv, TypeOK, RowsType, InHand, HandlersInHand, FailureRecords
<1>1. ASSUME UNCHANGED <<projects, bull, run, call>>, faults' \in 0 .. MaxFaults,
             row' \in RowsType, RowsStay, UnbornStay,
             failing' \subseteq FailureRecords,
             \A g \in failing' : \E f \in failing : g.job = f.job
      PROVE  TypeInv'
  <2>1. TypeOK'
    BY <1>1 DEF TypeInv, TypeOK, RowsType, QueueTypeOK
  <2>2. HandlersInHand'
    BY <1>0, <1>1 DEF TypeInv, InHand, HandlersInHand, RowsStay, FailureRecords
  <2>3. WorkersInHand' /\ QueueBounds' /\ EntriesInHand'
    BY <1>1, FrameInHand
  <2>4. RequestsInHand' /\ FreshIdsDistinct' /\ UpdatesChecked'
    BY <1>1, RequestsFrame DEF UnbornStay
  <2> QED
    BY <2>1, <2>2, <2>3, <2>4 DEF TypeInv, InHand
<1>2. CASE ReadFailed(h)
  <2>1. CASE failing' = failing \ {h}
    BY <1>0, <1>1, <1>2, <2>1 DEF ReadFailed, RowsStay, UnbornStay
  <2>2. CASE MayBecome(h.job, "failed")
    <3> DEFINE g == [h EXCEPT !.pc = "failed_write", !.seen = row[h.job].status]
    <3>1. row[h.job].status \in ContentJobStatuses
      BY <1>0, <2>2, RowValues DEF MayBecome, Exists, RowsType
    <3>2. g \in FailureRecords /\ g.job = h.job
      BY <1>0, <3>1 DEF FailureRecords
    <3>3. failing' = (failing \ {h}) \cup {g}
      BY <1>2, <2>2 DEF ReadFailed
    <3> HIDE DEF g
    <3> QED
      BY <1>0, <1>1, <1>2, <3>2, <3>3 DEF ReadFailed, RowsStay, UnbornStay
  <2> QED
    BY <1>2, <2>1, <2>2 DEF ReadFailed
<1>3. CASE WriteFailed(h)
  <2>1. row' \in RowsType /\ RowsStay /\ UnbornStay
    <3>1. CASE Exists(h.job)
      <4>1. FailedRow(row[h.job]) \in Rows
        BY <1>0, <3>1, RowValues DEF Exists, RowsType
      <4>2. row' = [row EXCEPT ![h.job] = FailedRow(row[h.job])]
        BY <1>3, <3>1 DEF WriteFailed
      <4> QED
        BY <1>0, <3>1, <4>1, <4>2, RowUpdated
    <3>2. CASE ~Exists(h.job)
      BY <1>0, <1>3, <3>2 DEF WriteFailed, RowsStay, UnbornStay
    <3> QED
      BY <3>1, <3>2
  <2> QED
    BY <1>0, <1>1, <1>3, <2>1 DEF WriteFailed
<1>4. CASE RefuseFailed(h)
  <2>1. faults' \in 0 .. MaxFaults
    BY <1>0, <1>4 DEF RefuseFailed
  <2> QED
    BY <1>0, <1>1, <1>4, <2>1 DEF RefuseFailed, RowsStay, UnbornStay
<1> QED
  BY <1>2, <1>3, <1>4

\* The end of a delay keeps TypeInv.
LEMMA DelayStepsKeepTypes ==
  ASSUME TypeInv, NEW j \in Jobs, EndDelay(j)
  PROVE  TypeInv'
<1>1. /\ QueueTypeOK' /\ QueueBounds'
      /\ \A k \in Jobs \ {j} : bull'[k] = bull[k]
  BY QueueStepEffect DEF EndDelay, QueueStep, TypeInv, TypeOK
<1>2. TypeOK'
  BY <1>1 DEF EndDelay, TypeInv, TypeOK
<1>3. EntriesInHand'
  BY <1>1 DEF EndDelay, Promote, TypeInv, InHand, EntriesInHand
<1>4. WorkersInHand' /\ HandlersInHand'
  BY FrameInHand DEF EndDelay, RowsStay
<1>5. RequestsInHand' /\ FreshIdsDistinct' /\ UpdatesChecked'
  BY RequestsFrame DEF EndDelay, RowsStay
<1> QED
  BY <1>1, <1>2, <1>3, <1>4, <1>5 DEF TypeInv, InHand

\* The stalled check keeps TypeInv.
LEMMA StallsKeepTypes ==
  ASSUME TypeInv, NEW r \in Replicas, NEW j \in Jobs, Stalled(r, j)
  PROVE  TypeInv'
<1>1. /\ QueueTypeOK' /\ QueueBounds'
      /\ \A k \in Jobs \ {j} : bull'[k] = bull[k]
  BY QueueStepEffect DEF Stalled, QueueStep, TypeInv, TypeOK
<1>2. row[j] # Unborn
  BY DEF Stalled, Reclaim, TypeInv, InHand, EntriesInHand
<1>3. faults' \in 0 .. MaxFaults
  BY PipelineAssumption DEF Stalled, TypeInv, TypeOK
<1>4. NewFailure(j, 0, r) \in FailureRecords
  BY QueueAssumption DEF NewFailure, FailureRecords
<1>5. failing' \subseteq FailureRecords
  BY <1>4 DEF Stalled, TypeInv, TypeOK
<1>6. TypeOK'
  BY <1>1, <1>3, <1>5 DEF Stalled, TypeInv, TypeOK
<1>7. HandlersInHand'
  BY <1>2 DEF Stalled, NewFailure, TypeInv, InHand, HandlersInHand
<1>8. EntriesInHand'
  BY <1>1, <1>2 DEF Stalled, TypeInv, InHand, EntriesInHand
<1>9. WorkersInHand'
  BY FrameInHand DEF Stalled, RowsStay
<1>10. RequestsInHand' /\ FreshIdsDistinct' /\ UpdatesChecked'
  BY RequestsFrame DEF Stalled, RowsStay
<1> QED
  BY <1>1, <1>6, <1>7, <1>8, <1>9, <1>10 DEF TypeInv, InHand

\* Crashes keep TypeInv.
LEMMA CrashesKeepTypes ==
  ASSUME TypeInv, NEW r \in Replicas, Crash(r)
  PROVE  TypeInv'
<1>1. /\ run' \in [Replicas -> RunRecords]
      /\ run'[r].pc = "idle"
      /\ \A q \in Replicas \ {r} : run'[q] = run[q]
  BY RunValues DEF Crash, TypeInv, TypeOK, NoRun
<1>2. /\ call' \in [Callers -> CallRecords]
      /\ \A c \in Callers : call'[c] = call[c] \/ call'[c] = NoCall
  BY CallValues DEF Crash, TypeInv, TypeOK
<1>3. faults' \in 0 .. MaxFaults
  BY PipelineAssumption DEF Crash, TypeInv, TypeOK
<1>4. TypeOK'
  BY <1>1, <1>2, <1>3 DEF Crash, TypeInv, TypeOK, QueueTypeOK
<1>5. WorkersInHand'
  BY <1>1 DEF Crash, TypeInv, InHand, WorkersInHand
<1>6. HandlersInHand'
  BY DEF Crash, TypeInv, InHand, HandlersInHand
<1>7. QueueBounds' /\ EntriesInHand'
  BY FrameInHand DEF Crash, RowsStay
<1>8. RequestsInHand'
  BY <1>2 DEF Crash, TypeInv, InHand, RequestsInHand, NoCall, NewIdPcs
<1>9. FreshIdsDistinct'
  BY <1>2 DEF TypeInv, InHand, FreshIdsDistinct, NoCall, NewIdPcs
<1>10. UpdatesChecked'
  BY <1>2 DEF TypeInv, InHand, UpdatesChecked, NoCall, UpdatePcs
<1> QED
  BY <1>4, <1>5, <1>6, <1>7, <1>8, <1>9, <1>10 DEF TypeInv, InHand

\* The deletion of a project keeps TypeInv.
LEMMA DeletionsKeepTypes ==
  ASSUME TypeInv, NEW p \in Projects, RemoveProject(p)
  PROVE  TypeInv'
<1>1. row' \in RowsType /\ RowsStay /\ UnbornStay
  BY SentinelAssumption
  DEF RemoveProject, TypeInv, TypeOK, RowsType, RowsStay, UnbornStay, Exists
<1>2. TypeOK'
  BY <1>1 DEF RemoveProject, TypeInv, TypeOK, RowsType, QueueTypeOK
<1>3. WorkersInHand' /\ HandlersInHand' /\ QueueBounds' /\ EntriesInHand'
  BY <1>1, FrameInHand DEF RemoveProject
<1>4. RequestsInHand' /\ FreshIdsDistinct' /\ UpdatesChecked'
  BY <1>1, RequestsFrame DEF RemoveProject, UnbornStay
<1> QED
  BY <1>2, <1>3, <1>4 DEF TypeInv, InHand

\* TypeInv holds initially.
LEMMA InitTypes == Init => TypeInv
<1> SUFFICES ASSUME Init PROVE TypeInv
  OBVIOUS
<1> USE QueueAssumption, PipelineAssumption
<1>1. QueueTypeOK /\ QueueBounds
  BY DEF Init, QueueInit, QueueTypeOK, QueueStates, QueueBounds
<1>2. TypeOK
  BY <1>1, RunValues, CallValues DEF Init, TypeOK
<1>3. InHand
  BY DEF Init, QueueInit, NoRun, NoCall, NewIdPcs, UpdatePcs, InHand, WorkersInHand,
         HandlersInHand, EntriesInHand, RequestsInHand, FreshIdsDistinct,
         UpdatesChecked
<1> QED
  BY <1>1, <1>2, <1>3 DEF TypeInv

\* TypeInv is inductive.
LEMMA StepsKeepTypes == TypeInv /\ [Next]_vars => TypeInv'
<1> SUFFICES ASSUME TypeInv, [Next]_vars PROVE TypeInv'
  OBVIOUS
<1>1. CASE UNCHANGED vars
  BY <1>1 DEF vars, TypeInv, TypeOK, QueueTypeOK, QueueBounds, Settled, InHand,
              WorkersInHand, HandlersInHand, EntriesInHand, RequestsInHand,
              FreshIdsDistinct, UpdatesChecked
<1>2. CASE Next
  BY <1>2, RequestStepsKeepTypes, WorkerStepsKeepTypes, HandlerStepsKeepTypes,
     DelayStepsKeepTypes, StallsKeepTypes, CrashesKeepTypes, DeletionsKeepTypes
  DEF Next, HandlerStep
<1> QED
  BY <1>1, <1>2

\* Every variable keeps its type, the counters of the queue their limits, and no
\* request, worker, handler or queue entry is about a job that does not exist.
THEOREM TypeInvariance == Spec => []TypeInv
  BY InitTypes, StepsKeepTypes, PTL DEF Spec

\* TypeOK is an invariant of the pipeline.
THEOREM TypeCorrectness == Spec => []TypeOK
  BY TypeInvariance, PTL DEF TypeInv

================================================================================

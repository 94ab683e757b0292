------------------------- MODULE ContentHistoryProofs -------------------------
(***************************************************************************)
(* Proof that the pipeline, with the history of the statuses of its rows,  *)
(* implements JobProvenance.                                               *)
(***************************************************************************)
EXTENDS ContentHistory, ContentSafetyProofs

--------------------------------------------------------------------------------
(* What one step can do to the rows together, and how a writer has read *)

\* A step leaves the rows alone, deletes the rows of a project or changes one row.
LEMMA StepOnRows ==
  ASSUME TypeInv, [Next]_vars
  PROVE  \/ UNCHANGED row
         \/ \E p \in Projects : RemoveProject(p)
         \/ \E j \in Jobs : \A k \in Jobs \ {j} : row'[k] = row[k]
<1>0. row \in RowsType
  BY DEF TypeInv, TypeOK, RowsType
<1>1. ASSUME NEW c \in Callers, call[c].pc # "idle" PROVE call[c].job \in Jobs
  BY <1>1 DEF TypeInv, InHand, RequestsInHand
<1>2. ASSUME NEW r \in Replicas, run[r].pc # "idle" PROVE run[r].job \in Jobs
  BY <1>2 DEF TypeInv, InHand, WorkersInHand
<1>3. ASSUME NEW c \in Callers, InsertRow(c) \/ WriteUpdate(c)
      PROVE  UNCHANGED row \/ \E j \in Jobs : \A k \in Jobs \ {j} : row'[k] = row[k]
  BY <1>0, <1>1, <1>3 DEF InsertRow, WriteUpdate, RowsType
<1>4. ASSUME NEW r \in Replicas, WriteSending(r) \/ WriteGenerated(r)
      PROVE  UNCHANGED row \/ \E j \in Jobs : \A k \in Jobs \ {j} : row'[k] = row[k]
  BY <1>0, <1>2, <1>4 DEF WriteSending, WriteGenerated, WriteRow, RowsType
<1>5. ASSUME NEW h \in failing, WriteFailed(h)
      PROVE  UNCHANGED row \/ \E j \in Jobs : \A k \in Jobs \ {j} : row'[k] = row[k]
  BY <1>0, <1>5 DEF WriteFailed, RowsType, TypeInv, TypeOK, FailureRecords
<1> QED
  BY <1>3, <1>4, <1>5
  DEF Next, vars, StartCreate, StartUpdate, CallStep, RefuseCall, CheckProject,
      FindExisting, LogDuplicate, LogCreated, Enqueue, ReadForUpdate, RunStep,
      RefuseRun, Crash, Take, Stalled, ReadSending, ReadGenerated, ReadFor,
      LogSending, LogGenerated, Load, NeedRow, Complete, Fail, HandlerStep,
      ReadFailed, RefuseFailed, EndDelay

\* How a worker comes to a write.
LEMMA StepOnWriter ==
  ASSUME TypeInv, [Next]_vars, NEW r \in Replicas,
         run'[r].pc \in {"sending_write", "generated_write"}
  PROVE  \/ run'[r] = run[r]
         \/ /\ UNCHANGED row
            /\ run'[r].job = run[r].job
            /\ Exists(run[r].job) /\ run[r].job \in Jobs
            /\ run'[r].seen = row[run[r].job].status
            /\ run'[r].pc = "sending_write" =>
                 TransitionAllowed(run'[r].seen, "sending_to_generation")
            /\ run'[r].pc = "generated_write" =>
                 TransitionAllowed(run'[r].seen, "generated")
<1>0. run \in [Replicas -> RunRecords]
  BY DEF TypeInv, TypeOK
<1>1. CASE UNCHANGED run
  BY <1>1
<1>2. ASSUME NEW q \in Replicas, q # r,
             \/ RunStep(q) \/ RefuseRun(q) \/ Crash(q) \/ \E j \in Jobs : Take(q, j)
      PROVE  run'[r] = run[r]
  BY <1>0, <1>2
  DEF RunStep, RefuseRun, Crash, Take, ReadSending, ReadGenerated, ReadFor, Proceed,
      WriteSending, WriteGenerated, WriteRow, LogSending, LogGenerated, Load, NeedRow,
      Complete, Fail
<1>3. ASSUME NEW pc, Proceed(r, pc) PROVE run'[r].pc = pc
  BY <1>0, <1>3 DEF Proceed, RunRecords
<1>4. ASSUME WriteSending(r) \/ WriteGenerated(r) \/ LogSending(r) \/ Load(r)
             \/ LogGenerated(r) \/ RefuseRun(r)
      PROVE  FALSE
  BY <1>3, <1>4
  DEF WriteSending, WriteGenerated, WriteRow, LogSending, Load, LogGenerated, NeedRow,
      RefuseRun
<1>5. ASSUME Crash(r) \/ Complete(r) \/ Fail(r) \/ \E j \in Jobs : Take(r, j)
      PROVE  FALSE
  <2>1. CASE Crash(r) \/ Complete(r) \/ Fail(r)
    BY <1>0, <2>1 DEF Crash, Complete, Fail, NoRun
  <2>2. ASSUME NEW j \in Jobs, Take(r, j) PROVE run'[r].pc = "sending_read"
    BY <1>0, <2>2 DEF Take, NoRun
  <2> QED
    BY <1>5, <2>1, <2>2
<1>6. ASSUME NEW to, NEW pc, run[r].pc # "idle", ReadFor(r, to, pc)
      PROVE  \/ run'[r].pc = "fail"
             \/ /\ UNCHANGED row
                /\ run'[r].job = run[r].job
                /\ run[r].job \in Jobs
                /\ run'[r].pc = pc
                /\ run'[r].seen = row[run[r].job].status
                /\ Exists(run[r].job)
                /\ TransitionAllowed(run'[r].seen, to)
  <2>1. run[r].job \in Jobs
    BY <1>6 DEF TypeInv, InHand, WorkersInHand
  <2> QED
    BY <1>0, <1>3, <1>6, <2>1 DEF ReadFor, MayBecome, RunRecords
<1>7. CASE ReadSending(r) \/ ReadGenerated(r)
  BY <1>6, <1>7 DEF ReadSending, ReadGenerated
<1>8. CASE RunStep(r)
  BY <1>4, <1>5, <1>7, <1>8 DEF RunStep
<1> QED
  BY <1>1, <1>2, <1>4, <1>5, <1>8
  DEF Next, vars, StartCreate, StartUpdate, CallStep, RefuseCall, CheckProject,
      FindExisting, LogDuplicate, InsertRow, LogCreated, Enqueue, ReadForUpdate,
      WriteUpdate, Stalled, HandlerStep, ReadFailed, WriteFailed, RefuseFailed,
      EndDelay, RemoveProject

\* How a handler comes to its write.
LEMMA StepOnFailure ==
  ASSUME TypeInv, [Next]_vars, NEW h \in failing', h.pc = "failed_write"
  PROVE  \/ h \in failing
         \/ /\ UNCHANGED row
            /\ h.job \in Jobs /\ Exists(h.job)
            /\ h.seen = row[h.job].status
            /\ TransitionAllowed(h.seen, "failed")
<1>1. ASSUME NEW g \in failing, ReadFailed(g)
      PROVE  \/ h \in failing
             \/ /\ UNCHANGED row
                /\ h.job \in Jobs /\ Exists(h.job)
                /\ h.seen = row[h.job].status
                /\ TransitionAllowed(h.seen, "failed")
  BY <1>1 DEF ReadFailed, MayBecome, TypeInv, TypeOK, FailureRecords
<1>2. ASSUME NEW r \in Replicas, Fail(r) \/ \E j \in Jobs : Stalled(r, j)
      PROVE  h \in failing
  BY <1>2 DEF Fail, Stalled, NewFailure
<1> QED
  BY <1>1, <1>2
  DEF Next, vars, StartCreate, StartUpdate, CallStep, RefuseCall, CheckProject,
      FindExisting, LogDuplicate, InsertRow, LogCreated, Enqueue, ReadForUpdate,
      WriteUpdate, RunStep, RefuseRun, Crash, Take, ReadSending, ReadGenerated,
      ReadFor, WriteSending, WriteGenerated, WriteRow, LogSending, LogGenerated,
      Load, NeedRow, Complete, HandlerStep, WriteFailed, RefuseFailed, EndDelay,
      RemoveProject

--------------------------------------------------------------------------------
(* The history *)

CurrentHeld ==
  /\ held \in [Jobs -> SUBSET ContentJobStatuses]
  /\ \A j \in Jobs : /\ Exists(j) => row[j].status \in held[j]
                     /\ row[j] = Unborn => held[j] = {}

HistoryInv == TypeInv /\ CurrentHeld /\ SeenWasHeld

\* The history of a row only grows, by the status the row has after the step.
LEMMA HeldGrows ==
  ASSUME TypeInv, CurrentHeld, [HistoryNext]_HistoryVars
  PROVE  \A j \in Jobs :
           /\ held'[j] = HeldAfter(j)
           /\ held[j] \subseteq held'[j]
<1>1. CASE HistoryNext
  BY <1>1 DEF HistoryNext, HeldAfter
<1>2. CASE UNCHANGED HistoryVars
  <2> SUFFICES ASSUME NEW j \in Jobs
               PROVE  held'[j] = HeldAfter(j) /\ held[j] \subseteq held'[j]
    OBVIOUS
  <2>1. held' = held /\ row' = row
    BY <1>2 DEF HistoryVars, vars
  <2>2. Exists(j)' <=> Exists(j)
    BY <2>1 DEF Exists
  <2>3. Exists(j) => held[j] \cup {row'[j].status} = held[j]
    BY <2>1 DEF CurrentHeld, Exists
  <2> QED
    BY <2>1, <2>2, <2>3 DEF HeldAfter
<1> QED
  BY <1>1, <1>2

\* A row changes to a row or is deleted, and an id without one gets one or keeps
\* having none.
LEMMA RowsStayRows ==
  ASSUME TypeInv, [Next]_vars, NEW j \in Jobs
  PROVE  /\ Exists(j) => row'[j] \in Rows \cup {Deleted}
         /\ ~Exists(j) => row'[j] = row[j] \/ row'[j] \in Rows
<1>1. CASE Exists(j)
  <2>1. row[j] \in Rows
    BY <1>1 DEF TypeInv, TypeOK, Exists
  <2>2. \A c \in Callers : call[c].pc = "update_write" =>
          call[c].to \in ContentJobStatuses
    BY PipelineAssumption DEF TypeInv, InHand, UpdatesChecked, UpdatePcs
  <2>3. row'[j] \in Rows \cup {Deleted}
    BY <1>1, <2>1, <2>2, RowValues, StepOnRow
    DEF RowStep, Inserted, Removed, Sent, Completed, Failed, Updated
  <2> QED
    BY <1>1, <2>3
<1>2. CASE ~Exists(j)
  BY <1>2, StepOnRow, RowValues
  DEF RowStep, Inserted, Removed, Sent, Completed, Failed, Updated
<1> QED
  BY <1>1, <1>2

\* The status a row has stays among those it has held.
LEMMA CurrentHeldKept ==
  ASSUME TypeInv, CurrentHeld, [HistoryNext]_HistoryVars
  PROVE  CurrentHeld'
<1>1. [Next]_vars
  BY DEF HistoryNext, HistoryVars
<1>2. TypeInv'
  BY <1>1, StepsKeepTypes
<1>3. ASSUME NEW j \in Jobs
      PROVE  /\ held'[j] \subseteq ContentJobStatuses
             /\ Exists(j)' => row'[j].status \in held'[j]
             /\ row'[j] = Unborn => held'[j] = {}
  <2>1. Exists(j)' => row'[j].status \in ContentJobStatuses
    BY <1>2, RowValues DEF TypeInv, TypeOK, Exists
  <2>2. row'[j] = Unborn => row[j] = Unborn
    BY <1>1, RowsStayRows, SentinelAssumption DEF Exists
  <2> QED
    BY <2>1, <2>2, HeldGrows DEF HeldAfter, CurrentHeld, Exists
<1>4. held' \in [Jobs -> SUBSET ContentJobStatuses]
  <2>1. held' = [j \in Jobs |-> held'[j]]
    BY DEF HistoryNext, HistoryVars, CurrentHeld
  <2> QED
    BY <1>3, <2>1
<1> QED
  BY <1>3, <1>4 DEF CurrentHeld, Exists

\* What a writer has read stays a status the row has held.
LEMMA SeenKept ==
  ASSUME HistoryInv, [HistoryNext]_HistoryVars
  PROVE  SeenWasHeld'
<1>0. [Next]_vars
  BY DEF HistoryNext, HistoryVars
<1>1. ASSUME NEW j \in Jobs
      PROVE  held[j] \subseteq held'[j]
  BY HeldGrows DEF HistoryInv
<1>2. ASSUME NEW j \in Jobs, Exists(j) PROVE row[j].status \in held'[j]
  <2>1. row[j].status \in held[j]
    BY <1>2 DEF HistoryInv, CurrentHeld, Exists
  <2>2. held[j] \subseteq held'[j]
    BY <1>1
  <2> QED
    BY <2>1, <2>2
<1>3. TypeInv'
  BY <1>0, StepsKeepTypes DEF HistoryInv
<1>4. ASSUME NEW c \in Callers, call'[c].pc = "update_write"
      PROVE  /\ call'[c].seen \in held'[call'[c].job]
             /\ TransitionAllowed(call'[c].seen, call'[c].to)
  <2>1. /\ call'[c].job \in Jobs
        /\ TransitionAllowed(call'[c].seen, call'[c].to)
    BY <1>3, <1>4 DEF TypeInv, InHand, RequestsInHand, UpdatesChecked
  <2>2. CASE call'[c] = call[c]
    BY <1>1, <1>4, <2>1, <2>2 DEF HistoryInv, SeenWasHeld, SeenAllows
  <2>3. CASE /\ call'[c].job = call[c].job
             /\ Exists(call[c].job)
             /\ call'[c].seen = row[call[c].job].status
    BY <1>2, <2>1, <2>3
  <2> QED
    BY <1>0, <1>4, <2>1, <2>2, <2>3, StepOnCall DEF HistoryInv
<1>5. ASSUME NEW r \in Replicas, run'[r].pc \in {"sending_write", "generated_write"}
      PROVE  /\ run'[r].seen \in held'[run'[r].job]
             /\ run'[r].pc = "sending_write" =>
                  TransitionAllowed(run'[r].seen, "sending_to_generation")
             /\ run'[r].pc = "generated_write" =>
                  TransitionAllowed(run'[r].seen, "generated")
  <2>1. CASE run'[r] = run[r]
    <3>1. run[r].job \in Jobs
      BY <1>5, <2>1 DEF HistoryInv, TypeInv, InHand, WorkersInHand
    <3> QED
      BY <1>1, <1>5, <2>1, <3>1 DEF HistoryInv, SeenWasHeld, SeenAllows
  <2>2. CASE /\ run'[r].job = run[r].job
             /\ Exists(run[r].job) /\ run[r].job \in Jobs
             /\ run'[r].seen = row[run[r].job].status
             /\ run'[r].pc = "sending_write" =>
                  TransitionAllowed(run'[r].seen, "sending_to_generation")
             /\ run'[r].pc = "generated_write" =>
                  TransitionAllowed(run'[r].seen, "generated")
    BY <1>2, <2>2
  <2> QED
    BY <1>0, <1>5, <2>1, <2>2, StepOnWriter DEF HistoryInv
<1>6. ASSUME NEW h \in failing', h.pc = "failed_write"
      PROVE  h.seen \in held'[h.job] /\ TransitionAllowed(h.seen, "failed")
  <2>1. CASE h \in failing
    <3>1. h.job \in Jobs
      BY <2>1 DEF HistoryInv, TypeInv, TypeOK, FailureRecords
    <3> QED
      BY <1>1, <1>6, <2>1, <3>1 DEF HistoryInv, SeenWasHeld, SeenAllows
  <2>2. CASE /\ h.job \in Jobs /\ Exists(h.job)
             /\ h.seen = row[h.job].status
             /\ TransitionAllowed(h.seen, "failed")
    BY <1>2, <2>2
  <2> QED
    BY <1>0, <1>6, <2>1, <2>2, StepOnFailure DEF HistoryInv
<1> QED
  BY <1>4, <1>5, <1>6 DEF SeenWasHeld, SeenAllows

\* HistoryInv is inductive.
LEMMA HistoryInvariance == HistorySpec => []HistoryInv
<1>1. HistoryInit => HistoryInv
  <2> SUFFICES ASSUME HistoryInit PROVE HistoryInv
    OBVIOUS
  <2>1. TypeInv
    BY InitTypes DEF HistoryInit
  <2>2. CurrentHeld /\ SeenWasHeld
    BY DEF HistoryInit, Init, NoCall, NoRun, CurrentHeld, SeenWasHeld, Exists
  <2> QED
    BY <2>1, <2>2 DEF HistoryInv
<1>2. HistoryInv /\ [HistoryNext]_HistoryVars => HistoryInv'
  <2> SUFFICES ASSUME HistoryInv, [HistoryNext]_HistoryVars PROVE HistoryInv'
    OBVIOUS
  <2>1. TypeInv'
    BY StepsKeepTypes DEF HistoryInv, HistoryNext, HistoryVars
  <2>2. CurrentHeld'
    BY CurrentHeldKept DEF HistoryInv
  <2> QED
    BY <2>1, <2>2, SeenKept DEF HistoryInv
<1> QED
  BY <1>1, <1>2, PTL DEF HistorySpec

\* What a writer has read is a status the row has held, and allows the write.
THEOREM SeenIsHeld == HistorySpec => []SeenWasHeld
  BY HistoryInvariance, PTL DEF HistoryInv

--------------------------------------------------------------------------------
(* The refinement *)

Mapped == [j \in Jobs |-> StatusOf(j)]

\* A step that writes rows inserts one, gives one a status that follows from one
\* it has held, or deletes some: the last with its project.
LEMMA WrittenFromHeld ==
  ASSUME HistoryInv, [HistoryNext]_HistoryVars, NEW j \in Jobs, Exists(j), Exists(j)'
  PROVE  /\ row'[j].status \in ContentJobStatuses
         /\ \E from \in held[j] : TransitionAllowed(from, row'[j].status)
<1>0. [Next]_vars /\ TypeInv /\ row[j].status \in held[j] /\ row[j] \in Rows
  BY DEF HistoryNext, HistoryVars, HistoryInv, CurrentHeld, Exists, TypeInv, TypeOK
<1>1. RowStep(j)
  BY <1>0, StepOnRow
<1>2. row[j] # Unborn /\ row'[j] # Deleted
  BY DEF Exists
<1>3. CASE row'[j] = row[j]
  BY <1>0, <1>3, RowValues DEF TransitionAllowed
<1>4. CASE Sent(j)
  <2>1. PICK r \in Replicas : run[r].pc = "sending_write" /\ run[r].job = j
                             /\ row'[j] = SendingRow(row[j])
    BY <1>4 DEF Sent, WriteSending
  <2>2. row'[j].status = "sending_to_generation"
    BY <1>0, <2>1 DEF SendingRow, Rows
  <2> QED
    BY <2>1, <2>2 DEF HistoryInv, SeenWasHeld, SeenAllows, ContentJobStatuses
<1>5. CASE Completed(j)
  <2>1. PICK r \in Replicas : run[r].pc = "generated_write" /\ run[r].job = j
                             /\ row'[j] = GeneratedRow(row[j])
    BY <1>5 DEF Completed
  <2>2. row'[j].status = "generated"
    BY <1>0, <2>1 DEF GeneratedRow, Rows
  <2> QED
    BY <2>1, <2>2 DEF HistoryInv, SeenWasHeld, SeenAllows, ContentJobStatuses
<1>6. CASE Failed(j)
  <2>1. PICK h \in failing : h.pc = "failed_write" /\ h.job = j
                             /\ row'[j] = FailedRow(row[j])
    BY <1>6 DEF Failed
  <2>2. row'[j].status = "failed"
    BY <1>0, <2>1 DEF FailedRow, Rows
  <2> QED
    BY <2>1, <2>2 DEF HistoryInv, SeenWasHeld, SeenAllows, ContentJobStatuses
<1>7. CASE Updated(j)
  <2>1. PICK c \in Callers : call[c].pc = "update_write" /\ call[c].job = j
                             /\ row'[j] = StatusRow(row[j], call[c].to)
    BY <1>7 DEF Updated
  <2>2. row'[j].status = call[c].to
    BY <1>0, <2>1 DEF StatusRow, Rows
  <2>3. call[c].to \in ContentJobStatuses
    BY <2>1, PipelineAssumption DEF HistoryInv, TypeInv, InHand, UpdatesChecked, UpdatePcs
  <2> QED
    BY <2>1, <2>2, <2>3 DEF HistoryInv, SeenWasHeld, SeenAllows
<1> QED
  BY <1>1, <1>2, <1>3, <1>4, <1>5, <1>6, <1>7 DEF RowStep, Inserted, Removed

\* The abstract specification has the same statuses and the same table.
LEMMA SameTable ==
  /\ Abstract!ContentJobStatuses = ContentJobStatuses
  /\ \A from, to : Abstract!TransitionAllowed(from, to) <=> TransitionAllowed(from, to)
<1>1. Abstract!ContentJobStatuses = ContentJobStatuses
  BY DEF Abstract!ContentJobStatuses, ContentJobStatuses
<1>2. Abstract!allowedTransitions = allowedTransitions
  BY <1>1 DEF Abstract!allowedTransitions, allowedTransitions
<1> QED
  BY <1>1, <1>2 DEF Abstract!TransitionAllowed, TransitionAllowed

\* The initial states map to initial states.
LEMMA InitMaps == HistoryInit => Abstract!Init
  BY DEF HistoryInit, Init, Abstract!Init, StatusOf, Exists

\* Every step maps to a step of JobProvenance or to a stutter.
LEMMA StepMaps ==
  ASSUME HistoryInv, HistoryInv', [HistoryNext]_HistoryVars
  PROVE  [Abstract!Next]_<<Mapped, held>>
<1>0. /\ [Next]_vars /\ TypeInv /\ CurrentHeld
      /\ held \in [Jobs -> SUBSET ContentJobStatuses]
      /\ held' \in [Jobs -> SUBSET ContentJobStatuses]
  BY DEF HistoryNext, HistoryVars, HistoryInv, CurrentHeld
<1>1. ASSUME NEW j \in Jobs, row'[j] = row[j]
      PROVE  StatusOf(j)' = StatusOf(j) /\ held'[j] = held[j]
  <2>1. Exists(j)' <=> Exists(j)
    BY <1>1 DEF Exists
  <2>2. Exists(j) => held[j] \cup {row'[j].status} = held[j]
    BY <1>0, <1>1 DEF CurrentHeld
  <2> QED
    BY <1>0, <1>1, <2>1, <2>2, HeldGrows DEF StatusOf, HeldAfter
<1>2. ASSUME NEW j \in Jobs, Exists(j), ~Exists(j)'
      PROVE  /\ StatusOf(j) \in ContentJobStatuses
             /\ StatusOf(j)' = "deleted"
             /\ held'[j] = held[j]
  <2>1. RowStep(j) /\ row[j] \in Rows
    BY <1>0, <1>2, StepOnRow DEF TypeInv, TypeOK, Exists
  <2>2. row'[j] = Unborn \/ row'[j] = Deleted
    BY <1>2 DEF Exists
  <2>3. row'[j] # Unborn
    BY <1>0, <1>2, RowsStayRows, SentinelAssumption
  <2> QED
    BY <1>0, <1>2, <2>1, <2>2, <2>3, RowValues, HeldGrows, SentinelAssumption
    DEF StatusOf, HeldAfter, Exists
<1>3. CASE UNCHANGED row
  <2>1. held' = held
    BY <1>0, <1>1, <1>3
  <2>2. Mapped' = Mapped
    BY <1>1, <1>3 DEF Mapped
  <2> QED
    BY <2>1, <2>2
<1>4. CASE \E p \in Projects : RemoveProject(p)
  <2>1. PICK p \in Projects : RemoveProject(p)
    BY <1>4
  <2> DEFINE gone == {j \in Jobs : Exists(j) /\ Project(j) = p}
  <2>2. ASSUME NEW j \in gone
        PROVE  /\ StatusOf(j) \in ContentJobStatuses
               /\ StatusOf(j)' = "deleted"
               /\ held'[j] = held[j]
    BY <1>2, <2>1 DEF RemoveProject, Exists
  <2>3. ASSUME NEW j \in Jobs \ gone
        PROVE  StatusOf(j)' = StatusOf(j) /\ held'[j] = held[j]
    BY <1>1, <2>1 DEF RemoveProject
  <2>4. held' = held
    BY <1>0, <2>2, <2>3
  <2>5. Mapped' = [j \in Jobs |-> IF j \in gone THEN "deleted" ELSE Mapped[j]]
    BY <2>2, <2>3 DEF Mapped
  <2>6. \A j \in gone : Mapped[j] \in ContentJobStatuses
    BY <2>2 DEF Mapped
  <2> QED
    BY <2>4, <2>5, <2>6, SameTable DEF Abstract!Next, Abstract!Delete, Mapped
<1>5. ASSUME NEW j \in Jobs, \A k \in Jobs \ {j} : row'[k] = row[k]
      PROVE  [Abstract!Next]_<<Mapped, held>>
  <2>1. ASSUME NEW k \in Jobs \ {j}
        PROVE  StatusOf(k)' = StatusOf(k) /\ held'[k] = held[k]
    BY <1>1, <1>5
  <2>2. Mapped' = [Mapped EXCEPT ![j] = StatusOf(j)']
    BY <2>1 DEF Mapped
  <2>3. held' = [held EXCEPT ![j] = held'[j]]
    BY <1>0, <2>1
  <2>4. CASE Exists(j) /\ Exists(j)'
    <3>1. PICK from \in held[j] : TransitionAllowed(from, row'[j].status)
      BY <2>4, WrittenFromHeld
    <3>2. row'[j].status \in ContentJobStatuses /\ row[j].status \in ContentJobStatuses
      BY <1>0, <2>4, WrittenFromHeld DEF CurrentHeld
    <3>3. /\ Mapped[j] \in ContentJobStatuses
          /\ StatusOf(j)' = row'[j].status
          /\ held'[j] = held[j] \cup {row'[j].status}
      BY <1>0, <2>4, <3>2, HeldGrows DEF Mapped, StatusOf, HeldAfter
    <3>4. Abstract!Move(j)
      BY <2>2, <2>3, <3>1, <3>2, <3>3, SameTable DEF Abstract!Move, Mapped
    <3> QED
      BY <3>4 DEF Abstract!Next
  <2>5. CASE ~Exists(j) /\ Exists(j)'
    <3>1. row[j] = Unborn /\ row'[j] = NewRow
      BY <1>0, <2>5, RowGrows
    <3>2. Mapped[j] = "unborn" /\ StatusOf(j)' = "pending"
      BY <2>5, <3>1 DEF Mapped, StatusOf, NewRow
    <3>3. held'[j] = {"pending"}
      BY <1>0, <2>5, <3>1, HeldGrows DEF HeldAfter, CurrentHeld, NewRow
    <3>4. Abstract!Insert(j)
      BY <2>2, <2>3, <3>2, <3>3 DEF Abstract!Insert, Mapped
    <3> QED
      BY <3>4 DEF Abstract!Next
  <2>6. CASE Exists(j) /\ ~Exists(j)'
    <3>1. StatusOf(j) \in ContentJobStatuses /\ StatusOf(j)' = "deleted"
          /\ held'[j] = held[j]
      BY <1>2, <2>6
    <3>2. held' = held
      BY <1>0, <2>3, <3>1
    <3>3. Mapped' = [k \in Jobs |-> IF k \in {j} THEN "deleted" ELSE Mapped[k]]
      BY <2>2, <3>1 DEF Mapped
    <3>4. \A k \in {j} : Mapped[k] \in ContentJobStatuses
      BY <3>1 DEF Mapped
    <3> QED
      BY <3>2, <3>3, <3>4, SameTable DEF Abstract!Next, Abstract!Delete, Mapped
  <2>7. CASE ~Exists(j) /\ ~Exists(j)'
    <3>1. row'[j] = row[j]
      BY <1>0, <2>7, RowsStayRows, SentinelAssumption DEF Exists
    <3>2. UNCHANGED <<Mapped, held>>
      BY <1>0, <1>1, <2>2, <2>3, <3>1 DEF Mapped
    <3> QED
      BY <3>2
  <2> QED
    BY <2>4, <2>5, <2>6, <2>7
<1> QED
  BY <1>0, <1>3, <1>4, <1>5, StepOnRows

\* The pipeline implements JobProvenance: every interleaving of requests,
\* workers, handlers, crashes and deletions moves rows as it allows.
THEOREM ImplementsJobProvenance == HistorySpec => ImplementsProvenance
<1>1. HistoryInv /\ HistoryInv' /\ [HistoryNext]_HistoryVars
        => [Abstract!Next]_<<Mapped, held>>
  BY StepMaps
<1> QED
  BY <1>1, InitMaps, HistoryInvariance, PTL
  DEF HistorySpec, ImplementsProvenance, Abstract!Spec, Mapped

\* The theorems of the abstract specification, about the mapped state.
Promised == INSTANCE JobProvenanceProofs WITH status <- [j \in Jobs |-> StatusOf(j)]

\* The two instances of JobProvenance are the same specification.
LEMMA SamePromise ==
  /\ Promised!Init <=> Abstract!Init
  /\ Promised!Next <=> Abstract!Next
  /\ Promised!Provenance <=> Abstract!Provenance
  BY DEF Promised!Init, Abstract!Init, Promised!Next, Abstract!Next, Promised!Delete,
         Abstract!Delete, Promised!Insert, Abstract!Insert, Promised!Move,
         Abstract!Move, Promised!Provenance, Abstract!Provenance,
         Promised!TransitionAllowed, Abstract!TransitionAllowed,
         Promised!allowedTransitions, Abstract!allowedTransitions,
         Promised!ContentJobStatuses, Abstract!ContentJobStatuses

\* A row that was ever published went through generation, whatever the races.
THEOREM PublishedWasGenerated == HistorySpec => []Provenance
<1>1. ImplementsProvenance => Promised!Spec
  BY SamePromise, PTL DEF ImplementsProvenance, Abstract!Spec, Promised!Spec
<1>2. Promised!Spec => []Promised!Provenance
  BY Promised!ProvenanceHolds, PTL
<1> QED
  BY <1>1, <1>2, SamePromise, ImplementsJobProvenance, PTL DEF Provenance
================================================================================

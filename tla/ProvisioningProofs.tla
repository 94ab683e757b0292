-------------------------- MODULE ProvisioningProofs --------------------------
(***************************************************************************)
(* Proofs about Provisioning: its type invariant, that a running           *)
(* installation is attended to, and that the answer to a provisioning      *)
(* matches the status when no other request about the installation was     *)
(* overlapping or followed.                                                *)
(***************************************************************************)
EXTENDS Provisioning, TLAPS

\* A request is a record of these four fields.
IsRequest(q) == DOMAIN q = {"pc", "id", "arg", "was"}

\* The body of a creation names its method.
Formed(q) == RequestOK(q) /\ (q.pc \in CreatePcs => q.arg.method # Keep)

RequestsOK ==
  /\ req = [c \in Callers |-> req[c]]
  /\ \A c \in Callers : IsRequest(req[c]) /\ Formed(req[c])

IInv == TypeOK /\ RequestsOK /\ RunningIsAttended

--------------------------------------------------------------------------------
(* Requests *)

\* One request changes, into one that is well formed.
LEMMA OneRequest ==
  ASSUME RequestsOK, NEW c \in Callers, NEW q, IsRequest(q), Formed(q),
         req' = [req EXCEPT ![c] = q]
  PROVE  /\ RequestsOK' /\ req'[c] = q
         /\ \A k \in Callers \ {c} : req'[k] = req[k]
<1>1. /\ req'[c] = q /\ req' = [k \in Callers |-> req'[k]]
      /\ \A k \in Callers \ {c} : req'[k] = req[k]
  BY DEF RequestsOK
<1>2. \A k \in Callers : IsRequest(req'[k]) /\ Formed(req'[k])
  BY <1>1 DEF RequestsOK
<1> QED
  BY <1>1, <1>2 DEF RequestsOK

\* An answer ends one request and leaves the others alone.
LEMMA Answered ==
  ASSUME RequestsOK, NEW c \in Callers, Answer(c)
  PROVE  /\ RequestsOK' /\ req'[c] = NoReq
         /\ \A k \in Callers \ {c} : req'[k] = req[k]
<1>1. IsRequest(NoReq) /\ Formed(NoReq)
  BY DEF IsRequest, Formed, RequestOK, NoReq, NoRow, NoArg, AnswerPcs, CreatePcs, UpdatePcs, StatusPcs,
         ProvisionPcs, SnapshotPcs, TryPcs
<1> QED
  BY <1>1, OneRequest DEF Answer

\* The answer to a provisioning keeps the id it was about.
LEMMA ProvisionAnswered ==
  ASSUME RequestsOK, NEW c \in Callers, NEW pc \in {"provisioned", "provision_failed"},
         AnswerProvision(c, pc), req[c].pc \in ProvisionPcs
  PROVE  /\ RequestsOK' /\ req'[c].pc = pc /\ req'[c].id = req[c].id
         /\ \A k \in Callers \ {c} : req'[k] = req[k]
<1>1. PICK q : q = [NoReq EXCEPT !.pc = pc, !.id = req[c].id]
  OBVIOUS
<1>2. IsRequest(q) /\ q.pc = pc /\ q.id = req[c].id
  BY <1>1 DEF NoReq, IsRequest
<1>3. req[c].id \in Installations
  BY DEF RequestsOK, Formed, RequestOK, ProvisionPcs, TryPcs
<1>4. Formed(q)
  BY <1>2, <1>3, ProvisioningAssumption
  DEF Formed, RequestOK, AnswerPcs, CreatePcs, UpdatePcs, StatusPcs, ProvisionPcs, SnapshotPcs, TryPcs
<1>5. req' = [req EXCEPT ![c] = q]
  BY <1>1 DEF AnswerProvision
<1> QED
  BY <1>2, <1>4, <1>5, OneRequest

\* A request goes on in the stage it is in.
LEMMA WentOn ==
  ASSUME RequestsOK, NEW c \in Callers, NEW pc, GoOn(c, pc),
         \/ {req[c].pc, pc} \subseteq CreatePcs
         \/ {req[c].pc, pc} \subseteq UpdatePcs
         \/ {req[c].pc, pc} \subseteq SnapshotPcs \cap ProvisionPcs
  PROVE  /\ RequestsOK' /\ req'[c].pc = pc /\ req'[c].id = req[c].id
         /\ req'[c].arg = req[c].arg /\ req'[c].was = req[c].was
         /\ \A k \in Callers \ {c} : req'[k] = req[k]
<1>1. PICK q : q = [req[c] EXCEPT !.pc = pc]
  OBVIOUS
<1>2. /\ IsRequest(q) /\ q.pc = pc
      /\ q.id = req[c].id /\ q.arg = req[c].arg /\ q.was = req[c].was
  BY <1>1 DEF RequestsOK, IsRequest
<1>3. Formed(q)
  BY <1>2, ProvisioningAssumption
  DEF RequestsOK, Formed, RequestOK, AnswerPcs, CreatePcs, UpdatePcs, StatusPcs,
      ProvisionPcs, SnapshotPcs, TryPcs
<1>4. req' = [req EXCEPT ![c] = q]
  BY <1>1 DEF GoOn
<1> QED
  BY <1>2, <1>3, <1>4, OneRequest

\* A request starts that is well formed.
LEMMA Started ==
  ASSUME RequestsOK, NEW c \in Callers, NEW i \in Installations, NEW arg, NEW pc,
         Start(c, pc, i, arg),
         \/ pc \in CreatePcs \cup UpdatePcs /\ arg \in Inputs /\ (pc \in CreatePcs => arg.method # Keep)
         \/ pc = "status_read" /\ arg \in AdminTargets
         \/ pc = "provision_read"
  PROVE  /\ RequestsOK' /\ UNCHANGED <<projects, inst, faults>> /\ ~Busy(c)
         /\ req'[c].pc = pc /\ req'[c].id = i /\ alone' \subseteq Callers
         /\ \A k \in Callers \ {c} : req'[k] = req[k]
<1>1. PICK q : q = [NoReq EXCEPT !.pc = pc, !.id = i, !.arg = arg]
  OBVIOUS
<1>2. IsRequest(q) /\ q.pc = pc /\ q.id = i /\ q.arg = arg
  BY <1>1 DEF NoReq, IsRequest
<1>3. Formed(q)
  BY <1>2, ProvisioningAssumption
  DEF Formed, RequestOK, AnswerPcs, CreatePcs, UpdatePcs, StatusPcs, ProvisionPcs, SnapshotPcs, TryPcs
<1>4. /\ req' = [req EXCEPT ![c] = q]
      /\ UNCHANGED <<projects, inst, faults>> /\ ~Busy(c) /\ alone' \subseteq Callers
  BY <1>1 DEF Start
<1> QED
  BY <1>2, <1>3, <1>4, OneRequest

\* The reading half keeps the row it has read.
LEMMA HasRead ==
  ASSUME TypeOK, RequestsOK, NEW c \in Callers, NEW to, NEW next, ReadFor(c, to, next),
         \/ req[c].pc = "status_read" /\ next = "status_write"
         \/ req[c].pc = "provision_read" /\ next = "running_write"
  PROVE  /\ RequestsOK' /\ UNCHANGED <<projects, inst, faults>>
         /\ \/ req'[c].pc = "idle"
            \/ req'[c].pc = next /\ req'[c].id = req[c].id /\ req'[c].was = inst[req[c].id]
         /\ \A k \in Callers \ {c} : req'[k] = req[k]
<1>1. UNCHANGED <<projects, inst, faults>>
  BY DEF ReadFor
<1>2. CASE Answer(c)
  BY <1>1, <1>2, Answered DEF NoReq
<1>3. CASE Exists(req[c].id) /\ req' = [req EXCEPT ![c].pc = next, ![c].was = inst[req[c].id]]
  <2>1. PICK q : q = [req[c] EXCEPT !.pc = next, !.was = inst[req[c].id]]
    OBVIOUS
  <2>2. /\ IsRequest(q) /\ q.pc = next
        /\ q.id = req[c].id /\ q.arg = req[c].arg /\ q.was = inst[req[c].id]
    BY <2>1 DEF RequestsOK, IsRequest
  <2>3. req[c].id \in Installations /\ (req[c].pc = "status_read" => req[c].arg \in AdminTargets)
    BY DEF RequestsOK, Formed, RequestOK, StatusPcs
  <2>4. inst[req[c].id] \in Rows
    BY <1>3, <2>3 DEF TypeOK, Exists
  <2>5. Formed(q)
    BY <2>2, <2>3, <2>4, ProvisioningAssumption
    DEF Formed, RequestOK, AnswerPcs, CreatePcs, UpdatePcs, StatusPcs, ProvisionPcs, SnapshotPcs, TryPcs
  <2>6. req' = [req EXCEPT ![c] = q]
    BY <1>3, <2>1 DEF RequestsOK
  <2> QED
    BY <1>1, <2>2, <2>5, <2>6, OneRequest
<1> QED
  BY <1>2, <1>3 DEF ReadFor

--------------------------------------------------------------------------------
(* Rows *)

RowsOK == inst \in [Installations -> Rows \cup {Unborn, Deleted}]

\* A write of a status changes one row, and of it the status.
LEMMA StatusSet ==
  ASSUME RowsOK, NEW i \in Installations, NEW to \in ProvisioningStatuses, SetStatus(i, to)
  PROVE  /\ RowsOK' /\ inst'[i].status = to
         /\ \A k \in Installations \ {i} : inst'[k] = inst[k]
<1>1. inst[i] \in Rows
  BY DEF RowsOK, SetStatus, Exists
<1>2. inst' = [inst EXCEPT ![i] = [inst[i] EXCEPT !.status = to]]
  BY DEF SetStatus
<1>3. [inst[i] EXCEPT !.status = to] \in Rows /\ [inst[i] EXCEPT !.status = to].status = to
  BY <1>1 DEF Rows
<1> QED
  BY <1>2, <1>3 DEF RowsOK

\* An update of the fields leaves the status.
LEMMA RowConfigured ==
  ASSUME NEW row \in Rows, NEW b \in Inputs
  PROVE  Configured(row, b) \in Rows /\ Configured(row, b).status = row.status
<1>1. b \in Bodies
  BY ProvisioningAssumption
<1> QED
  BY <1>1 DEF Configured, Rows, Bodies

--------------------------------------------------------------------------------
(* The steps *)

Runs(i) == Exists(i) /\ inst[i].status = "running"
Attends(c, i) == req[c].id = i /\ req[c].pc \in {"execute", "completed_write", "catch"}

\* Where only c moves, an installation stays attended unless c leaves it running.
LEMMA StaysAttended ==
  ASSUME IInv, NEW c \in Callers, \A k \in Callers \ {c} : req'[k] = req[k],
         faults' = faults,
         \A i \in Installations :
           "running" \notin AdminTargets /\ Runs(i)' =>
             Attends(c, i)' \/ (Runs(i) /\ ~Attends(c, i))
  PROVE  RunningIsAttended'
BY DEF IInv, RunningIsAttended, Runs, Attends

\* A new request carries what a client may ask.
LEMMA StartStep ==
  ASSUME IInv, NEW c \in Callers,
         StartCreate(c) \/ StartUpdate(c) \/ StartStatus(c) \/ StartProvision(c)
  PROVE  IInv'
<1> USE DEF IInv
<1>1. PICK i \in Installations, arg \in Inputs \cup AdminTargets \cup {NoArg},
           pc \in CreatePcs \cup UpdatePcs \cup {"status_read", "provision_read"} :
        /\ Start(c, pc, i, arg)
        /\ \/ pc \in CreatePcs \cup UpdatePcs /\ arg \in Inputs /\ (pc \in CreatePcs => arg.method # Keep)
           \/ pc = "status_read" /\ arg \in AdminTargets
           \/ pc = "provision_read"
  BY DEF StartCreate, StartUpdate, StartStatus, StartProvision, CreatePcs, UpdatePcs
<1>2. /\ RequestsOK' /\ UNCHANGED <<projects, inst, faults>> /\ ~Busy(c)
      /\ alone' \subseteq Callers
      /\ \A k \in Callers \ {c} : req'[k] = req[k]
  BY <1>1, Started
<1>3. TypeOK'
  BY <1>2 DEF TypeOK, RequestsOK, Formed
<1>4. RunningIsAttended'
  BY <1>2, StaysAttended DEF Busy, AnswerPcs, Attends, Runs, Exists
<1> QED
  BY <1>2, <1>3, <1>4

\* A step that only reads, or ends the request, outside the try block.
LEMMA QuietStep ==
  ASSUME IInv, NEW c \in Callers, RequestsOK', UNCHANGED <<projects, inst, alone, faults>>,
         \A k \in Callers \ {c} : req'[k] = req[k],
         \A i \in Installations : Attends(c, i) => Attends(c, i)'
  PROVE  IInv'
<1> USE DEF IInv
<1>1. TypeOK'
  BY DEF TypeOK, RequestsOK, Formed
<1>2. RunningIsAttended'
  BY StaysAttended DEF Runs, Exists
<1> QED
  BY <1>1, <1>2

\* create(): the lookup and the insert.
LEMMA CreateStep ==
  ASSUME IInv, NEW c \in Callers, UNCHANGED alone, FindOpen(c) \/ Insert(c)
  PROVE  IInv'
<1> USE DEF IInv
<1>1. CASE FindOpen(c)
  <2>1. /\ RequestsOK' /\ UNCHANGED <<projects, inst, faults>>
        /\ \A k \in Callers \ {c} : req'[k] = req[k]
    BY <1>1, Answered, WentOn DEF FindOpen, CreatePcs
  <2> QED
    BY <1>1, <2>1, QuietStep DEF FindOpen, Attends
<1>2. CASE Insert(c)
  <2>1. /\ RequestsOK' /\ UNCHANGED <<projects, faults>>
        /\ \A k \in Callers \ {c} : req'[k] = req[k]
    BY <1>2, Answered DEF Insert
  <2>2. req[c].pc = "insert" /\ req[c].arg \in Bodies /\ req[c].arg.method \in Methods
    BY <1>2, ProvisioningAssumption
    DEF Insert, RequestsOK, Formed, RequestOK, CreatePcs, Bodies
  <2>3. CASE req[c].arg.project \in projects
    <3> DEFINE row == [project |-> req[c].arg.project, method |-> req[c].arg.method,
                       fields |-> req[c].arg.set, status |-> "pending"]
    <3>1. row \in Rows /\ row.status = "pending"
      BY <2>2, <2>3 DEF Rows, Bodies, TypeOK, ProvisioningStatuses
    <3>2. inst' = [inst EXCEPT ![req[c].id] = row]
      BY <1>2, <2>3 DEF Insert
    <3>3. RowsOK'
      BY <3>1, <3>2 DEF TypeOK, RowsOK
    <3>4. TypeOK'
      BY <2>1, <3>3 DEF TypeOK, RowsOK, RequestsOK, Formed
    <3>5. \A i \in Installations : Runs(i)' => Runs(i) /\ inst'[i] = inst[i]
      BY <3>1, <3>2 DEF TypeOK, Runs, Exists
    <3>6. RunningIsAttended'
      BY <2>1, <2>2, <3>5, StaysAttended DEF Attends
    <3> QED
      BY <2>1, <3>4, <3>6
  <2>4. CASE req[c].arg.project \notin projects
    BY <1>2, <2>1, <2>2, <2>4, QuietStep DEF Insert, Attends
  <2> QED
    BY <2>3, <2>4
<1> QED
  BY <1>1, <1>2

\* update(): the lookup and the write.
LEMMA UpdateStep ==
  ASSUME IInv, NEW c \in Callers, UNCHANGED alone, EnsureExists(c) \/ Configure(c)
  PROVE  IInv'
<1> USE DEF IInv
<1>1. CASE EnsureExists(c)
  <2>1. /\ RequestsOK' /\ UNCHANGED <<projects, inst, faults>>
        /\ \A k \in Callers \ {c} : req'[k] = req[k]
    BY <1>1, Answered, WentOn DEF EnsureExists, UpdatePcs
  <2> QED
    BY <1>1, <2>1, QuietStep DEF EnsureExists, Attends
<1>2. CASE Configure(c)
  <2>1. /\ RequestsOK' /\ UNCHANGED <<projects, faults>> /\ req[c].pc = "configure"
        /\ \A k \in Callers \ {c} : req'[k] = req[k]
    BY <1>2, Answered DEF Configure
  <2>2. req[c].arg \in Inputs /\ req[c].id \in Installations
    BY <2>1 DEF RequestsOK, Formed, RequestOK, UpdatePcs, AnswerPcs
  <2>3. CASE Exists(req[c].id) /\ inst' = [inst EXCEPT ![req[c].id] = Configured(@, req[c].arg)]
    <3> DEFINE row == Configured(inst[req[c].id], req[c].arg)
    <3>1. inst[req[c].id] \in Rows
      BY <2>2, <2>3 DEF TypeOK, Exists
    <3>2. row \in Rows /\ row.status = inst[req[c].id].status
      BY <2>2, <3>1, RowConfigured
    <3>3. inst' = [inst EXCEPT ![req[c].id] = row]
      BY <2>3
    <3>4. TypeOK'
      BY <2>1, <3>2, <3>3 DEF TypeOK, RequestsOK, Formed
    <3>5. \A i \in Installations : Runs(i)' => Runs(i)
      BY <2>3, <3>2, <3>3 DEF TypeOK, Runs, Exists
    <3>6. RunningIsAttended'
      BY <2>1, <3>5, StaysAttended DEF Attends
    <3> QED
      BY <2>1, <3>4, <3>6
  <2>4. CASE inst' = inst
    BY <2>1, <2>4, QuietStep DEF Attends
  <2> QED
    BY <1>2, <2>3, <2>4 DEF Configure
<1> QED
  BY <1>1, <1>2

\* The reads of updateStatus() and of provision().
LEMMA ReadStep ==
  ASSUME IInv, NEW c \in Callers, UNCHANGED alone, ReadStatus(c) \/ ReadInstallation(c)
  PROVE  IInv'
<1>1. /\ RequestsOK' /\ UNCHANGED <<projects, inst, faults>>
      /\ \A k \in Callers \ {c} : req'[k] = req[k]
  BY HasRead DEF IInv, ReadStatus, ReadInstallation
<1> QED
  BY <1>1, QuietStep DEF ReadStatus, ReadInstallation, Attends

\* A step that writes a status, or finds that the row is gone.
LEMMA StatusStep ==
  ASSUME IInv, NEW c \in Callers, NEW to \in ProvisioningStatuses, NEW i \in Installations,
         i = req[c].id, SetStatus(i, to) \/ RowGone(i),
         RequestsOK', UNCHANGED <<projects, alone, faults>>,
         \A k \in Callers \ {c} : req'[k] = req[k],
         to = "running" /\ "running" \notin AdminTargets /\ SetStatus(i, to) => Attends(c, i)'
  PROVE  IInv'
<1> USE DEF IInv
<1>1. CASE SetStatus(i, to)
  <2>1. /\ RowsOK' /\ inst'[i].status = to
        /\ \A k \in Installations \ {i} : inst'[k] = inst[k]
    BY <1>1, StatusSet DEF TypeOK, RowsOK
  <2>2. TypeOK'
    BY <2>1 DEF TypeOK, RowsOK, RequestsOK, Formed
  <2>3. \A k \in Installations : "running" \notin AdminTargets /\ Runs(k)' =>
          Attends(c, k)' \/ (Runs(k) /\ ~Attends(c, k))
    BY <1>1, <2>1 DEF Runs, Exists, Attends
  <2> QED
    BY <2>2, <2>3, StaysAttended
<1>2. CASE RowGone(i)
  <2>1. inst' = inst /\ ~Exists(i)
    BY <1>2 DEF RowGone
  <2>2. TypeOK'
    BY <2>1 DEF TypeOK, RequestsOK, Formed
  <2>3. \A k \in Installations : Runs(k)' => Runs(k) /\ ~Attends(c, k)
    BY <2>1 DEF Runs, Exists, Attends
  <2> QED
    BY <2>2, <2>3, StaysAttended
<1> QED
  BY <1>1, <1>2

\* The writes of a client's status and of running.
LEMMA WriteStep ==
  ASSUME IInv, NEW c \in Callers, UNCHANGED alone, WriteStatus(c) \/ WriteRunning(c)
  PROVE  IInv'
<1> USE DEF IInv
<1>1. req[c].id \in Installations
  BY DEF RequestsOK, Formed, RequestOK, WriteStatus, WriteRunning, AnswerPcs
<1>2. CASE WriteStatus(c)
  <2>1. /\ req[c].arg \in AdminTargets /\ req[c].arg \in ProvisioningStatuses
        /\ SetStatus(req[c].id, req[c].arg) \/ RowGone(req[c].id)
        /\ UNCHANGED <<projects, faults>>
    BY <1>2, ProvisioningAssumption DEF RequestsOK, Formed, RequestOK, WriteStatus, StatusPcs
  <2>2. RequestsOK' /\ \A k \in Callers \ {c} : req'[k] = req[k]
    BY <1>2, Answered DEF WriteStatus
  <2> QED
    BY <1>1, <2>1, <2>2, StatusStep
<1>3. CASE WriteRunning(c)
  <2>1. req[c].pc = "running_write" /\ UNCHANGED <<projects, faults>>
    BY <1>3 DEF WriteRunning
  <2>2. CASE SetStatus(req[c].id, "running") /\ GoOn(c, "execute")
    <3>1. /\ RequestsOK' /\ req'[c].pc = "execute" /\ req'[c].id = req[c].id
          /\ \A k \in Callers \ {c} : req'[k] = req[k]
      BY <2>1, <2>2, WentOn DEF SnapshotPcs, ProvisionPcs, TryPcs
    <3>2. \A i \in Installations : i = req[c].id => Attends(c, i)'
      BY <3>1 DEF Attends
    <3> QED
      BY <1>1, <2>1, <2>2, <3>1, <3>2, StatusStep DEF ProvisioningStatuses
  <2>3. CASE RowGone(req[c].id) /\ Answer(c)
    <3>1. RequestsOK' /\ \A k \in Callers \ {c} : req'[k] = req[k]
      BY <2>3, Answered
    <3> QED
      BY <1>1, <2>1, <2>3, <3>1, StatusStep DEF ProvisioningStatuses
  <2> QED
    BY <1>3, <2>2, <2>3 DEF WriteRunning
<1> QED
  BY <1>2, <1>3

\* The try block ends at a status that is not running, or goes on.
LEMMA TryStep ==
  ASSUME IInv, NEW c \in Callers, UNCHANGED alone, Execute(c) \/ WriteCompleted(c) \/ LogSuccess(c)
  PROVE  IInv'
<1> USE DEF IInv
<1>1. /\ req[c].id \in Installations /\ req[c].pc \in TryPcs
      /\ UNCHANGED <<projects, faults>>
  BY DEF RequestsOK, Formed, RequestOK, Execute, WriteCompleted, LogSuccess, AnswerPcs, TryPcs
<1>2. ASSUME NEW pc \in {"completed_write", "catch", "success_log"}, GoOn(c, pc)
      PROVE  /\ RequestsOK' /\ req'[c].pc = pc /\ req'[c].id = req[c].id
             /\ \A k \in Callers \ {c} : req'[k] = req[k]
  BY <1>1, <1>2, WentOn DEF SnapshotPcs, ProvisionPcs, TryPcs
<1>3. CASE Execute(c)
  BY <1>1, <1>2, <1>3, QuietStep DEF Execute, Attends
<1>4. CASE WriteCompleted(c)
  <2>1. PICK pc \in {"completed_write", "catch", "success_log"} : GoOn(c, pc)
    BY <1>4 DEF WriteCompleted
  <2> QED
    BY <1>1, <1>2, <1>4, <2>1, StatusStep DEF WriteCompleted, ProvisioningStatuses
<1>5. CASE LogSuccess(c)
  <2>1. CASE GoOn(c, "catch")
    BY <1>1, <1>2, <1>5, <2>1, QuietStep DEF LogSuccess, Attends
  <2>2. CASE AnswerProvision(c, "provisioned")
    BY <1>1, <1>5, <2>2, ProvisionAnswered, QuietStep DEF LogSuccess, Attends, ProvisionPcs
  <2> QED
    BY <1>5, <2>1, <2>2 DEF LogSuccess
<1> QED
  BY <1>3, <1>4, <1>5

\* The catch block ends the provisioning.
LEMMA CatchStep ==
  ASSUME IInv, NEW c \in Callers, UNCHANGED alone, CatchError(c)
  PROVE  IInv'
<1> USE DEF IInv
<1>1. /\ req[c].id \in Installations /\ req[c].pc = "catch"
      /\ UNCHANGED <<projects, faults>>
  BY DEF RequestsOK, Formed, RequestOK, CatchError, AnswerPcs
<1>2. RequestsOK' /\ \A k \in Callers \ {c} : req'[k] = req[k]
  BY <1>1, ProvisionAnswered DEF CatchError, ProvisionPcs
<1> QED
  BY <1>1, <1>2, StatusStep DEF CatchError, ProvisioningStatuses

\* A refused call is a fault, after which nothing is claimed of running rows.
LEMMA RefuseStep ==
  ASSUME IInv, NEW c \in Callers, Refuse(c) PROVE IInv'
<1> USE DEF IInv
<1>1. /\ faults' \in 0 .. MaxFaults /\ faults' # 0 /\ UNCHANGED <<projects, alone>>
      /\ req[c].id \in Installations /\ req[c].pc \notin AnswerPcs
  BY ProvisioningAssumption DEF Refuse, TypeOK, Busy, RequestsOK, Formed, RequestOK, AnswerPcs
<1>2. RequestsOK'
  <2>1. CASE req[c].pc \in TryPcs /\ GoOn(c, "catch")
    BY <2>1, WentOn DEF SnapshotPcs, ProvisionPcs
  <2>2. CASE req[c].pc = "catch" /\ AnswerProvision(c, "provision_failed")
    BY <2>2, ProvisionAnswered DEF ProvisionPcs
  <2>3. CASE Answer(c)
    BY <2>3, Answered
  <2> QED
    BY <2>1, <2>2, <2>3 DEF Refuse
<1>3. RowsOK'
  <2>1. CASE SetStatus(req[c].id, "running")
    BY <1>1, <2>1, StatusSet DEF TypeOK, RowsOK, ProvisioningStatuses
  <2>2. CASE UNCHANGED inst
    BY <2>2 DEF TypeOK, RowsOK
  <2> QED
    BY <2>1, <2>2 DEF Refuse
<1>4. TypeOK'
  BY <1>1, <1>2, <1>3 DEF TypeOK, RowsOK, RequestsOK, Formed
<1>5. RunningIsAttended'
  BY <1>1 DEF RunningIsAttended
<1> QED
  BY <1>2, <1>4, <1>5

\* So does a crash.
LEMMA CrashStep ==
  ASSUME IInv, NEW r \in Replicas, Crash(r) PROVE IInv'
<1> USE DEF IInv
<1>1. /\ faults' \in 0 .. MaxFaults /\ faults' # 0
      /\ UNCHANGED <<projects, inst, alone>>
  BY ProvisioningAssumption DEF Crash, TypeOK
<1>2. IsRequest(NoReq) /\ Formed(NoReq)
  BY DEF IsRequest, Formed, RequestOK, NoReq, NoRow, NoArg, AnswerPcs, CreatePcs, UpdatePcs, StatusPcs,
         ProvisionPcs, SnapshotPcs, TryPcs
<1>3. RequestsOK'
  BY <1>2 DEF Crash, RequestsOK
<1>4. TypeOK'
  BY <1>1, <1>3 DEF TypeOK, RequestsOK, Formed
<1>5. RunningIsAttended'
  BY <1>1 DEF RunningIsAttended
<1> QED
  BY <1>3, <1>4, <1>5

\* A deleted project takes its installations along.
LEMMA RemoveStep ==
  ASSUME IInv, NEW p \in Projects, RemoveProject(p) PROVE IInv'
<1> USE DEF IInv
<1>1. UNCHANGED <<req, alone, faults>> /\ projects' \subseteq projects
  BY DEF RemoveProject
<1>2. TypeOK' /\ RequestsOK'
  BY <1>1 DEF RemoveProject, TypeOK, RequestsOK
<1>3. \A i \in Installations : Runs(i)' => Runs(i)
  BY DEF RemoveProject, Runs, Exists, TypeOK
<1>4. RunningIsAttended'
  BY <1>1, <1>3 DEF RunningIsAttended, Runs
<1> QED
  BY <1>2, <1>4

--------------------------------------------------------------------------------
(* The induction *)

\* There are no installations and no requests at first.
LEMMA InitIInv == Init => IInv
<1> SUFFICES ASSUME Init PROVE IInv
  OBVIOUS
<1>1. IsRequest(NoReq) /\ Formed(NoReq)
  BY DEF IsRequest, Formed, RequestOK, NoReq, NoRow, NoArg, AnswerPcs, CreatePcs, UpdatePcs, StatusPcs,
         ProvisionPcs, SnapshotPcs, TryPcs
<1>2. RequestsOK
  BY <1>1 DEF Init, RequestsOK
<1>3. TypeOK
  BY <1>2, ProvisioningAssumption DEF Init, TypeOK, RequestsOK, Formed
<1>4. RunningIsAttended
  BY DEF Init, RunningIsAttended, Exists
<1> QED
  BY <1>2, <1>3, <1>4 DEF IInv

\* IInv is inductive.
LEMMA Induction == IInv /\ [Next]_vars => IInv'
<1> SUFFICES ASSUME IInv, [Next]_vars PROVE IInv'
  OBVIOUS
<1>1. CASE UNCHANGED vars
  BY <1>1 DEF vars, IInv, TypeOK, RequestsOK, RunningIsAttended, Exists
<1>2. ASSUME NEW c \in Callers, RequestStep(c) PROVE IInv'
  BY <1>2, CreateStep, UpdateStep, ReadStep, WriteStep, TryStep, CatchStep DEF RequestStep
<1> QED
  BY <1>1, <1>2, StartStep, RefuseStep, CrashStep, RemoveStep DEF Next

\* IInv is an invariant of Provisioning.
LEMMA Invariance == Spec => []IInv
  BY InitIInv, Induction, PTL DEF Spec

--------------------------------------------------------------------------------
(* Requests that are alone *)

\* Where only k moves.
LEMMA OneMoves ==
  ASSUME IInv, NEW k \in Callers, RequestStep(k) \/ Refuse(k)
  PROVE  /\ req[k].pc # "idle" /\ Busy(k) /\ alone' = alone
         /\ \A d \in Callers \ {k} : req'[d] = req[d]
         /\ req'[k].pc = "idle" \/ req'[k].id = req[k].id
         /\ \A i \in Installations \ {req[k].id} : inst'[i] = inst[i]
<1> USE DEF IInv
<1>1. req[k].pc # "idle" /\ Busy(k)
  BY DEF RequestStep, Refuse, Busy, AnswerPcs, FindOpen, Insert, EnsureExists, Configure,
         ReadStatus, WriteStatus, ReadInstallation, WriteRunning, Execute, WriteCompleted,
         LogSuccess, CatchError
<1>2. alone' = alone
  BY DEF RequestStep, Refuse
<1>3. \A i \in Installations \ {req[k].id} : inst'[i] = inst[i]
  <2>1. ASSUME NEW to, SetStatus(req[k].id, to) \/ RowGone(req[k].id)
        PROVE  \A i \in Installations \ {req[k].id} : inst'[i] = inst[i]
    BY <2>1 DEF SetStatus, RowGone, TypeOK
  <2>2. CASE Insert(k)
    BY <2>2 DEF Insert, TypeOK
  <2>3. CASE Configure(k)
    BY <2>3 DEF Configure, TypeOK
  <2>4. CASE WriteStatus(k) \/ WriteRunning(k) \/ WriteCompleted(k) \/ CatchError(k)
    BY <2>1, <2>4 DEF WriteStatus, WriteRunning, WriteCompleted, CatchError
  <2>5. CASE Refuse(k)
    BY <2>1, <2>5 DEF Refuse
  <2>6. CASE FindOpen(k) \/ EnsureExists(k) \/ ReadStatus(k) \/ ReadInstallation(k)
             \/ Execute(k) \/ LogSuccess(k)
    BY <2>6 DEF FindOpen, EnsureExists, ReadStatus, ReadInstallation, ReadFor, Execute, LogSuccess
  <2> QED
    BY <2>2, <2>3, <2>4, <2>5, <2>6 DEF RequestStep
<1>4. PICK q : /\ req' = [req EXCEPT ![k] = q]
               /\ q.pc = "idle" \/ q.id = req[k].id
  <2>1. ASSUME Answer(k)
        PROVE  \E q : /\ req' = [req EXCEPT ![k] = q]
                      /\ q.pc = "idle" \/ q.id = req[k].id
    <3>1. NoReq.pc = "idle"
      BY DEF NoReq
    <3> QED
      BY <2>1, <3>1 DEF Answer
  <2>2. ASSUME NEW pc, GoOn(k, pc)
        PROVE  \E q : /\ req' = [req EXCEPT ![k] = q]
                      /\ q.pc = "idle" \/ q.id = req[k].id
    <3>1. PICK q : q = [req[k] EXCEPT !.pc = pc]
      OBVIOUS
    <3>2. q.id = req[k].id
      BY <3>1 DEF RequestsOK, IsRequest
    <3> QED
      BY <2>2, <3>1, <3>2 DEF GoOn
  <2>3. ASSUME NEW pc, AnswerProvision(k, pc)
        PROVE  \E q : /\ req' = [req EXCEPT ![k] = q]
                      /\ q.pc = "idle" \/ q.id = req[k].id
    <3>1. PICK q : q = [NoReq EXCEPT !.pc = pc, !.id = req[k].id]
      OBVIOUS
    <3>2. q.id = req[k].id
      BY <3>1 DEF NoReq
    <3> QED
      BY <2>3, <3>1, <3>2 DEF AnswerProvision
  <2>4. ASSUME NEW to, NEW next, ReadFor(k, to, next)
        PROVE  \E q : /\ req' = [req EXCEPT ![k] = q]
                      /\ q.pc = "idle" \/ q.id = req[k].id
    <3>1. PICK q : q = [req[k] EXCEPT !.pc = next, !.was = inst[req[k].id]]
      OBVIOUS
    <3>2. q.id = req[k].id
      BY <3>1 DEF RequestsOK, IsRequest
    <3>3. CASE Answer(k)
      BY <2>1, <3>3
    <3>4. CASE req' = [req EXCEPT ![k].pc = next, ![k].was = inst[req[k].id]]
      <4>1. req' = [req EXCEPT ![k] = q]
        BY <3>1, <3>4 DEF RequestsOK
      <4> QED
        BY <3>2, <4>1
    <3> QED
      BY <2>4, <3>3, <3>4 DEF ReadFor
  <2>5. CASE FindOpen(k) \/ Insert(k) \/ EnsureExists(k) \/ Configure(k) \/ WriteStatus(k)
    BY <2>1, <2>2, <2>5 DEF FindOpen, Insert, EnsureExists, Configure, WriteStatus
  <2>6. CASE ReadStatus(k) \/ ReadInstallation(k)
    BY <2>4, <2>6 DEF ReadStatus, ReadInstallation
  <2>7. CASE WriteRunning(k) \/ Execute(k) \/ WriteCompleted(k)
    BY <2>1, <2>2, <2>7 DEF WriteRunning, Execute, WriteCompleted
  <2>8. CASE LogSuccess(k) \/ CatchError(k)
    BY <2>2, <2>3, <2>8 DEF LogSuccess, CatchError
  <2>9. CASE Refuse(k)
    BY <2>1, <2>2, <2>3, <2>9 DEF Refuse
  <2> QED
    BY <2>5, <2>6, <2>7, <2>8, <2>9 DEF RequestStep
<1>5. req'[k] = q /\ \A d \in Callers \ {k} : req'[d] = req[d]
  BY <1>4 DEF RequestsOK
<1> QED
  BY <1>1, <1>2, <1>3, <1>4, <1>5

\* No request that is not answered yet is about the installation of one that is
\* alone.
Apart ==
  \A c \in alone : \A d \in Callers \ {c} :
    req[c].pc # "idle" /\ Busy(d) => req[d].id # req[c].id

\* Requests stay apart: one that starts takes the others' claim to its installation.
LEMMA ApartKept == IInv /\ Apart /\ [Next]_vars => Apart'
<1> SUFFICES ASSUME IInv, Apart, [Next]_vars PROVE Apart'
  OBVIOUS
<1>1. alone \subseteq Callers
  BY DEF IInv, TypeOK
<1>2. ASSUME NEW k \in Callers,
             StartCreate(k) \/ StartUpdate(k) \/ StartStatus(k) \/ StartProvision(k)
      PROVE  Apart'
  <2>1. PICK i \in Installations, arg \in Inputs \cup AdminTargets \cup {NoArg},
             pc \in {"find", "ensure", "status_read", "provision_read"} :
          /\ Start(k, pc, i, arg)
          /\ \/ pc \in CreatePcs \cup UpdatePcs /\ arg \in Inputs /\ (pc \in CreatePcs => arg.method # Keep)
             \/ pc = "status_read" /\ arg \in AdminTargets
             \/ pc = "provision_read"
    BY <1>2 DEF StartCreate, StartUpdate, StartStatus, StartProvision, CreatePcs, UpdatePcs
  <2>2. /\ req'[k].pc = pc /\ req'[k].id = i
        /\ \A d \in Callers \ {k} : req'[d] = req[d]
    BY <2>1, Started DEF IInv
  <2>3. /\ k \in alone' => \A d \in Callers \ {k} : Busy(d) => req[d].id # i
        /\ \A c \in Callers \ {k} : c \in alone' => c \in alone /\ req[c].id # i
        /\ alone' \subseteq Callers
    BY <2>1 DEF Start
  <2>4. \A d \in Callers \ {k} : Busy(d)' <=> Busy(d)
    BY <2>2 DEF Busy
  <2> QED
    BY <2>2, <2>3, <2>4 DEF Apart
<1>3. ASSUME NEW k \in Callers, RequestStep(k) \/ Refuse(k) PROVE Apart'
  <2>1. /\ req[k].pc # "idle" /\ Busy(k) /\ alone' = alone
        /\ \A d \in Callers \ {k} : req'[d] = req[d]
        /\ req'[k].pc = "idle" \/ req'[k].id = req[k].id
    BY <1>3, OneMoves
  <2>2. \A d \in Callers : Busy(d)' => Busy(d) /\ req'[d].id = req[d].id
    BY <2>1 DEF Busy, AnswerPcs
  <2>3. \A c \in alone : req'[c].pc # "idle" => req[c].pc # "idle" /\ req'[c].id = req[c].id
    BY <1>1, <2>1
  <2> QED
    BY <2>1, <2>2, <2>3 DEF Apart
<1>4. ASSUME NEW r \in Replicas, Crash(r) PROVE Apart'
  <2>1. alone' = alone /\ \A c \in Callers : req'[c] = NoReq \/ req'[c] = req[c]
    BY <1>4 DEF Crash
  <2>2. \A d \in Callers : Busy(d)' => Busy(d) /\ req'[d] = req[d]
    BY <2>1 DEF Busy, AnswerPcs, NoReq
  <2>3. \A c \in alone : req'[c].pc # "idle" => req'[c] = req[c]
    BY <1>1, <2>1 DEF NoReq
  <2> QED
    BY <2>1, <2>2, <2>3 DEF Apart
<1>5. CASE UNCHANGED <<req, alone>>
  BY <1>5 DEF Apart, Busy
<1> QED
  BY <1>2, <1>3, <1>4, <1>5 DEF Next, vars, RemoveProject

\* The installations belong to projects that are there.
ForeignKey == \A i \in Installations : Exists(i) => inst[i].project \in projects

\* Nobody else writes what a request that is alone has looked at: the row is the
\* one provision() works with, its status is what was last written, and where the
\* catch block finds it completed, a call has failed.
WorkPcs == {"running_write", "catch"} \cup TryPcs

Stage(q) ==
  /\ q.pc \in {"completed_write", "success_log"} => Accepts(q.was)
  /\ q.id \in Installations /\ Exists(q.id) =>
       /\ q.pc \in WorkPcs => /\ inst[q.id].project = q.was.project
                              /\ inst[q.id].method = q.was.method
                              /\ inst[q.id].fields = q.was.fields
       /\ q.pc \in {"execute", "completed_write"} => inst[q.id].status = "running"
       /\ q.pc = "success_log" => inst[q.id].status = "completed"
       /\ q.pc = "provisioned" => inst[q.id].status = "completed" /\ Accepts(inst[q.id])
       /\ q.pc = "catch" /\ inst[q.id].status = "completed" => faults > 0
       /\ q.pc = "provision_failed" /\ faults <= 1 => inst[q.id].status # "completed"

StageInv == ForeignKey /\ Apart /\ \A c \in alone : Stage(req[c])

\* A write of a status moves no installation to another project.
LEMMA StatusLeavesProject ==
  ASSUME RowsOK, ForeignKey, NEW i \in Installations, UNCHANGED projects,
         \/ \E to \in ProvisioningStatuses : SetStatus(i, to)
         \/ inst' = inst
  PROVE  ForeignKey'
<1>1. CASE inst' = inst
  BY <1>1 DEF ForeignKey, Exists
<1>2. ASSUME NEW to \in ProvisioningStatuses, SetStatus(i, to) PROVE ForeignKey'
  <2>1. /\ \A k \in Installations \ {i} : inst'[k] = inst[k]
        /\ inst'[i].project = inst[i].project /\ Exists(i)
    BY <1>2 DEF SetStatus, RowsOK, Exists, Rows
  <2> QED
    BY <2>1 DEF ForeignKey, Exists
<1> QED
  BY <1>1, <1>2

\* No request leaves an installation of a project that is gone.
LEMMA RequestLeavesProject ==
  ASSUME IInv, ForeignKey, NEW c \in Callers, RequestStep(c) PROVE ForeignKey'
<1>1. RowsOK
  BY DEF IInv, TypeOK, RowsOK
<1>2. CASE UNCHANGED <<projects, inst>>
  BY <1>2 DEF ForeignKey, Exists
<1>3. CASE Insert(c)
  <2>1. req[c].id \in Installations /\ UNCHANGED projects
    BY <1>3 DEF Insert, IInv, RequestsOK, Formed, RequestOK
  <2>2. CASE req[c].arg.project \in projects
    <3>1. PICK row : row = [project |-> req[c].arg.project, method |-> req[c].arg.method,
                            fields |-> req[c].arg.set, status |-> "pending"]
      OBVIOUS
    <3>2. inst' = [inst EXCEPT ![req[c].id] = row] /\ row.project \in projects
      BY <1>3, <2>2, <3>1 DEF Insert
    <3> QED
      BY <1>1, <2>1, <3>2 DEF ForeignKey, Exists, RowsOK
  <2>3. CASE req[c].arg.project \notin projects
    BY <1>3, <2>1, <2>3 DEF Insert, ForeignKey, Exists
  <2> QED
    BY <2>2, <2>3
<1>4. CASE Configure(c)
  <2>1. req[c].id \in Installations /\ UNCHANGED projects
    BY <1>4 DEF Configure, IInv, RequestsOK, Formed, RequestOK
  <2>2. PICK row : row = Configured(inst[req[c].id], req[c].arg)
    OBVIOUS
  <2>3. CASE Exists(req[c].id) /\ row.project \in projects
    <3>1. inst' = [inst EXCEPT ![req[c].id] = row]
      BY <1>4, <2>2, <2>3 DEF Configure
    <3> QED
      BY <1>1, <2>1, <2>3, <3>1 DEF ForeignKey, Exists, RowsOK
  <2>4. CASE ~(Exists(req[c].id) /\ row.project \in projects)
    BY <1>4, <2>1, <2>2, <2>4 DEF Configure, ForeignKey, Exists
  <2> QED
    BY <2>3, <2>4
<1>5. ASSUME NEW to \in ProvisioningStatuses, SetStatus(req[c].id, to) \/ RowGone(req[c].id),
             UNCHANGED projects, req[c].pc # "idle"
      PROVE  ForeignKey'
  <2>1. req[c].id \in Installations
    BY <1>5 DEF IInv, RequestsOK, Formed, RequestOK
  <2> QED
    BY <1>1, <1>5, <2>1, StatusLeavesProject DEF RowGone
<1>6. CASE WriteStatus(c)
  <2>1. req[c].arg \in ProvisioningStatuses
    BY <1>6, ProvisioningAssumption DEF WriteStatus, IInv, RequestsOK, Formed, RequestOK, StatusPcs
  <2> QED
    BY <1>5, <1>6, <2>1 DEF WriteStatus
<1>7. CASE WriteRunning(c) \/ WriteCompleted(c) \/ CatchError(c)
  BY <1>5, <1>7 DEF WriteRunning, WriteCompleted, CatchError, ProvisioningStatuses
<1>8. CASE FindOpen(c) \/ EnsureExists(c) \/ ReadStatus(c) \/ ReadInstallation(c)
           \/ Execute(c) \/ LogSuccess(c)
  BY <1>2, <1>8 DEF FindOpen, EnsureExists, ReadStatus, ReadInstallation, ReadFor, Execute, LogSuccess
<1> QED
  BY <1>3, <1>4, <1>6, <1>7, <1>8 DEF RequestStep

\* Installations belong to existing projects, through deletions as well.
LEMMA ForeignKeyKept == IInv /\ ForeignKey /\ [Next]_vars => ForeignKey'
<1> SUFFICES ASSUME IInv, ForeignKey, [Next]_vars PROVE ForeignKey'
  OBVIOUS
<1>1. CASE UNCHANGED <<projects, inst>>
  BY <1>1 DEF ForeignKey, Exists
<1>2. ASSUME NEW c \in Callers, Refuse(c) PROVE ForeignKey'
  <2>1. req[c].id \in Installations
    BY <1>2 DEF Refuse, Busy, AnswerPcs, IInv, RequestsOK, Formed, RequestOK
  <2> QED
    BY <1>2, <2>1, StatusLeavesProject
    DEF Refuse, IInv, TypeOK, RowsOK, ProvisioningStatuses
<1>3. ASSUME NEW p \in Projects, RemoveProject(p) PROVE ForeignKey'
  BY <1>3 DEF RemoveProject, ForeignKey, Exists
<1>4. ASSUME NEW c \in Callers,
             StartCreate(c) \/ StartUpdate(c) \/ StartStatus(c) \/ StartProvision(c)
      PROVE  ForeignKey'
  BY <1>1, <1>4 DEF StartCreate, StartUpdate, StartStatus, StartProvision, Start
<1> QED
  BY <1>1, <1>2, <1>3, <1>4, RequestLeavesProject DEF Next, vars, Crash

\* What a request claims outlives the steps that leave it and its row alone, or
\* delete the row.
LEMMA StageKept ==
  ASSUME NEW c, Stage(req[c]), req'[c] = req[c], faults \in Nat, faults' \in Nat,
         faults <= faults',
         \A i \in Installations : i = req[c].id /\ Exists(i)' => inst'[i] = inst[i]
  PROVE  Stage(req[c])'
<1>1. PICK q : q = req[c]
  OBVIOUS
<1>2. Stage(q) /\ q = req'[c]
  BY <1>1
<1>3. q.id \in Installations /\ Exists(q.id)' => Exists(q.id) /\ inst'[q.id] = inst[q.id]
  BY <1>1 DEF Exists
<1> QED
  BY <1>2, <1>3 DEF Stage, Accepts

\* A status is written to the row of the request, or the row is gone.
LEMMA RowWritten ==
  ASSUME RowsOK, NEW i \in Installations, NEW to \in ProvisioningStatuses,
         SetStatus(i, to) \/ RowGone(i)
  PROVE  \/ ~Exists(i) /\ inst' = inst
         \/ /\ Exists(i) /\ inst'[i].status = to
            /\ inst'[i].project = inst[i].project
            /\ inst'[i].method = inst[i].method /\ inst'[i].fields = inst[i].fields
            /\ SetStatus(i, to)
<1>1. CASE SetStatus(i, to)
  <2>1. inst[i] \in Rows
    BY <1>1 DEF SetStatus, Exists, RowsOK
  <2>2. PICK row : row = [inst[i] EXCEPT !.status = to]
    OBVIOUS
  <2>3. /\ row.project = inst[i].project /\ row.method = inst[i].method
        /\ row.fields = inst[i].fields /\ row.status = to
    BY <2>1, <2>2 DEF Rows
  <2>4. inst'[i] = row /\ Exists(i)
    BY <1>1, <2>2 DEF SetStatus, RowsOK
  <2> QED
    BY <1>1, <2>3, <2>4
<1>2. CASE RowGone(i)
  BY <1>2 DEF RowGone
<1> QED
  BY <1>1, <1>2

\* What creations, updates and status requests claim of their installations.
LEMMA CreationStage ==
  ASSUME IInv, NEW c \in Callers,
         FindOpen(c) \/ Insert(c) \/ EnsureExists(c) \/ Configure(c)
                     \/ ReadStatus(c) \/ WriteStatus(c)
  PROVE  Stage(req[c])'
<1> USE DEF IInv
<1>1. CASE FindOpen(c)
  <2>1. CASE Answer(c)
    BY <2>1, Answered DEF NoReq, Stage, WorkPcs, TryPcs
  <2>2. CASE GoOn(c, "insert")
    <3>1. req'[c].pc = "insert"
      BY <1>1, <2>2, WentOn DEF FindOpen, CreatePcs
    <3> QED
      BY <3>1 DEF Stage, WorkPcs, TryPcs
  <2> QED
    BY <1>1, <2>1, <2>2 DEF FindOpen
<1>2. CASE Insert(c) \/ Configure(c) \/ WriteStatus(c)
  BY <1>2, Answered DEF Insert, Configure, WriteStatus, NoReq, Stage, WorkPcs, TryPcs
<1>3. CASE EnsureExists(c)
  <2>1. req'[c].pc \in {"idle", "configure"}
    BY <1>3, Answered, WentOn DEF EnsureExists, NoReq, UpdatePcs
  <2> QED
    BY <2>1 DEF Stage, WorkPcs, TryPcs
<1>4. CASE ReadStatus(c)
  <2>1. req'[c].pc \in {"idle", "status_write"}
    BY <1>4, HasRead DEF ReadStatus
  <2> QED
    BY <2>1 DEF Stage, WorkPcs, TryPcs
<1> QED
  BY <1>1, <1>2, <1>3, <1>4

\* What provision() claims of its installation, from step to step.
LEMMA ProvisionStage ==
  ASSUME IInv, ForeignKey, NEW c \in Callers, Stage(req[c]),
         ReadInstallation(c) \/ WriteRunning(c) \/ Execute(c) \/ WriteCompleted(c)
           \/ LogSuccess(c) \/ CatchError(c)
  PROVE  Stage(req[c])'
<1> USE DEF IInv
<1>1. req[c].id \in Installations /\ RowsOK
  BY DEF RequestsOK, Formed, RequestOK, AnswerPcs, ReadInstallation, WriteRunning, Execute,
         WriteCompleted, LogSuccess, CatchError, TypeOK, RowsOK
<1>2. CASE ReadInstallation(c)
  <2>1. /\ inst' = inst
        /\ \/ req'[c].pc = "idle"
           \/ /\ req'[c].pc = "running_write" /\ req'[c].id = req[c].id
              /\ req'[c].was = inst[req[c].id]
    BY <1>2, HasRead DEF ReadInstallation
  <2> QED
    BY <2>1 DEF Stage, WorkPcs, TryPcs
<1>3. CASE WriteRunning(c)
  <2>1. CASE Answer(c)
    BY <2>1, Answered DEF NoReq, Stage, WorkPcs, TryPcs
  <2>2. CASE SetStatus(req[c].id, "running") /\ GoOn(c, "execute")
    <3>1. req'[c].pc = "execute" /\ req'[c].id = req[c].id /\ req'[c].was = req[c].was
      BY <1>3, <2>2, WentOn DEF WriteRunning, SnapshotPcs, ProvisionPcs, TryPcs
    <3> QED
      BY <1>1, <1>3, <2>2, <3>1, RowWritten
      DEF WriteRunning, Stage, WorkPcs, TryPcs, ProvisioningStatuses, Exists
  <2> QED
    BY <1>3, <2>1, <2>2 DEF WriteRunning
<1>4. CASE Execute(c)
  <2>1. PICK pc : /\ pc = (IF Accepts(req[c].was) THEN "completed_write" ELSE "catch")
                  /\ GoOn(c, pc)
    BY <1>4 DEF Execute
  <2>2. req'[c].pc = pc /\ req'[c].id = req[c].id /\ req'[c].was = req[c].was
    BY <1>4, <2>1, WentOn DEF Execute, SnapshotPcs, ProvisionPcs, TryPcs
  <2>3. inst' = inst /\ req[c].pc = "execute"
    BY <1>4 DEF Execute
  <2>4. Accepts(req'[c].was) <=> Accepts(req[c].was)
    BY <2>2
  <2> QED
    BY <2>1, <2>2, <2>3, <2>4 DEF Stage, WorkPcs, TryPcs, Exists
<1>5. CASE WriteCompleted(c)
  <2>1. CASE SetStatus(req[c].id, "completed") /\ GoOn(c, "success_log")
    <3>1. req'[c].pc = "success_log" /\ req'[c].id = req[c].id /\ req'[c].was = req[c].was
      BY <1>5, <2>1, WentOn DEF WriteCompleted, SnapshotPcs, ProvisionPcs, TryPcs
    <3> QED
      BY <1>1, <1>5, <2>1, <3>1, RowWritten
      DEF WriteCompleted, Stage, WorkPcs, TryPcs, ProvisioningStatuses, Exists
  <2>2. CASE RowGone(req[c].id) /\ GoOn(c, "catch")
    <3>1. req'[c].pc = "catch" /\ req'[c].id = req[c].id
      BY <1>5, <2>2, WentOn DEF WriteCompleted, SnapshotPcs, ProvisionPcs, TryPcs
    <3> QED
      BY <2>2, <3>1 DEF RowGone, Stage, WorkPcs, TryPcs, Exists
  <2> QED
    BY <1>5, <2>1, <2>2 DEF WriteCompleted
<1>6. CASE LogSuccess(c)
  <2>1. inst' = inst /\ req[c].pc = "success_log"
    BY <1>6 DEF LogSuccess
  <2>2. CASE AnswerProvision(c, "provisioned")
    <3>1. req'[c].pc = "provisioned" /\ req'[c].id = req[c].id
      BY <2>1, <2>2, ProvisionAnswered DEF ProvisionPcs, TryPcs
    <3> QED
      BY <2>1, <3>1 DEF Stage, WorkPcs, TryPcs, Exists, Accepts
  <2>3. CASE req[c].was.project \notin projects /\ GoOn(c, "catch")
    <3>1. ~Exists(req[c].id)
      BY <1>1, <2>1, <2>3 DEF Stage, WorkPcs, TryPcs, ForeignKey
    <3>2. req'[c].pc = "catch" /\ req'[c].id = req[c].id
      BY <2>1, <2>3, WentOn DEF SnapshotPcs, ProvisionPcs, TryPcs
    <3> QED
      BY <2>1, <3>1, <3>2 DEF Stage, WorkPcs, TryPcs, Exists
  <2> QED
    BY <1>6, <2>2, <2>3 DEF LogSuccess
<1>7. CASE CatchError(c)
  <2>1. req'[c].pc = "provision_failed" /\ req'[c].id = req[c].id
    BY <1>7, ProvisionAnswered DEF CatchError, ProvisionPcs
  <2> QED
    BY <1>1, <1>7, <2>1, RowWritten
    DEF CatchError, Stage, WorkPcs, TryPcs, ProvisioningStatuses, Exists
<1> QED
  BY <1>2, <1>3, <1>4, <1>5, <1>6, <1>7

\* A refused call is a fault: one may send a completed installation to the catch
\* block, it takes a second one to leave it completed.
LEMMA RefusedStage ==
  ASSUME IInv, NEW c \in Callers, Stage(req[c]), Refuse(c) PROVE Stage(req[c])'
<1> USE DEF IInv
<1>1. req[c].id \in Installations /\ RowsOK /\ faults \in Nat
  BY ProvisioningAssumption
  DEF RequestsOK, Formed, RequestOK, AnswerPcs, Refuse, Busy, TypeOK, RowsOK
<1>2. faults' = faults + 1
  BY DEF Refuse
<1>3. CASE req[c].pc \in TryPcs /\ GoOn(c, "catch")
  <2>1. req'[c].pc = "catch" /\ req'[c].id = req[c].id /\ req'[c].was = req[c].was
    BY <1>3, WentOn DEF SnapshotPcs, ProvisionPcs
  <2>2. inst' = inst
    BY <1>3 DEF Refuse, TryPcs
  <2>3. faults' > 0
    BY <1>1, <1>2
  <2> QED
    BY <1>3, <2>1, <2>2, <2>3 DEF Stage, WorkPcs, TryPcs, Exists
<1>4. CASE req[c].pc = "catch" /\ AnswerProvision(c, "provision_failed")
  <2>1. req'[c].pc = "provision_failed" /\ req'[c].id = req[c].id
    BY <1>4, ProvisionAnswered DEF ProvisionPcs
  <2>2. inst' = inst
    BY <1>4 DEF Refuse
  <2>3. faults' <= 1 => ~ (faults > 0)
    BY <1>1, <1>2
  <2> QED
    BY <1>4, <2>1, <2>2, <2>3 DEF Stage, WorkPcs, TryPcs, Exists
<1>5. CASE Answer(c)
  BY <1>5, Answered DEF NoReq, Stage, WorkPcs, TryPcs
<1> QED
  BY <1>3, <1>4, <1>5 DEF Refuse

\* StageInv is inductive.
LEMMA StageInduction == IInv /\ StageInv /\ [Next]_vars => StageInv'
<1> SUFFICES ASSUME IInv, StageInv, [Next]_vars, NEW c \in alone' PROVE Stage(req[c])'
  BY ForeignKeyKept, ApartKept DEF StageInv
<1> USE DEF StageInv
<1>1. IInv' /\ c \in Callers /\ faults \in Nat /\ faults' \in Nat
  BY Induction, ProvisioningAssumption DEF IInv, TypeOK
<1>2. CASE UNCHANGED vars
  BY <1>1, <1>2, StageKept DEF vars
<1>3. ASSUME NEW k \in Callers,
             StartCreate(k) \/ StartUpdate(k) \/ StartStatus(k) \/ StartProvision(k)
      PROVE  Stage(req[c])'
  <2>1. PICK i \in Installations, arg \in Inputs \cup AdminTargets \cup {NoArg},
             pc \in {"find", "ensure", "status_read", "provision_read"} :
          /\ Start(k, pc, i, arg)
          /\ \/ pc \in CreatePcs \cup UpdatePcs /\ arg \in Inputs /\ (pc \in CreatePcs => arg.method # Keep)
             \/ pc = "status_read" /\ arg \in AdminTargets
             \/ pc = "provision_read"
    BY <1>3 DEF StartCreate, StartUpdate, StartStatus, StartProvision, CreatePcs, UpdatePcs
  <2>2. /\ req'[k].pc = pc /\ UNCHANGED <<inst, faults>>
        /\ \A d \in Callers \ {k} : req'[d] = req[d]
    BY <2>1, Started DEF IInv
  <2>3. CASE c = k
    BY <2>2, <2>3 DEF Stage, WorkPcs, TryPcs
  <2>4. CASE c # k
    <3>1. c \in alone
      BY <1>1, <2>1, <2>4 DEF Start
    <3> QED
      BY <1>1, <2>2, <2>4, <3>1, StageKept
  <2> QED
    BY <2>3, <2>4
<1>4. ASSUME NEW k \in Callers, RequestStep(k) \/ Refuse(k) PROVE Stage(req[c])'
  <2>1. /\ Busy(k) /\ alone' = alone
        /\ \A d \in Callers \ {k} : req'[d] = req[d]
        /\ \A i \in Installations \ {req[k].id} : inst'[i] = inst[i]
    BY <1>4, OneMoves
  <2>2. c \in alone /\ Stage(req[c])
    BY <2>1
  <2>3. CASE c = k
    BY <1>4, <2>2, <2>3, CreationStage, ProvisionStage, RefusedStage DEF RequestStep
  <2>4. CASE c # k
    <3>1. faults <= faults'
      BY <1>1, <1>4 DEF Refuse, RequestStep, FindOpen, Insert, EnsureExists, Configure,
         ReadStatus, WriteStatus, ReadInstallation, ReadFor, WriteRunning, Execute,
         WriteCompleted, LogSuccess, CatchError
    <3>2. req[c].pc # "idle" => req[c].id # req[k].id
      BY <1>1, <2>1, <2>2, <2>4 DEF Apart
    <3>3. req[c].pc = "idle" => req[c].id \notin Installations
      BY <1>1, ProvisioningAssumption DEF IInv, RequestsOK, Formed, RequestOK
    <3> QED
      BY <1>1, <2>1, <2>2, <2>4, <3>1, <3>2, <3>3, StageKept
  <2> QED
    BY <2>3, <2>4
<1>5. ASSUME NEW r \in Replicas, Crash(r) PROVE Stage(req[c])'
  <2>1. /\ c \in alone /\ inst' = inst /\ faults <= faults'
        /\ req'[c] = req[c] \/ req'[c] = NoReq
    BY <1>1, <1>5 DEF Crash
  <2>2. CASE req'[c] = NoReq
    BY <2>2 DEF NoReq, Stage, WorkPcs, TryPcs
  <2>3. CASE req'[c] = req[c]
    BY <1>1, <2>1, <2>3, StageKept
  <2> QED
    BY <2>1, <2>2, <2>3
<1>6. ASSUME NEW p \in Projects, RemoveProject(p) PROVE Stage(req[c])'
  <2>1. UNCHANGED <<req, alone, faults>>
    BY <1>6 DEF RemoveProject
  <2>2. \A i \in Installations : Exists(i)' => inst'[i] = inst[i]
    BY <1>6 DEF RemoveProject, Exists, IInv, TypeOK
  <2> QED
    BY <1>1, <2>1, <2>2, StageKept
<1> QED
  BY <1>2, <1>3, <1>4, <1>5, <1>6 DEF Next

\* The claims of the requests that are alone hold of their installations.
LEMMA StageInvariance == Spec => [](IInv /\ StageInv)
<1>1. Init => StageInv
  BY DEF Init, StageInv, ForeignKey, Apart, Stage, Exists, NoReq, WorkPcs, TryPcs
<1>2. IInv /\ StageInv /\ [Next]_vars => (IInv /\ StageInv)'
  BY Induction, StageInduction
<1> QED
  BY <1>1, <1>2, InitIInv, PTL DEF Spec

--------------------------------------------------------------------------------
(* The theorems *)

\* Every request keeps, at each of its steps, what the step needs, and every write
\* leaves a row a row, however requests, faults and deletions interleave.
THEOREM ProvisioningTypeCorrect == Spec => []TypeOK
<1>1. IInv => TypeOK
  BY DEF IInv
<1> QED
  BY <1>1, Invariance, PTL

\* Until the first fault a running installation has a request that will end its
\* provisioning, with any number of requests provisioning it at once.
THEOREM RunningStaysAttended == Spec => []RunningIsAttended
<1>1. IInv => RunningIsAttended
  BY DEF IInv
<1> QED
  BY <1>1, Invariance, PTL

\* Whatever the number of clients and of faults: a request to provision that no
\* other request about its installation overlapped or followed has left it
\* completed, with what its method needs, if it was answered with success, and not
\* completed if it was answered with an error after at most one fault, although the
\* completed status is written before the log that may fail.  Deletions of projects,
\* crashes and the requests about other installations may come between any of its
\* steps.
THEOREM AnswersMatch == Spec => []AnswerMatchesStatus
<1>1. ASSUME IInv, StageInv, NEW c \in alone
      PROVE  /\ req[c].pc = "provisioned" /\ Exists(req[c].id) =>
                  /\ inst[req[c].id].status = "completed"
                  /\ Required(inst[req[c].id].method) \subseteq inst[req[c].id].fields
             /\ req[c].pc = "provision_failed" /\ faults <= 1 /\ Exists(req[c].id) =>
                  inst[req[c].id].status # "completed"
  <2>1. Stage(req[c]) /\ c \in Callers
    BY <1>1 DEF IInv, StageInv, TypeOK
  <2>2. req[c].pc # "idle" => req[c].id \in Installations
    BY <1>1, <2>1 DEF IInv, RequestsOK, Formed, RequestOK
  <2> QED
    BY <2>1, <2>2 DEF Stage, Accepts
<1>2. IInv /\ StageInv => AnswerMatchesStatus
  BY <1>1 DEF AnswerMatchesStatus
<1> QED
  BY <1>2, StageInvariance, PTL
================================================================================

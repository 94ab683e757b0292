------------------------------ MODULE Provisioning ------------------------------
(***************************************************************************)
(* The life of WordPress installations (WordpressInstallationsService):    *)
(* their creation, configuration and provisioning by REST requests on      *)
(* several replicas of the API over one database, and the deletion of      *)
(* projects that cascades to them.                                         *)
(*                                                                         *)
(* As in the content pipeline nothing runs in a transaction: a request is  *)
(* a sequence of steps, one for each awaited call.                         *)
(***************************************************************************)
EXTENDS Naturals

CONSTANTS
  Projects,      \* ids of projects
  Installations, \* ids rows may be inserted under
  Callers,       \* clients of the REST API, one request at a time each
  Replicas,      \* API processes
  HomeOf,        \* the replica that serves the requests of a caller
  Inputs,        \* bodies of the POST and PATCH requests
  AdminTargets,  \* statuses the callers ask PATCH :id/status/:status for
  MaxFaults,     \* bound on crashes and refused calls
  Keep,          \* a field the body of a PATCH leaves out
  Unborn,        \* an id no row was inserted under
  Deleted,       \* an id whose row was deleted with its project
  NoInstallation

Methods == {"manual", "ssh_wp_cli", "softaculous_api"}
Fields == {"wpSiteUrl", "wpUsername", "sshHost", "sshUsername", "sshPrivateKey"}
ProvisioningStatuses == {"pending", "running", "completed", "failed"}

\* A body sets some fields and nulls others.  The private key, which is only
\* encrypted when there is one, cannot be nulled.
Bodies == [project : Projects \cup {Keep}, method : Methods \cup {Keep},
           set : SUBSET Fields, clear : SUBSET (Fields \ {"sshPrivateKey"})]

ASSUME ProvisioningAssumption ==
  /\ HomeOf \in [Callers -> Replicas]
  /\ Inputs \subseteq Bodies
  /\ AdminTargets \subseteq ProvisioningStatuses
  /\ MaxFaults \in Nat
  /\ Keep \notin Projects \cup Methods
  /\ NoInstallation \notin Installations

VARIABLES
  projects, \* the rows of Project
  inst,     \* the rows of WordpressInstallation
  req,      \* what each caller's request is doing
  alone,    \* a history: the callers whose request no other request about the same
            \* installation has overlapped or followed
  faults    \* how many of the MaxFaults faults have happened

vars == <<projects, inst, req, alone, faults>>

--------------------------------------------------------------------------------
(* The status machine and the strategies *)

ALLOWED_TRANSITIONS ==
  [from \in ProvisioningStatuses |->
     CASE from = "pending"   -> {"running", "failed"}
       [] from = "running"   -> {"completed", "failed"}
       [] from = "completed" -> {}
       [] from = "failed"    -> {"running"}]

\* assertProvisioningTransition returns.
TransitionAllowed(from, to) == from = to \/ to \in ALLOWED_TRANSITIONS[from]

\* What execute() of the strategy of each method asks of the installation; today
\* the strategies do nothing else.
Required(method) ==
  CASE method = "manual"          -> {"wpSiteUrl"}
    [] method = "softaculous_api" -> {"wpSiteUrl", "wpUsername"}
    [] method = "ssh_wp_cli"      -> {"sshHost", "sshUsername", "sshPrivateKey"}

\* Mutant: every strategy asks for the address only.
AddressIsEnough(i) == "wpSiteUrl" \in i.fields

Accepts(i) == Required(i.method) \subseteq i.fields

--------------------------------------------------------------------------------
(* Rows and requests *)

Rows == [project : Projects, method : Methods, fields : SUBSET Fields,
         status : ProvisioningStatuses]

Exists(i) == inst[i] \notin {Unborn, Deleted}

\* An installation create() counts as there already.
Open(i) == Exists(i) /\ inst[i].status \in {"pending", "running"}
SameKind(i, project, method) == inst[i].project = project /\ inst[i].method = method

\* update() with body b.
Configured(i, b) ==
  [i EXCEPT !.project = IF b.project = Keep THEN @ ELSE b.project,
            !.method  = IF b.method = Keep THEN @ ELSE b.method,
            !.fields  = (@ \ b.clear) \cup b.set]

\* A request: where it is, the installation it is about, its argument (a body or
\* a status) and the row it has read.
NoArg == "none"
NoRow == [status |-> "none"]
NoReq == [pc |-> "idle", id |-> NoInstallation, arg |-> NoArg, was |-> NoRow]

\* A finished provisioning is remembered by its answer.
AnswerPcs == {"idle", "provisioned", "provision_failed"}
Busy(c) == req[c].pc \notin AnswerPcs

GoOn(c, pc) == req' = [req EXCEPT ![c].pc = pc]
Answer(c) == req' = [req EXCEPT ![c] = NoReq]
AnswerProvision(c, pc) ==
  req' = [req EXCEPT ![c] = [NoReq EXCEPT !.pc = pc, !.id = req[c].id]]

\* A request about i by c, alone unless another request about i is not answered yet.
Start(c, pc, i, arg) ==
  /\ ~Busy(c)
  /\ req' = [req EXCEPT ![c] = [NoReq EXCEPT !.pc = pc, !.id = i, !.arg = arg]]
  /\ alone' = {k \in Callers : IF k = c
                               THEN \A d \in Callers \ {c} : Busy(d) => req[d].id # i
                               ELSE k \in alone /\ req[k].id # i}
  /\ UNCHANGED <<projects, inst, faults>>

--------------------------------------------------------------------------------
(* POST /wordpress-installations *)

Fresh(i) ==
  inst[i] = Unborn /\ \A c \in Callers : req[c].pc \in {"find", "insert"} =>
                                          req[c].id # i

StartCreate(c) ==
  \E i \in Installations, b \in Inputs :
    /\ Fresh(i)
    /\ Keep \notin {b.project, b.method}
    /\ Start(c, "find", i, b)

\* An open installation of the same project and method is the answer.
FindOpen(c) ==
  /\ req[c].pc = "find"
  /\ LET b == req[c].arg IN
     IF \E k \in Installations : Open(k) /\ SameKind(k, b.project, b.method)
     THEN Answer(c)
     ELSE GoOn(c, "insert")
  /\ UNCHANGED <<projects, inst, faults>>

\* Without the project the insert breaks the foreign key.
Insert(c) ==
  /\ req[c].pc = "insert"
  /\ LET b == req[c].arg IN
     inst' = IF b.project \in projects
             THEN [inst EXCEPT ![req[c].id] =
                     [project |-> b.project, method |-> b.method,
                      fields |-> b.set, status |-> "pending"]]
             ELSE inst
  /\ Answer(c)
  /\ UNCHANGED <<projects, faults>>

--------------------------------------------------------------------------------
(* PATCH /wordpress-installations/:id and .../:id/status/:status *)

Known(i) == inst[i] # Unborn

StartUpdate(c) ==
  \E i \in Installations, b \in Inputs : Known(i) /\ Start(c, "ensure", i, b)

EnsureExists(c) ==
  /\ req[c].pc = "ensure"
  /\ IF Exists(req[c].id) THEN GoOn(c, "configure") ELSE Answer(c)
  /\ UNCHANGED <<projects, inst, faults>>

\* The update leaves the status alone; it throws when the row, or the project it
\* is to move to, is gone.
Configure(c) ==
  /\ req[c].pc = "configure"
  /\ LET i == req[c].id
         b == req[c].arg
     IN inst' = IF Exists(i) /\ Configured(inst[i], b).project \in projects
                THEN [inst EXCEPT ![i] = Configured(@, b)]
                ELSE inst
  /\ Answer(c)
  /\ UNCHANGED <<projects, faults>>

StartStatus(c) ==
  \E i \in Installations, to \in AdminTargets :
    Known(i) /\ Start(c, "status_read", i, to)

\* Mutant of the reading half: the row is not kept.
ReadAndForget(c, to, next) ==
  /\ LET i == req[c].id IN
     IF Exists(i) /\ TransitionAllowed(inst[i].status, to)
     THEN GoOn(c, next)
     ELSE Answer(c)
  /\ UNCHANGED <<projects, inst, faults>>

\* The reading half of updateStatus and of provision(): findUnique and the check.
ReadFor(c, to, next) ==
  /\ LET i == req[c].id IN
     IF Exists(i) /\ TransitionAllowed(inst[i].status, to)
     THEN req' = [req EXCEPT ![c].pc = next, ![c].was = inst[i]]
     ELSE Answer(c)
  /\ UNCHANGED <<projects, inst, faults>>

\* The row's status becomes to; false when there is no row, and the call throws.
SetStatus(i, to) == Exists(i) /\ inst' = [inst EXCEPT ![i].status = to]
RowGone(i) == ~Exists(i) /\ UNCHANGED inst

ReadStatus(c) ==
  req[c].pc = "status_read" /\ ReadFor(c, req[c].arg, "status_write")

WriteStatus(c) ==
  /\ req[c].pc = "status_write"
  /\ SetStatus(req[c].id, req[c].arg) \/ RowGone(req[c].id)
  /\ Answer(c)
  /\ UNCHANGED <<projects, faults>>

--------------------------------------------------------------------------------
(* POST /wordpress-installations/:id/provision *)

StartProvision(c) ==
  \E i \in Installations : Known(i) /\ Start(c, "provision_read", i, NoArg)

\* The row that is read here is the one the rest of provision() works with.
ReadInstallation(c) ==
  req[c].pc = "provision_read" /\ ReadFor(c, "running", "running_write")

WriteRunning(c) ==
  /\ req[c].pc = "running_write"
  /\ \/ SetStatus(req[c].id, "running") /\ GoOn(c, "execute")
     \/ RowGone(req[c].id) /\ Answer(c)
  /\ UNCHANGED <<projects, faults>>

\* resolve() and execute(), on the row read at the start.
Execute(c) ==
  /\ req[c].pc = "execute"
  /\ GoOn(c, IF Accepts(req[c].was) THEN "completed_write" ELSE "catch")
  /\ UNCHANGED <<projects, inst, faults>>

WriteCompleted(c) ==
  /\ req[c].pc = "completed_write"
  /\ \/ SetStatus(req[c].id, "completed") /\ GoOn(c, "success_log")
     \/ RowGone(req[c].id) /\ GoOn(c, "catch")
  /\ UNCHANGED <<projects, faults>>

\* The system log has a foreign key on the project the row had at the start.
LogSuccess(c) ==
  /\ req[c].pc = "success_log"
  /\ IF req[c].was.project \in projects THEN AnswerProvision(c, "provisioned")
                                        ELSE GoOn(c, "catch")
  /\ UNCHANGED <<projects, inst, faults>>

\* Mutant: the catch block rethrows without writing the status.
Rethrow(c) ==
  /\ req[c].pc = "catch"
  /\ AnswerProvision(c, "provision_failed")
  /\ UNCHANGED <<projects, inst, faults>>

\* The catch block.  Whether its log is written, the answer is an error.
CatchError(c) ==
  /\ req[c].pc = "catch"
  /\ SetStatus(req[c].id, "failed") \/ RowGone(req[c].id)
  /\ AnswerProvision(c, "provision_failed")
  /\ UNCHANGED <<projects, faults>>

--------------------------------------------------------------------------------
(* Faults and deletions *)

TryPcs == {"execute", "completed_write", "success_log"}

\* A call to PostgreSQL, or the decryption of a credential, throws: in the try
\* block the catch block is next, elsewhere the request ends in a 500.  A call
\* that throws after it took effect is one that throws at the next step, but for
\* the write of running, which is outside the try block.
Refuse(c) ==
  /\ Busy(c)
  /\ faults < MaxFaults
  /\ faults' = faults + 1
  /\ \/ req[c].pc \in TryPcs /\ GoOn(c, "catch")
     \/ req[c].pc = "catch" /\ AnswerProvision(c, "provision_failed")
     \/ req[c].pc \notin TryPcs \cup {"catch"} /\ Answer(c)
  /\ \/ UNCHANGED inst
     \/ req[c].pc = "running_write" /\ SetStatus(req[c].id, "running")
  /\ UNCHANGED <<projects, alone>>

Crash(r) ==
  /\ faults < MaxFaults
  /\ faults' = faults + 1
  /\ req' = [c \in Callers |-> IF HomeOf[c] = r /\ Busy(c) THEN NoReq ELSE req[c]]
  /\ UNCHANGED <<projects, inst, alone>>

\* DELETE /projects/:id, cascading to the installations.
RemoveProject(p) ==
  /\ p \in projects
  /\ projects' = projects \ {p}
  /\ inst' = [i \in Installations |->
                IF Exists(i) /\ inst[i].project = p THEN Deleted ELSE inst[i]]
  /\ UNCHANGED <<req, alone, faults>>

--------------------------------------------------------------------------------
(* Specification *)

Init ==
  /\ projects = Projects
  /\ inst = [i \in Installations |-> Unborn]
  /\ req = [c \in Callers |-> NoReq]
  /\ alone = Callers
  /\ faults = 0

RequestStep(c) ==
  /\ UNCHANGED alone
  /\ \/ FindOpen(c) \/ Insert(c)
     \/ EnsureExists(c) \/ Configure(c)
     \/ ReadStatus(c) \/ WriteStatus(c)
     \/ ReadInstallation(c) \/ WriteRunning(c) \/ Execute(c)
     \/ WriteCompleted(c) \/ LogSuccess(c) \/ CatchError(c)

Next ==
  \/ \E c \in Callers :
       \/ StartCreate(c) \/ StartUpdate(c) \/ StartStatus(c) \/ StartProvision(c)
       \/ RequestStep(c) \/ Refuse(c)
  \/ \E r \in Replicas : Crash(r)
  \/ \E p \in Projects : RemoveProject(p)

Spec == Init /\ [][Next]_vars

\* Node runs the continuation of every call that has returned.
Fairness == \A c \in Callers : WF_vars(RequestStep(c))

FairSpec == Spec /\ Fairness

--------------------------------------------------------------------------------
(* Properties *)

CreatePcs == {"find", "insert"}
UpdatePcs == {"ensure", "configure"}
StatusPcs == {"status_read", "status_write"}
ProvisionPcs == {"provision_read", "running_write", "catch"} \cup TryPcs
SnapshotPcs == {"status_write", "running_write", "catch"} \cup TryPcs

RequestOK(q) ==
  /\ q.pc \in AnswerPcs \cup CreatePcs \cup UpdatePcs \cup StatusPcs \cup ProvisionPcs
  /\ q.pc = "idle" <=> q.id = NoInstallation
  /\ q.pc # "idle" => q.id \in Installations
  /\ q.pc \in CreatePcs \cup UpdatePcs => q.arg \in Inputs
  /\ q.pc \in StatusPcs => q.arg \in AdminTargets
  /\ q.pc \in SnapshotPcs => q.was \in Rows

\* The values of the variables, and of a request at each of its steps.
TypeOK ==
  /\ projects \subseteq Projects
  /\ inst \in [Installations -> Rows \cup {Unborn, Deleted}]
  /\ \A c \in Callers : RequestOK(req[c])
  /\ alone \subseteq Callers
  /\ faults \in 0 .. MaxFaults

\* A client that was told its installation is provisioned finds it completed, with
\* what its method needs; one that was told that provisioning failed does not find
\* it completed, although that status is written before the last call that may fail
\* (and is left there when writing failed then fails too, the second fault).  Of a
\* request that another one about the same installation overlapped or followed,
\* nothing is claimed.
AnswerMatchesStatus ==
  \A c \in alone :
    LET i == req[c].id IN
    /\ req[c].pc = "provisioned" /\ Exists(i) =>
         inst[i].status = "completed" /\ Required(inst[i].method) \subseteq inst[i].fields
    /\ req[c].pc = "provision_failed" /\ faults <= 1 /\ Exists(i) =>
         inst[i].status # "completed"

\* While nothing has failed, a running installation has a request that will end
\* its provisioning, however many requests provision it at once.
RunningIsAttended ==
  faults = 0 /\ "running" \notin AdminTargets =>
    \A i \in Installations :
      Exists(i) /\ inst[i].status = "running" =>
        \E c \in Callers : /\ req[c].id = i
                           /\ req[c].pc \in {"execute", "completed_write", "catch"}

\* README.md: provisioning goes from pending or failed to running and from there
\* to completed or failed.  Every change of status is one the table allows.
TransitionsLegal ==
  [][\A i \in Installations : Exists(i) /\ Exists(i)' =>
       TransitionAllowed(inst[i].status, inst'[i].status)]_vars

\* A provisioning that was started ends, unless a process dies or a call fails.
ProvisioningEnds ==
  \A i \in Installations :
    Exists(i) /\ inst[i].status = "running" ~>
      ~(Exists(i) /\ inst[i].status = "running") \/ faults > 0
================================================================================

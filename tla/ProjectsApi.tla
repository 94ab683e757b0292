------------------------------ MODULE ProjectsApi ------------------------------
(***************************************************************************)
(* Requests that change projects, through the whole of the API: the guard, *)
(* the validation of the body, ProjectsService (and markConnection), the   *)
(* audit interceptor, and the answer, which may be lost.                   *)
(*                                                                         *)
(* The history variables effects and struck record what requests have done *)
(* and which of them a fault has hit; no step depends on them.             *)
(***************************************************************************)
EXTENDS Naturals, FiniteSets

CONSTANTS
  MaxProjects,    \* bound on the projects ever created
  Domains,        \* values of the unique column domain
  Clients,        \* clients of the API, one request at a time each
  Asks,           \* what each client may ask for
  MaxRequests,    \* bound on the requests of each client
  MaxFaults,      \* bound on refused calls, lost answers and lost audit logs
  Keys,           \* values of the two key headers
  ADMIN_API_KEY,  \* the configured keys, either of which may be Unset
  SYSTEM_API_KEY,
  Unset,
  Unborn,         \* an id no row was inserted under
  Deleted         \* an id whose row was deleted

\* Rows are numbered in the order of createdAt.
Projects == 1 .. MaxProjects
NoProject == 0

Connections == {"unknown", "connected", "failed"}
NoArg == "none"
Operations == {"create", "update", "remove", "connect"}

\* The headers of a request; a missing key is Unset.
Headers == [scope : {"none", "human", "system", "other"},
            admin : Keys \cup {Unset}, system : Keys \cup {Unset}]

\* A request that changes something: the handler, the names of the fields of its
\* body ("project" stands for those of CreateProjectDto), and what it is to write.
AskRecords == [op : Operations, fields : SUBSET {"project", "status"},
               arg : Domains \cup Connections \cup {NoArg}, headers : Headers]

\* What an operation writes.
Suits(ask) == CASE ask.op = "create"  -> ask.arg \in Domains
                [] ask.op = "update"  -> ask.arg \in Domains \cup {NoArg}
                [] ask.op = "connect" -> ask.arg \in Connections
                [] ask.op = "remove"  -> ask.arg = NoArg

ASSUME ApiAssumption ==
  /\ MaxProjects \in Nat
  /\ MaxFaults \in Nat
  /\ IsFiniteSet(Clients)
  /\ MaxRequests \in [Clients -> Nat]
  /\ Unset \notin Keys
  /\ {ADMIN_API_KEY, SYSTEM_API_KEY} \subseteq Keys \cup {Unset}
  /\ Asks \in [Clients -> SUBSET AskRecords]
  /\ \A c \in Clients : \A ask \in Asks[c] : Suits(ask)

VARIABLES
  project, \* the rows of Project
  born,    \* how many were ever inserted
  request, \* what each client's request is doing
  pending, \* audit logs on their way to the database
  audit,   \* audit logs that were written
  effects, \* requests that have changed the database
  struck,  \* requests a fault has hit
  faults   \* how many of the MaxFaults faults have happened

vars == <<project, born, request, pending, audit, effects, struck, faults>>

--------------------------------------------------------------------------------
(* AdminApiKeyGuard and ValidationPipe *)

ExpectedSystemKey == IF SYSTEM_API_KEY = Unset THEN ADMIN_API_KEY ELSE SYSTEM_API_KEY

HumanIsValid(h) == ADMIN_API_KEY # Unset /\ h.admin = ADMIN_API_KEY
SystemIsValid(h) == ExpectedSystemKey # Unset /\ h.system = ExpectedSystemKey

\* canActivate: who makes the request; "nobody" when it throws.
Actor(h) ==
  IF \/ h.scope = "other"
     \/ h.scope = "human" /\ ~HumanIsValid(h)
     \/ h.scope = "system" /\ ~SystemIsValid(h)
     \/ ~HumanIsValid(h) /\ ~SystemIsValid(h)
  THEN "nobody"
  ELSE IF HumanIsValid(h) THEN "human" ELSE "system"

\* The routes with a class for their body or, for those that read, their query.
Validated == {"create", "update", "findAll", "contentJobs", "systemLogs"}

\* The fields this class declares, and those it requires.
Declared(route) == IF route \in {"create", "update"} THEN {"project"} ELSE {"page", "pageSize"}
RequiredFields(route) == IF route = "create" THEN {"project"} ELSE {}

\* With forbidNonWhitelisted a field the class does not declare is refused.
Valid(route, fields) ==
  route \in Validated => RequiredFields(route) \subseteq fields /\ fields \subseteq Declared(route)

--------------------------------------------------------------------------------
(* Rows and requests *)

Rows == [domain : Domains, connection : Connections]

ASSUME RowAssumption == Unborn # Deleted /\ {Unborn, Deleted} \cap Rows = {}

Exists(p) == p \in Projects /\ project[p] \notin {Unborn, Deleted}

\* No other row has the domain.
DomainFree(d, p) == \A q \in Projects : Exists(q) /\ project[q].domain = d => q = p

NoAsk == [op |-> "none", fields |-> {}, arg |-> NoArg,
          headers |-> [scope |-> "none", admin |-> Unset, system |-> Unset]]
NoRequest == [pc |-> "none", n |-> 0, ask |-> NoAsk, id |-> NoProject, actor |-> "nobody"]

\* The answers: 2xx, 401, 400, 404, and 500 or no answer at all.
AnswerPcs == {"ok", "unauthorized", "invalid", "missing", "error"}
Over(c) == request[c].pc \in AnswerPcs \cup {"none"}

\* The name of a client's current request.
Name(c) == <<c, request[c].n>>

GoOn(c, pc) == request' = [request EXCEPT ![c].pc = pc]

\* The answer; all that is left of the request is its name and what it is about.
Answer(c, pc, p) ==
  request' = [request EXCEPT ![c] = [NoRequest EXCEPT !.pc = pc, !.n = request[c].n, !.id = p]]

Creating == {c \in Clients : ~Over(c) /\ request[c].ask.op = "create"}

Send(c, ask, p) ==
  /\ Over(c)
  /\ request[c].n < MaxRequests[c]
  /\ IF ask.op = "create" THEN p = NoProject /\ born + Cardinality(Creating) < MaxProjects
                          ELSE p \in 1 .. born
  /\ request' = [request EXCEPT ![c] =
                   [pc |-> "sent", n |-> @.n + 1, ask |-> ask, id |-> p, actor |-> "nobody"]]
  /\ UNCHANGED <<project, born, pending, audit, effects, struck, faults>>

\* The guard, then the validation.
Admit(c) ==
  /\ request[c].pc = "sent"
  /\ LET ask == request[c].ask
         actor == Actor(ask.headers)
     IN \/ /\ actor = "nobody"
           /\ Answer(c, "unauthorized", request[c].id)
        \/ /\ actor # "nobody"
           /\ ~Valid(ask.op, ask.fields)
           /\ Answer(c, "invalid", request[c].id)
        \/ /\ actor # "nobody"
           /\ Valid(ask.op, ask.fields)
           /\ request' = [request EXCEPT
                ![c].actor = actor,
                ![c].pc = IF ask.op = "create" THEN "insert" ELSE "ensure"]
  /\ UNCHANGED <<project, born, pending, audit, effects, struck, faults>>

AuditLog(c) == [request |-> Name(c), op |-> request[c].ask.op, actor |-> request[c].actor]

\* Mutant: the interceptor leaves DELETE out.
AuditUnlessRemoved(c) ==
  pending' = IF request[c].ask.op = "remove" THEN pending ELSE pending \cup {AuditLog(c)}

\* AuditLogInterceptor: the handler has returned; the log is not awaited.
StartAudit(c) == pending' = pending \cup {AuditLog(c)}

\* The last call of the handler has taken effect.
Succeed(c, p) ==
  /\ Answer(c, "ok", p)
  /\ effects' = effects \cup {Name(c)}
  /\ StartAudit(c)

Fail(c, pc) == Answer(c, pc, request[c].id) /\ UNCHANGED <<project, born, pending, effects>>

--------------------------------------------------------------------------------
(* The handlers *)

\* Mutant: the column domain is not unique.
InsertAnyway(c) ==
  /\ request[c].pc = "insert"
  /\ project' = [project EXCEPT ![born + 1] =
                   [domain |-> request[c].ask.arg, connection |-> "unknown"]]
  /\ born' = born + 1
  /\ Succeed(c, born + 1)
  /\ UNCHANGED <<audit, struck, faults>>

Insert(c) ==
  /\ request[c].pc = "insert"
  /\ LET d == request[c].ask.arg IN
     \/ /\ DomainFree(d, NoProject)
        /\ project' = [project EXCEPT ![born + 1] = [domain |-> d, connection |-> "unknown"]]
        /\ born' = born + 1
        /\ Succeed(c, born + 1)
     \/ /\ ~DomainFree(d, NoProject)
        /\ Fail(c, "error")
  /\ UNCHANGED <<audit, struck, faults>>

\* ensureExists, and the lookup of markConnection.
EnsureExists(c) ==
  /\ request[c].pc = "ensure"
  /\ \/ Exists(request[c].id) /\ GoOn(c, "write")
     \/ ~Exists(request[c].id) /\ Answer(c, "missing", request[c].id)
  /\ UNCHANGED <<project, born, pending, audit, effects, struck, faults>>

\* Mutant: a PATCH without a domain writes that, too.
WrittenBlindly(row, ask) ==
  CASE ask.op = "remove"  -> Deleted
    [] ask.op = "connect" -> [row EXCEPT !.connection = ask.arg]
    [] ask.op = "update"  -> [row EXCEPT !.domain = ask.arg]

Written(row, ask) ==
  CASE ask.op = "remove"  -> Deleted
    [] ask.op = "connect" -> [row EXCEPT !.connection = ask.arg]
    [] ask.op = "update"  -> IF ask.arg = NoArg THEN row ELSE [row EXCEPT !.domain = ask.arg]

\* The row may have gone since, and the domain be taken.
CanWrite(p, ask) == Exists(p) /\ (ask.op = "update" => ask.arg = NoArg \/ DomainFree(ask.arg, p))

\* Mutant: a write that finds no row is not an error.
WriteQuietly(c) ==
  /\ request[c].pc = "write"
  /\ LET p == request[c].id
         ask == request[c].ask
     IN IF CanWrite(p, ask)
        THEN /\ project' = [project EXCEPT ![p] = Written(@, ask)]
             /\ Succeed(c, p)
             /\ UNCHANGED born
        ELSE /\ StartAudit(c)
             /\ Answer(c, "ok", p)
             /\ UNCHANGED <<project, born, effects>>
  /\ UNCHANGED <<audit, struck, faults>>

Write(c) ==
  /\ request[c].pc = "write"
  /\ LET p == request[c].id
         ask == request[c].ask
     IN \/ /\ CanWrite(p, ask)
           /\ project' = [project EXCEPT ![p] = Written(@, ask)]
           /\ Succeed(c, p)
           /\ UNCHANGED born
        \/ /\ ~CanWrite(p, ask)
           /\ Fail(c, "error")
  /\ UNCHANGED <<audit, struck, faults>>

--------------------------------------------------------------------------------
(* Audit logs and faults *)

PersistAudit(a) ==
  /\ pending' = pending \ {a}
  /\ audit' = audit \cup {a}
  /\ UNCHANGED <<project, born, request, effects, struck, faults>>

Fault(name) ==
  /\ faults < MaxFaults
  /\ faults' = faults + 1
  /\ struck' = struck \cup {name}

\* The log is refused, or its process dies: nobody is told.
LoseAudit(a) ==
  /\ Fault(a.request)
  /\ pending' = pending \ {a}
  /\ UNCHANGED <<project, born, request, audit, effects>>

\* The connection breaks, the process dies, or a call to the database throws: for
\* the client the request has failed, whatever it had done.
Break(c) ==
  /\ request[c].pc \notin {"none", "error"}
  /\ Fault(Name(c))
  /\ Answer(c, "error", request[c].id)
  /\ UNCHANGED <<project, born, pending, audit, effects>>

\* The same while the database commits: it takes effect, and the handler throws.
BreakAfterWrite(c) ==
  /\ Fault(Name(c))
  /\ Answer(c, "error", request[c].id)
  /\ LET p == request[c].id
         ask == request[c].ask
     IN \/ /\ request[c].pc = "insert"
           /\ DomainFree(ask.arg, NoProject)
           /\ project' = [project EXCEPT ![born + 1] =
                            [domain |-> ask.arg, connection |-> "unknown"]]
           /\ born' = born + 1
        \/ /\ request[c].pc = "write"
           /\ CanWrite(p, ask)
           /\ project' = [project EXCEPT ![p] = Written(@, ask)]
           /\ UNCHANGED born
  /\ effects' = effects \cup {Name(c)}
  /\ UNCHANGED <<pending, audit>>

--------------------------------------------------------------------------------
(* Specification *)

Init ==
  /\ project = [p \in Projects |-> Unborn]
  /\ born = 0
  /\ request = [c \in Clients |-> NoRequest]
  /\ pending = {}
  /\ audit = {}
  /\ effects = {}
  /\ struck = {}
  /\ faults = 0

RequestStep(c) == Admit(c) \/ Insert(c) \/ EnsureExists(c) \/ Write(c)

\* All that happens whoever the clients are.
ServerNext ==
  \/ \E c \in Clients : RequestStep(c) \/ Break(c) \/ BreakAfterWrite(c)
  \/ \E a \in pending : PersistAudit(a) \/ LoseAudit(a)

SomeRequest(c) == \E ask \in Asks[c], p \in Projects \cup {NoProject} : Send(c, ask, p)

Next == ServerNext \/ \E c \in Clients : SomeRequest(c)

Spec == Init /\ [][Next]_vars

--------------------------------------------------------------------------------
(* Properties *)

Names == Clients \X Nat

\* The values of the variables.
TypeOK ==
  /\ project \in [Projects -> Rows \cup {Unborn, Deleted}]
  /\ born \in 0 .. MaxProjects
  /\ request \in [Clients ->
       [pc : AnswerPcs \cup {"none", "sent", "insert", "ensure", "write"}, n : Nat,
        ask : AskRecords \cup {NoAsk}, id : Projects \cup {NoProject},
        actor : {"nobody", "human", "system"}]]
  /\ pending \cup audit \subseteq
       [request : Names, op : Operations, actor : {"nobody", "human", "system"}]
  /\ effects \cup struck \subseteq Names
  /\ faults \in 0 .. MaxFaults

\* Mutations are audited, as README.md says: one that took effect has its log, or
\* the log is on its way, unless a fault has hit the request or the log.
MutationsAudited ==
  \A name \in effects \ struck : \E a \in pending \cup audit : a.request = name

\* The log tells of nothing that did not happen, and names who did it.
AuditIsTrue ==
  \A a \in pending \cup audit : a.request \in effects /\ a.actor # "nobody"

\* A client is told of success only for what took effect, and of a failure, but
\* for faults, only for what did not: although the row is checked in one call and
\* written in another.
AnswerIsTrue ==
  \A c \in Clients :
    /\ request[c].pc = "ok" => Name(c) \in effects
    /\ request[c].pc \in AnswerPcs \ {"ok"} /\ Name(c) \notin struck => Name(c) \notin effects

\* Submitting a domain again, after an answer that was lost or by another client,
\* never makes a second project of it, nor does moving a project to it.
OneProjectPerDomain ==
  \A p, q \in Projects :
    Exists(p) /\ Exists(q) /\ project[p].domain = project[q].domain => p = q
================================================================================

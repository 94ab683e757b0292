--------------------------- MODULE ProjectsApiProofs ---------------------------
(***************************************************************************)
(* Proofs about ProjectsApi: its type invariant and its four safety        *)
(* invariants, by one induction.                                           *)
(***************************************************************************)
EXTENDS ProjectsApi, FiniteSetTheorems, TLAPS

OpenPcs == {"sent", "insert", "ensure", "write"}

\* Every create that has begun has an id to insert under.
Bounded == born + Cardinality(Creating) \in 0 .. MaxProjects

\* What the guard has let through, and which handler it is in.
StagesOK ==
  \A c \in Clients :
    /\ ~Over(c) => request[c].ask \in Asks[c]
    /\ request[c].pc \in OpenPcs \ {"sent"} => request[c].actor # "nobody"
    /\ request[c].pc = "insert" => request[c].ask.op = "create"
    /\ request[c].pc \in {"ensure", "write"} => request[c].ask.op # "create"

\* No name is used twice, and an open request has changed nothing.
NamesUsed ==
  /\ \A c \in Clients, n \in Nat : <<c, n>> \in effects \cup struck => n <= request[c].n
  /\ \A c \in Clients : ~Over(c) => Name(c) \notin effects

IInv == /\ TypeOK /\ Bounded /\ StagesOK /\ NamesUsed
        /\ MutationsAudited /\ AuditIsTrue /\ AnswerIsTrue /\ OneProjectPerDomain

--------------------------------------------------------------------------------
(* Operators *)


RequestRecords ==
  [pc : AnswerPcs \cup {"none"} \cup OpenPcs, n : Nat, ask : AskRecords \cup {NoAsk},
   id : Projects \cup {NoProject}, actor : {"nobody", "human", "system"}]

\* Requests are records of requests.
LEMMA RequestType ==
  ASSUME TypeOK PROVE request \in [Clients -> RequestRecords]
BY DEF TypeOK, RequestRecords, OpenPcs

\* The answer resets what a request was about, but for its name.
LEMMA AnswerResets ==
  ASSUME TypeOK, NEW c \in Clients, NEW pc \in AnswerPcs, NEW p \in Projects \cup {NoProject},
         Answer(c, pc, p)
  PROVE  /\ request' \in [Clients -> RequestRecords]
         /\ request'[c].pc = pc /\ request'[c].n = request[c].n
         /\ request'[c].id = p /\ request'[c].ask = NoAsk
         /\ \A k \in Clients \ {c} : request'[k] = request[k]
BY RequestType DEF RequestRecords, Answer, NoRequest, AnswerPcs, OpenPcs

\* It closes the request, for which no later step is due.
LEMMA AnswerCloses ==
  ASSUME IInv, NEW c \in Clients, NEW pc \in AnswerPcs, NEW p \in Projects \cup {NoProject},
         Answer(c, pc, p)
  PROVE  /\ StagesOK'
         /\ Over(c)' /\ Name(c)' = Name(c)
         /\ \A k \in Clients \ {c} : (Over(k)' <=> Over(k)) /\ Name(k)' = Name(k)
         /\ Creating' = Creating \ {c}
<1> USE AnswerResets DEF IInv
<1>1. /\ Over(c)' /\ Name(c)' = Name(c)
      /\ \A k \in Clients \ {c} : (Over(k)' <=> Over(k)) /\ Name(k)' = Name(k)
  BY DEF Over, Name
<1>2. Creating' = Creating \ {c}
  BY <1>1 DEF Creating
<1>3. StagesOK'
  BY <1>1 DEF StagesOK, Over, OpenPcs, AnswerPcs
<1> QED
  BY <1>1, <1>2, <1>3

\* The requests that create are finitely many, and are counted one by one.
LEMMA CreatingFinite ==
  ASSUME NEW c
  PROVE  /\ IsFiniteSet(Creating) /\ Cardinality(Creating) \in Nat
         /\ Cardinality(Creating \ {c}) =
              IF c \in Creating THEN Cardinality(Creating) - 1 ELSE Cardinality(Creating)
         /\ c \notin Creating => Cardinality(Creating \cup {c}) = Cardinality(Creating) + 1
         /\ c \in Creating => Cardinality(Creating) > 0
<1>1. IsFiniteSet(Clients) /\ Creating \in SUBSET Clients
  BY ApiAssumption DEF Creating
<1>2. IsFiniteSet(Creating)
  BY <1>1, FS_Subset
<1>3. Cardinality(Creating) \in Nat /\ IsFiniteSet(Creating \ {c})
  BY <1>2, FS_CardinalityType, FS_RemoveElement
<1>4. Cardinality(Creating \ {c}) \in Nat
  BY <1>3, FS_CardinalityType
<1>5. Cardinality(Creating \ {c}) =
        IF c \in Creating THEN Cardinality(Creating) - 1 ELSE Cardinality(Creating)
  BY <1>2, FS_RemoveElement
<1>6. c \notin Creating => Cardinality(Creating \cup {c}) = Cardinality(Creating) + 1
  BY <1>2, FS_AddElement
<1>7. c \in Creating => Cardinality(Creating) > 0
  BY <1>3, <1>4, <1>5
<1> QED
  BY <1>2, <1>3, <1>5, <1>6, <1>7

\* A create that ends gives up its id or has inserted under it.
LEMMA StaysBounded ==
  ASSUME IInv, NEW c \in Clients, Creating' = Creating \ {c},
         born' = born \/ (born' = born + 1 /\ c \in Creating)
  PROVE  Bounded'
<1>1. born \in Nat /\ MaxProjects \in Nat
  BY ApiAssumption DEF IInv, TypeOK
<1>2. Cardinality(Creating)' = Cardinality(Creating \ {c})
  OBVIOUS
<1> QED
  BY <1>1, <1>2, CreatingFinite DEF IInv, Bounded

\* What is to be written has the type of a row.
LEMMA WrittenType ==
  ASSUME NEW row \in Rows, NEW c \in Clients, NEW ask \in Asks[c], ask.op # "create"
  PROVE  Written(row, ask) \in Rows \cup {Deleted}
<1>1. ask \in AskRecords /\ Suits(ask)
  BY ApiAssumption
<1>2. CASE ask.op = "update"
  BY <1>1, <1>2 DEF Suits, Written, Rows, NoArg
<1>3. CASE ask.op = "connect"
  BY <1>1, <1>3 DEF Suits, Written, Rows
<1>4. CASE ask.op = "remove"
  BY <1>4 DEF Written
<1> QED
  BY <1>1, <1>2, <1>3, <1>4 DEF AskRecords, Operations

--------------------------------------------------------------------------------
(* The steps *)

\* There are no projects and no requests at first.
LEMMA InitIInv == Init => IInv
<1> SUFFICES ASSUME Init PROVE IInv
  OBVIOUS
<1>1. TypeOK
  BY ApiAssumption DEF Init, TypeOK, NoRequest, NoProject, Projects
<1>2. \A c \in Clients : request[c] = NoRequest
  BY DEF Init
<1>3. Creating = {}
  BY <1>2 DEF Creating, Over, NoRequest
<1>4. Bounded
  BY <1>3, FS_EmptySet, ApiAssumption DEF Bounded, Init
<1>5. StagesOK
  BY <1>2 DEF StagesOK, Over, NoRequest, OpenPcs
<1>6. NamesUsed /\ MutationsAudited /\ AuditIsTrue
  BY DEF Init, NamesUsed, MutationsAudited, AuditIsTrue
<1>7. AnswerIsTrue
  BY <1>2 DEF Init, AnswerIsTrue, NoRequest, AnswerPcs
<1>8. OneProjectPerDomain
  BY DEF Init, OneProjectPerDomain, Exists
<1> QED
  BY <1>1, <1>4, <1>5, <1>6, <1>7, <1>8 DEF IInv

\* A new request takes a name of its own and, if it creates, an id.
LEMMA SendStep ==
  ASSUME IInv, NEW c \in Clients, NEW ask \in Asks[c], NEW p \in Projects \cup {NoProject},
         Send(c, ask, p)
  PROVE  IInv'
<1> DEFINE r == [pc |-> "sent", n |-> request[c].n + 1, ask |-> ask, id |-> p, actor |-> "nobody"]
<1> USE DEF IInv
<1>1. /\ request \in [Clients -> RequestRecords] /\ ask \in AskRecords
      /\ request' = [request EXCEPT ![c] = r]
      /\ UNCHANGED <<project, born, pending, audit, effects, struck, faults>>
  BY RequestType, ApiAssumption DEF Send
<1>2. /\ request'[c] = r /\ r \in RequestRecords
      /\ \A k \in Clients \ {c} : request'[k] = request[k]
  BY <1>1 DEF RequestRecords, OpenPcs
<1>3. TypeOK'
  BY <1>1, <1>2 DEF TypeOK, RequestRecords, OpenPcs
<1>4. ~Over(c)' /\ \A k \in Clients \ {c} : (Over(k)' <=> Over(k)) /\ Name(k)' = Name(k)
  BY <1>2 DEF Over, Name, AnswerPcs
<1>5. Bounded'
  <2>1. c \notin Creating
    BY DEF Creating, Send
  <2>2. CASE ask.op = "create"
    <3>1. Creating' = Creating \cup {c}
      BY <1>2, <1>4, <2>2 DEF Creating
    <3> QED
      BY <1>1, <2>1, <2>2, <3>1, CreatingFinite, ApiAssumption DEF Bounded, Send, TypeOK
  <2>3. CASE ask.op # "create"
    <3>1. Creating' = Creating
      BY <1>2, <1>4, <2>1, <2>3 DEF Creating
    <3> QED
      BY <1>1, <3>1 DEF Bounded
  <2> QED
    BY <2>2, <2>3
<1>6. StagesOK'
  BY <1>2, <1>4 DEF StagesOK, OpenPcs
<1>7. Name(c)' = <<c, request[c].n + 1>> /\ request[c].n \in Nat
  BY <1>1, <1>2 DEF Name, RequestRecords
<1>8. Name(c)' \notin effects \cup struck
  BY <1>7 DEF NamesUsed
<1>9. NamesUsed'
  BY <1>1, <1>2, <1>4, <1>7, <1>8 DEF NamesUsed, RequestRecords
<1>10. MutationsAudited' /\ AuditIsTrue' /\ OneProjectPerDomain'
  BY <1>1 DEF MutationsAudited, AuditIsTrue, OneProjectPerDomain, Exists
<1>11. AnswerIsTrue'
  BY <1>1, <1>2, <1>4 DEF AnswerIsTrue, AnswerPcs
<1> QED
  BY <1>3, <1>5, <1>6, <1>9, <1>10, <1>11

\* A request that is refused before it has changed anything.
LEMMA RefusedStep ==
  ASSUME IInv, NEW c \in Clients, ~Over(c), NEW pc \in AnswerPcs \ {"ok"},
         Answer(c, pc, request[c].id),
         UNCHANGED <<project, born, pending, audit, effects, struck, faults>>
  PROVE  IInv'
<1> USE DEF IInv
<1>1. request[c].id \in Projects \cup {NoProject}
  BY RequestType DEF RequestRecords
<1>2. TypeOK'
  BY <1>1, AnswerResets DEF TypeOK, RequestRecords, OpenPcs
<1>3. Bounded' /\ StagesOK'
  BY <1>1, AnswerCloses, StaysBounded
<1>4. NamesUsed'
  BY <1>1, AnswerCloses, AnswerResets DEF NamesUsed
<1>5. AnswerIsTrue'
  BY <1>1, AnswerCloses, AnswerResets DEF AnswerIsTrue, NamesUsed
<1>6. MutationsAudited' /\ AuditIsTrue' /\ OneProjectPerDomain'
  BY DEF MutationsAudited, AuditIsTrue, OneProjectPerDomain, Exists
<1> QED
  BY <1>2, <1>3, <1>4, <1>5, <1>6

\* One whose answer leaves after it took effect: its name, when the answer is not
\* "ok", is struck.
LEMMA EffectStep ==
  ASSUME IInv, NEW c \in Clients, ~Over(c), NEW pc \in {"ok", "error"},
         NEW p \in Projects \cup {NoProject}, Answer(c, pc, p),
         project' \in [Projects -> Rows \cup {Unborn, Deleted}], OneProjectPerDomain',
         born' = born \/ (born' = born + 1 /\ c \in Creating), born' \in 0 .. MaxProjects,
         effects' = effects \cup {Name(c)}, audit' = audit,
         \/ /\ pc = "ok" /\ UNCHANGED <<struck, faults>>
            /\ pending' = pending \cup {AuditLog(c)} /\ request[c].actor # "nobody"
         \/ /\ pc = "error" /\ UNCHANGED pending
            /\ struck' = struck \cup {Name(c)} /\ faults' \in 0 .. MaxFaults
  PROVE  IInv'
<1> USE DEF IInv
<1>1. pc \in AnswerPcs
  BY DEF AnswerPcs
<1>2. /\ request[c] \in RequestRecords /\ request[c].ask \in AskRecords
      /\ Name(c) \in Names
  BY RequestType, ApiAssumption DEF RequestRecords, StagesOK, Name, Names
<1>3. TypeOK'
  <2>1. AuditLog(c) \in [request : Names, op : Operations, actor : {"nobody", "human", "system"}]
    BY <1>2 DEF AuditLog, RequestRecords, AskRecords
  <2>2. /\ (effects \cup struck)' \subseteq Names
        /\ (pending \cup audit)' \subseteq
             [request : Names, op : Operations, actor : {"nobody", "human", "system"}]
    BY <1>2, <2>1 DEF TypeOK
  <2> QED
    BY <1>1, <2>2, AnswerResets DEF TypeOK, RequestRecords, OpenPcs
<1>4. Bounded' /\ StagesOK'
  BY <1>1, AnswerCloses, StaysBounded
<1>5. NamesUsed'
  BY <1>1, <1>2, AnswerCloses, AnswerResets DEF NamesUsed, Name, RequestRecords
<1>6. AnswerIsTrue'
  <2>1. /\ Name(c)' \in effects' /\ (pc = "error" => Name(c)' \in struck')
        /\ request'[c].pc = pc
    BY <1>1, AnswerCloses, AnswerResets
  <2>2. \A k \in Clients \ {c} : Name(k)' = Name(k) /\ Name(k) # Name(c) /\ request'[k] = request[k]
    BY <1>1, AnswerCloses, AnswerResets DEF Name
  <2> QED
    BY <2>1, <2>2 DEF AnswerIsTrue, AnswerPcs
<1>7. MutationsAudited'
  <2>1. AuditLog(c).request = Name(c)
    BY DEF AuditLog
  <2>2. CASE pc = "ok"
    BY <2>1, <2>2 DEF MutationsAudited
  <2>3. CASE pc = "error"
    BY <2>3 DEF MutationsAudited
  <2> QED
    BY <2>2, <2>3
<1>8. AuditIsTrue'
  BY DEF AuditIsTrue, AuditLog
<1> QED
  BY <1>3, <1>4, <1>5, <1>6, <1>7, <1>8

\* The guard and the validation admit a request to its handler, or refuse it.
LEMMA AdmitStep ==
  ASSUME IInv, NEW c \in Clients, Admit(c) PROVE IInv'
<1> USE DEF IInv
<1>1. /\ request[c] \in RequestRecords /\ request[c].pc = "sent" /\ ~Over(c)
      /\ UNCHANGED <<project, born, pending, audit, effects, struck, faults>>
  BY RequestType DEF Admit, Over, AnswerPcs
<1>2. MutationsAudited' /\ AuditIsTrue' /\ OneProjectPerDomain'
  BY <1>1 DEF MutationsAudited, AuditIsTrue, OneProjectPerDomain, Exists
<1>3. ASSUME NEW pc \in AnswerPcs \ {"ok"}, Answer(c, pc, request[c].id) PROVE IInv'
  BY <1>1, <1>3, RefusedStep
<1>4. ASSUME NEW actor \in {"human", "system"},
             request' = [request EXCEPT ![c].actor = actor,
                           ![c].pc = IF request[c].ask.op = "create" THEN "insert" ELSE "ensure"]
      PROVE  IInv'
  <2>1. /\ request' \in [Clients -> RequestRecords]
        /\ request'[c].pc = (IF request[c].ask.op = "create" THEN "insert" ELSE "ensure")
        /\ request'[c].ask = request[c].ask /\ request'[c].n = request[c].n
        /\ request'[c].actor = actor
        /\ \A k \in Clients \ {c} : request'[k] = request[k]
    BY <1>4, RequestType DEF RequestRecords, OpenPcs
  <2>2. TypeOK'
    BY <1>1, <2>1 DEF TypeOK, RequestRecords, OpenPcs
  <2>3. \A k \in Clients : (Over(k)' <=> Over(k)) /\ Name(k)' = Name(k)
    BY <1>1, <2>1 DEF Over, Name, AnswerPcs
  <2>4. Creating' = Creating
    BY <2>1, <2>3 DEF Creating
  <2>5. Bounded'
    BY <1>1, <2>4 DEF Bounded
  <2>6. StagesOK'
    BY <1>1, <2>1, <2>3 DEF StagesOK, OpenPcs
  <2>7. NamesUsed' /\ AnswerIsTrue'
    BY <1>1, <2>1, <2>3 DEF NamesUsed, AnswerIsTrue, AnswerPcs
  <2> QED
    BY <1>2, <2>2, <2>5, <2>6, <2>7
<1>5. Actor(request[c].ask.headers) \in {"nobody", "human", "system"}
  BY DEF Actor
<1> QED
  BY <1>3, <1>4, <1>5 DEF Admit, AnswerPcs

\* The lookup lets the handler go on, or ends in a 404.
LEMMA EnsureStep ==
  ASSUME IInv, NEW c \in Clients, EnsureExists(c) PROVE IInv'
<1> USE DEF IInv
<1>1. /\ request[c] \in RequestRecords /\ request[c].pc = "ensure" /\ ~Over(c)
      /\ UNCHANGED <<project, born, pending, audit, effects, struck, faults>>
  BY RequestType DEF EnsureExists, Over, AnswerPcs
<1>2. MutationsAudited' /\ AuditIsTrue' /\ OneProjectPerDomain'
  BY <1>1 DEF MutationsAudited, AuditIsTrue, OneProjectPerDomain, Exists
<1>3. ASSUME Answer(c, "missing", request[c].id) PROVE IInv'
  BY <1>1, <1>3, RefusedStep DEF AnswerPcs
<1>4. ASSUME GoOn(c, "write") PROVE IInv'
  <2>1. /\ request' \in [Clients -> RequestRecords]
        /\ request'[c] = [request[c] EXCEPT !.pc = "write"]
        /\ \A k \in Clients \ {c} : request'[k] = request[k]
    BY <1>4, RequestType DEF GoOn, RequestRecords, OpenPcs
  <2>2. TypeOK'
    BY <1>1, <2>1 DEF TypeOK, RequestRecords, OpenPcs
  <2>3. \A k \in Clients : (Over(k)' <=> Over(k)) /\ Name(k)' = Name(k)
    BY <1>1, <2>1 DEF Over, Name, AnswerPcs, RequestRecords
  <2>4. Creating' = Creating
    BY <1>1, <2>1, <2>3 DEF Creating, RequestRecords
  <2>5. Bounded'
    BY <1>1, <2>4 DEF Bounded
  <2>6. StagesOK'
    BY <1>1, <2>1, <2>3 DEF StagesOK, OpenPcs, RequestRecords
  <2>7. NamesUsed' /\ AnswerIsTrue'
    BY <1>1, <2>1, <2>3 DEF NamesUsed, AnswerIsTrue, AnswerPcs, RequestRecords
  <2> QED
    BY <1>2, <2>2, <2>5, <2>6, <2>7
<1> QED
  BY <1>3, <1>4 DEF EnsureExists

\* An insert under the next id, of a domain no row has.
LEMMA InsertedRow ==
  ASSUME IInv, NEW c \in Clients, request[c].pc = "insert",
         DomainFree(request[c].ask.arg, NoProject),
         project' = [project EXCEPT ![born + 1] =
                       [domain |-> request[c].ask.arg, connection |-> "unknown"]],
         born' = born + 1
  PROVE  /\ project' \in [Projects -> Rows \cup {Unborn, Deleted}]
         /\ OneProjectPerDomain'
         /\ c \in Creating /\ born' \in 0 .. MaxProjects /\ born + 1 \in Projects
<1> USE DEF IInv
<1>1. ~Over(c) /\ request[c].ask.op = "create" /\ request[c].ask \in Asks[c]
  BY DEF Over, AnswerPcs, StagesOK, OpenPcs
<1>2. c \in Creating /\ request[c].ask.arg \in Domains
  BY <1>1, ApiAssumption DEF Creating, Suits
<1>3. born' \in 0 .. MaxProjects /\ born + 1 \in Projects
  <2>1. Cardinality(Creating) \in Nat /\ Cardinality(Creating) > 0
    BY <1>2, CreatingFinite
  <2>2. born \in Nat /\ born + Cardinality(Creating) <= MaxProjects /\ MaxProjects \in Nat
    BY <2>1, ApiAssumption DEF Bounded, TypeOK
  <2> QED
    BY <2>1, <2>2 DEF Projects
<1>4. [domain |-> request[c].ask.arg, connection |-> "unknown"] \in Rows
  BY <1>2 DEF Rows, Connections
<1>5. project' \in [Projects -> Rows \cup {Unborn, Deleted}]
  BY <1>4 DEF TypeOK
<1>6. /\ project'[born + 1].domain = request[c].ask.arg
      /\ \A q \in Projects \ {born + 1} : project'[q] = project[q]
  BY <1>3 DEF TypeOK
<1>7. \A q \in Projects : ~(Exists(q) /\ project[q].domain = request[c].ask.arg)
  BY DEF DomainFree, NoProject, Projects
<1>8. OneProjectPerDomain'
  BY <1>3, <1>6, <1>7 DEF OneProjectPerDomain, Exists
<1> QED
  BY <1>2, <1>3, <1>5, <1>8

\* A write to an existing row, of a domain no other has.
LEMMA WrittenRow ==
  ASSUME IInv, NEW c \in Clients, request[c].pc = "write",
         NEW p, p = request[c].id, NEW ask, ask = request[c].ask,
         CanWrite(p, ask), project' = [project EXCEPT ![p] = Written(@, ask)]
  PROVE  /\ project' \in [Projects -> Rows \cup {Unborn, Deleted}]
         /\ OneProjectPerDomain'
         /\ p \in Projects
<1> USE DEF IInv
<1>1. ask.op # "create" /\ ask \in Asks[c] /\ ask \in AskRecords /\ Suits(ask)
  BY ApiAssumption DEF Over, AnswerPcs, StagesOK, OpenPcs
<1>2. p \in Projects /\ project[p] \in Rows
  BY DEF CanWrite, Exists, TypeOK
<1>3. Written(project[p], ask) \in Rows \cup {Deleted}
  BY <1>1, <1>2, WrittenType
<1>4. /\ project'[p] = Written(project[p], ask)
      /\ \A q \in Projects \ {p} : project'[q] = project[q]
  BY <1>2 DEF TypeOK
<1>5. project' \in [Projects -> Rows \cup {Unborn, Deleted}]
  BY <1>3 DEF TypeOK
<1>6. Exists(p)' => \/ project'[p].domain = project[p].domain
                    \/ DomainFree(project'[p].domain, p)
  <2>1. CASE ask.op = "remove"
    <3>1. Written(project[p], ask) = Deleted
      BY <2>1 DEF Written
    <3> QED
      BY <1>4, <3>1 DEF Exists
  <2>2. CASE ask.op = "connect"
    BY <1>2, <1>4, <2>2 DEF Written, Rows
  <2>3. CASE ask.op = "update"
    BY <1>2, <1>4, <2>3 DEF Written, Rows, CanWrite
  <2> QED
    BY <1>1, <2>1, <2>2, <2>3 DEF AskRecords, Operations
<1>7. Exists(p)
  BY DEF CanWrite
<1>8. OneProjectPerDomain'
  <2>1. ASSUME NEW q \in Projects, q # p, Exists(q)', Exists(p)',
               project'[q].domain = project'[p].domain
        PROVE  FALSE
    <3>1. Exists(q) /\ project[q].domain = project'[p].domain
      BY <1>4, <2>1 DEF Exists
    <3> QED
      BY <1>2, <1>6, <1>7, <2>1, <3>1 DEF OneProjectPerDomain, DomainFree
  <2>2. \A q \in Projects \ {p} : Exists(q)' => Exists(q) /\ project'[q] = project[q]
    BY <1>4 DEF Exists
  <2> QED
    BY <2>1, <2>2 DEF OneProjectPerDomain
<1> QED
  BY <1>2, <1>5, <1>8

\* An insert takes the next id, unless the domain is taken.
LEMMA InsertStep ==
  ASSUME IInv, NEW c \in Clients, Insert(c) PROVE IInv'
<1>1. /\ ~Over(c) /\ request[c].pc = "insert" /\ request[c].actor # "nobody"
      /\ UNCHANGED <<audit, struck, faults>>
  BY DEF IInv, Insert, Over, AnswerPcs, StagesOK, OpenPcs
<1>2. CASE DomainFree(request[c].ask.arg, NoProject) /\ Succeed(c, born + 1)
  BY <1>1, <1>2, InsertedRow, EffectStep DEF Insert, Succeed, StartAudit
<1>3. CASE Fail(c, "error")
  BY <1>1, <1>3, RefusedStep DEF Fail, AnswerPcs
<1> QED
  BY <1>2, <1>3 DEF Insert

\* A write finds its row, or ends in an error.
LEMMA WriteStep ==
  ASSUME IInv, NEW c \in Clients, Write(c) PROVE IInv'
<1>1. /\ ~Over(c) /\ request[c].pc = "write" /\ request[c].actor # "nobody"
      /\ born \in 0 .. MaxProjects
      /\ UNCHANGED <<audit, struck, faults>>
  BY DEF IInv, TypeOK, Write, Over, AnswerPcs, StagesOK, OpenPcs
<1>2. CASE CanWrite(request[c].id, request[c].ask) /\ Succeed(c, request[c].id)
  BY <1>1, <1>2, WrittenRow, EffectStep DEF Write, Succeed, StartAudit
<1>3. CASE Fail(c, "error")
  BY <1>1, <1>3, RefusedStep DEF Fail, AnswerPcs
<1> QED
  BY <1>2, <1>3 DEF Write

\* A handler that throws after its write.
LEMMA BreakAfterWriteStep ==
  ASSUME IInv, NEW c \in Clients, BreakAfterWrite(c) PROVE IInv'
<1>1. /\ request[c].pc \in {"insert", "write"} /\ ~Over(c)
      /\ born \in 0 .. MaxProjects
      /\ request[c].id \in Projects \cup {NoProject}
      /\ struck' = struck \cup {Name(c)} /\ faults' \in 0 .. MaxFaults
      /\ UNCHANGED <<audit, pending>>
  BY RequestType, ApiAssumption
  DEF IInv, TypeOK, RequestRecords, BreakAfterWrite, Fault, Over, AnswerPcs
<1>2. CASE request[c].pc = "insert"
  BY <1>1, <1>2, InsertedRow, EffectStep DEF BreakAfterWrite
<1>3. CASE request[c].pc = "write"
  BY <1>1, <1>3, WrittenRow, EffectStep DEF BreakAfterWrite
<1> QED
  BY <1>1, <1>2, <1>3

\* A request that fails without its write, or an answer that is lost.
LEMMA BreakStep ==
  ASSUME IInv, NEW c \in Clients, Break(c) PROVE IInv'
<1> USE DEF IInv
<1>1. /\ request[c] \in RequestRecords /\ request[c].id \in Projects \cup {NoProject}
      /\ "error" \in AnswerPcs /\ Name(c) \in Names
      /\ Answer(c, "error", request[c].id)
      /\ struck' = struck \cup {Name(c)} /\ faults' \in 0 .. MaxFaults
      /\ UNCHANGED <<project, born, audit, pending, effects>>
  BY RequestType, ApiAssumption DEF RequestRecords, TypeOK, Break, Fault, AnswerPcs, Name, Names
<1>2. TypeOK'
  BY <1>1, AnswerResets DEF TypeOK, RequestRecords, OpenPcs
<1>3. Bounded' /\ StagesOK'
  BY <1>1, AnswerCloses, StaysBounded
<1>4. NamesUsed'
  <2>1. \A k \in Clients : request'[k].n = request[k].n
    BY <1>1, AnswerResets
  <2>2. \A k \in Clients, n \in Nat : <<k, n>> = Name(c) => n <= request[k].n
    BY <1>1 DEF Name, RequestRecords
  <2>3. \A k \in Clients, n \in Nat : <<k, n>> \in effects' \cup struck' => n <= request'[k].n
    BY <1>1, <2>1, <2>2 DEF NamesUsed
  <2> QED
    BY <1>1, <2>3, AnswerCloses DEF NamesUsed
<1>5. AnswerIsTrue'
  BY <1>1, AnswerCloses, AnswerResets DEF AnswerIsTrue
<1>6. MutationsAudited' /\ AuditIsTrue' /\ OneProjectPerDomain'
  BY <1>1 DEF MutationsAudited, AuditIsTrue, OneProjectPerDomain, Exists
<1> QED
  BY <1>2, <1>3, <1>4, <1>5, <1>6

\* An audit log that is written or lost.
LEMMA AuditStep ==
  ASSUME IInv, NEW a \in pending, PersistAudit(a) \/ LoseAudit(a) PROVE IInv'
<1> USE DEF IInv
<1>1. UNCHANGED <<project, born, request, effects>>
  BY DEF PersistAudit, LoseAudit
<1>2. a.request \in effects /\ a.request \in Names
  BY DEF AuditIsTrue, TypeOK
<1>3. TypeOK'
  BY <1>1, <1>2, ApiAssumption DEF TypeOK, PersistAudit, LoseAudit, Fault
<1>4. Bounded' /\ StagesOK' /\ OneProjectPerDomain'
  BY <1>1 DEF Bounded, Creating, Over, StagesOK, OneProjectPerDomain, Exists
<1>5. struck' \subseteq struck \cup {a.request}
  BY DEF PersistAudit, LoseAudit, Fault
<1>6. NamesUsed'
  BY <1>1, <1>2, <1>5 DEF NamesUsed, Over, Name
<1>7. MutationsAudited'
  BY <1>1 DEF MutationsAudited, PersistAudit, LoseAudit, Fault
<1>8. AuditIsTrue'
  BY <1>1 DEF AuditIsTrue, PersistAudit, LoseAudit
<1>9. struck \subseteq struck'
  BY DEF PersistAudit, LoseAudit, Fault
<1>10. AnswerIsTrue'
  BY <1>1, <1>9 DEF AnswerIsTrue, Name
<1> QED
  BY <1>3, <1>4, <1>6, <1>7, <1>8, <1>10

--------------------------------------------------------------------------------
(* The theorems *)

\* IInv is inductive.
LEMMA Induction == IInv /\ [Next]_vars => IInv'
<1> SUFFICES ASSUME IInv, [Next]_vars PROVE IInv'
  OBVIOUS
<1>1. CASE UNCHANGED vars
  BY <1>1 DEF vars, IInv, TypeOK, Bounded, Creating, Over, StagesOK, NamesUsed, Name,
              MutationsAudited, AuditIsTrue, AnswerIsTrue, OneProjectPerDomain, Exists
<1>2. CASE ServerNext
  BY <1>2, AdmitStep, InsertStep, EnsureStep, WriteStep, BreakStep, BreakAfterWriteStep, AuditStep
  DEF ServerNext, RequestStep
<1>3. ASSUME NEW c \in Clients, SomeRequest(c) PROVE IInv'
  BY <1>3, SendStep DEF SomeRequest
<1> QED
  BY <1>1, <1>2, <1>3 DEF Next

\* IInv is an invariant of the API.
LEMMA Invariance == Spec => []IInv
  BY InitIInv, Induction, PTL DEF Spec

\* The variables keep their types: no interleaving of creations, changes, deletions
\* and faults writes a value that is no row.
THEOREM ApiTypeCorrect == Spec => []TypeOK
<1>1. IInv => TypeOK
  BY DEF IInv
<1> QED
  BY <1>1, Invariance, PTL

\* README.md's audited mutations: every request that took effect has its log, or
\* the log is on its way, unless a fault has hit it.
THEOREM MutationsAreAudited == Spec => []MutationsAudited
<1>1. IInv => MutationsAudited
  BY DEF IInv
<1> QED
  BY <1>1, Invariance, PTL

\* No log tells of what did not happen or of nobody, in particular after a write
\* that found its row gone.
THEOREM AuditsAreTrue == Spec => []AuditIsTrue
<1>1. IInv => AuditIsTrue
  BY DEF IInv
<1> QED
  BY <1>1, Invariance, PTL

\* Without a fault the answer tells whether the request took effect, although the
\* handlers check a row in one call and write it in another.
THEOREM AnswersAreTrue == Spec => []AnswerIsTrue
<1>1. IInv => AnswerIsTrue
  BY DEF IInv
<1> QED
  BY <1>1, Invariance, PTL

\* No sequence of creations, resubmissions and moves gives two projects one domain.
THEOREM DomainsAreUnique == Spec => []OneProjectPerDomain
<1>1. IInv => OneProjectPerDomain
  BY DEF IInv
<1> QED
  BY <1>1, Invariance, PTL
================================================================================

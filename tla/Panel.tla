--------------------------------- MODULE Panel ---------------------------------
(***************************************************************************)
(* The web panel: what its pages show while projects are created, changed  *)
(* and deleted, and its form for a new project.                            *)
(*                                                                         *)
(* A page is rendered on the server of the panel from one or four GET      *)
(* requests, whose queries run apart from each other.  A tab shows the     *)
(* last page until the next one is rendered.  The requests of its form go  *)
(* on when the form is left: each is a client of the API for itself.       *)
(***************************************************************************)
EXTENDS ProjectsApi

CONSTANTS
  Tabs,         \* tabs of the panel
  Fetches,      \* the clients that are calls of fetch() in each tab
  PanelHeaders, \* the headers of the panel's requests
  PageSize      \* how many projects a page lists

ASSUME PanelAssumption ==
  /\ Fetches \in [Tabs -> SUBSET Clients]
  /\ \A t, k \in Tabs : t # k => Fetches[t] \cap Fetches[k] = {}
  /\ PanelHeaders \in Headers
  /\ PageSize \in Nat \ {0}
  /\ \A t \in Tabs : \A c \in Fetches[t] : \A ask \in Asks[c] :
       ask.op = "create" /\ ask.fields = {"project"} /\ ask.headers = PanelHeaders

VARIABLES
  shown,   \* the page of each tab
  load,    \* the page each tab waits for, and what it has read so far
  form,    \* the form of each tab, and the fetch it has started
  awaited  \* fetches whose onSubmit goes on when they end

panelVars == <<shown, load, form, awaited>>
allVars == <<vars, panelVars>>

--------------------------------------------------------------------------------
(* Pages *)

\* What a page reads: findAll runs two queries, the page of a project sends four
\* requests (api.ts).  The dashboard and the list of projects send the same one and
\* are one page here, "projects".
Parts(page) ==
  CASE page = "projects" -> {"rows", "count"}
    [] page = "project"  -> {"findOne", "installations", "contentJobs", "systemLogs"}
    [] OTHER             -> {}

\* The fields of the query of each of these requests.
Query(part) == IF part \in {"contentJobs", "systemLogs"} THEN {"projectId"} ELSE {}

Existing == {p \in Projects : Exists(p)}

\* The first n rows, the newest first.
Newest(n, rows) == {p \in rows : Cardinality({q \in rows : q > p}) < n}

\* Mutant: the first page is numbered 0.
NextPage == Newest(2 * PageSize, Existing) \ Newest(PageSize, Existing)

FirstPage == Newest(PageSize, Existing)

\* How many projects have come or gone so far.
Changes == born + Cardinality({p \in Projects : project[p] = Deleted})

Blank == [page |-> "blank", at |-> NoProject, rows |-> {}, count |-> 0, cause |-> "none", drift |-> 0]
NoLoad == [page |-> "none", at |-> NoProject, todo |-> {}, rows |-> {}, count |-> 0, since |-> 0]
NoForm == [submitting |-> FALSE, error |-> FALSE, fetch |-> {}]

\* Navigation gives up the page that was on its way.
Visit(t, page, p) ==
  load' = [load EXCEPT ![t] = [NoLoad EXCEPT !.page = page, !.at = p, !.todo = Parts(page),
                                             !.since = IF page = "projects" THEN Changes ELSE 0]]

\* A page that has been rendered replaces the one shown, and a form on it is a new
\* one; cause is what has kept it from what it was to show, drift the changes since
\* a list was asked for.
Render(t, page, rows, count, cause) ==
  /\ shown' = [shown EXCEPT ![t] = [page |-> page, at |-> load[t].at, rows |-> rows,
                                    count |-> count, cause |-> cause,
                                    drift |-> IF page = "projects" THEN Changes - load[t].since ELSE 0]]
  /\ load' = [load EXCEPT ![t] = NoLoad]
  /\ form' = [form EXCEPT ![t] = NoForm]
  /\ UNCHANGED <<vars, awaited>>

\* The links: the header's, those of the listed projects, and reloading.
Navigate(t) ==
  /\ \/ Visit(t, "projects", NoProject)
     \/ shown[t].page # "new" /\ Visit(t, "new", NoProject)
     \/ \E p \in shown[t].rows : Visit(t, "project", p)
  /\ UNCHANGED <<vars, shown, form, awaited>>

Route(part) == IF part \in {"rows", "count"} THEN "findAll" ELSE part

\* The API answers the request with what was asked for.
Answers(part, p) ==
  /\ Actor(PanelHeaders) # "nobody"
  /\ Valid(Route(part), Query(part))
  /\ part = "findOne" => Exists(p)

\* The catch blocks: the lists stay empty, the page of a project is notFound().
CatchError(t, cause) ==
  Render(t, IF load[t].page = "project" THEN "missing" ELSE load[t].page, {}, 0, cause)

ReadPart(t, part) ==
  /\ part \in load[t].todo
  /\ \/ /\ Answers(part, load[t].at)
        /\ load' = [load EXCEPT ![t].todo = @ \ {part},
                                ![t].rows = IF part = "rows" THEN FirstPage ELSE @,
                                ![t].count = IF part = "count" THEN Cardinality(Existing) ELSE @]
        /\ UNCHANGED <<vars, shown, form, awaited>>
     \/ ~Answers(part, load[t].at) /\ CatchError(t, "refused")

\* The API is down, or a query of it throws.
BreakPage(t) == load[t].todo # {} /\ CatchError(t, "fault")

ShowPage(t) ==
  /\ load[t].page # "none"
  /\ load[t].todo = {}
  /\ Render(t, load[t].page, load[t].rows, load[t].count, "none")

--------------------------------------------------------------------------------
(* NewProjectForm *)

\* onSubmit; the button is disabled while this form is submitting.  A form that was
\* left and opened again is a new one, whatever fetch of the old one is still open.
Submit(t) ==
  /\ shown[t].page = "new"
  /\ ~form[t].submitting
  /\ \E c \in Fetches[t] \ awaited :
       /\ \E ask \in Asks[c] : Send(c, ask, NoProject)
       /\ awaited' = awaited \cup {c}
       /\ form' = [form EXCEPT ![t] = [submitting |-> TRUE, error |-> FALSE, fetch |-> {c}]]
  /\ UNCHANGED <<shown, load>>

\* The form that has started the fetch is still there.
Mounted(t, c) == c \in form[t].fetch

\* setError() and setSubmitting(false), which set nothing of a form that has gone.
Settle(t, c, error) ==
  form' = IF Mounted(t, c)
          THEN [form EXCEPT ![t].submitting = FALSE, ![t].error = @ \/ error]
          ELSE form

\* Mutant: without the finally block.
HearOnlySuccess(t, c) ==
  /\ c \in awaited
  /\ Over(c)
  /\ awaited' = awaited \ {c}
  /\ IF request[c].pc = "ok"
     THEN Visit(t, "project", request[c].id) /\ Settle(t, c, FALSE)
     ELSE /\ form' = [form EXCEPT ![t].error = @ \/ Mounted(t, c)]
          /\ UNCHANGED load
  /\ UNCHANGED <<vars, shown>>

\* Mutant: the message is kept outside the form, and shown by the next one.
HearAnywhere(t, c) ==
  /\ c \in awaited
  /\ Over(c)
  /\ awaited' = awaited \ {c}
  /\ IF request[c].pc = "ok"
     THEN Visit(t, "project", request[c].id) /\ Settle(t, c, FALSE)
     ELSE /\ form' = [form EXCEPT ![t].submitting = FALSE, ![t].error = TRUE]
          /\ UNCHANGED load
  /\ UNCHANGED <<vars, shown>>

\* Mutant: response.ok is not looked at.
HearUnchecked(t, c) ==
  /\ c \in awaited
  /\ Over(c)
  /\ awaited' = awaited \ {c}
  /\ Visit(t, "project", request[c].id)
  /\ Settle(t, c, FALSE)
  /\ UNCHANGED <<vars, shown>>

\* The rest of onSubmit.  The form may be gone, and another be there:
\* router.push() takes the tab to the new project all the same.
HearAnswer(t, c) ==
  /\ c \in awaited
  /\ Over(c)
  /\ awaited' = awaited \ {c}
  /\ \/ /\ request[c].pc = "ok"
        /\ Visit(t, "project", request[c].id)
        /\ Settle(t, c, FALSE)
     \/ /\ request[c].pc # "ok"
        /\ Settle(t, c, TRUE)
        /\ UNCHANGED load
  /\ UNCHANGED <<vars, shown>>

--------------------------------------------------------------------------------
(* Specification *)

PanelInit ==
  /\ Init
  /\ shown = [t \in Tabs |-> Blank]
  /\ load = [t \in Tabs |-> NoLoad]
  /\ form = [t \in Tabs |-> NoForm]
  /\ awaited = {}

AllFetches == UNION {Fetches[t] : t \in Tabs}

\* An answer that a tab has heard is not lost any more.
HeardStays == \A c \in AllFetches \ awaited : request'[c] = request[c]

ApiStep ==
  /\ ServerNext \/ \E c \in Clients \ AllFetches : SomeRequest(c)
  /\ HeardStays
  /\ UNCHANGED panelVars

TabStep(t) ==
  \/ Navigate(t) \/ BreakPage(t) \/ ShowPage(t) \/ Submit(t)
  \/ \E c \in Fetches[t] : HearAnswer(t, c)
  \/ \E part \in load[t].todo : ReadPart(t, part)

PanelNext == ApiStep \/ \E t \in Tabs : TabStep(t)

PanelSpec == PanelInit /\ [][PanelNext]_allVars

--------------------------------------------------------------------------------
(* Properties *)

\* The pages of a project, that of one of them.
OnProject(page) ==
  page.page \in {"project", "missing"} <=> page.at \in Projects

\* The values of the variables.  No tab is on its way to the page of no project.
PanelTypeOK ==
  /\ shown \in [Tabs ->
       [page : {"blank", "projects", "new", "project", "missing"}, at : Projects \cup {NoProject},
        rows : SUBSET Projects, count : 0 .. MaxProjects, cause : {"none", "refused", "fault"},
        drift : 0 .. 2 * MaxProjects]]
  /\ load \in [Tabs ->
       [page : {"none", "projects", "new", "project"}, at : Projects \cup {NoProject},
        todo : SUBSET {"rows", "count", "findOne", "installations", "contentJobs", "systemLogs"},
        rows : SUBSET Projects, count : 0 .. MaxProjects, since : 0 .. 2 * MaxProjects]]
  /\ \A t \in Tabs : OnProject(shown[t]) /\ OnProject(load[t])
  /\ form \in [Tabs -> [submitting : BOOLEAN, error : BOOLEAN, fetch : SUBSET Clients]]
  /\ awaited \subseteq Clients

\* The total a page shows and its list come from two queries of findAll: they differ
\* at most by the projects that came or went while the page was made.
TotalAgrees ==
  \A t \in Tabs :
    LET page == shown[t]
        listed == Cardinality(page.rows)
        total == IF page.count < PageSize THEN page.count ELSE PageSize
    IN listed <= total + page.drift /\ total <= listed + page.drift

\* A form says that it is submitting while its own request is open, and no longer:
\* whatever becomes of the request, and of older ones, it can be used again, and it
\* never sends a second request beside the first.
FormFollowsFetch ==
  \A t \in Tabs : form[t].submitting <=> form[t].fetch \cap awaited # {}

\* The error a form shows is that of its own request, never that of one a form
\* before it had left open, and this request has made no project, unless a fault
\* has hit it.
ErrorIsTrue ==
  \A t \in Tabs : form[t].error =>
    \E c \in form[t].fetch : Name(c) \in struck \/ Name(c) \notin effects

\* A page that says a project does not exist, of which the API has refused no part
\* for a fault, says so of a project that does not exist.
ProjectIsShown ==
  \A t \in Tabs :
    shown[t].page = "missing" /\ shown[t].cause = "refused" => ~Exists(shown[t].at)
================================================================================

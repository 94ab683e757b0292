# Verification of the WordPress automation platform

TLA+ models of the API and the web panel of this repository (`apps/api`,
`apps/web`), what TLC checks of them and what TLAPS proves. Paths below are
relative to the repository root; `M/` stands for `apps/api/src/modules/` and
`C/` for `apps/api/src/common/`.

- [The system](#the-system)
- [Modules](#modules)
- [How the models correspond to the code](#how-the-models-correspond-to-the-code)
- [Runs](#runs)
- [Fairness](#fairness)
- [Proofs](#proofs)
- [Where the code and its documents disagree](#where-the-code-and-its-documents-disagree)
- [Limits](#limits)
- [Not modelled, and what could follow](#not-modelled-and-what-could-follow)

## The system

A NestJS API keeps projects, content jobs and WordPress installations in
PostgreSQL (Prisma), queues content generation in Redis (BullMQ), and calls
WordPress sites over HTTP. Next.js pages call the API. Every API process serves
requests, runs one worker of the queue (concurrency 1) and the listener of its
`failed` events. **No service method runs in a transaction**: a method is a
sequence of awaited calls, each atomic, and everything else in the system may
happen between two of them. Processes are restarted when they die
(`docker-compose.yml:41`) and resume nothing.

| Component | State | Operations | Talks to | What is hard | What makes it correct |
|---|---|---|---|---|---|
| Content jobs (`M/content-jobs`) | rows of `ContentJob`: status, provider status, attempt count, content | `create`, `updateStatus`, `markSendingToGeneration`, `markGenerated`, `markFailed` | queue (enqueue), logs (foreign key on the job), projects | every check reads in one query and writes in another; several steps of one request, each of which may fail | a status that promises content has content; a row's history respects the status table; no more live jobs of a topic than racing clients; a job that is answered is queued |
| Generation queue and processor (`M/queue`) | queue entries in Redis; what each worker and each handler call is doing | add with `jobId`, deliver, retry with backoff, stalled check; process; `failed` handler | content jobs | at-least-once delivery, workers that lost their lock, handlers nobody awaits, crashes | the queue forgets an entry only when the content is stored; deliveries are counted once and bounded; every entry settles |
| WordPress installations (`M/wordpress-installations`) | rows of `WordpressInstallation`: project, method, which fields are set, status | `create`, `update`, `updateStatus`, `provision` | projects, logs, three provisioning strategies | a try block whose last call may fail after the decisive write; two provisionings at once; a row read once and used to the end | the answer to a request that was alone agrees with the status and the fields; nothing stays running unattended |
| WordPress adapter (`M/wordpress-integration`) | none in the API; posts on the site, calls on the wire | `testConnection`, `listPosts`, `updatePost`, `upsertPost`, `upsertPage` over `request()` | WordPress sites | lost answers, retries of calls that took effect, late calls, timeouts | success means written; bounded duplicates of published posts; `request()` ends |
| Projects (`M/projects`) | rows of `Project`: domain (unique), connection status | `create`, `update`, `remove` (cascades), `markConnection`, `findAll`, `findOne` | jobs and installations by foreign key; audit | a row is looked up in one call and written in another; deletion between any two steps of anything else; two queries make one page | no row outlives its project; a domain has one project; what is answered is what happened |
| Logs and audit (`M/logs`, `C/interceptors`) | rows of `SystemLog` and `ContentLog` | write a log; the audit log of each request that is not a GET, POSTs that only read or that found a duplicate included | everything that logs | a log may be refused, by a foreign key too, and decides what follows; the audit log is written after the answer and nobody waits for it | every mutation is audited, and the audit of a mutation of a project is of one that happened |
| Guard, validation, errors (`C/guards`, `main.ts`, `C/filters`) | none | decide on scope and keys, on the fields of bodies and queries, and on the status of an answer | all requests | a key missing in the configuration; a field one side knows and the other refuses | a request that acts has an actor; the panel's requests are admitted |
| Secrets | none | encrypt, decrypt | installations | - | pure functions |
| Web panel (`apps/web`) | the page of each tab, the page on its way, the form with its loading flag and error | pages of one or four GET requests; the form for a new project; the actions on the page of a project | API | answers that are lost or late; a form that was left and opened again while its request is open; a page made of several reads | what a page or form says is what happened, to its own request; a form is blocked only while that is open |

The hazards, each at its line, are listed under `hazards` in `PROJECT.json`.

## Modules

| Module | What it is |
|---|---|
| `ContentJobStatus` | the status table and its check |
| `ContentQueue` | BullMQ as this code configures and relies on it (external) |
| `ContentPipeline` | requests, workers, `failed` handlers, rows, crashes, deletions: extends the two above |
| `JobProvenance` | abstract specification: what unsynchronised checks still promise of a row's statuses |
| `ContentHistory` | `ContentPipeline` with the history of each row's statuses; maps to `JobProvenance` |
| `Provisioning` | installations: requests, strategies, crashes, deletions |
| `WordpressHttp` | the adapter's retries and upserts, the network and a site |
| `ProjectsApi` | mutations of projects through the whole API: guard, validation, service, audit, answers |
| `Panel` | the panel's tabs over `ProjectsApi`, which it extends and implements |
| `MCContentPipeline`, `MCContentHistory`, `MCProvisioning`, `MCWordpressHttp`, `MCPanel` | small instances for TLC |
| `ContentPipelineProofs` | type correctness and the first inductive invariant |
| `ContentSafetyProofs` | the safety properties of the pipeline |
| `JobProvenanceProofs` | the theorem about the abstract specification |
| `ContentHistoryProofs` | the refinement, and what follows from it |
| `ProvisioningProofs`, `WordpressHttpProofs` | type correctness and the safety properties of each |
| `ProjectsApiProofs` | all invariants of `ProjectsApi` |
| `PanelProofs` | the panel implements `ProjectsApi`; its form shows its own request's state and reports errors truly, its totals agree with its rows |

Definitions marked "Mutant" are used by nothing in the specifications: each is a
plausible bug of the definition after it, and the properties are known to tell
the two apart.

## How the models correspond to the code

### Content pipeline

`row[j]` is `Unborn`, `Deleted` or the columns the code decides on: `status`,
`provider` (providerStatus), `attempts` (attemptCount) and `content` (whether
normalizedContent is set). A topic is a title and keyword of one project. The
id of a job is also the id of its queue entry (`jobId`).

Each awaited call is one action. `create()` is `CheckProject`, `FindExisting`,
then `LogDuplicate`, or `InsertRow`, `LogCreated`, `Enqueue`. `updateStatus()`
is `ReadForUpdate` (findUnique and `assertContentJobTransition`) and
`WriteUpdate`. The processor is `ReadSending`, `WriteSending`, `LogSending`,
`Load`, `ReadGenerated`, `WriteGenerated`, `LogGenerated`, `Complete`; any of
them that throws leads to `Fail`, which reports to the queue and starts a call
of the `failed` handler (`ReadFailed`, `WriteFailed`). The handler is listed in
`failing` and runs beside everything else, since BullMQ does not wait for it.
`seen` keeps the status a writer has read, for the properties only: no write of
the code depends on it.

`Stalled` covers both a worker that died and one whose lock expired while it
lives: the latter goes on (a zombie), cannot acknowledge the entry, and still
writes the row. `Crash` drops a replica's worker, handlers and requests.
`RemoveProject` deletes a project with its jobs at any time.
The generation providers (`M/content-jobs/providers`) are stubs that always
answer; their call is part of `Load`.

The queue keeps of an entry its state, failed attempts, stalls and the owner of
the lock. Order of the wait list and length of delays are left out: any waiting
entry may be next, any delay may end.

### Provisioning

`inst[i]` keeps project, method, the set of fields that are set and the status.
`req[c].was` is the row `provision()` reads once and uses to the end.
`provision()` is `ReadInstallation`, `WriteRunning`, then, in the try block,
`Execute`, `WriteCompleted`, `LogSuccess`, with `CatchError` for the catch block.
`Refuse` makes the current call throw; `LogSuccess` also throws by itself when
the project is gone, as the foreign key of the system log demands.
`alone` is a history no step reads: the callers whose request, open or answered,
no other request about the same installation has overlapped or followed.

### WordPress adapter

`posts` is the site. `wire` holds the calls that were sent and not yet
processed; a call the client has given up stays there and may be processed at
any later time or never. `request()` is `Send`, then one of a response, an error
status (`ReadError`), a network error or the abort timer. The catch block of
`request()` is `Caught`, which is also where the exception for a final error
goes, as in the code. `ReadResponse` is what `upsertPost` does after each of its
two calls. The site's side (lookup, first match, create, update, refuse, do the
work and lose the answer) is external.

The lookup sends `slug` and `per_page`, and WordPress then lists published posts
only, so `Found` returns one of these. A payload may ask for any status or for
none (`Sends`, `sent`): a post that is created without one is a draft, one that is
updated without one keeps what it had (`PublishedBy`). `hidden` is a history: the
post was, at some time, not published. Trash and slugs that WordPress changes on
conflict are left out.

### Projects and the API around them

`project[p]` is a row: its unique `domain` and its `connection`; rows are
numbered in the order of `createdAt`. A request is `Send`, `Admit` (the guard,
then the ValidationPipe), then `Insert`, or `EnsureExists` and `Write`: the
lookup and the write are two calls, so a row may go, or a domain be taken, in
between. `remove` and `markConnection` have the same two calls as `update`.
Fields are abstracted to two names, those `CreateProjectDto` declares
(`"project"`) and `status`, which it does not. Keys and scopes are the guard's.

`Succeed` is the return of the handler: answer, effect, and the audit log that
starts its own way to the database (`pending`), where it is written
(`PersistAudit`) or lost (`LoseAudit`). The interceptor audits whatever is not a
GET: the reads by POST of the adapter and creations answered with a duplicate are
audited too; `ProjectsApi` has the mutations of projects. `Break` is a request that fails without
its write, or an answer that is lost after it; `BreakAfterWrite` is a handler
that throws after its write was committed, and leaves no log. `effects` and
`struck` only remember which requests have acted and which a fault has hit.

### Web panel

`shown[t]` is the page a tab shows, `load[t]` the one it waits for with the reads
still to be answered (`todo`), `form[t]` the form with its `submitting` and
`error` and the request it has sent. `awaited` are the requests some `onSubmit`
still waits for: `submitting` is state of one mount, so a form that was left and
opened again is a new one and may send a second request while the first is open.
`ReadPart` is the answer to
one read: each of the two queries of `findAll`, and each of the four requests of
the page of a project, in any order. `CatchError` is each page's catch block. The
dashboard and the list of projects send the same request and are one page here.
`Submit` and `HearAnswer` are `onSubmit` before and after its `fetch`; a user may
navigate in between, and the answer then still moves the tab (`router.push`), but
sets nothing of a form that has come after it (`Settle`).
Whether a read or a mutation is admitted is decided by the same operators
(`Actor`, `Valid`) with the fields the panel really sends.

## Runs

Deadlock is not checked anywhere: ids, requests and faults are bounded, and the
system may stop when they are used up and nobody asks for anything.

| Run | Instance | Shows |
|---|---|---|
| `PipelineFaults` | 1 job, 2 workers, 1 client, 4 faults, 3 attempts, 1 stall tolerated; 2.4M states | rows keep to their projects; a completed entry has its content; no delivery counts twice; the provider is called at most 3 + 1 times |
| `PipelineHistory` | 1 job, 2 workers, 2 clients that ask for `pending`, `review_pending` and `published`, 1 fault, 2 attempts; callers symmetric; 2.8M states | the pipeline implements `JobProvenance`; statuses that promise content have it; until the fault, a job that is in no queue has a request that will enqueue it |
| `PipelineOneClient` | 2 jobs of one topic, 2 workers, 1 client that also asks for `review_pending`, 1 fault, 2 attempts, fairness; 176k states | every entry leaves the queue; every row ends `generated`, `failed` or where the client put it, for good |
| `PipelineCreates` | 3 jobs of one topic, 2 workers, 2 clients that move jobs on, no faults; clients and jobs symmetric; 416k states | clients that race leave no more live jobs of a topic than there are clients, whatever the workers have brought the jobs to |
| `Provisioning` | 2 projects, 2 installations, 2 clients on 2 replicas, two bodies, 1 fault, fairness; 1.3M states | a provisioning that was alone with its installation is answered with what it left; until the fault a running installation has a request that will end it, and every provisioning ends |
| `HttpRetries` | 2 clients (2 requests and 1), one that publishes and one that may also send drafts or no status, 2 retries, 2 refusals, 1 lost answer, fairness; 942k states | success means written; duplicates of posts that were always published bounded; `request()` ends |
| `PanelPages` | 1 tab (2 submissions of 2 domains, maybe both open), 1 script (an update, a deletion, a connection with the wrong key, or a body that is refused), 2 projects, 1 fault, pages of 1 row; 3.7M states | answers, form errors and audit logs tell what happened; one project for a domain; a page's total and rows agree but for what changed meanwhile; a form is submitting exactly while its own request is open, and shows only its own error |
| `RetryDuplicatesJob` | violation of `OneLiveJob` | see below |
| `AnsweredNotQueued` | violation of `AnsweredJobIsQueued` | see below |
| `LogBreaksProvisioning` | violation of `TransitionsLegal` | see below |
| `RetryDuplicatesPost` | violation of `OnePostPerSlug` | see below |
| `ProjectPageMissing` | violation of `ProjectIsShown` | see below |

**Why the bounds are enough.** Jobs meet only in the duplicate lookup, by topic:
three jobs of one topic are one more than two clients that race may leave live, and
one job is enough for what concerns one row. A row can have at most two workers at
it that matter, one with the lock and one without. Four faults are what it takes to use up the stall the
queue tolerates and to lose further attempts; one fault is enough for a stale
worker. Two installations are a duplicate and an original; of the
two bodies one can be provisioned, the other moves an installation to another
project and to a method whose requirements it does not meet; as clients are two,
requests are alone or are overlapped by every other request. In
`HttpRetries` 7 posts are more than the requests and attempts can create. In
`PanelPages` two submissions can be of one domain or of two, the second after an
answer that was lost; the script is all that can happen to a project beside the
tab; pages of one row make rows and total differ as soon as there are two
projects. The first submission may be open when a new form
sends the second; the script has one request, so that a row that vanishes between
the lookup and the write of its own update is left to the theorems.
The instances are small; for the theorems listed below the proofs remove the
bounds.

**Preconditions worth knowing.** `ContentBehindStatus` holds unless a client
asks for `generated` itself, which the API allows. `RunningIsAttended` holds
until the first fault and unless a client asks for `running`, which the API
allows, too. `LiveJobsBounded`
holds while clients ask only for statuses that come after generation: one that
sets a job `failed` while it is generated makes room for another, and the worker
brings the first back, as often as the client likes. `AnswerMatchesStatus` claims
nothing of a provisioning that another request about its installation overlapped
or followed: a PATCH between the read and the last write is neither seen nor
refused. `DuplicatesBounded` claims nothing of a slug one of whose posts was ever
unpublished.

## Fairness

`FairSpec` of each module assumes only what the platform does by itself.

- *Pipeline.* Weak fairness of the steps of each request, each worker and the
  handlers (node runs every continuation whose call has returned), of the
  delivery of each waiting entry and the end of each delay (BullMQ), and of the
  recovery of entries whose worker is gone (the stalled check of any replica).
  Not of requests, deletions, faults, or the stalled check of live workers.
- *Provisioning.* Weak fairness of the steps of each request.
- *Adapter.* Weak fairness of the client's steps and of its abort timer; nothing
  is assumed of the site or of the network.
- *Panel.* None: its properties are safety properties.

Weak fairness is enough since a step that is possible stays possible until it is
taken, or until another actor makes it unnecessary (a project is deleted,
another worker takes the entry).

## Proofs

All proofs are for any number of jobs, topics, projects, replicas, callers,
clients, tabs, attempts, stalls, posts and faults, from the named assumptions of
the modules (constants have their types, sentinels differ from what they stand
beside, and the sets of replicas and clients that are counted are finite), which
TLC evaluates in the runs. No theorem has a hypothesis of its own; what a property
claims only until the first fault, or only of some requests, is part of the property.

1. **`TypeCorrectness`: `Spec => []TypeOK`.** `TypeOK` is not inductive: that a
   worker's job has a row value needs that it works on an inserted job, and that
   counters stay in range needs that an unsettled entry is below its limits. The
   inductive invariant is `TypeInv`: `TypeOK`, `QueueBounds` and `InHand` (what
   requests, workers, handlers and queue entries are about was inserted; ids
   being used by `create()` are not, and are distinct; an update was checked).
   There is one lemma for each kind of actor, and one for each shape of step.
2. **Safety of rows (`ContentSafetyProofs`).** Lemma `StepOnRow` lists all a step
   can do to one row and who does it, `StepOnRun` where a worker can be
   afterwards, `StepOnCompletion` how an entry is completed. From them:
   - `NoOrphans`: `NoOrphanRows`.
   - `CompletedContent` and `ContentAfterAttempt`: from `ContentInv`, which adds
     `RunProgress`: past its writes a worker finds what it wrote in the row,
     because no other write takes content or attempts away.
   - `ContentIsBehindStatus`: from `BehindInv`, which adds `StatusReadHadContent`:
     a status that was read from a job with content is used on a job with
     content. This is why a stale check is harmless for this property.
3. **Refinement (`ContentHistoryProofs`).** `HistoryInv` adds to `TypeInv` that
   a row's status is in its history (`CurrentHeld`) and that whatever a writer
   has read is there, too (`SeenWasHeld`). With it every step maps to a step of
   `JobProvenance` or a stutter: `ImplementsJobProvenance`.
   `JobProvenanceProofs` proves of the abstract specification that a job ever
   published was posted or in review, that one that was either had been generated,
   and that one generated had been sent (`ProvenanceHolds`);
   `PublishedWasGenerated` carries it over to the pipeline.

4. **Attempts (`ContentSafetyProofs`).** `CountInv` is `AttemptAccounting` with
   the bound on deliveries. `StepOnQueue` and `QueueStepDelivers` say that only a
   delivery adds to them and when it can; `StepOnCounting` that a worker is yet
   to count only what it was before, or what it takes now: so each step that
   counts removes a worker from `NotYetCounted`. From it `AttemptsAreDeliveries`
   and `AttemptsAreBounded`.
   `UnqueuedStaysAttended`: a job appears by an insert, whose request stands right
   before the log and the enqueueing, and nothing but a fault takes it from there
   (`AttendantStays`); any number of clients.

   *Racing creations.* `LiveJobsAreBounded` holds for a reason spread over all parts
   of the pipeline: the lookup ignores failed and published jobs, so none may fail,
   and no published one may come back. `QuietInv` says why none does while
   `faults = 0`: a working worker has the lock of its entry and every locked entry is
   worked on (`Owned`, so that the stalled check takes an entry only by a fault);
   where an entry is, and where its worker is, give the statuses its job may have
   (`StatusesFit`), which are none where only a failed attempt leads; calls of the
   `failed` handler are about deleted jobs (`FailuresAreGone`); what a request has
   seen is a status from which the job can only have moved on (`RequestsFit`). Then
   the live jobs of a topic and the clients about to insert one are counted
   together (`CountFits`): a client joins the second only when it has seen none of
   the first, and an insert moves one from the second to the first. Steps have three
   shapes: a worker moves with its entry (`WorkerMoved`), rows or entries change where
   nobody works (`FadesFit`), and a client writes one row (`ClientFits`).
5. **Provisioning (`ProvisioningProofs`).** `RunningStaysAttended`: the
   inductive invariant is `RunningIsAttended` with `TypeOK` and `RequestsOK`,
   which says of each request that what it carries fits the step it is at (an
   inserted row was read, a target is one a client may name, the body of a
   creation names its method). The lemmas have one shape of step each: a request
   starts, goes on in its handler, or is answered, and the others stay as they
   are, so that only the end of a request can leave a row unattended.
   `AnswersMatch`: `Apart` says that nobody else's open request is about the
   installation of a request that is alone, and is kept because a request that
   starts takes that claim from the others; `OneMoves`, that a step of one request
   changes its own row only. So `Stage`, which says of each step of a request what
   its installation is there, has only its own steps and deletions to survive. The
   row `provision()` has read is still the row, but for the status; a catch block
   that finds `completed` was sent there by a fault, since the row's project is
   there (`ForeignKey`) and the log can be written; and only another fault keeps it
   from writing `failed`.
6. **Adapter (`WordpressHttpProofs`).** `Stage` says what a request is about at
   each of its steps (the target of an update has the request's slug; a response
   to a write means that this request has written a post of its slug), `CallOK`
   that a call on the wire is of a request that was made. Lemma `GrownKeeps`:
   posts are never removed nor their writers forgotten, so neither can be undone
   by a late call. `HttpTypeCorrect` includes the bound on attempts.
   `DuplicatesAreBounded` counts. While every post of a slug was published from the
   first, a lookup finds nothing only while there is no post of the slug; what may
   follow are the creations of the callers that will create
   (`Creators`) and of calls nobody waits for any more (`Orphans`), of which there
   are never more than lost answers. `CountInv` bounds posts, orphans and creators
   together, and each step moves one from one of the three sets to another or adds
   a lost answer.
7. **API (`ProjectsApiProofs`).** One induction over `TypeOK`, the four safety
   invariants and three facts they need: each creation under way has an id left
   to insert under (`Bounded`), a request is where the guard and the router can
   have sent it (`StagesOK`), and the name of a request is used once, an open one
   having changed nothing yet (`NamesUsed`).
8. **Panel (`PanelProofs`).** `PanelImplementsApi`: every step of the panel is a
   step of `ProjectsApi` or leaves its variables alone, so each theorem of 7
   holds of the panel. `FormErrorsAreTrue` from `AnswersAreTrue` carried over in
   this way; `FormInv` says that a form's request is one its tab has sent and that
   its error is of that request, once it has ended. `FormsFollowFetches` from the same
   invariant: an older request that ends finds its form gone and settles nothing.
   `PanelTypeCorrect` and `TotalsAgree`: `LoadOK` says how far what was read of a list
   may be from the rows and the total by now, and every step that changes rows adds
   to that distance no more than to the count of changes (`RowsMove`). It needs that
   the newest n rows are n, or all: a fact by induction over the rows, which the
   prover cannot do, but which can be carried along as an invariant (`RowInv`).

**Only model-checked.** Liveness (`QueueDrains`, `JobSettles`,
`ProvisioningEnds`, `AttemptsEnd`), which is beyond the prover.
Every invariant and action property of the passing runs is proved.

## Where the code and its documents disagree

- **A retry duplicates a job** (`RetryDuplicatesJob`). The `failed` handler marks
  a job `failed` after every failed attempt, also one that will be retried
  (`M/queue/queue.processor.ts:56`). Until the retry starts, `create()` does not
  count the job as live; a second job is inserted and both go on. `README.md:102`
  promises no duplicates among active states. One client is enough.
- **An answered job that is never queued** (`AnsweredNotQueued`). A request that
  fails between its insert and its enqueueing leaves a `pending` job; every later
  request of the topic is answered with it, and the panel says it was sent to the
  queue.
- **A log undoes a provisioning** (`LogBreaksProvisioning`). The system log is
  written in the try block, after `completed` was: if it fails, the catch block
  writes `failed` over `completed`, without the check.
- **An upsert creates twice** (`RetryDuplicatesPost`). The creating POST is
  retried without a new lookup.
- **No project has a page** (`ProjectPageMissing`). The page of a project sends
  `projectId` in two queries (`apps/web/src/lib/api.ts:88` and `103`) whose
  handlers validate the whole query as `PaginationQueryDto`
  (`M/content-jobs/content-jobs.controller.ts:17`, `M/logs/logs.controller.ts:16`);
  `forbidNonWhitelisted` (`apps/api/src/main.ts:22`) makes both answer 400, and
  the page's catch block answers `notFound()`
  (`apps/web/src/app/projects/[id]/page.tsx:117`). So the list's "Ver detalhes"
  and the form for a new project lead to a 404, with nothing concurrent and no
  fault, and `project-actions.tsx` is never shown.

## Limits

- `JobSettles` is checked with one fault. With two it fails: a worker that lost
  its lock may write `sending_to_generation` over `generated` after another has
  completed the entry, and then die.
- A provisioning answered with an error may leave its installation `completed` after
  two faults: the log of the success and then the write of the catch block are
  refused. `AnswerMatchesStatus` says so.
- Two clients that create an installation of one project and method at once insert
  two, although `README.md:104` excludes it: the lookup and the insert are two
  calls. A PATCH between the read and the last write of `provision()` may leave an
  installation `completed` that lacks what its method needs; of two provisionings
  at once the second may write `failed` over the `completed` of the first.
- An upsert of a post that is not published (the default without a `status`) never
  finds the one before it, and creates another each time, although `README.md:105`
  calls upserts idempotent: the lookup asks for no status
  (`M/wordpress-integration/wordpress-http.client.ts:62`).
- A late call of the `failed` handler may write `failed` over what the next attempt
  has written: the content stays, and no property is about the status it hides.
- An installation whose process dies while it is running stays so until somebody
  provisions it again or sets its status.
- A job set from `failed` back to `pending` is enqueued by nobody.
- `AttemptsEnd` is about `request()`: the body of a response is read after the
  abort timer was cleared, and may take for ever.
- The exception for a status that is not retried is thrown inside the try block of
  `request()` (`M/wordpress-integration/wordpress-http.client.ts:129`), whose
  catch block retries it: a 4xx is tried again, although `README.md:106` speaks of
  429 and 5xx, and ends as a 503. The model does the same (`ReadError`,
  `Caught`).
- A request of scope `system` that carries both keys is audited as `human`: the
  guard sets the actor by the keys alone.
- When the API is down the dashboard says that there are no projects
  (`apps/web/src/app/page.tsx:21`); the list says that it could not load them.
- `ProjectIsShown` blames a fault for a page that is missing because of one; a page
  that misses one of four reads for a fault says that the project does not exist.

## Not modelled, and what could follow

- `project-actions.tsx`, because its page is never shown. Its requests for jobs and
  installations are modelled from the API's side; its two buttons also send
  `status`, which the validation refuses. Once the page works, `Panel` can take
  its loading flag and messages as it takes those of the form.
- Columns that decide nothing: data of content and of projects, `failureReason`,
  and `Project.status`, which no operation writes.
- Encryption of credentials (that decryption may throw is a fault), the message
  text of errors, the waiting times between HTTP attempts, public routes, an
  update that changes a post's slug, the system log of `testConnection`.
- Generation providers, which are stubs, and styling, modules and configuration
  files, which have no behaviour of their own.
- An abstract specification of a provisioning as its client sees it, implemented
  by `Provisioning` without faults, is the next thing worth adding.

----------------------------- MODULE WordpressHttp -----------------------------
(***************************************************************************)
(* The adapter that writes posts to WordPress sites over HTTP              *)
(* (WordpressHttpClient): its retries, its timeout, and the lookup and     *)
(* write of upsertPost and upsertPage, over a network that loses and       *)
(* delays calls.  The site is external: it looks published posts up by     *)
(* slug, updates and creates posts.  Posts and pages are alike, and one    *)
(* site is modelled.                                                       *)
(***************************************************************************)
EXTENDS Naturals, FiniteSets, Sequences

CONSTANTS
  Callers,     \* clients of the adapter, one request at a time each
  Slugs,
  Sends,       \* the statuses each caller asks for in the posts it writes
  MaxRetries,  \* WORDPRESS_HTTP_MAX_RETRIES
  MaxRequests, \* bound on the requests of each caller
  MaxPosts,    \* bound on the posts of the site
  MaxRefused,  \* bound on the calls the site answers with an error
  MaxLost,     \* bound on the answers lost to errors
  NoSlug       \* no slug

\* "draft" stands for every status but "publish"; "unset" is a payload without one.
Statuses == {"publish", "draft", "unset"}

ASSUME HttpAssumption ==
  /\ IsFiniteSet(Callers)
  /\ Sends \in [Callers -> SUBSET Statuses]
  /\ MaxRequests \in [Callers -> Nat]
  /\ {MaxRetries, MaxPosts, MaxRefused, MaxLost} \subseteq Nat
  /\ NoSlug \notin Slugs

VARIABLES
  posts,   \* the site's posts in the order of their ids: the slug it was created
           \* with, whether it is published, whether it ever was not (a
           \* history), and the requests that wrote it
  wire,    \* HTTP calls the site has not processed
  req,     \* what each caller's request is doing
  refused, \* errors the site has answered without doing anything
  lost     \* calls whose answer the client did not get, processed or not

vars == <<posts, wire, req, refused, lost>>

--------------------------------------------------------------------------------
(* Requests *)

\* The n-th request of a caller: op is the method of the client, sent the status
\* in its payload, doing the HTTP call it is at, post its target or what it
\* found, attempt the variable of request(), status what the site answered.
NoPost == 0
NoReq == [pc |-> "idle", n |-> 0, op |-> "read", slug |-> NoSlug, sent |-> "unset",
          doing |-> "find", post |-> NoPost, attempt |-> 0, status |-> "none"]

AnswerPcs == {"idle", "ok", "error"}
Busy(c) == req[c].pc \notin AnswerPcs

\* All that is remembered of a finished request is what it was and its answer.
Answer(c, pc) ==
  req' = [req EXCEPT ![c] = [NoReq EXCEPT !.pc = pc, !.n = req[c].n, !.op = req[c].op,
                                          !.slug = req[c].slug]]

\* The client calls request(), which counts its attempts from 0.
Call(c, doing, post) ==
  req' = [req EXCEPT ![c].pc = "send", ![c].doing = doing, ![c].post = post,
                     ![c].attempt = 0]

WithSlug(s) == {p \in DOMAIN posts : posts[p].slug = s}
Published(s) == {p \in WithSlug(s) : posts[p].published}

\* testConnection and listPosts read; upsertPost and upsertPage look the slug up
\* first; updatePost has the id.
StartRequest(c) ==
  /\ ~Busy(c)
  /\ req[c].n < MaxRequests[c]
  /\ \E s \in Slugs, op \in {"read", "upsert", "update"}, p \in {NoPost} \cup DOMAIN posts,
        sent \in Statuses :
       /\ IF op = "update" THEN p \in WithSlug(s) ELSE p = NoPost
       /\ IF op = "read" THEN sent = "unset" ELSE sent \in Sends[c]
       /\ req' = [req EXCEPT ![c] = [NoReq EXCEPT
                    !.pc = "send", !.n = req[c].n + 1, !.op = op, !.slug = s, !.sent = sent,
                    !.doing = IF op = "update" THEN "update" ELSE "find",
                    !.post = p]]
  /\ UNCHANGED <<posts, wire, refused, lost>>

\* What fetch() sends in the current attempt.
Message(c) == [from |-> c, n |-> req[c].n, doing |-> req[c].doing,
               slug |-> req[c].slug, sent |-> req[c].sent, post |-> req[c].post,
               attempt |-> req[c].attempt]

Send(c) ==
  /\ req[c].pc = "send"
  /\ wire' = wire \cup {Message(c)}
  /\ req' = [req EXCEPT ![c].pc = "wait"]
  /\ UNCHANGED <<posts, refused, lost>>

--------------------------------------------------------------------------------
(* Errors and retries *)

Again(c) == req' = [req EXCEPT ![c].pc = "send", ![c].attempt = @ + 1,
                               ![c].status = "none"]

\* Mutant: one attempt too many.
CaughtLate(c) == IF req[c].attempt <= MaxRetries THEN Again(c) ELSE Answer(c, "error")

\* The catch block of request(), but for timeouts: another attempt after a delay,
\* or the 503.
Caught(c) == IF req[c].attempt < MaxRetries THEN Again(c) ELSE Answer(c, "error")

\* Statuses are classed: "transient" for 429 and 5xx, "final" for other errors.
ShouldRetry(status) == status = "transient"

\* Mutant: an error that is not retried is taken for an answer.
ErrorIgnored(c) ==
  /\ req[c].pc = "refused"
  /\ IF ShouldRetry(req[c].status) /\ req[c].attempt < MaxRetries
     THEN Again(c) ELSE Answer(c, "ok")
  /\ UNCHANGED <<posts, wire, refused, lost>>

\* The exception for a status that is not retried is thrown in the try block: its
\* catch block is next.
ReadError(c) ==
  /\ req[c].pc = "refused"
  /\ IF ShouldRetry(req[c].status) /\ req[c].attempt < MaxRetries
     THEN Again(c) ELSE Caught(c)
  /\ UNCHANGED <<posts, wire, refused, lost>>

\* A lookup the client has given up has no effect, and is forgotten.
GiveUp(c) ==
  /\ wire' = wire \ {m \in wire : m.from = c /\ m.doing = "find"}
  /\ lost' = lost + 1
  /\ UNCHANGED <<posts, refused>>

\* fetch() throws: the connection broke, before or after the site's work.
NetworkError(c) ==
  /\ req[c].pc = "wait"
  /\ lost < MaxLost
  /\ Caught(c)
  /\ GiveUp(c)

\* Mutant: a timeout is retried, and the attempt not counted.
RetryTimeout(c) ==
  /\ req[c].pc = "wait"
  /\ req' = [req EXCEPT ![c].pc = "send"]
  /\ UNCHANGED <<posts, wire, refused, lost>>

\* The abort timer fires: 504 without another attempt.
Timeout(c) ==
  /\ req[c].pc = "wait"
  /\ Answer(c, "error")
  /\ GiveUp(c)

--------------------------------------------------------------------------------
(* Answers *)

\* Mutant: the lookup of upsert is ignored.
CreateAlways(c) ==
  /\ req[c].pc = "response"
  /\ IF req[c].doing = "find" /\ req[c].op = "upsert"
     THEN Call(c, "create", NoPost) ELSE Answer(c, "ok")
  /\ UNCHANGED <<posts, wire, refused, lost>>

\* response.json(), and what upsertPost and upsertPage make of what they found.
ReadResponse(c) ==
  /\ req[c].pc = "response"
  /\ IF req[c].doing = "find" /\ req[c].op = "upsert"
     THEN Call(c, IF req[c].post = NoPost THEN "create" ELSE "update", req[c].post)
     ELSE Answer(c, "ok")
  /\ UNCHANGED <<posts, wire, refused, lost>>

\* The body breaks off or is not JSON: outside request(), so not retried.
BodyFails(c) ==
  /\ req[c].pc = "response"
  /\ Answer(c, "error")
  /\ UNCHANGED <<posts, wire, refused, lost>>

--------------------------------------------------------------------------------
(* The site and the network *)

\* The client waits for the answer to m.
Heard(m) == req[m.from].pc = "wait" /\ Message(m.from) = m

Writer(m) == <<m.from, m.n>>

\* A post created without a status is a draft; an update without one leaves it.
PublishedBy(m) ==
  IF m.doing = "update" /\ m.sent = "unset" THEN posts[m.post].published ELSE m.sent = "publish"

Written(m) ==
  IF m.doing = "update"
  THEN [posts[m.post] EXCEPT !.published = PublishedBy(m), !.hidden = @ \/ ~PublishedBy(m),
                             !.by = @ \cup {Writer(m)}]
  ELSE [slug |-> m.slug, published |-> PublishedBy(m), hidden |-> ~PublishedBy(m),
        by |-> {Writer(m)}]

Work(m) ==
  \/ m.doing = "find" /\ UNCHANGED posts
  \/ m.doing = "update" /\ posts' = [posts EXCEPT ![m.post] = Written(m)]
  \/ m.doing = "create" /\ Len(posts) < MaxPosts /\ posts' = Append(posts, Written(m))

\* The post a lookup answers with: the query names a slug and per_page 1 but no
\* status, so that the site looks at published posts only.
Found(m) ==
  IF m.doing # "find" THEN {m.post}
  ELSE IF Published(m.slug) = {} THEN {NoPost} ELSE Published(m.slug)

\* The site processes a call, maybe long after the client gave it up and maybe
\* never, and the answer arrives or does not.
Process(m) ==
  /\ wire' = wire \ {m}
  /\ Work(m)
  /\ \/ /\ Heard(m)
        /\ \E p \in Found(m) : req' = [req EXCEPT ![m.from].pc = "response",
                                                 ![m.from].post = p]
     \/ UNCHANGED req
  /\ UNCHANGED <<refused, lost>>

Refusal(m, status) ==
  req' = [req EXCEPT ![m.from].pc = "refused", ![m.from].status = status]

\* The site answers with an error and does nothing.
Refuse(m) ==
  /\ refused < MaxRefused
  /\ refused' = refused + 1
  /\ Heard(m)
  /\ \E status \in {"transient", "final"} : Refusal(m, status)
  /\ wire' = wire \ {m}
  /\ UNCHANGED <<posts, lost>>

\* The site does its work, and a proxy in front of it answers 502 or 504.
ProcessAndRefuse(m) ==
  /\ lost < MaxLost
  /\ lost' = lost + 1
  /\ Heard(m)
  /\ Work(m)
  /\ Refusal(m, "transient")
  /\ wire' = wire \ {m}
  /\ UNCHANGED refused

--------------------------------------------------------------------------------
(* Specification *)

Init ==
  /\ posts = <<>>
  /\ wire = {}
  /\ req = [c \in Callers |-> NoReq]
  /\ refused = 0
  /\ lost = 0

\* The steps of request().
AttemptStep(c) == Send(c) \/ ReadError(c) \/ Timeout(c)

Next ==
  \/ \E c \in Callers :
       \/ StartRequest(c) \/ AttemptStep(c) \/ NetworkError(c)
       \/ ReadResponse(c) \/ BodyFails(c)
  \/ \E m \in wire : Process(m) \/ Refuse(m) \/ ProcessAndRefuse(m)

Spec == Init /\ [][Next]_vars

\* Node runs continuations and timers.  Nothing is assumed of the site or of the
\* network.
Fairness == \A c \in Callers : WF_vars(AttemptStep(c))

FairSpec == Spec /\ Fairness

--------------------------------------------------------------------------------
(* Properties *)

\* The values of the variables; a call makes at most MaxRetries + 1 attempts.
TypeOK ==
  /\ \A p \in DOMAIN posts :
       /\ posts[p].slug \in Slugs
       /\ posts[p].hidden \/ posts[p].published
       /\ \A w \in posts[p].by : w[1] \in Callers /\ w[2] \in 1 .. req[w[1]].n
  /\ req \in [Callers ->
       [pc : AnswerPcs \cup {"send", "wait", "refused", "response"},
        n : Nat, op : {"read", "upsert", "update"},
        slug : Slugs \cup {NoSlug}, sent : Statuses, doing : {"find", "update", "create"},
        post : 0 .. MaxPosts, attempt : 0 .. MaxRetries,
        status : {"none", "transient", "final"}]]
  /\ \A m \in wire : m.from \in Callers /\ m.doing = "update" => m.post \in DOMAIN posts
  /\ refused \in 0 .. MaxRefused
  /\ lost \in Nat

\* A write that was answered with success has reached a post of its slug, through
\* whatever retries, timeouts and late answers to earlier attempts.
OkMeansWritten ==
  \A c \in Callers :
    req[c].pc = "ok" /\ req[c].op # "read" =>
      \E p \in WithSlug(req[c].slug) : <<c, req[c].n>> \in posts[p].by

\* Upserts of a slug whose posts were published from the first leave more than one
\* only by racing, and by each answer that was lost: never more posts than callers
\* and lost answers.  A post that is not published is not found: each upsert of it
\* creates another, and nothing bounds them.
DuplicatesBounded ==
  \A s \in Slugs :
    (\A p \in WithSlug(s) : ~posts[p].hidden) =>
      Cardinality(WithSlug(s)) <= Cardinality(Callers) + lost

\* README.md: upserts are idempotent operations by slug.
OnePostPerSlug == \A s \in Slugs : Cardinality(WithSlug(s)) <= 1

\* A call of request() returns or throws, whatever the site and the network do.
AttemptsEnd ==
  \A c \in Callers : req[c].pc \in {"send", "wait", "refused"}
                       ~> req[c].pc \notin {"send", "wait", "refused"}
================================================================================

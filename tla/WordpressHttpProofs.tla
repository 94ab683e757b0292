-------------------------- MODULE WordpressHttpProofs --------------------------
(***************************************************************************)
(* Proofs about WordpressHttp: its type invariant, that a write which is   *)
(* answered with success has reached a post of its slug, and how many      *)
(* posts of one slug there can be.                                         *)
(***************************************************************************)
EXTENDS WordpressHttp, SequenceTheorems, FiniteSetTheorems, TLAPS

Doings == {"find", "update", "create"}
PostRecords ==
  {p \in [slug : Slugs, published : BOOLEAN, hidden : BOOLEAN, by : SUBSET (Callers \X Nat)] :
     p.hidden \/ p.published}
RequestRecords ==
  [pc : AnswerPcs \cup {"send", "wait", "refused", "response"},
   n : Nat, op : {"read", "upsert", "update"}, slug : Slugs \cup {NoSlug}, sent : Statuses,
   doing : Doings, post : 0 .. MaxPosts, attempt : 0 .. MaxRetries, status : {"none", "transient", "final"}]
Messages == [from : Callers, n : Nat, doing : Doings, slug : Slugs \cup {NoSlug},
             sent : Statuses, post : 0 .. MaxPosts, attempt : 0 .. MaxRetries]

\* The n-th request of c has written a post of slug s.
Wrote(c, n, s) == \E p \in WithSlug(s) : <<c, n>> \in posts[p].by

\* What a request is about, and what it has done, at each of its steps.
Stage(c) ==
  LET r == req[c] IN
  /\ r.pc = "ok" /\ r.op # "read" => Wrote(c, r.n, r.slug)
  /\ Busy(c) =>
       /\ r.slug \in Slugs /\ r.n >= 1
       /\ r.op = "update" => r.doing = "update"
       /\ r.op = "read" => r.doing = "find"
       /\ r.doing = "update" => r.post \in WithSlug(r.slug)
       /\ r.pc = "response" /\ r.doing = "find" => r.post \in {NoPost} \cup WithSlug(r.slug)
       /\ r.pc = "response" /\ r.doing # "find" => Wrote(c, r.n, r.slug)

\* A call on its way is that of a request that was made.
CallOK(m) ==
  /\ m \in Messages /\ m.slug \in Slugs /\ m.n \in 1 .. req[m.from].n
  /\ m.doing = "update" => m.post \in WithSlug(m.slug)

PostsOK == posts \in Seq(PostRecords) /\ Len(posts) <= MaxPosts
WritersOK == \A p \in DOMAIN posts : \A w \in posts[p].by : w[2] \in 1 .. req[w[1]].n

IInv ==
  /\ PostsOK /\ WritersOK
  /\ req \in [Callers -> RequestRecords]
  /\ \A c \in Callers : Stage(c)
  /\ \A m \in wire : CallOK(m)
  /\ refused \in 0 .. MaxRefused /\ lost \in Nat

--------------------------------------------------------------------------------
(* The site *)

\* Posts are never removed, nor their slugs changed, or their writers forgotten, or
\* that they were hidden.
Grown ==
  /\ DOMAIN posts \subseteq DOMAIN posts'
  /\ \A p \in DOMAIN posts : posts'[p].slug = posts[p].slug /\ posts[p].by \subseteq posts'[p].by
  /\ \A p \in DOMAIN posts : posts[p].hidden => posts'[p].hidden

\* The site's posts are numbered from 1 and are records of posts.
LEMMA PostsDomain ==
  ASSUME PostsOK
  PROVE  /\ DOMAIN posts = 1 .. Len(posts) /\ Len(posts) \in 0 .. MaxPosts
         /\ \A p \in DOMAIN posts : posts[p] \in PostRecords
BY LenProperties, ElementOfSeq, HttpAssumption DEF PostsOK

\* Posts that are only added to, or written again, keep their slugs and writers.
LEMMA GrownKeeps ==
  ASSUME Grown
  PROVE  /\ \A s : WithSlug(s) \subseteq WithSlug(s)'
         /\ \A c, n, s : Wrote(c, n, s) => Wrote(c, n, s)'
BY DEF Grown, WithSlug, Wrote

\* An update leaves the post its slug, its earlier writers and its history.
LEMMA UpdatedPost ==
  ASSUME IInv, NEW m \in wire, m.doing = "update"
  PROVE  /\ Written(m) \in PostRecords /\ Written(m).slug = posts[m.post].slug
         /\ Written(m).by = posts[m.post].by \cup {Writer(m)}
         /\ posts[m.post].hidden => Written(m).hidden
<1>1. m \in Messages /\ Writer(m) \in Callers \X Nat /\ posts[m.post] \in PostRecords
  BY PostsDomain DEF IInv, CallOK, Messages, Writer, WithSlug
<1>2. PICK shown : shown = PublishedBy(m)
  OBVIOUS
<1>3. shown \in BOOLEAN
  BY <1>1, <1>2 DEF PublishedBy, PostRecords
<1>4. Written(m) = [posts[m.post] EXCEPT !.published = shown, !.hidden = @ \/ ~shown,
                                        !.by = @ \cup {Writer(m)}]
  BY <1>2 DEF Written
<1>5. PICK h : h = (posts[m.post].hidden \/ ~shown)
  OBVIOUS
<1>6. PICK b : b = posts[m.post].by \cup {Writer(m)}
  OBVIOUS
<1>7. Written(m) = [posts[m.post] EXCEPT !.published = shown, !.hidden = h, !.by = b]
  BY <1>4, <1>5, <1>6
<1>8. h \in BOOLEAN /\ (h \/ shown) /\ b \in SUBSET (Callers \X Nat)
  BY <1>1, <1>3, <1>5, <1>6 DEF PostRecords
<1> QED
  BY <1>1, <1>3, <1>5, <1>6, <1>7, <1>8 DEF PostRecords

\* A post that is created has the slug and the writer of its call.
LEMMA NewPost ==
  ASSUME IInv, NEW m \in wire, m.doing = "create"
  PROVE  /\ Written(m) \in PostRecords /\ Written(m).slug = m.slug
         /\ Written(m).by = {Writer(m)}
<1>1. m \in Messages /\ m.slug \in Slugs /\ Writer(m) \in Callers \X Nat
  BY DEF IInv, CallOK, Messages, Writer
<1>2. PICK shown : shown = PublishedBy(m)
  OBVIOUS
<1>3. shown \in BOOLEAN
  BY <1>2 DEF PublishedBy
<1>4. Written(m) = [slug |-> m.slug, published |-> shown, hidden |-> ~shown, by |-> {Writer(m)}]
  BY <1>2 DEF Written
<1>5. PICK h : h = ~shown
  OBVIOUS
<1>6. PICK b : b = {Writer(m)}
  OBVIOUS
<1>7. Written(m) = [slug |-> m.slug, published |-> shown, hidden |-> h, by |-> b]
  BY <1>4, <1>5, <1>6
<1>8. h \in BOOLEAN /\ (h \/ shown) /\ b \in SUBSET (Callers \X Nat)
  BY <1>1, <1>3, <1>5, <1>6
<1> QED
  BY <1>1, <1>3, <1>6, <1>7, <1>8 DEF PostRecords

\* What the work of a call does to the posts.
LEMMA WorkDone ==
  ASSUME IInv, NEW m \in wire, Work(m)
  PROVE  /\ PostsOK' /\ Grown
         /\ \A p \in DOMAIN posts' : \A w \in posts'[p].by :
              (p \in DOMAIN posts /\ w \in posts[p].by) \/ w = Writer(m)
         /\ m.doing # "find" => Wrote(m.from, m.n, m.slug)'
<1> USE DEF IInv
<1>1. /\ m \in Messages /\ m.slug \in Slugs /\ Writer(m) \in Callers \X Nat
      /\ m.doing = "update" => m.post \in WithSlug(m.slug)
  BY DEF CallOK, Messages, Writer
<1>2. CASE m.doing = "find" /\ UNCHANGED posts
  BY <1>2 DEF PostsOK, Grown
<1>3. CASE m.doing = "update" /\ posts' = [posts EXCEPT ![m.post] = Written(m)]
  <2>1. m.post \in 1 .. Len(posts) /\ posts[m.post].slug = m.slug
    BY <1>1, <1>3, PostsDomain DEF WithSlug
  <2>2. PICK e : e = Written(m)
    OBVIOUS
  <2>3. /\ e \in PostRecords /\ e.slug = m.slug /\ e.by = posts[m.post].by \cup {Writer(m)}
        /\ posts[m.post].hidden => e.hidden
    BY <1>3, <2>1, <2>2, UpdatedPost
  <2>4. posts' = [posts EXCEPT ![m.post] = e]
    BY <1>3, <2>2
  <2>5. /\ posts' \in Seq(PostRecords) /\ Len(posts') = Len(posts)
        /\ \A j \in 1 .. Len(posts) : posts'[j] = IF j = m.post THEN e ELSE posts[j]
    BY <2>1, <2>3, <2>4, ExceptSeq DEF PostsOK
  <2>6. PostsOK' /\ DOMAIN posts' = DOMAIN posts
    BY <2>5, LenProperties, PostsDomain DEF PostsOK
  <2>7. m.post \in DOMAIN posts' /\ posts'[m.post] = e
    BY <2>1, <2>5, <2>6, PostsDomain
  <2> QED
    BY <2>1, <2>3, <2>5, <2>6, <2>7, PostsDomain DEF Grown, Wrote, WithSlug, Writer
<1>4. CASE m.doing = "create" /\ Len(posts) < MaxPosts /\ posts' = Append(posts, Written(m))
  <2>1. PICK e : e = Written(m)
    OBVIOUS
  <2>2. e \in PostRecords /\ e.slug = m.slug /\ e.by = {Writer(m)}
    BY <1>4, <2>1, NewPost
  <2>3. posts' = Append(posts, e) /\ posts \in Seq(PostRecords)
    BY <1>4, <2>1 DEF PostsOK
  <2>4. /\ posts' \in Seq(PostRecords) /\ Len(posts') = Len(posts) + 1
        /\ posts'[Len(posts) + 1] = e
        /\ \A j \in 1 .. Len(posts) : posts'[j] = posts[j]
    BY <2>2, <2>3, PostsDomain
  <2>5. PostsOK' /\ DOMAIN posts' = 1 .. Len(posts) + 1
    BY <1>4, <2>4, LenProperties, PostsDomain, HttpAssumption DEF PostsOK
  <2> QED
    BY <2>2, <2>4, <2>5, PostsDomain DEF Grown, Wrote, WithSlug, Writer
<1> QED
  BY <1>2, <1>3, <1>4 DEF Work

--------------------------------------------------------------------------------
(* Requests *)

\* The fields of a request have their types.
LEMMA Fields ==
  ASSUME IInv, NEW c \in Callers
  PROVE  /\ req[c].n \in Nat /\ req[c].op \in {"read", "upsert", "update"}
         /\ req[c].slug \in Slugs \cup {NoSlug} /\ req[c].doing \in Doings
         /\ req[c].sent \in Statuses /\ req[c].post \in 0 .. MaxPosts /\ req[c].attempt \in 0 .. MaxRetries
         /\ MaxRetries \in Nat /\ MaxPosts \in Nat
BY HttpAssumption DEF IInv, RequestRecords

\* No request is a request's record.
LEMMA NoReqOK == NoReq \in RequestRecords
BY HttpAssumption DEF NoReq, RequestRecords, AnswerPcs, NoPost, Doings, Statuses

\* A step moves one request, adds calls of requests that were made, and lets the
\* posts grow by what such a request has written.
LEMMA Moves ==
  ASSUME IInv, NEW c \in Callers,
         req' \in [Callers -> RequestRecords], \A k \in Callers \ {c} : req'[k] = req[k],
         req'[c].n >= req[c].n, Stage(c)',
         PostsOK', Grown,
         \A p \in DOMAIN posts' : \A w \in posts'[p].by :
           (p \in DOMAIN posts /\ w \in posts[p].by) \/ w[2] \in 1 .. req[w[1]].n,
         \A m \in wire' : m \in wire \/ CallOK(m)',
         refused' \in 0 .. MaxRefused, lost' \in Nat
  PROVE  IInv'
<1> USE DEF IInv
<1>1. \A k \in Callers : req[k].n \in Nat /\ req'[k].n \in Nat /\ req'[k].n >= req[k].n
  BY DEF RequestRecords
<1>2. WritersOK'
  <2>1. ASSUME NEW p \in DOMAIN posts', NEW w \in posts'[p].by PROVE w[2] \in 1 .. req'[w[1]].n
    <3>1. w[2] \in 1 .. req[w[1]].n
      BY DEF WritersOK
    <3>2. posts' \in Seq(PostRecords) /\ p \in 1 .. Len(posts')
      BY LenProperties DEF PostsOK
    <3>3. posts'[p] \in PostRecords
      BY <3>2, ElementOfSeq
    <3>4. w[1] \in Callers
      BY <3>3 DEF PostRecords
    <3> QED
      BY <1>1, <3>1, <3>4
  <2> QED
    BY <2>1 DEF WritersOK
<1>3. \A k \in Callers : Stage(k)'
  BY GrownKeeps DEF Stage, Busy
<1>4. ASSUME NEW m \in wire PROVE CallOK(m)'
  BY <1>1, <1>4, GrownKeeps DEF CallOK, Messages
<1> QED
  BY <1>2, <1>3, <1>4

\* The same where neither posts nor calls are added.
LEMMA RequestMoves ==
  ASSUME IInv, NEW c \in Callers, UNCHANGED posts, wire' \subseteq wire,
         req' \in [Callers -> RequestRecords], \A k \in Callers \ {c} : req'[k] = req[k],
         req'[c].n >= req[c].n, Stage(c)',
         refused' \in 0 .. MaxRefused, lost' \in Nat
  PROVE  IInv'
<1>1. PostsOK' /\ Grown
  BY DEF IInv, PostsOK, Grown
<1>2. \A p \in DOMAIN posts' : \A w \in posts'[p].by : p \in DOMAIN posts /\ w \in posts[p].by
  OBVIOUS
<1> QED
  BY <1>1, <1>2, Moves

\* An answer of success to a write needs that the write has reached its post.
LEMMA AnswerReq ==
  ASSUME IInv, NEW c \in Callers, NEW pc \in {"ok", "error"}, Answer(c, pc), UNCHANGED posts,
         pc = "ok" /\ req[c].op # "read" => Wrote(c, req[c].n, req[c].slug)
  PROVE  /\ req' \in [Callers -> RequestRecords]
         /\ \A k \in Callers \ {c} : req'[k] = req[k]
         /\ req'[c].n >= req[c].n /\ Stage(c)'
<1>1. PICK q : q = [NoReq EXCEPT !.pc = pc, !.n = req[c].n, !.op = req[c].op, !.slug = req[c].slug]
  OBVIOUS
<1>2. /\ q \in RequestRecords /\ q.pc = pc /\ q.n = req[c].n /\ q.op = req[c].op
      /\ q.slug = req[c].slug /\ q.n \in Nat
  <2>1. /\ pc \in AnswerPcs /\ req[c].n \in Nat /\ req[c].op \in {"read", "upsert", "update"}
        /\ req[c].slug \in Slugs \cup {NoSlug}
    BY Fields DEF AnswerPcs
  <2>2. q \in RequestRecords
    BY <1>1, <2>1, NoReqOK DEF RequestRecords
  <2>3. q.pc = pc /\ q.n = req[c].n /\ q.op = req[c].op /\ q.slug = req[c].slug
    BY <1>1 DEF NoReq
  <2> QED
    BY <2>1, <2>2, <2>3
<1>3. req' = [req EXCEPT ![c] = q]
  BY <1>1 DEF Answer
<1>4. req'[c] = q /\ req' \in [Callers -> RequestRecords] /\ \A k \in Callers \ {c} : req'[k] = req[k]
  BY <1>2, <1>3 DEF IInv
<1>5. Stage(c)'
  BY <1>2, <1>4 DEF Stage, Busy, AnswerPcs, Wrote, WithSlug
<1> QED
  BY <1>2, <1>4, <1>5

\* Another attempt, or giving up: in either case the same call, to the same end.
LEMMA CaughtReq ==
  ASSUME IInv, NEW c \in Callers, UNCHANGED posts, Busy(c),
         (Again(c) /\ req[c].attempt < MaxRetries) \/ Answer(c, "error")
  PROVE  /\ req' \in [Callers -> RequestRecords]
         /\ \A k \in Callers \ {c} : req'[k] = req[k]
         /\ req'[c].n >= req[c].n /\ Stage(c)'
<1>1. CASE Answer(c, "error")
  BY <1>1, AnswerReq
<1>2. CASE Again(c) /\ req[c].attempt < MaxRetries
  <2> DEFINE next == req[c].attempt + 1
  <2>1. PICK q : q = [req[c] EXCEPT !.pc = "send", !.attempt = next, !.status = "none"]
    OBVIOUS
  <2>2. /\ q \in RequestRecords /\ q.pc = "send" /\ q.n = req[c].n /\ q.op = req[c].op
        /\ q.slug = req[c].slug /\ q.doing = req[c].doing /\ q.post = req[c].post /\ q.n \in Nat
    <3>1. req[c] \in RequestRecords /\ next \in 0 .. MaxRetries
      BY <1>2, Fields DEF IInv
    <3> HIDE DEF next
    <3>2. q \in RequestRecords
      BY <2>1, <3>1 DEF RequestRecords
    <3> QED
      BY <2>1, <3>1, <3>2 DEF RequestRecords
  <2>3. req' = [req EXCEPT ![c] = q]
    BY <1>2, <2>1 DEF Again, IInv
  <2>4. /\ req'[c] = q /\ req' \in [Callers -> RequestRecords]
        /\ \A k \in Callers \ {c} : req'[k] = req[k]
    BY <2>2, <2>3 DEF IInv
  <2>5. Stage(c)'
    BY <2>2, <2>4 DEF IInv, Stage, Busy, AnswerPcs, WithSlug
  <2> QED
    BY <2>2, <2>4, <2>5
<1> QED
  BY <1>1, <1>2

--------------------------------------------------------------------------------
(* The steps *)

\* A new request is at its first step, with a number of its own.
LEMMA StartStep ==
  ASSUME IInv, NEW c \in Callers, StartRequest(c) PROVE IInv'
<1> USE DEF IInv
<1>1. PICK s \in Slugs, op \in {"read", "upsert", "update"}, p \in {NoPost} \cup DOMAIN posts,
           sent \in Statuses :
        /\ IF op = "update" THEN p \in WithSlug(s) ELSE p = NoPost
        /\ req' = [req EXCEPT ![c] = [NoReq EXCEPT
                     !.pc = "send", !.n = req[c].n + 1, !.op = op, !.slug = s, !.sent = sent,
                     !.doing = IF op = "update" THEN "update" ELSE "find", !.post = p]]
  BY DEF StartRequest
<1>2. PICK q : q = [NoReq EXCEPT
                     !.pc = "send", !.n = req[c].n + 1, !.op = op, !.slug = s, !.sent = sent,
                     !.doing = IF op = "update" THEN "update" ELSE "find", !.post = p]
  OBVIOUS
<1>3. req[c].n \in Nat /\ p \in 0 .. MaxPosts
  BY PostsDomain, HttpAssumption DEF RequestRecords, NoPost
<1>4. /\ q \in RequestRecords /\ q.pc = "send" /\ q.n = req[c].n + 1 /\ q.op = op
      /\ q.slug = s /\ q.post = p
      /\ q.doing = IF op = "update" THEN "update" ELSE "find"
  <2> DEFINE next == req[c].n + 1
             doing == IF op = "update" THEN "update" ELSE "find"
  <2>1. next \in Nat /\ doing \in Doings
    BY <1>3 DEF Doings
  <2>2. q = [NoReq EXCEPT !.pc = "send", !.n = next, !.op = op, !.slug = s, !.sent = sent,
                          !.doing = doing, !.post = p]
    BY <1>2
  <2> HIDE DEF next, doing
  <2>3. q \in RequestRecords
    BY <1>3, <2>1, <2>2, NoReqOK DEF RequestRecords
  <2>4. q.pc = "send" /\ q.n = next /\ q.op = op /\ q.slug = s /\ q.post = p /\ q.doing = doing
    BY <2>2 DEF NoReq
  <2> QED
    BY <2>3, <2>4 DEF next, doing
<1>5. /\ req'[c] = q /\ req' \in [Callers -> RequestRecords]
      /\ \A k \in Callers \ {c} : req'[k] = req[k]
      /\ UNCHANGED <<posts, wire, refused, lost>>
  BY <1>1, <1>2, <1>4 DEF StartRequest
<1>6. Stage(c)'
  BY <1>1, <1>3, <1>4, <1>5 DEF Stage, Busy, AnswerPcs, WithSlug
<1> QED
  BY <1>3, <1>4, <1>5, <1>6, RequestMoves

\* Sending puts a call of this request on the wire.
LEMMA SendStep ==
  ASSUME IInv, NEW c \in Callers, Send(c) PROVE IInv'
<1> USE DEF IInv
<1>1. /\ req[c] \in RequestRecords /\ req[c].pc = "send" /\ Busy(c)
      /\ UNCHANGED <<posts, refused, lost>> /\ wire' = wire \cup {Message(c)}
  BY DEF Send, Busy, AnswerPcs
<1>2. /\ req' \in [Callers -> RequestRecords] /\ req'[c] = [req[c] EXCEPT !.pc = "wait"]
      /\ \A k \in Callers \ {c} : req'[k] = req[k]
  BY <1>1 DEF Send, RequestRecords
<1>3. Stage(c)'
  BY <1>1, <1>2 DEF Stage, Busy, AnswerPcs, RequestRecords, WithSlug
<1>4. PostsOK' /\ Grown /\ req'[c].n = req[c].n /\ req[c].n \in Nat
  BY <1>1, <1>2 DEF PostsOK, Grown, RequestRecords
<1>5. CallOK(Message(c))'
  BY <1>1, <1>2, <1>4 DEF CallOK, Message, Messages, RequestRecords, Stage, WithSlug
<1>6. \A p \in DOMAIN posts' : \A w \in posts'[p].by : p \in DOMAIN posts /\ w \in posts[p].by
  BY <1>1
<1>7. \A m \in wire' : m \in wire \/ CallOK(m)'
  BY <1>1, <1>2, <1>5 DEF Message
<1>8. refused' \in 0 .. MaxRefused /\ lost' \in Nat /\ req'[c].n >= req[c].n
  BY <1>1, <1>4
<1>9. IInv
  OBVIOUS
<1> QED
  BY <1>2, <1>3, <1>4, <1>6, <1>7, <1>8, <1>9, Moves DEF PostsOK, Grown

\* An error status is heard of by the request alone.
LEMMA ReadErrorStep ==
  ASSUME IInv, NEW c \in Callers, ReadError(c) PROVE IInv'
<1>1. /\ Busy(c) /\ UNCHANGED <<posts, wire, refused, lost>>
      /\ (Again(c) /\ req[c].attempt < MaxRetries) \/ Answer(c, "error")
  BY DEF ReadError, Caught, Busy, AnswerPcs
<1> QED
  BY <1>1, CaughtReq, RequestMoves DEF IInv

\* An attempt that is given up is followed by another, or by an error.
LEMMA GiveUpStep ==
  ASSUME IInv, NEW c \in Callers, NetworkError(c) \/ Timeout(c) PROVE IInv'
<1>1. /\ Busy(c) /\ UNCHANGED <<posts, refused>> /\ wire' \subseteq wire /\ lost' \in Nat
      /\ (Again(c) /\ req[c].attempt < MaxRetries) \/ Answer(c, "error")
  BY DEF IInv, NetworkError, Timeout, GiveUp, Caught, Busy, AnswerPcs
<1> QED
  BY <1>1, CaughtReq, RequestMoves DEF IInv

\* A response to a write is of a call that has written; one to a lookup is not.
LEMMA ResponseStep ==
  ASSUME IInv, NEW c \in Callers, ReadResponse(c) \/ BodyFails(c) PROVE IInv'
<1> USE DEF IInv
<1>1. /\ req[c] \in RequestRecords /\ req[c].pc = "response" /\ Busy(c) /\ Stage(c)
      /\ UNCHANGED <<posts, wire, refused, lost>>
  BY DEF ReadResponse, BodyFails, Busy, AnswerPcs
<1>2. CASE Answer(c, "error")
  BY <1>1, <1>2, AnswerReq, RequestMoves
<1>3. CASE Answer(c, "ok") /\ ~(req[c].doing = "find" /\ req[c].op = "upsert")
  <2>1. req[c].op # "read" => Wrote(c, req[c].n, req[c].slug)
    BY <1>1, <1>3 DEF Stage, RequestRecords
  <2> QED
    BY <1>1, <1>3, <2>1, AnswerReq, RequestMoves
<1>4. ASSUME NEW doing \in {"create", "update"}, Call(c, doing, req[c].post),
             req[c].doing = "find", req[c].op = "upsert",
             doing = "update" => req[c].post # NoPost
      PROVE  IInv'
  <2>1. PICK q : q = [req[c] EXCEPT !.pc = "send", !.doing = doing, !.post = req[c].post,
                                    !.attempt = 0]
    OBVIOUS
  <2>2. /\ q \in RequestRecords /\ q.pc = "send" /\ q.n = req[c].n /\ q.op = "upsert"
        /\ q.slug = req[c].slug /\ q.doing = doing /\ q.post = req[c].post /\ q.n \in Nat
    <3>1. doing \in Doings /\ req[c].post \in 0 .. MaxPosts /\ 0 \in 0 .. MaxRetries
      BY <1>4, Fields DEF Doings
    <3>2. q \in RequestRecords
      BY <1>1, <2>1, <3>1 DEF RequestRecords
    <3> QED
      BY <1>1, <1>4, <2>1, <3>2 DEF RequestRecords
  <2>3. req' = [req EXCEPT ![c] = q]
    BY <1>4, <2>1 DEF Call
  <2>4. /\ req'[c] = q /\ req' \in [Callers -> RequestRecords]
        /\ \A k \in Callers \ {c} : req'[k] = req[k]
    BY <2>2, <2>3
  <2>5. Stage(c)'
    BY <1>1, <1>4, <2>2, <2>4 DEF Stage, Busy, AnswerPcs, WithSlug
  <2> QED
    BY <1>1, <2>2, <2>4, <2>5, RequestMoves
<1> QED
  BY <1>2, <1>3, <1>4 DEF ReadResponse, BodyFails

\* The answer to a call reaches the client that waits for it, or an error does.
LEMMA SiteStep ==
  ASSUME IInv, NEW m \in wire, Process(m) \/ Refuse(m) \/ ProcessAndRefuse(m) PROVE IInv'
<1> USE DEF IInv
<1> DEFINE c == m.from
<1>1. /\ CallOK(m) /\ c \in Callers /\ req[c] \in RequestRecords
      /\ Writer(m)[1] = c /\ Writer(m)[2] \in 1 .. req[c].n
  BY DEF CallOK, Messages, Writer
<1>2. /\ wire' \subseteq wire /\ refused' \in 0 .. MaxRefused /\ lost' \in Nat
  BY HttpAssumption DEF Process, Refuse, ProcessAndRefuse
<1>3. /\ PostsOK' /\ Grown
      /\ \A p \in DOMAIN posts' : \A w \in posts'[p].by :
           (p \in DOMAIN posts /\ w \in posts[p].by) \/ w[2] \in 1 .. req[w[1]].n
  <2>1. CASE Work(m)
    BY <1>1, <2>1, WorkDone
  <2>2. CASE UNCHANGED posts
    BY <2>2 DEF PostsOK, Grown
  <2> QED
    BY <2>1, <2>2 DEF Process, Refuse, ProcessAndRefuse
<1>4. CASE UNCHANGED req
  <2>1. Stage(c)'
    BY <1>1, <1>3, <1>4, GrownKeeps DEF Stage, Busy
  <2>2. req'[m.from].n >= req[m.from].n
    BY <1>1, <1>4 DEF RequestRecords
  <2> QED
    BY <1>1, <1>2, <1>3, <1>4, <2>1, <2>2, Moves
<1>5. ASSUME NEW status \in {"transient", "final"}, Refusal(m, status), Heard(m) PROVE IInv'
  <2>1. PICK q : q = [req[c] EXCEPT !.pc = "refused", !.status = status]
    OBVIOUS
  <2>2. /\ q \in RequestRecords /\ q.pc = "refused" /\ q.n = req[c].n /\ q.op = req[c].op
        /\ q.slug = req[c].slug /\ q.doing = req[c].doing /\ q.post = req[c].post /\ q.n \in Nat
    BY <1>1, <2>1 DEF RequestRecords
  <2>3. /\ req'[c] = q /\ req' \in [Callers -> RequestRecords]
        /\ \A k \in Callers \ {c} : req'[k] = req[k]
    BY <1>1, <1>5, <2>1, <2>2 DEF Refusal
  <2>4. Stage(c)'
    BY <1>1, <1>3, <1>5, <2>2, <2>3, GrownKeeps DEF Heard, Stage, Busy, AnswerPcs
  <2> QED
    BY <1>1, <1>2, <1>3, <2>2, <2>3, <2>4, Moves
<1>6. ASSUME NEW p \in Found(m), Work(m), Heard(m),
             req' = [req EXCEPT ![m.from].pc = "response", ![m.from].post = p]
      PROVE  IInv'
  <2>1. PICK q : q = [req[c] EXCEPT !.pc = "response", !.post = p]
    OBVIOUS
  <2>2. /\ m.slug = req[c].slug /\ m.n = req[c].n /\ m.doing = req[c].doing
        /\ m.post = req[c].post /\ req[c].pc = "wait"
    BY <1>6 DEF Heard, Message
  <2>3. /\ p \in 0 .. MaxPosts
        /\ m.doing = "find" => p \in {NoPost} \cup WithSlug(m.slug)
        /\ m.doing # "find" => p = m.post
    BY <1>1, <1>6, PostsDomain, HttpAssumption DEF Found, Published, CallOK, Messages, NoPost, WithSlug
  <2>4. /\ q \in RequestRecords /\ q.pc = "response" /\ q.n = req[c].n /\ q.op = req[c].op
        /\ q.slug = req[c].slug /\ q.doing = req[c].doing /\ q.post = p /\ q.n \in Nat
    BY <1>1, <2>1, <2>3 DEF RequestRecords
  <2>5. /\ req'[c] = q /\ req' \in [Callers -> RequestRecords]
        /\ \A k \in Callers \ {c} : req'[k] = req[k]
    BY <1>1, <1>6, <2>1, <2>4
  <2>6. m.doing # "find" => Wrote(m.from, m.n, m.slug)'
    BY <1>6, WorkDone
  <2>7. Stage(c)'
    BY <1>1, <1>3, <2>2, <2>3, <2>4, <2>5, <2>6, GrownKeeps DEF Stage, Busy, AnswerPcs
  <2> QED
    BY <1>1, <1>2, <1>3, <2>4, <2>5, <2>7, Moves
<1> QED
  BY <1>4, <1>5, <1>6 DEF Process, Refuse, ProcessAndRefuse

--------------------------------------------------------------------------------
(* The theorems *)

\* Nothing was asked, sent or written at first.
LEMMA InitIInv == Init => IInv
<1> SUFFICES ASSUME Init PROVE IInv
  OBVIOUS
<1>2. req \in [Callers -> RequestRecords] /\ \A c \in Callers : Stage(c)
  BY NoReqOK DEF Init, Stage, Busy, AnswerPcs, NoReq
<1>3. PostsOK /\ WritersOK
  BY EmptySeq, HttpAssumption DEF Init, PostsOK, WritersOK
<1> QED
  BY <1>2, <1>3, HttpAssumption DEF Init, IInv

\* IInv is inductive, over the steps of clients, site and network.
LEMMA Induction == IInv /\ [Next]_vars => IInv'
<1> SUFFICES ASSUME IInv, [Next]_vars PROVE IInv'
  OBVIOUS
<1>1. CASE UNCHANGED vars
  BY <1>1 DEF vars, IInv, PostsOK, WritersOK, Stage, Busy, Wrote, WithSlug, CallOK
<1>2. ASSUME NEW c \in Callers, AttemptStep(c) PROVE IInv'
  BY <1>2, SendStep, ReadErrorStep, GiveUpStep DEF AttemptStep
<1> QED
  BY <1>1, <1>2, StartStep, GiveUpStep, ResponseStep, SiteStep DEF Next

\* IInv is an invariant of the adapter with its site.
LEMMA Invariance == Spec => []IInv
  BY InitIInv, Induction, PTL DEF Spec

\* The variables keep their types; in particular no call of request() makes more
\* attempts than it is configured to, whatever errors interleave.
THEOREM HttpTypeCorrect == Spec => []TypeOK
<1>1. IInv => TypeOK
  BY PostsDomain DEF IInv, TypeOK, PostsOK, WritersOK, PostRecords, RequestRecords, CallOK,
                     Messages, WithSlug, Doings
<1> QED
  BY <1>1, Invariance, PTL

\* A write that was answered with success has reached a post of its slug, through
\* retries, timeouts, late answers and calls that are processed late.
THEOREM SuccessIsWritten == Spec => []OkMeansWritten
<1>1. IInv => OkMeansWritten
  BY DEF IInv, Stage, OkMeansWritten, Wrote
<1> QED
  BY <1>1, Invariance, PTL

--------------------------------------------------------------------------------
(* Duplicates *)

\* The call of c's current attempt is on its way.
Awaits(c) == req[c].pc = "wait" /\ Message(c) \in wire

\* The request of c is yet to create a post of slug s, or its call is.
WillCreate(c, s) ==
  /\ req[c].slug = s
  /\ \/ req[c].doing = "create" /\ (req[c].pc \in {"send", "refused"} \/ Awaits(c))
     \/ /\ req[c].pc = "response" /\ req[c].doing = "find"
        /\ req[c].op = "upsert" /\ req[c].post = NoPost

Creators(s) == {c \in Callers : WillCreate(c, s)}

\* Calls that will create a post of slug s and that nobody waits for.
Orphans(s) == {m \in wire : m.doing = "create" /\ m.slug = s /\ ~Heard(m)}

\* No post of the slug was ever hidden from the lookups.
Shown(s) == \A p \in WithSlug(s) : ~posts[p].hidden

\* A lookup of a slug whose posts are all shown finds nothing only while there is
\* no post; all the posts there can be at that time are those of the callers and
\* of the calls they have given up.
CountInv ==
  /\ IsFiniteSet(wire)
  /\ \A s \in Slugs :
       /\ Cardinality(Orphans(s)) <= lost
       /\ Shown(s) =>
            Cardinality(WithSlug(s)) + Cardinality(Orphans(s)) + Cardinality(Creators(s))
              <= Cardinality(Callers) + lost

\* What is counted is finite.
LEMMA Counted ==
  ASSUME IInv, IsFiniteSet(wire), NEW s
  PROVE  /\ IsFiniteSet(WithSlug(s)) /\ IsFiniteSet(Orphans(s)) /\ IsFiniteSet(Creators(s))
         /\ Cardinality(WithSlug(s)) \in Nat /\ Cardinality(Orphans(s)) \in Nat
         /\ Cardinality(Creators(s)) \in Nat
         /\ Cardinality(Callers) \in Nat /\ Cardinality(Creators(s)) <= Cardinality(Callers)
<1>1. IsFiniteSet(Callers) /\ Creators(s) \in SUBSET Callers
  BY HttpAssumption DEF Creators
<1>2. IsFiniteSet(1 .. Len(posts)) /\ WithSlug(s) \in SUBSET (1 .. Len(posts))
  BY PostsDomain, FS_Interval DEF IInv, WithSlug
<1>3. Orphans(s) \in SUBSET wire
  BY DEF Orphans
<1>4. IsFiniteSet(WithSlug(s)) /\ IsFiniteSet(Orphans(s)) /\ IsFiniteSet(Creators(s))
  BY <1>1, <1>2, <1>3, FS_Subset
<1> QED
  BY <1>1, <1>4, FS_Subset, FS_CardinalityType

\* So it is after a step.
LEMMA CountedNext ==
  (IInv /\ IsFiniteSet(wire))' =>
    (\A s \in Slugs :
       /\ Cardinality(WithSlug(s)) \in Nat /\ Cardinality(Orphans(s)) \in Nat
       /\ Cardinality(Creators(s)) \in Nat /\ Cardinality(Creators(s)) <= Cardinality(Callers))'
<1>1. IInv /\ IsFiniteSet(wire) =>
        \A s \in Slugs :
          /\ Cardinality(WithSlug(s)) \in Nat /\ Cardinality(Orphans(s)) \in Nat
          /\ Cardinality(Creators(s)) \in Nat /\ Cardinality(Creators(s)) <= Cardinality(Callers)
  BY Counted
<1> QED
  BY <1>1, PTL

\* Sets that grow by at most one element, or that lose one.
LEMMA Smaller ==
  ASSUME NEW S, NEW T, IsFiniteSet(T)
  PROVE  /\ S \subseteq T => Cardinality(S) <= Cardinality(T)
         /\ \A x : S \subseteq T \cup {x} => Cardinality(S) <= Cardinality(T) + 1
         /\ \A x \in T : S \subseteq T \ {x} => Cardinality(S) <= Cardinality(T) - 1
<1>1. Cardinality(T) \in Nat
  BY FS_CardinalityType
<1>2. S \subseteq T => Cardinality(S) <= Cardinality(T)
  BY FS_Subset
<1>3. ASSUME NEW x, S \subseteq T \cup {x} PROVE Cardinality(S) <= Cardinality(T) + 1
  <2>1. IsFiniteSet(T \cup {x}) /\ Cardinality(T \cup {x}) <= Cardinality(T) + 1
    BY <1>1, FS_AddElement
  <2>2. Cardinality(S) <= Cardinality(T \cup {x}) /\ IsFiniteSet(S)
    BY <1>3, <2>1, FS_Subset
  <2> QED
    BY <1>1, <2>1, <2>2, FS_CardinalityType
<1>4. ASSUME NEW x \in T, S \subseteq T \ {x} PROVE Cardinality(S) <= Cardinality(T) - 1
  <2>1. IsFiniteSet(T \ {x}) /\ Cardinality(T \ {x}) = Cardinality(T) - 1
    BY FS_RemoveElement
  <2> QED
    BY <1>4, <2>1, FS_Subset
<1> QED
  BY <1>2, <1>3, <1>4

\* Of each slug: nothing is added; a call is given up, and with it at most one call
\* is orphaned or one creation begun again; a creation becomes a post; it becomes
\* one and the error another creation; a lookup finds nothing.
Kept(s) ==
  /\ WithSlug(s)' \subseteq WithSlug(s) /\ Orphans(s)' \subseteq Orphans(s)
  /\ Creators(s)' \subseteq Creators(s) /\ lost <= lost'
GivenUp(s, m, c) ==
  /\ WithSlug(s)' \subseteq WithSlug(s) /\ lost' = lost + 1
  /\ \/ Orphans(s)' \subseteq Orphans(s) \cup {m} /\ Creators(s)' \subseteq Creators(s)
     \/ Orphans(s)' \subseteq Orphans(s) /\ Creators(s)' \subseteq Creators(s) \cup {c}
Created(s, m, c, p) ==
  /\ WithSlug(s)' \subseteq WithSlug(s) \cup {p} /\ lost' = lost
  /\ \/ /\ m \in Orphans(s) /\ Orphans(s)' \subseteq Orphans(s) \ {m}
        /\ Creators(s)' \subseteq Creators(s)
     \/ /\ c \in Creators(s) /\ Creators(s)' \subseteq Creators(s) \ {c}
        /\ Orphans(s)' \subseteq Orphans(s)
CreatedAndRefused(s, p) ==
  /\ WithSlug(s)' \subseteq WithSlug(s) \cup {p} /\ lost' = lost + 1
  /\ Orphans(s)' \subseteq Orphans(s) /\ Creators(s)' \subseteq Creators(s)
FoundNothing(s) ==
  /\ Shown(s) => WithSlug(s)' = {}
  /\ lost' = lost /\ Orphans(s)' \subseteq Orphans(s)

\* A larger number of lost answers loosens the bound.
LEMMA MoreLost ==
  ASSUME NEW v \in Nat, NEW n \in Nat, NEW j \in Nat, NEW k \in Nat,
         NEW x \in Nat, NEW y \in Nat, x <= y, v + n + j <= k + x
  PROVE  v + n + j <= k + y
OBVIOUS

\* A slug whose posts were never hidden had none before that was.
LEMMA StaysShown ==
  ASSUME Grown, NEW s, Shown(s)' PROVE Shown(s)
BY DEF Grown, Shown, WithSlug

\* The bound survives each way in which a step can treat a slug.
LEMMA CountStep ==
  ASSUME IInv, IInv', CountInv, IsFiniteSet(wire'), Grown,
         \A s \in Slugs :
           \/ Kept(s) \/ FoundNothing(s)
           \/ \E m, c, p : GivenUp(s, m, c) \/ Created(s, m, c, p) \/ CreatedAndRefused(s, p)
  PROVE  CountInv'
<1> SUFFICES ASSUME NEW s \in Slugs
             PROVE  /\ Cardinality(Orphans(s)') <= lost'
                    /\ Shown(s)' =>
                         Cardinality(WithSlug(s)') + Cardinality(Orphans(s)') + Cardinality(Creators(s)')
                           <= Cardinality(Callers) + lost'
  BY DEF CountInv
<1> DEFINE w == Cardinality(WithSlug(s))   o == Cardinality(Orphans(s))   k == Cardinality(Creators(s))
           v == Cardinality(WithSlug(s)')  n == Cardinality(Orphans(s)')  j == Cardinality(Creators(s)')
           all == Cardinality(Callers)
<1>1. /\ IsFiniteSet(WithSlug(s)) /\ IsFiniteSet(Orphans(s)) /\ IsFiniteSet(Creators(s))
      /\ w \in Nat /\ o \in Nat /\ k \in Nat /\ all \in Nat /\ k <= all /\ lost \in Nat
      /\ o <= lost /\ (Shown(s) => w + o + k <= all + lost)
  BY Counted DEF CountInv, IInv
<1>2. /\ v \in Nat /\ n \in Nat /\ j \in Nat /\ j <= all /\ lost' \in Nat
  BY CountedNext DEF CountInv, IInv
<1>3. CASE Kept(s)
  <2>1. v <= w /\ n <= o /\ j <= k
    BY <1>1, <1>3, Smaller DEF Kept
  <2>2. lost <= lost'
    BY <1>3 DEF Kept
  <2> HIDE DEF w, o, k, v, n, j, all
  <2>3. n <= lost' /\ (Shown(s) => v + n + j <= all + lost)
    BY <1>1, <1>2, <2>1, <2>2
  <2>4. Shown(s) => v + n + j <= all + lost'
    BY <1>1, <1>2, <2>2, <2>3, MoreLost
  <2> QED
    BY <2>3, <2>4, StaysShown DEF v, n, j, all
<1>4. CASE FoundNothing(s)
  <2>1. n <= o /\ lost' = lost /\ (Shown(s) => v = 0)
    BY <1>1, <1>4, Smaller, FS_EmptySet DEF FoundNothing
  <2> HIDE DEF w, o, k, v, n, j, all
  <2>2. n <= lost' /\ (Shown(s) => v + n + j <= all + lost')
    BY <1>1, <1>2, <2>1
  <2> QED
    BY <2>2, StaysShown DEF v, n, j, all
<1>5. ASSUME NEW m, NEW c, GivenUp(s, m, c)
      PROVE  n <= lost' /\ (Shown(s)' => v + n + j <= all + lost')
  <2>1. v <= w /\ ((n <= o + 1 /\ j <= k) \/ (n <= o /\ j <= k + 1))
    BY <1>1, <1>5, Smaller DEF GivenUp
  <2>2. lost' = lost + 1
    BY <1>5 DEF GivenUp
  <2> HIDE DEF w, o, k, v, n, j, all
  <2>3. n <= lost' /\ (Shown(s) => v + n + j <= all + lost')
    BY <1>1, <1>2, <2>1, <2>2
  <2> QED
    BY <2>3, StaysShown
<1>6. ASSUME NEW m, NEW c, NEW p, Created(s, m, c, p)
      PROVE  n <= lost' /\ (Shown(s)' => v + n + j <= all + lost')
  <2>1. v <= w + 1 /\ ((n <= o - 1 /\ j <= k) \/ (n <= o /\ j <= k - 1))
    BY <1>1, <1>6, Smaller DEF Created
  <2>2. lost' = lost
    BY <1>6 DEF Created
  <2> HIDE DEF w, o, k, v, n, j, all
  <2>3. n <= lost' /\ (Shown(s) => v + n + j <= all + lost')
    BY <1>1, <1>2, <2>1, <2>2
  <2> QED
    BY <2>3, StaysShown
<1>7. ASSUME NEW p, CreatedAndRefused(s, p)
      PROVE  n <= lost' /\ (Shown(s)' => v + n + j <= all + lost')
  <2>1. v <= w + 1 /\ n <= o /\ j <= k
    BY <1>1, <1>7, Smaller DEF CreatedAndRefused
  <2>2. lost' = lost + 1
    BY <1>7 DEF CreatedAndRefused
  <2> HIDE DEF w, o, k, v, n, j, all
  <2>3. n <= lost' /\ (Shown(s) => v + n + j <= all + lost')
    BY <1>1, <1>2, <2>1, <2>2
  <2> QED
    BY <2>3, StaysShown
<1> QED
  BY <1>3, <1>4, <1>5, <1>6, <1>7

\* A step of one caller changes nothing for the creations and calls of the others.
LEMMA Bystanders ==
  ASSUME IInv, NEW c \in Callers, \A k \in Callers \ {c} : req'[k] = req[k], NEW s,
         \A m \in wire' \ wire : m.from = c
  PROVE  /\ \A k \in Callers \ {c} : WillCreate(k, s)' => WillCreate(k, s)
         /\ \A m \in Orphans(s)' : m.from # c => m \in Orphans(s)
<1>1. \A k \in Callers \ {c} : Message(k)' = Message(k) /\ Message(k).from = k
  BY DEF Message
<1>2. \A k \in Callers \ {c} : WillCreate(k, s)' => WillCreate(k, s)
  BY <1>1 DEF WillCreate, Awaits
<1>3. ASSUME NEW m \in Orphans(s)', m.from # c PROVE m \in Orphans(s)
  <2>1. m \in wire /\ m.from \in Callers \ {c}
    BY <1>3 DEF Orphans, IInv, CallOK, Messages
  <2> QED
    BY <1>1, <1>3, <2>1 DEF Orphans, Heard
<1> QED
  BY <1>2, <1>3

\* A caller that waits for nothing leaves its calls alone, and begins no creation.
LEMMA QuietKept ==
  ASSUME IInv, NEW c \in Callers, \A k \in Callers \ {c} : req'[k] = req[k],
         req[c].pc # "wait", UNCHANGED <<posts, wire, lost>>,
         NEW s, WillCreate(c, s)' => WillCreate(c, s)
  PROVE  Kept(s)
<1>1. ASSUME NEW m \in Orphans(s)', m.from = c PROVE m \in Orphans(s)
  BY <1>1 DEF Orphans, Heard
<1> QED
  BY <1>1, Bystanders DEF Kept, Creators, WithSlug, IInv

\* An answer ends one request.
LEMMA AnswerView ==
  ASSUME IInv, NEW c \in Callers, NEW pc, Answer(c, pc)
  PROVE  req'[c].pc = pc /\ \A k \in Callers \ {c} : req'[k] = req[k]
BY DEF Answer, NoReq, IInv

\* The catch block of request() tries the same call again, or ends the request.
LEMMA CaughtView ==
  ASSUME IInv, NEW c \in Callers, Again(c) \/ Answer(c, "error")
  PROVE  /\ \A k \in Callers \ {c} : req'[k] = req[k]
         /\ \/ req'[c].pc = "error"
            \/ req'[c].pc = "send" /\ req'[c].doing = req[c].doing /\ req'[c].slug = req[c].slug
<1>1. CASE Answer(c, "error")
  BY <1>1, AnswerView
<1>2. CASE Again(c)
  <2>1. req[c] \in RequestRecords
    BY DEF IInv
  <2> QED
    BY <1>2, <2>1 DEF Again, IInv, RequestRecords
<1> QED
  BY <1>1, <1>2

\* A new request will not create before its lookup.
LEMMA StartKept ==
  ASSUME IInv, NEW c \in Callers, StartRequest(c), NEW s PROVE Kept(s)
<1>0. PICK z \in Slugs, op \in {"read", "upsert", "update"}, p \in {NoPost} \cup DOMAIN posts,
           sent \in Statuses :
        req' = [req EXCEPT ![c] = [NoReq EXCEPT
                  !.pc = "send", !.n = req[c].n + 1, !.op = op, !.slug = z, !.sent = sent,
                  !.doing = IF op = "update" THEN "update" ELSE "find", !.post = p]]
  BY DEF StartRequest
<1> DEFINE doing == IF op = "update" THEN "update" ELSE "find"
<1>1. PICK q : q = [NoReq EXCEPT !.pc = "send", !.n = req[c].n + 1, !.op = op, !.slug = z,
                                 !.sent = sent, !.doing = doing, !.post = p]
  OBVIOUS
<1>2. req' = [req EXCEPT ![c] = q] /\ q.pc = "send" /\ q.doing \in {"update", "find"}
  BY <1>0, <1>1 DEF NoReq
<1>3. req'[c] = q /\ \A k \in Callers \ {c} : req'[k] = req[k]
  BY <1>2 DEF IInv
<1>4. req[c].pc # "wait" /\ UNCHANGED <<posts, wire, lost>>
  BY DEF StartRequest, Busy, AnswerPcs
<1> QED
  BY <1>2, <1>3, <1>4, QuietKept DEF WillCreate, Awaits

\* Sending makes no creator.
LEMMA SendKept ==
  ASSUME IInv, NEW c \in Callers, Send(c), NEW s PROVE Kept(s)
<1>1. req[c] \in RequestRecords /\ req[c].pc = "send" /\ UNCHANGED <<posts, lost>>
  BY DEF IInv, Send
<1>2. /\ req'[c] = [req[c] EXCEPT !.pc = "wait"] /\ \A k \in Callers \ {c} : req'[k] = req[k]
      /\ wire' = wire \cup {Message(c)} /\ Message(c).from = c
  BY DEF Send, IInv, Message
<1>3. Message(c)' = Message(c) /\ req'[c].pc = "wait"
  BY <1>1, <1>2 DEF Message, RequestRecords
<1>4. WillCreate(c, s)' => WillCreate(c, s)
  BY <1>1, <1>2 DEF WillCreate, RequestRecords
<1>5. ASSUME NEW m \in Orphans(s)', m.from = c PROVE m \in Orphans(s)
  BY <1>1, <1>2, <1>3, <1>5 DEF Orphans, Heard
<1> QED
  BY <1>1, <1>2, <1>4, <1>5, Bystanders DEF Kept, Creators, WithSlug, IInv

\* An error status makes no creator.
LEMMA ReadErrorKept ==
  ASSUME IInv, NEW c \in Callers, ReadError(c), NEW s PROVE Kept(s)
<1>1. /\ Again(c) \/ Answer(c, "error")
      /\ req[c].pc = "refused" /\ UNCHANGED <<posts, wire, lost>>
  BY DEF ReadError, Caught
<1> QED
  BY <1>1, CaughtView, QuietKept DEF WillCreate, Awaits

\* A response that is read makes no creator but of who was one already.
LEMMA ResponseKept ==
  ASSUME IInv, NEW c \in Callers, ReadResponse(c) \/ BodyFails(c), NEW s PROVE Kept(s)
<1>1. req[c].pc = "response" /\ UNCHANGED <<posts, wire, lost>> /\ req[c] \in RequestRecords
  BY DEF ReadResponse, BodyFails, IInv
<1>2. ASSUME NEW pc \in {"ok", "error"}, Answer(c, pc) PROVE Kept(s)
  BY <1>1, <1>2, AnswerView, QuietKept DEF WillCreate, Awaits
<1>3. ASSUME NEW doing, Call(c, doing, req[c].post), doing = "create" => req[c].post = NoPost,
             req[c].doing = "find", req[c].op = "upsert"
      PROVE  Kept(s)
  <2>1. /\ req'[c].pc = "send" /\ req'[c].doing = doing /\ req'[c].slug = req[c].slug
        /\ \A k \in Callers \ {c} : req'[k] = req[k]
    BY <1>1, <1>3 DEF Call, IInv, RequestRecords
  <2> QED
    BY <1>1, <1>3, <2>1, QuietKept DEF WillCreate, Awaits
<1> QED
  BY <1>2, <1>3 DEF ReadResponse, BodyFails

\* A call that is given up may go on, or be tried again, for one more lost answer.
LEMMA GiveUpCounted ==
  ASSUME IInv, NEW c \in Callers, NetworkError(c) \/ Timeout(c), NEW s
  PROVE  GivenUp(s, Message(c), c)
<1>1. /\ Again(c) \/ Answer(c, "error")
      /\ req[c].pc = "wait" /\ UNCHANGED posts /\ lost' = lost + 1 /\ wire' \subseteq wire
  BY DEF NetworkError, Timeout, Caught, GiveUp
<1>2. /\ \A k \in Callers \ {c} : req'[k] = req[k]
      /\ \/ req'[c].pc = "error"
         \/ req'[c].pc = "send" /\ req'[c].doing = req[c].doing /\ req'[c].slug = req[c].slug
  BY <1>1, CaughtView
<1>3. /\ \A k \in Callers \ {c} : WillCreate(k, s)' => WillCreate(k, s)
      /\ \A m \in Orphans(s)' : m.from # c => m \in Orphans(s)
  BY <1>1, <1>2, Bystanders
<1>4. \A m \in Orphans(s)' : m \in Orphans(s) \/ (m = Message(c) /\ Awaits(c))
  BY <1>1, <1>3 DEF Orphans, Heard, Awaits
<1>5. Awaits(c) /\ WillCreate(c, s)' => WillCreate(c, s)
  BY <1>2 DEF WillCreate, Awaits
<1>6. WithSlug(s)' \subseteq WithSlug(s)
  BY <1>1 DEF WithSlug
<1> QED
  BY <1>1, <1>3, <1>4, <1>5, <1>6 DEF GivenUp, Creators
\* Only a call that creates a post of slug s adds one.
LEMMA WorkCounted ==
  ASSUME IInv, NEW m \in wire, Work(m), NEW s
  PROVE  /\ m.doing # "create" \/ m.slug # s => WithSlug(s)' = WithSlug(s)
         /\ \E p : WithSlug(s)' \subseteq WithSlug(s) \cup {p}
<1>1. CASE UNCHANGED posts
  BY <1>1 DEF WithSlug
<1>2. CASE m.doing = "update" /\ posts' = [posts EXCEPT ![m.post] = Written(m)]
  <2>1. DOMAIN posts' = DOMAIN posts /\ Written(m).slug = posts[m.post].slug
    BY <1>2, UpdatedPost
  <2>2. \A p \in DOMAIN posts : posts'[p].slug = posts[p].slug
    BY <1>2, <2>1
  <2> QED
    BY <2>1, <2>2 DEF WithSlug
<1>3. CASE m.doing = "create" /\ posts' = Append(posts, Written(m))
  <2>1. /\ m.slug \in Slugs
        /\ posts \in Seq(PostRecords) /\ Len(posts) \in Nat /\ DOMAIN posts = 1 .. Len(posts)
    BY PostsDomain DEF IInv, CallOK, Messages, Writer, PostsOK
  <2>2. PICK e : e = Written(m)
    OBVIOUS
  <2>3. e \in PostRecords /\ e.slug = m.slug /\ posts' = Append(posts, e)
    BY <1>3, <2>2, NewPost
  <2>4. /\ Len(posts') = Len(posts) + 1 /\ posts' \in Seq(PostRecords)
        /\ posts'[Len(posts) + 1] = e /\ \A j \in 1 .. Len(posts) : posts'[j] = posts[j]
    BY <2>1, <2>3
  <2>5. DOMAIN posts' = 1 .. Len(posts) + 1
    BY <2>1, <2>4, LenProperties
  <2>6. WithSlug(s)' \subseteq WithSlug(s) \cup {Len(posts) + 1}
    BY <2>1, <2>4, <2>5 DEF WithSlug
  <2>7. m.slug # s => WithSlug(s)' = WithSlug(s)
    BY <2>1, <2>3, <2>4, <2>5 DEF WithSlug
  <2> QED
    BY <1>3, <2>6, <2>7
<1> QED
  BY <1>1, <1>2, <1>3 DEF Work

\* Whether the client hears of it or not, the call is not on its way any more.
LEMMA SiteCounted ==
  ASSUME IInv, NEW m \in wire, Process(m) \/ Refuse(m) \/ ProcessAndRefuse(m), NEW s
  PROVE  \/ Kept(s) \/ FoundNothing(s)
         \/ \E p : Created(s, m, m.from, p) \/ CreatedAndRefused(s, p)
<1> DEFINE c == m.from
<1>1. /\ c \in Callers /\ req[c] \in RequestRecords /\ req \in [Callers -> RequestRecords]
      /\ m.doing \in Doings /\ wire' = wire \ {m} /\ lost \in Nat
  BY DEF IInv, CallOK, Messages, Process, Refuse, ProcessAndRefuse
<1>2. Heard(m) => /\ req[c].pc = "wait" /\ Message(c) = m
                  /\ req[c].slug = m.slug /\ req[c].doing = m.doing
  BY DEF Heard, Message
<1>3. Heard(m) /\ m.doing = "create" /\ m.slug = s => c \in Creators(s)
  BY <1>1, <1>2 DEF Creators, WillCreate, Awaits
<1>4. ~Heard(m) /\ m.doing = "create" /\ m.slug = s => m \in Orphans(s)
  BY DEF Orphans
<1>5. ASSUME \A k \in Callers \ {c} : req'[k] = req[k],
             \/ UNCHANGED req
             \/ Heard(m)
      PROVE  /\ Orphans(s)' \subseteq Orphans(s) \ {m}
             /\ \A k \in Creators(s)' : k # c => k \in Creators(s)
  <2>1. /\ \A k \in Callers \ {c} : WillCreate(k, s)' => WillCreate(k, s)
        /\ \A h \in Orphans(s)' : h.from # c => h \in Orphans(s)
    BY <1>1, <1>5, Bystanders
  <2>2. ASSUME NEW h \in Orphans(s)', h.from = c PROVE h \in Orphans(s)
    <3>1. h \in wire /\ h # m
      BY <1>1, <2>2 DEF Orphans
    <3>2. CASE Heard(m)
      BY <1>2, <2>2, <3>1, <3>2 DEF Orphans, Heard
    <3>3. CASE UNCHANGED req
      BY <2>2, <3>1, <3>3 DEF Orphans, Heard, Message
    <3> QED
      BY <1>5, <3>2, <3>3
  <2>3. m \notin Orphans(s)'
    BY <1>1 DEF Orphans
  <2> QED
    BY <2>1, <2>2, <2>3 DEF Creators
<1>6. CASE Process(m) /\ UNCHANGED req
  <2>1. WillCreate(c, s)' => WillCreate(c, s) /\ ~(Heard(m) /\ m.doing = "create")
    BY <1>1, <1>2, <1>6 DEF WillCreate, Awaits, Message
  <2>2. Orphans(s)' \subseteq Orphans(s) \ {m} /\ Creators(s)' \subseteq Creators(s)
    BY <1>5, <1>6, <2>1 DEF Creators
  <2>3. Work(m) /\ lost' = lost
    BY <1>6 DEF Process
  <2>4. CASE m.doing = "create" /\ m.slug = s
    <3>1. PICK p : WithSlug(s)' \subseteq WithSlug(s) \cup {p}
      BY <2>3, WorkCounted
    <3>2. Heard(m) => Creators(s)' \subseteq Creators(s) \ {c}
      BY <2>1, <2>2, <2>4 DEF Creators
    <3> QED
      BY <1>3, <1>4, <2>2, <2>3, <2>4, <3>1, <3>2 DEF Created
  <2>5. CASE m.doing # "create" \/ m.slug # s
    BY <1>1, <2>2, <2>3, <2>5, WorkCounted DEF Kept
  <2> QED
    BY <2>4, <2>5
<1>7. ASSUME Process(m), Heard(m), NEW p \in Found(m),
             req' = [req EXCEPT ![c].pc = "response", ![c].post = p]
      PROVE  Kept(s) \/ FoundNothing(s) \/ \E x : Created(s, m, c, x)
  <2>1. /\ \A k \in Callers \ {c} : req'[k] = req[k]
        /\ req'[c].pc = "response" /\ req'[c].doing = m.doing /\ req'[c].slug = m.slug
        /\ req'[c].post = p
    BY <1>1, <1>2, <1>7 DEF RequestRecords
  <2>2. /\ Orphans(s)' \subseteq Orphans(s) \ {m}
        /\ \A k \in Creators(s)' : k # c => k \in Creators(s)
    BY <1>5, <1>7, <2>1
  <2>3. Work(m) /\ lost' = lost
    BY <1>7 DEF Process
  <2>4. WillCreate(c, s)' => m.doing = "find" /\ m.slug = s /\ p = NoPost
    BY <2>1 DEF WillCreate, Awaits
  <2>5. CASE WillCreate(c, s)'
    <3>1. Published(s) = {}
      BY <1>7, <2>4, <2>5, PostsDomain DEF Found, Published, NoPost, WithSlug, IInv
    <3>2. Shown(s) => WithSlug(s) = {}
      BY <3>1, PostsDomain DEF IInv, Shown, Published, WithSlug, PostRecords
    <3>3. WithSlug(s)' = WithSlug(s)
      BY <2>3, <2>4, <2>5, WorkCounted
    <3> QED
      BY <2>2, <2>3, <3>2, <3>3 DEF FoundNothing
  <2>6. CASE ~WillCreate(c, s)' /\ m.doing = "create" /\ m.slug = s
    <3>1. PICK x : WithSlug(s)' \subseteq WithSlug(s) \cup {x}
      BY <2>3, WorkCounted
    <3>2. Creators(s)' \subseteq Creators(s) \ {c}
      BY <2>2, <2>6 DEF Creators
    <3> QED
      BY <1>3, <1>7, <2>2, <2>3, <2>6, <3>1, <3>2 DEF Created
  <2>7. CASE ~WillCreate(c, s)' /\ (m.doing # "create" \/ m.slug # s)
    <3>1. Creators(s)' \subseteq Creators(s)
      BY <2>2, <2>7 DEF Creators
    <3> QED
      BY <1>1, <2>2, <2>3, <2>7, <3>1, WorkCounted DEF Kept
  <2> QED
    BY <2>5, <2>6, <2>7
<1>8. ASSUME NEW status, Refusal(m, status), Heard(m)
      PROVE  Orphans(s)' \subseteq Orphans(s) /\ Creators(s)' \subseteq Creators(s)
  <2>1. /\ \A k \in Callers \ {c} : req'[k] = req[k]
        /\ req'[c].pc = "refused" /\ req'[c].doing = m.doing /\ req'[c].slug = m.slug
    BY <1>1, <1>2, <1>8 DEF Refusal, RequestRecords
  <2>2. WillCreate(c, s)' => m.doing = "create" /\ m.slug = s
    BY <2>1 DEF WillCreate
  <2> QED
    BY <1>3, <1>5, <1>8, <2>1, <2>2 DEF Creators
<1>9. CASE Refuse(m)
  BY <1>1, <1>8, <1>9 DEF Refuse, Kept, WithSlug
<1>10. CASE ProcessAndRefuse(m)
  <2>1. Work(m) /\ Refusal(m, "transient") /\ Heard(m) /\ lost' = lost + 1
    BY <1>10 DEF ProcessAndRefuse
  <2> QED
    BY <1>8, <2>1, WorkCounted DEF CreatedAndRefused
<1> QED
  BY <1>6, <1>7, <1>9, <1>10 DEF Process

\* CountInv is inductive.
LEMMA CountInduction == IInv /\ CountInv /\ [Next]_vars => CountInv'
<1> SUFFICES ASSUME IInv, CountInv, [Next]_vars PROVE CountInv'
  OBVIOUS
<1>1. IInv'
  BY Induction
<1>2. CASE UNCHANGED vars
  BY <1>2 DEF vars, CountInv, Shown, WithSlug, Orphans, Creators, WillCreate, Awaits, Heard, Message
<1>3. ASSUME NEW c \in Callers,
             \/ StartRequest(c) \/ AttemptStep(c) \/ NetworkError(c)
             \/ ReadResponse(c) \/ BodyFails(c)
      PROVE  CountInv'
  <2>1. IsFiniteSet(wire')
    <3>1. IsFiniteSet(wire) /\ IsFiniteSet(wire \cup {Message(c)})
      BY FS_AddElement DEF CountInv
    <3>2. wire' \in SUBSET (wire \cup {Message(c)})
      BY <1>3 DEF StartRequest, AttemptStep, Send, ReadError, Timeout, NetworkError, GiveUp,
                  ReadResponse, BodyFails
    <3> QED
      BY <3>1, <3>2, FS_Subset
  <2>2. \A s \in Slugs : Kept(s) \/ GivenUp(s, Message(c), c)
    BY <1>3, StartKept, SendKept, ReadErrorKept, ResponseKept, GiveUpCounted DEF AttemptStep
  <2>3. Grown
    BY <1>3 DEF StartRequest, AttemptStep, Send, ReadError, Timeout, NetworkError, GiveUp,
                ReadResponse, BodyFails, Grown
  <2> QED
    BY <1>1, <2>1, <2>2, <2>3, CountStep
<1>4. ASSUME NEW m \in wire, Process(m) \/ Refuse(m) \/ ProcessAndRefuse(m) PROVE CountInv'
  <2>1. IsFiniteSet(wire')
    BY <1>4, FS_RemoveElement DEF CountInv, Process, Refuse, ProcessAndRefuse
  <2>2. \A s \in Slugs :
          \/ Kept(s) \/ FoundNothing(s)
          \/ \E k, c, p : Created(s, k, c, p) \/ CreatedAndRefused(s, p)
    BY <1>4, SiteCounted
  <2>3. Grown
    <3>1. Work(m) \/ UNCHANGED posts
      BY <1>4 DEF Process, Refuse, ProcessAndRefuse
    <3> QED
      BY <3>1, WorkDone DEF Grown
  <2> QED
    BY <1>1, <2>1, <2>2, <2>3, CountStep
<1> QED
  BY <1>2, <1>3, <1>4 DEF Next

\* However calls are lost, delayed and retried, the posts of a slug, if none of them
\* was ever hidden from lookups, are at most as many as the callers and the answers
\* that were lost.
THEOREM DuplicatesAreBounded == Spec => []DuplicatesBounded
<1>1. Init => CountInv
  <2> SUFFICES ASSUME Init, NEW s \in Slugs
               PROVE  /\ IsFiniteSet(wire) /\ Cardinality(Orphans(s)) <= lost
                      /\ Cardinality(WithSlug(s)) + Cardinality(Orphans(s))
                           + Cardinality(Creators(s)) <= Cardinality(Callers) + lost
    BY FS_EmptySet DEF CountInv, Init
  <2>1. WithSlug(s) = {} /\ Orphans(s) = {} /\ IsFiniteSet(wire) /\ lost = 0
    BY FS_EmptySet DEF Init, WithSlug, Orphans
  <2>2. Cardinality(WithSlug(s)) = 0 /\ Cardinality(Orphans(s)) = 0
    BY <2>1, FS_EmptySet
  <2>3. /\ Cardinality(Creators(s)) \in Nat /\ Cardinality(Callers) \in Nat
        /\ Cardinality(Creators(s)) <= Cardinality(Callers)
    BY <2>1, InitIInv, Counted
  <2> QED
    BY <2>1, <2>2, <2>3
<1>2. IInv /\ CountInv => DuplicatesBounded
  <2> SUFFICES ASSUME IInv, CountInv, NEW s \in Slugs, Shown(s)
               PROVE  Cardinality(WithSlug(s)) <= Cardinality(Callers) + lost
    BY DEF DuplicatesBounded, Shown
  <2>1. /\ Cardinality(WithSlug(s)) \in Nat /\ Cardinality(Orphans(s)) \in Nat
        /\ Cardinality(Creators(s)) \in Nat /\ Cardinality(Callers) \in Nat /\ lost \in Nat
    BY Counted DEF CountInv, IInv
  <2>2. Cardinality(WithSlug(s)) + Cardinality(Orphans(s)) + Cardinality(Creators(s))
          <= Cardinality(Callers) + lost
    BY DEF CountInv
  <2> QED
    BY <2>1, <2>2
<1> QED
  BY <1>1, <1>2, Invariance, CountInduction, PTL DEF Spec
================================================================================

------------------------------ MODULE PanelProofs ------------------------------
(***************************************************************************)
(* Proofs about Panel: the panel with the API is an instance of            *)
(* ProjectsApi (its tabs are clients of it), its form tells the truth, and *)
(* its lists and totals agree but for what came and went meanwhile.        *)
(***************************************************************************)
EXTENDS Panel, ProjectsApiProofs

\* The form sends a request that some client of the API may send.
LEMMA SubmitIsRequest ==
  ASSUME NEW t \in Tabs, Submit(t) PROVE \E c \in Clients : SomeRequest(c)
<1>1. PICK c \in Fetches[t] : \E ask \in Asks[c] : Send(c, ask, NoProject)
  BY DEF Submit
<1>2. c \in Clients
  BY <1>1, PanelAssumption
<1> QED
  BY <1>1, <1>2 DEF SomeRequest

\* A step of a tab is the sending of a request, or changes nothing of the API.
LEMMA TabStepIsApiStep ==
  ASSUME NEW t \in Tabs, TabStep(t) PROVE [Next]_vars
<1>1. CASE Submit(t)
  BY <1>1, SubmitIsRequest DEF Next
<1>2. CASE Navigate(t) \/ \E c \in Fetches[t] : HearAnswer(t, c)
  BY <1>2 DEF Navigate, HearAnswer, vars
<1>3. CASE BreakPage(t) \/ ShowPage(t)
  BY <1>3 DEF BreakPage, ShowPage, CatchError, Render, vars
<1>4. CASE \E part \in load[t].todo : ReadPart(t, part)
  BY <1>4 DEF ReadPart, CatchError, Render, vars
<1> QED
  BY <1>1, <1>2, <1>3, <1>4 DEF TabStep

\* Every step of the panel is one of the API or changes nothing of it.
LEMMA PanelStepIsApiStep == [PanelNext]_allVars => [Next]_vars
<1> SUFFICES ASSUME [PanelNext]_allVars PROVE [Next]_vars
  OBVIOUS
<1>1. CASE ApiStep
  BY <1>1 DEF ApiStep, Next
<1>2. ASSUME NEW t \in Tabs, TabStep(t) PROVE [Next]_vars
  BY <1>2, TabStepIsApiStep
<1>3. CASE UNCHANGED allVars
  BY <1>3 DEF allVars, vars
<1> QED
  BY <1>1, <1>2, <1>3 DEF PanelNext

\* Whatever the tabs do, the API they share with other clients does only what
\* ProjectsApi lets it do: its invariants hold under the panel.
THEOREM PanelImplementsApi == PanelSpec => Spec
<1>1. PanelInit => Init
  BY DEF PanelInit
<1> QED
  BY <1>1, PanelStepIsApiStep, PTL DEF PanelSpec, Spec

--------------------------------------------------------------------------------
(* The message of the form *)

Forms == [submitting : BOOLEAN, error : BOOLEAN, fetch : SUBSET Clients]

\* A form starts only fetches of its tab and, while it submits, waits for the one it
\* has started; a message is of one that has ended.
FormOK(t) ==
  /\ form[t].fetch \subseteq Fetches[t]
  /\ \A c \in form[t].fetch : form[t].fetch = {c}
  /\ form[t].submitting <=> form[t].fetch \cap awaited # {}
  /\ form[t].error =>
       \E c \in form[t].fetch \ awaited : request[c].pc \in AnswerPcs \ {"ok"}

FormInv ==
  /\ form \in [Tabs -> Forms]
  /\ awaited \subseteq AllFetches
  /\ \A c \in awaited : request[c].pc # "none"
  /\ \A t \in Tabs : FormOK(t)

\* The server never forgets a request.
LEMMA BegunStaysBegun ==
  ASSUME IInv, ServerNext, NEW k \in Clients, request[k].pc # "none"
  PROVE  request'[k].pc # "none"
<1> USE RequestType DEF IInv
<1>1. ASSUME NEW c \in Clients, NEW pc \in AnswerPcs, NEW p, Answer(c, pc, p)
      PROVE  request'[k].pc # "none"
  BY <1>1 DEF Answer, NoRequest, AnswerPcs
<1>2. ASSUME NEW c \in Clients, RequestStep(c) PROVE request'[k].pc # "none"
  <2>1. CASE Admit(c)
    BY <1>1, <2>1 DEF Admit, AnswerPcs, RequestRecords
  <2>2. CASE Insert(c)
    BY <1>1, <2>2 DEF Insert, Succeed, Fail, AnswerPcs
  <2>3. CASE EnsureExists(c)
    BY <1>1, <2>3 DEF EnsureExists, GoOn, AnswerPcs, RequestRecords
  <2>4. CASE Write(c)
    BY <1>1, <2>4 DEF Write, Succeed, Fail, AnswerPcs
  <2> QED
    BY <1>2, <2>1, <2>2, <2>3, <2>4 DEF RequestStep
<1>3. ASSUME NEW c \in Clients, Break(c) \/ BreakAfterWrite(c) PROVE request'[k].pc # "none"
  BY <1>1, <1>3 DEF Break, BreakAfterWrite, AnswerPcs
<1>4. ASSUME NEW a \in pending, PersistAudit(a) \/ LoseAudit(a) PROVE request'[k].pc # "none"
  BY <1>4 DEF PersistAudit, LoseAudit
<1> QED
  BY <1>2, <1>3, <1>4 DEF ServerNext

\* The API leaves alone what a tab has heard, and forgets nothing it waits for.
LEMMA ApiKeepsForms ==
  ASSUME IInv, FormInv, ApiStep PROVE FormInv'
<1>0. AllFetches \subseteq Clients
  BY PanelAssumption DEF AllFetches
<1>1. form' = form /\ awaited' = awaited /\ HeardStays
  BY DEF ApiStep, panelVars
<1>2. ASSUME NEW c \in awaited PROVE request'[c].pc # "none"
  <2>1. c \in AllFetches /\ c \in Clients /\ request[c].pc # "none"
    BY <1>0 DEF FormInv
  <2>2. CASE ServerNext
    BY <2>1, <2>2, BegunStaysBegun
  <2>3. ASSUME NEW k \in Clients \ AllFetches, SomeRequest(k) PROVE request'[c].pc # "none"
    <3>1. PICK r : request' = [request EXCEPT ![k] = r]
      BY <2>3 DEF SomeRequest, Send
    <3> QED
      BY <2>1, <3>1, RequestType DEF IInv
  <2> QED
    BY <2>2, <2>3 DEF ApiStep
<1>3. ASSUME NEW t \in Tabs PROVE FormOK(t)'
  <2>1. \A c \in form[t].fetch \ awaited : request'[c] = request[c]
    BY <1>1 DEF FormInv, FormOK, HeardStays, AllFetches
  <2> QED
    BY <1>1, <2>1 DEF FormInv, FormOK
<1> QED
  BY <1>1, <1>2, <1>3 DEF FormInv

\* What happens in a tab leaves the forms of the others alone.
LEMMA OtherForms ==
  ASSUME FormInv, NEW t \in Tabs, NEW c \in Fetches[t], NEW k \in Tabs \ {t},
         form'[k] = form[k],
         awaited' = awaited \cup {c} \/ awaited' = awaited \ {c},
         \A b \in Fetches[k] : request'[b] = request[b]
  PROVE  FormOK(k)'
<1>1. Fetches[t] \cap Fetches[k] = {}
  BY PanelAssumption
<1>2. form[k].fetch \subseteq Fetches[k] /\ c \notin form[k].fetch
  BY <1>1 DEF FormInv, FormOK
<1>3. /\ form[k].fetch \cap awaited' = form[k].fetch \cap awaited
      /\ form[k].fetch \ awaited' = form[k].fetch \ awaited
  BY <1>2
<1> QED
  BY <1>2, <1>3 DEF FormInv, FormOK

\* A form that is submitted waits for its fetch.
LEMMA SubmitForms ==
  ASSUME IInv, FormInv, NEW t \in Tabs, Submit(t) PROVE FormInv'
<1>1. PICK c \in Fetches[t] \ awaited :
        /\ \E ask \in Asks[c] : Send(c, ask, NoProject)
        /\ awaited' = awaited \cup {c}
        /\ form' = [form EXCEPT ![t] = [submitting |-> TRUE, error |-> FALSE, fetch |-> {c}]]
  BY DEF Submit
<1>2. c \in Clients /\ c \in AllFetches
  BY PanelAssumption DEF AllFetches
<1>3. /\ request'[c].pc = "sent"
      /\ \A k \in Clients \ {c} : request'[k] = request[k]
  BY <1>1, <1>2, RequestType DEF IInv, Send
<1>4. form' \in [Tabs -> Forms]
  BY <1>1, <1>2 DEF FormInv, Forms
<1>5. ASSUME NEW k \in awaited' PROVE request'[k].pc # "none"
  <2>1. CASE k = c
    BY <1>3, <2>1
  <2>2. CASE k # c
    <3>1. k \in awaited /\ k \in AllFetches
      BY <1>1, <1>5, <2>2 DEF FormInv
    <3>2. k \in Clients
      BY <3>1, PanelAssumption DEF AllFetches
    <3> QED
      BY <1>3, <2>2, <3>1, <3>2 DEF FormInv
  <2> QED
    BY <2>1, <2>2
<1>6. FormOK(t)'
  BY <1>1 DEF FormOK, FormInv
<1>7. ASSUME NEW k \in Tabs \ {t} PROVE FormOK(k)'
  <2>1. form'[k] = form[k]
    BY <1>1 DEF FormInv
  <2>2. \A b \in Fetches[k] : request'[b] = request[b]
    BY <1>1, <1>3, PanelAssumption
  <2> QED
    BY <1>1, <2>1, <2>2, OtherForms
<1> QED
  BY <1>1, <1>2, <1>4, <1>5, <1>6, <1>7 DEF FormInv

\* An answer that is heard reaches the form that has asked, if it is still there.
LEMMA HearForms ==
  ASSUME IInv, FormInv, NEW t \in Tabs, NEW c \in Fetches[t], HearAnswer(t, c) PROVE FormInv'
<1>1. /\ c \in awaited /\ awaited' = awaited \ {c} /\ request' = request
      /\ request[c].pc \in AnswerPcs
  BY DEF HearAnswer, vars, FormInv, Over
<1>2. PICK error \in BOOLEAN :
        /\ Settle(t, c, error)
        /\ error => request[c].pc # "ok"
  BY DEF HearAnswer
<1>3. form' \in [Tabs -> Forms] /\ \A k \in Tabs \ {t} : form'[k] = form[k]
  BY <1>2 DEF FormInv, Settle, Forms
<1>4. FormOK(t)'
  <2>1. CASE Mounted(t, c)
    <3>1. form[t].fetch = {c} /\ ~form[t].error
      BY <1>1, <2>1 DEF FormInv, FormOK, Mounted
    <3>2. /\ form'[t].fetch = {c} /\ form'[t].submitting = FALSE
          /\ form'[t].error = (form[t].error \/ error)
      BY <1>2, <2>1, <3>1 DEF FormInv, Settle, Forms
    <3> QED
      BY <1>1, <1>2, <3>1, <3>2 DEF FormOK, FormInv
  <2>2. CASE ~Mounted(t, c)
    <3>1. form'[t] = form[t] /\ c \notin form[t].fetch
      BY <1>2, <2>2 DEF Settle, Mounted
    <3>2. /\ form[t].fetch \cap awaited' = form[t].fetch \cap awaited
          /\ form[t].fetch \ awaited' = form[t].fetch \ awaited
      BY <1>1, <3>1
    <3> QED
      BY <1>1, <3>1, <3>2 DEF FormInv, FormOK
  <2> QED
    BY <2>1, <2>2
<1>5. \A k \in Tabs \ {t} : FormOK(k)'
  BY <1>1, <1>3, OtherForms
<1> QED
  BY <1>1, <1>3, <1>4, <1>5 DEF FormInv

\* A new form has sent nothing.
LEMMA RenderForms ==
  ASSUME FormInv, NEW t \in Tabs, NEW page, NEW rows, NEW count, NEW cause,
         Render(t, page, rows, count, cause)
  PROVE  FormInv'
<1>1. form' = [form EXCEPT ![t] = NoForm] /\ awaited' = awaited /\ request' = request
  BY DEF Render, vars
<1>2. form' \in [Tabs -> Forms] /\ form'[t] = NoForm /\ \A k \in Tabs \ {t} : form'[k] = form[k]
  BY <1>1 DEF FormInv, Forms, NoForm
<1>3. FormOK(t)'
  BY <1>2 DEF FormOK, NoForm
<1>4. \A k \in Tabs \ {t} : FormOK(k)'
  BY <1>1, <1>2 DEF FormInv, FormOK
<1> QED
  BY <1>1, <1>2, <1>3, <1>4 DEF FormInv

\* FormInv is inductive.
LEMMA FormInduction == IInv /\ FormInv /\ [PanelNext]_allVars => FormInv'
<1> SUFFICES ASSUME IInv, FormInv, [PanelNext]_allVars PROVE FormInv'
  OBVIOUS
<1>1. CASE ApiStep
  BY <1>1, ApiKeepsForms
<1>2. ASSUME NEW t \in Tabs, TabStep(t) PROVE FormInv'
  <2>1. CASE Submit(t)
    BY <2>1, SubmitForms
  <2>2. CASE \E c \in Fetches[t] : HearAnswer(t, c)
    BY <2>2, HearForms
  <2>3. CASE UNCHANGED <<vars, form, awaited>>
    BY <2>3 DEF vars, FormInv, FormOK
  <2>4. CASE BreakPage(t) \/ ShowPage(t)
    BY <2>4, RenderForms DEF BreakPage, ShowPage, CatchError
  <2>5. CASE Navigate(t) \/ \E part \in load[t].todo : ReadPart(t, part)
    BY <2>3, <2>5, RenderForms DEF Navigate, ReadPart, CatchError
  <2> QED
    BY <1>2, <2>1, <2>2, <2>4, <2>5 DEF TabStep
<1>3. CASE UNCHANGED allVars
  BY <1>3 DEF allVars, vars, panelVars, FormInv, FormOK
<1> QED
  BY <1>1, <1>2, <1>3 DEF PanelNext

\* The forms of an empty panel.
LEMMA InitForms == PanelInit => FormInv
  BY DEF PanelInit, FormInv, FormOK, Forms, NoForm

\* The message a form shows is about its own request, and true of it unless a fault
\* has hit it, however many requests of forms before it are still open: what the
\* user is told of is not in the database.
THEOREM FormErrorsAreTrue == PanelSpec => []ErrorIsTrue
<1>1. PanelSpec => []IInv
  BY PanelImplementsApi, Invariance, PTL
<1>2. IInv /\ FormInv => ErrorIsTrue
  <2> SUFFICES ASSUME IInv, FormInv, NEW t \in Tabs, form[t].error
               PROVE  \E c \in form[t].fetch : Name(c) \in struck \/ Name(c) \notin effects
    BY DEF ErrorIsTrue
  <2>1. PICK c \in form[t].fetch : request[c].pc \in AnswerPcs \ {"ok"}
    BY DEF FormInv, FormOK
  <2>2. c \in Clients
    BY <2>1, PanelAssumption DEF FormInv, FormOK
  <2> QED
    BY <2>1, <2>2 DEF IInv, AnswerIsTrue
<1> QED
  BY <1>1, <1>2, InitForms, FormInduction, PTL DEF PanelSpec

\* A form is disabled exactly while its own request is open, whatever requests of
\* forms before it still are: none stays disabled, and none sends twice at once.
THEOREM FormsFollowFetches == PanelSpec => []FormFollowsFetch
<1>1. PanelSpec => []IInv
  BY PanelImplementsApi, Invariance, PTL
<1>2. FormInv => FormFollowsFetch
  BY DEF FormInv, FormOK, FormFollowsFetch
<1> QED
  BY <1>1, <1>2, InitForms, FormInduction, PTL DEF PanelSpec
--------------------------------------------------------------------------------
(* Rows that come and go *)

Least(a, b) == IF a < b THEN a ELSE b

\* The newest n rows are n, or all; ids are given out in order.
RowInv ==
  /\ \A p \in Projects : p > born => project[p] = Unborn
  /\ \A n \in Nat : Cardinality(Newest(n, Existing)) = Least(n, Cardinality(Existing))

\* Sets of projects are finite.
LEMMA SomeRows ==
  ASSUME NEW S \in SUBSET Projects
  PROVE  /\ IsFiniteSet(S) /\ Cardinality(S) \in Nat /\ Cardinality(S) <= MaxProjects
         /\ \A q \in S : q \in Nat
<1>1. IsFiniteSet(Projects) /\ Cardinality(Projects) = MaxProjects
  BY ApiAssumption, FS_Interval DEF Projects
<1>2. IsFiniteSet(S) /\ Cardinality(S) <= MaxProjects
  BY <1>1, FS_Subset
<1>3. Cardinality(S) \in Nat
  BY <1>2, FS_CardinalityType
<1>4. \A q \in Projects : q \in Nat
  BY DEF Projects
<1> QED
  BY <1>1, <1>2, <1>3, <1>4

Above(r, S) == {q \in S : q > r}

\* The newest n of a set are those with fewer than n above them.
LEMMA NewestAbove ==
  ASSUME NEW n, NEW S
  PROVE  \A r : r \in Newest(n, S) <=> r \in S /\ Cardinality(Above(r, S)) < n
BY DEF Newest, Above

\* A new row is the newest.
LEMMA NewestOfMore ==
  ASSUME NEW S \in SUBSET Projects, NEW p \in Projects, \A q \in S : q < p,
         \A n \in Nat : Cardinality(Newest(n, S)) = Least(n, Cardinality(S))
  PROVE  \A n \in Nat : Cardinality(Newest(n, S \cup {p})) = Least(n, Cardinality(S \cup {p}))
<1> DEFINE T == S \cup {p}
<1>1. /\ T \in SUBSET Projects /\ p \notin S /\ p \in Nat
      /\ \A q \in S : q \in Nat
  BY DEF Projects
<1>2. Cardinality(T) = Cardinality(S) + 1 /\ Cardinality(S) \in Nat
  BY <1>1, SomeRows, FS_AddElement
<1>3. Cardinality(Above(p, T)) = 0
  <2>1. \A q \in S : ~(q > p)
    <3> TAKE q \in S
    <3>1. q < p /\ q \in Nat /\ p \in Nat
      BY <1>1
    <3> QED
      BY <3>1
  <2>2. ~(p > p)
    BY <1>1
  <2>3. Above(p, T) = {}
    BY <2>1, <2>2 DEF Above
  <2> QED
    BY <2>3, FS_EmptySet
<1>4. ASSUME NEW r \in S PROVE Cardinality(Above(r, T)) = Cardinality(Above(r, S)) + 1
                               /\ Cardinality(Above(r, S)) \in Nat
  <2>1. Above(r, T) = Above(r, S) \cup {p} /\ p \notin Above(r, S)
        /\ Above(r, S) \in SUBSET Projects
    BY <1>1 DEF Above
  <2> QED
    BY <2>1, SomeRows, FS_AddElement
<1>5. ASSUME NEW n \in Nat PROVE Cardinality(Newest(n, T)) = Least(n, Cardinality(T))
  <2>1. CASE n = 0
    <3>1. ASSUME NEW r \in T PROVE ~(Cardinality(Above(r, T)) < n)
      <4>1. Cardinality(Above(r, T)) \in Nat
        <5>1. CASE r = p
          BY <1>3, <5>1
        <5>2. CASE r \in S
          BY <1>4, <5>2
        <5> QED
          BY <5>1, <5>2
      <4> QED
        BY <2>1, <4>1
    <3>2. Newest(n, T) = {}
      BY <3>1, NewestAbove
    <3>3. Cardinality(Newest(n, T)) = 0
      BY <3>2, FS_EmptySet
    <3>4. Least(n, Cardinality(T)) = 0
      BY <1>2, <2>1 DEF Least
    <3> QED
      BY <3>3, <3>4
  <2>2. CASE n # 0
    <3>1. n - 1 \in Nat
      BY <2>2
    <3>2. Newest(n, T) = Newest(n - 1, S) \cup {p} /\ p \notin Newest(n - 1, S)
      <4>1. p \in Newest(n, T) /\ p \notin Newest(n - 1, S)
        BY <1>1, <1>3, <2>2, NewestAbove
      <4>2. ASSUME NEW r \in S PROVE r \in Newest(n, T) <=> r \in Newest(n - 1, S)
        <5>1. Cardinality(Above(r, T)) < n <=> Cardinality(Above(r, S)) < n - 1
          BY <1>4
        <5> QED
          BY <5>1, NewestAbove
      <4> QED
        BY <4>1, <4>2, NewestAbove
    <3>3. IsFiniteSet(Newest(n - 1, S))
      BY <1>1, NewestAbove, SomeRows
    <3>4. Cardinality(Newest(n - 1, S) \cup {p}) = Cardinality(Newest(n - 1, S)) + 1
      BY <3>2, <3>3, FS_AddElement
    <3>5. Cardinality(Newest(n - 1, S)) = Least(n - 1, Cardinality(S))
      BY <3>1
    <3>6. Cardinality(Newest(n, T)) = Least(n - 1, Cardinality(S)) + 1
      BY <3>2, <3>4, <3>5
    <3>7. Least(n - 1, Cardinality(S)) + 1 = Least(n, Cardinality(S) + 1)
      BY <1>2, <3>1 DEF Least
    <3> QED
      BY <1>2, <3>6, <3>7
  <2> QED
    BY <2>1, <2>2
<1> QED
  BY <1>5

\* Without one of the newest rows the next one moves up; without another row the
\* newest are the same.
LEMMA NewestOfFewer ==
  ASSUME NEW S \in SUBSET Projects, NEW p \in S,
         \A n \in Nat : Cardinality(Newest(n, S)) = Least(n, Cardinality(S))
  PROVE  \A n \in Nat : Cardinality(Newest(n, S \ {p})) = Least(n, Cardinality(S \ {p}))
<1> DEFINE T == S \ {p}
<1>1. /\ T \in SUBSET Projects /\ S \in SUBSET Projects
      /\ \A q \in S : q \in Nat
  BY DEF Projects
<1>2. /\ Cardinality(S) = Cardinality(T) + 1
      /\ Cardinality(T) \in Nat /\ Cardinality(S) \in Nat
  BY <1>1, SomeRows, FS_RemoveElement
<1>3. \A r \in S : Above(r, S) \in SUBSET Projects /\ Cardinality(Above(r, S)) \in Nat
  BY SomeRows DEF Above
<1>4. ASSUME NEW r \in T, r < p
      PROVE  /\ Cardinality(Above(r, S)) = Cardinality(Above(r, T)) + 1
             /\ Cardinality(Above(r, T)) \in Nat
             /\ Cardinality(Above(r, S)) > Cardinality(Above(p, S))
  <2>1. Above(r, T) = Above(r, S) \ {p} /\ p \in Above(r, S) /\ Above(r, T) \in SUBSET Projects
    BY <1>1, <1>4 DEF Above
  <2>2. /\ Cardinality(Above(r, S)) = Cardinality(Above(r, T)) + 1
        /\ Cardinality(Above(r, T)) \in Nat
    <3>1. IsFiniteSet(Above(r, S)) /\ Cardinality(Above(r, S)) \in Nat
      BY <1>3, SomeRows
    <3>2. Cardinality(Above(r, S) \ {p}) = Cardinality(Above(r, S)) - 1
      BY <2>1, <3>1, FS_RemoveElement
    <3>3. Cardinality(Above(r, T)) \in Nat
      BY <2>1, SomeRows
    <3>4. Cardinality(Above(r, T)) = Cardinality(Above(r, S)) - 1
      BY <2>1, <3>2
    <3> QED
      BY <3>1, <3>3, <3>4
  <2>3. Above(p, S) \in SUBSET Above(r, T)
    BY <1>1, <1>4 DEF Above
  <2>4. Cardinality(Above(p, S)) <= Cardinality(Above(r, T))
    BY <2>1, <2>3, SomeRows, FS_Subset
  <2> QED
    BY <1>3, <2>2, <2>4
<1>5. ASSUME NEW r \in T, r > p
      PROVE  /\ Cardinality(Above(r, S)) = Cardinality(Above(r, T))
             /\ Cardinality(Above(r, S)) < Cardinality(Above(p, S))
  <2>1. Above(r, T) = Above(r, S)
    BY <1>1, <1>5 DEF Above
  <2>2. /\ Above(r, S) \cup {r} \in SUBSET Above(p, S)
        /\ r \notin Above(r, S)
    BY <1>1, <1>5 DEF Above
  <2>3. Cardinality(Above(r, S) \cup {r}) = Cardinality(Above(r, S)) + 1
    BY <1>3, <2>2, SomeRows, FS_AddElement
  <2>4. Cardinality(Above(r, S) \cup {r}) <= Cardinality(Above(p, S))
    BY <1>3, <2>2, SomeRows, FS_Subset
  <2> QED
    BY <1>3, <2>1, <2>3, <2>4
<1>6. \A r \in T : r < p \/ r > p
  BY <1>1
<1>7. ASSUME NEW n \in Nat PROVE Cardinality(Newest(n, T)) = Least(n, Cardinality(T))
  <2>1. CASE Cardinality(Above(p, S)) < n
    <3>1. p \in Newest(n + 1, S)
      BY <1>3, <2>1, NewestAbove
    <3>2. Newest(n, T) = Newest(n + 1, S) \ {p}
      <4>1. ASSUME NEW r \in T PROVE r \in Newest(n, T) <=> r \in Newest(n + 1, S)
        <5>1. CASE r < p
          <6>1. Cardinality(Above(r, T)) < n <=> Cardinality(Above(r, S)) < n + 1
            BY <1>4, <5>1
          <6> QED
            BY <6>1, NewestAbove
        <5>2. CASE r > p
          <6>1. Cardinality(Above(r, T)) < n /\ Cardinality(Above(r, S)) < n + 1
            BY <1>3, <1>5, <2>1, <5>2
          <6> QED
            BY <6>1, NewestAbove
        <5> QED
          BY <1>6, <5>1, <5>2
      <4> QED
        BY <4>1, NewestAbove
    <3>3. /\ IsFiniteSet(Newest(n + 1, S))
          /\ Cardinality(Newest(n + 1, S)) = Least(n + 1, Cardinality(S))
      BY NewestAbove, SomeRows
    <3>4. Cardinality(Newest(n, T)) = Least(n + 1, Cardinality(S)) - 1
      BY <3>1, <3>2, <3>3, FS_RemoveElement
    <3> QED
      BY <1>2, <3>4 DEF Least
  <2>2. CASE ~(Cardinality(Above(p, S)) < n)
    <3>1. Newest(n, T) = Newest(n, S)
      <4>1. ASSUME NEW r \in T PROVE r \in Newest(n, T) <=> r \in Newest(n, S)
        <5>1. CASE r < p
          BY <1>3, <1>4, <2>2, <5>1, NewestAbove
        <5>2. CASE r > p
          BY <1>5, <5>2, NewestAbove
        <5> QED
          BY <1>6, <5>1, <5>2
      <4>2. p \notin Newest(n, S)
        BY <2>2, NewestAbove
      <4> QED
        BY <4>1, <4>2, NewestAbove
    <3>2. Cardinality(Above(p, S)) < Cardinality(S)
      <4>1. Above(p, S) \in SUBSET T
        BY <1>1 DEF Above
      <4>2. Cardinality(Above(p, S)) <= Cardinality(T)
        BY <1>1, <4>1, SomeRows, FS_Subset
      <4> QED
        BY <1>2, <1>3, <4>2
    <3> QED
      BY <1>2, <1>3, <2>2, <3>1, <3>2 DEF Least
  <2> QED
    BY <2>1, <2>2
<1> QED
  BY <1>7
Close(a, b, d) == a <= b + d /\ b <= a + d

Gone == {p \in Projects : project[p] = Deleted}

\* A step changes the number of rows at most as much as it counts.
RowsMove ==
  /\ Changes \in Nat /\ Changes' \in Nat /\ Changes <= Changes'
  /\ Close(Cardinality(Existing)', Cardinality(Existing), Changes' - Changes)

\* Changes are the projects that were born and those that went.
LEMMA ChangesType ==
  ASSUME TypeOK
  PROVE  /\ Changes \in Nat /\ Changes <= 2 * MaxProjects
         /\ Changes = born + Cardinality(Gone) /\ Cardinality(Gone) \in Nat
         /\ Existing \in SUBSET Projects /\ Gone \in SUBSET Projects
<1>1. Existing \in SUBSET Projects /\ Gone \in SUBSET Projects
  BY DEF Existing, Gone
<1>2. Cardinality(Gone) \in Nat /\ Cardinality(Gone) <= MaxProjects
  BY <1>1, SomeRows
<1>3. born \in Nat /\ born <= MaxProjects /\ MaxProjects \in Nat
  BY ApiAssumption DEF TypeOK
<1>4. Changes = born + Cardinality(Gone)
  BY DEF Changes, Gone
<1> QED
  BY <1>1, <1>2, <1>3, <1>4

\* A step that leaves the set of rows alone.
LEMMA SameRows ==
  ASSUME TypeOK, TypeOK', RowInv, born' = born, Existing' = Existing, Gone' = Gone,
         \A p \in Projects : p > born => project'[p] = project[p]
  PROVE  RowInv' /\ RowsMove
<1>1. Changes' = Changes /\ Changes \in Nat
  <2>1. Changes' = (born + Cardinality(Gone))'
    BY DEF Changes, Gone
  <2> QED
    BY <2>1, ChangesType
<1>2. Cardinality(Existing)' = Cardinality(Existing) /\ Cardinality(Existing) \in Nat
  BY ChangesType, SomeRows
<1>3. RowsMove
  BY <1>1, <1>2 DEF RowsMove, Close
<1>4. RowInv'
  BY DEF RowInv
<1> QED
  BY <1>3, <1>4

\* A step that inserts a row, which is then the newest.
LEMMA RowInserted ==
  ASSUME TypeOK, TypeOK', RowInv, NEW row \in Rows, born + 1 \in Projects, born' = born + 1,
         project' = [project EXCEPT ![born + 1] = row]
  PROVE  RowInv' /\ RowsMove
<1> DEFINE p == born + 1
<1>1. /\ project'[p] = row /\ \A q \in Projects \ {p} : project'[q] = project[q]
      /\ project[p] = Unborn
      /\ born \in Nat /\ p \in Nat /\ \A q \in Projects : q \in Nat
  BY DEF TypeOK, RowInv, Projects
<1>2. Existing' = Existing \cup {p} /\ p \notin Existing
  BY <1>1, RowAssumption DEF Existing, Exists
<1>3. Gone' = Gone
  BY <1>1, RowAssumption DEF Gone
<1>4. \A q \in Projects : q > p => project'[q] = Unborn
  BY <1>1 DEF RowInv
<1>5. \A q \in Existing : q < p
  BY <1>1 DEF Existing, Exists, RowInv
<1>6. \A n \in Nat : Cardinality(Newest(n, Existing)) = Least(n, Cardinality(Existing))
  BY DEF RowInv
<1>7. \A n \in Nat : Cardinality(Newest(n, Existing \cup {p})) = Least(n, Cardinality(Existing \cup {p}))
  <2>1. Existing \in SUBSET Projects
    BY DEF Existing
  <2> QED
    BY <1>5, <1>6, <2>1, NewestOfMore
<1>8. RowInv'
  BY <1>2, <1>4, <1>7 DEF RowInv
<1>9. Changes' = Changes + 1 /\ Changes \in Nat
  <2>1. Changes' = (born + Cardinality(Gone))'
    BY DEF Changes, Gone
  <2> QED
    BY <1>1, <1>3, <2>1, ChangesType
<1>10. /\ Cardinality(Existing)' = Cardinality(Existing) + 1
       /\ Cardinality(Existing) \in Nat
  <2>1. IsFiniteSet(Existing) /\ Cardinality(Existing) \in Nat
    BY ChangesType, SomeRows
  <2> QED
    BY <1>2, <2>1, FS_AddElement
<1>11. RowsMove
  BY <1>9, <1>10 DEF RowsMove, Close
<1> QED
  BY <1>8, <1>11

\* A step that deletes a row.
LEMMA RowRemoved ==
  ASSUME TypeOK, TypeOK', RowInv, NEW p \in Projects, Exists(p), born' = born,
         project' = [project EXCEPT ![p] = Deleted]
  PROVE  RowInv' /\ RowsMove
<1>1. /\ project'[p] = Deleted /\ \A q \in Projects \ {p} : project'[q] = project[q]
      /\ project[p] \notin {Unborn, Deleted}
  BY DEF TypeOK, Exists
<1>2. Existing' = Existing \ {p} /\ p \in Existing
  BY <1>1 DEF Existing, Exists
<1>3. Gone' = Gone \cup {p} /\ p \notin Gone
  BY <1>1 DEF Gone
<1>4. \A q \in Projects : q > born => project'[q] = Unborn
  BY <1>1 DEF RowInv
<1>5. \A n \in Nat : Cardinality(Newest(n, Existing \ {p})) = Least(n, Cardinality(Existing \ {p}))
  <2>1. Existing \in SUBSET Projects
    BY DEF Existing
  <2>2. \A n \in Nat : Cardinality(Newest(n, Existing)) = Least(n, Cardinality(Existing))
    BY DEF RowInv
  <2> QED
    BY <1>2, <2>1, <2>2, NewestOfFewer
<1>6. RowInv'
  BY <1>2, <1>4, <1>5 DEF RowInv
<1>7. /\ IsFiniteSet(Existing) /\ Cardinality(Existing) \in Nat
      /\ IsFiniteSet(Gone) /\ Cardinality(Gone) \in Nat /\ born \in Nat
      /\ Cardinality(Existing \ {p}) \in Nat
  <2>1. Existing \ {p} \in SUBSET Projects
    BY ChangesType
  <2> QED
    BY <2>1, ChangesType, SomeRows DEF TypeOK
<1>8. Changes' = Changes + 1 /\ Changes \in Nat
  <2>1. Changes' = (born + Cardinality(Gone))'
    BY DEF Changes, Gone
  <2>2. Cardinality(Gone \cup {p}) = Cardinality(Gone) + 1
    BY <1>3, <1>7, FS_AddElement
  <2> QED
    BY <1>3, <1>7, <2>1, <2>2, ChangesType
<1>9. Cardinality(Existing)' = Cardinality(Existing) - 1
  <2>1. Cardinality(Existing \ {p}) = Cardinality(Existing) - 1
    BY <1>2, <1>7, FS_RemoveElement
  <2> QED
    BY <1>2, <2>1
<1>10. RowsMove
  BY <1>7, <1>8, <1>9 DEF RowsMove, Close
<1> QED
  BY <1>6, <1>10

\* Only a create adds a row, and only a removal takes one away.
LEMMA RowWritten ==
  ASSUME IInv, TypeOK', RowInv, NEW c \in Clients, request[c].pc = "write",
         CanWrite(request[c].id, request[c].ask), born' = born,
         project' = [project EXCEPT ![request[c].id] = Written(@, request[c].ask)]
  PROVE  RowInv' /\ RowsMove
<1> DEFINE p == request[c].id
           ask == request[c].ask
<1>1. ask.op # "create" /\ ask \in Asks[c] /\ p \in Projects /\ Exists(p)
  BY DEF IInv, Over, AnswerPcs, StagesOK, OpenPcs, CanWrite, Exists
<1>2. project[p] \in Rows /\ TypeOK
  BY <1>1 DEF IInv, TypeOK, Exists
<1>3. PICK row : row = Written(project[p], ask)
  OBVIOUS
<1>4. row \in Rows \cup {Deleted}
  BY <1>1, <1>2, <1>3, WrittenType
<1>5. project' = [project EXCEPT ![p] = row]
  BY <1>3
<1>6. CASE row = Deleted
  BY <1>1, <1>2, <1>5, <1>6, RowRemoved
<1>7. CASE row \in Rows
  <2>1. project'[p] = row /\ \A q \in Projects \ {p} : project'[q] = project[q]
    BY <1>1, <1>2, <1>5 DEF TypeOK
  <2>2. Existing' = Existing /\ Gone' = Gone
    BY <1>1, <1>2, <1>7, <2>1, RowAssumption DEF Existing, Gone, Exists
  <2>3. \A q \in Projects : q > born => project'[q] = project[q]
    BY <1>1, <2>1 DEF RowInv, Exists
  <2> QED
    BY <1>2, <2>2, <2>3, SameRows
<1> QED
  BY <1>4, <1>6, <1>7

\* RowInv is inductive, and the rows move by what Changes counts.
LEMMA RowInduction ==
  ASSUME IInv, RowInv, [Next]_vars PROVE RowInv' /\ RowsMove
<1>0. TypeOK /\ TypeOK'
  BY Induction DEF IInv
<1>1. ASSUME UNCHANGED <<project, born>> PROVE RowInv' /\ RowsMove
  <2>1. Existing' = Existing /\ Gone' = Gone
    BY <1>1 DEF Existing, Exists, Gone
  <2> QED
    BY <1>0, <1>1, <2>1, SameRows
<1>2. ASSUME NEW c \in Clients, request[c].pc = "insert",
             DomainFree(request[c].ask.arg, NoProject), born' = born + 1,
             project' = [project EXCEPT ![born + 1] =
                           [domain |-> request[c].ask.arg, connection |-> "unknown"]]
      PROVE  RowInv' /\ RowsMove
  <2>1. PICK row : row = [domain |-> request[c].ask.arg, connection |-> "unknown"]
    OBVIOUS
  <2>2. project' = [project EXCEPT ![born + 1] = row]
    BY <1>2, <2>1
  <2>3. born + 1 \in Projects
    BY <1>2, InsertedRow
  <2>4. row \in Rows
    <3>1. request[c].ask \in Asks[c] /\ request[c].ask.op = "create"
      BY <1>2 DEF IInv, Over, AnswerPcs, StagesOK, OpenPcs
    <3> QED
      BY <2>1, <3>1, ApiAssumption DEF Suits, Rows, Connections
  <2> QED
    BY <1>0, <1>2, <2>2, <2>3, <2>4, RowInserted
<1>3. ASSUME NEW c \in Clients, Insert(c) PROVE RowInv' /\ RowsMove
  BY <1>1, <1>2, <1>3 DEF Insert, Fail
<1>4. ASSUME NEW c \in Clients, Write(c) PROVE RowInv' /\ RowsMove
  BY <1>0, <1>1, <1>4, RowWritten DEF Write, Fail
<1>5. ASSUME NEW c \in Clients, BreakAfterWrite(c) PROVE RowInv' /\ RowsMove
  BY <1>0, <1>2, <1>5, RowWritten DEF BreakAfterWrite
<1>6. ASSUME NEW c \in Clients, Admit(c) \/ EnsureExists(c) \/ Break(c) PROVE RowInv' /\ RowsMove
  BY <1>1, <1>6 DEF Admit, EnsureExists, Break
<1>7. ASSUME NEW a \in pending, PersistAudit(a) \/ LoseAudit(a) PROVE RowInv' /\ RowsMove
  BY <1>1, <1>7 DEF PersistAudit, LoseAudit
<1>8. ASSUME NEW c \in Clients, SomeRequest(c) PROVE RowInv' /\ RowsMove
  BY <1>1, <1>8 DEF SomeRequest, Send
<1> QED
  BY <1>1, <1>3, <1>4, <1>5, <1>6, <1>7, <1>8 DEF Next, ServerNext, RequestStep, vars
--------------------------------------------------------------------------------
(* What a page has read *)

\* What has been read of a list differs from what it was read from, and the total
\* from the number of rows, at most by the changes since the page was asked for.
LoadOK(l) ==
  /\ l.page # "projects" => l.rows = {} /\ l.count = 0
  /\ l.page = "projects" =>
       LET listed == Cardinality(l.rows)
           rows == Cardinality(Existing)
           drift == Changes - l.since
       IN /\ "rows" \notin l.todo /\ "count" \in l.todo =>
               Close(listed, Least(PageSize, rows), drift)
          /\ "rows" \in l.todo /\ "count" \notin l.todo => Close(l.count, rows, drift)
          /\ l.todo = {} => Close(listed, Least(PageSize, l.count), drift)

LoadPages == {"none", "projects", "new", "project"}

Loads == [page : LoadPages, at : Projects \cup {NoProject},
          todo : SUBSET {"rows", "count", "findOne", "installations", "contentJobs", "systemLogs"},
          rows : SUBSET Projects, count : 0 .. MaxProjects, since : 0 .. 2 * MaxProjects]

Pages == [page : {"blank", "projects", "new", "project", "missing"}, at : Projects \cup {NoProject},
          rows : SUBSET Projects, count : 0 .. MaxProjects, cause : {"none", "refused", "fault"},
          drift : 0 .. 2 * MaxProjects]

PageInv ==
  /\ shown \in [Tabs -> Pages] /\ load \in [Tabs -> Loads]
  /\ \A t \in Tabs :
       /\ OnProject(shown[t]) /\ OnProject(load[t])
       /\ load[t].since <= Changes /\ load[t].todo \subseteq Parts(load[t].page)
       /\ LoadOK(load[t])
  /\ TotalAgrees

\* The distances add up.
LEMMA Further ==
  ASSUME NEW a \in Nat, NEW b \in Nat, NEW c \in Nat, NEW d \in Nat, NEW e \in Nat,
         Close(a, b, d), Close(c, b, e)
  PROVE  Close(a, c, d + e)
BY DEF Close

\* Cutting two counts at a page's size does not take them apart.
LEMMA FurtherLeast ==
  ASSUME NEW n \in Nat, NEW a \in Nat, NEW b \in Nat, NEW d \in Nat, Close(a, b, d)
  PROVE  Close(Least(n, a), Least(n, b), d) /\ Least(n, a) \in Nat
BY DEF Close, Least

\* Differences of natural numbers add up.
LEMMA Differences ==
  ASSUME NEW a \in Nat, NEW b \in Nat, NEW c \in Nat, a <= b, b <= c
  PROVE  \E d \in Nat, e \in Nat : d = b - a /\ e = c - b /\ d + e = c - a
<1>1. b - a \in Nat /\ c - b \in Nat /\ (b - a) + (c - b) = c - a
  OBVIOUS
<1> QED
  BY <1>1

\* While rows come and go what has been read stays as close as the changes allow.
LEMMA LoadStays ==
  ASSUME TypeOK, TypeOK', RowsMove, NEW l \in Loads, l.since <= Changes, LoadOK(l)
  PROVE  LoadOK(l)' /\ l.since <= Changes'
<1> DEFINE N == Cardinality(Existing)
<1>1. Changes \in Nat /\ Changes' \in Nat /\ Changes <= Changes' /\ l.since \in Nat /\ l.count \in Nat
  BY ApiAssumption DEF RowsMove, Loads
<1>2. N \in Nat /\ N' \in Nat /\ Cardinality(l.rows) \in Nat /\ PageSize \in Nat
  <2>1. Existing \in SUBSET Projects /\ (Existing \in SUBSET Projects)' /\ l.rows \in SUBSET Projects
    BY DEF Existing, Loads
  <2> QED
    BY <2>1, SomeRows, PanelAssumption
<1>3. PICK d \in Nat, e \in Nat : /\ d = Changes - l.since /\ e = Changes' - Changes
                                  /\ d + e = Changes' - l.since
  BY <1>1, Differences
<1>4. Close(N', N, e)
  BY <1>3 DEF RowsMove
<1>5. Close(Least(PageSize, N'), Least(PageSize, N), e)
      /\ Least(PageSize, N) \in Nat /\ Least(PageSize, N') \in Nat
  BY <1>2, <1>4, FurtherLeast DEF Least
<1>6. l.since <= Changes'
  BY <1>1
<1>7. ASSUME l.page = "projects", "rows" \notin l.todo, "count" \in l.todo
      PROVE  Close(Cardinality(l.rows), Least(PageSize, N'), Changes' - l.since)
  <2>1. Close(Cardinality(l.rows), Least(PageSize, N), d)
    BY <1>3, <1>7 DEF LoadOK
  <2> QED
    BY <1>2, <1>3, <1>5, <2>1, Further
<1>8. ASSUME l.page = "projects", "rows" \in l.todo, "count" \notin l.todo
      PROVE  Close(l.count, N', Changes' - l.since)
  <2>1. Close(l.count, N, d)
    BY <1>3, <1>8 DEF LoadOK
  <2> QED
    BY <1>1, <1>2, <1>3, <1>4, <2>1, Further
<1>9. ASSUME l.page = "projects", l.todo = {}
      PROVE  Close(Cardinality(l.rows), Least(PageSize, l.count), Changes' - l.since)
  <2>1. Close(Cardinality(l.rows), Least(PageSize, l.count), d)
    BY <1>3, <1>9 DEF LoadOK
  <2>2. Least(PageSize, l.count) \in Nat
    BY <1>1, <1>2 DEF Least
  <2> QED
    BY <1>2, <1>3, <2>1, <2>2 DEF Close
<1>10. LoadOK(l)'
  BY <1>7, <1>8, <1>9 DEF LoadOK
<1> QED
  BY <1>6, <1>10

Read(l, part) ==
  [l EXCEPT !.todo = l.todo \ {part},
            !.rows = IF part = "rows" THEN FirstPage ELSE l.rows,
            !.count = IF part = "count" THEN Cardinality(Existing) ELSE l.count]

\* One query of a list is answered.
LEMMA LoadReads ==
  ASSUME TypeOK, RowInv, NEW l \in Loads, l.since <= Changes, l.todo \subseteq Parts(l.page),
         LoadOK(l), NEW part \in l.todo, NEW m, m = Read(l, part)
  PROVE  /\ m \in Loads /\ m.since = l.since /\ m.todo \subseteq Parts(m.page)
         /\ LoadOK(m)
<1> DEFINE N == Cardinality(Existing)
<1>1. /\ m.page = l.page /\ m.since = l.since /\ m.todo = l.todo \ {part} /\ m.at = l.at
      /\ m.rows = (IF part = "rows" THEN FirstPage ELSE l.rows)
      /\ m.count = (IF part = "count" THEN N ELSE l.count)
  BY DEF Loads, Read
<1>2. FirstPage \in SUBSET Projects /\ Existing \in SUBSET Projects /\ l.rows \in SUBSET Projects
  BY DEF FirstPage, Newest, Existing, Loads
<1>3. N \in Nat /\ N <= MaxProjects /\ N \in 0 .. MaxProjects /\ Cardinality(l.rows) \in Nat /\ l.count \in Nat
  BY <1>2, SomeRows, ApiAssumption DEF Loads
<1>4. m \in Loads
  <2>1. m.rows \in SUBSET Projects /\ m.count \in 0 .. MaxProjects
    BY <1>1, <1>2, <1>3 DEF Loads
  <2>2. m = [page |-> m.page, at |-> m.at, todo |-> m.todo, rows |-> m.rows,
             count |-> m.count, since |-> m.since]
    BY DEF Loads, Read
  <2> QED
    BY <1>1, <2>1, <2>2 DEF Loads
<1>5. PageSize \in Nat /\ Cardinality(FirstPage) = Least(PageSize, N)
  BY PanelAssumption DEF RowInv, FirstPage
<1>6. PICK d \in Nat : d = Changes - l.since
  BY ChangesType, ApiAssumption DEF Loads
<1>7. CASE l.page # "projects"
  <2>1. part \notin {"rows", "count"}
    BY <1>7 DEF Parts, Loads, LoadPages
  <2> QED
    BY <1>1, <1>4, <1>7, <2>1 DEF LoadOK
<1>8. CASE l.page = "projects"
  <2>1. l.todo \subseteq {"rows", "count"}
    BY <1>8 DEF Parts
  <2>2. Least(PageSize, N) \in Nat
    BY <1>3, <1>5 DEF Least
  <2>3. CASE part = "rows" /\ "count" \in l.todo
    <3>1. Close(Cardinality(m.rows), Least(PageSize, N), d)
      BY <1>1, <1>5, <2>2, <2>3 DEF Close
    <3> QED
      BY <1>1, <1>4, <1>6, <1>8, <2>3, <3>1 DEF LoadOK
  <2>4. CASE part = "count" /\ "rows" \in l.todo
    <3>1. Close(m.count, N, d)
      BY <1>1, <1>3, <2>4 DEF Close
    <3> QED
      BY <1>1, <1>4, <1>6, <1>8, <2>4, <3>1 DEF LoadOK
  <2>5. CASE part = "rows" /\ "count" \notin l.todo
    <3>1. Close(l.count, N, d)
      BY <1>6, <1>8, <2>5 DEF LoadOK
    <3>2. Close(Least(PageSize, l.count), Least(PageSize, N), d)
      BY <1>3, <1>5, <3>1, FurtherLeast
    <3>3. Close(Cardinality(m.rows), Least(PageSize, m.count), d)
      BY <1>1, <1>5, <2>5, <3>2 DEF Close
    <3> QED
      BY <1>1, <1>4, <1>6, <1>8, <2>1, <2>5, <3>3 DEF LoadOK
  <2>6. CASE part = "count" /\ "rows" \notin l.todo
    <3>1. Close(Cardinality(l.rows), Least(PageSize, N), d)
      BY <1>6, <1>8, <2>6 DEF LoadOK
    <3>2. Close(Cardinality(m.rows), Least(PageSize, m.count), d)
      BY <1>1, <2>6, <3>1
    <3> QED
      BY <1>1, <1>4, <1>6, <1>8, <2>1, <2>6, <3>2 DEF LoadOK
  <2> QED
    BY <2>1, <2>3, <2>4, <2>5, <2>6
<1> QED
  BY <1>7, <1>8
--------------------------------------------------------------------------------
(* The steps of the panel *)

\* A success is about a project.
OkHasRow == \A c \in Clients : request[c].pc = "ok" => request[c].id \in Projects

PanelInv == IInv /\ RowInv /\ OkHasRow /\ FormInv /\ PageInv

\* OkHasRow is inductive: a create answers with the id it has inserted under, the
\* others with that of the row they have written.
LEMMA OkInduction ==
  ASSUME IInv, OkHasRow, [Next]_vars PROVE OkHasRow'
<1>1. ASSUME NEW c \in Clients, NEW pc \in AnswerPcs, NEW p \in Projects \cup {NoProject},
             Answer(c, pc, p), pc = "ok" => p \in Projects
      PROVE  OkHasRow'
  BY <1>1, AnswerResets DEF OkHasRow, IInv
<1>2. ASSUME NEW c \in Clients, NEW r, r.pc # "ok", request' = [request EXCEPT ![c] = r]
      PROVE  OkHasRow'
  BY <1>2, RequestType DEF OkHasRow, IInv
<1>3. \A c \in Clients : request[c].id \in Projects \cup {NoProject}
  BY RequestType DEF IInv, RequestRecords
<1>4. ASSUME NEW c \in Clients, NEW pc \in AnswerPcs \ {"ok"}, Answer(c, pc, request[c].id)
      PROVE  OkHasRow'
  BY <1>1, <1>3, <1>4
<1>5. ASSUME NEW c \in Clients, Admit(c) PROVE OkHasRow'
  <2>1. CASE Answer(c, "unauthorized", request[c].id) \/ Answer(c, "invalid", request[c].id)
    BY <1>4, <2>1 DEF AnswerPcs
  <2>2. ASSUME NEW actor, NEW pc, pc # "ok",
               request' = [request EXCEPT ![c].actor = actor, ![c].pc = pc]
        PROVE  OkHasRow'
    BY <2>2, RequestType DEF OkHasRow, IInv, RequestRecords
  <2> QED
    BY <1>5, <2>1, <2>2 DEF Admit
<1>6. ASSUME NEW c \in Clients, Insert(c) PROVE OkHasRow'
  <2>1. CASE Fail(c, "error")
    BY <1>4, <2>1 DEF Fail, AnswerPcs
  <2>2. CASE DomainFree(request[c].ask.arg, NoProject) /\ Succeed(c, born + 1)
    <3>1. born + 1 \in Projects
      BY <1>6, <2>2, InsertedRow DEF Insert
    <3> QED
      BY <1>1, <2>2, <3>1 DEF Succeed, AnswerPcs
  <2> QED
    BY <1>6, <2>1, <2>2 DEF Insert
<1>7. ASSUME NEW c \in Clients, EnsureExists(c) PROVE OkHasRow'
  <2>1. CASE Answer(c, "missing", request[c].id)
    BY <1>4, <2>1 DEF AnswerPcs
  <2>2. CASE GoOn(c, "write")
    BY <2>2, RequestType DEF GoOn, OkHasRow, IInv, RequestRecords
  <2> QED
    BY <1>7, <2>1, <2>2 DEF EnsureExists
<1>8. ASSUME NEW c \in Clients, Write(c) PROVE OkHasRow'
  <2>1. CASE Fail(c, "error")
    BY <1>4, <2>1 DEF Fail, AnswerPcs
  <2>2. CASE CanWrite(request[c].id, request[c].ask) /\ Succeed(c, request[c].id)
    BY <1>1, <2>2 DEF Succeed, CanWrite, Exists, AnswerPcs
  <2> QED
    BY <1>8, <2>1, <2>2 DEF Write
<1>9. ASSUME NEW c \in Clients, Break(c) \/ BreakAfterWrite(c) PROVE OkHasRow'
  BY <1>4, <1>9 DEF Break, BreakAfterWrite, AnswerPcs
<1>10. ASSUME UNCHANGED request PROVE OkHasRow'
  BY <1>10 DEF OkHasRow
<1>11. ASSUME NEW a \in pending, PersistAudit(a) \/ LoseAudit(a) PROVE OkHasRow'
  BY <1>10, <1>11 DEF PersistAudit, LoseAudit
<1>12. ASSUME NEW c \in Clients, SomeRequest(c) PROVE OkHasRow'
  BY <1>2, <1>12 DEF SomeRequest, Send
<1> QED
  BY <1>5, <1>6, <1>7, <1>8, <1>9, <1>10, <1>11, <1>12 DEF Next, ServerNext, RequestStep, vars

\* A step of the API moves rows away from what tabs have read, and counts it.
LEMMA ApiMoves ==
  ASSUME PanelInv, ApiStep PROVE PanelInv'
<1>1. [Next]_vars /\ [PanelNext]_allVars /\ UNCHANGED panelVars
  BY DEF ApiStep, Next, PanelNext
<1>2. IInv' /\ FormInv' /\ RowInv' /\ OkHasRow' /\ RowsMove
  BY <1>1, Induction, FormInduction, RowInduction, OkInduction DEF PanelInv
<1>3. \A t \in Tabs : load[t] \in Loads /\ load'[t] = load[t] /\ shown'[t] = shown[t]
  BY <1>1 DEF PanelInv, PageInv, panelVars
<1>4. \A t \in Tabs : LoadOK(load[t])' /\ load[t].since <= Changes'
  BY <1>2, <1>3, LoadStays DEF PanelInv, PageInv, IInv
<1>5. PageInv'
  BY <1>1, <1>3, <1>4 DEF PanelInv, PageInv, panelVars, TotalAgrees, LoadOK, OnProject
<1> QED
  BY <1>2, <1>5 DEF PanelInv

\* A page is asked for.
LEMMA Visited ==
  ASSUME PanelInv, NEW t \in Tabs, NEW page \in {"projects", "new", "project"},
         NEW p \in Projects \cup {NoProject}, page = "project" <=> p \in Projects,
         Visit(t, page, p), UNCHANGED <<vars, shown>>
  PROVE  PageInv'
<1>0. PICK since : since = IF page = "projects" THEN Changes ELSE 0
  OBVIOUS
<1>1. PICK l : l = [NoLoad EXCEPT !.page = page, !.at = p, !.todo = Parts(page), !.since = since]
  OBVIOUS
<1>2. /\ l = [page |-> page, at |-> p, todo |-> Parts(page), rows |-> {}, count |-> 0,
              since |-> since]
  BY <1>1 DEF NoLoad
<1>3. /\ Changes \in 0 .. 2 * MaxProjects /\ Changes' = Changes /\ Existing' = Existing
      /\ since \in 0 .. 2 * MaxProjects /\ since <= Changes
  BY <1>0, ChangesType, ApiAssumption DEF PanelInv, IInv, vars, Changes, Existing, Exists
<1>4. l \in Loads
  <2>1. Parts(page) \subseteq {"rows", "count", "findOne", "installations", "contentJobs", "systemLogs"}
    BY DEF Parts
  <2> QED
    BY <1>2, <1>3, <2>1, ApiAssumption DEF Loads, LoadPages
<1>5. load' = [load EXCEPT ![t] = l]
  BY <1>0, <1>1 DEF Visit
<1>6. load' \in [Tabs -> Loads] /\ load'[t] = l /\ \A k \in Tabs \ {t} : load'[k] = load[k]
  BY <1>4, <1>5 DEF PanelInv, PageInv
<1>7. LoadOK(l)
  <2>1. page = "projects" => l.todo = {"rows", "count"}
    BY <1>2 DEF Parts
  <2> QED
    BY <1>2, <2>1 DEF LoadOK
<1>8. l.since <= Changes /\ l.todo \subseteq Parts(l.page) /\ OnProject(l)
  BY <1>2, <1>3 DEF OnProject
<1>9. \A k \in Tabs : /\ load'[k].since <= Changes /\ load'[k].todo \subseteq Parts(load'[k].page)
                      /\ LoadOK(load'[k]) /\ OnProject(load'[k])
  BY <1>6, <1>7, <1>8 DEF PanelInv, PageInv
<1>10. \A k \in Tabs : LoadOK(load[k])'
  BY <1>3, <1>9 DEF LoadOK
<1> QED
  BY <1>3, <1>6, <1>9, <1>10 DEF PanelInv, PageInv, TotalAgrees, OnProject

\* A page is rendered whose list and total are as close as the changes allow.
LEMMA Rendered ==
  ASSUME PanelInv, NEW t \in Tabs, NEW page \in {"projects", "new", "project", "missing"},
         NEW rows \in SUBSET Projects, NEW count \in 0 .. MaxProjects,
         NEW cause \in {"none", "refused", "fault"},
         Render(t, page, rows, count, cause),
         page \in {"project", "missing"} <=> load[t].page = "project",
         NEW drift,
         drift = IF page = "projects" THEN Changes - load[t].since ELSE 0,
         Close(Cardinality(rows), Least(PageSize, count), drift)
  PROVE  PageInv'
<1>1. PICK s : s = [page |-> page, at |-> load[t].at, rows |-> rows, count |-> count,
                    cause |-> cause, drift |-> drift]
  OBVIOUS
<1>2. shown' = [shown EXCEPT ![t] = s] /\ load' = [load EXCEPT ![t] = NoLoad] /\ UNCHANGED vars
  BY <1>1 DEF Render
<1>3. /\ load[t] \in Loads /\ load[t].since \in Nat /\ load[t].since <= Changes
      /\ Changes \in Nat /\ Changes <= 2 * MaxProjects
  BY ChangesType, ApiAssumption DEF PanelInv, PageInv, Loads, IInv
<1>4. s.drift \in 0 .. 2 * MaxProjects
  <2>1. drift \in Nat /\ drift <= 2 * MaxProjects
    BY <1>3, ApiAssumption
  <2> QED
    BY <1>1, <2>1, ApiAssumption
<1>5. s \in Pages
  BY <1>1, <1>3, <1>4 DEF Pages, Loads
<1>12. OnProject(s)
  <2>1. OnProject(load[t]) /\ load[t].page # "missing"
    BY <1>3 DEF PanelInv, PageInv, Loads, LoadPages
  <2> QED
    BY <1>1, <2>1 DEF OnProject
<1>6. /\ NoLoad \in Loads /\ NoLoad.since <= Changes /\ NoLoad.todo \subseteq Parts(NoLoad.page)
      /\ OnProject(NoLoad)
  BY <1>3, ApiAssumption DEF NoLoad, Loads, LoadPages, NoProject, OnProject, Projects
<1>7. Existing' = Existing /\ Changes' = Changes
  BY <1>2 DEF vars, Existing, Exists, Changes
<1>8. /\ shown' \in [Tabs -> Pages] /\ shown'[t] = s /\ load'[t] = NoLoad
      /\ load' \in [Tabs -> Loads]
      /\ \A k \in Tabs \ {t} : shown'[k] = shown[k] /\ load'[k] = load[k]
  BY <1>2, <1>5, <1>6 DEF PanelInv, PageInv
<1>13. \A k \in Tabs : OnProject(load'[k]) /\ OnProject(shown'[k])
  BY <1>6, <1>8, <1>12 DEF PanelInv, PageInv
<1>9. \A k \in Tabs : /\ load'[k].since <= Changes' /\ load'[k].todo \subseteq Parts(load'[k].page)
                      /\ LoadOK(load'[k])
  BY <1>6, <1>7, <1>8 DEF PanelInv, PageInv, LoadOK, NoLoad
<1>10. \A k \in Tabs : LoadOK(load[k])'
  BY <1>7, <1>9 DEF LoadOK
<1>11. TotalAgrees'
  <2>1. PageSize \in Nat /\ count \in Nat
    BY PanelAssumption, ApiAssumption
  <2>2. Least(PageSize, count) = IF count < PageSize THEN count ELSE PageSize
    BY <2>1 DEF Least
  <2> QED
    BY <1>1, <1>8, <2>2 DEF PanelInv, PageInv, TotalAgrees, Close
<1> QED
  BY <1>8, <1>9, <1>10, <1>11, <1>13 DEF PageInv, OnProject

\* An empty list and no total agree.
LEMMA CaughtError ==
  ASSUME PanelInv, NEW t \in Tabs, NEW cause \in {"refused", "fault"}, CatchError(t, cause),
         load[t].todo # {}
  PROVE  PageInv'
<1>1. PICK page \in {"projects", "new", "project", "missing"} :
        /\ Render(t, page, {}, 0, cause)
        /\ page \in {"project", "missing"} <=> load[t].page = "project"
  <2>1. load[t].page \in LoadPages /\ load[t].page # "none"
    BY DEF PanelInv, PageInv, Loads, Parts
  <2> QED
    BY <2>1 DEF CatchError, LoadPages
<1>2. load[t].since \in Nat /\ Changes \in Nat /\ load[t].since <= Changes /\ PageSize \in Nat
  BY ChangesType, ApiAssumption, PanelAssumption DEF PanelInv, PageInv, Loads, IInv
<1>5. PICK drift : drift = IF page = "projects" THEN Changes - load[t].since ELSE 0
  OBVIOUS
<1>3. Close(Cardinality({}), Least(PageSize, 0), drift)
  BY <1>2, <1>5, FS_EmptySet DEF Close, Least
<1>4. 0 \in 0 .. MaxProjects
  BY ApiAssumption
<1> QED
  BY <1>1, <1>3, <1>4, <1>5, Rendered

\* A tab reads what there is, and shows what it has read.
LEMMA TabMoves ==
  ASSUME PanelInv, NEW t \in Tabs, TabStep(t) PROVE PageInv'
<1>0. load[t] \in Loads /\ shown[t] \in Pages /\ LoadOK(load[t])
  BY DEF PanelInv, PageInv
<1>1. CASE Navigate(t)
  <2>1. /\ \A p \in shown[t].rows : p \in Projects
        /\ NoProject \notin Projects
    BY <1>0 DEF Pages, NoProject, Projects
  <2> QED
    BY <1>1, <2>1, Visited DEF Navigate
<1>2. CASE BreakPage(t)
  BY <1>2, CaughtError DEF BreakPage
<1>3. CASE ShowPage(t)
  <2>1. Render(t, load[t].page, load[t].rows, load[t].count, "none")
    BY <1>3 DEF ShowPage
  <2>2. /\ load[t].page \in {"projects", "new", "project", "missing"}
        /\ load[t].rows \in SUBSET Projects /\ load[t].count \in 0 .. MaxProjects
    BY <1>0, <1>3 DEF ShowPage, Loads, LoadPages
  <2>4. PICK drift : drift = IF load[t].page = "projects" THEN Changes - load[t].since ELSE 0
    OBVIOUS
  <2>5. load[t].page \in {"project", "missing"} <=> load[t].page = "project"
    BY <1>0 DEF Loads, LoadPages
  <2>3. Close(Cardinality(load[t].rows), Least(PageSize, load[t].count), drift)
    <3>1. CASE load[t].page = "projects"
      BY <1>0, <1>3, <2>4, <3>1 DEF ShowPage, LoadOK
    <3>2. CASE load[t].page # "projects"
      <4>1. Cardinality(load[t].rows) = 0 /\ load[t].count = 0
        BY <1>0, <3>2, FS_EmptySet DEF LoadOK
      <4>2. load[t].since \in Nat /\ Changes \in Nat /\ load[t].since <= Changes /\ PageSize \in Nat
        BY ChangesType, ApiAssumption, PanelAssumption DEF PanelInv, PageInv, Loads, IInv
      <4> QED
        BY <2>4, <3>2, <4>1, <4>2 DEF Close, Least
    <3> QED
      BY <3>1, <3>2
  <2> QED
    BY <2>1, <2>2, <2>3, <2>4, <2>5, Rendered
<1>4. CASE Submit(t)
  <2>1. Existing' = Existing /\ Changes' = Changes /\ UNCHANGED <<shown, load>>
    BY <1>4 DEF Submit, Send, Existing, Exists, Changes
  <2> QED
    BY <2>1 DEF PanelInv, PageInv, TotalAgrees, LoadOK, OnProject
<1>5. ASSUME NEW c \in Fetches[t], HearAnswer(t, c) PROVE PageInv'
  <2>1. UNCHANGED <<vars, shown>>
    BY <1>5 DEF HearAnswer
  <2>2. CASE request[c].pc = "ok" /\ Visit(t, "project", request[c].id)
    <3>1. request[c].id \in Projects
      BY <2>2, PanelAssumption DEF PanelInv, OkHasRow
    <3> QED
      BY <2>1, <2>2, <3>1, Visited
  <2>3. CASE load' = load
    <3>1. Existing' = Existing /\ Changes' = Changes
      BY <2>1 DEF vars, Existing, Exists, Changes
    <3> QED
      BY <2>1, <2>3, <3>1 DEF PanelInv, PageInv, TotalAgrees, LoadOK, OnProject
  <2> QED
    BY <1>5, <2>2, <2>3 DEF HearAnswer
<1>6. ASSUME NEW part \in load[t].todo, ReadPart(t, part) PROVE PageInv'
  <2>1. CASE CatchError(t, "refused")
    BY <1>6, <2>1, CaughtError
  <2>2. CASE /\ UNCHANGED <<vars, shown, form, awaited>>
             /\ load' = [load EXCEPT ![t].todo = @ \ {part},
                                     ![t].rows = IF part = "rows" THEN FirstPage ELSE @,
                                     ![t].count = IF part = "count" THEN Cardinality(Existing) ELSE @]
    <3>0. PICK l : l = load[t]
      OBVIOUS
    <3>1. PICK m : m = Read(l, part)
      OBVIOUS
    <3>2. /\ m \in Loads /\ m.since = load[t].since /\ m.todo \subseteq Parts(m.page)
          /\ LoadOK(m) /\ OnProject(m)
      <4>1. /\ l \in Loads /\ l.since <= Changes /\ l.todo \subseteq Parts(l.page)
            /\ LoadOK(l) /\ part \in l.todo
        BY <1>0, <1>6, <3>0 DEF PanelInv, PageInv
      <4>2. TypeOK /\ RowInv
        BY DEF PanelInv, IInv
      <4>3. OnProject(m)
        <5>1. OnProject(l) /\ m.page = l.page /\ m.at = l.at
          BY <3>0, <3>1, <4>1 DEF PanelInv, PageInv, Read, Loads
        <5> QED
          BY <5>1 DEF OnProject
      <4> QED
        BY <3>0, <3>1, <4>1, <4>2, <4>3, LoadReads
    <3>3. load' = [load EXCEPT ![t] = m]
      BY <1>0, <2>2, <3>0, <3>1 DEF PanelInv, PageInv, Loads, Read
    <3>4. load' \in [Tabs -> Loads] /\ load'[t] = m /\ \A k \in Tabs \ {t} : load'[k] = load[k]
      BY <3>2, <3>3 DEF PanelInv, PageInv
    <3>5. Existing' = Existing /\ Changes' = Changes
      BY <2>2 DEF vars, Existing, Exists, Changes
    <3> QED
      BY <2>2, <3>2, <3>4, <3>5 DEF PanelInv, PageInv, TotalAgrees, LoadOK, OnProject
  <2> QED
    BY <1>6, <2>1, <2>2 DEF ReadPart
<1> QED
  BY <1>1, <1>2, <1>3, <1>4, <1>5, <1>6 DEF TabStep

\* PanelInv is inductive.
LEMMA PanelInduction == PanelInv /\ [PanelNext]_allVars => PanelInv'
<1> SUFFICES ASSUME PanelInv, [PanelNext]_allVars PROVE PanelInv'
  OBVIOUS
<1>1. IInv' /\ FormInv' /\ RowInv' /\ OkHasRow'
  BY PanelStepIsApiStep, Induction, FormInduction, RowInduction, OkInduction DEF PanelInv
<1>2. CASE ApiStep
  BY <1>2, ApiMoves
<1>3. ASSUME NEW t \in Tabs, TabStep(t) PROVE PanelInv'
  BY <1>1, <1>3, TabMoves DEF PanelInv
<1>4. CASE UNCHANGED allVars
  <2>1. Existing' = Existing /\ Changes' = Changes /\ UNCHANGED <<shown, load>>
    BY <1>4 DEF allVars, vars, panelVars, Existing, Exists, Changes
  <2>2. PageInv'
    BY <2>1 DEF PanelInv, PageInv, TotalAgrees, LoadOK, OnProject
  <2> QED
    BY <1>1, <2>2 DEF PanelInv
<1> QED
  BY <1>2, <1>3, <1>4 DEF PanelNext

\* Tabs show nothing at first, and there are no rows.
LEMMA PanelInitInv == PanelInit => PanelInv
<1> SUFFICES ASSUME PanelInit PROVE PanelInv
  OBVIOUS
<1>1. IInv /\ FormInv /\ OkHasRow
  BY InitIInv, InitForms DEF PanelInit, Init, OkHasRow, NoRequest
<1>2. Existing = {} /\ Gone = {} /\ born = 0
  BY RowAssumption DEF PanelInit, Init, Existing, Exists, Gone
<1>3. RowInv
  <2>1. \A n : Newest(n, {}) = {}
    BY DEF Newest
  <2>2. \A n \in Nat : Cardinality(Newest(n, {})) = 0 /\ Least(n, Cardinality({})) = 0
    BY <2>1, FS_EmptySet DEF Least
  <2>3. \A p \in Projects : project[p] = Unborn
    BY DEF PanelInit, Init
  <2> QED
    BY <1>2, <2>2, <2>3 DEF RowInv
<1>4. Changes = 0
  BY <1>2, FS_EmptySet DEF Changes, Gone
<1>5. NoLoad \in Loads /\ Blank \in Pages
  BY ApiAssumption DEF NoLoad, Loads, LoadPages, Blank, Pages, NoProject
<1>6. TotalAgrees
  <2>1. PageSize \in Nat /\ 0 < PageSize
    BY PanelAssumption
  <2>2. \A t \in Tabs : /\ Cardinality(shown[t].rows) = 0
                        /\ shown[t].count = 0 /\ shown[t].drift = 0
    BY FS_EmptySet DEF PanelInit, Blank
  <2> QED
    BY <2>1, <2>2 DEF TotalAgrees
<1>8. OnProject(NoLoad) /\ OnProject(Blank)
  BY DEF OnProject, NoLoad, Blank, NoProject, Projects
<1>7. PageInv
  <2>1. \A t \in Tabs : OnProject(shown[t]) /\ OnProject(load[t])
    BY <1>8 DEF PanelInit
  <2>2. LoadOK(NoLoad) /\ NoLoad.since <= Changes /\ NoLoad.todo \subseteq Parts(NoLoad.page)
    BY <1>4 DEF LoadOK, NoLoad
  <2> QED
    BY <1>4, <1>5, <1>6, <2>1, <2>2 DEF PanelInit, PageInv
<1> QED
  BY <1>1, <1>3, <1>7 DEF PanelInv

\* PanelInv is an invariant of the panel.
LEMMA PanelInvariance == PanelSpec => []PanelInv
  BY PanelInitInv, PanelInduction, PTL DEF PanelSpec

\* What the tabs show, wait for and type has its type: no list shows what is no
\* project, no tab is on its way to the page of what is none, no total is above the
\* bound, and no page is older than its request.
THEOREM PanelTypeCorrect == PanelSpec => []PanelTypeOK
<1>1. PanelInv => PanelTypeOK
  BY PanelAssumption DEF PanelInv, FormInv, AllFetches, Forms, PageInv, Pages, Loads, LoadPages, PanelTypeOK
<1> QED
  BY <1>1, PanelInvariance, PTL

\* The total of a page and its list, read by two queries while projects come and
\* go, differ at most by the projects that came or went meanwhile, for every size
\* of a page and every number of projects, clients and tabs.
THEOREM TotalsAgree == PanelSpec => []TotalAgrees
<1>1. PanelInv => TotalAgrees
  BY DEF PanelInv, PageInv
<1> QED
  BY <1>1, PanelInvariance, PTL
================================================================================

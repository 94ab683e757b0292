-------------------------- MODULE JobProvenanceProofs --------------------------
(***************************************************************************)
(* Proofs about JobProvenance.                                             *)
(***************************************************************************)
EXTENDS JobProvenance, TLAPS

HeldTypeOK == held \in [Jobs -> SUBSET ContentJobStatuses]

\* A published job was generated and sent to generation before.
THEOREM ProvenanceHolds == Spec => [](HeldTypeOK /\ Provenance)
<1>1. Init => HeldTypeOK /\ Provenance
  BY DEF Init, HeldTypeOK, Provenance
<1>2. HeldTypeOK /\ Provenance /\ [Next]_<<status, held>> => (HeldTypeOK /\ Provenance)'
  <2> SUFFICES ASSUME HeldTypeOK, Provenance, [Next]_<<status, held>>
               PROVE  (HeldTypeOK /\ Provenance)'
    OBVIOUS
  <2>1. CASE UNCHANGED held
    BY <2>1 DEF HeldTypeOK, Provenance
  <2>2. ASSUME NEW j \in Jobs, Insert(j) PROVE (HeldTypeOK /\ Provenance)'
    BY <2>2 DEF Insert, HeldTypeOK, Provenance, ContentJobStatuses
  <2>3. ASSUME NEW j \in Jobs, Move(j) PROVE (HeldTypeOK /\ Provenance)'
    <3>1. PICK to \in ContentJobStatuses, from \in held[j] :
            /\ TransitionAllowed(from, to)
            /\ held' = [held EXCEPT ![j] = @ \cup {to}]
      BY <2>3 DEF Move
    <3>2. held[j] \subseteq ContentJobStatuses /\ from \in ContentJobStatuses
      BY <3>1 DEF HeldTypeOK
    <3>3. HeldTypeOK'
      BY <3>1 DEF HeldTypeOK
    <3>4. /\ held'[j] = held[j] \cup {to}
          /\ \A k \in Jobs \ {j} : held'[k] = held[k]
      BY <3>1 DEF HeldTypeOK
    <3>5. /\ to = "published" => from \in {"published", "posted_to_wordpress",
                                           "review_pending"}
          /\ to \in {"posted_to_wordpress", "review_pending"} =>
               from \in {"generated", "posted_to_wordpress", "review_pending"}
          /\ to = "generated" => from \in {"generated", "sending_to_generation"}
      BY <3>1, <3>2 DEF TransitionAllowed, allowedTransitions, ContentJobStatuses
    <3>6. Provenance'
      BY <3>1, <3>4, <3>5 DEF Provenance
    <3> QED
      BY <3>3, <3>6
  <2> QED
    BY <2>1, <2>2, <2>3 DEF Next, Delete
<1> QED
  BY <1>1, <1>2, PTL DEF Spec
================================================================================

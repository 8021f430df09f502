---------------------------- MODULE GetValueProofs ----------------------------
(***************************************************************************)
(* Proofs about GetValue, for every network, every number of workers and   *)
(* every answer the network may give.                                      *)
(***************************************************************************)
EXTENDS GetValue, TLAPS

(***************************************************************************)
(* The inductive invariant.  A marked peer is settled, or some worker is   *)
(* on its way to settle it; a worker gives up only if the result is there  *)
(* or everything is marked; a peer that was named is listed, or waits in   *)
(* the new peers of the worker that was told of it.                        *)
(***************************************************************************)
Asking == {"ask", "collect", "finish"}

NamedInv ==
  /\ \A p \in named : p \in listed \/ \E w \in Worker : p \in new[w]
  /\ \A w \in Worker : new[w] # {} => pc[w] = "list"

MarkedInv ==
  res = "none" =>
    \A p \in searchDone :
      \/ p \in answered \cup errorCollection
      \/ \E w \in Worker : cur[w] = p /\ pc[w] \in Asking

AliveInv ==
  res = "none" => (\E w \in Worker : pc[w] # "stopped") \/ listed \subseteq searchDone

FoundInv ==
  /\ found # {} => res # "none" \/ \E w \in Worker : pc[w] = "finish"
  /\ \A w \in Worker : pc[w] = "finish" => fin[w] # "none"

ReturnInv == outcome = "notFound" => res = "none" /\ AllDone

SearchInv == NamedInv /\ MarkedInv /\ AliveInv /\ FoundInv /\ ReturnInv

(* Together they say what a lookup that returned ErrNotFound has done. *)
LEMMA SearchInvSuffices ==
  ASSUME TypeOK, SearchInv
  PROVE  NotFoundIsExhaustive /\ ValueNotLost
<1>. SUFFICES ASSUME outcome = "notFound"
              PROVE  named \subseteq answered \cup errorCollection /\ found = {}
  BY DEF NotFoundIsExhaustive, ValueNotLost
<1>1. res = "none" /\ \A w \in Worker : pc[w] = "stopped"
  BY DEF SearchInv, ReturnInv, AllDone
<1>2. listed \subseteq searchDone
  BY <1>1 DEF SearchInv, AliveInv
<1>3. searchDone \subseteq answered \cup errorCollection
  BY <1>1 DEF SearchInv, MarkedInv, Asking
<1>4. named \subseteq listed
  BY <1>1 DEF SearchInv, NamedInv
<1>5. found = {}
  BY <1>1 DEF SearchInv, FoundInv
<1>. QED  BY <1>2, <1>3, <1>4, <1>5

-----------------------------------------------------------------------------
(* Every step of the lookup keeps the types. *)
LEMMA TypeStep ==
  ASSUME TypeOK, [Next]_vars
  PROVE  TypeOK'
<1>. USE DEF TypeOK
<1>1. CASE UNCHANGED vars
  BY <1>1 DEF vars, list, local, history
<1>2. CASE SelfSearchEnds
  BY <1>2 DEF SelfSearchEnds, Special, list, local, history
<1>3. CASE SelfSearch
  <2>1. PICK S \in SUBSET peerstore : listed' = {Self} \cup S
    BY <1>3 DEF SelfSearch, OwnAnswers
  <2>2. listed' \subseteq Peer /\ named' \subseteq Peer
    BY <1>3, <2>1, GetValueAssumption DEF SelfSearch
  <2>. QED  BY <1>3, <2>2 DEF SelfSearch
<1>4. ASSUME NEW w \in Worker, WorkerStep(w) PROVE TypeOK'
  <2>1. CASE Check(w)
    BY <2>1 DEF Check, list, history
  <2>2. CASE Pick(w)
    BY <2>2 DEF Pick, list, history
  <2>3. CASE PickNone(w)
    BY <2>3 DEF PickNone, list, history
  <2>4. CASE Collect(w)
    BY <2>4 DEF Collect, list, history
  <2>5. CASE Finish(w)
    BY <2>5 DEF Finish, list, history
  <2>6. CASE AddSearchNode(w)
    BY <2>6 DEF AddSearchNode, history
  <2>7. CASE Mark(w) /\ searchDone' = searchDone
    BY <2>7 DEF Mark, history
  <2>8. CASE Mark(w) /\ searchDone' = searchDone \cup {cur[w]}
    BY <2>8 DEF Mark, history
  <2>. QED
    BY <1>4, <2>1, <2>2, <2>3, <2>4, <2>5, <2>6, <2>7, <2>8 DEF WorkerStep, Mark
<1>5. ASSUME NEW w \in Worker, Answer(w) PROVE TypeOK'
  <2>0. \A S \in SUBSET Peer : \A ps \in AddedTo(peerstore, S) : ps \subseteq Peer \ {Self}
    BY DEF AddedTo
  <2>1. CASE AskFails(w)
    BY <2>1 DEF AskFails, list, history
  <2>2. CASE AskAborts(w)
    BY <2>2 DEF AskAborts, Publish, list, history
  <2>3. CASE AskFinds(w)
    BY <2>3 DEF AskFinds, Publish, list
  <2>4. CASE AskLearns(w)
    <3>1. PICK S \in SUBSET Peer :
                 /\ peerstore' \in AddedTo(peerstore, S)
                 /\ new' = [new EXCEPT ![w] = S]
                 /\ named' = named \cup S
                 /\ pc' = [pc EXCEPT ![w] = IF S = {} THEN "check" ELSE "list"]
      BY <2>4 DEF AskLearns, Answers
    <3>2. peerstore' \subseteq Peer \ {Self} /\ answered' \subseteq Peer
      BY <2>0, <2>4, <3>1 DEF AskLearns
    <3>. QED  BY <2>4, <3>1, <3>2 DEF AskLearns, list
  <2>5. CASE AskRefused(w)
    <3>1. peerstore' \subseteq Peer \ {Self}
      BY <2>0, <2>5 DEF AskRefused, Answers
    <3>. QED  BY <2>5, <3>1 DEF AskRefused, Publish, list, history
  <2>. QED  BY <1>5, <2>1, <2>2, <2>3, <2>4, <2>5 DEF Answer
<1>6. CASE Return
  BY <1>6 DEF Return, Special, list, local, history
<1>. QED  BY <1>1, <1>2, <1>3, <1>4, <1>5, <1>6 DEF Next

(* Every reachable state of a lookup is well typed. *)
THEOREM TypeCorrect == Spec => []TypeOK
<1>1. Init => TypeOK
  BY GetValueAssumption DEF Init, TypeOK, Special
<1>2. TypeOK /\ [Next]_vars => TypeOK'
  BY TypeStep
<1>. QED  BY <1>1, <1>2, PTL DEF Spec

-----------------------------------------------------------------------------
(* A step of worker w leaves what the other workers are doing alone. *)
LEMMA Frame ==
  ASSUME TypeOK, NEW w \in Worker, WorkerStep(w) \/ Answer(w), NEW u \in Worker, u # w
  PROVE  pc'[u] = pc[u] /\ cur'[u] = cur[u] /\ new'[u] = new[u] /\ fin'[u] = fin[u]
<1>. USE DEF TypeOK
<1>1. CASE WorkerStep(w)
  BY <1>1 DEF WorkerStep, Check, Pick, PickNone, Mark, Collect, Finish, AddSearchNode
<1>2. CASE Answer(w)
  BY <1>2 DEF Answer, AskFails, AskAborts, AskFinds, AskLearns, AskRefused, Publish
<1>. QED  BY <1>1, <1>2

(* A peer that an answer named is listed by the worker that was told of it. *)
LEMMA NamedStep ==
  ASSUME TypeOK, NamedInv, [Next]_vars
  PROVE  NamedInv'
<1>1. CASE UNCHANGED vars \/ SelfSearchEnds \/ Return
  BY <1>1 DEF NamedInv, SelfSearchEnds, Return, vars, list, local, history
<1>2. CASE SelfSearch
  BY <1>2 DEF NamedInv, SelfSearch
<1>3. ASSUME NEW w \in Worker, WorkerStep(w), ~AddSearchNode(w) PROVE NamedInv'
  BY <1>3 DEF NamedInv, TypeOK, WorkerStep, Check, Pick, PickNone, Mark, Collect, Finish,
              list, history
<1>4. ASSUME NEW w \in Worker, AddSearchNode(w) PROVE NamedInv'
  <2>1. PICK p \in new[w] :
               /\ listed' = listed \cup {p}
               /\ new' = [new EXCEPT ![w] = new[w] \ {p}]
               /\ pc' = [pc EXCEPT ![w] = IF new[w] = {p} THEN "check" ELSE "list"]
    BY <1>4 DEF AddSearchNode
  <2>2. \A q \in named' : q \in listed' \/ \E u \in Worker : q \in new'[u]
    <3>. SUFFICES ASSUME NEW q \in named, q \notin listed'
                  PROVE  \E u \in Worker : q \in new'[u]
      BY <1>4 DEF AddSearchNode, history
    <3>1. PICK u \in Worker : q \in new[u]
      BY <2>1 DEF NamedInv
    <3>2. q \in new'[u]
      BY <2>1, <3>1 DEF TypeOK
    <3>. QED  BY <3>2
  <2>3. \A u \in Worker : new'[u] # {} => pc'[u] = "list"
    BY <2>1 DEF NamedInv, TypeOK
  <2>. QED  BY <2>2, <2>3 DEF NamedInv
<1>5. ASSUME NEW w \in Worker, Answer(w), ~AskLearns(w) PROVE NamedInv'
  BY <1>5 DEF NamedInv, TypeOK, Answer, AskFails, AskAborts, AskFinds, AskRefused, Publish,
              list, history
<1>6. ASSUME NEW w \in Worker, AskLearns(w) PROVE NamedInv'
  <2>1. PICK S \in Answers :
               /\ new' = [new EXCEPT ![w] = S]
               /\ named' = named \cup S
               /\ pc' = [pc EXCEPT ![w] = IF S = {} THEN "check" ELSE "list"]
    BY <1>6 DEF AskLearns
  <2>2. new[w] = {} /\ listed' = listed
    BY <1>6 DEF AskLearns, NamedInv, list
  <2>3. \A q \in named' : q \in listed' \/ \E u \in Worker : q \in new'[u]
    <3>. SUFFICES ASSUME NEW q \in named', q \notin listed
                  PROVE  \E u \in Worker : q \in new'[u]
      BY <2>2
    <3>1. CASE q \in S
      BY <2>1, <3>1 DEF TypeOK
    <3>2. CASE q \in named
      <4>1. PICK u \in Worker : q \in new[u]
        BY <3>2 DEF NamedInv
      <4>. QED  BY <2>1, <2>2, <4>1 DEF TypeOK
    <3>. QED  BY <2>1, <3>1, <3>2
  <2>4. \A u \in Worker : new'[u] # {} => pc'[u] = "list"
    BY <2>1 DEF NamedInv, TypeOK
  <2>. QED  BY <2>3, <2>4 DEF NamedInv
<1>. QED  BY <1>1, <1>2, <1>3, <1>4, <1>5, <1>6 DEF Next

(* searchDone only grows by the entry of the worker that marks it. *)
LEMMA MarkedStep ==
  ASSUME TypeOK, MarkedInv, FoundInv, [Next]_vars
  PROVE  MarkedInv'
<1>. SUFFICES ASSUME res' = "none", NEW p \in searchDone'
              PROVE  \/ p \in answered' \cup errorCollection'
                     \/ \E w \in Worker : cur'[w] = p /\ pc'[w] \in Asking
  BY DEF MarkedInv
<1>. DEFINE Settled == p \in answered' \cup errorCollection'
            InHand == \E w \in Worker : cur'[w] = p /\ pc'[w] \in Asking
<1>1. CASE UNCHANGED vars \/ SelfSearchEnds \/ Return
  BY <1>1 DEF MarkedInv, SelfSearchEnds, Return, vars, list, local, history
<1>2. CASE SelfSearch
  BY <1>2 DEF MarkedInv, SelfSearch, Asking
<1>3. ASSUME NEW w \in Worker, WorkerStep(w) \/ Answer(w)
      PROVE  Settled \/ InHand
  <2>0. res = "none" /\ answered \subseteq answered'
        /\ errorCollection \subseteq errorCollection'
    BY <1>3 DEF WorkerStep, Check, Pick, PickNone, Mark, Collect, Finish, AddSearchNode,
                Answer, AskFails, AskAborts, AskFinds, AskLearns, AskRefused, history
  <2>1. CASE p \in searchDone /\ p \in answered \cup errorCollection
    BY <2>0, <2>1
  <2>2. ASSUME NEW u \in Worker, u # w, cur[u] = p, pc[u] \in Asking
        PROVE  InHand
    BY <1>3, <2>2, Frame
  <2>3. CASE cur[w] = p /\ pc[w] \in Asking
    <3>1. CASE AskFails(w) \/ AskAborts(w) \/ AskFinds(w) \/ AskRefused(w)
      <4>1. cur'[w] = p /\ pc'[w] \in Asking
        BY <2>3, <3>1 DEF AskFails, AskAborts, AskFinds, AskRefused, Publish, TypeOK, Asking
      <4>. QED  BY <4>1
    <3>2. CASE AskLearns(w)
      BY <2>3, <3>2 DEF AskLearns
    <3>3. CASE Collect(w)
      BY <2>3, <3>3 DEF Collect
    <3>4. CASE Finish(w)
      BY <3>4 DEF Finish, FoundInv
    <3>. QED  BY <1>3, <2>3, <3>1, <3>2, <3>3, <3>4
              DEF Answer, WorkerStep, Check, Pick, PickNone, Mark, AddSearchNode, Asking
  <2>4. CASE p \notin searchDone
    <3>1. Mark(w) /\ p = cur[w]
      BY <1>3, <2>4 DEF WorkerStep, Check, Pick, PickNone, Mark, Collect, Finish,
                AddSearchNode, Answer, AskFails, AskAborts, AskFinds, AskLearns, AskRefused,
                list
    <3>2. cur'[w] = p /\ pc'[w] \in Asking
      BY <3>1 DEF Mark, TypeOK, Asking
    <3>. QED  BY <3>2
  <2>. QED  BY <2>0, <2>1, <2>2, <2>3, <2>4 DEF MarkedInv
<1>. QED  BY <1>1, <1>2, <1>3 DEF Next

(* A worker stops only for a published result or when all is marked. *)
LEMMA AliveStep ==
  ASSUME TypeOK, AliveInv, FoundInv, [Next]_vars
  PROVE  AliveInv'
<1>. SUFFICES ASSUME res' = "none"
              PROVE  (\E w \in Worker : pc'[w] # "stopped") \/ listed' \subseteq searchDone'
  BY DEF AliveInv
<1>1. CASE UNCHANGED vars \/ SelfSearchEnds \/ Return
  BY <1>1 DEF AliveInv, SelfSearchEnds, Return, vars, list, local, history
<1>2. CASE SelfSearch
  BY <1>2, GetValueAssumption DEF SelfSearch
<1>3. ASSUME NEW w \in Worker, WorkerStep(w), pc'[w] = "stopped"
      PROVE  listed' \subseteq searchDone'
  <2>1. CASE PickNone(w)
    BY <2>1 DEF PickNone, list
  <2>2. CASE Check(w)
    BY <1>3, <2>2 DEF Check, TypeOK
  <2>3. CASE Finish(w)
    BY <2>3 DEF Finish, FoundInv
  <2>. QED  BY <1>3, <2>1, <2>2, <2>3
            DEF WorkerStep, Pick, Mark, Collect, AddSearchNode, TypeOK
<1>4. ASSUME NEW w \in Worker, Answer(w)
      PROVE  pc'[w] # "stopped"
  BY <1>4 DEF Answer, AskFails, AskAborts, AskFinds, AskLearns, AskRefused, Publish, TypeOK
<1>. QED  BY <1>1, <1>2, <1>3, <1>4 DEF Next

(* A value that was answered stays with its worker until it is published. *)
LEMMA FoundStep ==
  ASSUME TypeOK, FoundInv, [Next]_vars
  PROVE  FoundInv'
<1>1. CASE UNCHANGED vars \/ SelfSearchEnds \/ Return
  BY <1>1 DEF FoundInv, SelfSearchEnds, Return, vars, list, local, history
<1>2. CASE SelfSearch
  BY <1>2 DEF FoundInv, SelfSearch
<1>3. ASSUME NEW w \in Worker, WorkerStep(w) \/ Answer(w)
      PROVE  FoundInv'
  <2>1. ASSUME pc'[w] = "finish" => fin'[w] # "none",
               pc[w] = "finish" => res' # "none",
               res # "none" => res' # "none",
               found' # found => pc'[w] = "finish"
        PROVE  FoundInv'
    BY <1>3, <2>1, Frame DEF FoundInv
  <2>2. CASE Check(w) \/ Pick(w) \/ PickNone(w) \/ Mark(w) \/ Collect(w) \/ AddSearchNode(w)
    BY <2>1, <2>2 DEF Check, Pick, PickNone, Mark, Collect, AddSearchNode, TypeOK, history
  <2>3. CASE Finish(w)
    BY <2>1, <2>3 DEF Finish, FoundInv, TypeOK, history
  <2>4. CASE AskFails(w) \/ AskAborts(w) \/ AskLearns(w) \/ AskRefused(w)
    BY <2>1, <2>4 DEF AskFails, AskAborts, AskLearns, AskRefused, Publish, TypeOK, history
  <2>5. CASE AskFinds(w)
    BY <2>1, <2>5, GetValueAssumption DEF AskFinds, Publish, TypeOK, Special
  <2>. QED  BY <1>3, <2>2, <2>3, <2>4, <2>5 DEF WorkerStep, Answer
<1>. QED  BY <1>1, <1>2, <1>3 DEF Next

(* Once ErrNotFound is returned nothing happens any more. *)
LEMMA ReturnStep ==
  ASSUME TypeOK, ReturnInv, [Next]_vars
  PROVE  ReturnInv'
<1>1. CASE UNCHANGED vars
  BY <1>1 DEF ReturnInv, AllDone, vars, local
<1>2. CASE SelfSearchEnds \/ SelfSearch
  BY <1>2, GetValueAssumption DEF SelfSearchEnds, SelfSearch, ReturnInv, Special
<1>3. ASSUME NEW w \in Worker, WorkerStep(w) \/ Answer(w)
      PROVE  ReturnInv'
  <2>1. pc[w] # "stopped" /\ outcome' = outcome
    BY <1>3 DEF WorkerStep, Check, Pick, PickNone, Mark, Collect, Finish, AddSearchNode,
                Answer, AskFails, AskAborts, AskFinds, AskLearns, AskRefused
  <2>. QED  BY <2>1 DEF ReturnInv, AllDone
<1>4. CASE Return
  BY <1>4, GetValueAssumption DEF Return, ReturnInv, AllDone, local, TypeOK, Special
<1>. QED  BY <1>1, <1>2, <1>3, <1>4 DEF Next

(* The invariant holds in every reachable state of GetValue. *)
LEMMA SearchInvariant == Spec => [](TypeOK /\ SearchInv)
<1>1. Init => SearchInv
  BY GetValueAssumption
     DEF Init, SearchInv, NamedInv, MarkedInv, AliveInv, FoundInv, ReturnInv
<1>2. TypeOK /\ SearchInv /\ [Next]_vars => SearchInv'
  BY NamedStep, MarkedStep, AliveStep, FoundStep, ReturnStep DEF SearchInv
<1>. QED  BY <1>1, <1>2, TypeCorrect, PTL DEF Spec

(* ErrNotFound is returned only after every reachable peer was asked. *)
THEOREM Exhaustive == Spec => []NotFoundIsExhaustive
<1>1. TypeOK /\ SearchInv => NotFoundIsExhaustive
  BY SearchInvSuffices
<1>. QED  BY <1>1, SearchInvariant, PTL

(* A value that was found is not reported as not found. *)
THEOREM FoundIsReported == Spec => []ValueNotLost
<1>1. TypeOK /\ SearchInv => ValueNotLost
  BY SearchInvSuffices
<1>. QED  BY <1>1, SearchInvariant, PTL
=============================================================================

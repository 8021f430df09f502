---------------------------- MODULE SetValueProofs ----------------------------
(***************************************************************************)
(* Proofs about SetValue, for every network, every number of workers and   *)
(* of slots, and every answer the network may give.                        *)
(***************************************************************************)
EXTENDS SetValue, FiniteSetTheorems, TLAPS

(* The steps of SetValue that may put a peer into a slot are Seed and      *)
(* Offer; both offer one peer.                                             *)
Offering(p) == (\E i \in Slots : PutInto(p, i)) \/ NotPut(p)

SlotsKept == UNCHANGED <<slots, marked, offered>>

(* A worker that uses a pointer to a slot uses one that holds a peer. *)
Pointing == {"mark", "read", "ask", "blame"}

PointerInv == \A w \in Worker : pc[w] \in Pointing => slots[ptr[w]] # nil

(* p is at most as far from the key as a peer whose request failed. *)
Bounded(p) == \E q \in failed : dist[p] <= dist[q]

(* The strengthening of BlameBounded: the peer in the slot of a request is *)
(* at most as far as the peer that was asked, from the request to the end  *)
(* of the append.                                                          *)
RequestBounded(w) ==
  /\ pc[w] = "ask" => dist[slots[ptr[w]]] <= dist[target[w]]
  /\ pc[w] = "blame" => Bounded(slots[ptr[w]])
  /\ pc[w] = "append" => Bounded(blamed[w])

ErrorsBounded ==
  /\ \A w \in Worker : \A p \in header[w] : Bounded(p)
  /\ \A p \in errorCollection : Bounded(p)

BlameInv == (\A w \in Worker : RequestBounded(w)) /\ ErrorsBounded

(* The strengthening of StorersAsked.  Where the workers are in each phase *)
(* of SetValue:                                                            *)
Searching == {"check", "pick", "mark", "read", "ask", "blame", "append", "abort", "offer",
              "offered", "quit", "stopped"}

PhaseInv ==
  /\ main \in {"start", "seed"} => \A w \in Worker : pc[w] = "idle"
  /\ main = "search" => \A w \in Worker : pc[w] \in Searching
  /\ main = "remove" => AllStopped
  /\ main = "store" =>
       \A w \in Worker : pc[w] \in {"receive", "store", "appendFailed", "stopped"}
  /\ main = "returned" => \A w \in Worker : pc[w] \in {"idle", "stopped"}

(* A marked slot holds a peer that was asked or that a worker is about to  *)
(* ask.                                                                    *)
Asking(w, i) == ptr[w] = i /\ (pc[w] = "read" \/ (pc[w] = "ask" /\ target[w] = slots[i]))

MarkInv ==
  \A i \in Slots :
    slots[i] # nil /\ marked[i] => slots[i] \in asked \/ \E w \in Worker : Asking(w, i)

(* While there is a slot to be asked, a worker is running. *)
AliveInv ==
  ~isDone /\ ~termenatingErr =>
    /\ main = "search" => Unmarked = {} \/ ~AllStopped
    /\ main \in {"remove", "store"} => Unmarked = {}

AskedInv == PhaseInv /\ MarkInv /\ AliveInv

(* The strengthening of NoSpuriousFailure.  Of the storers handed to the   *)
(* workers, those that have neither confirmed the value nor are being      *)
(* asked to are Lost.                                                      *)
Handed == {slots[i] : i \in 1 .. cursor}
Busy == {target[w] : w \in {u \in Worker : pc[u] = "store"}}
Lost == Handed \ (acked \cup Busy)

(* No storer is handed out twice, or is asked by two workers. *)
HandedOnce ==
  /\ main \notin {"store", "returned"} => cursor = 0
  /\ 1 .. cursor \subseteq Storers
  /\ acked \subseteq Handed
  /\ \A w \in Worker : pc[w] = "store" => target[w] \in Handed \ acked
  /\ \A w, u \in Worker :
       pc[w] = "store" /\ pc[u] = "store" /\ w # u => target[w] # target[u]

(* Racing appends make failedStored too short, never too long. *)
FailuresBounded ==
  /\ failedStored <= Cardinality(Lost)
  /\ \A w \in Worker : pc[w] = "appendFailed" => length[w] + 1 <= Cardinality(Lost)

CountInv ==
  /\ HandedOnce /\ FailuresBounded /\ NoSpuriousFailure
  /\ main # "returned" => outcome = "none"

-----------------------------------------------------------------------------
(* What offering a peer does to the slots. *)
LEMMA OfferSlots ==
  ASSUME TypeOK, NEW p \in Peer, Offering(p)
  PROVE  /\ slots' \in [Slots -> Peer \cup {nil}] /\ marked' \in [Slots -> BOOLEAN]
         /\ offered' = offered \cup {p}
         /\ \A i \in Slots : slots[i] # nil =>
              slots'[i] # nil /\ dist[slots'[i]] <= dist[slots[i]]
<1>1. nil \notin Peer /\ \A q \in Peer : dist[q] \in Nat
  BY SetValueAssumption
<1>2. CASE NotPut(p)
  BY <1>1, <1>2 DEF NotPut, TypeOK
<1>3. ASSUME NEW i \in Slots, PutInto(p, i)
      PROVE  /\ slots' \in [Slots -> Peer \cup {nil}] /\ marked' \in [Slots -> BOOLEAN]
             /\ offered' = offered \cup {p}
             /\ \A j \in Slots : slots[j] # nil =>
                  slots'[j] # nil /\ dist[slots'[j]] <= dist[slots[j]]
  <2>1. slots' = [slots EXCEPT ![i] = p] /\ slots[i] # p
        /\ (slots[i] # nil => dist[p] < dist[slots[i]])
    BY <1>3 DEF PutInto, Stops
  <2>2. slots' \in [Slots -> Peer \cup {nil}] /\ marked' \in [Slots -> BOOLEAN]
        /\ offered' = offered \cup {p}
    BY <1>3 DEF PutInto, TypeOK
  <2>3. ASSUME NEW j \in Slots, slots[j] # nil
        PROVE  slots'[j] # nil /\ dist[slots'[j]] <= dist[slots[j]]
    <3>1. slots[j] \in Peer /\ dist[slots[j]] \in Nat /\ dist[p] \in Nat
      BY <1>1, <2>3 DEF TypeOK
    <3>2. CASE j = i
      BY <1>1, <2>1, <2>3, <3>1, <3>2 DEF TypeOK
    <3>3. CASE j # i
      BY <2>1, <2>3, <3>1, <3>3 DEF TypeOK
    <3>. QED  BY <3>2, <3>3
  <2>. QED  BY <2>2, <2>3
<1>. QED  BY <1>2, <1>3 DEF Offering

(* The order of the storers survives. *)
LEMMA OfferSorted ==
  ASSUME TypeOK, StorersSorted, NEW p \in Peer, Offering(p)
  PROVE  StorersSorted'
<1>1. nil \notin Peer /\ \A q \in Peer : dist[q] \in Nat
  BY SetValueAssumption
<1>2. CASE NotPut(p)
  BY <1>2 DEF NotPut, StorersSorted
<1>3. ASSUME NEW m \in Slots, PutInto(p, m) PROVE StorersSorted'
  <2>1. /\ slots'[m] = p /\ \A i \in Slots : i # m => slots'[i] = slots[i]
        /\ \A i \in Slots : slots[i] \in Peer \cup {nil}
    BY <1>3 DEF PutInto, TypeOK
  <2>2. slots[m] # nil => dist[p] < dist[slots[m]]
    BY <1>3 DEF PutInto, Stops
  <2>3. \A l \in Slots : l < m => slots[l] \notin {nil, p} /\ ~(dist[p] < dist[slots[l]])
    BY <1>3 DEF PutInto, Stops
  <2>4. ASSUME NEW i \in Slots, NEW j \in Slots, i < j, slots'[j] # nil
        PROVE  slots'[i] # nil /\ dist[slots'[i]] < dist[slots'[j]]
    <3>1. CASE i # m /\ j # m
      BY <2>1, <2>4, <3>1 DEF StorersSorted
    <3>2. CASE j = m
      <4>1. i # m /\ slots[i] \in Peer /\ slots[i] # p /\ ~(dist[p] < dist[slots[i]])
        BY <2>1, <2>3, <2>4, <3>2 DEF Slots
      <4>2. dist[slots[i]] # dist[p]
        BY <4>1, SetValueAssumption
      <4>. QED  BY <1>1, <2>1, <3>2, <4>1, <4>2
    <3>3. CASE i = m
      <4>1. j # m /\ slots[j] # nil /\ slots'[j] = slots[j]
        BY <2>1, <2>4, <3>3 DEF Slots
      <4>2. slots[m] # nil /\ dist[slots[m]] < dist[slots[j]]
        BY <2>4, <3>3, <4>1 DEF StorersSorted
      <4>3. dist[slots[m]] \in Nat /\ dist[slots[j]] \in Nat /\ dist[p] \in Nat
        BY <1>1, <2>1, <4>1, <4>2
      <4>. QED  BY <1>1, <2>1, <2>2, <3>3, <4>1, <4>2, <4>3
    <3>. QED  BY <3>1, <3>2, <3>3
  <2>. QED  BY <2>4 DEF StorersSorted
<1>. QED  BY <1>2, <1>3 DEF Offering

(* So does the closest of the peers that were offered. *)
LEMMA OfferClosest ==
  ASSUME TypeOK, ClosestKept, NEW p \in Peer, Offering(p)
  PROVE  ClosestKept'
<1>1. 1 \in Slots /\ \A q \in Peer : dist[q] \in Nat
  BY SetValueAssumption DEF Slots
<1>2. slots[1] \in Peer /\ offered \subseteq Peer
  BY <1>1 DEF TypeOK, ClosestKept
<1>3. slots'[1] # nil /\ dist[slots'[1]] <= dist[slots[1]] /\ slots'[1] \in Peer \cup {nil}
      /\ offered' = offered \cup {p}
  BY <1>1, <1>2, OfferSlots DEF ClosestKept
<1>4. slots'[1] \in Peer /\ dist[slots'[1]] \in Nat /\ dist[slots[1]] \in Nat
  BY <1>1, <1>2, <1>3
<1>5. dist[slots'[1]] <= dist[p]
  <2>0. \A j \in Slots : ~(j < 1)
    BY DEF Slots
  <2>1. CASE Stops(p, 1) /\ slots[1] # p
    <3>1. slots'[1] = p
      <4>1. ~NotPut(p)
        BY <1>1, <2>0, <2>1 DEF NotPut
      <4>2. PICK i \in Slots : PutInto(p, i)
        BY <4>1 DEF Offering
      <4>3. i = 1
        BY <1>1, <2>1, <4>2 DEF PutInto, Slots
      <4>. QED  BY <1>1, <4>2, <4>3 DEF PutInto, TypeOK
    <3>. QED  BY <1>1, <3>1
  <2>2. CASE slots[1] = p
    BY <1>3, <2>2
  <2>3. CASE ~Stops(p, 1)
    <3>1. ~(dist[p] < dist[slots[1]])
      BY <2>3 DEF Stops
    <3>. QED  BY <1>1, <1>3, <1>4, <3>1
  <2>. QED  BY <2>1, <2>2, <2>3
<1>6. \A q \in offered : dist[slots'[1]] <= dist[q]
  BY <1>1, <1>2, <1>3, <1>4 DEF ClosestKept
<1>. QED  BY <1>3, <1>5, <1>6 DEF ClosestKept

-----------------------------------------------------------------------------
(* A step offers one peer to the slots, marks one, or leaves them alone. *)
LEMMA SlotsStep ==
  ASSUME TypeOK, [Next]_vars
  PROVE  \/ SlotsKept
         \/ \E p \in Peer : Offering(p)
         \/ \E w \in Worker : Mark(w)
<1>. USE DEF SlotsKept, found
<1>1. CASE UNCHANGED vars
  BY <1>1 DEF vars
<1>2. CASE SelfSearchEnds
  BY <1>2 DEF SelfSearchEnds
<1>3. CASE MainStep
  <2>1. CASE Seed
    BY <2>1 DEF Seed, Offering, TypeOK
  <2>. QED  BY <1>3, <2>1 DEF MainStep, SelfSearch, StartSearch, SearchEnds,
                              RemoveNonresponders, Return
<1>4. ASSUME NEW w \in Worker, WorkerStep(w) PROVE SlotsKept \/ (\E p \in Peer : Offering(p)) \/ Mark(w)
  <2>1. CASE Offer(w)
    <3>1. PICK p \in new[w] : (\E i \in Slots : PutInto(p, i)) \/ NotPut(p)
      BY <2>1 DEF Offer
    <3>. QED  BY <3>1 DEF Offering, TypeOK
  <2>. QED  BY <1>4, <2>1 DEF WorkerStep, Check, Pick, PickNone, ReadPeer, Blame, AppendError,
                              Abort, Unlock, Quit, Receive, ReceiveNone, AppendFailed
<1>5. ASSUME NEW w \in Worker, Answer(w) PROVE SlotsKept
  BY <1>5 DEF Answer, AskFails, AskAborts, AskLearns, StoreOK, StoreFails
<1>. QED  BY <1>1, <1>2, <1>3, <1>4, <1>5 DEF Next

(* The part of the type invariant that is about the slots. *)
LEMMA SlotsType ==
  ASSUME TypeOK, [Next]_vars
  PROVE  /\ slots' \in [Slots -> Peer \cup {nil}] /\ marked' \in [Slots -> BOOLEAN]
         /\ offered' \subseteq Peer
         /\ \A i \in Slots : slots[i] # nil =>
              slots'[i] # nil /\ dist[slots'[i]] <= dist[slots[i]]
<1>0. nil \notin Peer /\ \A q \in Peer : dist[q] \in Nat
  BY SetValueAssumption
<1>1. CASE SlotsKept
  BY <1>0, <1>1 DEF SlotsKept, TypeOK
<1>2. ASSUME NEW p \in Peer, Offering(p)
      PROVE  /\ slots' \in [Slots -> Peer \cup {nil}] /\ marked' \in [Slots -> BOOLEAN]
             /\ offered' \subseteq Peer
             /\ \A i \in Slots : slots[i] # nil =>
                  slots'[i] # nil /\ dist[slots'[i]] <= dist[slots[i]]
  BY <1>2, OfferSlots DEF TypeOK
<1>3. ASSUME NEW w \in Worker, Mark(w)
      PROVE  /\ slots' \in [Slots -> Peer \cup {nil}] /\ marked' \in [Slots -> BOOLEAN]
             /\ offered' \subseteq Peer
             /\ \A i \in Slots : slots[i] # nil =>
                  slots'[i] # nil /\ dist[slots'[i]] <= dist[slots[i]]
  BY <1>0, <1>3 DEF Mark, TypeOK
<1>. QED  BY <1>1, <1>2, <1>3, SlotsStep

(* The variables of a pass keep their types when it ends. *)
LEMMA EndPassType ==
  ASSUME TypeOK, NEW w \in Worker, EndPass(w)
  PROVE  ptr' \in [Worker -> Slots] /\ target' \in [Worker -> Peer]
         /\ added' \in [Worker -> BOOLEAN]
<1>1. 1 \in Slots /\ Self \in Peer
  BY SetValueAssumption DEF Slots
<1>. QED  BY <1>1 DEF EndPass, TypeOK

(* Every step keeps the types. *)
LEMMA TypeStep ==
  ASSUME TypeOK, PointerInv, [Next]_vars
  PROVE  TypeOK'
<1>0. /\ slots' \in [Slots -> Peer \cup {nil}] /\ marked' \in [Slots -> BOOLEAN]
      /\ offered' \subseteq Peer
  BY SlotsType
<1>. USE <1>0 DEF TypeOK, search, errors, storing
<1>1. CASE UNCHANGED vars
  BY <1>1 DEF vars, found
<1>2. CASE SelfSearchEnds
  BY <1>2 DEF SelfSearchEnds, found
<1>3. CASE MainStep
  <2>1. CASE SelfSearch
    BY <2>1 DEF SelfSearch, OwnAnswers, found
  <2>2. CASE Seed
    BY <2>2 DEF Seed
  <2>3. CASE StartSearch
    BY <2>3 DEF StartSearch, found
  <2>4. CASE SearchEnds
    BY <2>4 DEF SearchEnds, found
  <2>5. CASE RemoveNonresponders
    BY <2>5 DEF RemoveNonresponders, found
  <2>6. CASE Return
    BY <2>6 DEF Return, found
  <2>. QED  BY <1>3, <2>1, <2>2, <2>3, <2>4, <2>5, <2>6 DEF MainStep
<1>4. ASSUME NEW w \in Worker, WorkerStep(w) PROVE TypeOK'
  <2>. USE DEF Goto
  <2>0. pc[w] \in Pointing => slots[ptr[w]] \in Peer
    BY DEF PointerInv
  <2>1. CASE Check(w) \/ PickNone(w) \/ ReceiveNone(w)
    BY <2>1 DEF Check, PickNone, ReceiveNone, found
  <2>2. CASE Pick(w)
    BY <2>2 DEF Pick, Unmarked, found
  <2>3. CASE Mark(w)
    BY <2>3 DEF Mark
  <2>4. CASE ReadPeer(w)
    BY <2>0, <2>4 DEF ReadPeer, Pointing, found
  <2>5. CASE Blame(w)
    BY <2>0, <2>5 DEF Blame, Pointing, found
  <2>6. CASE AppendError(w)
    <3>1. ptr' \in [Worker -> Slots] /\ target' \in [Worker -> Peer]
          /\ added' \in [Worker -> BOOLEAN]
      BY <2>6, EndPassType DEF AppendError
    <3>2. errorCollection' \subseteq Peer /\ torn' \in BOOLEAN
          /\ header' \in [Worker -> SUBSET Peer] /\ blamed' \in [Worker -> Peer]
      BY <2>6, SetValueAssumption DEF AppendError
    <3>. QED  BY <2>6, <3>1, <3>2 DEF AppendError, found
  <2>7. CASE Abort(w) \/ Quit(w)
    <3>1. ptr' \in [Worker -> Slots] /\ target' \in [Worker -> Peer]
          /\ added' \in [Worker -> BOOLEAN]
      BY <2>7, EndPassType DEF Abort, Quit
    <3>2. CASE Abort(w)
      BY <3>1, <3>2 DEF Abort, found
    <3>3. CASE Quit(w)
      BY <3>1, <3>3 DEF Quit, found
    <3>. QED  BY <2>7, <3>2, <3>3
  <2>8. CASE Offer(w)
    <3>1. added' \in [Worker -> BOOLEAN] /\ new' \in [Worker -> SUBSET Peer]
      BY <2>8 DEF Offer
    <3>. QED  BY <2>8, <3>1 DEF Offer
  <2>9. CASE Unlock(w)
    <3>1. ptr' \in [Worker -> Slots] /\ target' \in [Worker -> Peer]
          /\ added' \in [Worker -> BOOLEAN]
      BY <2>9, EndPassType DEF Unlock
    <3>2. pc' \in [Worker -> {"idle", "check", "pick", "mark", "read", "ask", "blame",
                "append", "abort", "offer", "offered", "quit", "stopped", "receive", "store",
                "appendFailed"}]
      BY <2>9 DEF Unlock
    <3>. QED  BY <2>9, <3>1, <3>2 DEF Unlock
  <2>10. CASE Receive(w)
    <3>1. cursor + 1 \in Slots /\ slots[cursor + 1] # nil
      <4>1. cursor + 1 \in Slots
        BY <2>10 DEF Receive, Storers
      <4>2. cursor + 1 <= cursor + 1
        BY DEF TypeOK
      <4>. QED  BY <2>10, <4>1, <4>2 DEF Receive, Storers
    <3>2. target' \in [Worker -> Peer] /\ cursor' \in Nat
      BY <2>10, <3>1 DEF Receive
    <3>. QED  BY <2>10, <3>2 DEF Receive, found
  <2>11. CASE AppendFailed(w)
    BY <2>11 DEF AppendFailed, found
  <2>. QED  BY <1>4, <2>1, <2>2, <2>3, <2>4, <2>5, <2>6, <2>7, <2>8, <2>9, <2>10, <2>11
            DEF WorkerStep
<1>5. ASSUME NEW w \in Worker, Answer(w) PROVE TypeOK'
  <2>. USE DEF Goto
  <2>0. \A S \in SUBSET Peer : \A ps \in AddedTo(peerstore, S) : ps \subseteq Peer \ {Self}
    BY DEF AddedTo
  <2>1. CASE AskFails(w)
    BY <2>1 DEF AskFails, found
  <2>2. CASE AskAborts(w)
    <3>1. peerstore' \subseteq Peer \ {Self}
      BY <2>0, <2>2 DEF AskAborts, Answers
    <3>2. sawValue' \in BOOLEAN
      BY <2>2 DEF AskAborts
    <3>. QED  BY <2>2, <3>1, <3>2 DEF AskAborts, found
  <2>3. CASE AskLearns(w)
    <3>1. peerstore' \subseteq Peer \ {Self} /\ new' \in [Worker -> SUBSET Peer]
      BY <2>0, <2>3 DEF AskLearns, Answers
    <3>. QED  BY <2>3, <3>1 DEF AskLearns, found
  <2>4. CASE StoreOK(w)
    <3>1. ptr' \in [Worker -> Slots] /\ target' \in [Worker -> Peer]
          /\ added' \in [Worker -> BOOLEAN]
      BY <2>4, EndPassType DEF StoreOK
    <3>2. acked' \subseteq Peer /\ stored' \subseteq Peer
      BY <2>4 DEF StoreOK
    <3>3. pc' \in [Worker -> {"idle", "check", "pick", "mark", "read", "ask", "blame",
                "append", "abort", "offer", "offered", "quit", "stopped", "receive", "store",
                "appendFailed"}]
      BY <2>4 DEF StoreOK
    <3>. QED  BY <2>4, <3>1, <3>2, <3>3 DEF StoreOK, found
  <2>5. CASE StoreFails(w)
    <3>1. ptr' \in [Worker -> Slots] /\ target' \in [Worker -> Peer]
          /\ added' \in [Worker -> BOOLEAN]
      BY <2>5, EndPassType DEF StoreFails
    <3>2. stored' \subseteq Peer
      BY <2>5 DEF StoreFails
    <3>3. length' \in [Worker -> Nat]
      BY <2>5 DEF StoreFails
    <3>. QED  BY <2>5, <3>1, <3>2, <3>3 DEF StoreFails, found
  <2>. QED  BY <1>5, <2>1, <2>2, <2>3, <2>4, <2>5 DEF Answer
<1>. QED  BY <1>1, <1>2, <1>3, <1>4, <1>5 DEF Next

(* A pointer keeps pointing to a peer: no slot is ever emptied. *)
LEMMA PointerStep ==
  ASSUME TypeOK, PointerInv, [Next]_vars
  PROVE  PointerInv'
<1>1. SUFFICES ASSUME NEW u \in Worker, pc'[u] \in Pointing
               PROVE  ptr'[u] \in Slots /\ slots[ptr'[u]] # nil
  BY SlotsType DEF PointerInv
<1>. USE DEF TypeOK, Pointing, PointerInv, search, Goto
<1>2. CASE UNCHANGED vars
  BY <1>1, <1>2 DEF vars
<1>3. CASE SelfSearchEnds \/ MainStep
  BY <1>1, <1>3 DEF SelfSearchEnds, MainStep, SelfSearch, Seed, StartSearch, SearchEnds,
                    RemoveNonresponders, Return
<1>4. ASSUME NEW w \in Worker, WorkerStep(w)
      PROVE  ptr'[u] \in Slots /\ slots[ptr'[u]] # nil
  <2>1. CASE Pick(w)
    BY <1>1, <2>1 DEF Pick, Unmarked
  <2>2. CASE Check(w) \/ PickNone(w) \/ Mark(w) \/ ReadPeer(w) \/ Blame(w) \/ Offer(w)
             \/ Receive(w) \/ ReceiveNone(w) \/ AppendFailed(w)
    BY <1>1, <2>2 DEF Check, PickNone, Mark, ReadPeer, Blame, Offer, Receive, ReceiveNone,
                      AppendFailed
  <2>3. CASE AppendError(w) \/ Abort(w) \/ Unlock(w) \/ Quit(w)
    BY <1>1, <2>3 DEF AppendError, Abort, Unlock, Quit, EndPass
  <2>. QED  BY <1>4, <2>1, <2>2, <2>3 DEF WorkerStep
<1>5. ASSUME NEW w \in Worker, Answer(w)
      PROVE  ptr'[u] \in Slots /\ slots[ptr'[u]] # nil
  BY <1>1, <1>5 DEF Answer, AskFails, AskAborts, AskLearns, StoreOK, StoreFails, EndPass
<1>. QED  BY <1>2, <1>3, <1>4, <1>5 DEF Next

(* The invariant the others rest on: types, and pointers to peers. *)
LEMMA PointersTyped == Spec => [](TypeOK /\ PointerInv)
<1>1. Init => TypeOK /\ PointerInv
  <2>0. Self \in Peer /\ 1 \in Slots
    BY SetValueAssumption DEF Slots
  <2>1. ASSUME Init PROVE TypeOK
    <3>1. /\ peerstore \subseteq Peer \ {Self}
          /\ seed \subseteq Peer /\ errorCollection \subseteq Peer
          /\ asked \subseteq Peer /\ failed \subseteq Peer /\ offered \subseteq Peer
          /\ acked \subseteq Peer /\ stored \subseteq Peer
      BY <2>0, <2>1 DEF Init
    <3>2. slots \in [Slots -> Peer \cup {nil}] /\ marked \in [Slots -> BOOLEAN]
      BY <2>0, <2>1 DEF Init
    <3>3. /\ pc \in [Worker -> {"idle"}]
          /\ ptr \in [Worker -> Slots] /\ target \in [Worker -> Peer]
          /\ new \in [Worker -> SUBSET Peer] /\ added \in [Worker -> BOOLEAN]
          /\ header \in [Worker -> SUBSET Peer] /\ blamed \in [Worker -> Peer]
          /\ length \in [Worker -> Nat]
      BY <2>0, <2>1 DEF Init
    <3>4. /\ main = "start" /\ outcome = "none" /\ lock = nil
          /\ cursor = 0 /\ failedStored = 0
          /\ termenatingErr = FALSE /\ isDone = FALSE /\ torn = FALSE /\ sawValue = FALSE
      BY <2>1 DEF Init
    <3>. QED  BY <3>1, <3>2, <3>3, <3>4 DEF TypeOK
  <2>2. Init => PointerInv
    BY DEF Init, PointerInv, Pointing
  <2>. QED  BY <2>1, <2>2
<1>2. TypeOK /\ PointerInv /\ [Next]_vars => (TypeOK /\ PointerInv)'
  BY TypeStep, PointerStep
<1>. QED  BY <1>1, <1>2, PTL DEF Spec

-----------------------------------------------------------------------------
(***************************************************************************)
(* SetValue keeps its types: no worker follows a pointer to an empty slot, *)
(* whatever the others do to the slots behind its back.                    *)
(***************************************************************************)
THEOREM TypeCorrect == Spec => []TypeOK
  BY PointersTyped, PTL

(***************************************************************************)
(* The storers fill the first slots, in the strict order of their distance *)
(* to the key, at every moment of the search.                              *)
(***************************************************************************)
THEOREM StorersInOrder == Spec => []StorersSorted
<1>1. Init => StorersSorted
  BY SetValueAssumption DEF Init, StorersSorted, Slots
<1>2. TypeOK /\ StorersSorted /\ [Next]_vars => StorersSorted'
  <2>1. SlotsKept /\ StorersSorted => StorersSorted'
    BY DEF SlotsKept, StorersSorted
  <2>2. ASSUME NEW w \in Worker, Mark(w), StorersSorted PROVE StorersSorted'
    BY <2>2 DEF Mark, StorersSorted
  <2>. QED  BY <2>1, <2>2, OfferSorted, SlotsStep
<1>. QED  BY <1>1, <1>2, TypeCorrect, PTL DEF Spec

(***************************************************************************)
(* The closest node the search heard of is the first storer.               *)
(***************************************************************************)
THEOREM ClosestIsStorer == Spec => []ClosestKept
<1>1. Init => ClosestKept
  BY SetValueAssumption DEF Init, ClosestKept, Slots
<1>2. TypeOK /\ ClosestKept /\ [Next]_vars => ClosestKept'
  <2>1. SlotsKept /\ ClosestKept => ClosestKept'
    BY DEF SlotsKept, ClosestKept
  <2>2. ASSUME NEW w \in Worker, Mark(w), ClosestKept PROVE ClosestKept'
    BY <2>2 DEF Mark, ClosestKept
  <2>. QED  BY <2>1, <2>2, OfferClosest, SlotsStep
<1>. QED  BY <1>1, <1>2, TypeCorrect, PTL DEF Spec

-----------------------------------------------------------------------------
(* Once bounded, a peer stays bounded: failed only grows. *)
LEMMA BoundedStays ==
  ASSUME TypeOK, [Next]_vars, NEW p, Bounded(p)
  PROVE  Bounded(p)'
<1>1. failed \subseteq failed'
  BY DEF Next, vars, SelfSearchEnds, MainStep, SelfSearch, Seed, StartSearch, SearchEnds,
         RemoveNonresponders, Return, WorkerStep, Check, Pick, PickNone, Mark, ReadPeer,
         Blame, AppendError, Abort, Offer, Unlock, Quit, Receive, ReceiveNone, AppendFailed,
         Answer, AskFails, AskAborts, AskLearns, StoreOK, StoreFails, search
<1>. QED  BY <1>1 DEF Bounded

(* A peer that is at most as far as a bounded one is bounded. *)
LEMMA BoundedCloser ==
  ASSUME TypeOK, NEW p \in Peer, NEW q \in Peer, dist[p] <= dist[q], Bounded(q)
  PROVE  Bounded(p)
<1>1. dist[p] \in Nat /\ dist[q] \in Nat /\ \A r \in failed : dist[r] \in Nat
  BY SetValueAssumption DEF TypeOK
<1>. QED  BY <1>1 DEF Bounded

(* Every step keeps BlameInv. *)
LEMMA BlameStep ==
  ASSUME TypeOK, PointerInv, BlameInv, [Next]_vars
  PROVE  BlameInv'
<1>0. /\ nil \notin Peer /\ \A q \in Peer : dist[q] \in Nat
      /\ TypeOK' /\ PointerInv'
  BY TypeStep, PointerStep, SetValueAssumption
<1>1. ASSUME NEW u \in Worker, pc[u] \in Pointing
      PROVE  /\ slots[ptr[u]] \in Peer /\ slots'[ptr[u]] \in Peer
             /\ dist[slots'[ptr[u]]] <= dist[slots[ptr[u]]]
  BY <1>0, <1>1, SlotsType DEF TypeOK, PointerInv
(* What a worker that does not move keeps. *)
<1>2. ASSUME NEW u \in Worker, pc'[u] = pc[u], ptr'[u] = ptr[u], target'[u] = target[u],
             blamed'[u] = blamed[u]
      PROVE  RequestBounded(u)'
  <2>1. CASE pc[u] = "ask"
    <3>1. /\ dist[slots'[ptr[u]]] \in Nat /\ dist[slots[ptr[u]]] \in Nat
          /\ dist[target[u]] \in Nat
      BY <1>0, <1>1, <2>1 DEF TypeOK, Pointing
    <3>. QED  BY <1>1, <1>2, <2>1, <3>1 DEF BlameInv, RequestBounded, Pointing
  <2>2. CASE pc[u] = "blame"
    <3>1. Bounded(slots'[ptr[u]])
      BY <1>1, <2>2, BoundedCloser DEF BlameInv, RequestBounded, Pointing
    <3>2. \E q \in failed' : dist[slots'[ptr[u]]] <= dist[q]
      BY <3>1, BoundedStays DEF Bounded
    <3>. QED  BY <1>2, <2>2, <3>2 DEF Bounded, RequestBounded
  <2>3. CASE pc[u] = "append"
    <3>1. \E q \in failed' : dist[blamed[u]] <= dist[q]
      BY <2>3, BoundedStays DEF Bounded, BlameInv, RequestBounded
    <3>. QED  BY <1>2, <2>3, <3>1 DEF Bounded, RequestBounded
  <2>. QED  BY <1>2, <2>1, <2>2, <2>3 DEF RequestBounded
<1>3. ASSUME NEW u \in Worker, pc'[u] \notin {"ask", "blame", "append"}
      PROVE  RequestBounded(u)'
  BY <1>3 DEF RequestBounded
<1>4. ASSUME UNCHANGED <<header, errorCollection>>
      PROVE  ErrorsBounded'
  BY <1>4, BoundedStays DEF BlameInv, ErrorsBounded
<1>. USE DEF Goto, search, errors, TypeOK
<1>5. CASE UNCHANGED vars
  BY <1>2, <1>4, <1>5 DEF vars, BlameInv
<1>6. CASE SelfSearchEnds \/ MainStep
  <2>1. UNCHANGED <<header, errorCollection, ptr, target, blamed>>
        /\ (UNCHANGED pc \/ \A u \in Worker : pc'[u] \in {"check", "receive"})
    BY <1>6 DEF SelfSearchEnds, MainStep, SelfSearch, Seed, StartSearch, SearchEnds,
                RemoveNonresponders, Return
  <2>. QED  BY <1>2, <1>3, <1>4, <2>1 DEF BlameInv
<1>7. ASSUME NEW w \in Worker, WorkerStep(w) PROVE BlameInv'
  <2>0. \A u \in Worker \ {w} : RequestBounded(u)'
    <3>1. \A u \in Worker \ {w} : pc'[u] = pc[u] /\ ptr'[u] = ptr[u]
             /\ target'[u] = target[u] /\ blamed'[u] = blamed[u]
      BY <1>7 DEF WorkerStep, Check, Pick, PickNone, Mark, ReadPeer, Blame, AppendError,
                  Abort, Offer, Unlock, Quit, Receive, ReceiveNone, AppendFailed, EndPass
    <3>. QED  BY <1>2, <3>1
  <2>1. CASE Check(w) \/ Pick(w) \/ PickNone(w) \/ Mark(w) \/ Abort(w) \/ Offer(w)
             \/ Unlock(w) \/ Quit(w) \/ Receive(w) \/ ReceiveNone(w) \/ AppendFailed(w)
    <3>1. pc'[w] \notin {"ask", "blame", "append"} /\ UNCHANGED <<header, errorCollection>>
      BY <2>1 DEF Check, Pick, PickNone, Mark, Abort, Offer, Unlock, Quit, Receive,
                  ReceiveNone, AppendFailed
    <3>. QED  BY <1>3, <1>4, <2>0, <3>1 DEF BlameInv
  <2>2. CASE ReadPeer(w)
    <3>1. /\ pc'[w] = "ask" /\ ptr'[w] = ptr[w] /\ target'[w] = slots[ptr[w]]
          /\ slots' = slots /\ UNCHANGED <<header, errorCollection>>
          /\ slots[ptr[w]] \in Peer
      BY <1>1, <2>2 DEF ReadPeer, Pointing, found
    <3>2. RequestBounded(w)'
      BY <1>0, <3>1 DEF RequestBounded
    <3>. QED  BY <1>4, <2>0, <3>1, <3>2 DEF BlameInv
  <2>3. CASE Blame(w)
    <3>1. /\ pc'[w] = "append" /\ blamed'[w] = slots[ptr[w]] /\ failed' = failed
          /\ errorCollection' = errorCollection
          /\ header' = [header EXCEPT ![w] = errorCollection]
      BY <2>3 DEF Blame
    <3>2. Bounded(slots[ptr[w]])
      BY <2>3 DEF Blame, BlameInv, RequestBounded
    <3>3. RequestBounded(w)'
      BY <3>1, <3>2 DEF RequestBounded, Bounded
    <3>4. ErrorsBounded'
      BY <3>1 DEF BlameInv, ErrorsBounded, Bounded
    <3>. QED  BY <2>0, <3>3, <3>4 DEF BlameInv
  <2>4. CASE AppendError(w)
    <3>1. /\ pc'[w] = "check" /\ failed' = failed
          /\ errorCollection' = header[w] \cup {blamed[w]}
          /\ header' = [header EXCEPT ![w] = {}]
      BY <2>4 DEF AppendError
    <3>2. Bounded(blamed[w])
      BY <2>4 DEF AppendError, BlameInv, RequestBounded
    <3>3. ErrorsBounded'
      BY <3>1, <3>2 DEF BlameInv, ErrorsBounded, Bounded
    <3>. QED  BY <1>3, <2>0, <3>1, <3>3 DEF BlameInv
  <2>. QED  BY <1>7, <2>1, <2>2, <2>3, <2>4 DEF WorkerStep
<1>8. ASSUME NEW w \in Worker, Answer(w) PROVE BlameInv'
  <2>1. /\ UNCHANGED <<header, errorCollection, blamed>>
        /\ \A u \in Worker \ {w} : pc'[u] = pc[u] /\ ptr'[u] = ptr[u]
             /\ target'[u] = target[u]
    BY <1>8 DEF Answer, AskFails, AskAborts, AskLearns, StoreOK, StoreFails, EndPass
  <2>2. \A u \in Worker \ {w} : RequestBounded(u)'
    BY <1>2, <2>1
  <2>3. CASE AskFails(w)
    <3>1. /\ pc'[w] = "blame" /\ ptr'[w] = ptr[w] /\ slots' = slots
          /\ target[w] \in failed'
      BY <2>3 DEF AskFails, found
    <3>2. dist[slots[ptr[w]]] <= dist[target[w]]
      BY <2>3 DEF AskFails, BlameInv, RequestBounded
    <3>3. RequestBounded(w)'
      BY <3>1, <3>2 DEF RequestBounded, Bounded
    <3>. QED  BY <1>4, <2>1, <2>2, <3>3 DEF BlameInv
  <2>4. CASE AskAborts(w) \/ AskLearns(w) \/ StoreOK(w) \/ StoreFails(w)
    <3>1. pc'[w] \notin {"ask", "blame", "append"}
      BY <2>4 DEF AskAborts, AskLearns, StoreOK, StoreFails
    <3>. QED  BY <1>3, <1>4, <2>1, <2>2, <3>1 DEF BlameInv
  <2>. QED  BY <1>8, <2>3, <2>4 DEF Answer
<1>. QED  BY <1>5, <1>6, <1>7, <1>8 DEF Next

(***************************************************************************)
(* Whoever is removed from the peer store for not answering is at most as  *)
(* far from the key as a peer that did not answer, for every number of     *)
(* workers that replace each other's slots.  The invariant follows a       *)
(* failure from the request (RequestBounded) through the slice a worker    *)
(* has read (ErrorsBounded) to errorCollection.                            *)
(***************************************************************************)
THEOREM BlameIsBounded == Spec => []BlameBounded
<1>1. Init => BlameInv
  BY DEF Init, BlameInv, RequestBounded, ErrorsBounded
<1>2. TypeOK /\ PointerInv /\ BlameInv /\ [Next]_vars => BlameInv'
  BY BlameStep
<1>3. BlameInv => BlameBounded
  BY DEF BlameInv, ErrorsBounded, Bounded, BlameBounded
<1>. QED  BY <1>1, <1>2, <1>3, PointersTyped, PTL DEF Spec

-----------------------------------------------------------------------------
(* Every step keeps the workers where the phase of SetValue allows. *)
LEMMA PhaseStep ==
  ASSUME TypeOK, PhaseInv, [Next]_vars
  PROVE  PhaseInv'
<1>. USE DEF TypeOK, PhaseInv, Searching, AllStopped
<1>1. CASE UNCHANGED vars
  BY <1>1 DEF vars
<1>2. CASE SelfSearchEnds
  BY <1>2 DEF SelfSearchEnds
<1>3. CASE MainStep
  <2>1. CASE SelfSearch \/ Seed
    BY <2>1 DEF SelfSearch, Seed
  <2>2. CASE StartSearch
    BY <2>2 DEF StartSearch
  <2>3. CASE SearchEnds
    BY <2>3 DEF SearchEnds
  <2>4. CASE RemoveNonresponders
    BY <2>4 DEF RemoveNonresponders
  <2>5. CASE Return
    BY <2>5 DEF Return
  <2>. QED  BY <1>3, <2>1, <2>2, <2>3, <2>4, <2>5 DEF MainStep
<1>4. ASSUME NEW w \in Worker, WorkerStep(w) \/ Answer(w) PROVE PhaseInv'
  <2>1. main' = main /\ pc' = [pc EXCEPT ![w] = pc'[w]]
    BY <1>4 DEF WorkerStep, Check, Pick, PickNone, Mark, ReadPeer, Blame, AppendError, Abort,
                Offer, Unlock, Quit, Receive, ReceiveNone, AppendFailed, Answer, AskFails,
                AskAborts, AskLearns, StoreOK, StoreFails, Goto
  <2>2. \/ pc[w] \in Searching \ {"stopped"} /\ pc'[w] \in Searching
        \/ /\ pc[w] \in {"receive", "store", "appendFailed"}
           /\ pc'[w] \in {"receive", "store", "appendFailed", "stopped"}
    BY <1>4 DEF WorkerStep, Check, Pick, PickNone, Mark, ReadPeer, Blame, AppendError, Abort,
                Offer, Unlock, Quit, Receive, ReceiveNone, AppendFailed, Answer, AskFails,
                AskAborts, AskLearns, StoreOK, StoreFails, Goto
  <2>3. main = "search" \/ main = "store"
    BY <2>2
  <2>. QED  BY <2>1, <2>2, <2>3
<1>. QED  BY <1>1, <1>2, <1>3, <1>4 DEF Next

(* A worker that is between marking a slot and the answer of its peer      *)
(* stays there, or the peer has been asked.                                *)
LEMMA AskingStep ==
  ASSUME TypeOK, PhaseInv, [Next]_vars, NEW w \in Worker, NEW i \in Slots, Asking(w, i),
         slots'[i] = slots[i]
  PROVE  Asking(w, i)' \/ slots[i] \in asked'
<1>0. main = "search" /\ pc[w] \in {"read", "ask"}
  BY DEF PhaseInv, Asking, TypeOK, AllStopped
<1>. USE DEF TypeOK, Goto, search
<1>1. CASE UNCHANGED <<pc, ptr, target>>
  BY <1>1 DEF Asking
<1>2. CASE SelfSearchEnds \/ MainStep
  <2>1. UNCHANGED <<pc, ptr, target>>
    BY <1>0, <1>2 DEF SelfSearchEnds, MainStep, SelfSearch, Seed, StartSearch, SearchEnds,
                      RemoveNonresponders, Return
  <2>. QED  BY <1>1, <2>1
<1>3. ASSUME NEW u \in Worker, WorkerStep(u) \/ Answer(u)
      PROVE  Asking(w, i)' \/ slots[i] \in asked'
  <2>1. CASE u # w
    <3>1. pc'[w] = pc[w] /\ ptr'[w] = ptr[w] /\ target'[w] = target[w]
      BY <1>3, <2>1
      DEF WorkerStep, Check, Pick, PickNone, Mark, ReadPeer, Blame, AppendError, Abort, Offer,
          Unlock, Quit, Receive, ReceiveNone, AppendFailed, EndPass, Answer, AskFails,
          AskAborts, AskLearns, StoreOK, StoreFails
    <3>. QED  BY <3>1 DEF Asking
  <2>2. CASE u = w /\ ReadPeer(w)
    BY <2>2 DEF ReadPeer, Asking
  <2>3. CASE u = w /\ (AskFails(w) \/ AskAborts(w) \/ AskLearns(w))
    BY <2>3 DEF AskFails, AskAborts, AskLearns, Asking
  <2>. QED
    BY <1>0, <1>3, <2>1, <2>2, <2>3
    DEF WorkerStep, Check, Pick, PickNone, Mark, Blame, AppendError, Abort, Offer, Unlock,
        Quit, Receive, ReceiveNone, AppendFailed, Answer, StoreOK, StoreFails
<1>. QED  BY <1>1, <1>2, <1>3 DEF Next, vars

(* No mark outlives the peer it was meant for. *)
LEMMA MarkStep ==
  ASSUME TypeOK, PhaseInv, MarkInv, [Next]_vars
  PROVE  MarkInv'
<1>1. asked \subseteq asked'
  BY DEF Next, vars, SelfSearchEnds, MainStep, SelfSearch, Seed, StartSearch, SearchEnds,
         RemoveNonresponders, Return, WorkerStep, Check, Pick, PickNone, Mark, ReadPeer,
         Blame, AppendError, Abort, Offer, Unlock, Quit, Receive, ReceiveNone, AppendFailed,
         Answer, AskFails, AskAborts, AskLearns, StoreOK, StoreFails, search
<1>2. SUFFICES ASSUME NEW i \in Slots, slots'[i] # nil, marked'[i]
               PROVE  slots'[i] \in asked' \/ \E w \in Worker : Asking(w, i)'
  BY DEF MarkInv
<1>3. CASE slots'[i] = slots[i] /\ marked'[i] = marked[i]
  <2>1. slots[i] \in asked \/ \E w \in Worker : Asking(w, i)
    BY <1>2, <1>3 DEF MarkInv
  <2>. QED  BY <1>1, <1>3, <2>1, AskingStep
<1>4. CASE SlotsKept
  BY <1>3, <1>4 DEF SlotsKept
<1>5. ASSUME NEW p \in Peer, Offering(p)
      PROVE  slots'[i] = slots[i] /\ marked'[i] = marked[i]
  <2>1. CASE NotPut(p)
    BY <2>1 DEF NotPut
  <2>2. ASSUME NEW m \in Slots, PutInto(p, m)
        PROVE  slots'[i] = slots[i] /\ marked'[i] = marked[i]
    <3>1. slots' = [slots EXCEPT ![m] = p] /\ marked' = [marked EXCEPT ![m] = FALSE]
      BY <2>2 DEF PutInto
    <3>2. i # m
      BY <1>2, <3>1 DEF TypeOK
    <3>. QED  BY <3>1, <3>2 DEF TypeOK
  <2>. QED  BY <1>5, <2>1, <2>2 DEF Offering
<1>6. ASSUME NEW w \in Worker, Mark(w)
      PROVE  slots'[i] \in asked' \/ \E u \in Worker : Asking(u, i)'
  <2>1. CASE i = ptr[w]
    <3>1. pc'[w] = "read" /\ ptr'[w] = i
      BY <1>6, <2>1 DEF Mark, Goto, search, TypeOK
    <3>. QED  BY <3>1 DEF Asking
  <2>2. CASE i # ptr[w]
    <3>1. slots'[i] = slots[i] /\ marked'[i] = marked[i]
      BY <1>6, <2>2 DEF Mark, TypeOK
    <3>. QED  BY <1>3, <3>1
  <2>. QED  BY <2>1, <2>2
<1>. QED  BY <1>3, <1>4, <1>5, <1>6, SlotsStep

(* The last worker to stop leaves no slot to be asked, unless it raised    *)
(* one of the two flags.                                                   *)
LEMMA AliveStep ==
  ASSUME TypeOK, PhaseInv, AliveInv, [Next]_vars
  PROVE  AliveInv'
<1>. USE DEF TypeOK, Goto, search
<1>1. SUFFICES ASSUME ~isDone', ~termenatingErr'
               PROVE  /\ main' = "search" => Unmarked' = {} \/ ~AllStopped'
                      /\ main' \in {"remove", "store"} => Unmarked' = {}
  BY DEF AliveInv
<1>2. CASE UNCHANGED vars
  <2>1. Unmarked' = Unmarked /\ AllStopped' = AllStopped
    BY <1>2 DEF vars, found, Unmarked, AllStopped
  <2>. QED  BY <1>1, <1>2, <2>1 DEF vars, AliveInv
<1>3. CASE SelfSearchEnds \/ MainStep
  <2>1. CASE StartSearch
    <3>1. main' = "search" /\ ~AllStopped'
      BY <2>1, SetValueAssumption DEF StartSearch, AllStopped
    <3>. QED  BY <3>1
  <2>2. CASE SearchEnds \/ RemoveNonresponders
    <3>1. Unmarked' = Unmarked
      BY <2>2 DEF SearchEnds, RemoveNonresponders, found, Unmarked
    <3>2. Unmarked = {}
      BY <1>1, <2>2 DEF SearchEnds, RemoveNonresponders, AliveInv
    <3>. QED  BY <3>1, <3>2
  <2>3. CASE SelfSearchEnds \/ SelfSearch \/ Seed \/ Return
    BY <2>3 DEF SelfSearchEnds, SelfSearch, Seed, Return
  <2>. QED  BY <1>3, <2>1, <2>2, <2>3 DEF MainStep
<1>4. ASSUME NEW w \in Worker, WorkerStep(w) \/ Answer(w)
      PROVE  /\ main' = "search" => Unmarked' = {} \/ ~AllStopped'
             /\ main' \in {"remove", "store"} => Unmarked' = {}
  <2>1. main' = main /\ ~isDone /\ ~termenatingErr
    BY <1>1, <1>4
    DEF WorkerStep, Check, Pick, PickNone, Mark, ReadPeer, Blame, AppendError, Abort, Offer,
        Unlock, Quit, Receive, ReceiveNone, AppendFailed, Answer, AskFails, AskAborts,
        AskLearns, StoreOK, StoreFails
  <2>2. CASE main = "search"
    <3>1. CASE pc'[w] # "stopped"
      BY <2>1, <2>2, <3>1 DEF AllStopped
    <3>2. CASE PickNone(w)
      <4>1. Unmarked' = {}
        BY <3>2 DEF PickNone, found, Unmarked
      <4>. QED  BY <2>1, <2>2, <4>1
    <3>3. pc'[w] # "stopped" \/ PickNone(w)
      BY <1>1, <1>4, <2>1, <2>2
      DEF PhaseInv, Searching, WorkerStep, Check, Pick, Mark, ReadPeer, Blame, AppendError,
          Abort, Offer, Unlock, Quit, Receive, ReceiveNone, AppendFailed, Answer, AskFails,
          AskAborts, AskLearns, StoreOK, StoreFails
    <3>. QED  BY <3>1, <3>2, <3>3
  <2>3. CASE main \in {"remove", "store"}
    <3>1. pc[w] \in {"receive", "store", "appendFailed", "stopped"}
      BY <2>3 DEF PhaseInv, AllStopped
    <3>2. UNCHANGED <<slots, marked>>
      BY <1>4, <3>1
      DEF WorkerStep, Check, Pick, PickNone, Mark, ReadPeer, Blame, AppendError, Abort, Offer,
          Unlock, Quit, Receive, ReceiveNone, AppendFailed, Answer, AskFails, AskAborts,
          AskLearns, StoreOK, StoreFails, found
    <3>3. Unmarked' = Unmarked /\ Unmarked = {}
      BY <2>1, <2>3, <3>2 DEF Unmarked, AliveInv
    <3>. QED  BY <2>1, <2>3, <3>3
  <2>. QED  BY <2>1, <2>2, <2>3
<1>. QED  BY <1>2, <1>3, <1>4 DEF Next

(***************************************************************************)
(* When the search ran out of nodes to ask, every storer was asked, for    *)
(* every number of workers.  The invariant relates a mark to the worker    *)
(* that made it (MarkInv) and the nodes that are still to be asked to the  *)
(* workers that are still running (AliveInv).                              *)
(***************************************************************************)
THEOREM AllStorersAsked == Spec => []StorersAsked
<1>1. Init => AskedInv
  <2>1. ASSUME Init PROVE PhaseInv /\ AliveInv
    BY <2>1 DEF Init, PhaseInv, AliveInv
  <2>2. ASSUME Init PROVE MarkInv
    BY <2>2 DEF Init, MarkInv
  <2>. QED  BY <2>1, <2>2 DEF AskedInv
<1>2. TypeOK /\ AskedInv /\ [Next]_vars => AskedInv'
  BY PhaseStep, MarkStep, AliveStep DEF AskedInv
<1>3. TypeOK /\ AskedInv => StorersAsked
  <2>1. SUFFICES ASSUME TypeOK, AskedInv, main \in {"remove", "store"}, ~isDone,
                        ~termenatingErr, NEW i \in Slots, slots[i] # nil
                 PROVE  slots[i] \in asked
    BY DEF StorersAsked
  <2>2. marked[i]
    BY <2>1 DEF AskedInv, AliveInv, Unmarked
  <2>3. \A w \in Worker : ~Asking(w, i)
    BY <2>1 DEF AskedInv, PhaseInv, AllStopped, Asking
  <2>. QED  BY <2>1, <2>2, <2>3 DEF AskedInv, MarkInv
<1>. QED  BY <1>1, <1>2, <1>3, TypeCorrect, PTL DEF Spec

-----------------------------------------------------------------------------
(* FS_Interval for the numbers of the slots. *)
LEMMA IntervalSize ==
  ASSUME NEW n \in Nat
  PROVE  IsFiniteSet(1 .. n) /\ Cardinality(1 .. n) = n
<1>1. 1 \in Int /\ n \in Int
  OBVIOUS
<1>2. IsFiniteSet(1 .. n) /\ Cardinality(1 .. n) = IF 1 > n THEN 0 ELSE n - 1 + 1
  BY ONLY <1>1, FS_Interval, Zenon
<1>3. (IF 1 > n THEN 0 ELSE n - 1 + 1) = n
  OBVIOUS
<1>. QED  BY ONLY <1>2, <1>3

(* The storers that were handed out are finitely many, and no more than    *)
(* the times one was handed out.                                           *)
LEMMA HandedFinite ==
  ASSUME NEW n \in Nat, NEW S, NEW f \in [1 .. n -> S], S = {f[i] : i \in 1 .. n}
  PROVE  IsFiniteSet(S) /\ Cardinality(S) \in Nat /\ Cardinality(S) <= n
<1>1. f \in Surjection(1 .. n, S)
  BY DEF Surjection
<1>2. IsFiniteSet(1 .. n) /\ Cardinality(1 .. n) = n
  BY IntervalSize
<1>3. IsFiniteSet(S) /\ Cardinality(S) <= n
  BY <1>1, <1>2, FS_Surjection
<1>. QED  BY <1>3, FS_CardinalityType

(* The failed stores are finitely many. *)
LEMMA LostFinite ==
  TypeOK =>
    /\ IsFiniteSet(Handed) /\ Cardinality(Handed) \in Nat /\ Cardinality(Handed) <= cursor
    /\ IsFiniteSet(Lost) /\ Cardinality(Lost) \in Nat
<1>. SUFFICES ASSUME TypeOK
     PROVE  /\ IsFiniteSet(Handed) /\ Cardinality(Handed) \in Nat
            /\ Cardinality(Handed) <= cursor
            /\ IsFiniteSet(Lost) /\ Cardinality(Lost) \in Nat
  OBVIOUS
<1>. DEFINE f == [i \in 1 .. cursor |-> slots[i]]
<1>1. f \in [1 .. cursor -> Handed] /\ Handed = {f[i] : i \in 1 .. cursor} /\ cursor \in Nat
  BY DEF Handed, TypeOK
<1>. HIDE DEF f
<1>2. IsFiniteSet(Handed) /\ Cardinality(Handed) \in Nat /\ Cardinality(Handed) <= cursor
  BY <1>1, HandedFinite
<1>3. Lost \in SUBSET Handed
  BY DEF Lost
<1>4. IsFiniteSet(Lost)
  BY <1>2, <1>3, FS_Subset
<1>. QED  BY <1>2, <1>4, FS_CardinalityType

(* The steps that have nothing to do with storing. *)
StoringKept ==
  /\ UNCHANGED <<cursor, acked, failedStored, length>>
  /\ slots' = slots \/ main \in {"seed", "search"}
  /\ outcome' \in {outcome, "alreadySet", "error", "panic", "tooFewFound"}
  /\ main' \notin {"store", "returned"} => main \notin {"store", "returned"}
  /\ main' # "returned" => main # "returned" /\ outcome' = outcome
  /\ \A w \in Worker : /\ pc'[w] = "store" <=> pc[w] = "store"
                       /\ pc'[w] = "appendFailed" <=> pc[w] = "appendFailed"
                       /\ pc[w] = "store" => target'[w] = target[w]

(* While the value is stored no step breaks the count. *)
LEMMA StoringStep ==
  ASSUME TypeOK, PhaseInv, [Next]_vars
  PROVE  \/ StoringKept
         \/ Return
         \/ \E w \in Worker : Receive(w) \/ StoreOK(w) \/ StoreFails(w) \/ AppendFailed(w)
<1>. USE DEF storing, found, search
<1>1. CASE UNCHANGED vars
  BY <1>1 DEF vars, StoringKept
<1>2. CASE SelfSearchEnds
  BY <1>2 DEF SelfSearchEnds, StoringKept
<1>3. ASSUME MainStep, ~Return PROVE StoringKept
  <2>1. CASE SelfSearch
    BY <2>1 DEF SelfSearch, StoringKept
  <2>2. CASE Seed
    BY <2>2 DEF Seed, StoringKept
  <2>3. CASE StartSearch
    BY <2>3 DEF StartSearch, StoringKept, PhaseInv
  <2>4. CASE SearchEnds
    BY <2>4 DEF SearchEnds, StoringKept
  <2>5. CASE RemoveNonresponders
    BY <2>5 DEF RemoveNonresponders, StoringKept, PhaseInv, AllStopped
  <2>. QED  BY <1>3, <2>1, <2>2, <2>3, <2>4, <2>5 DEF MainStep
<1>4. ASSUME NEW w \in Worker, WorkerStep(w) \/ Answer(w),
             ~(Receive(w) \/ StoreOK(w) \/ StoreFails(w) \/ AppendFailed(w))
      PROVE  StoringKept
  <2>1. /\ UNCHANGED <<cursor, acked, failedStored, length, outcome, main>>
        /\ slots' = slots \/ pc[w] = "offer"
    BY <1>4 DEF WorkerStep, Check, Pick, PickNone, Mark, ReadPeer, Blame, AppendError, Abort,
                Offer, Unlock, Quit, ReceiveNone, Answer, AskFails, AskAborts, AskLearns
  <2>2. /\ pc[w] \notin {"store", "appendFailed"} /\ pc'[w] \notin {"store", "appendFailed"}
        /\ \A u \in Worker \ {w} : pc'[u] = pc[u] /\ target'[u] = target[u]
    <3>. USE DEF Goto, EndPass, TypeOK
    <3>1. CASE WorkerStep(w)
      BY <1>4, <3>1 DEF WorkerStep, Check, Pick, PickNone, Mark, ReadPeer, Blame, AppendError,
                        Abort, Offer, Unlock, Quit, ReceiveNone
    <3>2. CASE Answer(w)
      BY <1>4, <3>2 DEF Answer, AskFails, AskAborts, AskLearns
    <3>. QED  BY <1>4, <3>1, <3>2
  <2>3. pc[w] = "offer" => main = "search"
    BY DEF PhaseInv, AllStopped, TypeOK
  <2>. QED  BY <2>1, <2>2, <2>3 DEF StoringKept
<1>. QED  BY <1>1, <1>2, <1>3, <1>4 DEF Next

(* They keep what was counted. *)
LEMMA CountKept ==
  ASSUME TypeOK, CountInv, StoringKept
  PROVE  CountInv'
<1>1. Handed' = Handed
  <2>1. CASE slots' = slots
    BY <2>1 DEF StoringKept, Handed
  <2>2. CASE main \in {"seed", "search"}
    BY <2>2 DEF StoringKept, CountInv, HandedOnce, Handed
  <2>. QED  BY <2>1, <2>2 DEF StoringKept
<1>2. Busy' = Busy
  BY DEF Busy, StoringKept
<1>3. Lost' = Lost
  BY <1>1, <1>2 DEF Lost, StoringKept
<1>4. (1 .. cursor \subseteq Storers)'
  <2>1. CASE slots' = slots
    BY <2>1 DEF StoringKept, CountInv, HandedOnce, Storers
  <2>2. CASE main \in {"seed", "search"}
    <3>1. cursor' = 0
      BY <2>2 DEF StoringKept, CountInv, HandedOnce
    <3>. QED  BY <3>1
  <2>. QED  BY <2>1, <2>2 DEF StoringKept
<1>5. HandedOnce'
  <2>1. \A w \in Worker : pc'[w] = "store" => target'[w] \in Handed \ acked
    BY DEF StoringKept, CountInv, HandedOnce
  <2>2. \A w, u \in Worker :
          pc'[w] = "store" /\ pc'[u] = "store" /\ w # u => target'[w] # target'[u]
    BY DEF StoringKept, CountInv, HandedOnce
  <2>. QED  BY <1>1, <1>4, <2>1, <2>2 DEF StoringKept, CountInv, HandedOnce
<1>6. FailuresBounded'
  BY <1>3 DEF StoringKept, CountInv, FailuresBounded
<1>7. NoSpuriousFailure'
  BY DEF StoringKept, CountInv, NoSpuriousFailure
<1>. QED  BY <1>5, <1>6, <1>7 DEF CountInv, StoringKept

(* What is lost stays lost, so the bound on the failures only grows. *)
LEMMA LostGrows ==
  ASSUME TypeOK, TypeOK', Lost \subseteq Lost', FailuresBounded,
         NEW w \in Worker,
         \A u \in Worker \ {w} : length'[u] = length[u] /\ pc'[u] = pc[u],
         pc'[w] = "appendFailed" => length'[w] + 1 <= Cardinality(Lost)',
         failedStored' = failedStored \/ failedStored' <= Cardinality(Lost)'
  PROVE  FailuresBounded'
<1>1. IsFiniteSet(Lost') /\ Cardinality(Lost)' \in Nat /\ Cardinality(Lost) \in Nat
  <2>1. (IsFiniteSet(Lost) /\ Cardinality(Lost) \in Nat)'
    BY LostFinite, PTL
  <2>. QED  BY <2>1, LostFinite
<1>2. Cardinality(Lost) <= Cardinality(Lost)'
  BY <1>1, FS_Subset
<1>3. failedStored' <= Cardinality(Lost)'
  BY <1>1, <1>2 DEF FailuresBounded, TypeOK
<1>4. ASSUME NEW u \in Worker, pc'[u] = "appendFailed" PROVE length'[u] + 1 <= Cardinality(Lost)'
  <2>1. CASE u = w
    BY <1>4, <2>1
  <2>2. CASE u # w
    BY <1>1, <1>2, <1>4, <2>2 DEF FailuresBounded, TypeOK
  <2>. QED  BY <2>1, <2>2
<1>. QED  BY <1>3, <1>4 DEF FailuresBounded

(* The storer that is handed out next was not handed out before. *)
LEMMA CountReceive ==
  ASSUME TypeOK, TypeOK', PhaseInv, StorersSorted, CountInv, NEW w \in Worker, Receive(w)
  PROVE  CountInv'
<1>. DEFINE p == slots[cursor + 1]
<1>1. /\ pc[w] = "receive" /\ cursor + 1 \in Storers /\ cursor' = cursor + 1
      /\ slots' = slots /\ acked' = acked /\ failedStored' = failedStored /\ length' = length
      /\ outcome' = outcome /\ main' = main
      /\ pc' = [pc EXCEPT ![w] = "store"] /\ target' = [target EXCEPT ![w] = p]
  BY DEF Receive, Goto, found
<1>2. /\ pc'[w] = "store" /\ target'[w] = p
      /\ \A u \in Worker \ {w} : pc'[u] = pc[u] /\ target'[u] = target[u]
  BY <1>1 DEF TypeOK
<1>3. cursor \in Nat /\ 1 .. cursor \subseteq Storers /\ Storers \subseteq Slots
  BY DEF TypeOK, CountInv, HandedOnce, Storers
<1>4. p # nil /\ cursor + 1 \in Slots
  BY <1>1, <1>3 DEF Storers
<1>5. p \notin Handed
  <2>1. SUFFICES ASSUME NEW i \in 1 .. cursor, slots[i] = p PROVE FALSE
    BY DEF Handed
  <2>2. i \in Slots /\ i < cursor + 1
    BY <1>3
  <2>3. slots[i] # nil /\ dist[slots[i]] < dist[p]
    BY <1>4, <2>2 DEF StorersSorted
  <2>4. p \in Peer /\ dist[p] \in Nat
    BY <1>4, SetValueAssumption DEF TypeOK
  <2>. QED  BY <2>1, <2>3, <2>4
<1>6. Handed' = Handed \cup {p}
  <2>1. 1 .. cursor + 1 = (1 .. cursor) \cup {cursor + 1}
    BY <1>3
  <2>. QED  BY <1>1, <2>1 DEF Handed
<1>7. Busy' \subseteq Busy \cup {p}
  BY <1>1, <1>2 DEF Busy
<1>. HIDE DEF p
<1>8. Lost \subseteq Lost'
  BY <1>1, <1>5, <1>6, <1>7 DEF Lost
<1>9. FailuresBounded'
  <2>1. pc'[w] # "appendFailed"
    BY <1>2
  <2>2. \A u \in Worker \ {w} : length'[u] = length[u] /\ pc'[u] = pc[u]
    BY <1>1, <1>2
  <2>. QED  BY <1>1, <1>8, <2>1, <2>2, LostGrows DEF CountInv
<1>10. HandedOnce'
  <2>1. main = "store"
    BY <1>1 DEF PhaseInv, Searching, AllStopped, TypeOK
  <2>2. (1 .. cursor \subseteq Storers)'
    <3>1. Storers' = Storers
      BY <1>1 DEF Storers
    <3>. QED  BY <1>1, <1>3, <3>1
  <2>3. acked' \subseteq Handed'
    BY <1>1, <1>6 DEF CountInv, HandedOnce
  <2>4. \A u \in Worker : pc'[u] = "store" => target'[u] \in Handed' \ acked'
    BY <1>1, <1>2, <1>5, <1>6 DEF CountInv, HandedOnce
  <2>5. \A v, u \in Worker :
          pc'[v] = "store" /\ pc'[u] = "store" /\ v # u => target'[v] # target'[u]
    BY <1>2, <1>5 DEF CountInv, HandedOnce
  <2>. QED  BY <1>1, <2>1, <2>2, <2>3, <2>4, <2>5 DEF HandedOnce
<1>11. NoSpuriousFailure'
  BY <1>1 DEF CountInv, NoSpuriousFailure
<1>. QED  BY <1>1, <1>9, <1>10, <1>11 DEF CountInv

(* A storer that confirms the value is not lost; one that fails is. *)
LEMMA CountAnswer ==
  ASSUME TypeOK, TypeOK', PhaseInv, CountInv, NEW w \in Worker, StoreOK(w) \/ StoreFails(w)
  PROVE  CountInv'
<1>. DEFINE p == target[w]
<1>1. /\ pc[w] = "store" /\ cursor' = cursor /\ slots' = slots /\ failedStored' = failedStored
      /\ outcome' = outcome /\ main' = main
  BY DEF StoreOK, StoreFails, found
<1>2. \/ pc' = [pc EXCEPT ![w] = "receive"] /\ acked' = acked \cup {p} /\ length' = length
      \/ /\ pc' = [pc EXCEPT ![w] = "appendFailed"] /\ acked' = acked
         /\ length' = [length EXCEPT ![w] = failedStored]
  BY DEF StoreOK, StoreFails, Goto
<1>3. /\ pc'[w] # "store"
      /\ \A u \in Worker \ {w} : pc'[u] = pc[u] /\ target'[u] = target[u] /\ length'[u] = length[u]
  BY <1>2 DEF TypeOK, StoreOK, StoreFails, EndPass
<1>4. p \in Handed \ acked /\ p \in Busy
      /\ \A u \in Worker \ {w} : pc[u] = "store" => target[u] # p
  BY <1>1 DEF CountInv, HandedOnce, Busy
<1>5. Handed' = Handed
  BY <1>1 DEF Handed
<1>6. Busy' \subseteq Busy \ {p}
  BY <1>3, <1>4 DEF Busy
<1>. HIDE DEF p
<1>7. Lost \subseteq Lost' /\ p \notin Lost
  BY <1>2, <1>4, <1>5, <1>6 DEF Lost
<1>8. pc'[w] = "appendFailed" => length'[w] + 1 <= Cardinality(Lost)'
  <2>1. SUFFICES ASSUME pc'[w] = "appendFailed" PROVE length'[w] + 1 <= Cardinality(Lost)'
    OBVIOUS
  <2>2. acked' = acked /\ length'[w] = failedStored
    BY <1>2, <2>1 DEF TypeOK
  <2>3. Lost \cup {p} \subseteq Lost'
    BY <1>4, <1>5, <1>6, <1>7, <2>2 DEF Lost
  <2>4. /\ IsFiniteSet(Lost \cup {p})
        /\ Cardinality(Lost \cup {p}) = Cardinality(Lost) + 1
    BY <1>7, LostFinite, FS_AddElement
  <2>5. (IsFiniteSet(Lost) /\ Cardinality(Lost) \in Nat)'
    BY LostFinite, PTL
  <2>6. Cardinality(Lost \cup {p}) <= Cardinality(Lost)'
    BY <2>3, <2>5, FS_Subset
  <2>7. failedStored <= Cardinality(Lost) /\ failedStored \in Nat /\ Cardinality(Lost) \in Nat
    BY LostFinite DEF CountInv, FailuresBounded, TypeOK
  <2>. QED  BY <2>2, <2>4, <2>5, <2>6, <2>7
<1>9. FailuresBounded'
  BY <1>1, <1>3, <1>7, <1>8, LostGrows DEF CountInv
<1>10. HandedOnce'
  <2>1. (1 .. cursor \subseteq Storers)'
    BY <1>1 DEF CountInv, HandedOnce, Storers
  <2>2. acked' \subseteq Handed'
    BY <1>2, <1>4, <1>5 DEF CountInv, HandedOnce
  <2>3. \A u \in Worker : pc'[u] = "store" => target'[u] \in Handed' \ acked'
    BY <1>2, <1>3, <1>4, <1>5 DEF CountInv, HandedOnce
  <2>4. \A v, u \in Worker :
          pc'[v] = "store" /\ pc'[u] = "store" /\ v # u => target'[v] # target'[u]
    BY <1>3 DEF CountInv, HandedOnce
  <2>. QED  BY <1>1, <2>1, <2>2, <2>3, <2>4 DEF CountInv, HandedOnce
<1>11. NoSpuriousFailure'
  <2>1. outcome = "none"
    BY <1>1 DEF PhaseInv, Searching, AllStopped, TypeOK, CountInv
  <2>. QED  BY <1>1, <2>1 DEF NoSpuriousFailure
<1>. QED  BY <1>1, <1>9, <1>10, <1>11 DEF CountInv

(* A worker that has seen failedStored shorter than it is makes it shorter *)
(* still, and a storer that failed is counted once at most.                *)
LEMMA CountAppend ==
  ASSUME TypeOK, TypeOK', CountInv, NEW w \in Worker, AppendFailed(w)
  PROVE  CountInv'
<1>1. /\ pc[w] = "appendFailed" /\ failedStored' = length[w] + 1
      /\ UNCHANGED <<cursor, slots, acked, target, outcome, main>>
      /\ pc' = [pc EXCEPT ![w] = "receive"] /\ length' = [length EXCEPT ![w] = 0]
  BY DEF AppendFailed, Goto, found, search
<1>2. /\ pc'[w] = "receive"
      /\ \A u \in Worker \ {w} : pc'[u] = pc[u] /\ length'[u] = length[u]
  BY <1>1 DEF TypeOK
<1>3. \A u \in Worker : pc'[u] = "store" <=> pc[u] = "store"
  BY <1>1, <1>2
<1>4. Handed' = Handed /\ Busy' = Busy /\ Storers' = Storers
  BY <1>1, <1>3 DEF Handed, Busy, Storers
<1>5. Lost' = Lost
  BY <1>1, <1>4 DEF Lost
<1>6. failedStored' <= Cardinality(Lost)'
  BY <1>1, <1>5 DEF CountInv, FailuresBounded
<1>7. FailuresBounded'
  BY <1>2, <1>5, <1>6, LostGrows DEF CountInv
<1>8. HandedOnce'
  BY <1>1, <1>3, <1>4 DEF CountInv, HandedOnce
<1>9. NoSpuriousFailure'
  BY <1>1 DEF CountInv, NoSpuriousFailure
<1>. QED  BY <1>1, <1>7, <1>8, <1>9 DEF CountInv

(* SetValue compares the failures it has counted, of which there are as    *)
(* many storers that did not confirm the value.                            *)
LEMMA CountReturn ==
  ASSUME TypeOK, CountInv, Return
  PROVE  CountInv'
<1>1. /\ AllStopped /\ main' = "returned"
      /\ UNCHANGED <<pc, slots, target, cursor, acked, failedStored, length>>
      /\ outcome' = "tooFewStored" => NumFound < MinNumStores + failedStored
  BY DEF Return, found, search, storing
<1>2. Handed' = Handed /\ Busy' = Busy /\ Storers' = Storers
  BY <1>1 DEF Handed, Busy, Storers
<1>3. Lost' = Lost
  BY <1>1, <1>2 DEF Lost
<1>4. HandedOnce'
  BY <1>1, <1>2 DEF CountInv, HandedOnce
<1>5. FailuresBounded'
  BY <1>1, <1>3 DEF CountInv, FailuresBounded
<1>6. Cardinality(acked) \in Nat /\ Cardinality(acked) + Cardinality(Lost) <= cursor
  <2>1. Lost = Handed \ acked /\ acked \subseteq Handed
    BY <1>1 DEF AllStopped, Busy, Lost, CountInv, HandedOnce
  <2>2. IsFiniteSet(acked) /\ Cardinality(acked) \in Nat
    BY <2>1, LostFinite, FS_Subset, FS_CardinalityType
  <2>3. Handed \cap acked = acked
    BY <2>1
  <2>4. Cardinality(Lost) = Cardinality(Handed) - Cardinality(acked)
    BY <2>1, <2>3, LostFinite, FS_Difference
  <2>. QED  BY <2>2, <2>4, LostFinite DEF TypeOK
<1>7. NumFound \in Nat /\ cursor <= NumFound
  <2>1. IsFiniteSet(Slots)
    BY SetValueAssumption, IntervalSize DEF Slots
  <2>2. Storers \subseteq Slots
    BY DEF Storers
  <2>3. IsFiniteSet(Storers) /\ NumFound \in Nat
    BY <2>1, <2>2, FS_Subset, FS_CardinalityType DEF NumFound
  <2>4. Cardinality(1 .. cursor) = cursor
    BY IntervalSize DEF TypeOK
  <2>5. 1 .. cursor \subseteq Storers
    BY DEF CountInv, HandedOnce
  <2>. QED  BY <2>3, <2>4, <2>5, FS_Subset DEF NumFound
<1>8. NoSpuriousFailure'
  <2>1. SUFFICES ASSUME outcome' = "tooFewStored" PROVE Cardinality(acked) < MinNumStores
    BY <1>1 DEF NoSpuriousFailure
  <2>2. NumFound < MinNumStores + failedStored
    BY <1>1, <2>1
  <2>3. failedStored <= Cardinality(Lost) /\ failedStored \in Nat /\ Cardinality(Lost) \in Nat
        /\ cursor \in Nat /\ MinNumStores \in Nat
    BY LostFinite, SetValueAssumption DEF CountInv, FailuresBounded, TypeOK
  <2>. QED  BY ONLY <1>6, <1>7, <2>2, <2>3
<1>. QED  BY <1>1, <1>4, <1>5, <1>8 DEF CountInv

(***************************************************************************)
(* SetValue does not report too few stores when MinNumStores storers have  *)
(* confirmed the value, for every number of workers and of slots and every *)
(* order of the unlocked appends to failedStored.  CountInv: every storer  *)
(* is handed to one worker, and failedStored is at most the number of the  *)
(* storers that were handed out, are not being asked and did not confirm.  *)
(***************************************************************************)
THEOREM FailureIsReal == Spec => []NoSpuriousFailure
<1>. DEFINE Known == TypeOK /\ PhaseInv /\ StorersSorted
<1>1. Init => CountInv
  <2>1. SUFFICES ASSUME Init PROVE CountInv
    OBVIOUS
  <2>2. cursor = 0 /\ acked = {} /\ failedStored = 0 /\ outcome = "none" /\ main = "start"
        /\ \A w \in Worker : pc[w] = "idle"
    BY <2>1 DEF Init
  <2>3. Handed = {} /\ Busy = {}
    BY <2>2 DEF Handed, Busy
  <2>4. Cardinality(Lost) = 0
    BY <2>3, FS_EmptySet DEF Lost
  <2>. QED  BY <2>2, <2>3, <2>4 DEF CountInv, HandedOnce, FailuresBounded, NoSpuriousFailure
<1>2. Init => PhaseInv
  BY DEF Init, PhaseInv
<1>3. TypeOK /\ PhaseInv /\ [Next]_vars => PhaseInv'
  BY PhaseStep
<1>4. Spec => []Known
  BY <1>2, <1>3, TypeCorrect, StorersInOrder, PTL DEF Spec
<1>5. Known /\ TypeOK' /\ CountInv /\ [Next]_vars => CountInv'
  BY StoringStep, CountKept, CountReceive, CountAnswer, CountAppend, CountReturn
<1>6. CountInv => NoSpuriousFailure
  BY DEF CountInv
<1>. HIDE DEF Known
<1>7. Known => TypeOK
  BY DEF Known
<1>. QED  BY <1>1, <1>4, <1>5, <1>6, <1>7, PTL DEF Spec
=============================================================================

--------------------------- MODULE PeerStoreProofs ---------------------------
(***************************************************************************)
(* Proofs about PeerStore, for every number of threads, buckets and slots  *)
(* and every set of IDs.                                                   *)
(***************************************************************************)
EXTENDS PeerStore, SequenceTheorems, TLAPS

(* Every action of a thread, for the case splits below. *)
Step(t) ==
  \/ \E id \in ID \cup AlienID : AddPeer(t, id)
  \/ \E id \in ID \cup AlienID : RemovePeer(t, id)
  \/ \E key \in ID \cup AlienID, n \in NumReturned : GetClosestPeers(t, key, n)
  \/ Peers(t)
  \/ InsertLook(t) \/ InsertWrite(t)
  \/ RemoveTest(t) \/ RemoveMatch(t) \/ RemoveClear(t)
  \/ RemoveFetch(t) \/ RemoveShift(t)
  \/ ScanClosest(t) \/ ScanPeers(t) \/ QueryDone(t)

-----------------------------------------------------------------------------
(* The loops over the slots of a bucket start and stay inside it. *)
LEMMA SlotFacts ==
  /\ k \in Nat \ {0} /\ 1 \in Slots /\ k \in Slots
  /\ \A i \in Slots : i < k \/ i # k => i + 1 \in Slots
<1>1. k \in Nat \ {0}
  BY PeerStoreAssumption
<1>. QED  BY <1>1 DEF Slots

(* Callers ask for a natural number of peers. *)
LEMMA NumAsked == NumReturned \subseteq Nat
BY PeerStoreAssumption

(* What Place does to the result of a query keeps it a sequence of peers.  *)
LEMMA PlaceType ==
  ASSUME TypeOK, NEW t \in Thread, NEW id \in ID, Place(t, id)
  PROVE  acc' \in [Thread -> Seq(ID \cup {nil})]
<1>1. CASE UNCHANGED acc
  BY <1>1 DEF TypeOK
<1>2. ASSUME NEW i \in DOMAIN acc[t], acc' = [acc EXCEPT ![t][i] = id]
      PROVE  acc' \in [Thread -> Seq(ID \cup {nil})]
  <2>1. acc[t] \in Seq(ID \cup {nil})
    BY DEF TypeOK
  <2>2. [acc[t] EXCEPT ![i] = id] \in Seq(ID \cup {nil})
    BY <2>1, ExceptSeq
  <2>. QED  BY <1>2, <2>2 DEF TypeOK
<1>. QED  BY <1>1, <1>2 DEF Place

(* The thread-local part of the type invariant after the common exits.     *)
LEMMA ReturnType ==
  ASSUME TypeOK, NEW t \in Thread, NEW r \in Results, Return(t, r)
  PROVE  /\ pc' \in [Thread -> {"idle"} \cup Writing \cup Querying]
         /\ arg' \in [Thread -> ID] /\ pos' \in [Thread -> 1 .. NumBuckets]
         /\ slot' \in [Thread -> Slots] /\ ret' \in Results
BY PeerStoreAssumption DEF TypeOK, Return, Slots

(* Going on inside a call keeps the types. *)
LEMMA GotoType ==
  ASSUME TypeOK, NEW t \in Thread, NEW p \in Writing \cup Querying,
         NEW i \in Slots, Goto(t, p, i)
  PROVE  /\ pc' \in [Thread -> {"idle"} \cup Writing \cup Querying]
         /\ arg' \in [Thread -> ID] /\ pos' \in [Thread -> 1 .. NumBuckets]
         /\ slot' \in [Thread -> Slots] /\ ret' \in Results
BY DEF TypeOK, Goto, Results

(* Entering a call, or the next bucket, keeps the types. *)
LEMMA EnterType ==
  ASSUME TypeOK, NEW t \in Thread, NEW p \in Writing \cup Querying,
         NEW x \in ID, NEW b \in 1 .. NumBuckets, Enter(t, p, x, b)
  PROVE  /\ pc' \in [Thread -> {"idle"} \cup Writing \cup Querying]
         /\ arg' \in [Thread -> ID] /\ pos' \in [Thread -> 1 .. NumBuckets]
         /\ slot' \in [Thread -> Slots] /\ ret' \in Results
BY SlotFacts DEF TypeOK, Enter, Results

(* A write to a slot keeps the types of the shared variables. *)
LEMMA WriteType ==
  ASSUME TypeOK, NEW t \in Thread, NEW v \in ID \cup {nil}, WriteSlot(t, v)
  PROVE  /\ buckets' \in [1 .. NumBuckets -> [Slots -> ID \cup {nil}]]
         /\ quiet' \in [Thread -> BOOLEAN]
         /\ panicked' \in BOOLEAN /\ overlapped' \subseteq 1 .. NumBuckets
<1>1. buckets \in [1 .. NumBuckets -> [Slots -> ID \cup {nil}]]
  BY DEF TypeOK
<1>2. buckets' = [buckets EXCEPT ![pos[t]] = [buckets[pos[t]] EXCEPT ![slot[t]] = v]]
  BY DEF WriteSlot
<1>3. [buckets[pos[t]] EXCEPT ![slot[t]] = v] \in [Slots -> ID \cup {nil}]
  <2>1. pos[t] \in 1 .. NumBuckets
    BY DEF TypeOK
  <2>. QED  BY <1>1, <2>1
<1>4. buckets' \in [1 .. NumBuckets -> [Slots -> ID \cup {nil}]]
  BY <1>1, <1>2, <1>3
<1>. QED  BY <1>4 DEF TypeOK, WriteSlot

(* The scans end a loop pass with Advance. *)
LEMMA AdvanceType ==
  ASSUME TypeOK, NEW t \in Thread, pc[t] \in Querying,
         NEW done \in Querying, Advance(t, done)
  PROVE  /\ pc' \in [Thread -> {"idle"} \cup Writing \cup Querying]
         /\ arg' \in [Thread -> ID] /\ pos' \in [Thread -> 1 .. NumBuckets]
         /\ slot' \in [Thread -> Slots] /\ ret' \in Results
<1>1. /\ slot[t] \in Slots /\ pos[t] \in 1 .. NumBuckets /\ arg[t] \in ID
      /\ k \in Nat \ {0} /\ NumBuckets \in Nat \ {0}
  BY PeerStoreAssumption DEF TypeOK
<1>2. CASE slot[t] < k /\ Goto(t, pc[t], slot[t] + 1)
  <2>1. slot[t] + 1 \in Slots
    BY <1>1, <1>2 DEF Slots
  <2>. QED  BY <1>2, <2>1, GotoType
<1>3. CASE slot[t] = k /\ pos[t] < NumBuckets /\ Enter(t, pc[t], arg[t], pos[t] + 1)
  <2>1. pos[t] + 1 \in 1 .. NumBuckets
    BY <1>1, <1>3
  <2>. QED  BY <1>1, <1>3, <2>1, EnterType
<1>4. CASE slot[t] = k /\ pos[t] = NumBuckets /\ Goto(t, done, k)
  BY <1>1, <1>4, GotoType DEF Slots
<1>. QED  BY <1>2, <1>3, <1>4 DEF Advance

(* The loop of removePeerFromBucket stays inside the bucket. *)
LEMMA NextSlotType ==
  ASSUME TypeOK, NEW t \in Thread, NEW p \in Writing, NextSlot(t, p)
  PROVE  /\ pc' \in [Thread -> {"idle"} \cup Writing \cup Querying]
         /\ arg' \in [Thread -> ID] /\ pos' \in [Thread -> 1 .. NumBuckets]
         /\ slot' \in [Thread -> Slots] /\ ret' \in Results
<1>1. slot[t] \in Slots /\ k \in Nat \ {0}
  BY PeerStoreAssumption DEF TypeOK
<1>2. CASE slot[t] < k /\ Goto(t, p, slot[t] + 1)
  <2>1. slot[t] + 1 \in Slots
    BY <1>1, <1>2 DEF Slots
  <2>. QED  BY <1>2, <2>1, GotoType
<1>3. CASE slot[t] = k /\ Return(t, "ok")
  BY <1>3, ReturnType DEF Results
<1>. QED  BY <1>2, <1>3 DEF NextSlot

(* The beginning of AddPeer and RemovePeer keeps the types. *)
LEMMA CallType ==
  ASSUME TypeOK, NEW t \in Thread, NEW id \in ID \cup AlienID,
         NEW p \in Writing, Call(t, id, p)
  PROVE  TypeOK'
<1>. USE DEF Call
<1>1. bucketPos \in [ID -> 1 .. NumBuckets]
  BY PeerStoreAssumption
<1>2. CASE id \in AlienID /\ Return(t, "badLength") /\ UNCHANGED overlapped
  BY <1>2, ReturnType DEF TypeOK, Results
<1>3. CASE id = nodeID /\ Return(t, "ok") /\ UNCHANGED overlapped
  BY <1>3, ReturnType DEF TypeOK, Results
<1>4. CASE id \in ID \ {nodeID} /\ Enter(t, p, id, bucketPos[id])
  <2>1. bucketPos[id] \in 1 .. NumBuckets
    BY <1>1, <1>4
  <2>2. overlapped' \subseteq 1 .. NumBuckets
    BY <1>4, <2>1, PeerStoreAssumption DEF TypeOK
  <2>. QED  BY <1>4, <2>1, <2>2, EnterType DEF TypeOK
<1>. QED  BY <1>2, <1>3, <1>4

(* Every step of every thread keeps the types. *)
LEMMA TypeStep ==
  ASSUME TypeOK, [Next]_vars
  PROVE  TypeOK'
<1>1. CASE UNCHANGED vars
  BY <1>1 DEF TypeOK, vars, shared
<1>2. ASSUME NEW t \in Thread, Step(t)
      PROVE  TypeOK'
  <2>0. /\ slot[t] \in Slots /\ pos[t] \in 1 .. NumBuckets /\ arg[t] \in ID
        /\ Seen(t) \in ID \cup {nil} /\ acc[t] \in Seq(ID \cup {nil})
        /\ <<>> \in Seq(ID \cup {nil}) /\ 1 \in 1 .. NumBuckets /\ nodeID \in ID
    BY PeerStoreAssumption DEF TypeOK, Seen
  <2>1. CASE \E id \in ID \cup AlienID : AddPeer(t, id)
    BY <2>1, CallType DEF AddPeer, Writing, Adding
  <2>2. CASE \E id \in ID \cup AlienID : RemovePeer(t, id)
    BY <2>2, CallType DEF RemovePeer, Writing, Removing
  <2>3. ASSUME NEW key \in ID \cup AlienID, NEW n \in NumReturned,
               GetClosestPeers(t, key, n)
        PROVE  TypeOK'
    <3>1. CASE key \in AlienID /\ Return(t, "badLength") /\ UNCHANGED <<acc, quiet>>
      BY <2>3, <3>1, ReturnType DEF GetClosestPeers, TypeOK, Results, shared
    <3>2. CASE /\ key \in ID
               /\ Enter(t, "closest", key, 1)
               /\ acc' = [acc EXCEPT ![t] = [i \in 1 .. n |-> nil]]
               /\ quiet' = [quiet EXCEPT ![t] = TRUE]
      <4>1. [i \in 1 .. n |-> nil] \in Seq(ID \cup {nil})
        BY NumAsked, SeqDef
      <4>2. acc' \in [Thread -> Seq(ID \cup {nil})] /\ quiet' \in [Thread -> BOOLEAN]
        BY <3>2, <4>1 DEF TypeOK
      <4>3. 1 \in 1 .. NumBuckets /\ "closest" \in Writing \cup Querying
        BY <2>0 DEF Querying
      <4>. QED  BY <2>3, <3>2, <4>2, <4>3, EnterType DEF GetClosestPeers, TypeOK, shared
    <3>. QED  BY <2>3, <3>1, <3>2 DEF GetClosestPeers
  <2>4. CASE Peers(t)
    <3>1. 1 \in 1 .. NumBuckets /\ "peers" \in Writing \cup Querying
      BY <2>0 DEF Querying
    <3>2. nodeID \in ID /\ quiet' \in [Thread -> BOOLEAN]
      BY <2>0, <2>4 DEF Peers, TypeOK
    <3>. QED  BY <2>4, <3>1, <3>2, EnterType DEF Peers, TypeOK, shared
  <2>5. CASE InsertLook(t)
    <3>1. slot[t] < k => slot[t] + 1 \in Slots
      BY <2>0, SlotFacts
    <3>2. {"look", "write"} \subseteq Writing /\ {"ok", "noSpace"} \subseteq Results
      BY DEF Writing, Adding, Results
    <3>. QED  BY <2>0, <2>5, <3>1, <3>2, ReturnType, GotoType DEF InsertLook, TypeOK, shared
  <2>6. CASE InsertWrite(t)
    BY <2>0, <2>6, WriteType, ReturnType DEF InsertWrite, TypeOK, Results
  <2>7. CASE RemoveTest(t)
    <3>1. {"match", "fetch"} \subseteq Writing /\ "ok" \in Results
      BY DEF Writing, Removing, Results
    <3>. QED  BY <2>0, <2>7, <3>1, ReturnType, GotoType DEF RemoveTest, TypeOK, shared
  <2>8. CASE RemoveMatch(t)
    <3>1. {"match", "test", "clear"} \subseteq Writing
      BY DEF Writing, Removing
    <3>. QED  BY <2>0, <2>8, <3>1, GotoType, NextSlotType DEF RemoveMatch, TypeOK
  <2>9. CASE RemoveClear(t)
    <3>1. "fetch" \in Writing
      BY DEF Writing, Removing
    <3>. QED  BY <2>0, <2>9, <3>1, WriteType, GotoType DEF RemoveClear, TypeOK
  <2>10. CASE RemoveFetch(t)
    <3>1. "shift" \in Writing
      BY DEF Writing, Removing
    <3>2. slot[t] # k => slot[t] + 1 \in Slots
      BY <2>0, SlotFacts
    <3>3. next' \in [Thread -> ID \cup {nil}]
      BY <2>0, <2>10, <3>2 DEF RemoveFetch, TypeOK
    <3>. QED  BY <2>0, <2>10, <3>1, <3>3, GotoType DEF RemoveFetch, TypeOK, shared
  <2>11. CASE RemoveShift(t)
    <3>1. "retest" \in Writing
      BY DEF Writing, Removing
    <3>2. next[t] \in ID \cup {nil} /\ next' \in [Thread -> ID \cup {nil}]
      BY <2>11 DEF RemoveShift, TypeOK
    <3>. QED  BY <2>11, <3>1, <3>2, WriteType, NextSlotType DEF RemoveShift, TypeOK
  <2>12. CASE ScanClosest(t)
    <3>1. acc' \in [Thread -> Seq(ID \cup {nil})]
      BY <2>0, <2>12, PlaceType DEF ScanClosest, TypeOK
    <3>2. pc[t] \in Querying /\ "gotClosest" \in Querying
      BY <2>12 DEF ScanClosest, Querying
    <3>. QED  BY <2>12, <3>1, <3>2, AdvanceType DEF ScanClosest, TypeOK, shared
  <2>13. CASE ScanPeers(t)
    <3>1. acc' \in [Thread -> Seq(ID \cup {nil})]
      <4>1. Seen(t) # nil => Append(acc[t], Seen(t)) \in Seq(ID \cup {nil})
        BY <2>0
      <4>. QED  BY <2>13, <4>1 DEF ScanPeers, TypeOK
    <3>2. pc[t] \in Querying /\ "gotPeers" \in Querying
      BY <2>13 DEF ScanPeers, Querying
    <3>. QED  BY <2>13, <3>1, <3>2, AdvanceType DEF ScanPeers, TypeOK, shared
  <2>14. CASE QueryDone(t)
    <3>1. acc' \in [Thread -> Seq(ID \cup {nil})] /\ quiet' \in [Thread -> BOOLEAN]
      BY <2>0, <2>14 DEF QueryDone, TypeOK
    <3>. QED  BY <2>14, <3>1, ReturnType DEF QueryDone, TypeOK, Results, shared
  <2>. QED  BY <1>2, <2>1, <2>2, <2>3, <2>4, <2>5, <2>6, <2>7, <2>8, <2>9, <2>10,
               <2>11, <2>12, <2>13, <2>14 DEF Step
<1>. QED  BY <1>1, <1>2 DEF Next, Step

(* Every reachable state of the store and of its callers is well typed. *)
THEOREM TypeCorrect == Spec => []TypeOK
<1>1. Init => TypeOK
  <2>1. <<>> \in Seq(ID \cup {nil}) /\ 1 \in 1 .. k /\ 1 \in 1 .. NumBuckets
        /\ nodeID \in ID
    BY PeerStoreAssumption
  <2>. SUFFICES ASSUME Init PROVE TypeOK
    OBVIOUS
  <2>2. buckets \in [1 .. NumBuckets -> [Slots -> ID \cup {nil}]]
    BY DEF Init
  <2>3. acc \in [Thread -> Seq(ID \cup {nil})]
    BY <2>1 DEF Init
  <2>. QED  BY <2>1, <2>2, <2>3 DEF Init, TypeOK, Slots, Results
<1>2. TypeOK /\ [Next]_vars => TypeOK'
  BY TypeStep
<1>. QED  BY <1>1, <1>2, PTL DEF Spec

-----------------------------------------------------------------------------
(***************************************************************************)
(* The order of the result of GetClosestPeers.                             *)
(***************************************************************************)

(* A step of a thread leaves the variables of the other threads alone. *)
LEMMA Frame ==
  ASSUME TypeOK, NEW t \in Thread, Step(t), NEW u \in Thread, u # t
  PROVE  /\ pc'[u] = pc[u] /\ arg'[u] = arg[u] /\ pos'[u] = pos[u]
         /\ slot'[u] = slot[u] /\ next'[u] = next[u] /\ acc'[u] = acc[u]
<1>. USE DEF TypeOK, Return, Goto, Enter, shared
<1>1. CASE \E id \in ID \cup AlienID : AddPeer(t, id) \/ RemovePeer(t, id)
  BY <1>1 DEF AddPeer, RemovePeer, Call
<1>2. CASE \E key \in ID \cup AlienID, n \in NumReturned : GetClosestPeers(t, key, n)
  BY <1>2 DEF GetClosestPeers
<1>3. CASE Peers(t) \/ QueryDone(t)
  BY <1>3 DEF Peers, QueryDone
<1>4. CASE InsertLook(t) \/ InsertWrite(t)
  BY <1>4 DEF InsertLook, InsertWrite
<1>5. CASE RemoveTest(t) \/ RemoveMatch(t) \/ RemoveClear(t)
  BY <1>5 DEF RemoveTest, RemoveMatch, RemoveClear, NextSlot
<1>6. CASE RemoveFetch(t) \/ RemoveShift(t)
  BY <1>6 DEF RemoveFetch, RemoveShift, NextSlot
<1>7. CASE ScanClosest(t)
  BY <1>7 DEF ScanClosest, Place, Advance
<1>8. CASE ScanPeers(t)
  BY <1>8 DEF ScanPeers, Advance
<1>. QED  BY <1>1, <1>2, <1>3, <1>4, <1>5, <1>6, <1>7, <1>8 DEF Step

(* The result of one thread is in order; SortedResult says so of all. *)
Sorted(t) ==
  pc[t] \in {"closest", "gotClosest"} =>
    \A i, j \in DOMAIN acc[t] :
      i < j /\ acc[t][j] # nil =>
        /\ acc[t][i] # nil
        /\ dist[acc[t][i]][arg[t]] <= dist[acc[t][j]][arg[t]]

(* A peer is put before the first farther one, so the order is kept. *)
LEMMA PlaceSorted ==
  ASSUME TypeOK, NEW t \in Thread, pc[t] = "closest", Sorted(t),
         NEW id \in ID, Place(t, id), arg'[t] = arg[t]
  PROVE  Sorted(t)'
<1>1. /\ acc[t] \in Seq(ID \cup {nil}) /\ arg[t] \in ID
      /\ \A x, y \in ID : dist[x][y] \in Nat
      /\ nil \notin ID
  <2>1. dist \in [ID -> [ID -> Nat]] /\ nil \notin ID
    BY PeerStoreAssumption
  <2>. QED  BY <2>1 DEF TypeOK
<1>2. CASE UNCHANGED acc
  BY <1>2 DEF Sorted
<1>3. ASSUME NEW m \in DOMAIN acc[t], Takes(t, id, m),
             \A l \in 1 .. m - 1 : ~Takes(t, id, l),
             acc' = [acc EXCEPT ![t][m] = id]
      PROVE  Sorted(t)'
  <2>1. /\ DOMAIN acc'[t] = DOMAIN acc[t] /\ DOMAIN acc[t] = 1 .. Len(acc[t])
        /\ acc'[t][m] = id
        /\ \A i \in DOMAIN acc[t] : i # m => acc'[t][i] = acc[t][i]
        /\ \A i \in DOMAIN acc[t] : acc[t][i] \in ID \cup {nil}
    BY <1>1, <1>3 DEF TypeOK
  <2>. DEFINE D(x) == dist[x][arg[t]]
  <2>2. \A i, j \in DOMAIN acc[t] :
          i < j /\ acc[t][j] # nil => acc[t][i] # nil /\ D(acc[t][i]) <= D(acc[t][j])
    BY DEF Sorted
  <2>3. acc[t][m] # nil => D(id) < D(acc[t][m])
    BY <1>3 DEF Takes
  <2>4. \A l \in DOMAIN acc[t] : l < m => acc[t][l] # nil /\ ~(D(id) < D(acc[t][l]))
    BY <1>3, <2>1 DEF Takes
  <2>5. \A x \in ID : D(x) \in Nat
    BY <1>1
  <2>. HIDE DEF D
  <2>6. ASSUME NEW i \in DOMAIN acc[t], NEW j \in DOMAIN acc[t], i < j, acc'[t][j] # nil
        PROVE  acc'[t][i] # nil /\ D(acc'[t][i]) <= D(acc'[t][j])
    <3>1. CASE i # m /\ j # m
      BY <2>1, <2>2, <2>6, <3>1
    <3>2. CASE j = m
      BY <1>1, <2>1, <2>4, <2>5, <2>6, <3>2
    <3>3. CASE i = m
      <4>1. acc[t][j] # nil /\ acc'[t][j] = acc[t][j] /\ j # m
        BY <2>1, <2>6, <3>3
      <4>2. acc[t][m] # nil /\ D(acc[t][m]) <= D(acc[t][j])
        BY <2>2, <2>6, <3>3, <4>1
      <4>. QED  BY <1>1, <2>1, <2>3, <2>5, <3>3, <4>1, <4>2
    <3>. QED  BY <3>1, <3>2, <3>3
  <2>. QED  BY <2>1, <2>6 DEF Sorted, D
<1>. QED  BY <1>2, <1>3 DEF Place

(* GetClosestPeers returns its peers in the order of their distance. *)
THEOREM ResultsSorted == Spec => []SortedResult
<1>1. Init => SortedResult
  BY DEF Init, SortedResult
<1>2. TypeOK /\ SortedResult /\ [Next]_vars => SortedResult'
  <2>. SUFFICES ASSUME TypeOK, SortedResult, [Next]_vars, NEW u \in Thread
                PROVE  Sorted(u)'
    BY DEF SortedResult, Sorted
  <2>0. Sorted(u)
    BY DEF SortedResult, Sorted
  <2>1. CASE UNCHANGED vars
    BY <2>0, <2>1 DEF Sorted, vars, shared
  <2>2. ASSUME NEW t \in Thread, Step(t), u # t
        PROVE  Sorted(u)'
    BY <2>0, <2>2, Frame DEF Sorted
  <2>3. CASE Step(u)
    <3>. USE DEF TypeOK
    <3>1. CASE pc'[u] \notin {"closest", "gotClosest"}
      BY <3>1 DEF Sorted
    <3>2. ASSUME NEW key \in ID \cup AlienID, NEW n \in NumReturned,
                 GetClosestPeers(u, key, n)
          PROVE  Sorted(u)'
      <4>1. CASE pc'[u] = "idle"
        BY <4>1 DEF Sorted
      <4>2. CASE acc' = [acc EXCEPT ![u] = [i \in 1 .. n |-> nil]]
        BY <4>2 DEF Sorted
      <4>. QED  BY <3>2, <4>1, <4>2 DEF GetClosestPeers, Return
    <3>3. CASE ScanClosest(u)
      <4>1. arg'[u] = arg[u] /\ pc[u] = "closest" /\ Seen(u) \in ID \cup {nil}
        BY <3>3 DEF ScanClosest, Advance, Goto, Enter, Seen
      <4>2. CASE UNCHANGED acc
        BY <2>0, <4>1, <4>2 DEF Sorted
      <4>3. CASE Seen(u) # nil /\ Place(u, Seen(u))
        BY <2>0, <4>1, <4>3, PlaceSorted
      <4>. QED  BY <3>3, <4>2, <4>3 DEF ScanClosest
    <3>4. CASE \E id \in ID \cup AlienID : AddPeer(u, id) \/ RemovePeer(u, id)
      BY <3>1, <3>4 DEF AddPeer, RemovePeer, Call, Return, Enter
    <3>5. CASE Peers(u) \/ QueryDone(u) \/ ScanPeers(u)
      BY <3>1, <3>5 DEF Peers, QueryDone, ScanPeers, Advance, Return, Enter, Goto
    <3>6. CASE InsertLook(u) \/ InsertWrite(u)
      BY <3>1, <3>6 DEF InsertLook, InsertWrite, Return, Goto
    <3>7. CASE RemoveTest(u) \/ RemoveMatch(u) \/ RemoveClear(u) \/ RemoveFetch(u)
               \/ RemoveShift(u)
      BY <3>1, <3>7 DEF RemoveTest, RemoveMatch, RemoveClear, RemoveFetch,
                        RemoveShift, NextSlot, Return, Goto
    <3>. QED  BY <2>3, <3>2, <3>3, <3>4, <3>5, <3>6, <3>7 DEF Step
  <2>. QED  BY <2>1, <2>2, <2>3 DEF Next, Step
<1>. QED  BY <1>1, <1>2, TypeCorrect, PTL DEF Spec

-----------------------------------------------------------------------------
(***************************************************************************)
(* The buckets.  RightBucket needs to know that what a writer is about to  *)
(* store belongs in the bucket it writes.                                  *)
(***************************************************************************)
Belongs(id, b) == id # nodeID /\ bucketPos[id] = b

PlacedInv ==
  /\ RightBucket
  /\ \A t \in Thread :
       /\ pc[t] \in Writing => Belongs(arg[t], pos[t])
       /\ pc[t] = "shift" /\ next[t] # nil => Belongs(next[t], pos[t])

(***************************************************************************)
(* IntactBuckets needs to know how far the only writer of a bucket is.     *)
(* Until it clears a slot the bucket is intact and the slots before the    *)
(* current one hold other peers.  From then on the bucket is intact but    *)
(* for one slot, the current one, and its peer is in no other slot.        *)
(***************************************************************************)
Passed(t) ==
  \A i \in Slots : i < slot[t] => buckets[pos[t]][i] \notin {nil, arg[t]}

Gap(bucket, s, id) ==
  \A i \in Slots : i # s =>
    /\ bucket[i] # id
    /\ \A j \in Slots :
         j # s /\ i < j /\ bucket[j] # nil => bucket[i] \notin {nil, bucket[j]}

(* What the next write of removePeerFromBucket puts into slot s. *)
Follower(bucket, s) == IF s = k THEN nil ELSE bucket[s + 1]

WriterInv(t) ==
  LET bucket == buckets[pos[t]]
      s == slot[t]
  IN  /\ pc[t] \in {"look", "write", "test", "match", "clear"} =>
           Intact(bucket) /\ Passed(t)
      /\ pc[t] = "write" => bucket[s] = nil
      /\ pc[t] = "match" => bucket[s] # nil
      /\ pc[t] = "clear" => bucket[s] = arg[t]
      /\ pc[t] \in {"fetch", "shift", "retest"} => Gap(bucket, s, arg[t])
      /\ pc[t] = "shift" => next[t] = Follower(bucket, s)
      /\ pc[t] = "retest" => s > 1 /\ bucket[s] = bucket[s - 1]

BucketInv ==
  /\ \A t, u \in Thread :
       /\ t # u /\ pc[t] \in Writing /\ pc[u] \in Writing /\ pos[t] = pos[u]
       => pos[t] \in overlapped
  /\ IntactBuckets
  /\ \A t \in Thread :
       pc[t] \in Writing /\ pos[t] \notin overlapped => WriterInv(t)
  /\ PanicNeedsOverlap

-----------------------------------------------------------------------------
(* What the writes do to one bucket. *)

Bucket == [Slots -> ID \cup {nil}]

(* The write of insertPeerIntoBucket fills the first empty slot. *)
LEMMA InsertIntact ==
  ASSUME NEW B \in Bucket, NEW s \in Slots, NEW id \in ID,
         Intact(B), B[s] = nil, \A i \in Slots : i < s => B[i] \notin {nil, id}
  PROVE  Intact([B EXCEPT ![s] = id])
<1>1. k \in Nat /\ nil \notin ID
  BY PeerStoreAssumption
<1>2. \A i \in Slots : s < i => B[i] = nil
  BY <1>1 DEF Intact, Slots
<1>. QED  BY <1>1, <1>2 DEF Intact, Slots, Bucket

(* Clearing a slot of an intact bucket leaves a gap only there. *)
LEMMA ClearGap ==
  ASSUME NEW B \in Bucket, NEW s \in Slots, NEW id \in ID, Intact(B), B[s] = id
  PROVE  Gap([B EXCEPT ![s] = nil], s, id)
<1>1. k \in Nat /\ nil \notin ID
  BY PeerStoreAssumption
<1>. QED  BY <1>1 DEF Intact, Gap, Slots, Bucket

(* Moving the following peer down moves the gap up. *)
LEMMA ShiftGap ==
  ASSUME NEW B \in Bucket, NEW s \in Slots, NEW id \in ID, s < k, Gap(B, s, id)
  PROVE  /\ Gap([B EXCEPT ![s] = B[s + 1]], s + 1, id)
         /\ [B EXCEPT ![s] = B[s + 1]][s + 1] = [B EXCEPT ![s] = B[s + 1]][s]
<1>1. k \in Nat /\ s + 1 \in Slots /\ s + 1 # s
  BY PeerStoreAssumption DEF Slots
<1>. DEFINE C == [B EXCEPT ![s] = B[s + 1]]
<1>2. C[s] = B[s + 1] /\ C[s + 1] = B[s + 1] /\ \A i \in Slots : i # s => C[i] = B[i]
  BY <1>1 DEF Bucket
<1>. HIDE DEF C
<1>3. ASSUME NEW i \in Slots, i # s + 1
      PROVE  /\ C[i] # id
             /\ \A j \in Slots : j # s + 1 /\ i < j /\ C[j] # nil => C[i] \notin {nil, C[j]}
  <2>1. CASE i = s
    BY <1>1, <1>2, <1>3, <2>1 DEF Gap, Slots
  <2>2. CASE i # s
    <3>1. ASSUME NEW j \in Slots, j # s + 1, i < j, C[j] # nil
          PROVE  C[i] \notin {nil, C[j]}
      <4>1. CASE j = s
        BY <1>1, <1>2, <1>3, <2>2, <3>1, <4>1 DEF Gap, Slots
      <4>2. CASE j # s
        BY <1>1, <1>2, <1>3, <2>2, <3>1, <4>2 DEF Gap, Slots
      <4>. QED  BY <4>1, <4>2
    <3>. QED  BY <1>2, <2>2, <3>1 DEF Gap
  <2>. QED  BY <2>1, <2>2
<1>4. Gap(C, s + 1, id)
  BY <1>3 DEF Gap
<1>. QED  BY <1>2, <1>4 DEF C

(* The gap disappears at the end of the bucket. *)
LEMMA LastIntact ==
  ASSUME NEW B \in Bucket, NEW id \in ID, Gap(B, k, id)
  PROVE  Intact([B EXCEPT ![k] = nil]) /\ ~Holds([B EXCEPT ![k] = nil], id)
<1>1. k \in Nat \ {0} /\ nil \notin ID /\ k \in Slots
  BY PeerStoreAssumption DEF Slots
<1>. QED  BY <1>1 DEF Intact, Holds, Gap, Slots, Bucket

(* It also disappears where the peers end. *)
LEMMA RetestIntact ==
  ASSUME NEW B \in Bucket, NEW s \in Slots, NEW id \in ID, Gap(B, s, id),
         s > 1, B[s] = B[s - 1], B[s] = nil
  PROVE  Intact(B) /\ ~Holds(B, id)
<1>1. k \in Nat /\ nil \notin ID /\ s - 1 \in Slots /\ s - 1 # s
  BY PeerStoreAssumption DEF Slots
<1>2. ASSUME NEW j \in Slots, s < j PROVE B[j] = nil
  <2>1. j # s /\ s - 1 < j
    BY <1>1, <1>2 DEF Slots
  <2>. QED  BY <1>1, <2>1 DEF Gap
<1>3. ASSUME NEW i \in Slots, NEW j \in Slots, i < j, B[j] # nil
      PROVE  B[i] \notin {nil, B[j]}
  <2>1. j # s /\ ~(s < j)
    BY <1>2, <1>3
  <2>2. i # s
    BY <1>1, <1>3, <2>1 DEF Slots
  <2>. QED  BY <1>3, <2>1, <2>2 DEF Gap
<1>4. \A i \in Slots : B[i] # id
  BY <1>1 DEF Gap
<1>. QED  BY <1>3, <1>4 DEF Intact, Holds

(* A peer that is not before the first empty slot is not in the bucket. *)
LEMMA AbsentAtNil ==
  ASSUME NEW B \in Bucket, NEW s \in Slots, NEW id \in ID, Intact(B), B[s] = nil,
         \A i \in Slots : i < s => B[i] \notin {nil, id}
  PROVE  ~Holds(B, id)
<1>1. k \in Nat /\ nil \notin ID
  BY PeerStoreAssumption
<1>. QED  BY <1>1 DEF Intact, Holds, Slots

-----------------------------------------------------------------------------
(* Every step keeps what the proof of RightBucket needs. *)
LEMMA PlacedStep ==
  ASSUME TypeOK, TypeOK', PlacedInv, [Next]_vars
  PROVE  PlacedInv'
<1>. USE DEF TypeOK
<1>1. CASE UNCHANGED vars
  BY <1>1 DEF PlacedInv, RightBucket, Belongs, vars, shared
<1>2. ASSUME NEW t \in Thread, Step(t)
      PROVE  PlacedInv'
  <2>1. ASSUME /\ pc'[t] \in Writing => Belongs(arg'[t], pos'[t])
               /\ pc'[t] = "shift" /\ next'[t] # nil => Belongs(next'[t], pos'[t])
               /\ RightBucket'
        PROVE  PlacedInv'
    <3>. SUFFICES ASSUME NEW u \in Thread
                  PROVE  /\ pc'[u] \in Writing => Belongs(arg'[u], pos'[u])
                         /\ pc'[u] = "shift" /\ next'[u] # nil => Belongs(next'[u], pos'[u])
      BY <2>1 DEF PlacedInv, Belongs
    <3>1. CASE u = t
      BY <2>1, <3>1
    <3>2. CASE u # t
      BY <1>2, <3>2, Frame DEF PlacedInv
    <3>. QED  BY <3>1, <3>2
  <2>2. ASSUME NEW v \in ID \cup {nil}, v # nil => Belongs(v, pos[t]), WriteSlot(t, v)
        PROVE  RightBucket'
    BY <2>2 DEF PlacedInv, RightBucket, Belongs, WriteSlot
  <2>3. buckets' = buckets => RightBucket'
    BY DEF PlacedInv, RightBucket
  <2>4. pc[t] \in Writing => Belongs(arg[t], pos[t])
    BY DEF PlacedInv
  <2>. HIDE DEF TypeOK
  <2>5. CASE \E id \in ID \cup AlienID : AddPeer(t, id) \/ RemovePeer(t, id)
    BY <2>1, <2>3, <2>5
       DEF TypeOK, AddPeer, RemovePeer, Call, Return, Enter, Belongs, Writing, Adding, Removing
  <2>6. CASE \/ \E key \in ID \cup AlienID, n \in NumReturned : GetClosestPeers(t, key, n)
             \/ Peers(t) \/ ScanPeers(t) \/ ScanClosest(t) \/ QueryDone(t)
    BY <2>1, <2>3, <2>6
       DEF TypeOK, GetClosestPeers, Peers, ScanPeers, ScanClosest, QueryDone, Advance,
           Return, Goto, Enter, shared, Writing, Adding, Removing
  <2>7. CASE InsertLook(t)
    BY <2>1, <2>3, <2>4, <2>7
       DEF TypeOK, InsertLook, Return, Goto, shared, Writing, Adding, Removing
  <2>8. CASE InsertWrite(t)
    BY <2>1, <2>2, <2>4, <2>8
       DEF TypeOK, InsertWrite, Return, Writing, Adding, Removing
  <2>9. CASE RemoveTest(t) \/ RemoveMatch(t)
    BY <2>1, <2>3, <2>4, <2>9
       DEF TypeOK, RemoveTest, RemoveMatch, NextSlot, Return, Goto, shared,
           Writing, Adding, Removing
  <2>10. CASE RemoveClear(t)
    BY <2>1, <2>2, <2>4, <2>10 DEF TypeOK, RemoveClear, Goto, Writing, Adding, Removing
  <2>11. CASE RemoveFetch(t)
    <3>1. next'[t] # nil => Belongs(next'[t], pos[t])
      <4>1. next'[t] = Follower(buckets[pos[t]], slot[t])
        BY <2>11 DEF TypeOK, RemoveFetch, Follower
      <4>2. slot[t] # k => slot[t] + 1 \in Slots
        <5>1. slot[t] \in 1 .. k /\ k \in Nat
          BY PeerStoreAssumption DEF TypeOK, Slots
        <5>. QED  BY <5>1 DEF Slots
      <4>. QED  BY <4>1, <4>2 DEF TypeOK, Follower, PlacedInv, RightBucket, Belongs
    <3>. QED  BY <2>1, <2>3, <2>4, <2>11, <3>1
              DEF TypeOK, RemoveFetch, Goto, shared, Writing, Adding, Removing
  <2>12. CASE RemoveShift(t)
    <3>1. next[t] \in ID \cup {nil} /\ (next[t] # nil => Belongs(next[t], pos[t]))
      BY <2>12 DEF TypeOK, RemoveShift, PlacedInv
    <3>. QED  BY <2>1, <2>2, <2>4, <2>12, <3>1
              DEF TypeOK, RemoveShift, NextSlot, Return, Goto, Writing, Adding, Removing
  <2>. QED  BY <1>2, <2>5, <2>6, <2>7, <2>8, <2>9, <2>10, <2>11, <2>12 DEF Step
<1>. QED  BY <1>1, <1>2 DEF Next, Step

(* A peer is only ever stored in the bucket of its ID. *)
THEOREM PeersInTheirBucket == Spec => []RightBucket
<1>1. Init => PlacedInv
  BY DEF Init, PlacedInv, RightBucket, Writing, Adding, Removing
<1>2. TypeOK /\ TypeOK' /\ PlacedInv /\ [Next]_vars => PlacedInv'
  BY PlacedStep
<1>3. PlacedInv => RightBucket
  BY DEF PlacedInv
<1>. QED  BY <1>1, <1>2, <1>3, TypeCorrect, PTL DEF Spec

-----------------------------------------------------------------------------
(* A step writes at most the bucket its thread is in, and only as a writer. *)
LEMMA WritesOwnBucket ==
  ASSUME TypeOK, NEW t \in Thread, Step(t), NEW b \in 1 .. NumBuckets,
         ~Writer(t, b)
  PROVE  buckets'[b] = buckets[b]
<1>1. CASE pc[t] \in {"write", "clear", "shift"}
  <2>1. b # pos[t]
    BY <1>1 DEF Writer, Writing, Adding, Removing
  <2>2. ASSUME NEW v, WriteSlot(t, v) PROVE buckets'[b] = buckets[b]
    BY <2>1, <2>2 DEF WriteSlot, TypeOK
  <2>3. ~(pc[t] \in {"idle", "look", "test", "retest", "match", "fetch"} \cup Querying)
    BY <1>1 DEF Querying
  <2>. QED
    BY <2>2, <2>3
       DEF Step, AddPeer, RemovePeer, Call, GetClosestPeers, Peers, InsertLook, InsertWrite,
           RemoveTest, RemoveMatch, RemoveClear, RemoveFetch, RemoveShift, ScanClosest,
           ScanPeers, QueryDone, Querying
<1>2. CASE pc[t] \notin {"write", "clear", "shift"}
  BY <1>2 DEF Step, AddPeer, RemovePeer, Call, GetClosestPeers, Peers, InsertLook, InsertWrite,
           RemoveTest, RemoveMatch, RemoveClear, RemoveFetch, RemoveShift, ScanClosest,
           ScanPeers, QueryDone, shared
<1>. QED  BY <1>1, <1>2

(* overlapped grows when a second writer enters a bucket, and only grows. *)
LEMMA OverlapGrows ==
  ASSUME TypeOK, NEW t \in Thread, Step(t)
  PROVE  /\ overlapped \subseteq overlapped'
         /\ pc[t] \in Writing /\ pc'[t] \in Writing => pos'[t] = pos[t]
         /\ \A u \in Thread :
              /\ u # t /\ pc[t] \notin Writing /\ pc'[t] \in Writing
              /\ pc[u] \in Writing /\ pos[u] = pos'[t]
              => pos'[t] \in overlapped'
<1>. USE DEF TypeOK, Return, Goto, Enter, shared
<1>1. CASE \E id \in ID \cup AlienID : AddPeer(t, id) \/ RemovePeer(t, id)
  BY <1>1 DEF AddPeer, RemovePeer, Call, Writing, Adding, Removing
<1>2. CASE \E key \in ID \cup AlienID, n \in NumReturned : GetClosestPeers(t, key, n)
  BY <1>2 DEF GetClosestPeers, Writing, Adding, Removing
<1>3. CASE Peers(t) \/ QueryDone(t) \/ ScanClosest(t) \/ ScanPeers(t)
  BY <1>3 DEF Peers, QueryDone, ScanClosest, ScanPeers, Advance, Writing, Adding, Removing
<1>4. CASE InsertLook(t) \/ InsertWrite(t)
  BY <1>4 DEF InsertLook, InsertWrite, WriteSlot, Writing, Adding, Removing
<1>5. CASE RemoveTest(t) \/ RemoveMatch(t) \/ RemoveClear(t)
  BY <1>5 DEF RemoveTest, RemoveMatch, RemoveClear, NextSlot, WriteSlot,
              Writing, Adding, Removing
<1>6. CASE RemoveFetch(t) \/ RemoveShift(t)
  BY <1>6 DEF RemoveFetch, RemoveShift, NextSlot, WriteSlot, Writing, Adding, Removing
<1>. QED  BY <1>1, <1>2, <1>3, <1>4, <1>5, <1>6 DEF Step

(***************************************************************************)
(* What a step must show of its own thread and bucket; the rest of         *)
(* BucketInv then follows for all threads and buckets.                     *)
(***************************************************************************)
LEMMA OwnSuffices ==
  ASSUME TypeOK, TypeOK', BucketInv, NEW t \in Thread, Step(t),
         pc'[t] \in Writing /\ pos'[t] \notin overlapped' => WriterInv(t)',
         /\ pc[t] \in Writing /\ pc'[t] \notin Writing /\ pos[t] \notin overlapped
         => Intact(buckets'[pos[t]]),
         PanicNeedsOverlap'
  PROVE  BucketInv'
<1>1. ASSUME NEW u \in Thread, NEW w \in Thread, u # w, pc'[u] \in Writing,
             pc'[w] \in Writing, pos'[u] = pos'[w]
      PROVE  pos'[u] \in overlapped'
  <2>1. \A x, y \in Thread :
          x # y /\ pc[x] \in Writing /\ pc[y] \in Writing /\ pos[x] = pos[y]
          => pos[x] \in overlapped
    BY DEF BucketInv
  <2>2. CASE u # t /\ w # t
    BY <1>1, <2>1, <2>2, Frame, OverlapGrows
  <2>3. CASE u = t
    BY <1>1, <2>1, <2>3, Frame, OverlapGrows
  <2>4. CASE w = t
    BY <1>1, <2>1, <2>4, Frame, OverlapGrows
  <2>. QED  BY <2>2, <2>3, <2>4
<1>2. ASSUME NEW b \in 1 .. NumBuckets \ overlapped', \A u \in Thread : ~Writer(u, b)'
      PROVE  Intact(buckets'[b])
  <2>1. b \notin overlapped
    BY <1>2, OverlapGrows
  <2>2. CASE Writer(t, b)
    BY <1>2, <2>1, <2>2, OverlapGrows DEF Writer
  <2>3. CASE ~Writer(t, b)
    <3>1. \A u \in Thread : ~Writer(u, b)
      BY <1>2, <2>3, Frame DEF Writer
    <3>2. Intact(buckets[b])
      BY <1>2, <2>1, <3>1 DEF BucketInv, IntactBuckets
    <3>. QED  BY <2>3, <3>2, WritesOwnBucket
  <2>. QED  BY <2>2, <2>3
<1>3. ASSUME NEW u \in Thread, pc'[u] \in Writing, pos'[u] \notin overlapped'
      PROVE  WriterInv(u)'
  <2>1. CASE u = t
    BY <1>3, <2>1
  <2>2. CASE u # t
    <3>1. /\ pc'[u] = pc[u] /\ arg'[u] = arg[u] /\ pos'[u] = pos[u]
          /\ slot'[u] = slot[u] /\ next'[u] = next[u]
      BY <2>2, Frame
    <3>2. pos[u] \notin overlapped /\ pos[u] \in 1 .. NumBuckets
      BY <1>3, <3>1, OverlapGrows DEF TypeOK
    <3>3. WriterInv(u)
      BY <1>3, <3>1, <3>2 DEF BucketInv
    <3>4. ~Writer(t, pos[u])
      BY <1>3, <2>2, <3>1, <3>2 DEF BucketInv, Writer
    <3>5. buckets'[pos[u]] = buckets[pos[u]]
      BY <3>2, <3>4, WritesOwnBucket
    <3>. QED  BY <3>1, <3>3, <3>5 DEF WriterInv, Passed
  <2>. QED  BY <2>1, <2>2
<1>. QED  BY <1>1, <1>2, <1>3 DEF BucketInv, IntactBuckets

(* What a returning writer promises, the body of CallPromise. *)
Promise(t) ==
  pc[t] \in Writing /\ pc'[t] = "idle" /\ pos[t] \notin overlapped =>
    LET bucket == buckets'[pos[t]]
    IN  /\ pc[t] \in Adding /\ ret' = "ok" => Holds(bucket, arg[t])
        /\ pc[t] \in Adding /\ ret' = "noSpace" => Full(bucket) /\ ~Holds(bucket, arg[t])
        /\ pc[t] \in Removing => ~Holds(bucket, arg[t])

Own(t) ==
  /\ pc'[t] \in Writing /\ pos'[t] \notin overlapped' => WriterInv(t)'
  /\ pc[t] \in Writing /\ pc'[t] \notin Writing /\ pos[t] \notin overlapped
     => Intact(buckets'[pos[t]])
  /\ PanicNeedsOverlap'
  /\ Promise(t)

(* A step that neither starts, continues nor ends a write. *)
LEMMA OwnReader ==
  ASSUME TypeOK, BucketInv, NEW t \in Thread, Step(t),
         pc[t] \notin Writing, pc'[t] \notin Writing, UNCHANGED panicked
  PROVE  Own(t)
BY OverlapGrows DEF Own, Promise, BucketInv, PanicNeedsOverlap, TypeOK

(* A call that begins establishes the invariant of its bucket. *)
LEMMA OwnCall ==
  ASSUME TypeOK, TypeOK', BucketInv, NEW t \in Thread, Step(t), NEW id \in ID \cup AlienID,
         NEW p \in {"look", "test"}, Call(t, id, p)
  PROVE  Own(t)
<1>1. pc[t] \notin Writing /\ UNCHANGED <<buckets, panicked>>
  BY DEF Call, Writing, Adding, Removing
<1>2. CASE pc'[t] \notin Writing
  BY <1>1, <1>2, OwnReader
<1>3. CASE id \in ID \ {nodeID} /\ Enter(t, p, id, bucketPos[id])
  <2>1. pc'[t] = p /\ arg'[t] = id /\ pos'[t] = bucketPos[id] /\ slot'[t] = 1
        /\ bucketPos[id] \in 1 .. NumBuckets /\ p \in Writing
    BY <1>3, PeerStoreAssumption DEF Enter, TypeOK, Writing, Adding, Removing
  <2>2. ASSUME pos'[t] \notin overlapped' PROVE Intact(buckets'[pos'[t]])
    <3>1. \A u \in Thread : ~Writer(u, pos'[t])
      BY <1>1, <2>1, <2>2, OverlapGrows DEF Writer
    <3>. QED  BY <1>1, <2>1, <2>2, <3>1, OverlapGrows DEF BucketInv, IntactBuckets
  <2>3. pos'[t] \notin overlapped' => WriterInv(t)'
    BY <2>1, <2>2 DEF WriterInv, Passed, Slots
  <2>4. PanicNeedsOverlap'
    BY <1>1, OverlapGrows DEF BucketInv, PanicNeedsOverlap
  <2>. QED  BY <1>1, <2>1, <2>3, <2>4 DEF Own, Promise
<1>. QED  BY <1>2, <1>3 DEF Call, Return, TypeOK, Writing, Adding, Removing

(* A writer keeps the invariant of the bucket it writes. *)
LEMMA OwnStep ==
  ASSUME TypeOK, TypeOK', BucketInv, NEW t \in Thread, Step(t)
  PROVE  Own(t)
<1>. DEFINE b == pos[t]
            B == buckets[pos[t]]
            s == slot[t]
            id == arg[t]
<1>1. /\ B \in Bucket /\ s \in Slots /\ id \in ID /\ b \in 1 .. NumBuckets
      /\ nil \notin ID /\ k \in Nat \ {0} /\ Seen(t) = B[s] /\ B[s] \in ID \cup {nil}
  BY PeerStoreAssumption DEF TypeOK, Seen, Bucket
<1>2. pc[t] \in Writing /\ b \notin overlapped => WriterInv(t)
  BY DEF BucketInv
<1>3. UNCHANGED panicked => PanicNeedsOverlap'
  BY OverlapGrows DEF BucketInv, PanicNeedsOverlap
<1>4. CASE \E x \in ID \cup AlienID : AddPeer(t, x) \/ RemovePeer(t, x)
  BY <1>4, OwnCall DEF AddPeer, RemovePeer
<1>5. CASE \/ \E key \in ID \cup AlienID, n \in NumReturned : GetClosestPeers(t, key, n)
           \/ Peers(t) \/ ScanPeers(t) \/ ScanClosest(t) \/ QueryDone(t)
  <2>1. pc[t] \notin Writing /\ pc'[t] \notin Writing /\ UNCHANGED panicked
    <3>. USE DEF TypeOK, Return, Goto, Enter, shared, Writing, Adding, Removing
    <3>1. CASE \E key \in ID \cup AlienID, n \in NumReturned : GetClosestPeers(t, key, n)
      BY <3>1 DEF GetClosestPeers
    <3>2. CASE Peers(t) \/ QueryDone(t)
      BY <3>2 DEF Peers, QueryDone
    <3>3. CASE ScanPeers(t) \/ ScanClosest(t)
      BY <3>3 DEF ScanPeers, ScanClosest, Advance
    <3>. QED  BY <1>5, <3>1, <3>2, <3>3
  <2>. QED  BY <2>1, OwnReader
<1>6. CASE InsertLook(t)
  <2>1. /\ pc[t] = "look" /\ UNCHANGED shared /\ pc[t] \in Adding /\ pc[t] \in Writing
        /\ pc[t] \notin Removing
    BY <1>6 DEF InsertLook, Writing, Adding, Removing
  <2>2. b \notin overlapped => Intact(B) /\ Passed(t)
    BY <1>2, <2>1 DEF WriterInv
  <2>3. CASE B[s] = id /\ Return(t, "ok")
    BY <1>1, <1>3, <2>1, <2>2, <2>3
       DEF Own, Promise, Return, TypeOK, shared, Holds, Writing, Adding, Removing
  <2>4. CASE B[s] \notin {nil, id} /\ s < k /\ Goto(t, "look", s + 1)
    <3>1. pc'[t] = "look" /\ slot'[t] = s + 1 /\ pos'[t] = b /\ arg'[t] = id
      BY <2>4 DEF Goto, TypeOK
    <3>2. Passed(t) => Passed(t)'
      BY <1>1, <2>1, <2>4, <3>1 DEF Passed, Slots, shared
    <3>. QED  BY <1>3, <2>1, <2>2, <3>1, <3>2 DEF Own, Promise, WriterInv, shared
  <2>5. CASE B[s] \notin {nil, id} /\ s = k /\ Return(t, "noSpace")
    <3>1. Passed(t) => Full(B) /\ ~Holds(B, id)
      BY <1>1, <2>5 DEF Passed, Full, Holds, Slots
    <3>. QED  BY <1>3, <2>1, <2>2, <2>5, <3>1
              DEF Own, Promise, Return, TypeOK, shared, Writing, Adding, Removing
  <2>6. CASE B[s] = nil /\ Goto(t, "write", s)
    <3>1. pc'[t] = "write" /\ slot'[t] = s /\ pos'[t] = b /\ arg'[t] = id
      BY <2>6 DEF Goto, TypeOK
    <3>. QED  BY <1>3, <2>1, <2>2, <2>6, <3>1 DEF Own, Promise, WriterInv, Passed, shared
  <2>. QED  BY <1>1, <1>6, <2>3, <2>4, <2>5, <2>6 DEF InsertLook
<1>7. CASE InsertWrite(t)
  <2>1. /\ pc[t] = "write" /\ pc[t] \in Adding /\ pc[t] \in Writing /\ pc[t] \notin Removing
        /\ pc'[t] = "idle" /\ UNCHANGED panicked /\ ret' = "ok" /\ "idle" \notin Writing
    BY <1>7 DEF InsertWrite, WriteSlot, Return, TypeOK, Writing, Adding, Removing
  <2>2. buckets'[b] = [B EXCEPT ![s] = id]
    BY <1>1, <1>7 DEF InsertWrite, WriteSlot, TypeOK
  <2>3. b \notin overlapped => Intact(buckets'[b])
    BY <1>1, <1>2, <2>1, <2>2, InsertIntact DEF WriterInv, Passed
  <2>4. Holds(buckets'[b], id)
    BY <1>1, <2>2 DEF Holds, Bucket
  <2>. QED  BY <1>3, <2>1, <2>3, <2>4 DEF Own, Promise
<1>8. CASE RemoveTest(t)
  <2>1. /\ pc[t] \in {"test", "retest"} /\ UNCHANGED shared /\ pc[t] \notin Adding
        /\ pc[t] \in Writing /\ "idle" \notin Writing
    BY <1>8 DEF RemoveTest, Writing, Adding, Removing
  <2>2. CASE B[s] = nil /\ Return(t, "ok")
    <3>1. ASSUME b \notin overlapped PROVE Intact(B) /\ ~Holds(B, id)
      <4>1. CASE pc[t] = "test"
        BY <1>1, <1>2, <2>1, <2>2, <3>1, <4>1, AbsentAtNil DEF WriterInv, Passed
      <4>2. CASE pc[t] = "retest"
        BY <1>1, <1>2, <2>1, <2>2, <3>1, <4>2, RetestIntact DEF WriterInv
      <4>. QED  BY <2>1, <4>1, <4>2
    <3>. QED  BY <1>3, <2>1, <2>2, <3>1 DEF Own, Promise, Return, TypeOK, shared
  <2>3. CASE pc[t] = "test" /\ B[s] # nil /\ Goto(t, "match", s)
    <3>1. pc'[t] = "match" /\ slot'[t] = s /\ pos'[t] = b /\ arg'[t] = id
      BY <2>3 DEF Goto, TypeOK
    <3>2. "match" \in Writing
      BY DEF Writing, Removing
    <3>. QED  BY <1>2, <1>3, <2>1, <2>3, <3>1, <3>2 DEF Own, Promise, WriterInv, Passed, shared
  <2>4. CASE pc[t] = "retest" /\ B[s] # nil /\ Goto(t, "fetch", s)
    <3>1. pc'[t] = "fetch" /\ slot'[t] = s /\ pos'[t] = b /\ arg'[t] = id
      BY <2>4 DEF Goto, TypeOK
    <3>2. "fetch" \in Writing
      BY DEF Writing, Removing
    <3>. QED  BY <1>2, <1>3, <2>1, <2>4, <3>1, <3>2 DEF Own, Promise, WriterInv, shared
  <2>. QED  BY <1>1, <1>8, <2>2, <2>3, <2>4 DEF RemoveTest
<1>9. CASE RemoveMatch(t)
  <2>1. /\ pc[t] = "match" /\ UNCHANGED <<buckets, overlapped>> /\ pc[t] \notin Adding
        /\ pc[t] \in Writing /\ "idle" \notin Writing
        /\ {"match", "test", "clear"} \subseteq Writing
    BY <1>9 DEF RemoveMatch, Writing, Adding, Removing
  <2>2. b \notin overlapped => Intact(B) /\ Passed(t) /\ B[s] # nil
    BY <1>2, <2>1 DEF WriterInv
  <2>3. CASE B[s] = nil /\ panicked' = TRUE /\ Goto(t, "match", s)
    <3>1. pc'[t] = "match" /\ pos'[t] = b
      BY <2>3 DEF Goto, TypeOK
    <3>2. b \in overlapped
      BY <2>2, <2>3
    <3>. QED  BY <2>1, <3>1, <3>2 DEF Own, Promise, PanicNeedsOverlap
  <2>4. CASE B[s] \notin {nil, id} /\ s < k /\ Goto(t, "test", s + 1) /\ UNCHANGED panicked
    <3>1. pc'[t] = "test" /\ slot'[t] = s + 1 /\ pos'[t] = b /\ arg'[t] = id
      BY <2>4 DEF Goto, TypeOK
    <3>2. Passed(t) => Passed(t)'
      BY <1>1, <2>1, <2>4, <3>1 DEF Passed, Slots
    <3>. QED  BY <1>3, <2>1, <2>2, <2>4, <3>1, <3>2 DEF Own, Promise, WriterInv
  <2>5. CASE B[s] \notin {nil, id} /\ s = k /\ Return(t, "ok") /\ UNCHANGED panicked
    <3>1. Passed(t) => ~Holds(B, id)
      BY <1>1, <2>5 DEF Passed, Holds, Slots
    <3>. QED  BY <1>3, <2>1, <2>2, <2>5, <3>1 DEF Own, Promise, Return, TypeOK
  <2>6. CASE B[s] = id /\ Goto(t, "clear", s) /\ UNCHANGED panicked
    <3>1. pc'[t] = "clear" /\ slot'[t] = s /\ pos'[t] = b /\ arg'[t] = id
      BY <2>6 DEF Goto, TypeOK
    <3>. QED  BY <1>3, <2>1, <2>2, <2>6, <3>1 DEF Own, Promise, WriterInv, Passed
  <2>. QED  BY <1>1, <1>9, <2>3, <2>4, <2>5, <2>6 DEF RemoveMatch, NextSlot
<1>10. CASE RemoveClear(t)
  <2>1. /\ pc[t] = "clear" /\ pc[t] \in Writing /\ pc'[t] = "fetch" /\ slot'[t] = s
        /\ pos'[t] = b /\ arg'[t] = id /\ UNCHANGED <<panicked, overlapped>>
        /\ "fetch" \in Writing
    BY <1>10 DEF RemoveClear, WriteSlot, Goto, TypeOK, Writing, Removing
  <2>2. buckets'[b] = [B EXCEPT ![s] = nil]
    BY <1>1, <1>10 DEF RemoveClear, WriteSlot, TypeOK
  <2>3. b \notin overlapped => Gap(buckets'[b], s, id)
    BY <1>1, <1>2, <2>1, <2>2, ClearGap DEF WriterInv
  <2>. QED  BY <1>3, <2>1, <2>3 DEF Own, Promise, WriterInv
<1>11. CASE RemoveFetch(t)
  <2>1. /\ pc[t] = "fetch" /\ pc[t] \in Writing /\ pc'[t] = "shift" /\ slot'[t] = s
        /\ pos'[t] = b /\ arg'[t] = id /\ UNCHANGED shared /\ "shift" \in Writing
        /\ next'[t] = Follower(B, s)
    BY <1>11 DEF RemoveFetch, Goto, TypeOK, Writing, Removing, Follower
  <2>. QED  BY <1>2, <1>3, <2>1 DEF Own, Promise, WriterInv, shared
<1>12. CASE RemoveShift(t)
  <2>1. /\ pc[t] = "shift" /\ pc[t] \in Writing /\ pc[t] \notin Adding
        /\ UNCHANGED <<panicked, overlapped>>
        /\ "retest" \in Writing /\ "idle" \notin Writing
    BY <1>12 DEF RemoveShift, WriteSlot, Writing, Adding, Removing
  <2>2. buckets'[b] = [B EXCEPT ![s] = next[t]]
    BY <1>1, <1>12 DEF RemoveShift, WriteSlot, TypeOK
  <2>3. b \notin overlapped => Gap(B, s, id) /\ next[t] = Follower(B, s)
    BY <1>2, <2>1 DEF WriterInv
  <2>4. CASE s < k /\ Goto(t, "retest", s + 1)
    <3>1. pc'[t] = "retest" /\ slot'[t] = s + 1 /\ pos'[t] = b /\ arg'[t] = id
      BY <2>4 DEF Goto, TypeOK
    <3>2. s # k /\ s + 1 > 1 /\ (s + 1) - 1 = s
      BY <1>1, <2>4 DEF Slots
    <3>3. ASSUME b \notin overlapped
          PROVE  Gap(buckets'[b], s + 1, id) /\ buckets'[b][s + 1] = buckets'[b][s]
      <4>1. Gap(B, s, id) /\ next[t] = B[s + 1]
        BY <2>3, <3>2, <3>3 DEF Follower
      <4>2. buckets'[b] = [B EXCEPT ![s] = B[s + 1]]
        BY <2>2, <4>1
      <4>3. /\ Gap([B EXCEPT ![s] = B[s + 1]], s + 1, id)
            /\ [B EXCEPT ![s] = B[s + 1]][s + 1] = [B EXCEPT ![s] = B[s + 1]][s]
        BY <1>1, <2>4, <4>1, ShiftGap
      <4>. QED  BY <4>2, <4>3
    <3>. QED  BY <1>3, <2>1, <3>1, <3>2, <3>3 DEF Own, Promise, WriterInv
  <2>5. CASE s = k /\ Return(t, "ok")
    <3>1. b \notin overlapped => Intact(buckets'[b]) /\ ~Holds(buckets'[b], id)
      BY <1>1, <2>2, <2>3, <2>5, LastIntact DEF Follower
    <3>. QED  BY <1>3, <2>1, <2>5, <3>1 DEF Own, Promise, Return, TypeOK
  <2>. QED  BY <1>12, <2>4, <2>5 DEF RemoveShift, NextSlot
<1>. QED  BY <1>4, <1>5, <1>6, <1>7, <1>8, <1>9, <1>10, <1>11, <1>12 DEF Step

(* Every step of every thread keeps the invariant of the buckets. *)
LEMMA BucketStep ==
  ASSUME TypeOK, TypeOK', BucketInv, [Next]_vars
  PROVE  BucketInv'
<1>1. CASE UNCHANGED vars
  BY <1>1 DEF BucketInv, IntactBuckets, PanicNeedsOverlap, Writer, WriterInv, Passed,
              vars, shared
<1>2. ASSUME NEW t \in Thread, Step(t) PROVE BucketInv'
  BY <1>2, OwnStep, OwnSuffices DEF Own
<1>. QED  BY <1>1, <1>2 DEF Next, Step

(* The invariant of the buckets holds in every reachable state. *)
LEMMA BucketInvariant == Spec => []BucketInv
<1>1. Init => BucketInv
  BY DEF Init, BucketInv, IntactBuckets, PanicNeedsOverlap, Writer, Intact,
         Writing, Adding, Removing
<1>2. TypeOK /\ TypeOK' /\ BucketInv /\ [Next]_vars => BucketInv'
  BY BucketStep
<1>. QED  BY <1>1, <1>2, TypeCorrect, PTL DEF Spec

(* A bucket without overlapping writers is intact whenever nobody writes it. *)
THEOREM BucketsIntact == Spec => []IntactBuckets
<1>1. BucketInv => IntactBuckets
  BY DEF BucketInv
<1>. QED  BY <1>1, BucketInvariant, PTL

(* removePeerFromBucket panics only after two writers were in one bucket. *)
THEOREM NoPanicAlone == Spec => []PanicNeedsOverlap
<1>1. BucketInv => PanicNeedsOverlap
  BY DEF BucketInv
<1>. QED  BY <1>1, BucketInvariant, PTL

(* AddPeer and RemovePeer keep their promise to a caller that had the      *)
(* bucket to itself.                                                       *)
THEOREM PromiseKept == Spec => CallPromise
<1>1. TypeOK /\ TypeOK' /\ BucketInv /\ [Next]_vars => [\A t \in Thread : Promise(t)]_vars
  <2>. SUFFICES ASSUME TypeOK, TypeOK', BucketInv, Next, NEW u \in Thread
                PROVE  Promise(u)
    OBVIOUS
  <2>1. PICK t \in Thread : Step(t)
    BY DEF Next, Step
  <2>2. CASE u = t
    BY <2>1, <2>2, OwnStep DEF Own
  <2>3. CASE u # t
    BY <2>1, <2>3, Frame DEF Promise, Writing, Adding, Removing
  <2>. QED  BY <2>2, <2>3
<1>. QED  BY <1>1, TypeCorrect, BucketInvariant, PTL DEF Spec, CallPromise, Promise

-----------------------------------------------------------------------------
(***************************************************************************)
(* The results of queries.  Both queries go through the table in the same  *)
(* order; what is known of the result holds for the slots they have read.  *)
(***************************************************************************)
Read(t, b, i) ==
  pc[t] \in {"gotClosest", "gotPeers"} \/ b < pos[t] \/ (b = pos[t] /\ i < slot[t])

NearestSoFar(t) ==
  \A b \in 1 .. NumBuckets, i \in Slots :
    Read(t, b, i) /\ buckets[b][i] # nil =>
      /\ acc[t][1] # nil
      /\ dist[acc[t][1]][arg[t]] <= dist[buckets[b][i]][arg[t]]

Twice(id) ==
  \E b, c \in 1 .. NumBuckets, i, j \in Slots :
    (b # c \/ i # j) /\ buckets[b][i] = id /\ buckets[c][j] = id

(* A peer is returned twice only if it is stored twice. *)
AllSoFar(t) ==
  /\ \A b \in 1 .. NumBuckets, i \in Slots :
       Read(t, b, i) /\ buckets[b][i] # nil =>
         \E j \in DOMAIN acc[t] : acc[t][j] = buckets[b][i]
  /\ \A j \in DOMAIN acc[t] :
       /\ acc[t][j] # nil
       /\ \E b \in 1 .. NumBuckets, i \in Slots : Read(t, b, i) /\ buckets[b][i] = acc[t][j]
  /\ \A i, j \in DOMAIN acc[t] : acc[t][i] = acc[t][j] => i = j \/ Twice(acc[t][i])

QueryOK(t) ==
  /\ pc[t] \notin Querying => acc[t] = <<>>
  /\ pc[t] \in {"closest", "gotClosest"} /\ quiet[t] /\ acc[t] # <<>> => NearestSoFar(t)
  /\ pc[t] \in {"peers", "gotPeers"} /\ quiet[t] => AllSoFar(t)

QueryInv == \A t \in Thread : QueryOK(t)

(* A query that is still quiet has seen no write. *)
LEMMA QuietStep ==
  ASSUME TypeOK, NEW t \in Thread, Step(t), NEW u \in Thread, quiet'[u]
  PROVE  buckets' = buckets /\ (u # t => quiet[u])
<1>1. CASE \E v : WriteSlot(t, v)
  <2>1. quiet' = [w \in Thread |-> FALSE]
    BY <1>1 DEF WriteSlot
  <2>2. quiet'[u] = FALSE
    BY <2>1
  <2>. QED  BY <2>2
<1>2. CASE ~\E v : WriteSlot(t, v)
  <2>1. ~InsertWrite(t) /\ ~RemoveClear(t) /\ ~RemoveShift(t)
    BY <1>2 DEF InsertWrite, RemoveClear, RemoveShift
  <2>2. buckets' = buckets
    BY <2>1 DEF Step, AddPeer, RemovePeer, Call, GetClosestPeers, Peers, InsertLook,
                RemoveTest, RemoveMatch, RemoveFetch, ScanClosest, ScanPeers, QueryDone, shared
  <2>3. quiet' = quiet \/ \E v \in BOOLEAN : quiet' = [quiet EXCEPT ![t] = v]
    BY <2>1 DEF Step, AddPeer, RemovePeer, Call, GetClosestPeers, Peers, InsertLook,
                RemoveTest, RemoveMatch, RemoveFetch, ScanClosest, ScanPeers, QueryDone, shared
  <2>4. u # t => quiet'[u] = quiet[u]
    BY <2>3 DEF TypeOK
  <2>. QED  BY <2>2, <2>4
<1>. QED  BY <1>1, <1>2

(* Advance adds the slot that was looked at to those that were read. *)
LEMMA AdvanceRead ==
  ASSUME TypeOK, NEW t \in Thread, pc[t] \in {"closest", "peers"},
         NEW done \in {"gotClosest", "gotPeers"}, Advance(t, done)
  PROVE  /\ arg'[t] = arg[t] /\ pc'[t] \in {pc[t], done} /\ ~Read(t, pos[t], slot[t])
         /\ \A b \in 1 .. NumBuckets, i \in Slots :
              Read(t, b, i)' <=> Read(t, b, i) \/ (b = pos[t] /\ i = slot[t])
<1>1. /\ k \in Nat \ {0} /\ NumBuckets \in Nat \ {0}
      /\ slot[t] \in 1 .. k /\ pos[t] \in 1 .. NumBuckets
  BY PeerStoreAssumption DEF TypeOK, Slots
<1>2. ~Read(t, pos[t], slot[t])
  BY <1>1 DEF Read
<1>3. CASE slot[t] < k /\ Goto(t, pc[t], slot[t] + 1)
  <2>1. pc'[t] = pc[t] /\ slot'[t] = slot[t] + 1 /\ pos'[t] = pos[t] /\ arg'[t] = arg[t]
    BY <1>3 DEF Goto, TypeOK
  <2>. QED  BY <1>1, <1>2, <2>1 DEF Read, Slots
<1>4. CASE slot[t] = k /\ pos[t] < NumBuckets /\ Enter(t, pc[t], arg[t], pos[t] + 1)
  <2>1. pc'[t] = pc[t] /\ slot'[t] = 1 /\ pos'[t] = pos[t] + 1 /\ arg'[t] = arg[t]
    BY <1>4 DEF Enter, TypeOK
  <2>. QED  BY <1>1, <1>2, <1>4, <2>1 DEF Read, Slots
<1>5. CASE slot[t] = k /\ pos[t] = NumBuckets /\ Goto(t, done, k)
  <2>1. pc'[t] = done /\ arg'[t] = arg[t]
    BY <1>5 DEF Goto, TypeOK
  <2>. QED  BY <1>1, <1>2, <1>5, <2>1 DEF Read, Slots
<1>. QED  BY <1>3, <1>4, <1>5 DEF Advance

(* Replacing a result never loses the best one. *)
LEMMA ScanNearest ==
  ASSUME TypeOK, NEW t \in Thread, QueryOK(t), ScanClosest(t)
  PROVE  quiet'[t] /\ acc'[t] # <<>> => NearestSoFar(t)'
<1>. SUFFICES ASSUME quiet'[t], acc'[t] # <<>> PROVE NearestSoFar(t)'
  OBVIOUS
<1>1. /\ acc[t] \in Seq(ID \cup {nil}) /\ arg[t] \in ID /\ Seen(t) \in ID \cup {nil}
      /\ pos[t] \in 1 .. NumBuckets /\ slot[t] \in Slots
      /\ \A b \in 1 .. NumBuckets, i \in Slots : buckets[b][i] \in ID \cup {nil}
  BY DEF TypeOK, Seen
<1>. DEFINE D(x) == dist[x][arg[t]]
<1>2. nil \notin ID /\ \A x \in ID : D(x) \in Nat
  <2>1. dist \in [ID -> [ID -> Nat]] /\ nil \notin ID
    BY PeerStoreAssumption
  <2>. QED  BY <1>1, <2>1
<1>3. buckets' = buckets /\ quiet[t] /\ pc[t] = "closest" /\ Advance(t, "gotClosest")
  BY DEF ScanClosest, shared
<1>4. /\ arg'[t] = arg[t]
      /\ \A b \in 1 .. NumBuckets, i \in Slots :
           Read(t, b, i)' <=> Read(t, b, i) \/ (b = pos[t] /\ i = slot[t])
  BY <1>3, AdvanceRead
<1>5. DOMAIN acc[t] = 1 .. Len(acc[t]) /\ Len(acc[t]) \in Nat
  BY <1>1, LenProperties
<1>6. \/ acc' = acc
      \/ \E i \in DOMAIN acc[t] : acc' = [acc EXCEPT ![t] = [acc[t] EXCEPT ![i] = Seen(t)]]
  BY DEF ScanClosest, Place
<1>7. acc[t] # <<>> /\ 1 \in DOMAIN acc[t]
  <2>1. CASE acc' = acc
    BY <1>1, <1>5, <2>1, EmptySeq
  <2>2. ASSUME NEW i \in DOMAIN acc[t] PROVE acc[t] # <<>> /\ 1 \in DOMAIN acc[t]
    BY <1>1, <1>5, <2>2
  <2>. QED  BY <1>6, <2>1, <2>2
<1>8. acc[t][1] \in ID \cup {nil}
  BY <1>1, <1>7
<1>9. NearestSoFar(t)
  BY <1>3, <1>7 DEF QueryOK
<1>10. CASE Seen(t) = nil
  <2>1. acc' = acc
    BY <1>10 DEF ScanClosest
  <2>. QED  BY <1>3, <1>4, <1>9, <1>10, <2>1 DEF NearestSoFar, Seen
<1>11. CASE Seen(t) # nil
  <2>1. Place(t, Seen(t))
    BY <1>11 DEF ScanClosest
  <2>2. CASE Takes(t, Seen(t), 1)
    <3>1. acc'[t][1] = Seen(t)
      <4>1. ~\A i \in DOMAIN acc[t] : ~Takes(t, Seen(t), i)
        BY <1>7, <2>2
      <4>2. \E i \in DOMAIN acc[t] : /\ \A j \in 1 .. i - 1 : ~Takes(t, Seen(t), j)
                                    /\ acc' = [acc EXCEPT ![t] = [acc[t] EXCEPT ![i] = Seen(t)]]
        BY <2>1, <4>1 DEF Place
      <4>3. acc' = [acc EXCEPT ![t] = [acc[t] EXCEPT ![1] = Seen(t)]]
        <5>1. ASSUME NEW i \in DOMAIN acc[t], \A j \in 1 .. i - 1 : ~Takes(t, Seen(t), j)
              PROVE  i = 1
          BY <1>5, <2>2, <5>1
        <5>. QED  BY <4>2, <5>1
      <4>. DEFINE r == [acc[t] EXCEPT ![1] = Seen(t)]
      <4>4. r[1] = Seen(t)
        BY <1>7
      <4>5. acc' = [acc EXCEPT ![t] = r]
        BY <4>3
      <4>. HIDE DEF r
      <4>6. t \in DOMAIN acc
        BY DEF TypeOK
      <4>7. acc'[t] = r
        BY ONLY <4>5, <4>6
      <4>. QED  BY <4>4, <4>7
    <3>2. acc[t][1] # nil => D(Seen(t)) < D(acc[t][1])
      BY <2>2 DEF Takes
    <3>3. \A b \in 1 .. NumBuckets, i \in Slots :
            Read(t, b, i) /\ buckets[b][i] # nil => acc[t][1] # nil /\ D(acc[t][1]) <= D(buckets[b][i])
      BY <1>9 DEF NearestSoFar
    <3>. HIDE DEF D
    <3>4. ASSUME NEW b \in 1 .. NumBuckets, NEW i \in Slots, Read(t, b, i)', buckets[b][i] # nil
          PROVE  D(Seen(t)) <= D(buckets[b][i])
      <4>1. CASE b = pos[t] /\ i = slot[t]
        BY <1>1, <1>2, <1>11, <4>1 DEF Seen
      <4>2. CASE Read(t, b, i)
        <5>1. acc[t][1] # nil /\ D(acc[t][1]) <= D(buckets[b][i])
          BY <3>3, <3>4, <4>2
        <5>2. acc[t][1] \in ID /\ buckets[b][i] \in ID /\ Seen(t) \in ID
          BY <1>1, <1>8, <1>11, <3>4, <5>1
        <5>. QED  BY <1>2, <3>2, <5>1, <5>2
      <4>. QED  BY <1>4, <3>4, <4>1, <4>2
    <3>. QED  BY <1>3, <1>4, <1>11, <3>1, <3>4 DEF NearestSoFar, D
  <2>3. CASE ~Takes(t, Seen(t), 1)
    <3>1. acc[t][1] # nil /\ ~(D(Seen(t)) < D(acc[t][1]))
      BY <2>3 DEF Takes
    <3>2. acc'[t][1] = acc[t][1]
      <4>1. ASSUME NEW i \in DOMAIN acc[t], Takes(t, Seen(t), i),
                   acc' = [acc EXCEPT ![t][i] = Seen(t)]
            PROVE  acc'[t][1] = acc[t][1]
        <5>1. i # 1
          BY <2>3, <4>1
        <5>. QED  BY <1>1, <4>1, <5>1 DEF TypeOK
      <4>. QED  BY <2>1, <4>1 DEF Place
    <3>3. D(acc[t][1]) <= D(Seen(t))
      <4>1. D(acc[t][1]) \in Nat /\ D(Seen(t)) \in Nat
        BY <1>1, <1>2, <1>8, <1>11, <3>1
      <4>. QED  BY <3>1, <4>1
    <3>. QED  BY <1>3, <1>4, <1>9, <3>1, <3>2, <3>3 DEF NearestSoFar, Seen
  <2>. QED  BY <2>2, <2>3
<1>. QED  BY <1>10, <1>11

(* Peers appends the peer of every slot it reads. *)
LEMMA ScanAll ==
  ASSUME TypeOK, NEW t \in Thread, QueryOK(t), ScanPeers(t)
  PROVE  quiet'[t] => AllSoFar(t)'
<1>. SUFFICES ASSUME quiet'[t] PROVE AllSoFar(t)'
  OBVIOUS
<1>1. /\ acc[t] \in Seq(ID \cup {nil}) /\ Seen(t) \in ID \cup {nil}
      /\ pos[t] \in 1 .. NumBuckets /\ slot[t] \in Slots
  BY DEF TypeOK, Seen
<1>2. buckets' = buckets /\ quiet[t] /\ pc[t] = "peers" /\ Advance(t, "gotPeers")
  BY DEF ScanPeers, shared
<1>3. /\ ~Read(t, pos[t], slot[t])
      /\ \A b \in 1 .. NumBuckets, i \in Slots :
           Read(t, b, i)' <=> Read(t, b, i) \/ (b = pos[t] /\ i = slot[t])
  BY <1>2, AdvanceRead
<1>4. AllSoFar(t)
  BY <1>2 DEF QueryOK
<1>5. \A id : Twice(id)' <=> Twice(id)
  BY <1>2 DEF Twice
<1>6. CASE Seen(t) = nil
  <2>1. acc' = acc
    BY <1>6 DEF ScanPeers
  <2>. QED  BY <1>2, <1>3, <1>4, <1>5, <1>6, <2>1 DEF AllSoFar, Seen
<1>7. CASE Seen(t) # nil
  <2>. DEFINE q == acc[t]
              a == Append(q, Seen(t))
              n == Len(q)
  <2>1. acc'[t] = a
    BY <1>7 DEF ScanPeers, TypeOK
  <2>2. n \in Nat /\ DOMAIN q = 1 .. n
    BY <1>1, LenProperties
  <2>3. /\ a \in Seq(ID \cup {nil}) /\ Len(a) = n + 1
        /\ \A i \in 1 .. n : a[i] = q[i]
        /\ a[n + 1] = Seen(t)
    BY <1>1, AppendProperties
  <2>4. DOMAIN a = 1 .. n + 1
    BY <2>3, LenProperties
  <2>5. /\ \A b \in 1 .. NumBuckets, i \in Slots :
             Read(t, b, i) /\ buckets[b][i] # nil => \E j \in 1 .. n : q[j] = buckets[b][i]
        /\ \A j \in 1 .. n :
             /\ q[j] # nil
             /\ \E b \in 1 .. NumBuckets, i \in Slots : Read(t, b, i) /\ buckets[b][i] = q[j]
        /\ \A i, j \in 1 .. n : q[i] = q[j] => i = j \/ Twice(q[i])
    BY <1>4, <2>2 DEF AllSoFar
  <2>6. buckets[pos[t]][slot[t]] = Seen(t)
    BY DEF Seen
  <2>. HIDE DEF q, a, n
  <2>7. ASSUME NEW b \in 1 .. NumBuckets, NEW i \in Slots, Read(t, b, i)', buckets[b][i] # nil
        PROVE  \E j \in 1 .. n + 1 : a[j] = buckets[b][i]
    <3>1. CASE Read(t, b, i)
      <4>1. PICK j \in 1 .. n : q[j] = buckets[b][i]
        BY <2>5, <2>7, <3>1
      <4>2. j \in 1 .. n + 1 /\ a[j] = buckets[b][i]
        BY <2>2, <2>3, <4>1
      <4>. QED  BY <4>2
    <3>2. CASE b = pos[t] /\ i = slot[t]
      <4>1. n + 1 \in 1 .. n + 1
        BY <2>2
      <4>. QED  BY <2>3, <2>6, <3>2, <4>1
    <3>. QED  BY <1>3, <2>7, <3>1, <3>2
  <2>8. ASSUME NEW j \in 1 .. n + 1
        PROVE  /\ a[j] # nil
               /\ \E b \in 1 .. NumBuckets, i \in Slots : Read(t, b, i)' /\ buckets[b][i] = a[j]
    <3>1. CASE j \in 1 .. n
      BY <1>3, <2>3, <2>5, <3>1
    <3>2. CASE j = n + 1
      BY <1>1, <1>3, <1>7, <2>3, <2>6, <3>2
    <3>. QED  BY <2>2, <3>1, <3>2
  <2>9. ASSUME NEW j \in 1 .. n, q[j] = Seen(t) PROVE Twice(Seen(t))
    <3>1. PICK b \in 1 .. NumBuckets, i \in Slots : Read(t, b, i) /\ buckets[b][i] = Seen(t)
      BY <2>5, <2>9
    <3>2. b # pos[t] \/ i # slot[t]
      BY <1>3, <3>1
    <3>. QED  BY <1>1, <2>6, <3>1, <3>2 DEF Twice
  <2>10. ASSUME NEW i \in 1 .. n + 1, NEW j \in 1 .. n + 1, a[i] = a[j]
         PROVE  i = j \/ Twice(a[i])
    <3>1. CASE i \in 1 .. n /\ j \in 1 .. n
      BY <2>3, <2>5, <2>10, <3>1
    <3>2. CASE i = n + 1 /\ j \in 1 .. n
      BY <2>3, <2>9, <2>10, <3>2
    <3>3. CASE j = n + 1 /\ i \in 1 .. n
      BY <2>3, <2>9, <2>10, <3>3
    <3>. QED  BY <2>2, <3>1, <3>2, <3>3
  <2>. QED  BY <1>2, <1>5, <2>1, <2>4, <2>7, <2>8, <2>10 DEF AllSoFar
<1>. QED  BY <1>6, <1>7

(* Every step keeps the results of the queries. *)
LEMMA QueryStep == TypeOK /\ QueryInv /\ [Next]_vars => QueryInv'
<1>. SUFFICES ASSUME TypeOK, QueryInv, [Next]_vars, NEW u \in Thread PROVE QueryOK(u)'
  BY DEF QueryInv
<1>0. QueryOK(u)
  BY DEF QueryInv
<1>1. CASE UNCHANGED vars
  BY <1>0, <1>1 DEF QueryOK, NearestSoFar, AllSoFar, Twice, Read, vars, shared
<1>2. ASSUME NEW t \in Thread, Step(t), u # t PROVE QueryOK(u)'
  <2>1. /\ pc'[u] = pc[u] /\ arg'[u] = arg[u] /\ pos'[u] = pos[u]
        /\ slot'[u] = slot[u] /\ acc'[u] = acc[u]
    BY <1>2, Frame
  <2>2. quiet'[u] => quiet[u] /\ buckets' = buckets
    BY <1>2, QuietStep
  <2>3. quiet'[u] => NearestSoFar(u)' = NearestSoFar(u) /\ AllSoFar(u)' = AllSoFar(u)
    BY <2>1, <2>2 DEF NearestSoFar, AllSoFar, Twice, Read
  <2>. QED  BY <1>0, <2>1, <2>2, <2>3 DEF QueryOK
<1>3. CASE Step(u)
  <2>. USE DEF TypeOK
  <2>1. ASSUME NEW key \in ID \cup AlienID, NEW n \in NumReturned, GetClosestPeers(u, key, n)
        PROVE  QueryOK(u)'
    <3>0. pc[u] = "idle" /\ acc[u] = <<>>
      BY <1>0, <2>1 DEF GetClosestPeers, QueryOK, Querying
    <3>1. CASE pc'[u] = "idle" /\ acc' = acc
      BY <3>0, <3>1 DEF QueryOK
    <3>2. CASE pc'[u] = "closest" /\ pos'[u] = 1 /\ slot'[u] = 1
      <4>1. \A b \in 1 .. NumBuckets, i \in Slots : ~Read(u, b, i)'
        <5>1. NumBuckets \in Nat /\ k \in Nat
          BY PeerStoreAssumption
        <5>. QED  BY ONLY <3>2, <5>1 DEF Read, Slots
      <4>. QED  BY <3>2, <4>1 DEF QueryOK, NearestSoFar, Querying
    <3>. QED  BY <2>1, <3>1, <3>2 DEF GetClosestPeers, Return, Enter
  <2>2. CASE Peers(u)
    <3>1. /\ pc[u] = "idle" /\ acc[u] = <<>> /\ acc' = acc /\ pc'[u] = "peers"
          /\ pos'[u] = 1 /\ slot'[u] = 1
      BY <1>0, <2>2 DEF Peers, Enter, QueryOK, Querying
    <3>2. \A b \in 1 .. NumBuckets, i \in Slots : ~Read(u, b, i)'
      <4>1. NumBuckets \in Nat /\ k \in Nat
        BY PeerStoreAssumption
      <4>. QED  BY ONLY <3>1, <4>1 DEF Read, Slots
    <3>3. DOMAIN acc'[u] = {}
      BY <3>1
    <3>4. AllSoFar(u)'
      BY <3>2, <3>3 DEF AllSoFar
    <3>. QED  BY <3>1, <3>4 DEF QueryOK, Querying
  <2>3. CASE ScanClosest(u)
    <3>1. pc[u] = "closest" /\ Advance(u, "gotClosest")
      BY <2>3 DEF ScanClosest
    <3>2. pc'[u] \in {"closest", "gotClosest"}
      BY <3>1, AdvanceRead
    <3>. QED  BY <1>0, <2>3, <3>2, ScanNearest DEF QueryOK, Querying
  <2>4. CASE ScanPeers(u)
    <3>1. pc[u] = "peers" /\ Advance(u, "gotPeers")
      BY <2>4 DEF ScanPeers
    <3>2. pc'[u] \in {"peers", "gotPeers"}
      BY <3>1, AdvanceRead
    <3>. QED  BY <1>0, <2>4, <3>2, ScanAll DEF QueryOK, Querying
  <2>5. CASE QueryDone(u)
    BY <2>5 DEF QueryDone, Return, QueryOK
  <2>6. ASSUME pc[u] \notin Querying, pc'[u] \notin Querying, acc' = acc PROVE QueryOK(u)'
    BY <1>0, <2>6 DEF QueryOK, Querying
  <2>7. CASE \E id \in ID \cup AlienID : AddPeer(u, id) \/ RemovePeer(u, id)
    BY <2>6, <2>7 DEF AddPeer, RemovePeer, Call, Return, Enter, Querying
  <2>8. CASE InsertLook(u) \/ InsertWrite(u)
    BY <2>6, <2>8 DEF InsertLook, InsertWrite, Return, Goto, Querying
  <2>9. CASE RemoveTest(u) \/ RemoveMatch(u) \/ RemoveClear(u)
    BY <2>6, <2>9 DEF RemoveTest, RemoveMatch, RemoveClear, NextSlot, Return, Goto, Querying
  <2>10. CASE RemoveFetch(u) \/ RemoveShift(u)
    BY <2>6, <2>10 DEF RemoveFetch, RemoveShift, NextSlot, Return, Goto, Querying
  <2>. QED  BY <1>3, <2>1, <2>2, <2>3, <2>4, <2>5, <2>7, <2>8, <2>9, <2>10 DEF Step
<1>. QED  BY <1>1, <1>2, <1>3 DEF Next, Step

(* The invariant of the queries holds in every reachable state. *)
LEMMA QueryInvariant == Spec => []QueryInv
<1>1. Init => QueryInv
  BY DEF Init, QueryInv, QueryOK, Querying
<1>. QED  BY <1>1, QueryStep, TypeCorrect, PTL DEF Spec

(* The first peer of an undisturbed GetClosestPeers is the closest of all. *)
THEOREM ClosestIsFirst == Spec => []ClosestFirst
<1>1. QueryInv => ClosestFirst
  BY DEF QueryInv, QueryOK, ClosestFirst, NearestSoFar, Read
<1>. QED  BY <1>1, QueryInvariant, PTL

(* Without overlapping writers nothing is stored twice. *)
LEMMA NoneTwice ==
  ASSUME TypeOK, RightBucket, IntactBuckets, overlapped = {},
         \A u \in Thread : pc[u] \notin Writing, NEW id \in ID
  PROVE  ~Twice(id)
<1>. SUFFICES ASSUME NEW b \in 1 .. NumBuckets, NEW c \in 1 .. NumBuckets,
                     NEW i \in Slots, NEW j \in Slots, b # c \/ i # j,
                     buckets[b][i] = id, buckets[c][j] = id
              PROVE  FALSE
  BY DEF Twice
<1>0. nil \notin ID /\ k \in Nat
  BY PeerStoreAssumption
<1>1. b = c
  BY <1>0 DEF RightBucket
<1>2. Intact(buckets[b])
  BY DEF IntactBuckets, Writer
<1>3. i < j \/ j < i
  BY <1>0, <1>1 DEF Slots
<1>. QED  BY <1>0, <1>1, <1>2, <1>3 DEF Intact

(* An undisturbed Peers returns every peer of the store exactly once. *)
THEOREM PeersAreExact == Spec => []PeersExact
<1>1. TypeOK /\ QueryInv /\ RightBucket /\ IntactBuckets => PeersExact
  <2>. SUFFICES ASSUME TypeOK, QueryInv, RightBucket, IntactBuckets, NEW t \in Thread,
                       pc[t] = "gotPeers", quiet[t], overlapped = {},
                       \A u \in Thread : pc[u] \notin Writing
                PROVE  /\ \A b \in 1 .. NumBuckets, i \in Slots :
                            buckets[b][i] # nil =>
                              \E j \in DOMAIN acc[t] : acc[t][j] = buckets[b][i]
                       /\ \A i, j \in DOMAIN acc[t] : acc[t][i] = acc[t][j] => i = j
    BY DEF PeersExact
  <2>1. AllSoFar(t)
    BY DEF QueryInv, QueryOK
  <2>2. \A j \in DOMAIN acc[t] : acc[t][j] \in ID
    BY <2>1 DEF AllSoFar, TypeOK
  <2>3. \A j \in DOMAIN acc[t] : ~Twice(acc[t][j])
    BY <2>2, NoneTwice
  <2>. QED  BY <2>1, <2>3 DEF AllSoFar, Read
<1>. QED  BY <1>1, TypeCorrect, QueryInvariant, PeersInTheirBucket, BucketsIntact, PTL
=============================================================================

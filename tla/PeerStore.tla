------------------------------ MODULE PeerStore ------------------------------
(***************************************************************************)
(* The routing table of a node: dhtpeer.Store (kademila/dhtpeer).          *)
(*                                                                         *)
(* The store is a table of NumBuckets buckets of k slots each and has no   *)
(* lock, while its callers (the workers of GetValue and SetValue, the      *)
(* handlers of kdmgetvalue, Bootstrap) are goroutines of their own.  Every *)
(* thread here is one such goroutine, and every step of it makes at most   *)
(* one access to the table.  A slot is read and written as one word.       *)
(*                                                                         *)
(* A peer is its ID: the store compares nothing else, and never replaces   *)
(* the record of an ID that is already there.                              *)
(***************************************************************************)
EXTENDS Naturals, Sequences

CONSTANTS ID,          \* the IDs as long as nodeID, this node's included
          AlienID,     \* IDs of another length
          nodeID,      \* the ID of the node that owns the store
          NumBuckets,  \* len(nodeID) * 8
          k,           \* slots in a bucket
          bucketPos,   \* numEqualBitsPrefix(nodeID, id), counted from 1
          dist,        \* distenceBetween(id, key)
          NumReturned, \* how many peers a caller of GetClosestPeers asks for
          Thread,      \* the goroutines that use the store
          nil          \* an empty slot

ASSUME PeerStoreAssumption ==
  /\ nodeID \in ID
  /\ AlienID \cap ID = {}
  /\ nil \notin ID \cup AlienID
  /\ k \in Nat \ {0}
  /\ NumBuckets \in Nat \ {0}
  /\ bucketPos \in [ID -> 1 .. NumBuckets]
  /\ dist \in [ID -> [ID -> Nat]]
  /\ NumReturned \subseteq Nat

VARIABLES buckets,     \* the table
          pc,          \* what each thread is about to do
          arg,         \* the ID or the key it was called with
          pos,         \* the bucket it looks at
          slot,        \* the slot of that bucket
          next,        \* the peer removePeerFromBucket is moving one slot down
          acc,         \* the peers a query has gathered
          ret,         \* what the last step returned, "none" if nothing
          panicked,    \* a nil dereference has ended the process
          overlapped,  \* history: buckets that two writers were in at a time
          quiet        \* history: no slot was written since a query began

shared == <<buckets, panicked, overlapped>>
vars == <<shared, pc, arg, pos, slot, next, acc, ret, quiet>>

Slots == 1 .. k
Adding == {"look", "write"}
Removing == {"test", "match", "clear", "fetch", "shift", "retest"}
Writing == Adding \cup Removing
Querying == {"closest", "peers", "gotClosest", "gotPeers"}
Results == {"none", "ok", "badLength", "noSpace"}

(* The ID in the slot thread t looks at, nil if it is empty. *)
Seen(t) == buckets[pos[t]][slot[t]]

(***************************************************************************)
(* NewStore: k empty slots in every bucket.                                *)
(***************************************************************************)
Init ==
  /\ buckets = [b \in 1 .. NumBuckets |-> [i \in Slots |-> nil]]
  /\ pc = [t \in Thread |-> "idle"]
  /\ arg = [t \in Thread |-> nodeID]
  /\ pos = [t \in Thread |-> 1]
  /\ slot = [t \in Thread |-> 1]
  /\ next = [t \in Thread |-> nil]
  /\ acc = [t \in Thread |-> <<>>]
  /\ ret = "none"
  /\ panicked = FALSE
  /\ overlapped = {}
  /\ quiet = [t \in Thread |-> FALSE]

(* Thread t leaves its call with the result r and forgets its variables. *)
Return(t, r) ==
  /\ pc' = [pc EXCEPT ![t] = "idle"]
  /\ arg' = [arg EXCEPT ![t] = nodeID]
  /\ pos' = [pos EXCEPT ![t] = 1]
  /\ slot' = [slot EXCEPT ![t] = 1]
  /\ ret' = r

(* Thread t goes on at the program point p with slot i of its bucket. *)
Goto(t, p, i) ==
  /\ pc' = [pc EXCEPT ![t] = p]
  /\ slot' = [slot EXCEPT ![t] = i]
  /\ ret' = "none"
  /\ UNCHANGED <<arg, pos>>

(* Thread t enters the body of a call with the argument x, at bucket b. *)
Enter(t, p, x, b) ==
  /\ pc' = [pc EXCEPT ![t] = p]
  /\ arg' = [arg EXCEPT ![t] = x]
  /\ pos' = [pos EXCEPT ![t] = b]
  /\ slot' = [slot EXCEPT ![t] = 1]
  /\ ret' = "none"

(* Store v in the slot thread t looks at; the queries under way see it. *)
WriteSlot(t, v) ==
  /\ buckets' = [buckets EXCEPT ![pos[t]][slot[t]] = v]
  /\ quiet' = [u \in Thread |-> FALSE]
  /\ UNCHANGED <<panicked, overlapped>>

(* Mutant of Call: the node does not ignore its own ID. *)
CallWithSelf(t, id, p) ==
  /\ pc[t] = "idle"
  /\ id \in ID
  /\ Enter(t, p, id, bucketPos[id])
  /\ UNCHANGED <<shared, next, acc, quiet>>

(***************************************************************************)
(* The beginning of AddPeer and RemovePeer: both refuse an ID of another   *)
(* length, ignore the node itself and then walk the bucket of the ID.      *)
(***************************************************************************)
Call(t, id, p) ==
  /\ pc[t] = "idle"
  /\ \/ /\ id \in AlienID
        /\ Return(t, "badLength")
        /\ UNCHANGED overlapped
     \/ /\ id = nodeID
        /\ Return(t, "ok")
        /\ UNCHANGED overlapped
     \/ /\ id \in ID \ {nodeID}
        /\ Enter(t, p, id, bucketPos[id])
        /\ overlapped' = overlapped \cup
             {b \in {bucketPos[id]} :
                \E u \in Thread \ {t} : pc[u] \in Writing /\ pos[u] = b}
  /\ UNCHANGED <<buckets, panicked, next, acc, quiet>>

AddPeer(t, id) == Call(t, id, "look")

RemovePeer(t, id) == Call(t, id, "test")

(* Mutant of InsertLook: the last slot is not looked at. *)
InsertLookShort(t) ==
  /\ pc[t] = "look"
  /\ \/ Seen(t) = arg[t] /\ Return(t, "ok")
     \/ Seen(t) \notin {nil, arg[t]} /\ slot[t] < k - 1 /\ Goto(t, "look", slot[t] + 1)
     \/ Seen(t) \notin {nil, arg[t]} /\ slot[t] >= k - 1 /\ Return(t, "noSpace")
     \/ Seen(t) = nil /\ Goto(t, "write", slot[t])
  /\ UNCHANGED <<shared, next, acc, quiet>>

(***************************************************************************)
(* insertPeerIntoBucket: look for the ID or the first empty slot, and      *)
(* write the peer there in a step of its own.                              *)
(***************************************************************************)
InsertLook(t) ==
  /\ pc[t] = "look"
  /\ \/ Seen(t) = arg[t] /\ Return(t, "ok")
     \/ Seen(t) \notin {nil, arg[t]} /\ slot[t] < k /\ Goto(t, "look", slot[t] + 1)
     \/ Seen(t) \notin {nil, arg[t]} /\ slot[t] = k /\ Return(t, "noSpace")
     \/ Seen(t) = nil /\ Goto(t, "write", slot[t])
  /\ UNCHANGED <<shared, next, acc, quiet>>

InsertWrite(t) ==
  /\ pc[t] = "write"
  /\ WriteSlot(t, arg[t])
  /\ Return(t, "ok")
  /\ UNCHANGED <<next, acc>>

(* Mutant of RemoveTest: an empty slot does not end the loop. *)
RemoveTestNoNil(t) ==
  /\ \/ pc[t] = "test" /\ Goto(t, "match", slot[t])
     \/ pc[t] = "retest" /\ Goto(t, "fetch", slot[t])
  /\ UNCHANGED <<shared, next, acc, quiet>>

(***************************************************************************)
(* removePeerFromBucket: find the peer, clear its slot, then move every    *)
(* later peer one slot down.  RemoveTest reads the slot, RemoveMatch reads *)
(* it again: if another writer emptied it in between, ID() panics.         *)
(* "retest" is "test" once isRemoved is set.                               *)
(***************************************************************************)
RemoveTest(t) ==
  /\ \/ pc[t] \in {"test", "retest"} /\ Seen(t) = nil /\ Return(t, "ok")
     \/ pc[t] = "test" /\ Seen(t) # nil /\ Goto(t, "match", slot[t])
     \/ pc[t] = "retest" /\ Seen(t) # nil /\ Goto(t, "fetch", slot[t])
  /\ UNCHANGED <<shared, next, acc, quiet>>

(* The loop goes on with the following slot, or ends. *)
NextSlot(t, p) ==
  \/ slot[t] < k /\ Goto(t, p, slot[t] + 1)
  \/ slot[t] = k /\ Return(t, "ok")

RemoveMatch(t) ==
  /\ pc[t] = "match"
  /\ \/ /\ Seen(t) = nil
        /\ panicked' = TRUE
        /\ Goto(t, "match", slot[t])
     \/ /\ Seen(t) \notin {nil, arg[t]}
        /\ NextSlot(t, "test")
        /\ UNCHANGED panicked
     \/ /\ Seen(t) = arg[t]
        /\ Goto(t, "clear", slot[t])
        /\ UNCHANGED panicked
  /\ UNCHANGED <<buckets, overlapped, next, acc, quiet>>

RemoveClear(t) ==
  /\ pc[t] = "clear"
  /\ WriteSlot(t, nil)
  /\ Goto(t, "fetch", slot[t])
  /\ UNCHANGED <<next, acc>>

(* Read the peer that follows; the last slot is followed by nothing. *)
RemoveFetch(t) ==
  /\ pc[t] = "fetch"
  /\ next' = [next EXCEPT ![t] =
                IF slot[t] = k THEN nil ELSE buckets[pos[t]][slot[t] + 1]]
  /\ Goto(t, "shift", slot[t])
  /\ UNCHANGED <<shared, acc, quiet>>

(* Mutant of RemoveShift: only one peer is moved down. *)
RemoveShiftOnce(t) ==
  /\ pc[t] = "shift"
  /\ WriteSlot(t, next[t])
  /\ Return(t, "ok")
  /\ next' = [next EXCEPT ![t] = nil]
  /\ UNCHANGED acc

RemoveShift(t) ==
  /\ pc[t] = "shift"
  /\ WriteSlot(t, next[t])
  /\ NextSlot(t, "retest")
  /\ next' = [next EXCEPT ![t] = nil]
  /\ UNCHANGED acc

(***************************************************************************)
(* GetClosestPeers and Peers read every slot of every bucket in order.     *)
(***************************************************************************)
GetClosestPeers(t, key, n) ==
  /\ pc[t] = "idle"
  /\ \/ /\ key \in AlienID
        /\ Return(t, "badLength")
        /\ UNCHANGED <<acc, quiet>>
     \/ /\ key \in ID
        /\ Enter(t, "closest", key, 1)
        /\ acc' = [acc EXCEPT ![t] = [i \in 1 .. n |-> nil]]
        /\ quiet' = [quiet EXCEPT ![t] = TRUE]
  /\ UNCHANGED <<shared, next>>

Peers(t) ==
  /\ pc[t] = "idle"
  /\ Enter(t, "peers", nodeID, 1)
  /\ quiet' = [quiet EXCEPT ![t] = TRUE]
  /\ UNCHANGED <<shared, next, acc>>

(* Mutants of Advance: the loop over the slots goes one too far, and stops *)
(* one too early.                                                          *)
AdvanceTooFar(t, done) ==
  \/ slot[t] <= k /\ Goto(t, pc[t], slot[t] + 1)
  \/ slot[t] > k /\ pos[t] < NumBuckets /\ Enter(t, pc[t], arg[t], pos[t] + 1)
  \/ slot[t] > k /\ pos[t] = NumBuckets /\ Goto(t, done, k)

AdvanceShort(t, done) ==
  \/ slot[t] < k - 1 /\ Goto(t, pc[t], slot[t] + 1)
  \/ slot[t] >= k - 1 /\ pos[t] < NumBuckets /\ Enter(t, pc[t], arg[t], pos[t] + 1)
  \/ slot[t] >= k - 1 /\ pos[t] = NumBuckets /\ Goto(t, done, k)

(* The loops go on with the next slot, then with the next bucket. *)
Advance(t, done) ==
  \/ slot[t] < k /\ Goto(t, pc[t], slot[t] + 1)
  \/ slot[t] = k /\ pos[t] < NumBuckets /\ Enter(t, pc[t], arg[t], pos[t] + 1)
  \/ slot[t] = k /\ pos[t] = NumBuckets /\ Goto(t, done, k)

(* Mutants of Takes: the comparison is the wrong way round, and a result   *)
(* is never replaced.                                                      *)
TakesFarther(t, id, i) ==
  acc[t][i] # nil => dist[id][arg[t]] > dist[acc[t][i]][arg[t]]

TakesEmpty(t, id, i) == acc[t][i] = nil

(* GetClosestPeers puts the peer at place i of its result: the place is    *)
(* empty, or holds a peer that is farther from the key.                    *)
Takes(t, id, i) ==
  acc[t][i] # nil => dist[id][arg[t]] < dist[acc[t][i]][arg[t]]

(* The first place that takes the peer; the peer it held is dropped. *)
Place(t, id) ==
  \/ \E i \in DOMAIN acc[t] :
       /\ Takes(t, id, i)
       /\ \A j \in 1 .. i - 1 : ~Takes(t, id, j)
       /\ acc' = [acc EXCEPT ![t][i] = id]
  \/ /\ \A i \in DOMAIN acc[t] : ~Takes(t, id, i)
     /\ UNCHANGED acc

ScanClosest(t) ==
  /\ pc[t] = "closest"
  /\ IF Seen(t) = nil THEN UNCHANGED acc ELSE Place(t, Seen(t))
  /\ Advance(t, "gotClosest")
  /\ UNCHANGED <<shared, next, quiet>>

ScanPeers(t) ==
  /\ pc[t] = "peers"
  /\ acc' = IF Seen(t) = nil THEN acc
            ELSE [acc EXCEPT ![t] = Append(acc[t], Seen(t))]
  /\ Advance(t, "gotPeers")
  /\ UNCHANGED <<shared, next, quiet>>

(* The caller takes the result. *)
QueryDone(t) ==
  /\ pc[t] \in {"gotClosest", "gotPeers"}
  /\ Return(t, "ok")
  /\ acc' = [acc EXCEPT ![t] = <<>>]
  /\ quiet' = [quiet EXCEPT ![t] = FALSE]
  /\ UNCHANGED <<shared, next>>

Next ==
  /\ ~panicked
  /\ \E t \in Thread :
       \/ \E id \in ID \cup AlienID : AddPeer(t, id)
       \/ \E id \in ID \cup AlienID : RemovePeer(t, id)
       \/ \E key \in ID \cup AlienID, n \in NumReturned : GetClosestPeers(t, key, n)
       \/ Peers(t)
       \/ InsertLook(t)
       \/ InsertWrite(t)
       \/ RemoveTest(t)
       \/ RemoveMatch(t)
       \/ RemoveClear(t)
       \/ RemoveFetch(t)
       \/ RemoveShift(t)
       \/ ScanClosest(t)
       \/ ScanPeers(t)
       \/ QueryDone(t)

Spec == Init /\ [][Next]_vars

-----------------------------------------------------------------------------
(***************************************************************************)
(* Properties                                                              *)
(***************************************************************************)

(* The table holds IDs of the right length in slots that exist, and every  *)
(* loop stays within its bucket.                                           *)
TypeOK ==
  /\ buckets \in [1 .. NumBuckets -> [Slots -> ID \cup {nil}]]
  /\ pc \in [Thread -> {"idle"} \cup Writing \cup Querying]
  /\ arg \in [Thread -> ID]
  /\ pos \in [Thread -> 1 .. NumBuckets]
  /\ slot \in [Thread -> Slots]
  /\ next \in [Thread -> ID \cup {nil}]
  /\ acc \in [Thread -> Seq(ID \cup {nil})]
  /\ ret \in Results
  /\ panicked \in BOOLEAN
  /\ overlapped \subseteq 1 .. NumBuckets
  /\ quiet \in [Thread -> BOOLEAN]

Writer(t, b) == pc[t] \in Writing /\ pos[t] = b

Holds(bucket, id) == \E i \in Slots : bucket[i] = id

Full(bucket) == \A i \in Slots : bucket[i] # nil

(* The peers of a bucket fill its first slots, each once. *)
Intact(bucket) ==
  \A i, j \in Slots :
    i < j /\ bucket[j] # nil => bucket[i] \notin {nil, bucket[j]}

(* Whatever the writers do to each other, a peer is only ever stored in    *)
(* the bucket of its ID, where AddPeer and RemovePeer look for it, and the *)
(* node never stores itself.                                               *)
RightBucket ==
  \A b \in 1 .. NumBuckets, i \in Slots :
    buckets[b][i] # nil => buckets[b][i] # nodeID /\ bucketPos[buckets[b][i]] = b

(* A bucket that no two writers were ever in at the same time is intact    *)
(* whenever nobody writes it: insertPeerIntoBucket finds the first empty   *)
(* slot and removePeerFromBucket closes the gap it makes.                  *)
IntactBuckets ==
  \A b \in 1 .. NumBuckets \ overlapped :
    (\A t \in Thread : ~Writer(t, b)) => Intact(buckets[b])

(* The second read of a slot in removePeerFromBucket finds it empty, and   *)
(* the process panics, only if two writers were in one bucket.             *)
PanicNeedsOverlap == panicked => overlapped # {}

(* What a call that changes the store promises its caller, in a bucket     *)
(* without overlapping writers: after AddPeer the peer is stored or the    *)
(* bucket is full of other peers, after RemovePeer the peer is gone.       *)
CallPromise ==
  [][\A t \in Thread :
       pc[t] \in Writing /\ pc'[t] = "idle" /\ pos[t] \notin overlapped =>
         LET bucket == buckets'[pos[t]]
         IN  /\ pc[t] \in Adding /\ ret' = "ok" => Holds(bucket, arg[t])
             /\ pc[t] \in Adding /\ ret' = "noSpace" =>
                  Full(bucket) /\ ~Holds(bucket, arg[t])
             /\ pc[t] \in Removing => ~Holds(bucket, arg[t])
    ]_vars

(* GetClosestPeers returns peers in the order of their distance to the     *)
(* key with no gap before any of them, whatever the writers do meanwhile.  *)
SortedResult ==
  \A t \in Thread : pc[t] \in {"closest", "gotClosest"} =>
    \A i, j \in DOMAIN acc[t] :
      i < j /\ acc[t][j] # nil =>
        /\ acc[t][i] # nil
        /\ dist[acc[t][i]][arg[t]] <= dist[acc[t][j]][arg[t]]

(* If no slot was written during the query, the first peer it returns is   *)
(* the closest of all the peers in the store: replacing a result never     *)
(* loses the best one.                                                     *)
ClosestFirst ==
  \A t \in Thread : pc[t] = "gotClosest" /\ quiet[t] /\ acc[t] # <<>> =>
    \A b \in 1 .. NumBuckets, i \in Slots :
      buckets[b][i] # nil =>
        /\ acc[t][1] # nil
        /\ dist[acc[t][1]][arg[t]] <= dist[buckets[b][i]][arg[t]]

(* If no slot was written during the query, and the buckets are intact,    *)
(* Peers returns every peer of the store exactly once.                     *)
PeersExact ==
  \A t \in Thread :
    /\ pc[t] = "gotPeers" /\ quiet[t] /\ overlapped = {}
    /\ \A u \in Thread : pc[u] \notin Writing
    => /\ \A b \in 1 .. NumBuckets, i \in Slots :
            buckets[b][i] # nil => \E j \in DOMAIN acc[t] : acc[t][j] = buckets[b][i]
       /\ \A i, j \in DOMAIN acc[t] : acc[t][i] = acc[t][j] => i = j

(* The comment of HandleRequest on its call of GetClosestPeers, "Get the   *)
(* closest nodes we know.": a peer of the store that is not returned is    *)
(* farther than each of the n returned ones.                               *)
ClosestReturned ==
  \A t \in Thread : pc[t] = "gotClosest" /\ quiet[t] =>
    \A b \in 1 .. NumBuckets, i \in Slots :
      \/ buckets[b][i] = nil
      \/ \E j \in DOMAIN acc[t] : acc[t][j] = buckets[b][i]
      \/ \A j \in DOMAIN acc[t] :
           acc[t][j] # nil /\ dist[acc[t][j]][arg[t]] <= dist[buckets[b][i]][arg[t]]
=============================================================================

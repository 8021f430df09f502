------------------------------- MODULE SetValue -------------------------------
(***************************************************************************)
(* DHT.SetValue (kademila/kadmilla.go): workers look for the MaxNumStores  *)
(* nodes closest to the key, then the value is sent to the nodes found.    *)
(*                                                                         *)
(* The nodes found are kept in a fixed array of slots under a mutex.  A    *)
(* worker that has picked a slot goes on using a pointer to it without the *)
(* mutex: it marks the slot, reads its peer and, if the request fails,     *)
(* reads the peer again to blame it, while other workers may put a closer  *)
(* peer into the slot.  The two collections of errors are appended to by   *)
(* all workers without any lock.                                           *)
(*                                                                         *)
(* The other nodes are honest about distances, and return their peers in   *)
(* the order of the distance (PeerStore!SortedResult); everything else     *)
(* they answer is arbitrary.                                               *)
(***************************************************************************)
EXTENDS Naturals, FiniteSets

CONSTANTS Peer,            \* the nodes of the network
          Self,            \* the node that runs SetValue
          dist,            \* the distance of each peer to the key
          Worker,          \* NumWorkersSet goroutines
          MaxNumStores,
          MinNumStores,
          NumPeerReturned, \* the peers a node returns at most
          bucketPos, k,    \* the buckets of this node's peer store
          nil

ASSUME SetValueAssumption ==
  /\ Self \in Peer
  /\ nil \notin Peer /\ nil \notin Worker
  /\ dist \in [Peer -> Nat]
  /\ \A p, q \in Peer : dist[p] = dist[q] => p = q
  /\ Worker # {}
  /\ MaxNumStores \in Nat \ {0}
  /\ MinNumStores \in Nat

VARIABLES peerstore,       \* the peers this node knows
          slots, marked,   \* searchNodes.nodes: peers and their searchDone
          lock,            \* the worker inside addSearchNodeIfCloser, or nil
          main,            \* where SetValue itself is
          seed,            \* own peers that are still to be put into slots
          pc,              \* what each worker is about to do
          ptr,             \* the slot a worker has picked
          target,          \* the peer a worker sends a request to
          new,             \* the answered peers still to be offered
          added,           \* one of the answered peers was put into a slot
          termenatingErr, isDone,
          errorCollection, \* the peers to be removed from the peer store
          header,          \* the errorCollection a worker is appending to
          blamed,          \* the peer it appends
          torn,            \* two workers wrote errorCollection at a time
          cursor,          \* how many storers have been handed to workers
          failedStored,    \* the length of failedStored
          length,          \* the length a worker has read to append to it
          outcome,         \* what SetValue returned, "none" before
          asked, failed,   \* history: peers whose search request returned,
                           \*   and those whose request failed
          offered,         \* history: peers offered to the slots
          sawValue,        \* history: some peer answered with a value
          acked, stored    \* history: peers that confirmed the value, and
                           \*   peers that hold it

found == <<slots, marked, lock, offered>>
search == <<ptr, target, new, added, termenatingErr, isDone, asked, failed, sawValue>>
errors == <<errorCollection, header, blamed, torn>>
storing == <<cursor, failedStored, length, acked, stored>>
vars == <<peerstore, main, seed, pc, outcome, found, search, errors, storing>>

Slots == 1 .. MaxNumStores

AllStopped == \A w \in Worker : pc[w] = "stopped"

Goto(w, p) == pc' = [pc EXCEPT ![w] = p]

(***************************************************************************)
(* The peer store seen from here (see GetValue).                           *)
(***************************************************************************)
InBucket(ps, b) == {p \in ps : bucketPos[p] = b}

(* Mutant of AddedTo: the node itself is added too. *)
AddedToWithSelf(ps, S) == {ps \cup S}

AddedTo(ps, S) ==
  {ps \cup T : T \in {T \in SUBSET (S \ {Self}) :
     \A p \in S \ {Self} :
       LET filled == Cardinality(InBucket(ps \cup T, bucketPos[p]))
       IN  IF p \in T \ ps THEN filled <= k ELSE p \in ps \/ filled >= k}}

OwnAnswers ==
  {S \in SUBSET peerstore :
     /\ Cardinality(S) <= NumPeerReturned
     /\ NumPeerReturned > 0 => \A p \in peerstore : \E q \in S : dist[q] <= dist[p]}

Answers == {S \in SUBSET Peer : Cardinality(S) <= NumPeerReturned}

(* The first of a list of peers in the order of their distance. *)
Nearest(p, S) == p \in S /\ \A q \in S : dist[p] <= dist[q]

(***************************************************************************)
(* intilizeSearchNodeWithSelfForSet: the node itself is the first storer.  *)
(***************************************************************************)
Init ==
  /\ peerstore \in SUBSET (Peer \ {Self})
  /\ \A b \in {bucketPos[p] : p \in Peer} : Cardinality(InBucket(peerstore, b)) <= k
  /\ slots = [i \in Slots |-> IF i = 1 THEN Self ELSE nil]
  /\ marked = [i \in Slots |-> FALSE]
  /\ lock = nil
  /\ main = "start" /\ seed = {}
  /\ pc = [w \in Worker |-> "idle"]
  /\ ptr = [w \in Worker |-> 1]
  /\ target = [w \in Worker |-> Self]
  /\ new = [w \in Worker |-> {}]
  /\ added = [w \in Worker |-> FALSE]
  /\ termenatingErr = FALSE /\ isDone = FALSE
  /\ errorCollection = {} /\ torn = FALSE
  /\ header = [w \in Worker |-> {}]
  /\ blamed = [w \in Worker |-> Self]
  /\ cursor = 0 /\ failedStored = 0
  /\ length = [w \in Worker |-> 0]
  /\ outcome = "none"
  /\ asked = {} /\ failed = {} /\ offered = {Self} /\ sawValue = FALSE
  /\ acked = {} /\ stored = {}

(***************************************************************************)
(* doSetValueSelfSearch: SetValue returns if the node has a value for the  *)
(* key or the request is invalid.                                          *)
(***************************************************************************)
SelfSearchEnds ==
  /\ main = "start"
  /\ main' = "returned"
  /\ outcome' \in {"alreadySet", "error"}
  /\ UNCHANGED <<peerstore, seed, pc, found, search, errors, storing>>

SelfSearch ==
  /\ main = "start"
  /\ main' = "seed"
  /\ seed' \in OwnAnswers
  /\ UNCHANGED <<peerstore, pc, outcome, found, search, errors, storing>>

(* Mutants of Stops: the ID is not compared, a closer peer does not        *)
(* replace a farther one, and a farther one replaces a closer.             *)
StopsSame(p, i) == slots[i] # nil => dist[p] < dist[slots[i]]

StopsEmpty(p, i) == slots[i] \in {nil, p}

StopsFarther(p, i) == slots[i] \notin {nil, p} => dist[p] > dist[slots[i]]

(***************************************************************************)
(* addSearchNodeIfCloser for one peer: it looks for the first slot that is *)
(* empty, holds the peer already, or holds a farther peer.  In the last    *)
(* case the farther peer is dropped.                                       *)
(***************************************************************************)
Stops(p, i) == slots[i] \notin {nil, p} => dist[p] < dist[slots[i]]

(* Mutant of PutInto: the new peer inherits the mark. *)
PutIntoMarked(p, i) ==
  /\ Stops(p, i)
  /\ \A j \in Slots : j < i => ~Stops(p, j)
  /\ slots[i] # p
  /\ slots' = [slots EXCEPT ![i] = p]
  /\ offered' = offered \cup {p}
  /\ UNCHANGED marked

PutInto(p, i) ==
  /\ Stops(p, i)
  /\ \A j \in Slots : j < i => ~Stops(p, j)
  /\ slots[i] # p
  /\ slots' = [slots EXCEPT ![i] = p]
  /\ marked' = [marked EXCEPT ![i] = FALSE]
  /\ offered' = offered \cup {p}

NotPut(p) ==
  /\ \A i \in Slots :
       Stops(p, i) /\ (\A j \in Slots : j < i => ~Stops(p, j)) => slots[i] = p
  /\ offered' = offered \cup {p}
  /\ UNCHANGED <<slots, marked>>

(* The node's own peers, before the workers start. *)
Seed ==
  /\ main = "seed"
  /\ \E p \in seed :
       /\ Nearest(p, seed)
       /\ (\E i \in Slots : PutInto(p, i)) \/ NotPut(p)
       /\ seed' = seed \ {p}
  /\ UNCHANGED <<peerstore, main, pc, outcome, lock, search, errors, storing>>

StartSearch ==
  /\ main = "seed"
  /\ seed = {}
  /\ main' = "search"
  /\ pc' = [w \in Worker |-> "check"]
  /\ UNCHANGED <<peerstore, seed, outcome, found, search, errors, storing>>

(***************************************************************************)
(* A worker of findStorersInNetwork.                                       *)
(***************************************************************************)
(* The variables of one pass of the loop end with it. *)
EndPass(w) ==
  /\ ptr' = [ptr EXCEPT ![w] = 1]
  /\ target' = [target EXCEPT ![w] = Self]
  /\ added' = [added EXCEPT ![w] = FALSE]

Check(w) ==
  /\ pc[w] = "check"
  /\ Goto(w, IF termenatingErr \/ isDone THEN "stopped" ELSE "pick")
  /\ UNCHANGED <<peerstore, main, seed, outcome, found, search, errors, storing>>

(* getClosestNode: the farthest peer that is not marked. *)
Unmarked == {i \in Slots : slots[i] # nil /\ ~marked[i]}

Pick(w) ==
  /\ pc[w] = "pick"
  /\ lock = nil
  /\ \E i \in Unmarked :
       /\ \A j \in Unmarked : dist[slots[j]] <= dist[slots[i]]
       /\ ptr' = [ptr EXCEPT ![w] = i]
  /\ Goto(w, "mark")
  /\ UNCHANGED <<peerstore, main, seed, outcome, found, target, new, added,
                 termenatingErr, isDone, asked, failed, sawValue, errors, storing>>

PickNone(w) ==
  /\ pc[w] = "pick"
  /\ lock = nil
  /\ Unmarked = {}
  /\ Goto(w, "stopped")
  /\ UNCHANGED <<peerstore, main, seed, outcome, found, search, errors, storing>>

(* Without the mutex: the slot is marked, then its peer is read. *)
Mark(w) ==
  /\ pc[w] = "mark"
  /\ marked' = [marked EXCEPT ![ptr[w]] = TRUE]
  /\ Goto(w, "read")
  /\ UNCHANGED <<peerstore, main, seed, outcome, slots, lock, offered, search,
                 errors, storing>>

ReadPeer(w) ==
  /\ pc[w] = "read"
  /\ target' = [target EXCEPT ![w] = slots[ptr[w]]]
  /\ Goto(w, "ask")
  /\ UNCHANGED <<peerstore, main, seed, outcome, found, ptr, new, added,
                 termenatingErr, isDone, asked, failed, sawValue, errors, storing>>

(* The request fails with an error that isExpectedKDMError accepts. *)
AskFails(w) ==
  /\ pc[w] = "ask"
  /\ asked' = asked \cup {target[w]}
  /\ failed' = failed \cup {target[w]}
  /\ Goto(w, "blame")
  /\ UNCHANGED <<peerstore, main, seed, outcome, found, ptr, target, new, added,
                 termenatingErr, isDone, sawValue, errors, storing>>

(* It returns a value, or fails in any other way (a refused ID included,   *)
(* after which some of the answered peers are in the peer store).          *)
AskAborts(w) ==
  /\ pc[w] = "ask"
  /\ asked' = asked \cup {target[w]}
  /\ \/ /\ sawValue' = TRUE
        /\ UNCHANGED peerstore
     \/ /\ \E S \in Answers : peerstore' \in AddedTo(peerstore, S)
        /\ UNCHANGED sawValue
  /\ Goto(w, "abort")
  /\ UNCHANGED <<main, seed, outcome, found, ptr, target, new, added,
                 termenatingErr, isDone, failed, errors, storing>>

(* It returns peers, and all of them go to the peer store first. *)
AskLearns(w) ==
  /\ pc[w] = "ask"
  /\ asked' = asked \cup {target[w]}
  /\ \E S \in Answers :
       /\ peerstore' \in AddedTo(peerstore, S)
       /\ new' = [new EXCEPT ![w] = S]
       /\ Goto(w, IF S = {} THEN "quit" ELSE "offer")
  /\ added' = [added EXCEPT ![w] = FALSE]
  /\ UNCHANGED <<main, seed, outcome, found, ptr, target, termenatingErr, isDone,
                 failed, sawValue, errors, storing>>

(* errorCollection = append(errorCollection, errorPeer{err, nodeContacted.peer}) *)
(* reads the slot and the slice, and writes the slice, without a lock.     *)
Blame(w) ==
  /\ pc[w] = "blame"
  /\ header' = [header EXCEPT ![w] = errorCollection]
  /\ blamed' = [blamed EXCEPT ![w] = slots[ptr[w]]]
  /\ Goto(w, "append")
  /\ UNCHANGED <<peerstore, main, seed, outcome, found, search, errorCollection, torn,
                 storing>>

(* The write of another worker may be under way: then the pointer of one   *)
(* and the length of the other may remain.                                 *)
AppendError(w) ==
  /\ pc[w] = "append"
  /\ errorCollection' = header[w] \cup {blamed[w]}
  /\ \/ UNCHANGED torn
     \/ /\ \E u \in Worker \ {w} : pc[u] = "append"
        /\ torn' = TRUE
  /\ header' = [header EXCEPT ![w] = {}]
  /\ blamed' = [blamed EXCEPT ![w] = Self]
  /\ EndPass(w)
  /\ Goto(w, "check")
  /\ UNCHANGED <<peerstore, main, seed, outcome, found, new, termenatingErr, isDone,
                 asked, failed, sawValue, storing>>

Abort(w) ==
  /\ pc[w] = "abort"
  /\ termenatingErr' = TRUE
  /\ EndPass(w)
  /\ Goto(w, "stopped")
  /\ UNCHANGED <<peerstore, main, seed, outcome, found, new, isDone, asked, failed,
                 sawValue, errors, storing>>

(* addSearchNodeIfCloser offers the peers one by one and holds the mutex   *)
(* until the last of them.                                                 *)
Offer(w) ==
  /\ pc[w] = "offer"
  /\ lock \in {nil, w}
  /\ \E p \in new[w] :
       /\ Nearest(p, new[w])
       /\ \/ /\ \E i \in Slots : PutInto(p, i)
             /\ added' = [added EXCEPT ![w] = TRUE]
          \/ /\ NotPut(p)
             /\ UNCHANGED added
       /\ new' = [new EXCEPT ![w] = new[w] \ {p}]
  /\ lock' = w
  /\ Goto(w, IF new'[w] = {} THEN "offered" ELSE "offer")
  /\ UNCHANGED <<peerstore, main, seed, outcome, ptr, target, termenatingErr, isDone,
                 asked, failed, sawValue, errors, storing>>

Unlock(w) ==
  /\ pc[w] = "offered"
  /\ lock' = nil
  /\ Goto(w, IF added[w] THEN "check" ELSE "quit")
  /\ EndPass(w)
  /\ UNCHANGED <<peerstore, main, seed, outcome, slots, marked, offered, new,
                 termenatingErr, isDone, asked, failed, sawValue, errors, storing>>

(* No new node was closer: the search is over for everyone. *)
Quit(w) ==
  /\ pc[w] = "quit"
  /\ isDone' = TRUE
  /\ EndPass(w)
  /\ Goto(w, "stopped")
  /\ UNCHANGED <<peerstore, main, seed, outcome, found, new, termenatingErr, asked, failed,
                 sawValue, errors, storing>>

(***************************************************************************)
(* All workers are done.  termenatingErr is not looked at any more: the    *)
(* nodes in the slots up to the first empty one are the storers.           *)
(***************************************************************************)
Storers == {i \in Slots : \A j \in Slots : j <= i => slots[j] # nil}
NumFound == Cardinality(Storers)

SearchEnds ==
  /\ main = "search"
  /\ AllStopped
  /\ IF NumFound < MinNumStores
       THEN main' = "returned" /\ outcome' = "tooFewFound"
       ELSE main' = "remove" /\ UNCHANGED outcome
  /\ UNCHANGED <<peerstore, seed, pc, found, search, errors, storing>>

(* RemovePeer for every collected error; then the workers of               *)
(* setValueInPeers start.  A torn slice is read past its end.              *)
RemoveNonresponders ==
  /\ main = "remove"
  /\ \/ /\ peerstore' = peerstore \ errorCollection
        /\ main' = "store"
        /\ pc' = [w \in Worker |-> "receive"]
        /\ UNCHANGED outcome
     \/ /\ torn
        /\ main' = "returned"
        /\ outcome' = "panic"
        /\ UNCHANGED <<peerstore, pc>>
  /\ UNCHANGED <<seed, found, search, errors, storing>>

(***************************************************************************)
(* setValueInPeers: the storers go through an unbuffered channel.          *)
(***************************************************************************)
Receive(w) ==
  /\ pc[w] = "receive"
  /\ cursor + 1 \in Storers
  /\ cursor' = cursor + 1
  /\ target' = [target EXCEPT ![w] = slots[cursor + 1]]
  /\ Goto(w, "store")
  /\ UNCHANGED <<peerstore, main, seed, outcome, found, ptr, new, added, termenatingErr,
                 isDone, asked, failed, sawValue, errors, failedStored, length, acked,
                 stored>>

(* Mutant of ReceiveNone: the channel is never closed. *)
ReceiveNever(w) == pc[w] = "receive" /\ FALSE /\ UNCHANGED vars

(* The channel is closed. *)
ReceiveNone(w) ==
  /\ pc[w] = "receive"
  /\ cursor + 1 \notin Storers
  /\ Goto(w, "stopped")
  /\ UNCHANGED <<peerstore, main, seed, outcome, found, search, errors, storing>>

StoreOK(w) ==
  /\ pc[w] = "store"
  /\ acked' = acked \cup {target[w]}
  /\ stored' = stored \cup {target[w]}
  /\ EndPass(w)
  /\ Goto(w, "receive")
  /\ UNCHANGED <<peerstore, main, seed, outcome, found, new, termenatingErr, isDone, asked,
                 failed, sawValue, errors, cursor, failedStored, length>>

(* The request fails, before or after the peer has stored the value; the   *)
(* worker reads the length of failedStored to append to it.                *)
StoreFails(w) ==
  /\ pc[w] = "store"
  /\ stored' \in {stored, stored \cup {target[w]}}
  /\ length' = [length EXCEPT ![w] = failedStored]
  /\ EndPass(w)
  /\ Goto(w, "appendFailed")
  /\ UNCHANGED <<peerstore, main, seed, outcome, found, new, termenatingErr, isDone, asked,
                 failed, sawValue, errors, cursor, failedStored, acked>>

(* failedStored has room for every storer, so only its length changes. *)
AppendFailed(w) ==
  /\ pc[w] = "appendFailed"
  /\ failedStored' = length[w] + 1
  /\ length' = [length EXCEPT ![w] = 0]
  /\ Goto(w, "receive")
  /\ UNCHANGED <<peerstore, main, seed, outcome, found, search, errors, cursor, acked,
                 stored>>

(* Mutant of Return: MinNumStores itself does not suffice. *)
ReturnStrict ==
  /\ main = "store"
  /\ AllStopped
  /\ main' = "returned"
  /\ outcome' = IF NumFound <= MinNumStores + failedStored THEN "tooFewStored" ELSE "ok"
  /\ UNCHANGED <<peerstore, seed, pc, found, search, errors, storing>>

Return ==
  /\ main = "store"
  /\ AllStopped
  /\ main' = "returned"
  /\ outcome' = IF NumFound < MinNumStores + failedStored THEN "tooFewStored" ELSE "ok"
  /\ UNCHANGED <<peerstore, seed, pc, found, search, errors, storing>>

(* The requests that the network answers. *)
Answer(w) == AskFails(w) \/ AskAborts(w) \/ AskLearns(w) \/ StoreOK(w) \/ StoreFails(w)

(* The steps a worker takes by itself. *)
WorkerStep(w) ==
  \/ Check(w)
  \/ Pick(w)
  \/ PickNone(w)
  \/ Mark(w)
  \/ ReadPeer(w)
  \/ Blame(w)
  \/ AppendError(w)
  \/ Abort(w)
  \/ Offer(w)
  \/ Unlock(w)
  \/ Quit(w)
  \/ Receive(w)
  \/ ReceiveNone(w)
  \/ AppendFailed(w)

MainStep ==
  \/ SelfSearch
  \/ Seed
  \/ StartSearch
  \/ SearchEnds
  \/ RemoveNonresponders
  \/ Return

Next ==
  \/ SelfSearchEnds
  \/ MainStep
  \/ \E w \in Worker : WorkerStep(w) \/ Answer(w)

(* Goroutines that can run do run; nothing is assumed of the network. *)
Fairness ==
  /\ WF_vars(MainStep)
  /\ \A w \in Worker : WF_vars(WorkerStep(w))

Spec == Init /\ [][Next]_vars /\ Fairness

-----------------------------------------------------------------------------
(***************************************************************************)
(* Properties                                                              *)
(***************************************************************************)
(* No worker follows a pointer to an empty slot, neither to ask nor to     *)
(* blame its peer, and only other nodes are in the peer store.             *)
TypeOK ==
  /\ peerstore \subseteq Peer \ {Self}
  /\ slots \in [Slots -> Peer \cup {nil}] /\ marked \in [Slots -> BOOLEAN]
  /\ lock \in Worker \cup {nil}
  /\ main \in {"start", "seed", "search", "remove", "store", "returned"}
  /\ seed \subseteq Peer
  /\ pc \in [Worker -> {"idle", "check", "pick", "mark", "read", "ask", "blame", "append",
                        "abort", "offer", "offered", "quit", "stopped", "receive", "store",
                        "appendFailed"}]
  /\ ptr \in [Worker -> Slots]
  /\ target \in [Worker -> Peer]
  /\ new \in [Worker -> SUBSET Peer]
  /\ added \in [Worker -> BOOLEAN]
  /\ termenatingErr \in BOOLEAN /\ isDone \in BOOLEAN
  /\ errorCollection \subseteq Peer /\ torn \in BOOLEAN
  /\ header \in [Worker -> SUBSET Peer]
  /\ blamed \in [Worker -> Peer]
  /\ cursor \in Nat /\ failedStored \in Nat
  /\ length \in [Worker -> Nat]
  /\ outcome \in {"none", "ok", "alreadySet", "error", "panic", "tooFewFound",
                  "tooFewStored"}
  /\ asked \subseteq Peer /\ failed \subseteq Peer /\ offered \subseteq Peer
  /\ sawValue \in BOOLEAN
  /\ acked \subseteq Peer /\ stored \subseteq Peer

(* The storers fill the first slots and are closer to the key the earlier  *)
(* they come, so no node is a storer twice and MinNumStores storers are    *)
(* that many nodes: replacing a slot by a closer peer keeps the order.     *)
StorersSorted ==
  \A i, j \in Slots :
    i < j /\ slots[j] # nil => slots[i] # nil /\ dist[slots[i]] < dist[slots[j]]

(* Of all the nodes the search heard of, the closest one is the first      *)
(* storer: the replacements never lose it.                                 *)
ClosestKept ==
  /\ slots[1] # nil
  /\ \A p \in offered : dist[slots[1]] <= dist[p]

(* A slot may have been given to another peer when a failed request is     *)
(* blamed on it, but only to a closer one: whoever is removed from the     *)
(* peer store is at most as far as a peer that did fail.                   *)
BlameBounded ==
  \A p \in errorCollection : \E q \in failed : dist[p] <= dist[q]

(* If the search ran out of nodes to ask, every storer was asked: no mark  *)
(* on a slot outlives the peer it was meant for.                           *)
StorersAsked ==
  main \in {"remove", "store"} /\ ~isDone /\ ~termenatingErr =>
    \A i \in Slots : slots[i] # nil => slots[i] \in asked

(* SetValue does not report a failure when enough storers have confirmed   *)
(* the value: unlocked appends lose failures, never confirmations.         *)
NoSpuriousFailure == outcome = "tooFewStored" => Cardinality(acked) < MinNumStores

(* SetValue returns, if every request of every worker returns.             *)
RequestsReturn == \A w \in Worker : []<>(pc[w] \notin {"ask", "store"})
Terminates == RequestsReturn => <>(main = "returned")

(* MinNumStores is "The minimum amount of nodes that need to store a value *)
(* for a set opporation to be seen as succsesful".                         *)
MinStoresHeld == outcome = "ok" => Cardinality(stored) >= MinNumStores

(* ErrAllreadySet, "a value with this key is allredy set in the DHT": a    *)
(* set does not succeed after a node answered with a value for the key.    *)
AlreadySetReported == sawValue => outcome # "ok"
=============================================================================

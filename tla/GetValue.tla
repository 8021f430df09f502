------------------------------- MODULE GetValue -------------------------------
(***************************************************************************)
(* DHT.GetValue (kademila/kadmilla.go): several workers walk the network   *)
(* from a shared list of peers to ask, until one of them is given a value, *)
(* meets an error that ends the lookup, or no listed peer is left to ask.  *)
(*                                                                         *)
(* What the other nodes answer is arbitrary: any value, any list of peers, *)
(* any error.  The list is kept under a mutex, but the mark that a peer    *)
(* is being asked is written through a pointer without it, so another      *)
(* worker may pick the same peer first, and the mark may go to an array    *)
(* that append has replaced.                                               *)
(*                                                                         *)
(* addSearchNode lists an ID once, so an entry of the list is named by its *)
(* peer; the order of the entries does not matter to the code.             *)
(***************************************************************************)
EXTENDS Naturals, FiniteSets

CONSTANTS Peer,            \* the nodes of the network
          Self,            \* the node that runs GetValue
          Value,           \* what may be stored under the key
          dist,            \* the distance of each peer to the key
          Worker,          \* NumWorkersGet goroutines
          NumPeerReturned, \* the peers a node returns at most
          bucketPos, k     \* the buckets of this node's peer store

Special == {"none", "notFound", "error"}

ASSUME GetValueAssumption ==
  /\ Self \in Peer
  /\ Value \cap Special = {}
  /\ dist \in [Peer -> Nat]
  /\ \A p, q \in Peer : dist[p] = dist[q] => p = q
  /\ Worker # {}

VARIABLES peerstore,       \* the peers this node knows
          listed,          \* the peers of searchNodes.nodes
          searchDone,      \* those whose entry is marked
          array,           \* how often append has replaced the array
          pc,              \* what each worker is about to do
          cur,             \* the peer of the entry a worker has picked
          seenArray,       \* the array that entry was in
          new,             \* the answered peers a worker has yet to list
          fin,             \* the final result a worker is about to publish
          res,             \* the shared final result
          errorCollection, \* the peers whose request failed
          outcome,         \* what GetValue returned, "none" before
          named,           \* history: every peer an accepted answer named
          answered,        \* history: every peer whose answer was accepted
          found            \* history: every value that was answered

list == <<listed, searchDone, array>>
local == <<pc, cur, seenArray, new, fin>>
history == <<named, answered, found>>
vars == <<peerstore, list, local, res, errorCollection, outcome, history>>

AllDone == \A w \in Worker : pc[w] = "stopped"

(***************************************************************************)
(* The peer store seen from here.  Adding a set of peers stores each of    *)
(* them unless it is this node or its bucket is full (ErrNoSpaceToStorePeer*)
(* is ignored), in any order.                                              *)
(***************************************************************************)
InBucket(ps, b) == {p \in ps : bucketPos[p] = b}

(* Mutant of AddedTo: the node itself is added too. *)
AddedToWithSelf(ps, S) == {ps \cup S}

AddedTo(ps, S) ==
  {ps \cup T : T \in {T \in SUBSET (S \ {Self}) :
     \A p \in S \ {Self} :
       LET filled == Cardinality(InBucket(ps \cup T, bucketPos[p]))
       IN  IF p \in T \ ps THEN filled <= k ELSE p \in ps \/ filled >= k}}

(* An answer of the own store: some of the known peers, the closest among  *)
(* them (PeerStore!ClosestFirst).                                          *)
OwnAnswers ==
  {S \in SUBSET peerstore :
     /\ Cardinality(S) <= NumPeerReturned
     /\ NumPeerReturned > 0 => \A p \in peerstore : \E q \in S : dist[q] <= dist[p]}

(* What a node answers. *)
Answers == {S \in SUBSET Peer : Cardinality(S) <= NumPeerReturned}

(* The slice literal has room for one entry, and append doubles the room. *)
Reallocates(n) == \E i \in 0 .. n : n = 2 ^ i

Init ==
  /\ peerstore \in SUBSET (Peer \ {Self})
  /\ \A b \in {bucketPos[p] : p \in Peer} : Cardinality(InBucket(peerstore, b)) <= k
  /\ listed = {} /\ searchDone = {} /\ array = 0
  /\ pc = [w \in Worker |-> "idle"]
  /\ cur = [w \in Worker |-> Self]
  /\ seenArray = [w \in Worker |-> 0]
  /\ new = [w \in Worker |-> {}]
  /\ fin = [w \in Worker |-> "none"]
  /\ res = "none"
  /\ errorCollection = {}
  /\ outcome = "none"
  /\ named = {} /\ answered = {} /\ found = {}

(***************************************************************************)
(* The node searches itself, and returns if that gives a value or an       *)
(* error (a key of the wrong length); otherwise it lists itself and the    *)
(* peers it knows, and starts the workers.                                 *)
(***************************************************************************)
SelfSearchEnds ==
  /\ \A w \in Worker : pc[w] = "idle"
  /\ outcome = "none"
  /\ outcome' \in Value \cup {"error"}
  /\ UNCHANGED <<peerstore, list, local, res, errorCollection, history>>

SelfSearch ==
  /\ \A w \in Worker : pc[w] = "idle"
  /\ outcome = "none"
  /\ \E S \in OwnAnswers : listed' = {Self} \cup S
  /\ named' = listed'
  /\ pc' = [w \in Worker |-> "check"]
  /\ UNCHANGED <<peerstore, searchDone, array, cur, seenArray, new, fin, res,
                 errorCollection, outcome, answered, found>>

(* The head of the loop reads the shared result without the mutex. *)
Check(w) ==
  /\ pc[w] = "check"
  /\ pc' = [pc EXCEPT ![w] = IF res # "none" THEN "stopped" ELSE "pick"]
  /\ UNCHANGED <<peerstore, list, cur, seenArray, new, fin, res,
                 errorCollection, outcome, history>>

(* getClosestNode, under the mutex of the list: it keeps the entry with    *)
(* the largest distance among those not marked.                            *)
Chosen(p) ==
  /\ p \in listed \ searchDone
  /\ \A q \in listed \ searchDone : dist[q] <= dist[p]

Pick(w) ==
  /\ pc[w] = "pick"
  /\ \E p \in listed :
       /\ Chosen(p)
       /\ cur' = [cur EXCEPT ![w] = p]
  /\ seenArray' = [seenArray EXCEPT ![w] = array]
  /\ pc' = [pc EXCEPT ![w] = "mark"]
  /\ UNCHANGED <<peerstore, list, new, fin, res, errorCollection, outcome, history>>

(* getClosestNode returns ErrNotFound: nothing is left to ask. *)
PickNone(w) ==
  /\ pc[w] = "pick"
  /\ listed \subseteq searchDone
  /\ pc' = [pc EXCEPT ![w] = "stopped"]
  /\ UNCHANGED <<peerstore, list, cur, seenArray, new, fin, res,
                 errorCollection, outcome, history>>

(* Mutant of Mark: no entry is ever marked. *)
MarkNothing(w) ==
  /\ pc[w] = "mark"
  /\ pc' = [pc EXCEPT ![w] = "ask"]
  /\ UNCHANGED <<peerstore, list, cur, seenArray, new, fin, res,
                 errorCollection, outcome, history>>

(* node.searchDone = true, outside the mutex: lost if append has copied    *)
(* the entries since the pointer was taken.                                *)
Mark(w) ==
  /\ pc[w] = "mark"
  /\ searchDone' = IF seenArray[w] = array THEN searchDone \cup {cur[w]} ELSE searchDone
  /\ pc' = [pc EXCEPT ![w] = "ask"]
  /\ UNCHANGED <<peerstore, listed, array, cur, seenArray, new, fin, res,
                 errorCollection, outcome, history>>

(***************************************************************************)
(* The request returns.                                                    *)
(***************************************************************************)

(* Worker w will publish r as the final result. *)
Publish(w, r) ==
  /\ fin' = [fin EXCEPT ![w] = r]
  /\ pc' = [pc EXCEPT ![w] = "finish"]

(* An error that isExpectedKDMError accepts. *)
AskFails(w) ==
  /\ pc[w] = "ask"
  /\ pc' = [pc EXCEPT ![w] = "collect"]
  /\ UNCHANGED <<peerstore, list, cur, seenArray, new, fin, res,
                 errorCollection, outcome, history>>

(* Any other error of the request. *)
AskAborts(w) ==
  /\ pc[w] = "ask"
  /\ Publish(w, "error")
  /\ UNCHANGED <<peerstore, list, cur, seenArray, new, res,
                 errorCollection, outcome, history>>

AskFinds(w) ==
  /\ pc[w] = "ask"
  /\ \E v \in Value :
       /\ Publish(w, v)
       /\ found' = found \cup {v}
  /\ UNCHANGED <<peerstore, list, cur, seenArray, new, res,
                 errorCollection, outcome, named, answered>>

(* A list of peers; all go to the peer store first. *)
AskLearns(w) ==
  /\ pc[w] = "ask"
  /\ \E S \in Answers :
       /\ peerstore' \in AddedTo(peerstore, S)
       /\ new' = [new EXCEPT ![w] = S]
       /\ named' = named \cup S
       /\ pc' = [pc EXCEPT ![w] = IF S = {} THEN "check" ELSE "list"]
  /\ answered' = answered \cup {cur[w]}
  /\ UNCHANGED <<list, cur, seenArray, fin, res, errorCollection, outcome, found>>

(* A list with an ID of the wrong length, which the peer store refuses     *)
(* after the peers before it were added.                                   *)
AskRefused(w) ==
  /\ pc[w] = "ask"
  /\ \E S \in Answers : peerstore' \in AddedTo(peerstore, S)
  /\ Publish(w, "error")
  /\ UNCHANGED <<list, cur, seenArray, new, res, errorCollection, outcome, history>>

-----------------------------------------------------------------------------
(* Mutant of Collect: the error is forgotten. *)
CollectNothing(w) ==
  /\ pc[w] = "collect"
  /\ pc' = [pc EXCEPT ![w] = "check"]
  /\ UNCHANGED <<peerstore, list, cur, seenArray, new, fin, res, errorCollection, outcome,
                 history>>

Collect(w) ==
  /\ pc[w] = "collect"
  /\ errorCollection' = errorCollection \cup {cur[w]}
  /\ pc' = [pc EXCEPT ![w] = "check"]
  /\ UNCHANGED <<peerstore, list, cur, seenArray, new, fin, res, outcome, history>>

(* Mutant of Finish: only an error is published. *)
FinishErrors(w) ==
  /\ pc[w] = "finish"
  /\ res' = IF res = "none" /\ fin[w] = "error" THEN fin[w] ELSE res
  /\ pc' = [pc EXCEPT ![w] = "stopped"]
  /\ UNCHANGED <<peerstore, list, cur, seenArray, new, fin,
                 errorCollection, outcome, history>>

(* The first worker to get here sets the result. *)
Finish(w) ==
  /\ pc[w] = "finish"
  /\ res' = IF res = "none" THEN fin[w] ELSE res
  /\ pc' = [pc EXCEPT ![w] = "stopped"]
  /\ UNCHANGED <<peerstore, list, cur, seenArray, new, fin,
                 errorCollection, outcome, history>>

(* The list has no empty entry, so the whole of it is compared. *)
peerAllreadyAdded(p) == p \in listed

(* addSearchNode for one of the new peers, under the mutex of the list. *)
AddSearchNode(w) ==
  /\ pc[w] = "list"
  /\ \E p \in new[w] :
       /\ listed' = listed \cup {p}
       /\ array' = IF ~peerAllreadyAdded(p) /\ Reallocates(Cardinality(listed))
                     THEN array + 1 ELSE array
       /\ new' = [new EXCEPT ![w] = new[w] \ {p}]
       /\ pc' = [pc EXCEPT ![w] = IF new[w] = {p} THEN "check" ELSE "list"]
  /\ UNCHANGED <<peerstore, searchDone, cur, seenArray, fin, res,
                 errorCollection, outcome, history>>

(* wg.Wait returns. *)
Return ==
  /\ AllDone
  /\ outcome = "none"
  /\ outcome' = IF res = "none" THEN "notFound" ELSE res
  /\ UNCHANGED <<peerstore, list, local, res, errorCollection, history>>

(* The request of worker w returns in one of these ways. *)
Answer(w) ==
  \/ AskFails(w)
  \/ AskAborts(w)
  \/ AskFinds(w)
  \/ AskLearns(w)
  \/ AskRefused(w)

(* The steps a worker takes by itself. *)
WorkerStep(w) ==
  \/ Check(w)
  \/ Pick(w)
  \/ PickNone(w)
  \/ Mark(w)
  \/ Collect(w)
  \/ Finish(w)
  \/ AddSearchNode(w)

Next ==
  \/ SelfSearchEnds
  \/ SelfSearch
  \/ \E w \in Worker : WorkerStep(w) \/ Answer(w)
  \/ Return

(* Goroutines that can run do run; whether a request returns is up to the  *)
(* network, so nothing is assumed of Answer.                               *)
Fairness ==
  /\ WF_vars(SelfSearch)
  /\ WF_vars(Return)
  /\ \A w \in Worker : WF_vars(WorkerStep(w))

Spec == Init /\ [][Next]_vars /\ Fairness

-----------------------------------------------------------------------------
(***************************************************************************)
(* Properties                                                              *)
(***************************************************************************)
(* Only other nodes are in the peer store, and the shared result is a      *)
(* value or an error.                                                      *)
TypeOK ==
  /\ peerstore \subseteq Peer \ {Self}
  /\ listed \subseteq Peer /\ searchDone \subseteq Peer /\ array \in Nat
  /\ pc \in [Worker -> {"idle", "check", "pick", "mark", "ask", "collect",
                        "finish", "list", "stopped"}]
  /\ cur \in [Worker -> Peer]
  /\ seenArray \in [Worker -> Nat]
  /\ new \in [Worker -> SUBSET Peer]
  /\ fin \in [Worker -> Value \cup {"none", "error"}]
  /\ res \in Value \cup {"none", "error"}
  /\ errorCollection \subseteq Peer
  /\ outcome \in Value \cup Special
  /\ named \subseteq Peer /\ answered \subseteq Peer /\ found \subseteq Value

(* GetValue returns ErrNotFound only after the whole reachable network was *)
(* asked: every peer it knew or was told of has either given an answer     *)
(* that was taken over or is in the errors reported with the result.       *)
(* Workers that stop early, marks that are lost and peers that are asked   *)
(* twice do not leave anyone out.                                          *)
NotFoundIsExhaustive ==
  outcome = "notFound" => named \subseteq answered \cup errorCollection

(* A value that any peer answered is not lost between the workers: the     *)
(* lookup then ends with a value or with the error that came first.        *)
ValueNotLost == found # {} => outcome # "notFound"

(* The lookup ends, if every request of every worker returns in some way.  *)
(* A peer that never answers and keeps its connection open blocks the      *)
(* worker, and GetValue with it: no deadline is set on the connection.     *)
RequestsReturn == \A w \in Worker : []<>(pc[w] # "ask")
Terminates == RequestsReturn => <>(outcome # "none")
=============================================================================

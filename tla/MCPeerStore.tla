----------------------------- MODULE MCPeerStore -----------------------------
(***************************************************************************)
(* An instance of PeerStore with real two-byte IDs.  Three of them share   *)
(* the bucket of their first byte and compete for its slots; the fourth    *)
(* differs from nodeID in the bit of weight 8, where numEqualBitsPrefix    *)
(* looks at the second byte too.  Only the buckets that some ID falls into *)
(* are kept, in their order: the others stay empty for ever.               *)
(***************************************************************************)
EXTENDS PeerStore, FiniteSets, TLC
LOCAL INSTANCE KeySpace

MCnodeID == <<0, 0>>
MCID == {MCnodeID, <<0, 1>>, <<0, 2>>, <<0, 3>>, <<8, 128>>}
MCAlienID == {<<1>>}

(* The bucket indexes the instance uses, and the rank of one of them. *)
Used == {numEqualBitsPrefix(MCnodeID, id) : id \in MCID}
Rank(i) == Cardinality({j \in Used : j <= i})

MCNumBuckets == Cardinality(Used)
MCbucketPos == [id \in MCID |-> Rank(numEqualBitsPrefix(MCnodeID, id))]
MCdist == [id \in MCID |-> [key \in MCID |-> distenceBetween(id, key)]]
Threads == Permutations(Thread)
MCNumReturned == {0, 2}

(* NewStore makes len(nodeID) * 8 buckets, and AddPeer indexes them.       *)
ASSUME BucketInRange == Used \subseteq 0 .. 8 * Len(MCnodeID) - 1
=============================================================================

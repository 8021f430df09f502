------------------------------ MODULE MCSetValue ------------------------------
(***************************************************************************)
(* A network of three or four nodes around the key; the node that sets the *)
(* value is neither the closest nor the farthest.                          *)
(***************************************************************************)
EXTENDS SetValue, TLC
CONSTANTS p0, p1, p2, p3

MCdist == [p \in Peer |-> CASE p = p0 -> 2 [] p = p1 -> 1 [] p = p2 -> 3 [] p = p3 -> 4]
MCbucketPos == MCdist
Workers == Permutations(Worker)
=============================================================================

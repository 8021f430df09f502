------------------------------ MODULE MCGetValue ------------------------------
(***************************************************************************)
(* A network of four nodes: the one that searches, and three others of     *)
(* which two share a bucket with one slot.  Appending the second and the   *)
(* third entry to the list replaces its array.                             *)
(***************************************************************************)
EXTENDS GetValue, TLC
CONSTANTS p0, p1, p2, p3

MCPeer == {p0, p1, p2, p3}
MCdist == p0 :> 2 @@ p1 :> 1 @@ p2 :> 3 @@ p3 :> 4
MCbucketPos == p0 :> 1 @@ p1 :> 2 @@ p2 :> 2 @@ p3 :> 3
=============================================================================

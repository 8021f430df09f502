------------------------------- MODULE KeySpace -------------------------------
(***************************************************************************)
(* The arithmetic of IDs in dhtpeer: an ID is a sequence of bytes, its     *)
(* bucket is the length of the prefix it shares with nodeID and its        *)
(* distance to a key is their exclusive or read as a big-endian number.    *)
(* Only the model-checking instances use this module.                      *)
(***************************************************************************)
EXTENDS Integers, Sequences, FiniteSets, Bitwise, SequencesExt

(* bits.LeadingZeros8 *)
LeadingZeros8(byte) == Cardinality({j \in 0 .. 7 : byte < 2 ^ j})

(* numEqualBitsPrefix.  The loop goes on to the next byte only if the      *)
(* bytes differ in exactly the bit of weight 8 (the code tests the         *)
(* exclusive or, not the number of leading zeros, for 8).                  *)
numEqualBitsPrefix(a, b) ==
  LET cur(i) == a[i] ^^ b[i]
      read == {i \in DOMAIN b : \A j \in 1 .. i - 1 : cur(j) = 8}
      zeros(i) == IF i \in read THEN LeadingZeros8(cur(i)) ELSE 0
  IN  FoldLeftDomain(LAMBDA res, i : res + zeros(i), 0, b)

(* distenceBetween: SetBytes of the byte-wise exclusive or. *)
distenceBetween(id, key) ==
  FoldLeftDomain(LAMBDA d, i : 256 * d + (id[i] ^^ key[i]), 0, key)
=============================================================================

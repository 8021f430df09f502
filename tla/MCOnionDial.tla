----------------------------- MODULE MCOnionDial -----------------------------
(***************************************************************************)
(* Up to six relay servers and four attempts: circuits of up to five       *)
(* members, in which every place may fail on every attempt.                *)
(***************************************************************************)
EXTENDS OnionDial, TLC

(* The servers are only compared with each other.                          *)
ServerSymmetry == Permutations(Servers)
=============================================================================

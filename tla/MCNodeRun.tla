------------------------------ MODULE MCNodeRun ------------------------------
(***************************************************************************)
(* Three connections and two failures of Accept: enough for one connection *)
(* to wait behind another in every goroutine, and for two errors that no   *)
(* one reads.                                                              *)
(***************************************************************************)
EXTENDS NodeRun
=============================================================================

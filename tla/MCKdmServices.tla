---------------------------- MODULE MCKdmServices ----------------------------
(***************************************************************************)
(* Two requests to a node, for a key of the right length, which may have a *)
(* value from before, or for one of another length.                        *)
(***************************************************************************)
EXTENDS KdmServices
=============================================================================

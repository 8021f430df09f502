------------------------------- MODULE MCRelay -------------------------------
(***************************************************************************)
(* The target may send three messages, and the client has room for one     *)
(* before the end of a line: the response may come first, after a part of  *)
(* a line, after a whole line, too late, or not at all.  A connection      *)
(* takes two messages before a Write waits, so that the third one of the   *)
(* target waits, and so does the response after two that came early.  One  *)
(* message of the client is enough to be held while the target leaves.     *)
(***************************************************************************)
EXTENDS Relay
=============================================================================

------------------------------- MODULE Stream -------------------------------
(***************************************************************************)
(* What the users of a transport.Conn rely on (onion, proxy, the           *)
(* multiplexer, gob): a stream of bytes that come out in the order they    *)
(* went in, none missing and none added, and an end of stream that is only *)
(* seen after the last of them.  It may fail at any time.  A connection    *)
(* promises this for writes of at most limit bytes.  After a longer one    *)
(* bytes may be damaged, and they may be lost too unless keepsLength.      *)
(***************************************************************************)
EXTENDS Naturals, Sequences, SequencesExt

VARIABLES written,  \* the bytes handed to Write
          read,     \* the bytes Read has returned
          limit,    \* the longest write the connection carries intact
          keepsLength,  \* the bytes of a longer write are not lost
          intact,   \* no write was longer than that
          writer,   \* "open", "closed" or "crashed"
          reader    \* "open", "eof" or "error", the result of the last Read

vars == <<written, read, limit, keepsLength, intact, writer, reader>>

Init ==
  /\ written = <<>> /\ read = <<>>
  /\ limit \in Nat /\ keepsLength \in BOOLEAN /\ intact = TRUE
  /\ writer = "open" /\ reader = "open"

Write ==
  /\ writer = "open"
  /\ IsStrictPrefix(written, written')
  /\ intact' = (intact /\ Len(written') - Len(written) <= limit)
  /\ UNCHANGED <<read, limit, keepsLength, writer, reader>>

Finish ==
  /\ writer = "open"
  /\ writer' \in {"closed", "crashed"}
  /\ UNCHANGED <<written, read, limit, keepsLength, intact, reader>>

Read ==
  /\ reader = "open"
  /\ IsStrictPrefix(read, read')
  /\ intact => IsPrefix(read', written)
  /\ UNCHANGED <<written, limit, keepsLength, intact, writer, reader>>

Eof ==
  /\ reader = "open" /\ reader' = "eof"
  /\ writer # "open"
  /\ writer = "closed" =>
       /\ intact => read = written
       /\ keepsLength => Len(read) = Len(written)
  /\ UNCHANGED <<written, read, limit, keepsLength, intact, writer>>

Fail ==
  /\ reader = "open" /\ reader' = "error"
  /\ UNCHANGED <<written, read, limit, keepsLength, intact, writer>>

Next == Write \/ Finish \/ Read \/ Eof \/ Fail

Spec == Init /\ [][Next]_vars
=============================================================================

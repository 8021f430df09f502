---------------------------- MODULE MCPacketConn ----------------------------
(***************************************************************************)
(* A length of two bytes, packets of at most four bytes and a buffer of    *)
(* five: a message of six is split once and is one too long for the        *)
(* buffer, a message of nine is split twice, a read of the underlying      *)
(* connection may hold one packet and a part of the next one, and the      *)
(* buffer has to grow for the longest packet.                              *)
(***************************************************************************)
EXTENDS PacketConn

(* writeUread byte by byte, to compare with Kept and GrownLen.             *)
StoreByte(buffer, byte) ==
  IF Len(buffer.kept) >= buffer.len
    THEN [buffer EXCEPT !.len = @ + 1]
    ELSE [buffer EXCEPT !.kept = Append(@, byte)]

(* Kept and GrownLen are what the loop of writeUread computes.             *)
ASSUME WriteUreadLoop ==
  \A len \in 1 .. UnreadLen : \A n \in 0 .. 3 * UnreadLen :
    LET data == [i \in 1 .. n |-> i]
    IN  FoldLeft(StoreByte, [kept |-> <<>>, len |-> len], data)
          = [kept |-> Kept(len, data), len |-> GrownLen(len, data)]
=============================================================================

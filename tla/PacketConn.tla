----------------------------- MODULE PacketConn -----------------------------
(***************************************************************************)
(* One direction of a packet connection over TCP: the Write of one node,   *)
(* the bytes on their way, and the Read of the other.  Two connections of  *)
(* the program have this shape and share the buffer of unread bytes:       *)
(*   "encrypted"  transport/encrypted/conn.go, one gob message per Write;  *)
(*   "plain"      transport/transform/transform.go without a Transform, as *)
(*                the onion uses it, packets with a length in front;       *)
(*   "copying"    the same with a Transform that returns a new slice, as   *)
(*                the tests of the package use it.                         *)
(* The bytes written are 1, 2, 3, ..., so that a byte lost, repeated or    *)
(* out of place shows.                                                     *)
(***************************************************************************)
EXTENDS Naturals, Sequences, SequencesExt

CONSTANTS HeaderLen,    \* _lenPacketSize
          MaxPacket,    \* maxPacketSize
          UnreadLen,    \* the length NewConn gives to unread
          MessageLens,  \* the lengths of what is written
          ReadLens,     \* the lengths of the slices given to Read
          MaxBytes      \* a bound on the bytes written

ASSUME PacketConnAssumption ==
  /\ {HeaderLen, MaxPacket, UnreadLen, MaxBytes} \subseteq Nat \ {0}
  /\ MaxPacket >= 2 * HeaderLen - 1
  /\ UnreadLen >= HeaderLen
  /\ MessageLens \subseteq Nat \ {0} /\ ReadLens \subseteq Nat \ {0}

VARIABLES kind,       \* which of the connections
          parts,      \* what Write has still to send, cut into pieces
          wire,       \* the bytes under way
          writer,     \* "open", "closed" or "crashed"
          pc,         \* where Read is: "idle", "packet", or how it ended
          unread,     \* unread[unreadReadPos:unreadWritePos]
          unreadLen,  \* len(unread)
          got,        \* what of the current packet is in the buffer
          overflow,   \* packetOverflow[:packetOverflowWritten]
          written,    \* history: the bytes handed to Write
          read,       \* history: the bytes Read returned
          intact,     \* history: no write was longer than Limit
          cut         \* history: an underlying read ended within a length

buffers == <<unread, unreadLen, got, overflow>>
history == <<written, read, intact, cut>>
vars == <<kind, parts, wire, writer, pc, buffers, history>>

LesserOf(m, n) == IF m <= n THEN m ELSE n
GreaterOf(m, n) == IF m >= n THEN m ELSE n
From(s, i) == SubSeq(s, i, Len(s))

Init ==
  /\ kind \in {"encrypted", "plain", "copying"}
  /\ parts = <<>> /\ wire = <<>> /\ writer = "open" /\ pc = "idle"
  /\ unread = <<>> /\ unreadLen = UnreadLen
  /\ got = <<>> /\ overflow = <<>>
  /\ written = <<>> /\ read = <<>> /\ intact = TRUE /\ cut = FALSE

(***************************************************************************)
(* Write                                                                   *)
(***************************************************************************)
(* A packet on the wire: the bytes of its length, each with its place, and *)
(* the data.  The length in front of a gob message is gob's own.           *)
Packet(data) ==
  [i \in 1 .. HeaderLen |-> [place |-> i, val |-> Len(data)]]
    \o [i \in 1 .. Len(data) |-> [place |-> 0, val |-> data[i]]]

(* The longest write that arrives as it was sent.                          *)
Limit ==
  CASE kind = "encrypted" -> UnreadLen
    [] kind = "plain"     -> MaxPacket
    [] kind = "copying"   -> MaxBytes

Write(n) ==
  /\ writer = "open" /\ parts = <<>>
  /\ Len(written) + n <= MaxBytes
  /\ LET data == [i \in 1 .. n |-> Len(written) + i]
     IN  written' = written \o data /\ parts' = <<data>>
  /\ intact' = (intact /\ n <= Limit)
  /\ UNCHANGED <<kind, wire, writer, pc, buffers, read, cut>>

(* encrypted.Conn cuts the data to the size of the key, but sends all the  *)
(* pieces in one gob message.                                              *)
Fits == kind = "encrypted" \/ Len(Head(parts)) <= MaxPacket

(* What is too long for a packet is written in two halves.                 *)
Split ==
  /\ writer = "open" /\ parts # <<>> /\ ~Fits
  /\ LET mid == Len(Head(parts)) \div 2
     IN  parts' = <<SubSeq(Head(parts), 1, mid), From(Head(parts), mid + 1)>> \o Tail(parts)
  /\ UNCHANGED <<kind, wire, writer, pc, buffers, history>>

(* prependInt appends in place where there is room.  The halves share one  *)
(* array, so a half that is shifted to make room for its length pushes its *)
(* last bytes onto the first bytes of the next half.                       *)
Overwritten(sent, next) ==
  From(sent, Len(sent) - HeaderLen + 1) \o From(next, HeaderLen + 1)

Send ==
  /\ writer = "open" /\ parts # <<>> /\ Fits
  /\ wire' = wire \o Packet(Head(parts))
  /\ parts' = IF kind = "plain" /\ Len(parts) > 1
                THEN <<Overwritten(parts[1], parts[2])>> \o From(parts, 3)
                ELSE Tail(parts)
  /\ UNCHANGED <<kind, writer, pc, buffers, history>>

Close ==
  /\ writer = "open" /\ parts = <<>>
  /\ writer' = "closed"
  /\ UNCHANGED <<kind, parts, wire, pc, buffers, history>>

(* The node of the writer stops; what has not arrived may be lost.         *)
Crash ==
  /\ writer = "open"
  /\ writer' = "crashed" /\ parts' = <<>>
  /\ \E arrives \in 0 .. Len(wire) : wire' = SubSeq(wire, 1, arrives)
  /\ UNCHANGED <<kind, pc, buffers, history>>

(***************************************************************************)
(* The buffer of unread bytes                                              *)
(***************************************************************************)
(* writeUread fills the buffer; then it appends every second byte without  *)
(* moving the write position, where the next byte takes its place.         *)
Kept(len, data) ==
  IF Len(data) <= len
    THEN data
    ELSE SubSeq(data, 1, len) \o [i \in 1 .. (Len(data) - len) \div 2 |-> data[len + 2 * i]]

GrownLen(len, data) ==
  IF Len(data) <= len THEN len ELSE len + (Len(data) - len + 1) \div 2

readUnread(bytes) ==
  \E len \in ReadLens :
    LET n == LesserOf(len, Len(bytes))
    IN  read' = read \o SubSeq(bytes, 1, n) /\ unread' = From(bytes, n + 1)

(* writeUread and readUnread at the end of a Read that got a packet.       *)
ReturnPacket(packet) ==
  LET data == [i \in DOMAIN packet |-> packet[i].val]
  IN  readUnread(Kept(unreadLen, data)) /\ unreadLen' = GrownLen(unreadLen, data)

(***************************************************************************)
(* Read                                                                    *)
(***************************************************************************)
(* Bytes left from an earlier packet are returned first.                   *)
ReadUnread ==
  /\ pc = "idle" /\ unread # <<>>
  /\ readUnread(unread)
  /\ UNCHANGED <<kind, parts, wire, writer, pc, unreadLen, got, overflow, written, intact, cut>>

NeedsPacket == pc = "idle" /\ unread = <<>>

Complete(bytes) == Len(bytes) >= HeaderLen /\ Len(bytes) >= HeaderLen + bytes[1].val

(* encrypted.Conn.Read: the decoder waits for a whole message.             *)
ReadMessage ==
  /\ kind = "encrypted" /\ NeedsPacket
  /\ Complete(wire)
  /\ LET end == HeaderLen + wire[1].val
     IN  ReturnPacket(SubSeq(wire, HeaderLen + 1, end)) /\ wire' = From(wire, end + 1)
  /\ UNCHANGED <<kind, parts, writer, pc, got, overflow, written, intact, cut>>

(* Mutant of Receive: more is read than the buffer has room for.           *)
ReceiveAll(room, n) ==
  /\ n \in 1 .. Len(wire)
  /\ wire' = From(wire, n + 1)
  /\ cut' = (cut \/ (n < Len(wire) /\ wire[n + 1].place > 1))

(* transform.Conn.readLeastOnePacketIntoUnread: a read of the underlying   *)
(* connection returns as much of the stream as has come and as fits.       *)
Receive(room, n) ==
  /\ n \in 1 .. LesserOf(room, Len(wire))
  /\ wire' = From(wire, n + 1)
  /\ cut' = (cut \/ (n < Len(wire) /\ wire[n + 1].place > 1))

(* Mutant of Examine: a packet of the largest size is refused.             *)
ExamineStrict(bytes) ==
  LET refused == Len(bytes) < HeaderLen \/ bytes[1].val >= MaxPacket
  IN  /\ pc' = IF refused THEN "error" ELSE "packet"
      /\ got' = bytes
      /\ unreadLen' = IF refused THEN unreadLen
                                 ELSE GreaterOf(unreadLen, HeaderLen + bytes[1].val)

(* The length must be there as a whole and not exceed the largest packet;  *)
(* then the buffer is made large enough for the packet.                    *)
Examine(bytes) ==
  LET refused == Len(bytes) < HeaderLen \/ bytes[1].val > MaxPacket
  IN  /\ pc' = IF refused THEN "error" ELSE "packet"
      /\ got' = bytes
      /\ unreadLen' = IF refused THEN unreadLen
                                 ELSE GreaterOf(unreadLen, HeaderLen + bytes[1].val)

ReadFirst ==
  /\ kind # "encrypted" /\ NeedsPacket /\ overflow = <<>>
  /\ \E n \in 1 .. Len(wire) : Receive(unreadLen, n) /\ Examine(SubSeq(wire, 1, n))
  /\ UNCHANGED <<kind, parts, writer, unread, overflow, written, read, intact>>

(* Mutant of TakeOverflow: packetOverflowWritten is not reset.             *)
TakeOverflowAgain ==
  /\ kind # "encrypted" /\ NeedsPacket /\ overflow # <<>>
  /\ Examine(overflow)
  /\ UNCHANGED <<kind, parts, wire, writer, unread, overflow, history>>

TakeOverflow ==
  /\ kind # "encrypted" /\ NeedsPacket /\ overflow # <<>>
  /\ Examine(overflow)
  /\ overflow' = <<>>
  /\ UNCHANGED <<kind, parts, wire, writer, unread, history>>

ReadMore ==
  /\ pc = "packet" /\ ~Complete(got)
  /\ \E n \in 1 .. Len(wire) :
       Receive(unreadLen - Len(got), n) /\ got' = got \o SubSeq(wire, 1, n)
  /\ UNCHANGED <<kind, parts, writer, pc, unread, unreadLen, overflow, written, read, intact>>

(* Mutant of FinishPacket: what was read past the packet is forgotten.     *)
FinishPacketOnly ==
  /\ pc = "packet" /\ Complete(got)
  /\ ReturnPacket(SubSeq(got, HeaderLen + 1, HeaderLen + got[1].val))
  /\ pc' = "idle" /\ got' = <<>> /\ overflow' = <<>>
  /\ UNCHANGED <<kind, parts, wire, writer, written, intact, cut>>

(* What was read past the packet is kept for the next Read.                *)
FinishPacket ==
  /\ pc = "packet" /\ Complete(got)
  /\ LET end == HeaderLen + got[1].val
         rest == From(got, end + 1)
     IN  /\ ReturnPacket(SubSeq(got, HeaderLen + 1, end))
         /\ overflow' = IF rest = <<>> THEN overflow ELSE rest
  /\ pc' = "idle" /\ got' = <<>>
  /\ UNCHANGED <<kind, parts, wire, writer, written, intact, cut>>

(* No more bytes will come.  The decoder of gob tells an end within a      *)
(* message from one between two; transform.Conn does not.  A crash may     *)
(* also be seen as an error of the connection.                             *)
Starved ==
  CASE kind = "encrypted" -> NeedsPacket /\ ~Complete(wire)
    [] OTHER -> wire = <<>> /\ \/ NeedsPacket /\ overflow = <<>>
                               \/ pc = "packet" /\ ~Complete(got)

ReadEnds ==
  /\ writer # "open" /\ Starved
  /\ \/ pc' = IF wire = <<>> THEN "eof" ELSE "error"
     \/ writer = "crashed" /\ pc' = "error"
  /\ UNCHANGED <<kind, parts, wire, writer, buffers, history>>

Read == ReadUnread \/ ReadMessage \/ ReadFirst \/ TakeOverflow \/ ReadMore \/ FinishPacket
          \/ ReadEnds

Next ==
  \/ \E n \in MessageLens : Write(n)
  \/ Split \/ Send
  \/ Close
  \/ Crash
  \/ Read

(* The reader reads until Read fails, as the copying loops of the program  *)
(* do, and a Write that has begun goes on.                                 *)
Spec == Init /\ [][Next]_vars /\ WF_vars(Read) /\ WF_vars(Split \/ Send)

-----------------------------------------------------------------------------
(***************************************************************************)
(* Properties                                                              *)
(***************************************************************************)
(* The packet read so far fits into the buffer readLeastOnePacketIntoUnread *)
(* has made for it, and only transform.Conn keeps an overflow.             *)
TypeOK ==
  /\ kind \in {"encrypted", "plain", "copying"}
  /\ writer \in {"open", "closed", "crashed"}
  /\ pc \in {"idle", "packet", "eof", "error"}
  /\ {wire, got, overflow} \subseteq Seq([place : 0 .. HeaderLen, val : Nat])
  /\ {unread, written, read} \subseteq Seq(1 .. MaxBytes)
  /\ parts \in Seq(Seq(1 .. MaxBytes))
  /\ unreadLen \in Nat
  /\ Len(unread) <= unreadLen /\ Len(got) <= unreadLen
  /\ kind = "encrypted" => got = <<>> /\ overflow = <<>>
  /\ intact \in BOOLEAN /\ cut \in BOOLEAN

(* Read and Write implement a lossless stream for writes up to Limit: the  *)
(* length of the unread buffer for encrypted.Conn, the size of a packet    *)
(* for transform.Conn without a Transform, and no limit if Transform       *)
(* returns a copy of the data.  Splitting a longer packet may damage       *)
(* bytes, but transform.Conn neither loses nor adds one.                   *)
Promise == INSTANCE Stream WITH
  limit <- Limit,
  keepsLength <- kind # "encrypted",
  reader <- IF pc \in {"eof", "error"} THEN pc ELSE "open"
StreamRefined == Promise!Spec

(* While the other node lives, Read fails only with "missing packet size", *)
(* and only after a read of the underlying connection has ended within the *)
(* length of a packet.  encrypted.Conn never fails so.                     *)
FailsOnlyIfCut ==
  pc = "error" => writer = "crashed" \/ (cut /\ kind # "encrypted")

(* Every byte written is read in the end by a reader that goes on reading, *)
(* unless Read fails or encrypted.Conn was given more than fits its        *)
(* buffer.                                                                 *)
Delivered ==
  \A n \in 1 .. MaxBytes :
    Len(written) >= n
      ~> \/ Len(read) >= n
         \/ pc \in {"eof", "error"}
         \/ kind = "encrypted" /\ ~intact
=============================================================================

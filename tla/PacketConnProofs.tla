--------------------------- MODULE PacketConnProofs ---------------------------
(***************************************************************************)
(* Proofs about PacketConn, for every size of the packets and buffers and  *)
(* any number of bytes.                                                    *)
(***************************************************************************)
EXTENDS PacketConn, SequenceTheorems, TLAPS

Byte == [place : 0 .. HeaderLen, val : Nat]

(***************************************************************************)
(* The shape of the bytes under way, as far as they have come: where a     *)
(* length begins, its bytes come first, then as many bytes of data, then   *)
(* the next length.                                                        *)
(***************************************************************************)
Framed(s, sizes) ==
  /\ s # <<>> => s[1].place = 1
  /\ \A i \in 1 .. Len(s) : s[i].place = 1 => s[i].val \in sizes
  /\ \A i \in 1 .. Len(s) : s[i].place = 0 => s[i].val \in 1 .. MaxBytes
  /\ \A i, j \in 1 .. Len(s) : s[i].place = 1 =>
       /\ i <= j /\ j < i + HeaderLen => s[j].place = j - i + 1
       /\ i + HeaderLen <= j /\ j < i + HeaderLen + s[i].val => s[j].place = 0
       /\ j = i + HeaderLen + s[i].val => s[j].place = 1

(* The last packet is complete. *)
Whole(s) == \A i \in 1 .. Len(s) : s[i].place = 1 => i + HeaderLen + s[i].val <= Len(s) + 1

-----------------------------------------------------------------------------
(***************************************************************************)
(* Sequences                                                               *)
(***************************************************************************)
(* A sequence cut in two. *)
LEMMA CutSeq ==
  ASSUME NEW S, NEW s \in Seq(S), NEW m \in 0 .. Len(s)
  PROVE  /\ SubSeq(s, 1, m) \in Seq(S) /\ Len(SubSeq(s, 1, m)) = m
         /\ \A i \in 1 .. m : SubSeq(s, 1, m)[i] = s[i]
         /\ From(s, m + 1) \in Seq(S) /\ Len(From(s, m + 1)) = Len(s) - m
         /\ \A i \in 1 .. Len(s) - m : From(s, m + 1)[i] = s[m + i]
         /\ SubSeq(s, 1, m) \o From(s, m + 1) = s
<1>1. Len(s) \in Nat /\ \A i \in 1 .. Len(s) : s[i] \in S
  BY LenProperties, ElementOfSeq
<1>2. \A i \in 1 .. m : s[i] \in S
  BY <1>1
<1>3. \A i \in m + 1 .. Len(s) : s[i] \in S
  BY <1>1
<1>4. /\ SubSeq(s, 1, m) \in Seq(S)
      /\ Len(SubSeq(s, 1, m)) = IF 1 <= m THEN m - 1 + 1 ELSE 0
      /\ \A i \in 1 .. m - 1 + 1 : SubSeq(s, 1, m)[i] = s[1 + i - 1]
  <2>1. 1 \in Int /\ m \in Int
    BY <1>1
  <2>. QED  BY <1>2, <2>1, SubSeqProperties
<1>5. /\ SubSeq(s, m + 1, Len(s)) \in Seq(S)
      /\ Len(SubSeq(s, m + 1, Len(s))) = IF m + 1 <= Len(s) THEN Len(s) - (m + 1) + 1 ELSE 0
      /\ \A i \in 1 .. Len(s) - (m + 1) + 1 : SubSeq(s, m + 1, Len(s))[i] = s[m + 1 + i - 1]
  <2>1. m + 1 \in Int /\ Len(s) \in Int
    BY <1>1
  <2>. QED  BY <1>3, <2>1, SubSeqProperties
<1>. DEFINE a == SubSeq(s, 1, m)
            b == SubSeq(s, m + 1, Len(s))
<1>. HIDE DEF a, b
<1>6. a \in Seq(S) /\ Len(a) = m /\ \A i \in 1 .. m : a[i] = s[i]
  BY <1>1, <1>4 DEF a
<1>7. b \in Seq(S) /\ Len(b) = Len(s) - m /\ \A i \in 1 .. Len(s) - m : b[i] = s[m + i]
  BY <1>1, <1>5 DEF b
<1>8. a \o b = s
  <2>1. /\ a \o b \in Seq(S) /\ Len(a \o b) = Len(s)
        /\ \A i \in 1 .. Len(s) : (a \o b)[i] = IF i <= m THEN a[i] ELSE b[i - m]
    BY <1>1, <1>6, <1>7, ConcatProperties
  <2>2. \A i \in 1 .. Len(s) : (a \o b)[i] = s[i]
    BY <1>1, <1>6, <1>7, <2>1
  <2>. QED  BY <2>1, <2>2, SeqEqual
<1>. QED  BY <1>6, <1>7, <1>8 DEF a, b, From

-----------------------------------------------------------------------------
(***************************************************************************)
(* Framing                                                                 *)
(***************************************************************************)
(* Packets may follow whole packets. *)
LEMMA FramedAppend ==
  ASSUME NEW sizes \in SUBSET Nat, NEW s \in Seq(Byte), NEW t \in Seq(Byte),
         Framed(s, sizes), Whole(s), Framed(t, sizes)
  PROVE  Framed(s \o t, sizes) /\ (Whole(t) => Whole(s \o t))
<1>. DEFINE u == s \o t
            m == Len(s)
            n == Len(t)
<1>0. m \in Nat /\ n \in Nat /\ HeaderLen \in Nat \ {0}
      /\ (\A i \in 1 .. m : s[i] \in Byte) /\ (\A i \in 1 .. n : t[i] \in Byte)
  BY PacketConnAssumption, LenProperties, ElementOfSeq
<1>1. u \in Seq(Byte) /\ Len(u) = m + n
      /\ \A i \in 1 .. m + n : u[i] = IF i <= m THEN s[i] ELSE t[i - m]
  BY ConcatProperties
<1>2. (t # <<>> => n > 0) /\ (s # <<>> => m > 0) /\ (u # <<>> => m + n > 0)
  BY <1>0, <1>1, EmptySeq
<1>3. (s = <<>> => m = 0) /\ (t = <<>> => n = 0)
  BY EmptySeq
<1>. HIDE DEF u, m, n
<1>4. (m > 0 => s[1].place = 1) /\ (n > 0 => t[1].place = 1)
  BY <1>0, <1>3 DEF Framed
<1>5. \A i \in 1 .. m : u[i] = s[i]
  BY <1>0, <1>1
<1>6. \A i \in 1 .. n : u[m + i] = t[i]
  BY <1>0, <1>1
<1>7. \A i \in 1 .. m + n : i \in 1 .. m \/ (i - m \in 1 .. n /\ u[i] = t[i - m])
  BY <1>0, <1>1
<1>8. u # <<>> => u[1].place = 1
  <2>1. CASE m > 0
    BY <1>0, <1>4, <1>5, <2>1
  <2>2. CASE m = 0
    <3>1. u # <<>> => n > 0
      BY <1>0, <1>2, <2>2
    <3>2. n > 0 => u[1] = t[1]
      BY <1>0, <1>6, <2>2
    <3>. QED  BY <1>4, <3>1, <3>2
  <2>. QED  BY <1>0, <2>1, <2>2
<1>9. \A i \in 1 .. m + n : /\ u[i].place = 1 => u[i].val \in sizes
                            /\ u[i].place = 0 => u[i].val \in 1 .. MaxBytes
  BY <1>5, <1>7 DEF Framed, m, n
<1>10. ASSUME NEW i \in 1 .. m + n, NEW j \in 1 .. m + n, u[i].place = 1
       PROVE  /\ i <= j /\ j < i + HeaderLen => u[j].place = j - i + 1
              /\ i + HeaderLen <= j /\ j < i + HeaderLen + u[i].val => u[j].place = 0
              /\ j = i + HeaderLen + u[i].val => u[j].place = 1
  <2>0. u[i].val \in Nat
    BY <1>9, <1>10
  <2>1. CASE i \in 1 .. m /\ j \in 1 .. m
    BY <1>5, <1>10, <2>1 DEF Framed, m
  <2>2. CASE i \in 1 .. m /\ j \notin 1 .. m
    <3>0. i + HeaderLen + s[i].val <= m + 1
      BY <1>5, <1>10, <2>2 DEF Whole, m
    <3>1. i + HeaderLen + u[i].val <= m + 1 /\ j >= m + 1
      BY <1>0, <1>5, <2>2, <3>0
    <3>2. j = m + 1 => u[j].place = 1
      BY <1>0, <1>4, <1>6
    <3>. QED  BY <1>0, <2>0, <3>1, <3>2
  <2>3. CASE i \notin 1 .. m /\ j \in 1 .. m
    <3>1. j < i
      BY <1>0, <2>3
    <3>. QED  BY <1>0, <2>0, <3>1
  <2>4. CASE i \notin 1 .. m /\ j \notin 1 .. m
    <3>. DEFINE a == i - m
                b == j - m
    <3>1. a \in 1 .. n /\ b \in 1 .. n /\ u[i] = t[a] /\ u[j] = t[b]
      BY <1>7, <2>4
    <3>2. /\ a <= b /\ b < a + HeaderLen => t[b].place = b - a + 1
          /\ a + HeaderLen <= b /\ b < a + HeaderLen + t[a].val => t[b].place = 0
          /\ b = a + HeaderLen + t[a].val => t[b].place = 1
      BY <1>10, <3>1 DEF Framed, n
    <3>3. t[a].val \in Nat /\ u[i].val = t[a].val /\ u[j].place = t[b].place
      BY <2>0, <3>1
    <3>4. i = a + m /\ j = b + m /\ a \in Int /\ b \in Int
      BY <1>0
    <3>. HIDE DEF a, b
    <3>5. /\ i <= j <=> a <= b
          /\ j < i + HeaderLen <=> b < a + HeaderLen
          /\ i + HeaderLen <= j <=> a + HeaderLen <= b
          /\ j - i + 1 = b - a + 1
      BY ONLY <1>0, <3>4
    <3>6. \A v \in Nat : /\ j < i + HeaderLen + v <=> b < a + HeaderLen + v
                         /\ j = i + HeaderLen + v <=> b = a + HeaderLen + v
      BY ONLY <1>0, <3>4
    <3>. QED  BY ONLY <3>2, <3>3, <3>5, <3>6
  <2>. QED  BY <2>1, <2>2, <2>3, <2>4
<1>11. Framed(u, sizes)
  BY <1>1, <1>8, <1>9, <1>10 DEF Framed
<1>12. ASSUME Whole(t), NEW i \in 1 .. m + n, u[i].place = 1
       PROVE  i + HeaderLen + u[i].val <= m + n + 1
  <2>0. u[i].val \in Nat
    BY <1>9, <1>12
  <2>1. CASE i \in 1 .. m
    <3>1. i + HeaderLen + u[i].val <= m + 1
      BY <1>5, <1>12, <2>1 DEF Whole, m
    <3>2. \A v \in Nat : i + HeaderLen + v <= m + 1 => i + HeaderLen + v <= m + n + 1
      BY <1>0
    <3>. QED  BY <2>0, <3>1, <3>2
  <2>2. CASE i \notin 1 .. m
    <3>1. i - m \in 1 .. n /\ u[i] = t[i - m]
      BY <1>7, <2>2
    <3>2. i - m + HeaderLen + u[i].val <= n + 1
      BY <1>12, <3>1 DEF Whole, n
    <3>. QED  BY <1>0, <2>0, <3>2
  <2>. QED  BY <2>1, <2>2
<1>. QED  BY <1>1, <1>11, <1>12 DEF Whole, u

(* What has come of framed packets is framed. *)
LEMMA FramedPrefix ==
  ASSUME NEW sizes \in SUBSET Nat, NEW s \in Seq(Byte), NEW m \in 0 .. Len(s), Framed(s, sizes)
  PROVE  Framed(SubSeq(s, 1, m), sizes)
<1>. DEFINE u == SubSeq(s, 1, m)
<1>1. u \in Seq(Byte) /\ Len(u) = m /\ \A i \in 1 .. m : u[i] = s[i]
  BY CutSeq
<1>2. (u # <<>> => m > 0) /\ (m > 0 => s # <<>>) /\ Len(s) \in Nat
  BY <1>1, EmptySeq, LenProperties
<1>3. \A i \in 1 .. m : i \in 1 .. Len(s)
  BY <1>2
<1>. HIDE DEF u
<1>4. u # <<>> => u[1].place = 1
  BY <1>1, <1>2 DEF Framed
<1>. QED  BY <1>1, <1>3, <1>4 DEF Framed, u

(* Without the first packet they still are. *)
LEMMA FramedDrop ==
  ASSUME NEW sizes \in SUBSET Nat, NEW s \in Seq(Byte), s # <<>>, Framed(s, sizes),
         HeaderLen + s[1].val <= Len(s)
  PROVE  /\ s[1].val \in sizes
         /\ Framed(From(s, HeaderLen + s[1].val + 1), sizes)
         /\ Whole(s) => Whole(From(s, HeaderLen + s[1].val + 1))
<1>. DEFINE m == HeaderLen + s[1].val
            n == Len(s) - m
            u == From(s, m + 1)
<1>1. Len(s) \in Nat \ {0} /\ HeaderLen \in Nat \ {0}
  BY PacketConnAssumption, EmptySeq
<1>2. s[1].place = 1 /\ 1 \in 1 .. Len(s) /\ s[1].val \in sizes /\ s[1].val \in Nat
  <2>1. s[1].place = 1 /\ 1 \in 1 .. Len(s)
    BY <1>1 DEF Framed
  <2>2. s[1].val \in sizes
    BY <2>1 DEF Framed
  <2>. QED  BY <2>1, <2>2
<1>3. m \in 0 .. Len(s) /\ n \in Nat
  BY <1>1, <1>2
<1>4. u \in Seq(Byte) /\ Len(u) = n /\ \A i \in 1 .. n : u[i] = s[m + i]
  BY <1>3, CutSeq
<1>5. u # <<>> => n > 0
  BY <1>4, EmptySeq
<1>6. n > 0 => s[m + 1].place = 1
  <2>1. SUFFICES ASSUME n > 0 PROVE s[m + 1].place = 1
    OBVIOUS
  <2>2. m + 1 \in 1 .. Len(s) /\ m + 1 = 1 + HeaderLen + s[1].val
    BY <1>1, <1>2, <1>3, <2>1
  <2>. QED  BY <1>2, <2>2 DEF Framed
<1>. HIDE DEF u, m
<1>7. \A i \in 1 .. n : m + i \in 1 .. Len(s)
  BY <1>1, <1>3
<1>8. u # <<>> => u[1].place = 1
  BY <1>3, <1>4, <1>5, <1>6
<1>9. \A i \in 1 .. n : /\ u[i].place = 1 => u[i].val \in sizes
                        /\ u[i].place = 0 => u[i].val \in 1 .. MaxBytes
  BY <1>4, <1>7 DEF Framed
<1>10. ASSUME NEW i \in 1 .. n, NEW j \in 1 .. n, u[i].place = 1
       PROVE  /\ i <= j /\ j < i + HeaderLen => u[j].place = j - i + 1
              /\ i + HeaderLen <= j /\ j < i + HeaderLen + u[i].val => u[j].place = 0
              /\ j = i + HeaderLen + u[i].val => u[j].place = 1
  <2>. DEFINE a == m + i
              b == m + j
  <2>1. a \in 1 .. Len(s) /\ b \in 1 .. Len(s) /\ u[i] = s[a] /\ u[j] = s[b]
    BY <1>4, <1>7
  <2>2. /\ a \in Int /\ b \in Int /\ m \in Int /\ i \in Int /\ j \in Int
        /\ a = m + i /\ b = m + j
    BY <1>3
  <2>. HIDE DEF a, b
  <2>3. /\ a <= b /\ b < a + HeaderLen => s[b].place = b - a + 1
        /\ a + HeaderLen <= b /\ b < a + HeaderLen + s[a].val => s[b].place = 0
        /\ b = a + HeaderLen + s[a].val => s[b].place = 1
    BY <1>10, <2>1 DEF Framed
  <2>4. s[a].val \in Nat /\ u[i].val = s[a].val /\ u[j].place = s[b].place
    BY <1>9, <1>10, <2>1
  <2>. QED  BY ONLY <1>1, <2>2, <2>3, <2>4
<1>11. Framed(u, sizes)
  BY <1>4, <1>8, <1>9, <1>10 DEF Framed
<1>12. ASSUME Whole(s), NEW i \in 1 .. n, u[i].place = 1
       PROVE  i + HeaderLen + u[i].val <= n + 1
  <2>1. m + i \in 1 .. Len(s) /\ u[i] = s[m + i]
    BY <1>4, <1>7
  <2>2. m + i + HeaderLen + u[i].val <= Len(s) + 1
    BY <1>12, <2>1 DEF Whole
  <2>3. u[i].val \in Nat
    BY <1>9, <1>12
  <2>. QED  BY <1>1, <1>3, <2>2, <2>3
<1>13. Whole(s) => Whole(u)
  BY <1>4, <1>12 DEF Whole
<1>. QED  BY <1>2, <1>11, <1>13 DEF u, m

(* The first length, and the data after it. *)
LEMMA FirstPacket ==
  ASSUME NEW sizes \in SUBSET Nat, NEW s \in Seq(Byte), s # <<>>, Framed(s, sizes)
  PROVE  /\ s[1].place = 1 /\ s[1].val \in sizes /\ Len(s) \in Nat \ {0}
         /\ \A j \in 1 .. Len(s) : j <= HeaderLen => s[j].place = j
         /\ \A j \in HeaderLen + 1 .. HeaderLen + s[1].val :
              j <= Len(s) => s[j].val \in 1 .. MaxBytes
         /\ Whole(s) => HeaderLen + s[1].val <= Len(s)
<1>1. Len(s) \in Nat \ {0} /\ HeaderLen \in Nat \ {0}
  BY PacketConnAssumption, EmptySeq
<1>2. s[1].place = 1 /\ 1 \in 1 .. Len(s) /\ s[1].val \in sizes /\ s[1].val \in Nat
  <2>1. s[1].place = 1 /\ 1 \in 1 .. Len(s)
    BY <1>1 DEF Framed
  <2>2. s[1].val \in sizes
    BY <2>1 DEF Framed
  <2>. QED  BY <2>1, <2>2
<1>3. ASSUME NEW j \in 1 .. Len(s), j <= HeaderLen PROVE s[j].place = j
  <2>1. 1 <= j /\ j < 1 + HeaderLen
    BY <1>1, <1>3
  <2>2. s[j].place = j - 1 + 1
    BY <1>2, <2>1 DEF Framed
  <2>. QED  BY <2>2
<1>4. ASSUME NEW j \in HeaderLen + 1 .. HeaderLen + s[1].val, j <= Len(s)
      PROVE  s[j].val \in 1 .. MaxBytes
  <2>1. j \in 1 .. Len(s) /\ 1 + HeaderLen <= j /\ j < 1 + HeaderLen + s[1].val
    BY <1>1, <1>2, <1>4
  <2>2. s[j].place = 0
    BY <1>2, <2>1 DEF Framed
  <2>. QED  BY <2>1, <2>2 DEF Framed
<1>5. ASSUME Whole(s) PROVE HeaderLen + s[1].val <= Len(s)
  <2>1. 1 + HeaderLen + s[1].val <= Len(s) + 1
    BY <1>2, <1>5 DEF Whole
  <2>. QED  BY <1>1, <1>2, <2>1
<1>. QED  BY <1>1, <1>2, <1>3, <1>4, <1>5

(* One packet. *)
LEMMA FramedPacket ==
  ASSUME NEW sizes \in SUBSET Nat, NEW data \in Seq(1 .. MaxBytes), Len(data) \in sizes
  PROVE  /\ Packet(data) \in Seq(Byte) /\ Len(Packet(data)) = HeaderLen + Len(data)
         /\ \A i \in 1 .. HeaderLen + Len(data) :
              Packet(data)[i] = IF i <= HeaderLen THEN [place |-> i, val |-> Len(data)]
                                ELSE [place |-> 0, val |-> data[i - HeaderLen]]
         /\ Framed(Packet(data), sizes) /\ Whole(Packet(data))
<1>. DEFINE n == Len(data)
            a == [i \in 1 .. HeaderLen |-> [place |-> i, val |-> n]]
            b == [i \in 1 .. n |-> [place |-> 0, val |-> data[i]]]
            u == a \o b
<1>1. n \in Nat /\ HeaderLen \in Nat \ {0} /\ MaxBytes \in Nat
      /\ \A i \in 1 .. n : data[i] \in 1 .. MaxBytes
  BY PacketConnAssumption, LenProperties, ElementOfSeq
<1>. HIDE DEF n
<1>2. a \in Seq(Byte) /\ Len(a) = HeaderLen
  BY <1>1 DEF Byte
<1>3. b \in Seq(Byte) /\ Len(b) = n
  BY <1>1 DEF Byte
<1>4. \A i \in 1 .. HeaderLen : a[i] = [place |-> i, val |-> n]
  OBVIOUS
<1>5. \A i \in 1 .. n : b[i] = [place |-> 0, val |-> data[i]]
  OBVIOUS
<1>6. Packet(data) = u
  BY DEF Packet, n
<1>. HIDE DEF a, b
<1>7. u \in Seq(Byte) /\ Len(u) = HeaderLen + n
      /\ \A i \in 1 .. HeaderLen + n : u[i] = IF i <= HeaderLen THEN a[i] ELSE b[i - HeaderLen]
  BY <1>2, <1>3, ConcatProperties
<1>. HIDE DEF u
<1>8. \A i \in 1 .. HeaderLen + n :
        u[i] = IF i <= HeaderLen THEN [place |-> i, val |-> n]
                                 ELSE [place |-> 0, val |-> data[i - HeaderLen]]
  <2>1. SUFFICES ASSUME NEW i \in 1 .. HeaderLen + n
        PROVE  u[i] = IF i <= HeaderLen THEN [place |-> i, val |-> n]
                                        ELSE [place |-> 0, val |-> data[i - HeaderLen]]
    OBVIOUS
  <2>2. CASE i <= HeaderLen
    <3>1. i \in 1 .. HeaderLen
      BY <1>1, <2>2
    <3>. QED  BY <1>4, <1>7, <2>2, <3>1
  <2>3. CASE ~(i <= HeaderLen)
    <3>1. i - HeaderLen \in 1 .. n
      BY <1>1, <2>3
    <3>2. u[i] = b[i - HeaderLen]
      BY <1>7, <2>3
    <3>3. b[i - HeaderLen] = [place |-> 0, val |-> data[i - HeaderLen]]
      BY <1>5, <3>1
    <3>. QED  BY <2>3, <3>2, <3>3
  <2>. QED  BY <2>2, <2>3
<1>9. \A i \in 1 .. HeaderLen + n :
        /\ u[i].place = IF i <= HeaderLen THEN i ELSE 0
        /\ u[i].val = IF i <= HeaderLen THEN n ELSE data[i - HeaderLen]
  <2>1. SUFFICES ASSUME NEW i \in 1 .. HeaderLen + n
        PROVE  /\ u[i].place = IF i <= HeaderLen THEN i ELSE 0
               /\ u[i].val = IF i <= HeaderLen THEN n ELSE data[i - HeaderLen]
    OBVIOUS
  <2>2. u[i] = IF i <= HeaderLen THEN [place |-> i, val |-> n]
                                 ELSE [place |-> 0, val |-> data[i - HeaderLen]]
    BY <1>8
  <2>. QED  BY ONLY <2>2
<1>10. \A i \in 1 .. HeaderLen + n : u[i].place = 1 <=> i = 1
  BY <1>1, <1>9
<1>11. u[1].val = n /\ u[1].place = 1
  BY <1>1, <1>9
<1>12. \A i \in 1 .. HeaderLen + n : u[i].place = 0 => u[i].val \in 1 .. MaxBytes
  <2>1. SUFFICES ASSUME NEW i \in 1 .. HeaderLen + n, u[i].place = 0
                 PROVE  u[i].val \in 1 .. MaxBytes
    OBVIOUS
  <2>2. i > HeaderLen /\ i - HeaderLen \in 1 .. n
    BY <1>1, <1>9, <2>1
  <2>. QED  BY <1>1, <1>9, <2>2
<1>13. ASSUME NEW j \in 1 .. HeaderLen + n
       PROVE  /\ 1 <= j /\ j < 1 + HeaderLen => u[j].place = j - 1 + 1
              /\ 1 + HeaderLen <= j /\ j < 1 + HeaderLen + n => u[j].place = 0
              /\ j = 1 + HeaderLen + n => u[j].place = 1
  BY <1>1, <1>9
<1>14. Framed(u, sizes)
  BY <1>7, <1>10, <1>11, <1>12, <1>13 DEF Framed, n
<1>15. Whole(u)
  BY <1>1, <1>7, <1>10, <1>11 DEF Whole
<1>. QED  BY <1>6, <1>7, <1>8, <1>14, <1>15 DEF n

-----------------------------------------------------------------------------
(***************************************************************************)
(* The bytes under way, and what the steps do to them                      *)
(***************************************************************************)
Joined(o, g, w) == (o \o g) \o w

(* What was read too early, what is in the buffer, and what is to come.    *)
Incoming == Joined(overflow, got, wire)

Sizes == {n \in Nat \ {0} : kind # "encrypted" => n <= MaxPacket}

Typed ==
  /\ kind \in {"encrypted", "plain", "copying"}
  /\ writer \in {"open", "closed", "crashed"}
  /\ pc \in {"idle", "packet", "eof", "error"}
  /\ wire \in Seq(Byte) /\ got \in Seq(Byte) /\ overflow \in Seq(Byte)
  /\ unread \in Seq(1 .. MaxBytes) /\ written \in Seq(1 .. MaxBytes)
  /\ read \in Seq(1 .. MaxBytes)
  /\ parts \in Seq(Seq(1 .. MaxBytes))
  /\ unreadLen \in Nat /\ intact \in BOOLEAN /\ cut \in BOOLEAN

(* What a half loses at its front to the half before it, it had.           *)
PartsOK ==
  /\ \A i \in 1 .. Len(parts) : Len(parts[i]) > 0
  /\ Len(parts) > 1 => /\ kind # "encrypted"
                       /\ \A i \in 1 .. Len(parts) : Len(parts[i]) >= HeaderLen

BuffersOK ==
  /\ Len(unread) <= unreadLen /\ Len(got) <= unreadLen /\ Len(overflow) <= unreadLen
  /\ UnreadLen <= unreadLen
  /\ kind = "encrypted" => got = <<>> /\ overflow = <<>> /\ pc # "packet"
  /\ pc = "idle" => got = <<>>
  /\ pc = "packet" => overflow = <<>> /\ unread = <<>> /\ Len(got) >= HeaderLen

FramedOK == Framed(Incoming, Sizes) /\ (writer # "crashed" => Whole(Incoming))

(* If no read has ended within a length, none is on its way alone.         *)
CutOK == ~cut /\ writer # "crashed" /\ wire # <<>> => wire[1].place \in {0, 1}

FrameInv == Typed /\ PartsOK /\ BuffersOK /\ FramedOK /\ CutOK /\ FailsOnlyIfCut

(* Two of the three are enough in every state but one that has failed.     *)
LEMMA JoinedIs ==
  ASSUME NEW o \in Seq(Byte), NEW g \in Seq(Byte), NEW w \in Seq(Byte)
  PROVE  /\ Joined(o, g, w) \in Seq(Byte)
         /\ o = <<>> => Joined(o, g, w) = g \o w
         /\ g = <<>> => Joined(o, g, w) = o \o w
         /\ o = <<>> /\ g = <<>> => Joined(o, g, w) = w
<1>1. o \o g \in Seq(Byte) /\ (o = <<>> => o \o g = g) /\ (g = <<>> => o \o g = o)
  BY ConcatProperties, ConcatEmptySeq
<1>2. (o \o g) \o w \in Seq(Byte)
  BY <1>1, ConcatProperties
<1>3. <<>> \o w = w
  BY ConcatEmptySeq
<1>. QED  BY <1>1, <1>2, <1>3 DEF Joined

(* Cutting a concatenation within one of its parts. *)
LEMMA CutConcat ==
  ASSUME NEW s \in Seq(Byte), NEW t \in Seq(Byte)
  PROVE  /\ \A m \in 0 .. Len(s) : From(s \o t, m + 1) = From(s, m + 1) \o t
         /\ \A m \in 0 .. Len(t) : s \o SubSeq(t, 1, m) = SubSeq(s \o t, 1, Len(s) + m)
         /\ s # <<>> => s \o t # <<>> /\ (s \o t)[1] = s[1]
<1>. DEFINE u == s \o t
<1>1. Len(s) \in Nat /\ Len(t) \in Nat /\ u \in Seq(Byte) /\ Len(u) = Len(s) + Len(t)
      /\ \A i \in 1 .. Len(s) + Len(t) : u[i] = IF i <= Len(s) THEN s[i] ELSE t[i - Len(s)]
  BY LenProperties, ConcatProperties
<1>. HIDE DEF u
<1>2. ASSUME NEW m \in 0 .. Len(s) PROVE From(u, m + 1) = From(s, m + 1) \o t
  <2>. DEFINE a == From(s, m + 1)
              b == From(u, m + 1)
              c == a \o t
  <2>1. a \in Seq(Byte) /\ Len(a) = Len(s) - m /\ \A i \in 1 .. Len(s) - m : a[i] = s[m + i]
    BY CutSeq
  <2>2. m \in 0 .. Len(u)
    BY <1>1
  <2>3. b \in Seq(Byte) /\ Len(b) = Len(u) - m /\ \A i \in 1 .. Len(u) - m : b[i] = u[m + i]
    BY <1>1, <2>2, CutSeq
  <2>. HIDE DEF a, b
  <2>4. c \in Seq(Byte) /\ Len(c) = Len(a) + Len(t)
        /\ \A i \in 1 .. Len(a) + Len(t) : c[i] = IF i <= Len(a) THEN a[i] ELSE t[i - Len(a)]
    BY <2>1, ConcatProperties
  <2>. HIDE DEF c
  <2>5. Len(b) = Len(c)
    BY <1>1, <2>1, <2>3, <2>4
  <2>6. ASSUME NEW i \in 1 .. Len(b) PROVE b[i] = c[i]
    <3>1. b[i] = u[m + i] /\ m + i \in 1 .. Len(s) + Len(t) /\ i \in 1 .. Len(a) + Len(t)
      BY <1>1, <2>1, <2>3
    <3>2. CASE i <= Len(s) - m
      <4>1. m + i <= Len(s) /\ i \in 1 .. Len(s) - m /\ i <= Len(a)
        BY <1>1, <2>1, <3>2
      <4>. QED  BY <1>1, <2>1, <2>4, <3>1, <4>1
    <3>3. CASE ~(i <= Len(s) - m)
      <4>1. c[i] = t[i - (Len(s) - m)] /\ u[m + i] = t[m + i - Len(s)]
        BY <1>1, <2>1, <2>4, <3>1, <3>3
      <4>2. i - (Len(s) - m) = m + i - Len(s)
        BY <1>1
      <4>. QED  BY <3>1, <4>1, <4>2
    <3>. QED  BY <3>2, <3>3
  <2>7. b = c
    BY <2>3, <2>4, <2>5, <2>6, SeqEqual
  <2>. QED  BY <2>7 DEF a, b, c
<1>3. ASSUME NEW m \in 0 .. Len(t) PROVE s \o SubSeq(t, 1, m) = SubSeq(u, 1, Len(s) + m)
  <2>. DEFINE a == SubSeq(t, 1, m)
              b == SubSeq(u, 1, Len(s) + m)
              c == s \o a
  <2>1. a \in Seq(Byte) /\ Len(a) = m /\ \A i \in 1 .. m : a[i] = t[i]
    BY CutSeq
  <2>2. Len(s) + m \in 0 .. Len(u)
    BY <1>1
  <2>3. b \in Seq(Byte) /\ Len(b) = Len(s) + m /\ \A i \in 1 .. Len(s) + m : b[i] = u[i]
    BY <1>1, <2>2, CutSeq
  <2>. HIDE DEF a, b
  <2>4. c \in Seq(Byte) /\ Len(c) = Len(s) + Len(a)
        /\ \A i \in 1 .. Len(s) + Len(a) : c[i] = IF i <= Len(s) THEN s[i] ELSE a[i - Len(s)]
    BY <2>1, ConcatProperties
  <2>. HIDE DEF c
  <2>5. ASSUME NEW i \in 1 .. Len(b) PROVE b[i] = c[i]
    <3>1. i \in 1 .. Len(s) + Len(t) /\ i \in 1 .. Len(s) + Len(a) /\ b[i] = u[i]
      BY <1>1, <2>1, <2>3
    <3>2. CASE i <= Len(s)
      BY <1>1, <2>4, <3>1, <3>2
    <3>3. CASE ~(i <= Len(s))
      <4>1. i - Len(s) \in 1 .. m
        BY <1>1, <2>3, <3>3
      <4>. QED  BY <1>1, <2>1, <2>4, <3>1, <3>3, <4>1
    <3>. QED  BY <3>2, <3>3
  <2>6. b = c
    BY <2>1, <2>3, <2>4, <2>5, SeqEqual
  <2>. QED  BY <2>6 DEF a, b, c
<1>4. s # <<>> => u # <<>> /\ u[1] = s[1]
  <2>1. SUFFICES ASSUME s # <<>> PROVE u # <<>> /\ u[1] = s[1]
    OBVIOUS
  <2>2. Len(s) > 0
    BY <1>1, <2>1, EmptySeq
  <2>3. Len(u) # 0 /\ u[1] = s[1]
    BY <1>1, <2>2
  <2>4. Len(<<>>) = 0
    BY EmptySeq
  <2>. QED  BY <2>3, <2>4
<1>. QED  BY <1>2, <1>3, <1>4 DEF u

-----------------------------------------------------------------------------
(***************************************************************************)
(* The buffer of unread bytes                                              *)
(***************************************************************************)
(* readUnread splits the bytes between the reader and the buffer. *)
LEMMA readUnreadEffect ==
  ASSUME Typed, NEW bytes \in Seq(1 .. MaxBytes), readUnread(bytes)
  PROVE  \E n \in 0 .. Len(bytes) :
           /\ bytes # <<>> => n > 0
           /\ read' = read \o SubSeq(bytes, 1, n) /\ unread' = From(bytes, n + 1)
           /\ read' \in Seq(1 .. MaxBytes) /\ unread' \in Seq(1 .. MaxBytes)
           /\ Len(unread') <= Len(bytes)
<1>1. PICK len \in ReadLens :
        /\ read' = read \o SubSeq(bytes, 1, LesserOf(len, Len(bytes)))
        /\ unread' = From(bytes, LesserOf(len, Len(bytes)) + 1)
  BY DEF readUnread
<1>. DEFINE n == LesserOf(len, Len(bytes))
<1>2. len \in Nat \ {0} /\ Len(bytes) \in Nat
  BY PacketConnAssumption, LenProperties
<1>3. n \in 0 .. Len(bytes) /\ (Len(bytes) > 0 => n > 0)
  BY <1>2 DEF LesserOf
<1>4. bytes # <<>> => Len(bytes) > 0
  BY <1>2, EmptySeq
<1>5. read' = read \o SubSeq(bytes, 1, n) /\ unread' = From(bytes, n + 1)
  BY <1>1
<1>. HIDE DEF n
<1>6. /\ SubSeq(bytes, 1, n) \in Seq(1 .. MaxBytes)
      /\ From(bytes, n + 1) \in Seq(1 .. MaxBytes) /\ Len(From(bytes, n + 1)) = Len(bytes) - n
  BY <1>3, CutSeq
<1>7. read' \in Seq(1 .. MaxBytes)
  BY <1>5, <1>6, ConcatProperties DEF Typed
<1>8. Len(unread') <= Len(bytes)
  BY <1>2, <1>3, <1>5, <1>6
<1>. QED  BY <1>3, <1>4, <1>5, <1>6, <1>7, <1>8

(* writeUread keeps all that fits, and never more than its buffer holds. *)
LEMMA KeptEffect ==
  ASSUME NEW len \in Nat, NEW S, NEW data \in Seq(S)
  PROVE  /\ Kept(len, data) \in Seq(S) /\ Len(Kept(len, data)) <= GrownLen(len, data)
         /\ GrownLen(len, data) \in Nat /\ len <= GrownLen(len, data)
         /\ Len(data) <= len => Kept(len, data) = data
         /\ data # <<>> /\ len > 0 => Kept(len, data) # <<>>
<1>1. Len(data) \in Nat
  BY LenProperties
<1>2. CASE Len(data) <= len
  BY <1>1, <1>2 DEF Kept, GrownLen
<1>3. CASE ~(Len(data) <= len)
  <2>. DEFINE d == Len(data) - len
              h == d \div 2
              a == SubSeq(data, 1, len)
              b == [i \in 1 .. h |-> data[len + 2 * i]]
  <2>1. d \in Nat /\ d > 0
    BY <1>1, <1>3
  <2>2. h \in Nat /\ 2 * h <= d /\ (d + 1) \div 2 \in Nat /\ h <= (d + 1) \div 2
    BY <2>1
  <2>3. Kept(len, data) = a \o b /\ GrownLen(len, data) = len + (d + 1) \div 2
    BY <1>3 DEF Kept, GrownLen
  <2>4. len \in 0 .. Len(data)
    BY <1>1, <1>3
  <2>5. a \in Seq(S) /\ Len(a) = len
    BY <2>4, CutSeq
  <2>6. \A i \in 1 .. h : data[len + 2 * i] \in S
    <3>1. SUFFICES ASSUME NEW i \in 1 .. h PROVE data[len + 2 * i] \in S
      OBVIOUS
    <3>2. len + 2 * i \in 1 .. Len(data)
      BY <1>1, <2>1, <2>2
    <3>. QED  BY <3>2, ElementOfSeq
  <2>. HIDE DEF a, d, h
  <2>7. b \in Seq(S) /\ Len(b) = h
    BY <2>2, <2>6
  <2>. HIDE DEF b
  <2>8. a \o b \in Seq(S) /\ Len(a \o b) = len + h
    BY <2>5, <2>7, ConcatProperties
  <2>9. len > 0 => a \o b # <<>>
    <3>1. len > 0 => Len(a \o b) # 0
      BY <2>2, <2>8
    <3>2. Len(<<>>) = 0
      BY EmptySeq
    <3>. QED  BY <3>1, <3>2
  <2>10. len + h <= len + (d + 1) \div 2 /\ len + (d + 1) \div 2 \in Nat
         /\ len <= len + (d + 1) \div 2
    BY <2>2
  <2>. QED  BY <1>3, <2>3, <2>8, <2>9, <2>10
<1>. QED  BY <1>2, <1>3

(* The data of the first packet. *)
Data(s) == [i \in DOMAIN SubSeq(s, HeaderLen + 1, HeaderLen + s[1].val) |->
              SubSeq(s, HeaderLen + 1, HeaderLen + s[1].val)[i].val]

(* The data of the first packet are its bytes without the length. *)
LEMMA DataOfFirst ==
  ASSUME NEW sizes \in SUBSET (Nat \ {0}), NEW s \in Seq(Byte), Framed(s, sizes), s # <<>>,
         HeaderLen + s[1].val <= Len(s)
  PROVE  /\ Data(s) \in Seq(1 .. MaxBytes) /\ Len(Data(s)) = s[1].val /\ Data(s) # <<>>
         /\ \A i \in 1 .. s[1].val : Data(s)[i] = s[HeaderLen + i].val
<1>. DEFINE v == s[1].val
            a == SubSeq(s, HeaderLen + 1, HeaderLen + v)
<1>1. s[1].val \in sizes /\ Len(s) \in Nat
      /\ \A j \in HeaderLen + 1 .. HeaderLen + s[1].val :
           j <= Len(s) => s[j].val \in 1 .. MaxBytes
  <2>1. sizes \in SUBSET Nat
    OBVIOUS
  <2>. QED  BY <2>1, FirstPacket
<1>2. v \in Nat \ {0} /\ HeaderLen \in Nat /\ HeaderLen + v <= Len(s)
  BY <1>1, PacketConnAssumption
<1>3. \A j \in HeaderLen + 1 .. HeaderLen + v : s[j].val \in 1 .. MaxBytes
  BY <1>1, <1>2
<1>. HIDE DEF v
<1>4. \A j \in HeaderLen + 1 .. HeaderLen + v : s[j] \in Byte
  <2>1. SUFFICES ASSUME NEW j \in HeaderLen + 1 .. HeaderLen + v PROVE s[j] \in Byte
    OBVIOUS
  <2>2. j \in 1 .. Len(s)
    BY <1>1, <1>2
  <2>. QED  BY <2>2, ElementOfSeq
<1>5. a \in Seq(Byte) /\ Len(a) = v /\ \A i \in 1 .. v : a[i] = s[HeaderLen + i]
  <2>. DEFINE lo == HeaderLen + 1
              hi == HeaderLen + v
  <2>1. lo \in Int /\ hi \in Int /\ lo = HeaderLen + 1 /\ hi = HeaderLen + v
    BY <1>2
  <2>2. a = SubSeq(s, lo, hi) /\ \A j \in lo .. hi : s[j] \in Byte
    BY <1>4
  <2>. HIDE DEF lo, hi, a
  <2>3. /\ SubSeq(s, lo, hi) \in Seq(Byte)
        /\ Len(SubSeq(s, lo, hi)) = IF lo <= hi THEN hi - lo + 1 ELSE 0
        /\ \A i \in 1 .. hi - lo + 1 : SubSeq(s, lo, hi)[i] = s[lo + i - 1]
    BY ONLY <2>1, <2>2, SubSeqProperties
  <2>4. Len(a) = v /\ a \in Seq(Byte)
    BY <1>2, <2>1, <2>2, <2>3
  <2>5. ASSUME NEW i \in 1 .. v PROVE a[i] = s[HeaderLen + i]
    <3>1. i \in 1 .. hi - lo + 1 /\ lo + i - 1 = HeaderLen + i
      BY <1>2, <2>1
    <3>. QED  BY <2>2, <2>3, <3>1
  <2>. QED  BY <2>4, <2>5
<1>6. DOMAIN a = 1 .. v
  BY <1>5, LenProperties
<1>7. Data(s) = [i \in 1 .. v |-> a[i].val]
  BY <1>6 DEF Data, v
<1>. HIDE DEF a
<1>8. ASSUME NEW i \in 1 .. v PROVE a[i].val = s[HeaderLen + i].val /\ a[i].val \in 1 .. MaxBytes
  <2>1. HeaderLen + i \in HeaderLen + 1 .. HeaderLen + v
    BY <1>2
  <2>. QED  BY <1>3, <1>5, <2>1
<1>9. [i \in 1 .. v |-> a[i].val] \in Seq(1 .. MaxBytes) /\ Len([i \in 1 .. v |-> a[i].val]) = v
  BY <1>2, <1>8
<1>10. Data(s) # <<>>
  <2>1. Len(Data(s)) # 0 /\ Len(<<>>) = 0
    BY <1>2, <1>7, <1>9, EmptySeq
  <2>. QED  BY <2>1
<1>. QED  BY <1>7, <1>8, <1>9, <1>10 DEF v

(* A Read that got a packet. *)
LEMMA ReturnEffect ==
  ASSUME Typed, BuffersOK, NEW s \in Seq(Byte), Framed(s, Sizes), s # <<>>,
         HeaderLen + s[1].val <= Len(s),
         ReturnPacket(SubSeq(s, HeaderLen + 1, HeaderLen + s[1].val))
  PROVE  /\ unreadLen' \in Nat /\ unreadLen <= unreadLen' /\ Len(unread') <= unreadLen'
         /\ read' \in Seq(1 .. MaxBytes) /\ unread' \in Seq(1 .. MaxBytes)
         /\ \E n \in 1 .. Len(Kept(unreadLen, Data(s))) :
              /\ read' = read \o SubSeq(Kept(unreadLen, Data(s)), 1, n)
              /\ unread' = From(Kept(unreadLen, Data(s)), n + 1)
<1>. DEFINE d == Data(s)
            kept == Kept(unreadLen, d)
<1>1. readUnread(kept) /\ unreadLen' = GrownLen(unreadLen, d)
  BY DEF ReturnPacket, Data
<1>2. d \in Seq(1 .. MaxBytes) /\ d # <<>>
  <2>1. Sizes \in SUBSET (Nat \ {0})
    BY DEF Sizes
  <2>. QED  BY <2>1, DataOfFirst
<1>. HIDE DEF d
<1>3. unreadLen \in Nat /\ unreadLen > 0
  BY PacketConnAssumption DEF Typed, BuffersOK
<1>4. /\ kept \in Seq(1 .. MaxBytes) /\ Len(kept) <= GrownLen(unreadLen, d)
      /\ GrownLen(unreadLen, d) \in Nat /\ unreadLen <= GrownLen(unreadLen, d)
      /\ kept # <<>>
  BY <1>2, <1>3, KeptEffect
<1>. HIDE DEF kept
<1>5. PICK n \in 0 .. Len(kept) :
           /\ kept # <<>> => n > 0
           /\ read' = read \o SubSeq(kept, 1, n) /\ unread' = From(kept, n + 1)
           /\ read' \in Seq(1 .. MaxBytes) /\ unread' \in Seq(1 .. MaxBytes)
           /\ Len(unread') <= Len(kept)
  BY <1>1, <1>4, readUnreadEffect
<1>6. n \in 1 .. Len(kept) /\ Len(kept) \in Nat
  BY <1>4, <1>5, LenProperties
<1>7. Len(unread') <= unreadLen'
  <2>1. Len(unread') \in Nat
    BY <1>5, LenProperties
  <2>. QED  BY <1>1, <1>4, <1>5, <1>6, <2>1
<1>. QED  BY <1>1, <1>4, <1>5, <1>6, <1>7 DEF kept, d

-----------------------------------------------------------------------------
(***************************************************************************)
(* The pieces of a Write                                                   *)
(***************************************************************************)
(* A piece that is too long is replaced by its halves. *)
LEMMA SplitEffect ==
  ASSUME Typed, PartsOK, Split
  PROVE  \E m \in 1 .. Len(parts[1]) - 1 :
           /\ parts' \in Seq(Seq(1 .. MaxBytes)) /\ Len(parts') = Len(parts) + 1
           /\ parts'[1] = SubSeq(parts[1], 1, m) /\ parts'[2] = From(parts[1], m + 1)
           /\ \A i \in 3 .. Len(parts) + 1 : parts'[i] = parts[i - 1]
           /\ HeaderLen <= m /\ HeaderLen <= Len(parts[1]) - m
           /\ kind # "encrypted" /\ Len(parts[1]) > MaxPacket
<1>. DEFINE S == Seq(1 .. MaxBytes)
            h == parts[1]
            mid == Len(h) \div 2
            a == SubSeq(h, 1, mid)
            b == From(h, mid + 1)
            t == Tail(parts)
            ab == <<a, b>>
<1>1. parts \in Seq(S) /\ parts # <<>> /\ Len(parts) \in Nat \ {0}
  BY EmptySeq DEF Typed, Split
<1>2. Head(parts) = h /\ h \in S
  BY <1>1, ElementOfSeq
<1>3. kind # "encrypted" /\ ~(Len(h) <= MaxPacket)
      /\ parts' = ab \o t
  BY <1>2 DEF Split, Fits
<1>4. Len(h) \in Nat /\ MaxPacket \in Nat /\ HeaderLen \in Nat \ {0}
      /\ MaxPacket >= 2 * HeaderLen - 1
  BY <1>2, PacketConnAssumption, LenProperties
<1>5. Len(h) > MaxPacket /\ Len(h) >= 2 * HeaderLen
  BY <1>3, <1>4
<1>6. mid \in 1 .. Len(h) - 1 /\ HeaderLen <= mid /\ HeaderLen <= Len(h) - mid
  <2>1. \A n \in Nat : n \div 2 \in Nat /\ 2 * (n \div 2) <= n /\ n <= 2 * (n \div 2) + 1
    OBVIOUS
  <2>2. mid \in Nat /\ 2 * mid <= Len(h) /\ Len(h) <= 2 * mid + 1
    BY <1>4, <2>1
  <2>. HIDE DEF mid, h
  <2>. QED  BY ONLY <1>4, <1>5, <2>2
<1>. HIDE DEF mid, h
<1>7. a \in S /\ b \in S
  <2>1. mid \in 0 .. Len(h)
    BY <1>4, <1>6
  <2>. QED  BY <1>2, <2>1, CutSeq
<1>. HIDE DEF a, b, S
<1>8. ab \in Seq(S) /\ Len(ab) = 2 /\ ab[1] = a /\ ab[2] = b
  BY <1>7
<1>9. t \in Seq(S) /\ Len(t) = Len(parts) - 1 /\ \A i \in 1 .. Len(t) : t[i] = parts[i + 1]
  BY <1>1, HeadTailProperties
<1>. HIDE DEF ab, t
<1>10. /\ parts' \in Seq(S) /\ Len(parts') = 2 + Len(t)
       /\ \A i \in 1 .. 2 + Len(t) : parts'[i] = IF i <= 2 THEN ab[i] ELSE t[i - 2]
  <2>1. /\ ab \o t \in Seq(S) /\ Len(ab \o t) = Len(ab) + Len(t)
        /\ \A i \in 1 .. Len(ab) + Len(t) :
             (ab \o t)[i] = IF i <= Len(ab) THEN ab[i] ELSE t[i - Len(ab)]
    BY ONLY <1>8, <1>9, ConcatProperties
  <2>2. Len(ab) = 2 /\ parts' = ab \o t
    BY <1>3, <1>8
  <2>. QED  BY ONLY <2>1, <2>2
<1>11. Len(parts') = Len(parts) + 1 /\ parts'[1] = a /\ parts'[2] = b
  BY <1>1, <1>8, <1>9, <1>10
<1>12. ASSUME NEW i \in 3 .. Len(parts) + 1 PROVE parts'[i] = parts[i - 1]
  <2>1. i - 2 \in 1 .. Len(t) /\ i \in 1 .. 2 + Len(t) /\ ~(i <= 2) /\ i - 2 + 1 = i - 1
    BY <1>1, <1>9
  <2>2. parts'[i] = t[i - 2] /\ t[i - 2] = parts[i - 2 + 1]
    BY <1>9, <1>10, <2>1
  <2>. QED  BY <2>1, <2>2
<1>. QED  BY <1>3, <1>5, <1>6, <1>10, <1>11, <1>12 DEF a, b, h, S

(* A piece that was sent is gone, and the next keeps its length. *)
LEMMA SendEffect ==
  ASSUME Typed, PartsOK, Send
  PROVE  /\ parts # <<>> /\ Len(parts) \in Nat \ {0} /\ Head(parts) = parts[1]
         /\ parts[1] \in Seq(1 .. MaxBytes) /\ Len(parts[1]) \in Sizes
         /\ parts' \in Seq(Seq(1 .. MaxBytes)) /\ Len(parts') = Len(parts) - 1
         /\ \A i \in 1 .. Len(parts) - 1 :
              /\ Len(parts'[i]) = Len(parts[i + 1])
              /\ i > 1 \/ kind # "plain" => parts'[i] = parts[i + 1]
<1>. DEFINE S == Seq(1 .. MaxBytes)
            h == parts[1]
<1>1. parts \in Seq(S) /\ parts # <<>> /\ Len(parts) \in Nat \ {0}
  BY EmptySeq DEF Typed, Send
<1>2. Head(parts) = h /\ \A i \in 1 .. Len(parts) : parts[i] \in S /\ Len(parts[i]) \in Nat
  BY <1>1, ElementOfSeq, LenProperties
<1>3. h \in S /\ Len(h) \in Nat /\ Len(h) > 0
  BY <1>1, <1>2 DEF PartsOK
<1>4. Len(h) \in Sizes
  BY <1>2, <1>3 DEF Send, Fits, Sizes
<1>5. CASE kind = "plain" /\ Len(parts) > 1
  <2>. DEFINE q == parts[2]
              a == From(h, Len(h) - HeaderLen + 1)
              b == From(q, HeaderLen + 1)
              o == Overwritten(h, q)
              t == From(parts, 3)
              one == <<o>>
  <2>1. parts' = one \o t
    BY <1>5 DEF Send
  <2>2. HeaderLen \in Nat /\ HeaderLen <= Len(h) /\ HeaderLen <= Len(q) /\ q \in S /\ Len(q) \in Nat
    BY <1>1, <1>2, <1>5, PacketConnAssumption DEF PartsOK
  <2>. HIDE DEF h, q
  <2>3. Len(h) - HeaderLen \in 0 .. Len(h) /\ HeaderLen \in 0 .. Len(q)
    BY <1>3, <2>2
  <2>4. a \in S /\ Len(a) = HeaderLen
    <3>1. a \in S /\ Len(a) = Len(h) - (Len(h) - HeaderLen)
      BY <1>3, <2>3, CutSeq
    <3>. QED  BY <1>3, <2>2, <3>1
  <2>5. b \in S /\ Len(b) = Len(q) - HeaderLen
    BY <2>2, <2>3, CutSeq
  <2>6. o = a \o b
    BY DEF Overwritten
  <2>. HIDE DEF a, b, o
  <2>7. o \in S /\ Len(o) = Len(q)
    <3>1. o \in S /\ Len(o) = Len(a) + Len(b)
      BY <2>4, <2>5, <2>6, ConcatProperties
    <3>. QED  BY <2>2, <2>4, <2>5, <3>1
  <2>. HIDE DEF S
  <2>8. t \in Seq(S) /\ Len(t) = Len(parts) - 2 /\ \A i \in 1 .. Len(parts) - 2 : t[i] = parts[2 + i]
    <3>1. 2 \in 0 .. Len(parts) /\ 2 + 1 = 3
      BY <1>1, <1>5
    <3>. QED  BY <1>1, <3>1, CutSeq
  <2>9. one \in Seq(S) /\ Len(one) = 1 /\ one[1] = o
    BY <2>7
  <2>. HIDE DEF one, t
  <2>10. /\ parts' \in Seq(S) /\ Len(parts') = 1 + (Len(parts) - 2)
         /\ \A i \in 1 .. 1 + (Len(parts) - 2) : parts'[i] = IF i <= 1 THEN one[i] ELSE t[i - 1]
    <3>1. /\ one \o t \in Seq(S) /\ Len(one \o t) = Len(one) + Len(t)
          /\ \A i \in 1 .. Len(one) + Len(t) :
               (one \o t)[i] = IF i <= Len(one) THEN one[i] ELSE t[i - Len(one)]
      BY ONLY <2>8, <2>9, ConcatProperties
    <3>2. Len(one) = 1 /\ Len(t) = Len(parts) - 2 /\ parts' = one \o t
      BY <2>1, <2>8, <2>9
    <3>. QED  BY ONLY <3>1, <3>2
  <2>11. Len(parts') = Len(parts) - 1 /\ parts'[1] = o
    BY <1>1, <1>5, <2>9, <2>10
  <2>12. ASSUME NEW i \in 1 .. Len(parts) - 1, i > 1 PROVE parts'[i] = parts[i + 1]
    <3>1. i \in 1 .. 1 + (Len(parts) - 2) /\ ~(i <= 1) /\ i - 1 \in 1 .. Len(parts) - 2
          /\ 2 + (i - 1) = i + 1
      BY <1>1, <1>5, <2>12
    <3>2. parts'[i] = t[i - 1] /\ t[i - 1] = parts[2 + (i - 1)]
      BY <2>8, <2>10, <3>1
    <3>. QED  BY <3>1, <3>2
  <2>13. \A i \in 1 .. Len(parts) - 1 : Len(parts'[i]) = Len(parts[i + 1])
    <3>1. SUFFICES ASSUME NEW i \in 1 .. Len(parts) - 1 PROVE Len(parts'[i]) = Len(parts[i + 1])
      OBVIOUS
    <3>2. CASE i = 1
      BY <2>7, <2>11, <3>2 DEF q
    <3>3. CASE i # 1
      <4>1. i > 1
        BY <3>3
      <4>. QED  BY <2>12, <4>1
    <3>. QED  BY <3>2, <3>3
  <2>. QED  BY <1>1, <1>2, <1>3, <1>4, <1>5, <2>10, <2>11, <2>12, <2>13 DEF h, S
<1>6. CASE ~(kind = "plain" /\ Len(parts) > 1)
  <2>. DEFINE t == Tail(parts)
  <2>1. parts' = t
    BY <1>6 DEF Send
  <2>. HIDE DEF S
  <2>2. t \in Seq(S) /\ Len(t) = Len(parts) - 1 /\ \A i \in 1 .. Len(t) : t[i] = parts[i + 1]
    BY <1>1, HeadTailProperties
  <2>. HIDE DEF t
  <2>. QED  BY <1>1, <1>2, <1>3, <1>4, <2>1, <2>2 DEF S
<1>. QED  BY <1>5, <1>6

-----------------------------------------------------------------------------
(***************************************************************************)
(* Every step keeps the bytes under way framed.                            *)
(***************************************************************************)
Dropped ==
  /\ Incoming # <<>> /\ HeaderLen + Incoming[1].val <= Len(Incoming)
  /\ Incoming' = From(Incoming, HeaderLen + Incoming[1].val + 1)

(* Steps that only move bytes between the buffers keep the framing. *)
LEMMA FramedStays ==
  ASSUME Typed, FramedOK, kind' = kind,
         \/ Incoming' = Incoming /\ (writer' # "crashed" => writer # "crashed")
         \/ Dropped /\ writer' = writer
         \/ /\ writer # "crashed"
            /\ \E data \in Seq(1 .. MaxBytes) :
                 Len(data) \in Sizes /\ Incoming' = Incoming \o Packet(data)
         \/ /\ writer' = "crashed"
            /\ \E m \in 0 .. Len(Incoming) : Incoming' = SubSeq(Incoming, 1, m)
  PROVE  FramedOK'
<1>1. Sizes' = Sizes
  BY DEF Sizes
<1>2. Sizes \in SUBSET Nat /\ Incoming \in Seq(Byte)
  BY JoinedIs DEF Typed, Incoming, Sizes
<1>3. Framed(Incoming, Sizes) /\ (writer # "crashed" => Whole(Incoming))
  BY DEF FramedOK
<1>4. SUFFICES Framed(Incoming', Sizes) /\ (writer' # "crashed" => Whole(Incoming'))
  BY <1>1 DEF FramedOK, Framed, Whole
<1>5. CASE Incoming' = Incoming /\ (writer' # "crashed" => writer # "crashed")
  BY <1>3, <1>5
<1>6. CASE Dropped /\ writer' = writer
  BY <1>2, <1>3, <1>6, FramedDrop DEF Dropped
<1>7. ASSUME writer # "crashed", NEW data \in Seq(1 .. MaxBytes),
             Len(data) \in Sizes, Incoming' = Incoming \o Packet(data)
      PROVE  Framed(Incoming', Sizes) /\ (writer' # "crashed" => Whole(Incoming'))
  <2>1. Packet(data) \in Seq(Byte) /\ Framed(Packet(data), Sizes) /\ Whole(Packet(data))
    BY <1>2, <1>7, FramedPacket
  <2>. QED  BY <1>2, <1>3, <1>7, <2>1, FramedAppend
<1>8. ASSUME writer' = "crashed", NEW m \in 0 .. Len(Incoming), Incoming' = SubSeq(Incoming, 1, m)
      PROVE  Framed(Incoming', Sizes) /\ (writer' # "crashed" => Whole(Incoming'))
  BY <1>2, <1>3, <1>8, FramedPrefix
<1>. QED  BY <1>5, <1>6, <1>7, <1>8

(* Write keeps the frames: it touches nothing under way. *)
LEMMA FrameWrite ==
  ASSUME FrameInv, NEW n \in MessageLens, Write(n)
  PROVE  FrameInv'
<1>. DEFINE data == [i \in 1 .. n |-> Len(written) + i]
<1>0. Typed /\ BuffersOK /\ FramedOK /\ CutOK /\ FailsOnlyIfCut
  BY DEF FrameInv
<1>1. /\ writer = "open" /\ Len(written) + n <= MaxBytes
      /\ written' = written \o data /\ parts' = <<data>> /\ intact' = (intact /\ n <= Limit)
      /\ UNCHANGED <<kind, wire, writer, pc, unread, unreadLen, got, overflow, read, cut>>
  BY DEF Write, buffers
<1>2. n \in Nat \ {0} /\ Len(written) \in Nat /\ MaxBytes \in Nat
  BY <1>0, PacketConnAssumption, LenProperties DEF Typed
<1>3. data \in Seq(1 .. MaxBytes) /\ Len(data) = n
  <2>1. \A i \in 1 .. n : Len(written) + i \in 1 .. MaxBytes
    BY <1>1, <1>2
  <2>. QED  BY <1>2, <2>1
<1>. HIDE DEF data
<1>4. written' \in Seq(1 .. MaxBytes) /\ parts' \in Seq(Seq(1 .. MaxBytes))
  BY <1>0, <1>1, <1>3, ConcatProperties DEF Typed
<1>5. Len(parts') = 1 /\ parts'[1] = data
  BY <1>1
<1>6. PartsOK'
  BY <1>2, <1>3, <1>5 DEF PartsOK
<1>7. Typed'
  <2>1. intact' \in BOOLEAN
    BY <1>1
  <2>. QED  BY <1>0, <1>1, <1>4, <2>1 DEF Typed
<1>8. FramedOK'
  BY <1>0, <1>1, FramedStays DEF Incoming
<1>9. BuffersOK' /\ CutOK' /\ FailsOnlyIfCut'
  BY <1>0, <1>1 DEF BuffersOK, CutOK, FailsOnlyIfCut
<1>. QED  BY <1>6, <1>7, <1>8, <1>9 DEF FrameInv

(* Split keeps the frames, and both halves have room for a length. *)
LEMMA FrameSplit ==
  ASSUME FrameInv, Split
  PROVE  FrameInv'
<1>0. Typed /\ PartsOK /\ BuffersOK /\ FramedOK /\ CutOK /\ FailsOnlyIfCut
  BY DEF FrameInv
<1>1. UNCHANGED <<kind, wire, writer, pc, unread, unreadLen, got, overflow, read, cut, written,
                  intact>>
  BY DEF Split, buffers, history
<1>2. PICK m \in 1 .. Len(parts[1]) - 1 :
           /\ parts' \in Seq(Seq(1 .. MaxBytes)) /\ Len(parts') = Len(parts) + 1
           /\ parts'[1] = SubSeq(parts[1], 1, m) /\ parts'[2] = From(parts[1], m + 1)
           /\ \A i \in 3 .. Len(parts) + 1 : parts'[i] = parts[i - 1]
           /\ HeaderLen <= m /\ HeaderLen <= Len(parts[1]) - m
           /\ kind # "encrypted" /\ Len(parts[1]) > MaxPacket
  BY <1>0, SplitEffect
<1>3. parts # <<>> /\ Len(parts) \in Nat \ {0} /\ parts[1] \in Seq(1 .. MaxBytes)
      /\ Len(parts[1]) \in Nat /\ HeaderLen \in Nat \ {0}
  <2>1. parts # <<>> /\ parts \in Seq(Seq(1 .. MaxBytes)) /\ HeaderLen \in Nat \ {0}
    BY <1>0, PacketConnAssumption DEF Typed, Split
  <2>2. Len(parts) \in Nat \ {0}
    BY <2>1, EmptySeq, LenProperties
  <2>3. 1 \in 1 .. Len(parts)
    BY <2>2
  <2>4. parts[1] \in Seq(1 .. MaxBytes)
    BY <2>1, <2>3, ElementOfSeq
  <2>. QED  BY <2>1, <2>2, <2>4, LenProperties
<1>4. Len(parts'[1]) = m /\ Len(parts'[2]) = Len(parts[1]) - m
  <2>. DEFINE h == parts[1]
  <2>1. m \in 0 .. Len(h) /\ h \in Seq(1 .. MaxBytes)
    BY <1>3
  <2>2. parts'[1] = SubSeq(h, 1, m) /\ parts'[2] = From(h, m + 1)
    BY <1>2
  <2>. HIDE DEF h
  <2>3. Len(SubSeq(h, 1, m)) = m /\ Len(From(h, m + 1)) = Len(h) - m
    BY ONLY <2>1, CutSeq
  <2>. QED  BY <2>2, <2>3 DEF h
<1>5. \A i \in 1 .. Len(parts') : Len(parts'[i]) >= HeaderLen /\ Len(parts'[i]) > 0
  <2>1. SUFFICES ASSUME NEW i \in 1 .. Len(parts')
                 PROVE  Len(parts'[i]) >= HeaderLen /\ Len(parts'[i]) > 0
    OBVIOUS
  <2>2. CASE i = 1
    BY <1>2, <1>3, <1>4, <2>2
  <2>3. CASE i = 2
    BY <1>2, <1>3, <1>4, <2>3
  <2>4. CASE i > 2
    <3>1. i \in 3 .. Len(parts) + 1 /\ i - 1 \in 1 .. Len(parts) /\ Len(parts) > 1
      BY <1>2, <1>3, <2>4
    <3>2. parts'[i] = parts[i - 1]
      BY <1>2, <3>1
    <3>. QED  BY <1>0, <3>1, <3>2 DEF PartsOK
  <2>. QED  BY <1>3, <2>2, <2>3, <2>4
<1>6. PartsOK'
  BY <1>1, <1>2, <1>5 DEF PartsOK
<1>7. FramedOK'
  BY <1>0, <1>1, FramedStays DEF Incoming
<1>8. Typed'
  BY <1>0, <1>1, <1>2 DEF Typed
<1>9. BuffersOK' /\ CutOK' /\ FailsOnlyIfCut'
  BY <1>0, <1>1 DEF BuffersOK, CutOK, FailsOnlyIfCut
<1>. QED  BY <1>6, <1>7, <1>8, <1>9 DEF FrameInv

(* Send adds one whole packet behind the bytes under way. *)
LEMMA FrameSend ==
  ASSUME FrameInv, Send
  PROVE  FrameInv' /\ Incoming' = Incoming \o Packet(parts[1])
<1>. DEFINE p == Packet(parts[1])
<1>0. Typed /\ PartsOK /\ BuffersOK /\ FramedOK /\ CutOK /\ FailsOnlyIfCut
  BY DEF FrameInv
<1>1. /\ UNCHANGED <<kind, writer, pc, unread, unreadLen, got, overflow, read, cut, written,
                     intact>>
      /\ writer = "open" /\ wire' = wire \o Packet(Head(parts))
  BY DEF Send, buffers, history
<1>2. /\ parts # <<>> /\ Len(parts) \in Nat \ {0} /\ Head(parts) = parts[1]
      /\ parts[1] \in Seq(1 .. MaxBytes) /\ Len(parts[1]) \in Sizes
      /\ parts' \in Seq(Seq(1 .. MaxBytes)) /\ Len(parts') = Len(parts) - 1
      /\ \A i \in 1 .. Len(parts) - 1 : Len(parts'[i]) = Len(parts[i + 1])
  BY <1>0, SendEffect
<1>3. Sizes \in SUBSET Nat
  BY DEF Sizes
<1>4. p \in Seq(Byte) /\ Len(p) = HeaderLen + Len(parts[1]) /\ Framed(p, Sizes)
  BY <1>2, <1>3, FramedPacket
<1>5. wire' = wire \o p
  BY <1>1, <1>2
<1>. HIDE DEF p
<1>6. Incoming' = Incoming \o p
  <2>1. overflow \o got \in Seq(Byte) /\ wire \in Seq(Byte)
    BY <1>0, ConcatProperties DEF Typed
  <2>2. ((overflow \o got) \o wire) \o p = (overflow \o got) \o (wire \o p)
    <3>. DEFINE q == overflow \o got
    <3>1. q \in Seq(Byte) /\ wire \in Seq(Byte) /\ p \in Seq(Byte)
      BY <1>4, <2>1
    <3>. HIDE DEF q
    <3>2. (q \o wire) \o p = q \o (wire \o p)
      BY ONLY <3>1, ConcatAssociative
    <3>. QED  BY <3>2 DEF q
  <2>. QED  BY <1>1, <1>5, <2>2 DEF Incoming, Joined
<1>7. FramedOK'
  <2>1. writer # "crashed" /\ Incoming' = Incoming \o Packet(parts[1])
    BY <1>1, <1>6 DEF p
  <2>. QED  BY <1>0, <1>1, <1>2, <2>1, FramedStays
<1>8. Typed'
  <2>1. wire' \in Seq(Byte)
    BY <1>0, <1>4, <1>5, ConcatProperties DEF Typed
  <2>. QED  BY <1>0, <1>1, <1>2, <2>1 DEF Typed
<1>9. PartsOK'
  <2>1. \A i \in 1 .. Len(parts) - 1 : i + 1 \in 1 .. Len(parts)
    BY <1>2
  <2>2. Len(parts') > 1 => Len(parts) > 1
    BY <1>2
  <2>. QED  BY <1>0, <1>1, <1>2, <2>1, <2>2 DEF PartsOK
<1>10. CutOK'
  <2>1. CASE wire # <<>>
    <3>1. wire'[1] = wire[1]
      BY <1>0, <1>4, <1>5, <2>1, CutConcat DEF Typed
    <3>. QED  BY <1>0, <1>1, <2>1, <3>1 DEF CutOK
  <2>2. CASE wire = <<>>
    <3>1. wire' = p
      BY <1>4, <1>5, <2>2, ConcatEmptySeq
    <3>2. p # <<>> => p[1].place = 1
      BY <1>4 DEF Framed
    <3>. QED  BY <3>1, <3>2 DEF CutOK
  <2>. QED  BY <2>1, <2>2
<1>11. BuffersOK' /\ FailsOnlyIfCut'
  BY <1>0, <1>1 DEF BuffersOK, FailsOnlyIfCut
<1>. QED  BY <1>6, <1>7, <1>8, <1>9, <1>10, <1>11 DEF FrameInv, p

(* Close leaves the bytes under way, and a crash cuts off their end. *)
LEMMA FrameFinish ==
  ASSUME FrameInv, Close \/ Crash
  PROVE  /\ FrameInv'
         /\ \E m \in 0 .. Len(Incoming) : Incoming' = SubSeq(Incoming, 1, m)
<1>0. Typed /\ PartsOK /\ BuffersOK /\ FramedOK /\ CutOK /\ FailsOnlyIfCut
  BY DEF FrameInv
<1>00. Incoming \in Seq(Byte) /\ Len(Incoming) \in Nat
  BY <1>0, JoinedIs, LenProperties DEF Typed, Incoming
<1>1. UNCHANGED <<kind, pc, unread, unreadLen, got, overflow, read, cut, written, intact>>
      /\ writer = "open"
  BY DEF Close, Crash, buffers, history
<1>2. CASE Close
  <2>1. writer' = "closed" /\ parts' = parts /\ wire' = wire
    BY <1>2 DEF Close
  <2>2. Incoming' = Incoming
    BY <1>1, <2>1 DEF Incoming
  <2>3. FramedOK'
    BY <1>0, <1>1, <2>2, FramedStays
  <2>4. Typed' /\ PartsOK' /\ BuffersOK' /\ CutOK' /\ FailsOnlyIfCut'
    BY <1>0, <1>1, <2>1 DEF Typed, PartsOK, BuffersOK, CutOK, FailsOnlyIfCut
  <2>5. Incoming = SubSeq(Incoming, 1, Len(Incoming)) /\ Len(Incoming) \in 0 .. Len(Incoming)
    BY <1>00, SubSeqFull
  <2>. QED  BY <2>2, <2>3, <2>4, <2>5 DEF FrameInv
<1>3. CASE Crash
  <2>1. writer' = "crashed" /\ parts' = <<>>
    BY <1>3 DEF Crash
  <2>2. PICK a \in 0 .. Len(wire) : wire' = SubSeq(wire, 1, a)
    BY <1>3 DEF Crash
  <2>3. overflow \o got \in Seq(Byte) /\ wire \in Seq(Byte)
    BY <1>0, ConcatProperties DEF Typed
  <2>4. wire' \in Seq(Byte)
    BY <2>2, <2>3, CutSeq
  <2>5. Incoming' = SubSeq(Incoming, 1, Len(overflow \o got) + a)
    BY <1>1, <2>2, <2>3, CutConcat DEF Incoming, Joined
  <2>6. Len(overflow \o got) + a \in 0 .. Len(Incoming)
    <3>1. Len(Incoming) = Len(overflow \o got) + Len(wire)
      BY <2>3, ConcatProperties DEF Incoming, Joined
    <3>2. Len(overflow \o got) \in Nat /\ Len(wire) \in Nat
      BY <2>3, LenProperties
    <3>. QED  BY <3>1, <3>2
  <2>7. FramedOK'
    BY <1>0, <1>1, <2>1, <2>5, <2>6, FramedStays
  <2>8. Typed'
    BY <1>0, <1>1, <2>1, <2>4 DEF Typed
  <2>9. PartsOK'
    <3>1. Len(parts') = 0
      BY <2>1, EmptySeq
    <3>. QED  BY <3>1 DEF PartsOK
  <2>10. BuffersOK' /\ CutOK' /\ FailsOnlyIfCut'
    BY <1>0, <1>1, <2>1 DEF BuffersOK, CutOK, FailsOnlyIfCut
  <2>. QED  BY <2>5, <2>6, <2>7, <2>8, <2>9, <2>10 DEF FrameInv
<1>. QED  BY <1>2, <1>3

(* A read that ended at no length has the first length as a whole. *)
LEMMA HeaderComplete ==
  ASSUME kind # "encrypted", NEW s \in Seq(Byte), Framed(s, Sizes), Whole(s),
         NEW m \in 1 .. Len(s), m < Len(s) => s[m + 1].place \in {0, 1}
  PROVE  m >= HeaderLen /\ s[1].val <= MaxPacket
<1>1. s # <<>> /\ HeaderLen \in Nat \ {0} /\ Sizes \in SUBSET Nat
  BY PacketConnAssumption, EmptySeq DEF Sizes
<1>2. /\ s[1].val \in Sizes /\ Len(s) \in Nat \ {0}
      /\ \A j \in 1 .. Len(s) : j <= HeaderLen => s[j].place = j
      /\ HeaderLen + s[1].val <= Len(s)
  BY <1>1, FirstPacket
<1>3. s[1].val \in Nat /\ s[1].val <= MaxPacket
  BY <1>2 DEF Sizes
<1>4. ASSUME m < HeaderLen PROVE FALSE
  <2>1. m + 1 \in 1 .. Len(s) /\ m + 1 <= HeaderLen /\ m < Len(s)
    BY <1>1, <1>2, <1>3, <1>4
  <2>2. s[m + 1].place = m + 1
    BY <1>2, <2>1
  <2>. QED  BY <2>1, <2>2
<1>. QED  BY <1>1, <1>2, <1>3, <1>4

(* The bytes before those on the wire are framed too. *)
LEMMA FramedFront ==
  ASSUME NEW s \in Seq(Byte), NEW t \in Seq(Byte), Framed(s \o t, Sizes)
  PROVE  Framed(s, Sizes)
<1>1. s \o t \in Seq(Byte) /\ Len(s \o t) = Len(s) + Len(t) /\ Len(s) \in Nat /\ Len(t) \in Nat
  BY ConcatProperties, LenProperties
<1>2. SubSeq(t, 1, 0) = <<>>
  BY SubSeqEmpty
<1>3. s \o SubSeq(t, 1, 0) = SubSeq(s \o t, 1, Len(s) + 0)
  BY <1>1, CutConcat
<1>4. s \o <<>> = s
  BY ConcatEmptySeq
<1>5. s = SubSeq(s \o t, 1, Len(s))
  BY <1>1, <1>2, <1>3, <1>4
<1>6. Len(s) \in 0 .. Len(s \o t) /\ Sizes \in SUBSET Nat
  BY <1>1 DEF Sizes
<1>7. Framed(SubSeq(s \o t, 1, Len(s)), Sizes)
  BY <1>1, <1>6, FramedPrefix
<1>. QED  BY <1>5, <1>7

(* Returning unread bytes leaves the frames. *)
LEMMA FrameUnread ==
  ASSUME FrameInv, ReadUnread
  PROVE  FrameInv'
<1>0. Typed /\ PartsOK /\ BuffersOK /\ FramedOK /\ CutOK /\ FailsOnlyIfCut
  BY DEF FrameInv
<1>1. /\ UNCHANGED <<kind, parts, wire, writer, pc, unreadLen, got, overflow, written, intact, cut>>
      /\ pc = "idle" /\ readUnread(unread)
  BY DEF ReadUnread
<1>2. PICK n \in 0 .. Len(unread) :
           /\ read' \in Seq(1 .. MaxBytes) /\ unread' \in Seq(1 .. MaxBytes)
           /\ Len(unread') <= Len(unread)
  BY <1>0, <1>1, readUnreadEffect DEF Typed
<1>3. Len(unread') <= unreadLen'
  <2>1. Len(unread') \in Nat /\ Len(unread) \in Nat
    BY <1>0, <1>2, LenProperties DEF Typed
  <2>. QED  BY <1>0, <1>1, <1>2, <2>1 DEF BuffersOK, Typed
<1>4. FramedOK'
  BY <1>0, <1>1, FramedStays DEF Incoming
<1>5. Typed' /\ PartsOK' /\ CutOK' /\ FailsOnlyIfCut'
  BY <1>0, <1>1, <1>2 DEF Typed, PartsOK, CutOK, FailsOnlyIfCut
<1>6. BuffersOK'
  BY <1>0, <1>1, <1>3 DEF BuffersOK
<1>. QED  BY <1>4, <1>5, <1>6 DEF FrameInv

(* encrypted.Conn takes one whole packet from the front. *)
LEMMA FrameMessage ==
  ASSUME FrameInv, ReadMessage
  PROVE  FrameInv' /\ Dropped /\ Incoming = wire
<1>0. Typed /\ PartsOK /\ BuffersOK /\ FramedOK /\ CutOK /\ FailsOnlyIfCut
  BY DEF FrameInv
<1>1. /\ UNCHANGED <<kind, parts, writer, pc, got, overflow, written, intact, cut>>
      /\ kind = "encrypted" /\ pc = "idle" /\ unread = <<>>
      /\ Len(wire) >= HeaderLen /\ Len(wire) >= HeaderLen + wire[1].val
      /\ ReturnPacket(SubSeq(wire, HeaderLen + 1, HeaderLen + wire[1].val))
      /\ wire' = From(wire, HeaderLen + wire[1].val + 1)
  BY DEF ReadMessage, NeedsPacket, Complete
<1>2. /\ got = <<>> /\ overflow = <<>> /\ wire \in Seq(Byte)
      /\ got \in Seq(Byte) /\ overflow \in Seq(Byte)
  BY <1>0, <1>1 DEF BuffersOK, Typed
<1>3. Incoming = wire
  BY <1>2, JoinedIs DEF Incoming
<1>4. wire # <<>> /\ Len(wire) \in Nat /\ HeaderLen \in Nat \ {0}
  <2>1. Len(wire) \in Nat /\ HeaderLen \in Nat \ {0}
    BY <1>2, PacketConnAssumption, LenProperties
  <2>2. Len(wire) # 0 /\ Len(<<>>) = 0
    BY <1>1, <2>1, EmptySeq
  <2>. QED  BY <2>1, <2>2
<1>5. Framed(wire, Sizes) /\ Sizes \in SUBSET Nat
  BY <1>0, <1>3 DEF FramedOK, Sizes
<1>6. wire[1].val \in Nat
  BY <1>2, <1>4, <1>5, FirstPacket
<1>7. HeaderLen + wire[1].val <= Len(wire) /\ HeaderLen + wire[1].val \in 0 .. Len(wire)
  BY <1>1, <1>4, <1>6
<1>8. wire' \in Seq(Byte)
  BY <1>1, <1>2, <1>7, CutSeq
<1>9. Incoming' = wire'
  <2>1. Joined(overflow, got, wire') = wire'
    BY <1>2, <1>8, JoinedIs
  <2>. QED  BY <1>1, <2>1 DEF Incoming
<1>10. Dropped
  BY <1>1, <1>3, <1>4, <1>7, <1>9 DEF Dropped
<1>11. FramedOK'
  BY <1>0, <1>1, <1>10, FramedStays
<1>12. /\ unreadLen' \in Nat /\ unreadLen <= unreadLen' /\ Len(unread') <= unreadLen'
       /\ read' \in Seq(1 .. MaxBytes) /\ unread' \in Seq(1 .. MaxBytes)
  BY <1>0, <1>1, <1>2, <1>4, <1>5, <1>7, ReturnEffect
<1>13. Typed' /\ PartsOK' /\ FailsOnlyIfCut'
  BY <1>0, <1>1, <1>8, <1>12 DEF Typed, PartsOK, FailsOnlyIfCut
<1>14. CutOK'
  BY <1>9, <1>11 DEF CutOK, FramedOK, Framed
<1>15. BuffersOK'
  <2>1. UnreadLen \in Nat /\ UnreadLen <= unreadLen /\ unreadLen \in Nat
    BY <1>0, PacketConnAssumption DEF BuffersOK, Typed
  <2>2. UnreadLen <= unreadLen'
    BY <1>12, <2>1
  <2>3. Len(<<>>) = 0 /\ 0 <= unreadLen'
    BY <1>12, EmptySeq
  <2>. QED  BY <1>1, <1>2, <1>12, <2>2, <2>3 DEF BuffersOK
<1>. QED  BY <1>3, <1>10, <1>11, <1>13, <1>14, <1>15 DEF FrameInv

(* The length is examined: what Read has of the stream does not change,    *)
(* and it is refused only if a read ended within the length.               *)
LEMMA FrameExamine ==
  ASSUME FrameInv, kind # "encrypted", NEW bytes \in Seq(Byte), Examine(bytes),
         bytes # <<>>, Len(bytes) <= unreadLen, wire' \in Seq(Byte), overflow' = <<>>,
         unread = <<>>, Incoming = bytes \o wire', cut' \in BOOLEAN, cut => cut',
         ~cut' /\ writer # "crashed" /\ wire' # <<>> => wire'[1].place \in {0, 1},
         UNCHANGED <<kind, parts, writer, unread, written, read, intact>>
  PROVE  FrameInv' /\ Incoming' = Incoming /\ pc' \in {"packet", "error"}
<1>0. Typed /\ PartsOK /\ BuffersOK /\ FramedOK /\ CutOK /\ FailsOnlyIfCut
  BY DEF FrameInv
<1>1. /\ got' = bytes /\ Incoming \in Seq(Byte) /\ HeaderLen \in Nat \ {0} /\ MaxPacket \in Nat
      /\ UnreadLen \in Nat /\ UnreadLen <= unreadLen /\ unreadLen \in Nat /\ Sizes \in SUBSET Nat
  BY <1>0, JoinedIs, PacketConnAssumption DEF Examine, Typed, Incoming, BuffersOK, Sizes
<1>2. Incoming' = Incoming
  <2>1. overflow' \in Seq(Byte)
    BY EmptySeq
  <2>2. Joined(overflow', got', wire') = bytes \o wire'
    <3>1. /\ overflow' \in Seq(Byte) /\ bytes \in Seq(Byte) /\ wire' \in Seq(Byte)
          /\ overflow' = <<>> /\ got' = bytes
      BY <1>1, <2>1
    <3>. QED  BY ONLY <3>1, JoinedIs
  <2>. QED  BY <2>2 DEF Incoming
<1>3. FramedOK'
  BY <1>0, <1>2, FramedStays
<1>4. /\ Len(bytes) \in Nat \ {0} /\ bytes[1] = Incoming[1] /\ Incoming # <<>>
      /\ Len(Incoming) = Len(bytes) + Len(wire') /\ Len(wire') \in Nat
  BY EmptySeq, LenProperties, CutConcat, ConcatProperties
<1>5. Framed(Incoming, Sizes) /\ (writer # "crashed" => Whole(Incoming))
  BY <1>0 DEF FramedOK
<1>6. bytes[1].val \in Nat
  BY <1>1, <1>4, <1>5, FirstPacket
<1>. DEFINE refused == Len(bytes) < HeaderLen \/ bytes[1].val > MaxPacket
<1>7. /\ pc' = IF refused THEN "error" ELSE "packet"
      /\ unreadLen' = IF refused THEN unreadLen ELSE GreaterOf(unreadLen, HeaderLen + bytes[1].val)
  BY DEF Examine
<1>8. unreadLen' \in Nat /\ unreadLen <= unreadLen'
  BY <1>1, <1>6, <1>7 DEF GreaterOf
<1>9. refused => writer = "crashed" \/ cut'
  <2>1. SUFFICES ASSUME writer # "crashed", ~cut' PROVE ~refused
    OBVIOUS
  <2>2. Len(bytes) \in 1 .. Len(Incoming)
    BY <1>4
  <2>3. Len(bytes) < Len(Incoming) => Incoming[Len(bytes) + 1].place \in {0, 1}
    <3>1. SUFFICES ASSUME Len(bytes) < Len(Incoming)
                   PROVE  Incoming[Len(bytes) + 1].place \in {0, 1}
      OBVIOUS
    <3>2. Len(wire') > 0 /\ Len(bytes) + 1 \in 1 .. Len(bytes) + Len(wire')
          /\ ~(Len(bytes) + 1 <= Len(bytes)) /\ Len(bytes) + 1 - Len(bytes) = 1
      BY <1>4, <3>1
    <3>3. wire' # <<>>
      BY <3>2, EmptySeq
    <3>4. Incoming[Len(bytes) + 1] = wire'[1]
      BY <3>2, ConcatProperties
    <3>. QED  BY <2>1, <3>3, <3>4
  <2>4. Len(bytes) >= HeaderLen /\ Incoming[1].val <= MaxPacket
    BY <1>1, <1>5, <2>1, <2>2, <2>3, HeaderComplete
  <2>. QED  BY <1>1, <1>4, <1>6, <2>4
<1>10. Typed' /\ PartsOK'
  BY <1>0, <1>1, <1>7, <1>8 DEF Typed, PartsOK
<1>11. CutOK'
  BY DEF CutOK
<1>12. FailsOnlyIfCut'
  BY <1>7, <1>9 DEF FailsOnlyIfCut
<1>13. BuffersOK'
  <2>1. Len(unread') <= unreadLen' /\ Len(overflow') <= unreadLen'
    <3>1. Len(<<>>) = 0 /\ 0 <= unreadLen'
      BY <1>8, EmptySeq
    <3>. QED  BY <3>1
  <2>2. Len(got') <= unreadLen' /\ UnreadLen <= unreadLen'
    BY <1>1, <1>4, <1>8
  <2>3. pc' = "packet" => Len(got') >= HeaderLen
    BY <1>1, <1>4, <1>7
  <2>. QED  BY <1>7, <2>1, <2>2, <2>3 DEF BuffersOK
<1>. QED  BY <1>2, <1>3, <1>7, <1>10, <1>11, <1>12, <1>13 DEF FrameInv

(* The first read of a packet moves bytes from the wire to the buffer. *)
LEMMA FrameFirst ==
  ASSUME FrameInv, ReadFirst
  PROVE  FrameInv' /\ Incoming' = Incoming /\ pc' \in {"packet", "error"}
<1>0. Typed /\ PartsOK /\ BuffersOK /\ FramedOK /\ CutOK /\ FailsOnlyIfCut
  BY DEF FrameInv
<1>1. /\ UNCHANGED <<kind, parts, writer, unread, overflow, written, read, intact>>
      /\ kind # "encrypted" /\ pc = "idle" /\ unread = <<>> /\ overflow = <<>>
  BY DEF ReadFirst, NeedsPacket
<1>2. /\ got = <<>> /\ wire \in Seq(Byte) /\ got \in Seq(Byte) /\ overflow \in Seq(Byte)
      /\ unreadLen \in Nat /\ Len(wire) \in Nat
  BY <1>0, <1>1, LenProperties DEF BuffersOK, Typed
<1>3. PICK n \in 1 .. LesserOf(unreadLen, Len(wire)) :
        /\ wire' = From(wire, n + 1) /\ Examine(SubSeq(wire, 1, n))
        /\ cut' = (cut \/ (n < Len(wire) /\ wire[n + 1].place > 1))
  BY DEF ReadFirst, Receive
<1>. DEFINE bytes == SubSeq(wire, 1, n)
<1>4. n \in 1 .. Len(wire) /\ n <= unreadLen
  BY <1>2, <1>3 DEF LesserOf
<1>5. /\ bytes \in Seq(Byte) /\ Len(bytes) = n /\ From(wire, n + 1) \in Seq(Byte)
      /\ Len(From(wire, n + 1)) = Len(wire) - n
      /\ \A i \in 1 .. Len(wire) - n : From(wire, n + 1)[i] = wire[n + i]
      /\ bytes \o From(wire, n + 1) = wire
  <2>1. n \in 0 .. Len(wire)
    BY <1>2, <1>4
  <2>. QED  BY <1>2, <2>1, CutSeq
<1>. HIDE DEF bytes
<1>6. bytes # <<>>
  <2>1. Len(bytes) # 0 /\ Len(<<>>) = 0
    BY <1>2, <1>4, <1>5, EmptySeq
  <2>. QED  BY <2>1
<1>7. Incoming = bytes \o wire' /\ wire' \in Seq(Byte)
  <2>1. Joined(overflow, got, wire) = wire
    BY <1>1, <1>2, JoinedIs
  <2>. QED  BY <1>3, <1>5, <2>1 DEF Incoming
<1>8. cut' \in BOOLEAN /\ (cut => cut')
  BY <1>0, <1>3 DEF Typed
<1>9. ~cut' /\ writer # "crashed" /\ wire' # <<>> => wire'[1].place \in {0, 1}
  <2>1. SUFFICES ASSUME ~cut', wire' # <<>> PROVE wire'[1].place \in {0, 1}
    OBVIOUS
  <2>2. Len(wire') > 0
    BY <1>7, <2>1, EmptySeq
  <2>3. n < Len(wire) /\ n + 1 \in 1 .. Len(wire) /\ wire'[1] = wire[n + 1]
    BY <1>2, <1>3, <1>4, <1>5, <2>2
  <2>4. ~(wire[n + 1].place > 1)
    BY <1>3, <2>1, <2>3
  <2>5. wire[n + 1].place \in 0 .. HeaderLen
    <3>1. wire[n + 1] \in Byte
      BY <1>2, <2>3, ElementOfSeq
    <3>. QED  BY <3>1 DEF Byte
  <2>6. HeaderLen \in Nat
    BY PacketConnAssumption
  <2>. QED  BY <2>3, <2>4, <2>5, <2>6
<1>10. Examine(bytes) /\ Len(bytes) <= unreadLen /\ overflow' = <<>>
  BY <1>1, <1>3, <1>4, <1>5 DEF bytes
<1>. QED  BY <1>1, <1>5, <1>6, <1>7, <1>8, <1>9, <1>10, FrameExamine

(* The overflow becomes the start of the next packet. *)
LEMMA FrameOverflow ==
  ASSUME FrameInv, TakeOverflow
  PROVE  FrameInv' /\ Incoming' = Incoming /\ pc' \in {"packet", "error"}
<1>0. Typed /\ PartsOK /\ BuffersOK /\ FramedOK /\ CutOK /\ FailsOnlyIfCut
  BY DEF FrameInv
<1>1. /\ UNCHANGED <<kind, parts, wire, writer, unread, written, read, intact, cut>>
      /\ kind # "encrypted" /\ pc = "idle" /\ unread = <<>> /\ overflow # <<>>
      /\ overflow' = <<>> /\ Examine(overflow)
  BY DEF TakeOverflow, NeedsPacket, history
<1>2. /\ got = <<>> /\ wire \in Seq(Byte) /\ got \in Seq(Byte) /\ overflow \in Seq(Byte)
      /\ Len(overflow) <= unreadLen /\ cut' \in BOOLEAN /\ wire' \in Seq(Byte)
  BY <1>0, <1>1 DEF BuffersOK, Typed
<1>3. Incoming = overflow \o wire'
  <2>1. Joined(overflow, got, wire) = overflow \o wire
    BY <1>2, JoinedIs
  <2>. QED  BY <1>1, <2>1 DEF Incoming
<1>4. ~cut' /\ writer # "crashed" /\ wire' # <<>> => wire'[1].place \in {0, 1}
  BY <1>0, <1>1 DEF CutOK
<1>. QED  BY <1>1, <1>2, <1>3, <1>4, FrameExamine

(* Further reads move bytes from the wire to the buffer. *)
LEMMA FrameMore ==
  ASSUME FrameInv, ReadMore
  PROVE  FrameInv' /\ Incoming' = Incoming
<1>0. Typed /\ PartsOK /\ BuffersOK /\ FramedOK /\ CutOK /\ FailsOnlyIfCut
  BY DEF FrameInv
<1>1. /\ UNCHANGED <<kind, parts, writer, pc, unread, unreadLen, overflow, written, read, intact>>
      /\ pc = "packet"
  BY DEF ReadMore
<1>2. /\ overflow = <<>> /\ wire \in Seq(Byte) /\ got \in Seq(Byte) /\ overflow \in Seq(Byte)
      /\ unreadLen \in Nat /\ Len(wire) \in Nat /\ Len(got) \in Nat /\ Len(got) <= unreadLen
      /\ HeaderLen \in Nat /\ HeaderLen <= Len(got)
  BY <1>0, <1>1, PacketConnAssumption, LenProperties DEF BuffersOK, Typed
<1>3. PICK n \in 1 .. LesserOf(unreadLen - Len(got), Len(wire)) :
        /\ wire' = From(wire, n + 1) /\ got' = got \o SubSeq(wire, 1, n)
        /\ cut' = (cut \/ (n < Len(wire) /\ wire[n + 1].place > 1))
  BY DEF ReadMore, Receive
<1>. DEFINE bytes == SubSeq(wire, 1, n)
<1>4. n \in 1 .. Len(wire) /\ Len(got) + n <= unreadLen
  BY <1>2, <1>3 DEF LesserOf
<1>5. /\ bytes \in Seq(Byte) /\ Len(bytes) = n /\ From(wire, n + 1) \in Seq(Byte)
      /\ Len(From(wire, n + 1)) = Len(wire) - n
      /\ \A i \in 1 .. Len(wire) - n : From(wire, n + 1)[i] = wire[n + i]
      /\ bytes \o From(wire, n + 1) = wire
  <2>1. n \in 0 .. Len(wire)
    BY <1>2, <1>4
  <2>. QED  BY <1>2, <2>1, CutSeq
<1>6. got' = got \o bytes /\ wire' \in Seq(Byte)
  BY <1>3, <1>5
<1>. HIDE DEF bytes
<1>7. got' \in Seq(Byte) /\ Len(got') = Len(got) + n
  BY <1>2, <1>5, <1>6, ConcatProperties
<1>8. Incoming' = Incoming
  <2>1. (got \o bytes) \o wire' = got \o (bytes \o wire')
    <3>1. got \in Seq(Byte) /\ bytes \in Seq(Byte) /\ wire' \in Seq(Byte)
      BY <1>2, <1>5, <1>6
    <3>. QED  BY ONLY <3>1, ConcatAssociative
  <2>2. bytes \o wire' = wire
    BY <1>3, <1>5
  <2>3. Joined(overflow, got', wire') = got' \o wire'
    <3>1. overflow \in Seq(Byte) /\ got' \in Seq(Byte) /\ wire' \in Seq(Byte) /\ overflow = <<>>
      BY <1>2, <1>6, <1>7
    <3>. QED  BY ONLY <3>1, JoinedIs
  <2>4. Joined(overflow, got, wire) = got \o wire
    BY <1>2, JoinedIs
  <2>. QED  BY <1>1, <1>6, <2>1, <2>2, <2>3, <2>4 DEF Incoming
<1>9. FramedOK'
  BY <1>0, <1>1, <1>8, FramedStays
<1>10. cut' \in BOOLEAN /\ (cut => cut')
  BY <1>0, <1>3 DEF Typed
<1>11. CutOK'
  <2>1. SUFFICES ASSUME ~cut', wire' # <<>> PROVE wire'[1].place \in {0, 1}
    BY DEF CutOK
  <2>2. Len(wire') > 0
    BY <1>6, <2>1, EmptySeq
  <2>3. n < Len(wire) /\ n + 1 \in 1 .. Len(wire) /\ wire'[1] = wire[n + 1]
    BY <1>2, <1>3, <1>4, <1>5, <2>2
  <2>4. ~(wire[n + 1].place > 1)
    BY <1>3, <2>1, <2>3
  <2>5. wire[n + 1].place \in 0 .. HeaderLen
    <3>1. wire[n + 1] \in Byte
      BY <1>2, <2>3, ElementOfSeq
    <3>. QED  BY <3>1 DEF Byte
  <2>. QED  BY <1>2, <2>3, <2>4, <2>5
<1>12. Typed' /\ PartsOK'
  BY <1>0, <1>1, <1>6, <1>7, <1>10 DEF Typed, PartsOK
<1>13. FailsOnlyIfCut'
  BY <1>1 DEF FailsOnlyIfCut
<1>14. BuffersOK'
  <2>1. Len(got') <= unreadLen /\ HeaderLen <= Len(got')
    BY <1>2, <1>4, <1>7
  <2>. QED  BY <1>0, <1>1, <2>1 DEF BuffersOK
<1>. QED  BY <1>8, <1>9, <1>11, <1>12, <1>13, <1>14 DEF FrameInv

(* What is needed to return a packet, shared with the refinement. *)
LEMMA FinishFacts ==
  ASSUME FrameInv, FinishPacket
  PROVE  /\ got \in Seq(Byte) /\ got # <<>> /\ Framed(got, Sizes)
         /\ HeaderLen + got[1].val <= Len(got) /\ Len(got) <= unreadLen
         /\ ReturnPacket(SubSeq(got, HeaderLen + 1, HeaderLen + got[1].val))
         /\ Incoming = got \o wire /\ Incoming # <<>> /\ Incoming[1] = got[1]
<1>0. Typed /\ BuffersOK /\ FramedOK
  BY DEF FrameInv
<1>1. /\ pc = "packet" /\ Complete(got)
      /\ ReturnPacket(SubSeq(got, HeaderLen + 1, HeaderLen + got[1].val))
  BY DEF FinishPacket
<1>2. /\ overflow = <<>> /\ wire \in Seq(Byte) /\ got \in Seq(Byte) /\ overflow \in Seq(Byte)
      /\ Len(got) \in Nat /\ Len(got) <= unreadLen /\ HeaderLen \in Nat \ {0}
  BY <1>0, <1>1, PacketConnAssumption, LenProperties DEF BuffersOK, Typed
<1>3. Len(got) >= HeaderLen /\ Len(got) >= HeaderLen + got[1].val
  BY <1>1 DEF Complete
<1>4. got # <<>>
  <2>1. Len(got) # 0 /\ Len(<<>>) = 0
    BY <1>2, <1>3, EmptySeq
  <2>. QED  BY <2>1
<1>5. Incoming = got \o wire
  BY <1>2, JoinedIs DEF Incoming
<1>6. Framed(got, Sizes)
  BY <1>0, <1>2, <1>5, FramedFront DEF FramedOK
<1>7. got[1].val \in Nat
  <2>1. Sizes \in SUBSET Nat
    BY DEF Sizes
  <2>. QED  BY <1>2, <1>4, <1>6, <2>1, FirstPacket
<1>8. Incoming # <<>> /\ Incoming[1] = got[1]
  BY <1>2, <1>4, <1>5, CutConcat
<1>. QED  BY <1>1, <1>2, <1>3, <1>4, <1>5, <1>6, <1>7, <1>8

(* transform.Conn takes one whole packet from the front. *)
LEMMA FrameFinishPacket ==
  ASSUME FrameInv, FinishPacket
  PROVE  FrameInv' /\ Dropped
<1>. DEFINE m == HeaderLen + got[1].val
            rest == From(got, m + 1)
<1>0. Typed /\ PartsOK /\ BuffersOK /\ FramedOK /\ CutOK /\ FailsOnlyIfCut
  BY DEF FrameInv
<1>1. /\ UNCHANGED <<kind, parts, wire, writer, written, intact, cut>>
      /\ pc = "packet" /\ pc' = "idle" /\ got' = <<>>
      /\ overflow' = IF rest = <<>> THEN overflow ELSE rest
  BY DEF FinishPacket
<1>2. /\ got \in Seq(Byte) /\ got # <<>> /\ Framed(got, Sizes)
      /\ HeaderLen + got[1].val <= Len(got) /\ Len(got) <= unreadLen
      /\ ReturnPacket(SubSeq(got, HeaderLen + 1, HeaderLen + got[1].val))
      /\ Incoming = got \o wire /\ Incoming # <<>> /\ Incoming[1] = got[1]
  BY FinishFacts
<1>3. /\ overflow = <<>> /\ wire \in Seq(Byte) /\ unreadLen \in Nat /\ Len(got) \in Nat
      /\ HeaderLen \in Nat \ {0} /\ UnreadLen \in Nat /\ UnreadLen <= unreadLen
      /\ kind # "encrypted" /\ Sizes \in SUBSET Nat
  BY <1>0, <1>1, <1>2, PacketConnAssumption, LenProperties DEF BuffersOK, Typed, Sizes
<1>4. got[1].val \in Nat
  BY <1>2, <1>3, FirstPacket
<1>5. m \in 0 .. Len(got)
  BY <1>2, <1>3, <1>4
<1>6. overflow' = rest
  BY <1>1, <1>3
<1>. HIDE DEF m
<1>7. rest \in Seq(Byte) /\ Len(rest) = Len(got) - m
  BY <1>2, <1>5, CutSeq
<1>8. Incoming' = rest \o wire
  <2>1. Joined(rest, <<>>, wire) = rest \o wire
    <3>1. rest \in Seq(Byte) /\ <<>> \in Seq(Byte) /\ wire \in Seq(Byte)
      BY <1>3, <1>7, EmptySeq
    <3>. HIDE DEF rest
    <3>. QED  BY ONLY <3>1, JoinedIs
  <2>. QED  BY <1>1, <1>6, <2>1 DEF Incoming
<1>9. Incoming' = From(Incoming, m + 1)
  BY <1>2, <1>3, <1>5, <1>8, CutConcat
<1>10. HeaderLen + Incoming[1].val <= Len(Incoming)
  <2>1. Len(Incoming) = Len(got) + Len(wire) /\ Len(wire) \in Nat
    BY <1>2, <1>3, ConcatProperties, LenProperties
  <2>. QED  BY <1>2, <1>3, <1>4, <2>1
<1>11. Dropped
  BY <1>2, <1>9, <1>10 DEF Dropped, m
<1>12. FramedOK'
  BY <1>0, <1>1, <1>11, FramedStays
<1>13. /\ unreadLen' \in Nat /\ unreadLen <= unreadLen' /\ Len(unread') <= unreadLen'
       /\ read' \in Seq(1 .. MaxBytes) /\ unread' \in Seq(1 .. MaxBytes)
  BY <1>0, <1>2, ReturnEffect
<1>14. got' \in Seq(Byte) /\ Len(got') = 0
  BY <1>1, EmptySeq
<1>15. Typed' /\ PartsOK' /\ CutOK' /\ FailsOnlyIfCut'
  BY <1>0, <1>1, <1>6, <1>7, <1>13, <1>14 DEF Typed, PartsOK, CutOK, FailsOnlyIfCut
<1>16. BuffersOK'
  <2>1. Len(overflow') <= unreadLen' /\ UnreadLen <= unreadLen' /\ Len(got') <= unreadLen'
    BY <1>2, <1>3, <1>5, <1>6, <1>7, <1>13, <1>14
  <2>. QED  BY <1>1, <1>3, <1>13, <2>1 DEF BuffersOK
<1>. QED  BY <1>11, <1>12, <1>15, <1>16 DEF FrameInv

(* The end of the stream leaves the frames. *)
LEMMA FrameEnds ==
  ASSUME FrameInv, ReadEnds
  PROVE  FrameInv'
<1>0. Typed /\ PartsOK /\ BuffersOK /\ FramedOK /\ CutOK /\ FailsOnlyIfCut
  BY DEF FrameInv
<1>1. UNCHANGED <<kind, parts, wire, writer, unread, unreadLen, got, overflow, written, read,
                  intact, cut>>
  BY DEF ReadEnds, buffers, history
<1>2. pc' \in {"eof", "error"} /\ (pc' = "error" => writer = "crashed" \/ wire # <<>>)
  BY DEF ReadEnds
<1>3. wire # <<>> => writer = "crashed"
  <2>1. SUFFICES ASSUME wire # <<>>, writer # "crashed" PROVE FALSE
    OBVIOUS
  <2>2. kind = "encrypted" /\ ~Complete(wire)
    BY <2>1 DEF ReadEnds, Starved
  <2>3. /\ got = <<>> /\ overflow = <<>> /\ wire \in Seq(Byte)
        /\ got \in Seq(Byte) /\ overflow \in Seq(Byte) /\ Sizes \in SUBSET Nat
    BY <1>0, <2>2 DEF BuffersOK, Typed, Sizes
  <2>4. Incoming = wire
    BY <2>3, JoinedIs DEF Incoming
  <2>5. Framed(wire, Sizes) /\ Whole(wire)
    BY <1>0, <2>1, <2>4 DEF FramedOK
  <2>6. wire[1].val \in Nat /\ HeaderLen + wire[1].val <= Len(wire) /\ Len(wire) \in Nat
    BY <2>1, <2>3, <2>5, FirstPacket
  <2>7. HeaderLen \in Nat
    BY PacketConnAssumption
  <2>. QED  BY <2>2, <2>6, <2>7 DEF Complete
<1>4. FailsOnlyIfCut'
  BY <1>1, <1>2, <1>3 DEF FailsOnlyIfCut
<1>5. FramedOK'
  BY <1>0, <1>1, FramedStays DEF Incoming
<1>6. Typed' /\ PartsOK' /\ CutOK'
  BY <1>0, <1>1, <1>2 DEF Typed, PartsOK, CutOK
<1>7. BuffersOK'
  BY <1>0, <1>1, <1>2 DEF BuffersOK
<1>. QED  BY <1>4, <1>5, <1>6, <1>7 DEF FrameInv

-----------------------------------------------------------------------------
(* No bytes are under way in the beginning. *)
LEMMA FrameStart ==
  ASSUME Init
  PROVE  FrameInv
<1>1. /\ parts = <<>> /\ wire = <<>> /\ got = <<>> /\ overflow = <<>> /\ unread = <<>>
      /\ read = <<>> /\ written = <<>> /\ unreadLen = UnreadLen /\ pc = "idle"
      /\ writer = "open" /\ intact = TRUE /\ cut = FALSE
      /\ kind \in {"encrypted", "plain", "copying"}
  BY DEF Init
<1>2. Len(<<>>) = 0 /\ UnreadLen \in Nat
  BY EmptySeq, PacketConnAssumption
<1>3. Typed
  BY <1>1, <1>2, EmptySeq DEF Typed
<1>4. Incoming = <<>>
  BY <1>1, <1>3, JoinedIs DEF Incoming, Typed
<1>5. PartsOK /\ BuffersOK /\ FramedOK /\ CutOK /\ FailsOnlyIfCut
  BY <1>1, <1>2, <1>4 DEF PartsOK, BuffersOK, FramedOK, Framed, Whole, CutOK, FailsOnlyIfCut
<1>. QED  BY <1>3, <1>5 DEF FrameInv

(* FrameInv is inductive. *)
LEMMA FrameInvariant == Spec => []FrameInv
<1>1. Init => FrameInv
  BY FrameStart
<1>2. FrameInv /\ [Next]_vars => FrameInv'
  <2>1. SUFFICES ASSUME FrameInv, [Next]_vars PROVE FrameInv'
    OBVIOUS
  <2>2. CASE UNCHANGED vars
    <3>1. UNCHANGED <<kind, parts, wire, writer, pc, unread, unreadLen, got, overflow, written,
                      read, intact, cut>>
      BY <2>2 DEF vars, buffers, history
    <3>2. Incoming' = Incoming /\ Sizes' = Sizes
      BY <3>1 DEF Incoming, Sizes
    <3>. QED  BY <2>1, <3>1, <3>2 DEF FrameInv, Typed, PartsOK, BuffersOK, FramedOK, Framed, Whole,
                                      CutOK, FailsOnlyIfCut
  <2>. QED  BY <2>1, <2>2, FrameWrite, FrameSplit, FrameSend, FrameFinish, FrameUnread,
               FrameMessage, FrameFirst, FrameOverflow, FrameMore, FrameFinishPacket, FrameEnds
            DEF Next, Read
<1>. QED  BY <1>1, <1>2, PTL DEF Spec

(***************************************************************************)
(* The types: a byte of data is never taken for a length nor a length for  *)
(* data, and the packet that is read fits into its buffer, for every size  *)
(* of packets and buffers.  It needs the framing of all bytes under way    *)
(* (FrameInv).                                                             *)
(***************************************************************************)
THEOREM TypeCorrect == Spec => []TypeOK
<1>1. FrameInv => TypeOK
  BY DEF FrameInv, Typed, BuffersOK, TypeOK, Byte
<1>. QED  BY <1>1, FrameInvariant, PTL

(***************************************************************************)
(* A Read of a connection whose other node lives fails only in             *)
(* transform.Conn and only after a read of TCP has ended within a length;  *)
(* encrypted.Conn never sees the end of the stream within a message.       *)
(***************************************************************************)
THEOREM HealthyReads == Spec => []FailsOnlyIfCut
<1>1. FrameInv => FailsOnlyIfCut
  BY DEF FrameInv
<1>. QED  BY <1>1, FrameInvariant, PTL

-----------------------------------------------------------------------------
(***************************************************************************)
(* PacketConn implements Stream.                                           *)
(*                                                                         *)
(* g numbers the places where packets begin: g[i] is how many bytes of     *)
(* data come before the packet at i of s, the ones before s included.      *)
(***************************************************************************)
Numbered(s, g, base, max, exact, sizes) ==
  /\ s \in Seq(Byte) /\ base \in Nat /\ max \in Nat /\ exact \in BOOLEAN /\ sizes \in SUBSET Nat
  /\ g \in [1 .. Len(s) + 1 -> Nat] /\ g[1] = base
  /\ \A i \in 1 .. Len(s) : s[i].place = 1 =>
       /\ s[i].val \in sizes
       /\ g[i] + s[i].val <= max
       /\ i + HeaderLen + s[i].val <= Len(s) + 1 =>
            g[i + HeaderLen + s[i].val] = g[i] + s[i].val
       /\ exact => \A j \in 1 .. s[i].val :
            i + HeaderLen + j - 1 <= Len(s) => s[i + HeaderLen + j - 1].val = g[i] + j

(* The number behind the last byte, and what follows the first packet.     *)
Ends(s, g, last) == g[Len(s) + 1] = last
Rest(s) == From(s, HeaderLen + s[1].val + 1)

(* Data that follow the first bytes of the stream.                         *)
Follows(data, first, exact) == exact => \A i \in 1 .. Len(data) : data[i] = first + i
FirstFollows(s, first, exact) ==
  exact => \A i \in 1 .. s[1].val : s[HeaderLen + i].val = first + i

(* A prefix of numbered packets is numbered. *)
LEMMA NumberedPrefix ==
  ASSUME NEW s, NEW g, NEW base, NEW max, NEW exact, NEW sizes,
         Numbered(s, g, base, max, exact, sizes), NEW m \in 0 .. Len(s)
  PROVE  \E h : Numbered(SubSeq(s, 1, m), h, base, max, exact, sizes)
<1>0. /\ s \in Seq(Byte) /\ base \in Nat /\ max \in Nat /\ exact \in BOOLEAN
      /\ sizes \in SUBSET Nat
  BY DEF Numbered
<1>. USE <1>0
<1>. DEFINE u == SubSeq(s, 1, m)
            h == [i \in 1 .. m + 1 |-> g[i]]
<1>1. Len(s) \in Nat /\ HeaderLen \in Nat
  BY LenProperties, PacketConnAssumption
<1>2. u \in Seq(Byte) /\ Len(u) = m /\ \A i \in 1 .. m : u[i] = s[i]
  BY CutSeq
<1>3. h \in [1 .. m + 1 -> Nat] /\ h[1] = base /\ \A i \in 1 .. m + 1 : h[i] = g[i]
  BY <1>1 DEF Numbered
<1>. HIDE DEF u, h
<1>4. ASSUME NEW i \in 1 .. m, u[i].place = 1
      PROVE  /\ u[i].val \in sizes /\ h[i] + u[i].val <= max
             /\ i + HeaderLen + u[i].val <= m + 1 => h[i + HeaderLen + u[i].val] = h[i] + u[i].val
             /\ exact => \A j \in 1 .. u[i].val :
                  i + HeaderLen + j - 1 <= m => u[i + HeaderLen + j - 1].val = h[i] + j
  <2>1. i \in 1 .. Len(s) /\ u[i] = s[i] /\ h[i] = g[i]
    BY <1>1, <1>2, <1>3
  <2>2. /\ s[i].val \in sizes /\ g[i] + s[i].val <= max
        /\ i + HeaderLen + s[i].val <= Len(s) + 1 => g[i + HeaderLen + s[i].val] = g[i] + s[i].val
        /\ exact => \A j \in 1 .. s[i].val :
             i + HeaderLen + j - 1 <= Len(s) => s[i + HeaderLen + j - 1].val = g[i] + j
    BY <1>4, <2>1 DEF Numbered
  <2>3. s[i].val \in Nat
    BY <2>2
  <2>4. ASSUME i + HeaderLen + u[i].val <= m + 1
        PROVE  h[i + HeaderLen + u[i].val] = h[i] + u[i].val
    <3>1. i + HeaderLen + s[i].val \in 1 .. m + 1 /\ i + HeaderLen + s[i].val <= Len(s) + 1
      <4>1. \A v \in Nat : i + HeaderLen + v <= m + 1 =>
              i + HeaderLen + v \in 1 .. m + 1 /\ i + HeaderLen + v <= Len(s) + 1
        BY <1>1
      <4>. QED  BY <2>1, <2>3, <2>4, <4>1
    <3>. QED  BY <1>3, <2>1, <2>2, <3>1
  <2>5. ASSUME exact, NEW j \in 1 .. u[i].val, i + HeaderLen + j - 1 <= m
        PROVE  u[i + HeaderLen + j - 1].val = h[i] + j
    <3>1. i + HeaderLen + j - 1 \in 1 .. m /\ i + HeaderLen + j - 1 <= Len(s)
      BY <1>1, <2>1, <2>3, <2>5
    <3>. QED  BY <1>2, <2>1, <2>2, <2>5, <3>1
  <2>. QED  BY <2>1, <2>2, <2>4, <2>5
<1>5. Numbered(u, h, base, max, exact, sizes)
  BY <1>2, <1>3, <1>4 DEF Numbered
<1>. QED  BY <1>5 DEF u

(* Without its first packet the rest is numbered from the next byte on. *)
LEMMA NumberedDrop ==
  ASSUME NEW s, NEW g, NEW base, NEW max, NEW exact, NEW sizes,
         Numbered(s, g, base, max, exact, sizes),
         s # <<>>, s[1].place = 1, HeaderLen + s[1].val <= Len(s)
  PROVE  /\ s[1].val \in sizes /\ base + s[1].val <= max
         /\ FirstFollows(s, base, exact)
         /\ \E h : /\ Numbered(Rest(s), h, base + s[1].val, max, exact, sizes)
                   /\ Ends(Rest(s), h, g[Len(s) + 1])
<1>0. /\ s \in Seq(Byte) /\ base \in Nat /\ max \in Nat /\ exact \in BOOLEAN
      /\ sizes \in SUBSET Nat
  BY DEF Numbered
<1>. USE <1>0
<1>. DEFINE m == HeaderLen + s[1].val
            n == Len(s) - m
            u == From(s, m + 1)
            h == [i \in 1 .. n + 1 |-> g[m + i]]
<1>1. Len(s) \in Nat \ {0} /\ HeaderLen \in Nat \ {0} /\ 1 \in 1 .. Len(s)
  BY EmptySeq, PacketConnAssumption
<1>2. /\ s[1].val \in sizes /\ g[1] = base /\ g[1] + s[1].val <= max
      /\ 1 + HeaderLen + s[1].val <= Len(s) + 1 => g[1 + HeaderLen + s[1].val] = g[1] + s[1].val
      /\ exact => \A j \in 1 .. s[1].val :
           1 + HeaderLen + j - 1 <= Len(s) => s[1 + HeaderLen + j - 1].val = g[1] + j
  BY <1>1 DEF Numbered
<1>3. s[1].val \in Nat
  BY <1>2
<1>4. m \in 0 .. Len(s) /\ n \in Nat /\ m + n = Len(s)
  <2>1. m \in Nat /\ m <= Len(s)
    BY <1>1, <1>3
  <2>. HIDE DEF m
  <2>. QED  BY <1>1, <2>1
<1>5. g[m + 1] = base + s[1].val
  <2>1. 1 + HeaderLen + s[1].val <= Len(s) + 1 /\ 1 + HeaderLen + s[1].val = m + 1
    BY <1>1, <1>3
  <2>. QED  BY <1>2, <2>1
<1>6. exact => \A j \in 1 .. s[1].val : s[HeaderLen + j].val = base + j
  <2>1. SUFFICES ASSUME exact, NEW j \in 1 .. s[1].val PROVE s[HeaderLen + j].val = base + j
    OBVIOUS
  <2>2. 1 + HeaderLen + j - 1 <= Len(s) /\ 1 + HeaderLen + j - 1 = HeaderLen + j
    BY <1>1, <1>3
  <2>. QED  BY <1>2, <2>1, <2>2
<1>7. u \in Seq(Byte) /\ Len(u) = n /\ \A i \in 1 .. n : u[i] = s[m + i]
  BY <1>4, CutSeq
<1>. HIDE DEF m, n, u
<1>8. h \in [1 .. n + 1 -> Nat] /\ h[1] = base + s[1].val /\ \A i \in 1 .. n + 1 : h[i] = g[m + i]
  <2>1. \A i \in 1 .. n + 1 : m + i \in 1 .. Len(s) + 1
    BY <1>1, <1>4
  <2>2. g \in [1 .. Len(s) + 1 -> Nat]
    BY DEF Numbered
  <2>3. \A i \in 1 .. n + 1 : g[m + i] \in Nat
    BY <2>1, <2>2
  <2>4. 1 \in 1 .. n + 1
    BY <1>4
  <2>. QED  BY <1>5, <2>3, <2>4
<1>. HIDE DEF h
<1>9. ASSUME NEW i \in 1 .. n, u[i].place = 1
      PROVE  /\ u[i].val \in sizes /\ h[i] + u[i].val <= max
             /\ i + HeaderLen + u[i].val <= n + 1 => h[i + HeaderLen + u[i].val] = h[i] + u[i].val
             /\ exact => \A j \in 1 .. u[i].val :
                  i + HeaderLen + j - 1 <= n => u[i + HeaderLen + j - 1].val = h[i] + j
  <2>. DEFINE a == m + i
  <2>1. a \in 1 .. Len(s) /\ u[i] = s[a] /\ h[i] = g[a]
    BY <1>1, <1>4, <1>7, <1>8
  <2>2. a = m + i
    OBVIOUS
  <2>. HIDE DEF a
  <2>3. /\ s[a].val \in sizes /\ g[a] + s[a].val <= max
        /\ a + HeaderLen + s[a].val <= Len(s) + 1 => g[a + HeaderLen + s[a].val] = g[a] + s[a].val
        /\ exact => \A j \in 1 .. s[a].val :
             a + HeaderLen + j - 1 <= Len(s) => s[a + HeaderLen + j - 1].val = g[a] + j
    BY <1>9, <2>1 DEF Numbered
  <2>4. s[a].val \in Nat
    BY <2>3
  <2>5. ASSUME i + HeaderLen + u[i].val <= n + 1
        PROVE  h[i + HeaderLen + u[i].val] = h[i] + u[i].val
    <3>1. /\ i + HeaderLen + s[a].val \in 1 .. n + 1 /\ a + HeaderLen + s[a].val <= Len(s) + 1
          /\ m + (i + HeaderLen + s[a].val) = a + HeaderLen + s[a].val
      <4>1. \A v \in Nat : i + HeaderLen + v <= n + 1 =>
              /\ i + HeaderLen + v \in 1 .. n + 1 /\ a + HeaderLen + v <= Len(s) + 1
              /\ m + (i + HeaderLen + v) = a + HeaderLen + v
        BY <1>1, <1>4, <2>2
      <4>. QED  BY <2>1, <2>4, <2>5, <4>1
    <3>2. h[i + HeaderLen + s[a].val] = g[a + HeaderLen + s[a].val]
      BY <1>8, <3>1
    <3>. QED  BY <2>1, <2>3, <3>1, <3>2
  <2>6. ASSUME exact, NEW j \in 1 .. u[i].val, i + HeaderLen + j - 1 <= n
        PROVE  u[i + HeaderLen + j - 1].val = h[i] + j
    <3>1. /\ i + HeaderLen + j - 1 \in 1 .. n /\ a + HeaderLen + j - 1 <= Len(s)
          /\ m + (i + HeaderLen + j - 1) = a + HeaderLen + j - 1 /\ j \in 1 .. s[a].val
      BY <1>1, <1>4, <2>1, <2>2, <2>4, <2>6
    <3>2. u[i + HeaderLen + j - 1] = s[a + HeaderLen + j - 1]
      BY <1>7, <3>1
    <3>. QED  BY <2>1, <2>3, <2>6, <3>1, <3>2
  <2>. QED  BY <2>1, <2>3, <2>5, <2>6
<1>10. Numbered(u, h, base + s[1].val, max, exact, sizes)
  BY <1>7, <1>8, <1>9 DEF Numbered
<1>11. h[Len(u) + 1] = g[Len(s) + 1]
  <2>1. n + 1 \in 1 .. n + 1 /\ m + (n + 1) = Len(s) + 1
    BY <1>1, <1>4
  <2>. QED  BY <1>7, <1>8, <2>1
<1>12. u = Rest(s) /\ FirstFollows(s, base, exact)
  BY <1>6 DEF u, m, Rest, FirstFollows
<1>. QED  BY <1>2, <1>10, <1>11, <1>12 DEF Ends

(* One more whole packet is numbered on. *)
LEMMA NumberedAppend ==
  ASSUME NEW s, NEW g, NEW base, NEW max, NEW exact, NEW sizes,
         Numbered(s, g, base, max, exact, sizes), Whole(s),
         NEW data \in Seq(1 .. MaxBytes), Len(data) \in sizes, Follows(data, g[Len(s) + 1], exact),
         g[Len(s) + 1] + Len(data) <= max
  PROVE  \E h : /\ Numbered(s \o Packet(data), h, base, max, exact, sizes)
                /\ Ends(s \o Packet(data), h, g[Len(s) + 1] + Len(data))
<1>0. /\ s \in Seq(Byte) /\ base \in Nat /\ max \in Nat /\ exact \in BOOLEAN
      /\ sizes \in SUBSET Nat
  BY DEF Numbered
<1>. USE <1>0
<1>. DEFINE p == Packet(data)
            d == Len(data)
            l == Len(s)
            u == s \o p
            n == l + HeaderLen + d
            h == [i \in 1 .. n + 1 |-> IF i <= l + 1 THEN g[i] ELSE g[l + 1] + d]
<1>1. l \in Nat /\ HeaderLen \in Nat \ {0} /\ d \in Nat
  BY LenProperties, PacketConnAssumption
<1>2. /\ p \in Seq(Byte) /\ Len(p) = HeaderLen + d
      /\ \A i \in 1 .. HeaderLen + d :
           p[i] = IF i <= HeaderLen THEN [place |-> i, val |-> d]
                  ELSE [place |-> 0, val |-> data[i - HeaderLen]]
  BY FramedPacket
<1>3. g \in [1 .. l + 1 -> Nat] /\ g[1] = base
  BY DEF Numbered
<1>30. g[l + 1] + d <= max /\ Follows(data, g[l + 1], exact)
  OBVIOUS
<1>. HIDE DEF p, d, l
<1>4. /\ u \in Seq(Byte) /\ Len(u) = Len(s) + Len(p)
      /\ \A i \in 1 .. Len(s) + Len(p) : u[i] = IF i <= Len(s) THEN s[i] ELSE p[i - Len(s)]
  BY <1>2, ConcatProperties
<1>. HIDE DEF u
<1>5. Len(u) = n /\ \A i \in 1 .. n : u[i] = IF i <= l THEN s[i] ELSE p[i - l]
  <2>1. Len(s) + Len(p) = n /\ Len(s) = l
    BY <1>1, <1>2 DEF l
  <2>. QED  BY <1>4, <2>1
<1>6. n \in Nat /\ n > l /\ n = l + HeaderLen + d
  BY <1>1
<1>. HIDE DEF n
<1>7. /\ h \in [1 .. n + 1 -> Nat] /\ h[1] = base
      /\ \A i \in 1 .. n + 1 : h[i] = IF i <= l + 1 THEN g[i] ELSE g[l + 1] + d
  <2>1. g[l + 1] \in Nat /\ g[l + 1] + d \in Nat
    BY <1>1, <1>3
  <2>2. \A i \in 1 .. n + 1 : i <= l + 1 => g[i] \in Nat
    BY <1>1, <1>3
  <2>3. 1 \in 1 .. n + 1 /\ 1 <= l + 1
    BY <1>1, <1>6
  <2>. QED  BY <1>3, <2>1, <2>2, <2>3
<1>. HIDE DEF h
<1>8. ASSUME NEW i \in 1 .. n, u[i].place = 1
      PROVE  /\ u[i].val \in sizes /\ h[i] + u[i].val <= max
             /\ i + HeaderLen + u[i].val <= n + 1 => h[i + HeaderLen + u[i].val] = h[i] + u[i].val
             /\ exact => \A j \in 1 .. u[i].val :
                  i + HeaderLen + j - 1 <= n => u[i + HeaderLen + j - 1].val = h[i] + j
  <2>1. CASE i <= l
    <3>1. i \in 1 .. l /\ u[i] = s[i] /\ h[i] = g[i]
      <4>1. i \in 1 .. l /\ i \in 1 .. n + 1 /\ i <= l + 1
        BY <1>1, <1>6, <2>1
      <4>. QED  BY <1>5, <1>7, <2>1, <4>1
    <3>2. /\ s[i].val \in sizes /\ g[i] + s[i].val <= max
          /\ i + HeaderLen + s[i].val <= l + 1 => g[i + HeaderLen + s[i].val] = g[i] + s[i].val
          /\ exact => \A j \in 1 .. s[i].val :
               i + HeaderLen + j - 1 <= l => s[i + HeaderLen + j - 1].val = g[i] + j
      BY <1>8, <3>1 DEF Numbered, l
    <3>3. s[i].val \in Nat /\ i + HeaderLen + s[i].val <= l + 1
      BY <1>8, <3>1, <3>2 DEF Whole, l
    <3>4. i + HeaderLen + s[i].val \in 1 .. n + 1
      <4>1. \A v \in Nat : i + HeaderLen + v <= l + 1 => i + HeaderLen + v \in 1 .. n + 1
        BY <1>1, <1>6
      <4>. QED  BY <3>3, <4>1
    <3>5. h[i + HeaderLen + s[i].val] = g[i + HeaderLen + s[i].val]
      BY <1>7, <3>3, <3>4
    <3>6. ASSUME exact, NEW j \in 1 .. s[i].val
          PROVE  u[i + HeaderLen + j - 1].val = g[i] + j
      <4>1. i + HeaderLen + j - 1 \in 1 .. n /\ i + HeaderLen + j - 1 <= l
        <5>1. \A v \in Nat : \A k \in 1 .. v : i + HeaderLen + v <= l + 1 =>
                i + HeaderLen + k - 1 \in 1 .. n /\ i + HeaderLen + k - 1 <= l
          BY <1>1, <1>6
        <5>. QED  BY <3>3, <5>1
      <4>. QED  BY <1>5, <3>2, <3>6, <4>1
    <3>. QED  BY <3>1, <3>2, <3>3, <3>5, <3>6
  <2>2. CASE ~(i <= l)
    <3>1. i - l \in 1 .. HeaderLen + d /\ u[i] = p[i - l]
      BY <1>1, <1>5, <1>6, <2>2
    <3>2. i - l <= HeaderLen /\ p[i - l].place = i - l /\ p[i - l].val = d
      BY <1>2, <1>8, <3>1
    <3>3. i = l + 1 /\ u[i].val = d
      BY <1>1, <1>8, <3>1, <3>2
    <3>4. h[i] = g[l + 1]
      BY <1>1, <1>6, <1>7, <3>3
    <3>5. i + HeaderLen + d = n + 1 /\ ~(n + 1 <= l + 1) /\ n + 1 \in 1 .. n + 1
      BY <1>1, <1>6, <3>3
    <3>6. h[i + HeaderLen + d] = g[l + 1] + d
      BY <1>7, <3>5
    <3>7. ASSUME exact, NEW j \in 1 .. d
          PROVE  u[i + HeaderLen + j - 1].val = g[l + 1] + j
      <4>. DEFINE k == i + HeaderLen + j - 1
      <4>1. k \in 1 .. n /\ ~(k <= l) /\ k - l = HeaderLen + j /\ HeaderLen + j \in 1 .. HeaderLen + d
            /\ ~(HeaderLen + j <= HeaderLen) /\ HeaderLen + j - HeaderLen = j
        BY <1>1, <1>6, <3>3
      <4>. HIDE DEF k
      <4>2. u[k] = p[HeaderLen + j]
        BY <1>5, <4>1
      <4>3. p[HeaderLen + j].val = data[j]
        <5>. DEFINE q == HeaderLen + j
        <5>1. q \in 1 .. HeaderLen + d /\ ~(q <= HeaderLen) /\ q - HeaderLen = j
          BY <1>1
        <5>. HIDE DEF q
        <5>2. p[q] = [place |-> 0, val |-> data[q - HeaderLen]]
          BY ONLY <1>2, <5>1
        <5>. QED  BY <5>1, <5>2 DEF q
      <4>4. data[j] = g[l + 1] + j
        BY <1>30, <3>7 DEF d, Follows
      <4>. QED  BY <4>2, <4>3, <4>4 DEF k
    <3>8. d \in sizes /\ g[l + 1] + d <= max
      BY <1>30 DEF d
    <3>. QED  BY <3>3, <3>4, <3>6, <3>7, <3>8
  <2>. QED  BY <2>1, <2>2
<1>9. Numbered(u, h, base, max, exact, sizes)
  BY <1>4, <1>5, <1>7, <1>8 DEF Numbered
<1>10. h[Len(u) + 1] = g[l + 1] + d
  <2>1. n + 1 \in 1 .. n + 1 /\ ~(n + 1 <= l + 1)
    BY <1>1, <1>6
  <2>. QED  BY <1>5, <1>7, <2>1
<1>. QED  BY <1>9, <1>10 DEF u, p, d, l, Ends

(***************************************************************************)
(* f numbers the pieces of a Write: f[k] is how many bytes were written    *)
(* before piece k.  The packets under way and the pieces still to be sent  *)
(* are one stream: no byte is missing between them while the writer lives. *)
(***************************************************************************)
Pieces(p, f, max, exact) ==
  /\ f \in [1 .. Len(p) + 1 -> Nat]
  /\ \A k \in 1 .. Len(p) :
       /\ f[k + 1] = f[k] + Len(p[k]) /\ f[k + 1] <= max
       /\ exact => \A i \in 1 .. Len(p[k]) : p[k][i] = f[k] + i

Flow(s, base, p, max, alive, exact, sizes) ==
  /\ p \in Seq(Seq(1 .. MaxBytes)) /\ alive \in BOOLEAN
  /\ \E g, f : /\ Numbered(s, g, base, max, exact, sizes)
               /\ Pieces(p, f, max, exact)
               /\ alive => Ends(s, g, f[1]) /\ Ends(p, f, max)

(* A Write adds its data at the end. *)
LEMMA FlowWrite ==
  ASSUME NEW s, NEW base, NEW max, NEW exact, NEW sizes,
         Flow(s, base, <<>>, max, TRUE, exact, sizes), NEW still \in BOOLEAN, still => exact,
         NEW data \in Seq(1 .. MaxBytes), Follows(data, max, still)
  PROVE  Flow(s, base, <<data>>, max + Len(data), TRUE, still, sizes)
<1>1. PICK g, f : /\ Numbered(s, g, base, max, exact, sizes)
                  /\ Pieces(<<>>, f, max, exact)
                  /\ g[Len(s) + 1] = f[1] /\ f[Len(<<>>) + 1] = max
  BY DEF Flow, Ends
<1>0. /\ s \in Seq(Byte) /\ base \in Nat /\ max \in Nat /\ exact \in BOOLEAN
      /\ sizes \in SUBSET Nat
  BY <1>1 DEF Numbered
<1>. USE <1>0
<1>. DEFINE d == Len(data)
            h == [k \in 1 .. 2 |-> IF k = 1 THEN max ELSE max + d]
            p == <<data>>
<1>2. d \in Nat /\ Len(s) \in Nat /\ HeaderLen \in Nat
  BY LenProperties, PacketConnAssumption
<1>3. g[Len(s) + 1] = max
  <2>1. Len(<<>>) + 1 = 1
    BY EmptySeq
  <2>. QED  BY <1>1, <2>1
<1>4. Len(p) = 1 /\ p[1] = data
  OBVIOUS
<1>. HIDE DEF d
<1>5. h \in [1 .. 2 -> Nat] /\ h[1] = max /\ h[2] = max + d
  BY <1>2
<1>. HIDE DEF h, p
<1>6. Pieces(p, h, max + d, still)
  <2>1. h \in [1 .. Len(p) + 1 -> Nat]
    BY <1>4, <1>5
  <2>2. ASSUME NEW k \in 1 .. Len(p)
        PROVE  /\ h[k + 1] = h[k] + Len(p[k]) /\ h[k + 1] <= max + d
               /\ still => \A i \in 1 .. Len(p[k]) : p[k][i] = h[k] + i
    <3>1. k = 1 /\ k + 1 = 2 /\ p[k] = data /\ Len(data) = d
      BY <1>4 DEF d
    <3>2. h[k + 1] = max + d /\ h[k] = max /\ max + d <= max + d
      BY <1>2, <1>5, <3>1
    <3>. QED  BY <3>1, <3>2 DEF Follows
  <2>. QED  BY <2>1, <2>2 DEF Pieces
<1>7. Numbered(s, g, base, max + d, still, sizes)
  <2>1. g \in [1 .. Len(s) + 1 -> Nat] /\ g[1] = base
    BY <1>1 DEF Numbered
  <2>2. ASSUME NEW i \in 1 .. Len(s), s[i].place = 1
        PROVE  /\ s[i].val \in sizes
               /\ g[i] + s[i].val <= max + d
               /\ i + HeaderLen + s[i].val <= Len(s) + 1 =>
                    g[i + HeaderLen + s[i].val] = g[i] + s[i].val
               /\ still => \A j \in 1 .. s[i].val :
                    i + HeaderLen + j - 1 <= Len(s) => s[i + HeaderLen + j - 1].val = g[i] + j
    <3>1. /\ s[i].val \in sizes
          /\ g[i] + s[i].val <= max
          /\ i + HeaderLen + s[i].val <= Len(s) + 1 =>
               g[i + HeaderLen + s[i].val] = g[i] + s[i].val
          /\ exact => \A j \in 1 .. s[i].val :
               i + HeaderLen + j - 1 <= Len(s) => s[i + HeaderLen + j - 1].val = g[i] + j
      BY <1>1, <2>2 DEF Numbered
    <3>2. g[i] \in Nat /\ s[i].val \in Nat
      <4>1. i \in 1 .. Len(s) + 1
        BY <1>2
      <4>. QED  BY <2>1, <3>1, <4>1
    <3>3. \A a, b \in Nat : a + b <= max => a + b <= max + d
      BY <1>2
    <3>4. g[i] + s[i].val <= max + d
      BY <3>1, <3>2, <3>3
    <3>. QED  BY <3>1, <3>4
  <2>3. max + d \in Nat
    BY <1>2
  <2>. QED  BY <2>1, <2>2, <2>3 DEF Numbered
<1>8. g[Len(s) + 1] = h[1] /\ h[Len(p) + 1] = max + d
  BY <1>3, <1>4, <1>5
<1>9. p \in Seq(Seq(1 .. MaxBytes))
  BY DEF p
<1>. QED  BY <1>6, <1>7, <1>8, <1>9 DEF Flow, Ends, p, d

(* Splitting a piece leaves the stream as it is. *)
LEMMA FlowSplit ==
  ASSUME NEW s, NEW base, NEW p, NEW max, NEW alive, NEW exact, NEW sizes,
         Flow(s, base, p, max, alive, exact, sizes), p # <<>>,
         NEW q \in Seq(Seq(1 .. MaxBytes)), NEW m \in 0 .. Len(p[1]), Len(q) = Len(p) + 1,
         q[1] = SubSeq(p[1], 1, m), q[2] = From(p[1], m + 1),
         \A k \in 3 .. Len(p) + 1 : q[k] = p[k - 1]
  PROVE  Flow(s, base, q, max, alive, exact, sizes)
<1>1. PICK g, f : /\ Numbered(s, g, base, max, exact, sizes)
                  /\ Pieces(p, f, max, exact)
                  /\ alive => g[Len(s) + 1] = f[1] /\ f[Len(p) + 1] = max
  BY DEF Flow, Ends
<1>0. p \in Seq(Seq(1 .. MaxBytes)) /\ alive \in BOOLEAN /\ max \in Nat /\ exact \in BOOLEAN
  BY <1>1 DEF Flow, Numbered
<1>. USE <1>0
<1>. DEFINE l == Len(p)
            e == p[1]
            h == [k \in 1 .. l + 2 |-> IF k = 1 THEN f[1] ELSE IF k = 2 THEN f[1] + m ELSE f[k - 1]]
<1>2. l \in Nat \ {0} /\ e \in Seq(1 .. MaxBytes) /\ Len(e) \in Nat
  BY EmptySeq, LenProperties, ElementOfSeq
<1>3. f \in [1 .. l + 1 -> Nat]
  BY <1>1 DEF Pieces
<1>4. f[2] = f[1] + Len(e) /\ f[2] <= max /\ (exact => \A i \in 1 .. Len(e) : e[i] = f[1] + i)
  <2>1. 1 \in 1 .. Len(p) /\ 1 + 1 = 2
    BY <1>2
  <2>. QED  BY <1>1, <2>1 DEF Pieces
<1>5. /\ Len(q[1]) = m /\ Len(q[2]) = Len(e) - m
      /\ \A i \in 1 .. m : q[1][i] = e[i]
      /\ \A i \in 1 .. Len(e) - m : q[2][i] = e[m + i]
  <2>1. q[1] = SubSeq(e, 1, m) /\ q[2] = From(e, m + 1) /\ m \in 0 .. Len(e)
    OBVIOUS
  <2>. HIDE DEF e
  <2>2. /\ Len(SubSeq(e, 1, m)) = m /\ Len(From(e, m + 1)) = Len(e) - m
        /\ \A i \in 1 .. m : SubSeq(e, 1, m)[i] = e[i]
        /\ \A i \in 1 .. Len(e) - m : From(e, m + 1)[i] = e[m + i]
    BY ONLY <1>2, <2>1, CutSeq
  <2>. QED  BY ONLY <2>1, <2>2
<1>6. m \in Nat /\ m <= Len(e) /\ f[1] \in Nat /\ Len(q) = l + 1
  <2>1. m \in 0 .. Len(e) /\ Len(q) = l + 1
    OBVIOUS
  <2>. HIDE DEF e, l
  <2>2. 1 \in 1 .. l + 1
    BY <1>2
  <2>3. f[1] \in Nat
    BY <1>3, <2>2
  <2>4. m \in Nat /\ m <= Len(e)
    BY ONLY <1>2, <2>1
  <2>. QED  BY <2>1, <2>3, <2>4
<1>7. \A k \in 1 .. l : f[k + 1] = f[k] + Len(p[k]) /\ f[k + 1] <= max
                        /\ (exact => \A i \in 1 .. Len(p[k]) : p[k][i] = f[k] + i)
  BY <1>1 DEF Pieces
<1>8. \A k \in 3 .. l + 1 : q[k] = p[k - 1]
  OBVIOUS
<1>. HIDE DEF l, e
<1>9. /\ h \in [1 .. l + 2 -> Nat] /\ h[1] = f[1] /\ h[2] = f[1] + m
      /\ \A k \in 3 .. l + 2 : h[k] = f[k - 1]
  <2>1. \A k \in 1 .. l + 2 : k # 1 /\ k # 2 => k - 1 \in 1 .. l + 1
    BY <1>2
  <2>2. \A k \in 1 .. l + 2 : k # 1 /\ k # 2 => f[k - 1] \in Nat
    BY <1>3, <2>1
  <2>3. 1 \in 1 .. l + 2 /\ 2 \in 1 .. l + 2 /\ 2 # 1
    BY <1>2
  <2>4. \A k \in 3 .. l + 2 : k \in 1 .. l + 2 /\ k # 1 /\ k # 2
    BY <1>2
  <2>5. f[1] \in Nat /\ f[1] + m \in Nat
    BY <1>6
  <2>. QED  BY <2>2, <2>3, <2>4, <2>5
<1>. HIDE DEF h
<1>10. ASSUME NEW k \in 1 .. l + 1
       PROVE  /\ h[k + 1] = h[k] + Len(q[k]) /\ h[k + 1] <= max
              /\ exact => \A i \in 1 .. Len(q[k]) : q[k][i] = h[k] + i
  <2>1. CASE k = 1
    <3>1. h[k + 1] = h[k] + Len(q[k]) /\ h[k + 1] <= max
      <4>1. k + 1 = 2 /\ h[2] = f[1] + m /\ h[1] = f[1] /\ Len(q[1]) = m
        BY <1>5, <1>9, <2>1
      <4>2. \A a, b \in Nat : a + b <= max /\ m <= b => a + m <= max
        BY <1>6
      <4>3. f[1] + m <= max
        BY <1>2, <1>4, <1>6, <4>2
      <4>. QED  BY <2>1, <4>1, <4>3
    <3>2. ASSUME exact, NEW i \in 1 .. m PROVE q[1][i] = h[1] + i
      <4>1. i \in 1 .. Len(e)
        BY <1>2, <1>6
      <4>. QED  BY <1>4, <1>5, <1>9, <3>2, <4>1
    <3>. QED  BY <1>5, <2>1, <3>1, <3>2
  <2>2. CASE k = 2
    <3>1. h[3] = f[2]
      <4>1. 3 \in 3 .. l + 2 /\ 3 - 1 = 2
        BY <1>2
      <4>. QED  BY <1>9, <4>1
    <3>2. h[k + 1] = h[k] + Len(q[k]) /\ h[k + 1] <= max
      <4>1. f[1] + Len(e) = (f[1] + m) + (Len(e) - m)
        <5>1. \A x, y \in Nat : x + y = (x + m) + (y - m)
          BY <1>6
        <5>. QED  BY <1>2, <1>6, <5>1
      <4>2. k + 1 = 3 /\ h[2] = f[1] + m /\ Len(q[2]) = Len(e) - m /\ f[2] = f[1] + Len(e)
            /\ f[2] <= max
        BY <1>4, <1>5, <1>9, <2>2
      <4>3. h[3] = h[2] + Len(q[2]) /\ h[3] <= max
        BY ONLY <3>1, <4>1, <4>2
      <4>. QED  BY ONLY <2>2, <4>2, <4>3
    <3>3. ASSUME exact, NEW i \in 1 .. Len(e) - m PROVE q[2][i] = h[2] + i
      <4>1. m + i \in 1 .. Len(e) /\ f[1] + (m + i) = (f[1] + m) + i
        <5>1. \A x \in Nat : x + (m + i) = (x + m) + i
          BY <1>2, <1>6
        <5>2. m + i \in 1 .. Len(e)
          BY <1>2, <1>6
        <5>. QED  BY <1>6, <5>1, <5>2
      <4>2. e[m + i] = f[1] + (m + i)
        BY <1>4, <3>3, <4>1
      <4>. QED  BY <1>5, <1>9, <4>1, <4>2
    <3>. QED  BY <1>5, <2>2, <3>2, <3>3
  <2>3. CASE k # 1 /\ k # 2
    <3>1. k \in 3 .. l + 2 /\ k + 1 \in 3 .. l + 2 /\ k \in 3 .. l + 1 /\ k - 1 \in 1 .. l
          /\ k + 1 - 1 = k - 1 + 1
      BY <1>2, <2>3
    <3>2. h[k] = f[k - 1] /\ h[k + 1] = f[k - 1 + 1] /\ q[k] = p[k - 1]
      <4>1. \A i \in 3 .. l + 2 : h[i] = f[i - 1]
        BY <1>9
      <4>2. h[k] = f[k - 1] /\ h[k + 1] = f[k + 1 - 1]
        BY ONLY <3>1, <4>1
      <4>3. q[k] = p[k - 1]
        BY ONLY <1>8, <3>1
      <4>. QED  BY ONLY <3>1, <4>2, <4>3
    <3>3. f[k - 1 + 1] = f[k - 1] + Len(p[k - 1]) /\ f[k - 1 + 1] <= max
          /\ (exact => \A i \in 1 .. Len(p[k - 1]) : p[k - 1][i] = f[k - 1] + i)
      BY <1>7, <3>1
    <3>. QED  BY <3>2, <3>3
  <2>. QED  BY <2>1, <2>2, <2>3
<1>11. Pieces(q, h, max, exact)
  <2>1. h \in [1 .. Len(q) + 1 -> Nat]
    <3>1. l + 1 + 1 = l + 2
      BY <1>2
    <3>. QED  BY <1>6, <1>9, <3>1
  <2>. QED  BY <1>6, <1>10, <2>1 DEF Pieces
<1>12. alive => g[Len(s) + 1] = h[1] /\ h[Len(q) + 1] = max
  <2>1. l + 2 \in 3 .. l + 2 /\ l + 2 - 1 = l + 1 /\ l + 1 + 1 = l + 2
    BY <1>2
  <2>2. h[l + 2] = f[l + 1]
    <3>. DEFINE z == l + 2
    <3>1. z \in 3 .. l + 2 /\ z - 1 = l + 1
      BY <1>2
    <3>. HIDE DEF z
    <3>2. h[z] = f[z - 1]
      BY <1>9, <3>1
    <3>. QED  BY <3>1, <3>2 DEF z
  <2>. QED  BY <1>1, <1>6, <1>9, <2>1, <2>2 DEF l
<1>. QED  BY <1>1, <1>11, <1>12 DEF Flow, Ends

(* Sending a piece moves it from the pieces to the packets. *)
LEMMA FlowSend ==
  ASSUME NEW s, NEW base, NEW p, NEW max, NEW exact, NEW sizes,
         Flow(s, base, p, max, TRUE, exact, sizes), Whole(s), p # <<>>,
         NEW q \in Seq(Seq(1 .. MaxBytes)), Len(p[1]) \in sizes, Len(q) = Len(p) - 1,
         \A k \in 1 .. Len(p) - 1 : /\ Len(q[k]) = Len(p[k + 1])
                                    /\ exact => q[k] = p[k + 1]
  PROVE  Flow(s \o Packet(p[1]), base, q, max, TRUE, exact, sizes)
<1>1. PICK g, f : /\ Numbered(s, g, base, max, exact, sizes)
                  /\ Pieces(p, f, max, exact)
                  /\ g[Len(s) + 1] = f[1] /\ f[Len(p) + 1] = max
  BY DEF Flow, Ends
<1>0. /\ p \in Seq(Seq(1 .. MaxBytes)) /\ max \in Nat /\ exact \in BOOLEAN
      /\ sizes \in SUBSET Nat
  BY <1>1 DEF Flow, Numbered
<1>. USE <1>0
<1>. DEFINE l == Len(p)
            e == p[1]
            u == s \o Packet(e)
            h == [k \in 1 .. l |-> f[k + 1]]
<1>2. l \in Nat \ {0} /\ e \in Seq(1 .. MaxBytes) /\ Len(e) \in Nat /\ Len(e) \in sizes
  BY EmptySeq, LenProperties, ElementOfSeq
<1>3. f \in [1 .. l + 1 -> Nat] /\ Len(q) = l - 1 /\ f[l + 1] = max
  BY <1>1 DEF Pieces
<1>4. f[2] = f[1] + Len(e) /\ f[2] <= max /\ (exact => \A i \in 1 .. Len(e) : e[i] = f[1] + i)
  <2>1. 1 \in 1 .. Len(p) /\ 1 + 1 = 2
    BY <1>2
  <2>. QED  BY <1>1, <2>1 DEF Pieces
<1>5. \A k \in 1 .. l : f[k + 1] = f[k] + Len(p[k]) /\ f[k + 1] <= max
                        /\ (exact => \A i \in 1 .. Len(p[k]) : p[k][i] = f[k] + i)
  BY <1>1 DEF Pieces
<1>6. \A k \in 1 .. l - 1 : Len(q[k]) = Len(p[k + 1]) /\ (exact => q[k] = p[k + 1])
  OBVIOUS
<1>7. PICK n : Numbered(u, n, base, max, exact, sizes) /\ Ends(u, n, g[Len(s) + 1] + Len(e))
  <2>. HIDE DEF e
  <2>1. g[Len(s) + 1] + Len(e) <= max /\ Follows(e, g[Len(s) + 1], exact)
    BY <1>1, <1>4 DEF Follows
  <2>2. Whole(s) /\ Numbered(s, g, base, max, exact, sizes)
    BY <1>1
  <2>. QED  BY ONLY <1>2, <2>1, <2>2, NumberedAppend
<1>. HIDE DEF l, e, u
<1>8. h \in [1 .. l -> Nat] /\ \A k \in 1 .. l : h[k] = f[k + 1]
  <2>1. \A k \in 1 .. l : k + 1 \in 1 .. l + 1
    BY <1>2
  <2>. QED  BY <1>3, <2>1
<1>. HIDE DEF h
<1>9. ASSUME NEW k \in 1 .. l - 1
      PROVE  /\ h[k + 1] = h[k] + Len(q[k]) /\ h[k + 1] <= max
             /\ exact => \A i \in 1 .. Len(q[k]) : q[k][i] = h[k] + i
  <2>1. k \in 1 .. l /\ k + 1 \in 1 .. l
    BY <1>2
  <2>2. h[k] = f[k + 1] /\ h[k + 1] = f[k + 1 + 1]
    BY <1>8, <2>1
  <2>3. f[k + 1 + 1] = f[k + 1] + Len(p[k + 1]) /\ f[k + 1 + 1] <= max
        /\ (exact => \A i \in 1 .. Len(p[k + 1]) : p[k + 1][i] = f[k + 1] + i)
    BY <1>5, <2>1
  <2>4. Len(q[k]) = Len(p[k + 1]) /\ (exact => q[k] = p[k + 1])
    BY <1>6
  <2>. QED  BY <2>2, <2>3, <2>4
<1>10. Pieces(q, h, max, exact)
  <2>1. l - 1 + 1 = l
    BY <1>2
  <2>. QED  BY <1>3, <1>8, <1>9, <2>1 DEF Pieces
<1>11. n[Len(u) + 1] = h[1] /\ h[Len(q) + 1] = max
  <2>1. l - 1 + 1 = l /\ l \in 1 .. l /\ 1 \in 1 .. l
    BY <1>2
  <2>2. h[1] = f[2] /\ h[l] = f[l + 1]
    BY <1>8, <2>1
  <2>. QED  BY <1>1, <1>3, <1>4, <1>7, <2>1, <2>2 DEF Ends
<1>12. Flow(u, base, q, max, TRUE, exact, sizes)
  BY <1>7, <1>10, <1>11 DEF Flow, Ends
<1>. QED  BY <1>12 DEF u, e

(* A crash leaves a prefix of the stream. *)
LEMMA FlowCut ==
  ASSUME NEW s, NEW base, NEW p, NEW max, NEW alive, NEW exact, NEW sizes,
         Flow(s, base, p, max, alive, exact, sizes), NEW m \in 0 .. Len(s)
  PROVE  Flow(SubSeq(s, 1, m), base, <<>>, max, FALSE, exact, sizes)
<1>1. PICK g : Numbered(s, g, base, max, exact, sizes)
  BY DEF Flow
<1>2. PICK h : Numbered(SubSeq(s, 1, m), h, base, max, exact, sizes)
  BY <1>1, NumberedPrefix
<1>3. Pieces(<<>>, [k \in 1 .. 1 |-> 0], max, exact)
  <2>1. Len(<<>>) = 0 /\ 0 + 1 = 1
    BY EmptySeq
  <2>2. [k \in 1 .. 1 |-> 0] \in [1 .. Len(<<>>) + 1 -> Nat]
    BY <2>1
  <2>3. \A k \in 1 .. Len(<<>>) : FALSE
    BY <2>1
  <2>. QED  BY <2>2, <2>3 DEF Pieces
<1>4. <<>> \in Seq(Seq(1 .. MaxBytes))
  BY EmptySeq
<1>. QED  BY <1>2, <1>3, <1>4 DEF Flow

(* A packet that is taken is the next part of the stream. *)
LEMMA FlowDrop ==
  ASSUME NEW s, NEW base, NEW p, NEW max, NEW alive, NEW exact, NEW sizes,
         Flow(s, base, p, max, alive, exact, sizes),
         s # <<>>, s[1].place = 1, HeaderLen + s[1].val <= Len(s)
  PROVE  /\ s[1].val \in sizes /\ base + s[1].val <= max
         /\ FirstFollows(s, base, exact)
         /\ Flow(Rest(s), base + s[1].val, p, max, alive, exact, sizes)
<1>1. PICK g, f : /\ Numbered(s, g, base, max, exact, sizes)
                  /\ Pieces(p, f, max, exact)
                  /\ alive => Ends(s, g, f[1]) /\ Ends(p, f, max)
  BY DEF Flow
<1>2. /\ s[1].val \in sizes /\ base + s[1].val <= max
      /\ FirstFollows(s, base, exact)
      /\ \E h : /\ Numbered(Rest(s), h, base + s[1].val, max, exact, sizes)
                /\ Ends(Rest(s), h, g[Len(s) + 1])
  BY <1>1, NumberedDrop
<1>3. PICK h : /\ Numbered(Rest(s), h, base + s[1].val, max, exact, sizes)
               /\ Ends(Rest(s), h, g[Len(s) + 1])
  BY <1>2
<1>4. alive => Ends(Rest(s), h, f[1])
  BY <1>1, <1>3 DEF Ends
<1>. QED  BY <1>1, <1>2, <1>3, <1>4 DEF Flow

(* A Read splits bytes that follow the ones read before. *)
LEMMA FollowsCut ==
  ASSUME NEW r \in Seq(1 .. MaxBytes), NEW bytes \in Seq(1 .. MaxBytes), NEW exact \in BOOLEAN,
         Follows(r, 0, exact), Follows(bytes, Len(r), exact), NEW n \in 0 .. Len(bytes)
  PROVE  /\ Len(r \o SubSeq(bytes, 1, n)) = Len(r) + n
         /\ Len(From(bytes, n + 1)) = Len(bytes) - n
         /\ Follows(r \o SubSeq(bytes, 1, n), 0, exact)
         /\ Follows(From(bytes, n + 1), Len(r) + n, exact)
<1>. DEFINE a == SubSeq(bytes, 1, n)
            b == From(bytes, n + 1)
            c == r \o a
<1>1. Len(r) \in Nat /\ Len(bytes) \in Nat /\ n \in Nat
  BY LenProperties
<1>2. /\ a \in Seq(1 .. MaxBytes) /\ Len(a) = n /\ \A i \in 1 .. n : a[i] = bytes[i]
      /\ Len(b) = Len(bytes) - n /\ \A i \in 1 .. Len(bytes) - n : b[i] = bytes[n + i]
  BY CutSeq
<1>. HIDE DEF a, b
<1>3. /\ Len(c) = Len(r) + Len(a)
      /\ \A i \in 1 .. Len(r) + Len(a) : c[i] = IF i <= Len(r) THEN r[i] ELSE a[i - Len(r)]
  BY <1>2, ConcatProperties
<1>. HIDE DEF c
<1>4. ASSUME exact, NEW i \in 1 .. Len(c) PROVE c[i] = 0 + i
  <2>1. CASE i <= Len(r)
    <3>1. i \in 1 .. Len(r) /\ c[i] = r[i]
      BY <1>1, <1>2, <1>3, <2>1
    <3>. QED  BY <1>4, <3>1 DEF Follows
  <2>2. CASE ~(i <= Len(r))
    <3>. DEFINE k == i - Len(r)
    <3>1. k \in 1 .. n /\ k \in 1 .. Len(bytes) /\ c[i] = a[k] /\ Len(r) + k = 0 + i
      BY <1>1, <1>2, <1>3, <2>2
    <3>. HIDE DEF k
    <3>2. bytes[k] = Len(r) + k
      BY <1>4, <3>1 DEF Follows
    <3>. QED  BY <1>2, <3>1, <3>2
  <2>. QED  BY <2>1, <2>2
<1>5. ASSUME exact, NEW i \in 1 .. Len(b) PROVE b[i] = (Len(r) + n) + i
  <2>. DEFINE k == n + i
  <2>1. k \in 1 .. Len(bytes) /\ b[i] = bytes[k] /\ Len(r) + k = (Len(r) + n) + i
    BY <1>1, <1>2
  <2>. HIDE DEF k
  <2>2. bytes[k] = Len(r) + k
    BY <1>5, <2>1 DEF Follows
  <2>. QED  BY <2>1, <2>2
<1>6. Follows(c, 0, exact) /\ Follows(b, Len(r) + n, exact)
  BY <1>4, <1>5 DEF Follows
<1>7. Len(c) = Len(r) + n
  BY <1>2, <1>3
<1>. QED  BY <1>2, <1>6, <1>7 DEF a, b, c

(* What is added to a sequence makes it longer. *)
LEMMA ConcatPrefix ==
  ASSUME NEW S, NEW r \in Seq(S), NEW t \in Seq(S), Len(t) > 0
  PROVE  IsStrictPrefix(r, r \o t)
<1>. DEFINE u == r \o t
<1>1. Len(r) \in Nat /\ Len(t) \in Nat
  BY LenProperties
<1>2. /\ u \in Seq(S) /\ Len(u) = Len(r) + Len(t)
      /\ \A i \in 1 .. Len(r) + Len(t) : u[i] = IF i <= Len(r) THEN r[i] ELSE t[i - Len(r)]
  BY ConcatProperties
<1>. HIDE DEF u
<1>3. Len(r) <= Len(u) /\ Len(r) # Len(u) /\ Len(r) \in 0 .. Len(u) /\ Len(r) \in 0 .. Len(r)
  BY <1>1, <1>2
<1>4. /\ SubSeq(r, 1, Len(r)) \in Seq(S) /\ Len(SubSeq(r, 1, Len(r))) = Len(r)
      /\ \A i \in 1 .. Len(r) : SubSeq(r, 1, Len(r))[i] = r[i]
  BY <1>3, CutSeq
<1>5. /\ SubSeq(u, 1, Len(r)) \in Seq(S) /\ Len(SubSeq(u, 1, Len(r))) = Len(r)
      /\ \A i \in 1 .. Len(r) : SubSeq(u, 1, Len(r))[i] = u[i]
  BY <1>2, <1>3, CutSeq
<1>6. \A i \in 1 .. Len(r) : u[i] = r[i]
  BY <1>1, <1>2
<1>. DEFINE x == SubSeq(r, 1, Len(r))
            y == SubSeq(u, 1, Len(r))
<1>7. /\ x \in Seq(S) /\ y \in Seq(S) /\ Len(x) = Len(y)
      /\ \A i \in 1 .. Len(x) : x[i] = y[i]
  BY <1>4, <1>5, <1>6
<1>. HIDE DEF x, y
<1>8. x = y
  BY <1>7, SeqEqual
<1>. QED  BY <1>3, <1>8 DEF x, y, u, IsStrictPrefix, IsPrefix

(* Of two sequences that count from one, one is a prefix of the other. *)
LEMMA FollowsPrefix ==
  ASSUME NEW r \in Seq(1 .. MaxBytes), NEW w \in Seq(1 .. MaxBytes),
         Follows(r, 0, TRUE), Follows(w, 0, TRUE), Len(r) <= Len(w)
  PROVE  IsPrefix(r, w) /\ (Len(r) = Len(w) => r = w)
<1>1. Len(r) \in Nat /\ Len(w) \in Nat /\ Len(r) \in 0 .. Len(w) /\ Len(r) \in 0 .. Len(r)
  BY LenProperties
<1>2. \A i \in 1 .. Len(r) : r[i] = 0 + i /\ w[i] = 0 + i
  BY <1>1 DEF Follows
<1>. DEFINE x == SubSeq(r, 1, Len(r))
            y == SubSeq(w, 1, Len(r))
<1>3. /\ x \in Seq(1 .. MaxBytes) /\ Len(x) = Len(r) /\ \A i \in 1 .. Len(r) : x[i] = r[i]
  BY <1>1, CutSeq
<1>4. /\ y \in Seq(1 .. MaxBytes) /\ Len(y) = Len(r) /\ \A i \in 1 .. Len(r) : y[i] = w[i]
  BY <1>1, CutSeq
<1>. HIDE DEF x, y
<1>5. x = y
  <2>1. \A i \in 1 .. Len(x) : x[i] = y[i]
    BY <1>2, <1>3, <1>4
  <2>. QED  BY <1>3, <1>4, <2>1, SeqEqual
<1>6. Len(r) = Len(w) => r = w
  BY <1>2, SeqEqual
<1>. QED  BY <1>5, <1>6 DEF x, y, IsPrefix

(***************************************************************************)
(* What the refinement rests on.  As long as bytes are counted, the bytes  *)
(* read, unread, under way and still to be sent are the bytes written,     *)
(* each in its place if no write was too long.                             *)
(***************************************************************************)
Fitting == {n \in Sizes : kind = "encrypted" => n <= UnreadLen}

PartsFit ==
  /\ kind = "encrypted" => \A k \in 1 .. Len(parts) : Len(parts[k]) <= UnreadLen
  /\ intact /\ kind = "plain" =>
       Len(parts) <= 1 /\ \A k \in 1 .. Len(parts) : Len(parts[k]) <= MaxPacket

Counted ==
  /\ Follows(read, 0, intact) /\ Follows(unread, Len(read), intact)
  /\ Len(read) + Len(unread) <= Len(written)
  /\ Flow(Incoming, Len(read) + Len(unread), parts, Len(written), writer # "crashed", intact,
          Fitting)

StreamInv ==
  /\ FrameInv
  /\ writer # "open" => parts = <<>>
  /\ Follows(written, 0, TRUE)
  /\ intact \/ kind # "encrypted" => PartsFit /\ Counted

(* Steps that only move bytes between the buffers, and Close. *)
LEMMA StreamStays ==
  ASSUME StreamInv, FrameInv', Incoming' = Incoming, writer' # "open" => parts = <<>>,
         (writer' # "crashed") = (writer # "crashed"),
         UNCHANGED <<kind, parts, written, read, unread, intact>>
  PROVE  StreamInv'
<1>1. Fitting' = Fitting
  BY DEF Fitting, Sizes
<1>2. PartsFit => PartsFit'
  BY DEF PartsFit
<1>3. Counted => Counted'
  BY <1>1 DEF Counted
<1>. QED  BY <1>2, <1>3 DEF StreamInv

(* Write puts its data behind all that was written before. *)
LEMMA StreamWrite ==
  ASSUME StreamInv, NEW n \in MessageLens, Write(n)
  PROVE  StreamInv'
<1>. DEFINE data == [i \in 1 .. n |-> Len(written) + i]
<1>0. FrameInv /\ Typed /\ Follows(written, 0, TRUE)
  BY DEF StreamInv, FrameInv
<1>1. FrameInv'
  BY <1>0, FrameWrite
<1>2. /\ writer = "open" /\ parts = <<>> /\ Len(written) + n <= MaxBytes
      /\ written' = written \o data /\ parts' = <<data>> /\ intact' = (intact /\ n <= Limit)
      /\ UNCHANGED <<kind, wire, writer, unread, got, overflow, read>>
  BY DEF Write, buffers
<1>3. n \in Nat /\ Len(written) \in Nat /\ MaxBytes \in Nat /\ written \in Seq(1 .. MaxBytes)
      /\ intact \in BOOLEAN /\ Len(read) \in Nat /\ Len(unread) \in Nat
  BY <1>0, PacketConnAssumption, LenProperties DEF Typed
<1>4. data \in Seq(1 .. MaxBytes) /\ Len(data) = n
  <2>1. \A i \in 1 .. n : Len(written) + i \in 1 .. MaxBytes
    BY <1>2, <1>3
  <2>. QED  BY <1>3, <2>1
<1>5. \A exact : Follows(data, Len(written), exact)
  BY <1>4 DEF Follows
<1>. HIDE DEF data
<1>6. Len(written') = Len(written) + n /\ Follows(written', 0, TRUE)
  <2>1. SubSeq(data, 1, n) = data /\ n \in 0 .. Len(data)
    BY <1>3, <1>4, SubSeqFull
  <2>2. Len(written \o SubSeq(data, 1, n)) = Len(written) + n
        /\ Follows(written \o SubSeq(data, 1, n), 0, TRUE)
    BY <1>0, <1>3, <1>4, <1>5, <2>1, FollowsCut
  <2>. QED  BY <1>2, <2>1, <2>2
<1>7. intact' \in BOOLEAN /\ (intact' => intact /\ n <= Limit)
  BY <1>2
<1>8. ASSUME intact' \/ kind' # "encrypted" PROVE PartsFit' /\ Counted'
  <2>1. PartsFit /\ Counted
    BY <1>2, <1>7, <1>8 DEF StreamInv
  <2>2. Len(parts') = 1 /\ parts'[1] = data
    BY <1>2
  <2>3. PartsFit'
    <3>1. intact' /\ kind = "encrypted" => n <= UnreadLen
      BY <1>7 DEF Limit
    <3>2. intact' /\ kind = "plain" => n <= MaxPacket
      BY <1>7 DEF Limit
    <3>3. \A k \in 1 .. Len(parts') : Len(parts'[k]) = n
      BY <1>4, <2>2
    <3>4. Len(parts') <= 1
      BY <2>2
    <3>. QED  BY <1>2, <1>8, <3>1, <3>2, <3>3, <3>4 DEF PartsFit
  <2>4. Fitting' = Fitting /\ Incoming' = Incoming
    BY <1>2 DEF Fitting, Sizes, Incoming
  <2>5. Flow(Incoming, Len(read) + Len(unread), <<>>, Len(written), TRUE, intact, Fitting)
    <3>1. (writer # "crashed") = TRUE
      BY <1>2
    <3>. QED  BY <1>2, <2>1, <3>1 DEF Counted
  <2>6. Flow(Incoming, Len(read) + Len(unread), <<data>>, Len(written) + Len(data), TRUE, intact',
             Fitting)
    BY <1>4, <1>5, <1>7, <2>5, FlowWrite
  <2>7. Flow(Incoming', Len(read') + Len(unread'), parts', Len(written'), writer' # "crashed",
             intact', Fitting')
    <3>1. (writer' # "crashed") = TRUE
      BY <1>2
    <3>. QED  BY <1>2, <1>4, <1>6, <2>4, <2>6, <3>1
  <2>8. Follows(read', 0, intact') /\ Follows(unread', Len(read'), intact')
    BY <1>2, <1>7, <2>1 DEF Counted, Follows
  <2>9. Len(read') + Len(unread') <= Len(written')
    BY <1>2, <1>3, <1>6, <2>1 DEF Counted
  <2>. QED  BY <2>3, <2>7, <2>8, <2>9 DEF Counted
<1>. QED  BY <1>1, <1>2, <1>6, <1>8 DEF StreamInv

(* Split leaves the stream as it is. *)
LEMMA StreamSplit ==
  ASSUME StreamInv, Split
  PROVE  StreamInv'
<1>0. FrameInv /\ Typed /\ PartsOK
  BY DEF StreamInv, FrameInv
<1>1. FrameInv'
  BY <1>0, FrameSplit
<1>2. /\ writer = "open" /\ parts # <<>>
      /\ UNCHANGED <<kind, wire, writer, unread, got, overflow, read, written, intact>>
  BY DEF Split, buffers, history
<1>3. PICK m \in 1 .. Len(parts[1]) - 1 :
           /\ parts' \in Seq(Seq(1 .. MaxBytes)) /\ Len(parts') = Len(parts) + 1
           /\ parts'[1] = SubSeq(parts[1], 1, m) /\ parts'[2] = From(parts[1], m + 1)
           /\ \A i \in 3 .. Len(parts) + 1 : parts'[i] = parts[i - 1]
           /\ kind # "encrypted" /\ Len(parts[1]) > MaxPacket
  BY <1>0, SplitEffect
<1>4. Len(parts) \in Nat \ {0} /\ Len(parts[1]) \in Nat /\ MaxPacket \in Nat
  BY <1>0, <1>2, EmptySeq, LenProperties, ElementOfSeq, PacketConnAssumption DEF Typed
<1>5. PartsFit /\ Counted
  BY <1>3 DEF StreamInv
<1>6. ~(intact /\ kind = "plain")
  <2>1. 1 \in 1 .. Len(parts) /\ ~(Len(parts[1]) <= MaxPacket)
    BY <1>3, <1>4
  <2>. QED  BY <1>5, <2>1 DEF PartsFit
<1>7. PartsFit'
  BY <1>2, <1>3, <1>6 DEF PartsFit
<1>8. Fitting' = Fitting /\ Incoming' = Incoming
  BY <1>2 DEF Fitting, Sizes, Incoming
<1>9. Flow(Incoming, Len(read) + Len(unread), parts', Len(written), writer # "crashed", intact,
           Fitting)
  <2>1. m \in 0 .. Len(parts[1])
    BY <1>4
  <2>2. Flow(Incoming, Len(read) + Len(unread), parts, Len(written), writer # "crashed", intact,
             Fitting)
    BY <1>5 DEF Counted
  <2>. QED  BY <1>2, <1>3, <2>1, <2>2, FlowSplit
<1>10. Counted'
  BY <1>2, <1>5, <1>8, <1>9 DEF Counted
<1>. QED  BY <1>1, <1>2, <1>7, <1>10 DEF StreamInv

(* Send moves a piece from the pieces to the packets. *)
LEMMA StreamSend ==
  ASSUME StreamInv, Send
  PROVE  StreamInv'
<1>0. FrameInv /\ Typed /\ PartsOK /\ FramedOK
  BY DEF StreamInv, FrameInv
<1>1. FrameInv' /\ Incoming' = Incoming \o Packet(parts[1])
  BY <1>0, FrameSend
<1>2. /\ writer = "open" /\ UNCHANGED <<kind, writer, unread, read, written, intact>>
  BY DEF Send, buffers, history
<1>3. /\ parts # <<>> /\ Len(parts) \in Nat \ {0}
      /\ Len(parts[1]) \in Sizes
      /\ parts' \in Seq(Seq(1 .. MaxBytes)) /\ Len(parts') = Len(parts) - 1
      /\ \A i \in 1 .. Len(parts) - 1 :
           /\ Len(parts'[i]) = Len(parts[i + 1])
           /\ i > 1 \/ kind # "plain" => parts'[i] = parts[i + 1]
  BY <1>0, SendEffect
<1>4. ASSUME intact \/ kind # "encrypted" PROVE PartsFit' /\ Counted'
  <2>1. PartsFit /\ Counted
    BY <1>4 DEF StreamInv
  <2>2. Fitting' = Fitting
    BY <1>2 DEF Fitting, Sizes
  <2>3. \A k \in 1 .. Len(parts) - 1 : k + 1 \in 1 .. Len(parts)
    BY <1>3
  <2>4. \A k \in 1 .. Len(parts) - 1 : /\ Len(parts'[k]) = Len(parts[k + 1])
                                       /\ intact => parts'[k] = parts[k + 1]
    <3>1. SUFFICES ASSUME NEW k \in 1 .. Len(parts) - 1, intact PROVE parts'[k] = parts[k + 1]
      BY <1>3
    <3>2. kind # "plain"
      <4>1. ~(Len(parts) <= 1)
        BY <1>3
      <4>. QED  BY <2>1, <3>1, <4>1 DEF PartsFit
    <3>. QED  BY <1>3, <3>2
  <2>5. Len(parts[1]) \in Fitting
    <3>1. 1 \in 1 .. Len(parts)
      BY <1>3
    <3>. QED  BY <1>3, <2>1, <3>1 DEF Fitting, PartsFit
  <2>6. (writer # "crashed") = TRUE /\ (writer' # "crashed") = TRUE /\ Whole(Incoming)
    BY <1>0, <1>2 DEF FramedOK
  <2>7. Flow(Incoming, Len(read) + Len(unread), parts, Len(written), TRUE, intact, Fitting)
    BY <2>1, <2>6 DEF Counted
  <2>8. Flow(Incoming \o Packet(parts[1]), Len(read) + Len(unread), parts', Len(written), TRUE,
             intact, Fitting)
    BY <1>3, <2>4, <2>5, <2>6, <2>7, FlowSend
  <2>9. Counted'
    BY <1>1, <1>2, <2>1, <2>2, <2>6, <2>8 DEF Counted
  <2>10. PartsFit'
    <3>1. kind = "encrypted" => \A k \in 1 .. Len(parts') : Len(parts'[k]) <= UnreadLen
      BY <1>3, <2>1, <2>3 DEF PartsFit
    <3>2. intact /\ kind = "plain" =>
            Len(parts') <= 1 /\ \A k \in 1 .. Len(parts') : Len(parts'[k]) <= MaxPacket
      <4>1. Len(parts) <= 1 => Len(parts') <= 1
        BY <1>3
      <4>. QED  BY <1>3, <2>1, <2>3, <4>1 DEF PartsFit
    <3>. QED  BY <1>2, <3>1, <3>2 DEF PartsFit
  <2>. QED  BY <2>9, <2>10
<1>. QED  BY <1>1, <1>2, <1>4 DEF StreamInv

(* A crash loses the end of the stream. *)
LEMMA StreamFinish ==
  ASSUME StreamInv, Close \/ Crash
  PROVE  StreamInv'
<1>0. FrameInv
  BY DEF StreamInv
<1>1. /\ FrameInv'
      /\ \E m \in 0 .. Len(Incoming) : Incoming' = SubSeq(Incoming, 1, m)
  BY <1>0, FrameFinish
<1>2. /\ writer = "open" /\ UNCHANGED <<kind, unread, read, written, intact>>
  BY DEF Close, Crash, buffers, history
<1>3. CASE Close
  <2>1. writer' = "closed" /\ parts = <<>> /\ UNCHANGED <<parts, wire, got, overflow>>
    BY <1>3 DEF Close, buffers
  <2>2. Incoming' = Incoming
    BY <2>1 DEF Incoming
  <2>3. (writer' # "crashed") = (writer # "crashed")
    BY <1>2, <2>1
  <2>. QED  BY <1>1, <1>2, <2>1, <2>2, <2>3, StreamStays
<1>4. CASE Crash
  <2>1. writer' = "crashed" /\ parts' = <<>>
    BY <1>4 DEF Crash
  <2>2. Len(parts') = 0
    BY <2>1, EmptySeq
  <2>3. PartsFit'
    BY <2>2 DEF PartsFit
  <2>4. Fitting' = Fitting /\ (writer' # "crashed") = FALSE
    BY <1>2, <2>1 DEF Fitting, Sizes
  <2>5. Counted => Counted'
    <3>1. SUFFICES ASSUME Counted PROVE Counted'
      OBVIOUS
    <3>2. PICK m \in 0 .. Len(Incoming) : Incoming' = SubSeq(Incoming, 1, m)
      BY <1>1
    <3>3. Flow(SubSeq(Incoming, 1, m), Len(read) + Len(unread), <<>>, Len(written), FALSE, intact,
               Fitting)
      BY <3>1, FlowCut DEF Counted
    <3>. QED  BY <1>2, <2>1, <2>4, <3>1, <3>2, <3>3 DEF Counted
  <2>. QED  BY <1>1, <1>2, <2>1, <2>3, <2>5 DEF StreamInv
<1>. QED  BY <1>3, <1>4

(* Bytes that were unread are read. *)
LEMMA StreamUnread ==
  ASSUME StreamInv, ReadUnread
  PROVE  StreamInv' /\ IsStrictPrefix(read, read')
<1>0. FrameInv /\ Typed
  BY DEF StreamInv, FrameInv
<1>1. FrameInv'
  BY <1>0, FrameUnread
<1>2. /\ unread # <<>> /\ readUnread(unread)
      /\ UNCHANGED <<kind, parts, wire, writer, got, overflow, written, intact>>
  BY DEF ReadUnread
<1>3. /\ unread \in Seq(1 .. MaxBytes) /\ read \in Seq(1 .. MaxBytes) /\ intact \in BOOLEAN
      /\ Len(read) \in Nat /\ Len(unread) \in Nat
  BY <1>0, LenProperties DEF Typed
<1>4. PICK n \in 0 .. Len(unread) :
        /\ unread # <<>> => n > 0
        /\ read' = read \o SubSeq(unread, 1, n) /\ unread' = From(unread, n + 1)
  BY <1>0, <1>2, <1>3, readUnreadEffect
<1>5. IsStrictPrefix(read, read')
  <2>1. SubSeq(unread, 1, n) \in Seq(1 .. MaxBytes) /\ Len(SubSeq(unread, 1, n)) = n
    BY <1>3, CutSeq
  <2>. QED  BY <1>2, <1>3, <1>4, <2>1, ConcatPrefix
<1>6. Fitting' = Fitting /\ Incoming' = Incoming
  BY <1>2 DEF Fitting, Sizes, Incoming
<1>7. Counted => Counted'
  <2>1. SUFFICES ASSUME Counted PROVE Counted'
    OBVIOUS
  <2>2. /\ Len(read') = Len(read) + n /\ Len(unread') = Len(unread) - n
        /\ Follows(read', 0, intact) /\ Follows(unread', Len(read) + n, intact)
    <3>1. Follows(read, 0, intact) /\ Follows(unread, Len(read), intact)
      BY <2>1 DEF Counted
    <3>. QED  BY <1>3, <1>4, <3>1, FollowsCut
  <2>3. Len(read') + Len(unread') = Len(read) + Len(unread)
    BY <1>3, <2>2
  <2>. QED  BY <1>2, <1>6, <2>1, <2>2, <2>3 DEF Counted
<1>8. PartsFit => PartsFit'
  BY <1>2 DEF PartsFit
<1>. QED  BY <1>1, <1>2, <1>5, <1>7, <1>8 DEF StreamInv

(* The first packet of the stream is read. *)
LEMMA StreamReturn ==
  ASSUME StreamInv, FrameInv', Dropped, NEW s \in Seq(Byte), NEW t \in Seq(Byte),
         Incoming = s \o t, Framed(s, Sizes), s # <<>>, HeaderLen + s[1].val <= Len(s),
         kind # "encrypted" => Len(s) <= unreadLen, unread = <<>>,
         ReturnPacket(SubSeq(s, HeaderLen + 1, HeaderLen + s[1].val)),
         UNCHANGED <<kind, parts, writer, written, intact>>
  PROVE  StreamInv' /\ IsStrictPrefix(read, read')
<1>. DEFINE v == s[1].val
            data == Data(s)
            kept == Kept(unreadLen, data)
<1>0. FrameInv /\ Typed /\ BuffersOK /\ FramedOK
  BY DEF StreamInv, FrameInv
<1>1. Sizes \in SUBSET (Nat \ {0}) /\ Fitting \in SUBSET Sizes
  BY DEF Sizes, Fitting
<1>2. /\ data \in Seq(1 .. MaxBytes) /\ Len(data) = v
      /\ \A i \in 1 .. v : data[i] = s[HeaderLen + i].val
  BY <1>1, DataOfFirst
<1>3. PICK n \in 1 .. Len(kept) : read' = read \o SubSeq(kept, 1, n) /\ unread' = From(kept, n + 1)
  BY <1>0, ReturnEffect
<1>4. /\ read \in Seq(1 .. MaxBytes) /\ intact \in BOOLEAN /\ Len(read) \in Nat
      /\ unreadLen \in Nat /\ UnreadLen \in Nat /\ UnreadLen <= unreadLen /\ HeaderLen \in Nat
      /\ Len(s) \in Nat
  BY <1>0, LenProperties, PacketConnAssumption DEF Typed, BuffersOK
<1>5. s[1].val \in Sizes /\ v \in Nat
  <2>1. Sizes \in SUBSET Nat
    BY <1>1
  <2>. QED  BY <2>1, FirstPacket
<1>. HIDE DEF data
<1>6. kept \in Seq(1 .. MaxBytes) /\ (Len(data) <= unreadLen => kept = data)
  BY <1>2, <1>4, KeptEffect
<1>. HIDE DEF kept
<1>7. n \in 0 .. Len(kept) /\ n > 0 /\ Len(kept) \in Nat
  BY <1>6, LenProperties
<1>8. IsStrictPrefix(read, read')
  <2>1. SubSeq(kept, 1, n) \in Seq(1 .. MaxBytes) /\ Len(SubSeq(kept, 1, n)) = n
    BY <1>6, <1>7, CutSeq
  <2>. QED  BY <1>3, <1>4, <1>7, <2>1, ConcatPrefix
<1>9. Fitting' = Fitting
  BY DEF Fitting, Sizes
<1>10. /\ Incoming # <<>> /\ Incoming[1] = s[1] /\ Incoming' = Rest(Incoming)
       /\ HeaderLen + Incoming[1].val <= Len(Incoming)
  BY CutConcat DEF Dropped, Rest
<1>11. Incoming[1].place = 1
  BY <1>0, <1>10 DEF FramedOK, Framed
<1>12. Counted => Counted'
  <2>1. SUFFICES ASSUME Counted PROVE Counted'
    OBVIOUS
  <2>2. /\ Follows(read, 0, intact) /\ Len(read) + Len(unread) = Len(read)
        /\ Flow(Incoming, Len(read) + Len(unread), parts, Len(written), writer # "crashed", intact,
                Fitting)
    <3>1. Len(unread) = 0
      BY EmptySeq
    <3>. QED  BY <1>4, <2>1, <3>1 DEF Counted
  <2>3. /\ v \in Fitting /\ Len(read) + v <= Len(written)
        /\ FirstFollows(Incoming, Len(read), intact)
        /\ Flow(Rest(Incoming), Len(read) + v, parts, Len(written), writer # "crashed", intact,
                Fitting)
    <3>1. /\ Incoming[1].val \in Fitting /\ Len(read) + Incoming[1].val <= Len(written)
          /\ FirstFollows(Incoming, Len(read), intact)
          /\ Flow(Rest(Incoming), Len(read) + Incoming[1].val, parts, Len(written),
                  writer # "crashed", intact, Fitting)
      BY <1>10, <1>11, <2>2, FlowDrop
    <3>. QED  BY <1>10, <3>1
  <2>4. Len(data) <= unreadLen
    <3>1. kind = "encrypted" => v <= UnreadLen
      BY <2>3 DEF Fitting
    <3>2. kind # "encrypted" => v <= unreadLen
      BY <1>4, <1>5
    <3>. QED  BY <1>2, <1>4, <1>5, <3>1, <3>2
  <2>5. Follows(data, Len(read), intact)
    <3>1. ASSUME intact, NEW i \in 1 .. v PROVE data[i] = Len(read) + i
      <4>1. Incoming[HeaderLen + i].val = Len(read) + i
        BY <1>10, <2>3, <3>1 DEF FirstFollows
      <4>2. HeaderLen + i \in 1 .. Len(s) /\ Len(t) \in Nat
        BY <1>4, <1>5, LenProperties
      <4>3. Incoming[HeaderLen + i] = s[HeaderLen + i]
        <5>. DEFINE k == HeaderLen + i
        <5>1. k \in 1 .. Len(s) + Len(t) /\ k <= Len(s)
          BY <1>4, <4>2
        <5>. HIDE DEF k
        <5>2. Incoming[k] = s[k]
          BY <5>1, ConcatProperties
        <5>. QED  BY <5>2 DEF k
      <4>. QED  BY <1>2, <4>1, <4>3
    <3>. QED  BY <1>2, <3>1 DEF Follows
  <2>6. kept = data
    BY <1>6, <2>4
  <2>7. /\ Len(read') = Len(read) + n /\ Len(unread') = v - n
        /\ Follows(read', 0, intact) /\ Follows(unread', Len(read) + n, intact)
    <3>1. n \in 0 .. Len(data)
      BY <1>7, <2>6
    <3>2. read' = read \o SubSeq(data, 1, n) /\ unread' = From(data, n + 1)
      BY <1>3, <2>6
    <3>3. data \in Seq(1 .. MaxBytes) /\ read \in Seq(1 .. MaxBytes) /\ intact \in BOOLEAN
          /\ Follows(read, 0, intact)
      BY <1>2, <1>4, <2>2
    <3>4. /\ Len(read \o SubSeq(data, 1, n)) = Len(read) + n
          /\ Len(From(data, n + 1)) = Len(data) - n
          /\ Follows(read \o SubSeq(data, 1, n), 0, intact)
          /\ Follows(From(data, n + 1), Len(read) + n, intact)
      BY ONLY <2>5, <3>1, <3>3, FollowsCut
    <3>. QED  BY <1>2, <3>2, <3>4
  <2>8. Len(read') + Len(unread') = Len(read) + v
    BY <1>4, <1>5, <1>7, <2>7
  <2>. QED  BY <1>9, <1>10, <2>3, <2>7, <2>8 DEF Counted
<1>13. PartsFit => PartsFit'
  BY DEF PartsFit
<1>. QED  BY <1>8, <1>12, <1>13 DEF StreamInv

(* Both kinds of connections return the first packet. *)
LEMMA StreamPacket ==
  ASSUME StreamInv, ReadMessage \/ FinishPacket
  PROVE  /\ StreamInv' /\ IsStrictPrefix(read, read')
         /\ UNCHANGED <<kind, parts, writer, written, intact>>
<1>0. FrameInv /\ Typed /\ BuffersOK /\ FramedOK
  BY DEF StreamInv, FrameInv
<1>1. CASE ReadMessage
  <2>1. FrameInv' /\ Dropped /\ Incoming = wire
    BY <1>0, <1>1, FrameMessage
  <2>2. /\ UNCHANGED <<kind, parts, writer, written, intact>>
        /\ kind = "encrypted" /\ unread = <<>>
        /\ ReturnPacket(SubSeq(wire, HeaderLen + 1, HeaderLen + wire[1].val))
    BY <1>1 DEF ReadMessage, NeedsPacket
  <2>3. wire \in Seq(Byte) /\ <<>> \in Seq(Byte) /\ wire = wire \o <<>>
    BY <1>0, EmptySeq, ConcatEmptySeq DEF Typed
  <2>4. wire # <<>> /\ Framed(wire, Sizes) /\ HeaderLen + wire[1].val <= Len(wire)
    BY <1>0, <2>1 DEF Dropped, FramedOK
  <2>. QED  BY <2>1, <2>2, <2>3, <2>4, StreamReturn
<1>2. CASE FinishPacket
  <2>1. FrameInv' /\ Dropped
    BY <1>0, <1>2, FrameFinishPacket
  <2>2. /\ got \in Seq(Byte) /\ got # <<>> /\ Framed(got, Sizes)
        /\ HeaderLen + got[1].val <= Len(got) /\ Len(got) <= unreadLen
        /\ ReturnPacket(SubSeq(got, HeaderLen + 1, HeaderLen + got[1].val))
        /\ Incoming = got \o wire
    BY <1>0, <1>2, FinishFacts
  <2>3. /\ UNCHANGED <<kind, parts, writer, written, intact>> /\ pc = "packet"
    BY <1>2 DEF FinishPacket
  <2>4. unread = <<>> /\ wire \in Seq(Byte)
    BY <1>0, <2>3 DEF BuffersOK, Typed
  <2>. QED  BY <2>1, <2>2, <2>3, <2>4, StreamReturn
<1>. QED  BY <1>1, <1>2

(* The steps that leave what Stream speaks of but the state of the reader. *)
Inner == ReadFirst \/ TakeOverflow \/ ReadMore \/ ReadEnds

(* They move bytes from one buffer to the next, or end the stream. *)
LEMMA StreamInner ==
  ASSUME StreamInv, Inner
  PROVE  /\ StreamInv' /\ UNCHANGED <<kind, writer, written, read, intact>>
         /\ pc \in {"idle", "packet"}
         /\ pc' \in {"packet", "error"} \/ (pc' = "eof" /\ ReadEnds)
<1>0. FrameInv
  BY DEF StreamInv
<1>1. UNCHANGED <<kind, parts, writer, written, read, unread, intact>>
  BY DEF Inner, ReadFirst, TakeOverflow, ReadMore, ReadEnds, buffers, history
<1>2. FrameInv' /\ Incoming' = Incoming
  <2>1. CASE ReadFirst
    BY <1>0, <2>1, FrameFirst
  <2>2. CASE TakeOverflow
    BY <1>0, <2>2, FrameOverflow
  <2>3. CASE ReadMore
    BY <1>0, <2>3, FrameMore
  <2>4. CASE ReadEnds
    <3>1. Incoming' = Incoming
      BY <2>4 DEF ReadEnds, buffers, Incoming
    <3>. QED  BY <1>0, <2>4, <3>1, FrameEnds
  <2>. QED  BY <2>1, <2>2, <2>3, <2>4 DEF Inner
<1>3. writer' # "open" => parts = <<>>
  BY <1>1 DEF StreamInv
<1>4. (writer' # "crashed") = (writer # "crashed")
  BY <1>1
<1>5. StreamInv'
  BY <1>1, <1>2, <1>3, <1>4, StreamStays
<1>6. pc \in {"idle", "packet"}
  BY DEF Inner, ReadFirst, TakeOverflow, ReadMore, ReadEnds, Starved, NeedsPacket
<1>7. pc' \in {"packet", "error"} \/ (pc' = "eof" /\ ReadEnds)
  BY DEF Inner, ReadFirst, TakeOverflow, ReadMore, ReadEnds, Examine
<1>. QED  BY <1>1, <1>5, <1>6, <1>7

(* StreamInv is inductive. *)
LEMMA StreamStep ==
  ASSUME StreamInv, [Next]_vars
  PROVE  StreamInv'
<1>1. CASE UNCHANGED vars
  <2>1. UNCHANGED <<kind, parts, wire, writer, pc, unread, unreadLen, got, overflow, written,
                    read, intact, cut>>
    BY <1>1 DEF vars, buffers, history
  <2>2. Incoming' = Incoming /\ Sizes' = Sizes
    BY <2>1 DEF Incoming, Sizes
  <2>3. FrameInv'
    BY <2>1, <2>2 DEF StreamInv, FrameInv, Typed, PartsOK, BuffersOK, FramedOK, Framed, Whole,
                      CutOK, FailsOnlyIfCut
  <2>4. (writer' # "crashed") = (writer # "crashed") /\ (writer' # "open" => parts = <<>>)
    BY <2>1 DEF StreamInv
  <2>. QED  BY <2>1, <2>2, <2>3, <2>4, StreamStays
<1>2. CASE Inner
  BY <1>2, StreamInner
<1>. QED  BY <1>1, <1>2, StreamWrite, StreamSplit, StreamSend, StreamFinish, StreamUnread,
             StreamPacket DEF Next, Read, Inner

(* Nothing is under way in the beginning. *)
LEMMA StreamStart ==
  ASSUME Init
  PROVE  StreamInv
<1>1. /\ parts = <<>> /\ wire = <<>> /\ got = <<>> /\ overflow = <<>> /\ unread = <<>>
      /\ read = <<>> /\ written = <<>> /\ unreadLen = UnreadLen /\ pc = "idle"
      /\ writer = "open" /\ intact = TRUE /\ cut = FALSE
      /\ kind \in {"encrypted", "plain", "copying"}
  BY DEF Init
<1>2. FrameInv
  BY FrameStart
<1>3. Len(<<>>) = 0 /\ <<>> \in Seq(Byte) /\ <<>> \in Seq(Seq(1 .. MaxBytes))
  BY EmptySeq
<1>4. Incoming = <<>>
  BY <1>1, <1>3, JoinedIs DEF Incoming
<1>5. \A first, exact : Follows(<<>>, first, exact)
  BY <1>3 DEF Follows
<1>6. Fitting \in SUBSET Nat
  BY DEF Fitting, Sizes
<1>7. Flow(<<>>, 0, <<>>, 0, TRUE, TRUE, Fitting)
  <2>. DEFINE g == [i \in 1 .. 1 |-> 0]
  <2>1. g \in [1 .. Len(<<>>) + 1 -> Nat] /\ g[1] = 0
    BY <1>3
  <2>2. \A i \in 1 .. Len(<<>>) : FALSE
    BY <1>3
  <2>. HIDE DEF g
  <2>3. Numbered(<<>>, g, 0, 0, TRUE, Fitting)
    BY <1>3, <1>6, <2>1, <2>2 DEF Numbered
  <2>4. Pieces(<<>>, g, 0, TRUE)
    BY <2>1, <2>2 DEF Pieces
  <2>5. Ends(<<>>, g, 0)
    <3>1. Len(<<>>) + 1 = 1
      BY <1>3
    <3>. QED  BY <2>1, <3>1 DEF Ends
  <2>6. Ends(<<>>, g, g[1])
    BY <2>1, <2>5
  <2>. QED  BY <1>3, <2>3, <2>4, <2>5, <2>6 DEF Flow
<1>8. PartsFit
  BY <1>1, <1>3 DEF PartsFit
<1>9. Counted
  <2>1. Len(read) + Len(unread) = 0 /\ Len(written) = 0 /\ (writer # "crashed") = TRUE
    BY <1>1, <1>3
  <2>2. Follows(read, 0, intact) /\ Follows(unread, Len(read), intact)
    BY <1>1, <1>5
  <2>3. Flow(Incoming, Len(read) + Len(unread), parts, Len(written), writer # "crashed", intact,
             Fitting)
    BY <1>1, <1>4, <1>7, <2>1
  <2>. QED  BY <2>1, <2>2, <2>3 DEF Counted
<1>. QED  BY <1>1, <1>2, <1>5, <1>8, <1>9 DEF StreamInv

(* At the end of a stream that was closed all has been read. *)
LEMMA EndOfStream ==
  ASSUME StreamInv, ReadEnds, pc' = "eof", writer = "closed"
  PROVE  /\ intact => read = written
         /\ kind # "encrypted" => Len(read) = Len(written)
<1>0. FrameInv /\ Typed /\ BuffersOK /\ FramedOK
  BY DEF StreamInv, FrameInv
<1>1. wire = <<>> /\ Starved /\ parts = <<>>
  BY DEF ReadEnds, StreamInv
<1>2. /\ wire \in Seq(Byte) /\ got \in Seq(Byte) /\ overflow \in Seq(Byte) /\ HeaderLen \in Nat \ {0}
      /\ read \in Seq(1 .. MaxBytes) /\ written \in Seq(1 .. MaxBytes) /\ Sizes \in SUBSET Nat
      /\ Len(read) \in Nat /\ Len(written) \in Nat
  BY <1>0, PacketConnAssumption, LenProperties DEF Typed, Sizes
<1>3. NeedsPacket
  <2>1. SUFFICES ASSUME kind # "encrypted", pc = "packet", ~Complete(got) PROVE FALSE
    BY <1>1 DEF Starved
  <2>2. overflow = <<>> /\ Len(got) >= HeaderLen /\ Len(got) \in Nat
    BY <1>0, <1>2, <2>1, LenProperties DEF BuffersOK
  <2>3. Incoming = got
    <3>1. Incoming = got \o wire
      BY <1>2, <2>2, JoinedIs DEF Incoming
    <3>. QED  BY <1>1, <1>2, <3>1, ConcatEmptySeq
  <2>4. got # <<>>
    <3>1. Len(got) # 0 /\ Len(<<>>) = 0
      BY <1>2, <2>2, EmptySeq
    <3>. QED  BY <3>1
  <2>5. Framed(got, Sizes) /\ Whole(got)
    BY <1>0, <2>3 DEF FramedOK
  <2>6. HeaderLen + got[1].val <= Len(got) /\ got[1].val \in Nat
    BY <1>2, <2>4, <2>5, FirstPacket
  <2>. QED  BY <1>2, <2>1, <2>2, <2>6 DEF Complete
<1>4. got = <<>> /\ overflow = <<>> /\ unread = <<>>
  BY <1>0, <1>1, <1>3 DEF BuffersOK, NeedsPacket, Starved
<1>5. Incoming = <<>>
  <2>1. Joined(overflow, got, wire) = wire
    BY <1>2, <1>4, JoinedIs
  <2>. QED  BY <1>1, <2>1 DEF Incoming
<1>6. ASSUME intact \/ kind # "encrypted" PROVE Len(read) = Len(written)
  <2>1. Counted
    BY <1>6 DEF StreamInv
  <2>2. Len(<<>>) = 0 /\ Len(unread) = 0 /\ (writer # "crashed") = TRUE
    BY <1>4, EmptySeq
  <2>3. Flow(<<>>, Len(read) + Len(unread), <<>>, Len(written), TRUE, intact, Fitting)
    BY <1>1, <1>5, <2>1, <2>2 DEF Counted
  <2>4. PICK g, f : /\ Numbered(<<>>, g, Len(read) + Len(unread), Len(written), intact, Fitting)
                    /\ g[Len(<<>>) + 1] = f[1] /\ f[Len(<<>>) + 1] = Len(written)
    BY <2>3 DEF Flow, Ends
  <2>5. Len(<<>>) + 1 = 1 /\ g[1] = Len(read) + Len(unread)
    BY <2>2, <2>4 DEF Numbered
  <2>. QED  BY <1>2, <2>2, <2>4, <2>5
<1>7. ASSUME intact PROVE read = written
  <2>1. Follows(read, 0, TRUE) /\ Follows(written, 0, TRUE) /\ Len(read) = Len(written)
    BY <1>6, <1>7 DEF StreamInv, Counted, Follows
  <2>2. Len(read) <= Len(written)
    BY <1>2, <2>1
  <2>. QED  BY <1>2, <2>1, <2>2, FollowsPrefix
<1>. QED  BY <1>6, <1>7

(* A Read returns more of what was written. *)
LEMMA ReadsWritten ==
  ASSUME StreamInv', IsStrictPrefix(read, read'), pc = "idle" \/ pc = "packet", pc' = "idle",
         UNCHANGED <<kind, writer, written, intact>>
  PROVE  Promise!Read
<1>1. ASSUME intact PROVE IsPrefix(read', written)
  <2>1. /\ read' \in Seq(1 .. MaxBytes) /\ unread' \in Seq(1 .. MaxBytes)
        /\ written \in Seq(1 .. MaxBytes)
    BY DEF StreamInv, FrameInv, Typed
  <2>2. Counted' /\ Follows(written, 0, TRUE)
    BY <1>1 DEF StreamInv
  <2>3. Follows(read', 0, TRUE) /\ Len(read') + Len(unread') <= Len(written)
    BY <1>1, <2>2 DEF Counted, Follows
  <2>4. Len(read') <= Len(written)
    <3>1. Len(read') \in Nat /\ Len(unread') \in Nat /\ Len(written) \in Nat
      BY <2>1, LenProperties
    <3>. QED  BY <2>3, <3>1
  <2>. QED  BY <2>1, <2>2, <2>3, <2>4, FollowsPrefix
<1>2. Limit' = Limit
  BY DEF Limit
<1>. QED  BY <1>1, <1>2 DEF Promise!Read, Promise!IsStrictPrefix, Promise!IsPrefix,
                          IsStrictPrefix, IsPrefix

(* Every step of a connection is a step of a stream or none. *)
LEMMA StreamSteps ==
  ASSUME StreamInv, [Next]_vars
  PROVE  [Promise!Next]_(Promise!vars)
<1>0. StreamInv' /\ Typed
  BY StreamStep DEF StreamInv, FrameInv
<1>1. ASSUME UNCHANGED <<kind, written, read, intact, writer, pc>>
      PROVE  UNCHANGED Promise!vars
  BY <1>1 DEF Promise!vars, Limit
<1>2. CASE UNCHANGED vars
  BY <1>1, <1>2 DEF vars, history
<1>3. CASE Split \/ Send
  BY <1>1, <1>3 DEF Split, Send, history
<1>4. ASSUME NEW n \in MessageLens, Write(n) PROVE Promise!Write
  <2>. DEFINE data == [i \in 1 .. n |-> Len(written) + i]
  <2>1. /\ writer = "open" /\ Len(written) + n <= MaxBytes
        /\ written' = written \o data /\ intact' = (intact /\ n <= Limit)
        /\ UNCHANGED <<kind, writer, pc, read>>
    BY <1>4 DEF Write
  <2>2. n \in Nat \ {0} /\ Len(written) \in Nat /\ MaxBytes \in Nat
        /\ written \in Seq(1 .. MaxBytes)
    BY <1>0, PacketConnAssumption, LenProperties DEF Typed
  <2>3. data \in Seq(1 .. MaxBytes) /\ Len(data) = n
    <3>1. \A i \in 1 .. n : Len(written) + i \in 1 .. MaxBytes
      BY <2>1, <2>2
    <3>. QED  BY <2>2, <3>1
  <2>. HIDE DEF data
  <2>4. Len(written') - Len(written) = n
    <3>1. Len(written \o data) = Len(written) + Len(data)
      BY <2>2, <2>3, ConcatProperties
    <3>2. \A a, b \in Nat : a + b - a = b
      OBVIOUS
    <3>. QED  BY <2>1, <2>2, <2>3, <3>1, <3>2
  <2>5. IsStrictPrefix(written, written')
    BY <2>1, <2>2, <2>3, ConcatPrefix
  <2>6. Limit' = Limit
    BY <2>1 DEF Limit
  <2>. QED  BY <2>1, <2>4, <2>5, <2>6 DEF Promise!Write, Promise!IsStrictPrefix, Promise!IsPrefix,
                                     IsStrictPrefix, IsPrefix
<1>5. CASE Close \/ Crash
  <2>1. /\ writer = "open" /\ writer' \in {"closed", "crashed"}
        /\ UNCHANGED <<kind, written, read, intact, pc>>
    BY <1>5 DEF Close, Crash, history
  <2>2. Promise!Finish
    BY <2>1 DEF Promise!Finish, Limit
  <2>. QED  BY <2>2 DEF Promise!Next
<1>6. CASE ReadUnread
  <2>1. pc = "idle" /\ UNCHANGED <<kind, writer, written, intact, pc>>
    BY <1>6 DEF ReadUnread
  <2>2. IsStrictPrefix(read, read')
    BY <1>6, StreamUnread
  <2>3. Promise!Read
    BY <1>0, <2>1, <2>2, ReadsWritten
  <2>. QED  BY <2>3 DEF Promise!Next
<1>7. CASE ReadMessage \/ FinishPacket
  <2>1. IsStrictPrefix(read, read') /\ UNCHANGED <<kind, writer, written, intact>>
    BY <1>7, StreamPacket
  <2>2. (pc = "idle" \/ pc = "packet") /\ pc' = "idle"
    BY <1>7 DEF ReadMessage, NeedsPacket, FinishPacket
  <2>3. Promise!Read
    BY <1>0, <2>1, <2>2, ReadsWritten
  <2>. QED  BY <2>3 DEF Promise!Next
<1>8. CASE Inner
  <2>1. /\ UNCHANGED <<kind, writer, written, read, intact>>
        /\ pc \in {"idle", "packet"}
        /\ pc' \in {"packet", "error"} \/ (pc' = "eof" /\ ReadEnds)
    BY <1>8, StreamInner
  <2>2. Limit' = Limit
    BY <2>1 DEF Limit
  <2>3. CASE pc' = "packet"
    BY <2>1, <2>2, <2>3 DEF Promise!vars
  <2>4. CASE pc' = "error"
    BY <2>1, <2>2, <2>4 DEF Promise!Next, Promise!Fail
  <2>5. CASE pc' = "eof" /\ ReadEnds
    <3>1. writer # "open"
      BY <2>5 DEF ReadEnds
    <3>2. writer = "closed" => /\ intact => read = written
                               /\ kind # "encrypted" => Len(read) = Len(written)
      BY <2>5, EndOfStream
    <3>. QED  BY <2>1, <2>2, <2>5, <3>1, <3>2 DEF Promise!Next, Promise!Eof
  <2>. QED  BY <2>1, <2>3, <2>4, <2>5
<1>. QED  BY <1>2, <1>3, <1>4, <1>5, <1>6, <1>7, <1>8 DEF Next, Read, Inner, Promise!Next

(***************************************************************************)
(* Write and Read over TCP implement a stream, for every size of packets,  *)
(* buffers, writes and reads, every way TCP cuts the bytes and every crash *)
(* of the writer: Read returns the bytes written, none lost, repeated or   *)
(* out of place, and reports the end only behind the last one, as long as  *)
(* no write exceeded the limit of the connection.  It needs StreamInv, by  *)
(* which the bytes read, unread, under way and still to be sent make up    *)
(* the bytes written.                                                      *)
(***************************************************************************)
THEOREM ImplementsStream == Spec => StreamRefined
<1>1. Init => StreamInv
  BY StreamStart
<1>2. StreamInv /\ [Next]_vars => StreamInv'
  BY StreamStep
<1>3. Init => Promise!Init
  <2>1. ASSUME Init PROVE Limit \in Nat
    BY <2>1, PacketConnAssumption DEF Init, Limit
  <2>. QED  BY <2>1 DEF Init, Promise!Init
<1>4. StreamInv /\ [Next]_vars => [Promise!Next]_(Promise!vars)
  BY StreamSteps
<1>. QED  BY <1>1, <1>2, <1>3, <1>4, PTL DEF Spec, StreamRefined, Promise!Spec
=============================================================================

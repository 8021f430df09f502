------------------------------ MODULE OnionDial ------------------------------
(***************************************************************************)
(* Dialling through the onion: Transport.Dial of transport/onion, which    *)
(* chooses relays and tries again with others, over EstablishCircuit of    *)
(* onion/client.go, which extends the circuit hop by hop.                  *)
(*                                                                         *)
(* Dial works on two slices, peers and relays.  remove shifts a slice in   *)
(* place, and from the first iteration on relays is what remove returned   *)
(* for peers: both slices start at the same place of one array, and what   *)
(* is done to one is seen in the other.  So the state is the array and two *)
(* lengths.                                                                *)
(***************************************************************************)
EXTENDS Naturals, Sequences, SequencesExt

CONSTANTS Servers,     \* the nodes that relay
          Dest,        \* the peer to dial
          MaxServers,  \* a bound on the peers of RelayServers
          MaxRelays,   \* a bound on NumRelays
          NumRetries   \* how often Dial tries

ASSUME OnionDialAssumption ==
  /\ Dest \notin Servers
  /\ {MaxServers, MaxRelays, NumRetries} \subseteq Nat

VARIABLES numRelays,       \* NumRelays
          encryptRequest,  \* Client.EncryptRequest
          array,           \* the array of peers and relays
          peersLen,        \* len(peers)
          relaysLen,       \* len(relays)
          index,           \* the index of the loop that chooses the relays
          attempt,         \* the attempts that have failed
          hop,             \* the relay that is asked for the next hop
          failed,          \* the index EstablishCircuit returned
          conn,            \* the connection to the first relay
          pc,              \* where Dial is
          numServers,      \* history: len(peers) at the start
          nearestFailed    \* history: the relay next to the destination failed

options == <<numRelays, encryptRequest, numServers>>
slices == <<array, peersLen, relaysLen>>
vars == <<options, slices, index, attempt, hop, failed, conn, pc, nearestFailed>>

(* The result of RelayServers.Peers: different peers in any order.         *)
Init ==
  /\ numRelays \in 0 .. MaxRelays /\ encryptRequest \in BOOLEAN
  /\ array \in UNION {[1 .. n -> Servers] : n \in 0 .. MaxServers}
  /\ \A i, j \in DOMAIN array : array[i] = array[j] => i = j
  /\ numServers = Len(array) /\ peersLen = Len(array) /\ relaysLen = numRelays + 1
  /\ index = 1 /\ attempt = 0 /\ hop = 1 /\ failed = 0
  /\ conn = "none" /\ pc = "start" /\ nearestFailed = FALSE

(* remove(s, i) for the slice of the first len elements: the elements      *)
(* after i move forward, and the array keeps its last element twice.       *)
Removed(a, len, i) == [j \in DOMAIN a |-> IF j >= i /\ j < len THEN a[j + 1] ELSE a[j]]

(***************************************************************************)
(* Choosing the relays                                                     *)
(***************************************************************************)
CheckServers ==
  /\ pc = "start"
  /\ pc' = IF peersLen < numRelays THEN "failed" ELSE "choose"
  /\ UNCHANGED <<options, slices, index, attempt, hop, failed, conn, nearestFailed>>

(* Mutant of Choose: peers is shortened, and relays an array of its own.   *)
ChooseOwn ==
  /\ pc = "choose" /\ index <= relaysLen
  /\ \E selected \in 1 .. peersLen : array' = Removed(array, peersLen, selected)
  /\ peersLen' = peersLen - 1
  /\ index' = index + 1
  /\ UNCHANGED <<options, relaysLen, attempt, hop, failed, conn, pc, nearestFailed>>

(* One pass of the loop.  In the first one relays is an array of its own   *)
(* that is given up in the same pass.  len(relays) bounds the loop and is  *)
(* another one after it.                                                   *)
Choose ==
  /\ pc = "choose" /\ index <= relaysLen
  /\ \E selected \in 1 .. peersLen :
       LET set == IF index = 1 THEN array ELSE [array EXCEPT ![index] = array[selected]]
       IN  array' = Removed(set, peersLen, selected)
  /\ relaysLen' = peersLen - 1
  /\ index' = index + 1
  /\ UNCHANGED <<options, peersLen, attempt, hop, failed, conn, pc, nearestFailed>>

(* Mutant of Aim: the destination is put in front of the last relay.       *)
AimEarly ==
  /\ pc = "choose" /\ index > relaysLen /\ relaysLen > 0
  /\ array' = [array EXCEPT ![IF relaysLen > 1 THEN relaysLen - 1 ELSE 1] = Dest]
  /\ pc' = IF NumRetries = 0 THEN "failed" ELSE "dial"
  /\ UNCHANGED <<options, peersLen, relaysLen, index, attempt, hop, failed, conn, nearestFailed>>

Aim ==
  /\ pc = "choose" /\ index > relaysLen /\ relaysLen > 0
  /\ array' = [array EXCEPT ![relaysLen] = Dest]
  /\ pc' = IF NumRetries = 0 THEN "failed" ELSE "dial"
  /\ UNCHANGED <<options, peersLen, relaysLen, index, attempt, hop, failed, conn, nearestFailed>>

(* IntN(0) panics, and so does the index -1.                               *)
Panic ==
  /\ pc = "choose"
  /\ IF index <= relaysLen THEN peersLen = 0 ELSE relaysLen = 0
  /\ pc' = "panicked"
  /\ UNCHANGED <<options, slices, index, attempt, hop, failed, conn, nearestFailed>>

(***************************************************************************)
(* EstablishCircuit                                                        *)
(***************************************************************************)
circuit == SubSeq(array, 1, relaysLen)

DialFirst ==
  /\ pc = "dial"
  /\ conn' = "open" /\ hop' = 1
  /\ pc' = IF relaysLen = 1 THEN "connected" ELSE "extend"
  /\ UNCHANGED <<options, slices, index, attempt, failed, nearestFailed>>

DialFails ==
  /\ pc = "dial"
  /\ failed' = 1 /\ pc' = "retry"
  /\ UNCHANGED <<options, slices, index, attempt, hop, conn, nearestFailed>>

(* The relay has selected the protocol and answered with success.          *)
Extend ==
  /\ pc = "extend" /\ ~encryptRequest
  /\ hop' = hop + 1
  /\ pc' = IF hop + 1 = relaysLen THEN "connected" ELSE "extend"
  /\ UNCHANGED <<options, slices, index, attempt, failed, conn, nearestFailed>>

(* Mutant of ExtendFails: the connection stays open.                       *)
ExtendFailsOpen ==
  /\ pc = "extend"
  /\ failed' = hop /\ pc' = "retry"
  /\ UNCHANGED <<options, slices, index, attempt, hop, conn, nearestFailed>>

(* SelectProtocol, sendRequest or readResponse fails, or the encryption of *)
(* requests, which is not implemented.  The connections of the circuit are *)
(* inside the first one and are closed with it.                            *)
ExtendFails ==
  /\ pc = "extend"
  /\ conn' = "none"
  /\ failed' = hop /\ pc' = "retry"
  /\ UNCHANGED <<options, slices, index, attempt, hop, nearestFailed>>

(***************************************************************************)
(* Trying again                                                            *)
(***************************************************************************)
(* relays is shortened, and another peer takes the place at failed, which  *)
(* is now that of the relay after the failed one.                          *)
Replace ==
  /\ pc = "retry" /\ failed < relaysLen
  /\ \E selected \in 1 .. peersLen :
       LET shortened == Removed(array, relaysLen, failed)
           set == [shortened EXCEPT ![failed] = shortened[selected]]
       IN  array' = Removed(set, peersLen, selected)
  /\ relaysLen' = relaysLen - 1 /\ peersLen' = peersLen - 1
  /\ attempt' = attempt + 1
  /\ nearestFailed' = (nearestFailed \/ failed + 1 = relaysLen)
  /\ pc' = IF attempt' = NumRetries THEN "failed" ELSE "dial"
  /\ UNCHANGED <<options, index, hop, failed, conn>>

(* The index is beyond what remove left.                                   *)
GiveUp ==
  /\ pc = "retry" /\ failed >= relaysLen
  /\ relaysLen' = relaysLen - 1
  /\ attempt' = attempt + 1
  /\ pc' = "failed"
  /\ UNCHANGED <<options, array, peersLen, index, hop, failed, conn, nearestFailed>>

Next ==
  \/ CheckServers \/ Choose \/ Aim \/ Panic
  \/ DialFirst \/ DialFails \/ Extend \/ ExtendFails
  \/ Replace \/ GiveUp

Spec == Init /\ [][Next]_vars

-----------------------------------------------------------------------------
(***************************************************************************)
(* Properties                                                              *)
(***************************************************************************)
Trying == {"dial", "extend", "retry", "connected"}

(* Both slices stay within the array, a failed attempt leaves no           *)
(* connection open, and on each attempt the circuit has one member less    *)
(* than on the one before.  On the first one it has one member less than   *)
(* there are relay servers, the destination included, whatever NumRelays   *)
(* is.                                                                     *)
TypeOK ==
  /\ array \in Seq(Servers \union {Dest}) /\ Len(array) = numServers
  /\ peersLen \in 0 .. numServers /\ relaysLen \in Nat
  /\ index \in Nat /\ hop \in Nat /\ failed \in Nat
  /\ attempt \in 0 .. NumRetries
  /\ pc \in Trying \union {"start", "choose", "failed", "panicked"}
  /\ conn \in {"none", "open"} /\ (conn = "open" <=> pc \in {"extend", "connected"})
  /\ pc \in Trying => /\ relaysLen = numServers - 1 - attempt
                      /\ peersLen = relaysLen + 1
                      /\ relaysLen >= 1 /\ failed <= relaysLen /\ hop <= numServers

(* Dial indexes its slices out of range only if there is no relay server   *)
(* or a single one; no sequence of failures makes it do so later.          *)
PanicNeedsFew == pc = "panicked" => numServers <= 1

(* The circuit ends at the destination, unless on some attempt the relay   *)
(* next to the destination failed: then another peer may have taken the    *)
(* place of the destination, and Dial may return a connection to it.       *)
EndsAtDest == pc \in Trying /\ ~nearestFailed => Last(circuit) = Dest
=============================================================================

--------------------------- MODULE OnionDialProofs ---------------------------
(***************************************************************************)
(* Proofs about OnionDial, for every number of relay servers, every choice *)
(* of relays and every sequence of failures.                               *)
(***************************************************************************)
EXTENDS OnionDial, TLAPS

Peer == Servers \union {Dest}

(***************************************************************************)
(* The inductive invariant.  Until the circuit is chosen nothing has       *)
(* failed, and len(relays) is NumRelays + 1 up to the first choice and one *)
(* less than the number of servers after it.  From then on every attempt   *)
(* costs each slice one element.                                           *)
(***************************************************************************)
SliceInv ==
  /\ numRelays \in Nat /\ numServers \in Nat
  /\ array \in [1 .. numServers -> Peer]
  /\ peersLen \in 0 .. numServers /\ relaysLen \in Nat
  /\ nearestFailed \in BOOLEAN

ChooseInv ==
  /\ index \in Nat /\ index >= 1
  /\ pc \in {"start", "choose"} =>
       /\ peersLen = numServers /\ attempt = 0 /\ hop = 1 /\ failed = 0
       /\ IF index = 1 THEN relaysLen = numRelays + 1
                       ELSE relaysLen = numServers - 1 /\ numServers >= 1
  /\ pc = "start" => index = 1

AttemptInv ==
  /\ attempt \in 0 .. NumRetries /\ hop \in Nat /\ failed \in Nat
  /\ pc \in Trying =>
       /\ relaysLen = numServers - 1 - attempt /\ peersLen = relaysLen + 1
       /\ attempt < NumRetries
       /\ relaysLen >= 1 /\ failed <= relaysLen /\ 1 <= hop /\ hop <= numServers
  /\ pc = "extend" => hop < relaysLen
  /\ pc = "retry" => failed >= 1

ConnInv ==
  /\ pc \in Trying \union {"start", "choose", "failed", "panicked"}
  /\ conn \in {"none", "open"} /\ (conn = "open" <=> pc \in {"extend", "connected"})

AimInv == pc \in Trying /\ ~nearestFailed => array[relaysLen] = Dest

DialInv == SliceInv /\ ChooseInv /\ AttemptInv /\ ConnInv /\ PanicNeedsFew /\ AimInv

(* The sequence of the module is a function on an interval.                *)
LEMMA InvSuffices ==
  ASSUME DialInv
  PROVE  TypeOK /\ EndsAtDest
<1>. USE DEF DialInv
<1>1. array \in Seq(Peer) /\ Len(array) = numServers
  BY DEF SliceInv
<1>2. TypeOK
  BY <1>1 DEF TypeOK, SliceInv, ChooseInv, AttemptInv, ConnInv, Peer
<1>3. ASSUME pc \in Trying, ~nearestFailed
      PROVE  Last(circuit) = Dest
  <2>1. relaysLen \in 1 .. numServers
    BY <1>3 DEF SliceInv, AttemptInv
  <2>2. Len(circuit) = relaysLen /\ circuit[relaysLen] = array[relaysLen]
    BY <1>1, <2>1 DEF circuit, SliceInv
  <2>. QED  BY <1>3, <2>2 DEF AimInv, Last
<1>. QED  BY <1>2, <1>3 DEF EndsAtDest

(* remove keeps the array and moves the elements behind the index forward. *)
LEMMA RemovedType ==
  ASSUME NEW n \in Nat, NEW a \in [1 .. n -> Peer], NEW len \in 0 .. n, NEW i \in 1 .. n
  PROVE  /\ Removed(a, len, i) \in [1 .. n -> Peer]
         /\ \A j \in 1 .. n :
              Removed(a, len, i)[j] = IF j >= i /\ j < len THEN a[j + 1] ELSE a[j]
<1>1. \A j \in 1 .. n : j < len => j + 1 \in 1 .. n
  OBVIOUS
<1>. QED  BY <1>1 DEF Removed

(* Before Dial has done anything.                                          *)
LEMMA InitInv == Init => DialInv
<1>. SUFFICES ASSUME Init PROVE DialInv
  OBVIOUS
<1>. USE OnionDialAssumption DEF Init
<1>1. PICK n \in 0 .. MaxServers : array \in [1 .. n -> Servers]
  OBVIOUS
<1>2. n \in Nat /\ Len(array) = n /\ array \in [1 .. n -> Peer]
  BY <1>1 DEF Peer
<1>3. MaxRelays \in Nat /\ NumRetries \in Nat
  OBVIOUS
<1>4. SliceInv
  <2>1. numRelays \in Nat /\ numServers = n /\ peersLen = n /\ relaysLen \in Nat
    BY <1>2, <1>3
  <2>2. nearestFailed \in BOOLEAN
    OBVIOUS
  <2>. QED  BY <1>2, <2>1, <2>2 DEF SliceInv
<1>5. ChooseInv /\ AttemptInv /\ ConnInv /\ PanicNeedsFew /\ AimInv
  BY <1>2, <1>3 DEF ChooseInv, AttemptInv, ConnInv, PanicNeedsFew, AimInv, Trying
<1>. QED  BY <1>4, <1>5 DEF DialInv

(* Choosing the relays: what is done to the shared array stays inside it.  *)
LEMMA ChooseStep ==
  ASSUME DialInv, CheckServers \/ Choose \/ Aim \/ Panic
  PROVE  DialInv'
<1>. USE OnionDialAssumption DEF DialInv, SliceInv, ChooseInv, AttemptInv, ConnInv,
       PanicNeedsFew, AimInv, Trying, options
<1>1. CASE CheckServers
  BY <1>1 DEF CheckServers, slices
<1>2. CASE Choose
  <2>1. PICK selected \in 1 .. peersLen :
          array' = Removed(IF index = 1 THEN array ELSE [array EXCEPT ![index] = array[selected]],
                           peersLen, selected)
    BY <1>2 DEF Choose
  <2>2. selected \in 1 .. numServers
    OBVIOUS
  <2>3. (IF index = 1 THEN array ELSE [array EXCEPT ![index] = array[selected]])
          \in [1 .. numServers -> Peer]
    BY <2>2
  <2>4. array' \in [1 .. numServers -> Peer]
    BY <2>1, <2>2, <2>3, RemovedType
  <2>5. SliceInv'
    <3>1. UNCHANGED <<numRelays, numServers, peersLen, nearestFailed>> /\ relaysLen' = peersLen - 1
      BY <1>2 DEF Choose
    <3>2. relaysLen' \in Nat
      BY <2>1, <3>1
    <3>. QED  BY <2>4, <3>1, <3>2
  <2>6. ChooseInv' /\ AttemptInv' /\ ConnInv' /\ PanicNeedsFew' /\ AimInv'
    BY <1>2, <2>2 DEF Choose
  <2>. QED  BY <2>5, <2>6
<1>3. CASE Aim
  <2>1. relaysLen = numServers - 1 /\ relaysLen >= 1 /\ pc = "choose"
    BY <1>3 DEF Aim
  <2>2. array' \in [1 .. numServers -> Peer] /\ array'[relaysLen] = Dest
    BY <1>3, <2>1 DEF Aim, Peer
  <2>. QED  BY <1>3, <2>1, <2>2 DEF Aim
<1>4. CASE Panic
  BY <1>4 DEF Panic, slices
<1>. QED  BY <1>1, <1>2, <1>3, <1>4

(* EstablishCircuit reports an index within the circuit and leaves a       *)
(* connection only if it succeeds.                                         *)
LEMMA CircuitStep ==
  ASSUME DialInv, DialFirst \/ DialFails \/ Extend \/ ExtendFails
  PROVE  DialInv'
<1>. USE DEF DialInv, SliceInv, ChooseInv, AttemptInv, ConnInv, PanicNeedsFew, AimInv,
       Trying, options, slices
<1>1. CASE DialFirst
  BY <1>1 DEF DialFirst
<1>2. CASE DialFails
  BY <1>2 DEF DialFails
<1>3. CASE Extend
  BY <1>3 DEF Extend
<1>4. CASE ExtendFails
  BY <1>4 DEF ExtendFails
<1>. QED  BY <1>1, <1>2, <1>3, <1>4

(* A retry keeps the destination at the end of the circuit if the failed   *)
(* relay was not the one before it: the destination moves forward with the *)
(* rest, once, whether the new relay is taken from before or behind it.    *)
LEMMA RetryStep ==
  ASSUME DialInv, Replace \/ GiveUp
  PROVE  DialInv'
<1>. USE OnionDialAssumption DEF DialInv, SliceInv, ChooseInv, AttemptInv, ConnInv,
       PanicNeedsFew, AimInv, Trying, options
<1>1. CASE Replace
  <2>. DEFINE shortened == Removed(array, relaysLen, failed)
              set(i) == [shortened EXCEPT ![failed] = shortened[i]]
  <2>1. PICK selected \in 1 .. peersLen : array' = Removed(set(selected), peersLen, selected)
    BY <1>1 DEF Replace
  <2>2. /\ pc = "retry" /\ failed >= 1 /\ failed < relaysLen
        /\ relaysLen' = relaysLen - 1 /\ peersLen' = peersLen - 1 /\ attempt' = attempt + 1
        /\ nearestFailed' = (nearestFailed \/ failed + 1 = relaysLen)
        /\ pc' = IF attempt' = NumRetries THEN "failed" ELSE "dial"
        /\ UNCHANGED <<numRelays, numServers, index, hop, failed, conn>>
    BY <1>1 DEF Replace
  <2>3. /\ relaysLen \in 1 .. numServers /\ relaysLen - 1 \in 1 .. numServers
        /\ selected \in 1 .. numServers /\ failed \in 1 .. numServers
        /\ peersLen \in 0 .. numServers
    BY <2>2
  <2>4. /\ shortened \in [1 .. numServers -> Peer]
        /\ \A j \in 1 .. numServers :
             shortened[j] = IF j >= failed /\ j < relaysLen THEN array[j + 1] ELSE array[j]
    BY <2>3, RemovedType
  <2>. HIDE DEF shortened
  <2>5. /\ set(selected) \in [1 .. numServers -> Peer]
        /\ \A j \in 1 .. numServers : j # failed => set(selected)[j] = shortened[j]
    BY <2>3, <2>4
  <2>. HIDE DEF set
  <2>6. /\ array' \in [1 .. numServers -> Peer]
        /\ \A j \in 1 .. numServers :
             array'[j] = IF j >= selected /\ j < peersLen THEN set(selected)[j + 1]
                                                         ELSE set(selected)[j]
    <3>1. /\ Removed(set(selected), peersLen, selected) \in [1 .. numServers -> Peer]
          /\ \A j \in 1 .. numServers :
               Removed(set(selected), peersLen, selected)[j]
                 = IF j >= selected /\ j < peersLen THEN set(selected)[j + 1]
                                                    ELSE set(selected)[j]
      BY ONLY numServers \in Nat, <2>3, <2>5, RemovedType
    <3>. QED  BY <2>1, <3>1
  <2>7. ASSUME ~nearestFailed, failed + 1 # relaysLen
        PROVE  array'[relaysLen - 1] = Dest
    <3>1. array[relaysLen] = Dest
      BY <2>2, <2>7
    <3>2. shortened[relaysLen - 1] = Dest /\ shortened[relaysLen] = Dest
      BY <2>2, <2>3, <2>4, <3>1
    <3>3. set(selected)[relaysLen - 1] = Dest /\ set(selected)[relaysLen] = Dest
      BY <2>2, <2>3, <2>5, <2>7, <3>2
    <3>. QED  BY <2>3, <2>6, <3>3
  <2>8. SliceInv'
    <3>1. peersLen' \in 0 .. numServers /\ relaysLen' \in Nat
      BY <2>2, <2>3
    <3>2. nearestFailed' \in BOOLEAN
      BY <2>2
    <3>. QED  BY <2>2, <2>6, <3>1, <3>2
  <2>9. ChooseInv' /\ AttemptInv' /\ ConnInv' /\ PanicNeedsFew'
    BY <2>2, <2>3
  <2>10. AimInv'
    BY <2>2, <2>7
  <2>. QED  BY <2>8, <2>9, <2>10
<1>2. CASE GiveUp
  BY <1>2 DEF GiveUp
<1>. QED  BY <1>1, <1>2

(* The invariant holds in every reachable state of Dial.                   *)
LEMMA DialInvariant == Spec => []DialInv
<1>1. DialInv /\ UNCHANGED vars => DialInv'
  BY DEF DialInv, SliceInv, ChooseInv, AttemptInv, ConnInv, PanicNeedsFew, AimInv, Trying,
         vars, options, slices
<1>2. DialInv /\ [Next]_vars => DialInv'
  BY <1>1, ChooseStep, CircuitStep, RetryStep DEF Next
<1>. QED  BY <1>2, InitInv, PTL DEF Spec

(* Both slices stay within the array, every failed attempt of Dial closes  *)
(* its connection and shortens the circuit by one.                         *)
THEOREM TypeCorrect == Spec => []TypeOK
<1>1. DialInv => TypeOK
  BY InvSuffices
<1>. QED  BY <1>1, DialInvariant, PTL

(* Dial panics only with no or a single relay server.                      *)
THEOREM PanicsOnlyWithFew == Spec => []PanicNeedsFew
<1>1. DialInv => PanicNeedsFew
  BY DEF DialInv
<1>. QED  BY <1>1, DialInvariant, PTL

(* The circuit ends at the peer Dial was given, unless the relay next to   *)
(* it has failed on some attempt.                                          *)
THEOREM CircuitEndsAtDest == Spec => []EndsAtDest
<1>1. DialInv => EndsAtDest
  BY InvSuffices
<1>. QED  BY <1>1, DialInvariant, PTL
=============================================================================

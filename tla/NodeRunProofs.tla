---------------------------- MODULE NodeRunProofs ----------------------------
(***************************************************************************)
(* Proofs about NodeRun, for every set of connections, also an infinite    *)
(* one, and every number of errors.                                        *)
(***************************************************************************)
EXTENDS NodeRun, FiniteSetTheorems, TLAPS

Reporting == {c \in Conn : where[c] = "report"}

(***************************************************************************)
(* The inductive invariant.  A connection fails at most once: those that   *)
(* were rejected are at their end, those whose handler failed are there    *)
(* too or on the way of their report.  So every new error is counted, and  *)
(* the sets that are counted are finite.                                   *)
(***************************************************************************)
FailInv ==
  /\ IsFiniteSet(rejected) /\ IsFiniteSet(failed)
  /\ \A c \in rejected : where[c] = "ended"
  /\ \A c \in failed : where[c] \in {"report", "ended"}
  /\ Reporting \subseteq failed

Held == Count(tcpLoop = "err") + Count(encLoop = "err") + Count(errLoop = "send")

ErrorInv == TypeOK /\ FailInv /\ ErrorsAccounted

(* The goroutines start at the head of their loops.                        *)
LEMMA TypeInit == Init => TypeOK
<1>. SUFFICES ASSUME Init PROVE TypeOK
  OBVIOUS
<1>1. acceptErrors \in 0 .. MaxAcceptErrors /\ delivered \in Nat
  BY NodeRunAssumption DEF Init
<1>2. errChanRead \in BOOLEAN /\ ctxDone \in BOOLEAN
  BY DEF Init
<1>3. rejected \subseteq Conn /\ failed \subseteq Conn
  BY DEF Init
<1>. QED  BY <1>1, <1>2, <1>3 DEF Init, TypeOK

(* Every step of the node keeps the types.                                 *)
LEMMA TypeStep ==
  ASSUME TypeOK, [Next]_vars
  PROVE  TypeOK'
<1>. USE NodeRunAssumption DEF TypeOK, remote, loops, history
<1>1. CASE UNCHANGED vars
  BY <1>1 DEF vars
<1>2. ASSUME NEW c \in Conn, Connect(c) \/ Speak(c)
      PROVE  TypeOK'
  BY <1>2 DEF Connect, Speak, Move
<1>3. ASSUME NEW c \in Conn, HandlerEnds(c) \/ HandlerFails(c) \/ HandlerReports(c)
      PROVE  TypeOK'
  BY <1>3 DEF HandlerEnds, HandlerFails, HandlerReports, Move
<1>4. CASE StopReading \/ Cancel
  BY <1>4 DEF StopReading, Cancel
<1>5. ASSUME NEW c \in Conn, Accept(c)
      PROVE  TypeOK'
  BY <1>5 DEF Accept, Move
<1>6. CASE AcceptFails \/ ListenerClosed
  BY <1>6 DEF AcceptFails, ListenerClosed
<1>7. ASSUME NEW c \in Conn, TakeConn(c) \/ Upgrade(c) \/ UpgradeFails(c) \/ Deliver(c)
      PROVE  TypeOK'
  BY <1>7 DEF TakeConn, Upgrade, UpgradeFails, Deliver, Move
<1>8. CASE TakeError \/ SendError \/ EncDone
  BY <1>8 DEF TakeError, SendError, EncDone
<1>9. CASE ForwardError \/ ErrDone \/ ConnDone
  BY <1>9 DEF ForwardError, ErrDone, ConnDone
<1>. QED
  BY <1>1, <1>2, <1>3, <1>4, <1>5, <1>6, <1>7, <1>8, <1>9 DEF Next, TcpStep, EncStep

(* A connection that moves from one place to another on its way to a       *)
(* handler, or from there to its end, was neither rejected nor has failed, *)
(* and is not waiting to report.                                           *)
LEMMA MoveKeeps ==
  ASSUME TypeOK, FailInv, NEW c \in Conn, NEW from, NEW to, Move(c, from, to),
         from \notin {"report", "ended"}, to # "report",
         rejected' = rejected, failed' = failed
  PROVE  FailInv' /\ Reporting' = Reporting /\ c \notin rejected /\ c \notin failed
<1>1. where[c] = from /\ c \notin rejected /\ c \notin failed
  BY DEF Move, FailInv
<1>2. Reporting' = Reporting
  BY <1>1 DEF Move, TypeOK, Reporting
<1>3. \A d \in Conn : d # c => where'[d] = where[d]
  BY DEF Move, TypeOK
<1>. QED  BY <1>1, <1>2, <1>3 DEF FailInv, TypeOK

(* The sets that are counted are finite, and their sizes numbers.          *)
LEMMA CountsAreNumbers ==
  ASSUME TypeOK, FailInv
  PROVE  /\ IsFiniteSet(Reporting)
         /\ {Cardinality(rejected), Cardinality(failed), Cardinality(Reporting), Held}
              \subseteq Nat
<1>1. IsFiniteSet(Reporting)
  BY FS_Subset DEF FailInv
<1>2. Cardinality(rejected) \in Nat /\ Cardinality(failed) \in Nat /\ Cardinality(Reporting) \in Nat
  BY <1>1, FS_CardinalityType DEF FailInv
<1>3. Held \in Nat
  BY DEF Held, Count
<1>. QED  BY <1>1, <1>2, <1>3

(* What a step does to the account: as many errors appear as are held or   *)
(* delivered in addition.                                                  *)
LEMMA Balanced ==
  ASSUME ErrorInv, TypeOK', NEW made \in {0, 1},
         acceptErrors' + Cardinality(rejected') + Cardinality(failed')
           = acceptErrors + Cardinality(rejected) + Cardinality(failed) + made,
         {Cardinality(rejected'), Cardinality(failed'), Cardinality(Reporting')} \subseteq Nat,
         delivered' + Cardinality(Reporting') + Held'
           = delivered + Cardinality(Reporting) + Held + made
  PROVE  ErrorsAccounted'
<1>1. {Cardinality(rejected), Cardinality(failed), Cardinality(Reporting), Held} \subseteq Nat
  BY CountsAreNumbers DEF ErrorInv
<1>2. {Count(tcpLoop = "err"), Count(encLoop = "err"), Count(errLoop = "send")} \subseteq Nat
  BY DEF Count
<1>3. {Count(tcpLoop' = "err"), Count(encLoop' = "err"), Count(errLoop' = "send")} \subseteq Nat
  BY DEF Count
<1>4. acceptErrors \in Nat /\ acceptErrors' \in Nat /\ delivered \in Nat /\ delivered' \in Nat
  BY NodeRunAssumption DEF ErrorInv, TypeOK
<1>5. acceptErrors + Cardinality(rejected) + Cardinality(failed)
        = delivered + Cardinality(Reporting) + Held
  BY <1>1, <1>2, <1>4 DEF ErrorInv, ErrorsAccounted, TransportErrors, Reporting, Held
<1>6. acceptErrors' + Cardinality(rejected') + Cardinality(failed')
        = delivered' + Cardinality(Reporting') + Held'
  BY <1>1, <1>3, <1>4, <1>5 DEF Held
<1>. QED  BY <1>3, <1>4, <1>6 DEF ErrorsAccounted, TransportErrors, Reporting, Held

(* A step that makes no error and keeps those that are held where they     *)
(* are counted.                                                            *)
LEMMA SameCount ==
  ASSUME ErrorInv, TypeOK', UNCHANGED history, Reporting' = Reporting, Held' = Held
  PROVE  ErrorsAccounted'
<1>1. {Cardinality(rejected), Cardinality(failed), Cardinality(Reporting), Held} \subseteq Nat
  BY CountsAreNumbers DEF ErrorInv
<1>2. acceptErrors \in Nat /\ delivered \in Nat
  BY NodeRunAssumption DEF ErrorInv, TypeOK
<1>. QED  BY <1>1, <1>2, Balanced DEF history

(* The connections and the sets of failures stay as they are.              *)
LEMMA SamePlaces ==
  ASSUME FailInv, UNCHANGED <<where, rejected, failed>>
  PROVE  FailInv' /\ Reporting' = Reporting
BY DEF FailInv, Reporting

(* The steps of the accept loop of tcp.Transport.Listen, of the network    *)
(* and of the application.                                                 *)
LEMMA OuterStep ==
  ASSUME ErrorInv, TypeOK',
         \/ StopReading \/ Cancel \/ TcpStep \/ ErrDone \/ ConnDone \/ EncDone \/ UNCHANGED vars
         \/ \E c \in Conn : Connect(c) \/ Speak(c) \/ HandlerEnds(c)
  PROVE  FailInv' /\ ErrorsAccounted'
<1>. USE DEF ErrorInv
<1>1. CASE StopReading \/ Cancel \/ ListenerClosed \/ ErrDone \/ ConnDone \/ EncDone \/ UNCHANGED vars
  <2>1. UNCHANGED <<where, history>>
    BY <1>1 DEF StopReading, Cancel, ListenerClosed, ErrDone, ConnDone, EncDone, vars, remote
  <2>2. Held' = Held
    BY <1>1 DEF StopReading, Cancel, ListenerClosed, ErrDone, ConnDone, EncDone, vars, loops,
                Held, Count
  <2>. QED  BY <2>1, <2>2, SamePlaces, SameCount DEF history
<1>2. ASSUME NEW c \in Conn, Speak(c)
      PROVE  FailInv' /\ ErrorsAccounted'
  <2>1. UNCHANGED <<where, history>> /\ Held' = Held
    BY <1>2 DEF Speak, loops, Held
  <2>. QED  BY <2>1, SamePlaces, SameCount DEF history
<1>3. ASSUME NEW c \in Conn, Connect(c) \/ HandlerEnds(c) \/ Accept(c)
      PROVE  FailInv' /\ ErrorsAccounted'
  <2>1. UNCHANGED history
    BY <1>3 DEF Connect, HandlerEnds, Accept
  <2>2. Held' = Held
    BY <1>3 DEF Connect, HandlerEnds, Accept, loops, Held, Count
  <2>3. FailInv' /\ Reporting' = Reporting
    BY <1>3, <2>1, MoveKeeps DEF Connect, HandlerEnds, Accept, history
  <2>. QED  BY <2>1, <2>2, <2>3, SameCount
<1>4. CASE AcceptFails
  <2>1. FailInv' /\ Reporting' = Reporting /\ rejected' = rejected /\ failed' = failed
    BY <1>4, SamePlaces DEF AcceptFails, remote
  <2>2. acceptErrors' = acceptErrors + 1 /\ delivered' = delivered /\ Held' = Held + 1
    BY <1>4 DEF AcceptFails, Held, Count
  <2>3. {Cardinality(rejected), Cardinality(failed), Cardinality(Reporting), Held} \subseteq Nat
    BY CountsAreNumbers
  <2>4. acceptErrors \in Nat /\ delivered \in Nat
    BY NodeRunAssumption DEF TypeOK
  <2>. QED  BY <2>1, <2>2, <2>3, <2>4, Balanced
<1>. QED  BY <1>1, <1>2, <1>3, <1>4 DEF TcpStep

(* The steps of encrypted.Transport.Listen and of the goroutine that       *)
(* forwards its errors: an error is handed on, or a new one made.          *)
LEMMA TransportStep ==
  ASSUME ErrorInv, TypeOK',
         \/ \E c \in Conn : TakeConn(c) \/ Upgrade(c) \/ UpgradeFails(c) \/ Deliver(c)
         \/ TakeError \/ SendError \/ ForwardError
  PROVE  FailInv' /\ ErrorsAccounted'
<1>. USE DEF ErrorInv
<1>0. /\ {Cardinality(rejected), Cardinality(failed), Cardinality(Reporting), Held} \subseteq Nat
      /\ acceptErrors \in Nat /\ delivered \in Nat
  BY CountsAreNumbers, NodeRunAssumption DEF TypeOK
<1>1. CASE TakeError \/ SendError
  <2>1. UNCHANGED <<where, history>>
    BY <1>1 DEF TakeError, SendError, remote
  <2>2. Held' = Held
    BY <1>1 DEF TakeError, SendError, Held, Count
  <2>. QED  BY <2>1, <2>2, SamePlaces, SameCount DEF history
<1>2. ASSUME NEW c \in Conn, TakeConn(c) \/ Upgrade(c) \/ Deliver(c)
      PROVE  FailInv' /\ ErrorsAccounted'
  <2>1. UNCHANGED history
    BY <1>2 DEF TakeConn, Upgrade, Deliver
  <2>2. Held' = Held
    BY <1>2 DEF TakeConn, Upgrade, Deliver, Held, Count
  <2>3. FailInv' /\ Reporting' = Reporting
    BY <1>2, <2>1, MoveKeeps DEF TakeConn, Upgrade, Deliver, history
  <2>. QED  BY <2>1, <2>2, <2>3, SameCount
<1>3. ASSUME NEW c \in Conn, UpgradeFails(c)
      PROVE  FailInv' /\ ErrorsAccounted'
  <2>1. /\ where[c] = "upgrade" /\ where' = [where EXCEPT ![c] = "ended"]
        /\ rejected' = rejected \cup {c}
        /\ UNCHANGED <<acceptErrors, failed, delivered>>
    BY <1>3 DEF UpgradeFails, Move
  <2>2. c \notin rejected /\ c \notin failed
    BY <2>1 DEF FailInv
  <2>3. Reporting' = Reporting
    BY <2>1 DEF Reporting, TypeOK
  <2>4. IsFiniteSet(rejected') /\ Cardinality(rejected') = Cardinality(rejected) + 1
    BY <2>1, <2>2, FS_AddElement DEF FailInv
  <2>5. FailInv'
    <3>1. \A d \in rejected' : where'[d] = "ended"
      BY <2>1 DEF FailInv, TypeOK
    <3>2. \A d \in failed' : where'[d] \in {"report", "ended"}
      BY <2>1 DEF FailInv, TypeOK
    <3>. QED  BY <2>1, <2>3, <2>4, <3>1, <3>2 DEF FailInv
  <2>6. Held' = Held + 1
    BY <1>3 DEF UpgradeFails, Held, Count
  <2>. QED  BY <1>0, <2>1, <2>3, <2>4, <2>5, <2>6, Balanced
<1>4. CASE ForwardError
  <2>1. FailInv' /\ Reporting' = Reporting /\ rejected' = rejected /\ failed' = failed
    BY <1>4, SamePlaces DEF ForwardError, remote
  <2>2. acceptErrors' = acceptErrors /\ delivered' = delivered + 1
    BY <1>4 DEF ForwardError
  <2>3. Held' = Held - 1
    BY <1>4 DEF ForwardError, Held, Count
  <2>. QED  BY <1>0, <2>1, <2>2, <2>3, Balanced
<1>. QED  BY <1>1, <1>2, <1>3, <1>4

(* A handler fails, and its error is read from the error channel.          *)
LEMMA HandlerStep ==
  ASSUME ErrorInv, TypeOK', NEW c \in Conn, HandlerFails(c) \/ HandlerReports(c)
  PROVE  FailInv' /\ ErrorsAccounted'
<1>. USE DEF ErrorInv
<1>0. /\ {Cardinality(rejected), Cardinality(failed), Cardinality(Reporting), Held} \subseteq Nat
      /\ acceptErrors \in Nat /\ delivered \in Nat /\ IsFiniteSet(Reporting)
  BY CountsAreNumbers, NodeRunAssumption DEF TypeOK
<1>1. CASE HandlerFails(c)
  <2>1. /\ where[c] = "handler" /\ where' = [where EXCEPT ![c] = "report"]
        /\ failed' = failed \cup {c} /\ Held' = Held
        /\ UNCHANGED <<acceptErrors, rejected, delivered>>
    BY <1>1 DEF HandlerFails, Move, loops, Held
  <2>2. c \notin rejected /\ c \notin failed /\ c \notin Reporting
    BY <2>1 DEF FailInv, Reporting
  <2>3. Reporting' = Reporting \cup {c}
    BY <2>1 DEF Reporting, TypeOK
  <2>4. /\ IsFiniteSet(failed') /\ Cardinality(failed') = Cardinality(failed) + 1
        /\ Cardinality(Reporting') = Cardinality(Reporting) + 1
    BY <1>0, <2>1, <2>2, <2>3, FS_AddElement DEF FailInv
  <2>5. FailInv'
    <3>1. \A d \in rejected' : where'[d] = "ended"
      BY <2>1, <2>2 DEF FailInv, TypeOK
    <3>2. \A d \in failed' : where'[d] \in {"report", "ended"}
      BY <2>1 DEF FailInv, TypeOK
    <3>. QED  BY <2>1, <2>3, <2>4, <3>1, <3>2 DEF FailInv
  <2>. QED  BY <1>0, <2>1, <2>4, <2>5, Balanced
<1>2. CASE HandlerReports(c)
  <2>1. /\ where[c] = "report" /\ where' = [where EXCEPT ![c] = "ended"]
        /\ delivered' = delivered + 1 /\ Held' = Held
        /\ UNCHANGED <<acceptErrors, rejected, failed>>
    BY <1>2 DEF HandlerReports, Move, loops, Held
  <2>2. c \in Reporting /\ Reporting' = Reporting \ {c}
    BY <2>1 DEF Reporting, TypeOK
  <2>3. Cardinality(Reporting') = Cardinality(Reporting) - 1 /\ Cardinality(Reporting') \in Nat
    BY <1>0, <2>2, FS_RemoveElement, FS_CardinalityType
  <2>4. FailInv'
    <3>1. \A d \in rejected' : where'[d] = "ended"
      BY <2>1 DEF FailInv, TypeOK
    <3>2. \A d \in failed' : where'[d] \in {"report", "ended"}
      BY <2>1 DEF FailInv, TypeOK
    <3>. QED  BY <2>1, <2>2, <3>1, <3>2 DEF FailInv
  <2>. QED  BY <1>0, <2>1, <2>3, <2>4, Balanced
<1>. QED  BY <1>1, <1>2

-----------------------------------------------------------------------------
(* The goroutines of the node are always at one of their channel           *)
(* operations, and the loop of tcp ends without reporting that its own     *)
(* listener was closed.                                                    *)
THEOREM TypeCorrect == Spec => []TypeOK
<1>1. TypeOK /\ [Next]_vars => TypeOK'
  BY TypeStep
<1>. QED  BY <1>1, TypeInit, PTL DEF Spec

(* No error of Accept, of an upgrade or of a handler is lost or delivered  *)
(* twice between the goroutine it occurs in and the application.           *)
THEOREM NoErrorLost == Spec => []ErrorsAccounted
<1>1. Init => ErrorInv
  <2>. SUFFICES ASSUME Init PROVE ErrorInv
    OBVIOUS
  <2>1. TypeOK
    BY TypeInit
  <2>2. Reporting = {}
    BY DEF Init, Reporting
  <2>3. FailInv
    BY <2>2, FS_EmptySet DEF Init, FailInv
  <2>4. ErrorsAccounted
    BY <2>2, FS_EmptySet DEF Init, ErrorsAccounted, TransportErrors, Reporting, Count
  <2>. QED  BY <2>1, <2>3, <2>4 DEF ErrorInv
<1>2. ErrorInv /\ [Next]_vars => ErrorInv'
  <2>. SUFFICES ASSUME ErrorInv, [Next]_vars PROVE ErrorInv'
    OBVIOUS
  <2>1. TypeOK'
    BY TypeStep DEF ErrorInv
  <2>. QED  BY <2>1, OuterStep, TransportStep, HandlerStep DEF ErrorInv, Next, EncStep
<1>3. ErrorInv => ErrorsAccounted
  BY DEF ErrorInv
<1>. QED  BY <1>1, <1>2, <1>3, PTL DEF Spec
=============================================================================

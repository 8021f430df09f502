------------------------------- MODULE NodeRun -------------------------------
(***************************************************************************)
(* How a node takes incoming connections (node/basic/basic_node.go over    *)
(* transport/encrypted over transport/tcp).  A connection goes through     *)
(* three goroutines, one after the other, until it has a goroutine of its  *)
(* own: the accept loop of tcp.Transport.Listen, the loop of               *)
(* encrypted.Transport.Listen, which also waits for the payload of the     *)
(* other side, and the loop of Node.Run.  Errors go the same way, and then *)
(* through a fourth goroutine to the channel the application reads.  All   *)
(* channels are unbuffered: a send waits for its receiver.                 *)
(***************************************************************************)
EXTENDS Naturals, FiniteSets

CONSTANTS Conn,            \* the incoming connections
          MaxAcceptErrors  \* a bound on the errors of Accept

ASSUME NodeRunAssumption == MaxAcceptErrors \in Nat

VARIABLES where,           \* how far each connection has come
          payload,         \* the upgraderPayload its other side has sent
          tcpLoop,         \* the goroutine of tcp.Transport.Listen
          encLoop,         \* the goroutine of encrypted.Transport.Listen
          errLoop,         \* the goroutine of Node.Run that forwards errors
          connLoop,        \* the goroutine of Node.Run that takes connections
          errChanRead,     \* the application reads the error channel
          ctxDone,         \* the context is cancelled
          acceptErrors,    \* history: how many errors Accept returned
          rejected,        \* history: connections that were not upgraded
          failed,          \* history: connections whose handler failed
          delivered        \* history: how many errors the application got

remote == <<where, payload>>
loops == <<tcpLoop, encLoop, errLoop, connLoop>>
history == <<acceptErrors, rejected, failed, delivered>>
vars == <<remote, loops, errChanRead, ctxDone, history>>

Move(c, from, to) == where[c] = from /\ where' = [where EXCEPT ![c] = to]

Init ==
  /\ where = [c \in Conn |-> "new"]
  /\ payload = [c \in Conn |-> "none"]
  /\ tcpLoop = "accept" /\ encLoop = "select"
  /\ errLoop = "select" /\ connLoop = "select"
  /\ errChanRead \in BOOLEAN
  /\ ctxDone = FALSE
  /\ acceptErrors = 0 /\ rejected = {} /\ failed = {} /\ delivered = 0

(***************************************************************************)
(* The other nodes and the application.                                    *)
(***************************************************************************)
Connect(c) ==
  /\ tcpLoop # "returned"
  /\ Move(c, "new", "backlog")
  /\ UNCHANGED <<payload, loops, errChanRead, ctxDone, history>>

(* A bad payload stands for one that cannot be decoded, that does not      *)
(* match its ID, and for a connection that is closed instead.              *)
Speak(c) ==
  /\ where[c] # "new" /\ payload[c] = "none"
  /\ \E p \in {"good", "bad"} : payload' = [payload EXCEPT ![c] = p]
  /\ UNCHANGED <<where, loops, errChanRead, ctxDone, history>>

(* An application may stop reading after the first error, as the tests do. *)
StopReading ==
  /\ errChanRead
  /\ errChanRead' = FALSE
  /\ UNCHANGED <<remote, loops, ctxDone, history>>

Cancel ==
  /\ ~ctxDone
  /\ ctxDone' = TRUE
  /\ UNCHANGED <<remote, loops, errChanRead, history>>

(***************************************************************************)
(* tcp.Transport.Listen                                                    *)
(***************************************************************************)
Accept(c) ==
  /\ tcpLoop = "accept"
  /\ Move(c, "backlog", "tcp")
  /\ tcpLoop' = "conn"
  /\ UNCHANGED <<payload, encLoop, errLoop, connLoop, errChanRead, ctxDone, history>>

AcceptFails ==
  /\ tcpLoop = "accept"
  /\ acceptErrors < MaxAcceptErrors
  /\ acceptErrors' = acceptErrors + 1
  /\ tcpLoop' = "err"
  /\ UNCHANGED <<remote, encLoop, errLoop, connLoop, errChanRead, ctxDone, rejected, failed,
                 delivered>>

(* Mutant of ListenerClosed: net.ErrClosed is reported like other errors. *)
ListenerClosedError ==
  /\ tcpLoop = "accept" /\ ctxDone
  /\ acceptErrors' = acceptErrors + 1
  /\ tcpLoop' = "err"
  /\ UNCHANGED <<remote, encLoop, errLoop, connLoop, errChanRead, ctxDone, rejected, failed,
                 delivered>>

(* Accept returns net.ErrClosed: the other goroutine has closed the        *)
(* listener.                                                               *)
ListenerClosed ==
  /\ tcpLoop = "accept" /\ ctxDone
  /\ tcpLoop' = "returned"
  /\ UNCHANGED <<remote, encLoop, errLoop, connLoop, errChanRead, ctxDone, history>>

(***************************************************************************)
(* encrypted.Transport.Listen.  The sends are outside its select.          *)
(***************************************************************************)
TakeConn(c) ==
  /\ encLoop = "select" /\ tcpLoop = "conn"
  /\ Move(c, "tcp", "upgrade")
  /\ tcpLoop' = "accept"
  /\ encLoop' = "upgrade"
  /\ UNCHANGED <<payload, errLoop, connLoop, errChanRead, ctxDone, history>>

TakeError ==
  /\ encLoop = "select" /\ tcpLoop = "err"
  /\ tcpLoop' = "accept"
  /\ encLoop' = "err"
  /\ UNCHANGED <<remote, errLoop, connLoop, errChanRead, ctxDone, history>>

(* upgradeConn waits for the payload, for as long as it takes. *)
Upgrade(c) ==
  /\ encLoop = "upgrade"
  /\ payload[c] = "good"
  /\ Move(c, "upgrade", "deliver")
  /\ encLoop' = "deliver"
  /\ UNCHANGED <<payload, tcpLoop, errLoop, connLoop, errChanRead, ctxDone, history>>

(* Mutant of UpgradeFails: the error is not reported. *)
UpgradeFailsSilently(c) ==
  /\ encLoop = "upgrade"
  /\ payload[c] = "bad"
  /\ Move(c, "upgrade", "ended")
  /\ rejected' = rejected \cup {c}
  /\ encLoop' = "select"
  /\ UNCHANGED <<payload, tcpLoop, errLoop, connLoop, errChanRead, ctxDone, acceptErrors,
                 failed, delivered>>

UpgradeFails(c) ==
  /\ encLoop = "upgrade"
  /\ payload[c] = "bad"
  /\ Move(c, "upgrade", "ended")
  /\ rejected' = rejected \cup {c}
  /\ encLoop' = "err"
  /\ UNCHANGED <<payload, tcpLoop, errLoop, connLoop, errChanRead, ctxDone, acceptErrors,
                 failed, delivered>>

Deliver(c) ==
  /\ encLoop = "deliver" /\ connLoop = "select"
  /\ Move(c, "deliver", "handler")
  /\ encLoop' = "select"
  /\ UNCHANGED <<payload, tcpLoop, errLoop, connLoop, errChanRead, ctxDone, history>>

(* Mutant of SendError: the loop ends with the first error. *)
SendErrorReturns ==
  /\ encLoop = "err" /\ errLoop = "select"
  /\ encLoop' = "returned"
  /\ errLoop' = "send"
  /\ UNCHANGED <<remote, tcpLoop, connLoop, errChanRead, ctxDone, history>>

SendError ==
  /\ encLoop = "err" /\ errLoop = "select"
  /\ encLoop' = "select"
  /\ errLoop' = "send"
  /\ UNCHANGED <<remote, tcpLoop, connLoop, errChanRead, ctxDone, history>>

EncDone ==
  /\ encLoop = "select" /\ ctxDone
  /\ encLoop' = "returned"
  /\ UNCHANGED <<remote, tcpLoop, errLoop, connLoop, errChanRead, ctxDone, history>>

(***************************************************************************)
(* Node.Run                                                                *)
(***************************************************************************)
ForwardError ==
  /\ errLoop = "send" /\ errChanRead
  /\ errLoop' = "select"
  /\ delivered' = delivered + 1
  /\ UNCHANGED <<remote, tcpLoop, encLoop, connLoop, errChanRead, ctxDone, acceptErrors,
                 rejected, failed>>

(* Mutant of ErrDone: the goroutine does not look at the context. *)
ErrDoneNever == errLoop = "select" /\ FALSE /\ UNCHANGED vars

ErrDone ==
  /\ errLoop = "select" /\ ctxDone
  /\ errLoop' = "returned"
  /\ UNCHANGED <<remote, tcpLoop, encLoop, connLoop, errChanRead, ctxDone, history>>

ConnDone ==
  /\ connLoop = "select" /\ ctxDone
  /\ connLoop' = "returned"
  /\ UNCHANGED <<remote, tcpLoop, encLoop, errLoop, errChanRead, ctxDone, history>>

(* handleConn: the handler of the connection returns, with an error or     *)
(* without.                                                                *)
HandlerEnds(c) ==
  /\ Move(c, "handler", "ended")
  /\ UNCHANGED <<payload, loops, errChanRead, ctxDone, history>>

HandlerFails(c) ==
  /\ Move(c, "handler", "report")
  /\ failed' = failed \cup {c}
  /\ UNCHANGED <<payload, loops, errChanRead, ctxDone, acceptErrors, rejected, delivered>>

HandlerReports(c) ==
  /\ errChanRead
  /\ Move(c, "report", "ended")
  /\ delivered' = delivered + 1
  /\ UNCHANGED <<payload, loops, errChanRead, ctxDone, acceptErrors, rejected, failed>>

TcpStep == (\E c \in Conn : Accept(c)) \/ AcceptFails \/ ListenerClosed

EncStep ==
  \/ \E c \in Conn : TakeConn(c) \/ Upgrade(c) \/ UpgradeFails(c) \/ Deliver(c)
  \/ TakeError
  \/ SendError
  \/ EncDone

Next ==
  \/ \E c \in Conn :
       \/ Connect(c)
       \/ Speak(c)
       \/ HandlerEnds(c)
       \/ HandlerFails(c)
       \/ HandlerReports(c)
  \/ StopReading
  \/ Cancel
  \/ TcpStep
  \/ EncStep
  \/ ForwardError
  \/ ErrDone
  \/ ConnDone

(* Goroutines that can run do run, and the select of Go does not pass over *)
(* a case for ever.  Accept is not bound to fail, and nothing is assumed   *)
(* of the other nodes, the handlers and the application.                   *)
Fairness ==
  /\ \A c \in Conn : WF_vars(Accept(c))
  /\ WF_vars(ListenerClosed)
  /\ WF_vars(EncStep) /\ SF_vars(EncDone)
  /\ WF_vars(ForwardError) /\ SF_vars(ErrDone) /\ WF_vars(ConnDone)

Spec == Init /\ [][Next]_vars /\ Fairness

-----------------------------------------------------------------------------
(***************************************************************************)
(* Properties                                                              *)
(***************************************************************************)
(* Every goroutine is at one of its channel operations, and closing the    *)
(* listener is not an error of Accept.                                     *)
TypeOK ==
  /\ where \in [Conn -> {"new", "backlog", "tcp", "upgrade", "deliver", "handler", "report",
                         "ended"}]
  /\ payload \in [Conn -> {"none", "good", "bad"}]
  /\ tcpLoop \in {"accept", "conn", "err", "returned"}
  /\ encLoop \in {"select", "upgrade", "deliver", "err", "returned"}
  /\ errLoop \in {"select", "send", "returned"}
  /\ connLoop \in {"select", "returned"}
  /\ errChanRead \in BOOLEAN /\ ctxDone \in BOOLEAN
  /\ acceptErrors \in 0 .. MaxAcceptErrors
  /\ rejected \subseteq Conn /\ failed \subseteq Conn
  /\ delivered \in Nat

Count(holds) == IF holds THEN 1 ELSE 0

TransportErrors == acceptErrors + Cardinality(rejected)

(* No error is dropped or reported twice on its way through the            *)
(* goroutines: those the application has not got are each held by one of   *)
(* them.                                                                   *)
ErrorsAccounted ==
  TransportErrors + Cardinality(failed) =
    delivered + Cardinality({c \in Conn : where[c] = "report"})
      + Count(tcpLoop = "err") + Count(encLoop = "err") + Count(errLoop = "send")

(* Every connection gets its handler or is rejected, as long as the        *)
(* context lasts and every node that connects says something.  It does not *)
(* take an application that reads the errors of the handlers; but the      *)
(* second error of the transport that is not read stops the node.          *)
PeersSpeak == \A c \in Conn : []<>(where[c] # "upgrade" \/ payload[c] # "none")
ErrorsTaken == []errChanRead \/ [](TransportErrors <= 1)
Served ==
  PeersSpeak /\ ErrorsTaken =>
    \A c \in Conn :
      where[c] = "backlog" ~> where[c] \in {"handler", "report", "ended"} \/ ctxDone

(* Cancelling the context ends both goroutines of the node, as long as the *)
(* application reads the errors.                                           *)
NodeStops ==
  []errChanRead => (ctxDone ~> connLoop = "returned" /\ errLoop = "returned")
=============================================================================

-------------------------------- MODULE Relay --------------------------------
(***************************************************************************)
(* A node that relays between a client and a target, from the request of   *)
(* the client to the end of both connections: the service and the client   *)
(* of protocol/proxy ("proxy"), and one relay of an onion circuit with its *)
(* client, onion/onion.go and onion/client.go ("onion").  The client has   *)
(* dialled the relay and selected the protocol ("prev" is that             *)
(* connection); the relay dials the target ("next").  Two goroutines copy, *)
(* "up" from prev to next and "down" from next to prev.                    *)
(*                                                                         *)
(* A message is what one Write sends.  The texts the client reads as a     *)
(* line end in a newline; a message of the target may hold one or not, and *)
(* may be the text of success itself.                                      *)
(***************************************************************************)
EXTENDS Naturals, Sequences

CONSTANTS MaxUp, MaxDown,  \* bounds on the messages of client and target
          LineLimit,       \* len(res) in readUntilNewline, in messages
          Window           \* how many messages a connection takes before a
                           \*   Write waits for the other end to read

ASSUME RelayAssumption ==
  {MaxUp, MaxDown, LineLimit, Window} \subseteq Nat /\ Window > 0

VARIABLES kind,       \* "proxy" or "onion"
          errRead,    \* the application reads the channels of errors
          client,     \* where the client is
          line,       \* the response the client has read so far
          handler,    \* where the handler of the relay is
          copy,       \* where the two copying goroutines are
          held,       \* the message each of them has read
          in, out,    \* the messages on their way to and from the relay
          relayEnd,   \* the relay's ends of the connections
          farEnd,     \* the ends of the client and of the target
          broken,     \* the connections the network has broken
          sent, got,  \* history: what client and target sent and received
          unreachable,  \* history: the relay could not dial the target
          early       \* history: data was copied before the response was sent

ends == <<relayEnd, farEnd, broken>>
service == <<handler, copy, held>>
history == <<sent, got, unreachable, early>>
vars == <<kind, errRead, client, line, service, in, out, ends, history>>

Conns == {"prev", "next"}
Directions == {"up", "down"}
Src == [up |-> "prev", down |-> "next"]
Dst == [up |-> "next", down |-> "prev"]

Text(t) == [text |-> t, num |-> 0]
Data(i) == [text |-> "data", num |-> i]

Init ==
  /\ kind \in {"proxy", "onion"} /\ errRead \in BOOLEAN
  /\ client = "start" /\ line = <<>>
  /\ handler = "request"
  /\ copy = [d \in Directions |-> "off"] /\ held = [d \in Directions |-> Text("none")]
  /\ in = [c \in Conns |-> <<>>] /\ out = [c \in Conns |-> <<>>]
  /\ relayEnd = [c \in Conns |-> IF c = "prev" THEN "open" ELSE "none"]
  /\ farEnd = relayEnd
  /\ broken = {}
  /\ sent = [c \in Conns |-> 0] /\ got = [c \in Conns |-> <<>>]
  /\ unreachable = FALSE /\ early = FALSE

(***************************************************************************)
(* Connections.  A Write waits while the other end does not read, however  *)
(* long that is.  It fails when the own end is closed, and may fail or be  *)
(* lost when the other end is closed or the connection is broken.  A Read  *)
(* fails when the own end is closed, even by another goroutine.            *)
(***************************************************************************)
Delivers(c) == relayEnd[c] = "open" /\ farEnd[c] = "open" /\ c \notin broken

Put(c, messages) == out' = IF Delivers(c) THEN [out EXCEPT ![c] = @ \o messages] ELSE out

HasRoom(c) == Delivers(c) => Len(out[c]) < Window

WriteOk(c) == relayEnd[c] = "open" /\ HasRoom(c)
WriteFails(c) == ~Delivers(c)

AtEof(c) == relayEnd[c] = "open" /\ in[c] = <<>> /\ farEnd[c] = "closed" /\ c \notin broken
ReadFails(c) == relayEnd[c] = "closed" \/ c \in broken

CloseRelayEnd(c) == relayEnd' = [relayEnd EXCEPT ![c] = "closed"]
CloseFarEnd(c) == farEnd' = [farEnd EXCEPT ![c] = "closed"]

Break(c) ==
  /\ relayEnd[c] # "none" /\ c \notin broken
  /\ broken' = broken \union {c}
  /\ in' = [in EXCEPT ![c] = <<>>] /\ out' = [out EXCEPT ![c] = <<>>]
  /\ UNCHANGED <<kind, errRead, client, line, service, relayEnd, farEnd, history>>

(***************************************************************************)
(* The client: SendRequest of proxy; sendRequest and readResponse of onion *)
(***************************************************************************)
FarSends(c, message) == in' = IF Delivers(c) THEN [in EXCEPT ![c] = Append(@, message)] ELSE in

(* EstablishCircuit closes the connection when a hop fails; Dial of the    *)
(* proxy transport does not.                                               *)
ClientFails ==
  /\ client' = "failed"
  /\ IF kind = "onion" THEN CloseFarEnd("prev") ELSE UNCHANGED farEnd

SendRequest ==
  /\ client = "start"
  /\ \/ /\ client' = "asking" /\ FarSends("prev", Text("request"))
        /\ UNCHANGED farEnd
     \/ /\ ~Delivers("prev")
        /\ ClientFails /\ UNCHANGED in
  /\ UNCHANGED <<kind, errRead, line, service, out, relayEnd, broken, history>>

(* The response is compared with the text of success.  Data of the target  *)
(* may spell that text, in one message or in several; data and the         *)
(* response together do not.                                               *)
IsResponse(m) == line = <<>> /\ m = Text("success")
IsSuccess(m) == m.text = "data" \/ IsResponse(m)

(* The message is too much for res, which holds any response by itself.    *)
Overflows(m) == Len(line) = LineLimit /\ (m.text = "data" \/ line # <<>>)

(* Mutant of TakeMessage: the client reads ahead, through a buffer.        *)
TakeBuffered == out' = [out EXCEPT !["prev"] = <<>>]

(* The client reads byte by byte, and no further than the line.            *)
TakeMessage == out' = [out EXCEPT !["prev"] = Tail(@)]

(* readUntilNewline of the client: the message ends the line, or is added  *)
(* to it, or is too much for it, which is a panic.  readResponse of onion  *)
(* reads one packet.                                                       *)
ReadResponse ==
  /\ client = "asking" /\ out["prev"] # <<>>
  /\ LET m == Head(out["prev"]) IN
       \/ /\ IsSuccess(m)
          /\ client' = "connected"
          /\ UNCHANGED <<line, farEnd>>
       \/ /\ ~IsResponse(m)
          /\ ClientFails
          /\ UNCHANGED line
       \/ /\ kind = "proxy" /\ m.text = "data" /\ Len(line) < LineLimit
          /\ line' = Append(line, m)
          /\ UNCHANGED <<client, farEnd>>
       \/ /\ kind = "proxy" /\ Overflows(m)
          /\ client' = "panicked" /\ CloseFarEnd("prev")
          /\ UNCHANGED line
  /\ TakeMessage
  /\ UNCHANGED <<kind, errRead, service, in, relayEnd, broken, history>>

ResponseMissing ==
  /\ client = "asking" /\ out["prev"] = <<>>
  /\ relayEnd["prev"] = "closed" \/ "prev" \in broken
  /\ ClientFails
  /\ UNCHANGED <<kind, errRead, line, service, in, out, relayEnd, broken, history>>

(***************************************************************************)
(* The applications at both ends: the client once Dial has returned, the   *)
(* target once it is connected.                                            *)
(***************************************************************************)
InUse(c) ==
  /\ IF c = "prev" THEN client = "connected" ELSE relayEnd["next"] # "none"
  /\ farEnd[c] = "open"

AppSends(c) ==
  /\ InUse(c) /\ sent[c] < (IF c = "prev" THEN MaxUp ELSE MaxDown)
  /\ sent' = [sent EXCEPT ![c] = @ + 1]
  /\ FarSends(c, Data(sent[c] + 1))
  /\ UNCHANGED <<kind, errRead, client, line, service, out, ends, got, unreachable, early>>

AppReceives(c) ==
  /\ InUse(c) /\ out[c] # <<>>
  /\ got' = [got EXCEPT ![c] = Append(@, Head(out[c]))]
  /\ out' = [out EXCEPT ![c] = Tail(@)]
  /\ UNCHANGED <<kind, errRead, client, line, service, in, ends, sent, unreachable, early>>

AppCloses(c) ==
  /\ InUse(c)
  /\ CloseFarEnd(c)
  /\ UNCHANGED <<kind, errRead, client, line, service, in, out, relayEnd, broken, history>>

(***************************************************************************)
(* The handler                                                             *)
(***************************************************************************)
ReadRequest ==
  /\ handler = "request" /\ in["prev"] # <<>> /\ "prev" \notin broken
  /\ in' = [in EXCEPT !["prev"] = Tail(@)]
  /\ handler' = "dial"
  /\ UNCHANGED <<kind, errRead, client, line, copy, held, out, ends, history>>

(* sendProxyResponse, or sendFail of handler and that of Run.              *)
Refuse ==
  /\ Put("prev", IF kind = "proxy" THEN <<Text("fail")>> ELSE <<Text("fail"), Text("fail")>>)
  /\ CloseRelayEnd("prev")

(* Mutant of RequestFails: the handler does not return.                    *)
RequestFailsOpen ==
  /\ handler = "request" /\ (AtEof("prev") \/ ReadFails("prev"))
  /\ handler' = "dial"
  /\ UNCHANGED <<kind, errRead, client, line, copy, held, in, out, ends, history>>

(* The onion does not report an invalid request to the application.        *)
RequestFails ==
  /\ handler = "request" /\ (AtEof("prev") \/ ReadFails("prev"))
  /\ Refuse
  /\ handler' = IF kind = "proxy" THEN "report" ELSE "returned"
  /\ UNCHANGED <<kind, errRead, client, line, copy, held, in, farEnd, broken, history>>

DialFails ==
  /\ handler = "dial"
  /\ unreachable' = TRUE
  /\ Refuse
  /\ handler' = "report"
  /\ UNCHANGED <<kind, errRead, client, line, copy, held, in, farEnd, broken, sent, got, early>>

StartCopying == copy' = [d \in Directions |-> "read"]

(* Mutant of Dialled: both services start to copy before they respond.     *)
DialledEarly ==
  /\ handler = "dial"
  /\ relayEnd' = [relayEnd EXCEPT !["next"] = "open"]
  /\ farEnd' = [farEnd EXCEPT !["next"] = "open"]
  /\ handler' = "respond"
  /\ StartCopying
  /\ UNCHANGED <<kind, errRead, client, line, held, in, out, broken, history>>

(* The proxy starts to copy before it responds.                            *)
Dialled ==
  /\ handler = "dial"
  /\ relayEnd' = [relayEnd EXCEPT !["next"] = "open"]
  /\ farEnd' = [farEnd EXCEPT !["next"] = "open"]
  /\ handler' = "respond"
  /\ IF kind = "proxy" THEN StartCopying ELSE UNCHANGED copy
  /\ UNCHANGED <<kind, errRead, client, line, held, in, out, broken, history>>

Respond ==
  /\ handler = "respond" /\ WriteOk("prev")
  /\ Put("prev", <<Text("success")>>)
  /\ handler' = "returned"
  /\ IF kind = "onion" THEN StartCopying ELSE UNCHANGED copy
  /\ UNCHANGED <<kind, errRead, client, line, held, in, ends, history>>

(* The onion closes the connection of the client, not that of the target;  *)
(* the goroutines of the proxy go on.                                      *)
RespondFails ==
  /\ handler = "respond" /\ WriteFails("prev")
  /\ handler' = "report"
  /\ IF kind = "onion" THEN CloseRelayEnd("prev") ELSE UNCHANGED relayEnd
  /\ UNCHANGED <<kind, errRead, client, line, copy, held, in, out, farEnd, broken, history>>

(* Node.handleConn sends the error of a handler.                           *)
ReportHandler ==
  /\ handler = "report" /\ errRead
  /\ handler' = "returned"
  /\ UNCHANGED <<kind, errRead, client, line, copy, held, in, out, ends, history>>

(***************************************************************************)
(* The copying goroutines: io.Copy of the proxy, copyWithRandomWait of the *)
(* onion.  Each reports its error and then closes its destination.         *)
(***************************************************************************)
CopyMoves(d, from, to) == copy[d] = from /\ copy' = [copy EXCEPT ![d] = to]

CopyRead(d) ==
  /\ CopyMoves(d, "read", "write")
  /\ in[Src[d]] # <<>> /\ ~ReadFails(Src[d])
  /\ held' = [held EXCEPT ![d] = Head(in[Src[d]])]
  /\ in' = [in EXCEPT ![Src[d]] = Tail(@)]
  /\ UNCHANGED <<kind, errRead, client, line, handler, out, ends, history>>

CopyEof(d) ==
  /\ CopyMoves(d, "read", "close")
  /\ AtEof(Src[d])
  /\ UNCHANGED <<kind, errRead, client, line, handler, held, in, out, ends, history>>

CopyWrite(d) ==
  /\ CopyMoves(d, "write", "read")
  /\ WriteOk(Dst[d]) /\ Put(Dst[d], <<held[d]>>)
  /\ early' = (early \/ (d = "down" /\ handler = "respond"))
  /\ UNCHANGED <<kind, errRead, client, line, handler, held, in, ends, sent, got, unreachable>>

CopyFails(d) ==
  /\ \/ CopyMoves(d, "read", "report") /\ ReadFails(Src[d])
     \/ CopyMoves(d, "write", "report") /\ WriteFails(Dst[d])
  /\ UNCHANGED <<kind, errRead, client, line, handler, held, in, out, ends, history>>

CopyReports(d) ==
  /\ CopyMoves(d, "report", "close") /\ errRead
  /\ UNCHANGED <<kind, errRead, client, line, handler, held, in, out, ends, history>>

(* Mutant of CopyCloses: the source is closed, which has ended already.    *)
CopyClosesSource(d) ==
  /\ CopyMoves(d, "close", "done")
  /\ CloseRelayEnd(Src[d])
  /\ UNCHANGED <<kind, errRead, client, line, handler, held, in, out, farEnd, broken, history>>

CopyCloses(d) ==
  /\ CopyMoves(d, "close", "done")
  /\ CloseRelayEnd(Dst[d])
  /\ UNCHANGED <<kind, errRead, client, line, handler, held, in, out, farEnd, broken, history>>

-----------------------------------------------------------------------------
Client == SendRequest \/ ReadResponse \/ ResponseMissing

Handler == ReadRequest \/ RequestFails \/ DialFails \/ Dialled \/ Respond \/ RespondFails
             \/ ReportHandler

Copy(d) == CopyRead(d) \/ CopyEof(d) \/ CopyWrite(d) \/ CopyFails(d) \/ CopyReports(d)
             \/ CopyCloses(d)

Next ==
  \/ Client
  \/ Handler
  \/ \E d \in Directions : Copy(d)
  \/ \E c \in Conns : Break(c) \/ AppSends(c) \/ AppReceives(c) \/ AppCloses(c)

(* Goroutines that can run do run.  Nothing is assumed of the network, the *)
(* target and the application of the client, not even that they read.      *)
Spec ==
  /\ Init /\ [][Next]_vars
  /\ WF_vars(Client) /\ WF_vars(Handler) /\ \A d \in Directions : WF_vars(Copy(d))

-----------------------------------------------------------------------------
(***************************************************************************)
(* Properties                                                              *)
(***************************************************************************)
Messages == {Data(i) : i \in 1 .. MaxUp + MaxDown}
              \union {Text(t) : t \in {"none", "request", "success", "fail"}}

(* The target is dialled for a request only, and the goroutines that copy  *)
(* are there for two connections.                                          *)
TypeOK ==
  /\ kind \in {"proxy", "onion"} /\ errRead \in BOOLEAN
  /\ client \in {"start", "asking", "connected", "failed", "panicked"}
  /\ line \in Seq(Messages) /\ Len(line) <= LineLimit
  /\ handler \in {"request", "dial", "respond", "report", "returned"}
  /\ copy \in [Directions -> {"off", "read", "write", "report", "close", "done"}]
  /\ held \in [Directions -> Messages]
  /\ in \in [Conns -> Seq(Messages)] /\ out \in [Conns -> Seq(Messages)]
  /\ {relayEnd, farEnd} \subseteq [Conns -> {"none", "open", "closed"}]
  /\ broken \subseteq Conns
  /\ sent \in [Conns -> Nat] /\ got \in [Conns -> Seq(Messages)]
  /\ unreachable \in BOOLEAN /\ early \in BOOLEAN
  /\ handler \in {"dial", "respond"} => client # "start"
  /\ \A d \in Directions : copy[d] # "off" => \A c \in Conns : relayEnd[c] # "none"

(* The proxy copied data of the target before it responded.                *)
SpokeFirst == kind = "proxy" /\ early

(* Client and target receive each other's data in order and from the       *)
(* start: nothing of the request and the response is mixed into it, and    *)
(* nothing that was sent is left out.  That is so for the target always,   *)
(* for the client of the onion always, and for the client of the proxy     *)
(* unless the target spoke first: if its data spell the text of success    *)
(* the client takes them for the response, and the response for data.      *)
CleanStream ==
  \A c \in Conns : ~(c = "prev" /\ SpokeFirst) =>
    /\ got[c] = [i \in DOMAIN got[c] |-> Data(i)]
    /\ \A other \in Conns \ {c} : Len(got[c]) <= sent[other]

(* The onion client fails only if the relay cannot reach the target or the *)
(* client loses its connection to the relay.  The proxy client also fails  *)
(* if the target speaks before the proxy has responded, and only then can  *)
(* the response be too long for it; or if the target or its connection has *)
(* gone, which makes the proxy close that of the client.                   *)
FailureExplained ==
  client \in {"failed", "panicked"} =>
    \/ client = "failed" /\ (unreachable \/ "prev" \in broken)
    \/ kind = "proxy" /\ early
    \/ /\ kind = "proxy" /\ client = "failed"
       /\ farEnd["next"] = "closed" \/ "next" \in broken

(* Once the relay copies, the end of one connection ends both, as long as  *)
(* the application reads the errors and both far ends go on reading or     *)
(* close.  The goroutine that sees the other one close its source has an   *)
(* error to report before it closes anything; and one that waits for room  *)
(* in its destination does not see its source end, and sets no deadline.   *)
TornDown ==
  []errRead /\ (\A c \in Conns : []<>HasRoom(c)) =>
    ((\A d \in Directions : copy[d] # "off") /\ (broken # {} \/ \E c \in Conns : farEnd[c] = "closed"))
      ~> (\A c \in Conns : relayEnd[c] = "closed")
=============================================================================

----------------------------- MODULE RelayProofs -----------------------------
(***************************************************************************)
(* Proofs about Relay, for both services, any number of messages and any   *)
(* length of a line.                                                       *)
(***************************************************************************)
EXTENDS Relay, SequenceTheorems, TLAPS

Typed ==
  /\ kind \in {"proxy", "onion"} /\ errRead \in BOOLEAN
  /\ client \in {"start", "asking", "connected", "failed", "panicked"}
  /\ line \in Seq(Messages) /\ Len(line) <= LineLimit
  /\ handler \in {"request", "dial", "respond", "report", "returned"}
  /\ copy \in [Directions -> {"off", "read", "write", "report", "close", "done"}]
  /\ held \in [Directions -> Messages]
  /\ in \in [Conns -> Seq(Messages)] /\ out \in [Conns -> Seq(Messages)]
  /\ relayEnd \in [Conns -> {"none", "open", "closed"}]
  /\ farEnd \in [Conns -> {"none", "open", "closed"}]
  /\ broken \subseteq Conns
  /\ sent \in [Conns -> Nat] /\ got \in [Conns -> Seq(Messages)]
  /\ unreachable \in BOOLEAN /\ early \in BOOLEAN

(***************************************************************************)
(* Messages, and what the two ways of sending one do.                      *)
(***************************************************************************)
(* The texts are no data, and data are told apart by their number.         *)
LEMMA MessageFacts ==
  /\ \A t \in {"none", "request", "success", "fail"} : Text(t) \in Messages /\ Text(t).text = t
  /\ \A i \in 1 .. MaxUp + MaxDown : Data(i) \in Messages
  /\ \A i \in Nat : Data(i).text = "data"
  /\ \A m \in Messages : m.text \in {"none", "request", "success", "fail", "data"}
BY DEF Text, Data, Messages

(* The relay writes to one connection.                                     *)
LEMMA PutEffect ==
  ASSUME Typed, NEW c \in Conns, NEW ms \in Seq(Messages), Put(c, ms)
  PROVE  /\ out' \in [Conns -> Seq(Messages)]
         /\ out'[c] = IF Delivers(c) THEN out[c] \o ms ELSE out[c]
         /\ \A o \in Conns \ {c} : out'[o] = out[o]
<1>1. out[c] \o ms \in Seq(Messages)
  BY ConcatProperties DEF Typed
<1>. QED  BY <1>1 DEF Typed, Put

(* The relay writes one message.                                           *)
LEMMA PutOne ==
  ASSUME Typed, NEW c \in Conns, NEW m \in Messages, Put(c, <<m>>)
  PROVE  /\ out' \in [Conns -> Seq(Messages)]
         /\ out'[c] = IF Delivers(c) THEN Append(out[c], m) ELSE out[c]
         /\ \A o \in Conns \ {c} : out'[o] = out[o]
<1>1. <<m>> \in Seq(Messages)
  OBVIOUS
<1>2. Append(out[c], m) = out[c] \o <<m>>
  BY AppendIsConcat DEF Typed
<1>. QED  BY <1>1, <1>2, PutEffect

(* The client or the target writes to its connection.                      *)
LEMMA FarSendsEffect ==
  ASSUME Typed, NEW c \in Conns, NEW m \in Messages, FarSends(c, m)
  PROVE  /\ in' \in [Conns -> Seq(Messages)]
         /\ in'[c] = IF Delivers(c) THEN Append(in[c], m) ELSE in[c]
         /\ \A o \in Conns \ {c} : in'[o] = in[o]
<1>1. Append(in[c], m) \in Seq(Messages)
  BY AppendProperties DEF Typed
<1>. QED  BY <1>1 DEF Typed, FarSends

(* Text and data the model sends are messages.                             *)
LEMMA AppMessage ==
  ASSUME Typed, NEW c \in Conns, sent[c] < (IF c = "prev" THEN MaxUp ELSE MaxDown)
  PROVE  sent[c] + 1 \in 1 .. MaxUp + MaxDown /\ Data(sent[c] + 1) \in Messages
<1>1. sent[c] \in Nat /\ MaxUp \in Nat /\ MaxDown \in Nat
  BY RelayAssumption DEF Typed
<1>2. sent[c] + 1 \in 1 .. MaxUp + MaxDown
  BY <1>1
<1>. QED  BY <1>2, MessageFacts

(* The queues are sequences of messages.                                   *)
LEMMA QueueTypes ==
  ASSUME Typed, NEW c \in Conns
  PROVE  /\ out[c] \in Seq(Messages) /\ in[c] \in Seq(Messages) /\ got[c] \in Seq(Messages)
         /\ Len(out[c]) \in Nat /\ Len(in[c]) \in Nat /\ Len(got[c]) \in Nat
         /\ sent[c] \in Nat
BY LenProperties DEF Typed

(* Refuse writes the text of failure, and nothing else.                    *)
LEMMA RefuseEffect ==
  ASSUME Typed, Refuse
  PROVE  /\ out' \in [Conns -> Seq(Messages)]
         /\ out'["next"] = out["next"]
         /\ ~Delivers("prev") => out'["prev"] = out["prev"]
         /\ Delivers("prev") => Len(out'["prev"]) > Len(out["prev"])
         /\ \A i \in 1 .. Len(out'["prev"]) :
              IF i \in 1 .. Len(out["prev"]) THEN out'["prev"][i] = out["prev"][i]
                                             ELSE out'["prev"][i] = Text("fail")
         /\ relayEnd' = [relayEnd EXCEPT !["prev"] = "closed"]
<1>. DEFINE ms == IF kind = "proxy" THEN <<Text("fail")>> ELSE <<Text("fail"), Text("fail")>>
            q == out["prev"]
<1>1. ms \in Seq(Messages)
  BY MessageFacts
<1>2. Len(ms) \in Nat /\ Len(ms) > 0 /\ \A i \in 1 .. Len(ms) : ms[i] = Text("fail")
  <2>1. CASE kind = "proxy"
    BY <2>1
  <2>2. CASE kind # "proxy"
    <3>1. ms = <<Text("fail"), Text("fail")>>
      BY <2>2
    <3>. HIDE DEF ms
    <3>2. Len(ms) = 2 /\ ms[1] = Text("fail") /\ ms[2] = Text("fail")
      BY <3>1
    <3>. QED  BY <3>2
  <2>. QED  BY <2>1, <2>2
<1>3. Put("prev", ms) /\ relayEnd' = [relayEnd EXCEPT !["prev"] = "closed"]
  BY DEF Refuse, CloseRelayEnd
<1>4. q \in Seq(Messages) /\ Len(q) \in Nat
  BY DEF Typed, Conns
<1>. HIDE DEF ms, q
<1>5. /\ Len(q \o ms) = Len(q) + Len(ms)
      /\ \A i \in 1 .. Len(q) + Len(ms) : (q \o ms)[i] = IF i <= Len(q) THEN q[i] ELSE ms[i - Len(q)]
  BY <1>1, <1>4, ConcatProperties
<1>6. \A i \in 1 .. Len(q \o ms) :
        IF i \in 1 .. Len(q) THEN (q \o ms)[i] = q[i] ELSE (q \o ms)[i] = Text("fail")
  BY <1>2, <1>4, <1>5
<1>7. /\ out' \in [Conns -> Seq(Messages)]
      /\ out'["prev"] = IF Delivers("prev") THEN q \o ms ELSE q
      /\ out'["next"] = out["next"]
  BY <1>1, <1>3, PutEffect DEF Conns, q
<1>8. Delivers("prev") => Len(out'["prev"]) > Len(q)
  BY <1>2, <1>4, <1>5, <1>7
<1>9. \A i \in 1 .. Len(out'["prev"]) :
        IF i \in 1 .. Len(q) THEN out'["prev"][i] = q[i] ELSE out'["prev"][i] = Text("fail")
  BY <1>6, <1>7
<1>. QED  BY <1>3, <1>7, <1>8, <1>9 DEF q

(***************************************************************************)
(* Types                                                                   *)
(***************************************************************************)
(* The client keeps the types.                                             *)
LEMMA ClientTyped ==
  ASSUME Typed, Client
  PROVE  Typed'
<1>. USE DEF Typed, service, history, ends
<1>1. CASE SendRequest
  <2>1. in' \in [Conns -> Seq(Messages)]
    BY <1>1, FarSendsEffect, MessageFacts DEF SendRequest, Conns
  <2>2. client' \in {"asking", "failed"} /\ farEnd' \in [Conns -> {"none", "open", "closed"}]
    BY <1>1 DEF SendRequest, ClientFails, CloseFarEnd
  <2>3. UNCHANGED <<kind, errRead, line, service, out, relayEnd, broken, history>>
    BY <1>1 DEF SendRequest
  <2>. QED  BY <2>1, <2>2, <2>3
<1>2. CASE ReadResponse
  <2>1. out["prev"] # <<>> /\ out["prev"] \in Seq(Messages)
    BY <1>2 DEF ReadResponse, Conns
  <2>2. Head(out["prev"]) \in Messages /\ Tail(out["prev"]) \in Seq(Messages)
    BY <2>1, HeadTailProperties
  <2>3. out' \in [Conns -> Seq(Messages)]
    BY <1>2, <2>2 DEF ReadResponse, TakeMessage
  <2>4. client' \in {"asking", "connected", "failed", "panicked"}
    BY <1>2 DEF ReadResponse, ClientFails
  <2>5. farEnd' \in [Conns -> {"none", "open", "closed"}]
    BY <1>2 DEF ReadResponse, ClientFails, CloseFarEnd
  <2>6. \/ line' = line
        \/ Len(line) < LineLimit /\ line' = Append(line, Head(out["prev"]))
    BY <1>2 DEF ReadResponse
  <2>7. line' \in Seq(Messages) /\ Len(line') <= LineLimit
    <3>1. Len(line) \in Nat /\ LineLimit \in Nat
      BY RelayAssumption, LenProperties
    <3>2. /\ Append(line, Head(out["prev"])) \in Seq(Messages)
          /\ Len(Append(line, Head(out["prev"]))) = Len(line) + 1
      BY <2>2, AppendProperties
    <3>3. line \in Seq(Messages) /\ Len(line) <= LineLimit
      OBVIOUS
    <3>. QED  BY ONLY <2>6, <3>1, <3>2, <3>3
  <2>8. UNCHANGED <<kind, errRead, service, in, relayEnd, broken, history>>
    BY <1>2 DEF ReadResponse
  <2>. QED  BY <2>3, <2>4, <2>5, <2>7, <2>8
<1>3. CASE ResponseMissing
  BY <1>3 DEF ResponseMissing, ClientFails, CloseFarEnd
<1>. QED  BY <1>1, <1>2, <1>3 DEF Client

(* The handler keeps the types.                                            *)
LEMMA HandlerTyped ==
  ASSUME Typed, Handler
  PROVE  Typed'
<1>. USE DEF Typed, history, ends
<1>1. CASE ReadRequest
  <2>1. Tail(in["prev"]) \in Seq(Messages)
    BY <1>1, HeadTailProperties DEF ReadRequest, Conns
  <2>. QED  BY <1>1, <2>1 DEF ReadRequest
<1>2. CASE RequestFails
  <2>1. Refuse /\ handler' \in {"report", "returned"}
    BY <1>2 DEF RequestFails
  <2>2. UNCHANGED <<kind, errRead, client, line, copy, held, in, farEnd, broken, history>>
    BY <1>2 DEF RequestFails
  <2>. QED  BY <2>1, <2>2, RefuseEffect
<1>3. CASE DialFails
  <2>1. Refuse /\ handler' = "report" /\ unreachable' = TRUE
    BY <1>3 DEF DialFails
  <2>2. UNCHANGED <<kind, errRead, client, line, copy, held, in, farEnd, broken, sent, got, early>>
    BY <1>3 DEF DialFails
  <2>. QED  BY <2>1, <2>2, RefuseEffect
<1>4. CASE Dialled
  BY <1>4 DEF Dialled, StartCopying
<1>5. CASE Respond
  <2>1. out' \in [Conns -> Seq(Messages)]
    BY <1>5, PutOne, MessageFacts DEF Respond, Conns
  <2>. QED  BY <1>5, <2>1 DEF Respond, StartCopying
<1>6. CASE RespondFails
  BY <1>6 DEF RespondFails, CloseRelayEnd
<1>7. CASE ReportHandler
  BY <1>7 DEF ReportHandler
<1>. QED  BY <1>1, <1>2, <1>3, <1>4, <1>5, <1>6, <1>7 DEF Handler

(* The copying goroutines keep the types.                                  *)
LEMMA CopyTyped ==
  ASSUME Typed, NEW d \in Directions, Copy(d)
  PROVE  Typed' /\ Src[d] \in Conns /\ Dst[d] \in Conns /\ Src[d] # Dst[d]
<1>0. Src[d] \in Conns /\ Dst[d] \in Conns /\ Src[d] # Dst[d]
  BY DEF Directions, Src, Dst, Conns
<1>. USE DEF Typed, history, ends, CopyMoves
<1>1. CASE CopyRead(d)
  <2>1. in[Src[d]] # <<>> /\ in[Src[d]] \in Seq(Messages)
    BY <1>0, <1>1 DEF CopyRead
  <2>2. Tail(in[Src[d]]) \in Seq(Messages) /\ Head(in[Src[d]]) \in Messages
    BY <2>1, HeadTailProperties
  <2>. QED  BY <1>0, <1>1, <2>2 DEF CopyRead
<1>2. CASE CopyEof(d)
  BY <1>0, <1>2 DEF CopyEof
<1>3. CASE CopyWrite(d)
  <2>1. out' \in [Conns -> Seq(Messages)]
    BY <1>0, <1>3, PutOne DEF CopyWrite
  <2>2. early' \in BOOLEAN
    BY <1>3 DEF CopyWrite
  <2>. QED  BY <1>0, <1>3, <2>1, <2>2 DEF CopyWrite
<1>4. CASE CopyFails(d)
  BY <1>0, <1>4 DEF CopyFails
<1>5. CASE CopyReports(d)
  BY <1>0, <1>5 DEF CopyReports
<1>6. CASE CopyCloses(d)
  BY <1>0, <1>6 DEF CopyCloses, CloseRelayEnd
<1>. QED  BY <1>0, <1>1, <1>2, <1>3, <1>4, <1>5, <1>6 DEF Copy

(* The network and the applications keep the types.                        *)
LEMMA FarTyped ==
  ASSUME Typed, NEW c \in Conns, Break(c) \/ AppSends(c) \/ AppReceives(c) \/ AppCloses(c)
  PROVE  Typed'
<1>. USE DEF Typed, history, ends, service
<1>1. CASE Break(c)
  BY <1>1 DEF Break
<1>2. CASE AppSends(c)
  <2>1. FarSends(c, Data(sent[c] + 1)) /\ Data(sent[c] + 1) \in Messages
    BY <1>2, AppMessage DEF AppSends
  <2>2. in' \in [Conns -> Seq(Messages)]
    BY <2>1, FarSendsEffect
  <2>3. sent' \in [Conns -> Nat]
    BY <1>2 DEF AppSends
  <2>4. UNCHANGED <<kind, errRead, client, line, service, out, ends, got, unreachable, early>>
    BY <1>2 DEF AppSends
  <2>. QED  BY <2>2, <2>3, <2>4
<1>3. CASE AppReceives(c)
  <2>1. out[c] # <<>> /\ out[c] \in Seq(Messages) /\ got[c] \in Seq(Messages)
    BY <1>3 DEF AppReceives
  <2>2. Head(out[c]) \in Messages /\ Tail(out[c]) \in Seq(Messages)
    BY <2>1, HeadTailProperties
  <2>3. Append(got[c], Head(out[c])) \in Seq(Messages)
    BY <2>1, <2>2, AppendProperties
  <2>4. out' \in [Conns -> Seq(Messages)]
    BY <1>3, <2>2 DEF AppReceives
  <2>5. got' \in [Conns -> Seq(Messages)]
    BY <1>3, <2>3 DEF AppReceives
  <2>6. UNCHANGED <<kind, errRead, client, line, service, in, ends, sent, unreachable, early>>
    BY <1>3 DEF AppReceives
  <2>. QED  BY <2>4, <2>5, <2>6
<1>4. CASE AppCloses(c)
  BY <1>4 DEF AppCloses, CloseFarEnd
<1>. QED  BY <1>1, <1>2, <1>3, <1>4

(* The types hold at the start.                                            *)
LEMMA TypedInit == Init => Typed
<1>. SUFFICES ASSUME Init PROVE Typed
  OBVIOUS
<1>1. Text("none") \in Messages
  BY MessageFacts
<1>2. relayEnd \in [Conns -> {"none", "open", "closed"}]
  BY DEF Init
<1>3. LineLimit \in Nat /\ Len(<<>>) = 0
  BY RelayAssumption
<1>4. <<>> \in Seq(Messages)
  OBVIOUS
<1>5. in \in [Conns -> Seq(Messages)] /\ out \in [Conns -> Seq(Messages)]
  BY <1>4 DEF Init
<1>6. got \in [Conns -> Seq(Messages)] /\ sent \in [Conns -> Nat]
  BY <1>4 DEF Init
<1>7. copy \in [Directions -> {"off", "read", "write", "report", "close", "done"}]
  BY DEF Init
<1>8. held \in [Directions -> Messages]
  BY <1>1 DEF Init
<1>9. farEnd = relayEnd /\ line = <<>> /\ broken = {} /\ client = "start" /\ handler = "request"
  BY DEF Init
<1>10. /\ kind \in {"proxy", "onion"} /\ errRead \in BOOLEAN
       /\ unreachable \in BOOLEAN /\ early \in BOOLEAN
  BY DEF Init
<1>. QED  BY <1>2, <1>3, <1>4, <1>5, <1>6, <1>7, <1>8, <1>9, <1>10 DEF Typed

(* Every step keeps the types.                                             *)
LEMMA TypedStep == Typed /\ [Next]_vars => Typed'
<1>. SUFFICES ASSUME Typed, [Next]_vars PROVE Typed'
  OBVIOUS
<1>1. CASE UNCHANGED vars
  BY <1>1 DEF Typed, vars, service, ends, history
<1>. QED  BY <1>1, ClientTyped, HandlerTyped, CopyTyped, FarTyped DEF Next

(***************************************************************************)
(* The phases of a connection.  The relay reads the request, dials,        *)
(* responds and copies; the proxy copies before it responds.               *)
(***************************************************************************)
RelayOK ==
  /\ relayEnd["prev"] # "none" /\ farEnd["prev"] # "none"
  /\ relayEnd["next"] = "none" <=> farEnd["next"] = "none"
  /\ copy["up"] = "off" <=> copy["down"] = "off"
  /\ copy["up"] # "off" => relayEnd["next"] # "none"
  /\ handler \in {"request", "dial"} =>
       relayEnd["prev"] = "open" /\ relayEnd["next"] = "none" /\ copy["up"] = "off"
  /\ handler = "respond" =>
       /\ relayEnd["next"] # "none"
       /\ kind = "onion" <=> copy["up"] = "off"
       /\ copy["up"] = "off" => relayEnd["prev"] = "open"

(* The relay and the ends of its connections stay in step.                 *)
LEMMA RelayStep == Typed /\ RelayOK /\ [Next]_vars => RelayOK'
<1>. SUFFICES ASSUME Typed, RelayOK, [Next]_vars PROVE RelayOK'
  OBVIOUS
<1>0. "prev" \in Conns /\ "next" \in Conns /\ "up" \in Directions /\ "down" \in Directions
  BY DEF Conns, Directions
<1>. USE DEF Typed, RelayOK, service, history, ends
<1>1. CASE Client
  <2>1. UNCHANGED <<kind, copy, relayEnd, handler>>
    BY <1>1 DEF Client, SendRequest, ReadResponse, ResponseMissing
  <2>2. farEnd' = farEnd \/ farEnd' = [farEnd EXCEPT !["prev"] = "closed"]
    BY <1>1 DEF Client, SendRequest, ReadResponse, ResponseMissing, ClientFails, CloseFarEnd
  <2>. QED  BY <1>0, <2>1, <2>2
<1>2. CASE ReadRequest
  BY <1>2 DEF ReadRequest
<1>3. CASE RequestFails
  <2>1. /\ relayEnd' = [relayEnd EXCEPT !["prev"] = "closed"]
        /\ handler' \in {"report", "returned"} /\ UNCHANGED <<kind, copy, farEnd>>
    BY <1>3 DEF RequestFails, Refuse, CloseRelayEnd
  <2>. QED  BY <1>0, <2>1
<1>4. CASE DialFails
  <2>1. /\ relayEnd' = [relayEnd EXCEPT !["prev"] = "closed"]
        /\ handler' = "report" /\ UNCHANGED <<kind, copy, farEnd>>
    BY <1>4 DEF DialFails, Refuse, CloseRelayEnd
  <2>. QED  BY <1>0, <2>1
<1>5. CASE Dialled
  BY <1>0, <1>5 DEF Dialled, StartCopying
<1>6. CASE Respond
  <2>1. /\ handler = "respond" /\ handler' = "returned" /\ UNCHANGED <<kind, relayEnd, farEnd>>
        /\ copy' = copy \/ copy' = [d \in Directions |-> "read"]
    BY <1>6 DEF Respond, StartCopying
  <2>. QED  BY <1>0, <2>1
<1>7. CASE RespondFails
  BY <1>0, <1>7 DEF RespondFails, CloseRelayEnd
<1>8. CASE ReportHandler
  BY <1>8 DEF ReportHandler
<1>9. ASSUME NEW d \in Directions, Copy(d) PROVE RelayOK'
  <2>1. d = "up" \/ d = "down"
    BY DEF Directions
  <2>2. /\ \E p \in {"read", "write", "report", "close", "done"} : copy' = [copy EXCEPT ![d] = p]
        /\ copy[d] \in {"read", "write", "report", "close"}
        /\ UNCHANGED <<kind, farEnd, handler>>
    BY <1>9 DEF Copy, CopyRead, CopyEof, CopyWrite, CopyFails, CopyReports, CopyCloses, CopyMoves
  <2>3. \/ relayEnd' = relayEnd
        \/ \E c \in Conns : relayEnd' = [relayEnd EXCEPT ![c] = "closed"]
    BY <1>9, CopyTyped DEF Copy, CopyRead, CopyEof, CopyWrite, CopyFails, CopyReports,
                           CopyCloses, CloseRelayEnd
  <2>4. \A c \in Conns : relayEnd'[c] = relayEnd[c] \/ relayEnd'[c] = "closed"
    BY <2>3
  <2>5. copy'["up"] = "off" <=> copy["up"] = "off"
    BY <1>0, <2>1, <2>2
  <2>6. copy'["down"] = "off" <=> copy["down"] = "off"
    BY <1>0, <2>1, <2>2
  <2>7. copy["up"] # "off" /\ relayEnd["next"] # "none" /\ handler \notin {"request", "dial"}
    BY <2>1, <2>2
  <2>8. relayEnd'["next"] # "none" /\ relayEnd'["prev"] # "none"
    BY <1>0, <2>4, <2>7
  <2>. QED  BY <2>2, <2>5, <2>6, <2>7, <2>8
<1>10. ASSUME NEW c \in Conns, Break(c) \/ AppSends(c) \/ AppReceives(c) \/ AppCloses(c)
       PROVE  RelayOK'
  <2>1. UNCHANGED <<kind, copy, relayEnd, handler>>
    BY <1>10 DEF Break, AppSends, AppReceives, AppCloses
  <2>2. farEnd' = farEnd \/ (farEnd[c] = "open" /\ farEnd' = [farEnd EXCEPT ![c] = "closed"])
    BY <1>10 DEF Break, AppSends, AppReceives, AppCloses, CloseFarEnd, InUse
  <2>3. \A o \in Conns : farEnd'[o] = "none" <=> farEnd[o] = "none"
    BY <2>2
  <2>. QED  BY <1>0, <2>1, <2>3
<1>11. CASE UNCHANGED vars
  BY <1>11 DEF vars
<1>. QED
  BY <1>1, <1>2, <1>3, <1>4, <1>5, <1>6, <1>7, <1>8, <1>9, <1>10, <1>11 DEF Next, Handler

Waiting == client \in {"start", "asking"}

PhaseOK ==
  /\ client = "start" =>
       /\ in["prev"] = <<>> /\ handler \notin {"dial", "respond"} /\ copy["up"] = "off"
       /\ handler # "request" => relayEnd["prev"] = "closed"
  /\ Waiting => farEnd["prev"] = "open"
  /\ client # "connected" =>
       /\ sent["prev"] = 0 /\ got["prev"] = <<>>
       /\ handler # "request" => in["prev"] = <<>>
  /\ client = "connected" => copy["up"] # "off"
  /\ handler = "request" => Len(in["prev"]) <= 1
  /\ relayEnd["next"] = "none" => sent["next"] = 0 /\ in["next"] = <<>>
  /\ copy["up"] = "off" => got["next"] = <<>> /\ out["next"] = <<>>

(* The target sends data only, and the relay adds its response to them.    *)
QueuesOK ==
  /\ \A c \in broken : in[c] = <<>> /\ out[c] = <<>>
  /\ \A i \in 1 .. Len(out["prev"]) :
       out["prev"][i] = Text("success") => handler = "returned" /\ copy["up"] # "off"
  /\ \A i \in 1 .. Len(out["prev"]) : out["prev"][i].text = "data" => copy["up"] # "off"
  /\ \A i \in 1 .. Len(in["next"]) : in["next"][i].text = "data"
  /\ copy["down"] = "write" => held["down"].text = "data"

PhaseInv == Typed /\ RelayOK /\ PhaseOK /\ QueuesOK

(* The client is connected by the response of the relay only.              *)
LEMMA ClientPhase ==
  ASSUME PhaseInv, Client
  PROVE  PhaseOK' /\ QueuesOK'
<1>0. "prev" \in Conns /\ "next" \in Conns /\ "up" \in Directions /\ "down" \in Directions
  BY DEF Conns, Directions
<1>. USE DEF PhaseInv, Typed, RelayOK, PhaseOK, Waiting, service, history, ends
<1>1. CASE SendRequest
  <2>1. \/ /\ client' = "asking" /\ FarSends("prev", Text("request")) /\ farEnd' = farEnd
        \/ client' = "failed" /\ in' = in
    BY <1>1 DEF SendRequest, ClientFails
  <2>2. /\ UNCHANGED <<kind, errRead, line, handler, copy, held, out, relayEnd, broken, sent, got>>
        /\ client = "start"
    BY <1>1 DEF SendRequest
  <2>3. in' = in \/ (in'["prev"] = <<Text("request")>> /\ Delivers("prev") /\ in'["next"] = in["next"])
    <3>1. Append(<<>>, Text("request")) = <<Text("request")>>
      OBVIOUS
    <3>2. ASSUME FarSends("prev", Text("request")), Delivers("prev")
          PROVE  in'["prev"] = <<Text("request")>> /\ in'["next"] = in["next"]
      <4>1. in["prev"] = <<>> /\ Text("request") \in Messages
        BY <2>2, MessageFacts
      <4>2. Typed
        BY DEF PhaseInv
      <4>3. in'["prev"] = Append(in["prev"], Text("request")) /\ in'["next"] = in["next"]
        BY ONLY <1>0, <3>2, <4>1, <4>2, FarSendsEffect
      <4>. QED  BY <3>1, <4>1, <4>3
    <3>3. ASSUME FarSends("prev", Text("request")), ~Delivers("prev") PROVE in' = in
      BY <3>3 DEF FarSends
    <3>. QED  BY <2>1, <3>2, <3>3
  <2>4. in' = in \/ (Len(in'["prev"]) = 1 /\ handler = "request" /\ in'["next"] = in["next"])
    <3>1. Delivers("prev") => handler = "request"
      BY <2>2 DEF Delivers
    <3>2. Len(<<Text("request")>>) = 1
      OBVIOUS
    <3>. QED  BY ONLY <2>3, <3>1, <3>2
  <2>5. PhaseOK'
    <3>1. /\ sent'["prev"] = 0 /\ got'["prev"] = <<>> /\ handler \notin {"dial", "respond"}
          /\ copy["up"] = "off" /\ in["prev"] = <<>>
      BY <2>2
    <3>2. (client' = "asking" /\ farEnd' = farEnd) \/ client' = "failed"
      BY <2>1
    <3>3. CASE in' = in
      BY <2>2, <3>1, <3>2, <3>3
    <3>4. CASE Len(in'["prev"]) = 1 /\ handler = "request" /\ in'["next"] = in["next"]
      BY <2>2, <3>1, <3>2, <3>4
    <3>. QED  BY <2>4, <3>3, <3>4
  <2>6. QueuesOK'
    BY <1>0, <2>2, <2>3 DEF QueuesOK, Delivers, Conns
  <2>. QED  BY <2>5, <2>6
<1>2. CASE ReadResponse
  <2>1. out["prev"] # <<>> /\ out["prev"] \in Seq(Messages) /\ client = "asking"
    BY <1>0, <1>2 DEF ReadResponse
  <2>2. /\ Len(out["prev"]) \in Nat /\ Len(out["prev"]) >= 1
        /\ Head(out["prev"]) = out["prev"][1] /\ Len(Tail(out["prev"])) = Len(out["prev"]) - 1
        /\ \A i \in 1 .. Len(Tail(out["prev"])) : Tail(out["prev"])[i] = out["prev"][i + 1]
    BY <2>1, HeadTailProperties, LenProperties, EmptySeq
  <2>3. \/ /\ client' = "connected" /\ farEnd' = farEnd
           /\ Head(out["prev"]) = Text("success") \/ Head(out["prev"]).text = "data"
        \/ client' \in {"failed", "panicked"}
        \/ client' = client /\ farEnd' = farEnd
    BY <1>2 DEF ReadResponse, ClientFails, IsSuccess, IsResponse
  <2>4. UNCHANGED <<kind, errRead, handler, copy, held, in, relayEnd, broken, sent, got>>
    BY <1>2 DEF ReadResponse
  <2>5. out' = [out EXCEPT !["prev"] = Tail(@)]
    BY <1>2 DEF ReadResponse, TakeMessage
  <2>6. client' = "connected" => copy["up"] # "off"
    BY <2>1, <2>2, <2>3 DEF QueuesOK
  <2>7. PhaseOK'
    <3>1. out'["next"] = out["next"]
      BY <1>0, <2>5
    <3>. QED  BY <2>1, <2>3, <2>4, <2>6, <3>1
  <2>8. QueuesOK'
    <3>1. \A c \in broken : in[c] = <<>> /\ out'[c] = <<>>
      BY <2>1, <2>5 DEF QueuesOK
    <3>2. out'["prev"] = Tail(out["prev"])
      BY <1>0, <2>5
    <3>3. \A i \in 1 .. Len(out'["prev"]) :
            out'["prev"][i] = Text("success") => handler = "returned" /\ copy["up"] # "off"
      BY <2>2, <3>2 DEF QueuesOK
    <3>4. \A i \in 1 .. Len(out'["prev"]) : out'["prev"][i].text = "data" => copy["up"] # "off"
      BY <2>2, <3>2 DEF QueuesOK
    <3>. QED  BY <2>4, <3>1, <3>3, <3>4 DEF QueuesOK
  <2>. QED  BY <2>7, <2>8
<1>3. CASE ResponseMissing
  <2>1. client' = "failed" /\ client = "asking"
    BY <1>3 DEF ResponseMissing, ClientFails
  <2>2. UNCHANGED <<handler, copy, held, in, out, relayEnd, broken, sent, got>>
    BY <1>3 DEF ResponseMissing
  <2>. QED  BY <2>1, <2>2 DEF QueuesOK
<1>. QED  BY <1>1, <1>2, <1>3 DEF Client

(* Nothing is left of one message.                                         *)
LEMMA LastTaken ==
  ASSUME NEW S, NEW q \in Seq(S), q # <<>>, Len(q) <= 1
  PROVE  Tail(q) = <<>>
<1>1. Len(q) \in Nat \ {0}
  BY EmptySeq
<1>2. Len(q) = 1
  BY <1>1
<1>3. Tail(q) \in Seq(S) /\ Len(Tail(q)) = Len(q) - 1
  BY HeadTailProperties
<1>. DEFINE t == Tail(q)
<1>4. t \in Seq(S) /\ Len(t) = 0
  BY <1>2, <1>3
<1>. HIDE DEF t
<1>5. t = <<>>
  BY <1>4, EmptySeq
<1>. QED  BY <1>5 DEF t

(* The handler takes the request from the connection and leaves it empty.  *)
LEMMA HandlerPhase ==
  ASSUME PhaseInv, Handler
  PROVE  PhaseOK' /\ QueuesOK'
<1>0. "prev" \in Conns /\ "next" \in Conns /\ "up" \in Directions /\ "down" \in Directions
  BY DEF Conns, Directions
<1>t. Text("fail") # Text("success") /\ Text("fail").text # "data" /\ Text("success").text # "data"
  BY MessageFacts
<1>. USE DEF PhaseInv, Typed, RelayOK, PhaseOK, Waiting, history, ends
<1>1. CASE ReadRequest
  <2>1. /\ handler = "request" /\ in["prev"] # <<>> /\ handler' = "dial"
        /\ UNCHANGED <<client, copy, held, out, relayEnd, farEnd, broken, sent, got>>
        /\ in' = [in EXCEPT !["prev"] = Tail(@)]
    BY <1>1 DEF ReadRequest
  <2>2. in["prev"] \in Seq(Messages) /\ Len(in["prev"]) <= 1
    BY <1>0, <2>1
  <2>3. Tail(in["prev"]) = <<>>
    BY <2>1, <2>2, LastTaken
  <2>4. in'["prev"] = <<>> /\ in'["next"] = in["next"]
    BY <1>0, <2>1, <2>3
  <2>5. PhaseOK'
    BY <2>1, <2>4
  <2>6. QueuesOK'
    BY <2>1, <2>4 DEF QueuesOK, Conns
  <2>. QED  BY <2>5, <2>6
<1>2. CASE RequestFails \/ DialFails
  <2>1. /\ Refuse /\ UNCHANGED <<client, copy, held, in, farEnd, broken, sent, got>>
        /\ handler \in {"request", "dial"} /\ handler' \in {"report", "returned"}
        /\ handler = "request" => AtEof("prev") \/ ReadFails("prev")
    BY <1>2 DEF RequestFails, DialFails
  <2>2. /\ ~Delivers("prev") => out'["prev"] = out["prev"]
        /\ \A i \in 1 .. Len(out'["prev"]) :
             IF i \in 1 .. Len(out["prev"]) THEN out'["prev"][i] = out["prev"][i]
                                            ELSE out'["prev"][i] = Text("fail")
        /\ out'["next"] = out["next"]
        /\ relayEnd' = [relayEnd EXCEPT !["prev"] = "closed"]
    BY <2>1, RefuseEffect
  <2>3. in["prev"] = <<>>
    BY <1>0, <2>1 DEF AtEof, ReadFails, QueuesOK
  <2>4. relayEnd'["prev"] = "closed" /\ relayEnd'["next"] = relayEnd["next"]
    BY <1>0, <2>2
  <2>5. PhaseOK'
    BY <2>1, <2>2, <2>3, <2>4
  <2>6. \A i \in 1 .. Len(out'["prev"]) :
          out'["prev"][i] # Text("success") /\ out'["prev"][i].text # "data"
    BY <1>t, <2>1, <2>2 DEF QueuesOK
  <2>7. \A c \in broken : in[c] = <<>> /\ out'[c] = <<>>
    BY <2>1, <2>2 DEF QueuesOK, Delivers, Conns
  <2>8. QueuesOK'
    BY <2>1, <2>6, <2>7 DEF QueuesOK
  <2>. QED  BY <2>5, <2>8
<1>3. CASE Dialled
  <2>1. /\ handler = "dial" /\ handler' = "respond"
        /\ relayEnd' = [relayEnd EXCEPT !["next"] = "open"]
        /\ farEnd' = [farEnd EXCEPT !["next"] = "open"]
        /\ copy' = copy \/ copy' = [d \in Directions |-> "read"]
        /\ UNCHANGED <<client, held, in, out, broken, sent, got>>
    BY <1>3 DEF Dialled, StartCopying
  <2>2. /\ relayEnd'["prev"] = relayEnd["prev"] /\ farEnd'["prev"] = farEnd["prev"]
        /\ relayEnd'["next"] = "open" /\ copy["up"] = "off" /\ copy["down"] = "off"
        /\ copy'["down"] # "write" /\ (copy'["up"] = "off" => copy["up"] = "off")
    BY <1>0, <2>1
  <2>3. PhaseOK'
    BY <2>1, <2>2
  <2>4. QueuesOK'
    BY <2>1, <2>2 DEF QueuesOK
  <2>. QED  BY <2>3, <2>4
<1>4. CASE Respond
  <2>1. /\ handler = "respond" /\ handler' = "returned" /\ Put("prev", <<Text("success")>>)
        /\ UNCHANGED <<kind, client, held, in, relayEnd, farEnd, broken, sent, got>>
        /\ IF kind = "onion" THEN copy' = [d \in Directions |-> "read"] ELSE copy' = copy
    BY <1>4 DEF Respond, StartCopying
  <2>2. /\ out'["next"] = out["next"]
        /\ out'["prev"] = IF Delivers("prev") THEN Append(out["prev"], Text("success")) ELSE out["prev"]
    BY <1>0, <2>1, PutOne, MessageFacts
  <2>3. /\ copy'["up"] # "off" /\ (copy'["down"] = "write" => copy["down"] = "write")
        /\ client # "start" /\ (copy'["up"] = "off" => copy["up"] = "off")
    BY <1>0, <2>1
  <2>4. PhaseOK'
    BY <2>1, <2>2, <2>3
  <2>5. QueuesOK'
    BY <2>1, <2>2, <2>3 DEF QueuesOK, Delivers, Conns
  <2>. QED  BY <2>4, <2>5
<1>5. CASE RespondFails
  <2>1. /\ handler = "respond" /\ handler' = "report"
        /\ relayEnd' = relayEnd \/ relayEnd' = [relayEnd EXCEPT !["prev"] = "closed"]
        /\ UNCHANGED <<client, copy, held, in, out, farEnd, broken, sent, got>>
    BY <1>5 DEF RespondFails, CloseRelayEnd
  <2>2. relayEnd'["next"] = relayEnd["next"]
    BY <1>0, <2>1
  <2>3. \A i \in 1 .. Len(out["prev"]) : out["prev"][i] # Text("success")
    BY <2>1 DEF QueuesOK
  <2>. QED  BY <2>1, <2>2, <2>3 DEF QueuesOK
<1>6. CASE ReportHandler
  <2>1. /\ handler = "report" /\ handler' = "returned"
        /\ UNCHANGED <<client, copy, held, in, out, relayEnd, farEnd, broken, sent, got>>
    BY <1>6 DEF ReportHandler
  <2>. QED  BY <2>1 DEF QueuesOK
<1>. QED  BY <1>1, <1>2, <1>3, <1>4, <1>5, <1>6 DEF Handler

(* The goroutines copy data only.                                          *)
LEMMA CopyPhase ==
  ASSUME PhaseInv, NEW d \in Directions, Copy(d)
  PROVE  PhaseOK' /\ QueuesOK'
<1>0. "prev" \in Conns /\ "next" \in Conns /\ "up" \in Directions /\ "down" \in Directions
  BY DEF Conns, Directions
<1>d. \/ d = "up" /\ Src[d] = "prev" /\ Dst[d] = "next"
      \/ d = "down" /\ Src[d] = "next" /\ Dst[d] = "prev"
  BY DEF Directions, Src, Dst
<1>. USE DEF PhaseInv, Typed, RelayOK, PhaseOK, Waiting, history, ends
<1>a. /\ \E p \in {"read", "write", "report", "close", "done"} : copy' = [copy EXCEPT ![d] = p]
      /\ copy[d] \in {"read", "write", "report", "close"}
      /\ UNCHANGED <<kind, client, handler, farEnd, broken, sent, got>>
  BY DEF Copy, CopyRead, CopyEof, CopyWrite, CopyFails, CopyReports, CopyCloses, CopyMoves
<1>b. /\ copy["up"] # "off" /\ copy'["up"] # "off" /\ relayEnd["next"] # "none"
      /\ client # "start" /\ handler \notin {"request", "dial"}
  BY <1>0, <1>a, <1>d
<1>c. relayEnd'["next"] # "none"
  BY <1>0, <1>b, RelayStep DEF Next
<1>1. CASE CopyRead(d)
  <2>1. /\ in[Src[d]] # <<>> /\ held' = [held EXCEPT ![d] = Head(in[Src[d]])]
        /\ in' = [in EXCEPT ![Src[d]] = Tail(@)] /\ UNCHANGED <<out, relayEnd>>
    BY <1>1 DEF CopyRead
  <2>2. in[Src[d]] \in Seq(Messages) /\ Src[d] \in Conns
    BY <1>0, <1>d
  <2>3. /\ Len(in[Src[d]]) \in Nat \ {0} /\ Head(in[Src[d]]) = in[Src[d]][1]
        /\ Len(Tail(in[Src[d]])) = Len(in[Src[d]]) - 1
        /\ \A i \in 1 .. Len(Tail(in[Src[d]])) : Tail(in[Src[d]])[i] = in[Src[d]][i + 1]
    <3>1. in[Src[d]] # <<>>
      BY <2>1
    <3>. QED  BY ONLY <2>2, <3>1, EmptySeq, HeadTailProperties
  <2>4. PhaseOK'
    <3>1. d = "up" => client = "connected"
      BY <1>b, <1>d, <2>1
    <3>2. d = "down" => in'["prev"] = in["prev"]
      BY <1>0, <1>d, <2>1
    <3>. QED  BY <1>a, <1>b, <1>c, <1>d, <2>1, <3>1, <3>2
  <2>5. QueuesOK'
    <3>0. /\ \A i \in 1 .. Len(out'["prev"]) :
               out'["prev"][i] = Text("success") => handler' = "returned" /\ copy'["up"] # "off"
          /\ broken' = broken /\ copy'["up"] # "off"
      BY <1>a, <1>b, <2>1 DEF QueuesOK
    <3>1. \A c \in broken : in'[c] = <<>> /\ out'[c] = <<>>
      BY <2>1 DEF QueuesOK
    <3>2. CASE d = "down"
      <4>1. in'["next"] = Tail(in["next"]) /\ held'["down"] = in["next"][1]
        BY <1>0, <1>d, <2>1, <2>3, <3>2
      <4>2. in["next"][1].text = "data" /\ \A i \in 1 .. Len(in'["next"]) : in'["next"][i].text = "data"
        BY <1>d, <2>3, <3>2, <4>1 DEF QueuesOK
      <4>. QED  BY ONLY <3>0, <3>1, <4>1, <4>2 DEF QueuesOK
    <3>3. CASE d = "up"
      <4>1. in'["next"] = in["next"] /\ held'["down"] = held["down"] /\ copy'["down"] = copy["down"]
        BY <1>0, <1>a, <1>d, <2>1, <3>3
      <4>2. /\ \A i \in 1 .. Len(in["next"]) : in["next"][i].text = "data"
            /\ copy["down"] = "write" => held["down"].text = "data"
        BY DEF QueuesOK
      <4>. QED  BY ONLY <3>0, <3>1, <4>1, <4>2 DEF QueuesOK
    <3>. QED  BY <1>d, <3>2, <3>3
  <2>. QED  BY <2>4, <2>5
<1>2. CASE CopyWrite(d)
  <2>1. Put(Dst[d], <<held[d]>>) /\ copy' = [copy EXCEPT ![d] = "read"] /\ copy[d] = "write"
    BY <1>2 DEF CopyWrite, CopyMoves
  <2>2. UNCHANGED <<held, in, relayEnd>>
    BY <1>2 DEF CopyWrite
  <2>3. held[d] \in Messages /\ Dst[d] \in Conns
    BY <1>0, <1>d
  <2>4. /\ out'[Dst[d]] = IF Delivers(Dst[d]) THEN Append(out[Dst[d]], held[d]) ELSE out[Dst[d]]
        /\ \A o \in Conns \ {Dst[d]} : out'[o] = out[o]
    BY <2>1, <2>3, PutOne
  <2>5. PhaseOK'
    BY <1>a, <1>b, <2>2
  <2>6. copy'["down"] = "write" => copy["down"] = "write"
    BY <1>0, <1>d, <2>1
  <2>7. \A c \in broken : in[c] = <<>> /\ out'[c] = <<>>
    BY <2>3, <2>4 DEF QueuesOK, Delivers
  <2>8. \A i \in 1 .. Len(out'["prev"]) : out'["prev"][i] = Text("success") => handler = "returned"
    <3>0. \A i \in 1 .. Len(out["prev"]) : out["prev"][i] = Text("success") => handler = "returned"
      BY DEF QueuesOK
    <3>1. CASE out'["prev"] = out["prev"]
      BY ONLY <3>0, <3>1
    <3>2. CASE d = "down" /\ out'["prev"] = Append(out["prev"], held[d])
      <4>1. held[d] # Text("success")
        BY <2>1, <3>2, MessageFacts DEF QueuesOK
      <4>2. out["prev"] \in Seq(Messages) /\ held[d] \in Messages
        BY <1>0, <2>3
      <4>3. \A i \in 1 .. Len(Append(out["prev"], held[d])) :
              IF i \in 1 .. Len(out["prev"]) THEN Append(out["prev"], held[d])[i] = out["prev"][i]
                                             ELSE Append(out["prev"], held[d])[i] = held[d]
        BY ONLY <4>2, AppendProperties, LenProperties
      <4>. QED  BY ONLY <3>0, <3>2, <4>1, <4>3
    <3>3. \/ out'["prev"] = out["prev"]
          \/ d = "down" /\ out'["prev"] = Append(out["prev"], held[d])
      BY <1>0, <1>d, <2>4
    <3>. QED  BY <3>1, <3>2, <3>3
  <2>9. QueuesOK'
    BY <1>a, <1>b, <2>2, <2>6, <2>7, <2>8 DEF QueuesOK
  <2>. QED  BY <2>5, <2>9
<1>3. CASE CopyEof(d) \/ CopyFails(d) \/ CopyReports(d) \/ CopyCloses(d)
  <2>1. /\ UNCHANGED <<held, in, out>>
        /\ \E p \in {"report", "close", "done"} : copy' = [copy EXCEPT ![d] = p]
    BY <1>3 DEF CopyEof, CopyFails, CopyReports, CopyCloses, CopyMoves
  <2>2. copy'["down"] = "write" => copy["down"] = "write"
    BY <1>0, <1>d, <2>1
  <2>3. relayEnd'["prev"] # "none"
    BY <1>0, RelayStep DEF Next
  <2>4. PhaseOK'
    BY <1>a, <1>b, <1>c, <2>1
  <2>5. QueuesOK'
    BY <1>a, <1>b, <2>1, <2>2 DEF QueuesOK
  <2>. QED  BY <2>4, <2>5
<1>. QED  BY <1>1, <1>2, <1>3 DEF Copy

(* The applications write after the request, and a broken connection is    *)
(* empty for good.                                                         *)
LEMMA FarPhase ==
  ASSUME PhaseInv, NEW c \in Conns, Break(c) \/ AppSends(c) \/ AppReceives(c) \/ AppCloses(c)
  PROVE  PhaseOK' /\ QueuesOK'
<1>0. "prev" \in Conns /\ "next" \in Conns /\ (c = "prev" \/ c = "next")
  BY DEF Conns
<1>. USE DEF PhaseInv, Typed, RelayOK, PhaseOK, Waiting, service, history, ends
<1>1. CASE Break(c)
  <2>1. /\ broken' = broken \union {c} /\ relayEnd[c] # "none"
        /\ in' = [in EXCEPT ![c] = <<>>] /\ out' = [out EXCEPT ![c] = <<>>]
        /\ UNCHANGED <<client, handler, copy, held, relayEnd, farEnd, sent, got>>
    BY <1>1 DEF Break
  <2>2. \A o \in Conns : in'[o] \in {in[o], <<>>} /\ out'[o] \in {out[o], <<>>}
    BY <2>1
  <2>3. in'[c] = <<>> /\ out'[c] = <<>>
    BY <2>1
  <2>4. Len(<<>>) = 0
    OBVIOUS
  <2>5. PhaseOK'
    BY <1>0, <2>1, <2>2, <2>4
  <2>6. \A o \in broken' : in'[o] = <<>> /\ out'[o] = <<>>
    BY <2>1, <2>2, <2>3 DEF QueuesOK
  <2>7. QueuesOK'
    BY <1>0, <2>1, <2>2, <2>4, <2>6 DEF QueuesOK
  <2>. QED  BY <2>5, <2>7
<1>2. CASE AppSends(c)
  <2>1. /\ InUse(c) /\ sent' = [sent EXCEPT ![c] = @ + 1] /\ FarSends(c, Data(sent[c] + 1))
        /\ UNCHANGED <<client, handler, copy, held, out, relayEnd, farEnd, broken, got>>
    BY <1>2 DEF AppSends
  <2>2. Data(sent[c] + 1) \in Messages /\ Data(sent[c] + 1).text = "data"
    <3>0. sent[c] \in Nat
      OBVIOUS
    <3>1. sent[c] + 1 \in Nat
      BY ONLY <3>0
    <3>2. Data(sent[c] + 1) \in Messages
      BY <1>2, AppMessage DEF AppSends
    <3>. QED  BY <3>1, <3>2, MessageFacts
  <2>3. /\ in'[c] = IF Delivers(c) THEN Append(in[c], Data(sent[c] + 1)) ELSE in[c]
        /\ \A o \in Conns \ {c} : in'[o] = in[o] /\ sent'[o] = sent[o]
    BY <2>1, <2>2, FarSendsEffect
  <2>4. c = "prev" => client = "connected"
    BY <2>1 DEF InUse
  <2>5. c = "next" => relayEnd["next"] # "none"
    BY <2>1 DEF InUse
  <2>6. PhaseOK'
    BY <1>0, <2>1, <2>3, <2>4, <2>5
  <2>7. \A i \in 1 .. Len(in'["next"]) : in'["next"][i].text = "data"
    <3>0. \A i \in 1 .. Len(in["next"]) : in["next"][i].text = "data"
      BY DEF QueuesOK
    <3>1. CASE in'["next"] = in["next"]
      BY ONLY <3>0, <3>1
    <3>2. CASE c = "next" /\ in'["next"] = Append(in["next"], Data(sent[c] + 1))
      <4>1. in["next"] \in Seq(Messages)
        BY <1>0
      <4>2. \A i \in 1 .. Len(Append(in["next"], Data(sent[c] + 1))) :
              IF i \in 1 .. Len(in["next"]) THEN Append(in["next"], Data(sent[c] + 1))[i] = in["next"][i]
                                            ELSE Append(in["next"], Data(sent[c] + 1))[i] = Data(sent[c] + 1)
        BY ONLY <2>2, <4>1, AppendProperties, LenProperties
      <4>. QED  BY ONLY <2>2, <3>0, <3>2, <4>2
    <3>. QED  BY <1>0, <2>3, <3>1, <3>2
  <2>8. \A o \in broken : in'[o] = <<>>
    BY <2>3 DEF QueuesOK, Delivers
  <2>9. QueuesOK'
    BY <2>1, <2>7, <2>8 DEF QueuesOK
  <2>. QED  BY <2>6, <2>9
<1>3. CASE AppReceives(c)
  <2>1. /\ InUse(c) /\ out[c] # <<>> /\ out' = [out EXCEPT ![c] = Tail(@)]
        /\ got' = [got EXCEPT ![c] = Append(@, Head(out[c]))]
        /\ UNCHANGED <<client, handler, copy, held, in, relayEnd, farEnd, broken, sent>>
    BY <1>3 DEF AppReceives
  <2>2. c = "prev" => client = "connected"
    BY <2>1 DEF InUse
  <2>3. c = "next" => copy["up"] # "off"
    BY <2>1
  <2>4. PhaseOK'
    BY <1>0, <2>1, <2>2, <2>3
  <2>5. \A o \in broken : in[o] = <<>> /\ out'[o] = <<>>
    BY <2>1 DEF QueuesOK
  <2>6. out'["prev"] = out["prev"] \/ copy["up"] # "off"
    BY <1>0, <2>1, <2>2
  <2>7. QueuesOK'
    <3>1. \A i \in 1 .. Len(out'["prev"]) :
            out'["prev"][i] = Text("success") => handler = "returned" /\ copy["up"] # "off"
      <4>1. CASE out'["prev"] = out["prev"]
        BY <4>1 DEF QueuesOK
      <4>2. CASE c = "prev"
        <5>1. out["prev"] \in Seq(Messages) /\ out["prev"] # <<>> /\ out'["prev"] = Tail(out["prev"])
          BY <1>0, <2>1, <4>2
        <5>2. /\ Len(out["prev"]) \in Nat /\ Len(Tail(out["prev"])) = Len(out["prev"]) - 1
              /\ \A i \in 1 .. Len(Tail(out["prev"])) : Tail(out["prev"])[i] = out["prev"][i + 1]
          BY <5>1, HeadTailProperties, LenProperties
        <5>. QED  BY <5>1, <5>2 DEF QueuesOK
      <4>. QED  BY <1>0, <2>1, <4>1, <4>2
    <3>2. \A i \in 1 .. Len(out'["prev"]) : out'["prev"][i].text = "data" => copy["up"] # "off"
      BY <2>6 DEF QueuesOK
    <3>. QED  BY <2>1, <2>5, <3>1, <3>2 DEF QueuesOK
  <2>. QED  BY <2>4, <2>7
<1>4. CASE AppCloses(c)
  <2>1. /\ InUse(c) /\ farEnd' = [farEnd EXCEPT ![c] = "closed"]
        /\ UNCHANGED <<client, handler, copy, held, in, out, relayEnd, broken, sent, got>>
    BY <1>4 DEF AppCloses, CloseFarEnd
  <2>2. c = "prev" => client = "connected"
    BY <2>1 DEF InUse
  <2>3. Waiting => farEnd'["prev"] = farEnd["prev"]
    BY <1>0, <2>1, <2>2
  <2>. QED  BY <2>1, <2>3 DEF QueuesOK
<1>. QED  BY <1>1, <1>2, <1>3, <1>4

(* The phases hold at the start.                                           *)
LEMMA PhaseInit == Init => PhaseInv
<1>. SUFFICES ASSUME Init PROVE PhaseInv
  OBVIOUS
<1>1. Len(<<>>) = 0 /\ Len(<<>>) <= 1
  OBVIOUS
<1>2. RelayOK
  BY DEF Init, RelayOK, Conns, Directions
<1>3. PhaseOK
  BY <1>1 DEF Init, PhaseOK, Waiting, Conns, Directions
<1>4. QueuesOK
  BY <1>1 DEF Init, QueuesOK, Conns, Directions
<1>. QED  BY <1>2, <1>3, <1>4, TypedInit DEF PhaseInv

(* Every step keeps the phases.                                            *)
LEMMA PhaseStep == PhaseInv /\ [Next]_vars => PhaseInv'
<1>. SUFFICES ASSUME PhaseInv, [Next]_vars PROVE PhaseInv'
  OBVIOUS
<1>1. Typed' /\ RelayOK'
  BY TypedStep, RelayStep DEF PhaseInv
<1>2. CASE UNCHANGED vars
  BY <1>1, <1>2 DEF PhaseInv, PhaseOK, QueuesOK, Waiting, vars, service, ends, history
<1>. QED  BY <1>1, <1>2, ClientPhase, HandlerPhase, CopyPhase, FarPhase DEF Next, PhaseInv

(* TypeOK: the target is dialled for a request only, and the goroutines    *)
(* that copy are there for two connections.                                *)
THEOREM TypeCorrect == Spec => []TypeOK
<1>1. PhaseInv => TypeOK
  <2>. SUFFICES ASSUME PhaseInv PROVE TypeOK
    OBVIOUS
  <2>1. handler \in {"dial", "respond"} => client # "start"
    BY DEF PhaseInv, PhaseOK
  <2>2. \A d \in Directions : copy[d] # "off" => \A c \in Conns : relayEnd[c] # "none"
    BY DEF PhaseInv, RelayOK, Directions, Conns
  <2>. QED  BY <2>1, <2>2 DEF PhaseInv, Typed, TypeOK
<1>. QED  BY <1>1, PhaseInit, PhaseStep, PTL DEF Spec

(***************************************************************************)
(* Why a client fails.  The relay ends a connection for a cause only, and  *)
(* what the client finds first on its connection is the response, unless   *)
(* data went before it.                                                    *)
(***************************************************************************)
Cause == unreachable \/ broken # {} \/ \E c \in Conns : farEnd[c] = "closed"

Ended ==
  \/ relayEnd["prev"] = "closed" \/ relayEnd["next"] = "closed"
  \/ \E d \in Directions : copy[d] \in {"report", "close", "done"}

EndsOK ==
  /\ Ended => Cause
  /\ early => kind = "proxy"
  /\ Waiting /\ copy["down"] = "off" /\ relayEnd["prev"] = "closed" =>
       unreachable \/ "prev" \in broken

Responded == \E i \in 1 .. Len(out["prev"]) : out["prev"][i] = Text("success")

ResponseOK ==
  /\ \A i \in 1 .. Len(out["prev"]) : out["prev"][i] = Text("fail") => unreachable
  /\ Waiting /\ ~early =>
       /\ line = <<>>
       /\ out["prev"] # <<>> => out["prev"][1] \in {Text("success"), Text("fail")}
  /\ Waiting /\ handler \in {"report", "returned"} /\ copy["down"] # "off"
       /\ "prev" \notin broken /\ (kind = "onion" \/ relayEnd["prev"] = "open") => Responded

(* A client that is connected before the relay has responded has taken     *)
(* data for the response.                                                  *)
ConnectedOK == client = "connected" /\ handler # "returned" => early

ExplainInv == PhaseInv /\ EndsOK /\ ResponseOK /\ ConnectedOK /\ FailureExplained

(* Nothing takes a cause away.                                             *)
LEMMA CauseStays ==
  ASSUME PhaseInv, [Next]_vars
  PROVE  /\ kind' = kind /\ (unreachable => unreachable') /\ (early => early')
         /\ broken \subseteq broken'
         /\ \A c \in Conns : farEnd[c] = "closed" => farEnd'[c] = "closed"
<1>. USE DEF service, history, ends
<1>t. Typed /\ (handler = "dial" => farEnd["next"] = "none")
  BY DEF PhaseInv, RelayOK
<1>1. CASE Client
  <2>1. UNCHANGED <<kind, unreachable, early, broken>>
    BY <1>1 DEF Client, SendRequest, ReadResponse, ResponseMissing
  <2>2. farEnd' = farEnd \/ farEnd' = [farEnd EXCEPT !["prev"] = "closed"]
    BY <1>1 DEF Client, SendRequest, ReadResponse, ResponseMissing, ClientFails, CloseFarEnd
  <2>. QED  BY <1>t, <2>1, <2>2 DEF Typed
<1>2. CASE Handler
  <2>1. UNCHANGED <<kind, early, broken>> /\ (unreachable' = unreachable \/ unreachable' = TRUE)
    BY <1>2 DEF Handler, ReadRequest, RequestFails, DialFails, Dialled, Respond, RespondFails,
                ReportHandler
  <2>2. farEnd' = farEnd \/ (handler = "dial" /\ farEnd' = [farEnd EXCEPT !["next"] = "open"])
    BY <1>2 DEF Handler, ReadRequest, RequestFails, DialFails, Dialled, Respond, RespondFails,
                ReportHandler
  <2>. QED  BY <1>t, <2>1, <2>2 DEF Typed
<1>3. ASSUME NEW d \in Directions, Copy(d)
      PROVE  UNCHANGED <<kind, unreachable, broken, farEnd>> /\ (early => early')
  <2>1. UNCHANGED <<kind, unreachable, broken, farEnd>>
    BY <1>3 DEF Copy, CopyRead, CopyEof, CopyWrite, CopyFails, CopyReports, CopyCloses
  <2>2. early => early'
    <3>1. CASE CopyWrite(d)
      BY <3>1, Zenon DEF CopyWrite
    <3>2. CASE ~CopyWrite(d)
      <4>1. early' = early
        BY <1>3, <3>2 DEF Copy, CopyRead, CopyEof, CopyFails, CopyReports, CopyCloses
      <4>. QED  BY <4>1, Zenon
    <3>. QED  BY <3>1, <3>2
  <2>. QED  BY <2>1, <2>2
<1>4. ASSUME NEW c \in Conns, Break(c) \/ AppSends(c) \/ AppReceives(c) \/ AppCloses(c)
      PROVE  /\ UNCHANGED <<kind, unreachable, early>> /\ broken \subseteq broken'
             /\ farEnd' = farEnd \/ farEnd' = [farEnd EXCEPT ![c] = "closed"]
  BY <1>4 DEF Break, AppSends, AppReceives, AppCloses, CloseFarEnd
<1>5. CASE UNCHANGED vars
  BY <1>5 DEF vars
<1>6. CASE \E d \in Directions : Copy(d)
  BY <1>3, <1>6
<1>7. CASE \E c \in Conns : Break(c) \/ AppSends(c) \/ AppReceives(c) \/ AppCloses(c)
  BY <1>t, <1>4, <1>7 DEF Typed
<1>. QED  BY <1>1, <1>2, <1>5, <1>6, <1>7 DEF Next

(* A failure stays explained.                                              *)
LEMMA FailureStays ==
  ASSUME ExplainInv, [Next]_vars, client' = client
  PROVE  FailureExplained'
<1>1. /\ kind' = kind /\ (unreachable => unreachable') /\ (early => early')
      /\ broken \subseteq broken'
      /\ farEnd["next"] = "closed" => farEnd'["next"] = "closed"
  BY CauseStays DEF ExplainInv, Conns
<1>. QED  BY <1>1 DEF ExplainInv, FailureExplained

(* What the client sees when the response does not come, or is none.       *)
LEMMA ClientExplained ==
  ASSUME ExplainInv, Client
  PROVE  EndsOK' /\ ResponseOK' /\ FailureExplained'
<1>0. "prev" \in Conns /\ "next" \in Conns /\ "up" \in Directions /\ "down" \in Directions
  BY DEF Conns, Directions
<1>a. /\ PhaseInv /\ Typed /\ Next /\ EndsOK /\ ResponseOK /\ FailureExplained
      /\ Waiting /\ farEnd["prev"] = "open"
  <2>1. Waiting
    BY DEF Client, SendRequest, ReadResponse, ResponseMissing, Waiting
  <2>. QED  BY <2>1 DEF ExplainInv, PhaseInv, PhaseOK, Next
<1>b. UNCHANGED <<kind, copy, handler, relayEnd, broken, unreachable, early>>
  BY DEF Client, SendRequest, ReadResponse, ResponseMissing, service, history
<1>c. \A c \in Conns : farEnd[c] = "closed" => farEnd'[c] = "closed"
  BY <1>a, CauseStays
<1>d. Cause => Cause'
  BY <1>b, <1>c DEF Cause
<1>e. Ended' = Ended
  BY <1>b DEF Ended
<1>f. client' \in {"asking", "failed", "connected", "panicked"}
  <2>1. CASE SendRequest
    BY <2>1 DEF SendRequest, ClientFails
  <2>2. CASE ReadResponse
    BY <2>2 DEF ReadResponse, ClientFails
  <2>3. CASE ResponseMissing
    BY <2>3 DEF ResponseMissing, ClientFails
  <2>. QED  BY <2>1, <2>2, <2>3 DEF Client
<1>1. EndsOK'
  BY <1>a, <1>b, <1>d, <1>e DEF EndsOK, Waiting
<1>g. kind = "proxy" /\ Ended => farEnd["next"] = "closed" \/ "next" \in broken \/ "prev" \in broken \/ unreachable
  <2>1. Ended => Cause
    BY <1>a DEF EndsOK
  <2>2. broken \subseteq {"prev", "next"}
    BY <1>a DEF Typed, Conns
  <2>. QED  BY <1>a, <2>1, <2>2 DEF Cause, Conns
<1>2. CASE SendRequest
  <2>1. /\ client = "start" /\ client' \in {"asking", "failed"} /\ UNCHANGED <<line, out>>
        /\ client' = "failed" => ~Delivers("prev")
    BY <1>2 DEF SendRequest, ClientFails
  <2>2. ResponseOK'
    BY <1>a, <1>b, <2>1 DEF ResponseOK, Responded, Waiting
  <2>3. client' = "failed" => unreachable \/ "prev" \in broken
    <3>1. copy["down"] = "off" /\ relayEnd["prev"] # "none"
      BY <1>a, <2>1 DEF PhaseInv, RelayOK, PhaseOK
    <3>2. ~Delivers("prev") => relayEnd["prev"] = "closed" \/ "prev" \in broken
      BY <1>0, <1>a, <3>1 DEF Delivers, Typed
    <3>. QED  BY <1>a, <2>1, <3>1, <3>2 DEF EndsOK
  <2>4. FailureExplained'
    BY <1>b, <2>1, <2>3 DEF FailureExplained
  <2>. QED  BY <1>1, <2>2, <2>4
<1>3. CASE ReadResponse
  <2>. DEFINE q == out["prev"]
              m == Head(q)
  <2>1. /\ client = "asking" /\ q # <<>> /\ out'["prev"] = Tail(q)
    BY <1>0, <1>3, <1>a DEF ReadResponse, TakeMessage, Typed
  <2>2. q \in Seq(Messages) /\ m \in Messages /\ m = q[1]
    BY <1>0, <1>a, <2>1, QueueTypes, HeadTailProperties
  <2>3. \/ client' = "connected"
        \/ client' = "failed" /\ (line # <<>> \/ m # Text("success"))
        \/ client' = "asking" /\ kind = "proxy" /\ m.text = "data"
        \/ client' = "panicked" /\ kind = "proxy" /\ (m.text = "data" \/ line # <<>>)
    BY <1>3, <2>1 DEF ReadResponse, ClientFails, IsResponse, Overflows
  <2>. HIDE DEF m, q
  <2>4. /\ Len(q) \in Nat /\ Len(q) >= 1 /\ Len(Tail(q)) = Len(q) - 1
        /\ \A i \in 1 .. Len(Tail(q)) : Tail(q)[i] = q[i + 1]
    BY <2>1, <2>2, EmptySeq, HeadTailProperties
  <2>5. m.text = "data" => early
    <3>1. m.text = "data" => m # Text("success") /\ m # Text("fail")
      BY MessageFacts
    <3>. QED  BY <1>a, <2>1, <2>2, <3>1 DEF ResponseOK, q
  <2>6. ~early => line = <<>> /\ m \in {Text("success"), Text("fail")}
    BY <1>a, <2>1, <2>2 DEF ResponseOK, q
  <2>7. m = Text("fail") => unreachable
    <3>1. 1 \in 1 .. Len(q)
      BY <2>4
    <3>. QED  BY <1>a, <2>2, <3>1 DEF ResponseOK, q
  <2>8. FailureExplained'
    <3>1. early => kind = "proxy"
      BY <1>a DEF EndsOK
    <3>2. client' = "failed" => unreachable \/ (kind = "proxy" /\ early)
      BY <2>3, <2>6, <2>7, <3>1
    <3>3. client' = "panicked" => kind = "proxy" /\ early
      BY <2>3, <2>5, <2>6
    <3>. QED  BY <1>b, <3>2, <3>3 DEF FailureExplained
  <2>9. \A i \in 1 .. Len(Tail(q)) : Tail(q)[i] = Text("fail") => unreachable
    BY <1>a, <2>4 DEF ResponseOK, q
  <2>10. Waiting' => early
    BY <2>3, <2>5 DEF Waiting
  <2>11. ASSUME Waiting', handler \in {"report", "returned"}, copy["down"] # "off",
                "prev" \notin broken, kind = "onion" \/ relayEnd["prev"] = "open"
         PROVE  Responded'
    <3>1. PICK i \in 1 .. Len(q) : q[i] = Text("success")
      BY <1>a, <2>11 DEF ResponseOK, Responded, q
    <3>2. i # 1
      BY <2>2, <2>3, <2>11, <3>1, MessageFacts DEF Waiting
    <3>3. i - 1 \in 1 .. Len(Tail(q)) /\ Tail(q)[i - 1] = Text("success")
      BY <2>4, <3>1, <3>2
    <3>. QED  BY <2>1, <3>3 DEF Responded
  <2>12. ResponseOK'
    BY <1>b, <2>1, <2>9, <2>10, <2>11 DEF ResponseOK
  <2>. QED  BY <1>1, <2>8, <2>12
<1>4. CASE ResponseMissing
  <2>1. /\ client = "asking" /\ client' = "failed" /\ UNCHANGED <<line, out>> /\ out["prev"] = <<>>
        /\ relayEnd["prev"] = "closed" \/ "prev" \in broken
    BY <1>4 DEF ResponseMissing, ClientFails
  <2>2. ~Responded
    BY <2>1 DEF Responded
  <2>3. FailureExplained'
    <3>1. CASE "prev" \in broken
      BY <1>b, <2>1, <3>1 DEF FailureExplained
    <3>2. CASE "prev" \notin broken /\ copy["down"] = "off"
      BY <1>a, <1>b, <2>1, <3>2 DEF FailureExplained, EndsOK
    <3>3. CASE "prev" \notin broken /\ copy["down"] # "off" /\ kind = "onion"
      <4>1. handler \in {"report", "returned"}
        BY <1>a, <3>3 DEF PhaseInv, RelayOK, Typed
      <4>. QED  BY <1>a, <2>2, <3>3, <4>1 DEF ResponseOK
    <3>4. CASE "prev" \notin broken /\ kind = "proxy"
      <4>1. Ended
        BY <2>1, <3>4 DEF Ended
      <4>2. farEnd["next"] = "closed" \/ "next" \in broken \/ unreachable
        BY <1>g, <3>4, <4>1
      <4>. QED  BY <1>0, <1>b, <1>c, <2>1, <3>4, <4>2 DEF FailureExplained
    <3>. QED  BY <1>a, <3>1, <3>2, <3>3, <3>4 DEF Typed
  <2>4. ResponseOK'
    BY <1>a, <1>b, <2>1 DEF ResponseOK, Waiting
  <2>. QED  BY <1>1, <2>3, <2>4
<1>. QED  BY <1>2, <1>3, <1>4 DEF Client

(* A handler that refuses has a cause, and tells the client of failure     *)
(* only if the target cannot be reached.                                   *)
LEMMA RefuseExplained ==
  ASSUME ExplainInv, RequestFails \/ DialFails
  PROVE  EndsOK' /\ ResponseOK'
<1>0. "prev" \in Conns /\ "next" \in Conns /\ "up" \in Directions /\ "down" \in Directions
  BY DEF Conns, Directions
<1>t. Text("fail") # Text("success")
  BY MessageFacts
<1>1. /\ PhaseInv /\ Typed /\ EndsOK /\ ResponseOK
      /\ Waiting => farEnd["prev"] = "open"
  BY DEF ExplainInv, PhaseInv, PhaseOK
<1>2. /\ Refuse /\ handler \in {"request", "dial"} /\ handler' \in {"report", "returned"}
      /\ UNCHANGED <<kind, client, line, copy, farEnd, broken>>
  BY DEF RequestFails, DialFails
<1>3. /\ copy["up"] = "off" /\ copy["down"] = "off" /\ relayEnd["prev"] = "open"
      /\ relayEnd["next"] = "none"
  BY <1>1, <1>2 DEF PhaseInv, RelayOK
<1>4. /\ out' \in [Conns -> Seq(Messages)]
      /\ ~Delivers("prev") => out'["prev"] = out["prev"]
      /\ \A i \in 1 .. Len(out'["prev"]) :
           IF i \in 1 .. Len(out["prev"]) THEN out'["prev"][i] = out["prev"][i]
                                          ELSE out'["prev"][i] = Text("fail")
      /\ relayEnd' = [relayEnd EXCEPT !["prev"] = "closed"]
  BY <1>1, <1>2, RefuseEffect
<1>5. /\ unreachable' \/ (unreachable' = unreachable /\ ~Delivers("prev")
                           /\ (farEnd["prev"] = "closed" \/ "prev" \in broken))
  <2>1. CASE DialFails
    BY <2>1 DEF DialFails
  <2>2. CASE RequestFails
    BY <1>3, <2>2 DEF RequestFails, AtEof, ReadFails, Delivers, history
  <2>. QED  BY <2>1, <2>2
<1>6. Cause'
  BY <1>0, <1>2, <1>5 DEF Cause
<1>7. early' = early
  BY DEF RequestFails, DialFails, history
<1>8. EndsOK'
  BY <1>1, <1>2, <1>5, <1>6, <1>7 DEF EndsOK, Waiting
<1>9. \A i \in 1 .. Len(out'["prev"]) : out'["prev"][i] = Text("fail") => unreachable'
  BY <1>1, <1>4, <1>5 DEF ResponseOK
<1>10. out'["prev"] # <<>> =>
         \/ out'["prev"][1] = Text("fail")
         \/ out["prev"] # <<>> /\ out'["prev"][1] = out["prev"][1]
  <2>1. out'["prev"] \in Seq(Messages) /\ out["prev"] \in Seq(Messages)
    BY <1>0, <1>1, <1>4 DEF Typed
  <2>2. out'["prev"] # <<>> => 1 \in 1 .. Len(out'["prev"])
    BY <2>1, EmptySeq
  <2>3. 1 \in 1 .. Len(out["prev"]) => out["prev"] # <<>>
    BY <2>1, EmptySeq
  <2>. QED  BY <1>4, <2>2, <2>3
<1>11. ResponseOK'
  BY <1>1, <1>2, <1>3, <1>7, <1>9, <1>10 DEF ResponseOK, Waiting
<1>. QED  BY <1>8, <1>11

(* The handler responds first, if the goroutines do not.                   *)
LEMMA RespondExplained ==
  ASSUME ExplainInv, Respond \/ RespondFails
  PROVE  EndsOK' /\ ResponseOK'
<1>0. "prev" \in Conns /\ "next" \in Conns /\ "up" \in Directions /\ "down" \in Directions
  BY DEF Conns, Directions
<1>t. Text("fail") # Text("success")
  BY MessageFacts
<1>1. /\ PhaseInv /\ Typed /\ EndsOK /\ ResponseOK
      /\ Waiting => farEnd["prev"] = "open"
      /\ relayEnd["prev"] # "none" /\ farEnd["prev"] # "none"
  BY DEF ExplainInv, PhaseInv, PhaseOK, RelayOK
<1>2. /\ handler = "respond"
      /\ UNCHANGED <<kind, client, line, farEnd, broken, unreachable, early>>
  BY DEF Respond, RespondFails, ends, history
<1>3. kind = "onion" <=> copy["down"] = "off"
  BY <1>1, <1>2 DEF PhaseInv, RelayOK
<1>4. CASE Respond
  <2>1. /\ relayEnd["prev"] = "open" /\ Put("prev", <<Text("success")>>) /\ relayEnd' = relayEnd
        /\ IF kind = "onion" THEN copy' = [d \in Directions |-> "read"] ELSE copy' = copy
    BY <1>4 DEF Respond, WriteOk, StartCopying, ends
  <2>2. out'["prev"] = IF Delivers("prev") THEN Append(out["prev"], Text("success")) ELSE out["prev"]
    BY <1>0, <1>1, <2>1, PutOne, MessageFacts
  <2>3. Ended' => Ended
    BY <1>0, <2>1 DEF Ended
  <2>4. EndsOK'
    BY <1>0, <1>1, <1>2, <1>3, <2>1, <2>3 DEF EndsOK, Waiting, Cause
  <2>. DEFINE q == out["prev"]
              a == Append(q, Text("success"))
  <2>5. q \in Seq(Messages) /\ Len(q) \in Nat /\ (q # <<>> => Len(q) >= 1) /\ (q = <<>> => Len(q) = 0)
    BY <1>0, <1>1, QueueTypes, EmptySeq
  <2>6. /\ Len(a) = Len(q) + 1 /\ \A i \in 1 .. Len(q) : a[i] = q[i]
        /\ a[Len(q) + 1] = Text("success")
    BY <2>5, AppendProperties, MessageFacts
  <2>7. out'["prev"] = IF Delivers("prev") THEN a ELSE q
    BY <2>2
  <2>8. /\ \A i \in 1 .. Len(q) : q[i] = Text("fail") => unreachable
        /\ Waiting /\ ~early => line = <<>> /\ (q # <<>> => q[1] \in {Text("success"), Text("fail")})
    BY <1>1 DEF ResponseOK
  <2>. HIDE DEF q, a
  <2>9. \A i \in 1 .. Len(a) : a[i] = Text("fail") => unreachable
    BY <1>t, <2>5, <2>6, <2>8
  <2>10. Waiting /\ ~early => a[1] \in {Text("success"), Text("fail")}
    <3>1. CASE q = <<>>
      BY <2>5, <2>6, <3>1
    <3>2. CASE q # <<>>
      BY <2>5, <2>6, <2>8, <3>2
    <3>. QED  BY <3>1, <3>2
  <2>11. Waiting /\ "prev" \notin broken => Responded'
    <3>1. ASSUME Waiting, "prev" \notin broken PROVE Delivers("prev")
      BY <1>1, <2>1, <3>1 DEF Delivers
    <3>2. Len(q) + 1 \in 1 .. Len(a)
      BY <2>5, <2>6
    <3>. QED  BY <2>6, <2>7, <3>1, <3>2 DEF Responded
  <2>12. ResponseOK'
    <3>1. \A i \in 1 .. Len(out'["prev"]) : out'["prev"][i] = Text("fail") => unreachable
      BY <2>7, <2>8, <2>9
    <3>2. Waiting /\ ~early => line = <<>> /\ (out'["prev"] # <<>> => out'["prev"][1] \in {Text("success"), Text("fail")})
      BY <2>7, <2>8, <2>10
    <3>. QED  BY <1>2, <2>11, <3>1, <3>2 DEF ResponseOK, Waiting
  <2>. QED  BY <2>4, <2>12
<1>5. CASE RespondFails
  <2>1. /\ ~Delivers("prev") /\ UNCHANGED <<copy, out>> /\ handler' = "report"
        /\ IF kind = "onion" THEN relayEnd' = [relayEnd EXCEPT !["prev"] = "closed"] ELSE relayEnd' = relayEnd
    BY <1>5 DEF RespondFails, WriteFails, CloseRelayEnd
  <2>2. /\ kind = "onion" => relayEnd'["prev"] = "closed" /\ relayEnd'["next"] = relayEnd["next"]
    BY <1>0, <1>1, <2>1 DEF Typed
  <2>3. relayEnd["prev"] = "closed" \/ farEnd["prev"] = "closed" \/ "prev" \in broken
    BY <1>0, <1>1, <2>1 DEF Delivers, Typed
  <2>4. kind = "onion" => relayEnd["prev"] = "open"
    BY <1>1, <1>2, <1>3 DEF PhaseInv, RelayOK
  <2>5. Ended' => Cause'
    <3>1. CASE kind = "onion"
      BY <1>0, <1>2, <2>3, <2>4, <3>1 DEF Cause
    <3>2. CASE kind # "onion"
      BY <1>1, <1>2, <2>1, <3>2 DEF Cause, Ended, EndsOK
    <3>. QED  BY <3>1, <3>2
  <2>6. Waiting => relayEnd["prev"] = "closed" \/ "prev" \in broken
    BY <1>1, <2>3
  <2>7. EndsOK'
    BY <1>1, <1>2, <1>3, <2>1, <2>4, <2>5, <2>6 DEF EndsOK, Waiting
  <2>8. ResponseOK'
    BY <1>1, <1>2, <1>3, <2>1, <2>6 DEF ResponseOK, Waiting
  <2>. QED  BY <2>7, <2>8
<1>. QED  BY <1>4, <1>5

(* The handler ends a connection for a cause.                              *)
LEMMA HandlerExplained ==
  ASSUME ExplainInv, Handler
  PROVE  EndsOK' /\ ResponseOK' /\ FailureExplained'
<1>0. "prev" \in Conns /\ "next" \in Conns /\ "up" \in Directions /\ "down" \in Directions
  BY DEF Conns, Directions
<1>1. PhaseInv /\ Typed /\ EndsOK /\ ResponseOK /\ Next
  BY DEF ExplainInv, PhaseInv, Next
<1>2. client' = client
  BY DEF Handler, ReadRequest, RequestFails, DialFails, Dialled, Respond, RespondFails,
         ReportHandler
<1>3. FailureExplained'
  BY <1>1, <1>2, FailureStays
<1>4. CASE ReadRequest \/ ReportHandler
  <2>1. /\ UNCHANGED <<kind, line, copy, out, relayEnd, farEnd, broken, unreachable, early>>
        /\ handler' = "dial" \/ (handler = "report" /\ handler' = "returned")
    BY <1>4 DEF ReadRequest, ReportHandler, ends, history
  <2>2. EndsOK'
    BY <1>1, <1>2, <2>1 DEF EndsOK, Ended, Cause, Waiting
  <2>3. ResponseOK'
    BY <1>1, <1>2, <2>1 DEF ResponseOK, Responded, Waiting
  <2>. QED  BY <1>3, <2>2, <2>3
<1>5. CASE Dialled
  <2>1. /\ UNCHANGED <<kind, line, out, broken, unreachable, early>>
        /\ handler = "dial" /\ handler' = "respond"
        /\ relayEnd' = [relayEnd EXCEPT !["next"] = "open"]
        /\ copy' = copy \/ copy' = [d \in Directions |-> "read"]
    BY <1>5 DEF Dialled, StartCopying, history
  <2>2. copy["down"] = "off" /\ relayEnd'["prev"] = relayEnd["prev"] /\ relayEnd'["next"] = "open"
    BY <1>0, <1>1, <2>1 DEF PhaseInv, RelayOK, Typed
  <2>3. Ended' => Ended
    BY <2>1, <2>2 DEF Ended
  <2>4. Cause => Cause'
    BY <1>1, <2>1, CauseStays DEF Cause
  <2>5. EndsOK'
    BY <1>1, <1>2, <2>1, <2>2, <2>3, <2>4 DEF EndsOK, Waiting
  <2>6. ResponseOK'
    BY <1>1, <1>2, <2>1 DEF ResponseOK, Waiting
  <2>. QED  BY <1>3, <2>5, <2>6
<1>. QED  BY <1>3, <1>4, <1>5, RefuseExplained, RespondExplained DEF Handler

(* The goroutines end for a cause, and add data to what the client reads.  *)
LEMMA CopyExplained ==
  ASSUME ExplainInv, NEW d \in Directions, Copy(d)
  PROVE  EndsOK' /\ ResponseOK' /\ FailureExplained'
<1>0. /\ "prev" \in Conns /\ "next" \in Conns /\ "up" \in Directions /\ "down" \in Directions
      /\ \/ d = "up" /\ Src[d] = "prev" /\ Dst[d] = "next"
         \/ d = "down" /\ Src[d] = "next" /\ Dst[d] = "prev"
  BY DEF Conns, Directions, Src, Dst
<1>1. PhaseInv /\ Typed /\ EndsOK /\ ResponseOK /\ Next
  BY DEF ExplainInv, PhaseInv, Next
<1>2. /\ UNCHANGED <<kind, client, line, handler, farEnd, broken, unreachable>>
      /\ \E p \in {"read", "write", "report", "close", "done"} : copy' = [copy EXCEPT ![d] = p]
      /\ copy[d] \in {"read", "write", "report", "close"}
  <2>1. UNCHANGED <<kind, client, line, handler, farEnd, broken, unreachable>>
    BY DEF Copy, CopyRead, CopyEof, CopyWrite, CopyFails, CopyReports, CopyCloses, ends, history
  <2>. QED
    BY <2>1 DEF Copy, CopyRead, CopyEof, CopyWrite, CopyFails, CopyReports, CopyCloses, CopyMoves
<1>3. FailureExplained'
  BY <1>1, <1>2, FailureStays
<1>4. Cause' = Cause
  BY <1>2 DEF Cause
<1>5. /\ copy["down"] # "off" /\ copy'["down"] # "off"
      /\ relayEnd["prev"] # "none" /\ relayEnd["next"] # "none"
      /\ farEnd["prev"] # "none" /\ farEnd["next"] # "none"
      /\ handler \in {"respond", "report", "returned"}
      /\ handler = "respond" => kind = "proxy"
      /\ Waiting => farEnd["prev"] = "open"
  BY <1>0, <1>1, <1>2 DEF PhaseInv, Typed, RelayOK, PhaseOK
<1>6. \A c \in Conns : ReadFails(c) \/ WriteFails(c) \/ AtEof(c) => Cause
  <2>1. SUFFICES ASSUME NEW c \in Conns, ReadFails(c) \/ WriteFails(c) \/ AtEof(c) PROVE Cause
    OBVIOUS
  <2>2. relayEnd[c] = "closed" \/ farEnd[c] = "closed" \/ c \in broken
    BY <1>1, <1>5, <2>1 DEF ReadFails, WriteFails, AtEof, Delivers, Typed, Conns
  <2>3. relayEnd[c] = "closed" => Ended
    BY DEF Ended, Conns
  <2>. QED  BY <1>1, <2>2, <2>3 DEF EndsOK, Cause
<1>7. CASE CopyWrite(d)
  <2>1. /\ copy[d] = "write" /\ copy' = [copy EXCEPT ![d] = "read"]
        /\ relayEnd[Dst[d]] = "open" /\ Put(Dst[d], <<held[d]>>) /\ relayEnd' = relayEnd
    BY <1>7 DEF CopyWrite, CopyMoves, WriteOk, ends
  <2>2. early' <=> early \/ (d = "down" /\ handler = "respond")
    BY <1>7, Zenon DEF CopyWrite
  <2>3. held[d] \in Messages /\ Dst[d] \in Conns
    BY <1>0, <1>1 DEF Typed
  <2>4. /\ out'[Dst[d]] = IF Delivers(Dst[d]) THEN Append(out[Dst[d]], held[d]) ELSE out[Dst[d]]
        /\ \A o \in Conns \ {Dst[d]} : out'[o] = out[o]
    BY <1>1, <2>1, <2>3, PutOne
  <2>5. Ended' => Ended
    BY <1>1, <2>1 DEF Ended, Typed
  <2>6. EndsOK'
    BY <1>1, <1>2, <1>4, <1>5, <2>2, <2>5 DEF EndsOK
  <2>7. CASE out'["prev"] = out["prev"]
    BY <1>1, <1>2, <1>3, <1>5, <2>1, <2>2, <2>6, <2>7 DEF ResponseOK, Responded, Waiting
  <2>8. CASE d = "down" /\ Delivers("prev") /\ out'["prev"] = Append(out["prev"], held[d])
    <3>. DEFINE q == out["prev"]
                a == Append(q, held[d])
    <3>1. q \in Seq(Messages) /\ Len(q) \in Nat /\ (q # <<>> => Len(q) >= 1)
      BY <1>0, <1>1, QueueTypes, EmptySeq
    <3>2. /\ Len(a) = Len(q) + 1 /\ \A i \in 1 .. Len(q) : a[i] = q[i]
          /\ a[Len(q) + 1] = held[d]
      BY <2>3, <3>1, AppendProperties
    <3>3. held[d] # Text("fail")
      BY <1>1, <2>1, <2>8, MessageFacts DEF PhaseInv, QueuesOK
    <3>4. /\ \A i \in 1 .. Len(q) : q[i] = Text("fail") => unreachable
          /\ Waiting /\ ~early => line = <<>> /\ (q # <<>> => q[1] \in {Text("success"), Text("fail")})
      BY <1>1 DEF ResponseOK
    <3>5. ASSUME Waiting, handler # "respond"
          PROVE  \E i \in 1 .. Len(q) : q[i] = Text("success")
      <4>1. "prev" \notin broken /\ relayEnd["prev"] = "open"
        BY <2>8 DEF Delivers
      <4>. QED  BY <1>1, <1>5, <3>5, <4>1 DEF ResponseOK, Responded
    <3>6. out'["prev"] = a
      BY <2>8
    <3>. HIDE DEF q, a
    <3>7. \A i \in 1 .. Len(a) : a[i] = Text("fail") => unreachable
      BY <3>1, <3>2, <3>3, <3>4
    <3>8. Waiting /\ ~early' => line = <<>> /\ a[1] \in {Text("success"), Text("fail")}
      <4>1. ASSUME Waiting, ~early' PROVE line = <<>> /\ a[1] \in {Text("success"), Text("fail")}
        <5>1. ~early /\ handler # "respond"
          BY <2>2, <2>8, <4>1
        <5>2. Len(q) >= 1
          BY <3>1, <3>5, <4>1, <5>1
        <5>3. q # <<>> /\ a[1] = q[1]
          BY <3>1, <3>2, <5>2, EmptySeq
        <5>. QED  BY <3>4, <4>1, <5>1, <5>3
      <4>. QED  BY <4>1
    <3>9. Waiting /\ handler \in {"report", "returned"} => \E i \in 1 .. Len(a) : a[i] = Text("success")
      BY <3>1, <3>2, <3>5
    <3>10. ResponseOK'
      BY <1>2, <3>6, <3>7, <3>8, <3>9 DEF ResponseOK, Responded, Waiting
    <3>. QED  BY <1>3, <2>6, <3>10
  <2>. QED  BY <1>0, <2>4, <2>7, <2>8
<1>8. CASE ~CopyWrite(d)
  <2>1. UNCHANGED <<out, early>>
    BY <1>8 DEF Copy, CopyRead, CopyEof, CopyFails, CopyReports, CopyCloses, history
  <2>2. \/ relayEnd' = relayEnd
        \/ copy[d] = "close" /\ relayEnd' = [relayEnd EXCEPT ![Dst[d]] = "closed"]
    BY <1>8 DEF Copy, CopyRead, CopyEof, CopyFails, CopyReports, CopyCloses, CopyMoves,
                CloseRelayEnd, ends
  <2>3. relayEnd'["prev"] = "open" => relayEnd["prev"] = "open"
    BY <1>0, <1>1, <2>2 DEF Typed
  <2>4. Ended' => Cause
    <3>1. CASE CopyRead(d)
      <4>1. copy' = [copy EXCEPT ![d] = "write"] /\ relayEnd' = relayEnd
        BY <3>1 DEF CopyRead, CopyMoves, ends
      <4>2. Ended' => Ended
        BY <1>1, <4>1 DEF Ended, Typed
      <4>. QED  BY <1>1, <4>2 DEF EndsOK
    <3>2. CASE CopyEof(d) \/ CopyFails(d)
      BY <1>0, <1>6, <3>2 DEF CopyEof, CopyFails
    <3>3. CASE CopyReports(d) \/ CopyCloses(d)
      <4>1. copy[d] \in {"report", "close"}
        BY <3>3 DEF CopyReports, CopyCloses, CopyMoves
      <4>. QED  BY <1>1, <4>1 DEF Ended, EndsOK
    <3>. QED  BY <1>8, <3>1, <3>2, <3>3 DEF Copy
  <2>5. EndsOK'
    BY <1>1, <1>2, <1>4, <1>5, <2>1, <2>4 DEF EndsOK
  <2>6. ResponseOK'
    BY <1>1, <1>2, <1>5, <2>1, <2>3 DEF ResponseOK, Responded, Waiting
  <2>. QED  BY <1>3, <2>5, <2>6
<1>. QED  BY <1>7, <1>8

(* The network and the applications give causes, and no response.          *)
LEMMA FarExplained ==
  ASSUME ExplainInv,
         NEW c \in Conns, Break(c) \/ AppSends(c) \/ AppReceives(c) \/ AppCloses(c)
  PROVE  EndsOK' /\ ResponseOK' /\ FailureExplained'
<1>0. "prev" \in Conns /\ "next" \in Conns
  BY DEF Conns
<1>1. PhaseInv /\ Typed /\ EndsOK /\ ResponseOK /\ Next
  BY DEF ExplainInv, PhaseInv, Next
<1>2. UNCHANGED <<kind, client, line, handler, copy, relayEnd, unreachable, early>>
  BY DEF Break, AppSends, AppReceives, AppCloses, service, history, ends
<1>3. FailureExplained'
  BY <1>1, <1>2, FailureStays
<1>4. /\ broken \subseteq broken'
      /\ \A o \in Conns : farEnd[o] = "closed" => farEnd'[o] = "closed"
  BY <1>1, CauseStays
<1>5. Cause => Cause'
  BY <1>2, <1>4 DEF Cause
<1>6. EndsOK'
  BY <1>1, <1>2, <1>4, <1>5 DEF EndsOK, Ended, Waiting
<1>7. CASE out'["prev"] = out["prev"]
  <2>1. ResponseOK'
    BY <1>1, <1>2, <1>4, <1>7 DEF ResponseOK, Responded, Waiting
  <2>. QED  BY <1>3, <1>6, <2>1
<1>8. CASE c = "prev" /\ Break(c)
  <2>1. out'["prev"] = <<>> /\ "prev" \in broken' /\ Len(<<>>) = 0
    BY <1>0, <1>1, <1>8 DEF Break, Typed
  <2>2. ResponseOK'
    BY <1>1, <1>2, <2>1 DEF ResponseOK, Waiting
  <2>. QED  BY <1>3, <1>6, <2>2
<1>9. CASE c = "prev" /\ AppReceives(c)
  <2>1. client = "connected" /\ out["prev"] # <<>> /\ out'["prev"] = Tail(out["prev"])
    BY <1>0, <1>1, <1>9 DEF AppReceives, InUse, Typed
  <2>2. out["prev"] \in Seq(Messages)
    BY <1>0, <1>1, QueueTypes
  <2>3. /\ Len(out["prev"]) \in Nat \ {0} /\ Len(Tail(out["prev"])) = Len(out["prev"]) - 1
        /\ \A i \in 1 .. Len(Tail(out["prev"])) : Tail(out["prev"])[i] = out["prev"][i + 1]
    BY <2>1, <2>2, HeadTailProperties, EmptySeq
  <2>4. \A i \in 1 .. Len(out'["prev"]) : out'["prev"][i] = Text("fail") => unreachable
    BY <1>1, <2>1, <2>3 DEF ResponseOK
  <2>5. ResponseOK'
    BY <1>2, <2>1, <2>4 DEF ResponseOK, Waiting
  <2>. QED  BY <1>3, <1>6, <2>5
<1>10. out'["prev"] = out["prev"] \/ (c = "prev" /\ (Break(c) \/ AppReceives(c)))
  <2>1. CASE Break(c) \/ AppReceives(c)
    <3>1. c # "prev" => out'["prev"] = out["prev"]
      BY <1>0, <1>1, <2>1 DEF Break, AppReceives, Typed
    <3>. QED  BY <2>1, <3>1
  <2>2. CASE AppSends(c) \/ AppCloses(c)
    BY <2>2 DEF AppSends, AppCloses
  <2>. QED  BY <2>1, <2>2
<1>. QED  BY <1>7, <1>8, <1>9, <1>10

(* A client connects by the response of the relay or by early data.        *)
LEMMA ConnectedStep ==
  ASSUME ExplainInv, [Next]_vars
  PROVE  ConnectedOK'
<1>1. PhaseInv /\ Typed /\ EndsOK /\ ResponseOK /\ ConnectedOK
  BY DEF ExplainInv, PhaseInv
<1>2. early => early'
  BY <1>1, CauseStays
<1>. USE DEF service, history, ends
<1>3. CASE ReadResponse
  <2>1. client = "asking" /\ UNCHANGED <<handler, early>>
    BY <1>3 DEF ReadResponse
  <2>2. client' = "connected" =>
          \/ out["prev"][1] = Text("success")
          \/ out["prev"][1].text = "data"
    <3>1. out["prev"] # <<>> /\ out["prev"] \in Seq(Messages)
      BY <1>1, <1>3, QueueTypes DEF ReadResponse, Conns
    <3>2. Head(out["prev"]) = out["prev"][1]
      BY <3>1, HeadTailProperties
    <3>. QED  BY <1>3, <2>1, <3>2 DEF ReadResponse, ClientFails, IsSuccess, IsResponse
  <2>3. out["prev"] # <<>> /\ 1 \in 1 .. Len(out["prev"])
    BY <1>1, <1>3, QueueTypes, EmptySeq DEF ReadResponse, Conns
  <2>4. out["prev"][1] = Text("success") => handler = "returned"
    BY <1>1, <2>3 DEF PhaseInv, QueuesOK
  <2>5. out["prev"][1].text = "data" => early
    <3>1. ~early => out["prev"][1] \in {Text("success"), Text("fail")}
      BY <1>1, <2>1, <2>3 DEF ResponseOK, Waiting
    <3>. QED  BY <3>1, MessageFacts
  <2>. QED  BY <2>1, <2>2, <2>4, <2>5 DEF ConnectedOK
<1>4. CASE SendRequest \/ ResponseMissing
  <2>1. client' # "connected"
    BY <1>4 DEF SendRequest, ResponseMissing, ClientFails
  <2>. QED  BY <2>1 DEF ConnectedOK
<1>5. CASE Handler
  <2>1. client' = client /\ handler # "returned"
    BY <1>5 DEF Handler, ReadRequest, RequestFails, DialFails, Dialled, Respond, RespondFails,
                ReportHandler
  <2>. QED  BY <1>1, <1>2, <2>1 DEF ConnectedOK
<1>6. ASSUME NEW d \in Directions, Copy(d) PROVE ConnectedOK'
  <2>1. UNCHANGED <<client, handler>>
    BY <1>6 DEF Copy, CopyRead, CopyEof, CopyWrite, CopyFails, CopyReports, CopyCloses
  <2>. QED  BY <1>1, <1>2, <2>1 DEF ConnectedOK
<1>7. ASSUME NEW c \in Conns, Break(c) \/ AppSends(c) \/ AppReceives(c) \/ AppCloses(c)
      PROVE  ConnectedOK'
  <2>1. UNCHANGED <<client, handler>>
    BY <1>7 DEF Break, AppSends, AppReceives, AppCloses
  <2>. QED  BY <1>1, <1>2, <2>1 DEF ConnectedOK
<1>8. CASE UNCHANGED vars
  BY <1>1, <1>8 DEF ConnectedOK, vars
<1>. QED  BY <1>3, <1>4, <1>5, <1>6, <1>7, <1>8 DEF Next, Client

(* No client has failed at the start.                                      *)
LEMMA ExplainInit == Init => ExplainInv
<1>. SUFFICES ASSUME Init PROVE ExplainInv
  OBVIOUS
<1>1. PhaseInv
  BY PhaseInit
<1>2. /\ client = "start" /\ line = <<>> /\ handler = "request" /\ early = FALSE
      /\ out["prev"] = <<>> /\ Len(<<>>) = 0
      /\ relayEnd["prev"] = "open" /\ relayEnd["next"] = "none"
      /\ \A d \in Directions : copy[d] = "off"
  BY DEF Init, Conns
<1>3. ~Ended
  BY <1>2 DEF Ended
<1>. QED
  BY <1>1, <1>2, <1>3 DEF ExplainInv, EndsOK, ResponseOK, ConnectedOK, FailureExplained

(* Every step keeps failures explained.                                    *)
LEMMA ExplainStep == ExplainInv /\ [Next]_vars => ExplainInv'
<1>. SUFFICES ASSUME ExplainInv, [Next]_vars PROVE ExplainInv'
  OBVIOUS
<1>1. PhaseInv' /\ ConnectedOK'
  BY PhaseStep, ConnectedStep DEF ExplainInv
<1>2. CASE UNCHANGED vars
  <2>1. UNCHANGED <<kind, client, line, handler, copy, out, relayEnd, farEnd, broken, unreachable, early>>
    BY <1>2 DEF vars, service, ends, history
  <2>2. FailureExplained'
    BY <2>1, FailureStays
  <2>3. EndsOK'
    BY <2>1 DEF ExplainInv, EndsOK, Ended, Cause, Waiting
  <2>4. ResponseOK'
    BY <2>1 DEF ExplainInv, ResponseOK, Responded, Waiting
  <2>. QED  BY <1>1, <2>2, <2>3, <2>4 DEF ExplainInv
<1>. QED
  BY <1>1, <1>2, ClientExplained, HandlerExplained, CopyExplained, FarExplained
     DEF Next, ExplainInv

(* FailureExplained: an onion client fails only if the target cannot be    *)
(* reached or its own connection breaks; a proxy client also if the target *)
(* speaks before the response or leaves, and it panics only in the former  *)
(* case.                                                                   *)
THEOREM FailureHasCause == Spec => []FailureExplained
<1>1. ExplainInv => FailureExplained
  BY DEF ExplainInv
<1>. QED  BY <1>1, ExplainInit, ExplainStep, PTL DEF Spec

(***************************************************************************)
(* The stream of one direction: what has been received, what is on its way *)
(* from the relay, what the relay holds and what is on its way to it are   *)
(* consecutive pieces of what was sent.                                    *)
(***************************************************************************)
Run(q, b) == \A i \in 1 .. Len(q) : q[i] = Data(b + i)

(* After g messages received come p, m if k = 1, and q, of n sent.         *)
Flow(g, p, k, m, q, n) ==
  /\ Run(p, g) /\ (k = 1 => m = Data(g + Len(p) + 1)) /\ Run(q, g + Len(p) + k)
  /\ g + Len(p) + k + Len(q) <= n

(* A run loses its first message.                                          *)
LEMMA RunTail ==
  ASSUME NEW q \in Seq(Messages), q # <<>>, NEW b \in Nat, Run(q, b)
  PROVE  /\ Head(q) = Data(b + 1) /\ Run(Tail(q), b + 1)
         /\ Tail(q) \in Seq(Messages) /\ Len(q) \in Nat /\ Len(Tail(q)) \in Nat
         /\ Len(q) = Len(Tail(q)) + 1
<1>. DEFINE t == Tail(q)
<1>1. Len(q) \in Nat \ {0} /\ Head(q) = q[1]
  BY EmptySeq
<1>2. t \in Seq(Messages) /\ Len(t) = Len(q) - 1 /\ \A i \in 1 .. Len(t) : t[i] = q[i + 1]
  BY HeadTailProperties
<1>. HIDE DEF t
<1>3. Head(q) = Data(b + 1)
  BY <1>1 DEF Run
<1>4. ASSUME NEW i \in 1 .. Len(t) PROVE t[i] = Data(b + 1 + i)
  <2>1. i + 1 \in 1 .. Len(q) /\ b + 1 + i = b + (i + 1)
    BY <1>1, <1>2
  <2>. QED  BY <1>2, <2>1 DEF Run
<1>5. Run(t, b + 1)
  BY <1>4 DEF Run
<1>. QED  BY <1>1, <1>2, <1>3, <1>5 DEF t

(* A run gains a message.                                                  *)
LEMMA RunAppend ==
  ASSUME NEW q \in Seq(Messages), NEW b \in Nat, Run(q, b), NEW m \in Messages,
         m = Data(b + Len(q) + 1)
  PROVE  /\ Run(Append(q, m), b) /\ Append(q, m) \in Seq(Messages)
         /\ Len(q) \in Nat /\ Len(Append(q, m)) = Len(q) + 1
<1>. DEFINE a == Append(q, m)
<1>1. Len(q) \in Nat
  BY LenProperties
<1>2. /\ a \in Seq(Messages) /\ Len(a) = Len(q) + 1
      /\ \A i \in 1 .. Len(q) : a[i] = q[i]
      /\ a[Len(q) + 1] = m
  BY AppendProperties
<1>. HIDE DEF a
<1>3. ASSUME NEW i \in 1 .. Len(a) PROVE a[i] = Data(b + i)
  <2>1. CASE i \in 1 .. Len(q)
    BY <1>2, <2>1 DEF Run
  <2>2. CASE i = Len(q) + 1
    <3>1. b + i = b + Len(q) + 1
      BY <1>1, <2>2
    <3>. QED  BY <1>2, <2>2, <3>1
  <2>. QED  BY <1>1, <1>2, <2>1, <2>2
<1>4. Run(a, b)
  BY <1>3 DEF Run
<1>. QED  BY <1>1, <1>2, <1>4 DEF a

(* CopyRead: the relay takes the first of the messages that have come.     *)
LEMMA FlowRead ==
  ASSUME NEW g \in Nat, NEW p \in Seq(Messages), NEW q \in Seq(Messages), q # <<>>,
         NEW n \in Nat, NEW m, Flow(g, p, 0, m, q, n)
  PROVE  /\ Flow(g, p, 1, Head(q), Tail(q), n)
         /\ g + Len(p) + 1 + Len(Tail(q)) = g + Len(p) + 0 + Len(q)
<1>1. Len(p) \in Nat /\ g + Len(p) \in Nat /\ g + Len(p) + 0 = g + Len(p)
  BY LenProperties
<1>2. Run(p, g) /\ Run(q, g + Len(p)) /\ g + Len(p) + 0 + Len(q) <= n
  BY <1>1 DEF Flow
<1>3. /\ Head(q) = Data(g + Len(p) + 1) /\ Run(Tail(q), g + Len(p) + 1)
      /\ Len(q) \in Nat /\ Len(Tail(q)) \in Nat /\ Len(q) = Len(Tail(q)) + 1
  BY <1>1, <1>2, RunTail
<1>4. g + Len(p) + 1 + Len(Tail(q)) = g + Len(p) + 0 + Len(q)
  BY <1>1, <1>3
<1>. QED  BY <1>2, <1>3, <1>4 DEF Flow

(* CopyWrite: the relay adds the message it holds to what is on its way.   *)
LEMMA FlowWrite ==
  ASSUME NEW g \in Nat, NEW p \in Seq(Messages), NEW q \in Seq(Messages),
         NEW n \in Nat, NEW m \in Messages, Flow(g, p, 1, m, q, n)
  PROVE  /\ Flow(g, Append(p, m), 0, m, q, n)
         /\ g + Len(Append(p, m)) <= n
         /\ g + Len(Append(p, m)) + 0 + Len(q) = g + Len(p) + 1 + Len(q)
<1>1. Len(p) \in Nat /\ Len(q) \in Nat
  BY LenProperties
<1>2. /\ Run(p, g) /\ m = Data(g + Len(p) + 1) /\ Run(q, g + Len(p) + 1)
      /\ g + Len(p) + 1 + Len(q) <= n
  BY DEF Flow
<1>3. Run(Append(p, m), g) /\ Len(Append(p, m)) = Len(p) + 1
  BY <1>2, RunAppend
<1>4. /\ g + Len(Append(p, m)) + 0 = g + Len(p) + 1
      /\ g + Len(Append(p, m)) <= n
      /\ g + Len(Append(p, m)) + 0 + Len(q) = g + Len(p) + 1 + Len(q)
  BY <1>1, <1>2, <1>3
<1>. QED  BY <1>2, <1>3, <1>4 DEF Flow

(* AppSends: one more message is sent, and comes after all the others.     *)
LEMMA FlowSend ==
  ASSUME NEW g \in Nat, NEW p \in Seq(Messages), NEW q \in Seq(Messages), NEW k \in {0, 1},
         NEW n \in Nat, NEW m, Flow(g, p, k, m, q, n), Data(n + 1) \in Messages
  PROVE  /\ Flow(g, p, k, m, q, n + 1)
         /\ g + Len(p) + k + Len(q) = n =>
              /\ Flow(g, p, k, m, Append(q, Data(n + 1)), n + 1)
              /\ g + Len(p) + k + Len(Append(q, Data(n + 1))) = n + 1
<1>1. Len(p) \in Nat /\ Len(q) \in Nat /\ g + Len(p) + k \in Nat
  BY LenProperties
<1>2. /\ Run(p, g) /\ (k = 1 => m = Data(g + Len(p) + 1)) /\ Run(q, g + Len(p) + k)
      /\ g + Len(p) + k + Len(q) <= n
  BY DEF Flow
<1>3. Flow(g, p, k, m, q, n + 1)
  BY <1>1, <1>2 DEF Flow
<1>4. ASSUME g + Len(p) + k + Len(q) = n
      PROVE  /\ Run(Append(q, Data(n + 1)), g + Len(p) + k)
             /\ Len(Append(q, Data(n + 1))) = Len(q) + 1
  BY <1>1, <1>2, <1>4, RunAppend
<1>. QED  BY <1>1, <1>2, <1>3, <1>4 DEF Flow

(* AppReceives: the first message on its way is received.                  *)
LEMMA FlowReceive ==
  ASSUME NEW g \in Nat, NEW p \in Seq(Messages), p # <<>>, Run(p, g)
  PROVE  /\ Head(p) = Data(g + 1) /\ Run(Tail(p), g + 1)
         /\ g + 1 + Len(Tail(p)) = g + Len(p)
         /\ \A m : \A q \in Seq(Messages), k \in {0, 1}, n \in Nat :
              Flow(g, p, k, m, q, n) => Flow(g + 1, Tail(p), k, m, q, n)
<1>1. /\ Head(p) = Data(g + 1) /\ Run(Tail(p), g + 1)
      /\ Len(p) \in Nat /\ Len(Tail(p)) \in Nat /\ Len(p) = Len(Tail(p)) + 1
  BY RunTail
<1>2. g + 1 + Len(Tail(p)) = g + Len(p)
  BY <1>1
<1>. QED  BY <1>1, <1>2 DEF Flow

(* The data on their way to c can still be received: the client has read   *)
(* nothing yet, or nothing but the response, and will read nothing else as *)
(* the response.                                                           *)
Counted(c) ==
  c = "prev" =>
    /\ ~SpokeFirst
    /\ \/ client = "connected"
       \/ /\ Waiting /\ line = <<>>
          /\ out["prev"] = <<>> \/ out["prev"][1] = Text("success")

(* The data on their way to c: what the client reads after the response.   *)
Pending(c) ==
  IF c = "prev" /\ client # "connected" /\ out[c] # <<>> THEN Tail(out[c]) ELSE out[c]

Intact(c) == farEnd[c] # "closed" /\ c \notin broken

Moving(d) == copy[d] \in {"read", "write"} \/ (d = "down" /\ copy[d] = "off")

InHand(d) == IF copy[d] = "write" THEN 1 ELSE 0

(* What the goroutine of d moves from s to t.                              *)
Stream(d, s, t) ==
  Counted(t) =>
    /\ Run(Pending(t), Len(got[t])) /\ Len(got[t]) + Len(Pending(t)) <= sent[s]
    /\ Intact(t) /\ Moving(d) =>
         /\ Flow(Len(got[t]), Pending(t), InHand(d), held[d], in[s], sent[s])
         /\ Delivers(s) => Len(got[t]) + Len(Pending(t)) + InHand(d) + Len(in[s]) = sent[s]

Received(c) == ~(c = "prev" /\ SpokeFirst) => Run(got[c], 0)

StreamInv ==
  /\ PhaseInv
  /\ \A c \in Conns : Received(c)
  /\ Stream("up", "prev", "next") /\ Stream("down", "next", "prev")

(* What the client still has to read is a sequence of messages.            *)
LEMMA PendingTypes ==
  ASSUME Typed, NEW c \in Conns
  PROVE  Pending(c) \in Seq(Messages) /\ Len(Pending(c)) \in Nat
<1>1. out[c] \in Seq(Messages)
  BY DEF Typed
<1>2. CASE out[c] = <<>>
  BY <1>1, <1>2, LenProperties DEF Pending
<1>3. CASE out[c] # <<>>
  <2>1. Tail(out[c]) \in Seq(Messages)
    BY <1>1, <1>3, HeadTailProperties
  <2>. QED  BY <1>1, <2>1, LenProperties DEF Pending
<1>. QED  BY <1>2, <1>3

(* A step that leaves the stream of d alone, or ends it, keeps Stream.     *)
LEMMA StreamFrame ==
  ASSUME NEW d, NEW s, NEW t, Stream(d, s, t),
         Counted(t)' =>
           /\ Counted(t) /\ Pending(t)' = Pending(t)
           /\ got'[t] = got[t] /\ sent'[s] = sent[s]
           /\ Intact(t)' /\ Moving(d)' =>
                /\ Intact(t) /\ Moving(d) /\ InHand(d)' = InHand(d) /\ held'[d] = held[d]
                /\ in'[s] = in[s] /\ (Delivers(s)' => Delivers(s))
  PROVE  Stream(d, s, t)'
BY DEF Stream, Flow, Run

(* Before the relay copies, nothing is on its way to the target.           *)
LEMMA StreamStarts ==
  ASSUME PhaseInv, copy["up"] = "off", client # "connected", handler # "request",
         copy'["up"] \in {"off", "read"},
         got'["next"] = got["next"], out'["next"] = out["next"],
         in'["prev"] = in["prev"], sent'["prev"] = sent["prev"]
  PROVE  Stream("up", "prev", "next")'
<1>1. /\ got'["next"] = <<>> /\ out'["next"] = <<>> /\ in'["prev"] = <<>> /\ sent'["prev"] = 0
  BY DEF PhaseInv, PhaseOK
<1>2. Pending("next")' = <<>> /\ InHand("up")' = 0
  BY <1>1 DEF Pending, InHand
<1>3. Len(<<>>) = 0 /\ \A b : Run(<<>>, b)
  BY DEF Run
<1>4. Flow(0, <<>>, 0, held'["up"], <<>>, 0)
  BY <1>3 DEF Flow
<1>. QED  BY <1>1, <1>2, <1>3, <1>4 DEF Stream

(* The client reads the response, and data after it.                       *)
LEMMA ClientStream ==
  ASSUME ExplainInv, StreamInv, Client
  PROVE  Stream("up", "prev", "next")' /\ Stream("down", "next", "prev")'
<1>0. "prev" \in Conns /\ "next" \in Conns /\ "up" \in Directions /\ "down" \in Directions
  BY DEF Conns, Directions
<1>1. /\ UNCHANGED <<kind, early, copy, held, relayEnd, broken, sent, got>> /\ Waiting
      /\ farEnd' = farEnd \/ farEnd' = [farEnd EXCEPT !["prev"] = "closed"]
      /\ farEnd["prev"] = "open"
  <2>1. Waiting
    BY DEF Client, SendRequest, ReadResponse, ResponseMissing, Waiting
  <2>2. UNCHANGED <<kind, early, copy, held, relayEnd, broken, sent, got>>
    BY DEF Client, SendRequest, ReadResponse, ResponseMissing, service, history
  <2>3. farEnd' = farEnd \/ farEnd' = [farEnd EXCEPT !["prev"] = "closed"]
    BY DEF Client, SendRequest, ReadResponse, ResponseMissing, ClientFails, CloseFarEnd
  <2>. QED  BY <2>1, <2>2, <2>3 DEF StreamInv, PhaseInv, PhaseOK
<1>2. farEnd'["next"] = farEnd["next"] /\ (Delivers("prev")' => Delivers("prev"))
  BY <1>0, <1>1 DEF StreamInv, PhaseInv, Typed, Delivers
<1>3. /\ Delivers("next")' = Delivers("next") /\ Intact("next")' = Intact("next")
      /\ Moving("up")' = Moving("up") /\ Moving("down")' = Moving("down")
      /\ InHand("up")' = InHand("up") /\ InHand("down")' = InHand("down")
      /\ Intact("prev")' => Intact("prev")
  BY <1>1, <1>2 DEF Delivers, Intact, Moving, InHand
<1>4. in'["next"] = in["next"] /\ out'["next"] = out["next"]
  <2>1. CASE SendRequest
    <3>1. FarSends("prev", Text("request")) \/ in' = in
      BY <2>1 DEF SendRequest
    <3>2. FarSends("prev", Text("request")) => in'["next"] = in["next"]
      BY <1>0, FarSendsEffect, MessageFacts DEF StreamInv, PhaseInv
    <3>. QED  BY <2>1, <3>1, <3>2 DEF SendRequest
  <2>2. CASE ReadResponse
    BY <1>0, <2>2 DEF ReadResponse, TakeMessage, StreamInv, PhaseInv, Typed
  <2>3. CASE ResponseMissing
    BY <2>3 DEF ResponseMissing
  <2>. QED  BY <2>1, <2>2, <2>3 DEF Client
<1>5. in'["prev"] = in["prev"] \/ ~Moving("up")
  <2>1. CASE SendRequest
    BY <2>1 DEF SendRequest, StreamInv, PhaseInv, PhaseOK, Moving
  <2>2. CASE ReadResponse \/ ResponseMissing
    BY <2>2 DEF ReadResponse, ResponseMissing
  <2>. QED  BY <2>1, <2>2 DEF Client
<1>6. Stream("up", "prev", "next")'
  <2>1. Counted("next") /\ Pending("next")' = Pending("next")
    BY <1>4 DEF Counted, Pending
  <2>. QED  BY <1>1, <1>2, <1>3, <1>5, <2>1, StreamFrame DEF StreamInv
<1>7. Counted("prev")' => Counted("prev") /\ Pending("prev")' = Pending("prev")
  <2>0. SpokeFirst' = SpokeFirst
    BY <1>1 DEF SpokeFirst
  <2>1. CASE SendRequest
    <3>1. client = "start" /\ client' \in {"asking", "failed"} /\ UNCHANGED <<line, out>>
      BY <2>1 DEF SendRequest, ClientFails
    <3>. QED  BY <2>0, <3>1 DEF Counted, Pending, Waiting
  <2>2. CASE ReadResponse
    <3>1. out'["prev"] = Tail(out["prev"]) /\ out["prev"] # <<>> /\ client = "asking"
      BY <1>0, <2>2 DEF ReadResponse, TakeMessage, StreamInv, PhaseInv, Typed
    <3>2. Head(out["prev"]) = out["prev"][1]
      BY <3>1, QueueTypes, HeadTailProperties, <1>0 DEF StreamInv, PhaseInv
    <3>3. \/ client' = "connected" /\ line = <<>> /\ Head(out["prev"]) = Text("success")
          \/ client' = "connected" /\ Head(out["prev"]).text = "data"
          \/ client' \in {"failed", "panicked"}
          \/ client' = client /\ line' = Append(line, Head(out["prev"]))
      BY <2>2 DEF ReadResponse, ClientFails, IsSuccess, IsResponse
    <3>5. Head(out["prev"]).text = "data" => SpokeFirst
      <4>1. ~early => Head(out["prev"]) \in {Text("success"), Text("fail")}
        BY <3>1, <3>2 DEF ExplainInv, ResponseOK, Waiting
      <4>2. early => kind = "proxy"
        BY DEF ExplainInv, EndsOK
      <4>. QED  BY <4>1, <4>2, MessageFacts DEF SpokeFirst
    <3>4. Append(line, Head(out["prev"])) # <<>>
      <4>1. out["prev"] \in Seq(Messages) /\ line \in Seq(Messages)
        BY <1>0 DEF StreamInv, PhaseInv, Typed
      <4>2. Head(out["prev"]) \in Messages
        BY <3>1, <4>1, HeadTailProperties
      <4>. QED  BY <4>1, <4>2, AppendProperties
    <3>. QED  BY <2>0, <3>1, <3>2, <3>3, <3>4, <3>5 DEF Counted, Pending, Waiting
  <2>3. CASE ResponseMissing
    BY <2>3 DEF ResponseMissing, ClientFails, Counted, Waiting
  <2>. QED  BY <2>1, <2>2, <2>3 DEF Client
<1>8. Stream("down", "next", "prev")'
  BY <1>1, <1>3, <1>4, <1>7, StreamFrame DEF StreamInv
<1>. QED  BY <1>6, <1>8

(* The handler's response goes before the data, or ends the stream.        *)
LEMMA HandlerStream ==
  ASSUME ExplainInv, StreamInv, Handler
  PROVE  Stream("up", "prev", "next")' /\ Stream("down", "next", "prev")'
<1>0. "prev" \in Conns /\ "next" \in Conns /\ "up" \in Directions /\ "down" \in Directions
  BY DEF Conns, Directions
<1>t. Text("fail") # Text("success")
  BY MessageFacts
<1>a. /\ Typed /\ UNCHANGED <<kind, early, client, line, held, broken, sent, got>>
      /\ SpokeFirst' = SpokeFirst
      /\ client = "connected" => SpokeFirst
      /\ PhaseInv /\ Stream("up", "prev", "next") /\ Stream("down", "next", "prev")
  <2>1. UNCHANGED <<kind, early, client, line, held, broken, sent, got>> /\ handler # "returned"
    BY DEF Handler, ReadRequest, RequestFails, DialFails, Dialled, Respond, RespondFails,
           ReportHandler, history, ends
  <2>2. client = "connected" => SpokeFirst
    BY <2>1 DEF ExplainInv, ConnectedOK, EndsOK, SpokeFirst
  <2>. QED  BY <2>1, <2>2 DEF StreamInv, PhaseInv, SpokeFirst
<1>b. out["prev"] \in Seq(Messages) /\ Len(out["prev"]) \in Nat
  BY <1>0, <1>a, QueueTypes
<1>c. handler # "returned" => out["prev"] = <<>> \/ out["prev"][1] # Text("success")
  <2>1. out["prev"] # <<>> => 1 \in 1 .. Len(out["prev"])
    BY <1>b, EmptySeq
  <2>. QED  BY <1>a, <2>1 DEF PhaseInv, QueuesOK
<1>1. CASE ReadRequest
  <2>1. /\ copy["up"] = "off" /\ UNCHANGED <<copy, out, relayEnd, farEnd>>
        /\ in' = [in EXCEPT !["prev"] = Tail(@)]
    BY <1>1, <1>a DEF ReadRequest, ends, PhaseInv, RelayOK
  <2>2. in'["next"] = in["next"]
    BY <1>0, <1>a, <2>1 DEF Typed
  <2>3. Stream("up", "prev", "next")'
    BY <1>a, <2>1, StreamFrame DEF Counted, Pending, Moving
  <2>4. Stream("down", "next", "prev")'
    BY <1>a, <2>1, <2>2, StreamFrame DEF Counted, Pending, Moving, Intact, InHand, Delivers, Waiting
  <2>. QED  BY <2>3, <2>4
<1>2. CASE RequestFails \/ DialFails
  <2>1. /\ Refuse /\ handler \in {"request", "dial"} /\ copy["up"] = "off"
        /\ UNCHANGED <<copy, in, farEnd>>
    BY <1>2, <1>a DEF RequestFails, DialFails, PhaseInv, RelayOK
  <2>2. /\ out' \in [Conns -> Seq(Messages)]
        /\ out'["next"] = out["next"]
        /\ ~Delivers("prev") => out'["prev"] = out["prev"]
        /\ Delivers("prev") => Len(out'["prev"]) > Len(out["prev"])
        /\ \A i \in 1 .. Len(out'["prev"]) :
             IF i \in 1 .. Len(out["prev"]) THEN out'["prev"][i] = out["prev"][i]
                                            ELSE out'["prev"][i] = Text("fail")
        /\ relayEnd' = [relayEnd EXCEPT !["prev"] = "closed"]
    BY <1>a, <2>1, RefuseEffect
  <2>3. relayEnd'["next"] = relayEnd["next"]
    BY <1>0, <1>a, <2>2 DEF Typed
  <2>4. Stream("up", "prev", "next")'
    BY <1>a, <2>1, <2>2, StreamFrame DEF Counted, Pending, Moving
  <2>5. CASE Delivers("prev")
    <3>1. out'["prev"] \in Seq(Messages) /\ Len(out'["prev"]) \in Nat
      BY <1>0, <2>2, LenProperties
    <3>2. 1 \in 1 .. Len(out'["prev"])
      BY <1>b, <2>2, <2>5, <3>1
    <3>3. out'["prev"] # <<>>
      BY <3>1, <3>2, EmptySeq
    <3>4. out'["prev"][1] # Text("success")
      <4>1. CASE 1 \in 1 .. Len(out["prev"])
        BY <1>b, <1>c, <1>t, <2>1, <2>2, <3>2, <4>1, EmptySeq
      <4>2. CASE 1 \notin 1 .. Len(out["prev"])
        BY <1>t, <2>2, <3>2, <4>2
      <4>. QED  BY <4>1, <4>2
    <3>5. ~Counted("prev")'
      BY <1>a, <2>1, <3>3, <3>4 DEF Counted
    <3>. QED  BY <2>4, <3>5 DEF Stream
  <2>6. CASE ~Delivers("prev")
    <3>1. /\ Counted("prev")' = Counted("prev") /\ Pending("prev")' = Pending("prev")
          /\ Intact("prev")' = Intact("prev") /\ Moving("down")' = Moving("down")
          /\ InHand("down")' = InHand("down") /\ Delivers("next")' = Delivers("next")
      BY <1>a, <2>1, <2>2, <2>3, <2>6
         DEF Counted, Pending, Moving, Intact, InHand, Delivers, Waiting
    <3>. QED  BY <1>a, <2>1, <2>4, <3>1, StreamFrame
  <2>. QED  BY <2>5, <2>6
<1>3. CASE Dialled
  <2>1. /\ handler = "dial" /\ UNCHANGED <<in, out>>
        /\ farEnd' = [farEnd EXCEPT !["next"] = "open"]
        /\ copy' = copy \/ copy' = [d \in Directions |-> "read"]
        /\ copy["up"] = "off" /\ copy["down"] = "off" /\ client # "connected"
        /\ sent["next"] = 0 /\ in["next"] = <<>>
    BY <1>3, <1>a DEF Dialled, StartCopying, PhaseInv, RelayOK, PhaseOK
  <2>2. copy'["up"] \in {"off", "read"} /\ copy'["down"] \in {"off", "read"}
    BY <1>0, <2>1
  <2>3. Stream("up", "prev", "next")'
    BY <1>a, <2>1, <2>2, StreamStarts
  <2>4. farEnd'["prev"] = farEnd["prev"]
    BY <1>0, <1>a, <2>1 DEF Typed
  <2>5. /\ Counted("prev")' = Counted("prev") /\ Pending("prev")' = Pending("prev")
        /\ Intact("prev")' = Intact("prev") /\ Moving("down")' /\ Moving("down")
        /\ InHand("down")' = 0 /\ InHand("down") = 0
    BY <1>a, <2>1, <2>2, <2>4 DEF Counted, Pending, Moving, Intact, InHand, Waiting
  <2>6. Len(got["prev"]) \in Nat /\ Len(Pending("prev")) \in Nat /\ Len(<<>>) = 0
    BY <1>0, <1>a, QueueTypes, PendingTypes
  <2>7. Len(got["prev"]) + Len(Pending("prev")) <= 0 =>
          Len(got["prev"]) + Len(Pending("prev")) + 0 + 0 = 0
    BY <2>6
  <2>8. Stream("down", "next", "prev")'
    BY <1>a, <2>1, <2>5, <2>6, <2>7 DEF Stream, Flow, Run
  <2>. QED  BY <2>3, <2>8
<1>4. CASE Respond
  <2>1. /\ handler = "respond" /\ Put("prev", <<Text("success")>>)
        /\ UNCHANGED <<kind, in, relayEnd, farEnd>>
    BY <1>4, <1>a DEF Respond, ends
  <2>2. \/ copy' = copy
        \/ copy' = [d \in Directions |-> "read"] /\ copy["up"] = "off" /\ copy["down"] = "off"
    BY <1>4, <1>a DEF Respond, StartCopying, PhaseInv, RelayOK
  <2>3. /\ out'["next"] = out["next"]
        /\ out'["prev"] = IF Delivers("prev") THEN Append(out["prev"], Text("success")) ELSE out["prev"]
    BY <1>0, <1>a, <2>1, PutOne, MessageFacts
  <2>4. Stream("up", "prev", "next")'
    <3>1. CASE copy' = copy
      BY <1>a, <2>1, <2>3, <3>1, StreamFrame DEF Counted, Pending, Moving, Intact, InHand, Delivers
    <3>2. CASE copy' = [d \in Directions |-> "read"] /\ copy["up"] = "off"
      <4>1. client # "connected"
        BY <1>a, <3>2 DEF PhaseInv, PhaseOK
      <4>. QED  BY <1>0, <1>a, <2>1, <2>3, <3>2, <4>1, StreamStarts
    <3>. QED  BY <2>2, <3>1, <3>2
  <2>5. /\ Intact("prev")' = Intact("prev") /\ Moving("down")' = Moving("down")
        /\ InHand("down")' = InHand("down") /\ Delivers("next")' = Delivers("next")
    BY <1>0, <1>a, <2>1, <2>2 DEF Moving, Intact, InHand, Delivers
  <2>6. Counted("prev")' => Counted("prev") /\ Pending("prev")' = Pending("prev")
    <3>1. CASE out["prev"] = <<>>
      <4>1. Append(<<>>, Text("success")) = <<Text("success")>> /\ Tail(<<Text("success")>>) = <<>>
        OBVIOUS
      <4>2. out'["prev"] = <<>> \/ out'["prev"] = <<Text("success")>>
        BY <2>3, <3>1, <4>1
      <4>. QED  BY <1>a, <2>1, <3>1, <4>1, <4>2 DEF Counted, Pending, Waiting
    <3>2. CASE out["prev"] # <<>>
      <4>1. /\ Append(out["prev"], Text("success")) # <<>>
            /\ Append(out["prev"], Text("success"))[1] = out["prev"][1]
        BY <1>b, <3>2, AppendProperties, MessageFacts, EmptySeq
      <4>2. CASE Delivers("prev")
        BY <1>a, <1>c, <2>1, <2>3, <3>2, <4>1, <4>2 DEF Counted, Waiting
      <4>3. CASE ~Delivers("prev")
        BY <1>a, <2>3, <4>3 DEF Counted, Pending, Waiting
      <4>. QED  BY <4>2, <4>3
    <3>. QED  BY <3>1, <3>2
  <2>7. Stream("down", "next", "prev")'
    BY <1>a, <2>1, <2>5, <2>6, StreamFrame
  <2>. QED  BY <2>4, <2>7
<1>5. CASE RespondFails \/ ReportHandler
  <2>1. /\ UNCHANGED <<copy, in, out, farEnd>>
        /\ relayEnd' = relayEnd \/ relayEnd' = [relayEnd EXCEPT !["prev"] = "closed"]
    BY <1>5 DEF RespondFails, ReportHandler, CloseRelayEnd, ends
  <2>2. relayEnd'["next"] = relayEnd["next"] /\ (relayEnd'["prev"] = "open" => relayEnd["prev"] = "open")
    BY <1>0, <1>a, <2>1 DEF Typed
  <2>3. /\ Counted("prev")' = Counted("prev") /\ Pending("prev")' = Pending("prev")
        /\ Counted("next")' = Counted("next") /\ Pending("next")' = Pending("next")
        /\ Intact("prev")' = Intact("prev") /\ Moving("down")' = Moving("down")
        /\ Intact("next")' = Intact("next") /\ Moving("up")' = Moving("up")
        /\ InHand("down")' = InHand("down") /\ Delivers("next")' = Delivers("next")
        /\ InHand("up")' = InHand("up") /\ (Delivers("prev")' => Delivers("prev"))
    BY <1>a, <2>1, <2>2 DEF Counted, Pending, Moving, Intact, InHand, Delivers, Waiting
  <2>. QED  BY <1>a, <2>1, <2>3, StreamFrame
<1>. QED  BY <1>1, <1>2, <1>3, <1>4, <1>5 DEF Handler

(* A goroutine reads a message of its stream.                              *)
LEMMA ReadStream ==
  ASSUME Typed, NEW d, NEW s \in Conns, NEW t \in Conns, Stream(d, s, t),
         copy[d] = "read", copy'[d] = "write",
         in[s] # <<>>, in'[s] = Tail(in[s]), held'[d] = Head(in[s]),
         UNCHANGED <<kind, early, client, line, out, got, sent, relayEnd, farEnd, broken>>
  PROVE  Stream(d, s, t)'
<1>1. /\ Counted(t)' = Counted(t) /\ Pending(t)' = Pending(t) /\ Intact(t)' = Intact(t)
      /\ Moving(d) /\ InHand(d) = 0 /\ InHand(d)' = 1 /\ Delivers(s)' = Delivers(s)
  BY DEF Counted, SpokeFirst, Pending, Intact, Moving, InHand, Delivers, Waiting
<1>2. /\ in[s] \in Seq(Messages) /\ Pending(t) \in Seq(Messages)
      /\ Len(got[t]) \in Nat /\ sent[s] \in Nat
  BY QueueTypes, PendingTypes
<1>3. Flow(Len(got[t]), Pending(t), 0, held[d], in[s], sent[s]) =>
        /\ Flow(Len(got[t]), Pending(t), 1, Head(in[s]), Tail(in[s]), sent[s])
        /\ Len(got[t]) + Len(Pending(t)) + 1 + Len(Tail(in[s]))
             = Len(got[t]) + Len(Pending(t)) + 0 + Len(in[s])
  BY ONLY in[s] # <<>>, <1>2, FlowRead
<1>. QED  BY <1>1, <1>3 DEF Stream

(* A goroutine writes the message it holds.                                *)
LEMMA WriteStream ==
  ASSUME PhaseInv, NEW d \in Directions, NEW s \in Conns, NEW t \in Conns, Stream(d, s, t),
         copy[d] = "write", copy'[d] = "read", relayEnd[t] = "open",
         t = "prev" => held[d].text = "data",
         out'[t] = IF Delivers(t) THEN Append(out[t], held[d]) ELSE out[t],
         early => early',
         UNCHANGED <<kind, client, line, held, in, got, sent, relayEnd, farEnd, broken>>
  PROVE  Stream(d, s, t)'
<1>1. /\ Moving(d) /\ InHand(d) = 1 /\ InHand(d)' = 0
      /\ Delivers(s)' = Delivers(s) /\ Intact(t)' = Intact(t)
  BY DEF Intact, Moving, InHand, Delivers
<1>2. /\ in[s] \in Seq(Messages) /\ Pending(t) \in Seq(Messages) /\ out[t] \in Seq(Messages)
      /\ Len(got[t]) \in Nat /\ Len(Pending(t)) \in Nat /\ sent[s] \in Nat /\ held[d] \in Messages
  BY QueueTypes, PendingTypes DEF PhaseInv, Typed
<1>3. CASE ~Delivers(t)
  <2>1. ~Intact(t)
    BY <1>3 DEF PhaseInv, Typed, RelayOK, Delivers, Intact, Conns
  <2>2. (Counted(t)' => Counted(t)) /\ Pending(t)' = Pending(t)
    BY <1>3 DEF Counted, SpokeFirst, Pending, Waiting
  <2>. QED  BY <1>1, <2>1, <2>2, StreamFrame
<1>4. CASE Delivers(t)
  <2>1. /\ Append(out[t], held[d]) # <<>>
        /\ out[t] = <<>> => Append(out[t], held[d])[1] = held[d]
        /\ out[t] # <<>> => Append(out[t], held[d])[1] = out[t][1]
    <3>1. Len(out[t]) \in Nat /\ (out[t] = <<>> => Len(out[t]) = 0) /\ (out[t] # <<>> => Len(out[t]) >= 1)
      BY <1>2, EmptySeq
    <3>2. /\ Append(out[t], held[d]) # <<>>
          /\ \A i \in 1 .. Len(out[t]) : Append(out[t], held[d])[i] = out[t][i]
          /\ Append(out[t], held[d])[Len(out[t]) + 1] = held[d]
      BY <1>2, AppendProperties
    <3>. QED  BY ONLY <3>1, <3>2
  <2>2. Counted(t)' => Counted(t) /\ Pending(t)' = Append(Pending(t), held[d])
    <3>1. CASE t # "prev" \/ client = "connected"
      BY <1>4, <3>1 DEF Counted, SpokeFirst, Pending
    <3>2. CASE t = "prev" /\ client # "connected" /\ out[t] = <<>>
      <4>1. held[d] # Text("success")
        BY <3>2, MessageFacts
      <4>2. ~Counted(t)'
        BY <1>4, <2>1, <3>2, <4>1 DEF Counted
      <4>. QED  BY <4>2
    <3>3. CASE t = "prev" /\ client # "connected" /\ out[t] # <<>>
      <4>1. Tail(Append(out[t], held[d])) = Append(Tail(out[t]), held[d])
        BY <1>2, <3>3, HeadTailAppend
      <4>. QED  BY <1>4, <2>1, <3>3, <4>1 DEF Counted, SpokeFirst, Pending, Waiting
    <3>. QED  BY <3>1, <3>2, <3>3
  <2>3. Flow(Len(got[t]), Pending(t), 1, held[d], in[s], sent[s]) =>
          /\ Flow(Len(got[t]), Append(Pending(t), held[d]), 0, held[d], in[s], sent[s])
          /\ Len(got[t]) + Len(Append(Pending(t), held[d])) <= sent[s]
          /\ Len(got[t]) + Len(Append(Pending(t), held[d])) + 0 + Len(in[s])
               = Len(got[t]) + Len(Pending(t)) + 1 + Len(in[s])
    <3>. DEFINE g == Len(got[t])
                p == Pending(t)
                m == held[d]
                q == in[s]
                n == sent[s]
    <3>1. g \in Nat /\ p \in Seq(Messages) /\ q \in Seq(Messages) /\ n \in Nat /\ m \in Messages
      BY <1>2
    <3>. HIDE DEF g, p, m, q, n
    <3>2. Flow(g, p, 1, m, q, n) =>
            /\ Flow(g, Append(p, m), 0, m, q, n) /\ g + Len(Append(p, m)) <= n
            /\ g + Len(Append(p, m)) + 0 + Len(q) = g + Len(p) + 1 + Len(q)
      BY ONLY <3>1, FlowWrite
    <3>. QED  BY <3>2 DEF g, p, m, q, n
  <2>4. Intact(t)
    BY <1>4 DEF Delivers, Intact
  <2>5. ASSUME Counted(t)'
        PROVE  /\ Flow(Len(got[t]), Pending(t)', 0, held[d], in[s], sent[s])
               /\ Len(got[t]) + Len(Pending(t)') <= sent[s]
               /\ Delivers(s) => Len(got[t]) + Len(Pending(t)') + 0 + Len(in[s]) = sent[s]
    BY <1>1, <2>2, <2>3, <2>4, <2>5 DEF Stream
  <2>. QED  BY <1>1, <2>5 DEF Stream, Flow
<1>. QED  BY <1>3, <1>4

(* The two goroutines move the two streams, and neither touches the        *)
(* other's.                                                                *)
LEMMA CopyStream ==
  ASSUME StreamInv, NEW d \in Directions, NEW e \in Directions, Copy(d)
  PROVE  Stream(e, Src[e], Dst[e])'
<1>0. "prev" \in Conns /\ "next" \in Conns /\ "up" \in Directions /\ "down" \in Directions
  BY DEF Conns, Directions
<1>d. /\ Src[d] \in Conns /\ Dst[d] \in Conns /\ Src[e] \in Conns /\ Dst[e] \in Conns
      /\ e # d => Src[e] = Dst[d] /\ Dst[e] = Src[d]
      /\ Src[d] # Dst[d]
      /\ Dst[d] = "prev" => d = "down"
  BY DEF Directions, Src, Dst, Conns
<1>a. Typed /\ PhaseInv /\ Stream(e, Src[e], Dst[e])
  <2>1. Src["up"] = "prev" /\ Dst["up"] = "next" /\ Src["down"] = "next" /\ Dst["down"] = "prev"
    BY DEF Src, Dst
  <2>. QED  BY <2>1 DEF StreamInv, PhaseInv, Directions
<1>b. UNCHANGED <<kind, client, line, got, sent, farEnd, broken>>
  BY DEF Copy, CopyRead, CopyEof, CopyWrite, CopyFails, CopyReports, CopyCloses, history, ends
<1>c. early => early'
  BY <1>a, CauseStays DEF Next
<1>1. CASE CopyRead(d)
  <2>1. /\ copy[d] = "read" /\ copy' = [copy EXCEPT ![d] = "write"]
        /\ in[Src[d]] # <<>> /\ held' = [held EXCEPT ![d] = Head(in[Src[d]])]
        /\ in' = [in EXCEPT ![Src[d]] = Tail(@)] /\ UNCHANGED <<out, relayEnd, early>>
    BY <1>1 DEF CopyRead, CopyMoves, ends, history
  <2>2. /\ copy'[d] = "write" /\ held'[d] = Head(in[Src[d]]) /\ in'[Src[d]] = Tail(in[Src[d]])
        /\ e # d => copy'[e] = copy[e] /\ held'[e] = held[e] /\ in'[Src[e]] = in[Src[e]]
    BY <1>a, <1>d, <2>1 DEF Typed
  <2>3. CASE e = d
    BY <1>a, <1>b, <1>d, <2>1, <2>2, <2>3, ReadStream
  <2>4. CASE e # d
    <3>1. /\ Counted(Dst[e])' = Counted(Dst[e]) /\ Pending(Dst[e])' = Pending(Dst[e])
          /\ Intact(Dst[e])' = Intact(Dst[e]) /\ Moving(e)' = Moving(e)
          /\ InHand(e)' = InHand(e) /\ Delivers(Src[e])' = Delivers(Src[e])
      BY <1>b, <2>1, <2>2, <2>4 DEF Counted, SpokeFirst, Pending, Intact, Moving, InHand, Delivers, Waiting
    <3>. QED  BY <1>a, <1>b, <2>2, <2>4, <3>1, StreamFrame
  <2>. QED  BY <2>3, <2>4
<1>2. CASE CopyWrite(d)
  <2>1. /\ copy[d] = "write" /\ copy' = [copy EXCEPT ![d] = "read"]
        /\ relayEnd[Dst[d]] = "open" /\ Put(Dst[d], <<held[d]>>)
        /\ UNCHANGED <<held, in, relayEnd>>
    BY <1>2 DEF CopyWrite, CopyMoves, WriteOk, ends
  <2>2. held[d] \in Messages /\ copy'[d] = "read" /\ (e # d => copy'[e] = copy[e])
    BY <1>a, <2>1 DEF Typed
  <2>3. /\ out'[Dst[d]] = IF Delivers(Dst[d]) THEN Append(out[Dst[d]], held[d]) ELSE out[Dst[d]]
        /\ \A o \in Conns \ {Dst[d]} : out'[o] = out[o]
    BY <1>a, <1>d, <2>1, <2>2, PutOne
  <2>4. Dst[d] = "prev" => held[d].text = "data"
    BY <1>a, <1>d, <2>1 DEF PhaseInv, QueuesOK
  <2>5. CASE e = d
    BY <1>a, <1>b, <1>c, <1>d, <2>1, <2>2, <2>3, <2>4, <2>5, WriteStream
  <2>6. CASE e # d
    <3>1. out'[Dst[e]] = out[Dst[e]]
      BY <1>d, <2>3, <2>6
    <3>2. /\ (Counted(Dst[e])' => Counted(Dst[e])) /\ Pending(Dst[e])' = Pending(Dst[e])
          /\ Intact(Dst[e])' = Intact(Dst[e]) /\ Moving(e)' = Moving(e)
          /\ InHand(e)' = InHand(e) /\ Delivers(Src[e])' = Delivers(Src[e])
      BY <1>b, <1>c, <2>1, <2>2, <2>6, <3>1 DEF Counted, SpokeFirst, Pending, Intact, Moving, InHand, Delivers, Waiting
    <3>. QED  BY <1>a, <1>b, <2>1, <3>2, StreamFrame
  <2>. QED  BY <2>5, <2>6
<1>3. CASE CopyEof(d) \/ CopyFails(d) \/ CopyReports(d) \/ CopyCloses(d)
  <2>1. /\ UNCHANGED <<held, in, out>>
        /\ \E p \in {"report", "close", "done"} : copy' = [copy EXCEPT ![d] = p]
        /\ relayEnd' = relayEnd \/ relayEnd' = [relayEnd EXCEPT ![Dst[d]] = "closed"]
        /\ early' = early
    BY <1>3 DEF CopyEof, CopyFails, CopyReports, CopyCloses, CopyMoves, CloseRelayEnd, ends, history
  <2>2. copy'[d] \in {"report", "close", "done"} /\ (e # d => copy'[e] = copy[e])
    BY <1>a, <2>1 DEF Typed
  <2>3. \A c \in Conns : relayEnd'[c] = "open" => relayEnd[c] = "open"
    BY <1>a, <1>d, <2>1 DEF Typed
  <2>4. /\ Counted(Dst[e])' = Counted(Dst[e]) /\ Pending(Dst[e])' = Pending(Dst[e])
        /\ Intact(Dst[e])' = Intact(Dst[e]) /\ (Delivers(Src[e])' => Delivers(Src[e]))
    BY <1>b, <1>d, <2>1, <2>3 DEF Counted, SpokeFirst, Pending, Intact, Delivers, Waiting
  <2>5. Moving(e)' => Moving(e) /\ InHand(e)' = InHand(e)
    BY <2>2 DEF Moving, InHand
  <2>. QED  BY <1>a, <1>b, <2>1, <2>4, <2>5, StreamFrame
<1>. QED  BY <1>1, <1>2, <1>3 DEF Copy

(* An application sends the next message of its stream.                    *)
LEMMA SendStream ==
  ASSUME Typed, NEW d, NEW s \in Conns, NEW t \in Conns, Stream(d, s, t),
         Data(sent[s] + 1) \in Messages, sent'[s] = sent[s] + 1,
         in'[s] = IF Delivers(s) THEN Append(in[s], Data(sent[s] + 1)) ELSE in[s],
         UNCHANGED <<kind, early, client, line, copy, held, out, got, relayEnd, farEnd, broken>>
  PROVE  Stream(d, s, t)'
<1>1. /\ Counted(t)' = Counted(t) /\ Pending(t)' = Pending(t) /\ Intact(t)' = Intact(t)
      /\ Moving(d)' = Moving(d) /\ InHand(d)' = InHand(d) /\ Delivers(s)' = Delivers(s)
      /\ InHand(d) \in {0, 1}
  BY DEF Counted, SpokeFirst, Pending, Intact, Moving, InHand, Delivers, Waiting
<1>. DEFINE g == Len(got[t])
            p == Pending(t)
            k == InHand(d)
            q == in[s]
            n == sent[s]
<1>2. /\ q \in Seq(Messages) /\ p \in Seq(Messages) /\ g \in Nat /\ n \in Nat
      /\ Len(p) \in Nat /\ k \in {0, 1} /\ Data(n + 1) \in Messages
  BY <1>1, QueueTypes, PendingTypes
<1>3. CASE ~Counted(t)
  BY <1>1, <1>3 DEF Stream
<1>4. CASE Counted(t)
  <2>1. Run(p, g) /\ g + Len(p) <= n
    BY <1>4 DEF Stream
  <2>2. Intact(t) /\ Moving(d) =>
          Flow(g, p, k, held[d], q, n) /\ (Delivers(s) => g + Len(p) + k + Len(q) = n)
    BY <1>4 DEF Stream
  <2>. HIDE DEF g, p, k, q, n
  <2>3. g + Len(p) <= n + 1
    BY <1>2, <2>1
  <2>4. Flow(g, p, k, held[d], q, n) =>
          /\ Flow(g, p, k, held[d], q, n + 1)
          /\ g + Len(p) + k + Len(q) = n =>
              /\ Flow(g, p, k, held[d], Append(q, Data(n + 1)), n + 1)
              /\ g + Len(p) + k + Len(Append(q, Data(n + 1))) = n + 1
    BY ONLY <1>2, FlowSend
  <2>5. ASSUME Intact(t), Moving(d)
        PROVE  /\ Flow(g, p, k, held[d], in'[s], n + 1)
               /\ Delivers(s) => g + Len(p) + k + Len(in'[s]) = n + 1
    <3>1. CASE Delivers(s)
      BY <2>2, <2>4, <2>5, <3>1 DEF q, n
    <3>2. CASE ~Delivers(s)
      BY <2>2, <2>4, <2>5, <3>2 DEF q
    <3>. QED  BY <3>1, <3>2
  <2>6. /\ Run(Pending(t), Len(got[t])) /\ Len(got[t]) + Len(Pending(t)) <= sent[s] + 1
        /\ Intact(t) /\ Moving(d) =>
             /\ Flow(Len(got[t]), Pending(t), InHand(d), held[d], in'[s], sent[s] + 1)
             /\ Delivers(s) => Len(got[t]) + Len(Pending(t)) + InHand(d) + Len(in'[s]) = sent[s] + 1
    BY <2>1, <2>3, <2>5 DEF g, p, k, n
  <2>. QED  BY <1>1, <2>6 DEF Stream, Flow
<1>. QED  BY <1>3, <1>4

(* An application receives the next message of its stream.                 *)
LEMMA ReceiveStream ==
  ASSUME Typed, NEW d, NEW s \in Conns, NEW t \in Conns, Stream(d, s, t),
         t = "prev" => client = "connected", out[t] # <<>>, Received(t),
         got'[t] = Append(got[t], Head(out[t])), out'[t] = Tail(out[t]),
         UNCHANGED <<kind, early, client, line, copy, held, in, sent, relayEnd, farEnd, broken>>
  PROVE  Stream(d, s, t)' /\ Received(t)'
<1>a. CASE t = "prev" /\ SpokeFirst
  <2>1. ~Counted(t)'
    BY <1>a DEF Counted, SpokeFirst
  <2>. QED  BY <1>a, <2>1 DEF Stream, Received, SpokeFirst
<1>b. SUFFICES ASSUME ~(t = "prev" /\ SpokeFirst) PROVE Stream(d, s, t)' /\ Received(t)'
  BY <1>a
<1>1. /\ Counted(t) /\ Pending(t) = out[t] /\ Pending(t)' = Tail(out[t]) /\ Intact(t)' = Intact(t)
      /\ Moving(d)' = Moving(d) /\ InHand(d)' = InHand(d) /\ Delivers(s)' = Delivers(s)
      /\ InHand(d) \in {0, 1}
  BY <1>b DEF Counted, Pending, Intact, Moving, InHand, Delivers
<1>. DEFINE r == got[t]
            p == out[t]
            k == InHand(d)
            q == in[s]
            n == sent[s]
            m == held[d]
<1>2. /\ q \in Seq(Messages) /\ p \in Seq(Messages) /\ p # <<>> /\ r \in Seq(Messages)
      /\ n \in Nat /\ k \in {0, 1} /\ Len(r) \in Nat /\ Len(q) \in Nat /\ Head(p) \in Messages
  BY <1>1, QueueTypes, HeadTailProperties
<1>3. Run(r, 0) /\ Run(p, Len(r)) /\ Len(r) + Len(p) <= n
  BY <1>1, <1>b DEF Stream, Received
<1>4. Intact(t) /\ Moving(d) =>
        Flow(Len(r), p, k, m, q, n) /\ (Delivers(s) => Len(r) + Len(p) + k + Len(q) = n)
  BY <1>1 DEF Stream
<1>. HIDE DEF r, p, k, q, n, m
<1>5. /\ Head(p) = Data(Len(r) + 1) /\ Run(Tail(p), Len(r) + 1)
      /\ Len(r) + 1 + Len(Tail(p)) = Len(r) + Len(p)
      /\ Flow(Len(r), p, k, m, q, n) => Flow(Len(r) + 1, Tail(p), k, m, q, n)
  BY ONLY <1>2, <1>3, FlowReceive
<1>6. Run(Append(r, Head(p)), 0) /\ Len(Append(r, Head(p))) = Len(r) + 1
  <2>1. Head(p) = Data(0 + Len(r) + 1)
    BY ONLY <1>2, <1>5
  <2>. QED  BY ONLY <1>2, <1>3, <2>1, RunAppend
<1>7. Len(got'[t]) = Len(r) + 1 /\ Run(got'[t], 0) /\ Pending(t)' = Tail(p)
  BY <1>1, <1>6 DEF r, p
<1>8. /\ Run(Tail(p), Len(r) + 1) /\ Len(r) + 1 + Len(Tail(p)) <= n
      /\ Intact(t) /\ Moving(d) =>
           /\ Flow(Len(r) + 1, Tail(p), k, m, q, n)
           /\ Delivers(s) => Len(r) + 1 + Len(Tail(p)) + k + Len(q) = n
  BY ONLY <1>3, <1>4, <1>5
<1>. QED  BY <1>1, <1>7, <1>8 DEF Stream, Received, k, q, n, m

(* The network breaks a connection, and what is on its way there is lost.  *)
LEMMA BreakStream ==
  ASSUME StreamInv, NEW c \in Conns, Break(c), NEW d \in Directions
  PROVE  Stream(d, Src[d], Dst[d])'
<1>. DEFINE s == Src[d]
            t == Dst[d]
<1>1. s \in Conns /\ t \in Conns /\ (c = s \/ c = t) /\ s # t
  BY DEF Directions, Src, Dst, Conns
<1>2. Typed /\ Stream(d, s, t) /\ (client # "connected" => got["prev"] = <<>>)
  <2>1. Src["up"] = "prev" /\ Dst["up"] = "next" /\ Src["down"] = "next" /\ Dst["down"] = "prev"
    BY DEF Src, Dst
  <2>. QED  BY <2>1 DEF StreamInv, PhaseInv, PhaseOK, Directions
<1>. HIDE DEF s, t
<1>3. /\ broken' = broken \union {c}
      /\ in' = [in EXCEPT ![c] = <<>>] /\ out' = [out EXCEPT ![c] = <<>>]
      /\ UNCHANGED <<kind, early, client, line, copy, held, relayEnd, farEnd, sent, got>>
  BY DEF Break, service, history
<1>4. /\ Len(got[t]) \in Nat /\ Len(Pending(t)) \in Nat /\ sent[s] \in Nat /\ Len(in[s]) \in Nat
      /\ Len(<<>>) = 0
  BY <1>1, <1>2, QueueTypes, PendingTypes
<1>e. \A b : Run(<<>>, b)
  BY DEF Run
<1>5. CASE c = t
  <2>1. ~Intact(t)' /\ Pending(t)' = <<>>
    BY <1>1, <1>2, <1>3, <1>5 DEF Intact, Pending, Typed
  <2>2. Counted(t)' => Len(got[t]) + 0 <= sent[s]
    <3>1. CASE Counted(t)
      <4>1. Len(got[t]) + Len(Pending(t)) <= sent[s]
        BY <1>2, <3>1 DEF Stream
      <4>. QED  BY <1>4, <4>1
    <3>2. CASE ~Counted(t) /\ Counted(t)'
      <4>1. got[t] = <<>>
        BY <1>2, <1>3, <3>2 DEF Counted, SpokeFirst
      <4>. QED  BY <1>4, <4>1
    <3>. QED  BY <3>1, <3>2
  <2>. QED  BY <1>3, <1>4, <1>e, <2>1, <2>2 DEF Stream, s, t
<1>6. CASE c = s
  <2>1. in'[s] = <<>> /\ out'[t] = out[t] /\ ~Delivers(s)' /\ Intact(t)' = Intact(t)
    BY <1>1, <1>2, <1>3, <1>6 DEF Intact, Delivers, Typed
  <2>2. /\ Counted(t)' = Counted(t) /\ Pending(t)' = Pending(t)
        /\ Moving(d)' = Moving(d) /\ InHand(d)' = InHand(d)
        /\ InHand(d) \in {0, 1}
    BY <1>1, <1>3, <2>1 DEF Counted, SpokeFirst, Pending, Moving, InHand, Waiting, Conns
  <2>3. Flow(Len(got[t]), Pending(t), InHand(d), held[d], in[s], sent[s]) =>
          Flow(Len(got[t]), Pending(t), InHand(d), held[d], <<>>, sent[s])
    <3>1. Len(got[t]) + Len(Pending(t)) + InHand(d) + Len(in[s]) <= sent[s] =>
            Len(got[t]) + Len(Pending(t)) + InHand(d) + 0 <= sent[s]
      BY <1>4, <2>2
    <3>. QED  BY <1>4, <1>e, <3>1 DEF Flow
  <2>4. Stream(d, s, t)'
    BY <1>2, <1>3, <2>1, <2>2, <2>3 DEF Stream
  <2>. QED  BY <2>4 DEF s, t
<1>. QED  BY <1>1, <1>5, <1>6

(* The applications and the network keep the streams.                      *)
LEMMA FarStream ==
  ASSUME StreamInv, NEW d \in Directions,
         NEW c \in Conns, Break(c) \/ AppSends(c) \/ AppReceives(c) \/ AppCloses(c)
  PROVE  Stream(d, Src[d], Dst[d])' /\ \A o \in Conns : Received(o)'
<1>1. Src[d] \in Conns /\ Dst[d] \in Conns /\ (c = Src[d] \/ c = Dst[d]) /\ Src[d] # Dst[d]
  BY DEF Directions, Src, Dst, Conns
<1>2. /\ Typed /\ Stream(d, Src[d], Dst[d]) /\ \A o \in Conns : Received(o)
      /\ UNCHANGED <<kind, early>>
  <2>1. Src["up"] = "prev" /\ Dst["up"] = "next" /\ Src["down"] = "next" /\ Dst["down"] = "prev"
    BY DEF Src, Dst
  <2>. QED
    BY <2>1 DEF StreamInv, PhaseInv, Directions, Break, AppSends, AppReceives, AppCloses, history
<1>3. CASE Break(c)
  <2>1. got' = got
    BY <1>3 DEF Break, history
  <2>2. \A o \in Conns : Received(o)'
    BY <1>2, <2>1 DEF Received, SpokeFirst
  <2>. QED  BY <1>3, <2>2, BreakStream
<1>4. CASE AppSends(c)
  <2>1. /\ sent' = [sent EXCEPT ![c] = @ + 1] /\ FarSends(c, Data(sent[c] + 1))
        /\ UNCHANGED <<client, line, copy, held, out, relayEnd, farEnd, broken, got>>
        /\ Data(sent[c] + 1) \in Messages
    BY <1>2, <1>4, AppMessage DEF AppSends, ends, service
  <2>2. /\ in'[c] = IF Delivers(c) THEN Append(in[c], Data(sent[c] + 1)) ELSE in[c]
        /\ \A o \in Conns \ {c} : in'[o] = in[o]
    BY <1>2, <2>1, FarSendsEffect
  <2>3. sent'[c] = sent[c] + 1 /\ \A o \in Conns \ {c} : sent'[o] = sent[o]
    BY <1>2, <2>1 DEF Typed
  <2>4. \A o \in Conns : Received(o)'
    BY <1>2, <2>1 DEF Received, SpokeFirst
  <2>5. CASE c = Src[d]
    BY <1>1, <1>2, <2>1, <2>2, <2>3, <2>4, <2>5, SendStream
  <2>6. CASE c = Dst[d]
    <3>1. in'[Src[d]] = in[Src[d]] /\ sent'[Src[d]] = sent[Src[d]]
      BY <1>1, <2>2, <2>3, <2>6
    <3>2. /\ Counted(Dst[d])' = Counted(Dst[d]) /\ Pending(Dst[d])' = Pending(Dst[d])
          /\ Intact(Dst[d])' = Intact(Dst[d]) /\ Moving(d)' = Moving(d)
          /\ InHand(d)' = InHand(d) /\ Delivers(Src[d])' = Delivers(Src[d])
      BY <1>2, <2>1 DEF Counted, SpokeFirst, Pending, Intact, Moving, InHand, Delivers, Waiting
    <3>. QED  BY <1>2, <2>1, <2>4, <3>1, <3>2, StreamFrame
  <2>. QED  BY <1>1, <2>5, <2>6
<1>5. CASE AppReceives(c)
  <2>1. /\ c = "prev" => client = "connected"
        /\ out[c] # <<>> /\ out' = [out EXCEPT ![c] = Tail(@)]
        /\ got' = [got EXCEPT ![c] = Append(@, Head(out[c]))]
        /\ UNCHANGED <<client, line, copy, held, in, relayEnd, farEnd, broken, sent>>
    BY <1>5 DEF AppReceives, InUse, ends, service
  <2>2. /\ out'[c] = Tail(out[c]) /\ got'[c] = Append(got[c], Head(out[c]))
        /\ \A o \in Conns \ {c} : out'[o] = out[o] /\ got'[o] = got[o]
    BY <1>2, <2>1 DEF Typed
  <2>3. Received(c)'
    <3>1. PICK e \in Directions : c = Dst[e]
      BY DEF Directions, Dst, Conns
    <3>2. Src[e] \in Conns /\ Stream(e, Src[e], Dst[e])
      <4>1. Src["up"] = "prev" /\ Dst["up"] = "next" /\ Src["down"] = "next" /\ Dst["down"] = "prev"
        BY DEF Src, Dst
      <4>. QED  BY <4>1 DEF StreamInv, Directions, Conns
    <3>. QED  BY <1>2, <2>1, <2>2, <3>1, <3>2, ReceiveStream
  <2>4. \A o \in Conns : Received(o)'
    BY <1>2, <2>2, <2>3 DEF Received, SpokeFirst
  <2>5. CASE c = Dst[d]
    BY <1>1, <1>2, <2>1, <2>2, <2>4, <2>5, ReceiveStream
  <2>6. CASE c = Src[d]
    <3>1. out'[Dst[d]] = out[Dst[d]] /\ got'[Dst[d]] = got[Dst[d]]
      BY <1>1, <2>2, <2>6
    <3>2. /\ Counted(Dst[d])' = Counted(Dst[d]) /\ Pending(Dst[d])' = Pending(Dst[d])
          /\ Intact(Dst[d])' = Intact(Dst[d]) /\ Moving(d)' = Moving(d)
          /\ InHand(d)' = InHand(d) /\ Delivers(Src[d])' = Delivers(Src[d])
      BY <1>1, <1>2, <2>1, <3>1
         DEF Counted, SpokeFirst, Pending, Intact, Moving, InHand, Delivers, Waiting, Conns
    <3>. QED  BY <1>2, <2>1, <2>4, <3>1, <3>2, StreamFrame
  <2>. QED  BY <1>1, <2>4, <2>5, <2>6
<1>6. CASE AppCloses(c)
  <2>1. /\ farEnd' = [farEnd EXCEPT ![c] = "closed"]
        /\ UNCHANGED <<client, line, copy, held, in, out, relayEnd, broken, sent, got>>
    BY <1>6 DEF AppCloses, CloseFarEnd, service, history
  <2>2. \A o \in Conns : farEnd'[o] = farEnd[o] \/ farEnd'[o] = "closed"
    BY <1>2, <2>1 DEF Typed
  <2>3. /\ Counted(Dst[d])' = Counted(Dst[d]) /\ Pending(Dst[d])' = Pending(Dst[d])
        /\ Intact(Dst[d])' => Intact(Dst[d])
        /\ Moving(d)' = Moving(d) /\ InHand(d)' = InHand(d)
        /\ Delivers(Src[d])' => Delivers(Src[d])
    BY <1>1, <1>2, <2>1, <2>2
       DEF Counted, SpokeFirst, Pending, Intact, Moving, InHand, Delivers, Waiting
  <2>4. \A o \in Conns : Received(o)'
    BY <1>2, <2>1 DEF Received, SpokeFirst
  <2>. QED  BY <1>2, <2>1, <2>3, <2>4, StreamFrame
<1>. QED  BY <1>3, <1>4, <1>5, <1>6

(* Every step keeps the streams.                                           *)
LEMMA StreamStep == ExplainInv /\ StreamInv /\ [Next]_vars => StreamInv'
<1>. SUFFICES ASSUME ExplainInv, StreamInv, [Next]_vars PROVE StreamInv'
  OBVIOUS
<1>1. PhaseInv'
  BY PhaseStep DEF StreamInv
<1>2. /\ Src["up"] = "prev" /\ Dst["up"] = "next" /\ Src["down"] = "next" /\ Dst["down"] = "prev"
      /\ "up" \in Directions /\ "down" \in Directions
  BY DEF Src, Dst, Directions
<1>a. \A c \in Conns : got' = got => Received(c)'
  <2>1. kind' = kind /\ (early => early')
    BY CauseStays DEF StreamInv
  <2>. QED  BY <2>1 DEF StreamInv, Received, SpokeFirst
<1>3. CASE Client
  <2>1. got' = got
    BY <1>3 DEF Client, SendRequest, ReadResponse, ResponseMissing, history
  <2>. QED  BY <1>1, <1>3, <1>a, <2>1, ClientStream DEF StreamInv
<1>4. CASE Handler
  <2>1. got' = got
    BY <1>4 DEF Handler, ReadRequest, RequestFails, DialFails, Dialled, Respond, RespondFails,
                ReportHandler, history
  <2>. QED  BY <1>1, <1>4, <1>a, <2>1, HandlerStream DEF StreamInv
<1>5. ASSUME NEW d \in Directions, Copy(d) PROVE StreamInv'
  <2>1. got' = got
    BY <1>5 DEF Copy, CopyRead, CopyEof, CopyWrite, CopyFails, CopyReports, CopyCloses, history
  <2>2. Stream("up", "prev", "next")' /\ Stream("down", "next", "prev")'
    BY <1>2, <1>5, CopyStream
  <2>. QED  BY <1>1, <1>a, <2>1, <2>2 DEF StreamInv
<1>6. ASSUME NEW c \in Conns, Break(c) \/ AppSends(c) \/ AppReceives(c) \/ AppCloses(c)
      PROVE  StreamInv'
  <2>1. Stream("up", "prev", "next")' /\ Stream("down", "next", "prev")'
    BY <1>2, <1>6, FarStream
  <2>2. \A o \in Conns : Received(o)'
    BY <1>2, <1>6, FarStream
  <2>. QED  BY <1>1, <2>1, <2>2 DEF StreamInv
<1>7. CASE UNCHANGED vars
  <2>1. UNCHANGED <<kind, early, client, line, copy, held, in, out, relayEnd, farEnd, broken, sent, got>>
    BY <1>7 DEF vars, service, ends, history
  <2>. QED
    BY <1>1, <1>a, <2>1, StreamFrame
       DEF StreamInv, Counted, SpokeFirst, Pending, Intact, Moving, InHand, Delivers, Waiting
<1>. QED  BY <1>3, <1>4, <1>5, <1>6, <1>7 DEF Next

(* The streams are empty at the start.                                     *)
LEMMA StreamInit == Init => StreamInv
<1>. SUFFICES ASSUME Init PROVE StreamInv
  OBVIOUS
<1>1. PhaseInv
  BY PhaseInit
<1>2. /\ \A c \in Conns : got[c] = <<>> /\ out[c] = <<>> /\ in[c] = <<>> /\ sent[c] = 0
      /\ "prev" \in Conns /\ "next" \in Conns
      /\ copy["up"] = "off" /\ copy["down"] = "off"
  BY DEF Init, Conns, Directions
<1>3. Len(<<>>) = 0 /\ \A b : Run(<<>>, b)
  BY DEF Run
<1>4. \A m : Flow(0, <<>>, 0, m, <<>>, 0)
  BY <1>3 DEF Flow
<1>5. /\ Pending("prev") = <<>> /\ Pending("next") = <<>>
      /\ InHand("up") = 0 /\ InHand("down") = 0
  BY <1>2 DEF Pending, InHand
<1>6. Stream("up", "prev", "next") /\ Stream("down", "next", "prev")
  BY <1>2, <1>3, <1>4, <1>5 DEF Stream
<1>. QED  BY <1>1, <1>2, <1>3, <1>6 DEF StreamInv, Received

(* CleanStream: whatever the order of the response, of the two copying     *)
(* goroutines, of closes and of losses of the connections, each side       *)
(* receives a prefix of the data the other one has sent, and nothing else; *)
(* except the client of a proxy whose target spoke before the response.    *)
THEOREM StreamIsClean == Spec => []CleanStream
<1>1. StreamInv => CleanStream
  <2>. SUFFICES ASSUME StreamInv, NEW c \in Conns, ~(c = "prev" /\ SpokeFirst)
                PROVE  /\ got[c] = [i \in DOMAIN got[c] |-> Data(i)]
                       /\ \A other \in Conns \ {c} : Len(got[c]) <= sent[other]
    BY DEF CleanStream
  <2>1. /\ "prev" \in Conns /\ "next" \in Conns
        /\ Typed /\ (client # "connected" => got["prev"] = <<>>)
    BY DEF StreamInv, PhaseInv, PhaseOK, Conns
  <2>2. got[c] \in Seq(Messages) /\ Len(got[c]) \in Nat /\ Run(got[c], 0)
    BY <2>1, QueueTypes DEF StreamInv, Received
  <2>3. \A i \in 1 .. Len(got[c]) : got[c][i] = Data(i)
    <3>1. \A i \in 1 .. Len(got[c]) : 0 + i = i
      BY <2>2
    <3>. QED  BY <2>2, <3>1 DEF Run
  <2>4. got[c] = [i \in DOMAIN got[c] |-> Data(i)]
    <3>1. DOMAIN got[c] = 1 .. Len(got[c]) /\ got[c] = [i \in DOMAIN got[c] |-> got[c][i]]
      BY <2>2, LenProperties
    <3>. QED  BY <2>3, <3>1
  <2>5. Len(got["next"]) <= sent["prev"]
    <3>1. Len(got["next"]) + Len(Pending("next")) <= sent["prev"]
      BY DEF StreamInv, Stream, Counted
    <3>. QED  BY <2>1, <3>1, QueueTypes, PendingTypes
  <2>6. c = "prev" => Len(got["prev"]) <= sent["next"]
    <3>1. CASE Counted("prev")
      <4>1. Len(got["prev"]) + Len(Pending("prev")) <= sent["next"]
        BY <3>1 DEF StreamInv, Stream
      <4>. QED  BY <2>1, <4>1, QueueTypes, PendingTypes
    <3>2. CASE c = "prev" /\ ~Counted("prev")
      <4>1. got["prev"] = <<>> /\ Len(<<>>) = 0
        BY <2>1, <3>2 DEF Counted
      <4>2. sent["next"] \in Nat
        BY <2>1, QueueTypes
      <4>. QED  BY <4>1, <4>2
    <3>. QED  BY <3>1, <3>2
  <2>. QED  BY <2>4, <2>5, <2>6 DEF Conns
<1>. QED  BY <1>1, ExplainInit, ExplainStep, StreamInit, StreamStep, PTL DEF Spec
=============================================================================

-------------------------- MODULE KdmServicesProofs --------------------------
(***************************************************************************)
(* Proofs about KdmServices, for every number of requests, keys and        *)
(* values, over either transport.                                          *)
(***************************************************************************)
EXTENDS KdmServices, TLAPS

(***************************************************************************)
(* The two ends of a request.  A handler starts with the selection of the  *)
(* protocol, works on one kind of request, and has sent its response       *)
(* before it is done; the client returns once.                             *)
(***************************************************************************)
Responded == {"report", "done"}

ClientOK(r) ==
  /\ cpc[r] = "idle" <=> kind[r] = "none"
  /\ cpc[r] # "idle" => key[r] \in Key
  /\ cpc[r] \in {"idle", "dial"} => conn[r] = "none"
  /\ cpc[r] \in {"idle", "dial", "select", "encode"} => ~sent[r]
  /\ cpc[r] = "learn" => kind[r] = "bootstrap" /\ conn[r] = "closed"
  /\ cpc[r] = "done" <=> result[r] # "none"

ServerOK(r) ==
  /\ cpc[r] \in {"idle", "dial", "select"} => spc[r] = "none"
  /\ spc[r] \in {"invalid", "get", "getting", "closest", "addPeer"} => kind[r] # "store"
  /\ spc[r] \in {"set", "setting"} => kind[r] = "store"
  /\ wire[r] # nil => spc[r] \in Responded
  /\ cpc[r] = "learn" \/ result[r] = "ok" => spc[r] \in Responded

EndsInv == TypeOK /\ \A r \in Request : ClientOK(r) /\ ServerOK(r)

(* A response with a value or none, an ID or none and a known error.       *)
LEMMA ResponseType ==
  ASSUME NEW v \in Value \cup {nil}, NEW id \in {ServerID, nil}, NEW e \in Errors
  PROVE  /\ Response(v, id, e) \in Responses
         /\ Response(v, id, e).value = v
         /\ Response(v, id, e).id = id
         /\ Response(v, id, e).err = e
BY DEF Response, Responses

(* Sending keeps the connection and leaves a response in it or nothing new. *)
LEMMA SendType ==
  ASSUME TypeOK, NEW r \in Request, NEW m \in Responses \cup {nil}, Send(r, m)
  PROVE  wire' \in [Request -> Responses \cup {nil}] /\ UNCHANGED <<conn, sent>>
BY DEF Send, TypeOK

(* Every step of a client keeps the types.                                 *)
LEMMA ClientTypeStep ==
  ASSUME TypeOK, NEW r \in Request, Issue(r) \/ ClientStep(r) \/ Break(r)
  PROVE  TypeOK'
<1>. USE DEF TypeOK, setup, asked, returned, network, server
<1>1. CASE Issue(r)
  BY <1>1, KdmServicesAssumption DEF Issue
<1>2. CASE Dial(r)
  BY <1>2 DEF Dial
<1>3. CASE DialFails(r)
  BY <1>3 DEF DialFails, Return
<1>4. CASE Select(r)
  BY <1>4 DEF Select
<1>5. CASE SelectFails(r)
  BY <1>5 DEF SelectFails, Return
<1>6. CASE Encode(r)
  <2>1. sent' = [sent EXCEPT ![r] = TRUE] \/ sent' = [sent EXCEPT ![r] = FALSE]
    BY <1>6 DEF Encode
  <2>2. sent' \in [Request -> BOOLEAN]
    BY <2>1, Zenon
  <2>. QED  BY <1>6, <2>2 DEF Encode
<1>7. CASE EncodeFails(r)
  BY <1>7 DEF EncodeFails, Return, Close
<1>8. CASE DecodeFails(r)
  <2>1. \E e \in {"readError", "invalidResponse"} : Return(r, e)
    BY <1>8 DEF DecodeFails
  <2>. QED  BY <1>8, <2>1 DEF DecodeFails, Return, Close
<1>9. CASE Decode(r)
  <2>1. wire[r] \in Responses
    BY <1>9 DEF Decode
  <2>2. wire[r].err \in Errors /\ wire[r].value \in Value \cup {nil}
    BY <2>1 DEF Responses
  <2>3. convertToError(wire[r].err) \in {"ok", "invalidRequest", "other"}
    BY <2>2 DEF convertToError, Errors
  <2>4. \/ cpc' = [cpc EXCEPT ![r] = "learn"] /\ UNCHANGED <<result, answer>>
        \/ \E e \in {"ok", "invalidRequest", "other", "invalidResponse"} :
             Return(r, e) /\ answer' = [answer EXCEPT ![r] = wire[r].value]
    BY <1>9, <2>3 DEF Decode
  <2>5. answer' \in [Request -> Value \cup {nil}]
    BY <2>2, <2>4
  <2>6. /\ result' \in [Request -> {"none", "ok", "unreachable", "invalidResponse",
                                   "invalidRequest", "internalServerError", "other",
                                   "readError", "noSpace"}]
        /\ cpc' \in [Request -> {"idle", "dial", "select", "encode", "decode", "learn", "done"}]
    BY <2>4 DEF Return
  <2>. QED  BY <1>9, <2>5, <2>6 DEF Decode, Close
<1>10. CASE ReadStored(r)
  <2>1. \E e \in {"ok", "invalidResponse"} : Return(r, e)
    BY <1>10 DEF ReadStored
  <2>2. Close(r) /\ UNCHANGED <<setup, asked, answer, clientKnows, server>>
    BY <1>10 DEF ReadStored
  <2>. QED  BY <2>1, <2>2 DEF Return, Close
<1>11. CASE BootstrapAddPeer(r)
  <2>1. clientKnows' \in BOOLEAN /\ \E e \in {"ok", "noSpace"} : Return(r, e)
    BY <1>11 DEF BootstrapAddPeer
  <2>. QED  BY <1>11, <2>1 DEF BootstrapAddPeer, Return
<1>12. CASE Break(r)
  <2>1. sent' \in [Request -> BOOLEAN]
    BY <1>12, Zenon DEF Break
  <2>2. wire' \in [Request -> Responses \cup {nil}]
    BY <1>12 DEF Break
  <2>. QED  BY <1>12, <2>1, <2>2 DEF Break
<1>. QED
  BY <1>1, <1>2, <1>3, <1>4, <1>5, <1>6, <1>7, <1>8, <1>9, <1>10, <1>11, <1>12 DEF ClientStep

(* Every step of a handler keeps the types; the key of a request that has  *)
(* a handler is a key of the table.                                        *)
LEMMA ServerTypeStep ==
  ASSUME EndsInv, NEW r \in Request, ServerStep(r)
  PROVE  TypeOK'
<1>. USE DEF EndsInv, TypeOK, setup, asked, returned, network, server, kept
<1>0. \A e \in Errors : Response(nil, nil, e) \in Responses
  BY ResponseType
<1>1. CASE Receive(r)
  <2>1. sent' \in [Request -> BOOLEAN]
    BY <1>1, Zenon DEF Receive
  <2>2. \E p \in {"set", "get", "invalid"} : Goto(r, p)
    BY <1>1 DEF Receive
  <2>. QED  BY <1>1, <2>1, <2>2 DEF Receive, Goto
<1>2. CASE ReceiveFails(r)
  <2>1. PICK e \in {"failed", "invalidRequest"} : Send(r, Response(nil, nil, e))
    BY <1>2 DEF ReceiveFails
  <2>2. wire' \in [Request -> Responses \cup {nil}] /\ UNCHANGED <<conn, sent>>
    BY <1>0, <2>1, SendType DEF Errors
  <2>3. \E p \in {"report", "done"} : Goto(r, p)
    BY <1>2 DEF ReceiveFails
  <2>. QED  BY <1>2, <2>2, <2>3 DEF ReceiveFails, Goto
<1>3. CASE GetBegin(r)
  <2>1. raced' \subseteq Request
    BY <1>3 DEF GetBegin
  <2>. QED  BY <1>3, <2>1 DEF GetBegin, Goto
<1>4. CASE SetBegin(r)
  <2>1. raced' \subseteq Request
    BY <1>4 DEF SetBegin, Reading, Writing
  <2>. QED  BY <1>4, <2>1 DEF SetBegin, Goto
<1>5. CASE Report(r)
  BY <1>5 DEF Report, Goto
<1>6. CASE GetEnd(r)
  <2>1. key[r] \in Key
    BY <1>6 DEF GetEnd, Handler, ClientOK, ServerOK
  <2>2. \/ Goto(r, "closest") /\ UNCHANGED res
        \/ \E v \in Value \cup {nil} :
             Goto(r, "addPeer") /\ res' = [res EXCEPT ![r] = Response(v, ServerID, "")]
    BY <1>6, <2>1 DEF GetEnd
  <2>3. \A v \in Value \cup {nil} : Response(v, ServerID, "") \in Responses
    BY ResponseType DEF Errors
  <2>a. res' = res \/ \E m \in Responses : res' = [res EXCEPT ![r] = m]
    BY <2>2, <2>3
  <2>4. res' \in [Request -> Responses \cup {nil}]
    BY <2>a
  <2>5. \E p \in {"closest", "addPeer"} : Goto(r, p)
    BY <2>2
  <2>6. UNCHANGED <<kept, network, data, raced, serverKnows, noRoom, crashed>>
    BY <1>6 DEF GetEnd
  <2>. QED  BY <2>4, <2>5, <2>6 DEF Goto
<1>7. CASE SetEnd(r)
  <2>1. key[r] \in Key
    BY <1>7 DEF SetEnd, Handler, ClientOK, ServerOK
  <2>2. \E v \in Value \cup {nil} : data' = [data EXCEPT ![key[r]] = v]
    BY <1>7, <2>1 DEF SetEnd, Value
  <2>3. Response(nil, nil, "") \in Responses
    BY <1>0 DEF Errors
  <2>. QED  BY <1>7, <2>2, <2>3 DEF SetEnd, Goto
<1>8. CASE GetClosest(r)
  <2>1. Response(nil, ServerID, "") \in Responses
    BY ResponseType DEF Errors
  <2>. QED  BY <1>8, <2>1 DEF GetClosest, Goto
<1>9. CASE tryAddPeerToStore(r)
  <2>1. serverKnows' \in BOOLEAN /\ noRoom' \in BOOLEAN
    BY <1>9 DEF tryAddPeerToStore
  <2>. QED  BY <1>9, <2>1 DEF tryAddPeerToStore, Goto
<1>10. CASE Fails(r)
  <2>1. wire' \in [Request -> Responses \cup {nil}] /\ UNCHANGED <<conn, sent>>
    BY <1>0, <1>10, SendType DEF Fails, Errors
  <2>. QED  BY <1>10, <2>1 DEF Fails, Goto
<1>11. CASE tryAddPeerFails(r)
  <2>1. wire' \in [Request -> Responses \cup {nil}] /\ UNCHANGED <<conn, sent>>
    BY <1>0, <1>11, SendType DEF tryAddPeerFails, Errors
  <2>. QED  BY <1>11, <2>1 DEF tryAddPeerFails, Goto
<1>12. CASE SetFails(r)
  <2>1. wire' \in [Request -> Responses \cup {nil}] /\ UNCHANGED <<conn, sent>>
    BY <1>0, <1>12, SendType DEF SetFails, Errors
  <2>. QED  BY <1>12, <2>1 DEF SetFails, Goto
<1>13. CASE sendResponse(r)
  <2>1. wire' \in [Request -> Responses \cup {nil}] /\ UNCHANGED <<conn, sent>>
    BY <1>13, SendType DEF sendResponse
  <2>. QED  BY <1>13, <2>1 DEF sendResponse, Goto
<1>. QED
  BY <1>1, <1>2, <1>3, <1>4, <1>5, <1>6, <1>7, <1>8, <1>9, <1>10, <1>11, <1>12, <1>13
     DEF ServerStep

(***************************************************************************)
(* A step of one request leaves the others alone.                          *)
(***************************************************************************)
Untouched(s) ==
  /\ kind'[s] = kind[s] /\ key'[s] = key[s] /\ before'[s] = before[s]
  /\ cpc'[s] = cpc[s] /\ result'[s] = result[s] /\ answer'[s] = answer[s]
  /\ conn'[s] = conn[s] /\ sent'[s] = sent[s] /\ wire'[s] = wire[s]
  /\ spc'[s] = spc[s] /\ res'[s] = res[s]

(* A client works on its own connection.                                   *)
LEMMA ClientLocal ==
  ASSUME TypeOK, NEW r \in Request, Issue(r) \/ ClientStep(r) \/ Break(r),
         NEW s \in Request, s # r
  PROVE  Untouched(s)
<1>. USE DEF TypeOK, Untouched, setup, asked, returned, network, server
<1>1. CASE Issue(r)
  BY <1>1 DEF Issue
<1>2. CASE Dial(r)
  BY <1>2 DEF Dial
<1>3. CASE DialFails(r)
  BY <1>3 DEF DialFails, Return
<1>4. CASE Select(r)
  BY <1>4 DEF Select
<1>5. CASE SelectFails(r)
  BY <1>5 DEF SelectFails, Return
<1>6. CASE Encode(r)
  BY <1>6 DEF Encode
<1>7. CASE EncodeFails(r)
  BY <1>7 DEF EncodeFails, Return, Close
<1>8. CASE DecodeFails(r)
  BY <1>8 DEF DecodeFails, Return, Close
<1>9. CASE Decode(r)
  <2>1. cpc'[s] = cpc[s] /\ result'[s] = result[s] /\ answer'[s] = answer[s]
    BY <1>9 DEF Decode, Return
  <2>2. Close(r) /\ UNCHANGED <<setup, asked, clientKnows, server>>
    BY <1>9 DEF Decode
  <2>. QED  BY <2>1, <2>2 DEF Close
<1>10. CASE ReadStored(r)
  <2>1. cpc'[s] = cpc[s] /\ result'[s] = result[s]
    BY <1>10 DEF ReadStored, Return
  <2>2. Close(r) /\ UNCHANGED <<setup, asked, answer, clientKnows, server>>
    BY <1>10 DEF ReadStored
  <2>. QED  BY <2>1, <2>2 DEF Close
<1>11. CASE BootstrapAddPeer(r)
  BY <1>11 DEF BootstrapAddPeer, Return
<1>12. CASE Break(r)
  BY <1>12 DEF Break
<1>. QED
  BY <1>1, <1>2, <1>3, <1>4, <1>5, <1>6, <1>7, <1>8, <1>9, <1>10, <1>11, <1>12 DEF ClientStep

(* A handler works on its own connection; the handlers share the table and *)
(* the peer store only.                                                    *)
LEMMA ServerLocal ==
  ASSUME TypeOK, NEW r \in Request, ServerStep(r), NEW s \in Request, s # r
  PROVE  Untouched(s)
<1>. USE DEF TypeOK, Untouched, setup, asked, returned, network, server, kept, Goto, Send
<1>1. CASE Receive(r)
  <2>1. sent'[s] = sent[s] /\ spc'[s] = spc[s]
    BY <1>1 DEF Receive
  <2>2. UNCHANGED <<kept, conn, wire, res, data, raced, serverKnows, noRoom, crashed>>
    BY <1>1 DEF Receive
  <2>. QED  BY <2>1, <2>2
<1>2. CASE ReceiveFails(r)
  <2>1. wire'[s] = wire[s] /\ spc'[s] = spc[s]
    BY <1>2 DEF ReceiveFails
  <2>2. UNCHANGED <<kept, conn, sent, res, data, raced, serverKnows, noRoom, crashed>>
    BY <1>2 DEF ReceiveFails
  <2>. QED  BY <2>1, <2>2
<1>3. CASE GetBegin(r)
  BY <1>3 DEF GetBegin
<1>4. CASE SetBegin(r)
  BY <1>4 DEF SetBegin
<1>5. CASE Report(r)
  BY <1>5 DEF Report
<1>6. CASE GetEnd(r)
  <2>a. \/ Goto(r, "closest") /\ UNCHANGED res
        \/ \E m : Goto(r, "addPeer") /\ res' = [res EXCEPT ![r] = m]
    BY <1>6 DEF GetEnd
  <2>1. spc'[s] = spc[s] /\ res'[s] = res[s]
    BY <2>a
  <2>2. UNCHANGED <<kept, network, data, raced, serverKnows, noRoom, crashed>>
    BY <1>6 DEF GetEnd
  <2>. QED  BY <2>1, <2>2
<1>7. CASE SetEnd(r)
  BY <1>7 DEF SetEnd
<1>8. CASE GetClosest(r)
  BY <1>8 DEF GetClosest
<1>9. CASE tryAddPeerToStore(r)
  BY <1>9 DEF tryAddPeerToStore
<1>10. CASE Fails(r)
  BY <1>10 DEF Fails
<1>11. CASE tryAddPeerFails(r)
  BY <1>11 DEF tryAddPeerFails
<1>12. CASE SetFails(r)
  BY <1>12 DEF SetFails
<1>13. CASE sendResponse(r)
  BY <1>13 DEF sendResponse
<1>. QED
  BY <1>1, <1>2, <1>3, <1>4, <1>5, <1>6, <1>7, <1>8, <1>9, <1>10, <1>11, <1>12, <1>13
     DEF ServerStep

(***************************************************************************)
(* What a step does at the request it is of.                               *)
(***************************************************************************)
(* Do of kdmgetvalue returns no error only for a response without one, and *)
(* Bootstrap goes on only then.                                            *)
LEMMA DecodeOutcome ==
  ASSUME TypeOK, NEW r \in Request, Decode(r)
  PROVE  /\ cpc[r] = "decode" /\ kind[r] # "store" /\ wire[r] # nil
         /\ wire[r] \in Responses
         /\ Close(r) /\ UNCHANGED <<setup, asked, clientKnows, server>>
         /\ \/ /\ kind[r] = "bootstrap" /\ wire[r].err = ""
               /\ cpc' = [cpc EXCEPT ![r] = "learn"] /\ UNCHANGED <<result, answer>>
            \/ /\ \E e \in {"ok", "invalidRequest", "other", "invalidResponse"} :
                    /\ Return(r, e)
                    /\ e = "ok" => kind[r] # "bootstrap" /\ wire[r].err = ""
                    /\ authenticated /\ e # "invalidResponse" =>
                         wire[r].id = ServerID /\ (wire[r].err = "" => e = "ok")
               /\ answer' = [answer EXCEPT ![r] = wire[r].value]
<1>1. cpc[r] = "decode" /\ kind[r] # "store" /\ wire[r] # nil
  BY DEF Decode
<1>2. wire[r] \in Responses
  BY <1>1 DEF TypeOK
<1>3. wire[r].err \in Errors
  BY <1>2 DEF Responses
<1>4. Close(r) /\ UNCHANGED <<setup, asked, clientKnows, server>>
  BY DEF Decode
<1>. DEFINE c == convertToError(wire[r].err)
            e == IF isValidResponse(wire[r]) THEN c ELSE "invalidResponse"
<1>5. c \in {"ok", "invalidRequest", "other"} /\ (c = "ok" <=> wire[r].err = "")
  BY <1>3 DEF convertToError, Errors
<1>6. /\ e \in {"ok", "invalidRequest", "other", "invalidResponse"}
      /\ e = "ok" => wire[r].err = ""
      /\ authenticated /\ e # "invalidResponse" =>
           wire[r].id = ServerID /\ (wire[r].err = "" => e = "ok")
  BY <1>5 DEF isValidResponse
<1>7. IF e = "ok" /\ kind[r] = "bootstrap"
        THEN cpc' = [cpc EXCEPT ![r] = "learn"] /\ UNCHANGED <<result, answer>>
        ELSE Return(r, e) /\ answer' = [answer EXCEPT ![r] = wire[r].value]
  BY DEF Decode
<1>. HIDE DEF c, e
<1>. QED  BY <1>1, <1>2, <1>4, <1>6, <1>7

(* The client's steps keep the two ends of a request together.             *)
LEMMA ClientEndsStep ==
  ASSUME EndsInv, NEW r \in Request, Issue(r) \/ ClientStep(r) \/ Break(r)
  PROVE  ClientOK(r)' /\ ServerOK(r)'
<1>a. Decode(r) =>
        \/ kind[r] = "bootstrap" /\ cpc' = [cpc EXCEPT ![r] = "learn"] /\ result' = result
        \/ \E e \in {"ok", "invalidRequest", "other", "invalidResponse"} : Return(r, e)
  BY DecodeOutcome DEF EndsInv
<1>. USE DEF ClientOK, ServerOK, Responded, setup, asked, returned, network, server
<1>0. TypeOK /\ ClientOK(r) /\ ServerOK(r)
  BY DEF EndsInv
<1>. USE DEF TypeOK
<1>1. CASE Issue(r)
  BY <1>0, <1>1 DEF Issue
<1>2. CASE Dial(r)
  BY <1>0, <1>2 DEF Dial
<1>3. CASE DialFails(r)
  BY <1>0, <1>3 DEF DialFails, Return
<1>4. CASE Select(r)
  BY <1>0, <1>4 DEF Select
<1>5. CASE SelectFails(r)
  BY <1>0, <1>5 DEF SelectFails, Return
<1>6. CASE Encode(r)
  BY <1>0, <1>6 DEF Encode
<1>7. CASE EncodeFails(r)
  BY <1>0, <1>7 DEF EncodeFails, Return, Close
<1>8. CASE DecodeFails(r)
  <2>1. \E e \in {"readError", "invalidResponse"} : Return(r, e)
    BY <1>8 DEF DecodeFails
  <2>. QED  BY <1>0, <1>8, <2>1 DEF DecodeFails, Return, Close
<1>9. CASE Decode(r)
  <2>1. /\ cpc[r] = "decode" /\ wire[r] # nil
        /\ Close(r) /\ UNCHANGED <<setup, asked, clientKnows, server>>
    BY <1>0, <1>9, DecodeOutcome
  <2>2. \/ kind[r] = "bootstrap" /\ cpc'[r] = "learn" /\ result' = result
        \/ cpc'[r] = "done" /\ result'[r] # "none"
    BY <1>0, <1>9, <1>a DEF Return
  <2>. QED  BY <1>0, <2>1, <2>2 DEF Close
<1>10. CASE ReadStored(r)
  <2>1. \E e \in {"ok", "invalidResponse"} : Return(r, e)
    BY <1>10 DEF ReadStored
  <2>2. cpc[r] = "decode" /\ wire[r] # nil /\ Close(r) /\ UNCHANGED <<setup, asked, server>>
    BY <1>10 DEF ReadStored
  <2>. QED  BY <1>0, <2>1, <2>2 DEF Return, Close
<1>11. CASE BootstrapAddPeer(r)
  BY <1>0, <1>11 DEF BootstrapAddPeer, Return
<1>12. CASE Break(r)
  BY <1>0, <1>12 DEF Break
<1>. QED
  BY <1>1, <1>2, <1>3, <1>4, <1>5, <1>6, <1>7, <1>8, <1>9, <1>10, <1>11, <1>12 DEF ClientStep

(* The handler's steps do, too.                                            *)
LEMMA ServerEndsStep ==
  ASSUME EndsInv, NEW r \in Request, ServerStep(r)
  PROVE  ClientOK(r)' /\ ServerOK(r)'
<1>a. Receive(r) =>
        \/ kind[r] = "store" /\ Goto(r, "set")
        \/ kind[r] # "store" /\ (Goto(r, "get") \/ Goto(r, "invalid"))
  BY DEF Receive
<1>. USE DEF ClientOK, ServerOK, Responded, setup, asked, returned, network, server, kept,
             Handler, Goto, Send
<1>0. TypeOK /\ ClientOK(r) /\ ServerOK(r)
  BY DEF EndsInv
<1>. USE DEF TypeOK
<1>1. CASE Receive(r)
  <2>1. /\ sent'[r] = FALSE /\ UNCHANGED <<kept, conn, wire>> /\ spc[r] = "decode"
    BY <1>0, <1>1 DEF Receive
  <2>2. \/ kind[r] = "store" /\ spc'[r] = "set"
        \/ kind[r] # "store" /\ spc'[r] \in {"get", "invalid"}
    BY <1>0, <1>1, <1>a
  <2>. QED  BY <1>0, <2>1, <2>2
<1>2. CASE ReceiveFails(r)
  BY <1>0, <1>2 DEF ReceiveFails
<1>3. CASE GetBegin(r)
  BY <1>0, <1>3 DEF GetBegin
<1>4. CASE SetBegin(r)
  BY <1>0, <1>4 DEF SetBegin
<1>5. CASE Report(r)
  BY <1>0, <1>5 DEF Report
<1>6. CASE GetEnd(r)
  <2>1. \E p \in {"closest", "addPeer"} : Goto(r, p)
    BY <1>6 DEF GetEnd
  <2>2. Handler(r, "getting") /\ UNCHANGED <<kept, network>>
    BY <1>6 DEF GetEnd
  <2>. QED  BY <1>0, <2>1, <2>2
<1>7. CASE SetEnd(r)
  BY <1>0, <1>7 DEF SetEnd
<1>8. CASE GetClosest(r)
  BY <1>0, <1>8 DEF GetClosest
<1>9. CASE tryAddPeerToStore(r)
  BY <1>0, <1>9 DEF tryAddPeerToStore
<1>10. CASE Fails(r)
  BY <1>0, <1>10 DEF Fails
<1>11. CASE tryAddPeerFails(r)
  BY <1>0, <1>11 DEF tryAddPeerFails
<1>12. CASE SetFails(r)
  BY <1>0, <1>12 DEF SetFails
<1>13. CASE sendResponse(r)
  BY <1>0, <1>13 DEF sendResponse
<1>. QED
  BY <1>1, <1>2, <1>3, <1>4, <1>5, <1>6, <1>7, <1>8, <1>9, <1>10, <1>11, <1>12, <1>13
     DEF ServerStep

(* The server's crash breaks connections that are open and nothing else.   *)
LEMMA CrashEffect ==
  ASSUME TypeOK, Crash
  PROVE  /\ TypeOK'
         /\ UNCHANGED <<setup, asked, cpc, returned, sent, wire, spc, res, data, raced,
                        serverKnows, noRoom>>
         /\ \A r \in Request : conn'[r] = IF conn[r] = "open" THEN "broken" ELSE conn[r]
<1>1. UNCHANGED <<setup, asked, cpc, returned, sent, wire, spc, res, data, raced, serverKnows,
                  noRoom>>
  BY DEF Crash, kept
<1>2. \A r \in Request : conn'[r] = IF conn[r] = "open" THEN "broken" ELSE conn[r]
  BY DEF Crash
<1>3. conn' \in [Request -> {"none", "open", "broken", "closed"}] /\ crashed' \in BOOLEAN
  BY DEF Crash, TypeOK
<1>4. TypeOK'
  BY <1>1, <1>3 DEF TypeOK, setup, asked, returned
<1>. QED  BY <1>1, <1>2, <1>4

(* When the accept loops stop, or nothing happens, every request stays as  *)
(* it is.                                                                  *)
LEMMA StallEffect ==
  ASSUME TypeOK, Stall \/ UNCHANGED vars
  PROVE  /\ TypeOK'
         /\ UNCHANGED <<authenticated, asked, cpc, returned, network, server>>
         /\ \A s : Untouched(s)
<1>1. UNCHANGED <<authenticated, errChanRead, asked, cpc, returned, network, server>>
  BY DEF Stall, vars, setup
<1>2. accepting' \in BOOLEAN
  BY DEF Stall, TypeOK, vars, setup
<1>3. TypeOK'
  BY <1>1, <1>2 DEF TypeOK, asked, returned, network, server
<1>4. \A s : Untouched(s)
  BY <1>1 DEF Untouched, asked, returned, network, server
<1>. QED  BY <1>1, <1>3, <1>4

(* At the start no request is issued and no handler runs.                  *)
LEMMA EndsInit == Init => EndsInv
<1>. SUFFICES ASSUME Init PROVE EndsInv
  OBVIOUS
<1>1. sent \in [Request -> BOOLEAN] /\ data \in [Key -> Value \cup {nil}]
  BY DEF Init, Value
<1>2. TypeOK
  BY <1>1 DEF Init, TypeOK
<1>3. ASSUME NEW r \in Request PROVE ClientOK(r) /\ ServerOK(r)
  BY DEF Init, ClientOK, ServerOK
<1>. QED  BY <1>2, <1>3 DEF EndsInv

(* Every step keeps the two ends of each request together.                 *)
LEMMA EndsStep == EndsInv /\ [Next]_vars => EndsInv'
<1>. SUFFICES ASSUME EndsInv, [Next]_vars PROVE EndsInv'
  OBVIOUS
<1>0. TypeOK /\ \A s \in Request : ClientOK(s) /\ ServerOK(s)
  BY DEF EndsInv
<1>1. ASSUME NEW r \in Request, Issue(r) \/ ClientStep(r) \/ Break(r) PROVE EndsInv'
  <2>1. TypeOK'
    BY <1>0, <1>1, ClientTypeStep
  <2>2. ASSUME NEW s \in Request, s # r PROVE (ClientOK(s) /\ ServerOK(s))'
    <3>1. Untouched(s)
      BY <1>0, <1>1, <2>2, ClientLocal
    <3>. QED  BY <1>0, <3>1 DEF Untouched, ClientOK, ServerOK
  <2>3. ClientOK(r)' /\ ServerOK(r)'
    BY <1>1, ClientEndsStep
  <2>. QED  BY <2>1, <2>2, <2>3 DEF EndsInv
<1>2. ASSUME NEW r \in Request, ServerStep(r) PROVE EndsInv'
  <2>1. TypeOK'
    BY <1>2, ServerTypeStep
  <2>2. ASSUME NEW s \in Request, s # r PROVE (ClientOK(s) /\ ServerOK(s))'
    <3>1. Untouched(s)
      BY <1>0, <1>2, <2>2, ServerLocal
    <3>. QED  BY <1>0, <3>1 DEF Untouched, ClientOK, ServerOK
  <2>3. ClientOK(r)' /\ ServerOK(r)'
    BY <1>2, ServerEndsStep
  <2>. QED  BY <2>1, <2>2, <2>3 DEF EndsInv
<1>3. CASE Crash
  <2>1. TypeOK'
    BY <1>0, <1>3, CrashEffect
  <2>2. ASSUME NEW s \in Request PROVE (ClientOK(s) /\ ServerOK(s))'
    BY <1>0, <1>3, CrashEffect DEF ClientOK, ServerOK, asked, returned
  <2>. QED  BY <2>1, <2>2 DEF EndsInv
<1>4. CASE Stall \/ UNCHANGED vars
  <2>1. TypeOK' /\ \A s : Untouched(s)
    BY <1>0, <1>4, StallEffect
  <2>2. ASSUME NEW s \in Request PROVE (ClientOK(s) /\ ServerOK(s))'
    BY <1>0, <2>1 DEF Untouched, ClientOK, ServerOK
  <2>. QED  BY <2>1, <2>2 DEF EndsInv
<1>. QED  BY <1>1, <1>2, <1>3, <1>4 DEF Next

(* TypeOK: Do returns one of the errors of its package, and every response *)
(* has one of the forms its server sends.                                  *)
THEOREM TypeCorrect == Spec => []TypeOK
<1>1. EndsInv => TypeOK
  BY DEF EndsInv
<1>. QED  BY <1>1, EndsInit, EndsStep, PTL DEF Spec

(* EndsInv, for the theorems below.                                        *)
LEMMA EndsAlways == Spec => []EndsInv
BY EndsInit, EndsStep, PTL DEF Spec

(***************************************************************************)
(* What a response says.  An error response has no ID in it, and a         *)
(* response without an error comes after tryAddPeerToStore.                *)
(***************************************************************************)
ErrorOK(r) ==
  /\ res[r] # nil => res[r].err = ""
  /\ wire[r] # nil /\ wire[r].id = ServerID => wire[r].err = ""
  /\ authenticated /\ kind[r] = "get" /\ cpc[r] = "done" =>
       result[r] = "ok" \/ isExpectedKDMError(result[r])

(* The handler of r has added the client, or had no room for it.           *)
Added(r) ==
  \/ spc[r] = "reply"
  \/ wire[r] # nil /\ wire[r].err = ""
  \/ cpc[r] = "learn"

KnownOK(r) ==
  /\ authenticated /\ kind[r] # "store" /\ Added(r) => serverKnows \/ noRoom
  /\ kind[r] = "bootstrap" /\ result[r] = "ok" =>
       clientKnows /\ (authenticated => serverKnows \/ noRoom)

(* A connection that Do leaves open never carries the request.             *)
ConnOK(r) ==
  cpc[r] = "done" /\ conn[r] = "open" =>
    result[r] = "unreachable" /\ spc[r] \in {"none", "decode"} /\ ~sent[r]

ReplyInv == EndsInv /\ \A r \in Request : ErrorOK(r) /\ KnownOK(r) /\ ConnOK(r)

(* A node that is known stays known, and the transport stays what it is.   *)
LEMMA Remembered ==
  ASSUME TypeOK, [Next]_vars
  PROVE  /\ authenticated' = authenticated
         /\ clientKnows => clientKnows'
         /\ serverKnows \/ noRoom => serverKnows' \/ noRoom'
<1>. USE DEF TypeOK, setup, asked, returned, network, server, kept
<1>1. ASSUME NEW r \in Request, Issue(r) \/ ClientStep(r) \/ Break(r)
      PROVE  UNCHANGED <<authenticated, serverKnows, noRoom>> /\ (clientKnows => clientKnows')
  BY <1>1 DEF ClientStep, Issue, Break, Dial, DialFails, Select, SelectFails, Encode,
              EncodeFails, Decode, ReadStored, DecodeFails, BootstrapAddPeer
<1>2. ASSUME NEW r \in Request, ServerStep(r)
      PROVE  /\ UNCHANGED <<authenticated, clientKnows>>
             /\ serverKnows \/ noRoom => serverKnows' \/ noRoom'
  BY <1>2 DEF ServerStep, Receive, ReceiveFails, GetBegin, GetEnd, GetClosest, Fails,
              tryAddPeerToStore, tryAddPeerFails, sendResponse, SetBegin, SetEnd, SetFails,
              Report
<1>3. CASE Crash
  BY <1>3, CrashEffect
<1>4. CASE Stall \/ UNCHANGED vars
  BY <1>4, StallEffect
<1>. QED  BY <1>1, <1>2, <1>3, <1>4 DEF Next

(* The client's steps keep what is known of the reply.                     *)
LEMMA ClientReplyStep ==
  ASSUME ReplyInv, NEW r \in Request, Issue(r) \/ ClientStep(r) \/ Break(r)
  PROVE  ErrorOK(r)' /\ KnownOK(r)' /\ ConnOK(r)'
<1>a. Decode(r) =>
        /\ wire[r] # nil /\ kind[r] # "store" /\ Close(r)
        /\ UNCHANGED <<setup, asked, clientKnows, server>>
        /\ \/ /\ kind[r] = "bootstrap" /\ wire[r].err = ""
              /\ cpc' = [cpc EXCEPT ![r] = "learn"] /\ result' = result
           \/ \E e \in {"ok", "invalidRequest", "other", "invalidResponse"} :
                /\ Return(r, e)
                /\ e = "ok" => kind[r] # "bootstrap"
                /\ authenticated /\ e # "invalidResponse" =>
                     wire[r].id = ServerID /\ (wire[r].err = "" => e = "ok")
  BY DecodeOutcome DEF ReplyInv, EndsInv
<1>0. /\ TypeOK /\ ClientOK(r) /\ ServerOK(r) /\ ErrorOK(r) /\ KnownOK(r) /\ ConnOK(r)
      /\ ClientOK(r)' /\ ServerOK(r)'
  BY ClientEndsStep DEF ReplyInv, EndsInv
<1>. USE DEF TypeOK, ClientOK, ServerOK, ErrorOK, KnownOK, ConnOK, Added, isExpectedKDMError,
             Responded, setup, asked, returned, network, server
<1>1. CASE Issue(r)
  BY <1>0, <1>1 DEF Issue
<1>2. CASE Dial(r)
  BY <1>0, <1>2 DEF Dial
<1>3. CASE DialFails(r)
  BY <1>0, <1>3 DEF DialFails, Return
<1>4. CASE Select(r)
  BY <1>0, <1>4 DEF Select
<1>5. CASE SelectFails(r)
  BY <1>0, <1>5 DEF SelectFails, Return
<1>6. CASE Encode(r)
  BY <1>0, <1>6 DEF Encode
<1>7. CASE EncodeFails(r)
  BY <1>0, <1>7 DEF EncodeFails, Return, Close
<1>8. CASE DecodeFails(r)
  <2>1. (Return(r, "readError") /\ kind[r] = "store") \/ Return(r, "invalidResponse")
    BY <1>8 DEF DecodeFails
  <2>. QED  BY <1>0, <1>8, <2>1 DEF DecodeFails, Return, Close
<1>9. CASE Decode(r)
  <2>1. /\ conn'[r] = "closed" /\ wire'[r] = nil
        /\ UNCHANGED <<setup, asked, clientKnows, server>>
        /\ wire[r] # nil /\ kind[r] # "store"
    BY <1>0, <1>9, <1>a DEF Close
  <2>2. \/ /\ kind[r] = "bootstrap" /\ wire[r].err = ""
           /\ cpc'[r] = "learn" /\ result' = result
        \/ /\ cpc'[r] = "done" /\ (result'[r] = "ok" => kind[r] # "bootstrap")
           /\ authenticated => result'[r] \in {"ok", "invalidResponse"}
    BY <1>0, <1>9, <1>a DEF Return
  <2>. QED  BY <1>0, <2>1, <2>2
<1>10. CASE ReadStored(r)
  <2>1. \E e \in {"ok", "invalidResponse"} : Return(r, e)
    BY <1>10 DEF ReadStored
  <2>2. kind[r] = "store" /\ Close(r) /\ UNCHANGED <<setup, asked, clientKnows, server>>
    BY <1>10 DEF ReadStored
  <2>. QED  BY <1>0, <2>1, <2>2 DEF Return, Close
<1>11. CASE BootstrapAddPeer(r)
  BY <1>0, <1>11 DEF BootstrapAddPeer, Return
<1>12. CASE Break(r)
  BY <1>0, <1>12 DEF Break
<1>. QED
  BY <1>1, <1>2, <1>3, <1>4, <1>5, <1>6, <1>7, <1>8, <1>9, <1>10, <1>11, <1>12 DEF ClientStep

(* What a handler writes to the connection, if anything.                   *)
LEMMA Written ==
  ASSUME TypeOK, NEW r \in Request, NEW m, Send(r, m)
  PROVE  wire'[r] \in {wire[r], m} /\ UNCHANGED <<conn, sent>>
BY DEF Send, TypeOK

(* The handler's steps keep what is known of the reply.                    *)
LEMMA ServerReplyStep ==
  ASSUME ReplyInv, NEW r \in Request, ServerStep(r)
  PROVE  ErrorOK(r)' /\ KnownOK(r)' /\ ConnOK(r)'
<1>e. \A e \in Errors : /\ Response(nil, nil, e).err = e
                        /\ Response(nil, nil, e).id # ServerID
  BY ResponseType, KdmServicesAssumption
<1>v. \A v \in Value \cup {nil}, id \in {ServerID, nil} : Response(v, id, "").err = ""
  BY DEF Response
<1>a. Receive(r) => spc[r] = "decode" /\ \E p \in {"set", "get", "invalid"} : Goto(r, p)
  BY DEF Receive, Handler
<1>b. ReceiveFails(r) =>
        \E e \in {"failed", "invalidRequest"} : Send(r, Response(nil, nil, e))
  BY DEF ReceiveFails
<1>c. GetEnd(r) => \/ UNCHANGED res
                   \/ \E v \in Value \cup {nil} : res' = [res EXCEPT ![r] = Response(v, ServerID, "")]
  <2>1. Handler(r, "getting") => data[key[r]] \in Value \cup {nil}
    BY DEF ReplyInv, EndsInv, ClientOK, ServerOK, TypeOK, Handler
  <2>. QED  BY <2>1 DEF GetEnd
<1>0. /\ TypeOK /\ ClientOK(r) /\ ServerOK(r) /\ ErrorOK(r) /\ KnownOK(r) /\ ConnOK(r)
      /\ ClientOK(r)' /\ ServerOK(r)'
  BY ServerEndsStep DEF ReplyInv, EndsInv
<1>. USE DEF ClientOK, ServerOK, ErrorOK, KnownOK, ConnOK, Added, isExpectedKDMError,
             Responded, setup, asked, returned, network, server, kept, Handler
<1>1. CASE Receive(r)
  <2>1. /\ spc[r] = "decode" /\ spc'[r] \in {"set", "get", "invalid"} /\ sent[r]
        /\ UNCHANGED <<kept, conn, wire, res, serverKnows, noRoom>>
    BY <1>0, <1>1, <1>a DEF Receive, Goto, TypeOK
  <2>. QED  BY <1>0, <2>1
<1>2. CASE ReceiveFails(r)
  <2>1. wire'[r] = wire[r] \/ (wire'[r].err # "" /\ wire'[r].id # ServerID)
    BY <1>0, <1>2, <1>b, <1>e, Written DEF Errors
  <2>2. /\ spc'[r] \in {"report", "done"} /\ spc[r] \in {"decode", "invalid"}
        /\ spc[r] = "decode" => conn[r] # "open"
        /\ UNCHANGED <<kept, conn, sent, res, serverKnows, noRoom>>
    BY <1>0, <1>2 DEF ReceiveFails, Goto, TypeOK, Send, Down
  <2>. QED  BY <1>0, <2>1, <2>2
<1>3. CASE GetBegin(r)
  BY <1>0, <1>3 DEF GetBegin, Goto, TypeOK
<1>4. CASE SetBegin(r)
  BY <1>0, <1>4 DEF SetBegin, Goto, TypeOK
<1>5. CASE Report(r)
  <2>1. /\ spc'[r] = "done" /\ spc[r] = "report"
        /\ UNCHANGED <<kept, network, res, serverKnows, noRoom>>
    BY <1>0, <1>5 DEF Report, Goto, TypeOK
  <2>. QED  BY <1>0, <2>1
<1>6. CASE GetEnd(r)
  <2>a. res' = res \/ \E v \in Value \cup {nil} : res'[r] = Response(v, ServerID, "")
    BY <1>0, <1>6, <1>c DEF TypeOK
  <2>1. res'[r] = res[r] \/ res'[r].err = ""
    BY <1>v, <2>a
  <2>2. /\ spc[r] = "getting" /\ spc'[r] \in {"closest", "addPeer"}
        /\ UNCHANGED <<kept, network, serverKnows, noRoom>>
    BY <1>0, <1>6 DEF GetEnd, Goto, TypeOK
  <2>. QED  BY <1>0, <2>1, <2>2
<1>7. CASE SetEnd(r)
  <2>1. res'[r].err = ""
    BY <1>0, <1>7, <1>v DEF SetEnd, TypeOK
  <2>2. /\ spc[r] = "setting" /\ spc'[r] = "reply"
        /\ UNCHANGED <<kept, network, serverKnows, noRoom>>
    BY <1>0, <1>7 DEF SetEnd, Goto, TypeOK
  <2>. QED  BY <1>0, <2>1, <2>2
<1>8. CASE GetClosest(r)
  <2>1. res'[r].err = ""
    BY <1>0, <1>8, <1>v DEF GetClosest, TypeOK
  <2>2. /\ spc[r] = "closest" /\ spc'[r] = "addPeer"
        /\ UNCHANGED <<kept, network, serverKnows, noRoom>>
    BY <1>0, <1>8 DEF GetClosest, Goto, TypeOK
  <2>. QED  BY <1>0, <2>1, <2>2
<1>9. CASE tryAddPeerToStore(r)
  BY <1>0, <1>9 DEF tryAddPeerToStore, Goto, TypeOK
<1>10. CASE Fails(r)
  <2>1. wire'[r] = wire[r] \/ (wire'[r].err # "" /\ wire'[r].id # ServerID)
    BY <1>0, <1>10, <1>e, Written DEF Errors, Fails
  <2>2. /\ spc'[r] = "report" /\ spc[r] \in {"getting", "closest"}
        /\ UNCHANGED <<kept, conn, sent, res, serverKnows, noRoom>>
    BY <1>0, <1>10 DEF Fails, Goto, TypeOK, Send
  <2>. QED  BY <1>0, <2>1, <2>2
<1>11. CASE tryAddPeerFails(r)
  <2>1. wire'[r] = wire[r] \/ (wire'[r].err # "" /\ wire'[r].id # ServerID)
    BY <1>0, <1>11, <1>e, Written DEF Errors, tryAddPeerFails
  <2>2. /\ spc'[r] = "done" /\ spc[r] = "addPeer"
        /\ UNCHANGED <<kept, conn, sent, res, serverKnows, noRoom>>
    BY <1>0, <1>11 DEF tryAddPeerFails, Goto, TypeOK, Send
  <2>. QED  BY <1>0, <2>1, <2>2
<1>12. CASE SetFails(r)
  <2>1. wire'[r] = wire[r] \/ (wire'[r].err # "" /\ wire'[r].id # ServerID)
    BY <1>0, <1>12, <1>e, Written DEF Errors, SetFails
  <2>2. /\ spc'[r] = "report" /\ spc[r] = "setting"
        /\ UNCHANGED <<kept, conn, sent, res, serverKnows, noRoom>>
    BY <1>0, <1>12 DEF SetFails, Goto, TypeOK, Send
  <2>. QED  BY <1>0, <2>1, <2>2
<1>13. CASE sendResponse(r)
  <2>1. wire'[r] \in {wire[r], res[r]}
    BY <1>0, <1>13, Written DEF sendResponse
  <2>2. /\ spc'[r] \in {"report", "done"} /\ spc[r] = "reply" /\ res'[r] = nil
        /\ UNCHANGED <<kept, conn, sent, serverKnows, noRoom>>
    BY <1>0, <1>13 DEF sendResponse, Goto, TypeOK, Send
  <2>. QED  BY <1>0, <2>1, <2>2
<1>. QED
  BY <1>1, <1>2, <1>3, <1>4, <1>5, <1>6, <1>7, <1>8, <1>9, <1>10, <1>11, <1>12, <1>13
     DEF ServerStep

(* ReplyInv holds at the start.                                            *)
LEMMA ReplyInit == Init => ReplyInv
<1>. SUFFICES ASSUME Init PROVE ReplyInv
  OBVIOUS
<1>1. ASSUME NEW r \in Request PROVE ErrorOK(r) /\ KnownOK(r) /\ ConnOK(r)
  BY DEF Init, ErrorOK, KnownOK, Added, ConnOK
<1>. QED  BY <1>1, EndsInit DEF ReplyInv

(* Every step keeps what is known of the replies.                          *)
LEMMA ReplyStep == ReplyInv /\ [Next]_vars => ReplyInv'
<1>. SUFFICES ASSUME ReplyInv, [Next]_vars PROVE ReplyInv'
  OBVIOUS
<1>0. EndsInv' /\ TypeOK /\ \A s \in Request : ErrorOK(s) /\ KnownOK(s) /\ ConnOK(s)
  BY EndsStep DEF ReplyInv, EndsInv
<1>m. /\ authenticated' = authenticated
      /\ clientKnows => clientKnows'
      /\ serverKnows \/ noRoom => serverKnows' \/ noRoom'
  BY <1>0, Remembered
<1>u. ASSUME NEW s \in Request, Untouched(s) PROVE (ErrorOK(s) /\ KnownOK(s) /\ ConnOK(s))'
  BY <1>0, <1>m, <1>u DEF Untouched, ErrorOK, KnownOK, Added, ConnOK
<1>1. ASSUME NEW r \in Request, Issue(r) \/ ClientStep(r) \/ Break(r) PROVE ReplyInv'
  <2>1. ASSUME NEW s \in Request, s # r PROVE (ErrorOK(s) /\ KnownOK(s) /\ ConnOK(s))'
    BY <1>0, <1>1, <1>u, <2>1, ClientLocal
  <2>2. (ErrorOK(r) /\ KnownOK(r) /\ ConnOK(r))'
    BY <1>1, ClientReplyStep
  <2>. QED  BY <1>0, <2>1, <2>2 DEF ReplyInv
<1>2. ASSUME NEW r \in Request, ServerStep(r) PROVE ReplyInv'
  <2>1. ASSUME NEW s \in Request, s # r PROVE (ErrorOK(s) /\ KnownOK(s) /\ ConnOK(s))'
    BY <1>0, <1>2, <1>u, <2>1, ServerLocal
  <2>2. (ErrorOK(r) /\ KnownOK(r) /\ ConnOK(r))'
    BY <1>2, ServerReplyStep
  <2>. QED  BY <1>0, <2>1, <2>2 DEF ReplyInv
<1>3. CASE Crash
  <2>1. ASSUME NEW s \in Request PROVE (ErrorOK(s) /\ KnownOK(s) /\ ConnOK(s))'
    BY <1>0, <1>3, <1>m, CrashEffect DEF ErrorOK, KnownOK, Added, ConnOK, asked, returned
  <2>. QED  BY <1>0, <2>1 DEF ReplyInv
<1>4. CASE Stall \/ UNCHANGED vars
  BY <1>0, <1>4, <1>u, StallEffect DEF ReplyInv
<1>. QED  BY <1>1, <1>2, <1>3, <1>4 DEF Next

(* BootstrapMutual: after a Bootstrap over the encrypted transport the two *)
(* nodes know each other, unless the client's bucket was full.             *)
THEOREM BootstrapIsMutual == Spec => []BootstrapMutual
<1>1. ReplyInv => BootstrapMutual
  BY DEF ReplyInv, KnownOK, BootstrapMutual
<1>. QED  BY <1>1, ReplyInit, ReplyStep, PTL DEF Spec

(* HonestPeerDoesNotAbort: over the encrypted transport whatever goes      *)
(* wrong with a peer that runs this code, as the server of KdmServices     *)
(* does, is an error after which a search goes on.                         *)
THEOREM HonestPeerIsExpected == Spec => []HonestPeerDoesNotAbort
<1>1. ReplyInv => HonestPeerDoesNotAbort
  BY DEF ReplyInv, ErrorOK, HonestPeerDoesNotAbort
<1>. QED  BY <1>1, ReplyInit, ReplyStep, PTL DEF Spec

(* ConnClosed: after a selection that succeeded the connection is closed   *)
(* when Do returns.  After dialling or a selection that failed it may be   *)
(* left open; then the request was not sent, and a handler that runs still *)
(* waits for it.                                                           *)
THEOREM DoCloses == Spec => []ConnClosed
<1>1. ReplyInv => ConnClosed
  BY DEF ReplyInv, ConnOK, ConnClosed
<1>. QED  BY <1>1, ReplyInit, ReplyStep, PTL DEF Spec

(***************************************************************************)
(* What a get may answer.  The argument for StoresSeen: as long as no two  *)
(* writes overlap, the table holds, from the write of a store s on, a      *)
(* value stored under its key by a request that had not succeeded when s   *)
(* was issued: a request that had succeeded has written before and does    *)
(* not write again.  A get that is issued after s succeeded, and overlaps  *)
(* no write, reads the table after that.                                   *)
(***************************************************************************)
NoStoreRaced == \A x \in Key : Stores(x) \cap raced = {}

HistoryOK(r) == r \notin before[r] /\ \A s \in before[r] : result[s] = "ok"

(* The handler of the store s has written its value.                       *)
Applied(s) ==
  /\ kind[s] = "store"
  /\ \/ spc[s] = "reply"
     \/ wire[s] # nil /\ wire[s].err = ""
     \/ result[s] = "ok"

DataOK(s) == Applied(s) /\ NoStoreRaced => data[key[s]] \in Stores(key[s]) \ before[s]

(* The answers to r that StoresSeen allows.                                *)
Acceptable(r) ==
  {v \in Value \cup {nil} : \A s \in before[r] \cap Stores(key[r]) :
                              v \in Stores(key[r]) \ before[s]}

Quiet(r) == kind[r] = "get" /\ r \notin raced /\ NoStoreRaced

(* What is on its way to the client of r is acceptable.                    *)
Answered(r) ==
  /\ spc[r] = "closest" => nil \in Acceptable(r)
  /\ spc[r] \in {"addPeer", "reply"} /\ res[r] # nil => res[r].value \in Acceptable(r)
  /\ wire[r] # nil /\ wire[r].err = "" => wire[r].value \in Acceptable(r)
  /\ result[r] = "ok" => answer[r] \in Acceptable(r)

SeenOK(r) == Quiet(r) => Answered(r)

SeenInv == ReplyInv /\ \A r \in Request : HistoryOK(r) /\ DataOK(r) /\ SeenOK(r)

(* A request that is issued keeps what it asks for, one that has succeeded *)
(* has succeeded for good, and a race is not undone.                       *)
LEMMA Stable ==
  ASSUME EndsInv, [Next]_vars
  PROVE  /\ raced \subseteq raced'
         /\ \A s \in Request : kind[s] # "none" =>
              kind'[s] = kind[s] /\ key'[s] = key[s] /\ before'[s] = before[s]
         /\ \A s \in Request : result[s] = "ok" => result'[s] = "ok"
<1>0. TypeOK /\ \A s \in Request : ClientOK(s) /\ ServerOK(s)
  BY DEF EndsInv
<1>1. ASSUME NEW r \in Request, Issue(r) \/ ClientStep(r) \/ Break(r)
      PROVE  /\ raced' = raced
             /\ kind[r] # "none" => UNCHANGED asked
             /\ result[r] = "ok" => result'[r] = "ok"
  <2>. USE DEF TypeOK, ClientOK, setup, asked, returned, network, server, Return
  <2>1. CASE Issue(r)
    BY <1>0, <2>1 DEF Issue
  <2>2. CASE ClientStep(r)
    <3>1. UNCHANGED <<asked, raced>> /\ cpc[r] # "done"
      BY <2>2 DEF ClientStep, Dial, DialFails, Select, SelectFails, Encode, EncodeFails, Decode,
                  ReadStored, DecodeFails, BootstrapAddPeer
    <3>. QED  BY <1>0, <3>1
  <2>3. CASE Break(r)
    BY <2>3 DEF Break
  <2>. QED  BY <1>1, <2>1, <2>2, <2>3
<1>2. ASSUME NEW r \in Request, ServerStep(r)
      PROVE  raced \subseteq raced' /\ UNCHANGED <<asked, result>>
  BY <1>2 DEF ServerStep, Receive, ReceiveFails, GetBegin, GetEnd, GetClosest, Fails,
              tryAddPeerToStore, tryAddPeerFails, sendResponse, SetBegin, SetEnd, SetFails,
              Report, kept, returned
<1>3. CASE \E r \in Request : Issue(r) \/ ClientStep(r) \/ Break(r)
  <2>1. PICK r \in Request : Issue(r) \/ ClientStep(r) \/ Break(r)
    BY <1>3
  <2>2. \A s \in Request \ {r} : Untouched(s)
    BY <1>0, <2>1, ClientLocal
  <2>. QED  BY <1>1, <2>1, <2>2 DEF Untouched, asked
<1>4. CASE \E r \in Request : ServerStep(r)
  BY <1>2, <1>4 DEF asked
<1>5. CASE Crash
  BY <1>0, <1>5, CrashEffect DEF asked, returned
<1>6. CASE Stall \/ UNCHANGED vars
  BY <1>0, <1>6, StallEffect DEF asked, returned, server
<1>. QED  BY <1>3, <1>4, <1>5, <1>6 DEF Next

(* Stores are never taken back, and what was free of races was so before.  *)
LEMMA StoresGrow ==
  ASSUME EndsInv, [Next]_vars
  PROVE  /\ \A x \in Key : Stores(x) \subseteq Stores(x)'
         /\ NoStoreRaced' => NoStoreRaced
<1>1. \A x \in Key : Stores(x) \subseteq Stores(x)'
  BY Stable DEF Stores
<1>. QED  BY <1>1, Stable DEF NoStoreRaced

(* The requests that r had seen succeed are the same ever after, and       *)
(* answers that are acceptable stay so.                                    *)
LEMMA AcceptableGrows ==
  ASSUME EndsInv, [Next]_vars, NEW r \in Request, kind[r] # "none", HistoryOK(r)
  PROVE  Acceptable(r) \subseteq Acceptable(r)'
<1>1. key[r] \in Key /\ key'[r] = key[r] /\ before'[r] = before[r] /\ before[r] \subseteq Request
  BY Stable DEF EndsInv, TypeOK, ClientOK
<1>2. Stores(key[r]) \subseteq Stores(key[r])'
  BY <1>1, StoresGrow DEF Stores
<1>3. ASSUME NEW s \in before[r] PROVE kind[s] # "none" /\ s \in Request
  BY <1>1, <1>3 DEF HistoryOK, EndsInv, ClientOK
<1>4. ASSUME NEW s \in before[r], s \in Stores(key[r])'
      PROVE  s \in Stores(key[r]) /\ before'[s] = before[s]
  BY <1>1, <1>3, <1>4, Stable DEF Stores
<1>. QED  BY <1>1, <1>2, <1>4 DEF Acceptable

(* A request is issued after those it has seen succeed.                    *)
LEMMA HistoryStep ==
  ASSUME EndsInv, [Next]_vars, NEW r \in Request, HistoryOK(r)
  PROVE  HistoryOK(r)'
<1>1. before[r] \subseteq Request
  BY DEF EndsInv, TypeOK
<1>2. CASE before'[r] = before[r]
  BY <1>1, <1>2, Stable DEF HistoryOK
<1>3. CASE Issue(r)
  <2>1. before'[r] = {s \in Request : result[s] = "ok"} /\ result' = result
    BY <1>3 DEF Issue, EndsInv, TypeOK, returned
  <2>2. result[r] = "none"
    BY <1>3 DEF Issue, EndsInv, ClientOK
  <2>. QED  BY <2>1, <2>2 DEF HistoryOK
<1>4. before'[r] = before[r] \/ Issue(r)
  <2>1. CASE \E s \in Request : Issue(s)
    <3>1. PICK s \in Request : Issue(s)
      BY <2>1
    <3>. QED  BY <3>1 DEF Issue, EndsInv, TypeOK
  <2>2. CASE \E s \in Request : ClientStep(s)
    BY <2>2 DEF ClientStep, Dial, DialFails, Select, SelectFails, Encode, EncodeFails, Decode,
                ReadStored, DecodeFails, BootstrapAddPeer, asked
  <2>3. CASE \E s \in Request : ServerStep(s)
    BY <2>3 DEF ServerStep, Receive, ReceiveFails, GetBegin, GetEnd, GetClosest, Fails,
                tryAddPeerToStore, tryAddPeerFails, sendResponse, SetBegin, SetEnd, SetFails,
                Report, kept, asked
  <2>4. CASE \E s \in Request : Break(s)
    BY <2>4 DEF Break, asked
  <2>5. CASE Crash
    BY <2>5 DEF Crash, kept, asked
  <2>6. CASE Stall \/ UNCHANGED vars
    BY <2>6 DEF Stall, vars, asked
  <2>. QED  BY <2>1, <2>2, <2>3, <2>4, <2>5, <2>6 DEF Next
<1>. QED  BY <1>2, <1>3, <1>4

(* The client of a store learns only of a write that was made.             *)
LEMMA ClientApplied ==
  ASSUME ReplyInv, NEW r \in Request, Issue(r) \/ ClientStep(r) \/ Break(r), Applied(r)'
  PROVE  Applied(r)
<1>0. TypeOK /\ ClientOK(r) /\ ServerOK(r)
  BY DEF ReplyInv, EndsInv
<1>1. CASE Issue(r)
  BY <1>0, <1>1 DEF Issue, Applied, ClientOK, ServerOK, Responded, TypeOK, returned, network,
                    server
<1>2. CASE ReadStored(r)
  BY <1>0, <1>2 DEF ReadStored, Return, Close, Applied, TypeOK, asked, server
<1>3. CASE Decode(r)
  <2>1. kind[r] # "store" /\ kind' = kind
    BY <1>0, <1>3, DecodeOutcome DEF asked
  <2>. QED  BY <2>1 DEF Applied
<1>4. CASE Break(r)
  BY <1>0, <1>4 DEF Break, Applied, TypeOK, asked, returned, server
<1>5. CASE Dial(r) \/ Select(r) \/ Encode(r)
  BY <1>0, <1>5 DEF Dial, Select, Encode, Applied, TypeOK, asked, returned, network, server
<1>6. CASE DialFails(r) \/ SelectFails(r) \/ EncodeFails(r)
  <2>1. Return(r, "unreachable") /\ kind' = kind
    BY <1>6 DEF DialFails, SelectFails, EncodeFails, asked
  <2>2. result'[r] # "ok"
    BY <1>0, <2>1 DEF Return, TypeOK
  <2>3. spc'[r] \in {spc[r], "decode"}
    BY <1>0, <1>6 DEF DialFails, SelectFails, EncodeFails, TypeOK, server
  <2>4. wire'[r] \in {wire[r], nil}
    BY <1>0, <1>6 DEF DialFails, SelectFails, EncodeFails, Close, TypeOK, network
  <2>. QED  BY <2>1, <2>2, <2>3, <2>4 DEF Applied
<1>7. CASE DecodeFails(r)
  <2>1. result'[r] # "ok" /\ wire'[r] = nil /\ UNCHANGED <<asked, server>>
    BY <1>0, <1>7 DEF DecodeFails, Return, Close, TypeOK
  <2>. QED  BY <2>1 DEF Applied, asked, server
<1>8. CASE BootstrapAddPeer(r)
  BY <1>0, <1>8 DEF BootstrapAddPeer, ClientOK, Applied, asked
<1>. QED
  BY <1>1, <1>2, <1>3, <1>4, <1>5, <1>6, <1>7, <1>8 DEF ClientStep

(* The handler of a store replies without an error only after the write.   *)
LEMMA ServerApplied ==
  ASSUME ReplyInv, NEW r \in Request, ServerStep(r), Applied(r)'
  PROVE  Applied(r) \/ SetEnd(r)
<1>e. \A e \in Errors : Response(nil, nil, e).err = e
  BY ResponseType
<1>a. Receive(r) => \E p \in {"set", "get", "invalid"} : Goto(r, p)
  BY DEF Receive
<1>b. ReceiveFails(r) => /\ \E e \in {"failed", "invalidRequest"} : Send(r, Response(nil, nil, e))
                         /\ \E p \in {"report", "done"} : Goto(r, p)
  BY DEF ReceiveFails
<1>0. TypeOK /\ ClientOK(r) /\ ServerOK(r) /\ ErrorOK(r)
  BY DEF ReplyInv, EndsInv
<1>k. UNCHANGED <<kind, result>>
  BY DEF ServerStep, Receive, ReceiveFails, GetBegin, GetEnd, GetClosest, Fails,
         tryAddPeerToStore, tryAddPeerFails, sendResponse, SetBegin, SetEnd, SetFails, Report,
         kept, asked, returned
<1>1. CASE Receive(r)
  BY <1>0, <1>1, <1>a, <1>k DEF Receive, Goto, Applied, TypeOK
<1>2. CASE ReceiveFails(r)
  <2>1. wire'[r] = wire[r] \/ wire'[r].err # ""
    BY <1>0, <1>2, <1>b, <1>e, Written DEF Errors
  <2>2. spc'[r] # "reply"
    BY <1>0, <1>2, <1>b DEF Goto, TypeOK
  <2>. QED  BY <1>k, <2>1, <2>2 DEF Applied
<1>3. CASE GetBegin(r) \/ SetBegin(r) \/ Report(r)
  BY <1>0, <1>3, <1>k DEF GetBegin, SetBegin, Report, Goto, Applied, TypeOK, network
<1>4. CASE GetEnd(r) \/ GetClosest(r)
  BY <1>0, <1>4, <1>k DEF GetEnd, GetClosest, Goto, Applied, TypeOK, network
<1>5. CASE tryAddPeerToStore(r)
  BY <1>0, <1>5, <1>k DEF tryAddPeerToStore, Handler, ServerOK, Applied
<1>6. CASE Fails(r) \/ tryAddPeerFails(r) \/ SetFails(r)
  <2>1. wire'[r] = wire[r] \/ wire'[r].err # ""
    BY <1>0, <1>6, <1>e, Written DEF Errors, Fails, tryAddPeerFails, SetFails
  <2>2. spc'[r] # "reply"
    BY <1>0, <1>6 DEF Fails, tryAddPeerFails, SetFails, Goto, TypeOK
  <2>. QED  BY <1>k, <2>1, <2>2 DEF Applied
<1>7. CASE sendResponse(r)
  BY <1>7, <1>k DEF sendResponse, Handler, Applied
<1>. QED
  BY <1>1, <1>2, <1>3, <1>4, <1>5, <1>6, <1>7 DEF ServerStep

(* A store is applied by SetEnd and by nothing else.                       *)
LEMMA AppliedStep ==
  ASSUME ReplyInv, [Next]_vars, NEW s \in Request, Applied(s)'
  PROVE  Applied(s) \/ SetEnd(s)
<1>0. TypeOK
  BY DEF ReplyInv, EndsInv
<1>1. CASE Untouched(s)
  BY <1>1 DEF Untouched, Applied
<1>2. ASSUME NEW r \in Request, Issue(r) \/ ClientStep(r) \/ Break(r) PROVE Applied(s)
  BY <1>0, <1>1, <1>2, ClientLocal, ClientApplied DEF Untouched, Applied
<1>3. ASSUME NEW r \in Request, ServerStep(r) PROVE Applied(s) \/ SetEnd(s)
  BY <1>0, <1>1, <1>3, ServerLocal, ServerApplied
<1>4. CASE Crash
  BY <1>0, <1>4, CrashEffect DEF Applied, asked, returned
<1>5. CASE Stall \/ UNCHANGED vars
  BY <1>0, <1>1, <1>5, StallEffect
<1>. QED  BY <1>2, <1>3, <1>4, <1>5 DEF Next

(* Without a race SetEnd writes the value of its request.                  *)
LEMMA SetEndWrites ==
  ASSUME EndsInv, NEW t \in Request, SetEnd(t), NoStoreRaced
  PROVE  /\ kind[t] = "store" /\ key[t] \in Key /\ t \in Stores(key[t])
         /\ spc[t] \notin Responded
         /\ data' = [data EXCEPT ![key[t]] = t]
<1>1. spc[t] = "setting"
  BY DEF SetEnd, Handler
<1>2. kind[t] = "store" /\ key[t] \in Key
  BY <1>1 DEF EndsInv, ServerOK, ClientOK
<1>3. t \in Stores(key[t]) /\ t \notin raced
  BY <1>2 DEF Stores, NoStoreRaced
<1>4. data' = [data EXCEPT ![key[t]] = t]
  BY <1>3 DEF SetEnd
<1>. QED  BY <1>1, <1>2, <1>3, <1>4 DEF Responded

(* Nothing but SetEnd changes the table.                                   *)
LEMMA DataChange ==
  ASSUME [Next]_vars
  PROVE  data' = data \/ \E t \in Request : SetEnd(t)
<1>1. ASSUME NEW r \in Request, Issue(r) \/ ClientStep(r) \/ Break(r) PROVE data' = data
  BY <1>1 DEF ClientStep, Issue, Break, Dial, DialFails, Select, SelectFails, Encode,
              EncodeFails, Decode, ReadStored, DecodeFails, BootstrapAddPeer, server
<1>2. ASSUME NEW r \in Request, ServerStep(r) PROVE data' = data \/ SetEnd(r)
  BY <1>2 DEF ServerStep, Receive, ReceiveFails, GetBegin, GetEnd, GetClosest, Fails,
              tryAddPeerToStore, tryAddPeerFails, sendResponse, SetBegin, SetFails, Report
<1>3. CASE Crash \/ Stall \/ UNCHANGED vars
  BY <1>3 DEF Crash, Stall, vars, server
<1>. QED  BY <1>1, <1>2, <1>3 DEF Next

(* The table holds what was stored or what was stored later.               *)
LEMMA DataStep ==
  ASSUME SeenInv, [Next]_vars, NEW s \in Request
  PROVE  DataOK(s)'
<1>. SUFFICES ASSUME Applied(s)', NoStoreRaced'
              PROVE  data'[key'[s]] \in Stores(key[s])' \ before'[s]
  BY DEF DataOK
<1>0. EndsInv /\ ReplyInv /\ TypeOK /\ DataOK(s) /\ HistoryOK(s)
  BY DEF SeenInv, ReplyInv, EndsInv
<1>1. NoStoreRaced
  BY <1>0, StoresGrow
<1>2. Applied(s) \/ SetEnd(s)
  BY <1>0, AppliedStep
<1>3. kind[s] = "store" /\ key[s] \in Key
  BY <1>0, <1>1, <1>2, SetEndWrites DEF Applied, EndsInv, ClientOK
<1>4. key'[s] = key[s] /\ before'[s] = before[s]
  BY <1>0, <1>3, Stable
<1>5. Stores(key[s]) \subseteq Stores(key[s])'
  BY <1>0, <1>3, <1>4, StoresGrow DEF Stores
<1>6. ASSUME NEW t \in Request, SetEnd(t), key[t] = key[s]
      PROVE  data'[key[s]] \in Stores(key[s]) \ before[s]
  <2>1. data'[key[s]] = t /\ t \in Stores(key[s]) /\ spc[t] \notin Responded
    BY <1>0, <1>1, <1>3, <1>6, SetEndWrites DEF TypeOK
  <2>2. t \notin before[s]
    BY <1>0, <2>1 DEF HistoryOK, EndsInv, ServerOK
  <2>. QED  BY <2>1, <2>2
<1>7. CASE SetEnd(s)
  BY <1>4, <1>5, <1>6, <1>7
<1>8. CASE Applied(s)
  <2>1. data[key[s]] \in Stores(key[s]) \ before[s]
    BY <1>0, <1>1, <1>8 DEF DataOK
  <2>2. ASSUME NEW t \in Request, SetEnd(t), key[t] # key[s]
        PROVE  data'[key[s]] = data[key[s]]
    BY <1>0, <1>1, <1>3, <2>2, SetEndWrites DEF TypeOK
  <2>3. data'[key[s]] \in Stores(key[s]) \ before[s]
    BY <1>6, <2>1, <2>2, DataChange
  <2>. QED  BY <1>4, <1>5, <2>3
<1>. QED  BY <1>2, <1>7, <1>8

(* A get that overlaps no write finds what was confirmed before it.        *)
LEMMA TableAcceptable ==
  ASSUME SeenInv, NEW r \in Request, key[r] \in Key, NoStoreRaced
  PROVE  data[key[r]] \in Acceptable(r)
<1>1. data[key[r]] \in Value \cup {nil} /\ before[r] \subseteq Request
  BY DEF SeenInv, ReplyInv, EndsInv, TypeOK
<1>2. ASSUME NEW s \in before[r], s \in Stores(key[r])
      PROVE  data[key[r]] \in Stores(key[r]) \ before[s]
  <2>1. s \in Request /\ result[s] = "ok" /\ kind[s] = "store" /\ key[s] = key[r]
    BY <1>1, <1>2 DEF SeenInv, HistoryOK, Stores
  <2>2. Applied(s)
    BY <2>1 DEF Applied
  <2>. QED  BY <2>1, <2>2 DEF SeenInv, DataOK
<1>. QED  BY <1>1, <1>2 DEF Acceptable

(* What is quiet was quiet, for a request that is issued.                  *)
LEMMA QuietBefore ==
  ASSUME EndsInv, [Next]_vars, NEW r \in Request, kind[r] # "none", Quiet(r)'
  PROVE  Quiet(r)
<1>1. kind'[r] = kind[r] /\ raced \subseteq raced'
  BY Stable
<1>2. NoStoreRaced
  BY StoresGrow DEF Quiet
<1>. QED  BY <1>1, <1>2 DEF Quiet

(* A client takes its answer from the connection.                          *)
LEMMA ClientAnswered ==
  ASSUME SeenInv, NEW r \in Request, ClientStep(r) \/ Break(r), Quiet(r), Answered(r),
         Acceptable(r) \subseteq Acceptable(r)'
  PROVE  Answered(r)'
<1>0. TypeOK /\ ClientOK(r) /\ kind[r] = "get"
  BY DEF SeenInv, ReplyInv, EndsInv, Quiet
<1>1. CASE Decode(r)
  <2>a. Close(r) /\ UNCHANGED server /\ wire[r] # nil
    BY <1>0, <1>1, DecodeOutcome
  <2>1. wire'[r] = nil /\ UNCHANGED server /\ wire[r] # nil
    BY <1>0, <2>a DEF Close, TypeOK
  <2>2. \E e \in {"ok", "invalidRequest", "other", "invalidResponse"} :
          /\ Return(r, e) /\ (e = "ok" => wire[r].err = "")
          /\ answer' = [answer EXCEPT ![r] = wire[r].value]
    BY <1>0, <1>1, DecodeOutcome
  <2>3. answer'[r] = wire[r].value /\ (result'[r] = "ok" => wire[r].err = "")
    BY <1>0, <2>2 DEF Return, TypeOK
  <2>. QED  BY <2>1, <2>3 DEF Answered, server
<1>2. CASE ReadStored(r) \/ BootstrapAddPeer(r)
  BY <1>0, <1>2 DEF ReadStored, BootstrapAddPeer, ClientOK
<1>3. CASE DecodeFails(r)
  <2>1. result'[r] # "ok" /\ wire'[r] = nil /\ UNCHANGED server
    BY <1>0, <1>3 DEF DecodeFails, Return, Close, TypeOK
  <2>. QED  BY <2>1 DEF Answered, server
<1>4. CASE DialFails(r) \/ SelectFails(r) \/ EncodeFails(r)
  <2>1. result'[r] # "ok" /\ wire'[r] \in {wire[r], nil} /\ res' = res
    BY <1>0, <1>4 DEF DialFails, SelectFails, EncodeFails, Return, Close, TypeOK, network, server
  <2>2. spc'[r] \in {spc[r], "decode"}
    BY <1>0, <1>4 DEF DialFails, SelectFails, EncodeFails, TypeOK, server
  <2>. QED  BY <2>1, <2>2 DEF Answered
<1>5. CASE Dial(r) \/ Select(r) \/ Encode(r) \/ Break(r)
  <2>1. UNCHANGED <<result, answer, res>> /\ wire'[r] \in {wire[r], nil}
    BY <1>0, <1>5 DEF Dial, Select, Encode, Break, TypeOK, network, server, returned
  <2>2. spc'[r] \in {spc[r], "decode"}
    BY <1>0, <1>5 DEF Dial, Select, Encode, Break, TypeOK, server
  <2>. QED  BY <2>1, <2>2 DEF Answered
<1>. QED  BY <1>1, <1>2, <1>3, <1>4, <1>5 DEF ClientStep

(* The handler of a get takes its answer from the table.                   *)
LEMMA ServerAnswered ==
  ASSUME SeenInv, NEW r \in Request, ServerStep(r), Quiet(r), Answered(r),
         Acceptable(r) \subseteq Acceptable(r)'
  PROVE  Answered(r)'
<1>e. \A e \in Errors : Response(nil, nil, e).err = e
  BY ResponseType
<1>v. \A v : Response(v, ServerID, "").value = v
  BY DEF Response
<1>0. TypeOK /\ ClientOK(r) /\ ServerOK(r) /\ kind[r] = "get" /\ r \notin raced /\ NoStoreRaced
  BY DEF SeenInv, ReplyInv, EndsInv, Quiet
<1>k. UNCHANGED <<result, answer>>
  BY DEF ServerStep, Receive, ReceiveFails, GetBegin, GetEnd, GetClosest, Fails,
         tryAddPeerToStore, tryAddPeerFails, sendResponse, SetBegin, SetEnd, SetFails, Report,
         kept, returned
<1>1. CASE Receive(r)
  <2>1. \E p \in {"set", "get", "invalid"} : Goto(r, p)
    BY <1>1 DEF Receive
  <2>2. spc'[r] \in {"set", "get", "invalid"} /\ UNCHANGED <<wire, res>>
    BY <1>0, <1>1, <2>1 DEF Receive, Goto, TypeOK
  <2>. QED  BY <1>k, <2>2 DEF Answered
<1>2. CASE ReceiveFails(r)
  <2>1. /\ \E e \in {"failed", "invalidRequest"} : Send(r, Response(nil, nil, e))
        /\ \E p \in {"report", "done"} : Goto(r, p)
    BY <1>2 DEF ReceiveFails
  <2>2. wire'[r] = wire[r] \/ wire'[r].err # ""
    BY <1>0, <1>e, <2>1, Written DEF Errors
  <2>3. spc'[r] \in {"report", "done"}
    BY <1>0, <2>1 DEF Goto, TypeOK
  <2>. QED  BY <1>k, <2>2, <2>3 DEF Answered
<1>3. CASE GetBegin(r) \/ SetBegin(r) \/ Report(r)
  <2>1. spc'[r] \in {"getting", "setting", "done"} /\ UNCHANGED <<wire, res>>
    BY <1>0, <1>3 DEF GetBegin, SetBegin, Report, Goto, TypeOK, network
  <2>. QED  BY <1>k, <2>1 DEF Answered
<1>4. CASE GetEnd(r)
  <2>1. key[r] \in Key
    BY <1>0 DEF ClientOK
  <2>2. data[key[r]] \in Acceptable(r)
    BY <1>0, <2>1, TableAcceptable
  <2>3. IF data[key[r]] = nil
          THEN Goto(r, "closest") /\ UNCHANGED res
          ELSE /\ Goto(r, "addPeer")
               /\ res' = [res EXCEPT ![r] = Response(data[key[r]], ServerID, "")]
    BY <1>0, <1>4 DEF GetEnd
  <2>4. CASE data[key[r]] = nil
    <3>1. spc'[r] = "closest" /\ UNCHANGED <<wire, res>>
      BY <1>0, <1>4, <2>3, <2>4 DEF Goto, GetEnd, network, TypeOK
    <3>. QED  BY <1>k, <2>2, <2>4, <3>1 DEF Answered
  <2>5. CASE data[key[r]] # nil
    <3>1. spc'[r] = "addPeer" /\ res'[r].value = data[key[r]]
      BY <1>0, <1>v, <2>3, <2>5 DEF Goto, TypeOK
    <3>2. UNCHANGED wire
      BY <1>4 DEF GetEnd, network
    <3>. QED  BY <1>k, <2>2, <3>1, <3>2 DEF Answered
  <2>. QED  BY <2>4, <2>5
<1>5. CASE GetClosest(r)
  <2>1. spc[r] = "closest" /\ spc'[r] = "addPeer" /\ res'[r].value = nil /\ UNCHANGED wire
    BY <1>0, <1>5, <1>v DEF GetClosest, Handler, Goto, TypeOK, network
  <2>. QED  BY <1>k, <2>1 DEF Answered
<1>6. CASE tryAddPeerToStore(r)
  <2>1. spc[r] = "addPeer" /\ spc'[r] = "reply" /\ UNCHANGED <<wire, res>>
    BY <1>0, <1>6 DEF tryAddPeerToStore, Handler, Goto, TypeOK, network
  <2>. QED  BY <1>k, <2>1 DEF Answered
<1>7. CASE Fails(r) \/ tryAddPeerFails(r) \/ SetFails(r)
  <2>1. wire'[r] = wire[r] \/ wire'[r].err # ""
    BY <1>0, <1>7, <1>e, Written DEF Errors, Fails, tryAddPeerFails, SetFails
  <2>2. spc'[r] \in {"report", "done"}
    BY <1>0, <1>7 DEF Fails, tryAddPeerFails, SetFails, Goto, TypeOK
  <2>. QED  BY <1>k, <2>1, <2>2 DEF Answered
<1>8. CASE sendResponse(r)
  <2>1. wire'[r] \in {wire[r], res[r]} /\ spc[r] = "reply"
    BY <1>0, <1>8, Written DEF sendResponse, Handler
  <2>2. spc'[r] \in {"report", "done"}
    BY <1>0, <1>8 DEF sendResponse, Goto, TypeOK
  <2>. QED  BY <1>k, <2>1, <2>2 DEF Answered
<1>9. CASE SetEnd(r)
  BY <1>0, <1>9 DEF SetEnd, Handler, ServerOK
<1>. QED
  BY <1>1, <1>2, <1>3, <1>4, <1>5, <1>6, <1>7, <1>8, <1>9 DEF ServerStep

(* Every step keeps what is on its way to the client of r acceptable.      *)
LEMMA SeenStep ==
  ASSUME SeenInv, [Next]_vars, NEW r \in Request
  PROVE  SeenOK(r)'
<1>. SUFFICES ASSUME Quiet(r)' PROVE Answered(r)'
  BY DEF SeenOK
<1>0. EndsInv /\ ReplyInv /\ TypeOK /\ ClientOK(r) /\ ServerOK(r) /\ HistoryOK(r) /\ SeenOK(r)
  BY DEF SeenInv, ReplyInv, EndsInv
<1>1. CASE kind[r] # "none"
  <2>1. Quiet(r) /\ Answered(r)
    BY <1>0, <1>1, QuietBefore DEF SeenOK
  <2>2. Acceptable(r) \subseteq Acceptable(r)'
    BY <1>0, <1>1, AcceptableGrows
  <2>3. CASE Untouched(r)
    BY <2>1, <2>2, <2>3 DEF Untouched, Answered
  <2>4. ASSUME NEW s \in Request, Issue(s) PROVE Answered(r)'
    <3>1. s # r
      BY <1>0, <1>1, <2>4 DEF Issue, ClientOK
    <3>. QED  BY <1>0, <2>3, <2>4, <3>1, ClientLocal
  <2>5. ASSUME NEW s \in Request, ClientStep(s) \/ Break(s) PROVE Answered(r)'
    <3>1. CASE s = r
      BY <2>1, <2>2, <2>5, <3>1, ClientAnswered
    <3>2. CASE s # r
      BY <1>0, <2>3, <2>5, <3>2, ClientLocal
    <3>. QED  BY <3>1, <3>2
  <2>6. ASSUME NEW s \in Request, ServerStep(s) PROVE Answered(r)'
    <3>1. CASE s = r
      BY <2>1, <2>2, <2>6, <3>1, ServerAnswered
    <3>2. CASE s # r
      BY <1>0, <2>3, <2>6, <3>2, ServerLocal
    <3>. QED  BY <3>1, <3>2
  <2>7. CASE Crash
    BY <1>0, <2>1, <2>2, <2>7, CrashEffect DEF Answered, returned
  <2>8. CASE Stall \/ UNCHANGED vars
    BY <1>0, <2>3, <2>8, StallEffect
  <2>. QED  BY <2>4, <2>5, <2>6, <2>7, <2>8 DEF Next
<1>2. CASE kind[r] = "none"
  <2>1. cpc[r] = "idle" /\ spc[r] = "none" /\ wire[r] = nil /\ result[r] = "none"
    BY <1>0, <1>2 DEF ClientOK, ServerOK, Responded
  <2>2. kind'[r] # "none"
    BY DEF Quiet
  <2>3. Issue(r)
    <3>1. ASSUME NEW s \in Request, s # r, Untouched(r) PROVE FALSE
      BY <1>2, <2>2, <3>1 DEF Untouched
    <3>2. ASSUME ServerStep(r) \/ ClientStep(r) \/ Break(r) PROVE kind' = kind
      BY <3>2 DEF ServerStep, Receive, ReceiveFails, GetBegin, GetEnd, GetClosest, Fails,
                  tryAddPeerToStore, tryAddPeerFails, sendResponse, SetBegin, SetEnd, SetFails,
                  Report, kept, asked, ClientStep, Break, Dial, DialFails, Select, SelectFails,
                  Encode, EncodeFails, Decode, ReadStored, DecodeFails, BootstrapAddPeer
    <3>3. CASE Crash \/ Stall \/ UNCHANGED vars
      BY <1>2, <2>2, <3>3 DEF Crash, Stall, kept, asked, vars
    <3>. QED  BY <1>0, <1>2, <2>2, <3>1, <3>2, <3>3, ClientLocal, ServerLocal DEF Next
  <2>4. UNCHANGED <<spc, wire, result>>
    BY <2>3 DEF Issue, returned, network, server
  <2>. QED  BY <2>1, <2>4 DEF Answered
<1>. QED  BY <1>1, <1>2

(* SeenInv holds at the start.                                             *)
LEMMA SeenInit == Init => SeenInv
<1>. SUFFICES ASSUME Init PROVE SeenInv
  OBVIOUS
<1>1. ASSUME NEW r \in Request PROVE HistoryOK(r) /\ DataOK(r) /\ SeenOK(r)
  BY DEF Init, HistoryOK, DataOK, Applied, SeenOK, Quiet
<1>. QED  BY <1>1, ReplyInit DEF SeenInv

(* Every step keeps SeenInv.                                               *)
LEMMA SeenInvStep == SeenInv /\ [Next]_vars => SeenInv'
<1>. SUFFICES ASSUME SeenInv, [Next]_vars PROVE SeenInv'
  OBVIOUS
<1>1. ReplyInv'
  BY ReplyStep DEF SeenInv
<1>2. ASSUME NEW r \in Request PROVE HistoryOK(r)' /\ DataOK(r)' /\ SeenOK(r)'
  BY HistoryStep, DataStep, SeenStep DEF SeenInv, ReplyInv
<1>. QED  BY <1>1, <1>2 DEF SeenInv

(* StoresSeen: a get that overlaps no write, on a table where no two       *)
(* writes overlap, answers with a value that was confirmed before it or    *)
(* with a value that was not stored before that.                           *)
THEOREM ConfirmedIsSeen == Spec => []StoresSeen
<1>1. SeenInv => StoresSeen
  <2>. SUFFICES ASSUME SeenInv, NEW r \in Request, kind[r] = "get", result[r] = "ok",
                       r \notin raced, NoStoreRaced,
                       NEW s \in before[r] \cap Stores(key[r])
                PROVE  answer[r] \in Stores(key[r]) \ before[s]
    BY DEF StoresSeen, NoStoreRaced
  <2>1. answer[r] \in Acceptable(r)
    BY DEF SeenInv, SeenOK, Quiet, Answered
  <2>. QED  BY <2>1 DEF Acceptable
<1>. QED  BY <1>1, SeenInit, SeenInvStep, PTL DEF Spec
=============================================================================

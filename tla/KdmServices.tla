----------------------------- MODULE KdmServices -----------------------------
(***************************************************************************)
(* The two request/response services of the DHT, /kdmgetvalue and          *)
(* /kdmstore (kademila/kdmgetvalue, kademila/kdmstore), with the hash      *)
(* table they serve from (storage) and DHT.Bootstrap, which is a request   *)
(* of the first kind.                                                      *)
(*                                                                         *)
(* Clients on one node send requests to one server node.  Every request    *)
(* has its own connection, and its own handler goroutine on the server;    *)
(* the handlers share the hash table without a lock.  A connection may     *)
(* break at any moment, with what is under way in it.  Over the encrypted  *)
(* transport both ends know the ID of the other, over TCP neither does.    *)
(* The server runs the code of the repository, whatever goes wrong in it.  *)
(***************************************************************************)
EXTENDS Naturals, FiniteSets

CONSTANTS Request,         \* a store request also names the value it stores
          Key,
          ValidKey,        \* the keys that are as long as a node ID
          ServerID,
          old,             \* a value that was stored earlier
          nil

Value == Request \cup {old}

ASSUME KdmServicesAssumption ==
  /\ ValidKey \subseteq Key /\ ValidKey # {}
  /\ nil \notin Value /\ old \notin Request /\ ServerID # nil

VARIABLES authenticated,   \* the connections are transport.RemoteIDHavers
          errChanRead,     \* the application reads the node's error channel
          accepting,       \* the server's accept loops take connections
          kind, key,       \* what each request asks for
          before,          \* history: the requests that had succeeded when
                           \*   it was issued
          cpc,             \* what its client is about to do
          result, answer,  \* what Do or Bootstrap returned
          clientKnows,     \* the server is in the client's peer store
          conn,            \* the client's end of the connection
          sent,            \* the request is in the connection
          wire,            \* the response is in the connection, or nil
          spc,             \* what the handler of a request is about to do
          res,             \* the response it has prepared
          data,            \* hashtable.data: the value under each key
          raced,           \* map accesses that overlapped a write
          serverKnows,     \* the client is in the server's peer store
          noRoom,          \* history: its bucket there was full
          crashed          \* the server's process has ended

setup == <<authenticated, errChanRead, accepting>>
asked == <<kind, key, before>>
returned == <<result, answer, clientKnows>>
network == <<conn, sent, wire>>
server == <<spc, res, data, raced, serverKnows, noRoom, crashed>>
vars == <<setup, asked, cpc, returned, network, server>>

(* A response: that of kdmstore has neither a value nor an ID. *)
Response(value, id, err) == [value |-> value, id |-> id, err |-> err]

Errors == {"", "invalidRequest", "internalServerError: cause", "addPeer", "failed"}
Responses == [value : Value \cup {nil}, id : {ServerID, nil}, err : Errors]

(* The server's end of the connection is unusable. *)
Down(r) == conn[r] \in {"broken", "closed"}

Init ==
  /\ authenticated \in BOOLEAN /\ errChanRead \in BOOLEAN /\ accepting = TRUE
  /\ kind = [r \in Request |-> "none"]
  /\ key = [r \in Request |-> nil]
  /\ before = [r \in Request |-> {}]
  /\ cpc = [r \in Request |-> "idle"]
  /\ result = [r \in Request |-> "none"]
  /\ answer = [r \in Request |-> nil]
  /\ clientKnows = FALSE
  /\ conn = [r \in Request |-> "none"]
  /\ sent = [r \in Request |-> FALSE]
  /\ wire = [r \in Request |-> nil]
  /\ spc = [r \in Request |-> "none"]
  /\ res = [r \in Request |-> nil]
  /\ data \in [Key -> {nil, old}]
  /\ \A x \in Key \ ValidKey : data[x] = nil
  /\ raced = {}
  /\ serverKnows = FALSE /\ noRoom = FALSE /\ crashed = FALSE

(***************************************************************************)
(* The client: Service.Do of both services, and Bootstrap.                 *)
(***************************************************************************)
Return(r, e) ==
  /\ result' = [result EXCEPT ![r] = e]
  /\ cpc' = [cpc EXCEPT ![r] = "done"]

(* Mutant of Close: nothing closes the connection. *)
CloseNothing(r) == wire' = [wire EXCEPT ![r] = nil] /\ UNCHANGED <<conn, sent>>

(* defer conn.Close() *)
Close(r) ==
  /\ conn' = [conn EXCEPT ![r] = "closed"]
  /\ wire' = [wire EXCEPT ![r] = nil]
  /\ UNCHANGED sent

Issue(r) ==
  /\ cpc[r] = "idle"
  /\ \E x \in Key, y \in {"get", "store", "bootstrap"} :
       /\ y = "bootstrap" => x \in ValidKey
       /\ key' = [key EXCEPT ![r] = x]
       /\ kind' = [kind EXCEPT ![r] = y]
  /\ before' = [before EXCEPT ![r] = {s \in Request : result[s] = "ok"}]
  /\ cpc' = [cpc EXCEPT ![r] = "dial"]
  /\ UNCHANGED <<setup, returned, network, server>>

(* DialPeerUsingProcol: first the peer is dialled.  Over TCP that needs no *)
(* more than a listening server; the encrypted transport then waits for    *)
(* the payload of the server, and sets no deadline.                        *)
Dial(r) ==
  /\ cpc[r] = "dial"
  /\ ~crashed /\ (authenticated => accepting)
  /\ conn' = [conn EXCEPT ![r] = "open"]
  /\ cpc' = [cpc EXCEPT ![r] = "select"]
  /\ UNCHANGED <<setup, asked, returned, sent, wire, server>>

(* The encrypted transport does not close a connection it cannot upgrade. *)
DialFails(r) ==
  /\ cpc[r] = "dial"
  /\ \/ UNCHANGED conn
     \/ authenticated /\ ~crashed /\ conn' = [conn EXCEPT ![r] = "open"]
  /\ Return(r, "unreachable")
  /\ UNCHANGED <<setup, asked, answer, clientKnows, sent, wire, server>>

(* Then the protocol is selected, which starts the server's handler, as    *)
(* soon as the server has taken the connection.                            *)
Select(r) ==
  /\ cpc[r] = "select"
  /\ ~Down(r) /\ accepting
  /\ spc' = [spc EXCEPT ![r] = "decode"]
  /\ cpc' = [cpc EXCEPT ![r] = "encode"]
  /\ UNCHANGED <<setup, asked, returned, network, res, data, raced, serverKnows, noRoom,
                 crashed>>

(* The selection fails or the context is cancelled.  Do returns without    *)
(* closing the connection, and a selection that is still under way may     *)
(* start the handler.                                                      *)
SelectFails(r) ==
  /\ cpc[r] = "select"
  /\ \/ UNCHANGED spc
     \/ ~Down(r) /\ spc' = [spc EXCEPT ![r] = "decode"]
  /\ Return(r, "unreachable")
  /\ UNCHANGED <<setup, asked, answer, clientKnows, network, res, data, raced, serverKnows,
                 noRoom, crashed>>

(* A connection that has just broken may still take the request. *)
Encode(r) ==
  /\ cpc[r] = "encode"
  /\ sent' = [sent EXCEPT ![r] = ~Down(r)]
  /\ cpc' = [cpc EXCEPT ![r] = "decode"]
  /\ UNCHANGED <<setup, asked, returned, conn, wire, server>>

EncodeFails(r) ==
  /\ cpc[r] = "encode"
  /\ Down(r)
  /\ Close(r)
  /\ Return(r, "unreachable")
  /\ UNCHANGED <<setup, asked, answer, clientKnows, server>>

(* Mutant of isValidResponse: error responses need no ID. *)
isValidOrError(m) == authenticated /\ m.err = "" => m.id = ServerID

(* isValidResponse: an error response has no ID in it. *)
isValidResponse(m) == authenticated => m.id = ServerID

(* Mutant of convertToError: an error it does not know is not wrapped. *)
convertToItself(e) == IF e = "" THEN "ok" ELSE e

(* convertToError knows the bare errors, and the server wraps all but one. *)
convertToError(e) ==
  CASE e = "" -> "ok"
    [] e \in {"invalidResponse", "invalidRequest", "internalServerError"} -> e
    [] OTHER -> "other"

Decode(r) ==
  /\ cpc[r] = "decode"
  /\ kind[r] # "store"
  /\ wire[r] # nil
  /\ LET e == IF isValidResponse(wire[r]) THEN convertToError(wire[r].err)
                                          ELSE "invalidResponse"
     IN  IF e = "ok" /\ kind[r] = "bootstrap"
           THEN cpc' = [cpc EXCEPT ![r] = "learn"] /\ UNCHANGED <<result, answer>>
           ELSE /\ Return(r, e)
                /\ answer' = [answer EXCEPT ![r] = wire[r].value]
  /\ Close(r)
  /\ UNCHANGED <<setup, asked, clientKnows, server>>

(* kdmstore reads once: a part of "OK" is as invalid as "failed". *)
ReadStored(r) ==
  /\ cpc[r] = "decode"
  /\ kind[r] = "store"
  /\ wire[r] # nil
  /\ \/ wire[r].err = "" /\ Return(r, "ok")
     \/ Return(r, "invalidResponse")
  /\ Close(r)
  /\ UNCHANGED <<setup, asked, answer, clientKnows, server>>

(* The connection breaks before a response has come. *)
DecodeFails(r) ==
  /\ cpc[r] = "decode"
  /\ Down(r)
  /\ Close(r)
  /\ Return(r, IF kind[r] = "store" THEN "readError" ELSE "invalidResponse")
  /\ UNCHANGED <<setup, asked, answer, clientKnows, server>>

(* Bootstrap adds the node that answered to the peer store. *)
BootstrapAddPeer(r) ==
  /\ cpc[r] = "learn"
  /\ \/ clientKnows' = TRUE /\ Return(r, "ok")
     \/ ~clientKnows /\ Return(r, "noSpace") /\ UNCHANGED clientKnows
  /\ UNCHANGED <<setup, asked, answer, network, server>>

(* The connection breaks, and what is under way in it may be lost. *)
Break(r) ==
  /\ conn[r] = "open"
  /\ conn' = [conn EXCEPT ![r] = "broken"]
  /\ sent' \in {sent, [sent EXCEPT ![r] = FALSE]}
  /\ wire' \in {wire, [wire EXCEPT ![r] = nil]}
  /\ UNCHANGED <<setup, asked, cpc, returned, server>>

(***************************************************************************)
(* The server's accept loops, which NodeRun has in full, hold up all new   *)
(* connections while an error of the transport is not read, and over the   *)
(* encrypted transport while a peer that was accepted says nothing.  That  *)
(* may be for good; a shorter stall is a delay like any other.             *)
(***************************************************************************)
Stall ==
  /\ accepting /\ ~crashed
  /\ authenticated \/ ~errChanRead
  /\ accepting' = FALSE
  /\ UNCHANGED <<authenticated, errChanRead, asked, cpc, returned, network, server>>

(***************************************************************************)
(* The server: the handlers that Service.Run registers.                    *)
(***************************************************************************)
Handler(r, p) == spc[r] = p /\ ~crashed

Goto(r, p) == spc' = [spc EXCEPT ![r] = p]

(* A write to the connection goes nowhere if the connection is down. *)
Send(r, m) ==
  /\ wire' = IF Down(r) THEN wire ELSE [wire EXCEPT ![r] = m]
  /\ UNCHANGED <<conn, sent>>

kept == <<setup, asked, cpc, returned>>

Receive(r) ==
  /\ Handler(r, "decode")
  /\ sent[r]
  /\ sent' = [sent EXCEPT ![r] = FALSE]
  /\ Goto(r, IF kind[r] = "store"    THEN "set" ELSE
             IF key[r] \in ValidKey THEN "get" ELSE "invalid")
  /\ UNCHANGED <<kept, conn, wire, res, data, raced, serverKnows, noRoom, crashed>>

(* The request cannot be decoded, or isValidRequest refuses its key.  Only *)
(* kdmstore returns an error.                                              *)
ReceiveFails(r) ==
  /\ \/ Handler(r, "decode") /\ Down(r) /\ ~sent[r]
     \/ Handler(r, "invalid")
  /\ Send(r, Response(nil, nil, IF kind[r] = "store" THEN "failed" ELSE "invalidRequest"))
  /\ Goto(r, IF kind[r] = "store" THEN "report" ELSE "done")
  /\ UNCHANGED <<kept, res, data, raced, serverKnows, noRoom, crashed>>

(* The accesses to hashtable.data that are under way. *)
Reading == {s \in Request : spc[s] = "getting"}
Writing == {s \in Request : spc[s] = "setting"}

(* hashtable.Get reads the map without a lock. *)
GetBegin(r) ==
  /\ Handler(r, "get")
  /\ raced' = IF Writing = {} THEN raced ELSE raced \cup {r}
  /\ Goto(r, "getting")
  /\ UNCHANGED <<kept, network, res, data, serverKnows, noRoom, crashed>>

(* A read that overlaps a write may find anything. *)
GetEnd(r) ==
  /\ Handler(r, "getting")
  /\ \E v \in IF r \in raced THEN Value \cup {nil} ELSE {data[key[r]]} :
       IF v = nil
         THEN Goto(r, "closest") /\ UNCHANGED res
         ELSE /\ Goto(r, "addPeer")
              /\ res' = [res EXCEPT ![r] = Response(v, ServerID, "")]
  /\ UNCHANGED <<kept, network, data, raced, serverKnows, noRoom, crashed>>

(* GetClosestPeers and Distance. *)
GetClosest(r) ==
  /\ Handler(r, "closest")
  /\ res' = [res EXCEPT ![r] = Response(nil, ServerID, "")]
  /\ Goto(r, "addPeer")
  /\ UNCHANGED <<kept, network, data, raced, serverKnows, noRoom, crashed>>

(* Mutant of Fails: the error is only reported, not sent. *)
FailsSilently(r) ==
  /\ Handler(r, "getting") \/ Handler(r, "closest")
  /\ Goto(r, "report")
  /\ UNCHANGED <<kept, network, res, data, raced, serverKnows, noRoom, crashed>>

(* The table or the peer store returns an error. *)
Fails(r) ==
  /\ Handler(r, "getting") \/ Handler(r, "closest")
  /\ Send(r, Response(nil, nil, "internalServerError: cause"))
  /\ Goto(r, "report")
  /\ UNCHANGED <<kept, res, data, raced, serverKnows, noRoom, crashed>>

(* Mutant of tryAddPeerToStore: the peer is not added. *)
tryAddNothing(r) ==
  /\ Handler(r, "addPeer")
  /\ Goto(r, "reply")
  /\ UNCHANGED <<kept, network, res, data, raced, serverKnows, noRoom, crashed>>

(* tryAddPeerToStore: a full bucket is no error. *)
tryAddPeerToStore(r) ==
  /\ Handler(r, "addPeer")
  /\ \/ ~authenticated /\ UNCHANGED <<serverKnows, noRoom>>
     \/ authenticated /\ serverKnows' = TRUE /\ UNCHANGED noRoom
     \/ authenticated /\ ~serverKnows /\ noRoom' = TRUE /\ UNCHANGED serverKnows
  /\ Goto(r, "reply")
  /\ UNCHANGED <<kept, network, res, data, raced, crashed>>

tryAddPeerFails(r) ==
  /\ Handler(r, "addPeer")
  /\ authenticated
  /\ Send(r, Response(nil, nil, "addPeer"))
  /\ Goto(r, "done")
  /\ UNCHANGED <<kept, res, data, raced, serverKnows, noRoom, crashed>>

(* The response of either service.  A write to a connection that is down   *)
(* may go unnoticed, or make the handler return an error.                  *)
sendResponse(r) ==
  /\ Handler(r, "reply")
  /\ Send(r, res[r])
  /\ Goto(r, "done") \/ (Down(r) /\ Goto(r, "report"))
  /\ res' = [res EXCEPT ![r] = nil]
  /\ UNCHANGED <<kept, data, raced, serverKnows, noRoom, crashed>>

(* hashtable.Set writes the map without a lock.                            *)
SetBegin(r) ==
  /\ Handler(r, "set")
  /\ raced' = raced \cup Reading \cup (IF Writing = {} THEN {} ELSE Writing \cup {r})
  /\ Goto(r, "setting")
  /\ UNCHANGED <<kept, network, res, data, serverKnows, noRoom, crashed>>

(* Mutant of SetEnd: a value that is there is kept. *)
SetEndIfEmpty(r) ==
  /\ Handler(r, "setting")
  /\ data' = IF data[key[r]] = nil THEN [data EXCEPT ![key[r]] = r] ELSE data
  /\ res' = [res EXCEPT ![r] = Response(nil, nil, "")]
  /\ Goto(r, "reply")
  /\ UNCHANGED <<kept, network, raced, serverKnows, noRoom, crashed>>

(* A write that overlaps another may lose the entry. *)
SetEnd(r) ==
  /\ Handler(r, "setting")
  /\ \E v \in IF r \in raced THEN {r, nil, data[key[r]]} ELSE {r} :
       data' = [data EXCEPT ![key[r]] = v]
  /\ res' = [res EXCEPT ![r] = Response(nil, nil, "")]
  /\ Goto(r, "reply")
  /\ UNCHANGED <<kept, network, raced, serverKnows, noRoom, crashed>>

SetFails(r) ==
  /\ Handler(r, "setting")
  /\ Send(r, Response(nil, nil, "failed"))
  /\ Goto(r, "report")
  /\ UNCHANGED <<kept, res, data, raced, serverKnows, noRoom, crashed>>

(* handleConn sends the handler's error to the node's error channel, and   *)
(* waits there if no one reads it.                                         *)
Report(r) ==
  /\ Handler(r, "report")
  /\ errChanRead
  /\ Goto(r, "done")
  /\ UNCHANGED <<kept, network, res, data, raced, serverKnows, noRoom, crashed>>

(* The runtime ends a process that it finds reading and writing a map at a *)
(* time; all its connections break.                                        *)
Crash ==
  /\ ~crashed
  /\ raced \cap (Reading \cup Writing) # {}
  /\ crashed' = TRUE
  /\ conn' = [r \in Request |-> IF conn[r] = "open" THEN "broken" ELSE conn[r]]
  /\ UNCHANGED <<kept, sent, wire, spc, res, data, raced, serverKnows, noRoom>>

ClientStep(r) ==
  \/ Dial(r)
  \/ DialFails(r)
  \/ Select(r)
  \/ SelectFails(r)
  \/ Encode(r)
  \/ EncodeFails(r)
  \/ Decode(r)
  \/ ReadStored(r)
  \/ DecodeFails(r)
  \/ BootstrapAddPeer(r)

ServerStep(r) ==
  \/ Receive(r)
  \/ ReceiveFails(r)
  \/ GetBegin(r)
  \/ GetEnd(r)
  \/ GetClosest(r)
  \/ Fails(r)
  \/ tryAddPeerToStore(r)
  \/ tryAddPeerFails(r)
  \/ sendResponse(r)
  \/ SetBegin(r)
  \/ SetEnd(r)
  \/ SetFails(r)
  \/ Report(r)

Next ==
  \/ \E r \in Request : Issue(r) \/ ClientStep(r) \/ ServerStep(r) \/ Break(r)
  \/ Crash \/ Stall

(* What a client does unless it waits: for the server to take or to answer *)
(* its connection, or for a context to end, which may have no deadline.    *)
ClientRuns(r) ==
  \/ Dial(r)
  \/ crashed /\ DialFails(r)
  \/ Select(r)
  \/ Down(r) /\ SelectFails(r)
  \/ Encode(r)
  \/ EncodeFails(r)
  \/ Decode(r)
  \/ ReadStored(r)
  \/ DecodeFails(r)
  \/ BootstrapAddPeer(r)

(* Goroutines that can run do run, on both nodes. *)
Fairness == \A r \in Request : WF_vars(ClientRuns(r)) /\ WF_vars(ServerStep(r))

Spec == Init /\ [][Next]_vars /\ Fairness

-----------------------------------------------------------------------------
(***************************************************************************)
(* Properties                                                              *)
(***************************************************************************)
(* Do returns one of the errors of its package, and every response has     *)
(* one of the forms its server sends.                                      *)
TypeOK ==
  /\ authenticated \in BOOLEAN /\ errChanRead \in BOOLEAN /\ accepting \in BOOLEAN
  /\ kind \in [Request -> {"none", "get", "store", "bootstrap"}]
  /\ key \in [Request -> Key \cup {nil}]
  /\ before \in [Request -> SUBSET Request]
  /\ cpc \in [Request -> {"idle", "dial", "select", "encode", "decode", "learn", "done"}]
  /\ result \in [Request -> {"none", "ok", "unreachable", "invalidResponse", "invalidRequest",
                             "internalServerError", "other", "readError", "noSpace"}]
  /\ answer \in [Request -> Value \cup {nil}]
  /\ clientKnows \in BOOLEAN
  /\ conn \in [Request -> {"none", "open", "broken", "closed"}]
  /\ sent \in [Request -> BOOLEAN]
  /\ wire \in [Request -> Responses \cup {nil}]
  /\ spc \in [Request -> {"none", "decode", "invalid", "get", "getting", "closest", "addPeer",
                          "reply", "set", "setting", "report", "done"}]
  /\ res \in [Request -> Responses \cup {nil}]
  /\ data \in [Key -> Value \cup {nil}]
  /\ raced \subseteq Request
  /\ serverKnows \in BOOLEAN /\ noRoom \in BOOLEAN /\ crashed \in BOOLEAN

Stores(x) == {s \in Request : kind[s] = "store" /\ key[s] = x}

(* A node that has confirmed a value answers with it, or with a value that *)
(* was not stored before it: the reply of kdmstore comes after the write,  *)
(* and requests whose reply was lost may take effect later, but never      *)
(* undo one that was confirmed after they succeeded.  This is all the      *)
(* unlocked table promises as long as no two writes overlap and the read   *)
(* overlaps none.                                                          *)
StoresSeen ==
  \A r \in Request :
    /\ kind[r] = "get" /\ result[r] = "ok"
    /\ r \notin raced
    /\ \A x \in Key : Stores(x) \cap raced = {}
    => \A s \in before[r] \cap Stores(key[r]) :
         answer[r] \in Stores(key[r]) \ before[s]

(* After a Bootstrap over the encrypted transport the two nodes know each  *)
(* other, unless the client's bucket on the server was full.               *)
BootstrapMutual ==
  \A r \in Request :
    kind[r] = "bootstrap" /\ result[r] = "ok" =>
      clientKnows /\ (authenticated => serverKnows \/ noRoom)

(* isExpectedKDMError: the errors after which a search goes on. *)
isExpectedKDMError(e) == e \in {"invalidResponse", "unreachable", "internalServerError"}

(* Over the encrypted transport whatever goes wrong with a peer that runs  *)
(* this code is an error after which GetValue and SetValue go on with the  *)
(* others: an error response has no ID in it, so its text, most of which   *)
(* convertToError does not know, is never looked at.  A peer that sends    *)
(* its own ID with an error, or nodes with an ID of another length, still  *)
(* ends the search.                                                        *)
HonestPeerDoesNotAbort ==
  \A r \in Request :
    authenticated /\ kind[r] = "get" /\ cpc[r] = "done" =>
      result[r] = "ok" \/ isExpectedKDMError(result[r])

(* When Do returns after it has selected the protocol, its connection is   *)
(* closed.  It leaves one open only if dialling or the selection failed;   *)
(* then the request was never sent, and a handler that was started waits   *)
(* for it as long as the connection is open.                               *)
ConnClosed ==
  \A r \in Request :
    cpc[r] = "done" /\ conn[r] = "open" =>
      result[r] = "unreachable" /\ spc[r] \in {"none", "decode"}

(* Every request ends, unless it waits for accept loops that stand still:  *)
(* neither dialling nor selecting a protocol has a deadline.  Once its     *)
(* protocol is selected it ends even then, and whether or not the server's *)
(* errors are read: a handler replies before it reports its own.           *)
DoReturns ==
  \A r \in Request :
    cpc[r] = "dial" ~> cpc[r] = "done" \/ (cpc[r] \in {"dial", "select"} /\ ~accepting)
=============================================================================

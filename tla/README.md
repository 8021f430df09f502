# A TLA+ development of pearly

pearly is a peer-to-peer library in Go: nodes over pluggable transports
(TCP, encrypted, onion, proxy), a protocol multiplexer on each connection, and
on top of them a Kademlia-like distributed hash table with the operations
`Bootstrap`, `SetValue` and `GetValue`. The table is the program's own core
logic, and nearly all of its state is shared between goroutines with few locks
or none. It is modelled first; the connections, relays and circuits that carry
it follow.

## 1. Inventory

| Part | State | Operations | Used by |
|---|---|---|---|
| Routing table, `kademila/dhtpeer` | buckets of `k` slots, no lock | `AddPeer`, `RemovePeer`, `GetClosestPeers`, `Peers`, `Distance` | workers of the searches, handlers of kdmgetvalue, `Bootstrap` |
| Lookup, `DHT.GetValue` | list of nodes to ask (mutex), marks (no lock), result, errors (mutex) | self search, workers, result | applications |
| Store, `DHT.SetValue` | slots of storers (mutex), marks and pointers into them, two slices of errors (no lock) | self search, search for storers, removal of non-responders, storing | applications |
| Services, `kdmgetvalue`, `kdmstore`, `DHT.Bootstrap` | one connection and one handler per request | `Do` on the client, `Run` and `HandleRequest` on the server | both searches |
| Hash table, `storage` | a Go map, no lock | `Get`, `Set` | handlers |
| Node, `node/basic` | two loops, one goroutine per connection, an unbuffered error channel | `Run`, `handleConn`, `DialPeer`, `DialPeerUsingProcol` | services, applications |
| TCP and encrypted transports | an accept loop each, unbuffered channels | `Listen`, `Dial`, `upgradeConn`; `Conn.Read`, `Conn.Write` | node |
| Multiplexer, `protocolmux/multistream` | registered handlers | `SelectProtocol`, `HandleConn` | node, services |
| Packet connections, `encrypted.Conn` and `transform.Conn` | the buffer of unread bytes, what was read past a packet | `Read`, `Write`, splitting of long packets | everything above the transports |
| Relays, `onion` and `protocol/proxy` | two connections, a handler and two copying goroutines | request, response, copying, closing | onion and proxy transports |
| Onion circuits, `transport/onion` and `onion/client.go` | two slices over one array, the circuit so far | choosing relays, extending hop by hop, trying again | applications |
| Multi-use transport | does not compile at this commit | | |
| Ping, crypto, options, peer, examples | none worth a model | | |

**How the parts meet.** `GetValue` and `SetValue` run several worker goroutines;
each asks one node at a time through `kdmgetvalue.Service.Do`, which dials,
selects the protocol, sends a gob-encoded request and waits for the response.
The server's node hands the connection through the loops of tcp, encrypted and
node to a goroutine that runs the handler; the handler reads the hash table or
the routing table, adds the client to the routing table, and responds. Workers
add every node they hear of to their own routing table. All of them
take a connection to be a stream of bytes; over the encrypted transport it is a
sequence of gob messages with a buffer between, and inside an onion a sequence of
packets with a length in front. An onion circuit nests them: the client asks each
relay in turn, through the ones before it, to connect it to the next.

**What is hard in it.** The routing table and the hash table are written by
several goroutines without a lock. Searches use pointers into a shared slice
after its mutex is released. Errors are appended to shared slices. Connections
break with requests under way, and no deadline bounds the wait for a response.
All channels are unbuffered, so an error nobody reads stops the goroutine that
holds it. TCP splits and joins packets at any place, and buffers have limits that
only long messages meet. The two directions of a relay end separately, and the
proxy copies before it responds. A dial over relays is retried on slices that share
their array. `PROJECT.json` lists these places line by line under `hazards`, each
with the properties that cover it.

**What makes each part correct.** The table: peers are in their own bucket,
buckets have no gap and no duplicate, calls do what they say, queries are in
order. A lookup: nothing reachable is left out, no value is lost, it ends. A
set: the storers are distinct and close, innocent nodes are not blamed without
bound, success and failure mean what they say. Services: what a client concludes
from an answer holds on the server. The accept pipeline: every connection is
served, every error is reported. A packet connection: what comes out is what went
in. A relay: each side receives exactly what the other sent, a client that fails
has a reason, nothing stays open. A circuit: it ends at the peer that was
dialled.

## 2. Modules

| Module | Models | Extends |
|---|---|---|
| `KeySpace` | `numEqualBitsPrefix`, `distenceBetween` on IDs as byte sequences | |
| `PeerStore` | the routing table, one slot access per step | |
| `GetValue` | `DHT.GetValue` | |
| `SetValue` | `DHT.SetValue` | |
| `KdmServices` | both services, hash table, `Bootstrap`, dialling | |
| `NodeRun` | `Node.Run` over `encrypted.Listen` over `tcp.Listen` | |
| `Stream` | what users of a `transport.Conn` rely on: a lossless stream | |
| `PacketConn` | `Read` and `Write` of `encrypted.Conn` and `transform.Conn` | `Stream` by `INSTANCE` |
| `Relay` | a proxy, or one relay of a circuit, with its client and target | |
| `OnionDial` | `Transport.Dial` of the onion over `EstablishCircuit` | |
| `PeerStoreProofs`, `GetValueProofs`, `SetValueProofs`, `KdmServicesProofs`, `NodeRunProofs`, `PacketConnProofs`, `RelayProofs`, `OnionDialProofs` | theorems | the module they are about |
| `MC*` | instances for TLC | the module they check |

### PeerStore

`buckets[b][i]` is `peers[b][i]`; a peer is its ID, because the store compares
nothing else. `pc`, `arg`, `pos`, `slot`, `next`, `acc` are the program counter
and the local variables of each calling goroutine. `InsertLook`/`InsertWrite`
are the loop of `insertPeerIntoBucket`, `RemoveTest` to `RemoveShift` that of
`removePeerFromBucket`, in which a slot is read twice in one pass (once for nil,
once for `ID()`); `ScanClosest` and `ScanPeers` are one pass of the loops of
`GetClosestPeers` and `Peers`. An ID of another length is refused at the start of
a call. `overlapped` and `quiet` are history variables: the buckets two writers
were in at a time, and whether a slot was written since a query began. A
nil dereference ends the process (`panicked`). A slot is an interface value of
two words; it is read and written here as one word, see section 7.

`bucketPos` and `dist` are parameters. The instance computes them with
`KeySpace`, that is, with the code's own arithmetic on two-byte IDs, its
comparison of the exclusive or with 8 included.

### GetValue

`listed`, `searchDone` are `searchNodes.nodes`. `array` counts how often `append`
has replaced the array: a worker marks its entry through a pointer, and the mark
is lost if the array was replaced since (`Mark`). The entry a worker picks is the
*farthest* unmarked one, as in `getClosestNode`. `AskFails`, `AskAborts`,
`AskFinds`, `AskLearns`, `AskRefused` are the ways a request may return; what
another node says is arbitrary. `named`, `answered`, `found` are history.

The peer store is a set of known peers here with the limit of its buckets
(`AddedTo`); its own interleavings are the subject of `PeerStore`. `OwnAnswers`
uses what `PeerStore` shows of a query nobody interrupts (`ClosestFirst`).

### SetValue

`slots`, `marked` are the fixed array of `searchNode`s, `lock` the mutex that
`addSearchNodeIfCloser` holds over all the peers of one answer. `ptr` is the
pointer a worker keeps after `getClosestNode`: `Mark`, `ReadPeer` and `Blame`
follow it without the mutex. `Blame`/`AppendError` and
`StoreFails`/`AppendFailed` are the unlocked appends, each a read of the slice
header and a later write. `torn` records that two header writes were under way
together, after which the loop over the slice may read past its end
(`RemoveNonresponders`). `termenatingErr` is set and never looked at by
`SearchEnds`, as in the code. `PutInto` drops the peer it replaces.

### KdmServices

A request of kind `get`, `store` or `bootstrap` goes through `Dial`, `Select`,
`Encode` and `Decode` or `ReadStored` on the client, and through `Receive`,
`Get*`/`Set*`, `tryAddPeerToStore` and `sendResponse` on the server, each with
its failure. `conn` is open, broken (by the network or a crash, with what is
under way possibly lost) or closed by the client. `authenticated` chooses the
encrypted transport, where both ends know the other's ID, or TCP. A map access
that overlaps a write is in `raced`: it may return or leave anything, or the
runtime ends the process (`Crash`). `errChanRead` says whether the application
reads the error channel on which a failed handler waits. `accepting` is what
`NodeRun` has in detail: the accept loops of the server may stand still for good
(`Stall`), because an error of the transport is not read or a peer that was
accepted says nothing. `Select` waits for them, and so does `Dial` over the
encrypted transport, where it reads the payload of the server; neither has a
deadline. The server runs the code of the repository. What a node may answer
that does not is in `GetValue`, where an answer may end the search
(`AskAborts`); `HonestPeerDoesNotAbort` is about a server that does.
`ConnClosed` says when `Do` leaves its connection open, which is a leak of the
code: after dialling or a selection that failed, and at no other time.

`convertToError` compares with the bare errors while the server sends them
wrapped, and an error response carries no ID: both are modelled as they are.

### NodeRun

`where` follows each connection through `tcpLoop`, `encLoop` and `connLoop` to
its handler; `errLoop` forwards transport errors. Every rendezvous on an
unbuffered channel is one action of both goroutines (`TakeConn`, `TakeError`,
`Deliver`, `SendError`, `ForwardError`, `HandlerReports`). `upgradeConn` waits in
`encLoop` for the other side's payload (`Speak`), which may never come.

### Stream and PacketConn

`PacketConn` is one direction of a connection. `kind` chooses `encrypted.Conn`,
`transform.Conn` without a Transform as the onion uses it (`plain`), or with a
Transform that returns a new slice, as the tests of the package use it
(`copying`). The bytes written are 1, 2, 3, ... so that any loss, repetition or
exchange shows. A `Write` is not one step: `parts` is what it has still to send,
`Split` cuts a piece that is too long for a packet in halves, and `Send` hands
one packet to TCP, so the reader and a crash may come between two pieces. The
copying goroutines close the connection they write to, so `Close` is not
concurrent with a `Write`. `wire` is what TCP holds; a read of it returns any
part of what has come (`Receive`), so packets are cut and joined at every place,
their lengths included. `unread` and `unreadLen` are the buffer and its length,
`got` the packet `readLeastOnePacketIntoUnread` is reading, `overflow` what lies
past it. `Kept` and `GrownLen` are the results of the loop of `writeUread`,
which past the end of the buffer keeps every second byte; the instance compares
them with the loop, byte by byte (`WriteUreadLoop`). `Overwritten` is
`prependInt` on pieces that share an array: a piece that is shifted to make room
for its length pushes its last bytes over the first bytes of the next one.

`Stream` is the promise: bytes come out in order, none missing and none added,
and an end of stream is only seen after the last one. `StreamRefined` says that
`PacketConn` implements it for writes of at most `Limit` bytes: the length of
the buffer for `encrypted.Conn` (1048), the size of a packet for
`transform.Conn` without a Transform, and any length with a Transform that
copies. Beyond the limit `encrypted.Conn` loses bytes, while `transform.Conn`
damages some and loses none (`keepsLength`). The limits are sharp: with one byte
more, or with `keepsLength` for `encrypted.Conn`, TLC finds a counterexample.

### Relay

`prev` connects the client and the relay, `next` the relay and the target. The
handler reads the request, dials and responds; two goroutines copy, `up` from
prev to next and `down` from next to prev. For the proxy they start before the
response is written (`Dialled`), for the onion after it (`Respond`). A goroutine
that ends with an error reports it on an unbuffered channel (`errRead` says
whether the application reads it) and only then closes its destination. The
client of the proxy reads its response up to a newline, byte by byte into 128
bytes; a message of the target may end that line, lengthen it, or overflow it,
which is a panic. The onion client compares one packet with the text of success.
What a target sends may itself be the text of success (`IsResponse`): if the
proxy copies it before it responds, the client takes it for the response and the
response for data. `CleanStream` therefore leaves out the client of a proxy whose
target spoke first (`SpokeFirst`), and only that one. A connection takes at most
`Window` messages that its far end has not read; then a write waits
(`HasRoom`), and a goroutine that waits there does not see its other connection
end. `TornDown` has as its premise that both far ends go on reading or close,
and that the application reads the errors. Connections close or break at any
time, with what is under way lost.

### OnionDial

From the first pass of its loop on, `relays` is what `remove` returned for
`peers`, so both slices start at the same place of one array. The state is
therefore one `array` and two lengths, and `Removed` is what `append(s[:i],
s[i+1:]...)` does to the array. `Choose` is one pass of the loop, whose bound
changes under it. `Extend` and `ExtendFails` are one hop of `EstablishCircuit`;
`Replace` puts another peer at the index of the failed relay, which after the
removal is the place of its successor.

## 3. Runs

| Run | Instance | Properties |
|---|---|---|
| `peer_store` | 2 goroutines, 5 IDs in 2 used buckets, `k` = 2 | `TypeOK`, `RightBucket`, `IntactBuckets`, `PanicNeedsOverlap`, `SortedResult`, `ClosestFirst`, `PeersExact`, `CallPromise` |
| `get_value` | 4 nodes, 2 workers | `TypeOK`, `NotFoundIsExhaustive`, `ValueNotLost`, `Terminates` |
| `set_value` | 4 nodes, 2 workers, 2 slots | `TypeOK`, `StorersSorted`, `ClosestKept`, `BlameBounded`, `StorersAsked` |
| `set_value_live` | 3 nodes, 2 workers, 3 slots | `NoSpuriousFailure`, `Terminates` |
| `kdm_services` | 2 requests, 2 keys, both transports | `TypeOK`, `StoresSeen`, `BootstrapMutual`, `HonestPeerDoesNotAbort`, `ConnClosed`, `DoReturns` |
| `node_run` | 3 connections, 2 failures of Accept | `TypeOK`, `ErrorsAccounted`, `Served`, `NodeStops` |
| `packet_conn` | lengths of 2 bytes, packets of at most 4, a buffer of 5, writes of 1, 4, 6 and 9, reads of 2 and 6, at most 10 bytes | `TypeOK`, `FailsOnlyIfCut`, `StreamRefined`, `Delivered` |
| `relay` | 1 message of the client, 3 of the target, a line of 1, a `Window` of 2 | `TypeOK`, `CleanStream`, `FailureExplained`, `TornDown` |
| `onion_dial` | up to 6 servers, `NumRelays` up to 2, 4 attempts | `TypeOK`, `PanicNeedsFew`, `EndsAtDest` |
| `closest_returned` | 1 goroutine | `ClosestReturned`, violated |
| `min_stores` | 3 nodes, 2 workers, 3 slots | `MinStoresHeld`, violated |
| `already_set` | 3 nodes, 2 workers, 2 slots | `AlreadySetReported`, violated |

**Why the bounds suffice.** Every race in the code is between two goroutines, so
two threads, workers or requests meet each of them; the theorems of section 5
hold for any number. Three IDs compete for the two slots of one bucket, so it
fills, shifts and refuses; a fourth ID lies in another bucket. In `get_value`
the second and third entries of the list make `append` replace the array, and
two peers share a bucket with one slot. In `set_value` three other nodes
compete for two slots, so slots are replaced while workers point at them;
`set_value_live` has as many slots as nodes, so all of them can be storers and
more than `MinNumStores` can fail. Three connections let one wait behind another
in each loop, and two failures of Accept suffice to fill the error path.
In `packet_conn` a write of 4 fits a packet exactly, 6 is split once and
is one too long for the buffer, 9 is split twice; ten bytes allow a second write
behind a long one, so a read brings parts of two packets, and the buffer has to
grow. In `relay` three messages of the target fill the line, overflow it and
still leave one to arrive late, and with a `Window` of two a goroutine comes to
wait for room in either direction. Six servers and four attempts let every place of
the circuit fail in every attempt. `MaxAcceptErrors`, `MaxBytes`, `MaxUp` and
`MaxDown` are the only caps on counters; `Window` stands for the buffers of TCP. Threads, workers and relay servers are
symmetric in `peer_store`, `set_value` and `onion_dial`; the runs with liveness
use no symmetry.

`CHECK_DEADLOCK FALSE`: a call that has returned, a process that has panicked
or a node that has stopped does nothing more. That calls do return is what the
liveness properties say.

**Fairness.** Goroutines that can run do run: weak fairness of each worker,
client, handler and loop. A `select` of Go chooses among its ready cases at
random, so a case that is ready again and again is taken: strong fairness of
`EncDone` and `ErrDone`. A goroutine that waits for somebody else is not
assumed to go on. The server of `KdmServices` is a node of this program, so its
handlers are fair as well. What other nodes, the network and the applications do
has no fairness, and a step that needs them has a guard that says
so: `Dial` and `Select` need accept loops that run, `CopyWrite` a far end that has
room, `Report` a reader of the errors. What a liveness property needs of
them is written in it:

| Property | Premise | Why it is needed |
|---|---|---|
| `Terminates` (both searches) | `RequestsReturn` | no deadline is set on a connection: one silent node blocks a search |
| `DoReturns` | while dialling or selecting, `accepting` | neither has a deadline. After the selection it has no premise: the server of `KdmServices` runs, breaks its connection or crashes |
| `Served` | `PeersSpeak`, `ErrorsTaken` | one silent connection, or a second error that is not read, stops the accept loops |
| `NodeStops` | `errChanRead` | a loop that holds an error waits for a reader |
| `TornDown` | `errRead`, room in both directions | a goroutine that waits to report or to write closes nothing |

The reader of `PacketConn` reads until it fails, as every copying loop of the
program does, and a `Write` that has begun goes on to its last piece; both are
assumed by `Delivered`.

## 4. Where the code and its own words differ

* `closest_returned`: `GetClosestPeers` overwrites a farther peer of its result
  instead of moving it to the next place. In the run the store holds two peers
  and two are asked for; the farther one is met first, the closer one takes its
  place, and the result is the closer one alone. `HandleRequest` calls it to
  "Get the closest nodes we know." What holds is that the first result is the
  closest (`ClosestFirst`) and that the results are in order (`SortedResult`).
* `min_stores`: two workers of `setValueInPeers` append to `failedStored` at the
  same time and one failure is lost, so `SetValue` succeeds with fewer than
  `MinNumStores` copies. The race only loses failures: `NoSpuriousFailure`.
* `already_set`: `findStorersInNetwork` returns nil where it has
  `termenatingErr`, so `SetValue` overwrites a value another node reported.

Other weaknesses are stated by properties that say exactly when they
show, because no text of the repository says otherwise:

* long messages over `encrypted.Conn` and `transform.Conn` (`StreamRefined`);
* a healthy `transform.Conn` fails with "missing packet size" if a read of TCP ends
  within a length (`FailsOnlyIfCut`);
* a proxy client fails, or panics, if the target speaks before the proxy has
  responded (`FailureExplained`);
* the circuit of the onion has one member less than there are relay servers,
  whatever `NumRelays` is, and `Dial` panics with fewer than two (`TypeOK` and
  `PanicNeedsFew` of `OnionDial`);
* a retry may connect to a different node than the one asked for and report
  success, once the relay next to the destination has failed (`EndsAtDest`).

## 5. Proofs

For every value of the constants allowed by the assumption of each module
(`PeerStoreAssumption`, `GetValueAssumption`, `SetValueAssumption`,
`KdmServicesAssumption`, `NodeRunAssumption`, `PacketConnAssumption`,
`RelayAssumption`, `OnionDialAssumption`): any number of goroutines, nodes,
buckets, slots, requests, connections, messages, bytes, relay servers and
retries. The assumptions say that IDs have a bucket and distances, that two
nodes do not have the same distance to a key (the distance is an exclusive or of
the key with their IDs), that there is at least one worker and one slot, that a
key can be valid and that markers for nothing differ from values. Those of
`PacketConn` give every length at least one byte, let a header fit the buffer (4
bytes against 1048), and make a packet so long (`2 * HeaderLen - 1`, that is 7
bytes; the code's packets have 10 KiB and nothing in the repository asks for
others) that the half of a longer one is not shorter than a header, without
which `prependInt` would reach past the next piece. Every invariant the runs
check is a theorem, and so is the refinement `StreamRefined`.

* **PeerStoreProofs**: `TypeCorrect`; `ResultsSorted` (`SortedResult` is
  inductive with the types); `PeersInTheirBucket` from `PlacedInv`, which adds
  that a writer's argument, and the peer it is moving, belong to the bucket it
  is in; `BucketsIntact`, `NoPanicAlone` and `PromiseKept` from `BucketInv`.
  While a writer is in a bucket the bucket is not intact, so `BucketInv` says
  for each program point of the only writer what the bucket looks like: the
  slots it has passed, the gap, the peer it holds in `next`. If two writers were
  in a bucket nothing is claimed of it. `ClosestIsFirst` and `PeersAreExact`
  from `QueryInv`: of the slots that a query has passed without a write to the
  table, `Peers` has collected all, and none is closer than the first result of
  `GetClosestPeers`.
* **GetValueProofs**: `TypeCorrect`, `Exhaustive`, `FoundIsReported` from
  `SearchInv`: a named peer is listed or waits in the `new` of a worker;
  a marked peer is settled or in the hands of a worker; a worker stops only with
  a result or when everything is marked; a found value is published or about
  to be.
* **SetValueProofs**: `TypeCorrect` from `PointerInv` (a pointer leads to a slot
  that is not empty, which makes following it safe); `StorersInOrder` and
  `ClosestIsStorer` (inductive with the types); `BlameIsBounded` from `BlameInv`
  (a slot a worker points at holds a peer at most as far as the one it asked);
  `AllStorersAsked` from `AskedInv` (a marked slot's peer was asked, or a worker
  that has marked it is about to read or ask it); `FailureIsReal` from `CountInv`: a
  storer is handed to one worker only, and the length of `failedStored`, read or
  written, never exceeds the number of storers that were handed out and can no
  longer confirm, whichever appends were lost.
* **KdmServicesProofs**: three invariants, each on top of the one before.
  `EndsInv`, where the two ends of a request can be with respect to each other,
  gives `TypeCorrect`; `ReplyInv`, what each end may conclude of the other from
  an answer, gives `BootstrapIsMutual`, `HonestPeerIsExpected` and `DoCloses`;
  `SeenInv` gives `ConfirmedIsSeen`: as long as no store raced, the table holds
  for the key of every store it was given a value that is no older, and an
  answer on its way is one its request may accept (`Acceptable`). That set only
  grows: what was confirmed before the request was issued is fixed, while stores
  are added.
* **NodeRunProofs**: `TypeCorrect` and `NoErrorLost` from `ErrorInv`. A connection
  fails at most once and then stays at its end, so each new error adds one to
  both sides of the count. The set of connections may be infinite; those
  counted are finite.
* **PacketConnProofs**: `TypeCorrect` and `HealthyReads` from `FrameInv`, which
  describes the bytes of `overflow`, `got` and `wire` together (`Incoming`) as
  whole packets, the first of which may have been begun and the last of which
  may be missing after a crash. `ImplementsStream` from `StreamInv`, which adds
  to it that the bytes read, unread, under way and still to be sent make up, in
  this order, the bytes written: by value as long as no write was longer than
  `Limit`, by number otherwise. Every step maps to a step of `Stream` or to a
  stutter: `Write` to its write, `Close` and `Crash` to its end, the last step
  of a `Read` to a read, the end of the stream or a failure, all others to nothing. Splitting needs no induction,
  because one step cuts one piece. For `encrypted.Conn` nothing is claimed once
  a write was longer than its buffer.
* **RelayProofs**: `TypeCorrect` from `PhaseInv`, which relates the client, the
  handler and the two goroutines. `FailureHasCause` from `ExplainInv`: a response
  "fail" is only sent by a relay that could not reach its target, and while the
  target has not spoken early the response is the first thing the client can
  read. `StreamIsClean` from `StreamInv` on top of it: in each direction the data
  received, the data under way to the receiver, the message a goroutine holds and
  the data under way to the relay are consecutive, for a connection that is still
  intact without a gap, and the response lies in front of them. Towards the client
  of a proxy that is claimed only as long as the target has not spoken first.
* **OnionDialProofs**: `TypeCorrect`, `PanicsOnlyWithFew` and `CircuitEndsAtDest`
  from `DialInv`. It gives the lengths of both slices at every point, so that
  every index is in range, and says that the destination is at the end of
  `relays`. The step that matters is `Replace`: the destination
  moves forward once with the removal of the failed relay and is then in two
  places of the array, so the second removal leaves it where the circuit ends,
  from whichever side the new relay is taken.

The inductive invariants were model-checked before they were proved.

## 6. Model-checked only

* Liveness (`Terminates`, `DoReturns`, `Served`, `NodeStops`, `Delivered`,
  `TornDown`): outside the prover.
* `KeySpace`: byte arithmetic, evaluated on the IDs of the instance;
  `BucketInRange` is an assumption TLC evaluates. The theorems of `PeerStore` take
  `bucketPos` and `dist` as parameters.
* That `Kept` and `GrownLen` are what the loop of `writeUread` computes
  (`WriteUreadLoop`): an induction over the data, evaluated up to three
  lengths of the buffer. The theorems are about `Kept` and `GrownLen`.
* The three properties that are violated: TLC's counterexamples are their proof.

## 7. Abstractions and what is not modelled

* An interface or slice header is written in one step. A torn slot
  of the routing table would mix the type word of nil with the data word of a
  peer; all peers have one concrete type, so the outcomes are a nil or a peer,
  which the word model has. A torn `errorCollection` is `torn`.
* `PutInto` and `Mark` of `SetValue` are one step each. The code copies a
  `searchNode` of a peer, a distance and `searchDone` in several words
  (kadmilla.go:435, 445), while another worker sets `searchDone` and then reads
  the peer through its pointer without the mutex (360-365). `StorersAsked` holds
  as long as memory is sequentially consistent and the fields are copied in the
  order of their declaration (407-411); Go promises neither where accesses race.
* Addresses of peers: the store keeps the first record of an ID.
* Nodes in `SetValue` report true distances and sort their answers; the code
  trusts the distances in a response.
* `StoresSeen` with two requests has one store before one get. A third request
  that overwrites, or whose reply was lost, is covered by the theorem
  `ConfirmedIsSeen`, for any number. Requests whose access to the map was raced are
  excluded by its premise, because the unlocked map promises nothing then.
* Liveness of `SetValue` and `GetValue` has as its premise that requests return: a
  peer that keeps a connection open without answering is excluded from `Terminates`, and
  `KdmServices` has no such peer.
* Messages of `KdmServices` fit the 1048-byte buffer of `encrypted.Conn`; longer
  ones are the subject of `PacketConn`.
* Other goroutines of the same node do not touch the peer store during a
  `GetValue` or `SetValue` of these modules; `PeerStore` covers their races.
* `PacketConn`: encryption itself, writes of no bytes, `WithBatchSize` (no code
  of the repository sets it), a Detransform that lengthens its data, and the
  limit of what TCP takes before a Write blocks.
* `Relay`: one relay at a time. The connections of a circuit are nested, so a
  relay sees the next one as its target. A message is what one Write
  sends; how it is cut, and the "missing packet size" that may follow, is the
  subject of `PacketConn`. The proxy reads the request into 128 bytes as well
  (proxy.go:109): a client that sends a longer line makes the proxy panic, which
  is not modelled, because the client of the repository sends a short one. That
  the response itself overflows an almost full line of the client is modelled
  (`Overflows`). `NewEncryptionStream` fails
  only for a key of the wrong length, which the client does not send.
* `OnionDial`: the goroutine that `SelectProtocol` leaves behind on cancellation
  is in `KdmServices`. A context that ends is a failure of the hop.
* Not modelled: the multi-use muxer. Its package does not compile at this
  commit (it calls `writeUread` where the method is `writeUnread`, and
  `underlyingConn` where the field is `underlayingConn`), so there is no behaviour
  to be faithful to. Ping (one write, one read), crypto (library calls),
  options (setters of constants), peer (an immutable record), the example
  program and the test helpers have no state worth a model.

## 8. Plan

Done: all modules of section 2 and the theorems of section 5. Every component
with behaviour of its own is modelled, and every invariant of the runs is
proved. What is left, in this order:

1. A set with limited capacity, as `AddedTo` of `GetValue` and `SetValue` assumes
   of the routing table, and a proof that `PeerStore` implements it as long as no
   two writers meet in a bucket.
2. `GetValue` as an implementation of a lookup that asks any subset of the named
   nodes once or more and ends with a value or with all of them asked.
3. The history of `KdmServices` as an implementation of one register for each
   key, for accesses to the map that do not overlap.

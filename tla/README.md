# A TLA+ verification of lib3h

lib3h is the peer-to-peer networking layer of Holochain: a Rust library that a
client ("core") polls, that joins *spaces*, keeps a DHT per space, and moves
direct messages, entries and gossip between the nodes of a space. Everything in
it is an actor driven by polling: an engine has one thread, and all
communication between its parts goes through *ghost channels*. Only the
in-memory transports share state between threads, under a mutex.

This directory holds TLA+ models of its parts, the TLC runs that check them and
the TLAPS proofs of what holds for every size of the system. `PROJECT.json`
lists the runs, the source lines of every definition, the mutants that show each
property can fail, the hazards the properties are aimed at, and the findings.

## 1. The system

### 1.1 Components

| component | state it keeps | operations | talks to |
|---|---|---|---|
| ghost channel and tracker (`zombie_actor`) | two queues, an outbox per end, a map of pending callbacks with expiry per end | `request`, `publish`, `drain_messages`, `respond`, `process` | carries every other interaction below |
| actor wrappers, `Detach` | an endpoint and the actor behind it | `process` = actor, then endpoint | ghost channel |
| mirror DHT (`dht/`) | peers held, who of them timed out, aspects held per entry, own record | `HoldPeer`, `HandleGossip`, `BroadcastEntry`, `HoldEntryAspectAddress`, `UpdateAdvertise`, periodic `internal_process` | its gateway (owner) |
| gateway (`gateway/`) | the sends that wait for a retry, this peer | sends by peer name or location, decoding of what is received, forwarding between DHT, transport and engine | DHT, transport, encoder, engine |
| message encoding | none | encode, decode | gateway |
| memory transport | servers shared by a process, connections | bind, connect, post, close, process | gateway or multiplexer |
| websocket transport | per stream a state machine, messages waiting for a connection | bind, connect, send, accept, heartbeat | gateway or multiplexer |
| multiplexer | routes by agent and space | create and remove a route, forward both ways | network gateway, space gateways |
| engine (`engine/`) | a network gateway, a gateway per space and agent, tracked requests | join, leave, bootstrap, direct message, publish, query, entry lists | client, gateways |
| tracker and legacy wrapper | request ids that wait for an answer | `post`, `process` of the polling interface | engine, client |
| mdns | own and cached records with a time to live | advertise, discover, release, flush, insert | other hosts over UDP multicast |
| crypto (`crypto_api`, `sodium`) | per buffer its protection and who locks it | hashing, key derivation, signing, key exchange, encryption | libsodium |
| protocol types, wire protocol, keystore | - | conversions, generated code, stubs | - |

### 1.2 What is hard here

* **Late answers.** Every request has a timeout; an answer may come after the
  callback was run with `Timeout`, and the error this causes cuts a polling loop
  short (`ghost_tracker.rs:163`, `ghost_channel.rs:526`).
* **Errors in the middle of a loop.** `?` inside a loop over drained messages
  loses or delays the rest (`ghost_tracker.rs:114`, `gateway_actor.rs:27`,
  `space_layer.rs:67`, `streams.rs:260`).
* **Two ends that go away independently.** An endpoint may be dropped while
  messages that can still be answered are held elsewhere.
* **Gossip.** Records of peers and entries are repeated, delayed and reordered,
  and nodes restart with a new timestamp, possibly at a new location.
* **Subtraction of clocks** of different machines in `u64` (`mirror_dht.rs:157`,
  `:251`).
* **Retries** of sends until they expire (`gateway_transport_send.rs`), and of
  messages that wait for a connection (`websocket/actor.rs`).
* **Threads.** Memory transports lock the shared net several times in one call of
  `process()`; others bind, close and post in between, and one that panics
  poisons the mutex for all (`ghost_transport_memory.rs:339`).
* **A panic in a cell.** The engine is taken out of its `Detach` while it runs; a
  panic leaves the cell empty (`detach/src/lib.rs:134`).
* **Locks that panic.** A buffer that is locked twice panics in the middle of a
  function that holds other locks (`read_locker.rs:10`).

The full list, with a line and the properties that cover it, is under
`hazards` in `PROJECT.json`.

### 1.3 What makes each component correct

* Channel: a callback runs exactly once, with the answer that was given or with
  a timeout after its expiry; no error path loses a request or a message; a
  reported disconnect is final.
* DHT: nodes come to hold each other; nothing old replaces something new; the
  bookkeeping of timeouts matches the peers held; only clocks that differ make
  ages wrap; a DHT holds nothing its client has not published or accepted; what
  is published arrives.
* Gateway: a send ends in one callback; it is retried while it may succeed.
* Transports: a message posted on an open connection is delivered once, in
  order; every request is answered, with success only if it was written.
* mDNS: what is returned is alive; what is released is forgotten in the end.
* Crypto: no error path leaves a secret readable, and none makes a later call
  panic.
* Engine and legacy wrapper: what is sent to a space reaches that space; a
  client's request is answered once, and its answers reach what they answer.

## 2. Modules

| module | models | kind |
|---|---|---|
| `RequestResponse` | what a channel promises to its two actors | abstract specification |
| `GhostChannel` | `ghost_channel.rs`, `ghost_tracker.rs` | component |
| `MCGhostChannel` | instances of it | TLC |
| `GhostChannelProofs` | its theorems | TLAPS |
| `MirrorDht` | `mirror_dht.rs`, with the handlers of gateway and engine that feed it, and a network | component |
| `MCMirrorDht` | instances of it | TLC |
| `DiscoveryProofs` | its theorems and those of `Mdns` | TLAPS |
| `SendService` | what a gateway promises about a message it sends | abstract specification |
| `Gateway` | `process_concrete` of a gateway and the sends of `gateway_*.rs`, with its encoder | component |
| `MCGateway` | instances of it | TLC |
| `GatewayProofs` | its theorems | TLAPS |
| `Engine` | `process_concrete` of an engine, its network and space layers, the routes of its multiplexer | component |
| `MCEngine` | instances of it | TLC |
| `EngineProofs` | its theorems | TLAPS |
| `FifoLinks` | what connected transports promise to their parents | abstract specification |
| `MemoryTransport`, `MCMemoryTransport` | `transport/memory_mock` | component, TLC |
| `MemoryTransportProofs` | its theorems | TLAPS |
| `WebsocketTransport`, `MCWebsocketTransport` | `transport/websocket` | component, TLC |
| `WebsocketTransportProofs` | its theorems | TLAPS |
| `Mdns`, `MCMdns` | the `mdns` crate | component, TLC |
| `LegacyLib3h`, `MCLegacyLib3h` | `ghost_engine_wrapper.rs`, `track.rs`, the conversions of `lib3h_protocol` | component, TLC |
| `LegacyLib3hProofs` | its theorems | TLAPS |
| `CryptoBuffers`, `MCCryptoBuffers` | `crypto_api` and `sodium` | component, TLC |
| `CryptoBuffersProofs` | its theorems | TLAPS |

Operators whose comment starts with MUTANT or Mutant are faulty variants of the
definition after them. No specification uses them; they exist to show that the
properties can fail (`mutants` in `PROJECT.json`).

### 2.1 GhostChannel

State: per side, the crossbeam queue it receives from (`chan`),
`outbox_messages_to_self` (`outbox`), the drained messages its actor owns
(`held`), the ids in its tracker (`pending`) with their `expires`, and where it
is in `process()` (`pc`, `expired`, `result`). `sender`, `answer` and `outcome`
are history. Payloads are reduced to ok or error.

Actions: `Request` (`priv_request`: bookmark first, then a send that may fail),
`Publish`, `DrainMessages`, `RespondRequest` and `RespondPublishError`
(`GhostMessage::respond`; an error answer to a published message panics, which
unwinds the owner), `DiscardMessage`, `Close`, `Tick`. `process()` is cut where
other actors can interleave: `ProcessStart` reads the clock and collects what
expired, `ExpireOne` runs one callback (whose error ends `process()`),
`ExpireDone`, then one step per `try_recv`: `ReceiveRequest`, `ReceiveResponse`
(`GhostTracker::handle`), `ReceiveEmpty`. Callbacks that make requests of their
own are covered by the steps between two calls of `process()`: they see the same
queues and trackers, and the `Detach` around the endpoint forbids them to enter
`process()`.

### 2.2 MirrorDht

State, per node: the `clock` of its machine; `this_peer`, `peer_map`,
`timed_out_map`, `entry_list`, `last_gossip_of_self` as in the struct; `requests`,
what waits on the way between the DHT and its client; `store`, the aspects its
client stores; and one set `gossip` of messages in the network. `panicked` are the
nodes that a subtraction stopped; `published` and `restarted` are history. A
peer's record is its location and timestamp; content of aspects is left out,
except whether it is present (`shallow`).

Actions of the DHT: `HandleGossip` (peer or entry), `HoldPeer`,
`HoldEntryAspectAddress`, `BroadcastEntry`, `InternalProcess`, `Overflow`. Actions
of its owners: `Introduce` (a `PeerName` or join message makes the gateway or
engine send `HoldPeer`), `PublishEntry`, `HoldEntry`, `AuthorEntry`, `FetchEntry`,
`StoreEntryAspect`, `UpdateAdvertise`, `Restart`. Choices worth knowing:

* `requests` is a set: it allows every order, the channel's order among them,
  and gossip is a set that a delivery may leave unchanged, which repeats the
  message. Safety therefore holds for delayed, lost, repeated and reordered
  messages.
* `process_concrete` serves the whole inbox and then runs `internal_process`;
  the model serves one request per step and polls `internal_process` at any
  time, which includes that order. The requests of one node never interleave
  within a step, as in the code.
* `HoldPeerRequested` goes to the owner, which in a space answers with `HoldPeer`
  (`space_layer.rs:123-133`): one request in the model. The owner of the
  network's own DHT sends the peer an empty message instead
  (`network_layer.rs:73-88`), so `PeersConverge` speaks of spaces.
  `HoldEntryRequested` becomes one `HandleStoreEntryAspect` per aspect.
* `StoreEntryAspect`: the client stores what it is asked to store, or refuses or
  does not answer, which the callback ignores (`ghost_engine.rs:641-648`).
  A client publishes only what has something new in it; `HoldEntry` and
  `AuthorEntry` bring up what it stores.
* `AuthorEntry` compares the list with the DHT and asks for the entry in one
  step. In the code the answer of `RequestAspectsOf` may be stale by then, which
  only adds fetches of aspects already held; these also come from shallow
  entries, and `BroadcastEntry` ignores them.
* Each node reads the clock of its own machine (`time.rs`); they start at any of
  `StartTimes` and move on independently, never back. Ages are differences of
  `u64`. Where a time is ahead of the own clock (`Ahead`), a build with overflow
  checks panics (`Overflow`, which stops the node) and one without gets a huge
  age (`OlderThan`); both are steps. What is reported as `PeerTimedOut` is
  ignored by both owners, so a peer that a wrap makes look dead is only marked.
  A clock that is set back on one machine is not modelled.
* A restarted node has a new DHT, an empty inbox, the stored aspects of its
  client and a later timestamp.

### 2.3 Gateway

State: per send its kind, its `stage` (the ghost request it waits for, the
queue `pending_send_queue`, or its outcome), whether its location was looked up
(`resolved`), and three timers: `ttl` (`expires_at`), `age` (`last_attempt`) and
`left` (the expiry of its ghost request). `owed` holds the requests to children
that have not been answered or whose answer was not received; `late` marks those
that timed out. `thisPeer` and `fetching` are the timers of the `RequestThisPeer`
of each call and of the entries asked of the parent. `pc` is the phase of
`process_concrete`, `result` how the latest call ended, `dead` why the gateway
panicked. `copies` is history: the copies of a message the transport took, or
may still take.

A call of `process()` is `Start`, then per child the timeouts (`Expire`), its
answers one by one (`Receive`, `ReceiveThisPeer`, `ReceiveEntry`) and the
drained messages (`EndParent`, `EndTransport`, `EndEncoder`, `EndDht`), with
`PendingSends` between encoder and DHT. `Settle` is what all callbacks share:
where a send goes next and what this does to its timers. Choices:

* Clocks are compared with each other only, so the model counts down. Time
  passes between calls of `process()`; one call takes no time against timeouts
  of 20 s. `SystemTime` (ghost requests) and `Instant` (sends) run alike; a
  system clock that is set forward breaks the argument of section 4.
* The DHT and the encoder are polled by the gateway and answer all they were
  asked in that call (`GhostParentWrapper::process` polls the actor before the
  endpoint). The transport answers at any time or never.
* A `SendAll` is a send per peer, of which one is modelled; `Bind` and the DHT
  requests of the parent are forwarded one to one and left out; so are the
  panics on bytes that cannot be decoded.

### 2.4 Engine

State: `gateways` are the keys of `space_gateway_map` and `taken` what
`process_space_gateways` has drained from it; `routes` are the keys of
`route_endpoints`. A *chain* is a space with an agent of this engine. Each
message has a chain and a `stage`: queued, inside a gateway (`sending`, `acked`,
`routed`), drained from it, `asked` of the client, `pending` in
`pending_client_direct_messages`, or ended; `reply` is where the answer of the
remote agent is. `asks` counts the callbacks that wait, `listing` ages the
`RequestPeerList` of new connections, `deferred` is
`multiplexer_defered_sends`. `pc` is the phase of `process_concrete`, `didWork`
its flag, `result` how the latest call ended, `dead` why the engine panicked.
`member` is history: the spaces the client was told it joined and has not left.

A call is `Begin`, the callbacks of the client's answers up to `EndEndpoint`,
the commands up to `EndClient`, and, only if there were none, the multiplexer up
to `EndPoll` and the events of the network up to `EndEvents`, and, only if there
were none, `ProcessGateway` or `FailGateway` for each gateway up to `EndSpaces`
and what they asked for up to `EndRequests`. Choices:

* The client, the network gateway and the gateways of the spaces are
  environment: they answer, fail or stay silent as they like, and answers come
  in any order. What they promise themselves is the matter of `GhostChannel`,
  `Gateway` and `MirrorDht`.
* Commands, events and requests are sets, and each loop takes them in any order.
  A ghost channel keeps its order, which is among them.
* A frame may go out although its send is not acknowledged (`SendFrame`): the
  websocket library keeps a frame whose write would block, and the transport
  reports a failure and tries again (`websocket/actor.rs:175-183`). So a result
  may come before `handle_direct_message` has noted that it waits for one.
* Publishing asks the client to store each aspect first (`HandlePublish`,
  `StoreCallback`). Those requests wait, time out and are answered late like any
  other, and nobody looks at the answer.
* `FailGateway` is any error of `GhostParentWrapper::process`: a late answer, a
  callback that fails. The calls a callback makes before the error are kept.
* A tick passes only after a call of `process()`, so a timeout means at least
  as many calls as ticks.
* Left out: the bootstrap nodes of the configuration, `network_connections` and
  the notices `Connected` and `Unbound`, gossip (forwarded to a DHT, section
  2.2), payloads that do not decode, `request_track`, and the receipt of
  `AllJoinedSpaceList`, which no engine sends (section 5.2).

### 2.5 MemoryTransport

State: the net (`urlCount`, `advertised`) with, per url, the server's `state`,
`inboxMap`, `queue` and `connInbox`; per transport `addr`, `connections`,
`discovery` (`last_discover` against its interval) and, inside a call, `pc`,
`todo` and `events`. `binds`, `uri`, `answer`, `posted` and `received` are
history.

One step is one critical section of the net's mutex: `StartProcess`,
`DiscoverOne`, `ServerProcess`, `ConnectBack`, `PublishReceived`, then a request
of the parent at a time (`HandleBind` and `Advertise`, two sections, or
`HandleSendMessage`), `EndProcess`. Between any two of them another transport may
do anything. The `unwrap()` on the result of `post()` panics while the guard of
the net is alive and poisons the mutex: from then on every transport panics as
soon as it takes the lock (`Poisoned`, `LockPanics`). `Starts` says what the
discovery timers may show at the beginning. `Unbind` is the
unbinding of a server by somebody else in the process. `request_close` of a
server is called nowhere and has no action of its own; closing is reached by
`Unbind`. Inboxes of different senders are drained in any order, as a `HashMap`
does.

`FifoLinks` keeps of this what the parents see (`uri`, `answer`, `posted`,
`received`): a message is refused, or accepted by one link once, and a link tells
of what it accepted in order. A step in which a server is drained tells the
parent of more of what several links accepted; a message to the own url is
accepted and told in one step.

### 2.6 WebsocketTransport

State: `socket` is the state of each stream (the variants of
`WebsocketStreamState` by name), `silent` the age of `last_msg`, `taken` what
`process_stream_sockets` has drained from its map and not looked at, `events`
the event queue; `inbox`, `drained`, `pending` and `temp` are the four places a
request may be in. `answer`, `frames`, `read`, `told` and `cutOff` are history.

A call is the inbox (`InboxBind`, `InboxSend`, `EndInbox`), `Accept`, a
`SocketStep` per stream (handshake, read or ping; a failing ping drops all
streams that are still taken out), `ProcessStreamEvents`, `ProcessPending`,
`EndProcess`. The six handshakes are records over one action: where they start,
where they wait and what they lead to. TLS, the bytes of handshakes and the
socket library are nondeterministic, except for the peers in `Responsive`.
A write may fail after the library kept the frame. `discover()` and `release()`,
which only forward to mDNS, are left out.

### 2.7 Mdns

State, per host: `own` and `cache` (`own_map_record`, `map_record`), the packets
in its `socket`, `phase` and `result` of `discover()`, and whether its interface
is `down`. Actions: `Advertise`, `Release`, `Flush`, `InsertOwnRecord`; a call of
`discover()` is `StartDiscover`, `Responder` once per packet and `FinishDiscover`
(query if due, ageing, pruning), which may come with packets left: an error of
`recv_from` or an empty datagram ends the loop (a `Fault`). Any of them fails
while the interface is down. `Lose`, `Foreign` (a packet that does not parse) and
`InterfaceFails` are the environment; a full socket drops packets. Addresses,
ports and DNS bytes are left out: a message is its questions, its records and how
many sections it has. `MdnsAssumption` asks that an own record has a url, which
the caller outside tests gives it; with an empty list the code would still query
for it (`lib.rs:381-397`). Urls are kept per network: `ReturnedUrlsAreLive` says
that one network has a url once, while `urls()` returns it twice if two networks
have it (`lib.rs:160-172`).

### 2.8 LegacyLib3h

State: whether the engine is in its `Detach` cell, out of it or `lost`, the
`phase` of `process()`, both channels, the callbacks that wait (`pending`,
`overdue`), `responses` (`client_request_responses`), `tracker`, `idMap`; of the
client what it posted, got and answered; of the engine what it holds, sent and
received. `Post` and `PostAnswer` are the two halves of `post()`; `process()` is
`StartProcess`, the steps of the engine up to `EngineDone` or `EngineFails`, the
endpoint (`EndpointExpires`, `EndpointReceives`, `EndpointDone`) and `Drain`. The
engine is any actor; what it really does is the matter of `Engine`. The tables of
message kinds are the `From` and `TryFrom` implementations of `lib3h_protocol`.

* There are three panics (`panicked`): `post()` has no arm for a kind
  ("unimplemented"); the engine panics while it runs ("engine"), as it does on
  `FetchEntry` (`ghost_engine.rs:254`) or on an error for an event; `post()` or
  `process()` find the `Detach` empty ("detached"), because a panic inside
  `detach_run!` does not put the engine back. The unwinding drops the engine with
  both channels. A caller that catches the panic may go on calling, and the model
  does.
* `post()` looks at the request id, not at the kind: a message with an empty id is
  published and never answered (`NoId`, `Requests`).
* `inject_request_id` has no arm for `Disconnected` and `SendDirectMessageResult`
  (`ghost_engine_wrapper.rs:317-334`); the tracker makes an id for them, which the
  client is not given (`Injected`, `HandedId`).

### 2.9 CryptoBuffers

State: per buffer the recorded state `p` and the protection `mem` of its pages,
the lockers its owner has (`held`), and the function that runs (`call`,
`outcome`). A function is a record of its checks and its locks in order: `Begin`
checks lengths, `Lock` takes one lock, `Sodium` calls libsodium, `Unlock` and
`Unwind` drop lockers after success, error or panic, `Return` ends it. The
functions of `SodiumCryptoSystem` (`CryptoSystem`) and of the older `SecBuf` API
(`SecBufFunctions`) are one definition each. The borrow checker's rules are the
precondition `Borrows`: an argument that is written is no other argument.
Dropping a locker panics on a `SecureBuffer` that is closed already (`Release`).
The caller opens buffers with lockers only: `set_readable()` and `readable()`
without one are not modelled.

## 3. Runs

| run | asks | bounds |
|---|---|---|
| `channel` | every interleaving of two ends: nothing lost, disconnect final, refinement of `RequestResponse`; every request completes and every event is received | 2 requests, 1 event, one timeout, clock to 1 |
| `dht` | a DHT holds only what its client vouched for, ages wrap only where clocks differ, timeout bookkeeping, monotonic data; a broadcast reaches the peers held | 2 nodes whose clocks start at 0 or 1 and go to 2, one restarts, the other publishes and lists 1 entry |
| `dht_converge` | nodes of a space come to hold each other | 3 nodes joining through one, no time passes |
| `gateway` | at most one copy of a message with the transport; panics on timeouts need an error; refinement of `SendService`; both sends end | a send of any kind beside a message of the client, timeouts and retry interval 1, 1 entry fetched |
| `gateway_publish` (violated) | no published message is answered with an error | 1 send |
| `engine_spaces` | map, routes and messages agree; no result is wasted once its send succeeded; nothing is lost in a call that succeeds | 2 spaces, a message each way, 2 events in a call |
| `engine_liveness` | a call returns; a message reaches the client if some calls begin with nothing to do and calls stop failing | 1 space, 1 message, 1 connection, 1 entry |
| `memory` | queues intact, what is acknowledged posted once, the first panic needs a second bind, acknowledged messages arrive, connections become mutual | 2 transports, one binds twice, 2 messages, 1 url unbound |
| `websocket` | requests accounted for, answers true, what is read is reported in order, messages for a peer that responds are sent | 2 remotes (one responds), 1 caller, 2 messages, 1 bind, 1 frame read per stream, silence of 0 or 1 |
| `mdns` | returned urls are alive, packets never make a host forget, what is released is forgotten | 2 hosts, 3 urls, ttl 2, 1 call of an owner, 1 fault, 2 queries, sockets of 2 packets |
| `legacy` | a request is answered exactly once and at last, answers reach their message, the `Detach` is empty only after a panic of the engine | 3 posts (a direct message, a connection with and without an id), 2 messages of the engine (a direct message, a notification), 1 failing call, panics |
| `crypto` | nothing is left accessible, only shared buffers panic | 12 buffers of four types, one locker of the caller |

Two requests are enough for a channel because its entries are independent but
for the order in which the loops meet them: with two, one can be late, expired
or failing while the other waits behind it, in both orders and both directions.
A clock bound of 1 is one tick beyond the expiry; different timeouts are left to
the proofs, which hold for all. For the DHT, three nodes are needed for gossip
about a third party (`dht_converge`); a restart gives a second timestamp, so old
gossip may arrive after new. `MaxRequests` bounds only what owners ask for,
never what the DHT or the network produces. Clocks of nodes start one tick
apart at most and run on by themselves, so either may be ahead of a record it
receives. Two sends of a gateway let the late answer of one cut short the calls
that the other needs, which is what may keep it from ending; a timeout and a
retry interval of one tick leave room for a refusal, one retry and the expiry.
More retries of one send are the matter of the proofs, which have every timeout.
For the engine two chains let one gateway fail while the other was
or was not polled, with one message each way, and two events let one be dropped
with another; that commands are dropped in the same way is covered by the proof
of `NoSilentLoss`, which has no bounds.

A sender that binds again does so while connections of its first url are in use,
and two messages on one pair of urls show the order. Two remotes, one of which
misbehaves, are what one stream's error needs to hurt another; silence is only
compared with two thresholds. A ttl of 2 has a record at its full life, in the
middle of it and dead, which is what `update` tells apart. The client of `legacy`
posts a kind whose answer carries data, one whose answer is a notification, and
the latter once more without an id; the engine sends a message that the client
answers and one that it is given no id for; a failing call or a panic before or
after each of them is one failure. The kinds that `post()` has no arm for, and the
one that no answer follows (`PublishEntry`), are left to the proofs, which have
every kind. The buffers of `crypto` have the lengths of contexts, tags, nonces,
keys and signatures, so each check can pass and fail, and enough of one length for
every function and a repeated argument. Deadlock checking is off where the system
really may stop: a channel with both ends closed, a gateway, engine, transport or
wrapper that panicked or was dropped, and where owners have made all their bounded
calls.

### Fairness

`GhostChannel`: weak fairness of `process()` of each side and of the clock: owners
poll their endpoints for as long as they keep them. Nobody is obliged to answer.
`MirrorDht`: weak fairness of the requests of a DHT and of its client's stores
(both are polled), and of delivery in which the message leaves the network:
`GossipTo` is documented to be sent "in a reliable manner", and the gateway
repeats sends. Safety does not use it. `Gateway`: weak fairness of `process()` and
of the answers of the DHT and the encoder, and strong fairness of the clock, which
advances between the calls however close they are. The transport and the client
need not answer. `Engine`: weak fairness of `process()`. `IncomingReachesClient`
is stated under two conditions on the environment: again and again a call begins
with no command of the client and no event of the network (`QuietCall`), and from
some time on calls do not fail. That such a call polls the spaces is not assumed:
it is what the property says of the short-circuits in `process_concrete`, and the
mutant `EndEvents_AlwaysWorked` shows it. A client or a network that never pauses
does starve the spaces (section 5.2). `MemoryTransport`, `WebsocketTransport` and
`LegacyLib3h`: weak fairness of `process()`, because owners poll; `LegacyLib3h`
also of the clock and of the client's answers. Sockets, peers and the engine owe
nothing, but for the `Responsive` peers that `PendingIsSent` is about. `Mdns`:
weak fairness of each host's `discover()`, which its owner polls, and of an
interface coming back. `CryptoBuffers` states safety only.

## 4. Proofs

`GhostChannelProofs` proves, for every set of requests, events and timeouts and
every clock bound: type correctness; the inductive invariant `ChannelInv`;
`LateResponseOnlyAfterTimeout`, `NoRequestForgotten`, `DisconnectIsFinal`; the
action property `CallbackRunsOnce`; and that the channel implements
`RequestResponse`. `NoRequestForgotten` is not inductive: an expired id must
still be in the tracker when its callback runs, and a response in a queue must
belong to a request of that side. `ChannelInv` adds that there is one copy of
every message (`UniqueInv`), that messages are in the right place (`CopiesInv`),
and that the tracker agrees with the history (`TrackerInv`, `ExpiryInv`,
`FreshInv`, `OutcomeInv`, `DroppedInv`).

`DiscoveryProofs` proves of `MirrorDht`, for every set of nodes, entries,
introductions and restarts and all clocks: type correctness, the inductive
invariant `DhtInv`, `HeldIsVouched`, and the action properties `WrapNeedsSkew`,
`TimeoutBookkeeping`, `Monotonic` and `LocationsStay`. `WrapNeedsSkew` needs that
no record and no message carries a timestamp newer than the peer it is about, and
none newer than that peer's own clock (`RecordInv`, `NewsInv`), since a restart
only ever makes the peer newer: a time from the future then is one of a machine
that is ahead. `HeldIsVouched` needs that what a DHT is asked to hold was vouched
for already (`PendingInv`) and that what travels was published somewhere
(`OriginInv`). `TimeoutBookkeeping` is about steps: what marks a peer is
`internal_process`, and what refreshes it clears the mark. One lemma per action
shows that it keeps the invariant; what `add_peer` does to the two maps is a lemma
of its own (`AddPeerEffect`). `LocationsStay` says what section 5.2 describes,
that a held peer never moves; it follows from that lemma, since nothing but
`add_peer` and a restart changes what a DHT holds (`PeersMove`).

Of `Mdns` it proves, for every set of hosts, networks and urls, all bounds and
whatever becomes of packets: `ReturnedUrlsAreLive`, with the type invariant in
it, and `ReceivingNeverForgets`. Both rest on what a cache may hold of one url: at
most two records, and then a dead one and one at full life (`DeadAndNew`).
`update` keeps that, because own records, and so those in packets, are new or
released (`LanSocketInv`, `UpdateKeepsDeadAndNew`); it keeps a record of every
url it meets, because a packet's record is dead or at full life, and so are two
in a cache (`UpdateKeepsUrls`); and ageing prunes the dead one, so what is left
holds a url once and alive (`AgedIsLive`). `Mdns` names its specification
`LanSpec` and its nodes `Hosts`, so that one module extends both components.

`GatewayProofs` proves, for every set of sends and all timeouts: type
correctness, the inductive invariant `GatewayInv`, `TimeoutPanicOnlyAfterError`
and that the gateway implements `SendService`. The argument for retries: a
ghost request is made no earlier than its send began and lasts at least as long
as a send may be retried, so a timeout finds the send expired (`ExpiryInv`) and
only a refusal leads to another attempt; hence no attempt is made while a copy
may still be delivered (`CopyInv`), and what is late belongs to sends that
ended (`OwedInv`). Lowering `DEFAULT_TIMEOUT` below `SEND_RETRY_TIMEOUT_MS`, as
the comment at `ghost_tracker.rs:6` suggests, breaks this: the mutant
`RequestTimeout_Short` sends twice. For the panics, `ServedInv` says that a call
that is not cut short leaves no query, decoding or `RequestThisPeer` behind.
`SettleInv` and `SettleMoves` treat all callbacks at once; one lemma per use
shows its premises.

`EngineProofs` proves, for every set of spaces, agents, messages and locations and
all bounds: type correctness, the inductive invariant `EngineInv`, its parts
`RoutesFollowGateways` and `EventHasGateway`, and the action properties
`NoResultWasted`, `NoSilentLoss` and `SpacesStay`. The routes need that the map is
whole outside the polling of the spaces (`MapInv`). That a result is not wasted
once its send succeeded needs that a gateway runs the callback of the send in the
poll that hands out the result (`ReplyInv`, `DrainedInv`): a frame may go out
before the transport reports success, and only a result that comes in between, or
after the message ended, finds nobody waiting; that what is drained has its
gateway in the map follows from the order in which `process_space_gateways` puts
gateways back. Steps that leave spaces and messages alone are treated at once
(`QuietStep`); every other action has a lemma.

`MemoryTransportProofs` proves, for every set of transports, messages and urls and
every interleaving of their critical sections: `QueuesIntact`, `PanicNeedsRebind`,
and `ConnectBackSucceeds`, that the early return of the loop that connects back,
which would drop the events just drained, is never taken. `QueuesIntact` speaks of
all places a message may be in; its proof goes pair of urls by pair (`Flow`): what
was posted is what the parent was told, what the transport that is bound to the
receiving url holds, and what waits in the server, in this order. For a step to
append to or take from the right end, a url must belong to one transport at most
(`AddrInv`, which needs that there is a fresh url for every bind that waits,
`BindsInv`), a transport must hold events only while it connects back
(`PhaseInv`), and none must post to itself (`SelfInv`). `PanicNeedsRebind` speaks
of the first panic, which poisons the mutex and takes the others along
(`LockPanics`); it follows from the converse of what `post()` relies on: whoever
has an inbox at a server has that server among its connections (`KnownInv`);
connections are never removed, and the address a transport gets by binding again
is in no `inbox_map` before it connects with it. `TransportsAreLinks` shows that
the transports implement `FifoLinks`. That a message is accepted once needs that
it is in the inbox of one transport, there once, and not yet answered
(`WaitingInv`); that what the parent is told continues what it was told before
comes from `Flow` on both sides of the step (`ToldInOrder`). That an acknowledged
message was posted once (`EachOnce`) is proved on the abstract links and carried
over; `QueuesIntact` has it as its last conjunct.

`WebsocketTransportProofs` proves, for every set of peers, requests and bounds
and whatever sockets do: `RequestsAccounted`, `AnswerTellsTheTruth` and
`ReadIsReported`. A request that was asked and not answered is in one of the
four lists (`AskedInv`), in one only and there once (`ListsInv`); the lists of
one call are empty outside the loop that uses them (`PhaseInv`), and nothing is
written before the transport is bound (`UnboundInv`). Errors
are answered by unbound transports only, so `AnswerTellsTheTruth` is inductive
together with `UnboundInv`. `ReadIsReported` is
inductive by itself, given what `process_stream_events` does to a whole queue of
events: `DataOf` is a recursive function over the queue, and that it exists, has
its type and follows an `Append` is shown with a least counterexample (`NatMin`,
from the well-foundedness of the naturals).

`LegacyLib3hProofs` proves, for every set of messages of the client and the engine
and any number of failing calls and panics: `AnsweredExactlyOnce`,
`MissedOnlyAfterItsPanic` and `AnswersReachTheirMessage`. The results a client has
and those collected for it, taken together, hold one result for each request that
was posted and is no longer pending (`ResultsInv`); an error leaves the collected
ones where they are, and a panic of the engine ends the waiting of those that were
pending without one. The engine is detached only while it is polled, and lost only
after it panicked (`AttachedInv`): every early return puts it back. A message of
the engine is queued, in the outbox or with the client and never in two of these
places (`DeliveredInv`), so it gets one tracker id; if that id is one the client
is given, it is tracked until it is answered, and its own id is in the map for at
least as long if its answer needs it (`TrackedInv`).

`CryptoBuffersProofs` proves, for buffers of any kinds and lengths and any
lockers of their owner: `NothingLeftOpen` and the action property
`PanicsOnlyWhenShared`. That dropping a locker may make a buffer
inaccessible needs that no other locker covers it: a buffer that records its
state is locked by one holder at a time, the caller or one argument of the
function (`LockedOnce`), because a second lock panics; so dropping one never
panics itself, which during an unwinding would abort the process. The panics of
checks that come before any lock (`Begin`) are outside of `PanicsOnlyWhenShared`:
`kdf::derive`, `sign_verify` and the short cipher of `aead_decrypt`.

The assumptions are those named in the modules: `ChannelAssumption`,
`DhtAssumption` and `EngineAssumption`, which give the constants their sorts, ask
for at least one location and for clocks within the bound (DHT) and keep names
apart (engine); `GatewayAssumption`, which also asks for `RetryTimeout <=
GhostTimeout` (both are 20000 ms); `MemoryAssumption` and `WebsocketAssumption`
(sorts, distinct names, finitely many transports, a heartbeat shorter than the
wait); `LegacyAssumption`, which also says that the ids of a client's requests
differ, that none equals one that `Tracker::gen_id` makes (those have a prefix of
their own and a random part), and that `PublishEntry` has none; `MdnsAssumption`
(sorts, finitely many networks and urls, a url in every own record, a ttl above 1,
packets of a byte at least); and `BuffersAssumption`, the kinds of buffers and
that the pages of a `SodiumBuf` are rounded up to eight bytes. The bytes that
libsodium's constants name are a definition (`Bytes`), not a parameter. TLC
evaluates all of these, and `ConversionsInvert`, on the instances of section 3.

Some parts of this are not in a run because the proof says more: the inductive
invariants (`ChannelInv`, `DhtInv`, `GatewayInv`, `EngineInv` and the four
`IInv`), `CallbackRunsOnce`, `ConnectBackSucceeds`, `LocationsStay` (which needs
two locations to say anything), `ImplementsFifoLinks`, and the type invariants of
all these modules. They can be added to a configuration at any time.

Model-checked only: liveness (`EveryRequestCompletes`, `EveryEventReceived`,
`PeersConverge`, `BroadcastReachesKnownPeers`, `EverySendEnds`,
`IncomingReachesClient`, `ProcessReturns`, `AcknowledgedIsReceived`,
`ConnectionsBecomeMutual`, `PendingIsSent`, `ReleasedIsForgotten`,
`RequestsAreAnswered`), which depends on fairness and is out of the prover's
reach. Every invariant and every action property of a passing run has a theorem.

## 5. Findings

### 5.1 Shown by a run

* **Unreachable peers panic a gateway** (`gateway_publish`). The engine publishes
  gossip as `SendMessage`; the callback of the send responds to it, and
  `respond()` panics on an error for a message that was published. A peer that
  is unknown or cannot be reached for `SEND_RETRY_TIMEOUT_MS` is enough. This is
  so for the gateways of spaces; what is published to the network gateway passes
  the multiplexer, which makes a request of it (`mplex.rs:328-343`).

### 5.2 Met while modelling

The models contain these behaviours; no run is kept for them.

* **Joining again panics the engine.** `process_space_gateways` drains the map of
  gateways and returns on the first that fails: this one and all that were not
  yet polled are dropped with everything inside, although the client was told it
  joined them. Their routes stay in the multiplexer until it is polled; commands
  are handled before that, and a client that joins again meets the panic of
  `create_agent_space_route` (`mplex.rs:95`). `RoutesFollowGateways` shows that
  only an error leads there, never a client that left.
* **Not a full sync.** `mirror_dht.rs:23` calls the DHT "fullsync". An entry is
  gossiped once, to the peers held at that moment; a peer held later is told of
  peers, never of entries, and publishing again is ignored because the aspects
  are no news (`HoldPeer`, `HoldAndGossip` of `MirrorDht`).
* **The location of a peer is never updated.** `add_peer` copies the timestamp
  only (`mirror_dht.rs:250`, `LocationsStay`), so a peer that restarts elsewhere
  is held, and gossiped on, with its new timestamp at its old location, after
  which its true record is no news (`AddPeer`).
* **Clocks are compared across machines.** The age of a peer is the own clock minus
  a timestamp of the peer's (`mirror_dht.rs:157`, `:251`). A peer whose clock is
  ahead makes it wrap: `internal_process` panics in a debug build, and in a release
  build takes the peer for silent the first time it looks (`Overflow`,
  `OlderThan`, `WrapNeedsSkew`).
* **Live peers time out.** `gossip_self` repeats the timestamp of the start of
  the process (`mirror_dht.rs:206`), so receiving it never refreshes the sender
  (`SelfGossip`, `IsNews`).
* **Joins reach every space.** The handler of `BroadcastJoinSpace` ignores which
  space was joined and puts the peer into the DHTs of all
  (`network_layer.rs:305`, `HandleBroadcastJoin` of `Engine`).
* **New peers are not told our spaces.** A gateway reports a new connection under
  its own peer name (`gateway_transport.rs:40`), and the engine looks for a peer
  at that location (`network_layer.rs:206`); so `AllJoinedSpaceList`, "for
  sending a peer's 'JoinSpace' info to a newly connected peer"
  (`p2p_protocol.rs:24`), is never sent (`Reported`).
* **Commands starve the network.** A client with a command before every call
  keeps the engine from polling its multiplexer (`engine_actor.rs:58`); after
  `DEFAULT_TIMEOUT` the engine's own `RequestPeerList` times out, which panics
  (`network_layer.rs:178`, `PeerListCallback`).
* **Binding a memory transport again** keeps the connections of its first url, so
  a later send posts to a server that has no inbox for it and `unwrap()` panics
  (`ghost_transport_memory.rs:339`, `PanicNeedsRebind`), holding the mutex of the
  net, so every other transport of the process panics at its next lock
  (`LockPanics`). The engine binds once
  (`ghost_engine.rs:85`). Sends to a server that was closed are acknowledged and
  never delivered (`GivenUp` of `MemoryTransport`).
* **A failing ping drops other streams.** `process_stream_sockets` returns with
  `?` while streams are out of their map (`streams.rs:260`, `PingFails`); messages
  that wait for such a stream stay pending, since nothing connects again for them.
* **Silent streams are never closed.** The branch that closes a stream after
  `DEFAULT_HEARTBEAT_WAIT_MS` comes after one that the same stream always takes
  (`streams.rs:258-270`, `GivenUp` of `WebsocketTransport`).
* **Frames twice.** The socket library keeps a frame whose write would block; the
  transport takes that for a failure and sends the message again (`Send`, the
  outcome "kept"). A frame may so be received, and answered, before its send has
  succeeded; `space_layer.rs:329-333` then finds nobody waiting and throws the
  answer away (`SendFrame` of `Engine`, `NoResultWasted`). The list of waiting
  messages is popped from its end, so messages may overtake each other.
* **The ttl of mDNS counts calls**, not seconds: `update_ttl` runs once per
  `discover()`. A host keeps its own released record at full life; a host whose
  interface is down never ages its cache, since the failing send returns first; a
  host that hears a release while its own copy is at full life keeps both records
  (`UpdateRecords`), and returns the living one until it has aged.
* **Tracked messages leak.** `HandleStoreEntryAspect`, `HandleDropEntry` and
  notifications have no answer, and `process_timeouts` is never called, although
  `track.rs:27` speaks of ids that time out (`Drain` of `LegacyLib3h`).
* **A panic of the engine is for good.** `detach_run!` does not put back what it
  took out when the closure panics (`detach/src/lib.rs:134-139`), so a caller that
  catches the panic of, say, `FetchEntry` (`ghost_engine.rs:254`) meets another at
  each later call (`EnginePanics`, `MissedOnlyAfterItsPanic`).
* **A late answer fails a call** of the legacy `process()`, which returns an error
  although nothing is wrong; what arrived is kept for the next call
  (`EndpointReceives`).
* **Crypto.** `aead_decrypt` subtracts the tag from the length of the cipher
  before it checks it, which underflows below 16 bytes (`mod.rs:722`);
  `sign_verify` takes no locks, so a `SecureBuffer` argument panics;
  `aead::dec` ignores the result of libsodium; the `SecBuf` functions check no
  lengths; `clone_partial` closes pages whose recorded state stays open
  (`ClonePartial`).

## 6. Not modelled

* Keystore, `rrdht.rs` and the new `ghost_actor` crate: stubs or code the program
  does not use.
* The capnp wire protocol: about five thousand lines of generated accessors, and
  functions that encode and decode, of which the gateway uses `create_ping`,
  `create_pong` and `from_bytes`. What pings and pongs cause is in `Gateway`.
* What libsodium, the TLS and websocket libraries and the operating system do.
* The test harness of actors, tools and demos.
* `TransportEndpointAsActor` and the bookkeeping of spans in the actor wrappers.
* Several engines composed in one model: `MirrorDht` composes nodes, `Engine` has
  the rest of the network as environment.

## 7. Plan

Done: all nine components with their runs, and proofs of every safety invariant,
every action property and every refinement that a run checks.

What is left is outside the prover's reach (liveness) or needs a larger model:
several engines in one specification, with the gateways' own promises
(`SendService`) in the place of `Engine`'s environment and `FifoLinks` under
them.

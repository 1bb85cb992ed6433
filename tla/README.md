# A specification of slp-server-rust

`slp-server-rust` relays packets of games between clients over UDP. Every
client has an address of its own in a virtual LAN (10.13.0.0/16); the server
learns from the packets which client uses which inner address, sends a packet
on to that client or, while the inner address is unknown, to all clients.
Plugins look at the packets (they count traffic, list the rooms of LAN games,
know block rules), and a GraphQL API shows the state.

This directory holds TLA+ modules for that program, TLC configurations that
check them on small instances, and TLAPS proofs for all instances. Source paths
below are relative to the repository.

1. [Inventory](#1-inventory)
2. [Modules and how they correspond to the code](#2-modules)
3. [Runs: what is checked, bounds, fairness](#3-runs)
4. [Proofs](#4-proofs)
5. [Where code and documentation disagree](#5-findings)
6. [What is only model-checked, and what is not modelled](#6-limits)
7. [Plan](#7-plan)

How to run: `tlc -config MCRelay.cfg MCRelay`, `tlapm RelayProofs.tla`. The
configuration of a run and its module are listed in `PROJECT.json` ("runs").

## 1. Inventory

| component | source | state it keeps | operations |
|---|---|---|---|
| packet path | `src/slp/server.rs` | plugin map under a tokio Mutex (`Inner`), event channel (100) | `recv_task`, `event_task`, `send_client`, `server_info`, `add_plugin`, `get_plugin` |
| peer registry | `src/slp/peer_manager.rs` | `cache`: client address to `Peer`; `map`: inner address to client address; one parking_lot Mutex | `peer_mut`, `remove`, `get_dest_sockaddr`, `send_lan`, `send_broadcast`, `server_info` |
| peer | `src/slp/peer.rs` | sending half of a channel (10), `Connected(since)` or `Idle`; one task per peer | `Peer::new`, `on_packet`, `do_packet`, then the `Close` event |
| fragment reassembly | `src/slp/frame.rs` (`FragParser`) | LruCache (50) of lists of fragments, by (source, id) | `process` |
| frame parsing | `src/slp/frame.rs`, `packet.rs`, `mod.rs` | none | `ForwarderFrame::parse`, the accessors of each frame |
| info streams | `src/slp/stream.rs`, `src/util/filter_same.rs`, `server_info_stream` | broadcast channel of capacity one, the last item of each filter | `spawn_stream`, `filter_same`, subscribe |
| traffic plugin | `src/plugin/traffic.rs` | two sets of counters under a Mutex | `in_packet`, `out_packet`, `clear_traffic`, `traffic_info`, its stream |
| block rules | `src/plugin/blocker.rs` | list of rules, a `FragParser` | `set_block_rules`, `in_packet` |
| rooms | `src/plugin/ldn_mitm/plugin.rs` | rooms by inner address under a Mutex, a `FragParser` | `in_packet`, the 5 s timer, `room_info` |
| LAN protocol | `src/plugin/ldn_mitm/lan_protocol.rs` | none | `LdnHeader::check`, `LdnPacket::new`, `decompress`, the accessors of `NetworkInfo` and `NodeInfo` |
| scan packet | `src/plugin/ldn_mitm/util.rs` | none | built once |
| API | `src/graphql/*` | none | queries and subscriptions |
| startup, HTTP | `src/main.rs` | none | arguments, plugins and rules, server |
| ports | `UDPServerBuilder::find_port`, `create_socket` | none | try ports until one can be bound |
| panic hook | `src/panic.rs` | none | logs |

### Interaction

```
 client --UDP--> recv_task --(plugin lock: in_packet of every plugin)--> parse
                   |ping: answered at once
                   v
             PeerManager::peer_mut --> Peer::on_packet --try_send--> channel (10)
                                                                       |
                                   event channel (100) <--send-- do_packet (a task per peer)
                                          |  SendLAN, Close
                                          v
                  event_task, up to four events at a time:
                    SendLAN: get_dest_sockaddr, (plugin lock: out_packet), send_lan --UDP--> clients
                    Close:   PeerManager::remove

 main: UDPServer::new (spawns both tasks), add_plugin x 3, set_block_rules, HTTP
 ldn_mitm timer (5 s): clear rooms, send_broadcast(scan)
 publishers (1 s): server_info / clear_traffic --> broadcast(1) --> subscribers
```

Shared state: the registry (parking_lot Mutex, never held over an await), the
plugins (tokio Mutex, held by `recv_task` over the awaits of `in_packet`), the
rooms and the counters (a Mutex each), the two kinds of mpsc channel and the
broadcast channels.

### What is hard

- *Removal.* A peer's task ends on its own, its entry is removed later and by
  another task, and the event that says so names an address and not a peer. In
  between the client may be back.
- *Back pressure.* All peer tasks share one event channel; `event_task` waits
  for a lock that `recv_task` takes again for every packet; `recv_task` must
  never wait for a peer.
- *Order.* Four events are handled at a time; each handler looks addresses up in
  one step and uses them later.
- *Time.* A peer falls idle by what arrives, not by a timer; it leaves by a
  timer that races with packets.
- *Reassembly.* Fragments are lost, doubled, reordered and mixed, their four
  fields need not fit together, and the cache is bounded.
- *Streams.* Snapshot and stream are obtained in two steps, the publisher is
  silent when its value has not changed, and the channel holds one item.
- *Ids and addresses that are used again.* A packet's id has 16 bits; a client
  may come back from another address with packets of the old one still queued.
- *Rooms.* They are cleared and asked for in two steps; clients come and go in
  the middle of the broadcast, sends fail, answers are late.
- *Panics.* Whatever slices out of range ends `recv_task`, with the plugin lock
  in its hands.
- *Startup.* Packets arrive before plugins and rules are there.

`PROJECT.json` ("hazards") lists each at its line, with the properties that
would find it going wrong.

### What makes each component correct

- *Registry and peers*: one running task per registered address; a registered
  address whose task is over has exactly one `Close` under way, a live one none;
  removing an entry cuts nothing off; silent clients are forgotten, and those
  that move are found at their new address.
- *Packet path*: it is a LAN switch (`LanSwitch`): packets of a client are routed
  in order and at most once by the table of the moment; nobody waits for ever.
- *FragParser*: what it returns was sent, whole and unmixed (as far as ids are
  not used again too early), no more often than its fragments came; a packet that
  keeps arriving is not evicted; no slice is out of range.
- *Streams*: nothing published is lost between snapshot and stream; subscribers
  follow the publisher.
- *Traffic*: a packet is counted in one second only.
- *Plugins*: each sees each packet once; rules come into force and queries are
  answered under load and after a panic.
- *Rooms*: who has answered the last scan is listed; rooms that do not answer any
  more disappear, and those that do come back.
- *Parsing and LAN protocol*: no accessor reads beyond its slice; decompression
  stays in its buffer and is right.

## 2. Modules

Every definition that models code is in `PROJECT.json` ("map") with its lines.
Names of the code are kept where TLA+ allows it. A definition `X_Y`, with
"Fault:" in its comment, is a variant of `X` with a plausible bug; no
specification uses it. It shows that a property can fail: with `X` replaced by
`X_Y` the run of that property finds a counterexample ("mutants").

| module | models | extends |
|---|---|---|
| `Relay` | recv_task, registry, peer tasks, event_task | |
| `LanSwitch` | abstract: what the server promises as a switch | |
| `RelaySwitch` | the refinement of `LanSwitch` by `Relay` | `Relay`, instance of `LanSwitch` |
| `MCRelay` | three kinds of traffic, symmetry | `RelaySwitch` |
| `RelayProofs` | proofs about `Relay` | `Relay` |
| `SwitchProofs` | `Relay` implements `LanSwitch` | `RelaySwitch`, `RelayProofs`, `NumberProofs` |
| `PeerTimers` | registration and idleness by the clock | |
| `InfoStream` | publisher, broadcast channel, subscribers | |
| `ServerInfo` | the clients by the clock and the stream of their counts | `PeerTimers`, instance of `InfoStream` |
| `PeerTimersProofs` | proofs about them | `ServerInfo` |
| `FragParser` | `FragParser::process` with any frames | |
| `FragTraffic`, `MCFragTraffic` | well-behaved and other clients, an unreliable network and `FragParser` | `FragParser` |
| `FragProofs` | proofs about both | `FragTraffic`, `NumberProofs` |
| `NumberProofs` | induction over numbers, for the three modules that need it | |
| `Traffic`, `MCTraffic` | the traffic plugin, the publisher of an `InfoStream` | `InfoStream` |
| `TrafficProofs` | proofs about `Traffic` and `InfoStream` | `Traffic` |
| `Plugins`, `MCPlugins` | the plugin lock, startup, block rules, queries | |
| `Rooms`, `MCRooms` | the rooms: timer, broadcast, answers, insertion | `Plugins` |
| `PluginsProofs` | proofs about both | `Rooms` |
| `ScanReply` | `LdnPacket::new`, `decompress`, the insertion of a room | |
| `ScanFormat`, `MCScanReply` | what compressed bytes stand for, and the properties in these terms | `ScanReply` |
| `Wire`, `MCWire` | the lengths and the ranges that parsers and accessors read | |
| `ScanReplyProofs` | proofs about `ScanReply` and `Wire` | `ScanFormat`, `Wire`, `NumberProofs` |

### Relay

`cache`, `map` are the two HashMaps, as functions with "none" values. A `Peer`
is the name of its task (which also names its channel `chan[t]`) and its state.
`pc[t]` is where a peer task is: in `rx.recv()` ("Receiving"), waiting in
`event_send.send` ("Sending"), behind the timeout with the receiver still alive
("Expired"), behind the end of `do_packet`, which drops the receiver
("Closing"), or over ("Done"). `worker[s]` is one of the futures of
`for_each_concurrent`, `recv` the position of `recv_task`.

A step ends where the code can be interrupted: at an await that may suspend, or
where a lock that another task takes is released. The critical sections of the
registry's mutex contain no await and are one step each. In particular

- `PeerMut` is `peer_mut` with `on_packet`, `try_send` and for a new address
  `Peer::new` with its spawn: all of it runs under the mutex;
- `StartSendLAN` is the dequeuing of an event with the first poll of its future,
  which runs to the plugin lock: `for_each_concurrent` polls a future in the
  same turn in which it takes it from the channel;
- `RecvFrom` merges `recv_from` with taking the plugin lock. The handlers hold
  that lock for one step only (`out_packet` of the three plugins never
  suspends), so a state in which `recv_task` waits for it would differ from
  "Waiting" in nothing that others see. `recv_task` holds the lock until the
  frame is dispatched; the release in the code is earlier by a parse that
  touches no shared state;
- `SendTo` sends to one address of the list, in any order (it comes from a
  HashMap). That a `send_to` fails makes no difference: its result is dropped;
- the `Err` of `out_packet`, on which a packet would not be sent, is left out:
  no plugin of the repository returns it;
- "Lapsed" is a `Connected(t)` with `t` five minutes ago or more; the step from
  "Connected" is time passing (`IdleTimeoutElapses`), at any time. `PeerTimers`
  does the same by a clock.

A panic of a plugin ends `recv_task` like an error of the socket; that is
`RecvError` (see also `Panic` in `Plugins` and `PanicOnlyIfUneven` below).

### LanSwitch and RelaySwitch

`LanSwitch` has no tasks, channels or events: members, those that leave, those
that are idle, the table from inner addresses to members, per member the queue
of packets that were taken in and not yet routed, and what is still to be sent
out. A packet is lost or taken in; after that it is routed in order and once,
except that a leaving member loses its latest ones. `RelaySwitch` maps `Relay`
to it: a member's queue is what the event channel has of it, then what its task
holds, then its channel.

### PeerTimers

Time is counted in units; a client sends or does not. `Connected(t)` is the age
of `t` (up to `IdleTimeout`, beyond which nothing changes). Due timers fire, and
their `Close` is handled, before the unit is over: that is the abstraction, the
unit being long compared to what the server needs for a `Close` (`Relay` has
every other interleaving and no clock). `quiet` is a history variable.

`ServerInfo` composes it with `InfoStream`: the value that is published is
`server_info`, two counts taken under the registry's lock, and it changes by the
steps of `PeerTimers` only. The publisher is told of nothing; it looks once a
second, and a step of the clients may fall anywhere between its look, its `send`
and the steps of a subscriber.

### FragParser and FragTraffic

`list` and `order` together are the LruCache. `process` has three outcomes:
there is no place for the part, the list is still incomplete, it is complete.
The entry of a new key is put into the cache (and another evicted) in all three.
`Assemble` does not go through the copying byte by byte but says what is in
each byte afterwards: the last fragment that covers it. If two fragments cannot
be copied, the first one decides between `None` (out of range) and a panic
(`copy_from_slice` with different lengths).

In `FragTraffic` some frames come from packets that clients cut properly; each
fragment of a packet may arrive up to `copies` times, in any order, or
never. The others (`Stray`) have fields that do not fit together and arrive any
number of times. Two packets of a client may have the same id, as 16 bits do not
last: then the code cannot tell their fragments apart, and puts parts of both
together. `Foreign` says when it does: the list of the id has something of
another packet. `ReturnsWhatWasSent` and `PromptPacketIsHeld` say that nothing
else makes a packet come out wrong or not at all. Such packets may even share a
fragment, so `delivered` counts frames, and `returned` counts only what came out
of a list of the packet's own fragments. That a frame's `len` is the
length of its data is a property of the instance (`EvenFrame`); without it
`process` may panic, and `PanicOnlyIfUneven` says that nothing else makes it.

### InfoStream and Traffic

The publisher's tick (call `func`, filter) and its `send` are two steps, because
`func` is a future and other tasks run between. A subscriber first subscribes,
then takes the snapshot, then is polled. `unread` counts what was sent since the
receiver's position; 2 stands for "lagged", which ends the stream. `Traffic`
adds the counters: its tick is `clear_traffic`, which resets the value.

### Plugins and Rooms

The three plugins in the order in which the HashMap yields them, any order. A
packet is what the plugins find in it: protocol and port, the room it describes,
if any, and whether a plugin's `FragParser` may panic over it. The plugins are
called in turn while the lock is held; `main` and the queries interleave with
that. A panic unwinds `recv_task`, which releases the lock; the queries go on.

`Rooms` adds the state that only `ldn_mitm` has. Its timer clears the rooms,
then `send_broadcast` copies the registered addresses under the registry's lock
and sends to one after the other, while clients come and go; a send may fail,
which the code ignores. A host that a scan reaches answers or not, its answer
comes in through `recv_task` whenever it likes, also after the next clear, and
is listed when the plugin is called. The rooms have a Mutex of their own, whose
critical sections contain no await. Every step of `Rooms` is a step of `Plugins`
or leaves it alone, which is proved.

### ScanReply

From a packet to a room. `decompress` is modelled as the loop that it is, one
input byte a step, because the question is what it does at the ends of its two
buffers. What the plugin checks before it (a UDP packet to the server's address,
a header and its magic number) are fields of the packet. `ScanFormat` says what
the bytes of a payload stand for, token by token and without buffers, and is what
the loop is compared with. It models no code.

### Wire

The other half of the parsing: which bytes are read. A datagram is its length;
every parser and accessor is the set of ranges that it takes from the slice in
hand, and what it leaves for the next one. A range that ends beyond the slice
would be a panic. Values of fields matter only where offsets depend on them
(`node_count`, `advertise_data_len`) and are then anything a byte, or two, can
hold. What `FragParser`, smoltcp and `decompress` return is a slice of any
length that they can return; smoltcp checks its own lengths.

## 3. Runs

| run | module, cfg | question | instance |
|---|---|---|---|
| `relay_safety` | MCRelay, MCRelay.cfg | do registry, tasks and events agree, and is it a LAN switch? | 2 clients, 2 tasks, channels 1 and 2, 1 handler; packets, keepalives, pings, datagrams that do not parse |
| `relay_is_switch` | MCRelay, MCRelaySwitch.cfg | is it one with handlers that overlap, and packets whose order can be told? | 2 clients, 2 different packets, channels 1, 2 handlers |
| `relay_liveness` | MCRelay, MCRelayLive.cfg | does anybody wait for ever, also when recv_task is gone? | 2 clients, all channels 1, 1 handler, the socket may fail |
| `server_info` | ServerInfo, MCServerInfo.cfg | who is idle, and when, and what do subscribers see of it? | 2 clients, timeouts 1 and 2, 1 subscriber |
| `frag_traffic` | MCFragTraffic, MCFragTraffic.cfg | is the cache consistent, is anything out of range, does a packet come out whole, once, and in time? | 3 packets of 2 fragments, two of them with one id; each fragment up to twice, of the packet with the used id once; frames of another client; 3 keys, cache of 2 |
| `traffic` | MCTraffic, MCTraffic.cfg | is a packet counted once, and is anything lost between snapshot and stream? | 1 subscriber, up to 2 packets |
| `plugins` | MCRooms, MCRooms.cfg | do plugins, startup, room timer, queries and a panic get along? | 3 packets, 2 rules, 1 query, 2 clients, one of them a host |
| `scan_reply` | MCScanReply, MCScanReply.cfg | is decompression right? | all payloads up to 4 bytes over {0, 1, 2} |
| `wire` | MCWire, MCWire.cfg | is any read out of range? | every length up to 2060, and the longest datagrams; lengths inside a packet around every limit |
| `plugins_blocked`, `traffic_last`, `scan_reply_lone_zero` | MCPlugins, MCTraffic, MCScanReply | section 5 | as the passing run of the module (MCPlugins: without the rooms, 2 queries) |

### Why the bounds are enough

- *Channels.* A capacity matters in two ways, full and not full; 1 is the least
  with both, and 2 in `relay_safety` puts events of one peer, and of two, behind
  each other.
- *Tasks.* An address has one task at most (`TaskIsCached`, which the proof shows
  for any number), so `|Task| = |Addr|` never makes a client wait for a task name.
- *Clients.* Two is what it takes for a broadcast to have a recipient, for an
  inner address to change hands, and for tasks to compete for the event channel.
- *Handlers.* Two in `relay_is_switch` (four in the code): what matters is that
  a handler can be under way while the next event is taken. In `relay_liveness`
  one is the harder case. The invariants are proved for any number.
- *Timeouts.* 1 and 2 keep the relation of 30 s and 300 s (the first less than
  the second, more than one of the first in the second). The bounds on idleness
  are proved for all timeouts.
- *Rooms.* One host and one other client: the broadcast has then an address
  before and one behind the host's, in some order. One query is enough, as
  queries share nothing but the lock.
- *Subscribers.* They do not influence each other or the publisher; one is
  enough, and `NothingMissed` is proved for any number.
- *LRU capacity 2 with 3 keys* is the least with an eviction that depends on use.
- *Bytes 0, 1, 2* in `ScanReply`: zero, and two run lengths. Payloads up to 4
  bytes and announced lengths up to 5 have two runs next to each other, a run
  at each end, and every way to miss the end by one.
- *Lengths in `Wire`*: the largest limit is 2048, so all lengths up to 2060 have
  both sides of each; beyond, one length is like another. The proof has all.
- `MaxCount`, `MaxTotal` and `copies` bound counters; 2 is enough for a
  packet on either side of a tick, and for a duplicate.

Symmetry (clients, tasks and slots in `Relay`) is used in runs of invariants
and of step properties only, never with liveness. The inner
addresses `i1`, `i2` are not permuted, as the traffic names them.

`CHECK_DEADLOCK FALSE` is set in `relay_liveness` only, where the system may
really stop: after an error of the socket, when everything has been wound down
(`WindsDown`).

### Fairness, and why the code justifies it

- `recv_task` goes on when it can (`WF`): the tokio scheduler runs every task
  that is ready.
- A peer task receives, times out and drops its receiver (`WF`): its own steps,
  which no one else disables for ever while it needs them. The timer of
  `timeout` fires.
- A peer task gets its slot in the event channel (`SF`): several compete, and
  the channel's semaphore serves its waiters in order. The same for the plugin
  lock, a fair tokio Mutex (`SF` of `OutPacketPlugins`, `add_plugin`,
  `set_block_rules`, `get_plugin`): `recv_task` takes it again for every packet.
- `event_task` takes the next event when a slot is free, sends and returns
  (`WF`): a UDP `send_to` does not block for ever.
- The publisher's interval ticks and a subscriber's connection polls its stream.
- The room timer's task goes on (`WF` of `TimerStep`): its interval fires, and a
  send returns, with an error or without.
- `OpenRoomIsListed` asks, as its premise, that the host's part works: sends to
  it do not fail for good, and it answers and is received again and again
  (`GetsThrough`). The specification itself assumes none of it.
- Nothing is assumed of clients: they may send for ever or fall silent.

### What the runs show

The safety runs show that a `Close` never hits a client that has come back, the
sender of a packet in the event channel is always registered, and removing a peer
cuts nothing off. `relay_safety` and `relay_is_switch` show that all this, with its three
kinds of queue and concurrent handlers, is one queue per member and one table.
`relay_liveness` shows that back pressure resolves: with every channel of
capacity one every task gets through; a client that keeps sending is heard
again and again (`KeepsBeingHeard`), although single packets are refused while
its channel is full or its `Close` is under way; and one that falls silent is
forgotten. A client that moves to another address is found there for good
(`NewAddressIsLearned`), whatever packets of the old address are still queued.
`server_info` shows that the counts of idle clients are late by at most one
receive timeout, and that subscribers come to show them. `plugins` shows that no
answer to a scan is lost to the clear before it, that a host which answers is
listed again and again although others leave in the middle of the broadcast, and
that neither load nor a panic keeps rules from coming into force or a query
from its answer. `wire` shows that no datagram makes an accessor reach beyond
its buffer. `frag_traffic` shows that neither mixing and duplication nor the
frames of others produce a packet that was not sent, as long as its id is not
in use for another one. Duplicates may complete a
packet again when all its fragments come twice: `ReturnedOnce` is the exact
bound.

## 4. Proofs

All are checked by `tlapm` with no step left open. They hold for all constants
that satisfy the assumptions of their modules (`RelayAssumption` and so on):
channel capacities and timeouts are positive, "none" values are not values, the
frames, packets and datagrams are sets of records of the right shape. The sets
need not be finite, except the clients of `ServerInfo`, which are counted. Nothing is assumed of clients.

| theorem | says |
|---|---|
| `RelayProofs!IInvHolds` | the invariant below |
| `TypeHolds`, `TaskIsCachedHolds`, `SenderIsCachedHolds`, `DeadIffClosingHolds` | the invariants of `relay_safety` |
| `RemovalIsCleanHolds` | the action property of `relay_safety` |
| `SwitchProofs!ImplementsSwitchHolds` | `Relay` implements `LanSwitch`, under the refinement mapping of `RelaySwitch` |
| `PeerTimersProofs!IdleIsQuietHolds`, `QuietIsIdleHolds` | bounds on when a client counts as idle |
| `InfoImplementsTimers`, `InfoImplementsStream` | `ServerInfo` implements `PeerTimers` and `InfoStream`, so these bounds, and `NothingMissed`, hold in it |
| `ServerInfoTypeHolds` | its types |
| `FragProofs!KeptInPlaceHolds`, `NoFullEntryHolds`, `OrderOfCacheHolds` | what the cache of `FragParser` holds |
| `FragTypeHolds`, `PanicOnlyIfUnevenHolds` | what `process` returns, and that it slices nothing out of range |
| `TrafficIsParser` | `FragTraffic` implements `FragParser`, so all this holds in it |
| `ReturnsWhatWasSentHolds` | the action property of `frag_traffic`: a packet comes out byte for byte as it was sent, or not at all |
| `ReturnedOnceHolds` | no more often than its fragments arrive |
| `PromptPacketIsHeldHolds` | and its fragments stay in the cache while they keep arriving |
| `TrafficProofs!CountedOnceHolds` | a packet is counted in one second |
| `NothingMissedHolds`, `TrafficIsNotMissed` | nothing published is lost to a subscriber, for any value and for the counters |
| `PluginsProofs!EveryPluginSeesEveryPacketHolds`, `VerdictIsCurrentHolds` | the plugin lock |
| `RoomsImplementPlugins`, `RoomsTypeHolds`, `AnswersAreListedHolds` | the composition with the rooms, and who is listed |
| `ScanReplyProofs!StaysInBoundsHolds`, `ReplyTypeHolds` | decompression stays within its buffer |
| `AcceptedIsPlainHolds` | what decompression accepts is what the bytes stand for, of the announced length |
| `RoomIsListedHolds` | a room that is described in the format is listed, unless the description ends in a single zero |
| `ReadsStayInsideHolds` | no accessor reads beyond its slice |

**Relay.** `TaskIsCached` is not inductive: that a task's entry is not removed
under it depends on the event channel. `IInv` adds, to types and the locals of
each task, five facts (`Lifecycle`): a running task is the one cached for its
owner; the sender of an event is cached; cached peers have tasks of their own
(`OwnTask`); a cached peer whose task is over has a `Close` in the channel
(`DeadHasClose`); and a `Close` is of a task that is over and is the last event of its
address (`CloseIsLast`). The last one carries the argument: it is why no event
loses its sender when a `Close` is handled, why there is only one `Close` per
address, and why a new peer, which can only come after removal, finds none. It
holds because a `Close` is put in the channel by a task that never sends
again, and the address can have no other task until that `Close` is gone. There
is one lemma per action; `LifecycleFrame` covers those that do not touch
registry, tasks or events. `RemovalIsClean` follows as `remove` is the only action that forgets.

**Relay implements LanSwitch.** From `IInv` (an inductive invariant, so no
further strengthening), one lemma per action says which step of the switch it is:
`PeerMut` takes a packet in or loses it, `StartSendLAN` routes, `SendTo`
delivers, `TaskDropRx` starts leaving, `remove` forgets; all others are
unseen. What takes work is the mapping: a member's queue is the concatenation of
three queues with the packets that are not of the LAN left out (`Compact`), so
that the switch's queue must be shown to be unchanged when a packet moves from
one to the next. `Compact` is a recursive function; that it is well defined, and
distributes over append, tail and concatenation, is shown by induction on
length. The library's induction theorems take an operator and are out of reach,
so `NumberProofs` derives an induction over *sets* of numbers from the least
element of a set, which the library's `WFMin` gives.

**PeerTimers.** The age of `Connected` equals the time without LAN packets until
it reaches `IdleTimeout` (`AgeIsQuiet`), which gives `IdleIsQuiet`. For
`QuietIsIdle` one also needs that a client that is still `Connected` was quiet
for less than `IdleTimeout` when its last packet came, that is
`quiet < IdleTimeout + timer` (`NotLongQuiet`), and that `timer` is at most
`RecvTimeout`. In `ServerInfo` the counts change only with the clients' entries,
and what is unread has been sent (`StreamTypes`).

**FragParser.** `CacheInv` is the type of the lists with `KeptInPlace` and
`NoFullEntry`. The only place where a list grows is `Filled`, at the place of the
part (`FilledInPlace`); a list is stored only when it still has a gap.
The case of a frame with `total = 0`, whose list is empty, is why
`NoFullEntry` admits empty lists: such an entry has no place to fill and stays
until evicted.
`OrderInv` adds that the order has each cached key once, so that its length is
the number of lists, and eviction of its last key brings it back to `Capacity`.
For the result, `TotalOf` is a number by induction over the list (`TotalExists`,
`TotalIsNumber`), and a slice that is in range ends within the packet.

**FragTraffic.** `ReturnsWhatWasSent` needs no more than `CacheInv`: if the list of
the id has nothing of another packet and is complete, it is the packet's own list
of frames. Then `AssembleIsContent` compares the two byte by byte: the ranges of
the parts adjoin and end with the packet, so each byte is covered by one fragment,
the one that `Content` takes it from. `ReturnedOnce` is strengthened to `CountInv`:
a fragment that is in the cache has arrived more often than the packet has come
back. It is inductive because a list goes when its packet is complete, and a
fragment comes into the cache only by arriving (`ArrivesOnce`).
`PromptPacketIsHeld` needs to know who gets evicted: `AheadInv` says that each
key before a key in the order of use has been used since that key was, so
since the last fragment of the last key in a full cache, fragments of
`Capacity - 1` others have come (their places map into the set one to one), and
the key that evicts it is one more: the interruption is too long
(`EvictedIsInterrupted`). With
`HeldInv`, which adds to the property that a held part is a place of the list,
that is inductive.

**Traffic.** `total = seconds + value`, componentwise, by associativity of `Add`.
`Count` adds to both sides; `clear_traffic` moves `value` to `seconds`.

**InfoStream.** What makes `NothingMissed` inductive is that news are either
still unread or were the last item shown (`NewsIsUnread`), which a `Send` in the
middle of the subscription must not break. The lemmas leave `value'` open and so
serve both specifications.

**Plugins and Rooms.** The calls of one packet are a list without repetitions
(`CallsOnce`), and only the lock keeps `main` from changing plugins and rules
meanwhile: `add_plugin` and `set_block_rules` need `packet = None`.
`AnswersAreListed` holds because the clear is the first step of a scan and empties
`answered` with the rooms; nothing else removes a room.

**ScanReply and Wire.** `StaysInBounds` is inductive with the types.
`AcceptedIsPlain` and `RoomIsListed` rest on `ReadInv`: what is written and what is
still to be read are together what the payload stands for, where within a run its
first zero is written already and the rest of it is still to come (`RunInTwo`); a
payload that ends within a run stands for nothing. At the end of the input
nothing is left to be read, so the output is all there is. When the loop gives up
for want of room, what is left is not empty, so the payload is too long, except
within a run whose only zero is written. For this, the definition of what the
bytes stand for has to be a function (`FromExists`, `FromIsText`: induction from
the end of the payload). For `Wire`
the strengthening is `LengthOK`, the least length that each parser has left
behind for its accessors.

## 5. Findings

Three statements of docs and tests that the code does not keep; each is the
violated property of a run, and its counterexample shows how.

| run | says | the code |
|---|---|---|
| `plugins_blocked` | `main.rs:49`: "Block rules" | the `continue` in `recv_task` continues the inner loop, over the plugins; blocked packets are passed on |
| `traffic_last` | `model.rs:44`, `traffic.rs:16`: last second | the query reads the second that is under way |
| `scan_reply_lone_zero` | `lan_protocol.rs:294`: a payload may end in `0, 0` | is rejected when the announced length is exact |

Where else a comment says more than the code does (the models follow the code,
and no run is about them):

- `peer_manager.rs:18` calls the values of `map` keys of `cache`; `remove` leaves
  `map` alone, so the entry of a client that is gone stays.
- `server.rs:190`: packets are ignored when the channel is full; they also are
  while the receiver is gone and the `Close` is under way.
- `peer_manager.rs:11` and the API's own doc at `server.rs:30` call clients idle
  that have not sent packets for 30 s; idle is five minutes without LAN packets,
  noticed on a keepalive, and who sends nothing at all for 30 s is gone
  (`IdleIsQuiet`, `QuietIsIdle` are what holds).
- `main.rs:46` promises idle clients no broadcast; `send_broadcast` does not look.
- A subscriber of the server info may go on showing its snapshot, if the value
  is back at the one published before when the publisher looks
  (`FollowsPublisher` therefore asks for `news`).

## 6. Limits

Only model-checked: liveness (under fairness, which the prover does not reach).
Every invariant and every action property of the passing runs is also a
theorem. What is not proved of them is that the instances which the runs check
are like the program: that is what section 3 says of the bounds.

Not modelled: the scan packet (a constant); the token check of the API (one
comparison), async_graphql, warp and structopt (libraries); `find_port` (a loop
over calls of `bind`, used by the tests only; it leaves out port 65535); the
panic hook (it logs); the tests and the benchmark. The overflow of the `i32`
counters of the traffic plugin is out of reach of the bounds and without
consequence for other state. The plugins' two `FragParser`s see the same frames
and so are one in `Plugins`: a packet over which one may panic. External to the
repository, and modelled from how it is used: tokio's mpsc and broadcast
channels, tokio's Mutex, `LruCache`, `for_each_concurrent`, smoltcp.

## 7. Plan

Done, in this order: `Relay` with its proofs, `LanSwitch` and the refinement,
`FragParser` with `FragTraffic`, `InfoStream` with `Traffic`, `Plugins`,
`PeerTimers`, `ScanReply`; then the proof of the refinement, ids and addresses
that are used again, `Rooms`, `ServerInfo` and `Wire` with their proofs; then the proofs of
what reassembly and decompression return.

What could follow, by what it would add:

- `Relay` and `Plugins` in one model, so that the plugin lock of the one is
  that of the other; today `Relay` has the lock as the position of `recv_task`.

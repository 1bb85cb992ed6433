-------------------------------- MODULE Relay --------------------------------
(****************************************************************************)
(* The packet path of the server: the receive task, the peer registry       *)
(* (PeerManager), one task per peer, and the event task that routes LAN     *)
(* packets and removes peers (src/slp/server.rs, peer_manager.rs, peer.rs). *)
(*                                                                          *)
(*   socket --> recv_task --peer_mut--> chan[t] --do_packet(t)--> events    *)
(*                                         events --event_task--> worker[s] *)
(*                                                                          *)
(* Every critical section of the parking_lot mutex around cache and map is  *)
(* one step.  The tasks interleave between their .await points.             *)
(****************************************************************************)
EXTENDS Naturals, Sequences, FiniteSets

CONSTANTS
  Addr,         \* real socket addresses of clients (keys of cache)
  Ip,           \* inner addresses of the virtual LAN (keys of map)
  Task,         \* identities of spawned peer tasks (and of their channels)
  Slot,         \* the concurrent futures of for_each_concurrent
  Datagram,     \* the datagrams clients send: a set of [kind, src, dst]
  PeerCap,      \* capacity of a peer's channel (10 in the code)
  EventCap,     \* capacity of the event channel (100 in the code)
  IgnoreIdle,   \* the ignore_idle option
  SocketFails,  \* whether recv_from may return an error
  NoAddr, NoPacket, Absent, Free   \* "none" values

Kind == {"Keepalive", "Ipv4", "Ping", "Ipv4Frag", "AuthMe", "Info", "Error"}

ASSUME RelayAssumption ==
  /\ Datagram \subseteq [kind : Kind, src : Ip, dst : Ip]
  /\ PeerCap \in Nat \ {0}
  /\ EventCap \in Nat \ {0}
  /\ IgnoreIdle \in BOOLEAN
  /\ SocketFails \in BOOLEAN
  /\ NoAddr \notin Addr
  /\ NoPacket \notin Datagram \cup [addr : Addr, data : Datagram]
  /\ Absent \notin [peer : Task, state : {"Connected", "Lapsed", "Idle"}]
  /\ Free \notin [phase : {"plugins", "send"}, todo : SUBSET Addr]

VARIABLES
  cache,     \* HashMap<SocketAddr, Peer>: a Peer is the sending half of a
             \* channel (named by its task) and a state
  map,       \* HashMap<Ipv4Addr, SocketAddr>
  chan,      \* the InPackets queued for each peer task
  pc,        \* where each peer task is in its body
  owner,     \* the addr each peer task was spawned with
  hand,      \* the packet a peer task has received and not yet passed on
  events,    \* the bounded channel of Events
  worker,    \* the events being handled, one per slot
  recv,      \* where recv_task is in its loop
  inPacket   \* the datagram recv_task is working on

peerVars == <<chan, pc, owner, hand>>
recvVars == <<recv, inPacket>>
vars == <<cache, map, chan, pc, owner, hand, events, worker, recv, inPacket>>

----------------------------------------------------------------------------
(* Frames.  ForwarderFrame::parse gives a kind or an error. *)

IsLan(d) == d.kind \in {"Ipv4", "Ipv4Frag"}

SendLAN(a, d) == [type |-> "SendLAN", addr |-> a, packet |-> d]
Close(a)      == [type |-> "Close", addr |-> a, packet |-> NoPacket]

Event == {SendLAN(a, d) : a \in Addr, d \in Datagram} \cup {Close(a) : a \in Addr}

(* PeerState: "Lapsed" is Connected(t) with t at least IDLE_TIMEOUT ago. *)
PeerState == {"Connected", "Lapsed", "Idle"}
Peer == [peer : Task, state : PeerState]
Job  == [phase : {"plugins", "send"}, todo : SUBSET Addr]

Cached == {a \in Addr : cache[a] # Absent}

TypeOK ==
  /\ cache \in [Addr -> Peer \cup {Absent}]
  /\ map \in [Ip -> Addr \cup {NoAddr}]
  /\ chan \in [Task -> Seq(Datagram)]
  /\ \A t \in Task : Len(chan[t]) <= PeerCap
  /\ pc \in [Task -> {"Receiving", "Sending", "Expired", "Closing", "Done"}]
  /\ owner \in [Task -> Addr \cup {NoAddr}]
  /\ hand \in [Task -> Datagram \cup {NoPacket}]
  /\ events \in Seq(Event)
  /\ Len(events) <= EventCap
  /\ worker \in [Slot -> Job \cup {Free}]
  /\ recv \in {"Waiting", "Plugins", "Pong", "Down"}
  /\ inPacket \in [addr : Addr, data : Datagram] \cup {NoPacket}

Init ==
  /\ cache = [a \in Addr |-> Absent]
  /\ map = [i \in Ip |-> NoAddr]
  /\ chan = [t \in Task |-> <<>>]
  /\ pc = [t \in Task |-> "Done"]
  /\ owner = [t \in Task |-> NoAddr]
  /\ hand = [t \in Task |-> NoPacket]
  /\ events = <<>>
  /\ worker = [s \in Slot |-> Free]
  /\ recv = "Waiting"
  /\ inPacket = NoPacket

----------------------------------------------------------------------------
(* recv_task *)

(* recv_from returns a datagram and the plugin lock is taken.  A handler holds
   that lock for one step only, so waiting for it is no state of its own; here
   in_packet may await, and the lock is held until the next step of the loop. *)
RecvFrom(a, d) ==
  /\ recv = "Waiting"
  /\ recv' = "Plugins"
  /\ inPacket' = [addr |-> a, data |-> d]
  /\ UNCHANGED <<cache, map, peerVars, events, worker>>

(* recv_from returns an error: the task ends, nothing restarts it. *)
RecvError ==
  /\ SocketFails
  /\ recv = "Waiting"
  /\ recv' = "Down"
  /\ UNCHANGED <<cache, map, peerVars, events, worker, inPacket>>

(* All plugins have seen the packet, the lock is released and, whatever they
   returned, the frame is dispatched.  One that does not parse is dropped. *)
DropUnparsable ==
  /\ recv = "Plugins"
  /\ inPacket.data.kind = "Error"
  /\ recv' = "Waiting"
  /\ inPacket' = NoPacket
  /\ UNCHANGED <<cache, map, peerVars, events, worker>>

(* A ping is answered by recv_task itself and never reaches a peer... *)
AnswerPing ==
  /\ recv = "Plugins"
  /\ inPacket.data.kind = "Ping"
  /\ recv' = "Pong"
  /\ UNCHANGED <<cache, map, peerVars, events, worker, inPacket>>

(* ...and the loop goes on once send_client has returned. *)
PongSent ==
  /\ recv = "Pong"
  /\ recv' = "Waiting"
  /\ inPacket' = NoPacket
  /\ UNCHANGED <<cache, map, peerVars, events, worker>>

(* Peer::on_packet, its effect on the state of the peer. *)
NextPeerState(s, d) ==
  IF IsLan(d) THEN "Connected" ELSE IF s = "Lapsed" THEN "Idle" ELSE s

(* try_send: Err when the receiver is dropped or the channel is full. *)
RxOpen(t)   == pc[t] \in {"Receiving", "Sending", "Expired"}
CanSend_Unbounded(t) == RxOpen(t)
CanSend(t)  == RxOpen(t) /\ Len(chan[t]) < PeerCap
TrySend(t, d) == IF CanSend(t) THEN Append(chan[t], d) ELSE chan[t]

(* peer_mut and on_packet for an address that is cached. *)
PeerMutCached(a, d) ==
  /\ cache[a] # Absent
  /\ cache' = [cache EXCEPT
                  ![a] = [peer |-> @.peer, state |-> NextPeerState(@.state, d)]]
  /\ chan' = [chan EXCEPT ![cache[a].peer] = TrySend(cache[a].peer, d)]
  /\ UNCHANGED <<pc, owner, hand>>

(* peer_mut for a new address: Peer::new spawns a task, then on_packet. *)
PeerMutNew(a, d) ==
  /\ cache[a] = Absent
  /\ \E t \in Task :
       /\ pc[t] = "Done"
       /\ \A b \in Cached : cache[b].peer # t
       /\ cache' = [cache EXCEPT
                      ![a] = [peer |-> t, state |-> NextPeerState("Connected", d)]]
       /\ chan' = [chan EXCEPT ![t] = <<d>>]
       /\ pc' = [pc EXCEPT ![t] = "Receiving"]
       /\ owner' = [owner EXCEPT ![t] = a]
       /\ UNCHANGED hand

PeerMut ==
  /\ recv = "Plugins"
  /\ inPacket.data.kind \notin {"Error", "Ping"}
  /\ recv' = "Waiting"
  /\ inPacket' = NoPacket
  /\ \/ PeerMutCached(inPacket.addr, inPacket.data)
     \/ PeerMutNew(inPacket.addr, inPacket.data)
  /\ UNCHANGED <<map, events, worker>>

(* Time passes: IDLE_TIMEOUT since the peer's last LAN packet. *)
IdleTimeoutElapses(a) ==
  /\ cache[a] # Absent
  /\ cache[a].state = "Connected"
  /\ cache' = [cache EXCEPT ![a] = [peer |-> @.peer, state |-> "Lapsed"]]
  /\ UNCHANGED <<map, peerVars, events, worker, recvVars>>

----------------------------------------------------------------------------
(* The peer task: do_packet, then the Close event. *)

(* rx.recv() gives a packet; only LAN packets are passed on. *)
TaskRecv(t) ==
  /\ pc[t] = "Receiving"
  /\ chan[t] # <<>>
  /\ chan' = [chan EXCEPT ![t] = Tail(@)]
  /\ IF IsLan(Head(chan[t]))
       THEN /\ hand' = [hand EXCEPT ![t] = Head(chan[t])]
            /\ pc' = [pc EXCEPT ![t] = "Sending"]
       ELSE UNCHANGED <<hand, pc>>
  /\ UNCHANGED <<cache, map, owner, events, worker, recvVars>>

(* event_send.send(SendLAN) gets a slot of the event channel. *)
TaskSend(t) ==
  /\ pc[t] = "Sending"
  /\ Len(events) < EventCap
  /\ events' = Append(events, SendLAN(owner[t], hand[t]))
  /\ hand' = [hand EXCEPT ![t] = NoPacket]
  /\ pc' = [pc EXCEPT ![t] = "Receiving"]
  /\ UNCHANGED <<cache, map, chan, owner, worker, recvVars>>

(* Fault: only peers that count as idle are given up. *)
TaskTimeout_IdleOnly(t) ==
  /\ pc[t] = "Receiving"
  /\ chan[t] = <<>>
  /\ cache[owner[t]].state = "Idle"
  /\ pc' = [pc EXCEPT ![t] = "Expired"]
  /\ UNCHANGED <<cache, map, chan, owner, hand, events, worker, recvVars>>

(* Fault: the timer is not for the next packet but for the whole task. *)
TaskTimeout_Total(t) ==
  /\ pc[t] = "Receiving"
  /\ pc' = [pc EXCEPT ![t] = "Expired"]
  /\ UNCHANGED <<cache, map, chan, owner, hand, events, worker, recvVars>>

(* 30 s without a packet, or all senders dropped: the loop breaks.  The
   receiver still exists, so try_send still succeeds. *)
TaskTimeout(t) ==
  /\ pc[t] = "Receiving"
  /\ chan[t] = <<>>
  /\ pc' = [pc EXCEPT ![t] = "Expired"]
  /\ UNCHANGED <<cache, map, chan, owner, hand, events, worker, recvVars>>

(* do_packet returns and drops rx, with whatever was queued since. *)
TaskDropRx(t) ==
  /\ pc[t] = "Expired"
  /\ pc' = [pc EXCEPT ![t] = "Closing"]
  /\ chan' = [chan EXCEPT ![t] = <<>>]
  /\ UNCHANGED <<cache, map, owner, hand, events, worker, recvVars>>

(* Faults: Close is sent with try_send; it overtakes the packets; it is sent
   while the receiver still exists; the task goes on after it. *)
TaskClose_TrySend(t) ==
  /\ pc[t] = "Closing"
  /\ events' = IF Len(events) < EventCap THEN Append(events, Close(owner[t])) ELSE events
  /\ pc' = [pc EXCEPT ![t] = "Done"]
  /\ owner' = [owner EXCEPT ![t] = NoAddr]
  /\ UNCHANGED <<cache, map, chan, hand, worker, recvVars>>

TaskClose_Overtakes(t) ==
  /\ pc[t] = "Closing"
  /\ Len(events) < EventCap
  /\ events' = <<Close(owner[t])>> \o events
  /\ pc' = [pc EXCEPT ![t] = "Done"]
  /\ owner' = [owner EXCEPT ![t] = NoAddr]
  /\ UNCHANGED <<cache, map, chan, hand, worker, recvVars>>

TaskClose_BeforeDrop(t) ==
  /\ pc[t] \in {"Expired", "Closing"}
  /\ Len(events) < EventCap
  /\ events' = Append(events, Close(owner[t]))
  /\ pc' = [pc EXCEPT ![t] = "Done"]
  /\ owner' = [owner EXCEPT ![t] = NoAddr]
  /\ UNCHANGED <<cache, map, chan, hand, worker, recvVars>>

TaskClose_GoesOn(t) ==
  /\ pc[t] = "Closing"
  /\ Len(events) < EventCap
  /\ events' = Append(events, Close(owner[t]))
  /\ pc' = [pc EXCEPT ![t] = "Receiving"]
  /\ UNCHANGED <<cache, map, chan, owner, hand, worker, recvVars>>

(* exit_send.send(Close) gets a slot; the task is over. *)
TaskClose(t) ==
  /\ pc[t] = "Closing"
  /\ Len(events) < EventCap
  /\ events' = Append(events, Close(owner[t]))
  /\ pc' = [pc EXCEPT ![t] = "Done"]
  /\ owner' = [owner EXCEPT ![t] = NoAddr]
  /\ UNCHANGED <<cache, map, chan, hand, worker, recvVars>>

----------------------------------------------------------------------------
(* event_task: at most |Slot| events are handled at a time; they are started
   in the order of the channel, and run to their first suspension at once. *)

(* Fault: an inner address stays with the first client that uses it. *)
Learned_Once(from, d) == [map EXCEPT ![d.src] = IF @ = NoAddr THEN from ELSE @]

(* get_dest_sockaddr: learn the sender's inner address, then look up. *)
Learned(from, d) == [map EXCEPT ![d.src] = from]

BroadcastDest_Echo(from) ==
  {a \in Cached : ~IgnoreIdle \/ cache[a].state # "Idle"}

BroadcastDest(from) ==
  {a \in Cached \ {from} : ~IgnoreIdle \/ cache[a].state # "Idle"}

get_dest_sockaddr(from, d) ==
  LET learned == Learned(from, d)
  IN  IF learned[d.dst] # NoAddr THEN {learned[d.dst]} ELSE BroadcastDest(from)

StartSendLAN(s) ==
  /\ worker[s] = Free
  /\ events # <<>>
  /\ Head(events).type = "SendLAN"
  /\ LET from == Head(events).addr
         d    == Head(events).packet
     IN  /\ map' = Learned(from, d)
         /\ worker' = [worker EXCEPT ![s] =
              [phase |-> "plugins", todo |-> get_dest_sockaddr(from, d)]]
  /\ events' = Tail(events)
  /\ UNCHANGED <<cache, peerVars, recvVars>>

(* Close: the handler needs a free slot but is finished at once.  Removing
   the Peer drops its sender. *)
remove ==
  /\ \E s \in Slot : worker[s] = Free
  /\ events # <<>>
  /\ Head(events).type = "Close"
  /\ cache' = [cache EXCEPT ![Head(events).addr] = Absent]
  /\ events' = Tail(events)
  /\ UNCHANGED <<map, peerVars, worker, recvVars>>

(* The out_packet of every plugin, under the plugin lock. *)
OutPacketPlugins(s) ==
  /\ worker[s] # Free
  /\ worker[s].phase = "plugins"
  /\ recv # "Plugins"
  /\ worker' = [worker EXCEPT ![s] = [phase |-> "send", todo |-> @.todo]]
  /\ UNCHANGED <<cache, map, peerVars, events, recvVars>>

(* Fault: a failed send_to is tried again for ever. *)
SendTo_Retry(s, a) ==
  /\ worker[s] # Free
  /\ worker[s].phase = "send"
  /\ a \in worker[s].todo
  /\ UNCHANGED vars

(* send_lan: one send_to; its result is ignored. *)
SendTo(s, a) ==
  /\ worker[s] # Free
  /\ worker[s].phase = "send"
  /\ a \in worker[s].todo
  /\ worker' = [worker EXCEPT ![s] = [phase |-> "send", todo |-> @.todo \ {a}]]
  /\ UNCHANGED <<cache, map, peerVars, events, recvVars>>

(* send_lan returns: the future is complete and its slot is free. *)
SendLanReturns(s) ==
  /\ worker[s] # Free
  /\ worker[s].phase = "send"
  /\ worker[s].todo = {}
  /\ worker' = [worker EXCEPT ![s] = Free]
  /\ UNCHANGED <<cache, map, peerVars, events, recvVars>>

----------------------------------------------------------------------------
RecvStep ==
  DropUnparsable \/ AnswerPing \/ PongSent \/ PeerMut

TaskStep(t) ==
  \/ TaskRecv(t) \/ TaskSend(t) \/ TaskTimeout(t) \/ TaskDropRx(t) \/ TaskClose(t)

WorkerStep(s) ==
  \/ StartSendLAN(s) \/ OutPacketPlugins(s)
  \/ (\E a \in Addr : SendTo(s, a)) \/ SendLanReturns(s)

Next ==
  \/ \E a \in Addr, d \in Datagram : RecvFrom(a, d)
  \/ RecvError
  \/ RecvStep
  \/ \E a \in Addr : IdleTimeoutElapses(a)
  \/ \E t \in Task : TaskStep(t)
  \/ \E s \in Slot : WorkerStep(s)
  \/ remove

Spec == Init /\ [][Next]_vars

(* The scheduler runs every runnable task, tokio's mpsc semaphore and Mutex
   serve their waiters in order (hence strong fairness where several tasks
   compete), and a timer fires.  Nothing is assumed about the clients. *)
Fairness ==
  /\ WF_vars(RecvStep)
  /\ \A t \in Task :
       /\ WF_vars(TaskRecv(t)) /\ WF_vars(TaskTimeout(t)) /\ WF_vars(TaskDropRx(t))
       /\ SF_vars(TaskSend(t)) /\ SF_vars(TaskClose(t))
  /\ WF_vars(remove \/ \E s \in Slot : StartSendLAN(s))
  /\ \A s \in Slot :
       /\ SF_vars(OutPacketPlugins(s))
       /\ WF_vars(SendLanReturns(s) \/ \E a \in Addr : SendTo(s, a))

FairSpec == Spec /\ Fairness

----------------------------------------------------------------------------
(* Properties. *)

(* A peer task that has not sent its Close is the one its address's cache
   entry talks to: no address ever has two tasks, and no task is orphaned
   (peer_mut spawns, only a Close removes). *)
TaskIsCached ==
  \A t \in Task : pc[t] # "Done" =>
    owner[t] \in Cached /\ cache[owner[t]].peer = t

(* A cache entry whose task is over will be removed: exactly one Close of its
   address is on its way.  A live entry has none, so a late Close never
   removes a peer that has come back. *)
DeadIffClosing ==
  \A a \in Cached :
    LET closes == {i \in DOMAIN events : events[i] = Close(a)}
    IN  Cardinality(closes) = IF pc[cache[a].peer] = "Done" THEN 1 ELSE 0

(* Whoever sent a packet that is still to be routed is still registered when
   event_task routes it: Close comes behind all packets of its peer. *)
SenderIsCached ==
  \A i \in DOMAIN events : events[i].addr \in Cached

(* Removing an entry never cuts off a peer: its task has ended, nothing of it
   is queued in its channel or in the event channel. *)
RemovalIsClean ==
  [][\A a \in Cached \ Cached' :
       /\ \A t \in Task : owner[t] # a
       /\ chan[cache[a].peer] = <<>>
       /\ \A i \in DOMAIN events' : events'[i].addr # a]_vars

(* The inductive invariant behind the four properties above. *)

(* What a task holds fits the place it is at. *)
TaskLocals ==
  \A t \in Task :
    /\ pc[t] = "Sending" <=> hand[t] # NoPacket
    /\ pc[t] = "Done" <=> owner[t] = NoAddr
    /\ pc[t] \in {"Closing", "Done"} => chan[t] = <<>>

RecvLocals == recv \in {"Plugins", "Pong"} <=> inPacket # NoPacket

(* A running task belongs to the address under which its Peer is cached, and
   no two addresses share a Peer. *)
OwnTask ==
  /\ \A a \in Cached :
       pc[cache[a].peer] # "Done" => owner[cache[a].peer] = a
  /\ \A a, b \in Cached : cache[a].peer = cache[b].peer => a = b

DeadHasClose ==
  \A a \in Cached : pc[cache[a].peer] = "Done" =>
    \E i \in DOMAIN events : events[i] = Close(a)

(* A Close comes from a task that is over and is the last event of its
   address. *)
CloseIsLast ==
  \A i \in DOMAIN events : events[i].type = "Close" =>
    /\ pc[cache[events[i].addr].peer] = "Done"
    /\ \A j \in DOMAIN events : j > i => events[j].addr # events[i].addr

Lifecycle ==
  TaskIsCached /\ SenderIsCached /\ OwnTask /\ DeadHasClose /\ CloseIsLast

IInv == TypeOK /\ TaskLocals /\ RecvLocals /\ Lifecycle

(* A handler that has started finishes, although recv_task keeps taking the
   plugin lock. *)
HandlerFinishes ==
  \A s \in Slot : worker[s] # Free ~> worker[s] = Free

(* A client that falls silent is forgotten, whatever the others send. *)
SilentPeerLeaves ==
  \A a \in Addr :
    <>[](inPacket # NoPacket => inPacket.addr # a) => <>[](a \notin Cached)

(* A client that keeps sending LAN packets is heard again and again, however
   busy the others are, and although its channel may be full, its task may time
   out and its packets may be refused until its Close is handled. *)
Heard(a) == \E i \in DOMAIN events : events[i].type = "SendLAN" /\ events[i].addr = a

KeepsBeingHeard ==
  \A a \in Addr :
    []<>(inPacket # NoPacket /\ inPacket.addr = a /\ IsLan(inPacket.data))
      => []<>Heard(a)

(* A client that comes back from another address is found there: once an inner
   address is used by one client only, which uses no other, and packets of it
   keep coming, map leads to this client for good, whatever is still queued of
   its old address. *)
NewAddressIsLearned ==
  LET lan == inPacket # NoPacket /\ IsLan(inPacket.data)
  IN  \A a \in Addr, i \in Ip :
        /\ <>[](lan => (inPacket.addr = a <=> inPacket.data.src = i))
        /\ []<>(lan /\ inPacket.addr = a)
        => <>[](map[i] = a)

(* Once recv_task has ended on an error of the socket, the server winds down:
   every packet taken in is routed and every peer is forgotten. *)
WindsDown ==
  recv = "Down" ~> /\ Cached = {} /\ events = <<>>
                   /\ \A s \in Slot : worker[s] = Free
=============================================================================

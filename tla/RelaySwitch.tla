----------------------------- MODULE RelaySwitch -----------------------------
(* Relay implements LanSwitch: the channel of a peer, the packet its task
   holds and its part of the event channel are one queue. *)
EXTENDS Relay

LanDatagram == {d \in Datagram : IsLan(d)}

(* A sequence without its empty places. *)
Compact(s) ==
  LET upTo[n \in 0 .. Len(s)] ==
        IF n = 0 THEN <<>>
        ELSE IF s[n] = NoPacket THEN upTo[n - 1] ELSE Append(upTo[n - 1], s[n])
  IN  upTo[Len(s)]

(* The places of the event channel and of a task's channel, those empty that
   hold nothing to be routed for a; a Close has no packet. *)
EventView(es, a) ==
  [i \in DOMAIN es |-> IF es[i].addr = a THEN es[i].packet ELSE NoPacket]

LanView(q) == [i \in DOMAIN q |-> IF IsLan(q[i]) THEN q[i] ELSE NoPacket]

TaskPackets(t) == Compact(<<hand[t]>>) \o Compact(LanView(chan[t]))

PendingOf(a) ==
  Compact(EventView(events, a))
    \o IF a \in Cached THEN TaskPackets(cache[a].peer) ELSE <<>>

Leaving     == {a \in Cached : ~RxOpen(cache[a].peer)}
IdleMembers == {a \in Cached : cache[a].state = "Idle"}
Pending     == [a \in Addr |-> PendingOf(a)]
Out         == [s \in Slot |-> IF worker[s] = Free THEN {} ELSE worker[s].todo]

Switch == INSTANCE LanSwitch WITH
  Packet  <- LanDatagram,
  members <- Cached,
  leaving <- Leaving,
  idle    <- IdleMembers,
  table   <- map,
  pending <- Pending,
  out     <- Out

(* The packet path of server.rs, peer_manager.rs and peer.rs is a LAN switch:
   packets of a client are routed in the order they were taken in, each once,
   by the table as it is then, and a peer is removed only when none of its
   packets is left. *)
ImplementsSwitch == Switch!SwitchSpec
=============================================================================

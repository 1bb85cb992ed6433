------------------------------- MODULE MCRelay -------------------------------
(* Relay on small instances: model values for addresses and tasks, three kinds
   of traffic. *)
EXTENDS RelaySwitch, TLC

CONSTANTS i1, i2

Lan(s, d) == [kind |-> "Ipv4", src |-> s, dst |-> d]
Ctl(k)    == [kind |-> k, src |-> i1, dst |-> i1]

(* Broadcast to an address nobody owns, keepalives, pings and datagrams that do
   not parse. *)
MixedTraffic == {Lan(i1, i2), Ctl("Keepalive"), Ctl("Ping"), Ctl("Error")}

(* Packets between two inner addresses; they differ, so that order matters. *)
CrossTraffic == {Lan(i1, i2), Lan(i2, i1)}

(* One kind of packet only. *)
LanTraffic == {Lan(i1, i2)}

MCSymmetry == Permutations(Addr) \cup Permutations(Task) \cup Permutations(Slot)
=============================================================================

------------------------------- MODULE MCRooms -------------------------------
(* Rooms with two block rules, a host and another client; packets that a rule
   hits, one over which FragParser panics, and the reply of the host. *)
EXTENDS Rooms

CONSTANTS host

MCRules == {[protocol |-> "tcp", dst_port |-> 5000], [protocol |-> "tcp", dst_port |-> 21]}

MCPacket ==
  {[proto |-> "tcp", port |-> 21, room |-> None, uneven |-> FALSE],
   [proto |-> None, port |-> None, room |-> None, uneven |-> TRUE],
   [proto |-> "udp", port |-> 11452, room |-> host, uneven |-> FALSE]}
=============================================================================

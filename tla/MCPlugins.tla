------------------------------ MODULE MCPlugins ------------------------------
(* Plugins with two rules; packets that one, or none, of them hits, one that
   cannot be looked into, and one that describes a room. *)
EXTENDS Plugins

MCRules == {[protocol |-> "tcp", dst_port |-> 5000], [protocol |-> "tcp", dst_port |-> 21]}

MCPacket ==
  {[proto |-> "tcp", port |-> 21, room |-> None, uneven |-> FALSE],
   [proto |-> "udp", port |-> 21, room |-> None, uneven |-> FALSE],
   [proto |-> None, port |-> None, room |-> None, uneven |-> TRUE]}
=============================================================================

-------------------------------- MODULE Wire --------------------------------
(****************************************************************************)
(* The bytes of a datagram on their way through ldn_mitm: ForwarderFrame::  *)
(* parse and the accessors of the frames (frame.rs), the header and the     *)
(* NetworkInfo of a reply (lan_protocol.rs), as in_packet (plugin.rs) calls *)
(* them.  What counts is how long the slice in hand is and which ranges of  *)
(* it are taken: one beyond its end is a panic, and the end of recv_task.   *)
(* The values of the fields that the ranges depend on are any.              *)
(****************************************************************************)
EXTENDS Naturals

CONSTANTS
  Size,   \* lengths of datagrams
  Length, \* values of the 16-bit lengths in a packet, and lengths of what a
          \* FragParser or decompress returns
  Typ     \* values of a byte

ASSUME WireAssumption ==
  Size \subseteq Nat /\ Length \subseteq Nat /\ Typ \subseteq Nat

VARIABLES
  stage,  \* what the slice in hand is taken for
  len,    \* its length
  taken   \* the ranges taken in the last step: [from, to, of], of being the
          \* length of the slice they are taken from

wireVars == <<stage, len, taken>>

WireInit == stage = "Ready" /\ len = 0 /\ taken = {}

(* Slices of the one in hand. *)
Take(from, to) == [from |-> from, to |-> to, of |-> len]
Octet(i) == Take(i, i + 1)

(* Where it is left alone, in_packet is through. *)
Done == stage' = "Ready" /\ len' = 0

(* recv_task hands a datagram to the plugin. *)
RecvDatagram(n) ==
  /\ stage = "Ready"
  /\ stage' = "Datagram" /\ len' = n
  /\ taken' = {}

----------------------------------------------------------------------------
(* frame.rs *)

(* Fault: the header of a fragment is taken to be one byte shorter. *)
Limits_Off ==
  [Datagram |-> 1 .. 2048, Ipv4 |-> 20 .. 2048, Ipv4Frag |-> 15 .. 2048, Ping |-> 4 .. 4]

(* MIN_LENGTH and MAX_LENGTH of each parser *)
Limits ==
  [Datagram |-> 1 .. 2048, Ipv4 |-> 20 .. 2048, Ipv4Frag |-> 16 .. 2048, Ping |-> 4 .. 4]

(* forwarder_type, as far as there is anything behind the type byte *)
Kind == <<"Ipv4", "Ping", "Ipv4Frag">>

TooShortOrLong ==
  /\ stage = "Datagram" /\ len \notin Limits["Datagram"]
  /\ taken' = {}
  /\ Done

ParseFrame(typ) ==
  /\ stage = "Datagram" /\ len \in Limits["Datagram"]
  /\ taken' = {Octet(0), Take(1, len)}
  /\ IF typ \in DOMAIN Kind /\ len - 1 \in Limits[Kind[typ]]
       THEN stage' = Kind[typ] /\ len' = len - 1
       ELSE Done

(* recv_task answers a ping. *)
build ==
  /\ stage = "Ping"
  /\ taken' = {Take(0, 4)}
  /\ Done

(* src_ip, dst_ip and data; the packet is for the server, or not. *)
ReadIpv4 ==
  /\ stage = "Ipv4"
  /\ taken' = {Take(12, 16), Take(16, 20)}
  /\ Done \/ (stage' = "Packet" /\ len' = len)

(* from_frame; process returns a whole packet, or none. *)
ReadIpv4Frag ==
  /\ stage = "Ipv4Frag"
  /\ taken' = {Take(0, 4), Take(4, 8), Take(8, 10), Octet(10), Octet(11),
               Take(12, 14), Take(14, 16), Take(16, len)}
  /\ Done \/ \E n \in Length : stage' = "Packet" /\ len' = n

(* The checked packets of smoltcp: what is in a UDP packet in an IPv4 packet,
   if it is one. *)
LookInside ==
  /\ stage = "Packet"
  /\ taken' = {}
  /\ Done \/ \E n \in Length : n + 28 <= len /\ stage' = "Ldn" /\ len' = n

----------------------------------------------------------------------------
(* lan_protocol.rs *)

HeaderSize == 12

(* LdnHeader::check finds the buffer, its magic number or its len wrong. *)
RejectLdn ==
  /\ stage = "Ldn"
  /\ \/ len < HeaderSize /\ taken' = {}
     \/ len >= HeaderSize /\ taken' \in {{Take(0, 4)}, {Take(0, 4), Take(6, 8)}}
  /\ Done

(* LdnPacket::new: typ, compressed, decompress_len and payload; what comes out
   is as long as the payload, or as the header says. *)
ReadLdn ==
  /\ stage = "Ldn" /\ len >= HeaderSize
  /\ taken' = {Take(0, 4), Take(6, 8), Octet(5), Take(8, 10), Take(12, len), Octet(4)}
  /\ \/ Done
     \/ stage' = "NetworkInfo" /\ len' \in {len - HeaderSize} \cup Length

Min2(m, n) == IF m < n THEN m ELSE n

(* Fault: the count of nodes is taken as it is. *)
nodes_Any(count) == {Take(104 + 64 * i, 104 + 64 * i + 64) : i \in 0 .. count - 1}

(* NetworkInfo::nodes: node_count of them, at most 8 *)
nodes(count) == {Take(104 + 64 * i, 104 + 64 * i + 64) : i \in 0 .. Min2(count, 8) - 1}

advertise_data(n) == Take(620, 620 + Min2(n, 384))

(* The accessors of a NodeInfo: ip, node_id, is_connected, player_name. *)
InNode(node) ==
  {[from |-> f[1], to |-> f[2], of |-> node.to - node.from] :
     f \in {<<0, 4>>, <<10, 11>>, <<11, 12>>, <<12, 44>>}}

InfoTooShort ==
  /\ stage = "NetworkInfo" /\ len < 1152
  /\ taken' = {}
  /\ Done

(* The room is put together: content id, session id, host_player_name, the two
   counts, the nodes, and the advertise data with their length. *)
ReadNetworkInfo(count, n) ==
  /\ stage = "NetworkInfo" /\ len >= 1152
  /\ taken' = {Take(0, 8), Take(16, 32), Take(116, 148), Octet(102), Octet(103),
               Take(618, 620), advertise_data(n)}
              \cup nodes(count) \cup UNION {InNode(node) : node \in nodes(count)}
  /\ Done

WireNext ==
  \/ \E n \in Size : RecvDatagram(n)
  \/ TooShortOrLong \/ \E typ \in Typ : ParseFrame(typ)
  \/ build \/ ReadIpv4 \/ ReadIpv4Frag \/ LookInside
  \/ RejectLdn \/ ReadLdn
  \/ InfoTooShort \/ \E count \in Typ, n \in Length : ReadNetworkInfo(count, n)

WireSpec == WireInit /\ [][WireNext]_wireVars

(* No datagram, of whatever length and with whatever in its fields, makes an
   accessor reach beyond its slice: each parser's least length covers what is
   read of what it has accepted, and what the fields say is cut to fit. *)
ReadsStayInside == \A t \in taken : t.from <= t.to /\ t.to <= t.of
=============================================================================

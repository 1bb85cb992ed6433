------------------------------ MODULE ScanReply ------------------------------
(****************************************************************************)
(* From a packet to a room: ldn_mitm looks into the packets that are sent   *)
(* to the server (plugin.rs, in_packet), reads the header of the reply and  *)
(* decompresses its payload (lan_protocol.rs), and lists the room that it   *)
(* describes.  decompress is modelled byte by byte of its input.            *)
(****************************************************************************)
EXTENDS Naturals, Sequences

CONSTANTS
  Byte,      \* the values of a byte
  Packet,    \* the packets that arrive
  InfoSize,  \* the least length of a NetworkInfo (0x480)
  None

(* to: whether the packet is a UDP packet to SERVER_ADDR; head: whether its
   payload has room for a header, and the magic number is right. *)
ASSUME ReplyAssumption ==
  /\ Byte \subseteq Nat /\ 0 \in Byte
  /\ Packet \subseteq [to : {"server", "other"}, head : {"short", "foreign", "ldn"},
                       typ : Nat, compressed : Nat, len : Nat, decompress_len : Nat,
                       payload : Seq(Byte)]
  /\ None \notin Packet \cup Byte \cup Seq(Byte)

VARIABLES
  pc,         \* where in_packet is; "Ready" between two calls
  packet,     \* its argument
  next,       \* decompress: the index of the next input byte
  pos,        \* decompress: how many bytes are written
  lead_zero,  \* decompress: whether a run length is next
  output,     \* decompress: the buffer
  payload,    \* the payload of the LdnPacket, or None
  listed      \* whether the last call has inserted a room

loopVars == <<next, pos, lead_zero, output>>
vars == <<pc, packet, loopVars, payload, listed>>

DataTypeOK ==
  /\ pc \in {"Ready", "Header", "Decompress", "Payload"}
  /\ packet \in Packet \cup {None}
  /\ next \in Nat \ {0}
  /\ pos \in Nat
  /\ output \in Seq(Byte)
  /\ payload \in Seq(Byte) \cup {None}
  /\ pc # "Ready" => packet # None
  /\ pc = "Payload" => payload # None

FlagsTypeOK == lead_zero \in BOOLEAN /\ listed \in BOOLEAN

ReplyTypeOK == DataTypeOK /\ FlagsTypeOK

Init ==
  /\ pc = "Ready" /\ packet = None
  /\ next = 1 /\ pos = 0 /\ lead_zero = FALSE /\ output = <<>>
  /\ payload = None /\ listed = FALSE

(* The locals of decompress and LdnPacket::new are gone. *)
LeaveLoop == next' = 1 /\ pos' = 0 /\ lead_zero' = FALSE /\ output' = <<>>

(* in_packet returns Ok without listing a room. *)
Return ==
  /\ pc' = "Ready"
  /\ listed' = FALSE
  /\ LeaveLoop

(* Anything but a UDP packet to SERVER_ADDR is left alone. *)
Ignore(p) ==
  /\ pc = "Ready"
  /\ p.to = "other"
  /\ packet' = p /\ payload' = None
  /\ Return

in_packet(p) ==
  /\ pc = "Ready"
  /\ p.to = "server"
  /\ pc' = "Header"
  /\ packet' = p /\ payload' = None
  /\ listed' = FALSE
  /\ UNCHANGED loopVars

----------------------------------------------------------------------------
(* LdnPacket::new *)

(* LdnHeader::check; the payload may be longer than len says. *)
check == packet.head = "ldn" /\ Len(packet.payload) >= packet.len

BadHeader ==
  /\ pc = "Header" /\ ~check
  /\ Return
  /\ UNCHANGED <<packet, payload>>

(* compressed other than 1: the payload as it is *)
CopyPayload ==
  /\ pc = "Header" /\ check
  /\ packet.compressed # 1
  /\ payload' = packet.payload
  /\ pc' = "Payload"
  /\ UNCHANGED <<packet, loopVars, listed>>

StartDecompress ==
  /\ pc = "Header" /\ check
  /\ packet.compressed = 1
  /\ output' = [i \in 1 .. packet.decompress_len |-> 0]
  /\ next' = 1 /\ pos' = 0 /\ lead_zero' = FALSE
  /\ pc' = "Decompress"
  /\ UNCHANGED <<packet, payload, listed>>

(* One turn of the loop over the input. *)
InLoop == pc = "Decompress" /\ next <= Len(packet.payload)
Input == packet.payload[next]
Room == pos < Len(output)

(* Fault: after a run the next byte is a run length again. *)
ZeroRun_KeepsFlag ==
  /\ InLoop /\ Room /\ lead_zero
  /\ pos + Input <= Len(output)
  /\ output' = [i \in DOMAIN output |->
                  IF pos < i /\ i <= pos + Input THEN 0 ELSE output[i]]
  /\ pos' = pos + Input
  /\ next' = next + 1
  /\ UNCHANGED <<pc, packet, lead_zero, payload, listed>>

(* Fault: only the start of the run is checked. *)
ZeroRun_Unchecked ==
  /\ InLoop /\ Room /\ lead_zero
  /\ output' = [i \in DOMAIN output |->
                  IF pos < i /\ i <= pos + Input THEN 0 ELSE output[i]]
  /\ pos' = pos + Input
  /\ lead_zero' = FALSE
  /\ next' = next + 1
  /\ UNCHANGED <<pc, packet, payload, listed>>

ZeroRun ==
  /\ InLoop /\ Room /\ lead_zero
  /\ pos + Input <= Len(output)
  /\ output' = [i \in DOMAIN output |->
                  IF pos < i /\ i <= pos + Input THEN 0 ELSE output[i]]
  /\ pos' = pos + Input
  /\ lead_zero' = FALSE
  /\ next' = next + 1
  /\ UNCHANGED <<pc, packet, payload, listed>>

(* Fault: a zero is taken for itself. *)
Literal_Zero ==
  /\ InLoop /\ Room /\ ~lead_zero
  /\ output' = [output EXCEPT ![pos + 1] = Input]
  /\ pos' = pos + 1
  /\ next' = next + 1
  /\ UNCHANGED <<pc, packet, lead_zero, payload, listed>>

Literal ==
  /\ InLoop /\ Room /\ ~lead_zero
  /\ output' = [output EXCEPT ![pos + 1] = Input]
  /\ pos' = pos + 1
  /\ lead_zero' = (Input = 0)
  /\ next' = next + 1
  /\ UNCHANGED <<pc, packet, payload, listed>>

(* Fault: that decompress has failed is not noticed. *)
Overflow_Unnoticed ==
  /\ InLoop
  /\ ~Room \/ (lead_zero /\ pos + Input > Len(output))
  /\ pc' = "Payload"
  /\ LeaveLoop
  /\ UNCHANGED <<packet, payload, listed>>

(* decompress returns None: input is left over, or a run is too long. *)
Overflow ==
  /\ InLoop
  /\ ~Room \/ (lead_zero /\ pos + Input > Len(output))
  /\ Return
  /\ UNCHANGED <<packet, payload>>

(* The input is at its end: within a run, or before the output is full... *)
Incomplete ==
  /\ pc = "Decompress" /\ next > Len(packet.payload)
  /\ lead_zero \/ pos # Len(output)
  /\ Return
  /\ UNCHANGED <<packet, payload>>

(* ...or just when it is. *)
Complete ==
  /\ pc = "Decompress" /\ next > Len(packet.payload)
  /\ ~lead_zero /\ pos = Len(output)
  /\ payload' = output
  /\ pc' = "Payload"
  /\ LeaveLoop
  /\ UNCHANGED <<packet, listed>>

----------------------------------------------------------------------------
(* The LdnPacket is a scan reply with a NetworkInfo in it. *)
IsReply == packet.typ = 1 /\ Len(payload) >= InfoSize

NoReply ==
  /\ pc = "Payload" /\ ~IsReply
  /\ Return
  /\ UNCHANGED <<packet, payload>>

InsertRoom ==
  /\ pc = "Payload" /\ IsReply
  /\ pc' = "Ready"
  /\ listed' = TRUE
  /\ UNCHANGED <<packet, loopVars, payload>>

Loop == ZeroRun \/ Literal \/ Overflow \/ Incomplete \/ Complete

Next ==
  \/ \E p \in Packet : Ignore(p) \/ in_packet(p)
  \/ BadHeader \/ CopyPayload \/ StartDecompress
  \/ Loop
  \/ NoReply \/ InsertRoom

Spec == Init /\ [][Next]_vars

(* No slice of the output is out of range, whatever the input and the length
   that the header announces: what is written ends within the buffer, and the
   buffer keeps its length. *)
StaysInBounds ==
  pc = "Decompress" => /\ pos <= Len(output)
                       /\ Len(output) = packet.decompress_len
=============================================================================

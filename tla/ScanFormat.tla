------------------------------ MODULE ScanFormat ------------------------------
(****************************************************************************)
(* What the bytes of a compressed payload stand for, read token by token: a *)
(* byte other than 0 for itself, 0 and n for n + 1 zeros; and what ScanReply *)
(* promises in these terms.                                                 *)
(****************************************************************************)
EXTENDS ScanReply

Zeros(n) == [i \in 1 .. n |-> 0]

(* What s stands for from each of its positions on; no byte, and None instead, if
   the last token is cut off. *)
From(s) ==
  LET from[i \in 1 .. Len(s) + 1] ==
        IF i > Len(s) THEN <<>>
        ELSE IF s[i] # 0 THEN <<s[i]>> \o from[i + 1]
        ELSE IF i = Len(s) THEN <<None>>
        ELSE Zeros(s[i + 1] + 1) \o from[i + 2]
  IN  from

Plain(s) == From(s)[1]

Compressed == packet # None /\ packet.head = "ldn" /\ packet.compressed = 1

Fits ==
  /\ Plain(packet.payload) \in Seq(Byte)
  /\ Len(Plain(packet.payload)) = packet.decompress_len

(* Of a payload that fits, the last token is 0 and 0: a single zero. *)
EndsWithLoneZero ==
  packet.payload # <<>> /\ packet.payload[Len(packet.payload)] = 0

(* What decompress accepts it has expanded as the format has it, and it has the
   length that the header announces. *)
AcceptedIsPlain ==
  Compressed /\ payload # None => Fits /\ payload = Plain(packet.payload)

(* A room of the right length that is described in the format gets listed,
   unless the description ends with a single zero. *)
RoomIsListed ==
  pc = "Ready" /\ Compressed /\ packet.to = "server" /\ check /\ packet.typ = 1
    /\ Fits /\ packet.decompress_len >= InfoSize /\ ~EndsWithLoneZero
  => listed

(* Stated by test_decompress ([1, 0, 3, 3, 0, 0] stands for [1, 0, 0, 0, 0, 3, 0]):
   what is well formed and has the announced length is decompressed. *)
FittingIsAccepted ==
  pc = "Ready" /\ Compressed /\ packet.to = "server" /\ check /\ Fits => payload # None
=============================================================================

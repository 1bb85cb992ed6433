----------------------------- MODULE MCScanReply -----------------------------
(* ScanFormat with short payloads. *)
EXTENDS ScanFormat

CONSTANT MaxLen   \* bound: the length of a payload

Payloads == UNION {[1 .. n -> Byte] : n \in 0 .. MaxLen}

Replies ==
  [to : {"server"}, head : {"ldn"}, typ : {1}, compressed : {1}, len : {1},
   decompress_len : 0 .. MaxLen + 1, payload : Payloads]

Others ==
  [to : {"server", "other"}, head : {"short", "foreign", "ldn"}, typ : {0, 1},
   compressed : {0, 1, 2}, len : {0, 2}, decompress_len : {3},
   payload : {<<>>, <<1>>, <<1, 0, 1>>}]

MCPacket == Replies \cup Others
=============================================================================

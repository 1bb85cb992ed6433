------------------------------- MODULE MCWire -------------------------------
(* Wire with every length of a datagram up to 2060, two beyond, and with the
   lengths inside a packet on both sides of every limit. *)
EXTENDS Wire

MCSize == 0 .. 2060 \cup {65506, 65507}

MCLength ==
  0 .. 50 \cup {1151, 1152, 1153, 1163, 1164, 1179, 1180, 1181, 1192} \cup {383, 384, 385}
    \cup {2019, 2020, 65535}

MCTyp == {0, 1, 2, 3, 4, 5, 7, 8, 9, 16, 17, 255}
=============================================================================

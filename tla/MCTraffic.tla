------------------------------ MODULE MCTraffic ------------------------------
(* Traffic with packets of one length and one subscriber. *)
EXTENDS Traffic

MCValue == [Direction -> 0 .. MaxCount]
=============================================================================

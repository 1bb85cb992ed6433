------------------------------- MODULE Traffic -------------------------------
(****************************************************************************)
(* The traffic plugin (src/plugin/traffic.rs): the counters of the current  *)
(* second and those of the last one, under one mutex.  Every tick of its    *)
(* publisher starts a new second (clear_traffic) and publishes the old one. *)
(* The value of InfoStream is the current counters.                         *)
(****************************************************************************)
EXTENDS InfoStream

CONSTANTS
  Length,     \* lengths of packets
  MaxCount,   \* bound: packets and bytes counted in one second
  MaxTotal    \* bound: packets and bytes counted altogether

Direction == {"upload", "download", "upload_packet", "download_packet"}
Zero == [d \in Direction |-> 0]
Add(x, y) == [d \in Direction |-> x[d] + y[d]]
Within(x, n) == \A d \in Direction : x[d] <= n

ASSUME TrafficAssumption ==
  /\ Length \subseteq Nat
  /\ Value = [Direction -> 0 .. MaxCount]

VARIABLES
  last,     \* the counters of the last complete second
  answer,   \* what the latest query of traffic_info returned
  total,    \* history: everything that was counted
  seconds   \* history: the sum of all complete seconds

trafficVars == <<vars, last, answer, total, seconds>>

TrafficInit ==
  /\ value = Zero /\ last = Zero
  /\ StreamInit
  /\ answer = None
  /\ total = Zero /\ seconds = Zero

on_upload(n)   == [Zero EXCEPT !["upload"] = n, !["upload_packet"] = 1]
on_download(n) == [Zero EXCEPT !["download"] = n, !["download_packet"] = 1]

Count(x) ==
  /\ Within(Add(value, x), MaxCount)
  /\ Within(Add(total, x), MaxTotal)
  /\ value' = Add(value, x)
  /\ total' = Add(total, x)
  /\ UNCHANGED <<streamVars, last, answer, seconds>>

(* A packet arrives; a packet is sent to some addresses, maybe to none. *)
in_packet  == \E n \in Length : Count(on_download(n))
out_packet == \E n \in Length, addrs \in 0 .. 2 : Count(on_upload(n * addrs))

(* Fault: the current counters are copied, not replaced. *)
clear_traffic_Copy ==
  /\ Tick
  /\ last' = value
  /\ seconds' = Add(seconds, value)
  /\ UNCHANGED <<value, answer, total>>

(* The publisher's func: the current counters become the last ones. *)
clear_traffic ==
  /\ Tick
  /\ value' = Zero
  /\ last' = value
  /\ seconds' = Add(seconds, value)
  /\ UNCHANGED <<answer, total>>

(* The query returns the current counters. *)
traffic_info ==
  /\ answer' = value
  /\ UNCHANGED <<vars, last, total, seconds>>

TrafficNext ==
  \/ in_packet \/ out_packet
  \/ clear_traffic
  \/ (Send \/ \E c \in Subscriber : SubscriberStep(c))
       /\ UNCHANGED <<value, last, answer, total, seconds>>
  \/ traffic_info

TrafficSpec == TrafficInit /\ [][TrafficNext]_trafficVars

(* Every packet, and its bytes, are counted in exactly one second, however the
   publisher's tick falls between the packets. *)
CountedOnce == total = Add(seconds, value)

(* Stated by the docs of the query and of the fields ("last second"). *)
AnswersWithLastSecond == [][traffic_info => answer' = last]_trafficVars
=============================================================================

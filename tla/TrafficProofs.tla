---------------------------- MODULE TrafficProofs ----------------------------
(* Every packet is counted in exactly one second, for all lengths and bounds;
   and what InfoStream promises its subscribers, with any value. *)
EXTENDS Traffic, TLAPS

(* The counters are numbers: without that, the sums in CountedOnce could not be
   taken apart and put together again. *)
CounterTypeOK ==
  /\ value \in [Direction -> Nat]
  /\ total \in [Direction -> Nat]
  /\ seconds \in [Direction -> Nat]

CountInv == CounterTypeOK /\ CountedOnce

(* Counters add up to counters, and in any order. *)
LEMMA AddCounters ==
  ASSUME NEW x \in [Direction -> Nat], NEW y \in [Direction -> Nat]
  PROVE  /\ Add(x, y) \in [Direction -> Nat]
         /\ \A d \in Direction : Add(x, y)[d] = x[d] + y[d]
  BY DEF Add

(* Which of two sums is taken first does not matter. *)
LEMMA AddAssociates ==
  ASSUME NEW x \in [Direction -> Nat], NEW y \in [Direction -> Nat],
         NEW z \in [Direction -> Nat]
  PROVE  Add(Add(x, y), z) = Add(x, Add(y, z))
<1>1. Add(Add(x, y), z) = [d \in Direction |-> x[d] + y[d] + z[d]]
  BY DEF Add
<1>2. Add(x, Add(y, z)) = [d \in Direction |-> x[d] + (y[d] + z[d])]
  BY DEF Add
<1>3. \A d \in Direction : x[d] + y[d] + z[d] = x[d] + (y[d] + z[d])
  OBVIOUS
<1> QED
  BY <1>1, <1>2, <1>3

(* A fresh TrafficInfo is a counter, *)
LEMMA ZeroIsCounter == Zero \in [Direction -> Nat]
  BY DEF Zero

(* and adds nothing. *)
LEMMA AddZero ==
  ASSUME NEW x \in [Direction -> Nat]
  PROVE  Add(x, Zero) = x
<1>1. \A d \in Direction : Add(x, Zero)[d] = x[d]
  BY DEF Add, Zero
<1> QED
  BY <1>1 DEF Add

(* Counting a packet adds the same to the total and to the current second. *)
LEMMA CountInvCount ==
  ASSUME CountInv, NEW x \in [Direction -> Nat], Count(x)
  PROVE  CountInv'
<1>1. value' = Add(value, x) /\ total' = Add(total, x) /\ seconds' = seconds
  BY DEF Count
<1>2. CounterTypeOK'
  BY <1>1, AddCounters DEF CountInv, CounterTypeOK
<1>3. Add(Add(seconds, value), x) = Add(seconds, Add(value, x))
  BY AddAssociates DEF CountInv, CounterTypeOK
<1> QED
  BY <1>1, <1>2, <1>3 DEF CountInv, CountedOnce

(* What one packet is counted as. *)
LEMMA PacketIsCounter ==
  ASSUME NEW n \in Nat
  PROVE  /\ on_upload(n) \in [Direction -> Nat]
         /\ on_download(n) \in [Direction -> Nat]
  BY DEF on_upload, on_download, Zero, Direction

(* A new second takes what was in the current one over into the sum. *)
LEMMA CountInvClear ==
  ASSUME CountInv, clear_traffic
  PROVE  CountInv'
<1>1. value' = Zero /\ total' = total /\ seconds' = Add(seconds, value)
  BY DEF clear_traffic
<1>2. CounterTypeOK'
  BY <1>1, AddCounters, ZeroIsCounter DEF CountInv, CounterTypeOK
<1>3. Add(Add(seconds, value), Zero) = Add(seconds, value)
  BY AddZero, AddCounters DEF CountInv, CounterTypeOK
<1> QED
  BY <1>1, <1>2, <1>3 DEF CountInv, CountedOnce

(* No step but these three touches the counters. *)
LEMMA NextCountInv ==
  ASSUME CountInv, [TrafficNext]_trafficVars
  PROVE  CountInv'
<1>1. CASE in_packet
  <2>1. PICK n \in Length : Count(on_download(n))
    BY <1>1 DEF in_packet
  <2> QED
    BY <2>1, PacketIsCounter, CountInvCount, TrafficAssumption
<1>2. CASE out_packet
  <2>1. PICK n \in Length, addrs \in 0 .. 2 : Count(on_upload(n * addrs))
    BY <1>2 DEF out_packet
  <2>2. n * addrs \in Nat
    BY TrafficAssumption
  <2> QED
    BY <2>1, <2>2, PacketIsCounter, CountInvCount
<1>3. CASE clear_traffic
  BY <1>3, CountInvClear
<1>4. CASE UNCHANGED <<value, total, seconds>>
  BY <1>4 DEF CountInv, CounterTypeOK, CountedOnce
<1>5. ASSUME TrafficNext, ~in_packet, ~out_packet, ~clear_traffic
      PROVE  UNCHANGED <<value, total, seconds>>
  BY <1>5 DEF TrafficNext, traffic_info, vars
<1>6. UNCHANGED trafficVars => UNCHANGED <<value, total, seconds>>
  BY DEF trafficVars, vars
<1> QED
  BY <1>1, <1>2, <1>3, <1>4, <1>5, <1>6

(* The traffic plugin counts every packet in exactly one second (traffic.rs,
   clear_traffic against in_packet and out_packet). *)
THEOREM CountedOnceHolds == TrafficSpec => []CountedOnce
<1>1. TrafficInit => CountInv
  BY ZeroIsCounter, AddZero DEF TrafficInit, CountInv, CounterTypeOK, CountedOnce
<1>2. CountInv /\ [TrafficNext]_trafficVars => CountInv'
  BY NextCountInv
<1>3. CountInv => CountedOnce
  BY DEF CountInv
<1> QED
  BY <1>1, <1>2, <1>3, PTL DEF TrafficSpec

----------------------------------------------------------------------------
(* Before the snapshot nothing counts as news; what is sent between the snapshot
   and the stream waits in the channel. *)
NewsIsUnread(c) ==
  /\ phase[c] \in {"Off", "Subscribed"} => ~news[c]
  /\ phase[c] = "Chained" /\ news[c] => unread[c] > 0
  /\ phase[c] = "Streaming" /\ unread[c] = 0 /\ news[c] => shown[c] = slot

StreamMapsOK ==
  /\ phase \in [Subscriber -> Receiving \cup {"Off", "Ended"}]
  /\ unread \in [Subscriber -> 0 .. 2]
  /\ DOMAIN shown = Subscriber
  /\ news \in [Subscriber -> BOOLEAN]

StreamInv == StreamMapsOK /\ \A c \in Subscriber : NewsIsUnread(c)

(* Publishing counts as unread for whoever it is news to. *)
LEMMA SendKeeps ==
  ASSUME StreamInv, Send
  PROVE  StreamInv'
<1>1. /\ phase' = phase /\ shown' = shown
      /\ \A c \in Subscriber : unread'[c] =
           IF phase[c] \in Receiving /\ unread[c] < 2 THEN unread[c] + 1 ELSE unread[c]
      /\ \A c \in Subscriber : news'[c] = (news[c] \/ phase[c] \in {"Chained", "Streaming"})
  BY DEF Send, subscriberVars
<1>2. unread' \in [Subscriber -> 0 .. 2] /\ news' \in [Subscriber -> BOOLEAN]
  BY DEF Send, StreamInv, StreamMapsOK
<1>3. ASSUME NEW c \in Subscriber PROVE NewsIsUnread(c)'
  <2>1. unread[c] \in 0 .. 2
    BY DEF StreamInv, StreamMapsOK
  <2>2. phase[c] \in Receiving => unread'[c] > 0
    BY <1>1, <2>1
  <2>3. phase[c] \in {"Chained", "Streaming"} => phase[c] \in Receiving
    BY DEF Receiving
  <2>4. phase[c] \in {"Off", "Subscribed"} => ~news'[c]
    BY <1>1 DEF StreamInv, NewsIsUnread
  <2> QED
    BY <1>1, <2>2, <2>3, <2>4 DEF NewsIsUnread
<1> QED
  BY <1>1, <1>2, <1>3 DEF StreamInv, StreamMapsOK

(* A subscriber's step: its receiver is older than its snapshot, and what it
   receives is what was published last. *)
LEMMA SubscriberKeeps ==
  ASSUME StreamInv, NEW c \in Subscriber, SubscriberStep(c)
  PROVE  StreamInv'
<1>1. slot' = slot
  BY DEF SubscriberStep, Subscribe, Snapshot, Poll, YieldSnapshot, Receive, EndLagged, Drop,
         publisherVars
<1>2. StreamMapsOK'
  <2> USE DEF StreamInv, StreamMapsOK
  <2>1. CASE Subscribe(c) \/ Snapshot(c)
    BY <2>1 DEF Subscribe, Snapshot, Receiving
  <2>2. CASE YieldSnapshot(c) \/ EndLagged(c)
    BY <2>2 DEF YieldSnapshot, EndLagged, Receiving
  <2>3. CASE Receive(c)
    BY <2>3 DEF Receive
  <2>4. CASE Drop(c)
    <3>1. news' \in [Subscriber -> BOOLEAN]
      BY <2>4 DEF Drop
    <3> QED
      BY <2>4, <3>1 DEF Drop
  <2> QED
    BY <2>1, <2>2, <2>3, <2>4 DEF SubscriberStep, Poll
<1>3. \A b \in Subscriber \ {c} :
        /\ phase'[b] = phase[b] /\ unread'[b] = unread[b]
        /\ shown'[b] = shown[b] /\ news'[b] = news[b]
  BY DEF StreamInv, StreamMapsOK, SubscriberStep, Subscribe, Snapshot, Poll, YieldSnapshot,
         Receive, EndLagged, Drop
<1>4. NewsIsUnread(c)'
  <2> USE DEF StreamInv, StreamMapsOK, NewsIsUnread
  <2>1. CASE Subscribe(c) \/ Snapshot(c)
    BY <2>1 DEF Subscribe, Snapshot
  <2>2. CASE Poll(c)
    BY <1>1, <2>2 DEF Poll, YieldSnapshot, Receive, EndLagged
  <2>3. CASE Drop(c)
    BY <2>3 DEF Drop
  <2> QED
    BY <2>1, <2>2, <2>3 DEF SubscriberStep
<1> QED
  BY <1>1, <1>2, <1>3, <1>4 DEF StreamInv, NewsIsUnread

(* The steps of a stream, whatever becomes of its value. *)
LEMMA StreamKeeps ==
  ASSUME StreamInv,
         Tick \/ Send \/ (\E c \in Subscriber : SubscriberStep(c)) \/ UNCHANGED streamVars
  PROVE  StreamInv'
<1>1. CASE Tick \/ UNCHANGED streamVars
  <2>1. UNCHANGED <<phase, unread, shown, news, slot>>
    BY <1>1 DEF Tick, streamVars, subscriberVars
  <2> QED
    BY <2>1 DEF StreamInv, StreamMapsOK, NewsIsUnread
<1> QED
  BY <1>1, SendKeeps, SubscriberKeeps

LEMMA StreamStarts ==
  ASSUME StreamInit
  PROVE  StreamInv
  BY DEF StreamInit, StreamInv, StreamMapsOK, NewsIsUnread, Receiving

LEMMA StreamInvSuffices == StreamInv => NothingMissed
  BY DEF StreamInv, NewsIsUnread, NothingMissed

(* Nothing is lost between the snapshot and the stream (server.rs,
   server_info_stream), with any values and any number of subscribers. *)
THEOREM NothingMissedHolds == Spec => []NothingMissed
<1>1. Init => StreamInv
  BY StreamStarts DEF Init
<1>2. StreamInv /\ [Next]_vars => StreamInv'
  BY StreamKeeps DEF Next, Change, vars
<1> QED
  BY <1>1, <1>2, StreamInvSuffices, PTL DEF Spec

(* The same for the traffic (traffic.rs, traffic_info_stream), whose publisher
   resets the value it publishes. *)
THEOREM TrafficIsNotMissed == TrafficSpec => []NothingMissed
<1>1. TrafficInit => StreamInv
  BY StreamStarts DEF TrafficInit
<1>2. StreamInv /\ [TrafficNext]_trafficVars => StreamInv'
  <2>1. [TrafficNext]_trafficVars =>
          Tick \/ Send \/ (\E c \in Subscriber : SubscriberStep(c)) \/ UNCHANGED streamVars
    BY DEF TrafficNext, in_packet, out_packet, Count, clear_traffic, traffic_info,
           trafficVars, vars
  <2> QED
    BY <2>1, StreamKeeps
<1> QED
  BY <1>1, <1>2, StreamInvSuffices, PTL DEF TrafficSpec
=============================================================================

------------------------------ MODULE InfoStream ------------------------------
(****************************************************************************)
(* A value that changes is published once a second, if it differs from the  *)
(* one published before (spawn_stream, src/slp/stream.rs), over a broadcast *)
(* channel of capacity one; a subscriber gets the value of the moment and   *)
(* then what is published (server_info_stream, traffic_info_stream), equal  *)
(* neighbours filtered out (filter_same).                                   *)
(*                                                                          *)
(* The steps of publisher and subscribers leave value' open: for the server *)
(* info (module ServerInfo) they do not touch it, for the traffic (module   *)
(* Traffic) the publisher resets it.                                        *)
(****************************************************************************)
EXTENDS Naturals

CONSTANTS Value, Subscriber, None

ASSUME StreamAssumption == None \notin Value

VARIABLES
  value,      \* what func(obj) returns
  item,       \* the publisher: what it has read and not yet sent, or None
  published,  \* the publisher's filter_same: the last item that passed
  slot,       \* the one place of the broadcast channel
  phase,      \* where server_info_stream or the stream it returned is
  unread,     \* items sent since a receiver's position, 2 standing for more
  snapshot,   \* the value with which the stream starts
  shown,      \* the last value the stream has yielded (its filter_same)
  news        \* history: whether an item was sent after the snapshot

publisherVars == <<item, published, slot>>
subscriberVars == <<phase, snapshot, shown>>
streamVars == <<item, published, slot, phase, unread, snapshot, shown, news>>
vars == <<value, streamVars>>

Receiving == {"Subscribed", "Chained", "Streaming"}

StreamTypeOK ==
  /\ value \in Value
  /\ {item, published, slot} \subseteq Value \cup {None}
  /\ phase \in [Subscriber -> Receiving \cup {"Off", "Ended"}]
  /\ unread \in [Subscriber -> 0 .. 2]
  /\ snapshot \in [Subscriber -> Value \cup {None}]
  /\ shown \in [Subscriber -> Value \cup {None}]
  /\ news \in [Subscriber -> BOOLEAN]
  /\ \A c \in Subscriber :
       /\ snapshot[c] # None <=> phase[c] = "Chained"
       /\ shown[c] # None <=> phase[c] \in {"Streaming", "Ended"}

StreamInit ==
  /\ item = None /\ published = None /\ slot = None
  /\ phase = [c \in Subscriber |-> "Off"]
  /\ unread = [c \in Subscriber |-> 0]
  /\ snapshot = [c \in Subscriber |-> None]
  /\ shown = [c \in Subscriber |-> None]
  /\ news = [c \in Subscriber |-> FALSE]

----------------------------------------------------------------------------
(* The publisher. *)

(* Fault: the filter keeps its first item. *)
Tick_Sticky ==
  /\ item = None
  /\ IF published = value
       THEN UNCHANGED <<item, published>>
       ELSE item' = value /\ published' = IF published = None THEN value ELSE published
  /\ UNCHANGED <<slot, unread, news, subscriberVars>>

(* A second has passed: func is called, filter_same lets its result through
   or not. *)
Tick ==
  /\ item = None
  /\ IF published = value
       THEN UNCHANGED <<item, published>>
       ELSE item' = value /\ published' = value
  /\ UNCHANGED <<slot, unread, news, subscriberVars>>

(* tx.send: overwrites what is in the channel. *)
Send ==
  /\ item # None
  /\ slot' = item
  /\ item' = None
  /\ unread' = [c \in Subscriber |->
       IF phase[c] \in Receiving /\ unread[c] < 2 THEN unread[c] + 1 ELSE unread[c]]
  /\ news' = [c \in Subscriber |-> news[c] \/ phase[c] \in {"Chained", "Streaming"}]
  /\ UNCHANGED <<published, subscriberVars>>

----------------------------------------------------------------------------
(* A subscriber. *)

(* info_sender.subscribe(): only what is sent from now on is received. *)
Subscribe(c) ==
  /\ phase[c] = "Off"
  /\ phase' = [phase EXCEPT ![c] = "Subscribed"]
  /\ unread' = [unread EXCEPT ![c] = 0]
  /\ UNCHANGED <<publisherVars, snapshot, shown, news>>

(* server_info(), chained before the received items *)
Snapshot(c) ==
  /\ phase[c] = "Subscribed"
  /\ phase' = [phase EXCEPT ![c] = "Chained"]
  /\ snapshot' = [snapshot EXCEPT ![c] = value]
  /\ UNCHANGED <<publisherVars, unread, shown, news>>

(* Fault: the receiver is only created when the snapshot has been yielded. *)
YieldSnapshot_LateSubscribe(c) ==
  /\ phase[c] = "Chained"
  /\ phase' = [phase EXCEPT ![c] = "Streaming"]
  /\ shown' = [shown EXCEPT ![c] = snapshot[c]]
  /\ snapshot' = [snapshot EXCEPT ![c] = None]
  /\ unread' = [unread EXCEPT ![c] = 0]
  /\ UNCHANGED <<publisherVars, news>>

(* The stream is polled for the first time. *)
YieldSnapshot(c) ==
  /\ phase[c] = "Chained"
  /\ phase' = [phase EXCEPT ![c] = "Streaming"]
  /\ shown' = [shown EXCEPT ![c] = snapshot[c]]
  /\ snapshot' = [snapshot EXCEPT ![c] = None]
  /\ UNCHANGED <<publisherVars, unread, news>>

(* It is polled again: the item in the channel; filter_same swallows it when it
   is the one shown. *)
Receive(c) ==
  /\ phase[c] = "Streaming"
  /\ unread[c] = 1
  /\ unread' = [unread EXCEPT ![c] = 0]
  /\ shown' = [shown EXCEPT ![c] = slot]
  /\ UNCHANGED <<publisherVars, phase, snapshot, news>>

(* Lagged is an error, and take_while ends the stream there. *)
EndLagged(c) ==
  /\ phase[c] = "Streaming"
  /\ unread[c] = 2
  /\ phase' = [phase EXCEPT ![c] = "Ended"]
  /\ UNCHANGED <<publisherVars, unread, snapshot, shown, news>>

(* The client unsubscribes, or subscribes again after the end. *)
Drop(c) ==
  /\ phase[c] \in {"Chained", "Streaming", "Ended"}
  /\ phase' = [phase EXCEPT ![c] = "Off"]
  /\ unread' = [unread EXCEPT ![c] = 0]
  /\ snapshot' = [snapshot EXCEPT ![c] = None]
  /\ shown' = [shown EXCEPT ![c] = None]
  /\ news' = [news EXCEPT ![c] = FALSE]
  /\ UNCHANGED publisherVars

Poll(c) == YieldSnapshot(c) \/ Receive(c) \/ EndLagged(c)

SubscriberStep(c) == Subscribe(c) \/ Snapshot(c) \/ Poll(c) \/ Drop(c)

----------------------------------------------------------------------------
(* A value that changes by itself. *)

Init == value \in Value /\ StreamInit

Change ==
  /\ value' \in Value \ {value}
  /\ UNCHANGED streamVars

Next ==
  \/ (Tick \/ Send) /\ UNCHANGED value
  \/ (\E c \in Subscriber : SubscriberStep(c)) /\ UNCHANGED value
  \/ Change

Spec == Init /\ [][Next]_vars

----------------------------------------------------------------------------
(* A subscriber that has read everything shows what was published last, if that
   was after its snapshot: nothing is lost between snapshot and stream, which
   is why it subscribes first. *)
NothingMissed ==
  \A c \in Subscriber :
    phase[c] = "Streaming" /\ unread[c] = 0 /\ news[c] => shown[c] = slot

(* When the value has settled, every subscriber whose stream goes on, and to
   whom anything was published since its snapshot, comes to show it for good. *)
FollowsPublisher ==
  <>[][FALSE]_value =>
    \A c \in Subscriber : <>[](phase[c] = "Streaming" /\ news[c] => shown[c] = value)
=============================================================================

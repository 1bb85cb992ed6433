----------------------------- MODULE ServerInfo -----------------------------
(****************************************************************************)
(* The server info that the API reports and streams: PeerManager::server_   *)
(* info counts the registered clients and the idle ones under its lock      *)
(* (peer_manager.rs, server.rs), clients come, go and fall idle as module   *)
(* PeerTimers has it, and spawn_stream publishes the counts to subscribers  *)
(* as module InfoStream has it.  Nothing tells the publisher of a change:   *)
(* it looks once a second.                                                  *)
(****************************************************************************)
EXTENDS PeerTimers

CONSTANTS Subscriber, None

VARIABLES item, published, slot, phase, unread, snapshot, shown, news

streamVars == <<item, published, slot, phase, unread, snapshot, shown, news>>
allVars == <<vars, streamVars>>

Counts == [online : 0 .. Cardinality(Addr), idle : 0 .. Cardinality(Addr)]

(* A registry can be counted. *)
ASSUME InfoAssumption == IsFiniteSet(Addr) /\ None \notin Counts

server_info ==
  [online |-> Cardinality(Cached), idle |-> Cardinality({a \in Cached : IsIdle(a)})]

Stream == INSTANCE InfoStream WITH value <- server_info, Value <- Counts

ServerInfoTypeOK == TimersTypeOK /\ Stream!StreamTypeOK

InfoInit == Init /\ Stream!StreamInit

(* A client comes, goes or falls idle. *)
PeerStep == Next /\ UNCHANGED streamVars

(* A second has passed, or the item is sent. *)
Publish == (Stream!Tick \/ Stream!Send) /\ UNCHANGED vars

Subscription(c) == Stream!SubscriberStep(c) /\ UNCHANGED vars

InfoNext == PeerStep \/ Publish \/ \E c \in Subscriber : Subscription(c)

(* The interval ticks and a subscriber's connection polls its stream; nobody
   has to subscribe and no client has to do anything. *)
InfoSpec ==
  /\ InfoInit /\ [][InfoNext]_allVars
  /\ WF_allVars(Publish)
  /\ \A c \in Subscriber :
       WF_allVars((Stream!Snapshot(c) \/ Stream!Poll(c)) /\ UNCHANGED vars)

----------------------------------------------------------------------------
(* When clients neither come nor go nor fall idle any more, every subscriber
   whose stream goes on and got anything comes to show their counts for good. *)
FollowsPublisher == Stream!FollowsPublisher
=============================================================================

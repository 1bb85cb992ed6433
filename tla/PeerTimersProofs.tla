--------------------------- MODULE PeerTimersProofs ---------------------------
(* When a client counts as idle, for any number of clients and all timeouts; and
   that the clients and the stream of their counts are composed as their modules
   have them: neither does to the other what the other does not allow. *)
EXTENDS ServerInfo, FiniteSetTheorems, TLAPS

(* Of what a peer's state and its timer say, per address.  The age of a
   Connected is how long the client has been quiet, until the age reaches
   IdleTimeout; and from the last packet on (timer) a client that was not idle
   then is less than IdleTimeout further. *)
PeerTypeOK(a) ==
  /\ cache[a] = NoPeer \/ IsIdle(a) \/ \E n \in 0 .. IdleTimeout : cache[a] = Connected(n)
  /\ timer[a] \in 0 .. RecvTimeout
  /\ quiet[a] \in 0 .. LongQuiet

AgeIsQuiet(a) ==
  a \in Cached =>
    IF cache[a].state = "Idle" \/ cache[a].age = IdleTimeout
      THEN quiet[a] >= IdleTimeout ELSE quiet[a] = cache[a].age

NotLongQuiet(a) ==
  a \in Cached /\ cache[a].state = "Connected" => quiet[a] < IdleTimeout + timer[a]

PeerInv(a) == PeerTypeOK(a) /\ AgeIsQuiet(a) /\ NotLongQuiet(a)

MapsTypeOK ==
  /\ DOMAIN cache = Addr /\ DOMAIN task = Addr
  /\ DOMAIN timer = Addr /\ DOMAIN quiet = Addr

TimersInv == MapsTypeOK /\ \A a \in Addr : PeerInv(a)

(* The timeouts are numbers, and "no peer" is no state of a peer. *)
LEMMA Timeouts ==
  /\ IdleTimeout \in Nat \ {0} /\ RecvTimeout \in Nat \ {0}
  /\ \A n \in Nat : NoPeer # Connected(n)
  /\ NoPeer # Idle
  BY TimersAssumption DEF Connected, Idle

(* The invariant of an address depends on its own entries only. *)
LEMMA OthersKeep ==
  ASSUME NEW b \in Addr, PeerInv(b), cache'[b] = cache[b], timer'[b] = timer[b],
         quiet'[b] = quiet[b]
  PROVE  PeerInv(b)'
  BY DEF PeerInv, PeerTypeOK, AgeIsQuiet, NotLongQuiet, IsIdle, Cached

(* The state of a registered peer, taken apart. *)
LEMMA StateCases ==
  ASSUME NEW a \in Cached, PeerTypeOK(a)
  PROVE  \/ IsIdle(a) /\ cache[a].state = "Idle"
         \/ cache[a].state = "Connected" /\ cache[a].age \in 0 .. IdleTimeout
<1>1. CASE IsIdle(a)
  BY <1>1 DEF IsIdle, Idle
<1>2. CASE ~IsIdle(a)
  <2>1. PICK n \in 0 .. IdleTimeout : cache[a] = Connected(n)
    BY <1>2 DEF PeerTypeOK, Cached
  <2> QED
    BY <2>1 DEF Connected
<1> QED
  BY <1>1, <1>2

(* A packet keeps the invariant: it leaves Idle for Connected(now), leaves the
   state alone, or finds the last LAN packet IdleTimeout old. *)
LEMMA PacketKeeps ==
  ASSUME TimersInv, NEW a \in Addr, NEW lan \in BOOLEAN, Packet(a, lan)
  PROVE  TimersInv'
<1> DEFINE new == a \notin Cached
<1> DEFINE old == IF new THEN Connected(0) ELSE cache[a]
<1>1. MapsTypeOK'
  BY DEF TimersInv, MapsTypeOK, Packet
<1>2. \A b \in Addr \ {a} : PeerInv(b)'
  BY OthersKeep DEF TimersInv, MapsTypeOK, Packet
<1>3. /\ cache'[a] = NextState(old, lan)
      /\ quiet'[a] = IF new \/ lan THEN 0 ELSE quiet[a]
      /\ timer'[a] \in {0, timer[a]}
  BY DEF Packet, TimersInv, MapsTypeOK
<1>4. PeerInv(a) /\ timer'[a] \in 0 .. RecvTimeout
  BY <1>3, Timeouts DEF TimersInv, PeerInv, PeerTypeOK
<1>5. CASE lan \/ new
  <2>1. cache'[a] = Connected(0) /\ quiet'[a] = 0
    BY <1>3, <1>5, Timeouts DEF NextState, Connected
  <2> QED
    BY <1>1, <1>2, <1>4, <2>1, Timeouts
       DEF TimersInv, PeerInv, PeerTypeOK, AgeIsQuiet, NotLongQuiet, LongQuiet, Connected, Idle
<1>6. CASE ~lan /\ ~new /\ cache[a].state = "Connected" /\ cache[a].age < IdleTimeout
  <2>1. cache'[a] = cache[a] /\ quiet'[a] = quiet[a]
    BY <1>3, <1>6 DEF NextState
  <2>2. quiet[a] < IdleTimeout
    BY <1>4, <1>6, Timeouts DEF PeerInv, PeerTypeOK, AgeIsQuiet, IsIdle, Connected, Idle
  <2>3. PeerTypeOK(a)' /\ AgeIsQuiet(a)'
    BY <1>4, <2>1 DEF PeerInv, PeerTypeOK, AgeIsQuiet, IsIdle, Cached
  <2>4. NotLongQuiet(a)'
    BY <1>4, <2>1, <2>2, Timeouts DEF NotLongQuiet, PeerInv, PeerTypeOK, LongQuiet
  <2> QED
    BY <1>1, <1>2, <2>3, <2>4 DEF TimersInv, PeerInv
<1>7. CASE ~lan /\ ~new /\ ~(cache[a].state = "Connected" /\ cache[a].age < IdleTimeout)
  <2>1. cache'[a] = Idle /\ quiet'[a] = quiet[a]
    BY <1>3, <1>7 DEF NextState
  <2>2. quiet[a] >= IdleTimeout
    <3>1. PeerTypeOK(a) /\ AgeIsQuiet(a) /\ a \in Cached
      BY <1>4, <1>7 DEF PeerInv
    <3>2. cache[a].state = "Idle" \/ cache[a].age = IdleTimeout
      BY <1>7, <3>1, StateCases, Timeouts
    <3> QED
      BY <3>1, <3>2 DEF AgeIsQuiet
  <2> QED
    BY <1>1, <1>2, <1>4, <2>1, <2>2, Timeouts
       DEF TimersInv, PeerInv, PeerTypeOK, AgeIsQuiet, NotLongQuiet, LongQuiet, IsIdle, Idle
<1> QED
  BY <1>5, <1>6, <1>7

(* Time keeps it: age, timer and quiet grow together, and no timer is due. *)
LEMMA TickKeeps ==
  ASSUME TimersInv, Tick
  PROVE  TimersInv'
<1>1. MapsTypeOK'
  BY DEF Tick, MapsTypeOK, TimersInv
<1>2. ASSUME NEW a \in Addr, a \notin Cached PROVE PeerInv(a)'
  BY <1>2, OthersKeep DEF Tick, TimersInv
<1>3. ASSUME NEW a \in Addr, a \in Cached PROVE PeerInv(a)'
  <2>1. /\ cache'[a] = IF IsIdle(a) THEN cache[a]
                       ELSE Connected(Older(cache[a].age, IdleTimeout))
        /\ timer'[a] = timer[a] + 1 /\ timer[a] < RecvTimeout
        /\ quiet'[a] = Older(quiet[a], LongQuiet)
    BY <1>3 DEF Tick
  <2>2. PeerInv(a)
    BY DEF TimersInv
  <2>3. CASE IsIdle(a)
    BY <1>3, <2>1, <2>2, <2>3, Timeouts
       DEF PeerInv, PeerTypeOK, AgeIsQuiet, NotLongQuiet, LongQuiet, IsIdle, Idle, Older
  <2>4. CASE ~IsIdle(a)
    <3>1. PICK n \in 0 .. IdleTimeout : cache[a] = Connected(n)
      BY <1>3, <2>2, <2>4 DEF PeerInv, PeerTypeOK, Cached
    <3>2. cache'[a] = Connected(Older(n, IdleTimeout))
      BY <2>1, <2>4, <3>1 DEF Connected
    <3>3. Older(n, IdleTimeout) \in 0 .. IdleTimeout
      BY Timeouts DEF Older
    <3>4. quiet[a] < IdleTimeout + timer[a]
          /\ (IF n = IdleTimeout THEN quiet[a] >= IdleTimeout ELSE quiet[a] = n)
      BY <1>3, <2>2, <3>1 DEF PeerInv, AgeIsQuiet, NotLongQuiet, Connected
    <3>5. PeerTypeOK(a)'
      BY <2>1, <2>2, <3>2, <3>3, Timeouts DEF PeerInv, PeerTypeOK, LongQuiet, Older
    <3>6. AgeIsQuiet(a)'
      BY <2>1, <2>2, <3>2, <3>4, Timeouts
         DEF PeerInv, PeerTypeOK, AgeIsQuiet, LongQuiet, Older, Connected
    <3>7. NotLongQuiet(a)'
      BY <2>1, <2>2, <3>4, Timeouts DEF PeerInv, PeerTypeOK, NotLongQuiet, LongQuiet, Older
    <3> QED
      BY <3>5, <3>6, <3>7 DEF PeerInv
  <2> QED
    BY <2>3, <2>4
<1> QED
  BY <1>1, <1>2, <1>3 DEF TimersInv

(* A removal keeps it: nothing is said of an address that is not cached. *)
LEMMA CloseKeeps ==
  ASSUME TimersInv, NEW a \in Addr, Close(a)
  PROVE  TimersInv'
<1>1. MapsTypeOK'
  BY DEF Close, MapsTypeOK, TimersInv
<1>2. \A b \in Addr \ {a} : PeerInv(b)'
  BY OthersKeep DEF TimersInv, MapsTypeOK, Close
<1>3. cache'[a] = NoPeer /\ timer'[a] = 0 /\ quiet'[a] = 0
  BY DEF Close, TimersInv, MapsTypeOK
<1>4. PeerInv(a)'
  BY <1>3, Timeouts DEF PeerInv, PeerTypeOK, AgeIsQuiet, NotLongQuiet, LongQuiet, Cached
<1> QED
  BY <1>1, <1>2, <1>4 DEF TimersInv

(* So does every step; the remaining ones leave cache and times alone. *)
LEMMA NextTimersInv ==
  ASSUME TimersInv, [Next]_vars
  PROVE  TimersInv'
<1>1. ASSUME NEW a \in Addr, Timeout(a) PROVE UNCHANGED <<cache, timer, quiet>>
  BY <1>1 DEF Timeout
<1>2. UNCHANGED vars => UNCHANGED <<cache, task, timer, quiet>>
  BY DEF vars
<1>3. \A a \in Addr : Timeout(a) => DOMAIN task' = DOMAIN task
  BY DEF Timeout
<1>4. ASSUME UNCHANGED <<cache, timer, quiet>>, DOMAIN task' = DOMAIN task
      PROVE  TimersInv'
  BY <1>4, OthersKeep DEF TimersInv, MapsTypeOK
<1> QED
  BY <1>1, <1>2, <1>3, <1>4, PacketKeeps, CloseKeeps, TickKeeps DEF Next

(* No address is cached in the beginning. *)
LEMMA InitTimersInv == Init => TimersInv
  BY Timeouts DEF Init, TimersInv, MapsTypeOK, PeerInv, PeerTypeOK, AgeIsQuiet,
     NotLongQuiet, LongQuiet, Cached

(* A client counted as idle by server_info has sent no LAN packet for
   IdleTimeout (peer.rs, on_packet). *)
THEOREM IdleIsQuietHolds == Spec => []IdleIsQuiet
<1>1. TimersInv => IdleIsQuiet
  BY DEF TimersInv, PeerInv, AgeIsQuiet, IdleIsQuiet, IsIdle, Idle, Cached
<1> QED
  BY <1>1, InitTimersInv, NextTimersInv, PTL DEF Spec

(* A client without LAN packets counts as idle at the latest RecvTimeout after
   IdleTimeout, if it is still there (peer.rs, on_packet and the timeout of
   do_packet). *)
THEOREM QuietIsIdleHolds == Spec => []QuietIsIdle
<1>1. TimersInv => QuietIsIdle
  <2> SUFFICES ASSUME TimersInv, NEW a \in Cached, quiet[a] >= LongQuiet, ~IsIdle(a)
               PROVE  FALSE
    BY DEF QuietIsIdle
  <2>1. a \in Addr
    BY DEF Cached
  <2>2. PeerInv(a)
    BY <2>1 DEF TimersInv
  <2>3. cache[a].state = "Connected"
    BY <2>2, StateCases DEF PeerInv
  <2> QED
    BY <2>2, <2>3, Timeouts DEF PeerInv, PeerTypeOK, NotLongQuiet, LongQuiet
<1> QED
  BY <1>1, InitTimersInv, NextTimersInv, PTL DEF Spec

(* Publishing and subscribing leave the clients alone: what holds for these
   holds with subscribers. *)
THEOREM InfoImplementsTimers == InfoSpec => Spec
<1>1. [InfoNext]_allVars => [Next]_vars
  BY DEF InfoNext, PeerStep, Publish, Subscription, allVars
<1> QED
  BY <1>1, PTL DEF InfoSpec, InfoInit, Spec

(* What the publisher reads is a pair of counts. *)
LEMMA NumbersOfClients ==
  ASSUME NEW online \in SUBSET Addr, NEW idle \in SUBSET Addr
  PROVE  [online |-> Cardinality(online), idle |-> Cardinality(idle)] \in Counts
<1>1. \A T \in SUBSET Addr : Cardinality(T) \in 0 .. Cardinality(Addr)
  <2> SUFFICES ASSUME NEW T \in SUBSET Addr
               PROVE  Cardinality(T) \in 0 .. Cardinality(Addr)
    OBVIOUS
  <2>1. IsFiniteSet(T) /\ Cardinality(T) <= Cardinality(Addr)
    BY InfoAssumption, FS_Subset
  <2> QED
    BY <2>1, InfoAssumption, FS_CardinalityType
<1> QED
  BY <1>1 DEF Counts

LEMMA InfoIsCounts == server_info \in Counts /\ server_info' \in Counts
<1>1. /\ Cached \in SUBSET Addr /\ Cached' \in SUBSET Addr
      /\ {a \in Cached : IsIdle(a)} \in SUBSET Addr
      /\ {a \in Cached : IsIdle(a)}' \in SUBSET Addr
  BY DEF Cached
<1> QED
  BY <1>1, NumbersOfClients DEF server_info

(* The clients change the counts and nothing of the stream; the rest is the
   stream's, with the counts as they are (server.rs, server_info_stream, and
   stream.rs). *)
THEOREM InfoImplementsStream == InfoSpec => Stream!Spec
<1>1. InfoInit => Stream!Init
  BY InfoIsCounts DEF InfoInit, Stream!Init
<1>2. [InfoNext]_allVars => [Stream!Next]_(Stream!vars)
  <2>1. server_info' \in Counts
    BY InfoIsCounts
  <2>2. CASE PeerStep
    BY <2>1, <2>2
       DEF PeerStep, streamVars, Stream!Next, Stream!Change, Stream!streamVars, Stream!vars
  <2>3. ASSUME UNCHANGED vars PROVE server_info' = server_info
    BY <2>3 DEF vars, server_info, Cached, IsIdle
  <2>4. CASE Publish
    BY <2>3, <2>4 DEF Publish, Stream!Next
  <2>5. ASSUME NEW c \in Subscriber, Subscription(c) PROVE Stream!Next
    BY <2>3, <2>5 DEF Subscription, Stream!Next
  <2>6. CASE UNCHANGED allVars
    BY <2>3, <2>6 DEF allVars, streamVars, Stream!vars, Stream!streamVars
  <2> QED
    BY <2>2, <2>4, <2>5, <2>6 DEF InfoNext
<1> QED
  BY <1>1, <1>2, PTL DEF InfoSpec, Stream!Spec

----------------------------------------------------------------------------
(* A client is registered as long as it has a task. *)
TaskOK ==
  /\ task \in [Addr -> {"None", "Receiving", "Closing"}]
  /\ \A a \in Addr : task[a] = "None" <=> cache[a] = NoPeer

(* Every address has its entries, and nothing else has any. *)
AreMaps ==
  /\ cache = [a \in Addr |-> cache[a]] /\ timer = [a \in Addr |-> timer[a]]
  /\ quiet = [a \in Addr |-> quiet[a]]

(* Entries are changed or computed anew, never added. *)
LEMMA AreMapsStep ==
  ASSUME AreMaps, [Next]_vars
  PROVE  AreMaps'
<1>1. ASSUME NEW a \in Addr, NEW lan \in BOOLEAN, Packet(a, lan) PROVE AreMaps'
  BY <1>1 DEF Packet, AreMaps
<1>2. ASSUME NEW a \in Addr, Timeout(a) \/ Close(a) PROVE AreMaps'
  BY <1>2 DEF Timeout, Close, AreMaps
<1>3. Tick \/ UNCHANGED vars => AreMaps'
  BY DEF Tick, vars, AreMaps
<1> QED
  BY <1>1, <1>2, <1>3 DEF Next

(* A task and a registration begin with the same packet and end with the same
   Close; no packet, and no lapse of time, ends a registration. *)
LEMMA TaskStep ==
  ASSUME TimersInv, TaskOK, [Next]_vars
  PROVE  TaskOK'
<1> USE DEF TaskOK, TimersInv, MapsTypeOK
<1>1. ASSUME NEW a \in Addr, NEW lan \in BOOLEAN, Packet(a, lan) PROVE TaskOK'
  <2>1. /\ task' = [task EXCEPT ![a] = IF a \notin Cached THEN "Receiving" ELSE @]
        /\ \A b \in Addr \ {a} : cache'[b] = cache[b]
        /\ cache'[a] = NextState(IF a \notin Cached THEN Connected(0) ELSE cache[a], lan)
    BY <1>1 DEF Packet
  <2>2. ASSUME NEW s, s # NoPeer PROVE NextState(s, lan) # NoPeer
    BY <2>2, Timeouts DEF NextState
  <2>3. cache'[a] # NoPeer
    BY <2>1, <2>2, Timeouts DEF Cached
  <2> QED
    BY <2>1, <2>3 DEF Cached
<1>2. ASSUME NEW a \in Addr, Timeout(a) PROVE TaskOK'
  BY <1>2 DEF Timeout
<1>3. ASSUME NEW a \in Addr, Close(a) PROVE TaskOK'
  BY <1>3 DEF Close
<1>4. CASE Tick
  <2>1. \A a \in Addr : cache'[a] = IF a \in Cached /\ ~IsIdle(a)
           THEN Connected(Older(cache[a].age, IdleTimeout)) ELSE cache[a]
    BY <1>4 DEF Tick
  <2>2. ASSUME NEW a \in Addr, a \in Cached, ~IsIdle(a) PROVE cache'[a] # NoPeer
    <3>1. PICK n \in 0 .. IdleTimeout : cache[a] = Connected(n)
      BY <2>2 DEF PeerInv, PeerTypeOK, Cached
    <3>2. Older(n, IdleTimeout) \in Nat /\ cache[a].age = n
      BY <3>1, Timeouts DEF Older, Connected
    <3> QED
      BY <2>1, <2>2, <3>2, Timeouts
  <2> QED
    BY <1>4, <2>1, <2>2 DEF Tick, Cached
<1>5. CASE UNCHANGED vars
  BY <1>5 DEF vars
<1> QED
  BY <1>1, <1>2, <1>3, <1>4, <1>5 DEF Next

(* Types, put together from what is known per address. *)
LEMMA TimersTypes ==
  ASSUME TimersInv, TaskOK, AreMaps
  PROVE  TimersTypeOK
<1>1. \A a \in Addr :
        /\ cache[a] \in {NoPeer, Idle} \cup {Connected(n) : n \in 0 .. IdleTimeout}
        /\ timer[a] \in 0 .. RecvTimeout /\ quiet[a] \in 0 .. LongQuiet
  BY DEF TimersInv, PeerInv, PeerTypeOK, IsIdle
<1>2. cache \in [Addr -> {NoPeer, Idle} \cup {Connected(n) : n \in 0 .. IdleTimeout}]
  BY <1>1 DEF AreMaps
<1>3. timer \in [Addr -> 0 .. RecvTimeout] /\ quiet \in [Addr -> 0 .. LongQuiet]
  BY <1>1 DEF AreMaps
<1> QED
  BY <1>2, <1>3 DEF TaskOK, TimersTypeOK

----------------------------------------------------------------------------
(* What is unread has been sent, so that there is something to receive. *)
StreamTypes ==
  /\ Stream!StreamTypeOK
  /\ \A c \in Subscriber : unread[c] > 0 => slot # None

(* The publisher reads counts and sends what it has read. *)
LEMMA PublishTypes ==
  ASSUME StreamTypes, Publish
  PROVE  StreamTypes'
<1> USE DEF StreamTypes, Stream!StreamTypeOK
<1>1. server_info \in Counts /\ server_info' \in Counts
  BY InfoIsCounts
<1>2. CASE Stream!Tick
  BY <1>1, <1>2 DEF Stream!Tick, Stream!subscriberVars
<1>3. CASE Stream!Send
  <2>1. /\ slot' = item /\ item # None /\ item' = None
        /\ UNCHANGED <<published, phase, snapshot, shown>>
    BY <1>3 DEF Stream!Send, Stream!subscriberVars
  <2>2. unread' \in [Subscriber -> 0 .. 2] /\ news' \in [Subscriber -> BOOLEAN]
    BY <1>3 DEF Stream!Send
  <2> QED
    BY <1>1, <2>1, <2>2
<1> QED
  BY <1>2, <1>3 DEF Publish

(* A subscriber's stream starts with counts, and goes on with what was sent. *)
LEMMA SubscriptionTypes ==
  ASSUME StreamTypes, NEW c \in Subscriber, Subscription(c)
  PROVE  StreamTypes'
<1> USE DEF StreamTypes, Stream!StreamTypeOK, Stream!Receiving, Stream!publisherVars
<1>1. server_info \in Counts /\ server_info' \in Counts /\ None \notin Counts
  BY InfoIsCounts, InfoAssumption
<1>2. CASE Stream!Subscribe(c)
  BY <1>1, <1>2 DEF Stream!Subscribe
<1>3. CASE Stream!Snapshot(c)
  BY <1>1, <1>3 DEF Stream!Snapshot
<1>4. CASE Stream!YieldSnapshot(c)
  BY <1>1, <1>4 DEF Stream!YieldSnapshot
<1>5. CASE Stream!Receive(c)
  BY <1>1, <1>5 DEF Stream!Receive
<1>6. CASE Stream!EndLagged(c)
  BY <1>1, <1>6 DEF Stream!EndLagged
<1>7. CASE Stream!Drop(c)
  BY <1>1, <1>7 DEF Stream!Drop
<1> QED
  BY <1>2, <1>3, <1>4, <1>5, <1>6, <1>7 DEF Subscription, Stream!SubscriberStep, Stream!Poll

(* Types of registry, timers and stream, for any number of clients and
   subscribers (peer.rs, peer_manager.rs, stream.rs, server_info_stream). *)
THEOREM ServerInfoTypeHolds == InfoSpec => []ServerInfoTypeOK
<1> DEFINE Types == TimersInv /\ TaskOK /\ AreMaps /\ StreamTypes
<1>1. InfoInit => Types
  <2>1. Init => TaskOK /\ AreMaps
    BY DEF Init, TaskOK, AreMaps
  <2>2. Stream!StreamInit => StreamTypes
    BY InfoIsCounts DEF Stream!StreamInit, StreamTypes, Stream!StreamTypeOK, Stream!Receiving
  <2> QED
    BY <2>1, <2>2, InitTimersInv DEF InfoInit
<1>2. Types /\ [InfoNext]_allVars => Types'
  <2> SUFFICES ASSUME Types, [InfoNext]_allVars PROVE Types'
    OBVIOUS
  <2>1. [Next]_vars
    BY DEF InfoNext, PeerStep, Publish, Subscription, allVars
  <2>2. (TimersInv /\ TaskOK /\ AreMaps)'
    BY <2>1, NextTimersInv, TaskStep, AreMapsStep
  <2>3. ASSUME UNCHANGED streamVars PROVE StreamTypes'
    BY <2>3, InfoIsCounts
       DEF streamVars, StreamTypes, Stream!StreamTypeOK
  <2>4. StreamTypes'
    BY <2>3, PublishTypes, SubscriptionTypes DEF InfoNext, PeerStep, allVars
  <2> QED
    BY <2>2, <2>4
<1>3. Types => ServerInfoTypeOK
  BY TimersTypes DEF ServerInfoTypeOK, StreamTypes
<1> QED
  BY <1>1, <1>2, <1>3, PTL DEF InfoSpec
=============================================================================

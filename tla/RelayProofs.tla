----------------------------- MODULE RelayProofs -----------------------------
(* Proofs about Relay, for every set of addresses, tasks, slots and datagrams
   and every capacity: IInv is inductive, and what follows from it. *)
EXTENDS Relay, SequenceTheorems, FiniteSetTheorems, TLAPS

(* What the steps of event_task and of the peer tasks read in an event. *)
LEMMA EventFields ==
  /\ \A e \in Event : /\ e.addr \in Addr
                      /\ e.type \in {"SendLAN", "Close"}
                      /\ e.type = "SendLAN" => e.packet \in Datagram
                      /\ e.type = "Close" => e = Close(e.addr)
  /\ \A a \in Addr : /\ Close(a) \in Event
                     /\ Close(a).type = "Close"
                     /\ Close(a).addr = a
  /\ \A a \in Addr, d \in Datagram : /\ SendLAN(a, d) \in Event
                                     /\ SendLAN(a, d).type = "SendLAN"
                                     /\ SendLAN(a, d).addr = a
  BY DEF Event, SendLAN, Close

(* What peer_mut and remove read in a cache entry. *)
LEMMA PeerFields ==
  /\ Absent \notin Peer
  /\ \A p \in Peer : p.peer \in Task /\ p.state \in PeerState
  /\ \A t \in Task, st \in PeerState :
       LET p == [peer |-> t, state |-> st]
       IN  p \in Peer /\ p.peer = t /\ p.state = st
  BY RelayAssumption DEF Peer, PeerState

(* What the handlers of event_task read in their state. *)
LEMMA JobFields ==
  /\ Free \notin Job
  /\ \A j \in Job : j.todo \in SUBSET Addr
  /\ \A T \in SUBSET Addr : /\ [phase |-> "plugins", todo |-> T] \in Job
                            /\ [phase |-> "send", todo |-> T] \in Job
  BY RelayAssumption DEF Job

(* UDPServer::new starts with empty tables and channels. *)
LEMMA TypeInit == Init => TypeOK
  <1> SUFFICES ASSUME Init PROVE TypeOK
    OBVIOUS
  <1>1. \A t \in Task : chan[t] \in Seq(Datagram) /\ Len(chan[t]) <= PeerCap
    BY RelayAssumption, EmptySeq DEF Init
  <1>2. events \in Seq(Event) /\ Len(events) <= EventCap
    BY RelayAssumption, EmptySeq DEF Init
  <1>3. QED
    BY <1>1, <1>2 DEF Init, TypeOK

(* ... and in that state the invariant holds. *)
THEOREM InitIInv == Init => IInv
  <1> SUFFICES ASSUME Init PROVE IInv
    OBVIOUS
  <1>1. TypeOK
    BY TypeInit
  <1>2. DOMAIN events = {}
    BY DEF Init
  <1>3. Cached = {}
    BY DEF Init, Cached
  <1>4. TaskLocals /\ RecvLocals
    BY RelayAssumption DEF Init, TaskLocals, RecvLocals
  <1>5. Lifecycle
    BY <1>2, <1>3 DEF Init, Lifecycle, TaskIsCached, SenderIsCached, OwnTask,
                      DeadHasClose, CloseIsLast
  <1>6. QED
    BY <1>1, <1>4, <1>5 DEF IInv

----------------------------------------------------------------------------
(* send puts an element behind the others. *)
LEMMA AppendElements ==
  ASSUME NEW S, NEW q \in Seq(S), NEW e \in S
  PROVE  /\ Append(q, e) \in Seq(S)
         /\ Len(Append(q, e)) = Len(q) + 1
         /\ Len(q) \in Nat
         /\ DOMAIN q = 1 .. Len(q)
         /\ DOMAIN Append(q, e) = 1 .. (Len(q) + 1)
         /\ \A i \in DOMAIN q : Append(q, e)[i] = q[i]
         /\ Append(q, e)[Len(q) + 1] = e
  BY AppendProperties, LenProperties

(* recv takes the first element and moves the others up. *)
LEMMA TailElements ==
  ASSUME NEW S, NEW q \in Seq(S), q # <<>>
  PROVE  /\ Head(q) \in S
         /\ Head(q) = q[1]
         /\ Tail(q) \in Seq(S)
         /\ Len(q) \in Nat \ {0}
         /\ Len(Tail(q)) = Len(q) - 1
         /\ DOMAIN q = 1 .. Len(q)
         /\ DOMAIN Tail(q) = 1 .. (Len(q) - 1)
         /\ \A i \in DOMAIN Tail(q) : Tail(q)[i] = q[i + 1]
  <1>1. /\ Head(q) \in S
        /\ Tail(q) \in Seq(S)
        /\ Len(Tail(q)) = Len(q) - 1
        /\ \A i \in 1 .. Len(Tail(q)) : Tail(q)[i] = q[i + 1]
    BY HeadTailProperties
  <1>2. Len(q) \in Nat \ {0}
    BY EmptySeq
  <1>3. DOMAIN q = 1 .. Len(q) /\ DOMAIN Tail(q) = 1 .. Len(Tail(q))
    BY <1>1, LenProperties
  <1>4. Head(q) = q[1]
    OBVIOUS
  <1>5. QED
    BY <1>1, <1>2, <1>3, <1>4

----------------------------------------------------------------------------
(* Most steps leave alone what Lifecycle speaks of: who is cached with which
   task, which tasks are over, whom they serve, and the events. *)
LEMMA LifecycleFrame ==
  ASSUME TypeOK, Lifecycle,
         Cached' = Cached,
         \A a \in Cached : cache'[a].peer = cache[a].peer,
         \A t \in Task : pc'[t] = "Done" <=> pc[t] = "Done",
         owner' = owner,
         events' = events
  PROVE  Lifecycle'
  <1>1. \A a \in Cached : a \in Addr /\ cache[a].peer \in Task
    BY PeerFields DEF TypeOK, Cached
  <1>2. TaskIsCached'
    BY DEF Lifecycle, TaskIsCached
  <1>3. SenderIsCached'
    BY DEF Lifecycle, SenderIsCached
  <1>4. OwnTask'
    BY <1>1 DEF Lifecycle, OwnTask
  <1>5. DeadHasClose'
    BY <1>1 DEF Lifecycle, DeadHasClose
  <1>6. CloseIsLast'
    BY <1>1 DEF Lifecycle, CloseIsLast, SenderIsCached
  <1>7. QED
    BY <1>2, <1>3, <1>4, <1>5, <1>6 DEF Lifecycle

(* peer_mut finds the address: on_packet changes the state of the Peer and
   may put the packet into its channel. *)
LEMMA PeerMutCachedIInv ==
  ASSUME IInv, PeerMut, PeerMutCached(inPacket.addr, inPacket.data)
  PROVE  IInv'
  <1> DEFINE a == inPacket.addr
             d == inPacket.data
             t == cache[a].peer
  <1>1. a \in Addr /\ d \in Datagram
    BY DEF IInv, TypeOK, RecvLocals, PeerMut
  <1>2. cache[a] \in Peer /\ t \in Task /\ cache[a].state \in PeerState
    BY <1>1, PeerFields DEF IInv, TypeOK, PeerMutCached
  <1>3. NextPeerState(cache[a].state, d) \in PeerState
    BY <1>2 DEF NextPeerState, PeerState
  <1>4. /\ cache' \in [Addr -> Peer \cup {Absent}]
        /\ Cached' = Cached
        /\ \A b \in Cached : cache'[b].peer = cache[b].peer
    <2>1. cache \in [Addr -> Peer \cup {Absent}]
      BY DEF IInv, TypeOK
    <2>2. cache' = [cache EXCEPT ![a] =
                      [peer |-> t, state |-> NextPeerState(cache[a].state, d)]]
      BY <2>1, <1>1 DEF PeerMutCached
    <2>3. QED
      BY <1>1, <1>2, <1>3, <2>1, <2>2, PeerFields DEF Cached
  <1>5. /\ chan' \in [Task -> Seq(Datagram)]
        /\ \A u \in Task : Len(chan'[u]) <= PeerCap
        /\ \A u \in Task : pc[u] \in {"Closing", "Done"} => chan'[u] = chan[u]
    <2>1. /\ chan \in [Task -> Seq(Datagram)]
          /\ \A u \in Task : Len(chan[u]) <= PeerCap
      BY DEF IInv, TypeOK
    <2>2. /\ TrySend(t, d) \in Seq(Datagram)
          /\ Len(TrySend(t, d)) <= PeerCap
          /\ pc[t] \in {"Closing", "Done"} => TrySend(t, d) = chan[t]
      BY <1>1, <1>2, <2>1, AppendElements, RelayAssumption
      DEF TrySend, CanSend, RxOpen
    <2>3. chan' = [chan EXCEPT ![t] = TrySend(t, d)]
      BY DEF PeerMutCached
    <2>4. QED
      BY <1>2, <2>1, <2>2, <2>3
  <1>6. UNCHANGED <<map, pc, owner, hand, events, worker>>
    BY DEF PeerMut, PeerMutCached
  <1>7. TypeOK'
    BY <1>4, <1>5, <1>6 DEF IInv, TypeOK, PeerMut
  <1>8. TaskLocals' /\ RecvLocals'
    BY <1>5, <1>6 DEF IInv, TaskLocals, RecvLocals, PeerMut
  <1>9. Lifecycle'
    BY <1>4, <1>6, LifecycleFrame DEF IInv
  <1>10. QED
    BY <1>7, <1>8, <1>9 DEF IInv

(* peer_mut does not find the address: Peer::new spawns its task. *)
LEMMA PeerMutNewIInv ==
  ASSUME IInv, PeerMut, PeerMutNew(inPacket.addr, inPacket.data)
  PROVE  IInv'
  <1> DEFINE a == inPacket.addr
             d == inPacket.data
  <1>1. a \in Addr /\ d \in Datagram /\ a \notin Cached
    BY DEF IInv, TypeOK, RecvLocals, PeerMut, PeerMutNew, Cached
  <1>2. PICK t \in Task :
          /\ pc[t] = "Done"
          /\ \A b \in Cached : cache[b].peer # t
          /\ cache' = [cache EXCEPT
                         ![a] = [peer |-> t, state |-> NextPeerState("Connected", d)]]
          /\ chan' = [chan EXCEPT ![t] = <<d>>]
          /\ pc' = [pc EXCEPT ![t] = "Receiving"]
          /\ owner' = [owner EXCEPT ![t] = a]
          /\ UNCHANGED hand
    BY DEF PeerMutNew
  <1>3. NextPeerState("Connected", d) \in PeerState
    BY DEF NextPeerState, PeerState
  <1>4. UNCHANGED <<map, events, worker>>
    BY DEF PeerMut
  <1>5. /\ cache' \in [Addr -> Peer \cup {Absent}]
        /\ Cached' = Cached \cup {a}
        /\ \A b \in Cached : cache'[b] = cache[b]
        /\ cache'[a].peer = t
        /\ \A b \in Cached : b \in Addr /\ cache[b].peer \in Task
    <2>1. cache \in [Addr -> Peer \cup {Absent}]
      BY DEF IInv, TypeOK
    <2>2. QED
      BY <1>1, <1>2, <1>3, <2>1, PeerFields DEF Cached
  <1>6. /\ <<d>> \in Seq(Datagram)
        /\ Len(<<d>>) = 1
        /\ 1 <= PeerCap
    BY <1>1, RelayAssumption
  <1>7. TypeOK'
    BY <1>1, <1>2, <1>4, <1>5, <1>6 DEF IInv, TypeOK, PeerMut
  <1>8. TaskLocals' /\ RecvLocals'
    BY <1>1, <1>2, RelayAssumption DEF IInv, TypeOK, TaskLocals, RecvLocals, PeerMut
  <1>9. Lifecycle'
    <2>1. TaskIsCached'
      BY <1>2, <1>5 DEF IInv, TypeOK, Lifecycle, TaskIsCached
    <2>2. SenderIsCached'
      BY <1>4, <1>5 DEF IInv, Lifecycle, SenderIsCached
    <2>3. OwnTask'
      <3>1. /\ pc'[t] = "Receiving" /\ owner'[t] = a
            /\ \A u \in Task \ {t} : pc'[u] = pc[u] /\ owner'[u] = owner[u]
        BY <1>2 DEF IInv, TypeOK
      <3>2. \A b \in Cached' : b = a \/ (b \in Cached /\ cache'[b].peer \in Task \ {t})
        BY <1>2, <1>5
      <3>3. \A b \in Cached' : pc'[cache'[b].peer] # "Done" => owner'[cache'[b].peer] = b
        BY <1>5, <3>1, <3>2 DEF IInv, Lifecycle, OwnTask
      <3>4. \A b, c \in Cached' : cache'[b].peer = cache'[c].peer => b = c
        BY <1>5, <3>2 DEF IInv, Lifecycle, OwnTask
      <3>5. QED
        BY <3>3, <3>4 DEF OwnTask
    <2>4. DeadHasClose'
      <3>1. pc'[cache'[a].peer] = "Receiving"
        <4>1. DOMAIN pc = Task
          BY DEF IInv, TypeOK
        <4>2. QED
          BY <1>2, <1>5, <4>1
      <3>2. ASSUME NEW b \in Cached
            PROVE  pc'[cache'[b].peer] = pc[cache[b].peer]
        BY <1>2, <1>5, <3>2 DEF IInv, TypeOK
      <3>3. QED
        BY <1>4, <1>5, <3>1, <3>2 DEF IInv, Lifecycle, DeadHasClose
    <2>5. CloseIsLast'
      BY <1>2, <1>4, <1>5 DEF IInv, TypeOK, Lifecycle, CloseIsLast, SenderIsCached
    <2>6. QED
      BY <2>1, <2>2, <2>3, <2>4, <2>5 DEF Lifecycle
  <1>10. QED
    BY <1>7, <1>8, <1>9 DEF IInv

(* The other steps of recv_task do not touch the registry. *)
LEMMA RecvOnlyIInv ==
  ASSUME IInv,
         \/ \E a \in Addr, d \in Datagram : RecvFrom(a, d)
         \/ RecvError \/ DropUnparsable \/ AnswerPing \/ PongSent
  PROVE  IInv'
  <1>1. UNCHANGED <<cache, map, chan, pc, owner, hand, events, worker>>
    BY DEF RecvFrom, RecvError, DropUnparsable, AnswerPing, PongSent, peerVars
  <1>2. /\ recv' \in {"Waiting", "Plugins", "Pong", "Down"}
        /\ inPacket' \in [addr : Addr, data : Datagram] \cup {NoPacket}
        /\ RecvLocals'
    BY RelayAssumption
    DEF IInv, TypeOK, RecvLocals, RecvFrom, RecvError, DropUnparsable,
        AnswerPing, PongSent
  <1>3. TypeOK'
    BY <1>1, <1>2 DEF IInv, TypeOK
  <1>4. TaskLocals'
    BY <1>1 DEF IInv, TaskLocals
  <1>5. Lifecycle'
    BY <1>1, LifecycleFrame DEF IInv, Cached
  <1>6. QED
    BY <1>2, <1>3, <1>4, <1>5 DEF IInv

(* Time passes. *)
LEMMA IdleTimeoutElapsesIInv ==
  ASSUME IInv, NEW a \in Addr, IdleTimeoutElapses(a)
  PROVE  IInv'
  <1>1. UNCHANGED <<map, chan, pc, owner, hand, events, worker, recv, inPacket>>
    BY DEF IdleTimeoutElapses, peerVars, recvVars
  <1>2. /\ cache' \in [Addr -> Peer \cup {Absent}]
        /\ Cached' = Cached
        /\ \A b \in Cached : cache'[b].peer = cache[b].peer
    <2>1. cache \in [Addr -> Peer \cup {Absent}]
      BY DEF IInv, TypeOK
    <2>2. cache[a] \in Peer
      BY <2>1 DEF IdleTimeoutElapses
    <2>3. cache' = [cache EXCEPT ![a] = [peer |-> cache[a].peer, state |-> "Lapsed"]]
      BY <2>1 DEF IdleTimeoutElapses
    <2>4. "Lapsed" \in PeerState
      BY DEF PeerState
    <2>5. QED
      BY <2>1, <2>2, <2>3, <2>4, PeerFields DEF Cached
  <1>3. TypeOK'
    BY <1>1, <1>2 DEF IInv, TypeOK
  <1>4. TaskLocals' /\ RecvLocals'
    BY <1>1 DEF IInv, TaskLocals, RecvLocals
  <1>5. Lifecycle'
    BY <1>1, <1>2, LifecycleFrame DEF IInv
  <1>6. QED
    BY <1>3, <1>4, <1>5 DEF IInv

----------------------------------------------------------------------------
(* do_packet takes a packet out of its channel. *)
LEMMA TaskRecvIInv ==
  ASSUME IInv, NEW t \in Task, TaskRecv(t)
  PROVE  IInv'
  <1>1. UNCHANGED <<cache, map, owner, events, worker, recv, inPacket>>
    BY DEF TaskRecv, recvVars
  <1>2. /\ chan[t] \in Seq(Datagram)
        /\ Head(chan[t]) \in Datagram
        /\ Tail(chan[t]) \in Seq(Datagram)
        /\ Len(Tail(chan[t])) <= PeerCap
    BY TailElements, RelayAssumption DEF IInv, TypeOK, TaskRecv
  <1>3. chan' = [chan EXCEPT ![t] = Tail(chan[t])]
    BY DEF TaskRecv
  <1>4. \/ /\ hand' = [hand EXCEPT ![t] = Head(chan[t])]
           /\ pc' = [pc EXCEPT ![t] = "Sending"]
        \/ UNCHANGED <<hand, pc>>
    BY DEF TaskRecv
  <1>5. TypeOK'
    <2>1. chan' \in [Task -> Seq(Datagram)] /\ \A u \in Task : Len(chan'[u]) <= PeerCap
      BY <1>2, <1>3 DEF IInv, TypeOK
    <2>2. /\ hand' \in [Task -> Datagram \cup {NoPacket}]
          /\ pc' \in [Task -> {"Receiving", "Sending", "Expired", "Closing", "Done"}]
      <3>1. /\ hand \in [Task -> Datagram \cup {NoPacket}]
            /\ pc \in [Task -> {"Receiving", "Sending", "Expired", "Closing", "Done"}]
        BY DEF IInv, TypeOK
      <3>2. QED
        BY <1>2, <1>4, <3>1
    <2>3. QED
      BY <1>1, <2>1, <2>2 DEF IInv, TypeOK
  <1>6. TaskLocals' /\ RecvLocals'
    <2>1. pc[t] = "Receiving" /\ hand[t] = NoPacket
      BY DEF IInv, TaskLocals, TaskRecv
    <2>2. \A u \in Task \ {t} : pc'[u] = pc[u] /\ hand'[u] = hand[u] /\ chan'[u] = chan[u]
      BY <1>3, <1>4 DEF IInv, TypeOK
    <2>3. \/ pc'[t] = "Sending" /\ hand'[t] \in Datagram
          \/ pc'[t] = "Receiving" /\ hand'[t] = NoPacket
      BY <1>2, <1>4, <2>1 DEF IInv, TypeOK
    <2>4. owner'[t] # NoAddr
      BY <1>1, <2>1 DEF IInv, TaskLocals
    <2>5. TaskLocals'
      BY <1>1, <2>2, <2>3, <2>4, RelayAssumption DEF IInv, TaskLocals
    <2>6. QED
      BY <1>1, <2>5 DEF IInv, RecvLocals
  <1>7. \A u \in Task : pc'[u] = "Done" <=> pc[u] = "Done"
    BY <1>4 DEF IInv, TypeOK, TaskRecv
  <1>8. Lifecycle'
    BY <1>1, <1>7, LifecycleFrame DEF IInv, Cached
  <1>9. QED
    BY <1>5, <1>6, <1>8 DEF IInv

(* do_packet ends and drops its receiver. *)
LEMMA TaskExpiresIInv ==
  ASSUME IInv, NEW t \in Task, TaskTimeout(t) \/ TaskDropRx(t)
  PROVE  IInv'
  <1>1. UNCHANGED <<cache, map, owner, hand, events, worker, recv, inPacket>>
    BY DEF TaskTimeout, TaskDropRx, recvVars
  <1>2. /\ pc' \in [Task -> {"Receiving", "Sending", "Expired", "Closing", "Done"}]
        /\ \A u \in Task : /\ pc'[u] = "Done" <=> pc[u] = "Done"
                           /\ pc'[u] = "Sending" <=> pc[u] = "Sending"
    BY DEF IInv, TypeOK, TaskTimeout, TaskDropRx
  <1>3. /\ chan' \in [Task -> Seq(Datagram)]
        /\ \A u \in Task : Len(chan'[u]) <= PeerCap
        /\ \A u \in Task : pc'[u] \in {"Closing", "Done"} => chan'[u] = <<>>
    <2>1. /\ <<>> \in Seq(Datagram)
          /\ Len(<<>>) <= PeerCap
      BY RelayAssumption, EmptySeq
    <2>2. CASE TaskTimeout(t)
      <3>1. /\ chan \in [Task -> Seq(Datagram)] /\ UNCHANGED chan
            /\ pc \in [Task -> {"Receiving", "Sending", "Expired", "Closing", "Done"}]
            /\ pc' = [pc EXCEPT ![t] = "Expired"]
        BY <2>2 DEF IInv, TypeOK, TaskTimeout
      <3>2. QED
        BY <3>1 DEF IInv, TypeOK, TaskLocals
    <2>3. CASE TaskDropRx(t)
      <3>1. /\ chan \in [Task -> Seq(Datagram)]
            /\ chan' = [chan EXCEPT ![t] = <<>>]
            /\ pc \in [Task -> {"Receiving", "Sending", "Expired", "Closing", "Done"}]
            /\ pc' = [pc EXCEPT ![t] = "Closing"]
        BY <2>3 DEF IInv, TypeOK, TaskDropRx
      <3>2. QED
        BY <2>1, <3>1 DEF IInv, TypeOK, TaskLocals
    <2>4. QED
      BY <2>2, <2>3
  <1>4. TypeOK'
    BY <1>1, <1>2, <1>3 DEF IInv, TypeOK
  <1>5. TaskLocals' /\ RecvLocals'
    BY <1>1, <1>2, <1>3 DEF IInv, TaskLocals, RecvLocals
  <1>6. Lifecycle'
    BY <1>1, <1>2, LifecycleFrame DEF IInv, Cached
  <1>7. QED
    BY <1>4, <1>5, <1>6 DEF IInv

(* do_packet passes a LAN packet to event_task. *)
LEMMA TaskSendIInv ==
  ASSUME IInv, NEW t \in Task, TaskSend(t)
  PROVE  IInv'
  <1> DEFINE a == owner[t]
             e == SendLAN(a, hand[t])
  <1>1. /\ UNCHANGED <<cache, map, chan, owner, worker, recv, inPacket>>
        /\ Cached' = Cached
    BY DEF TaskSend, recvVars, Cached
  <1>2. /\ a \in Cached
        /\ cache[a].peer = t
        /\ a \in Addr
        /\ hand[t] \in Datagram
    BY DEF IInv, TypeOK, TaskLocals, Lifecycle, TaskIsCached, TaskSend, Cached
  <1>3. e \in Event /\ e.type = "SendLAN" /\ e.addr = a
    BY <1>2, EventFields
  <1>4. /\ events \in Seq(Event)
        /\ events' = Append(events, e)
        /\ Len(events) < EventCap
    BY DEF IInv, TypeOK, TaskSend
  <1>5. /\ events' \in Seq(Event)
        /\ Len(events') <= EventCap
        /\ DOMAIN events = 1 .. Len(events)
        /\ DOMAIN events' = 1 .. (Len(events) + 1)
        /\ Len(events) \in Nat
        /\ \A i \in DOMAIN events : events'[i] = events[i]
        /\ events'[Len(events) + 1] = e
    BY <1>3, <1>4, AppendElements, RelayAssumption
  <1>6. /\ pc' = [pc EXCEPT ![t] = "Receiving"]
        /\ hand' = [hand EXCEPT ![t] = NoPacket]
        /\ \A u \in Task : pc'[u] = "Done" <=> pc[u] = "Done"
    BY DEF IInv, TypeOK, TaskSend
  <1>7. TypeOK'
    BY <1>1, <1>5, <1>6 DEF IInv, TypeOK
  <1>8. TaskLocals' /\ RecvLocals'
    BY <1>1, <1>6 DEF IInv, TypeOK, TaskLocals, RecvLocals
  <1>9. Lifecycle'
    <2>1. TaskIsCached' /\ OwnTask'
      BY <1>1, <1>6, PeerFields
      DEF IInv, TypeOK, Lifecycle, TaskIsCached, OwnTask, Cached
    <2>2. SenderIsCached'
      BY <1>1, <1>2, <1>3, <1>5 DEF IInv, Lifecycle, SenderIsCached
    <2>3. DeadHasClose'
      <3>1. \A b \in Cached : cache[b].peer \in Task
        BY PeerFields DEF IInv, TypeOK, Cached
      <3>2. QED
        BY <1>1, <1>5, <1>6, <3>1 DEF IInv, Lifecycle, DeadHasClose
    <2>4. CloseIsLast'
      <3>1. \A i \in DOMAIN events : events[i].type = "Close" =>
              /\ events[i].addr \in Cached
              /\ cache[events[i].addr].peer \in Task
              /\ pc[cache[events[i].addr].peer] = "Done"
              /\ events[i].addr # a
        BY <1>2, PeerFields
        DEF IInv, TypeOK, Lifecycle, SenderIsCached, CloseIsLast, TaskSend, Cached
      <3>2. ASSUME NEW i \in DOMAIN events, events'[i].type = "Close"
            PROVE  /\ pc'[cache'[events'[i].addr].peer] = "Done"
                   /\ \A j \in DOMAIN events' : j > i => events'[j].addr # events'[i].addr
        <4>1. events'[i] = events[i] /\ events[i].type = "Close"
          BY <1>5, <3>2
        <4>2. pc'[cache'[events'[i].addr].peer] = "Done"
          BY <1>1, <1>6, <3>1, <4>1
        <4>3. \A j \in DOMAIN events : j > i => events[j].addr # events[i].addr
          BY <4>1 DEF IInv, Lifecycle, CloseIsLast
        <4>4. events'[Len(events) + 1].addr # events[i].addr
          BY <1>3, <1>5, <3>1, <4>1
        <4>5. \A j \in DOMAIN events' : j \in DOMAIN events \/ j = Len(events) + 1
          BY <1>5
        <4>6. QED
          BY <1>5, <4>1, <4>2, <4>3, <4>4, <4>5
      <3>3. events'[Len(events) + 1].type # "Close"
        BY <1>3, <1>5
      <3>4. \A i \in DOMAIN events' : i \in DOMAIN events \/ i = Len(events) + 1
        BY <1>5
      <3>5. QED
        BY <3>2, <3>3, <3>4 DEF CloseIsLast
    <2>5. QED
      BY <2>1, <2>2, <2>3, <2>4 DEF Lifecycle
  <1>10. QED
    BY <1>7, <1>8, <1>9 DEF IInv

(* The peer task is over and sends its Close. *)
LEMMA TaskCloseIInv ==
  ASSUME IInv, NEW t \in Task, TaskClose(t)
  PROVE  IInv'
  <1> DEFINE a == owner[t]
             e == Close(a)
  <1>1. /\ UNCHANGED <<cache, map, chan, hand, worker, recv, inPacket>>
        /\ Cached' = Cached
    BY DEF TaskClose, recvVars, Cached
  <1>2. a \in Cached /\ cache[a].peer = t /\ a \in Addr
    BY DEF IInv, TypeOK, Lifecycle, TaskIsCached, TaskClose, Cached
  <1>3. e \in Event /\ e.type = "Close" /\ e.addr = a
    BY <1>2, EventFields
  <1>4. /\ events \in Seq(Event)
        /\ events' = Append(events, e)
        /\ Len(events) < EventCap
    BY DEF IInv, TypeOK, TaskClose
  <1>5. /\ events' \in Seq(Event)
        /\ Len(events') <= EventCap
        /\ DOMAIN events = 1 .. Len(events)
        /\ DOMAIN events' = 1 .. (Len(events) + 1)
        /\ Len(events) \in Nat
        /\ \A i \in DOMAIN events : events'[i] = events[i]
        /\ events'[Len(events) + 1] = e
    BY <1>3, <1>4, AppendElements, RelayAssumption
  <1>6. /\ pc \in [Task -> {"Receiving", "Sending", "Expired", "Closing", "Done"}]
        /\ pc' = [pc EXCEPT ![t] = "Done"]
        /\ pc[t] = "Closing"
        /\ owner \in [Task -> Addr \cup {NoAddr}]
        /\ owner' = [owner EXCEPT ![t] = NoAddr]
    BY DEF IInv, TypeOK, TaskClose
  <1>7. TypeOK'
    BY <1>1, <1>5, <1>6 DEF IInv, TypeOK
  <1>8. TaskLocals' /\ RecvLocals'
    BY <1>1, <1>6 DEF IInv, TypeOK, TaskLocals, RecvLocals
  <1>9. \A b \in Cached : /\ b \in Addr
                          /\ cache[b].peer \in Task
                          /\ b # a => cache[b].peer # t
    BY <1>2, PeerFields DEF IInv, TypeOK, Lifecycle, OwnTask, Cached
  <1>10. Lifecycle'
    <2>1. TaskIsCached'
      BY <1>1, <1>6 DEF IInv, Lifecycle, TaskIsCached
    <2>2. OwnTask'
      BY <1>1, <1>6, <1>9 DEF IInv, Lifecycle, OwnTask
    <2>3. SenderIsCached'
      BY <1>1, <1>2, <1>3, <1>5 DEF IInv, Lifecycle, SenderIsCached
    <2>4. DeadHasClose'
      <3>1. events'[Len(events) + 1] = Close(a) /\ Len(events) + 1 \in DOMAIN events'
        BY <1>5
      <3>2. ASSUME NEW b \in Cached, b # a, pc'[cache[b].peer] = "Done"
            PROVE  \E i \in DOMAIN events' : events'[i] = Close(b)
        <4>1. pc[cache[b].peer] = "Done"
          BY <1>6, <1>9, <3>2
        <4>2. QED
          BY <1>5, <3>2, <4>1 DEF IInv, Lifecycle, DeadHasClose
      <3>3. QED
        BY <1>1, <3>1, <3>2 DEF DeadHasClose
    <2>5. CloseIsLast'
      <3>1. \A i \in DOMAIN events : events[i].type = "Close" =>
              /\ events[i].addr \in Cached
              /\ cache[events[i].addr].peer \in Task
              /\ pc[cache[events[i].addr].peer] = "Done"
              /\ events[i].addr # a
        BY <1>2, <1>6, <1>9 DEF IInv, Lifecycle, SenderIsCached, CloseIsLast
      <3>2. ASSUME NEW i \in DOMAIN events, events'[i].type = "Close"
            PROVE  /\ pc'[cache'[events'[i].addr].peer] = "Done"
                   /\ \A j \in DOMAIN events' : j > i => events'[j].addr # events'[i].addr
        <4>1. events'[i] = events[i] /\ events[i].type = "Close"
          BY <1>5, <3>2
        <4>2. pc'[cache'[events'[i].addr].peer] = "Done"
          BY <1>1, <1>6, <3>1, <4>1
        <4>3. \A j \in DOMAIN events : j > i => events[j].addr # events[i].addr
          BY <4>1 DEF IInv, Lifecycle, CloseIsLast
        <4>4. events'[Len(events) + 1].addr # events[i].addr
          BY <1>3, <1>5, <3>1, <4>1
        <4>5. \A j \in DOMAIN events' : j \in DOMAIN events \/ j = Len(events) + 1
          BY <1>5
        <4>6. QED
          BY <1>5, <4>1, <4>2, <4>3, <4>4, <4>5
      <3>3. pc'[cache'[events'[Len(events) + 1].addr].peer] = "Done"
        BY <1>1, <1>2, <1>3, <1>5, <1>6
      <3>4. \A j \in DOMAIN events' : ~(j > Len(events) + 1)
        BY <1>5
      <3>5. \A i \in DOMAIN events' : i \in DOMAIN events \/ i = Len(events) + 1
        BY <1>5
      <3>6. QED
        BY <3>2, <3>3, <3>4, <3>5 DEF CloseIsLast
    <2>6. QED
      BY <2>1, <2>2, <2>3, <2>4, <2>5 DEF Lifecycle
  <1>11. QED
    BY <1>7, <1>8, <1>10 DEF IInv

----------------------------------------------------------------------------
(* The event channel without its first event. *)
LEMMA HeadEvent ==
  ASSUME IInv, events # <<>>
  PROVE  /\ Head(events) = events[1]
         /\ Head(events) \in Event
         /\ 1 \in DOMAIN events
         /\ Tail(events) \in Seq(Event)
         /\ Len(Tail(events)) <= EventCap
         /\ \A i \in DOMAIN Tail(events) :
              /\ i + 1 \in DOMAIN events
              /\ Tail(events)[i] = events[i + 1]
         /\ \A i \in DOMAIN events : i > 1 => i - 1 \in DOMAIN Tail(events)
         /\ DOMAIN events \subseteq Nat \ {0}
         /\ DOMAIN Tail(events) \subseteq Nat \ {0}
  <1>1. events \in Seq(Event) /\ Len(events) <= EventCap
    BY DEF IInv, TypeOK
  <1>2. QED
    BY <1>1, TailElements, RelayAssumption

(* get_dest_sockaddr: a packet is routed. *)
LEMMA StartSendLANIInv ==
  ASSUME IInv, NEW s \in Slot, StartSendLAN(s)
  PROVE  IInv'
  <1> DEFINE from == Head(events).addr
             d == Head(events).packet
  <1>1. /\ UNCHANGED <<cache, chan, pc, owner, hand, recv, inPacket>>
        /\ Cached' = Cached
        /\ events' = Tail(events)
        /\ map' = Learned(from, d)
        /\ worker' = [worker EXCEPT ![s] =
              [phase |-> "plugins", todo |-> get_dest_sockaddr(from, d)]]
        /\ events # <<>>
        /\ Head(events).type = "SendLAN"
    BY DEF StartSendLAN, peerVars, recvVars, Cached
  <1>2. from \in Addr /\ d \in Datagram
    BY <1>1, HeadEvent, EventFields
  <1>3. d.src \in Ip /\ d.dst \in Ip
    BY <1>2, RelayAssumption
  <1>4. Learned(from, d) \in [Ip -> Addr \cup {NoAddr}]
    BY <1>2 DEF IInv, TypeOK, Learned
  <1>5. get_dest_sockaddr(from, d) \in SUBSET Addr
    BY <1>3, <1>4 DEF get_dest_sockaddr, BroadcastDest, Cached
  <1>6. worker' \in [Slot -> Job \cup {Free}]
    BY <1>1, <1>5, JobFields DEF IInv, TypeOK
  <1>7. TypeOK'
    BY <1>1, <1>4, <1>6, HeadEvent DEF IInv, TypeOK
  <1>8. TaskLocals' /\ RecvLocals'
    BY <1>1 DEF IInv, TaskLocals, RecvLocals
  <1>9. Lifecycle'
    <2>1. TaskIsCached' /\ OwnTask'
      BY <1>1 DEF IInv, Lifecycle, TaskIsCached, OwnTask
    <2>2. SenderIsCached'
      BY <1>1, HeadEvent DEF IInv, Lifecycle, SenderIsCached
    <2>3. DeadHasClose'
      <3>1. ASSUME NEW b \in Cached, pc[cache[b].peer] = "Done"
            PROVE  \E i \in DOMAIN events' : events'[i] = Close(b)
        <4>1. PICK i \in DOMAIN events : events[i] = Close(b)
          BY <3>1 DEF IInv, Lifecycle, DeadHasClose
        <4>2. i # 1
          BY <1>1, <4>1, HeadEvent DEF Close
        <4>3. i - 1 \in DOMAIN events' /\ events'[i - 1] = events[(i - 1) + 1]
          BY <1>1, <4>2, HeadEvent
        <4>4. (i - 1) + 1 = i
          BY HeadEvent, <1>1
        <4>5. QED
          BY <4>1, <4>3, <4>4
      <3>2. QED
        BY <1>1, <3>1 DEF DeadHasClose
    <2>4. CloseIsLast'
      BY <1>1, HeadEvent DEF IInv, Lifecycle, CloseIsLast
    <2>5. QED
      BY <2>1, <2>2, <2>3, <2>4 DEF Lifecycle
  <1>10. QED
    BY <1>7, <1>8, <1>9 DEF IInv

(* A Close takes its address out of the cache. *)
LEMMA RemoveIInv ==
  ASSUME IInv, remove
  PROVE  IInv'
  <1> DEFINE a == Head(events).addr
  <1>1. /\ UNCHANGED <<map, chan, pc, owner, hand, worker, recv, inPacket>>
        /\ events' = Tail(events)
        /\ events # <<>>
        /\ Head(events).type = "Close"
        /\ cache' = [cache EXCEPT ![a] = Absent]
    BY DEF remove, peerVars, recvVars
  <1>2. a \in Addr /\ Head(events) = events[1] /\ 1 \in DOMAIN events
    BY <1>1, HeadEvent, EventFields
  <1>3. /\ cache' \in [Addr -> Peer \cup {Absent}]
        /\ Cached' = Cached \ {a}
        /\ \A b \in Cached' : cache'[b] = cache[b]
    BY <1>1, <1>2 DEF IInv, TypeOK, Cached
  <1>4. /\ pc[cache[a].peer] = "Done"
        /\ \A j \in DOMAIN events : j > 1 => events[j].addr # a
    BY <1>1, <1>2 DEF IInv, Lifecycle, CloseIsLast
  <1>5. \A i \in DOMAIN events' : /\ i + 1 \in DOMAIN events
                                  /\ events'[i] = events[i + 1]
                                  /\ events'[i].addr # a
                                  /\ i \in Nat \ {0}
    BY <1>1, <1>4, HeadEvent
  <1>6. TypeOK'
    BY <1>1, <1>3, HeadEvent DEF IInv, TypeOK
  <1>7. TaskLocals' /\ RecvLocals'
    BY <1>1 DEF IInv, TaskLocals, RecvLocals
  <1>8. Lifecycle'
    <2>1. TaskIsCached'
      BY <1>1, <1>3, <1>4 DEF IInv, Lifecycle, TaskIsCached
    <2>2. OwnTask'
      BY <1>1, <1>3 DEF IInv, Lifecycle, OwnTask
    <2>3. SenderIsCached'
      BY <1>3, <1>5 DEF IInv, Lifecycle, SenderIsCached
    <2>4. DeadHasClose'
      <3>1. ASSUME NEW b \in Cached', pc[cache[b].peer] = "Done"
            PROVE  \E i \in DOMAIN events' : events'[i] = Close(b)
        <4>1. PICK i \in DOMAIN events : events[i] = Close(b)
          BY <1>3, <3>1 DEF IInv, Lifecycle, DeadHasClose
        <4>2. i # 1
          BY <1>2, <1>3, <4>1 DEF Close
        <4>3. i - 1 \in DOMAIN events' /\ events'[i - 1] = events[(i - 1) + 1]
          BY <1>1, <4>2, HeadEvent
        <4>4. (i - 1) + 1 = i
          BY HeadEvent, <1>1
        <4>5. QED
          BY <4>1, <4>3, <4>4
      <3>2. QED
        BY <1>1, <1>3, <3>1 DEF DeadHasClose
    <2>5. CloseIsLast'
      <3>1. \A i \in DOMAIN events' : cache'[events'[i].addr] = cache[events'[i].addr]
        BY <2>3, <1>3 DEF SenderIsCached
      <3>2. QED
        BY <1>1, <1>5, <3>1 DEF IInv, Lifecycle, CloseIsLast
    <2>6. QED
      BY <2>1, <2>2, <2>3, <2>4, <2>5 DEF Lifecycle
  <1>9. QED
    BY <1>6, <1>7, <1>8 DEF IInv

(* A handler runs the plugins, sends, and frees its slot. *)
LEMMA HandlerIInv ==
  ASSUME IInv, NEW s \in Slot,
         \/ OutPacketPlugins(s)
         \/ \E a \in Addr : SendTo(s, a)
         \/ SendLanReturns(s)
  PROVE  IInv'
  <1>1. UNCHANGED <<cache, map, chan, pc, owner, hand, events, recv, inPacket>>
    BY DEF OutPacketPlugins, SendTo, SendLanReturns, peerVars, recvVars
  <1>2. worker[s] \in Job /\ worker[s].todo \in SUBSET Addr
    BY JobFields DEF IInv, TypeOK, OutPacketPlugins, SendTo, SendLanReturns
  <1>3. PICK j \in Job \cup {Free} : worker' = [worker EXCEPT ![s] = j]
    <2>1. CASE OutPacketPlugins(s)
      BY <1>2, <2>1, JobFields DEF OutPacketPlugins
    <2>2. CASE \E a \in Addr : SendTo(s, a)
      <3>1. PICK a \in Addr : SendTo(s, a)
        BY <2>2
      <3>2. worker[s].todo \ {a} \in SUBSET Addr
        BY <1>2
      <3>3. QED
        BY <3>1, <3>2, JobFields DEF SendTo
    <2>3. CASE SendLanReturns(s)
      BY <2>3 DEF SendLanReturns
    <2>4. QED
      BY <2>1, <2>2, <2>3
  <1>4. TypeOK'
    BY <1>1, <1>3 DEF IInv, TypeOK
  <1>5. TaskLocals' /\ RecvLocals'
    BY <1>1 DEF IInv, TaskLocals, RecvLocals
  <1>6. Lifecycle'
    BY <1>1, LifecycleFrame DEF IInv, Cached
  <1>7. QED
    BY <1>4, <1>5, <1>6 DEF IInv

----------------------------------------------------------------------------
(* The invariant is inductive, whatever the task, handler or timer that moves:
   this is the argument behind everything below. *)
THEOREM NextIInv == IInv /\ [Next]_vars => IInv'
  <1> SUFFICES ASSUME IInv, [Next]_vars PROVE IInv'
    OBVIOUS
  <1>1. ASSUME NEW a \in Addr, NEW d \in Datagram, RecvFrom(a, d) PROVE IInv'
    BY <1>1, RecvOnlyIInv
  <1>2. CASE RecvError
    BY <1>2, RecvOnlyIInv
  <1>3. CASE RecvStep
    BY <1>3, RecvOnlyIInv, PeerMutCachedIInv, PeerMutNewIInv DEF RecvStep, PeerMut
  <1>4. ASSUME NEW a \in Addr, IdleTimeoutElapses(a) PROVE IInv'
    BY <1>4, IdleTimeoutElapsesIInv
  <1>5. ASSUME NEW t \in Task, TaskStep(t) PROVE IInv'
    BY <1>5, TaskRecvIInv, TaskExpiresIInv, TaskSendIInv, TaskCloseIInv DEF TaskStep
  <1>6. ASSUME NEW s \in Slot, WorkerStep(s) PROVE IInv'
    BY <1>6, StartSendLANIInv, HandlerIInv DEF WorkerStep
  <1>7. CASE remove
    BY <1>7, RemoveIInv
  <1>8. CASE UNCHANGED vars
    BY <1>8 DEF vars, IInv, TypeOK, TaskLocals, RecvLocals, Lifecycle, TaskIsCached,
                SenderIsCached, OwnTask, DeadHasClose, CloseIsLast, Cached
  <1>9. QED
    BY <1>1, <1>2, <1>3, <1>4, <1>5, <1>6, <1>7, <1>8 DEF Next

(* Every reachable state satisfies the inductive invariant: the life cycle of
   a Peer from peer_mut over do_packet and Close to remove. *)
THEOREM IInvHolds == Spec => []IInv
  BY InitIInv, NextIInv, PTL DEF Spec

(* The queues never outgrow their capacities and every part of the state stays
   what server.rs, peer_manager.rs and peer.rs declare it to be. *)
THEOREM TypeHolds == Spec => []TypeOK
  <1>1. IInv => TypeOK
    BY DEF IInv
  <1>2. QED
    BY <1>1, IInvHolds, PTL

(* peer_mut and remove keep one task per registered address, and no running
   task without its cache entry. *)
THEOREM TaskIsCachedHolds == Spec => []TaskIsCached
  <1>1. IInv => TaskIsCached
    BY DEF IInv, Lifecycle
  <1>2. QED
    BY <1>1, IInvHolds, PTL

(* event_task routes a packet before it removes the peer that sent it. *)
THEOREM SenderIsCachedHolds == Spec => []SenderIsCached
  <1>1. IInv => SenderIsCached
    BY DEF IInv, Lifecycle
  <1>2. QED
    BY <1>1, IInvHolds, PTL

(* In a state of the invariant a registered address whose task is over has one
   Close in the event channel, and one whose task runs has none. *)
LEMMA ClosesOfPeer == IInv => DeadIffClosing
  <1> SUFFICES ASSUME IInv, NEW a \in Cached
               PROVE  LET closes == {i \in DOMAIN events : events[i] = Close(a)}
                      IN  Cardinality(closes) =
                            IF pc[cache[a].peer] = "Done" THEN 1 ELSE 0
    BY DEF DeadIffClosing
  <1> DEFINE closes == {i \in DOMAIN events : events[i] = Close(a)}
  <1>1. a \in Addr /\ Close(a).type = "Close" /\ Close(a).addr = a
    BY EventFields DEF Cached
  <1>2. events \in Seq(Event) /\ DOMAIN events \subseteq Nat
    BY LenProperties DEF IInv, TypeOK
  <1>3. CASE pc[cache[a].peer] = "Done"
    <2>1. PICK i \in DOMAIN events : events[i] = Close(a)
      BY <1>3 DEF IInv, Lifecycle, DeadHasClose
    <2>2. ASSUME NEW j \in closes PROVE j = i
      <3>1. ~(j > i) /\ ~(i > j)
        BY <1>1, <2>1, <2>2 DEF IInv, Lifecycle, CloseIsLast
      <3>2. QED
        BY <1>2, <3>1, <2>1
    <2>3. closes = {i}
      BY <2>1, <2>2
    <2>4. QED
      BY <1>3, <2>3, FS_Singleton
  <1>4. CASE pc[cache[a].peer] # "Done"
    <2>1. closes = {}
      BY <1>1, <1>4 DEF IInv, Lifecycle, CloseIsLast
    <2>2. QED
      BY <1>4, <2>1, FS_EmptySet
  <1>5. QED
    BY <1>3, <1>4

(* The Close that a peer task sends when it is over is sent once, is not lost
   and never finds the address in use by a new task. *)
THEOREM DeadIffClosingHolds == Spec => []DeadIffClosing
  BY ClosesOfPeer, IInvHolds, PTL

(* Every other step keeps all registered addresses. *)
LEMMA OnlyRemoveForgets ==
  ASSUME IInv, [Next]_vars, ~remove
  PROVE  Cached \ Cached' = {}
  <1>1. cache \in [Addr -> Peer \cup {Absent}]
    BY DEF IInv, TypeOK
  <1>2. ASSUME PeerMut PROVE Cached \ Cached' = {}
    <2> DEFINE a == inPacket.addr
               d == inPacket.data
    <2>1. a \in Addr
      BY <1>2 DEF IInv, TypeOK, RecvLocals, PeerMut
    <2>2. CASE PeerMutCached(a, d)
      <3>1. cache[a] \in Peer
        BY <1>1, <2>1, <2>2 DEF PeerMutCached
      <3>2. NextPeerState(cache[a].state, d) \in PeerState
        BY <3>1, PeerFields DEF NextPeerState, PeerState
      <3>3. cache' = [cache EXCEPT ![a] = [peer |-> cache[a].peer,
                                   state |-> NextPeerState(cache[a].state, d)]]
        BY <1>1, <2>1, <2>2 DEF PeerMutCached
      <3>4. QED
        BY <1>1, <3>1, <3>2, <3>3, PeerFields DEF Cached
    <2>3. CASE PeerMutNew(a, d)
      BY <1>1, <2>1, <2>3 DEF PeerMutNew, Cached
    <2>4. QED
      BY <1>2, <2>2, <2>3 DEF PeerMut
  <1>3. ASSUME NEW a \in Addr, IdleTimeoutElapses(a) PROVE Cached \ Cached' = {}
    <2>1. cache[a] \in Peer /\ "Lapsed" \in PeerState
      BY <1>1, <1>3 DEF IdleTimeoutElapses, PeerState
    <2>2. cache' = [cache EXCEPT ![a] = [peer |-> cache[a].peer, state |-> "Lapsed"]]
      BY <1>1, <1>3 DEF IdleTimeoutElapses
    <2>3. QED
      BY <1>1, <2>1, <2>2, PeerFields DEF Cached
  <1>4. ASSUME UNCHANGED cache PROVE Cached \ Cached' = {}
    BY <1>4 DEF Cached
  <1>5. QED
    BY <1>2, <1>3, <1>4
    DEF Next, vars, RecvFrom, RecvError, RecvStep, DropUnparsable, AnswerPing,
        PongSent, TaskStep, TaskRecv, TaskSend, TaskTimeout, TaskDropRx, TaskClose,
        WorkerStep, StartSendLAN, OutPacketPlugins, SendTo, SendLanReturns

(* Only remove takes an address out of the cache, and what it leaves behind is
   a task that is over, an empty channel and no event of that address. *)
THEOREM RemovalIsCleanHolds == Spec => RemovalIsClean
  <1> DEFINE Clean == \A a \in Cached \ Cached' :
                        /\ \A t \in Task : owner[t] # a
                        /\ chan[cache[a].peer] = <<>>
                        /\ \A i \in DOMAIN events' : events'[i].addr # a
  <1>1. ASSUME IInv, remove PROVE Clean
    <2> DEFINE b == Head(events).addr
    <2>1. /\ events' = Tail(events)
          /\ events # <<>>
          /\ Head(events).type = "Close"
          /\ cache' = [cache EXCEPT ![b] = Absent]
      BY <1>1 DEF remove
    <2>2. b \in Addr /\ Head(events) = events[1] /\ 1 \in DOMAIN events
      BY <1>1, <2>1, HeadEvent, EventFields
    <2>3. Cached \ Cached' \subseteq {b} /\ b \in Cached
      BY <1>1, <2>1, <2>2 DEF IInv, TypeOK, Lifecycle, SenderIsCached, Cached
    <2>4. /\ pc[cache[b].peer] = "Done"
          /\ \A j \in DOMAIN events : j > 1 => events[j].addr # b
      BY <1>1, <2>1, <2>2 DEF IInv, Lifecycle, CloseIsLast
    <2>5. cache[b].peer \in Task
      BY <1>1, <2>3, PeerFields DEF IInv, TypeOK, Cached
    <2>6. chan[cache[b].peer] = <<>>
      BY <1>1, <2>4, <2>5 DEF IInv, TaskLocals
    <2>7. \A t \in Task : owner[t] # b
      <3>1. ASSUME NEW t \in Task, owner[t] = b PROVE FALSE
        <4>1. pc[t] # "Done"
          BY <1>1, <2>2, <3>1, RelayAssumption DEF IInv, TaskLocals
        <4>2. cache[b].peer = t
          BY <1>1, <3>1, <4>1 DEF IInv, Lifecycle, TaskIsCached
        <4>3. QED
          BY <2>4, <4>1, <4>2
      <3>2. QED
        BY <3>1
    <2>8. \A i \in DOMAIN events' : events'[i].addr # b
      BY <1>1, <2>1, <2>4, HeadEvent
    <2>9. QED
      BY <2>3, <2>6, <2>7, <2>8
  <1>2. ASSUME IInv, [Next]_vars, ~remove PROVE Clean
    BY <1>2, OnlyRemoveForgets
  <1>3. IInv /\ [Next]_vars => Clean
    BY <1>1, <1>2
  <1>4. QED
    BY <1>3, IInvHolds, PTL DEF Spec, RemovalIsClean
=============================================================================

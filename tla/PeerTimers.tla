----------------------------- MODULE PeerTimers -----------------------------
(****************************************************************************)
(* What time does to the clients of the relay (src/slp/peer.rs,             *)
(* peer_manager.rs): a peer task gives up after RecvTimeout without a       *)
(* packet; a peer is idle when a packet that is not a LAN packet finds the  *)
(* last LAN packet IdleTimeout old.  Time is counted in units; a timer that *)
(* is due fires, and its Close is handled, before the unit is over.         *)
(****************************************************************************)
EXTENDS Naturals, FiniteSets

CONSTANTS
  Addr,
  RecvTimeout,  \* of do_packet's timeout (30 s)
  IdleTimeout,  \* IDLE_TIMEOUT (300 s)
  NoPeer

ASSUME TimersAssumption ==
  /\ RecvTimeout \in Nat \ {0}
  /\ IdleTimeout \in Nat \ {0}
  /\ NoPeer \notin [state : {"Connected", "Idle"}, age : Nat]

VARIABLES
  cache,   \* per address its PeerState: Idle, or Connected(t) by the time since t
  task,    \* its peer task
  timer,   \* the time since rx.recv() last gave the task a packet
  quiet    \* history: the time since a LAN packet, or since it registered

vars == <<cache, task, timer, quiet>>

LongQuiet == IdleTimeout + RecvTimeout   \* bound of quiet

Idle == [state |-> "Idle", age |-> 0]
Connected(age) == [state |-> "Connected", age |-> age]

Cached == {a \in Addr : cache[a] # NoPeer}
IsIdle(a) == cache[a] = Idle

TimersTypeOK ==
  /\ cache \in [Addr -> {NoPeer, Idle} \cup {Connected(n) : n \in 0 .. IdleTimeout}]
  /\ task \in [Addr -> {"None", "Receiving", "Closing"}]
  /\ timer \in [Addr -> 0 .. RecvTimeout]
  /\ quiet \in [Addr -> 0 .. LongQuiet]
  /\ \A a \in Addr : task[a] = "None" <=> cache[a] = NoPeer

Init ==
  /\ cache = [a \in Addr |-> NoPeer]
  /\ task = [a \in Addr |-> "None"]
  /\ timer = [a \in Addr |-> 0]
  /\ quiet = [a \in Addr |-> 0]

(* Faults: the last LAN packet is not considered; every packet counts. *)
NextState_Hasty(s, lan) == IF lan THEN Connected(0) ELSE Idle
NextState_Any(s, lan) ==
  IF s.state = "Idle" /\ ~lan THEN Idle ELSE Connected(0)

(* on_packet *)
NextState(s, lan) ==
  IF lan THEN Connected(0)
  ELSE IF s.state = "Connected" /\ s.age < IdleTimeout THEN s
  ELSE Idle

(* peer_mut with a packet that is neither a ping nor unparsable; the receiver
   of a task that is closing is gone. *)
Packet(a, lan) ==
  LET new == a \notin Cached
  IN  /\ cache' = [cache EXCEPT ![a] = NextState(IF new THEN Connected(0) ELSE @, lan)]
      /\ task' = [task EXCEPT ![a] = IF new THEN "Receiving" ELSE @]
      /\ timer' = [timer EXCEPT ![a] = IF task'[a] = "Receiving" THEN 0 ELSE @]
      /\ quiet' = [quiet EXCEPT ![a] = IF new \/ lan THEN 0 ELSE @]

(* Fault: the peer is removed before its task is over. *)
Timeout_Removes(a) ==
  /\ task[a] = "Receiving" /\ timer[a] = RecvTimeout
  /\ task' = [task EXCEPT ![a] = "Closing"]
  /\ cache' = [cache EXCEPT ![a] = NoPeer]
  /\ UNCHANGED <<timer, quiet>>

Timeout(a) ==
  /\ task[a] = "Receiving" /\ timer[a] = RecvTimeout
  /\ task' = [task EXCEPT ![a] = "Closing"]
  /\ UNCHANGED <<cache, timer, quiet>>

(* Its Close is handled by remove. *)
Close(a) ==
  /\ task[a] = "Closing"
  /\ task' = [task EXCEPT ![a] = "None"]
  /\ cache' = [cache EXCEPT ![a] = NoPeer]
  /\ timer' = [timer EXCEPT ![a] = 0]
  /\ quiet' = [quiet EXCEPT ![a] = 0]

Older(n, cap) == IF n < cap THEN n + 1 ELSE n

Tick ==
  /\ \A a \in Cached : task[a] = "Receiving" /\ timer[a] < RecvTimeout
  /\ cache' = [a \in Addr |-> IF a \in Cached /\ ~IsIdle(a)
                              THEN Connected(Older(cache[a].age, IdleTimeout)) ELSE cache[a]]
  /\ timer' = [a \in Addr |-> IF a \in Cached THEN timer[a] + 1 ELSE timer[a]]
  /\ quiet' = [a \in Addr |-> IF a \in Cached THEN Older(quiet[a], LongQuiet) ELSE quiet[a]]
  /\ UNCHANGED task

Next ==
  \/ \E a \in Addr : (\E lan \in BOOLEAN : Packet(a, lan)) \/ Timeout(a) \/ Close(a)
  \/ Tick

Spec == Init /\ [][Next]_vars

(* A client that counts as idle in server_info has sent no LAN packet for
   IdleTimeout. *)
IdleIsQuiet == \A a \in Cached : IsIdle(a) => quiet[a] >= IdleTimeout

(* A client that sends no LAN packets counts as idle soon: it has to send
   something every RecvTimeout to stay, and on_packet looks at its state then. *)
QuietIsIdle == \A a \in Cached : quiet[a] >= LongQuiet => IsIdle(a)
=============================================================================

------------------------------ MODULE LanSwitch ------------------------------
(****************************************************************************)
(* What the server promises as a switch of a virtual LAN, without tasks,    *)
(* channels and events: who is a member, which address an inner ip was last *)
(* used from, which packets have been taken in from each member and not yet *)
(* routed, and what is still to be sent out.  Relay implements it (module   *)
(* RelaySwitch).                                                            *)
(****************************************************************************)
EXTENDS Naturals, Sequences

CONSTANTS Addr, Ip, Packet, Slot, IgnoreIdle, NoAddr

VARIABLES
  members,   \* addresses that are registered
  leaving,   \* members from which nothing more is taken in
  idle,      \* members that have sent no LAN packet for long
  table,     \* inner ip -> the address it was last used from, or NoAddr
  pending,   \* member -> its packets, in order of arrival, still to be routed
  out        \* slot -> the addresses a routed packet still goes to

svars == <<members, leaving, idle, table, pending, out>>

Init ==
  /\ members = {} /\ leaving = {} /\ idle = {}
  /\ table = [i \in Ip |-> NoAddr]
  /\ pending = [a \in Addr |-> <<>>]
  /\ out = [s \in Slot |-> {}]

(* a sends a LAN packet: a is a member and not idle from then on.  The packet
   is taken in or, at any time, lost; a leaving member's always is. *)
SendPacket(a, p) ==
  /\ members' = members \cup {a}
  /\ idle' = idle \ {a}
  /\ UNCHANGED <<leaving, table, out>>
  /\ \/ a \notin leaving /\ pending' = [pending EXCEPT ![a] = Append(@, p)]
     \/ UNCHANGED pending

(* a sends anything else: a is a member, and it may turn out to be idle. *)
KeepAlive(a) ==
  /\ members' = members \cup {a}
  /\ \/ UNCHANGED idle
     \/ a \in members /\ idle' = idle \cup {a}
  /\ UNCHANGED <<leaving, table, out, pending>>

Recipients(a, p, tab) ==
  IF tab[p.dst] # NoAddr
    THEN {tab[p.dst]}
    ELSE members \ (IF IgnoreIdle THEN idle \cup {a} ELSE {a})

(* The oldest packet of a member is routed: its source is learned, it goes to
   the owner of its destination or else to everybody but its sender. *)
Route(a, s) ==
  /\ a \in members
  /\ out[s] = {}
  /\ UNCHANGED <<members, leaving, idle>>
  /\ pending[a] # <<>>
  /\ LET p   == Head(pending[a])
         tab == [table EXCEPT ![p.src] = a]
     IN  /\ table' = tab
         /\ out' = [out EXCEPT ![s] = Recipients(a, p, tab)]
  /\ pending' = [pending EXCEPT ![a] = Tail(@)]

Deliver(s, b) ==
  /\ b \in out[s]
  /\ out' = [out EXCEPT ![s] = @ \ {b}]
  /\ UNCHANGED <<members, leaving, idle, table, pending>>

(* A silent member starts to leave: its latest packets may be lost, those that
   remain are the oldest. *)
StartLeaving(a) ==
  /\ a \in members \ leaving
  /\ leaving' = leaving \cup {a}
  /\ UNCHANGED <<members, idle, table, out>>
  /\ \E n \in 0 .. Len(pending[a]) :
       pending' = [pending EXCEPT ![a] = SubSeq(@, 1, n)]

(* It is forgotten when all its packets have been routed, and not before. *)
Forget(a) ==
  /\ a \in leaving
  /\ members' = members \ {a}
  /\ leaving' = leaving \ {a}
  /\ idle' = idle \ {a}
  /\ pending[a] = <<>>
  /\ UNCHANGED <<table, out, pending>>

Next ==
  \/ \E a \in Addr :
       \/ \E p \in Packet : SendPacket(a, p)
       \/ KeepAlive(a)
       \/ \E s \in Slot : Route(a, s)
       \/ StartLeaving(a)
       \/ Forget(a)
  \/ \E s \in Slot, b \in Addr : Deliver(s, b)

SwitchSpec == Init /\ [][Next]_svars
=============================================================================

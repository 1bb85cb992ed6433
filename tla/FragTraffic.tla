----------------------------- MODULE FragTraffic -----------------------------
(****************************************************************************)
(* FragParser fed by well-behaved clients, which cut packets into fragments *)
(* of pmtu bytes, and by others whose frames have fields that do not fit    *)
(* together.  An id has 16 bits, so a client uses it again, with fragments  *)
(* of the former packet still in the cache or on their way: the network may *)
(* lose, duplicate and reorder frames and interleave those of different     *)
(* packets.                                                                 *)
(****************************************************************************)
EXTENDS FragParser

CONSTANTS
  Datagram,  \* the packets sent; copies is a bound: how often each of its
             \* fragments may arrive
  Stray      \* the frames that belong to none of them

Content(d) ==
  [b \in 1 .. TotalOf([p \in DOMAIN d.parts |-> Len(d.parts[p])]) |->
     d.parts[1 + ((b - 1) \div d.pmtu)][1 + ((b - 1) % d.pmtu)]]

FrameOf(d, p) ==
  [key |-> d.key, part |-> p - 1, total |-> Len(d.parts), len |-> Len(d.parts[p]),
   pmtu |-> d.pmtu, data |-> d.parts[p]]

Fragment == UNION {{FrameOf(d, p) : p \in DOMAIN d.parts} : d \in Datagram}

ASSUME TrafficAssumption ==
  /\ Datagram \subseteq [key : Key, pmtu : Nat, parts : Seq(Seq(Byte)), copies : Nat]
  /\ \A d \in Datagram : \A p \in DOMAIN d.parts :
       IF p < Len(d.parts) THEN Len(d.parts[p]) = d.pmtu ELSE Len(d.parts[p]) <= d.pmtu
  /\ \A d \in Datagram, f \in Stray : d.key # f.key
  /\ Frame = Stray \cup Fragment

VARIABLES
  delivered,  \* how often each fragment has arrived
  returned,   \* how often each packet has come back out of its own fragments
  held,       \* per key: parts arrived without too long an interruption
  others      \* per key: the keys of fragments that arrived since its last

vars == <<list, order, result, delivered, returned, held, others>>

Init ==
  /\ FragInit
  /\ delivered = [f \in Fragment |-> 0]
  /\ returned = [d \in Datagram |-> 0]
  /\ held = [k \in Key |-> {}]
  /\ others = [k \in Key |-> {}]

(* The list of a packet's id has something of another packet. *)
Foreign(d) ==
  /\ list[d.key] # None
  /\ \/ Len(list[d.key]) # Len(d.parts)
     \/ \E i \in DOMAIN list[d.key] :
          list[d.key][i] \notin {None} \cup {FrameOf(d, p) : p \in DOMAIN d.parts}

(* A frame of key k arrives.  An interruption by fragments of Capacity other
   packets is too long. *)
Interrupt(k, heldOfKey) ==
  /\ others' = [j \in Key |-> IF j = k THEN {} ELSE others[j] \cup {k}]
  /\ held' = [j \in Key |-> IF j = k THEN heldOfKey
                            ELSE IF Cardinality(others'[j]) >= Capacity THEN {}
                            ELSE held[j]]

Deliver(d, p) ==
  LET f == FrameOf(d, p)
  IN  /\ delivered[f] < d.copies
      /\ process(f)
      /\ delivered' = [delivered EXCEPT ![f] = @ + 1]
      /\ returned' = [returned EXCEPT ![d] =
                        IF result' = Content(d) /\ ~Foreign(d) THEN @ + 1 ELSE @]
      /\ Interrupt(d.key, IF result' = None /\ ~Foreign(d) THEN held[d.key] \cup {p} ELSE {})

StrayArrives(f) ==
  /\ process(f)
  /\ Interrupt(f.key, {})
  /\ UNCHANGED <<delivered, returned>>

Next ==
  \/ \E d \in Datagram : \E p \in DOMAIN d.parts : Deliver(d, p)
  \/ \E f \in Stray : StrayArrives(f)

Spec == Init /\ [][Next]_vars

(* What process returns on the fragment of a packet that was sent is nothing
   or this packet, byte for byte, whatever frames of others arrive in between;
   unless the list of its id has something of the packet that used the id
   before: then parts of both are put together. *)
ReturnsWhatWasSent ==
  [][\A d \in Datagram : \A p \in DOMAIN d.parts :
       Deliver(d, p) => result' \in {None, Content(d)} \/ Foreign(d)]_vars

(* A packet is put together of its fragments no more often than each of them
   arrived. *)
ReturnedOnce ==
  \A d \in Datagram : \A p \in DOMAIN d.parts : returned[d] <= delivered[FrameOf(d, p)]

(* Fragments that keep arriving, without any of another packet of their id and
   with fewer than Capacity other packets in between, are all still there (and
   so the last one completes the packet). *)
PromptPacketIsHeld ==
  \A k \in Key : \A p \in held[k] : list[k] # None /\ list[k][p] # None
=============================================================================

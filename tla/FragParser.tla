------------------------------ MODULE FragParser ------------------------------
(****************************************************************************)
(* FragParser (src/slp/frame.rs): packets that clients send in fragments    *)
(* are put together again so that the plugins can look into them.  The      *)
(* parser keeps, per (src_ip, id), the fragments seen so far, in an         *)
(* LruCache of bounded size.  Each plugin that reads packets owns one and   *)
(* calls process under the plugin lock, so calls do not overlap.            *)
(****************************************************************************)
EXTENDS Naturals, Sequences, FiniteSetsExt, Functions

CONSTANTS
  Key,        \* FragParserKey: pairs (src_ip, id)
  Byte,       \* the values of a byte, 0 among them
  Frame,      \* the Ipv4Frag frames that arrive
  Capacity,   \* of the LruCache (50 in the code)
  None, Panic

ASSUME FragAssumption ==
  /\ Frame \subseteq [key : Key, part : Nat, total : Nat, len : Nat, pmtu : Nat,
                      data : Seq(Byte)]
  /\ Capacity \in Nat \ {0}
  /\ 0 \in Byte
  /\ None \notin Frame \cup Seq(Byte) \cup Seq(Frame \cup {None}) \cup {Panic}
  /\ Panic \notin Seq(Byte)

VARIABLES
  list,     \* the cache: per key a Vec<Option<FragItem>>, or None
  order,    \* its keys, the most recently used one first
  result    \* what the last call of process returned

fragVars == <<list, order, result>>

CachedKeys == {k \in Key : list[k] # None}

FragTypeOK ==
  /\ list \in [Key -> Seq(Frame \cup {None}) \cup {None}]
  /\ order \in Seq(Key)
  /\ result \in Seq(Byte) \cup {None, Panic}

FragInit ==
  /\ list = [k \in Key |-> None]
  /\ order = <<>>
  /\ result = None

----------------------------------------------------------------------------
(* Putting the fragments of a full list together.  A list is indexed from 1,
   parts are counted from 0. *)

Start(item) == item.pmtu * item.part

TotalOf(lens) ==
  LET upTo[n \in 0 .. Len(lens)] == IF n = 0 THEN 0 ELSE upTo[n - 1] + lens[n]
  IN  upTo[Len(lens)]

Size(items) == TotalOf([i \in DOMAIN items |-> items[i].len])

(* packet.get_mut(start..end) is None *)
OutOfRange(items, i) == Start(items[i]) + items[i].len > Size(items)

(* copy_from_slice between slices of different lengths panics *)
Uneven(items, i) == Len(items[i].data) # items[i].len

(* The last fragment that covers a byte determines it; 0 where none does. *)
Covering(items, b) ==
  {i \in DOMAIN items : Start(items[i]) < b /\ b <= Start(items[i]) + items[i].len}

(* Fault: the buffer is not zeroed. *)
ByteAt_Uninit(items, b) ==
  IF Covering(items, b) = {} THEN None
  ELSE LET i == Max(Covering(items, b)) IN items[i].data[b - Start(items[i])]

ByteAt(items, b) ==
  IF Covering(items, b) = {} THEN 0
  ELSE LET i == Max(Covering(items, b)) IN items[i].data[b - Start(items[i])]

(* Fault: the slice is not checked. *)
Assemble_Unchecked(items) ==
  LET bad == {i \in DOMAIN items : OutOfRange(items, i) \/ Uneven(items, i)}
  IN  IF bad = {} THEN [b \in 1 .. Size(items) |-> ByteAt(items, b)] ELSE Panic

Assemble(items) ==
  LET bad == {i \in DOMAIN items : OutOfRange(items, i) \/ Uneven(items, i)}
  IN  IF bad = {} THEN [b \in 1 .. Size(items) |-> ByteAt(items, b)]
      ELSE IF OutOfRange(items, Min(bad)) THEN None
      ELSE Panic

----------------------------------------------------------------------------
(* LruCache: get_mut and put make their key the most recently used one, put
   evicts the least recently used key from a full cache. *)

Without(k) ==
  LET i == CHOOSE j \in DOMAIN order : order[j] = k
  IN  [j \in 1 .. Len(order) - 1 |-> IF j < i THEN order[j] ELSE order[j + 1]]

(* Fault: peek instead of get_mut. *)
Touched_Peek(k) ==
  IF list[k] # None THEN order
  ELSE IF Len(order) = Capacity THEN <<k>> \o SubSeq(order, 1, Capacity - 1)
  ELSE <<k>> \o order

Touched(k) ==
  IF list[k] # None THEN <<k>> \o Without(k)
  ELSE IF Len(order) = Capacity THEN <<k>> \o SubSeq(order, 1, Capacity - 1)
  ELSE <<k>> \o order

Evicted_Kept(k) == {}

Evicted(k) ==
  IF list[k] = None /\ Len(order) = Capacity THEN {order[Capacity]} ELSE {}

(* The list that process works on: of the first fragment of a key, its
   total_part decides the length. *)
ListFor(f) == IF list[f.key] # None THEN list[f.key] ELSE [i \in 1 .. f.total |-> None]

(* Fault: fragments are lined up as they come. *)
Filled_Push(f) ==
  LET free == {i \in DOMAIN ListFor(f) : ListFor(f)[i] = None}
  IN  [ListFor(f) EXCEPT ![IF free = {} THEN f.part + 1 ELSE Min(free)] = f]

Filled(f) == [ListFor(f) EXCEPT ![f.part + 1] = f]

IsFull(items) == \A i \in DOMAIN items : items[i] # None

(* The cache after f.key has been touched and its list is items or, when it
   has been popped, None. *)
Store(k, items) ==
  /\ list' = [j \in Key |-> IF j = k THEN items
                            ELSE IF j \in Evicted(k) THEN None ELSE list[j]]
  /\ order' = IF items = None THEN Tail(Touched(k)) ELSE Touched(k)

(* A part that the list has no place for; the list stays, even if new. *)
NoSuchPart(f) ==
  /\ f.part >= Len(ListFor(f))
  /\ Store(f.key, ListFor(f))
  /\ result' = None

StillIncomplete(f) ==
  /\ f.part < Len(ListFor(f))
  /\ ~IsFull(Filled(f))
  /\ Store(f.key, Filled(f))
  /\ result' = None

(* Fault: the list is copied, not popped. *)
Complete_Copied(f) ==
  /\ f.part < Len(ListFor(f))
  /\ IsFull(Filled(f))
  /\ Store(f.key, Filled(f))
  /\ result' = Assemble(Filled(f))

(* The list is popped before its fragments are put together. *)
Complete(f) ==
  /\ f.part < Len(ListFor(f))
  /\ IsFull(Filled(f))
  /\ Store(f.key, None)
  /\ result' = Assemble(Filled(f))

(* A panic ends the task that called process: no further call. *)
process(f) ==
  /\ result # Panic
  /\ NoSuchPart(f) \/ StillIncomplete(f) \/ Complete(f)

FragNext == \E f \in Frame : process(f)

FragSpec == FragInit /\ [][FragNext]_fragVars

----------------------------------------------------------------------------
(* A list that is full does not stay in the cache: an entry that is not popped
   would hand its packet out again with every late fragment. *)
NoFullEntry ==
  \A k \in CachedKeys : list[k] = <<>> \/ \E i \in DOMAIN list[k] : list[k][i] = None

(* A packet is put together from fragments of one sender and id, each at the
   place its part says. *)
KeptInPlace ==
  \A k \in CachedKeys : \A i \in DOMAIN list[k] :
    list[k][i] # None => list[k][i].key = k /\ list[k][i].part + 1 = i

(* The list of a key lives exactly as long as LruCache keeps the key, and there
   are never more than Capacity of them. *)
OrderOfCache ==
  /\ Len(order) <= Capacity
  /\ Range(order) = CachedKeys
  /\ \A i, j \in DOMAIN order : order[i] = order[j] => i = j

(* Whatever pmtu, part and total_part say, process does not slice out of
   bounds: it may only panic over a fragment whose len is not its length. *)
PanicOnlyIfUneven ==
  result = Panic => \E f \in Frame : Len(f.data) # f.len
=============================================================================

------------------------------ MODULE FragProofs ------------------------------
(* What FragParser keeps is in its place and incomplete, for all frames, keys
   and capacities, whatever the fields of the frames say; and of packets of any
   size that clients cut into fragments, what FragTraffic promises. *)
EXTENDS FragTraffic, NumberProofs, FiniteSetTheorems, TLAPS

(* The lists of the cache, of whatever length: the types are needed since a
   list is only a sequence by them. *)
ListTypeOK == list \in [Key -> Seq(Frame \cup {None}) \cup {None}]

CacheInv == ListTypeOK /\ KeptInPlace /\ NoFullEntry

(* What process works on, before and after it has put its fragment in. *)
InPlace(items, k) ==
  \A i \in DOMAIN items : items[i] # None => items[i].key = k /\ items[i].part + 1 = i

(* The fields of a frame that the cache is organised by. *)
LEMMA FrameFields ==
  ASSUME NEW f \in Frame
  PROVE  f.key \in Key /\ f.part \in Nat /\ f.total \in Nat
  BY FragAssumption

(* The list of a key, an old or a new one, is a list of fragments in place. *)
LEMMA ListForInPlace ==
  ASSUME CacheInv, NEW f \in Frame
  PROVE  /\ ListFor(f) \in Seq(Frame \cup {None})
         /\ InPlace(ListFor(f), f.key)
<1>1. CASE list[f.key] # None
  <2>1. ListFor(f) = list[f.key]
    BY <1>1 DEF ListFor
  <2>2. f.key \in CachedKeys
    BY <1>1, FrameFields DEF CachedKeys
  <2> QED
    BY <1>1, <2>1, <2>2, FrameFields DEF CacheInv, ListTypeOK, KeptInPlace, InPlace
<1>2. CASE list[f.key] = None
  <2>1. ListFor(f) = [i \in 1 .. f.total |-> None]
    BY <1>2 DEF ListFor
  <2> QED
    BY <2>1, FrameFields DEF InPlace
<1> QED
  BY <1>1, <1>2

(* So is the list with the fragment in it, if it has a place for it. *)
LEMMA FilledInPlace ==
  ASSUME CacheInv, NEW f \in Frame, f.part < Len(ListFor(f))
  PROVE  /\ Filled(f) \in Seq(Frame \cup {None})
         /\ InPlace(Filled(f), f.key)
<1> DEFINE items == ListFor(f)
<1>1. items \in Seq(Frame \cup {None}) /\ InPlace(items, f.key)
  BY ListForInPlace
<1>2. f.part + 1 \in 1 .. Len(items)
  BY <1>1, FrameFields
<1>3. Filled(f) = [items EXCEPT ![f.part + 1] = f]
  BY DEF Filled
<1> HIDE DEF items
<1>4. Filled(f) \in Seq(Frame \cup {None}) /\ DOMAIN Filled(f) = DOMAIN items
  BY <1>1, <1>2, <1>3
<1>5. \A i \in DOMAIN items : Filled(f)[i] = IF i = f.part + 1 THEN f ELSE items[i]
  BY <1>1, <1>2, <1>3
<1> QED
  BY <1>1, <1>4, <1>5 DEF InPlace

(* Storing a list that is in place and has a gap keeps the invariant: the other
   lists stay as they are or are evicted. *)
LEMMA StoreKeeps ==
  ASSUME CacheInv, NEW k \in Key, NEW items, Store(k, items),
         items = None \/ /\ items \in Seq(Frame \cup {None})
                         /\ InPlace(items, k)
                         /\ items = <<>> \/ \E i \in DOMAIN items : items[i] = None
  PROVE  CacheInv'
<1>1. list' = [j \in Key |-> IF j = k THEN items
                             ELSE IF j \in Evicted(k) THEN None ELSE list[j]]
  BY DEF Store
<1>2. \A j \in Key : list'[j] = IF j = k THEN items
                                ELSE IF j \in Evicted(k) THEN None ELSE list[j]
  BY <1>1
<1>3. ListTypeOK'
  BY <1>1, <1>2 DEF CacheInv, ListTypeOK
<1>4. ASSUME NEW j \in CachedKeys'
      PROVE  \/ j = k /\ list'[j] = items /\ items # None
             \/ j \in CachedKeys /\ list'[j] = list[j]
  BY <1>2, <1>4 DEF CachedKeys
<1>5. KeptInPlace'
  <2> SUFFICES ASSUME NEW j \in CachedKeys', NEW i \in DOMAIN list'[j], list'[j][i] # None
               PROVE  list'[j][i].key = j /\ list'[j][i].part + 1 = i
    BY DEF KeptInPlace
  <2> QED
    BY <1>4 DEF CacheInv, KeptInPlace, InPlace
<1>6. NoFullEntry'
  <2> SUFFICES ASSUME NEW j \in CachedKeys'
               PROVE  list'[j] = <<>> \/ \E i \in DOMAIN list'[j] : list'[j][i] = None
    BY DEF NoFullEntry
  <2> QED
    BY <1>4 DEF CacheInv, NoFullEntry
<1> QED
  BY <1>3, <1>5, <1>6 DEF CacheInv

(* A new list, which process leaves behind when the part does not fit, has a
   gap as well: it is all gaps. *)
LEMMA ListForHasGap ==
  ASSUME CacheInv, NEW f \in Frame
  PROVE  ListFor(f) = <<>> \/ \E i \in DOMAIN ListFor(f) : ListFor(f)[i] = None
<1>1. CASE list[f.key] # None
  <2>1. ListFor(f) = list[f.key] /\ f.key \in CachedKeys
    BY <1>1, FrameFields DEF ListFor, CachedKeys
  <2> QED
    BY <2>1 DEF CacheInv, NoFullEntry
<1>2. CASE list[f.key] = None
  <2>1. ListFor(f) = [i \in 1 .. f.total |-> None]
    BY <1>2 DEF ListFor
  <2>2. CASE f.total = 0
    BY <2>1, <2>2
  <2>3. CASE f.total # 0
    <3>1. 1 \in 1 .. f.total
      BY <2>3, FrameFields
    <3> QED
      BY <2>1, <3>1
  <2> QED
    BY <2>2, <2>3
<1> QED
  BY <1>1, <1>2

(* So every call of process keeps the invariant; the full list of a complete
   packet is the one that is not stored. *)
LEMMA processKeeps ==
  ASSUME CacheInv, NEW f \in Frame, process(f)
  PROVE  CacheInv'
<1>1. CASE NoSuchPart(f)
  BY <1>1, FrameFields, ListForInPlace, ListForHasGap, StoreKeeps DEF NoSuchPart
<1>2. CASE StillIncomplete(f)
  <2>1. f.part < Len(ListFor(f)) /\ ~IsFull(Filled(f)) /\ Store(f.key, Filled(f))
    BY <1>2 DEF StillIncomplete
  <2>2. \E i \in DOMAIN Filled(f) : Filled(f)[i] = None
    BY <2>1 DEF IsFull
  <2> QED
    BY <2>1, <2>2, FrameFields, FilledInPlace, StoreKeeps
<1>3. CASE Complete(f)
  BY <1>3, FrameFields, StoreKeeps DEF Complete
<1> QED
  BY <1>1, <1>2, <1>3 DEF process

(* The invariant of the cache of FragParser::process. *)
THEOREM CacheInvHolds == FragSpec => []CacheInv
<1>1. FragInit => CacheInv
  BY DEF FragInit, CacheInv, ListTypeOK, KeptInPlace, NoFullEntry, CachedKeys
<1>2. CacheInv /\ [FragNext]_fragVars => CacheInv'
  <2> SUFFICES ASSUME CacheInv, [FragNext]_fragVars PROVE CacheInv'
    OBVIOUS
  <2>1. CASE FragNext
    BY <2>1, processKeeps DEF FragNext
  <2>2. CASE UNCHANGED fragVars
    BY <2>2 DEF fragVars, CacheInv, ListTypeOK, KeptInPlace, NoFullEntry, CachedKeys
  <2> QED
    BY <2>1, <2>2
<1> QED
  BY <1>1, <1>2, PTL DEF FragSpec

(* A packet is only ever put together from fragments of one sender and id, each
   at the place that its part says (frame.rs, process). *)
THEOREM KeptInPlaceHolds == FragSpec => []KeptInPlace
  BY CacheInvHolds, PTL DEF CacheInv

(* A packet whose fragments are all there does not stay in the cache, to be
   returned again by a late duplicate (frame.rs, the pop in process). *)
THEOREM NoFullEntryHolds == FragSpec => []NoFullEntry
  BY CacheInvHolds, PTL DEF CacheInv
----------------------------------------------------------------------------
(* The order of the cache. *)

OrderTypeOK == order \in Seq(Key)

OrderInv == OrderTypeOK /\ OrderOfCache

(* Taking a key out of the order leaves the others as they stood. *)
LEMMA WithoutOrder ==
  ASSUME OrderInv, NEW k \in CachedKeys
  PROVE  /\ Without(k) \in Seq(Key)
         /\ Len(Without(k)) = Len(order) - 1
         /\ Range(Without(k)) = CachedKeys \ {k}
         /\ \A i, j \in DOMAIN Without(k) : Without(k)[i] = Without(k)[j] => i = j
<1> DEFINE i == CHOOSE j \in DOMAIN order : order[j] = k
           n == Len(order)
<1>1. /\ order \in Seq(Key) /\ n \in Nat /\ DOMAIN order = 1 .. n
      /\ \A j, l \in 1 .. n : order[j] = order[l] => j = l
  BY DEF OrderInv, OrderTypeOK, OrderOfCache
<1>2. /\ \A j \in 1 .. n : order[j] \in CachedKeys
      /\ \A c \in CachedKeys : \E j \in 1 .. n : order[j] = c
  BY <1>1 DEF OrderInv, OrderOfCache, Range
<1>3. i \in 1 .. n /\ order[i] = k
  BY <1>1, <1>2
<1>4. Without(k) = [j \in 1 .. n - 1 |-> IF j < i THEN order[j] ELSE order[j + 1]]
  BY DEF Without
<1> HIDE DEF i, n
<1>5. /\ n - 1 \in Nat
      /\ \A j \in 1 .. n - 1 : /\ j \in 1 .. n /\ j + 1 \in 1 .. n
                               /\ order[j] \in Key /\ order[j + 1] \in Key
  BY <1>1, <1>3
<1>6. Without(k) \in Seq(Key)
  BY <1>4, <1>5
<1>7. Len(Without(k)) = n - 1 /\ DOMAIN Without(k) = 1 .. n - 1
  BY <1>4, <1>5
<1>8. \A j \in 1 .. n - 1 : Without(k)[j] = order[IF j < i THEN j ELSE j + 1]
  BY <1>4
<1>9. ASSUME NEW c \in CachedKeys \ {k} PROVE \E j \in 1 .. n - 1 : Without(k)[j] = c
  <2>1. PICK l \in 1 .. n : order[l] = c
    BY <1>2
  <2>2. l # i
    BY <2>1, <1>3
  <2>3. CASE l < i
    <3>1. l \in 1 .. n - 1
      BY <2>3, <1>1, <1>3
    <3> QED
      BY <3>1, <2>1, <2>3, <1>8
  <2>4. CASE l > i
    <3>1. l - 1 \in 1 .. n - 1 /\ ~(l - 1 < i) /\ (l - 1) + 1 = l
      BY <2>4, <1>1, <1>3
    <3> QED
      BY <3>1, <2>1, <1>8
  <2> QED
    BY <2>2, <2>3, <2>4, <1>3
<1>10. ASSUME NEW j \in 1 .. n - 1 PROVE Without(k)[j] \in CachedKeys \ {k}
  <2>1. (IF j < i THEN j ELSE j + 1) \in 1 .. n /\ (IF j < i THEN j ELSE j + 1) # i
    BY <1>3, <1>5
  <2> QED
    BY <2>1, <1>1, <1>2, <1>3, <1>8
<1>11. Range(Without(k)) = CachedKeys \ {k}
  BY <1>7, <1>9, <1>10 DEF Range
<1>12. ASSUME NEW j \in 1 .. n - 1, NEW l \in 1 .. n - 1, Without(k)[j] = Without(k)[l]
       PROVE  j = l
  <2>1. (IF j < i THEN j ELSE j + 1) = (IF l < i THEN l ELSE l + 1)
    <3>1. (IF j < i THEN j ELSE j + 1) \in 1 .. n /\ (IF l < i THEN l ELSE l + 1) \in 1 .. n
      BY <1>5
    <3> QED
      BY <3>1, <1>1, <1>8, <1>12
  <2> QED
    BY <2>1, <1>3
<1> QED
  BY <1>6, <1>7, <1>11, <1>12 DEF n

(* A key in front of an order without it. *)
LEMMA ConsOrder ==
  ASSUME NEW k \in Key, NEW s \in Seq(Key), k \notin Range(s),
         \A i, j \in DOMAIN s : s[i] = s[j] => i = j
  PROVE  LET t == <<k>> \o s
         IN  /\ t \in Seq(Key) /\ Len(t) = Len(s) + 1
             /\ Range(t) = Range(s) \cup {k}
             /\ \A i, j \in DOMAIN t : t[i] = t[j] => i = j
             /\ Tail(t) = s
<1> DEFINE t == <<k>> \o s
           n == Len(s)
<1>1. n \in Nat /\ DOMAIN s = 1 .. n /\ \A i \in 1 .. n : s[i] \in Key
  OBVIOUS
<1>2. t \in Seq(Key) /\ Len(t) = n + 1
  OBVIOUS
<1>3. DOMAIN t = 1 .. n + 1 /\ t[1] = k /\ \A i \in 1 .. n : t[i + 1] = s[i]
  OBVIOUS
<1>4. \A i \in 1 .. n : s[i] # k
  BY <1>1 DEF Range
<1>5. \A i \in 1 .. n + 1 : i = 1 \/ (i - 1 \in 1 .. n /\ t[i] = s[i - 1])
  <2> SUFFICES ASSUME NEW i \in 1 .. n + 1, i # 1
               PROVE  i - 1 \in 1 .. n /\ t[i] = s[i - 1]
    OBVIOUS
  <2>1. i - 1 \in 1 .. n /\ (i - 1) + 1 = i
    BY <1>1
  <2> QED
    BY <2>1, <1>3
<1>6. Tail(t) = s
  OBVIOUS
<1> HIDE DEF t, n
<1>7. ASSUME NEW i \in 1 .. n + 1, NEW j \in 1 .. n + 1, t[i] = t[j] PROVE i = j
  <2>1. CASE i = 1 \/ j = 1
    BY <2>1, <1>3, <1>4, <1>5, <1>7
  <2>2. CASE i # 1 /\ j # 1
    <3>1. i - 1 \in 1 .. n /\ j - 1 \in 1 .. n /\ s[i - 1] = s[j - 1]
      BY <2>2, <1>5, <1>7
    <3>2. i - 1 = j - 1
      BY <3>1, <1>1
    <3> QED
      BY <3>2, <1>1
  <2> QED
    BY <2>1, <2>2
<1>8. Range(t) = Range(s) \cup {k}
  <2>1. \A c \in Range(t) : c = k \/ c \in Range(s)
    BY <1>1, <1>3, <1>5 DEF Range
  <2>2. \A i \in 1 .. n : i + 1 \in 1 .. n + 1
    BY <1>1
  <2>3. \A c \in Range(s) : c \in Range(t)
    BY <1>1, <1>3, <2>2 DEF Range
  <2>4. 1 \in 1 .. n + 1
    BY <1>1
  <2>5. k \in Range(t)
    BY <1>3, <2>4 DEF Range
  <2> QED
    BY <2>1, <2>3, <2>5
<1> QED
  BY <1>2, <1>3, <1>6, <1>7, <1>8 DEF t, n

(* A full order without its last key. *)
LEMMA ShortenedOrder ==
  ASSUME OrderInv, Len(order) = Capacity
  PROVE  LET s == SubSeq(order, 1, Capacity - 1)
         IN  /\ s \in Seq(Key) /\ Len(s) = Capacity - 1
             /\ order[Capacity] \in CachedKeys
             /\ Range(s) = CachedKeys \ {order[Capacity]}
             /\ \A i, j \in DOMAIN s : s[i] = s[j] => i = j
<1> DEFINE n == Capacity
           s == SubSeq(order, 1, n - 1)
<1>1. n \in Nat /\ n - 1 \in Nat /\ 1 .. n - 1 \subseteq 1 .. n /\ n \in 1 .. n
  BY FragAssumption
<1>2. /\ order \in Seq(Key) /\ DOMAIN order = 1 .. n
      /\ \A j, l \in 1 .. n : order[j] = order[l] => j = l
  BY DEF OrderInv, OrderTypeOK, OrderOfCache
<1>3. /\ \A j \in 1 .. n : order[j] \in CachedKeys
      /\ \A c \in CachedKeys : \E j \in 1 .. n : order[j] = c
  BY <1>2 DEF OrderInv, OrderOfCache, Range
<1>4. /\ s \in Seq(Key) /\ Len(s) = n - 1 /\ DOMAIN s = 1 .. n - 1
      /\ \A j \in 1 .. n - 1 : s[j] = order[j]
  BY <1>1, <1>2
<1> HIDE DEF s, n
<1>5. \A j \in 1 .. n : j \in 1 .. n - 1 \/ j = n
  BY <1>1
<1>6. \A j \in 1 .. n - 1 : j # n
  BY <1>1
<1>7. Range(s) = CachedKeys \ {order[n]}
  <2>1. \A c \in Range(s) : c \in CachedKeys /\ c # order[n]
    BY <1>1, <1>2, <1>3, <1>4, <1>6 DEF Range
  <2>2. \A c \in CachedKeys \ {order[n]} : c \in Range(s)
    BY <1>3, <1>4, <1>5 DEF Range
  <2> QED
    BY <2>1, <2>2
<1>8. \A i, j \in DOMAIN s : s[i] = s[j] => i = j
  BY <1>1, <1>2, <1>4
<1> QED
  BY <1>1, <1>3, <1>4, <1>7, <1>8 DEF s, n

(* A key that is used comes first; with a new one in a full cache the key used
   least recently goes, from the order as from the cache. *)
LEMMA TouchedOrder ==
  ASSUME OrderInv, NEW k \in Key
  PROVE  LET t == Touched(k)
         IN  /\ t \in Seq(Key) /\ Len(t) <= Capacity /\ Len(t) \in Nat
             /\ Range(t) = (CachedKeys \ Evicted(k)) \cup {k}
             /\ \A i, j \in DOMAIN t : t[i] = t[j] => i = j
             /\ Tail(t) \in Seq(Key) /\ Len(Tail(t)) <= Capacity
             /\ Range(Tail(t)) = (CachedKeys \ Evicted(k)) \ {k}
             /\ \A i, j \in DOMAIN Tail(t) : Tail(t)[i] = Tail(t)[j] => i = j
<1>1. ASSUME NEW s \in Seq(Key), Touched(k) = <<k>> \o s, Len(s) + 1 <= Capacity,
             Range(s) = (CachedKeys \ Evicted(k)) \ {k},
             \A i, j \in DOMAIN s : s[i] = s[j] => i = j
      PROVE  LET t == Touched(k)
             IN  /\ t \in Seq(Key) /\ Len(t) <= Capacity /\ Len(t) \in Nat
                 /\ Range(t) = (CachedKeys \ Evicted(k)) \cup {k}
                 /\ \A i, j \in DOMAIN t : t[i] = t[j] => i = j
                 /\ Tail(t) \in Seq(Key) /\ Len(Tail(t)) <= Capacity
                 /\ Range(Tail(t)) = (CachedKeys \ Evicted(k)) \ {k}
                 /\ \A i, j \in DOMAIN Tail(t) : Tail(t)[i] = Tail(t)[j] => i = j
  <2> DEFINE t == <<k>> \o s
  <2>1. k \notin Range(s)
    BY <1>1
  <2>2. /\ t \in Seq(Key) /\ Len(t) = Len(s) + 1 /\ Range(t) = Range(s) \cup {k}
        /\ \A i, j \in DOMAIN t : t[i] = t[j] => i = j
        /\ Tail(t) = s
    BY <1>1, <2>1, ConsOrder
  <2> HIDE DEF t
  <2>3. Len(s) <= Capacity /\ Len(t) \in Nat
    BY <1>1, <2>2, FragAssumption
  <2>4. Touched(k) = t
    BY <1>1 DEF t
  <2> QED
    BY <1>1, <2>2, <2>3, <2>4
<1>2. Len(order) \in Nat /\ Len(order) <= Capacity /\ Range(order) = CachedKeys
      /\ order \in Seq(Key) /\ \A i, j \in DOMAIN order : order[i] = order[j] => i = j
  BY DEF OrderInv, OrderTypeOK, OrderOfCache
<1>3. CASE list[k] # None
  <2>1. k \in CachedKeys
    BY <1>3 DEF CachedKeys
  <2>2. Touched(k) = <<k>> \o Without(k) /\ Evicted(k) = {}
    BY <1>3 DEF Touched, Evicted
  <2>3. /\ Without(k) \in Seq(Key) /\ Len(Without(k)) = Len(order) - 1
        /\ Range(Without(k)) = CachedKeys \ {k}
        /\ \A i, j \in DOMAIN Without(k) : Without(k)[i] = Without(k)[j] => i = j
    BY <2>1, WithoutOrder
  <2>4. Len(Without(k)) + 1 <= Capacity
    BY <2>3, <1>2, FragAssumption
  <2>5. Range(Without(k)) = (CachedKeys \ Evicted(k)) \ {k}
    BY <2>2, <2>3
  <2> QED
    BY <1>1, <2>2, <2>3, <2>4, <2>5
<1>4. CASE list[k] = None /\ Len(order) = Capacity
  <2> DEFINE s == SubSeq(order, 1, Capacity - 1)
  <2>1. k \notin CachedKeys
    BY <1>4 DEF CachedKeys
  <2>2. Touched(k) = <<k>> \o s /\ Evicted(k) = {order[Capacity]}
    BY <1>4 DEF Touched, Evicted
  <2>3. /\ s \in Seq(Key) /\ Len(s) = Capacity - 1
        /\ Range(s) = CachedKeys \ {order[Capacity]}
        /\ \A i, j \in DOMAIN s : s[i] = s[j] => i = j
    BY <1>4, ShortenedOrder
  <2> HIDE DEF s
  <2>4. Len(s) + 1 <= Capacity
    BY <2>3, FragAssumption
  <2>5. Range(s) = (CachedKeys \ Evicted(k)) \ {k}
    BY <2>1, <2>2, <2>3
  <2> QED
    BY <1>1, <2>2, <2>3, <2>4, <2>5
<1>5. CASE list[k] = None /\ Len(order) # Capacity
  <2>1. k \notin CachedKeys
    BY <1>5 DEF CachedKeys
  <2>2. Touched(k) = <<k>> \o order /\ Evicted(k) = {}
    BY <1>5 DEF Touched, Evicted
  <2>3. Len(order) + 1 <= Capacity
    BY <1>5, <1>2, FragAssumption
  <2>4. Range(order) = (CachedKeys \ Evicted(k)) \ {k}
    BY <1>2, <2>1, <2>2
  <2> QED
    BY <1>1, <1>2, <2>2, <2>3, <2>4
<1> QED
  BY <1>3, <1>4, <1>5

LEMMA StoreKeepsOrder ==
  ASSUME OrderInv, list \in [Key -> Seq(Frame \cup {None}) \cup {None}],
         NEW k \in Key, NEW items, Store(k, items)
  PROVE  OrderInv'
<1> DEFINE t == Touched(k)
<1>1. /\ t \in Seq(Key) /\ Len(t) <= Capacity
      /\ Range(t) = (CachedKeys \ Evicted(k)) \cup {k}
      /\ \A i, j \in DOMAIN t : t[i] = t[j] => i = j
      /\ Tail(t) \in Seq(Key) /\ Len(Tail(t)) <= Capacity
      /\ Range(Tail(t)) = (CachedKeys \ Evicted(k)) \ {k}
      /\ \A i, j \in DOMAIN Tail(t) : Tail(t)[i] = Tail(t)[j] => i = j
  BY TouchedOrder
<1>2. order' = IF items = None THEN Tail(t) ELSE t
  BY DEF Store
<1>3. \A j \in Key : list'[j] = IF j = k THEN items
                                ELSE IF j \in Evicted(k) THEN None ELSE list[j]
  BY DEF Store
<1> HIDE DEF t
<1>4. CachedKeys' = IF items = None THEN (CachedKeys \ Evicted(k)) \ {k}
                    ELSE (CachedKeys \ Evicted(k)) \cup {k}
  BY <1>3 DEF CachedKeys
<1> QED
  BY <1>1, <1>2, <1>4 DEF OrderInv, OrderTypeOK, OrderOfCache

THEOREM OrderHolds == FragSpec => []OrderInv
<1>1. FragInit => OrderInv
  <2> SUFFICES ASSUME FragInit PROVE OrderInv
    OBVIOUS
  <2>1. order = <<>> /\ CachedKeys = {}
    BY DEF FragInit, CachedKeys
  <2> QED
    BY <2>1, FragAssumption DEF OrderInv, OrderTypeOK, OrderOfCache, Range
<1>2. CacheInv /\ OrderInv /\ [FragNext]_fragVars => OrderInv'
  <2> SUFFICES ASSUME CacheInv, OrderInv, [FragNext]_fragVars PROVE OrderInv'
    OBVIOUS
  <2>1. CASE FragNext
    <3>1. PICK f \in Frame : process(f)
      BY <2>1 DEF FragNext
    <3>2. \E items : Store(f.key, items)
      BY <3>1 DEF process, NoSuchPart, StillIncomplete, Complete
    <3> QED
      BY <3>2, FrameFields, StoreKeepsOrder DEF CacheInv, ListTypeOK
  <2>2. CASE UNCHANGED fragVars
    BY <2>2 DEF fragVars, OrderInv, OrderTypeOK, OrderOfCache, CachedKeys
  <2> QED
    BY <2>1, <2>2
<1> QED
  BY <1>1, <1>2, CacheInvHolds, PTL DEF FragSpec

(* The cache has a list exactly for the keys in its order, each once, and never
   more than its capacity (lru::LruCache as process uses it, frame.rs). *)
THEOREM OrderOfCacheHolds == FragSpec => []OrderOfCache
  BY OrderHolds, PTL DEF OrderInv

----------------------------------------------------------------------------
(* What process returns. *)

(* The running total that TotalOf ends with. *)
IsTotal(lens, m, f) ==
  f = [n \in 0 .. m |-> IF n = 0 THEN 0 ELSE f[n - 1] + lens[n]]

LEMMA TotalExists ==
  ASSUME NEW lens
  PROVE  \A m \in Nat : \E f : IsTotal(lens, m, f)
<1> DEFINE P == {m \in Nat : \E f : IsTotal(lens, m, f)}
<1>1. 0 \in P
  <2>1. IsTotal(lens, 0, [n \in 0 .. 0 |-> 0])
    BY DEF IsTotal
  <2> QED
    BY <2>1
<1>2. ASSUME NEW m \in Nat, m \in P PROVE m + 1 \in P
  <2>1. PICK f : IsTotal(lens, m, f)
    BY <1>2
  <2> DEFINE g == [n \in 0 .. m + 1 |-> IF n # m + 1 THEN f[n] ELSE f[n - 1] + lens[n]]
  <2>2. ASSUME NEW n \in 0 .. m + 1
        PROVE  g[n] = IF n = 0 THEN 0 ELSE g[n - 1] + lens[n]
    <3>1. CASE n = m + 1
      <4>1. n # 0 /\ n - 1 \in 0 .. m + 1 /\ n - 1 # m + 1
        BY <3>1
      <4> QED
        BY <3>1, <4>1
    <3>2. CASE n # m + 1
      <4>1. n \in 0 .. m /\ (n # 0 => n - 1 \in 0 .. m + 1 /\ n - 1 # m + 1)
        BY <3>2
      <4>2. f[n] = IF n = 0 THEN 0 ELSE f[n - 1] + lens[n]
        BY <4>1, <2>1 DEF IsTotal
      <4>3. g[n] = f[n] /\ (n # 0 => g[n - 1] = f[n - 1])
        BY <4>1, <3>2
      <4> QED
        BY <4>2, <4>3
    <3> QED
      BY <3>1, <3>2
  <2>3. IsTotal(lens, m + 1, g)
    BY <2>2 DEF IsTotal
  <2> QED
    BY <2>3
<1> HIDE DEF P
<1>3. Nat \subseteq P
  BY <1>1, <1>2, SetInduction
<1> QED
  BY <1>3 DEF P

(* The size of a packet is a number. *)
LEMMA TotalIsNumber ==
  ASSUME NEW lens, Len(lens) \in Nat, \A i \in 1 .. Len(lens) : lens[i] \in Nat
  PROVE  TotalOf(lens) \in Nat
<1> DEFINE n == Len(lens)
           f == CHOOSE g : IsTotal(lens, n, g)
           P == {m \in Nat : m <= n => f[m] \in Nat}
<1>1. IsTotal(lens, n, f)
  BY TotalExists
<1>2. TotalOf(lens) = f[n]
  BY DEF TotalOf, IsTotal
<1> HIDE DEF f
<1>3. 0 \in P
  BY <1>1 DEF IsTotal
<1>4. ASSUME NEW m \in Nat, m \in P PROVE m + 1 \in P
  <2> SUFFICES ASSUME m + 1 <= n PROVE f[m + 1] \in Nat
    OBVIOUS
  <2>1. f[m] \in Nat /\ m + 1 \in 1 .. n /\ (m + 1) - 1 = m /\ m + 1 # 0 /\ m + 1 \in 0 .. n
    BY <1>4
  <2>2. f[m + 1] = f[m] + lens[m + 1]
    BY <2>1, <1>1 DEF IsTotal
  <2> QED
    BY <2>1, <2>2
<1> HIDE DEF P
<1>5. Nat \subseteq P
  BY <1>3, <1>4, SetInduction
<1> QED
  BY <1>2, <1>5 DEF P

(* The fragments of a full list: byte ranges that start and end at numbers. *)
LEMMA FullList ==
  ASSUME NEW items \in Seq(Frame \cup {None}), IsFull(items)
  PROVE  /\ \A i \in DOMAIN items : items[i] \in Frame /\ Start(items[i]) \in Nat
         /\ Size(items) \in Nat
         /\ Len(items) \in Nat /\ DOMAIN items = 1 .. Len(items)
<1>1. \A i \in DOMAIN items : items[i] \in Frame
  BY DEF IsFull
<1>2. \A i \in DOMAIN items : items[i].pmtu \in Nat /\ items[i].part \in Nat
                              /\ items[i].len \in Nat
  BY <1>1, FragAssumption
<1>3. \A x, y \in Nat : x * y \in Nat
  OBVIOUS
<1>4. \A i \in DOMAIN items : Start(items[i]) \in Nat
  BY <1>2, <1>3 DEF Start
<1> DEFINE lens == [i \in DOMAIN items |-> items[i].len]
<1>5. Len(items) \in Nat /\ DOMAIN items = 1 .. Len(items)
  OBVIOUS
<1>6. Len(lens) = Len(items) /\ \A i \in 1 .. Len(lens) : lens[i] \in Nat
  BY <1>2, <1>5
<1>7. TotalOf(lens) \in Nat
  BY <1>5, <1>6, TotalIsNumber
<1> QED
  BY <1>1, <1>4, <1>5, <1>7 DEF Size

(* A byte of a packet whose ranges are right is a byte of a fragment, or 0. *)
LEMMA ByteAtIsByte ==
  ASSUME NEW items \in Seq(Frame \cup {None}), IsFull(items),
         \A i \in DOMAIN items : ~Uneven(items, i),
         NEW b \in Nat
  PROVE  ByteAt(items, b) \in Byte
<1> DEFINE C == Covering(items, b)
<1>1. CASE C = {}
  BY <1>1, FragAssumption DEF ByteAt
<1>2. CASE C # {}
  <2>1. C \subseteq 0 .. Len(items) /\ Len(items) \in Nat
    BY FullList DEF Covering
  <2>2. \E m \in C : \A k \in C : k <= m
    BY <1>2, <2>1, GreatestNumber
  <2>3. \E m \in C : \A k \in C : m >= k
    BY <2>1, <2>2
  <2>4. Max(C) \in C
    BY <2>3 DEF Max
  <2> DEFINE i == Max(C)
  <2>5. /\ i \in DOMAIN items /\ Start(items[i]) < b
        /\ b <= Start(items[i]) + items[i].len
    BY <2>4 DEF Covering
  <2>6. ByteAt(items, b) = items[i].data[b - Start(items[i])]
    BY <1>2 DEF ByteAt
  <2> HIDE DEF i, C
  <2>7. Start(items[i]) \in Nat /\ items[i] \in Frame
    BY <2>5, FullList
  <2>8. items[i].len \in Nat /\ items[i].data \in Seq(Byte)
        /\ Len(items[i].data) = items[i].len
    BY <2>5, <2>7, FragAssumption DEF Uneven
  <2>9. b - Start(items[i]) \in 1 .. items[i].len
    BY <2>5, <2>7, <2>8
  <2> QED
    BY <2>6, <2>8, <2>9
<1> QED
  BY <1>1, <1>2

(* Out of a full list comes a packet of bytes, nothing, or a panic; a panic
   only over a fragment of uneven length. *)
LEMMA AssembleReturns ==
  ASSUME NEW items \in Seq(Frame \cup {None}), IsFull(items)
  PROVE  /\ Assemble(items) \in Seq(Byte) \cup {None, Panic}
         /\ Assemble(items) = Panic => \E f \in Frame : Len(f.data) # f.len
<1> DEFINE bad == {i \in DOMAIN items : OutOfRange(items, i) \/ Uneven(items, i)}
<1>1. CASE bad = {}
  <2>1. Assemble(items) = [b \in 1 .. Size(items) |-> ByteAt(items, b)]
    BY <1>1 DEF Assemble
  <2>2. \A b \in 1 .. Size(items) : ByteAt(items, b) \in Byte
    BY <1>1, FullList, ByteAtIsByte
  <2>3. Assemble(items) \in Seq(Byte)
    BY <2>1, <2>2, FullList
  <2> QED
    BY <2>3, FragAssumption
<1>2. CASE bad # {}
  <2>1. Assemble(items) = IF OutOfRange(items, Min(bad)) THEN None ELSE Panic
    BY <1>2 DEF Assemble
  <2>2. bad \subseteq Nat
    BY FullList
  <2>3. \E m \in bad : \A k \in bad : m <= k
    BY <1>2, <2>2, LeastNumber
  <2>4. Min(bad) \in bad
    BY <2>3 DEF Min
  <2>5. ASSUME ~OutOfRange(items, Min(bad)) PROVE \E f \in Frame : Len(f.data) # f.len
    <3>1. Uneven(items, Min(bad)) /\ Min(bad) \in DOMAIN items
      BY <2>4, <2>5
    <3> QED
      BY <3>1, FullList DEF Uneven
  <2>6. None # Panic
    BY FragAssumption
  <2> QED
    BY <2>1, <2>5, <2>6
<1> QED
  BY <1>1, <1>2

ResultOK ==
  /\ result \in Seq(Byte) \cup {None, Panic}
  /\ PanicOnlyIfUneven

THEOREM ResultHolds == FragSpec => []ResultOK
<1>1. FragInit => ResultOK
  BY FragAssumption DEF FragInit, ResultOK, PanicOnlyIfUneven
<1>2. CacheInv /\ ResultOK /\ [FragNext]_fragVars => ResultOK'
  <2> SUFFICES ASSUME CacheInv, ResultOK, [FragNext]_fragVars PROVE ResultOK'
    OBVIOUS
  <2>1. CASE FragNext
    <3>1. PICK f \in Frame : process(f)
      BY <2>1 DEF FragNext
    <3>2. CASE NoSuchPart(f) \/ StillIncomplete(f)
      <4>1. result' = None
        BY <3>2 DEF NoSuchPart, StillIncomplete
      <4> QED
        BY <4>1, FragAssumption DEF ResultOK, PanicOnlyIfUneven
    <3>3. CASE Complete(f)
      <4>1. f.part < Len(ListFor(f)) /\ IsFull(Filled(f)) /\ result' = Assemble(Filled(f))
        BY <3>3 DEF Complete
      <4>2. Filled(f) \in Seq(Frame \cup {None})
        BY <4>1, FilledInPlace
      <4> QED
        BY <4>1, <4>2, AssembleReturns DEF ResultOK, PanicOnlyIfUneven
    <3> QED
      BY <3>1, <3>2, <3>3 DEF process
  <2>2. CASE UNCHANGED fragVars
    BY <2>2 DEF fragVars, ResultOK, PanicOnlyIfUneven
  <2> QED
    BY <2>1, <2>2
<1> QED
  BY <1>1, <1>2, CacheInvHolds, PTL DEF FragSpec

(* Whatever pmtu, part, total_part and len say, process slices within the
   packet and panics over a fragment of uneven length at most (frame.rs, the
   get_mut in process). *)
THEOREM PanicOnlyIfUnevenHolds == FragSpec => []PanicOnlyIfUneven
  BY ResultHolds, PTL DEF ResultOK

(* Type correctness: a packet that is put together is made of bytes. *)
THEOREM FragTypeHolds == FragSpec => []FragTypeOK
<1>1. CacheInv /\ OrderInv /\ ResultOK => FragTypeOK
  BY DEF CacheInv, ListTypeOK, OrderInv, OrderTypeOK, ResultOK, FragTypeOK
<1> QED
  BY <1>1, CacheInvHolds, OrderHolds, ResultHolds, PTL
----------------------------------------------------------------------------
(* A packet cut into parts of pmtu bytes. *)

LEMMA DatagramFields ==
  ASSUME NEW d \in Datagram
  PROVE  /\ d.key \in Key /\ d.pmtu \in Nat /\ d.copies \in Nat
         /\ Len(d.parts) \in Nat /\ DOMAIN d.parts = 1 .. Len(d.parts)
         /\ \A p \in 1 .. Len(d.parts) :
              /\ d.parts[p] \in Seq(Byte) /\ Len(d.parts[p]) \in Nat
              /\ p < Len(d.parts) => Len(d.parts[p]) = d.pmtu
              /\ Len(d.parts[p]) <= d.pmtu
<1>1. /\ d.key \in Key /\ d.pmtu \in Nat /\ d.copies \in Nat
      /\ d.parts \in Seq(Seq(Byte))
  BY TrafficAssumption
<1>2. Len(d.parts) \in Nat /\ DOMAIN d.parts = 1 .. Len(d.parts)
  BY <1>1
<1>3. \A p \in 1 .. Len(d.parts) : d.parts[p] \in Seq(Byte) /\ Len(d.parts[p]) \in Nat
  BY <1>1, <1>2
<1>4. \A p \in 1 .. Len(d.parts) :
        IF p < Len(d.parts) THEN Len(d.parts[p]) = d.pmtu ELSE Len(d.parts[p]) <= d.pmtu
  BY <1>2, TrafficAssumption
<1> QED
  BY <1>1, <1>2, <1>3, <1>4

LEMMA FrameOfFields ==
  ASSUME NEW d \in Datagram, NEW p \in DOMAIN d.parts
  PROVE  /\ FrameOf(d, p) \in Frame /\ FrameOf(d, p) \in Fragment
         /\ FrameOf(d, p).key = d.key /\ FrameOf(d, p).part = p - 1
         /\ FrameOf(d, p).total = Len(d.parts) /\ FrameOf(d, p).pmtu = d.pmtu
         /\ FrameOf(d, p).len = Len(d.parts[p]) /\ FrameOf(d, p).data = d.parts[p]
<1>1. FrameOf(d, p) \in Fragment
  BY DEF Fragment
<1>2. FrameOf(d, p) \in Frame
  BY <1>1, TrafficAssumption
<1> QED
  BY <1>1, <1>2 DEF FrameOf

(* The parts in front of the last one make up their share of the size. *)
LEMMA TotalOfParts ==
  ASSUME NEW lens, NEW m \in Nat, NEW u \in Nat, Len(lens) = m + 1,
         \A i \in 1 .. m : lens[i] = u, lens[m + 1] \in Nat
  PROVE  TotalOf(lens) = u * m + lens[m + 1]
<1> DEFINE f == CHOOSE g : IsTotal(lens, m + 1, g)
           P == {k \in Nat : k <= m => f[k] = u * k}
<1>1. IsTotal(lens, m + 1, f)
  <2>1. m + 1 \in Nat
    OBVIOUS
  <2>2. \E g : IsTotal(lens, m + 1, g)
    BY <2>1, TotalExists
  <2> QED
    BY <2>2
<1>2. TotalOf(lens) = f[m + 1]
  BY DEF TotalOf, IsTotal
<1> HIDE DEF f
<1>3. ASSUME NEW k \in Nat, k <= m PROVE f[k + 1] = f[k] + lens[k + 1]
  <2>1. k + 1 \in 0 .. m + 1 /\ (k + 1) - 1 = k /\ k + 1 # 0
    BY <1>3
  <2> QED
    BY <2>1, <1>1 DEF IsTotal
<1>4. 0 \in P
  BY <1>1 DEF IsTotal
<1>5. ASSUME NEW k \in Nat, k \in P PROVE k + 1 \in P
  <2> SUFFICES ASSUME k + 1 <= m PROVE f[k + 1] = u * (k + 1)
    OBVIOUS
  <2>1. f[k] = u * k /\ k + 1 \in 1 .. m /\ k <= m
    BY <1>5
  <2>2. f[k + 1] = u * k + u
    BY <2>1, <1>3
  <2> QED
    BY <2>2
<1> HIDE DEF P
<1>6. Nat \subseteq P
  BY <1>4, <1>5, SetInduction
<1>7. f[m] = u * m
  BY <1>6 DEF P
<1> QED
  BY <1>2, <1>3, <1>7

(* Where a byte is: in the part that its place says, and in no other. *)
HasPlace(u, m, l, b) ==
  \E q \in 0 .. m, r \in Nat : r < u /\ b = u * q + r + 1 /\ (q = m => r < l)

LEMMA PlaceOfByte ==
  ASSUME NEW u \in Nat, NEW m \in Nat, NEW l \in Nat, l <= u,
         NEW b \in Nat, 0 < b, b <= u * m + l
  PROVE  HasPlace(u, m, l, b)
<1> DEFINE x == b - 1
           q == x \div u
           r == x % u
<1>1. x \in Nat /\ b = x + 1
  OBVIOUS
<1>2. u # 0
  <2>1. u = 0 => u * m = 0 /\ l = 0
    OBVIOUS
  <2> QED
    BY <2>1
<1> HIDE DEF x
<1>3. q \in Nat /\ r \in Nat /\ r < u
  BY <1>1, <1>2
<1>4. x = u * q + r
  BY <1>1, <1>2
<1> HIDE DEF q, r
<1>5. q <= m
  <2> SUFFICES ASSUME m + 1 <= q PROVE FALSE
    BY <1>3
  <2>1. u * (m + 1) <= u * q
    BY <1>3
  <2>2. u * (m + 1) = u * m + u /\ u * m \in Nat /\ u * q \in Nat
    BY <1>3
  <2> QED
    BY <2>1, <2>2, <1>1, <1>3, <1>4
<1>6. q = m => r < l
  <2>1. u * m \in Nat
    OBVIOUS
  <2> QED
    BY <2>1, <1>1, <1>3, <1>4
<1>7. q \in 0 .. m /\ u * q \in Nat
  BY <1>3, <1>5
<1>8. b = u * q + r + 1
  BY <1>1, <1>3, <1>4, <1>7
<1> QED
  BY <1>3, <1>6, <1>7, <1>8 DEF HasPlace

LEMMA OneCovers ==
  ASSUME NEW u \in Nat, NEW q \in Nat, NEW r \in Nat, r < u,
         NEW j \in Nat, NEW l \in Nat, l <= u,
         u * j < u * q + r + 1, u * q + r + 1 <= u * j + l
  PROVE  j = q
<1>1. u * j \in Nat /\ u * q \in Nat
  OBVIOUS
<1>2. ASSUME j + 1 <= q PROVE FALSE
  <2>1. u * (j + 1) <= u * q /\ u * (j + 1) = u * j + u
    BY <1>2
  <2> QED
    BY <2>1, <1>1
<1>3. ASSUME q + 1 <= j PROVE FALSE
  <2>1. u * (q + 1) <= u * j /\ u * (q + 1) = u * q + u
    BY <1>3
  <2> QED
    BY <2>1, <1>1
<1> QED
  BY <1>2, <1>3

IsAt(u, q, r, b) ==
  u \in Nat /\ q \in Nat /\ r \in Nat /\ r < u /\ b = u * q + r + 1

LEMMA QuotientAndRest ==
  ASSUME NEW u \in Nat, NEW q \in Nat, NEW r \in Nat, r < u, NEW b, b = u * q + r + 1
  PROVE  (b - 1) \div u = q /\ (b - 1) % u = r
<1> DEFINE x == u * q + r
           p == x \div u
           s == x % u
<1>1. x \in Nat /\ u * q \in Nat /\ b - 1 = x
  OBVIOUS
<1>2. p \in Nat /\ s \in Nat /\ s < u
  BY <1>1
<1>3. x = u * p + s
  BY <1>1, <1>2
<1> HIDE DEF p, s
<1>4. u * p \in Nat
  BY <1>2
<1>5. p = q
  <2>1. u * p < u * q + r + 1
    BY <1>1, <1>2, <1>3, <1>4
  <2>2. u * q + r + 1 <= u * p + u
    BY <1>1, <1>2, <1>3, <1>4
  <2> QED
    BY <1>2, <2>1, <2>2, OneCovers
<1>6. s = r
  BY <1>1, <1>2, <1>3, <1>5
<1> QED
  BY <1>1, <1>5, <1>6 DEF p, s

LEMMA QuotientOfByte ==
  ASSUME NEW u, NEW q, NEW r, NEW b, IsAt(u, q, r, b)
  PROVE  (b - 1) \div u = q /\ (b - 1) % u = r
  BY QuotientAndRest DEF IsAt

LEMMA RangesInOrder ==
  ASSUME NEW u \in Nat, NEW j \in Nat, NEW m \in Nat, NEW l \in Nat, NEW k \in Nat,
         j < m, l <= u
  PROVE  ~(u * j + l > u * m + k)
<1>1. j + 1 \in Nat /\ j + 1 <= m
  OBVIOUS
<1>2. u * (j + 1) <= u * m
  BY <1>1
<1>3. u * (j + 1) = u * j + u /\ u * j \in Nat /\ u * m \in Nat
  OBVIOUS
<1> QED
  BY <1>2, <1>3

(* A list with all the fragments of a packet has its ranges: they lie next to
   each other and end at its size. *)
LEMMA RangesOfParts ==
  ASSUME NEW d \in Datagram, NEW m \in Nat, Len(d.parts) = m + 1,
         NEW items \in Seq(Frame \cup {None}), Len(items) = Len(d.parts),
         \A i \in 1 .. m + 1 : items[i] = FrameOf(d, i)
  PROVE  /\ DOMAIN items = 1 .. m + 1
         /\ \A i \in 1 .. m + 1 : Start(items[i]) = d.pmtu * (i - 1)
         /\ Size(items) = d.pmtu * m + Len(d.parts[m + 1])
         /\ Size(items) = TotalOf([p \in DOMAIN d.parts |-> Len(d.parts[p])])
         /\ \A i \in 1 .. m + 1 : ~OutOfRange(items, i) /\ ~Uneven(items, i)
<1> DEFINE u == d.pmtu
           lens == [p \in DOMAIN d.parts |-> Len(d.parts[p])]
<1>1. /\ u \in Nat /\ DOMAIN d.parts = 1 .. m + 1
      /\ \A p \in 1 .. m + 1 : /\ Len(d.parts[p]) \in Nat /\ Len(d.parts[p]) <= u
                               /\ p < m + 1 => Len(d.parts[p]) = u
  BY DatagramFields
<1>2. DOMAIN items = 1 .. m + 1
  OBVIOUS
<1>3. \A i \in 1 .. m + 1 : /\ items[i].part = i - 1 /\ items[i].pmtu = u
                           /\ items[i].len = Len(d.parts[i])
                           /\ Len(items[i].data) = items[i].len
  BY <1>1, FrameOfFields
<1>4. \A i \in 1 .. m + 1 : Start(items[i]) = u * (i - 1)
  BY <1>3 DEF Start
<1>5. Size(items) = TotalOf(lens)
  <2>1. [i \in DOMAIN items |-> items[i].len] = lens
    BY <1>1, <1>2, <1>3
  <2> QED
    BY <2>1 DEF Size
<1>6. TotalOf(lens) = u * m + Len(d.parts[m + 1])
  <2>1. Len(lens) = m + 1 /\ m + 1 \in 1 .. m + 1
    BY <1>1
  <2>2. \A i \in 1 .. m : i \in 1 .. m + 1 /\ i < m + 1
    OBVIOUS
  <2>3. \A p \in 1 .. m + 1 : lens[p] = Len(d.parts[p])
    BY <1>1
  <2> HIDE DEF lens, u
  <2>4. \A i \in 1 .. m : lens[i] = u
    BY <1>1, <2>2, <2>3
  <2>5. lens[m + 1] = Len(d.parts[m + 1]) /\ lens[m + 1] \in Nat
    BY <1>1, <2>1, <2>3
  <2>6. TotalOf(lens) = u * m + lens[m + 1]
    BY <1>1, <2>1, <2>4, <2>5, TotalOfParts
  <2> QED
    BY <2>5, <2>6
<1>7. ASSUME NEW i \in 1 .. m + 1 PROVE ~OutOfRange(items, i)
  <2> DEFINE l == Len(d.parts[i])
  <2>1. PICK j \in 0 .. m : i = j + 1
    <3>1. i - 1 \in 0 .. m /\ i = (i - 1) + 1
      OBVIOUS
    <3> QED
      BY <3>1
  <2>2. Start(items[i]) + items[i].len = u * j + l
    BY <1>3, <1>4, <2>1
  <2>3. l \in Nat /\ l <= u
    BY <1>1
  <2>4. Size(items) = u * m + Len(d.parts[m + 1]) /\ Len(d.parts[m + 1]) \in Nat
    BY <1>1, <1>5, <1>6
  <2>5. CASE j = m
    BY <2>1, <2>2, <2>3, <2>4, <2>5, <1>1 DEF OutOfRange
  <2>6. CASE j # m
    <3>1. j \in Nat /\ j < m
      BY <2>6
    <3> HIDE DEF u, l
    <3>2. ~(u * j + l > u * m + Len(d.parts[m + 1]))
      BY <1>1, <2>3, <2>4, <3>1, RangesInOrder
    <3> QED
      BY <2>2, <2>4, <3>2 DEF OutOfRange
  <2> QED
    BY <2>5, <2>6
<1>8. \A i \in 1 .. m + 1 : ~Uneven(items, i)
  BY <1>3 DEF Uneven
<1> QED
  BY <1>2, <1>4, <1>5, <1>6, <1>7, <1>8

(* A byte of it comes from the part that covers it, which is one. *)
LEMMA ByteOfParts ==
  ASSUME NEW d \in Datagram, NEW m \in Nat, Len(d.parts) = m + 1,
         NEW items \in Seq(Frame \cup {None}), Len(items) = Len(d.parts),
         \A i \in 1 .. m + 1 : items[i] = FrameOf(d, i),
         NEW b \in 1 .. Size(items)
  PROVE  ByteAt(items, b) = d.parts[1 + ((b - 1) \div d.pmtu)][1 + ((b - 1) % d.pmtu)]
<1> DEFINE u == d.pmtu
           C == Covering(items, b)
           l == Len(d.parts[m + 1])
<1>1. /\ u \in Nat /\ l \in Nat /\ l <= u
      /\ \A i \in 1 .. m + 1 : Len(d.parts[i]) \in Nat /\ Len(d.parts[i]) <= u
      /\ \A i \in 1 .. m + 1 : i < m + 1 => Len(d.parts[i]) = u
  <2>1. m + 1 \in 1 .. m + 1
    OBVIOUS
  <2> QED
    BY <2>1, DatagramFields
<1>2. /\ DOMAIN items = 1 .. m + 1
      /\ \A i \in 1 .. m + 1 : Start(items[i]) = u * (i - 1)
      /\ Size(items) = u * m + l
  BY RangesOfParts
<1>3. \A i \in 1 .. m + 1 : items[i].len = Len(d.parts[i]) /\ items[i].data = d.parts[i]
  BY DatagramFields, FrameOfFields
<1>4. b \in Nat /\ 0 < b /\ b <= u * m + l
  <2>1. u * m \in Nat
    BY <1>1
  <2> QED
    BY <1>1, <1>2, <2>1
<1> HIDE DEF l, u
<1>5. PICK q \in 0 .. m, r \in Nat : r < u /\ b = u * q + r + 1 /\ (q = m => r < l)
  <2>1. HasPlace(u, m, l, b)
    BY <1>1, <1>4, PlaceOfByte
  <2> QED
    BY <2>1, Zenon DEF HasPlace
<1>6. /\ q \in Nat /\ q + 1 \in 1 .. m + 1 /\ (q + 1) - 1 = q /\ u * q \in Nat
      /\ q # m => q + 1 < m + 1
  BY <1>1
<1>7. C = {q + 1}
  <2>1. Start(items[q + 1]) = u * q
    BY <1>2, <1>6
  <2>2. items[q + 1].len \in Nat /\ r < items[q + 1].len
    BY <1>1, <1>3, <1>5, <1>6 DEF l
  <2>3. Start(items[q + 1]) < b /\ b <= Start(items[q + 1]) + items[q + 1].len
    <3> DEFINE x == u * q
               y == items[q + 1].len
    <3>1. x \in Nat /\ b = x + r + 1 /\ Start(items[q + 1]) = x /\ y \in Nat /\ r < y
      BY <1>5, <1>6, <2>1, <2>2
    <3> HIDE DEF x, y
    <3>2. x < b /\ b <= x + y
      BY <3>1
    <3> QED
      BY <3>1, <3>2 DEF y
  <2>4. q + 1 \in C
    BY <1>2, <1>6, <2>3 DEF Covering
  <2>5. ASSUME NEW i \in C PROVE i = q + 1
    <3>1. i \in 1 .. m + 1 /\ Start(items[i]) < b /\ b <= Start(items[i]) + items[i].len
      BY <1>2 DEF Covering
    <3>2. PICK j \in 0 .. m : i = j + 1
      <4>1. i - 1 \in 0 .. m /\ i = (i - 1) + 1
        BY <3>1
      <4> QED
        BY <4>1
    <3>3. Start(items[i]) = u * j
      BY <1>2, <3>1, <3>2
    <3>4. items[i].len \in Nat /\ items[i].len <= u
      BY <1>1, <1>3, <3>1
    <3>5. u * j < u * q + r + 1 /\ u * q + r + 1 <= u * j + items[i].len
      BY <1>5, <3>1, <3>3
    <3>6. j = q
      <4>1. j \in Nat
        OBVIOUS
      <4> QED
        BY <1>1, <1>5, <1>6, <3>4, <3>5, <4>1, OneCovers
    <3> QED
      BY <3>2, <3>6
  <2> QED
    BY <2>4, <2>5
<1>8. Max(C) = q + 1
  <2>1. q + 1 >= q + 1
    BY <1>6
  <2> QED
    BY <1>7, <2>1 DEF Max
<1>9. ByteAt(items, b) = items[q + 1].data[b - Start(items[q + 1])]
  BY <1>7, <1>8 DEF ByteAt
<1>10. b - Start(items[q + 1]) = 1 + r
  BY <1>2, <1>5, <1>6
<1>11. items[q + 1].data = d.parts[1 + q]
  BY <1>3, <1>6
<1>12. (b - 1) \div u = q /\ (b - 1) % u = r
  <2>1. IsAt(u, q, r, b)
    BY <1>1, <1>5, <1>6 DEF IsAt
  <2> QED
    BY <2>1, QuotientOfByte, Zenon
<1>13. ByteAt(items, b) = d.parts[1 + q][1 + r]
  BY <1>9, <1>10, <1>11, Zenon
<1> QED
  BY <1>12, <1>13, Zenon DEF u

(* So what comes out of all the fragments of a packet is the packet. *)
LEMMA AssembleIsContent ==
  ASSUME NEW d \in Datagram, NEW items \in Seq(Frame \cup {None}),
         Len(items) = Len(d.parts), d.parts # <<>>,
         \A i \in 1 .. Len(d.parts) : items[i] = FrameOf(d, i)
  PROVE  Assemble(items) = Content(d) /\ Content(d) \in Seq(Byte)
<1>1. PICK m \in Nat : Len(d.parts) = m + 1
  <2>1. Len(d.parts) \in Nat /\ d.parts \in Seq(Seq(Byte))
    BY DatagramFields, TrafficAssumption
  <2>2. Len(d.parts) # 0
    BY <2>1
  <2>3. Len(d.parts) - 1 \in Nat /\ Len(d.parts) = (Len(d.parts) - 1) + 1
    BY <2>1, <2>2
  <2> QED
    BY <2>3
<1>2. /\ DOMAIN items = 1 .. m + 1
      /\ Size(items) = TotalOf([p \in DOMAIN d.parts |-> Len(d.parts[p])])
      /\ \A i \in 1 .. m + 1 : ~OutOfRange(items, i) /\ ~Uneven(items, i)
  BY <1>1, RangesOfParts
<1>3. Assemble(items) = [b \in 1 .. Size(items) |-> ByteAt(items, b)]
  <2>1. {i \in DOMAIN items : OutOfRange(items, i) \/ Uneven(items, i)} = {}
    BY <1>2
  <2> QED
    BY <2>1 DEF Assemble
<1>4. \A b \in 1 .. Size(items) :
        ByteAt(items, b) = d.parts[1 + ((b - 1) \div d.pmtu)][1 + ((b - 1) % d.pmtu)]
  BY <1>1, ByteOfParts
<1>5. Assemble(items) = Content(d)
  BY <1>2, <1>3, <1>4 DEF Content
<1>6. IsFull(items) /\ \A i \in DOMAIN items : ~Uneven(items, i)
  <2>1. \A i \in 1 .. m + 1 : items[i] # None
    BY <1>1, DatagramFields, FrameOfFields, FragAssumption
  <2> QED
    BY <1>2, <2>1 DEF IsFull
<1>7. Assemble(items) \in Seq(Byte)
  <2>1. \A b \in 1 .. Size(items) : ByteAt(items, b) \in Byte
    BY <1>6, FullList, ByteAtIsByte
  <2>2. Size(items) \in Nat
    BY <1>6, FullList
  <2> QED
    BY <1>3, <2>1, <2>2
<1> QED
  BY <1>5, <1>7

(* Which is a sequence of bytes, and not nothing. *)
LEMMA ContentIsBytes ==
  ASSUME NEW d \in Datagram, NEW p \in DOMAIN d.parts
  PROVE  Content(d) \in Seq(Byte) /\ Content(d) # None
<1> DEFINE n == Len(d.parts)
           items == [i \in 1 .. n |-> FrameOf(d, i)]
<1>1. n \in Nat /\ DOMAIN d.parts = 1 .. n /\ d.parts # <<>>
  BY DatagramFields
<1>2. \A i \in 1 .. n : FrameOf(d, i) \in Frame
  BY <1>1, FrameOfFields
<1>3. items \in Seq(Frame \cup {None}) /\ Len(items) = n
  BY <1>1, <1>2
<1>4. \A i \in 1 .. n : items[i] = FrameOf(d, i)
  OBVIOUS
<1> HIDE DEF items
<1>5. Content(d) \in Seq(Byte)
  BY <1>1, <1>3, <1>4, AssembleIsContent
<1> QED
  BY <1>5, FragAssumption

----------------------------------------------------------------------------
(* What FragTraffic promises. *)

(* To the parser, its frames are frames like any others. *)
THEOREM TrafficIsParser == Spec => FragSpec
<1>1. Init => FragInit
  BY DEF Init
<1>2. [Next]_vars => [FragNext]_fragVars
  <2>1. ASSUME NEW d \in Datagram, NEW p \in DOMAIN d.parts, Deliver(d, p) PROVE FragNext
    BY <2>1, FrameOfFields DEF Deliver, FragNext
  <2>2. ASSUME NEW f \in Stray, StrayArrives(f) PROVE FragNext
    BY <2>2, TrafficAssumption DEF StrayArrives, FragNext
  <2> QED
    BY <2>1, <2>2 DEF Next, vars, fragVars
<1> QED
  BY <1>1, <1>2, PTL DEF Spec, FragSpec

(* The fragment is in the list of its id. *)
Arrived(d, p) ==
  /\ list[d.key] # None
  /\ p \in DOMAIN list[d.key]
  /\ list[d.key][p] = FrameOf(d, p)

(* A list without anything of another packet has what arrived of this one, each
   fragment at its place, and a place for each. *)
LEMMA OwnList ==
  ASSUME CacheInv, NEW d \in Datagram, NEW p \in DOMAIN d.parts, ~Foreign(d)
  PROVE  LET items == ListFor(FrameOf(d, p))
         IN  /\ items \in Seq(Frame \cup {None})
             /\ Len(items) = Len(d.parts)
             /\ \A i \in 1 .. Len(d.parts) :
                  items[i] # None => items[i] = FrameOf(d, i) /\ Arrived(d, i)
<1> DEFINE f == FrameOf(d, p)
           k == d.key
           n == Len(d.parts)
<1>1. f \in Frame /\ f.key = k /\ f.total = n
  BY FrameOfFields
<1>2. k \in Key /\ n \in Nat /\ DOMAIN d.parts = 1 .. n
  BY DatagramFields
<1>3. ListFor(f) \in Seq(Frame \cup {None})
  BY <1>1, ListForInPlace
<1> HIDE DEF f
<1>4. CASE list[k] # None
  <2>1. ListFor(f) = list[k] /\ k \in CachedKeys
    BY <1>1, <1>2, <1>4 DEF ListFor, CachedKeys
  <2>2. /\ Len(list[k]) = n
        /\ \A i \in DOMAIN list[k] :
             list[k][i] \in {None} \cup {FrameOf(d, q) : q \in DOMAIN d.parts}
    BY <1>4 DEF Foreign
  <2>3. DOMAIN list[k] = 1 .. n
    BY <1>3, <2>1, <2>2
  <2>4. ASSUME NEW i \in 1 .. n, list[k][i] # None PROVE list[k][i] = FrameOf(d, i)
    <3>1. PICK q \in 1 .. n : list[k][i] = FrameOf(d, q)
      BY <1>2, <2>2, <2>3, <2>4
    <3>2. list[k][i].part + 1 = i
      BY <2>1, <2>3, <2>4 DEF CacheInv, KeptInPlace
    <3>3. list[k][i].part = q - 1
      BY <1>2, <3>1, FrameOfFields
    <3>4. q = i
      BY <3>2, <3>3
    <3> QED
      BY <3>1, <3>4
  <2> QED
    BY <1>3, <1>4, <2>1, <2>2, <2>3, <2>4 DEF Arrived, f
<1>5. CASE list[k] = None
  <2>1. ListFor(f) = [i \in 1 .. n |-> None]
    BY <1>1, <1>5 DEF ListFor
  <2> QED
    BY <1>2, <1>3, <2>1 DEF f
<1> QED
  BY <1>4, <1>5

(* So the fragment of such a packet is put into its list, or completes it: then
   the packet comes back, of fragments that have all arrived. *)
LEMMA OwnDelivery ==
  ASSUME CacheInv, NEW d \in Datagram, NEW p \in DOMAIN d.parts, ~Foreign(d),
         process(FrameOf(d, p))
  PROVE  \/ StillIncomplete(FrameOf(d, p)) /\ result' = None
         \/ /\ Complete(FrameOf(d, p))
            /\ result' = Content(d) /\ result' # None
            /\ \A q \in DOMAIN d.parts : q = p \/ Arrived(d, q)
<1> DEFINE f == FrameOf(d, p)
           n == Len(d.parts)
           old == ListFor(f)
           items == Filled(f)
<1>1. /\ n \in Nat /\ DOMAIN d.parts = 1 .. n /\ p \in 1 .. n
      /\ f \in Frame /\ f # None /\ f.part = p - 1 /\ f.part + 1 = p
  BY DatagramFields, FrameOfFields, FragAssumption
<1>2. /\ old \in Seq(Frame \cup {None}) /\ Len(old) = n
      /\ \A i \in 1 .. n : old[i] # None => old[i] = FrameOf(d, i) /\ Arrived(d, i)
  BY OwnList
<1>3. f.part < Len(old)
  BY <1>1, <1>2
<1>4. ~NoSuchPart(f)
  BY <1>1, <1>2 DEF NoSuchPart
<1>5. ASSUME Complete(f)
      PROVE  /\ result' = Content(d) /\ result' # None
             /\ \A q \in DOMAIN d.parts : q = p \/ Arrived(d, q)
  <2>1. IsFull(items) /\ result' = Assemble(items)
    BY <1>5 DEF Complete
  <2>2. items \in Seq(Frame \cup {None})
    BY <1>1, <1>3, FilledInPlace
  <2>3. items = [old EXCEPT ![p] = f]
    BY <1>1 DEF Filled
  <2> HIDE DEF f, old, items, n
  <2>4. /\ Len(items) = n /\ DOMAIN items = 1 .. n
        /\ \A i \in 1 .. n : items[i] = IF i = p THEN f ELSE old[i]
    BY <1>1, <1>2, <2>2, <2>3
  <2>5. \A i \in 1 .. n : i = p \/ old[i] # None
    BY <2>1, <2>4 DEF IsFull
  <2>6. \A i \in 1 .. n : items[i] = FrameOf(d, i)
    BY <1>2, <2>4, <2>5 DEF f
  <2>7. d.parts # <<>>
    BY <1>1 DEF n
  <2>8. Assemble(items) = Content(d)
    BY <2>2, <2>4, <2>6, <2>7, AssembleIsContent DEF n
  <2>9. Content(d) # None
    BY ContentIsBytes
  <2> QED
    BY <1>1, <1>2, <2>1, <2>5, <2>8, <2>9
<1>6. CASE Complete(f)
  BY <1>5, <1>6
<1>7. CASE StillIncomplete(f)
  BY <1>7 DEF StillIncomplete
<1> QED
  BY <1>4, <1>6, <1>7 DEF process

(* What the parser returns on a fragment is nothing or the packet that it was cut
   from, in full (frame.rs, process), for packets and fragments of any number
   and size; the cache never mixes packets but those of one sender and id. *)
THEOREM ReturnsWhatWasSentHolds == Spec => ReturnsWhatWasSent
<1>1. CacheInv /\ [Next]_vars =>
        [\A d \in Datagram : \A p \in DOMAIN d.parts :
           Deliver(d, p) => result' \in {None, Content(d)} \/ Foreign(d)]_vars
  <2> SUFFICES ASSUME CacheInv, NEW d \in Datagram, NEW p \in DOMAIN d.parts,
                      Deliver(d, p), ~Foreign(d)
               PROVE  result' \in {None, Content(d)}
    OBVIOUS
  <2>1. process(FrameOf(d, p))
    BY DEF Deliver
  <2> QED
    BY <2>1, OwnDelivery
<1> QED
  BY <1>1, TrafficIsParser, CacheInvHolds, PTL DEF Spec, ReturnsWhatWasSent

----------------------------------------------------------------------------
(* How often a packet comes back. *)

CountTypeOK ==
  /\ delivered \in [Fragment -> Nat]
  /\ returned \in [Datagram -> Nat]

(* A fragment in the cache is one that the packet has not yet come back with. *)
CountInv ==
  \A d \in Datagram : \A p \in DOMAIN d.parts :
    /\ returned[d] <= delivered[FrameOf(d, p)]
    /\ Arrived(d, p) => returned[d] < delivered[FrameOf(d, p)]

CountOK == CountTypeOK /\ CountInv

(* A fragment comes into the cache only by arriving. *)
LEMMA ArrivesOnce ==
  ASSUME CacheInv, NEW f \in Frame, process(f),
         NEW e \in Datagram, NEW q \in DOMAIN e.parts, Arrived(e, q)'
  PROVE  Arrived(e, q) \/ f = FrameOf(e, q)
<1> DEFINE g == FrameOf(e, q)
           k == e.key
<1>1. g # None /\ k \in Key
  <2>1. g \in Frame /\ g.key = e.key
    BY FrameOfFields
  <2>2. g.key \in Key
    BY <2>1, FrameFields
  <2> QED
    BY <2>1, <2>2, FragAssumption
<1>2. list'[k] # None /\ q \in DOMAIN list'[k] /\ list'[k][q] = g
  BY DEF Arrived
<1>3. PICK items : /\ Store(f.key, items)
                   /\ \/ items = None \/ items = ListFor(f)
                      \/ f.part < Len(ListFor(f)) /\ items = Filled(f)
  BY DEF process, NoSuchPart, StillIncomplete, Complete
<1>4. list'[k] = IF k = f.key THEN items ELSE IF k \in Evicted(f.key) THEN None ELSE list[k]
  BY <1>1, <1>3 DEF Store
<1>5. CASE k # f.key
  BY <1>2, <1>4, <1>5 DEF Arrived
<1>6. CASE k = f.key
  <2>1. list'[k] = items
    BY <1>4, <1>6
  <2>2. ASSUME q \in DOMAIN ListFor(f), ListFor(f)[q] = g PROVE Arrived(e, q)
    <3>1. CASE list[k] = None
      <4>1. ListFor(f) = [i \in 1 .. f.total |-> None]
        BY <1>6, <3>1 DEF ListFor
      <4> QED
        BY <1>1, <2>2, <4>1
    <3>2. CASE list[k] # None
      BY <1>6, <2>2, <3>2 DEF ListFor, Arrived
    <3> QED
      BY <3>1, <3>2
  <2>3. CASE items = ListFor(f)
    BY <1>2, <2>1, <2>2, <2>3
  <2>4. CASE items = Filled(f)
    <3>1. items = [ListFor(f) EXCEPT ![f.part + 1] = f]
      BY <2>4 DEF Filled
    <3>2. q \in DOMAIN ListFor(f) /\ (g = f \/ ListFor(f)[q] = g)
      BY <1>2, <2>1, <3>1
    <3> QED
      BY <2>2, <3>2
  <2> QED
    BY <1>2, <1>3, <2>1, <2>3, <2>4
<1> QED
  BY <1>5, <1>6

(* A fragment that arrives and does not complete its packet: it is counted. *)
LEMMA CountKept ==
  ASSUME CountOK, CacheInv, NEW f \in Fragment, process(f),
         delivered' = [delivered EXCEPT ![f] = @ + 1],
         NEW e \in Datagram, NEW q \in DOMAIN e.parts, returned'[e] = returned[e]
  PROVE  /\ returned'[e] <= delivered'[FrameOf(e, q)]
         /\ Arrived(e, q)' => returned'[e] < delivered'[FrameOf(e, q)]
<1> DEFINE g == FrameOf(e, q)
<1>1. f \in Frame /\ g \in Fragment
  BY FrameOfFields, TrafficAssumption
<1>2. /\ returned[e] \in Nat /\ delivered[g] \in Nat /\ returned[e] <= delivered[g]
      /\ Arrived(e, q) => returned[e] < delivered[g]
  BY <1>1 DEF CountOK, CountTypeOK, CountInv
<1>3. delivered'[g] = IF g = f THEN delivered[g] + 1 ELSE delivered[g]
  BY <1>1 DEF CountOK, CountTypeOK
<1>4. Arrived(e, q)' => Arrived(e, q) \/ f = g
  BY <1>1, ArrivesOnce
<1> HIDE DEF g
<1>5. returned[e] <= delivered'[g]
  BY <1>2, <1>3
<1>6. Arrived(e, q)' => returned[e] < delivered'[g]
  BY <1>2, <1>3, <1>4
<1> QED
  BY <1>5, <1>6 DEF g

(* One that completes it takes all its fragments out of the cache. *)
LEMMA CountReturned ==
  ASSUME CountOK, CacheInv, NEW d \in Datagram, NEW p \in DOMAIN d.parts,
         process(FrameOf(d, p)), ~Foreign(d), result' = Content(d),
         delivered' = [delivered EXCEPT ![FrameOf(d, p)] = @ + 1],
         returned'[d] = returned[d] + 1, NEW q \in DOMAIN d.parts
  PROVE  /\ returned'[d] <= delivered'[FrameOf(d, q)]
         /\ ~Arrived(d, q)'
<1> DEFINE f == FrameOf(d, p)
           g == FrameOf(d, q)
<1>1. f \in Fragment /\ g \in Fragment /\ f.key = d.key /\ d.key \in Key
  BY FrameOfFields, DatagramFields
<1>2. Content(d) # None
  BY ContentIsBytes
<1>3. Complete(f) /\ \A i \in DOMAIN d.parts : i = p \/ Arrived(d, i)
  BY <1>2, OwnDelivery
<1>4. list'[d.key] = None
  BY <1>1, <1>3 DEF Complete, Store
<1>5. /\ returned[d] \in Nat /\ delivered[g] \in Nat /\ returned[d] <= delivered[g]
      /\ Arrived(d, q) => returned[d] < delivered[g]
  BY <1>1 DEF CountOK, CountTypeOK, CountInv
<1>6. delivered'[g] = IF g = f THEN delivered[g] + 1 ELSE delivered[g]
  BY <1>1 DEF CountOK, CountTypeOK
<1>7. g = f \/ Arrived(d, q)
  BY <1>3
<1> HIDE DEF f, g
<1>8. returned[d] + 1 <= delivered'[g]
  BY <1>5, <1>6, <1>7
<1> QED
  BY <1>4, <1>8 DEF Arrived, g

LEMMA DeliverCounts ==
  ASSUME CountOK, CacheInv, NEW d \in Datagram, NEW p \in DOMAIN d.parts, Deliver(d, p)
  PROVE  CountOK'
<1> DEFINE f == FrameOf(d, p)
<1>1. /\ process(f)
      /\ delivered' = [delivered EXCEPT ![f] = @ + 1]
      /\ returned' = [returned EXCEPT ![d] =
                        IF result' = Content(d) /\ ~Foreign(d) THEN @ + 1 ELSE @]
  BY DEF Deliver
<1>2. f \in Fragment
  BY FrameOfFields
<1>3. CountTypeOK'
  BY <1>1, <1>2 DEF CountOK, CountTypeOK
<1>4. \A e \in Datagram :
        \/ returned'[e] = returned[e]
        \/ e = d /\ result' = Content(d) /\ ~Foreign(d) /\ returned'[d] = returned[d] + 1
  BY <1>1 DEF CountOK, CountTypeOK
<1>5. ASSUME NEW e \in Datagram, NEW q \in DOMAIN e.parts
      PROVE  /\ returned'[e] <= delivered'[FrameOf(e, q)]
             /\ Arrived(e, q)' => returned'[e] < delivered'[FrameOf(e, q)]
  <2>1. CASE returned'[e] = returned[e]
    <3> HIDE DEF f
    <3> QED
      BY <1>1, <1>2, <2>1, CountKept
  <2>2. CASE /\ e = d /\ result' = Content(d) /\ ~Foreign(d)
             /\ returned'[d] = returned[d] + 1
    BY <1>1, <2>2, CountReturned
  <2> QED
    BY <1>4, <2>1, <2>2
<1>6. CountInv'
  BY <1>5 DEF CountInv
<1> QED
  BY <1>3, <1>6 DEF CountOK

LEMMA StrayCounts ==
  ASSUME CountOK, CacheInv, NEW f \in Stray, StrayArrives(f)
  PROVE  CountOK'
<1>1. process(f) /\ f \in Frame /\ UNCHANGED <<delivered, returned>>
  BY TrafficAssumption DEF StrayArrives
<1>2. ASSUME NEW e \in Datagram, NEW q \in DOMAIN e.parts, Arrived(e, q)'
      PROVE  Arrived(e, q)
  <2>1. f.key # FrameOf(e, q).key
    BY FrameOfFields, TrafficAssumption
  <2> QED
    BY <1>1, <1>2, <2>1, ArrivesOnce
<1> QED
  BY <1>1, <1>2 DEF CountOK, CountTypeOK, CountInv

(* A packet comes back no more often than each of its fragments arrived: popping
   the list is what keeps a late duplicate from completing it again (frame.rs,
   process).  Inductive with what the fragments in the cache are still worth. *)
THEOREM ReturnedOnceHolds == Spec => []ReturnedOnce
<1>1. Init => CountOK
  <2> SUFFICES ASSUME Init PROVE CountOK
    OBVIOUS
  <2>1. CountTypeOK
    BY DEF Init, CountTypeOK
  <2>2. ASSUME NEW d \in Datagram, NEW p \in DOMAIN d.parts
        PROVE  returned[d] <= delivered[FrameOf(d, p)] /\ ~Arrived(d, p)
    <3>1. d.key \in Key /\ FrameOf(d, p) \in Fragment
      BY DatagramFields, FrameOfFields
    <3>2. returned[d] = 0 /\ delivered[FrameOf(d, p)] = 0 /\ list[d.key] = None
      BY <3>1 DEF Init, FragInit
    <3> QED
      BY <3>2 DEF Arrived
  <2> QED
    BY <2>1, <2>2 DEF CountOK, CountInv
<1>2. CountOK /\ CacheInv /\ [Next]_vars => CountOK'
  <2> SUFFICES ASSUME CountOK, CacheInv, [Next]_vars PROVE CountOK'
    OBVIOUS
  <2>1. ASSUME NEW d \in Datagram, NEW p \in DOMAIN d.parts, Deliver(d, p) PROVE CountOK'
    BY <2>1, DeliverCounts
  <2>2. ASSUME NEW f \in Stray, StrayArrives(f) PROVE CountOK'
    BY <2>2, StrayCounts
  <2>3. CASE UNCHANGED vars
    BY <2>3 DEF vars, CountOK, CountTypeOK, CountInv, Arrived
  <2> QED
    BY <2>1, <2>2, <2>3 DEF Next
<1>3. CountOK => ReturnedOnce
  BY DEF CountOK, CountInv, ReturnedOnce
<1> QED
  BY <1>1, <1>2, <1>3, TrafficIsParser, CacheInvHolds, PTL DEF Spec

----------------------------------------------------------------------------
(* Which key stands before another one in the order of the cache. *)

Before(s, a, b) == \E i, l \in DOMAIN s : i < l /\ s[i] = a /\ s[l] = b

LEMMA BeforeInRest ==
  ASSUME OrderInv, NEW k \in CachedKeys, NEW a, NEW b, Before(Without(k), a, b)
  PROVE  Before(order, a, b)
<1> DEFINE c == CHOOSE j \in DOMAIN order : order[j] = k
           n == Len(order)
           at(j) == IF j < c THEN j ELSE j + 1
<1>1. order \in Seq(Key) /\ n \in Nat /\ DOMAIN order = 1 .. n
  BY DEF OrderInv, OrderTypeOK
<1>2. c \in 1 .. n
  <2>1. \E j \in 1 .. n : order[j] = k
    BY <1>1 DEF OrderInv, OrderOfCache, Range
  <2> QED
    BY <1>1, <2>1
<1>3. Without(k) = [j \in 1 .. n - 1 |-> order[at(j)]]
  BY DEF Without
<1> HIDE DEF c, n
<1>4. PICK i \in 1 .. n - 1, l \in 1 .. n - 1 :
        i < l /\ Without(k)[i] = a /\ Without(k)[l] = b
  BY <1>3 DEF Before
<1>5. order[at(i)] = a /\ order[at(l)] = b
  BY <1>3, <1>4
<1>6. at(i) \in 1 .. n /\ at(l) \in 1 .. n /\ at(i) < at(l)
  BY <1>1, <1>2, <1>4
<1> HIDE DEF at
<1> QED
  BY <1>1, <1>5, <1>6 DEF Before

LEMMA BeforeInFront ==
  ASSUME OrderInv, Len(order) = Capacity, NEW a, NEW b,
         Before(SubSeq(order, 1, Capacity - 1), a, b)
  PROVE  Before(order, a, b)
<1> DEFINE n == Capacity
           s == SubSeq(order, 1, n - 1)
<1>1. n \in Nat /\ n - 1 \in Nat /\ 1 .. n - 1 \subseteq 1 .. n
  BY FragAssumption
<1>2. order \in Seq(Key) /\ DOMAIN order = 1 .. n
  BY DEF OrderInv, OrderTypeOK
<1>3. DOMAIN s = 1 .. n - 1 /\ \A j \in 1 .. n - 1 : s[j] = order[j]
  BY <1>1, <1>2
<1>4. Before(s, a, b)
  OBVIOUS
<1> HIDE DEF s, n
<1> QED
  BY <1>1, <1>2, <1>3, <1>4 DEF Before

(* A key put in front stands before all others. *)
LEMMA BeforeInCons ==
  ASSUME NEW k \in Key, NEW s \in Seq(Key), k \notin Range(s),
         NEW a, NEW b, Before(<<k>> \o s, a, b)
  PROVE  b # k /\ (a = k \/ Before(s, a, b))
<1> DEFINE t == <<k>> \o s
           n == Len(s)
<1>1. n \in Nat /\ DOMAIN s = 1 .. n /\ DOMAIN t = 1 .. n + 1 /\ t[1] = k
  OBVIOUS
<1>2. \A i \in 1 .. n : t[i + 1] = s[i]
  OBVIOUS
<1>3. PICK i \in 1 .. n + 1, l \in 1 .. n + 1 : i < l /\ t[i] = a /\ t[l] = b
  BY <1>1 DEF Before
<1> HIDE DEF t, n
<1>4. l - 1 \in 1 .. n /\ (l - 1) + 1 = l /\ i \in Nat /\ l \in Nat
  BY <1>1, <1>3
<1>5. s[l - 1] = b
  BY <1>2, <1>3, <1>4
<1>6. b # k
  BY <1>1, <1>4, <1>5 DEF Range
<1>7. CASE i = 1
  BY <1>1, <1>3, <1>6, <1>7
<1>8. CASE i # 1
  <2>1. i - 1 \in 1 .. n /\ (i - 1) + 1 = i /\ i - 1 < l - 1
    BY <1>1, <1>3, <1>4, <1>8
  <2>2. s[i - 1] = a
    BY <1>2, <1>3, <2>1
  <2> QED
    BY <1>1, <1>4, <1>5, <1>6, <2>1, <2>2 DEF Before
<1> QED
  BY <1>7, <1>8

LEMMA BeforeInTail ==
  ASSUME NEW t \in Seq(Key), t # <<>>, NEW a, NEW b, Before(Tail(t), a, b)
  PROVE  Before(t, a, b)
<1> DEFINE s == Tail(t)
           n == Len(s)
<1>1. s \in Seq(Key) /\ n \in Nat /\ DOMAIN s = 1 .. n /\ DOMAIN t = 1 .. n + 1
  OBVIOUS
<1>2. \A i \in 1 .. n : s[i] = t[i + 1]
  OBVIOUS
<1>3. PICK i \in 1 .. n, l \in 1 .. n : i < l /\ s[i] = a /\ s[l] = b
  BY <1>1 DEF Before
<1> HIDE DEF s, n
<1>4. i + 1 \in 1 .. n + 1 /\ l + 1 \in 1 .. n + 1 /\ i + 1 < l + 1
  BY <1>1, <1>3
<1> QED
  BY <1>1, <1>2, <1>3, <1>4 DEF Before

(* Using a key puts it before all others, which keep their places. *)
LEMMA BeforeInTouched ==
  ASSUME OrderInv, NEW k \in Key, NEW a, NEW b, Before(Touched(k), a, b)
  PROVE  b # k /\ (a = k \/ Before(order, a, b))
<1>1. ASSUME NEW s \in Seq(Key), Touched(k) = <<k>> \o s, k \notin Range(s),
             Before(s, a, b) => Before(order, a, b)
      PROVE  b # k /\ (a = k \/ Before(order, a, b))
  BY <1>1, BeforeInCons
<1>2. CASE list[k] # None
  <2>1. k \in CachedKeys /\ Touched(k) = <<k>> \o Without(k)
    BY <1>2 DEF CachedKeys, Touched
  <2>2. Without(k) \in Seq(Key) /\ k \notin Range(Without(k))
    BY <2>1, WithoutOrder
  <2> QED
    BY <1>1, <2>1, <2>2, BeforeInRest
<1>3. CASE list[k] = None /\ Len(order) = Capacity
  <2> DEFINE s == SubSeq(order, 1, Capacity - 1)
  <2>1. k \notin CachedKeys /\ Touched(k) = <<k>> \o s
    BY <1>3 DEF CachedKeys, Touched
  <2>2. s \in Seq(Key) /\ k \notin Range(s)
    BY <1>3, <2>1, ShortenedOrder
  <2>3. Before(s, a, b) => Before(order, a, b)
    BY <1>3, BeforeInFront
  <2> HIDE DEF s
  <2> QED
    BY <1>1, <2>1, <2>2, <2>3
<1>4. CASE list[k] = None /\ Len(order) # Capacity
  <2>1. k \notin CachedKeys /\ Touched(k) = <<k>> \o order
    BY <1>4 DEF CachedKeys, Touched
  <2>2. order \in Seq(Key) /\ k \notin Range(order)
    BY <2>1 DEF OrderInv, OrderTypeOK, OrderOfCache
  <2> QED
    BY <1>1, <2>1, <2>2
<1> QED
  BY <1>2, <1>3, <1>4

----------------------------------------------------------------------------
(* What stays in the cache while it is used. *)

HeldTypeOK ==
  /\ held \in [Key -> SUBSET Nat]
  /\ others \in [Key -> SUBSET Key]
  /\ \A k \in Key : IsFiniteSet(others[k])

IsThere(k, p) == list[k] # None /\ p \in DOMAIN list[k] /\ list[k][p] # None

HeldInv == \A k \in Key : \A p \in held[k] : IsThere(k, p)

(* Who stands before a key in the order has been used since. *)
AheadInv == \A a, b \in Key : Before(order, a, b) => a \in others[b]

HeldOK == HeldTypeOK /\ HeldInv /\ AheadInv

(* Before the key at the end of a full cache there are Capacity - 1 others: with
   the new one that evicts it, Capacity of them have interrupted it. *)
LEMMA EvictedIsInterrupted ==
  ASSUME HeldOK, OrderInv, NEW k \in Key, NEW j \in Evicted(k)
  PROVE  /\ j \in Key /\ j # k
         /\ Cardinality(others[j] \cup {k}) >= Capacity
<1> DEFINE n == Capacity
           T == others[j] \cup {k}
           g == [i \in 1 .. n |-> IF i = n THEN k ELSE order[i]]
<1>1. list[k] = None /\ Len(order) = n /\ j = order[n]
  BY DEF Evicted
<1>2. n \in Nat /\ n \in 1 .. n
  BY FragAssumption
<1>3. /\ DOMAIN order = 1 .. n /\ \A i \in 1 .. n : order[i] \in Key
      /\ \A i, l \in 1 .. n : order[i] = order[l] => i = l
  BY <1>1, <1>2 DEF OrderInv, OrderTypeOK, OrderOfCache
<1>4. \A i \in 1 .. n : order[i] \in CachedKeys
  BY <1>3 DEF OrderInv, OrderOfCache, Range
<1>5. \A i \in 1 .. n : order[i] # k
  BY <1>1, <1>4 DEF CachedKeys
<1>6. j \in Key /\ j # k
  BY <1>1, <1>2, <1>3, <1>5
<1>7. ASSUME NEW i \in 1 .. n, i # n PROVE order[i] \in others[j]
  <2>1. i < n
    BY <1>2, <1>7
  <2>2. Before(order, order[i], j)
    BY <1>1, <1>2, <1>3, <2>1 DEF Before
  <2> QED
    BY <1>3, <1>6, <2>2 DEF HeldOK, AheadInv
<1> HIDE DEF n
<1>8. \A i \in 1 .. n : g[i] \in T
  BY <1>7
<1>9. g \in [1 .. n -> T]
  BY <1>8
<1>10. \A i, l \in 1 .. n : g[i] = g[l] => i = l
  BY <1>3, <1>5
<1>11. g \in Injection(1 .. n, T)
  <2> HIDE DEF g, T
  <2>1. DOMAIN g = 1 .. n
    BY <1>9
  <2> QED
    BY <1>9, <1>10, <2>1 DEF Injection, IsInjective
<1>12. IsFiniteSet(others[j])
  BY <1>6 DEF HeldOK, HeldTypeOK
<1>13. IsFiniteSet(T)
  BY <1>12, FS_AddElement
<1>14. Cardinality(1 .. n) <= Cardinality(T)
  <2> HIDE DEF g, T
  <2> QED
    BY <1>11, <1>13, FS_Injection
<1>15. Cardinality(1 .. n) = n /\ Cardinality(T) \in Nat
  <2>1. n # 0 /\ 1 \in Int /\ n \in Int
    BY <1>2
  <2>2. Cardinality(1 .. n) = IF 1 > n THEN 0 ELSE n - 1 + 1
    BY <2>1, FS_Interval
  <2> HIDE DEF T
  <2>3. Cardinality(T) \in Nat
    BY <1>13, FS_CardinalityType
  <2> QED
    BY <1>2, <2>1, <2>2, <2>3
<1> QED
  <2> HIDE DEF T, g
  <2>1. Cardinality(T) >= n
    BY <1>2, <1>14, <1>15
  <2> QED
    BY <1>6, <2>1 DEF T, n

(* A frame of key k, whatever becomes of it. *)
LEMMA InterruptKeeps ==
  ASSUME HeldOK, CacheInv, OrderInv, NEW k \in Key, NEW items, Store(k, items),
         NEW h \in SUBSET Nat, \A p \in h : IsThere(k, p)', Interrupt(k, h)
  PROVE  HeldOK'
<1>1. /\ others' = [j \in Key |-> IF j = k THEN {} ELSE others[j] \cup {k}]
      /\ held' = [j \in Key |-> IF j = k THEN h
                                ELSE IF Cardinality(others'[j]) >= Capacity THEN {}
                                ELSE held[j]]
  BY DEF Interrupt
<1>2. HeldTypeOK'
  <2>1. others' \in [Key -> SUBSET Key]
    BY <1>1 DEF HeldOK, HeldTypeOK
  <2>2. held' \in [Key -> SUBSET Nat]
    BY <1>1 DEF HeldOK, HeldTypeOK
  <2>3. ASSUME NEW j \in Key PROVE IsFiniteSet(others'[j])
    <3>1. IsFiniteSet(others[j]) /\ IsFiniteSet(others[j] \cup {k})
      BY FS_AddElement DEF HeldOK, HeldTypeOK
    <3>2. others'[j] = {} \/ others'[j] = others[j] \cup {k}
      BY <1>1
    <3> QED
      BY <3>1, <3>2, FS_EmptySet
  <2> QED
    BY <2>1, <2>2, <2>3 DEF HeldTypeOK
<1>3. HeldInv'
  <2> SUFFICES ASSUME NEW j \in Key, NEW p \in held'[j] PROVE IsThere(j, p)'
    BY DEF HeldInv
  <2>1. CASE j = k
    BY <1>1, <2>1
  <2>2. CASE j # k
    <3>1. ~(Cardinality(others[j] \cup {k}) >= Capacity) /\ p \in held[j]
      BY <1>1, <2>2
    <3>2. j \notin Evicted(k)
      BY <3>1, EvictedIsInterrupted
    <3>3. list'[j] = list[j]
      BY <2>2, <3>2 DEF Store
    <3> QED
      BY <3>1, <3>3 DEF HeldOK, HeldInv, IsThere
  <2> QED
    BY <2>1, <2>2
<1>4. AheadInv'
  <2> SUFFICES ASSUME NEW a \in Key, NEW b \in Key, Before(order', a, b)
               PROVE  a \in others'[b]
    BY DEF AheadInv
  <2>1. order' = Touched(k) \/ order' = Tail(Touched(k))
    BY DEF Store
  <2>2. Touched(k) \in Seq(Key) /\ Touched(k) # <<>>
    <3>1. Touched(k) \in Seq(Key) /\ Range(Touched(k)) = (CachedKeys \ Evicted(k)) \cup {k}
      BY TouchedOrder
    <3>2. PICK i \in DOMAIN Touched(k) : Touched(k)[i] = k
      BY <3>1 DEF Range
    <3> QED
      BY <3>1, <3>2
  <2>3. Before(Touched(k), a, b)
    BY <2>1, <2>2, BeforeInTail
  <2>4. b # k /\ (a = k \/ Before(order, a, b))
    BY <2>3, BeforeInTouched
  <2>5. a = k \/ a \in others[b]
    BY <2>4 DEF HeldOK, AheadInv
  <2> QED
    BY <1>1, <2>4, <2>5
<1> QED
  BY <1>2, <1>3, <1>4 DEF HeldOK

(* The parts of a packet that are in the list of its id stay there while its
   fragments do not complete it. *)
LEMMA OwnStays ==
  ASSUME HeldOK, CacheInv, NEW d \in Datagram, NEW p \in DOMAIN d.parts, ~Foreign(d),
         process(FrameOf(d, p)), result' = None,
         NEW q \in held[d.key] \cup {p}
  PROVE  IsThere(d.key, q)'
<1> DEFINE f == FrameOf(d, p)
           k == d.key
           old == ListFor(f)
           items == Filled(f)
           n == Len(d.parts)
<1>1. StillIncomplete(f)
  BY OwnDelivery
<1>2. /\ k \in Key /\ f.key = k /\ f.part + 1 = p /\ f # None
      /\ f \in Frame /\ n \in Nat /\ p \in 1 .. n
  BY DatagramFields, FrameOfFields, FragAssumption
<1>3. list'[k] = items /\ f.part < Len(old)
  BY <1>1, <1>2 DEF StillIncomplete, Store
<1>4. items \in Seq(Frame \cup {None}) /\ items # None
  <2>1. items \in Seq(Frame \cup {None})
    BY <1>2, <1>3, FilledInPlace
  <2> QED
    BY <2>1, FragAssumption
<1>5. items = [old EXCEPT ![p] = f]
  BY <1>2 DEF Filled
<1>6. old \in Seq(Frame \cup {None}) /\ DOMAIN old = 1 .. n
  BY OwnList
<1>7. q = p \/ (q \in DOMAIN old /\ old[q] # None)
  <2> SUFFICES ASSUME q \in held[k] PROVE q \in DOMAIN old /\ old[q] # None
    OBVIOUS
  <2>1. IsThere(k, q)
    BY <1>2 DEF HeldOK, HeldInv
  <2> QED
    BY <1>2, <2>1 DEF IsThere, ListFor
<1> HIDE DEF f, old, items, n
<1>8. q \in DOMAIN items /\ items[q] # None
  BY <1>2, <1>5, <1>6, <1>7
<1> QED
  BY <1>3, <1>4, <1>8 DEF IsThere

(* Fragments of a packet that keep coming, with none of another packet of their
   id and fewer than Capacity other packets in between, are not evicted (frame.rs,
   LruCache::get_mut rather than peek in process).  Inductive with who has been
   used since: the keys in front in the order of the cache. *)
THEOREM PromptPacketIsHeldHolds == Spec => []PromptPacketIsHeld
<1>1. Init => HeldOK
  <2> SUFFICES ASSUME Init PROVE HeldOK
    OBVIOUS
  <2>1. HeldTypeOK
    BY FS_EmptySet DEF Init, HeldTypeOK
  <2>2. HeldInv
    BY DEF Init, HeldInv
  <2>3. AheadInv
    BY DEF Init, FragInit, AheadInv, Before
  <2> QED
    BY <2>1, <2>2, <2>3 DEF HeldOK
<1>2. HeldOK /\ CacheInv /\ OrderInv /\ [Next]_vars => HeldOK'
  <2> SUFFICES ASSUME HeldOK, CacheInv, OrderInv, [Next]_vars PROVE HeldOK'
    OBVIOUS
  <2>1. ASSUME NEW d \in Datagram, NEW p \in DOMAIN d.parts, Deliver(d, p) PROVE HeldOK'
    <3> DEFINE h == IF result' = None /\ ~Foreign(d) THEN held[d.key] \cup {p} ELSE {}
    <3>1. process(FrameOf(d, p)) /\ Interrupt(d.key, h)
      BY <2>1 DEF Deliver
    <3>2. d.key \in Key /\ FrameOf(d, p).key = d.key /\ p \in Nat
      BY DatagramFields, FrameOfFields
    <3>3. PICK items : Store(d.key, items)
      BY <3>1, <3>2 DEF process, NoSuchPart, StillIncomplete, Complete
    <3>4. h \in SUBSET Nat
      BY <3>2 DEF HeldOK, HeldTypeOK
    <3>5. \A q \in h : IsThere(d.key, q)'
      BY <3>1, OwnStays
    <3> HIDE DEF h
    <3> QED
      BY <3>1, <3>2, <3>3, <3>4, <3>5, InterruptKeeps
  <2>2. ASSUME NEW f \in Stray, StrayArrives(f) PROVE HeldOK'
    <3>1. f \in Frame /\ process(f) /\ Interrupt(f.key, {})
      BY <2>2, TrafficAssumption DEF StrayArrives
    <3>2. f.key \in Key
      BY <3>1, FrameFields
    <3>3. PICK items : Store(f.key, items)
      BY <3>1 DEF process, NoSuchPart, StillIncomplete, Complete
    <3> QED
      BY <3>1, <3>2, <3>3, InterruptKeeps
  <2>3. CASE UNCHANGED vars
    BY <2>3 DEF vars, HeldOK, HeldTypeOK, HeldInv, AheadInv, IsThere
  <2> QED
    BY <2>1, <2>2, <2>3 DEF Next
<1>3. HeldOK => PromptPacketIsHeld
  BY DEF HeldOK, HeldInv, IsThere, PromptPacketIsHeld
<1> QED
  BY <1>1, <1>2, <1>3, TrafficIsParser, CacheInvHolds, OrderHolds, PTL DEF Spec
=============================================================================

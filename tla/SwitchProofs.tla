----------------------------- MODULE SwitchProofs -----------------------------
(* Proof that Relay implements LanSwitch, for every set of addresses, tasks,
   slots and datagrams and every capacity. *)
EXTENDS RelaySwitch, RelayProofs, NumberProofs

----------------------------------------------------------------------------
(* Compact is well defined: the function it takes its value from exists... *)
IsUpTo(s, m, f) ==
  f = [n \in 0 .. m |->
         IF n = 0 THEN <<>>
         ELSE IF s[n] = NoPacket THEN f[n - 1] ELSE Append(f[n - 1], s[n])]

LEMMA UpToExists ==
  ASSUME NEW s
  PROVE  \A m \in Nat : \E f : IsUpTo(s, m, f)
  <1> DEFINE P == {m \in Nat : \E f : IsUpTo(s, m, f)}
  <1>1. 0 \in P
    <2>1. IsUpTo(s, 0, [n \in 0 .. 0 |-> <<>>])
      BY DEF IsUpTo
    <2>2. QED
      BY <2>1
  <1>2. ASSUME NEW m \in Nat, m \in P PROVE m + 1 \in P
    <2>1. PICK f : IsUpTo(s, m, f)
      BY <1>2
    <2> DEFINE g == [n \in 0 .. m + 1 |->
                       IF n # m + 1 THEN f[n]
                       ELSE IF s[n] = NoPacket THEN f[n - 1]
                       ELSE Append(f[n - 1], s[n])]
    <2>2. ASSUME NEW n \in 0 .. m + 1
          PROVE  g[n] = IF n = 0 THEN <<>>
                        ELSE IF s[n] = NoPacket THEN g[n - 1]
                        ELSE Append(g[n - 1], s[n])
      <3>1. CASE n = m + 1
        <4>1. n # 0 /\ n - 1 \in 0 .. m + 1 /\ n - 1 # m + 1
          BY <3>1
        <4>2. QED
          BY <3>1, <4>1
      <3>2. CASE n # m + 1
        <4>1. n \in 0 .. m /\ (n # 0 => n - 1 \in 0 .. m + 1 /\ n - 1 # m + 1)
          BY <3>2
        <4>2. f[n] = IF n = 0 THEN <<>>
                     ELSE IF s[n] = NoPacket THEN f[n - 1]
                     ELSE Append(f[n - 1], s[n])
          BY <4>1, <2>1 DEF IsUpTo
        <4>3. g[n] = f[n] /\ (n # 0 => g[n - 1] = f[n - 1])
          BY <4>1, <3>2
        <4>4. QED
          BY <4>2, <4>3
      <3>3. QED
        BY <3>1, <3>2
    <2>3. IsUpTo(s, m + 1, g)
      BY <2>2 DEF IsUpTo
    <2>4. QED
      BY <2>3
  <1> HIDE DEF P
  <1>3. Nat \subseteq P
    BY <1>1, <1>2, SetInduction
  <1>4. QED
    BY <1>3 DEF P

(* ... and what it is up to some place depends on the places up to there. *)
LEMMA UpToAgrees ==
  ASSUME NEW s, NEW r, NEW m \in Nat, NEW k \in Nat, m <= k,
         \A i \in 1 .. m : s[i] = r[i],
         NEW f, IsUpTo(s, m, f), NEW g, IsUpTo(r, k, g)
  PROVE  f[m] = g[m]
  <1> DEFINE P == {n \in Nat : n <= m => f[n] = g[n]}
  <1>1. 0 \in P
    BY DEF IsUpTo
  <1>2. ASSUME NEW n \in Nat, n \in P PROVE n + 1 \in P
    <2> SUFFICES ASSUME n + 1 <= m PROVE f[n + 1] = g[n + 1]
      OBVIOUS
    <2>1. /\ f[n] = g[n] /\ s[n + 1] = r[n + 1]
          /\ (n + 1) - 1 = n /\ n + 1 # 0 /\ n + 1 \in 0 .. m /\ n + 1 \in 0 .. k
      BY <1>2
    <2>2. f[n + 1] = IF s[n + 1] = NoPacket THEN f[n] ELSE Append(f[n], s[n + 1])
      <3>1. \A l \in 0 .. m :
              f[l] = IF l = 0 THEN <<>>
                     ELSE IF s[l] = NoPacket THEN f[l - 1] ELSE Append(f[l - 1], s[l])
        BY DEF IsUpTo
      <3>2. QED
        BY <2>1, <3>1, Zenon
    <2>3. g[n + 1] = IF r[n + 1] = NoPacket THEN g[n] ELSE Append(g[n], r[n + 1])
      <3>1. \A l \in 0 .. k :
              g[l] = IF l = 0 THEN <<>>
                     ELSE IF r[l] = NoPacket THEN g[l - 1] ELSE Append(g[l - 1], r[l])
        BY DEF IsUpTo
      <3>2. QED
        BY <2>1, <3>1, Zenon
    <2>4. QED
      BY <2>1, <2>2, <2>3
  <1> HIDE DEF P
  <1>3. Nat \subseteq P
    BY <1>1, <1>2, SetInduction
  <1>4. QED
    BY <1>3 DEF P

LEMMA CompactIs ==
  ASSUME NEW s, Len(s) \in Nat
  PROVE  \E f : IsUpTo(s, Len(s), f) /\ Compact(s) = f[Len(s)]
  <1>1. IsUpTo(s, Len(s), CHOOSE f : IsUpTo(s, Len(s), f))
    BY UpToExists
  <1>2. Compact(s) = (CHOOSE f : IsUpTo(s, Len(s), f))[Len(s)]
    BY DEF Compact, IsUpTo
  <1>3. QED
    BY <1>1, <1>2

Place == Datagram \cup {NoPacket}

LEMMA CompactEmpty == Compact(<<>>) = <<>>
  <1>1. PICK f : IsUpTo(<<>>, 0, f) /\ Compact(<<>>) = f[0]
    BY CompactIs
  <1>2. QED
    BY <1>1 DEF IsUpTo

LEMMA CompactAppend ==
  ASSUME NEW s \in Seq(Place), NEW x \in Place
  PROVE  Compact(Append(s, x)) =
           IF x = NoPacket THEN Compact(s) ELSE Append(Compact(s), x)
  <1>1. \A r : Len(r) \in Nat =>
          \E f : IsUpTo(r, Len(r), f) /\ Compact(r) = f[Len(r)]
    BY CompactIs
  <1> DEFINE r == Append(s, x)
             n == Len(s)
  <1>2. /\ n \in Nat
        /\ Len(r) = n + 1
        /\ \A i \in 1 .. n : s[i] = r[i]
        /\ r[n + 1] = x
    BY AppendElements
  <1> HIDE DEF r, n
  <1>3. PICK f : IsUpTo(s, n, f) /\ Compact(s) = f[n]
    BY <1>1, <1>2 DEF n
  <1>4. PICK g : IsUpTo(r, n + 1, g) /\ Compact(r) = g[n + 1]
    BY <1>1, <1>2
  <1>5. f[n] = g[n]
    BY <1>2, <1>3, <1>4, UpToAgrees
  <1>6. g[n + 1] = IF r[n + 1] = NoPacket THEN g[n] ELSE Append(g[n], r[n + 1])
    <2>1. n + 1 \in 0 .. n + 1 /\ n + 1 # 0 /\ (n + 1) - 1 = n
      BY <1>2
    <2>2. QED
      BY <1>4, <2>1 DEF IsUpTo
  <1>7. Compact(r) = IF x = NoPacket THEN Compact(s) ELSE Append(Compact(s), x)
    BY <1>2, <1>3, <1>4, <1>5, <1>6
  <1>8. QED
    BY <1>7 DEF r

(* What is true of the empty sequence and stays true when a place is added
   behind is true of all. *)
LEMMA SeqInduction ==
  ASSUME NEW P, <<>> \in P,
         \A s \in Seq(Place), x \in Place : s \in P => Append(s, x) \in P
  PROVE  Seq(Place) \subseteq P
  <1> DEFINE N == {n \in Nat : \A s \in Seq(Place) : Len(s) = n => s \in P}
  <1>1. 0 \in N
    BY EmptySeq
  <1>2. ASSUME NEW n \in Nat, n \in N PROVE n + 1 \in N
    <2> SUFFICES ASSUME NEW s \in Seq(Place), Len(s) = n + 1 PROVE s \in P
      OBVIOUS
    <2>1. s # <<>>
      BY EmptySeq
    <2>2. PICK r \in Seq(Place), x \in Place : s = Append(r, x)
      BY <2>1, SequenceEmptyOrAppend
    <2>3. Len(r) = n
      BY <2>2, AppendElements, LenProperties
    <2>4. QED
      BY <1>2, <2>2, <2>3
  <1>3. ASSUME NEW s \in Seq(Place) PROVE Len(s) \in Nat
    BY LenProperties
  <1> HIDE DEF N
  <1>4. Nat \subseteq N
    BY <1>1, <1>2, SetInduction
  <1>5. QED
    BY <1>3, <1>4 DEF N

LEMMA CompactType ==
  \A s \in Seq(Place) : Compact(s) \in Seq(Datagram)
  <1> DEFINE P == {s \in Seq(Place) : Compact(s) \in Seq(Datagram)}
  <1>1. <<>> \in P
    BY CompactEmpty, EmptySeq
  <1>2. ASSUME NEW s \in Seq(Place), NEW x \in Place, s \in P
        PROVE  Append(s, x) \in P
    <2>1. Append(s, x) \in Seq(Place)
      BY AppendElements
    <2>2. Compact(s) \in Seq(Datagram) /\ (x # NoPacket => x \in Datagram)
      BY <1>2 DEF Place
    <2>3. x # NoPacket => Append(Compact(s), x) \in Seq(Datagram)
      BY <2>2, AppendElements
    <2>4. QED
      BY <2>1, <2>2, <2>3, CompactAppend
  <1> HIDE DEF P
  <1>3. Seq(Place) \subseteq P
    BY <1>1, <1>2, SeqInduction
  <1>4. QED
    BY <1>3 DEF P

LEMMA CompactSingle ==
  ASSUME NEW x \in Place
  PROVE  Compact(<<x>>) = IF x = NoPacket THEN <<>> ELSE <<x>>
  <1>1. <<>> \in Seq(Place) /\ Append(<<>>, x) = <<x>>
    BY EmptySeq
  <1>2. QED
    BY <1>1, CompactEmpty, CompactAppend

LEMMA ConcatAppend ==
  ASSUME NEW S, NEW s \in Seq(S), NEW t \in Seq(S), NEW x \in S
  PROVE  s \o Append(t, x) = Append(s \o t, x)
  <1>1. <<x>> \in Seq(S) /\ s \o t \in Seq(S)
    BY ConcatProperties
  <1>2. s \o (t \o <<x>>) = (s \o t) \o <<x>>
    BY <1>1, ConcatAssociative
  <1>3. QED
    BY <1>1, <1>2, AppendIsConcat

LEMMA ConcatOfDatagrams ==
  /\ \A s, t, u \in Seq(Datagram) : (s \o t) \o u = s \o (t \o u)
  /\ \A s, t \in Seq(Datagram), x \in Datagram : s \o Append(t, x) = Append(s \o t, x)
  <1>1. ASSUME NEW s \in Seq(Datagram), NEW t \in Seq(Datagram), NEW u \in Seq(Datagram)
        PROVE  (s \o t) \o u = s \o (t \o u)
    BY ConcatAssociative, SMTT(20)
  <1>2. ASSUME NEW s \in Seq(Datagram), NEW t \in Seq(Datagram), NEW x \in Datagram
        PROVE  s \o Append(t, x) = Append(s \o t, x)
    BY ConcatAppend
  <1>3. QED
    BY <1>1, <1>2

(* A sequence that is compacted can be compacted part by part. *)
LEMMA CompactConcat ==
  ASSUME NEW s \in Seq(Place), NEW t \in Seq(Place)
  PROVE  Compact(s \o t) = Compact(s) \o Compact(t)
  <1> DEFINE P == {r \in Seq(Place) : Compact(s \o r) = Compact(s) \o Compact(r)}
  <1>1. <<>> \in P
    <2>1. s \o <<>> = s /\ <<>> \in Seq(Place)
      BY ConcatEmptySeq, EmptySeq
    <2>2. Compact(s) \o <<>> = Compact(s)
      BY CompactType, ConcatEmptySeq
    <2>3. QED
      BY <2>1, <2>2, CompactEmpty
  <1>2. ASSUME NEW r \in Seq(Place), NEW x \in Place, r \in P
        PROVE  Append(r, x) \in P
    <2>1. s \o r \in Seq(Place) /\ Append(r, x) \in Seq(Place)
      BY ConcatProperties, AppendElements
    <2>2. s \o Append(r, x) = Append(s \o r, x)
      BY ConcatAppend
    <2>3. CASE x = NoPacket
      BY <1>2, <2>1, <2>2, <2>3, CompactAppend
    <2>4. CASE x # NoPacket
      <3>1. x \in Datagram /\ Compact(s) \in Seq(Datagram) /\ Compact(r) \in Seq(Datagram)
        BY <2>4, CompactType DEF Place
      <3>2. Append(Compact(s) \o Compact(r), x) = Compact(s) \o Append(Compact(r), x)
        BY <3>1, ConcatOfDatagrams
      <3>3. Compact(Append(s \o r, x)) = Append(Compact(s \o r), x)
        BY <2>1, <2>4, CompactAppend
      <3>4. Compact(Append(r, x)) = Append(Compact(r), x)
        BY <2>4, CompactAppend
      <3>5. QED
        BY <1>2, <2>1, <2>2, <3>2, <3>3, <3>4
    <2>5. QED
      BY <2>3, <2>4
  <1> HIDE DEF P
  <1>3. Seq(Place) \subseteq P
    BY <1>1, <1>2, SeqInduction
  <1>4. QED
    BY <1>3 DEF P

LEMMA CompactHeadTail ==
  ASSUME NEW s \in Seq(Place), s # <<>>
  PROVE  /\ Compact(s) = Compact(<<s[1]>>) \o Compact(Tail(s))
         /\ s[1] \in Place
  <1>1. /\ Head(s) = s[1] /\ s[1] \in Place
        /\ Len(s) \in Nat \ {0}
        /\ <<s[1]>> \in Seq(Place)
        /\ Tail(s) \in Seq(Place)
    BY TailElements
  <1>2. SubSeq(s, 1, Len(s)) = <<s[1]>> \o SubSeq(s, 1 + 1, Len(s))
    BY <1>1, SubSeqRecursiveFirst
  <1>3. s = <<s[1]>> \o Tail(s)
    BY <1>1, <1>2, SubSeqFull, TailIsSubSeq
  <1>4. QED
    BY <1>1, <1>3, CompactConcat

(* Nothing is left of a sequence of empty places. *)
LEMMA CompactNone ==
  ASSUME NEW s \in Seq(Place), \A i \in DOMAIN s : s[i] = NoPacket
  PROVE  Compact(s) = <<>>
  <1> DEFINE P == {r \in Seq(Place) :
                     (\A i \in DOMAIN r : r[i] = NoPacket) => Compact(r) = <<>>}
  <1>1. <<>> \in P
    BY CompactEmpty, EmptySeq
  <1>2. ASSUME NEW r \in Seq(Place), NEW x \in Place, r \in P
        PROVE  Append(r, x) \in P
    <2> SUFFICES ASSUME \A i \in DOMAIN Append(r, x) : Append(r, x)[i] = NoPacket
                 PROVE  Compact(Append(r, x)) = <<>>
      BY AppendElements
    <2>1. x = NoPacket /\ \A i \in DOMAIN r : r[i] = NoPacket
      BY AppendElements
    <2>2. QED
      BY <1>2, <2>1, CompactAppend
  <1> HIDE DEF P
  <1>3. Seq(Place) \subseteq P
    BY <1>1, <1>2, SeqInduction
  <1>4. QED
    BY <1>3 DEF P

----------------------------------------------------------------------------
(* The places of the two channels after a send and after a recv. *)
LEMMA EventViewType ==
  ASSUME NEW es \in Seq(Event), NEW a \in Addr
  PROVE  /\ EventView(es, a) \in Seq(Place)
         /\ Len(EventView(es, a)) = Len(es)
         /\ DOMAIN EventView(es, a) = DOMAIN es
  <1>1. Len(es) \in Nat /\ DOMAIN es = 1 .. Len(es) /\ \A i \in DOMAIN es : es[i] \in Event
    BY LenProperties, ElementOfSeq
  <1>2. \A e \in Event : e.packet \in Place
    BY DEF Event, SendLAN, Close, Place
  <1>3. QED
    BY <1>1, <1>2 DEF EventView, Place

LEMMA EventViewAppend ==
  ASSUME NEW es \in Seq(Event), NEW e \in Event, NEW a \in Addr
  PROVE  EventView(Append(es, e), a) =
           Append(EventView(es, a), IF e.addr = a THEN e.packet ELSE NoPacket)
  <1> DEFINE x == IF e.addr = a THEN e.packet ELSE NoPacket
             v == EventView(es, a)
             w == EventView(Append(es, e), a)
  <1>1. e.packet \in Place /\ x \in Place
    BY DEF Event, SendLAN, Close, Place
  <1>2. v \in Seq(Place) /\ Len(v) = Len(es) /\ DOMAIN v = DOMAIN es
    BY EventViewType
  <1>3. /\ Append(es, e) \in Seq(Event)
        /\ w \in Seq(Place) /\ Len(w) = Len(es) + 1 /\ DOMAIN w = DOMAIN Append(es, e)
    <2>1. Append(es, e) \in Seq(Event) /\ Len(Append(es, e)) = Len(es) + 1
      BY AppendElements
    <2>2. QED
      BY <2>1, EventViewType
  <1>4. /\ Append(v, x) \in Seq(Place)
        /\ Len(Append(v, x)) = Len(es) + 1
        /\ \A i \in 1 .. Len(es) : Append(v, x)[i] = v[i]
        /\ Append(v, x)[Len(es) + 1] = x
    BY <1>1, <1>2, AppendProperties
  <1>5. /\ Len(es) \in Nat
        /\ DOMAIN es = 1 .. Len(es)
        /\ DOMAIN Append(es, e) = 1 .. (Len(es) + 1)
        /\ \A i \in DOMAIN es : Append(es, e)[i] = es[i]
        /\ Append(es, e)[Len(es) + 1] = e
    BY AppendElements
  <1>6. ASSUME NEW i \in 1 .. Len(w) PROVE w[i] = Append(v, x)[i]
    <2>1. CASE i = Len(es) + 1
      BY <1>3, <1>4, <1>5, <2>1 DEF EventView
    <2>2. CASE i # Len(es) + 1
      <3>1. i \in 1 .. Len(es)
        BY <1>3, <1>5, <2>2
      <3>2. QED
        BY <1>3, <1>4, <1>5, <3>1 DEF EventView
    <2>3. QED
      BY <2>1, <2>2
  <1> HIDE DEF v, w, x
  <1>7. w = Append(v, x)
    BY <1>3, <1>4, <1>6, SeqEqual
  <1>8. QED
    BY <1>7 DEF v, w, x

LEMMA EventViewTail ==
  ASSUME NEW es \in Seq(Event), NEW a \in Addr, es # <<>>
  PROVE  /\ EventView(es, a) # <<>>
         /\ EventView(es, a)[1] = IF es[1].addr = a THEN es[1].packet ELSE NoPacket
         /\ EventView(Tail(es), a) = Tail(EventView(es, a))
  <1> DEFINE v == EventView(es, a)
             w == EventView(Tail(es), a)
  <1>1. /\ Tail(es) \in Seq(Event)
        /\ Len(es) \in Nat \ {0}
        /\ Len(Tail(es)) = Len(es) - 1
        /\ DOMAIN es = 1 .. Len(es)
        /\ DOMAIN Tail(es) = 1 .. (Len(es) - 1)
        /\ \A i \in DOMAIN Tail(es) : Tail(es)[i] = es[i + 1]
    BY TailElements
  <1>2. v \in Seq(Place) /\ Len(v) = Len(es) /\ DOMAIN v = DOMAIN es
    BY EventViewType
  <1>3. w \in Seq(Place) /\ Len(w) = Len(es) - 1 /\ DOMAIN w = DOMAIN Tail(es)
    BY <1>1, EventViewType
  <1>4. v # <<>>
    BY <1>1, <1>2, EmptySeq
  <1>5. /\ Tail(v) \in Seq(Place)
        /\ Len(Tail(v)) = Len(es) - 1
        /\ \A i \in 1 .. Len(es) - 1 : Tail(v)[i] = v[i + 1]
    BY <1>2, <1>4, HeadTailProperties
  <1>6. ASSUME NEW i \in 1 .. Len(w) PROVE w[i] = Tail(v)[i]
    BY <1>1, <1>3, <1>5 DEF EventView
  <1>7. v[1] = IF es[1].addr = a THEN es[1].packet ELSE NoPacket
    BY <1>1 DEF EventView
  <1> HIDE DEF v, w
  <1>8. w = Tail(v)
    BY <1>3, <1>5, <1>6, SeqEqual
  <1>9. QED
    BY <1>4, <1>7, <1>8 DEF v, w

LEMMA LanViewType ==
  ASSUME NEW q \in Seq(Datagram)
  PROVE  /\ LanView(q) \in Seq(Place)
         /\ Len(LanView(q)) = Len(q)
         /\ DOMAIN LanView(q) = DOMAIN q
  <1>1. Len(q) \in Nat /\ DOMAIN q = 1 .. Len(q) /\ \A i \in DOMAIN q : q[i] \in Datagram
    BY LenProperties, ElementOfSeq
  <1>2. QED
    BY <1>1 DEF LanView, Place

LEMMA LanViewAppend ==
  ASSUME NEW q \in Seq(Datagram), NEW d \in Datagram
  PROVE  LanView(Append(q, d)) = Append(LanView(q), IF IsLan(d) THEN d ELSE NoPacket)
  <1> DEFINE x == IF IsLan(d) THEN d ELSE NoPacket
             v == LanView(q)
             w == LanView(Append(q, d))
  <1>1. x \in Place
    BY DEF Place
  <1>2. v \in Seq(Place) /\ Len(v) = Len(q) /\ DOMAIN v = DOMAIN q
    BY LanViewType
  <1>3. /\ Append(q, d) \in Seq(Datagram)
        /\ w \in Seq(Place) /\ Len(w) = Len(q) + 1 /\ DOMAIN w = DOMAIN Append(q, d)
    <2>1. Append(q, d) \in Seq(Datagram) /\ Len(Append(q, d)) = Len(q) + 1
      BY AppendProperties
    <2> DEFINE r == Append(q, d)
    <2> HIDE DEF r
    <2>2. r \in Seq(Datagram)
      BY <2>1 DEF r
    <2>3. LanView(r) \in Seq(Place) /\ Len(LanView(r)) = Len(r) /\ DOMAIN LanView(r) = DOMAIN r
      BY <2>2, LanViewType
    <2>4. QED
      BY <2>1, <2>3 DEF r
  <1>4. /\ Append(v, x) \in Seq(Place)
        /\ Len(Append(v, x)) = Len(q) + 1
        /\ \A i \in 1 .. Len(q) : Append(v, x)[i] = v[i]
        /\ Append(v, x)[Len(q) + 1] = x
    BY <1>1, <1>2, AppendProperties
  <1>5. /\ Len(q) \in Nat
        /\ DOMAIN q = 1 .. Len(q)
        /\ DOMAIN Append(q, d) = 1 .. (Len(q) + 1)
        /\ \A i \in DOMAIN q : Append(q, d)[i] = q[i]
        /\ Append(q, d)[Len(q) + 1] = d
    BY AppendElements
  <1>6. ASSUME NEW i \in 1 .. Len(w) PROVE w[i] = Append(v, x)[i]
    <2>1. CASE i = Len(q) + 1
      BY <1>3, <1>4, <1>5, <2>1 DEF LanView
    <2>2. CASE i # Len(q) + 1
      <3>1. i \in 1 .. Len(q)
        BY <1>3, <1>5, <2>2
      <3>2. QED
        BY <1>3, <1>4, <1>5, <3>1 DEF LanView
    <2>3. QED
      BY <2>1, <2>2
  <1> HIDE DEF v, w, x
  <1>7. w = Append(v, x)
    BY <1>3, <1>4, <1>6, SeqEqual
  <1>8. QED
    BY <1>7 DEF v, w, x

LEMMA LanViewTail ==
  ASSUME NEW q \in Seq(Datagram), q # <<>>
  PROVE  /\ LanView(q) # <<>>
         /\ LanView(q)[1] = IF IsLan(Head(q)) THEN Head(q) ELSE NoPacket
         /\ LanView(Tail(q)) = Tail(LanView(q))
  <1> DEFINE v == LanView(q)
             w == LanView(Tail(q))
  <1>1. /\ Tail(q) \in Seq(Datagram)
        /\ Head(q) = q[1]
        /\ Len(q) \in Nat \ {0}
        /\ Len(Tail(q)) = Len(q) - 1
        /\ DOMAIN q = 1 .. Len(q)
        /\ DOMAIN Tail(q) = 1 .. (Len(q) - 1)
        /\ \A i \in DOMAIN Tail(q) : Tail(q)[i] = q[i + 1]
    BY TailElements
  <1>2. v \in Seq(Place) /\ Len(v) = Len(q) /\ DOMAIN v = DOMAIN q
    BY LanViewType
  <1>3. w \in Seq(Place) /\ Len(w) = Len(q) - 1 /\ DOMAIN w = DOMAIN Tail(q)
    BY <1>1, LanViewType
  <1>4. v # <<>>
    BY <1>1, <1>2, EmptySeq
  <1>5. /\ Tail(v) \in Seq(Place)
        /\ Len(Tail(v)) = Len(q) - 1
        /\ \A i \in 1 .. Len(q) - 1 : Tail(v)[i] = v[i + 1]
    BY <1>2, <1>4, HeadTailProperties
  <1>6. ASSUME NEW i \in 1 .. Len(w) PROVE w[i] = Tail(v)[i]
    BY <1>1, <1>3, <1>5 DEF LanView
  <1>7. v[1] = IF IsLan(Head(q)) THEN Head(q) ELSE NoPacket
    BY <1>1 DEF LanView
  <1> HIDE DEF v, w
  <1>8. w = Tail(v)
    BY <1>3, <1>5, <1>6, SeqEqual
  <1>9. QED
    BY <1>4, <1>7, <1>8 DEF v, w

----------------------------------------------------------------------------
(* What the mapping reads of the state. *)
LEMMA ViewTypes ==
  ASSUME IInv
  PROVE  /\ events \in Seq(Event)
         /\ \A a \in Cached : a \in Addr /\ cache[a] \in Peer /\ cache[a].peer \in Task
         /\ \A t \in Task : /\ chan[t] \in Seq(Datagram)
                            /\ hand[t] \in Place
                            /\ Compact(<<hand[t]>>) \in Seq(Datagram)
                            /\ Compact(LanView(chan[t])) \in Seq(Datagram)
                            /\ TaskPackets(t) \in Seq(Datagram)
         /\ \A a \in Addr : /\ Compact(EventView(events, a)) \in Seq(Datagram)
                            /\ PendingOf(a) \in Seq(Datagram)
  <1>1. events \in Seq(Event)
    BY DEF IInv, TypeOK
  <1>2. \A a \in Cached : a \in Addr /\ cache[a] \in Peer /\ cache[a].peer \in Task
    BY PeerFields DEF IInv, TypeOK, Cached
  <1>3. ASSUME NEW t \in Task
        PROVE  /\ chan[t] \in Seq(Datagram)
               /\ hand[t] \in Place
               /\ Compact(<<hand[t]>>) \in Seq(Datagram)
               /\ Compact(LanView(chan[t])) \in Seq(Datagram)
               /\ TaskPackets(t) \in Seq(Datagram)
    <2>1. chan[t] \in Seq(Datagram) /\ hand[t] \in Place
      BY DEF IInv, TypeOK, Place
    <2>2. <<hand[t]>> \in Seq(Place) /\ LanView(chan[t]) \in Seq(Place)
      BY <2>1, LanViewType
    <2>3. /\ Compact(<<hand[t]>>) \in Seq(Datagram)
          /\ Compact(LanView(chan[t])) \in Seq(Datagram)
      BY <2>2, CompactType
    <2>4. TaskPackets(t) \in Seq(Datagram)
      BY <2>3, ConcatProperties DEF TaskPackets
    <2>5. QED
      BY <2>1, <2>3, <2>4
  <1>4. ASSUME NEW a \in Addr
        PROVE  /\ Compact(EventView(events, a)) \in Seq(Datagram)
               /\ PendingOf(a) \in Seq(Datagram)
    <2>1. Compact(EventView(events, a)) \in Seq(Datagram)
      BY <1>1, EventViewType, CompactType
    <2>2. CASE a \in Cached
      BY <1>2, <1>3, <2>1, <2>2, ConcatProperties DEF PendingOf
    <2>3. CASE a \notin Cached
      BY <2>1, <2>3, ConcatEmptySeq DEF PendingOf
    <2>4. QED
      BY <2>1, <2>2, <2>3
  <1>5. QED
    BY <1>1, <1>2, <1>3, <1>4

(* A step that the switch does not see. *)
Unseen ==
  /\ UNCHANGED <<map, Cached, Leaving, IdleMembers, Pending, Out>>

LEMMA SameMembers ==
  ASSUME IInv, UNCHANGED cache,
         \A t \in Task : RxOpen(t)' <=> RxOpen(t)
  PROVE  UNCHANGED <<Cached, Leaving, IdleMembers>>
  BY ViewTypes DEF Cached, Leaving, IdleMembers

LEMMA SamePending ==
  ASSUME IInv, UNCHANGED Cached,
         \A a \in Cached : cache'[a].peer = cache[a].peer,
         \A t \in Task : TaskPackets(t)' = TaskPackets(t),
         \A a \in Addr : Compact(EventView(events', a)) = Compact(EventView(events, a))
  PROVE  UNCHANGED Pending
  <1>1. ASSUME NEW a \in Addr PROVE PendingOf(a)' = PendingOf(a)
    <2>1. CASE a \in Cached
      <3>1. cache[a].peer \in Task /\ cache'[a].peer = cache[a].peer
        BY <2>1, ViewTypes
      <3>2. \A t \in Task :
              Compact(<<hand'[t]>>) \o Compact(LanView(chan'[t])) =
                Compact(<<hand[t]>>) \o Compact(LanView(chan[t]))
        BY DEF TaskPackets
      <3>3. QED
        BY <2>1, <3>1, <3>2 DEF PendingOf, TaskPackets
    <2>2. CASE a \notin Cached
      BY <2>2 DEF PendingOf
    <2>3. QED
      BY <2>1, <2>2
  <1>2. QED
    BY <1>1 DEF Pending

(* recv_task without peer_mut, and a handler that does not send. *)
LEMMA RecvUnseen ==
  ASSUME IInv,
         \/ \E a \in Addr, d \in Datagram : RecvFrom(a, d)
         \/ RecvError \/ DropUnparsable \/ AnswerPing \/ PongSent
  PROVE  Unseen
  <1>1. UNCHANGED <<cache, map, chan, pc, owner, hand, events, worker>>
    BY DEF RecvFrom, RecvError, DropUnparsable, AnswerPing, PongSent, peerVars
  <1>2. UNCHANGED <<Cached, Leaving, IdleMembers, Pending, Out>>
    BY <1>1 DEF Cached, Leaving, RxOpen, IdleMembers, Pending, PendingOf, TaskPackets, Out
  <1>3. QED
    BY <1>1, <1>2 DEF Unseen

LEMMA HandlerUnseen ==
  ASSUME IInv, NEW s \in Slot, OutPacketPlugins(s) \/ SendLanReturns(s)
  PROVE  Unseen
  <1>1. UNCHANGED <<cache, map, chan, pc, owner, hand, events>>
    BY DEF OutPacketPlugins, SendLanReturns, peerVars
  <1>2. UNCHANGED <<Cached, Leaving, IdleMembers, Pending>>
    BY <1>1 DEF Cached, Leaving, RxOpen, IdleMembers, Pending, PendingOf, TaskPackets
  <1>3. Out' = Out
    <2>1. worker \in [Slot -> Job \cup {Free}] /\ worker[s] \in Job
      BY DEF IInv, TypeOK, OutPacketPlugins, SendLanReturns
    <2>2. CASE OutPacketPlugins(s)
      <3>1. worker' = [worker EXCEPT ![s] = [phase |-> "send", todo |-> worker[s].todo]]
        BY <2>1, <2>2 DEF OutPacketPlugins
      <3>2. [phase |-> "send", todo |-> worker[s].todo] \in Job
        BY <2>1, JobFields
      <3>3. worker'[s] # Free /\ worker'[s].todo = worker[s].todo
        BY <2>1, <3>1, <3>2, JobFields
      <3>4. QED
        BY <2>1, <3>1, <3>3, JobFields DEF Out
    <2>3. CASE SendLanReturns(s)
      BY <2>1, <2>3, JobFields DEF Out, SendLanReturns
    <2>4. QED
      BY <2>2, <2>3
  <1>4. QED
    BY <1>1, <1>2, <1>3 DEF Unseen

LEMMA IdleTimeoutElapsesUnseen ==
  ASSUME IInv, NEW a \in Addr, IdleTimeoutElapses(a)
  PROVE  Unseen
  <1>1. UNCHANGED <<map, chan, pc, owner, hand, events, worker>>
    BY DEF IdleTimeoutElapses, peerVars
  <1>2. cache \in [Addr -> Peer \cup {Absent}] /\ cache[a] \in Peer
    BY DEF IInv, TypeOK, IdleTimeoutElapses
  <1>3. cache' = [cache EXCEPT ![a] = [peer |-> cache[a].peer, state |-> "Lapsed"]]
    BY <1>2 DEF IdleTimeoutElapses
  <1>4. /\ cache'[a] \in Peer
        /\ cache'[a].peer = cache[a].peer /\ cache'[a].state = "Lapsed"
        /\ cache[a].state = "Connected"
        /\ \A b \in Addr \ {a} : cache'[b] = cache[b]
    <2>1. cache[a].peer \in Task /\ "Lapsed" \in PeerState
      BY <1>2, PeerFields DEF PeerState
    <2>2. LET p == [peer |-> cache[a].peer, state |-> "Lapsed"]
          IN  p \in Peer /\ p.peer = cache[a].peer /\ p.state = "Lapsed"
      BY <2>1, PeerFields
    <2>3. QED
      BY <1>2, <1>3, <2>2 DEF IdleTimeoutElapses
  <1>5. UNCHANGED Cached
    BY <1>2, <1>4, PeerFields DEF Cached
  <1>6. \A b \in Cached : b \in Addr /\ cache'[b].peer = cache[b].peer
    BY <1>4 DEF Cached
  <1>7. UNCHANGED <<Leaving, IdleMembers>>
    BY <1>1, <1>4, <1>5, <1>6 DEF Leaving, RxOpen, IdleMembers
  <1>8. UNCHANGED Pending
    BY <1>1, <1>5, <1>6, SamePending DEF TaskPackets
  <1>9. UNCHANGED Out
    BY <1>1 DEF Out
  <1>10. QED
    BY <1>1, <1>5, <1>7, <1>8, <1>9 DEF Unseen

(* do_packet times out, or takes a packet that it will or will not pass on. *)
LEMMA TaskTimeoutUnseen ==
  ASSUME IInv, NEW t \in Task, TaskTimeout(t)
  PROVE  Unseen
  <1>1. UNCHANGED <<cache, map, chan, hand, events, worker>>
    BY DEF TaskTimeout
  <1>2. \A u \in Task : RxOpen(u)' <=> RxOpen(u)
    BY DEF IInv, TypeOK, TaskTimeout, RxOpen
  <1>3. UNCHANGED <<Cached, Leaving, IdleMembers>>
    BY <1>1, <1>2, SameMembers
  <1>4. UNCHANGED <<Pending, Out>>
    BY <1>1, <1>3 DEF Pending, PendingOf, TaskPackets, Out
  <1>5. QED
    BY <1>1, <1>3, <1>4 DEF Unseen

LEMMA TaskRecvUnseen ==
  ASSUME IInv, NEW t \in Task, TaskRecv(t)
  PROVE  Unseen
  <1> DEFINE q == chan[t]
             x == IF IsLan(Head(q)) THEN Head(q) ELSE NoPacket
  <1>1. UNCHANGED <<cache, map, events, worker>>
    BY DEF TaskRecv
  <1>2. \A u \in Task : RxOpen(u)' <=> RxOpen(u)
    BY DEF IInv, TypeOK, TaskRecv, RxOpen
  <1>3. UNCHANGED <<Cached, Leaving, IdleMembers>>
    BY <1>1, <1>2, SameMembers
  <1>4. /\ chan \in [Task -> Seq(Datagram)]
        /\ hand \in [Task -> Datagram \cup {NoPacket}]
        /\ hand[t] = NoPacket
        /\ q \in Seq(Datagram) /\ q # <<>>
    BY DEF IInv, TypeOK, TaskLocals, TaskRecv
  <1>5. /\ chan' = [chan EXCEPT ![t] = Tail(q)]
        /\ hand' = [hand EXCEPT ![t] = x]
    <2>1. CASE IsLan(Head(q))
      BY <2>1 DEF TaskRecv
    <2>2. CASE ~IsLan(Head(q))
      BY <1>4, <2>2 DEF TaskRecv
    <2>3. QED
      BY <2>1, <2>2
  <1>6. /\ LanView(q) \in Seq(Place) /\ LanView(q) # <<>>
        /\ LanView(q)[1] = x
        /\ LanView(Tail(q)) = Tail(LanView(q))
    BY <1>4, LanViewType, LanViewTail
  <1> HIDE DEF q, x
  <1>7. Compact(LanView(q)) = Compact(<<x>>) \o Compact(LanView(Tail(q)))
    BY <1>6, CompactHeadTail
  <1>8. Compact(<<hand[t]>>) \o Compact(LanView(q)) = Compact(LanView(q))
    <2>1. Compact(<<NoPacket>>) = <<>>
      BY CompactSingle DEF Place
    <2>2. Compact(LanView(q)) \in Seq(Datagram)
      BY <1>6, CompactType
    <2>3. QED
      BY <1>4, <2>1, <2>2, ConcatEmptySeq
  <1>9. ASSUME NEW u \in Task PROVE TaskPackets(u)' = TaskPackets(u)
    <2>1. CASE u = t
      BY <1>4, <1>5, <1>7, <1>8, <2>1 DEF TaskPackets, q
    <2>2. CASE u # t
      BY <1>4, <1>5, <2>2 DEF TaskPackets
    <2>3. QED
      BY <2>1, <2>2
  <1>10. UNCHANGED Pending
    BY <1>1, <1>3, <1>9, SamePending
  <1>11. UNCHANGED Out
    BY <1>1 DEF Out
  <1>12. QED
    BY <1>1, <1>3, <1>10, <1>11 DEF Unseen

(* An event without a packet of a leaves what is pending for a. *)
LEMMA AddedEvent ==
  ASSUME IInv, NEW e \in Event, NEW a \in Addr
  PROVE  Compact(EventView(Append(events, e), a)) =
           IF e.addr = a /\ e.packet # NoPacket
             THEN Append(Compact(EventView(events, a)), e.packet)
             ELSE Compact(EventView(events, a))
  <1>1. events \in Seq(Event)
    BY ViewTypes
  <1>2. e.packet \in Place /\ NoPacket \in Place
    BY DEF Event, SendLAN, Close, Place
  <1>3. EventView(events, a) \in Seq(Place)
    BY <1>1, EventViewType
  <1>4. EventView(Append(events, e), a) =
          Append(EventView(events, a), IF e.addr = a THEN e.packet ELSE NoPacket)
    BY <1>1, EventViewAppend
  <1>5. QED
    BY <1>2, <1>3, <1>4, CompactAppend

LEMMA TaskCloseUnseen ==
  ASSUME IInv, NEW t \in Task, TaskClose(t)
  PROVE  Unseen
  <1>1. UNCHANGED <<cache, map, chan, hand, worker>>
    BY DEF TaskClose
  <1>2. \A u \in Task : RxOpen(u)' <=> RxOpen(u)
    BY DEF IInv, TypeOK, TaskClose, RxOpen
  <1>3. UNCHANGED <<Cached, Leaving, IdleMembers>>
    BY <1>1, <1>2, SameMembers
  <1>4. events' = Append(events, Close(owner[t]))
    BY DEF TaskClose
  <1>5. owner[t] \in Addr
    BY DEF IInv, TypeOK, TaskLocals, TaskClose
  <1>6. Close(owner[t]) \in Event /\ Close(owner[t]).packet = NoPacket
    BY <1>5 DEF Close, Event
  <1>7. \A a \in Addr : Compact(EventView(events', a)) = Compact(EventView(events, a))
    BY <1>4, <1>6, AddedEvent
  <1>8. UNCHANGED Pending
    BY <1>1, <1>3, <1>7, SamePending DEF TaskPackets
  <1>9. UNCHANGED Out
    BY <1>1 DEF Out
  <1>10. QED
    BY <1>1, <1>3, <1>8, <1>9 DEF Unseen

(* do_packet passes its packet on: the queue of its address stays the same. *)
LEMMA TaskSendUnseen ==
  ASSUME IInv, NEW t \in Task, TaskSend(t)
  PROVE  Unseen
  <1> DEFINE o == owner[t]
             d == hand[t]
             e == SendLAN(o, d)
  <1>1. UNCHANGED <<cache, map, chan, worker>>
    BY DEF TaskSend
  <1>2. \A u \in Task : RxOpen(u)' <=> RxOpen(u)
    BY DEF IInv, TypeOK, TaskSend, RxOpen
  <1>3. UNCHANGED <<Cached, Leaving, IdleMembers>>
    BY <1>1, <1>2, SameMembers
  <1>4. /\ events' = Append(events, e)
        /\ hand' = [hand EXCEPT ![t] = NoPacket]
        /\ hand \in [Task -> Datagram \cup {NoPacket}]
        /\ d \in Datagram
        /\ o \in Addr /\ o \in Cached /\ cache[o].peer = t
    BY DEF IInv, TypeOK, TaskLocals, TaskSend, Lifecycle, TaskIsCached, Cached
  <1>5. /\ e \in Event /\ e.addr = o /\ e.packet = d
        /\ d # NoPacket /\ d \in Place
    BY <1>4, RelayAssumption DEF Event, SendLAN, Place
  <1>6. \A a \in Addr :
          Compact(EventView(events', a)) =
            IF a = o THEN Append(Compact(EventView(events, a)), d)
                     ELSE Compact(EventView(events, a))
    BY <1>4, <1>5, AddedEvent
  <1>7. \A u \in Task \ {t} : TaskPackets(u)' = TaskPackets(u)
    BY <1>1, <1>4 DEF TaskPackets
  <1> DEFINE es == Compact(EventView(events, o))
             cs == Compact(LanView(chan[t]))
  <1>8. es \in Seq(Datagram) /\ cs \in Seq(Datagram)
    BY <1>4, ViewTypes
  <1>9. TaskPackets(t) = <<d>> \o cs /\ TaskPackets(t)' = cs
    <2>1. Compact(<<d>>) = <<d>> /\ Compact(<<NoPacket>>) = <<>>
      BY <1>5, CompactSingle DEF Place
    <2>2. hand'[t] = NoPacket /\ chan' = chan
      BY <1>1, <1>4
    <2>3. <<>> \o cs = cs
      BY <1>8, ConcatEmptySeq
    <2>4. QED
      BY <2>1, <2>2, <2>3 DEF TaskPackets
  <1> HIDE DEF es, cs, d, o, e
  <1>10. Append(es, d) \o cs = es \o (<<d>> \o cs)
    <2>1. <<d>> \in Seq(Datagram) /\ Append(es, d) = es \o <<d>>
      BY <1>4, <1>8, AppendIsConcat
    <2>2. (es \o <<d>>) \o cs = es \o (<<d>> \o cs)
      BY <1>8, <2>1, ConcatOfDatagrams
    <2>3. QED
      BY <2>1, <2>2
  <1>11. ASSUME NEW a \in Addr PROVE PendingOf(a)' = PendingOf(a)
    <2>1. CASE a = o
      <3>1. a \in Cached /\ cache'[a].peer = t /\ cache[a].peer = t /\ UNCHANGED Cached
        BY <1>1, <1>3, <1>4, <2>1
      <3>2. PendingOf(a) = es \o TaskPackets(t)
        BY <2>1, <3>1 DEF PendingOf, es
      <3>3. PendingOf(a)' = Append(es, d) \o TaskPackets(t)'
        BY <1>6, <2>1, <3>1 DEF PendingOf, es, TaskPackets
      <3>4. QED
        BY <1>9, <1>10, <3>2, <3>3
    <2>2. CASE a # o /\ a \in Cached
      <3>1. cache[a].peer \in Task \ {t} /\ cache'[a].peer = cache[a].peer
        BY <1>1, <1>4, <2>2, ViewTypes DEF IInv, Lifecycle, OwnTask
      <3>2. TaskPackets(cache[a].peer)' = TaskPackets(cache[a].peer)
        <4>1. hand'[cache[a].peer] = hand[cache[a].peer]
          BY <1>4, <3>1
        <4>2. QED
          BY <1>1, <4>1 DEF TaskPackets
      <3>3. QED
        BY <1>3, <1>6, <2>2, <3>2 DEF PendingOf
    <2>3. CASE a \notin Cached
      BY <1>3, <1>4, <1>6, <2>3 DEF PendingOf
    <2>4. QED
      BY <2>1, <2>2, <2>3
  <1>12. UNCHANGED <<Pending, Out>>
    BY <1>1, <1>11 DEF Pending, Out
  <1>13. QED
    BY <1>1, <1>3, <1>12 DEF Unseen

----------------------------------------------------------------------------
(* The steps the switch sees. *)
LEMMA SendToDelivers ==
  ASSUME IInv, NEW s \in Slot, NEW a \in Addr, SendTo(s, a)
  PROVE  Switch!Deliver(s, a)
  <1>1. UNCHANGED <<cache, map, chan, pc, owner, hand, events>>
    BY DEF SendTo, peerVars
  <1>2. UNCHANGED <<Cached, Leaving, IdleMembers, map, Pending>>
    BY <1>1 DEF Cached, Leaving, RxOpen, IdleMembers, Pending, PendingOf, TaskPackets
  <1>3. /\ worker \in [Slot -> Job \cup {Free}] /\ worker[s] \in Job
        /\ a \in worker[s].todo
        /\ worker[s].todo \ {a} \in SUBSET Addr
    BY JobFields DEF IInv, TypeOK, SendTo
  <1>4. /\ worker' = [worker EXCEPT ![s] = [phase |-> "send", todo |-> worker[s].todo \ {a}]]
        /\ [phase |-> "send", todo |-> worker[s].todo \ {a}] \in Job
    BY <1>3, JobFields DEF SendTo
  <1>5. a \in Out[s] /\ Out' = [Out EXCEPT ![s] = Out[s] \ {a}]
    <2>1. Out[s] = worker[s].todo
      BY <1>3, JobFields DEF Out
    <2>2. worker'[s] # Free /\ worker'[s].todo = worker[s].todo \ {a}
      BY <1>3, <1>4, JobFields
    <2>3. \A r \in Slot \ {s} : worker'[r] = worker[r]
      BY <1>3, <1>4
    <2>4. QED
      BY <1>3, <2>1, <2>2, <2>3 DEF Out
  <1>6. QED
    BY <1>2, <1>5 DEF Switch!Deliver

(* do_packet drops its receiver: the packets in it are the latest. *)
LEMMA TaskDropRxLeaves ==
  ASSUME IInv, NEW t \in Task, TaskDropRx(t)
  PROVE  owner[t] \in Addr /\ Switch!StartLeaving(owner[t])
  <1>0. PICK o \in Addr : o = owner[t]
    BY DEF IInv, TypeOK, TaskLocals, TaskDropRx
  <1> DEFINE es == Compact(EventView(events, o))
  <1>1. UNCHANGED <<cache, map, owner, hand, events, worker>>
    BY DEF TaskDropRx
  <1>2. /\ o \in Addr /\ o \in Cached /\ cache[o].peer = t
        /\ pc[t] = "Expired" /\ hand[t] = NoPacket
        /\ pc' = [pc EXCEPT ![t] = "Closing"]
        /\ chan' = [chan EXCEPT ![t] = <<>>]
        /\ chan \in [Task -> Seq(Datagram)]
    BY <1>0 DEF IInv, TypeOK, TaskLocals, TaskDropRx, Lifecycle, TaskIsCached, Cached
  <1>3. UNCHANGED <<Cached, IdleMembers, Out, map>>
    BY <1>1 DEF Cached, IdleMembers, Out
  <1>4. \A a \in Cached : a # o => cache[a].peer \in Task \ {t}
    BY <1>2, ViewTypes DEF IInv, Lifecycle, OwnTask
  <1>5. RxOpen(t) /\ ~RxOpen(t)' /\ \A u \in Task \ {t} : RxOpen(u)' <=> RxOpen(u)
    BY <1>2 DEF IInv, TypeOK, RxOpen
  <1>6. o \in Cached \ Leaving /\ Leaving' = Leaving \cup {o}
    <2> DEFINE open == {"Receiving", "Sending", "Expired"}
    <2>1. ASSUME NEW a \in Cached
          PROVE  pc'[cache'[a].peer] \notin open <=> pc[cache[a].peer] \notin open \/ a = o
      <3>1. CASE a = o
        BY <1>1, <1>2, <1>5, <3>1 DEF RxOpen
      <3>2. CASE a # o
        BY <1>1, <1>4, <1>5, <3>2 DEF RxOpen
      <3>3. QED
        BY <3>1, <3>2
    <2>2. Leaving = {a \in Cached : pc[cache[a].peer] \notin open}
      BY DEF Leaving, RxOpen
    <2>3. Leaving' = {a \in Cached : pc'[cache'[a].peer] \notin open}
      BY <1>3 DEF Leaving, RxOpen
    <2>4. pc[cache[o].peer] \in open
      BY <1>2
    <2>5. QED
      BY <1>2, <2>1, <2>2, <2>3, <2>4
  <1>7. es \in Seq(Datagram) /\ PendingOf(o) \in Seq(Datagram) /\ TaskPackets(t) \in Seq(Datagram)
    BY <1>2, ViewTypes
  <1>8. PendingOf(o) = es \o TaskPackets(t)
    BY <1>2 DEF PendingOf
  <1>9. PendingOf(o)' = es
    <2>1. Compact(<<NoPacket>>) = <<>> /\ Compact(<<>>) = <<>>
      BY CompactSingle, CompactEmpty DEF Place
    <2>2. LanView(<<>>) = <<>>
      BY DEF LanView
    <2>3. Compact(<<hand'[t]>>) \o Compact(LanView(chan'[t])) = <<>>
      BY <1>1, <1>2, <2>1, <2>2
    <2>4. PendingOf(o)' = es \o <<>>
      BY <1>1, <1>2, <1>3, <2>3 DEF PendingOf, TaskPackets
    <2>5. QED
      BY <1>7, <2>4, ConcatEmptySeq
  <1>10. ASSUME NEW a \in Addr, a # o PROVE PendingOf(a)' = PendingOf(a)
    <2>1. CASE a \in Cached
      <3>1. cache[a].peer \in Task \ {t} /\ cache'[a].peer = cache[a].peer
        BY <1>1, <1>4, <1>10, <2>1
      <3>2. chan'[cache[a].peer] = chan[cache[a].peer]
        BY <1>2, <3>1
      <3>3. QED
        BY <1>1, <1>3, <2>1, <3>1, <3>2 DEF PendingOf, TaskPackets
    <2>2. CASE a \notin Cached
      BY <1>1, <1>3, <2>2 DEF PendingOf
    <2>3. QED
      BY <2>1, <2>2
  <1> HIDE DEF es
  <1>11. Len(es) \in 0 .. Len(PendingOf(o)) /\ SubSeq(PendingOf(o), 1, Len(es)) = es
    <2>1. /\ Len(es) \in Nat /\ Len(TaskPackets(t)) \in Nat
          /\ Len(PendingOf(o)) = Len(es) + Len(TaskPackets(t))
      BY <1>7, <1>8, ConcatProperties, LenProperties
    <2>2. CASE es = <<>>
      BY <2>1, <2>2, SubSeqEmpty
    <2>3. CASE es # <<>>
      <3>1. Len(es) \in 1 .. Len(es) /\ 1 \in 1 .. Len(es)
        BY <1>7, <2>3, EmptySeq
      <3>2. SubSeq(es \o TaskPackets(t), 1, Len(es)) = SubSeq(es, 1, Len(es))
        BY <1>7, <3>1, SubSeqOfConcat1
      <3>3. QED
        BY <1>7, <1>8, <2>1, <3>2, SubSeqFull
    <2>4. QED
      BY <2>2, <2>3
  <1>12. Pending' = [Pending EXCEPT ![o] = SubSeq(Pending[o], 1, Len(es))]
    BY <1>2, <1>9, <1>10, <1>11 DEF Pending
  <1>13. Len(es) \in 0 .. Len(Pending[o])
    BY <1>2, <1>11 DEF Pending
  <1>14. QED
    BY <1>0, <1>2, <1>3, <1>6, <1>12, <1>13 DEF Switch!StartLeaving

(* remove: the address has nothing left to be routed. *)
LEMMA RemoveForgets ==
  ASSUME IInv, remove
  PROVE  Head(events).addr \in Addr /\ Switch!Forget(Head(events).addr)
  <1>0. PICK o \in Addr : o = Head(events).addr
    BY HeadEvent, EventFields DEF remove
  <1> DEFINE t == cache[o].peer
  <1>1. /\ UNCHANGED <<map, chan, pc, owner, hand, worker>>
        /\ events' = Tail(events)
        /\ events # <<>>
        /\ Head(events).type = "Close"
        /\ cache' = [cache EXCEPT ![o] = Absent]
    BY <1>0 DEF remove, peerVars
  <1>2. o \in Addr /\ Head(events) = events[1] /\ 1 \in DOMAIN events /\ events[1] = Close(o)
    BY <1>0, <1>1, HeadEvent, EventFields
  <1>3. /\ o \in Cached /\ t \in Task
        /\ pc[t] = "Done" /\ hand[t] = NoPacket /\ chan[t] = <<>>
        /\ \A j \in DOMAIN events : j > 1 => events[j].addr # o
    <2>1. events[1].addr = o /\ events[1].type = "Close"
      BY <1>2 DEF Close
    <2>2. /\ o \in Cached /\ pc[t] = "Done"
          /\ \A j \in DOMAIN events : j > 1 => events[j].addr # o
      BY <1>2, <2>1 DEF IInv, Lifecycle, SenderIsCached, CloseIsLast
    <2>3. t \in Task
      BY <2>2, ViewTypes
    <2>4. hand[t] = NoPacket /\ chan[t] = <<>>
      BY <2>2, <2>3 DEF IInv, TaskLocals
    <2>5. QED
      BY <2>2, <2>3, <2>4
  <1>4. Cached' = Cached \ {o} /\ \A a \in Addr \ {o} : cache'[a] = cache[a]
    BY <1>1, <1>2 DEF IInv, TypeOK, Cached
  <1>5. Leaving' = Leaving \ {o} /\ o \in Leaving /\ IdleMembers' = IdleMembers \ {o}
    BY <1>1, <1>3, <1>4 DEF Leaving, RxOpen, IdleMembers, Cached
  <1>6. Out' = Out
    BY <1>1 DEF Out
  <1>7. events \in Seq(Event) /\ Tail(events) \in Seq(Event)
    BY <1>1, ViewTypes, HeadEvent
  <1>8. PendingOf(o) = <<>> /\ PendingOf(o)' = <<>>
    <2>1. \A i \in DOMAIN EventView(events, o) : EventView(events, o)[i] = NoPacket
      <3>1. DOMAIN events \subseteq Nat \ {0} /\ DOMAIN EventView(events, o) = DOMAIN events
        BY <1>1, <1>2, <1>7, HeadEvent, EventViewType
      <3>2. QED
        BY <1>2, <1>3, <3>1 DEF EventView, Close
    <2>2. Compact(EventView(events, o)) = <<>>
      BY <1>2, <1>7, <2>1, EventViewType, CompactNone
    <2>3. \A i \in DOMAIN EventView(Tail(events), o) : EventView(Tail(events), o)[i] = NoPacket
      <3>1. DOMAIN EventView(Tail(events), o) = DOMAIN Tail(events)
        BY <1>2, <1>7, EventViewType
      <3>2. \A i \in DOMAIN Tail(events) : Tail(events)[i].addr # o
        BY <1>1, <1>3, HeadEvent
      <3>3. QED
        BY <3>1, <3>2 DEF EventView
    <2>4. Compact(EventView(Tail(events), o)) = <<>>
      BY <1>2, <1>7, <2>3, EventViewType, CompactNone
    <2>5. TaskPackets(t) = <<>>
      <3>1. Compact(<<NoPacket>>) = <<>> /\ Compact(<<>>) = <<>>
        BY CompactSingle, CompactEmpty DEF Place
      <3>2. LanView(<<>>) = <<>>
        BY DEF LanView
      <3>3. QED
        BY <1>3, <3>1, <3>2 DEF TaskPackets
    <2>6. QED
      BY <1>1, <1>3, <1>4, <2>2, <2>4, <2>5 DEF PendingOf
  <1>9. ASSUME NEW a \in Addr, a # o PROVE PendingOf(a)' = PendingOf(a)
    <2>1. Compact(EventView(events', a)) = Compact(EventView(events, a))
      <3> DEFINE v == EventView(events, a)
      <3>1. v \in Seq(Place) /\ v # <<>> /\ v[1] = NoPacket
        BY <1>1, <1>2, <1>7, <1>9, EventViewType, EventViewTail DEF Close
      <3>2. EventView(events', a) = Tail(v)
        BY <1>1, <1>7, EventViewTail
      <3> HIDE DEF v
      <3>3. Compact(v) = Compact(<<NoPacket>>) \o Compact(Tail(v))
        BY <3>1, CompactHeadTail
      <3>4. Compact(<<NoPacket>>) = <<>>
        BY CompactSingle DEF Place
      <3>5. Compact(Tail(v)) \in Seq(Datagram)
        BY <3>1, TailElements, CompactType
      <3>6. QED
        BY <3>2, <3>3, <3>4, <3>5, ConcatEmptySeq DEF v
    <2>2. CASE a \in Cached
      <3>1. a \in Cached' /\ cache'[a].peer = cache[a].peer
        BY <1>4, <1>9, <2>2
      <3>2. TaskPackets(cache[a].peer)' = TaskPackets(cache'[a].peer)
        BY <1>1 DEF TaskPackets
      <3>3. QED
        BY <2>1, <2>2, <3>1, <3>2 DEF PendingOf
    <2>3. CASE a \notin Cached
      BY <1>4, <2>1, <2>3 DEF PendingOf
    <2>4. QED
      BY <2>2, <2>3
  <1>10. UNCHANGED Pending
    BY <1>8, <1>9 DEF Pending
  <1>11. Pending[o] = <<>>
    BY <1>2, <1>8 DEF Pending
  <1>12. QED
    BY <1>0, <1>1, <1>2, <1>4, <1>5, <1>6, <1>10, <1>11 DEF Switch!Forget

(* get_dest_sockaddr: the oldest packet of its sender leaves the queue. *)
LEMMA StartSendLANRoutes ==
  ASSUME IInv, NEW s \in Slot, StartSendLAN(s)
  PROVE  \E a \in Addr : Switch!Route(a, s)
  <1>0. PICK o \in Addr, d \in Datagram : o = Head(events).addr /\ d = Head(events).packet
    BY HeadEvent, EventFields DEF StartSendLAN
  <1>1. /\ UNCHANGED <<cache, chan, pc, owner, hand>>
        /\ events' = Tail(events)
        /\ events # <<>>
        /\ map' = Learned(o, d)
        /\ worker' = [worker EXCEPT ![s] =
              [phase |-> "plugins", todo |-> get_dest_sockaddr(o, d)]]
        /\ worker[s] = Free
    BY <1>0 DEF StartSendLAN, peerVars
  <1>2. UNCHANGED <<Cached, Leaving, IdleMembers>>
    BY <1>1 DEF Cached, Leaving, RxOpen, IdleMembers
  <1>3. /\ Head(events) = events[1] /\ 1 \in DOMAIN events
        /\ events[1].addr = o /\ events[1].packet = d
        /\ events \in Seq(Event)
    BY <1>0, <1>1, HeadEvent, ViewTypes
  <1>4. o \in Cached
    BY <1>3 DEF IInv, Lifecycle, SenderIsCached
  <1>5. d # NoPacket /\ d \in Place /\ d.src \in Ip /\ d.dst \in Ip
    BY RelayAssumption DEF Place
  <1>6. \A a \in Addr :
          /\ EventView(events, a) \in Seq(Place) /\ EventView(events, a) # <<>>
          /\ EventView(events, a)[1] = IF a = o THEN d ELSE NoPacket
          /\ EventView(events', a) = Tail(EventView(events, a))
    BY <1>1, <1>3, EventViewType, EventViewTail
  <1>7. ASSUME NEW a \in Addr
        PROVE  /\ Compact(EventView(events', a)) \in Seq(Datagram)
               /\ Compact(EventView(events, a)) =
                    IF a = o THEN <<d>> \o Compact(EventView(events', a))
                             ELSE Compact(EventView(events', a))
    <2> DEFINE v == EventView(events, a)
    <2>1. Tail(v) \in Seq(Place) /\ Compact(Tail(v)) \in Seq(Datagram)
      BY <1>6, TailElements, CompactType
    <2>2. Compact(v) = Compact(<<v[1]>>) \o Compact(Tail(v))
      BY <1>6, CompactHeadTail
    <2>3. Compact(<<NoPacket>>) = <<>> /\ Compact(<<d>>) = <<d>>
      BY <1>5, CompactSingle DEF Place
    <2>4. <<>> \o Compact(Tail(v)) = Compact(Tail(v))
      BY <2>1, ConcatEmptySeq
    <2> HIDE DEF v
    <2>5. v[1] = (IF a = o THEN d ELSE NoPacket) /\ EventView(events', a) = Tail(v)
      BY <1>6 DEF v
    <2>6. QED
      BY <2>1, <2>2, <2>3, <2>4, <2>5 DEF v
  <1>8. ASSUME NEW a \in Addr, a # o PROVE PendingOf(a)' = PendingOf(a)
    BY <1>1, <1>2, <1>7, <1>8 DEF PendingOf, TaskPackets
  <1>9. PendingOf(o) # <<>> /\ Head(PendingOf(o)) = d /\ PendingOf(o)' = Tail(PendingOf(o))
    <2> DEFINE es == Compact(EventView(events', o))
               ts == TaskPackets(cache[o].peer)
    <2>1. es \in Seq(Datagram) /\ ts \in Seq(Datagram) /\ cache[o].peer \in Task
      BY <1>4, <1>7, ViewTypes
    <2>2. PendingOf(o) = (<<d>> \o es) \o ts
      BY <1>4, <1>7 DEF PendingOf
    <2>3. PendingOf(o)' = es \o ts
      BY <1>1, <1>2, <1>4 DEF PendingOf, TaskPackets
    <2> HIDE DEF es, ts
    <2>4. <<d>> \in Seq(Datagram) /\ es \o ts \in Seq(Datagram)
      BY <2>1, ConcatProperties
    <2>5. PendingOf(o) = <<d>> \o (es \o ts)
      BY <2>1, <2>2, <2>4, ConcatAssociative
    <2>6. ASSUME NEW r \in Seq(Datagram)
          PROVE  <<d>> \o r # <<>> /\ Head(<<d>> \o r) = d /\ Tail(<<d>> \o r) = r
      <3> DEFINE w == <<d>> \o r
      <3>1. /\ w \in Seq(Datagram) /\ Len(w) = 1 + Len(r) /\ Len(r) \in Nat
            /\ \A i \in 1 .. 1 + Len(r) : w[i] = IF i <= 1 THEN d ELSE r[i - 1]
        BY <2>4, ConcatProperties, LenProperties
      <3>2. w # <<>>
        BY <3>1, EmptySeq
      <3>3. /\ Head(w) = w[1] /\ Tail(w) \in Seq(Datagram) /\ Len(Tail(w)) = Len(r)
            /\ \A i \in 1 .. Len(r) : Tail(w)[i] = w[i + 1]
        BY <3>1, <3>2, TailElements
      <3>4. \A i \in 1 .. Len(r) : Tail(w)[i] = r[i]
        BY <3>1, <3>3
      <3>5. Tail(w) = r
        BY <3>3, <3>4, SeqEqual
      <3>6. QED
        BY <3>1, <3>2, <3>3, <3>5
    <2>7. QED
      BY <2>3, <2>4, <2>5, <2>6
  <1>10. /\ Pending[o] # <<>> /\ Head(Pending[o]) = d
         /\ Pending' = [Pending EXCEPT ![o] = Tail(Pending[o])]
    BY <1>8, <1>9 DEF Pending
  <1>11. map' = [map EXCEPT ![d.src] = o]
    BY <1>1 DEF Learned
  <1>12. get_dest_sockaddr(o, d) = Switch!Recipients(o, d, map')
    BY <1>1, <1>11
    DEF get_dest_sockaddr, Switch!Recipients, BroadcastDest, IdleMembers, Cached
  <1>13. Out[s] = {} /\ Out' = [Out EXCEPT ![s] = get_dest_sockaddr(o, d)]
    <2>1. worker \in [Slot -> Job \cup {Free}]
      BY DEF IInv, TypeOK
    <2>2. get_dest_sockaddr(o, d) \in SUBSET Addr
      <3>1. map' \in [Ip -> Addr \cup {NoAddr}]
        BY <1>11 DEF IInv, TypeOK
      <3>2. QED
        BY <1>1, <1>5, <3>1 DEF get_dest_sockaddr, BroadcastDest, Cached
    <2>3. [phase |-> "plugins", todo |-> get_dest_sockaddr(o, d)] \in Job
      BY <2>2, JobFields
    <2>4. worker'[s] # Free /\ worker'[s].todo = get_dest_sockaddr(o, d)
      BY <1>1, <2>1, <2>3, JobFields
    <2>5. \A r \in Slot \ {s} : worker'[r] = worker[r]
      BY <1>1, <2>1
    <2>6. Out[s] = {}
      BY <1>1 DEF Out
    <2>7. \A r \in Slot : (IF worker'[r] = Free THEN {} ELSE worker'[r].todo) =
                            IF r = s THEN get_dest_sockaddr(o, d) ELSE Out[r]
      BY <2>4, <2>5 DEF Out
    <2>8. Out' = [r \in Slot |-> IF r = s THEN get_dest_sockaddr(o, d) ELSE Out[r]]
      BY <2>7 DEF Out
    <2>9. QED
      BY <2>6, <2>8 DEF Out
  <1>14. Switch!Route(o, s)
    BY <1>2, <1>4, <1>10, <1>11, <1>12, <1>13 DEF Switch!Route
  <1>15. QED
    BY <1>14

(* on_packet of an address that is registered: the packet is behind all others
   of its sender, or it is lost. *)
LEMMA PeerMutCachedTakesIn ==
  ASSUME IInv, PeerMut, PeerMutCached(inPacket.addr, inPacket.data)
  PROVE  \E a \in Addr : Switch!KeepAlive(a) \/ \E p \in LanDatagram : Switch!SendPacket(a, p)
  <1>0. PICK o \in Addr, d \in Datagram : o = inPacket.addr /\ d = inPacket.data
    BY DEF IInv, TypeOK, RecvLocals, PeerMut
  <1>1. /\ UNCHANGED <<map, pc, owner, hand, events, worker>>
        /\ o \in Cached
        /\ cache \in [Addr -> Peer \cup {Absent}]
    BY <1>0 DEF PeerMut, PeerMutCached, IInv, TypeOK, Cached
  <1>2. PICK t \in Task, st \in PeerState :
          cache[o].peer = t /\ cache[o].state = st /\ cache[o] \in Peer
    BY <1>1, ViewTypes, PeerFields
  <1>3. /\ cache' = [cache EXCEPT ![o] = [peer |-> t, state |-> NextPeerState(st, d)]]
        /\ chan' = [chan EXCEPT ![t] = TrySend(t, d)]
    BY <1>0, <1>1, <1>2 DEF PeerMutCached
  <1>4. NextPeerState(st, d) \in PeerState
    BY DEF NextPeerState, PeerState
  <1>5. /\ cache'[o] \in Peer /\ cache'[o].peer = t
        /\ cache'[o].state = NextPeerState(st, d)
        /\ \A a \in Addr \ {o} : cache'[a] = cache[a]
    BY <1>1, <1>3, <1>4, PeerFields
  <1>6. /\ UNCHANGED Cached
        /\ \A a \in Cached : a \in Addr /\ cache'[a].peer = cache[a].peer
    BY <1>1, <1>2, <1>5, PeerFields DEF Cached
  <1>7. UNCHANGED <<Leaving, Out>>
    BY <1>1, <1>6 DEF Leaving, RxOpen, Out
  <1>8. IdleMembers' = IF NextPeerState(st, d) = "Idle" THEN IdleMembers \cup {o}
                                                       ELSE IdleMembers \ {o}
    BY <1>1, <1>5, <1>6 DEF IdleMembers
  <1>9. o \in Leaving <=> ~RxOpen(t)
    BY <1>1, <1>2 DEF Leaving
  <1>10. /\ chan \in [Task -> Seq(Datagram)] /\ chan[t] \in Seq(Datagram)
         /\ \A a \in Cached : a # o => cache[a].peer \in Task \ {t}
    BY <1>1, <1>2, ViewTypes DEF IInv, TypeOK, Lifecycle, OwnTask
  <1>11. ASSUME NEW a \in Addr, a # o PROVE PendingOf(a)' = PendingOf(a)
    <2>1. CASE a \in Cached
      <3>1. cache[a].peer \in Task \ {t} /\ cache'[a].peer = cache[a].peer
        BY <1>6, <1>10, <1>11, <2>1
      <3>2. chan'[cache[a].peer] = chan[cache[a].peer]
        BY <1>3, <1>10, <3>1
      <3>3. QED
        BY <1>1, <1>6, <2>1, <3>1, <3>2 DEF PendingOf, TaskPackets
    <2>2. CASE a \notin Cached
      BY <1>1, <1>6, <2>2 DEF PendingOf
    <2>3. QED
      BY <2>1, <2>2
  <1> DEFINE es == Compact(EventView(events, o))
             hs == Compact(<<hand[t]>>)
             cs == Compact(LanView(chan[t]))
  <1>12. es \in Seq(Datagram) /\ hs \in Seq(Datagram) /\ cs \in Seq(Datagram)
    BY ViewTypes
  <1>13. PendingOf(o) = es \o (hs \o cs)
    BY <1>1, <1>2 DEF PendingOf, TaskPackets
  <1>14. PendingOf(o)' = es \o (hs \o Compact(LanView(chan'[t])))
    BY <1>1, <1>5, <1>6 DEF PendingOf, TaskPackets
  <1>15. LanView(chan[t]) \in Seq(Place)
    BY <1>10, LanViewType
  <1>16. d # NoPacket /\ d \in Place /\ NoPacket \in Place
    BY RelayAssumption DEF Place
  <1>17. LanView(Append(chan[t], d)) =
           Append(LanView(chan[t]), IF IsLan(d) THEN d ELSE NoPacket)
    BY <1>10, LanViewAppend
  <1>18. Compact(LanView(Append(chan[t], d))) = IF IsLan(d) THEN Append(cs, d) ELSE cs
    BY <1>15, <1>16, <1>17, CompactAppend
  <1>19. chan'[t] = TrySend(t, d)
    BY <1>3, <1>10
  <1> HIDE DEF es, hs, cs
  <1>20. CASE IsLan(d)
    <2>1. IdleMembers' = IdleMembers \ {o} /\ d \in LanDatagram
      BY <1>8, <1>20 DEF NextPeerState, LanDatagram
    <2>2. CASE CanSend(t)
      <3>1. es \o (hs \o Append(cs, d)) = Append(es \o (hs \o cs), d)
        <4>1. hs \o Append(cs, d) = Append(hs \o cs, d)
          BY <1>12, ConcatOfDatagrams
        <4>2. hs \o cs \in Seq(Datagram)
          BY <1>12, ConcatProperties
        <4>3. es \o Append(hs \o cs, d) = Append(es \o (hs \o cs), d)
          BY <1>12, <4>2, ConcatOfDatagrams
        <4>4. QED
          BY <4>1, <4>3
      <3>2. PendingOf(o)' = Append(PendingOf(o), d)
        BY <1>13, <1>14, <1>18, <1>19, <1>20, <2>2, <3>1 DEF TrySend
      <3>3. Pending' = [Pending EXCEPT ![o] = Append(Pending[o], d)]
        BY <1>11, <3>2 DEF Pending
      <3>4. o \notin Leaving
        BY <1>9, <2>2 DEF CanSend
      <3>5. Switch!SendPacket(o, d)
        BY <1>1, <1>6, <1>7, <2>1, <3>3, <3>4 DEF Switch!SendPacket
      <3>6. QED
        BY <2>1, <3>5
    <2>3. CASE ~CanSend(t)
      <3>1. PendingOf(o)' = PendingOf(o)
        BY <1>13, <1>14, <1>19, <2>3 DEF TrySend, cs
      <3>2. UNCHANGED Pending
        BY <1>11, <3>1 DEF Pending
      <3>3. Switch!SendPacket(o, d)
        BY <1>1, <1>6, <1>7, <2>1, <3>2 DEF Switch!SendPacket
      <3>4. QED
        BY <2>1, <3>3
    <2>4. QED
      BY <2>2, <2>3
  <1>21. CASE ~IsLan(d)
    <2>1. PendingOf(o)' = PendingOf(o)
      BY <1>13, <1>14, <1>18, <1>19, <1>21 DEF TrySend, cs
    <2>2. UNCHANGED Pending
      BY <1>11, <2>1 DEF Pending
    <2>3. UNCHANGED IdleMembers \/ IdleMembers' = IdleMembers \cup {o}
      BY <1>1, <1>2, <1>8, <1>21 DEF NextPeerState, IdleMembers
    <2>4. Switch!KeepAlive(o)
      BY <1>1, <1>6, <1>7, <2>2, <2>3 DEF Switch!KeepAlive
    <2>5. QED
      BY <2>4
  <1>22. QED
    BY <1>20, <1>21

(* Peer::new: the address is a member, its first packet is taken in. *)
LEMMA PeerMutNewTakesIn ==
  ASSUME IInv, PeerMut, PeerMutNew(inPacket.addr, inPacket.data)
  PROVE  \E a \in Addr : Switch!KeepAlive(a) \/ \E p \in LanDatagram : Switch!SendPacket(a, p)
  <1>0. PICK o \in Addr, d \in Datagram : o = inPacket.addr /\ d = inPacket.data
    BY DEF IInv, TypeOK, RecvLocals, PeerMut
  <1>1. /\ UNCHANGED <<map, hand, events, worker>>
        /\ o \notin Cached
        /\ cache \in [Addr -> Peer \cup {Absent}]
    BY <1>0 DEF PeerMut, PeerMutNew, IInv, TypeOK, Cached
  <1>2. PICK t \in Task :
          /\ pc[t] = "Done"
          /\ \A b \in Cached : cache[b].peer # t
          /\ cache' = [cache EXCEPT
                         ![o] = [peer |-> t, state |-> NextPeerState("Connected", d)]]
          /\ chan' = [chan EXCEPT ![t] = <<d>>]
          /\ pc' = [pc EXCEPT ![t] = "Receiving"]
    BY <1>0 DEF PeerMutNew
  <1>3. NextPeerState("Connected", d) = "Connected" /\ "Connected" \in PeerState
    BY DEF NextPeerState, PeerState
  <1>4. /\ cache'[o] \in Peer /\ cache'[o].peer = t /\ cache'[o].state = "Connected"
        /\ \A a \in Addr \ {o} : cache'[a] = cache[a]
    BY <1>1, <1>2, <1>3, PeerFields
  <1>5. /\ Cached' = Cached \cup {o}
        /\ \A a \in Cached : a \in Addr \ {o} /\ cache[a].peer \in Task \ {t}
    BY <1>1, <1>2, <1>4, PeerFields, ViewTypes DEF Cached
  <1>6. /\ pc \in [Task -> {"Receiving", "Sending", "Expired", "Closing", "Done"}]
        /\ chan \in [Task -> Seq(Datagram)]
        /\ hand[t] = NoPacket
    BY <1>2 DEF IInv, TypeOK, TaskLocals
  <1>7. Leaving' = Leaving
    <2>1. pc'[t] = "Receiving" /\ \A u \in Task \ {t} : pc'[u] = pc[u]
      BY <1>2, <1>6
    <2>2. QED
      BY <1>4, <1>5, <2>1 DEF Leaving, RxOpen
  <1>8. IdleMembers' = IdleMembers /\ IdleMembers' = IdleMembers \ {o} /\ o \notin Leaving
    BY <1>1, <1>4, <1>5 DEF IdleMembers, Leaving
  <1>9. Out' = Out
    BY <1>1 DEF Out
  <1>10. ASSUME NEW a \in Addr, a # o PROVE PendingOf(a)' = PendingOf(a)
    <2>1. CASE a \in Cached
      <3>1. cache[a].peer \in Task \ {t} /\ cache'[a] = cache[a] /\ a \in Cached'
        BY <1>4, <1>5, <1>10, <2>1
      <3>2. chan'[cache[a].peer] = chan[cache[a].peer]
        BY <1>2, <1>6, <3>1
      <3>3. QED
        BY <1>1, <2>1, <3>1, <3>2 DEF PendingOf, TaskPackets
    <2>2. CASE a \notin Cached
      BY <1>1, <1>5, <1>10, <2>2 DEF PendingOf
    <2>3. QED
      BY <2>1, <2>2
  <1> DEFINE es == Compact(EventView(events, o))
  <1>11. es \in Seq(Datagram) /\ PendingOf(o) = es
    <2>1. es \in Seq(Datagram)
      BY ViewTypes
    <2>2. QED
      BY <1>1, <2>1, ConcatEmptySeq DEF PendingOf
  <1>12. PendingOf(o)' = IF IsLan(d) THEN Append(es, d) ELSE es
    <2>1. chan'[t] = <<d>> /\ hand'[t] = NoPacket
      BY <1>1, <1>2, <1>6
    <2>2. /\ <<d>> = Append(<<>>, d)
          /\ <<>> \in Seq(Datagram) /\ <<>> \in Seq(Place)
          /\ <<d>> \in Seq(Datagram)
          /\ LanView(<<>>) = <<>>
      BY EmptySeq DEF LanView
    <2>3. d # NoPacket /\ d \in Place /\ NoPacket \in Place
      BY RelayAssumption DEF Place
    <2>4. LanView(<<d>>) = Append(<<>>, IF IsLan(d) THEN d ELSE NoPacket)
      BY <2>2, LanViewAppend
    <2>5. Compact(LanView(<<d>>)) = IF IsLan(d) THEN <<d>> ELSE <<>>
      BY <2>2, <2>3, <2>4, CompactAppend, CompactEmpty
    <2>6. Compact(<<NoPacket>>) = <<>>
      BY <2>3, CompactSingle
    <2>7. PendingOf(o)' = es \o (<<>> \o Compact(LanView(<<d>>)))
      BY <1>1, <1>4, <1>5, <2>1, <2>6 DEF PendingOf, TaskPackets
    <2>8. PendingOf(o)' = es \o Compact(LanView(<<d>>))
      BY <2>2, <2>5, <2>7, ConcatEmptySeq
    <2>9. es \o <<d>> = Append(es, d) /\ es \o <<>> = es
      BY <1>11, ConcatEmptySeq, AppendIsConcat
    <2>10. QED
      BY <2>5, <2>8, <2>9
  <1> HIDE DEF es
  <1>13. CASE IsLan(d)
    <2>1. Pending' = [Pending EXCEPT ![o] = Append(Pending[o], d)]
      BY <1>10, <1>11, <1>12, <1>13 DEF Pending
    <2>2. d \in LanDatagram
      BY <1>13 DEF LanDatagram
    <2>3. Switch!SendPacket(o, d)
      BY <1>1, <1>5, <1>7, <1>8, <1>9, <2>1 DEF Switch!SendPacket
    <2>4. QED
      BY <2>2, <2>3
  <1>14. CASE ~IsLan(d)
    <2>1. UNCHANGED Pending
      BY <1>10, <1>11, <1>12, <1>14 DEF Pending
    <2>2. Switch!KeepAlive(o)
      BY <1>1, <1>5, <1>7, <1>8, <1>9, <2>1 DEF Switch!KeepAlive
    <2>3. QED
      BY <2>2
  <1>15. QED
    BY <1>13, <1>14

(* Every step of the server is a step of the switch, or the switch does not see
   it. *)
LEMMA StepOfSwitch == IInv /\ [Next]_vars => [Switch!Next]_(Switch!svars)
  <1> SUFFICES ASSUME IInv, [Next]_vars PROVE Switch!Next \/ UNCHANGED Switch!svars
    OBVIOUS
  <1>0. Unseen => UNCHANGED Switch!svars
    BY DEF Unseen, Switch!svars
  <1>1. ASSUME NEW a \in Addr, NEW d \in Datagram, RecvFrom(a, d) PROVE Unseen
    BY <1>1, RecvUnseen
  <1>2. CASE RecvError
    BY <1>0, <1>2, RecvUnseen
  <1>3. CASE RecvStep
    <2>1. CASE PeerMut
      BY <2>1, PeerMutCachedTakesIn, PeerMutNewTakesIn DEF PeerMut, Switch!Next
    <2>2. CASE ~PeerMut
      BY <1>0, <1>3, <2>2, RecvUnseen DEF RecvStep
    <2>3. QED
      BY <2>1, <2>2
  <1>4. ASSUME NEW a \in Addr, IdleTimeoutElapses(a) PROVE Unseen
    BY <1>4, IdleTimeoutElapsesUnseen
  <1>5. ASSUME NEW t \in Task, TaskStep(t) PROVE Switch!Next \/ Unseen
    <2>1. CASE TaskDropRx(t)
      BY <2>1, TaskDropRxLeaves DEF Switch!Next
    <2>2. CASE ~TaskDropRx(t)
      BY <1>5, <2>2, TaskRecvUnseen, TaskSendUnseen, TaskTimeoutUnseen, TaskCloseUnseen
      DEF TaskStep
    <2>3. QED
      BY <2>1, <2>2
  <1>6. ASSUME NEW s \in Slot, WorkerStep(s) PROVE Switch!Next \/ Unseen
    <2>1. CASE StartSendLAN(s)
      BY <2>1, StartSendLANRoutes DEF Switch!Next
    <2>2. CASE \E a \in Addr : SendTo(s, a)
      BY <2>2, SendToDelivers DEF Switch!Next
    <2>3. CASE OutPacketPlugins(s) \/ SendLanReturns(s)
      BY <2>3, HandlerUnseen
    <2>4. QED
      BY <1>6, <2>1, <2>2, <2>3 DEF WorkerStep
  <1>7. CASE remove
    BY <1>7, RemoveForgets DEF Switch!Next
  <1>8. CASE UNCHANGED vars
    BY <1>8 DEF vars, peerVars, recvVars, Switch!svars, Cached, Leaving, RxOpen,
                IdleMembers, Pending, PendingOf, TaskPackets, Out
  <1>9. QED
    BY <1>0, <1>1, <1>2, <1>3, <1>4, <1>5, <1>6, <1>7, <1>8 DEF Next

LEMMA InitOfSwitch == Init => Switch!Init
  <1> SUFFICES ASSUME Init PROVE Switch!Init
    OBVIOUS
  <1>1. Cached = {}
    BY DEF Init, Cached
  <1>2. \A a \in Addr : PendingOf(a) = <<>>
    <2>1. ASSUME NEW a \in Addr PROVE Compact(EventView(events, a)) = <<>>
      <3>1. EventView(<<>>, a) = <<>>
        BY DEF EventView
      <3>2. QED
        BY <3>1, CompactEmpty DEF Init
    <2>2. <<>> \o <<>> = <<>>
      BY EmptySeq, ConcatEmptySeq
    <2>3. QED
      BY <1>1, <2>1, <2>2 DEF PendingOf
  <1>3. \A s \in Slot : worker[s] = Free
    BY DEF Init
  <1>4. QED
    BY <1>1, <1>2, <1>3
    DEF Init, Switch!Init, Leaving, IdleMembers, Pending, Out

(* What clients see of server.rs, peer_manager.rs and peer.rs is the LAN switch
   of LanSwitch, for any number of clients, peer tasks and concurrent handlers
   and any capacity of the channels. *)
THEOREM ImplementsSwitchHolds == Spec => ImplementsSwitch
  <1>1. IInv /\ [Next]_vars => [Switch!Next]_(Switch!svars)
    BY StepOfSwitch
  <1>2. Init => Switch!Init
    BY InitOfSwitch
  <1>3. QED
    BY <1>1, <1>2, IInvHolds, PTL DEF Spec, ImplementsSwitch, Switch!SwitchSpec
=============================================================================

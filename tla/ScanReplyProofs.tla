--------------------------- MODULE ScanReplyProofs ---------------------------
(* Nothing that ldn_mitm reads or writes is out of range: decompression stays
   within its buffer, for every alphabet of numbers and every set of packets, of
   whatever length, and the accessors within their slices, for all lengths; and
   what decompression accepts is what the format says the bytes stand for. *)
EXTENDS ScanFormat, Wire, NumberProofs, SequenceTheorems, TLAPS

(* The invariant is inductive as it stands, with the types: pos grows past the
   buffer neither by a literal (Room) nor by a run (the check of its end). *)
Inv == ReplyTypeOK /\ StaysInBounds

(* What the assumptions say of "none" and of the empty buffer. *)
LEMMA Constants ==
  /\ None \notin Packet /\ None \notin Seq(Byte)
  /\ <<>> \in Seq(Byte) /\ Len(<<>>) = 0
  BY ReplyAssumption, EmptySeq

(* The fields of a packet, as in_packet reads them. *)
LEMMA PacketFields ==
  ASSUME DataTypeOK, pc # "Ready"
  PROVE  /\ packet \in Packet
         /\ packet.payload \in Seq(Byte)
         /\ packet.decompress_len \in Nat
  BY ReplyAssumption DEF DataTypeOK

(* A function from 1 .. n is a sequence of length n. *)
LEMMA FunctionIsSeq ==
  ASSUME NEW S, NEW n \in Nat, NEW f \in [1 .. n -> S]
  PROVE  f \in Seq(S) /\ Len(f) = n
  OBVIOUS

(* What the loop over the input reads is a byte, and a number. *)
LEMMA InputIsByte ==
  ASSUME DataTypeOK, InLoop
  PROVE  Input \in Byte /\ Input \in Nat
<1>1. packet.payload \in Seq(Byte) /\ Byte \subseteq Nat
  BY PacketFields, ReplyAssumption DEF InLoop
<1>2. next \in 1 .. Len(packet.payload)
  BY <1>1, LenProperties DEF InLoop, DataTypeOK
<1> QED
  BY <1>1, <1>2, ElementOfSeq DEF Input

(* A run of zeros leaves a buffer of the same length behind. *)
LEMMA ZeroRunOutput ==
  ASSUME DataTypeOK, ZeroRun
  PROVE  output' \in Seq(Byte) /\ Len(output') = Len(output)
<1>1. output \in Seq(Byte) /\ 0 \in Byte
  BY ReplyAssumption DEF DataTypeOK
<1>2. output' = [i \in 1 .. Len(output) |->
                   IF pos < i /\ i <= pos + Input THEN 0 ELSE output[i]]
  BY <1>1 DEF ZeroRun
<1>3. \A i \in 1 .. Len(output) : output[i] \in Byte
  BY <1>1, ElementOfSeq
<1>4. output' \in [1 .. Len(output) -> Byte]
  BY <1>1, <1>2, <1>3, Zenon
<1>5. Len(output) \in Nat
  BY <1>1, LenProperties
<1> QED
  BY <1>4, <1>5, FunctionIsSeq

(* So does a literal. *)
LEMMA LiteralOutput ==
  ASSUME DataTypeOK, Literal
  PROVE  output' \in Seq(Byte) /\ Len(output') = Len(output)
<1>1. output \in Seq(Byte) /\ Input \in Byte
  BY InputIsByte DEF DataTypeOK, Literal
<1>2. output' = [output EXCEPT ![pos + 1] = Input]
  BY DEF Literal
<1>3. pos + 1 \in 1 .. Len(output)
  BY <1>1, LenProperties DEF Literal, Room, DataTypeOK
<1> QED
  BY <1>1, <1>2, <1>3, ExceptSeq

(* A new buffer has the length that the header announces. *)
LEMMA NewOutput ==
  ASSUME DataTypeOK, StartDecompress
  PROVE  output' \in Seq(Byte) /\ Len(output') = packet.decompress_len
<1>1. packet.decompress_len \in Nat /\ 0 \in Byte
  BY PacketFields, ReplyAssumption DEF StartDecompress
<1>2. output' = [i \in 1 .. packet.decompress_len |-> 0]
  BY DEF StartDecompress
<1>3. output' \in [1 .. packet.decompress_len -> Byte]
  BY <1>1, <1>2, Zenon
<1> QED
  BY <1>1, <1>3, FunctionIsSeq

(* The flags are flags after every step. *)
LEMMA NextFlags ==
  ASSUME FlagsTypeOK, Next
  PROVE  FlagsTypeOK'
<1> USE DEF FlagsTypeOK
<1>1. ASSUME NEW p \in Packet, Ignore(p) \/ in_packet(p) PROVE FlagsTypeOK'
  BY <1>1, Zenon DEF Ignore, in_packet, Return, LeaveLoop, loopVars
<1>2. CASE BadHeader \/ CopyPayload \/ StartDecompress
  BY <1>2, Zenon DEF BadHeader, CopyPayload, StartDecompress, Return, LeaveLoop, loopVars
<1>3. CASE ZeroRun \/ Literal
  BY <1>3, Zenon DEF ZeroRun, Literal
<1>4. CASE Overflow \/ Incomplete \/ Complete
  BY <1>4, Zenon DEF Overflow, Incomplete, Complete, Return, LeaveLoop
<1>5. CASE NoReply \/ InsertRoom
  BY <1>5, Zenon DEF NoReply, InsertRoom, Return, LeaveLoop, loopVars
<1> QED
  BY <1>1, <1>2, <1>3, <1>4, <1>5, Zenon DEF Next, Loop

(* Every step of in_packet keeps the rest of the types, and the bounds. *)
LEMMA NextData ==
  ASSUME DataTypeOK, StaysInBounds, Next
  PROVE  DataTypeOK' /\ StaysInBounds'
<1>1. ASSUME NEW p \in Packet, Ignore(p) PROVE DataTypeOK' /\ StaysInBounds'
  BY Constants, <1>1 DEF Ignore, Return, LeaveLoop, DataTypeOK, StaysInBounds
<1>2. ASSUME NEW p \in Packet, in_packet(p) PROVE DataTypeOK' /\ StaysInBounds'
  BY Constants, <1>2 DEF in_packet, loopVars, DataTypeOK, StaysInBounds
<1>3. CASE BadHeader
  BY Constants, <1>3 DEF BadHeader, Return, LeaveLoop, DataTypeOK, StaysInBounds
<1>4. CASE CopyPayload
  BY Constants, <1>4, PacketFields DEF CopyPayload, loopVars, DataTypeOK, StaysInBounds
<1>5. CASE StartDecompress
  <2>1. DataTypeOK'
    <3>1. output' \in Seq(Byte)
      BY <1>5, NewOutput
    <3>2. pc' = "Decompress" /\ next' = 1 /\ pos' = 0 /\ UNCHANGED <<packet, payload>>
      BY <1>5, Zenon DEF StartDecompress
    <3>3. packet # None
      BY <1>5 DEF StartDecompress, DataTypeOK
    <3> QED
      BY <3>1, <3>2, <3>3 DEF DataTypeOK
  <2>2. StaysInBounds'
    BY Constants, <1>5, NewOutput, PacketFields DEF StartDecompress, DataTypeOK, StaysInBounds
  <2> QED
    BY <2>1, <2>2
<1>6. CASE ZeroRun
  <2>1. Input \in Nat
    BY Constants, <1>6, InputIsByte DEF ZeroRun
  <2>2. DataTypeOK'
    <3>1. output' \in Seq(Byte)
      BY <1>6, ZeroRunOutput
    <3>2. pos' = pos + Input /\ next' = next + 1 /\ UNCHANGED <<pc, packet, payload>>
      BY <1>6, Zenon DEF ZeroRun
    <3> QED
      BY <2>1, <3>1, <3>2 DEF DataTypeOK
  <2>3. StaysInBounds'
    BY Constants, <1>6, <2>1, ZeroRunOutput DEF ZeroRun, InLoop, DataTypeOK, StaysInBounds
  <2> QED
    BY <2>2, <2>3
<1>7. CASE Literal
  <2>1. DataTypeOK'
    BY Constants, <1>7, LiteralOutput DEF Literal, InLoop, DataTypeOK
  <2>2. StaysInBounds'
    BY Constants, <1>7, LiteralOutput DEF Literal, InLoop, Room, DataTypeOK, StaysInBounds
  <2> QED
    BY <2>1, <2>2
<1>8. CASE Overflow
  BY Constants, <1>8 DEF Overflow, Return, LeaveLoop, DataTypeOK, StaysInBounds
<1>9. CASE Incomplete
  BY Constants, <1>9 DEF Incomplete, Return, LeaveLoop, DataTypeOK, StaysInBounds
<1>10. CASE Complete
  BY Constants, <1>10 DEF Complete, LeaveLoop, DataTypeOK, StaysInBounds
<1>11. CASE NoReply
  BY Constants, <1>11 DEF NoReply, Return, LeaveLoop, DataTypeOK, StaysInBounds
<1>12. CASE InsertRoom
  BY Constants, <1>12 DEF InsertRoom, loopVars, DataTypeOK, StaysInBounds
<1> QED
  BY <1>1, <1>2, <1>3, <1>4, <1>5, <1>6, <1>7, <1>8, <1>9, <1>10, <1>11, <1>12
     DEF Next, Loop

(* The types, and the bounds of decompress. *)
THEOREM ReplyInvHolds == Spec => []Inv
<1>1. Init => Inv
  <2> SUFFICES ASSUME Init PROVE Inv
    OBVIOUS
  <2>1. FlagsTypeOK
    BY Zenon DEF Init, FlagsTypeOK
  <2>2. DataTypeOK /\ StaysInBounds
    BY Constants DEF Init, DataTypeOK, StaysInBounds
  <2> QED
    BY <2>1, <2>2 DEF Inv, ReplyTypeOK
<1>2. Inv /\ [Next]_vars => Inv'
  <2>1. CASE Next
    BY <2>1, NextFlags, NextData DEF Inv, ReplyTypeOK
  <2>2. CASE UNCHANGED vars
    BY <2>2, Zenon DEF vars, loopVars, Inv, ReplyTypeOK, DataTypeOK, FlagsTypeOK,
       StaysInBounds
  <2> QED
    BY <2>1, <2>2
<1> QED
  BY <1>1, <1>2, PTL DEF Spec

(* decompress never slices its output out of range (lan_protocol.rs): it cannot
   panic, whatever the input, the run lengths and the announced length are. *)
THEOREM StaysInBoundsHolds == Spec => []StaysInBounds
  BY ReplyInvHolds, PTL DEF Inv

(* The types of in_packet's locals, for all packets (plugin.rs, in_packet). *)
THEOREM ReplyTypeHolds == Spec => []ReplyTypeOK
  BY ReplyInvHolds, PTL DEF Inv

----------------------------------------------------------------------------
(* What a payload stands for. *)

Text == Seq(Byte \cup {None})

(* One token, in front of what comes after it. *)
Token(s, g, i) ==
  IF i > Len(s) THEN <<>>
  ELSE IF s[i] # 0 THEN <<s[i]>> \o g[i + 1]
  ELSE IF i = Len(s) THEN <<None>>
  ELSE Zeros(s[i + 1] + 1) \o g[i + 2]

IsFrom(s, j, g) == g = [i \in j .. Len(s) + 1 |-> Token(s, g, i)]

(* A token depends on nothing but what comes after it. *)
LEMMA TokenOfRest ==
  ASSUME NEW s \in Seq(Byte), NEW g, NEW h, NEW i \in 1 .. Len(s) + 1,
         i + 1 <= Len(s) + 1 => g[i + 1] = h[i + 1],
         i + 2 <= Len(s) + 1 => g[i + 2] = h[i + 2]
  PROVE  Token(s, g, i) = Token(s, h, i)
<1> DEFINE n == Len(s)
<1>1. n \in Nat
  BY LenProperties
<1>2. CASE i > n
  BY <1>2 DEF Token
<1>3. CASE i = n
  <2>1. i + 1 <= n + 1
    BY <1>1, <1>3
  <2> QED
    BY <1>1, <1>3, <2>1 DEF Token
<1>4. CASE i < n
  <2>1. i + 1 <= n + 1 /\ i + 2 <= n + 1
    BY <1>1, <1>4
  <2> QED
    BY <1>1, <1>4, <2>1 DEF Token
<1> QED
  BY <1>1, <1>2, <1>3, <1>4

(* From is well defined: there is such a function, from the end of s on. *)
LEMMA FromExists ==
  ASSUME NEW s \in Seq(Byte)
  PROVE  \E g : IsFrom(s, 1, g)
<1> DEFINE n == Len(s)
           P == {k \in Nat : k <= n => \E g : IsFrom(s, (n + 1) - k, g)}
<1>1. n \in Nat
  BY LenProperties
<1>2. 0 \in P
  <2>1. (n + 1) - 0 = n + 1 /\ \A i \in n + 1 .. n + 1 : i > n
    BY <1>1
  <2>2. IsFrom(s, n + 1, [i \in n + 1 .. n + 1 |-> <<>>])
    BY <2>1 DEF IsFrom, Token
  <2> QED
    BY <2>1, <2>2
<1>3. ASSUME NEW k \in Nat, k \in P PROVE k + 1 \in P
  <2> SUFFICES ASSUME k + 1 <= n PROVE \E g : IsFrom(s, (n + 1) - (k + 1), g)
    OBVIOUS
  <2> DEFINE j == n - k
  <2>1. /\ j \in 1 .. n /\ (n + 1) - (k + 1) = j /\ (n + 1) - k = j + 1
        /\ k <= n /\ j + 1 \in j + 1 .. n + 1
    BY <1>1
  <2>2. PICK g : IsFrom(s, j + 1, g)
    BY <1>3, <2>1
  <2> DEFINE h == [i \in j .. n + 1 |-> IF i = j THEN Token(s, g, j) ELSE g[i]]
  <2> HIDE DEF j, P
  <2>3. ASSUME NEW i \in j .. n + 1 PROVE h[i] = Token(s, h, i)
    <3>1. i \in 1 .. n + 1
      BY <1>1, <2>1
    <3>2. /\ i + 1 <= n + 1 => i + 1 \in j .. n + 1 /\ i + 1 # j
          /\ i + 2 <= n + 1 => i + 2 \in j .. n + 1 /\ i + 2 # j
      BY <1>1, <2>1
    <3>3. /\ i + 1 <= n + 1 => g[i + 1] = h[i + 1]
          /\ i + 2 <= n + 1 => g[i + 2] = h[i + 2]
      BY <3>2
    <3>4. h[i] = Token(s, g, i)
      <4>1. CASE i = j
        BY <4>1
      <4>2. CASE i # j
        <5>1. i \in j + 1 .. n + 1 /\ h[i] = g[i]
          BY <1>1, <2>1, <4>2
        <5> QED
          BY <2>2, <5>1 DEF IsFrom
      <4> QED
        BY <4>1, <4>2
    <3> HIDE DEF h
    <3> QED
      BY <3>1, <3>3, <3>4, TokenOfRest
  <2>4. IsFrom(s, j, h)
    BY <2>3 DEF IsFrom
  <2> QED
    BY <2>1, <2>4
<1> HIDE DEF P
<1>4. n \in P
  BY <1>1, <1>2, <1>3, SetInduction
<1>5. (n + 1) - n = 1 /\ n <= n
  BY <1>1
<1> QED
  BY <1>4, <1>5 DEF P

LEMMA FromToken ==
  ASSUME NEW s \in Seq(Byte)
  PROVE  \A i \in 1 .. Len(s) + 1 : From(s)[i] = Token(s, From(s), i)
<1>1. From(s) = CHOOSE g : IsFrom(s, 1, g)
  BY DEF From, IsFrom, Token
<1>2. IsFrom(s, 1, From(s))
  BY <1>1, FromExists
<1> QED
  BY <1>2 DEF IsFrom

LEMMA SeqOfBytesIsText ==
  ASSUME NEW w \in Seq(Byte)
  PROVE  w \in Text
<1>1. w \in [1 .. Len(w) -> Byte \cup {None}] /\ Len(w) \in Nat
  BY LenProperties
<1> QED
  BY <1>1, FunctionIsSeq DEF Text

LEMMA ZerosAreBytes ==
  ASSUME NEW n \in Nat
  PROVE  /\ Zeros(n) \in Seq(Byte) /\ Zeros(n) \in Text /\ Len(Zeros(n)) = n
         /\ \A i \in 1 .. n : Zeros(n)[i] = 0
<1>1. 0 \in Byte
  BY ReplyAssumption
<1>2. Zeros(n) \in [1 .. n -> Byte] /\ Zeros(n) \in [1 .. n -> Byte \cup {None}]
  BY <1>1 DEF Zeros
<1>3. \A i \in 1 .. n : Zeros(n)[i] = 0
  BY DEF Zeros
<1> QED
  BY <1>2, <1>3, FunctionIsSeq DEF Text

LEMMA FromIsText ==
  ASSUME NEW s \in Seq(Byte)
  PROVE  \A i \in 1 .. Len(s) + 1 : From(s)[i] \in Text
<1> DEFINE n == Len(s)
           g == From(s)
           P == {k \in Nat : \A i \in 1 .. n + 1 : n + 1 <= i + k => g[i] \in Text}
<1>1. n \in Nat /\ \A i \in 1 .. n : s[i] \in Byte /\ s[i] \in Nat
  BY LenProperties, ElementOfSeq, ReplyAssumption
<1>2. \A i \in 1 .. n + 1 : g[i] = Token(s, g, i)
  BY FromToken
<1> HIDE DEF g
<1>3. <<>> \in Text /\ <<None>> \in Text
  BY DEF Text
<1>4. 0 \in P
  <2> SUFFICES ASSUME NEW i \in 1 .. n + 1, n + 1 <= i + 0 PROVE g[i] \in Text
    OBVIOUS
  <2>1. i > n
    BY <1>1
  <2> QED
    BY <1>2, <1>3, <2>1 DEF Token
<1>5. ASSUME NEW k \in Nat, k \in P PROVE k + 1 \in P
  <2> SUFFICES ASSUME NEW i \in 1 .. n + 1, n + 1 <= i + (k + 1) PROVE g[i] \in Text
    OBVIOUS
  <2>1. /\ i + 1 <= n + 1 => i + 1 \in 1 .. n + 1 /\ n + 1 <= (i + 1) + k
        /\ i + 2 <= n + 1 => i + 2 \in 1 .. n + 1 /\ n + 1 <= (i + 2) + k
    BY <1>1
  <2>2. /\ i + 1 <= n + 1 => g[i + 1] \in Text
        /\ i + 2 <= n + 1 => g[i + 2] \in Text
    BY <1>5, <2>1
  <2> HIDE DEF P
  <2>3. CASE i > n
    BY <1>2, <1>3, <2>3 DEF Token
  <2>4. CASE i <= n /\ s[i] # 0
    <3>1. i \in 1 .. n /\ i + 1 <= n + 1 /\ ~(i > n)
      BY <1>1, <2>4
    <3>2. <<s[i]>> \in Text
      BY <1>1, <3>1 DEF Text
    <3>3. <<s[i]>> \o g[i + 1] \in Text
      BY <2>2, <3>1, <3>2, ConcatProperties DEF Text
    <3>4. g[i] = <<s[i]>> \o g[i + 1]
      BY <1>2, <2>4, <3>1 DEF Token
    <3> QED
      BY <3>3, <3>4
  <2>5. CASE i = n /\ s[i] = 0
    <3>1. ~(i > n)
      BY <1>1, <2>5
    <3> QED
      BY <1>2, <1>3, <2>5, <3>1 DEF Token
  <2>6. CASE i < n /\ s[i] = 0
    <3>1. i + 2 <= n + 1 /\ i + 1 \in 1 .. n /\ ~(i > n) /\ i # n
      BY <1>1, <2>6
    <3>2. s[i + 1] + 1 \in Nat
      BY <1>1, <3>1
    <3>3. Zeros(s[i + 1] + 1) \o g[i + 2] \in Text
      BY <2>2, <3>1, <3>2, ZerosAreBytes, ConcatProperties DEF Text
    <3>4. g[i] = Zeros(s[i + 1] + 1) \o g[i + 2]
      BY <1>2, <2>6, <3>1 DEF Token
    <3> QED
      BY <3>3, <3>4
  <2> QED
    BY <1>1, <2>3, <2>4, <2>5, <2>6
<1> HIDE DEF P
<1>6. n + 1 \in P
  BY <1>1, <1>4, <1>5, SetInduction
<1>7. \A i \in 1 .. n + 1 : n + 1 <= i + (n + 1)
  BY <1>1
<1> QED
  BY <1>6, <1>7 DEF P, g

LEMMA ConsZero ==
  ASSUME NEW n \in Nat
  PROVE  Zeros(n + 1) = <<0>> \o Zeros(n)
<1> DEFINE q == Zeros(n + 1)
           z == Zeros(n)
<1>1. /\ n + 1 \in Nat /\ q \in Text /\ z \in Text /\ Len(q) = n + 1 /\ Len(z) = n
      /\ \A i \in 1 .. n + 1 : q[i] = 0
      /\ \A i \in 1 .. n : z[i] = 0
  BY ZerosAreBytes
<1> DEFINE w == <<0>> \o z
<1> HIDE DEF q, z
<1>2. z \in Seq(Byte \cup {None}) /\ 0 \in Byte \cup {None}
  BY <1>1, ReplyAssumption DEF Text
<1>3. w \in Seq(Byte \cup {None}) /\ Len(w) = n + 1
  BY <1>1, <1>2
<1>4. w[1] = 0 /\ \A i \in 1 .. n : w[i + 1] = z[i]
  BY <1>1, <1>2
<1> HIDE DEF w
<1>5. ASSUME NEW i \in 1 .. n + 1 PROVE q[i] = w[i]
  <2>1. CASE i = 1
    BY <1>1, <1>4, <2>1
  <2>2. CASE i # 1
    <3>1. i - 1 \in 1 .. n /\ (i - 1) + 1 = i
      BY <2>2
    <3> QED
      BY <1>1, <1>4, <3>1
  <2> QED
    BY <2>1, <2>2
<1>6. q = w
  BY <1>1, <1>3, <1>5, SeqEqual DEF Text
<1> QED
  BY <1>6 DEF q, w, z

(* A run is its first zero, which decompress writes as a literal, and the rest. *)
LEMMA RunInTwo ==
  ASSUME NEW n \in Nat, NEW r \in Text
  PROVE  /\ Zeros(n) \o r \in Text
         /\ Zeros(n + 1) \o r = <<0>> \o (Zeros(n) \o r)
<1>1. Zeros(n) \in Text /\ <<0>> \in Text
  BY ZerosAreBytes, ReplyAssumption DEF Text
<1>2. Zeros(n) \o r \in Text
  BY <1>1, ConcatProperties DEF Text
<1>3. (<<0>> \o Zeros(n)) \o r = <<0>> \o (Zeros(n) \o r)
  BY <1>1, ConcatAssociative DEF Text
<1> QED
  BY <1>2, <1>3, ConsZero

(* The tokens, as the loop reads them. *)
LEMMA Tokens ==
  ASSUME NEW s \in Seq(Byte)
  PROVE  /\ From(s)[Len(s) + 1] = <<>>
         /\ \A i \in 1 .. Len(s) :
              /\ s[i] # 0 => From(s)[i] = <<s[i]>> \o From(s)[i + 1]
              /\ s[i] = 0 /\ i = Len(s) => From(s)[i] = <<None>>
              /\ s[i] = 0 /\ i # Len(s) =>
                   From(s)[i] = <<0>> \o (Zeros(s[i + 1]) \o From(s)[i + 2])
<1> DEFINE n == Len(s)
           g == From(s)
<1>1. n \in Nat /\ \A i \in 1 .. n : s[i] \in Byte /\ s[i] \in Nat
  BY LenProperties, ElementOfSeq, ReplyAssumption
<1>2. \A i \in 1 .. n + 1 : g[i] = Token(s, g, i) /\ g[i] \in Text
  BY FromToken, FromIsText
<1> HIDE DEF g
<1>3. g[n + 1] = <<>>
  <2>1. n + 1 \in 1 .. n + 1 /\ n + 1 > n
    BY <1>1
  <2> QED
    BY <1>2, <2>1 DEF Token
<1>4. ASSUME NEW i \in 1 .. n
      PROVE  /\ s[i] # 0 => g[i] = <<s[i]>> \o g[i + 1]
             /\ s[i] = 0 /\ i = n => g[i] = <<None>>
             /\ s[i] = 0 /\ i # n => g[i] = <<0>> \o (Zeros(s[i + 1]) \o g[i + 2])
  <2>1. ~(i > n) /\ i \in 1 .. n + 1
    BY <1>1
  <2>2. g[i] = Token(s, g, i)
    BY <1>2, <2>1
  <2>3. CASE s[i] # 0
    BY <2>1, <2>2, <2>3 DEF Token
  <2>4. CASE s[i] = 0 /\ i = n
    BY <2>1, <2>2, <2>4 DEF Token
  <2>5. CASE s[i] = 0 /\ i # n
    <3>1. i + 1 \in 1 .. n /\ i + 2 \in 1 .. n + 1
      BY <1>1, <2>5
    <3>2. s[i + 1] \in Nat /\ g[i + 2] \in Text
      BY <1>1, <1>2, <3>1
    <3>3. g[i] = Zeros(s[i + 1] + 1) \o g[i + 2]
      BY <2>1, <2>2, <2>5 DEF Token
    <3> QED
      BY <2>5, <3>2, <3>3, RunInTwo
  <2> QED
    BY <2>3, <2>4, <2>5
<1> QED
  BY <1>3, <1>4 DEF g

LEMMA TokenNotEmpty ==
  ASSUME NEW s \in Seq(Byte), NEW i \in 1 .. Len(s)
  PROVE  Len(From(s)[i]) \in Nat /\ Len(From(s)[i]) >= 1
<1> DEFINE n == Len(s)
           g == From(s)
<1>1. n \in Nat /\ s[i] \in Byte /\ s[i] \in Nat
  BY LenProperties, ElementOfSeq, ReplyAssumption
<1>2. \A l \in 1 .. n + 1 : g[l] \in Text
  BY FromIsText
<1>3. /\ s[i] # 0 => g[i] = <<s[i]>> \o g[i + 1]
      /\ s[i] = 0 /\ i = n => g[i] = <<None>>
      /\ s[i] = 0 /\ i # n => g[i] = <<0>> \o (Zeros(s[i + 1]) \o g[i + 2])
  BY Tokens
<1> HIDE DEF g
<1>4. ASSUME NEW x \in Byte \cup {None}, NEW r \in Text
      PROVE  Len(<<x>> \o r) \in Nat /\ Len(<<x>> \o r) >= 1
  <2>1. <<x>> \in Text /\ Len(<<x>>) = 1 /\ Len(r) \in Nat
    BY LenProperties DEF Text
  <2>2. Len(<<x>> \o r) = 1 + Len(r)
    BY <2>1, ConcatProperties DEF Text
  <2> QED
    BY <2>1, <2>2
<1>5. CASE s[i] # 0
  <2>1. i + 1 \in 1 .. n + 1
    BY <1>1
  <2> QED
    BY <1>1, <1>2, <1>3, <1>4, <1>5, <2>1 DEF g
<1>6. CASE s[i] = 0 /\ i = n
  BY <1>3, <1>6 DEF g
<1>7. CASE s[i] = 0 /\ i # n
  <2>1. i + 1 \in 1 .. n /\ i + 2 \in 1 .. n + 1 /\ 0 \in Byte
    BY <1>1, <1>7, ReplyAssumption
  <2>2. s[i + 1] \in Nat /\ g[i + 2] \in Text
    BY <1>2, <2>1, ElementOfSeq, ReplyAssumption
  <2>3. Zeros(s[i + 1]) \o g[i + 2] \in Text
    BY <2>2, RunInTwo
  <2> QED
    BY <1>3, <1>4, <1>7, <2>1, <2>3 DEF g
<1> QED
  BY <1>5, <1>6, <1>7

----------------------------------------------------------------------------
(* The loop reads its input as the format has it. *)

(* t is the first m bytes of w, and then r. *)
Splits(t, w, m, r) ==
  /\ Len(t) = m + Len(r)
  /\ \A i \in 1 .. m : t[i] = w[i]
  /\ \A i \in 1 .. Len(r) : t[m + i] = r[i]

(* Between two bytes of the input: what is written, and what is still to be read,
   are together what the payload stands for; within a run its first zero is
   written, and the input must not end there. *)
ReadInv ==
  pc = "Decompress" =>
    LET s == packet.payload
        t == Plain(s)
    IN  /\ next <= Len(s) + 1
        /\ ~lead_zero => Splits(t, output, pos, From(s)[next])
        /\ lead_zero /\ next <= Len(s) =>
             Splits(t, output, pos, Zeros(s[next]) \o From(s)[next + 1])
        /\ lead_zero /\ next > Len(s) => t \notin Seq(Byte)

FormatInv == ReadInv /\ AcceptedIsPlain /\ RoomIsListed

LEMMA TextInTwo ==
  ASSUME NEW z \in Text, NEW r \in Text
  PROVE  /\ Len(z \o r) = Len(z) + Len(r)
         /\ \A i \in 1 .. Len(z) : (z \o r)[i] = z[i]
         /\ \A i \in 1 .. Len(r) : (z \o r)[Len(z) + i] = r[i]
<1>1. Len(z \o r) = Len(z) + Len(r)
  BY DEF Text
<1>2. \A i \in 1 .. Len(z) : (z \o r)[i] = z[i]
  BY DEF Text
<1>3. \A i \in 1 .. Len(r) : (z \o r)[Len(z) + i] = r[i]
  BY DEF Text
<1> QED
  BY <1>1, <1>2, <1>3

LEMMA SplitMore ==
  ASSUME NEW t, NEW v, NEW w, NEW m \in Nat, NEW z \in Text, NEW r \in Text,
         NEW k, Len(z) = k, Splits(t, v, m, z \o r),
         \A i \in 1 .. m : w[i] = v[i],
         \A i \in 1 .. k : w[m + i] = z[i]
  PROVE  Splits(t, w, m + k, r)
<1> DEFINE x == z \o r
           l == Len(r)
<1>1. k \in Nat /\ l \in Nat
  BY LenProperties DEF Text
<1>2. /\ Len(x) = k + l
      /\ \A i \in 1 .. k : x[i] = z[i]
      /\ \A i \in 1 .. l : x[k + i] = r[i]
  BY TextInTwo
<1>3. /\ Len(t) = m + (k + l)
      /\ \A i \in 1 .. m : t[i] = v[i]
      /\ \A i \in 1 .. k + l : t[m + i] = x[i]
  BY <1>2 DEF Splits
<1> HIDE DEF x, l
<1>4. ASSUME NEW i \in 1 .. m + k PROVE t[i] = w[i]
  <2>1. CASE i <= m
    <3>1. i \in 1 .. m
      BY <2>1
    <3> QED
      BY <1>3, <3>1
  <2>2. CASE ~(i <= m)
    <3>1. i - m \in 1 .. k /\ i - m \in 1 .. k + l /\ m + (i - m) = i
      BY <1>1, <2>2
    <3>2. t[i] = z[i - m] /\ w[i] = z[i - m]
      BY <1>2, <1>3, <3>1
    <3> QED
      BY <3>2
  <2> QED
    BY <2>1, <2>2
<1>5. ASSUME NEW i \in 1 .. l PROVE t[(m + k) + i] = r[i]
  <2>1. k + i \in 1 .. k + l /\ m + (k + i) = (m + k) + i
    BY <1>1
  <2> QED
    BY <1>2, <1>3, <2>1
<1>6. Len(t) = (m + k) + l
  BY <1>1, <1>3
<1> QED
  BY <1>4, <1>5, <1>6 DEF Splits, l

(* A text that is cut off is none of bytes. *)
LEMMA CutOff ==
  ASSUME NEW t, NEW w, NEW m \in Nat, Splits(t, w, m, <<None>>)
  PROVE  t \notin Seq(Byte)
<1>1. Len(<<None>>) = 1 /\ 1 \in 1 .. 1 /\ <<None>>[1] = None
  OBVIOUS
<1>2. Len(t) = m + 1 /\ t[m + 1] = None
  BY <1>1 DEF Splits
<1>3. m + 1 \in 1 .. Len(t)
  BY <1>2
<1>4. None \notin Byte
  BY ReplyAssumption
<1> QED
  BY <1>2, <1>3, <1>4, ElementOfSeq

LEMMA StartReads ==
  ASSUME DataTypeOK, StartDecompress
  PROVE  ReadInv'
<1> DEFINE s == packet.payload
           t == Plain(s)
<1>1. s \in Seq(Byte) /\ Len(s) \in Nat
  BY PacketFields, LenProperties DEF StartDecompress
<1>2. /\ packet' = packet /\ next' = 1 /\ pos' = 0 /\ lead_zero' = FALSE
  BY DEF StartDecompress
<1>3. From(s)[1] = t
  BY DEF Plain
<1>4. t \in Text
  <2>1. 1 \in 1 .. Len(s) + 1
    BY <1>1
  <2> QED
    BY <1>1, <1>3, <2>1, FromIsText
<1>5. Splits(t, output', 0, t)
  <2>1. Len(t) \in Nat
    BY <1>4, LenProperties DEF Text
  <2> QED
    BY <2>1 DEF Splits
<1> HIDE DEF t
<1>6. 1 <= Len(s) + 1
  BY <1>1
<1> QED
  BY <1>2, <1>3, <1>5, <1>6 DEF ReadInv, t

LEMMA LiteralReads ==
  ASSUME DataTypeOK, StaysInBounds, FlagsTypeOK, ReadInv, Literal
  PROVE  ReadInv'
<1> DEFINE s == packet.payload
           t == Plain(s)
           n == Len(s)
           g == From(s)
<1>1. /\ pc = "Decompress" /\ next <= n /\ ~lead_zero /\ pos < Len(output)
      /\ output' = [output EXCEPT ![pos + 1] = s[next]]
      /\ pos' = pos + 1 /\ lead_zero' = (s[next] = 0) /\ next' = next + 1
      /\ packet' = packet
  BY DEF Literal, InLoop, Room, Input
<1>2. s \in Seq(Byte) /\ n \in Nat /\ pos \in Nat /\ output \in Seq(Byte)
  BY <1>1, PacketFields, LenProperties DEF DataTypeOK
<1>3. /\ next \in Nat /\ next \in 1 .. n /\ next + 1 \in 1 .. n + 1
      /\ next + 1 <= n + 1
      /\ next = n <=> ~(next + 1 <= n)
      /\ next # n => next + 1 \in 1 .. n /\ next + 2 \in 1 .. n + 1
      /\ (next + 1) + 1 = next + 2
  BY <1>1, <1>2 DEF DataTypeOK
<1>4. Splits(t, output, pos, g[next])
  BY <1>1 DEF ReadInv
<1>5. /\ s[next] # 0 => g[next] = <<s[next]>> \o g[next + 1]
      /\ s[next] = 0 /\ next = n => g[next] = <<None>>
      /\ s[next] = 0 /\ next # n =>
           g[next] = <<0>> \o (Zeros(s[next + 1]) \o g[next + 2])
  BY <1>2, <1>3, Tokens
<1>6. s[next] \in Byte /\ \A i \in 1 .. n + 1 : g[i] \in Text
  BY <1>2, <1>3, ElementOfSeq, FromIsText
<1>7. ASSUME NEW b \in Byte, s[next] = b, NEW r \in Text, g[next] = <<b>> \o r
      PROVE  Splits(t, output', pos + 1, r)
  <2>1. <<b>> \in Text /\ Len(<<b>>) = 1
    BY DEF Text
  <2>2. /\ \A i \in 1 .. pos : output'[i] = output[i]
        /\ \A i \in 1 .. 1 : output'[pos + i] = <<b>>[i]
    <3>1. /\ pos + 1 \in 1 .. Len(output) /\ DOMAIN output = 1 .. Len(output)
          /\ \A i \in 1 .. pos : i \in 1 .. Len(output) /\ i # pos + 1
      BY <1>1, <1>2
    <3>2. output'[pos + 1] = b
      BY <1>1, <1>7, <3>1
    <3>3. \A i \in 1 .. pos : output'[i] = output[i]
      BY <1>1, <3>1
    <3> QED
      BY <3>2, <3>3
  <2>3. Splits(t, output, pos, <<b>> \o r)
    BY <1>4, <1>7
  <2> HIDE DEF t
  <2> QED
    BY <1>2, <2>1, <2>2, <2>3, SplitMore
<1> HIDE DEF t, g, s, n
<1>8. CASE s[next] # 0
  <2>1. Splits(t, output', pos + 1, g[next + 1])
    BY <1>3, <1>5, <1>6, <1>7, <1>8
  <2> QED
    BY <1>1, <1>3, <1>8, <2>1 DEF ReadInv, t, g, s, n
<1>9. CASE s[next] = 0 /\ next = n
  <2>1. t \notin Seq(Byte)
    BY <1>2, <1>4, <1>5, <1>9, CutOff
  <2> QED
    BY <1>1, <1>3, <1>9, <2>1 DEF ReadInv, t, g, s, n
<1>10. CASE s[next] = 0 /\ next # n
  <2>1. s[next + 1] \in Nat /\ g[next + 2] \in Text
    BY <1>2, <1>3, <1>6, <1>10, ElementOfSeq, ReplyAssumption DEF n
  <2>2. Zeros(s[next + 1]) \o g[next + 2] \in Text
    BY <2>1, RunInTwo
  <2>3. Splits(t, output', pos + 1, Zeros(s[next + 1]) \o g[next + 2])
    BY <1>5, <1>6, <1>7, <1>10, <2>2
  <2>4. /\ next' = next + 1 /\ next' + 1 = next + 2
        /\ next' <= n + 1 /\ ~(next' > n)
    BY <1>1, <1>2, <1>3, <1>10
  <2>5. Splits(t, output', pos', Zeros(s[next']) \o g[next' + 1])
    BY <1>1, <2>3, <2>4
  <2>6. lead_zero' /\ packet' = packet
    BY <1>1, <1>10
  <2> QED
    BY <2>4, <2>5, <2>6 DEF ReadInv, t, g, s, n
<1> QED
  BY <1>8, <1>9, <1>10

LEMMA ZeroRunReads ==
  ASSUME DataTypeOK, StaysInBounds, FlagsTypeOK, ReadInv, ZeroRun
  PROVE  ReadInv'
<1> DEFINE s == packet.payload
           t == Plain(s)
           n == Len(s)
           k == s[next]
           r == From(s)[next + 1]
<1>1. /\ pc = "Decompress" /\ next <= n /\ lead_zero /\ pos + k <= Len(output)
      /\ output' = [i \in DOMAIN output |->
                      IF pos < i /\ i <= pos + k THEN 0 ELSE output[i]]
      /\ pos' = pos + k /\ lead_zero' = FALSE /\ next' = next + 1
      /\ packet' = packet
  BY DEF ZeroRun, InLoop, Room, Input
<1>2. /\ s \in Seq(Byte) /\ n \in Nat /\ pos \in Nat /\ output \in Seq(Byte)
      /\ k \in Nat
  <2>1. Input = k /\ InLoop
    BY DEF ZeroRun, Input
  <2>2. k \in Nat /\ s \in Seq(Byte)
    BY <1>1, <2>1, PacketFields, InputIsByte
  <2>3. pos \in Nat /\ output \in Seq(Byte)
    BY DEF DataTypeOK
  <2> QED
    BY <2>2, <2>3, LenProperties
<1>3. next + 1 \in 1 .. n + 1 /\ next + 1 <= n + 1
  BY <1>1, <1>2 DEF DataTypeOK
<1>4. Splits(t, output, pos, Zeros(k) \o r)
  BY <1>1 DEF ReadInv
<1>5. r \in Text
  BY <1>2, <1>3, FromIsText
<1>6. /\ Zeros(k) \in Text /\ Len(Zeros(k)) = k
      /\ \A i \in 1 .. k : Zeros(k)[i] = 0
  BY <1>2, ZerosAreBytes
<1> HIDE DEF t, r, k, s, n
<1>7. DOMAIN output = 1 .. Len(output) /\ Len(output) \in Nat
  BY <1>2, LenProperties
<1>8. /\ \A i \in 1 .. pos : i \in DOMAIN output /\ ~(pos < i)
      /\ \A i \in 1 .. k : /\ pos + i \in DOMAIN output
                          /\ pos < pos + i /\ pos + i <= pos + k
  BY <1>1, <1>2, <1>7
<1>9. \A i \in 1 .. pos : output'[i] = output[i]
  BY <1>1, <1>8
<1>10. \A i \in 1 .. k : output'[pos + i] = Zeros(k)[i]
  BY <1>1, <1>6, <1>8
<1>11. Splits(t, output', pos + k, r)
  BY <1>2, <1>4, <1>5, <1>6, <1>9, <1>10, SplitMore
<1> QED
  BY <1>1, <1>3, <1>11 DEF ReadInv, t, r, s, n

(* What the other steps make of it.  Here the payload fits, so a token that is
   still to be read has no room only if it is the single zero at the end. *)
LEMMA OverflowIsLoneZero ==
  ASSUME DataTypeOK, StaysInBounds, ReadInv, Overflow, Fits
  PROVE  EndsWithLoneZero
<1> DEFINE s == packet.payload
           t == Plain(s)
           n == Len(s)
           g == From(s)
           D == packet.decompress_len
<1>1. pc = "Decompress" /\ next <= n /\ Len(output) = D /\ Len(t) = D
  BY DEF Overflow, InLoop, StaysInBounds, Fits
<1>2. s \in Seq(Byte) /\ n \in Nat /\ D \in Nat /\ pos \in Nat /\ pos <= D
  BY <1>1, PacketFields, LenProperties DEF DataTypeOK, StaysInBounds
<1>3. /\ next \in 1 .. n /\ next + 1 \in 1 .. n + 1
      /\ next # n => next + 1 \in 1 .. n
  BY <1>1, <1>2 DEF DataTypeOK
<1>4. \A i \in 1 .. n : Len(g[i]) \in Nat /\ Len(g[i]) >= 1
  BY <1>2, TokenNotEmpty
<1>5. CASE ~lead_zero
  <2>1. Len(t) = pos + Len(g[next])
    BY <1>1, <1>5 DEF ReadInv, Splits
  <2>2. ~(pos < D)
    BY <1>1, <1>5 DEF Overflow, Room
  <2> HIDE DEF t, g, D
  <2> QED
    BY <1>1, <1>2, <1>3, <1>4, <2>1, <2>2
<1>6. CASE lead_zero
  <2> DEFINE k == s[next]
             r == g[next + 1]
  <2>1. k \in Nat /\ r \in Text
    BY <1>2, <1>3, ElementOfSeq, ReplyAssumption, FromIsText
  <2>2. Len(t) = pos + Len(Zeros(k) \o r)
    BY <1>1, <1>6 DEF ReadInv, Splits
  <2>3. Len(Zeros(k) \o r) = k + Len(r) /\ Len(r) \in Nat
    <3>1. Zeros(k) \in Text /\ Len(Zeros(k)) = k
      BY <2>1, ZerosAreBytes
    <3> HIDE DEF k, r
    <3> QED
      BY <2>1, <3>1 DEF Text
  <2>4. ~(pos < D) \/ pos + k > D
    BY <1>1, <1>6 DEF Overflow, Room, Input
  <2>5. next # n => Len(r) >= 1
    BY <1>3, <1>4
  <2> HIDE DEF t, k, r, D
  <2>6. next = n /\ k = 0
    BY <1>1, <1>2, <2>1, <2>2, <2>3, <2>4, <2>5
  <2>7. s[n] = 0
    BY <2>6 DEF k
  <2>8. s # <<>>
    BY <1>1, <1>2, <1>3
  <2> QED
    BY <2>7, <2>8 DEF EndsWithLoneZero
<1> QED
  BY <1>5, <1>6

LEMMA IncompleteMisfits ==
  ASSUME DataTypeOK, StaysInBounds, ReadInv, Incomplete
  PROVE  ~Fits
<1> DEFINE s == packet.payload
           t == Plain(s)
           n == Len(s)
<1>1. /\ pc = "Decompress" /\ next > n /\ (lead_zero \/ pos # Len(output))
      /\ Len(output) = packet.decompress_len
  BY DEF Incomplete, StaysInBounds
<1>2. s \in Seq(Byte) /\ n \in Nat /\ pos \in Nat /\ next \in Nat /\ next <= n + 1
  BY <1>1, PacketFields, LenProperties DEF DataTypeOK, ReadInv
<1>3. CASE lead_zero
  BY <1>1, <1>3 DEF ReadInv, Fits
<1>4. CASE ~lead_zero
  <2>1. next = n + 1
    BY <1>1, <1>2
  <2>2. From(s)[next] = <<>>
    BY <1>2, <2>1, Tokens
  <2>3. Len(t) = pos + 0
    BY <1>1, <1>4, <2>2 DEF ReadInv, Splits
  <2>4. Len(t) = pos
    BY <1>2, <2>3
  <2> QED
    BY <1>1, <1>4, <2>4 DEF Fits
<1> QED
  BY <1>3, <1>4

LEMMA CompleteIsPlain ==
  ASSUME DataTypeOK, StaysInBounds, ReadInv, Complete
  PROVE  Fits /\ output = Plain(packet.payload)
<1> DEFINE s == packet.payload
           t == Plain(s)
           n == Len(s)
<1>1. /\ pc = "Decompress" /\ next > n /\ ~lead_zero /\ pos = Len(output)
      /\ Len(output) = packet.decompress_len
  BY DEF Complete, StaysInBounds
<1>2. /\ s \in Seq(Byte) /\ n \in Nat /\ pos \in Nat /\ next \in Nat /\ next <= n + 1
      /\ output \in Seq(Byte)
  BY <1>1, PacketFields, LenProperties DEF DataTypeOK, ReadInv
<1>3. next = n + 1 /\ 1 \in 1 .. n + 1
  BY <1>1, <1>2
<1>4. From(s)[next] = <<>>
  BY <1>2, <1>3, Tokens
<1>5. Len(t) = pos + 0 /\ \A i \in 1 .. pos : t[i] = output[i]
  BY <1>1, <1>4 DEF ReadInv, Splits
<1>6. Len(t) = pos
  BY <1>2, <1>5
<1>7. t \in Text
  BY <1>2, <1>3, FromIsText DEF Plain
<1>8. output \in Text
  BY <1>2, SeqOfBytesIsText
<1> HIDE DEF t
<1>9. t = output
  BY <1>1, <1>5, <1>6, <1>7, <1>8, SeqEqual DEF Text
<1> QED
  BY <1>1, <1>2, <1>9 DEF Fits, t

LEMMA NextReads ==
  ASSUME DataTypeOK, StaysInBounds, FlagsTypeOK, ReadInv, Next
  PROVE  ReadInv'
<1>1. ASSUME NEW p \in Packet, Ignore(p) \/ in_packet(p) PROVE ReadInv'
  <2>1. pc' # "Decompress"
    BY <1>1 DEF Ignore, in_packet, Return
  <2> QED
    BY <2>1 DEF ReadInv
<1>2. CASE BadHeader \/ CopyPayload \/ NoReply \/ InsertRoom
  <2>1. pc' # "Decompress"
    BY <1>2 DEF BadHeader, CopyPayload, NoReply, InsertRoom, Return
  <2> QED
    BY <2>1 DEF ReadInv
<1>3. CASE Overflow \/ Incomplete \/ Complete
  <2>1. pc' # "Decompress"
    BY <1>3 DEF Overflow, Incomplete, Complete, Return
  <2> QED
    BY <2>1 DEF ReadInv
<1> QED
  BY <1>1, <1>2, <1>3, StartReads, LiteralReads, ZeroRunReads DEF Next, Loop

(* A payload is accepted by the last step of the loop only; the others keep it, or
   drop it with the packet. *)
LEMMA NextAccepts ==
  ASSUME DataTypeOK, StaysInBounds, ReadInv, AcceptedIsPlain, Next
  PROVE  AcceptedIsPlain'
<1>1. ASSUME UNCHANGED <<packet, payload>> PROVE AcceptedIsPlain'
  BY <1>1 DEF AcceptedIsPlain, Compressed, Fits
<1>2. ASSUME NEW p \in Packet, Ignore(p) \/ in_packet(p) PROVE AcceptedIsPlain'
  BY <1>2 DEF Ignore, in_packet, AcceptedIsPlain
<1>3. CASE CopyPayload
  BY <1>3 DEF CopyPayload, AcceptedIsPlain, Compressed
<1>4. CASE Complete
  <2>1. packet' = packet /\ payload' = output
    BY <1>4 DEF Complete
  <2> QED
    BY <1>4, <2>1, CompleteIsPlain DEF AcceptedIsPlain, Fits
<1>5. CASE BadHeader \/ StartDecompress \/ NoReply \/ InsertRoom
  BY <1>1, <1>5 DEF BadHeader, StartDecompress, NoReply, InsertRoom
<1>6. CASE ZeroRun \/ Literal \/ Overflow \/ Incomplete
  BY <1>1, <1>6 DEF ZeroRun, Literal, Overflow, Incomplete
<1> QED
  BY <1>2, <1>3, <1>4, <1>5, <1>6 DEF Next, Loop

(* in_packet returns without a room only if the packet describes none. *)
LEMMA NextLists ==
  ASSUME DataTypeOK, StaysInBounds, ReadInv, AcceptedIsPlain, Next
  PROVE  RoomIsListed'
<1>1. ASSUME NEW p \in Packet, Ignore(p) PROVE RoomIsListed'
  BY <1>1 DEF Ignore, RoomIsListed
<1>2. ASSUME pc' # "Ready" PROVE RoomIsListed'
  BY <1>2 DEF RoomIsListed
<1>3. CASE BadHeader
  BY <1>3 DEF BadHeader, RoomIsListed, check
<1>4. CASE Overflow
  <2>1. packet' = packet
    BY <1>4 DEF Overflow
  <2>2. Fits => EndsWithLoneZero
    BY <1>4, OverflowIsLoneZero
  <2> QED
    BY <2>1, <2>2 DEF RoomIsListed, Fits, EndsWithLoneZero
<1>5. CASE Incomplete
  <2>1. packet' = packet /\ ~Fits
    BY <1>5, IncompleteMisfits DEF Incomplete
  <2> QED
    BY <2>1 DEF RoomIsListed, Fits
<1>6. CASE NoReply
  <2>1. packet' = packet /\ payload # None /\ ~IsReply
    BY <1>6 DEF NoReply, DataTypeOK
  <2>2. Compressed => Len(payload) = packet.decompress_len
    BY <2>1 DEF AcceptedIsPlain, Fits
  <2> QED
    BY <2>1, <2>2 DEF RoomIsListed, Compressed, IsReply
<1>7. CASE InsertRoom
  BY <1>7 DEF InsertRoom, RoomIsListed
<1>8. ASSUME NEW p \in Packet, in_packet(p) PROVE pc' # "Ready"
  BY <1>8 DEF in_packet
<1>9. CASE CopyPayload \/ StartDecompress \/ Complete
  BY <1>2, <1>9 DEF CopyPayload, StartDecompress, Complete
<1>10. CASE ZeroRun \/ Literal
  BY <1>2, <1>10 DEF ZeroRun, Literal, InLoop
<1> QED
  BY <1>1, <1>2, <1>3, <1>4, <1>5, <1>6, <1>7, <1>8, <1>9, <1>10 DEF Next, Loop

THEOREM FormatInvHolds == Spec => []FormatInv
<1>1. Init => FormatInv
  <2> SUFFICES ASSUME Init PROVE FormatInv
    OBVIOUS
  <2>1. pc = "Ready" /\ packet = None
    BY DEF Init
  <2> QED
    BY <2>1 DEF FormatInv, ReadInv, AcceptedIsPlain, RoomIsListed, Compressed
<1>2. Inv /\ FormatInv /\ [Next]_vars => FormatInv'
  <2> SUFFICES ASSUME Inv, FormatInv, [Next]_vars PROVE FormatInv'
    OBVIOUS
  <2>1. CASE Next
    BY <2>1, NextReads, NextAccepts, NextLists DEF Inv, ReplyTypeOK, FormatInv
  <2>2. CASE UNCHANGED vars
    BY <2>2 DEF vars, loopVars, FormatInv, ReadInv, AcceptedIsPlain, RoomIsListed,
       Compressed, Fits, EndsWithLoneZero, check
  <2> QED
    BY <2>1, <2>2
<1> QED
  BY <1>1, <1>2, ReplyInvHolds, PTL DEF Spec

(* What decompress returns is what the format says the bytes stand for, and has the
   length that the header announces (lan_protocol.rs), for payloads of any length. *)
THEOREM AcceptedIsPlainHolds == Spec => []AcceptedIsPlain
  BY FormatInvHolds, PTL DEF FormatInv

(* in_packet (plugin.rs) lists the room of every well formed scan reply, unless its
   last token is a single zero: decompress gives up on that one. *)
THEOREM RoomIsListedHolds == Spec => []RoomIsListed
  BY FormatInvHolds, PTL DEF FormatInv

----------------------------------------------------------------------------
(* What each parser has made sure of when its slice is in hand. *)
LengthOK ==
  /\ len \in Nat
  /\ stage = "Ipv4" => len >= 20
  /\ stage = "Ipv4Frag" => len >= 16
  /\ stage = "Ping" => len = 4

WireInv == LengthOK /\ ReadsStayInside

LEMMA WireNumbers == Size \subseteq Nat /\ Length \subseteq Nat /\ Typ \subseteq Nat
  BY WireAssumption

(* The lengths that the parser behind each type byte accepts. *)
LEMMA LimitOfKind ==
  ASSUME NEW typ, NEW n, n \in Limits[Kind[typ]]
  PROVE  /\ typ = 1 => n \in 20 .. 2048
         /\ typ = 2 => n \in 4 .. 4
         /\ typ = 3 => n \in 16 .. 2048
  BY DEF Limits, Kind

(* A datagram of the right length is cut behind its type byte, and what that
   makes of it has the length it needs. *)
LEMMA ParseKeeps ==
  ASSUME WireInv, NEW typ \in Typ, ParseFrame(typ)
  PROVE  WireInv'
<1>1. len \in 1 .. 2048 /\ taken' = {Octet(0), Take(1, len)}
  BY DEF ParseFrame, Limits
<1>2. ReadsStayInside'
  <2>1. Octet(0) = [from |-> 0, to |-> 1, of |-> len]
        /\ Take(1, len) = [from |-> 1, to |-> len, of |-> len]
    BY DEF Octet, Take
  <2>2. 0 <= 1 /\ 1 <= len /\ len <= len
    BY <1>1
  <2> QED
    BY <1>1, <2>1, <2>2 DEF ReadsStayInside
<1>3. CASE typ \in DOMAIN Kind /\ len - 1 \in Limits[Kind[typ]]
  <2>1. stage' = Kind[typ] /\ len' = len - 1
    BY <1>3 DEF ParseFrame
  <2>2. typ \in 1 .. 3
    BY <1>3 DEF Kind
  <2>3. len' \in Limits[Kind[typ]]
    BY <1>3, <2>1, Zenon
  <2>4. ASSUME typ = 1 PROVE LengthOK'
    <3>1. stage' = "Ipv4"
      BY <2>1, <2>4 DEF Kind
    <3>2. len' \in 20 .. 2048
      BY <2>3, <2>4, LimitOfKind
    <3> QED
      BY <3>1, <3>2 DEF LengthOK
  <2>5. ASSUME typ = 2 PROVE LengthOK'
    <3>1. stage' = "Ping"
      BY <2>1, <2>5 DEF Kind
    <3>2. len' \in 4 .. 4
      BY <2>3, <2>5, LimitOfKind
    <3> QED
      BY <3>1, <3>2 DEF LengthOK
  <2>6. ASSUME typ = 3 PROVE LengthOK'
    <3>1. stage' = "Ipv4Frag"
      BY <2>1, <2>6 DEF Kind
    <3>2. len' \in 16 .. 2048
      BY <2>3, <2>6, LimitOfKind
    <3> QED
      BY <3>1, <3>2 DEF LengthOK
  <2> QED
    BY <1>2, <2>2, <2>4, <2>5, <2>6 DEF WireInv
<1>4. CASE ~(typ \in DOMAIN Kind /\ len - 1 \in Limits[Kind[typ]])
  BY <1>2, <1>4 DEF ParseFrame, Done, WireInv, LengthOK
<1> QED
  BY <1>3, <1>4

(* What is read of a frame is what its parser's least length covers. *)
LEMMA FrameKeeps ==
  ASSUME WireInv, TooShortOrLong \/ build \/ ReadIpv4 \/ ReadIpv4Frag \/ LookInside
  PROVE  WireInv'
<1> USE WireNumbers DEF WireInv, LengthOK, ReadsStayInside, Done
<1>1. CASE TooShortOrLong
  BY <1>1 DEF TooShortOrLong
<1>2. CASE build
  BY <1>2 DEF build, Take
<1>3. CASE ReadIpv4
  BY <1>3 DEF ReadIpv4, Take
<1>4. CASE ReadIpv4Frag
  BY <1>4 DEF ReadIpv4Frag, Take, Octet
<1>5. CASE LookInside
  BY <1>5 DEF LookInside
<1> QED
  BY <1>1, <1>2, <1>3, <1>4, <1>5

(* The same for the header of a reply and what is behind it. *)
LEMMA LdnKeeps ==
  ASSUME WireInv, RejectLdn \/ ReadLdn \/ InfoTooShort
  PROVE  WireInv'
<1> USE WireNumbers DEF WireInv, LengthOK, ReadsStayInside, Done, HeaderSize
<1>1. CASE RejectLdn
  BY <1>1 DEF RejectLdn, Take
<1>2. CASE ReadLdn
  <2>1. len' \in Nat /\ stage' \in {"Ready", "NetworkInfo"}
    <3>1. len - HeaderSize \in Nat
      BY <1>2 DEF ReadLdn
    <3>2. CASE Done
      BY <3>2
    <3>3. CASE stage' = "NetworkInfo" /\ len' \in {len - HeaderSize} \cup Length
      BY <3>1, <3>3
    <3> QED
      BY <1>2, <3>2, <3>3 DEF ReadLdn
  <2>2. ReadsStayInside'
    BY <1>2 DEF ReadLdn, Take, Octet
  <2> QED
    BY <2>1, <2>2
<1>3. CASE InfoTooShort
  BY <1>3 DEF InfoTooShort
<1> QED
  BY <1>1, <1>2, <1>3

(* The nodes that are counted end before the buffer does, and each is as long
   as its accessors need. *)
LEMMA NodesAreInside ==
  ASSUME NEW count \in Nat, NEW node \in nodes(count), len \in Nat, len >= 1152
  PROVE  /\ node.from <= node.to /\ node.to <= node.of
         /\ \A t \in InNode(node) : t.from <= t.to /\ t.to <= t.of
<1>1. PICK i \in 0 .. Min2(count, 8) - 1 : node = Take(104 + 64 * i, 104 + 64 * i + 64)
  BY DEF nodes
<1>2. i \in 0 .. 7
  BY <1>1 DEF Min2
<1>3. node.from = 104 + 64 * i /\ node.to = 104 + 64 * i + 64 /\ node.of = len
  BY <1>1 DEF Take
<1>4. node.to - node.from = 64
  BY <1>2, <1>3
<1>5. \A t \in InNode(node) : t.from <= t.to /\ t.to <= 64 /\ t.of = 64
  BY <1>4 DEF InNode
<1> QED
  BY <1>2, <1>3, <1>5

(* A NetworkInfo is long enough for all its fields, with as many nodes and as
   much advertise data as are read at most. *)
LEMMA NetworkInfoKeeps ==
  ASSUME WireInv, NEW count \in Typ, NEW n \in Length, ReadNetworkInfo(count, n)
  PROVE  WireInv'
<1>1. len \in Nat /\ len >= 1152 /\ count \in Nat /\ n \in Nat
  BY WireNumbers DEF ReadNetworkInfo, WireInv, LengthOK
<1>2. LengthOK'
  BY DEF ReadNetworkInfo, Done, LengthOK
<1>3. ASSUME NEW t \in {Take(0, 8), Take(16, 32), Take(116, 148), Octet(102), Octet(103),
                        Take(618, 620), advertise_data(n)}
      PROVE  t.from <= t.to /\ t.to <= t.of
  <2>1. Min2(n, 384) \in 0 .. 384
    BY <1>1 DEF Min2
  <2> QED
    BY <1>1, <1>3, <2>1 DEF Take, Octet, advertise_data
<1>4. ASSUME NEW t \in nodes(count) \cup UNION {InNode(node) : node \in nodes(count)}
      PROVE  t.from <= t.to /\ t.to <= t.of
  BY <1>1, NodesAreInside
<1> QED
  BY <1>2, <1>3, <1>4 DEF ReadNetworkInfo, WireInv, ReadsStayInside

(* No datagram makes an accessor slice beyond its buffer (frame.rs,
   lan_protocol.rs): recv_task cannot die of one, whatever its length and its
   fields. *)
THEOREM ReadsStayInsideHolds == WireSpec => []ReadsStayInside
<1>1. WireInit => WireInv
  BY DEF WireInit, WireInv, LengthOK, ReadsStayInside
<1>2. WireInv /\ [WireNext]_wireVars => WireInv'
  <2> SUFFICES ASSUME WireInv, [WireNext]_wireVars PROVE WireInv'
    OBVIOUS
  <2>1. ASSUME NEW n \in Size, RecvDatagram(n) PROVE WireInv'
    BY <2>1, WireNumbers DEF RecvDatagram, WireInv, LengthOK, ReadsStayInside
  <2>2. CASE UNCHANGED wireVars
    BY <2>2 DEF wireVars, WireInv, LengthOK, ReadsStayInside
  <2> QED
    BY <2>1, <2>2, ParseKeeps, FrameKeeps, LdnKeeps, NetworkInfoKeeps DEF WireNext
<1>3. WireInv => ReadsStayInside
  BY DEF WireInv
<1> QED
  BY <1>1, <1>2, <1>3, PTL DEF WireSpec
=============================================================================

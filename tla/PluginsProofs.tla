---------------------------- MODULE PluginsProofs ----------------------------
(* What the plugin lock is there for, for all packets, rules and queries; and
   that the rooms are a composition with the plugins: no step of Rooms does to
   them what Plugins does not allow. *)
EXTENDS Rooms, TLAPS

(* While packet is with the plugins, each is called once more or has been
   called; before the blocker has, nothing is blocked. *)
CallsOnce ==
  packet # None => IsInjective(todo) /\ ("blocker" \notin seen => ~blocked)

PInv ==
  PluginsTypeOK /\ CallsOnce /\ EveryPluginSeesEveryPacket /\ VerdictIsCurrent

(* What is left of a list without repetitions. *)
LEMMA TailRange ==
  ASSUME NEW S, NEW s \in Seq(S), s # <<>>, IsInjective(s)
  PROVE  /\ Tail(s) \in Seq(S) /\ IsInjective(Tail(s))
         /\ Head(s) \in S
         /\ Range(Tail(s)) = Range(s) \ {Head(s)} /\ Head(s) \in Range(s)
<1> DEFINE n == Len(s)
           t == Tail(s)
<1>1. /\ n \in Nat \ {0} /\ DOMAIN s = 1 .. n /\ Head(s) = s[1] /\ Head(s) \in S
      /\ t \in Seq(S) /\ DOMAIN t = 1 .. n - 1
      /\ \A i \in 1 .. n - 1 : t[i] = s[i + 1]
  OBVIOUS
<1>2. \A i, j \in 1 .. n : s[i] = s[j] => i = j
  BY <1>1 DEF IsInjective
<1> HIDE DEF n, t
<1>3. \A i \in 1 .. n - 1 : i + 1 \in 1 .. n /\ i + 1 # 1
  BY <1>1
<1>4. IsInjective(t)
  <2> SUFFICES ASSUME NEW i \in 1 .. n - 1, NEW j \in 1 .. n - 1, t[i] = t[j] PROVE i = j
    BY <1>1 DEF IsInjective
  <2>1. i + 1 = j + 1
    BY <1>1, <1>2, <1>3
  <2> QED
    BY <1>1, <2>1
<1>5. 1 \in 1 .. n
  BY <1>1
<1>6. Head(s) \in Range(s)
  BY <1>1, <1>5 DEF Range
<1>7. ASSUME NEW c \in Range(t) PROVE c \in Range(s) /\ c # Head(s)
  <2>1. PICK i \in 1 .. n - 1 : t[i] = c
    BY <1>1 DEF Range
  <2>2. i + 1 \in 1 .. n /\ i + 1 # 1 /\ s[i + 1] = c
    BY <1>1, <1>3, <2>1
  <2> QED
    BY <1>1, <1>2, <1>5, <2>2 DEF Range
<1>8. ASSUME NEW c \in Range(s), c # Head(s) PROVE c \in Range(t)
  <2>1. PICK i \in 1 .. n : s[i] = c
    BY <1>1 DEF Range
  <2>2. i - 1 \in 1 .. n - 1 /\ (i - 1) + 1 = i
    BY <1>1, <1>8, <2>1
  <2> QED
    BY <1>1, <2>1, <2>2 DEF Range
<1> QED
  BY <1>1, <1>4, <1>6, <1>7, <1>8 DEF t

(* main changes the plugins and the rules only when no packet is with them. *)
LEMMA add_pluginKeeps ==
  ASSUME PInv, add_plugin
  PROVE  PInv'
<1> USE DEF PInv, PluginsTypeOK
<1>1. packet = None /\ startup # <<>> /\ Head(startup) \in Plugin
  BY DEF add_plugin, InnerIsFree
<1>2. /\ plugin' \in [1 .. Len(plugin) + 1 -> Range(plugin) \cup {Head(startup)}]
      /\ IsInjective(plugin)'
      /\ startup' = Tail(startup)
      /\ UNCHANGED <<rules, recv, packet, todo, blocked, seen, query>>
  BY DEF add_plugin, recvVars, IsInjective
<1>3. Range(plugin) \subseteq Plugin
  BY DEF Range
<1>4. plugin' \in Seq(Plugin)
  <2> DEFINE n == Len(plugin) + 1
             S == Range(plugin) \cup {Head(startup)}
  <2>1. n \in Nat
    OBVIOUS
  <2>2. plugin' \in [1 .. n -> S] /\ S \subseteq Plugin
    BY <1>1, <1>2, <1>3
  <2> HIDE DEF n, S
  <2>3. plugin' \in [1 .. n -> Plugin]
    BY <2>2
  <2> QED
    BY <2>1, <2>3
<1>5. startup' \in Seq(Plugin \cup {"rules"})
  BY <1>1, <1>2
<1> QED
  BY <1>1, <1>2, <1>4, <1>5
     DEF CallsOnce, EveryPluginSeesEveryPacket, VerdictIsCurrent

LEMMA set_block_rulesKeeps ==
  ASSUME PInv, set_block_rules
  PROVE  PInv'
<1>1. /\ packet = None /\ packet' = None /\ rules' = BlockRules /\ startup' = <<>>
      /\ UNCHANGED <<plugin, recv, todo, blocked, seen, query>>
  BY DEF set_block_rules, InnerIsFree, recvVars
<1>2. PluginsTypeOK'
  BY <1>1 DEF PInv, PluginsTypeOK
<1> QED
  BY <1>1, <1>2 DEF PInv, CallsOnce, EveryPluginSeesEveryPacket, VerdictIsCurrent

(* With a packet all plugins are still to be called. *)
LEMMA RecvFromKeeps ==
  ASSUME PInv, NEW p \in Packet, RecvFrom(p)
  PROVE  PInv'
<1>1. /\ packet' = p /\ todo' = plugin /\ blocked' = FALSE /\ seen' = {}
      /\ UNCHANGED <<plugin, rules, startup, recv, query>>
  BY DEF RecvFrom, mainVars
<1>2. PluginsTypeOK'
  BY <1>1 DEF PInv, PluginsTypeOK
<1>3. IsInjective(todo')
  BY <1>1 DEF PInv, PluginsTypeOK
<1> QED
  BY <1>1, <1>2, <1>3 DEF PInv, CallsOnce, EveryPluginSeesEveryPacket, VerdictIsCurrent

(* The next plugin is called, by the rules that have been there all along. *)
LEMMA InPacketKeeps ==
  ASSUME PInv, InPacket
  PROVE  PInv'
<1> DEFINE p == Head(todo)
<1>1. /\ packet # None /\ todo # <<>> /\ todo' = Tail(todo)
      /\ seen' = seen \cup {p}
      /\ blocked' = (blocked \/ (p = "blocker" /\ IsBlocked(packet)))
      /\ UNCHANGED <<plugin, rules, startup, recv, packet, query>>
  BY DEF InPacket, Called, mainVars
<1>2. /\ todo \in Seq(Plugin) /\ IsInjective(todo) /\ blocked \in BOOLEAN
      /\ seen \subseteq Plugin
  BY <1>1 DEF PInv, PluginsTypeOK, CallsOnce
<1>3. /\ Tail(todo) \in Seq(Plugin) /\ IsInjective(Tail(todo)) /\ p \in Plugin
      /\ Range(Tail(todo)) = Range(todo) \ {p} /\ p \in Range(todo)
  BY <1>1, <1>2, TailRange
<1> HIDE DEF p
<1>4. PluginsTypeOK'
  <2>1. blocked' \in BOOLEAN
    BY <1>1, <1>2, Zenon
  <2>2. seen' \subseteq Plugin /\ todo' \in Seq(Plugin)
    BY <1>1, <1>2, <1>3
  <2> QED
    BY <1>1, <2>1, <2>2 DEF PInv, PluginsTypeOK
<1>5. /\ seen \cup Range(todo) = Range(plugin)
      /\ seen \cap Range(todo) = {}
  BY <1>1 DEF PInv, EveryPluginSeesEveryPacket
<1>6. EveryPluginSeesEveryPacket'
  BY <1>1, <1>3, <1>5 DEF EveryPluginSeesEveryPacket
<1>7. IsBlocked(packet)' = IsBlocked(packet)
  BY <1>1 DEF IsBlocked, Hit
<1>8. CASE p = "blocker"
  <2>1. "blocker" \notin seen
    BY <1>3, <1>5, <1>8
  <2>2. ~blocked
    BY <1>1, <2>1 DEF PInv, CallsOnce
  <2>3. blocked' = IsBlocked(packet) /\ "blocker" \in seen'
    <3>1. IsBlocked(packet) \in BOOLEAN
      BY DEF IsBlocked
    <3> QED
      BY <1>1, <1>8, <2>2, <3>1, Zenon
  <2>4. CallsOnce' /\ VerdictIsCurrent'
    BY <1>1, <1>3, <1>7, <2>3 DEF CallsOnce, VerdictIsCurrent
  <2> QED
    BY <1>4, <1>6, <2>4 DEF PInv
<1>9. CASE p # "blocker"
  <2>1. blocked' = blocked /\ ("blocker" \in seen' <=> "blocker" \in seen)
    BY <1>1, <1>2, <1>9, Zenon
  <2>2. CallsOnce' /\ VerdictIsCurrent'
    BY <1>1, <1>3, <1>7, <2>1 DEF PInv, CallsOnce, VerdictIsCurrent
  <2> QED
    BY <1>4, <1>6, <2>2 DEF PInv
<1> QED
  BY <1>8, <1>9

(* Afterwards the packet is out of the plugins' hands, also after a panic. *)
LEMMA PacketLeaves ==
  ASSUME PInv, Panic \/ Dispatch
  PROVE  PInv'
<1>1. /\ packet' = None /\ blocked' = FALSE /\ seen' = {}
      /\ todo' \in {todo, <<>>}
      /\ recv' \in {recv, "Down"}
      /\ UNCHANGED <<plugin, rules, startup, query>>
  BY DEF Panic, Dispatch, mainVars
<1>2. PluginsTypeOK'
  <2>1. todo' \in Seq(Plugin)
    <3>1. todo \in Seq(Plugin) /\ <<>> \in Seq(Plugin)
      BY DEF PInv, PluginsTypeOK
    <3> QED
      BY <1>1, <3>1, Zenon
  <2>2. recv' \in {"Up", "Down"}
    BY <1>1 DEF PInv, PluginsTypeOK
  <2> QED
    BY <1>1, <2>1, <2>2 DEF PInv, PluginsTypeOK
<1> QED
  BY <1>1, <1>2 DEF PInv, CallsOnce, EveryPluginSeesEveryPacket, VerdictIsCurrent

LEMMA QueryKeeps ==
  ASSUME PInv, NEW q \in Query, Ask(q) \/ get_plugin(q) \/ ReadData(q)
  PROVE  PInv'
<1>1. /\ UNCHANGED <<plugin, rules, startup, recv, packet, todo, blocked, seen>>
      /\ \E v \in {"Idle", "WantPlugin", "WantData"} : query' = [query EXCEPT ![q] = v]
  BY DEF Ask, get_plugin, ReadData, mainVars, recvVars
<1>2. PluginsTypeOK'
  BY <1>1 DEF PInv, PluginsTypeOK
<1>3. IsBlocked(packet)' = IsBlocked(packet)
  BY <1>1 DEF IsBlocked, Hit
<1> QED
  BY <1>1, <1>2, <1>3 DEF PInv, CallsOnce, EveryPluginSeesEveryPacket, VerdictIsCurrent

(* The inductive invariant of the plugins under their lock. *)
THEOREM PInvHolds == Spec => []PInv
<1>1. Init => PInv
  <2> SUFFICES ASSUME Init PROVE PInv
    OBVIOUS
  <2>1. plugin = <<>> /\ packet = None
    BY DEF Init
  <2>2. IsInjective(plugin)
    BY <2>1 DEF IsInjective
  <2>3. startup \in Seq(Plugin \cup {"rules"})
    BY DEF Init, Plugin
  <2>4. plugin \in Seq(Plugin) /\ todo \in Seq(Plugin)
    BY DEF Init
  <2>5. rules \in {{}, BlockRules} /\ recv \in {"Up", "Down"} /\ packet \in Packet \cup {None}
    BY DEF Init
  <2>6. query \in [Query -> {"Idle", "WantPlugin", "WantData"}]
    BY DEF Init
  <2>7. blocked \in BOOLEAN /\ seen \subseteq Plugin
    BY DEF Init
  <2>8. PluginsTypeOK
    BY <2>2, <2>3, <2>4, <2>5, <2>6, <2>7 DEF PluginsTypeOK
  <2> QED
    BY <2>1, <2>8 DEF Init, PInv, CallsOnce, EveryPluginSeesEveryPacket, VerdictIsCurrent
<1>2. PInv /\ [Next]_vars => PInv'
  <2> SUFFICES ASSUME PInv, [Next]_vars PROVE PInv'
    OBVIOUS
  <2>1. CASE Next
    BY <2>1, add_pluginKeeps, set_block_rulesKeeps, RecvFromKeeps, InPacketKeeps,
       PacketLeaves, QueryKeeps DEF Next
  <2>2. CASE UNCHANGED vars
    <3>1. UNCHANGED <<plugin, rules, startup, recv, packet, todo, blocked, seen, query>>
      BY <2>2 DEF vars, mainVars, recvVars
    <3>2. IsBlocked(packet)' = IsBlocked(packet)
      BY <3>1 DEF IsBlocked, Hit
    <3> QED
      BY <3>1, <3>2 DEF PInv, PluginsTypeOK, CallsOnce, EveryPluginSeesEveryPacket,
                        VerdictIsCurrent
  <2> QED
    BY <2>1, <2>2
<1> QED
  BY <1>1, <1>2, PTL DEF Spec

(* Every plugin that is registered when a packet comes in is called for it, and
   once (server.rs, the loop in recv_task). *)
THEOREM EveryPluginSeesEveryPacketHolds == Spec => []EveryPluginSeesEveryPacket
  BY PInvHolds, PTL DEF PInv

(* The blocker's verdict on a packet is by the rules that are in force when the
   packet is dispatched (main.rs sets them under the lock of recv_task). *)
THEOREM VerdictIsCurrentHolds == Spec => []VerdictIsCurrent
  BY PInvHolds, PTL DEF PInv

(* Every step with the rooms is one of the plugins, or leaves these alone. *)
LEMMA RoomsStep ==
  ASSUME [RoomsNext]_allVars
  PROVE  [Next]_vars
<1>1. CASE RecvOther \/ \E c \in Client : RecvReply(c)
  <2>1. PICK p \in Packet : RecvFrom(p)
    BY <1>1 DEF RecvOther, RecvReply, Reply
  <2> QED
    BY <2>1 DEF Next
<1>2. CASE CallPlugin
  BY <1>2 DEF CallPlugin, Next
<1>3. CASE OtherStep
  BY <1>3 DEF OtherStep, Next
<1>4. CASE TimerStep
  BY <1>4 DEF TimerStep, ClearRooms, CopyAddresses, EndScan, SendScan, SendScanFails
<1>5. CASE \E c \in Client : Register(c) \/ Remove(c) \/ Answer(c) \/ NoAnswer(c)
  BY <1>5 DEF Register, Remove, Answer, NoAnswer
<1>6. CASE UNCHANGED allVars
  BY <1>6 DEF allVars
<1> QED
  BY <1>1, <1>2, <1>3, <1>4, <1>5, <1>6 DEF RoomsNext

(* The composition with the timer, the scan and the replies implements the
   plugins, so that what holds for these alone holds for them in it. *)
THEOREM RoomsImplementPlugins == RoomsSpec => Spec
<1>1. RoomsInit => Init
  BY DEF RoomsInit
<1>2. [RoomsNext]_allVars => [Next]_vars
  BY RoomsStep
<1> QED
  BY <1>1, <1>2, PTL DEF RoomsSpec, Spec

(* Inductive together with what holds for the plugins. *)
RInv == RoomsTypeOK /\ PInv /\ AnswersAreListed

LEMMA RoomsKeep ==
  ASSUME RInv, PInv', [RoomsNext]_allVars
  PROVE  RInv'
<1> USE DEF RInv, RoomsTypeOK, AnswersAreListed
<1>1. PluginsTypeOK'
  BY DEF PInv
<1>2. CASE CallPlugin
  <2>1. InsertRoom \subseteq Client
    <3>1. packet # None /\ packet \in Packet
      BY <1>2 DEF CallPlugin, InPacket, PInv, PluginsTypeOK
    <3> QED
      BY <3>1, RoomsAssumption DEF InsertRoom
  <2> QED
    BY <1>1, <1>2, <2>1 DEF CallPlugin, timerVars, netVars
<1>3. CASE RecvOther \/ OtherStep \/ UNCHANGED allVars
  BY <1>1, <1>3 DEF RecvOther, OtherStep, allVars, roomVars, timerVars, netVars
<1>4. CASE TimerStep
  BY <1>1, <1>4 DEF TimerStep, ClearRooms, CopyAddresses, EndScan, SendScan, SendScanFails,
                    timerVars, netVars
<1>5. ASSUME NEW c \in Client,
             Register(c) \/ Remove(c) \/ Answer(c) \/ NoAnswer(c) \/ RecvReply(c)
      PROVE  RInv'
  BY <1>1, <1>5 DEF Register, Remove, Answer, NoAnswer, RecvReply, timerVars, netVars
<1> QED
  BY <1>2, <1>3, <1>4, <1>5 DEF RoomsNext

(* The types of all of it; and no reply that was handled behind the clearing
   falls to it (plugin.rs, insert and the timer's task). *)
THEOREM RInvHolds == RoomsSpec => []RInv
<1>1. RoomsInit /\ PInv => RInv
  BY DEF RoomsInit, RInv, RoomsTypeOK, AnswersAreListed, PInv
<1>2. RInv /\ PInv' /\ [RoomsNext]_allVars => RInv'
  BY RoomsKeep
<1>3. RoomsSpec => []PInv
  BY RoomsImplementPlugins, PInvHolds, PTL
<1> QED
  BY <1>1, <1>2, <1>3, PTL DEF RoomsSpec

THEOREM RoomsTypeHolds == RoomsSpec => []RoomsTypeOK
  BY RInvHolds, PTL DEF RInv

THEOREM AnswersAreListedHolds == RoomsSpec => []AnswersAreListed
  BY RInvHolds, PTL DEF RInv
=============================================================================

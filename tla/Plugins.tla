------------------------------- MODULE Plugins -------------------------------
(****************************************************************************)
(* The plugins and their lock: recv_task calls every plugin in turn while   *)
(* it holds Inner (server.rs); main registers the plugins and sets the      *)
(* block rules under the same lock when packets are already arriving; the   *)
(* queries of the API get at a plugin through it (graphql/model.rs).  A     *)
(* critical section without an await in it is one step.                     *)
(****************************************************************************)
EXTENDS Naturals, Sequences, FiniteSets, Functions

CONSTANTS
  Packet,      \* what the plugins find in a datagram: [proto, port, room,
               \* uneven]; None where there is none to be found, uneven for
               \* the last fragment of a packet over which FragParser panics
  BlockRules,  \* the configured rules: [protocol, dst_port]
  Query,       \* requests that need a plugin
  None

Plugin == {"ldn_mitm", "traffic", "blocker"}

ASSUME PluginsAssumption == None \notin Packet

VARIABLES
  plugin,    \* the registered plugins, in the order in which values_mut goes
  rules,     \* BlockerPlugin::block_rules
  startup,   \* what main has still to do
  recv,      \* whether recv_task is running
  packet,    \* the packet whose plugins are being called, or None
  todo,      \* the plugins that have not yet been called for it
  blocked,   \* whether one of them has returned an error
  query,     \* where each query is
  seen       \* history: the plugins that have been called for packet

mainVars == <<plugin, rules, startup>>
recvVars == <<recv, packet, todo, blocked, seen>>
vars == <<mainVars, recvVars, query>>

PluginsTypeOK ==
  /\ plugin \in Seq(Plugin) /\ IsInjective(plugin)
  /\ rules \in {{}, BlockRules}
  /\ startup \in Seq(Plugin \cup {"rules"})
  /\ recv \in {"Up", "Down"}
  /\ packet \in Packet \cup {None}
  /\ todo \in Seq(Plugin)
  /\ blocked \in BOOLEAN
  /\ query \in [Query -> {"Idle", "WantPlugin", "WantData"}]
  /\ seen \subseteq Plugin

(* UDPServer::new has spawned recv_task, no plugin is registered. *)
Init ==
  /\ plugin = <<>> /\ rules = {}
  /\ startup = <<"ldn_mitm", "traffic", "blocker", "rules">>
  /\ recv = "Up"
  /\ packet = None /\ todo = <<>> /\ blocked = FALSE /\ seen = {}
  /\ query = [q \in Query |-> "Idle"]

(* recv_task holds the lock from the first plugin to the last. *)
InnerIsFree == packet = None

----------------------------------------------------------------------------
(* main *)

(* The HashMap may end up in any order. *)
add_plugin ==
  /\ InnerIsFree
  /\ startup # <<>> /\ Head(startup) \in Plugin
  /\ plugin' \in {s \in [1 .. Len(plugin) + 1 -> Range(plugin) \cup {Head(startup)}] :
                    IsInjective(s)}
  /\ startup' = Tail(startup)
  /\ UNCHANGED <<rules, recvVars, query>>

(* Fault: the rules are set without the lock. *)
set_block_rules_Unlocked ==
  /\ startup = <<"rules">>
  /\ rules' = BlockRules
  /\ startup' = <<>>
  /\ UNCHANGED <<plugin, recvVars, query>>

set_block_rules ==
  /\ InnerIsFree
  /\ startup = <<"rules">>
  /\ rules' = BlockRules
  /\ startup' = <<>>
  /\ UNCHANGED <<plugin, recvVars, query>>

----------------------------------------------------------------------------
(* recv_task *)

RecvFrom(p) ==
  /\ recv = "Up" /\ InnerIsFree
  /\ packet' = p
  /\ todo' = plugin /\ blocked' = FALSE /\ seen' = {}
  /\ UNCHANGED <<mainVars, recv, query>>

(* Rule::hit *)
Hit(rule, p) == p.proto = rule.protocol /\ p.port = rule.dst_port

(* The blocker's answer, by its rules of the moment. *)
IsBlocked(p) == \E r \in rules : Hit(r, p)

Called(p) ==
  /\ seen' = seen \cup {p}
  /\ blocked' = (blocked \/ (p = "blocker" /\ IsBlocked(packet)))
  /\ UNCHANGED <<mainVars, recv, packet, query>>

(* Fault: an error ends the loop over the plugins. *)
InPacket_Break ==
  /\ recv = "Up" /\ packet # None /\ todo # <<>>
  /\ Called(Head(todo))
  /\ todo' = IF blocked' THEN <<>> ELSE Tail(todo)

(* in_packet of the next plugin; after an error the loop continues with the
   plugin behind it. *)
InPacket ==
  /\ recv = "Up" /\ packet # None /\ todo # <<>>
  /\ Called(Head(todo))
  /\ todo' = Tail(todo)

(* Fault: the lock stays taken when its holder panics. *)
Panic_KeepsLock ==
  /\ recv = "Up" /\ packet # None /\ todo # <<>>
  /\ packet.uneven /\ Head(todo) \in {"ldn_mitm", "blocker"}
  /\ recv' = "Down"
  /\ UNCHANGED <<mainVars, packet, todo, blocked, seen, query>>

(* A plugin's FragParser panics, if it has the rest of the packet: that is the
   end of recv_task; unwinding releases the lock. *)
Panic ==
  /\ recv = "Up" /\ packet # None /\ todo # <<>>
  /\ packet.uneven /\ Head(todo) \in {"ldn_mitm", "blocker"}
  /\ recv' = "Down"
  /\ packet' = None /\ todo' = <<>> /\ blocked' = FALSE /\ seen' = {}
  /\ UNCHANGED <<mainVars, query>>

(* Fault: the lock is taken outside the loop over the packets. *)
Dispatch_Hoisted ==
  /\ recv = "Up" /\ packet # None /\ todo = <<>>
  /\ packet' \in Packet
  /\ todo' = plugin /\ blocked' = FALSE /\ seen' = {}
  /\ UNCHANGED <<mainVars, recv, query>>

(* The lock is released and the packet goes to its peer, whatever the plugins
   said. *)
Dispatch ==
  /\ recv = "Up" /\ packet # None /\ todo = <<>>
  /\ packet' = None /\ blocked' = FALSE /\ seen' = {}
  /\ UNCHANGED <<mainVars, recv, todo, query>>

----------------------------------------------------------------------------
(* A query: get_plugin gives the handle of what the plugin keeps, then that is
   read.  The API is served once main is through. *)
Ask(q) ==
  /\ startup = <<>> /\ query[q] = "Idle"
  /\ query' = [query EXCEPT ![q] = "WantPlugin"]
  /\ UNCHANGED <<mainVars, recvVars>>

get_plugin(q) ==
  /\ query[q] = "WantPlugin" /\ InnerIsFree
  /\ query' = [query EXCEPT ![q] = "WantData"]
  /\ UNCHANGED <<mainVars, recvVars>>

ReadData(q) ==
  /\ query[q] = "WantData"
  /\ query' = [query EXCEPT ![q] = "Idle"]
  /\ UNCHANGED <<mainVars, recvVars>>

Next ==
  \/ add_plugin \/ set_block_rules
  \/ (\E p \in Packet : RecvFrom(p)) \/ InPacket \/ Panic \/ Dispatch
  \/ \E q \in Query : Ask(q) \/ get_plugin(q) \/ ReadData(q)

Spec == Init /\ [][Next]_vars

(* The asynchronous lock serves its waiters in turn: nobody is passed over for
   ever by recv_task, which takes it again for every packet. *)
Fairness ==
  /\ SF_vars(add_plugin \/ set_block_rules)
  /\ WF_vars(InPacket \/ Panic \/ Dispatch)
  /\ \A q \in Query : SF_vars(get_plugin(q)) /\ WF_vars(ReadData(q))

FairSpec == Spec /\ Fairness

----------------------------------------------------------------------------
(* Every registered plugin is called for every packet, once, whatever the
   others return and in whatever order they come. *)
EveryPluginSeesEveryPacket ==
  packet # None => /\ seen \cup Range(todo) = Range(plugin)
                   /\ seen \cap Range(todo) = {}

(* The answer of the blocker that recv_task has when it is through with the
   plugins is by the rules of that moment, although main sets them meanwhile. *)
VerdictIsCurrent ==
  packet # None /\ "blocker" \in seen => blocked = IsBlocked(packet)

(* main gets through its startup and the rules come into force under any load. *)
RulesComeIntoForce == <>[](rules = BlockRules)

(* Every query is answered under any load, and also if recv_task has died with
   the lock in its hands. *)
QueryIsAnswered == \A q \in Query : query[q] # "Idle" ~> query[q] = "Idle"

(* Stated by the option's doc ("Block rules"): a packet that a rule hits does
   not get to its peer. *)
BlockedIsDropped == [][Dispatch => ~blocked]_vars
=============================================================================

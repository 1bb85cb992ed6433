-------------------------------- MODULE Rooms --------------------------------
(****************************************************************************)
(* The rooms that ldn_mitm lists (plugin.rs): every five seconds a timer    *)
(* forgets them and scans, that is, send_broadcast (peer_manager.rs) copies *)
(* the addresses of the registered clients and sends to one after the       *)
(* other; what a client answers comes in through recv_task and the plugins  *)
(* (module Plugins, whose steps are steps of this one).  room_info has a    *)
(* lock of its own, never held over an await.                               *)
(****************************************************************************)
EXTENDS Plugins

CONSTANT Client   \* those that may register; a room is named by its host

Reply(c) == {p \in Packet : p.room = c}

ASSUME RoomsAssumption ==
  /\ \A p \in Packet : p.room \in Client \cup {None}
  /\ None \notin Client

VARIABLES
  cached,    \* the clients registered with PeerManager
  rooms,     \* the keys of room_info
  timer,     \* where the timer's task is
  unsent,    \* the addresses the broadcast has still to go to
  scans,     \* clients that a scan is on its way to
  replies,   \* hosts whose reply is on its way
  answered   \* history: hosts whose reply has been handled since the timer fired

timerVars == <<timer, unsent>>
netVars == <<scans, replies>>
roomVars == <<cached, rooms, timerVars, netVars, answered>>

RoomsTypeOK ==
  /\ PluginsTypeOK
  /\ cached \subseteq Client /\ rooms \subseteq Client
  /\ timer \in {"Waiting", "Cleared", "Sending"}
  /\ unsent \subseteq Client
  /\ scans \subseteq Client /\ replies \subseteq Client
  /\ answered \subseteq Client

RoomsInit ==
  /\ Init
  /\ cached = {} /\ rooms = {}
  /\ timer = "Waiting" /\ unsent = {}
  /\ scans = {} /\ replies = {} /\ answered = {}

----------------------------------------------------------------------------
(* Clients come and go, as module Relay has it. *)
Register(c) ==
  /\ cached' = cached \cup {c}
  /\ UNCHANGED <<vars, rooms, timerVars, netVars, answered>>

Remove(c) ==
  /\ cached' = cached \ {c}
  /\ UNCHANGED <<vars, rooms, timerVars, netVars, answered>>

----------------------------------------------------------------------------
(* The timer's task, which LdnMitmPlugin::new spawns before the plugin is
   registered. *)

(* Fault: the timer only scans. *)
ClearRooms_ScanOnly ==
  /\ timer = "Waiting"
  /\ timer' = "Cleared"
  /\ answered' = {}
  /\ UNCHANGED <<vars, cached, rooms, unsent, netVars>>

ClearRooms ==
  /\ timer = "Waiting"
  /\ timer' = "Cleared"
  /\ rooms' = {} /\ answered' = {}
  /\ UNCHANGED <<vars, cached, unsent, netVars>>

CopyAddresses ==
  /\ timer = "Cleared"
  /\ timer' = "Sending"
  /\ unsent' = cached
  /\ UNCHANGED <<vars, cached, rooms, netVars, answered>>

SendScan(c) ==
  /\ timer = "Sending" /\ c \in unsent
  /\ unsent' = unsent \ {c}
  /\ scans' = scans \cup {c}
  /\ UNCHANGED <<vars, cached, rooms, timer, replies, answered>>

(* Fault: an error ends the broadcast. *)
SendScanFails_GivesUp(c) ==
  /\ timer = "Sending" /\ c \in unsent
  /\ unsent' = {}
  /\ UNCHANGED <<vars, cached, rooms, timer, netVars, answered>>

(* send_to fails, which is ignored, or the network loses the scan. *)
SendScanFails(c) ==
  /\ timer = "Sending" /\ c \in unsent
  /\ unsent' = unsent \ {c}
  /\ UNCHANGED <<vars, cached, rooms, timer, netVars, answered>>

(* Fault: the rooms are cleared behind the scan. *)
EndScan_Clears ==
  /\ timer = "Sending" /\ unsent = {}
  /\ timer' = "Waiting"
  /\ rooms' = {}
  /\ UNCHANGED <<vars, cached, unsent, netVars, answered>>

EndScan ==
  /\ timer = "Sending" /\ unsent = {}
  /\ timer' = "Waiting"
  /\ UNCHANGED <<vars, cached, rooms, unsent, netVars, answered>>

----------------------------------------------------------------------------
(* A client that a scan reaches answers if it hosts a room, or does not; or
   its answer is lost. *)
Answer(c) ==
  /\ c \in scans
  /\ Reply(c) # {}
  /\ scans' = scans \ {c}
  /\ replies' = replies \cup {c}
  /\ UNCHANGED <<vars, cached, rooms, timerVars, answered>>

NoAnswer(c) ==
  /\ c \in scans
  /\ scans' = scans \ {c}
  /\ UNCHANGED <<vars, cached, rooms, timerVars, replies, answered>>

RecvReply(c) ==
  /\ c \in replies
  /\ \E p \in Reply(c) : RecvFrom(p)
  /\ replies' = replies \ {c}
  /\ UNCHANGED <<cached, rooms, timerVars, scans, answered>>

RecvOther ==
  /\ \E p \in Packet : p.room = None /\ RecvFrom(p)
  /\ UNCHANGED roomVars

----------------------------------------------------------------------------
(* Fault: what the packet holds is not checked. *)
InsertRoom_Unchecked ==
  IF todo # <<>> /\ Head(todo) = "ldn_mitm" THEN {packet.room} ELSE {}

(* ldn_mitm, when it is called, lists what describes a room. *)
InsertRoom ==
  IF todo # <<>> /\ Head(todo) = "ldn_mitm" THEN {packet.room} \ {None} ELSE {}

CallPlugin ==
  /\ InPacket
  /\ rooms' = rooms \cup InsertRoom
  /\ answered' = answered \cup InsertRoom
  /\ UNCHANGED <<cached, timerVars, netVars>>

OtherStep ==
  /\ \/ add_plugin \/ set_block_rules \/ Panic \/ Dispatch
     \/ \E q \in Query : Ask(q) \/ get_plugin(q) \/ ReadData(q)
  /\ UNCHANGED roomVars

TimerStep ==
  ClearRooms \/ CopyAddresses \/ EndScan \/ \E c \in Client : SendScan(c) \/ SendScanFails(c)

RoomsNext ==
  \/ RecvOther \/ CallPlugin \/ OtherStep
  \/ TimerStep
  \/ \E c \in Client : Register(c) \/ Remove(c) \/ Answer(c) \/ NoAnswer(c) \/ RecvReply(c)

allVars == <<vars, roomVars>>

RoomsSpec ==
  RoomsInit /\ [][RoomsNext]_allVars /\ Fairness /\ WF_allVars(TimerStep)

----------------------------------------------------------------------------
(* Who has answered since the timer fired is listed: the rooms are cleared
   before the scan is sent, so that no reply to it is forgotten with them. *)
AnswersAreListed == answered \subseteq rooms

(* A room whose host answers no more is not listed for good. *)
ClosedRoomIsForgotten ==
  \A c \in Client : <>[](c \notin replies) => <>[](c \notin rooms)

(* Where the sends to a client do not fail and its answers get through again
   and again, and nothing ends recv_task, its room is listed again and again as
   long as it stays registered, whatever clients come and go in the middle of
   a broadcast and whichever sends to them fail. *)
GetsThrough(c) ==
  /\ <>[][unsent \ unsent' = {c} => c \in scans']_allVars
  /\ SF_allVars(Answer(c))
  /\ SF_allVars(RecvReply(c))

OpenRoomIsListed ==
  \A c \in Client :
    Reply(c) # {} /\ [](recv = "Up") /\ <>[](c \in cached) /\ GetsThrough(c)
      => []<>(c \in rooms)
=============================================================================

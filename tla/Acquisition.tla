----------------------------- MODULE Acquisition -----------------------------
(***************************************************************************)
(* Device and gateway together: the device (BurstSource), the two          *)
(* directions of the link, the gateway's device task (DeviceManager), its  *)
(* event loop (data-gateway/src/main.rs) and the data processor            *)
(* (BurstProcessor).  The tasks are connected by queues only, so every     *)
(* mode command races with the burst that is on its way.                   *)
(***************************************************************************)
EXTENDS Naturals, Sequences, FiniteSets

CONSTANTS
  Channels, PacketCounts,   (* of the device                                 *)
  MaxCachedBursts,          (* of the processor                              *)
  None,                     (* an Option without a value                     *)
  Posted,                   (* the commands users may post                   *)
  Lossy,                    (* TRUE iff a frame may vanish while link is up  *)
  MaxBursts,                (* bound: bursts the device sends                *)
  MaxCommands,              (* bound: commands posted                        *)
  MaxStream,                (* bound: packets of the continuous stream       *)
  MaxBreaks,                (* bound: times the link breaks                  *)
  LinkCapacity,             (* bound: frames on the link, commands on it     *)
  EventCapacity             (* bound: events waiting for the event loop      *)

ASSUME NoneIsNoNumber == None \notin Nat
ASSUME DeviceAssumption == PacketCounts \subseteq Nat \ {0}
ASSUME CacheAssumption  == MaxCachedBursts \in Nat \ {0}
ASSUME BoundsAssumption ==
  /\ MaxBursts \in Nat \ {0} /\ MaxCommands \in Nat /\ MaxStream \in Nat
  /\ MaxBreaks \in Nat /\ LinkCapacity \in Nat /\ EventCapacity \in Nat
  /\ Lossy \in BOOLEAN

VARIABLES
  mode, status, channels, armed, occurred, sending, timestamp,
  packets_to_send, packets_sent, last,               (* the device           *)
  link, out,                                         (* the link, upwards    *)
  connected, trigger_active, current_trigger,
  command_rx, down, events,                          (* the device task      *)
  current_trigger_timestamp, trigger_burst_sequence,
  current_trigger_burst, completed_trigger_bursts,   (* the processor        *)
  device_up,      (* the connection status shown to users                    *)
  posted, streamed, breaks,                          (* counters for bounds  *)
  disturbed,      (* history: bursts that met a mode command, lost a frame,  *)
                  (* had a packet without channels, or began while the      *)
                  (* gateway believed in the other mode                     *)
  closings        (* history: what each completed burst held when it closed  *)

deviceVars  == <<mode, status, channels, armed, occurred, sending, timestamp,
                 packets_to_send, packets_sent, last>>
managerVars == <<connected, trigger_active, current_trigger, command_rx, down, events>>
procVars    == <<current_trigger_timestamp, trigger_burst_sequence,
                 current_trigger_burst, completed_trigger_bursts>>
boundVars   == <<posted, streamed, breaks>>
vars        == <<deviceVars, link, out, managerVars, procVars, device_up, boundVars,
                 disturbed, closings>>

Stamps     == 1..MaxBursts
PacketTags == [of : Stamps \cup {0}, n : Nat]

Dev  == INSTANCE BurstSource    WITH StampMod <- MaxBursts
Mgr  == INSTANCE DeviceManager  WITH NoTrigger <- None
Proc == INSTANCE BurstProcessor WITH Tags <- PacketTags

ASSUME PostedAssumption == Posted \subseteq Mgr!DeviceCommands
ASSUME NoneIsNoBurst    == None \notin Proc!Burst

-----------------------------------------------------------------------------
(* Bursts the device has started that have not been closed at the gateway.    *)
UnderWay == (1..timestamp) \ {c.burst : c \in closings}

IsModeFrame(f) == f.name \in {"SET_MODE_CONTINUOUS", "SET_MODE_TRIGGER"}
ModeCommandOnLink == \E i \in 1..Len(down) : IsModeFrame(down[i])

-----------------------------------------------------------------------------
(* The device.                                                               *)

(* Fewer than n of the n frames just produced have reached the link.          *)
LostOf(n) == Len(out') < Len(out) + n

Disturbs(condition, t) == disturbed' = IF condition THEN disturbed \cup {t} ELSE disturbed

DeviceReads ==
  /\ link /\ down # <<>>
  /\ Len(out) < LinkCapacity
  /\ Dev!Command(Head(down))
  /\ down' = Tail(down)
  /\ UNCHANGED <<connected, trigger_active, current_trigger, command_rx, events,
                 procVars, device_up, boundVars, disturbed, closings>>

DeviceFires ==
  /\ timestamp < MaxBursts
  /\ \E sendDue \in BOOLEAN, count \in PacketCounts :
       /\ Dev!Fire(sendDue, count)
       /\ Disturbs(\/ LostOf(Len(Dev!FireFrames(sendDue))) \/ channels = {}
                   \/ ModeCommandOnLink \/ ~trigger_active,
                   timestamp')
  /\ UNCHANGED streamed

DeviceSendsPacket ==
  /\ Dev!BurstPacket
  /\ Disturbs(LostOf(1) \/ channels = {}, timestamp)
  /\ UNCHANGED streamed

DeviceCompletes ==
  /\ Dev!BurstComplete
  /\ Disturbs(LostOf(1), timestamp)
  /\ UNCHANGED streamed

DeviceStreams ==
  /\ streamed < MaxStream
  /\ Dev!StreamPacket
  /\ streamed' = streamed + 1
  /\ UNCHANGED disturbed

DeviceProduces ==
  /\ Len(out) < LinkCapacity
  /\ \/ DeviceFires
     \/ DeviceSendsPacket
     \/ DeviceCompletes
     \/ DeviceStreams
  /\ UNCHANGED <<managerVars, procVars, device_up, posted, breaks, closings>>

-----------------------------------------------------------------------------
(* The link.  When it breaks, the commands and a suffix of the frames it      *)
(* carried are lost, and the gateway can still read the rest.  The device    *)
(* does not notice: its main loop prints the error and goes on.              *)
Break ==
  /\ link /\ breaks < MaxBreaks
  /\ link' = FALSE
  /\ \E n \in 0..Len(out) : out' = SubSeq(out, 1, n)
  /\ down' = <<>>
  /\ breaks' = breaks + 1
  /\ disturbed' = disturbed \cup UnderWay
  /\ UNCHANGED <<deviceVars, connected, trigger_active, current_trigger, command_rx, events,
                 procVars, device_up, posted, streamed, closings>>

-----------------------------------------------------------------------------
(* The device task of the gateway.                                           *)

(* Frames the device sent before the link was opened are not received.        *)
ManagerConnects ==
  /\ Mgr!Connect
  /\ Len(events) < EventCapacity
  /\ link' = TRUE
  /\ UNCHANGED <<deviceVars, out, procVars, device_up, boundVars, disturbed, closings>>

ManagerLosesConnection ==
  /\ ~link /\ out = <<>>
  /\ Len(events) < EventCapacity
  /\ Mgr!ReadError
  /\ UNCHANGED <<deviceVars, link, out, procVars, device_up, boundVars, disturbed, closings>>

ManagerSendsCommand ==
  /\ Len(down) < LinkCapacity
  /\ Mgr!HandleCommand(Channels, link)
  /\ disturbed' = IF Head(command_rx) \in {"SetModeContinuous", "SetModeTrigger"}
                    THEN disturbed \cup UnderWay ELSE disturbed
  /\ UNCHANGED <<deviceVars, link, out, procVars, device_up, boundVars, closings>>

ManagerPings ==
  /\ link /\ down = <<>>
  /\ Mgr!KeepAlive
  /\ UNCHANGED <<deviceVars, link, out, procVars, device_up, boundVars, disturbed, closings>>

ManagerReads ==
  /\ out # <<>>
  /\ Len(events) < EventCapacity
  /\ Mgr!HandleFrame(Head(out))
  /\ out' = Tail(out)
  /\ UNCHANGED <<deviceVars, link, procVars, device_up, boundVars, disturbed, closings>>

-----------------------------------------------------------------------------
(* The event loop of main.rs.  The watch channel with the connection status   *)
(* is set by every event that proves the device alive.                       *)

NextEvent(kind) == Head(events).kind = kind

OnConnected ==
  /\ NextEvent("Connected")
  /\ Proc!ResetTriggerState
  /\ device_up' = TRUE
  /\ UNCHANGED closings

(* Mutant: the status is left as it is.                                      *)
OnDisconnectedKeepsStatus ==
  /\ NextEvent("Disconnected")
  /\ UNCHANGED <<procVars, device_up, closings>>

OnDisconnected ==
  /\ NextEvent("Disconnected")
  /\ device_up' = FALSE
  /\ UNCHANGED <<procVars, closings>>

OnTriggerEvent ==
  /\ NextEvent("TriggerEvent")
  /\ LET ts == Head(events).timestamp IN Proc!StartTriggerBurst(ts, ts, ts)
  /\ UNCHANGED <<device_up, closings>>

(* The packet as process_packet sees it: no channel makes it invalid.         *)
Packet(e) ==
  LET f == e.frame
      common == [valid |-> f.mask # {}, source |-> e.source, tag |-> [of |-> f.of, n |-> f.n]]
  IN  IF e.source = "Trigger"
        THEN [valid |-> common.valid, source |-> "Trigger", tag |-> common.tag,
              trigger_timestamp |-> e.trigger_timestamp]
        ELSE common

OnDataPacket ==
  /\ NextEvent("DataPacket")
  /\ Proc!ProcessPacket(Packet(Head(events)))
  /\ device_up' = TRUE
  /\ UNCHANGED closings

Closing(burst, f) ==
  [burst |-> burst.trigger_timestamp, by |-> f.of, n |-> f.n, got |-> burst.data_packets]

OnTransferComplete ==
  /\ NextEvent("BufferTransferComplete")
  /\ Proc!CompleteTriggerBurst
  /\ closings' = closings \cup {Closing(current_trigger_burst, Head(events).frame)}
  /\ UNCHANGED device_up

OnTransferCompleteUnexpected ==
  /\ NextEvent("BufferTransferComplete")
  /\ Proc!CompleteNothing
  /\ UNCHANGED <<device_up, closings>>

OnStatusUpdate ==
  /\ NextEvent("StatusUpdate")
  /\ device_up' = TRUE
  /\ UNCHANGED <<procVars, closings>>

EventLoop ==
  /\ events # <<>>
  /\ events' = Tail(events)
  /\ \/ OnConnected
     \/ OnDisconnected
     \/ OnTriggerEvent
     \/ OnDataPacket
     \/ OnTransferComplete
     \/ OnTransferCompleteUnexpected
     \/ OnStatusUpdate
  /\ UNCHANGED <<deviceVars, link, out, connected, trigger_active, current_trigger,
                 command_rx, down, boundVars, disturbed>>

-----------------------------------------------------------------------------
(* The web server: post a command, delete a cached burst.                     *)

UserPosts ==
  /\ posted < MaxCommands
  /\ posted' = posted + 1
  /\ \E c \in Posted : command_rx' = Append(command_rx, c)
  /\ UNCHANGED <<deviceVars, link, out, connected, trigger_active, current_trigger, down,
                 events, procVars, device_up, streamed, breaks, disturbed, closings>>

UserDeletes ==
  /\ \E id \in DOMAIN completed_trigger_bursts : Proc!RemoveTriggerBurst(id)
  /\ UNCHANGED <<deviceVars, link, out, managerVars, device_up, boundVars, disturbed, closings>>

-----------------------------------------------------------------------------
Init ==
  /\ Dev!AppInit /\ link = FALSE /\ out = <<>>
  /\ Mgr!ManagerInit
  /\ Proc!ProcInit
  /\ device_up = FALSE
  /\ posted = 0 /\ streamed = 0 /\ breaks = 0
  /\ disturbed = {} /\ closings = {}

Manager ==
  \/ ManagerConnects
  \/ ManagerLosesConnection
  \/ ManagerSendsCommand
  \/ ManagerPings
  \/ ManagerReads

Next ==
  \/ DeviceReads
  \/ DeviceProduces
  \/ Break
  \/ Manager
  \/ EventLoop
  \/ UserPosts
  \/ UserDeletes

Spec == Init /\ [][Next]_vars

(* The tasks of the gateway keep running and the select! of the device task   *)
(* picks a ready branch at random, so reading is not starved by commands.    *)
FairSpec ==
  /\ Spec
  /\ WF_vars(ManagerConnects) /\ WF_vars(ManagerLosesConnection)
  /\ WF_vars(ManagerReads) /\ WF_vars(EventLoop)

-----------------------------------------------------------------------------
TypeOK ==
  /\ Dev!TypeOK
  /\ connected \in BOOLEAN /\ trigger_active \in BOOLEAN
  /\ current_trigger \in Stamps \cup {None}
  /\ Proc!ProcTypeOK
  /\ device_up \in BOOLEAN
  /\ disturbed \subseteq Stamps

(* Every packet stored in a burst was labelled with that burst's trigger: the *)
(* device task labels with the trigger it saw last, the processor adds to    *)
(* whatever burst is open, and the two agree although the event channel lies *)
(* between them (device_communication.rs:522-529, data_processing.rs:248).   *)
(* The label is right, too: the device sent the packet in this burst.  A mode *)
(* command on its way may let packets of the stream (of 0) in between, and    *)
(* on a link that loses single frames a burst whose event was lost leaves its *)
(* packets to the one before; nothing else does, not even a link that breaks  *)
(* in one burst and returns in another.                                      *)
OwnPacket(p, t) ==
  /\ p.trigger_timestamp = t
  /\ p.tag.of \in {t, 0} \/ (Lossy /\ p.tag.of \in disturbed)

BurstPacketsMatchTrigger ==
  /\ current_trigger_burst # None =>
       \A i \in DOMAIN current_trigger_burst.data_packets :
         OwnPacket(current_trigger_burst.data_packets[i], current_trigger_burst.trigger_timestamp)
  /\ \A c \in closings : \A i \in DOMAIN c.got : OwnPacket(c.got[i], c.burst)

(* The packets of a burst are numbered 1, 2, 3...: nothing that happens while *)
(* it is open makes the numbering restart or skip (data_processing.rs:       *)
(* 201-222).                                                                 *)
NumberingMatchesPosition ==
  /\ current_trigger_burst # None =>
       \A i \in DOMAIN current_trigger_burst.data_packets :
         current_trigger_burst.data_packets[i].sequence_in_burst = i
  /\ \A c \in closings : \A i \in DOMAIN c.got : c.got[i].sequence_in_burst = i

(* A burst is closed only by its own completion signal, although the signal   *)
(* carries no identification (device_communication.rs:569-577).              *)
ClosedByOwnSignal == \A c \in closings : c.by = c.burst

(* What the gateway holds is the whole burst, packet by packet, in order.     *)
Whole(c) ==
  /\ Len(c.got) = c.n
  /\ \A i \in 1..c.n : c.got[i].tag = [of |-> c.burst, n |-> i]

(* A burst that met no mode command, no broken link and no disabled channels  *)
(* on its way is complete when it is closed.                                 *)
UndisturbedBurstWhole == \A c \in closings : c.burst \notin disturbed => Whole(c)

(* protocol_doc.md:332: the completion signal "marks the end of the data      *)
(* transfer of a complete trigger burst"; 527: "the completion signal        *)
(* ensures the data is complete".  Any burst the gateway has closed is then   *)
(* whole.                                                                    *)
CompletedBurstWhole == \A c \in closings : Whole(c)

(* As long as the link has not broken, the gateway and the device agree on    *)
(* the mode whenever no command is on its way, although the gateway changes  *)
(* its side when it writes the command and never looks at the answer         *)
(* (device_communication.rs:428-434, app.c:202-221).                         *)
ModesAgree == breaks = 0 /\ down = <<>> => trigger_active = (mode = "TRIGGER")

(* data_processing.rs:614 says of reset_trigger_state that it is "called on   *)
(* mode switches": a switch of the gateway's mode then leaves no open burst   *)
(* behind.                                                                   *)
ResetOnModeSwitch ==
  [][trigger_active' # trigger_active => current_trigger_burst' = None]_vars

(* The connection status users see settles on the truth: once every event has *)
(* been handled it says whether the device task holds a connection           *)
(* (main.rs:87-99, 117, 190).                                                *)
StatusSettles == events = <<>> => device_up = connected

(* A burst the device has completed reaches the cache, unless something       *)
(* disturbs it on the way.                                                   *)
FinishedBurstArrives ==
  \A t \in Stamps :
    last.cmd = "BUFFER_TRANSFER_COMPLETE" /\ timestamp = t /\ last.of = t
      ~> t \in disturbed \cup {c.burst : c \in closings}

=============================================================================

-------------------------- MODULE AcquisitionProofs --------------------------
(***************************************************************************)
(* Proofs about Acquisition for any number of bursts, commands, breaks and *)
(* queued frames, and any set of commands users may post.                  *)
(*                                                                         *)
(* First types, status, modes, and which packets a burst holds.  Then what *)
(* a closed burst holds: the events the gateway has not handled and the    *)
(* frames it has not read are looked at as one pipe, from the device to    *)
(* the processor, in which a frame keeps its place when it moves from the  *)
(* link to the event channel.  OwnSignals says which signal closes a burst, *)
(* Undisturbed that a burst which nothing disturbs goes through it whole.  *)
(***************************************************************************)
EXTENDS Acquisition, SequenceOrder, FiniteSetTheorems

(* What travels between the tasks.                                         *)
DataFrames     == [cmd : {"DATA_PACKET"}, of : Stamps \cup {0}, n : Nat, mask : SUBSET Channels]
CompleteFrames == [cmd : {"BUFFER_TRANSFER_COMPLETE"}, of : Stamps \cup {0}, n : Nat]
CommandFrames  == {Mgr!CommandFrame(c, Channels) : c \in Mgr!DeviceCommands}

TriggerEvents     == [kind : {"TriggerEvent"}, timestamp : Stamps]
LabelledPackets   == [kind : {"DataPacket"}, source : {"Trigger"}, trigger_timestamp : Stamps,
                      frame : DataFrames]
ContinuousPackets == [kind : {"DataPacket"}, source : {"Continuous"}, frame : DataFrames]
Completions       == [kind : {"BufferTransferComplete"}, frame : CompleteFrames]
StatusReports     == [kind : {"Connected", "Disconnected", "StatusUpdate"}]

Event == TriggerEvents \cup LabelledPackets \cup ContinuousPackets \cup Completions
           \cup StatusReports

ClosingRecords == [burst : Stamps, by : Stamps \cup {0}, n : Nat, got : Seq(Proc!StoredPacket)]

(* The type invariant, completed by the contents of the queues and by what *)
(* the types of the modules leave open.                                    *)
DeviceTypes ==
  /\ Dev!AppTypeOK
  /\ sending => timestamp \in Stamps

ManagerTypes ==
  /\ connected \in BOOLEAN /\ trigger_active \in BOOLEAN
  /\ current_trigger \in Stamps \cup {None}

QueueTypes ==
  /\ link \in BOOLEAN /\ out \in Seq(Dev!Frame)
  /\ events \in Seq(Event)
  /\ down \in Seq(CommandFrames)
  /\ command_rx \in Seq(Mgr!DeviceCommands)

ProcessorTypes ==
  /\ Proc!ProcTypeOK
  /\ current_trigger_timestamp \in Stamps \cup {None}
  /\ current_trigger_burst # None => current_trigger_burst.trigger_timestamp \in Stamps

HistoryTypes ==
  /\ device_up \in BOOLEAN
  /\ disturbed \subseteq Stamps
  /\ closings \subseteq ClosingRecords
  /\ breaks \in Nat

Types == DeviceTypes /\ ManagerTypes /\ QueueTypes /\ ProcessorTypes /\ HistoryTypes

-----------------------------------------------------------------------------
(* Facts about the operators.                                              *)

(* The frames the device builds.                                           *)
LEMMA FramesAreFrames ==
  ASSUME Dev!AppTypeOK
  PROVE  /\ \A c : Dev!ReplyTo(c) \in Dev!Frame
         /\ \A t \in Stamps : Dev!EventFrame(t) \in Dev!StreamFrame
         /\ \A t \in Stamps \cup {0}, n \in Nat : Dev!DataFrame(t, n) \in Dev!StreamFrame
         /\ \A t \in Stamps \cup {0} : Dev!CompleteFrame(t) \in Dev!StreamFrame
         /\ Dev!StreamFrame \subseteq Dev!Frame
         /\ timestamp \in Stamps \cup {0} /\ timestamp \in Nat
<1>1. \A c : Dev!ReplyTo(c) \in Dev!Frame
  BY DEF Dev!ReplyTo, Dev!ReplyFrame, Dev!Frame, Dev!Replies
<1>2. timestamp \in Nat /\ timestamp \in Stamps \cup {0}
  BY BoundsAssumption DEF Dev!AppTypeOK, Stamps
<1>3. QED
  BY <1>1, <1>2 DEF Dev!EventFrame, Dev!DataFrame, Dev!CompleteFrame, Dev!StreamFrame,
                    Dev!Frame, Dev!AppTypeOK, Dev!Stamps, Stamps

(* Below the bound on bursts the next stamp is the successor of the last one. *)
LEMMA NextStampIsNew ==
  ASSUME Dev!AppTypeOK, timestamp < MaxBursts
  PROVE  Dev!NextStamp = timestamp + 1 /\ Dev!NextStamp \in Stamps
BY BoundsAssumption DEF Dev!AppTypeOK, Dev!NextStamp, Stamps

(* A command is one of the handlers' business.                             *)
LEMMA HandleCommandType ==
  ASSUME Dev!AppTypeOK, NEW c, Dev!HandleCommand(c)
  PROVE  Dev!AppTypeOK' /\ timestamp' = timestamp /\ last' = last /\ (sending' => sending)
<1> USE DEF Dev!AppTypeOK, Dev!StreamFrame, Dev!Stamps
<1>1. CASE Dev!AnswerOnly(c)        BY <1>1 DEF Dev!AnswerOnly, Dev!appVars, Dev!trigger
<1>2. CASE Dev!SetModeContinuous(c) BY <1>2 DEF Dev!SetModeContinuous
<1>3. CASE Dev!SetModeTrigger(c)    BY <1>3 DEF Dev!SetModeTrigger
<1>4. CASE Dev!StartStream(c)       BY <1>4 DEF Dev!StartStream, Dev!trigger
<1>5. CASE Dev!StopStream(c)        BY <1>5 DEF Dev!StopStream
<1>6. CASE Dev!ConfigureStream(c)   BY <1>6 DEF Dev!ConfigureStream, Dev!trigger
<1>7. QED BY <1>1, <1>2, <1>3, <1>4, <1>5, <1>6 DEF Dev!HandleCommand

(* The device keeps its types whatever it produces.                        *)
LEMMA ProduceType ==
  ASSUME Types, DeviceProduces
  PROVE  Dev!AppTypeOK' /\ timestamp' \in Stamps \cup {0}
<1>0. Dev!AppTypeOK BY DEF Types, DeviceTypes
<1>1. /\ \A t \in Stamps : Dev!EventFrame(t) \in Dev!StreamFrame
      /\ \A t \in Stamps \cup {0}, n \in Nat : Dev!DataFrame(t, n) \in Dev!StreamFrame
      /\ \A t \in Stamps \cup {0} : Dev!CompleteFrame(t) \in Dev!StreamFrame
      /\ timestamp \in Stamps \cup {0} /\ timestamp \in Nat
  BY <1>0, FramesAreFrames
<1>2. Dev!StreamFrame' = Dev!StreamFrame BY DEF Dev!StreamFrame, Dev!Stamps
<1>3. \A t \in Stamps : t \in 0..MaxBursts BY BoundsAssumption DEF Stamps
<1>4. CASE DeviceFires
  <2>1. PICK due \in BOOLEAN, count \in PacketCounts : Dev!FireEvent(due, count)
    BY <1>4 DEF DeviceFires, Dev!Fire
  <2>2. Dev!NextStamp \in Stamps BY <1>0, <1>4, NextStampIsNew DEF DeviceFires
  <2>3. /\ Len(Dev!FireFrames(due)) - 1 \in Nat
        /\ Dev!FireFrames(due)[Len(Dev!FireFrames(due))] \in Dev!StreamFrame
    BY <1>1, <2>2 DEF Dev!FireFrames
  <2>4. QED
    BY <1>0, <1>1, <1>2, <1>3, <2>1, <2>2, <2>3, DeviceAssumption
    DEF Dev!FireEvent, Dev!AppTypeOK
<1>5. CASE DeviceSendsPacket
  BY <1>0, <1>1, <1>2, <1>5
  DEF DeviceSendsPacket, Dev!BurstPacket, Dev!SendBurstPacket, Dev!BurstFrame, Dev!AppTypeOK
<1>6. CASE DeviceCompletes
  BY <1>0, <1>1, <1>2, <1>6
  DEF DeviceCompletes, Dev!BurstComplete, Dev!CompleteBurst, Dev!AppTypeOK
<1>7. CASE DeviceStreams
  BY <1>0, <1>1, <1>2, <1>7
  DEF DeviceStreams, Dev!StreamPacket, Dev!SendStreamPacket, Dev!trigger, Dev!AppTypeOK
<1>8. QED BY <1>4, <1>5, <1>6, <1>7 DEF DeviceProduces

-----------------------------------------------------------------------------
(* Type correctness.                                                       *)

(* What the device puts on the link are frames.                            *)
LEMMA EmitType ==
  ASSUME out \in Seq(Dev!Frame), NEW f \in Dev!Frame, Dev!Emit(f)
  PROVE  out' \in Seq(Dev!Frame)
BY DEF Dev!Emit

LEMMA ProduceOutType ==
  ASSUME Types, DeviceProduces
  PROVE  out' \in Seq(Dev!Frame)
<1>0. Dev!AppTypeOK /\ out \in Seq(Dev!Frame) BY DEF Types, DeviceTypes, QueueTypes
<1>1. /\ \A t \in Stamps : Dev!EventFrame(t) \in Dev!Frame
      /\ \A t \in Stamps \cup {0}, n \in Nat : Dev!DataFrame(t, n) \in Dev!Frame
      /\ Dev!CompleteFrame(timestamp) \in Dev!Frame
      /\ timestamp \in Stamps \cup {0}
  BY <1>0, FramesAreFrames
<1>2. CASE DeviceFires
  <2>1. PICK due \in BOOLEAN, count \in PacketCounts : Dev!Fire(due, count)
    BY <1>2 DEF DeviceFires
  <2> DEFINE e == Dev!EventFrame(Dev!NextStamp)
             d == Dev!DataFrame(Dev!NextStamp, 1)
  <2>2. e \in Dev!Frame /\ d \in Dev!Frame
    BY <1>0, <1>1, <1>2, NextStampIsNew DEF DeviceFires
  <2>3. Dev!EmitAll(Dev!FireFrames(due)) BY <2>1 DEF Dev!Fire
  <2>4. CASE due
    <3>1. Dev!FireFrames(due) = <<e, d>> BY <2>4 DEF Dev!FireFrames
    <3> HIDE DEF e, d
    <3>2. out' \in {out, Append(out, e), Append(out, d), Append(Append(out, e), d)}
      BY <2>3, <3>1 DEF Dev!EmitAll
    <3>3. QED BY <1>0, <2>2, <3>2
  <2>5. CASE ~due
    <3>1. Dev!FireFrames(due) = <<e>> BY <2>5 DEF Dev!FireFrames
    <3> HIDE DEF e, d
    <3>2. Dev!Emit(e) BY <2>3, <3>1 DEF Dev!EmitAll
    <3>3. QED BY <1>0, <2>2, <3>2, EmitType
  <2>6. QED BY <2>4, <2>5
<1>3. CASE DeviceSendsPacket
  <2>1. Dev!BurstFrame \in Dev!Frame BY <1>0, <1>1 DEF Dev!BurstFrame, Dev!AppTypeOK
  <2>2. QED BY <1>0, <1>3, <2>1, EmitType DEF DeviceSendsPacket, Dev!BurstPacket
<1>4. CASE DeviceCompletes
  BY <1>0, <1>1, <1>4, EmitType DEF DeviceCompletes, Dev!BurstComplete
<1>5. CASE DeviceStreams
  BY <1>0, <1>1, <1>5, EmitType DEF DeviceStreams, Dev!StreamPacket
<1>6. QED BY <1>2, <1>3, <1>4, <1>5 DEF DeviceProduces

(* A group of variables that stays the same keeps its types.               *)
LEMMA SameTypes ==
  /\ DeviceTypes /\ UNCHANGED deviceVars => DeviceTypes'
  /\ ManagerTypes /\ UNCHANGED <<connected, trigger_active, current_trigger>> => ManagerTypes'
  /\ QueueTypes /\ UNCHANGED <<link, out, events, down, command_rx>> => QueueTypes'
  /\ ProcessorTypes /\ UNCHANGED procVars => ProcessorTypes'
  /\ HistoryTypes /\ UNCHANGED <<device_up, disturbed, closings, breaks>> => HistoryTypes'
<1>1. DeviceTypes /\ UNCHANGED deviceVars => DeviceTypes'
  BY DEF DeviceTypes, deviceVars, Dev!AppTypeOK, Dev!StreamFrame, Dev!Stamps
<1>2. ProcessorTypes /\ UNCHANGED procVars => ProcessorTypes'
  BY DEF ProcessorTypes, procVars, Proc!ProcTypeOK
<1>3. QED BY <1>1, <1>2 DEF ManagerTypes, QueueTypes, HistoryTypes

(* Steps of the device.                                                    *)
LEMMA DeviceProducesTypes == Types /\ DeviceProduces => Types'
<1> SUFFICES ASSUME Types, DeviceProduces PROVE Types'
  OBVIOUS
<1>1. Dev!AppTypeOK' /\ timestamp' \in Stamps \cup {0} BY ProduceType
<1>2. out' \in Seq(Dev!Frame) BY ProduceOutType
<1>3. disturbed' \subseteq Stamps /\ link' = link /\ (sending' => timestamp' \in Stamps)
  <2> USE DEF Types, DeviceTypes, HistoryTypes
  <2>1. CASE DeviceFires
    <3>1. timestamp' \in Stamps
      BY <2>1, NextStampIsNew DEF DeviceFires, Dev!Fire, Dev!FireEvent
    <3>2. QED BY <2>1, <3>1 DEF DeviceFires, Disturbs, Dev!Fire
  <2>2. CASE DeviceSendsPacket
    BY <2>2 DEF DeviceSendsPacket, Disturbs, Dev!BurstPacket, Dev!SendBurstPacket
  <2>3. CASE DeviceCompletes
    BY <2>3 DEF DeviceCompletes, Disturbs, Dev!BurstComplete, Dev!CompleteBurst
  <2>4. CASE DeviceStreams
    BY <2>4 DEF DeviceStreams, Dev!StreamPacket, Dev!SendStreamPacket, Dev!trigger
  <2>5. QED BY <2>1, <2>2, <2>3, <2>4 DEF DeviceProduces
<1>4. DeviceTypes' BY <1>1, <1>3 DEF DeviceTypes
<1>5. QueueTypes' BY <1>2, <1>3 DEF Types, QueueTypes, DeviceProduces, managerVars
<1>6. HistoryTypes' BY <1>3 DEF Types, HistoryTypes, DeviceProduces
<1>7. ManagerTypes' /\ ProcessorTypes' BY SameTypes DEF Types, DeviceProduces, managerVars
<1>8. QED BY <1>4, <1>5, <1>6, <1>7 DEF Types

LEMMA DeviceReadsTypes == Types /\ DeviceReads => Types'
<1> SUFFICES ASSUME Types, DeviceReads PROVE Types'
  OBVIOUS
<1>1. DeviceTypes' BY HandleCommandType DEF Types, DeviceTypes, DeviceReads, Dev!Command
<1>2. out' \in Seq(Dev!Frame)
  <2>1. Dev!ReplyTo(Head(down)) \in Dev!Frame BY FramesAreFrames DEF Types, DeviceTypes
  <2>2. QED BY <2>1, EmitType DEF Types, QueueTypes, DeviceReads, Dev!Command
<1>3. down' \in Seq(CommandFrames) BY DEF Types, QueueTypes, DeviceReads
<1>4. QueueTypes' BY <1>2, <1>3 DEF Types, QueueTypes, DeviceReads, Dev!Command
<1>5. ManagerTypes' /\ ProcessorTypes' /\ HistoryTypes'
  BY SameTypes DEF Types, DeviceReads, boundVars
<1>6. QED BY <1>1, <1>4, <1>5 DEF Types

(* A frame is told by its command.                                         *)
LEMMA FrameKinds ==
  ASSUME NEW f \in Dev!Frame
  PROVE  /\ f.cmd = "EVENT_TRIGGERED" => f.of \in Stamps /\ f = [cmd |-> "EVENT_TRIGGERED", of |-> f.of]
         /\ f.cmd = "DATA_PACKET" => f \in DataFrames
         /\ f.cmd = "BUFFER_TRANSFER_COMPLETE" => f \in CompleteFrames
         /\ f.cmd \in {"EVENT_TRIGGERED", "DATA_PACKET", "BUFFER_TRANSFER_COMPLETE",
                       "PONG", "STATUS_RESPONSE", "DEVICE_INFO_RESPONSE", "ACK", "NACK"}
BY DEF Dev!Frame, Dev!StreamFrame, Dev!Replies, Dev!Stamps, Stamps, DataFrames, CompleteFrames

(* The kinds of events.                                                    *)
LEMMA EventKinds ==
  ASSUME NEW e \in Event
  PROVE  /\ e.kind = "TriggerEvent" => e.timestamp \in Stamps
         /\ e.kind = "DataPacket" =>
              /\ e.frame \in DataFrames
              /\ e.source = "Trigger" => e.trigger_timestamp \in Stamps
              /\ e.source \in {"Trigger", "Continuous"}
         /\ e.kind = "BufferTransferComplete" => e.frame \in CompleteFrames
         /\ e.kind \in {"TriggerEvent", "DataPacket", "BufferTransferComplete",
                        "Connected", "Disconnected", "StatusUpdate"}
BY DEF Event, TriggerEvents, LabelledPackets, ContinuousPackets, Completions, StatusReports

(* Handling a command of the device task keeps the queue of frames one.    *)
LEMMA CommandFrameType ==
  ASSUME NEW c \in Mgr!DeviceCommands
  PROVE  Mgr!CommandFrame(c, Channels) \in CommandFrames
BY DEF CommandFrames

LEMMA PingType == [name |-> "PING"] \in CommandFrames
BY DEF CommandFrames, Mgr!CommandFrame, Mgr!DeviceCommands

(* The report of a frame is an event.                                      *)
LEMMA ReportType ==
  ASSUME Types, out # <<>>, Mgr!HandleFrame(Head(out))
  PROVE  events' \in Seq(Event) /\ current_trigger' \in Stamps \cup {None}
<1> DEFINE f == Head(out)
<1>1. f \in Dev!Frame /\ events \in Seq(Event) /\ current_trigger \in Stamps \cup {None}
      /\ trigger_active \in BOOLEAN
  BY DEF Types, ManagerTypes, QueueTypes
<1>2. Mgr!HandleEvent(f) \/ Mgr!HandleData(f) \/ Mgr!HandleComplete(f) \/ Mgr!HandleStatus(f)
        \/ Mgr!HandleOther(f)
  BY DEF Mgr!HandleFrame
<1> HIDE DEF f
<1>3. CASE Mgr!HandleEvent(f)
  <2>1. [kind |-> "TriggerEvent", timestamp |-> f.of] \in Event /\ f.of \in Stamps
    BY <1>1, <1>3, FrameKinds DEF Mgr!HandleEvent, Event, TriggerEvents
  <2>2. QED BY <1>1, <1>3, <2>1 DEF Mgr!HandleEvent, Mgr!Report
<1>4. CASE Mgr!HandleData(f)
  <2>1. Mgr!Labelled(f) \in Event
    BY <1>1, <1>4, FrameKinds
    DEF Mgr!HandleData, Mgr!Labelled, Event, LabelledPackets, ContinuousPackets
  <2>2. QED BY <1>1, <1>4, <2>1 DEF Mgr!HandleData, Mgr!Report
<1>5. CASE Mgr!HandleComplete(f)
  <2>1. [kind |-> "BufferTransferComplete", frame |-> f] \in Event
    BY <1>1, <1>5, FrameKinds DEF Mgr!HandleComplete, Event, Completions
  <2>2. QED BY <1>1, <1>5, <2>1 DEF Mgr!HandleComplete, Mgr!Report
<1>6. CASE Mgr!HandleStatus(f)
  <2>1. [kind |-> "StatusUpdate"] \in Event BY DEF Event, StatusReports
  <2>2. QED BY <1>1, <1>6, <2>1 DEF Mgr!HandleStatus, Mgr!Report
<1>7. CASE Mgr!HandleOther(f) BY <1>1, <1>7 DEF Mgr!HandleOther
<1>8. QED BY <1>2, <1>3, <1>4, <1>5, <1>6, <1>7

(* Steps of the device task.                                               *)
LEMMA ManagerStepTypes == Types /\ Manager => Types'
<1> SUFFICES ASSUME Types, Manager PROVE Types'
  OBVIOUS
<1>0. [kind |-> "Connected"] \in Event /\ [kind |-> "Disconnected"] \in Event
  BY DEF Event, StatusReports
<1>1. DeviceTypes' /\ ProcessorTypes'
  <2>1. UNCHANGED deviceVars /\ UNCHANGED procVars
    BY DEF Manager, ManagerConnects, ManagerLosesConnection, ManagerSendsCommand, ManagerPings,
           ManagerReads
  <2>2. QED BY <2>1, SameTypes DEF Types
<1>2. HistoryTypes'
  <2>1. CASE ManagerSendsCommand
    <3>1. UnderWay \subseteq Stamps
      BY BoundsAssumption DEF UnderWay, Stamps, Types, DeviceTypes, Dev!AppTypeOK
    <3>2. QED BY <2>1, <3>1 DEF ManagerSendsCommand, Types, HistoryTypes, boundVars
  <2>2. CASE ~ManagerSendsCommand
    <3>1. UNCHANGED <<device_up, disturbed, closings, breaks>>
      BY <2>2 DEF Manager, ManagerConnects, ManagerLosesConnection, ManagerPings, ManagerReads,
                  boundVars
    <3>2. QED BY <3>1, SameTypes DEF Types
  <2>3. QED BY <2>1, <2>2
<1>3. ManagerTypes' /\ QueueTypes'
  <2> USE DEF Types, ManagerTypes, QueueTypes
  <2>1. CASE ManagerConnects
    <3>1. events' \in Seq(Event) BY <1>0, <2>1 DEF ManagerConnects, Mgr!Connect, Mgr!Report
    <3>2. down' \in Seq(CommandFrames)
      <4>1. down' = Append(down, [name |-> "PING"]) \/ down' = down
        BY <2>1 DEF ManagerConnects, Mgr!Connect
      <4>2. Append(down, [name |-> "PING"]) \in Seq(CommandFrames) BY PingType
      <4>3. QED BY <4>1, <4>2
    <3>3. QED BY <2>1, <3>1, <3>2 DEF ManagerConnects, Mgr!Connect
  <2>2. CASE ManagerLosesConnection
    <3>1. events' \in Seq(Event)
      BY <1>0, <2>2 DEF ManagerLosesConnection, Mgr!ReadError, Mgr!Report
    <3>2. QED BY <2>2, <3>1 DEF ManagerLosesConnection, Mgr!ReadError
  <2>3. CASE ManagerSendsCommand
    <3>1. Head(command_rx) \in Mgr!DeviceCommands /\ command_rx' \in Seq(Mgr!DeviceCommands)
      BY <2>3 DEF ManagerSendsCommand, Mgr!HandleCommand
    <3>2. down' \in Seq(CommandFrames)
      <4> DEFINE f == Mgr!CommandFrame(Head(command_rx), Channels)
      <4>1. f \in CommandFrames BY <3>1, CommandFrameType
      <4> HIDE DEF f
      <4>2. down' = Append(down, f) \/ down' = down
        BY <2>3 DEF ManagerSendsCommand, Mgr!HandleCommand, Mgr!Write, f
      <4>3. Append(down, f) \in Seq(CommandFrames) BY <4>1
      <4>4. QED BY <4>2, <4>3
    <3>3. trigger_active' \in BOOLEAN /\ current_trigger' \in Stamps \cup {None}
      BY <2>3 DEF ManagerSendsCommand, Mgr!HandleCommand
    <3>4. QED BY <2>3, <3>1, <3>2, <3>3 DEF ManagerSendsCommand, Mgr!HandleCommand
  <2>4. CASE ManagerPings
    <3>1. down' \in Seq(CommandFrames) BY <2>4, PingType DEF ManagerPings, Mgr!KeepAlive
    <3>2. QED BY <2>4, <3>1 DEF ManagerPings, Mgr!KeepAlive
  <2>5. CASE ManagerReads
    <3>1. events' \in Seq(Event) /\ current_trigger' \in Stamps \cup {None}
      BY <2>5, ReportType DEF ManagerReads
    <3>2. out' \in Seq(Dev!Frame) BY <2>5 DEF ManagerReads
    <3>3. QED BY <2>5, <3>1, <3>2 DEF ManagerReads, Mgr!HandleFrame
  <2>6. QED BY <2>1, <2>2, <2>3, <2>4, <2>5 DEF Manager
<1>4. QED BY <1>1, <1>2, <1>3 DEF Types

(* The processor's notion of a finite set is the usual one.                *)
LEMMA SameFiniteness == \A S : Proc!IsFiniteSet(S) <=> IsFiniteSet(S)
BY DEF Proc!IsFiniteSet, IsFiniteSet

(* The cache of bursts keeps its types.                                    *)
LEMMA CacheTypes ==
  ASSUME NEW cache, IsFiniteSet(DOMAIN cache), \A id \in DOMAIN cache : cache[id] \in Proc!Burst
  PROVE  /\ \A id \in DOMAIN cache :
              /\ IsFiniteSet(DOMAIN Proc!Without(cache, id))
              /\ \A i \in DOMAIN Proc!Without(cache, id) : Proc!Without(cache, id)[i] \in Proc!Burst
         /\ \A b \in Proc!Burst :
              /\ IsFiniteSet(DOMAIN Proc!Insert(cache, b))
              /\ \A i \in DOMAIN Proc!Insert(cache, b) : Proc!Insert(cache, b)[i] \in Proc!Burst
<1>1. ASSUME NEW id \in DOMAIN cache
      PROVE  /\ IsFiniteSet(DOMAIN Proc!Without(cache, id))
             /\ \A i \in DOMAIN Proc!Without(cache, id) : Proc!Without(cache, id)[i] \in Proc!Burst
  <2>1. IsFiniteSet(DOMAIN cache \ {id}) BY FS_RemoveElement
  <2>2. QED BY <2>1 DEF Proc!Without, Proc!Restrict
<1>2. ASSUME NEW b \in Proc!Burst
      PROVE  /\ IsFiniteSet(DOMAIN Proc!Insert(cache, b))
             /\ \A i \in DOMAIN Proc!Insert(cache, b) : Proc!Insert(cache, b)[i] \in Proc!Burst
  <2>1. IsFiniteSet(DOMAIN cache \cup {b.burst_id}) BY FS_AddElement
  <2>2. QED BY <2>1 DEF Proc!Insert
<1>3. QED BY <1>1, <1>2

(* What the processor stores of a labelled packet.                         *)
LEMMA PacketType ==
  ASSUME NEW e \in Event, e.kind = "DataPacket"
  PROVE  /\ Packet(e).source = e.source
         /\ Packet(e).valid <=> e.frame.mask # {}
         /\ Packet(e).tag = [of |-> e.frame.of, n |-> e.frame.n]
         /\ Packet(e).tag \in PacketTags
         /\ e.source = "Trigger" => Packet(e).trigger_timestamp = e.trigger_timestamp
<1>1. e.frame.of \in Stamps \cup {0} /\ e.frame.n \in Nat
  BY EventKinds DEF DataFrames
<1>2. [of |-> e.frame.of, n |-> e.frame.n] \in PacketTags
  BY <1>1 DEF PacketTags
<1>3. CASE e.source = "Trigger" BY <1>2, <1>3 DEF Packet
<1>4. CASE e.source # "Trigger" BY <1>2, <1>4 DEF Packet
<1>5. QED BY <1>3, <1>4

(* Adding a packet to the open burst.                                      *)
LEMMA AddedPacket ==
  ASSUME Types, NEW p \in Proc!StoredPacket, current_trigger_burst # None
  PROVE  [current_trigger_burst EXCEPT !.data_packets = Append(@, p)] \in Proc!Burst
<1>1. current_trigger_burst \in Proc!Burst BY DEF Types, ProcessorTypes, Proc!ProcTypeOK
<1>2. Append(current_trigger_burst.data_packets, p) \in Seq(Proc!StoredPacket)
  <2>1. current_trigger_burst.data_packets \in Seq(Proc!StoredPacket) BY <1>1 DEF Proc!Burst
  <2>2. QED BY <2>1
<1>3. QED BY <1>1, <1>2 DEF Proc!Burst

LEMMA ProcessPacketTypes ==
  ASSUME Types, NEW e \in Event, e.kind = "DataPacket", Proc!ProcessPacket(Packet(e))
  PROVE  ProcessorTypes'
<1> USE DEF Types, ProcessorTypes, Proc!ProcTypeOK
<1>0. Stamps \subseteq Nat BY DEF Stamps
<1>1. CASE Proc!ProcessRefused(Packet(e))
  <2>1. UNCHANGED procVars BY <1>1 DEF Proc!ProcessRefused, Proc!procVars, procVars
  <2>2. QED BY <2>1, SameTypes
<1>2. CASE Proc!ProcessContinuous(Packet(e)) BY <1>2 DEF Proc!ProcessContinuous
<1>3. CASE Proc!ProcessTrigger(Packet(e))
  <2> DEFINE t == Packet(e).trigger_timestamp
             seq == IF current_trigger_timestamp = t THEN trigger_burst_sequence + 1 ELSE 1
             p == [trigger_timestamp |-> t, sequence_in_burst |-> seq, tag |-> Packet(e).tag]
  <2>1. e.source = "Trigger" BY <1>3, PacketType DEF Proc!ProcessTrigger
  <2>2. t \in Stamps /\ Packet(e).tag \in PacketTags BY <2>1, PacketType, EventKinds
  <2>3. seq \in Nat OBVIOUS
  <2>4. p \in Proc!StoredPacket BY <1>0, <2>2, <2>3 DEF Proc!StoredPacket
  <2>5. /\ current_trigger_timestamp' = t /\ trigger_burst_sequence' = seq
        /\ completed_trigger_bursts' = completed_trigger_bursts
        /\ current_trigger_burst' = IF current_trigger_burst = None THEN None
             ELSE [current_trigger_burst EXCEPT !.data_packets = Append(@, p)]
    BY <1>3 DEF Proc!ProcessTrigger
  <2> HIDE DEF p, seq, t
  <2>6. current_trigger_burst' \in Proc!Burst \cup {None}
    BY <2>4, <2>5, AddedPacket
  <2>7. current_trigger_burst' # None => current_trigger_burst'.trigger_timestamp \in Stamps
    <3>1. current_trigger_burst # None =>
            [current_trigger_burst EXCEPT !.data_packets = Append(@, p)].trigger_timestamp
              = current_trigger_burst.trigger_timestamp
      BY DEF Proc!Burst
    <3>2. QED BY <2>5, <3>1
  <2>8. QED BY <1>0, <2>2, <2>3, <2>5, <2>6, <2>7
<1>4. QED BY <1>1, <1>2, <1>3 DEF Proc!ProcessPacket

LEMMA CompleteTypes ==
  ASSUME Types, Proc!CompleteTriggerBurst
  PROVE  ProcessorTypes'
<1> DEFINE b == [current_trigger_burst EXCEPT !.is_complete = TRUE]
           filled == Proc!Insert(completed_trigger_bursts, b)
<1>1. /\ current_trigger_burst # None /\ current_trigger_burst' = None
      /\ completed_trigger_bursts' \in Proc!Trimmed(filled)
      /\ UNCHANGED <<current_trigger_timestamp, trigger_burst_sequence>>
  BY DEF Proc!CompleteTriggerBurst
<1>2. /\ current_trigger_burst \in Proc!Burst
      /\ IsFiniteSet(DOMAIN completed_trigger_bursts)
      /\ \A id \in DOMAIN completed_trigger_bursts : completed_trigger_bursts[id] \in Proc!Burst
  BY <1>1, SameFiniteness DEF Types, ProcessorTypes, Proc!ProcTypeOK
<1>3. b \in Proc!Burst BY <1>2 DEF Proc!Burst
<1> HIDE DEF b
<1>4. /\ IsFiniteSet(DOMAIN filled)
      /\ \A id \in DOMAIN filled : filled[id] \in Proc!Burst
  BY <1>2, <1>3, CacheTypes
<1> HIDE DEF filled
<1>5. /\ IsFiniteSet(DOMAIN completed_trigger_bursts')
      /\ \A id \in DOMAIN completed_trigger_bursts' : completed_trigger_bursts'[id] \in Proc!Burst
  BY <1>1, <1>4, CacheTypes DEF Proc!Trimmed, Proc!Oldest
<1>6. QED BY <1>1, <1>5, SameFiniteness DEF Types, ProcessorTypes, Proc!ProcTypeOK

(* The record of a burst at the moment it closed.                          *)
LEMMA ClosingType ==
  ASSUME Types, current_trigger_burst # None, NEW f \in CompleteFrames
  PROVE  Closing(current_trigger_burst, f) \in ClosingRecords
<1>1. current_trigger_burst \in Proc!Burst /\ current_trigger_burst.trigger_timestamp \in Stamps
  BY DEF Types, ProcessorTypes, Proc!ProcTypeOK
<1>2. current_trigger_burst.data_packets \in Seq(Proc!StoredPacket) BY <1>1 DEF Proc!Burst
<1>3. QED BY <1>1, <1>2 DEF Closing, ClosingRecords, CompleteFrames

(* Steps of the event loop.                                                *)
LEMMA EventLoopTypes == Types /\ EventLoop => Types'
<1> SUFFICES ASSUME Types, EventLoop PROVE Types'
  OBVIOUS
<1> DEFINE e == Head(events)
<1>1. e \in Event /\ events' \in Seq(Event) BY DEF EventLoop, Types, QueueTypes
<1>2. DeviceTypes' /\ ManagerTypes' BY SameTypes DEF EventLoop, Types
<1>3. QueueTypes' BY <1>1 DEF EventLoop, Types, QueueTypes
<1>4. ProcessorTypes'
  <2>1. CASE OnConnected
    BY <2>1 DEF OnConnected, Proc!ResetTriggerState, Types, ProcessorTypes, Proc!ProcTypeOK
  <2>2. CASE OnTriggerEvent
    <3> DEFINE ts == e.timestamp
    <3>1. ts \in Stamps /\ ts \in Nat /\ ts \in Int
      BY <1>1, <2>2, EventKinds DEF OnTriggerEvent, NextEvent, Stamps
    <3>2. /\ current_trigger_burst' =
               [burst_id |-> <<ts, ts>>, trigger_timestamp |-> ts, created_at |-> ts,
                data_packets |-> <<>>, is_complete |-> FALSE]
          /\ UNCHANGED <<current_trigger_timestamp, trigger_burst_sequence, completed_trigger_bursts>>
      BY <2>2 DEF OnTriggerEvent, Proc!StartTriggerBurst
    <3> HIDE DEF ts
    <3>3. current_trigger_burst' \in Proc!Burst /\ current_trigger_burst'.trigger_timestamp = ts
      BY <3>1, <3>2 DEF Proc!Burst, Proc!BurstIds
    <3>4. QED BY <3>1, <3>2, <3>3 DEF Types, ProcessorTypes, Proc!ProcTypeOK
  <2>3. CASE OnDataPacket
    BY <1>1, <2>3, ProcessPacketTypes DEF OnDataPacket, NextEvent
  <2>4. CASE OnTransferComplete
    BY <2>4, CompleteTypes DEF OnTransferComplete
  <2>5. CASE OnDisconnected \/ OnTransferCompleteUnexpected \/ OnStatusUpdate
    <3>1. UNCHANGED procVars
      BY <2>5 DEF OnDisconnected, OnTransferCompleteUnexpected, OnStatusUpdate,
                  Proc!CompleteNothing, Proc!procVars, procVars
    <3>2. QED BY <3>1, SameTypes DEF Types
  <2>6. QED BY <2>1, <2>2, <2>3, <2>4, <2>5 DEF EventLoop
<1>5. HistoryTypes'
  <2>1. CASE OnTransferComplete
    <3>1. e.frame \in CompleteFrames
      BY <1>1, <2>1, EventKinds DEF OnTransferComplete, NextEvent
    <3>2. Closing(current_trigger_burst, e.frame) \in ClosingRecords
      BY <2>1, <3>1, ClosingType DEF OnTransferComplete, Proc!CompleteTriggerBurst
    <3>3. closings' \subseteq ClosingRecords
      BY <2>1, <3>2 DEF OnTransferComplete, Types, HistoryTypes
    <3>4. QED
      BY <2>1, <3>3 DEF OnTransferComplete, EventLoop, boundVars, Types, HistoryTypes
  <2>2. CASE ~OnTransferComplete
    BY <2>2 DEF EventLoop, OnConnected, OnDisconnected, OnTriggerEvent, OnDataPacket,
                OnTransferCompleteUnexpected, OnStatusUpdate, boundVars, Types, HistoryTypes
  <2>3. QED BY <2>1, <2>2
<1>6. QED BY <1>2, <1>3, <1>4, <1>5 DEF Types

(* Steps of the link and of the users.                                     *)
LEMMA OtherStepTypes == Types /\ (Break \/ UserPosts \/ UserDeletes) => Types'
<1> SUFFICES ASSUME Types, Break \/ UserPosts \/ UserDeletes PROVE Types'
  OBVIOUS
<1>1. DeviceTypes' /\ ManagerTypes'
  BY SameTypes DEF Types, Break, UserPosts, UserDeletes, managerVars
<1>2. CASE Break
  <2>1. UnderWay \subseteq Stamps
    BY BoundsAssumption DEF UnderWay, Stamps, Types, DeviceTypes, Dev!AppTypeOK
  <2>2. PICK n \in 0..Len(out) : out' = SubSeq(out, 1, n) BY <1>2 DEF Break
  <2>3. out' \in Seq(Dev!Frame) BY <2>2 DEF Types, QueueTypes
  <2>4. QueueTypes'
    <3>1. <<>> \in Seq(CommandFrames) OBVIOUS
    <3>2. QED BY <1>2, <2>3, <3>1 DEF Break, Types, QueueTypes
  <2>5. HistoryTypes' BY <1>2, <2>1 DEF Break, Types, HistoryTypes
  <2>6. ProcessorTypes' BY <1>2, SameTypes DEF Break, Types
  <2>7. QED BY <1>1, <2>4, <2>5, <2>6 DEF Types
<1>3. CASE UserPosts
  <2>1. command_rx' \in Seq(Mgr!DeviceCommands)
    BY <1>3, PostedAssumption DEF UserPosts, Types, QueueTypes
  <2>2. QueueTypes' BY <1>3, <2>1 DEF UserPosts, Types, QueueTypes
  <2>3. ProcessorTypes' /\ HistoryTypes' BY <1>3, SameTypes DEF UserPosts, Types
  <2>4. QED BY <1>1, <2>2, <2>3 DEF Types
<1>4. CASE UserDeletes
  <2>1. QueueTypes' /\ HistoryTypes'
    BY <1>4, SameTypes DEF UserDeletes, Types, managerVars, boundVars
  <2>2. PICK id \in DOMAIN completed_trigger_bursts : Proc!RemoveTriggerBurst(id)
    BY <1>4 DEF UserDeletes
  <2> DEFINE rest == Proc!Without(completed_trigger_bursts, id)
  <2>3. /\ IsFiniteSet(DOMAIN completed_trigger_bursts)
        /\ \A i \in DOMAIN completed_trigger_bursts : completed_trigger_bursts[i] \in Proc!Burst
    BY SameFiniteness DEF Types, ProcessorTypes, Proc!ProcTypeOK
  <2>4. IsFiniteSet(DOMAIN rest) /\ \A i \in DOMAIN rest : rest[i] \in Proc!Burst
    BY <2>3, CacheTypes
  <2>5. completed_trigger_bursts' = rest BY <2>2 DEF Proc!RemoveTriggerBurst
  <2> HIDE DEF rest
  <2>6. ProcessorTypes'
    BY <2>2, <2>4, <2>5, SameFiniteness DEF Proc!RemoveTriggerBurst, Types, ProcessorTypes, Proc!ProcTypeOK
  <2>7. QED BY <1>1, <2>1, <2>6 DEF Types
<1>5. QED BY <1>2, <1>3, <1>4

LEMMA TypesInit == Init => Types
<1> SUFFICES ASSUME Init PROVE Types
  OBVIOUS
<1>2. DeviceTypes
  <2>1. Dev!AppInit BY DEF Init
  <2>2. 0 \in 0..MaxBursts BY BoundsAssumption
  <2>3. QED BY <2>1, <2>2 DEF Dev!AppInit, Dev!NoFrame, DeviceTypes, Dev!AppTypeOK
<1>3. ManagerTypes BY DEF Init, Mgr!ManagerInit, ManagerTypes
<1>4. QueueTypes
  <2>1. /\ link = FALSE /\ out = <<>>
        /\ command_rx = <<>> /\ down = <<>> /\ events = <<>>
    BY DEF Init, Mgr!ManagerInit
  <2>2. \A S : <<>> \in Seq(S) OBVIOUS
  <2>3. QED BY <2>1, <2>2 DEF QueueTypes
<1>5. ProcessorTypes
  <2>1. /\ current_trigger_timestamp = None /\ trigger_burst_sequence = 0
        /\ current_trigger_burst = None
        /\ completed_trigger_bursts = [id \in {} |-> None]
    BY DEF Init, Proc!ProcInit
  <2>2. DOMAIN completed_trigger_bursts = {} BY <2>1
  <2>3. QED BY <2>1, <2>2, FS_EmptySet, SameFiniteness DEF ProcessorTypes, Proc!ProcTypeOK
<1>6. HistoryTypes BY DEF Init, HistoryTypes
<1>7. QED BY <1>2, <1>3, <1>4, <1>5, <1>6 DEF Types

LEMMA TypesNext == Types /\ [Next]_vars => Types'
<1> SUFFICES ASSUME Types, [Next]_vars PROVE Types'
  OBVIOUS
<1>1. CASE UNCHANGED vars
  BY <1>1, SameTypes DEF Types, vars, managerVars, boundVars
<1>2. QED
  BY <1>1, DeviceReadsTypes, DeviceProducesTypes, ManagerStepTypes, EventLoopTypes, OtherStepTypes
  DEF Next

LEMMA TypesHold == Spec => []Types
<1>1. QED BY TypesInit, TypesNext, PTL DEF Spec

LEMMA TypesImplyTypeOK == Types => TypeOK
BY DEF Types, DeviceTypes, ManagerTypes, QueueTypes, ProcessorTypes, HistoryTypes, TypeOK, Dev!TypeOK

(* Every variable keeps its type: in particular the stamp of a burst stays a  *)
(* stamp through frame, event, label and cache (app.c:298-314,             *)
(* device_communication.rs:508-577, data_processing.rs:175-325).           *)
THEOREM TypeCorrect == Spec => []TypeOK
BY TypesHold, TypesImplyTypeOK, PTL

-----------------------------------------------------------------------------
(* The status shown to users.                                              *)

(* The events that prove the device alive, or tell it is gone.             *)
Settling == {e \in Event : e.kind \in {"Connected", "Disconnected", "DataPacket", "StatusUpdate"}}

(* The status that will be shown once the queue is empty is the true one.  *)
StatusInv ==
  /\ \A e : LastIn(events, Settling, e) => connected = (e.kind # "Disconnected")
  /\ NoneIn(events, Settling) => device_up = connected

(* What the device task reports of a frame it has read.                    *)
LEMMA ReadReports ==
  ASSUME Types, ManagerReads
  PROVE  /\ connected
         /\ \/ events' = events /\ UNCHANGED current_trigger
            \/ \E e \in Event : /\ events' = Append(events, e)
                                /\ e.kind \notin {"Connected", "Disconnected"}
<1> DEFINE f == Head(out)
<1>1. f \in Dev!Frame /\ current_trigger \in Stamps \cup {None}
  BY DEF ManagerReads, Types, QueueTypes, ManagerTypes
<1>2. /\ connected
      /\ Mgr!HandleEvent(f) \/ Mgr!HandleData(f) \/ Mgr!HandleComplete(f) \/ Mgr!HandleStatus(f)
           \/ Mgr!HandleOther(f)
  BY DEF ManagerReads, Mgr!HandleFrame
<1> HIDE DEF f
<1>3. CASE Mgr!HandleEvent(f)
  <2>1. [kind |-> "TriggerEvent", timestamp |-> f.of] \in Event
    BY <1>1, <1>3, FrameKinds DEF Mgr!HandleEvent, Event, TriggerEvents
  <2>2. QED BY <1>2, <1>3, <2>1 DEF Mgr!HandleEvent, Mgr!Report
<1>4. CASE Mgr!HandleData(f)
  <2>1. Mgr!Labelled(f) \in Event /\ Mgr!Labelled(f).kind = "DataPacket"
    BY <1>1, <1>4, FrameKinds
    DEF Mgr!HandleData, Mgr!Labelled, Event, LabelledPackets, ContinuousPackets
  <2>2. QED BY <1>2, <1>4, <2>1 DEF Mgr!HandleData, Mgr!Report
<1>5. CASE Mgr!HandleComplete(f)
  <2>1. [kind |-> "BufferTransferComplete", frame |-> f] \in Event
    BY <1>1, <1>5, FrameKinds DEF Mgr!HandleComplete, Event, Completions
  <2>2. QED BY <1>2, <1>5, <2>1 DEF Mgr!HandleComplete, Mgr!Report
<1>6. CASE Mgr!HandleStatus(f)
  <2>1. [kind |-> "StatusUpdate"] \in Event BY DEF Event, StatusReports
  <2>2. QED BY <1>2, <1>6, <2>1 DEF Mgr!HandleStatus, Mgr!Report
<1>7. CASE Mgr!HandleOther(f) BY <1>2, <1>7 DEF Mgr!HandleOther
<1>8. QED BY <1>2, <1>3, <1>4, <1>5, <1>6, <1>7

(* Only four kinds of steps concern the status.                            *)
LEMMA StatusUntouched ==
  ASSUME [Next]_vars, ~ManagerConnects, ~ManagerLosesConnection, ~ManagerReads, ~EventLoop
  PROVE  UNCHANGED <<events, connected, device_up>>
BY DEF Next, Manager, vars, managerVars, DeviceReads, DeviceProduces, Break, ManagerSendsCommand,
       ManagerPings, UserPosts, UserDeletes, Mgr!HandleCommand, Mgr!KeepAlive

LEMMA StatusStep ==
  ASSUME Types, Types', StatusInv, [Next]_vars
  PROVE  StatusInv'
<1> USE DEF StatusInv
<1>0. events \in Seq(Event) /\ connected \in BOOLEAN BY DEF Types, QueueTypes, ManagerTypes
<1>1. CASE ManagerConnects
  <2> DEFINE e == [kind |-> "Connected"]
  <2>1. e \in Event /\ e \in Settling BY DEF Event, StatusReports, Settling
  <2>2. events' = Append(events, e) /\ connected'
    BY <1>1 DEF ManagerConnects, Mgr!Connect, Mgr!Report
  <2>3. e.kind # "Disconnected" OBVIOUS
  <2> HIDE DEF e
  <2>4. ~NoneIn(events', Settling) /\ \A x : LastIn(events', Settling, x) => x = e
    BY <1>0, <2>1, <2>2, AppendIn
  <2>5. QED BY <2>2, <2>3, <2>4
<1>2. CASE ManagerLosesConnection
  <2> DEFINE e == [kind |-> "Disconnected"]
  <2>1. e \in Event /\ e \in Settling BY DEF Event, StatusReports, Settling
  <2>2. events' = Append(events, e) /\ ~connected'
    BY <1>2 DEF ManagerLosesConnection, Mgr!ReadError, Mgr!Report
  <2>3. e.kind = "Disconnected" OBVIOUS
  <2> HIDE DEF e
  <2>4. ~NoneIn(events', Settling) /\ \A x : LastIn(events', Settling, x) => x = e
    BY <1>0, <2>1, <2>2, AppendIn
  <2>5. connected' \in BOOLEAN BY DEF Types, ManagerTypes
  <2>6. QED BY <2>2, <2>3, <2>4, <2>5
<1>3. CASE ManagerReads
  <2>1. connected' = connected /\ device_up' = device_up
    BY <1>3 DEF ManagerReads, Mgr!HandleFrame
  <2>2. CASE events' = events BY <2>1, <2>2
  <2>3. ASSUME NEW e \in Event, events' = Append(events, e),
               e.kind \notin {"Connected", "Disconnected"}
        PROVE  StatusInv'
    <3>1. CASE e \in Settling
      <4>1. ~NoneIn(events', Settling) /\ \A x : LastIn(events', Settling, x) => x = e
        BY <1>0, <2>3, <3>1, AppendIn
      <4>2. connected = TRUE BY <1>0, <1>3, ReadReports
      <4>3. QED BY <2>1, <2>3, <4>1, <4>2
    <3>2. CASE e \notin Settling
      <4>1. /\ \A x : LastIn(events', Settling, x) => LastIn(events, Settling, x)
            /\ NoneIn(events', Settling) => NoneIn(events, Settling)
        BY <1>0, <2>3, <3>2, AppendOut
      <4>2. QED BY <2>1, <4>1
    <3>3. QED BY <3>1, <3>2
  <2>4. QED BY <1>3, <2>2, <2>3, ReadReports
<1>4. CASE EventLoop
  <2> DEFINE e == Head(events)
  <2>1. /\ events # <<>> /\ events' = Tail(events) /\ connected' = connected
        /\ e \in Event
    BY <1>0, <1>4 DEF EventLoop
  <2>2. CASE e \in Settling
    <3>1. /\ \A x : LastIn(events', Settling, x) => LastIn(events, Settling, x)
          /\ NoneIn(events', Settling) => LastIn(events, Settling, e)
      BY <1>0, <2>1, <2>2, TailIn
    <3>2. device_up' = (e.kind # "Disconnected")
      BY <1>4, <2>2 DEF EventLoop, Settling, OnConnected, OnDisconnected, OnTriggerEvent,
           OnDataPacket, OnTransferComplete, OnTransferCompleteUnexpected, OnStatusUpdate, NextEvent
    <3>3. QED BY <2>1, <3>1, <3>2
  <2>3. CASE e \notin Settling
    <3>1. /\ \A x : LastIn(events', Settling, x) => LastIn(events, Settling, x)
          /\ NoneIn(events', Settling) => NoneIn(events, Settling)
      BY <1>0, <2>1, <2>3, TailOut
    <3>2. device_up' = device_up
      BY <1>4, <2>1, <2>3
      DEF EventLoop, Settling, OnConnected, OnDisconnected, OnTriggerEvent,
          OnDataPacket, OnTransferComplete, OnTransferCompleteUnexpected, OnStatusUpdate, NextEvent
    <3>3. QED BY <2>1, <3>1, <3>2
  <2>4. QED BY <2>2, <2>3
<1>5. CASE ~ManagerConnects /\ ~ManagerLosesConnection /\ ~ManagerReads /\ ~EventLoop
  BY <1>5, StatusUntouched
<1>6. QED BY <1>1, <1>2, <1>3, <1>4, <1>5

(* Whatever the device task and the link do, once the event loop has caught*)
(* up the users are shown whether there is a connection (main.rs:87-190).  *)
THEOREM StatusIsRight == Spec => []StatusSettles
<1>1. Init => StatusInv
  <2>1. Init => events = <<>> /\ connected = FALSE /\ device_up = FALSE
    BY DEF Init, Mgr!ManagerInit
  <2>2. QED BY <2>1, EmptyOrder DEF StatusInv
<1>2. StatusInv => StatusSettles
  BY EmptyOrder DEF StatusInv, StatusSettles
<1>3. Types /\ Types' /\ StatusInv /\ [Next]_vars => StatusInv'
  BY StatusStep
<1>4. QED BY <1>1, <1>2, <1>3, TypesHold, PTL DEF Spec

-----------------------------------------------------------------------------
(* The mode on both sides of the link.                                     *)

ModeFrames == {f \in CommandFrames : IsModeFrame(f)}

(* The mode the device will be in once it has read the queue is the gateway's. *)
ModeInv ==
  breaks = 0 =>
    /\ link = connected
    /\ \A f : LastIn(down, ModeFrames, f) => trigger_active = (f.name = "SET_MODE_TRIGGER")
    /\ NoneIn(down, ModeFrames) => trigger_active = (mode = "TRIGGER")

(* What a command does to the gateway's side and what it sends.            *)
LEMMA ModeFrameOf ==
  ASSUME NEW c \in Mgr!DeviceCommands
  PROVE  LET f == Mgr!CommandFrame(c, Channels)
         IN  /\ f \in ModeFrames <=> c \in {"SetModeContinuous", "SetModeTrigger"}
             /\ f.name = "SET_MODE_TRIGGER" <=> c = "SetModeTrigger"
<1>1. Mgr!CommandFrame(c, Channels) \in CommandFrames BY CommandFrameType
<1>2. QED BY <1>1 DEF Mgr!DeviceCommands, Mgr!CommandFrame, ModeFrames, IsModeFrame

(* What the device does with it.                                           *)
LEMMA DeviceObeys ==
  ASSUME NEW f \in CommandFrames, Dev!HandleCommand(f)
  PROVE  mode' = IF f.name = "SET_MODE_TRIGGER" THEN "TRIGGER"
                 ELSE IF f.name = "SET_MODE_CONTINUOUS" THEN "CONTINUOUS" ELSE mode
<1>1. CASE Dev!AnswerOnly(f)        BY <1>1 DEF Dev!AnswerOnly, Dev!appVars
<1>2. CASE Dev!SetModeContinuous(f) BY <1>2 DEF Dev!SetModeContinuous
<1>3. CASE Dev!SetModeTrigger(f)    BY <1>3 DEF Dev!SetModeTrigger
<1>4. CASE Dev!StartStream(f)       BY <1>4 DEF Dev!StartStream
<1>5. CASE Dev!StopStream(f)        BY <1>5 DEF Dev!StopStream
<1>6. CASE Dev!ConfigureStream(f)   BY <1>6 DEF Dev!ConfigureStream
<1>7. QED BY <1>1, <1>2, <1>3, <1>4, <1>5, <1>6 DEF Dev!HandleCommand

LEMMA ModeUntouched ==
  ASSUME [Next]_vars, ~DeviceReads, ~Break, ~ManagerConnects, ~ManagerLosesConnection,
         ~ManagerSendsCommand, ~ManagerPings
  PROVE  UNCHANGED <<breaks, link, connected, down, trigger_active, mode>>
<1>1. DeviceProduces => UNCHANGED <<link, mode, breaks>>
  BY DEF DeviceProduces, DeviceFires, DeviceSendsPacket, DeviceCompletes, DeviceStreams,
         Dev!Fire, Dev!FireEvent, Dev!BurstPacket, Dev!SendBurstPacket, Dev!BurstComplete,
         Dev!CompleteBurst, Dev!StreamPacket, Dev!SendStreamPacket
<1>2. QED
  BY <1>1 DEF Next, Manager, vars, managerVars, deviceVars, boundVars, DeviceProduces,
              ManagerReads, EventLoop, UserPosts, UserDeletes, Mgr!HandleFrame

(* A frame put on the link that does not concern the mode.                 *)
LEMMA OtherFrameSent ==
  ASSUME Types, ModeInv, NEW f \in CommandFrames, f \notin ModeFrames,
         down' = Append(down, f) \/ down' = down,
         breaks' = breaks, breaks = 0 => link' = connected',
         trigger_active' = trigger_active, mode' = mode
  PROVE  ModeInv'
<1>1. down \in Seq(CommandFrames) BY DEF Types, QueueTypes
<1>2. CASE down' = down BY <1>2 DEF ModeInv
<1>3. CASE down' = Append(down, f)
  <2>1. /\ \A x : LastIn(down', ModeFrames, x) => LastIn(down, ModeFrames, x)
        /\ NoneIn(down', ModeFrames) => NoneIn(down, ModeFrames)
    BY <1>1, <1>3, AppendOut
  <2>2. QED BY <2>1 DEF ModeInv
<1>4. QED BY <1>2, <1>3

LEMMA ModeStep ==
  ASSUME Types, Types', ModeInv, [Next]_vars
  PROVE  ModeInv'
<1>0. /\ down \in Seq(CommandFrames) /\ connected \in BOOLEAN /\ link \in BOOLEAN
      /\ trigger_active \in BOOLEAN /\ trigger_active' \in BOOLEAN /\ breaks \in Nat
  BY DEF Types, QueueTypes, ManagerTypes, HistoryTypes
<1> DEFINE ping == [name |-> "PING"]
<1>1. ping \in CommandFrames /\ ping \notin ModeFrames
  BY PingType DEF ModeFrames, IsModeFrame
<1> HIDE DEF ping
<1>2. CASE DeviceReads
  <2> DEFINE f == Head(down)
  <2>1. /\ f \in CommandFrames /\ down # <<>> /\ down' = Tail(down) /\ Dev!HandleCommand(f)
        /\ UNCHANGED <<breaks, link, connected, trigger_active>>
    BY <1>0, <1>2 DEF DeviceReads, boundVars, Dev!Command
  <2>2. CASE f \in ModeFrames
    <3>1. /\ \A x : LastIn(down', ModeFrames, x) => LastIn(down, ModeFrames, x)
          /\ NoneIn(down', ModeFrames) => LastIn(down, ModeFrames, f)
      BY <1>0, <2>1, <2>2, TailIn
    <3>2. (mode' = "TRIGGER") = (f.name = "SET_MODE_TRIGGER")
      BY <2>1, <2>2, DeviceObeys DEF ModeFrames, IsModeFrame
    <3>3. QED BY <2>1, <3>1, <3>2 DEF ModeInv
  <2>3. CASE f \notin ModeFrames
    <3>1. /\ \A x : LastIn(down', ModeFrames, x) => LastIn(down, ModeFrames, x)
          /\ NoneIn(down', ModeFrames) => NoneIn(down, ModeFrames)
      BY <1>0, <2>1, <2>3, TailOut
    <3>2. mode' = mode BY <2>1, <2>3, DeviceObeys DEF ModeFrames, IsModeFrame
    <3>3. QED BY <2>1, <3>1, <3>2 DEF ModeInv
  <2>4. QED BY <2>2, <2>3
<1>3. CASE Break
  <2>1. breaks' # 0 BY <1>0, <1>3 DEF Break
  <2>2. QED BY <2>1 DEF ModeInv
<1>4. CASE ManagerConnects
  <2>1. /\ down' = Append(down, ping) \/ down' = down
        /\ breaks' = breaks /\ link' = connected'
        /\ trigger_active' = trigger_active /\ mode' = mode
    BY <1>4 DEF ManagerConnects, Mgr!Connect, boundVars, deviceVars, ping
  <2>2. QED BY <1>1, <2>1, OtherFrameSent
<1>5. CASE ManagerLosesConnection
  <2>1. breaks # 0 /\ breaks' = breaks
    BY <1>0, <1>5 DEF ManagerLosesConnection, Mgr!ReadError, boundVars, ModeInv
  <2>2. QED BY <2>1 DEF ModeInv
<1>6. CASE ManagerSendsCommand
  <2> DEFINE c == Head(command_rx)
             f == Mgr!CommandFrame(c, Channels)
  <2>1. c \in Mgr!DeviceCommands
    BY <1>6 DEF ManagerSendsCommand, Mgr!HandleCommand, Types, QueueTypes
  <2>2. /\ f \in CommandFrames
        /\ f \in ModeFrames <=> c \in {"SetModeContinuous", "SetModeTrigger"}
        /\ f.name = "SET_MODE_TRIGGER" <=> c = "SetModeTrigger"
    BY <2>1, CommandFrameType, ModeFrameOf
  <2>3. /\ connected /\ UNCHANGED <<breaks, link, connected, mode>>
        /\ trigger_active' = (c = "SetModeTrigger" \/ (trigger_active /\ c # "SetModeContinuous"))
        /\ IF c = "RequestBufferedData" /\ ~trigger_active
             THEN UNCHANGED down ELSE down' = IF link THEN Append(down, f) ELSE down
    BY <1>6
    DEF ManagerSendsCommand, Mgr!HandleCommand, Mgr!Write, boundVars, deviceVars
  <2> HIDE DEF c, f
  <2>4. CASE c \in {"SetModeContinuous", "SetModeTrigger"}
    <3>1. SUFFICES ASSUME breaks' = 0 PROVE ModeInv'
      BY DEF ModeInv
    <3>2. link = connected BY <2>3, <3>1 DEF ModeInv
    <3>3. down' = Append(down, f) /\ trigger_active' = (f.name = "SET_MODE_TRIGGER")
      BY <1>0, <2>2, <2>3, <2>4, <3>2
    <3>4. ~NoneIn(down', ModeFrames) /\ \A x : LastIn(down', ModeFrames, x) => x = f
      BY <1>0, <2>2, <2>4, <3>3, AppendIn
    <3>5. QED BY <2>3, <3>2, <3>3, <3>4 DEF ModeInv
  <2>5. CASE c \notin {"SetModeContinuous", "SetModeTrigger"}
    <3>1. trigger_active' = trigger_active BY <1>0, <2>3, <2>5
    <3>2. down' = Append(down, f) \/ down' = down BY <2>3
    <3>3. breaks = 0 => link' = connected' BY <2>3 DEF ModeInv
    <3>4. QED BY <2>2, <2>3, <2>5, <3>1, <3>2, <3>3, OtherFrameSent
  <2>6. QED BY <2>4, <2>5
<1>7. CASE ManagerPings
  <2>1. /\ down' = Append(down, ping)
        /\ UNCHANGED <<breaks, link, connected, trigger_active, mode>>
    BY <1>7 DEF ManagerPings, Mgr!KeepAlive, boundVars, deviceVars, ping
  <2>2. breaks = 0 => link' = connected' BY <2>1 DEF ModeInv
  <2>3. QED BY <1>1, <2>1, <2>2, OtherFrameSent
<1>8. CASE /\ ~DeviceReads /\ ~Break /\ ~ManagerConnects /\ ~ManagerLosesConnection
           /\ ~ManagerSendsCommand /\ ~ManagerPings
  BY <1>8, ModeUntouched DEF ModeInv
<1>9. QED BY <1>2, <1>3, <1>4, <1>5, <1>6, <1>7, <1>8

(* While the link has not broken, no mode command on its way means the same*)
(* mode on both sides, although the gateway switches when it writes and never *)
(* reads the answer (device_communication.rs:428-434, app.c:202-221).      *)
THEOREM ModesAgreeAlways == Spec => []ModesAgree
<1>1. Init => ModeInv
  <2>1. Init => /\ down = <<>> /\ link = FALSE /\ connected = FALSE
                /\ trigger_active = FALSE /\ mode = "CONTINUOUS"
    BY DEF Init, Mgr!ManagerInit, Dev!AppInit
  <2>2. QED BY <2>1, EmptyOrder DEF ModeInv
<1>2. ModeInv => ModesAgree
  BY EmptyOrder DEF ModeInv, ModesAgree
<1>3. Types /\ Types' /\ ModeInv /\ [Next]_vars => ModeInv'
  BY ModeStep
<1>4. QED BY <1>1, <1>2, <1>3, TypesHold, PTL DEF Spec

-----------------------------------------------------------------------------
(* The bursts on their way from the device to the cache: the stamps that are  *)
(* still to come are new to all that is known of them before (Ordered), the   *)
(* label of every packet is that of the burst it is stored in (LabelsFit), and *)
(* the packets of a burst are numbered from 1.                               *)

IsEvent(f)    == f.cmd = "EVENT_TRIGGERED"
IsComplete(f) == f.cmd = "BUFFER_TRANSFER_COMPLETE"
IsLabelled(e) == e.kind = "DataPacket" /\ e.source = "Trigger"
Open          == current_trigger_burst # None

-----------------------------------------------------------------------------
(* What the steps of the device put on the link.                           *)

(* A reply.                                                                *)
LEMMA ReplySent ==
  ASSUME Types, DeviceReads
  PROVE  /\ \E f \in Dev!Frame : ~IsEvent(f) /\ f.cmd \in Dev!Replies /\ out' \in {out, Append(out, f)}
         /\ ~link => out' = out
         /\ timestamp' = timestamp /\ last' = last
<1>1. Dev!ReplyTo(Head(down)) \in Dev!Frame /\ Dev!AppTypeOK
  BY FramesAreFrames DEF Types, DeviceTypes
<1>2. Dev!ReplyTo(Head(down)).cmd \in Dev!Replies
  BY DEF Dev!ReplyTo, Dev!ReplyFrame, Dev!Replies
<1>3. Dev!Emit(Dev!ReplyTo(Head(down))) /\ Dev!HandleCommand(Head(down))
  BY DEF DeviceReads, Dev!Command
<1>4. timestamp' = timestamp /\ last' = last BY <1>1, <1>3, HandleCommandType
<1>5. QED BY <1>1, <1>2, <1>3, <1>4 DEF Dev!Emit, Dev!Replies, IsEvent

(* A frame that is not an event, or the event of a new burst and perhaps its  *)
(* first packet.                                                           *)
NewFrame(f) ==
  /\ f \in Dev!Frame /\ ~IsEvent(f)
  /\ out' \in {out, Append(out, f)}
  /\ timestamp' = timestamp

NewBurst(e, d) ==
  /\ e \in Dev!Frame /\ IsEvent(e) /\ e.of = timestamp + 1
  /\ d \in Dev!Frame /\ ~IsEvent(d)
  /\ out' \in {out, Append(out, e), Append(out, d), Append(Append(out, e), d)}
  /\ timestamp' = timestamp + 1

LEMMA FramesProduced ==
  ASSUME Types, DeviceProduces
  PROVE  (\E f : NewFrame(f)) \/ (\E e, d : NewBurst(e, d))
<1>0. Dev!AppTypeOK BY DEF Types, DeviceTypes
<1>1. /\ \A t \in Stamps : Dev!EventFrame(t) \in Dev!Frame
      /\ \A t \in Stamps \cup {0}, n \in Nat : Dev!DataFrame(t, n) \in Dev!Frame
      /\ Dev!CompleteFrame(timestamp) \in Dev!Frame
      /\ timestamp \in Stamps \cup {0}
  BY <1>0, FramesAreFrames
<1>2. CASE DeviceFires
  <2>1. PICK due \in BOOLEAN, count \in PacketCounts : Dev!Fire(due, count)
    BY <1>2 DEF DeviceFires
  <2> DEFINE e == Dev!EventFrame(Dev!NextStamp)
             d == Dev!DataFrame(Dev!NextStamp, 1)
  <2>2. Dev!NextStamp \in Stamps /\ Dev!NextStamp = timestamp + 1
    BY <1>0, <1>2, NextStampIsNew DEF DeviceFires
  <2>3. /\ e \in Dev!Frame /\ d \in Dev!Frame
        /\ IsEvent(e) /\ e.of = timestamp + 1 /\ ~IsEvent(d)
    BY <1>1, <2>2 DEF IsEvent, Dev!EventFrame, Dev!DataFrame
  <2>4. timestamp' = timestamp + 1 /\ Dev!EmitAll(Dev!FireFrames(due))
    BY <2>1, <2>2 DEF Dev!Fire, Dev!FireEvent
  <2>5. out' \in {out, Append(out, e), Append(out, d), Append(Append(out, e), d)}
    <3>1. CASE due
      <4>1. Dev!FireFrames(due) = <<e, d>> BY <3>1 DEF Dev!FireFrames
      <4> HIDE DEF e, d
      <4>2. QED BY <2>4, <4>1 DEF Dev!EmitAll
    <3>2. CASE ~due
      <4>1. Dev!FireFrames(due) = <<e>> BY <3>2 DEF Dev!FireFrames
      <4> HIDE DEF e, d
      <4>2. QED BY <2>4, <4>1 DEF Dev!EmitAll, Dev!Emit
    <3>3. QED BY <3>1, <3>2
  <2> HIDE DEF e, d
  <2>6. NewBurst(e, d) BY <2>3, <2>4, <2>5 DEF NewBurst
  <2>7. QED BY <2>6
<1>3. CASE DeviceSendsPacket
  <2>1. Dev!BurstFrame \in Dev!Frame /\ ~IsEvent(Dev!BurstFrame)
    BY <1>0, <1>1 DEF Dev!BurstFrame, Dev!AppTypeOK, Dev!DataFrame, IsEvent
  <2>2. NewFrame(Dev!BurstFrame)
    BY <1>3, <2>1 DEF DeviceSendsPacket, Dev!BurstPacket, Dev!SendBurstPacket, Dev!Emit, NewFrame
  <2>3. QED BY <2>2
<1>4. CASE DeviceCompletes
  <2>1. ~IsEvent(Dev!CompleteFrame(timestamp)) BY DEF Dev!CompleteFrame, IsEvent
  <2>2. NewFrame(Dev!CompleteFrame(timestamp))
    BY <1>1, <1>4, <2>1 DEF DeviceCompletes, Dev!BurstComplete, Dev!CompleteBurst, Dev!Emit, NewFrame
  <2>3. QED BY <2>2
<1>5. CASE DeviceStreams
  <2>1. Dev!DataFrame(0, 0) \in Dev!Frame /\ ~IsEvent(Dev!DataFrame(0, 0))
    BY <1>1 DEF Dev!DataFrame, IsEvent
  <2>2. NewFrame(Dev!DataFrame(0, 0))
    BY <1>5, <2>1
    DEF DeviceStreams, Dev!StreamPacket, Dev!SendStreamPacket, Dev!trigger, Dev!Emit, NewFrame
  <2>3. QED BY <2>2
<1>6. QED BY <1>2, <1>3, <1>4, <1>5 DEF DeviceProduces

-----------------------------------------------------------------------------
(* The stamps of the events still to come are new to everybody before them.*)

Names(e, t) ==
  \/ e.kind = "TriggerEvent" /\ e.timestamp = t
  \/ IsLabelled(e) /\ e.trigger_timestamp = t

ProcStamps ==
  {c.burst : c \in closings} \cup ({current_trigger_timestamp} \ {None})
    \cup (IF Open THEN {current_trigger_burst.trigger_timestamp} ELSE {})

(* Stamps that occur somewhere in the gateway.                             *)
Known(t) ==
  \/ t \in ProcStamps
  \/ t = current_trigger /\ t # None
  \/ \E e : Occurs(events, e) /\ Names(e, t)

FramesLate ==
  \A f : Occurs(out, f) /\ IsEvent(f) =>
    f.of <= timestamp /\ \A t \in Stamps : Known(t) => t < f.of

FramesRise == \A f, g : Before(out, f, g) /\ IsEvent(f) /\ IsEvent(g) => f.of < g.of

KnownPast == \A t \in Stamps : Known(t) => t <= timestamp

EventsLate ==
  \A e : Occurs(events, e) /\ e.kind = "TriggerEvent" => \A t \in ProcStamps : t < e.timestamp

EventsRise ==
  \A d, e : Before(events, d, e) /\ e.kind = "TriggerEvent" =>
    \A t \in Stamps : Names(d, t) => t < e.timestamp

OpenLatest == Open => \A c \in closings : c.burst < current_trigger_burst.trigger_timestamp

Ordered == FramesLate /\ FramesRise /\ KnownPast /\ EventsLate /\ EventsRise /\ OpenLatest

LEMMA ProcStampsAreStamps == Types => ProcStamps \subseteq Stamps
BY DEF Types, ProcessorTypes, HistoryTypes, ClosingRecords, ProcStamps, Open

(* When nothing new is known and nothing new is on its way, order remains. *)
LEMMA OrderKept ==
  ASSUME Ordered, UNCHANGED <<closings, procVars>>, timestamp' = timestamp,
         \A t \in Stamps : Known(t)' => Known(t),
         \A f : Occurs(out', f) => Occurs(out, f),
         \A f, g : Before(out', f, g) => Before(out, f, g),
         \A e : Occurs(events', e) /\ e.kind = "TriggerEvent" => Occurs(events, e),
         \A d, e : Before(events', d, e) /\ e.kind = "TriggerEvent" => Before(events, d, e)
  PROVE  Ordered'
<1>1. ProcStamps' = ProcStamps /\ (Open' <=> Open) /\ current_trigger_burst' = current_trigger_burst
  BY DEF ProcStamps, Open, procVars
<1>2. FramesLate' BY DEF Ordered, FramesLate
<1>3. FramesRise' BY DEF Ordered, FramesRise
<1>4. KnownPast'  BY DEF Ordered, KnownPast
<1>5. EventsLate' BY <1>1 DEF Ordered, EventsLate
<1>6. EventsRise' BY DEF Ordered, EventsRise
<1>7. OpenLatest' BY <1>1 DEF Ordered, OpenLatest
<1>8. QED BY <1>2, <1>3, <1>4, <1>5, <1>6, <1>7 DEF Ordered

LEMMA KnownKept ==
  ASSUME UNCHANGED <<closings, procVars, current_trigger, events>>
  PROVE  \A t : Known(t)' <=> Known(t)
BY DEF Known, ProcStamps, Open, procVars

(* Frames the device adds.                                                 *)
LEMMA OrderWhenProduced ==
  ASSUME Types, Ordered, UNCHANGED <<closings, procVars, current_trigger, events>>,
         (\E f : NewFrame(f)) \/ (\E e, d : NewBurst(e, d))
  PROVE  Ordered'
<1>0. /\ out \in Seq(Dev!Frame) /\ timestamp \in Nat
      /\ \A t : Known(t)' <=> Known(t)
  BY KnownKept, FramesAreFrames DEF Types, QueueTypes, DeviceTypes
<1>1. ASSUME NEW f, NewFrame(f) PROVE Ordered'
  <2>1. /\ \A x : Occurs(out', x) => Occurs(out, x) \/ x = f
        /\ \A x, y : Before(out', x, y) => Before(out, x, y) \/ y = f
    <3>1. f \in Dev!Frame /\ (out' = out \/ out' = Append(out, f)) BY <1>1 DEF NewFrame
    <3>2. CASE out' = out BY <3>2
    <3>3. CASE out' = Append(out, f) BY <1>0, <3>1, <3>3, AppendOccurs
    <3>4. QED BY <3>1, <3>2, <3>3
  <2>2. FramesLate' BY <1>0, <1>1, <2>1 DEF Ordered, FramesLate, NewFrame
  <2>3. FramesRise' BY <1>1, <2>1 DEF Ordered, FramesRise, NewFrame
  <2>4. KnownPast'  BY <1>0, <1>1 DEF Ordered, KnownPast, NewFrame
  <2>5. EventsLate' /\ EventsRise' /\ OpenLatest'
    BY DEF Ordered, EventsLate, EventsRise, OpenLatest, ProcStamps, Open, procVars
  <2>6. QED BY <2>2, <2>3, <2>4, <2>5 DEF Ordered
<1>2. ASSUME NEW e, NEW d, NewBurst(e, d) PROVE Ordered'
  <2>1. /\ \A x : Occurs(out', x) => Occurs(out, x) \/ x = e \/ x = d
        /\ \A x, y : Before(out', x, y) =>
             Before(out, x, y) \/ (Occurs(out, x) /\ y = e) \/ y = d
    <3>0. e \in Dev!Frame /\ d \in Dev!Frame BY <1>2 DEF NewBurst
    <3>1. CASE out' \in {out, Append(out, e), Append(out, d)}
      <4>1. CASE out' = out BY <4>1
      <4>2. CASE out' = Append(out, e) BY <1>0, <3>0, <4>2, AppendOccurs
      <4>3. CASE out' = Append(out, d) BY <1>0, <3>0, <4>3, AppendOccurs
      <4>4. QED BY <3>1, <4>1, <4>2, <4>3
    <3>2. CASE out' = Append(Append(out, e), d)
      <4>1. Append(out, e) \in Seq(Dev!Frame) BY <1>0, <1>2 DEF NewBurst
      <4>2. /\ \A x : Occurs(out', x) => Occurs(Append(out, e), x) \/ x = d
            /\ \A x, y : Before(out', x, y) => Before(Append(out, e), x, y) \/ y = d
        BY <1>2, <3>2, <4>1, AppendOccurs DEF NewBurst
      <4>3. /\ \A x : Occurs(Append(out, e), x) => Occurs(out, x) \/ x = e
            /\ \A x, y : Before(Append(out, e), x, y) => Before(out, x, y) \/ (Occurs(out, x) /\ y = e)
        BY <1>0, <1>2, AppendOccurs DEF NewBurst
      <4>4. QED BY <4>2, <4>3
    <3>3. QED BY <1>2, <3>1, <3>2 DEF NewBurst
  <2>2. FramesLate'
    <3>1. ASSUME NEW x, Occurs(out', x), IsEvent(x)
          PROVE  x.of <= timestamp' /\ \A t \in Stamps : Known(t)' => t < x.of
      <4>1. CASE Occurs(out, x)
        <5>1. x.of \in Nat
          BY <1>0, <3>1, <4>1, FrameKinds, OccursInSet DEF Stamps, IsEvent
        <5>2. x.of <= timestamp /\ \A t \in Stamps : Known(t) => t < x.of
          BY <3>1, <4>1 DEF Ordered, FramesLate
        <5>3. QED BY <1>0, <1>2, <5>1, <5>2 DEF NewBurst
      <4>2. CASE x = e
        BY <1>0, <1>2, <4>2 DEF Ordered, KnownPast, NewBurst, Stamps
      <4>3. QED BY <1>2, <2>1, <3>1, <4>1, <4>2 DEF NewBurst
    <3>2. QED BY <3>1 DEF FramesLate
  <2>3. FramesRise'
    <3>1. ASSUME NEW x, NEW y, Before(out', x, y), IsEvent(x), IsEvent(y)
          PROVE  x.of < y.of
      <4>1. CASE Before(out, x, y) BY <3>1, <4>1 DEF Ordered, FramesRise
      <4>2. CASE Occurs(out, x) /\ y = e
        <5>1. x.of <= timestamp /\ x.of \in Nat
          BY <1>0, <3>1, <4>2, FrameKinds, OccursInSet DEF Ordered, FramesLate, Stamps, IsEvent
        <5>2. QED BY <1>0, <1>2, <4>2, <5>1 DEF NewBurst
      <4>3. QED BY <1>2, <2>1, <3>1, <4>1, <4>2 DEF NewBurst
    <3>2. QED BY <3>1 DEF FramesRise
  <2>4. KnownPast'  BY <1>0, <1>2 DEF Ordered, KnownPast, NewBurst, Stamps
  <2>5. EventsLate' /\ EventsRise' /\ OpenLatest'
    BY DEF Ordered, EventsLate, EventsRise, OpenLatest, ProcStamps, Open, procVars
  <2>6. QED BY <2>2, <2>3, <2>4, <2>5 DEF Ordered
<1>3. QED BY <1>1, <1>2

(* Frames the device task reads.                                           *)
LEMMA OrderWhenRead ==
  ASSUME Types, Ordered, ManagerReads
  PROVE  Ordered'
<1> DEFINE f == Head(out)
<1>0. /\ out \in Seq(Dev!Frame) /\ events \in Seq(Event) /\ out # <<>> /\ out' = Tail(out)
      /\ f \in Dev!Frame /\ current_trigger \in Stamps \cup {None}
      /\ UNCHANGED <<closings, procVars, timestamp>>
  BY DEF ManagerReads, Types, QueueTypes, ManagerTypes, deviceVars
<1>1. /\ Occurs(out, f)
      /\ \A x : Occurs(out', x) => Occurs(out, x) /\ Before(out, f, x)
      /\ \A x, y : Before(out', x, y) => Before(out, x, y)
  BY <1>0, TailOccurs
<1>2. Mgr!HandleEvent(f) \/ Mgr!HandleData(f) \/ Mgr!HandleComplete(f) \/ Mgr!HandleStatus(f)
        \/ Mgr!HandleOther(f)
  BY DEF ManagerReads, Mgr!HandleFrame
<1> HIDE DEF f
<1>3. ProcStamps' = ProcStamps
  BY <1>0 DEF ProcStamps, Open, procVars
<1>4. CASE Mgr!HandleEvent(f)
  <2> DEFINE e == [kind |-> "TriggerEvent", timestamp |-> f.of]
  <2>1. f.of \in Stamps /\ IsEvent(f)
    BY <1>0, <1>4, FrameKinds DEF Mgr!HandleEvent, IsEvent
  <2>2. e \in Event /\ events' = Append(events, e) /\ current_trigger' = f.of
    BY <1>4, <2>1 DEF Mgr!HandleEvent, Mgr!Report, Event, TriggerEvents
  <2>3. e.kind = "TriggerEvent" /\ e.timestamp = f.of /\ \A t : Names(e, t) <=> t = f.of
    BY DEF Names, IsLabelled
  <2> HIDE DEF e
  <2>4. /\ \A x : Occurs(events', x) <=> Occurs(events, x) \/ x = e
        /\ \A x, y : Before(events', x, y) => Before(events, x, y) \/ (Occurs(events, x) /\ y = e)
    BY <1>0, <2>2, AppendOccurs
  <2>5. \A t : Known(t)' => Known(t) \/ t = f.of
    BY <1>3, <2>2, <2>3, <2>4 DEF Known
  <2>6. f.of <= timestamp /\ \A t \in Stamps : Known(t) => t < f.of
    BY <1>1, <2>1 DEF Ordered, FramesLate
  <2>7. FramesLate'
    <3>1. \A x : Occurs(out', x) /\ IsEvent(x) => f.of < x.of
      BY <1>1, <2>1 DEF Ordered, FramesRise
    <3>2. QED BY <1>0, <1>1, <2>5, <3>1 DEF Ordered, FramesLate
  <2>8. FramesRise' BY <1>1 DEF Ordered, FramesRise
  <2>9. KnownPast'  BY <1>0, <2>5, <2>6 DEF Ordered, KnownPast
  <2>10. EventsLate'
    <3>1. \A t \in ProcStamps : t \in Stamps /\ Known(t)
      BY ProcStampsAreStamps DEF Known
    <3>2. QED BY <1>3, <2>3, <2>4, <2>6, <3>1 DEF Ordered, EventsLate
  <2>11. EventsRise'
    <3>1. \A x, t : Occurs(events, x) /\ Names(x, t) => Known(t)
      BY DEF Known
    <3>2. QED BY <2>3, <2>4, <2>6, <3>1 DEF Ordered, EventsRise
  <2>12. OpenLatest' BY <1>0 DEF Ordered, OpenLatest, Open, procVars
  <2>13. QED BY <2>7, <2>8, <2>9, <2>10, <2>11, <2>12 DEF Ordered
<1>5. ASSUME NEW e \in Event, events' = Append(events, e), e.kind # "TriggerEvent",
             \A t : Names(e, t) => t = current_trigger /\ t # None,
             current_trigger' = current_trigger
      PROVE  Ordered'
  <2>1. /\ \A x : Occurs(events', x) <=> Occurs(events, x) \/ x = e
        /\ \A x, y : Before(events', x, y) => Before(events, x, y) \/ (Occurs(events, x) /\ y = e)
    BY <1>0, <1>5, AppendOccurs
  <2>2. \A t : Known(t)' => Known(t)
    BY <1>3, <1>5, <2>1 DEF Known
  <2>3. QED BY <1>0, <1>1, <1>5, <2>1, <2>2, OrderKept
<1>6. CASE Mgr!HandleData(f)
  <2> DEFINE e == Mgr!Labelled(f)
  <2>1. e \in Event /\ e.kind = "DataPacket"
    BY <1>0, <1>6, FrameKinds
    DEF Mgr!HandleData, Mgr!Labelled, Event, LabelledPackets, ContinuousPackets, Types, ManagerTypes
  <2>2. \A t : Names(e, t) => t = current_trigger /\ t # None
    BY DEF Mgr!Labelled, Names, IsLabelled
  <2>3. QED BY <1>5, <1>6, <2>1, <2>2 DEF Mgr!HandleData, Mgr!Report
<1>7. CASE Mgr!HandleComplete(f)
  <2> DEFINE e == [kind |-> "BufferTransferComplete", frame |-> f]
  <2>1. e \in Event
    BY <1>0, <1>7, FrameKinds DEF Mgr!HandleComplete, Event, Completions
  <2>2. e.kind # "TriggerEvent" /\ \A t : ~Names(e, t) BY DEF Names, IsLabelled
  <2>3. QED BY <1>5, <1>7, <2>1, <2>2 DEF Mgr!HandleComplete, Mgr!Report
<1>8. CASE Mgr!HandleStatus(f)
  <2> DEFINE e == [kind |-> "StatusUpdate"]
  <2>1. e \in Event BY DEF Event, StatusReports
  <2>2. e.kind # "TriggerEvent" /\ \A t : ~Names(e, t) BY DEF Names, IsLabelled
  <2>3. QED BY <1>5, <1>8, <2>1, <2>2 DEF Mgr!HandleStatus, Mgr!Report
<1>9. CASE Mgr!HandleOther(f)
  <2>1. \A t : Known(t)' => Known(t) BY <1>3, <1>9 DEF Known, Mgr!HandleOther
  <2>2. events' = events BY <1>9 DEF Mgr!HandleOther
  <2>3. QED BY <1>0, <1>1, <2>1, <2>2, OrderKept
<1>10. QED BY <1>2, <1>4, <1>6, <1>7, <1>8, <1>9

(* A packet leaves the open burst open, whatever it adds to it.            *)
LEMMA ProcessKeepsOpen ==
  ASSUME Types, NEW e \in Event, e.kind = "DataPacket", Proc!ProcessPacket(Packet(e))
  PROVE  /\ Open' <=> Open
         /\ Open => current_trigger_burst'.trigger_timestamp = current_trigger_burst.trigger_timestamp
<1>1. CASE Proc!ProcessRefused(Packet(e))
  BY <1>1 DEF Proc!ProcessRefused, Proc!procVars, Open
<1>2. CASE Proc!ProcessContinuous(Packet(e)) BY <1>2 DEF Proc!ProcessContinuous, Open
<1>3. CASE Proc!ProcessTrigger(Packet(e))
  <2>1. current_trigger_burst # None => current_trigger_burst \in Proc!Burst
    BY DEF Types, ProcessorTypes, Proc!ProcTypeOK
  <2>2. CASE current_trigger_burst = None BY <1>3, <2>2 DEF Proc!ProcessTrigger, Open
  <2>3. CASE current_trigger_burst # None
    <3> DEFINE t == Packet(e).trigger_timestamp
               seq == IF current_trigger_timestamp = t THEN trigger_burst_sequence + 1 ELSE 1
               p == [trigger_timestamp |-> t, sequence_in_burst |-> seq, tag |-> Packet(e).tag]
               b == [current_trigger_burst EXCEPT !.data_packets = Append(@, p)]
    <3>1. current_trigger_burst' = b BY <1>3, <2>3 DEF Proc!ProcessTrigger
    <3>2. p \in Proc!StoredPacket
      <4>1. e.source = "Trigger" BY <1>3, PacketType DEF Proc!ProcessTrigger
      <4>0. t \in Stamps /\ Packet(e).tag \in PacketTags BY <4>1, PacketType, EventKinds
      <4>2. t \in Nat /\ Packet(e).tag \in PacketTags BY <4>0 DEF Stamps
      <4>3. seq \in Nat BY DEF Types, ProcessorTypes, Proc!ProcTypeOK
      <4>4. QED BY <4>2, <4>3 DEF Proc!StoredPacket
    <3>3. b \in Proc!Burst BY <2>3, <3>2, AddedPacket
    <3>4. b # None BY <3>3, NoneIsNoBurst
    <3>5. b.trigger_timestamp = current_trigger_burst.trigger_timestamp
      BY <2>1, <2>3 DEF Proc!Burst
    <3> HIDE DEF b
    <3>6. QED BY <2>3, <3>1, <3>4, <3>5 DEF Open
  <2>4. QED BY <2>2, <2>3
<1>4. QED BY <1>1, <1>2, <1>3 DEF Proc!ProcessPacket

(* Handling an event makes the processor know what the event names.        *)
LEMMA LoopStamps ==
  ASSUME Types, EventLoop
  PROVE  \A t \in ProcStamps' : t \in ProcStamps \/ Names(Head(events), t)
<1> DEFINE e == Head(events)
<1>0. e \in Event BY DEF EventLoop, Types, QueueTypes
<1>1. CASE OnConnected
  BY <1>1 DEF OnConnected, Proc!ResetTriggerState, ProcStamps, Open
<1>2. CASE OnTriggerEvent
  BY <1>2 DEF OnTriggerEvent, NextEvent, Proc!StartTriggerBurst, ProcStamps, Open, Names
<1>3. CASE OnDataPacket
  <2>1. closings' = closings /\ e.kind = "DataPacket" /\ Proc!ProcessPacket(Packet(e))
    BY <1>3 DEF OnDataPacket, NextEvent
  <2>2. CASE Proc!ProcessRefused(Packet(e))
    BY <2>1, <2>2 DEF Proc!ProcessRefused, Proc!procVars, ProcStamps, Open
  <2>3. CASE Proc!ProcessContinuous(Packet(e))
    BY <2>1, <2>3 DEF Proc!ProcessContinuous, ProcStamps, Open
  <2>4. CASE Proc!ProcessTrigger(Packet(e))
    <3>1. IsLabelled(e) /\ Packet(e).trigger_timestamp = e.trigger_timestamp
      BY <1>0, <2>1, <2>4, PacketType DEF Proc!ProcessTrigger, IsLabelled
    <3>2. current_trigger_timestamp' = e.trigger_timestamp
      BY <2>4, <3>1 DEF Proc!ProcessTrigger
    <3>3. QED BY <1>0, <2>1, <3>1, <3>2, ProcessKeepsOpen DEF ProcStamps, Names
  <2>5. QED BY <2>1, <2>2, <2>3, <2>4 DEF Proc!ProcessPacket
<1>4. CASE OnTransferComplete
  BY <1>4 DEF OnTransferComplete, Proc!CompleteTriggerBurst, Closing, ProcStamps, Open
<1>5. CASE OnDisconnected \/ OnTransferCompleteUnexpected \/ OnStatusUpdate
  BY <1>5 DEF OnDisconnected, OnTransferCompleteUnexpected, OnStatusUpdate, Proc!CompleteNothing,
              Proc!procVars, procVars, ProcStamps, Open
<1>6. QED BY <1>1, <1>2, <1>3, <1>4, <1>5 DEF EventLoop

(* The open burst is replaced by a newer one only.                         *)
LEMMA LoopOpens ==
  ASSUME Types, Ordered, EventLoop
  PROVE  OpenLatest'
<1> DEFINE e == Head(events)
<1>0. e \in Event /\ Occurs(events, e)
  BY TailOccurs DEF EventLoop, Types, QueueTypes
<1>1. CASE OnConnected
  BY <1>1 DEF OnConnected, Proc!ResetTriggerState, OpenLatest, Open
<1>2. CASE OnTriggerEvent
  <2>1. \A c \in closings : c.burst < e.timestamp
    BY <1>0, <1>2 DEF Ordered, EventsLate, ProcStamps, OnTriggerEvent, NextEvent
  <2>2. QED BY <1>2, <2>1 DEF OnTriggerEvent, Proc!StartTriggerBurst, OpenLatest
<1>3. CASE OnDataPacket
  <2>1. closings' = closings /\ e.kind = "DataPacket" /\ Proc!ProcessPacket(Packet(e))
    BY <1>3 DEF OnDataPacket, NextEvent
  <2>2. QED BY <1>0, <2>1, ProcessKeepsOpen DEF Ordered, OpenLatest
<1>4. CASE OnTransferComplete
  BY <1>4 DEF OnTransferComplete, Proc!CompleteTriggerBurst, OpenLatest, Open
<1>5. CASE OnDisconnected \/ OnTransferCompleteUnexpected \/ OnStatusUpdate
  BY <1>5 DEF OnDisconnected, OnTransferCompleteUnexpected, OnStatusUpdate, Proc!CompleteNothing,
              Proc!procVars, procVars, Open, Ordered, OpenLatest
<1>6. QED BY <1>1, <1>2, <1>3, <1>4, <1>5 DEF EventLoop

LEMMA OrderWhenHandled ==
  ASSUME Types, Ordered, EventLoop
  PROVE  Ordered'
<1> DEFINE h == Head(events)
<1>0. /\ events \in Seq(Event) /\ events # <<>> /\ events' = Tail(events)
      /\ UNCHANGED <<out, timestamp, current_trigger>>
  BY DEF EventLoop, Types, QueueTypes, deviceVars
<1>1. /\ Occurs(events, h)
      /\ \A x : Occurs(events', x) => Occurs(events, x) /\ Before(events, h, x)
      /\ \A x, y : Before(events', x, y) => Before(events, x, y)
  BY <1>0, TailOccurs
<1>2. \A t \in ProcStamps' : t \in ProcStamps \/ Names(h, t)
  BY LoopStamps
<1>3. ProcStamps' \subseteq Stamps
  <2>1. Types' BY EventLoopTypes
  <2>2. QED BY <2>1 DEF Types, ProcessorTypes, HistoryTypes, ClosingRecords, ProcStamps, Open, Stamps
<1> HIDE DEF h
<1>4. \A t : Known(t)' => Known(t)
  BY <1>0, <1>1, <1>2 DEF Known
<1>5. FramesLate' BY <1>0, <1>4 DEF Ordered, FramesLate
<1>6. FramesRise' BY <1>0 DEF Ordered, FramesRise
<1>7. KnownPast'  BY <1>0, <1>4 DEF Ordered, KnownPast
<1>8. EventsLate' BY <1>1, <1>2, <1>3 DEF Ordered, EventsLate, EventsRise
<1>9. EventsRise' BY <1>1 DEF Ordered, EventsRise
<1>10. OpenLatest' BY LoopOpens
<1>11. QED BY <1>5, <1>6, <1>7, <1>8, <1>9, <1>10 DEF Ordered

LEMMA OrderStep ==
  ASSUME Types, Ordered, [Next]_vars
  PROVE  Ordered'
<1>0. events \in Seq(Event) /\ out \in Seq(Dev!Frame) BY DEF Types, QueueTypes
<1>1. CASE DeviceReads
  <2>1. \E f : NewFrame(f) BY <1>1, ReplySent DEF NewFrame
  <2>2. UNCHANGED <<closings, procVars, current_trigger, events>> BY <1>1 DEF DeviceReads
  <2>3. QED BY <2>1, <2>2, OrderWhenProduced
<1>2. CASE DeviceProduces
  <2>1. UNCHANGED <<closings, procVars, current_trigger, events>>
    BY <1>2 DEF DeviceProduces, managerVars
  <2>2. QED BY <1>2, <2>1, FramesProduced, OrderWhenProduced
<1>3. CASE Break
  <2>1. UNCHANGED <<closings, procVars, current_trigger, events, timestamp>>
    BY <1>3 DEF Break, deviceVars
  <2>2. PICK n \in 0..Len(out) : out' = SubSeq(out, 1, n) BY <1>3 DEF Break
  <2>3. /\ Len(out) \in Nat /\ Len(out') \in Nat /\ Len(out') <= Len(out)
        /\ \A i \in 1..Len(out') : out'[i] = out[i]
    BY <1>0, <2>2
  <2>4. /\ \A x : Occurs(out', x) => Occurs(out, x)
        /\ \A x, y : Before(out', x, y) => Before(out, x, y)
    BY <2>3, PrefixOrder
  <2>5. QED BY <2>1, <2>4, KnownKept, OrderKept
<1>4. CASE ManagerConnects \/ ManagerLosesConnection
  <2>1. PICK e \in StatusReports : events' = Append(events, e)
    <3>1. [kind |-> "Connected"] \in StatusReports /\ [kind |-> "Disconnected"] \in StatusReports
      BY DEF StatusReports
    <3>2. QED BY <1>4, <3>1 DEF ManagerConnects, ManagerLosesConnection, Mgr!Connect,
                                Mgr!ReadError, Mgr!Report
  <2>2. e \in Event /\ e.kind # "TriggerEvent" /\ \A t : ~Names(e, t)
    BY <2>1 DEF Event, StatusReports, Names, IsLabelled
  <2>3. /\ \A x : Occurs(events', x) <=> Occurs(events, x) \/ x = e
        /\ \A x, y : Before(events', x, y) => Before(events, x, y) \/ (Occurs(events, x) /\ y = e)
    BY <1>0, <2>1, <2>2, AppendOccurs
  <2>4. UNCHANGED <<closings, procVars, current_trigger, out, timestamp>>
    BY <1>4 DEF ManagerConnects, ManagerLosesConnection, Mgr!Connect, Mgr!ReadError, deviceVars
  <2>5. \A t : Known(t)' => Known(t)
    BY <2>2, <2>3, <2>4 DEF Known, ProcStamps, Open, procVars
  <2>6. QED BY <2>2, <2>3, <2>4, <2>5, OrderKept
<1>5. CASE ManagerSendsCommand
  <2>1. /\ UNCHANGED <<closings, procVars, events, out, timestamp>>
        /\ current_trigger' \in {None, current_trigger}
    BY <1>5 DEF ManagerSendsCommand, Mgr!HandleCommand, deviceVars
  <2>2. \A t : Known(t)' => Known(t)
    BY <2>1 DEF Known, ProcStamps, Open, procVars
  <2>3. QED BY <2>1, <2>2, OrderKept
<1>6. CASE ManagerReads BY <1>6, OrderWhenRead
<1>7. CASE EventLoop BY <1>7, OrderWhenHandled
<1>8. CASE UserDeletes
  <2>1. UNCHANGED <<closings, current_trigger_timestamp, current_trigger_burst, current_trigger,
                    events, out, timestamp>>
    BY <1>8 DEF UserDeletes, Proc!RemoveTriggerBurst, managerVars, deviceVars
  <2>2. ProcStamps' = ProcStamps /\ (Open' <=> Open) BY <2>1 DEF ProcStamps, Open
  <2>3. \A t : Known(t)' <=> Known(t) BY <2>1, <2>2 DEF Known
  <2>4. QED BY <2>1, <2>2, <2>3 DEF Ordered, FramesLate, FramesRise, KnownPast, EventsLate,
                                    EventsRise, OpenLatest
<1>9. CASE ManagerPings \/ UserPosts \/ UNCHANGED vars
  <2>1. UNCHANGED <<closings, procVars, current_trigger, events, out, timestamp>>
    BY <1>9 DEF ManagerPings, Mgr!KeepAlive, UserPosts, vars, deviceVars, managerVars
  <2>2. QED BY <2>1, KnownKept, OrderKept
<1>10. QED BY <1>1, <1>2, <1>3, <1>4, <1>5, <1>6, <1>7, <1>8, <1>9 DEF Next, Manager

LEMMA OrderInit == Init => Ordered
<1> SUFFICES ASSUME Init PROVE Ordered
  OBVIOUS
<1>1. /\ out = <<>> /\ events = <<>> /\ closings = {} /\ current_trigger = None
      /\ current_trigger_timestamp = None /\ current_trigger_burst = None
  BY DEF Init, Mgr!ManagerInit, Proc!ProcInit
<1>2. ProcStamps = {} /\ ~Open BY <1>1 DEF ProcStamps, Open
<1>3. \A t : ~Known(t) BY <1>1, <1>2, EmptyOrder DEF Known
<1>4. QED
  BY <1>1, <1>2, <1>3, EmptyOrder
  DEF Ordered, FramesLate, FramesRise, KnownPast, EventsLate, EventsRise, OpenLatest

LEMMA OrderHolds == Spec => []Ordered
BY OrderInit, OrderStep, TypesHold, PTL DEF Spec

-----------------------------------------------------------------------------
(* The labels of the packets and the burst that is open agree.             *)

(* What a labelled packet leaves in the open burst.                        *)
LEMMA PacketStored ==
  ASSUME Types, NEW e \in Event, e.kind = "DataPacket", Proc!ProcessTrigger(Packet(e)), Open
  PROVE  \E p \in Proc!StoredPacket :
           /\ p.trigger_timestamp = e.trigger_timestamp
           /\ p.sequence_in_burst = trigger_burst_sequence'
           /\ p.tag = [of |-> e.frame.of, n |-> e.frame.n]
           /\ current_trigger_burst.data_packets \in Seq(Proc!StoredPacket)
           /\ current_trigger_burst'.data_packets = Append(current_trigger_burst.data_packets, p)
           /\ current_trigger_burst'.data_packets \in Seq(Proc!StoredPacket)
<1> DEFINE t == Packet(e).trigger_timestamp
           seq == IF current_trigger_timestamp = t THEN trigger_burst_sequence + 1 ELSE 1
           p == [trigger_timestamp |-> t, sequence_in_burst |-> seq, tag |-> Packet(e).tag]
<1>1. current_trigger_burst \in Proc!Burst
  BY DEF Types, ProcessorTypes, Proc!ProcTypeOK, Open
<1>2. /\ current_trigger_burst' = [current_trigger_burst EXCEPT !.data_packets = Append(@, p)]
      /\ trigger_burst_sequence' = seq
  BY DEF Proc!ProcessTrigger, Open
<1>3. e.source = "Trigger" BY PacketType DEF Proc!ProcessTrigger
<1>4. /\ t = e.trigger_timestamp /\ t \in Stamps
      /\ Packet(e).tag = [of |-> e.frame.of, n |-> e.frame.n] /\ Packet(e).tag \in PacketTags
  BY <1>3, PacketType, EventKinds
<1>5. p \in Proc!StoredPacket
  <2>1. seq \in Nat BY DEF Types, ProcessorTypes, Proc!ProcTypeOK
  <2>2. t \in Nat BY <1>4 DEF Stamps
  <2>3. QED BY <1>4, <2>1, <2>2 DEF Proc!StoredPacket
<1>6. /\ p.trigger_timestamp = e.trigger_timestamp /\ p.sequence_in_burst = seq
      /\ p.tag = [of |-> e.frame.of, n |-> e.frame.n]
  BY <1>4
<1> HIDE DEF p, seq, t
<1>7. current_trigger_burst.data_packets \in Seq(Proc!StoredPacket)
  BY <1>1 DEF Proc!Burst
<1>8. Append(current_trigger_burst.data_packets, p) \in Seq(Proc!StoredPacket)
  BY <1>5, <1>7
<1>9. current_trigger_burst'.data_packets = Append(current_trigger_burst.data_packets, p)
  BY <1>1, <1>2 DEF Proc!Burst
<1>10. QED BY <1>2, <1>5, <1>6, <1>7, <1>8, <1>9

Labelling == {e \in Event : e.kind \in {"Connected", "TriggerEvent", "DataPacket"}}

(* After e, no burst is open or the burst of t is.                         *)
Announces(e, t) == e.kind = "Connected" \/ Names(e, t)

(* The open burst, if any, is that of t, and its numbering is where it ought  *)
(* to be.                                                                  *)
OpenFor(t) ==
  Open =>
    /\ current_trigger_burst.trigger_timestamp = t
    /\ IF current_trigger_burst.data_packets = <<>>
         THEN current_trigger_timestamp # t
         ELSE /\ current_trigger_timestamp = t
              /\ trigger_burst_sequence = Len(current_trigger_burst.data_packets)

(* A labelled packet comes after something that made its burst the open one,  *)
(* and so will the next one the device task labels.                        *)
LabelsFollow ==
  \A d, e : NextIn(events, Labelling, d, e) /\ IsLabelled(e) => Announces(d, e.trigger_timestamp)

LabelsBegin == \A e : FirstIn(events, Labelling, e) /\ IsLabelled(e) => OpenFor(e.trigger_timestamp)

LabelsToCome ==
  trigger_active /\ current_trigger # None =>
    /\ \A d : LastIn(events, Labelling, d) => Announces(d, current_trigger)
    /\ NoneIn(events, Labelling) => OpenFor(current_trigger)

LabelsFit == LabelsFollow /\ LabelsBegin /\ LabelsToCome

LEMMA LabelsKept ==
  ASSUME LabelsFit, events' = events,
         UNCHANGED <<current_trigger_timestamp, trigger_burst_sequence, current_trigger_burst>>,
         trigger_active' /\ current_trigger' # None =>
           trigger_active /\ current_trigger' = current_trigger
  PROVE  LabelsFit'
<1>1. Labelling' = Labelling OBVIOUS
<1>2. (Open' <=> Open) /\ \A t : OpenFor(t)' <=> OpenFor(t) BY DEF Open, OpenFor
<1>3. LabelsFollow' BY DEF LabelsFit, LabelsFollow
<1>4. LabelsBegin' BY <1>2 DEF LabelsFit, LabelsBegin
<1>5. LabelsToCome' BY <1>2 DEF LabelsFit, LabelsToCome
<1>6. QED BY <1>3, <1>4, <1>5 DEF LabelsFit

(* The device task appends an event.                                       *)
LEMMA LabelsAppended ==
  ASSUME Types, LabelsFit, NEW e \in Event, events' = Append(events, e),
         UNCHANGED <<current_trigger_timestamp, trigger_burst_sequence, current_trigger_burst,
                     trigger_active>>,
         IsLabelled(e) => trigger_active /\ e.trigger_timestamp = current_trigger /\ current_trigger # None,
         trigger_active /\ current_trigger' # None =>
           IF e \in Labelling THEN Announces(e, current_trigger')
                              ELSE current_trigger' = current_trigger
  PROVE  LabelsFit'
<1>0. events \in Seq(Event) BY DEF Types, QueueTypes
<1>1. (Open' <=> Open) /\ \A t : OpenFor(t)' <=> OpenFor(t) BY DEF Open, OpenFor
<1>2. CASE e \in Labelling
  <2>1. /\ \A x, y : NextIn(events', Labelling, x, y) =>
                       NextIn(events, Labelling, x, y) \/ (LastIn(events, Labelling, x) /\ y = e)
        /\ \A y : FirstIn(events', Labelling, y) =>
                    FirstIn(events, Labelling, y) \/ (NoneIn(events, Labelling) /\ y = e)
        /\ \A x : LastIn(events', Labelling, x) => x = e
        /\ ~NoneIn(events', Labelling)
    BY <1>0, <1>2, AppendIn
  <2>2. LabelsFollow' BY <2>1 DEF LabelsFit, LabelsFollow, LabelsToCome
  <2>3. LabelsBegin' BY <1>1, <2>1 DEF LabelsFit, LabelsBegin, LabelsToCome
  <2>4. LabelsToCome' BY <1>2, <2>1 DEF LabelsToCome
  <2>5. QED BY <2>2, <2>3, <2>4 DEF LabelsFit
<1>3. CASE e \notin Labelling
  <2>1. /\ \A x, y : NextIn(events', Labelling, x, y) => NextIn(events, Labelling, x, y)
        /\ \A y : FirstIn(events', Labelling, y) => FirstIn(events, Labelling, y)
        /\ \A x : LastIn(events', Labelling, x) => LastIn(events, Labelling, x)
        /\ NoneIn(events', Labelling) => NoneIn(events, Labelling)
    BY <1>0, <1>3, AppendOut
  <2>2. LabelsFollow' BY <2>1 DEF LabelsFit, LabelsFollow
  <2>3. LabelsBegin' BY <1>1, <2>1 DEF LabelsFit, LabelsBegin
  <2>4. LabelsToCome' BY <1>1, <1>3, <2>1 DEF LabelsFit, LabelsToCome
  <2>5. QED BY <2>2, <2>3, <2>4 DEF LabelsFit
<1>4. QED BY <1>2, <1>3

(* Handling an event of its kind opens the burst it announces, or finds it *)
(* open and numbers on.                                                    *)
LEMMA HandlingOpens ==
  ASSUME Types, Ordered, LabelsFit, EventLoop, Head(events) \in Labelling,
         NEW t \in Stamps, Announces(Head(events), t)
  PROVE  OpenFor(t)'
<1> DEFINE h == Head(events)
<1>0. /\ events \in Seq(Event) /\ events # <<>> /\ h \in Event /\ t \in Nat
  BY DEF EventLoop, Types, QueueTypes, Labelling, Stamps
<1>1. CASE OnConnected
  BY <1>1 DEF OnConnected, Proc!ResetTriggerState, OpenFor, Open
<1>2. CASE OnTriggerEvent
  <2>1. h.kind = "TriggerEvent" /\ h.timestamp = t /\ Occurs(events, h)
    BY <1>0, <1>2, TailOccurs DEF OnTriggerEvent, NextEvent, Announces, Names, IsLabelled
  <2>2. current_trigger_timestamp # t
    <3>1. \A s \in ProcStamps : s < t BY <2>1 DEF Ordered, EventsLate
    <3>2. CASE current_trigger_timestamp = t
      <4>1. t \in ProcStamps BY <1>0, <3>2, NoneIsNoNumber DEF ProcStamps
      <4>2. QED BY <1>0, <3>1, <4>1
    <3>3. QED BY <3>2
  <2>3. QED
    BY <1>2, <2>1, <2>2 DEF OnTriggerEvent, Proc!StartTriggerBurst, OpenFor
<1>3. CASE OnDataPacket
  <2>1. h.kind = "DataPacket" /\ Proc!ProcessPacket(Packet(h))
    BY <1>3 DEF OnDataPacket, NextEvent
  <2>2. IsLabelled(h) /\ h.trigger_timestamp = t
    BY <2>1 DEF Announces, Names
  <2>3. OpenFor(t)
    BY <1>0, <2>2, TailIn DEF LabelsFit, LabelsBegin
  <2>4. CASE Proc!ProcessRefused(Packet(h))
    BY <2>3, <2>4 DEF Proc!ProcessRefused, Proc!procVars, OpenFor, Open
  <2>5. CASE Proc!ProcessTrigger(Packet(h))
    <3>1. Packet(h).trigger_timestamp = t BY <1>0, <2>1, <2>2, PacketType DEF IsLabelled
    <3>2. current_trigger_timestamp' = t
          /\ trigger_burst_sequence' =
               IF current_trigger_timestamp = t THEN trigger_burst_sequence + 1 ELSE 1
      BY <2>5, <3>1 DEF Proc!ProcessTrigger
    <3>3. SUFFICES ASSUME Open' PROVE OpenFor(t)'
      BY DEF OpenFor
    <3>4. Open /\ current_trigger_burst'.trigger_timestamp = current_trigger_burst.trigger_timestamp
      BY <1>0, <2>1, <3>3, ProcessKeepsOpen
    <3>5. PICK p \in Proc!StoredPacket :
            /\ current_trigger_burst.data_packets \in Seq(Proc!StoredPacket)
            /\ current_trigger_burst'.data_packets = Append(current_trigger_burst.data_packets, p)
      BY <1>0, <2>1, <2>5, <3>4, PacketStored
    <3> DEFINE q == current_trigger_burst.data_packets
    <3>6. q \in Seq(Proc!StoredPacket) /\ current_trigger_burst'.data_packets = Append(q, p)
      BY <3>5
    <3>7. /\ current_trigger_burst.trigger_timestamp = t
          /\ IF q = <<>> THEN current_trigger_timestamp # t
             ELSE current_trigger_timestamp = t /\ trigger_burst_sequence = Len(q)
      BY <2>3, <3>4 DEF OpenFor
    <3> HIDE DEF q
    <3>8. Append(q, p) # <<>> /\ Len(Append(q, p)) = Len(q) + 1 BY <3>6
    <3>9. trigger_burst_sequence' = Len(Append(q, p))
      <4>1. q = <<>> => Len(q) = 0 OBVIOUS
      <4>2. QED BY <3>2, <3>7, <3>8, <4>1
    <3>10. QED BY <3>2, <3>4, <3>6, <3>7, <3>8, <3>9 DEF OpenFor
  <2>6. Packet(h).source = "Trigger" BY <1>0, <2>1, <2>2, PacketType DEF IsLabelled
  <2>7. QED BY <2>1, <2>4, <2>5, <2>6 DEF Proc!ProcessPacket, Proc!ProcessContinuous
<1>4. QED
  BY <1>1, <1>2, <1>3 DEF EventLoop, Labelling, NextEvent, OnDisconnected, OnTransferComplete,
     OnTransferCompleteUnexpected, OnStatusUpdate

LEMMA LabelsHandled ==
  ASSUME Types, Ordered, LabelsFit, EventLoop
  PROVE  LabelsFit'
<1> DEFINE h == Head(events)
<1>0. /\ events \in Seq(Event) /\ events # <<>> /\ h \in Event /\ events' = Tail(events)
      /\ UNCHANGED <<trigger_active, current_trigger>>
      /\ current_trigger # None => current_trigger \in Stamps
  BY DEF EventLoop, Types, QueueTypes, ManagerTypes
<1>1. CASE h \in Labelling
  <2>1. /\ \A x, y : NextIn(events', Labelling, x, y) => NextIn(events, Labelling, x, y)
        /\ \A y : FirstIn(events', Labelling, y) => NextIn(events, Labelling, h, y)
        /\ \A x : LastIn(events', Labelling, x) => LastIn(events, Labelling, x)
        /\ NoneIn(events', Labelling) => LastIn(events, Labelling, h)
    BY <1>0, <1>1, TailIn
  <2>2. LabelsFollow' BY <2>1 DEF LabelsFit, LabelsFollow
  <2>3. LabelsBegin'
    <3>1. ASSUME NEW y, FirstIn(events', Labelling, y), IsLabelled(y)
          PROVE  OpenFor(y.trigger_timestamp)'
      <4>1. Announces(h, y.trigger_timestamp) BY <2>1, <3>1 DEF LabelsFit, LabelsFollow
      <4>2. y \in Event BY <3>1 DEF FirstIn, Labelling
      <4>3. y.trigger_timestamp \in Stamps BY <3>1, <4>2, EventKinds DEF IsLabelled
      <4>4. \A t \in Stamps : Announces(h, t) => OpenFor(t)' BY <1>1, HandlingOpens
      <4>5. QED BY <4>1, <4>3, <4>4
    <3>2. QED BY <3>1 DEF LabelsBegin
  <2>4. LabelsToCome'
    <3>1. \A t \in Stamps : Announces(h, t) => OpenFor(t)' BY <1>1, HandlingOpens
    <3>2. QED BY <1>0, <2>1, <3>1 DEF LabelsFit, LabelsToCome
  <2>5. QED BY <2>2, <2>3, <2>4 DEF LabelsFit
<1>2. CASE h \notin Labelling
  <2>1. /\ \A x, y : NextIn(events', Labelling, x, y) => NextIn(events, Labelling, x, y)
        /\ \A y : FirstIn(events', Labelling, y) => FirstIn(events, Labelling, y)
        /\ \A x : LastIn(events', Labelling, x) => LastIn(events, Labelling, x)
        /\ NoneIn(events', Labelling) => NoneIn(events, Labelling)
    BY <1>0, <1>2, TailOut
  <2>2. \A t : OpenFor(t) => OpenFor(t)'
    <3>1. OnDisconnected \/ OnTransferComplete \/ OnTransferCompleteUnexpected \/ OnStatusUpdate
      BY <1>0, <1>2 DEF EventLoop, Labelling, NextEvent, OnConnected, OnTriggerEvent, OnDataPacket
    <3>2. CASE OnTransferComplete
      BY <3>2 DEF OnTransferComplete, Proc!CompleteTriggerBurst, OpenFor, Open
    <3>3. CASE OnDisconnected \/ OnTransferCompleteUnexpected \/ OnStatusUpdate
      BY <3>3 DEF OnDisconnected, OnTransferCompleteUnexpected, OnStatusUpdate,
                  Proc!CompleteNothing, Proc!procVars, procVars, OpenFor, Open
    <3>4. QED BY <3>1, <3>2, <3>3
  <2>3. LabelsFollow' BY <2>1 DEF LabelsFit, LabelsFollow
  <2>4. LabelsBegin' BY <2>1, <2>2 DEF LabelsFit, LabelsBegin
  <2>5. LabelsToCome' BY <1>0, <2>1, <2>2 DEF LabelsFit, LabelsToCome
  <2>6. QED BY <2>3, <2>4, <2>5 DEF LabelsFit
<1>3. QED BY <1>1, <1>2

LEMMA LabelsStep ==
  ASSUME Types, Ordered, LabelsFit, [Next]_vars
  PROVE  LabelsFit'
<1> USE DEF procVars
<1>1. CASE ManagerConnects \/ ManagerLosesConnection
  <2>1. PICK e \in StatusReports : events' = Append(events, e) /\ e.kind \in {"Connected", "Disconnected"}
    <3>1. [kind |-> "Connected"] \in StatusReports /\ [kind |-> "Disconnected"] \in StatusReports
      BY DEF StatusReports
    <3>2. QED BY <1>1, <3>1 DEF ManagerConnects, ManagerLosesConnection, Mgr!Connect,
                                Mgr!ReadError, Mgr!Report
  <2>2. e \in Event /\ ~IsLabelled(e) /\ (e \in Labelling => e.kind = "Connected")
    BY <2>1 DEF Event, IsLabelled, Labelling
  <2>3. UNCHANGED <<procVars, trigger_active, current_trigger>>
    BY <1>1 DEF ManagerConnects, ManagerLosesConnection, Mgr!Connect, Mgr!ReadError
  <2>4. QED BY <2>1, <2>2, <2>3, LabelsAppended DEF Announces
<1>2. CASE ManagerSendsCommand
  BY <1>2, LabelsKept DEF ManagerSendsCommand, Mgr!HandleCommand
<1>3. CASE ManagerReads
  <2> DEFINE f == Head(out)
  <2>0. /\ f \in Dev!Frame /\ UNCHANGED <<procVars, trigger_active>>
        /\ current_trigger \in Stamps \cup {None} /\ trigger_active \in BOOLEAN
    BY <1>3 DEF ManagerReads, Types, QueueTypes, ManagerTypes, Mgr!HandleFrame
  <2>1. Mgr!HandleEvent(f) \/ Mgr!HandleData(f) \/ Mgr!HandleComplete(f) \/ Mgr!HandleStatus(f)
          \/ Mgr!HandleOther(f)
    BY <1>3 DEF ManagerReads, Mgr!HandleFrame
  <2> HIDE DEF f
  <2>2. CASE Mgr!HandleEvent(f)
    <3> DEFINE e == [kind |-> "TriggerEvent", timestamp |-> f.of]
    <3>1. e \in Event /\ e \in Labelling /\ ~IsLabelled(e) /\ Announces(e, f.of)
      <4>1. f.of \in Stamps BY <2>0, <2>2, FrameKinds DEF Mgr!HandleEvent
      <4>2. e \in Event BY <4>1 DEF Event, TriggerEvents
      <4>3. QED BY <4>2 DEF Labelling, IsLabelled, Announces, Names
    <3>2. events' = Append(events, e) /\ current_trigger' = f.of
      BY <2>2 DEF Mgr!HandleEvent, Mgr!Report
    <3> HIDE DEF e
    <3>3. QED BY <2>0, <3>1, <3>2, LabelsAppended
  <2>3. CASE Mgr!HandleData(f)
    <3> DEFINE e == Mgr!Labelled(f)
    <3>1. e \in Event /\ e.kind = "DataPacket"
      BY <2>0, <2>3, FrameKinds
      DEF Mgr!HandleData, Mgr!Labelled, Event, LabelledPackets, ContinuousPackets
    <3>2. IF trigger_active /\ current_trigger # None
            THEN IsLabelled(e) /\ e.trigger_timestamp = current_trigger
            ELSE ~IsLabelled(e)
      BY DEF Mgr!Labelled, IsLabelled
    <3>3. events' = Append(events, e) /\ current_trigger' = current_trigger
      BY <2>3 DEF Mgr!HandleData, Mgr!Report
    <3> HIDE DEF e
    <3>4. e \in Labelling BY <3>1 DEF Labelling
    <3>5. QED BY <2>0, <3>1, <3>2, <3>3, <3>4, LabelsAppended DEF Announces, Names
  <2>4. CASE Mgr!HandleComplete(f) \/ Mgr!HandleStatus(f)
    <3>1. PICK e \in Event : events' = Append(events, e) /\ e \notin Labelling /\ ~IsLabelled(e)
      <4>1. CASE Mgr!HandleComplete(f)
        <5>1. f \in CompleteFrames BY <2>0, <4>1, FrameKinds DEF Mgr!HandleComplete
        <5>2. [kind |-> "BufferTransferComplete", frame |-> f] \in Event
          BY <5>1 DEF Event, Completions
        <5>3. QED BY <4>1, <5>2 DEF Mgr!HandleComplete, Mgr!Report, Labelling, IsLabelled
      <4>2. CASE Mgr!HandleStatus(f)
        <5>1. [kind |-> "StatusUpdate"] \in Event BY DEF Event, StatusReports
        <5>2. QED BY <4>2, <5>1 DEF Mgr!HandleStatus, Mgr!Report, Labelling, IsLabelled
      <4>3. QED BY <2>4, <4>1, <4>2
    <3>2. current_trigger' = current_trigger BY <2>4 DEF Mgr!HandleComplete, Mgr!HandleStatus
    <3>3. QED BY <2>0, <3>1, <3>2, LabelsAppended
  <2>5. CASE Mgr!HandleOther(f) BY <2>0, <2>5, LabelsKept DEF Mgr!HandleOther
  <2>6. QED BY <2>1, <2>2, <2>3, <2>4, <2>5
<1>4. CASE EventLoop BY <1>4, LabelsHandled
<1>5. CASE DeviceReads \/ DeviceProduces \/ Break \/ ManagerPings \/ UserPosts \/ UserDeletes
             \/ UNCHANGED vars
  <2>1. UNCHANGED <<current_trigger_timestamp, trigger_burst_sequence, current_trigger_burst,
                    events, trigger_active, current_trigger>>
    BY <1>5 DEF DeviceReads, DeviceProduces, Break, ManagerPings, Mgr!KeepAlive, UserPosts,
                UserDeletes, Proc!RemoveTriggerBurst, vars, managerVars
  <2>2. QED BY <2>1, LabelsKept
<1>6. QED BY <1>1, <1>2, <1>3, <1>4, <1>5 DEF Next, Manager

LEMMA LabelsInit == Init => LabelsFit
<1> SUFFICES ASSUME Init PROVE LabelsFit
  OBVIOUS
<1>1. events = <<>> /\ trigger_active = FALSE BY DEF Init, Mgr!ManagerInit
<1>2. QED BY <1>1, EmptyOrder DEF LabelsFit, LabelsFollow, LabelsBegin, LabelsToCome

LEMMA LabelsHold == Spec => []LabelsFit
BY LabelsInit, LabelsStep, OrderHolds, TypesHold, PTL DEF Spec

-----------------------------------------------------------------------------
(* The packets of one burst: its own, and numbered by their places.        *)
Own(ps, t)   == \A i \in DOMAIN ps : ps[i].trigger_timestamp = t
Numbered(ps) == \A i \in DOMAIN ps : ps[i].sequence_in_burst = i

PacketsFit ==
  /\ Open => /\ Own(current_trigger_burst.data_packets, current_trigger_burst.trigger_timestamp)
             /\ Numbered(current_trigger_burst.data_packets)
  /\ \A c \in closings : Own(c.got, c.burst) /\ Numbered(c.got)

LEMMA PacketsHandled ==
  ASSUME Types, Ordered, LabelsFit, PacketsFit, EventLoop
  PROVE  PacketsFit'
<1> DEFINE h == Head(events)
<1>0. /\ events \in Seq(Event) /\ events # <<>> /\ h \in Event
      /\ Open => current_trigger_burst \in Proc!Burst
  BY DEF EventLoop, Types, QueueTypes, ProcessorTypes, Proc!ProcTypeOK, Open
<1>1. CASE OnConnected
  BY <1>1 DEF OnConnected, Proc!ResetTriggerState, PacketsFit, Open
<1>2. CASE OnTriggerEvent
  <2>1. current_trigger_burst'.data_packets = <<>> /\ closings' = closings
    BY <1>2 DEF OnTriggerEvent, Proc!StartTriggerBurst
  <2>2. DOMAIN current_trigger_burst'.data_packets = {} BY <2>1
  <2>3. QED BY <2>1, <2>2 DEF PacketsFit, Own, Numbered
<1>3. CASE OnDataPacket
  <2>1. h.kind = "DataPacket" /\ Proc!ProcessPacket(Packet(h)) /\ closings' = closings
    BY <1>3 DEF OnDataPacket, NextEvent
  <2>2. CASE Proc!ProcessRefused(Packet(h)) \/ Proc!ProcessContinuous(Packet(h))
    BY <2>1, <2>2 DEF Proc!ProcessRefused, Proc!ProcessContinuous, Proc!procVars, PacketsFit, Open
  <2>3. CASE Proc!ProcessTrigger(Packet(h))
    <3>1. CASE ~Open
      BY <1>0, <2>1, <3>1, ProcessKeepsOpen DEF PacketsFit
    <3>2. CASE Open
      <4>1. IsLabelled(h) /\ h \in Labelling /\ h.trigger_timestamp \in Stamps
        BY <1>0, <2>1, <2>3, PacketType, EventKinds DEF Proc!ProcessTrigger, IsLabelled, Labelling
      <4>2. PICK t \in Stamps : t = h.trigger_timestamp BY <4>1
      <4>3. OpenFor(t) /\ OpenFor(t)'
        <5>1. FirstIn(events, Labelling, h) BY <1>0, <4>1, TailIn
        <5>2. Announces(h, t) BY <4>1, <4>2 DEF Announces, Names
        <5>3. QED BY <4>1, <4>2, <5>1, <5>2, HandlingOpens DEF LabelsFit, LabelsBegin
      <4>4. Open' /\ current_trigger_burst'.trigger_timestamp = current_trigger_burst.trigger_timestamp
        BY <1>0, <2>1, <3>2, ProcessKeepsOpen
      <4> DEFINE q == current_trigger_burst.data_packets
      <4>5. PICK p \in Proc!StoredPacket :
              /\ p.trigger_timestamp = h.trigger_timestamp
              /\ p.sequence_in_burst = trigger_burst_sequence'
              /\ q \in Seq(Proc!StoredPacket)
              /\ current_trigger_burst'.data_packets = Append(q, p)
        BY <1>0, <2>1, <2>3, <3>2, PacketStored
      <4>6. /\ current_trigger_burst.trigger_timestamp = h.trigger_timestamp
            /\ current_trigger_burst'.data_packets # <<>> =>
                 trigger_burst_sequence' = Len(current_trigger_burst'.data_packets)
        BY <3>2, <4>2, <4>3, <4>4 DEF OpenFor
      <4>7. Own(q, h.trigger_timestamp) /\ Numbered(q)
        BY <3>2, <4>6 DEF PacketsFit
      <4> HIDE DEF q
      <4>8. /\ DOMAIN Append(q, p) = 1..(Len(q) + 1) /\ DOMAIN q = 1..Len(q) /\ Len(q) \in Nat
            /\ Append(q, p) # <<>> /\ Len(Append(q, p)) = Len(q) + 1
            /\ \A i \in 1..Len(q) : Append(q, p)[i] = q[i]
            /\ Append(q, p)[Len(q) + 1] = p
        BY <4>5
      <4>9. p.sequence_in_burst = Len(q) + 1 BY <4>5, <4>6, <4>8
      <4>10. \A i \in 1..(Len(q) + 1) : i = Len(q) + 1 \/ i \in 1..Len(q) BY <4>8
      <4>11. Own(Append(q, p), h.trigger_timestamp) /\ Numbered(Append(q, p))
        BY <4>5, <4>7, <4>8, <4>9, <4>10 DEF Own, Numbered
      <4>12. QED BY <2>1, <4>4, <4>5, <4>6, <4>11 DEF PacketsFit
    <3>3. QED BY <3>1, <3>2
  <2>4. QED BY <2>1, <2>2, <2>3 DEF Proc!ProcessPacket
<1>4. CASE OnTransferComplete
  <2>1. Open /\ ~Open' BY <1>4 DEF OnTransferComplete, Proc!CompleteTriggerBurst, Open
  <2> DEFINE c == Closing(current_trigger_burst, h.frame)
  <2>2. /\ closings' = closings \cup {c}
        /\ c.got = current_trigger_burst.data_packets
        /\ c.burst = current_trigger_burst.trigger_timestamp
    BY <1>4 DEF OnTransferComplete, Closing
  <2> HIDE DEF c
  <2>3. QED BY <2>1, <2>2 DEF PacketsFit
<1>5. CASE OnDisconnected \/ OnTransferCompleteUnexpected \/ OnStatusUpdate
  BY <1>5 DEF OnDisconnected, OnTransferCompleteUnexpected, OnStatusUpdate, Proc!CompleteNothing,
              Proc!procVars, procVars, Open, PacketsFit
<1>6. QED BY <1>1, <1>2, <1>3, <1>4, <1>5 DEF EventLoop

LEMMA PacketsStep ==
  ASSUME Types, Ordered, LabelsFit, PacketsFit, [Next]_vars
  PROVE  PacketsFit'
<1>1. CASE EventLoop BY <1>1, PacketsHandled
<1>2. CASE ~EventLoop
  <2>1. UNCHANGED <<current_trigger_burst, closings>>
    BY <1>2 DEF Next, Manager, DeviceReads, DeviceProduces, Break, ManagerConnects,
       ManagerLosesConnection, ManagerSendsCommand, ManagerPings, ManagerReads, UserPosts,
       UserDeletes, Proc!RemoveTriggerBurst, vars, procVars
  <2>2. QED BY <2>1 DEF PacketsFit, Open
<1>3. QED BY <1>1, <1>2

LEMMA PacketsHold == Spec => []PacketsFit
<1>1. Init => PacketsFit BY DEF Init, Proc!ProcInit, PacketsFit, Open
<1>2. QED BY <1>1, PacketsStep, LabelsHold, OrderHolds, TypesHold, PTL DEF Spec

(* The packets of a burst are numbered from 1 without a gap, although the  *)
(* numbering belongs to the processor and not to the burst                 *)
(* (data_processing.rs:201-222).                                           *)
THEOREM PacketsAreNumbered == Spec => []NumberingMatchesPosition
<1>1. PacketsFit => NumberingMatchesPosition
  BY DEF PacketsFit, Numbered, Open, NumberingMatchesPosition
<1>2. QED BY <1>1, PacketsHold, PTL

-----------------------------------------------------------------------------

(* What an event carries of the frame it reports.                          *)
ItemOf(e) ==
  CASE e.kind = "TriggerEvent" -> [cmd |-> "EVENT_TRIGGERED", of |-> e.timestamp]
    [] e.kind \in {"DataPacket", "BufferTransferComplete"} -> e.frame
    [] e.kind = "Connected" -> [cmd |-> "CONNECTED"]
    [] OTHER -> [cmd |-> "NONE"]

PipeEntry == Dev!Frame \cup [cmd : {"CONNECTED", "NONE"}]

ItemsOf(es) == [i \in 1..Len(es) |-> ItemOf(es[i])]
Received    == ItemsOf(events)
Pipe        == Received \o out

(* The entries of the pipe that a step leaves in D, and their order, were  *)
(* there before the step.                                                  *)
PipeKeeps(D) ==
  /\ \A x, y : NextIn(Pipe', D, x, y) => NextIn(Pipe, D, x, y)
  /\ \A x : FirstIn(Pipe', D, x) => FirstIn(Pipe, D, x)
  /\ \A x : LastIn(Pipe', D, x) => LastIn(Pipe, D, x)
  /\ NoneIn(Pipe', D) => NoneIn(Pipe, D)

-----------------------------------------------------------------------------
(* Events and the items of the pipe.                                       *)

LEMMA ItemType ==
  ASSUME NEW e \in Event
  PROVE  /\ ItemOf(e) \in PipeEntry
         /\ e.kind = "TriggerEvent" => ItemOf(e) = [cmd |-> "EVENT_TRIGGERED", of |-> e.timestamp]
         /\ e.kind \in {"DataPacket", "BufferTransferComplete"} => ItemOf(e) = e.frame
         /\ e.kind = "Connected" => ItemOf(e) = [cmd |-> "CONNECTED"]
         /\ e.kind \in {"Disconnected", "StatusUpdate"} => ItemOf(e) = [cmd |-> "NONE"]
<1>1. CASE e.kind = "TriggerEvent"
  <2>1. e.timestamp \in Dev!Stamps BY <1>1, EventKinds DEF Stamps, Dev!Stamps
  <2>2. QED BY <1>1, <2>1 DEF ItemOf, PipeEntry, Dev!Frame, Dev!StreamFrame
<1>2. CASE e.kind \in {"DataPacket", "BufferTransferComplete"}
  <2>1. e.frame \in DataFrames \cup CompleteFrames BY <1>2, EventKinds
  <2>2. DataFrames \cup CompleteFrames \subseteq Dev!Frame
    BY DEF DataFrames, CompleteFrames, Dev!Frame, Dev!StreamFrame, Stamps, Dev!Stamps
  <2>3. QED BY <1>2, <2>1, <2>2 DEF ItemOf, PipeEntry
<1>3. CASE e.kind \in {"Connected", "Disconnected", "StatusUpdate"}
  BY <1>3 DEF ItemOf, PipeEntry
<1>4. QED BY <1>1, <1>2, <1>3, EventKinds

LEMMA ItemsType ==
  ASSUME NEW es \in Seq(Event)
  PROVE  /\ ItemsOf(es) \in Seq(PipeEntry) /\ Len(ItemsOf(es)) = Len(es) /\ Len(es) \in Nat
         /\ \A i \in 1..Len(es) : ItemsOf(es)[i] = ItemOf(es[i])
<1>1. Len(es) \in Nat /\ \A i \in 1..Len(es) : es[i] \in Event
  OBVIOUS
<1>2. \A i \in 1..Len(es) : ItemOf(es[i]) \in PipeEntry
  BY <1>1, ItemType
<1>3. QED BY <1>1, <1>2 DEF ItemsOf

LEMMA ItemsAppended ==
  ASSUME NEW es \in Seq(Event), NEW e \in Event
  PROVE  ItemsOf(Append(es, e)) = Append(ItemsOf(es), ItemOf(e))
<1>1. /\ Append(es, e) \in Seq(Event) /\ Len(es) \in Nat
      /\ Len(Append(es, e)) = Len(es) + 1
      /\ \A i \in 1..Len(es) : Append(es, e)[i] = es[i]
      /\ Append(es, e)[Len(es) + 1] = e
  BY AppendEntries
<1>2. /\ ItemsOf(es) \in Seq(PipeEntry) /\ Len(ItemsOf(es)) = Len(es)
      /\ \A i \in 1..Len(es) : ItemsOf(es)[i] = ItemOf(es[i])
      /\ ItemsOf(Append(es, e)) \in Seq(PipeEntry) /\ Len(ItemsOf(Append(es, e))) = Len(es) + 1
      /\ \A i \in 1..(Len(es) + 1) : ItemsOf(Append(es, e))[i] = ItemOf(Append(es, e)[i])
  BY <1>1, ItemsType
<1>3. ItemOf(e) \in PipeEntry BY ItemType
<1>4. /\ Append(ItemsOf(es), ItemOf(e)) \in Seq(PipeEntry)
      /\ Len(Append(ItemsOf(es), ItemOf(e))) = Len(es) + 1
      /\ \A i \in 1..Len(es) : Append(ItemsOf(es), ItemOf(e))[i] = ItemsOf(es)[i]
      /\ Append(ItemsOf(es), ItemOf(e))[Len(es) + 1] = ItemOf(e)
  BY <1>2, <1>3, AppendEntries
<1>5. \A i \in 1..(Len(es) + 1) : i = Len(es) + 1 \/ i \in 1..Len(es) BY <1>1
<1>6. \A i \in 1..(Len(es) + 1) : ItemsOf(Append(es, e))[i] = Append(ItemsOf(es), ItemOf(e))[i]
  BY <1>1, <1>2, <1>4, <1>5
<1>7. QED BY <1>2, <1>4, <1>6, EqualQueues

LEMMA ItemsTaken ==
  ASSUME NEW es \in Seq(Event), es # <<>>
  PROVE  /\ ItemsOf(es) # <<>> /\ Head(ItemsOf(es)) = ItemOf(Head(es))
         /\ ItemsOf(Tail(es)) = Tail(ItemsOf(es))
<1>1. /\ Tail(es) \in Seq(Event) /\ Len(es) \in Nat /\ Len(es) >= 1
      /\ Len(Tail(es)) = Len(es) - 1 /\ Head(es) = es[1]
      /\ \A i \in 1..(Len(es) - 1) : Tail(es)[i] = es[i + 1]
  BY TailEntries
<1>2. /\ ItemsOf(es) \in Seq(PipeEntry) /\ Len(ItemsOf(es)) = Len(es)
      /\ \A i \in 1..Len(es) : ItemsOf(es)[i] = ItemOf(es[i])
      /\ ItemsOf(Tail(es)) \in Seq(PipeEntry) /\ Len(ItemsOf(Tail(es))) = Len(es) - 1
      /\ \A i \in 1..(Len(es) - 1) : ItemsOf(Tail(es))[i] = ItemOf(Tail(es)[i])
  BY <1>1, ItemsType
<1>3. ItemsOf(es) # <<>>
  <2>1. Len(<<>>) = 0 OBVIOUS
  <2>2. QED BY <1>1, <1>2, <2>1
<1>4. /\ Tail(ItemsOf(es)) \in Seq(PipeEntry) /\ Len(Tail(ItemsOf(es))) = Len(es) - 1
      /\ Head(ItemsOf(es)) = ItemsOf(es)[1]
      /\ \A i \in 1..(Len(es) - 1) : Tail(ItemsOf(es))[i] = ItemsOf(es)[i + 1]
  BY <1>2, <1>3, TailEntries
<1>5. \A i \in 1..(Len(es) - 1) : i + 1 \in 1..Len(es) BY <1>1
<1>6. \A i \in 1..(Len(es) - 1) : ItemsOf(Tail(es))[i] = Tail(ItemsOf(es))[i]
  BY <1>1, <1>2, <1>4, <1>5
<1>7. ItemsOf(Tail(es)) = Tail(ItemsOf(es)) BY <1>2, <1>4, <1>6, EqualQueues
<1>8. 1 \in 1..Len(es) BY <1>1
<1>9. QED BY <1>1, <1>2, <1>3, <1>4, <1>7, <1>8

-----------------------------------------------------------------------------
(* What each step does to the pipe.                                        *)

LEMMA PipeType ==
  ASSUME Types
  PROVE  Received \in Seq(PipeEntry) /\ out \in Seq(PipeEntry) /\ Pipe \in Seq(PipeEntry)
<1>1. Received \in Seq(PipeEntry) BY ItemsType DEF Types, QueueTypes, Received
<1>2. out \in Seq(PipeEntry)
  <2>1. Dev!Frame \subseteq PipeEntry /\ out \in Seq(Dev!Frame) BY DEF PipeEntry, Types, QueueTypes
  <2>2. QED BY <2>1
<1>3. QED BY <1>1, <1>2, ConcatEntries DEF Pipe

(* The device sends a frame.                                               *)
LEMMA PipeSent ==
  ASSUME Types, NEW f \in Dev!Frame, out' = Append(out, f), events' = events
  PROVE  Pipe' = Append(Pipe, f) /\ f \in PipeEntry
<1>1. f \in PipeEntry BY DEF PipeEntry
<1>2. Received' = Received BY DEF Received
<1>3. QED BY <1>1, <1>2, PipeType, ConcatAppend DEF Pipe

(* The device task reports something that was not on the link.             *)
LEMMA PipeReported ==
  ASSUME Types, NEW e \in Event, events' = Append(events, e), out = <<>>, out' = out
  PROVE  /\ Pipe = Received /\ ItemOf(e) \in PipeEntry
         /\ Received' = Append(Received, ItemOf(e)) /\ Pipe' = Append(Pipe, ItemOf(e))
<1>1. events \in Seq(Event) BY DEF Types, QueueTypes
<1>2. Received' = Append(Received, ItemOf(e)) BY <1>1, ItemsAppended DEF Received
<1>3. ItemOf(e) \in PipeEntry BY ItemType
<1>4. Append(Received, ItemOf(e)) \in Seq(PipeEntry) BY <1>3, PipeType, AppendEntries
<1>5. QED BY <1>2, <1>3, <1>4, PipeType, ConcatEmpty DEF Pipe

(* The device task reports the frame it has read: nothing moves.           *)
LEMMA PipeRead ==
  ASSUME Types, NEW e \in Event, events' = Append(events, e), out # <<>>, out' = Tail(out),
         ItemOf(e) = Head(out)
  PROVE  Received' = Append(Received, Head(out)) /\ Pipe' = Pipe
<1>1. events \in Seq(Event) BY DEF Types, QueueTypes
<1>2. Received' = Append(Received, Head(out)) BY <1>1, ItemsAppended DEF Received
<1>3. QED BY <1>2, PipeType, ConcatMove DEF Pipe

(* It reports a reply, or ignores one.                                     *)
LEMMA PipeSkips ==
  ASSUME Types, out # <<>>, out' = Tail(out), NEW D, Head(out) \notin D,
         \/ events' = events
         \/ \E e \in Event : events' = Append(events, e) /\ ItemOf(e) \notin D
  PROVE  PipeKeeps(D)
<1>0. events \in Seq(Event) BY DEF Types, QueueTypes
<1>1. CASE events' = events
  <2>1. Pipe' = Received \o Tail(out) BY <1>1 DEF Pipe, Received
  <2>2. QED BY <2>1, PipeType, RemoveOut DEF PipeKeeps, Pipe
<1>2. ASSUME NEW e \in Event, events' = Append(events, e), ItemOf(e) \notin D
      PROVE  PipeKeeps(D)
  <2>1. Pipe' = Append(Received, ItemOf(e)) \o Tail(out)
    BY <1>0, <1>2, ItemsAppended DEF Pipe, Received
  <2>2. ItemOf(e) \in PipeEntry BY ItemType
  <2>3. QED BY <1>2, <2>1, <2>2, PipeType, ReplaceOut DEF PipeKeeps, Pipe
<1>3. QED BY <1>1, <1>2

(* The event loop takes an event.                                          *)
LEMMA PipeTaken ==
  ASSUME Types, events # <<>>, events' = Tail(events), out' = out
  PROVE  /\ Received # <<>> /\ Pipe # <<>>
         /\ Head(Received) = ItemOf(Head(events)) /\ Head(Pipe) = ItemOf(Head(events))
         /\ Received' = Tail(Received) /\ Pipe' = Tail(Pipe)
<1>1. events \in Seq(Event) BY DEF Types, QueueTypes
<1>2. Received # <<>> /\ Head(Received) = ItemOf(Head(events)) /\ Received' = Tail(Received)
  BY <1>1, ItemsTaken DEF Received
<1>3. QED BY <1>2, PipeType, ConcatTail DEF Pipe

(* The link breaks.                                                        *)
LEMMA PipeCut ==
  ASSUME Types, NEW n \in 0..Len(out), out' = SubSeq(out, 1, n), events' = events, NEW D
  PROVE  /\ \A x, y : NextIn(Pipe', D, x, y) => NextIn(Pipe, D, x, y)
         /\ \A x : FirstIn(Pipe', D, x) => FirstIn(Pipe, D, x)
         /\ \A x : Occurs(Pipe', x) => Occurs(Pipe, x)
<1>1. Received' = Received BY DEF Received
<1>2. /\ Len(Pipe) \in Nat /\ Len(Pipe') \in Nat /\ Len(Pipe') <= Len(Pipe)
      /\ \A i \in 1..Len(Pipe') : Pipe'[i] = Pipe[i]
  <2> DEFINE r == Received
  <2>1. r \in Seq(PipeEntry) /\ out \in Seq(PipeEntry) BY PipeType
  <2> HIDE DEF r
  <2>2. /\ Len(r \o out) \in Nat /\ Len(r \o SubSeq(out, 1, n)) \in Nat
        /\ Len(r \o SubSeq(out, 1, n)) <= Len(r \o out)
        /\ \A i \in 1..Len(r \o SubSeq(out, 1, n)) : (r \o SubSeq(out, 1, n))[i] = (r \o out)[i]
    BY <2>1
  <2>3. QED BY <1>1, <2>2 DEF Pipe, r
<1>3. QED BY <1>2, PrefixOrder

-----------------------------------------------------------------------------
(* A connection that is gone has nothing more on its link.                 *)
LinkInv == ~connected => ~link /\ out = <<>>

LEMMA LinkStep ==
  ASSUME Types, LinkInv, [Next]_vars
  PROVE  LinkInv'
<1>1. CASE DeviceReads
  <2>1. connected /\ connected' = connected BY <1>1 DEF DeviceReads, LinkInv
  <2>2. QED BY <2>1 DEF LinkInv
<1>2. CASE DeviceProduces
  <2>1. link' = link /\ connected' = connected /\ (~link => out' = out)
    BY <1>2 DEF DeviceProduces, DeviceFires, DeviceSendsPacket, DeviceCompletes, DeviceStreams,
       Dev!Fire, Dev!BurstPacket, Dev!BurstComplete, Dev!StreamPacket, Dev!EmitAll, Dev!Emit, managerVars
  <2>2. QED BY <2>1 DEF LinkInv
<1>3. CASE Break
  <2>1. connected /\ connected' = connected BY <1>3 DEF Break, LinkInv
  <2>2. QED BY <2>1 DEF LinkInv
<1>4. CASE ManagerConnects BY <1>4 DEF ManagerConnects, Mgr!Connect, LinkInv
<1>5. CASE ManagerLosesConnection BY <1>5 DEF ManagerLosesConnection, LinkInv
<1>6. CASE ManagerReads BY <1>6 DEF ManagerReads, Mgr!HandleFrame, LinkInv
<1>7. CASE ManagerSendsCommand \/ ManagerPings \/ EventLoop \/ UserPosts \/ UserDeletes
             \/ UNCHANGED vars
  BY <1>7 DEF ManagerSendsCommand, Mgr!HandleCommand, ManagerPings, Mgr!KeepAlive, EventLoop,
              UserPosts, UserDeletes, managerVars, vars, LinkInv
<1>8. QED BY <1>1, <1>2, <1>3, <1>4, <1>5, <1>6, <1>7 DEF Next, Manager

LEMMA LinkHolds == Spec => []LinkInv
<1>1. Init => LinkInv BY DEF Init, LinkInv
<1>2. QED BY <1>1, LinkStep, TypesHold, PTL DEF Spec

-----------------------------------------------------------------------------
(* When no frame is lost on a link that is up, a completion signal follows *)
(* the event of its own burst.                                             *)

Marks == {f \in PipeEntry : f.cmd \in {"CONNECTED", "EVENT_TRIGGERED", "BUFFER_TRANSFER_COMPLETE"}}

SignalsFollow ==
  \A x, y : NextIn(Pipe, Marks, x, y) /\ IsComplete(y) =>
    x.cmd = "CONNECTED" \/ (IsEvent(x) /\ x.of = y.of)

SignalsBegin ==
  \A y : FirstIn(Pipe, Marks, y) /\ IsComplete(y) /\ Open =>
    current_trigger_burst.trigger_timestamp = y.of

SignalsToCome ==
  link =>
    /\ \A x : LastIn(Pipe, Marks, x) => /\ IsEvent(x) => x.of = timestamp
                                        /\ IsComplete(x) => ~sending
    /\ NoneIn(Pipe, Marks) /\ Open /\ sending => current_trigger_burst.trigger_timestamp = timestamp

OwnSignals == SignalsFollow /\ SignalsBegin /\ SignalsToCome /\ ClosedByOwnSignal

(* A step that leaves the marks of the pipe as they are.                   *)
LEMMA SignalsKept ==
  ASSUME OwnSignals, PipeKeeps(Marks), UNCHANGED <<current_trigger_burst, closings>>,
         link' => link /\ timestamp' = timestamp /\ (sending' => sending)
  PROVE  OwnSignals'
<1>1. (Open' <=> Open) /\ Marks' = Marks BY DEF Open
<1>2. SignalsFollow' BY <1>1 DEF OwnSignals, SignalsFollow, PipeKeeps
<1>3. SignalsBegin' BY <1>1 DEF OwnSignals, SignalsBegin, PipeKeeps
<1>4. SignalsToCome' BY <1>1 DEF OwnSignals, SignalsToCome, PipeKeeps
<1>5. ClosedByOwnSignal' BY DEF OwnSignals, ClosedByOwnSignal
<1>6. QED BY <1>2, <1>3, <1>4, <1>5 DEF OwnSignals

LEMMA SamePipe == Pipe' = Pipe => \A D : PipeKeeps(D)
BY DEF PipeKeeps

(* The device sends a frame that is no mark.                               *)
LEMMA UnmarkedSent ==
  ASSUME Types, NEW f \in Dev!Frame, NEW D, f \notin D,
         out' = out \/ out' = Append(out, f), events' = events
  PROVE  PipeKeeps(D)
<1>1. CASE out' = out
  <2>1. Pipe' = Pipe BY <1>1 DEF Pipe, Received
  <2>2. QED BY <2>1, SamePipe
<1>2. CASE out' = Append(out, f)
  <2>1. Pipe' = Append(Pipe, f) /\ f \in PipeEntry BY <1>2, PipeSent
  <2>2. QED BY <2>1, PipeType, AppendOut DEF PipeKeeps
<1>3. QED BY <1>1, <1>2

(* The event e of a new burst, and perhaps its first packet d, where nothing  *)
(* is lost.                                                                *)
LEMMA FiresInFull ==
  ASSUME Types, DeviceFires, events' = events, ~Lossy
  PROVE  \E e, d :
           /\ e \in PipeEntry /\ IsEvent(e) /\ e.of = timestamp'
           /\ d \in PipeEntry /\ d.cmd = "DATA_PACKET" /\ d.of = timestamp'
           /\ timestamp' \in Stamps
           /\ ~link => Pipe' = Pipe
           /\ link => Append(Pipe, e) \in Seq(PipeEntry)
                        /\ Pipe' \in {Append(Pipe, e), Append(Append(Pipe, e), d)}
<1>0. /\ Dev!AppTypeOK
      /\ \A t \in Stamps : Dev!EventFrame(t) \in Dev!Frame
      /\ \A t \in Stamps \cup {0}, n \in Nat : Dev!DataFrame(t, n) \in Dev!Frame
  BY FramesAreFrames DEF Types, DeviceTypes
<1>1. PICK due \in BOOLEAN, count \in PacketCounts : Dev!Fire(due, count)
  BY DEF DeviceFires
<1> DEFINE e == Dev!EventFrame(Dev!NextStamp)
           d == Dev!DataFrame(Dev!NextStamp, 1)
<1>2. timestamp' = Dev!NextStamp /\ Dev!NextStamp \in Stamps
  BY <1>0, <1>1, NextStampIsNew DEF DeviceFires, Dev!Fire, Dev!FireEvent
<1>3. /\ e \in PipeEntry /\ IsEvent(e) /\ e.of = timestamp'
      /\ d \in PipeEntry /\ d.cmd = "DATA_PACKET" /\ d.of = timestamp'
  BY <1>0, <1>2 DEF Dev!EventFrame, Dev!DataFrame, IsEvent, PipeEntry
<1>4. out' = IF ~link THEN out ELSE IF due THEN Append(Append(out, e), d) ELSE Append(out, e)
  <2>1. CASE due
    <3>1. Dev!FireFrames(due) = <<e, d>> BY <2>1 DEF Dev!FireFrames
    <3> HIDE DEF e, d
    <3>2. Dev!EmitAll(<<e, d>>) BY <1>1, <3>1 DEF Dev!Fire
    <3>3. Len(<<e, d>>) # 1 /\ <<e, d>>[1] = e /\ <<e, d>>[2] = d OBVIOUS
    <3>4. out' = IF link THEN Append(Append(out, e), d) ELSE out
      BY <3>2, <3>3 DEF Dev!EmitAll
    <3>5. QED BY <2>1, <3>4
  <2>2. CASE ~due
    <3>1. Dev!FireFrames(due) = <<e>> BY <2>2 DEF Dev!FireFrames
    <3> HIDE DEF e, d
    <3>2. QED BY <1>1, <2>2, <3>1 DEF Dev!Fire, Dev!EmitAll, Dev!Emit
  <2>3. QED BY <2>1, <2>2
<1> HIDE DEF e, d
<1>5. ~link => Pipe' = Pipe BY <1>4 DEF Pipe, Received
<1>6. Received \o Append(out, e) = Append(Pipe, e) /\ Append(out, e) \in Seq(PipeEntry)
  BY <1>3, PipeType, ConcatAppend, AppendEntries DEF Pipe
<1>7. Received \o Append(Append(out, e), d) = Append(Append(Pipe, e), d)
  <2> DEFINE o == Append(out, e)
  <2>1. o \in Seq(PipeEntry) /\ Received \o o = Append(Pipe, e) BY <1>6
  <2> HIDE DEF o
  <2>2. Received \o Append(o, d) = Append(Received \o o, d)
    BY <1>3, <2>1, PipeType, ConcatAppend
  <2>3. QED BY <2>1, <2>2 DEF o
<1>8. Append(Pipe, e) \in Seq(PipeEntry) BY <1>3, PipeType, AppendEntries
<1>9. link => Pipe' \in {Append(Pipe, e), Append(Append(Pipe, e), d)}
  BY <1>4, <1>6, <1>7 DEF Pipe, Received
<1>10. QED BY <1>2, <1>3, <1>5, <1>8, <1>9

LEMMA SignalsProduced ==
  ASSUME Types, OwnSignals, DeviceProduces, ~Lossy
  PROVE  OwnSignals'
<1>0. /\ Dev!AppTypeOK /\ timestamp \in Stamps \cup {0}
      /\ UNCHANGED <<link, events, current_trigger_burst, closings>>
      /\ \A t \in Stamps \cup {0}, n \in Nat : Dev!DataFrame(t, n) \in Dev!Frame
      /\ Dev!CompleteFrame(timestamp) \in Dev!Frame
  <2>1. Dev!AppTypeOK BY DEF Types, DeviceTypes
  <2>2. UNCHANGED <<link, events, current_trigger_burst, closings>>
    BY DEF DeviceProduces, managerVars, procVars, DeviceFires, DeviceSendsPacket, DeviceCompletes,
       DeviceStreams, Dev!Fire, Dev!BurstPacket, Dev!BurstComplete, Dev!StreamPacket
  <2>3. QED BY <2>1, <2>2, FramesAreFrames
<1>1. \A t, n : Dev!DataFrame(t, n) \notin Marks BY DEF Marks, Dev!DataFrame
<1>2. CASE DeviceFires
  <2>1. PICK e, d :
          /\ e \in PipeEntry /\ IsEvent(e) /\ e.of = timestamp'
          /\ d \in PipeEntry /\ d.cmd = "DATA_PACKET"
          /\ ~link => Pipe' = Pipe
          /\ link => Append(Pipe, e) \in Seq(PipeEntry)
                       /\ Pipe' \in {Append(Pipe, e), Append(Append(Pipe, e), d)}
    BY <1>0, <1>2, FiresInFull
  <2>2. e \in Marks /\ ~IsComplete(e) /\ d \notin Marks
    BY <2>1 DEF IsEvent, IsComplete, Marks
  <2>3. CASE ~link
    BY <1>0, <2>1, <2>3, SamePipe, SignalsKept
  <2>4. CASE link
    <3> DEFINE p == Append(Pipe, e)
    <3>1. p \in Seq(PipeEntry) /\ (Pipe' = p \/ Pipe' = Append(p, d))
      BY <2>1, <2>4
    <3>2. /\ \A x, y : NextIn(p, Marks, x, y) => NextIn(Pipe, Marks, x, y) \/ y = e
          /\ \A y : FirstIn(p, Marks, y) => FirstIn(Pipe, Marks, y) \/ y = e
          /\ \A x : LastIn(p, Marks, x) => x = e
          /\ ~NoneIn(p, Marks)
      BY <2>1, <2>2, PipeType, AppendIn
    <3> HIDE DEF p
    <3>3. /\ \A x, y : NextIn(Pipe', Marks, x, y) => NextIn(Pipe, Marks, x, y) \/ y = e
          /\ \A y : FirstIn(Pipe', Marks, y) => FirstIn(Pipe, Marks, y) \/ y = e
          /\ \A x : LastIn(Pipe', Marks, x) => x = e
          /\ ~NoneIn(Pipe', Marks)
      <4>1. CASE Pipe' = p BY <3>2, <4>1
      <4>2. CASE Pipe' = Append(p, d) BY <2>1, <2>2, <3>1, <3>2, <4>2, AppendOut
      <4>3. QED BY <3>1, <4>1, <4>2
    <3>4. SignalsFollow' BY <2>2, <3>3 DEF OwnSignals, SignalsFollow
    <3>5. SignalsBegin' BY <1>0, <2>2, <3>3 DEF OwnSignals, SignalsBegin, Open
    <3>6. SignalsToCome' BY <2>1, <2>2, <3>3 DEF SignalsToCome
    <3>7. QED BY <1>0, <3>4, <3>5, <3>6 DEF OwnSignals, ClosedByOwnSignal
  <2>5. QED BY <2>3, <2>4
<1>3. CASE DeviceSendsPacket
  <2>1. Dev!BurstFrame \in Dev!Frame /\ Dev!BurstFrame \notin Marks
    BY <1>0, <1>1 DEF Dev!BurstFrame, Dev!AppTypeOK
  <2>2. (out' = out \/ out' = Append(out, Dev!BurstFrame)) /\ timestamp' = timestamp /\ sending' = sending
    BY <1>3 DEF DeviceSendsPacket, Dev!BurstPacket, Dev!SendBurstPacket, Dev!Emit
  <2>3. PipeKeeps(Marks) BY <1>0, <2>1, <2>2, UnmarkedSent
  <2>4. QED BY <1>0, <2>2, <2>3, SignalsKept
<1>4. CASE DeviceCompletes
  <2> DEFINE f == Dev!CompleteFrame(timestamp)
  <2>1. /\ f \in Dev!Frame /\ f \in Marks /\ f \in PipeEntry
        /\ IsComplete(f) /\ ~IsEvent(f) /\ f.of = timestamp
    BY <1>0 DEF Dev!CompleteFrame, Marks, PipeEntry, IsComplete, IsEvent
  <2>2. /\ sending /\ ~sending' /\ timestamp' = timestamp
        /\ out' = IF link THEN Append(out, f) ELSE out
    BY <1>4 DEF DeviceCompletes, Dev!BurstComplete, Dev!CompleteBurst, Dev!Emit
  <2> HIDE DEF f
  <2>3. CASE ~link
    <3>1. Pipe' = Pipe BY <1>0, <2>2, <2>3 DEF Pipe, Received
    <3>2. QED BY <1>0, <2>3, <3>1, SamePipe, SignalsKept
  <2>4. CASE link
    <3>1. Pipe' = Append(Pipe, f) BY <1>0, <2>1, <2>2, <2>4, PipeSent
    <3>2. /\ \A x, y : NextIn(Pipe', Marks, x, y) =>
                         NextIn(Pipe, Marks, x, y) \/ (LastIn(Pipe, Marks, x) /\ y = f)
          /\ \A y : FirstIn(Pipe', Marks, y) => FirstIn(Pipe, Marks, y) \/ (NoneIn(Pipe, Marks) /\ y = f)
          /\ \A x : LastIn(Pipe', Marks, x) => x = f
          /\ ~NoneIn(Pipe', Marks)
      BY <2>1, <3>1, PipeType, AppendIn
    <3>3. SignalsFollow'
      <4>1. ASSUME NEW x, LastIn(Pipe, Marks, x)
            PROVE  x.cmd = "CONNECTED" \/ (IsEvent(x) /\ x.of = f.of)
        <5>1. x \in Marks BY <4>1 DEF LastIn
        <5>2. x.cmd = "CONNECTED" \/ IsEvent(x) \/ IsComplete(x)
          BY <5>1 DEF Marks, IsEvent, IsComplete
        <5>3. QED BY <2>1, <2>2, <2>4, <4>1, <5>2 DEF OwnSignals, SignalsToCome
      <4>2. QED BY <3>2, <4>1 DEF OwnSignals, SignalsFollow
    <3>4. SignalsBegin'
      BY <1>0, <2>1, <2>2, <2>4, <3>2 DEF OwnSignals, SignalsBegin, SignalsToCome, Open
    <3>5. SignalsToCome' BY <2>1, <2>2, <3>2 DEF SignalsToCome
    <3>6. QED BY <1>0, <3>3, <3>4, <3>5 DEF OwnSignals, ClosedByOwnSignal
  <2>5. QED BY <2>3, <2>4
<1>5. CASE DeviceStreams
  <2>1. Dev!DataFrame(0, 0) \in Dev!Frame /\ Dev!DataFrame(0, 0) \notin Marks
    BY <1>0, <1>1
  <2>2. /\ out' = out \/ out' = Append(out, Dev!DataFrame(0, 0))
        /\ timestamp' = timestamp /\ sending' = sending
    BY <1>5 DEF DeviceStreams, Dev!StreamPacket, Dev!SendStreamPacket, Dev!trigger, Dev!Emit
  <2>3. PipeKeeps(Marks) BY <1>0, <2>1, <2>2, UnmarkedSent
  <2>4. QED BY <1>0, <2>2, <2>3, SignalsKept
<1>6. QED BY <1>2, <1>3, <1>4, <1>5 DEF DeviceProduces

(* What the device task makes of the frame f it reads: an event that carries   *)
(* it, if it is not a reply.                                               *)
Carries(e, f) ==
  /\ events' = Append(events, e) /\ ItemOf(e) = f
  /\ f.cmd \in {"EVENT_TRIGGERED", "DATA_PACKET", "BUFFER_TRANSFER_COMPLETE"}
  /\ e.kind = "DataPacket" <=> f.cmd = "DATA_PACKET"
  /\ f.cmd = "DATA_PACKET" /\ trigger_active /\ current_trigger # None =>
       IsLabelled(e) /\ e.trigger_timestamp = current_trigger
  /\ current_trigger' = IF IsEvent(f) THEN f.of ELSE current_trigger

LEMMA FrameReported ==
  ASSUME Types, ManagerReads, NEW f, f = Head(out)
  PROVE  /\ f \in Dev!Frame /\ out # <<>> /\ out' = Tail(out)
         /\ \/ \E e \in Event : Carries(e, f)
            \/ /\ f.cmd \in Dev!Replies /\ current_trigger' = current_trigger
               /\ \/ events' = events
                  \/ \E e \in Event : events' = Append(events, e) /\ e.kind = "StatusUpdate"
<1>0. /\ out # <<>> /\ out' = Tail(out) /\ f \in Dev!Frame
      /\ current_trigger \in Stamps \cup {None} /\ trigger_active \in BOOLEAN
  BY DEF ManagerReads, Types, QueueTypes, ManagerTypes
<1>1. Mgr!HandleEvent(f) \/ Mgr!HandleData(f) \/ Mgr!HandleComplete(f) \/ Mgr!HandleStatus(f)
        \/ Mgr!HandleOther(f)
  BY DEF ManagerReads, Mgr!HandleFrame
<1>2. CASE Mgr!HandleEvent(f)
  <2> DEFINE e == [kind |-> "TriggerEvent", timestamp |-> f.of]
  <2>1. f.of \in Stamps /\ f = [cmd |-> "EVENT_TRIGGERED", of |-> f.of] /\ f.cmd = "EVENT_TRIGGERED"
    BY <1>0, <1>2, FrameKinds DEF Mgr!HandleEvent
  <2>2. e \in Event /\ e.kind = "TriggerEvent" /\ e.timestamp = f.of
    BY <2>1 DEF Event, TriggerEvents
  <2>3. events' = Append(events, e) /\ current_trigger' = f.of
    BY <1>2 DEF Mgr!HandleEvent, Mgr!Report
  <2> HIDE DEF e
  <2>4. ItemOf(e) = f BY <2>1, <2>2, ItemType
  <2>5. Carries(e, f) BY <2>1, <2>2, <2>3, <2>4 DEF Carries, IsEvent
  <2>6. QED BY <1>0, <2>2, <2>5
<1>3. CASE Mgr!HandleData(f)
  <2> DEFINE e == Mgr!Labelled(f)
  <2>1. /\ e \in Event /\ e.kind = "DataPacket" /\ e.frame = f /\ f.cmd = "DATA_PACKET"
        /\ trigger_active /\ current_trigger # None =>
             IsLabelled(e) /\ e.trigger_timestamp = current_trigger
    BY <1>0, <1>3, FrameKinds
    DEF Mgr!HandleData, Mgr!Labelled, Event, LabelledPackets, ContinuousPackets, IsLabelled
  <2>2. events' = Append(events, e) /\ current_trigger' = current_trigger
    BY <1>3 DEF Mgr!HandleData, Mgr!Report
  <2> HIDE DEF e
  <2>3. ItemOf(e) = f BY <2>1, ItemType
  <2>4. Carries(e, f) BY <2>1, <2>2, <2>3 DEF Carries, IsEvent
  <2>5. QED BY <1>0, <2>1, <2>4
<1>4. CASE Mgr!HandleComplete(f)
  <2> DEFINE e == [kind |-> "BufferTransferComplete", frame |-> f]
  <2>1. f \in CompleteFrames /\ f.cmd = "BUFFER_TRANSFER_COMPLETE"
    BY <1>0, <1>4, FrameKinds DEF Mgr!HandleComplete
  <2>2. e \in Event /\ e.kind = "BufferTransferComplete" /\ e.frame = f
    BY <2>1 DEF Event, Completions
  <2>3. events' = Append(events, e) /\ current_trigger' = current_trigger
    BY <1>4 DEF Mgr!HandleComplete, Mgr!Report
  <2> HIDE DEF e
  <2>4. ItemOf(e) = f BY <2>2, ItemType
  <2>5. Carries(e, f) BY <2>1, <2>2, <2>3, <2>4 DEF Carries, IsEvent
  <2>6. QED BY <1>0, <2>2, <2>5
<1>5. CASE Mgr!HandleStatus(f)
  <2> DEFINE e == [kind |-> "StatusUpdate"]
  <2>1. e \in Event /\ e.kind = "StatusUpdate" BY DEF Event, StatusReports
  <2>2. events' = Append(events, e) /\ f.cmd \in Dev!Replies /\ current_trigger' = current_trigger
    BY <1>5 DEF Mgr!HandleStatus, Mgr!Report, Dev!Replies
  <2> HIDE DEF e
  <2>3. QED BY <1>0, <2>1, <2>2
<1>6. CASE Mgr!HandleOther(f)
  BY <1>0, <1>6 DEF Mgr!HandleOther, Dev!Replies
<1>7. QED BY <1>1, <1>2, <1>3, <1>4, <1>5, <1>6

(* Reading a frame keeps the order of the pipe.  D holds no replies.       *)
LEMMA ReadKeeps ==
  ASSUME Types, ManagerReads, NEW D, \A x \in D : x.cmd \notin Dev!Replies \cup {"NONE"}
  PROVE  PipeKeeps(D)
<1> DEFINE f == Head(out)
<1>0. /\ f \in Dev!Frame /\ out # <<>> /\ out' = Tail(out)
      /\ \/ \E e \in Event : Carries(e, f)
         \/ /\ f.cmd \in Dev!Replies
            /\ \/ events' = events
               \/ \E e \in Event : events' = Append(events, e) /\ e.kind = "StatusUpdate"
  BY FrameReported
<1>1. CASE \E e \in Event : Carries(e, f)
  <2>1. \E e \in Event : events' = Append(events, e) /\ ItemOf(e) = f BY <1>1 DEF Carries
  <2>2. Pipe' = Pipe BY <1>0, <2>1, PipeRead
  <2>3. QED BY <2>2, SamePipe
<1>2. CASE f.cmd \in Dev!Replies
  <2>1. f \notin D BY <1>2
  <2>2. \A e \in Event : e.kind = "StatusUpdate" => ItemOf(e) \notin D
    <3>1. \A e \in Event : e.kind = "StatusUpdate" => ItemOf(e).cmd = "NONE" BY ItemType
    <3>2. QED BY <3>1
  <2>3. \/ events' = events
        \/ \E e \in Event : events' = Append(events, e) /\ ItemOf(e) \notin D
    <3>1. ~\E e \in Event : Carries(e, f) BY <1>2 DEF Carries, Dev!Replies
    <3>2. QED BY <1>0, <2>2, <3>1
  <2>4. QED BY <1>0, <2>1, <2>3, PipeSkips
<1>3. QED BY <1>0, <1>1, <1>2

LEMMA SignalsHandled ==
  ASSUME Types, OwnSignals, EventLoop
  PROVE  OwnSignals'
<1> DEFINE h == Head(events)
           p == Head(Pipe)
<1>0. /\ h \in Event /\ events # <<>> /\ events' = Tail(events)
      /\ UNCHANGED <<out, link, timestamp, sending>>
      /\ Pipe # <<>> /\ Pipe \in Seq(PipeEntry)
      /\ p = ItemOf(h) /\ Pipe' = Tail(Pipe) /\ p \in PipeEntry
  <2>1. h \in Event /\ events # <<>> /\ events' = Tail(events) /\ UNCHANGED <<out, link, timestamp, sending>>
    BY DEF EventLoop, Types, QueueTypes, deviceVars
  <2>2. Pipe # <<>> /\ p = ItemOf(h) /\ Pipe' = Tail(Pipe) BY <2>1, PipeTaken
  <2>3. QED BY <2>1, <2>2, PipeType, ItemType
<1> HIDE DEF p
<1>1. CASE p \notin Marks
  <2>1. PipeKeeps(Marks) BY <1>0, <1>1, TailOut DEF PipeKeeps, p
  <2>2. (Open' <=> Open) /\ closings' = closings
        /\ (Open => current_trigger_burst'.trigger_timestamp = current_trigger_burst.trigger_timestamp)
    <3>1. OnDisconnected \/ OnDataPacket \/ OnStatusUpdate
      <4>1. h.kind = "Connected" => p.cmd = "CONNECTED" BY <1>0, ItemType
      <4>2. h.kind = "TriggerEvent" => p.cmd = "EVENT_TRIGGERED" BY <1>0, ItemType
      <4>3. h.kind = "BufferTransferComplete" => p.cmd = "BUFFER_TRANSFER_COMPLETE"
        BY <1>0, ItemType, EventKinds DEF CompleteFrames
      <4>4. h.kind \notin {"Connected", "TriggerEvent", "BufferTransferComplete"}
        BY <1>0, <1>1, <4>1, <4>2, <4>3 DEF Marks
      <4>5. QED BY <4>4 DEF EventLoop, OnConnected, OnTriggerEvent, OnTransferComplete,
                            OnTransferCompleteUnexpected, NextEvent
    <3>2. CASE OnDataPacket
      BY <1>0, <3>2, ProcessKeepsOpen DEF OnDataPacket, NextEvent
    <3>3. CASE OnDisconnected \/ OnStatusUpdate
      BY <3>3 DEF OnDisconnected, OnStatusUpdate, procVars, Open
    <3>4. QED BY <3>1, <3>2, <3>3
  <2>3. SignalsFollow' BY <2>1 DEF OwnSignals, SignalsFollow, PipeKeeps
  <2>4. SignalsBegin' BY <2>1, <2>2 DEF OwnSignals, SignalsBegin, PipeKeeps
  <2>5. SignalsToCome' BY <1>0, <2>1, <2>2 DEF OwnSignals, SignalsToCome, PipeKeeps
  <2>6. ClosedByOwnSignal' BY <2>2 DEF OwnSignals, ClosedByOwnSignal
  <2>7. QED BY <2>3, <2>4, <2>5, <2>6 DEF OwnSignals
<1>2. CASE p \in Marks
  <2>1. /\ FirstIn(Pipe, Marks, p)
        /\ \A x, y : NextIn(Pipe', Marks, x, y) => NextIn(Pipe, Marks, x, y)
        /\ \A y : FirstIn(Pipe', Marks, y) => NextIn(Pipe, Marks, p, y)
        /\ \A x : LastIn(Pipe', Marks, x) => LastIn(Pipe, Marks, x)
        /\ NoneIn(Pipe', Marks) => LastIn(Pipe, Marks, p)
    BY <1>0, <1>2, TailIn DEF p
  <2>2. SignalsFollow' BY <2>1 DEF OwnSignals, SignalsFollow
  <2>3. h.kind \in {"Connected", "TriggerEvent", "BufferTransferComplete"}
    <3>1. h.kind \in {"Disconnected", "StatusUpdate"} => p.cmd = "NONE" BY <1>0, ItemType
    <3>2. h.kind = "DataPacket" => p.cmd = "DATA_PACKET" BY <1>0, ItemType, EventKinds DEF DataFrames
    <3>3. QED BY <1>0, <1>2, <3>1, <3>2, EventKinds DEF Marks
  <2>4. ASSUME Open' => IsEvent(p) /\ current_trigger_burst'.trigger_timestamp = p.of
        PROVE  SignalsBegin' /\ SignalsToCome'
    <3>1. SignalsBegin' BY <2>1, <2>4 DEF OwnSignals, SignalsFollow, SignalsBegin, IsEvent
    <3>2. SignalsToCome' BY <1>0, <2>1, <2>4 DEF OwnSignals, SignalsToCome
    <3>3. QED BY <3>1, <3>2
  <2>5. CASE OnConnected
    <3>1. ~Open' /\ closings' = closings BY <2>5 DEF OnConnected, Proc!ResetTriggerState, Open
    <3>2. QED BY <2>2, <2>4, <3>1 DEF OwnSignals, ClosedByOwnSignal
  <2>6. CASE OnTriggerEvent
    <3>1. IsEvent(p) /\ p.of = h.timestamp
      BY <1>0, <2>6, ItemType DEF OnTriggerEvent, NextEvent, IsEvent
    <3>2. current_trigger_burst'.trigger_timestamp = h.timestamp /\ closings' = closings
      BY <2>6 DEF OnTriggerEvent, Proc!StartTriggerBurst
    <3>3. QED BY <2>2, <2>4, <3>1, <3>2 DEF OwnSignals, ClosedByOwnSignal
  <2>7. CASE OnTransferComplete
    <3>1. Open /\ ~Open' BY <2>7 DEF OnTransferComplete, Proc!CompleteTriggerBurst, Open
    <3>2. IsComplete(p) /\ p = h.frame
      BY <1>0, <2>7, ItemType, EventKinds DEF OnTransferComplete, NextEvent, IsComplete, CompleteFrames
    <3>3. current_trigger_burst.trigger_timestamp = p.of
      BY <2>1, <3>1, <3>2 DEF OwnSignals, SignalsBegin
    <3> DEFINE c == Closing(current_trigger_burst, h.frame)
    <3>4. closings' = closings \cup {c} /\ c.by = c.burst
      BY <2>7, <3>2, <3>3 DEF OnTransferComplete, Closing
    <3> HIDE DEF c
    <3>5. QED BY <2>2, <2>4, <3>1, <3>4 DEF OwnSignals, ClosedByOwnSignal
  <2>8. CASE OnTransferCompleteUnexpected
    <3>1. ~Open' /\ closings' = closings
      BY <2>8 DEF OnTransferCompleteUnexpected, Proc!CompleteNothing, Proc!procVars, Open
    <3>2. QED BY <2>2, <2>4, <3>1 DEF OwnSignals, ClosedByOwnSignal
  <2>9. QED
    BY <2>3, <2>5, <2>6, <2>7, <2>8 DEF EventLoop, OnDisconnected, OnDataPacket, OnStatusUpdate, NextEvent
<1>3. QED BY <1>1, <1>2

LEMMA SignalsStep ==
  ASSUME Types, LinkInv, OwnSignals, ~Lossy, [Next]_vars
  PROVE  OwnSignals'
<1>1. CASE DeviceReads
  <2>1. PICK f \in Dev!Frame : f.cmd \in Dev!Replies /\ out' \in {out, Append(out, f)}
    BY <1>1, ReplySent
  <2>2. f \notin Marks BY <2>1 DEF Marks, Dev!Replies
  <2>3. /\ UNCHANGED <<events, link, current_trigger_burst, closings>>
        /\ timestamp' = timestamp /\ (sending' => sending)
    <3>1. Dev!AppTypeOK /\ Dev!HandleCommand(Head(down)) /\ link' = link
      BY <1>1 DEF Types, DeviceTypes, DeviceReads, Dev!Command
    <3>2. QED BY <1>1, <3>1, HandleCommandType DEF DeviceReads, procVars
  <2>4. PipeKeeps(Marks)
    <3>1. out' = out \/ out' = Append(out, f) BY <2>1
    <3>2. QED BY <2>2, <2>3, <3>1, UnmarkedSent
  <2>5. QED BY <2>3, <2>4, SignalsKept
<1>2. CASE DeviceProduces BY <1>2, SignalsProduced
<1>3. CASE Break
  <2>1. PICK n \in 0..Len(out) : out' = SubSeq(out, 1, n) BY <1>3 DEF Break
  <2>2. ~link' /\ UNCHANGED <<events, current_trigger_burst, closings>>
    BY <1>3 DEF Break, procVars
  <2>3. /\ \A x, y : NextIn(Pipe', Marks, x, y) => NextIn(Pipe, Marks, x, y)
        /\ \A x : FirstIn(Pipe', Marks, x) => FirstIn(Pipe, Marks, x)
    BY <2>1, <2>2, PipeCut
  <2>4. QED BY <2>2, <2>3 DEF OwnSignals, SignalsFollow, SignalsBegin, SignalsToCome, Open,
                              ClosedByOwnSignal
<1>4. CASE ManagerConnects
  <2> DEFINE e == [kind |-> "Connected"]
  <2>1. e \in Event /\ e.kind = "Connected" BY DEF Event, StatusReports
  <2>2. /\ events' = Append(events, e) /\ out = <<>> /\ out' = out
        /\ UNCHANGED <<timestamp, sending, current_trigger_burst, closings>>
    BY <1>4 DEF ManagerConnects, Mgr!Connect, Mgr!Report, LinkInv, deviceVars, procVars
  <2> HIDE DEF e
  <2> DEFINE f == ItemOf(e)
  <2>3. f.cmd = "CONNECTED" /\ f \in PipeEntry /\ f \in Marks /\ Pipe' = Append(Pipe, f)
    BY <2>1, <2>2, ItemType, PipeReported DEF Marks
  <2> HIDE DEF f
  <2>4. /\ \A x, y : NextIn(Pipe', Marks, x, y) => NextIn(Pipe, Marks, x, y) \/ y = f
        /\ \A y : FirstIn(Pipe', Marks, y) => FirstIn(Pipe, Marks, y) \/ y = f
        /\ \A x : LastIn(Pipe', Marks, x) => x = f
        /\ ~NoneIn(Pipe', Marks)
    BY <2>3, PipeType, AppendIn
  <2>5. ~IsComplete(f) /\ ~IsEvent(f) BY <2>3 DEF IsComplete, IsEvent
  <2>6. QED BY <2>2, <2>4, <2>5 DEF OwnSignals, SignalsFollow, SignalsBegin, SignalsToCome, Open,
                                     ClosedByOwnSignal
<1>5. CASE ManagerLosesConnection
  <2> DEFINE e == [kind |-> "Disconnected"]
  <2>1. e \in Event /\ e.kind = "Disconnected" BY DEF Event, StatusReports
  <2>2. /\ events' = Append(events, e) /\ out = <<>> /\ out' = out
        /\ UNCHANGED <<link, timestamp, sending, current_trigger_burst, closings>>
    BY <1>5 DEF ManagerLosesConnection, Mgr!ReadError, Mgr!Report, deviceVars, procVars
  <2> HIDE DEF e
  <2>3. ItemOf(e).cmd = "NONE" /\ ItemOf(e) \in PipeEntry /\ Pipe' = Append(Pipe, ItemOf(e))
    BY <2>1, <2>2, ItemType, PipeReported
  <2>4. ItemOf(e) \notin Marks BY <2>3 DEF Marks
  <2>5. PipeKeeps(Marks) BY <2>3, <2>4, PipeType, AppendOut DEF PipeKeeps
  <2>6. QED BY <2>2, <2>5, SignalsKept
<1>6. CASE ManagerReads
  <2>1. PipeKeeps(Marks) BY <1>6, ReadKeeps DEF Marks, Dev!Replies
  <2>2. UNCHANGED <<link, timestamp, sending, current_trigger_burst, closings>>
    BY <1>6 DEF ManagerReads, deviceVars, procVars
  <2>3. QED BY <2>1, <2>2, SignalsKept
<1>7. CASE EventLoop BY <1>7, SignalsHandled
<1>8. CASE ManagerSendsCommand \/ ManagerPings \/ UserPosts \/ UserDeletes \/ UNCHANGED vars
  <2>1. UNCHANGED <<events, out, link, timestamp, sending, current_trigger_burst, closings>>
    BY <1>8 DEF ManagerSendsCommand, Mgr!HandleCommand, ManagerPings, Mgr!KeepAlive, UserPosts,
                UserDeletes, Proc!RemoveTriggerBurst, vars, managerVars, deviceVars, procVars
  <2>2. Pipe' = Pipe BY <2>1 DEF Pipe, Received
  <2>3. QED BY <2>1, <2>2, SamePipe, SignalsKept
<1>9. QED BY <1>1, <1>2, <1>3, <1>4, <1>5, <1>6, <1>7, <1>8 DEF Next, Manager

LEMMA SignalsInit == Init => OwnSignals
<1> SUFFICES ASSUME Init PROVE OwnSignals
  OBVIOUS
<1>1. events = <<>> /\ out = <<>> /\ closings = {} /\ ~Open /\ ~link
  BY DEF Init, Mgr!ManagerInit, Proc!ProcInit, Open
<1>2. Pipe = <<>>
  <2>1. events \in Seq(Event) BY <1>1
  <2>2. Received \in Seq(PipeEntry) /\ Len(Received) = 0 BY <1>1, <2>1, ItemsType DEF Received
  <2>3. QED BY <1>1, <2>2, ConcatEmpty DEF Pipe
<1>3. QED BY <1>1, <1>2, EmptyOrder
          DEF OwnSignals, SignalsFollow, SignalsBegin, SignalsToCome, ClosedByOwnSignal

(* Where no frame is lost on a link that is up, a burst is closed by its own  *)
(* completion signal only, although the signal does not say which burst it *)
(* completes: whatever the mode commands cut short, and however often the  *)
(* link breaks (app.c:335-345, device_communication.rs:569-577).           *)
THEOREM BurstsClosedByOwnSignal == ~Lossy => (Spec => []ClosedByOwnSignal)
<1> SUFFICES ASSUME ~Lossy PROVE Spec => []ClosedByOwnSignal
  OBVIOUS
<1>1. OwnSignals => ClosedByOwnSignal BY DEF OwnSignals
<1>2. Types /\ LinkInv /\ OwnSignals /\ [Next]_vars => OwnSignals' BY SignalsStep
<1>3. QED BY <1>1, <1>2, SignalsInit, LinkHolds, TypesHold, PTL DEF Spec

-----------------------------------------------------------------------------
(* Bursts that nothing has disturbed.                                      *)

Items == {f \in PipeEntry :
            f.cmd \in {"CONNECTED", "EVENT_TRIGGERED", "DATA_PACKET", "BUFFER_TRANSFER_COMPLETE"}}

(* Under way and undisturbed so far.  An item of such a burst that has to be  *)
(* followed by the next one; one that has to follow the one before.        *)
Intact(t)  == t \in UnderWay /\ t \notin disturbed
Leads(f)   == f.cmd \in {"EVENT_TRIGGERED", "DATA_PACKET"} /\ Intact(f.of)
Trails(f)  == f.cmd \in {"DATA_PACKET", "BUFFER_TRANSFER_COMPLETE"} /\ Intact(f.of)
OpenIntact == Open /\ Intact(current_trigger_burst.trigger_timestamp)

(* The place of an item in its burst, and how many packets come before it. *)
Position(f) == IF IsEvent(f) THEN 0 ELSE f.n
Due(f)      == IF IsComplete(f) THEN f.n ELSE f.n - 1

(* y is the next item of the burst after x.                                *)
Follows(x, y) ==
  /\ x.cmd \in {"EVENT_TRIGGERED", "DATA_PACKET"}
  /\ y.cmd \in {"DATA_PACKET", "BUFFER_TRANSFER_COMPLETE"}
  /\ y.of = x.of /\ Due(y) = Position(x)

(* The burst of t is open and holds its first n packets.                   *)
Collected(t, n) ==
  /\ Open /\ current_trigger_burst.trigger_timestamp = t
  /\ Len(current_trigger_burst.data_packets) = n
  /\ \A i \in 1..n : current_trigger_burst.data_packets[i].tag = [of |-> t, n |-> i]

(* f is what the open burst is waiting for.                                *)
Expected(f) == f.cmd \in {"DATA_PACKET", "BUFFER_TRANSFER_COMPLETE"} /\ Collected(f.of, Due(f))

(* The items of an intact burst lie in the pipe one after the other, nothing  *)
(* between them; the first is what the processor waits for; the last is the*)
(* last the device has sent, and only the latest burst can be unfinished.  *)
ItemsFollow ==
  \A x, y : NextIn(Pipe, Items, x, y) /\ (Leads(x) \/ Trails(y)) => Follows(x, y)
ItemsBegin ==
  \A y : FirstIn(Pipe, Items, y) /\ (OpenIntact \/ Trails(y)) => Expected(y)
LastSent ==
  Intact(timestamp) =>
    /\ \A x : LastIn(Pipe, Items, x) => x = last
    /\ NoneIn(Pipe, Items) => ~IsComplete(last) /\ Collected(timestamp, Position(last))
OnlyLatest ==
  /\ \A x : LastIn(Pipe, Items, x) /\ Leads(x) => x.of = timestamp
  /\ NoneIn(Pipe, Items) /\ OpenIntact => current_trigger_burst.trigger_timestamp = timestamp
InOrder == ItemsFollow /\ ItemsBegin /\ LastSent /\ OnlyLatest

(* What is under way was sent by a burst that has begun.                   *)
Past ==
  /\ \A f : Occurs(out, f) /\ f \in Items => f.of <= timestamp
  /\ \A e : Occurs(events, e) /\ ItemOf(e) \in Items /\ e.kind # "Connected" => ItemOf(e).of <= timestamp

(* The device task labels the packets of an intact burst with its trigger. *)
TriggerKnown ==
  /\ \A f : FirstIn(out, Items, f) /\ Trails(f) => current_trigger = f.of
  /\ NoneIn(out, Items) /\ Intact(timestamp) => current_trigger = timestamp
Fit ==
  /\ \A f : Occurs(out, f) /\ f.cmd = "DATA_PACKET" /\ Intact(f.of) => f.mask # {}
  /\ \A e : Occurs(events, e) /\ e.kind = "DataPacket" /\ Intact(e.frame.of) =>
       IsLabelled(e) /\ e.trigger_timestamp = e.frame.of /\ e.frame.mask # {}
Labelled == TriggerKnown /\ Fit

(* While a burst is intact, both sides are in trigger mode and no command is  *)
(* on its way that could change that; and the device counts what it sent.  *)
Reaching ==
  \A t : Intact(t) => link /\ trigger_active /\ ~ModeCommandOnLink /\ mode = "TRIGGER"
Sending ==
  Intact(timestamp) =>
    /\ last \in Items /\ last.cmd # "CONNECTED" /\ last.of = timestamp
    /\ IF IsComplete(last) THEN ~sending
       ELSE occurred /\ (sending => packets_sent = Position(last) /\ packets_sent <= packets_to_send)

Undisturbed == InOrder /\ Labelled /\ Reaching /\ Sending /\ UndisturbedBurstWhole

LEMMA IntactShrinks ==
  ASSUME timestamp' = timestamp, closings \subseteq closings', disturbed \subseteq disturbed'
  PROVE  /\ \A t : Intact(t)' => Intact(t)
         /\ \A f : (Leads(f)' => Leads(f)) /\ (Trails(f)' => Trails(f))
<1>1. \A t : Intact(t)' => Intact(t) BY DEF Intact, UnderWay
<1>2. QED BY <1>1 DEF Leads, Trails

(* A step after which nothing is intact.                                   *)
LEMMA NothingIntact ==
  ASSUME \A t : ~Intact(t)'
  PROVE  InOrder' /\ Labelled' /\ Reaching' /\ Sending'
<1>1. /\ \A f : ~Leads(f)' /\ ~Trails(f)'
      /\ ~OpenIntact' /\ ~Intact(timestamp)'
  BY DEF Leads, Trails, OpenIntact, Intact, UnderWay
<1>2. InOrder' BY <1>1 DEF InOrder, ItemsFollow, ItemsBegin, LastSent, OnlyLatest
<1>3. Labelled'
  <2>1. TriggerKnown' BY <1>1 DEF TriggerKnown
  <2>2. Fit' BY DEF Fit, Intact, UnderWay
  <2>3. QED BY <2>1, <2>2 DEF Labelled
<1>4. QED BY <1>1, <1>2, <1>3 DEF Reaching, Sending

(* What is in the pipe is in one of its two parts.                         *)
LEMMA PipeOccurs ==
  ASSUME Types, NEW x, Occurs(Pipe, x)
  PROVE  Occurs(out, x) \/ \E e \in Event : Occurs(events, e) /\ ItemOf(e) = x
<1>1. Occurs(Received, x) \/ Occurs(out, x) BY PipeType, ConcatOccurs DEF Pipe
<1>2. CASE Occurs(Received, x)
  <2>1. events \in Seq(Event) BY DEF Types, QueueTypes
  <2>2. /\ Len(Received) = Len(events) /\ Len(events) \in Nat
        /\ \A i \in 1..Len(events) : Received[i] = ItemOf(events[i])
    BY <2>1, ItemsType DEF Received
  <2>3. PICK i \in 1..Len(events) : Received[i] = x BY <1>2, <2>2 DEF Occurs
  <2>4. events[i] \in Event /\ Occurs(events, events[i]) /\ ItemOf(events[i]) = x
    BY <2>1, <2>2, <2>3 DEF Occurs
  <2>5. QED BY <2>4
<1>3. QED BY <1>1, <1>2

LEMMA PastPipe ==
  ASSUME Types, Past, NEW x, Occurs(Pipe, x), x \in Items, x.cmd # "CONNECTED"
  PROVE  x.of <= timestamp
<1>1. \A e \in Event : e.kind = "Connected" => ItemOf(e).cmd = "CONNECTED" BY ItemType
<1>2. QED BY <1>1, PipeOccurs DEF Past

-----------------------------------------------------------------------------
(* What the device does when it sends on its own.                          *)

Disturbed(t) == disturbed \subseteq disturbed' /\ disturbed' \subseteq disturbed \cup {t}

Elsewhere ==
  UNCHANGED <<link, events, down, trigger_active, current_trigger, current_trigger_burst, closings>>

LEMMA ProducesElsewhere == DeviceProduces => Elsewhere
BY DEF DeviceProduces, DeviceFires, DeviceSendsPacket, DeviceCompletes, DeviceStreams, Dev!Fire,
       Dev!BurstPacket, Dev!BurstComplete, Dev!StreamPacket, managerVars, procVars, Elsewhere

LEMMA LostNothing ==
  ASSUME NEW S, NEW s \in Seq(S), NEW e \in S, NEW d \in S
  PROVE  /\ Len(s) \in Nat
         /\ Len(s) < Len(s) + 1 /\ Len(s) < Len(s) + 2
         /\ Len(Append(s, e)) < Len(s) + 2
         /\ Append(s, e) \in Seq(S)
<1>1. Len(s) \in Nat /\ Len(Append(s, e)) = Len(s) + 1 /\ Append(s, e) \in Seq(S) BY AppendEntries
<1>2. QED BY <1>1

(* A new burst: its event e and perhaps its first packet d.                *)
BurstBegins(e, d) ==
  /\ e \in Dev!Frame /\ e \in Items /\ IsEvent(e) /\ e.of = timestamp'
  /\ d \in Dev!Frame /\ d \in Items /\ d.cmd = "DATA_PACKET" /\ d.of = timestamp' /\ d.n = 1
  /\ d.mask = channels
  /\ timestamp' = timestamp + 1 /\ timestamp' \in Stamps
  /\ ~occurred /\ occurred' /\ mode = "TRIGGER" /\ mode' = mode
  /\ packets_to_send' \in Nat \ {0}
  /\ (last' = e /\ packets_sent' = 0) \/ (last' = d /\ packets_sent' = 1)
  /\ out' \in {out, Append(out, e), Append(out, d), Append(Append(out, e), d)}
  /\ Disturbed(timestamp')
  /\ timestamp' \notin disturbed' =>
       /\ link /\ channels # {} /\ ~ModeCommandOnLink /\ trigger_active
       /\ \/ out' = Append(out, e) /\ last' = e
          \/ out' = Append(Append(out, e), d) /\ last' = d

LEMMA FiresBegins ==
  ASSUME Types, DeviceFires
  PROVE  \E e, d : BurstBegins(e, d)
<1>0. /\ Dev!AppTypeOK /\ out \in Seq(Dev!Frame)
      /\ \A t \in Stamps : Dev!EventFrame(t) \in Dev!Frame
      /\ \A t \in Stamps \cup {0}, n \in Nat : Dev!DataFrame(t, n) \in Dev!Frame
      /\ timestamp \in Nat
  BY FramesAreFrames DEF Types, DeviceTypes, QueueTypes
<1>1. PICK due \in BOOLEAN, count \in PacketCounts :
        /\ Dev!FireEvent(due, count) /\ Dev!EmitAll(Dev!FireFrames(due))
        /\ Disturbs(\/ LostOf(Len(Dev!FireFrames(due))) \/ channels = {}
                    \/ ModeCommandOnLink \/ ~trigger_active, timestamp')
  BY DEF DeviceFires, Dev!Fire
<1>2. Dev!NextStamp = timestamp + 1 /\ Dev!NextStamp \in Stamps
  BY <1>0, NextStampIsNew DEF DeviceFires
<1> DEFINE e == Dev!EventFrame(Dev!NextStamp)
           d == Dev!DataFrame(Dev!NextStamp, 1)
<1>3. /\ timestamp' = timestamp + 1 /\ timestamp' \in Stamps
      /\ ~occurred /\ occurred' /\ mode = "TRIGGER" /\ mode' = mode
      /\ packets_to_send' \in Nat \ {0}
  BY <1>1, <1>2, DeviceAssumption DEF Dev!FireEvent, Dev!Listening
<1>4. /\ e \in Dev!Frame /\ e \in Items /\ IsEvent(e) /\ e.of = timestamp'
      /\ d \in Dev!Frame /\ d \in Items /\ d.cmd = "DATA_PACKET" /\ d.of = timestamp' /\ d.n = 1
      /\ d.mask = channels
  <2>1. e \in Dev!Frame /\ d \in Dev!Frame BY <1>0, <1>2
  <2>2. e.cmd = "EVENT_TRIGGERED" /\ d.cmd = "DATA_PACKET" BY DEF Dev!EventFrame, Dev!DataFrame
  <2>3. e \in Items /\ d \in Items BY <2>1, <2>2 DEF Items, PipeEntry
  <2>4. QED BY <1>2, <1>3, <2>1, <2>2, <2>3 DEF Dev!EventFrame, Dev!DataFrame, IsEvent
<1>5. Disturbed(timestamp') BY <1>1 DEF Disturbs, Disturbed
<1>6. CASE due
  <2>1. Dev!FireFrames(due) = <<e, d>> BY <1>6 DEF Dev!FireFrames
  <2> HIDE DEF e, d
  <2>2. Len(<<e, d>>) = 2 /\ <<e, d>>[1] = e /\ <<e, d>>[2] = d OBVIOUS
  <2>3. last' = d /\ packets_sent' = 1 BY <1>1, <2>1, <2>2 DEF Dev!FireEvent
  <2>4. /\ out' \in {out, Append(out, e), Append(out, d), Append(Append(out, e), d)}
        /\ ~link => out' = out
    BY <1>1, <2>1, <2>2 DEF Dev!EmitAll
  <2>5. ASSUME timestamp' \notin disturbed'
        PROVE  /\ link /\ channels # {} /\ ~ModeCommandOnLink /\ trigger_active
               /\ out' = Append(Append(out, e), d)
    <3>1. ~LostOf(2) /\ channels # {} /\ ~ModeCommandOnLink /\ trigger_active
      BY <1>1, <2>1, <2>2, <2>5 DEF Disturbs
    <3>2. out' # out /\ out' # Append(out, e) /\ out' # Append(out, d)
      BY <1>0, <1>4, <3>1, LostNothing DEF LostOf
    <3>3. QED BY <2>4, <3>1, <3>2
  <2>6. BurstBegins(e, d) BY <1>3, <1>4, <1>5, <2>3, <2>4, <2>5 DEF BurstBegins
  <2>7. QED BY <2>6
<1>7. CASE ~due
  <2>1. Dev!FireFrames(due) = <<e>> BY <1>7 DEF Dev!FireFrames
  <2> HIDE DEF e, d
  <2>2. Len(<<e>>) = 1 /\ <<e>>[1] = e OBVIOUS
  <2>3. last' = e /\ packets_sent' = 0 BY <1>1, <2>1, <2>2 DEF Dev!FireEvent
  <2>4. out' \in {out, Append(out, e)} /\ (~link => out' = out)
    BY <1>1, <2>1, <2>2 DEF Dev!EmitAll, Dev!Emit
  <2>5. ASSUME timestamp' \notin disturbed'
        PROVE  /\ link /\ channels # {} /\ ~ModeCommandOnLink /\ trigger_active
               /\ out' = Append(out, e)
    <3>1. ~LostOf(1) /\ channels # {} /\ ~ModeCommandOnLink /\ trigger_active
      BY <1>1, <2>1, <2>2, <2>5 DEF Disturbs
    <3>2. out' # out BY <1>0, <1>4, <3>1, LostNothing DEF LostOf
    <3>3. QED BY <2>4, <3>1, <3>2
  <2>6. /\ (last' = e /\ packets_sent' = 0) \/ (last' = d /\ packets_sent' = 1)
        /\ out' \in {out, Append(out, e), Append(out, d), Append(Append(out, e), d)}
    BY <2>3, <2>4
  <2>7. timestamp' \notin disturbed' =>
          /\ link /\ channels # {} /\ ~ModeCommandOnLink /\ trigger_active
          /\ \/ out' = Append(out, e) /\ last' = e
             \/ out' = Append(Append(out, e), d) /\ last' = d
    BY <2>3, <2>5
  <2>8. BurstBegins(e, d) BY <1>3, <1>4, <1>5, <2>6, <2>7 DEF BurstBegins
  <2>9. QED BY <2>8
<1>8. QED BY <1>6, <1>7

(* The next frame f of the burst under way.                                *)
BurstGoesOn(f) ==
  /\ f \in Dev!Frame /\ f \in Items /\ f.of = timestamp /\ last' = f
  /\ timestamp' = timestamp /\ mode' = mode /\ sending
  /\ \/ /\ f.cmd = "DATA_PACKET" /\ f.n = packets_sent + 1 /\ f.mask = channels
        /\ packets_sent < packets_to_send /\ packets_sent' = packets_sent + 1
        /\ packets_to_send' = packets_to_send /\ occurred' = occurred
     \/ /\ IsComplete(f) /\ f.n = packets_to_send
        /\ packets_sent >= packets_to_send /\ ~sending'
  /\ out' \in {out, Append(out, f)}
  /\ Disturbed(timestamp)
  /\ timestamp \notin disturbed' =>
       out' = Append(out, f) /\ (f.cmd = "DATA_PACKET" => f.mask # {})

LEMMA SendsGoesOn ==
  ASSUME Types, DeviceSendsPacket \/ DeviceCompletes
  PROVE  \E f : BurstGoesOn(f)
<1>0. /\ Dev!AppTypeOK /\ out \in Seq(Dev!Frame)
      /\ \A t \in Stamps \cup {0}, n \in Nat : Dev!DataFrame(t, n) \in Dev!Frame
      /\ Dev!CompleteFrame(timestamp) \in Dev!Frame
      /\ timestamp \in Stamps \cup {0} /\ packets_sent \in Nat
  BY FramesAreFrames DEF Types, DeviceTypes, QueueTypes, Dev!AppTypeOK
<1>1. CASE DeviceSendsPacket
  <2> DEFINE f == Dev!BurstFrame
  <2>1. /\ f \in Dev!Frame /\ f.cmd = "DATA_PACKET" /\ f.of = timestamp
        /\ f.n = packets_sent + 1 /\ f.mask = channels
    <3>1. packets_sent + 1 \in Nat BY <1>0
    <3>2. QED BY <1>0, <3>1 DEF Dev!BurstFrame, Dev!DataFrame
  <2>2. f \in Items BY <2>1 DEF Items, PipeEntry
  <2>3. /\ last' = f /\ timestamp' = timestamp /\ mode' = mode /\ sending
        /\ packets_sent < packets_to_send /\ packets_sent' = packets_sent + 1
        /\ packets_to_send' = packets_to_send /\ occurred' = occurred
        /\ out' \in {out, Append(out, f)}
        /\ Disturbs(LostOf(1) \/ channels = {}, timestamp)
    BY <1>1 DEF DeviceSendsPacket, Dev!BurstPacket, Dev!SendBurstPacket, Dev!Emit
  <2> HIDE DEF f
  <2>4. ASSUME timestamp \notin disturbed' PROVE out' = Append(out, f) /\ channels # {}
    <3>1. ~LostOf(1) /\ channels # {} BY <2>3, <2>4 DEF Disturbs
    <3>2. out' # out BY <1>0, <2>1, <3>1, LostNothing DEF LostOf
    <3>3. QED BY <2>3, <3>1, <3>2
  <2>5. Disturbed(timestamp) BY <2>3 DEF Disturbs, Disturbed
  <2>6. BurstGoesOn(f) BY <2>1, <2>2, <2>3, <2>4, <2>5 DEF BurstGoesOn
  <2>7. QED BY <2>6
<1>2. CASE DeviceCompletes
  <2> DEFINE f == Dev!CompleteFrame(timestamp)
  <2>1. f \in Dev!Frame /\ f.cmd = "BUFFER_TRANSFER_COMPLETE" /\ f.of = timestamp /\ f.n = packets_to_send
    BY <1>0 DEF Dev!CompleteFrame
  <2>2. f \in Items BY <2>1 DEF Items, PipeEntry
  <2>3. /\ last' = f /\ timestamp' = timestamp /\ mode' = mode /\ sending /\ ~sending'
        /\ packets_sent >= packets_to_send
        /\ out' \in {out, Append(out, f)}
        /\ Disturbs(LostOf(1), timestamp)
    BY <1>2 DEF DeviceCompletes, Dev!BurstComplete, Dev!CompleteBurst, Dev!Emit
  <2> HIDE DEF f
  <2>4. ASSUME timestamp \notin disturbed' PROVE out' = Append(out, f)
    <3>1. ~LostOf(1) BY <2>3, <2>4 DEF Disturbs
    <3>2. out' # out BY <1>0, <2>1, <3>1, LostNothing DEF LostOf
    <3>3. QED BY <2>3, <3>2
  <2>5. Disturbed(timestamp) BY <2>3 DEF Disturbs, Disturbed
  <2>6. BurstGoesOn(f) BY <2>1, <2>2, <2>3, <2>4, <2>5 DEF BurstGoesOn, IsComplete
  <2>7. QED BY <2>6
<1>3. QED BY <1>1, <1>2

-----------------------------------------------------------------------------
(* The steps that send frames keep the rest.                               *)

LEMMA WholeKept ==
  ASSUME Undisturbed, closings' = closings, disturbed \subseteq disturbed'
  PROVE  UndisturbedBurstWhole'
<1>1. \A c : Whole(c)' <=> Whole(c) BY DEF Whole
<1>2. QED BY <1>1 DEF Undisturbed, UndisturbedBurstWhole

(* While the device waits for a trigger, nothing intact is unfinished.     *)
LEMMA NothingAwaited ==
  ASSUME Undisturbed, ~occurred
  PROVE  /\ \A x : LastIn(Pipe, Items, x) => ~Leads(x)
         /\ ~(NoneIn(Pipe, Items) /\ OpenIntact)
<1>1. Intact(timestamp) => IsComplete(last) BY DEF Undisturbed, Sending
<1>2. ASSUME NEW x, LastIn(Pipe, Items, x), Leads(x) PROVE FALSE
  <2>1. x.of = timestamp BY <1>2 DEF Undisturbed, InOrder, OnlyLatest
  <2>2. Intact(timestamp) /\ ~IsComplete(x) BY <1>2, <2>1 DEF Leads, IsComplete
  <2>3. QED BY <1>1, <1>2, <2>2 DEF Undisturbed, InOrder, LastSent
<1>3. ASSUME NoneIn(Pipe, Items), OpenIntact PROVE FALSE
  <2>1. Intact(timestamp) BY <1>3 DEF Undisturbed, InOrder, OnlyLatest, OpenIntact
  <2>2. QED BY <1>1, <1>3, <2>1 DEF Undisturbed, InOrder, LastSent
<1>4. QED BY <1>2, <1>3

(* The items of a queue to which none, one or both of e and d are appended.*)
LEMMA SomeSent ==
  ASSUME NEW s \in Seq(PipeEntry), NEW e \in Items, NEW d \in Items, NEW q,
         q \in {s, Append(s, e), Append(s, d), Append(Append(s, e), d)}
  PROVE  /\ \A x, y : NextIn(q, Items, x, y) =>
                        \/ NextIn(s, Items, x, y)
                        \/ LastIn(s, Items, x) /\ y \in {e, d}
                        \/ x = e /\ y = d
         /\ \A y : FirstIn(q, Items, y) => FirstIn(s, Items, y) \/ (NoneIn(s, Items) /\ y \in {e, d})
         /\ \A x : LastIn(q, Items, x) => LastIn(s, Items, x) \/ x \in {e, d}
         /\ NoneIn(q, Items) => NoneIn(s, Items)
         /\ \A x : Occurs(q, x) => Occurs(s, x) \/ x \in {e, d}
<1>0. e \in PipeEntry /\ d \in PipeEntry BY DEF Items
<1>1. CASE q = s BY <1>1
<1>2. CASE q = Append(s, e) BY <1>2, <1>0, AppendIn, AppendOccurs
<1>3. CASE q = Append(s, d) BY <1>3, <1>0, AppendIn, AppendOccurs
<1>4. CASE q = Append(Append(s, e), d)
  <2> DEFINE r == Append(s, e)
  <2>1. r \in Seq(PipeEntry) BY <1>0, AppendEntries
  <2>2. /\ \A x, y : NextIn(r, Items, x, y) => NextIn(s, Items, x, y) \/ (LastIn(s, Items, x) /\ y = e)
        /\ \A y : FirstIn(r, Items, y) => FirstIn(s, Items, y) \/ (NoneIn(s, Items) /\ y = e)
        /\ \A x : LastIn(r, Items, x) => x = e
        /\ ~NoneIn(r, Items)
        /\ \A x : Occurs(r, x) <=> Occurs(s, x) \/ x = e
    BY <1>0, AppendIn, AppendOccurs
  <2> HIDE DEF r
  <2>3. /\ \A x, y : NextIn(Append(r, d), Items, x, y) => NextIn(r, Items, x, y) \/ (LastIn(r, Items, x) /\ y = d)
        /\ \A y : FirstIn(Append(r, d), Items, y) => FirstIn(r, Items, y) \/ (NoneIn(r, Items) /\ y = d)
        /\ \A x : LastIn(Append(r, d), Items, x) => x = d
        /\ ~NoneIn(Append(r, d), Items)
        /\ \A x : Occurs(Append(r, d), x) <=> Occurs(r, x) \/ x = d
    BY <2>1, <1>0, AppendIn, AppendOccurs
  <2>4. q = Append(r, d) BY <1>4 DEF r
  <2>5. QED BY <2>2, <2>3, <2>4
<1>5. QED BY <1>1, <1>2, <1>3, <1>4

LEMMA PairSent ==
  ASSUME NEW s \in Seq(PipeEntry), NEW e \in Items, NEW d \in Items
  PROVE  /\ \A x, y : NextIn(Append(Append(s, e), d), Items, x, y) =>
                        NextIn(s, Items, x, y) \/ (LastIn(s, Items, x) /\ y = e) \/ (x = e /\ y = d)
         /\ \A y : FirstIn(Append(Append(s, e), d), Items, y) =>
                     FirstIn(s, Items, y) \/ (NoneIn(s, Items) /\ y = e)
         /\ \A x : LastIn(Append(Append(s, e), d), Items, x) => x = d
         /\ ~NoneIn(Append(Append(s, e), d), Items)
<1>0. e \in PipeEntry /\ d \in PipeEntry BY DEF Items
<1> DEFINE r == Append(s, e)
<1>1. r \in Seq(PipeEntry) BY <1>0, AppendEntries
<1>2. /\ \A x, y : NextIn(r, Items, x, y) => NextIn(s, Items, x, y) \/ (LastIn(s, Items, x) /\ y = e)
      /\ \A y : FirstIn(r, Items, y) => FirstIn(s, Items, y) \/ (NoneIn(s, Items) /\ y = e)
      /\ \A x : LastIn(r, Items, x) => x = e
      /\ ~NoneIn(r, Items)
  BY <1>0, AppendIn
<1> HIDE DEF r
<1>3. /\ \A x, y : NextIn(Append(r, d), Items, x, y) => NextIn(r, Items, x, y) \/ (LastIn(r, Items, x) /\ y = d)
      /\ \A y : FirstIn(Append(r, d), Items, y) => FirstIn(r, Items, y) \/ (NoneIn(r, Items) /\ y = d)
      /\ \A x : LastIn(Append(r, d), Items, x) => x = d
      /\ ~NoneIn(Append(r, d), Items)
  BY <1>0, <1>1, AppendIn
<1>4. QED BY <1>2, <1>3 DEF r

(* A burst begins.                                                         *)
LEMMA BeginsUndisturbed ==
  ASSUME Types, Ordered, Past, Undisturbed, Elsewhere, NEW e, NEW d, BurstBegins(e, d)
  PROVE  Undisturbed'
<1>0. /\ timestamp \in Nat /\ timestamp' = timestamp + 1
      /\ e.of = timestamp + 1 /\ d.of = timestamp + 1
      /\ IsEvent(e) /\ d.cmd = "DATA_PACKET" /\ d.n = 1
      /\ e \in PipeEntry /\ d \in PipeEntry /\ e \in Items /\ d \in Items
      /\ ~Trails(e)' /\ e # d
  BY FramesAreFrames DEF BurstBegins, PipeEntry, Types, DeviceTypes, IsEvent, Trails
<1>e. e \in PipeEntry /\ d \in PipeEntry /\ e \in Items /\ d \in Items BY <1>0
<1> DEFINE t == timestamp'
<1>1. Pipe' \in {Pipe, Append(Pipe, e), Append(Pipe, d), Append(Append(Pipe, e), d)}
  <2>0. Received' = Received BY DEF Elsewhere, Received
  <2>1. /\ Received \o Append(out, e) = Append(Pipe, e) /\ Append(out, e) \in Seq(PipeEntry)
        /\ Received \o Append(out, d) = Append(Pipe, d)
    BY <1>0, PipeType, ConcatAppend, AppendEntries DEF Pipe
  <2>2. Received \o Append(Append(out, e), d) = Append(Append(Pipe, e), d)
    <3> DEFINE o == Append(out, e)
    <3>1. o \in Seq(PipeEntry) /\ Received \o o = Append(Pipe, e) BY <2>1
    <3> HIDE DEF o
    <3>2. o \in Seq(PipeEntry) /\ d \in PipeEntry /\ Received \in Seq(PipeEntry) BY <1>e, <3>1, PipeType
    <3>3. Received \o Append(o, d) = Append(Received \o o, d) BY <3>2, ConcatAppend
    <3>4. QED BY <3>1, <3>3 DEF o
  <2>3. Pipe' = Received \o out' BY <2>0 DEF Pipe
  <2>4. out' \in {out, Append(out, e), Append(out, d), Append(Append(out, e), d)}
    BY DEF BurstBegins
  <2>5. CASE out' = out BY <2>3, <2>5 DEF Pipe
  <2>6. CASE out' = Append(out, e) BY <2>1, <2>3, <2>6
  <2>7. CASE out' = Append(out, d) BY <2>1, <2>3, <2>7
  <2>8. CASE out' = Append(Append(out, e), d) BY <2>2, <2>3, <2>8
  <2>9. QED BY <2>4, <2>5, <2>6, <2>7, <2>8
<1>2. ASSUME t \notin disturbed'
      PROVE  (Pipe' = Append(Pipe, e) /\ last' = e) \/ (Pipe' = Append(Append(Pipe, e), d) /\ last' = d)
  <2>0. Pipe' = Received \o out' BY DEF Elsewhere, Received, Pipe
  <2>1. Received \o Append(out, e) = Append(Pipe, e) /\ Append(out, e) \in Seq(PipeEntry)
    BY <1>0, PipeType, ConcatAppend, AppendEntries DEF Pipe
  <2>2. Received \o Append(Append(out, e), d) = Append(Append(Pipe, e), d)
    <3> DEFINE o == Append(out, e)
    <3>1. o \in Seq(PipeEntry) /\ Received \o o = Append(Pipe, e) BY <2>1
    <3> HIDE DEF o
    <3>2. o \in Seq(PipeEntry) /\ d \in PipeEntry /\ Received \in Seq(PipeEntry) BY <1>e, <3>1, PipeType
    <3>3. Received \o Append(o, d) = Append(Received \o o, d) BY <3>2, ConcatAppend
    <3>4. QED BY <3>1, <3>3 DEF o
  <2>3. \/ out' = Append(out, e) /\ last' = e
        \/ out' = Append(Append(out, e), d) /\ last' = d
    BY <1>2 DEF BurstBegins
  <2>4. QED BY <2>0, <2>1, <2>2, <2>3
<1>3. \A x : x # t /\ Intact(x)' => Intact(x)
  BY <1>0 DEF Intact, UnderWay, Elsewhere, BurstBegins, Disturbed
<1>4. /\ \A x : Occurs(Pipe, x) /\ x \in Items => (Leads(x)' => Leads(x)) /\ (Trails(x)' => Trails(x))
      /\ OpenIntact' => OpenIntact
  <2>1. ASSUME NEW x, Occurs(Pipe, x), x \in Items PROVE (Leads(x)' => Leads(x)) /\ (Trails(x)' => Trails(x))
    <3>1. CASE x.cmd = "CONNECTED" BY <3>1 DEF Leads, Trails
    <3>2. CASE x.cmd # "CONNECTED"
      <4>1. x.of <= timestamp BY <2>1, <3>2, PastPipe
      <4>2. x.of # t BY <1>0, <4>1
      <4>3. QED BY <1>3, <4>2 DEF Leads, Trails
    <3>3. QED BY <3>1, <3>2
  <2>2. Open => current_trigger_burst.trigger_timestamp # t
    <3>1. Open => /\ current_trigger_burst.trigger_timestamp \in Stamps
                  /\ Known(current_trigger_burst.trigger_timestamp)
      BY DEF Types, ProcessorTypes, Open, Known, ProcStamps
    <3>2. QED BY <1>0, <3>1 DEF Ordered, KnownPast, Stamps
  <2>3. OpenIntact' => OpenIntact BY <1>3, <2>2 DEF OpenIntact, Open, Elsewhere
  <2>4. QED BY <2>1, <2>3
<1>5. /\ \A x : LastIn(Pipe, Items, x) => ~Leads(x)'
      /\ ~(NoneIn(Pipe, Items) /\ OpenIntact')
  BY <1>4, NothingAwaited, OrderOccurs DEF BurstBegins
<1>p. Pipe \in Seq(PipeEntry) BY PipeType
<1>o. out \in Seq(PipeEntry) BY PipeType
<1>7. /\ \A x, y : NextIn(Pipe', Items, x, y) =>
                     \/ NextIn(Pipe, Items, x, y)
                     \/ LastIn(Pipe, Items, x) /\ y \in {e, d}
                     \/ x = e /\ y = d
      /\ \A y : FirstIn(Pipe', Items, y) => FirstIn(Pipe, Items, y) \/ (NoneIn(Pipe, Items) /\ y \in {e, d})
      /\ \A x : LastIn(Pipe', Items, x) => LastIn(Pipe, Items, x) \/ x \in {e, d}
      /\ NoneIn(Pipe', Items) => NoneIn(Pipe, Items)
  BY <1>1, <1>e, <1>p, SomeSent
<1>8. ASSUME t \notin disturbed'
      PROVE  /\ \A x, y : NextIn(Pipe', Items, x, y) =>
                   NextIn(Pipe, Items, x, y) \/ (LastIn(Pipe, Items, x) /\ y = e) \/ (x = e /\ y = d)
             /\ \A y : FirstIn(Pipe', Items, y) => FirstIn(Pipe, Items, y) \/ (NoneIn(Pipe, Items) /\ y = e)
             /\ \A x : LastIn(Pipe', Items, x) => x = last'
             /\ ~NoneIn(Pipe', Items)
  <2>1. CASE Pipe' = Append(Pipe, e) /\ last' = e BY <1>e, <1>p, <2>1, AppendIn
  <2>2. CASE Pipe' = Append(Append(Pipe, e), d) /\ last' = d BY <1>e, <1>p, <2>2, PairSent
  <2>3. QED BY <1>2, <1>8, <2>1, <2>2
<1>9. \A x, n : Collected(x, n)' <=> Collected(x, n) BY DEF Collected, Open, Elsewhere
<1>10. Follows(e, d)
  BY <1>0 DEF Follows, Due, Position, IsComplete, IsEvent
<1>11. t \in disturbed' => ~Trails(d)' /\ ~Leads(d)' /\ ~Leads(e)'
  BY <1>0 DEF Trails, Leads, Intact
<1>12. InOrder'
  <2>1. ItemsFollow'
    <3>1. ASSUME NEW x, NEW y, NextIn(Pipe', Items, x, y), Leads(x)' \/ Trails(y)'
          PROVE  Follows(x, y)
      <4>1. CASE NextIn(Pipe, Items, x, y)
        BY <1>4, <3>1, <4>1, OrderOccurs DEF Undisturbed, InOrder, ItemsFollow
      <4>2. CASE LastIn(Pipe, Items, x) /\ y = e BY <1>0, <1>5, <3>1, <4>2
      <4>3. CASE x = e /\ y = d BY <1>10, <4>3
      <4>4. CASE t \in disturbed' /\ LastIn(Pipe, Items, x) /\ y = d BY <1>5, <1>11, <3>1, <4>4
      <4>5. QED BY <1>7, <1>8, <3>1, <4>1, <4>2, <4>3, <4>4
    <3>2. QED BY <3>1 DEF ItemsFollow, Follows
  <2>2. ItemsBegin'
    <3>1. ASSUME NEW y, FirstIn(Pipe', Items, y), OpenIntact' \/ Trails(y)'
          PROVE  Expected(y)'
      <4>1. CASE FirstIn(Pipe, Items, y)
        <5>1. Expected(y) BY <1>4, <3>1, <4>1, OrderOccurs DEF Undisturbed, InOrder, ItemsBegin
        <5>2. QED BY <1>9, <5>1 DEF Expected
      <4>2. CASE NoneIn(Pipe, Items) /\ y = e BY <1>0, <1>5, <3>1, <4>2
      <4>3. CASE t \in disturbed' /\ NoneIn(Pipe, Items) /\ y = d BY <1>5, <1>11, <3>1, <4>3
      <4>4. QED BY <1>7, <1>8, <3>1, <4>1, <4>2, <4>3
    <3>2. QED BY <3>1 DEF ItemsBegin
  <2>3. LastSent' BY <1>8 DEF LastSent, Intact
  <2>4. OnlyLatest'
    <3>1. ASSUME NEW x, LastIn(Pipe', Items, x), Leads(x)' PROVE x.of = t
      BY <1>0, <1>5, <1>7, <3>1
    <3>2. ~(NoneIn(Pipe', Items) /\ OpenIntact') BY <1>5, <1>7
    <3>3. QED BY <3>1, <3>2 DEF OnlyLatest
  <2>5. QED BY <2>1, <2>2, <2>3, <2>4 DEF InOrder
<1>13. TriggerKnown'
  <2>1. /\ \A y : FirstIn(out', Items, y) => FirstIn(out, Items, y) \/ (NoneIn(out, Items) /\ y \in {e, d})
        /\ NoneIn(out', Items) => NoneIn(out, Items)
    <3>1. out' \in {out, Append(out, e), Append(out, d), Append(Append(out, e), d)}
      BY DEF BurstBegins
    <3>2. QED BY <1>e, <1>o, <3>1, SomeSent
  <2>2. ASSUME t \notin disturbed'
        PROVE  /\ \A y : FirstIn(out', Items, y) => FirstIn(out, Items, y) \/ (NoneIn(out, Items) /\ y = e)
               /\ ~NoneIn(out', Items)
    <3>1. (out' = Append(out, e) /\ last' = e) \/ (out' = Append(Append(out, e), d) /\ last' = d)
      BY <2>2 DEF BurstBegins
    <3>2. CASE out' = Append(out, e) BY <1>e, <1>o, <3>2, AppendIn
    <3>3. CASE out' = Append(Append(out, e), d) BY <1>e, <1>o, <3>3, PairSent
    <3>4. QED BY <3>1, <3>2, <3>3
  <2>3. ASSUME NEW f, FirstIn(out', Items, f), Trails(f)' PROVE current_trigger = f.of
    <3>1. FirstIn(out, Items, f)
      <4>1. f # e BY <1>0, <2>3
      <4>2. t \in disturbed' => f # d BY <1>11, <2>3
      <4>3. QED BY <2>1, <2>2, <2>3, <4>1, <4>2
    <3>2. Occurs(out, f) /\ f \in Items /\ f.cmd # "CONNECTED" BY <2>3, <3>1, OrderOccurs DEF Trails
    <3>3. f.of <= timestamp BY <3>2 DEF Past
    <3>4. f.of # t BY <1>0, <3>3
    <3>5. Trails(f) BY <1>3, <2>3, <3>4 DEF Trails
    <3>6. QED BY <3>1, <3>5 DEF Undisturbed, Labelled, TriggerKnown
  <2>4. ~(NoneIn(out', Items) /\ Intact(timestamp)') BY <2>2 DEF Intact
  <2>5. QED BY <2>3, <2>4 DEF TriggerKnown, Elsewhere
<1>14. Fit'
  <2>1. ASSUME NEW f, Occurs(out', f), f.cmd = "DATA_PACKET", Intact(f.of)' PROVE f.mask # {}
    <3>1. Occurs(out, f) \/ f \in {e, d}
      <4>1. out' \in {out, Append(out, e), Append(out, d), Append(Append(out, e), d)}
        BY DEF BurstBegins
      <4>2. QED BY <1>e, <1>o, <2>1, <4>1, SomeSent
    <3>2. CASE f \in {e, d} BY <1>0, <2>1, <3>2 DEF BurstBegins, Intact, IsEvent
    <3>3. CASE Occurs(out, f)
      <4>1. f \in PipeEntry BY <1>o, <3>3, OccursInSet
      <4>2. f \in Items BY <2>1, <4>1 DEF Items
      <4>3. f.of <= timestamp BY <2>1, <3>3, <4>2 DEF Past
      <4>4. f.of # t BY <1>0, <4>3
      <4>5. QED BY <1>3, <2>1, <3>3, <4>4 DEF Undisturbed, Labelled, Fit
    <3>4. QED BY <3>1, <3>2, <3>3
  <2>2. ASSUME NEW x, Occurs(events, x), x.kind = "DataPacket", Intact(x.frame.of)'
        PROVE  Intact(x.frame.of)
    <3>1. events \in Seq(Event) BY DEF Types, QueueTypes
    <3>2. x \in Event BY <2>2, <3>1, OccursInSet
    <3>3. ItemOf(x) = x.frame /\ ItemOf(x) \in PipeEntry /\ x.frame.cmd = "DATA_PACKET"
      BY <2>2, <3>2, ItemType, EventKinds DEF DataFrames
    <3>4. x.frame.of <= timestamp BY <2>2, <3>3 DEF Past, Items
    <3>5. x.frame.of # t BY <1>0, <3>4
    <3>6. QED BY <1>3, <2>2, <3>5
  <2>3. events' = events BY DEF Elsewhere
  <2>4. QED BY <2>1, <2>2, <2>3 DEF Undisturbed, Labelled, Fit, IsLabelled
<1>15. Reaching'
  <2>1. ASSUME NEW x, Intact(x)'
        PROVE  link /\ trigger_active /\ ~ModeCommandOnLink /\ mode = "TRIGGER"
    <3>1. CASE x = t BY <2>1, <3>1 DEF BurstBegins, Intact
    <3>2. CASE x # t BY <1>3, <2>1, <3>2 DEF Undisturbed, Reaching
    <3>3. QED BY <3>1, <3>2
  <2>2. /\ link' = link /\ trigger_active' = trigger_active /\ mode' = mode
        /\ ModeCommandOnLink' <=> ModeCommandOnLink
    BY DEF Elsewhere, BurstBegins, ModeCommandOnLink, IsModeFrame
  <2>3. QED BY <2>1, <2>2 DEF Reaching
<1>16. Sending'
  <2>1. last' \in {e, d} /\ ~IsComplete(last') BY <1>0 DEF BurstBegins, IsComplete, IsEvent
  <2>2. packets_sent' = Position(last') /\ packets_sent' <= packets_to_send'
    BY <1>0 DEF BurstBegins, Position, IsEvent
  <2>3. occurred' BY DEF BurstBegins
  <2>4. last' \in Items /\ last'.cmd # "CONNECTED" /\ last'.of = t
    BY <1>0, <2>1 DEF IsEvent
  <2>5. QED BY <2>1, <2>2, <2>3, <2>4 DEF Sending, Position, IsComplete, IsEvent
<1>17. UndisturbedBurstWhole' BY WholeKept DEF Elsewhere, BurstBegins, Disturbed
<1>18. QED BY <1>12, <1>13, <1>14, <1>15, <1>16, <1>17 DEF Undisturbed, Labelled

(* A burst goes on, or is completed.                                       *)
LEMMA GoesOnUndisturbed ==
  ASSUME Types, Undisturbed, Elsewhere, NEW f, BurstGoesOn(f)
  PROVE  Undisturbed'
<1>0. /\ f \in Items /\ f \in PipeEntry /\ f.of = timestamp /\ last' = f /\ timestamp' = timestamp
      /\ (f.cmd = "DATA_PACKET" \/ IsComplete(f))
  BY DEF BurstGoesOn, PipeEntry
<1>p. Pipe \in Seq(PipeEntry) /\ f \in PipeEntry /\ f \in Items BY <1>0, PipeType
<1>o. out \in Seq(PipeEntry) /\ f \in PipeEntry /\ f \in Items BY <1>0, PipeType
<1>1. /\ \A t : Intact(t)' => Intact(t)
      /\ \A x : (Leads(x)' => Leads(x)) /\ (Trails(x)' => Trails(x))
      /\ OpenIntact' => OpenIntact
  <2>1. closings' = closings /\ disturbed \subseteq disturbed' /\ current_trigger_burst' = current_trigger_burst
    BY DEF Elsewhere, BurstGoesOn, Disturbed
  <2>2. \A t : Intact(t)' => Intact(t) BY <1>0, <2>1 DEF Intact, UnderWay
  <2>3. QED BY <2>1, <2>2 DEF Leads, Trails, OpenIntact, Open
<1>2. Pipe' = Pipe \/ Pipe' = Append(Pipe, f)
  <2>1. out' = out \/ out' = Append(out, f) BY DEF BurstGoesOn
  <2>2. CASE out' = out BY <2>2 DEF Pipe, Received, Elsewhere
  <2>3. CASE out' = Append(out, f) BY <2>3, PipeSent DEF Elsewhere, BurstGoesOn
  <2>4. QED BY <2>1, <2>2, <2>3
<1>3. /\ \A x, y : NextIn(Pipe', Items, x, y) =>
                     NextIn(Pipe, Items, x, y) \/ (LastIn(Pipe, Items, x) /\ y = f)
      /\ \A y : FirstIn(Pipe', Items, y) => FirstIn(Pipe, Items, y) \/ (NoneIn(Pipe, Items) /\ y = f)
      /\ \A x : LastIn(Pipe', Items, x) => LastIn(Pipe, Items, x) \/ x = f
      /\ NoneIn(Pipe', Items) => NoneIn(Pipe, Items)
  <2>1. CASE Pipe' = Pipe BY <2>1
  <2>2. CASE Pipe' = Append(Pipe, f) BY <1>p, <2>2, AppendIn
  <2>3. QED BY <1>2, <2>1, <2>2
<1>4. /\ \A y : FirstIn(out', Items, y) => FirstIn(out, Items, y) \/ (NoneIn(out, Items) /\ y = f)
      /\ NoneIn(out', Items) => NoneIn(out, Items)
      /\ \A x : Occurs(out', x) => Occurs(out, x) \/ x = f
  <2>1. out' = out \/ out' = Append(out, f) BY DEF BurstGoesOn
  <2>2. CASE out' = out BY <2>2
  <2>3. CASE out' = Append(out, f) BY <1>o, <2>3, AppendIn, AppendOccurs
  <2>4. QED BY <2>1, <2>2, <2>3
<1>5. ASSUME Intact(timestamp)'
      PROVE  /\ out' = Append(out, f) /\ (f.cmd = "DATA_PACKET" => f.mask # {})
             /\ \A x : LastIn(Pipe', Items, x) => x = f
             /\ ~NoneIn(Pipe', Items) /\ ~NoneIn(out', Items)
  <2>1. out' = Append(out, f) /\ (f.cmd = "DATA_PACKET" => f.mask # {})
    BY <1>0, <1>5 DEF BurstGoesOn, Intact
  <2>2. Pipe' = Append(Pipe, f) BY <2>1, PipeSent DEF Elsewhere, BurstGoesOn
  <2>3. (\A x : LastIn(Pipe', Items, x) => x = f) /\ ~NoneIn(Pipe', Items) BY <1>p, <2>2, AppendIn
  <2>4. ~NoneIn(out', Items) BY <1>o, <2>1, AppendIn
  <2>5. QED BY <2>1, <2>3, <2>4
(* What the device has counted.                                            *)
<1>6. ASSUME Intact(timestamp)
      PROVE  /\ last.cmd \in {"EVENT_TRIGGERED", "DATA_PACKET"} /\ last.of = timestamp
             /\ packets_sent = Position(last) /\ packets_sent <= packets_to_send
             /\ Due(f) = Position(last) /\ occurred
  <2>1. last \in Items /\ last.cmd # "CONNECTED" /\ last.of = timestamp /\ ~IsComplete(last)
        /\ occurred /\ packets_sent = Position(last) /\ packets_sent <= packets_to_send
    BY <1>6 DEF Undisturbed, Sending, BurstGoesOn
  <2>2. packets_sent \in Nat /\ packets_to_send \in Nat BY DEF Types, DeviceTypes, Dev!AppTypeOK
  <2>3. Due(f) = packets_sent
    <3>1. CASE f.cmd = "DATA_PACKET" /\ f.n = packets_sent + 1
      <4>1. ~IsComplete(f) /\ f.n - 1 = packets_sent BY <2>2, <3>1 DEF IsComplete
      <4>2. QED BY <4>1 DEF Due
    <3>2. CASE IsComplete(f) /\ f.n = packets_to_send /\ packets_sent >= packets_to_send
      <4>1. packets_sent = packets_to_send BY <2>1, <2>2, <3>2 DEF BurstGoesOn
      <4>2. QED BY <3>2, <4>1 DEF Due
    <3>3. QED BY <3>1, <3>2 DEF BurstGoesOn
  <2>4. QED BY <2>1, <2>3 DEF Items, IsComplete
<1>7. InOrder'
  <2>1. ItemsFollow'
    <3>1. ASSUME NEW x, NEW y, NextIn(Pipe', Items, x, y), Leads(x)' \/ Trails(y)'
          PROVE  Follows(x, y)
      <4>1. CASE NextIn(Pipe, Items, x, y)
        BY <1>1, <3>1, <4>1 DEF Undisturbed, InOrder, ItemsFollow
      <4>2. CASE LastIn(Pipe, Items, x) /\ y = f
        <5>1. Intact(timestamp)
          BY <1>0, <1>1, <3>1, <4>2 DEF Undisturbed, InOrder, OnlyLatest, Leads, Trails
        <5>2. x = last BY <4>2, <5>1 DEF Undisturbed, InOrder, LastSent
        <5>3. QED BY <1>0, <1>6, <4>2, <5>1, <5>2 DEF Follows, IsComplete
      <4>3. QED BY <1>3, <3>1, <4>1, <4>2
    <3>2. QED BY <3>1 DEF ItemsFollow, Follows
  <2>2. ItemsBegin'
    <3>1. ASSUME NEW y, FirstIn(Pipe', Items, y), OpenIntact' \/ Trails(y)'
          PROVE  Expected(y)
      <4>1. CASE FirstIn(Pipe, Items, y)
        BY <1>1, <3>1, <4>1 DEF Undisturbed, InOrder, ItemsBegin
      <4>2. CASE NoneIn(Pipe, Items) /\ y = f
        <5>1. Intact(timestamp)
          BY <1>0, <1>1, <3>1, <4>2 DEF Undisturbed, InOrder, OnlyLatest, OpenIntact, Trails
        <5>2. Collected(timestamp, Position(last))
          BY <4>2, <5>1 DEF Undisturbed, InOrder, LastSent
        <5>3. QED BY <1>0, <1>6, <4>2, <5>1, <5>2 DEF Expected, IsComplete
      <4>3. QED BY <1>3, <3>1, <4>1, <4>2
    <3>2. \A y : Expected(y)' <=> Expected(y) BY DEF Expected, Collected, Open, Elsewhere
    <3>3. QED BY <3>1, <3>2 DEF ItemsBegin
  <2>3. LastSent' BY <1>0, <1>5 DEF LastSent
  <2>4. OnlyLatest' BY <1>0, <1>1, <1>3 DEF Undisturbed, InOrder, OnlyLatest, Elsewhere
  <2>5. QED BY <2>1, <2>2, <2>3, <2>4 DEF InOrder
<1>8. TriggerKnown'
  <2>1. ASSUME NEW y, FirstIn(out', Items, y), Trails(y)' PROVE current_trigger = y.of
    <3>1. CASE FirstIn(out, Items, y)
      BY <1>1, <2>1, <3>1 DEF Undisturbed, Labelled, TriggerKnown
    <3>2. CASE NoneIn(out, Items) /\ y = f
      BY <1>0, <1>1, <2>1, <3>2 DEF Undisturbed, Labelled, TriggerKnown, Trails
    <3>3. QED BY <1>4, <2>1, <3>1, <3>2
  <2>2. ~(NoneIn(out', Items) /\ Intact(timestamp)') BY <1>5
  <2>3. QED BY <2>1, <2>2 DEF TriggerKnown, Elsewhere
<1>9. Fit'
  <2>1. ASSUME NEW x, Occurs(out', x), x.cmd = "DATA_PACKET", Intact(x.of)' PROVE x.mask # {}
    <3>1. CASE Occurs(out, x) BY <1>1, <2>1, <3>1 DEF Undisturbed, Labelled, Fit
    <3>2. CASE x = f
      <4>1. Intact(timestamp)' BY <1>0, <2>1, <3>2 DEF Intact, UnderWay
      <4>2. QED BY <1>5, <2>1, <3>2, <4>1
    <3>3. QED BY <1>4, <2>1, <3>1, <3>2
  <2>2. events' = events BY DEF Elsewhere
  <2>3. QED BY <1>1, <2>1, <2>2 DEF Undisturbed, Labelled, Fit, IsLabelled
<1>10. Reaching'
  <2>1. /\ link' = link /\ trigger_active' = trigger_active /\ mode' = mode
        /\ ModeCommandOnLink' <=> ModeCommandOnLink
    BY DEF Elsewhere, BurstGoesOn, ModeCommandOnLink, IsModeFrame
  <2>2. QED BY <1>1, <2>1 DEF Undisturbed, Reaching
<1>11. Sending'
  <2>1. SUFFICES ASSUME Intact(timestamp)'
                 PROVE  /\ last' \in Items /\ last'.cmd # "CONNECTED" /\ last'.of = timestamp'
                        /\ IF IsComplete(last') THEN ~sending'
                           ELSE /\ occurred'
                                /\ sending' => (packets_sent' = Position(last') /\ packets_sent' <= packets_to_send')
    BY DEF Sending, Position, IsComplete, IsEvent
  <2>2. Intact(timestamp) BY <1>0, <1>1, <2>1 DEF Intact, UnderWay
  <2>3. packets_sent \in Nat /\ packets_to_send \in Nat BY DEF Types, DeviceTypes, Dev!AppTypeOK
  <2>4. f \in Items /\ f.cmd # "CONNECTED" /\ f.of = timestamp' /\ last' = f
    BY <1>0 DEF IsComplete
  <2>5. CASE IsComplete(f)
    <3>1. ~sending' BY <2>5 DEF BurstGoesOn, IsComplete
    <3>2. QED BY <2>4, <2>5, <3>1
  <2>6. CASE f.cmd = "DATA_PACKET"
    <3>1. /\ packets_sent < packets_to_send /\ packets_sent' = packets_sent + 1
          /\ packets_to_send' = packets_to_send /\ occurred' = occurred /\ f.n = packets_sent + 1
      BY <2>6 DEF BurstGoesOn, IsComplete
    <3>2. occurred /\ Position(f) = f.n /\ ~IsComplete(f)
      BY <1>6, <2>2, <2>6 DEF Position, IsEvent, IsComplete
    <3>3. packets_sent' <= packets_to_send' BY <2>3, <3>1
    <3>4. QED BY <2>4, <3>1, <3>2, <3>3
  <2>7. QED BY <1>0, <2>5, <2>6
<1>12. UndisturbedBurstWhole' BY WholeKept DEF Elsewhere, BurstGoesOn, Disturbed
<1>13. QED BY <1>7, <1>8, <1>9, <1>10, <1>11, <1>12 DEF Undisturbed, Labelled

(* Whatever the device sends on its own.                                   *)
LEMMA ProducesUndisturbed ==
  ASSUME Types, Ordered, Past, Undisturbed, DeviceProduces
  PROVE  Undisturbed'
<1>1. Elsewhere BY ProducesElsewhere
<1>2. CASE DeviceFires
  <2>1. PICK e, d : BurstBegins(e, d) BY <1>2, FiresBegins
  <2>2. QED BY <1>1, <2>1, BeginsUndisturbed
<1>3. CASE DeviceSendsPacket \/ DeviceCompletes
  <2>1. PICK f : BurstGoesOn(f) BY <1>3, SendsGoesOn
  <2>2. QED BY <1>1, <2>1, GoesOnUndisturbed
<1>4. CASE DeviceStreams
  <2>1. mode = "CONTINUOUS" /\ UNCHANGED <<timestamp, disturbed>>
    BY <1>4 DEF DeviceStreams, Dev!StreamPacket, Dev!SendStreamPacket, Dev!trigger
  <2>2. \A t : ~Intact(t)'
    BY <1>1, <2>1 DEF Undisturbed, Reaching, Intact, UnderWay, Elsewhere
  <2>3. UndisturbedBurstWhole' BY <1>1, <2>1, WholeKept DEF Elsewhere
  <2>4. QED BY <2>2, <2>3, NothingIntact DEF Undisturbed
<1>5. QED BY <1>2, <1>3, <1>4 DEF DeviceProduces

-----------------------------------------------------------------------------
(* The steps that leave the items of the pipe as they are.                 *)

LEMMA OrderUnmoved ==
  ASSUME InOrder, PipeKeeps(Items), UNCHANGED <<current_trigger_burst, closings, timestamp, last>>,
         disturbed \subseteq disturbed'
  PROVE  InOrder'
<1>1. /\ \A t : Intact(t)' => Intact(t)
      /\ \A x : (Leads(x)' => Leads(x)) /\ (Trails(x)' => Trails(x))
      /\ OpenIntact' => OpenIntact
  <2>1. \A t : Intact(t)' => Intact(t) BY DEF Intact, UnderWay
  <2>2. QED BY <2>1 DEF Leads, Trails, OpenIntact, Open
<1>2. /\ \A f : Expected(f)' <=> Expected(f)
      /\ \A t, n : Collected(t, n)' <=> Collected(t, n)
      /\ \A x, y : Follows(x, y)' <=> Follows(x, y)
  BY DEF Expected, Collected, Open, Follows
<1>3. ItemsFollow' BY <1>1, <1>2 DEF InOrder, ItemsFollow, PipeKeeps
<1>4. ItemsBegin' BY <1>1, <1>2 DEF InOrder, ItemsBegin, PipeKeeps
<1>5. LastSent'
  <2>1. SUFFICES ASSUME Intact(timestamp)'
                 PROVE  /\ \A x : LastIn(Pipe', Items, x) => x = last
                        /\ NoneIn(Pipe', Items) => ~IsComplete(last) /\ Collected(timestamp, Position(last))
    BY <1>2 DEF LastSent
  <2>2. Intact(timestamp) BY <2>1 DEF Intact, UnderWay
  <2>3. QED BY <2>2 DEF InOrder, LastSent, PipeKeeps
<1>6. OnlyLatest' BY <1>1 DEF InOrder, OnlyLatest, PipeKeeps
<1>7. QED BY <1>3, <1>4, <1>5, <1>6 DEF InOrder

LEMMA LabelledUnmoved ==
  ASSUME Labelled, UNCHANGED <<out, events, current_trigger, closings, timestamp>>,
         disturbed \subseteq disturbed'
  PROVE  Labelled'
<1>1. \A t : Intact(t)' => Intact(t) BY DEF Intact, UnderWay
<1>2. TriggerKnown'
  <2>1. Intact(timestamp)' => Intact(timestamp) BY DEF Intact, UnderWay
  <2>2. QED BY <1>1, <2>1 DEF Labelled, TriggerKnown, Trails
<1>3. Fit' BY <1>1 DEF Labelled, Fit, IsLabelled
<1>4. QED BY <1>2, <1>3 DEF Labelled

LEMMA SendingUnmoved ==
  ASSUME Sending, UNCHANGED <<closings, timestamp, last, occurred, packets_sent, packets_to_send>>,
         disturbed \subseteq disturbed', sending' => sending
  PROVE  Sending'
<1>1. Intact(timestamp)' => Intact(timestamp) BY DEF Intact, UnderWay
<1>2. QED BY <1>1 DEF Sending, Position, IsComplete, IsEvent

LEMMA ReachingUnmoved ==
  ASSUME Reaching, UNCHANGED <<closings, timestamp, link, trigger_active, mode>>,
         disturbed \subseteq disturbed', ModeCommandOnLink' => ModeCommandOnLink
  PROVE  Reaching'
<1>1. \A t : Intact(t)' => Intact(t) BY DEF Intact, UnderWay
<1>2. QED BY <1>1 DEF Reaching

(* A command that the device task puts on the link.                        *)
LEMMA CommandAppended ==
  ASSUME Types, NEW f \in CommandFrames, ~IsModeFrame(f), down' = down \/ down' = Append(down, f)
  PROVE  ModeCommandOnLink' => ModeCommandOnLink
<1>1. CASE down' = down BY <1>1 DEF ModeCommandOnLink
<1>2. CASE down' = Append(down, f)
  <2>1. /\ Len(down) \in Nat /\ Len(down') = Len(down) + 1
        /\ \A i \in 1..Len(down) : down'[i] = down[i]
        /\ down'[Len(down) + 1] = f
    BY <1>2, AppendEntries DEF Types, QueueTypes
  <2>2. \A i \in 1..Len(down') : i \in 1..Len(down) \/ i = Len(down) + 1 BY <2>1
  <2>3. QED BY <2>1, <2>2 DEF ModeCommandOnLink, IsModeFrame
<1>3. QED BY <1>1, <1>2

(* The device reads a command: while a burst is intact, not a mode command.*)
LEMMA ReadsUndisturbed ==
  ASSUME Types, Undisturbed, DeviceReads
  PROVE  Undisturbed'
<1>0. /\ Dev!AppTypeOK /\ Dev!HandleCommand(Head(down)) /\ down # <<>> /\ down' = Tail(down)
      /\ UNCHANGED <<link, trigger_active, current_trigger, events, current_trigger_burst,
                     closings, disturbed, timestamp, last>>
      /\ (sending' => sending)
  <2>1. /\ Dev!AppTypeOK /\ Dev!HandleCommand(Head(down)) /\ down # <<>> /\ down' = Tail(down)
        /\ UNCHANGED <<link, trigger_active, current_trigger, events, current_trigger_burst,
                       closings, disturbed>>
    BY DEF Types, DeviceTypes, DeviceReads, Dev!Command, procVars
  <2>2. QED BY <2>1, HandleCommandType
<1>1. UndisturbedBurstWhole' BY <1>0, WholeKept
<1>2. CASE \A t : ~Intact(t)
  <2>1. \A t : ~Intact(t)' BY <1>0, <1>2 DEF Intact, UnderWay
  <2>2. QED BY <1>1, <2>1, NothingIntact DEF Undisturbed
<1>3. CASE \E t : Intact(t)
  <2>1. ~ModeCommandOnLink BY <1>3 DEF Undisturbed, Reaching
  <2>2. /\ Head(down) = down[1] /\ 1 \in 1..Len(down) /\ Len(down) \in Nat
        /\ \A i \in 1..Len(down') : i + 1 \in 1..Len(down) /\ down'[i] = down[i + 1]
    <3>1. /\ Len(down) \in Nat /\ Len(down) >= 1 /\ Len(Tail(down)) = Len(down) - 1
          /\ \A i \in 1..(Len(down) - 1) : Tail(down)[i] = down[i + 1]
          /\ Head(down) = down[1]
      BY <1>0, TailEntries DEF Types, QueueTypes
    <3>2. QED BY <1>0, <3>1
  <2>3. ~IsModeFrame(Head(down)) /\ ~ModeCommandOnLink'
    BY <2>1, <2>2 DEF ModeCommandOnLink, IsModeFrame
  <2>4. UNCHANGED <<mode, occurred, packets_sent, packets_to_send>>
    BY <1>0, <2>3 DEF IsModeFrame, Dev!HandleCommand, Dev!AnswerOnly, Dev!SetModeContinuous,
                      Dev!SetModeTrigger, Dev!StartStream, Dev!StopStream, Dev!ConfigureStream,
                      Dev!appVars, Dev!trigger
  <2>5. PICK f \in Dev!Frame : f.cmd \in Dev!Replies /\ out' \in {out, Append(out, f)}
    BY ReplySent
  <2>6. f \notin Items /\ f.cmd # "DATA_PACKET" BY <2>5 DEF Items, Dev!Replies
  <2>7. out' = out \/ out' = Append(out, f) BY <2>5
  <2>8. PipeKeeps(Items) BY <1>0, <2>6, <2>7, UnmarkedSent
  <2>9. InOrder' BY <1>0, <2>8, OrderUnmoved DEF Undisturbed
  <2>10. Reaching' BY <1>0, <2>3, <2>4, ReachingUnmoved DEF Undisturbed
  <2>11. Sending' BY <1>0, <2>4, SendingUnmoved DEF Undisturbed
  <2>12. Labelled'
    <3>1. CASE out' = out BY <1>0, <3>1, LabelledUnmoved DEF Undisturbed
    <3>2. CASE out' = Append(out, f)
      <4>0. out \in Seq(PipeEntry) /\ f \in PipeEntry BY PipeType DEF PipeEntry
      <4>1. /\ \A x : FirstIn(out', Items, x) => FirstIn(out, Items, x)
            /\ NoneIn(out', Items) => NoneIn(out, Items)
            /\ \A x : Occurs(out', x) => Occurs(out, x) \/ x = f
        BY <2>6, <3>2, <4>0, AppendOut, AppendOccurs
      <4>2. \A t : Intact(t)' => Intact(t) BY <1>0 DEF Intact, UnderWay
      <4>3. TriggerKnown'
        <5>1. Intact(timestamp)' => Intact(timestamp) BY <1>0 DEF Intact, UnderWay
        <5>2. QED BY <1>0, <4>1, <4>2, <5>1 DEF Undisturbed, Labelled, TriggerKnown, Trails
      <4>4. Fit' BY <1>0, <2>6, <4>1, <4>2 DEF Undisturbed, Labelled, Fit, IsLabelled
      <4>5. QED BY <4>3, <4>4 DEF Labelled
    <3>3. QED BY <2>7, <3>1, <3>2
  <2>13. QED BY <1>1, <2>9, <2>10, <2>11, <2>12 DEF Undisturbed
<1>4. QED BY <1>2, <1>3

(* The link breaks, and with it every burst under way.                     *)
LEMMA BreakUndisturbed ==
  ASSUME Undisturbed, Break
  PROVE  Undisturbed'
<1>1. closings' = closings /\ disturbed' = disturbed \cup UnderWay /\ timestamp' = timestamp
  BY DEF Break, deviceVars
<1>2. \A t : ~Intact(t)' BY <1>1 DEF Intact, UnderWay
<1>3. UndisturbedBurstWhole' BY <1>1, WholeKept
<1>4. QED BY <1>2, <1>3, NothingIntact DEF Undisturbed

(* The device task connects or finds the connection gone: nothing is intact*)
(* while the link is down.                                                 *)
LEMMA ConnectionUndisturbed ==
  ASSUME LinkInv, Undisturbed, ManagerConnects \/ ManagerLosesConnection
  PROVE  Undisturbed'
<1>1. ~link /\ UNCHANGED <<closings, disturbed, timestamp>>
  BY DEF ManagerConnects, Mgr!Connect, ManagerLosesConnection, LinkInv, deviceVars
<1>2. \A t : ~Intact(t)' BY <1>1 DEF Undisturbed, Reaching, Intact, UnderWay
<1>3. UndisturbedBurstWhole' BY <1>1, WholeKept
<1>4. QED BY <1>2, <1>3, NothingIntact DEF Undisturbed

(* The device task writes a command.                                       *)
LEMMA CommandUndisturbed ==
  ASSUME Types, Undisturbed, ManagerSendsCommand \/ ManagerPings
  PROVE  Undisturbed'
<1>0. /\ UNCHANGED <<out, events, link, current_trigger_burst, closings, timestamp, last, mode,
                     occurred, sending, packets_sent, packets_to_send>>
      /\ disturbed \subseteq disturbed'
  BY DEF ManagerSendsCommand, Mgr!HandleCommand, ManagerPings, Mgr!KeepAlive, deviceVars, procVars
<1>1. UndisturbedBurstWhole' BY <1>0, WholeKept
<1>2. CASE ManagerSendsCommand /\ Head(command_rx) \in {"SetModeContinuous", "SetModeTrigger"}
  <2>1. disturbed' = disturbed \cup UnderWay BY <1>2 DEF ManagerSendsCommand
  <2>2. \A t : ~Intact(t)' BY <1>0, <2>1 DEF Intact, UnderWay
  <2>3. QED BY <1>1, <2>2, NothingIntact DEF Undisturbed
<1>3. CASE ManagerSendsCommand /\ Head(command_rx) \notin {"SetModeContinuous", "SetModeTrigger"}
  <2> DEFINE c == Head(command_rx)
             f == Mgr!CommandFrame(c, Channels)
  <2>1. c \in Mgr!DeviceCommands BY <1>3 DEF ManagerSendsCommand, Mgr!HandleCommand, Types, QueueTypes
  <2>2. /\ trigger_active \in BOOLEAN /\ (trigger_active' <=> trigger_active) /\ trigger_active' \in BOOLEAN
        /\ current_trigger' = current_trigger
        /\ down' = down \/ down' = Append(down, f)
    BY <1>3 DEF ManagerSendsCommand, Mgr!HandleCommand, Mgr!Write, Types, ManagerTypes
  <2>3. f \in CommandFrames BY <2>1, CommandFrameType
  <2>4. ~IsModeFrame(f) BY <1>3, <2>1 DEF Mgr!CommandFrame, Mgr!DeviceCommands, IsModeFrame
  <2> HIDE DEF f, c
  <2>5. ModeCommandOnLink' => ModeCommandOnLink BY <2>2, <2>3, <2>4, CommandAppended
  <2>6. Pipe' = Pipe BY <1>0 DEF Pipe, Received
  <2>7. InOrder' BY <1>0, <2>6, SamePipe, OrderUnmoved DEF Undisturbed
  <2>8. Reaching' BY <1>0, <2>2, <2>5, ReachingUnmoved DEF Undisturbed
  <2>9. Sending' BY <1>0, SendingUnmoved DEF Undisturbed
  <2>10. Labelled' BY <1>0, <2>2, LabelledUnmoved DEF Undisturbed
  <2>11. QED BY <1>1, <2>7, <2>8, <2>9, <2>10 DEF Undisturbed
<1>4. CASE ManagerPings
  <2> DEFINE f == [name |-> "PING"]
  <2>1. /\ trigger_active' = trigger_active /\ current_trigger' = current_trigger
        /\ down' = Append(down, f)
    BY <1>4 DEF ManagerPings, Mgr!KeepAlive
  <2>2. f \in CommandFrames /\ ~IsModeFrame(f) BY PingType DEF IsModeFrame
  <2> HIDE DEF f
  <2>5. ModeCommandOnLink' => ModeCommandOnLink BY <2>1, <2>2, CommandAppended
  <2>6. Pipe' = Pipe BY <1>0 DEF Pipe, Received
  <2>7. InOrder' BY <1>0, <2>6, SamePipe, OrderUnmoved DEF Undisturbed
  <2>8. Reaching' BY <1>0, <2>1, <2>5, ReachingUnmoved DEF Undisturbed
  <2>9. Sending' BY <1>0, SendingUnmoved DEF Undisturbed
  <2>10. Labelled' BY <1>0, <2>1, LabelledUnmoved DEF Undisturbed
  <2>11. QED BY <1>1, <2>7, <2>8, <2>9, <2>10 DEF Undisturbed
<1>5. QED BY <1>2, <1>3, <1>4

(* The users, and steps in which nothing happens.                          *)
LEMMA OthersUndisturbed ==
  ASSUME Undisturbed, UserPosts \/ UserDeletes \/ UNCHANGED vars
  PROVE  Undisturbed'
<1>0. /\ UNCHANGED <<out, events, down, link, current_trigger_burst, closings, timestamp, last, mode,
                     occurred, sending, packets_sent, packets_to_send, trigger_active,
                     current_trigger, disturbed>>
  BY DEF UserPosts, UserDeletes, Proc!RemoveTriggerBurst, vars, managerVars, deviceVars, procVars
<1>1. UndisturbedBurstWhole' BY <1>0, WholeKept
<1>2. ModeCommandOnLink' => ModeCommandOnLink BY <1>0 DEF ModeCommandOnLink
<1>3. Pipe' = Pipe BY <1>0 DEF Pipe, Received
<1>4. InOrder' BY <1>0, <1>3, SamePipe, OrderUnmoved DEF Undisturbed
<1>5. Reaching' BY <1>0, <1>2, ReachingUnmoved DEF Undisturbed
<1>6. Sending' BY <1>0, SendingUnmoved DEF Undisturbed
<1>7. Labelled' BY <1>0, LabelledUnmoved DEF Undisturbed
<1>8. QED BY <1>1, <1>4, <1>5, <1>6, <1>7 DEF Undisturbed

-----------------------------------------------------------------------------
(* What is under way belongs to a burst that has begun.                    *)

LEMMA PastSent ==
  ASSUME Types, Past, DeviceReads \/ DeviceProduces
  PROVE  Past'
<1>0. out \in Seq(PipeEntry) /\ out \in Seq(Dev!Frame) /\ timestamp \in Nat
  BY PipeType, FramesAreFrames DEF Types, DeviceTypes, QueueTypes
<1>1. events' = events
  <2>1. CASE DeviceReads BY <2>1 DEF DeviceReads
  <2>2. CASE DeviceProduces BY <2>2, ProducesElsewhere DEF Elsewhere
  <2>3. QED BY <2>1, <2>2
<1>2. ASSUME timestamp' = timestamp,
             \A f : Occurs(out', f) => Occurs(out, f) \/ f \notin Items \/ f.of <= timestamp
      PROVE  Past'
  <2>1. \A f : Occurs(out', f) /\ f \in Items => f.of <= timestamp BY <1>2 DEF Past
  <2>2. QED BY <1>1, <1>2, <2>1 DEF Past
<1>3. CASE DeviceReads
  <2>1. PICK f \in Dev!Frame : f.cmd \in Dev!Replies /\ out' \in {out, Append(out, f)}
    BY <1>3, ReplySent
  <2>2. timestamp' = timestamp BY <1>3, ReplySent
  <2>3. f \notin Items BY <2>1 DEF Items, Dev!Replies
  <2>4. \A x : Occurs(out', x) => Occurs(out, x) \/ x = f
    <3>1. CASE out' = out BY <3>1
    <3>2. CASE out' = Append(out, f) BY <1>0, <3>2, AppendOccurs
    <3>3. QED BY <2>1, <3>1, <3>2
  <2>5. QED BY <1>2, <2>2, <2>3, <2>4
<1>4. CASE DeviceProduces /\ DeviceFires
  <2>1. PICK e, d : BurstBegins(e, d) BY <1>4, FiresBegins
  <2>2. /\ timestamp' = timestamp + 1 /\ e \in Items /\ d \in Items
        /\ e.of = timestamp + 1 /\ d.of = timestamp + 1
        /\ out' \in {out, Append(out, e), Append(out, d), Append(Append(out, e), d)}
    BY <2>1 DEF BurstBegins
  <2>3. \A x : Occurs(out', x) => Occurs(out, x) \/ x \in {e, d} BY <1>0, <2>2, SomeSent
  <2>4. ASSUME NEW x, Occurs(out', x), x \in Items PROVE x.of <= timestamp + 1
    <3>1. CASE Occurs(out, x)
      <4>1. x.of <= timestamp BY <2>4, <3>1 DEF Past
      <4>2. x \in Dev!Frame BY <1>0, <3>1, OccursInSet
      <4>3. x.of \in Nat
        BY <2>4, <4>2, FrameKinds DEF Items, DataFrames, CompleteFrames, Stamps
      <4>4. QED BY <1>0, <4>1, <4>3
    <3>2. CASE x \in {e, d} BY <1>0, <2>2, <3>2
    <3>3. QED BY <2>3, <2>4, <3>1, <3>2
  <2>5. ASSUME NEW x, Occurs(events, x), ItemOf(x) \in Items, x.kind # "Connected"
        PROVE  ItemOf(x).of <= timestamp + 1
    <3>1. x \in Event BY <2>5, OccursInSet DEF Types, QueueTypes
    <3>2. ItemOf(x).of <= timestamp BY <2>5 DEF Past
    <3>3. ItemOf(x).of \in Nat
      <4>1. CASE x.kind = "TriggerEvent" BY <3>1, <4>1, ItemType, EventKinds DEF Stamps
      <4>2. CASE x.kind = "DataPacket" BY <3>1, <4>2, ItemType, EventKinds DEF DataFrames, Stamps
      <4>3. CASE x.kind = "BufferTransferComplete"
        BY <3>1, <4>3, ItemType, EventKinds DEF CompleteFrames, Stamps
      <4>4. CASE x.kind \in {"Disconnected", "StatusUpdate"}
        BY <2>5, <3>1, <4>4, ItemType DEF Items
      <4>5. QED BY <2>5, <3>1, <4>1, <4>2, <4>3, <4>4, EventKinds
    <3>4. QED BY <1>0, <3>2, <3>3
  <2>6. QED BY <1>1, <2>2, <2>4, <2>5 DEF Past
<1>5. CASE DeviceProduces /\ (DeviceSendsPacket \/ DeviceCompletes)
  <2>1. PICK f : BurstGoesOn(f) BY <1>5, SendsGoesOn
  <2>2. /\ timestamp' = timestamp /\ f \in Dev!Frame /\ f.of <= timestamp
        /\ out' = out \/ out' = Append(out, f)
    BY <1>0, <2>1 DEF BurstGoesOn
  <2>3. \A x : Occurs(out', x) => Occurs(out, x) \/ x = f
    <3>1. CASE out' = out BY <3>1
    <3>2. CASE out' = Append(out, f)
      <4>1. f \in PipeEntry BY <2>2 DEF PipeEntry
      <4>2. QED BY <1>0, <3>2, <4>1, AppendOccurs
    <3>3. QED BY <2>2, <3>1, <3>2
  <2>4. QED BY <1>2, <2>2, <2>3
<1>6. CASE DeviceProduces /\ DeviceStreams
  <2> DEFINE f == Dev!DataFrame(0, 0)
  <2>1. /\ timestamp' = timestamp /\ f.of = 0
        /\ out' = out \/ out' = Append(out, f)
    BY <1>6 DEF DeviceStreams, Dev!StreamPacket, Dev!SendStreamPacket, Dev!trigger, Dev!Emit, Dev!DataFrame
  <2>2. f \in PipeEntry
    <3>1. f \in Dev!StreamFrame BY FramesAreFrames DEF Types, DeviceTypes
    <3>2. QED BY <3>1 DEF PipeEntry, Dev!Frame
  <2> HIDE DEF f
  <2>3. \A x : Occurs(out', x) => Occurs(out, x) \/ x = f
    <3>1. CASE out' = out BY <3>1
    <3>2. CASE out' = Append(out, f) BY <1>0, <2>2, <3>2, AppendOccurs
    <3>3. QED BY <2>1, <3>1, <3>2
  <2>4. f.of <= timestamp BY <1>0, <2>1
  <2>5. QED BY <1>2, <2>1, <2>3, <2>4
<1>7. QED BY <1>3, <1>4, <1>5, <1>6 DEF DeviceProduces

LEMMA PastRead ==
  ASSUME Types, Past, ManagerReads
  PROVE  Past'
<1> DEFINE f == Head(out)
<1>0. /\ out \in Seq(Dev!Frame) /\ events \in Seq(Event) /\ out # <<>> /\ out' = Tail(out)
      /\ timestamp' = timestamp /\ f \in Dev!Frame /\ Mgr!HandleFrame(f)
  BY DEF Types, QueueTypes, ManagerReads, deviceVars
<1>1. Occurs(out, f) /\ \A x : Occurs(out', x) => Occurs(out, x) BY <1>0, TailOccurs
<1>2. f \in Items => f.of <= timestamp BY <1>1 DEF Past
<1>3. ASSUME NEW e \in Event, events' = Append(events, e),
             ItemOf(e) = f \/ ItemOf(e) \notin Items \/ e.kind = "Connected"
      PROVE  Past'
  <2>1. \A x : Occurs(events', x) => Occurs(events, x) \/ x = e BY <1>0, <1>3, AppendOccurs
  <2>2. QED BY <1>0, <1>1, <1>2, <1>3, <2>1 DEF Past
<1>4. CASE events' = events BY <1>0, <1>1, <1>4 DEF Past
<1>5. CASE \E e \in Event : Carries(e, f) BY <1>3, <1>5 DEF Carries
<1>6. CASE \E e \in Event : events' = Append(events, e) /\ e.kind = "StatusUpdate"
  <2>1. \A e \in Event : e.kind = "StatusUpdate" => ItemOf(e).cmd = "NONE" BY ItemType
  <2>2. \A e \in Event : e.kind = "StatusUpdate" => ItemOf(e) \notin Items BY <2>1 DEF Items
  <2>3. QED BY <1>3, <1>6, <2>2
<1>7. QED BY <1>4, <1>5, <1>6, FrameReported

LEMMA PastStep ==
  ASSUME Types, Past, [Next]_vars
  PROVE  Past'
<1>1. CASE DeviceReads \/ DeviceProduces BY <1>1, PastSent
<1>2. CASE ManagerReads BY <1>2, PastRead
<1>3. CASE Break
  <2>1. PICK n \in 0..Len(out) : out' = SubSeq(out, 1, n) BY <1>3 DEF Break
  <2>2. events' = events /\ timestamp' = timestamp /\ out \in Seq(Dev!Frame)
    BY <1>3 DEF Break, deviceVars, Types, QueueTypes
  <2>3. \A x : Occurs(out', x) => Occurs(out, x)
    <3>1. /\ Len(out) \in Nat /\ Len(out') \in Nat /\ Len(out') <= Len(out)
          /\ \A i \in 1..Len(out') : out'[i] = out[i]
      BY <2>1, <2>2
    <3>2. QED BY <3>1 DEF Occurs
  <2>4. QED BY <2>2, <2>3 DEF Past
<1>4. CASE ManagerConnects \/ ManagerLosesConnection
  <2>1. \E e \in Event : events' = Append(events, e) /\ e.kind \in {"Connected", "Disconnected"}
    BY <1>4 DEF ManagerConnects, ManagerLosesConnection, Mgr!Connect, Mgr!ReadError, Mgr!Report,
                Event, StatusReports
  <2>2. PICK e \in Event : events' = Append(events, e) /\ e.kind \in {"Connected", "Disconnected"}
    BY <2>1
  <2>3. e.kind = "Connected" \/ ItemOf(e) \notin Items
    <3>1. e.kind = "Disconnected" => ItemOf(e).cmd = "NONE" BY ItemType
    <3>2. QED BY <2>2, <3>1 DEF Items
  <2>4. \A x : Occurs(events', x) => Occurs(events, x) \/ x = e
    BY <2>2, AppendOccurs DEF Types, QueueTypes
  <2>5. out' = out /\ timestamp' = timestamp
    BY <1>4 DEF ManagerConnects, ManagerLosesConnection, deviceVars
  <2>6. QED BY <2>3, <2>4, <2>5 DEF Past
<1>5. CASE EventLoop
  <2>1. events \in Seq(Event) /\ events # <<>> /\ events' = Tail(events) /\ UNCHANGED <<out, timestamp>>
    BY <1>5 DEF EventLoop, Types, QueueTypes, deviceVars
  <2>2. \A x : Occurs(events', x) => Occurs(events, x) BY <2>1, TailOccurs
  <2>3. QED BY <2>1, <2>2 DEF Past
<1>6. CASE ManagerSendsCommand \/ ManagerPings \/ UserPosts \/ UserDeletes \/ UNCHANGED vars
  <2>1. UNCHANGED <<events, out, timestamp>>
    BY <1>6 DEF ManagerSendsCommand, Mgr!HandleCommand, ManagerPings, Mgr!KeepAlive, UserPosts,
                UserDeletes, Proc!RemoveTriggerBurst, vars, managerVars, deviceVars
  <2>2. QED BY <2>1 DEF Past
<1>7. QED BY <1>1, <1>2, <1>3, <1>4, <1>5, <1>6 DEF Next, Manager

(* The device task reads a frame: it labels the packets of an intact burst *)
(* with its trigger, which it has read before them.                        *)
LEMMA FrameReadUndisturbed ==
  ASSUME Types, Undisturbed, ManagerReads
  PROVE  Undisturbed'
<1>0. /\ UNCHANGED <<link, down, trigger_active, current_trigger_burst, closings, timestamp, last,
                     mode, occurred, sending, packets_sent, packets_to_send, disturbed>>
      /\ \A t : Intact(t)' <=> Intact(t)
  <2>1. /\ UNCHANGED <<link, down, trigger_active, current_trigger_burst, closings, timestamp, last,
                       mode, occurred, sending, packets_sent, packets_to_send, disturbed>>
    BY DEF ManagerReads, Mgr!HandleFrame, deviceVars, procVars
  <2>2. QED BY <2>1 DEF Intact, UnderWay
<1>1. PipeKeeps(Items) BY ReadKeeps DEF Items, Dev!Replies
<1>2. ModeCommandOnLink' => ModeCommandOnLink BY <1>0 DEF ModeCommandOnLink
<1>3. InOrder' BY <1>0, <1>1, OrderUnmoved DEF Undisturbed
<1>4. Reaching' BY <1>0, <1>2, ReachingUnmoved DEF Undisturbed
<1>5. Sending' BY <1>0, SendingUnmoved DEF Undisturbed
<1>6. UndisturbedBurstWhole' BY <1>0, WholeKept
<1> DEFINE f == Head(out)
<1>7. /\ f \in Dev!Frame /\ out # <<>> /\ out' = Tail(out)
      /\ \/ \E e \in Event : Carries(e, f)
         \/ /\ f.cmd \in Dev!Replies /\ current_trigger' = current_trigger
            /\ \/ events' = events
               \/ \E e \in Event : events' = Append(events, e) /\ e.kind = "StatusUpdate"
  BY FrameReported
<1>8. /\ out \in Seq(PipeEntry) /\ events \in Seq(Event)
      /\ \A x : Occurs(out', x) => Occurs(out, x)
      /\ Occurs(out, f)
  BY <1>7, PipeType, TailOccurs DEF Types, QueueTypes
<1>9. CASE f.cmd \in Dev!Replies
  <2>1. f \notin Items /\ ~\E e \in Event : Carries(e, f)
    BY <1>9 DEF Items, Dev!Replies, Carries
  <2>2. /\ \A x : FirstIn(out', Items, x) => FirstIn(out, Items, x)
        /\ NoneIn(out', Items) => NoneIn(out, Items)
    BY <1>7, <1>8, <2>1, TailOut
  <2>3. TriggerKnown'
    BY <1>0, <1>7, <2>1, <2>2 DEF Undisturbed, Labelled, TriggerKnown, Trails
  <2>4. \A x : Occurs(events', x) => Occurs(events, x) \/ x.kind = "StatusUpdate"
    <3>1. CASE events' = events BY <3>1
    <3>2. ASSUME NEW e \in Event, events' = Append(events, e), e.kind = "StatusUpdate"
          PROVE  \A x : Occurs(events', x) => Occurs(events, x) \/ x.kind = "StatusUpdate"
      BY <1>8, <3>2, AppendOccurs
    <3>3. QED BY <1>7, <2>1, <3>1, <3>2
  <2>5. Fit' BY <1>0, <1>8, <2>4 DEF Undisturbed, Labelled, Fit, IsLabelled
  <2>6. Labelled' BY <2>3, <2>5 DEF Labelled
  <2>7. QED BY <1>3, <1>4, <1>5, <1>6, <2>6 DEF Undisturbed
<1>10. ASSUME NEW e \in Event, Carries(e, f)
       PROVE  Labelled'
  <2>1. f \in Items BY <1>7, <1>10 DEF Carries, Items, PipeEntry
  <2>2. /\ FirstIn(out, Items, f)
        /\ \A y : FirstIn(out', Items, y) => NextIn(out, Items, f, y)
        /\ NoneIn(out', Items) => LastIn(out, Items, f)
    BY <1>7, <1>8, <2>1, TailIn
  <2>3. /\ \A x, y : NextIn(out, Items, x, y) => NextIn(Pipe, Items, x, y)
        /\ \A x : LastIn(out, Items, x) => LastIn(Pipe, Items, x)
    BY PipeType, ConcatOrder DEF Pipe
  <2>4. current_trigger' = IF IsEvent(f) THEN f.of ELSE current_trigger BY <1>10 DEF Carries
  <2>5. Trails(f) => current_trigger = f.of BY <2>2 DEF Undisturbed, Labelled, TriggerKnown
  <2> HIDE DEF f
  <2>6. TriggerKnown'
    <3>1. ASSUME NEW y, FirstIn(out', Items, y), Trails(y)' PROVE current_trigger' = y.of
      <4>1. Trails(y) /\ NextIn(Pipe, Items, f, y) BY <1>0, <2>2, <2>3, <3>1 DEF Trails
      <4>2. Follows(f, y) BY <4>1 DEF Undisturbed, InOrder, ItemsFollow
      <4>3. ~IsEvent(f) => Trails(f) BY <4>1, <4>2 DEF Follows, Trails, IsEvent
      <4>4. QED BY <2>4, <2>5, <4>2, <4>3 DEF Follows
    <3>2. ASSUME NoneIn(out', Items), Intact(timestamp)' PROVE current_trigger' = timestamp
      <4>1. Intact(timestamp) BY <1>0, <3>2 DEF Intact, UnderWay
      <4>2. LastIn(Pipe, Items, f) BY <2>2, <2>3, <3>2
      <4>3. f = last BY <4>1, <4>2 DEF Undisturbed, InOrder, LastSent
      <4>4. f.of = timestamp BY <4>1, <4>3 DEF Undisturbed, Sending
      <4>5. ~IsEvent(f) => Trails(f) BY <1>10, <4>1, <4>4 DEF Carries, Trails, IsEvent
      <4>6. QED BY <2>4, <2>5, <4>4, <4>5
    <3>3. QED BY <1>0, <3>1, <3>2 DEF TriggerKnown
  <2>7. \A x : Occurs(events', x) => Occurs(events, x) \/ x = e
    BY <1>8, <1>10, AppendOccurs DEF Carries
  <2>8. ASSUME e.kind = "DataPacket", Intact(e.frame.of)
        PROVE  IsLabelled(e) /\ e.trigger_timestamp = e.frame.of /\ e.frame.mask # {}
    <3>1. e.frame = f /\ f.cmd = "DATA_PACKET" BY <1>10, <2>8, ItemType DEF Carries
    <3>2. Trails(f) BY <2>8, <3>1 DEF Trails
    <3>3. current_trigger = f.of BY <2>5, <3>2
    <3>4. f.of \in Nat BY <2>8, <3>1, EventKinds DEF DataFrames, Stamps
    <3>5. trigger_active BY <2>8 DEF Undisturbed, Reaching
    <3>6. IsLabelled(e) /\ e.trigger_timestamp = current_trigger
      BY <1>10, <3>1, <3>3, <3>4, <3>5, NoneIsNoNumber DEF Carries
    <3>7. f.mask # {} BY <1>8, <2>8, <3>1 DEF Undisturbed, Labelled, Fit, f
    <3>8. QED BY <3>1, <3>3, <3>6, <3>7
  <2>9. Fit' BY <1>0, <1>8, <2>7, <2>8 DEF Undisturbed, Labelled, Fit, IsLabelled
  <2>10. QED BY <2>6, <2>9 DEF Labelled
<1>11. CASE \E e \in Event : Carries(e, f)
  <2>1. Labelled' BY <1>10, <1>11
  <2>2. QED BY <1>3, <1>4, <1>5, <1>6, <2>1 DEF Undisturbed
<1>12. QED BY <1>7, <1>9, <1>11

-----------------------------------------------------------------------------
(* The event loop.                                                         *)

(* It takes the item p from the pipe: what has to be known of the burst it *)
(* leaves open for the rest of the pipe to stay in order.                  *)
LEMMA OrderAfterItem ==
  ASSUME Undisturbed, NEW p \in Items,
         closings \subseteq closings', UNCHANGED <<timestamp, last, disturbed>>,
         FirstIn(Pipe, Items, p),
         \A x, y : NextIn(Pipe', Items, x, y) => NextIn(Pipe, Items, x, y),
         \A y : FirstIn(Pipe', Items, y) => NextIn(Pipe, Items, p, y),
         \A x : LastIn(Pipe', Items, x) => LastIn(Pipe, Items, x),
         NoneIn(Pipe', Items) => LastIn(Pipe, Items, p),
         Leads(p)' => Collected(p.of, Position(p))',
         IsComplete(p) => ~Intact(p.of)',
         OpenIntact' => p.cmd # "CONNECTED" /\ current_trigger_burst'.trigger_timestamp = p.of
  PROVE  InOrder'
<1>0. /\ \A t : Intact(t)' => Intact(t)
      /\ \A f : (Leads(f)' => Leads(f)) /\ (Trails(f)' => Trails(f))
  BY IntactShrinks
<1>1. p.cmd \in {"CONNECTED", "EVENT_TRIGGERED", "DATA_PACKET", "BUFFER_TRANSFER_COMPLETE"}
  BY DEF Items
<1>2. OpenIntact' => Leads(p)'
  <2>1. ASSUME OpenIntact' PROVE Leads(p)'
    <3>1. Intact(p.of)' BY <2>1 DEF OpenIntact, Intact, UnderWay
    <3>2. ~IsComplete(p) /\ p.cmd # "CONNECTED" BY <2>1, <3>1
    <3>3. QED BY <1>1, <3>1, <3>2 DEF IsComplete, Leads
  <2>2. QED BY <2>1
<1>3. ItemsFollow'
  <2>1. ASSUME NEW x, NEW y, NextIn(Pipe', Items, x, y), Leads(x)' \/ Trails(y)' PROVE Follows(x, y)
    BY <1>0, <2>1 DEF Undisturbed, InOrder, ItemsFollow
  <2>2. QED BY <2>1 DEF ItemsFollow, Follows
<1>4. ItemsBegin'
  <2>1. ASSUME NEW y, FirstIn(Pipe', Items, y), OpenIntact' \/ Trails(y)' PROVE Expected(y)'
    <3>1. NextIn(Pipe, Items, p, y) BY <2>1
    <3>2. Follows(p, y) BY <1>0, <1>2, <2>1, <3>1 DEF Undisturbed, InOrder, ItemsFollow
    <3>3. Leads(p)' BY <1>2, <2>1, <3>2 DEF Follows, Trails, Leads
    <3>4. Collected(y.of, Due(y))' BY <3>2, <3>3 DEF Follows, Collected, Open
    <3>5. QED BY <3>2, <3>4 DEF Expected, Follows
  <2>2. QED BY <2>1 DEF ItemsBegin
<1>5. LastSent'
  <2>1. SUFFICES ASSUME Intact(timestamp)'
                 PROVE  /\ \A x : LastIn(Pipe', Items, x) => x = last
                        /\ NoneIn(Pipe', Items) => ~IsComplete(last) /\ Collected(timestamp, Position(last))'
    BY DEF LastSent, IsComplete, Position, IsEvent, Collected, Open
  <2>2. Intact(timestamp) BY <2>1 DEF Intact, UnderWay
  <2>3. \A x : LastIn(Pipe, Items, x) => x = last BY <2>2 DEF Undisturbed, InOrder, LastSent
  <2>4. ASSUME NoneIn(Pipe', Items)
        PROVE  ~IsComplete(last) /\ Collected(timestamp, Position(last))'
    <3>1. p = last BY <2>3, <2>4
    <3>2. p.of = timestamp /\ p.cmd # "CONNECTED" BY <2>2, <3>1 DEF Undisturbed, Sending
    <3>3. Intact(p.of)' BY <2>1, <3>2 DEF Intact, UnderWay
    <3>4. ~IsComplete(p) BY <3>3
    <3>5. Leads(p)' BY <1>1, <3>2, <3>3, <3>4 DEF Leads, IsComplete
    <3>6. QED BY <3>1, <3>2, <3>4, <3>5 DEF Collected, Position, IsEvent, Open
  <2>5. QED BY <2>3, <2>4
<1>6. OnlyLatest'
  <2>1. \A x : LastIn(Pipe', Items, x) /\ Leads(x)' => x.of = timestamp
    BY <1>0 DEF Undisturbed, InOrder, OnlyLatest
  <2>2. NoneIn(Pipe', Items) /\ OpenIntact' => current_trigger_burst'.trigger_timestamp = timestamp
    BY <1>0, <1>2 DEF Undisturbed, InOrder, OnlyLatest
  <2>3. QED BY <2>1, <2>2 DEF OnlyLatest
<1>7. QED BY <1>3, <1>4, <1>5, <1>6 DEF InOrder

(* A packet of an intact burst is stored as the next of its burst.         *)
LEMMA PacketCollected ==
  ASSUME Types, Undisturbed, NEW h \in Event, Occurs(events, h), OnDataPacket, h = Head(events),
         NEW p, p = h.frame, Trails(p), Expected(p)
  PROVE  Collected(p.of, Position(p))'
<1>0. h.kind = "DataPacket" /\ Proc!ProcessPacket(Packet(h)) BY DEF OnDataPacket, NextEvent
<1>1. p.cmd = "DATA_PACKET" /\ p.n \in Nat /\ p.of \in Nat
  BY <1>0, EventKinds DEF DataFrames, Stamps
<1>2. IsLabelled(h) /\ h.trigger_timestamp = p.of /\ p.mask # {}
  BY <1>0 DEF Trails, Undisturbed, Labelled, Fit
<1>3. Packet(h).valid /\ Packet(h).source = "Trigger" BY <1>0, <1>2, PacketType DEF IsLabelled
<1>4. Proc!ProcessTrigger(Packet(h))
  BY <1>0, <1>3 DEF Proc!ProcessPacket, Proc!ProcessRefused, Proc!ProcessContinuous
<1> DEFINE q == current_trigger_burst.data_packets
<1>5. /\ Open /\ current_trigger_burst.trigger_timestamp = p.of
      /\ Len(q) = p.n - 1
      /\ \A i \in 1..(p.n - 1) : q[i].tag = [of |-> p.of, n |-> i]
  BY <1>1 DEF Expected, Collected, Due, IsComplete
<1>6. PICK s \in Proc!StoredPacket :
        /\ s.tag = [of |-> p.of, n |-> p.n]
        /\ q \in Seq(Proc!StoredPacket)
        /\ current_trigger_burst'.data_packets = Append(q, s)
  BY <1>0, <1>4, <1>5, PacketStored
<1>7. Open' /\ current_trigger_burst'.trigger_timestamp = p.of
  BY <1>0, <1>5, ProcessKeepsOpen
<1> HIDE DEF q
<1>8. /\ Len(q) \in Nat /\ Len(Append(q, s)) = Len(q) + 1
      /\ \A i \in 1..Len(q) : Append(q, s)[i] = q[i]
      /\ Append(q, s)[Len(q) + 1] = s
  BY <1>6, AppendEntries
<1>9. Len(Append(q, s)) = p.n BY <1>1, <1>5, <1>8
<1>10. ASSUME NEW i \in 1..p.n PROVE Append(q, s)[i].tag = [of |-> p.of, n |-> i]
  <2>1. CASE i = p.n BY <1>1, <1>5, <1>6, <1>8, <2>1
  <2>2. CASE i # p.n
    <3>1. i \in 1..(p.n - 1) /\ i \in 1..Len(q) BY <1>1, <1>5, <2>2
    <3>2. QED BY <1>5, <1>8, <3>1
  <2>3. QED BY <2>1, <2>2
<1>11. Position(p) = p.n BY <1>1 DEF Position, IsEvent
<1>12. QED BY <1>6, <1>7, <1>9, <1>10, <1>11 DEF Collected

(* An open burst that nothing has disturbed is under way.                  *)
LEMMA OpenIsIntact ==
  ASSUME Types, Ordered, Open, current_trigger_burst.trigger_timestamp \notin disturbed
  PROVE  OpenIntact
<1> DEFINE t == current_trigger_burst.trigger_timestamp
<1>1. t \in Stamps /\ timestamp \in Nat
  BY FramesAreFrames DEF Types, ProcessorTypes, DeviceTypes, Open
<1>2. t <= timestamp BY <1>1 DEF Ordered, KnownPast, Known, ProcStamps
<1>3. \A c \in closings : c.burst # t
  <2>1. \A c \in closings : c.burst \in Stamps BY DEF Types, HistoryTypes, ClosingRecords
  <2>2. QED BY <1>1, <2>1 DEF Ordered, OpenLatest, Stamps
<1>4. t \in UnderWay BY <1>1, <1>2, <1>3 DEF UnderWay, Stamps
<1>5. QED BY <1>4 DEF OpenIntact, Intact

(* A signal that closes an intact burst closes a whole one.                *)
LEMMA ClosesWhole ==
  ASSUME Types, Ordered, Undisturbed, NEW p, FirstIn(Pipe, Items, p), IsComplete(p), Open,
         current_trigger_burst.trigger_timestamp \notin disturbed
  PROVE  Whole(Closing(current_trigger_burst, p))
<1>1. OpenIntact BY OpenIsIntact
<1>2. Expected(p) BY <1>1 DEF Undisturbed, InOrder, ItemsBegin
<1>3. Collected(p.of, p.n) BY <1>2 DEF Expected, Due
<1>4. QED BY <1>3 DEF Collected, Whole, Closing

LEMMA HandledUndisturbed ==
  ASSUME Types, Ordered, Undisturbed, EventLoop
  PROVE  Undisturbed'
<1> DEFINE h == Head(events)
<1>p. PICK p : p = Head(Pipe)
  OBVIOUS
<1>0. /\ h \in Event /\ events \in Seq(Event) /\ events # <<>> /\ events' = Tail(events)
      /\ UNCHANGED <<out, link, timestamp, sending, last, mode, occurred, packets_sent,
                     packets_to_send, trigger_active, current_trigger, down, disturbed>>
      /\ Pipe # <<>> /\ Pipe \in Seq(PipeEntry)
      /\ p = ItemOf(h) /\ Pipe' = Tail(Pipe) /\ p \in PipeEntry
      /\ Occurs(events, h)
      /\ closings \subseteq closings'
  <2>1. /\ h \in Event /\ events \in Seq(Event) /\ events # <<>> /\ events' = Tail(events)
        /\ UNCHANGED <<out, link, timestamp, sending, last, mode, occurred, packets_sent,
                       packets_to_send, trigger_active, current_trigger, down, disturbed>>
    BY DEF EventLoop, Types, QueueTypes, deviceVars
  <2>2. Pipe # <<>> /\ p = ItemOf(h) /\ Pipe' = Tail(Pipe) BY <1>p, <2>1, PipeTaken
  <2>3. closings \subseteq closings'
    BY DEF EventLoop, OnConnected, OnDisconnected, OnTriggerEvent, OnDataPacket, OnTransferComplete,
           OnTransferCompleteUnexpected, OnStatusUpdate
  <2>4. Occurs(events, h) BY <2>1, TailOccurs
  <2>5. QED BY <1>p, <2>1, <2>2, <2>3, <2>4, PipeType, ItemType
<1>1. /\ \A t : Intact(t)' => Intact(t)
      /\ \A f : (Leads(f)' => Leads(f)) /\ (Trails(f)' => Trails(f))
  BY <1>0, IntactShrinks
<1>2. Labelled'
  <2>1. Intact(timestamp)' => Intact(timestamp) BY <1>0 DEF Intact, UnderWay
  <2>2. TriggerKnown' BY <1>0, <1>1, <2>1 DEF Undisturbed, Labelled, TriggerKnown
  <2>3. \A x : Occurs(events', x) => Occurs(events, x) BY <1>0, TailOccurs
  <2>4. Fit' BY <1>0, <1>1, <2>3 DEF Undisturbed, Labelled, Fit, IsLabelled
  <2>5. QED BY <2>2, <2>4 DEF Labelled
<1>3. Reaching' BY <1>0, <1>1 DEF Undisturbed, Reaching, ModeCommandOnLink
<1>4. Sending'
  <2>1. Intact(timestamp)' => Intact(timestamp) BY <1>0 DEF Intact, UnderWay
  <2>2. QED BY <1>0, <2>1 DEF Undisturbed, Sending, Position, IsComplete, IsEvent
<1>5. CASE p \notin Items
  <2>1. PipeKeeps(Items) BY <1>p, <1>0, <1>5, TailOut DEF PipeKeeps
  <2>2. h.kind \notin {"Connected", "TriggerEvent", "DataPacket", "BufferTransferComplete"}
    <3>1. h.kind = "Connected" => p.cmd = "CONNECTED" BY <1>0, ItemType
    <3>2. h.kind = "TriggerEvent" => p.cmd = "EVENT_TRIGGERED" BY <1>0, ItemType
    <3>3. h.kind = "DataPacket" => p.cmd = "DATA_PACKET" BY <1>0, ItemType, EventKinds DEF DataFrames
    <3>4. h.kind = "BufferTransferComplete" => p.cmd = "BUFFER_TRANSFER_COMPLETE"
      BY <1>0, ItemType, EventKinds DEF CompleteFrames
    <3>5. QED BY <1>0, <1>5, <3>1, <3>2, <3>3, <3>4 DEF Items
  <2>3. UNCHANGED <<current_trigger_burst, closings>>
    BY <2>2 DEF EventLoop, OnConnected, OnDisconnected, OnTriggerEvent, OnDataPacket,
                OnTransferComplete, OnTransferCompleteUnexpected, OnStatusUpdate, NextEvent, procVars
  <2>4. InOrder' BY <1>0, <2>1, <2>3, OrderUnmoved DEF Undisturbed
  <2>5. UndisturbedBurstWhole' BY <1>0, <2>3, WholeKept
  <2>6. QED BY <1>2, <1>3, <1>4, <2>4, <2>5 DEF Undisturbed
<1>6. CASE p \in Items
  <2>1. /\ FirstIn(Pipe, Items, p)
        /\ \A x, y : NextIn(Pipe', Items, x, y) => NextIn(Pipe, Items, x, y)
        /\ \A y : FirstIn(Pipe', Items, y) => NextIn(Pipe, Items, p, y)
        /\ \A x : LastIn(Pipe', Items, x) => LastIn(Pipe, Items, x)
        /\ NoneIn(Pipe', Items) => LastIn(Pipe, Items, p)
    BY <1>p, <1>0, <1>6, TailIn
  <2>2. /\ Trails(p) => Expected(p)
        /\ OpenIntact => Expected(p)
    BY <2>1 DEF Undisturbed, InOrder, ItemsBegin
  <2>3. ASSUME Leads(p)' => Collected(p.of, Position(p))',
               IsComplete(p) => ~Intact(p.of)',
               OpenIntact' => p.cmd # "CONNECTED" /\ current_trigger_burst'.trigger_timestamp = p.of
        PROVE  InOrder'
    BY <1>0, <1>6, <2>1, <2>3, OrderAfterItem
  <2>4. h.kind \in {"Connected", "TriggerEvent", "DataPacket", "BufferTransferComplete"}
    <3>1. h.kind \in {"Disconnected", "StatusUpdate"} => p.cmd = "NONE" BY <1>0, ItemType
    <3>2. QED BY <1>0, <1>6, <3>1, EventKinds DEF Items
  <2>5. CASE OnConnected
    <3>1. p.cmd = "CONNECTED" BY <1>0, <2>5, ItemType DEF OnConnected, NextEvent
    <3>2. ~Open' /\ closings' = closings BY <2>5 DEF OnConnected, Proc!ResetTriggerState, Open
    <3>3. ~Leads(p)' /\ ~IsComplete(p) /\ ~OpenIntact'
      BY <3>1, <3>2 DEF Leads, IsComplete, OpenIntact
    <3>4. InOrder' BY <2>3, <3>3
    <3>5. UndisturbedBurstWhole' BY <1>0, <3>2, WholeKept
    <3>6. QED BY <1>2, <1>3, <1>4, <3>4, <3>5 DEF Undisturbed
  <2>6. CASE OnTriggerEvent
    <3> DEFINE ts == h.timestamp
               b == [burst_id |-> <<ts, ts>>, trigger_timestamp |-> ts, created_at |-> ts,
                     data_packets |-> <<>>, is_complete |-> FALSE]
    <3>1. /\ h.kind = "TriggerEvent" /\ current_trigger_burst' = b /\ closings' = closings
      BY <2>6 DEF OnTriggerEvent, NextEvent, Proc!StartTriggerBurst
    <3>2. p.cmd = "EVENT_TRIGGERED" /\ p.of = ts /\ ts \in Nat
      BY <1>0, <3>1, ItemType, EventKinds DEF Stamps
    <3>3. b \in Proc!Burst /\ b # None /\ b.trigger_timestamp = ts /\ b.data_packets = <<>>
      <4>1. <<>> \in Seq(Proc!StoredPacket) OBVIOUS
      <4>2. ts \in Int /\ <<ts, ts>> \in Proc!BurstIds BY <3>2 DEF Proc!BurstIds
      <4> HIDE DEF ts
      <4>3. b \in Proc!Burst BY <3>2, <4>1, <4>2 DEF Proc!Burst
      <4>4. QED BY <4>3, NoneIsNoBurst
    <3> HIDE DEF b, ts
    <3>4. Position(p) = 0 /\ ~IsComplete(p) BY <3>2 DEF Position, IsEvent, IsComplete
    <3>5. Collected(p.of, Position(p))' BY <3>1, <3>2, <3>3, <3>4 DEF Collected, Open
    <3>6. InOrder' BY <2>3, <3>1, <3>2, <3>3, <3>4, <3>5
    <3>7. UndisturbedBurstWhole' BY <1>0, <3>1, WholeKept
    <3>8. QED BY <1>2, <1>3, <1>4, <3>6, <3>7 DEF Undisturbed
  <2>7. CASE OnDataPacket
    <3>1. h.kind = "DataPacket" /\ Proc!ProcessPacket(Packet(h)) /\ closings' = closings
      BY <2>7 DEF OnDataPacket, NextEvent
    <3>2. p = h.frame /\ p.cmd = "DATA_PACKET" BY <1>0, <3>1, ItemType, EventKinds DEF DataFrames
    <3>3. Leads(p)' => Trails(p) BY <1>1, <3>2 DEF Leads, Trails
    <3>4. Leads(p)' => Collected(p.of, Position(p))'
      BY <1>0, <2>2, <2>7, <3>2, <3>3, PacketCollected
    <3>5. OpenIntact' => p.cmd # "CONNECTED" /\ current_trigger_burst'.trigger_timestamp = p.of
      <4>1. /\ Open' <=> Open
            /\ Open => current_trigger_burst'.trigger_timestamp = current_trigger_burst.trigger_timestamp
        BY <1>0, <3>1, ProcessKeepsOpen
      <4>2. OpenIntact' => OpenIntact BY <1>0, <3>1, <4>1 DEF OpenIntact, Intact, UnderWay
      <4>3. OpenIntact => Open /\ current_trigger_burst.trigger_timestamp = p.of
        BY <2>2 DEF Expected, Collected
      <4>4. QED BY <3>2, <4>1, <4>2, <4>3
    <3>6. ~IsComplete(p) BY <3>2 DEF IsComplete
    <3>7. InOrder' BY <2>3, <3>4, <3>5, <3>6
    <3>8. UndisturbedBurstWhole' BY <1>0, <3>1, WholeKept
    <3>9. QED BY <1>2, <1>3, <1>4, <3>7, <3>8 DEF Undisturbed
  <2>8. CASE OnTransferComplete
    <3> DEFINE c == Closing(current_trigger_burst, p)
    <3>1. p = h.frame /\ IsComplete(p) /\ ~Leads(p)'
      BY <1>0, <2>8, ItemType, EventKinds
      DEF OnTransferComplete, NextEvent, IsComplete, CompleteFrames, Leads
    <3>2. Open /\ ~Open' /\ closings' = closings \cup {c}
      BY <2>8, <3>1 DEF OnTransferComplete, Proc!CompleteTriggerBurst, Open
    <3>3. c.burst = current_trigger_burst.trigger_timestamp BY DEF Closing
    <3>4. c.burst \notin disturbed => Whole(c)
      BY <2>1, <3>1, <3>2, <3>3, ClosesWhole
    <3> HIDE DEF c
    <3>5. ~Intact(p.of)'
      <4>1. ASSUME Intact(p.of)' PROVE FALSE
        <5>1. Trails(p) BY <1>1, <3>1, <4>1 DEF Trails, IsComplete
        <5>2. c.burst = p.of BY <2>2, <3>3, <5>1 DEF Expected, Collected
        <5>3. c \in closings' BY <3>2
        <5>4. QED BY <4>1, <5>2, <5>3 DEF Intact, UnderWay
      <4>2. QED BY <4>1
    <3>6. InOrder' BY <2>3, <3>1, <3>2, <3>5 DEF OpenIntact
    <3>7. UndisturbedBurstWhole'
      BY <1>0, <3>2, <3>4 DEF Undisturbed, UndisturbedBurstWhole, Whole
    <3>8. QED BY <1>2, <1>3, <1>4, <3>6, <3>7 DEF Undisturbed
  <2>9. CASE OnTransferCompleteUnexpected
    <3>1. IsComplete(p) /\ ~Leads(p)'
      BY <1>0, <2>9, ItemType, EventKinds
      DEF OnTransferCompleteUnexpected, NextEvent, IsComplete, CompleteFrames, Leads
    <3>2. ~Open /\ ~Open' /\ closings' = closings
      BY <2>9 DEF OnTransferCompleteUnexpected, Proc!CompleteNothing, Proc!procVars, Open
    <3>3. ~Trails(p) BY <2>2, <3>2 DEF Expected, Collected
    <3>4. ~Intact(p.of)' BY <1>1, <3>1, <3>3 DEF Trails, IsComplete
    <3>5. InOrder' BY <2>3, <3>1, <3>2, <3>4 DEF OpenIntact
    <3>6. UndisturbedBurstWhole' BY <1>0, <3>2, WholeKept
    <3>7. QED BY <1>2, <1>3, <1>4, <3>5, <3>6 DEF Undisturbed
  <2>10. QED
    BY <2>4, <2>5, <2>6, <2>7, <2>8, <2>9 DEF EventLoop, OnDisconnected, OnStatusUpdate, NextEvent
<1>7. QED BY <1>5, <1>6

-----------------------------------------------------------------------------
LEMMA UndisturbedStep ==
  ASSUME Types, LinkInv, Ordered, Past, Undisturbed, [Next]_vars
  PROVE  Undisturbed'
BY ReadsUndisturbed, ProducesUndisturbed, BreakUndisturbed, ConnectionUndisturbed,
   CommandUndisturbed, FrameReadUndisturbed, HandledUndisturbed, OthersUndisturbed
DEF Next, Manager

LEMMA UndisturbedInit == Init => Past /\ Undisturbed
<1> SUFFICES ASSUME Init PROVE Past /\ Undisturbed
  OBVIOUS
<1>1. /\ events = <<>> /\ out = <<>> /\ closings = {} /\ timestamp = 0 /\ ~Open
  BY DEF Init, Mgr!ManagerInit, Proc!ProcInit, Dev!AppInit, Open
<1>2. Past BY <1>1, EmptyOrder DEF Past
<1>3. \A t : ~Intact(t) BY <1>1 DEF Intact, UnderWay
<1>4. \A f : ~Leads(f) /\ ~Trails(f) BY <1>3 DEF Leads, Trails
<1>5. InOrder
  BY <1>3, <1>4 DEF InOrder, ItemsFollow, ItemsBegin, LastSent, OnlyLatest, OpenIntact
<1>6. Labelled BY <1>3, <1>4 DEF Labelled, TriggerKnown, Fit
<1>7. Reaching /\ Sending BY <1>3 DEF Reaching, Sending
<1>8. UndisturbedBurstWhole BY <1>1 DEF UndisturbedBurstWhole
<1>9. QED BY <1>2, <1>5, <1>6, <1>7, <1>8 DEF Undisturbed

(* A burst that met no mode command, no broken link, no lost frame and no  *)
(* disabled channels on its way is complete when it is closed, packet by   *)
(* packet and in order, however far the gateway's tasks are behind the device *)
(* and one another, and although neither the packets nor the completion    *)
(* signal say which burst they belong to (app.c:311-345,                   *)
(* device_communication.rs:505-577, data_processing.rs:241-284).           *)
THEOREM UndisturbedBurstsAreWhole == Spec => []UndisturbedBurstWhole
<1>1. Undisturbed => UndisturbedBurstWhole BY DEF Undisturbed
<1>2. Types /\ LinkInv /\ Ordered /\ Past /\ Undisturbed /\ [Next]_vars => Past' /\ Undisturbed'
  BY PastStep, UndisturbedStep
<1>3. QED BY <1>1, <1>2, UndisturbedInit, TypesHold, LinkHolds, OrderHolds, PTL DEF Spec

-----------------------------------------------------------------------------
(* Where no frame is lost on a link that is up, a packet of a burst follows  *)
(* its own event, so it is filed under the burst it was sent in.           *)

IsPacket(f) == f.cmd = "DATA_PACKET"

Carriers == {f \in PipeEntry : \/ f.cmd \in {"CONNECTED", "EVENT_TRIGGERED"}
                               \/ IsPacket(f) /\ f.of # 0}

CarriersFollow ==
  \A x, y : NextIn(Pipe, Carriers, x, y) /\ IsPacket(y) => x.cmd = "CONNECTED" \/ x.of = y.of

CarriersBegin ==
  \A y : FirstIn(Pipe, Carriers, y) /\ IsPacket(y) /\ Open =>
    current_trigger_burst.trigger_timestamp = y.of

CarriersToCome ==
  link =>
    /\ \A x : LastIn(Pipe, Carriers, x) => x.cmd = "CONNECTED" \/ x.of = timestamp
    /\ NoneIn(Pipe, Carriers) /\ Open /\ sending => current_trigger_burst.trigger_timestamp = timestamp

OwnCarriers == CarriersFollow /\ CarriersBegin /\ CarriersToCome

(* A step that leaves the carriers of the pipe as they are, and at most closes *)
(* the open burst.                                                         *)
LEMMA CarriersKept ==
  ASSUME OwnCarriers, PipeKeeps(Carriers),
         Open' => Open /\ current_trigger_burst'.trigger_timestamp = current_trigger_burst.trigger_timestamp,
         link' => link /\ timestamp' = timestamp /\ (sending' => sending)
  PROVE  OwnCarriers'
<1>1. Carriers' = Carriers OBVIOUS
<1>2. CarriersFollow' BY <1>1 DEF OwnCarriers, CarriersFollow, PipeKeeps
<1>3. CarriersBegin' BY <1>1 DEF OwnCarriers, CarriersBegin, PipeKeeps
<1>4. CarriersToCome' BY <1>1 DEF OwnCarriers, CarriersToCome, PipeKeeps
<1>5. QED BY <1>2, <1>3, <1>4 DEF OwnCarriers

(* A burst begins on the link: its event and perhaps its first packet.     *)
LEMMA CarriersAppended ==
  ASSUME Types, NEW e \in Carriers, NEW d \in Carriers, d.of = e.of, IsEvent(e),
         Append(Pipe, e) \in Seq(PipeEntry),
         Pipe' \in {Append(Pipe, e), Append(Append(Pipe, e), d)}
  PROVE  /\ \A x, y : NextIn(Pipe', Carriers, x, y) =>
                        NextIn(Pipe, Carriers, x, y) \/ y = e \/ x.of = y.of
         /\ \A y : FirstIn(Pipe', Carriers, y) => FirstIn(Pipe, Carriers, y) \/ y = e
         /\ \A x : LastIn(Pipe', Carriers, x) => x.of = e.of
         /\ ~NoneIn(Pipe', Carriers)
<1>0. e \in PipeEntry /\ d \in PipeEntry BY DEF Carriers
<1> DEFINE p == Append(Pipe, e)
<1>1. /\ \A x, y : NextIn(p, Carriers, x, y) => NextIn(Pipe, Carriers, x, y) \/ y = e
      /\ \A y : FirstIn(p, Carriers, y) => FirstIn(Pipe, Carriers, y) \/ y = e
      /\ \A x : LastIn(p, Carriers, x) => x = e
      /\ ~NoneIn(p, Carriers)
  BY <1>0, PipeType, AppendIn
<1>2. p \in Seq(PipeEntry) /\ (Pipe' = p \/ Pipe' = Append(p, d)) OBVIOUS
<1> HIDE DEF p
<1>3. CASE Pipe' = p BY <1>1, <1>3
<1>4. CASE Pipe' = Append(p, d)
  <2>1. /\ \A x, y : NextIn(Append(p, d), Carriers, x, y) =>
                       NextIn(p, Carriers, x, y) \/ (LastIn(p, Carriers, x) /\ y = d)
        /\ \A y : FirstIn(Append(p, d), Carriers, y) =>
                    FirstIn(p, Carriers, y) \/ (NoneIn(p, Carriers) /\ y = d)
        /\ \A x : LastIn(Append(p, d), Carriers, x) => x = d
        /\ ~NoneIn(Append(p, d), Carriers)
    BY <1>0, <1>2, AppendIn
  <2>2. QED BY <1>1, <1>4, <2>1
<1>5. QED BY <1>2, <1>3, <1>4

LEMMA CarriersProduced ==
  ASSUME Types, OwnCarriers, DeviceProduces, ~Lossy
  PROVE  OwnCarriers'
<1>0. /\ Dev!AppTypeOK /\ timestamp \in Stamps \cup {0} /\ timestamp \in Nat
      /\ UNCHANGED <<link, events, current_trigger_burst, closings>>
      /\ \A t \in Stamps \cup {0}, n \in Nat : Dev!DataFrame(t, n) \in Dev!Frame
      /\ Dev!CompleteFrame(timestamp) \in Dev!Frame
  <2>1. Dev!AppTypeOK BY DEF Types, DeviceTypes
  <2>2. QED BY <2>1, ProducesElsewhere, FramesAreFrames DEF Elsewhere
<1>1. CASE DeviceFires
  <2>1. PICK e, d :
          /\ e \in PipeEntry /\ IsEvent(e) /\ e.of = timestamp'
          /\ d \in PipeEntry /\ d.cmd = "DATA_PACKET" /\ d.of = timestamp'
          /\ timestamp' \in Stamps
          /\ ~link => Pipe' = Pipe
          /\ link => Append(Pipe, e) \in Seq(PipeEntry)
                       /\ Pipe' \in {Append(Pipe, e), Append(Append(Pipe, e), d)}
    BY <1>0, <1>1, FiresInFull
  <2>2. e \in Carriers /\ ~IsPacket(e) /\ d \in Carriers
    BY <2>1 DEF IsEvent, IsPacket, Carriers, Stamps
  <2>3. CASE ~link
    BY <1>0, <2>1, <2>3, SamePipe, CarriersKept DEF Open
  <2>4. CASE link
    <3>1. /\ \A x, y : NextIn(Pipe', Carriers, x, y) =>
                         NextIn(Pipe, Carriers, x, y) \/ y = e \/ x.of = y.of
          /\ \A y : FirstIn(Pipe', Carriers, y) => FirstIn(Pipe, Carriers, y) \/ y = e
          /\ \A x : LastIn(Pipe', Carriers, x) => x.of = e.of
          /\ ~NoneIn(Pipe', Carriers)
      BY <2>1, <2>2, <2>4, CarriersAppended
    <3>2. CarriersFollow' BY <2>2, <3>1 DEF OwnCarriers, CarriersFollow
    <3>3. CarriersBegin' BY <1>0, <2>2, <3>1 DEF OwnCarriers, CarriersBegin, Open
    <3>4. CarriersToCome' BY <2>1, <3>1 DEF CarriersToCome
    <3>5. QED BY <3>2, <3>3, <3>4 DEF OwnCarriers
  <2>5. QED BY <2>3, <2>4
<1>2. CASE DeviceSendsPacket
  <2> DEFINE f == Dev!BurstFrame
  <2>1. f \in Dev!Frame /\ IsPacket(f) /\ f.of = timestamp
    BY <1>0 DEF Dev!BurstFrame, Dev!AppTypeOK, Dev!DataFrame, IsPacket
  <2>2. /\ sending /\ sending' = sending /\ timestamp' = timestamp
        /\ out' = IF link THEN Append(out, f) ELSE out
    BY <1>2 DEF DeviceSendsPacket, Dev!BurstPacket, Dev!SendBurstPacket, Dev!Emit
  <2> HIDE DEF f
  <2>3. CASE ~link
    <3>1. Pipe' = Pipe BY <1>0, <2>2, <2>3 DEF Pipe, Received
    <3>2. QED BY <1>0, <2>3, <3>1, SamePipe, CarriersKept DEF Open
  <2>4. CASE link /\ f \notin Carriers
    <3>1. PipeKeeps(Carriers) BY <1>0, <2>1, <2>2, <2>4, UnmarkedSent
    <3>2. QED BY <1>0, <2>2, <2>4, <3>1, CarriersKept DEF Open
  <2>5. CASE link /\ f \in Carriers
    <3>1. Pipe' = Append(Pipe, f) /\ f \in PipeEntry BY <1>0, <2>1, <2>2, <2>5, PipeSent
    <3>2. /\ \A x, y : NextIn(Pipe', Carriers, x, y) =>
                         NextIn(Pipe, Carriers, x, y) \/ (LastIn(Pipe, Carriers, x) /\ y = f)
          /\ \A y : FirstIn(Pipe', Carriers, y) =>
                      FirstIn(Pipe, Carriers, y) \/ (NoneIn(Pipe, Carriers) /\ y = f)
          /\ \A x : LastIn(Pipe', Carriers, x) => x = f
          /\ ~NoneIn(Pipe', Carriers)
      BY <2>5, <3>1, PipeType, AppendIn
    <3>3. CarriersFollow'
      BY <2>1, <2>5, <3>2 DEF OwnCarriers, CarriersFollow, CarriersToCome
    <3>4. CarriersBegin'
      BY <1>0, <2>1, <2>2, <2>5, <3>2 DEF OwnCarriers, CarriersBegin, CarriersToCome, Open
    <3>5. CarriersToCome' BY <2>1, <2>2, <3>2 DEF CarriersToCome
    <3>6. QED BY <3>3, <3>4, <3>5 DEF OwnCarriers
  <2>6. QED BY <2>3, <2>4, <2>5
<1>3. CASE DeviceCompletes
  <2> DEFINE f == Dev!CompleteFrame(timestamp)
  <2>1. f \in Dev!Frame /\ f \notin Carriers
    BY <1>0 DEF Dev!CompleteFrame, Carriers, IsPacket
  <2>2. /\ ~sending' /\ timestamp' = timestamp
        /\ out' = out \/ out' = Append(out, f)
    BY <1>3 DEF DeviceCompletes, Dev!BurstComplete, Dev!CompleteBurst, Dev!Emit
  <2> HIDE DEF f
  <2>3. PipeKeeps(Carriers) BY <1>0, <2>1, <2>2, UnmarkedSent
  <2>4. QED BY <1>0, <2>2, <2>3, CarriersKept DEF Open
<1>4. CASE DeviceStreams
  <2> DEFINE f == Dev!DataFrame(0, 0)
  <2>1. f \in Dev!Frame /\ f \notin Carriers
    BY <1>0 DEF Dev!DataFrame, Carriers, IsPacket
  <2>2. /\ out' = out \/ out' = Append(out, f)
        /\ timestamp' = timestamp /\ sending' = sending
    BY <1>4 DEF DeviceStreams, Dev!StreamPacket, Dev!SendStreamPacket, Dev!trigger, Dev!Emit
  <2> HIDE DEF f
  <2>3. PipeKeeps(Carriers) BY <1>0, <2>1, <2>2, UnmarkedSent
  <2>4. QED BY <1>0, <2>2, <2>3, CarriersKept DEF Open
<1>5. QED BY <1>1, <1>2, <1>3, <1>4 DEF DeviceProduces

(* The entry p of the pipe that the event loop takes with the event h.     *)
LEMMA EntryTaken ==
  ASSUME Types, EventLoop, NEW h, h = Head(events), NEW p, p = Head(Pipe)
  PROVE  /\ h \in Event /\ UNCHANGED <<out, link, timestamp, sending, disturbed>>
         /\ Pipe # <<>> /\ Pipe \in Seq(PipeEntry)
         /\ p = ItemOf(h) /\ p \in PipeEntry /\ Pipe' = Tail(Pipe)
         /\ OnConnected => p.cmd = "CONNECTED"
         /\ OnTriggerEvent => IsEvent(p) /\ p.of = h.timestamp
         /\ OnDataPacket => IsPacket(p) /\ p = h.frame
         /\ OnTransferComplete \/ OnTransferCompleteUnexpected => IsComplete(p) /\ p = h.frame
         /\ OnDisconnected \/ OnStatusUpdate => p.cmd = "NONE"
<1>1. h \in Event /\ events # <<>> /\ events' = Tail(events)
        /\ UNCHANGED <<out, link, timestamp, sending, disturbed>>
  BY DEF EventLoop, Types, QueueTypes, deviceVars
<1>2. Pipe # <<>> /\ p = ItemOf(h) /\ Pipe' = Tail(Pipe) BY <1>1, PipeTaken
<1>3. Pipe \in Seq(PipeEntry) /\ p \in PipeEntry BY <1>1, <1>2, PipeType, ItemType
<1>4. OnConnected => p.cmd = "CONNECTED"
  BY <1>1, <1>2, ItemType DEF OnConnected, NextEvent
<1>5. OnTriggerEvent => IsEvent(p) /\ p.of = h.timestamp
  BY <1>1, <1>2, ItemType DEF OnTriggerEvent, NextEvent, IsEvent
<1>6. OnDataPacket => IsPacket(p) /\ p = h.frame
  BY <1>1, <1>2, ItemType, EventKinds DEF OnDataPacket, NextEvent, IsPacket, DataFrames
<1>7. OnTransferComplete \/ OnTransferCompleteUnexpected => IsComplete(p) /\ p = h.frame
  BY <1>1, <1>2, ItemType, EventKinds
  DEF OnTransferComplete, OnTransferCompleteUnexpected, NextEvent, IsComplete, CompleteFrames
<1>8. OnDisconnected \/ OnStatusUpdate => p.cmd = "NONE"
  BY <1>1, <1>2, ItemType DEF OnDisconnected, OnStatusUpdate, NextEvent
<1>9. QED BY <1>1, <1>2, <1>3, <1>4, <1>5, <1>6, <1>7, <1>8

LEMMA CarriersHandled ==
  ASSUME Types, OwnCarriers, EventLoop
  PROVE  OwnCarriers'
<1> DEFINE h == Head(events)
<1>p. PICK p : p = Head(Pipe)
  OBVIOUS
<1>0. /\ h \in Event /\ UNCHANGED <<out, link, timestamp, sending>>
      /\ Pipe # <<>> /\ Pipe \in Seq(PipeEntry)
      /\ p \in PipeEntry /\ Pipe' = Tail(Pipe)
      /\ OnConnected => p.cmd = "CONNECTED"
      /\ OnTriggerEvent => IsEvent(p) /\ p.of = h.timestamp
      /\ OnDataPacket => IsPacket(p)
      /\ OnTransferComplete \/ OnTransferCompleteUnexpected => IsComplete(p)
      /\ OnDisconnected \/ OnStatusUpdate => p.cmd = "NONE"
  BY <1>p, EntryTaken
<1>1. OnConnected => ~Open' BY DEF OnConnected, Proc!ResetTriggerState, Open
<1>2. OnTriggerEvent => current_trigger_burst'.trigger_timestamp = h.timestamp
  BY DEF OnTriggerEvent, Proc!StartTriggerBurst
<1>3. OnDataPacket =>
        /\ Open' <=> Open
        /\ Open => current_trigger_burst'.trigger_timestamp = current_trigger_burst.trigger_timestamp
  BY <1>0, ProcessKeepsOpen DEF OnDataPacket, NextEvent
<1>4. OnTransferComplete => ~Open' BY DEF OnTransferComplete, Proc!CompleteTriggerBurst, Open
<1>5. OnDisconnected \/ OnTransferCompleteUnexpected \/ OnStatusUpdate =>
        UNCHANGED current_trigger_burst
  BY DEF OnDisconnected, OnTransferCompleteUnexpected, OnStatusUpdate, Proc!CompleteNothing,
         Proc!procVars, procVars
<1>6. CASE p \notin Carriers
  <2>1. PipeKeeps(Carriers) BY <1>p, <1>0, <1>6, TailOut DEF PipeKeeps
  <2>2. ~OnConnected /\ ~OnTriggerEvent
    BY <1>0, <1>6 DEF Carriers, IsEvent
  <2>3. Open' => Open /\ current_trigger_burst'.trigger_timestamp = current_trigger_burst.trigger_timestamp
    BY <1>3, <1>4, <1>5, <2>2 DEF EventLoop, Open
  <2>4. QED BY <1>0, <2>1, <2>3, CarriersKept
<1>7. CASE p \in Carriers
  <2>1. /\ FirstIn(Pipe, Carriers, p)
        /\ \A x, y : NextIn(Pipe', Carriers, x, y) => NextIn(Pipe, Carriers, x, y)
        /\ \A y : FirstIn(Pipe', Carriers, y) => NextIn(Pipe, Carriers, p, y)
        /\ \A x : LastIn(Pipe', Carriers, x) => LastIn(Pipe, Carriers, x)
        /\ NoneIn(Pipe', Carriers) => LastIn(Pipe, Carriers, p)
    BY <1>p, <1>0, <1>7, TailIn
  <2>2. OnConnected \/ OnTriggerEvent \/ OnDataPacket
    BY <1>0, <1>7 DEF EventLoop, Carriers, IsPacket, IsComplete
  <2>3. Open' => p.cmd # "CONNECTED" /\ current_trigger_burst'.trigger_timestamp = p.of
    <3>1. CASE OnConnected BY <1>1, <3>1
    <3>2. CASE OnTriggerEvent BY <1>0, <1>2, <3>2 DEF IsEvent
    <3>3. CASE OnDataPacket
      BY <1>0, <1>3, <2>1, <3>3 DEF OwnCarriers, CarriersBegin, IsPacket
    <3>4. QED BY <2>2, <3>1, <3>2, <3>3
  <2>4. CarriersFollow' BY <2>1 DEF OwnCarriers, CarriersFollow
  <2>5. CarriersBegin' BY <2>1, <2>3 DEF OwnCarriers, CarriersFollow, CarriersBegin
  <2>6. CarriersToCome' BY <1>0, <2>1, <2>3 DEF OwnCarriers, CarriersToCome
  <2>7. QED BY <2>4, <2>5, <2>6 DEF OwnCarriers
<1>8. QED BY <1>6, <1>7

LEMMA CarriersStep ==
  ASSUME Types, LinkInv, OwnCarriers, ~Lossy, [Next]_vars
  PROVE  OwnCarriers'
<1>1. CASE DeviceReads
  <2>1. PICK f \in Dev!Frame : f.cmd \in Dev!Replies /\ out' \in {out, Append(out, f)}
    BY <1>1, ReplySent
  <2>2. f \notin Carriers BY <2>1 DEF Carriers, IsPacket, Dev!Replies
  <2>3. /\ UNCHANGED <<events, link, current_trigger_burst>>
        /\ timestamp' = timestamp /\ (sending' => sending)
    <3>1. Dev!AppTypeOK /\ Dev!HandleCommand(Head(down)) /\ link' = link
      BY <1>1 DEF Types, DeviceTypes, DeviceReads, Dev!Command
    <3>2. QED BY <1>1, <3>1, HandleCommandType DEF DeviceReads, procVars
  <2>4. PipeKeeps(Carriers)
    <3>1. out' = out \/ out' = Append(out, f) BY <2>1
    <3>2. QED BY <2>2, <2>3, <3>1, UnmarkedSent
  <2>5. QED BY <2>3, <2>4, CarriersKept DEF Open
<1>2. CASE DeviceProduces BY <1>2, CarriersProduced
<1>3. CASE Break
  <2>1. PICK n \in 0..Len(out) : out' = SubSeq(out, 1, n) BY <1>3 DEF Break
  <2>2. ~link' /\ UNCHANGED <<events, current_trigger_burst>>
    BY <1>3 DEF Break, procVars
  <2>3. /\ \A x, y : NextIn(Pipe', Carriers, x, y) => NextIn(Pipe, Carriers, x, y)
        /\ \A x : FirstIn(Pipe', Carriers, x) => FirstIn(Pipe, Carriers, x)
    BY <2>1, <2>2, PipeCut
  <2>4. QED BY <2>2, <2>3 DEF OwnCarriers, CarriersFollow, CarriersBegin, CarriersToCome, Open
<1>4. CASE ManagerConnects
  <2> DEFINE e == [kind |-> "Connected"]
  <2>1. e \in Event /\ e.kind = "Connected" BY DEF Event, StatusReports
  <2>2. /\ events' = Append(events, e) /\ out = <<>> /\ out' = out
        /\ UNCHANGED <<timestamp, sending, current_trigger_burst>>
    BY <1>4 DEF ManagerConnects, Mgr!Connect, Mgr!Report, LinkInv, deviceVars, procVars
  <2> HIDE DEF e
  <2> DEFINE f == ItemOf(e)
  <2>3. f.cmd = "CONNECTED" /\ f \in PipeEntry /\ f \in Carriers /\ Pipe' = Append(Pipe, f)
    BY <2>1, <2>2, ItemType, PipeReported DEF Carriers
  <2> HIDE DEF f
  <2>4. /\ \A x, y : NextIn(Pipe', Carriers, x, y) => NextIn(Pipe, Carriers, x, y) \/ y = f
        /\ \A y : FirstIn(Pipe', Carriers, y) => FirstIn(Pipe, Carriers, y) \/ y = f
        /\ \A x : LastIn(Pipe', Carriers, x) => x = f
        /\ ~NoneIn(Pipe', Carriers)
    BY <2>3, PipeType, AppendIn
  <2>5. ~IsPacket(f) BY <2>3 DEF IsPacket
  <2>6. QED BY <2>2, <2>3, <2>4, <2>5
            DEF OwnCarriers, CarriersFollow, CarriersBegin, CarriersToCome, Open
<1>5. CASE ManagerLosesConnection
  <2> DEFINE e == [kind |-> "Disconnected"]
  <2>1. e \in Event /\ e.kind = "Disconnected" BY DEF Event, StatusReports
  <2>2. /\ events' = Append(events, e) /\ out = <<>> /\ out' = out
        /\ UNCHANGED <<link, timestamp, sending, current_trigger_burst>>
    BY <1>5 DEF ManagerLosesConnection, Mgr!ReadError, Mgr!Report, deviceVars, procVars
  <2> HIDE DEF e
  <2>3. ItemOf(e).cmd = "NONE" /\ ItemOf(e) \in PipeEntry /\ Pipe' = Append(Pipe, ItemOf(e))
    BY <2>1, <2>2, ItemType, PipeReported
  <2>4. ItemOf(e) \notin Carriers BY <2>3 DEF Carriers, IsPacket
  <2>5. PipeKeeps(Carriers) BY <2>3, <2>4, PipeType, AppendOut DEF PipeKeeps
  <2>6. QED BY <2>2, <2>5, CarriersKept DEF Open
<1>6. CASE ManagerReads
  <2>1. PipeKeeps(Carriers) BY <1>6, ReadKeeps DEF Carriers, IsPacket, Dev!Replies
  <2>2. UNCHANGED <<link, timestamp, sending, current_trigger_burst>>
    BY <1>6 DEF ManagerReads, deviceVars, procVars
  <2>3. QED BY <2>1, <2>2, CarriersKept DEF Open
<1>7. CASE EventLoop BY <1>7, CarriersHandled
<1>8. CASE ManagerSendsCommand \/ ManagerPings \/ UserPosts \/ UserDeletes \/ UNCHANGED vars
  <2>1. UNCHANGED <<events, out, link, timestamp, sending, current_trigger_burst>>
    BY <1>8 DEF ManagerSendsCommand, Mgr!HandleCommand, ManagerPings, Mgr!KeepAlive, UserPosts,
                UserDeletes, Proc!RemoveTriggerBurst, vars, managerVars, deviceVars, procVars
  <2>2. Pipe' = Pipe BY <2>1 DEF Pipe, Received
  <2>3. QED BY <2>1, <2>2, SamePipe, CarriersKept DEF Open
<1>9. QED BY <1>1, <1>2, <1>3, <1>4, <1>5, <1>6, <1>7, <1>8 DEF Next, Manager

LEMMA PipeInit == Init => Pipe = <<>>
<1> SUFFICES ASSUME Init PROVE Pipe = <<>>
  OBVIOUS
<1>1. events = <<>> /\ out = <<>> BY DEF Init, Mgr!ManagerInit
<1>2. events \in Seq(Event) BY <1>1
<1>3. Received \in Seq(PipeEntry) /\ Len(Received) = 0 BY <1>1, <1>2, ItemsType DEF Received
<1>4. QED BY <1>1, <1>3, ConcatEmpty DEF Pipe

LEMMA CarriersInit == Init => OwnCarriers
<1> SUFFICES ASSUME Init PROVE OwnCarriers
  OBVIOUS
<1>1. ~Open /\ ~link BY DEF Init, Proc!ProcInit, Open
<1>2. QED BY <1>1, PipeInit, EmptyOrder
          DEF OwnCarriers, CarriersFollow, CarriersBegin, CarriersToCome

-----------------------------------------------------------------------------
(* Of an undisturbed burst, nothing comes after its completion signal: once   *)
(* it is closed, no packet of it is left in the pipe or still to be sent.  *)

OfBurst(t) == {f \in PipeEntry : (IsPacket(f) \/ IsComplete(f)) /\ f.of = t}
Ends(t)    == {f \in PipeEntry : IsComplete(f) /\ f.of = t}

EndsLast ==
  \A t \in Stamps : t \notin disturbed =>
    \A x, y : NextIn(Pipe, OfBurst(t), x, y) => ~IsComplete(x)

EndSent ==
  timestamp \in Stamps /\ timestamp \notin disturbed =>
    /\ \A x : LastIn(Pipe, OfBurst(timestamp), x) /\ IsComplete(x) => ~sending
    /\ \A x : FirstIn(Pipe, Ends(timestamp), x) => ~sending

ClosedIsGone ==
  \A c \in closings : c.burst \notin disturbed =>
    /\ \A x : ~FirstIn(Pipe, OfBurst(c.burst), x)
    /\ c.burst = timestamp => ~sending

Ended == EndsLast /\ EndSent /\ ClosedIsGone

LEMMA ClosingsAreStamps == Types => \A c \in closings : c.burst \in Stamps
BY DEF Types, HistoryTypes, ClosingRecords

(* A step that leaves the entries of undisturbed bursts as they are.       *)
LEMMA EndedKept ==
  ASSUME Types, Ended, closings' = closings, timestamp' = timestamp, sending' => sending,
         disturbed \subseteq disturbed',
         \A t \in Stamps : t \notin disturbed' => PipeKeeps(OfBurst(t)) /\ PipeKeeps(Ends(t))
  PROVE  Ended'
<1>1. \A t : OfBurst(t)' = OfBurst(t) /\ Ends(t)' = Ends(t) BY DEF OfBurst, Ends, IsPacket, IsComplete
<1>2. EndsLast'
  BY <1>1 DEF Ended, EndsLast, PipeKeeps, IsComplete
<1>3. EndSent'
  <2>1. ASSUME timestamp \in Stamps, timestamp \notin disturbed'
        PROVE  /\ \A x : LastIn(Pipe', OfBurst(timestamp), x) /\ IsComplete(x) => ~sending'
               /\ \A x : FirstIn(Pipe', Ends(timestamp), x) => ~sending'
    BY <2>1 DEF Ended, EndSent, PipeKeeps
  <2>2. QED BY <1>1, <2>1 DEF EndSent, IsComplete, OfBurst, Ends, IsPacket
<1>4. ClosedIsGone'
  BY <1>1, ClosingsAreStamps DEF Ended, ClosedIsGone, PipeKeeps
<1>5. QED BY <1>2, <1>3, <1>4 DEF Ended

(* The two frames of a new burst, some of them perhaps lost.               *)
LEMMA PairOut ==
  ASSUME Types, NEW e \in Dev!Frame, NEW d \in Dev!Frame, NEW D, e \notin D, d \notin D,
         out' \in {out, Append(out, e), Append(out, d), Append(Append(out, e), d)}, events' = events
  PROVE  PipeKeeps(D)
<1>0. e \in PipeEntry /\ d \in PipeEntry BY DEF PipeEntry
<1>1. CASE out' = out \/ out' = Append(out, e) BY <1>1, UnmarkedSent
<1>2. CASE out' = Append(out, d) BY <1>2, UnmarkedSent
<1>3. CASE out' = Append(Append(out, e), d)
  <2> DEFINE o == Append(out, e)
             p == Append(Pipe, e)
  <2>1. o \in Seq(PipeEntry) /\ Received \o o = p /\ p \in Seq(PipeEntry)
    BY <1>0, PipeType, ConcatAppend, AppendEntries DEF Pipe
  <2>2. /\ \A x, y : NextIn(p, D, x, y) => NextIn(Pipe, D, x, y)
        /\ \A x : FirstIn(p, D, x) => FirstIn(Pipe, D, x)
        /\ \A x : LastIn(p, D, x) => LastIn(Pipe, D, x)
        /\ NoneIn(p, D) => NoneIn(Pipe, D)
    BY <1>0, PipeType, AppendOut
  <2>3. out' = Append(o, d) BY <1>3
  <2> HIDE DEF o, p
  <2>4. Received \o Append(o, d) = Append(p, d)
    BY <1>0, <2>1, PipeType, ConcatAppend
  <2>5. Pipe' = Append(p, d) BY <2>3, <2>4 DEF Pipe, Received
  <2>6. /\ \A x, y : NextIn(Append(p, d), D, x, y) => NextIn(p, D, x, y)
        /\ \A x : FirstIn(Append(p, d), D, x) => FirstIn(p, D, x)
        /\ \A x : LastIn(Append(p, d), D, x) => LastIn(p, D, x)
        /\ NoneIn(Append(p, d), D) => NoneIn(p, D)
    BY <1>0, <2>1, AppendOut
  <2>7. QED BY <2>2, <2>5, <2>6 DEF PipeKeeps
<1>4. QED BY <1>1, <1>2, <1>3

(* What has been in the pipe is older than a burst that begins.            *)
LEMMA NewInPipe ==
  ASSUME Types, Past, NEW e, NEW d, BurstBegins(e, d), events' = events
  PROVE  \A x : Occurs(Pipe', x) /\ x \in OfBurst(timestamp') => x \in {e, d}
<1>0. /\ e \in Items /\ d \in Items /\ e \in PipeEntry /\ d \in PipeEntry
      /\ out' \in {out, Append(out, e), Append(out, d), Append(Append(out, e), d)}
      /\ timestamp \in Nat /\ timestamp' = timestamp + 1
  BY FramesAreFrames DEF BurstBegins, Items, Types, DeviceTypes
<1>1. \A x : Occurs(out', x) => Occurs(out, x) \/ x \in {e, d}
  <2>1. out \in Seq(PipeEntry) BY PipeType
  <2>2. PICK q : q = out' OBVIOUS
  <2>3. \A x : Occurs(q, x) => Occurs(out, x) \/ x \in {e, d}
    BY <1>0, <2>1, <2>2, SomeSent
  <2>4. QED BY <2>2, <2>3
<1>2. out' \in Seq(PipeEntry)
  <2>1. Append(out, e) \in Seq(PipeEntry) /\ Append(out, d) \in Seq(PipeEntry)
    BY <1>0, PipeType, AppendEntries
  <2>2. Append(Append(out, e), d) \in Seq(PipeEntry) BY <1>0, <2>1, AppendEntries
  <2>3. QED BY <1>0, <2>1, <2>2, PipeType
<1>3. Pipe' = Received \o out' BY DEF Pipe, Received
<1>4. \A x : Occurs(Pipe', x) => Occurs(Received, x) \/ Occurs(out', x)
  BY <1>2, <1>3, PipeType, ConcatOccurs
<1>5. \A x : Occurs(Received, x) \/ Occurs(out, x) => Occurs(Pipe, x)
  BY PipeType, OccursEither DEF Pipe
<1>6. ASSUME NEW x, Occurs(Pipe, x), x \in OfBurst(timestamp') PROVE FALSE
  <2>1. x \in Items /\ x.cmd # "CONNECTED" /\ x.of = timestamp'
    BY <1>6 DEF OfBurst, Items, IsPacket, IsComplete
  <2>2. x.of <= timestamp BY <1>6, <2>1, PastPipe
  <2>3. QED BY <1>0, <2>1, <2>2
<1>7. QED BY <1>1, <1>4, <1>5, <1>6

LEMMA EndedWhenBegun ==
  ASSUME Types, Ordered, Past, Ended, Elsewhere, NEW e, NEW d, BurstBegins(e, d)
  PROVE  Ended'
<1>0. /\ e \in Dev!Frame /\ IsEvent(e) /\ e.of = timestamp'
      /\ d \in Dev!Frame /\ IsPacket(d) /\ d.of = timestamp'
      /\ out' \in {out, Append(out, e), Append(out, d), Append(Append(out, e), d)}
      /\ events' = events /\ closings' = closings /\ disturbed \subseteq disturbed'
      /\ timestamp \in Nat /\ timestamp' = timestamp + 1
      /\ ~IsComplete(e) /\ ~IsComplete(d)
  BY FramesAreFrames
  DEF BurstBegins, IsPacket, IsEvent, IsComplete, Elsewhere, Disturbed, Types, DeviceTypes
<1>1. \A t : OfBurst(t)' = OfBurst(t) /\ Ends(t)' = Ends(t) BY DEF OfBurst, Ends, IsPacket, IsComplete
<1>2. \A t : t # timestamp' => PipeKeeps(OfBurst(t)) /\ PipeKeeps(Ends(t))
  <2>1. ASSUME NEW t, t # timestamp' PROVE PipeKeeps(OfBurst(t)) /\ PipeKeeps(Ends(t))
    <3>1. e \notin OfBurst(t) /\ d \notin OfBurst(t) /\ e \notin Ends(t) /\ d \notin Ends(t)
      BY <1>0, <2>1 DEF OfBurst, Ends
    <3>2. QED BY <1>0, <3>1, PairOut
  <2>2. QED BY <2>1
<1>3. \A x : Occurs(Pipe', x) /\ x \in OfBurst(timestamp') => ~IsComplete(x)
  BY <1>0, NewInPipe
<1>4. /\ \A x, y : NextIn(Pipe', OfBurst(timestamp'), x, y) => ~IsComplete(x)
      /\ \A x : LastIn(Pipe', OfBurst(timestamp'), x) => ~IsComplete(x)
      /\ \A x : ~FirstIn(Pipe', Ends(timestamp'), x)
  <2>1. \A x, y : NextIn(Pipe', OfBurst(timestamp'), x, y) => ~IsComplete(x)
    BY <1>3, OrderOccurs
  <2>2. \A x : LastIn(Pipe', OfBurst(timestamp'), x) => ~IsComplete(x)
    BY <1>3, OrderOccurs
  <2>3. \A x : ~FirstIn(Pipe', Ends(timestamp'), x)
    BY <1>3, OrderOccurs DEF Ends, OfBurst
  <2>4. QED BY <2>1, <2>2, <2>3
<1>5. EndsLast'
  <2>1. ASSUME NEW t \in Stamps, t \notin disturbed', NEW x, NEW y, NextIn(Pipe', OfBurst(t), x, y)
        PROVE  ~IsComplete(x)
    <3>1. CASE t = timestamp' BY <1>4, <2>1, <3>1
    <3>2. CASE t # timestamp'
      BY <1>0, <1>2, <2>1, <3>2 DEF Ended, EndsLast, PipeKeeps
    <3>3. QED BY <3>1, <3>2
  <2>2. QED BY <1>1, <2>1 DEF EndsLast, IsComplete
<1>6. EndSent' BY <1>1, <1>4 DEF EndSent, IsComplete
<1>7. ClosedIsGone'
  <2>1. ASSUME NEW c \in closings, c.burst \notin disturbed'
        PROVE  (\A x : ~FirstIn(Pipe', OfBurst(c.burst), x)) /\ c.burst # timestamp'
    <3>1. c.burst \in Stamps BY <2>1, ClosingsAreStamps
    <3>2. c.burst <= timestamp BY <2>1, <3>1 DEF Ordered, KnownPast, Known, ProcStamps
    <3>3. c.burst # timestamp' BY <1>0, <3>1, <3>2 DEF Stamps
    <3>4. QED BY <1>0, <1>2, <2>1, <3>3 DEF Ended, ClosedIsGone, PipeKeeps
  <2>2. QED BY <1>0, <1>1, <2>1 DEF ClosedIsGone
<1>8. QED BY <1>5, <1>6, <1>7 DEF Ended

LEMMA EndedWhenSent ==
  ASSUME Types, Ended, Elsewhere, NEW f, BurstGoesOn(f)
  PROVE  Ended'
<1>0. /\ f \in Dev!Frame /\ f \in PipeEntry /\ f.of = timestamp
      /\ events' = events /\ closings' = closings /\ disturbed \subseteq disturbed'
      /\ timestamp' = timestamp /\ sending
      /\ IsPacket(f) \/ (IsComplete(f) /\ ~sending')
      /\ out' \in {out, Append(out, f)}
      /\ timestamp \notin disturbed' => out' = Append(out, f)
  BY DEF BurstGoesOn, Elsewhere, Disturbed, IsPacket, IsComplete, PipeEntry
<1>1. \A t : OfBurst(t)' = OfBurst(t) /\ Ends(t)' = Ends(t) BY DEF OfBurst, Ends, IsPacket, IsComplete
<1>2. \A t : t # timestamp => PipeKeeps(OfBurst(t)) /\ PipeKeeps(Ends(t))
  <2>1. ASSUME NEW t, t # timestamp PROVE PipeKeeps(OfBurst(t)) /\ PipeKeeps(Ends(t))
    <3>1. f \notin OfBurst(t) /\ f \notin Ends(t) BY <1>0, <2>1 DEF OfBurst, Ends
    <3>2. out' = out \/ out' = Append(out, f) BY <1>0
    <3>3. QED BY <1>0, <3>1, <3>2, UnmarkedSent
  <2>2. QED BY <2>1
<1>3. ASSUME timestamp \in Stamps, timestamp \notin disturbed'
      PROVE  /\ \A x, y : NextIn(Pipe', OfBurst(timestamp), x, y) => ~IsComplete(x)
             /\ \A x : LastIn(Pipe', OfBurst(timestamp), x) /\ IsComplete(x) => ~sending'
             /\ \A x : FirstIn(Pipe', Ends(timestamp), x) => ~sending'
  <2>0. timestamp \notin disturbed BY <1>0, <1>3
  <2>1. f \in OfBurst(timestamp) /\ Pipe' = Append(Pipe, f)
    BY <1>0, <1>3, PipeSent DEF OfBurst
  <2>2. /\ \A x, y : NextIn(Pipe', OfBurst(timestamp), x, y) =>
                       NextIn(Pipe, OfBurst(timestamp), x, y) \/ (LastIn(Pipe, OfBurst(timestamp), x) /\ y = f)
        /\ \A x : LastIn(Pipe', OfBurst(timestamp), x) => x = f
    BY <1>0, <2>1, PipeType, AppendIn
  <2>3. \A x, y : NextIn(Pipe', OfBurst(timestamp), x, y) => ~IsComplete(x)
    BY <1>0, <1>3, <2>0, <2>2 DEF Ended, EndsLast, EndSent
  <2>4. \A x : LastIn(Pipe', OfBurst(timestamp), x) /\ IsComplete(x) => ~sending'
    BY <1>0, <2>2 DEF IsPacket, IsComplete
  <2>5. ASSUME NEW x, FirstIn(Pipe', Ends(timestamp), x) PROVE ~sending'
    <3>1. CASE IsComplete(f) BY <1>0, <3>1 DEF IsPacket, IsComplete
    <3>2. CASE ~IsComplete(f)
      <4>1. f \notin Ends(timestamp) BY <3>2 DEF Ends
      <4>2. PipeKeeps(Ends(timestamp))
        <5>1. out' = out \/ out' = Append(out, f) BY <1>0
        <5>2. QED BY <1>0, <4>1, <5>1, UnmarkedSent
      <4>3. QED BY <1>0, <1>3, <2>0, <2>5, <4>2 DEF Ended, EndSent, PipeKeeps
    <3>3. QED BY <3>1, <3>2
  <2>6. QED BY <2>3, <2>4, <2>5
<1>4. EndsLast'
  <2>1. ASSUME NEW t \in Stamps, t \notin disturbed', NEW x, NEW y, NextIn(Pipe', OfBurst(t), x, y)
        PROVE  ~IsComplete(x)
    <3>1. CASE t = timestamp BY <1>3, <2>1, <3>1
    <3>2. CASE t # timestamp
      BY <1>0, <1>2, <2>1, <3>2 DEF Ended, EndsLast, PipeKeeps
    <3>3. QED BY <3>1, <3>2
  <2>2. QED BY <1>1, <2>1 DEF EndsLast, IsComplete
<1>5. EndSent' BY <1>0, <1>1, <1>3 DEF EndSent, IsComplete
<1>6. ClosedIsGone'
  <2>1. ASSUME NEW c \in closings, c.burst \notin disturbed'
        PROVE  (\A x : ~FirstIn(Pipe', OfBurst(c.burst), x)) /\ c.burst # timestamp
    <3>1. c.burst # timestamp BY <1>0, <2>1 DEF Ended, ClosedIsGone
    <3>2. QED BY <1>0, <1>2, <2>1, <3>1 DEF Ended, ClosedIsGone, PipeKeeps
  <2>2. QED BY <1>0, <1>1, <2>1 DEF ClosedIsGone
<1>7. QED BY <1>4, <1>5, <1>6 DEF Ended

LEMMA EndedWhenHandled ==
  ASSUME Types, Ordered, Undisturbed, Ended, EventLoop
  PROVE  Ended'
<1> DEFINE h == Head(events)
<1>p. PICK p : p = Head(Pipe)
  OBVIOUS
<1>0. /\ UNCHANGED <<timestamp, sending, disturbed>>
      /\ Pipe # <<>> /\ Pipe \in Seq(PipeEntry)
      /\ p \in PipeEntry /\ Pipe' = Tail(Pipe)
      /\ OnTransferComplete => IsComplete(p) /\ p = h.frame
  BY <1>p, EntryTaken
<1>1. \A t : OfBurst(t)' = OfBurst(t) /\ Ends(t)' = Ends(t) BY DEF OfBurst, Ends, IsPacket, IsComplete
<1>2. \A D : p \notin D => PipeKeeps(D) BY <1>p, <1>0, TailOut DEF PipeKeeps
<1>3. \A D : p \in D =>
        /\ FirstIn(Pipe, D, p)
        /\ \A x, y : NextIn(Pipe', D, x, y) => NextIn(Pipe, D, x, y)
        /\ \A y : FirstIn(Pipe', D, y) => NextIn(Pipe, D, p, y)
        /\ \A x : LastIn(Pipe', D, x) => LastIn(Pipe, D, x)
  BY <1>p, <1>0, TailIn
<1>4. EndsLast'
  <2>1. \A D, x, y : NextIn(Pipe', D, x, y) => NextIn(Pipe, D, x, y) BY <1>2, <1>3 DEF PipeKeeps
  <2>2. QED BY <1>0, <1>1, <2>1 DEF Ended, EndsLast, IsComplete
<1>5. EndSent'
  <2>1. ASSUME timestamp \in Stamps, timestamp \notin disturbed
        PROVE  /\ \A x : LastIn(Pipe', OfBurst(timestamp), x) /\ IsComplete(x) => ~sending
               /\ \A x : FirstIn(Pipe', Ends(timestamp), x) => ~sending
    <3>1. \A D, x : LastIn(Pipe', D, x) => LastIn(Pipe, D, x) BY <1>2, <1>3 DEF PipeKeeps
    <3>2. \A x : FirstIn(Pipe', Ends(timestamp), x) => ~sending
      <4>1. CASE p \in Ends(timestamp) BY <1>3, <2>1, <4>1 DEF Ended, EndSent
      <4>2. CASE p \notin Ends(timestamp) BY <1>2, <2>1, <4>2 DEF Ended, EndSent, PipeKeeps
      <4>3. QED BY <4>1, <4>2
    <3>3. QED BY <2>1, <3>1, <3>2 DEF Ended, EndSent
  <2>2. QED BY <1>0, <1>1, <2>1 DEF EndSent, IsComplete
<1>6. ASSUME NEW c \in closings, c.burst \notin disturbed
      PROVE  (\A x : ~FirstIn(Pipe', OfBurst(c.burst), x)) /\ (c.burst = timestamp => ~sending)
  <2>1. /\ \A x : ~FirstIn(Pipe, OfBurst(c.burst), x)
        /\ c.burst = timestamp => ~sending
    BY <1>6 DEF Ended, ClosedIsGone
  <2>2. p \notin OfBurst(c.burst) BY <1>3, <2>1
  <2>3. QED BY <1>2, <2>1, <2>2 DEF PipeKeeps
<1>7. CASE ~OnTransferComplete
  <2>1. closings' = closings
    BY <1>7 DEF EventLoop, OnConnected, OnDisconnected, OnTriggerEvent, OnDataPacket,
                OnTransferCompleteUnexpected, OnStatusUpdate
  <2>2. ClosedIsGone' BY <1>0, <1>1, <1>6, <2>1 DEF ClosedIsGone
  <2>3. QED BY <1>4, <1>5, <2>2 DEF Ended
<1>8. CASE OnTransferComplete
  <2> DEFINE c == Closing(current_trigger_burst, p)
             t == current_trigger_burst.trigger_timestamp
  <2>1. Open /\ closings' = closings \cup {c} /\ c.burst = t
    BY <1>0, <1>8 DEF OnTransferComplete, Proc!CompleteTriggerBurst, Open, Closing
  <2> HIDE DEF c, t
  <2>2. ASSUME t \notin disturbed
        PROVE  (\A x : ~FirstIn(Pipe', OfBurst(t), x)) /\ (t = timestamp => ~sending)
    <3>1. OpenIntact BY <2>1, <2>2, OpenIsIntact DEF t
    <3>2. IsComplete(p) /\ p \in Items BY <1>0, <1>8 DEF IsComplete, Items
    <3>3. FirstIn(Pipe, Items, p) BY <1>3, <3>2
    <3>4. Expected(p) BY <3>1, <3>3 DEF Undisturbed, InOrder, ItemsBegin
    <3>5. p.of = t BY <3>4 DEF Expected, Collected, t
    <3>6. t \in Stamps BY <2>1 DEF t, Types, ProcessorTypes, Open
    <3>7. p \in OfBurst(t) /\ p \in Ends(t) BY <1>0, <3>2, <3>5 DEF OfBurst, Ends
    <3>8. \A x : ~FirstIn(Pipe', OfBurst(t), x)
      BY <1>3, <2>2, <3>2, <3>6, <3>7 DEF Ended, EndsLast
    <3>9. t = timestamp => ~sending
      BY <1>3, <2>2, <3>6, <3>7 DEF Ended, EndSent
    <3>10. QED BY <3>8, <3>9
  <2>3. ClosedIsGone' BY <1>0, <1>1, <1>6, <2>1, <2>2 DEF ClosedIsGone
  <2>4. QED BY <1>4, <1>5, <2>3 DEF Ended
<1>9. QED BY <1>7, <1>8

LEMMA EndedStep ==
  ASSUME Types, LinkInv, Ordered, Past, Undisturbed, Ended, [Next]_vars
  PROVE  Ended'
<1>1. CASE DeviceReads
  <2>1. PICK f \in Dev!Frame : f.cmd \in Dev!Replies /\ out' \in {out, Append(out, f)}
    BY <1>1, ReplySent
  <2>2. \A t : f \notin OfBurst(t) /\ f \notin Ends(t)
    BY <2>1 DEF OfBurst, Ends, IsPacket, IsComplete, Dev!Replies
  <2>3. /\ UNCHANGED <<events, closings, disturbed, timestamp>>
        /\ sending' => sending
    <3>1. Dev!AppTypeOK /\ Dev!HandleCommand(Head(down))
      BY <1>1 DEF Types, DeviceTypes, DeviceReads, Dev!Command
    <3>2. QED BY <1>1, <3>1, HandleCommandType DEF DeviceReads
  <2>4. \A t : PipeKeeps(OfBurst(t)) /\ PipeKeeps(Ends(t))
    <3>1. out' = out \/ out' = Append(out, f) BY <2>1
    <3>2. QED BY <2>2, <2>3, <3>1, UnmarkedSent
  <2>5. QED BY <2>3, <2>4, EndedKept
<1>2. CASE DeviceProduces
  <2>1. Elsewhere BY <1>2, ProducesElsewhere
  <2>2. CASE DeviceFires
    <3>1. PICK e, d : BurstBegins(e, d) BY <2>2, FiresBegins
    <3>2. QED BY <2>1, <3>1, EndedWhenBegun
  <2>3. CASE DeviceSendsPacket \/ DeviceCompletes
    <3>1. PICK f : BurstGoesOn(f) BY <2>3, SendsGoesOn
    <3>2. QED BY <2>1, <3>1, EndedWhenSent
  <2>4. CASE DeviceStreams
    <3> DEFINE f == Dev!DataFrame(0, 0)
    <3>1. f \in Dev!Frame /\ IsPacket(f) /\ f.of = 0
      BY FramesAreFrames DEF Types, DeviceTypes, Dev!DataFrame, IsPacket
    <3>2. /\ out' = out \/ out' = Append(out, f)
          /\ UNCHANGED <<timestamp, sending, disturbed>>
      BY <2>4 DEF DeviceStreams, Dev!StreamPacket, Dev!SendStreamPacket, Dev!trigger, Dev!Emit
    <3> HIDE DEF f
    <3>3. \A t \in Stamps : f \notin OfBurst(t) /\ f \notin Ends(t)
      BY <3>1 DEF OfBurst, Ends, Stamps
    <3>4. \A t \in Stamps : PipeKeeps(OfBurst(t)) /\ PipeKeeps(Ends(t))
      BY <2>1, <3>1, <3>2, <3>3, UnmarkedSent DEF Elsewhere
    <3>5. QED BY <2>1, <3>2, <3>4, EndedKept DEF Elsewhere
  <2>5. QED BY <1>2, <2>2, <2>3, <2>4 DEF DeviceProduces
<1>3. CASE Break
  <2>1. PICK n \in 0..Len(out) : out' = SubSeq(out, 1, n) BY <1>3 DEF Break
  <2>2. /\ UNCHANGED <<events, timestamp, sending, closings>>
        /\ disturbed' = disturbed \cup UnderWay
    BY <1>3 DEF Break, deviceVars
  <2>3. \A D : /\ \A x, y : NextIn(Pipe', D, x, y) => NextIn(Pipe, D, x, y)
               /\ \A x : FirstIn(Pipe', D, x) => FirstIn(Pipe, D, x)
    BY <2>1, <2>2, PipeCut
  <2>4. \A t : OfBurst(t)' = OfBurst(t) /\ Ends(t)' = Ends(t)
    BY DEF OfBurst, Ends, IsPacket, IsComplete
  <2>5. EndsLast' BY <2>2, <2>3, <2>4 DEF Ended, EndsLast, IsComplete
  <2>6. timestamp \in Stamps /\ timestamp \notin disturbed' => ~sending
    <3>1. ASSUME timestamp \in Stamps, timestamp \notin disturbed' PROVE ~sending
      <4>1. timestamp \in 1..timestamp BY <3>1 DEF Stamps
      <4>2. PICK c \in closings : c.burst = timestamp
        BY <2>2, <3>1, <4>1 DEF UnderWay
      <4>3. QED BY <2>2, <3>1, <4>2 DEF Ended, ClosedIsGone
    <3>2. QED BY <3>1
  <2>7. EndSent' BY <2>2, <2>6 DEF EndSent
  <2>8. ClosedIsGone' BY <2>2, <2>3, <2>4 DEF Ended, ClosedIsGone
  <2>9. QED BY <2>5, <2>7, <2>8 DEF Ended
<1>4. CASE ManagerConnects \/ ManagerLosesConnection
  <2>1. \E e \in Event : events' = Append(events, e) /\ e.kind \in {"Connected", "Disconnected"}
    BY <1>4 DEF ManagerConnects, ManagerLosesConnection, Mgr!Connect, Mgr!ReadError, Mgr!Report,
                Event, StatusReports
  <2>2. PICK e \in Event : events' = Append(events, e) /\ e.kind \in {"Connected", "Disconnected"}
    BY <2>1
  <2>3. /\ out = <<>> /\ out' = out
        /\ UNCHANGED <<timestamp, sending, disturbed, closings>>
    BY <1>4 DEF ManagerConnects, ManagerLosesConnection, Mgr!Connect, LinkInv, deviceVars
  <2>4. ItemOf(e) \in PipeEntry /\ Pipe' = Append(Pipe, ItemOf(e))
    BY <2>2, <2>3, PipeReported
  <2>5. \A t : ItemOf(e) \notin OfBurst(t) /\ ItemOf(e) \notin Ends(t)
    <3>1. ItemOf(e).cmd \in {"CONNECTED", "NONE"} BY <2>2, ItemType
    <3>2. QED BY <3>1 DEF OfBurst, Ends, IsPacket, IsComplete
  <2>6. \A t : PipeKeeps(OfBurst(t)) /\ PipeKeeps(Ends(t))
    BY <2>4, <2>5, PipeType, AppendOut DEF PipeKeeps
  <2>7. QED BY <2>3, <2>6, EndedKept
<1>5. CASE ManagerReads
  <2>1. ASSUME NEW t PROVE PipeKeeps(OfBurst(t)) /\ PipeKeeps(Ends(t))
    <3>1. \A x \in OfBurst(t) : x.cmd \notin Dev!Replies \cup {"NONE"}
      BY DEF OfBurst, IsPacket, IsComplete, Dev!Replies
    <3>2. \A x \in Ends(t) : x.cmd \notin Dev!Replies \cup {"NONE"}
      BY DEF Ends, IsComplete, Dev!Replies
    <3>3. QED BY <1>5, <3>1, <3>2, ReadKeeps
  <2>2. UNCHANGED <<timestamp, sending, disturbed, closings>>
    BY <1>5 DEF ManagerReads, deviceVars
  <2>3. QED BY <2>1, <2>2, EndedKept
<1>6. CASE EventLoop BY <1>6, EndedWhenHandled
<1>7. CASE ManagerSendsCommand \/ ManagerPings \/ UserPosts \/ UserDeletes \/ UNCHANGED vars
  <2>1. /\ UNCHANGED <<events, out, timestamp, sending, closings>>
        /\ disturbed \subseteq disturbed'
    BY <1>7 DEF ManagerSendsCommand, Mgr!HandleCommand, ManagerPings, Mgr!KeepAlive, UserPosts,
                UserDeletes, Proc!RemoveTriggerBurst, vars, managerVars, deviceVars, procVars
  <2>2. Pipe' = Pipe BY <2>1 DEF Pipe, Received
  <2>3. QED BY <2>1, <2>2, SamePipe, EndedKept
<1>8. QED BY <1>1, <1>2, <1>3, <1>4, <1>5, <1>6, <1>7 DEF Next, Manager

LEMMA EndedInit == Init => Ended
<1> SUFFICES ASSUME Init PROVE Ended
  OBVIOUS
<1>1. timestamp = 0 /\ closings = {} BY DEF Init, Dev!AppInit
<1>2. QED BY <1>1, PipeInit, EmptyOrder DEF Ended, EndsLast, EndSent, ClosedIsGone, Stamps

-----------------------------------------------------------------------------
(* The packets that are stored.                                            *)

TagFits(s, t)   == s.tag.of \in {t, 0} \/ (Lossy /\ s.tag.of \in disturbed)
TagsFit(ps, t)  == \A i \in DOMAIN ps : TagFits(ps[i], t)

PacketsAreOwn ==
  /\ Open => TagsFit(current_trigger_burst.data_packets, current_trigger_burst.trigger_timestamp)
  /\ \A c \in closings : TagsFit(c.got, c.burst)

LEMMA DisturbedGrows ==
  ASSUME [Next]_vars
  PROVE  disturbed \subseteq disturbed'
BY DEF Next, Manager, DeviceReads, DeviceProduces, DeviceFires, DeviceSendsPacket, DeviceCompletes,
   DeviceStreams, Disturbs, Break, ManagerConnects, ManagerLosesConnection, ManagerSendsCommand,
   ManagerPings, ManagerReads, EventLoop, UserPosts, UserDeletes, vars

LEMMA TagsLast ==
  ASSUME disturbed \subseteq disturbed'
  PROVE  \A ps, t : TagsFit(ps, t) => TagsFit(ps, t)'
BY DEF TagsFit, TagFits

(* The packet at the head of the pipe is one of the open burst, unless its   *)
(* own was disturbed and frames may be lost.                               *)
LEMMA HeadIsOwn ==
  ASSUME Types, Ordered, Past, Undisturbed, Ended, ~Lossy => OwnCarriers,
         Open, Pipe # <<>>, NEW p, p = Head(Pipe), IsPacket(p)
  PROVE  p.of \in {current_trigger_burst.trigger_timestamp, 0} \/ (Lossy /\ p.of \in disturbed)
<1>1. Pipe \in Seq(PipeEntry) /\ p \in PipeEntry BY PipeType
<1>2. \A D : p \in D => FirstIn(Pipe, D, p) BY <1>1, TailIn
<1>3. CASE ~Lossy
  <2>1. p.of # 0 => p \in Carriers BY <1>1 DEF Carriers
  <2>2. QED BY <1>2, <1>3, <2>1 DEF OwnCarriers, CarriersBegin
<1>4. CASE Lossy /\ p.of # 0 /\ p.of \notin disturbed
  <2>1. p \in Items /\ p.cmd # "CONNECTED" BY <1>1 DEF IsPacket, Items
  <2>2. Occurs(Pipe, p) BY <1>1, TailOccurs
  <2>3. p.of <= timestamp BY <2>1, <2>2, PastPipe
  <2>4. p.of \in Stamps
    <3>1. p \in Dev!Frame BY <1>1 DEF IsPacket, PipeEntry
    <3>2. QED BY <1>4, <3>1, FrameKinds DEF IsPacket, DataFrames
  <2>5. p.of \in 1..timestamp BY <2>3, <2>4, FramesAreFrames DEF Types, DeviceTypes, Stamps
  <2>6. \A c \in closings : c.burst # p.of
    <3>1. p \in OfBurst(p.of) BY <1>1 DEF OfBurst
    <3>2. QED BY <1>2, <1>4, <3>1 DEF Ended, ClosedIsGone
  <2>7. Trails(p) BY <1>4, <2>5, <2>6 DEF Trails, Intact, UnderWay, IsPacket
  <2>8. Expected(p) BY <1>2, <2>1, <2>7 DEF Undisturbed, InOrder, ItemsBegin
  <2>9. QED BY <2>8 DEF Expected, Collected
<1>5. QED BY <1>3, <1>4

LEMMA TagsHandled ==
  ASSUME Types, Ordered, Past, Undisturbed, Ended, ~Lossy => OwnCarriers, PacketsAreOwn, EventLoop
  PROVE  PacketsAreOwn'
<1> DEFINE h == Head(events)
<1>p. PICK p : p = Head(Pipe)
  OBVIOUS
<1>0. /\ h \in Event /\ disturbed' = disturbed /\ Pipe # <<>>
      /\ OnDataPacket => IsPacket(p) /\ p = h.frame
  BY <1>p, EntryTaken
<1>t. \A ps, t : TagsFit(ps, t)' <=> TagsFit(ps, t) BY <1>0 DEF TagsFit, TagFits
<1>1. CASE OnConnected
  BY <1>1, <1>t DEF OnConnected, Proc!ResetTriggerState, PacketsAreOwn, Open
<1>2. CASE OnTriggerEvent
  <2>1. current_trigger_burst'.data_packets = <<>> /\ closings' = closings
    BY <1>2 DEF OnTriggerEvent, Proc!StartTriggerBurst
  <2>2. DOMAIN current_trigger_burst'.data_packets = {} BY <2>1
  <2>3. QED BY <1>t, <2>1, <2>2 DEF PacketsAreOwn, TagsFit
<1>3. CASE OnDataPacket
  <2>1. h.kind = "DataPacket" /\ Proc!ProcessPacket(Packet(h)) /\ closings' = closings
    BY <1>3 DEF OnDataPacket, NextEvent
  <2>2. CASE Proc!ProcessRefused(Packet(h)) \/ Proc!ProcessContinuous(Packet(h))
    BY <1>t, <2>1, <2>2 DEF Proc!ProcessRefused, Proc!ProcessContinuous, Proc!procVars, PacketsAreOwn, Open
  <2>3. CASE Proc!ProcessTrigger(Packet(h))
    <3>1. CASE ~Open
      BY <1>0, <1>t, <2>1, <3>1, ProcessKeepsOpen DEF PacketsAreOwn
    <3>2. CASE Open
      <4> DEFINE t == current_trigger_burst.trigger_timestamp
                 q == current_trigger_burst.data_packets
      <4>1. Open' /\ current_trigger_burst'.trigger_timestamp = t
        BY <1>0, <2>1, <3>2, ProcessKeepsOpen
      <4>2. PICK s \in Proc!StoredPacket :
              /\ s.tag = [of |-> h.frame.of, n |-> h.frame.n]
              /\ q \in Seq(Proc!StoredPacket)
              /\ current_trigger_burst'.data_packets = Append(q, s)
        BY <1>0, <2>1, <2>3, <3>2, PacketStored
      <4>3. p.of \in {t, 0} \/ (Lossy /\ p.of \in disturbed)
        BY <1>p, <1>0, <1>3, <3>2, HeadIsOwn
      <4>4. TagFits(s, t) BY <1>0, <1>3, <4>2, <4>3 DEF TagFits
      <4>5. TagsFit(q, t) BY <3>2 DEF PacketsAreOwn
      <4> HIDE DEF q, t
      <4>6. /\ DOMAIN Append(q, s) = 1..(Len(q) + 1) /\ DOMAIN q = 1..Len(q) /\ Len(q) \in Nat
            /\ \A i \in 1..Len(q) : Append(q, s)[i] = q[i]
            /\ Append(q, s)[Len(q) + 1] = s
        BY <4>2
      <4>7. \A i \in 1..(Len(q) + 1) : i = Len(q) + 1 \/ i \in 1..Len(q) BY <4>6
      <4>8. TagsFit(Append(q, s), t) BY <4>4, <4>5, <4>6, <4>7 DEF TagsFit
      <4>9. QED BY <1>t, <2>1, <4>1, <4>2, <4>8 DEF PacketsAreOwn
    <3>3. QED BY <3>1, <3>2
  <2>4. QED BY <2>1, <2>2, <2>3 DEF Proc!ProcessPacket
<1>4. CASE OnTransferComplete
  <2>1. Open /\ ~Open' BY <1>4 DEF OnTransferComplete, Proc!CompleteTriggerBurst, Open
  <2> DEFINE c == Closing(current_trigger_burst, h.frame)
  <2>2. /\ closings' = closings \cup {c}
        /\ c.got = current_trigger_burst.data_packets
        /\ c.burst = current_trigger_burst.trigger_timestamp
    BY <1>4 DEF OnTransferComplete, Closing
  <2> HIDE DEF c
  <2>3. QED BY <1>t, <2>1, <2>2 DEF PacketsAreOwn
<1>5. CASE OnDisconnected \/ OnTransferCompleteUnexpected \/ OnStatusUpdate
  BY <1>5, <1>t DEF OnDisconnected, OnTransferCompleteUnexpected, OnStatusUpdate, Proc!CompleteNothing,
              Proc!procVars, procVars, Open, PacketsAreOwn
<1>6. QED BY <1>1, <1>2, <1>3, <1>4, <1>5 DEF EventLoop

LEMMA TagsStep ==
  ASSUME Types, Ordered, Past, Undisturbed, Ended, ~Lossy => OwnCarriers, PacketsAreOwn, [Next]_vars
  PROVE  PacketsAreOwn'
<1>1. CASE EventLoop BY <1>1, TagsHandled
<1>2. CASE ~EventLoop
  <2>1. UNCHANGED <<current_trigger_burst, closings>>
    BY <1>2 DEF Next, Manager, DeviceReads, DeviceProduces, Break, ManagerConnects,
       ManagerLosesConnection, ManagerSendsCommand, ManagerPings, ManagerReads, UserPosts,
       UserDeletes, Proc!RemoveTriggerBurst, vars, procVars
  <2>2. \A ps, t : TagsFit(ps, t) => TagsFit(ps, t)' BY DisturbedGrows, TagsLast
  <2>3. QED BY <2>1, <2>2 DEF PacketsAreOwn, Open
<1>3. QED BY <1>1, <1>2

(* Every packet in a burst was sent by the device in that burst, or belongs   *)
(* to the stream that a mode command lets in between: however far the event *)
(* loop is behind the device task, whatever switches mode, and however often *)
(* the link breaks in one burst and returns in another.  Only where single  *)
(* frames are lost can a burst hold packets of another, and only of one that *)
(* lost a frame itself or was disturbed otherwise.  The gateway's label is  *)
(* always that of the burst (device_communication.rs:522-529,              *)
(* data_processing.rs:248, app.c:311-333).                                 *)
THEOREM PacketsMatchTheirBurst == Spec => []BurstPacketsMatchTrigger
<1>1. Init => Past /\ Undisturbed /\ Ended /\ (~Lossy => OwnCarriers) /\ PacketsAreOwn
  <2>1. Init => PacketsAreOwn BY DEF Init, Proc!ProcInit, PacketsAreOwn, Open
  <2>2. QED BY <2>1, UndisturbedInit, EndedInit, CarriersInit
<1>2. Types /\ LinkInv /\ Ordered /\ Past /\ Undisturbed /\ Ended /\ (~Lossy => OwnCarriers)
        /\ PacketsAreOwn /\ [Next]_vars
      => Past' /\ Undisturbed' /\ Ended' /\ (~Lossy => OwnCarriers)' /\ PacketsAreOwn'
  BY PastStep, UndisturbedStep, EndedStep, CarriersStep, TagsStep
<1>3. PacketsFit /\ PacketsAreOwn => BurstPacketsMatchTrigger
  BY DEF PacketsFit, Own, PacketsAreOwn, TagsFit, TagFits, OwnPacket, Open, BurstPacketsMatchTrigger
<1>4. QED BY <1>1, <1>2, <1>3, PacketsHold, TypesHold, LinkHolds, OrderHolds, PTL DEF Spec

=============================================================================

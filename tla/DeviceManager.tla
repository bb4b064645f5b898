--------------------------- MODULE DeviceManager ---------------------------
(***************************************************************************)
(* The gateway's device task, data-gateway/src/device_communication.rs: it *)
(* connects, turns commands of the web server into frames, labels the data *)
(* packets that come back, and reports everything on the event channel.    *)
(* Frames stand for the bytes that carry them: ProtocolParser is not       *)
(* modelled here.                                                          *)
(***************************************************************************)
EXTENDS Naturals, Sequences

CONSTANT NoTrigger   (* current_trigger = None                               *)

VARIABLES
  connected,         (* connection.is_some(), and status.connected           *)
  trigger_active,
  current_trigger,   (* the timestamp of the last TriggerEvent, or NoTrigger  *)
  command_rx,        (* commands posted by the web server                    *)
  down,              (* frames on their way to the device                    *)
  events             (* the unbounded event channel to main.rs               *)

managerVars == <<connected, trigger_active, current_trigger, command_rx, down, events>>

DeviceCommands ==
  {"Ping", "GetDeviceInfo", "SetModeContinuous", "SetModeTrigger", "StartStream",
   "StopStream", "RequestBufferedData", "DisableChannels", "EnableChannels"}

(* What send_command puts on the wire for each command.                       *)
CommandFrame(c, ids) ==
  CASE c = "Ping"                -> [name |-> "PING"]
    [] c = "GetDeviceInfo"       -> [name |-> "GET_DEVICE_INFO"]
    [] c = "SetModeContinuous"   -> [name |-> "SET_MODE_CONTINUOUS"]
    [] c = "SetModeTrigger"      -> [name |-> "SET_MODE_TRIGGER"]
    [] c = "StartStream"         -> [name |-> "START_STREAM"]
    [] c = "StopStream"          -> [name |-> "STOP_STREAM"]
    [] c = "RequestBufferedData" -> [name |-> "REQUEST_BUFFERED_DATA"]
    [] c = "DisableChannels"     -> [name |-> "CONFIGURE_STREAM", on |-> {}, off |-> ids]
    [] c = "EnableChannels"      -> [name |-> "CONFIGURE_STREAM", on |-> ids, off |-> {}]

Report(e) == events' = Append(events, e)

-----------------------------------------------------------------------------
(* try_connect has succeeded: Connected is reported, then the initial PING is *)
(* written.  Neither the labelling state nor the command queue is reset.  If *)
(* the PING cannot be written run() returns, and is called again 5 s later   *)
(* with the connection in place: the same state without the PING.            *)
Connect ==
  /\ ~connected
  /\ connected' = TRUE
  /\ Report([kind |-> "Connected"])
  /\ down' \in {Append(down, [name |-> "PING"]), down}
  /\ UNCHANGED <<trigger_active, current_trigger, command_rx>>

(* A read error or end of stream drops the connection.                       *)
ReadError ==
  /\ connected
  /\ connected' = FALSE
  /\ Report([kind |-> "Disconnected"])
  /\ UNCHANGED <<trigger_active, current_trigger, command_rx, down>>

(* The ping timer has expired and there was no data lately.                   *)
KeepAlive ==
  /\ connected
  /\ down' = Append(down, [name |-> "PING"])
  /\ UNCHANGED <<connected, trigger_active, current_trigger, command_rx, events>>

-----------------------------------------------------------------------------
(* handle_command: the labelling state changes when the command is written,   *)
(* not when the device acknowledges it.  written = FALSE: the write failed,  *)
(* the error is only logged.                                                 *)
Write(f, written) == down' = IF written THEN Append(down, f) ELSE down

HandleCommand(ids, written) ==
  LET c == Head(command_rx) IN
  /\ connected /\ command_rx # <<>>
  /\ command_rx' = Tail(command_rx)
  /\ trigger_active'  = (c = "SetModeTrigger" \/ (trigger_active /\ c # "SetModeContinuous"))
  /\ current_trigger' = IF c \in {"SetModeTrigger", "SetModeContinuous"}
                        THEN NoTrigger ELSE current_trigger
  /\ IF c = "RequestBufferedData" /\ ~trigger_active
       THEN UNCHANGED down
       ELSE Write(CommandFrame(c, ids), written)
  /\ UNCHANGED <<connected, events>>

-----------------------------------------------------------------------------
(* handle_frame.                                                             *)

(* The label of a data packet: the trigger seen last, while in trigger mode.  *)
(* Mutant: the label is taken without asking whether there is one.            *)
LabelledUnchecked(f) ==
  IF trigger_active
    THEN [kind |-> "DataPacket", source |-> "Trigger", trigger_timestamp |-> current_trigger, frame |-> f]
    ELSE [kind |-> "DataPacket", source |-> "Continuous", frame |-> f]

Labelled(f) ==
  IF trigger_active /\ current_trigger # NoTrigger
    THEN [kind |-> "DataPacket", source |-> "Trigger", trigger_timestamp |-> current_trigger, frame |-> f]
    ELSE [kind |-> "DataPacket", source |-> "Continuous", frame |-> f]

(* Mutant: the event is passed on but not remembered.                         *)
HandleEventForgets(f) ==
  /\ f.cmd = "EVENT_TRIGGERED"
  /\ Report([kind |-> "TriggerEvent", timestamp |-> f.of])
  /\ UNCHANGED current_trigger

HandleEvent(f) ==
  /\ f.cmd = "EVENT_TRIGGERED"
  /\ current_trigger' = f.of
  /\ Report([kind |-> "TriggerEvent", timestamp |-> f.of])

HandleData(f) ==
  /\ f.cmd = "DATA_PACKET"
  /\ Report(Labelled(f))
  /\ UNCHANGED current_trigger

(* current_trigger is kept until the next event or mode command.              *)
(* Mutant: the signal ends the labelling but is not reported.                 *)
HandleCompleteQuietly(f) ==
  /\ f.cmd = "BUFFER_TRANSFER_COMPLETE"
  /\ current_trigger' = NoTrigger
  /\ UNCHANGED events

HandleComplete(f) ==
  /\ f.cmd = "BUFFER_TRANSFER_COMPLETE"
  /\ Report([kind |-> "BufferTransferComplete", frame |-> f])
  /\ UNCHANGED current_trigger

HandleStatus(f) ==
  /\ f.cmd \in {"PONG", "DEVICE_INFO_RESPONSE"}
  /\ Report([kind |-> "StatusUpdate"])
  /\ UNCHANGED current_trigger

(* ACK, NACK and STATUS_RESPONSE leave nothing but log lines.                 *)
HandleOther(f) ==
  /\ f.cmd \in {"ACK", "NACK", "STATUS_RESPONSE"}
  /\ UNCHANGED <<current_trigger, events>>

HandleFrame(f) ==
  /\ connected
  /\ \/ HandleEvent(f)
     \/ HandleData(f)
     \/ HandleComplete(f)
     \/ HandleStatus(f)
     \/ HandleOther(f)
  /\ UNCHANGED <<connected, trigger_active, command_rx, down>>

ManagerInit ==
  /\ connected = FALSE /\ trigger_active = FALSE /\ current_trigger = NoTrigger
  /\ command_rx = <<>> /\ down = <<>> /\ events = <<>>

=============================================================================

------------------------------ MODULE DeviceApp ------------------------------
(***************************************************************************)
(* The application layer of the acquisition device, device-simulator/app.c: *)
(* how each command changes the device, what the periodic task does, and   *)
(* the frames each of them hands to the transmit side.  Time is a parameter *)
(* here ("is the timer due?") and the transmit side is missing: BurstSource *)
(* adds a plain outgoing stream, TriggerDevice the clock, the transmit ring *)
(* and the main loop.                                                      *)
(*                                                                         *)
(* The millisecond stamp that identifies a burst is represented by its     *)
(* ordinal modulo StampMod: two bursts never start in one millisecond.     *)
(***************************************************************************)
EXTENDS Naturals, Sequences

CONSTANTS
  Channels,      (* the channel ids below num_channels                       *)
  PacketCounts,  (* the lengths a burst may have, 5..10 in the code          *)
  StampMod       (* how many burst stamps are told apart                     *)

ASSUME PacketCountsAssumption == PacketCounts \subseteq Nat \ {0}
ASSUME StampModAssumption     == StampMod \in Nat \ {0}

VARIABLES
  mode, status,                  (* g_app.mode, g_app.status                 *)
  channels,                      (* the ids with channels[i].enabled set     *)
  armed, occurred, sending,      (* g_app.trigger.{armed, occurred, sending} *)
  timestamp,                     (* g_app.trigger.timestamp, as an ordinal   *)
  packets_to_send, packets_sent, (* g_app.trigger.packets_{to_send, sent}    *)
  last                           (* history: the last self-initiated frame   *)

trigger == <<armed, occurred, sending, timestamp, packets_to_send, packets_sent>>
appVars == <<mode, status, channels, trigger, last>>

-----------------------------------------------------------------------------
(* Frames.  A data frame of a burst carries the burst's stamp and its own     *)
(* position; one of the continuous stream carries stamp 0.  The fields of a  *)
(* COMPLETE frame, which has no payload in the code, serve the properties.   *)

Stamps    == 1..StampMod
Replies   == {"PONG", "STATUS_RESPONSE", "DEVICE_INFO_RESPONSE", "ACK", "NACK"}

NoFrame          == [cmd |-> "NONE"]
ReplyFrame(r)    == [cmd |-> r]
EventFrame(t)    == [cmd |-> "EVENT_TRIGGERED", of |-> t]
DataFrame(t, n)  == [cmd |-> "DATA_PACKET", of |-> t, n |-> n, mask |-> channels]
CompleteFrame(t) == [cmd |-> "BUFFER_TRANSFER_COMPLETE", of |-> t, n |-> packets_to_send]

StreamFrame ==
       [cmd : {"EVENT_TRIGGERED"}, of : Stamps]
  \cup [cmd : {"DATA_PACKET"}, of : Stamps \cup {0}, n : Nat, mask : SUBSET Channels]
  \cup [cmd : {"BUFFER_TRANSFER_COMPLETE"}, of : Stamps \cup {0}, n : Nat]

Frame == [cmd : Replies] \cup StreamFrame

-----------------------------------------------------------------------------
(* app_handle_command.  A command is a record; CONFIGURE_STREAM carries the  *)
(* ids it enables (rate > 0) and the ids it disables, and ids the device     *)
(* does not have are skipped.  Every command is answered by exactly one      *)
(* frame, ReplyTo(c).                                                        *)

CommandNames ==
  {"PING", "GET_STATUS", "GET_DEVICE_INFO", "SET_MODE_CONTINUOUS", "SET_MODE_TRIGGER",
   "START_STREAM", "STOP_STREAM", "CONFIGURE_STREAM", "CONFIGURE_EMPTY",
   "REQUEST_BUFFERED_DATA", "UNKNOWN"}

ConfigureCommand(enable, disable) ==
  [name |-> "CONFIGURE_STREAM", on |-> enable, off |-> disable]

ReplyTo(c) ==
  ReplyFrame(
    CASE c.name = "PING"                  -> "PONG"
      [] c.name = "GET_STATUS"            -> "STATUS_RESPONSE"
      [] c.name = "GET_DEVICE_INFO"       -> "DEVICE_INFO_RESPONSE"
      [] c.name = "REQUEST_BUFFERED_DATA" -> IF mode = "TRIGGER" /\ occurred THEN "ACK" ELSE "NACK"
      [] c.name \in {"CONFIGURE_EMPTY", "UNKNOWN"} -> "NACK"
      [] OTHER                            -> "ACK")

(* The cases of the switch that only answer.                                 *)
AnswerOnly(c) ==
  /\ c.name \in {"PING", "GET_STATUS", "GET_DEVICE_INFO", "REQUEST_BUFFERED_DATA",
                 "CONFIGURE_EMPTY", "UNKNOWN"}
  /\ UNCHANGED appVars

SetModeContinuous(c) ==
  /\ c.name = "SET_MODE_CONTINUOUS"
  /\ mode'  = "CONTINUOUS"
  /\ armed' = FALSE
  /\ UNCHANGED <<status, channels, occurred, sending, timestamp, packets_to_send, packets_sent, last>>

(* Mutant: the burst under way is not cancelled.                              *)
SetModeTriggerKeepsSending(c) ==
  /\ c.name = "SET_MODE_TRIGGER"
  /\ mode' = "TRIGGER" /\ armed' = TRUE /\ occurred' = FALSE
  /\ UNCHANGED <<status, channels, sending, timestamp, packets_to_send, packets_sent, last>>

(* Mutant: a running device keeps its mode, and answers ACK all the same.      *)
SetModeTriggerWhenStopped(c) ==
  /\ c.name = "SET_MODE_TRIGGER"
  /\ IF status = "RUNNING"
       THEN UNCHANGED appVars
       ELSE /\ mode' = "TRIGGER" /\ armed' = TRUE /\ occurred' = FALSE /\ sending' = FALSE
            /\ UNCHANGED <<status, channels, timestamp, packets_to_send, packets_sent, last>>

SetModeTrigger(c) ==
  /\ c.name = "SET_MODE_TRIGGER"
  /\ mode'     = "TRIGGER"
  /\ armed'    = TRUE
  /\ occurred' = FALSE
  /\ sending'  = FALSE
  /\ UNCHANGED <<status, channels, timestamp, packets_to_send, packets_sent, last>>

StartStream(c) ==
  /\ c.name = "START_STREAM"
  /\ status' = "RUNNING"
  /\ UNCHANGED <<mode, channels, trigger, last>>

StopStream(c) ==
  /\ c.name = "STOP_STREAM"
  /\ status'  = "STOPPED"
  /\ sending' = FALSE
  /\ UNCHANGED <<mode, channels, armed, occurred, timestamp, packets_to_send, packets_sent, last>>

ConfigureStream(c) ==
  /\ c.name = "CONFIGURE_STREAM"
  /\ channels' = (channels \cup (c.on \cap Channels)) \ c.off
  /\ UNCHANGED <<mode, status, trigger, last>>

HandleCommand(c) ==
  \/ AnswerOnly(c)
  \/ SetModeContinuous(c)
  \/ SetModeTrigger(c)
  \/ StartStream(c)
  \/ StopStream(c)
  \/ ConfigureStream(c)

-----------------------------------------------------------------------------
(* app_periodic_task: one action for each path that does something, with the *)
(* frames it queues.  sendDue: 10 ms have passed since the last data packet. *)

Listening == status = "RUNNING" /\ mode = "TRIGGER"
NextStamp == (timestamp % StampMod) + 1

(* The trigger fires.  The same call goes on to the data phase, so the first *)
(* packet of the burst is queued together with the event if it is due.       *)
FireFrames(sendDue) ==
  IF sendDue THEN <<EventFrame(NextStamp), DataFrame(NextStamp, 1)>>
             ELSE <<EventFrame(NextStamp)>>

FireEvent(sendDue, count) ==
  /\ Listening /\ armed /\ ~occurred
  /\ occurred'        = TRUE
  /\ sending'         = TRUE
  /\ timestamp'       = NextStamp
  /\ packets_to_send' = count
  /\ packets_sent'    = Len(FireFrames(sendDue)) - 1
  /\ last'            = FireFrames(sendDue)[Len(FireFrames(sendDue))]
  /\ UNCHANGED <<mode, status, channels, armed>>

BurstFrame == DataFrame(timestamp, packets_sent + 1)

SendBurstPacket ==
  /\ Listening /\ sending
  /\ packets_sent < packets_to_send
  /\ packets_sent' = packets_sent + 1
  /\ last' = BurstFrame
  /\ UNCHANGED <<mode, status, channels, armed, occurred, sending, timestamp, packets_to_send>>

(* Mutants: the completion signal one packet early; sending left set; the     *)
(* trigger disarmed by its own burst.                                        *)
CompleteBurstEarly ==
  /\ Listening /\ sending
  /\ packets_sent + 1 >= packets_to_send
  /\ sending' = FALSE /\ occurred' = FALSE
  /\ last' = CompleteFrame(timestamp)
  /\ UNCHANGED <<mode, status, channels, armed, timestamp, packets_to_send, packets_sent>>

CompleteBurstKeepsSending ==
  /\ Listening /\ sending
  /\ packets_sent >= packets_to_send
  /\ last' = CompleteFrame(timestamp)
  /\ UNCHANGED <<mode, status, channels, trigger>>

CompleteBurstDisarms ==
  /\ Listening /\ sending
  /\ packets_sent >= packets_to_send
  /\ sending' = FALSE /\ occurred' = FALSE /\ armed' = FALSE
  /\ last' = CompleteFrame(timestamp)
  /\ UNCHANGED <<mode, status, channels, timestamp, packets_to_send, packets_sent>>

CompleteBurst ==
  /\ Listening /\ sending
  /\ packets_sent >= packets_to_send
  /\ sending'  = FALSE
  /\ occurred' = FALSE
  /\ last' = CompleteFrame(timestamp)
  /\ UNCHANGED <<mode, status, channels, armed, timestamp, packets_to_send, packets_sent>>

SendStreamPacket ==
  /\ status = "RUNNING" /\ mode = "CONTINUOUS"
  /\ last' = DataFrame(0, 0)
  /\ UNCHANGED <<mode, status, channels, trigger>>

-----------------------------------------------------------------------------
(* app_init.                                                                 *)
AppInit ==
  /\ mode = "CONTINUOUS" /\ status = "STOPPED" /\ channels = Channels
  /\ armed = FALSE /\ occurred = FALSE /\ sending = FALSE
  /\ timestamp = 0 /\ packets_to_send = 0 /\ packets_sent = 0
  /\ last = NoFrame

AppTypeOK ==
  /\ mode \in {"CONTINUOUS", "TRIGGER"} /\ status \in {"STOPPED", "RUNNING"}
  /\ channels \subseteq Channels
  /\ armed \in BOOLEAN /\ occurred \in BOOLEAN /\ sending \in BOOLEAN
  /\ timestamp \in 0..StampMod /\ packets_to_send \in Nat /\ packets_sent \in Nat
  /\ last \in StreamFrame \cup {NoFrame}

(* While a burst is being sent in trigger mode, the last frame the device     *)
(* produced on its own is the event (nothing sent yet) or the packet of this *)
(* very burst that packets_sent counts: neither a mode switch, nor a stop and *)
(* restart, lets a foreign packet in between (app.c:202-237, 311-333).       *)
BurstUnbroken ==
  Listening /\ sending =>
    IF packets_sent = 0
      THEN last = EventFrame(timestamp)
      ELSE /\ last.cmd = "DATA_PACKET"
           /\ last.of = timestamp /\ last.n = packets_sent /\ packets_sent <= packets_to_send

(* protocol_doc.md:162: START_STREAM begins data transfer or event listening  *)
(* in the current mode.  A device that runs in trigger mode is therefore     *)
(* either waiting for the next event or sending a burst.                     *)
RunningMeansListening ==
  Listening => armed /\ (occurred => sending)

=============================================================================

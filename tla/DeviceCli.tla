------------------------------ MODULE DeviceCli ------------------------------
(***************************************************************************)
(* The command-line device simulator, device-simulator-cli: the commands and *)
(* the data generation of device_simulator.c, the loop and the life of       *)
(* main.c, and the connection of platform_abstraction.c.  It is a program of *)
(* its own beside device-simulator, with the same protocol and its own state *)
(* machine: a flag for the trigger simulation, one clock value per timer and *)
(* no transmit ring.                                                         *)
(*                                                                           *)
(* A sample is what its packet says of it: which burst or stream, which time *)
(* stamp, how many bytes.  What send() does with a frame changes nothing in  *)
(* the program: no caller of device_send_response looks at more than its     *)
(* printed result.                                                           *)
(***************************************************************************)
EXTENDS Naturals, Sequences, SequencesExt, FiniteSets

CONSTANTS
  Channels,      (* the ids below num_channels                               *)
  MaxRate,       (* max_sample_rate_hz, as a class of rates                  *)
  Formats,       (* what supported_formats_mask accepts, 0 among them         *)
  PacketCounts,  (* 5 + rand() % 6                                           *)
  Delays,        (* 10 to 15 seconds                                         *)
  ClockMod,      (* GetTickCount counts modulo this                          *)
  ClockWraps,    (* FALSE: the run ends before the clock wraps               *)
  MaxPass,       (* the longest time between two passes of the loop          *)
  Requests       (* the commands the peer may send                           *)

(* At least five packets; the clock starts at 1 and has 32 bits.              *)
ASSUME BurstAssumption == PacketCounts \subseteq Nat \ {0}
ASSUME ClockAssumption == ClockMod \in Nat \ {0, 1} /\ MaxPass \in Nat

VARIABLES
  pc,                                 (* where the program is                 *)
  closed,                             (* the peer has closed the connection   *)
  mode, stream_status, enabled,       (* g_device_state, enabled as a set     *)
  trigger_simulation_active, trigger_event_sent, trigger_data_active,
  trigger_occurred, to_send, sent,    (* trigger_data_packets_{to_send, sent} *)
  timestamp_ms, next_trigger_time,
  last_data_time, last_packet_time,   (* the static variables of the timers   *)
  now,                                (* PLATFORM_TICK                        *)
  wrapped,   (* history: the clock has wrapped                                *)
  log,       (* history: the frames sent unasked since the last event         *)
  planned,   (* history: the length announced for that burst                  *)
  stamp,     (* history: the stamp of the last stream packet                  *)
  waited,    (* history: for how long the next trigger has been scheduled, up *)
             (* to the shortest delay                                         *)
  off,       (* history: the ids last configured with rate 0                  *)
  owed       (* history: a REQUEST was acknowledged and nothing came of it    *)

conf    == <<mode, stream_status, enabled>>
trigger == <<trigger_simulation_active, trigger_event_sent, trigger_data_active,
             trigger_occurred, to_send, sent, next_trigger_time>>
clock   == <<now, wrapped, last_data_time, last_packet_time, timestamp_ms>>
history == <<log, planned, stamp, waited, off, owed>>
vars    == <<pc, closed, conf, trigger, clock, history>>

(* Mutant: a clock wider than the values it is compared with.                  *)
WrapNever(t) == t
Wrap(t)      == t % ClockMod
Shortest     == CHOOSE d \in Delays : \A e \in Delays : d <= e
Unasked(l, f) == IF f = "STREAM" /\ l # <<>> /\ Last(l) = f THEN l ELSE Append(l, f)

-----------------------------------------------------------------------------
(* device_init; device_start_communication waits for one peer, for good.      *)
Init ==
  /\ pc = "boot" /\ closed = FALSE
  /\ mode = "CONTINUOUS" /\ stream_status = "STOPPED" /\ enabled = {}
  /\ trigger_simulation_active = FALSE /\ trigger_event_sent = FALSE
  /\ trigger_data_active = FALSE /\ trigger_occurred = FALSE
  /\ to_send = 0 /\ sent = 0 /\ next_trigger_time = 0
  /\ timestamp_ms = 0 /\ last_data_time = 0 /\ last_packet_time = 0 /\ now = 1 /\ wrapped = FALSE
  /\ log = <<>> /\ planned = 0 /\ stamp = 0 /\ waited = 0 /\ off = {} /\ owed = FALSE

Start ==
  /\ pc = "boot"
  /\ \/ pc' = "rx" /\ timestamp_ms' = now
     \/ pc' = "ended" /\ UNCHANGED timestamp_ms
  /\ UNCHANGED <<closed, conf, trigger, now, wrapped, last_data_time, last_packet_time, history>>

-----------------------------------------------------------------------------
(* device_schedule_next_trigger at time t, when the simulation is active.     *)
(* Mutant: the burst under way stays active.                                  *)
ScheduleKeepsActive(t) ==
  /\ \E d \in Delays : next_trigger_time' = Wrap(t + d)
  /\ to_send' \in PacketCounts
  /\ trigger_event_sent' = FALSE /\ trigger_data_active' = trigger_data_active /\ sent' = 0

Schedule(t) ==
  /\ \E d \in Delays : next_trigger_time' = Wrap(t + d)
  /\ to_send' \in PacketCounts
  /\ trigger_event_sent' = FALSE /\ trigger_data_active' = FALSE /\ sent' = 0

-----------------------------------------------------------------------------
(* device_process_command.                                                   *)
AnswerOnly(c) ==
  /\ c.name \in {"PING", "GET_STATUS", "GET_DEVICE_INFO", "CONFIGURE_EMPTY", "UNKNOWN"}
  /\ UNCHANGED <<conf, trigger, timestamp_ms, history>>

SetModeContinuous(c) ==
  /\ c.name = "SET_MODE_CONTINUOUS"
  /\ mode' = "CONTINUOUS" /\ trigger_simulation_active' = FALSE
  /\ owed' = FALSE
  /\ UNCHANGED <<stream_status, enabled, trigger_event_sent, trigger_data_active, trigger_occurred,
                 to_send, sent, next_trigger_time, timestamp_ms, log, planned, stamp, waited, off>>

SetModeTrigger(c) ==
  /\ c.name = "SET_MODE_TRIGGER"
  /\ mode' = "TRIGGER" /\ trigger_occurred' = FALSE /\ trigger_simulation_active' = TRUE
  /\ Schedule(now) /\ waited' = 0
  /\ owed' = FALSE
  /\ UNCHANGED <<stream_status, enabled, timestamp_ms, log, planned, stamp, off>>

StartStream(c) ==
  /\ c.name = "START_STREAM"
  /\ stream_status' = "RUNNING" /\ timestamp_ms' = now
  /\ UNCHANGED <<mode, enabled, trigger, history>>

StopStream(c) ==
  /\ c.name = "STOP_STREAM"
  /\ stream_status' = "STOPPED" /\ trigger_simulation_active' = FALSE
  /\ owed' = FALSE
  /\ UNCHANGED <<mode, enabled, trigger_event_sent, trigger_data_active, trigger_occurred,
                 to_send, sent, next_trigger_time, timestamp_ms, log, planned, stamp, waited, off>>

(* device_validate_channel_config.  A configuration is applied entry by entry  *)
(* up to the first bad one; then the answer is NACK, and what was applied      *)
(* stays.                                                                    *)
Valid(e) == e.id \in Channels /\ e.rate <= MaxRate /\ e.format \in Formats

Accepted(entries) ==
  LET bad == SelectInSeq(entries, LAMBDA e : ~Valid(e))
  IN  IF bad = 0 THEN entries ELSE SubSeq(entries, 1, bad - 1)

Applied(entries) ==
  FoldLeft(LAMBDA on, e : IF e.rate > 0 THEN on \cup {e.id} ELSE on \ {e.id}, enabled, Accepted(entries))

ConfigureStream(c) ==
  /\ c.name = "CONFIGURE_STREAM"
  /\ enabled' = Applied(c.entries)
  /\ off' = (off \cup {e.id : e \in ToSet(Accepted(c.entries))}) \ Applied(c.entries)
  /\ UNCHANGED <<mode, stream_status, trigger, timestamp_ms, log, planned, stamp, waited, owed>>

(* Nothing is sent on request: "this will be handled by trigger simulation".  *)
RequestBufferedData(c) ==
  /\ c.name = "REQUEST_BUFFERED_DATA"
  /\ owed' = (owed \/ (mode = "TRIGGER" /\ trigger_occurred))
  /\ UNCHANGED <<conf, trigger, timestamp_ms, log, planned, stamp, waited, off>>

ProcessCommand(c) ==
  /\ pc = "rx" /\ ~closed
  /\ \/ AnswerOnly(c) \/ SetModeContinuous(c) \/ SetModeTrigger(c) \/ StartStream(c)
     \/ StopStream(c) \/ ConfigureStream(c) \/ RequestBufferedData(c)
  /\ UNCHANGED <<pc, closed, now, wrapped, last_data_time, last_packet_time>>

PeerCloses ==
  /\ pc = "rx" /\ ~closed /\ closed' = TRUE
  /\ UNCHANGED <<pc, conf, trigger, clock, history>>

(* Mutant: an orderly close reads as "no data".                              *)
ReceiveIgnoresClose ==
  /\ pc = "rx" /\ pc' = "work"
  /\ UNCHANGED <<closed, conf, trigger, clock, history>>

(* platform_receive_data is empty, or reports the end: the loop breaks, and    *)
(* device_cleanup ends the program.                                          *)
Receive ==
  /\ pc = "rx"
  /\ pc' = IF closed THEN "ended" ELSE "work"
  /\ UNCHANGED <<closed, conf, trigger, clock, history>>

-----------------------------------------------------------------------------
(* The loop after a read: PLATFORM_SLEEP, and time goes by.                   *)
Sleep(t, d) ==
  /\ ClockWraps \/ t + d < ClockMod
  /\ now' = Wrap(t + d) /\ wrapped' = (wrapped \/ t + d >= ClockMod)

Later(d) == IF waited + d < Shortest THEN waited + d ELSE Shortest

DataDue == now # last_data_time

Rest ==
  /\ pc = "work" /\ (stream_status = "STOPPED" \/ ~DataDue)
  /\ \E d \in 0..MaxPass : Sleep(now, d) /\ waited' = Later(d)
  /\ pc' = "rx"
  /\ UNCHANGED <<closed, conf, trigger, last_data_time, last_packet_time, timestamp_ms,
                 log, planned, stamp, off, owed>>

(* Without a configured channel all are switched on.                          *)
AutoEnabled == IF enabled = {} THEN Channels ELSE enabled

(* Mutant: the stamp counts two milliseconds a packet.                         *)
GenerateDataPacketTwice ==
  /\ pc = "work" /\ stream_status = "RUNNING" /\ mode = "CONTINUOUS" /\ DataDue
  /\ enabled' = AutoEnabled
  /\ stamp' = timestamp_ms /\ timestamp_ms' = Wrap(timestamp_ms + 2)
  /\ log' = Unasked(log, "STREAM")
  /\ last_data_time' = now
  /\ \E d \in 0..MaxPass : Sleep(now, d) /\ waited' = Later(d)
  /\ pc' = "rx"
  /\ UNCHANGED <<closed, mode, stream_status, trigger, last_packet_time, planned, off, owed>>

(* device_generate_data_packet: the stamp counts packets, one millisecond each. *)
GenerateDataPacket ==
  /\ pc = "work" /\ stream_status = "RUNNING" /\ mode = "CONTINUOUS" /\ DataDue
  /\ enabled' = AutoEnabled
  /\ stamp' = timestamp_ms /\ timestamp_ms' = Wrap(timestamp_ms + 1)
  /\ log' = Unasked(log, "STREAM")
  /\ last_data_time' = now
  /\ \E d \in 0..MaxPass : Sleep(now, d) /\ waited' = Later(d)
  /\ pc' = "rx"
  /\ UNCHANGED <<closed, mode, stream_status, trigger, last_packet_time, planned, off, owed>>

(* device_generate_trigger_data_packet: 2000 samples per channel, or 5000 when  *)
(* it had to enable the channels itself, into payload[8192].                   *)
PacketBytes == 8 + 2 * Cardinality(AutoEnabled) * (IF enabled = {} THEN 5000 ELSE 2000)
PacketFits  == PacketBytes <= 8192

(* device_handle_trigger_simulation reads the clock again.  In one call it may  *)
(* send the event and a packet, a packet that is due, and the completion.      *)
Fires(t) == t >= next_trigger_time /\ ~trigger_event_sent

FireFrames(t)  == IF Fires(t) THEN <<"EVENT", "BURST">> ELSE <<>>
SentByEvent(t) == IF Fires(t) THEN 1 ELSE sent
PacketDue(t)   == (trigger_data_active \/ Fires(t)) /\ SentByEvent(t) < to_send /\ t # last_packet_time
SentNow(t)     == IF PacketDue(t) THEN SentByEvent(t) + 1 ELSE SentByEvent(t)

(* Mutant: a packet is missing at the comparison.                              *)
CompletesLate(t) == (trigger_data_active \/ Fires(t)) /\ SentNow(t) > to_send
Completes(t)   == (trigger_data_active \/ Fires(t)) /\ SentNow(t) >= to_send

NewFrames(t) == FireFrames(t) \o (IF PacketDue(t) THEN <<"BURST">> ELSE <<>>)
                              \o (IF Completes(t) THEN <<"COMPLETE">> ELSE <<>>)

Simulate(t) ==
  /\ enabled' = IF Fires(t) \/ PacketDue(t) THEN AutoEnabled ELSE enabled
  /\ last_packet_time' = IF PacketDue(t) THEN t ELSE last_packet_time
  /\ log'     = IF Fires(t) THEN NewFrames(t) ELSE log \o NewFrames(t)
  /\ planned' = IF Fires(t) THEN to_send ELSE planned
  /\ owed'    = (owed /\ ~Completes(t))
  /\ IF Completes(t)
       THEN Schedule(t) /\ trigger_occurred' = FALSE
       ELSE /\ sent' = SentNow(t)
            /\ trigger_event_sent'  = (trigger_event_sent \/ Fires(t))
            /\ trigger_data_active' = (trigger_data_active \/ Fires(t))
            /\ trigger_occurred'    = (trigger_occurred \/ Fires(t))
            /\ UNCHANGED <<to_send, next_trigger_time>>

HandleTriggerSimulation ==
  /\ pc = "work" /\ stream_status = "RUNNING" /\ mode = "TRIGGER" /\ DataDue
  /\ trigger_simulation_active
  /\ last_data_time' = now
  /\ \E e \in 0..1, d \in 0..MaxPass :
       /\ ClockWraps \/ now + e < ClockMod
       /\ Sleep(now + e, d)
       /\ LET t == Wrap(now + e) IN
            /\ Simulate(t)
            /\ waited' = IF Completes(t) THEN 0 ELSE Later(e + d)
            /\ pc' = IF (Fires(t) \/ PacketDue(t)) /\ ~PacketFits THEN "undefined" ELSE "rx"
  /\ UNCHANGED <<closed, mode, stream_status, trigger_simulation_active, timestamp_ms, stamp, off>>

(* The simulation is off: the call returns at once.                           *)
HandleNothing ==
  /\ pc = "work" /\ stream_status = "RUNNING" /\ mode = "TRIGGER" /\ DataDue
  /\ ~trigger_simulation_active
  /\ last_data_time' = now
  /\ \E d \in 0..MaxPass : Sleep(now, d) /\ waited' = Later(d)
  /\ pc' = "rx"
  /\ UNCHANGED <<closed, conf, trigger, last_packet_time, timestamp_ms, log, planned, stamp, off, owed>>

Loop == Start \/ Receive \/ Rest \/ GenerateDataPacket \/ HandleTriggerSimulation \/ HandleNothing

Next == Loop \/ PeerCloses \/ \E c \in Requests : ProcessCommand(c)

Spec == Init /\ [][Next]_vars

(* The loop goes on and the clock does not stand still.                        *)
LiveSpec == Spec /\ WF_vars(Loop) /\ SF_vars(Loop /\ now' # now)

-----------------------------------------------------------------------------
TypeOK ==
  /\ pc \in {"boot", "rx", "work", "ended", "undefined"}
  /\ mode \in {"CONTINUOUS", "TRIGGER"} /\ stream_status \in {"STOPPED", "RUNNING"}
  /\ enabled \subseteq Channels
  /\ to_send \in PacketCounts \cup {0} /\ sent \in 0..to_send
  /\ \A t \in {now, next_trigger_time, timestamp_ms, last_data_time, last_packet_time} :
       t \in 0..(ClockMod - 1)

(* A completion closes a burst of which nothing is missing and into which        *)
(* nothing was mixed, whatever commands came: event, planned packets, end.    *)
ClosedBurstsWhole ==
  log # <<>> /\ Last(log) = "COMPLETE" =>
    log = <<"EVENT">> \o [i \in 1..planned |-> "BURST"] \o <<"COMPLETE">>

(* Until the clock wraps, the stamps of the stream never go back, although they   *)
(* count packets and each START sets them by the clock: a packet a millisecond is *)
(* the most.                                                                 *)
StampsAdvance == [][~wrapped' => stamp' >= stamp]_vars

(* A burst that has begun is completed, unless a command ends it.              *)
InBurst   == trigger_data_active /\ trigger_simulation_active /\ stream_status = "RUNNING"
BurstEnds == InBurst ~> ~InBurst \/ pc \in {"ended", "undefined"}

(* One program, one connection: when the peer has closed it, the program ends.  *)
ClosedEnds == closed ~> pc = "ended"

(* Neither of the two lasts for ever. *)
Hanging == (InBurst /\ pc \notin {"ended", "undefined"}) \/ (closed /\ pc # "ended")

(* protocol_doc.md:162, START_STREAM begins data transfer or event listening in  *)
(* the current mode: running in trigger mode is listening for the next event.  *)
RunningMeansListening ==
  stream_status = "RUNNING" /\ mode = "TRIGGER" => trigger_simulation_active

(* device_simulator.c:514: an interval of 10 to 15 seconds before a trigger.    *)
NeverTooSoon == [][~trigger_event_sent /\ trigger_event_sent' => waited + 1 >= Shortest]_vars

(* protocol_doc.md:174: on this request the device uploads the buffered event.   *)
(* One that is acknowledged is followed by the end of a burst, or given up.   *)
RequestedIsSent == owed ~> ~owed \/ pc \in {"ended", "undefined"}

(* device_simulator.c:444: without enabled channels the default ones are enabled *)
(* and the packet is sent; it has to fit into its buffer.                      *)
PacketInBuffer == pc # "undefined"

(* protocol_doc.md: a rate of 0 disables the channel.  A disabled channel stays   *)
(* out of the packets until it is configured again.                           *)
DisabledStaysSilent == enabled \cap off = {}

(* protocol_doc.md: timestamp_ms is the time of the packet's first sample, so at  *)
(* most one pass of the loop before the packet is made.                       *)
StampIsCurrent == [][GenerateDataPacket => now <= timestamp_ms + MaxPass]_vars
=============================================================================

---------------------------- MODULE TriggerDevice ----------------------------
(***************************************************************************)
(* The acquisition device as it runs: the application (DeviceApp) driven by *)
(* the main loop of device-simulator/main.c, with the 32-bit millisecond   *)
(* clock, the timers of app_periodic_task, the transmit ring of            *)
(* protocol/io_buffer.c (frame by frame) and the transport.  One pass of   *)
(* the loop samples the clock, handles the frames that have arrived, runs  *)
(* the periodic task with the sampled time and drains the ring.            *)
(***************************************************************************)
EXTENDS DeviceApp

CONSTANTS
  ClockMod,      (* The clock counts modulo this, 2^32 in the code           *)
  Interval,      (* DATA_SEND_INTERVAL                                       *)
  FirstDelays,   (* 5000 + rand() % 5000                                     *)
  RearmDelays,   (* 10000 + rand() % 5000                                    *)
  MaxPass,       (* the longest time one pass of the loop may take           *)
  BootTimes,     (* the clock when the program starts                        *)
  Requests,      (* the commands the peer may send                           *)
  TxCapacity,    (* TX_BUFFER_SIZE - 1, in units                             *)
  FrameUnits,    (* what a frame occupies in the ring, length prefix included *)
  WireCapacity,  (* frames the transport holds before send() blocks          *)
  SendMayFail    (* TRUE iff send() may report an error or a short write     *)

ASSUME ClockAssumption ==
  /\ ClockMod \in Nat /\ Interval \in Nat \ {0} /\ MaxPass \in Nat \ {0}
  /\ Interval + MaxPass < ClockMod
  /\ FirstDelays \subseteq Nat /\ RearmDelays \subseteq Nat
  /\ BootTimes \subseteq 0..(ClockMod - 1)

ASSUME RequestsAssumption == \A c \in Requests : c.name \in CommandNames

ASSUME RingAssumption ==
  /\ TxCapacity \in Nat /\ WireCapacity \in Nat /\ SendMayFail \in BOOLEAN

VARIABLES
  pc,                 (* the part of the main loop being executed            *)
  now,                (* the clock, as sampled at the top of the pass        *)
  start_time,         (* g_app.start_time                                    *)
  next_trigger_time,  (* g_app.trigger.next_trigger_time                     *)
  last_send,          (* g_app.last_data_send_time                           *)
  txq,                (* g_app.tx_buffer, oldest frame first                 *)
  wire,               (* frames the transport has accepted                   *)
  gap,                (* history: time since the last data packet, up to     *)
                      (* Interval                                            *)
  restarted           (* history: no data packet since the last START        *)

clockVars == <<now, start_time, next_trigger_time, last_send, gap, restarted>>
devVars   == <<appVars, pc, clockVars, txq, wire>>

-----------------------------------------------------------------------------
(* Time.  a - b on uint32_t, and the two tests of app_periodic_task: the send *)
(* timer subtracts first, the trigger timer compares two clock values.       *)

(* Mutants: the difference of two clock values taken without regard to the    *)
(* wrap; a clock that is wider than the values it is compared with.          *)
ElapsedAbsolute(t, since) == IF t >= since THEN t - since ELSE since - t
WrapNever(t) == t

Elapsed(t, since) == IF t >= since THEN t - since ELSE t + ClockMod - since
Wrap(t)           == t % ClockMod

SendDue    == Elapsed(now, last_send) >= Interval
TriggerDue == now >= next_trigger_time

-----------------------------------------------------------------------------
(* The transmit ring.  enqueueTxFrame takes a frame only if it fits whole,    *)
(* and its callers carry on either way.                                      *)

Used(q) == LET units[i \in 0..Len(q)] == IF i = 0 THEN 0 ELSE units[i - 1] + FrameUnits[q[i].cmd]
           IN  units[Len(q)]

(* Mutant: a full ring makes room by dropping its oldest frame.               *)
EnqueueOverwriting(q, f) ==
  IF Used(q) + FrameUnits[f.cmd] <= TxCapacity \/ q = <<>> THEN Append(q, f) ELSE Append(Tail(q), f)

Enqueue(q, f) == IF Used(q) + FrameUnits[f.cmd] <= TxCapacity THEN Append(q, f) ELSE q

EnqueueAll(q, fs) ==
  IF Len(fs) = 1 THEN Enqueue(q, fs[1]) ELSE Enqueue(Enqueue(q, fs[1]), fs[2])

-----------------------------------------------------------------------------
(* Top of the pass: sleep_ms(1) and whatever the previous pass took have gone *)
(* by; get_time_ms samples the clock once for the whole pass.                *)
LoopTop ==
  /\ pc = "top"
  /\ \E d \in 1..MaxPass :
       /\ now' = Wrap(now + d)
       /\ gap' = IF gap + d < Interval THEN gap + d ELSE Interval
  /\ pc' = "rx"
  /\ UNCHANGED <<appVars, start_time, next_trigger_time, last_send, restarted, txq, wire>>

(* app_process_rx_buffer hands every complete frame to app_handle_command.    *)
(* The first trigger is scheduled relative to start_time.                    *)
RxCommand(c) ==
  /\ pc = "rx"
  /\ HandleCommand(c)
  /\ IF c.name = "SET_MODE_TRIGGER"
       THEN \E d \in FirstDelays : next_trigger_time' = Wrap(start_time + d)
       ELSE UNCHANGED next_trigger_time
  /\ IF c.name = "START_STREAM"
       THEN last_send' = 0 /\ restarted' = TRUE
       ELSE UNCHANGED <<last_send, restarted>>
  /\ txq' = Enqueue(txq, ReplyTo(c))
  /\ UNCHANGED <<pc, now, start_time, gap, wire>>

(* No more input, or a receive error, which is only printed.                  *)
RxDone ==
  /\ pc = "rx"
  /\ pc' = "periodic"
  /\ UNCHANGED <<appVars, clockVars, txq, wire>>

-----------------------------------------------------------------------------
(* app_periodic_task(now).                                                   *)

StampStart == start_time' = IF start_time = 0 THEN now ELSE start_time

DataSent == last_send' = now /\ gap' = 0 /\ restarted' = FALSE
NoData   == UNCHANGED <<last_send, gap, restarted>>

Fires == Listening /\ armed /\ ~occurred /\ TriggerDue

PeriodicFire ==
  /\ Fires
  /\ \E count \in PacketCounts : FireEvent(SendDue, count)
  /\ txq' = EnqueueAll(txq, FireFrames(SendDue))
  /\ IF SendDue THEN DataSent ELSE NoData
  /\ UNCHANGED next_trigger_time

PeriodicPacket ==
  /\ ~Fires /\ SendDue
  /\ SendBurstPacket
  /\ txq' = Enqueue(txq, BurstFrame)
  /\ DataSent
  /\ UNCHANGED next_trigger_time

PeriodicComplete ==
  /\ ~Fires /\ SendDue
  /\ CompleteBurst
  /\ txq' = Enqueue(txq, CompleteFrame(timestamp))
  /\ \E d \in RearmDelays : next_trigger_time' = Wrap(now + d)
  /\ NoData

PeriodicStream ==
  /\ SendDue
  /\ SendStreamPacket
  /\ txq' = Enqueue(txq, DataFrame(0, 0))
  /\ DataSent
  /\ UNCHANGED next_trigger_time

(* Stopped, or no timer has expired.                                         *)
PeriodicIdle ==
  /\ \/ status # "RUNNING"
     \/ Listening /\ ~Fires /\ ~(sending /\ SendDue)
     \/ mode = "CONTINUOUS" /\ ~SendDue
  /\ NoData
  /\ UNCHANGED <<appVars, txq, next_trigger_time>>

Periodic ==
  /\ pc = "periodic"
  /\ pc' = "tx"
  /\ StampStart
  /\ UNCHANGED <<now, wire>>
  /\ \/ PeriodicFire
     \/ PeriodicPacket
     \/ PeriodicComplete
     \/ PeriodicStream
     \/ PeriodicIdle

-----------------------------------------------------------------------------
(* app_process_tx_buffer: send frame by frame until the ring is empty.  A     *)
(* frame leaves the ring before it is sent, so the one whose send fails is   *)
(* gone, and the rest wait for the next pass.                                *)

TxSend ==
  /\ pc = "tx" /\ txq # <<>> /\ Len(wire) < WireCapacity
  /\ wire' = Append(wire, Head(txq))
  /\ txq'  = Tail(txq)
  /\ UNCHANGED <<appVars, pc, clockVars>>

TxFail ==
  /\ pc = "tx" /\ txq # <<>> /\ SendMayFail
  /\ txq' = Tail(txq)
  /\ pc'  = "top"
  /\ UNCHANGED <<appVars, clockVars, wire>>

TxDone ==
  /\ pc = "tx" /\ txq = <<>>
  /\ pc' = "top"
  /\ UNCHANGED <<appVars, clockVars, txq, wire>>

(* The peer takes a frame off the wire.                                      *)
PeerReads ==
  /\ wire # <<>>
  /\ wire' = Tail(wire)
  /\ UNCHANGED <<appVars, pc, clockVars, txq>>

-----------------------------------------------------------------------------
Init ==
  /\ AppInit
  /\ pc = "top"
  /\ now \in BootTimes
  /\ start_time = 0 /\ next_trigger_time = 0 /\ last_send = 0
  /\ txq = <<>> /\ wire = <<>>
  /\ gap = Interval /\ restarted = TRUE

Loop == LoopTop \/ RxDone \/ Periodic \/ TxSend \/ TxFail \/ TxDone

Next ==
  \/ Loop
  \/ \E c \in Requests : RxCommand(c)
  \/ PeerReads

Spec == Init /\ [][Next]_devVars

(* The main loop never stops, a receive call returns a bounded amount of      *)
(* data, and the peer keeps reading.  Nothing is assumed about commands.     *)
FairSpec ==
  /\ Spec
  /\ WF_devVars(LoopTop) /\ WF_devVars(RxDone) /\ WF_devVars(Periodic)
  /\ WF_devVars(TxSend) /\ WF_devVars(TxDone) /\ WF_devVars(PeerReads)

-----------------------------------------------------------------------------
TypeOK ==
  /\ AppTypeOK
  /\ pc \in {"top", "rx", "periodic", "tx"}
  /\ now \in 0..(ClockMod - 1) /\ start_time \in 0..(ClockMod - 1)
  /\ next_trigger_time \in 0..(ClockMod - 1) /\ last_send \in 0..(ClockMod - 1)
  /\ txq \in Seq(Frame) /\ wire \in Seq(Frame)
  /\ gap \in 0..Interval /\ restarted \in BOOLEAN

(* Two data packets are never less than DATA_SEND_INTERVAL apart, across the  *)
(* wrap of the 32-bit clock and across changes of mode, unless the stream    *)
(* was started in between: as long as too little time has gone by, the test  *)
(* of app.c:317 and 340 says so.                                             *)
NeverTooSoon == ~restarted /\ gap < Interval => ~SendDue

(* A completion signal is produced only right after the last packet of its    *)
(* own burst, and with all of its packets produced (app.c:316-333).          *)
CompleteAfterLastPacket ==
  [][last' # last /\ last'.cmd = "BUFFER_TRANSFER_COMPLETE"
       => /\ last.cmd = "DATA_PACKET"
          /\ last.of = last'.of
          /\ last.n = last'.n]_devVars

(* A burst under way comes to an end: it is completed, or cut off by a        *)
(* command (app.c:316-333).                                                  *)
BurstEnds == sending /\ Listening ~> ~(sending /\ Listening)

(* A pass in which the clock goes from before the trigger time past its wrap:  *)
(* app.c:301 compares the two as they are, so the trigger waits for the clock  *)
(* to come round.                                                            *)
StepsOver == LoopTop /\ now < next_trigger_time /\ now' < now

(* A device that listens fires (app.c:298-314): a trigger that waits sees its *)
(* time come, or is disturbed by a command, unless the passes step over that   *)
(* time again and again.  Nothing in the code keeps them from it: a pass lasts *)
(* usleep(1000) and whatever the socket makes the device wait.               *)
ArmedFires ==
  <>[][~StepsOver]_devVars => (Listening /\ ~occurred ~> occurred \/ ~Listening)

(* What the peer can rely on: the frames of BurstSource, some possibly lost.  *)
Source == INSTANCE BurstSource WITH
            out <- wire \o txq, link <- TRUE, Lossy <- TRUE
ImplementsSource == Source!Spec

(* app.c:215 says of the trigger time the mode command sets "current time +   *)
(* 5-10 s": once the loop has been running (start_time is set), the time a   *)
(* mode command chooses lies that far ahead of the current time.             *)
FirstTriggerIsAhead ==
  [][pc = "rx" /\ start_time # 0 /\ next_trigger_time' # next_trigger_time
       => Elapsed(next_trigger_time', now) \in FirstDelays]_devVars

=============================================================================

------------------------- MODULE TriggerDeviceProofs -------------------------
(***************************************************************************)
(* Proofs about TriggerDevice for every clock width, send interval, pass    *)
(* length, ring size and set of channels; and that it implements BurstSource. *)
(***************************************************************************)
EXTENDS TriggerDevice, SequenceTheorems, TLAPS

-----------------------------------------------------------------------------
(* Facts about the operators.                                                *)

(* The stamp after any stamp is a stamp.                                     *)
LEMMA StampRange == ASSUME NEW t \in Nat PROVE (t % StampMod) + 1 \in Stamps
BY StampModAssumption DEF Stamps

(* The clock stays below its width.                                          *)
LEMMA WrapRange == ASSUME NEW t \in Nat PROVE Wrap(t) \in 0..(ClockMod - 1)
BY ClockAssumption DEF Wrap

(* enqueueTxFrame adds the frame at the end or leaves the ring alone.         *)
LEMMA EnqueueAddsOrDrops ==
  ASSUME NEW q, NEW f
  PROVE  Enqueue(q, f) \in {q, Append(q, f)}
BY DEF Enqueue

(* A ring of frames stays one.                                               *)
LEMMA EnqueueType ==
  ASSUME NEW q \in Seq(Frame), NEW f \in Frame
  PROVE  Enqueue(q, f) \in Seq(Frame)
<1>1. Append(q, f) \in Seq(Frame) OBVIOUS
<1>2. QED BY <1>1, EnqueueAddsOrDrops

(* The frames the application builds are frames.                              *)
LEMMA FramesAreFrames ==
  ASSUME AppTypeOK
  PROVE  /\ \A c : ReplyTo(c) \in Frame
         /\ \A t \in Stamps : EventFrame(t) \in StreamFrame
         /\ \A t \in Stamps \cup {0}, n \in Nat : DataFrame(t, n) \in StreamFrame
         /\ \A t \in Stamps \cup {0} : CompleteFrame(t) \in StreamFrame
         /\ StreamFrame \subseteq Frame
         /\ timestamp \in Stamps \cup {0}
         /\ NextStamp \in Stamps
<1>1. \A c : ReplyTo(c) \in Frame
  BY DEF ReplyTo, ReplyFrame, Frame, Replies
<1>2. timestamp \in Nat /\ timestamp \in Stamps \cup {0}
  BY StampModAssumption DEF AppTypeOK, Stamps
<1>3. NextStamp \in Stamps
  BY <1>2, StampRange DEF NextStamp
<1>4. QED
  BY <1>1, <1>2, <1>3 DEF EventFrame, DataFrame, CompleteFrame, StreamFrame, Frame, AppTypeOK


-----------------------------------------------------------------------------
(* Type correctness.                                                         *)

(* The handlers of the commands keep the application well typed.              *)
LEMMA HandleCommandType ==
  ASSUME AppTypeOK, NEW c, HandleCommand(c)
  PROVE  AppTypeOK'
<1> USE DEF AppTypeOK
<1>1. CASE AnswerOnly(c)          BY <1>1 DEF AnswerOnly, appVars, trigger, StreamFrame, Stamps
<1>2. CASE SetModeContinuous(c)   BY <1>2 DEF SetModeContinuous, StreamFrame, Stamps
<1>3. CASE SetModeTrigger(c)      BY <1>3 DEF SetModeTrigger, StreamFrame, Stamps
<1>4. CASE StartStream(c)         BY <1>4 DEF StartStream, trigger, StreamFrame, Stamps
<1>5. CASE StopStream(c)          BY <1>5 DEF StopStream, StreamFrame, Stamps
<1>6. CASE ConfigureStream(c)     BY <1>6 DEF ConfigureStream, trigger, StreamFrame, Stamps
<1>7. QED BY <1>1, <1>2, <1>3, <1>4, <1>5, <1>6 DEF HandleCommand

(* So does everything the periodic task does.                                 *)
LEMMA PeriodicAppType ==
  ASSUME AppTypeOK,
         \/ \E sendDue \in BOOLEAN, count \in PacketCounts : FireEvent(sendDue, count)
         \/ SendBurstPacket
         \/ CompleteBurst
         \/ SendStreamPacket
         \/ UNCHANGED appVars
  PROVE  AppTypeOK'
<1>1. /\ \A t \in Stamps : EventFrame(t) \in StreamFrame
      /\ \A t \in Stamps \cup {0}, n \in Nat : DataFrame(t, n) \in StreamFrame
      /\ \A t \in Stamps \cup {0} : CompleteFrame(t) \in StreamFrame
      /\ timestamp \in Stamps \cup {0}
      /\ NextStamp \in Stamps
  BY FramesAreFrames
<1>2. StreamFrame' = StreamFrame BY DEF StreamFrame, Stamps
<1>3. \A t \in Stamps : t \in 0..StampMod BY StampModAssumption DEF Stamps
<1>4. ASSUME NEW sendDue \in BOOLEAN, NEW count \in PacketCounts, FireEvent(sendDue, count)
      PROVE  AppTypeOK'
  <2>1. /\ Len(FireFrames(sendDue)) - 1 \in Nat
        /\ FireFrames(sendDue)[Len(FireFrames(sendDue))] \in StreamFrame
    BY <1>1 DEF FireFrames
  <2>2. QED
    BY <1>1, <1>2, <1>3, <1>4, <2>1, PacketCountsAssumption DEF FireEvent, AppTypeOK
<1>5. CASE SendBurstPacket
  BY <1>1, <1>2, <1>5 DEF SendBurstPacket, BurstFrame, AppTypeOK
<1>6. CASE CompleteBurst
  BY <1>1, <1>2, <1>6 DEF CompleteBurst, AppTypeOK
<1>7. CASE SendStreamPacket
  BY <1>1, <1>2, <1>7 DEF SendStreamPacket, trigger, AppTypeOK
<1>8. CASE UNCHANGED appVars
  BY <1>2, <1>8 DEF appVars, trigger, AppTypeOK
<1>9. QED BY <1>4, <1>5, <1>6, <1>7, <1>8

(* Queueing the frames of a firing trigger keeps the ring well typed.        *)
LEMMA FireFramesType ==
  ASSUME AppTypeOK, NEW sendDue \in BOOLEAN, NEW q \in Seq(Frame)
  PROVE  EnqueueAll(q, FireFrames(sendDue)) \in Seq(Frame)
<1>1. EventFrame(NextStamp) \in Frame /\ DataFrame(NextStamp, 1) \in Frame
  BY FramesAreFrames
<1>2. CASE sendDue
  <2>1. EnqueueAll(q, FireFrames(sendDue))
          = Enqueue(Enqueue(q, EventFrame(NextStamp)), DataFrame(NextStamp, 1))
    BY <1>2 DEF EnqueueAll, FireFrames
  <2>2. QED BY <1>1, <2>1, EnqueueType
<1>3. CASE ~sendDue
  <2>1. EnqueueAll(q, FireFrames(sendDue)) = Enqueue(q, EventFrame(NextStamp))
    BY <1>3 DEF EnqueueAll, FireFrames
  <2>2. QED BY <1>1, <2>1, EnqueueType
<1>4. QED BY <1>2, <1>3

(* The periodic task keeps the whole device well typed.                      *)
LEMMA PeriodicType ==
  ASSUME TypeOK, Periodic
  PROVE  TypeOK'
<1> USE DEF TypeOK
<1>1. /\ pc' = "tx" /\ now' = now /\ wire' = wire
      /\ start_time' \in 0..(ClockMod - 1)
  BY DEF Periodic, StampStart
<1>2. SendDue \in BOOLEAN BY DEF SendDue
<1>3. Frame' = Frame BY DEF Frame, StreamFrame, Stamps, Replies
<1>4. /\ BurstFrame \in Frame /\ CompleteFrame(timestamp) \in Frame /\ DataFrame(0, 0) \in Frame
  <2>1. packets_sent + 1 \in Nat /\ 0 \in Nat BY DEF AppTypeOK
  <2>2. QED BY <2>1, FramesAreFrames DEF BurstFrame
<1>5. 0 \in 0..Interval /\ now + 0 \in Nat BY ClockAssumption
<1>6. CASE PeriodicFire
  <2>1. AppTypeOK' BY <1>2, <1>6, PeriodicAppType DEF PeriodicFire
  <2>2. txq' \in Seq(Frame) BY <1>2, <1>6, FireFramesType DEF PeriodicFire
  <2>3. QED BY <1>1, <1>3, <1>5, <1>6, <2>1, <2>2 DEF PeriodicFire, DataSent, NoData
<1>7. CASE PeriodicPacket
  <2>1. AppTypeOK' BY <1>7, PeriodicAppType DEF PeriodicPacket
  <2>2. txq' \in Seq(Frame) BY <1>4, <1>7, EnqueueType DEF PeriodicPacket
  <2>3. QED BY <1>1, <1>3, <1>5, <1>7, <2>1, <2>2 DEF PeriodicPacket, DataSent
<1>8. CASE PeriodicComplete
  <2>1. AppTypeOK' BY <1>8, PeriodicAppType DEF PeriodicComplete
  <2>2. txq' \in Seq(Frame) BY <1>4, <1>8, EnqueueType DEF PeriodicComplete
  <2>3. next_trigger_time' \in 0..(ClockMod - 1)
    <3>1. PICK d \in RearmDelays : next_trigger_time' = Wrap(now + d)
      BY <1>8 DEF PeriodicComplete
    <3>2. now + d \in Nat BY ClockAssumption
    <3>3. QED BY <3>1, <3>2, WrapRange
  <2>4. QED BY <1>1, <1>3, <1>8, <2>1, <2>2, <2>3 DEF PeriodicComplete, NoData
<1>9. CASE PeriodicStream
  <2>1. AppTypeOK' BY <1>9, PeriodicAppType DEF PeriodicStream
  <2>2. txq' \in Seq(Frame) BY <1>4, <1>9, EnqueueType DEF PeriodicStream
  <2>3. QED BY <1>1, <1>3, <1>5, <1>9, <2>1, <2>2 DEF PeriodicStream, DataSent
<1>10. CASE PeriodicIdle
  <2>1. AppTypeOK' BY <1>10, PeriodicAppType DEF PeriodicIdle
  <2>2. QED BY <1>1, <1>3, <1>10, <2>1 DEF PeriodicIdle, NoData
<1>11. QED BY <1>6, <1>7, <1>8, <1>9, <1>10 DEF Periodic

(* So does every step of the device.                                         *)
LEMMA TypeStep == TypeOK /\ [Next]_devVars => TypeOK'
<1> SUFFICES ASSUME TypeOK, [Next]_devVars PROVE TypeOK'
  OBVIOUS
<1>0. Frame' = Frame BY DEF Frame, StreamFrame, Stamps, Replies
<1>11. ASSUME UNCHANGED appVars PROVE AppTypeOK'
  BY <1>11, PeriodicAppType DEF TypeOK
<1>1. CASE LoopTop
  <2>1. PICK d \in 1..MaxPass :
          /\ now' = Wrap(now + d)
          /\ gap' = IF gap + d < Interval THEN gap + d ELSE Interval
    BY <1>1 DEF LoopTop
  <2>2. now + d \in Nat /\ gap' \in 0..Interval
    BY <2>1, ClockAssumption DEF TypeOK
  <2>3. now' \in 0..(ClockMod - 1) BY <2>1, <2>2, WrapRange
  <2>4. QED BY <1>0, <1>1, <1>11, <2>2, <2>3 DEF LoopTop, TypeOK
<1>2. ASSUME NEW c \in Requests, RxCommand(c) PROVE TypeOK'
  <2>1. AppTypeOK' BY <1>2, HandleCommandType DEF RxCommand, TypeOK
  <2>2. txq' \in Seq(Frame)
    <3>1. ReplyTo(c) \in Frame BY FramesAreFrames DEF TypeOK
    <3>2. QED BY <1>2, <3>1, EnqueueType DEF RxCommand, TypeOK
  <2>3. next_trigger_time' \in 0..(ClockMod - 1)
    <3>1. CASE c.name = "SET_MODE_TRIGGER"
      <4>1. PICK d \in FirstDelays : next_trigger_time' = Wrap(start_time + d)
        BY <1>2, <3>1 DEF RxCommand
      <4>2. start_time + d \in Nat BY ClockAssumption DEF TypeOK
      <4>3. QED BY <4>1, <4>2, WrapRange
    <3>2. CASE c.name # "SET_MODE_TRIGGER" BY <1>2, <3>2 DEF RxCommand, TypeOK
    <3>3. QED BY <3>1, <3>2
  <2>4. last_send' \in 0..(ClockMod - 1) /\ restarted' \in BOOLEAN
    <3>1. 0 \in 0..(ClockMod - 1) BY ClockAssumption
    <3>2. CASE c.name = "START_STREAM" BY <1>2, <3>1, <3>2 DEF RxCommand
    <3>3. CASE c.name # "START_STREAM" BY <1>2, <3>3 DEF RxCommand, TypeOK
    <3>4. QED BY <3>2, <3>3
  <2>5. QED BY <1>0, <1>2, <2>1, <2>2, <2>3, <2>4 DEF RxCommand, TypeOK
<1>3. CASE RxDone   BY <1>0, <1>3, <1>11 DEF RxDone, clockVars, TypeOK
<1>4. CASE Periodic BY <1>4, PeriodicType
<1>5. CASE TxSend
  <2>1. txq' \in Seq(Frame) /\ wire' \in Seq(Frame)
    BY <1>5 DEF TxSend, TypeOK
  <2>2. QED BY <1>0, <1>5, <1>11, <2>1 DEF TxSend, clockVars, TypeOK
<1>6. CASE TxFail
  <2>1. txq' \in Seq(Frame) BY <1>6 DEF TxFail, TypeOK
  <2>2. QED BY <1>0, <1>6, <1>11, <2>1 DEF TxFail, clockVars, TypeOK
<1>7. CASE TxDone   BY <1>0, <1>7, <1>11 DEF TxDone, clockVars, TypeOK
<1>8. CASE PeerReads
  <2>1. wire' \in Seq(Frame) BY <1>8 DEF PeerReads, TypeOK
  <2>2. QED BY <1>0, <1>8, <1>11, <2>1 DEF PeerReads, clockVars, TypeOK
<1>9. CASE UNCHANGED devVars
  BY <1>0, <1>9, <1>11 DEF devVars, clockVars, TypeOK
<1>10. QED
  BY <1>1, <1>2, <1>3, <1>4, <1>5, <1>6, <1>7, <1>8, <1>9 DEF Next, Loop

(* The device starts well typed.                                             *)
LEMMA TypeInit == Init => TypeOK
<1> SUFFICES ASSUME Init PROVE TypeOK
  OBVIOUS
<1>1. AppTypeOK
  <2>1. 0 \in 0..StampMod /\ 0 \in Nat BY StampModAssumption
  <2>2. armed \in BOOLEAN /\ occurred \in BOOLEAN /\ sending \in BOOLEAN
    BY DEF Init, AppInit
  <2>3. last \in StreamFrame \cup {NoFrame} BY DEF Init, AppInit
  <2>4. mode \in {"CONTINUOUS", "TRIGGER"} /\ status \in {"STOPPED", "RUNNING"}
        /\ channels \subseteq Channels
    BY DEF Init, AppInit
  <2>5. QED BY <2>1, <2>2, <2>3, <2>4 DEF Init, AppInit, AppTypeOK
<1>2. BootTimes \subseteq 0..(ClockMod - 1) /\ 0 \in 0..(ClockMod - 1) /\ Interval \in 0..Interval
  BY ClockAssumption
<1>3. QED BY <1>1, <1>2 DEF Init, TypeOK

(* Every state of the device is well typed, whatever the constants are.       *)
THEOREM TypeCorrect == Spec => []TypeOK
BY TypeInit, TypeStep, PTL DEF Spec

-----------------------------------------------------------------------------
(* What a step of the device does to the application.                        *)

AppStep ==
  \/ \E c \in Requests : HandleCommand(c)
  \/ \E sendDue \in BOOLEAN, count \in PacketCounts : FireEvent(sendDue, count)
  \/ SendBurstPacket
  \/ CompleteBurst
  \/ SendStreamPacket
  \/ UNCHANGED appVars

(* The clock, the ring and the transport never touch the application.         *)
LEMMA StepsAreAppSteps == [Next]_devVars => AppStep
<1> SUFFICES ASSUME [Next]_devVars PROVE AppStep
  OBVIOUS
<1>1. CASE LoopTop   BY <1>1 DEF LoopTop, AppStep
<1>2. ASSUME NEW c \in Requests, RxCommand(c) PROVE AppStep
  BY <1>2 DEF RxCommand, AppStep
<1>3. CASE RxDone    BY <1>3 DEF RxDone, AppStep
<1>4. CASE Periodic
  <2>1. SendDue \in BOOLEAN BY DEF SendDue
  <2>2. CASE PeriodicFire     BY <2>1, <2>2 DEF PeriodicFire, AppStep
  <2>3. CASE PeriodicPacket   BY <2>3 DEF PeriodicPacket, AppStep
  <2>4. CASE PeriodicComplete BY <2>4 DEF PeriodicComplete, AppStep
  <2>5. CASE PeriodicStream   BY <2>5 DEF PeriodicStream, AppStep
  <2>6. CASE PeriodicIdle     BY <2>6 DEF PeriodicIdle, AppStep
  <2>7. QED BY <1>4, <2>2, <2>3, <2>4, <2>5, <2>6 DEF Periodic
<1>5. CASE TxSend    BY <1>5 DEF TxSend, AppStep
<1>6. CASE TxFail    BY <1>6 DEF TxFail, AppStep
<1>7. CASE TxDone    BY <1>7 DEF TxDone, AppStep
<1>8. CASE PeerReads BY <1>8 DEF PeerReads, AppStep
<1>9. CASE UNCHANGED devVars BY <1>9 DEF devVars, AppStep
<1>10. QED
  BY <1>1, <1>2, <1>3, <1>4, <1>5, <1>6, <1>7, <1>8, <1>9 DEF Next, Loop

-----------------------------------------------------------------------------
(* Bursts.                                                                   *)

(* BurstUnbroken is not inductive: nothing in it says that a burst that was   *)
(* paused by leaving trigger mode cannot be taken up again.  It cannot,      *)
(* because the mode command that returns clears sending, and so does STOP:   *)
(* while sending is set in trigger mode the status does not matter.          *)
BurstInv ==
  sending =>
    /\ packets_to_send \in PacketCounts
    /\ mode = "TRIGGER" =>
         IF packets_sent = 0
           THEN last = EventFrame(timestamp)
           ELSE /\ last.cmd = "DATA_PACKET" /\ last.of = timestamp /\ last.n = packets_sent
                /\ packets_sent <= packets_to_send

(* There is no burst at the start.                                           *)
LEMMA BurstInit == Init => BurstInv
BY DEF Init, AppInit, BurstInv

(* No command and no part of the periodic task breaks the invariant.         *)
LEMMA BurstStep == TypeOK /\ BurstInv /\ AppStep => BurstInv'
<1> SUFFICES ASSUME AppTypeOK, BurstInv, AppStep PROVE BurstInv'
  BY DEF TypeOK
<1>1. ASSUME NEW c \in Requests, HandleCommand(c) PROVE BurstInv'
  <2>1. CASE AnswerOnly(c)
    BY <2>1 DEF AnswerOnly, appVars, trigger, BurstInv, EventFrame
  <2>2. CASE SetModeContinuous(c) BY <2>2 DEF SetModeContinuous, BurstInv
  <2>3. CASE SetModeTrigger(c)    BY <2>3 DEF SetModeTrigger, BurstInv
  <2>4. CASE StartStream(c)       BY <2>4 DEF StartStream, trigger, BurstInv, EventFrame
  <2>5. CASE StopStream(c)        BY <2>5 DEF StopStream, BurstInv
  <2>6. CASE ConfigureStream(c)   BY <2>6 DEF ConfigureStream, trigger, BurstInv, EventFrame
  <2>7. QED BY <1>1, <2>1, <2>2, <2>3, <2>4, <2>5, <2>6 DEF HandleCommand
<1>2. ASSUME NEW sendDue \in BOOLEAN, NEW count \in PacketCounts, FireEvent(sendDue, count)
      PROVE  BurstInv'
  <2>1. CASE sendDue
    <3>1. packets_sent' = 1 /\ last' = DataFrame(timestamp', 1)
      BY <1>2, <2>1 DEF FireEvent, FireFrames
    <3>2. packets_to_send' \in PacketCounts /\ packets_sent' <= packets_to_send'
      BY <1>2, <3>1, PacketCountsAssumption DEF FireEvent
    <3>3. /\ last'.cmd = "DATA_PACKET" /\ last'.of = timestamp' /\ last'.n = packets_sent'
          /\ packets_sent' # 0
      BY <3>1 DEF DataFrame
    <3>4. QED BY <3>2, <3>3 DEF BurstInv
  <2>2. CASE ~sendDue
    <3>1. packets_sent' = 0 /\ last' = EventFrame(timestamp')
      BY <1>2, <2>2 DEF FireEvent, FireFrames
    <3>2. QED BY <1>2, <3>1 DEF FireEvent, EventFrame, BurstInv
  <2>3. QED BY <2>1, <2>2
<1>3. CASE SendBurstPacket
  <2>1. packets_sent + 1 # 0 /\ packets_sent + 1 <= packets_to_send
    BY <1>3 DEF SendBurstPacket, AppTypeOK
  <2>2. QED BY <1>3, <2>1 DEF SendBurstPacket, BurstFrame, DataFrame, BurstInv
<1>4. CASE CompleteBurst    BY <1>4 DEF CompleteBurst, BurstInv
<1>5. CASE SendStreamPacket BY <1>5 DEF SendStreamPacket, trigger, BurstInv
<1>6. CASE UNCHANGED appVars
  BY <1>6 DEF appVars, trigger, BurstInv, EventFrame
<1>7. QED BY <1>1, <1>2, <1>3, <1>4, <1>5, <1>6 DEF AppStep

(* Hence it holds in every state of the device.                              *)
LEMMA BurstInvariant == Spec => [](TypeOK /\ BurstInv)
BY TypeInit, TypeStep, BurstInit, BurstStep, StepsAreAppSteps, PTL DEF Spec

(* While a burst is being sent nothing foreign comes between its frames       *)
(* (app.c:202-237, 298-333).                                                 *)
THEOREM BurstIsUnbroken == Spec => []BurstUnbroken
<1>1. TypeOK /\ BurstInv => BurstUnbroken
  BY DEF BurstInv, BurstUnbroken, Listening
<1>2. QED BY <1>1, BurstInvariant, PTL

(* The completion signal follows the last packet of its own burst             *)
(* (app.c:316-333).                                                          *)
THEOREM CompletionFollowsLastPacket == Spec => CompleteAfterLastPacket
<1> DEFINE Follows ==
      last' # last /\ last'.cmd = "BUFFER_TRANSFER_COMPLETE"
        => last.cmd = "DATA_PACKET" /\ last.of = last'.of /\ last.n = last'.n
<1>1. TypeOK /\ BurstInv /\ AppStep => Follows
  <2> SUFFICES ASSUME AppTypeOK, BurstInv, AppStep,
                      last' # last, last'.cmd = "BUFFER_TRANSFER_COMPLETE"
               PROVE  last.cmd = "DATA_PACKET" /\ last.of = last'.of /\ last.n = last'.n
    BY DEF TypeOK
  <2>1. ~ \E c \in Requests : HandleCommand(c)
    BY DEF HandleCommand, AnswerOnly, SetModeContinuous, SetModeTrigger, StartStream,
           StopStream, ConfigureStream, appVars
  <2>2. ~ \E sendDue \in BOOLEAN, count \in PacketCounts : FireEvent(sendDue, count)
    BY DEF FireEvent, FireFrames, EventFrame, DataFrame
  <2>3. ~ (SendBurstPacket \/ SendStreamPacket)
    BY DEF SendBurstPacket, SendStreamPacket, BurstFrame, DataFrame
  <2>4. CompleteBurst
    BY <2>1, <2>2, <2>3 DEF AppStep, appVars
  <2>5. /\ mode = "TRIGGER" /\ sending /\ packets_sent >= packets_to_send
        /\ last' = CompleteFrame(timestamp)
    BY <2>4 DEF CompleteBurst, Listening
  <2>6. packets_to_send > 0 /\ packets_sent \in Nat
    BY <2>5, PacketCountsAssumption DEF BurstInv, AppTypeOK
  <2>7. packets_sent = packets_to_send
    BY <2>5, <2>6 DEF BurstInv, AppTypeOK
  <2>8. QED BY <2>5, <2>6, <2>7 DEF BurstInv, CompleteFrame
<1>2. TypeOK /\ BurstInv /\ [Next]_devVars => [Follows]_devVars
  BY <1>1, StepsAreAppSteps
<1>3. QED BY <1>2, BurstInvariant, PTL DEF Spec, CompleteAfterLastPacket

-----------------------------------------------------------------------------
(* The send timer.                                                           *)

(* NeverTooSoon is not inductive either: that the difference of two 32-bit    *)
(* clock values is the time gone by has to be known exactly, up to Interval,  *)
(* to be known after the next pass.                                          *)
GapMeasured == ~restarted /\ gap < Interval => Elapsed(now, last_send) = gap

(* Nothing is measured before the first data packet.                         *)
LEMMA GapInit == Init => GapMeasured
BY DEF Init, GapMeasured

(* The clock may wrap between two passes: a pass is shorter than the clock.   *)
LEMMA ElapsedAdds ==
  ASSUME NEW t \in 0..(ClockMod - 1), NEW since \in 0..(ClockMod - 1), NEW d \in 1..MaxPass,
         Elapsed(t, since) + d < ClockMod
  PROVE  Elapsed(Wrap(t + d), since) = Elapsed(t, since) + d
<1>1. /\ ClockMod \in Nat /\ d \in Nat /\ d < ClockMod /\ t \in Nat /\ since \in Nat
  BY ClockAssumption
<1>2. CASE t + d < ClockMod
  <2>1. Wrap(t + d) = t + d BY <1>1, <1>2 DEF Wrap
  <2>2. QED BY <1>1, <1>2, <2>1 DEF Elapsed
<1>3. CASE t + d >= ClockMod
  <2>1. Wrap(t + d) = t + d - ClockMod BY <1>1, <1>3 DEF Wrap
  <2>2. QED BY <1>1, <1>3, <2>1 DEF Elapsed
<1>4. QED BY <1>1, <1>2, <1>3

(* The measure is kept by every pass, and reset by every data packet.        *)
LEMMA GapStep == TypeOK /\ GapMeasured /\ [Next]_devVars => GapMeasured'
<1> SUFFICES ASSUME TypeOK, GapMeasured, [Next]_devVars PROVE GapMeasured'
  OBVIOUS
<1> USE DEF GapMeasured
<1>1. CASE LoopTop
  <2>1. PICK d \in 1..MaxPass :
          /\ now' = Wrap(now + d)
          /\ gap' = IF gap + d < Interval THEN gap + d ELSE Interval
    BY <1>1 DEF LoopTop
  <2>2. UNCHANGED <<last_send, restarted>> BY <1>1 DEF LoopTop
  <2>3. SUFFICES ASSUME ~restarted, gap' < Interval
                 PROVE  Elapsed(now', last_send) = gap'
    BY <2>2 DEF Elapsed
  <2>4. gap + d < Interval /\ gap' = gap + d /\ gap < Interval
    BY <2>1, <2>3, ClockAssumption DEF TypeOK
  <2>5. Elapsed(now, last_send) = gap BY <2>3, <2>4
  <2>6. Elapsed(now, last_send) + d < ClockMod
    BY <2>4, <2>5, ClockAssumption DEF TypeOK
  <2>7. QED BY <2>1, <2>4, <2>5, <2>6, ElapsedAdds DEF TypeOK
<1>2. ASSUME NEW c \in Requests, RxCommand(c) PROVE GapMeasured'
  BY <1>2 DEF RxCommand, Elapsed
<1>3. CASE RxDone    BY <1>3 DEF RxDone, clockVars, Elapsed
<1>4. CASE Periodic
  <2>1. now' = now BY <1>4 DEF Periodic
  <2>2. CASE DataSent
    BY <2>1, <2>2 DEF DataSent, Elapsed, TypeOK
  <2>3. CASE NoData
    BY <2>1, <2>3 DEF NoData, Elapsed
  <2>4. QED
    BY <1>4, <2>2, <2>3
    DEF Periodic, PeriodicFire, PeriodicPacket, PeriodicComplete, PeriodicStream, PeriodicIdle
<1>5. CASE TxSend    BY <1>5 DEF TxSend, clockVars, Elapsed
<1>6. CASE TxFail    BY <1>6 DEF TxFail, clockVars, Elapsed
<1>7. CASE TxDone    BY <1>7 DEF TxDone, clockVars, Elapsed
<1>8. CASE PeerReads BY <1>8 DEF PeerReads, clockVars, Elapsed
<1>9. CASE UNCHANGED devVars BY <1>9 DEF devVars, clockVars, Elapsed
<1>10. QED
  BY <1>1, <1>2, <1>3, <1>4, <1>5, <1>6, <1>7, <1>8, <1>9 DEF Next, Loop

(* The send timer is never early, whatever the clock does (app.c:317, 340).   *)
THEOREM TimerNeverEarly == Spec => []NeverTooSoon
<1>1. TypeOK /\ GapMeasured => NeverTooSoon
  BY ClockAssumption DEF TypeOK, GapMeasured, NeverTooSoon, SendDue
<1>2. QED
  BY <1>1, TypeInit, TypeStep, GapInit, GapStep, PTL DEF Spec

-----------------------------------------------------------------------------
(* TriggerDevice implements BurstSource: whatever the clock, the ring and     *)
(* the transport do, the peer sees the frames of the application in the       *)
(* order they were produced, some of them possibly missing.                  *)

(* The ring and the wire together, as one sequence of frames.                 *)

(* A frame added to the ring is added behind all that is on its way.          *)
LEMMA AppendToRing ==
  ASSUME NEW S, NEW w \in Seq(S), NEW q \in Seq(S), NEW f \in S
  PROVE  w \o Append(q, f) = Append(w \o q, f)
OBVIOUS

(* A frame that moves from the ring to the wire changes nothing in between.   *)
LEMMA RingToWire ==
  ASSUME NEW S, NEW w \in Seq(S), NEW q \in Seq(S), q # <<>>
  PROVE  Append(w, Head(q)) \o Tail(q) = w \o q
OBVIOUS

(* What the peer takes is the oldest frame on its way.                        *)
LEMMA TakeFromWire ==
  ASSUME NEW S, NEW w \in Seq(S), NEW q \in Seq(S), w # <<>>
  PROVE  w \o q # <<>> /\ Tail(w \o q) = Tail(w) \o q
OBVIOUS

(* A frame dropped from the ring is missing from the middle of the sequence.  *)
LEMMA DropFromRing ==
  ASSUME NEW S, NEW w \in Seq(S), NEW q \in Seq(S), q # <<>>
  PROVE  /\ Len(w) + 1 \in 1..Len(w \o q)
         /\ w \o Tail(q) = SubSeq(w \o q, 1, Len(w) + 1 - 1)
                             \o SubSeq(w \o q, Len(w) + 1 + 1, Len(w \o q))
<1>1. /\ Len(w) \in Nat /\ Len(q) \in Nat /\ Len(q) >= 1
      /\ w \o q \in Seq(S) /\ Len(w \o q) = Len(w) + Len(q)
  OBVIOUS
<1>2. SubSeq(w \o q, 1, Len(w) + 1 - 1) = w
  <2>1. Len(w) + 1 - 1 = Len(w) BY <1>1
  <2>2. \A k \in 1..Len(w) : (w \o q)[k] = w[k] BY <1>1
  <2>3. QED BY <1>1, <2>1, <2>2
<1>3. SubSeq(w \o q, Len(w) + 1 + 1, Len(w \o q)) = Tail(q)
  <2>1. Tail(q) \in Seq(S) /\ Len(Tail(q)) = Len(q) - 1
        /\ \A k \in 1..(Len(q) - 1) : Tail(q)[k] = q[k + 1]
    BY <1>1
  <2>2. \A k \in 1..(Len(q) - 1) : (w \o q)[Len(w) + 1 + k] = q[k + 1]
    BY <1>1
  <2> DEFINE rest == SubSeq(w \o q, Len(w) + 1 + 1, Len(w \o q))
  <2>3. rest \in Seq(S) /\ Len(rest) = Len(q) - 1
        /\ \A k \in 1..(Len(q) - 1) : rest[k] = (w \o q)[Len(w) + 1 + k]
    <3> DEFINE m == Len(w) + 1 + 1  n == Len(w \o q)
    <3>1. PICK lw \in Nat, lq \in Nat : lw = Len(w) /\ lq = Len(q) /\ lq >= 1
      BY <1>1
    <3>2. m = lw + 2 /\ n = lw + lq
      BY <1>1, <3>1
    <3>3. m \in Int /\ n \in Int /\ n - m + 1 = Len(q) - 1 /\ (m > n => Len(q) - 1 = 0)
      <4> HIDE DEF m, n
      <4> QED BY <3>1, <3>2
    <3>4. \A k \in 1..Len(w \o q) : (w \o q)[k] \in S
      BY <1>1
    <3>5. \A k \in m..n : (w \o q)[k] \in S
      BY <1>1, <3>4
    <3>6. /\ rest \in Seq(S)
          /\ Len(rest) = IF m <= n THEN n - m + 1 ELSE 0
          /\ \A k \in 1..(n - m + 1) : rest[k] = (w \o q)[m + k - 1]
      BY <3>3, <3>5, SubSeqProperties
    <3>7. \A k \in 1..(Len(q) - 1) : m + k - 1 = Len(w) + 1 + k BY <1>1
    <3>8. QED BY <1>1, <3>3, <3>6, <3>7
  <2>4. QED BY <1>1, <2>1, <2>2, <2>3
<1>4. Len(w) + 1 \in 1..Len(w \o q) BY <1>1
<1>5. QED BY <1>2, <1>3, <1>4

-----------------------------------------------------------------------------
(* The application is the same on both levels.                                *)
LEMMA SameCommands ==
  ASSUME NEW c
  PROVE  (Source!HandleCommand(c) <=> HandleCommand(c)) /\ Source!ReplyTo(c) = ReplyTo(c)
<1>1. Source!HandleCommand(c) <=> HandleCommand(c)
  BY DEF Source!HandleCommand, HandleCommand, Source!AnswerOnly, AnswerOnly,
         Source!SetModeContinuous, SetModeContinuous, Source!SetModeTrigger, SetModeTrigger,
         Source!StartStream, StartStream, Source!StopStream, StopStream,
         Source!ConfigureStream, ConfigureStream, Source!appVars, appVars, Source!trigger, trigger
<1>2. Source!ReplyTo(c) = ReplyTo(c)
  BY DEF Source!ReplyTo, ReplyTo, Source!ReplyFrame, ReplyFrame
<1>3. QED BY <1>1, <1>2

(* The steps of the periodic task are the same on both levels.                *)
LEMMA SameSteps ==
  /\ \A sendDue, count : Source!FireEvent(sendDue, count) <=> FireEvent(sendDue, count)
  /\ \A sendDue : Source!FireFrames(sendDue) = FireFrames(sendDue)
  /\ Source!SendBurstPacket <=> SendBurstPacket
  /\ Source!CompleteBurst <=> CompleteBurst
  /\ Source!SendStreamPacket <=> SendStreamPacket
  /\ Source!BurstFrame = BurstFrame
  /\ Source!CompleteFrame(timestamp) = CompleteFrame(timestamp)
  /\ Source!DataFrame(0, 0) = DataFrame(0, 0)
  /\ Source!appVars = appVars
BY DEF Source!FireEvent, FireEvent, Source!FireFrames, FireFrames,
       Source!Listening, Listening, Source!NextStamp, NextStamp,
       Source!SendBurstPacket, SendBurstPacket, Source!CompleteBurst, CompleteBurst,
       Source!SendStreamPacket, SendStreamPacket, Source!BurstFrame, BurstFrame,
       Source!EventFrame, EventFrame, Source!DataFrame, DataFrame,
       Source!CompleteFrame, CompleteFrame,
       Source!appVars, appVars, Source!trigger, trigger

(* A step that leaves the application and the frames on their way alone is a  *)
(* stutter of the abstract device.                                           *)
LEMMA SameVars ==
  /\ UNCHANGED appVars => UNCHANGED Source!appVars
  /\ UNCHANGED <<appVars, wire \o txq>> => UNCHANGED Source!vars
<1>1. UNCHANGED appVars => UNCHANGED Source!appVars
  BY DEF Source!appVars, appVars, Source!trigger, trigger
<1>2. QED BY <1>1 DEF Source!vars

(* Any command the device accepts behaves like one of BurstSource's: the ids   *)
(* the device does not have make no difference.                              *)
LEMMA EveryCommandKnown ==
  ASSUME TypeOK, NEW c \in Requests, HandleCommand(c)
  PROVE  \E d \in Source!Commands : HandleCommand(d) /\ ReplyTo(d) = ReplyTo(c)
<1>1. c.name \in CommandNames BY RequestsAssumption
<1>2. CASE c.name = "CONFIGURE_STREAM"
  <2> DEFINE d == [name |-> "CONFIGURE_STREAM", on |-> c.on \cap Channels, off |-> c.off \cap Channels]
  <2>1. d \in Source!Commands BY DEF Source!Commands
  <2>2. ConfigureStream(c)
    BY <1>2 DEF HandleCommand, AnswerOnly, SetModeContinuous, SetModeTrigger, StartStream, StopStream
  <2>3. (channels \cup (c.on \cap Channels)) \ c.off
          = (channels \cup (d.on \cap Channels)) \ d.off
    BY DEF TypeOK, AppTypeOK
  <2>4. HandleCommand(d) BY <2>2, <2>3 DEF HandleCommand, ConfigureStream
  <2>5. ReplyTo(d) = ReplyTo(c) BY <1>2 DEF ReplyTo, ReplyFrame
  <2>6. QED BY <2>1, <2>4, <2>5
<1>3. CASE c.name # "CONFIGURE_STREAM"
  <2> DEFINE d == [name |-> c.name]
  <2>1. d \in Source!Commands BY <1>1, <1>3 DEF Source!Commands, Source!CommandNames, CommandNames
  <2>2. HandleCommand(d)
    BY <1>3 DEF HandleCommand, AnswerOnly, SetModeContinuous, SetModeTrigger, StartStream,
                StopStream, ConfigureStream
  <2>3. ReplyTo(d) = ReplyTo(c) BY DEF ReplyTo, ReplyFrame
  <2>4. QED BY <2>1, <2>2, <2>3
<1>4. QED BY <1>2, <1>3

-----------------------------------------------------------------------------
(* Queueing a frame in the ring is an Emit of the abstract device.            *)
LEMMA EnqueueEmits ==
  ASSUME TypeOK, NEW f \in Frame, txq' = Enqueue(txq, f), wire' = wire
  PROVE  Source!Emit(f)
<1>1. txq' = txq \/ txq' = Append(txq, f) BY EnqueueAddsOrDrops
<1>2. wire' \o txq' = wire \o txq \/ wire' \o txq' = Append(wire \o txq, f)
  <2>1. txq \in Seq(Frame) /\ wire \in Seq(Frame) BY DEF TypeOK
  <2>2. CASE txq' = txq BY <2>2
  <2>3. CASE txq' = Append(txq, f)
    <3>1. wire \o Append(txq, f) = Append(wire \o txq, f) BY <2>1, AppendToRing
    <3>2. QED BY <2>3, <3>1
  <2>4. QED BY <1>1, <2>2, <2>3
<1>3. QED BY <1>2 DEF Source!Emit

(* So is queueing the event together with the first packet of the burst.     *)
LEMMA FiringEmits ==
  ASSUME TypeOK, txq' = EnqueueAll(txq, FireFrames(SendDue)), wire' = wire
  PROVE  Source!EmitAll(FireFrames(SendDue))
<1> DEFINE event == EventFrame(NextStamp)
           data  == DataFrame(NextStamp, 1)
<1>1. event \in Frame /\ data \in Frame
  BY FramesAreFrames DEF TypeOK
<1>2. CASE ~SendDue
  <2>1. FireFrames(SendDue) = <<event>> BY <1>2 DEF FireFrames
  <2>2. txq' = Enqueue(txq, event) BY <2>1 DEF EnqueueAll
  <2>3. Source!Emit(event) BY <1>1, <2>2, EnqueueEmits
  <2>4. QED BY <2>1, <2>3 DEF Source!EmitAll
<1>3. CASE SendDue
  <2>1. FireFrames(SendDue) = <<event, data>> BY <1>3 DEF FireFrames
  <2>2. txq' = Enqueue(Enqueue(txq, event), data) BY <2>1 DEF EnqueueAll
  <2>3. txq' \in {txq, Append(txq, event), Append(txq, data), Append(Append(txq, event), data)}
    BY <2>2, EnqueueAddsOrDrops
  <2>4. /\ txq \in Seq(Frame) /\ wire \in Seq(Frame) /\ Append(txq, event) \in Seq(Frame)
    BY <1>1 DEF TypeOK
  <2>5. /\ wire \o Append(txq, event) = Append(wire \o txq, event)
        /\ wire \o Append(txq, data) = Append(wire \o txq, data)
        /\ wire \o Append(Append(txq, event), data) = Append(wire \o Append(txq, event), data)
    BY <1>1, <2>4, AppendToRing
  <2> HIDE DEF event, data
  <2>6. \/ wire' \o txq' = wire \o txq
        \/ wire' \o txq' = Append(wire \o txq, event)
        \/ wire' \o txq' = Append(wire \o txq, data)
        \/ wire' \o txq' = Append(Append(wire \o txq, event), data)
    BY <2>3, <2>5
  <2>7. /\ Len(FireFrames(SendDue)) # 1
        /\ FireFrames(SendDue)[1] = event /\ FireFrames(SendDue)[2] = data
    BY <2>1
  <2>8. QED BY <2>6, <2>7 DEF Source!EmitAll
<1>4. QED BY <1>2, <1>3

-----------------------------------------------------------------------------
(* The simulation.                                                           *)

(* The device starts in an initial state of the source.                      *)
LEMMA SimulationInit == Init => Source!Init
<1>1. AppInit <=> Source!AppInit
  BY DEF AppInit, Source!AppInit, NoFrame, Source!NoFrame
<1>2. <<>> \o <<>> = <<>> OBVIOUS
<1>3. QED BY <1>1, <1>2 DEF Init, Source!Init

(* A pass of the periodic task produces frames as the source does, or none.   *)
LEMMA SimulatePeriodic == TypeOK /\ Periodic => Source!Produce \/ UNCHANGED Source!vars
<1> SUFFICES ASSUME TypeOK, Periodic PROVE Source!Produce \/ UNCHANGED Source!vars
  OBVIOUS
<1>1. wire' = wire BY DEF Periodic
<1>2. /\ BurstFrame \in Frame /\ CompleteFrame(timestamp) \in Frame /\ DataFrame(0, 0) \in Frame
  <2>1. packets_sent + 1 \in Nat /\ 0 \in Nat BY DEF TypeOK, AppTypeOK
  <2>2. QED BY <2>1, FramesAreFrames DEF BurstFrame, TypeOK
<1>3. CASE PeriodicFire
  <2>1. PICK count \in PacketCounts : FireEvent(SendDue, count)
    BY <1>3 DEF PeriodicFire
  <2>2. Source!EmitAll(FireFrames(SendDue))
    BY <1>1, <1>3, FiringEmits DEF PeriodicFire
  <2>3. SendDue \in BOOLEAN BY DEF SendDue
  <2>4. Source!Fire(SendDue, count)
    BY <2>1, <2>2, SameSteps DEF Source!Fire
  <2>5. QED BY <2>3, <2>4 DEF Source!Produce
<1>4. CASE PeriodicPacket
  <2>1. Source!Emit(BurstFrame) BY <1>1, <1>2, <1>4, EnqueueEmits DEF PeriodicPacket
  <2>2. QED BY <1>4, <2>1, SameSteps DEF PeriodicPacket, Source!BurstPacket, Source!Produce
<1>5. CASE PeriodicComplete
  <2>1. Source!Emit(CompleteFrame(timestamp))
    BY <1>1, <1>2, <1>5, EnqueueEmits DEF PeriodicComplete
  <2>2. QED BY <1>5, <2>1, SameSteps DEF PeriodicComplete, Source!BurstComplete, Source!Produce
<1>6. CASE PeriodicStream
  <2>1. Source!Emit(DataFrame(0, 0)) BY <1>1, <1>2, <1>6, EnqueueEmits DEF PeriodicStream
  <2>2. QED BY <1>6, <2>1, SameSteps DEF PeriodicStream, Source!StreamPacket, Source!Produce
<1>7. CASE PeriodicIdle
  BY <1>1, <1>7, SameVars DEF PeriodicIdle
<1>8. QED BY <1>3, <1>4, <1>5, <1>6, <1>7 DEF Periodic

(* Every step of the device is a step of the source or a stutter.             *)
LEMMA SimulationStep == TypeOK /\ [Next]_devVars => [Source!Next]_Source!vars
<1> SUFFICES ASSUME TypeOK, [Next]_devVars PROVE [Source!Next]_Source!vars
  OBVIOUS
<1>0. txq \in Seq(Frame) /\ wire \in Seq(Frame) BY DEF TypeOK
<1>1. CASE LoopTop  BY <1>1, SameVars DEF LoopTop
<1>2. ASSUME NEW c \in Requests, RxCommand(c) PROVE Source!Next
  <2>1. HandleCommand(c) /\ txq' = Enqueue(txq, ReplyTo(c)) /\ wire' = wire
    BY <1>2 DEF RxCommand
  <2>2. Source!Emit(ReplyTo(c))
    <3>1. ReplyTo(c) \in Frame BY FramesAreFrames DEF TypeOK
    <3>2. QED BY <2>1, <3>1, EnqueueEmits
  <2>3. PICK d \in Source!Commands : HandleCommand(d) /\ ReplyTo(d) = ReplyTo(c)
    BY <2>1, EveryCommandKnown
  <2>4. Source!Command(d) BY <2>2, <2>3, SameCommands DEF Source!Command
  <2>5. QED BY <2>4 DEF Source!Next
<1>3. CASE RxDone   BY <1>3, SameVars DEF RxDone
<1>4. CASE Periodic BY <1>4, SimulatePeriodic DEF Source!Next
<1>5. CASE TxSend
  <2>1. wire' \o txq' = wire \o txq BY <1>5, <1>0, RingToWire DEF TxSend
  <2>2. QED BY <1>5, <2>1, SameVars DEF TxSend
<1>6. CASE TxFail
  <2>1. /\ Len(wire) + 1 \in 1..Len(wire \o txq)
        /\ wire' \o txq' = SubSeq(wire \o txq, 1, Len(wire) + 1 - 1)
                            \o SubSeq(wire \o txq, Len(wire) + 1 + 1, Len(wire \o txq))
    BY <1>6, <1>0, DropFromRing DEF TxFail
  <2>2. \E i \in 1..Len(wire \o txq) :
          wire' \o txq' = SubSeq(wire \o txq, 1, i - 1) \o SubSeq(wire \o txq, i + 1, Len(wire \o txq))
    <3> DEFINE j == Len(wire) + 1
    <3>1. /\ j \in 1..Len(wire \o txq)
          /\ wire' \o txq' = SubSeq(wire \o txq, 1, j - 1)
                              \o SubSeq(wire \o txq, j + 1, Len(wire \o txq))
      BY <2>1
    <3> HIDE DEF j
    <3>2. QED BY <3>1
  <2>3. Source!Lose BY <1>6, <2>2, SameVars DEF TxFail, Source!Lose
  <2>4. QED BY <2>3 DEF Source!Next
<1>7. CASE TxDone   BY <1>7, SameVars DEF TxDone
<1>8. CASE PeerReads
  <2>1. wire \o txq # <<>> /\ wire' \o txq' = Tail(wire \o txq)
    BY <1>8, <1>0, TakeFromWire DEF PeerReads
  <2>2. Source!Deliver BY <1>8, <2>1, SameVars DEF PeerReads, Source!Deliver
  <2>3. QED BY <2>2 DEF Source!Next
<1>9. CASE UNCHANGED devVars BY <1>9, SameVars DEF devVars
<1>10. QED
  BY <1>1, <1>2, <1>3, <1>4, <1>5, <1>6, <1>7, <1>8, <1>9 DEF Next, Loop

(* Every behaviour of the device, main loop and all, is a behaviour of the    *)
(* abstract source of frames (app.c, main.c:126-148, io_buffer.c:125-185).    *)
THEOREM DeviceImplementsSource == Spec => ImplementsSource
<1>1. Init /\ [][Next]_devVars /\ []TypeOK => Source!Init /\ [][Source!Next]_Source!vars
  BY SimulationInit, SimulationStep, PTL
<1>2. QED BY <1>1, TypeCorrect, PTL DEF Spec, ImplementsSource, Source!Spec
=============================================================================

----------------------------- MODULE BurstSource -----------------------------
(***************************************************************************)
(* What the device promises to whoever is at the other end of the wire: the *)
(* frames of app.c, in the order the application produced them, some of    *)
(* them possibly missing when Lossy.  No clock, no ring, no main loop.     *)
(* TriggerDevice implements this module; Acquisition composes it with the  *)
(* gateway.                                                                *)
(***************************************************************************)
EXTENDS DeviceApp

CONSTANT Lossy   (* TRUE iff a frame may vanish before it reaches the peer   *)

VARIABLES
  link,          (* FALSE while the carrier is down                          *)
  out            (* the frames on their way to the peer                      *)

vars == <<appVars, link, out>>

(* app_send_frame_with_seq: a frame is queued, or dropped without anybody     *)
(* looking at the outcome.                                                   *)
Emit(f) ==
  \/ out' = IF link THEN Append(out, f) ELSE out
  \/ Lossy /\ out' = out

EmitAll(fs) ==
  IF Len(fs) = 1
    THEN Emit(fs[1])
    ELSE \/ out' = IF link THEN Append(Append(out, fs[1]), fs[2]) ELSE out
         \/ Lossy /\ out' = out
         \/ Lossy /\ link /\ out' \in {Append(out, fs[1]), Append(out, fs[2])}

Command(c) ==
  /\ HandleCommand(c)
  /\ Emit(ReplyTo(c))
  /\ UNCHANGED link

Fire(sendDue, count) ==
  /\ FireEvent(sendDue, count)
  /\ EmitAll(FireFrames(sendDue))
  /\ UNCHANGED link

BurstPacket    == SendBurstPacket  /\ Emit(BurstFrame)               /\ UNCHANGED link
BurstComplete  == CompleteBurst    /\ Emit(CompleteFrame(timestamp)) /\ UNCHANGED link
StreamPacket   == SendStreamPacket /\ Emit(DataFrame(0, 0))          /\ UNCHANGED link

Produce ==
  \/ \E sendDue \in BOOLEAN, count \in PacketCounts : Fire(sendDue, count)
  \/ BurstPacket
  \/ BurstComplete
  \/ StreamPacket

(* The transport hands a frame to the peer, or loses one.                     *)
Deliver ==
  /\ out # <<>>
  /\ out' = Tail(out)
  /\ UNCHANGED <<appVars, link>>

Lose ==
  /\ Lossy
  /\ \E i \in 1..Len(out) : out' = SubSeq(out, 1, i - 1) \o SubSeq(out, i + 1, Len(out))
  /\ UNCHANGED <<appVars, link>>

-----------------------------------------------------------------------------
Commands ==
       [name : CommandNames \ {"CONFIGURE_STREAM"}]
  \cup [name : {"CONFIGURE_STREAM"}, on : SUBSET Channels, off : SUBSET Channels]

Init == AppInit /\ out = <<>> /\ link = TRUE

Next ==
  \/ \E c \in Commands : Command(c)
  \/ Produce
  \/ Deliver
  \/ Lose

Spec == Init /\ [][Next]_vars

TypeOK ==
  /\ AppTypeOK
  /\ link \in BOOLEAN
  /\ out \in Seq(Frame)

=============================================================================

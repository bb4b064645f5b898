------------------------------ MODULE FrameParser ------------------------------
(***************************************************************************)
(* Reception as the gateway does it, ProtocolParser of                       *)
(* device_communication.rs: every read is put behind what is left, and frames *)
(* are parsed until one step yields none.  The buffer grows as it needs to,    *)
(* and survives the connection.                                              *)
(***************************************************************************)
EXTENDS FrameLine

MinFrame == 10

(* feed_data.  Mutant: what was read is read again.                             *)
FeedAgain(n) ==
  /\ pc = "read" /\ line # <<>> /\ n <= Len(line)
  /\ buf' = buf \o SubSeq(line, 1, n)
  /\ pc' = "parse"
  /\ UNCHANGED <<sent, line, got>>

Feed(n) ==
  /\ pc = "read" /\ line # <<>> /\ n <= Len(line)
  /\ buf' = buf \o SubSeq(line, 1, n)
  /\ line' = SubSeq(line, n + 1, Len(line))
  /\ pc' = "parse"
  /\ UNCHANGED <<sent, got>>

(* find_frame_start and the advance to it: all of buf if it holds no head.       *)
Starts == {i \in 1..(Len(buf) - 1) : buf[i] = Head0 /\ buf[i + 1] = Head1}

FromStart == IF Starts = {} THEN buf
             ELSE SubSeq(buf, CHOOSE i \in Starts : \A j \in Starts : i <= j, Len(buf))

(* What the bytes from a head on are, the length being an unbounded number here.  *)
Verdict(b) ==
  LET len     == WordAt(b, 3)
      payload == SubSeq(b, 7, len + 2)
      crcPos  == 7 + Len(payload)
  IN  IF Len(b) < 6 + len THEN "unfinished"
      ELSE IF <<b[len + 5], b[len + 6]>> # <<Tail0, Tail1>> THEN "bad"
      ELSE IF WordAt(b, crcPos) # Crc(b[5], b[6], payload) THEN "bad"
      ELSE "frame"

(* try_parse_one, and the end of parse_frames where it yields nothing.          *)
(* Mutants: a bad frame is removed whole, or kept.                              *)
RejectWhole(b) == buf' = SubSeq(b, 7 + WordAt(b, 3), Len(b))

RejectNothing(b) == buf' = b

Reject(b) == buf' = Tail(b)

ParseOne ==
  /\ pc = "parse" /\ Len(buf) >= MinFrame
  /\ LET b == FromStart IN
     IF Starts = {} \/ Len(b) < MinFrame \/ Verdict(b) = "unfinished"
       THEN buf' = b /\ pc' = "read" /\ UNCHANGED got
     ELSE IF Verdict(b) = "bad"
       THEN Reject(b) /\ pc' = "read" /\ UNCHANGED got
     ELSE /\ buf' = SubSeq(b, 7 + WordAt(b, 3), Len(b))
          /\ got' = Append(got, <<b[5], b[6], SubSeq(b, 7, WordAt(b, 3) + 2)>>)
          /\ UNCHANGED pc
  /\ UNCHANGED <<sent, line>>

TooShort ==
  /\ pc = "parse" /\ Len(buf) < MinFrame
  /\ pc' = "read"
  /\ UNCHANGED <<sent, line, buf, got>>

ParserNext == ParseOne \/ TooShort \/ \E n \in 1..MaxChunk : Feed(n)

ParserSpec == LineInit /\ [][ParserNext]_lineVars

-----------------------------------------------------------------------------
(* Whatever noise is between them, no good frame is lost and none is handed over    *)
(* twice: those that begin before the first byte kept have been handed over, the    *)
(* others are still whole in the buffer or on the line.                         *)
GoodFramesKept == got = GoodUpTo(Used, FirstByte)

(* The heads in the noise, and for how many bytes they can keep the frames behind   *)
(* them waiting.                                                             *)
FalseHeads ==
  LET b == BytesOf(sent) IN
  {i \in 1..(Len(b) - 3) : /\ b[i] = Head0 /\ b[i + 1] = Head1
                           /\ \E k \in DOMAIN sent : ~sent[k].good /\ i \in FirstByte[k]..LastByte[k]}

Overdue ==
  LET promise == {6 + WordAt(BytesOf(sent), i + 2) : i \in FalseHeads} \cup {0}
  IN  Cardinality(FalseHeads) * MaxChunk + (CHOOSE p \in promise : \A q \in promise : q <= p)

(* A false head keeps the frames behind it waiting for one more read, and for as    *)
(* many bytes as it promises; then every one of them has been handed over.        *)
CaughtUp == pc = "read" => IsPrefix(GoodUpTo(Arrived - Overdue, LastByte), got)
=============================================================================

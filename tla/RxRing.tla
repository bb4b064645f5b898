-------------------------------- MODULE RxRing ---------------------------------
(***************************************************************************)
(* Reception as the device programs and the command-line reader do it,        *)
(* protocol/io_buffer.c: bytes are put into a ring, and after every read      *)
(* frames are taken from it until there is none.  The ring is the sequence of  *)
(* the bytes between head and tail.                                          *)
(***************************************************************************)
EXTENDS FrameLine

CONSTANTS
  RX_BUFFER_SIZE,
  MAX_FRAME_SIZE

VARIABLES
  lost,       (* bytes were dropped                                           *)
  calls       (* frames taken since the last read, counted up to one more than *)
              (* the ring has bytes                                           *)

vars == <<lineVars, lost, calls>>

MIN_FRAME_LEN == 8

Init == LineInit /\ lost = FALSE /\ calls = 0

(* Mutants: the byte between tail and head is not kept free, or two are.          *)
rxBufferFreeSpaceAll == RX_BUFFER_SIZE - Len(buf)
rxBufferFreeSpaceLess == RX_BUFFER_SIZE - Len(buf) - 2

rxBufferFreeSpace == RX_BUFFER_SIZE - Len(buf) - 1

(* feedRxBuffer: what does not fit is dropped.                                 *)
feedRxBuffer(data) ==
  LET toWrite == IF Len(data) <= rxBufferFreeSpace THEN Len(data) ELSE rxBufferFreeSpace
  IN  /\ buf' = buf \o SubSeq(data, 1, toWrite)
      /\ lost' = (lost \/ toWrite < Len(data))

Read(n) ==
  /\ pc = "read" /\ line # <<>> /\ n <= Len(line)
  /\ feedRxBuffer(SubSeq(line, 1, n))
  /\ line' = SubSeq(line, n + 1, Len(line))
  /\ pc' = "parse" /\ calls' = 0
  /\ UNCHANGED <<sent, got>>

-----------------------------------------------------------------------------
(* tryExtractOneFrame.  The scan passes over heads that promise more than        *)
(* MAX_FRAME_SIZE and stops at the first that does not.                         *)
FrameSize(i) == (6 + WordAt(buf, i + 2)) % Word

(* Mutant: heads that promise too much are not passed over.                     *)
HeadsAll == {i \in 1..(Len(buf) - MIN_FRAME_LEN + 1) : buf[i] = Head0 /\ buf[i + 1] = Head1}

Heads == {i \in 1..(Len(buf) - MIN_FRAME_LEN + 1) :
            /\ buf[i] = Head0 /\ buf[i + 1] = Head1
            /\ FrameSize(i) <= MAX_FRAME_SIZE}

First(S) == CHOOSE i \in S : \A j \in S : i <= j

(* Mutant: a frame that does not parse stays where it is.                       *)
ExtractedIfGood(i) ==
  IF parseFrame(SubSeq(buf, i, i + FrameSize(i) - 1)).ret = 0
    THEN SubSeq(buf, i + FrameSize(i), Len(buf)) ELSE buf

Extracted(i) == SubSeq(buf, i + FrameSize(i), Len(buf))

(* A whole frame leaves the ring and goes to the callback, which parses it and    *)
(* acts on it if that succeeds.                                               *)
TakeFrame ==
  LET i == First(Heads)
      p == parseFrame(SubSeq(buf, i, i + FrameSize(i) - 1))
  IN  /\ Heads # {} /\ i + FrameSize(i) - 1 <= Len(buf)
      /\ buf' = Extracted(i)
      /\ calls' = IF calls <= RX_BUFFER_SIZE THEN calls + 1 ELSE calls
      /\ got' = IF p.ret = 0 THEN Append(got, <<p.cmd, p.seq, p.payload>>) ELSE got
      /\ pc' = IF p.ret = Undefined THEN "undefined" ELSE pc

NoFrame == Heads # {} => First(Heads) + FrameSize(First(Heads)) - 1 > Len(buf)

(* tryParseFramesFromRx, one turn of its loop.                                 *)
Parse ==
  /\ pc = "parse"
  /\ \/ TakeFrame
     \/ NoFrame /\ pc' = "read" /\ UNCHANGED <<buf, got, calls>>
  /\ UNCHANGED <<sent, line, lost>>

Next == Parse \/ \E n \in 1..MaxChunk : Read(n)

Spec == Init /\ [][Next]_vars

-----------------------------------------------------------------------------
TypeOK == LineTypeOK /\ lost \in BOOLEAN /\ Len(buf) < RX_BUFFER_SIZE

(* io_buffer.h: as many whole frames as there are.  When the parser waits for more *)
(* bytes it has handed over exactly the good frames that have arrived, in order    *)
(* and once: none is kept back, however the bytes were cut.  So it is on a line of  *)
(* frames; a head that is none may cost frames (UnspoiltComeOut).                *)
FramesComeOut == pc = "read" => got = GoodUpTo(Arrived, LastByte)

(* A good frame is spoilt if a head before it, in what is no frame or in a spoilt   *)
(* one, promises bytes of it: io_buffer.c:81 takes them all out.  Reach[k] is the    *)
(* last byte that heads of the first k items promise.                            *)
Reach ==
  LET s         == BytesOf(sent)
      Size(i)   == (6 + WordAt(s, i + 2)) % Word
      HeadsOf(k) == {i \in FirstByte[k]..LastByte[k] :
                       /\ i + 3 <= Len(s) /\ s[i] = Head0 /\ s[i + 1] = Head1
                       /\ Size(i) <= MAX_FRAME_SIZE}
      reach[k \in 0..Len(sent)] ==
        IF k = 0 THEN 0
        ELSE IF sent[k].good /\ FirstByte[k] > reach[k - 1] THEN reach[k - 1]
        ELSE Max({reach[k - 1]} \cup {i + Size(i) - 1 : i \in HeadsOf(k)})
  IN  reach

(* The good frames that have arrived and are not spoilt.                          *)
Due == LET reach == Reach
       IN  GoodUpTo(Arrived, [k \in DOMAIN sent |->
             IF FirstByte[k] > reach[k - 1] THEN LastByte[k] ELSE Arrived + 1])

(* Between frames there may be anything: whenever the parser waits for more bytes it   *)
(* has handed over every good frame that is not spoilt, and nothing but good frames,   *)
(* in order and once.  (It never waits again once it is Stuck.)                     *)
UnspoiltComeOut ==
  pc = "read" => Within(Due, got) /\ Within(got, GoodUpTo(Arrived, LastByte))

(* A ring with room for a frame and a chunk never drops a byte.                  *)
NothingDropped == ~lost

(* Bytes dropped from a full ring cost frames, but what is left on both sides of   *)
(* the gap never makes up a frame nobody sent, nor the same one again.           *)
NothingInvented == Within(got, GoodUpTo(Len(BytesOf(sent)), LastByte))

(* protocol/readme.md: a frame is reliably identified within a continuous stream. *)
(* At the end of the stream every good frame has been handed over.               *)
GoodFramesTaken == pc = "read" /\ line = <<>> => got = GoodUpTo(Arrived, LastByte)

(* io_buffer.c:33: eight bytes are the least a frame can have by protocol.c, so     *)
(* that parseFrame is defined on every frame the ring gives it.                 *)
ParseDefined == pc # "undefined"

(* io_buffer.c:61 computes the size of a frame in 16 bits: 0 for a length of 65530.   *)
(* Such a frame is taken without using up its head, and the next call finds it again. *)
Stuck == Heads # {} /\ FrameSize(First(Heads)) = 0

(* tryParseFramesFromRx comes to an end unless it is stuck: every frame it takes,     *)
(* good or bad, uses up bytes of the ring, however short it is.                   *)
BytesUsedUp == calls + Len(buf) <= RX_BUFFER_SIZE

ParseEnds == Stuck \/ BytesUsedUp
=============================================================================

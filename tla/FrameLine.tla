------------------------------- MODULE FrameLine -------------------------------
(***************************************************************************)
(* A byte stream and what was put into it: frames, and whatever else a line   *)
(* carries.  A receiver takes the stream in chunks of any size, keeps the     *)
(* bytes it has not used yet, and hands over the contents of the frames it    *)
(* finds.  RxRing and FrameParser are two such receivers.                     *)
(***************************************************************************)
EXTENDS Frames, FiniteSets

CONSTANTS
  Streams,    (* the streams of a run: sequences of items, an item being a     *)
              (* record of its bytes and whether they are a good frame         *)
  MaxChunk    (* the size of the buffer the program reads into                 *)

VARIABLES
  sent,       (* the stream                                                   *)
  line,       (* the bytes of it that have not been read                      *)
  buf,        (* bytes read and not used                                      *)
  got,        (* contents of the frames handed over                           *)
  pc          (* "read" or "parse"                                            *)

lineVars == <<sent, line, buf, got, pc>>

BytesOf(items) == FlattenSeq([i \in DOMAIN items |-> items[i].bytes])

LineInit ==
  /\ sent \in Streams /\ line = BytesOf(sent)
  /\ buf = <<>> /\ got = <<>> /\ pc = "read"

Content(f) == LET p == parseFrame(f) IN <<p.cmd, p.seq, p.payload>>

(* The first and the last byte of an item of the stream.                       *)
FirstByte == [i \in DOMAIN sent |-> Len(BytesOf(SubSeq(sent, 1, i - 1))) + 1]
LastByte  == [i \in DOMAIN sent |-> Len(BytesOf(SubSeq(sent, 1, i)))]

(* The good frames of the stream of which the first byte, or the last, is among  *)
(* the first n bytes.                                                         *)
GoodUpTo(n, edge) ==
  LET good[i \in 0..Len(sent)] ==
        IF i = 0 THEN <<>>
        ELSE IF sent[i].good /\ edge[i] <= n THEN Append(good[i - 1], Content(sent[i].bytes))
        ELSE good[i - 1]
  IN  good[Len(sent)]

(* s is what is left of t when some of its entries are taken out.                *)
Within(s, t) ==
  FoldLeft(LAMBDA k, f : IF k < Len(s) /\ s[k + 1] = f THEN k + 1 ELSE k, 0, t) = Len(s)

Arrived == Len(BytesOf(sent)) - Len(line)
Used    == Arrived - Len(buf)

LineTypeOK ==
  /\ pc \in {"read", "parse", "undefined"}
  /\ \A i \in DOMAIN buf : buf[i] \in 0..255
  /\ Used >= 0
=============================================================================

----------------------------- MODULE MCReception ------------------------------
(* Frames on their way through a line and into a receiver, for model checking:   *)
(* the ring of the device programs (RxRing) with three kinds of streams, the      *)
(* parser of the gateway (FrameParser), and a frame whose bits are changed        *)
(* (FrameDamage).  They do not act on each other; part says which of them runs,   *)
(* and the variables of the others rest.                                       *)
EXTENDS Naturals, Sequences

VARIABLES
  part,
  sent, line, buf, got, pc,       (* FrameLine *)
  lost, calls,                    (* RxRing *)
  content, frame, intact          (* FrameDamage *)

LOCAL lineVars   == <<sent, line, buf, got, pc>>
LOCAL ringVars   == <<lineVars, lost, calls>>
LOCAL damageVars == <<content, frame, intact>>

F == INSTANCE Frames

LOCAL Good(f)  == [bytes |-> f, good |-> TRUE]
LOCAL Noise(b) == [bytes |-> b, good |-> FALSE]

Ping   == Good(F!buildFrame(1, 7, <<>>))
Query  == Good(F!buildFrame(2, 7, <<>>))
Ask    == Good(F!buildFrame(66, 8, <<170, 85>>))           (* a head in its payload *)
Empty  == Noise(<<>>)
Hiss   == Noise(<<0, 85, 170>>)                          (* no head               *)
Broken == Noise([Ask.bytes EXCEPT ![6] = 9])              (* checksum fails         *)
Torn   == Noise([Ping.bytes EXCEPT ![9] = 0])             (* tail is wrong          *)
Huge   == Noise(<<170, 85, 60, 0, 0, 0, 0, 0>>)           (* more than MAX          *)
Tiny   == Noise(<<170, 85, 2, 0, 0, 0, 85, 170>>)         (* length too small       *)
Lying  == Noise(<<170, 85, 8, 0>>)                        (* promises 14 bytes      *)
Short  == Noise(<<170, 85, 1, 0, 9>>)                     (* promises 7, has 5      *)
Wrapped == Noise(<<170, 85, 250, 255>>)                   (* 6 + 65530 wraps to 0   *)

(* Frames of at most 12 bytes are cut into chunks of any size up to MaxChunk.       *)
Clean == INSTANCE RxRing WITH
  Streams <- {<<a, b, c>> : a, b, c \in {Ping, Ask}},
  MaxChunk <- 6, RX_BUFFER_SIZE <- 18, MAX_FRAME_SIZE <- 14

Noisy == INSTANCE RxRing WITH
  Streams <- {<<a, Ask, b, Ping>> :
                a, b \in {Empty, Hiss, Broken, Torn, Huge, Lying, Short, Wrapped}},
  MaxChunk <- 6, RX_BUFFER_SIZE <- 40, MAX_FRAME_SIZE <- 14

(* Reads larger than the ring. *)
Full == INSTANCE RxRing WITH
  Streams <- {<<Ping, Query, Ping, a, Query>> : a \in {Ping, Ask}},
  MaxChunk <- 25, RX_BUFFER_SIZE <- 16, MAX_FRAME_SIZE <- 14

Gateway == INSTANCE FrameParser WITH
  Streams <- {<<a, Ask, b, Ping, Ask, Ping, Ping>> : a, b \in {Hiss, Broken, Torn, Lying, Tiny}},
  MaxChunk <- 7

(* Every pattern of up to 7 bits; and, for the longer ones, first and last bit      *)
(* with none, all or some of the bits between them.                             *)
Damage == INSTANCE FrameDamage WITH
  Contents <- {[cmd |-> 1, seq |-> 0, payload |-> <<>>],
               [cmd |-> 64, seq |-> 255, payload |-> <<170, 85, 4>>]},
  Bursts <- {2 * n + 1 : n \in 0..63} \cup {1 + 2^n : n \in 1..15} \cup {2^n - 1 : n \in 2..16}
            \cup {(2^16 - 1) \div 3, 2^12 + 341, 2^9 + 2^4 + 1}

-----------------------------------------------------------------------------
LOCAL DamageRests == content = "none" /\ frame = <<>> /\ intact = TRUE
LOCAL LineRests   == sent = <<>> /\ line = <<>> /\ buf = <<>> /\ got = <<>> /\ pc = "read"

Init ==
  \/ /\ DamageRests
     /\ \/ part = "clean" /\ Clean!Init
        \/ part = "noisy" /\ Noisy!Init
        \/ part = "full"  /\ Full!Init
        \/ part = "gateway" /\ Gateway!LineInit /\ lost = FALSE /\ calls = 0
  \/ part = "damage" /\ Damage!Init /\ LineRests /\ lost = FALSE /\ calls = 0

Next ==
  \/ /\ UNCHANGED <<part, damageVars>>
     /\ \/ part = "clean" /\ Clean!Next
        \/ part = "noisy" /\ Noisy!Next
        \/ part = "full"  /\ Full!Next
        \/ part = "gateway" /\ Gateway!ParserNext /\ UNCHANGED <<lost, calls>>
  \/ part = "damage" /\ Damage!Next /\ UNCHANGED <<part, ringVars>>

Spec == Init /\ [][Next]_<<part, ringVars, damageVars>>

-----------------------------------------------------------------------------
(* io_buffer.c and ProtocolParser: good frames come out once and in order, however   *)
(* the stream is cut.  From the ring, as soon as it waits for more bytes: all of them *)
(* on a line of frames, in a ring with just the room a frame and a chunk need; and    *)
(* with noise between them all that no false head reaches over.  From the gateway,    *)
(* whatever stands between them, before their bytes are let go: it gives up a read at *)
(* a bad frame, and what is behind that waits for as many reads and bytes as it can   *)
(* cost, and no more.                                                           *)
GoodFramesOut ==
  /\ part = "clean"   => Clean!FramesComeOut
  /\ part = "noisy"   => Noisy!UnspoiltComeOut
  /\ part = "gateway" => Gateway!GoodFramesKept /\ Gateway!CaughtUp

(* io_buffer.c, feedRxBuffer drops what does not fit: the frames that come out of an  *)
(* overflowing ring are frames that were sent, in order and none twice.            *)
NothingInvented == part = "full" => Full!NothingInvented

(* tryParseFramesFromRx: its loop ends, because every frame it takes uses up bytes,   *)
(* unless it comes upon a head whose size wraps to 0.  The noisy streams have one.    *)
ParseEnds ==
  /\ part = "clean" => Clean!ParseEnds
  /\ part = "noisy" => Noisy!ParseEnds
  /\ part = "full"  => Full!ParseEnds

(* protocol.c: a frame that was built is parsed as what it was, and one in which bits  *)
(* were changed within two bytes is refused, wherever that was.                    *)
FrameOrNothing == part = "damage" => Damage!RoundTrip /\ Damage!DamageIsSeen
=============================================================================

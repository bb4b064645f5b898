------------------------------ MODULE FrameDamage ------------------------------
(***************************************************************************)
(* A frame on its way from buildFrame to parseFrame, and what a line may do   *)
(* to it: some bits change within a window of limited length.                *)
(***************************************************************************)
EXTENDS Frames

CONSTANTS
  Contents,   (* the frames, as records with cmd, seq and payload             *)
  Bursts      (* patterns of changed bits, 1..2^16-1, lowest bit first        *)

VARIABLES content, frame, intact

Init ==
  /\ content \in Contents
  /\ frame = buildFrame(content.cmd, content.seq, content.payload)
  /\ intact = TRUE

(* The pattern p, laid over the frame from bit k of byte i on.                 *)
Laid(p, k, i, j) == LET w == p * 2^k IN
  IF j \in i..(i + 2) THEN (w \div 256^(j - i)) % 256 ELSE 0

Damage(p, k, i) ==
  /\ intact /\ intact' = FALSE
  /\ IF i + 2 > Len(frame) THEN p * 2^k < 256^(Len(frame) - i + 1) ELSE TRUE
  /\ frame' = [j \in DOMAIN frame |-> ByteOf(SymDiff(Bits(frame[j]), Bits(Laid(p, k, i, j))), 0)]
  /\ UNCHANGED content

Next == \E p \in Bursts, k \in 0..7, i \in DOMAIN frame : Damage(p, k, i)

Spec == Init /\ [][Next]_<<content, frame, intact>>

(* What was built is what is parsed.                                           *)
RoundTrip == intact =>
  parseFrame(frame) = [ret |-> 0, cmd |-> content.cmd, seq |-> content.seq, payload |-> content.payload]

(* protocol/readme.md: head, tail, length and checksum make sure of a frame.     *)
(* Bits changed within 16 bits, anywhere in the frame and across the borders of  *)
(* its fields, are always seen.                                               *)
DamageIsSeen == ~intact => parseFrame(frame).ret # 0
=============================================================================

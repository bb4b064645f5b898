-------------------------------- MODULE Frames --------------------------------
(***************************************************************************)
(* The frame format of the protocol, protocol/protocol.c, byte by byte:       *)
(*                                                                         *)
(*   AA 55 | length (2) | command | sequence | payload | CRC (2) | 55 AA       *)
(*                                                                         *)
(* with both numbers in little-endian order, the length counted from command   *)
(* to CRC and the CRC taken from command to payload.  Bytes are numbers, and   *)
(* 16-bit arithmetic wraps as it does in C.                                  *)
(***************************************************************************)
EXTENDS Integers, Sequences, SequencesExt, FiniteSetsExt

Word == 65536

LOCAL Low(w)  == w % 256
LOCAL High(w) == w \div 256

Head0 == 170
Head1 == 85
Tail0 == 85
Tail1 == 170

(* The number of 16 bits at position i of s.                                  *)
WordAt(s, i) == s[i] + 256 * s[i + 1]

(* A word as the set of its bits that are one: ^ is the symmetric difference,     *)
(* >> moves the bits.                                                        *)
Bits(w) == {i \in 0..15 : (w \div 2^i) % 2 = 1}

shiftR(bits, n) == {i \in 0..15 : i + n \in bits}

(* The byte that begins with bit k, and the word.                              *)
ByteOf(bits, k) ==
  LET b(i) == IF k + i \in bits THEN 1 ELSE 0
  IN  b(0) + 2 * b(1) + 4 * b(2) + 8 * b(3) + 16 * b(4) + 32 * b(5) + 64 * b(6) + 128 * b(7)

Number(bits) == ByteOf(bits, 0) + 256 * ByteOf(bits, 8)

(* One byte into the checksum.  Mutant: the polynomial is left out.            *)
CrcByteShifts(crc, b) == shiftR(SymDiff(crc, Bits(b)), 8)

Polynomial == {15, 13, 0}        (* 0xA001 *)

CrcByte(crc, b) ==
  FoldLeft(LAMBDA c, bit : IF 0 \in c THEN SymDiff(shiftR(c, 1), Polynomial) ELSE shiftR(c, 1),
           SymDiff(crc, Bits(b)), [bit \in 1..8 |-> bit])

CRC16_Calc(data, initVal) == Number(FoldLeft(CrcByte, Bits(initVal), data))

Crc(cmd, seq, payload) == CRC16_Calc(<<cmd, seq>> \o payload, Word - 1)

(* buildFrame, when the caller's buffer is large enough.                       *)
(* Mutant: the length leaves out the checksum.                                *)
buildFrameShort(cmd, seq, payload) ==
  LET lengthField == (Len(payload) + 2) % Word
      crc         == Crc(cmd, seq, payload)
  IN  <<Head0, Head1, Low(lengthField), High(lengthField), cmd, seq>> \o payload
        \o <<Low(crc), High(crc), Tail0, Tail1>>

buildFrame(cmd, seq, payload) ==
  LET lengthField == (Len(payload) + 4) % Word
      crc         == Crc(cmd, seq, payload)
  IN  <<Head0, Head1, Low(lengthField), High(lengthField), cmd, seq>> \o payload
        \o <<Low(crc), High(crc), Tail0, Tail1>>

(* parseFrame.  A length field of 2 or 3 passes every check and makes the       *)
(* payload 2^16 - 2 or 2^16 - 1 bytes long: those are read and written far      *)
(* outside the arrays.                                                       *)
Undefined == 1

(* Mutant: the checksum is not compared.                                     *)
parseFrameUnchecked(f) ==
  LET inLen       == Len(f)
      lengthField == WordAt(f, 3)
      Fails(ret)  == [ret |-> ret, cmd |-> 0, seq |-> 0, payload |-> <<>>]
      payload     == SubSeq(f, 7, lengthField + 2)
  IN  IF inLen < 8 THEN Fails(-3)
      ELSE IF <<f[1], f[2]>> # <<Head0, Head1>> THEN Fails(-1)
      ELSE IF <<f[inLen - 1], f[inLen]>> # <<Tail0, Tail1>> THEN Fails(-2)
      ELSE IF (6 + lengthField) % Word # inLen THEN Fails(-3)
      ELSE IF lengthField < 4 THEN Fails(Undefined)
      ELSE [ret |-> 0, cmd |-> f[5], seq |-> f[6], payload |-> payload]

parseFrame(f) ==
  LET inLen       == Len(f)
      lengthField == WordAt(f, 3)
      Fails(ret)  == [ret |-> ret, cmd |-> 0, seq |-> 0, payload |-> <<>>]
      payload     == SubSeq(f, 7, lengthField + 2)
  IN  IF inLen < 8 THEN Fails(-3)
      ELSE IF <<f[1], f[2]>> # <<Head0, Head1>> THEN Fails(-1)
      ELSE IF <<f[inLen - 1], f[inLen]>> # <<Tail0, Tail1>> THEN Fails(-2)
      ELSE IF (6 + lengthField) % Word # inLen THEN Fails(-3)
      ELSE IF lengthField < 4 THEN Fails(Undefined)
      ELSE IF WordAt(f, lengthField + 3) # Crc(f[5], f[6], payload) THEN Fails(-4)
      ELSE [ret |-> 0, cmd |-> f[5], seq |-> f[6], payload |-> payload]
=============================================================================

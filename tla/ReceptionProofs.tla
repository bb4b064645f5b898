--------------------------- MODULE ReceptionProofs ----------------------------
(***************************************************************************)
(* Proofs about frames and about the two receivers, RxRing and FrameParser, *)
(* for payloads, streams and chunks of any length.                         *)
(***************************************************************************)
EXTENDS RxRing, FrameParser, SequenceOrder, FiniteSetTheorems

Byte == {b \in Nat : b < 256}

-----------------------------------------------------------------------------
(* The checksum is a word whatever bits it is made of.                       *)
LEMMA ByteOfIsByte == ASSUME NEW bits, NEW k PROVE ByteOf(bits, k) \in Byte
<1> DEFINE b(i) == IF k + i \in bits THEN 1 ELSE 0
<1>1. \A i : b(i) \in {0, 1} OBVIOUS
<1>2. ByteOf(bits, k) = b(0) + 2 * b(1) + 4 * b(2) + 8 * b(3) + 16 * b(4) + 32 * b(5)
                          + 64 * b(6) + 128 * b(7)
  BY DEF ByteOf
<1> HIDE DEF b
<1>3. QED BY <1>1, <1>2 DEF Byte

LEMMA WordOfBytes ==
  ASSUME NEW l \in Byte, NEW h \in Byte
  PROVE  l + 256 * h \in Nat /\ l + 256 * h < Word
<1>1. l \in Nat /\ h \in Nat /\ l < 256 /\ h < 256 BY DEF Byte
<1>2. QED BY <1>1 DEF Word

LEMMA CrcIsWord == ASSUME NEW c, NEW s, NEW p PROVE Crc(c, s, p) \in Nat /\ Crc(c, s, p) < Word
<1>1. ASSUME NEW bits PROVE Number(bits) \in Nat /\ Number(bits) < Word
  BY ByteOfIsByte, WordOfBytes DEF Number
<1>2. \E bits : Crc(c, s, p) = Number(bits) BY DEF Crc, CRC16_Calc
<1>3. QED BY <1>1, <1>2

(* A word and its two bytes.                                                 *)
LEMMA BytesOfWord ==
  ASSUME NEW w \in Nat, w < Word
  PROVE  w % 256 \in Byte /\ w \div 256 \in Byte /\ (w % 256) + 256 * (w \div 256) = w
<1>1. w % 256 \in Nat /\ w % 256 < 256 OBVIOUS
<1>2. w \div 256 \in Nat /\ w \div 256 < 256 BY DEF Word
<1>3. w = 256 * (w \div 256) + (w % 256) OBVIOUS
<1>4. QED BY <1>1, <1>2, <1>3 DEF Byte

(* What buildFrame returns, byte by byte.                                    *)
FrameBytes(f, c, s, p) ==
  /\ f \in Seq(Byte) /\ Len(f) = Len(p) + 10
  /\ f[1] = Head0 /\ f[2] = Head1 /\ f[5] = c /\ f[6] = s
  /\ \A i \in 1..Len(p) : f[i + 6] = p[i]
  /\ WordAt(f, 3) = Len(p) + 4
  /\ WordAt(f, Len(p) + 7) = Crc(c, s, p)
  /\ f[Len(p) + 9] = Tail0 /\ f[Len(p) + 10] = Tail1

LEMMA ThreeParts ==
  ASSUME NEW a \in Seq(Byte), NEW p \in Seq(Byte), NEW z \in Seq(Byte), NEW f, f = a \o p \o z
  PROVE  /\ f \in Seq(Byte) /\ Len(f) = Len(a) + Len(p) + Len(z)
         /\ Len(a) \in Nat /\ Len(p) \in Nat /\ Len(z) \in Nat
         /\ \A i \in 1..Len(a) : f[i] = a[i]
         /\ \A i \in 1..Len(p) : f[Len(a) + i] = p[i]
         /\ \A i \in 1..Len(z) : f[Len(a) + Len(p) + i] = z[i]
<1>1. PICK g : g = a \o p OBVIOUS
<1>2. /\ g \in Seq(Byte) /\ Len(a) \in Nat /\ Len(p) \in Nat /\ Len(g) = Len(a) + Len(p)
      /\ \A i \in 1..Len(a) : g[i] = a[i]
      /\ \A i \in 1..Len(p) : g[Len(a) + i] = p[i]
  BY <1>1, ConcatEntries
<1>3. /\ f \in Seq(Byte) /\ Len(z) \in Nat /\ Len(f) = Len(g) + Len(z)
      /\ \A i \in 1..Len(g) : f[i] = g[i]
      /\ \A i \in 1..Len(z) : f[Len(g) + i] = z[i]
  BY <1>1, <1>2, ConcatEntries
<1>4. ASSUME NEW i \in 1..Len(a) PROVE f[i] = a[i]
  <2>1. i \in 1..Len(g) BY <1>2
  <2>2. QED BY <1>2, <1>3, <2>1
<1>5. ASSUME NEW i \in 1..Len(p) PROVE f[Len(a) + i] = p[i]
  <2>1. Len(a) + i \in 1..Len(g) BY <1>2
  <2>2. QED BY <1>2, <1>3, <2>1
<1>6. QED BY <1>2, <1>3, <1>4, <1>5

LEMMA Entries ==
  ASSUME NEW a \in Seq(Byte), NEW p \in Seq(Byte), NEW z \in Seq(Byte)
  PROVE  Len(a) = 6 /\ Len(z) = 4 =>
         /\ a \o p \o z \in Seq(Byte) /\ Len(a \o p \o z) = Len(p) + 10
         /\ \A i \in 1..6 : (a \o p \o z)[i] = a[i]
         /\ \A i \in 1..Len(p) : (a \o p \o z)[i + 6] = p[i]
         /\ \A i \in 1..4 : (a \o p \o z)[Len(p) + 6 + i] = z[i]
<1>0. PICK f : f = a \o p \o z OBVIOUS
<1>1. /\ f \in Seq(Byte) /\ Len(f) = Len(a) + Len(p) + Len(z) /\ Len(p) \in Nat
      /\ \A i \in 1..Len(a) : f[i] = a[i]
      /\ \A i \in 1..Len(p) : f[Len(a) + i] = p[i]
      /\ \A i \in 1..Len(z) : f[Len(a) + Len(p) + i] = z[i]
  BY <1>0, ThreeParts
<1>2. HAVE Len(a) = 6 /\ Len(z) = 4
<1>3. Len(f) = Len(p) + 10 BY <1>1, <1>2
<1>4. ASSUME NEW i \in 1..Len(p) PROVE f[i + 6] = p[i]
  <2>1. Len(a) + i = i + 6 BY <1>2
  <2>2. QED BY <1>1, <2>1
<1>5. ASSUME NEW i \in 1..4 PROVE f[Len(p) + 6 + i] = z[i]
  <2>1. Len(a) + Len(p) + i = Len(p) + 6 + i /\ i \in 1..Len(z) BY <1>1, <1>2
  <2>2. QED BY <1>1, <2>1
<1>6. \A i \in 1..6 : f[i] = a[i] BY <1>1, <1>2
<1>7. QED BY <1>0, <1>1, <1>3, <1>4, <1>5, <1>6

LEMMA BuiltBytes ==
  ASSUME NEW c \in Byte, NEW s \in Byte, NEW p \in Seq(Byte), Len(p) + 4 < Word
  PROVE  FrameBytes(buildFrame(c, s, p), c, s, p)
<1>1. PICK crc \in Nat : crc = Crc(c, s, p) /\ crc < Word BY CrcIsWord
<1>2. PICK len \in Nat : len = (Len(p) + 4) % Word /\ len = Len(p) + 4 /\ len < Word
  <2>1. Len(p) \in Nat OBVIOUS
  <2>2. QED BY <2>1 DEF Word
<1>3. /\ len % 256 \in Byte /\ len \div 256 \in Byte /\ (len % 256) + 256 * (len \div 256) = len
      /\ crc % 256 \in Byte /\ crc \div 256 \in Byte /\ (crc % 256) + 256 * (crc \div 256) = crc
  <2>1. /\ len \in Nat /\ len < Word
        /\ crc \in Nat /\ crc < Word
    BY <1>1, <1>2
  <2>2. \A w \in Nat : w < Word =>
          w % 256 \in Byte /\ w \div 256 \in Byte /\ (w % 256) + 256 * (w \div 256) = w
    BY BytesOfWord
  <2>3. QED BY ONLY <2>1, <2>2
<1>4. PICK a \in Seq(Byte), z \in Seq(Byte) :
        /\ a = <<Head0, Head1, len % 256, len \div 256, c, s>>
        /\ z = <<crc % 256, crc \div 256, Tail0, Tail1>>
  <2>1. \A u, v \in Byte : <<Head0, Head1, u, v, c, s>> \in Seq(Byte) /\ <<u, v, Tail0, Tail1>> \in Seq(Byte)
    BY DEF Byte, Head0, Head1, Tail0, Tail1
  <2>2. QED BY <1>3, <2>1
<1>5. buildFrame(c, s, p) = a \o p \o z
  <2>1. buildFrame(c, s, p) = <<Head0, Head1, len % 256, len \div 256, c, s>> \o p
                                \o <<crc % 256, crc \div 256, Tail0, Tail1>>
    BY <1>1, <1>2 DEF buildFrame
  <2>2. QED BY <1>4, <2>1
<1>6. /\ a[1] = Head0 /\ a[2] = Head1 /\ a[3] = len % 256 /\ a[4] = len \div 256 /\ a[5] = c /\ a[6] = s
      /\ z[1] = crc % 256 /\ z[2] = crc \div 256 /\ z[3] = Tail0 /\ z[4] = Tail1
      /\ Len(a) = 6 /\ Len(z) = 4
  BY <1>4
<1>7. PICK f : f = a \o p \o z OBVIOUS
<1>8. /\ f \in Seq(Byte) /\ Len(f) = Len(p) + 10
      /\ \A i \in 1..6 : f[i] = a[i]
      /\ \A i \in 1..Len(p) : f[i + 6] = p[i]
      /\ \A i \in 1..4 : f[Len(p) + 6 + i] = z[i]
  <2>1. Len(a) = 6 /\ Len(z) = 4 =>
          /\ a \o p \o z \in Seq(Byte) /\ Len(a \o p \o z) = Len(p) + 10
          /\ \A i \in 1..6 : (a \o p \o z)[i] = a[i]
          /\ \A i \in 1..Len(p) : (a \o p \o z)[i + 6] = p[i]
          /\ \A i \in 1..4 : (a \o p \o z)[Len(p) + 6 + i] = z[i]
    BY Entries
  <2>2. QED BY <1>6, <1>7, <2>1
<1>9. f[1] = a[1] /\ f[2] = a[2] /\ f[3] = a[3] /\ f[4] = a[4] /\ f[5] = a[5] /\ f[6] = a[6]
  BY <1>8
<1>10. /\ f[Len(p) + 7] = z[1] /\ f[Len(p) + 8] = z[2]
       /\ f[Len(p) + 9] = z[3] /\ f[Len(p) + 10] = z[4]
  <2>1. /\ Len(p) + 6 + 1 = Len(p) + 7 /\ Len(p) + 6 + 2 = Len(p) + 8
        /\ Len(p) + 6 + 3 = Len(p) + 9 /\ Len(p) + 6 + 4 = Len(p) + 10
    OBVIOUS
  <2>2. QED BY <1>8, <2>1
<1>11. WordAt(f, 3) = Len(p) + 4
  <2>1. 3 + 1 = 4 OBVIOUS
  <2>2. WordAt(f, 3) = f[3] + 256 * f[4] BY <2>1 DEF WordAt
  <2>3. f[3] = len % 256 /\ f[4] = len \div 256 BY <1>6, <1>9
  <2>4. QED BY <1>2, <1>3, <2>2, <2>3
<1>12. WordAt(f, Len(p) + 7) = Crc(c, s, p)
  <2>1. (Len(p) + 7) + 1 = Len(p) + 8 OBVIOUS
  <2>2. WordAt(f, Len(p) + 7) = f[Len(p) + 7] + 256 * f[Len(p) + 8] BY <2>1 DEF WordAt
  <2>3. f[Len(p) + 7] = crc % 256 /\ f[Len(p) + 8] = crc \div 256 BY <1>6, <1>10
  <2>4. QED BY <1>1, <1>3, <2>2, <2>3
<1>13. FrameBytes(f, c, s, p) BY <1>6, <1>8, <1>9, <1>10, <1>11, <1>12 DEF FrameBytes
<1>14. QED BY <1>5, <1>7, <1>13

(* There is one sequence of bytes of which this is true.                     *)
LEMMA BytesAreBuilt ==
  ASSUME NEW c \in Byte, NEW s \in Byte, NEW p \in Seq(Byte), Len(p) + 4 < Word,
         NEW f, FrameBytes(f, c, s, p)
  PROVE  f = buildFrame(c, s, p)
<1>1. PICK g : g = buildFrame(c, s, p) /\ FrameBytes(g, c, s, p) BY BuiltBytes
<1>2. /\ f \in Seq(Byte) /\ Len(f) = Len(p) + 10 /\ g \in Seq(Byte) /\ Len(g) = Len(p) + 10
      /\ Len(p) \in Nat
  BY <1>1 DEF FrameBytes
<1>3. ASSUME NEW x \in Byte, NEW y \in Byte, NEW u \in Byte, NEW v \in Byte,
             x + 256 * y = u + 256 * v
      PROVE  x = u /\ y = v
  <2>1. /\ x \in Nat /\ y \in Nat /\ u \in Nat /\ v \in Nat
        /\ x < 256 /\ y < 256 /\ u < 256 /\ v < 256
    BY DEF Byte
  <2>2. QED BY <1>3, <2>1
<1>4. f[3] = g[3] /\ f[4] = g[4]
  <2>1. f[3] \in Byte /\ f[4] \in Byte /\ g[3] \in Byte /\ g[4] \in Byte BY <1>2
  <2>2. f[3] + 256 * f[4] = g[3] + 256 * g[4] BY <1>1 DEF FrameBytes, WordAt
  <2>3. QED BY <1>3, <2>1, <2>2
<1>5. f[Len(p) + 7] = g[Len(p) + 7] /\ f[Len(p) + 8] = g[Len(p) + 8]
  <2>1. /\ f[Len(p) + 7] \in Byte /\ f[Len(p) + 8] \in Byte
        /\ g[Len(p) + 7] \in Byte /\ g[Len(p) + 8] \in Byte
    BY <1>2
  <2>2. (Len(p) + 7) + 1 = Len(p) + 8 BY <1>2
  <2>3. f[Len(p) + 7] + 256 * f[Len(p) + 8] = g[Len(p) + 7] + 256 * g[Len(p) + 8]
    BY <1>1, <2>2 DEF FrameBytes, WordAt
  <2>4. QED BY <1>3, <2>1, <2>3
<1>6. ASSUME NEW i \in 1..(Len(p) + 10) PROVE f[i] = g[i]
  <2>1. CASE i <= 6
    <3>1. i \in {1, 2, 3, 4, 5, 6} BY <2>1
    <3>2. QED BY <1>1, <1>4, <3>1 DEF FrameBytes
  <2>2. CASE i > 6 /\ i <= Len(p) + 6
    <3>1. PICK j \in 1..Len(p) : i = j + 6
      <4>1. i - 6 \in 1..Len(p) /\ i = (i - 6) + 6 BY <1>2, <2>2
      <4>2. QED BY <4>1
    <3>2. QED BY <1>1, <3>1 DEF FrameBytes
  <2>3. CASE i > Len(p) + 6
    <3>1. i \in {Len(p) + 7, Len(p) + 8, Len(p) + 9, Len(p) + 10} BY <1>2, <2>3
    <3>2. QED BY <1>1, <1>5, <3>1 DEF FrameBytes
  <2>4. QED BY <1>2, <2>1, <2>2, <2>3
<1>7. f = g BY <1>2, <1>6
<1>8. QED BY <1>1, <1>7

-----------------------------------------------------------------------------
(* protocol.c, buildFrame and parseFrame: what is built is parsed as what it was,   *)
(* whatever the command, the sequence number and the payload, as long as the       *)
(* length of the frame is a 16-bit number.                                      *)
THEOREM BuiltIsParsed ==
  ASSUME NEW c \in Byte, NEW s \in Byte, NEW p \in Seq(Byte), Len(p) + 10 < Word
  PROVE  parseFrame(buildFrame(c, s, p)) = [ret |-> 0, cmd |-> c, seq |-> s, payload |-> p]
<1>1. PICK f : f = buildFrame(c, s, p) OBVIOUS
<1>2. FrameBytes(f, c, s, p)
  <2>1. Len(p) \in Nat /\ Len(p) + 4 < Word BY DEF Word
  <2>2. QED BY <1>1, <2>1, BuiltBytes
<1>3. Len(p) \in Nat /\ Len(f) = Len(p) + 10 /\ f \in Seq(Byte) BY <1>2 DEF FrameBytes
<1>4. SubSeq(f, 7, WordAt(f, 3) + 2) = p
  <2>1. WordAt(f, 3) + 2 = Len(p) + 6 BY <1>2, <1>3 DEF FrameBytes
  <2>2. PICK q : q = SubSeq(f, 7, Len(p) + 6) OBVIOUS
  <2>3. q \in Seq(Byte) /\ Len(q) = Len(p) /\ \A i \in 1..Len(p) : q[i] = f[i + 6]
    BY <1>3, <2>2
  <2>4. \A i \in 1..Len(p) : q[i] = p[i] BY <1>2, <2>3 DEF FrameBytes
  <2>5. q = p BY <2>3, <2>4
  <2>6. QED BY <2>1, <2>2, <2>5
<1>5. /\ ~(Len(f) < 8) /\ <<f[1], f[2]>> = <<Head0, Head1>>
      /\ <<f[Len(f) - 1], f[Len(f)]>> = <<Tail0, Tail1>>
  <2>1. Len(f) - 1 = Len(p) + 9 BY <1>3
  <2>2. QED BY <1>2, <1>3, <2>1 DEF FrameBytes
<1>6. (6 + WordAt(f, 3)) % Word = Len(f) /\ ~(WordAt(f, 3) < 4)
  <2>1. WordAt(f, 3) = Len(p) + 4 BY <1>2 DEF FrameBytes
  <2>2. (6 + (Len(p) + 4)) % Word = Len(p) + 10 /\ ~(Len(p) + 4 < 4) BY <1>3 DEF Word
  <2>3. QED BY <1>3, <2>1, <2>2
<1>7. WordAt(f, WordAt(f, 3) + 3) = Crc(f[5], f[6], p)
  <2>1. WordAt(f, 3) + 3 = Len(p) + 7 BY <1>2, <1>3 DEF FrameBytes
  <2>2. QED BY <1>2, <2>1 DEF FrameBytes
<1>8. f[5] = c /\ f[6] = s BY <1>2 DEF FrameBytes
<1>9. parseFrame(f) = [ret |-> 0, cmd |-> c, seq |-> s, payload |-> p]
  BY <1>4, <1>5, <1>6, <1>7, <1>8 DEF parseFrame
<1>10. QED BY <1>1, <1>9

(* protocol.c, parseFrame: whatever bytes it is given, it accepts nothing but what   *)
(* buildFrame makes of the command, the sequence number and the payload it returns.  *)
THEOREM ParsedIsBuilt ==
  ASSUME NEW f \in Seq(Byte), parseFrame(f).ret = 0
  PROVE  LET r == parseFrame(f) IN
         /\ r.cmd \in Byte /\ r.seq \in Byte /\ r.payload \in Seq(Byte)
         /\ Len(f) = Len(r.payload) + 10 /\ Len(f) < Word
         /\ f = buildFrame(r.cmd, r.seq, r.payload)
<1> DEFINE len == WordAt(f, 3)
           payload == SubSeq(f, 7, len + 2)
<1>1. /\ ~(Len(f) < 8) /\ <<f[1], f[2]>> = <<Head0, Head1>>
      /\ <<f[Len(f) - 1], f[Len(f)]>> = <<Tail0, Tail1>>
      /\ (6 + len) % Word = Len(f) /\ ~(len < 4)
      /\ WordAt(f, len + 3) = Crc(f[5], f[6], payload)
      /\ parseFrame(f) = [ret |-> 0, cmd |-> f[5], seq |-> f[6], payload |-> payload]
  BY DEF parseFrame, Undefined
<1>2. Len(f) \in Nat /\ Len(f) >= 8 BY <1>1
<1>3. len \in Nat /\ len < Word
  <2>1. f[3] \in Byte /\ f[4] \in Byte BY <1>2
  <2>2. len = f[3] + 256 * f[4]
    <3>1. 3 + 1 = 4 OBVIOUS
    <3>2. QED BY <3>1 DEF WordAt
  <2>3. f[3] + 256 * f[4] \in Nat /\ f[3] + 256 * f[4] < Word
    <3>1. PICK l \in Byte, h \in Byte : l = f[3] /\ h = f[4] BY <2>1
    <3>2. l + 256 * h \in Nat /\ l + 256 * h < Word BY WordOfBytes
    <3>3. QED BY <3>1, <3>2
  <2> HIDE DEF len
  <2>4. QED BY <2>2, <2>3
<1>4. Len(f) = len + 6 /\ len >= 4 /\ Len(f) < Word
  <2> HIDE DEF len
  <2>1. CASE len < 65530
    <3>1. (6 + len) % 65536 = 6 + len BY <1>3, <2>1
    <3>2. QED BY <1>1, <1>3, <2>1, <3>1 DEF Word
  <2>2. CASE ~(len < 65530)
    <3>1. (6 + len) % 65536 = len - 65530 BY <1>3, <2>2 DEF Word
    <3>2. QED BY <1>1, <1>2, <1>3, <2>2, <3>1 DEF Word
  <2>3. QED BY <2>1, <2>2
<1>5. payload \in Seq(Byte) /\ Len(payload) = len - 4 /\ \A i \in 1..(len - 4) : payload[i] = f[i + 6]
  <2> HIDE DEF len
  <2>1. QED BY <1>3, <1>4 DEF Word
<1>6. f[5] \in Byte /\ f[6] \in Byte BY <1>3, <1>4 DEF Word
<1>7. FrameBytes(f, f[5], f[6], payload)
  <2>0. len \in Nat /\ Len(payload) + 10 = Len(f) /\ Len(payload) + 7 = len + 3 /\ Len(payload) + 4 = len
        /\ Len(payload) + 9 = Len(f) - 1 /\ Len(payload) = len - 4
    <3> HIDE DEF len, payload
    <3>1. QED BY <1>3, <1>4, <1>5 DEF Word
  <2>1. f[1] = Head0 /\ f[2] = Head1 /\ f[Len(f) - 1] = Tail0 /\ f[Len(f)] = Tail1 BY <1>1
  <2> HIDE DEF payload
  <2>2. \A i \in 1..Len(payload) : f[i + 6] = payload[i] BY <1>5, <2>0
  <2>3. QED BY <1>1, <2>0, <2>1, <2>2 DEF FrameBytes
<1>8. Len(payload) + 4 < Word
  <2> HIDE DEF len, payload
  <2>1. QED BY <1>3, <1>4, <1>5 DEF Word
<1>9. f = buildFrame(f[5], f[6], payload)
  <2> HIDE DEF payload
  <2>1. QED BY <1>5, <1>6, <1>7, <1>8, BytesAreBuilt
<1>10. Len(f) = Len(payload) + 10
  <2> HIDE DEF len, payload
  <2>1. QED BY <1>3, <1>4, <1>5 DEF Word
<1> HIDE DEF len, payload
<1>11. QED BY <1>1, <1>4, <1>5, <1>6, <1>9, <1>10

-----------------------------------------------------------------------------
(* Parts of sequences.                                                       *)
LEMMA Part ==
  ASSUME NEW S, NEW s \in Seq(S), NEW m \in Nat \ {0}, NEW n \in Nat, n <= Len(s), m <= n + 1
  PROVE  /\ SubSeq(s, m, n) \in Seq(S) /\ Len(SubSeq(s, m, n)) = n - m + 1
         /\ \A i \in 1..(n - m + 1) : SubSeq(s, m, n)[i] = s[m + i - 1]
OBVIOUS

LEMMA PartOfPart ==
  ASSUME NEW S, NEW s \in Seq(S), NEW m \in Nat \ {0}, NEW n \in Nat, n <= Len(s), m <= n + 1,
         NEW i \in Nat \ {0}, NEW j \in Nat, j <= n - m + 1, i <= j + 1
  PROVE  SubSeq(SubSeq(s, m, n), i, j) = SubSeq(s, m + i - 1, m + j - 1)
<1> DEFINE t == SubSeq(s, m, n)
           x == m + i - 1
           y == m + j - 1
<1>1. /\ t \in Seq(S) /\ Len(t) = n - m + 1
      /\ \A l \in 1..(n - m + 1) : t[l] = s[m + l - 1]
  BY Part
<1>2. /\ Len(s) \in Nat /\ x \in Nat \ {0} /\ y \in Nat /\ y <= Len(s) /\ x <= y + 1
      /\ y - x + 1 = j - i + 1
      /\ \A l \in 1..(j - i + 1) : x + l - 1 = m + (i + l - 1) - 1 /\ i + l - 1 \in 1..(n - m + 1)
  OBVIOUS
<1> HIDE DEF t, x, y
<1>3. /\ SubSeq(t, i, j) \in Seq(S) /\ Len(SubSeq(t, i, j)) = j - i + 1
      /\ \A l \in 1..(j - i + 1) : SubSeq(t, i, j)[l] = t[i + l - 1]
  <2>1. j <= Len(t) BY <1>1
  <2>2. QED BY <1>1, <2>1, Part
<1>4. /\ SubSeq(s, x, y) \in Seq(S) /\ Len(SubSeq(s, x, y)) = y - x + 1
      /\ \A l \in 1..(y - x + 1) : SubSeq(s, x, y)[l] = s[x + l - 1]
  BY <1>2, Part
<1>5. ASSUME NEW l \in 1..(j - i + 1) PROVE SubSeq(t, i, j)[l] = SubSeq(s, x, y)[l]
  <2>1. SubSeq(t, i, j)[l] = s[m + (i + l - 1) - 1] BY <1>1, <1>2, <1>3
  <2>2. SubSeq(s, x, y)[l] = s[x + l - 1] BY <1>2, <1>4
  <2>3. QED BY <1>2, <2>1, <2>2
<1>6. SubSeq(t, i, j) = SubSeq(s, x, y) BY <1>2, <1>3, <1>4, <1>5, EqualQueues
<1>7. QED BY <1>6 DEF t, x, y

LEMMA PartsJoined ==
  ASSUME NEW S, NEW s \in Seq(S), NEW m \in Nat \ {0}, NEW n \in Nat, NEW q \in Nat,
         m <= n + 1, n <= q, q <= Len(s)
  PROVE  SubSeq(s, m, n) \o SubSeq(s, n + 1, q) = SubSeq(s, m, q)
<1> DEFINE x == n + 1
           t == SubSeq(s, m, n)
           u == SubSeq(s, x, q)
           v == SubSeq(s, m, q)
<1>1. /\ Len(s) \in Nat /\ x \in Nat \ {0} /\ n <= Len(s) /\ x <= q + 1 /\ q - x + 1 = q - n
      /\ m <= q + 1 /\ \A l \in 1..(q - n) : x + l - 1 = n + l
  OBVIOUS
<1>2. /\ t \in Seq(S) /\ Len(t) = n - m + 1
      /\ \A l \in 1..(n - m + 1) : t[l] = s[m + l - 1]
  BY <1>1, Part
<1>3. /\ v \in Seq(S) /\ Len(v) = q - m + 1
      /\ \A l \in 1..(q - m + 1) : v[l] = s[m + l - 1]
  BY <1>1, Part
<1> HIDE DEF t, v, x
<1>4. /\ u \in Seq(S) /\ Len(u) = q - x + 1
      /\ \A l \in 1..(q - x + 1) : u[l] = s[x + l - 1]
  BY <1>1, Part
<1> HIDE DEF u
<1>5. /\ t \o u \in Seq(S) /\ Len(t \o u) = Len(t) + Len(u)
      /\ \A l \in 1..Len(t) : (t \o u)[l] = t[l]
      /\ \A l \in 1..Len(u) : (t \o u)[Len(t) + l] = u[l]
  <2>1. t \in Seq(S) /\ u \in Seq(S) BY <1>2, <1>4
  <2>2. QED BY ONLY <2>1, ConcatEntries
<1>6. Len(t \o u) = Len(v) BY <1>1, <1>2, <1>3, <1>4, <1>5
<1>7. ASSUME NEW l \in 1..Len(t \o u) PROVE (t \o u)[l] = v[l]
  <2>1. l \in Nat /\ 1 <= l /\ l <= q - m + 1 BY <1>3, <1>6
  <2>2. CASE l <= n - m + 1
    <3>1. l \in 1..(n - m + 1) /\ l \in 1..(q - m + 1) BY <2>1, <2>2
    <3>2. QED BY <1>2, <1>3, <1>5, <3>1
  <2>3. CASE ~(l <= n - m + 1)
    <3>1. PICK e \in 1..(q - n) : l = n - m + 1 + e
      <4>1. l - (n - m + 1) \in 1..(q - n) /\ l = n - m + 1 + (l - (n - m + 1)) BY <2>1, <2>3
      <4>2. QED BY <4>1
    <3>2. (t \o u)[l] = u[e] BY <1>1, <1>2, <1>4, <1>5, <3>1
    <3>3. u[e] = s[n + e] BY <1>1, <1>4
    <3>4. m + l - 1 = n + e /\ l \in 1..(q - m + 1) BY <2>1, <3>1
    <3>5. QED BY <1>3, <3>2, <3>3, <3>4
  <2>4. QED BY <2>2, <2>3
<1>8. t \o u = v BY <1>3, <1>5, <1>6, <1>7, EqualQueues
<1>9. QED BY <1>8 DEF t, u, v, x

-----------------------------------------------------------------------------
(* A stream and where its items end.                                         *)
Item == [bytes : Seq(Byte), good : BOOLEAN]

EndOf(s, i) == Len(BytesOf(SubSeq(s, 1, i)))

(* b holds the bytes of the first m items, one behind the other.                *)
Holds(b, s, m) ==
  /\ b \in Seq(Byte)
  /\ EndOf(s, 0) = 0 /\ EndOf(s, m) = Len(b)
  /\ \A i \in 0..m : EndOf(s, i) \in Nat /\ EndOf(s, i) <= Len(b)
  /\ \A i \in 0..(m - 1) :
       /\ EndOf(s, i + 1) = EndOf(s, i) + Len(s[i + 1].bytes)
       /\ \A j \in 1..Len(s[i + 1].bytes) : b[EndOf(s, i) + j] = s[i + 1].bytes[j]

LEMMA NoBytes == ASSUME NEW s \in Seq(Item) PROVE BytesOf(SubSeq(s, 1, 0)) = <<>>
<1>1. SubSeq(s, 1, 0) = <<>> OBVIOUS
<1>2. [i \in DOMAIN <<>> |-> <<>>[i].bytes] = <<>> OBVIOUS
<1>3. QED BY <1>1, <1>2, FlattenEmpty DEF BytesOf

LEMMA NextItem ==
  ASSUME NEW s \in Seq(Item), NEW m \in Nat, m + 1 <= Len(s), BytesOf(SubSeq(s, 1, m)) \in Seq(Byte)
  PROVE  /\ BytesOf(SubSeq(s, 1, m + 1)) = BytesOf(SubSeq(s, 1, m)) \o s[m + 1].bytes
         /\ s[m + 1].bytes \in Seq(Byte)
<1> DEFINE u == SubSeq(s, 1, m)
           v == SubSeq(s, 1, m + 1)
           p == [i \in 1..m |-> s[i].bytes]
           q == [i \in 1..(m + 1) |-> s[i].bytes]
<1>1. /\ DOMAIN u = 1..m /\ \A i \in 1..m : u[i] = s[i]
      /\ DOMAIN v = 1..(m + 1) /\ \A i \in 1..(m + 1) : v[i] = s[i]
      /\ \A i \in 1..(m + 1) : s[i] \in Item
  OBVIOUS
<1>2. [i \in DOMAIN u |-> u[i].bytes] = p /\ [i \in DOMAIN v |-> v[i].bytes] = q BY <1>1
<1>3. \A i \in 1..(m + 1) : s[i].bytes \in Seq(Byte) BY <1>1 DEF Item
<1>4. p \in Seq(Seq(Byte)) /\ Len(p) = m
  <2>1. \A i \in 1..m : s[i].bytes \in Seq(Byte) BY <1>3
  <2>2. QED BY <2>1
<1>5. q \in Seq(Seq(Byte)) /\ Len(q) = m + 1
  <2>1. q \in [1..(m + 1) -> Seq(Byte)] BY <1>3
  <2>2. m + 1 \in Nat OBVIOUS
  <2>3. QED BY <2>1, <2>2
<1>6. m + 1 \in 1..(m + 1) OBVIOUS
<1>7. s[m + 1].bytes \in Seq(Byte) BY <1>3, <1>6
<1>8. q = Append(p, s[m + 1].bytes)
  <2> DEFINE r == Append(p, s[m + 1].bytes)
  <2>1. /\ r \in Seq(Seq(Byte)) /\ Len(r) = m + 1 /\ r[m + 1] = s[m + 1].bytes
        /\ \A i \in 1..m : r[i] = p[i]
    BY <1>4, <1>7, AppendEntries
  <2> HIDE DEF r
  <2>2. ASSUME NEW i \in 1..(m + 1) PROVE q[i] = r[i]
    <3>1. CASE i = m + 1 BY <2>1, <3>1
    <3>2. CASE i # m + 1
      <4>1. i \in 1..m BY <3>2
      <4>2. QED BY <2>1, <4>1
    <3>3. QED BY <3>1, <3>2
  <2> HIDE DEF q
  <2>3. q = r BY <1>5, <2>1, <2>2, EqualQueues
  <2>4. QED BY <2>3 DEF r
<1> HIDE DEF p, q
<1>9. FlattenSeq(q) = FlattenSeq(p) \o s[m + 1].bytes BY <1>4, <1>7, <1>8, FlattenAppend
<1>10. QED BY <1>2, <1>7, <1>9 DEF BytesOf

LEMMA HoldsNext ==
  ASSUME NEW s \in Seq(Item), NEW m \in Nat, m + 1 <= Len(s), Holds(BytesOf(SubSeq(s, 1, m)), s, m)
  PROVE  Holds(BytesOf(SubSeq(s, 1, m + 1)), s, m + 1)
<1> DEFINE b == BytesOf(SubSeq(s, 1, m))
           t == s[m + 1].bytes
           c == BytesOf(SubSeq(s, 1, m + 1))
<1>1. b \in Seq(Byte) BY DEF Holds
<1>2. c = b \o t /\ t \in Seq(Byte) BY <1>1, NextItem
<1>3. EndOf(s, m) = Len(b) /\ EndOf(s, m + 1) = Len(c) BY DEF EndOf
<1> HIDE DEF b, t, c
<1>4. /\ c \in Seq(Byte) /\ Len(b) \in Nat /\ Len(t) \in Nat /\ Len(c) = Len(b) + Len(t)
      /\ \A i \in 1..Len(b) : c[i] = b[i]
      /\ \A i \in 1..Len(t) : c[Len(b) + i] = t[i]
  BY <1>1, <1>2, ConcatEntries
<1>5. Holds(b, s, m) BY DEF b
<1>6. ASSUME NEW i \in 0..(m + 1) PROVE EndOf(s, i) \in Nat /\ EndOf(s, i) <= Len(c)
  <2>1. CASE i = m + 1 BY <1>3, <1>4, <2>1
  <2>2. CASE i # m + 1
    <3>1. i \in 0..m BY <2>2
    <3>2. EndOf(s, i) \in Nat /\ EndOf(s, i) <= Len(b) BY <1>5, <3>1 DEF Holds
    <3>3. QED BY <1>4, <3>2
  <2>3. QED BY <2>1, <2>2
<1>7. ASSUME NEW i \in 0..m
      PROVE  /\ EndOf(s, i + 1) = EndOf(s, i) + Len(s[i + 1].bytes)
             /\ \A j \in 1..Len(s[i + 1].bytes) : c[EndOf(s, i) + j] = s[i + 1].bytes[j]
  <2>1. CASE i = m BY <1>3, <1>4, <2>1 DEF t
  <2>2. CASE i # m
    <3>1. i \in 0..(m - 1) /\ i + 1 \in 0..m /\ i \in 0..m BY <2>2
    <3>2. /\ EndOf(s, i + 1) = EndOf(s, i) + Len(s[i + 1].bytes)
          /\ \A j \in 1..Len(s[i + 1].bytes) : b[EndOf(s, i) + j] = s[i + 1].bytes[j]
          /\ EndOf(s, i + 1) <= Len(b) /\ EndOf(s, i) \in Nat
      BY <1>5, <3>1 DEF Holds
    <3>3. Len(s[i + 1].bytes) \in Nat
      <4>1. i + 1 \in 1..Len(s) BY <3>1
      <4>2. s[i + 1] \in Item BY <4>1
      <4>3. s[i + 1].bytes \in Seq(Byte) BY <4>2 DEF Item
      <4>4. QED BY <4>3
    <3>4. ASSUME NEW j \in 1..Len(s[i + 1].bytes) PROVE c[EndOf(s, i) + j] = s[i + 1].bytes[j]
      <4>0. PICK e \in Nat, l \in Nat, h \in Nat :
              e = EndOf(s, i) /\ l = Len(s[i + 1].bytes) /\ h = Len(b)
        BY <1>4, <3>2, <3>3
      <4>1. EndOf(s, i) + j \in 1..Len(b)
        <5>1. e + l <= h /\ j \in 1..l BY <3>2, <4>0
        <5>2. e + j \in 1..h BY <5>1
        <5>3. QED BY <4>0, <5>2
      <4>2. QED BY <1>4, <3>2, <4>1
    <3>5. QED BY <3>2, <3>4
  <2>3. QED BY <2>1, <2>2
<1>8. EndOf(s, 0) = 0 BY <1>5 DEF Holds
<1>9. (m + 1) - 1 = m OBVIOUS
<1>10. Holds(c, s, m + 1) BY <1>3, <1>4, <1>6, <1>7, <1>8, <1>9 DEF Holds
<1>11. QED BY <1>10 DEF c

LEMMA Layout ==
  ASSUME NEW s \in Seq(Item)
  PROVE  \A m \in 0..Len(s) : Holds(BytesOf(SubSeq(s, 1, m)), s, m)
<1> DEFINE B == {m \in 0..Len(s) : ~Holds(BytesOf(SubSeq(s, 1, m)), s, m)}
<1>1. Len(s) \in Nat OBVIOUS
<1> SUFFICES ASSUME B # {} PROVE FALSE OBVIOUS
<1>2. PICK x \in B : \A y \in B : x <= y
  <2>1. B \subseteq Nat BY <1>1
  <2> HIDE DEF B
  <2>2. QED BY <2>1, LeastNumber
<1>3. x \in 0..Len(s) /\ ~Holds(BytesOf(SubSeq(s, 1, x)), s, x) BY <1>2
<1>4. CASE x = 0
  <2>1. BytesOf(SubSeq(s, 1, 0)) = <<>> BY NoBytes
  <2>2. EndOf(s, 0) = 0 BY <2>1 DEF EndOf
  <2>3. <<>> \in Seq(Byte) /\ Len(<<>>) = 0 OBVIOUS
  <2>4. \A i \in 0..0 : i = 0 OBVIOUS
  <2>5. 0..(0 - 1) = {} OBVIOUS
  <2>6. Holds(<<>>, s, 0) BY <2>2, <2>3, <2>4, <2>5 DEF Holds
  <2>7. QED BY <1>3, <1>4, <2>1, <2>6
<1>5. CASE x # 0
  <2>1. PICK y \in 0..Len(s) : x = y + 1
    <3>1. x - 1 \in 0..Len(s) /\ x = (x - 1) + 1 BY <1>1, <1>3, <1>5
    <3>2. QED BY <3>1
  <2>2. ~(x <= y) /\ y \in Nat /\ y + 1 <= Len(s) BY <1>1, <1>3, <2>1
  <2>3. Holds(BytesOf(SubSeq(s, 1, y)), s, y) BY <1>2, <2>1, <2>2
  <2>4. QED BY <1>3, <2>1, <2>2, <2>3, HoldsNext
<1>6. QED BY <1>4, <1>5

(* The whole stream.                                                        *)
LEMMA StreamHolds ==
  ASSUME NEW s \in Seq(Item)
  PROVE  /\ Holds(BytesOf(s), s, Len(s)) /\ Len(s) \in Nat
         /\ \A i, j \in 0..Len(s) : i <= j => EndOf(s, i) <= EndOf(s, j)
<1>1. Len(s) \in Nat OBVIOUS
<1>2. SubSeq(s, 1, Len(s)) = s /\ Len(s) \in 0..Len(s) OBVIOUS
<1>3. Holds(BytesOf(s), s, Len(s))
  <2>1. Holds(BytesOf(SubSeq(s, 1, Len(s))), s, Len(s)) BY <1>2, Layout
  <2>2. QED BY <1>2, <2>1
<1>4. ASSUME NEW i \in 0..Len(s), NEW j \in 0..Len(s), i <= j PROVE EndOf(s, i) <= EndOf(s, j)
  <2>1. i \in 0..j BY <1>1, <1>4
  <2>2. Holds(BytesOf(SubSeq(s, 1, j)), s, j) BY Layout
  <2>3. QED BY <2>1, <2>2 DEF Holds
<1>5. QED BY <1>1, <1>3, <1>4

-----------------------------------------------------------------------------
(* The contents of the first k items, and GoodUpTo where all are good and the     *)
(* edges of just these are among the first n bytes.                             *)
ContentsOf(k) == [i \in 1..k |-> Content(sent[i].bytes)]

Counts(g, n, edge) ==
  g = [i \in 0..Len(sent) |->
         IF i = 0 THEN <<>>
         ELSE IF sent[i].good /\ edge[i] <= n THEN Append(g[i - 1], Content(sent[i].bytes))
         ELSE g[i - 1]]

LEMMA OneMore ==
  ASSUME NEW k \in Nat
  PROVE  Append(ContentsOf(k), Content(sent[k + 1].bytes)) = ContentsOf(k + 1)
<1> DEFINE S == {Content(sent[i].bytes) : i \in 1..(k + 1)}
           r == Append(ContentsOf(k), Content(sent[k + 1].bytes))
<1>1. \A i \in 1..(k + 1) : Content(sent[i].bytes) \in S OBVIOUS
<1>2. k + 1 \in 1..(k + 1) OBVIOUS
<1> HIDE DEF S
<1>3. ContentsOf(k) \in Seq(S) /\ Len(ContentsOf(k)) = k
  <2>1. \A i \in 1..k : Content(sent[i].bytes) \in S BY <1>1
  <2>2. QED BY <2>1 DEF ContentsOf
<1>4. ContentsOf(k + 1) \in Seq(S) /\ Len(ContentsOf(k + 1)) = k + 1
  <2>1. ContentsOf(k + 1) \in [1..(k + 1) -> S] BY <1>1 DEF ContentsOf
  <2>2. k + 1 \in Nat OBVIOUS
  <2>3. QED BY <2>1, <2>2
<1>5. Content(sent[k + 1].bytes) \in S BY <1>1, <1>2
<1>6. /\ r \in Seq(S) /\ Len(r) = k + 1 /\ r[k + 1] = Content(sent[k + 1].bytes)
      /\ \A i \in 1..k : r[i] = ContentsOf(k)[i]
  BY <1>3, <1>5, AppendEntries
<1> HIDE DEF r
<1>7. ASSUME NEW i \in 1..(k + 1) PROVE r[i] = ContentsOf(k + 1)[i]
  <2>1. ContentsOf(k + 1)[i] = Content(sent[i].bytes) BY DEF ContentsOf
  <2>2. CASE i = k + 1 BY <1>6, <2>1, <2>2
  <2>3. CASE i # k + 1
    <3>1. i \in 1..k BY <2>3
    <3>2. QED BY <1>6, <2>1, <3>1 DEF ContentsOf
  <2>4. QED BY <2>2, <2>3
<1>8. r = ContentsOf(k + 1) BY <1>4, <1>6, <1>7, EqualQueues
<1>9. QED BY <1>8 DEF r

LEMMA GoodIs ==
  ASSUME Len(sent) \in Nat, \A i \in 1..Len(sent) : sent[i].good,
         NEW k \in 0..Len(sent), NEW n, NEW edge,
         \A i \in 1..Len(sent) : edge[i] <= n <=> i <= k
  PROVE  GoodUpTo(n, edge) = ContentsOf(k)
<1> DEFINE upto(i) == ContentsOf(IF i <= k THEN i ELSE k)
           h == [i \in 0..Len(sent) |-> upto(i)]
<1>1. ContentsOf(0) = <<>> BY DEF ContentsOf
<1>2. ASSUME NEW i \in 0..Len(sent)
      PROVE  h[i] = IF i = 0 THEN <<>>
                    ELSE IF sent[i].good /\ edge[i] <= n THEN Append(h[i - 1], Content(sent[i].bytes))
                    ELSE h[i - 1]
  <2>1. CASE i = 0 BY <1>1, <2>1
  <2>2. CASE i # 0
    <3>1. PICK j \in 0..Len(sent) : i = j + 1 /\ i - 1 = j /\ j \in Nat
      <4>1. i - 1 \in 0..Len(sent) /\ i = (i - 1) + 1 BY <2>2
      <4>2. QED BY <4>1
    <3>2. i \in 1..Len(sent) /\ k \in Nat BY <2>2
    <3>3. sent[i].good /\ (edge[i] <= n <=> i <= k) BY <3>2
    <3>4. h[i] = upto(i) /\ h[i - 1] = upto(j) BY <3>1
    <3>5. CASE i <= k
      <4>1. upto(i) = ContentsOf(j + 1) /\ upto(j) = ContentsOf(j) BY <3>1, <3>2, <3>5
      <4>2. QED BY <2>2, <3>1, <3>3, <3>4, <3>5, <4>1, OneMore
    <3>6. CASE ~(i <= k)
      <4>1. upto(i) = ContentsOf(k) /\ upto(j) = ContentsOf(k) BY <3>1, <3>2, <3>6
      <4>2. QED BY <2>2, <3>3, <3>4, <3>6, <4>1
    <3>7. QED BY <3>5, <3>6
  <2>3. QED BY <2>1, <2>2
<1>3. Counts(h, n, edge)
  <2>1. h = [i \in 0..Len(sent) |-> h[i]] OBVIOUS
  <2> HIDE DEF h
  <2>2. QED BY <1>2, <2>1 DEF Counts
<1>4. h[Len(sent)] = ContentsOf(k) OBVIOUS
<1> HIDE DEF h
<1> DEFINE g == CHOOSE f : Counts(f, n, edge)
<1>5. Counts(g, n, edge) BY <1>3
<1>6. GoodUpTo(n, edge) = g[Len(sent)] BY DEF GoodUpTo, Counts
<1> HIDE DEF g
<1>7. \A i \in 0..Len(sent) : g[i] = h[i]
  <2> DEFINE B == {i \in 0..Len(sent) : g[i] # h[i]}
  <2> SUFFICES ASSUME B # {} PROVE FALSE OBVIOUS
  <2>1. PICK x \in B : \A y \in B : x <= y
    <3>1. B \subseteq Nat OBVIOUS
    <3> HIDE DEF B
    <3>2. QED BY <3>1, LeastNumber
  <2>2. x \in 0..Len(sent) /\ g[x] # h[x] BY <2>1
  <2>3. ASSUME NEW i \in 0..Len(sent)
        PROVE  g[i] = IF i = 0 THEN <<>>
                      ELSE IF sent[i].good /\ edge[i] <= n THEN Append(g[i - 1], Content(sent[i].bytes))
                      ELSE g[i - 1]
    BY <1>5 DEF Counts
  <2>4. CASE x = 0 BY <1>2, <2>2, <2>3, <2>4
  <2>5. CASE x # 0
    <3>1. x - 1 \in 0..Len(sent) /\ ~(x <= x - 1) BY <2>2, <2>5
    <3>2. g[x - 1] = h[x - 1] BY <2>1, <3>1
    <3>3. QED BY <1>2, <2>2, <2>3, <2>5, <3>2
  <2>6. QED BY <2>4, <2>5
<1>8. QED BY <1>4, <1>6, <1>7

-----------------------------------------------------------------------------
(* A line that carries nothing but frames, of at most max bytes.                *)
IsFrame(f) ==
  \E c, s \in Byte : \E p \in Seq(Byte) : Len(p) + 4 < Word /\ f = buildFrame(c, s, p)

CleanStream(s, max) ==
  /\ s \in Seq(Item)
  /\ \A i \in 1..Len(s) : s[i].good /\ IsFrame(s[i].bytes) /\ Len(s[i].bytes) <= max

CleanLine(max) == \A s \in Streams : CleanStream(s, max)

(* Both receivers: k frames have been handed over and a bytes have been read; what  *)
(* is kept of them begins with the next frame, and while the receiver waits for     *)
(* more bytes that frame is not complete.                                      *)
Reached(k, a) ==
  LET b == BytesOf(sent) IN
  /\ k \in 0..Len(sent) /\ a \in Nat /\ EndOf(sent, k) <= a /\ a <= Len(b)
  /\ buf = SubSeq(b, EndOf(sent, k) + 1, a)
  /\ line = SubSeq(b, a + 1, Len(b))
  /\ got = ContentsOf(k)
  /\ pc = "read" /\ k < Len(sent) => a < EndOf(sent, k + 1)

CleanInv(max) ==
  /\ CleanStream(sent, max) /\ pc \in {"read", "parse"}
  /\ \E k, a : Reached(k, a)

LEMMA NextFrame ==
  ASSUME NEW s, NEW max, CleanStream(s, max), NEW k \in Nat, k < Len(s)
  PROVE  /\ EndOf(s, k) \in Nat /\ EndOf(s, k + 1) = EndOf(s, k) + Len(s[k + 1].bytes)
         /\ EndOf(s, k + 1) <= Len(BytesOf(s))
         /\ \A j \in 1..Len(s[k + 1].bytes) : BytesOf(s)[EndOf(s, k) + j] = s[k + 1].bytes[j]
         /\ s[k + 1].bytes \in Seq(Byte) /\ Len(s[k + 1].bytes) \in Nat
         /\ Len(s[k + 1].bytes) >= 10 /\ Len(s[k + 1].bytes) <= max
         /\ \E c, q \in Byte : \E p \in Seq(Byte) :
              /\ Len(p) + 4 < Word /\ FrameBytes(s[k + 1].bytes, c, q, p)
              /\ s[k + 1].bytes = buildFrame(c, q, p)
<1>1. s \in Seq(Item) /\ Len(s) \in Nat BY DEF CleanStream
<1>2. Holds(BytesOf(s), s, Len(s)) BY <1>1, StreamHolds
<1>3. k \in 0..(Len(s) - 1) /\ k \in 0..Len(s) /\ k + 1 \in 0..Len(s) /\ k + 1 \in 1..Len(s) BY <1>1
<1>4. /\ EndOf(s, k) \in Nat /\ EndOf(s, k + 1) = EndOf(s, k) + Len(s[k + 1].bytes)
      /\ EndOf(s, k + 1) <= Len(BytesOf(s))
      /\ \A j \in 1..Len(s[k + 1].bytes) : BytesOf(s)[EndOf(s, k) + j] = s[k + 1].bytes[j]
  BY <1>2, <1>3 DEF Holds
<1>5. IsFrame(s[k + 1].bytes) /\ Len(s[k + 1].bytes) <= max BY <1>3 DEF CleanStream
<1>6. PICK c \in Byte, q \in Byte, p \in Seq(Byte) :
        Len(p) + 4 < Word /\ s[k + 1].bytes = buildFrame(c, q, p)
  BY <1>5 DEF IsFrame
<1>7. FrameBytes(s[k + 1].bytes, c, q, p) BY <1>6, BuiltBytes
<1>8. s[k + 1].bytes \in Seq(Byte) /\ Len(s[k + 1].bytes) = Len(p) + 10 BY <1>7 DEF FrameBytes
<1>9. Len(p) \in Nat OBVIOUS
<1>10. Len(s[k + 1].bytes) \in Nat /\ Len(s[k + 1].bytes) >= 10 BY <1>8, <1>9
<1>11. \E c_1, q_1 \in Byte : \E p_1 \in Seq(Byte) :
         /\ Len(p_1) + 4 < Word /\ FrameBytes(s[k + 1].bytes, c_1, q_1, p_1)
         /\ s[k + 1].bytes = buildFrame(c_1, q_1, p_1)
  BY <1>6, <1>7
<1>12. QED BY <1>4, <1>5, <1>8, <1>10, <1>11

LEMMA CleanStart == ASSUME NEW max, CleanLine(max), LineInit PROVE CleanInv(max)
<1>1. CleanStream(sent, max) BY DEF CleanLine, LineInit
<1>2. sent \in Seq(Item) BY <1>1 DEF CleanStream
<1>3. Holds(BytesOf(sent), sent, Len(sent)) /\ Len(sent) \in Nat BY <1>2, StreamHolds
<1>4. BytesOf(sent) \in Seq(Byte) /\ EndOf(sent, 0) = 0 BY <1>3 DEF Holds
<1>5. ASSUME NEW b \in Seq(Byte)
      PROVE  SubSeq(b, 0 + 1, 0) = <<>> /\ SubSeq(b, 0 + 1, Len(b)) = b /\ Len(b) \in Nat
  OBVIOUS
<1>6. ContentsOf(0) = <<>> BY DEF ContentsOf
<1>7. ASSUME 0 < Len(sent) PROVE 0 < EndOf(sent, 0 + 1)
  <2>1. /\ EndOf(sent, 0 + 1) = EndOf(sent, 0) + Len(sent[0 + 1].bytes)
        /\ Len(sent[0 + 1].bytes) \in Nat /\ Len(sent[0 + 1].bytes) >= 10
    BY <1>1, <1>7, NextFrame
  <2>2. QED BY <1>4, <2>1
<1>8. Reached(0, 0)
  <2>1. 0 \in 0..Len(sent) BY <1>3
  <2>2. buf = SubSeq(BytesOf(sent), EndOf(sent, 0) + 1, 0) /\ line = SubSeq(BytesOf(sent), 0 + 1, Len(BytesOf(sent)))
    BY <1>4, <1>5 DEF LineInit
  <2>3. QED BY <1>4, <1>5, <1>6, <1>7, <2>1, <2>2 DEF Reached, LineInit
<1>9. QED BY <1>1, <1>8 DEF CleanInv, LineInit

(* What is kept and what is still to come.                                     *)
LEMMA Kept ==
  ASSUME NEW max, CleanStream(sent, max), NEW k, NEW a, Reached(k, a)
  PROVE  /\ BytesOf(sent) \in Seq(Byte) /\ Len(BytesOf(sent)) \in Nat /\ Len(sent) \in Nat
         /\ k \in Nat /\ k <= Len(sent) /\ a \in Nat
         /\ EndOf(sent, k) \in Nat /\ EndOf(sent, k) <= a /\ a <= Len(BytesOf(sent))
         /\ buf \in Seq(Byte) /\ Len(buf) = a - EndOf(sent, k)
         /\ \A j \in 1..Len(buf) : buf[j] = BytesOf(sent)[EndOf(sent, k) + j]
         /\ line \in Seq(Byte) /\ Len(line) = Len(BytesOf(sent)) - a
         /\ k = Len(sent) => buf = <<>> /\ line = <<>>
<1> DEFINE b == BytesOf(sent)
           e == EndOf(sent, k)
<1>1. sent \in Seq(Item) BY DEF CleanStream
<1>2. Holds(b, sent, Len(sent)) /\ Len(sent) \in Nat BY <1>1, StreamHolds
<1>3. b \in Seq(Byte) /\ EndOf(sent, Len(sent)) = Len(b) BY <1>2 DEF Holds
<1>4. /\ k \in 0..Len(sent) /\ a \in Nat /\ e <= a /\ a <= Len(b)
      /\ buf = SubSeq(b, e + 1, a) /\ line = SubSeq(b, a + 1, Len(b))
  BY DEF Reached
<1>5. e \in Nat BY <1>2, <1>4 DEF Holds
<1>6. Len(b) \in Nat BY <1>3
<1>7. k = Len(sent) => e = Len(b) BY <1>3
<1> HIDE DEF b, e
<1>8. /\ buf \in Seq(Byte) /\ Len(buf) = a - e
      /\ \A j \in 1..(a - e) : buf[j] = b[e + j]
  <2>1. e + 1 \in Nat \ {0} /\ e + 1 <= a + 1 /\ a - (e + 1) + 1 = a - e BY <1>4, <1>5
  <2>2. /\ SubSeq(b, e + 1, a) \in Seq(Byte) /\ Len(SubSeq(b, e + 1, a)) = a - (e + 1) + 1
        /\ \A j \in 1..(a - (e + 1) + 1) : SubSeq(b, e + 1, a)[j] = b[e + 1 + j - 1]
    BY <1>3, <1>4, <2>1, Part
  <2>3. \A j \in 1..(a - e) : e + 1 + j - 1 = e + j BY <1>5
  <2>4. QED BY <1>4, <2>1, <2>2, <2>3
<1>9. line \in Seq(Byte) /\ Len(line) = Len(b) - a
  <2>1. a + 1 \in Nat \ {0} /\ a + 1 <= Len(b) + 1 /\ Len(b) - (a + 1) + 1 = Len(b) - a BY <1>4, <1>6
  <2>2. SubSeq(b, a + 1, Len(b)) \in Seq(Byte) /\ Len(SubSeq(b, a + 1, Len(b))) = Len(b) - (a + 1) + 1
    BY <1>3, <1>6, <2>1, Part
  <2>3. QED BY <1>4, <2>1, <2>2
<1>10. k = Len(sent) => buf = <<>> /\ line = <<>>
  <2> SUFFICES ASSUME k = Len(sent) PROVE buf = <<>> /\ line = <<>> OBVIOUS
  <2>1. Len(buf) = 0 /\ Len(line) = 0 BY <1>4, <1>5, <1>6, <1>7, <1>8, <1>9
  <2>2. QED BY <1>8, <1>9, <2>1
<1>11. QED BY <1>2, <1>3, <1>4, <1>5, <1>6, <1>8, <1>9, <1>10 DEF b, e

(* The receiver takes n bytes from the line.                                   *)
LEMMA Fed ==
  ASSUME NEW max, CleanStream(sent, max), NEW k, NEW a, Reached(k, a),
         NEW n \in Nat, n <= Len(line),
         buf' = buf \o SubSeq(line, 1, n), line' = SubSeq(line, n + 1, Len(line)),
         sent' = sent, got' = got, pc' = "parse"
  PROVE  Reached(k, a + n)'
<1> DEFINE b == BytesOf(sent)
           e == EndOf(sent, k)
<1>1. /\ b \in Seq(Byte) /\ Len(b) \in Nat /\ a \in Nat /\ e \in Nat /\ e <= a /\ a <= Len(b)
      /\ Len(line) = Len(b) - a
  BY Kept
<1>2. /\ k \in 0..Len(sent) /\ buf = SubSeq(b, e + 1, a) /\ line = SubSeq(b, a + 1, Len(b))
      /\ got = ContentsOf(k)
  BY DEF Reached
<1> HIDE DEF b, e
<1>3. a + n \in Nat /\ a + n <= Len(b) /\ e <= a + n BY <1>1
<1>4. SubSeq(line, 1, n) = SubSeq(b, a + 1, a + n)
  <2>1. /\ a + 1 \in Nat \ {0} /\ a + 1 <= Len(b) + 1 /\ n <= Len(b) - (a + 1) + 1
        /\ (a + 1) + 1 - 1 = a + 1 /\ (a + 1) + n - 1 = a + n
    BY <1>1
  <2>2. SubSeq(SubSeq(b, a + 1, Len(b)), 1, n) = SubSeq(b, (a + 1) + 1 - 1, (a + 1) + n - 1)
    BY <1>1, <2>1, PartOfPart
  <2>3. QED BY <1>2, <2>1, <2>2
<1>5. buf' = SubSeq(b, e + 1, a + n)
  <2>1. PICK x \in Nat \ {0}, q \in Nat : x = e + 1 /\ q = a + n /\ x <= a + 1 /\ a <= q /\ q <= Len(b)
    BY <1>1, <1>3
  <2>2. b \in Seq(Byte) /\ a \in Nat BY <1>1
  <2>3. SubSeq(b, x, a) \o SubSeq(b, a + 1, q) = SubSeq(b, x, q) BY ONLY <2>1, <2>2, PartsJoined
  <2>4. QED BY <1>2, <1>4, <2>1, <2>3
<1>6. line' = SubSeq(b, a + n + 1, Len(b))
  <2>1. /\ a + 1 \in Nat \ {0} /\ a + 1 <= Len(b) + 1 /\ n + 1 \in Nat \ {0}
        /\ Len(line) \in Nat /\ Len(line) <= Len(b) - (a + 1) + 1 /\ n + 1 <= Len(line) + 1
        /\ (a + 1) + (n + 1) - 1 = a + n + 1 /\ (a + 1) + Len(line) - 1 = Len(b)
    BY <1>1
  <2>2. SubSeq(SubSeq(b, a + 1, Len(b)), n + 1, Len(line))
          = SubSeq(b, (a + 1) + (n + 1) - 1, (a + 1) + Len(line) - 1)
    BY <1>1, <2>1, PartOfPart
  <2>3. QED BY <1>2, <2>1, <2>2
<1>7. BytesOf(sent') = b /\ EndOf(sent', k) = e /\ ContentsOf(k)' = ContentsOf(k)
  BY DEF b, e, ContentsOf
<1>8. pc' # "read" OBVIOUS
<1>9. QED BY <1>1, <1>2, <1>3, <1>5, <1>6, <1>7, <1>8 DEF Reached

(* The frame at the front is there as far as bytes have been read.               *)
LEMMA FrontBytes ==
  ASSUME NEW max, CleanStream(sent, max), NEW k, NEW a, Reached(k, a), k < Len(sent)
  PROVE  \A j \in 1..Len(buf) : j <= Len(sent[k + 1].bytes) => buf[j] = sent[k + 1].bytes[j]
<1>0. CleanStream(sent, max) /\ Reached(k, a) OBVIOUS
<1>1. k \in Nat /\ buf \in Seq(Byte) /\ \A j \in 1..Len(buf) : buf[j] = BytesOf(sent)[EndOf(sent, k) + j]
  BY ONLY <1>0, Kept
<1>2. /\ Len(sent[k + 1].bytes) \in Nat
      /\ \A j \in 1..Len(sent[k + 1].bytes) : BytesOf(sent)[EndOf(sent, k) + j] = sent[k + 1].bytes[j]
  BY <1>1, NextFrame
<1>3. ASSUME NEW j \in 1..Len(buf), j <= Len(sent[k + 1].bytes) PROVE buf[j] = sent[k + 1].bytes[j]
  <2>0. Len(buf) \in Nat BY <1>1
  <2>1. j \in 1..Len(sent[k + 1].bytes) BY <1>2, <1>3, <2>0
  <2>2. QED BY <1>1, <1>2, <2>1
<1>4. QED BY <1>3

(* A complete frame at the front is handed over and removed.                     *)
LEMMA Whole ==
  ASSUME NEW max, CleanStream(sent, max), NEW k, NEW a, Reached(k, a), k < Len(sent),
         Len(sent[k + 1].bytes) <= Len(buf)
  PROVE  SubSeq(buf, 1, Len(sent[k + 1].bytes)) = sent[k + 1].bytes
<1>0. \A j \in 1..Len(buf) : j <= Len(sent[k + 1].bytes) => buf[j] = sent[k + 1].bytes[j]
  <2>1. CleanStream(sent, max) /\ Reached(k, a) /\ k < Len(sent) OBVIOUS
  <2>2. QED BY ONLY <2>1, FrontBytes
<1>1. PICK f \in Seq(Byte) : f = sent[k + 1].bytes
  <2>1. k \in Nat BY Kept
  <2>2. QED BY <2>1, NextFrame
<1>2. buf \in Seq(Byte) BY Kept
<1>3. \A j \in 1..Len(buf) : j <= Len(f) => buf[j] = f[j] BY <1>0, <1>1
<1>4. Len(f) \in Nat /\ Len(buf) \in Nat /\ Len(f) <= Len(buf) BY <1>1, <1>2
<1>5. /\ SubSeq(buf, 1, Len(f)) \in Seq(Byte) /\ Len(SubSeq(buf, 1, Len(f))) = Len(f)
      /\ \A i \in 1..Len(f) : SubSeq(buf, 1, Len(f))[i] = buf[i]
  BY <1>2, <1>4
<1>6. \A i \in 1..Len(f) : SubSeq(buf, 1, Len(f))[i] = f[i] BY <1>3, <1>4, <1>5
<1>7. SubSeq(buf, 1, Len(f)) = f BY <1>5, <1>6, EqualQueues
<1>8. QED BY <1>1, <1>7

LEMMA Taken ==
  ASSUME NEW max, CleanStream(sent, max), NEW k, NEW a, Reached(k, a), k < Len(sent),
         Len(sent[k + 1].bytes) <= Len(buf),
         buf' = SubSeq(buf, Len(sent[k + 1].bytes) + 1, Len(buf)),
         got' = Append(got, Content(sent[k + 1].bytes)),
         sent' = sent, line' = line, pc' = "parse"
  PROVE  Reached(k + 1, a)'
<1> DEFINE b == BytesOf(sent)
           e == EndOf(sent, k)
           n == Len(sent[k + 1].bytes)
<1>1. /\ b \in Seq(Byte) /\ Len(b) \in Nat /\ a \in Nat /\ e \in Nat /\ e <= a /\ a <= Len(b)
      /\ Len(buf) = a - e /\ k \in Nat /\ Len(sent) \in Nat
  BY Kept
<1>2. EndOf(sent, k + 1) = e + n /\ n \in Nat BY <1>1, NextFrame
<1>3. buf = SubSeq(b, e + 1, a) /\ line = SubSeq(b, a + 1, Len(b)) /\ got = ContentsOf(k)
  BY DEF Reached
<1>4. n <= Len(buf) /\ buf' = SubSeq(buf, n + 1, Len(buf)) OBVIOUS
<1>5. got' = ContentsOf(k + 1) BY <1>1, <1>3, OneMore
<1> HIDE DEF b, e, n
<1>6. /\ e + 1 \in Nat \ {0} /\ e + 1 <= a + 1 /\ n + 1 \in Nat \ {0} /\ Len(buf) \in Nat
      /\ Len(buf) <= a - (e + 1) + 1 /\ n + 1 <= Len(buf) + 1
      /\ (e + 1) + (n + 1) - 1 = e + n + 1 /\ (e + 1) + Len(buf) - 1 = a
      /\ e + n \in Nat /\ e + n <= a
  BY <1>1, <1>2, <1>4
<1>7. buf' = SubSeq(b, e + n + 1, a)
  <2>1. PICK x \in Nat \ {0}, y \in Nat \ {0}, l \in Nat :
          /\ x = e + 1 /\ y = n + 1 /\ l = Len(buf)
          /\ x <= a + 1 /\ l <= a - x + 1 /\ y <= l + 1
          /\ x + y - 1 = e + n + 1 /\ x + l - 1 = a
    BY <1>6
  <2>2. b \in Seq(Byte) /\ a \in Nat /\ a <= Len(b) /\ x <= a + 1 /\ l <= a - x + 1 /\ y <= l + 1
    BY <1>1, <2>1
  <2>3. SubSeq(SubSeq(b, x, a), y, l) = SubSeq(b, x + y - 1, x + l - 1) BY ONLY <2>2, PartOfPart
  <2>4. QED BY <1>3, <1>4, <2>1, <2>3
<1>8. k + 1 \in 0..Len(sent) BY <1>1
<1>9. /\ BytesOf(sent') = b /\ EndOf(sent', k + 1) = e + n
      /\ ContentsOf(k + 1)' = ContentsOf(k + 1)
  BY <1>2 DEF b, ContentsOf
<1>10. pc' # "read" OBVIOUS
<1>11. QED BY <1>1, <1>3, <1>5, <1>6, <1>7, <1>8, <1>9, <1>10 DEF Reached

(* The receiver finds no frame and waits.                                      *)
LEMMA Waits ==
  ASSUME NEW k, NEW a, Reached(k, a), UNCHANGED <<sent, line, buf, got>>,
         k < Len(sent) => a < EndOf(sent, k + 1)
  PROVE  Reached(k, a)'
<1>1. ContentsOf(k)' = ContentsOf(k) BY DEF ContentsOf
<1>2. QED BY <1>1 DEF Reached

(* The frames that have arrived while a receiver waits.                           *)
LEMMA HandedOver ==
  ASSUME NEW max, CleanStream(sent, max), NEW k, NEW a, Reached(k, a), pc = "read"
  PROVE  got = GoodUpTo(Arrived, LastByte)
<1>1. sent \in Seq(Item) /\ \A i \in 1..Len(sent) : sent[i].good BY DEF CleanStream
<1>2. /\ Len(sent) \in Nat /\ Holds(BytesOf(sent), sent, Len(sent))
      /\ \A i, j \in 0..Len(sent) : i <= j => EndOf(sent, i) <= EndOf(sent, j)
  BY <1>1, StreamHolds
<1>3. /\ Len(BytesOf(sent)) \in Nat /\ a \in Nat /\ Len(line) = Len(BytesOf(sent)) - a
      /\ EndOf(sent, k) <= a
  BY Kept
<1>4. Arrived = a
  <2>1. PICK x \in Nat, y \in Nat : x = Len(BytesOf(sent)) /\ y = a BY <1>3
  <2>2. x - (x - y) = y OBVIOUS
  <2>3. QED BY <1>3, <2>1, <2>2 DEF Arrived
<1>5. k \in 0..Len(sent) /\ got = ContentsOf(k) /\ (k < Len(sent) => a < EndOf(sent, k + 1))
  BY DEF Reached
<1>6. \A i \in 1..Len(sent) : LastByte[i] = EndOf(sent, i) BY <1>1 DEF LastByte, EndOf
<1>7. ASSUME NEW i \in 1..Len(sent) PROVE LastByte[i] <= a <=> i <= k
  <2>1. i \in 0..Len(sent) /\ k \in Nat /\ i \in Nat BY <1>2, <1>5
  <2>2. EndOf(sent, i) \in Nat /\ EndOf(sent, k) \in Nat BY <1>2, <1>5, <2>1 DEF Holds
  <2>3. CASE i <= k
    <3>1. EndOf(sent, i) <= EndOf(sent, k) BY <1>2, <1>5, <2>1, <2>3
    <3>2. QED BY <1>3, <1>6, <2>2, <2>3, <3>1
  <2>4. CASE ~(i <= k)
    <3>1. k + 1 \in 0..Len(sent) /\ k + 1 <= i /\ k < Len(sent) BY <1>2, <2>1, <2>4
    <3>2. EndOf(sent, k + 1) <= EndOf(sent, i) BY <1>2, <2>1, <3>1
    <3>3. EndOf(sent, k + 1) \in Nat BY <1>2, <3>1 DEF Holds
    <3>4. ~(EndOf(sent, i) <= a) BY <1>3, <1>5, <2>2, <3>1, <3>2, <3>3
    <3>5. QED BY <1>6, <2>4, <3>4
  <2>5. QED BY <2>3, <2>4
<1>8. GoodUpTo(a, LastByte) = ContentsOf(k) BY <1>1, <1>2, <1>5, <1>7, GoodIs
<1>9. QED BY <1>4, <1>5, <1>8

-----------------------------------------------------------------------------
(* io_buffer.c on a line of frames: its ring has room for the longest of them and   *)
(* a chunk.                                                                  *)
RingFits(max) ==
  /\ RX_BUFFER_SIZE \in Nat /\ MAX_FRAME_SIZE \in Nat /\ MaxChunk \in Nat
  /\ MAX_FRAME_SIZE < Word /\ max <= MAX_FRAME_SIZE
  /\ max + MaxChunk <= RX_BUFFER_SIZE

RingInv(max) ==
  /\ CleanInv(max) /\ ~lost
  /\ calls \in Nat /\ BytesUsedUp

(* What the ring makes of the frame at its front, once six bytes of it are there.  *)
LEMMA FrameAhead ==
  ASSUME NEW max \in Nat, RingFits(max), CleanStream(sent, max),
         NEW k, NEW a, Reached(k, a), k < Len(sent), Len(buf) >= MIN_FRAME_LEN
  PROVE  /\ First(Heads) = 1 /\ Heads # {}
         /\ FrameSize(1) = Len(sent[k + 1].bytes)
<1>1. k \in Nat /\ buf \in Seq(Byte) BY Kept
<1>2. PICK f : f = sent[k + 1].bytes OBVIOUS
<1>3. f \in Seq(Byte) /\ Len(f) \in Nat /\ Len(f) >= 10 /\ Len(f) <= max BY <1>1, <1>2, NextFrame
<1>4. PICK c \in Byte, q \in Byte, p \in Seq(Byte) : FrameBytes(f, c, q, p)
  BY <1>1, <1>2, NextFrame
<1>5. \A j \in 1..Len(buf) : j <= Len(f) => buf[j] = f[j] BY <1>2, FrontBytes
<1>6. Len(buf) \in Nat /\ Len(buf) >= 8 BY <1>1 DEF MIN_FRAME_LEN
<1>7. buf[1] = f[1] /\ buf[2] = f[2] /\ buf[3] = f[3] /\ buf[4] = f[4]
  <2>1. \A j \in {1, 2, 3, 4} : j \in 1..Len(buf) /\ j <= Len(f) BY <1>3, <1>6
  <2>2. QED BY <1>5, <2>1
<1>8. buf[1] = Head0 /\ buf[2] = Head1 /\ WordAt(buf, 3) = Len(p) + 4 /\ Len(f) = Len(p) + 10
  <2>1. WordAt(buf, 3) = WordAt(f, 3) BY <1>7 DEF WordAt
  <2>2. QED BY <1>4, <1>7, <2>1 DEF FrameBytes
<1>9. FrameSize(1) = Len(f) /\ FrameSize(1) <= MAX_FRAME_SIZE
  <2>1. Len(p) \in Nat OBVIOUS
  <2>2. PICK n \in Nat : n = Len(p) BY <2>1
  <2>3. n + 10 <= max /\ max <= MAX_FRAME_SIZE /\ MAX_FRAME_SIZE < Word /\ MAX_FRAME_SIZE \in Nat
    BY <1>3, <1>8, <2>2 DEF RingFits
  <2>4. (6 + (n + 4)) % Word = n + 10 /\ n + 10 <= MAX_FRAME_SIZE BY <2>3 DEF Word
  <2>5. FrameSize(1) = (6 + WordAt(buf, 3)) % Word BY DEF FrameSize
  <2>6. QED BY <1>8, <2>2, <2>4, <2>5
<1>10. 1 \in Heads
  <2>1. 1 \in 1..(Len(buf) - MIN_FRAME_LEN + 1) BY <1>6 DEF MIN_FRAME_LEN
  <2>2. buf[1 + 1] = Head1 BY <1>8
  <2>3. QED BY <1>8, <1>9, <2>1, <2>2 DEF Heads
<1>11. First(Heads) = 1
  <2>1. \A j \in Heads : j \in Nat /\ 1 <= j BY <1>6 DEF Heads, MIN_FRAME_LEN
  <2>2. \A i \in Heads : (\A j \in Heads : i <= j) => i = 1 BY <1>10, <2>1
  <2> HIDE DEF Heads
  <2>3. QED BY <1>10, <2>1, <2>2 DEF First
<1>12. QED BY <1>2, <1>9, <1>10, <1>11

LEMMA NoHeadInNothing == ASSUME buf = <<>> PROVE Heads = {}
<1>1. Len(buf) - MIN_FRAME_LEN + 1 = -7 BY DEF MIN_FRAME_LEN
<1>2. 1..-7 = {} OBVIOUS
<1>3. QED BY <1>1, <1>2 DEF Heads

LEMMA RingReads ==
  ASSUME NEW max \in Nat, RingFits(max), RingInv(max), NEW n \in 1..MaxChunk, Read(n)
  PROVE  RingInv(max)'
<1>1. PICK k, a : Reached(k, a) BY DEF RingInv, CleanInv
<1>2. CleanStream(sent, max) BY DEF RingInv, CleanInv
<1>3. /\ Len(sent) \in Nat /\ k \in Nat /\ k <= Len(sent) /\ a \in Nat /\ EndOf(sent, k) \in Nat
      /\ buf \in Seq(Byte) /\ Len(buf) = a - EndOf(sent, k) /\ line \in Seq(Byte)
      /\ (k = Len(sent) => buf = <<>> /\ line = <<>>)
  BY <1>1, <1>2, Kept
<1>4. pc = "read" /\ line # <<>> /\ n \in Nat /\ n <= Len(line) /\ MaxChunk \in Nat /\ n <= MaxChunk
  BY DEF Read, RingFits
<1>5. k < Len(sent) BY <1>3, <1>4
<1>6. Len(buf) < max
  <2>1. a < EndOf(sent, k + 1) BY <1>1, <1>4, <1>5 DEF Reached
  <2>2. /\ EndOf(sent, k + 1) = EndOf(sent, k) + Len(sent[k + 1].bytes)
        /\ Len(sent[k + 1].bytes) \in Nat /\ Len(sent[k + 1].bytes) <= max
    BY <1>2, <1>3, <1>5, NextFrame
  <2>3. PICK e \in Nat, l \in Nat : e = EndOf(sent, k) /\ l = Len(sent[k + 1].bytes) BY <1>3, <2>2
  <2>4. a < e + l /\ l <= max /\ Len(buf) = a - e BY <1>3, <2>1, <2>2, <2>3
  <2>5. QED BY <1>3, <2>3, <2>4
<1>7. PICK data \in Seq(Byte) : data = SubSeq(line, 1, n) /\ Len(data) = n /\ SubSeq(data, 1, n) = data
  <2>1. line \in Seq(Byte) /\ n \in Nat /\ n <= Len(line) BY <1>3, <1>4
  <2>2. PICK d : d = SubSeq(line, 1, n) OBVIOUS
  <2>3. d \in Seq(Byte) /\ Len(d) = n BY ONLY <2>1, <2>2
  <2>4. PICK e : e = SubSeq(d, 1, n) OBVIOUS
  <2>5. e \in Seq(Byte) /\ Len(e) = n /\ \A i \in 1..n : e[i] = d[i] BY ONLY <2>1, <2>3, <2>4
  <2>6. e = d BY ONLY <2>3, <2>5, EqualQueues
  <2>7. QED BY <2>2, <2>3, <2>4, <2>6
<1>8. Len(buf) \in Nat /\ RX_BUFFER_SIZE \in Nat /\ Len(buf) + n + 1 <= RX_BUFFER_SIZE
  BY <1>3, <1>4, <1>6 DEF RingFits
<1>9. n <= rxBufferFreeSpace BY <1>4, <1>8 DEF rxBufferFreeSpace
<1>10. buf' = buf \o SubSeq(line, 1, n) /\ ~lost'
  <2>1. feedRxBuffer(data) BY <1>7 DEF Read
  <2>2. (IF Len(data) <= rxBufferFreeSpace THEN Len(data) ELSE rxBufferFreeSpace) = n
    BY <1>7, <1>9
  <2>3. buf' = buf \o SubSeq(data, 1, n) /\ lost' = (lost \/ n < Len(data))
    BY <2>1, <2>2 DEF feedRxBuffer
  <2>4. ~lost /\ ~(n < Len(data)) BY <1>4, <1>7 DEF RingInv
  <2>5. QED BY <1>7, <2>3, <2>4
<1>11. /\ line' = SubSeq(line, n + 1, Len(line)) /\ sent' = sent /\ got' = got /\ pc' = "parse"
       /\ calls' = 0
  BY DEF Read
<1>12. Reached(k, a + n)' BY <1>1, <1>2, <1>4, <1>10, <1>11, Fed
<1>13. CleanInv(max)' BY <1>2, <1>11, <1>12 DEF CleanInv, CleanStream
<1>14. Len(buf') = Len(buf) + n
  <2>1. buf \in Seq(Byte) BY <1>3
  <2>2. buf' = buf \o data /\ Len(data) = n BY <1>7, <1>10
  <2>3. QED BY ONLY <2>1, <2>2
<1>15. calls' \in Nat /\ BytesUsedUp'
  BY <1>4, <1>8, <1>11, <1>14 DEF BytesUsedUp
<1>16. QED BY <1>10, <1>13, <1>15 DEF RingInv

LEMMA RingTakes ==
  ASSUME NEW max \in Nat, RingFits(max), RingInv(max), pc = "parse", TakeFrame,
         UNCHANGED <<sent, line, lost>>
  PROVE  RingInv(max)'
<1>1. PICK k, a : Reached(k, a) BY DEF RingInv, CleanInv
<1>2. CleanStream(sent, max) BY DEF RingInv, CleanInv
<1>3. /\ Len(sent) \in Nat /\ k \in Nat /\ k <= Len(sent) /\ buf \in Seq(Byte)
      /\ (k = Len(sent) => buf = <<>>)
  BY <1>1, <1>2, Kept
<1>4. Heads # {} BY DEF TakeFrame
<1>5. k < Len(sent) BY <1>3, <1>4, NoHeadInNothing
<1>6. Len(buf) \in Nat /\ Len(buf) >= MIN_FRAME_LEN
  <2>1. Len(buf) \in Nat BY <1>3
  <2>2. PICK i : i \in 1..(Len(buf) - MIN_FRAME_LEN + 1) BY <1>4 DEF Heads
  <2>3. QED BY <2>1, <2>2 DEF MIN_FRAME_LEN
<1>7. First(Heads) = 1 /\ FrameSize(1) = Len(sent[k + 1].bytes) BY <1>1, <1>2, <1>5, <1>6, FrameAhead
<1>8. PICK f : f = sent[k + 1].bytes OBVIOUS
<1>9. Len(f) \in Nat /\ Len(f) >= 10 BY <1>2, <1>3, <1>5, <1>8, NextFrame
<1>10. 1 + FrameSize(1) - 1 = Len(f) /\ 1 + FrameSize(1) = Len(f) + 1 BY <1>7, <1>8, <1>9
<1>11. /\ Len(f) <= Len(buf) /\ buf' = SubSeq(buf, Len(f) + 1, Len(buf))
       /\ calls' = IF calls <= RX_BUFFER_SIZE THEN calls + 1 ELSE calls
       /\ got' = IF parseFrame(SubSeq(buf, 1, Len(f))).ret = 0
                   THEN Append(got, Content(SubSeq(buf, 1, Len(f)))) ELSE got
       /\ pc' = IF parseFrame(SubSeq(buf, 1, Len(f))).ret = Undefined THEN "undefined" ELSE pc
  BY <1>7, <1>8, <1>10 DEF TakeFrame, Extracted, Content
<1>12. SubSeq(buf, 1, Len(f)) = f BY <1>1, <1>2, <1>5, <1>8, <1>11, Whole
<1>13. parseFrame(f).ret = 0
  <2>1. PICK c \in Byte, q \in Byte, p \in Seq(Byte) : FrameBytes(f, c, q, p) /\ f = buildFrame(c, q, p)
    BY <1>2, <1>3, <1>5, <1>8, NextFrame
  <2>2. Len(f) <= max /\ max <= MAX_FRAME_SIZE /\ MAX_FRAME_SIZE < Word /\ MAX_FRAME_SIZE \in Nat
    BY <1>2, <1>3, <1>5, <1>8, NextFrame DEF RingFits
  <2>3. Len(p) + 10 < Word BY <1>9, <2>1, <2>2 DEF FrameBytes, Word
  <2>4. parseFrame(f) = [ret |-> 0, cmd |-> c, seq |-> q, payload |-> p] BY <2>1, <2>3, BuiltIsParsed
  <2>5. QED BY <2>4
<1>14. got' = Append(got, Content(f)) /\ pc' = "parse"
  <2>1. ~(parseFrame(f).ret = Undefined) BY <1>13 DEF Undefined
  <2>2. got' = Append(got, Content(f)) BY <1>11, <1>12, <1>13
  <2>3. pc' = pc BY <1>11, <1>12, <2>1
  <2>4. QED BY <2>2, <2>3
<1>15. Reached(k + 1, a)' BY <1>1, <1>2, <1>5, <1>8, <1>11, <1>14, Taken
<1>16. CleanInv(max)' BY <1>2, <1>14, <1>15 DEF CleanInv, CleanStream
<1>17. Len(buf') = Len(buf) - Len(f)
  BY <1>3, <1>6, <1>9, <1>11
<1>18. calls' \in Nat /\ BytesUsedUp'
  <2>1. calls \in Nat /\ calls + Len(buf) <= RX_BUFFER_SIZE /\ RX_BUFFER_SIZE \in Nat
    BY DEF RingInv, RingFits, BytesUsedUp
  <2>2. PICK c \in Nat, l \in Nat, n \in Nat : c = calls /\ l = Len(buf) /\ n = Len(f) BY <1>6, <1>9, <2>1
  <2>3. c + l <= RX_BUFFER_SIZE /\ n <= l /\ n >= 10 BY <1>9, <1>11, <2>1, <2>2
  <2>4. calls' = c + 1 /\ Len(buf') = l - n BY <1>11, <1>17, <2>1, <2>2, <2>3
  <2>5. c + 1 \in Nat /\ (c + 1) + (l - n) <= RX_BUFFER_SIZE BY <2>1, <2>2, <2>3
  <2>6. QED BY <2>4, <2>5 DEF BytesUsedUp
<1>19. QED BY <1>16, <1>18 DEF RingInv

LEMMA RingWaits ==
  ASSUME NEW max \in Nat, RingFits(max), RingInv(max), NoFrame, pc' = "read",
         UNCHANGED <<sent, line, buf, got, lost, calls>>
  PROVE  RingInv(max)'
<1>1. PICK k, a : Reached(k, a) BY DEF RingInv, CleanInv
<1>2. CleanStream(sent, max) BY DEF RingInv, CleanInv
<1>3. /\ Len(sent) \in Nat /\ k \in Nat /\ k <= Len(sent) /\ buf \in Seq(Byte) /\ a \in Nat
      /\ EndOf(sent, k) \in Nat /\ Len(buf) = a - EndOf(sent, k)
  BY <1>1, <1>2, Kept
<1>4. ASSUME k < Len(sent) PROVE a < EndOf(sent, k + 1)
  <2>1. /\ EndOf(sent, k + 1) = EndOf(sent, k) + Len(sent[k + 1].bytes)
        /\ Len(sent[k + 1].bytes) \in Nat /\ Len(sent[k + 1].bytes) >= 10
    BY <1>2, <1>3, <1>4, NextFrame
  <2>2. PICK e \in Nat, n \in Nat : e = EndOf(sent, k) /\ n = Len(sent[k + 1].bytes) BY <1>3, <2>1
  <2>3. SUFFICES ASSUME ~(a < e + n) PROVE FALSE BY <2>1, <2>2
  <2>4. Len(buf) >= n /\ Len(buf) >= MIN_FRAME_LEN BY <1>3, <2>1, <2>2, <2>3 DEF MIN_FRAME_LEN
  <2>5. First(Heads) = 1 /\ Heads # {} /\ FrameSize(1) = n BY <1>1, <1>2, <1>4, <2>2, <2>4, FrameAhead
  <2>6. 1 + n - 1 > Len(buf) BY <2>5 DEF NoFrame
  <2>7. QED BY <1>3, <2>4, <2>6
<1>5. Reached(k, a)' BY <1>1, <1>4, Waits
<1>6. QED BY <1>2, <1>5 DEF RingInv, CleanInv, CleanStream, BytesUsedUp

(* RxRing, the ring of the device programs and of the command-line reader: on a      *)
(* line of frames, of any contents, number and order, cut into chunks of any size,   *)
(* a ring with room for the longest frame and a chunk drops no byte; the frames it   *)
(* has handed over whenever it waits are those that have arrived, in order and once;  *)
(* and its loop ends: it is never stuck.                                           *)
THEOREM CleanRing ==
  ASSUME NEW max \in Nat, CleanLine(max), RingFits(max)
  PROVE  Spec => [](FramesComeOut /\ NothingDropped /\ ParseDefined /\ BytesUsedUp)
<1>1. ASSUME Init PROVE RingInv(max)
  <2>1. CleanInv(max) BY <1>1, CleanStart DEF Init
  <2>2. Len(<<>>) = 0 OBVIOUS
  <2>3. calls = 0 /\ lost = FALSE /\ buf = <<>> BY <1>1 DEF Init, LineInit
  <2>4. QED BY <2>1, <2>2, <2>3 DEF RingInv, RingFits, BytesUsedUp
<1>2. ASSUME RingInv(max), [Next]_vars PROVE RingInv(max)'
  <2>1. CASE Parse
    <3>1. CASE TakeFrame BY <1>2, <2>1, <3>1, RingTakes DEF Parse
    <3>2. CASE NoFrame /\ pc' = "read" /\ UNCHANGED <<buf, got, calls>>
      BY <1>2, <2>1, <3>2, RingWaits DEF Parse
    <3>3. QED BY <2>1, <3>1, <3>2 DEF Parse
  <2>2. CASE \E n \in 1..MaxChunk : Read(n) BY <1>2, <2>2, RingReads
  <2>3. CASE UNCHANGED vars
    <3>1. UNCHANGED <<sent, line, buf, got, pc, lost, calls>> BY <2>3 DEF vars, lineVars
    <3>2. PICK k, a : Reached(k, a) BY <1>2 DEF RingInv, CleanInv
    <3>3. Reached(k, a)' BY <3>1, <3>2 DEF Reached, ContentsOf
    <3>4. CleanStream(sent, max)' /\ pc' \in {"read", "parse"}
      BY <1>2, <3>1 DEF RingInv, CleanInv, CleanStream
    <3>5. QED BY <1>2, <3>1, <3>3, <3>4 DEF RingInv, CleanInv, BytesUsedUp
  <2>4. QED BY <1>2, <2>1, <2>2, <2>3 DEF Next
<1>3. ASSUME RingInv(max) PROVE FramesComeOut /\ NothingDropped /\ ParseDefined /\ BytesUsedUp
  <2>1. PICK k, a : Reached(k, a) BY <1>3 DEF RingInv, CleanInv
  <2>2. CleanStream(sent, max) /\ pc \in {"read", "parse"} BY <1>3 DEF RingInv, CleanInv
  <2>3. FramesComeOut BY <2>1, <2>2, HandedOver DEF FramesComeOut
  <2>4. QED BY <1>3, <2>2, <2>3 DEF NothingDropped, ParseDefined, RingInv
<1>4. QED BY <1>1, <1>2, <1>3, PTL DEF Spec

-----------------------------------------------------------------------------
(* The ring on a line of anything: its loop.                                     *)
RingHolds ==
  /\ buf \in Seq(Byte) /\ line \in Seq(Byte) /\ Len(buf) < RX_BUFFER_SIZE
  /\ calls \in Nat /\ ParseEnds

LEMMA FirstIsLeast ==
  ASSUME NEW S, S \subseteq Nat, S # {}
  PROVE  First(S) \in S /\ \A j \in S : First(S) <= j
BY LeastNumber DEF First

LEMMA RingTakesAny ==
  ASSUME RX_BUFFER_SIZE \in Nat, RingHolds, TakeFrame, line' = line
  PROVE  RingHolds'
<1>1. PICK i : i = First(Heads) OBVIOUS
<1>2. buf \in Seq(Byte) /\ Len(buf) \in Nat /\ Len(buf) < RX_BUFFER_SIZE /\ calls \in Nat
  BY DEF RingHolds
<1>3. /\ i \in Nat \ {0} /\ i + 7 <= Len(buf) /\ i \in Heads
      /\ buf[i] = Head0 /\ buf[i + 1] = Head1 /\ FrameSize(i) <= MAX_FRAME_SIZE
  <2>1. Heads # {} /\ Heads \subseteq Nat BY <1>2 DEF TakeFrame, Heads, MIN_FRAME_LEN
  <2>2. i \in Heads BY <1>1, <2>1, FirstIsLeast
  <2>3. QED BY <1>2, <2>2 DEF Heads, MIN_FRAME_LEN
<1>4. PICK size \in Nat : size = FrameSize(i)
  <2>1. /\ i + 2 \in 1..Len(buf) /\ (i + 2) + 1 \in 1..Len(buf) BY <1>2, <1>3
  <2>2. buf[i + 2] \in Byte /\ buf[(i + 2) + 1] \in Byte BY <1>2, <2>1
  <2>3. WordAt(buf, i + 2) = buf[i + 2] + 256 * buf[(i + 2) + 1] BY DEF WordAt
  <2>4. PICK x \in Byte, y \in Byte : WordAt(buf, i + 2) = x + 256 * y BY <2>2, <2>3
  <2>5. x + 256 * y \in Nat BY WordOfBytes
  <2>6. FrameSize(i) = (6 + (x + 256 * y)) % Word BY <2>4 DEF FrameSize
  <2>7. \A w \in Nat : (6 + w) % Word \in Nat BY DEF Word
  <2>8. QED BY <2>5, <2>6, <2>7
<1>5. /\ i + size - 1 <= Len(buf) /\ buf' = SubSeq(buf, i + size, Len(buf))
      /\ calls' = IF calls <= RX_BUFFER_SIZE THEN calls + 1 ELSE calls
  BY <1>1, <1>4 DEF TakeFrame, Extracted
<1>6. PICK m \in Nat \ {0} : m = i + size /\ m <= Len(buf) + 1 BY <1>2, <1>3, <1>4, <1>5
<1>7. /\ buf' \in Seq(Byte) /\ Len(buf') = Len(buf) - m + 1
      /\ \A j \in 1..(Len(buf) - m + 1) : buf'[j] = buf[m + j - 1]
  BY <1>2, <1>5, <1>6, Part
<1>8. calls' \in Nat /\ Len(buf') < RX_BUFFER_SIZE BY <1>2, <1>5, <1>6, <1>7
<1>9. CASE size = 0
  <2>1. m = i BY <1>3, <1>6, <1>9
  <2>2. \A j \in {1, 2, 3, 4} : buf'[j] = buf[i + j - 1]
    <3>1. \A j \in {1, 2, 3, 4} : j \in 1..(Len(buf) - i + 1) BY <1>2, <1>3
    <3>2. QED BY <1>7, <2>1, <3>1
  <2>3. buf'[1] = buf[i] /\ buf'[2] = buf[i + 1] /\ buf'[3] = buf[i + 2] /\ buf'[4] = buf[(i + 2) + 1]
    <3>1. i + 1 - 1 = i /\ i + 2 - 1 = i + 1 /\ i + 3 - 1 = i + 2 /\ i + 4 - 1 = (i + 2) + 1 BY <1>3
    <3>2. QED BY <2>2, <3>1
  <2>4. FrameSize(1)' = FrameSize(i)
    <3>1. WordAt(buf', 1 + 2) = WordAt(buf, i + 2)
      <4>1. 1 + 2 = 3 /\ (1 + 2) + 1 = 4 OBVIOUS
      <4>2. QED BY <2>3, <4>1 DEF WordAt
    <3>2. QED BY <3>1 DEF FrameSize
  <2>5. PICK H : H = Heads' OBVIOUS
  <2>6. 1 \in H /\ \A j \in H : j \in Nat /\ 1 <= j
    <3>1. Len(buf') \in Nat /\ Len(buf') >= 8 BY <1>2, <1>3, <1>7, <2>1
    <3>2. 1 \in 1..(Len(buf') - MIN_FRAME_LEN + 1) BY <3>1 DEF MIN_FRAME_LEN
    <3>3. buf'[1] = Head0 /\ buf'[1 + 1] = Head1 /\ FrameSize(1)' <= MAX_FRAME_SIZE
      BY <1>3, <2>3, <2>4
    <3>4. 1 \in Heads' BY <3>2, <3>3 DEF Heads
    <3>5. \A j \in Heads' : j \in Nat /\ 1 <= j BY <3>1 DEF Heads, MIN_FRAME_LEN
    <3>6. QED BY <2>5, <3>4, <3>5
  <2>7. First(H) = 1
    <3>1. H \subseteq Nat /\ H # {} BY <2>6
    <3>2. First(H) \in H /\ First(H) <= 1 BY <2>6, <3>1, FirstIsLeast
    <3>3. QED BY <2>6, <3>2
  <2>8. Stuck'
    <3>1. Heads' # {} BY <2>5, <2>6
    <3>2. First(Heads)' = 1 BY <2>5, <2>7
    <3>3. FrameSize(First(Heads))' = FrameSize(1)' BY <3>2 DEF FrameSize
    <3>4. QED BY <1>4, <1>9, <2>4, <3>1, <3>3 DEF Stuck
  <2>9. QED BY <1>2, <1>7, <1>8, <2>8 DEF RingHolds, ParseEnds
<1>10. CASE size # 0
  <2>1. ~Stuck BY <1>1, <1>4, <1>10 DEF Stuck
  <2>2. calls + Len(buf) <= RX_BUFFER_SIZE BY <2>1 DEF RingHolds, ParseEnds, BytesUsedUp
  <2>3. calls' = calls + 1 BY <1>2, <1>5, <2>2
  <2>4. Len(buf') <= Len(buf) - 1 /\ Len(buf') \in Nat
    <3>1. PICK l \in Nat : l = Len(buf) BY <1>2
    <3>2. m >= 2 /\ m <= l + 1 BY <1>3, <1>6, <1>10, <3>1
    <3>3. l - m + 1 <= l - 1 /\ l - m + 1 \in Nat BY <3>2
    <3>4. QED BY <1>7, <3>1, <3>3
  <2>5. BytesUsedUp' BY <1>2, <2>2, <2>3, <2>4 DEF BytesUsedUp
  <2>6. QED BY <1>2, <1>7, <1>8, <2>5 DEF RingHolds, ParseEnds
<1>11. QED BY <1>9, <1>10

LEMMA RingReadsAny ==
  ASSUME RX_BUFFER_SIZE \in Nat, RingHolds, NEW n \in Nat, Read(n)
  PROVE  RingHolds'
<1>1. /\ buf \in Seq(Byte) /\ line \in Seq(Byte) /\ Len(buf) \in Nat /\ Len(line) \in Nat
      /\ Len(buf) < RX_BUFFER_SIZE
  BY DEF RingHolds
<1>2. n <= Len(line) /\ line' = SubSeq(line, n + 1, Len(line)) /\ calls' = 0 BY DEF Read
<1>3. line' \in Seq(Byte)
  <2>1. n + 1 \in Nat \ {0} /\ n + 1 <= Len(line) + 1 BY <1>1, <1>2
  <2>2. QED BY <1>1, <1>2, <2>1, Part
<1>4. PICK data \in Seq(Byte) : data = SubSeq(line, 1, n) /\ Len(data) = n
  <2>1. PICK d : d = SubSeq(line, 1, n) OBVIOUS
  <2>2. d \in Seq(Byte) /\ Len(d) = n BY ONLY <1>1, <1>2, <2>1, n \in Nat
  <2>3. QED BY <2>1, <2>2
<1>5. PICK w \in Nat : w <= n /\ w <= RX_BUFFER_SIZE - Len(buf) - 1 /\ buf' = buf \o SubSeq(data, 1, w)
  <2>1. feedRxBuffer(data) BY <1>4 DEF Read
  <2>2. PICK w : w = IF n <= rxBufferFreeSpace THEN n ELSE rxBufferFreeSpace OBVIOUS
  <2>3. buf' = buf \o SubSeq(data, 1, w) BY <1>4, <2>1, <2>2 DEF feedRxBuffer
  <2>4. w \in Nat /\ w <= n /\ w <= RX_BUFFER_SIZE - Len(buf) - 1 BY <1>1, <2>2 DEF rxBufferFreeSpace
  <2>5. QED BY <2>3, <2>4
<1>6. PICK part \in Seq(Byte) : part = SubSeq(data, 1, w) /\ Len(part) = w
  <2>1. PICK d : d = SubSeq(data, 1, w) OBVIOUS
  <2>2. w \in Nat /\ w <= n /\ data \in Seq(Byte) /\ Len(data) = n BY <1>4, <1>5
  <2>3. d \in Seq(Byte) /\ Len(d) = w BY ONLY <2>1, <2>2, n \in Nat
  <2>4. QED BY <2>1, <2>3
<1>7. buf' \in Seq(Byte) /\ Len(buf') = Len(buf) + w BY <1>1, <1>5, <1>6
<1>8. Len(buf') < RX_BUFFER_SIZE /\ calls' + Len(buf') <= RX_BUFFER_SIZE BY <1>1, <1>2, <1>5, <1>7
<1>9. QED BY <1>2, <1>3, <1>7, <1>8 DEF RingHolds, ParseEnds, BytesUsedUp

(* RxRing: whatever the line carries and however it is cut, into a ring of any size,  *)
(* the loop of tryParseFramesFromRx ends, unless it comes upon a head whose size      *)
(* wraps to 0.  Nothing else a head may promise, true or false, keeps it going.       *)
THEOREM LoopEnds ==
  ASSUME Streams \subseteq Seq(Item), RX_BUFFER_SIZE \in Nat \ {0}, MaxChunk \in Nat
  PROVE  Spec => []ParseEnds
<1>1. ASSUME Init PROVE RingHolds
  <2>1. sent \in Seq(Item) /\ line = BytesOf(sent) /\ buf = <<>> /\ calls = 0
    BY <1>1 DEF Init, LineInit
  <2>2. line \in Seq(Byte) BY <2>1, StreamHolds DEF Holds
  <2>3. Len(<<>>) = 0 /\ <<>> \in Seq(Byte) OBVIOUS
  <2>4. QED BY <2>1, <2>2, <2>3 DEF RingHolds, ParseEnds, BytesUsedUp
<1>2. ASSUME RingHolds, [Next]_vars PROVE RingHolds'
  <2>1. CASE pc = "parse" /\ TakeFrame /\ UNCHANGED <<sent, line, lost>>
    BY <1>2, <2>1, RingTakesAny
  <2>2. CASE UNCHANGED <<line, buf, calls>>
    BY <1>2, <2>2 DEF RingHolds, ParseEnds, BytesUsedUp, Stuck, Heads, FrameSize
  <2>3. CASE \E n \in 1..MaxChunk : Read(n) BY <1>2, <2>3, RingReadsAny
  <2>4. QED BY <1>2, <2>1, <2>2, <2>3 DEF Next, Parse, vars, lineVars
<1>3. QED BY <1>1, <1>2, PTL DEF Spec, RingHolds

-----------------------------------------------------------------------------
(* The gateway's parser on a line of frames.                                     *)
LEMMA ParserWaits ==
  ASSUME NEW max \in Nat, CleanInv(max), NEW k, NEW a, Reached(k, a),
         k < Len(sent) => Len(buf) < Len(sent[k + 1].bytes),
         pc' = "read", UNCHANGED <<sent, line, buf, got>>
  PROVE  CleanInv(max)'
<1>1. CleanStream(sent, max) BY DEF CleanInv
<1>2. /\ Len(sent) \in Nat /\ k \in Nat /\ a \in Nat
      /\ EndOf(sent, k) \in Nat /\ EndOf(sent, k) <= a /\ Len(buf) = a - EndOf(sent, k)
  BY <1>1, Kept
<1>3. ASSUME k < Len(sent) PROVE a < EndOf(sent, k + 1)
  <2>1. /\ EndOf(sent, k + 1) = EndOf(sent, k) + Len(sent[k + 1].bytes)
        /\ Len(sent[k + 1].bytes) \in Nat
    BY <1>1, <1>2, <1>3, NextFrame
  <2>2. PICK e \in Nat, n \in Nat : e = EndOf(sent, k) /\ n = Len(sent[k + 1].bytes) BY <1>2, <2>1
  <2>3. a - e < n BY <1>2, <1>3, <2>2
  <2>4. a < e + n BY <1>2, <2>2, <2>3
  <2>5. QED BY <2>1, <2>2, <2>4
<1>4. Reached(k, a)' BY <1>3, Waits
<1>5. QED BY <1>1, <1>4 DEF CleanInv, CleanStream

LEMMA ParserTooShort ==
  ASSUME NEW max \in Nat, CleanInv(max), TooShort
  PROVE  CleanInv(max)'
<1>1. PICK k, a : Reached(k, a) BY DEF CleanInv
<1>2. CleanStream(sent, max) BY DEF CleanInv
<1>3. k \in Nat /\ buf \in Seq(Byte) BY <1>1, <1>2, Kept
<1>4. Len(buf) \in Nat /\ Len(buf) < 10 BY <1>3 DEF TooShort, MinFrame
<1>5. ASSUME k < Len(sent) PROVE Len(buf) < Len(sent[k + 1].bytes)
  <2>1. Len(sent[k + 1].bytes) \in Nat /\ Len(sent[k + 1].bytes) >= 10 BY <1>2, <1>3, <1>5, NextFrame
  <2>2. QED BY <1>4, <2>1
<1>6. pc' = "read" /\ UNCHANGED <<sent, line, buf, got>> BY DEF TooShort
<1>7. QED BY <1>1, <1>5, <1>6, ParserWaits

LEMMA ParserFeeds ==
  ASSUME NEW max \in Nat, CleanInv(max), NEW n \in Nat, Feed(n)
  PROVE  CleanInv(max)'
<1>1. PICK k, a : Reached(k, a) BY DEF CleanInv
<1>2. CleanStream(sent, max) BY DEF CleanInv
<1>3. /\ n <= Len(line) /\ buf' = buf \o SubSeq(line, 1, n)
      /\ line' = SubSeq(line, n + 1, Len(line)) /\ sent' = sent /\ got' = got /\ pc' = "parse"
  BY DEF Feed
<1>4. Reached(k, a + n)' BY <1>1, <1>2, <1>3, Fed
<1>5. QED BY <1>2, <1>3, <1>4 DEF CleanInv, CleanStream

LEMMA ParserParses ==
  ASSUME NEW max \in Nat, max < Word, CleanInv(max), ParseOne
  PROVE  CleanInv(max)'
<1>1. PICK k, a : Reached(k, a) BY DEF CleanInv
<1>2. CleanStream(sent, max) BY DEF CleanInv
<1>3. /\ Len(sent) \in Nat /\ k \in Nat /\ k <= Len(sent) /\ buf \in Seq(Byte)
      /\ (k = Len(sent) => buf = <<>>)
  BY <1>1, <1>2, Kept
<1>4. Len(buf) \in Nat /\ Len(buf) >= 10 BY <1>3 DEF ParseOne, MinFrame
<1>5. k < Len(sent)
  <2>1. buf # <<>>
    <3>1. Len(<<>>) = 0 OBVIOUS
    <3>2. QED BY <1>4, <3>1
  <2>2. QED BY <1>3, <2>1
<1>6. PICK f \in Seq(Byte), c \in Byte, q \in Byte, p \in Seq(Byte) :
        f = sent[k + 1].bytes /\ FrameBytes(f, c, q, p) /\ f = buildFrame(c, q, p)
  <2>1. PICK g : g = sent[k + 1].bytes OBVIOUS
  <2>2. /\ g \in Seq(Byte)
        /\ \E c, q \in Byte : \E p \in Seq(Byte) : FrameBytes(g, c, q, p) /\ g = buildFrame(c, q, p)
    BY <1>2, <1>3, <1>5, <2>1, NextFrame
  <2>3. QED BY <2>1, <2>2
<1>7. PICK l \in Nat : l = Len(p) /\ Len(f) = l + 10 /\ WordAt(f, 3) = l + 4
  <2>1. Len(p) \in Nat OBVIOUS
  <2>2. QED BY <1>6, <2>1 DEF FrameBytes
<1>8. \A j \in 1..Len(buf) : j <= Len(f) => buf[j] = f[j] BY <1>1, <1>2, <1>5, <1>6, FrontBytes
<1>9. buf[1] = Head0 /\ buf[2] = Head1 /\ WordAt(buf, 3) = l + 4 /\ buf[5] = c /\ buf[6] = q
  <2>1. \A j \in {1, 2, 3, 4, 5, 6} : j \in 1..Len(buf) /\ j <= Len(f) BY <1>4, <1>7
  <2>2. \A j \in {1, 2, 3, 4, 5, 6} : buf[j] = f[j] BY <1>8, <2>1
  <2>3. WordAt(buf, 3) = WordAt(f, 3) BY <2>2 DEF WordAt
  <2>4. QED BY <1>6, <1>7, <2>2, <2>3 DEF FrameBytes
<1>10. Starts # {} /\ FromStart = buf
  <2>1. 1 \in Starts
    <3>1. 1 \in 1..(Len(buf) - 1) /\ buf[1 + 1] = Head1 BY <1>4, <1>9
    <3>2. QED BY <1>9, <3>1 DEF Starts
  <2>2. \A j \in Starts : j \in Nat /\ 1 <= j BY <1>4 DEF Starts
  <2> DEFINE S == Starts
             least == CHOOSE i \in S : \A j \in S : i <= j
  <2>3. \A i \in S : (\A j \in S : i <= j) => i = 1 BY <2>1, <2>2
  <2>4. 1 \in S BY <2>1
  <2>5. FromStart = SubSeq(buf, least, Len(buf)) BY <2>1 DEF FromStart
  <2> HIDE DEF S
  <2>6. least = 1
    <3>1. \A j \in S : 1 <= j BY <2>2 DEF S
    <3>2. QED BY <2>3, <2>4, <3>1
  <2>7. SubSeq(buf, 1, Len(buf)) = buf BY <1>3
  <2>8. QED BY <2>1, <2>5, <2>6, <2>7
<1>11. CASE Len(buf) < Len(f)
  <2>1. Len(buf) < 6 + WordAt(buf, 3) BY <1>7, <1>9, <1>11
  <2>2. Verdict(buf) = "unfinished" BY <2>1 DEF Verdict
  <2>3. buf' = buf /\ pc' = "read" /\ UNCHANGED got /\ UNCHANGED <<sent, line>>
    BY <1>10, <2>2 DEF ParseOne
  <2>4. k < Len(sent) => Len(buf) < Len(sent[k + 1].bytes) BY <1>6, <1>11
  <2>5. QED BY <1>1, <2>3, <2>4, ParserWaits
<1>12. CASE ~(Len(buf) < Len(f))
  <2>1. Len(f) <= Len(buf) BY <1>4, <1>7, <1>12
  <2>2. SubSeq(buf, 7, l + 6) = p
    <3>1. PICK r : r = SubSeq(buf, 7, l + 6) OBVIOUS
    <3>2. l + 6 <= Len(buf) BY <1>4, <1>7, <2>1
    <3>3. r \in Seq(Byte) /\ Len(r) = l /\ \A i \in 1..l : r[i] = buf[i + 6]
      BY ONLY <1>3, <1>4, <1>7, <3>1, <3>2, l \in Nat
    <3>4. \A i \in 1..l : buf[i + 6] = f[i + 6]
      <4>1. \A i \in 1..l : i + 6 \in 1..Len(buf) /\ i + 6 <= Len(f) BY <1>4, <1>7, <3>2
      <4>2. QED BY <1>8, <4>1
    <3>5. \A i \in 1..l : f[i + 6] = p[i] BY <1>6, <1>7 DEF FrameBytes
    <3>6. \A i \in 1..l : r[i] = p[i] BY <3>3, <3>4, <3>5
    <3>7. r = p BY <1>7, <3>3, <3>6, EqualQueues
    <3>8. QED BY <3>1, <3>7
  <2>3. /\ WordAt(buf, 7 + l) = Crc(c, q, p)
        /\ buf[l + 9] = Tail0 /\ buf[l + 10] = Tail1
    <3>1. \A j \in {7 + l, 7 + l + 1, l + 9, l + 10} : j \in 1..Len(buf) /\ j <= Len(f)
      BY <1>4, <1>7, <2>1
    <3>2. \A j \in {7 + l, 7 + l + 1, l + 9, l + 10} : buf[j] = f[j] BY <1>8, <3>1
    <3>3. WordAt(buf, 7 + l) = WordAt(f, 7 + l) BY <3>2 DEF WordAt
    <3>4. 7 + l = l + 7 OBVIOUS
    <3>5. QED BY <1>6, <1>7, <3>2, <3>3, <3>4 DEF FrameBytes
  <2>4. /\ WordAt(buf, 3) + 2 = l + 6 /\ WordAt(buf, 3) + 5 = l + 9 /\ WordAt(buf, 3) + 6 = l + 10
        /\ 6 + WordAt(buf, 3) = Len(f) /\ 7 + WordAt(buf, 3) = Len(f) + 1
    BY <1>7, <1>9
  <2>5. Verdict(buf) = "frame"
    <3>1. ~(Len(buf) < 6 + WordAt(buf, 3)) BY <1>12, <2>4
    <3>2. SubSeq(buf, 7, WordAt(buf, 3) + 2) = p BY <2>2, <2>4
    <3>3. <<buf[WordAt(buf, 3) + 5], buf[WordAt(buf, 3) + 6]>> = <<Tail0, Tail1>> BY <2>3, <2>4
    <3>4. WordAt(buf, 7 + Len(p)) = Crc(buf[5], buf[6], p) BY <1>7, <1>9, <2>3
    <3>5. QED BY <3>1, <3>2, <3>3, <3>4 DEF Verdict
  <2>6. /\ buf' = SubSeq(buf, Len(f) + 1, Len(buf)) /\ got' = Append(got, <<c, q, p>>)
        /\ pc' = pc /\ sent' = sent /\ line' = line /\ pc = "parse"
    <3>1. ~(Len(buf) < MinFrame) BY <1>4 DEF MinFrame
    <3>2. /\ buf' = SubSeq(buf, 7 + WordAt(buf, 3), Len(buf))
          /\ got' = Append(got, <<buf[5], buf[6], SubSeq(buf, 7, WordAt(buf, 3) + 2)>>)
          /\ pc' = pc /\ sent' = sent /\ line' = line /\ pc = "parse"
      BY <1>10, <2>5, <3>1 DEF ParseOne
    <3>3. QED BY <1>9, <2>2, <2>4, <3>2
  <2>7. Content(f) = <<c, q, p>>
    <3>1. Len(f) <= max BY <1>2, <1>3, <1>5, <1>6, NextFrame
    <3>2. Len(p) + 10 < Word BY <1>7, <3>1 DEF Word
    <3>3. parseFrame(f) = [ret |-> 0, cmd |-> c, seq |-> q, payload |-> p]
      BY <1>6, <3>2, BuiltIsParsed
    <3>4. QED BY <3>3 DEF Content
  <2>8. Reached(k + 1, a)'
    <3>1. Len(sent[k + 1].bytes) <= Len(buf) BY <1>6, <2>1
    <3>2. /\ buf' = SubSeq(buf, Len(sent[k + 1].bytes) + 1, Len(buf))
          /\ got' = Append(got, Content(sent[k + 1].bytes))
          /\ sent' = sent /\ line' = line /\ pc' = "parse"
      BY <1>6, <2>6, <2>7
    <3>3. QED BY <1>1, <1>2, <1>5, <3>1, <3>2, Taken
  <2>9. QED BY <1>2, <2>6, <2>8 DEF CleanInv, CleanStream
<1>13. QED BY <1>11, <1>12

(* What the first bytes of the frames say of the bytes used.                       *)
LEMMA KeptFrames ==
  ASSUME NEW max, CleanStream(sent, max), NEW k, NEW a, Reached(k, a)
  PROVE  got = GoodUpTo(Used, FirstByte) /\ Arrived \in Nat
<1>1. sent \in Seq(Item) /\ \A i \in 1..Len(sent) : sent[i].good BY DEF CleanStream
<1>2. /\ Len(sent) \in Nat /\ Holds(BytesOf(sent), sent, Len(sent))
      /\ \A i, j \in 0..Len(sent) : i <= j => EndOf(sent, i) <= EndOf(sent, j)
  BY <1>1, StreamHolds
<1>3. /\ Len(BytesOf(sent)) \in Nat /\ a \in Nat /\ Len(line) = Len(BytesOf(sent)) - a
      /\ EndOf(sent, k) \in Nat /\ Len(buf) = a - EndOf(sent, k)
  BY Kept
<1>4. Arrived = a /\ Used = EndOf(sent, k)
  <2>1. PICK x \in Nat, y \in Nat, z \in Nat : x = Len(BytesOf(sent)) /\ y = a /\ z = EndOf(sent, k)
    BY <1>3
  <2>2. x - (x - y) = y /\ y - (y - z) = z OBVIOUS
  <2>3. Arrived = a BY <1>3, <2>1, <2>2 DEF Arrived
  <2>4. QED BY <1>3, <2>1, <2>2, <2>3 DEF Used
<1>5. k \in 0..Len(sent) /\ got = ContentsOf(k) BY DEF Reached
<1>6. \A i \in 1..Len(sent) : FirstByte[i] = EndOf(sent, i - 1) + 1 BY <1>1 DEF FirstByte, EndOf
<1>7. ASSUME NEW i \in 1..Len(sent) PROVE FirstByte[i] <= EndOf(sent, k) <=> i <= k
  <2>1. PICK j \in 0..Len(sent) : i - 1 = j /\ i = j + 1 /\ j < Len(sent) /\ j \in Nat
    <3>1. i - 1 \in 0..Len(sent) /\ i = (i - 1) + 1 /\ i - 1 < Len(sent) /\ i - 1 \in Nat BY <1>2
    <3>2. QED BY <3>1
  <2>2. EndOf(sent, j) \in Nat BY <1>2, <2>1 DEF Holds
  <2>3. FirstByte[i] = EndOf(sent, j) + 1 BY <1>6, <2>1
  <2>4. CASE i <= k
    <3>1. i \in 0..Len(sent) /\ k \in Nat BY <1>2, <1>5
    <3>2. EndOf(sent, i) <= EndOf(sent, k) BY <1>2, <1>5, <2>4, <3>1
    <3>3. /\ EndOf(sent, i) = EndOf(sent, j) + Len(sent[i].bytes)
          /\ Len(sent[i].bytes) \in Nat /\ Len(sent[i].bytes) >= 10
      BY <2>1, NextFrame
    <3>4. EndOf(sent, j) + 1 <= EndOf(sent, k) BY <1>3, <2>2, <3>2, <3>3
    <3>5. QED BY <2>3, <2>4, <3>4
  <2>5. CASE ~(i <= k)
    <3>1. k <= j BY <1>2, <1>5, <2>1, <2>5
    <3>2. EndOf(sent, k) <= EndOf(sent, j) BY <1>2, <1>5, <2>1, <3>1
    <3>3. ~(EndOf(sent, j) + 1 <= EndOf(sent, k)) BY <1>3, <2>2, <3>2
    <3>4. QED BY <2>3, <2>5, <3>3
  <2>6. QED BY <2>4, <2>5
<1>8. GoodUpTo(EndOf(sent, k), FirstByte) = ContentsOf(k) BY <1>1, <1>2, <1>5, <1>7, GoodIs
<1>9. QED BY <1>3, <1>4, <1>5, <1>8

(* Nothing but frames: no false head, nothing to wait for.                        *)
LEMMA NothingOverdue ==
  ASSUME NEW max, CleanStream(sent, max), MaxChunk \in Nat PROVE Overdue = 0
<1>1. sent \in Seq(Item) /\ \A i \in 1..Len(sent) : sent[i].good BY DEF CleanStream
<1>2. DOMAIN sent = 1..Len(sent) BY <1>1
<1>3. FalseHeads = {} BY <1>1, <1>2 DEF FalseHeads
<1>4. Cardinality(FalseHeads) = 0 BY <1>3, FS_EmptySet
<1>5. {6 + WordAt(BytesOf(sent), i + 2) : i \in FalseHeads} \cup {0} = {0} BY <1>3
<1>6. (CHOOSE x \in {0} : \A y \in {0} : y <= x) = 0 OBVIOUS
<1>7. 0 * MaxChunk + 0 = 0 OBVIOUS
<1>8. QED BY <1>4, <1>5, <1>6, <1>7 DEF Overdue

(* FrameParser, the parser of the gateway: on a line of frames, of any contents,      *)
(* number and order, cut into chunks of any size, no frame is lost or handed over     *)
(* twice, and whenever it waits for more bytes it has handed over every frame that    *)
(* has arrived.                                                              *)
THEOREM CleanParser ==
  ASSUME NEW max \in Nat, max < Word, CleanLine(max), MaxChunk \in Nat
  PROVE  ParserSpec => [](GoodFramesKept /\ CaughtUp)
<1>1. ASSUME LineInit PROVE CleanInv(max) BY <1>1, CleanStart
<1>2. ASSUME CleanInv(max), [ParserNext]_lineVars PROVE CleanInv(max)'
  <2>1. CASE ParseOne BY <1>2, <2>1, ParserParses
  <2>2. CASE TooShort BY <1>2, <2>2, ParserTooShort
  <2>3. CASE \E n \in 1..MaxChunk : Feed(n)
    <3>1. PICK n \in 1..MaxChunk : Feed(n) BY <2>3
    <3>2. n \in Nat OBVIOUS
    <3>3. QED BY <1>2, <3>1, <3>2, ParserFeeds
  <2>4. CASE UNCHANGED lineVars
    <3>1. UNCHANGED <<sent, line, buf, got, pc>> BY <2>4 DEF lineVars
    <3>2. PICK k, a : Reached(k, a) BY <1>2 DEF CleanInv
    <3>3. Reached(k, a)' BY <3>1, <3>2 DEF Reached, ContentsOf
    <3>4. CleanStream(sent, max)' /\ pc' \in {"read", "parse"} BY <1>2, <3>1 DEF CleanInv, CleanStream
    <3>5. QED BY <3>3, <3>4 DEF CleanInv
  <2>5. QED BY <1>2, <2>1, <2>2, <2>3, <2>4 DEF ParserNext
<1>3. ASSUME CleanInv(max) PROVE GoodFramesKept /\ CaughtUp
  <2>1. PICK k, a : Reached(k, a) BY <1>3 DEF CleanInv
  <2>2. CleanStream(sent, max) BY <1>3 DEF CleanInv
  <2>3. got = GoodUpTo(Used, FirstByte) /\ Arrived \in Nat BY <2>1, <2>2, KeptFrames
  <2>4. ASSUME pc = "read" PROVE IsPrefix(GoodUpTo(Arrived - Overdue, LastByte), got)
    <3>1. got = GoodUpTo(Arrived, LastByte) BY <2>1, <2>2, <2>4, HandedOver
    <3>2. Arrived - Overdue = Arrived BY <2>2, <2>3, NothingOverdue
    <3>3. Len(got) \in Nat BY <2>1 DEF Reached, ContentsOf
    <3>4. IsPrefix(got, got) BY <3>3 DEF IsPrefix
    <3>5. QED BY <3>1, <3>2, <3>4
  <2>5. QED BY <2>3, <2>4 DEF GoodFramesKept, CaughtUp
<1>4. QED BY <1>1, <1>2, <1>3, PTL DEF ParserSpec

=============================================================================

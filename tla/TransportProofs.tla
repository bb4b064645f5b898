-------------------------- MODULE TransportProofs --------------------------
(***************************************************************************)
(* Theorems about the transports of the device.  ChunkStream: no block of  *)
(* the two pools is ever lost or held twice, none is empty or overfull, and *)
(* the bytes in them stay in order.  TcpLink: the peer reads whole frames,  *)
(* in order.  BmStream: the rings keep the order of their bytes, with the   *)
(* capacity that the sizes asked for are rounded to.                       *)
(***************************************************************************)
EXTENDS ChunkStream, TcpLink, BmStream, SequenceOrder, FiniteSetTheorems

-----------------------------------------------------------------------------
(* How often a block occurs in a stack or queue, after each operation.     *)

LEMMA CountIsNatural ==
  ASSUME NEW P, NEW s \in Seq(P), NEW b
  PROVE  /\ IsFiniteSet({i \in DOMAIN s : s[i] = b})
         /\ Blocks(b, s) \in Nat
<1>1. Len(s) \in Nat /\ DOMAIN s = 1..Len(s)
  OBVIOUS
<1>2. IsFiniteSet(1..Len(s))
  BY <1>1, FS_Interval
<1>3. IsFiniteSet({i \in DOMAIN s : s[i] = b})
  BY <1>1, <1>2, FS_Subset
<1>4. QED
  BY <1>3, FS_CardinalityType DEF Blocks

LEMMA CountEmpty == \A b : Blocks(b, <<>>) = 0
<1> SUFFICES ASSUME NEW b PROVE Blocks(b, <<>>) = 0
  OBVIOUS
<1>1. {i \in DOMAIN <<>> : <<>>[i] = b} = {}
  OBVIOUS
<1>2. QED
  BY <1>1, FS_EmptySet DEF Blocks

LEMMA CountAppend ==
  ASSUME NEW P, NEW s \in Seq(P), NEW e \in P, NEW b
  PROVE  Blocks(b, Append(s, e)) = Blocks(b, s) + Holds(b, e)
<1> DEFINE I == {i \in DOMAIN s : s[i] = b}
           J == {i \in DOMAIN Append(s, e) : Append(s, e)[i] = b}
<1>1. /\ Len(s) \in Nat /\ DOMAIN s = 1..Len(s)
      /\ DOMAIN Append(s, e) = 1..(Len(s) + 1)
      /\ \A i \in 1..Len(s) : Append(s, e)[i] = s[i]
      /\ Append(s, e)[Len(s) + 1] = e
  OBVIOUS
<1>2. IsFiniteSet(I) /\ Cardinality(I) \in Nat
  BY CountIsNatural, FS_CardinalityType
<1>3. CASE e = b
  <2>1. J = I \cup {Len(s) + 1} /\ Len(s) + 1 \notin I
    BY <1>1, <1>3
  <2>2. Cardinality(J) = Cardinality(I) + 1
    BY <1>2, <2>1, FS_AddElement
  <2>3. QED
    BY <1>3, <2>2 DEF Blocks, Holds
<1>4. CASE e # b
  <2>1. J = I
    BY <1>1, <1>4
  <2> HIDE DEF I, J
  <2>2. Cardinality(J) = Cardinality(I) + 0
    BY <1>2, <2>1
  <2> USE DEF I, J
  <2>3. QED
    BY <1>4, <2>2 DEF Blocks, Holds
<1>5. QED
  BY <1>3, <1>4

(* The stack is popped from its end.                                       *)
LEMMA CountFront ==
  ASSUME NEW P, NEW s \in Seq(P), s # <<>>, NEW b
  PROVE  /\ Front(s) \in Seq(P) /\ Last(s) \in P
         /\ Blocks(b, s) = Blocks(b, Front(s)) + Holds(b, Last(s))
<1>1. Len(s) \in Nat /\ Len(s) >= 1
  OBVIOUS
<1>2. /\ Front(s) \in Seq(P) /\ Last(s) \in P /\ Len(Front(s)) = Len(s) - 1
      /\ \A i \in 1..(Len(s) - 1) : Front(s)[i] = s[i]
  <2>1. Len(s) - 1 \in 0..Len(s) /\ Front(s) = SubSeq(s, 1, Len(s) - 1)
    BY <1>1 DEF Front
  <2>2. /\ SubSeq(s, 1, Len(s) - 1) \in Seq(P)
        /\ Len(SubSeq(s, 1, Len(s) - 1)) = Len(s) - 1
        /\ \A i \in 1..(Len(s) - 1) : SubSeq(s, 1, Len(s) - 1)[i] = s[i]
    <3>1. \A n \in 0..Len(s) : /\ SubSeq(s, 1, n) \in Seq(P) /\ Len(SubSeq(s, 1, n)) = n
                               /\ \A i \in 1..n : SubSeq(s, 1, n)[i] = s[i]
      OBVIOUS
    <3>2. QED
      BY <2>1, <3>1
  <2>3. QED
    BY <1>1, <2>1, <2>2 DEF Last
<1>3. s = Append(Front(s), Last(s))
  <2>1. Append(Front(s), Last(s)) \in Seq(P) /\ Len(Append(Front(s), Last(s))) = Len(s)
    BY <1>1, <1>2
  <2>2. \A i \in 1..Len(s) : Append(Front(s), Last(s))[i] = s[i]
    <3> SUFFICES ASSUME NEW i \in 1..Len(s) PROVE Append(Front(s), Last(s))[i] = s[i]
      OBVIOUS
    <3>1. CASE i = Len(s)
      BY <1>1, <1>2, <3>1 DEF Last
    <3>2. CASE i # Len(s)
      BY <1>1, <1>2, <3>2
    <3>3. QED BY <3>1, <3>2
  <2>3. QED
    BY <2>1, <2>2
<1>4. Blocks(b, Append(Front(s), Last(s))) = Blocks(b, Front(s)) + Holds(b, Last(s))
  BY <1>2, CountAppend
<1>5. QED
  BY <1>2, <1>3, <1>4

(* The queue is popped from its head.                                      *)
LEMMA CountTail ==
  ASSUME NEW P, NEW s \in Seq(P), s # <<>>, NEW b
  PROVE  /\ Tail(s) \in Seq(P) /\ Head(s) \in P
         /\ Blocks(b, s) = Blocks(b, Tail(s)) + Holds(b, Head(s))
<1> DEFINE I == {i \in DOMAIN s : s[i] = b}
           J == {i \in DOMAIN Tail(s) : Tail(s)[i] = b}
           f == [i \in J |-> i + 1]
<1>1. /\ Tail(s) \in Seq(P) /\ Head(s) \in P /\ Head(s) = s[1]
      /\ Len(s) \in Nat /\ Len(s) >= 1
      /\ DOMAIN s = 1..Len(s) /\ DOMAIN Tail(s) = 1..(Len(s) - 1)
      /\ \A i \in 1..(Len(s) - 1) : Tail(s)[i] = s[i + 1]
  OBVIOUS
<1>2. /\ IsFiniteSet(I) /\ IsFiniteSet(J)
      /\ Cardinality(I) \in Nat /\ Cardinality(J) \in Nat
  <2>1. IsFiniteSet(I) /\ IsFiniteSet(J)
    BY <1>1, CountIsNatural
  <2> HIDE DEF I, J
  <2>2. QED
    BY <2>1, FS_CardinalityType
<1>3. Cardinality(I \ {1}) = Cardinality(J)
  <2>1. f \in [J -> I \ {1}]
    BY <1>1
  <2>2. \A i, j \in J : f[i] = f[j] => i = j
    BY <1>1
  <2>3. \A k \in I \ {1} : \E i \in J : f[i] = k
    <3> SUFFICES ASSUME NEW k \in I \ {1} PROVE \E i \in J : f[i] = k
      OBVIOUS
    <3>1. k - 1 \in J
      BY <1>1
    <3>2. f[k - 1] = k
      BY <1>1, <3>1
    <3>3. QED BY <3>1, <3>2
  <2> HIDE DEF f, I, J
  <2>4. f \in Bijection(J, I \ {1})
    BY <2>1, <2>2, <2>3, Zenon DEF Bijection, Injection, Surjection, IsInjective
  <2>5. QED
    BY <1>2, <2>4, FS_Bijection DEF ExistsBijection
<1>4. Cardinality(I \ {1}) = (IF 1 \in I THEN Cardinality(I) - 1 ELSE Cardinality(I))
  BY <1>2, FS_RemoveElement
<1>5. 1 \in I <=> Head(s) = b
  BY <1>1
<1>6. Cardinality(I) = Cardinality(J) + Holds(b, Head(s))
  <2> HIDE DEF I, J
  <2> QED BY <1>2, <1>3, <1>4, <1>5 DEF Holds
<1>7. QED
  BY <1>1, <1>6 DEF Blocks

(* create_static fills the stack with every block, once.                    *)
LEMMA CountFilled ==
  ASSUME NEW P, IsFiniteSet(P)
  PROVE  /\ SetToSeq(P) \in Seq(P)
         /\ \A b \in P : Blocks(b, SetToSeq(P)) = 1
<1> DEFINE n == Cardinality(P)
           s == SetToSeq(P)
<1>1. n \in Nat /\ ExistsBijection(1..n, P)
  BY FS_CardinalityType
<1>2. PICK g \in Bijection(1..n, P) : TRUE
  BY <1>1 DEF ExistsBijection
<1>3. g \in [1..n -> P] /\ IsInjective(g)
  BY <1>2 DEF Bijection, Injection
<1>4. s \in [1..n -> P] /\ IsInjective(s)
  BY <1>3 DEF SetToSeq
<1> HIDE DEF s
<1>5. s \in Injection(1..n, P)
  BY <1>4 DEF Injection
<1>6. IsFiniteSet(1..n) /\ Cardinality(1..n) = n
  BY <1>1, FS_Interval
<1>7. s \in Surjection(1..n, P)
  BY <1>5, <1>6, FS_Injection
<1>8. ASSUME NEW b \in P PROVE Blocks(b, s) = 1
  <2>1. PICK k \in 1..n : s[k] = b
    BY <1>7 DEF Surjection
  <2>2. DOMAIN s = 1..n
    BY <1>4
  <2>3. \A i \in 1..n : s[i] = b => i = k
    BY <1>4, <2>1, <2>2 DEF IsInjective
  <2>4. {i \in DOMAIN s : s[i] = b} = {k}
    BY <2>1, <2>2, <2>3
  <2>5. QED
    BY <2>4, FS_Singleton DEF Blocks
<1>9. s \in Seq(P)
  BY <1>1, <1>4
<1>10. QED
  BY <1>8, <1>9 DEF s

(* While a block is out, the stack has room for it: the test of            *)
(* rx_free_blk and tx_free_blk never drops one.                            *)
LEMMA RoomForBlock ==
  ASSUME NEW P, IsFiniteSet(P), NEW s \in Seq(P), NEW b \in P, Blocks(b, s) = 0,
         \A x \in P : Blocks(x, s) \in 0..1
  PROVE  Len(s) < Cardinality(P)
<1>1. Len(s) \in Nat /\ DOMAIN s = 1..Len(s) /\ s \in [1..Len(s) -> P]
  OBVIOUS
<1>2. ASSUME NEW i \in 1..Len(s), NEW j \in 1..Len(s), s[i] = s[j], i # j
      PROVE  FALSE
  <2> DEFINE I == {k \in DOMAIN s : s[k] = s[i]}
  <2>1. s[i] \in P
    BY <1>1
  <2>2. IsFiniteSet(I) /\ Cardinality(I) \in Nat /\ Cardinality(I) <= 1
    <3>1. Blocks(s[i], s) \in 0..1
      BY <2>1
    <3>2. IsFiniteSet(I) /\ Blocks(s[i], s) = Cardinality(I)
      BY CountIsNatural DEF Blocks
    <3> HIDE DEF I
    <3>3. QED BY <3>1, <3>2
  <2>3. i \in I /\ j \in I
    BY <1>1, <1>2
  <2> HIDE DEF I
  <2>4. CASE Cardinality(I) = 0
    BY <2>2, <2>3, <2>4, FS_EmptySet, Zenon
  <2>5. CASE Cardinality(I) = 1
    <3>1. \E x : I = {x}
      BY <2>2, <2>5, FS_Singleton, Zenon
    <3>2. QED
      BY <1>2, <2>3, <3>1
  <2>6. Cardinality(I) = 0 \/ Cardinality(I) = 1
    BY <2>2
  <2>7. QED
    BY <2>4, <2>5, <2>6
<1>3. \A i \in 1..Len(s) : s[i] # b
  <2> SUFFICES ASSUME NEW i \in 1..Len(s), s[i] = b PROVE FALSE
    OBVIOUS
  <2> DEFINE I == {k \in DOMAIN s : s[k] = b}
  <2>1. IsFiniteSet(I) /\ Cardinality(I) = 0
    BY CountIsNatural DEF Blocks
  <2>2. I = {}
    BY <2>1, FS_EmptySet
  <2>3. QED
    BY <1>1, <2>2
<1>4. s \in Injection(1..Len(s), P \ {b})
  BY <1>1, <1>2, <1>3 DEF Injection, IsInjective
<1>5. /\ IsFiniteSet(P \ {b}) /\ Cardinality(P \ {b}) = Cardinality(P) - 1
      /\ Cardinality(P) \in Nat
  BY FS_RemoveElement, FS_CardinalityType
<1>6. Cardinality(1..Len(s)) <= Cardinality(P \ {b})
  BY <1>4, <1>5, FS_Injection
<1>7. Cardinality(1..Len(s)) = Len(s)
  BY <1>1, FS_Interval
<1>8. QED
  BY <1>1, <1>5, <1>6, <1>7

-----------------------------------------------------------------------------
(* A pool whose blocks are in a stack s, a queue q, or in one of two hands.  *)
(* Each operation moves one block, and every block stays in one place.       *)
OneEach(P, s, q, x, y) ==
  \A b \in P : Blocks(b, s) + Blocks(b, q) + Holds(b, x) + Holds(b, y) = 1

LEMMA HandsAreEven ==
  ASSUME NEW P, NEW s \in Seq(P), NEW q \in Seq(P), NEW x, NEW y
  PROVE  OneEach(P, s, q, x, y) <=> OneEach(P, s, q, y, x)
<1>1. ASSUME NEW b \in P
      PROVE  Blocks(b, s) + Blocks(b, q) + Holds(b, x) + Holds(b, y)
               = Blocks(b, s) + Blocks(b, q) + Holds(b, y) + Holds(b, x)
  <2>1. Blocks(b, s) \in Nat /\ Blocks(b, q) \in Nat
    BY CountIsNatural
  <2>2. Holds(b, x) \in 0..1 /\ Holds(b, y) \in 0..1
    BY DEF Holds
  <2>3. QED
    BY <2>1, <2>2
<1>2. QED
  BY <1>1, Zenon DEF OneEach

LEMMA HandsDiffer ==
  ASSUME NEW P, NEW s \in Seq(P), NEW q \in Seq(P), NEW x \in P, NEW y,
         OneEach(P, s, q, x, y)
  PROVE  x # y
<1>1. Blocks(x, s) \in Nat /\ Blocks(x, q) \in Nat
  BY CountIsNatural
<1>2. Blocks(x, s) + Blocks(x, q) + Holds(x, x) + Holds(x, y) = 1
  BY DEF OneEach
<1>3. QED
  BY <1>1, <1>2 DEF Holds

LEMMA AllocKeeps ==
  ASSUME NEW P, NEW s \in Seq(P), NEW q \in Seq(P), NEW x, NEW none, none \notin P,
         s # <<>>, OneEach(P, s, q, x, none)
  PROVE  OneEach(P, Front(s), q, x, Last(s))
<1> SUFFICES ASSUME NEW b \in P
             PROVE  Blocks(b, Front(s)) + Blocks(b, q) + Holds(b, x) + Holds(b, Last(s)) = 1
  BY DEF OneEach
<1>1. Front(s) \in Seq(P) /\ Blocks(b, s) = Blocks(b, Front(s)) + Holds(b, Last(s))
  BY CountFront
<1>2. Blocks(b, Front(s)) \in Nat /\ Blocks(b, q) \in Nat
  BY <1>1, CountIsNatural
<1>3. Blocks(b, s) + Blocks(b, q) + Holds(b, x) + Holds(b, none) = 1
  BY DEF OneEach
<1>4. /\ Holds(b, none) = 0
      /\ Holds(b, x) \in 0..1 /\ Holds(b, Last(s)) \in 0..1
  BY DEF Holds
<1>5. QED
  BY <1>1, <1>2, <1>3, <1>4

LEMMA PopKeeps ==
  ASSUME NEW P, NEW s \in Seq(P), NEW q \in Seq(P), NEW x, NEW none, none \notin P,
         q # <<>>, OneEach(P, s, q, x, none)
  PROVE  OneEach(P, s, Tail(q), x, Head(q))
<1> SUFFICES ASSUME NEW b \in P
             PROVE  Blocks(b, s) + Blocks(b, Tail(q)) + Holds(b, x) + Holds(b, Head(q)) = 1
  BY DEF OneEach
<1>1. Tail(q) \in Seq(P) /\ Blocks(b, q) = Blocks(b, Tail(q)) + Holds(b, Head(q))
  BY CountTail
<1>2. Blocks(b, s) \in Nat /\ Blocks(b, Tail(q)) \in Nat
  BY <1>1, CountIsNatural
<1>3. Blocks(b, s) + Blocks(b, q) + Holds(b, x) + Holds(b, none) = 1
  BY DEF OneEach
<1>4. /\ Holds(b, none) = 0
      /\ Holds(b, x) \in 0..1 /\ Holds(b, Head(q)) \in 0..1
  BY DEF Holds
<1>5. QED
  BY <1>1, <1>2, <1>3, <1>4

LEMMA PushKeeps ==
  ASSUME NEW P, NEW s \in Seq(P), NEW q \in Seq(P), NEW x, NEW y \in P, NEW none, none \notin P,
         OneEach(P, s, q, x, y)
  PROVE  OneEach(P, s, Append(q, y), x, none)
<1> SUFFICES ASSUME NEW b \in P
             PROVE  Blocks(b, s) + Blocks(b, Append(q, y)) + Holds(b, x) + Holds(b, none) = 1
  BY DEF OneEach
<1>1. Blocks(b, Append(q, y)) = Blocks(b, q) + Holds(b, y)
  BY CountAppend
<1>2. Blocks(b, s) \in Nat /\ Blocks(b, q) \in Nat
  BY CountIsNatural
<1>3. Blocks(b, s) + Blocks(b, q) + Holds(b, x) + Holds(b, y) = 1
  BY DEF OneEach
<1>4. Holds(b, none) = 0 /\ Holds(b, x) \in 0..1 /\ Holds(b, y) \in 0..1
  BY DEF Holds
<1>5. QED
  BY <1>1, <1>2, <1>3, <1>4

(* The block that is given back finds room, and is on the stack then.         *)
LEMMA FreeKeeps ==
  ASSUME NEW P, IsFiniteSet(P), NEW s \in Seq(P), NEW q \in Seq(P), NEW x, NEW y \in P,
         NEW none, none \notin P, OneEach(P, s, q, x, y)
  PROVE  /\ Len(s) < Cardinality(P)
         /\ OneEach(P, Append(s, y), q, x, none)
<1>1. ASSUME NEW b \in P
      PROVE  /\ Blocks(b, s) \in Nat /\ Blocks(b, q) \in Nat
             /\ Holds(b, x) \in 0..1 /\ Holds(b, y) \in 0..1 /\ Holds(b, none) = 0
             /\ Blocks(b, s) + Blocks(b, q) + Holds(b, x) + Holds(b, y) = 1
  <2>1. Blocks(b, s) \in Nat /\ Blocks(b, q) \in Nat
    BY CountIsNatural
  <2>2. Holds(b, x) \in 0..1 /\ Holds(b, y) \in 0..1 /\ Holds(b, none) = 0
    BY DEF Holds
  <2>3. QED
    BY <2>1, <2>2 DEF OneEach
<1>2. Holds(y, y) = 1
  BY DEF Holds
<1>3. Blocks(y, s) = 0
  BY <1>1, <1>2
<1>4. ASSUME NEW b \in P PROVE Blocks(b, s) \in 0..1
  <2>1. /\ Blocks(b, s) \in Nat /\ Blocks(b, q) \in Nat
        /\ Holds(b, x) \in Nat /\ Holds(b, y) \in Nat
        /\ Blocks(b, s) + Blocks(b, q) + Holds(b, x) + Holds(b, y) = 1
    <3>1. Holds(b, x) \in 0..1 /\ Holds(b, y) \in 0..1
      BY <1>1, Zenon
    <3>2. QED BY <1>1, <3>1
  <2>2. QED BY <2>1
<1>5. Len(s) < Cardinality(P)
  BY <1>3, <1>4, RoomForBlock
<1>6. ASSUME NEW b \in P
      PROVE  Blocks(b, Append(s, y)) + Blocks(b, q) + Holds(b, x) + Holds(b, none) = 1
  <2>1. Blocks(b, Append(s, y)) = Blocks(b, s) + Holds(b, y)
    BY CountAppend
  <2>2. /\ Blocks(b, s) \in Nat /\ Blocks(b, q) \in Nat
        /\ Holds(b, x) \in 0..1 /\ Holds(b, y) \in 0..1 /\ Holds(b, none) = 0
        /\ Blocks(b, s) + Blocks(b, q) + Holds(b, x) + Holds(b, y) = 1
    BY <1>1, Zenon
  <2>3. QED
    BY <2>1, <2>2
<1>7. QED
  BY <1>5, <1>6 DEF OneEach

-----------------------------------------------------------------------------
(* The invariant.  Where an actor is says whether it holds a block, and a    *)
(* round begins only with bytes that are left to take.                       *)
Types ==
  /\ TypeOK
  /\ rest \in Seq(Nat \X Nat) /\ offer \in Seq(Nat)
  /\ offered \in Nat /\ frames \in Nat

Positions ==
  /\ app = "push" <=> appBlk # None
  /\ drv = "push" <=> drvBlk # None
  /\ thread \in {"send", "free"} <=> thrBlk # None
  /\ drv = "alloc" => offer # <<>>

BlockInv == Types /\ Positions /\ BlocksHeldOnce /\ BlocksFit

LEMMA HeldOnce ==
  BlocksHeldOnce <=> /\ OneEach(RxPool, rxFree, rxReady, rxCur, drvBlk)
                     /\ OneEach(TxPool, txFree, txQueue, appBlk, thrBlk)
BY DEF BlocksHeldOnce, OneEach

(* Where no block moves, those of a pool stay where they are.                 *)
LEMMA RxRests ==
  ASSUME BlockInv, UNCHANGED <<rxFree, rxReady, rxCur, drvBlk>>
  PROVE  OneEach(RxPool, rxFree, rxReady, rxCur, drvBlk)'
BY HeldOnce DEF BlockInv, OneEach, Blocks, Holds

LEMMA TxRests ==
  ASSUME BlockInv, UNCHANGED <<txFree, txQueue, appBlk, thrBlk>>
  PROVE  OneEach(TxPool, txFree, txQueue, appBlk, thrBlk)'
BY HeldOnce DEF BlockInv, OneEach, Blocks, Holds

LEMMA HeldOnceNext ==
  ASSUME OneEach(RxPool, rxFree, rxReady, rxCur, drvBlk)',
         OneEach(TxPool, txFree, txQueue, appBlk, thrBlk)'
  PROVE  BlocksHeldOnce'
BY DEF BlocksHeldOnce, OneEach

(* A block is filled with at least one byte and no more than it has room for. *)
LEMMA Filled ==
  ASSUME NEW S, NEW s \in Seq(S), s # <<>>, NEW n \in 1..MaxChunk, MaxChunk \in Nat \ {0}
  PROVE  /\ SubSeq(s, 1, Least(n, Len(s))) \in Seq(S)
         /\ Len(SubSeq(s, 1, Least(n, Len(s)))) \in 1..MaxChunk
<1>1. Len(s) \in Nat /\ Len(s) >= 1
  OBVIOUS
<1>2. Least(n, Len(s)) \in 1..MaxChunk /\ Least(n, Len(s)) <= Len(s)
  BY <1>1 DEF Least
<1>3. \A m \in 1..MaxChunk :
        m <= Len(s) => SubSeq(s, 1, m) \in Seq(S) /\ Len(SubSeq(s, 1, m)) = m
  BY <1>1
<1>4. QED
  BY <1>2, <1>3

LEMMA Cut ==
  ASSUME NEW S, NEW s \in Seq(S), NEW n \in Nat
  PROVE  SubSeq(s, n + 1, Len(s)) \in Seq(S)
OBVIOUS

LEMMA InitBlocks == ASSUME Init PROVE BlockInv
<1> USE PoolAssumption, LengthAssumption DEF Init
<1>1. Types
  <2>1. SetToSeq(RxPool) \in Seq(RxPool) /\ SetToSeq(TxPool) \in Seq(TxPool)
    BY CountFilled
  <2>2. copied \in 0..ReadLen
    OBVIOUS
  <2>3. rxData \in [RxPool -> Seq(Nat)] /\ txData \in [TxPool -> Seq(Nat \X Nat)]
    OBVIOUS
  <2>4. rest \in Seq(Nat \X Nat) /\ offer \in Seq(Nat)
    OBVIOUS
  <2>5. flag \in BOOLEAN
    OBVIOUS
  <2>6. QED
    BY <2>1, <2>2, <2>3, <2>4, <2>5 DEF Types, TypeOK
<1>2. Positions
  BY DEF Positions
<1>3. BlocksHeldOnce
  <2>1. ASSUME NEW b \in RxPool
        PROVE  Blocks(b, rxFree) + Blocks(b, rxReady) + Holds(b, rxCur) + Holds(b, drvBlk) = 1
    <3>1. Blocks(b, rxFree) = 1 /\ Blocks(b, rxReady) = 0
      BY CountFilled, CountEmpty
    <3>2. Holds(b, rxCur) = 0 /\ Holds(b, drvBlk) = 0
      BY DEF Holds
    <3>3. QED BY <3>1, <3>2
  <2>2. ASSUME NEW b \in TxPool
        PROVE  Blocks(b, txFree) + Blocks(b, txQueue) + Holds(b, appBlk) + Holds(b, thrBlk) = 1
    <3>1. Blocks(b, txFree) = 1 /\ Blocks(b, txQueue) = 0
      BY CountFilled, CountEmpty
    <3>2. Holds(b, appBlk) = 0 /\ Holds(b, thrBlk) = 0
      BY DEF Holds
    <3>3. QED BY <3>1, <3>2
  <2>3. QED
    BY <2>1, <2>2 DEF BlocksHeldOnce
<1>4. BlocksFit
  BY DEF BlocksFit
<1>5. QED
  BY <1>1, <1>2, <1>3, <1>4 DEF BlockInv

-----------------------------------------------------------------------------
(* cs_recv.                                                                  *)
LEMMA RecvKeeps == ASSUME BlockInv, Recv PROVE BlockInv'
<1> USE PoolAssumption, LengthAssumption DEF rxVars, txVars, appVars, drvVars, thrVars
<1>1. UNCHANGED <<rxChunk, txChunk, txVars, drvVars, thrVars, flag>> /\ (RecvPop \/ RecvTake \/ RecvReturn)
  BY DEF Recv
<1>2. /\ Types /\ Positions /\ BlocksHeldOnce /\ BlocksFit
      /\ OneEach(RxPool, rxFree, rxReady, rxCur, drvBlk)
  BY HeldOnce DEF BlockInv
<1>3. CASE RecvPop
  <2>1. PICK b \in RxPool : rx_ready_pop(b) /\ rxCur' = b
    BY <1>3 DEF RecvPop
  <2>2. /\ rxCur = None /\ rxReady # <<>> /\ rxReady' = Tail(rxReady) /\ rxCur' = Head(rxReady)
        /\ UNCHANGED <<rxFree, rxData, app, appBlk, rest, sent, copied, frames>>
    BY <1>3, <2>1 DEF RecvPop, rx_ready_pop
  <2>3. Types'
    <3>1. rxReady' \in Seq(RxPool)
      BY <1>2, <2>2 DEF Types, TypeOK
    <3>2. QED BY <1>1, <1>2, <2>1, <2>2, <3>1 DEF Types, TypeOK
  <2>4. Positions' /\ BlocksFit'
    BY <1>1, <1>2, <2>2 DEF Positions, BlocksFit
  <2>5. OneEach(RxPool, rxFree, rxReady, rxCur, drvBlk)'
    <3>1. rxFree \in Seq(RxPool) /\ rxReady \in Seq(RxPool) /\ Tail(rxReady) \in Seq(RxPool)
      BY <1>2, <2>2 DEF Types, TypeOK
    <3>2. OneEach(RxPool, rxFree, rxReady, drvBlk, None)
      BY <1>2, <2>2, <3>1, HandsAreEven
    <3>3. OneEach(RxPool, rxFree, Tail(rxReady), drvBlk, Head(rxReady))
      BY <2>2, <3>1, <3>2, PopKeeps
    <3>4. OneEach(RxPool, rxFree, Tail(rxReady), Head(rxReady), drvBlk)
      BY <3>1, <3>3, HandsAreEven
    <3>5. QED
      BY <1>1, <2>2, <3>4 DEF OneEach, Blocks, Holds
  <2>6. QED
    BY <1>1, <2>3, <2>4, <2>5, TxRests, HeldOnceNext, <2>2 DEF BlockInv
<1>4. CASE RecvTake
  <2> DEFINE take == Least(Len(rxData[rxCur]), ReadLen - copied)
             left == SubSeq(rxData[rxCur], take + 1, Len(rxData[rxCur]))
  <2>1. /\ rxCur # None /\ copied < ReadLen
        /\ rxData' = [rxData EXCEPT ![rxCur] = left]
        /\ copied' = copied + take
        /\ IF left = <<>> THEN rx_free_blk(rxCur) /\ rxCur' = None
                          ELSE UNCHANGED <<rxFree, rxCur>>
        /\ UNCHANGED <<rxReady, app, appBlk, rest, sent, frames>>
    BY <1>4 DEF RecvTake
  <2>2. /\ rxCur \in RxPool /\ rxData[rxCur] \in Seq(Nat) /\ take \in Nat
        /\ copied + take \in 0..ReadLen
    <3>1. rxCur \in RxPool /\ rxData[rxCur] \in Seq(Nat) /\ copied \in 0..ReadLen
      BY <1>2, <2>1 DEF Types, TypeOK
    <3>2. Len(rxData[rxCur]) \in Nat
      BY <3>1
    <3>3. QED BY <2>1, <3>1, <3>2 DEF Least
  <2>3. left \in Seq(Nat)
    BY <2>2, Cut
  <2> HIDE DEF take, left
  <2>4. /\ OneEach(RxPool, rxFree, rxReady, rxCur, drvBlk)'
        /\ rxFree' \in Seq(RxPool) /\ rxCur' \in RxPool \cup {None}
    <3>1. rxFree \in Seq(RxPool) /\ rxReady \in Seq(RxPool) /\ None \notin RxPool
      BY <1>2 DEF Types, TypeOK
    <3>2. CASE left = <<>>
      <4>1. OneEach(RxPool, rxFree, rxReady, drvBlk, rxCur)
        BY <1>2, <3>1, HandsAreEven
      <4>2. /\ Len(rxFree) < Cardinality(RxPool)
            /\ OneEach(RxPool, Append(rxFree, rxCur), rxReady, drvBlk, None)
        BY <2>2, <3>1, <4>1, FreeKeeps
      <4>3. rxFree' = Append(rxFree, rxCur) /\ rxCur' = None
        BY <2>1, <3>2, <4>2 DEF rx_free_blk
      <4>4. Append(rxFree, rxCur) \in Seq(RxPool)
        BY <2>2, <3>1
      <4>5. OneEach(RxPool, Append(rxFree, rxCur), rxReady, None, drvBlk)
        BY <3>1, <4>2, <4>4, HandsAreEven
      <4>6. QED
        BY <1>1, <2>1, <4>3, <4>4, <4>5 DEF OneEach, Blocks, Holds
    <3>3. CASE left # <<>>
      BY <1>1, <2>1, <2>2, <3>1, <3>3, RxRests
    <3>4. QED BY <3>2, <3>3
  <2>5. Types'
    <3>1. rxData' \in [RxPool -> Seq(Nat)]
      BY <1>2, <2>1, <2>2, <2>3 DEF Types, TypeOK
    <3>2. QED BY <1>1, <1>2, <2>1, <2>2, <2>4, <3>1 DEF Types, TypeOK
  <2>6. Positions'
    BY <1>1, <1>2, <2>1 DEF Positions
  <2>7. BlocksFit'
    <3>1. CASE drv = "push"
      <4>1. drvBlk \in RxPool /\ rxCur # drvBlk
        <5>1. drvBlk \in RxPool
          BY <1>2, <3>1 DEF Positions, Types, TypeOK
        <5>2. QED
          BY <1>2, <2>2, <5>1, HandsDiffer DEF Types, TypeOK
      <4>2. rxData'[drvBlk] = rxData[drvBlk]
        BY <1>2, <2>1, <4>1 DEF Types, TypeOK
      <4>3. QED
        BY <1>1, <1>2, <2>1, <3>1, <4>2 DEF BlocksFit
    <3>2. CASE drv # "push"
      BY <1>1, <1>2, <2>1, <3>2 DEF BlocksFit
    <3>3. QED BY <3>1, <3>2
  <2>8. QED
    BY <1>1, <2>1, <2>4, <2>5, <2>6, <2>7, TxRests, HeldOnceNext DEF BlockInv
<1>5. CASE RecvReturn
  <2>1. UNCHANGED <<rxVars, appBlk, rest, sent, rxCur, frames>> /\ app = "recv" /\ app' = "loop" /\ copied' = 0
    BY <1>5 DEF RecvReturn
  <2>2. Types' /\ Positions' /\ BlocksFit'
    BY <1>1, <1>2, <2>1 DEF Types, TypeOK, Positions, BlocksFit
  <2>3. QED
    BY <1>1, <2>1, <2>2, RxRests, TxRests, HeldOnceNext DEF BlockInv
<1>6. QED
  BY <1>1, <1>3, <1>4, <1>5

-----------------------------------------------------------------------------
(* app_process_tx_buffer and cs_send.                                        *)
LEMMA SendKeeps == ASSUME BlockInv, Send PROVE BlockInv'
<1> USE PoolAssumption, LengthAssumption DEF rxVars, txVars, appVars, drvVars, thrVars
<1>1. /\ UNCHANGED <<rxChunk, txChunk, rxVars, rxCur, copied, drvVars, thrVars>>
      /\ OneEach(RxPool, rxFree, rxReady, rxCur, drvBlk)'
  <2>1. UNCHANGED <<rxChunk, txChunk, rxVars, rxCur, copied, drvVars, thrVars>>
    BY DEF Send
  <2>2. QED
    BY <2>1, RxRests
<1>2. /\ Types /\ Positions /\ BlocksHeldOnce /\ BlocksFit
      /\ OneEach(TxPool, txFree, txQueue, appBlk, thrBlk)
      /\ txFree \in Seq(TxPool) /\ txQueue \in Seq(TxPool) /\ None \notin TxPool
  BY HeldOnce DEF BlockInv, Types, TypeOK
<1>3. CASE SendBegin
  <2>1. PICK n \in FrameLens : rest' = [i \in 1..n |-> <<frames + 1, i>>]
    BY <1>3 DEF SendBegin
  <2>2. /\ app = "loop" /\ app' = "alloc" /\ frames' = frames + 1
        /\ UNCHANGED <<txVars, appBlk, flag>>
    BY <1>3 DEF SendBegin
  <2>3. rest' \in Seq(Nat \X Nat) /\ frames' \in Nat
    <3>1. n \in Nat /\ frames \in Nat
      BY <1>2 DEF Types
    <3>2. \A i \in 1..n : <<frames + 1, i>> \in Nat \X Nat
      BY <3>1
    <3>3. [i \in 1..n |-> <<frames + 1, i>>] \in Seq(Nat \X Nat)
      BY <3>1, <3>2
    <3>4. QED
      BY <2>1, <2>2, <3>1, <3>3
  <2>4. Types' /\ Positions' /\ BlocksFit'
    BY <1>1, <1>2, <2>2, <2>3 DEF Types, TypeOK, Positions, BlocksFit
  <2>5. QED
    BY <1>1, <2>2, <2>4, TxRests, HeldOnceNext DEF BlockInv
<1>4. CASE NextPass
  <2>1. app = "loop" /\ app' = "recv" /\ UNCHANGED <<txVars, appBlk, rest, frames, flag>>
    BY <1>4 DEF NextPass
  <2>2. Types' /\ Positions' /\ BlocksFit'
    BY <1>1, <1>2, <2>1 DEF Types, TypeOK, Positions, BlocksFit
  <2>3. QED
    BY <1>1, <2>1, <2>2, TxRests, HeldOnceNext DEF BlockInv
<1>5. CASE SendAlloc
  <2>1. PICK b \in TxPool :
          /\ tx_alloc_blk(b) /\ appBlk' = b
          /\ txData' = [txData EXCEPT ![b] = SubSeq(rest, 1, Least(txChunk, Len(rest)))]
    BY <1>5 DEF SendAlloc
  <2>2. /\ app = "alloc" /\ app' = "push" /\ rest # <<>>
        /\ txFree # <<>> /\ txFree' = Front(txFree) /\ appBlk' = Last(txFree)
        /\ UNCHANGED <<txQueue, rest, frames, flag>>
    BY <1>5, <2>1 DEF SendAlloc, tx_alloc_blk
  <2>3. /\ SubSeq(rest, 1, Least(txChunk, Len(rest))) \in Seq(Nat \X Nat)
        /\ Len(SubSeq(rest, 1, Least(txChunk, Len(rest)))) \in 1..MaxChunk
    BY <1>2, <2>2, Filled DEF Types, BlocksFit
  <2>4. txData' \in [TxPool -> Seq(Nat \X Nat)] /\ Len(txData'[appBlk']) \in 1..MaxChunk
    BY <1>2, <2>1, <2>3 DEF Types, TypeOK
  <2>5. txFree' \in Seq(TxPool)
    BY <1>2, <2>2, CountFront
  <2>6. Types'
    BY <1>1, <1>2, <2>1, <2>2, <2>4, <2>5 DEF Types, TypeOK
  <2>7. Positions' /\ BlocksFit'
    BY <1>1, <1>2, <2>1, <2>2, <2>4 DEF Positions, BlocksFit
  <2>8. OneEach(TxPool, txFree, txQueue, appBlk, thrBlk)'
    <3>1. OneEach(TxPool, txFree, txQueue, thrBlk, None)
      BY <1>2, <2>2, HandsAreEven DEF Positions
    <3>2. OneEach(TxPool, Front(txFree), txQueue, thrBlk, Last(txFree))
      BY <1>2, <2>2, <3>1, AllocKeeps
    <3>3. Front(txFree) \in Seq(TxPool)
      BY <2>2, <2>5
    <3>4. OneEach(TxPool, Front(txFree), txQueue, Last(txFree), thrBlk)
      BY <1>2, <3>2, <3>3, HandsAreEven
    <3>5. QED
      BY <1>1, <2>2, <3>4 DEF OneEach, Blocks, Holds
  <2>9. QED
    BY <1>1, <2>6, <2>7, <2>8, HeldOnceNext DEF BlockInv
<1>6. CASE SendPush
  <2>1. /\ app = "push" /\ app' = "alloc" /\ appBlk' = None
        /\ txQueue' = Append(txQueue, appBlk)
        /\ rest' = SubSeq(rest, Len(txData[appBlk]) + 1, Len(rest))
        /\ UNCHANGED <<txFree, txData, frames, flag>>
    BY <1>6 DEF SendPush, tx_send_push
  <2>2. appBlk \in TxPool /\ txQueue' \in Seq(TxPool)
    BY <1>2, <2>1 DEF Positions, Types, TypeOK
  <2>3. rest' \in Seq(Nat \X Nat)
    <3>1. Len(txData[appBlk]) \in Nat
      BY <1>2, <2>2 DEF Types, TypeOK
    <3>2. QED
      BY <1>2, <2>1, <3>1, Cut DEF Types
  <2>4. Types' /\ Positions' /\ BlocksFit'
    BY <1>1, <1>2, <2>1, <2>2, <2>3 DEF Types, TypeOK, Positions, BlocksFit
  <2>5. OneEach(TxPool, txFree, txQueue, appBlk, thrBlk)'
    <3>1. OneEach(TxPool, txFree, txQueue, thrBlk, appBlk)
      BY <1>2, HandsAreEven
    <3>2. OneEach(TxPool, txFree, Append(txQueue, appBlk), thrBlk, None)
      BY <1>2, <2>2, <3>1, PushKeeps
    <3>3. OneEach(TxPool, txFree, Append(txQueue, appBlk), None, thrBlk)
      BY <1>2, <2>1, <2>2, <3>2, HandsAreEven
    <3>4. QED
      BY <1>1, <2>1, <3>3 DEF OneEach, Blocks, Holds
  <2>6. QED
    BY <1>1, <2>4, <2>5, HeldOnceNext DEF BlockInv
<1>7. CASE SendGiveUp
  <2>1. /\ app = "push" /\ app' = "notify" /\ appBlk' = None /\ tx_free_blk(appBlk)
        /\ UNCHANGED <<txQueue, txData, rest, frames, flag>>
    BY <1>7 DEF SendGiveUp
  <2>2. appBlk \in TxPool
    BY <1>2, <2>1 DEF Positions, Types, TypeOK
  <2>3. /\ txFree' = Append(txFree, appBlk)
        /\ OneEach(TxPool, Append(txFree, appBlk), txQueue, thrBlk, None)
    <3>1. OneEach(TxPool, txFree, txQueue, thrBlk, appBlk)
      BY <1>2, HandsAreEven
    <3>2. /\ Len(txFree) < Cardinality(TxPool)
          /\ OneEach(TxPool, Append(txFree, appBlk), txQueue, thrBlk, None)
      BY <1>2, <2>2, <3>1, FreeKeeps
    <3>3. QED
      BY <2>1, <3>2 DEF tx_free_blk
  <2>4. txFree' \in Seq(TxPool)
    BY <1>2, <2>2, <2>3
  <2>5. Types' /\ Positions' /\ BlocksFit'
    BY <1>1, <1>2, <2>1, <2>4 DEF Types, TypeOK, Positions, BlocksFit
  <2>6. OneEach(TxPool, txFree, txQueue, appBlk, thrBlk)'
    <3>1. OneEach(TxPool, Append(txFree, appBlk), txQueue, None, thrBlk)
      BY <1>2, <2>3, <2>4, HandsAreEven
    <3>2. QED
      BY <1>1, <2>1, <2>3, <3>1 DEF OneEach, Blocks, Holds
  <2>7. QED
    BY <1>1, <2>5, <2>6, HeldOnceNext DEF BlockInv
<1>8. CASE SendOutOfBlocks
  <2>1. app = "alloc" /\ app' = "notify" /\ UNCHANGED <<txVars, appBlk, rest, frames, flag>>
    BY <1>8 DEF SendOutOfBlocks
  <2>2. Types' /\ Positions' /\ BlocksFit'
    BY <1>1, <1>2, <2>1 DEF Types, TypeOK, Positions, BlocksFit
  <2>3. QED
    BY <1>1, <2>1, <2>2, TxRests, HeldOnceNext DEF BlockInv
<1>9. CASE SendNotify
  <2>1. /\ app = "notify" /\ app' \in {"loop", "recv"} /\ rest' = <<>>
        /\ UNCHANGED <<txVars, appBlk, frames>>
    BY <1>9 DEF SendNotify
  <2>2. flag' \in BOOLEAN
    BY <1>9, Zenon DEF SendNotify
  <2>3. Types' /\ Positions' /\ BlocksFit'
    BY <1>1, <1>2, <2>1, <2>2 DEF Types, TypeOK, Positions, BlocksFit
  <2>4. QED
    BY <1>1, <2>1, <2>3, TxRests, HeldOnceNext DEF BlockInv
<1>10. QED
  BY <1>3, <1>4, <1>5, <1>6, <1>7, <1>8, <1>9 DEF Send

-----------------------------------------------------------------------------
(* ChunkStreamTxThread.                                                      *)
LEMMA ThreadKeeps == ASSUME BlockInv, Thread PROVE BlockInv'
<1> USE PoolAssumption, LengthAssumption DEF rxVars, txVars, appVars, drvVars, thrVars
<1>1. /\ UNCHANGED <<rxChunk, txChunk, rxVars, appVars, drvVars>>
      /\ OneEach(RxPool, rxFree, rxReady, rxCur, drvBlk)'
  <2>1. UNCHANGED <<rxChunk, txChunk, rxVars, appVars, drvVars>>
    BY DEF Thread
  <2>2. QED
    BY <2>1, RxRests
<1>2. /\ Types /\ Positions /\ BlocksHeldOnce /\ BlocksFit
      /\ OneEach(TxPool, txFree, txQueue, appBlk, thrBlk)
      /\ txFree \in Seq(TxPool) /\ txQueue \in Seq(TxPool) /\ None \notin TxPool
  BY HeldOnce DEF BlockInv, Types, TypeOK
<1>3. CASE TxPop
  <2>1. thread = "pop" /\ thrBlk = None /\ UNCHANGED <<txFree, txData, flag>>
    BY <1>2, <1>3 DEF TxPop, Positions
  <2>2. ASSUME NEW b \in TxPool, tx_send_pop(b), thrBlk' = b, thread' = "send"
        PROVE  BlockInv'
    <3>1. txQueue # <<>> /\ txQueue' = Tail(txQueue) /\ thrBlk' = Head(txQueue)
      BY <2>2 DEF tx_send_pop
    <3>2. txQueue' \in Seq(TxPool)
      BY <1>2, <3>1
    <3>3. Types' /\ Positions' /\ BlocksFit'
      BY <1>1, <1>2, <2>1, <2>2, <3>2 DEF Types, TypeOK, Positions, BlocksFit
    <3>4. OneEach(TxPool, txFree, Tail(txQueue), appBlk, Head(txQueue))
      BY <1>2, <2>1, <3>1, PopKeeps
    <3>5. OneEach(TxPool, txFree, txQueue, appBlk, thrBlk)'
      BY <1>1, <2>1, <3>1, <3>4 DEF OneEach, Blocks, Holds
    <3>6. QED
      BY <1>1, <3>3, <3>5, HeldOnceNext DEF BlockInv
  <2>3. ASSUME thread' = "wait", UNCHANGED <<txQueue, thrBlk>>
        PROVE  BlockInv'
    <3>1. Types' /\ Positions' /\ BlocksFit'
      BY <1>1, <1>2, <2>1, <2>3 DEF Types, TypeOK, Positions, BlocksFit
    <3>2. QED
      BY <1>1, <2>1, <2>3, <3>1, TxRests, HeldOnceNext DEF BlockInv
  <2>4. QED
    BY <1>3, <2>2, <2>3 DEF TxPop
<1>4. CASE TxSendBlock
  <2>1. thread = "send" /\ thread' = "free" /\ UNCHANGED <<txVars, thrBlk, flag>>
    BY <1>4 DEF TxSendBlock
  <2>2. Types' /\ Positions' /\ BlocksFit'
    BY <1>1, <1>2, <2>1 DEF Types, TypeOK, Positions, BlocksFit
  <2>3. QED
    BY <1>1, <2>1, <2>2, TxRests, HeldOnceNext DEF BlockInv
<1>5. CASE TxFree
  <2>1. /\ thread = "free" /\ thread' = "pop" /\ thrBlk' = None /\ tx_free_blk(thrBlk)
        /\ UNCHANGED <<txQueue, txData, flag>>
    BY <1>5 DEF TxFree
  <2>2. thrBlk \in TxPool
    BY <1>2, <2>1 DEF Positions, Types, TypeOK
  <2>3. /\ txFree' = Append(txFree, thrBlk)
        /\ OneEach(TxPool, Append(txFree, thrBlk), txQueue, appBlk, None)
    <3>1. /\ Len(txFree) < Cardinality(TxPool)
          /\ OneEach(TxPool, Append(txFree, thrBlk), txQueue, appBlk, None)
      BY <1>2, <2>2, FreeKeeps
    <3>2. QED
      BY <2>1, <3>1 DEF tx_free_blk
  <2>4. txFree' \in Seq(TxPool)
    BY <1>2, <2>2, <2>3
  <2>5. Types' /\ Positions' /\ BlocksFit'
    BY <1>1, <1>2, <2>1, <2>4 DEF Types, TypeOK, Positions, BlocksFit
  <2>6. OneEach(TxPool, txFree, txQueue, appBlk, thrBlk)'
    BY <1>1, <2>1, <2>3 DEF OneEach, Blocks, Holds
  <2>7. QED
    BY <1>1, <2>5, <2>6, HeldOnceNext DEF BlockInv
<1>6. CASE TxWake
  <2>1. /\ thread = "wait" /\ thread' = "pop" /\ flag' = FALSE
        /\ UNCHANGED <<txVars, thrBlk>>
    BY <1>6 DEF TxWake
  <2>2. Types' /\ Positions' /\ BlocksFit'
    BY <1>1, <1>2, <2>1 DEF Types, TypeOK, Positions, BlocksFit
  <2>3. QED
    BY <1>1, <2>1, <2>2, TxRests, HeldOnceNext DEF BlockInv
<1>7. QED
  BY <1>3, <1>4, <1>5, <1>6 DEF Thread

-----------------------------------------------------------------------------
(* transport_chunk_stream_on_rx_chunk.                                       *)
LEMMA DriverKeeps == ASSUME BlockInv, Driver PROVE BlockInv'
<1> USE PoolAssumption, LengthAssumption DEF rxVars, txVars, appVars, drvVars, thrVars
<1>1. /\ UNCHANGED <<rxChunk, txChunk, txVars, appVars, thrVars, flag>>
      /\ OneEach(TxPool, txFree, txQueue, appBlk, thrBlk)'
  <2>1. UNCHANGED <<rxChunk, txChunk, txVars, appVars, thrVars, flag>>
    BY DEF Driver
  <2>2. QED
    BY <2>1, TxRests
<1>2. /\ Types /\ Positions /\ BlocksHeldOnce /\ BlocksFit
      /\ OneEach(RxPool, rxFree, rxReady, rxCur, drvBlk)
      /\ rxFree \in Seq(RxPool) /\ rxReady \in Seq(RxPool) /\ None \notin RxPool
  BY HeldOnce DEF BlockInv, Types, TypeOK
<1>3. CASE RxBegin
  <2>1. PICK n \in Deliveries : /\ offer' = [i \in 1..n |-> offered + i]
                                /\ offered' = offered + n
    BY <1>3 DEF RxBegin
  <2>2. drv = "idle" /\ drv' = "alloc" /\ UNCHANGED <<rxVars, drvBlk>>
    BY <1>3 DEF RxBegin
  <2>3. offer' \in Seq(Nat) /\ offer' # <<>> /\ offered' \in Nat
    <3>1. n \in Nat /\ n >= 1 /\ offered \in Nat
      BY <1>2 DEF Types
    <3>2. \A i \in 1..n : offered + i \in Nat
      BY <3>1
    <3>3. /\ [i \in 1..n |-> offered + i] \in Seq(Nat)
          /\ Len([i \in 1..n |-> offered + i]) = n
      BY <3>1, <3>2
    <3>4. QED
      BY <2>1, <3>1, <3>3
  <2>4. Types' /\ Positions' /\ BlocksFit'
    BY <1>1, <1>2, <2>2, <2>3 DEF Types, TypeOK, Positions, BlocksFit
  <2>5. QED
    BY <1>1, <2>2, <2>4, RxRests, HeldOnceNext DEF BlockInv
<1>4. CASE RxAlloc
  <2>1. PICK b \in RxPool :
          /\ rx_alloc_blk(b) /\ drvBlk' = b
          /\ rxData' = [rxData EXCEPT ![b] = SubSeq(offer, 1, Least(rxChunk, Len(offer)))]
    BY <1>4 DEF RxAlloc
  <2>2. /\ drv = "alloc" /\ drv' = "push"
        /\ rxFree # <<>> /\ rxFree' = Front(rxFree) /\ drvBlk' = Last(rxFree)
        /\ UNCHANGED <<rxReady, offer, offered>>
    BY <1>4, <2>1 DEF RxAlloc, rx_alloc_blk
  <2>3. /\ SubSeq(offer, 1, Least(rxChunk, Len(offer))) \in Seq(Nat)
        /\ Len(SubSeq(offer, 1, Least(rxChunk, Len(offer)))) \in 1..MaxChunk
    BY <1>2, <2>2, Filled DEF Types, Positions, BlocksFit
  <2>4. rxData' \in [RxPool -> Seq(Nat)] /\ Len(rxData'[drvBlk']) \in 1..MaxChunk
    BY <1>2, <2>1, <2>3 DEF Types, TypeOK
  <2>5. rxFree' \in Seq(RxPool)
    BY <1>2, <2>2, CountFront
  <2>6. Types'
    BY <1>1, <1>2, <2>1, <2>2, <2>4, <2>5 DEF Types, TypeOK
  <2>7. Positions' /\ BlocksFit'
    BY <1>1, <1>2, <2>1, <2>2, <2>4 DEF Positions, BlocksFit
  <2>8. OneEach(RxPool, Front(rxFree), rxReady, rxCur, Last(rxFree))
    BY <1>2, <2>2, AllocKeeps DEF Positions
  <2>9. OneEach(RxPool, rxFree, rxReady, rxCur, drvBlk)'
    BY <1>1, <2>2, <2>8 DEF OneEach, Blocks, Holds
  <2>10. QED
    BY <1>1, <2>6, <2>7, <2>9, HeldOnceNext DEF BlockInv
<1>5. CASE RxPush
  <2> DEFINE left == SubSeq(offer, Len(rxData[drvBlk]) + 1, Len(offer))
  <2>1. /\ drv = "push" /\ drvBlk' = None
        /\ rxReady' = Append(rxReady, drvBlk)
        /\ offer' = left
        /\ drv' = IF left = <<>> \/ FromIsr THEN "return" ELSE "alloc"
        /\ UNCHANGED <<rxFree, rxData, offered>>
    BY <1>5 DEF RxPush, rx_ready_push
  <2>2. drvBlk \in RxPool /\ rxReady' \in Seq(RxPool)
    BY <1>2, <2>1 DEF Positions, Types, TypeOK
  <2>3. left \in Seq(Nat)
    <3>1. Len(rxData[drvBlk]) \in Nat
      BY <1>2, <2>2 DEF Types, TypeOK
    <3>2. QED
      BY <1>2, <3>1, Cut DEF Types
  <2> HIDE DEF left
  <2>4. drv' \in {"return", "alloc"} /\ (drv' = "alloc" => offer' # <<>>)
    BY <2>1
  <2>5. Types' /\ Positions' /\ BlocksFit'
    <3>1. drv' # "push" /\ offer' \in Seq(Nat)
      BY <2>1, <2>3, <2>4
    <3>2. UNCHANGED <<rxFree, rxData, offered>> /\ drvBlk' = None /\ drv = "push"
      BY <2>1
    <3>3. QED
      BY <1>1, <1>2, <2>2, <2>4, <3>1, <3>2 DEF Types, TypeOK, Positions, BlocksFit
  <2>6. OneEach(RxPool, rxFree, Append(rxReady, drvBlk), rxCur, None)
    BY <1>2, <2>2, PushKeeps
  <2>7. OneEach(RxPool, rxFree, rxReady, rxCur, drvBlk)'
    BY <1>1, <2>1, <2>6 DEF OneEach, Blocks, Holds
  <2>8. QED
    BY <1>1, <2>5, <2>7, HeldOnceNext DEF BlockInv
<1>6. CASE RxGiveUp
  <2>1. /\ drv' = "return" /\ drvBlk' = None /\ UNCHANGED <<rxReady, rxData, offer, offered>>
        /\ \/ drv = "alloc" /\ UNCHANGED rxFree
           \/ drv = "push" /\ rx_free_blk(drvBlk)
    BY <1>6 DEF RxGiveUp
  <2>2. CASE drv = "alloc" /\ UNCHANGED rxFree
    <3>1. drvBlk = None
      BY <1>2, <2>2 DEF Positions
    <3>2. Types' /\ Positions' /\ BlocksFit'
      BY <1>1, <1>2, <2>1, <2>2 DEF Types, TypeOK, Positions, BlocksFit
    <3>3. QED
      BY <1>1, <2>1, <2>2, <3>1, <3>2, RxRests, HeldOnceNext DEF BlockInv
  <2>3. CASE drv = "push" /\ rx_free_blk(drvBlk)
    <3>1. drvBlk \in RxPool
      BY <1>2, <2>3 DEF Positions, Types, TypeOK
    <3>2. /\ rxFree' = Append(rxFree, drvBlk)
          /\ OneEach(RxPool, Append(rxFree, drvBlk), rxReady, rxCur, None)
      <4>1. /\ Len(rxFree) < Cardinality(RxPool)
            /\ OneEach(RxPool, Append(rxFree, drvBlk), rxReady, rxCur, None)
        BY <1>2, <3>1, FreeKeeps
      <4>2. QED
        BY <2>3, <4>1 DEF rx_free_blk
    <3>3. rxFree' \in Seq(RxPool)
      BY <1>2, <3>1, <3>2
    <3>4. Types' /\ Positions' /\ BlocksFit'
      BY <1>1, <1>2, <2>1, <3>3 DEF Types, TypeOK, Positions, BlocksFit
    <3>5. OneEach(RxPool, rxFree, rxReady, rxCur, drvBlk)'
      BY <1>1, <2>1, <3>2 DEF OneEach, Blocks, Holds
    <3>6. QED
      BY <1>1, <3>4, <3>5, HeldOnceNext DEF BlockInv
  <2>4. QED
    BY <2>1, <2>2, <2>3
<1>7. CASE RxReturn
  <2>1. drv = "return" /\ drv' = "idle" /\ offer' = <<>> /\ UNCHANGED <<rxVars, drvBlk, offered>>
    BY <1>7 DEF RxReturn
  <2>2. Types' /\ Positions' /\ BlocksFit'
    BY <1>1, <1>2, <2>1 DEF Types, TypeOK, Positions, BlocksFit
  <2>3. QED
    BY <1>1, <2>1, <2>2, RxRests, HeldOnceNext DEF BlockInv
<1>8. QED
  BY <1>3, <1>4, <1>5, <1>6, <1>7 DEF Driver

-----------------------------------------------------------------------------
(* transport_chunk_stream_set_chunk_sizes, between any two steps.             *)
LEMMA SizesKeep == ASSUME BlockInv, SetChunkSizes PROVE BlockInv'
<1> USE PoolAssumption, LengthAssumption DEF rxVars, txVars, appVars, drvVars, thrVars
<1>1. UNCHANGED <<rxVars, txVars, appVars, drvVars, thrVars, flag>>
  BY DEF SetChunkSizes
<1>2. rxChunk' \in 1..MaxChunk /\ txChunk' \in 1..MaxChunk
  BY DEF SetChunkSizes, Normalised
<1>3. Types' /\ Positions' /\ BlocksFit'
  BY <1>1, <1>2 DEF BlockInv, Types, TypeOK, Positions, BlocksFit
<1>4. QED
  BY <1>1, <1>3, RxRests, TxRests, HeldOnceNext DEF BlockInv

LEMMA StepKeepsBlocks == ASSUME BlockInv, [Next]_vars PROVE BlockInv'
<1>1. CASE Recv
  BY <1>1, RecvKeeps
<1>2. CASE Send
  BY <1>2, SendKeeps
<1>3. CASE Thread
  BY <1>3, ThreadKeeps
<1>4. CASE Driver
  BY <1>4, DriverKeeps
<1>5. CASE SetChunkSizes
  BY <1>5, SizesKeep
<1>6. CASE UNCHANGED vars
  <2>1. Types' /\ Positions' /\ BlocksFit'
    BY <1>6 DEF BlockInv, Types, TypeOK, Positions, BlocksFit, vars,
                rxVars, txVars, appVars, drvVars, thrVars
  <2>2. UNCHANGED <<rxFree, rxReady, rxCur, drvBlk>> /\ UNCHANGED <<txFree, txQueue, appBlk, thrBlk>>
    BY <1>6 DEF vars, rxVars, txVars, appVars, drvVars, thrVars
  <2>3. QED
    BY <2>1, <2>2, RxRests, TxRests, HeldOnceNext DEF BlockInv
<1>7. QED
  BY <1>1, <1>2, <1>3, <1>4, <1>5, <1>6 DEF Next

-----------------------------------------------------------------------------
(* Every variable keeps its type, for pools, queues and blocks of any size.   *)
THEOREM TypeCorrect == Spec => []TypeOK
<1>1. Init => BlockInv
  BY InitBlocks
<1>2. BlockInv /\ [Next]_vars => BlockInv'
  BY StepKeepsBlocks
<1>3. BlockInv => TypeOK
  BY DEF BlockInv, Types
<1>4. QED
  BY <1>1, <1>2, <1>3, PTL DEF Spec

(* However the application, the sender thread and the driver interleave, and  *)
(* wherever one of them gives up, each block is in the stack, in the queue or *)
(* in one hand, once; and whatever set_chunk_sizes sets between any two steps *)
(* of the loops that fill blocks, a block has at least one byte and no more   *)
(* than its array (transport_chunk_stream.c:96-371).                         *)
THEOREM BlocksAreSafe == Spec => []BlocksSafe
<1>1. Init => BlockInv
  BY InitBlocks
<1>2. BlockInv /\ [Next]_vars => BlockInv'
  BY StepKeepsBlocks
<1>3. BlockInv => BlocksSafe
  BY DEF BlockInv, BlocksSafe
<1>4. QED
  BY <1>1, <1>2, <1>3, PTL DEF Spec

-----------------------------------------------------------------------------
(* What the blocks in a queue hold; DataOf is all of it in one sequence.   *)
Contents(data, q) == [i \in DOMAIN q |-> data[q[i]]]

LEMMA ContentsType ==
  ASSUME NEW P, NEW S, NEW data \in [P -> Seq(S)], NEW q \in Seq(P)
  PROVE  /\ Contents(data, q) \in Seq(Seq(S))
         /\ Len(Contents(data, q)) = Len(q)
         /\ \A i \in 1..Len(q) : Contents(data, q)[i] = data[q[i]]
<1>1. Len(q) \in Nat /\ DOMAIN q = 1..Len(q) /\ \A i \in 1..Len(q) : q[i] \in P
  OBVIOUS
<1>2. QED
  BY <1>1 DEF Contents

OneOn(d, e) == Len(d) = Len(e) + 1 /\ \A i \in 1..Len(e) : d[i + 1] = e[i]

LEMMA FlattenPop ==
  ASSUME NEW S, NEW d \in Seq(Seq(S)), NEW e \in Seq(Seq(S)), OneOn(d, e)
  PROVE  FlattenSeq(d) = d[1] \o FlattenSeq(e)
<1>1. /\ Len(e) \in Nat /\ Len(d) \in Nat /\ Len(d) = Len(e) + 1
      /\ d # <<>> /\ Head(d) = d[1]
  BY DEF OneOn
<1>2. PICK u \in Seq(Seq(S)) : u = Tail(d)
  <2>1. Tail(d) \in Seq(Seq(S)) BY <1>1
  <2>2. QED BY <2>1
<1>3. Len(u) = Len(e) /\ \A i \in 1..Len(e) : u[i] = d[i + 1]
  BY <1>1, <1>2
<1>4. ASSUME NEW i \in 1..Len(e) PROVE u[i] = e[i]
  BY <1>3 DEF OneOn
<1>5. u = e
  <2>1. Len(u) = Len(e)
    BY <1>3
  <2>2. DOMAIN u = 1..Len(e) /\ DOMAIN e = 1..Len(e)
    BY <2>1
  <2>3. u = [i \in DOMAIN u |-> u[i]] /\ e = [i \in DOMAIN e |-> e[i]]
    OBVIOUS
  <2>4. QED
    BY <1>4, <2>2, <2>3
<1>6. FlattenSeq(d) = Head(d) \o FlattenSeq(Tail(d))
  BY <1>1, FlattenHead
<1>7. QED
  BY <1>1, <1>2, <1>5, <1>6

LEMMA FlattenPush ==
  ASSUME NEW S, NEW d \in Seq(Seq(S)), NEW e \in Seq(Seq(S)), Len(e) = Len(d) + 1,
         \A i \in 1..Len(d) : e[i] = d[i]
  PROVE  FlattenSeq(e) = FlattenSeq(d) \o e[Len(d) + 1]
<1>1. Len(e) \in Nat /\ Len(d) \in Nat /\ e[Len(d) + 1] \in Seq(S)
  OBVIOUS
<1>2. PICK x \in Seq(S) : x = e[Len(d) + 1]
  BY <1>1
<1>3. /\ Append(d, x) \in Seq(Seq(S)) /\ Len(Append(d, x)) = Len(d) + 1
      /\ Append(d, x)[Len(d) + 1] = x
      /\ \A i \in 1..Len(d) : Append(d, x)[i] = d[i]
  OBVIOUS
<1>4. PICK u \in Seq(Seq(S)) : u = Append(d, x)
  BY <1>3
<1>5. ASSUME NEW i \in 1..(Len(d) + 1) PROVE u[i] = e[i]
  <2>1. CASE i = Len(d) + 1 BY <1>2, <1>3, <1>4, <2>1
  <2>2. CASE i # Len(d) + 1
    <3>1. i \in 1..Len(d) BY <1>1, <2>2
    <3>2. QED BY <1>3, <1>4, <3>1
  <2>3. QED BY <2>1, <2>2
<1>6. Len(u) = Len(e)
  BY <1>3, <1>4
<1>7. u = e
  BY <1>5, <1>6
<1>8. FlattenSeq(Append(d, x)) = FlattenSeq(d) \o x
  BY FlattenAppend
<1>9. QED
  BY <1>2, <1>4, <1>7, <1>8

LEMMA DataType ==
  ASSUME NEW P, NEW S, NEW data \in [P -> Seq(S)], NEW q \in Seq(P)
  PROVE  DataOf(data, q) \in Seq(S)
<1>1. FlattenSeq(Contents(data, q)) \in Seq(S)
  BY ContentsType, FlattenType
<1>2. QED
  BY <1>1 DEF Contents, DataOf

LEMMA DataEmpty == \A data : DataOf(data, <<>>) = <<>>
<1> SUFFICES ASSUME NEW data PROVE DataOf(data, <<>>) = <<>>
  OBVIOUS
<1>1. [i \in DOMAIN <<>> |-> data[<<>>[i]]] = <<>>
  OBVIOUS
<1>2. QED
  BY <1>1, FlattenEmpty DEF DataOf

(* What is popped is read before the rest of the queue.                    *)
LEMMA DataPop ==
  ASSUME NEW P, NEW S, NEW data \in [P -> Seq(S)], NEW q \in Seq(P), q # <<>>
  PROVE  DataOf(data, q) = data[Head(q)] \o DataOf(data, Tail(q))
<1>1. PICK t \in Seq(P) : t = Tail(q)
  <2>1. Tail(q) \in Seq(P) OBVIOUS
  <2>2. QED BY <2>1
<1>2. /\ Len(q) \in Nat /\ Len(t) \in Nat /\ Len(q) = Len(t) + 1 /\ Head(q) = q[1]
      /\ \A i \in 1..Len(t) : t[i] = q[i + 1]
  BY <1>1
<1>3. PICK d : d = Contents(data, q) OBVIOUS
<1>4. PICK e : e = Contents(data, t) OBVIOUS
<1>5. d \in Seq(Seq(S)) /\ Len(d) = Len(q) /\ \A i \in 1..Len(q) : d[i] = data[q[i]]
  <2>1. DOMAIN q = 1..Len(q) /\ Len(q) \in Nat /\ \A i \in 1..Len(q) : q[i] \in P
    OBVIOUS
  <2>2. d = [i \in 1..Len(q) |-> data[q[i]]]
    BY <1>3, <2>1 DEF Contents
  <2>3. \A i \in 1..Len(q) : data[q[i]] \in Seq(S)
    BY <2>1
  <2>4. QED
    BY <2>1, <2>2, <2>3
<1>6. e \in Seq(Seq(S)) /\ Len(e) = Len(t) /\ \A i \in 1..Len(t) : e[i] = data[t[i]]
  <2>1. DOMAIN t = 1..Len(t) /\ Len(t) \in Nat /\ \A i \in 1..Len(t) : t[i] \in P
    OBVIOUS
  <2>2. e = [i \in 1..Len(t) |-> data[t[i]]]
    BY <1>4, <2>1 DEF Contents
  <2>3. \A i \in 1..Len(t) : data[t[i]] \in Seq(S)
    BY <2>1
  <2>4. QED
    BY <2>1, <2>2, <2>3
<1>7. \A i \in 1..Len(t) : d[i + 1] = e[i]
  BY <1>2, <1>5, <1>6
<1>8. FlattenSeq(d) = d[1] \o FlattenSeq(e)
  <2>1. OneOn(d, e)
    BY <1>2, <1>5, <1>6, <1>7 DEF OneOn
  <2>2. d \in Seq(Seq(S)) BY <1>5
  <2>3. e \in Seq(Seq(S)) BY <1>6
  <2>4. QED
    BY <2>1, <2>2, <2>3, FlattenPop
<1>9. d[1] = data[Head(q)]
  BY <1>2, <1>5
<1>10. QED
  BY <1>1, <1>3, <1>4, <1>8, <1>9 DEF Contents, DataOf

(* What is pushed is read after it.                                        *)
LEMMA DataPush ==
  ASSUME NEW P, NEW S, NEW data \in [P -> Seq(S)], NEW q \in Seq(P), NEW b \in P
  PROVE  DataOf(data, Append(q, b)) = DataOf(data, q) \o data[b]
<1>1. PICK t \in Seq(P) : t = Append(q, b)
  <2>1. Append(q, b) \in Seq(P) OBVIOUS
  <2>2. QED BY <2>1
<1>2. /\ Len(q) \in Nat /\ Len(t) \in Nat /\ Len(t) = Len(q) + 1 /\ t[Len(q) + 1] = b
      /\ \A i \in 1..Len(q) : t[i] = q[i]
  BY <1>1
<1>3. PICK d : d = Contents(data, q) OBVIOUS
<1>4. PICK e : e = Contents(data, t) OBVIOUS
<1>5. d \in Seq(Seq(S)) /\ Len(d) = Len(q) /\ \A i \in 1..Len(q) : d[i] = data[q[i]]
  <2>1. DOMAIN q = 1..Len(q) /\ Len(q) \in Nat /\ \A i \in 1..Len(q) : q[i] \in P
    OBVIOUS
  <2>2. d = [i \in 1..Len(q) |-> data[q[i]]]
    BY <1>3, <2>1 DEF Contents
  <2>3. \A i \in 1..Len(q) : data[q[i]] \in Seq(S)
    BY <2>1
  <2>4. QED
    BY <2>1, <2>2, <2>3
<1>6. e \in Seq(Seq(S)) /\ Len(e) = Len(t) /\ \A i \in 1..Len(t) : e[i] = data[t[i]]
  <2>1. DOMAIN t = 1..Len(t) /\ Len(t) \in Nat /\ \A i \in 1..Len(t) : t[i] \in P
    OBVIOUS
  <2>2. e = [i \in 1..Len(t) |-> data[t[i]]]
    BY <1>4, <2>1 DEF Contents
  <2>3. \A i \in 1..Len(t) : data[t[i]] \in Seq(S)
    BY <2>1
  <2>4. QED
    BY <2>1, <2>2, <2>3
<1>7. \A i \in 1..Len(q) : e[i] = d[i]
  BY <1>2, <1>5, <1>6
<1>8. FlattenSeq(e) = FlattenSeq(d) \o e[Len(d) + 1]
  <2>1. Len(e) = Len(d) + 1 /\ \A i \in 1..Len(d) : e[i] = d[i]
    BY <1>2, <1>5, <1>6, <1>7
  <2>2. d \in Seq(Seq(S)) BY <1>5
  <2>3. e \in Seq(Seq(S)) BY <1>6
  <2>4. QED
    BY <2>1, <2>2, <2>3, FlattenPush
<1>9. e[Len(d) + 1] = data[b]
  BY <1>2, <1>5, <1>6
<1>10. QED
  BY <1>1, <1>3, <1>4, <1>8, <1>9 DEF Contents, DataOf

(* A block that is not in the queue can be filled without changing what is *)
(* read from it.                                                           *)
Refilled(P, data, new, b) == \A c \in P : c # b => new[c] = data[c]

LEMMA DataElsewhere ==
  ASSUME NEW P, NEW q \in Seq(P), NEW b \in P, NEW data, NEW new,
         Refilled(P, data, new, b), Blocks(b, q) = 0
  PROVE  DataOf(new, q) = DataOf(data, q)
<1>1. \A i \in 1..Len(q) : q[i] # b
  <2> SUFFICES ASSUME NEW i \in 1..Len(q), q[i] = b PROVE FALSE
    OBVIOUS
  <2> DEFINE I == {k \in DOMAIN q : q[k] = b}
  <2>1. IsFiniteSet(I) /\ Cardinality(I) = 0
    BY CountIsNatural DEF Blocks
  <2>2. I = {}
    BY <2>1, FS_EmptySet
  <2>3. DOMAIN q = 1..Len(q)
    OBVIOUS
  <2>4. QED
    BY <2>2, <2>3
<1>2. \A i \in DOMAIN q : new[q[i]] = data[q[i]]
  <2>1. DOMAIN q = 1..Len(q) /\ \A i \in 1..Len(q) : q[i] \in P
    OBVIOUS
  <2>2. QED
    BY <1>1, <2>1 DEF Refilled
<1>3. [i \in DOMAIN q |-> new[q[i]]] = [i \in DOMAIN q |-> data[q[i]]]
  BY <1>2
<1>4. QED
  BY <1>3 DEF DataOf

(* A block on the stack, or in a hand, is not in the queue.                *)
LEMMA FreshBlock ==
  ASSUME NEW P, NEW s \in Seq(P), NEW q \in Seq(P), NEW x, NEW y, OneEach(P, s, q, x, y),
         s # <<>>
  PROVE  Last(s) \in P /\ Blocks(Last(s), q) = 0 /\ Last(s) # x /\ Last(s) # y
<1>1. PICK b \in P : b = Last(s) /\ Blocks(b, s) = Blocks(b, Front(s)) + Holds(b, b)
  <2>1. Last(s) \in P
    BY CountFront
  <2>2. Blocks(Last(s), s) = Blocks(Last(s), Front(s)) + Holds(Last(s), Last(s))
    BY <2>1, CountFront
  <2>3. QED
    BY <2>1, <2>2
<1>2. Blocks(b, s) + Blocks(b, q) + Holds(b, x) + Holds(b, y) = 1
  BY DEF OneEach
<1>3. Blocks(b, Front(s)) \in Nat /\ Blocks(b, s) \in Nat /\ Blocks(b, q) \in Nat
  BY CountFront, CountIsNatural
<1>4. Holds(b, b) = 1 /\ Holds(b, x) \in 0..1 /\ Holds(b, y) \in 0..1
  BY DEF Holds
<1>5. Blocks(b, q) = 0 /\ Holds(b, x) = 0 /\ Holds(b, y) = 0
  BY <1>1, <1>2, <1>3, <1>4
<1>6. QED
  BY <1>1, <1>5 DEF Holds

LEMMA HeldBlock ==
  ASSUME NEW P, NEW s \in Seq(P), NEW q \in Seq(P), NEW x \in P, NEW y, OneEach(P, s, q, x, y)
  PROVE  Blocks(x, q) = 0
<1>1. Blocks(x, s) \in Nat /\ Blocks(x, q) \in Nat
  BY CountIsNatural
<1>2. Blocks(x, s) + Blocks(x, q) + Holds(x, x) + Holds(x, y) = 1
  BY DEF OneEach
<1>3. Holds(x, x) = 1 /\ Holds(x, y) \in 0..1
  BY DEF Holds
<1>4. QED
  BY <1>1, <1>2, <1>3

-----------------------------------------------------------------------------
(* ChunkStream: the bytes that have been read, those in a hand and those in the  *)
(* queue are what was pushed.  The blocks are held once: a block that is filled  *)
(* is neither in the queue nor in a reader's hand.                            *)
ReadSoFar == received \in Seq(Nat) /\ wire \in Seq(Nat \X Nat)
OrderInv  == BlockInv /\ ReadSoFar /\ BytesInOrder

LEMMA CutInTwo ==
  ASSUME NEW S, NEW d \in Seq(S), NEW n \in 0..Len(d)
  PROVE  /\ SubSeq(d, 1, n) \in Seq(S) /\ SubSeq(d, n + 1, Len(d)) \in Seq(S)
         /\ SubSeq(d, 1, n) \o SubSeq(d, n + 1, Len(d)) = d
<1>1. Len(d) \in Nat /\ n \in Nat /\ n <= Len(d)
  OBVIOUS
<1>2. SubSeq(d, 1, n) \in Seq(S) /\ SubSeq(d, n + 1, Len(d)) \in Seq(S)
  BY <1>1
<1>3. SubSeq(d, 1, n) \o SubSeq(d, n + 1, Len(d)) = SubSeq(d, 1, Len(d))
  <2>1. 1 \in 1..(Len(d) + 1) /\ n \in (1 - 1)..Len(d) /\ Len(d) \in n..Len(d)
    BY <1>1
  <2>2. QED
    BY <2>1, ConcatAdjacentSubSeq
<1>4. QED
  BY <1>2, <1>3, SubSeqFull

LEMMA RxOrderRests ==
  ASSUME ReceivedInOrder, UNCHANGED <<accepted, received, rxCur, rxData, rxReady>>
  PROVE  ReceivedInOrder'
BY DEF ReceivedInOrder

LEMMA TxOrderRests ==
  ASSUME SentInOrder, UNCHANGED <<queued, wire, thread, thrBlk, txData, txQueue>>
  PROVE  SentInOrder'
BY DEF SentInOrder

LEMMA OrderNext ==
  ASSUME ReceivedInOrder', SentInOrder', ReadSoFar', BlockInv' PROVE OrderInv'
BY DEF OrderInv, BytesInOrder

LEMMA RecvKeepsOrder == ASSUME OrderInv, Recv PROVE ReceivedInOrder' /\ ReadSoFar'
<1> USE DEF rxVars, txVars, appVars, drvVars, thrVars
<1>1. /\ UNCHANGED <<rxChunk, txChunk, txVars, drvVars, thrVars, flag>>
      /\ (RecvPop \/ RecvTake \/ RecvReturn)
  BY DEF Recv
<1>2. /\ OneEach(RxPool, rxFree, rxReady, rxCur, drvBlk)
      /\ rxFree \in Seq(RxPool) /\ rxReady \in Seq(RxPool) /\ None \notin RxPool
      /\ rxData \in [RxPool -> Seq(Nat)] /\ rxCur \in RxPool \cup {None} /\ copied \in 0..ReadLen
      /\ received \in Seq(Nat) /\ wire \in Seq(Nat \X Nat) /\ ReceivedInOrder
  BY HeldOnce, PoolAssumption DEF OrderInv, BlockInv, Types, TypeOK, ReadSoFar, BytesInOrder
<1>3. CASE RecvPop
  <2>1. PICK b \in RxPool : b = Head(rxReady) /\ rxCur' = b
    BY <1>3 DEF RecvPop, rx_ready_pop
  <2>2. /\ rxCur = None /\ rxReady # <<>> /\ rxReady' = Tail(rxReady)
        /\ UNCHANGED <<rxData, received>>
    BY <1>3 DEF RecvPop, rx_ready_pop
  <2>3. PICK t \in Seq(RxPool) : t = Tail(rxReady)
    <3>1. Tail(rxReady) \in Seq(RxPool)
      BY <1>2, <2>2
    <3>2. QED BY <3>1
  <2>4. DataOf(rxData, rxReady) = rxData[b] \o DataOf(rxData, t)
    BY <1>2, <2>1, <2>2, <2>3, DataPop
  <2>5. DataOf(rxData, t) \in Seq(Nat) /\ rxData[b] \in Seq(Nat)
    BY <1>2, DataType
  <2>6. accepted = (received \o <<>>) \o (rxData[b] \o DataOf(rxData, t))
    BY <1>2, <2>2, <2>4 DEF ReceivedInOrder
  <2>7. accepted = (received \o rxData[b]) \o DataOf(rxData, t)
    <3>1. PICK h \in Seq(Nat) : h = rxData[b]
      BY <2>5
    <3>2. PICK u \in Seq(Nat) : u = DataOf(rxData, t)
      BY <2>5
    <3>3. PICK r \in Seq(Nat) : r = received
      BY <1>2
    <3>4. Joins(r, h, u) /\ r \o <<>> = r
      BY AnyGrouping
    <3>5. QED
      BY <2>6, <3>1, <3>2, <3>3, <3>4 DEF Joins
  <2>8. accepted' = accepted /\ rxCur' # None
    BY <1>1, <1>2, <2>1
  <2>9. ReceivedInOrder'
    BY <2>1, <2>2, <2>3, <2>7, <2>8 DEF ReceivedInOrder
  <2>10. QED
    BY <1>1, <1>2, <2>2, <2>9 DEF ReadSoFar
<1>4. CASE RecvTake
  <2>1. PICK n \in Nat : n = Least(Len(rxData[rxCur]), ReadLen - copied) /\ n \in 0..Len(rxData[rxCur])
    <3>1. rxCur # None /\ copied < ReadLen
      BY <1>4 DEF RecvTake
    <3>2. Len(rxData[rxCur]) \in Nat /\ ReadLen - copied \in Nat
      BY <1>2, <3>1, LengthAssumption
    <3>3. QED
      BY <3>2 DEF Least
  <2>2. PICK b \in RxPool : b = rxCur
    BY <1>2, <1>4 DEF RecvTake
  <2>3. PICK d \in Seq(Nat) : d = rxData[b]
    BY <1>2
  <2>4. PICK left : left = SubSeq(d, n + 1, Len(d))
    OBVIOUS
  <2>5. /\ received' = received \o SubSeq(d, 1, n)
        /\ rxData' = [rxData EXCEPT ![b] = left]
        /\ IF left = <<>> THEN rxCur' = None ELSE rxCur' = b
        /\ rxReady' = rxReady
    BY <1>4, <2>1, <2>2, <2>3, <2>4 DEF RecvTake
  <2>6. PICK u \in Seq(Nat) : u = DataOf(rxData, rxReady)
    <3>1. DataOf(rxData, rxReady) \in Seq(Nat)
      BY <1>2, DataType
    <3>2. QED BY <3>1
  <2>7. DataOf(rxData', rxReady) = u
    <3>1. OneEach(RxPool, rxFree, rxReady, b, drvBlk)
      BY <1>2, <2>2
    <3>2. Blocks(b, rxReady) = 0
      BY <1>2, <3>1, HeldBlock
    <3>3. \A c \in RxPool : c # b => rxData'[c] = rxData[c]
      BY <1>2, <2>5
    <3>4. PICK new : new = rxData'
      OBVIOUS
    <3>5. Refilled(RxPool, rxData, new, b)
      BY <3>3, <3>4 DEF Refilled
    <3>6. rxReady \in Seq(RxPool)
      BY <1>2
    <3>7. DataOf(new, rxReady) = DataOf(rxData, rxReady)
      BY <3>2, <3>5, <3>6, DataElsewhere
    <3>8. QED
      BY <2>6, <3>4, <3>7
  <2>8. accepted = (received \o d) \o u
    BY <1>2, <2>2, <2>3, <2>6 DEF ReceivedInOrder
  <2>9. /\ received \o SubSeq(d, 1, n) \in Seq(Nat)
        /\ (received \o d) \o u = ((received \o SubSeq(d, 1, n)) \o left) \o u
    <3>1. n \in 0..Len(d)
      BY <2>1, <2>2, <2>3
    <3>2. /\ SubSeq(d, 1, n) \in Seq(Nat) /\ SubSeq(d, n + 1, Len(d)) \in Seq(Nat)
          /\ SubSeq(d, 1, n) \o SubSeq(d, n + 1, Len(d)) = d
      BY <3>1, CutInTwo
    <3>3. PICK x \in Seq(Nat), y \in Seq(Nat) : x = SubSeq(d, 1, n) /\ y = left /\ x \o y = d
      BY <2>4, <3>2
    <3>4. PICK r \in Seq(Nat) : r = received
      BY <1>2
    <3>5. Joins(r, x, y)
      BY AnyGrouping
    <3>6. r \o x \in Seq(Nat)
      OBVIOUS
    <3>7. QED
      BY <3>3, <3>4, <3>5, <3>6 DEF Joins
  <2>10. accepted' = (received' \o left) \o DataOf(rxData', rxReady')
    <3>1. accepted' = accepted
      BY <1>1
    <3>2. QED
      BY <2>5, <2>7, <2>8, <2>9, <3>1
  <2>11. (IF rxCur = None THEN <<>> ELSE rxData[rxCur])' = left
    <3>1. b # None
      BY <1>2
    <3>2. QED
      BY <1>2, <2>5, <3>1
  <2>12. QED
    BY <1>1, <1>2, <2>5, <2>9, <2>10, <2>11 DEF ReceivedInOrder, ReadSoFar
<1>5. CASE RecvReturn
  <2>1. UNCHANGED <<accepted, received, rxCur, rxData, rxReady, wire>>
    BY <1>1, <1>5 DEF RecvReturn
  <2>2. QED
    BY <1>2, <2>1, RxOrderRests DEF ReadSoFar
<1>6. QED
  BY <1>1, <1>3, <1>4, <1>5

LEMMA DriverKeepsOrder == ASSUME OrderInv, Driver PROVE ReceivedInOrder' /\ ReadSoFar'
<1> USE DEF rxVars, txVars, appVars, drvVars, thrVars
<1>1. /\ UNCHANGED <<rxChunk, txChunk, txVars, appVars, thrVars, flag>>
      /\ (RxBegin \/ RxAlloc \/ RxPush \/ RxGiveUp \/ RxReturn)
  BY DEF Driver
<1>2. /\ OneEach(RxPool, rxFree, rxReady, rxCur, drvBlk)
      /\ rxFree \in Seq(RxPool) /\ rxReady \in Seq(RxPool) /\ None \notin RxPool
      /\ rxData \in [RxPool -> Seq(Nat)] /\ rxCur \in RxPool \cup {None}
      /\ drvBlk \in RxPool \cup {None} /\ (drv = "push" => drvBlk # None)
      /\ received \in Seq(Nat) /\ wire \in Seq(Nat \X Nat) /\ ReceivedInOrder
  BY HeldOnce, PoolAssumption
     DEF OrderInv, BlockInv, Types, TypeOK, Positions, ReadSoFar, BytesInOrder
<1>3. ReadSoFar' /\ UNCHANGED <<received, rxCur>>
  BY <1>1, <1>2 DEF ReadSoFar
<1>4. CASE RxAlloc
  <2>1. PICK b \in RxPool : /\ b = Last(rxFree) /\ rxFree # <<>>
                            /\ \E x : rxData' = [rxData EXCEPT ![b] = x]
    BY <1>4 DEF RxAlloc, rx_alloc_blk
  <2>2. UNCHANGED <<rxReady, accepted>>
    BY <1>4 DEF RxAlloc
  <2>3. Blocks(b, rxReady) = 0 /\ b # rxCur
    BY <1>2, <2>1, FreshBlock
  <2>4. \A c \in RxPool : c # b => rxData'[c] = rxData[c]
    BY <1>2, <2>1
  <2>5. DataOf(rxData', rxReady) = DataOf(rxData, rxReady)
    <3>1. PICK new : new = rxData'
      OBVIOUS
    <3>2. Refilled(RxPool, rxData, new, b)
      BY <2>4, <3>1 DEF Refilled
    <3>3. rxReady \in Seq(RxPool)
      BY <1>2
    <3>4. DataOf(new, rxReady) = DataOf(rxData, rxReady)
      BY <2>3, <3>2, <3>3, DataElsewhere
    <3>5. QED
      BY <3>1, <3>4
  <2>6. (IF rxCur = None THEN <<>> ELSE rxData[rxCur])'
          = IF rxCur = None THEN <<>> ELSE rxData[rxCur]
    BY <1>2, <1>3, <2>3, <2>4
  <2>7. QED
    BY <1>2, <1>3, <2>2, <2>5, <2>6 DEF ReceivedInOrder
<1>5. CASE RxPush
  <2>1. /\ accepted' = accepted \o rxData[drvBlk]
        /\ rxReady' = Append(rxReady, drvBlk) /\ rxData' = rxData
    BY <1>5 DEF RxPush, rx_ready_push
  <2>2. PICK b \in RxPool : b = drvBlk
    BY <1>2, <1>5 DEF RxPush
  <2>3. DataOf(rxData, Append(rxReady, b)) = DataOf(rxData, rxReady) \o rxData[b]
    <3>1. PICK data \in [RxPool -> Seq(Nat)] : data = rxData
      BY <1>2
    <3>2. PICK s \in Seq(RxPool) : s = rxReady
      BY <1>2
    <3>3. DataOf(data, Append(s, b)) = DataOf(data, s) \o data[b]
      BY DataPush
    <3>4. QED
      BY <3>1, <3>2, <3>3
  <2>4. PICK u \in Seq(Nat) : u = DataOf(rxData, rxReady)
    <3>1. DataOf(rxData, rxReady) \in Seq(Nat)
      BY <1>2, DataType
    <3>2. QED BY <3>1
  <2>5. PICK h \in Seq(Nat) : h = rxData[b]
    BY <1>2
  <2>6. PICK r \in Seq(Nat) : r = received \o (IF rxCur = None THEN <<>> ELSE rxData[rxCur])
    <3>1. PICK x \in Seq(Nat) : x = (IF rxCur = None THEN <<>> ELSE rxData[rxCur])
      <4>1. <<>> \in Seq(Nat) OBVIOUS
      <4>2. CASE rxCur = None BY <4>1, <4>2
      <4>3. CASE rxCur # None BY <1>2, <4>3
      <4>4. QED BY <4>2, <4>3
    <3>2. PICK y \in Seq(Nat) : y = received
      BY <1>2
    <3>3. y \o x \in Seq(Nat)
      OBVIOUS
    <3>4. QED
      BY <3>1, <3>2, <3>3
  <2>7. Joins(r, u, h)
    BY AnyGrouping
  <2>8. accepted = r \o u
    BY <1>2, <2>4, <2>6 DEF ReceivedInOrder
  <2>9. accepted' = r \o DataOf(rxData', rxReady')
    <3>1. accepted' = accepted \o h /\ DataOf(rxData', rxReady') = u \o h
      BY <2>1, <2>2, <2>3, <2>4, <2>5
    <3>2. QED
      BY <2>7, <2>8, <3>1 DEF Joins
  <2>10. r = received' \o (IF rxCur = None THEN <<>> ELSE rxData[rxCur])'
    BY <1>3, <2>1, <2>6
  <2>11. QED
    BY <1>3, <2>9, <2>10 DEF ReceivedInOrder
<1>6. CASE RxBegin \/ RxGiveUp \/ RxReturn
  <2>1. UNCHANGED <<accepted, rxData, rxReady>>
    BY <1>6 DEF RxBegin, RxGiveUp, RxReturn
  <2>2. QED
    BY <1>2, <1>3, <2>1, RxOrderRests
<1>7. QED
  BY <1>1, <1>4, <1>5, <1>6

LEMMA SendKeepsOrder == ASSUME OrderInv, Send PROVE SentInOrder' /\ ReadSoFar'
<1> USE DEF rxVars, txVars, appVars, drvVars, thrVars
<1>1. /\ UNCHANGED <<rxChunk, txChunk, rxVars, rxCur, copied, received, drvVars, thrVars>>
      /\ \/ SendBegin \/ NextPass \/ SendAlloc \/ SendPush \/ SendGiveUp
         \/ SendOutOfBlocks \/ SendNotify
  BY DEF Send
<1>2. /\ OneEach(TxPool, txFree, txQueue, appBlk, thrBlk)
      /\ txFree \in Seq(TxPool) /\ txQueue \in Seq(TxPool) /\ None \notin TxPool
      /\ txData \in [TxPool -> Seq(Nat \X Nat)] /\ thrBlk \in TxPool \cup {None}
      /\ appBlk \in TxPool \cup {None} /\ (app = "push" => appBlk # None)
      /\ (thread = "send" => thrBlk # None)
      /\ received \in Seq(Nat) /\ wire \in Seq(Nat \X Nat) /\ SentInOrder
  BY HeldOnce, PoolAssumption
     DEF OrderInv, BlockInv, Types, TypeOK, Positions, ReadSoFar, BytesInOrder
<1>3. ReadSoFar' /\ UNCHANGED <<wire, thread, thrBlk>>
  BY <1>1, <1>2 DEF ReadSoFar
<1>4. CASE SendAlloc
  <2>1. PICK b \in TxPool : /\ b = Last(txFree) /\ txFree # <<>>
                            /\ \E x : txData' = [txData EXCEPT ![b] = x]
    BY <1>4 DEF SendAlloc, tx_alloc_blk
  <2>2. UNCHANGED <<txQueue, queued>>
    BY <1>4 DEF SendAlloc
  <2>3. Blocks(b, txQueue) = 0 /\ b # thrBlk
    BY <1>2, <2>1, FreshBlock
  <2>4. \A c \in TxPool : c # b => txData'[c] = txData[c]
    BY <1>2, <2>1
  <2>5. DataOf(txData', txQueue) = DataOf(txData, txQueue)
    <3>1. PICK new : new = txData'
      OBVIOUS
    <3>2. Refilled(TxPool, txData, new, b)
      BY <2>4, <3>1 DEF Refilled
    <3>3. txQueue \in Seq(TxPool)
      BY <1>2
    <3>4. DataOf(new, txQueue) = DataOf(txData, txQueue)
      BY <2>3, <3>2, <3>3, DataElsewhere
    <3>5. QED
      BY <3>1, <3>4
  <2>6. (IF thread = "send" THEN txData[thrBlk] ELSE <<>>)'
          = IF thread = "send" THEN txData[thrBlk] ELSE <<>>
    BY <1>2, <1>3, <2>3, <2>4
  <2>7. QED
    BY <1>2, <1>3, <2>2, <2>5, <2>6 DEF SentInOrder
<1>5. CASE SendPush
  <2>1. /\ queued' = queued \o txData[appBlk]
        /\ txQueue' = Append(txQueue, appBlk) /\ txData' = txData
    BY <1>5 DEF SendPush, tx_send_push
  <2>2. PICK b \in TxPool : b = appBlk
    BY <1>2, <1>5 DEF SendPush
  <2>3. DataOf(txData, Append(txQueue, b)) = DataOf(txData, txQueue) \o txData[b]
    <3>1. PICK data \in [TxPool -> Seq(Nat \X Nat)] : data = txData
      BY <1>2
    <3>2. PICK s \in Seq(TxPool) : s = txQueue
      BY <1>2
    <3>3. DataOf(data, Append(s, b)) = DataOf(data, s) \o data[b]
      BY DataPush
    <3>4. QED
      BY <3>1, <3>2, <3>3
  <2>4. PICK u \in Seq(Nat \X Nat) : u = DataOf(txData, txQueue)
    <3>1. DataOf(txData, txQueue) \in Seq(Nat \X Nat)
      BY <1>2, DataType
    <3>2. QED BY <3>1
  <2>5. PICK h \in Seq(Nat \X Nat) : h = txData[b]
    BY <1>2
  <2>6. PICK r \in Seq(Nat \X Nat) : r = wire \o (IF thread = "send" THEN txData[thrBlk] ELSE <<>>)
    <3>1. PICK x \in Seq(Nat \X Nat) : x = (IF thread = "send" THEN txData[thrBlk] ELSE <<>>)
      <4>1. <<>> \in Seq(Nat \X Nat) OBVIOUS
      <4>2. CASE thread = "send" BY <1>2, <4>2
      <4>3. CASE thread # "send" BY <4>1, <4>3
      <4>4. QED BY <4>2, <4>3
    <3>2. PICK y \in Seq(Nat \X Nat) : y = wire
      BY <1>2
    <3>3. y \o x \in Seq(Nat \X Nat)
      OBVIOUS
    <3>4. QED
      BY <3>1, <3>2, <3>3
  <2>7. Joins(r, u, h)
    BY AnyGrouping
  <2>8. queued = r \o u
    BY <1>2, <2>4, <2>6 DEF SentInOrder
  <2>9. queued' = r \o DataOf(txData', txQueue')
    <3>1. queued' = queued \o h /\ DataOf(txData', txQueue') = u \o h
      BY <2>1, <2>2, <2>3, <2>4, <2>5
    <3>2. QED
      BY <2>7, <2>8, <3>1 DEF Joins
  <2>10. r = wire' \o (IF thread = "send" THEN txData[thrBlk] ELSE <<>>)'
    BY <1>3, <2>1, <2>6
  <2>11. QED
    BY <1>3, <2>9, <2>10 DEF SentInOrder
<1>6. CASE SendBegin \/ NextPass \/ SendGiveUp \/ SendOutOfBlocks \/ SendNotify
  <2>1. UNCHANGED <<queued, txData, txQueue>>
    BY <1>6 DEF SendBegin, NextPass, SendGiveUp, SendOutOfBlocks, SendNotify
  <2>2. QED
    BY <1>2, <1>3, <2>1, TxOrderRests
<1>7. QED
  BY <1>1, <1>4, <1>5, <1>6

LEMMA ThreadKeepsOrder == ASSUME OrderInv, Thread PROVE SentInOrder' /\ ReadSoFar'
<1> USE DEF rxVars, txVars, appVars, drvVars, thrVars
<1>1. /\ UNCHANGED <<rxChunk, txChunk, rxVars, appVars, drvVars>>
      /\ (TxPop \/ TxSendBlock \/ TxFree \/ TxWake)
  BY DEF Thread
<1>2. /\ txQueue \in Seq(TxPool) /\ txData \in [TxPool -> Seq(Nat \X Nat)]
      /\ thrBlk \in TxPool \cup {None} /\ (thread = "send" => thrBlk # None)
      /\ received \in Seq(Nat) /\ wire \in Seq(Nat \X Nat) /\ SentInOrder
  BY DEF OrderInv, BlockInv, Types, TypeOK, Positions, ReadSoFar, BytesInOrder
<1>3. received' = received /\ queued' = queued
  BY <1>1
<1>4. ASSUME NEW b \in TxPool, thread = "pop", tx_send_pop(b), thrBlk' = b, thread' = "send",
             UNCHANGED <<txData, wire>>
      PROVE  SentInOrder' /\ ReadSoFar'
  <2>1. b = Head(txQueue) /\ txQueue # <<>> /\ txQueue' = Tail(txQueue)
    BY <1>4 DEF tx_send_pop
  <2>2. PICK t \in Seq(TxPool) : t = Tail(txQueue)
    <3>1. Tail(txQueue) \in Seq(TxPool)
      BY <1>2, <2>1
    <3>2. QED BY <3>1
  <2>3. DataOf(txData, txQueue) = txData[b] \o DataOf(txData, t)
    BY <1>2, <2>1, <2>2, DataPop
  <2>4. DataOf(txData, t) \in Seq(Nat \X Nat) /\ txData[b] \in Seq(Nat \X Nat)
    BY <1>2, DataType
  <2>5. queued = (wire \o <<>>) \o (txData[b] \o DataOf(txData, t))
    BY <1>2, <1>4, <2>3 DEF SentInOrder
  <2>6. queued = (wire \o txData[b]) \o DataOf(txData, t)
    <3>1. PICK h \in Seq(Nat \X Nat) : h = txData[b]
      BY <2>4
    <3>2. PICK u \in Seq(Nat \X Nat) : u = DataOf(txData, t)
      BY <2>4
    <3>3. PICK r \in Seq(Nat \X Nat) : r = wire
      BY <1>2
    <3>4. Joins(r, h, u) /\ r \o <<>> = r
      BY AnyGrouping
    <3>5. QED
      BY <2>5, <3>1, <3>2, <3>3, <3>4 DEF Joins
  <2>7. SentInOrder'
    BY <1>3, <1>4, <2>1, <2>2, <2>6 DEF SentInOrder
  <2>8. QED
    BY <1>2, <1>3, <1>4, <2>7 DEF ReadSoFar
<1>5. CASE TxPop
  <2>1. CASE txQueue = <<>> /\ thread' = "wait" /\ UNCHANGED <<txQueue, thrBlk>>
    <3>1. thread = "pop" /\ UNCHANGED <<txData, wire>>
      BY <1>5 DEF TxPop
    <3>2. QED
      BY <1>2, <1>3, <2>1, <3>1 DEF SentInOrder, ReadSoFar
  <2>2. QED
    BY <1>4, <1>5, <2>1 DEF TxPop
<1>6. CASE TxSendBlock
  <2>1. /\ thread = "send" /\ thread' = "free" /\ wire' = wire \o txData[thrBlk]
        /\ UNCHANGED <<txQueue, txData, thrBlk>>
    BY <1>6 DEF TxSendBlock
  <2>2. PICK w \in Seq(Nat \X Nat) : w = wire \o txData[thrBlk]
    <3>1. PICK x \in Seq(Nat \X Nat) : x = txData[thrBlk]
      BY <1>2, <2>1
    <3>2. PICK y \in Seq(Nat \X Nat) : y = wire
      BY <1>2
    <3>3. y \o x \in Seq(Nat \X Nat)
      OBVIOUS
    <3>4. QED
      BY <3>1, <3>2, <3>3
  <2>3. queued = w \o DataOf(txData, txQueue)
    BY <1>2, <2>1, <2>2 DEF SentInOrder
  <2>4. w \o <<>> = w
    OBVIOUS
  <2>5. SentInOrder'
    BY <1>3, <2>1, <2>2, <2>3, <2>4 DEF SentInOrder
  <2>6. QED
    BY <1>2, <1>3, <2>1, <2>2, <2>5 DEF ReadSoFar
<1>7. CASE TxFree \/ TxWake
  <2>1. thread # "send" /\ thread' # "send" /\ UNCHANGED <<txQueue, txData, wire>>
    BY <1>7 DEF TxFree, TxWake
  <2>2. QED
    BY <1>2, <1>3, <2>1 DEF SentInOrder, ReadSoFar
<1>8. QED
  BY <1>1, <1>5, <1>6, <1>7

LEMMA OrderStarts == ASSUME Init PROVE OrderInv
<1>1. BlockInv
  BY InitBlocks
<1>2. ReadSoFar
  BY DEF Init, ReadSoFar
<1>3. (<<>> \o <<>>) \o <<>> = <<>>
  OBVIOUS
<1>4. BytesInOrder
  BY <1>3, DataEmpty DEF Init, BytesInOrder, ReceivedInOrder, SentInOrder
<1>5. QED
  BY <1>1, <1>2, <1>4 DEF OrderInv

LEMMA StepKeepsOrder == ASSUME OrderInv, [Next]_vars PROVE OrderInv'
<1> USE DEF rxVars, txVars, appVars, drvVars, thrVars
<1>1. BlockInv' /\ ReceivedInOrder /\ SentInOrder /\ ReadSoFar
  BY StepKeepsBlocks DEF OrderInv, BytesInOrder
<1>2. CASE Recv
  <2>1. ReceivedInOrder' /\ ReadSoFar'
    BY <1>2, RecvKeepsOrder
  <2>2. UNCHANGED <<wire, thread, thrBlk, txData, txQueue>>
    BY <1>2 DEF Recv
  <2>3. queued' = queued
    BY <1>2 DEF Recv, RecvPop, RecvTake, RecvReturn
  <2>4. QED
    BY <1>1, <2>1, <2>2, <2>3, TxOrderRests, OrderNext
<1>3. CASE Send
  <2>1. SentInOrder' /\ ReadSoFar'
    BY <1>3, SendKeepsOrder
  <2>2. UNCHANGED <<accepted, received, rxCur, rxData, rxReady>>
    BY <1>3 DEF Send
  <2>3. QED
    BY <1>1, <2>1, <2>2, RxOrderRests, OrderNext
<1>4. CASE Thread
  <2>1. SentInOrder' /\ ReadSoFar'
    BY <1>4, ThreadKeepsOrder
  <2>2. UNCHANGED <<accepted, received, rxCur, rxData, rxReady>>
    BY <1>4 DEF Thread
  <2>3. QED
    BY <1>1, <2>1, <2>2, RxOrderRests, OrderNext
<1>5. CASE Driver
  <2>1. ReceivedInOrder' /\ ReadSoFar'
    BY <1>5, DriverKeepsOrder
  <2>2. UNCHANGED <<queued, wire, thread, thrBlk, txData, txQueue>>
    BY <1>5 DEF Driver
  <2>3. QED
    BY <1>1, <2>1, <2>2, TxOrderRests, OrderNext
<1>6. CASE SetChunkSizes \/ UNCHANGED vars
  <2>1. /\ UNCHANGED <<accepted, received, rxCur, rxData, rxReady>>
        /\ UNCHANGED <<queued, wire, thread, thrBlk, txData, txQueue>>
    BY <1>6 DEF SetChunkSizes, vars
  <2>2. ReadSoFar'
    BY <1>1, <2>1 DEF ReadSoFar
  <2>3. QED
    BY <1>1, <2>1, <2>2, RxOrderRests, TxOrderRests, OrderNext
<1>7. QED
  BY <1>2, <1>3, <1>4, <1>5, <1>6 DEF Next

(* What the application reads is what the driver pushed, and what the thread hands *)
(* to tx_send_block is what cs_send queued, each byte once and in order, for pools, *)
(* queues, blocks, deliveries and frames of any size (transport_chunk_stream.c:151-371). *)
THEOREM BytesStayInOrder == Spec => []BytesInOrder
<1>1. Init => OrderInv
  BY OrderStarts
<1>2. OrderInv /\ [Next]_vars => OrderInv'
  BY StepKeepsOrder
<1>3. OrderInv => BytesInOrder
  BY DEF OrderInv
<1>4. QED
  BY <1>1, <1>2, <1>3, PTL DEF Spec

-----------------------------------------------------------------------------
(* TcpLink: what has been sent and not lost, read or not.                    *)
Byte  == [frame : Nat, byte : Nat]
Known(b) == b.frame \in 1..Len(tcpQueued) /\ b.byte \in 1..tcpQueued[b.frame]
Ends(b)  == b.byte = tcpQueued[b.frame]
Stream   == tcpReceived \o socket

(* A stream of bytes in which one follows the other, and which byte may be next.  *)
WholeFrames(s) ==
  /\ s # <<>> => s[1].byte = 1
  /\ \A i \in 2..Len(s) : Follows(s[i - 1], s[i])
Fits(s, b) == IF s = <<>> THEN b.byte = 1 ELSE Follows(s[Len(s)], b)

(* The rest of a frame.                                                      *)
RestOf(s) ==
  /\ \A i \in 1..Len(s) : s[i] = [frame |-> s[1].frame, byte |-> s[1].byte + (i - 1)]
  /\ Ends(s[Len(s)])

TcpTypes ==
  /\ tcpQueued \in Seq(Nat \ {0}) /\ queue \in Seq(Nat)
  /\ sending \in Seq(Byte) /\ socket \in Seq(Byte) /\ tcpReceived \in Seq(Byte)
  /\ requests \in Nat

(* The frames in the ring are queued ones and wait in their order, behind the one    *)
(* that is being sent.                                                       *)
RingInv ==
  /\ \A i \in 1..Len(queue) : queue[i] \in 1..Len(tcpQueued)
  /\ \A i, j \in 1..Len(queue) : i < j => queue[i] < queue[j]
  /\ \A i \in 1..Len(sending) : Known(sending[i])
  /\ sending # <<>> => RestOf(sending) /\ \A i \in 1..Len(queue) : sending[1].frame < queue[i]

(* Nothing is sent before the one connection, and afterwards only a client is sent to. *)
PhaseInv ==
  /\ pc = "send" <=> sending # <<>>
  /\ link = "up" => client
  /\ pc \in {"init", "wait"} => socket = <<>> /\ tcpReceived = <<>>

(* While the connection stands, what comes next fits to what has been sent.        *)
NextFitsTo(s) ==
  IF sending # <<>> THEN Fits(s, sending[1])
  ELSE s # <<>> => Ends(s[Len(s)]) /\ \A i \in 1..Len(queue) : s[Len(s)].frame < queue[i]

StreamInv ==
  /\ \A i \in 1..Len(Stream) : Known(Stream[i])
  /\ WholeFrames(Stream)
  /\ link = "up" => NextFitsTo(Stream)

TcpInv == TcpTypes /\ RingInv /\ PhaseInv /\ StreamInv

LEMMA SubSeqEntries ==
  ASSUME NEW S, NEW s \in Seq(S), NEW n \in 1..Len(s)
  PROVE  /\ SubSeq(s, 1, n) \in Seq(S) /\ Len(SubSeq(s, 1, n)) = n
         /\ \A i \in 1..n : SubSeq(s, 1, n)[i] = s[i]
         /\ SubSeq(s, n + 1, Len(s)) \in Seq(S) /\ Len(SubSeq(s, n + 1, Len(s))) = Len(s) - n
         /\ \A i \in 1..(Len(s) - n) : SubSeq(s, n + 1, Len(s))[i] = s[n + i]
OBVIOUS

LEMMA WholePrefix ==
  ASSUME NEW s \in Seq(Byte), NEW t \in Seq(Byte), WholeFrames(s \o t)
  PROVE  WholeFrames(s)
<1>1. /\ s \o t \in Seq(Byte) /\ Len(s) \in Nat /\ Len(t) \in Nat /\ Len(s \o t) = Len(s) + Len(t)
      /\ \A i \in 1..Len(s) : (s \o t)[i] = s[i]
  BY ConcatEntries
<1>2. ASSUME s # <<>> PROVE s[1].byte = 1
  <2>1. 1 \in 1..Len(s) /\ s \o t # <<>> BY <1>1, <1>2
  <2>2. QED BY <1>1, <2>1 DEF WholeFrames
<1>3. ASSUME NEW i \in 2..Len(s) PROVE Follows(s[i - 1], s[i])
  <2>1. i \in 2..Len(s \o t) /\ i \in 1..Len(s) /\ i - 1 \in 1..Len(s) BY <1>1
  <2>2. QED BY <1>1, <2>1 DEF WholeFrames
<1>4. QED BY <1>2, <1>3 DEF WholeFrames

(* The first part of the rest of a frame, put behind a stream it fits to.            *)
LEMMA SendFits ==
  ASSUME NEW s \in Seq(Byte), WholeFrames(s),
         NEW r \in Seq(Byte), r # <<>>, RestOf(r), Fits(s, r[1]), NEW n \in 1..Len(r)
  PROVE  /\ WholeFrames(s \o SubSeq(r, 1, n))
         /\ s \o SubSeq(r, 1, n) # <<>>
         /\ (s \o SubSeq(r, 1, n))[Len(s \o SubSeq(r, 1, n))] = r[n]
         /\ n < Len(r) => Follows(r[n], r[n + 1])
<1> DEFINE t == SubSeq(r, 1, n)
           u == s \o t
<1>1. /\ t \in Seq(Byte) /\ Len(t) = n /\ n \in Nat /\ n >= 1 /\ Len(r) \in Nat
      /\ \A i \in 1..n : t[i] = r[i]
  BY SubSeqEntries
<1> HIDE DEF t
<1>2. /\ u \in Seq(Byte) /\ Len(s) \in Nat /\ Len(u) = Len(s) + n
      /\ \A i \in 1..Len(s) : u[i] = s[i]
      /\ \A i \in 1..n : u[Len(s) + i] = t[i]
  <2>1. /\ s \o t \in Seq(Byte) /\ Len(s) \in Nat /\ Len(t) \in Nat /\ Len(s \o t) = Len(s) + Len(t)
        /\ \A i \in 1..Len(s) : (s \o t)[i] = s[i]
        /\ \A i \in 1..Len(t) : (s \o t)[Len(s) + i] = t[i]
    <3>1. t \in Seq(Byte) BY <1>1
    <3>2. QED BY <3>1, ConcatEntries
  <2>2. QED BY <1>1, <2>1
<1> HIDE DEF u
<1>3. \A i \in 1..(Len(r) - 1) : Follows(r[i], r[i + 1])
  <2> SUFFICES ASSUME NEW i \in 1..(Len(r) - 1) PROVE Follows(r[i], r[i + 1])
    OBVIOUS
  <2>1. i \in 1..Len(r) /\ i + 1 \in 1..Len(r) BY <1>1
  <2>2. /\ r[i] = [frame |-> r[1].frame, byte |-> r[1].byte + (i - 1)]
        /\ r[i + 1] = [frame |-> r[1].frame, byte |-> r[1].byte + ((i + 1) - 1)]
    BY <2>1 DEF RestOf
  <2>3. 1 \in 1..Len(r) BY <1>1
  <2>4. r[1] \in Byte BY <2>3
  <2>5. r[1].byte \in Nat BY <2>4 DEF Byte
  <2>6. r[i + 1].frame = r[i].frame /\ r[i + 1].byte = r[i].byte + 1 BY <2>2, <2>5
  <2>7. QED BY <2>6 DEF Follows
<1>4. u # <<>> /\ u[Len(u)] = r[n]
  <2>1. n \in 1..n BY <1>1
  <2>2. QED BY <1>1, <1>2, <2>1
<1>5. u[1].byte = 1
  <2>1. CASE s = <<>>
    <3>1. Len(s) = 0 /\ 1 \in 1..n BY <1>1, <2>1
    <3>2. u[1] = r[1] BY <1>1, <1>2, <3>1
    <3>3. QED BY <2>1, <3>2 DEF Fits
  <2>2. CASE s # <<>>
    <3>1. 1 \in 1..Len(s) BY <1>2, <2>2
    <3>2. QED BY <1>2, <2>2, <3>1 DEF WholeFrames
  <2>3. QED BY <2>1, <2>2
<1>6. ASSUME NEW i \in 2..Len(u) PROVE Follows(u[i - 1], u[i])
  <2>0. i \in Nat /\ i >= 2 /\ i <= Len(u) /\ Len(u) \in Nat BY <1>1, <1>2
  <2>1. CASE i <= Len(s)
    <3>1. i \in 2..Len(s) /\ i \in 1..Len(s) /\ i - 1 \in 1..Len(s) BY <1>2, <2>1
    <3>2. QED BY <1>2, <3>1 DEF WholeFrames
  <2>2. CASE i = Len(s) + 1
    <3>1. Len(s) >= 1 /\ i - 1 = Len(s) /\ Len(s) \in 1..Len(s) /\ 1 \in 1..n BY <1>1, <1>2, <2>2
    <3>2. s # <<>> BY <3>1
    <3>3. u[i - 1] = s[Len(s)] /\ u[i] = r[1] BY <1>1, <1>2, <2>2, <3>1
    <3>4. QED BY <3>2, <3>3 DEF Fits
  <2>3. CASE i > Len(s) + 1
    <3>1. PICK l \in Nat : l = i - Len(s)
      <4>1. i - Len(s) \in Nat BY <1>2, <2>0, <2>3
      <4>2. QED BY <4>1
    <3>2. i = Len(s) + l /\ i - 1 = Len(s) + (l - 1) /\ l \in 1..n /\ l - 1 \in 1..n
      BY <1>1, <1>2, <2>0, <2>3, <3>1
    <3>3. u[i] = r[l] /\ u[i - 1] = r[l - 1] BY <1>1, <1>2, <3>2
    <3>4. l - 1 \in 1..(Len(r) - 1) /\ (l - 1) + 1 = l BY <1>1, <3>2
    <3>5. QED BY <1>3, <3>3, <3>4
  <2>4. QED BY <1>2, <2>0, <2>1, <2>2, <2>3
<1>7. WholeFrames(u) BY <1>5, <1>6 DEF WholeFrames
<1>8. n < Len(r) => Follows(r[n], r[n + 1]) BY <1>1, <1>3
<1>9. QED BY <1>4, <1>7, <1>8 DEF t, u

(* What is left of the rest of a frame.                                        *)
LEMMA RestLeft ==
  ASSUME NEW r \in Seq(Byte), r # <<>>, RestOf(r), NEW n \in 1..Len(r), n < Len(r)
  PROVE  /\ SubSeq(r, n + 1, Len(r)) \in Seq(Byte) /\ SubSeq(r, n + 1, Len(r)) # <<>>
         /\ RestOf(SubSeq(r, n + 1, Len(r)))
         /\ SubSeq(r, n + 1, Len(r))[1] = r[n + 1] /\ r[n + 1].frame = r[1].frame
<1> DEFINE t == SubSeq(r, n + 1, Len(r))
<1>1. /\ t \in Seq(Byte) /\ Len(t) = Len(r) - n /\ n \in Nat /\ Len(r) \in Nat
      /\ \A i \in 1..(Len(r) - n) : t[i] = r[n + i]
  BY SubSeqEntries
<1> HIDE DEF t
<1>2. r[1] \in Byte
  <2>1. 1 \in 1..Len(r) BY <1>1
  <2>2. QED BY <2>1
<1>3. r[1].byte \in Nat /\ r[1].frame \in Nat BY <1>2 DEF Byte
<1>4. n + 1 \in 1..Len(r) /\ 1 \in 1..(Len(r) - n) BY <1>1
<1>5. r[n + 1] = [frame |-> r[1].frame, byte |-> r[1].byte + n]
  <2>1. (n + 1) - 1 = n BY <1>1
  <2>2. QED BY <1>4, <2>1 DEF RestOf
<1>6. t[1] = r[n + 1] BY <1>1, <1>4
<1>7. t[1].frame = r[1].frame /\ t[1].byte = r[1].byte + n BY <1>5, <1>6
<1>8. ASSUME NEW i \in 1..Len(t) PROVE t[i] = [frame |-> t[1].frame, byte |-> t[1].byte + (i - 1)]
  <2>1. n + i \in 1..Len(r) /\ t[i] = r[n + i] BY <1>1
  <2>2. r[n + i] = [frame |-> r[1].frame, byte |-> r[1].byte + ((n + i) - 1)] BY <2>1 DEF RestOf
  <2>3. r[1].byte + ((n + i) - 1) = t[1].byte + (i - 1) BY <1>1, <1>3, <1>7
  <2>4. QED BY <1>7, <2>1, <2>2, <2>3
<1>9. Ends(t[Len(t)])
  <2>1. Len(t) \in 1..(Len(r) - n) /\ n + Len(t) = Len(r) BY <1>1
  <2>2. t[Len(t)] = r[Len(r)] BY <1>1, <2>1
  <2>3. QED BY <2>2 DEF RestOf
<1>10. t # <<>> BY <1>1
<1>11. QED BY <1>1, <1>5, <1>6, <1>7, <1>8, <1>9, <1>10 DEF RestOf, t

-----------------------------------------------------------------------------
(* What a step keeps that leaves the frames, the bytes of the frame being sent and    *)
(* what has been sent as they are, though some of it may have been read.             *)
LEMMA TcpRests ==
  ASSUME TcpTypes, RingInv, StreamInv, UNCHANGED <<tcpQueued, queue, sending>>,
         Stream' = Stream, socket' \in Seq(Byte), tcpReceived' \in Seq(Byte), requests' \in Nat,
         link' = "up" => NextFitsTo(Stream)
  PROVE  TcpTypes' /\ RingInv' /\ StreamInv'
<1>1. TcpTypes' BY DEF TcpTypes
<1>2. RingInv' BY DEF RingInv, Known, RestOf, Ends
<1>3. (\A i \in 1..Len(Stream) : Known(Stream[i]))' BY DEF StreamInv, Known
<1>4. WholeFrames(Stream)' BY DEF StreamInv, WholeFrames, Follows
<1>5. (link = "up" => NextFitsTo(Stream))' BY DEF NextFitsTo, Fits, Follows, Ends
<1>6. QED BY <1>1, <1>2, <1>3, <1>4, <1>5 DEF StreamInv

LEMMA StreamShrinks ==
  ASSUME TcpTypes, StreamInv, UNCHANGED <<tcpQueued, tcpReceived>>,
         socket' = socket \/ socket' = <<>>, link' # "up"
  PROVE  StreamInv' /\ socket' \in Seq(Byte)
<1>1. socket \in Seq(Byte) /\ tcpReceived \in Seq(Byte) BY DEF TcpTypes
<1>2. Stream = tcpReceived \o socket BY DEF Stream
<1>3. WholeFrames(tcpReceived)
  <2>1. WholeFrames(tcpReceived \o socket) BY <1>2 DEF StreamInv
  <2>2. QED BY <1>1, <2>1, WholePrefix
<1>4. \A i \in 1..Len(tcpReceived) : Known(tcpReceived[i])
  <2>1. /\ Len(tcpReceived) \in Nat /\ Len(socket) \in Nat
        /\ Len(tcpReceived \o socket) = Len(tcpReceived) + Len(socket)
        /\ \A i \in 1..Len(tcpReceived) : (tcpReceived \o socket)[i] = tcpReceived[i]
    BY <1>1, ConcatEntries
  <2>2. \A i \in 1..Len(tcpReceived) : i \in 1..Len(tcpReceived \o socket) BY <2>1
  <2>3. \A i \in 1..Len(tcpReceived \o socket) : Known((tcpReceived \o socket)[i])
    BY <1>2 DEF StreamInv
  <2>4. QED BY <2>1, <2>2, <2>3
<1>5. CASE socket' = socket
  <2>1. Stream' = Stream BY <1>5 DEF Stream
  <2>2. QED BY <1>1, <1>5, <2>1 DEF StreamInv, Known, WholeFrames, Follows
<1>6. CASE socket' = <<>>
  <2>1. Stream' = tcpReceived BY <1>1, <1>6, ConcatEmpty DEF Stream
  <2>2. (\A i \in 1..Len(Stream) : Known(Stream[i]))' BY <1>4, <2>1 DEF Known
  <2>3. WholeFrames(Stream)' BY <1>3, <2>1 DEF WholeFrames, Follows
  <2>4. QED BY <1>6, <2>2, <2>3 DEF StreamInv
<1>7. QED BY <1>5, <1>6

(* The socket, or a peer that has closed, takes n bytes of the frame.               *)
LEMMA TookKeeps ==
  ASSUME TcpTypes, RingInv, NEW n \in 1..Len(sending), UNCHANGED <<tcpQueued, queue>>,
         sending' = SubSeq(sending, n + 1, Len(sending))
  PROVE  /\ sending' \in Seq(Byte) /\ RingInv'
         /\ (sending' = <<>>) <=> (n = Len(sending))
         /\ n < Len(sending) => sending'[1] = sending[n + 1]
         /\ sending[n].frame = sending[1].frame
<1>1. sending \in Seq(Byte) BY DEF TcpTypes
<1>2. /\ n \in Nat /\ Len(sending) \in Nat /\ n >= 1 /\ n <= Len(sending) /\ sending # <<>>
  BY <1>1
<1>3. /\ sending' \in Seq(Byte) /\ Len(sending') = Len(sending) - n
      /\ \A i \in 1..(Len(sending) - n) : sending'[i] = sending[n + i]
  BY <1>1, SubSeqEntries
<1>4. (sending' = <<>>) <=> (n = Len(sending))
  <2>1. sending' \in Seq(Byte) BY <1>3
  <2>2. (sending' = <<>>) <=> (Len(sending') = 0)
    <3>1. \A s \in Seq(Byte) : (s = <<>>) <=> (Len(s) = 0) OBVIOUS
    <3>2. QED BY <2>1, <3>1
  <2>3. QED BY <1>2, <1>3, <2>2
<1>5. RestOf(sending) /\ \A i \in 1..Len(queue) : sending[1].frame < queue[i]
  BY <1>2 DEF RingInv
<1>6. sending[n].frame = sending[1].frame
  <2>1. sending[n] = [frame |-> sending[1].frame, byte |-> sending[1].byte + (n - 1)]
    BY <1>5 DEF RestOf
  <2>2. QED BY <2>1
<1>7. ASSUME n < Len(sending)
      PROVE  /\ RestOf(sending)' /\ sending'[1] = sending[n + 1]
             /\ sending'[1].frame = sending[1].frame
  <2>1. /\ RestOf(SubSeq(sending, n + 1, Len(sending)))
        /\ SubSeq(sending, n + 1, Len(sending))[1] = sending[n + 1]
        /\ sending[n + 1].frame = sending[1].frame
    BY <1>1, <1>2, <1>5, <1>7, RestLeft
  <2>2. QED BY <2>1 DEF RestOf, Ends
<1>8. (\A i \in 1..Len(sending) : Known(sending[i]))'
  <2>1. \A i \in 1..Len(sending') : n + i \in 1..Len(sending) /\ sending'[i] = sending[n + i]
    BY <1>2, <1>3
  <2>2. QED BY <2>1 DEF RingInv, Known
<1>9. sending' # <<>> => n < Len(sending) BY <1>2, <1>4
<1>10. RingInv' BY <1>5, <1>7, <1>8, <1>9 DEF RingInv
<1>11. QED BY <1>3, <1>4, <1>6, <1>7, <1>10

-----------------------------------------------------------------------------
(* One step of the program after another.                                    *)
LEMMA RxKeeps == ASSUME TcpInv, Rx PROVE TcpInv'
<1>1. TcpTypes /\ RingInv /\ PhaseInv /\ StreamInv BY DEF TcpInv
<1>2. /\ pc = "rx" /\ pc' = "tx" /\ UNCHANGED <<sending, socket, tcpReceived, link, client>>
      /\ requests' = (IF RecvFails THEN requests ELSE 0)
  BY DEF Rx
<1>3. sending = <<>> BY <1>1, <1>2 DEF PhaseInv
<1>4. PICK n \in Nat \ {0}, m \in Nat :
        /\ tcpQueued' = tcpQueued \o [i \in 1..m |-> n]
        /\ queue' = queue \o [i \in 1..m |-> Len(tcpQueued) + i]
  <2>1. PICK own \in 0..1, n \in Sizes :
          LET more == own + IF RecvFails THEN 0 ELSE requests IN
          /\ tcpQueued' = tcpQueued \o [i \in 1..more |-> n]
          /\ queue' = queue \o [i \in 1..more |-> Len(tcpQueued) + i]
    BY DEF Rx
  <2>2. (own + IF RecvFails THEN 0 ELSE requests) \in Nat BY <1>1 DEF TcpTypes
  <2>3. n \in Nat \ {0} BY SizesAssumption
  <2>4. QED BY <2>1, <2>2, <2>3
<1> DEFINE more == [i \in 1..m |-> n]
           new  == [i \in 1..m |-> Len(tcpQueued) + i]
<1>5. /\ tcpQueued \in Seq(Nat \ {0}) /\ queue \in Seq(Nat) /\ Len(tcpQueued) \in Nat
      /\ Len(queue) \in Nat
  BY <1>1 DEF TcpTypes
<1>6. more \in Seq(Nat \ {0}) /\ Len(more) = m BY <1>4
<1>7. new \in Seq(Nat) /\ Len(new) = m /\ \A i \in 1..m : new[i] = Len(tcpQueued) + i
  BY <1>4, <1>5
<1>8. tcpQueued' = tcpQueued \o more /\ queue' = queue \o new BY <1>4
<1> HIDE DEF more, new
<1>9. /\ tcpQueued' \in Seq(Nat \ {0}) /\ Len(tcpQueued') = Len(tcpQueued) + m
      /\ \A i \in 1..Len(tcpQueued) : tcpQueued'[i] = tcpQueued[i]
  <2>1. /\ tcpQueued \o more \in Seq(Nat \ {0}) /\ Len(tcpQueued \o more) = Len(tcpQueued) + Len(more)
        /\ \A i \in 1..Len(tcpQueued) : (tcpQueued \o more)[i] = tcpQueued[i]
    <3>1. tcpQueued \in Seq(Nat \ {0}) /\ more \in Seq(Nat \ {0}) BY <1>5, <1>6
    <3>2. QED BY <3>1, ConcatEntries
  <2>2. QED BY <1>6, <1>8, <2>1
<1>10. /\ queue' \in Seq(Nat) /\ Len(queue') = Len(queue) + m
       /\ \A i \in 1..Len(queue) : queue'[i] = queue[i]
       /\ \A i \in 1..m : queue'[Len(queue) + i] = Len(tcpQueued) + i
  <2>1. /\ queue \o new \in Seq(Nat) /\ Len(queue \o new) = Len(queue) + Len(new)
        /\ \A i \in 1..Len(queue) : (queue \o new)[i] = queue[i]
        /\ \A i \in 1..Len(new) : (queue \o new)[Len(queue) + i] = new[i]
    <3>1. queue \in Seq(Nat) /\ new \in Seq(Nat) BY <1>5, <1>7
    <3>2. QED BY <3>1, ConcatEntries
  <2>2. QED BY <1>7, <1>8, <2>1
<1>11. TcpTypes'
  <2>1. requests' \in Nat BY <1>1, <1>2 DEF TcpTypes
  <2>2. QED BY <1>1, <1>2, <1>9, <1>10, <2>1 DEF TcpTypes
<1>12. ASSUME NEW i \in 1..Len(queue')
       PROVE  \/ i \in 1..Len(queue) /\ queue'[i] = queue[i] /\ queue[i] \in 1..Len(tcpQueued)
              \/ \E k \in 1..m : i = Len(queue) + k /\ queue'[i] = Len(tcpQueued) + k
  <2>0. i \in Nat /\ i >= 1 /\ i <= Len(queue) + m BY <1>4, <1>5, <1>10
  <2>1. CASE i <= Len(queue)
    <3>1. i \in 1..Len(queue) BY <1>5, <2>0, <2>1
    <3>2. QED BY <1>1, <1>10, <3>1 DEF RingInv
  <2>2. CASE i > Len(queue)
    <3>1. i - Len(queue) \in 1..m /\ i = Len(queue) + (i - Len(queue)) BY <1>4, <1>5, <2>0, <2>2
    <3>2. QED BY <1>10, <3>1
  <2>3. QED BY <1>5, <2>0, <2>1, <2>2
<1>13. RingInv'
  <2>1. ASSUME NEW i \in 1..Len(queue') PROVE queue'[i] \in 1..Len(tcpQueued')
    <3>1. CASE i \in 1..Len(queue) /\ queue'[i] = queue[i] /\ queue[i] \in 1..Len(tcpQueued)
      BY <1>4, <1>5, <1>9, <3>1
    <3>2. CASE \E k \in 1..m : i = Len(queue) + k /\ queue'[i] = Len(tcpQueued) + k
      <4>1. PICK k \in 1..m : queue'[i] = Len(tcpQueued) + k BY <3>2
      <4>2. QED BY <1>4, <1>5, <1>9, <4>1
    <3>3. QED BY <1>12, <3>1, <3>2
  <2>2. ASSUME NEW i \in 1..Len(queue'), NEW j \in 1..Len(queue'), i < j
        PROVE  queue'[i] < queue'[j]
    <3>1. CASE j \in 1..Len(queue) /\ queue'[j] = queue[j]
      <4>1. i \in 1..Len(queue) BY <1>4, <1>5, <1>10, <2>2, <3>1
      <4>2. QED BY <1>1, <1>10, <2>2, <3>1, <4>1 DEF RingInv
    <3>2. ASSUME NEW k \in 1..m, j = Len(queue) + k, queue'[j] = Len(tcpQueued) + k
          PROVE  queue'[i] < queue'[j]
      <4>1. CASE i \in 1..Len(queue) /\ queue'[i] = queue[i] /\ queue[i] \in 1..Len(tcpQueued)
        BY <1>4, <1>5, <3>2, <4>1
      <4>2. ASSUME NEW l \in 1..m, i = Len(queue) + l, queue'[i] = Len(tcpQueued) + l
            PROVE  queue'[i] < queue'[j]
        BY <1>4, <1>5, <2>2, <3>2, <4>2
      <4>3. QED BY <1>12, <4>1, <4>2
    <3>3. QED BY <1>12, <3>1, <3>2
  <2>3. sending' = <<>> /\ ~ \E i \in 1..Len(sending') : TRUE BY <1>2, <1>3
  <2>4. QED BY <2>1, <2>2, <2>3 DEF RingInv
<1>14. PhaseInv' BY <1>1, <1>2, <1>3 DEF PhaseInv
<1>15. ASSUME NEW b \in Byte, Known(b) PROVE Known(b)' /\ (Ends(b)' <=> Ends(b))
  BY <1>4, <1>5, <1>9, <1>15 DEF Known, Ends
<1>16. Stream' = Stream /\ Stream \in Seq(Byte) BY <1>1, <1>2 DEF Stream, TcpTypes
<1>17. \A i \in 1..Len(Stream) : Stream[i] \in Byte /\ Known(Stream[i])
  BY <1>1, <1>16 DEF StreamInv
<1>18. WholeFrames(Stream)'
  <2>1. \A i \in 2..Len(Stream) : i - 1 \in 1..Len(Stream) BY <1>16
  <2>2. ASSUME NEW i \in 2..Len(Stream) PROVE Follows(Stream[i - 1], Stream[i])'
    <3>1. tcpQueued'[Stream[i - 1].frame] = tcpQueued[Stream[i - 1].frame]
      BY <1>9, <1>17, <2>1 DEF Known
    <3>2. Follows(Stream[i - 1], Stream[i]) BY <1>1 DEF StreamInv, WholeFrames
    <3>3. QED BY <1>16, <3>1, <3>2 DEF Follows
  <2>3. QED BY <1>1, <1>16, <2>2 DEF StreamInv, WholeFrames
<1>19. (link = "up" => NextFitsTo(Stream))'
  <2> SUFFICES ASSUME link = "up", Stream # <<>>
               PROVE  /\ Ends(Stream[Len(Stream)])'
                      /\ \A i \in 1..Len(queue') : Stream[Len(Stream)].frame < queue'[i]
    BY <1>2, <1>3, <1>16 DEF NextFitsTo
  <2>1. NextFitsTo(Stream) BY <1>1 DEF StreamInv
  <2>2. Ends(Stream[Len(Stream)]) /\ \A i \in 1..Len(queue) : Stream[Len(Stream)].frame < queue[i]
    BY <1>3, <2>1 DEF NextFitsTo
  <2>3. Len(Stream) \in 1..Len(Stream) BY <1>16
  <2>4. Stream[Len(Stream)].frame \in 1..Len(tcpQueued) /\ Ends(Stream[Len(Stream)])'
    BY <1>9, <1>16, <1>17, <2>2, <2>3 DEF Known, Ends
  <2>5. ASSUME NEW i \in 1..Len(queue') PROVE Stream[Len(Stream)].frame < queue'[i]
    BY <1>4, <1>5, <1>12, <2>2, <2>4
  <2>6. QED BY <2>4, <2>5
<1>20. (\A i \in 1..Len(Stream) : Known(Stream[i]))'
  BY <1>5, <1>4, <1>9, <1>16, <1>17 DEF Known
<1>21. QED BY <1>11, <1>13, <1>14, <1>18, <1>19, <1>20 DEF TcpInv, StreamInv

LEMMA DequeueKeeps == ASSUME TcpInv, Dequeue PROVE TcpInv'
<1>1. TcpTypes /\ RingInv /\ PhaseInv /\ StreamInv BY DEF TcpInv
<1>2. /\ pc = "tx" /\ queue # <<>> /\ pc' = "send" /\ queue' = Tail(queue)
      /\ sending' = Bytes(Head(queue), tcpQueued[Head(queue)])
      /\ UNCHANGED <<tcpQueued, socket, tcpReceived, requests, link, client>>
  BY DEF Dequeue, peer
<1>3. /\ queue \in Seq(Nat) /\ Len(queue) \in Nat /\ Len(queue) >= 1 /\ Head(queue) = queue[1]
      /\ queue' \in Seq(Nat) /\ Len(queue') = Len(queue) - 1
      /\ \A i \in 1..(Len(queue) - 1) : queue'[i] = queue[i + 1]
  BY <1>1, <1>2 DEF TcpTypes
<1>4. PICK k \in Nat : k = queue[1]
  <2>1. queue[1] \in Nat BY <1>3
  <2>2. QED BY <2>1
<1>5. k \in 1..Len(tcpQueued) /\ tcpQueued \in Seq(Nat \ {0})
  <2>1. 1 \in 1..Len(queue) BY <1>3
  <2>2. QED BY <1>1, <1>4, <2>1 DEF RingInv, TcpTypes
<1>6. PICK n \in Nat \ {0} : n = tcpQueued[k] BY <1>5
<1>7. sending' = [i \in 1..n |-> [frame |-> k, byte |-> i]]
  BY <1>2, <1>3, <1>4, <1>6 DEF Bytes
<1>8. /\ sending' \in Seq(Byte) /\ Len(sending') = n /\ sending' # <<>>
      /\ \A i \in 1..n : sending'[i] = [frame |-> k, byte |-> i]
  <2>1. \A i \in 1..n : [frame |-> k, byte |-> i] \in Byte BY <1>4, <1>6 DEF Byte
  <2>2. QED BY <1>6, <1>7, <2>1
<1>9. sending'[1].frame = k /\ sending'[1].byte = 1
  <2>1. 1 \in 1..n BY <1>6
  <2>2. QED BY <1>8, <2>1
<1>10. TcpTypes' BY <1>1, <1>2, <1>3, <1>8 DEF TcpTypes
<1>11. RingInv'
  <2>1. \A i \in 1..Len(queue') : i + 1 \in 1..Len(queue) /\ queue'[i] = queue[i + 1] /\ 1 < i + 1
    <3>1. PICK l \in Nat : l = Len(queue) BY <1>3
    <3>2. 1..Len(queue) = 1..l /\ 1..Len(queue') = 1..(l - 1) /\ 1..(Len(queue) - 1) = 1..(l - 1)
      BY <1>3, <3>1
    <3>3. \A i \in 1..(l - 1) : i + 1 \in 1..l /\ 1 < i + 1 BY ONLY <3>1, l \in Nat
    <3>4. \A i \in 1..(l - 1) : queue'[i] = queue[i + 1] BY <1>3, <3>2
    <3>5. QED BY ONLY <3>2, <3>3, <3>4
  <2>2. ASSUME NEW i \in 1..Len(queue') PROVE queue'[i] \in 1..Len(tcpQueued')
    BY <1>1, <1>2, <2>1 DEF RingInv
  <2>3. ASSUME NEW i \in 1..Len(queue'), NEW j \in 1..Len(queue'), i < j
        PROVE  queue'[i] < queue'[j]
    <3>1. i + 1 < j + 1 BY <1>3, <2>3
    <3>2. QED BY <1>1, <2>1, <3>1 DEF RingInv
  <2>4. ASSUME NEW i \in 1..Len(sending') PROVE Known(sending[i])'
    <3>1. i \in 1..n /\ sending'[i].frame = k /\ sending'[i].byte = i BY <1>8
    <3>2. QED BY <1>2, <1>5, <1>6, <3>1 DEF Known
  <2>5. RestOf(sending)'
    <3>1. ASSUME NEW i \in 1..n
          PROVE  sending'[i] = [frame |-> sending'[1].frame, byte |-> sending'[1].byte + (i - 1)]
      <4>1. i = 1 + (i - 1) BY <1>6
      <4>2. QED BY <1>8, <1>9, <4>1
    <3>2. sending'[n].byte = n /\ sending'[n].frame = k
      <4>1. n \in 1..n BY <1>6
      <4>2. QED BY <1>8, <4>1
    <3>3. Ends(sending[Len(sending)])' BY <1>2, <1>6, <1>8, <3>2 DEF Ends
    <3>4. QED BY <1>8, <3>1, <3>3 DEF RestOf
  <2>6. ASSUME NEW i \in 1..Len(queue') PROVE sending'[1].frame < queue'[i]
    <3>1. 1 \in 1..Len(queue) BY <1>3
    <3>2. queue[1] < queue[i + 1] BY <1>1, <2>1, <3>1 DEF RingInv
    <3>3. QED BY <1>4, <1>9, <2>1, <3>2
  <2>7. QED BY <2>2, <2>3, <2>4, <2>5, <2>6 DEF RingInv
<1>12. PhaseInv' BY <1>1, <1>2, <1>8 DEF PhaseInv
<1>13. Stream' = Stream /\ sending = <<>> BY <1>1, <1>2 DEF Stream, PhaseInv
<1>14. (link = "up" => NextFitsTo(Stream))'
  <2> SUFFICES ASSUME link = "up" PROVE NextFitsTo(Stream)'
    BY <1>2
  <2>1. NextFitsTo(Stream) BY <1>1 DEF StreamInv
  <2>2. ASSUME Stream # <<>> PROVE Follows(Stream[Len(Stream)], sending[1])'
    <3>1. Ends(Stream[Len(Stream)]) /\ \A i \in 1..Len(queue) : Stream[Len(Stream)].frame < queue[i]
      BY <1>13, <2>1, <2>2 DEF NextFitsTo
    <3>2. Stream \in Seq(Byte) /\ Len(Stream) \in 1..Len(Stream) BY <1>1, <2>2 DEF Stream, TcpTypes
    <3>3. Stream[Len(Stream)].frame \in Nat
      <4>1. Stream[Len(Stream)] \in Byte BY <3>2
      <4>2. QED BY <4>1 DEF Byte
    <3>4. 1 \in 1..Len(queue) BY <1>3
    <3>5. Stream[Len(Stream)].frame < k BY <1>4, <3>1, <3>4
    <3>6. k > Stream[Len(Stream)].frame BY <3>3, <3>5
    <3>7. QED BY <1>2, <1>9, <1>13, <3>1, <3>6 DEF Follows, Ends
  <2>3. Fits(Stream, sending[1])' BY <1>9, <1>13, <2>2 DEF Fits
  <2>4. QED BY <1>8, <2>3 DEF NextFitsTo
<1>15. (\A i \in 1..Len(Stream) : Known(Stream[i]))' BY <1>1, <1>2, <1>13 DEF StreamInv, Known
<1>16. WholeFrames(Stream)' BY <1>1, <1>2, <1>13 DEF StreamInv, WholeFrames, Follows
<1>17. QED BY <1>10, <1>11, <1>12, <1>14, <1>15, <1>16 DEF TcpInv, StreamInv

LEMMA SendKeepsTcp == ASSUME TcpInv, SendSome PROVE TcpInv'
<1>1. TcpTypes /\ RingInv /\ PhaseInv /\ StreamInv BY DEF TcpInv
<1>2. PICK n \in 1..Len(sending) :
        /\ socket' = socket \o SubSeq(sending, 1, n)
        /\ sending' = SubSeq(sending, n + 1, Len(sending))
        /\ pc' = IF n = Len(sending) THEN "tx" ELSE "send"
  BY DEF SendSome, Took
<1>3. /\ pc = "send" /\ link = "up"
      /\ UNCHANGED <<queue, tcpQueued, tcpReceived, requests, link, client>>
  BY DEF SendSome
<1>4. /\ sending' \in Seq(Byte) /\ RingInv'
      /\ (sending' = <<>>) <=> (n = Len(sending))
      /\ n < Len(sending) => sending'[1] = sending[n + 1]
      /\ sending[n].frame = sending[1].frame
  BY <1>1, <1>2, <1>3, TookKeeps
<1> DEFINE part == SubSeq(sending, 1, n)
<1>5. /\ sending \in Seq(Byte) /\ sending # <<>> /\ n \in Nat /\ n >= 1 /\ n <= Len(sending)
      /\ Len(sending) \in Nat /\ RestOf(sending)
      /\ \A i \in 1..Len(queue) : sending[1].frame < queue[i]
  BY <1>1, <1>2, <1>3 DEF TcpTypes, PhaseInv, RingInv
<1>6. part \in Seq(Byte) /\ Len(part) = n /\ \A i \in 1..n : part[i] = sending[i]
  BY <1>5, SubSeqEntries
<1>7. Stream \in Seq(Byte) /\ Stream' = Stream \o part /\ socket' \in Seq(Byte)
  <2>1. tcpReceived \in Seq(Byte) /\ socket \in Seq(Byte) /\ part \in Seq(Byte)
    BY <1>1, <1>6 DEF TcpTypes
  <2> HIDE DEF part
  <2>2. (tcpReceived \o socket) \o part = tcpReceived \o (socket \o part)
    BY <2>1, ConcatAssociative
  <2>3. socket' = socket \o part BY <1>2 DEF part
  <2>4. QED BY <1>3, <2>1, <2>2, <2>3 DEF Stream
<1>8. WholeFrames(Stream) /\ Fits(Stream, sending[1])
  BY <1>1, <1>3, <1>5 DEF StreamInv, NextFitsTo
<1>9. /\ WholeFrames(Stream \o part) /\ Stream \o part # <<>>
      /\ (Stream \o part)[Len(Stream \o part)] = sending[n]
      /\ n < Len(sending) => Follows(sending[n], sending[n + 1])
  BY <1>5, <1>7, <1>8, SendFits
<1> HIDE DEF part
<1>10. TcpTypes' BY <1>1, <1>3, <1>4, <1>7 DEF TcpTypes
<1>11. PhaseInv' BY <1>1, <1>2, <1>3, <1>4 DEF PhaseInv
<1>12. WholeFrames(Stream)' BY <1>3, <1>7, <1>9 DEF WholeFrames, Follows
<1>13. (\A i \in 1..Len(Stream) : Known(Stream[i]))'
  <2>1. part \in Seq(Byte) BY <1>6
  <2>2. /\ Len(Stream \o part) = Len(Stream) + Len(part) /\ Len(Stream) \in Nat
        /\ \A i \in 1..Len(Stream) : (Stream \o part)[i] = Stream[i]
        /\ \A i \in 1..Len(part) : (Stream \o part)[Len(Stream) + i] = part[i]
    BY <1>7, <2>1, ConcatEntries
  <2>3. \A i \in 1..n : i \in 1..Len(sending) BY <1>5
  <2>4. \A i \in 1..n : Known(part[i]) BY <1>1, <1>6, <2>3 DEF RingInv
  <2>5. \A i \in 1..Len(Stream) : Known(Stream[i]) BY <1>1 DEF StreamInv
  <2>6. ASSUME NEW i \in 1..(Len(Stream) + n) PROVE Known((Stream \o part)[i])
    <3>0. i \in Nat /\ i >= 1 /\ i <= Len(Stream) + n BY <1>5, <2>2
    <3>1. CASE i <= Len(Stream)
      <4>1. i \in 1..Len(Stream) BY <2>2, <3>0, <3>1
      <4>2. QED BY <2>2, <2>5, <4>1
    <3>2. CASE i > Len(Stream)
      <4>1. i - Len(Stream) \in 1..n /\ i = Len(Stream) + (i - Len(Stream)) BY <1>5, <2>2, <3>0, <3>2
      <4>2. QED BY <1>6, <2>2, <2>4, <4>1
    <3>3. i <= Len(Stream) \/ i > Len(Stream) BY <2>2, <3>0
    <3>4. QED BY <3>1, <3>2, <3>3
  <2>7. Len(Stream \o part) = Len(Stream) + n BY <1>6, <2>2
  <2>8. \A i \in 1..Len(Stream \o part) : Known((Stream \o part)[i]) BY <2>6, <2>7
  <2>9. QED BY <1>3, <1>7, <2>8 DEF Known
<1>14. (link = "up" => NextFitsTo(Stream))'
  <2>1. CASE n < Len(sending)
    <3>1. sending' # <<>> /\ sending'[1] = sending[n + 1] BY <1>4, <1>5, <2>1
    <3>2. Fits(Stream, sending[1])' BY <1>3, <1>7, <1>9, <2>1, <3>1 DEF Fits, Follows
    <3>3. QED BY <3>1, <3>2 DEF NextFitsTo
  <2>2. CASE n = Len(sending)
    <3>1. sending' = <<>> BY <1>4, <2>2
    <3>2. Ends(sending[n]) BY <1>5, <2>2 DEF RestOf
    <3>3. Ends(Stream[Len(Stream)])' BY <1>3, <1>7, <1>9, <3>2 DEF Ends
    <3>4. \A i \in 1..Len(queue) : sending[n].frame < queue[i] BY <1>4, <1>5
    <3>5. (\A i \in 1..Len(queue) : Stream[Len(Stream)].frame < queue[i])'
      BY <1>3, <1>7, <1>9, <3>4
    <3>6. QED BY <3>1, <3>3, <3>5 DEF NextFitsTo
  <2>3. QED BY <1>5, <2>1, <2>2
<1>15. QED BY <1>4, <1>10, <1>11, <1>12, <1>13, <1>14 DEF TcpInv, StreamInv

LEMMA OtherStepsKeepTcp ==
  ASSUME TcpInv, TcpNext \/ UNCHANGED tcpVars, ~Rx, ~Dequeue, ~SendSome PROVE TcpInv'
<1> USE DEF main, tx, peer
<1>1. TcpTypes /\ RingInv /\ PhaseInv /\ StreamInv BY DEF TcpInv
<1>2. /\ socket \in Seq(Byte) /\ tcpReceived \in Seq(Byte) /\ sending \in Seq(Byte) /\ requests \in Nat
  BY <1>1 DEF TcpTypes
<1>3. link = "up" => NextFitsTo(Stream) BY <1>1 DEF StreamInv
<1>4. CASE Listen \/ AcceptFails \/ Inject \/ LoopTop \/ PassEnds \/ Interrupt \/ Connect \/ UNCHANGED tcpVars
  <2>1. /\ UNCHANGED <<tcpQueued, queue, sending, socket, tcpReceived, link, client, requests>>
        /\ \/ UNCHANGED pc
           \/ pc = "init" /\ pc' \in {"wait", "failed"}
           \/ pc \in {"wait", "inject", "top", "tx"} /\ pc' \in {"inject", "top", "rx"}
    BY <1>4 DEF Listen, AcceptFails, Inject, LoopTop, PassEnds, Interrupt, Connect, tcpVars
  <2>2. PhaseInv' BY <1>1, <2>1 DEF PhaseInv
  <2>3. Stream' = Stream BY <2>1 DEF Stream
  <2>4. QED BY <1>1, <1>2, <1>3, <2>1, <2>2, <2>3, TcpRests DEF TcpInv
<1>5. CASE Accept
  <2>1. /\ UNCHANGED <<tcpQueued, queue, sending, socket, tcpReceived, requests>>
        /\ pc = "wait" /\ pc' = "inject" /\ client' = TRUE
    BY <1>5 DEF Accept
  <2>2. socket = <<>> /\ tcpReceived = <<>> /\ sending = <<>> BY <1>1, <2>1 DEF PhaseInv
  <2>3. Stream = <<>> /\ Stream' = Stream BY <1>2, <2>1, <2>2, ConcatEmpty DEF Stream
  <2>4. NextFitsTo(Stream) BY <2>2, <2>3 DEF NextFitsTo
  <2>5. PhaseInv' BY <1>1, <2>1 DEF PhaseInv
  <2>6. QED BY <1>1, <1>2, <2>1, <2>3, <2>4, <2>5, TcpRests DEF TcpInv
<1>6. CASE Ask
  <2>1. /\ UNCHANGED <<tcpQueued, queue, sending, socket, tcpReceived, link, client, pc>>
        /\ requests' = requests + 1
    BY <1>6 DEF Ask
  <2>2. requests' \in Nat BY <1>2, <2>1
  <2>3. PhaseInv' BY <1>1, <2>1 DEF PhaseInv
  <2>4. Stream' = Stream BY <2>1 DEF Stream
  <2>5. QED BY <1>1, <1>2, <1>3, <2>1, <2>2, <2>3, <2>4, TcpRests DEF TcpInv
<1>7. CASE Reads
  <2>1. /\ UNCHANGED <<tcpQueued, queue, sending, link, client, pc, requests>>
        /\ socket # <<>> /\ tcpReceived' = Append(tcpReceived, Head(socket)) /\ socket' = Tail(socket)
    BY <1>7 DEF Reads
  <2>2. Stream' = Stream BY <1>2, <2>1, ConcatMove DEF Stream
  <2>3. tcpReceived' \in Seq(Byte) /\ socket' \in Seq(Byte)
    <3>1. Head(socket) \in Byte /\ Tail(socket) \in Seq(Byte) BY <1>2, <2>1
    <3>2. QED BY <1>2, <2>1, <3>1
  <2>4. PhaseInv' BY <1>1, <2>1 DEF PhaseInv
  <2>5. QED BY <1>1, <1>2, <1>3, <2>1, <2>2, <2>3, <2>4, TcpRests DEF TcpInv
<1>8. CASE SendToClosed
  <2>1. /\ pc = "send" /\ link' = "reset"
        /\ UNCHANGED <<queue, tcpQueued, requests, socket, tcpReceived, client>>
    BY <1>8 DEF SendToClosed
  <2>2. PICK n \in 1..Len(sending) :
          /\ sending' = SubSeq(sending, n + 1, Len(sending))
          /\ pc' = IF n = Len(sending) THEN "tx" ELSE "send"
    BY <1>8 DEF SendToClosed, Took
  <2>3. /\ sending' \in Seq(Byte) /\ RingInv'
        /\ (sending' = <<>>) <=> (n = Len(sending))
    BY <1>1, <2>1, <2>2, TookKeeps
  <2>4. StreamInv' BY <1>1, <2>1, StreamShrinks
  <2>5. TcpTypes' BY <1>1, <2>1, <2>3 DEF TcpTypes
  <2>6. PhaseInv' BY <1>1, <2>1, <2>2, <2>3 DEF PhaseInv
  <2>7. QED BY <2>3, <2>4, <2>5, <2>6 DEF TcpInv
<1>9. CASE SendFails
  <2>1. /\ pc = "send" /\ (~client \/ link = "reset") /\ sending' = <<>> /\ pc' \in {"top", "killed"}
        /\ UNCHANGED <<queue, tcpQueued, requests, socket, tcpReceived, client, link>>
    BY <1>9 DEF SendFails
  <2>2. link' # "up" BY <1>1, <2>1 DEF PhaseInv
  <2>3. StreamInv' BY <1>1, <2>1, <2>2, StreamShrinks
  <2>4. TcpTypes' BY <1>1, <2>1 DEF TcpTypes
  <2>5. PhaseInv' BY <1>1, <2>1 DEF PhaseInv
  <2>6. RingInv' BY <1>1, <2>1 DEF RingInv, Known
  <2>7. QED BY <2>3, <2>4, <2>5, <2>6 DEF TcpInv
<1>10. CASE Cleanup \/ Closes
  <2>1. /\ UNCHANGED <<queue, tcpQueued, requests, tcpReceived, sending>>
        /\ (socket' = socket \/ socket' = <<>>) /\ link' # "up"
        /\ (UNCHANGED pc \/ (pc = "top" /\ pc' = "end"))
    BY <1>10 DEF Cleanup, Closes
  <2>2. StreamInv' /\ socket' \in Seq(Byte) BY <1>1, <2>1, StreamShrinks
  <2>3. TcpTypes' BY <1>1, <2>1, <2>2 DEF TcpTypes
  <2>4. PhaseInv' BY <1>1, <2>1 DEF PhaseInv
  <2>5. RingInv' BY <1>1, <2>1 DEF RingInv, Known, RestOf, Ends
  <2>6. QED BY <2>2, <2>3, <2>4, <2>5 DEF TcpInv
<1>11. QED BY <1>4, <1>5, <1>6, <1>7, <1>8, <1>9, <1>10 DEF TcpNext, Program

LEMMA TcpStarts == TcpInit => TcpInv
<1> SUFFICES ASSUME TcpInit PROVE TcpInv
  OBVIOUS
<1>1. /\ queue = <<>> /\ sending = <<>> /\ tcpQueued = <<>> /\ socket = <<>> /\ tcpReceived = <<>>
      /\ requests = 0 /\ pc = "init" /\ link = "none"
  BY DEF TcpInit
<1>2. TcpTypes BY <1>1 DEF TcpTypes
<1>3. Stream = <<>> BY <1>1 DEF Stream
<1>4. RingInv BY <1>1 DEF RingInv
<1>5. PhaseInv BY <1>1 DEF PhaseInv
<1>6. StreamInv BY <1>1, <1>3 DEF StreamInv, WholeFrames
<1>7. QED BY <1>2, <1>4, <1>5, <1>6 DEF TcpInv

(* However the socket cuts the frames up, whenever the peer reads, asks or closes,     *)
(* a signal comes or a send fails, and whatever the ring still holds: the peer reads   *)
(* whole frames in the order in which they were queued, and only the last may be      *)
(* unfinished, for frames and sockets of any size (transport_tcp_client.c:185-256,    *)
(* app.c:395-419).                                                            *)
THEOREM FramesStayIntact == TcpSpec => []FramesIntact
<1>1. TcpInit => TcpInv
  BY TcpStarts
<1>2. TcpInv /\ [TcpNext]_tcpVars => TcpInv'
  <2> SUFFICES ASSUME TcpInv, [TcpNext]_tcpVars PROVE TcpInv'
    OBVIOUS
  <2>1. CASE Rx BY <2>1, RxKeeps
  <2>2. CASE Dequeue BY <2>2, DequeueKeeps
  <2>3. CASE SendSome BY <2>3, SendKeepsTcp
  <2>4. CASE ~Rx /\ ~Dequeue /\ ~SendSome BY <2>4, OtherStepsKeepTcp
  <2>5. QED BY <2>1, <2>2, <2>3, <2>4
<1>3. TcpInv => FramesIntact
  <2> SUFFICES ASSUME TcpInv PROVE FramesIntact
    OBVIOUS
  <2>1. socket \in Seq(Byte) /\ tcpReceived \in Seq(Byte) BY DEF TcpInv, TcpTypes
  <2>2. WholeFrames(tcpReceived \o socket) BY DEF TcpInv, StreamInv, Stream
  <2>3. WholeFrames(tcpReceived) BY <2>1, <2>2, WholePrefix
  <2>4. QED BY <2>3 DEF WholeFrames, FramesIntact
<1>4. QED
  BY <1>1, <1>2, <1>3, PTL DEF TcpSpec

-----------------------------------------------------------------------------
(* The byte transport (BmStream).  First the rounding: bits of a word, ...             *)
(* What is left of a word when the bits below i have been shifted out.            *)
Rest(x, i) == x \div 2^i

LEMMA OneBit ==
  ASSUME NEW x \in Nat, NEW i \in 0..15
  PROVE  /\ Rest(x, i) \in Nat
         /\ Rest(x, i) = 2 * Rest(x, i + 1) + (IF i \in Bits(x) THEN 1 ELSE 0)
<1> USE DEF Rest
<1>0. i \in Bits(x) <=> (x \div 2^i) % 2 = 1 BY DEF Bits
<1>1. CASE i = 0 BY <1>0, <1>1
<1>2. CASE i = 1 BY <1>0, <1>2
<1>3. CASE i = 2 BY <1>0, <1>3
<1>4. CASE i = 3 BY <1>0, <1>4
<1>5. CASE i = 4 BY <1>0, <1>5
<1>6. CASE i = 5 BY <1>0, <1>6
<1>7. CASE i = 6 BY <1>0, <1>7
<1>8. CASE i = 7 BY <1>0, <1>8
<1>9. CASE i = 8 BY <1>0, <1>9
<1>10. CASE i = 9 BY <1>0, <1>10
<1>11. CASE i = 10 BY <1>0, <1>11
<1>12. CASE i = 11 BY <1>0, <1>12
<1>13. CASE i = 12 BY <1>0, <1>13
<1>14. CASE i = 13 BY <1>0, <1>14
<1>15. CASE i = 14 BY <1>0, <1>15
<1>16. CASE i = 15 BY <1>0, <1>16
<1>17. QED BY <1>1, <1>2, <1>3, <1>4, <1>5, <1>6, <1>7, <1>8, <1>9, <1>10, <1>11, <1>12, <1>13, <1>14, <1>15, <1>16

LEMMA WordIsNat == \A x \in Word : x \in Nat /\ x < 65536
BY DEF Word

LEMMA BelowIsIn == \A n \in Int : \A x \in Nat : x <= n => x \in 0..n
OBVIOUS

LEMMA WordHas == ASSUME NEW x \in Nat, x < 65536 PROVE x \in Word
<1>1. PICK n \in Int : n = 65535 OBVIOUS
<1>2. x <= n BY <1>1
<1>3. x \in 0..n BY <1>2, BelowIsIn
<1>4. Word = 0..n BY <1>1 DEF Word
<1>5. QED BY <1>3, <1>4

LEMMA NoneLeft == ASSUME NEW x \in Word PROVE Rest(x, 0) = x /\ Rest(x, 16) = 0
<1>1. x \in Nat /\ x < 65536 BY WordIsNat
<1>2. x \div 2^0 = x BY <1>1
<1>3. x \div 2^16 = 0 BY <1>1
<1>4. QED BY <1>2, <1>3 DEF Rest

LEMMA SameBits ==
  ASSUME NEW x \in Word, NEW y \in Word, Bits(x) = Bits(y)
  PROVE  x = y
<1> DEFINE S(i) == Rest(x, i) = Rest(y, i)
<1>1. ASSUME NEW i \in 0..15, NEW j, j = i + 1, S(j) PROVE S(i)
  <2>1. x \in Nat /\ y \in Nat BY WordIsNat
  <2>2. Rest(x, i) = 2 * Rest(x, i + 1) + (IF i \in Bits(x) THEN 1 ELSE 0) BY <2>1, OneBit
  <2>3. Rest(y, i) = 2 * Rest(y, i + 1) + (IF i \in Bits(y) THEN 1 ELSE 0) BY <2>1, OneBit
  <2>4. QED BY <1>1, <2>2, <2>3
<1>2. S(16)
  <2>1. Rest(x, 16) = 0 /\ Rest(y, 16) = 0 BY NoneLeft
  <2>2. QED BY <2>1
<1> HIDE DEF S
<1>3. S(15) /\ S(14) /\ S(13) /\ S(12) BY <1>1, <1>2
<1>4. S(11) /\ S(10) /\ S(9) /\ S(8) BY <1>1, <1>3
<1>5. S(7) /\ S(6) /\ S(5) /\ S(4) BY <1>1, <1>4
<1>6. S(3) /\ S(2) /\ S(1) /\ S(0) BY <1>1, <1>5
<1>7. Rest(x, 0) = Rest(y, 0) BY <1>6 DEF S
<1>8. Rest(x, 0) = x /\ Rest(y, 0) = y BY NoneLeft
<1>9. QED BY <1>7, <1>8

(* The word whose bits are one up to h.                                        *)
LEMMA AllOnes ==
  ASSUME NEW h \in 0..15
  PROVE  2^(h + 1) - 1 \in Word /\ Bits(2^(h + 1) - 1) = 0..h
<1> DEFINE n == 2^(h + 1) - 1
<1>1. \/ h = 0 /\ n = 1
      \/ h = 1 /\ n = 3
      \/ h = 2 /\ n = 7
      \/ h = 3 /\ n = 15
      \/ h = 4 /\ n = 31
      \/ h = 5 /\ n = 63
      \/ h = 6 /\ n = 127
      \/ h = 7 /\ n = 255
      \/ h = 8 /\ n = 511
      \/ h = 9 /\ n = 1023
      \/ h = 10 /\ n = 2047
      \/ h = 11 /\ n = 4095
      \/ h = 12 /\ n = 8191
      \/ h = 13 /\ n = 16383
      \/ h = 14 /\ n = 32767
      \/ h = 15 /\ n = 65535
  <2>1. CASE h = 0 BY <2>1
  <2>2. CASE h = 1 BY <2>2
  <2>3. CASE h = 2 BY <2>3
  <2>4. CASE h = 3 BY <2>4
  <2>5. CASE h = 4 BY <2>5
  <2>6. CASE h = 5 BY <2>6
  <2>7. CASE h = 6 BY <2>7
  <2>8. CASE h = 7 BY <2>8
  <2>9. CASE h = 8 BY <2>9
  <2>10. CASE h = 9 BY <2>10
  <2>11. CASE h = 10 BY <2>11
  <2>12. CASE h = 11 BY <2>12
  <2>13. CASE h = 12 BY <2>13
  <2>14. CASE h = 13 BY <2>14
  <2>15. CASE h = 14 BY <2>15
  <2>16. CASE h = 15 BY <2>16
  <2>17. QED BY <2>1, <2>2, <2>3, <2>4, <2>5, <2>6, <2>7, <2>8, <2>9, <2>10, <2>11, <2>12, <2>13, <2>14, <2>15, <2>16
<1> HIDE DEF n
<1>2. n \in Word BY <1>1 DEF Word
<1>3. ASSUME NEW i \in 0..15 PROVE (n \div 2^i) % 2 = 1 <=> i <= h
  <2>1. CASE i = 0 BY <1>1, <2>1
  <2>2. CASE i = 1 BY <1>1, <2>2
  <2>3. CASE i = 2 BY <1>1, <2>3
  <2>4. CASE i = 3 BY <1>1, <2>4
  <2>5. CASE i = 4 BY <1>1, <2>5
  <2>6. CASE i = 5 BY <1>1, <2>6
  <2>7. CASE i = 6 BY <1>1, <2>7
  <2>8. CASE i = 7 BY <1>1, <2>8
  <2>9. CASE i = 8 BY <1>1, <2>9
  <2>10. CASE i = 9 BY <1>1, <2>10
  <2>11. CASE i = 10 BY <1>1, <2>11
  <2>12. CASE i = 11 BY <1>1, <2>12
  <2>13. CASE i = 12 BY <1>1, <2>13
  <2>14. CASE i = 13 BY <1>1, <2>14
  <2>15. CASE i = 14 BY <1>1, <2>15
  <2>16. CASE i = 15 BY <1>1, <2>16
  <2>17. QED BY <2>1, <2>2, <2>3, <2>4, <2>5, <2>6, <2>7, <2>8, <2>9, <2>10, <2>11, <2>12, <2>13, <2>14, <2>15, <2>16
<1>4. Bits(n) = {i \in 0..15 : i <= h} BY <1>3 DEF Bits
<1>5. {i \in 0..15 : i <= h} = 0..h OBVIOUS
<1>6. n \in Word /\ Bits(n) = 0..h BY <1>2, <1>4, <1>5
<1>7. QED BY <1>6 DEF n

LEMMA Smears ==
  ASSUME NEW S, S \subseteq 0..15, NEW i \in 0..15
  PROVE  i \in SmearedBits(S) <=> \E k \in 0..15 : i + k \in S
<1> DEFINE a == S \cup shiftR(S, 1)
           b == a \cup shiftR(a, 2)
           c == b \cup shiftR(b, 4)
           d == c \cup shiftR(c, 8)
<1>1. \A j \in 0..15 : j \in a <=> \E k \in 0..1 : j + k \in S BY DEF shiftR
<1>2. \A j \in 0..15 : j \in b <=> \E k \in 0..3 : j + k \in S BY <1>1 DEF shiftR
<1>3. \A j \in 0..15 : j \in c <=> \E k \in 0..7 : j + k \in S BY <1>2 DEF shiftR
<1>4. \A j \in 0..15 : j \in d <=> \E k \in 0..15 : j + k \in S BY <1>3 DEF shiftR
<1>5. QED BY <1>4 DEF SmearedBits

(* What is below the highest bit of a word is filled.                           *)
LEMMA SmearedIsPower ==
  ASSUME NEW x \in Word, x # 0
  PROVE  \E h \in 0..15 : /\ Smeared(x) = 2^(h + 1) - 1
                          /\ h \in Bits(x) /\ \A i \in Bits(x) : i <= h
<1>1. Bits(x) \subseteq 0..15 BY DEF Bits
<1>2. Bits(x) # {}
  <2> DEFINE Z(i) == Rest(x, i) = 0
  <2>1. SUFFICES ASSUME Bits(x) = {} PROVE FALSE OBVIOUS
  <2>2. ASSUME NEW i \in 0..15, NEW j, j = i + 1, Z(j) PROVE Z(i)
    <3>1. x \in Nat BY WordIsNat
    <3>2. Rest(x, i) = 2 * Rest(x, i + 1) + (IF i \in Bits(x) THEN 1 ELSE 0) BY <3>1, OneBit
    <3>3. QED BY <2>1, <2>2, <3>2
  <2>3. Z(16) BY NoneLeft
  <2> HIDE DEF Z
  <2>4. Z(15) /\ Z(14) /\ Z(13) /\ Z(12) BY <2>2, <2>3
  <2>5. Z(11) /\ Z(10) /\ Z(9) /\ Z(8) BY <2>2, <2>4
  <2>6. Z(7) /\ Z(6) /\ Z(5) /\ Z(4) BY <2>2, <2>5
  <2>7. Z(3) /\ Z(2) /\ Z(1) /\ Z(0) BY <2>2, <2>6
  <2>8. Rest(x, 0) = 0 BY <2>7 DEF Z
  <2>9. QED BY <2>8, NoneLeft
<1>3. PICK h \in Bits(x) : \A i \in Bits(x) : i <= h
  <2> DEFINE B == {15 - i : i \in Bits(x)}
  <2>1. B \subseteq Nat /\ B # {} BY <1>1, <1>2
  <2>2. PICK m \in B : \A n \in B : m <= n BY <2>1, LeastNumber
  <2>3. PICK h \in Bits(x) : m = 15 - h BY <2>2
  <2>4. ASSUME NEW i \in Bits(x) PROVE i <= h
    <3>1. 15 - h <= 15 - i BY <2>2, <2>3
    <3>2. QED BY <1>1, <3>1
  <2>5. QED BY <2>4
<1>4. SmearedBits(Bits(x)) = 0..h
  <2>1. h \in 0..15 BY <1>1
  <2>2. SmearedBits(Bits(x)) \subseteq 0..15 BY <1>1 DEF SmearedBits, shiftR
  <2>3. ASSUME NEW i \in 0..15 PROVE i \in SmearedBits(Bits(x)) <=> i <= h
    <3>1. i \in SmearedBits(Bits(x)) <=> \E k \in 0..15 : i + k \in Bits(x) BY <1>1, Smears
    <3>2. ASSUME NEW k \in 0..15, i + k \in Bits(x) PROVE i <= h BY <1>3, <3>2, <2>1
    <3>3. ASSUME i <= h PROVE h - i \in 0..15 /\ i + (h - i) \in Bits(x) BY <2>1, <3>3
    <3>4. QED BY <3>1, <3>2, <3>3
  <2>4. 0..h = {i \in 0..15 : i <= h} BY <2>1
  <2>5. QED BY <2>2, <2>3, <2>4
<1>5. h \in 0..15 /\ 2^(h + 1) - 1 \in Word /\ Bits(2^(h + 1) - 1) = 0..h BY <1>1, AllOnes
<1>6. Number(0..h) = 2^(h + 1) - 1
  <2>1. PICK n \in Word : n = 2^(h + 1) - 1 /\ Bits(n) = 0..h BY <1>5
  <2>2. Number(0..h) \in Word /\ Bits(Number(0..h)) = 0..h BY <2>1 DEF Number
  <2>3. QED BY <2>1, <2>2, SameBits
<1>7. QED BY <1>3, <1>4, <1>5, <1>6 DEF Smeared

LEMMA Power ==
  ASSUME NEW h \in 0..15
  PROVE  2^h \in Nat \ {0} /\ 2^(h + 1) \in Nat \ {0} /\ 2^(h + 1) = 2 * 2^h
<1>1. CASE h = 0 BY <1>1
<1>2. CASE h = 1 BY <1>2
<1>3. CASE h = 2 BY <1>3
<1>4. CASE h = 3 BY <1>4
<1>5. CASE h = 4 BY <1>5
<1>6. CASE h = 5 BY <1>6
<1>7. CASE h = 6 BY <1>7
<1>8. CASE h = 7 BY <1>8
<1>9. CASE h = 8 BY <1>9
<1>10. CASE h = 9 BY <1>10
<1>11. CASE h = 10 BY <1>11
<1>12. CASE h = 11 BY <1>12
<1>13. CASE h = 12 BY <1>13
<1>14. CASE h = 13 BY <1>14
<1>15. CASE h = 14 BY <1>15
<1>16. CASE h = 15 BY <1>16
<1>17. QED BY <1>1, <1>2, <1>3, <1>4, <1>5, <1>6, <1>7, <1>8, <1>9, <1>10, <1>11, <1>12, <1>13, <1>14, <1>15, <1>16

(* A bit that is one is worth no more than the word.                            *)
LEMMA BitBelow == ASSUME NEW x \in Nat, NEW h \in 0..15, h \in Bits(x) PROVE 2^h <= x
<1>0. (x \div 2^h) % 2 = 1 BY DEF Bits
<1>1. CASE h = 0 BY <1>0, <1>1
<1>2. CASE h = 1 BY <1>0, <1>2
<1>3. CASE h = 2 BY <1>0, <1>3
<1>4. CASE h = 3 BY <1>0, <1>4
<1>5. CASE h = 4 BY <1>0, <1>5
<1>6. CASE h = 5 BY <1>0, <1>6
<1>7. CASE h = 6 BY <1>0, <1>7
<1>8. CASE h = 7 BY <1>0, <1>8
<1>9. CASE h = 8 BY <1>0, <1>9
<1>10. CASE h = 9 BY <1>0, <1>10
<1>11. CASE h = 10 BY <1>0, <1>11
<1>12. CASE h = 11 BY <1>0, <1>12
<1>13. CASE h = 12 BY <1>0, <1>13
<1>14. CASE h = 13 BY <1>0, <1>14
<1>15. CASE h = 14 BY <1>0, <1>15
<1>16. CASE h = 15 BY <1>0, <1>16
<1>17. QED BY <1>1, <1>2, <1>3, <1>4, <1>5, <1>6, <1>7, <1>8, <1>9, <1>10, <1>11, <1>12, <1>13, <1>14, <1>15, <1>16

LEMMA RoundsUp == ASSUME NEW x \in Word PROVE \E k \in 1..16 : RoundUp(x) = 2^k
<1>1. CASE x <= 2
  <2>1. 2 = 2^1 OBVIOUS
  <2>2. QED BY <1>1, <2>1 DEF RoundUp
<1>2. CASE ~(x <= 2)
  <2>1. x - 1 \in Word /\ x - 1 # 0
    <3>1. x \in Nat /\ x < 65536 BY WordIsNat
    <3>2. x - 1 \in Nat /\ x - 1 < 65536 /\ x - 1 # 0 BY <1>2, <3>1
    <3>3. QED BY <3>2, WordHas
  <2>2. PICK h \in 0..15 : Smeared(x - 1) = 2^(h + 1) - 1 BY <2>1, SmearedIsPower
  <2>3. PICK p \in Nat : p = 2^(h + 1) BY Power
  <2>4. RoundUp(x) = p - 1 + 1 BY <1>2, <2>2, <2>3 DEF RoundUp
  <2>5. RoundUp(x) = 2^(h + 1) /\ h + 1 \in 1..16 BY <2>3, <2>4
  <2>6. QED BY <2>5
<1>3. QED BY <1>1, <1>2

LEMMA RoundsDown ==
  ASSUME NEW x \in Word \ {0, 1}
  PROVE  RoundDown(x) <= x /\ \E k \in 1..16 : RoundDown(x) = 2^k
<1>1. x \in Nat /\ x >= 2 BY WordIsNat
<1>2. PICK h \in 0..15 : /\ Smeared(x) = 2^(h + 1) - 1
                          /\ h \in Bits(x) /\ \A i \in Bits(x) : i <= h
  BY <1>1, SmearedIsPower
<1>3. PICK p \in Nat : p = 2^h /\ 2^(h + 1) = 2 * p BY Power
<1>4. RoundDown(x) = ((2 * p - 1) + 1) \div 2 BY <1>1, <1>2, <1>3 DEF RoundDown
<1>5. RoundDown(x) = p BY <1>3, <1>4
<1>6. p <= x BY <1>1, <1>2, <1>3, BitBelow
<1>7. h # 0
  <2>1. SUFFICES ASSUME h = 0 PROVE FALSE OBVIOUS
  <2>2. Bits(x) = 0..0
    <3>1. Bits(x) \subseteq 0..15 BY DEF Bits
    <3>2. QED BY <1>2, <2>1, <3>1
  <2>3. 1 \in Word /\ Bits(1) = 0..0
    <3>1. 2^(0 + 1) - 1 = 1 OBVIOUS
    <3>2. 0 \in 0..15 OBVIOUS
    <3>3. QED BY <3>1, <3>2, AllOnes
  <2>4. x = 1 BY <2>2, <2>3, SameBits
  <2>5. QED BY <1>1, <2>4
<1>8. h \in 1..16 /\ RoundDown(x) = 2^h BY <1>3, <1>5, <1>7
<1>9. QED BY <1>5, <1>6, <1>8

(* Whatever size is asked for.                                                *)
LEMMA CapacityIs ==
  ASSUME NEW n \in Word
  PROVE  /\ Capacity(n) \in Nat /\ Capacity(n) >= 2 /\ Capacity(n) <= RingMax
         /\ \E k \in 1..16 : Capacity(n) = 2^k
<1>1. RingMax \in Word \ {0, 1} /\ n \in Nat BY RingAssumption, WordIsNat
<1>2. RingMax \in Nat /\ RingMax >= 2 BY <1>1, WordIsNat
<1>3. PICK want \in Word : want = IF n = 0 THEN RingMax ELSE AtMost(n, RingMax) BY <1>1 DEF AtMost
<1>4. Capacity(n) = IF RoundUp(want) > RingMax THEN RoundDown(RingMax) ELSE RoundUp(want)
  BY <1>3 DEF Capacity
<1>5. PICK up \in 1..16 : RoundUp(want) = 2^up BY RoundsUp
<1>6. RoundDown(RingMax) <= RingMax /\ \E k \in 1..16 : RoundDown(RingMax) = 2^k BY <1>1, RoundsDown
<1>7. \A k \in 1..16 : 2^k \in Nat /\ 2^k >= 2
  <2>1. SUFFICES ASSUME NEW k \in 1..16 PROVE 2^k \in Nat /\ 2^k >= 2 OBVIOUS
  <2>2. k - 1 \in 0..15 /\ (k - 1) + 1 = k OBVIOUS
  <2>3. 2^(k - 1) \in Nat \ {0} /\ 2^((k - 1) + 1) = 2 * 2^(k - 1) BY <2>2, Power
  <2>4. PICK p \in Nat \ {0} : p = 2^(k - 1) BY <2>3
  <2>5. 2^k = 2 * p BY <2>2, <2>3, <2>4
  <2>6. QED BY <2>5
<1>8. PICK k \in 1..16 : Capacity(n) = 2^k /\ Capacity(n) <= RingMax
  <2>1. CASE RoundUp(want) > RingMax BY <1>4, <1>6, <2>1
  <2>2. CASE ~(RoundUp(want) > RingMax)
    <3>1. PICK c \in Nat : c = RoundUp(want) BY <1>5, <1>7
    <3>2. c <= RingMax BY <1>2, <2>2, <3>1
    <3>3. QED BY <1>4, <1>5, <2>2, <3>1, <3>2
  <2>3. QED BY <2>1, <2>2
<1>9. QED BY <1>7, <1>8

-----------------------------------------------------------------------------
(* ... then the ring: what is written behind its head, taken from its tail, and         *)
(* taken back from its head again.                                                      *)
(* The remainders of the ring arithmetic, without division.                      *)
Gap(n, a, b)  == IF a >= b THEN a - b ELSE a - b + n
Step(n, a, k) == IF a + k < n THEN a + k ELSE a + k - n

LEMMA ModGap ==
  ASSUME NEW n \in Nat \ {0}, NEW a \in 0..(n - 1), NEW b \in 0..(n - 1)
  PROVE  (a - b) % n = Gap(n, a, b)
BY DEF Gap

LEMMA ModStep ==
  ASSUME NEW n \in Nat \ {0}, NEW a \in 0..(n - 1), NEW k \in 0..(n - 1)
  PROVE  (a + k) % n = Step(n, a, k)
BY DEF Step

LEMMA GapOfSteps ==
  ASSUME NEW n \in Nat \ {0}, NEW h \in 0..(n - 1), NEW t \in 0..(n - 1), NEW k \in 0..(n - 1)
  PROVE  /\ Gap(n, h, t) \in 0..(n - 1) /\ Step(n, t, k) \in 0..(n - 1)
         /\ Gap(n, h, t) + k < n => Gap(n, Step(n, h, k), t) = Gap(n, h, t) + k
         /\ k <= Gap(n, h, t) => /\ Gap(n, h, Step(n, t, k)) = Gap(n, h, t) - k
                                 /\ Gap(n, Gap(n, h, k), t) = Gap(n, h, t) - k
         /\ k < Gap(n, h, t) => Gap(n, Step(n, t, k), h) = n + k - Gap(n, h, t)
         /\ k >= Gap(n, h, t) => Gap(n, Step(n, t, k), h) = k - Gap(n, h, t)
BY DEF Gap, Step

LEMMA StepOfStep ==
  ASSUME NEW n \in Nat \ {0}, NEW t \in 0..(n - 1), NEW j \in Nat, NEW k \in Nat, j + k < n
  PROVE  Step(n, Step(n, t, j), k) = Step(n, t, j + k)
BY DEF Step

Sound(buf, h, t) ==
  /\ cap \in Nat \ {0} /\ buf \in [0..(cap - 1) -> Nat]
  /\ h \in 0..(cap - 1) /\ t \in 0..(cap - 1)

LEMMA ContentIs ==
  ASSUME NEW buf, NEW h, NEW t, Sound(buf, h, t)
  PROVE  /\ Content(buf, h, t) \in Seq(Nat) /\ ring_count(h, t) \in 0..(cap - 1)
         /\ ring_count(h, t) = Gap(cap, h, t) /\ Len(Content(buf, h, t)) = ring_count(h, t)
         /\ \A i \in 1..ring_count(h, t) : Content(buf, h, t)[i] = buf[Step(cap, t, i - 1)]
<1>1. PICK n \in Nat \ {0} : n = cap BY DEF Sound
<1>2. h \in 0..(n - 1) /\ t \in 0..(n - 1) /\ buf \in [0..(n - 1) -> Nat] BY <1>1 DEF Sound
<1>3. ring_count(h, t) = Gap(n, h, t) BY <1>1, <1>2, ModGap DEF ring_count
<1>4. PICK g \in 0..(n - 1) : g = ring_count(h, t)
  <2>1. 0 \in 0..(n - 1) OBVIOUS
  <2>2. Gap(n, h, t) \in 0..(n - 1) BY <1>2, <2>1, GapOfSteps
  <2>3. QED BY <1>3, <2>2
<1>5. ASSUME NEW i \in 1..g
      PROVE  buf[(t + i - 1) % n] = buf[Step(n, t, i - 1)] /\ buf[Step(n, t, i - 1)] \in Nat
  <2>1. i - 1 \in 0..(n - 1) /\ t + i - 1 = t + (i - 1) BY <1>2
  <2>2. (t + (i - 1)) % n = Step(n, t, i - 1) BY <1>2, <2>1, ModStep
  <2>3. Step(n, t, i - 1) \in 0..(n - 1) BY <1>2, <2>1, GapOfSteps
  <2>4. QED BY <1>2, <2>1, <2>2, <2>3
<1>6. Content(buf, h, t) = [i \in 1..g |-> buf[(t + i - 1) % n]] BY <1>1, <1>4 DEF Content
<1>7. Content(buf, h, t) = [i \in 1..g |-> buf[Step(n, t, i - 1)]] BY <1>5, <1>6
<1>8. Content(buf, h, t) \in Seq(Nat) /\ Len(Content(buf, h, t)) = g BY <1>4, <1>5, <1>7
<1>9. \A i \in 1..g : Content(buf, h, t)[i] = buf[Step(n, t, i - 1)] BY <1>7
<1>10. QED BY <1>1, <1>3, <1>4, <1>8, <1>9

LEMMA ContentHas ==
  ASSUME NEW buf, NEW h, NEW t, Sound(buf, h, t), NEW n, n = cap, NEW r, r = ring_count(h, t)
  PROVE  /\ Content(buf, h, t) \in Seq(Nat) /\ Len(Content(buf, h, t)) = r
         /\ \A i \in 1..r : Content(buf, h, t)[i] = buf[Step(n, t, i - 1)]
<1>1. Content(buf, h, t) \in Seq(Nat) BY ContentIs
<1>2. Len(Content(buf, h, t)) = ring_count(h, t) BY ContentIs
<1>3. \A i \in 1..ring_count(h, t) : Content(buf, h, t)[i] = buf[Step(cap, t, i - 1)] BY ContentIs
<1>4. QED BY <1>1, <1>2, <1>3

(* d is c and then data.                                                           *)
Together(d, c, data) == d = c \o data

LEMMA JoinedIs ==
  ASSUME NEW c \in Seq(Nat), NEW data \in Seq(Nat), NEW d \in Seq(Nat), NEW g \in Nat, NEW k \in Nat,
         Len(c) = g, Len(data) = k, Len(d) = g + k,
         \A i \in 1..(g + k) : d[i] = IF i <= g THEN c[i] ELSE data[i - g]
  PROVE  Together(d, c, data)
<1> DEFINE Both(x) == /\ Len(x) = Len(c) + Len(data) /\ \A i \in 1..Len(c) : x[i] = c[i]
                      /\ \A i \in 1..Len(data) : x[Len(c) + i] = data[i]
<1>1. PICK e \in Seq(Nat) : e = c \o data /\ Both(e)
  <2>1. c \o data \in Seq(Nat) BY ONLY ConcatEntries, c \in Seq(Nat), data \in Seq(Nat)
  <2>2. Both(c \o data) BY ONLY ConcatEntries, c \in Seq(Nat), data \in Seq(Nat)
  <2> HIDE DEF Both
  <2>3. QED BY <2>1, <2>2
<1>2. /\ Len(e) = g + k /\ \A i \in 1..g : e[i] = c[i]
      /\ \A i \in 1..k : e[g + i] = data[i]
  BY <1>1
<1>3. ASSUME NEW i \in 1..(g + k) PROVE d[i] = e[i]
  <2>1. CASE i <= g BY <1>2, <2>1
  <2>2. CASE ~(i <= g)
    <3>1. i - g \in 1..k /\ g + (i - g) = i BY <2>2
    <3>2. e[i] = data[i - g] BY <1>2, <3>1
    <3>3. QED BY <2>2, <3>2
  <2>3. QED BY <2>1, <2>2
<1>4. d = e BY <1>2, <1>3, EqualQueues
<1>5. QED BY <1>1, <1>4 DEF Together

(* What is written behind the head comes after what is there.                     *)
LEMMA PushIs ==
  ASSUME NEW buf, NEW h, NEW t, Sound(buf, h, t), NEW data \in Seq(Nat), NEW k \in Nat, k = Len(data),
         k <= ring_space(h, t)
  PROVE  /\ Sound(Written(buf, h, data), (h + k) % cap, t)
         /\ Together(Content(Written(buf, h, data), (h + k) % cap, t), Content(buf, h, t), data)
         /\ ring_count((h + k) % cap, t) = ring_count(h, t) + k
<1>1. PICK n \in Nat \ {0} : n = cap BY DEF Sound
<1>2. h \in 0..(n - 1) /\ t \in 0..(n - 1) /\ buf \in [0..(n - 1) -> Nat] BY <1>1 DEF Sound
<1>3. PICK g \in 0..(n - 1) : g = ring_count(h, t) /\ g = Gap(n, h, t) BY <1>1, ContentIs
<1>4. g + k < n /\ k \in 0..(n - 1) BY <1>1, <1>3 DEF ring_space
<1>5. PICK e \in 0..(n - 1) : e = (h + k) % n /\ e = Step(n, h, k)
  <2>1. Step(n, h, k) \in 0..(n - 1) BY <1>2, <1>4, GapOfSteps
  <2>2. QED BY <1>2, <1>4, <2>1, ModStep
<1>6. PICK buf2 : buf2 = Written(buf, h, data) OBVIOUS
<1>7. buf2 \in [0..(n - 1) -> Nat] /\ \A j \in 0..(n - 1) :
        buf2[j] = IF Gap(n, j, h) < k THEN data[Gap(n, j, h) + 1] ELSE buf[j]
  <2>1. buf2 = [j \in 0..(n - 1) |-> IF (j - h) % n < k THEN data[((j - h) % n) + 1] ELSE buf[j]]
    BY <1>1, <1>6 DEF Written
  <2>2. \A j \in 0..(n - 1) : (j - h) % n = Gap(n, j, h) BY <1>2, ModGap
  <2>3. ASSUME NEW j \in 0..(n - 1)
        PROVE  /\ buf2[j] = IF Gap(n, j, h) < k THEN data[Gap(n, j, h) + 1] ELSE buf[j]
               /\ buf2[j] \in Nat
    <3>1. buf2[j] = IF Gap(n, j, h) < k THEN data[Gap(n, j, h) + 1] ELSE buf[j] BY <2>1, <2>2
    <3>2. Gap(n, j, h) \in Nat BY <1>2 DEF Gap
    <3>3. Gap(n, j, h) < k => Gap(n, j, h) + 1 \in 1..Len(data) BY <3>2
    <3>4. QED BY <1>2, <3>1, <3>3
  <2>4. buf2 = [j \in 0..(n - 1) |-> buf2[j]] BY <2>1
  <2>5. QED BY <2>3, <2>4
<1>8. Sound(buf2, e, t) BY <1>1, <1>2, <1>7 DEF Sound
<1>9. ring_count(e, t) = g + k
  <2>1. Gap(n, e, t) = g + k BY <1>2, <1>3, <1>4, <1>5, GapOfSteps
  <2>2. QED BY <1>1, <1>8, <2>1, ContentIs
<1>10. PICK c \in Seq(Nat) : /\ c = Content(buf, h, t) /\ Len(c) = g
                             /\ \A i \in 1..g : c[i] = buf[Step(n, t, i - 1)]
  BY <1>1, <1>3, ContentIs
<1>11. PICK d \in Seq(Nat) : /\ d = Content(buf2, e, t) /\ Len(d) = g + k
                             /\ \A i \in 1..(g + k) : d[i] = buf2[Step(n, t, i - 1)]
  BY <1>1, <1>8, <1>9, ContentIs
<1>12. ASSUME NEW i \in 1..(g + k) PROVE d[i] = IF i <= g THEN c[i] ELSE data[i - g]
  <2>1. PICK m \in 0..(n - 1) : m = i - 1 /\ i = m + 1
    <3>1. i - 1 \in 0..(n - 1) BY <1>4
    <3>2. QED BY <3>1
  <2>2. PICK j \in 0..(n - 1) : j = Step(n, t, m)
    <3>1. Step(n, t, m) \in 0..(n - 1) BY <1>2, GapOfSteps
    <3>2. QED BY <3>1
  <2>3. d[i] = buf2[j] BY <1>11, <2>1, <2>2
  <2>4. CASE i <= g
    <3>1. Gap(n, j, h) = n + m - g
      <4>1. m < Gap(n, h, t) BY <1>3, <2>1, <2>4
      <4>2. Gap(n, Step(n, t, m), h) = n + m - Gap(n, h, t) BY <1>2, <4>1, GapOfSteps
      <4>3. QED BY <1>3, <2>2, <4>2
    <3>2. ~(Gap(n, j, h) < k) BY <1>4, <2>1, <3>1
    <3>3. buf2[j] = buf[j] BY <1>7, <3>2
    <3>4. c[i] = buf[j] BY <1>10, <2>1, <2>2, <2>4
    <3>5. QED BY <2>3, <2>4, <3>3, <3>4
  <2>5. CASE ~(i <= g)
    <3>1. Gap(n, j, h) = m - g
      <4>1. m >= Gap(n, h, t) BY <1>3, <2>1, <2>5
      <4>2. Gap(n, Step(n, t, m), h) = m - Gap(n, h, t) BY <1>2, <4>1, GapOfSteps
      <4>3. QED BY <1>3, <2>2, <4>2
    <3>2. Gap(n, j, h) < k /\ Gap(n, j, h) + 1 = i - g BY <1>4, <2>1, <2>5, <3>1
    <3>3. buf2[j] = data[i - g] BY <1>7, <3>2
    <3>4. QED BY <2>3, <2>5, <3>3
  <2>6. QED BY <2>4, <2>5
<1>13. Together(d, c, data)
  <2>1. g \in Nat /\ Len(c) = g /\ Len(data) = k /\ Len(d) = g + k BY <1>10, <1>11
  <2>2. \A i \in 1..(g + k) : d[i] = IF i <= g THEN c[i] ELSE data[i - g] BY <1>12
  <2>3. c \in Seq(Nat) /\ data \in Seq(Nat) /\ d \in Seq(Nat) BY <1>10, <1>11
  <2>4. QED BY ONLY <2>1, <2>2, <2>3, k \in Nat, JoinedIs
<1>14. Sound(Written(buf, h, data), (h + k) % cap, t) BY <1>1, <1>5, <1>6, <1>8
<1>15. Together(Content(Written(buf, h, data), (h + k) % cap, t), Content(buf, h, t), data)
  BY <1>1, <1>5, <1>6, <1>10, <1>11, <1>13
<1>16. QED BY <1>1, <1>3, <1>5, <1>9, <1>14, <1>15

LEMMA PartEntries ==
  ASSUME NEW c \in Seq(Nat), NEW a \in Nat, NEW b \in Nat, a <= b, b <= Len(c)
  PROVE  /\ SubSeq(c, a + 1, b) \in Seq(Nat) /\ Len(SubSeq(c, a + 1, b)) = b - a
         /\ \A i \in 1..(b - a) : SubSeq(c, a + 1, b)[i] = c[a + i]
<1>1. a + 1 \in 1..(Len(c) + 1) /\ b \in a..Len(c) BY SMT
<1>2. SubSeq(c, a + 1, b) \in Seq(Nat) BY <1>1
<1>3. Len(SubSeq(c, a + 1, b)) = b - a BY <1>1
<1>4. ASSUME NEW i \in 1..(b - a) PROVE SubSeq(c, a + 1, b)[i] = c[a + i]
  BY <1>1
<1>5. QED BY <1>2, <1>3, <1>4

(* A sequence is a part of another if its entries are.                            *)
IsPart(d, c, a, b) == d = SubSeq(c, a + 1, b)

LEMMA PartIs ==
  ASSUME NEW c \in Seq(Nat), NEW a \in Nat, NEW b \in Nat, a <= b, b <= Len(c),
         NEW d \in Seq(Nat), Len(d) = b - a, \A i \in 1..(b - a) : d[i] = c[a + i]
  PROVE  IsPart(d, c, a, b)
<1>1. PICK e \in Seq(Nat) : /\ e = SubSeq(c, a + 1, b) /\ Len(e) = b - a
                            /\ \A i \in 1..(b - a) : e[i] = c[a + i]
  BY PartEntries
<1>2. d = e BY <1>1, EqualQueues
<1>3. QED BY <1>1, <1>2 DEF IsPart

(* All of a sequence, and what its two parts make.                                  *)
LEMMA PartAll ==
  ASSUME NEW c \in Seq(Nat) PROVE IsPart(c, c, 0, Len(c))
<1>1. 0 \in Nat /\ Len(c) \in Nat /\ Len(c) - 0 = Len(c) OBVIOUS
<1>2. \A i \in 1..Len(c) : c[i] = c[0 + i] OBVIOUS
<1>3. QED BY <1>1, <1>2, PartIs

LEMMA PartsJoin ==
  ASSUME NEW c \in Seq(Nat), NEW n \in Nat, n <= Len(c), NEW d \in Seq(Nat), NEW e \in Seq(Nat),
         IsPart(d, c, 0, n), IsPart(e, c, n, Len(c))
  PROVE  Together(c, d, e)
<1>1. Len(d) = n /\ \A i \in 1..n : d[i] = c[i]
  <2>1. 0 \in Nat /\ 0 <= n /\ n - 0 = n OBVIOUS
  <2>2. \A i \in 1..n : 0 + i = i OBVIOUS
  <2>3. d = SubSeq(c, 0 + 1, n) BY DEF IsPart
  <2>4. Len(d) = n BY <2>1, <2>3, PartEntries
  <2>5. \A i \in 1..(n - 0) : d[i] = c[0 + i] BY <2>1, <2>3, PartEntries
  <2>6. QED BY <2>1, <2>2, <2>4, <2>5
<1>2. Len(e) = Len(c) - n /\ \A i \in 1..(Len(c) - n) : e[i] = c[n + i]
  BY PartEntries DEF IsPart
<1>3. PICK k \in Nat : k = Len(c) - n /\ Len(c) = n + k
  <2>1. Len(c) - n \in Nat /\ Len(c) = n + (Len(c) - n) OBVIOUS
  <2>2. QED BY <2>1
<1>4. ASSUME NEW i \in 1..(n + k) PROVE c[i] = IF i <= n THEN d[i] ELSE e[i - n]
  <2>1. CASE i <= n BY <1>1, <2>1
  <2>2. CASE ~(i <= n)
    <3>1. i - n \in 1..k /\ n + (i - n) = i BY <2>2
    <3>2. QED BY <1>2, <1>3, <2>2, <3>1
  <2>3. QED BY <2>1, <2>2
<1>5. QED BY <1>1, <1>2, <1>3, <1>4, JoinedIs

LEMMA BothParts ==
  ASSUME NEW c \in Seq(Nat), NEW n \in Nat, n <= Len(c)
  PROVE  /\ SubSeq(c, 1, n) \in Seq(Nat) /\ SubSeq(c, n + 1, Len(c)) \in Seq(Nat)
         /\ Together(c, SubSeq(c, 1, n), SubSeq(c, n + 1, Len(c)))
<1>1. Len(c) \in Nat /\ 0 \in Nat /\ 0 <= n /\ 0 + 1 = 1 OBVIOUS
<1>2. PICK d, e : d = SubSeq(c, 1, n) /\ e = SubSeq(c, n + 1, Len(c)) OBVIOUS
<1>3. d \in Seq(Nat) /\ e \in Seq(Nat) BY <1>1, <1>2, PartEntries
<1>4. IsPart(d, c, 0, n) /\ IsPart(e, c, n, Len(c)) BY <1>1, <1>2 DEF IsPart
<1>5. QED BY <1>2, <1>3, <1>4, PartsJoin

(* What is left after the first k bytes have been taken from the tail ...            *)
LEMMA PopIs ==
  ASSUME NEW buf, NEW h, NEW t, Sound(buf, h, t), NEW k \in Nat, k <= ring_count(h, t)
  PROVE  /\ Sound(buf, h, (t + k) % cap)
         /\ IsPart(Content(buf, h, (t + k) % cap), Content(buf, h, t), k, ring_count(h, t))
         /\ ring_count(h, (t + k) % cap) = ring_count(h, t) - k
<1>1. PICK n \in Nat \ {0} : n = cap BY DEF Sound
<1>2. h \in 0..(n - 1) /\ t \in 0..(n - 1) /\ buf \in [0..(n - 1) -> Nat] BY <1>1 DEF Sound
<1>3. PICK g \in 0..(n - 1) : g = ring_count(h, t) /\ g = Gap(n, h, t) BY <1>1, ContentIs
<1>4. k <= g /\ k \in 0..(n - 1) BY <1>3
<1>5. PICK e \in 0..(n - 1) : e = (t + k) % n /\ e = Step(n, t, k)
  <2>1. Step(n, t, k) \in 0..(n - 1) BY <1>2, <1>4, GapOfSteps
  <2>2. QED BY <1>2, <1>4, <2>1, ModStep
<1>6. Sound(buf, h, e) BY <1>1, <1>2 DEF Sound
<1>7. ring_count(h, e) = g - k
  <2>1. Gap(n, h, e) = g - k BY <1>2, <1>3, <1>4, <1>5, GapOfSteps
  <2>2. QED BY <1>1, <1>6, <2>1, ContentIs
<1>8. PICK c \in Seq(Nat) : /\ c = Content(buf, h, t) /\ Len(c) = g
                            /\ \A i \in 1..g : c[i] = buf[Step(n, t, i - 1)]
  BY ONLY <1>1, <1>3, Sound(buf, h, t), ContentIs
<1>9. PICK d \in Seq(Nat) : /\ d = Content(buf, h, e) /\ Len(d) = g - k
                            /\ \A i \in 1..(g - k) : d[i] = buf[Step(n, e, i - 1)]
  <2>1. PICK r \in Nat : r = g - k /\ r = ring_count(h, e) BY <1>4, <1>7
  <2>2. /\ Content(buf, h, e) \in Seq(Nat) /\ Len(Content(buf, h, e)) = r
        /\ \A i \in 1..r : Content(buf, h, e)[i] = buf[Step(n, e, i - 1)]
    BY ONLY <1>1, <1>6, <2>1, ContentHas
  <2>3. QED BY <2>1, <2>2
<1>10. ASSUME NEW i \in 1..(g - k) PROVE d[i] = c[k + i]
  <2>1. PICK m \in 0..(n - 1) : m = i - 1 /\ k + m = (k + i) - 1 /\ k + m < n
    <3>1. i - 1 \in 0..(n - 1) /\ k + (i - 1) = (k + i) - 1 /\ k + (i - 1) < n BY <1>3, <1>4
    <3>2. QED BY <3>1
  <2>2. Step(n, e, m) = Step(n, t, k + m) BY <1>2, <1>5, <2>1, StepOfStep
  <2>3. k + i \in 1..g BY <1>4
  <2>4. c[k + i] = buf[Step(n, t, k + m)] BY <1>8, <2>1, <2>3
  <2>5. d[i] = buf[Step(n, e, m)] BY <1>9, <2>1
  <2>6. QED BY <2>2, <2>4, <2>5
<1>11. IsPart(d, c, k, g)
  <2>1. k <= g /\ g <= Len(c) /\ g \in Nat BY <1>4, <1>8
  <2>2. QED BY <1>9, <1>10, <2>1, PartIs
<1>12. QED BY <1>1, <1>3, <1>5, <1>6, <1>7, <1>8, <1>9, <1>11

(* ... and after the last k have been taken back from the head.                      *)
LEMMA CutIs ==
  ASSUME NEW buf, NEW h, NEW t, Sound(buf, h, t), NEW k \in Nat, k <= ring_count(h, t)
  PROVE  /\ Sound(buf, (h - k) % cap, t)
         /\ IsPart(Content(buf, (h - k) % cap, t), Content(buf, h, t), 0, ring_count(h, t) - k)
<1>1. PICK n \in Nat \ {0} : n = cap BY DEF Sound
<1>2. h \in 0..(n - 1) /\ t \in 0..(n - 1) /\ buf \in [0..(n - 1) -> Nat] BY <1>1 DEF Sound
<1>3. PICK g \in 0..(n - 1) : g = ring_count(h, t) /\ g = Gap(n, h, t) BY <1>1, ContentIs
<1>4. k <= g /\ k \in 0..(n - 1) BY <1>3
<1>5. PICK e \in 0..(n - 1) : e = (h - k) % n /\ e = Gap(n, h, k)
  <2>1. Gap(n, h, k) \in 0..(n - 1) BY <1>2, <1>4, GapOfSteps
  <2>2. QED BY <1>2, <1>4, <2>1, ModGap
<1>6. Sound(buf, e, t) BY <1>1, <1>2 DEF Sound
<1>7. ring_count(e, t) = g - k
  <2>1. Gap(n, e, t) = g - k BY <1>2, <1>3, <1>4, <1>5, GapOfSteps
  <2>2. QED BY <1>1, <1>6, <2>1, ContentIs
<1>8. PICK c \in Seq(Nat) : /\ c = Content(buf, h, t) /\ Len(c) = g
                            /\ \A i \in 1..g : c[i] = buf[Step(n, t, i - 1)]
  BY ONLY <1>1, <1>3, Sound(buf, h, t), ContentIs
<1>9. PICK d \in Seq(Nat) : /\ d = Content(buf, e, t) /\ Len(d) = g - k
                            /\ \A i \in 1..(g - k) : d[i] = buf[Step(n, t, i - 1)]
  <2>1. PICK r \in Nat : r = g - k /\ r = ring_count(e, t) BY <1>4, <1>7
  <2>2. /\ Content(buf, e, t) \in Seq(Nat) /\ Len(Content(buf, e, t)) = r
        /\ \A i \in 1..r : Content(buf, e, t)[i] = buf[Step(n, t, i - 1)]
    BY ONLY <1>1, <1>6, <2>1, ContentHas
  <2>3. QED BY <2>1, <2>2
<1>10. IsPart(d, c, 0, g - k)
  <2>1. 0 \in Nat /\ g - k \in Nat /\ 0 <= g - k /\ g - k <= Len(c) /\ (g - k) - 0 = g - k BY <1>4, <1>8
  <2>2. ASSUME NEW i \in 1..(g - k) PROVE d[i] = c[0 + i]
    <3>1. i \in 1..g /\ 0 + i = i BY <1>3, <1>4
    <3>2. QED BY <1>8, <1>9, <3>1
  <2>3. QED BY <1>9, <2>1, <2>2, PartIs
<1>11. QED BY <1>1, <1>3, <1>5, <1>6, <1>8, <1>9, <1>10

(* What the hardware is offered lies in one piece at the tail.                        *)
Contiguous(h, t) == IF h >= t THEN h - t ELSE cap - t

LEMMA FirstIs ==
  ASSUME NEW buf, NEW h, NEW t, Sound(buf, h, t), NEW k \in Nat, k <= Contiguous(h, t)
  PROVE  /\ k <= ring_count(h, t)
         /\ IsPart([i \in 1..k |-> buf[t + i - 1]], Content(buf, h, t), 0, k)
<1>1. PICK n \in Nat \ {0} : n = cap BY DEF Sound
<1>2. h \in 0..(n - 1) /\ t \in 0..(n - 1) /\ buf \in [0..(n - 1) -> Nat] BY <1>1 DEF Sound
<1>3. PICK g \in 0..(n - 1) : g = ring_count(h, t) /\ g = Gap(n, h, t) BY <1>1, ContentIs
<1>4. k <= g /\ k <= n - t BY <1>1, <1>2, <1>3 DEF Contiguous, Gap
<1>5. PICK c \in Seq(Nat) : /\ c = Content(buf, h, t) /\ Len(c) = g
                            /\ \A i \in 1..g : c[i] = buf[Step(n, t, i - 1)]
  BY ONLY <1>1, <1>3, Sound(buf, h, t), ContentIs
<1>6. ASSUME NEW i \in 1..k PROVE buf[t + i - 1] \in Nat /\ buf[t + i - 1] = c[i]
  <2>1. Step(n, t, i - 1) = t + i - 1 BY <1>2, <1>4 DEF Step
  <2>2. t + i - 1 \in 0..(n - 1) BY <1>2, <1>4
  <2>3. i \in 1..g BY <1>4
  <2>4. QED BY <1>2, <1>5, <2>1, <2>2, <2>3
<1>7. PICK d \in Seq(Nat) : /\ d = [i \in 1..k |-> buf[t + i - 1]] /\ Len(d) = k
                            /\ \A i \in 1..k : d[i] = c[i]
  <2>1. [i \in 1..k |-> buf[t + i - 1]] \in [1..k -> Nat] BY ONLY <1>6
  <2>5. [i \in 1..k |-> buf[t + i - 1]] \in Seq(Nat) BY ONLY <2>1, k \in Nat
  <2>2. Len([i \in 1..k |-> buf[t + i - 1]]) = k OBVIOUS
  <2>3. \A j \in 1..k : [i \in 1..k |-> buf[t + i - 1]][j] = c[j] BY <1>6
  <2>4. QED BY <2>5, <2>2, <2>3
<1>8. IsPart(d, c, 0, k)
  <2>1. 0 \in Nat /\ 0 <= k /\ k <= Len(c) /\ k - 0 = k BY <1>4, <1>5
  <2>2. \A i \in 1..k : d[i] = c[0 + i] BY <1>4, <1>5, <1>7
  <2>3. QED BY <1>5, <1>7, <2>1, <2>2, PartIs
<1>9. QED BY <1>3, <1>4, <1>5, <1>7, <1>8

-----------------------------------------------------------------------------
(* The receive ring.                                                                    *)
(* The capacity, which no step changes, and the receive ring.                          *)
RxRingInv ==
  /\ CapacityIsPowerOfTwo
  /\ Sound(rxBuf, rxHead, rxTail)
  /\ arrived \in Seq(Nat) /\ bmReceived \in Seq(Nat)
  /\ ReadInOrder

(* The operators of the rings speak of the capacity, which stays.                      *)
LEMMA CapacityStays ==
  ASSUME cap' = cap
  PROVE  /\ Sound(rxBuf, rxHead, rxTail)' <=> Sound(rxBuf', rxHead', rxTail')
         /\ Sound(txBuf, txHead, txTail)' <=> Sound(txBuf', txHead', txTail')
         /\ Content(rxBuf, rxHead, rxTail)' = Content(rxBuf', rxHead', rxTail')
         /\ Content(txBuf, txHead, txTail)' = Content(txBuf', txHead', txTail')
         /\ ring_count(txHead, txTail)' = ring_count(txHead', txTail')
         /\ Contiguous(txHead, txTail)' = Contiguous(txHead', txTail')
         /\ CapacityIsPowerOfTwo' <=> CapacityIsPowerOfTwo
BY DEF Sound, Content, ring_count, Contiguous, CapacityIsPowerOfTwo

LEMMA CapacityNever == BmNext => cap' = cap /\ ops' = ops
BY DEF BmNext, RxArrives, BmRecv, Main, Isr

(* The bytes of a piece: numbers.                                                      *)
LEMMA PieceIs ==
  ASSUME NEW m \in Nat, NEW k \in Nat
  PROVE  [i \in 1..k |-> m + i] \in Seq(Nat) /\ Len([i \in 1..k |-> m + i]) = k
<1>1. [i \in 1..k |-> m + i] \in [1..k -> Nat] OBVIOUS
<1>2. [i \in 1..k |-> m + i] \in Seq(Nat) BY <1>1
<1>3. Len([i \in 1..k |-> m + i]) = k OBVIOUS
<1>4. QED BY <1>2, <1>3

(* What has gone, what is there, and what comes: however they are grouped.             *)
LEMMA MoreComes ==
  ASSUME NEW a \in Seq(Nat), NEW w \in Seq(Nat), NEW c \in Seq(Nat), NEW d \in Seq(Nat),
         Together(a, w, c)
  PROVE  Together(a \o d, w, c \o d)
<1>1. (w \o c) \o d = w \o (c \o d) BY AnyGrouping DEF Joins
<1>2. QED BY <1>1 DEF Together

LEMMA MoreGone ==
  ASSUME NEW a \in Seq(Nat), NEW w \in Seq(Nat), NEW c \in Seq(Nat), NEW d \in Seq(Nat), NEW e \in Seq(Nat),
         Together(a, w, c), Together(c, d, e)
  PROVE  Together(a, w \o d, e)
<1>1. (w \o d) \o e = w \o (d \o e) BY AnyGrouping DEF Joins
<1>2. QED BY <1>1 DEF Together

LEMMA RxArrivesKeeps == RxRingInv /\ RxArrives => RxRingInv'
<1> SUFFICES ASSUME RxRingInv, RxArrives PROVE RxRingInv'
  OBVIOUS
<1>1. cap' = cap BY DEF RxArrives
<1>2. PICK n \in Arrivals : rx_ring_write(n) BY DEF RxArrives
<1>3. n \in Nat BY RingAssumption
<1>4. PICK b, h, t, a, w, c : /\ b = rxBuf /\ h = rxHead /\ t = rxTail /\ a = arrived /\ w = bmReceived
                              /\ c = Content(rxBuf, rxHead, rxTail)
  OBVIOUS
<1>5. /\ Sound(b, h, t) /\ a \in Seq(Nat) /\ w \in Seq(Nat) /\ c \in Seq(Nat) /\ Together(a, w, c)
      /\ c = Content(b, h, t)
  BY <1>4, ContentIs DEF RxRingInv, ReadInOrder, Together
<1>6. PICK k \in Nat : k = AtMost(n, ring_space(h, t)) /\ k <= ring_space(h, t)
  <2>1. cap \in Nat \ {0} BY <1>5 DEF Sound
  <2>2. ring_count(h, t) \in 0..(cap - 1) BY <1>5, ContentIs
  <2>3. ring_space(h, t) \in Nat BY <2>1, <2>2 DEF ring_space
  <2>4. AtMost(n, ring_space(h, t)) \in Nat /\ AtMost(n, ring_space(h, t)) <= ring_space(h, t)
    BY <1>3, <2>3 DEF AtMost
  <2>5. QED BY <2>4
<1>7. PICK d \in Seq(Nat) : d = [i \in 1..k |-> Len(a) + i] /\ Len(d) = k
  <2>1. PICK m \in Nat : m = Len(a) BY <1>5
  <2>2. QED BY <2>1, PieceIs
<1>8. /\ rxBuf' = Written(b, h, d) /\ rxHead' = (h + k) % cap /\ arrived' = a \o d
      /\ rxTail' = t /\ bmReceived' = w
  BY <1>2, <1>4, <1>6, <1>7 DEF rx_ring_write
<1>9. /\ Sound(Written(b, h, d), (h + k) % cap, t)
      /\ Content(Written(b, h, d), (h + k) % cap, t) = c \o d
  <2>1. Sound(Written(b, h, d), (h + k) % cap, t) BY ONLY <1>5, <1>6, <1>7, PushIs
  <2>2. Together(Content(Written(b, h, d), (h + k) % cap, t), Content(b, h, t), d)
    BY ONLY <1>5, <1>6, <1>7, PushIs
  <2>3. QED BY <1>5, <2>1, <2>2 DEF Together
<1>10. Sound(rxBuf, rxHead, rxTail)' BY <1>1, <1>8, <1>9, CapacityStays
<1>11. arrived' \in Seq(Nat) /\ bmReceived' \in Seq(Nat) BY <1>5, <1>8
<1>12. ReadInOrder'
  <2>1. Together(a \o d, w, c \o d) BY <1>5, MoreComes
  <2>2. Content(rxBuf, rxHead, rxTail)' = c \o d BY <1>1, <1>8, <1>9, CapacityStays
  <2>3. QED BY <1>8, <2>1, <2>2 DEF ReadInOrder, Together
<1>13. QED BY <1>1, <1>10, <1>11, <1>12, CapacityStays DEF RxRingInv

LEMMA BmRecvKeeps == RxRingInv /\ BmRecv => RxRingInv'
<1> SUFFICES ASSUME RxRingInv, BmRecv PROVE RxRingInv'
  OBVIOUS
<1>1. cap' = cap BY DEF BmRecv
<1>2. PICK len \in ReadLens : rx_ring_read(len) BY DEF BmRecv
<1>3. len \in Nat BY RingAssumption
<1>4. PICK b, h, t, a, w, c : /\ b = rxBuf /\ h = rxHead /\ t = rxTail /\ a = arrived /\ w = bmReceived
                              /\ c = Content(rxBuf, rxHead, rxTail)
  OBVIOUS
<1>5. /\ Sound(b, h, t) /\ a \in Seq(Nat) /\ w \in Seq(Nat) /\ Together(a, w, c)
      /\ c = Content(b, h, t)
  BY <1>4 DEF RxRingInv, ReadInOrder, Together
<1>6. PICK g \in Nat : g = ring_count(h, t) /\ c \in Seq(Nat) /\ Len(c) = g
  <2>1. ring_count(h, t) \in 0..(cap - 1) /\ cap \in Nat \ {0} BY <1>5, ContentIs DEF Sound
  <2>2. QED BY <1>5, <2>1, ContentIs
<1>7. PICK n \in Nat : n = AtMost(len, g) /\ n <= g BY <1>3 DEF AtMost
<1>8. PICK d, e : d = SubSeq(c, 1, n) /\ e = SubSeq(c, n + 1, g) OBVIOUS
<1>9. d \in Seq(Nat) /\ e \in Seq(Nat) /\ Together(c, d, e) BY <1>6, <1>7, <1>8, BothParts
<1>10. /\ rxBuf' = b /\ rxHead' = h /\ arrived' = a
       /\ rxTail' = (t + n) % cap /\ bmReceived' = w \o d
  BY <1>2, <1>4, <1>6, <1>7, <1>8 DEF rx_ring_read
<1>11. Sound(b, h, (t + n) % cap) /\ Content(b, h, (t + n) % cap) = e
  <2>1. n <= ring_count(h, t) BY <1>6, <1>7
  <2>2. Sound(b, h, (t + n) % cap) /\ IsPart(Content(b, h, (t + n) % cap), c, n, g)
    BY ONLY <1>5, <1>6, <1>7, <2>1, PopIs
  <2>3. QED BY <1>8, <2>2 DEF IsPart
<1>12. Sound(rxBuf, rxHead, rxTail)' BY <1>1, <1>10, <1>11, CapacityStays
<1>13. arrived' \in Seq(Nat) /\ bmReceived' \in Seq(Nat) BY <1>5, <1>9, <1>10
<1>14. ReadInOrder'
  <2>1. Together(a, w \o d, e) BY <1>5, <1>6, <1>9, MoreGone
  <2>2. Content(rxBuf, rxHead, rxTail)' = e BY <1>1, <1>10, <1>11, CapacityStays
  <2>3. QED BY <1>10, <2>1, <2>2 DEF ReadInOrder, Together
<1>15. QED BY <1>1, <1>12, <1>13, <1>14, CapacityStays DEF RxRingInv

-----------------------------------------------------------------------------
Contexts == {"main", "isr"}
Places   == {"idle", "rollback", "look", "write", "advance"}

(* TakenInOrder, of the place and the count of the main loop's drain.                     *)
Taken(place, n, q, w, c) ==
  q = w \o SubSeq(c, (IF place = "advance" THEN n ELSE 0) + 1,
                     Len(c) - (IF place = "rollback" THEN n ELSE 0))

LEMMA TakenCases ==
  ASSUME NEW place, NEW n \in Nat, NEW q \in Seq(Nat), NEW w \in Seq(Nat), NEW c \in Seq(Nat)
  PROVE  /\ place # "advance" /\ place # "rollback" => (Taken(place, n, q, w, c) <=> Together(q, w, c))
         /\ place = "advance" =>
              (Taken(place, n, q, w, c) <=> Together(q, w, SubSeq(c, n + 1, Len(c))))
         /\ place = "rollback" =>
              (Taken(place, n, q, w, c) <=> Together(q, w, SubSeq(c, 1, Len(c) - n)))
<1>1. PICK g \in Nat : g = Len(c) OBVIOUS
<1>2. g - 0 = g /\ 0 + 1 = 1 BY <1>1
<1>3. CASE place # "advance" /\ place # "rollback"
  <2>1. IsPart(c, c, 0, g) BY <1>1, PartAll
  <2>2. SubSeq(c, 1, g) = c BY <1>2, <2>1 DEF IsPart
  <2>3. Taken(place, n, q, w, c) <=> q = w \o SubSeq(c, 1, g) BY <1>1, <1>2, <1>3 DEF Taken
  <2>4. QED BY <1>3, <2>2, <2>3 DEF Together
<1>4. CASE place = "advance"
  <2>1. Taken(place, n, q, w, c) <=> q = w \o SubSeq(c, n + 1, g) BY <1>1, <1>2, <1>4 DEF Taken
  <2>2. QED BY <1>1, <1>4, <2>1 DEF Together
<1>5. CASE place = "rollback"
  <2>1. Taken(place, n, q, w, c) <=> q = w \o SubSeq(c, 1, g - n) BY <1>1, <1>2, <1>5 DEF Taken
  <2>2. QED BY <1>1, <1>5, <2>1 DEF Together
<1>6. QED BY <1>3, <1>4, <1>5

(* Taking the last piece away leaves what was before it.                                  *)
LEMMA CutLast ==
  ASSUME NEW c \in Seq(Nat), NEW d \in Seq(Nat), NEW e \in Seq(Nat), Together(e, c, d),
         NEW k \in Nat, k = Len(d)
  PROVE  SubSeq(e, 1, Len(e) - k) = c
<1>1. PICK g \in Nat : g = Len(c) OBVIOUS
<1>2. Len(e) = g + k /\ \A i \in 1..g : e[i] = c[i]
  <2>1. Len(c \o d) = Len(c) + Len(d) /\ \A i \in 1..Len(c) : (c \o d)[i] = c[i] BY ConcatEntries
  <2>2. QED BY <1>1, <2>1 DEF Together
<1>3. 0 \in Nat /\ 0 <= g /\ g <= Len(e) /\ g - 0 = g /\ 0 + 1 = 1 /\ Len(e) - k = g BY <1>2
<1>4. \A i \in 1..g : c[i] = e[0 + i] BY <1>2
<1>5. IsPart(c, e, 0, g) BY <1>1, <1>3, <1>4, PartIs
<1>6. QED BY <1>3, <1>5 DEF IsPart

-----------------------------------------------------------------------------
(* The transmit ring, while one context drains it: the interrupt does only as long as   *)
(* nothing is drained at all.                                                               *)
TxPlaces ==
  /\ ops \in BOOLEAN /\ at \in [Contexts -> Places]
  /\ seen \in [Contexts -> Nat] /\ first \in [Contexts -> Nat]
  /\ wrote \in [Contexts -> 0..(cap - 1)]
  /\ ops => ~TxIsr
  /\ at["isr"] = "idle" \/ (at["isr"] = "look" /\ ~ops)

TxRing ==
  /\ Sound(txBuf, txHead, txTail)
  /\ bmQueued \in Seq(Nat) /\ bmWire \in Seq(Nat)
  /\ at["main"] \in {"rollback", "advance"} => wrote["main"] <= ring_count(txHead, txTail)
  /\ at["main"] = "write" => /\ seen["main"] = txTail
                             /\ first["main"] = Contiguous(txHead, txTail)
  /\ Taken(at["main"], wrote["main"], bmQueued, bmWire, Content(txBuf, txHead, txTail))

TxRingInv == TxPlaces /\ TxRing

LEMMA ContextsAre == "main" \in Contexts /\ "isr" \in Contexts /\ \A c \in Contexts : c = "main" \/ c = "isr"
BY DEF Contexts

LEMMA PlacesAre ==
  {"idle", "rollback", "look", "write", "advance"} = Places
BY DEF Places

LEMMA GotoIs ==
  ASSUME NEW c \in Contexts, NEW where \in Places, at \in [Contexts -> Places], Goto(c, where)
  PROVE  /\ at' \in [Contexts -> Places] /\ at'[c] = where
         /\ \A d \in Contexts : d # c => at'[d] = at[d]
BY DEF Goto

(* Whatever leaves the ring and the main loop's place alone.                               *)
LEMMA RingRests ==
  ASSUME TxRing, cap' = cap,
         UNCHANGED <<txBuf, txHead, txTail, wrote, bmQueued, bmWire>>,
         at'["main"] = at["main"], seen'["main"] = seen["main"], first'["main"] = first["main"]
  PROVE  TxRing'
BY CapacityStays DEF TxRing

(* From one place of the main loop to another, without a byte.                            *)
LEMMA RingWaits ==
  ASSUME TxRingInv, cap' = cap,
         UNCHANGED <<txBuf, txHead, txTail, wrote, bmQueued, bmWire>>,
         at["main"] \in {"idle", "look", "write"}, at'["main"] \in {"idle", "look"}
  PROVE  TxRing'
<1>1. /\ Sound(txBuf, txHead, txTail)' /\ bmQueued' \in Seq(Nat) /\ bmWire' \in Seq(Nat)
  BY CapacityStays DEF TxRing, TxRingInv
<1>2. PICK c, n : c = Content(txBuf, txHead, txTail) /\ n = wrote["main"] OBVIOUS
<1>3. c \in Seq(Nat) /\ n \in Nat BY <1>2, ContentIs, ContextsAre DEF TxRing, TxRingInv, TxPlaces
<1>4. PICK p, p2 : p = at["main"] /\ p2 = at'["main"] OBVIOUS
<1>5. Taken(p, n, bmQueued, bmWire, c) BY <1>2, <1>4 DEF TxRing, TxRingInv
<1>6. Together(bmQueued, bmWire, c)
  BY <1>3, <1>4, <1>5, TakenCases DEF TxRing, TxRingInv
<1>7. Taken(p2, n, bmQueued, bmWire, c)
  BY <1>3, <1>4, <1>6, TakenCases DEF TxRing, TxRingInv
<1>8. Taken(at["main"], wrote["main"], bmQueued, bmWire, Content(txBuf, txHead, txTail))'
  BY <1>2, <1>4, <1>7, CapacityStays
<1>9. QED BY <1>1, <1>4, <1>8 DEF TxRing

LEMMA SendWriteKeeps == TxRingInv /\ cap' = cap /\ ops' = ops /\ SendWrite => TxRingInv'
<1> SUFFICES ASSUME TxRingInv, cap' = cap, ops' = ops, SendWrite PROVE TxRingInv'
  OBVIOUS
<1>1. PICK b, h, t, q, w, c : /\ b = txBuf /\ h = txHead /\ t = txTail /\ q = bmQueued /\ w = bmWire
                              /\ c = Content(txBuf, txHead, txTail)
  OBVIOUS
<1>2. Sound(b, h, t) /\ q \in Seq(Nat) /\ w \in Seq(Nat) /\ c = Content(b, h, t)
  BY <1>1 DEF TxRing, TxRingInv
<1>3. PICK g \in Nat : g = ring_count(h, t) /\ c \in Seq(Nat) /\ Len(c) = g /\ g <= cap - 1
  <2>1. ring_count(h, t) \in 0..(cap - 1) /\ cap \in Nat \ {0} BY <1>2, ContentIs DEF Sound
  <2>2. QED BY <1>2, <2>1, ContentIs
<1>4. Together(q, w, c)
  <2>1. PICK n : n = wrote["main"] /\ n \in Nat
    <3>1. wrote["main"] \in Nat BY <1>2, ContextsAre DEF Sound, TxPlaces, TxRingInv
    <3>2. QED BY <3>1
  <2>2. PICK p : p = at["main"] /\ p # "advance" /\ p # "rollback" BY DEF SendWrite
  <2>3. Taken(p, n, q, w, c) BY <1>1, <2>1, <2>2 DEF TxRing, TxRingInv
  <2>4. QED BY <1>2, <1>3, <2>1, <2>2, <2>3, TakenCases
<1>5. PICK n \in BmFrameLens :
        LET took == AtMost(n, ring_space(txHead, txTail))
            data == [i \in 1..took |-> Len(bmQueued) + i]
        IN /\ txBuf'  = Written(txBuf, txHead, data)
           /\ txHead' = (txHead + took) % cap
           /\ IF took < n
                THEN /\ Goto("main", "rollback")
                     /\ wrote' = [wrote EXCEPT !["main"] = took] /\ UNCHANGED bmQueued
                ELSE /\ Goto("main", "look")
                     /\ bmQueued' = bmQueued \o data /\ UNCHANGED wrote
  BY DEF SendWrite
<1>6. n \in Nat BY RingAssumption
<1>7. PICK k \in Nat : k = AtMost(n, ring_space(h, t)) /\ k <= ring_space(h, t) /\ k \in 0..(cap - 1)
  <2>1. cap \in Nat \ {0} BY <1>2 DEF Sound
  <2>2. ring_space(h, t) \in 0..(cap - 1) BY <1>3, <2>1 DEF ring_space
  <2>3. /\ AtMost(n, ring_space(h, t)) \in 0..(cap - 1)
        /\ AtMost(n, ring_space(h, t)) <= ring_space(h, t)
    BY <1>6, <2>1, <2>2 DEF AtMost
  <2>4. QED BY <2>1, <2>3
<1>8. PICK d \in Seq(Nat) : d = [i \in 1..k |-> Len(q) + i] /\ Len(d) = k
  <2>1. PICK m \in Nat : m = Len(q) BY <1>2
  <2>2. QED BY <2>1, PieceIs
<1>9. /\ txBuf' = Written(b, h, d) /\ txHead' = (h + k) % cap
      /\ IF k < n
           THEN /\ Goto("main", "rollback")
                /\ wrote' = [wrote EXCEPT !["main"] = k] /\ bmQueued' = q
           ELSE Goto("main", "look") /\ bmQueued' = q \o d /\ wrote' = wrote
  BY <1>1, <1>5, <1>7, <1>8
<1>10. txTail' = t /\ seen' = seen /\ first' = first /\ bmWire' = w BY <1>1 DEF SendWrite
<1>11. PICK e : e = Content(Written(b, h, d), (h + k) % cap, t) OBVIOUS
<1>12. /\ Sound(Written(b, h, d), (h + k) % cap, t) /\ e \in Seq(Nat) /\ Together(e, c, d)
       /\ ring_count((h + k) % cap, t) = g + k
  <2>1. Sound(Written(b, h, d), (h + k) % cap, t) BY ONLY <1>2, <1>7, <1>8, PushIs
  <2>2. Together(e, c, d) BY ONLY <1>2, <1>7, <1>8, <1>11, PushIs
  <2>3. ring_count((h + k) % cap, t) = g + k BY ONLY <1>2, <1>3, <1>7, <1>8, PushIs
  <2>4. e \in Seq(Nat) BY ONLY <1>11, <2>1, ContentIs
  <2>5. QED BY <2>1, <2>2, <2>3, <2>4
<1>13. /\ Sound(txBuf, txHead, txTail)' /\ Content(txBuf, txHead, txTail)' = e
       /\ ring_count(txHead, txTail)' = g + k
  BY <1>9, <1>10, <1>11, <1>12, CapacityStays
<1>14. "rollback" \in Places /\ "look" \in Places BY PlacesAre
<1>15. CASE k < n
  <2>1. at' \in [Contexts -> Places] /\ at'["main"] = "rollback" /\ at'["isr"] = at["isr"]
    <3>1. Goto("main", "rollback") BY <1>9, <1>15
    <3>2. at \in [Contexts -> Places] BY DEF TxPlaces, TxRingInv
    <3>3. "main" # "isr" OBVIOUS
    <3>4. QED BY <1>14, <3>1, <3>2, <3>3, GotoIs, ContextsAre
  <2>2. wrote' \in [Contexts -> 0..(cap - 1)] /\ wrote'["main"] = k
    <3>1. wrote' = [wrote EXCEPT !["main"] = k] /\ wrote \in [Contexts -> 0..(cap - 1)]
      BY <1>9, <1>15 DEF TxPlaces, TxRingInv
    <3>2. QED BY ONLY <1>7, <3>1, ContextsAre
  <2>3. bmQueued' = q BY <1>9, <1>15
  <2>4. TxPlaces' BY <1>10, <2>1, <2>2 DEF TxPlaces, TxRingInv
  <2>5. Taken("rollback", k, q, w, e)
    <3>1. SubSeq(e, 1, Len(e) - k) = c
      <4>1. c \in Seq(Nat) /\ d \in Seq(Nat) /\ e \in Seq(Nat) /\ Together(e, c, d) BY <1>3, <1>12
      <4>2. k \in Nat /\ k = Len(d) BY <1>8
      <4>3. QED BY ONLY <4>1, <4>2, CutLast
    <3>2. Together(q, w, SubSeq(e, 1, Len(e) - k)) BY <1>4, <3>1
    <3>3. QED BY ONLY <1>2, <1>7, <1>12, <3>2, TakenCases
  <2>6. Taken(at["main"], wrote["main"], bmQueued, bmWire, Content(txBuf, txHead, txTail))'
    BY <1>10, <1>13, <2>1, <2>2, <2>3, <2>5
  <2>7. wrote'["main"] <= ring_count(txHead, txTail)' BY <1>13, <2>2
  <2>8. TxRing' BY <1>2, <1>10, <1>13, <2>1, <2>3, <2>6, <2>7 DEF TxRing
  <2>9. QED BY <2>4, <2>8 DEF TxRingInv
<1>16. CASE ~(k < n)
  <2>1. at' \in [Contexts -> Places] /\ at'["main"] = "look" /\ at'["isr"] = at["isr"]
    <3>1. Goto("main", "look") BY <1>9, <1>16
    <3>2. at \in [Contexts -> Places] BY DEF TxPlaces, TxRingInv
    <3>3. "main" # "isr" OBVIOUS
    <3>4. QED BY <1>14, <3>1, <3>2, <3>3, GotoIs, ContextsAre
  <2>2. wrote' = wrote /\ bmQueued' = q \o d /\ q \o d \in Seq(Nat) BY <1>2, <1>9, <1>16
  <2>3. PICK m \in Nat : m = wrote'["main"]
    <3>1. wrote["main"] \in Nat BY <1>2, ContextsAre DEF Sound, TxPlaces, TxRingInv
    <3>2. QED BY <2>2, <3>1
  <2>4. TxPlaces' BY <1>10, <2>1, <2>2 DEF TxPlaces, TxRingInv
  <2>5. Taken("look", m, q \o d, w, e)
    <3>1. Together(q \o d, w, c \o d) BY <1>2, <1>3, <1>4, <1>8, MoreComes
    <3>2. Together(q \o d, w, e) BY <1>12, <3>1 DEF Together
    <3>3. PICK r \in Seq(Nat) : r = q \o d BY <2>2
    <3>4. Taken("look", m, r, w, e) BY <1>2, <1>12, <3>2, <3>3, TakenCases
    <3>5. QED BY <3>3, <3>4
  <2>6. Taken(at["main"], wrote["main"], bmQueued, bmWire, Content(txBuf, txHead, txTail))'
    BY <1>10, <1>13, <2>1, <2>2, <2>3, <2>5
  <2>7. TxRing' BY <1>2, <1>10, <1>13, <2>1, <2>2, <2>6 DEF TxRing
  <2>8. QED BY <2>4, <2>7 DEF TxRingInv
<1>17. QED BY <1>15, <1>16

LEMMA SendRollbackKeeps == TxRingInv /\ cap' = cap /\ ops' = ops /\ SendRollback => TxRingInv'
<1> SUFFICES ASSUME TxRingInv, cap' = cap, ops' = ops, SendRollback PROVE TxRingInv'
  OBVIOUS
<1>1. PICK b, h, t, q, w, c, k : /\ b = txBuf /\ h = txHead /\ t = txTail /\ q = bmQueued /\ w = bmWire
                                 /\ c = Content(txBuf, txHead, txTail) /\ k = wrote["main"]
  OBVIOUS
<1>2. Sound(b, h, t) /\ q \in Seq(Nat) /\ w \in Seq(Nat) /\ c = Content(b, h, t)
  BY <1>1 DEF TxRing, TxRingInv
<1>3. k \in Nat /\ k <= ring_count(h, t) /\ Taken("rollback", k, q, w, c)
  <2>1. k \in Nat BY <1>1, <1>2, ContextsAre DEF Sound, TxPlaces, TxRingInv
  <2>2. at["main"] = "rollback" BY DEF SendRollback
  <2>3. QED BY <1>1, <2>1, <2>2 DEF TxRing, TxRingInv
<1>4. PICK g \in Nat : g = ring_count(h, t) /\ c \in Seq(Nat) /\ Len(c) = g
  <2>1. ring_count(h, t) \in 0..(cap - 1) /\ cap \in Nat \ {0} BY <1>2, ContentIs DEF Sound
  <2>2. QED BY <1>2, <2>1, ContentIs
<1>5. PICK e : e = Content(b, (h - k) % cap, t) OBVIOUS
<1>6. Sound(b, (h - k) % cap, t) /\ e \in Seq(Nat) /\ e = SubSeq(c, 1, g - k)
  <2>1. Sound(b, (h - k) % cap, t) /\ IsPart(e, c, 0, g - k)
    BY ONLY <1>2, <1>3, <1>4, <1>5, CutIs
  <2>2. e \in Seq(Nat) BY ONLY <1>5, <2>1, ContentIs
  <2>3. 0 + 1 = 1 OBVIOUS
  <2>4. QED BY <2>1, <2>2, <2>3 DEF IsPart
<1>7. Together(q, w, e) BY <1>2, <1>3, <1>4, <1>6, TakenCases
<1>8. /\ txBuf' = b /\ txHead' = (h - k) % cap /\ txTail' = t /\ bmQueued' = q /\ bmWire' = w
      /\ seen' = seen /\ first' = first /\ wrote' = wrote
  BY <1>1 DEF SendRollback
<1>9. at' \in [Contexts -> Places] /\ at'["main"] = "idle" /\ at'["isr"] = at["isr"]
  <2>1. Goto("main", "idle") BY DEF SendRollback
  <2>2. at \in [Contexts -> Places] BY DEF TxPlaces, TxRingInv
  <2>3. "main" # "isr" /\ "idle" \in Places BY PlacesAre
  <2>4. QED BY <2>1, <2>2, <2>3, GotoIs, ContextsAre
<1>10. TxPlaces' BY <1>8, <1>9 DEF TxPlaces, TxRingInv
<1>11. Sound(txBuf, txHead, txTail)' /\ Content(txBuf, txHead, txTail)' = e
  BY <1>5, <1>6, <1>8, CapacityStays
<1>12. Taken("idle", k, q, w, e) BY <1>2, <1>3, <1>6, <1>7, TakenCases
<1>13. Taken(at["main"], wrote["main"], bmQueued, bmWire, Content(txBuf, txHead, txTail))'
  BY <1>1, <1>8, <1>9, <1>11, <1>12
<1>14. TxRing' BY <1>2, <1>8, <1>9, <1>11, <1>13 DEF TxRing
<1>15. QED BY <1>10, <1>14 DEF TxRingInv

LEMMA HwTakesKeeps == TxRingInv /\ cap' = cap /\ ops' = ops /\ HwTakes("main") => TxRingInv'
<1> SUFFICES ASSUME TxRingInv, cap' = cap, ops' = ops, HwTakes("main") PROVE TxRingInv'
  OBVIOUS
<1>1. PICK b, h, t, q, w, c, n :
        /\ b = txBuf /\ h = txHead /\ t = txTail /\ q = bmQueued /\ w = bmWire
        /\ c = Content(txBuf, txHead, txTail) /\ n = wrote["main"]
  OBVIOUS
<1>2. /\ Sound(b, h, t) /\ q \in Seq(Nat) /\ w \in Seq(Nat) /\ c = Content(b, h, t)
      /\ at["main"] = "write" /\ seen["main"] = t /\ first["main"] = Contiguous(h, t)
  BY <1>1 DEF TxRing, TxRingInv, HwTakes
<1>3. n \in Nat BY <1>1, <1>2, ContextsAre DEF Sound, TxPlaces, TxRingInv
<1>4. PICK g \in Nat : g = ring_count(h, t) /\ c \in Seq(Nat) /\ Len(c) = g /\ g <= cap - 1
  <2>1. ring_count(h, t) \in 0..(cap - 1) /\ cap \in Nat \ {0} BY <1>2, ContentIs DEF Sound
  <2>2. QED BY <1>2, <2>1, ContentIs
<1>5. Together(q, w, c)
  <2>1. PICK p : p = at["main"] /\ p = "write" BY <1>2
  <2>2. Taken(p, n, q, w, c) BY <1>1, <2>1 DEF TxRing, TxRingInv
  <2>3. p # "advance" /\ p # "rollback" BY <2>1
  <2>4. QED BY ONLY <1>2, <1>3, <1>4, <2>2, <2>3, TakenCases
<1>6. Contiguous(h, t) \in Nat BY <1>2 DEF Sound, Contiguous
<1>7. PICK k \in 1..Contiguous(h, t) : /\ wrote' = [wrote EXCEPT !["main"] = k]
                                       /\ bmWire' = w \o [i \in 1..k |-> b[t + i - 1]]
  BY <1>1, <1>2 DEF HwTakes
<1>8. k \in Nat /\ k <= Contiguous(h, t) BY <1>6
<1>9. PICK d : d = [i \in 1..k |-> b[t + i - 1]] OBVIOUS
<1>10. k <= g /\ d = SubSeq(c, 1, k)
  <2>1. k <= ring_count(h, t) /\ IsPart([i \in 1..k |-> b[t + i - 1]], Content(b, h, t), 0, k)
    BY ONLY <1>2, <1>8, FirstIs
  <2>2. 0 + 1 = 1 OBVIOUS
  <2>3. QED BY <1>2, <1>4, <1>9, <2>1, <2>2 DEF IsPart
<1>11. PICK e : e = SubSeq(c, k + 1, Len(c)) OBVIOUS
<1>12. d \in Seq(Nat) /\ e \in Seq(Nat) /\ Together(c, d, e)
  <2>1. c \in Seq(Nat) /\ k <= Len(c) BY <1>4, <1>10
  <2>2. QED BY ONLY <1>8, <1>10, <1>11, <2>1, BothParts
<1>13. PICK w2 \in Seq(Nat) : w2 = w \o d /\ Together(q, w2, e)
  <2>1. Together(q, w \o d, e) BY ONLY <1>2, <1>4, <1>5, <1>12, MoreGone
  <2>2. w \o d \in Seq(Nat) BY <1>2, <1>12
  <2>3. QED BY <2>1, <2>2
<1>14. Taken("advance", k, q, w2, c)
  <2>1. Together(q, w2, SubSeq(c, k + 1, Len(c))) BY <1>11, <1>13
  <2>2. QED BY ONLY <1>2, <1>4, <1>8, <1>13, <2>1, TakenCases
<1>15. wrote' \in [Contexts -> 0..(cap - 1)] /\ wrote'["main"] = k
  <2>1. cap \in Nat \ {0} BY <1>2 DEF Sound
  <2>2. k \in 0..(cap - 1) BY <1>4, <1>8, <1>10, <2>1
  <2>3. wrote' = [wrote EXCEPT !["main"] = k] /\ wrote \in [Contexts -> 0..(cap - 1)]
    BY <1>7 DEF TxPlaces, TxRingInv
  <2>4. QED BY ONLY <2>2, <2>3, ContextsAre
<1>16. at' \in [Contexts -> Places] /\ at'["main"] = "advance" /\ at'["isr"] = at["isr"]
  <2>1. Goto("main", "advance") BY DEF HwTakes
  <2>2. at \in [Contexts -> Places] BY DEF TxPlaces, TxRingInv
  <2>3. "main" # "isr" /\ "advance" \in Places BY PlacesAre
  <2>4. QED BY <2>1, <2>2, <2>3, GotoIs, ContextsAre
<1>17. /\ txBuf' = b /\ txHead' = h /\ txTail' = t /\ bmQueued' = q /\ bmWire' = w2
       /\ seen' = seen /\ first' = first
  BY <1>1, <1>7, <1>9, <1>13 DEF HwTakes
<1>18. TxPlaces' BY <1>15, <1>16, <1>17 DEF TxPlaces, TxRingInv
<1>19. /\ Sound(txBuf, txHead, txTail)' /\ Content(txBuf, txHead, txTail)' = c
       /\ ring_count(txHead, txTail)' = g
  BY <1>2, <1>4, <1>17, CapacityStays
<1>20. Taken(at["main"], wrote["main"], bmQueued, bmWire, Content(txBuf, txHead, txTail))'
  BY <1>14, <1>15, <1>16, <1>17, <1>19
<1>21. wrote'["main"] <= ring_count(txHead, txTail)' BY <1>10, <1>15, <1>19
<1>22. TxRing' BY <1>2, <1>13, <1>16, <1>17, <1>19, <1>20, <1>21 DEF TxRing
<1>23. QED BY <1>18, <1>22 DEF TxRingInv

LEMMA DrainAdvanceKeeps == TxRingInv /\ cap' = cap /\ ops' = ops /\ DrainAdvance("main") => TxRingInv'
<1> SUFFICES ASSUME TxRingInv, cap' = cap, ops' = ops, DrainAdvance("main") PROVE TxRingInv'
  OBVIOUS
<1>1. PICK b, h, t, q, w, c, k : /\ b = txBuf /\ h = txHead /\ t = txTail /\ q = bmQueued /\ w = bmWire
                                 /\ c = Content(txBuf, txHead, txTail) /\ k = wrote["main"]
  OBVIOUS
<1>2. Sound(b, h, t) /\ q \in Seq(Nat) /\ w \in Seq(Nat) /\ c = Content(b, h, t)
  BY <1>1 DEF TxRing, TxRingInv
<1>3. k \in Nat /\ k <= ring_count(h, t) /\ Taken("advance", k, q, w, c)
  <2>1. k \in Nat BY <1>1, <1>2, ContextsAre DEF Sound, TxPlaces, TxRingInv
  <2>2. at["main"] = "advance" BY DEF DrainAdvance
  <2>3. QED BY <1>1, <2>1, <2>2 DEF TxRing, TxRingInv
<1>4. PICK g \in Nat : g = ring_count(h, t) /\ c \in Seq(Nat) /\ Len(c) = g
  <2>1. ring_count(h, t) \in 0..(cap - 1) /\ cap \in Nat \ {0} BY <1>2, ContentIs DEF Sound
  <2>2. QED BY <1>2, <2>1, ContentIs
<1>5. PICK e : e = Content(b, h, (t + k) % cap) OBVIOUS
<1>6. Sound(b, h, (t + k) % cap) /\ e \in Seq(Nat) /\ e = SubSeq(c, k + 1, g)
  <2>1. Sound(b, h, (t + k) % cap) /\ IsPart(e, c, k, g)
    BY ONLY <1>2, <1>3, <1>4, <1>5, PopIs
  <2>2. e \in Seq(Nat) BY ONLY <1>5, <2>1, ContentIs
  <2>3. QED BY <2>1, <2>2 DEF IsPart
<1>7. Together(q, w, e) BY <1>2, <1>3, <1>4, <1>6, TakenCases
<1>8. /\ txBuf' = b /\ txHead' = h /\ txTail' = (t + k) % cap /\ bmQueued' = q /\ bmWire' = w
      /\ seen' = seen /\ first' = first /\ wrote' = wrote
  BY <1>1 DEF DrainAdvance
<1>9. at' \in [Contexts -> Places] /\ at'["main"] = "look" /\ at'["isr"] = at["isr"]
  <2>1. Goto("main", "look") BY DEF DrainAdvance
  <2>2. at \in [Contexts -> Places] BY DEF TxPlaces, TxRingInv
  <2>3. "main" # "isr" /\ "look" \in Places BY PlacesAre
  <2>4. QED BY <2>1, <2>2, <2>3, GotoIs, ContextsAre
<1>10. TxPlaces' BY <1>8, <1>9 DEF TxPlaces, TxRingInv
<1>11. Sound(txBuf, txHead, txTail)' /\ Content(txBuf, txHead, txTail)' = e
  BY <1>5, <1>6, <1>8, CapacityStays
<1>12. Taken("look", k, q, w, e) BY <1>2, <1>3, <1>6, <1>7, TakenCases
<1>13. Taken(at["main"], wrote["main"], bmQueued, bmWire, Content(txBuf, txHead, txTail))'
  BY <1>1, <1>8, <1>9, <1>11, <1>12
<1>14. TxRing' BY <1>2, <1>8, <1>9, <1>11, <1>13 DEF TxRing
<1>15. QED BY <1>10, <1>14 DEF TxRingInv

LEMMA PlaceMoves ==
  ASSUME TxRingInv, NEW c \in Contexts, NEW where \in Places, Goto(c, where)
  PROVE  /\ at' \in [Contexts -> Places] /\ at'[c] = where
         /\ c = "main" => at'["main"] = where /\ at'["isr"] = at["isr"]
         /\ c = "isr" => at'["isr"] = where /\ at'["main"] = at["main"]
<1>1. at \in [Contexts -> Places] /\ "main" # "isr" BY DEF TxPlaces, TxRingInv
<1>2. QED BY <1>1, GotoIs, ContextsAre

LEMMA PollKeeps == TxRingInv /\ cap' = cap /\ ops' = ops /\ Poll => TxRingInv'
<1> SUFFICES ASSUME TxRingInv, cap' = cap, ops' = ops, Poll PROVE TxRingInv'
  OBVIOUS
<1>1. at' \in [Contexts -> Places] /\ at'["main"] = "look" /\ at'["isr"] = at["isr"]
  <2>1. Goto("main", "look") /\ "look" \in Places BY PlacesAre DEF Poll
  <2>2. QED BY <2>1, PlaceMoves, ContextsAre
<1>2. TxPlaces' BY <1>1 DEF Poll, TxPlaces, TxRingInv
<1>3. TxRing' BY <1>1, RingWaits DEF Poll
<1>4. QED BY <1>2, <1>3 DEF TxRingInv

LEMMA TxReadyIsrKeeps == TxRingInv /\ cap' = cap /\ ops' = ops /\ TxReadyIsr => TxRingInv'
<1> SUFFICES ASSUME TxRingInv, cap' = cap, ops' = ops, TxReadyIsr PROVE TxRingInv'
  OBVIOUS
<1>1. at' \in [Contexts -> Places] /\ at'["isr"] = "look" /\ at'["main"] = at["main"]
  <2>1. Goto("isr", "look") /\ "look" \in Places BY PlacesAre DEF TxReadyIsr
  <2>2. QED BY <2>1, PlaceMoves, ContextsAre
<1>2. ~ops' BY DEF TxReadyIsr, TxPlaces, TxRingInv
<1>3. TxPlaces' BY <1>1, <1>2 DEF TxReadyIsr, TxPlaces, TxRingInv
<1>4. TxRing' BY <1>1, RingRests DEF TxReadyIsr, TxRingInv
<1>5. QED BY <1>3, <1>4 DEF TxRingInv

LEMMA DrainLookKeeps ==
  ASSUME NEW c \in Contexts PROVE TxRingInv /\ cap' = cap /\ ops' = ops /\ DrainLook(c) => TxRingInv'
<1> SUFFICES ASSUME TxRingInv, cap' = cap, ops' = ops, DrainLook(c) PROVE TxRingInv'
  OBVIOUS
<1>1. CASE ops /\ txHead # txTail
  <2>1. c = "main" BY <1>1, ContextsAre DEF DrainLook, TxPlaces, TxRingInv
  <2>2. at' \in [Contexts -> Places] /\ at'["main"] = "write" /\ at'["isr"] = at["isr"]
    <3>1. Goto("main", "write") /\ "write" \in Places BY <1>1, <2>1, PlacesAre DEF DrainLook
    <3>2. QED BY <3>1, PlaceMoves, ContextsAre
  <2>3. PICK r : r = Contiguous(txHead, txTail) /\ r \in Nat
    <3>1. Contiguous(txHead, txTail) \in Nat BY DEF TxRing, TxRingInv, Sound, Contiguous
    <3>2. QED BY <3>1
  <2>4. seen' = [seen EXCEPT !["main"] = txTail] /\ first' = [first EXCEPT !["main"] = r]
    BY <1>1, <2>1, <2>3 DEF DrainLook, Contiguous
  <2>5. txTail \in Nat BY DEF TxRing, TxRingInv, Sound
  <2>6. seen \in [Contexts -> Nat] /\ first \in [Contexts -> Nat] BY DEF TxPlaces, TxRingInv
  <2>7. /\ seen' \in [Contexts -> Nat] /\ seen'["main"] = txTail
        /\ first' \in [Contexts -> Nat] /\ first'["main"] = r
    BY ONLY <2>3, <2>4, <2>5, <2>6, ContextsAre
  <2>8. UNCHANGED <<txBuf, txHead, txTail, wrote, bmFrames, bmQueued, bmWire>> BY DEF DrainLook
  <2>9. TxPlaces' BY <2>2, <2>7, <2>8 DEF TxPlaces, TxRingInv
  <2>10. TxRing'
    <3>1. /\ Sound(txBuf, txHead, txTail)' /\ bmQueued' \in Seq(Nat) /\ bmWire' \in Seq(Nat)
      BY <2>8, CapacityStays DEF TxRing, TxRingInv
    <3>2. seen'["main"] = txTail' /\ first'["main"] = Contiguous(txHead, txTail)'
      BY <2>3, <2>7, <2>8, CapacityStays
    <3>3. PICK n, d : n = wrote["main"] /\ d = Content(txBuf, txHead, txTail) OBVIOUS
    <3>4. n \in Nat /\ d \in Seq(Nat) /\ bmQueued \in Seq(Nat) /\ bmWire \in Seq(Nat)
      BY <3>3, ContentIs, ContextsAre DEF TxRing, TxRingInv, TxPlaces
    <3>5. Taken("look", n, bmQueued, bmWire, d)
      BY <2>1, <3>3 DEF TxRing, TxRingInv, DrainLook
    <3>6. Taken("write", n, bmQueued, bmWire, d)
      <4>1. Together(bmQueued, bmWire, d) BY <3>4, <3>5, TakenCases
      <4>2. QED BY <3>4, <4>1, TakenCases
    <3>7. Taken(at["main"], wrote["main"], bmQueued, bmWire, Content(txBuf, txHead, txTail))'
      BY <2>2, <2>8, <3>3, <3>6, CapacityStays
    <3>8. QED BY <2>2, <3>1, <3>2, <3>7 DEF TxRing
  <2>11. QED BY <2>9, <2>10 DEF TxRingInv
<1>2. CASE ~(ops /\ txHead # txTail)
  <2>1. Goto(c, "idle") /\ "idle" \in Places /\ at[c] = "look" BY <1>2, PlacesAre DEF DrainLook
  <2>2. /\ at' \in [Contexts -> Places]
        /\ c = "main" => at'["main"] = "idle" /\ at'["isr"] = at["isr"]
        /\ c = "isr" => at'["isr"] = "idle" /\ at'["main"] = at["main"]
    BY <2>1, PlaceMoves
  <2>3. UNCHANGED <<txBuf, txHead, txTail, seen, first, wrote, bmFrames, bmQueued, bmWire>>
    BY <1>2 DEF DrainLook
  <2>4. TxPlaces' BY <2>2, <2>3, ContextsAre DEF TxPlaces, TxRingInv
  <2>5. TxRing'
    <3>1. CASE c = "main" BY <2>1, <2>2, <2>3, <3>1, RingWaits
    <3>2. CASE c = "isr" BY <2>2, <2>3, <3>2, RingRests DEF TxRingInv
    <3>3. QED BY <3>1, <3>2, ContextsAre
  <2>6. QED BY <2>4, <2>5 DEF TxRingInv
<1>3. QED BY <1>1, <1>2

LEMMA HwBusyKeeps == TxRingInv /\ cap' = cap /\ ops' = ops /\ HwBusy("main") => TxRingInv'
<1> SUFFICES ASSUME TxRingInv, cap' = cap, ops' = ops, HwBusy("main") PROVE TxRingInv'
  OBVIOUS
<1>1. at' \in [Contexts -> Places] /\ at'["main"] = "idle" /\ at'["isr"] = at["isr"]
  <2>1. Goto("main", "idle") /\ "idle" \in Places BY PlacesAre DEF HwBusy
  <2>2. QED BY <2>1, PlaceMoves, ContextsAre
<1>2. TxPlaces' BY <1>1 DEF HwBusy, TxPlaces, TxRingInv
<1>3. TxRing' BY <1>1, RingWaits DEF HwBusy
<1>4. QED BY <1>2, <1>3 DEF TxRingInv

LEMMA RingsStart ==
  /\ BmInit => RxRingInv
  /\ BmInit /\ ~(TxIsr /\ InitKeeps) => TxRingInv
<1> SUFFICES ASSUME BmInit
             PROVE  RxRingInv /\ (~(TxIsr /\ InitKeeps) => TxRingInv)
  OBVIOUS
<1>1. cap \in Nat /\ cap >= 2 /\ CapacityIsPowerOfTwo
  <2>1. bmAsked \in Word /\ 0 \in Word BY RingAssumption, WordHas DEF BmInit
  <2>2. AskedSize \in Word BY <2>1 DEF AskedSize
  <2>3. cap = Capacity(AskedSize) BY DEF BmInit
  <2>4. QED BY <2>2, <2>3, CapacityIs DEF CapacityIsPowerOfTwo
<1>2. /\ rxBuf = [i \in 0..(cap - 1) |-> 0] /\ rxHead = 0 /\ rxTail = 0
      /\ txBuf = [i \in 0..(cap - 1) |-> 0] /\ txHead = 0 /\ txTail = 0
      /\ arrived = <<>> /\ bmReceived = <<>> /\ bmQueued = <<>> /\ bmWire = <<>>
  BY DEF BmInit
<1>3. Sound(rxBuf, rxHead, rxTail) /\ Sound(txBuf, txHead, txTail) BY <1>1, <1>2 DEF Sound
<1>4. ring_count(0, 0) = 0
  <2>1. 0 \in 0..(cap - 1) /\ cap \in Nat \ {0} BY <1>1
  <2>2. (0 - 0) % cap = Gap(cap, 0, 0) BY <2>1, ModGap
  <2>3. QED BY <2>2 DEF ring_count, Gap
<1>5. Content(rxBuf, 0, 0) = <<>> /\ Content(txBuf, 0, 0) = <<>> BY <1>4 DEF Content
<1>6. <<>> \in Seq(Nat) /\ Together(<<>>, <<>>, <<>>) BY DEF Together
<1>7. RxRingInv
  <2>1. ReadInOrder BY <1>2, <1>5, <1>6 DEF ReadInOrder, Together
  <2>2. QED BY <1>1, <1>2, <1>3, <1>6, <2>1 DEF RxRingInv
<1>8. ASSUME ~(TxIsr /\ InitKeeps) PROVE TxRingInv
  <2>0. ops \in BOOLEAN BY RingAssumption DEF BmInit
  <2>1. at = [c \in Contexts |-> "idle"] /\ "idle" \in Places
        /\ seen = [c \in Contexts |-> 0] /\ first = seen /\ wrote = seen /\ ops = InitKeeps
    BY PlacesAre DEF BmInit, Contexts
  <2>2. at \in [Contexts -> Places] /\ at["main"] = "idle" /\ at["isr"] = "idle" BY <2>1, ContextsAre
  <2>3. 0 \in Nat /\ 0 \in 0..(cap - 1) BY <1>1
  <2>4. /\ seen \in [Contexts -> Nat] /\ first \in [Contexts -> Nat]
        /\ wrote \in [Contexts -> 0..(cap - 1)] /\ wrote["main"] = 0
    BY ONLY <2>1, <2>3, ContextsAre
  <2>5. TxPlaces BY <1>8, <2>0, <2>1, <2>2, <2>4 DEF TxPlaces
  <2>6. Taken(at["main"], wrote["main"], bmQueued, bmWire, Content(txBuf, txHead, txTail))
    <3>1. Taken("idle", 0, <<>>, <<>>, <<>>) BY <1>6, TakenCases
    <3>2. QED BY <1>2, <1>5, <2>2, <2>4, <3>1
  <2>7. TxRing BY <1>2, <1>3, <1>6, <2>2, <2>6 DEF TxRing
  <2>8. QED BY <2>5, <2>7 DEF TxRingInv
<1>9. QED BY <1>7, <1>8

LEMMA RxRingKept == RxRingInv /\ [BmNext]_bmVars => RxRingInv'
<1> SUFFICES ASSUME RxRingInv, [BmNext]_bmVars PROVE RxRingInv'
  OBVIOUS
<1>1. CASE RxArrives BY <1>1, RxArrivesKeeps
<1>2. CASE BmRecv BY <1>2, BmRecvKeeps
<1>3. CASE Main \/ Isr \/ UNCHANGED bmVars
  <2>1. cap' = cap /\ UNCHANGED bmRxVars BY <1>3 DEF Main, Isr, bmVars
  <2>2. UNCHANGED <<rxBuf, rxHead, rxTail, arrived, bmReceived>> BY <2>1 DEF bmRxVars
  <2>3. ReadInOrder' BY <2>1, <2>2, CapacityStays DEF RxRingInv, ReadInOrder
  <2>4. QED BY <2>1, <2>2, <2>3, CapacityStays DEF RxRingInv
<1>4. QED BY <1>1, <1>2, <1>3 DEF BmNext

LEMMA TxRingKept == TxRingInv /\ [BmNext]_bmVars => TxRingInv'
<1> SUFFICES ASSUME TxRingInv, [BmNext]_bmVars PROVE TxRingInv'
  OBVIOUS
<1>1. cap' = cap /\ ops' = ops BY CapacityNever DEF bmVars
<1>2. at["isr"] = "idle" \/ at["isr"] = "look" BY DEF TxPlaces, TxRingInv
<1>3. CASE Main
  <2>1. SendWrite \/ SendRollback \/ Poll \/ Drain("main") BY <1>3 DEF Main
  <2>2. CASE SendWrite BY <1>1, <2>2, SendWriteKeeps
  <2>3. CASE SendRollback BY <1>1, <2>3, SendRollbackKeeps
  <2>4. CASE Poll BY <1>1, <2>4, PollKeeps
  <2>5. CASE DrainLook("main") BY <1>1, <2>5, DrainLookKeeps, ContextsAre
  <2>6. CASE HwTakes("main") BY <1>1, <2>6, HwTakesKeeps
  <2>7. CASE HwBusy("main") BY <1>1, <2>7, HwBusyKeeps
  <2>8. CASE DrainAdvance("main") BY <1>1, <2>8, DrainAdvanceKeeps
  <2>9. QED BY <2>1, <2>2, <2>3, <2>4, <2>5, <2>6, <2>7, <2>8 DEF Drain
<1>4. CASE Isr
  <2>1. TxReadyIsr \/ Drain("isr") BY <1>4 DEF Isr
  <2>2. CASE TxReadyIsr BY <1>1, <2>2, TxReadyIsrKeeps
  <2>3. CASE DrainLook("isr") BY <1>1, <2>3, DrainLookKeeps, ContextsAre
  <2>4. CASE HwTakes("isr") \/ HwBusy("isr") \/ DrainAdvance("isr")
    BY <1>2, <2>4 DEF HwTakes, HwBusy, DrainAdvance
  <2>5. QED BY <2>1, <2>2, <2>3, <2>4 DEF Drain
<1>5. CASE RxArrives \/ BmRecv \/ UNCHANGED bmVars
  <2>1. UNCHANGED bmTxVars BY <1>5 DEF RxArrives, BmRecv, bmVars
  <2>2. UNCHANGED <<txBuf, txHead, txTail, at, seen, first, wrote, bmFrames, bmQueued, bmWire>>
    BY <2>1 DEF bmTxVars
  <2>3. TxPlaces' BY <1>1, <2>2 DEF TxPlaces, TxRingInv
  <2>4. TxRing' BY <1>1, <2>2, RingRests DEF TxRingInv
  <2>5. QED BY <2>3, <2>4 DEF TxRingInv
<1>6. QED BY <1>3, <1>4, <1>5 DEF BmNext

(* Whatever sizes are asked for, and whatever interrupts: the capacity is a power of two *)
(* within the array, and bm_recv reads what rx_ring_write accepted, byte for byte.         *)
THEOREM ReceivedIsRead == BmSpec => [](ReadInOrder /\ CapacityIsPowerOfTwo)
<1>1. BmInit => RxRingInv BY RingsStart
<1>2. RxRingInv => ReadInOrder /\ CapacityIsPowerOfTwo BY DEF RxRingInv
<1>3. QED BY <1>1, <1>2, RxRingKept, PTL DEF BmSpec

(* What the invariant means, in the module's own words.                                  *)
LEMMA RingsAreKept == RxRingInv /\ TxRingInv => BmTypeOK /\ RingsKeepBytes
<1> SUFFICES ASSUME RxRingInv, TxRingInv PROVE BmTypeOK /\ RingsKeepBytes
  OBVIOUS
<1>1. PICK c \in Seq(Nat) : c = Content(txBuf, txHead, txTail)
  <2>1. Content(txBuf, txHead, txTail) \in Seq(Nat) BY ContentIs DEF TxRing, TxRingInv
  <2>2. QED BY <2>1
<1>2. Taken(at["main"], wrote["main"], bmQueued, bmWire, c) BY <1>1 DEF TxRing, TxRingInv
<1>3. TakenInOrder BY <1>1, <1>2 DEF TakenInOrder, Taken
<1>4. BmTypeOK
  <2>1. /\ {rxHead, rxTail, txHead, txTail} \subseteq 0..(cap - 1)
        /\ DOMAIN rxBuf = 0..(cap - 1) /\ DOMAIN txBuf = 0..(cap - 1)
    BY DEF RxRingInv, TxRingInv, TxRing, Sound
  <2>2. ops \in BOOLEAN /\ at \in [{"main", "isr"} -> {"idle", "rollback", "look", "write", "advance"}]
    BY DEF TxRingInv, TxPlaces, Contexts, Places
  <2>3. ASSUME NEW x \in {"main", "isr"} PROVE wrote[x] < cap
    <3>1. wrote[x] \in 0..(cap - 1) /\ cap \in Nat
      BY DEF TxRingInv, TxPlaces, TxRing, Sound, Contexts
    <3>2. QED BY <3>1
  <2>4. QED BY <2>1, <2>2, <2>3 DEF BmTypeOK
<1>5. QED BY <1>3, <1>4 DEF RingsKeepBytes, RxRingInv

(* transport_bm_stream.c: both rings keep the order of their bytes, and the transmit ring   *)
(* gives the hardware nothing of a frame that was taken back, as long as one context        *)
(* drains it: the code as shipped, whose drain never starts, and the repaired code polled   *)
(* from the main loop.                                                                      *)
THEOREM RingsKeepTheirBytes ==
  ASSUME ~(TxIsr /\ InitKeeps) PROVE BmSpec => [](BmTypeOK /\ RingsKeepBytes)
<1>1. BmInit => RxRingInv /\ TxRingInv BY RingsStart
<1>2. (RxRingInv /\ TxRingInv) /\ [BmNext]_bmVars => (RxRingInv /\ TxRingInv)'
  BY RxRingKept, TxRingKept
<1>3. QED BY <1>1, <1>2, RingsAreKept, PTL DEF BmSpec
=============================================================================

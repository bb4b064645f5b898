---------------------------- MODULE SequenceOrder ----------------------------
(***************************************************************************)
(* What the entries of a queue that matter (those in a set D) have to do   *)
(* with each other, said by value and not by index: which comes first,     *)
(* which last, which follows which.  The lemmas say what each operation on *)
(* a queue does to these relations.  At the end, what FlattenSeq makes of a *)
(* sequence of sequences.                                                  *)
(***************************************************************************)
EXTENDS Naturals, Sequences, SequencesExt, SequenceTheorems, WellFoundedInduction, TLAPS

(* No entry from i to j is in D.                                           *)
Free(s, D, i, j) == \A k \in i..j : s[k] \notin D

NoneIn(s, D)     == Free(s, D, 1, Len(s))
Occurs(s, x)     == \E i \in 1..Len(s) : s[i] = x
FirstIn(s, D, x) == \E i \in 1..Len(s) : s[i] = x /\ x \in D /\ Free(s, D, 1, i - 1)
LastIn(s, D, x)  == \E i \in 1..Len(s) : s[i] = x /\ x \in D /\ Free(s, D, i + 1, Len(s))
NextIn(s, D, x, y) ==
  \E i, j \in 1..Len(s) :
    /\ i < j /\ s[i] = x /\ s[j] = y
    /\ x \in D /\ y \in D /\ Free(s, D, i + 1, j - 1)
Before(s, x, y)  == \E i, j \in 1..Len(s) : i < j /\ s[i] = x /\ s[j] = y

-----------------------------------------------------------------------------
(* What Append and Tail return.                                            *)
LEMMA AppendEntries ==
  ASSUME NEW S, NEW s \in Seq(S), NEW e \in S
  PROVE  /\ Append(s, e) \in Seq(S)
         /\ Len(s) \in Nat /\ Len(Append(s, e)) = Len(s) + 1
         /\ \A i \in 1..Len(s) : Append(s, e)[i] = s[i]
         /\ Append(s, e)[Len(s) + 1] = e
OBVIOUS

LEMMA TailEntries ==
  ASSUME NEW S, NEW s \in Seq(S), s # <<>>
  PROVE  /\ Tail(s) \in Seq(S) /\ Head(s) \in S
         /\ Len(s) \in Nat /\ Len(s) >= 1 /\ Len(Tail(s)) = Len(s) - 1
         /\ \A i \in 1..(Len(s) - 1) : Tail(s)[i] = s[i + 1]
         /\ Head(s) = s[1]
OBVIOUS

(* Two queues whose entries in D are the same, in the same order, have the *)
(* same relations.                                                         *)
LEMMA SameEntries ==
  ASSUME NEW D, NEW s, NEW t, Len(s) \in Nat, Len(t) \in Nat,
         NEW m \in [{i \in 1..Len(t) : t[i] \in D} -> {i \in 1..Len(s) : s[i] \in D}],
         \A i \in DOMAIN m : s[m[i]] = t[i],
         \A i, j \in DOMAIN m : i < j => m[i] < m[j],
         \A k \in 1..Len(s) : s[k] \in D => \E i \in DOMAIN m : m[i] = k
  PROVE  /\ \A x, y : NextIn(t, D, x, y) => NextIn(s, D, x, y)
         /\ \A x : FirstIn(t, D, x) => FirstIn(s, D, x)
         /\ \A x : LastIn(t, D, x) => LastIn(s, D, x)
         /\ NoneIn(t, D) => NoneIn(s, D)
<1>1. \A i \in DOMAIN m : /\ i \in 1..Len(t) /\ t[i] \in D
                          /\ m[i] \in 1..Len(s) /\ s[m[i]] \in D /\ s[m[i]] = t[i]
  OBVIOUS
<1>2. \A i \in 1..Len(t) : t[i] \in D => i \in DOMAIN m
  OBVIOUS
<1>3. \A i, j \in DOMAIN m : m[i] < m[j] => i < j
  <2> SUFFICES ASSUME NEW i \in DOMAIN m, NEW j \in DOMAIN m, m[i] < m[j] PROVE i < j
    OBVIOUS
  <2>1. i \in Nat /\ j \in Nat /\ m[i] \in Nat /\ m[j] \in Nat BY <1>1
  <2>2. CASE j < i
    <3>1. m[j] < m[i] BY <2>2
    <3>2. QED BY <2>1, <3>1
  <2>3. CASE i = j BY <2>1, <2>3
  <2>4. QED BY <2>1, <2>2, <2>3
<1>4. ASSUME NEW x, NEW y, NextIn(t, D, x, y) PROVE NextIn(s, D, x, y)
  <2>1. PICK i \in 1..Len(t), j \in 1..Len(t) :
          i < j /\ t[i] = x /\ t[j] = y /\ x \in D /\ y \in D /\ Free(t, D, i + 1, j - 1)
    BY <1>4 DEF NextIn
  <2>2. i \in DOMAIN m /\ j \in DOMAIN m BY <1>2, <2>1
  <2>3. /\ m[i] \in 1..Len(s) /\ m[j] \in 1..Len(s) /\ m[i] < m[j]
        /\ s[m[i]] = x /\ s[m[j]] = y
    BY <1>1, <2>1, <2>2
  <2>4. ASSUME NEW k \in (m[i] + 1)..(m[j] - 1), s[k] \in D PROVE FALSE
    <3>1. k \in 1..Len(s) /\ m[i] < k /\ k < m[j] BY <2>3
    <3>2. PICK l \in DOMAIN m : m[l] = k BY <2>4, <3>1
    <3>3. i < l /\ l < j /\ l \in 1..Len(t) /\ t[l] \in D BY <1>1, <1>3, <2>2, <3>1, <3>2
    <3>4. l \in (i + 1)..(j - 1) BY <3>3
    <3>5. QED BY <2>1, <3>3, <3>4 DEF Free
  <2>5. Free(s, D, m[i] + 1, m[j] - 1) BY <2>4 DEF Free
  <2>6. QED BY <2>1, <2>3, <2>5 DEF NextIn
<1>5. ASSUME NEW x, FirstIn(t, D, x) PROVE FirstIn(s, D, x)
  <2>1. PICK i \in 1..Len(t) : t[i] = x /\ x \in D /\ Free(t, D, 1, i - 1)
    BY <1>5 DEF FirstIn
  <2>2. i \in DOMAIN m BY <1>2, <2>1
  <2>3. m[i] \in 1..Len(s) /\ s[m[i]] = x BY <1>1, <2>1, <2>2
  <2>4. ASSUME NEW k \in 1..(m[i] - 1), s[k] \in D PROVE FALSE
    <3>1. k \in 1..Len(s) /\ k < m[i] BY <2>3
    <3>2. PICK l \in DOMAIN m : m[l] = k BY <2>4, <3>1
    <3>3. l < i /\ l \in 1..Len(t) /\ t[l] \in D BY <1>1, <1>3, <2>2, <3>1, <3>2
    <3>4. l \in 1..(i - 1) BY <3>3
    <3>5. QED BY <2>1, <3>3, <3>4 DEF Free
  <2>5. Free(s, D, 1, m[i] - 1) BY <2>4 DEF Free
  <2>6. QED BY <2>1, <2>3, <2>5 DEF FirstIn
<1>6. ASSUME NEW x, LastIn(t, D, x) PROVE LastIn(s, D, x)
  <2>1. PICK i \in 1..Len(t) : t[i] = x /\ x \in D /\ Free(t, D, i + 1, Len(t))
    BY <1>6 DEF LastIn
  <2>2. i \in DOMAIN m BY <1>2, <2>1
  <2>3. m[i] \in 1..Len(s) /\ s[m[i]] = x BY <1>1, <2>1, <2>2
  <2>4. ASSUME NEW k \in (m[i] + 1)..Len(s), s[k] \in D PROVE FALSE
    <3>1. k \in 1..Len(s) /\ m[i] < k BY <2>3
    <3>2. PICK l \in DOMAIN m : m[l] = k BY <2>4, <3>1
    <3>3. i < l /\ l \in 1..Len(t) /\ t[l] \in D BY <1>1, <1>3, <2>2, <3>1, <3>2
    <3>4. l \in (i + 1)..Len(t) BY <3>3
    <3>5. QED BY <2>1, <3>3, <3>4 DEF Free
  <2>5. Free(s, D, m[i] + 1, Len(s)) BY <2>4 DEF Free
  <2>6. QED BY <2>1, <2>3, <2>5 DEF LastIn
<1>7. ASSUME NoneIn(t, D) PROVE NoneIn(s, D)
  <2>1. ASSUME NEW k \in 1..Len(s), s[k] \in D PROVE FALSE
    <3>1. PICK l \in DOMAIN m : m[l] = k BY <2>1
    <3>2. QED BY <1>1, <1>7, <3>1 DEF NoneIn, Free
  <2>2. QED BY <2>1 DEF NoneIn, Free
<1>8. QED BY <1>4, <1>5, <1>6, <1>7

(* Appending an entry that matters.                                        *)
LEMMA AppendIn ==
  ASSUME NEW S, NEW s \in Seq(S), NEW e \in S, NEW D, e \in D
  PROVE  /\ \A x, y : NextIn(Append(s, e), D, x, y) =>
                        NextIn(s, D, x, y) \/ (LastIn(s, D, x) /\ y = e)
         /\ \A y : FirstIn(Append(s, e), D, y) => FirstIn(s, D, y) \/ (NoneIn(s, D) /\ y = e)
         /\ \A x : LastIn(Append(s, e), D, x) => x = e
         /\ ~NoneIn(Append(s, e), D)
<1> DEFINE t == Append(s, e)
           n == Len(s)
<1>1. /\ n \in Nat /\ Len(t) = n + 1
      /\ \A i \in 1..n : t[i] = s[i]
      /\ t[n + 1] = e
  BY AppendEntries
<1> HIDE DEF t, n
<1>2. \A i, j \in Nat : i >= 1 /\ j <= n => (Free(t, D, i, j) <=> Free(s, D, i, j))
  BY <1>1 DEF Free
<1>3. ASSUME NEW x, NEW y, NextIn(t, D, x, y)
      PROVE  NextIn(s, D, x, y) \/ (LastIn(s, D, x) /\ y = e)
  <2>1. PICK i \in 1..(n + 1), j \in 1..(n + 1) :
          /\ i < j /\ t[i] = x /\ t[j] = y /\ x \in D /\ y \in D /\ Free(t, D, i + 1, j - 1)
    BY <1>1, <1>3 DEF NextIn
  <2>2. i \in 1..n /\ j - 1 \in Nat /\ j - 1 <= n /\ i + 1 \in Nat /\ s[i] = x
    BY <1>1, <2>1
  <2>3. Free(s, D, i + 1, j - 1)
    BY <1>2, <2>1, <2>2
  <2>4. CASE j = n + 1
    <3>1. j - 1 = n BY <1>1, <2>4
    <3>2. QED BY <1>1, <2>1, <2>2, <2>3, <2>4, <3>1 DEF LastIn, n
  <2>5. CASE j # n + 1
    <3>1. j \in 1..n /\ s[j] = y BY <1>1, <2>1, <2>5
    <3>2. QED BY <2>1, <2>2, <2>3, <3>1 DEF NextIn, n
  <2>6. QED BY <2>4, <2>5
<1>4. ASSUME NEW y, FirstIn(t, D, y)
      PROVE  FirstIn(s, D, y) \/ (NoneIn(s, D) /\ y = e)
  <2>1. PICK i \in 1..(n + 1) : t[i] = y /\ y \in D /\ Free(t, D, 1, i - 1)
    BY <1>1, <1>4 DEF FirstIn
  <2>2. Free(s, D, 1, i - 1)
    BY <1>1, <1>2, <2>1
  <2>3. CASE i = n + 1
    <3>1. i - 1 = n BY <1>1, <2>3
    <3>2. QED BY <1>1, <2>1, <2>2, <2>3, <3>1 DEF NoneIn, n
  <2>4. CASE i # n + 1
    <3>1. i \in 1..n /\ s[i] = y BY <1>1, <2>1, <2>4
    <3>2. QED BY <2>1, <2>2, <3>1 DEF FirstIn, n
  <2>5. QED BY <2>3, <2>4
<1>5. ASSUME NEW x, LastIn(t, D, x) PROVE x = e
  <2>1. PICK i \in 1..(n + 1) : t[i] = x /\ Free(t, D, i + 1, n + 1)
    BY <1>1, <1>5 DEF LastIn
  <2>2. CASE i = n + 1 BY <1>1, <2>1, <2>2
  <2>3. CASE i # n + 1
    <3>1. n + 1 \in (i + 1)..(n + 1) BY <1>1, <2>1, <2>3
    <3>2. QED BY <1>1, <2>1, <3>1 DEF Free
  <2>4. QED BY <2>2, <2>3
<1>6. ~NoneIn(t, D)
  <2>1. n + 1 \in 1..(n + 1) BY <1>1
  <2>2. QED BY <1>1, <2>1 DEF NoneIn, Free
<1>7. QED BY <1>3, <1>4, <1>5, <1>6 DEF t

(* Appending an entry that does not matter.                                *)
LEMMA AppendOut ==
  ASSUME NEW S, NEW s \in Seq(S), NEW e \in S, NEW D, e \notin D
  PROVE  /\ \A x, y : NextIn(Append(s, e), D, x, y) => NextIn(s, D, x, y)
         /\ \A x : FirstIn(Append(s, e), D, x) => FirstIn(s, D, x)
         /\ \A x : LastIn(Append(s, e), D, x) => LastIn(s, D, x)
         /\ NoneIn(Append(s, e), D) => NoneIn(s, D)
<1> DEFINE t == Append(s, e)
           m == [i \in {i \in 1..Len(t) : t[i] \in D} |-> i]
<1>1. /\ Len(s) \in Nat /\ Len(t) = Len(s) + 1
      /\ \A i \in 1..Len(s) : t[i] = s[i]
      /\ t[Len(s) + 1] = e
  BY AppendEntries
<1> HIDE DEF t
<1>2. \A i \in 1..Len(t) : t[i] \in D => i \in 1..Len(s) /\ s[i] = t[i]
  BY <1>1
<1>3. m \in [{i \in 1..Len(t) : t[i] \in D} -> {i \in 1..Len(s) : s[i] \in D}]
  BY <1>2
<1>4. /\ \A i \in DOMAIN m : m[i] = i /\ s[m[i]] = t[i]
      /\ \A k \in 1..Len(s) : s[k] \in D => k \in DOMAIN m
  BY <1>1, <1>2
<1>5. Len(t) \in Nat BY <1>1
<1> HIDE DEF m
<1>6. \A i, j \in DOMAIN m : i < j => m[i] < m[j] BY <1>4
<1>7. \A k \in 1..Len(s) : s[k] \in D => \E i \in DOMAIN m : m[i] = k BY <1>4
<1>8. /\ \A x, y : NextIn(t, D, x, y) => NextIn(s, D, x, y)
      /\ \A x : FirstIn(t, D, x) => FirstIn(s, D, x)
      /\ \A x : LastIn(t, D, x) => LastIn(s, D, x)
      /\ NoneIn(t, D) => NoneIn(s, D)
  BY <1>1, <1>3, <1>4, <1>5, <1>6, <1>7, SameEntries
<1>9. QED BY <1>8 DEF t

(* Taking the head, an entry that does not matter.                         *)
LEMMA TailOut ==
  ASSUME NEW S, NEW s \in Seq(S), s # <<>>, NEW D, Head(s) \notin D
  PROVE  /\ \A x, y : NextIn(Tail(s), D, x, y) => NextIn(s, D, x, y)
         /\ \A x : FirstIn(Tail(s), D, x) => FirstIn(s, D, x)
         /\ \A x : LastIn(Tail(s), D, x) => LastIn(s, D, x)
         /\ NoneIn(Tail(s), D) => NoneIn(s, D)
<1> DEFINE t == Tail(s)
           m == [i \in {i \in 1..Len(t) : t[i] \in D} |-> i + 1]
<1>1. /\ Len(s) \in Nat /\ Len(s) >= 1 /\ Len(t) = Len(s) - 1
      /\ \A i \in 1..(Len(s) - 1) : t[i] = s[i + 1]
      /\ s[1] \notin D
  BY TailEntries
<1> HIDE DEF t
<1>2. \A i \in 1..Len(t) : t[i] \in D => i + 1 \in 1..Len(s) /\ s[i + 1] = t[i]
  BY <1>1
<1>3. m \in [{i \in 1..Len(t) : t[i] \in D} -> {i \in 1..Len(s) : s[i] \in D}]
  BY <1>2
<1>4. /\ \A i \in DOMAIN m : i \in 1..Len(t) /\ m[i] = i + 1 /\ s[m[i]] = t[i]
      /\ \A i \in 1..Len(t) : t[i] \in D => i \in DOMAIN m
  BY <1>1, <1>2
<1>5. Len(t) \in Nat BY <1>1
<1> HIDE DEF m
<1>6. \A i, j \in DOMAIN m : i < j => m[i] < m[j] BY <1>4
<1>7. ASSUME NEW k \in 1..Len(s), s[k] \in D PROVE \E i \in DOMAIN m : m[i] = k
  <2>1. k - 1 \in 1..Len(t) /\ t[k - 1] = s[k] /\ (k - 1) + 1 = k BY <1>1, <1>7
  <2>2. QED BY <1>4, <1>7, <2>1
<1>8. /\ \A x, y : NextIn(t, D, x, y) => NextIn(s, D, x, y)
      /\ \A x : FirstIn(t, D, x) => FirstIn(s, D, x)
      /\ \A x : LastIn(t, D, x) => LastIn(s, D, x)
      /\ NoneIn(t, D) => NoneIn(s, D)
  BY <1>1, <1>3, <1>4, <1>5, <1>6, <1>7, SameEntries
<1>9. QED BY <1>8 DEF t

(* Taking the head, an entry that matters: what came next is now the first.*)
LEMMA TailIn ==
  ASSUME NEW S, NEW s \in Seq(S), s # <<>>, NEW D, Head(s) \in D
  PROVE  /\ FirstIn(s, D, Head(s))
         /\ \A x, y : NextIn(Tail(s), D, x, y) => NextIn(s, D, x, y)
         /\ \A y : FirstIn(Tail(s), D, y) => NextIn(s, D, Head(s), y)
         /\ \A x : LastIn(Tail(s), D, x) => LastIn(s, D, x)
         /\ NoneIn(Tail(s), D) => LastIn(s, D, Head(s))
<1> DEFINE t == Tail(s)
<1>1. /\ Len(s) \in Nat /\ Len(s) >= 1 /\ Len(t) = Len(s) - 1
      /\ \A i \in 1..(Len(s) - 1) : t[i] = s[i + 1]
      /\ s[1] = Head(s)
  BY TailEntries
<1> HIDE DEF t
<1>2. ASSUME NEW i \in Nat, NEW j \in Nat, i >= 1, j <= Len(t), Free(t, D, i, j)
      PROVE  Free(s, D, i + 1, j + 1)
  <2>1. ASSUME NEW k \in (i + 1)..(j + 1) PROVE s[k] \notin D
    <3>1. k - 1 \in i..j /\ k - 1 \in 1..(Len(s) - 1) /\ (k - 1) + 1 = k BY <1>1, <1>2
    <3>2. t[k - 1] \notin D BY <1>2, <3>1 DEF Free
    <3>3. QED BY <1>1, <3>1, <3>2
  <2>2. QED BY <2>1 DEF Free
<1>3. FirstIn(s, D, Head(s))
  <2>1. 1 \in 1..Len(s) /\ Free(s, D, 1, 1 - 1) BY <1>1 DEF Free
  <2>2. QED BY <1>1, <2>1 DEF FirstIn
<1>4. ASSUME NEW x, NEW y, NextIn(t, D, x, y) PROVE NextIn(s, D, x, y)
  <2>1. PICK i \in 1..Len(t), j \in 1..Len(t) :
          i < j /\ t[i] = x /\ t[j] = y /\ x \in D /\ y \in D /\ Free(t, D, i + 1, j - 1)
    BY <1>4 DEF NextIn
  <2>2. /\ i + 1 \in 1..Len(s) /\ j + 1 \in 1..Len(s) /\ i + 1 < j + 1
        /\ s[i + 1] = x /\ s[j + 1] = y /\ i + 1 \in Nat /\ j - 1 \in Nat
        /\ i + 1 >= 1 /\ j - 1 <= Len(t) /\ (j - 1) + 1 = (j + 1) - 1
    BY <1>1, <2>1
  <2>3. Free(s, D, (i + 1) + 1, (j + 1) - 1) BY <1>2, <2>1, <2>2
  <2>4. QED BY <2>1, <2>2, <2>3 DEF NextIn
<1>5. ASSUME NEW y, FirstIn(t, D, y) PROVE NextIn(s, D, Head(s), y)
  <2>1. PICK j \in 1..Len(t) : t[j] = y /\ y \in D /\ Free(t, D, 1, j - 1)
    BY <1>5 DEF FirstIn
  <2>2. /\ 1 \in 1..Len(s) /\ j + 1 \in 1..Len(s) /\ 1 < j + 1 /\ s[j + 1] = y
        /\ j - 1 \in Nat /\ j - 1 <= Len(t) /\ (j - 1) + 1 = (j + 1) - 1
    BY <1>1, <2>1
  <2>3. Free(s, D, 1 + 1, (j + 1) - 1) BY <1>2, <2>1, <2>2
  <2>4. QED BY <1>1, <2>1, <2>2, <2>3 DEF NextIn
<1>6. ASSUME NEW x, LastIn(t, D, x) PROVE LastIn(s, D, x)
  <2>1. PICK i \in 1..Len(t) : t[i] = x /\ x \in D /\ Free(t, D, i + 1, Len(t))
    BY <1>6 DEF LastIn
  <2>2. /\ i + 1 \in 1..Len(s) /\ s[i + 1] = x /\ i + 1 \in Nat /\ Len(t) \in Nat
        /\ Len(t) + 1 = Len(s)
    BY <1>1, <2>1
  <2>3. Free(s, D, (i + 1) + 1, Len(s)) BY <1>2, <2>1, <2>2
  <2>4. QED BY <2>1, <2>2, <2>3 DEF LastIn
<1>7. ASSUME NoneIn(t, D) PROVE LastIn(s, D, Head(s))
  <2>1. Len(t) \in Nat /\ Len(t) + 1 = Len(s) /\ 1 \in 1..Len(s) BY <1>1
  <2>2. Free(s, D, 1 + 1, Len(s)) BY <1>2, <1>7, <2>1 DEF NoneIn
  <2>3. QED BY <1>1, <2>1, <2>2 DEF LastIn
<1>8. QED BY <1>3, <1>4, <1>5, <1>6, <1>7 DEF t

(* What is left when the end of a queue is cut off.                        *)
LEMMA PrefixOrder ==
  ASSUME NEW s, NEW t, NEW D, Len(s) \in Nat, Len(t) \in Nat, Len(t) <= Len(s),
         \A i \in 1..Len(t) : t[i] = s[i]
  PROVE  /\ \A x, y : NextIn(t, D, x, y) => NextIn(s, D, x, y)
         /\ \A x : FirstIn(t, D, x) => FirstIn(s, D, x)
         /\ \A x : Occurs(t, x) => Occurs(s, x)
         /\ \A x, y : Before(t, x, y) => Before(s, x, y)
<1>1. \A i, j \in Nat : i >= 1 /\ j <= Len(t) => (Free(t, D, i, j) <=> Free(s, D, i, j))
  BY DEF Free
<1>2. ASSUME NEW x, NEW y, NextIn(t, D, x, y) PROVE NextIn(s, D, x, y)
  <2>1. PICK i \in 1..Len(t), j \in 1..Len(t) :
          i < j /\ t[i] = x /\ t[j] = y /\ x \in D /\ y \in D /\ Free(t, D, i + 1, j - 1)
    BY <1>2 DEF NextIn
  <2>2. /\ i \in 1..Len(s) /\ j \in 1..Len(s) /\ s[i] = x /\ s[j] = y
        /\ i + 1 \in Nat /\ j - 1 \in Nat /\ i + 1 >= 1 /\ j - 1 <= Len(t)
    BY <2>1
  <2>3. Free(s, D, i + 1, j - 1) BY <1>1, <2>1, <2>2
  <2>4. QED BY <2>1, <2>2, <2>3 DEF NextIn
<1>3. ASSUME NEW x, FirstIn(t, D, x) PROVE FirstIn(s, D, x)
  <2>1. PICK i \in 1..Len(t) : t[i] = x /\ x \in D /\ Free(t, D, 1, i - 1)
    BY <1>3 DEF FirstIn
  <2>2. i \in 1..Len(s) /\ s[i] = x /\ i - 1 \in Nat /\ i - 1 <= Len(t) BY <2>1
  <2>3. Free(s, D, 1, i - 1) BY <1>1, <2>1, <2>2
  <2>4. QED BY <2>1, <2>2, <2>3 DEF FirstIn
<1>4. \A i \in 1..Len(t) : i \in 1..Len(s) OBVIOUS
<1>5. QED BY <1>2, <1>3, <1>4 DEF Occurs, Before

-----------------------------------------------------------------------------
(* What occurs, and what lies before what.                                 *)

LEMMA AppendOccurs ==
  ASSUME NEW S, NEW s \in Seq(S), NEW e \in S
  PROVE  /\ \A x : Occurs(Append(s, e), x) <=> Occurs(s, x) \/ x = e
         /\ \A x, y : Before(Append(s, e), x, y) => Before(s, x, y) \/ (Occurs(s, x) /\ y = e)
<1> DEFINE t == Append(s, e)
           n == Len(s)
<1>1. /\ n \in Nat /\ Len(t) = n + 1
      /\ \A i \in 1..n : t[i] = s[i]
      /\ t[n + 1] = e
  BY AppendEntries
<1> HIDE DEF t, n
<1>2. \A i \in 1..(n + 1) : i = n + 1 \/ i \in 1..n
  BY <1>1
<1>3. ASSUME NEW x PROVE Occurs(t, x) <=> Occurs(s, x) \/ x = e
  <2>1. 1..n \subseteq 1..(n + 1) /\ n + 1 \in 1..(n + 1) BY <1>1
  <2>2. QED BY <1>1, <1>2, <2>1 DEF Occurs, n
<1>4. ASSUME NEW x, NEW y, Before(t, x, y) PROVE Before(s, x, y) \/ (Occurs(s, x) /\ y = e)
  <2>1. PICK i \in 1..(n + 1), j \in 1..(n + 1) : i < j /\ t[i] = x /\ t[j] = y
    BY <1>1, <1>4 DEF Before
  <2>2. i \in 1..n /\ s[i] = x BY <1>1, <2>1
  <2>3. CASE j = n + 1 BY <1>1, <2>1, <2>2, <2>3 DEF Occurs, n
  <2>4. CASE j \in 1..n BY <1>1, <2>1, <2>2, <2>4 DEF Before, n
  <2>5. QED BY <1>2, <2>3, <2>4
<1>5. QED BY <1>3, <1>4 DEF t

LEMMA TailOccurs ==
  ASSUME NEW S, NEW s \in Seq(S), s # <<>>
  PROVE  /\ Occurs(s, Head(s))
         /\ \A x : Occurs(Tail(s), x) => Occurs(s, x) /\ Before(s, Head(s), x)
         /\ \A x, y : Before(Tail(s), x, y) => Before(s, x, y)
<1> DEFINE t == Tail(s)
<1>1. /\ Len(s) \in Nat /\ Len(s) >= 1 /\ Len(t) = Len(s) - 1
      /\ \A i \in 1..(Len(s) - 1) : t[i] = s[i + 1]
      /\ s[1] = Head(s)
  BY TailEntries
<1> HIDE DEF t
<1>2. \A i \in 1..Len(t) : i + 1 \in 1..Len(s) /\ 1 < i + 1 /\ s[i + 1] = t[i]
  BY <1>1
<1>3. 1 \in 1..Len(s) BY <1>1
<1>4. ASSUME NEW x, NEW y, Before(t, x, y) PROVE Before(s, x, y)
  <2>1. PICK i \in 1..Len(t), j \in 1..Len(t) : i < j /\ t[i] = x /\ t[j] = y
    BY <1>4 DEF Before
  <2>2. i + 1 < j + 1 BY <2>1
  <2>3. QED BY <1>2, <2>1, <2>2 DEF Before
<1>5. Occurs(s, Head(s)) BY <1>1, <1>3 DEF Occurs
<1>6. ASSUME NEW x, Occurs(t, x) PROVE Occurs(s, x) /\ Before(s, Head(s), x)
  <2>1. PICK i \in 1..Len(t) : t[i] = x BY <1>6 DEF Occurs
  <2>2. QED BY <1>1, <1>2, <1>3, <2>1 DEF Occurs, Before
<1>7. QED BY <1>4, <1>5, <1>6 DEF t

(* In an empty queue there is nothing.                                     *)
LEMMA EmptyOrder ==
  /\ \A D : NoneIn(<<>>, D)
  /\ \A D, x : ~FirstIn(<<>>, D, x) /\ ~LastIn(<<>>, D, x)
  /\ \A D, x, y : ~NextIn(<<>>, D, x, y)
  /\ \A x, y : ~Occurs(<<>>, x) /\ ~Before(<<>>, x, y)
<1>1. Len(<<>>) = 0 /\ \A i : i \notin 1..0 OBVIOUS
<1>2. QED BY <1>1 DEF NoneIn, Free, FirstIn, LastIn, NextIn, Occurs, Before

(* What occurs in a queue is of the queue's kind.                          *)
LEMMA OccursInSet ==
  ASSUME NEW S, NEW s \in Seq(S), NEW x, Occurs(s, x)
  PROVE  x \in S
BY DEF Occurs

-----------------------------------------------------------------------------
(* Two queues one behind the other.                                        *)

LEMMA ConcatEntries ==
  ASSUME NEW S, NEW s \in Seq(S), NEW t \in Seq(S)
  PROVE  /\ s \o t \in Seq(S)
         /\ Len(s) \in Nat /\ Len(t) \in Nat /\ Len(s \o t) = Len(s) + Len(t)
         /\ \A i \in 1..Len(s) : (s \o t)[i] = s[i]
         /\ \A i \in 1..Len(t) : (s \o t)[Len(s) + i] = t[i]
OBVIOUS

LEMMA EqualQueues ==
  ASSUME NEW S, NEW s \in Seq(S), NEW t \in Seq(S), Len(s) = Len(t),
         \A i \in 1..Len(s) : s[i] = t[i]
  PROVE  s = t
OBVIOUS

LEMMA ConcatEmpty == \A S : \A s \in Seq(S) : s \o <<>> = s
OBVIOUS

LEMMA ConcatAppend ==
  ASSUME NEW S, NEW s \in Seq(S), NEW t \in Seq(S), NEW e \in S
  PROVE  s \o Append(t, e) = Append(s \o t, e)
OBVIOUS

LEMMA ConcatMove ==
  ASSUME NEW S, NEW s \in Seq(S), NEW t \in Seq(S), t # <<>>
  PROVE  Append(s, Head(t)) \o Tail(t) = s \o t
OBVIOUS

LEMMA ConcatTail ==
  ASSUME NEW S, NEW s \in Seq(S), NEW t \in Seq(S), s # <<>>
  PROVE  /\ s \o t # <<>> /\ Head(s \o t) = Head(s)
         /\ Tail(s) \o t = Tail(s \o t)
OBVIOUS

(* The head of the second queue, which does not matter, is replaced by an  *)
(* entry at the end of the first that does not matter either.              *)
LEMMA ReplaceOut ==
  ASSUME NEW S, NEW s \in Seq(S), NEW t \in Seq(S), t # <<>>, NEW D, Head(t) \notin D,
         NEW e \in S, e \notin D
  PROVE  /\ \A x, y : NextIn(Append(s, e) \o Tail(t), D, x, y) => NextIn(s \o t, D, x, y)
         /\ \A x : FirstIn(Append(s, e) \o Tail(t), D, x) => FirstIn(s \o t, D, x)
         /\ \A x : LastIn(Append(s, e) \o Tail(t), D, x) => LastIn(s \o t, D, x)
         /\ NoneIn(Append(s, e) \o Tail(t), D) => NoneIn(s \o t, D)
<1> DEFINE u == s \o t
           v == Append(s, e) \o Tail(t)
           n == Len(s)
           m == [i \in {i \in 1..Len(v) : v[i] \in D} |-> i]
<1>1. /\ Len(u) \in Nat /\ Len(v) = Len(u) /\ n \in Nat /\ n + 1 \in 1..Len(u)
      /\ u[n + 1] = Head(t) /\ v[n + 1] = e
  OBVIOUS
<1>2. \A i \in 1..Len(u) : i # n + 1 => v[i] = u[i]
  <2>1. ASSUME NEW i \in 1..Len(u), i # n + 1 PROVE v[i] = u[i]
    <3>1. CASE i <= n BY <3>1
    <3>2. CASE i > n + 1 BY <3>2
    <3>3. QED BY <1>1, <2>1, <3>1, <3>2
  <2>2. QED BY <2>1
<1> HIDE DEF u, v, n
<1>3. \A i \in 1..Len(u) : (v[i] \in D <=> u[i] \in D) /\ (v[i] \in D => v[i] = u[i])
  BY <1>1, <1>2
<1>4. m \in [{i \in 1..Len(v) : v[i] \in D} -> {i \in 1..Len(u) : u[i] \in D}]
  BY <1>1, <1>3
<1>5. /\ \A i \in DOMAIN m : u[m[i]] = v[i]
      /\ \A i, j \in DOMAIN m : i < j => m[i] < m[j]
      /\ \A k \in 1..Len(u) : u[k] \in D => \E i \in DOMAIN m : m[i] = k
  BY <1>1, <1>3
<1> HIDE DEF m
<1>6. /\ \A x, y : NextIn(v, D, x, y) => NextIn(u, D, x, y)
      /\ \A x : FirstIn(v, D, x) => FirstIn(u, D, x)
      /\ \A x : LastIn(v, D, x) => LastIn(u, D, x)
      /\ NoneIn(v, D) => NoneIn(u, D)
  BY <1>1, <1>4, <1>5, SameEntries
<1>7. QED BY <1>6 DEF u, v

(* The head of the second queue, which does not matter, is taken out.      *)
LEMMA RemoveOut ==
  ASSUME NEW S, NEW s \in Seq(S), NEW t \in Seq(S), t # <<>>, NEW D, Head(t) \notin D
  PROVE  /\ \A x, y : NextIn(s \o Tail(t), D, x, y) => NextIn(s \o t, D, x, y)
         /\ \A x : FirstIn(s \o Tail(t), D, x) => FirstIn(s \o t, D, x)
         /\ \A x : LastIn(s \o Tail(t), D, x) => LastIn(s \o t, D, x)
         /\ NoneIn(s \o Tail(t), D) => NoneIn(s \o t, D)
<1> DEFINE u == s \o t
           v == s \o Tail(t)
           n == Len(s)
           m == [i \in {i \in 1..Len(v) : v[i] \in D} |-> IF i <= n THEN i ELSE i + 1]
<1>1. /\ Len(u) \in Nat /\ Len(v) \in Nat /\ Len(u) = Len(v) + 1 /\ n \in Nat
      /\ n + 1 \in 1..Len(u) /\ u[n + 1] = Head(t)
      /\ \A i \in 1..Len(v) : IF i <= n THEN v[i] = u[i] ELSE v[i] = u[i + 1]
  OBVIOUS
<1> HIDE DEF u, v, n
<1>2. /\ m \in [{i \in 1..Len(v) : v[i] \in D} -> {i \in 1..Len(u) : u[i] \in D}]
      /\ \A i \in DOMAIN m : u[m[i]] = v[i]
      /\ \A i, j \in DOMAIN m : i < j => m[i] < m[j]
  <2>1. ASSUME NEW i \in 1..Len(v), v[i] \in D
        PROVE  m[i] \in 1..Len(u) /\ u[m[i]] = v[i] /\ u[m[i]] \in D
    <3>1. CASE i <= n BY <1>1, <2>1, <3>1
    <3>2. CASE ~(i <= n)
      <4>1. m[i] = i + 1 /\ v[i] = u[i + 1] BY <1>1, <2>1, <3>2
      <4>2. i + 1 \in 1..Len(u) BY <1>1
      <4>3. QED BY <2>1, <4>1, <4>2
    <3>3. QED BY <3>1, <3>2
  <2>2. DOMAIN m = {i \in 1..Len(v) : v[i] \in D} OBVIOUS
  <2>3. m \in [{i \in 1..Len(v) : v[i] \in D} -> {i \in 1..Len(u) : u[i] \in D}] BY <2>1
  <2>4. \A i \in DOMAIN m : u[m[i]] = v[i] BY <2>1, <2>2
  <2>5. \A i, j \in DOMAIN m : i < j => m[i] < m[j] BY <1>1, <2>2
  <2>6. QED BY <2>3, <2>4, <2>5
<1>3. ASSUME NEW k \in 1..Len(u), u[k] \in D PROVE \E i \in DOMAIN m : m[i] = k
  <2>1. k # n + 1 BY <1>1, <1>3
  <2>2. CASE k <= n
    <3>1. k \in 1..Len(v) /\ v[k] = u[k] BY <1>1, <2>2
    <3>2. QED BY <1>3, <2>2, <3>1
  <2>3. CASE k > n + 1
    <3>1. k - 1 \in 1..Len(v) /\ ~(k - 1 <= n) /\ (k - 1) + 1 = k BY <1>1, <2>3
    <3>2. v[k - 1] = u[k] BY <1>1, <3>1
    <3>3. QED BY <1>3, <3>1, <3>2
  <2>4. k <= n \/ k > n + 1 BY <1>1, <2>1
  <2>5. QED BY <2>2, <2>3, <2>4
<1> HIDE DEF m
<1>4. /\ \A x, y : NextIn(v, D, x, y) => NextIn(u, D, x, y)
      /\ \A x : FirstIn(v, D, x) => FirstIn(u, D, x)
      /\ \A x : LastIn(v, D, x) => LastIn(u, D, x)
      /\ NoneIn(v, D) => NoneIn(u, D)
  BY <1>1, <1>2, <1>3, SameEntries
<1>5. QED BY <1>4 DEF u, v

(* The second queue keeps its order, and has the last word.                *)
LEMMA ConcatOrder ==
  ASSUME NEW S, NEW s \in Seq(S), NEW t \in Seq(S), NEW D
  PROVE  /\ \A x, y : NextIn(t, D, x, y) => NextIn(s \o t, D, x, y)
         /\ \A x : LastIn(t, D, x) => LastIn(s \o t, D, x)
<1> DEFINE u == s \o t
           n == Len(s)
<1>1. /\ n \in Nat /\ Len(t) \in Nat /\ Len(u) = n + Len(t)
      /\ \A i \in 1..Len(t) : u[n + i] = t[i]
  BY ConcatEntries
<1> HIDE DEF u, n
<1>2. ASSUME NEW i \in Nat, NEW j \in Nat, i >= 1, j <= Len(t), Free(t, D, i, j)
      PROVE  Free(u, D, n + i, n + j)
  <2>1. ASSUME NEW k \in (n + i)..(n + j) PROVE u[k] \notin D
    <3>1. k - n \in i..j /\ k - n \in 1..Len(t) /\ n + (k - n) = k BY <1>1, <1>2
    <3>2. t[k - n] \notin D BY <1>2, <3>1 DEF Free
    <3>3. QED BY <1>1, <3>1, <3>2
  <2>2. QED BY <2>1 DEF Free
<1>3. ASSUME NEW x, NEW y, NextIn(t, D, x, y) PROVE NextIn(u, D, x, y)
  <2>1. PICK i \in 1..Len(t), j \in 1..Len(t) :
          i < j /\ t[i] = x /\ t[j] = y /\ x \in D /\ y \in D /\ Free(t, D, i + 1, j - 1)
    BY <1>3 DEF NextIn
  <2>2. /\ n + i \in 1..Len(u) /\ n + j \in 1..Len(u) /\ n + i < n + j
        /\ u[n + i] = x /\ u[n + j] = y /\ i + 1 \in Nat /\ j - 1 \in Nat
        /\ i + 1 >= 1 /\ j - 1 <= Len(t)
        /\ n + (i + 1) = (n + i) + 1 /\ n + (j - 1) = (n + j) - 1
    BY <1>1, <2>1
  <2>3. Free(u, D, (n + i) + 1, (n + j) - 1) BY <1>2, <2>1, <2>2
  <2>4. QED BY <2>1, <2>2, <2>3 DEF NextIn
<1>4. ASSUME NEW x, LastIn(t, D, x) PROVE LastIn(u, D, x)
  <2>1. PICK i \in 1..Len(t) : t[i] = x /\ x \in D /\ Free(t, D, i + 1, Len(t))
    BY <1>4 DEF LastIn
  <2>2. n + i \in 1..Len(u) /\ u[n + i] = x /\ i + 1 \in Nat /\ n + (i + 1) = (n + i) + 1
    BY <1>1, <2>1
  <2>3. Free(u, D, (n + i) + 1, Len(u)) BY <1>1, <1>2, <2>1, <2>2
  <2>4. QED BY <2>1, <2>2, <2>3 DEF LastIn
<1>5. QED BY <1>3, <1>4 DEF u

(* What comes first, last or next occurs.                                  *)
LEMMA OrderOccurs ==
  ASSUME NEW s, NEW D
  PROVE  /\ \A x : FirstIn(s, D, x) \/ LastIn(s, D, x) => Occurs(s, x) /\ x \in D
         /\ \A x, y : NextIn(s, D, x, y) => Occurs(s, x) /\ Occurs(s, y) /\ x \in D /\ y \in D
BY DEF FirstIn, LastIn, NextIn, Occurs

(* What occurs in one of two queues occurs when they are put together.     *)
LEMMA OccursEither ==
  ASSUME NEW S, NEW s \in Seq(S), NEW t \in Seq(S)
  PROVE  \A x : Occurs(s, x) \/ Occurs(t, x) => Occurs(s \o t, x)
<1>1. /\ Len(s) \in Nat /\ Len(t) \in Nat /\ Len(s \o t) = Len(s) + Len(t)
      /\ \A i \in 1..Len(s) : (s \o t)[i] = s[i]
      /\ \A i \in 1..Len(t) : (s \o t)[Len(s) + i] = t[i]
  BY ConcatEntries
<1> DEFINE u == s \o t
<1> HIDE DEF u
<1>2. /\ \A i \in 1..Len(s) : i \in 1..Len(u)
      /\ \A i \in 1..Len(t) : Len(s) + i \in 1..Len(u)
  BY <1>1 DEF u
<1>3. ASSUME NEW x, Occurs(s, x) PROVE Occurs(u, x)
  <2>1. PICK i \in 1..Len(s) : s[i] = x BY <1>3 DEF Occurs
  <2>2. u[i] = x /\ i \in 1..Len(u) BY <1>1, <1>2, <2>1 DEF u
  <2>3. QED BY <2>2 DEF Occurs
<1>4. ASSUME NEW x, Occurs(t, x) PROVE Occurs(u, x)
  <2>1. PICK i \in 1..Len(t) : t[i] = x BY <1>4 DEF Occurs
  <2>2. u[Len(s) + i] = x /\ Len(s) + i \in 1..Len(u) BY <1>1, <1>2, <2>1 DEF u
  <2>3. QED BY <2>2 DEF Occurs
<1>5. QED BY <1>3, <1>4 DEF u

(* What occurs in two queues put together occurs in one of them.           *)
LEMMA ConcatOccurs ==
  ASSUME NEW S, NEW s \in Seq(S), NEW t \in Seq(S), NEW x, Occurs(s \o t, x)
  PROVE  Occurs(s, x) \/ Occurs(t, x)
<1>1. /\ Len(s) \in Nat /\ Len(t) \in Nat /\ Len(s \o t) = Len(s) + Len(t)
      /\ \A i \in 1..Len(s) : (s \o t)[i] = s[i]
      /\ \A i \in 1..Len(t) : (s \o t)[Len(s) + i] = t[i]
  BY ConcatEntries
<1>2. PICK i \in 1..Len(s \o t) : (s \o t)[i] = x BY DEF Occurs
<1>3. CASE i <= Len(s)
  <2>1. i \in 1..Len(s) BY <1>1, <1>3
  <2>2. QED BY <1>1, <1>2, <2>1 DEF Occurs
<1>4. CASE i > Len(s)
  <2>1. i - Len(s) \in 1..Len(t) /\ Len(s) + (i - Len(s)) = i BY <1>1, <1>4
  <2>2. t[i - Len(s)] = x BY <1>1, <1>2, <2>1
  <2>3. QED BY <2>1, <2>2 DEF Occurs
<1>5. QED BY <1>1, <1>3, <1>4

(* How three sequences are joined is all the same.                            *)
Joins(r, x, y) == r \o (x \o y) = (r \o x) \o y

LEMMA AnyGrouping == ASSUME NEW S, NEW r \in Seq(S), NEW x \in Seq(S), NEW y \in Seq(S)
                     PROVE  Joins(r, x, y) /\ r \o <<>> = r
<1>1. Joins(r, x, y)
  BY ConcatAssociative DEF Joins
<1>2. QED
  BY <1>1

(* Append, as a function.                                                     *)
LEMMA AppendIs ==
  ASSUME NEW S, NEW s \in Seq(S), NEW x \in S
  PROVE  Append(s, x) = [j \in 1..(Len(s) + 1) |-> IF j = Len(s) + 1 THEN x ELSE s[j]]
<1>1. PICK t \in Seq(S) : t = Append(s, x)
  <2>1. Append(s, x) \in Seq(S) OBVIOUS
  <2>2. QED BY <2>1
<1>2. /\ Len(t) = Len(s) + 1 /\ Len(s) \in Nat
      /\ \A j \in 1..(Len(s) + 1) : t[j] = IF j = Len(s) + 1 THEN x ELSE s[j]
  BY <1>1
<1>3. t = [j \in 1..Len(t) |-> t[j]] OBVIOUS
<1>4. QED BY <1>1, <1>2, <1>3

-----------------------------------------------------------------------------
(* Several sequences joined into one.  FlattenSeq of the community modules is a   *)
(* recursive function; what it does to a longer queue of sequences is proved    *)
(* from the least number at which it would be false.                        *)
(* The least of a set of numbers: induction, as far as the provers can use it.       *)
LEMMA LeastNumber ==
  ASSUME NEW B, B \subseteq Nat, B # {}
  PROVE  \E x \in B : \A y \in B : x <= y
<1>1. PICK x \in B : \A y \in B : ~(<<y, x>> \in OpToRel(<, Nat))
  BY NatLessThanWellFounded, WFMin
<1>2. ASSUME NEW y \in B PROVE x <= y
  <2>1. x \in Nat /\ y \in Nat OBVIOUS
  <2>2. ~(y < x) BY <1>1, <2>1 DEF OpToRel
  <2>3. QED BY <2>1, <2>2
<1>3. QED BY <1>2

(* g is the recursive function that FlattenSeq computes for q.                   *)
Sums(g, q) == g = [i \in 1..Len(q) |-> IF i = 1 THEN q[i] ELSE g[i - 1] \o q[i]]

LEMMA SumsEntries ==
  ASSUME NEW S, NEW q \in Seq(Seq(S)), NEW g, Sums(g, q)
  PROVE  /\ q # <<>> => g[1] = q[1]
         /\ \A i \in 1..Len(q) : i + 1 <= Len(q) => g[i + 1] = g[i] \o q[i + 1]
         /\ \A i \in 1..Len(q) : g[i] \in Seq(S)
<1>1. Len(q) \in Nat OBVIOUS
<1>2. \A i \in 1..Len(q) : g[i] = IF i = 1 THEN q[i] ELSE g[i - 1] \o q[i]
  BY DEF Sums
<1>3. q # <<>> => g[1] = q[1]
  <2>1. q # <<>> => 1 \in 1..Len(q) BY <1>1
  <2>2. QED BY <1>2, <2>1
<1>4. ASSUME NEW i \in 1..Len(q), i + 1 <= Len(q) PROVE g[i + 1] = g[i] \o q[i + 1]
  <2>1. i + 1 \in 1..Len(q) /\ i + 1 # 1 /\ (i + 1) - 1 = i BY <1>1, <1>4
  <2>2. QED BY <1>2, <2>1
<1>5. \A i \in 1..Len(q) : g[i] \in Seq(S)
  <2> DEFINE B == {i \in 1..Len(q) : g[i] \notin Seq(S)}
  <2> SUFFICES ASSUME B # {} PROVE FALSE
    OBVIOUS
  <2>1. B \subseteq Nat OBVIOUS
  <2>2. PICK x \in B : \A y \in B : x <= y
    <3> HIDE DEF B
    <3>1. QED BY <2>1, LeastNumber
  <2>3. x \in 1..Len(q) /\ g[x] \notin Seq(S) /\ q[x] \in Seq(S) BY <2>2
  <2>4. CASE x = 1 BY <1>2, <2>3, <2>4
  <2>5. CASE x # 1
    <3>1. PICK y \in 1..Len(q) : x = y + 1
      <4>1. x - 1 \in 1..Len(q) /\ x = (x - 1) + 1 BY <1>1, <2>3, <2>5
      <4>2. QED BY <4>1
    <3>2. ~(x <= y) /\ y + 1 <= Len(q) BY <1>1, <2>3, <3>1
    <3>3. g[y] \in Seq(S) BY <2>2, <3>2
    <3>4. g[x] = g[y] \o q[x] BY <1>4, <3>1, <3>2
    <3>5. QED BY <2>3, <3>3, <3>4
  <2>6. QED BY <2>4, <2>5
<1>6. QED BY <1>3, <1>4, <1>5

LEMMA SumsExist ==
  ASSUME NEW S, NEW q \in Seq(Seq(S))
  PROVE  \E g : Sums(g, q)
<1>1. Len(q) \in Nat OBVIOUS
<1> DEFINE Upto(m, g) == g = [i \in 1..m |-> IF i = 1 THEN q[i] ELSE g[i - 1] \o q[i]]
           B == {m \in 0..Len(q) : ~ \E g : Upto(m, g)}
<1> SUFFICES ASSUME B # {} PROVE FALSE
  <2>1. Len(q) \in 0..Len(q) BY <1>1
  <2>2. PICK g : Upto(Len(q), g) BY <2>1
  <2>3. QED BY <2>2 DEF Sums
<1>2. B \subseteq Nat
  <2>1. 0..Len(q) \subseteq Nat BY <1>1
  <2>2. B \subseteq 0..Len(q) OBVIOUS
  <2> HIDE DEF B
  <2>3. QED BY <2>1, <2>2
<1>3. PICK x \in B : \A y \in B : x <= y
  <2> HIDE DEF B
  <2>1. QED BY <1>2, LeastNumber
<1>4. x \in 0..Len(q) /\ ~ \E g : Upto(x, g) BY <1>3
<1>5. CASE x = 0
  <2> DEFINE g == [i \in 1..0 |-> q[i]]
  <2>1. g = [i \in 1..0 |-> IF i = 1 THEN q[i] ELSE g[i - 1] \o q[i]] OBVIOUS
  <2>2. QED BY <1>4, <1>5, <2>1
<1>6. CASE x # 0
  <2>1. PICK y \in 0..Len(q) : x = y + 1
    <3>1. x - 1 \in 0..Len(q) /\ x = (x - 1) + 1 BY <1>1, <1>4, <1>6
    <3>2. QED BY <3>1
  <2>2. ~(x <= y) BY <1>1, <2>1
  <2>3. PICK h : Upto(y, h) BY <1>3, <2>2
  <2> DEFINE new(i) == IF i = 1 THEN q[i] ELSE h[i - 1] \o q[i]
             g == [i \in 1..(y + 1) |-> new(i)]
  <2>4. ASSUME NEW i \in 1..y PROVE g[i] = h[i]
    <3>1. i \in 1..(y + 1) BY <1>1
    <3>2. h[i] = new(i) BY <2>3
    <3>3. QED BY <3>1, <3>2
  <2>5. ASSUME NEW i \in 1..(y + 1)
        PROVE  g[i] = IF i = 1 THEN q[i] ELSE g[i - 1] \o q[i]
    <3>1. i # 1 => i - 1 \in 1..y BY <1>1
    <3> HIDE DEF g
    <3>2. i # 1 => g[i - 1] = h[i - 1] BY <2>4, <3>1
    <3>3. g[i] = new(i) BY DEF g
    <3>4. QED BY <3>2, <3>3
  <2>6. g = [i \in 1..(y + 1) |-> g[i]] OBVIOUS
  <2> HIDE DEF g
  <2>7. Upto(x, g)
    <3>1. [i \in 1..(y + 1) |-> g[i]] = [i \in 1..(y + 1) |-> IF i = 1 THEN q[i] ELSE g[i - 1] \o q[i]]
      BY <2>5
    <3>2. QED BY <2>1, <2>6, <3>1
  <2>8. QED BY <1>4, <2>7
<1>7. QED BY <1>5, <1>6

(* FlattenSeq of the community modules, for queues of any length.               *)
LEMMA FlattenIsLast ==
  ASSUME NEW S, NEW q \in Seq(Seq(S)), q # <<>>
  PROVE  \E g : Sums(g, q) /\ FlattenSeq(q) = g[Len(q)]
<1> DEFINE flatten == CHOOSE g : Sums(g, q)
<1>1. Sums(flatten, q) BY SumsExist
<1>2. Len(q) # 0 OBVIOUS
<1>3. FlattenSeq(q) = flatten[Len(q)] BY <1>2 DEF FlattenSeq, Sums
<1>4. QED BY <1>1, <1>3

LEMMA FlattenEmpty == FlattenSeq(<<>>) = <<>>
BY DEF FlattenSeq

LEMMA FlattenType ==
  ASSUME NEW S, NEW q \in Seq(Seq(S))
  PROVE  FlattenSeq(q) \in Seq(S)
<1>1. CASE q = <<>>
  <2>1. <<>> \in Seq(S) OBVIOUS
  <2>2. QED BY <1>1, <2>1, FlattenEmpty
<1>2. CASE q # <<>>
  <2>1. PICK g : Sums(g, q) /\ FlattenSeq(q) = g[Len(q)] BY <1>2, FlattenIsLast
  <2>2. \A i \in 1..Len(q) : g[i] \in Seq(S) BY <2>1, SumsEntries
  <2>3. Len(q) \in 1..Len(q) BY <1>2
  <2>4. QED BY <2>1, <2>2, <2>3
<1>3. QED BY <1>1, <1>2

(* Where the entries of r are those of q, so are the sums, behind what comes first in g. *)
Parallel(h, r, k, p, q) ==
  /\ k + Len(q) <= Len(r)
  /\ h[k + 1] = p \o q[1]
  /\ \A i \in 1..Len(q) : i # 1 => r[k + i] = q[i]
Behind(h, k, p, g, q) == \A i \in 1..Len(q) : h[k + i] = p \o g[i]

LEMMA SumsAgree ==
  ASSUME NEW S, NEW q \in Seq(Seq(S)), NEW r \in Seq(Seq(S)), NEW g, NEW h, Sums(g, q), Sums(h, r),
         NEW p \in Seq(S), NEW k \in Nat, Parallel(h, r, k, p, q)
  PROVE  Behind(h, k, p, g, q)
<1>0. PICK m \in Nat : m = Len(q) OBVIOUS
<1>1. Len(q) \in Nat /\ Len(r) \in Nat /\ m = Len(q) /\ k + m <= Len(r)
  BY <1>0 DEF Parallel
<1>2. /\ q # <<>> => g[1] = q[1]
      /\ \A i \in 1..Len(q) : i + 1 <= Len(q) => g[i + 1] = g[i] \o q[i + 1]
      /\ \A i \in 1..Len(q) : g[i] \in Seq(S)
  BY SumsEntries
<1>3. \A i \in 1..Len(r) : i + 1 <= Len(r) => h[i + 1] = h[i] \o r[i + 1]
  BY SumsEntries
<1> DEFINE B == {i \in 1..m : h[k + i] # p \o g[i]}
<1> SUFFICES ASSUME B # {} PROVE FALSE
  BY <1>0 DEF Behind
<1>4. B \subseteq Nat OBVIOUS
<1>5. PICK x \in B : \A y \in B : x <= y
  <2> HIDE DEF B
  <2>1. QED BY <1>4, LeastNumber
<1>6. x \in 1..m /\ h[k + x] # p \o g[x] BY <1>5
<1>10. ASSUME NEW y \in 1..m, ~(x <= y) PROVE h[k + y] = p \o g[y] BY <1>5, <1>10
<1> HIDE DEF B
<1>7. CASE x = 1
  <2>1. q # <<>> BY <1>1, <1>6
  <2>2. h[k + 1] = p \o q[1] /\ g[1] = q[1] BY <1>2, <2>1 DEF Parallel
  <2>3. QED BY <1>6, <1>7, <2>2
<1>8. CASE x # 1
  <2>1. PICK y \in 1..m : x = y + 1
    <3>1. x - 1 \in 1..m /\ x = (x - 1) + 1 BY <1>6, <1>8
    <3>2. QED BY <3>1
  <2>0. y \in Nat /\ y >= 1 /\ y + 1 <= m BY <1>6, <2>1
  <2>2. h[k + y] = p \o g[y]
    <3>1. ~(x <= y) BY <2>0, <2>1
    <3>2. QED BY <1>10, <3>1
  <2>3. y \in 1..Len(q) /\ y + 1 \in 1..Len(q) /\ y + 1 <= Len(q) BY <1>1, <2>0
  <2>4. k + y \in 1..Len(r) /\ (k + y) + 1 <= Len(r) /\ (k + y) + 1 = k + x BY <1>1, <2>0, <2>1
  <2>5. h[k + x] = h[k + y] \o r[k + x] BY <1>3, <2>4
  <2>6. r[k + x] = q[x] BY <1>0, <1>6, <1>8 DEF Parallel
  <2>7. g[x] = g[y] \o q[x] BY <1>2, <2>1, <2>3
  <2>8. g[y] \in Seq(S) /\ q[x] \in Seq(S) BY <1>2, <2>1, <2>3
  <2>9. (p \o g[y]) \o q[x] = p \o (g[y] \o q[x])
    <3>1. PICK a \in Seq(S) : a = g[y] BY <2>8
    <3>2. PICK c \in Seq(S) : c = q[x] BY <2>8
    <3>3. p \in Seq(S) /\ a \in Seq(S) /\ c \in Seq(S) OBVIOUS
    <3>4. (p \o a) \o c = p \o (a \o c) BY ONLY <3>3, ConcatAssociative
    <3>5. QED BY <3>1, <3>2, <3>4
  <2>10. QED BY <1>6, <2>2, <2>5, <2>6, <2>7, <2>9
<1>9. QED BY <1>7, <1>8

LEMMA FlattenAppend ==
  ASSUME NEW S, NEW q \in Seq(Seq(S)), NEW s \in Seq(S)
  PROVE  FlattenSeq(Append(q, s)) = FlattenSeq(q) \o s
<1>0. PICK r \in Seq(Seq(S)) : r = Append(q, s)
  <2>1. Append(q, s) \in Seq(Seq(S)) OBVIOUS
  <2>2. QED BY <2>1
<1>1. /\ r \in Seq(Seq(S)) /\ Len(r) = Len(q) + 1 /\ Len(q) \in Nat /\ r[Len(q) + 1] = s
      /\ \A i \in 1..Len(q) : r[i] = q[i]
  BY <1>0
<1>2. PICK h : Sums(h, r) /\ FlattenSeq(r) = h[Len(r)]
  <2>1. r # <<>> BY <1>1
  <2>2. QED BY <1>1, <2>1, FlattenIsLast
<1>3. /\ h[1] = r[1]
      /\ \A i \in 1..Len(r) : i + 1 <= Len(r) => h[i + 1] = h[i] \o r[i + 1]
  <2>1. Sums(h, r) BY <1>2
  <2>2. h[1] = r[1]
    <3>1. 1 \in 1..Len(r) BY <1>1
    <3>2. QED BY <2>1, <3>1 DEF Sums
  <2>3. \A i \in 1..Len(r) : i + 1 <= Len(r) => h[i + 1] = h[i] \o r[i + 1]
    BY <2>1, SumsEntries
  <2>4. QED BY <2>2, <2>3
<1>4. CASE q = <<>>
  <2>1. Len(q) = 0 BY <1>4
  <2>2. FlattenSeq(r) = s BY <1>1, <1>2, <1>3, <2>1
  <2>3. <<>> \o s = s OBVIOUS
  <2>4. QED BY <1>4, <2>2, <2>3, FlattenEmpty, <1>0
<1>5. CASE q # <<>>
  <2>1. PICK g : Sums(g, q) /\ FlattenSeq(q) = g[Len(q)] BY <1>5, FlattenIsLast
  <2>2. Len(q) \in 1..Len(q) /\ 1 \in 1..Len(q) BY <1>1, <1>5
  <2>3. <<>> \in Seq(S) /\ \A t \in Seq(S) : <<>> \o t = t OBVIOUS
  <2>4. q[1] \in Seq(S) /\ g[Len(q)] \in Seq(S)
    <3>1. \A i \in 1..Len(q) : g[i] \in Seq(S) BY <2>1, SumsEntries
    <3>2. QED BY <2>2, <3>1
  <2>5. h[0 + 1] = <<>> \o q[1] BY <1>1, <1>3, <2>2, <2>3, <2>4
  <2>6. \A i \in 1..Len(q) : r[0 + i] = q[i] BY <1>1
  <2>7. \A i \in 1..Len(q) : h[0 + i] = <<>> \o g[i]
    <3>1. 0 \in Nat /\ <<>> \in Seq(S) OBVIOUS
    <3>2. 0 + Len(q) <= Len(r) BY <1>1
    <3>3. Sums(h, r) /\ Sums(g, q) BY <1>2, <2>1
    <3>4. Parallel(h, r, 0, <<>>, q) BY <3>2, <2>5, <2>6 DEF Parallel
    <3>5. Behind(h, 0, <<>>, g, q) BY <3>1, <3>3, <3>4, SumsAgree
    <3>6. QED BY <3>5 DEF Behind
  <2>8. h[Len(q)] = g[Len(q)]
    <3>1. 0 + Len(q) = Len(q) BY <1>1
    <3>2. QED BY <2>2, <2>3, <2>4, <2>7, <3>1
  <2>9. h[Len(q) + 1] = h[Len(q)] \o s
    <3>1. Len(q) \in 1..Len(r) /\ Len(q) + 1 <= Len(r) BY <1>1, <2>2
    <3>2. QED BY <1>1, <1>3, <3>1
  <2>10. QED BY <1>1, <1>2, <2>1, <2>8, <2>9, <1>0
<1>6. QED BY <1>4, <1>5

LEMMA FlattenHead ==
  ASSUME NEW S, NEW q \in Seq(Seq(S)), q # <<>>
  PROVE  FlattenSeq(q) = Head(q) \o FlattenSeq(Tail(q))
<1>0. PICK t \in Seq(Seq(S)) : t = Tail(q)
  <2>1. Tail(q) \in Seq(Seq(S)) OBVIOUS
  <2>2. QED BY <2>1
<1>1. /\ t \in Seq(Seq(S)) /\ Len(t) = Len(q) - 1 /\ Len(q) \in Nat /\ Len(q) >= 1
      /\ Head(q) = q[1] /\ q[1] \in Seq(S)
      /\ \A i \in 1..(Len(q) - 1) : t[i] = q[i + 1]
  BY <1>0
<1>2. PICK g : Sums(g, q) /\ FlattenSeq(q) = g[Len(q)] BY FlattenIsLast
<1>3. /\ g[1] = q[1]
      /\ \A i \in 1..Len(q) : i + 1 <= Len(q) => g[i + 1] = g[i] \o q[i + 1]
  BY <1>1, <1>2, SumsEntries
<1>4. CASE t = <<>>
  <2>1. Len(q) = 1
    <3>1. Len(t) = 0 BY <1>4
    <3>2. QED BY <1>1, <3>1
  <2>2. q[1] \o <<>> = q[1] BY <1>1
  <2>3. QED BY <1>1, <1>2, <1>3, <1>4, <2>1, <2>2, FlattenEmpty, <1>0
<1>5. CASE t # <<>>
  <2>1. PICK h : Sums(h, t) /\ FlattenSeq(t) = h[Len(t)] BY <1>1, <1>5, FlattenIsLast
  <2>2. Len(t) >= 1 /\ Len(t) \in Nat /\ Len(t) \in 1..Len(t) BY <1>1, <1>5
  <2>3. g[1 + 1] = q[1] \o t[1]
    <3>1. 1 \in 1..Len(q) /\ 1 + 1 <= Len(q) /\ 1 \in 1..(Len(q) - 1) BY <1>1, <2>2
    <3>2. QED BY <1>1, <1>3, <3>1
  <2>4. \A i \in 1..Len(t) : q[1 + i] = t[i]
    <3>1. \A i \in 1..Len(t) : i \in 1..(Len(q) - 1) /\ 1 + i = i + 1 BY <1>1
    <3>2. QED BY <1>1, <3>1
  <2>5. \A i \in 1..Len(t) : g[1 + i] = q[1] \o h[i]
    <3>1. PICK p \in Seq(S) : p = q[1] BY <1>1
    <3>2. 1 \in Nat /\ 1 + Len(t) <= Len(q) BY <1>1, <2>2
    <3>3. Sums(g, q) /\ Sums(h, t) BY <1>2, <2>1
    <3>4. Parallel(g, q, 1, p, t) BY <3>1, <3>2, <2>3, <2>4 DEF Parallel
    <3>5. Behind(g, 1, p, h, t) BY <3>2, <3>3, <3>4, SumsAgree
    <3>6. QED BY <3>1, <3>5 DEF Behind
  <2>6. 1 + Len(t) = Len(q) BY <1>1, <2>2
  <2>7. QED BY <1>1, <1>2, <2>1, <2>2, <2>5, <2>6, <1>0
<1>6. QED BY <1>4, <1>5
=============================================================================

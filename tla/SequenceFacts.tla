---------------------------- MODULE SequenceFacts ---------------------------
(***************************************************************************)
(* What the operators on sequences do that the components are built from.  *)
(***************************************************************************)
EXTENDS SequencesExt, SequenceTheorems, WellFoundedInduction, TLAPS

(* The least element of a set of naturals, from their well-founded order.  *)
LEMMA Least ==
    ASSUME NEW T \in SUBSET Nat, T # {}
    PROVE  \E x \in T : \A y \in T : x <= y
<1> DEFINE R == {ss \in Nat \X Nat : ss[1] < ss[2]}
<1>1. IsWellFoundedOn(R, Nat)
  BY NatLessThanWellFounded DEF OpToRel
<1> HIDE DEF R
<1>2. PICK x \in T : \A y \in T : ~(<<y, x>> \in R)
  BY <1>1, WFMin
<1>3. \A y \in T : ~(y < x)
  BY <1>2 DEF R
<1>. QED BY <1>3

(* Induction up to n, of a set: the theorems of the library have it of an  *)
(* operator, which the provers cannot instantiate.                         *)
LEMMA Induction ==
    ASSUME NEW n \in Nat, NEW T \in SUBSET (0..n), 0 \in T,
           \A i \in 1..n : i - 1 \in T => i \in T
    PROVE  T = 0..n
<1> DEFINE missed == (0..n) \ T
<1>1. SUFFICES ASSUME missed # {} PROVE FALSE
  OBVIOUS
<1>2. missed \in SUBSET Nat
  OBVIOUS
<1> HIDE DEF missed
<1>3. PICK i \in missed : \A j \in missed : i <= j
  BY <1>1, <1>2, Least
<1>4. i \in 1..n /\ i - 1 \in 0..n /\ i \notin T
  BY <1>3 DEF missed
<1>5. i - 1 \in T
  BY <1>3, <1>4 DEF missed
<1>. QED BY <1>4, <1>5

(* A function can be defined by its value at 0 and a step.                 *)
Recurs(f, n, V, v0, step) ==
    f \in [0..n -> V] /\ f[0] = v0 /\ \A i \in 1..n : f[i] = step[<<i, f[i - 1]>>]

(* There is such a function.                                               *)
LEMMA Recursion ==
    ASSUME NEW n \in Nat, NEW V, NEW v0 \in V, NEW step,
           \A i \in 1..n, v \in V : step[<<i, v>>] \in V
    PROVE  \E f : Recurs(f, n, V, v0, step)
<1> DEFINE Part(m, f) == f \in [0..m -> V] /\ f[0] = v0 /\ \A i \in 1..m : f[i] = step[<<i, f[i - 1]>>]
           T == {m \in 0..n : \E f : Part(m, f)}
<1>1. 0 \in T
  <2>1. Part(0, [i \in 0..0 |-> v0])
    OBVIOUS
  <2> HIDE DEF Part
  <2>. QED BY <2>1
<1>2. ASSUME NEW m \in 1..n, m - 1 \in T PROVE m \in T
  <2>1. PICK f : Part(m - 1, f)
    BY <1>2
  <2> DEFINE g == [i \in 0..m |-> IF i = m THEN step[<<m, f[m - 1]>>] ELSE f[i]]
  <2>2. f[m - 1] \in V
    BY <2>1
  <2>3. step[<<m, f[m - 1]>>] \in V
    BY <2>2
  <2>4. \A i \in 0..m : i # m => i \in 0..(m - 1)
    OBVIOUS
  <2>5. g \in [0..m -> V]
    BY <2>1, <2>3, <2>4
  <2>6. ASSUME NEW i \in 1..m PROVE g[i] = step[<<i, g[i - 1]>>]
    <3>1. g[i - 1] = f[i - 1]
      OBVIOUS
    <3>2. CASE i = m
      <4>1. g[i] = step[<<i, f[i - 1]>>]
        BY <3>2
      <4>. QED BY <3>1, <4>1
    <3>3. CASE i # m
      <4>1. i \in 1..(m - 1) /\ g[i] = f[i]
        BY <3>3
      <4>. QED BY <2>1, <3>1, <4>1
    <3>. QED BY <3>2, <3>3
  <2>7. g[0] = v0
    BY <2>1
  <2>8. Part(m, g)
    BY <2>5, <2>6, <2>7
  <2> HIDE DEF Part, g
  <2>. QED BY <2>8
<1> HIDE DEF T
<1>3. T \in SUBSET (0..n)
  BY DEF T
<1>4. T = 0..n
  BY <1>1, <1>2, <1>3, Induction
<1>5. n \in T
  BY <1>4
<1>6. PICK f : Part(n, f)
  <2> HIDE DEF Part
  <2>. QED BY <1>5 DEF T
<1>. QED BY <1>6 DEF Recurs

-----------------------------------------------------------------------------

(* A sequence is one of its own elements.                                  *)
LEMMA OfItsElements ==
    ASSUME NEW S, NEW s \in Seq(S)
    PROVE  s \in Seq(ToSet(s))
<1>1. DOMAIN s = 1..Len(s) /\ Len(s) \in Nat
    BY LenProperties
<1>2. s = [i \in 1..Len(s) |-> s[i]]
    BY LenProperties
<1>3. \A i \in 1..Len(s) : s[i] \in ToSet(s)
    BY <1>1 DEF ToSet
<1>. QED
    BY <1>1, <1>2, <1>3

(* A sequence over a set is one over a larger set.                         *)
LEMMA SeqOfMore ==
    ASSUME NEW S, NEW T, S \subseteq T, NEW s \in Seq(S)
    PROVE  s \in Seq(T)
<1>1. s = [i \in 1..Len(s) |-> s[i]] /\ Len(s) \in Nat /\ \A i \in 1..Len(s) : s[i] \in T
    BY LenProperties, ElementOfSeq
<1>. QED
    BY <1>1

(* Only the empty sequence has no elements.                                *)
LEMMA EmptyToSet ==
    ASSUME NEW S, NEW s \in Seq(S)
    PROVE  s = <<>> <=> ToSet(s) = {}
<1>1. Len(s) \in Nat /\ DOMAIN s = 1..Len(s)
    BY LenProperties
<1>2. ASSUME s # <<>> PROVE s[1] \in ToSet(s)
    <2>1. 1 \in DOMAIN s
        BY <1>1, <1>2, EmptySeq
    <2>. QED BY <2>1 DEF ToSet
<1>. QED
    BY <1>2 DEF ToSet

(* What RemoveAt leaves is of the sequence, and in its order.              *)
LEMMA RemoveAtFacts ==
    ASSUME NEW S, NEW s \in Seq(S), NEW i \in 1..Len(s)
    PROVE  /\ RemoveAt(s, i) \in Seq(S)
           /\ Len(RemoveAt(s, i)) = Len(s) - 1
           /\ \A k \in 1..(Len(s) - 1) :
                RemoveAt(s, i)[k] = IF k < i THEN s[k] ELSE s[k + 1]
<1> DEFINE a == SubSeq(s, 1, i - 1)
           b == SubSeq(s, i + 1, Len(s))
<1>1. Len(s) \in Nat /\ \A k \in 1..Len(s) : s[k] \in S
    BY LenProperties, ElementOfSeq
<1>2. /\ a \in Seq(S) /\ Len(a) = i - 1
      /\ \A k \in 1..(i - 1) : a[k] = s[k]
    <2>1. \A k \in 1..(i - 1) : s[k] \in S
        BY <1>1
    <2>2. /\ a \in Seq(S) /\ Len(a) = IF 1 <= i - 1 THEN (i - 1) - 1 + 1 ELSE 0
          /\ \A k \in 1..((i - 1) - 1 + 1) : a[k] = s[1 + k - 1]
        BY ONLY <1>1, <2>1, SubSeqProperties, i \in 1..Len(s), 1 \in Int, i - 1 \in Int
    <2>. QED BY <1>1, <2>2
<1>3. /\ b \in Seq(S) /\ Len(b) = Len(s) - i
      /\ \A k \in 1..(Len(s) - i) : b[k] = s[i + k]
    <2>1. \A k \in (i + 1)..Len(s) : s[k] \in S
        BY <1>1
    <2>2. /\ b \in Seq(S) /\ Len(b) = IF i + 1 <= Len(s) THEN Len(s) - (i + 1) + 1 ELSE 0
          /\ \A k \in 1..(Len(s) - (i + 1) + 1) : b[k] = s[(i + 1) + k - 1]
        BY ONLY <1>1, <2>1, SubSeqProperties, i \in 1..Len(s), i + 1 \in Int
    <2>. QED BY <1>1, <2>2
<1>4. /\ a \o b \in Seq(S) /\ Len(a \o b) = Len(a) + Len(b)
      /\ \A k \in 1..(Len(a) + Len(b)) : (a \o b)[k] = IF k <= Len(a) THEN a[k] ELSE b[k - Len(a)]
    BY ONLY <1>2, <1>3, ConcatProperties
<1> DEFINE c == a \o b
<1>5. RemoveAt(s, i) = c /\ c \in Seq(S) /\ Len(c) = (i - 1) + (Len(s) - i)
    BY <1>2, <1>3, <1>4 DEF RemoveAt
<1>6. \A k \in 1..((i - 1) + (Len(s) - i)) :
        c[k] = IF k <= i - 1 THEN a[k] ELSE b[k - (i - 1)]
    <2> HIDE DEF a, b
    <2>. QED BY <1>2, <1>3, <1>4
<1> HIDE DEF a, b, c
<1>7. \A k \in 1..(Len(s) - 1) : c[k] = IF k < i THEN s[k] ELSE s[k + 1]
    <2>1. TAKE k \in 1..(Len(s) - 1)
    <2>2. k \in 1..((i - 1) + (Len(s) - i)) /\ (k < i <=> k <= i - 1)
        BY <1>1
    <2>3. CASE k < i
        <3>1. k \in 1..(i - 1)
            BY <2>3
        <3>. QED BY ONLY <1>2, <1>6, <2>2, <2>3, <3>1
    <2>4. CASE ~(k < i)
        <3>1. k - (i - 1) \in 1..(Len(s) - i) /\ i + (k - (i - 1)) = k + 1
            BY <1>1, <2>4
        <3>2. c[k] = b[k - (i - 1)]
            BY ONLY <1>6, <2>2, <2>4
        <3>3. b[k - (i - 1)] = s[i + (k - (i - 1))]
            BY ONLY <1>3, <3>1
        <3>. QED
            BY ONLY <2>4, <3>1, <3>2, <3>3
    <2>. QED BY <2>3, <2>4
<1>8. (i - 1) + (Len(s) - i) = Len(s) - 1
    BY <1>1
<1>. QED
    BY <1>5, <1>7, <1>8

(* What InsertAt makes.                                                    *)
LEMMA InsertAtFacts ==
    ASSUME NEW S, NEW s \in Seq(S), NEW i \in 1..(Len(s) + 1), NEW e \in S
    PROVE  /\ InsertAt(s, i, e) \in Seq(S)
           /\ Len(InsertAt(s, i, e)) = Len(s) + 1
           /\ \A k \in 1..(Len(s) + 1) :
                InsertAt(s, i, e)[k] = IF k < i THEN s[k] ELSE IF k = i THEN e ELSE s[k - 1]
<1> DEFINE a == SubSeq(s, 1, i - 1)
           b == SubSeq(s, i, Len(s))
<1>1. Len(s) \in Nat /\ \A k \in 1..Len(s) : s[k] \in S
    BY LenProperties, ElementOfSeq
<1>2. /\ a \in Seq(S) /\ Len(a) = i - 1
      /\ \A k \in 1..(i - 1) : a[k] = s[k]
    <2>1. \A k \in 1..(i - 1) : s[k] \in S
        BY <1>1
    <2>2. /\ a \in Seq(S) /\ Len(a) = IF 1 <= i - 1 THEN (i - 1) - 1 + 1 ELSE 0
          /\ \A k \in 1..((i - 1) - 1 + 1) : a[k] = s[1 + k - 1]
        BY ONLY <1>1, <2>1, SubSeqProperties, i \in 1..(Len(s) + 1), 1 \in Int, i - 1 \in Int
    <2>. QED BY <1>1, <2>2
<1>3. /\ b \in Seq(S) /\ Len(b) = Len(s) - i + 1
      /\ \A k \in 1..(Len(s) - i + 1) : b[k] = s[i + k - 1]
    <2>1. \A k \in i..Len(s) : s[k] \in S
        BY <1>1
    <2>2. /\ b \in Seq(S) /\ Len(b) = IF i <= Len(s) THEN Len(s) - i + 1 ELSE 0
          /\ \A k \in 1..(Len(s) - i + 1) : b[k] = s[i + k - 1]
        BY ONLY <1>1, <2>1, SubSeqProperties, i \in 1..(Len(s) + 1), i \in Int
    <2>. QED BY <1>1, <2>2
<1>4. /\ <<e>> \in Seq(S) /\ Len(<<e>>) = 1 /\ <<e>>[1] = e
    OBVIOUS
<1> DEFINE c == <<e>>
<1>5. c \in Seq(S) /\ Len(c) = 1 /\ c[1] = e
    BY <1>4
<1>6. InsertAt(s, i, e) = a \o c \o b
    BY DEF InsertAt
<1> HIDE DEF a, b, c
<1>7. /\ a \o c \in Seq(S) /\ Len(a \o c) = i
      /\ \A k \in 1..i : (a \o c)[k] = IF k < i THEN s[k] ELSE e
    <2>1. /\ a \o c \in Seq(S) /\ Len(a \o c) = Len(a) + Len(c)
          /\ \A k \in 1..(Len(a) + Len(c)) : (a \o c)[k] = IF k <= Len(a) THEN a[k] ELSE c[k - Len(a)]
        BY ONLY <1>2, <1>5, ConcatProperties
    <2>. QED BY <1>1, <1>2, <1>5, <2>1
<1> DEFINE d == a \o c
<1>8. d \in Seq(S) /\ Len(d) = i /\ \A k \in 1..i : d[k] = IF k < i THEN s[k] ELSE e
    BY <1>7
<1>9. InsertAt(s, i, e) = d \o b
    BY <1>6
<1> HIDE DEF d
<1>10. /\ d \o b \in Seq(S) /\ Len(d \o b) = Len(d) + Len(b)
       /\ \A k \in 1..(Len(d) + Len(b)) : (d \o b)[k] = IF k <= Len(d) THEN d[k] ELSE b[k - Len(d)]
    BY ONLY <1>8, <1>3, ConcatProperties
<1> DEFINE f == d \o b
<1>11. /\ InsertAt(s, i, e) = f /\ f \in Seq(S) /\ Len(f) = i + (Len(s) + 1 - i)
       /\ \A k \in 1..(i + (Len(s) + 1 - i)) : f[k] = IF k <= i THEN d[k] ELSE b[k - i]
    BY <1>3, <1>8, <1>9, <1>10
<1> HIDE DEF f
<1>12. \A k \in 1..(Len(s) + 1) :
          f[k] = IF k < i THEN s[k] ELSE IF k = i THEN e ELSE s[k - 1]
    <2>1. TAKE k \in 1..(Len(s) + 1)
    <2>2. k \in 1..(i + (Len(s) + 1 - i)) /\ k \in Int /\ i \in Int
        BY <1>1
    <2>3. CASE k <= i
        <3>1. k \in 1..i /\ (~(k < i) => k = i)
            BY <2>2, <2>3
        <3>. QED BY ONLY <1>8, <1>11, <2>2, <2>3, <3>1
    <2>4. CASE ~(k <= i)
        <3>1. k - i \in 1..(Len(s) + 1 - i) /\ i - 1 + (k - i) = k - 1 /\ ~(k < i) /\ k # i
            BY <1>1, <2>4
        <3>2. f[k] = b[k - i]
            BY ONLY <1>11, <2>2, <2>4
        <3>3. b[k - i] = s[i - 1 + (k - i)]
            BY ONLY <1>3, <3>1
        <3>. QED BY ONLY <3>1, <3>2, <3>3
    <2>. QED BY <2>3, <2>4
<1>13. i + (Len(s) + 1 - i) = Len(s) + 1
    BY <1>1
<1>. QED
    BY <1>11, <1>12, <1>13

-----------------------------------------------------------------------------
(* What appending and joining do to the set of a sequence's elements.      *)
LEMMA AppendToSet ==
    ASSUME NEW S, NEW s \in Seq(S), NEW e \in S
    PROVE  ToSet(Append(s, e)) = ToSet(s) \cup {e}
<1>1. DOMAIN Append(s, e) = DOMAIN s \cup {Len(s) + 1}
    OBVIOUS
<1>2. \A i \in DOMAIN s : Append(s, e)[i] = s[i]
    OBVIOUS
<1>3. Append(s, e)[Len(s) + 1] = e
    OBVIOUS
<1>. QED
    BY <1>1, <1>2, <1>3 DEF ToSet

(* What is put together has the elements of both.                          *)
LEMMA ConcatToSet ==
    ASSUME NEW S, NEW s \in Seq(S), NEW t \in Seq(S)
    PROVE  ToSet(s \o t) = ToSet(s) \cup ToSet(t)
<1>1. /\ Len(s) \in Nat /\ DOMAIN s = 1..Len(s)
      /\ Len(t) \in Nat /\ DOMAIN t = 1..Len(t)
    BY LenProperties
<1>2. /\ s \o t \in Seq(S) /\ Len(s \o t) = Len(s) + Len(t)
      /\ \A i \in 1..(Len(s) + Len(t)) :
           (s \o t)[i] = IF i <= Len(s) THEN s[i] ELSE t[i - Len(s)]
    BY ConcatProperties
<1> DEFINE both == s \o t
<1>3. /\ DOMAIN both = 1..(Len(s) + Len(t))
      /\ \A i \in 1..(Len(s) + Len(t)) : both[i] = IF i <= Len(s) THEN s[i] ELSE t[i - Len(s)]
    BY <1>2, LenProperties
<1> HIDE DEF both
<1>4. ToSet(both) \subseteq ToSet(s) \cup ToSet(t)
    BY <1>1, <1>3 DEF ToSet
<1>5. ASSUME NEW i \in 1..Len(s) PROVE s[i] \in ToSet(both)
    BY <1>1, <1>3 DEF ToSet
<1>6. ASSUME NEW i \in 1..Len(t) PROVE t[i] \in ToSet(both)
    <2>1. Len(s) + i \in 1..(Len(s) + Len(t)) /\ ~(Len(s) + i <= Len(s)) /\ Len(s) + i - Len(s) = i
        BY <1>1
    <2>2. both[Len(s) + i] = t[i]
        BY <1>3, <2>1
    <2>. QED BY <1>3, <2>1, <2>2 DEF ToSet
<1>. QED
    BY <1>1, <1>4, <1>5, <1>6 DEF both, ToSet

(* FlattenSeq: the lists put together one after another.                   *)
Builds(h, ss, S) ==
    /\ h \in [0..Len(ss) -> Seq(S)]
    /\ h[0] = <<>>
    /\ \A i \in 1..Len(ss) : h[i] = h[i - 1] \o ss[i]
    /\ FlattenSeq(ss) = h[Len(ss)]

(* There is a function that builds it up.                                  *)
LEMMA FlattenBuilds ==
    ASSUME NEW S, NEW ss \in Seq(Seq(S))
    PROVE  \E h : Builds(h, ss, S)
<1> DEFINE n == Len(ss)
           V == Seq(S)
           step == [p \in (1..n) \X V |-> p[2] \o ss[p[1]]]
<1>1. n \in Nat /\ DOMAIN ss = 1..n /\ \A k \in 1..n : ss[k] \in V
    BY LenProperties, ElementOfSeq
<1>2. \A v \in V, w \in V : v \o w \in V
    BY ConcatProperties
<1>3. <<>> \in V
    OBVIOUS
<1>4. \A i \in 1..n, v \in V : step[<<i, v>>] = v \o ss[i]
    OBVIOUS
<1>5. \A i \in 1..n, v \in V : step[<<i, v>>] \in V
    BY <1>1, <1>2, <1>4
<1>6. \A v \in V : <<>> \o v = v
    BY ConcatEmptySeq
<1>7. n = 0 => FlattenSeq(ss) = <<>>
    BY EmptySeq DEF FlattenSeq
<1> DEFINE Is(g) == g = [i \in 1..n |-> IF i = 1 THEN ss[i] ELSE g[i - 1] \o ss[i]]
           flatten == CHOOSE g : Is(g)
<1>8. n # 0 => FlattenSeq(ss) = flatten[n]
    BY DEF FlattenSeq
<1> HIDE DEF step, V, n
<1>9. PICK h : Recurs(h, n, V, <<>>, step)
    BY <1>1, <1>3, <1>5, Recursion
<1>10. /\ h \in [0..n -> V] /\ h[0] = <<>>
       /\ \A i \in 1..n : h[i] = h[i - 1] \o ss[i]
    <2>1. /\ h \in [0..n -> V] /\ h[0] = <<>>
          /\ \A i \in 1..n : h[i] = step[<<i, h[i - 1]>>]
        BY <1>9 DEF Recurs
    <2>2. \A i \in 1..n : i - 1 \in 0..n
        BY <1>1
    <2>3. \A i \in 1..n : h[i - 1] \in V
        BY <2>1, <2>2
    <2>. QED BY <1>4, <2>1, <2>3
<1> DEFINE g == [i \in 1..n |-> h[i]]
<1>11. Is(g)
    <2>1. ASSUME NEW i \in 1..n PROVE g[i] = IF i = 1 THEN ss[i] ELSE g[i - 1] \o ss[i]
        <3>1. CASE i = 1
            <4>0. i - 1 = 0
                BY <3>1
            <4>0a. h[i] = h[i - 1] \o ss[i] /\ ss[i] \in V /\ h[0] = <<>>
                BY <1>1, <1>10
            <4>1. h[i] = <<>> \o ss[i] /\ ss[i] \in V
                BY ONLY <4>0, <4>0a
            <4>2. h[i] = ss[i]
                BY ONLY <1>6, <4>1
            <4>. QED BY <3>1, <4>2
        <3>2. CASE i # 1
            <4>1. i - 1 \in 1..n
                BY <1>1, <3>2
            <4>2. h[i] = h[i - 1] \o ss[i]
                BY <1>10
            <4>. QED BY <3>2, <4>1, <4>2
        <3>. QED BY <3>1, <3>2
    <2>. QED BY <2>1
<1> HIDE DEF g
<1>12. Is(flatten)
    <2> HIDE DEF Is
    <2>. QED BY <1>11
<1> HIDE DEF flatten
<1>13. \A i \in 1..n : flatten[i] = IF i = 1 THEN ss[i] ELSE flatten[i - 1] \o ss[i]
    BY <1>12
<1> DEFINE T == {i \in 0..n : i # 0 => flatten[i] = h[i]}
<1>14. ASSUME NEW i \in 1..n, i - 1 \in T PROVE i \in T
    <2>1. h[i] = h[i - 1] \o ss[i]
        BY <1>10
    <2>2. CASE i = 1
        <3>0. i - 1 = 0 /\ flatten[i] = ss[i]
            BY <1>13, <2>2
        <3>1. h[i] = <<>> \o ss[i] /\ ss[i] \in V
            BY <1>1, <1>10, <2>1, <3>0
        <3>2. flatten[i] = h[i]
            BY ONLY <1>6, <3>0, <3>1
        <3>3. i \in 0..n
            BY <1>1
        <3>. QED BY <3>2, <3>3
    <2>3. CASE i # 1
        <3>1. flatten[i] = flatten[i - 1] \o ss[i]
            BY <1>13, <2>3
        <3>2. i - 1 # 0 /\ flatten[i - 1] = h[i - 1]
            BY <1>14, <2>3
        <3>3. flatten[i] = h[i] /\ i \in 0..n
            BY ONLY <1>1, <2>1, <3>1, <3>2, i \in 1..n
        <3>. QED BY <3>3
    <2>. QED BY <2>2, <2>3
<1>15. T \in SUBSET (0..n) /\ 0 \in T
    BY <1>1
<1> HIDE DEF T
<1>16. T = 0..n
    BY <1>1, <1>14, <1>15, Induction
<1>17. n # 0 => flatten[n] = h[n]
    <2>1. n \in T
        BY <1>1, <1>16
    <2>. QED BY <2>1 DEF T
<1>18. FlattenSeq(ss) = h[n]
    BY <1>7, <1>8, <1>10, <1>17
<1>. QED
    BY <1>10, <1>18 DEF Builds, n, V

(* It has the elements of all.                                             *)
LEMMA FlattenFacts ==
    ASSUME NEW S, NEW ss \in Seq(Seq(S))
    PROVE  /\ FlattenSeq(ss) \in Seq(S)
           /\ ToSet(FlattenSeq(ss)) = UNION {ToSet(ss[k]) : k \in DOMAIN ss}
<1> DEFINE n == Len(ss)
<1>1. n \in Nat /\ DOMAIN ss = 1..n /\ \A k \in 1..n : ss[k] \in Seq(S)
    BY LenProperties, ElementOfSeq
<1>2. PICK h : Builds(h, ss, S)
    BY FlattenBuilds
<1>3. /\ \A i \in 0..n : h[i] \in Seq(S)
      /\ h[0] = <<>> /\ FlattenSeq(ss) = h[n]
      /\ \A i \in 1..n : h[i] = h[i - 1] \o ss[i]
    BY <1>2 DEF Builds
<1> DEFINE Upto(i) == UNION {ToSet(ss[k]) : k \in 1..i}
           T == {i \in 0..n : ToSet(h[i]) = Upto(i)}
<1>4. ASSUME NEW i \in 1..n, i - 1 \in T PROVE i \in T
    <2>1. i - 1 \in 0..n
        BY <1>1
    <2>2. h[i - 1] \in Seq(S) /\ ss[i] \in Seq(S) /\ h[i] = h[i - 1] \o ss[i]
        BY <1>1, <1>3, <2>1
    <2>3. ToSet(h[i]) = ToSet(h[i - 1]) \cup ToSet(ss[i])
        BY <2>2, ConcatToSet
    <2>4. 1..i = (1..(i - 1)) \cup {i}
        BY <1>1
    <2>5. Upto(i) = Upto(i - 1) \cup ToSet(ss[i])
        BY <2>4
    <2>6. i \in 0..n /\ ToSet(h[i - 1]) = Upto(i - 1)
        BY <1>1, <1>4
    <2> HIDE DEF Upto
    <2>. QED BY <2>3, <2>5, <2>6
<1>5. T \in SUBSET (0..n) /\ 0 \in T
    <2>1. ToSet(<<>>) = {} /\ 1..0 = {}
        BY DEF ToSet
    <2>. QED BY <1>1, <1>3, <2>1
<1> HIDE DEF T, n
<1>5a. T = 0..n
    BY <1>1, <1>4, <1>5, Induction
<1>6. n \in T
    BY <1>1, <1>5a
<1>7. ToSet(h[n]) = Upto(n)
    BY <1>6 DEF T
<1>. QED
    BY <1>1, <1>3, <1>7

(* Lists of the same lengths come together alike: a place in one is the    *)
(* same place in the other.                                                *)
Beside(f, g, p, s, t, k) == f[p] = s[k] /\ g[p] = t[k]

(* So each place of the one is beside one of the other, and all are.       *)
LEMMA FlattenAlike ==
    ASSUME NEW S, NEW ss \in Seq(Seq(S)), NEW tt \in Seq(Seq(S)), Len(ss) = Len(tt),
           \A i \in 1..Len(ss) : Len(ss[i]) = Len(tt[i])
    PROVE  /\ Len(FlattenSeq(ss)) = Len(FlattenSeq(tt))
           /\ \A p \in 1..Len(FlattenSeq(ss)) : \E i \in 1..Len(ss) : \E k \in 1..Len(ss[i]) :
                Beside(FlattenSeq(ss), FlattenSeq(tt), p, ss[i], tt[i], k)
           /\ \A i \in 1..Len(ss) : \A k \in 1..Len(ss[i]) : \E p \in 1..Len(FlattenSeq(ss)) :
                Beside(FlattenSeq(ss), FlattenSeq(tt), p, ss[i], tt[i], k)
<1> DEFINE n == Len(ss)
<1>1. n \in Nat /\ \A i \in 1..n : ss[i] \in Seq(S) /\ tt[i] \in Seq(S)
    BY LenProperties, ElementOfSeq
<1>2. PICK g : Builds(g, ss, S)
    BY FlattenBuilds
<1>3. PICK h : Builds(h, tt, S)
    BY FlattenBuilds
<1>4. /\ \A i \in 0..n : g[i] \in Seq(S) /\ h[i] \in Seq(S)
      /\ g[0] = <<>> /\ h[0] = <<>>
      /\ FlattenSeq(ss) = g[n] /\ FlattenSeq(tt) = h[n]
      /\ \A i \in 1..n : g[i] = g[i - 1] \o ss[i] /\ h[i] = h[i - 1] \o tt[i]
    BY <1>2, <1>3 DEF Builds
<1> DEFINE From(m) == \A p \in 1..Len(g[m]) : \E i \in 1..m : \E k \in 1..Len(ss[i]) :
                        Beside(g[m], h[m], p, ss[i], tt[i], k)
           To(m) == \A i \in 1..m : \A k \in 1..Len(ss[i]) : \E p \in 1..Len(g[m]) :
                      Beside(g[m], h[m], p, ss[i], tt[i], k)
           T == {m \in 0..n : Len(g[m]) = Len(h[m]) /\ From(m) /\ To(m)}
<1> HIDE DEF n
<1>5. ASSUME NEW m \in 1..n, m - 1 \in T PROVE m \in T
    <2> DEFINE a == g[m - 1]
               b == h[m - 1]
               s == ss[m]
               t == tt[m]
               c == g[m]
               d == h[m]
               la == Len(a)
               ls == Len(s)
    <2>1. m - 1 \in 0..n
        BY <1>1
    <2>2. a \in Seq(S) /\ b \in Seq(S) /\ s \in Seq(S) /\ t \in Seq(S) /\ c = a \o s /\ d = b \o t
        BY <1>1, <1>4, <2>1
    <2>3. la = Len(b) /\ ls = Len(t) /\ la \in Nat /\ ls \in Nat
        BY <1>5, <2>2, LenProperties DEF n
    <2>4. From(m - 1) /\ To(m - 1)
        BY <1>5
    <2>4a. /\ \A p \in 1..la : \E i \in 1..(m - 1) : \E k \in 1..Len(ss[i]) :
                Beside(a, b, p, ss[i], tt[i], k)
           /\ \A i \in 1..(m - 1) : \A k \in 1..Len(ss[i]) : \E p \in 1..la :
                Beside(a, b, p, ss[i], tt[i], k)
        BY <2>4
    <2> HIDE DEF a, b, s, t, c, d, la, ls, From, To
    <2>5. /\ Len(c) = la + ls /\ Len(d) = la + ls
          /\ \A p \in 1..(la + ls) : /\ c[p] = IF p <= la THEN a[p] ELSE s[p - la]
                                     /\ d[p] = IF p <= la THEN b[p] ELSE t[p - la]
        <3>1. /\ Len(a \o s) = la + ls
              /\ \A p \in 1..(la + ls) : (a \o s)[p] = IF p <= la THEN a[p] ELSE s[p - la]
            BY ONLY <2>2, ConcatProperties DEF la, ls
        <3>2. /\ Len(b \o t) = la + ls
              /\ \A p \in 1..(la + ls) : (b \o t)[p] = IF p <= la THEN b[p] ELSE t[p - la]
            BY ONLY <2>2, <2>3, ConcatProperties
        <3>. QED BY ONLY <2>2, <3>1, <3>2
    <2>6. /\ \A p \in 1..la : p \in 1..(la + ls) /\ c[p] = a[p] /\ d[p] = b[p]
          /\ \A k \in 1..ls : la + k \in 1..(la + ls) /\ c[la + k] = s[k] /\ d[la + k] = t[k]
          /\ \A p \in 1..(la + ls) : p \in 1..la \/ \E k \in 1..ls : p = la + k
        <3>1. \A p \in 1..la : p \in 1..(la + ls) /\ c[p] = a[p] /\ d[p] = b[p]
            BY ONLY <2>3, <2>5
        <3>2. ASSUME NEW k \in 1..ls PROVE la + k \in 1..(la + ls) /\ c[la + k] = s[k] /\ d[la + k] = t[k]
            <4>1. la + k \in 1..(la + ls) /\ ~(la + k <= la) /\ (la + k) - la = k
                BY ONLY <2>3, k \in 1..ls
            <4>. QED BY ONLY <2>5, <4>1
        <3>3. ASSUME NEW p \in 1..(la + ls), p \notin 1..la PROVE \E k \in 1..ls : p = la + k
            <4>1. p - la \in 1..ls /\ p = la + (p - la)
                BY ONLY <2>3, <3>3, p \in 1..(la + ls)
            <4>. QED BY <4>1
        <3>. QED BY <3>1, <3>2, <3>3
    <2>7. \A i \in 1..(m - 1) : i \in 1..m
        BY <1>1
    <2>7a. m \in 1..m /\ \A i \in 1..m : i \in 1..(m - 1) \/ i = m
        BY <1>1
    <2>8. ASSUME NEW p \in 1..(la + ls)
          PROVE \E i \in 1..m : \E k \in 1..Len(ss[i]) : Beside(c, d, p, ss[i], tt[i], k)
        <3>1. CASE p \in 1..la
            <4>1. PICK i \in 1..(m - 1) : \E k \in 1..Len(ss[i]) : Beside(a, b, p, ss[i], tt[i], k)
                BY <2>4a, <3>1
            <4>2. PICK k \in 1..Len(ss[i]) : Beside(a, b, p, ss[i], tt[i], k)
                BY <4>1
            <4>3. Beside(c, d, p, ss[i], tt[i], k)
                BY <2>6, <3>1, <4>2 DEF Beside
            <4>. QED BY <2>7, <4>3
        <3>2. ASSUME NEW k \in 1..ls, p = la + k
              PROVE \E i \in 1..m : \E kk \in 1..Len(ss[i]) : Beside(c, d, p, ss[i], tt[i], kk)
            <4>1. Beside(c, d, p, ss[m], tt[m], k) /\ k \in 1..Len(ss[m])
                BY <2>6, <3>2 DEF Beside, s, t, ls
            <4>. QED BY <2>7a, <4>1
        <3>. QED BY <2>6, <3>1, <3>2
    <2>9. ASSUME NEW i \in 1..m, NEW k \in 1..Len(ss[i])
          PROVE \E p \in 1..(la + ls) : Beside(c, d, p, ss[i], tt[i], k)
        <3>1. CASE i \in 1..(m - 1)
            <4>1. PICK p \in 1..la : Beside(a, b, p, ss[i], tt[i], k)
                BY <2>4a, <3>1
            <4>2. p \in 1..(la + ls) /\ Beside(c, d, p, ss[i], tt[i], k)
                BY <2>6, <4>1 DEF Beside
            <4>. QED BY <4>2
        <3>2. CASE i = m
            <4>1. k \in 1..ls
                BY <3>2 DEF ls, s
            <4>2. la + k \in 1..(la + ls) /\ Beside(c, d, la + k, ss[i], tt[i], k)
                BY <2>6, <3>2, <4>1 DEF Beside, s, t
            <4>. QED BY <4>2
        <3>. QED BY <2>7a, <3>1, <3>2
    <2>10. Len(g[m]) = Len(h[m]) /\ From(m) /\ To(m)
        <3>1. Len(g[m]) = la + ls /\ Len(h[m]) = la + ls
            BY <2>5 DEF c, d
        <3>2. From(m)
            BY <2>8, <3>1 DEF From, c, d
        <3>3. To(m)
            BY <2>9, <3>1 DEF To, c, d
        <3>. QED BY <3>1, <3>2, <3>3
    <2>. QED BY <1>1, <2>10
<1>6. T \in SUBSET (0..n) /\ 0 \in T
    <2>1. Len(<<>>) = 0 /\ 1..0 = {}
        OBVIOUS
    <2>. QED BY <1>1, <1>4, <2>1
<1> HIDE DEF T, From, To
<1>7. T = 0..n
    BY <1>1, <1>5, <1>6, Induction
<1>8. n \in T
    BY <1>1, <1>7
<1>9. Len(g[n]) = Len(h[n]) /\ From(n) /\ To(n)
    BY <1>8 DEF T
<1>10. g[n] = FlattenSeq(ss) /\ h[n] = FlattenSeq(tt)
    BY <1>4
<1>. QED
    BY ONLY <1>9, <1>10 DEF From, To, n
=============================================================================

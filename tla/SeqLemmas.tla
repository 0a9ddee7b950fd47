----------------------------- MODULE SeqLemmas -----------------------------
(***************************************************************************)
(* Facts about numbers and sequences that the proofs about several         *)
(* components need: the least-number principle, and what appending to,     *)
(* inserting into and removing from a sequence makes of its elements.      *)
(***************************************************************************)
EXTENDS Integers, Sequences, FiniteSets, SequencesExt, SequenceTheorems, FiniteSetTheorems,
        WellFoundedInduction, TLAPS

-----------------------------------------------------------------------------
(* Numbers.                                                                *)

\* The least-number principle.
LEMMA LeastNat ==
  ASSUME NEW T, T \subseteq Nat, T # {}
  PROVE  \E x \in T : \A y \in T : x <= y
<1> DEFINE R == {ss \in Nat \X Nat : ss[1] < ss[2]}
<1>1. IsWellFoundedOn(R, Nat)
  BY NatLessThanWellFounded DEF OpToRel
<1>2. \E x \in T : \A y \in T : ~(<<y, x>> \in R)
  <2> HIDE DEF R
  <2> QED BY <1>1, WFMin
<1>3. \A x, y \in T : ~(<<y, x>> \in R) => x <= y
  OBVIOUS
<1> HIDE DEF R
<1> QED BY <1>2, <1>3

\* The greatest number of a bounded set.
LEMMA GreatestNat ==
  ASSUME NEW T, NEW n \in Nat, T \subseteq 0..n, T # {}
  PROVE  \E x \in T : \A y \in T : y <= x
<1> DEFINE U == {n - x : x \in T}
<1>1. U \subseteq Nat /\ U # {}
  <2>1. \A x \in T : x \in 0..n
    OBVIOUS
  <2>2. \A x \in T : n - x \in Nat
    BY <2>1
  <2> QED BY <2>2
<1>2. PICK u \in U : \A v \in U : u <= v
  <2> HIDE DEF U
  <2> QED BY <1>1, LeastNat
<1>3. PICK x \in T : u = n - x
  OBVIOUS
<1>4. ASSUME NEW y \in T PROVE y <= x
  <2>1. n - x <= n - y
    BY <1>2, <1>3
  <2> QED BY <2>1
<1> QED BY <1>4

\* Induction over a bounded set of numbers.
LEMMA Upward ==
  ASSUME NEW n \in Nat, NEW T, 0 \in T, \A i \in 1..n : i - 1 \in T => i \in T
  PROVE  \A i \in 0..n : i \in T
<1> DEFINE U == {i \in 0..n : i \notin T}
<1> SUFFICES ASSUME U # {} PROVE FALSE
  OBVIOUS
<1>1. U \subseteq Nat
  OBVIOUS
<1>2. PICK x \in U : \A y \in U : x <= y
  <2> HIDE DEF U
  <2> QED BY ONLY <1>1, U # {}, LeastNat
<1>3. x \in 1..n
  OBVIOUS
<1>4. x - 1 \in T
  BY <1>2, <1>3
<1> QED BY <1>3, <1>4

\* n steps g from e on: the recursive function that makes them exists.
Stepping(T, n, e, g) == n \in Nat /\ e \in T /\ g \in [T \X (1..n) -> T]

LEMMA Iterate ==
  ASSUME NEW T, NEW n, NEW e, NEW g, Stepping(T, n, e, g)
  PROVE  \E f \in [0..n -> T] : f[0] = e /\ \A i \in 1..n : f[i] = g[<<f[i - 1], i>>]
<1> DEFINE Good(f, m) == f \in [0..m -> T] /\ f[0] = e /\ \A i \in 1..m : f[i] = g[<<f[i - 1], i>>]
           S == {m \in 0..n : \E f : Good(f, m)}
<1>0. n \in Nat /\ e \in T /\ g \in [T \X (1..n) -> T]
  BY DEF Stepping
<1>1. 0 \in S
  <2>1. Good([i \in 0..0 |-> e], 0)
    BY <1>0
  <2> HIDE DEF Good
  <2> QED BY <1>0, <2>1
<1>2. ASSUME NEW m \in 1..n, m - 1 \in S PROVE m \in S
  <2>1. PICK f : Good(f, m - 1)
    BY <1>2
  <2> DEFINE h == [i \in 0..m |-> IF i = m THEN g[<<f[m - 1], m>>] ELSE f[i]]
  <2>2. f[m - 1] \in T /\ \A i \in 0..(m - 1) : f[i] \in T
    BY <1>0, <2>1
  <2>3. h \in [0..m -> T]
    BY <1>0, <2>2
  <2>4. h[0] = e
    BY <1>0, <2>1
  <2>5. ASSUME NEW i \in 1..m PROVE h[i] = g[<<h[i - 1], i>>]
    <3>1. h[i - 1] = f[i - 1] /\ h[i] = IF i = m THEN g[<<f[m - 1], m>>] ELSE f[i]
      OBVIOUS
    <3> HIDE DEF h
    <3>2. CASE i = m
      BY <3>1, <3>2
    <3>3. CASE i # m
      <4>1. i \in 1..(m - 1)
        BY <3>3
      <4>2. f[i] = g[<<f[i - 1], i>>]
        BY <2>1, <4>1
      <4>3. h[i] = f[i]
        BY <3>1, <3>3
      <4> QED BY <3>1, <4>2, <4>3
    <3> QED BY <3>2, <3>3
  <2>6. Good(h, m)
    BY <2>3, <2>4, <2>5
  <2> HIDE DEF Good, h
  <2> QED BY <2>6
<1> HIDE DEF S
<1>3. \A i \in 0..n : i \in S
  BY ONLY <1>0, <1>1, <1>2, Upward
<1>4. n \in S
  BY <1>0, <1>3
<1> QED BY <1>4 DEF S

-----------------------------------------------------------------------------
(* Parts of sequences.                                                     *)

\* Two halves.
LEMMA Halves ==
  ASSUME NEW S, NEW s \in Seq(S), NEW n \in 0..Len(s)
  PROVE  /\ SubSeq(s, 1, n) \in Seq(S) /\ SubSeq(s, n + 1, Len(s)) \in Seq(S)
         /\ Len(SubSeq(s, 1, n)) = n /\ Len(SubSeq(s, n + 1, Len(s))) = Len(s) - n
         /\ \A i \in 1..n : SubSeq(s, 1, n)[i] = s[i]
         /\ \A i \in 1..(Len(s) - n) : SubSeq(s, n + 1, Len(s))[i] = s[n + i]
         /\ SubSeq(s, 1, n) \o SubSeq(s, n + 1, Len(s)) = s
<1>1. Len(s) \in Nat /\ \A i \in 1..Len(s) : s[i] \in S
  OBVIOUS
<1>2. 1 \in 1..(Len(s) + 1) /\ n \in 0..Len(s) /\ Len(s) \in n..Len(s)
  BY <1>1
<1>3. SubSeq(s, 1, n) \o SubSeq(s, n + 1, Len(s)) = s
  <2> DEFINE m == 1
             l == Len(s)
  <2>1. m \in 1..(Len(s) + 1) /\ n \in (m - 1)..Len(s) /\ l \in n..Len(s)
    BY <1>1
  <2> HIDE DEF m, l
  <2>2. SubSeq(s, m, n) \o SubSeq(s, n + 1, l) = SubSeq(s, m, l)
    BY <2>1, ConcatAdjacentSubSeq
  <2> QED BY <2>2, SubSeqFull DEF m, l
<1>4. \A i \in 1..n : s[i] \in S
  BY <1>1
<1>5. \A i \in (n + 1)..Len(s) : s[i] \in S
  BY <1>1
<1>6. /\ SubSeq(s, 1, n) \in Seq(S) /\ Len(SubSeq(s, 1, n)) = n
      /\ \A i \in 1..n : SubSeq(s, 1, n)[i] = s[i]
  BY <1>4, SubSeqProperties
<1>7. /\ SubSeq(s, n + 1, Len(s)) \in Seq(S) /\ Len(SubSeq(s, n + 1, Len(s))) = Len(s) - n
      /\ \A i \in 1..(Len(s) - n) : SubSeq(s, n + 1, Len(s))[i] = s[n + i]
  BY <1>1, <1>5, SubSeqProperties
<1> QED BY <1>3, <1>6, <1>7

-----------------------------------------------------------------------------
(* Sequences in which nothing comes twice.                                 *)

LEMMA RangeProperties ==
  ASSUME NEW S, NEW s \in Seq(S)
  PROVE  /\ Len(s) \in Nat /\ DOMAIN s = 1..Len(s)
         /\ Range(s) \subseteq S /\ Range(s) = {s[i] : i \in 1..Len(s)}
         /\ \A i \in 1..Len(s) : s[i] \in Range(s) /\ s[i] \in S
         /\ (s = <<>> <=> Len(s) = 0)
BY DEF Range

LEMMA AppendRange ==
  ASSUME NEW S, NEW s \in Seq(S), NEW a \in S
  PROVE  /\ Append(s, a) \in Seq(S)
         /\ Range(Append(s, a)) = Range(s) \cup {a}
         /\ IsInjective(s) /\ a \notin Range(s) => IsInjective(Append(s, a))
<1> DEFINE t == Append(s, a)
<1>1. /\ t \in Seq(S) /\ Len(s) \in Nat /\ Len(t) = Len(s) + 1
      /\ \A i \in 1..Len(s) : t[i] = s[i]
      /\ t[Len(s) + 1] = a
  BY AppendProperties
<1>2. DOMAIN t = 1..Len(t) /\ DOMAIN s = 1..Len(s)
  BY <1>1
<1> HIDE DEF t
<1>3. Range(t) = Range(s) \cup {a}
  <2>1. ASSUME NEW x \in Range(t) PROVE x \in Range(s) \cup {a}
    BY <1>1, <1>2 DEF Range
  <2>2. ASSUME NEW x \in Range(s) PROVE x \in Range(t)
    <3>1. PICK i \in 1..Len(s) : x = s[i]
      BY <1>2 DEF Range
    <3>2. i \in DOMAIN t /\ t[i] = x
      BY <1>1, <1>2, <3>1
    <3> QED BY <3>2 DEF Range
  <2>3. a \in Range(t)
    <3>1. Len(s) + 1 \in DOMAIN t
      BY <1>1, <1>2
    <3> QED BY <3>1, <1>1 DEF Range
  <2> QED BY <2>1, <2>2, <2>3
<1>4. ASSUME IsInjective(s), a \notin Range(s) PROVE IsInjective(t)
  BY <1>1, <1>2, <1>4 DEF IsInjective, Range
<1> QED BY <1>1, <1>3, <1>4 DEF t

\* An element comes before the i-th one.
LEMMA InsertRange ==
  ASSUME NEW S, NEW s \in Seq(S), NEW a \in S, NEW i \in 1..(Len(s) + 1)
  PROVE  /\ InsertAt(s, i, a) \in Seq(S) /\ Len(InsertAt(s, i, a)) = Len(s) + 1
         /\ \A j \in 1..(Len(s) + 1) : InsertAt(s, i, a)[j]
              = IF j < i THEN s[j] ELSE IF j = i THEN a ELSE s[j - 1]
         /\ Range(InsertAt(s, i, a)) = Range(s) \cup {a}
         /\ IsInjective(s) /\ a \notin Range(s) => IsInjective(InsertAt(s, i, a))
<1> DEFINE b == SubSeq(s, 1, i - 1)
           c == SubSeq(s, i, Len(s))
           d == b \o <<a>>
           t == d \o c
<1>1. Len(s) \in Nat /\ DOMAIN s = 1..Len(s) /\ \A j \in 1..Len(s) : s[j] \in S
  OBVIOUS
<1>2. b \in Seq(S) /\ Len(b) = i - 1 /\ \A j \in 1..(i - 1) : b[j] = s[j]
  BY <1>1, SubSeqProperties
<1>3. c \in Seq(S) /\ Len(c) = Len(s) - i + 1 /\ \A j \in 1..(Len(s) - i + 1) : c[j] = s[i + j - 1]
  BY <1>1, SubSeqProperties
<1>4. <<a>> \in Seq(S) /\ Len(<<a>>) = 1 /\ <<a>>[1] = a
  OBVIOUS
<1> HIDE DEF b, c
<1>5. d \in Seq(S) /\ Len(d) = i /\ \A j \in 1..i : d[j] = IF j < i THEN s[j] ELSE a
  BY <1>2, <1>4, ConcatProperties
<1> HIDE DEF d
<1>6. /\ t \in Seq(S) /\ Len(t) = Len(s) + 1
      /\ \A j \in 1..(Len(s) + 1) :
           t[j] = IF j < i THEN s[j] ELSE IF j = i THEN a ELSE s[j - 1]
  <2>1. t \in Seq(S) /\ Len(t) = Len(s) + 1
    BY <1>1, <1>3, <1>5, ConcatProperties
  <2>2. \A j \in 1..(Len(s) + 1) : t[j] = IF j <= i THEN d[j] ELSE c[j - i]
    BY <1>1, <1>3, <1>5, ConcatProperties
  <2>3. ASSUME NEW j \in 1..(Len(s) + 1), j > i PROVE c[j - i] = s[j - 1]
    <3>1. j - i \in 1..(Len(s) - i + 1) /\ i + (j - i) - 1 = j - 1
      BY <1>1, <2>3
    <3> QED BY <3>1, <1>3
  <2> HIDE DEF t
  <2> QED BY <1>1, <1>5, <2>1, <2>2, <2>3
<1> HIDE DEF t
<1>7. DOMAIN t = 1..(Len(s) + 1)
  BY <1>6
<1>8. Range(t) = Range(s) \cup {a}
  <2>1. ASSUME NEW x \in Range(t) PROVE x \in Range(s) \cup {a}
    <3>1. PICK j \in 1..(Len(s) + 1) : x = t[j]
      BY <1>7 DEF Range
    <3>2. j < i => j \in DOMAIN s
      BY <1>1
    <3>3. j > i => j - 1 \in DOMAIN s
      BY <1>1
    <3>4. j \in Int /\ i \in Int
      OBVIOUS
    <3> QED BY <1>6, <3>1, <3>2, <3>3, <3>4 DEF Range
  <2>2. ASSUME NEW x \in Range(s) PROVE x \in Range(t)
    <3>1. PICK j \in 1..Len(s) : x = s[j]
      BY <1>1 DEF Range
    <3>2. CASE j < i
      <4>1. j \in DOMAIN t /\ t[j] = x
        BY <1>1, <1>6, <1>7, <3>1, <3>2
      <4> QED BY <4>1 DEF Range
    <3>3. CASE j >= i
      <4>1. j + 1 \in DOMAIN t /\ t[j + 1] = x
        BY <1>1, <1>6, <1>7, <3>1, <3>3
      <4> QED BY <4>1 DEF Range
    <3> QED BY <3>2, <3>3
  <2>3. i \in DOMAIN t /\ t[i] = a
    BY <1>6, <1>7
  <2> QED BY <2>1, <2>2, <2>3 DEF Range
<1>9. ASSUME IsInjective(s), a \notin Range(s) PROVE IsInjective(t)
  <2> DEFINE old(j) == IF j < i THEN j ELSE j - 1
  <2> SUFFICES ASSUME NEW j \in 1..(Len(s) + 1), NEW k \in 1..(Len(s) + 1), t[j] = t[k]
               PROVE  j = k
    BY <1>7 DEF IsInjective
  <2>1. ASSUME NEW n \in 1..(Len(s) + 1), n # i
        PROVE  old(n) \in DOMAIN s /\ t[n] = s[old(n)] /\ t[n] # a
    <3>1. old(n) \in DOMAIN s /\ t[n] = s[old(n)]
      BY <1>1, <1>6, <2>1
    <3> QED BY <3>1, <1>9 DEF Range
  <2>2. t[i] = a
    BY <1>6
  <2>3. CASE j = i \/ k = i
    BY <2>1, <2>2, <2>3
  <2>4. CASE j # i /\ k # i
    <3>1. old(j) = old(k)
      BY <2>1, <2>4, <1>9 DEF IsInjective
    <3> QED BY <3>1, <2>4
  <2> QED BY <2>3, <2>4
<1>10. t = InsertAt(s, i, a)
  BY DEF t, b, c, d, InsertAt
<1> QED BY <1>6, <1>8, <1>9, <1>10

\* An element goes.
LEMMA RemoveRange ==
  ASSUME NEW S, NEW s \in Seq(S), IsInjective(s), NEW i \in 1..Len(s)
  PROVE  /\ RemoveAt(s, i) \in Seq(S) /\ Len(RemoveAt(s, i)) = Len(s) - 1
         /\ \A j \in 1..(Len(s) - 1) :
              RemoveAt(s, i)[j] = IF j < i THEN s[j] ELSE s[j + 1]
         /\ Range(RemoveAt(s, i)) = Range(s) \ {s[i]}
         /\ IsInjective(RemoveAt(s, i))
<1> DEFINE b == SubSeq(s, 1, i - 1)
           c == SubSeq(s, i + 1, Len(s))
           t == b \o c
<1>1. Len(s) \in Nat /\ DOMAIN s = 1..Len(s) /\ \A j \in 1..Len(s) : s[j] \in S
  OBVIOUS
<1>2. b \in Seq(S) /\ Len(b) = i - 1 /\ \A j \in 1..(i - 1) : b[j] = s[j]
  BY <1>1, SubSeqProperties
<1>3. c \in Seq(S) /\ Len(c) = Len(s) - i /\ \A j \in 1..(Len(s) - i) : c[j] = s[i + j]
  <2>1. \A j \in (i + 1)..Len(s) : s[j] \in S
    BY <1>1
  <2>2. /\ c \in Seq(S) /\ Len(c) = (IF i + 1 <= Len(s) THEN Len(s) - (i + 1) + 1 ELSE 0)
        /\ \A j \in 1..(Len(s) - (i + 1) + 1) : c[j] = s[(i + 1) + j - 1]
    BY <1>1, <2>1, SubSeqProperties
  <2>3. i \in Int /\ i <= Len(s) /\ Len(s) - (i + 1) + 1 = Len(s) - i
    BY <1>1
  <2>4. Len(c) = Len(s) - i
    <3>1. Len(c) = IF i + 1 <= Len(s) THEN Len(s) - (i + 1) + 1 ELSE 0
      BY <2>2
    <3> HIDE DEF b, c, t
    <3>2. i + 1 <= Len(s) \/ Len(s) - i = 0
      OBVIOUS
    <3> QED BY <2>3, <3>1, <3>2
  <2>5. ASSUME NEW j \in 1..(Len(s) - i) PROVE c[j] = s[i + j]
    <3>1. j \in 1..(Len(s) - (i + 1) + 1) /\ (i + 1) + j - 1 = i + j
      BY <2>3
    <3>2. c[j] = s[(i + 1) + j - 1]
      BY <2>2, <3>1
    <3> HIDE DEF c
    <3> QED BY <3>1, <3>2
  <2> QED BY <2>2, <2>4, <2>5
<1> HIDE DEF b, c
<1>6. /\ t \in Seq(S) /\ Len(t) = Len(s) - 1
      /\ \A j \in 1..(Len(s) - 1) : t[j] = IF j < i THEN s[j] ELSE s[j + 1]
  <2>0. /\ t \in Seq(S) /\ Len(t) = Len(b) + Len(c)
        /\ \A j \in 1..(Len(b) + Len(c)) :
             t[j] = IF j <= Len(b) THEN b[j] ELSE c[j - Len(b)]
    BY <1>2, <1>3, ConcatProperties
  <2> HIDE DEF t
  <2>1. t \in Seq(S) /\ Len(t) = Len(s) - 1
    BY <1>1, <1>2, <1>3, <2>0
  <2>2. \A j \in 1..(Len(s) - 1) : t[j] = IF j <= i - 1 THEN b[j] ELSE c[j - (i - 1)]
    BY <1>1, <1>2, <1>3, <2>0
  <2>3. ASSUME NEW j \in 1..(Len(s) - 1), j >= i PROVE c[j - (i - 1)] = s[j + 1]
    <3>1. j - (i - 1) \in 1..(Len(s) - i) /\ i + (j - (i - 1)) = j + 1
      BY <1>1, <2>3
    <3> QED BY <3>1, <1>3
  <2>4. ASSUME NEW j \in 1..(Len(s) - 1) PROVE t[j] = IF j < i THEN s[j] ELSE s[j + 1]
    <3>1. CASE j < i
      <4>1. j \in 1..(i - 1) /\ j <= i - 1
        BY <1>1, <3>1
      <4> QED BY <1>2, <2>2, <3>1, <4>1
    <3>2. CASE ~(j < i)
      <4>1. ~(j <= i - 1) /\ j >= i
        BY <1>1, <3>2
      <4> QED BY <2>2, <2>3, <3>2, <4>1
    <3> QED BY <3>1, <3>2
  <2> QED BY <2>1, <2>4
<1> HIDE DEF t
<1>7. DOMAIN t = 1..(Len(s) - 1)
  BY <1>6
<1> DEFINE old(j) == IF j < i THEN j ELSE j + 1
<1>8. ASSUME NEW j \in 1..(Len(s) - 1)
      PROVE  old(j) \in 1..Len(s) /\ old(j) # i /\ t[j] = s[old(j)]
  BY <1>1, <1>6
<1>9. ASSUME NEW k \in 1..Len(s), k # i PROVE \E j \in 1..(Len(s) - 1) : old(j) = k
  <2>1. CASE k < i
    <3>1. k \in 1..(Len(s) - 1)
      BY <1>1, <2>1
    <3> QED BY <2>1, <3>1
  <2>2. CASE k > i
    <3>1. k - 1 \in 1..(Len(s) - 1) /\ ~(k - 1 < i) /\ (k - 1) + 1 = k
      BY <1>1, <2>2
    <3> QED BY <3>1
  <2> QED BY <1>9, <2>1, <2>2
<1>10. \A j, k \in 1..(Len(s) - 1) : old(j) = old(k) => j = k
  BY <1>1
<1> HIDE DEF old
<1>11. Range(t) = Range(s) \ {s[i]}
  <2>1. ASSUME NEW x \in Range(t) PROVE x \in Range(s) \ {s[i]}
    BY <1>1, <1>7, <1>8 DEF Range, IsInjective
  <2>2. ASSUME NEW x \in Range(s), x # s[i] PROVE x \in Range(t)
    <3>1. PICK k \in 1..Len(s) : x = s[k] /\ k # i
      BY <1>1, <2>2 DEF Range
    <3>2. PICK j \in 1..(Len(s) - 1) : old(j) = k
      BY <1>9, <3>1
    <3> QED BY <1>7, <1>8, <3>1, <3>2 DEF Range
  <2> QED BY <2>1, <2>2
<1>12. IsInjective(t)
  <2> SUFFICES ASSUME NEW j \in 1..(Len(s) - 1), NEW k \in 1..(Len(s) - 1), t[j] = t[k]
               PROVE  j = k
    BY <1>7 DEF IsInjective
  <2>1. old(j) = old(k)
    BY <1>1, <1>8 DEF IsInjective
  <2> QED BY <2>1, <1>10
<1>13. t = RemoveAt(s, i)
  BY DEF t, b, c, RemoveAt
<1> QED BY <1>6, <1>11, <1>12, <1>13

LEMMA TailRange ==
  ASSUME NEW S, NEW s \in Seq(S), IsInjective(s), s # <<>>
  PROVE  /\ Head(s) \in S /\ Head(s) \in Range(s)
         /\ Tail(s) \in Seq(S) /\ Range(Tail(s)) = Range(s) \ {Head(s)}
         /\ IsInjective(Tail(s))
<1> DEFINE t == Tail(s)
<1>1. Len(s) \in Nat /\ Len(s) > 0 /\ DOMAIN s = 1..Len(s) /\ Head(s) = s[1]
  OBVIOUS
<1>2. t \in Seq(S) /\ Len(t) = Len(s) - 1 /\ \A i \in 1..(Len(s) - 1) : t[i] = s[i + 1]
  BY <1>1, HeadTailProperties
<1>3. DOMAIN t = 1..(Len(s) - 1)
  BY <1>2
<1> HIDE DEF t
<1>4. Range(t) = Range(s) \ {s[1]}
  <2>1. ASSUME NEW x \in Range(t) PROVE x \in Range(s) \ {s[1]}
    <3>1. PICK i \in 1..(Len(s) - 1) : x = s[i + 1]
      BY <1>2, <1>3 DEF Range
    <3>2. i + 1 \in DOMAIN s /\ 1 \in DOMAIN s /\ i + 1 # 1
      BY <1>1
    <3> QED BY <3>1, <3>2 DEF Range, IsInjective
  <2>2. ASSUME NEW x \in Range(s), x # s[1] PROVE x \in Range(t)
    <3>1. PICK k \in 1..Len(s) : x = s[k] /\ k # 1
      BY <1>1, <2>2 DEF Range
    <3>2. k - 1 \in DOMAIN t /\ t[k - 1] = x
      BY <1>1, <1>2, <1>3, <3>1
    <3> QED BY <3>2 DEF Range
  <2> QED BY <2>1, <2>2
<1>5. IsInjective(t)
  <2> SUFFICES ASSUME NEW j \in 1..(Len(s) - 1), NEW k \in 1..(Len(s) - 1), t[j] = t[k]
               PROVE  j = k
    BY <1>3 DEF IsInjective
  <2>1. j + 1 \in DOMAIN s /\ k + 1 \in DOMAIN s /\ s[j + 1] = s[k + 1]
    BY <1>1, <1>2
  <2> QED BY <2>1 DEF IsInjective
<1>6. s[1] \in S /\ s[1] \in Range(s)
  BY <1>1 DEF Range
<1> QED BY <1>1, <1>2, <1>4, <1>5, <1>6 DEF t

LEMMA ConsRange ==
  ASSUME NEW S, NEW s \in Seq(S), NEW a \in S
  PROVE  /\ <<a>> \o s \in Seq(S)
         /\ Range(<<a>> \o s) = Range(s) \cup {a}
         /\ IsInjective(s) /\ a \notin Range(s) => IsInjective(<<a>> \o s)
<1>1. SubSeq(s, 1, 0) = <<>> /\ SubSeq(s, 1, Len(s)) = s
  BY SubSeqEmpty, SubSeqFull
<1>2. <<>> \o <<a>> = <<a>>
  OBVIOUS
<1>3. PICK i \in 1..(Len(s) + 1) : i = 1
  OBVIOUS
<1>4. i - 1 = 0
  BY <1>3
<1> DEFINE t == <<a>> \o s
<1>5. InsertAt(s, i, a) = <<a>> \o s
  BY <1>1, <1>2, <1>3, <1>4 DEF InsertAt
<1>6. InsertAt(s, i, a) = t
  BY <1>5
<1> HIDE DEF t
<1>7. t \in Seq(S) /\ Range(t) = Range(s) \cup {a}
  BY <1>6, InsertRange
<1>8. IsInjective(s) /\ a \notin Range(s) => IsInjective(t)
  BY <1>6, InsertRange
<1> QED BY <1>7, <1>8 DEF t

LEMMA Upto ==
  ASSUME NEW S, NEW s \in Seq(S), NEW i \in 1..Len(s)
  PROVE  /\ SubSeq(s, 1, i - 1) \in Seq(S) /\ Len(SubSeq(s, 1, i - 1)) = i - 1
         /\ \A j \in 1..(i - 1) : SubSeq(s, 1, i - 1)[j] = s[j]
<1>1. Len(s) \in Nat /\ DOMAIN s = 1..Len(s) /\ \A j \in 1..Len(s) : s[j] \in S
  OBVIOUS
<1> QED BY <1>1, SubSeqProperties

\* What is pushed is popped.
LEMMA PopPush ==
  ASSUME NEW S, NEW s \in Seq(S), s # <<>>
  PROVE  s = Append(SubSeq(s, 1, Len(s) - 1), s[Len(s)])
<1> DEFINE t == SubSeq(s, 1, Len(s) - 1)
           u == Append(t, s[Len(s)])
<1>1. Len(s) \in Nat /\ Len(s) > 0 /\ \A i \in 1..Len(s) : s[i] \in S
  OBVIOUS
<1>2. t \in Seq(S) /\ Len(t) = Len(s) - 1 /\ \A i \in 1..(Len(s) - 1) : t[i] = s[i]
  <2>1. PICK i \in 1..Len(s) : i = Len(s)
    BY <1>1
  <2>2. /\ SubSeq(s, 1, i - 1) \in Seq(S) /\ Len(SubSeq(s, 1, i - 1)) = i - 1
        /\ \A j \in 1..(i - 1) : SubSeq(s, 1, i - 1)[j] = s[j]
    BY Upto
  <2>3. t = SubSeq(s, 1, i - 1)
    BY <2>1
  <2> HIDE DEF t
  <2> QED BY <2>1, <2>2, <2>3
<1> HIDE DEF t
<1>3. /\ u \in Seq(S) /\ Len(u) = Len(s) /\ u[Len(s)] = s[Len(s)]
      /\ \A i \in 1..(Len(s) - 1) : u[i] = t[i]
  <2>1. s[Len(s)] \in S /\ (Len(s) - 1) + 1 = Len(s)
    BY <1>1
  <2> QED BY <1>2, <2>1, AppendProperties
<1> HIDE DEF u
<1>4. \A i \in 1..Len(s) : u[i] = s[i]
  <2>1. \A i \in 1..Len(s) : i = Len(s) \/ i \in 1..(Len(s) - 1)
    BY <1>1
  <2> QED BY <1>2, <1>3, <2>1
<1>5. u = s
  BY <1>3, <1>4, SeqEqual
<1> QED BY <1>5 DEF u, t

LEMMA PushPop ==
  ASSUME NEW S, NEW s \in Seq(S), NEW a \in S
  PROVE  LET u == Append(s, a)
         IN u # <<>> /\ u[Len(u)] = a /\ SubSeq(u, 1, Len(u) - 1) = s
<1> DEFINE u == Append(s, a)
           t == SubSeq(u, 1, Len(u) - 1)
<1>1. /\ Len(s) \in Nat /\ u \in Seq(S) /\ Len(u) = Len(s) + 1 /\ u[Len(u)] = a
      /\ \A i \in 1..Len(s) : u[i] = s[i]
  BY AppendProperties
<1> HIDE DEF u
<1>2. Len(u) - 1 = Len(s) /\ \A i \in 1..Len(u) : u[i] \in S
  BY <1>1
<1>3. t \in Seq(S) /\ Len(t) = Len(s) /\ \A i \in 1..Len(s) : t[i] = u[i]
  BY <1>1, <1>2, SubSeqProperties
<1> HIDE DEF t
<1>4. t = s
  BY <1>1, <1>3, SeqEqual
<1>5. u # <<>>
  BY <1>1
<1> QED BY <1>1, <1>4, <1>5 DEF t, u

-----------------------------------------------------------------------------
(* Places in sequences.                                                    *)

\* The place of an element that is there once.
LEMMA PlaceOf ==
  ASSUME NEW S, NEW s \in Seq(S), IsInjective(s), NEW a \in Range(s)
  PROVE  LET i == CHOOSE j \in DOMAIN s : s[j] = a
         IN i \in 1..Len(s) /\ s[i] = a /\ \A j \in 1..Len(s) : s[j] = a => j = i
<1> DEFINE i == CHOOSE j \in DOMAIN s : s[j] = a
<1>1. DOMAIN s = 1..Len(s) /\ \E j \in DOMAIN s : s[j] = a
  BY DEF Range
<1>2. i \in DOMAIN s /\ s[i] = a
  BY <1>1
<1> HIDE DEF i
<1>3. ASSUME NEW j \in 1..Len(s), s[j] = a PROVE j = i
  BY <1>1, <1>2, <1>3 DEF IsInjective
<1> QED BY <1>1, <1>2, <1>3 DEF i

\* A set of numbers that has all the smaller ones is an interval.
LEMMA Segment ==
  ASSUME NEW n \in Nat, NEW T, T \subseteq 1..n,
         \A i \in T : \A j \in 1..n : j < i => j \in T
  PROVE  Cardinality(T) \in 0..n /\ T = 1..Cardinality(T)
<1>1. CASE T = {}
  <2>1. Cardinality(T) = 0
    BY <1>1, FS_EmptySet
  <2> QED BY <1>1, <2>1
<1>2. CASE T # {}
  <2>1. T \subseteq 0..n
    OBVIOUS
  <2>2. PICK x \in T : \A y \in T : y <= x
    BY <1>2, <2>1, GreatestNat
  <2>5. x \in 1..n
    OBVIOUS
  <2>6. \A j \in 1..x : j \in T
    BY <2>5
  <2>7. \A j \in T : j \in 1..x
    BY <2>2, <2>5
  <2>3. x \in 1..n /\ T = 1..x
    BY <2>5, <2>6, <2>7
  <2>4. Cardinality(1..x) = x
    BY <2>3, FS_Interval
  <2> QED BY <2>3, <2>4
<1> QED BY <1>1, <1>2

\* A finite set as a sequence without repetition.
LEMMA SetSequence ==
  ASSUME NEW S, IsFiniteSet(S)
  PROVE  SetToSeq(S) \in Seq(S) /\ IsInjective(SetToSeq(S)) /\ Range(SetToSeq(S)) = S
<1> DEFINE n == Cardinality(S)
           q == SetToSeq(S)
<1>1. PICK m \in Nat : ExistsBijection(1..m, S)
  BY FS_NatBijection
<1>2. n = m
  BY <1>1, FS_CountingElements
<1>3. PICK f : f \in [1..n -> S] /\ IsInjective(f) /\ \A t \in S : \E s \in 1..n : f[s] = t
  BY <1>1, <1>2 DEF ExistsBijection, Bijection, Injection, Surjection
<1>4. q \in [1..n -> S] /\ IsInjective(q)
  BY <1>3 DEF SetToSeq
<1> HIDE DEF q
<1>5. n \in Nat
  BY <1>2
<1> HIDE DEF n
<1>6. q \in Seq(S)
  BY <1>4, <1>5
<1>7. q \in Injection(1..n, S)
  BY <1>4 DEF Injection
<1>8. q \in Surjection(1..n, S)
  <2>1. IsFiniteSet(1..n) /\ Cardinality(1..n) = n
    BY <1>5, FS_Interval
  <2> QED BY <1>5, <1>7, <2>1, FS_Injection DEF n
<1>9. Range(q) = S
  BY <1>4, <1>8 DEF Surjection, Range
<1> QED BY <1>4, <1>6, <1>9 DEF q

\* Without the first element.
LEMMA TailRemove ==
  ASSUME NEW S, NEW s \in Seq(S), s # <<>>
  PROVE  RemoveAt(s, 1) = Tail(s)
<1>1. Len(s) \in Nat /\ Len(s) > 0
  OBVIOUS
<1>2. SubSeq(s, 1, 0) = <<>>
  BY SubSeqEmpty
<1>3. SubSeq(s, 2, Len(s)) = Tail(s) /\ Tail(s) \in Seq(S)
  BY <1>1
<1>4. <<>> \o Tail(s) = Tail(s)
  BY <1>3, ConcatEmptySeq
<1> QED BY <1>2, <1>3, <1>4 DEF RemoveAt

\* Where two sequences meet they come apart again.
LEMMA Cut ==
  ASSUME NEW S, NEW a \in Seq(S), NEW d \in Seq(S)
  PROVE  /\ a \o d \in Seq(S) /\ Len(a \o d) = Len(a) + Len(d)
         /\ SubSeq(a \o d, 1, Len(a)) = a /\ SubSeq(a \o d, Len(a) + 1, Len(a \o d)) = d
<1> DEFINE f == a \o d
           n == Len(a)
<1>1. /\ f \in Seq(S) /\ Len(f) = n + Len(d)
      /\ \A i \in 1..(n + Len(d)) : f[i] = IF i <= n THEN a[i] ELSE d[i - n]
  BY ConcatProperties
<1>2. n \in Nat /\ Len(d) \in Nat /\ n = Len(a)
  OBVIOUS
<1> HIDE DEF f, n
<1>3. n \in 0..Len(f)
  BY <1>1, <1>2
<1> DEFINE u == SubSeq(f, 1, n)
           v == SubSeq(f, n + 1, Len(f))
<1>4. /\ u \in Seq(S) /\ v \in Seq(S) /\ Len(u) = n /\ Len(v) = Len(f) - n
      /\ \A i \in 1..n : u[i] = f[i]
      /\ \A i \in 1..(Len(f) - n) : v[i] = f[n + i]
  BY <1>1, <1>3, Halves
<1> HIDE DEF u, v
<1>5. u = a
  <2>1. \A i \in 1..Len(u) : u[i] = a[i]
    BY <1>1, <1>2, <1>4
  <2> QED BY <1>2, <1>4, <2>1, SeqEqual
<1>6. v = d
  <2>1. \A i \in 1..Len(v) : v[i] = d[i]
    <3>1. ASSUME NEW i \in 1..Len(v) PROVE v[i] = d[i]
      <4>1. v[i] = f[n + i] /\ n + i \in 1..(n + Len(d)) /\ ~(n + i <= n) /\ (n + i) - n = i
        BY <1>1, <1>2, <1>4
      <4> QED BY <1>1, <4>1
    <3> QED BY <3>1
  <2>2. Len(v) = Len(d)
    <3>1. Len(f) = n + Len(d) /\ Len(v) = Len(f) - n
      BY <1>1, <1>4
    <3> QED BY <1>2, <3>1
  <2> QED BY <1>4, <2>1, <2>2, SeqEqual
<1> QED BY <1>1, <1>2, <1>5, <1>6 DEF f, n, u, v
=============================================================================

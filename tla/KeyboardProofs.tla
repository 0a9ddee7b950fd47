--------------------------- MODULE KeyboardProofs ---------------------------
(***************************************************************************)
(* Proofs about Keyboard.                                                  *)
(***************************************************************************)
EXTENDS Keyboard, SeqLemmas

-----------------------------------------------------------------------------
(* The ring of keys.                                                       *)

Firsts == {lcase[y] : y \in Chars}
Bound == [seq : Bindable, efunc : Efuncs \cup {None}]

\* Keys with the same first character are side by side, none is there twice, and
\* k leads to the first of each clump: of any ring r, so that the lemmas need not
\* speak of steps.
Adjacent(r) ==
  \A i, j, l \in 1..Len(r) :
    i <= l /\ l <= j /\ First(r[i].seq) = First(r[j].seq) => First(r[l].seq) = First(r[i].seq)
Unique(r) == \A i, j \in 1..Len(r) : Lower(r[i].seq) = Lower(r[j].seq) => i = j
Leads(r, x, key) ==
  IF key = None THEN \A i \in 1..Len(r) : First(r[i].seq) # x
  ELSE \E p \in 1..Len(r) : /\ key = r[p].seq /\ First(r[p].seq) = x
                            /\ \A i \in 1..Len(r) : First(r[i].seq) = x => p <= i
Clumps(r, k) ==
  /\ r \in Seq(Bound) /\ k \in [Firsts -> Bindable \cup {None}]
  /\ Adjacent(r) /\ Unique(r) /\ \A x \in Firsts : Leads(r, x, k[x])

LEMMA BoundIs ==
  ASSUME NEW seq \in Bindable
  PROVE  /\ seq \in Seq(Chars) /\ Len(seq) \in Nat /\ Len(seq) > 0 /\ seq[1] \in Chars
         /\ First(seq) \in Firsts /\ seq # None
<1>1. seq \in Seq(Chars) \ {<<>>} /\ None \notin Bindable
  BY KeyboardAssumption
<1>2. Len(seq) \in Nat /\ Len(seq) > 0 /\ seq[1] \in Chars
  BY <1>1
<1> QED BY <1>1, <1>2 DEF First, Firsts

\* The same key in other letters begins with the same character.
LEMMA LowerFirst ==
  ASSUME NEW s \in Bindable, NEW t \in Bindable, Lower(s) = Lower(t)
  PROVE  First(s) = First(t)
<1>1. 1 \in DOMAIN s /\ 1 \in DOMAIN t
  BY BoundIs
<1>2. Lower(s)[1] = First(s) /\ Lower(t)[1] = First(t)
  BY <1>1 DEF Lower, First
<1> QED BY <1>2

\* Numbers without a gap, counted.
LEMMA Interval ==
  ASSUME NEW p \in Nat, NEW n \in Nat, NEW T, T \subseteq p..n, p \in T,
         \A i \in T : p..i \subseteq T
  PROVE  Cardinality(T) \in 1..(n - p + 1) /\ T = p..(p + Cardinality(T) - 1)
<1>1. T \subseteq 0..n
  OBVIOUS
<1>2. PICK q \in T : \A i \in T : i <= q
  BY <1>1, GreatestNat
<1>3. q \in Int /\ p <= q /\ q <= n /\ T = p..q
  <2>1. q \in p..n /\ p..q \subseteq T
    BY <1>2
  <2>2. \A i \in T : i \in p..q
    BY <1>2, <2>1
  <2>3. q \in Int /\ p <= q /\ q <= n
    BY <2>1
  <2>4. T \subseteq p..q
    BY <2>2
  <2>5. T = p..q
    BY <2>1, <2>4
  <2> QED BY <2>3, <2>5
<1>4. Cardinality(p..q) = q - p + 1
  BY <1>3, FS_Interval
<1> QED BY <1>3, <1>4

LEMMA RingIs ==
  ASSUME Clumps(ring, klookup)
  PROVE  /\ ring \in Seq(Bound) /\ Len(ring) \in Nat /\ DOMAIN ring = 1..Len(ring)
         /\ \A i \in 1..Len(ring) : ring[i] \in Bound /\ ring[i].seq \in Bindable
         /\ Adjacent(ring) /\ Unique(ring) /\ \A x \in Firsts : Leads(ring, x, klookup[x])
<1>1. /\ ring \in Seq(Bound) /\ Adjacent(ring) /\ Unique(ring)
      /\ \A x \in Firsts : Leads(ring, x, klookup[x])
  BY DEF Clumps
<1>2. Len(ring) \in Nat /\ DOMAIN ring = 1..Len(ring) /\ \A i \in 1..Len(ring) : ring[i] \in Bound
  BY <1>1
<1>3. \A b \in Bound : b.seq \in Bindable
  BY DEF Bound
<1> QED BY <1>1, <1>2, <1>3

\* The clump that klookup leads to has all the keys that begin with x.
LEMMA ClumpIs ==
  ASSUME Clumps(ring, klookup), NEW x \in Firsts
  PROVE  \/ /\ klookup[x] = None /\ Clump(x) = <<>>
            /\ \A i \in 1..Len(ring) : First(ring[i].seq) # x
         \/ \E p \in 1..Len(ring), m \in 1..Len(ring) :
              /\ klookup[x] = ring[p].seq /\ klookup[x] # None /\ Pos(klookup[x]) = p
              /\ p + m - 1 <= Len(ring)
              /\ \A i \in 1..Len(ring) : First(ring[i].seq) = x <=> i \in p..(p + m - 1)
              /\ Clump(x) \in Seq(Bound) /\ Len(Clump(x)) = m
              /\ \A i \in 1..m : Clump(x)[i] = ring[p + i - 1]
<1>1. /\ ring \in Seq(Bound) /\ Len(ring) \in Nat /\ DOMAIN ring = 1..Len(ring)
      /\ \A i \in 1..Len(ring) : ring[i] \in Bound /\ ring[i].seq \in Bindable
      /\ Adjacent(ring) /\ Unique(ring) /\ Leads(ring, x, klookup[x])
  BY RingIs
<1>2. CASE klookup[x] = None
  BY <1>1, <1>2 DEF Clump, Leads
<1>3. CASE klookup[x] # None
  <2>1. PICK p \in 1..Len(ring) :
          /\ klookup[x] = ring[p].seq /\ First(ring[p].seq) = x
          /\ \A i \in 1..Len(ring) : First(ring[i].seq) = x => p <= i
    BY <1>1, <1>3 DEF Leads
  <2>2. \A i \in 1..Len(ring) : ring[i].seq = klookup[x] => i = p
    BY <1>1, <2>1 DEF Unique
  <2>3. Pos(klookup[x]) = p
    BY <1>1, <2>1, <2>2 DEF Pos
  <2> DEFINE T == {i \in p..Len(ring) : \A j \in p..i : First(ring[j].seq) = x}
             m == Cardinality(T)
  <2>4. T \subseteq p..Len(ring) /\ p \in T /\ \A i \in T : p..i \subseteq T
    <3>1. p \in T
      BY <1>1, <2>1
    <3>2. ASSUME NEW i \in T, NEW l \in p..i PROVE l \in T
      OBVIOUS
    <3> QED BY <3>1, <3>2
  <2>5. \A i \in 1..Len(ring) : First(ring[i].seq) = x <=> i \in T
    <3> SUFFICES ASSUME NEW i \in 1..Len(ring) PROVE First(ring[i].seq) = x <=> i \in T
      OBVIOUS
    <3>1. ASSUME First(ring[i].seq) = x PROVE i \in T
      <4>1. p <= i /\ i \in p..Len(ring)
        BY <1>1, <2>1, <3>1
      <4>2. ASSUME NEW j \in p..i PROVE First(ring[j].seq) = x
        <5>1. j \in 1..Len(ring) /\ p <= j /\ j <= i
          BY <1>1, <4>1
        <5> QED BY <1>1, <2>1, <3>1, <5>1 DEF Adjacent
      <4> QED BY <4>1, <4>2
    <3>2. ASSUME i \in T PROVE First(ring[i].seq) = x
      <4>1. i \in p..i
        BY <3>2
      <4> QED BY <3>2, <4>1
    <3> QED BY <3>1, <3>2
  <2>6. Clump(x) = [i \in 1..m |-> ring[p + i - 1]]
    BY <1>3, <2>3 DEF Clump
  <2> HIDE DEF T
  <2>7. m \in 1..(Len(ring) - p + 1) /\ T = p..(p + m - 1)
    <3>1. p \in Nat
      OBVIOUS
    <3> QED BY <1>1, <2>4, <3>1, Interval
  <2> HIDE DEF m
  <2>8. m \in Nat /\ m \in 1..Len(ring) /\ p + m - 1 <= Len(ring)
    BY <1>1, <2>7
  <2>9. Clump(x) \in Seq(Bound) /\ Len(Clump(x)) = m /\ \A i \in 1..m : Clump(x)[i] = ring[p + i - 1]
    <3>1. \A i \in 1..m : p + i - 1 \in 1..Len(ring)
      BY <1>1, <2>8
    <3>2. \A i \in 1..m : ring[p + i - 1] \in Bound
      BY <1>1, <3>1
    <3> QED BY <2>6, <2>8, <3>2
  <2> QED BY <1>3, <2>1, <2>3, <2>5, <2>7, <2>8, <2>9
<1> QED BY <1>2, <1>3

\* find_key() finds a key in whatever letters it is bound.
LEMMA FindIs ==
  ASSUME Clumps(ring, klookup), NEW seq \in Bindable
  PROVE  \/ find_key(seq) = None /\ \A i \in 1..Len(ring) : Lower(ring[i].seq) # Lower(seq)
         \/ \E i \in 1..Len(ring) : /\ find_key(seq) = ring[i].seq /\ Pos(ring[i].seq) = i
                                    /\ find_key(seq) # None
<1> DEFINE x == First(seq)
<1>1. /\ x \in Firsts /\ ring \in Seq(Bound) /\ Len(ring) \in Nat /\ DOMAIN ring = 1..Len(ring)
      /\ \A i \in 1..Len(ring) : ring[i].seq \in Bindable
      /\ Unique(ring)
  BY RingIs, BoundIs
<1>2. \A i \in 1..Len(ring) : Lower(ring[i].seq) = Lower(seq) => First(ring[i].seq) = x
  BY <1>1, LowerFirst
<1>3. Found(seq) = {i \in DOMAIN Clump(x) : Lower(Clump(x)[i].seq) = Lower(seq)}
  BY DEF Found
<1> HIDE DEF x
<1>4. CASE klookup[x] = None /\ Clump(x) = <<>> /\ \A i \in 1..Len(ring) : First(ring[i].seq) # x
  <2>1. Found(seq) = {}
    BY <1>3, <1>4
  <2> QED BY <1>2, <1>4, <2>1 DEF find_key
<1>5. CASE klookup[x] # None
  <2>1. PICK p \in 1..Len(ring), m \in 1..Len(ring) :
              /\ p + m - 1 <= Len(ring)
              /\ \A i \in 1..Len(ring) : First(ring[i].seq) = x <=> i \in p..(p + m - 1)
              /\ Clump(x) \in Seq(Bound) /\ Len(Clump(x)) = m
              /\ \A i \in 1..m : Clump(x)[i] = ring[p + i - 1]
    BY <1>1, <1>5, ClumpIs
  <2>2. DOMAIN Clump(x) = 1..m /\ m \in Nat
    BY <1>1, <2>1
  <2>3. CASE Found(seq) = {}
    <3>1. ASSUME NEW i \in 1..Len(ring), Lower(ring[i].seq) = Lower(seq) PROVE FALSE
      <4>1. i \in p..(p + m - 1)
        BY <1>2, <2>1, <3>1
      <4>2. i - p + 1 \in 1..m /\ p + (i - p + 1) - 1 = i
        BY <1>1, <2>2, <4>1
      <4>3. Clump(x)[i - p + 1] = ring[i]
        BY <2>1, <4>2
      <4>4. i - p + 1 \in Found(seq)
        BY <1>3, <2>2, <3>1, <4>2, <4>3
      <4> QED BY <2>3, <4>4
    <3> QED BY <2>3, <3>1 DEF find_key
  <2>4. CASE Found(seq) # {}
    <3>1. Found(seq) \subseteq Nat
      BY <1>3, <2>2
    <3>2. \E i \in Found(seq) : \A j \in Found(seq) : i <= j
      BY <2>4, <3>1, LeastNat
    <3> DEFINE k == CHOOSE i \in Found(seq) : \A j \in Found(seq) : i <= j
    <3>3. k \in Found(seq)
      BY <3>2
    <3>4. find_key(seq) = Clump(x)[k].seq
      BY <2>4 DEF find_key, x
    <3> HIDE DEF k
    <3>5. k \in 1..m /\ p + k - 1 \in 1..Len(ring) /\ find_key(seq) = ring[p + k - 1].seq
      BY <1>1, <1>3, <2>1, <2>2, <3>3, <3>4
    <3>6. PICK i \in 1..Len(ring) : find_key(seq) = ring[i].seq
      BY <3>5
    <3>7. \A j \in DOMAIN ring : ring[j].seq = ring[i].seq => j = i
      BY <1>1 DEF Unique
    <3>8. Pos(ring[i].seq) = i
      BY <1>1, <3>7 DEF Pos
    <3>9. find_key(seq) # None
      BY <1>1, <3>6, BoundIs
    <3> QED BY <3>6, <3>8, <3>9
  <2> QED BY <2>3, <2>4
<1> QED BY <1>1, <1>4, <1>5, ClumpIs

\* The ring t and klookup l that r and k become when b is put behind place at.
Inserted(r, k, b, at, t, l) ==
  /\ b \in Bound /\ at \in 0..Len(r) /\ t \in Seq(Bound) /\ Len(t) = Len(r) + 1
  /\ \A j \in 1..(Len(r) + 1) :
       t[j] = IF j < at + 1 THEN r[j] ELSE IF j = at + 1 THEN b ELSE r[j - 1]
  /\ l = IF k[First(b.seq)] = None THEN [k EXCEPT ![First(b.seq)] = b.seq] ELSE k

\* A key that is new goes behind the last of its clump, or of the ring.
LEMMA ClumpsInsert ==
  ASSUME NEW r, NEW k, Clumps(r, k), NEW b, NEW at, NEW t, NEW l, Inserted(r, k, b, at, t, l),
         \A i \in 1..Len(r) : Lower(r[i].seq) # Lower(b.seq),
         \/ at = Len(r) /\ \A i \in 1..Len(r) : First(r[i].seq) # First(b.seq)
         \/ /\ at # 0 /\ First(r[at].seq) = First(b.seq)
            /\ \A i \in 1..Len(r) : at < i => First(r[i].seq) # First(b.seq)
  PROVE  Clumps(t, l)
<1>0. /\ b \in Bound /\ at \in 0..Len(r) /\ t \in Seq(Bound) /\ Len(t) = Len(r) + 1
      /\ \A j \in 1..(Len(r) + 1) :
           t[j] = IF j < at + 1 THEN r[j] ELSE IF j = at + 1 THEN b ELSE r[j - 1]
      /\ l = IF k[First(b.seq)] = None THEN [k EXCEPT ![First(b.seq)] = b.seq] ELSE k
  BY DEF Inserted
<1> USE <1>0
<1> DEFINE n == Len(r)
           x == First(b.seq)
           f(i) == First(r[i].seq)
           g(i) == First(t[i].seq)
<1>1. /\ r \in Seq(Bound) /\ n \in Nat /\ k \in [Firsts -> Bindable \cup {None}]
      /\ Adjacent(r) /\ Unique(r) /\ \A y \in Firsts : Leads(r, y, k[y])
  BY DEF Clumps
<1>2. x \in Firsts /\ b.seq \in Bindable /\ b.seq # None
  BY BoundIs DEF Bound
<1>3. /\ \A j \in 1..at : t[j] = r[j] /\ j \in 1..n
      /\ t[at + 1] = b /\ at + 1 \in 1..(n + 1)
      /\ \A j \in (at + 2)..(n + 1) : t[j] = r[j - 1] /\ j - 1 \in 1..n
      /\ \A j \in 1..(n + 1) : j \in 1..at \/ j = at + 1 \/ j \in (at + 2)..(n + 1)
  BY <1>1
<1>4. /\ \A j \in 1..at : g(j) = f(j)
      /\ g(at + 1) = x
      /\ \A j \in (at + 2)..(n + 1) : g(j) = f(j - 1)
  BY <1>3
<1>5. /\ \A i \in 1..n : at < i => f(i) # x
      /\ (at = n /\ \A i \in 1..n : f(i) # x) \/ (at \in 1..n /\ f(at) = x)
  BY <1>1
<1>6. \A i, j, h \in 1..n : i <= h /\ h <= j /\ f(i) = f(j) => f(h) = f(i)
  BY <1>1 DEF Adjacent
<1> HIDE DEF x, f, g, n
<1>7. ASSUME NEW i \in 1..(n + 1), NEW j \in 1..(n + 1), NEW h \in 1..(n + 1),
             i <= h, h <= j, g(i) = g(j)
      PROVE  g(h) = g(i)
  <2>1. CASE i = at + 1
    <3>1. j \notin (at + 2)..(n + 1)
      BY <1>1, <1>3, <1>4, <1>5, <1>7, <2>1
    <3>2. h = i
      BY <1>1, <1>3, <1>7, <2>1, <3>1
    <3> QED BY <3>2
  <2>2. CASE j = at + 1 /\ i \in 1..at
    <3>1. f(i) = x
      BY <1>4, <1>7, <2>2
    <3>2. at \in 1..n /\ f(at) = x
      BY <1>3, <1>5, <2>2, <3>1
    <3>3. CASE h = at + 1
      BY <1>4, <1>7, <2>2, <3>3
    <3>4. CASE h \in 1..at
      <4>1. f(h) = f(i)
        BY <1>3, <1>6, <1>7, <2>2, <3>1, <3>2, <3>4
      <4> QED BY <1>4, <2>2, <3>4, <4>1
    <3> QED BY <1>1, <1>3, <1>7, <2>2, <3>3, <3>4
  <2>3. CASE i \in 1..at /\ j \in 1..at
    <3>1. h \in 1..at
      BY <1>1, <1>7, <2>3
    <3> QED BY <1>3, <1>4, <1>6, <1>7, <2>3, <3>1
  <2>4. CASE i \in (at + 2)..(n + 1)
    <3>1. h \in (at + 2)..(n + 1) /\ j \in (at + 2)..(n + 1)
      BY <1>1, <1>7, <2>4
    <3>2. f(i - 1) = f(j - 1) /\ i - 1 <= h - 1 /\ h - 1 <= j - 1
      BY <1>4, <1>7, <2>4, <3>1
    <3>3. f(h - 1) = f(i - 1)
      BY <1>3, <1>6, <2>4, <3>1, <3>2
    <3> QED BY <1>4, <2>4, <3>1, <3>3
  <2>5. CASE i \in 1..at /\ j \in (at + 2)..(n + 1)
    <3>1. f(i) = f(j - 1) /\ j - 1 \in 1..n /\ i \in 1..n /\ at < j - 1
      BY <1>1, <1>3, <1>4, <1>7, <2>5
    <3>2. f(j - 1) # x
      BY <1>5, <3>1
    <3>3. ~(at \in 1..n /\ f(at) = x)
      BY <1>1, <1>6, <2>5, <3>1, <3>2
    <3> QED BY <1>1, <1>5, <2>5, <3>1, <3>3
  <2> QED BY <1>3, <1>7, <2>1, <2>2, <2>3, <2>4, <2>5
<1>8. Adjacent(t)
  BY <1>7 DEF Adjacent, g, n
<1>9. Unique(t)
  <2>1. ASSUME NEW i \in 1..(n + 1), NEW j \in 1..(n + 1), Lower(t[i].seq) = Lower(t[j].seq), i < j
        PROVE  FALSE
    <3>1. \A h \in 1..n : Lower(r[h].seq) # Lower(b.seq)
      BY DEF n
    <3>2. \A h, q \in 1..n : Lower(r[h].seq) = Lower(r[q].seq) => h = q
      BY <1>1 DEF Unique, n
    <3>3. CASE i = at + 1
      <4>1. j \in (at + 2)..(n + 1)
        BY <1>1, <1>3, <2>1, <3>3
      <4>2. t[i] = b /\ t[j] = r[j - 1] /\ j - 1 \in 1..n
        BY <1>3, <3>3, <4>1
      <4> QED BY <2>1, <3>1, <4>2
    <3>4. CASE j = at + 1
      <4>1. i \in 1..at
        BY <1>1, <1>3, <2>1, <3>4
      <4>2. t[i] = r[i] /\ t[j] = b /\ i \in 1..n
        BY <1>3, <3>4, <4>1
      <4> QED BY <2>1, <3>1, <4>2
    <3>5. CASE i \in 1..at /\ j \in 1..at
      <4>1. t[i] = r[i] /\ t[j] = r[j] /\ i \in 1..n /\ j \in 1..n
        BY <1>3, <3>5
      <4> QED BY <2>1, <3>2, <4>1
    <3>6. CASE i \in 1..at /\ j \in (at + 2)..(n + 1)
      <4>1. t[i] = r[i] /\ t[j] = r[j - 1] /\ i \in 1..n /\ j - 1 \in 1..n
        BY <1>3, <3>6
      <4>2. i = j - 1
        BY <2>1, <3>2, <4>1
      <4> QED BY <1>1, <3>6, <4>2
    <3>7. CASE i \in (at + 2)..(n + 1) /\ j \in (at + 2)..(n + 1)
      <4>1. /\ t[i] = r[i - 1] /\ t[j] = r[j - 1] /\ i - 1 \in 1..n /\ j - 1 \in 1..n
        BY <1>3, <3>7
      <4>2. i - 1 = j - 1
        BY <2>1, <3>2, <4>1
      <4> QED BY <1>1, <2>1, <3>7, <4>2
    <3> QED BY <1>1, <1>3, <2>1, <3>3, <3>4, <3>5, <3>6, <3>7
  <2> QED BY <1>1, <2>1 DEF Unique, n
<1>10. ASSUME NEW y \in Firsts PROVE Leads(t, y, l[y])
  <2>1. Leads(r, y, k[y]) /\ k[y] \in Bindable \cup {None}
    BY <1>1
  <2>2. CASE k[y] = None
    <3>1. \A i \in 1..n : f(i) # y
      BY <2>1, <2>2 DEF Leads, f, n
    <3>2. CASE y = x
      <4>1. l[y] = b.seq
        BY <1>1, <2>2, <3>2 DEF x
      <4>2. \A j \in 1..(n + 1) : g(j) = y => j = at + 1
        BY <1>3, <1>4, <3>1
      <4>3. \A j \in 1..(n + 1) : g(j) = y => at + 1 <= j
        BY <1>1, <4>2
      <4> QED BY <1>2, <1>3, <1>4, <3>2, <4>1, <4>3 DEF Leads, g, n
    <3>3. CASE y # x
      <4>1. l[y] = None
        BY <1>1, <2>2, <3>3 DEF x
      <4>2. \A j \in 1..(n + 1) : g(j) # y
        BY <1>3, <1>4, <3>1, <3>3
      <4> QED BY <4>1, <4>2 DEF Leads, g, n
    <3> QED BY <3>2, <3>3
  <2>3. CASE k[y] # None
    <3>1. PICK p \in 1..n : k[y] = r[p].seq /\ f(p) = y /\ \A i \in 1..n : f(i) = y => p <= i
      BY <2>1, <2>3 DEF Leads, f, n
    <3>2. l[y] = k[y]
      BY <1>1, <2>3 DEF x
    <3>3. CASE p <= at
      <4>1. p \in 1..at /\ p \in 1..(n + 1) /\ g(p) = y /\ t[p] = r[p]
        BY <1>1, <1>3, <1>4, <3>1, <3>3
      <4>2. ASSUME NEW j \in 1..(n + 1), g(j) = y PROVE p <= j
        <5>1. CASE j \in 1..at
          BY <1>3, <1>4, <3>1, <4>2, <5>1
        <5>2. CASE ~(j \in 1..at)
          <6>1. j > at
            BY <1>1, <1>3, <5>2
          <6> QED BY <1>1, <3>1, <3>3, <6>1
        <5> QED BY <5>1, <5>2
      <4> QED BY <2>3, <3>1, <3>2, <4>1, <4>2 DEF Leads, g, n
    <3>4. CASE at < p
      <4>1. p + 1 \in (at + 2)..(n + 1) /\ p + 1 \in 1..(n + 1) /\ (p + 1) - 1 = p
        BY <1>1, <3>1, <3>4
      <4>2. g(p + 1) = y /\ t[p + 1] = r[p]
        BY <1>3, <1>4, <3>1, <4>1
      <4>3. y # x
        BY <1>5, <3>1, <3>4
      <4>4. ASSUME NEW j \in 1..(n + 1), g(j) = y PROVE p + 1 <= j
        <5>1. j \notin 1..at
          BY <1>1, <1>3, <1>4, <3>1, <3>4, <4>4
        <5>2. j \in (at + 2)..(n + 1)
          BY <1>3, <1>4, <4>3, <4>4, <5>1
        <5>3. f(j - 1) = y /\ j - 1 \in 1..n
          BY <1>3, <1>4, <4>4, <5>2
        <5>4. p <= j - 1
          BY <3>1, <5>3
        <5> QED BY <1>1, <3>1, <5>4
      <4> QED BY <2>3, <3>1, <3>2, <4>1, <4>2, <4>4 DEF Leads, g, n
    <3> QED BY <1>1, <3>3, <3>4
  <2> QED BY <2>2, <2>3
<1>11. l \in [Firsts -> Bindable \cup {None}]
  BY <1>1, <1>2 DEF x
<1> QED BY <1>8, <1>9, <1>10, <1>11 DEF Clumps

\* What they become when place p is removed; the keys of its clump begin with x.
Removed(r, k, p, x, t, l) ==
  /\ p \in 1..Len(r) /\ t \in Seq(Bound) /\ Len(t) = Len(r) - 1
  /\ \A j \in 1..(Len(r) - 1) : t[j] = IF j < p THEN r[j] ELSE r[j + 1]
  /\ x \in Firsts /\ x = First(r[p].seq)
  /\ l = IF k[x] = r[p].seq
         THEN [k EXCEPT ![x] = IF p < Len(r) /\ First(r[p + 1].seq) = x THEN r[p + 1].seq ELSE None]
         ELSE k

\* When a key goes, the next of its clump takes its place in klookup.
LEMMA ClumpsRemove ==
  ASSUME NEW r, NEW k, Clumps(r, k), NEW p, NEW x, NEW t, NEW l, Removed(r, k, p, x, t, l)
  PROVE  Clumps(t, l)
<1> DEFINE next == IF p < Len(r) /\ First(r[p + 1].seq) = x THEN r[p + 1].seq ELSE None
<1>0. /\ p \in 1..Len(r) /\ t \in Seq(Bound) /\ Len(t) = Len(r) - 1
      /\ \A j \in 1..(Len(r) - 1) : t[j] = IF j < p THEN r[j] ELSE r[j + 1]
      /\ x \in Firsts /\ x = First(r[p].seq)
      /\ l = IF k[x] = r[p].seq THEN [k EXCEPT ![x] = next] ELSE k
      /\ next = IF p < Len(r) /\ First(r[p + 1].seq) = x THEN r[p + 1].seq ELSE None
  BY DEF Removed
<1> HIDE DEF next
<1> USE <1>0
<1> DEFINE n == Len(r)
           f(i) == First(r[i].seq)
           g(i) == First(t[i].seq)
<1>1. /\ r \in Seq(Bound) /\ n \in Nat /\ k \in [Firsts -> Bindable \cup {None}]
      /\ Adjacent(r) /\ Unique(r) /\ \A y \in Firsts : Leads(r, y, k[y])
  BY DEF Clumps
<1>2. \A i \in 1..n : r[i].seq \in Bindable /\ r[i].seq # None
  <2>1. \A i \in 1..n : r[i] \in Bound
    BY <1>1
  <2> QED BY <2>1, BoundIs DEF Bound
<1>3. /\ \A j \in 1..(p - 1) : t[j] = r[j] /\ j \in 1..n /\ j \in 1..(n - 1)
      /\ \A j \in p..(n - 1) : t[j] = r[j + 1] /\ j + 1 \in 1..n
      /\ \A j \in 1..(n - 1) : j \in 1..(p - 1) \/ j \in p..(n - 1)
  BY <1>1
<1>4. /\ \A j \in 1..(p - 1) : g(j) = f(j)
      /\ \A j \in p..(n - 1) : g(j) = f(j + 1)
      /\ f(p) = x
  BY <1>3
<1>5. \A i, j, h \in 1..n : i <= h /\ h <= j /\ f(i) = f(j) => f(h) = f(i)
  BY <1>1 DEF Adjacent
<1>6. \A i, j \in 1..n : Lower(r[i].seq) = Lower(r[j].seq) => i = j
  BY <1>1 DEF Unique
<1>7. n = Len(r) /\ Len(t) = n - 1 /\ p \in 1..n /\ p \in Nat
  BY <1>1
<1>8. next = (IF p < n /\ f(p + 1) = x THEN r[p + 1].seq ELSE None)
  OBVIOUS
<1> HIDE DEF f, g, n
<1>9. ASSUME NEW i \in 1..(n - 1), NEW j \in 1..(n - 1), NEW h \in 1..(n - 1),
             i <= h, h <= j, g(i) = g(j)
      PROVE  g(h) = g(i)
  <2>1. CASE j \in 1..(p - 1)
    <3>1. h \in 1..(p - 1) /\ i \in 1..(p - 1)
      BY <1>1, <1>7, <1>9, <2>1
    <3> QED BY <1>3, <1>4, <1>5, <1>9, <2>1, <3>1
  <2>2. CASE i \in p..(n - 1)
    <3>1. h \in p..(n - 1) /\ j \in p..(n - 1)
      BY <1>1, <1>7, <1>9, <2>2
    <3>2. f(i + 1) = f(j + 1) /\ i + 1 <= h + 1 /\ h + 1 <= j + 1
      BY <1>4, <1>9, <2>2, <3>1
    <3>3. f(h + 1) = f(i + 1)
      BY <1>3, <1>5, <2>2, <3>1, <3>2
    <3> QED BY <1>4, <2>2, <3>1, <3>3
  <2>3. CASE i \in 1..(p - 1) /\ j \in p..(n - 1)
    <3>1. f(i) = f(j + 1) /\ i \in 1..n /\ j + 1 \in 1..n
      BY <1>3, <1>4, <1>9, <2>3
    <3>2. CASE h \in 1..(p - 1)
      <4>1. f(h) = f(i)
        BY <1>3, <1>5, <1>7, <1>9, <2>3, <3>1, <3>2
      <4> QED BY <1>4, <2>3, <3>2, <4>1
    <3>3. CASE h \in p..(n - 1)
      <4>1. h + 1 \in 1..n /\ i <= h + 1 /\ h + 1 <= j + 1
        BY <1>3, <1>9, <3>3
      <4>2. f(h + 1) = f(i)
        BY <1>5, <3>1, <4>1
      <4> QED BY <1>4, <2>3, <3>3, <4>2
    <3> QED BY <1>3, <3>2, <3>3
  <2> QED BY <1>3, <2>1, <2>2, <2>3
<1>10. Adjacent(t)
  BY <1>7, <1>9 DEF Adjacent, g
<1>11. Unique(t)
  <2>1. ASSUME NEW i \in 1..(n - 1), NEW j \in 1..(n - 1), Lower(t[i].seq) = Lower(t[j].seq), i < j
        PROVE  FALSE
    <3>1. CASE j \in 1..(p - 1)
      <4>1. i \in 1..(p - 1) /\ t[i] = r[i] /\ t[j] = r[j] /\ i \in 1..n /\ j \in 1..n
        BY <1>1, <1>3, <1>7, <2>1, <3>1
      <4> QED BY <1>6, <2>1, <4>1
    <3>2. CASE i \in 1..(p - 1) /\ j \in p..(n - 1)
      <4>1. t[i] = r[i] /\ t[j] = r[j + 1] /\ i \in 1..n /\ j + 1 \in 1..n
        BY <1>3, <3>2
      <4>2. i = j + 1
        BY <1>6, <2>1, <4>1
      <4> QED BY <2>1, <4>2
    <3>3. CASE i \in p..(n - 1)
      <4>1. j \in p..(n - 1)
        BY <1>1, <1>7, <2>1, <3>3
      <4>2. t[i] = r[i + 1] /\ t[j] = r[j + 1] /\ i + 1 \in 1..n /\ j + 1 \in 1..n
        BY <1>3, <3>3, <4>1
      <4>3. i + 1 = j + 1
        BY <1>6, <2>1, <4>2
      <4> QED BY <2>1, <4>3
    <3> QED BY <1>3, <3>1, <3>2, <3>3
  <2>2. \A i, j \in 1..(n - 1) : Lower(t[i].seq) = Lower(t[j].seq) => ~(i < j) /\ ~(j < i)
    BY <2>1
  <2> QED BY <1>1, <1>7, <2>2 DEF Unique
<1>12. ASSUME NEW y \in Firsts PROVE Leads(t, y, l[y])
  <2>1. Leads(r, y, k[y]) /\ k[y] \in Bindable \cup {None}
    BY <1>1
  <2>2. CASE k[y] = None
    <3>1. \A i \in 1..n : f(i) # y
      BY <2>1, <2>2 DEF Leads, f, n
    <3>2. y # x
      BY <1>4, <1>7, <3>1
    <3>3. l[y] = None
      BY <1>1, <2>2, <3>2
    <3>4. \A j \in 1..(n - 1) : g(j) # y
      BY <1>3, <1>4, <3>1
    <3> QED BY <1>7, <3>3, <3>4 DEF Leads, g
  <2>3. CASE k[y] # None
    <3>1. PICK q \in 1..n : k[y] = r[q].seq /\ f(q) = y /\ \A i \in 1..n : f(i) = y => q <= i
      BY <2>1, <2>3 DEF Leads, f, n
    <3>2. CASE q = p
      <4>1. y = x /\ l[y] = next
        BY <1>1, <1>4, <3>1, <3>2
      <4>2. \A j \in 1..(p - 1) : g(j) # x
        BY <1>3, <1>4, <1>7, <3>1, <3>2, <4>1
      <4>3. CASE p < n /\ f(p + 1) = x
        <5>1. p \in 1..(n - 1) /\ p \in p..(n - 1) /\ l[y] = r[p + 1].seq
          BY <1>1, <1>7, <1>8, <4>1, <4>3
        <5>2. t[p] = r[p + 1] /\ g(p) = x
          BY <1>3, <1>4, <4>3, <5>1
        <5>3. ASSUME NEW j \in 1..(n - 1), g(j) = x PROVE p <= j
          BY <1>3, <4>2, <5>3
        <5>4. l[y] # None
          BY <1>2, <1>3, <5>1
        <5> QED BY <1>7, <4>1, <5>1, <5>2, <5>3, <5>4 DEF Leads, g
      <4>4. CASE ~(p < n /\ f(p + 1) = x)
        <5>1. l[y] = None
          BY <1>8, <4>1, <4>4
        <5>2. ASSUME NEW j \in p..(n - 1), g(j) = x PROVE FALSE
          <6>1. f(j + 1) = x /\ j + 1 \in 1..n /\ p + 1 \in 1..n /\ p < n /\ p <= p + 1 /\ p + 1 <= j + 1
            BY <1>1, <1>3, <1>4, <1>7, <5>2
          <6>2. f(p + 1) = x
            BY <1>4, <1>5, <1>7, <6>1
          <6> QED BY <4>4, <6>1, <6>2
        <5>3. \A j \in 1..(n - 1) : g(j) # x
          BY <1>3, <4>2, <5>2
        <5> QED BY <1>7, <4>1, <5>1, <5>3 DEF Leads, g
      <4> QED BY <4>3, <4>4
    <3>3. CASE q # p
      <4>1. l[y] = k[y]
        <5>1. r[q].seq # r[p].seq
          BY <1>6, <1>7, <3>1, <3>3
        <5>2. y = x => k[x] # r[p].seq
          BY <3>1, <5>1
        <5> QED BY <1>1, <5>2
      <4>2. CASE q < p
        <5>1. q \in 1..(p - 1) /\ q \in 1..(n - 1) /\ t[q] = r[q] /\ g(q) = y
          BY <1>1, <1>3, <1>4, <1>7, <3>1, <4>2
        <5>2. ASSUME NEW j \in 1..(n - 1), g(j) = y PROVE q <= j
          <6>1. CASE j \in 1..(p - 1)
            BY <1>3, <1>4, <3>1, <5>2, <6>1
          <6>2. CASE j \in p..(n - 1)
            BY <1>7, <4>2, <6>2
          <6> QED BY <1>3, <6>1, <6>2
        <5> QED BY <1>7, <2>3, <3>1, <4>1, <5>1, <5>2 DEF Leads, g
      <4>3. CASE p < q
        <5>1. q - 1 \in p..(n - 1) /\ q - 1 \in 1..(n - 1) /\ (q - 1) + 1 = q
          BY <1>1, <1>7, <3>1, <4>3
        <5>2. t[q - 1] = r[q] /\ g(q - 1) = y
          BY <1>3, <1>4, <3>1, <5>1
        <5>3. ASSUME NEW j \in 1..(n - 1), g(j) = y PROVE q - 1 <= j
          <6>1. CASE j \in 1..(p - 1)
            <7>1. q <= j
              BY <1>3, <1>4, <3>1, <5>3, <6>1
            <7> QED BY <1>7, <4>3, <6>1, <7>1
          <6>2. CASE j \in p..(n - 1)
            <7>1. f(j + 1) = y /\ j + 1 \in 1..n
              BY <1>3, <1>4, <5>3, <6>2
            <7>2. q <= j + 1
              BY <3>1, <7>1
            <7> QED BY <1>7, <3>1, <6>2, <7>2
          <6> QED BY <1>3, <6>1, <6>2
        <5> QED BY <1>7, <2>3, <3>1, <4>1, <5>1, <5>2, <5>3 DEF Leads, g
      <4> QED BY <1>7, <3>1, <3>3, <4>2, <4>3
    <3> QED BY <3>2, <3>3
  <2> QED BY <2>2, <2>3
<1>13. l \in [Firsts -> Bindable \cup {None}]
  <2>1. next \in Bindable \cup {None}
    <3>1. p < n => p + 1 \in 1..n
      BY <1>1, <1>7
    <3> QED BY <1>2, <1>8, <3>1
  <2> QED BY <1>1, <2>1
<1> QED BY <1>10, <1>11, <1>12, <1>13 DEF Clumps

\* gen_add_key() and del_key() keep the ring in order.
LEMMA AddKeeps ==
  ASSUME Clumps(ring, klookup), NEW seq \in Bindable, NEW efunc \in Efuncs \cup {None},
         gen_add_key(seq, efunc)
  PROVE  Clumps(ring', klookup')
<1> DEFINE x == First(seq)
           new == [seq |-> seq, efunc |-> efunc]
<1>1. /\ ring \in Seq(Bound) /\ Len(ring) \in Nat /\ DOMAIN ring = 1..Len(ring)
      /\ \A i \in 1..Len(ring) : ring[i] \in Bound /\ ring[i].seq \in Bindable
      /\ Adjacent(ring) /\ Unique(ring) /\ \A y \in Firsts : Leads(ring, y, klookup[y])
  BY RingIs
<1>2. klookup \in [Firsts -> Bindable \cup {None}] /\ x \in Firsts
  BY BoundIs DEF Clumps
<1>3. CASE find_key(seq) # None
  <2>1. PICK i \in 1..Len(ring) : find_key(seq) = ring[i].seq /\ Pos(ring[i].seq) = i
    BY <1>3, FindIs
  <2>2. ring' = [ring EXCEPT ![i].efunc = efunc] /\ klookup' = klookup
    BY <1>3, <2>1 DEF gen_add_key
  <2>3. /\ ring' \in Seq(Bound) /\ Len(ring') = Len(ring)
        /\ \A j \in 1..Len(ring) : ring'[j].seq = ring[j].seq
    <3>1. [ring[i] EXCEPT !.efunc = efunc] \in Bound /\ [ring[i] EXCEPT !.efunc = efunc].seq = ring[i].seq
      BY <1>1 DEF Bound
    <3>2. ring' = [ring EXCEPT ![i] = [ring[i] EXCEPT !.efunc = efunc]]
      BY <2>2
    <3> DEFINE b == [ring[i] EXCEPT !.efunc = efunc]
    <3>3. b \in Bound /\ b.seq = ring[i].seq /\ ring' = [ring EXCEPT ![i] = b]
      BY <3>1, <3>2
    <3> HIDE DEF b
    <3>4. ring' \in Seq(Bound) /\ Len(ring') = Len(ring)
      BY <1>1, <3>3
    <3>5. \A j \in 1..Len(ring) : ring'[j] = IF j = i THEN b ELSE ring[j]
      BY <1>1, <3>3
    <3> QED BY <3>3, <3>4, <3>5
  <2>4. Adjacent(ring')
    BY <1>1, <2>3 DEF Adjacent
  <2>5. Unique(ring')
    BY <1>1, <2>3 DEF Unique
  <2>6. \A y \in Firsts : Leads(ring', y, klookup'[y])
    BY <1>1, <2>2, <2>3 DEF Leads
  <2> QED BY <1>2, <2>2, <2>3, <2>4, <2>5, <2>6 DEF Clumps
<1>4. CASE find_key(seq) = None
  <2> DEFINE at == RingAt(x)
             kk == at + 1
  <2>1. \A i \in 1..Len(ring) : Lower(ring[i].seq) # Lower(seq)
    <3>1. ASSUME NEW i \in 1..Len(ring), find_key(seq) = ring[i].seq, find_key(seq) # None PROVE FALSE
      BY <1>4, <3>1
    <3> QED BY <3>1, FindIs
  <2>2. /\ ring' = SubSeq(ring, 1, at) \o <<new>> \o SubSeq(ring, at + 1, Len(ring))
        /\ klookup' = IF klookup[x] = None THEN [klookup EXCEPT ![x] = seq] ELSE klookup
    BY <1>4 DEF gen_add_key
  <2>3. /\ at \in 0..Len(ring)
        /\ \/ at = Len(ring) /\ \A i \in 1..Len(ring) : First(ring[i].seq) # x
           \/ /\ at # 0 /\ First(ring[at].seq) = x
              /\ \A i \in 1..Len(ring) : at < i => First(ring[i].seq) # x
    <3> HIDE DEF x
    <3>1. CASE klookup[x] = None
      <4>1. at = Len(ring)
        BY <3>1 DEF RingAt
      <4>2. \A i \in 1..Len(ring) : First(ring[i].seq) # x
        BY <1>1, <1>2, <3>1 DEF Leads
      <4> QED BY <1>1, <4>1, <4>2
    <3>2. CASE klookup[x] # None
      <4>1. PICK p \in 1..Len(ring), m \in 1..Len(ring) :
              /\ Pos(klookup[x]) = p /\ p + m - 1 <= Len(ring)
              /\ \A i \in 1..Len(ring) : First(ring[i].seq) = x <=> i \in p..(p + m - 1)
              /\ Len(Clump(x)) = m
        BY <1>2, <3>2, ClumpIs
      <4>2. at = p + m - 1
        BY <3>2, <4>1 DEF RingAt
      <4> HIDE DEF at
      <4>3. at \in 1..Len(ring) /\ at \in p..(p + m - 1)
        BY <1>1, <4>1, <4>2
      <4>4. \A i \in 1..Len(ring) : at < i => First(ring[i].seq) # x
        BY <1>1, <4>1, <4>2
      <4> QED BY <4>1, <4>3, <4>4
    <3> QED BY <3>1, <3>2
  <2>4. new \in Bound /\ new.seq = seq
    BY DEF Bound
  <2> HIDE DEF at, new
  <2>5. kk \in 1..(Len(ring) + 1) /\ kk - 1 = at /\ kk = at + 1
    <3>1. at \in 0..Len(ring)
      BY <2>3
    <3> QED BY <1>1, <3>1
  <2> HIDE DEF kk
  <2>6. InsertAt(ring, kk, new) = ring'
    BY <2>2, <2>5 DEF InsertAt
  <2>7. /\ InsertAt(ring, kk, new) \in Seq(Bound) /\ Len(InsertAt(ring, kk, new)) = Len(ring) + 1
        /\ \A j \in 1..(Len(ring) + 1) : InsertAt(ring, kk, new)[j]
              = IF j < kk THEN ring[j] ELSE IF j = kk THEN new ELSE ring[j - 1]
    <3>1. ring \in Seq(Bound)
      BY <1>1
    <3> QED BY ONLY <2>4, <2>5, <3>1, InsertRange
  <2>8. /\ ring' \in Seq(Bound) /\ Len(ring') = Len(ring) + 1
        /\ \A j \in 1..(Len(ring) + 1) :
             ring'[j] = IF j < at + 1 THEN ring[j] ELSE IF j = at + 1 THEN new ELSE ring[j - 1]
    BY <2>5, <2>6, <2>7
  <2>9. Inserted(ring, klookup, new, at, ring', klookup')
    BY <2>2, <2>3, <2>4, <2>8 DEF Inserted
  <2> QED BY <2>1, <2>3, <2>4, <2>9, ClumpsInsert
<1> QED BY <1>3, <1>4

LEMMA DelKeeps ==
  ASSUME Clumps(ring, klookup), NEW seq \in Seqs, del_key(seq)
  PROVE  Clumps(ring', klookup')
<1>1. /\ ring \in Seq(Bound) /\ Len(ring) \in Nat /\ DOMAIN ring = 1..Len(ring)
      /\ \A i \in 1..Len(ring) : ring[i] \in Bound /\ ring[i].seq \in Bindable
      /\ Unique(ring)
  BY RingIs
<1>2. PICK p \in 1..Len(ring) : ring[p].seq = seq
  BY <1>1 DEF Seqs
<1>3. Pos(seq) = p
  <2>1. \A j \in DOMAIN ring : ring[j].seq = seq => j = p
    BY <1>1, <1>2 DEF Unique
  <2> QED BY <1>1, <1>2, <2>1 DEF Pos
<1> DEFINE x == First(seq)
           next == IF p < Len(ring) /\ First(ring[p + 1].seq) = x THEN ring[p + 1].seq ELSE None
<1>4. /\ ring' = SubSeq(ring, 1, p - 1) \o SubSeq(ring, p + 1, Len(ring))
      /\ klookup' = IF klookup[x] = ring[p].seq THEN [klookup EXCEPT ![x] = next] ELSE klookup
  BY <1>2, <1>3 DEF del_key
<1>5. ring' = RemoveAt(ring, p)
  BY <1>4 DEF RemoveAt
<1>6. IsInjective(ring)
  BY <1>1 DEF IsInjective, Unique
<1>7. /\ RemoveAt(ring, p) \in Seq(Bound) /\ Len(RemoveAt(ring, p)) = Len(ring) - 1
      /\ \A j \in 1..(Len(ring) - 1) :
           RemoveAt(ring, p)[j] = IF j < p THEN ring[j] ELSE ring[j + 1]
  <2>1. ring \in Seq(Bound) /\ p \in 1..Len(ring)
    BY <1>1
  <2> QED BY ONLY <1>6, <2>1, RemoveRange
<1>8. x \in Firsts /\ x = First(ring[p].seq)
  BY <1>1, <1>2, BoundIs
<1>9. Removed(ring, klookup, p, x, ring', klookup')
  <2> HIDE DEF x
  <2> QED BY <1>4, <1>5, <1>7, <1>8 DEF Removed
<1> HIDE DEF x, next
<1> QED BY <1>9, ClumpsRemove

-----------------------------------------------------------------------------
(* The line, to which the text in kout belongs.                            *)

\* Text t between the two halves of line b.
Splice(b, p, t) == SubSeq(b, 1, p) \o t \o SubSeq(b, p + 1, Len(b))
Passage(b, p, t) == SubSeq(b, 1, p) \o t

Spliceable(b, p, t) ==
  t \in Seq(Printable) /\ b \in Seq(Printable) /\ p \in 0..Len(b)

LEMMA Spliced ==
  ASSUME NEW b, NEW p, NEW t, Spliceable(b, p, t)
  PROVE  /\ Splice(b, p, t) \in Seq(Printable) /\ Len(Splice(b, p, t)) = Len(b) + Len(t)
         /\ p + Len(t) \in 0..Len(Splice(b, p, t))
         /\ SubSeq(Splice(b, p, t), 1, p + Len(t)) = Passage(b, p, t)
         /\ SubSeq(Splice(b, p, t), p + Len(t) + 1, Len(Splice(b, p, t))) = SubSeq(b, p + 1, Len(b))
         /\ t = <<>> => Splice(b, p, t) = b /\ p + Len(t) = p
<1> DEFINE l == SubSeq(b, 1, p)
           r == SubSeq(b, p + 1, Len(b))
           a == l \o t
           f == a \o r
<1>0. t \in Seq(Printable) /\ b \in Seq(Printable) /\ p \in 0..Len(b)
  BY DEF Spliceable
<1>1. /\ l \in Seq(Printable) /\ r \in Seq(Printable) /\ Len(l) = p /\ Len(r) = Len(b) - p /\ l \o r = b
  BY <1>0, Halves
<1>2. Len(b) \in Nat /\ Len(t) \in Nat /\ p \in Nat
  BY <1>0
<1> HIDE DEF l, r
<1>3. a \in Seq(Printable) /\ Len(a) = p + Len(t)
  BY <1>0, <1>1, ConcatProperties
<1>4. t = <<>> => a = l /\ Len(t) = 0
  BY <1>1, ConcatEmptySeq
<1> HIDE DEF a
<1>5. /\ f \in Seq(Printable) /\ Len(f) = Len(a) + Len(r)
      /\ SubSeq(f, 1, Len(a)) = a /\ SubSeq(f, Len(a) + 1, Len(f)) = r
  <2>1. r \in Seq(Printable) /\ a \in Seq(Printable)
    BY <1>1, <1>3
  <2>2. /\ a \o r \in Seq(Printable) /\ Len(a \o r) = Len(a) + Len(r)
        /\ SubSeq(a \o r, 1, Len(a)) = a /\ SubSeq(a \o r, Len(a) + 1, Len(a \o r)) = r
    BY ONLY <2>1, Cut
  <2> QED BY <2>2
<1>6. t = <<>> => f = b /\ p + Len(t) = p
  <2>1. t = <<>> => f = l \o r
    BY <1>4
  <2> HIDE DEF f
  <2> QED BY <1>1, <1>2, <1>4, <2>1
<1> HIDE DEF f
<1>7. Len(f) = Len(b) + Len(t) /\ p + Len(t) \in 0..Len(f)
  BY <1>1, <1>2, <1>3, <1>5
<1>8. SubSeq(f, 1, p + Len(t)) = a /\ SubSeq(f, p + Len(t) + 1, Len(f)) = r
  BY <1>3, <1>5
<1> QED BY <1>5, <1>6, <1>7, <1>8 DEF f, a, l, r, Splice, Passage

Editing == Spliceable(kbuf, kpos, kout)

LEMMA LineIs ==
  ASSUME Editing
  PROVE  /\ FlushedLine \in Seq(Printable) /\ FlushedPos \in 0..Len(FlushedLine)
         /\ SubSeq(FlushedLine, 1, FlushedPos) = SubSeq(kbuf, 1, kpos) \o kout
         /\ SubSeq(FlushedLine, FlushedPos + 1, Len(FlushedLine)) = SubSeq(kbuf, kpos + 1, Len(kbuf))
         /\ kout = <<>> => FlushedLine = kbuf /\ FlushedPos = kpos
<1>1. kout \in Seq(Printable) /\ kbuf \in Seq(Printable) /\ kpos \in 0..Len(kbuf)
  BY DEF Editing, Spliceable
<1>2. FlushedLine = Splice(kbuf, kpos, kout) /\ FlushedPos = kpos + Len(kout)
  BY DEF FlushedLine, FlushedPos, Splice
<1>3. Spliceable(kbuf, kpos, kout)
  BY DEF Editing
<1>4. Splice(kbuf, kpos, kout) \in Seq(Printable)
  BY ONLY <1>3, Spliced
<1>5. kpos + Len(kout) \in 0..Len(Splice(kbuf, kpos, kout))
  BY ONLY <1>3, Spliced
<1>6. SubSeq(Splice(kbuf, kpos, kout), 1, kpos + Len(kout)) = Passage(kbuf, kpos, kout)
  BY ONLY <1>3, Spliced
<1>9. Passage(kbuf, kpos, kout) = SubSeq(kbuf, 1, kpos) \o kout
  BY DEF Passage
<1>7. SubSeq(Splice(kbuf, kpos, kout), kpos + Len(kout) + 1, Len(Splice(kbuf, kpos, kout)))
        = SubSeq(kbuf, kpos + 1, Len(kbuf))
  BY ONLY <1>3, Spliced
<1>8. kout = <<>> => Splice(kbuf, kpos, kout) = kbuf /\ kpos + Len(kout) = kpos
  BY ONLY <1>3, Spliced
<1> QED BY <1>2, <1>4, <1>5, <1>6, <1>7, <1>8, <1>9

LEMMA LineIsNext ==
  ASSUME kbuf' \in Seq(Printable), kpos' \in 0..Len(kbuf'), kout' = <<>>
  PROVE  Editing' /\ FlushedLine' = kbuf' /\ FlushedPos' = kpos'
<1>1. kout' \in Seq(Printable)
  BY EmptySeq
<1>2. FlushedLine' = Splice(kbuf', kpos', kout') /\ FlushedPos' = kpos' + Len(kout')
  BY DEF FlushedLine, FlushedPos, Splice
<1>3. Splice(kbuf', kpos', kout') = kbuf' /\ kpos' + Len(kout') = kpos'
  <2>1. Spliceable(kbuf', kpos', kout') /\ kout' = <<>>
    BY <1>1 DEF Spliceable
  <2> QED BY ONLY <2>1, Spliced
<1> QED BY <1>1, <1>2, <1>3 DEF Editing, Spliceable

\* An editing function does to the line what it does in LineEdit.
LEMMA EditIs ==
  ASSUME Editing, NEW f \in Efuncs, do_edit_func(f, FlushedLine, FlushedPos), kout' = <<>>
  PROVE  Editing' /\ (LE!Next \/ UNCHANGED LE!vars)
<1> DEFINE b == FlushedLine
           p == FlushedPos
<1>1. b \in Seq(Printable) /\ p \in 0..Len(b) /\ Len(b) \in Nat
  BY LineIs
<1> HIDE DEF b, p
<1>2. CASE f = "K_BSPC"
  <2>1. /\ kbuf' = IF p = 0 THEN b ELSE SubSeq(b, 1, p - 1) \o SubSeq(b, p + 1, Len(b))
        /\ kpos' = IF p = 0 THEN 0 ELSE p - 1
    BY <1>2 DEF do_edit_func, b, p
  <2>2. CASE p = 0
    <3>1. kbuf' = b /\ kpos' = p /\ kpos' \in 0..Len(kbuf') /\ kbuf' \in Seq(Printable)
      BY <1>1, <2>1, <2>2
    <3>2. Editing' /\ FlushedLine' = b /\ FlushedPos' = p
      BY <3>1, LineIsNext
    <3> QED BY <3>2 DEF LE!vars, b, p
  <2>3. CASE p # 0
    <3> DEFINE l == SubSeq(b, 1, p - 1)
               r == SubSeq(b, p + 1, Len(b))
    <3>1. p \in 1..Len(b)
      BY <1>1, <2>3
    <3>2. l \in Seq(Printable) /\ Len(l) = p - 1
      BY <1>1, <3>1, Upto
    <3>3. r \in Seq(Printable)
      BY <1>1, Halves
    <3> HIDE DEF l, r
    <3>4. l \o r \in Seq(Printable) /\ Len(l \o r) = Len(l) + Len(r) /\ Len(r) \in Nat
      <4>1. l \in Seq(Printable) /\ r \in Seq(Printable)
        BY <3>2, <3>3
      <4>2. l \o r \in Seq(Printable) /\ Len(l \o r) = Len(l) + Len(r)
        BY ONLY <4>1, Cut
      <4> QED BY <4>1, <4>2
    <3>5. kbuf' = l \o r /\ kpos' = p - 1
      BY <2>1, <2>3 DEF l, r
    <3>6. kbuf' \in Seq(Printable) /\ kpos' \in 0..Len(kbuf')
      BY <3>1, <3>2, <3>4, <3>5
    <3>7. Editing' /\ FlushedLine' = l \o r /\ FlushedPos' = p - 1
      BY <3>5, <3>6, LineIsNext
    <3>8. LE!Erase
      BY <1>1, <2>3, <3>7 DEF LE!Erase, LE!After, l, r, b, p
    <3> QED BY <3>7, <3>8 DEF LE!Next
  <2> QED BY <2>2, <2>3
<1>3. CASE f = "K_CLEFT"
  <2>1. kbuf' = b /\ kpos' = IF p = 0 THEN 0 ELSE p - 1
    BY <1>3 DEF do_edit_func, b, p
  <2>2. kbuf' \in Seq(Printable) /\ kpos' \in 0..Len(kbuf')
    BY <1>1, <2>1
  <2>3. Editing' /\ FlushedLine' = b /\ FlushedPos' = IF p = 0 THEN p ELSE p - 1
    BY <2>1, <2>2, LineIsNext
  <2>4. CASE p = 0
    BY <2>3, <2>4 DEF LE!vars, b, p
  <2>5. CASE p # 0
    <3>1. LE!Left
      BY <1>1, <2>3, <2>5 DEF LE!Left, b, p
    <3> QED BY <2>3, <3>1 DEF LE!Next
  <2> QED BY <2>4, <2>5
<1>4. CASE f = "K_PROCESS"
  <2>1. kbuf' = <<>> /\ kpos' = 0
    BY <1>4 DEF do_edit_func
  <2>2. kbuf' \in Seq(Printable) /\ kpos' \in 0..Len(kbuf')
    BY <2>1, EmptySeq
  <2>3. Editing' /\ FlushedLine' = <<>> /\ FlushedPos' = 0
    BY <2>1, <2>2, LineIsNext
  <2>4. LE!Take
    BY <2>3 DEF LE!Take
  <2> QED BY <2>3, <2>4 DEF LE!Next
<1> QED BY <1>2, <1>3, <1>4 DEF Efuncs

LEMMA FlushIs ==
  ASSUME Editing, flush_out
  PROVE  Editing' /\ UNCHANGED LE!vars /\ kout' = <<>>
<1>1. kbuf' = FlushedLine /\ kpos' = FlushedPos /\ kout' = <<>>
  BY DEF flush_out
<1>2. kbuf' \in Seq(Printable) /\ kpos' \in 0..Len(kbuf')
  BY <1>1, LineIs
<1> QED BY <1>1, <1>2, LineIsNext DEF LE!vars

\* A character that is kept in kout is already where it will be in the line.
LEMMA KeptIs ==
  ASSUME Editing, NEW x \in Printable, kout' = Append(kout, x), UNCHANGED edit
  PROVE  Editing' /\ LE!Insert(x)
<1> DEFINE l == SubSeq(kbuf, 1, kpos)
           r == SubSeq(kbuf, kpos + 1, Len(kbuf))
<1>1. /\ kout \in Seq(Printable) /\ kbuf \in Seq(Printable) /\ kpos \in 0..Len(kbuf)
      /\ kbuf' = kbuf /\ kpos' = kpos
  BY DEF Editing, Spliceable, edit
<1>2. Append(kout, x) = kout \o <<x>> /\ Append(kout, x) \in Seq(Printable)
      /\ Len(Append(kout, x)) = Len(kout) + 1
  BY <1>1, AppendIsConcat, AppendProperties
<1>3. Editing'
  BY <1>1, <1>2 DEF Editing, Spliceable
<1>4. l \in Seq(Printable) /\ <<x>> \in Seq(Printable)
  BY <1>1, Halves
<1>5. FlushedLine' = (l \o Append(kout, x)) \o r
  BY <1>1 DEF FlushedLine
<1>6. LE!Before = l \o kout /\ LE!After = r
  BY LineIs DEF LE!Before, LE!After
<1> HIDE DEF l, r
<1>7. l \o Append(kout, x) = (l \o kout) \o <<x>>
  <2>1. l \o (kout \o <<x>>) = (l \o kout) \o <<x>>
    BY <1>1, <1>4, ConcatAssociative
  <2> QED BY <1>2, <2>1
<1>8. FlushedLine' = LE!Before \o <<x>> \o LE!After
  BY <1>5, <1>6, <1>7
<1>9. FlushedPos' = FlushedPos + 1
  <2>1. Len(kout) \in Nat /\ Len(kout') = Len(kout) + 1 /\ kpos \in Nat
    BY <1>1, <1>2
  <2> QED BY <1>1, <2>1 DEF FlushedPos
<1> QED BY <1>3, <1>8, <1>9 DEF LE!Insert

-----------------------------------------------------------------------------
(* The calls in progress.                                                  *)

Call == [at : {"top", "high", "key", "low", "rest"}, s : Seq(Char)]
Whose == {"user", "program"}

\* Calls ds are the first k of cs, and then call r.
Onto(cs, k, r, ds) ==
  /\ ds \in Seq(Call) /\ Len(ds) = k + 1 /\ ds[k + 1] = r
  /\ \A i \in 1..k : ds[i] = cs[i]

LEMMA Replaced ==
  ASSUME NEW cs \in Seq(Call), cs # <<>>, NEW r \in Call
  PROVE  Onto(cs, Len(cs) - 1, r, [cs EXCEPT ![Len(cs)] = r])
<1> DEFINE n == Len(cs)
           ds == [cs EXCEPT ![n] = r]
<1>1. /\ n \in Nat /\ n > 0 /\ DOMAIN cs = 1..n /\ n \in 1..n
      /\ \A i \in 1..n : cs[i] \in Call
  BY ElementOfSeq, LenProperties, EmptySeq
<1>2. ds \in Seq(Call) /\ Len(ds) = n
  BY <1>1, ExceptSeq
<1>3. \A i \in 1..n : ds[i] = IF i = n THEN r ELSE cs[i]
  BY <1>1
<1> HIDE DEF ds, n
<1>4. ds[n] = r /\ \A i \in 1..(n - 1) : ds[i] = cs[i]
  BY <1>1, <1>3
<1>5. n = (n - 1) + 1
  BY <1>1
<1>6. Onto(cs, n - 1, r, ds)
  BY <1>2, <1>4, <1>5 DEF Onto
<1> QED BY <1>6 DEF ds, n

LEMMA Pushed ==
  ASSUME NEW cs \in Seq(Call), NEW r \in Call
  PROVE  Onto(cs, Len(cs), r, Append(cs, r))
BY AppendProperties DEF Onto

LEMMA GoesIs ==
  ASSUME calls \in Seq(Call), calls # <<>>, NEW place \in {"top", "high", "key", "low", "rest"},
         NEW s \in Seq(Char), Goes(place, s)
  PROVE  Onto(calls, Len(calls) - 1, At(place, s), calls')
<1>1. At(place, s) \in Call
  BY DEF At, Call
<1> QED BY <1>1, Replaced DEF Goes

\* The characters of s when they are added to what is typed.
Fresh(s) == [i \in DOMAIN s |-> [c |-> s[i], n |-> Len(typed) + i]]

LEMMA ArrivesIs ==
  ASSUME calls \in Seq(Call), typed \in Seq(Whose), NEW s \in Seq(Chars), NEW who \in Whose,
         Arrives(s, who)
  PROVE  /\ Onto(calls, Len(calls), At("top", Fresh(s)), calls')
         /\ Fresh(s) \in Seq(Char) /\ Len(Fresh(s)) = Len(s)
         /\ typed' \in Seq(Whose) /\ Len(typed') = Len(typed) + Len(s) /\ Len(typed') <= MaxTyped
         /\ \A i \in 1..Len(typed) : typed'[i] = typed[i]
         /\ \A i \in 1..Len(s) : typed'[Len(typed) + i] = who
<1>1. /\ Len(s) \in Nat /\ Len(typed) \in Nat /\ MaxTyped \in Nat /\ DOMAIN s = 1..Len(s)
      /\ Len(typed) + Len(s) <= MaxTyped
  BY KeyboardAssumption DEF Arrives
<1>2. \A i \in 1..Len(s) : [c |-> s[i], n |-> Len(typed) + i] \in Char
  BY <1>1 DEF Char
<1>3. Fresh(s) \in Seq(Char) /\ Len(Fresh(s)) = Len(s)
  <2>1. Fresh(s) = [i \in 1..Len(s) |-> [c |-> s[i], n |-> Len(typed) + i]]
    BY <1>1 DEF Fresh
  <2> QED BY <1>1, <1>2, <2>1, IsASeq
<1>4. Onto(calls, Len(calls), At("top", Fresh(s)), calls')
  <2>1. At("top", Fresh(s)) \in Call
    BY <1>3 DEF At, Call
  <2>2. calls' = Append(calls, At("top", Fresh(s)))
    BY DEF Arrives, Fresh
  <2> QED BY <2>1, <2>2, Pushed
<1> DEFINE w == [i \in DOMAIN s |-> who]
<1>5. w \in Seq(Whose) /\ Len(w) = Len(s) /\ \A i \in 1..Len(s) : w[i] = who
  BY <1>1
<1> HIDE DEF w
<1>6. typed' = typed \o w
  BY DEF Arrives, w
<1>7. /\ typed' \in Seq(Whose) /\ Len(typed') = Len(typed) + Len(w)
      /\ \A i \in 1..(Len(typed) + Len(w)) :
           typed'[i] = IF i <= Len(typed) THEN typed[i] ELSE w[i - Len(typed)]
  BY <1>5, <1>6, ConcatProperties
<1>8. \A i \in 1..Len(typed) : typed'[i] = typed[i]
  BY <1>1, <1>5, <1>7
<1>9. \A i \in 1..Len(s) : typed'[Len(typed) + i] = who
  BY <1>1, <1>5, <1>7
<1> QED BY <1>1, <1>3, <1>4, <1>5, <1>7, <1>8, <1>9

LEMMA LeftoverIs ==
  ASSUME calls \in Seq(Call), calls # <<>>, NEW s \in Seq(Char), NEW rest \in Seq(Char), NEW waiting,
         Leftover(s, rest, waiting)
  PROVE  /\ kkey' = <<>>
         /\ \/ /\ Len(s) <= 1 /\ keyboard_input_waiting' = waiting
               /\ Onto(calls, Len(calls) - 1, At("top", rest), calls')
            \/ /\ Len(s) > 1 /\ keyboard_input_waiting' = waiting + 1 /\ Tail(s) \in Seq(Char)
               /\ \E mid \in Seq(Call) : /\ Onto(calls, Len(calls) - 1, At("rest", rest), mid)
                                         /\ Onto(mid, Len(mid), At("top", Tail(s)), calls')
<1>1. kkey' = <<>> /\ Len(s) \in Nat
  BY DEF Leftover
<1>2. At("top", rest) \in Call /\ At("rest", rest) \in Call
  BY DEF At, Call
<1>3. CASE Len(s) <= 1
  <2>1. calls' = [calls EXCEPT ![Len(calls)] = At("top", rest)] /\ keyboard_input_waiting' = waiting
    BY <1>1, <1>3 DEF Leftover
  <2> QED BY <1>1, <1>2, <1>3, <2>1, Replaced
<1>4. CASE Len(s) > 1
  <2> DEFINE mid == [calls EXCEPT ![Len(calls)] = At("rest", rest)]
  <2>1. calls' = mid \o <<At("top", Tail(s))>> /\ keyboard_input_waiting' = waiting + 1
    BY <1>4 DEF Leftover
  <2>2. Onto(calls, Len(calls) - 1, At("rest", rest), mid)
    BY <1>2, Replaced
  <2>3. mid \in Seq(Call)
    BY <2>2 DEF Onto
  <2>4. Tail(s) \in Seq(Char) /\ At("top", Tail(s)) \in Call
    BY <1>4 DEF At, Call
  <2> HIDE DEF mid
  <2>5. calls' = Append(mid, At("top", Tail(s)))
    BY <2>1, <2>3, AppendIsConcat
  <2>6. Onto(mid, Len(mid), At("top", Tail(s)), calls')
    BY <2>3, <2>4, <2>5, Pushed
  <2> QED BY <1>1, <1>4, <2>1, <2>2, <2>3, <2>4, <2>6
<1> QED BY <1>1, <1>3, <1>4

LEMMA DoneIs ==
  ASSUME calls \in Seq(Call), Done
  PROVE  /\ calls # <<>> /\ Top.s = <<>>
         /\ \/ Len(calls) = 1 /\ calls' = <<>>
            \/ \E n \in Nat, r \in Call :
                 /\ n + 2 = Len(calls) /\ Onto(calls, n, r, calls') /\ r.s = calls[n + 1].s
                 /\ r.at = IF calls[n + 1].at = "rest" THEN "top" ELSE calls[n + 1].at
<1> DEFINE outer == SubSeq(calls, 1, Len(calls) - 1)
           n == Len(outer)
<1>1. calls # <<>> /\ Top.s = <<>>
  BY DEF Done, AtTop
<1>2. /\ Len(calls) \in Nat /\ Len(calls) > 0 /\ n = Len(calls) - 1 /\ outer \in Seq(Call)
      /\ \A i \in 1..n : outer[i] = calls[i]
  <2>1. Len(calls) \in Nat /\ Len(calls) > 0 /\ Len(calls) \in 1..Len(calls)
    BY <1>1
  <2>2. /\ outer \in Seq(Call) /\ n = Len(calls) - 1
        /\ \A i \in 1..(Len(calls) - 1) : outer[i] = calls[i]
    BY ONLY <2>1, calls \in Seq(Call), Upto
  <2> QED BY <2>1, <2>2
<1>3. calls' = IF n > 0 /\ outer[n].at = "rest" THEN [outer EXCEPT ![n].at = "top"] ELSE outer
  BY DEF Done
<1> HIDE DEF outer
<1>4. CASE n = 0
  <2>1. calls' = outer /\ outer = <<>>
    BY <1>2, <1>3, <1>4
  <2> QED BY <1>1, <1>2, <1>4, <2>1
<1>5. CASE n > 0
  <2> DEFINE r == IF calls[n].at = "rest" THEN [calls[n] EXCEPT !.at = "top"] ELSE calls[n]
  <2>1. calls[n] \in Call /\ outer[n] = calls[n] /\ n \in 1..n /\ outer # <<>>
    BY <1>2, <1>5
  <2>2. /\ r \in Call /\ r.s = calls[n].s
        /\ r.at = IF calls[n].at = "rest" THEN "top" ELSE calls[n].at
    BY <2>1 DEF Call
  <2>3. calls' = [outer EXCEPT ![n] = r]
    <3>1. CASE calls[n].at = "rest"
      BY <1>3, <1>5, <2>1, <3>1
    <3>2. CASE calls[n].at # "rest"
      <4>1. calls' = outer /\ r = outer[n]
        BY <1>3, <2>1, <3>2
      <4> HIDE DEF r
      <4> QED BY <1>2, <4>1
    <3> QED BY <3>1, <3>2
  <2> HIDE DEF r
  <2>4. Onto(outer, n - 1, r, calls')
    BY <1>2, <2>1, <2>2, <2>3, Replaced
  <2>5. Onto(calls, n - 1, r, calls')
    BY <1>2, <2>4 DEF Onto
  <2>6. n - 1 \in Nat /\ (n - 1) + 2 = Len(calls) /\ (n - 1) + 1 = n
    BY <1>2, <1>5
  <2> QED BY <1>1, <2>2, <2>5, <2>6
<1> QED BY <1>2, <1>4, <1>5

-----------------------------------------------------------------------------
(* Types.                                                                  *)

\* Program and user are all who type, and no more wait than may.
Typed ==
  /\ Clumps(ring, klookup) /\ Editing
  /\ kkey \in Seq(Char) /\ calls \in Seq(Call)
  /\ high \in Nat /\ low \in Nat /\ high + low <= MaxWait
  /\ typed \in Seq(Whose) /\ Len(typed) <= MaxTyped

\* The character that is taken, and those that are decided on with it.
LEMMA TakeIs ==
  ASSUME Typed, AtTop, Top.s # <<>>
  PROVE  /\ calls # <<>> /\ Top \in Call /\ Top.s \in Seq(Char) /\ c \in Char /\ Tail(Top.s) \in Seq(Char)
         /\ Append(kkey, c) \in Seq(Char) /\ Len(kkey) \in Nat
         /\ Len(Append(kkey, c)) = Len(kkey) + 1 /\ Append(kkey, c) # <<>> /\ Append(kkey, c)[1] \in Char
<1>1. calls \in Seq(Call) /\ kkey \in Seq(Char) /\ calls # <<>>
  BY DEF Typed, AtTop
<1>2. Len(calls) \in 1..Len(calls)
  BY <1>1
<1>3. Top \in Call
  BY <1>1, <1>2 DEF Top
<1>4. Top.s \in Seq(Char)
  BY <1>3 DEF Call
<1>5. c \in Char /\ Tail(Top.s) \in Seq(Char)
  BY <1>4 DEF c
<1> DEFINE s == Append(kkey, c)
<1>6. s \in Seq(Char) /\ Len(s) = Len(kkey) + 1 /\ Len(kkey) \in Nat
  BY <1>1, <1>5, AppendProperties
<1> HIDE DEF s
<1>7. s # <<>> /\ s[1] \in Char
  BY <1>6
<1> QED BY <1>1, <1>3, <1>4, <1>5, <1>6, <1>7 DEF s

\* What is on top after a step.
LEMMA OntoTop ==
  ASSUME NEW cs, NEW k \in Nat, NEW r, Onto(cs, k, r, calls')
  PROVE  calls' # <<>> /\ Top' = r
<1>1. Len(calls') = k + 1 /\ calls'[k + 1] = r
  BY DEF Onto
<1> QED BY <1>1 DEF Top

\* A key that matches whole is bound.
LEMMA KeyIs ==
  ASSUME Clumps(ring, klookup), NEW s \in Seq(Char), s # <<>>, check_keys(Text(s)) = "total"
  PROVE  KeyOf(Text(s)) \in Bound
<1> DEFINE x == First(Text(s))
           matching == Matching(Text(s), "total")
<1>1. x \in Firsts
  <2>1. 1 \in DOMAIN s /\ s[1] \in Char
    BY EmptySeq
  <2>2. Text(s)[1] = s[1].c /\ s[1].c \in Chars
    BY <2>1 DEF Text, Char
  <2> QED BY <2>2 DEF First, Firsts
<1>2. matching # {}
  BY DEF check_keys
<1>3. matching \subseteq DOMAIN Clump(x)
  BY DEF Matching
<1> HIDE DEF x, matching
<1>4. Clump(x) \in Seq(Bound)
  <2>1. CASE Clump(x) = <<>>
    BY <2>1, EmptySeq
  <2>2. CASE Clump(x) # <<>>
    BY <1>1, <2>2, ClumpIs
  <2> QED BY <2>1, <2>2
<1>5. DOMAIN Clump(x) = 1..Len(Clump(x)) /\ Len(Clump(x)) \in Nat
  BY <1>4
<1>6. \E i \in matching : \A j \in matching : i <= j
  BY <1>2, <1>3, <1>5, LeastNat
<1> DEFINE i == CHOOSE k \in matching : \A j \in matching : k <= j
<1>7. i \in matching
  BY <1>6
<1>8. Clump(x)[i] \in Bound
  BY <1>3, <1>4, <1>5, <1>7
<1>9. KeyOf(Text(s)) = Clump(x)[i]
  BY DEF KeyOf, x, matching
<1> QED BY <1>8, <1>9

\* Keys are bound by Bind() and Unbind() alone, which keep their order.
LEMMA NextKeys ==
  ASSUME Clumps(ring, klookup), [Next]_vars
  PROVE  Clumps(ring', klookup')
<1>1. CASE UNCHANGED keys
  BY <1>1 DEF keys
<1>2. CASE \E s \in Typings : Read(s)
  BY <1>1, <1>2 DEF Read
<1>3. CASE GiveHigh \/ Key \/ Partial \/ GiveLow \/ IntoLine \/ Done \/ Return
  BY <1>1, <1>3 DEF GiveHigh, Key, Partial, GiveLow, IntoLine, Done, Return
<1>4. ASSUME NEW b \in Binds, Bind(b[1], b[2]) PROVE Clumps(ring', klookup')
  <2>1. b[1] \in Bindable
    BY DEF Bindable
  <2>2. b[2] \in Efuncs \cup {None}
    BY KeyboardAssumption
  <2>3. gen_add_key(b[1], b[2])
    BY <1>4 DEF Bind
  <2> QED BY <2>1, <2>2, <2>3, AddKeeps
<1>5. ASSUME NEW seq \in Bindable, Unbind(seq) PROVE Clumps(ring', klookup')
  BY <1>5, DelKeeps DEF Unbind
<1>6. CASE Getch
  BY <1>1, <1>6 DEF Getch
<1>7. CASE \E s \in Inserts : Insert(s)
  BY <1>1, <1>7 DEF Insert
<1>8. CASE \E f \in Efuncs : Edfunc(f)
  BY <1>1, <1>8 DEF Edfunc
<1>9. CASE UNCHANGED vars
  BY <1>1, <1>9 DEF vars
<1> QED BY <1>2, <1>3, <1>4, <1>5, <1>6, <1>7, <1>8, <1>9 DEF Next

LEMMA NextReaders ==
  ASSUME Typed, [Next]_vars
  PROVE  high' \in Nat /\ low' \in Nat /\ high' + low' <= MaxWait
<1>1. high \in Nat /\ low \in Nat /\ high + low <= MaxWait /\ MaxWait \in Nat
  BY KeyboardAssumption DEF Typed
<1>2. CASE UNCHANGED readers
  BY <1>1, <1>2 DEF readers
<1>3. CASE GiveHigh \/ GiveLow \/ Getch
  BY <1>1, <1>3 DEF GiveHigh, GiveLow, Getch
<1>4. CASE Key \/ Partial \/ IntoLine \/ Done \/ Return
  BY <1>2, <1>4 DEF Key, Partial, IntoLine, Done, Return
<1>5. CASE (\E s \in Typings : Read(s)) \/ \E s \in Inserts : Insert(s)
  BY <1>2, <1>5 DEF Read, Insert
<1>6. CASE \/ \E b \in Binds : Bind(b[1], b[2])
           \/ \E seq \in Bindable : Unbind(seq)
           \/ \E f \in Efuncs : Edfunc(f)
  BY <1>2, <1>6 DEF Bind, Unbind, Edfunc
<1>7. CASE UNCHANGED vars
  BY <1>2, <1>7 DEF vars
<1> QED BY <1>3, <1>4, <1>5, <1>6, <1>7 DEF Next

LEMMA NextTexts ==
  ASSUME Typed, [Next]_vars
  PROVE  /\ kkey' \in Seq(Char) /\ calls' \in Seq(Call)
         /\ typed' \in Seq(Whose) /\ Len(typed') <= MaxTyped
<1> DEFINE Goal == /\ kkey' \in Seq(Char) /\ calls' \in Seq(Call)
                   /\ typed' \in Seq(Whose) /\ Len(typed') <= MaxTyped
           s == Append(kkey, c)
<1>1. /\ kkey \in Seq(Char) /\ calls \in Seq(Call) /\ typed \in Seq(Whose) /\ Len(typed) <= MaxTyped
      /\ <<>> \in Seq(Char) /\ <<>> \in Seq(Call)
  BY EmptySeq DEF Typed
<1>2. ASSUME NEW t \in Seq(Chars), NEW who \in Whose, Arrives(t, who), UNCHANGED kkey PROVE Goal
  BY <1>1, <1>2, ArrivesIs DEF Onto
<1>3. ASSUME NEW t \in Typings, Read(t) PROVE Goal
  <2>1. t \in Seq(Chars) /\ "user" \in Whose
    BY KeyboardAssumption DEF Whose
  <2> QED BY <1>2, <1>3, <2>1 DEF Read
<1>4. ASSUME NEW t \in Inserts, Insert(t) PROVE Goal
  <2>1. t \in Seq(Chars) /\ "program" \in Whose
    BY KeyboardAssumption DEF Whose
  <2> QED BY <1>2, <1>4, <2>1 DEF Insert
<1>5. ASSUME NEW place \in {"top", "high", "key", "low", "rest"}, Goes(place, Tail(Top.s)),
             AtTop, Top.s # <<>>, kkey' \in {<<>>, kkey, s}, UNCHANGED typed
      PROVE  Goal
  <2>1. s \in Seq(Char) /\ calls # <<>> /\ Tail(Top.s) \in Seq(Char)
    BY <1>5, TakeIs
  <2>2. calls' \in Seq(Call)
    BY <1>1, <1>5, <2>1, GoesIs DEF Onto
  <2> HIDE DEF s
  <2> QED BY <1>1, <1>5, <2>1, <2>2
<1> HIDE DEF Goal
<1> SUFFICES Goal
  BY DEF Goal
<1>6. CASE GiveHigh
  BY <1>5, <1>6 DEF GiveHigh, Take
<1>7. CASE Key
  <2>1. \E place \in {"key", "top"} : Goes(place, Tail(Top.s))
    BY <1>7 DEF Key
  <2> QED BY <1>5, <1>7, <2>1 DEF Key, Take, history
<1>8. CASE Partial
  BY <1>5, <1>8 DEF Partial, Take, history
<1>9. CASE GiveLow
  BY <1>5, <1>9 DEF GiveLow, Take
<1>10. ASSUME NEW t \in Seq(Char), NEW rest \in Seq(Char), NEW w, Leftover(t, rest, w), calls # <<>>,
              UNCHANGED typed
       PROVE  Goal
  <2>1. kkey' = <<>> /\ calls' \in Seq(Call)
    BY <1>1, <1>10, LeftoverIs DEF Onto
  <2> QED BY <1>1, <1>10, <2>1 DEF Goal
<1>11. CASE IntoLine
  <2>1. AtTop /\ Top.s # <<>>
    BY <1>11 DEF IntoLine
  <2>2. s \in Seq(Char) /\ calls # <<>> /\ Tail(Top.s) \in Seq(Char)
    BY <2>1, TakeIs
  <2>3. \E w : Leftover(s, Tail(Top.s), w)
    BY <1>11 DEF IntoLine
  <2>4. UNCHANGED typed
    BY <1>11 DEF IntoLine
  <2> HIDE DEF s
  <2> QED BY <1>10, <2>2, <2>3, <2>4
<1>12. CASE Done
  <2>1. calls' \in Seq(Call)
    BY <1>1, <1>12, DoneIs DEF Onto
  <2> QED BY <1>1, <1>12, <2>1 DEF Done, history, Goal
<1>13. CASE Return
  <2>1. calls # <<>> /\ Len(calls) \in 1..Len(calls)
    BY <1>1, <1>13 DEF Return
  <2>2. Top \in Call
    BY <1>1, <2>1 DEF Top
  <2>3. Top.s \in Seq(Char)
    BY <2>2 DEF Call
  <2>4. CASE Goes("top", Top.s) /\ UNCHANGED kkey
    <3>1. calls' \in Seq(Call)
      BY <1>1, <2>1, <2>3, <2>4, GoesIs DEF Onto
    <3> QED BY <1>1, <1>13, <2>4, <3>1 DEF Return, history, Goal
  <2>5. CASE Leftover(kkey, Top.s, keyboard_input_waiting)
    BY <1>1, <1>10, <1>13, <2>1, <2>3, <2>5 DEF Return, history
  <2> QED BY <1>13, <2>4, <2>5 DEF Return
<1>14. CASE UNCHANGED <<kkey, calls, typed>>
  BY <1>1, <1>14 DEF Goal
<1>15. CASE \/ \E b \in Binds : Bind(b[1], b[2])
            \/ \E seq \in Bindable : Unbind(seq)
            \/ Getch \/ \E f \in Efuncs : Edfunc(f)
  BY <1>14, <1>15 DEF Bind, Unbind, Getch, Edfunc, history
<1>16. CASE UNCHANGED vars
  BY <1>14, <1>16 DEF vars, history
<1> QED
  BY <1>3, <1>4, <1>6, <1>7, <1>8, <1>9, <1>11, <1>12, <1>13, <1>15, <1>16 DEF Next

-----------------------------------------------------------------------------
(* The line, step by step.                                                 *)

\* The place of the call on top tells whether a program runs.
LEMMA OntoProgram ==
  ASSUME NEW cs, NEW k \in Nat, NEW r, Onto(cs, k, r, calls')
  PROVE  InProgram' <=> r.at \in {"high", "key", "low"}
BY OntoTop DEF InProgram

\* Either the text is in the line after a step or process_incoming() goes on.
LEMMA NextSeen ==
  ASSUME Typed, LineSeen, [Next]_vars
  PROVE  LineSeen'
<1>1. calls \in Seq(Call)
  BY DEF Typed
<1>2. CASE kout' = <<>>
  BY <1>2 DEF LineSeen
<1>3. ASSUME calls # <<>>, NEW s \in Seq(Char), Goes("top", s) PROVE LineSeen'
  <2>1. Onto(calls, Len(calls) - 1, At("top", s), calls') /\ Len(calls) - 1 \in Nat
    BY <1>1, <1>3, GoesIs
  <2>2. ~InProgram'
    BY <2>1, OntoProgram DEF At
  <2> QED BY <2>2 DEF LineSeen
<1>4. ASSUME NEW s \in Seq(Char), NEW rest \in Seq(Char), NEW w, Leftover(s, rest, w), calls # <<>>
      PROVE  LineSeen'
  <2>1. \E cs \in Seq(Call), k \in Nat, t \in Seq(Char) : Onto(cs, k, At("top", t), calls')
    <3>1. CASE Onto(calls, Len(calls) - 1, At("top", rest), calls')
      <4>1. Len(calls) - 1 \in Nat
        BY <1>1, <1>4
      <4> QED BY <1>1, <3>1, <4>1
    <3>2. ASSUME Tail(s) \in Seq(Char), NEW mid \in Seq(Call), Onto(mid, Len(mid), At("top", Tail(s)), calls')
          PROVE  \E cs \in Seq(Call), k \in Nat, t \in Seq(Char) : Onto(cs, k, At("top", t), calls')
      <4>1. Len(mid) \in Nat
        OBVIOUS
      <4> QED BY <3>2, <4>1
    <3> QED BY <1>1, <1>4, <3>1, <3>2, LeftoverIs
  <2>2. ~InProgram'
    BY <2>1, OntoProgram DEF At
  <2> QED BY <2>2 DEF LineSeen
<1>5. ASSUME NEW s \in Seq(Chars), NEW who \in Whose, Arrives(s, who) PROVE LineSeen'
  <2>1. typed \in Seq(Whose) /\ Len(calls) \in Nat
    BY <1>1 DEF Typed
  <2>2. Onto(calls, Len(calls), At("top", Fresh(s)), calls')
    BY <1>1, <1>5, <2>1, ArrivesIs
  <2>3. ~InProgram'
    BY <2>1, <2>2, OntoProgram DEF At
  <2> QED BY <2>3 DEF LineSeen
<1>6. CASE \E s \in Typings : Read(s)
  <2>1. PICK s \in Typings : Arrives(s, "user")
    BY <1>6 DEF Read
  <2>2. s \in Seq(Chars) /\ "user" \in Whose
    BY KeyboardAssumption DEF Whose
  <2> QED BY <1>5, <2>1, <2>2
<1>7. CASE \E s \in Inserts : Insert(s)
  <2>1. PICK s \in Inserts : Arrives(s, "program")
    BY <1>7 DEF Insert
  <2>2. s \in Seq(Chars) /\ "program" \in Whose
    BY KeyboardAssumption DEF Whose
  <2> QED BY <1>5, <2>1, <2>2
<1>8. CASE GiveHigh \/ Key \/ GiveLow \/ Done
  BY <1>2, <1>8 DEF GiveHigh, Key, GiveLow, Done, flush_out
<1>9. CASE Partial
  BY <1>3, <1>9, TakeIs DEF Partial, Take
<1>10. CASE IntoLine
  <2>1. AtTop /\ Top.s # <<>>
    BY <1>10 DEF IntoLine
  <2>2. Append(kkey, c) \in Seq(Char) /\ calls # <<>> /\ Tail(Top.s) \in Seq(Char)
    BY <2>1, TakeIs
  <2>3. \E w : Leftover(Append(kkey, c), Tail(Top.s), w)
    BY <1>10 DEF IntoLine
  <2> QED BY <1>4, <2>2, <2>3
<1>11. CASE Return
  <2>1. calls # <<>> /\ Len(calls) \in 1..Len(calls)
    BY <1>1, <1>11 DEF Return
  <2>2. Top.s \in Seq(Char) /\ kkey \in Seq(Char)
    <3>1. Top \in Call
      BY <1>1, <2>1 DEF Top
    <3> QED BY <3>1 DEF Call, Typed
  <2> QED BY <1>3, <1>4, <1>11, <2>1, <2>2 DEF Return
<1>12. CASE UNCHANGED <<kout, calls>>
  BY <1>12 DEF LineSeen, InProgram, Top
<1>13. CASE \/ \E b \in Binds : Bind(b[1], b[2])
            \/ \E seq \in Bindable : Unbind(seq)
            \/ Getch \/ \E f \in Efuncs : Edfunc(f)
  BY <1>12, <1>13 DEF Bind, Unbind, Getch, Edfunc
<1>14. CASE UNCHANGED vars
  BY <1>12, <1>14 DEF vars
<1> QED BY <1>6, <1>7, <1>8, <1>9, <1>10, <1>11, <1>13, <1>14 DEF Next

\* And every step is a step of LineEdit, or leaves the line alone.
LEMMA NextLine ==
  ASSUME Typed, LineSeen, [Next]_vars
  PROVE  Editing' /\ (LE!Next \/ UNCHANGED LE!vars)
<1>1. Editing
  BY DEF Typed
<1>2. CASE UNCHANGED <<kout, edit>>
  <2>1. Editing'
    BY <1>1, <1>2 DEF Editing, Spliceable, edit
  <2>2. UNCHANGED <<FlushedLine, FlushedPos>>
    BY <1>2 DEF FlushedLine, FlushedPos, edit
  <2> QED BY <2>1, <2>2 DEF LE!vars
<1>3. CASE flush_out
  BY <1>1, <1>3, FlushIs
<1>4. CASE (\E s \in Typings : Read(s)) \/ \E s \in Inserts : Insert(s)
  BY <1>2, <1>4 DEF Read, Insert
<1>5. CASE GiveHigh \/ GiveLow \/ Done
  BY <1>3, <1>5 DEF GiveHigh, GiveLow, Done
<1>6. CASE Partial \/ Return
  BY <1>2, <1>6 DEF Partial, Return
<1>7. CASE Key
  <2> DEFINE s == Append(kkey, c)
             f == KeyOf(Text(s)).efunc
  <2>1. s \in Seq(Char) /\ s # <<>> /\ check_keys(Text(s)) = "total"
    BY <1>7, TakeIs DEF Key, Take
  <2>2. KeyOf(Text(s)) \in Bound
    BY <2>1, KeyIs DEF Typed
  <2>3. f \in Efuncs \cup {None}
    BY <2>2 DEF Bound
  <2>4. IF f = None THEN flush_out ELSE do_edit_func(f, FlushedLine, FlushedPos) /\ kout' = <<>>
    BY <1>7 DEF Key
  <2> HIDE DEF f
  <2> QED BY <1>1, <1>3, <2>3, <2>4, EditIs
<1>8. CASE IntoLine
  <2> DEFINE s == Append(kkey, c)
  <2>1. UNCHANGED edit /\ kout' = IF s[1].c \in Printable THEN Append(kout, s[1].c) ELSE kout
    BY <1>8 DEF IntoLine
  <2> HIDE DEF s
  <2>2. CASE s[1].c \in Printable
    <3>1. Editing' /\ LE!Insert(s[1].c)
      BY <1>1, <2>1, <2>2, KeptIs
    <3> QED BY <2>2, <3>1 DEF LE!Next
  <2>3. CASE s[1].c \notin Printable
    BY <1>2, <2>1, <2>3
  <2> QED BY <2>2, <2>3
<1>9. CASE \E f \in Efuncs : Edfunc(f)
  <2>1. PICK f \in Efuncs : Edfunc(f)
    BY <1>9
  <2>2. kout = <<>> /\ kout' = kout
    BY <2>1 DEF Edfunc, LineSeen
  <2>3. FlushedLine = kbuf /\ FlushedPos = kpos
    BY <1>1, <2>2, LineIs
  <2>4. do_edit_func(f, FlushedLine, FlushedPos)
    BY <2>1, <2>3 DEF Edfunc
  <2> QED BY <1>1, <2>2, <2>4, EditIs
<1>10. CASE \/ \E b \in Binds : Bind(b[1], b[2])
            \/ \E seq \in Bindable : Unbind(seq)
            \/ Getch
  BY <1>2, <1>10 DEF Bind, Unbind, Getch
<1>11. CASE UNCHANGED vars
  BY <1>2, <1>11 DEF vars
<1> QED BY <1>4, <1>5, <1>6, <1>7, <1>8, <1>9, <1>10, <1>11 DEF Next

LEMMA FirstTyped ==
  ASSUME Init
  PROVE  Typed /\ LineSeen /\ LE!Init
<1>1. <<>> \in Seq(Bound) /\ <<>> \in Seq(Char) /\ <<>> \in Seq(Call) /\ <<>> \in Seq(Whose)
      /\ <<>> \in Seq(Printable) /\ Len(<<>>) = 0
  BY EmptySeq
<1>2. MaxTyped \in Nat /\ MaxWait \in Nat
  BY KeyboardAssumption
<1>3. ring = <<>> /\ klookup = [x \in Firsts |-> None]
  BY DEF Init, Firsts
<1>4. Clumps(ring, klookup)
  <2>1. Adjacent(ring) /\ Unique(ring)
    BY <1>3 DEF Adjacent, Unique
  <2>2. \A x \in Firsts : Leads(ring, x, klookup[x])
    BY <1>3 DEF Leads
  <2> QED BY <1>1, <1>3, <2>1, <2>2 DEF Clumps
<1>5. kout = <<>> /\ kbuf = <<>> /\ kpos = 0
  BY DEF Init
<1>6. Editing
  BY <1>1, <1>5 DEF Editing, Spliceable
<1>7. Typed
  BY <1>1, <1>2, <1>4, <1>6 DEF Typed, Init
<1>8. FlushedLine = <<>> /\ FlushedPos = 0
  BY <1>5, <1>6, LineIs
<1> QED BY <1>5, <1>7, <1>8 DEF LineSeen, LE!Init

LEMMA NextAll ==
  ASSUME Typed, LineSeen, [Next]_vars
  PROVE  Typed' /\ LineSeen'
<1>1. Clumps(ring, klookup)'
  BY NextKeys DEF Typed
<1> QED BY <1>1, NextReaders, NextTexts, NextLine, NextSeen DEF Typed

\* A program never runs while typed text waits in kout to be put into the line.
THEOREM SeesLine == Spec => []LineSeen
<1>1. Init => Typed /\ LineSeen
  BY FirstTyped
<1>2. Typed /\ LineSeen /\ [Next]_vars => (Typed /\ LineSeen)'
  BY NextAll
<1> QED BY <1>1, <1>2, PTL DEF Spec

\* Whatever programs do in between, typing and editing act on one line at once,
\* in the order of the keys: Keyboard implements LineEdit.
THEOREM LineImplemented == Spec => OneLine
<1>1. Init => Typed /\ LineSeen /\ LE!Init
  BY FirstTyped
<1>2. Typed /\ LineSeen /\ [Next]_vars => (Typed /\ LineSeen)'
  BY NextAll
<1>3. Typed /\ LineSeen /\ [Next]_vars => [LE!Next]_(LE!vars)
  BY NextLine
<1> QED BY <1>1, <1>2, <1>3, PTL DEF Spec, OneLine, LE!Spec

-----------------------------------------------------------------------------
(* The calls that have characters left are counted.                        *)

Busy(cs) == {i \in 1..Len(cs) : cs[i].s # <<>>}

\* A call counts when it has characters left.
Counts(s) == IF s = <<>> THEN 0 ELSE 1

LEMMA BusyIs ==
  ASSUME NEW cs \in Seq(Call)
  PROVE  IsFiniteSet(Busy(cs)) /\ Cardinality(Busy(cs)) \in Nat /\ Busy(cs) \subseteq 1..Len(cs)
<1>1. IsFiniteSet(1..Len(cs)) /\ Busy(cs) \subseteq 1..Len(cs)
  BY FS_Interval DEF Busy
<1>2. IsFiniteSet(Busy(cs))
  BY <1>1, FS_Subset
<1> QED BY <1>1, <1>2, FS_CardinalityType

\* One more call.
LEMMA BusyPush ==
  ASSUME NEW cs \in Seq(Call), NEW r, NEW ds, Onto(cs, Len(cs), r, ds)
  PROVE  Cardinality(Busy(ds)) = Cardinality(Busy(cs)) + Counts(r.s)
<1> DEFINE n == Len(cs)
<1>1. n \in Nat /\ Len(ds) = n + 1 /\ ds[n + 1] = r /\ \A i \in 1..n : ds[i] = cs[i]
  BY DEF Onto
<1>2. IsFiniteSet(Busy(cs)) /\ Cardinality(Busy(cs)) \in Nat /\ n + 1 \notin Busy(cs)
  BY <1>1, BusyIs
<1>3. CASE r.s = <<>>
  <2>1. Busy(ds) = Busy(cs)
    BY <1>1, <1>3 DEF Busy
  <2> QED BY <1>2, <1>3, <2>1 DEF Counts
<1>4. CASE r.s # <<>>
  <2>1. Busy(ds) = Busy(cs) \cup {n + 1}
    BY <1>1, <1>4 DEF Busy
  <2> HIDE DEF n
  <2> QED BY <1>2, <1>4, <2>1, FS_AddElement DEF Counts
<1> QED BY <1>3, <1>4

\* Another call instead of the last, or instead of the last two when these have
\* as many characters left.
LEMMA BusyTop ==
  ASSUME NEW cs \in Seq(Call), cs # <<>>, NEW r, NEW ds, Onto(cs, Len(cs) - 1, r, ds)
  PROVE  Cardinality(Busy(ds)) = Cardinality(Busy(cs)) - Counts(cs[Len(cs)].s) + Counts(r.s)
<1> DEFINE n == Len(cs)
           rest == Busy(cs) \ {n}
           was == cs[n].s
<1>1. /\ n \in Nat /\ n > 0 /\ Len(ds) = n /\ ds[n] = r
      /\ \A i \in 1..(n - 1) : ds[i] = cs[i]
  BY DEF Onto
<1>2. IsFiniteSet(Busy(cs)) /\ Cardinality(Busy(cs)) \in Nat
  BY BusyIs
<1>3. IsFiniteSet(rest) /\ Cardinality(rest) = Cardinality(Busy(cs)) - Counts(was)
  <2>1. n \in Busy(cs) <=> was # <<>>
    BY <1>1 DEF Busy
  <2>2. Cardinality(rest) = IF n \in Busy(cs) THEN Cardinality(Busy(cs)) - 1 ELSE Cardinality(Busy(cs))
    BY <1>2, FS_RemoveElement
  <2>3. IsFiniteSet(rest)
    BY <1>2, FS_RemoveElement
  <2> HIDE DEF was, n, rest
  <2> QED BY <1>2, <2>1, <2>2, <2>3 DEF Counts
<1>4. n \notin rest /\ Cardinality(rest) \in Nat
  BY <1>3, FS_CardinalityType
<1>5. Cardinality(Busy(ds)) = Cardinality(rest) + Counts(r.s)
  <2>1. CASE r.s = <<>>
    <3>1. Busy(ds) = rest
      BY <1>1, <2>1 DEF Busy
    <3> QED BY <1>4, <2>1, <3>1 DEF Counts
  <2>2. CASE r.s # <<>>
    <3>1. Busy(ds) = rest \cup {n}
      BY <1>1, <2>2 DEF Busy
    <3> HIDE DEF rest, n
    <3> QED BY <1>3, <1>4, <2>2, <3>1, FS_AddElement DEF Counts
  <2> QED BY <2>1, <2>2
<1> HIDE DEF was, n, rest
<1> QED BY <1>3, <1>5 DEF was, n

Waits == keyboard_input_waiting = Cardinality(Busy(calls))

LEMMA NextWaits ==
  ASSUME Typed, Waits, [Next]_vars
  PROVE  Waits'
<1>1. /\ calls \in Seq(Call) /\ kkey \in Seq(Char) /\ typed \in Seq(Whose)
      /\ Cardinality(Busy(calls)) \in Nat /\ keyboard_input_waiting = Cardinality(Busy(calls))
  BY BusyIs DEF Typed, Waits
<1>2. ASSUME NEW s \in Seq(Chars) \ {<<>>}, NEW who \in Whose, Arrives(s, who) PROVE Waits'
  <2>1. Onto(calls, Len(calls), At("top", Fresh(s)), calls') /\ Len(Fresh(s)) = Len(s)
    BY <1>1, <1>2, ArrivesIs
  <2>2. Counts(At("top", Fresh(s)).s) = 1
    <3>1. Len(s) # 0 /\ Len(<<>>) = 0
      BY EmptySeq
    <3> QED BY <2>1, <3>1 DEF At, Counts
  <2>3. keyboard_input_waiting' = keyboard_input_waiting + 1
    BY <1>2 DEF Arrives
  <2>4. Cardinality(Busy(calls')) = Cardinality(Busy(calls)) + Counts(At("top", Fresh(s)).s)
    BY <1>1, <2>1, BusyPush
  <2> QED BY <1>1, <2>2, <2>3, <2>4 DEF Waits
<1>3. ASSUME AtTop, Top.s # <<>>
      PROVE  /\ Tail(Top.s) \in Seq(Char) /\ calls # <<>> /\ Append(kkey, c) \in Seq(Char)
             /\ Counts(calls[Len(calls)].s) = 1
  BY <1>3, TakeIs DEF Counts, Top
<1>4. ASSUME Take, NEW place \in {"top", "high", "key", "low", "rest"}, Goes(place, Tail(Top.s)) PROVE Waits'
  <2>1. AtTop /\ Top.s # <<>> /\ keyboard_input_waiting' = keyboard_input_waiting - (1 - Counts(Tail(Top.s)))
    BY <1>4 DEF Take, Counts
  <2>2. Onto(calls, Len(calls) - 1, At(place, Tail(Top.s)), calls')
    BY <1>1, <1>3, <1>4, <2>1, GoesIs
  <2>3. Cardinality(Busy(calls')) = Cardinality(Busy(calls)) - 1 + Counts(At(place, Tail(Top.s)).s)
    BY <1>1, <1>3, <2>1, <2>2, BusyTop
  <2>4. Counts(At(place, Tail(Top.s)).s) = Counts(Tail(Top.s)) /\ Counts(Tail(Top.s)) \in Nat
    BY DEF At, Counts
  <2> QED BY <1>1, <2>1, <2>3, <2>4 DEF Waits
<1>5. ASSUME NEW s \in Seq(Char), NEW rest \in Seq(Char), calls # <<>>, NEW w \in Int,
             Leftover(s, rest, w),
             w = keyboard_input_waiting - Counts(calls[Len(calls)].s) + Counts(rest)
      PROVE  Waits'
  <2>1. CASE /\ keyboard_input_waiting' = w
             /\ Onto(calls, Len(calls) - 1, At("top", rest), calls')
    <3>1. Cardinality(Busy(calls'))
            = Cardinality(Busy(calls)) - Counts(calls[Len(calls)].s) + Counts(At("top", rest).s)
      BY <1>1, <1>5, <2>1, BusyTop
    <3> QED BY <1>1, <1>5, <2>1, <3>1 DEF Waits, At
  <2>2. ASSUME Len(s) > 1, keyboard_input_waiting' = w + 1, NEW mid \in Seq(Call),
               Onto(calls, Len(calls) - 1, At("rest", rest), mid),
               Onto(mid, Len(mid), At("top", Tail(s)), calls')
        PROVE  Waits'
    <3>1. Cardinality(Busy(mid))
            = Cardinality(Busy(calls)) - Counts(calls[Len(calls)].s) + Counts(At("rest", rest).s)
      BY <1>1, <1>5, <2>2, BusyTop
    <3>2. Cardinality(Busy(mid)) = w
      BY <1>1, <1>5, <3>1 DEF At
    <3>3. Cardinality(Busy(calls')) = Cardinality(Busy(mid)) + Counts(At("top", Tail(s)).s)
      BY <2>2, BusyPush
    <3>4. Counts(At("top", Tail(s)).s) = 1
      <4> DEFINE t == Tail(s)
      <4>1. Len(t) = Len(s) - 1 /\ Len(s) \in Nat /\ Len(<<>>) = 0
        BY <2>2, EmptySeq
      <4> HIDE DEF t
      <4>2. t # <<>>
        BY <2>2, <4>1
      <4> QED BY <4>2 DEF At, Counts, t
    <3> QED BY <2>2, <3>2, <3>3, <3>4 DEF Waits
  <2> QED BY <1>1, <1>5, <2>1, <2>2, LeftoverIs
<1>6. CASE \E s \in Typings : Read(s)
  <2>1. PICK s \in Typings : Arrives(s, "user")
    BY <1>6 DEF Read
  <2>2. s \in Seq(Chars) \ {<<>>} /\ "user" \in Whose
    BY KeyboardAssumption DEF Whose
  <2> QED BY <1>2, <2>1, <2>2
<1>7. CASE \E s \in Inserts : Insert(s)
  <2>1. PICK s \in Inserts : Arrives(s, "program")
    BY <1>7 DEF Insert
  <2>2. s \in Seq(Chars) \ {<<>>} /\ "program" \in Whose
    BY KeyboardAssumption DEF Whose
  <2> QED BY <1>2, <2>1, <2>2
<1>8. CASE GiveHigh \/ Partial \/ GiveLow
  BY <1>4, <1>8 DEF GiveHigh, Partial, GiveLow
<1>9. CASE Key
  <2>1. Take /\ \E place \in {"key", "top"} : Goes(place, Tail(Top.s))
    BY <1>9 DEF Key
  <2> QED BY <1>4, <2>1
<1>10. CASE IntoLine
  <2> DEFINE rest == Tail(Top.s)
             w == keyboard_input_waiting - (IF rest = <<>> THEN 1 ELSE 0)
  <2>1. AtTop /\ Top.s # <<>> /\ Leftover(Append(kkey, c), rest, w)
    BY <1>10 DEF IntoLine
  <2> HIDE DEF rest
  <2>2. w = keyboard_input_waiting - 1 + Counts(rest) /\ w \in Int
    <3>1. CASE rest = <<>>
      BY <1>1, <3>1 DEF Counts
    <3>2. CASE rest # <<>>
      BY <1>1, <3>2 DEF Counts
    <3> QED BY <3>1, <3>2
  <2> HIDE DEF w
  <2>3. /\ Append(kkey, c) \in Seq(Char) /\ rest \in Seq(Char) /\ calls # <<>>
        /\ Counts(calls[Len(calls)].s) = 1
    BY <1>3, <2>1 DEF rest
  <2> QED BY <1>5, <2>1, <2>2, <2>3
<1>11. CASE Return
  <2>1. calls # <<>> /\ Len(calls) \in 1..Len(calls)
    BY <1>1, <1>11 DEF Return
  <2>2. Top \in Call
    BY <1>1, <2>1 DEF Top
  <2>3. Top.s \in Seq(Char) /\ Top.s = calls[Len(calls)].s /\ Counts(Top.s) \in Nat
    BY <2>2 DEF Call, Top, Counts
  <2>4. CASE Goes("top", Top.s) /\ UNCHANGED keyboard_input_waiting
    <3>1. Onto(calls, Len(calls) - 1, At("top", Top.s), calls')
      BY <1>1, <2>1, <2>3, <2>4, GoesIs
    <3>2. Cardinality(Busy(calls')) = Cardinality(Busy(calls)) - Counts(Top.s) + Counts(At("top", Top.s).s)
      BY <1>1, <2>1, <2>3, <3>1, BusyTop
    <3> QED BY <1>1, <2>3, <2>4, <3>2 DEF Waits, At
  <2>5. CASE Leftover(kkey, Top.s, keyboard_input_waiting)
    <3>1. /\ keyboard_input_waiting \in Int
          /\ keyboard_input_waiting = keyboard_input_waiting - Counts(calls[Len(calls)].s) + Counts(Top.s)
      BY <1>1, <2>3
    <3> QED BY <1>1, <1>5, <2>1, <2>3, <2>5, <3>1
  <2> QED BY <1>11, <2>4, <2>5 DEF Return
<1>12. CASE Done
  <2>1. calls # <<>> /\ Top.s = <<>> /\ UNCHANGED keyboard_input_waiting
    BY <1>1, <1>12, DoneIs DEF Done
  <2>2. Busy(calls') = Busy(calls)
    <3>1. CASE Len(calls) = 1 /\ calls' = <<>>
      <4>1. Len(<<>>) = 0
        BY EmptySeq
      <4> QED BY <2>1, <3>1, <4>1 DEF Busy, Top
    <3>2. ASSUME NEW n \in Nat, NEW r \in Call, n + 2 = Len(calls), Onto(calls, n, r, calls'),
                 r.s = calls[n + 1].s
          PROVE  Busy(calls') = Busy(calls)
      <4>1. Len(calls') = n + 1 /\ calls'[n + 1] = r /\ \A i \in 1..n : calls'[i] = calls[i]
        BY <3>2 DEF Onto
      <4>2. calls[n + 2].s = <<>>
        BY <2>1, <3>2 DEF Top
      <4>3. \A i \in 1..(n + 1) : calls'[i].s = calls[i].s
        BY <3>2, <4>1
      <4> QED BY <3>2, <4>1, <4>2, <4>3 DEF Busy
    <3> QED BY <1>1, <1>12, <3>1, <3>2, DoneIs
  <2> QED BY <1>1, <2>1, <2>2 DEF Waits
<1>13. CASE UNCHANGED <<calls, keyboard_input_waiting>>
  BY <1>13 DEF Waits
<1>14. CASE \/ \E b \in Binds : Bind(b[1], b[2])
            \/ \E seq \in Bindable : Unbind(seq)
            \/ Getch \/ \E f \in Efuncs : Edfunc(f)
  BY <1>13, <1>14 DEF Bind, Unbind, Getch, Edfunc
<1>15. CASE UNCHANGED vars
  BY <1>13, <1>15 DEF vars
<1> QED BY <1>6, <1>7, <1>8, <1>9, <1>10, <1>11, <1>12, <1>14, <1>15 DEF Next

LEMMA FirstWaits ==
  ASSUME Init
  PROVE  Waits
<1>1. calls = <<>> /\ keyboard_input_waiting = 0 /\ Len(<<>>) = 0
  BY EmptySeq DEF Init
<1>2. Busy(calls) = {}
  BY <1>1 DEF Busy
<1> QED BY <1>1, <1>2, FS_EmptySet DEF Waits

\* input_waiting() is true exactly when there is text behind the character that
\* started the program, in any of the calls.
THEOREM InputCounted == Spec => []WaitingKnown
<1>1. Init => Typed /\ LineSeen /\ Waits
  BY FirstTyped, FirstWaits
<1>2. Typed /\ LineSeen /\ Waits /\ [Next]_vars => (Typed /\ LineSeen /\ Waits)'
  BY NextAll, NextWaits
<1>3. Typed /\ Waits => WaitingKnown
  <2> SUFFICES ASSUME Typed, Waits PROVE WaitingKnown
    OBVIOUS
  <2>1. calls \in Seq(Call) /\ IsFiniteSet(Busy(calls)) /\ Cardinality(Busy(calls)) \in Nat
    BY BusyIs DEF Typed
  <2>2. keyboard_input_waiting > 0 <=> Busy(calls) # {}
    BY <2>1, FS_EmptySet DEF Waits
  <2>3. Busy(calls) # {} <=> Unread # {}
    <3>1. DOMAIN calls = 1..Len(calls) /\ \A i \in DOMAIN calls : calls[i].s \in Seq(Char)
      <4>1. \A i \in 1..Len(calls) : calls[i] \in Call
        BY <2>1
      <4>2. \A r \in Call : r.s \in Seq(Char)
        BY DEF Call
      <4>3. DOMAIN calls = 1..Len(calls)
        BY <2>1
      <4> QED BY <4>1, <4>2, <4>3
    <3>2. \A i \in DOMAIN calls : calls[i].s # <<>> <=> \E j \in DOMAIN calls[i].s : TRUE
      <4>1. TAKE i \in DOMAIN calls
      <4> DEFINE s == calls[i].s
      <4>2. s \in Seq(Char)
        BY <3>1, <4>1
      <4> HIDE DEF s
      <4>3. DOMAIN s = 1..Len(s) /\ Len(s) \in Nat /\ (s = <<>> <=> Len(s) = 0)
        BY <4>2, RangeProperties
      <4>4. s # <<>> <=> \E j \in DOMAIN s : TRUE
        <5>1. CASE s = <<>>
          BY <4>3, <5>1
        <5>2. CASE s # <<>>
          <6>1. 1 \in DOMAIN s
            BY <4>3, <5>2
          <6> QED BY <5>2, <6>1
        <5> QED BY <5>1, <5>2
      <4> QED BY <4>4 DEF s
    <3>3. Busy(calls) # {} <=> \E i \in DOMAIN calls : \E j \in DOMAIN calls[i].s : TRUE
      BY <3>1, <3>2 DEF Busy
    <3>4. Unread # {} <=> \E i \in DOMAIN calls : \E j \in DOMAIN calls[i].s : TRUE
      <4> DEFINE U(i) == {calls[i].s[j].n : j \in DOMAIN calls[i].s}
      <4>1. \A i \in DOMAIN calls : U(i) # {} <=> \E j \in DOMAIN calls[i].s : TRUE
        OBVIOUS
      <4>2. Unread = UNION {U(i) : i \in DOMAIN calls}
        BY DEF Unread
      <4> HIDE DEF U
      <4>3. Unread # {} <=> \E i \in DOMAIN calls : U(i) # {}
        BY <4>2
      <4> QED BY <4>1, <4>3
    <3> QED BY <3>3, <3>4
  <2> QED BY <2>2, <2>3 DEF WaitingKnown
<1> QED BY <1>1, <1>2, <1>3, PTL DEF Spec

\* klookup leads to the first key of each first letter, the keys with one first
\* letter are adjacent, and no sequence is bound twice, after any sequence of
\* bind() and unbind(), in the middle of whatever is typed.
THEOREM KeysFound == Spec => []Lookup
<1>1. Init => Typed /\ LineSeen /\ Waits
  BY FirstTyped, FirstWaits
<1>2. Typed /\ LineSeen /\ Waits /\ [Next]_vars => (Typed /\ LineSeen /\ Waits)'
  BY NextAll, NextWaits
<1>3. Typed /\ Waits => Lookup
  <2> SUFFICES ASSUME Typed, Waits PROVE Lookup
    OBVIOUS
  <2>1. /\ ring \in Seq(Bound) /\ Len(ring) \in Nat /\ DOMAIN ring = 1..Len(ring)
        /\ \A i \in 1..Len(ring) : ring[i] \in Bound /\ ring[i].seq \in Bindable
        /\ Adjacent(ring) /\ Unique(ring) /\ \A x \in Firsts : Leads(ring, x, klookup[x])
    BY RingIs DEF Typed
  <2>2. klookup \in [Firsts -> Bindable \cup {None}] /\ DOMAIN klookup = Firsts
    BY DEF Typed, Clumps
  <2>3. TypeOK
    <3>1. \A x \in DOMAIN klookup : klookup[x] \in Seqs \cup {None}
      BY <2>1, <2>2 DEF Leads, Seqs
    <3>2. high \in 0..MaxWait /\ low \in 0..MaxWait
      BY KeyboardAssumption DEF Typed
    <3>3. keyboard_input_waiting \in Nat
      BY BusyIs DEF Typed, Waits
    <3> QED BY <2>1, <3>1, <3>2, <3>3 DEF TypeOK, Typed, Bound, Editing, Spliceable, Call
  <2>4. \A i, j \in DOMAIN ring : First(ring[i].seq) = First(ring[j].seq) =>
          \A l \in i..j : First(ring[l].seq) = First(ring[i].seq)
    BY <2>1 DEF Adjacent
  <2>5. \A i, j \in DOMAIN ring : Lower(ring[i].seq) = Lower(ring[j].seq) => i = j
    BY <2>1 DEF Unique
  <2>6. ASSUME NEW x \in DOMAIN klookup
        PROVE  LET mine == {i \in DOMAIN ring : First(ring[i].seq) = x}
               IN IF mine = {} THEN klookup[x] = None
                  ELSE klookup[x] = ring[CHOOSE i \in mine : \A j \in mine : i <= j].seq
    <3> DEFINE mine == {i \in DOMAIN ring : First(ring[i].seq) = x}
    <3>1. Leads(ring, x, klookup[x])
      BY <2>1, <2>2
    <3>2. CASE klookup[x] = None
      <4>1. mine = {}
        BY <2>1, <3>1, <3>2 DEF Leads
      <4> QED BY <3>2, <4>1
    <3>3. CASE klookup[x] # None
      <4>1. PICK p \in 1..Len(ring) : /\ klookup[x] = ring[p].seq /\ First(ring[p].seq) = x
                                      /\ \A i \in 1..Len(ring) : First(ring[i].seq) = x => p <= i
        BY <3>1, <3>3 DEF Leads
      <4>2. p \in mine /\ \A j \in mine : p <= j
        BY <2>1, <4>1
      <4>3. mine \subseteq Nat
        BY <2>1
      <4> HIDE DEF mine
      <4>4. \A q \in mine : (\A j \in mine : q <= j) => q = p
        BY <4>2, <4>3
      <4>5. (CHOOSE i \in mine : \A j \in mine : i <= j) = p
        BY <4>2, <4>4
      <4>6. mine # {} /\ klookup[x] = ring[CHOOSE i \in mine : \A j \in mine : i <= j].seq
        BY <4>1, <4>2, <4>5
      <4> QED BY <4>6 DEF mine
    <3> QED BY <3>2, <3>3
  <2> QED BY <2>3, <2>4, <2>5, <2>6 DEF Lookup
<1> QED BY <1>1, <1>2, <1>3, PTL DEF Spec

-----------------------------------------------------------------------------
(* Characters are numbered as they are typed.  What is pending is, in the  *)
(* order in which it will be taken, what is held in kkey, and what is left *)
(* in the calls, from the innermost on.                                    *)

Gone == [n : 1..MaxTyped, by : {"high", "key", "low", "line"}]

\* Number m is another than n, and before it when the user typed both.
Before(m, n, t) == m # n /\ (t[m] = "user" /\ t[n] = "user" => m < n)
Precedes(A, B, t) == \A m \in A, n \in B : Before(m, n, t)

Nums(s) == {s[i].n : i \in 1..Len(s)}
NotHigh(d) == {d[i].n : i \in {j \in 1..Len(d) : d[j].by # "high"}}
Sorted(s, t) == \A i, j \in 1..Len(s) : i < j => Before(s[i].n, s[j].n, t)
Marks(s, by) == [i \in DOMAIN s |-> [n |-> s[i].n, by |-> by]]

\* What was taken, but by getch(0), was taken in order.
InOrder(d, t) ==
  \A i, j \in 1..Len(d) :
    i < j => d[i].n # d[j].n /\ (d[i].by # "high" => Before(d[i].n, d[j].n, t))

\* With taken numbers C, of which N not by getch(0), and held numbers H.
Arranged(C, N, H, cs, t) ==
  /\ N \subseteq C /\ C \cap H = {} /\ Precedes(N, H, t)
  /\ \A k \in 1..Len(cs) : /\ C \cap Nums(cs[k].s) = {} /\ Sorted(cs[k].s, t)
                           /\ Precedes(N, Nums(cs[k].s), t) /\ Precedes(H, Nums(cs[k].s), t)
  /\ \A k, l \in 1..Len(cs) : k < l => Precedes(Nums(cs[l].s), Nums(cs[k].s), t)
  /\ \A m : m \in 1..Len(t) <=> m \in C \/ m \in H \/ \E k \in 1..Len(cs) : m \in Nums(cs[k].s)

Kept(h, d, cs, t) ==
  /\ h \in Seq(Char) /\ d \in Seq(Gone) /\ cs \in Seq(Call) /\ t \in Seq(Whose)
  /\ Sorted(h, t) /\ InOrder(d, t)
  /\ Arranged(Nums(d), NotHigh(d), Nums(h), cs, t)

\* The first of a sequence, and the others.
LEMMA FirstOf ==
  ASSUME NEW s \in Seq(Char), s # <<>>, NEW t
  PROVE  /\ Head(s) \in Char /\ Head(s) = s[1] /\ Tail(s) \in Seq(Char)
         /\ Nums(s) = {Head(s).n} \cup Nums(Tail(s))
         /\ Sorted(s, t) => Sorted(Tail(s), t) /\ Precedes({Head(s).n}, Nums(Tail(s)), t)
<1> DEFINE u == Tail(s)
<1>1. /\ Len(s) \in Nat /\ Len(s) > 0 /\ Head(s) = s[1] /\ s[1] \in Char
      /\ u \in Seq(Char) /\ Len(u) = Len(s) - 1 /\ \A i \in 1..Len(u) : u[i] = s[i + 1]
  BY EmptySeq
<1> HIDE DEF u
<1>2. \A i \in 1..Len(u) : i + 1 \in 1..Len(s) /\ 1 < i + 1
  BY <1>1
<1>3. \A i \in 1..Len(s) : i = 1 \/ (i - 1 \in 1..Len(u) /\ s[i] = u[i - 1])
  <2>1. TAKE i \in 1..Len(s)
  <2>2. i = 1 \/ (i - 1 \in 1..Len(u) /\ (i - 1) + 1 = i)
    BY <1>1
  <2> QED BY <1>1, <2>2
<1>4. Nums(s) \subseteq {s[1].n} \cup Nums(u)
  BY <1>3 DEF Nums
<1>5. {s[1].n} \cup Nums(u) \subseteq Nums(s)
  BY <1>1, <1>2 DEF Nums
<1>6. ASSUME Sorted(s, t) PROVE Sorted(u, t) /\ Precedes({s[1].n}, Nums(u), t)
  <2>1. \A i \in 1..Len(u) : Before(s[1].n, u[i].n, t)
    <3>1. 1 \in 1..Len(s)
      BY <1>1
    <3> QED BY <1>1, <1>2, <1>6, <3>1 DEF Sorted
  <2>2. Sorted(u, t)
    <3>1. \A i, j \in 1..Len(u) : i < j => i + 1 < j + 1
      BY <1>1
    <3> QED BY <1>1, <1>2, <1>6, <3>1 DEF Sorted
  <2> QED BY <2>1, <2>2 DEF Precedes, Nums
<1> QED BY <1>1, <1>4, <1>5, <1>6 DEF u

\* One more.
LEMMA OneMore ==
  ASSUME NEW s \in Seq(Char), NEW x \in Char, NEW t
  PROVE  /\ Append(s, x) \in Seq(Char) /\ Nums(Append(s, x)) = Nums(s) \cup {x.n}
         /\ Sorted(s, t) /\ Precedes(Nums(s), {x.n}, t) => Sorted(Append(s, x), t)
<1> DEFINE u == Append(s, x)
<1>1. /\ Len(s) \in Nat /\ u \in Seq(Char) /\ Len(u) = Len(s) + 1 /\ u[Len(s) + 1] = x
      /\ \A i \in 1..Len(s) : u[i] = s[i]
  BY AppendProperties
<1> HIDE DEF u
<1>2. \A i \in 1..Len(u) : i \in 1..Len(s) \/ i = Len(s) + 1
  BY <1>1
<1>3. \A i \in 1..Len(s) : i \in 1..Len(u) /\ i < Len(s) + 1
  BY <1>1
<1>4. Nums(u) \subseteq Nums(s) \cup {x.n}
  BY <1>1, <1>2 DEF Nums
<1>5. Nums(s) \cup {x.n} \subseteq Nums(u)
  <2>1. Len(s) + 1 \in 1..Len(u)
    BY <1>1
  <2> QED BY <1>1, <1>3, <2>1 DEF Nums
<1>6. ASSUME Sorted(s, t), Precedes(Nums(s), {x.n}, t) PROVE Sorted(u, t)
  <2>1. \A i \in 1..Len(s) : Before(s[i].n, x.n, t)
    BY <1>6 DEF Precedes, Nums
  <2>2. \A i, j \in 1..Len(u) : i < j => i \in 1..Len(s)
    BY <1>1
  <2> QED BY <1>1, <1>2, <1>6, <2>1, <2>2 DEF Sorted
<1> QED BY <1>1, <1>4, <1>5, <1>6 DEF u

\* What is taken is behind what was taken.
LEMMA Gives ==
  ASSUME NEW d \in Seq(Gone), NEW s \in Seq(Char), NEW by \in {"high", "key", "low", "line"}, NEW t,
         InOrder(d, t), Sorted(s, t), Nums(d) \cap Nums(s) = {}, Precedes(NotHigh(d), Nums(s), t)
  PROVE  /\ d \o Marks(s, by) \in Seq(Gone) /\ Nums(d \o Marks(s, by)) = Nums(d) \cup Nums(s)
         /\ NotHigh(d \o Marks(s, by)) = NotHigh(d) \cup (IF by = "high" THEN {} ELSE Nums(s))
         /\ InOrder(d \o Marks(s, by), t)
<1> DEFINE m == Marks(s, by)
           e == d \o m
<1>1. Len(s) \in Nat /\ Len(d) \in Nat /\ DOMAIN s = 1..Len(s) /\ \A i \in 1..Len(s) : s[i] \in Char
  BY ElementOfSeq
<1>2. m \in Seq(Gone) /\ Len(m) = Len(s) /\ \A i \in 1..Len(s) : m[i].n = s[i].n /\ m[i].by = by
  <2>1. \A i \in 1..Len(s) : [n |-> s[i].n, by |-> by] \in Gone
    BY <1>1 DEF Char, Gone
  <2>2. m = [i \in 1..Len(s) |-> [n |-> s[i].n, by |-> by]]
    BY <1>1 DEF Marks
  <2> HIDE DEF m
  <2>3. m \in Seq(Gone) /\ Len(m) = Len(s)
    BY <1>1, <2>1, <2>2, IsASeq
  <2> QED BY <2>2, <2>3
<1> HIDE DEF m
<1>3. /\ e \in Seq(Gone) /\ Len(e) = Len(d) + Len(s)
      /\ \A i \in 1..(Len(d) + Len(m)) : e[i] = IF i <= Len(d) THEN d[i] ELSE m[i - Len(d)]
  <2>1. m \in Seq(Gone)
    BY <1>2
  <2>2. /\ d \o m \in Seq(Gone) /\ Len(d \o m) = Len(d) + Len(m)
        /\ \A i \in 1..(Len(d) + Len(m)) : (d \o m)[i] = IF i <= Len(d) THEN d[i] ELSE m[i - Len(d)]
    BY ONLY <2>1, d \in Seq(Gone), ConcatProperties
  <2> QED BY <1>2, <2>2
<1> HIDE DEF e
<1>4. \A i \in 1..Len(d) : i \in 1..Len(e) /\ e[i] = d[i]
  BY <1>1, <1>2, <1>3
<1>5. \A i \in 1..Len(s) : /\ Len(d) + i \in 1..Len(e)
                           /\ e[Len(d) + i].n = s[i].n /\ e[Len(d) + i].by = by
  <2>1. TAKE i \in 1..Len(s)
  <2>2. Len(d) + i \in 1..(Len(d) + Len(m)) /\ ~(Len(d) + i <= Len(d)) /\ (Len(d) + i) - Len(d) = i
    BY <1>1, <1>2
  <2>3. e[Len(d) + i] = m[i]
    BY <1>3, <2>2
  <2> QED BY <1>2, <1>3, <2>2, <2>3
<1>6. \A i \in 1..Len(e) : \/ i \in 1..Len(d) /\ e[i] = d[i]
                           \/ \E j \in 1..Len(s) : i = Len(d) + j
  <2>1. TAKE i \in 1..Len(e)
  <2>2. CASE i <= Len(d)
    BY <1>1, <1>4, <2>2
  <2>3. CASE i > Len(d)
    <3>1. i - Len(d) \in 1..Len(s) /\ i = Len(d) + (i - Len(d))
      BY <1>1, <1>3, <2>3
    <3> QED BY <3>1
  <2> QED BY <1>1, <2>2, <2>3
<1>7. Nums(e) \subseteq Nums(d) \cup Nums(s)
  <2>1. \A i \in 1..Len(d) : d[i].n \in Nums(d)
    BY DEF Nums
  <2>2. \A i \in 1..Len(s) : s[i].n \in Nums(s)
    BY DEF Nums
  <2>3. \A i \in 1..Len(e) : e[i].n \in Nums(d) \cup Nums(s)
    BY <1>5, <1>6, <2>1, <2>2
  <2> QED BY <2>3 DEF Nums
<1>8. Nums(d) \cup Nums(s) \subseteq Nums(e)
  <2>1. \A i \in 1..Len(e) : e[i].n \in Nums(e)
    BY DEF Nums
  <2>2. \A i \in 1..Len(d) : d[i].n \in Nums(e)
    BY <1>4, <2>1
  <2>3. \A i \in 1..Len(s) : s[i].n \in Nums(e)
    BY <1>5, <2>1
  <2> QED BY <2>2, <2>3 DEF Nums
<1> DEFINE N == IF by = "high" THEN {} ELSE Nums(s)
<1>9. NotHigh(e) \subseteq NotHigh(d) \cup N
  <2>1. \A i \in 1..Len(d) : d[i].by # "high" => d[i].n \in NotHigh(d)
    BY DEF NotHigh
  <2>2. \A i \in 1..Len(s) : by # "high" => s[i].n \in N
    BY DEF Nums
  <2> HIDE DEF N
  <2>3. \A i \in 1..Len(e) : e[i].by # "high" => e[i].n \in NotHigh(d) \cup N
    BY <1>5, <1>6, <2>1, <2>2
  <2> QED BY <2>3 DEF NotHigh
<1>10. NotHigh(d) \cup N \subseteq NotHigh(e)
  <2>1. \A i \in 1..Len(e) : e[i].by # "high" => e[i].n \in NotHigh(e)
    BY DEF NotHigh
  <2>2. \A i \in 1..Len(d) : d[i].by # "high" => d[i].n \in NotHigh(e)
    BY <1>4, <2>1
  <2>3. \A i \in 1..Len(s) : by # "high" => s[i].n \in NotHigh(e)
    BY <1>5, <2>1
  <2> QED BY <2>2, <2>3 DEF NotHigh, Nums
<1>11. ASSUME NEW i \in 1..Len(e), NEW j \in 1..Len(e), i < j
       PROVE  e[i].n # e[j].n /\ (e[i].by # "high" => Before(e[i].n, e[j].n, t))
  <2>1. CASE i \in 1..Len(d) /\ j \in 1..Len(d)
    BY <1>4, <1>11, <2>1 DEF InOrder
  <2>2. CASE i \in 1..Len(d) /\ \E q \in 1..Len(s) : j = Len(d) + q
    <3>1. PICK q \in 1..Len(s) : j = Len(d) + q
      BY <2>2
    <3>2. e[i] = d[i] /\ e[j].n = s[q].n /\ d[i].n \in Nums(d) /\ s[q].n \in Nums(s)
      BY <1>4, <1>5, <2>2, <3>1 DEF Nums
    <3>3. d[i].by # "high" => d[i].n \in NotHigh(d)
      BY <2>2 DEF NotHigh
    <3> QED BY <3>2, <3>3 DEF Precedes
  <2>3. ASSUME NEW p \in 1..Len(s), i = Len(d) + p
        PROVE  e[i].n # e[j].n /\ (e[i].by # "high" => Before(e[i].n, e[j].n, t))
    <3>1. j \notin 1..Len(d)
      BY <1>1, <1>11, <2>3
    <3>2. PICK q \in 1..Len(s) : j = Len(d) + q
      BY <1>6, <3>1
    <3>3. p < q
      BY <1>1, <1>11, <2>3, <3>2
    <3>4. Before(s[p].n, s[q].n, t)
      BY <3>3 DEF Sorted
    <3> QED BY <1>5, <2>3, <3>2, <3>4 DEF Before
  <2> QED BY <1>6, <2>1, <2>2, <2>3
<1>12. InOrder(e, t)
  BY <1>11 DEF InOrder
<1> QED BY <1>3, <1>7, <1>8, <1>9, <1>10, <1>12 DEF e, m

-----------------------------------------------------------------------------
(* The moves that characters make.                                         *)

\* The calls are the same but for the last, which has nothing that it had not.
LEMMA LastIs ==
  ASSUME NEW cs \in Seq(Call), cs # <<>>, NEW r, NEW ds, Onto(cs, Len(cs) - 1, r, ds)
  PROVE  /\ ds \in Seq(Call) /\ ds # <<>> /\ Len(cs) \in Nat /\ Len(ds) = Len(cs) /\ Len(cs) \in 1..Len(cs)
         /\ ds[Len(ds)] = r /\ \A k \in 1..Len(cs) : k # Len(cs) => ds[k] = cs[k]
         /\ cs[Len(cs)] \in Call /\ cs[Len(cs)].s \in Seq(Char)
<1>1. Len(cs) \in Nat /\ Len(cs) > 0
  BY EmptySeq
<1>2. /\ ds \in Seq(Call) /\ Len(ds) = Len(cs) /\ ds[Len(cs)] = r
      /\ \A k \in 1..(Len(cs) - 1) : ds[k] = cs[k]
  BY <1>1 DEF Onto
<1>3. \A k \in 1..Len(cs) : k # Len(cs) => ds[k] = cs[k]
  <2>1. \A k \in 1..Len(cs) : k # Len(cs) => k \in 1..(Len(cs) - 1)
    BY <1>1
  <2> QED BY <1>2, <2>1
<1>4. cs[Len(cs)] \in Call
  BY <1>1, ElementOfSeq
<1>5. cs[Len(cs)].s \in Seq(Char)
  BY <1>4 DEF Call
<1>6. ds # <<>>
  BY <1>1, <1>2, EmptySeq
<1> QED BY <1>1, <1>2, <1>3, <1>4, <1>5, <1>6

\* The first character that is left is held.
LEMMA Held1 ==
  ASSUME NEW h, NEW d, NEW cs, NEW t, NEW r, NEW ds, Kept(h, d, cs, t), cs # <<>>,
         Onto(cs, Len(cs) - 1, r, ds), cs[Len(cs)].s # <<>>, r.s = Tail(cs[Len(cs)].s)
  PROVE  Kept(Append(h, Head(cs[Len(cs)].s)), d, ds, t)
<1> DEFINE n == Len(cs)
           s == cs[n].s
           x == Head(s)
           C == Nums(d)
           N == NotHigh(d)
           H == Nums(h)
<1>1. /\ h \in Seq(Char) /\ d \in Seq(Gone) /\ cs \in Seq(Call) /\ t \in Seq(Whose)
      /\ Sorted(h, t) /\ InOrder(d, t) /\ Arranged(C, N, H, cs, t)
  BY DEF Kept
<1>2. /\ ds \in Seq(Call) /\ n \in Nat /\ Len(ds) = n /\ n \in 1..n
      /\ ds[n] = r /\ \A k \in 1..n : k # n => ds[k] = cs[k]
      /\ s \in Seq(Char)
  BY <1>1, LastIs
<1> HIDE DEF n
<1>3. Sorted(s, t) /\ C \cap Nums(s) = {} /\ Precedes(N, Nums(s), t) /\ Precedes(H, Nums(s), t)
  BY <1>1, <1>2 DEF Arranged, n
<1>8. s # <<>> /\ r.s = Tail(s)
  BY DEF n
<1> HIDE DEF s
<1>4. /\ x \in Char /\ Nums(s) = {x.n} \cup Nums(r.s)
      /\ Sorted(r.s, t) /\ Precedes({x.n}, Nums(r.s), t)
  <2>1. s \in Seq(Char) /\ s # <<>> /\ Sorted(s, t)
    BY <1>2, <1>3, <1>8
  <2>2. /\ Head(s) \in Char /\ Nums(s) = {Head(s).n} \cup Nums(Tail(s))
        /\ Sorted(s, t) => Sorted(Tail(s), t) /\ Precedes({Head(s).n}, Nums(Tail(s)), t)
    BY ONLY <2>1, FirstOf
  <2> QED BY <1>8, <2>1, <2>2
<1> HIDE DEF x
<1>5. /\ Append(h, x) \in Seq(Char) /\ Nums(Append(h, x)) = H \cup {x.n} /\ Sorted(Append(h, x), t)
  <2>1. Precedes(H, {x.n}, t)
    BY <1>3, <1>4 DEF Precedes
  <2> QED BY <1>1, <1>4, <2>1, OneMore
<1> HIDE DEF C, N, H
<1>6. Arranged(C, N, H \cup {x.n}, ds, t)
  <2>1. N \subseteq C /\ C \cap (H \cup {x.n}) = {} /\ Precedes(N, H \cup {x.n}, t)
    BY <1>1, <1>3, <1>4 DEF Arranged, Precedes
  <2>2. ASSUME NEW k \in 1..Len(ds)
        PROVE  /\ C \cap Nums(ds[k].s) = {} /\ Sorted(ds[k].s, t)
               /\ Precedes(N, Nums(ds[k].s), t) /\ Precedes(H \cup {x.n}, Nums(ds[k].s), t)
    <3>1. CASE k = n
      BY <1>2, <1>3, <1>4, <3>1 DEF Precedes
    <3>2. CASE k # n
      <4>1. k \in 1..Len(cs) /\ Len(cs) \in 1..Len(cs) /\ k < Len(cs) /\ ds[k] = cs[k]
        BY <1>2, <3>2 DEF n
      <4>2. Precedes(Nums(s), Nums(cs[k].s), t)
        BY <1>1, <4>1 DEF Arranged, s, n
      <4>3. Precedes({x.n}, Nums(cs[k].s), t)
        BY <1>4, <4>2 DEF Precedes
      <4>4. /\ C \cap Nums(cs[k].s) = {} /\ Sorted(cs[k].s, t)
            /\ Precedes(N, Nums(cs[k].s), t) /\ Precedes(H, Nums(cs[k].s), t)
        BY <1>1, <4>1 DEF Arranged
      <4> QED BY <4>1, <4>3, <4>4 DEF Precedes
    <3> QED BY <3>1, <3>2
  <2>3. ASSUME NEW k \in 1..Len(ds), NEW l \in 1..Len(ds), k < l
        PROVE  Precedes(Nums(ds[l].s), Nums(ds[k].s), t)
    <3>1. k \in 1..Len(cs) /\ l \in 1..Len(cs) /\ ds[k] = cs[k]
      BY <1>2, <2>3 DEF n
    <3>2. Precedes(Nums(cs[l].s), Nums(cs[k].s), t)
      BY <1>1, <2>3, <3>1 DEF Arranged
    <3>3. Nums(ds[l].s) \subseteq Nums(cs[l].s)
      BY <1>2, <1>4, <2>3 DEF s, n
    <3> QED BY <3>1, <3>2, <3>3 DEF Precedes
  <2>4. ASSUME NEW m
        PROVE  m \in 1..Len(t) <=> m \in C \/ m \in H \cup {x.n} \/ \E k \in 1..Len(ds) : m \in Nums(ds[k].s)
    <3>1. m \in 1..Len(t) <=> m \in C \/ m \in H \/ \E k \in 1..Len(cs) : m \in Nums(cs[k].s)
      BY <1>1 DEF Arranged
    <3>2. (\E k \in 1..Len(cs) : m \in Nums(cs[k].s)) <=> (m = x.n \/ \E k \in 1..Len(ds) : m \in Nums(ds[k].s))
      BY <1>2, <1>4 DEF s, n
    <3> QED BY <3>1, <3>2
  <2> QED BY <2>1, <2>2, <2>3, <2>4 DEF Arranged
<1>7. Kept(Append(h, x), d, ds, t)
  BY <1>1, <1>2, <1>5, <1>6 DEF Kept, C, N, H
<1> QED BY <1>7 DEF x, s, n

\* Or getch(0) takes it.
LEMMA High1 ==
  ASSUME NEW h, NEW d, NEW cs, NEW t, NEW r, NEW ds, Kept(h, d, cs, t), cs # <<>>,
         Onto(cs, Len(cs) - 1, r, ds), cs[Len(cs)].s # <<>>, r.s = Tail(cs[Len(cs)].s)
  PROVE  Kept(h, d \o Marks(<<Head(cs[Len(cs)].s)>>, "high"), ds, t)
<1> DEFINE n == Len(cs)
           s == cs[n].s
           x == Head(s)
           C == Nums(d)
           N == NotHigh(d)
           H == Nums(h)
           e == d \o Marks(<<x>>, "high")
<1>1. /\ h \in Seq(Char) /\ d \in Seq(Gone) /\ cs \in Seq(Call) /\ t \in Seq(Whose)
      /\ Sorted(h, t) /\ InOrder(d, t) /\ Arranged(C, N, H, cs, t)
  BY DEF Kept
<1>2. /\ ds \in Seq(Call) /\ n \in Nat /\ Len(ds) = n /\ n \in 1..n
      /\ ds[n] = r /\ \A k \in 1..n : k # n => ds[k] = cs[k]
      /\ s \in Seq(Char)
  BY <1>1, LastIs
<1> HIDE DEF n
<1>3. Sorted(s, t) /\ C \cap Nums(s) = {} /\ Precedes(N, Nums(s), t) /\ Precedes(H, Nums(s), t)
  BY <1>1, <1>2 DEF Arranged, n
<1>8. s # <<>> /\ r.s = Tail(s)
  BY DEF n
<1> HIDE DEF s
<1>4. /\ x \in Char /\ Nums(s) = {x.n} \cup Nums(r.s)
      /\ Sorted(r.s, t) /\ Precedes({x.n}, Nums(r.s), t)
  <2>1. s \in Seq(Char) /\ s # <<>> /\ Sorted(s, t)
    BY <1>2, <1>3, <1>8
  <2>2. /\ Head(s) \in Char /\ Nums(s) = {Head(s).n} \cup Nums(Tail(s))
        /\ Sorted(s, t) => Sorted(Tail(s), t) /\ Precedes({Head(s).n}, Nums(Tail(s)), t)
    BY ONLY <2>1, FirstOf
  <2> QED BY <1>8, <2>1, <2>2
<1> HIDE DEF x
<1>5. e \in Seq(Gone) /\ Nums(e) = C \cup {x.n} /\ NotHigh(e) = N /\ InOrder(e, t)
  <2>1. <<x>> \in Seq(Char) /\ Len(<<x>>) = 1 /\ <<x>>[1] = x
    BY <1>4
  <2>2. Nums(<<x>>) = {x.n}
    BY <2>1 DEF Nums
  <2>3. Sorted(<<x>>, t)
    BY <2>1 DEF Sorted
  <2>4. Nums(d) \cap Nums(<<x>>) = {} /\ Precedes(NotHigh(d), Nums(<<x>>), t)
    BY <1>3, <1>4, <2>2 DEF Precedes
  <2>5. /\ e \in Seq(Gone) /\ Nums(e) = Nums(d) \cup Nums(<<x>>)
        /\ NotHigh(e) = NotHigh(d) \cup {} /\ InOrder(e, t)
    BY <1>1, <2>1, <2>3, <2>4, Gives
  <2> QED BY <2>2, <2>5
<1> HIDE DEF C, N, H, e
<1>6. Arranged(C \cup {x.n}, N, H, ds, t)
  <2>1. N \subseteq C \cup {x.n} /\ (C \cup {x.n}) \cap H = {} /\ Precedes(N, H, t)
    BY <1>1, <1>3, <1>4 DEF Arranged, Precedes, Before
  <2>2. ASSUME NEW k \in 1..Len(ds)
        PROVE  /\ (C \cup {x.n}) \cap Nums(ds[k].s) = {} /\ Sorted(ds[k].s, t)
               /\ Precedes(N, Nums(ds[k].s), t) /\ Precedes(H, Nums(ds[k].s), t)
    <3>1. CASE k = n
      BY <1>2, <1>3, <1>4, <3>1 DEF Precedes, Before
    <3>2. CASE k # n
      <4>1. k \in 1..Len(cs) /\ Len(cs) \in 1..Len(cs) /\ k < Len(cs) /\ ds[k] = cs[k]
        BY <1>2, <3>2 DEF n
      <4>2. Precedes(Nums(s), Nums(cs[k].s), t)
        BY <1>1, <4>1 DEF Arranged, s, n
      <4>3. x.n \notin Nums(cs[k].s)
        BY <1>4, <4>2 DEF Precedes, Before
      <4>4. /\ C \cap Nums(cs[k].s) = {} /\ Sorted(cs[k].s, t)
            /\ Precedes(N, Nums(cs[k].s), t) /\ Precedes(H, Nums(cs[k].s), t)
        BY <1>1, <4>1 DEF Arranged
      <4> QED BY <4>1, <4>3, <4>4
    <3> QED BY <3>1, <3>2
  <2>3. ASSUME NEW k \in 1..Len(ds), NEW l \in 1..Len(ds), k < l
        PROVE  Precedes(Nums(ds[l].s), Nums(ds[k].s), t)
    <3>1. k \in 1..Len(cs) /\ l \in 1..Len(cs) /\ ds[k] = cs[k]
      BY <1>2, <2>3 DEF n
    <3>2. Precedes(Nums(cs[l].s), Nums(cs[k].s), t)
      BY <1>1, <2>3, <3>1 DEF Arranged
    <3>3. Nums(ds[l].s) \subseteq Nums(cs[l].s)
      BY <1>2, <1>4, <2>3 DEF s, n
    <3> QED BY <3>1, <3>2, <3>3 DEF Precedes
  <2>4. ASSUME NEW m
        PROVE  m \in 1..Len(t) <=> m \in C \cup {x.n} \/ m \in H \/ \E k \in 1..Len(ds) : m \in Nums(ds[k].s)
    <3>1. m \in 1..Len(t) <=> m \in C \/ m \in H \/ \E k \in 1..Len(cs) : m \in Nums(cs[k].s)
      BY <1>1 DEF Arranged
    <3>2. (\E k \in 1..Len(cs) : m \in Nums(cs[k].s)) <=> (m = x.n \/ \E k \in 1..Len(ds) : m \in Nums(ds[k].s))
      BY <1>2, <1>4 DEF s, n
    <3> QED BY <3>1, <3>2
  <2> QED BY <2>1, <2>2, <2>3, <2>4 DEF Arranged
<1>7. Kept(h, e, ds, t)
  BY <1>1, <1>2, <1>5, <1>6 DEF Kept, C, N, H
<1> QED BY <1>7 DEF e, x, s, n

\* What is held is taken, or the beginning x of it, and u is held on.
LEMMA Takes ==
  ASSUME NEW h, NEW d, NEW cs, NEW t, Kept(h, d, cs, t),
         NEW x \in Seq(Char), NEW u \in Seq(Char), NEW by \in {"key", "low", "line"},
         Nums(h) = Nums(x) \cup Nums(u), Sorted(x, t), Sorted(u, t), Precedes(Nums(x), Nums(u), t)
  PROVE  Kept(u, d \o Marks(x, by), cs, t)
<1> DEFINE C == Nums(d)
           N == NotHigh(d)
           H == Nums(h)
           X == Nums(x)
           U == Nums(u)
           e == d \o Marks(x, by)
<1>1. /\ h \in Seq(Char) /\ d \in Seq(Gone) /\ cs \in Seq(Call) /\ t \in Seq(Whose)
      /\ InOrder(d, t) /\ Arranged(C, N, H, cs, t)
  BY DEF Kept
<1>2. C \cap X = {} /\ Precedes(N, X, t)
  BY <1>1 DEF Arranged, Precedes
<1>3. e \in Seq(Gone) /\ Nums(e) = C \cup X /\ NotHigh(e) = N \cup X /\ InOrder(e, t)
  BY <1>1, <1>2, Gives
<1>4. H = X \cup U /\ Precedes(X, U, t)
  OBVIOUS
<1> HIDE DEF C, N, H, X, U, e
<1>5. Arranged(C \cup X, N \cup X, U, cs, t)
  <2>1. N \cup X \subseteq C \cup X /\ (C \cup X) \cap U = {} /\ Precedes(N \cup X, U, t)
    BY <1>1, <1>4 DEF Arranged, Precedes, Before
  <2>2. ASSUME NEW k \in 1..Len(cs)
        PROVE  /\ (C \cup X) \cap Nums(cs[k].s) = {} /\ Sorted(cs[k].s, t)
               /\ Precedes(N \cup X, Nums(cs[k].s), t) /\ Precedes(U, Nums(cs[k].s), t)
    <3>1. /\ C \cap Nums(cs[k].s) = {} /\ Sorted(cs[k].s, t)
          /\ Precedes(N, Nums(cs[k].s), t) /\ Precedes(H, Nums(cs[k].s), t)
      BY <1>1 DEF Arranged
    <3> QED BY <1>4, <3>1 DEF Precedes, Before
  <2>3. \A k, l \in 1..Len(cs) : k < l => Precedes(Nums(cs[l].s), Nums(cs[k].s), t)
    BY <1>1 DEF Arranged
  <2>4. ASSUME NEW m
        PROVE  m \in 1..Len(t) <=> m \in C \cup X \/ m \in U \/ \E k \in 1..Len(cs) : m \in Nums(cs[k].s)
    <3>1. m \in 1..Len(t) <=> m \in C \/ m \in H \/ \E k \in 1..Len(cs) : m \in Nums(cs[k].s)
      BY <1>1 DEF Arranged
    <3> QED BY <1>4, <3>1
  <2> QED BY <2>1, <2>2, <2>3, <2>4 DEF Arranged
<1>6. Kept(u, e, cs, t)
  BY <1>1, <1>3, <1>5 DEF Kept, U
<1> QED BY <1>6 DEF e

LEMMA EmptyIs ==
  ASSUME NEW t
  PROVE  <<>> \in Seq(Char) /\ Nums(<<>>) = {} /\ Sorted(<<>>, t)
<1>1. <<>> \in Seq(Char) /\ Len(<<>>) = 0
  BY EmptySeq
<1> QED BY <1>1 DEF Nums, Sorted

LEMMA TakesAll ==
  ASSUME NEW h, NEW d, NEW cs, NEW t, Kept(h, d, cs, t)
  PROVE  Kept(<<>>, d \o Marks(h, "key"), cs, t)
<1>1. h \in Seq(Char) /\ Sorted(h, t)
  BY DEF Kept
<1>2. <<>> \in Seq(Char) /\ Nums(<<>>) = {} /\ Sorted(<<>>, t)
  BY EmptyIs
<1>3. Nums(h) = Nums(h) \cup Nums(<<>>) /\ Precedes(Nums(h), Nums(<<>>), t)
  BY <1>2 DEF Precedes
<1> QED BY <1>1, <1>2, <1>3, Takes

LEMMA TakesFirst ==
  ASSUME NEW h, NEW d, NEW cs, NEW t, Kept(h, d, cs, t), h # <<>>, NEW by \in {"low", "line"}
  PROVE  /\ Kept(Tail(h), d \o Marks(<<h[1]>>, by), cs, t)
         /\ h[1].n \in Nums(d \o Marks(<<h[1]>>, by))
<1> DEFINE x == <<h[1]>>
<1>1. h \in Seq(Char) /\ Sorted(h, t) /\ h # <<>>
  BY DEF Kept
<1>2. /\ Head(h) \in Char /\ Head(h) = h[1] /\ Tail(h) \in Seq(Char)
      /\ Nums(h) = {Head(h).n} \cup Nums(Tail(h))
      /\ Sorted(h, t) => Sorted(Tail(h), t) /\ Precedes({Head(h).n}, Nums(Tail(h)), t)
  BY ONLY <1>1, FirstOf
<1>3. x \in Seq(Char) /\ Len(x) = 1 /\ x[1] = h[1]
  BY <1>2
<1> HIDE DEF x
<1>4. Nums(x) = {h[1].n}
  BY <1>3 DEF Nums
<1>5. Sorted(x, t)
  BY <1>3 DEF Sorted
<1>6. /\ Nums(h) = Nums(x) \cup Nums(Tail(h)) /\ Sorted(Tail(h), t)
      /\ Precedes(Nums(x), Nums(Tail(h)), t) /\ Tail(h) \in Seq(Char)
  BY <1>1, <1>2, <1>4
<1>7. Kept(Tail(h), d \o Marks(x, by), cs, t)
  BY <1>3, <1>5, <1>6, Takes
<1>8. h[1].n \in Nums(d \o Marks(x, by))
  <2>1. d \in Seq(Gone) /\ InOrder(d, t) /\ Arranged(Nums(d), NotHigh(d), Nums(h), cs, t)
    BY DEF Kept
  <2>2. Nums(d) \cap Nums(x) = {} /\ Precedes(NotHigh(d), Nums(x), t)
    BY <1>6, <2>1 DEF Arranged, Precedes
  <2>3. Nums(d \o Marks(x, by)) = Nums(d) \cup Nums(x)
    BY <1>3, <1>5, <2>1, <2>2, Gives
  <2> QED BY <1>4, <2>3
<1> QED BY <1>7, <1>8 DEF x

\* What is held becomes the text of a call of its own.
LEMMA Pushes ==
  ASSUME NEW h, NEW d, NEW cs, NEW t, Kept(h, d, cs, t), NEW r, NEW ds, Onto(cs, Len(cs), r, ds),
         r.s = h
  PROVE  Kept(<<>>, d, ds, t)
<1> DEFINE C == Nums(d)
           N == NotHigh(d)
           n == Len(cs)
           H == Nums(h)
<1>1. /\ h \in Seq(Char) /\ d \in Seq(Gone) /\ cs \in Seq(Call) /\ t \in Seq(Whose)
      /\ Sorted(h, t) /\ InOrder(d, t) /\ Arranged(C, N, H, cs, t)
  BY DEF Kept
<1>2. <<>> \in Seq(Char) /\ Nums(<<>>) = {} /\ Sorted(<<>>, t)
  BY EmptyIs
<1>3. ds \in Seq(Call) /\ n \in Nat /\ Len(ds) = n + 1 /\ ds[n + 1].s = h /\ \A k \in 1..n : ds[k] = cs[k]
  BY <1>1 DEF Onto
<1>4. \A k \in 1..Len(ds) : k \in 1..n \/ k = n + 1
  BY <1>3
<1>5. \A k \in 1..n : k \in 1..Len(ds) /\ k < n + 1
  BY <1>3
<1>10. n + 1 \in 1..Len(ds)
  BY <1>3
<1> HIDE DEF C, N, H
<1>6. Arranged(C, N, {}, ds, t)
  <2>1. N \subseteq C /\ C \cap {} = {} /\ Precedes(N, {}, t)
    BY <1>1 DEF Arranged, Precedes
  <2>2. ASSUME NEW k \in 1..Len(ds)
        PROVE  /\ C \cap Nums(ds[k].s) = {} /\ Sorted(ds[k].s, t)
               /\ Precedes(N, Nums(ds[k].s), t) /\ Precedes({}, Nums(ds[k].s), t)
    <3>1. CASE k = n + 1
      BY <1>1, <1>3, <3>1 DEF Arranged, Precedes, H
    <3>2. CASE k \in 1..n
      BY <1>1, <1>3, <3>2 DEF Arranged, Precedes
    <3> QED BY <1>4, <3>1, <3>2
  <2>3. ASSUME NEW k \in 1..Len(ds), NEW l \in 1..Len(ds), k < l
        PROVE  Precedes(Nums(ds[l].s), Nums(ds[k].s), t)
    <3>1. k \in 1..n /\ ds[k] = cs[k]
      BY <1>3, <2>3
    <3>2. CASE l = n + 1
      BY <1>1, <1>3, <3>1, <3>2 DEF Arranged, H
    <3>3. CASE l \in 1..n
      BY <1>1, <1>3, <2>3, <3>1, <3>3 DEF Arranged
    <3> QED BY <1>4, <3>2, <3>3
  <2>4. ASSUME NEW m
        PROVE  m \in 1..Len(t) <=> m \in C \/ m \in {} \/ \E k \in 1..Len(ds) : m \in Nums(ds[k].s)
    <3>1. m \in 1..Len(t) <=> m \in C \/ m \in H \/ \E k \in 1..n : m \in Nums(cs[k].s)
      BY <1>1 DEF Arranged
    <3>2. (\E k \in 1..Len(ds) : m \in Nums(ds[k].s)) <=> (m \in H \/ \E k \in 1..n : m \in Nums(cs[k].s))
      <4>1. (\E k \in 1..Len(ds) : m \in Nums(ds[k].s)) => (m \in H \/ \E k \in 1..n : m \in Nums(cs[k].s))
        BY <1>3, <1>4 DEF H
      <4>2. m \in H => \E k \in 1..Len(ds) : m \in Nums(ds[k].s)
        BY <1>3, <1>10 DEF H
      <4>3. (\E k \in 1..n : m \in Nums(cs[k].s)) => \E k \in 1..Len(ds) : m \in Nums(ds[k].s)
        BY <1>3, <1>5
      <4> QED BY <4>1, <4>2, <4>3
    <3> QED BY <3>1, <3>2
  <2> QED BY <2>1, <2>2, <2>3, <2>4 DEF Arranged
<1> QED BY <1>1, <1>2, <1>3, <1>6 DEF Kept, C, N

\* Calls with the same texts.
LEMMA SameTexts ==
  ASSUME NEW h, NEW d, NEW cs, NEW t, Kept(h, d, cs, t), NEW ds \in Seq(Call), Len(ds) = Len(cs),
         \A k \in 1..Len(cs) : ds[k].s = cs[k].s
  PROVE  Kept(h, d, ds, t)
BY DEF Kept, Arranged

\* A call that is over, from under which another text may not have changed.
LEMMA Pops ==
  ASSUME NEW h, NEW d, NEW cs, NEW t, Kept(h, d, cs, t), NEW ds \in Seq(Call), Len(cs) = Len(ds) + 1,
         cs[Len(cs)].s = <<>>, \A k \in 1..Len(ds) : ds[k].s = cs[k].s
  PROVE  Kept(h, d, ds, t)
<1>1. /\ h \in Seq(Char) /\ d \in Seq(Gone) /\ cs \in Seq(Call) /\ t \in Seq(Whose)
      /\ Sorted(h, t) /\ InOrder(d, t) /\ Arranged(Nums(d), NotHigh(d), Nums(h), cs, t)
  BY DEF Kept
<1>2. \A k \in 1..Len(cs) : k \in 1..Len(ds) \/ Nums(cs[k].s) = {}
  <2>1. \A k \in 1..Len(cs) : k \in 1..Len(ds) \/ k = Len(cs)
    OBVIOUS
  <2> QED BY <2>1, EmptyIs
<1>3. \A k \in 1..Len(ds) : k \in 1..Len(cs) /\ ds[k].s = cs[k].s
  OBVIOUS
<1>4. ASSUME NEW m
      PROVE  (\E k \in 1..Len(ds) : m \in Nums(ds[k].s)) <=> \E k \in 1..Len(cs) : m \in Nums(cs[k].s)
  BY <1>2, <1>3
<1>5. Arranged(Nums(d), NotHigh(d), Nums(h), ds, t)
  BY <1>1, <1>3, <1>4 DEF Arranged
<1> QED BY <1>1, <1>5 DEF Kept

\* New characters, which come before the ones that are left: they may not, if
\* the user types them.
LEMMA Comes ==
  ASSUME NEW h, NEW d, NEW cs, NEW t, Kept(h, d, cs, t), NEW t2 \in Seq(Whose), NEW r, NEW ds,
         Onto(cs, Len(cs), r, ds), Len(t) <= Len(t2), \A i \in 1..Len(t) : t2[i] = t[i],
         Nums(r.s) = (Len(t) + 1)..Len(t2), Sorted(r.s, t2),
         cs = <<>> \/ \A i \in (Len(t) + 1)..Len(t2) : t2[i] # "user"
  PROVE  Kept(h, d, ds, t2)
<1> DEFINE C == Nums(d)
           N == NotHigh(d)
           n == Len(cs)
           H == Nums(h)
           old == 1..Len(t)
           new == (Len(t) + 1)..Len(t2)
<1>1. /\ h \in Seq(Char) /\ d \in Seq(Gone) /\ cs \in Seq(Call) /\ t \in Seq(Whose)
      /\ Sorted(h, t) /\ InOrder(d, t) /\ Arranged(C, N, H, cs, t)
  BY DEF Kept
<1>2. ds \in Seq(Call) /\ n \in Nat /\ Len(ds) = n + 1 /\ ds[n + 1] = r /\ \A k \in 1..n : ds[k] = cs[k]
  BY <1>1 DEF Onto
<1>3. /\ \A k \in 1..Len(ds) : k \in 1..n \/ k = n + 1
      /\ \A k \in 1..n : k \in 1..Len(ds) /\ k < n + 1
      /\ n + 1 \in 1..Len(ds) /\ (cs = <<>> => n = 0)
  BY <1>2, EmptySeq
<1>4. /\ \A m \in old, q \in new : m < q /\ m # q
      /\ \A m : m \in 1..Len(t2) <=> m \in old \/ m \in new
      /\ \A m \in old : t2[m] = t[m]
  <2>1. Len(t) \in Nat /\ Len(t2) \in Nat
    BY <1>1
  <2> QED BY <2>1
<1>5. Nums(r.s) = new /\ (cs = <<>> \/ \A i \in new : t2[i] # "user")
  OBVIOUS
<1> HIDE DEF C, N, H, n, old, new
<1>6. C \subseteq old /\ N \subseteq old /\ H \subseteq old /\ \A k \in 1..n : Nums(cs[k].s) \subseteq old
  BY <1>1 DEF Arranged, old, n
<1>7. \A m, q \in old : Before(m, q, t) => Before(m, q, t2)
  BY <1>4 DEF Before
<1>8. Sorted(h, t2)
  <2>1. \A i \in 1..Len(h) : h[i].n \in old
    BY <1>6 DEF Nums, H
  <2> QED BY <1>1, <1>7, <2>1 DEF Sorted
<1>9. InOrder(d, t2)
  <2>1. \A i \in 1..Len(d) : d[i].n \in old
    BY <1>6 DEF Nums, C
  <2> QED BY <1>1, <1>7, <2>1 DEF InOrder
<1>10. \A m \in old, q \in new : Before(m, q, t2)
  BY <1>4 DEF Before
<1>11. Arranged(C, N, H, ds, t2)
  <2>1. N \subseteq C /\ C \cap H = {} /\ Precedes(N, H, t2)
    BY <1>1, <1>6, <1>7 DEF Arranged, Precedes
  <2>2. ASSUME NEW k \in 1..Len(ds)
        PROVE  /\ C \cap Nums(ds[k].s) = {} /\ Sorted(ds[k].s, t2)
               /\ Precedes(N, Nums(ds[k].s), t2) /\ Precedes(H, Nums(ds[k].s), t2)
    <3>1. CASE k = n + 1
      <4>1. ds[k] = r
        BY <1>2, <3>1
      <4>2. C \cap new = {}
        BY <1>4, <1>6
      <4>3. Precedes(N, new, t2) /\ Precedes(H, new, t2)
        BY <1>6, <1>10 DEF Precedes
      <4> QED BY <1>5, <4>1, <4>2, <4>3
    <3>2. CASE k \in 1..n
      <4>1. /\ ds[k] = cs[k] /\ Nums(cs[k].s) \subseteq old /\ C \cap Nums(cs[k].s) = {}
            /\ Sorted(cs[k].s, t) /\ Precedes(N, Nums(cs[k].s), t) /\ Precedes(H, Nums(cs[k].s), t)
        BY <1>1, <1>2, <1>6, <3>2 DEF Arranged, n
      <4>2. Precedes(N, Nums(cs[k].s), t2) /\ Precedes(H, Nums(cs[k].s), t2)
        BY <1>6, <1>7, <4>1 DEF Precedes
      <4>3. \A i \in 1..Len(cs[k].s) : cs[k].s[i].n \in old
        BY <4>1 DEF Nums
      <4>4. Sorted(cs[k].s, t2)
        BY <1>7, <4>1, <4>3 DEF Sorted
      <4> QED BY <4>1, <4>2, <4>4
    <3> QED BY <1>3, <3>1, <3>2
  <2>3. ASSUME NEW k \in 1..Len(ds), NEW l \in 1..Len(ds), k < l
        PROVE  Precedes(Nums(ds[l].s), Nums(ds[k].s), t2)
    <3>1. k \in 1..n /\ ds[k] = cs[k]
      BY <1>2, <1>3, <2>3
    <3>2. Nums(cs[k].s) \subseteq old
      BY <1>6, <3>1
    <3>3. CASE l = n + 1
      <4>1. \A i \in new : t2[i] # "user"
        BY <1>2, <1>3, <1>5, <3>1
      <4>2. ds[l] = r
        BY <1>2, <3>3
      <4>3. \A m \in new, q \in old : Before(m, q, t2)
        BY <1>4, <4>1 DEF Before
      <4> QED BY <1>5, <3>1, <3>2, <4>2, <4>3 DEF Precedes
    <3>4. CASE l \in 1..n
      <4>1. Precedes(Nums(cs[l].s), Nums(cs[k].s), t) /\ ds[l] = cs[l] /\ Nums(cs[l].s) \subseteq old
        BY <1>1, <1>2, <1>6, <2>3, <3>1, <3>4 DEF Arranged, n
      <4> QED BY <1>7, <3>1, <3>2, <4>1 DEF Precedes
    <3> QED BY <1>3, <3>3, <3>4
  <2>4. ASSUME NEW m
        PROVE  m \in 1..Len(t2) <=> m \in C \/ m \in H \/ \E k \in 1..Len(ds) : m \in Nums(ds[k].s)
    <3>1. m \in old <=> m \in C \/ m \in H \/ \E k \in 1..n : m \in Nums(cs[k].s)
      BY <1>1 DEF Arranged, old, n
    <3>2. (\E k \in 1..Len(ds) : m \in Nums(ds[k].s)) <=> (m \in new \/ \E k \in 1..n : m \in Nums(cs[k].s))
      <4>1. (\E k \in 1..Len(ds) : m \in Nums(ds[k].s)) => (m \in new \/ \E k \in 1..n : m \in Nums(cs[k].s))
        BY <1>2, <1>3, <1>5
      <4>2. m \in new => \E k \in 1..Len(ds) : m \in Nums(ds[k].s)
        BY <1>2, <1>3, <1>5
      <4>3. (\E k \in 1..n : m \in Nums(cs[k].s)) => \E k \in 1..Len(ds) : m \in Nums(ds[k].s)
        BY <1>2, <1>3
      <4> QED BY <4>1, <4>2, <4>3
    <3> QED BY <1>4, <3>1, <3>2
  <2> QED BY <2>1, <2>2, <2>3, <2>4 DEF Arranged
<1> QED BY <1>1, <1>2, <1>8, <1>9, <1>11 DEF Kept, C, N, H

\* The characters that arrive have the next numbers.
LEMMA FreshIs ==
  ASSUME NEW s \in Seq(Chars), typed \in Seq(Whose), NEW t
  PROVE  /\ Nums(Fresh(s)) = (Len(typed) + 1)..(Len(typed) + Len(s))
         /\ Sorted(Fresh(s), t)
<1> DEFINE f == Fresh(s)
           n == Len(typed)
<1>1. n \in Nat /\ Len(s) \in Nat /\ DOMAIN s = 1..Len(s)
  OBVIOUS
<1>2. f = [i \in 1..Len(s) |-> [c |-> s[i], n |-> n + i]]
  BY <1>1 DEF Fresh
<1>3. Len(f) = Len(s) /\ \A i \in 1..Len(s) : f[i].n = n + i
  BY <1>1, <1>2
<1> HIDE DEF f, n
<1>4. Nums(f) \subseteq (n + 1)..(n + Len(s))
  BY <1>1, <1>3 DEF Nums
<1>5. ASSUME NEW m \in (n + 1)..(n + Len(s)) PROVE m \in Nums(f)
  <2>1. m - n \in 1..Len(s) /\ f[m - n].n = m
    BY <1>1, <1>3
  <2> QED BY <1>3, <2>1 DEF Nums
<1>6. Sorted(f, t)
  BY <1>1, <1>3 DEF Sorted, Before
<1> QED BY <1>4, <1>5, <1>6 DEF f, n

-----------------------------------------------------------------------------
(* The order of the characters is kept by every step.                      *)

\* What is held in kkey: all, or all but the character that getch(1) has got.
Held == IF calls # <<>> /\ Top.at = "low" THEN Tail(kkey) ELSE kkey

\* The call that waits for another one to end is in a program, but never in one
\* that getch(1) started, or is about to go on.
Below == {"high", "key", "rest"}
OnTop == {"top", "high", "key", "low"}
Stacked(cs) == \A k \in 1..Len(cs) : cs[k].at \in IF k < Len(cs) THEN Below ELSE OnTop

Ordered ==
  /\ Kept(Held, done, calls, typed) /\ Stacked(calls)
  /\ calls # <<>> /\ Top.at = "low" => kkey # <<>> /\ kkey[1].n \in Nums(done)

LEMMA OntoStacked ==
  ASSUME NEW cs, NEW k \in Nat, NEW r, NEW ds, Onto(cs, k, r, ds),
         \A i \in 1..k : cs[i].at \in Below, r.at \in OnTop
  PROVE  Stacked(ds)
<1>1. Len(ds) = k + 1 /\ ds[k + 1] = r /\ \A i \in 1..k : ds[i] = cs[i]
  BY DEF Onto
<1> QED BY <1>1 DEF Stacked

\* The step that ends with a call r on top, which getch(1) did not start.
LEMMA OntoOrdered ==
  ASSUME NEW cs, NEW k \in Nat, NEW r, Onto(cs, k, r, calls'),
         \A i \in 1..k : cs[i].at \in Below, r.at \in {"top", "high", "key"},
         Kept(kkey', done', calls', typed')
  PROVE  Ordered'
<1>1. calls' # <<>> /\ Top' = r
  BY OntoTop
<1>2. Held' = kkey' /\ ~(Top' .at = "low")
  BY <1>1 DEF Held
<1>3. Stacked(calls')
  BY OntoStacked DEF OnTop
<1> QED BY <1>1, <1>2, <1>3 DEF Ordered

LEMMA TailOne ==
  ASSUME NEW s \in Seq(Char), s # <<>>, Len(s) <= 1
  PROVE  Tail(s) = <<>>
<1>1. Len(s) \in Nat /\ Len(s) # 0
  BY EmptySeq
<1>2. Tail(s) \in Seq(Char) /\ Len(Tail(s)) = Len(s) - 1
  BY <1>1
<1> DEFINE u == Tail(s)
<1> HIDE DEF u
<1>3. u \in Seq(Char) /\ Len(u) = 0
  BY <1>1, <1>2 DEF u
<1>4. u = <<>>
  BY <1>3, EmptySeq
<1> QED BY <1>4 DEF u

\* What was held goes on as the text of a call, or there was nothing.
LEMMA LeftoverOrdered ==
  ASSUME calls \in Seq(Call), calls # <<>>, Stacked(calls),
         NEW s \in Seq(Char), s # <<>>, NEW rest \in Seq(Char), NEW w, Leftover(s, rest, w),
         UNCHANGED typed,
         \A r, ds : Onto(calls, Len(calls) - 1, r, ds) /\ r.s = rest => Kept(Tail(s), done', ds, typed)
  PROVE  Ordered'
<1>1. Len(calls) \in Nat /\ Len(calls) > 0 /\ \A i \in 1..(Len(calls) - 1) : calls[i].at \in Below
  <2>1. Len(calls) \in Nat /\ Len(calls) > 0
    BY EmptySeq
  <2>2. \A i \in 1..(Len(calls) - 1) : i \in 1..Len(calls) /\ i < Len(calls)
    BY <2>1
  <2> QED BY <2>1, <2>2 DEF Stacked
<1>2. kkey' = <<>> /\ Len(calls) - 1 \in Nat
  BY <1>1, LeftoverIs
<1>3. CASE Len(s) <= 1 /\ Onto(calls, Len(calls) - 1, At("top", rest), calls')
  <2>1. Kept(Tail(s), done', calls', typed)
    BY <1>3 DEF At
  <2>2. Tail(s) = <<>>
    BY <1>3, TailOne
  <2>3. Kept(kkey', done', calls', typed')
    BY <1>2, <2>1, <2>2
  <2> QED BY <1>1, <1>2, <1>3, <2>3, OntoOrdered DEF At
<1>4. ASSUME Tail(s) \in Seq(Char), NEW mid \in Seq(Call),
             Onto(calls, Len(calls) - 1, At("rest", rest), mid),
             Onto(mid, Len(mid), At("top", Tail(s)), calls')
      PROVE  Ordered'
  <2>1. Kept(Tail(s), done', mid, typed)
    BY <1>4 DEF At
  <2>2. Kept(<<>>, done', calls', typed)
    BY <1>4, <2>1, Pushes DEF At
  <2>3. Len(mid) = Len(calls) /\ Len(mid) \in Nat /\ \A i \in 1..Len(mid) : mid[i].at \in Below
    <3>1. /\ Len(mid) = (Len(calls) - 1) + 1 /\ mid[(Len(calls) - 1) + 1] = At("rest", rest)
          /\ \A i \in 1..(Len(calls) - 1) : mid[i] = calls[i]
      BY <1>4 DEF Onto
    <3>2. Len(mid) = Len(calls) /\ mid[Len(calls)].at = "rest"
      BY <1>1, <3>1 DEF At
    <3>3. \A i \in 1..Len(mid) : i \in 1..(Len(calls) - 1) \/ i = Len(calls)
      BY <1>1, <3>2
    <3> QED BY <1>1, <3>1, <3>2, <3>3 DEF Below
  <2>4. Kept(kkey', done', calls', typed')
    BY <1>2, <2>2
  <2> QED BY <1>4, <2>3, <2>4, OntoOrdered DEF At
<1> QED BY <1>3, <1>4, LeftoverIs

LEMMA NextOrdered ==
  ASSUME InsertAny = FALSE, Typed, Ordered, [Next]_vars
  PROVE  Ordered'
<1> DEFINE n == Len(calls)
           rest == Tail(Top.s)
           s == Append(kkey, c)
<1>1. /\ calls \in Seq(Call) /\ kkey \in Seq(Char) /\ typed \in Seq(Whose)
      /\ Kept(Held, done, calls, typed) /\ Stacked(calls)
      /\ calls # <<>> /\ Top.at = "low" => kkey # <<>> /\ kkey[1].n \in Nums(done)
  BY DEF Typed, Ordered
<1>2. n \in Nat /\ (calls # <<>> => n > 0) /\ (calls = <<>> => n = 0)
  BY <1>1, EmptySeq
<1>3. \A i \in 1..(n - 1) : calls[i].at \in Below
  <2>1. \A i \in 1..(n - 1) : i \in 1..Len(calls) /\ i < Len(calls)
    BY <1>2
  <2> QED BY <1>1, <2>1 DEF Stacked
<1>4. calls # <<>> => Top = calls[n] /\ Top \in Call /\ Top.s \in Seq(Char) /\ Top.at \in OnTop
  <2> SUFFICES ASSUME calls # <<>> PROVE Top = calls[n] /\ Top \in Call /\ Top.s \in Seq(Char) /\ Top.at \in OnTop
    OBVIOUS
  <2>1. Top = calls[n] /\ n \in 1..Len(calls)
    BY <1>2 DEF Top
  <2>2. Top \in Call
    BY <1>1, <2>1, ElementOfSeq
  <2>3. Top.at \in OnTop
    BY <1>1, <2>1 DEF Stacked
  <2> QED BY <2>1, <2>2, <2>3 DEF Call
\* A character is taken from the text on top.
<1>5. ASSUME AtTop, Top.s # <<>>
      PROVE  /\ s \in Seq(Char) /\ s # <<>> /\ rest \in Seq(Char) /\ calls # <<>> /\ Held = kkey
             /\ \A r, ds : Onto(calls, n - 1, r, ds) /\ r.s = rest =>
                  Kept(s, done, ds, typed) /\ Kept(kkey, done \o Marks(<<c>>, "high"), ds, typed)
  <2>1. s \in Seq(Char) /\ s # <<>> /\ rest \in Seq(Char) /\ calls # <<>>
    BY <1>5, TakeIs
  <2>2. Held = kkey /\ Top = calls[n]
    BY <1>4, <1>5 DEF Held, AtTop
  <2>3. ASSUME NEW r, NEW ds, Onto(calls, n - 1, r, ds), r.s = rest
        PROVE  Kept(s, done, ds, typed) /\ Kept(kkey, done \o Marks(<<c>>, "high"), ds, typed)
    <3>1. Kept(kkey, done, calls, typed) /\ calls[n].s # <<>> /\ r.s = Tail(calls[n].s) /\ c = Head(calls[n].s)
      BY <1>1, <1>5, <2>2, <2>3 DEF c
    <3>2. Kept(Append(kkey, Head(calls[n].s)), done, ds, typed)
      BY <2>1, <2>3, <3>1, Held1
    <3>3. Kept(kkey, done \o Marks(<<Head(calls[n].s)>>, "high"), ds, typed)
      BY <2>1, <2>3, <3>1, High1
    <3> QED BY <3>1, <3>2, <3>3
  <2> QED BY <2>1, <2>2, <2>3
<1>6. \A place \in {"top", "high", "key", "low", "rest"}, u \in Seq(Char) :
        calls # <<>> /\ Goes(place, u) => Onto(calls, n - 1, At(place, u), calls') /\ At(place, u).s = u
  BY <1>1, GoesIs DEF At
<1>7. \A u, by : Taken(u, by) => done' = done \o Marks(u, by)
  BY DEF Taken, Marks
<1> HIDE DEF n, rest, s
\* What a step that puts a call that getch(1) did not start on top has to keep.
<1>8. ASSUME NEW place \in {"top", "high", "key"}, NEW u \in Seq(Char), calls # <<>>, Goes(place, u),
             Kept(kkey', done', calls', typed')
      PROVE  Ordered'
  <2>1. Onto(calls, n - 1, At(place, u), calls') /\ n - 1 \in Nat
    BY <1>2, <1>6, <1>8
  <2> QED BY <1>3, <1>8, <2>1, OntoOrdered DEF At
<1>9. CASE GiveHigh
  <2>1. AtTop /\ Top.s # <<>> /\ Goes("high", rest) /\ Taken(<<c>>, "high") /\ UNCHANGED <<kkey, typed>>
    BY <1>9 DEF GiveHigh, Take, rest
  <2>2. Kept(kkey, done \o Marks(<<c>>, "high"), calls', typed)
    BY <1>5, <1>6, <2>1
  <2> QED BY <1>5, <1>7, <1>8, <2>1, <2>2
<1>10. CASE Key
  <2>1. AtTop /\ Top.s # <<>> /\ Taken(s, "key") /\ kkey' = <<>> /\ UNCHANGED typed
    BY <1>10 DEF Key, Take, s
  <2>2. PICK place \in {"key", "top"} : Goes(place, rest)
    BY <1>10 DEF Key, rest
  <2>3. Kept(s, done, calls', typed)
    BY <1>5, <1>6, <2>1, <2>2
  <2>4. Kept(<<>>, done \o Marks(s, "key"), calls', typed)
    BY <2>3, TakesAll
  <2> QED BY <1>5, <1>7, <1>8, <2>1, <2>2, <2>4
<1>11. CASE Partial
  <2>1. AtTop /\ Top.s # <<>> /\ Goes("top", rest) /\ kkey' = s /\ UNCHANGED <<done, typed>>
    BY <1>11 DEF Partial, Take, rest, s, history
  <2>2. Kept(s, done, calls', typed)
    BY <1>5, <1>6, <2>1
  <2> QED BY <1>5, <1>8, <2>1, <2>2
<1>12. CASE GiveLow
  <2>1. AtTop /\ Top.s # <<>> /\ Goes("low", rest) /\ Taken(<<s[1]>>, "low") /\ kkey' = s /\ UNCHANGED typed
    BY <1>12 DEF GiveLow, Take, rest, s
  <2>2. Onto(calls, n - 1, At("low", rest), calls') /\ Kept(s, done, calls', typed) /\ n - 1 \in Nat
    BY <1>2, <1>5, <1>6, <2>1
  <2>3. /\ Kept(Tail(s), done \o Marks(<<s[1]>>, "low"), calls', typed)
        /\ s[1].n \in Nums(done \o Marks(<<s[1]>>, "low"))
    BY <1>5, <2>1, <2>2, TakesFirst
  <2>4. calls' # <<>> /\ Top' = At("low", rest)
    BY <2>2, OntoTop
  <2>5. Stacked(calls')
    BY <1>3, <2>2, OntoStacked DEF At, OnTop
  <2>6. Held' = Tail(s)
    BY <2>1, <2>4 DEF Held, At
  <2> QED BY <1>5, <1>7, <2>1, <2>3, <2>5, <2>6 DEF Ordered
<1>13. CASE IntoLine
  <2>1. AtTop /\ Top.s # <<>> /\ Taken(<<s[1]>>, "line") /\ UNCHANGED typed
    BY <1>13 DEF IntoLine, s
  <2>2. \E w : Leftover(s, rest, w)
    BY <1>13 DEF IntoLine, s, rest
  <2>3. ASSUME NEW r, NEW ds, Onto(calls, n - 1, r, ds), r.s = rest PROVE Kept(Tail(s), done', ds, typed)
    <3>1. Kept(s, done, ds, typed) /\ s # <<>>
      BY <1>5, <2>1, <2>3
    <3>2. Kept(Tail(s), done \o Marks(<<s[1]>>, "line"), ds, typed)
      BY <3>1, TakesFirst
    <3> QED BY <1>7, <2>1, <3>2
  <2>4. \A r, ds : Onto(calls, Len(calls) - 1, r, ds) /\ r.s = rest => Kept(Tail(s), done', ds, typed)
    BY <2>3 DEF n
  <2> QED BY <1>1, <1>5, <2>1, <2>2, <2>4, LeftoverOrdered
<1>14. ASSUME NEW r, NEW ds, Onto(calls, n - 1, r, ds), calls # <<>>, r.s = Top.s
       PROVE  Kept(Held, done, ds, typed)
  <2>1. /\ ds \in Seq(Call) /\ Len(ds) = n /\ ds[n] = r /\ \A k \in 1..n : k # n => ds[k] = calls[k]
    BY <1>1, <1>14, LastIs DEF n
  <2>2. \A k \in 1..n : ds[k].s = calls[k].s
    BY <1>4, <1>14, <2>1
  <2> QED BY <1>1, <2>1, <2>2, SameTexts DEF n
<1>15. CASE Return
  <2>1. calls # <<>> /\ UNCHANGED <<done, typed>>
    BY <1>15 DEF Return, history
  <2>2. CASE Top.at \in {"high", "key"} /\ Goes("top", Top.s) /\ UNCHANGED kkey
    <3>1. Held = kkey /\ Kept(Held, done, calls', typed)
      BY <1>4, <1>6, <1>14, <2>1, <2>2 DEF Held
    <3> QED BY <1>4, <1>8, <2>1, <2>2, <3>1
  <2>3. CASE Top.at = "low" /\ Leftover(kkey, Top.s, keyboard_input_waiting)
    <3>1. kkey # <<>> /\ Held = Tail(kkey)
      BY <1>1, <2>1, <2>3 DEF Held
    <3>2. \A r, ds : Onto(calls, Len(calls) - 1, r, ds) /\ r.s = Top.s => Kept(Tail(kkey), done', ds, typed)
      BY <1>14, <2>1, <3>1 DEF n
    <3> QED BY <1>1, <1>4, <2>1, <2>3, <3>1, <3>2, LeftoverOrdered
  <2> QED BY <1>15, <2>2, <2>3 DEF Return
<1>16. CASE Done
  <2>1. /\ calls # <<>> /\ Top.s = <<>> /\ Top.at = "top" /\ UNCHANGED <<kkey, done, typed>>
    BY <1>16 DEF Done, AtTop, history
  <2>2. Held = kkey
    BY <2>1 DEF Held
  <2>3. CASE Len(calls) = 1 /\ calls' = <<>>
    <3>1. Len(<<>>) = 0 /\ <<>> \in Seq(Call)
      BY EmptySeq
    <3>2. Kept(kkey, done, <<>>, typed)
      <4>1. Len(calls) = Len(<<>>) + 1 /\ calls[Len(calls)].s = <<>>
        BY <1>4, <2>1, <2>3, <3>1 DEF n
      <4>2. \A k \in 1..Len(<<>>) : <<>>[k].s = calls[k].s
        BY <3>1
      <4> QED BY <1>1, <2>2, <3>1, <4>1, <4>2, Pops
    <3>3. Stacked(<<>>)
      BY <3>1 DEF Stacked
    <3>4. Held' = kkey'
      BY <2>3 DEF Held
    <3> QED BY <2>1, <2>3, <3>2, <3>3, <3>4 DEF Ordered
  <2>4. ASSUME NEW k \in Nat, NEW r \in Call, k + 2 = Len(calls), Onto(calls, k, r, calls'),
               r.s = calls[k + 1].s,
               r.at = IF calls[k + 1].at = "rest" THEN "top" ELSE calls[k + 1].at
        PROVE  Ordered'
    <3>1. /\ calls' \in Seq(Call) /\ Len(calls') = k + 1 /\ calls'[k + 1] = r
          /\ \A i \in 1..k : calls'[i] = calls[i]
      BY <2>4 DEF Onto
    <3>2. k + 1 \in 1..(n - 1) /\ \A i \in 1..k : i \in 1..(n - 1)
      BY <1>2, <2>4 DEF n
    <3>3. r.at \in {"top", "high", "key"} /\ \A i \in 1..k : calls[i].at \in Below
      BY <1>3, <2>4, <3>2 DEF Below
    <3>4. \A i \in 1..Len(calls') : calls'[i].s = calls[i].s
      <4>1. \A i \in 1..Len(calls') : i \in 1..k \/ i = k + 1
        BY <3>1
      <4> QED BY <2>4, <3>1, <4>1
    <3>5. Len(calls) = Len(calls') + 1 /\ calls[Len(calls)].s = <<>>
      BY <1>2, <1>4, <2>1, <2>4, <3>1 DEF n
    <3>6. Kept(kkey, done, calls', typed)
      BY <1>1, <2>2, <3>1, <3>4, <3>5, Pops
    <3> QED BY <2>1, <2>4, <3>3, <3>6, OntoOrdered
  <2> QED BY <1>1, <1>16, <2>3, <2>4, DoneIs
<1>17. ASSUME NEW u \in Seq(Chars), NEW who \in Whose, Arrives(u, who), UNCHANGED <<kkey, done>>,
              calls = <<>> \/ (who # "user" /\ Top.at \in {"high", "key"})
       PROVE  Ordered'
  <2>1. /\ Onto(calls, Len(calls), At("top", Fresh(u)), calls')
        /\ typed' \in Seq(Whose) /\ Len(typed') = Len(typed) + Len(u)
        /\ \A i \in 1..Len(typed) : typed'[i] = typed[i]
        /\ \A i \in 1..Len(u) : typed'[Len(typed) + i] = who
    BY <1>1, <1>17, ArrivesIs
  <2>2. Nums(Fresh(u)) = (Len(typed) + 1)..Len(typed') /\ Sorted(Fresh(u), typed')
    BY <1>1, <2>1, FreshIs
  <2>3. Len(typed) \in Nat /\ Len(u) \in Nat /\ Len(typed) <= Len(typed')
    BY <1>1, <2>1
  <2>4. \A i \in (Len(typed) + 1)..Len(typed') : typed'[i] = who
    <3>1. TAKE i \in (Len(typed) + 1)..Len(typed')
    <3>2. i - Len(typed) \in 1..Len(u) /\ Len(typed) + (i - Len(typed)) = i
      BY <2>1, <2>3
    <3> QED BY <2>1, <3>2
  <2>5. Held = kkey
    BY <1>17 DEF Held
  <2>6. At("top", Fresh(u)).s = Fresh(u) /\ At("top", Fresh(u)).at = "top"
    BY DEF At
  <2>7. calls = <<>> \/ \A i \in (Len(typed) + 1)..Len(typed') : typed'[i] # "user"
    BY <1>17, <2>4
  <2>8. Kept(kkey, done, calls', typed')
    <3> DEFINE r == At("top", Fresh(u))
    <3>1. Nums(r.s) = (Len(typed) + 1)..Len(typed') /\ Sorted(r.s, typed')
      BY <2>2, <2>6
    <3> HIDE DEF r
    <3>2. Kept(kkey, done, calls, typed) /\ Onto(calls, Len(calls), r, calls')
      BY <1>1, <2>1, <2>5 DEF r
    <3> QED BY <2>1, <2>3, <2>7, <3>1, <3>2, Comes
  <2>9. \A i \in 1..Len(calls) : calls[i].at \in Below
    <3>1. CASE calls = <<>>
      BY <1>2, <3>1 DEF n
    <3>2. CASE calls # <<>> /\ Top.at \in {"high", "key"}
      <4>1. calls[n].at \in Below
        BY <1>4, <3>2 DEF Below
      <4>2. \A i \in 1..n : i \in 1..(n - 1) \/ i = n
        BY <1>2
      <4> QED BY <1>3, <4>1, <4>2 DEF n
    <3> QED BY <1>17, <3>1, <3>2
  <2>10. Len(calls) \in Nat /\ Kept(kkey', done', calls', typed')
    BY <1>2, <1>17, <2>8 DEF n
  <2> QED BY <2>1, <2>6, <2>9, <2>10, OntoOrdered
<1>18. CASE \E u \in Typings : Read(u)
  <2>1. PICK u \in Typings : Read(u)
    BY <1>18
  <2>2. u \in Seq(Chars) /\ "user" \in Whose
    BY KeyboardAssumption DEF Whose
  <2> QED BY <1>17, <2>1, <2>2 DEF Read
<1>19. CASE \E u \in Inserts : Insert(u)
  <2>1. PICK u \in Inserts : Insert(u)
    BY <1>19
  <2>2. u \in Seq(Chars) /\ "program" \in Whose /\ "program" # "user"
    BY KeyboardAssumption DEF Whose
  <2>3. calls = <<>> \/ Top.at \in {"high", "key"}
    BY <2>1 DEF Insert, InProgram
  <2>4. Arrives(u, "program") /\ UNCHANGED <<kkey, done>>
    BY <2>1 DEF Insert
  <2> QED BY <1>17, <2>2, <2>3, <2>4
<1>20. CASE UNCHANGED <<kkey, calls, typed, done>>
  BY <1>1, <1>20 DEF Ordered, Held, Top
<1>21. CASE \/ \E b \in Binds : Bind(b[1], b[2])
            \/ \E seq \in Bindable : Unbind(seq)
            \/ Getch \/ \E f \in Efuncs : Edfunc(f)
  BY <1>20, <1>21 DEF Bind, Unbind, Getch, Edfunc, history
<1>22. CASE UNCHANGED vars
  BY <1>20, <1>22 DEF vars, history
<1> QED BY <1>9, <1>10, <1>11, <1>12, <1>13, <1>15, <1>16, <1>18, <1>19, <1>21, <1>22 DEF Next

LEMMA FirstOrdered ==
  ASSUME Init
  PROVE  Ordered
<1>1. /\ kkey = <<>> /\ calls = <<>> /\ done = <<>> /\ typed = <<>> /\ Len(<<>>) = 0
      /\ <<>> \in Seq(Char) /\ <<>> \in Seq(Gone) /\ <<>> \in Seq(Call) /\ <<>> \in Seq(Whose)
  BY EmptySeq DEF Init
<1>2. Nums(<<>>) = {} /\ NotHigh(<<>>) = {} /\ Sorted(<<>>, <<>>) /\ InOrder(<<>>, <<>>)
  BY <1>1 DEF Nums, NotHigh, Sorted, InOrder
<1>3. Arranged({}, {}, {}, <<>>, <<>>)
  BY <1>1 DEF Arranged, Precedes
<1>4. Kept(<<>>, <<>>, <<>>, <<>>) /\ Stacked(<<>>)
  <2>1. Stacked(<<>>)
    BY <1>1 DEF Stacked
  <2>2. Arranged(Nums(<<>>), NotHigh(<<>>), Nums(<<>>), <<>>, <<>>)
    BY <1>2, <1>3
  <2>3. Kept(<<>>, <<>>, <<>>, <<>>)
    BY ONLY <1>1, <1>2, <2>2 DEF Kept
  <2> QED BY <2>1, <2>3
<1>5. Held = kkey
  BY <1>1 DEF Held
<1> QED BY <1>1, <1>4, <1>5 DEF Ordered

LEMMA OrderedOnce ==
  ASSUME Typed, Ordered
  PROVE  OnceInOrder
<1>1. /\ Held \in Seq(Char) /\ done \in Seq(Gone) /\ calls \in Seq(Call) /\ typed \in Seq(Whose)
      /\ InOrder(done, typed) /\ Arranged(Nums(done), NotHigh(done), Nums(Held), calls, typed)
  BY DEF Ordered, Kept
<1>2. /\ DOMAIN done = 1..Len(done) /\ DOMAIN calls = 1..Len(calls) /\ DOMAIN typed = 1..Len(typed)
      /\ Len(done) \in Nat
  BY <1>1
<1>3. \A i, j \in DOMAIN done : done[i].n = done[j].n => i = j
  BY <1>1, <1>2 DEF InOrder
<1>4. Consumed = Nums(done)
  BY <1>2 DEF Consumed, Nums
<1>5. \A m : m \in Unread <=> \E k \in 1..Len(calls) : m \in Nums(calls[k].s)
  <2>1. \A k \in 1..Len(calls) : calls[k].s \in Seq(Char)
    <3>1. \A k \in 1..Len(calls) : calls[k] \in Call
      BY <1>1, ElementOfSeq
    <3>2. \A r \in Call : r.s \in Seq(Char)
      BY DEF Call
    <3> QED BY <3>1, <3>2
  <2>2. \A k \in 1..Len(calls) : DOMAIN calls[k].s = 1..Len(calls[k].s)
    BY <2>1, LenProperties
  <2>3. Unread = UNION {Nums(calls[k].s) : k \in 1..Len(calls)}
    BY <1>2, <2>2 DEF Unread, Nums
  <2> QED BY <2>3
<1>6. InKey = Nums(Held)
  <2>1. kkey \in Seq(Char) /\ DOMAIN kkey = 1..Len(kkey)
    BY DEF Typed
  <2>2. {kkey[i].n : i \in DOMAIN kkey} = Nums(kkey)
    BY <2>1 DEF Nums
  <2>3. InKey = Nums(kkey) \ (IF Lows = {} THEN {} ELSE Consumed)
    BY <2>2 DEF InKey
  <2>4. Stacked(calls) /\ Len(calls) \in Nat /\ (calls = <<>> <=> Len(calls) = 0)
    BY <1>1, EmptySeq DEF Ordered
  <2>5. CASE calls # <<>> /\ Top.at = "low"
    <3>1. kkey # <<>> /\ kkey[1].n \in Nums(done) /\ Held = Tail(kkey)
      BY <2>5 DEF Ordered, Held
    <3>2. Lows # {}
      <4>1. Len(calls) \in DOMAIN calls
        BY <1>2, <2>4, <2>5
      <4> QED BY <2>5, <4>1 DEF Lows, Top
    <3>3. Nums(kkey) = {kkey[1].n} \cup Nums(Held)
      BY <2>1, <3>1, FirstOf
    <3>4. Nums(done) \cap Nums(Held) = {}
      BY <1>1 DEF Arranged
    <3> QED BY <1>4, <2>3, <3>1, <3>2, <3>3, <3>4
  <2>6. CASE ~(calls # <<>> /\ Top.at = "low")
    <3>1. Held = kkey
      BY <2>6 DEF Held
    <3>2. ASSUME NEW i \in DOMAIN calls PROVE calls[i].at # "low"
      <4>1. i \in 1..Len(calls) /\ calls # <<>>
        BY <1>2, <2>4, <3>2
      <4>2. CASE i = Len(calls)
        BY <2>6, <4>1, <4>2 DEF Top
      <4>3. CASE i < Len(calls)
        BY <2>4, <4>1, <4>3 DEF Stacked, Below
      <4> QED BY <2>4, <4>1, <4>2, <4>3
    <3>3. Lows = {}
      BY <3>2 DEF Lows
    <3> QED BY <2>3, <3>1, <3>3
  <2> QED BY <2>5, <2>6
<1>7. Consumed \cap (Unread \cup InKey) = {}
  BY <1>1, <1>4, <1>5, <1>6 DEF Arranged
<1>8. Unread \cap InKey = {}
  BY <1>1, <1>5, <1>6 DEF Arranged, Precedes, Before
<1>9. Consumed \cup Unread \cup InKey = DOMAIN typed
  BY <1>1, <1>2, <1>4, <1>5, <1>6 DEF Arranged
<1>10. \A i, j \in DOMAIN done :
         (/\ i < j /\ "high" \notin {done[i].by, done[j].by}
          /\ typed[done[i].n] = "user" /\ typed[done[j].n] = "user") => done[i].n < done[j].n
  BY <1>1, <1>2 DEF InOrder, Before
<1> QED BY <1>3, <1>7, <1>8, <1>9, <1>10 DEF OnceInOrder

\* However the calls of process_incoming() nest, each character is taken once,
\* none is lost, and what the user types is taken in order, but for getch(0):
\* as long as a program that getch(1) started does not go on to insert().
THEOREM TakenOnceInOrder ==
  ASSUME InsertAny = FALSE
  PROVE  Spec => []OnceInOrder
<1>1. Init => Typed /\ LineSeen /\ Ordered
  BY FirstTyped, FirstOrdered
<1>2. Typed /\ LineSeen /\ Ordered /\ [Next]_vars => (Typed /\ LineSeen /\ Ordered)'
  BY NextAll, NextOrdered
<1>3. Typed /\ Ordered => OnceInOrder
  BY OrderedOnce
<1> QED BY <1>1, <1>2, <1>3, PTL DEF Spec
=============================================================================

---------------------------- MODULE InterpProofs ----------------------------
(***************************************************************************)
(* Proofs about Interp: the stacks are never overrun, no frame reaches     *)
(* into another, suspended programs stay resumable, what runs on top of a  *)
(* program leaves its cells alone, and the shared stacks implement those   *)
(* of Coroutines, one for each program: for all sizes, programs and nodes. *)
(*                                                                         *)
(* Most lemmas are about two stacks d and cs and not about the variables:  *)
(* each says what one way of changing the stacks preserves, and the steps  *)
(* of interp() and of the primitives are instances.                        *)
(***************************************************************************)
EXTENDS Interp, SeqLemmas

-----------------------------------------------------------------------------
(* Sequences.                                                              *)

LEMMA TakeProperties ==
  ASSUME NEW S, NEW s \in Seq(S), NEW n \in 0..Len(s)
  PROVE  /\ Take(s, n) \in Seq(S) /\ Len(Take(s, n)) = n
         /\ \A i \in 1..n : Take(s, n)[i] = s[i]
BY SubSeqProperties DEF Take

LEMMA SubSeqType ==
  ASSUME NEW S, NEW s \in Seq(S), NEW m \in 1..(Len(s) + 1), NEW n \in 0..Len(s),
         m <= n + 1
  PROVE  /\ SubSeq(s, m, n) \in Seq(S) /\ Len(SubSeq(s, m, n)) = n - m + 1
         /\ \A i \in 1..(n - m + 1) : SubSeq(s, m, n)[i] = s[m + i - 1]
BY SubSeqProperties

LEMMA EmptyLen ==
  ASSUME NEW S, NEW s \in Seq(S)
  PROVE  Len(s) \in Nat /\ (s = <<>> <=> Len(s) = 0)
OBVIOUS

LEMMA NullsProperties ==
  ASSUME NEW n \in Nat
  PROVE  Nulls(n) \in Seq(Cell) /\ Len(Nulls(n)) = n
BY DEF Nulls, Cell

LEMMA Monotone ==
  ASSUME NEW m \in Nat, NEW f, \A i \in 1..m : f[i] \in Nat,
         \A i \in 1..(m - 1) : f[i] <= f[i + 1],
         NEW j \in 1..m, NEW k \in 1..j
  PROVE  f[k] <= f[j]
<1> DEFINE T == {x \in 0..(m - k) : f[k + x] < f[k]}
<1>1. T = {}
  <2> SUFFICES ASSUME T # {} PROVE FALSE
    OBVIOUS
  <2>1. \E x \in T : \A y \in T : x <= y
    <3>1. T \subseteq Nat
      OBVIOUS
    <3> HIDE DEF T
    <3> QED BY <3>1, LeastNat
  <2>2. PICK x \in 0..(m - k) : f[k + x] < f[k] /\ \A y \in T : x <= y
    BY <2>1
  <2>3. x # 0
    BY <2>2
  <2>4. x - 1 \notin T
    <3>1. ~(x <= x - 1)
      BY <2>2
    <3> HIDE DEF T
    <3> QED BY <2>2, <3>1
  <2>5. PICK i \in 1..(m - 1) : i = k + (x - 1) /\ i + 1 = k + x
    BY <2>3
  <2>6. ~(f[i] < f[k])
    BY <2>3, <2>4, <2>5
  <2> QED BY <2>2, <2>5, <2>6
<1>2. j - k \in 0..(m - k) /\ k + (j - k) = j
  OBVIOUS
<1>3. ~(f[j] < f[k])
  BY <1>1, <1>2
<1> QED BY <1>3

-----------------------------------------------------------------------------
(* Stacks.                                                                 *)

\* A call stack whose last frame ends at cell n.
Stack(n, cs) == cs \in Seq(Frame) /\ Laid(n, cs) /\ Nested(cs)

\* The highest detached frame exists: the lowest frame is detached.
LEMMA BaseExists ==
  ASSUME NEW cs \in Seq(Frame), Nested(cs), cs # <<>>
  PROVE  \E k \in 1..Len(cs) :
           ~cs[k].attached /\ \A j \in (k + 1)..Len(cs) : cs[j].attached
<1> DEFINE n == Len(cs)
           T == {x \in 0..(n - 1) : ~cs[n - x].attached}
<1>1. n \in Nat /\ n > 0
  OBVIOUS
<1>2. ~cs[1].attached
  BY <1>1 DEF Nested
<1>3. n - 1 \in T
  <2>1. n - 1 \in 0..(n - 1) /\ n - (n - 1) = 1
    BY <1>1
  <2> QED BY <1>2, <2>1
<1>4. \E x \in T : \A y \in T : x <= y
  <2>1. T \subseteq Nat
    BY <1>1
  <2> HIDE DEF T
  <2> QED BY <1>3, <2>1, LeastNat
<1>5. PICK x \in 0..(n - 1) : ~cs[n - x].attached /\ \A y \in T : x <= y
  BY <1>4
<1>6. \A j \in (n - x + 1)..n : cs[j].attached
  <2> SUFFICES ASSUME NEW j \in (n - x + 1)..n, ~cs[j].attached PROVE FALSE
    OBVIOUS
  <2>1. n - j \in 0..(n - 1) /\ n - (n - j) = j /\ n - j < x
    BY <1>1
  <2>2. n - j \in T
    BY <2>1
  <2>3. x <= n - j
    BY <1>5, <2>2
  <2> HIDE DEF T, n
  <2> QED BY <2>1, <2>3, <1>1
<1>7. n - x \in 1..n
  BY <1>1
<1> HIDE DEF T
<1> QED BY <1>5, <1>6, <1>7

\* Frames start one above the other.
LEMMA StartsOrdered ==
  ASSUME NEW n \in Nat, NEW cs, Stack(n, cs), NEW j \in 1..Len(cs), NEW k \in 1..j
  PROVE  cs[k].dstart <= cs[j].dstart
<1> DEFINE f == [i \in 1..Len(cs) |-> cs[i].dstart]
<1>1. cs \in Seq(Frame) /\ Len(cs) \in Nat
  BY DEF Stack
<1>2. ASSUME NEW i \in 1..Len(cs) PROVE f[i] \in Nat
  <2>1. cs[i] \in Frame
    BY <1>1, ElementOfSeq
  <2> QED BY <2>1 DEF Frame
<1>3. ASSUME NEW i \in 1..(Len(cs) - 1) PROVE f[i] <= f[i + 1]
  <2>1. cs[i] \in Frame /\ cs[i + 1] \in Frame /\ i # Len(cs) /\ i \in 1..Len(cs)
        /\ i + 1 \in 1..Len(cs)
    BY <1>1, ElementOfSeq
  <2>2. FrameLaid(cs[i], cs[i + 1].dstart)
    BY <1>1, <2>1 DEF Stack, Laid, Top
  <2> QED BY <2>1, <2>2 DEF FrameLaid, Frame
<1>4. f[k] <= f[j]
  <2> HIDE DEF f
  <2> QED BY <1>1, <1>2, <1>3, Monotone
<1> QED BY <1>1, <1>4

\* The last frame computes: other operands, other C code, another end.
LEMMA RetopStack ==
  ASSUME NEW n \in Nat, NEW cs, Stack(n, cs), cs # <<>>,
         NEW m \in Nat, NEW w \in Nat, NEW pr \in Prim, w >= Pending(pr),
         cs[Len(cs)].dstart + cs[Len(cs)].nv + w <= m
  PROVE  Stack(m, [cs EXCEPT ![Len(cs)].want = w, ![Len(cs)].prim = pr])
<1> DEFINE top == Len(cs)
           f == [cs[top] EXCEPT !.want = w, !.prim = pr]
           new == [cs EXCEPT ![top].want = w, ![top].prim = pr]
<1>1. cs \in Seq(Frame) /\ top \in Nat /\ top > 0 /\ Laid(n, cs) /\ Nested(cs)
  BY DEF Stack
<1>2. cs[top] \in Frame
  BY <1>1, ElementOfSeq
<1>3. f \in Frame /\ f.dstart = cs[top].dstart /\ f.nv = cs[top].nv /\ f.vals = cs[top].vals
      /\ f.want = w /\ f.prim = pr /\ f.attached = cs[top].attached
  BY <1>2 DEF Frame
<1>4. new = [cs EXCEPT ![top] = f]
  BY <1>1, <1>2 DEF Frame
<1>5. new \in Seq(Frame) /\ Len(new) = top
      /\ \A k \in 1..top : new[k] = IF k = top THEN f ELSE cs[k]
  <2> HIDE DEF f, new
  <2> QED BY <1>1, <1>3, <1>4, ExceptSeq
<1> HIDE DEF f, new
<1>6. Laid(m, new)
  <2> SUFFICES ASSUME NEW k \in 1..top PROVE FrameLaid(new[k], Top(m, new, k))
    BY <1>5 DEF Laid
  <2>1. CASE k = top
    <3>1. FrameLaid(cs[top], n)
      BY <1>1 DEF Laid, Top
    <3> QED BY <2>1, <1>3, <1>5, <3>1 DEF Top, FrameLaid
  <2>2. CASE k # top
    <3>1. Top(m, new, k) = Top(n, cs, k)
      BY <2>2, <1>1, <1>3, <1>5 DEF Top
    <3> QED BY <2>2, <1>1, <1>5, <3>1 DEF Laid
  <2> QED BY <2>1, <2>2
<1>7. Nested(new)
  <2> SUFFICES ASSUME NEW k \in 1..top
      PROVE new[k].attached <=> k > 1 /\ new[k - 1].prim.kind = "none"
    BY <1>5 DEF Nested
  <2>1. cs[k].attached <=> k > 1 /\ cs[k - 1].prim.kind = "none"
    BY <1>1 DEF Nested
  <2>2. k > 1 => new[k - 1] = cs[k - 1]
    BY <1>1, <1>5
  <2>3. new[k].attached = cs[k].attached
    BY <1>3, <1>5
  <2> QED BY <2>1, <2>2, <2>3
<1>8. Stack(m, new)
  BY <1>5, <1>6, <1>7 DEF Stack
<1> QED BY <1>8 DEF new

\* A frame is pushed above what the last one still needs.
LEMMA PushStack ==
  ASSUME NEW n \in Nat, NEW cs, Stack(n, cs), NEW f \in Frame, NEW m \in Nat,
         FrameLaid(f, m),
         cs # <<>> => FrameLaid(cs[Len(cs)], f.dstart),
         f.attached <=> cs # <<>> /\ cs[Len(cs)].prim.kind = "none"
  PROVE  Stack(m, Append(cs, f))
<1> DEFINE new == Append(cs, f)
           top == Len(cs)
<1>1. cs \in Seq(Frame) /\ top \in Nat /\ Laid(n, cs) /\ Nested(cs) /\ (cs = <<>> <=> top = 0)
  BY DEF Stack
<1>2. new \in Seq(Frame) /\ Len(new) = top + 1
      /\ \A k \in 1..(top + 1) : new[k] = IF k = top + 1 THEN f ELSE cs[k]
  BY <1>1, AppendProperties
<1> HIDE DEF new
<1>3. Laid(m, new)
  <2> SUFFICES ASSUME NEW k \in 1..(top + 1) PROVE FrameLaid(new[k], Top(m, new, k))
    BY <1>2 DEF Laid
  <2>1. CASE k = top + 1
    BY <2>1, <1>1, <1>2 DEF Top
  <2>2. CASE k = top
    BY <2>2, <1>1, <1>2 DEF Top
  <2>3. CASE k < top
    BY <2>3, <1>1, <1>2 DEF Top, Laid
  <2> QED BY <2>1, <2>2, <2>3, <1>1
<1>4. Nested(new)
  <2> SUFFICES ASSUME NEW k \in 1..(top + 1)
      PROVE new[k].attached <=> k > 1 /\ new[k - 1].prim.kind = "none"
    BY <1>2 DEF Nested
  <2>1. CASE k = top + 1
    BY <2>1, <1>1, <1>2
  <2>2. CASE k \in 1..top
    <3>1. k \in 1..(top + 1) /\ k # top + 1 /\ (k > 1 => k - 1 \in 1..(top + 1) /\ k - 1 # top + 1)
      BY <2>2, <1>1
    <3>2. new[k] = cs[k] /\ (k > 1 => new[k - 1] = cs[k - 1])
      BY <1>2, <3>1
    <3>3. cs[k].attached <=> k > 1 /\ cs[k - 1].prim.kind = "none"
      BY <2>2, <1>1 DEF Nested
    <3> QED BY <3>2, <3>3
  <2> QED BY <2>1, <2>2, <1>1
<1>5. Stack(m, new)
  BY <1>2, <1>3, <1>4 DEF Stack
<1> QED BY <1>5 DEF new

\* The frames from b on go, with their cells.
LEMMA CutStack ==
  ASSUME NEW n \in Nat, NEW cs, Stack(n, cs), NEW b \in 1..Len(cs)
  PROVE  /\ Stack(cs[b].dstart, Take(cs, b - 1)) /\ Len(Take(cs, b - 1)) = b - 1
         /\ \A k \in 1..(b - 1) : Take(cs, b - 1)[k] = cs[k]
<1> DEFINE new == Take(cs, b - 1)
<1>1. cs \in Seq(Frame) /\ Len(cs) \in Nat /\ Laid(n, cs) /\ Nested(cs)
  BY DEF Stack
<1>2. new \in Seq(Frame) /\ Len(new) = b - 1 /\ \A k \in 1..(b - 1) : new[k] = cs[k]
  <2>1. b - 1 \in 0..Len(cs)
    BY <1>1
  <2> QED BY <1>1, <2>1, TakeProperties
<1> HIDE DEF new
<1>3. Laid(cs[b].dstart, new)
  <2>1. ASSUME NEW k \in 1..Len(new) PROVE FrameLaid(new[k], Top(cs[b].dstart, new, k))
    <3>1. k \in 1..(b - 1) /\ k \in 1..Len(cs) /\ k # Len(cs) /\ new[k] = cs[k]
      BY <1>1, <1>2
    <3>2. FrameLaid(cs[k], cs[k + 1].dstart)
      BY <1>1, <3>1 DEF Laid, Top
    <3>3. CASE k = b - 1
      BY <1>2, <3>1, <3>2, <3>3 DEF Top
    <3>4. CASE k # b - 1
      <4>1. k + 1 \in 1..(b - 1) /\ k # Len(new)
        BY <1>2, <3>1, <3>4
      <4> QED BY <1>2, <3>1, <3>2, <4>1 DEF Top
    <3> QED BY <3>3, <3>4
  <2> QED BY <2>1 DEF Laid
<1>4. Nested(new)
  BY <1>1, <1>2 DEF Nested
<1> QED BY <1>2, <1>3, <1>4 DEF Stack, new

\* The frames from the innermost detached one on are a resumable image.
LEMMA ImageOfStack ==
  ASSUME NEW n \in Nat, NEW cs, Stack(n, cs), NEW b \in 1..Len(cs),
         ~cs[b].attached, \A j \in (b + 1)..Len(cs) : cs[j].attached,
         cs[Len(cs)].prim.kind = "none",
         NEW data \in Seq(Cell), cs[b].dstart + Len(data) = n
  PROVE  LET es == [data |-> data, frames |-> SubSeq(cs, b, Len(cs))]
         IN es \in Estate /\ ImageLaid(es) /\ Len(es.frames) = Len(cs) - b + 1
<1> DEFINE fs == SubSeq(cs, b, Len(cs))
           top == Len(cs)
           es == [data |-> data, frames |-> fs]
<1>1. cs \in Seq(Frame) /\ top \in Nat /\ Laid(n, cs) /\ Nested(cs)
  BY DEF Stack
<1>2. fs \in Seq(Frame) /\ Len(fs) = top - b + 1
      /\ \A i \in 1..(top - b + 1) : fs[i] = cs[b + i - 1]
  BY <1>1, SubSeqType
<1>3. es \in Estate /\ es.frames = fs /\ es.data = data
  BY <1>2 DEF Estate
<1>4. fs # <<>> /\ fs[1] = cs[b]
  BY <1>1, <1>2
<1> HIDE DEF fs, es
<1>5. Laid(fs[1].dstart + Len(data), fs)
  <2> SUFFICES ASSUME NEW i \in 1..(top - b + 1)
      PROVE FrameLaid(fs[i], Top(fs[1].dstart + Len(data), fs, i))
    BY <1>2 DEF Laid
  <2> DEFINE k == b + i - 1
  <2>1. k \in 1..top /\ fs[i] = cs[k] /\ (i = top - b + 1 <=> k = top)
    BY <1>1, <1>2
  <2>2. i # top - b + 1 => fs[i + 1] = cs[k + 1]
    <3>1. i # top - b + 1 => i + 1 \in 1..(top - b + 1) /\ b + (i + 1) - 1 = k + 1
      BY <1>1
    <3> QED BY <3>1, <1>2
  <2> HIDE DEF k
  <2>3. Top(fs[1].dstart + Len(data), fs, i) = Top(n, cs, k)
    BY <1>2, <1>4, <2>1, <2>2 DEF Top
  <2> QED BY <1>1, <2>1, <2>3 DEF Laid
<1>6. ASSUME NEW i \in 1..(top - b + 1)
      PROVE fs[i].prim.kind = "none" /\ (fs[i].attached <=> i > 1)
  <2> DEFINE k == b + i - 1
  <2>1. k \in 1..top /\ fs[i] = cs[k] /\ (k = b <=> i = 1) /\ (k # b => k \in (b + 1)..top)
    <3>1. b \in Nat /\ b >= 1 /\ b <= top /\ top \in Nat /\ i \in Nat /\ 1 <= i /\ i <= top - b + 1
      BY <1>1
    <3>2. fs[i] = cs[k]
      BY <1>2
    <3> HIDE DEF top
    <3>3. k \in 1..top /\ (k = b <=> i = 1) /\ (k # b => k \in (b + 1)..top)
      BY <3>1
    <3> QED BY <3>2, <3>3
  <2>2. k # top => k + 1 \in (b + 1)..top /\ k + 1 \in 1..top /\ (k + 1) - 1 = k
    BY <2>1, <1>1
  <2> HIDE DEF k
  <2>3. k # top => cs[k + 1].attached /\ cs[k].prim.kind = "none"
    <3>1. k # top => (cs[k + 1].attached <=> k + 1 > 1 /\ cs[(k + 1) - 1].prim.kind = "none")
      BY <2>2, <1>1 DEF Nested
    <3> QED BY <2>2, <3>1
  <2>4. cs[k].prim.kind = "none"
    BY <2>3
  <2>5. cs[k].attached <=> i > 1
    BY <2>1
  <2> QED BY <2>1, <2>4, <2>5
<1>7. ImageLaid(es)
  BY <1>2, <1>3, <1>4, <1>5, <1>6 DEF ImageLaid
<1>8. es \in Estate /\ ImageLaid(es) /\ Len(es.frames) = Len(cs) - b + 1
  BY <1>2, <1>3, <1>7
<1> QED BY <1>8 DEF es, fs

\* The frames of an image are themselves a stack, which starts at its first.
LEMMA ImageStack ==
  ASSUME NEW es \in Estate, ImageLaid(es)
  PROVE  /\ es.data \in Seq(Cell) /\ es.frames \in Seq(Frame)
         /\ Len(es.data) \in Nat /\ Len(es.frames) \in Nat /\ Len(es.frames) > 0
         /\ es.frames[1].dstart \in Nat
         /\ Stack(es.frames[1].dstart + Len(es.data), es.frames)
         /\ \A i \in 1..Len(es.frames) : es.frames[1].dstart <= es.frames[i].dstart
<1>1. es.data \in Seq(Cell) /\ es.frames \in Seq(Frame) /\ es.frames # <<>>
  BY DEF Estate, ImageLaid
<1>2. Len(es.data) \in Nat /\ Len(es.frames) \in Nat /\ Len(es.frames) > 0
  BY <1>1
<1>3. es.frames[1] \in Frame
  BY <1>1, <1>2, ElementOfSeq
<1>4. es.frames[1].dstart \in Nat
  BY <1>3 DEF Frame
<1>5. Nested(es.frames)
  <2> SUFFICES ASSUME NEW k \in 1..Len(es.frames)
      PROVE es.frames[k].attached <=> k > 1 /\ es.frames[k - 1].prim.kind = "none"
    BY DEF Nested
  <2>1. k > 1 => k - 1 \in 1..Len(es.frames)
    BY <1>2
  <2> QED BY <2>1 DEF ImageLaid
<1>6. Stack(es.frames[1].dstart + Len(es.data), es.frames)
  BY <1>1, <1>5 DEF Stack, ImageLaid
<1>7. ASSUME NEW i \in 1..Len(es.frames)
      PROVE es.frames[1].dstart <= es.frames[i].dstart
  <2>1. es.frames[1].dstart + Len(es.data) \in Nat /\ 1 \in 1..i
    BY <1>2, <1>4
  <2> QED BY <1>6, <2>1, StartsOrdered
<1> QED BY <1>1, <1>2, <1>4, <1>6, <1>7

\* These frames are those of an image moved to start at cell n, with one more
\* operand counted in the last.
Moved(fs, es, n) ==
  /\ fs \in Seq(Frame) /\ Len(fs) = Len(es.frames)
  /\ \A i \in 1..Len(fs) :
       /\ fs[i].dstart = es.frames[i].dstart - (es.frames[1].dstart - n)
       /\ fs[i].nv = es.frames[i].nv /\ fs[i].vals = fs[i].dstart
       /\ fs[i].prim = es.frames[i].prim /\ fs[i].attached = es.frames[i].attached
       /\ fs[i].want = es.frames[i].want + (IF i = Len(fs) THEN 1 ELSE 0)

LEMMA MovedLaid ==
  ASSUME NEW es \in Estate, ImageLaid(es), NEW n \in Nat, NEW fs, Moved(fs, es, n),
         NEW i \in 1..Len(fs)
  PROVE  /\ FrameLaid(fs[i], IF i = Len(fs) THEN n + Len(es.data) + 1
                             ELSE fs[i + 1].dstart)
         /\ i = 1 => fs[i].dstart = n
         /\ fs[i].prim.kind = "none" /\ (fs[i].attached <=> i > 1)
<1> DEFINE g == es.frames
           top == Top(g[1].dstart + Len(es.data), g, i)
<1>1. i \in 1..Len(g) /\ Len(fs) = Len(g)
  BY DEF Moved
<1>2. /\ fs[i].dstart = g[i].dstart - (g[1].dstart - n)
      /\ fs[i].nv = g[i].nv /\ fs[i].vals = fs[i].dstart
      /\ fs[i].prim = g[i].prim /\ fs[i].attached = g[i].attached
      /\ fs[i].want = g[i].want + (IF i = Len(fs) THEN 1 ELSE 0)
  BY DEF Moved
<1>3. g \in Seq(Frame) /\ g[1].dstart \in Nat /\ Len(es.data) \in Nat /\ Len(g) \in Nat
  BY ImageStack
<1>4. g[i].dstart \in Nat /\ g[i].nv \in Nat /\ g[i].want \in Nat
  <2>1. g[i] \in Frame
    BY <1>1, <1>3, ElementOfSeq
  <2> QED BY <2>1 DEF Frame
<1>5. FrameLaid(g[i], top)
  BY <1>1 DEF ImageLaid, Laid
<1> DEFINE a == g[i].dstart
           b == g[i].nv
           c == g[i].want
           f == g[1].dstart
           l == Len(es.data)
<1>6. g[i].dstart + g[i].nv + g[i].want <= top
  BY <1>5 DEF FrameLaid
<1>7. g[i].prim.kind = "none" /\ (g[i].attached <=> i > 1)
  BY <1>1 DEF ImageLaid
<1>8. Pending(fs[i].prim) = 0
  BY <1>2, <1>7 DEF Pending
<1>9. CASE i = Len(fs)
  <2>1. top = g[1].dstart + Len(es.data)
    BY <1>1, <1>9 DEF Top
  <2> HIDE DEF g, top
  <2>2. fs[i].dstart + fs[i].nv + fs[i].want <= n + Len(es.data) + 1
    <3>1. fs[i].dstart = g[i].dstart - (g[1].dstart - n) /\ fs[i].nv = g[i].nv
          /\ fs[i].want = g[i].want + 1
      BY <1>2, <1>9
    <3>2. g[i].dstart + g[i].nv + g[i].want <= g[1].dstart + Len(es.data)
      BY <1>6, <2>1
    <3>3. (g[i].dstart - (g[1].dstart - n)) + g[i].nv + (g[i].want + 1)
            <= n + Len(es.data) + 1
      <4>1. a \in Nat /\ b \in Nat /\ c \in Nat /\ f \in Nat /\ l \in Nat /\ a + b + c <= f + l
        BY <1>3, <1>4, <3>2
      <4> HIDE DEF a, b, c, f, l
      <4>2. (a - (f - n)) + b + (c + 1) <= n + l + 1
        BY <4>1
      <4> QED BY <4>2 DEF a, b, c, f, l
    <3> QED BY <3>1, <3>3
  <2>3. fs[i].want >= 0
    BY <1>2, <1>4, <1>9
  <2>4. i = 1 => fs[i].dstart = n
    BY <1>2, <1>3
  <2> QED BY <1>2, <1>7, <1>8, <1>9, <2>2, <2>3, <2>4 DEF FrameLaid
<1>10. CASE i # Len(fs)
  <2>1. top = g[i + 1].dstart /\ i + 1 \in 1..Len(g)
    BY <1>1, <1>10, <1>3 DEF Top
  <2>2. g[i + 1].dstart \in Nat
    <3>1. g[i + 1] \in Frame
      BY <2>1, <1>3, ElementOfSeq
    <3> QED BY <3>1 DEF Frame
  <2>3. fs[i + 1].dstart = g[i + 1].dstart - (g[1].dstart - n)
    BY <2>1, <1>1 DEF Moved
  <2> HIDE DEF g, top
  <2>4. fs[i].dstart + fs[i].nv + fs[i].want <= fs[i + 1].dstart
    <3> DEFINE e == g[i + 1].dstart
    <3>1. a \in Nat /\ b \in Nat /\ c \in Nat /\ f \in Nat /\ e \in Nat /\ a + b + c <= e
      BY <1>3, <1>4, <1>6, <2>1, <2>2
    <3>2. fs[i].dstart = a - (f - n) /\ fs[i].nv = b /\ fs[i].want = c
          /\ fs[i + 1].dstart = e - (f - n)
      BY <1>2, <1>4, <1>10, <2>3
    <3> HIDE DEF a, b, c, f, e
    <3>3. (a - (f - n)) + b + c <= e - (f - n)
      BY <3>1
    <3> QED BY <3>2, <3>3
  <2>5. fs[i].want >= 0
    BY <1>2, <1>4, <1>10
  <2>6. i = 1 => fs[i].dstart = n
    BY <1>2, <1>3
  <2> QED BY <1>2, <1>7, <1>8, <1>10, <2>4, <2>5, <2>6 DEF FrameLaid
<1> QED BY <1>9, <1>10

\* An image goes on top of a stack, if C code runs it.
LEMMA PasteStack ==
  ASSUME NEW n \in Nat, NEW cs, Stack(n, cs), NEW fs,
         NEW es \in Estate, ImageLaid(es), Moved(fs, es, n),
         cs # <<>> => cs[Len(cs)].prim.kind # "none"
  PROVE  Stack(n + Len(es.data) + 1, cs \o fs)
<1> DEFINE new == cs \o fs
           c == Len(cs)
           e == Len(fs)
           m == n + Len(es.data) + 1
<1>1. cs \in Seq(Frame) /\ c \in Nat /\ Laid(n, cs) /\ Nested(cs)
  BY DEF Stack
<1>2. fs \in Seq(Frame) /\ e \in Nat /\ e > 0
  BY ImageStack DEF Moved
<1>3. new \in Seq(Frame) /\ Len(new) = c + e
      /\ \A k \in 1..(c + e) : new[k] = IF k <= c THEN cs[k] ELSE fs[k - c]
  BY <1>1, <1>2, ConcatProperties
<1>6. \A i \in 1..e : fs[i].prim.kind = "none" /\ (fs[i].attached <=> i > 1)
  BY MovedLaid
<1>7. \A i \in 1..e : FrameLaid(fs[i], IF i = e THEN m ELSE fs[i + 1].dstart)
  BY MovedLaid
<1>8. fs[1].dstart = n
  BY <1>2, MovedLaid
<1> HIDE DEF new, e, c, m
<1>9. Laid(m, new)
  <2> SUFFICES ASSUME NEW k \in 1..(c + e) PROVE FrameLaid(new[k], Top(m, new, k))
    BY <1>3 DEF Laid
  <2>1. CASE k > c
    <3>1. k - c \in 1..e /\ (k - c = e <=> k = c + e) /\ (k + 1) - c = (k - c) + 1
      BY <2>1, <1>1, <1>2
    <3>2. Top(m, new, k) = IF k - c = e THEN m ELSE fs[(k - c) + 1].dstart
      <4>1. k # c + e => k + 1 \in 1..(c + e) /\ k + 1 > c
        BY <2>1, <1>1, <1>2
      <4> QED BY <2>1, <3>1, <4>1, <1>1, <1>3, <1>2 DEF Top
    <3>3. new[k] = fs[k - c]
      BY <2>1, <1>1, <1>3, <1>2
    <3> QED BY <3>1, <3>2, <3>3, <1>7
  <2>2. CASE k = c
    <3>1. Top(m, new, k) = n
      <4>1. k + 1 \in 1..(c + e) /\ k # c + e /\ (k + 1) - c = 1 /\ ~(k + 1 <= c)
        BY <2>2, <1>1, <1>2
      <4> QED BY <4>1, <1>3, <1>8 DEF Top
    <3>2. FrameLaid(cs[c], n)
      BY <2>2, <1>1 DEF Laid, Top, c
    <3> QED BY <2>2, <3>1, <3>2, <1>1, <1>3
  <2>3. CASE k < c
    <3>1. k \in 1..c /\ k + 1 \in 1..(c + e) /\ k # c + e /\ k + 1 <= c
      BY <2>3, <1>1, <1>2
    <3>2. Top(m, new, k) = Top(n, cs, k)
      BY <2>3, <3>1, <1>1, <1>3 DEF Top, c
    <3>3. FrameLaid(cs[k], Top(n, cs, k))
      BY <3>1, <1>1 DEF Laid, c
    <3> QED BY <2>3, <3>1, <3>2, <3>3, <1>3
  <2> QED BY <2>1, <2>2, <2>3, <1>1
<1>10. Nested(new)
  <2> SUFFICES ASSUME NEW k \in 1..(c + e)
      PROVE new[k].attached <=> k > 1 /\ new[k - 1].prim.kind = "none"
    BY <1>3 DEF Nested
  <2>1. CASE k <= c
    <3>1. k \in 1..c /\ (k > 1 => k - 1 \in 1..(c + e) /\ k - 1 <= c)
      BY <2>1, <1>1, <1>2
    <3>2. new[k] = cs[k] /\ (k > 1 => new[k - 1] = cs[k - 1])
      BY <2>1, <3>1, <1>3
    <3>3. cs[k].attached <=> k > 1 /\ cs[k - 1].prim.kind = "none"
      BY <3>1, <1>1 DEF Nested, c
    <3> QED BY <3>2, <3>3
  <2>2. CASE k > c + 1
    <3>1. k - c \in 1..e /\ k - c > 1 /\ k > 1 /\ (k - 1) - c \in 1..e
          /\ k - 1 \in 1..(c + e) /\ ~(k <= c) /\ ~(k - 1 <= c)
      BY <2>2, <1>1, <1>2
    <3>2. new[k] = fs[k - c] /\ new[k - 1] = fs[(k - 1) - c]
      BY <3>1, <1>3
    <3> QED BY <3>1, <3>2, <1>6
  <2>3. CASE k = c + 1
    <3>1. k - c = 1 /\ 1 \in 1..e /\ ~(k <= c)
          /\ (k > 1 => k - 1 = c /\ c \in 1..(c + e) /\ c \in 1..c /\ cs # <<>>)
      BY <2>3, <1>1, <1>2 DEF c
    <3>2. new[k] = fs[1] /\ (k > 1 => new[k - 1] = cs[c])
      BY <3>1, <1>1, <1>3
    <3>3. ~fs[1].attached
      BY <3>1, <1>6
    <3> QED BY <3>1, <3>2, <3>3 DEF c
  <2> QED BY <2>1, <2>2, <2>3, <1>1
<1>11. Stack(m, new)
  BY <1>3, <1>9, <1>10 DEF Stack
<1> QED BY <1>11 DEF m, new

\* break_pipe() loops stay where they are while the frames below b keep their
\* C code.
LEMMA LoopsKeep ==
  ASSUME NEW ps, NEW cs, LoopsIn(ps, cs), NEW new, NEW b \in 0..Len(new),
         \A i \in 1..Len(ps) : ps[i].at <= b,
         \A k \in 1..b : cs[k].prim.kind = "prim" => new[k].prim.kind = "prim",
         \A i \in 1..Len(ps) : ps[i].at \in Nat, Len(new) \in Nat
  PROVE  LoopsIn(ps, new)
<1> SUFFICES ASSUME NEW i \in 1..Len(ps)
    PROVE /\ ps[i].lists # <<>> /\ ps[i].at <= Len(new)
          /\ ps[i].at > 0 => new[ps[i].at].prim.kind = "prim"
          /\ \A j \in 1..(i - 1) : ps[j].at < ps[i].at
  BY DEF LoopsIn
<1>1. /\ ps[i].lists # <<>>
      /\ ps[i].at > 0 => cs[ps[i].at].prim.kind = "prim"
      /\ \A j \in 1..(i - 1) : ps[j].at < ps[i].at
  BY DEF LoopsIn
<1>2. ps[i].at \in Nat /\ ps[i].at <= b /\ ps[i].at <= Len(new)
  OBVIOUS
<1>3. ps[i].at > 0 => ps[i].at \in 1..b
  BY <1>2
<1> QED BY <1>1, <1>2, <1>3

-----------------------------------------------------------------------------
(* Suspended programs.                                                     *)

\* A program that can be resumed on stacks of these sizes.
Good(es, ds, cz) ==
  /\ es \in Estate /\ ImageLaid(es)
  /\ Len(es.data) <= ds /\ Len(es.frames) <= cz
GoodList(list, ds, cz) ==
  list \in Seq(Estate) /\ \A i \in 1..Len(list) : Good(list[i], ds, cz)
GoodQueue(q, ds, cz) ==
  q \in [Queues -> Seq(Estate)] /\ \A x \in Queues : GoodList(q[x], ds, cz)
Pipe == [at : Nat, lists : Seq(Seq(Estate))]
GoodPipe(p, ds, cz) ==
  p \in Pipe /\ \A i \in 1..Len(p.lists) : GoodList(p.lists[i], ds, cz)
GoodPipes(ps, ds, cz) ==
  ps \in Seq(Pipe) /\ \A k \in 1..Len(ps) : GoodPipe(ps[k], ds, cz)

LEMMA GoodListElement ==
  ASSUME NEW ds, NEW cz, NEW list, GoodList(list, ds, cz), NEW i \in 1..Len(list)
  PROVE  Good(list[i], ds, cz)
BY DEF GoodList

LEMMA GoodListGrow ==
  ASSUME NEW ds \in Nat, NEW cz \in Nat, NEW ds2 \in Nat, NEW cz2 \in Nat,
         ds <= ds2, cz <= cz2, NEW list, GoodList(list, ds, cz)
  PROVE  GoodList(list, ds2, cz2)
<1> SUFFICES ASSUME NEW i \in 1..Len(list) PROVE Good(list[i], ds2, cz2)
  BY DEF GoodList
<1>1. Good(list[i], ds, cz)
  BY DEF GoodList
<1>2. Len(list[i].data) \in Nat /\ Len(list[i].frames) \in Nat
  BY <1>1, ImageStack DEF Good
<1> QED BY <1>1, <1>2 DEF Good

LEMMA GoodQueueGrow ==
  ASSUME NEW ds \in Nat, NEW cz \in Nat, NEW ds2 \in Nat, NEW cz2 \in Nat,
         ds <= ds2, cz <= cz2, NEW q, GoodQueue(q, ds, cz)
  PROVE  GoodQueue(q, ds2, cz2)
BY GoodListGrow DEF GoodQueue

LEMMA GoodPipesGrow ==
  ASSUME NEW ds \in Nat, NEW cz \in Nat, NEW ds2 \in Nat, NEW cz2 \in Nat,
         ds <= ds2, cz <= cz2, NEW ps, GoodPipes(ps, ds, cz)
  PROVE  GoodPipes(ps, ds2, cz2)
BY GoodListGrow DEF GoodPipes, GoodPipe

\* Forgetting the variable pointers changes nothing else.
LEMMA GoodForget ==
  ASSUME NEW ds, NEW cz, NEW es, Good(es, ds, cz)
  PROVE  Good(Forget(es), ds, cz)
<1> DEFINE fs == es.frames
           gs == [i \in DOMAIN fs |-> [fs[i] EXCEPT !.live = FALSE]]
<1>1. es \in Estate /\ ImageLaid(es) /\ fs \in Seq(Frame) /\ Len(fs) \in Nat
  BY DEF Good, Estate
<1>2. \A i \in 1..Len(fs) : fs[i] \in Frame
  BY <1>1, ElementOfSeq
<1>3. DOMAIN fs = 1..Len(fs)
  BY <1>1
<1>4. Forget(es) = [data |-> es.data, frames |-> gs]
  <2>1. Forget(es) = [es EXCEPT !.frames = gs]
    BY Zenon DEF Forget
  <2> HIDE DEF gs
  <2> QED BY <1>1, <2>1 DEF Estate
<1>5. \A i \in 1..Len(fs) : gs[i] = [fs[i] EXCEPT !.live = FALSE]
  BY <1>3
<1>6. \A i \in 1..Len(fs) : [fs[i] EXCEPT !.live = FALSE] \in Frame
  BY <1>2 DEF Frame
<1>7. gs \in Seq(Frame) /\ Len(gs) = Len(fs)
  <2>1. gs = [i \in 1..Len(fs) |-> [fs[i] EXCEPT !.live = FALSE]]
    BY <1>3
  <2> HIDE DEF gs, fs
  <2>2. \A i \in 1..Len(fs) : gs[i] \in Frame
    BY <1>5, <1>6
  <2>3. gs \in [1..Len(fs) -> Frame]
    BY <2>1, <2>2
  <2> QED BY <2>3, <1>1
<1>8. \A i \in 1..Len(fs) :
        /\ gs[i].dstart = fs[i].dstart /\ gs[i].nv = fs[i].nv /\ gs[i].vals = fs[i].vals
        /\ gs[i].want = fs[i].want /\ gs[i].prim = fs[i].prim
        /\ gs[i].attached = fs[i].attached
  BY <1>2, <1>5 DEF Frame
<1> HIDE DEF gs, fs
<1>9. Forget(es) \in Estate
  BY <1>1, <1>4, <1>7 DEF Estate
<1>10. fs # <<>> /\ Laid(fs[1].dstart + Len(es.data), fs)
  BY <1>1 DEF ImageLaid, fs
<1>11. \A i \in 1..Len(fs) : fs[i].prim.kind = "none" /\ (fs[i].attached <=> i > 1)
  BY <1>1 DEF ImageLaid, fs
<1>12. gs # <<>> /\ Laid(gs[1].dstart + Len(es.data), gs)
  <2>1. Len(fs) > 0 /\ gs # <<>>
    BY <1>1, <1>7, <1>10
  <2> DEFINE m == fs[1].dstart + Len(es.data)
  <2>2. gs[1].dstart + Len(es.data) = m
    BY <1>8, <2>1, <1>1
  <2> SUFFICES ASSUME NEW i \in 1..Len(fs) PROVE FrameLaid(gs[i], Top(m, gs, i))
    BY <1>7, <2>1, <2>2 DEF Laid
  <2> HIDE DEF m
  <2>3. FrameLaid(fs[i], Top(m, fs, i))
    BY <1>10 DEF Laid, m
  <2>4. Top(m, gs, i) = Top(m, fs, i)
    <3>1. i # Len(fs) => i + 1 \in 1..Len(fs)
      BY <1>1
    <3> QED BY <3>1, <1>7, <1>8 DEF Top
  <2> QED BY <1>8, <2>3, <2>4 DEF FrameLaid
<1>13. ImageLaid(Forget(es))
  <2>1. Forget(es).frames = gs /\ Forget(es).data = es.data
    BY <1>4
  <2> QED BY <2>1, <1>7, <1>8, <1>11, <1>12 DEF ImageLaid
<1>14. Len(Forget(es).data) <= ds /\ Len(Forget(es).frames) <= cz
  BY <1>4, <1>7 DEF Good, fs
<1> QED BY <1>9, <1>13, <1>14 DEF Good

LEMMA GoodForgetAll ==
  ASSUME NEW ds, NEW cz, NEW list, GoodList(list, ds, cz)
  PROVE  GoodList(ForgetAll(list), ds, cz)
<1>1. list \in Seq(Estate) /\ Len(list) \in Nat /\ DOMAIN list = 1..Len(list)
  BY DEF GoodList
<1>2. \A i \in 1..Len(list) : Good(Forget(list[i]), ds, cz)
  BY GoodForget DEF GoodList
<1> DEFINE new == ForgetAll(list)
<1>3. new = [i \in 1..Len(list) |-> Forget(list[i])]
  BY <1>1 DEF ForgetAll
<1>4. new \in [1..Len(list) -> Estate]
  BY <1>2, <1>3 DEF Good
<1>5. new \in Seq(Estate) /\ Len(new) = Len(list)
  BY <1>1, <1>4
<1>6. \A i \in 1..Len(list) : Good(new[i], ds, cz)
  BY <1>2, <1>3
<1> QED BY <1>5, <1>6 DEF GoodList

\* What double_dstack() does to the programs break_pipe() holds.
LEMMA GoodLeft ==
  ASSUME NEW ds, NEW cz, NEW ps, GoodPipes(ps, ds, cz), NEW newsize
  PROVE  /\ GoodPipes(Left(ps, newsize), ds, cz)
         /\ Len(Left(ps, newsize)) = Len(ps)
         /\ \A k \in 1..Len(ps) :
              /\ Left(ps, newsize)[k].at = ps[k].at
              /\ ps[k].lists # <<>> => Left(ps, newsize)[k].lists # <<>>
<1>1. CASE newsize = dsize
  BY <1>1 DEF Left
<1>2. CASE newsize # dsize
  <2> DEFINE new == Left(ps, newsize)
             moved(p) == [p EXCEPT !.lists = [j \in DOMAIN p.lists |-> ForgetAll(p.lists[j])]]
  <2>1. ps \in Seq(Pipe) /\ Len(ps) \in Nat /\ DOMAIN ps = 1..Len(ps)
    BY DEF GoodPipes
  <2>2. ASSUME NEW p, GoodPipe(p, ds, cz)
        PROVE /\ GoodPipe(moved(p), ds, cz) /\ moved(p).at = p.at
              /\ p.lists # <<>> => moved(p).lists # <<>>
    <3> DEFINE ls == p.lists
               ms == [j \in DOMAIN ls |-> ForgetAll(ls[j])]
    <3>1. p \in Pipe /\ ls \in Seq(Seq(Estate)) /\ Len(ls) \in Nat /\ DOMAIN ls = 1..Len(ls)
      BY <2>2 DEF GoodPipe, Pipe
    <3>2. \A j \in 1..Len(ls) : GoodList(ForgetAll(ls[j]), ds, cz)
      BY <2>2, GoodForgetAll DEF GoodPipe
    <3>3. ms = [j \in 1..Len(ls) |-> ForgetAll(ls[j])]
      BY <3>1
    <3>4. moved(p).at = p.at /\ moved(p).lists = ms /\ moved(p) = [at |-> p.at, lists |-> ms]
      <4>1. moved(p) = [p EXCEPT !.lists = ms]
        BY Zenon
      <4> HIDE DEF ms, moved
      <4> QED BY <3>1, <4>1 DEF Pipe
    <3> HIDE DEF ls, ms, moved
    <3>5. ms \in [1..Len(ls) -> Seq(Estate)]
      BY <3>2, <3>3 DEF GoodList
    <3>6. ms \in Seq(Seq(Estate)) /\ Len(ms) = Len(ls)
      BY <3>1, <3>5
    <3>7. moved(p) \in Pipe
      BY <3>1, <3>4, <3>6 DEF Pipe
    <3>8. \A j \in 1..Len(ms) : GoodList(ms[j], ds, cz)
      BY <3>2, <3>3, <3>6
    <3>9. ls # <<>> => ms # <<>>
      BY <3>1, <3>6
    <3> QED BY <3>4, <3>7, <3>8, <3>9 DEF GoodPipe, ls
  <2>3. new = [k \in 1..Len(ps) |-> moved(ps[k])]
    BY <1>2, <2>1 DEF Left
  <2>4. \A k \in 1..Len(ps) : GoodPipe(ps[k], ds, cz)
    BY DEF GoodPipes
  <2> HIDE DEF moved, new
  <2>5. \A k \in 1..Len(ps) : /\ GoodPipe(new[k], ds, cz) /\ new[k].at = ps[k].at
                              /\ ps[k].lists # <<>> => new[k].lists # <<>>
    BY <2>2, <2>3, <2>4
  <2>6. new \in [1..Len(ps) -> Pipe]
    BY <2>3, <2>5 DEF GoodPipe
  <2>7. new \in Seq(Pipe) /\ Len(new) = Len(ps)
    BY <2>1, <2>6
  <2>8. GoodPipes(new, ds, cz)
    BY <2>5, <2>7 DEF GoodPipes
  <2> QED BY <2>5, <2>7, <2>8 DEF new
<1> QED BY <1>1, <1>2

-----------------------------------------------------------------------------
(* The inductive invariant, and what the ways of changing a state preserve. *)

State(d, ds, cs, cz, q, ps) ==
  /\ d \in Seq(Cell) /\ ds \in Nat /\ cz \in Nat
  /\ Len(d) <= ds /\ InitSize <= ds /\ Len(cs) <= cz /\ InitSize <= cz
  /\ Stack(Len(d), cs)
  /\ GoodQueue(q, ds, cz) /\ GoodPipes(ps, ds, cz) /\ LoopsIn(ps, cs)
IInv == State(dstack, dsize, cstack, csize, queue, pipes) /\ brk \in BOOLEAN

\* The loops of ps2 are those of ps.
Alike(ps, ps2) ==
  /\ Len(ps2) = Len(ps)
  /\ \A k \in 1..Len(ps) : /\ ps2[k].at = ps[k].at
                           /\ ps[k].lists # <<>> => ps2[k].lists # <<>>

LEMMA AlikeLoops ==
  ASSUME NEW ps, NEW ps2, NEW cs, Alike(ps, ps2), LoopsIn(ps, cs), Len(ps) \in Nat
  PROVE  LoopsIn(ps2, cs)
<1> SUFFICES ASSUME NEW i \in 1..Len(ps)
    PROVE /\ ps2[i].lists # <<>> /\ ps2[i].at <= Len(cs)
          /\ ps2[i].at > 0 => cs[ps2[i].at].prim.kind = "prim"
          /\ \A j \in 1..(i - 1) : ps2[j].at < ps2[i].at
  BY DEF LoopsIn, Alike
<1>1. \A j \in 1..(i - 1) : j \in 1..Len(ps)
  OBVIOUS
<1> QED BY <1>1 DEF LoopsIn, Alike

LEMMA StateFacts ==
  ASSUME NEW d, NEW ds, NEW cs, NEW cz, NEW q, NEW ps, State(d, ds, cs, cz, q, ps)
  PROVE  /\ Len(d) \in Nat /\ Len(cs) \in Nat /\ cs \in Seq(Frame) /\ d \in Seq(Cell)
         /\ Len(ps) \in Nat /\ \A i \in 1..Len(ps) : ps[i].at \in Nat
         /\ ds \in Nat /\ cz \in Nat /\ InitSize \in Nat /\ InitSize > 0
<1>1. ps \in Seq(Pipe) /\ cs \in Seq(Frame)
  BY DEF State, GoodPipes, Stack
<1>2. Len(ps) \in Nat /\ \A i \in 1..Len(ps) : ps[i] \in Pipe
  BY <1>1, ElementOfSeq
<1>3. \A i \in 1..Len(ps) : ps[i].at \in Nat
  BY <1>2 DEF Pipe
<1> QED BY <1>1, <1>2, <1>3, SizesAssumption DEF State

\* The last frame.
LEMMA TopFacts ==
  ASSUME NEW n \in Nat, NEW cs, Stack(n, cs), Len(cs) > 0, NEW f, f = cs[Len(cs)]
  PROVE  /\ cs # <<>> /\ Len(cs) \in 1..Len(cs) /\ f \in Frame
         /\ f.dstart \in Nat /\ f.nv \in Nat /\ f.want \in Nat /\ f.vals = f.dstart
         /\ f.prim \in Prim /\ Pending(f.prim) \in Nat /\ f.want >= Pending(f.prim)
         /\ f.dstart + f.nv + f.want <= n
<1>1. cs \in Seq(Frame) /\ Len(cs) \in Nat /\ cs # <<>>
  BY DEF Stack
<1>2. f \in Frame
  BY <1>1, ElementOfSeq
<1>3. FrameLaid(f, n)
  BY <1>1 DEF Stack, Laid, Top
<1>4. f.prim \in Prim /\ f.dstart \in Nat /\ f.nv \in Nat /\ f.want \in Nat
  BY <1>2 DEF Frame
<1>5. f.prim.argc \in Nat /\ Pending(f.prim) \in Nat
  BY <1>4 DEF Prim, Pending, Taken
<1> QED BY <1>1, <1>2, <1>3, <1>4, <1>5 DEF FrameLaid

\* The first frame of the innermost program.
LEMMA BaseFacts ==
  ASSUME IInv, cpos > 0
  PROVE  /\ Base \in 1..cpos /\ ~cstack[Base].attached
         /\ \A j \in (Base + 1)..cpos : cstack[j].attached
         /\ cstack[Base].dstart \in Nat /\ cstack[Base].dstart <= Ctop.dstart
<1>1. Stack(dpos, cstack) /\ dpos \in Nat /\ cpos \in Nat /\ cstack \in Seq(Frame)
  BY StateFacts DEF IInv, State, dpos, cpos
<1>2. cstack # <<>> /\ Nested(cstack)
  BY <1>1 DEF cpos, Stack
<1>3. /\ Base \in 1..cpos /\ ~cstack[Base].attached
      /\ \A j \in (Base + 1)..cpos : cstack[j].attached
  BY <1>1, <1>2, BaseExists DEF Base, cpos
<1>4. cstack[Base] \in Frame
  BY <1>1, <1>3, ElementOfSeq DEF cpos
<1>5. cstack[Base].dstart <= Ctop.dstart
  <2>1. cpos \in 1..Len(cstack) /\ Base \in 1..cpos
    BY <1>1, <1>3 DEF cpos
  <2> QED BY <1>1, <2>1, StartsOrdered DEF Ctop
<1> QED BY <1>3, <1>4, <1>5 DEF Frame

\* No break_pipe() is in progress in the innermost program but, perhaps, the
\* one that has the control.
LEMMA LoopsBelow ==
  ASSUME IInv, cpos > 0, Running \/ ~Breaking
  PROVE  /\ \A i \in 1..Len(pipes) : pipes[i].at < Base
         /\ \A i \in 1..Len(pipes) : pipes[i].at < cpos
<1>1. cpos \in Nat /\ Len(pipes) \in Nat /\ \A i \in 1..Len(pipes) : pipes[i].at \in Nat
  BY StateFacts DEF IInv, cpos
<1>2. LoopsIn(pipes, cstack) /\ Nested(cstack)
  BY DEF IInv, State, Stack
<1>3. ASSUME NEW i \in 1..Len(pipes) PROVE pipes[i].at < cpos
  <2>1. pipes[i].at <= cpos /\ (pipes[i].at > 0 => cstack[pipes[i].at].prim.kind = "prim")
    BY <1>2 DEF LoopsIn, cpos
  <2> SUFFICES ASSUME pipes[i].at = cpos PROVE FALSE
    BY <1>1, <2>1
  <2>2. CASE Running
    BY <2>1, <2>2 DEF Running, Ctop
  <2>3. CASE ~Breaking
    <3>1. i # Len(pipes)
      BY <2>3, <1>1 DEF Breaking
    <3>2. i \in 1..(Len(pipes) - 1) /\ Len(pipes) \in 1..Len(pipes)
      BY <3>1, <1>1
    <3>3. pipes[i].at < pipes[Len(pipes)].at /\ pipes[Len(pipes)].at <= cpos
      BY <3>2, <1>2 DEF LoopsIn, cpos
    <3> QED BY <1>1, <3>2, <3>3
  <2> QED BY <2>2, <2>3
<1>4. ASSUME NEW i \in 1..Len(pipes) PROVE pipes[i].at < Base
  <2>1. Base \in 1..cpos /\ \A j \in (Base + 1)..cpos : cstack[j].attached
    BY BaseFacts
  <2>2. pipes[i].at \in Nat /\ pipes[i].at < cpos
    BY <1>1, <1>3
  <2>3. pipes[i].at > 0 => cstack[pipes[i].at].prim.kind = "prim"
    BY <1>2 DEF LoopsIn
  <2> SUFFICES ASSUME pipes[i].at >= Base PROVE FALSE
    BY <2>1, <2>2, <1>1
  <2> DEFINE k == pipes[i].at + 1
  <2>4. k \in (Base + 1)..cpos /\ k \in 1..Len(cstack) /\ k - 1 = pipes[i].at /\ k > 1
    BY <2>1, <2>2, <1>1 DEF cpos
  <2> HIDE DEF k
  <2>5. cstack[k - 1].prim.kind = "none"
    BY <2>1, <2>4, <1>2 DEF Nested
  <2> QED BY <2>1, <2>2, <2>3, <2>4, <2>5
<1> QED BY <1>3, <1>4

\* The last frame computes.
LEMMA RetopState ==
  ASSUME NEW d, NEW ds, NEW cs, NEW cz, NEW q, NEW ps, State(d, ds, cs, cz, q, ps),
         Len(cs) > 0, NEW w \in Nat, NEW pr \in Prim, w >= Pending(pr),
         NEW d2 \in Seq(Cell), NEW ds2 \in Nat, ds <= ds2, Len(d2) <= ds2,
         cs[Len(cs)].dstart + cs[Len(cs)].nv + w <= Len(d2),
         NEW ps2, GoodPipes(ps2, ds, cz), Alike(ps, ps2),
         pr.kind = "prim" \/ \A i \in 1..Len(ps) : ps[i].at < Len(cs)
  PROVE  State(d2, ds2, [cs EXCEPT ![Len(cs)].want = w, ![Len(cs)].prim = pr],
               cz, q, ps2)
<1> DEFINE new == [cs EXCEPT ![Len(cs)].want = w, ![Len(cs)].prim = pr]
           c == Len(cs)
<1>1. /\ Len(d) \in Nat /\ c \in Nat /\ cs \in Seq(Frame) /\ cs # <<>>
      /\ ds \in Nat /\ cz \in Nat /\ Len(d2) \in Nat
      /\ Len(ps) \in Nat /\ \A i \in 1..Len(ps) : ps[i].at \in Nat
  BY StateFacts
<1>2. Stack(Len(d2), new)
  BY <1>1, RetopStack DEF State
<1>3. Len(new) = c /\ \A k \in 1..c : k # c => new[k] = cs[k]
  BY <1>1
<1>4. new[c].prim = pr
  <2>1. cs[c] \in Frame /\ c \in 1..c
    BY <1>1, ElementOfSeq
  <2> QED BY <1>1, <2>1 DEF Frame
<1>5. LoopsIn(ps, cs) /\ \A i \in 1..Len(ps) : ps[i].at <= c
  BY DEF State, LoopsIn
<1> HIDE DEF new
<1>6. LoopsIn(ps, new)
  <2>1. CASE pr.kind = "prim"
    <3>1. \A k \in 1..c : cs[k].prim.kind = "prim" => new[k].prim.kind = "prim"
      BY <2>1, <1>3, <1>4
    <3>2. c \in 0..Len(new)
      BY <1>1, <1>3
    <3> QED BY <1>1, <1>3, <1>5, <3>1, <3>2, LoopsKeep
  <2>2. CASE \A i \in 1..Len(ps) : ps[i].at < c
    <3>1. \A k \in 1..(c - 1) : cs[k].prim.kind = "prim" => new[k].prim.kind = "prim"
      BY <1>1, <1>3
    <3>2. c - 1 \in 0..Len(new) /\ \A i \in 1..Len(ps) : ps[i].at <= c - 1
      BY <2>2, <1>1, <1>3
    <3> QED BY <1>1, <1>3, <1>5, <3>1, <3>2, LoopsKeep
  <2> QED BY <2>1, <2>2
<1>7. LoopsIn(ps2, new)
  BY <1>1, <1>6, AlikeLoops
<1>8. GoodQueue(q, ds2, cz) /\ GoodPipes(ps2, ds2, cz)
  BY <1>1, GoodQueueGrow, GoodPipesGrow DEF State
<1>9. InitSize <= ds2 /\ Len(new) <= cz /\ InitSize <= cz
  BY <1>1, <1>3, StateFacts DEF State
<1>10. State(d2, ds2, new, cz, q, ps2)
  BY <1>1, <1>2, <1>7, <1>8, <1>9 DEF State
<1> QED BY <1>10 DEF new

\* The frames from b on go; q2 may hold their image.
LEMMA CutState ==
  ASSUME NEW d, NEW ds, NEW cs, NEW cz, NEW q, NEW ps, State(d, ds, cs, cz, q, ps),
         NEW b \in 1..Len(cs), \A i \in 1..Len(ps) : ps[i].at < b,
         NEW q2, GoodQueue(q2, ds, cz)
  PROVE  State(Take(d, cs[b].dstart), ds, Take(cs, b - 1), cz, q2, ps)
<1> DEFINE new == Take(cs, b - 1)
           n == cs[b].dstart
<1>1. /\ Len(d) \in Nat /\ Len(cs) \in Nat /\ cs \in Seq(Frame) /\ d \in Seq(Cell)
      /\ ds \in Nat /\ cz \in Nat
      /\ Len(ps) \in Nat /\ \A i \in 1..Len(ps) : ps[i].at \in Nat
  BY StateFacts
<1>2. /\ Stack(n, new) /\ Len(new) = b - 1 /\ \A k \in 1..(b - 1) : new[k] = cs[k]
  BY <1>1, CutStack DEF State
<1>3. n \in 0..Len(d)
  <2>1. cs[b] \in Frame /\ Len(cs) > 0 /\ Len(cs) \in 1..Len(cs) /\ b \in 1..Len(cs)
    BY <1>1, ElementOfSeq
  <2>2. n <= cs[Len(cs)].dstart
    BY <1>1, <2>1, StartsOrdered DEF State
  <2>3. /\ cs[Len(cs)].dstart \in Nat /\ cs[Len(cs)].nv \in Nat /\ cs[Len(cs)].want \in Nat
        /\ cs[Len(cs)].dstart + cs[Len(cs)].nv + cs[Len(cs)].want <= Len(d)
    BY <1>1, <2>1, TopFacts DEF State
  <2>4. n \in Nat
    BY <2>1 DEF Frame
  <2>5. Len(d) \in Nat
    BY <1>1
  <2> DEFINE t == cs[Len(cs)]
             x == t.dstart
             y == t.nv
             z == t.want
             e == Len(d)
  <2>6. n \in Nat /\ x \in Nat /\ y \in Nat /\ z \in Nat /\ e \in Nat /\ n <= x /\ x + y + z <= e
    BY <2>2, <2>3, <2>4, <2>5
  <2> HIDE DEF x, y, z, e, n
  <2>7. n \in 0..e
    BY ONLY <2>6
  <2> QED BY <2>7 DEF e
<1>4. Take(d, n) \in Seq(Cell) /\ Len(Take(d, n)) = n
  BY <1>1, <1>3, TakeProperties
<1> HIDE DEF new, n
<1>5. LoopsIn(ps, new)
  <2>1. LoopsIn(ps, cs) /\ b - 1 \in 0..Len(new) /\ Len(new) \in Nat
        /\ \A i \in 1..Len(ps) : ps[i].at <= b - 1
    BY <1>1, <1>2 DEF State
  <2> QED BY <1>1, <1>2, <2>1, LoopsKeep
<1>6. n <= ds /\ Len(new) <= cz
  BY <1>1, <1>2, <1>3 DEF State
<1>7. State(Take(d, n), ds, new, cz, q2, ps)
  BY <1>1, <1>2, <1>4, <1>5, <1>6 DEF State
<1> QED BY <1>7 DEF new, n

\* One doubling is enough.
LEMMA FitEnough ==
  ASSUME NEW size \in Nat, NEW need \in Nat, need <= 2 * size
  PROVE  Fit(size, need) \in Nat /\ size <= Fit(size, need) /\ need <= Fit(size, need)
BY DEF Fit

\* An action that only grows the data stack leaves the suspended programs good.
LEMMA LeftState ==
  ASSUME NEW ds, NEW cz, NEW ps, GoodPipes(ps, ds, cz), NEW newsize
  PROVE  GoodPipes(Left(ps, newsize), ds, cz) /\ Alike(ps, Left(ps, newsize))
BY GoodLeft DEF Alike

LEMMA GrowCallStack ==
  ASSUME NEW c \in Nat, NEW cz \in Nat, c <= cz, cz > 0, NEW cz2,
         cz2 = IF c = cz THEN 2 * cz ELSE cz
  PROVE  cz2 \in Nat /\ c + 1 <= cz2 /\ cz <= cz2
OBVIOUS

\* cpush(), from any arguments on the stack and any call stack below.
LEMMA CpushState ==
  ASSUME IInv,
         NEW d \in Seq(Cell), NEW size \in Nat, dsize <= size, Len(d) <= size,
         NEW cs, NEW n \in Nat, Stack(n, cs), Len(cs) = cpos, LoopsIn(pipes, cs),
         NEW prog \in Progs \cup {PcallProg}, NEW attached \in BOOLEAN,
         NEW argc \in Nat, NEW progress \in Nat, argc + progress <= Len(d),
         attached <=> cs # <<>> /\ cs[Len(cs)].prim.kind = "none",
         cs # <<>> => FrameLaid(cs[Len(cs)], Len(d) - argc - progress),
         Cpush(d, size, cs, prog, argc, attached, progress),
         UNCHANGED <<queue, brk>>
  PROVE  IInv'
<1> DEFINE alloc == Larger(argc, prog.avarc)
           m == prog.lvarc + alloc - argc
           start == Len(d) - argc - progress
           f == [dstart |-> start, nv |-> prog.lvarc + alloc, vals |-> start,
                 live |-> TRUE, attached |-> attached, want |-> progress,
                 prim |-> NoPrim]
           newsize == Fit(size, Len(d) + m)
<1>1. /\ dsize \in Nat /\ csize \in Nat /\ InitSize \in Nat /\ InitSize > 0
      /\ Len(pipes) \in Nat /\ cpos \in Nat /\ Len(d) \in Nat
  BY StateFacts DEF IInv, cpos
<1>2. /\ InitSize <= dsize /\ InitSize <= csize /\ cpos <= csize
      /\ GoodQueue(queue, dsize, csize) /\ GoodPipes(pipes, dsize, csize)
  BY DEF IInv, State, cpos
<1>3. prog.avarc \in Nat /\ prog.lvarc \in Nat /\ prog.avarc + prog.lvarc <= InitSize
  <2>1. CASE prog \in Progs
    BY <2>1, ProgsAssumption
  <2>2. CASE prog = PcallProg
    BY <2>2, <1>1 DEF PcallProg
  <2> QED BY <2>1, <2>2
<1>4. alloc \in Nat /\ m \in Nat /\ m <= InitSize /\ start \in Nat
      /\ prog.lvarc + alloc \in Nat /\ argc + m = prog.lvarc + alloc
  <2>1. alloc \in Nat /\ argc <= alloc /\ (alloc = argc \/ alloc = prog.avarc)
    BY <1>3 DEF Larger
  <2> DEFINE l == prog.lvarc
             a == prog.avarc
  <2>2. l \in Nat /\ a \in Nat /\ a + l <= InitSize
    BY <1>3
  <2> HIDE DEF alloc, l, a
  <2>3. l + alloc - argc \in Nat
    BY <2>1, <2>2
  <2>4. l + alloc - argc <= InitSize
    <3>1. alloc = argc \/ alloc = a
      BY <2>1 DEF a
    <3>2. argc \in Nat /\ InitSize \in Nat
      BY <1>1
    <3>3. CASE alloc = argc
      BY ONLY <2>1, <2>2, <3>2, <3>3
    <3>4. CASE alloc = a
      BY ONLY <2>1, <2>2, <3>2, <3>4
    <3> QED BY <3>1, <3>3, <3>4
  <2>5. start \in Nat
    BY <1>1
  <2>6. argc + (l + alloc - argc) = l + alloc /\ l + alloc \in Nat
    BY <2>1, <2>2
  <2> QED BY <2>1, <2>3, <2>4, <2>5, <2>6 DEF l
<1>5. /\ dstack' = d \o Nulls(m)
      /\ dsize' = newsize /\ pipes' = Left(pipes, newsize)
      /\ csize' = IF Len(cs) = csize THEN 2 * csize ELSE csize
      /\ cstack' = Append(cs, f)
  BY DEF Cpush, Double
<1>6. f \in Frame
  BY <1>4 DEF Frame, NoPrim, Prim
<1>7. /\ f.dstart = start /\ f.nv = prog.lvarc + alloc /\ f.vals = start
      /\ f.want = progress /\ f.prim = NoPrim /\ f.attached = attached
  OBVIOUS
<1> HIDE DEF f, m, alloc, start
<1>8. dstack' \in Seq(Cell) /\ Len(dstack') = Len(d) + m
  <2>1. Nulls(m) \in Seq(Cell) /\ Len(Nulls(m)) = m
    BY <1>4, NullsProperties
  <2> QED BY <1>5, <2>1, ConcatProperties
<1>9. newsize \in Nat /\ size <= newsize /\ Len(d) + m <= newsize
  <2>1. Len(d) + m \in Nat /\ Len(d) + m <= 2 * size
    <3>1. /\ Len(d) \in Nat /\ size \in Nat /\ Len(d) <= size /\ InitSize \in Nat
          /\ dsize \in Nat /\ InitSize <= dsize /\ dsize <= size /\ m \in Nat /\ m <= InitSize
      BY <1>1, <1>2, <1>4
    <3> QED BY ONLY <3>1
  <2> QED BY <2>1, FitEnough
<1>10. FrameLaid(f, Len(dstack'))
  <2>1. Pending(f.prim) = 0
    BY <1>7 DEF Pending, NoPrim
  <2>2. start + (prog.lvarc + alloc) + progress <= Len(d) + m
    BY <1>1, <1>4 DEF start
  <2> QED BY <1>7, <1>8, <2>1, <2>2 DEF FrameLaid
<1>11. Stack(Len(dstack'), cstack')
  <2>1. cs # <<>> => FrameLaid(cs[Len(cs)], f.dstart)
    BY <1>7 DEF start
  <2>2. f.attached <=> cs # <<>> /\ cs[Len(cs)].prim.kind = "none"
    BY <1>7
  <2>3. Len(dstack') \in Nat
    BY <1>8
  <2> QED BY <1>5, <1>6, <1>10, <2>1, <2>2, <2>3, PushStack
<1>12. csize' \in Nat /\ cpos + 1 <= csize' /\ csize <= csize'
  <2>1. Len(cs) = cpos /\ cpos \in Nat /\ csize \in Nat /\ cpos <= csize /\ csize > 0
    BY <1>1, <1>2
  <2>2. csize' = IF cpos = csize THEN 2 * csize ELSE csize
    BY <1>5, <2>1
  <2> QED BY ONLY <2>1, <2>2, GrowCallStack
<1> HIDE DEF newsize
<1>13. GoodQueue(queue', dsize', csize') /\ GoodPipes(pipes', dsize', csize')
       /\ Alike(pipes, pipes')
  <2>1. GoodPipes(pipes', dsize, csize) /\ Alike(pipes, pipes')
    BY <1>2, <1>5, LeftState
  <2>2. dsize <= newsize
    BY <1>1, <1>9
  <2>3. GoodQueue(queue, newsize, csize')
    BY <1>1, <1>2, <1>9, <1>12, <2>2, GoodQueueGrow
  <2>4. GoodPipes(pipes', newsize, csize')
    BY <1>1, <1>9, <1>12, <2>1, <2>2, GoodPipesGrow
  <2> QED BY <1>5, <2>1, <2>3, <2>4
<1>14. LoopsIn(pipes', cstack') /\ Len(cstack') = cpos + 1
  <2>1. cs \in Seq(Frame)
    BY DEF Stack
  <2>2. Len(cstack') = cpos + 1 /\ \A k \in 1..cpos : cstack'[k] = cs[k]
    BY <1>1, <1>5, <1>6, <2>1, AppendProperties
  <2>3. \A i \in 1..Len(pipes) : pipes[i].at \in Nat /\ pipes[i].at <= cpos
    BY StateFacts DEF IInv, LoopsIn
  <2>4. cpos \in 0..Len(cstack') /\ Len(cstack') \in Nat
    BY <2>2, <1>1
  <2>6. \A k \in 1..cpos : cs[k].prim.kind = "prim" => cstack'[k].prim.kind = "prim"
    BY <2>2
  <2>7. \A i \in 1..Len(pipes) : pipes[i].at \in Nat
    BY <2>3
  <2>8. \A i \in 1..Len(pipes) : pipes[i].at <= cpos
    BY <2>3
  <2>5. LoopsIn(pipes, cstack')
    <3>1. PICK new : new = cstack'
      OBVIOUS
    <3>2. /\ LoopsIn(pipes, cs) /\ cpos \in 0..Len(new) /\ Len(new) \in Nat
          /\ \A k \in 1..cpos : cs[k].prim.kind = "prim" => new[k].prim.kind = "prim"
      BY <2>4, <2>6, <3>1
    <3>3. LoopsIn(pipes, new)
      BY ONLY <2>7, <2>8, <3>2, LoopsKeep
    <3> QED BY <3>1, <3>3
  <2> QED BY <1>1, <1>13, <2>2, <2>5, AlikeLoops
<1>15. State(dstack, dsize, cstack, csize, queue, pipes)'
  <2>1. InitSize <= dsize' /\ InitSize <= csize'
    <3>1. /\ InitSize \in Nat /\ dsize \in Nat /\ size \in Nat /\ csize \in Nat
          /\ InitSize <= dsize /\ dsize <= size /\ InitSize <= csize
      BY <1>1, <1>2
    <3>2. dsize' \in Nat /\ size <= dsize' /\ csize' \in Nat /\ csize <= csize'
      BY <1>5, <1>9, <1>12
    <3> QED BY ONLY <3>1, <3>2
  <2> QED BY <1>5, <1>8, <1>9, <1>11, <1>12, <1>13, <1>14, <2>1 DEF State
<1> QED BY <1>15 DEF IInv

\* resume(): a suspended program fits on top of any stack it can be put on.
LEMMA PlacedMoved ==
  ASSUME NEW es \in Estate, ImageLaid(es), dpos \in Nat
  PROVE  Moved(Placed(es), es, dpos)
<1> DEFINE g == es.frames
           adjust == g[1].dstart - dpos
           h(i) == [g[i] EXCEPT !.dstart = @ - adjust, !.vals = @ - adjust,
                                !.live = @ /\ ResumeSize(es) = dsize,
                                !.want = IF i = Len(g) THEN @ + 1 ELSE @]
           fs == [i \in DOMAIN g |-> h(i)]
<1>1. /\ g \in Seq(Frame) /\ Len(g) \in Nat /\ DOMAIN g = 1..Len(g) /\ g[1].dstart \in Nat
      /\ \A i \in 1..Len(g) : g[i] \in Frame /\ g[1].dstart <= g[i].dstart
  BY ImageStack, ElementOfSeq
<1>2. \A i \in 1..Len(g) : g[i].vals = g[i].dstart
  BY DEF ImageLaid, Laid, FrameLaid
<1>3. ASSUME NEW i \in 1..Len(g)
      PROVE /\ h(i) \in Frame
            /\ h(i).dstart = g[i].dstart - adjust /\ h(i).vals = h(i).dstart
            /\ h(i).nv = g[i].nv /\ h(i).prim = g[i].prim /\ h(i).attached = g[i].attached
            /\ h(i).want = g[i].want + (IF i = Len(g) THEN 1 ELSE 0)
  <2> DEFINE x == g[i].dstart - adjust
             w == IF i = Len(g) THEN g[i].want + 1 ELSE g[i].want
             l == g[i].live /\ ResumeSize(es) = dsize
  <2>1. g[i] \in Frame /\ g[i].vals = g[i].dstart
    BY <1>1, <1>2
  <2>2. g[i].dstart \in Nat /\ g[i].want \in Nat
    BY <2>1 DEF Frame
  <2>3. x \in Nat /\ w \in Nat /\ w = g[i].want + (IF i = Len(g) THEN 1 ELSE 0)
    <3>1. w \in Nat /\ w = g[i].want + (IF i = Len(g) THEN 1 ELSE 0)
      BY <2>2
    <3> DEFINE a == g[i].dstart
               b == g[1].dstart
    <3>2. a \in Nat /\ b \in Nat /\ b <= a /\ x = a - (b - dpos)
      BY <1>1, <2>2
    <3> HIDE DEF a, b, x, w
    <3>3. x \in Nat
      BY <3>2
    <3> QED BY <3>1, <3>3
  <2>4. l \in BOOLEAN
    OBVIOUS
  <2>5. h(i) = [dstart |-> x, nv |-> g[i].nv, vals |-> x, live |-> l,
                attached |-> g[i].attached, want |-> w, prim |-> g[i].prim]
    <3> DEFINE y == g[i]
    <3>1. h(i) = [y EXCEPT !.dstart = x, !.vals = y.vals - adjust, !.live = l, !.want = w]
      BY <2>1 DEF Frame
    <3>2. y.vals - adjust = x /\ y \in Frame
      BY <2>1
    <3> HIDE DEF x, w, l, h, g
    <3> QED BY <3>1, <3>2 DEF Frame
  <2> HIDE DEF h, x, w, l
  <2>6. h(i) \in Frame
    BY <2>1, <2>3, <2>4, <2>5 DEF Frame
  <2> QED BY <2>3, <2>5, <2>6 DEF x
<1>4. Placed(es) = [i \in 1..Len(g) |-> h(i)]
  <2>1. Placed(es) = fs
    BY Zenon DEF Placed
  <2> HIDE DEF h, g
  <2> QED BY <1>1, <2>1
<1> HIDE DEF h, fs, g, adjust
<1>5. Placed(es) \in [1..Len(g) -> Frame]
  BY <1>3, <1>4
<1>6. Placed(es) \in Seq(Frame) /\ Len(Placed(es)) = Len(g)
  BY <1>1, <1>5
<1>7. \A i \in 1..Len(g) :
        /\ Placed(es)[i].dstart = g[i].dstart - adjust
        /\ Placed(es)[i].vals = Placed(es)[i].dstart
        /\ Placed(es)[i].nv = g[i].nv /\ Placed(es)[i].prim = g[i].prim
        /\ Placed(es)[i].attached = g[i].attached
        /\ Placed(es)[i].want = g[i].want + (IF i = Len(g) THEN 1 ELSE 0)
  BY <1>3, <1>4
<1> QED BY <1>6, <1>7 DEF Moved, g, adjust

LEMMA ResumeState ==
  ASSUME IInv, NEW es, Good(es, dsize, csize), NEW v \in Cell,
         NEW ps, GoodPipes(ps, dsize, csize), LoopsIn(ps, cstack),
         cpos > 0 => Ctop.prim.kind # "none",
         GoodQueue(queue', dsize, csize),
         ResumeOne(es, v, ps), brk' = brk
  PROVE  IInv'
<1> DEFINE n == Len(es.data)
           e == Len(es.frames)
           size == ResumeSize(es)
           newsize == Fit(size, dpos + n + 1)
<1>1. /\ dsize \in Nat /\ csize \in Nat /\ InitSize \in Nat /\ InitSize > 0
      /\ cpos \in Nat /\ dpos \in Nat /\ dstack \in Seq(Cell) /\ cstack \in Seq(Frame)
  BY StateFacts DEF IInv, cpos, dpos
<1>2. /\ InitSize <= dsize /\ InitSize <= csize /\ cpos <= csize /\ dpos <= dsize
      /\ Stack(dpos, cstack)
  BY DEF IInv, State, cpos, dpos
<1>3. es \in Estate /\ ImageLaid(es) /\ n <= dsize /\ e <= csize
  BY DEF Good
<1>4. n \in Nat /\ e \in Nat /\ e > 0 /\ es.data \in Seq(Cell)
  BY <1>3, ImageStack
<1>5. /\ dstack' = dstack \o Append(es.data, v)
      /\ dsize' = newsize /\ pipes' = Left(ps, newsize)
      /\ cstack' = cstack \o Placed(es)
      /\ csize' = IF cpos + e >= csize THEN 2 * csize ELSE csize
  BY DEF ResumeOne
<1>6. newsize \in Nat /\ dsize <= newsize /\ dpos + n + 1 <= newsize
  <2>1. size \in Nat /\ dsize <= size /\ dpos + n + 1 <= 2 * size
    <3> HIDE DEF n
    <3>1. ResumeSize(es) = IF dpos + n >= dsize THEN 2 * dsize ELSE dsize
      BY DEF ResumeSize, n
    <3> QED BY <1>1, <1>2, <1>3, <1>4, <3>1
  <2>2. dpos + n + 1 \in Nat
    BY <1>1, <1>4
  <2> DEFINE need == dpos + n + 1
  <2>3. newsize = Fit(size, need)
    OBVIOUS
  <2>4. size \in Nat /\ dsize <= size /\ need <= 2 * size /\ need \in Nat
    BY <2>1, <2>2
  <2> HIDE DEF size, n, need, newsize
  <2>5. newsize \in Nat /\ size <= newsize /\ need <= newsize
    BY <2>3, <2>4, FitEnough
  <2>6. newsize \in Nat /\ dsize <= newsize /\ need <= newsize
    BY <1>1, <2>4, <2>5
  <2> QED BY <2>6 DEF need
<1> HIDE DEF newsize, size
<1>7. dstack' \in Seq(Cell) /\ Len(dstack') = dpos + n + 1
  <2>1. Append(es.data, v) \in Seq(Cell) /\ Len(Append(es.data, v)) = n + 1
    BY <1>4, AppendProperties
  <2> QED BY <1>1, <1>4, <1>5, <2>1, ConcatProperties DEF dpos
<1>8. Moved(Placed(es), es, dpos)
  BY <1>1, <1>3, PlacedMoved
<1>9. Placed(es) \in Seq(Frame) /\ Len(Placed(es)) = e
  BY <1>8 DEF Moved
<1>10. Stack(dpos + n + 1, cstack')
  <2>1. cstack # <<>> => cstack[Len(cstack)].prim.kind # "none"
    BY <1>1 DEF cpos, Ctop
  <2> QED BY <1>1, <1>2, <1>3, <1>5, <1>8, <2>1, PasteStack
<1>11. /\ Len(cstack') = cpos + e
       /\ \A k \in 1..cpos : cstack'[k] = cstack[k]
  <2>1. /\ Len(cstack \o Placed(es)) = Len(cstack) + e
        /\ \A k \in 1..(Len(cstack) + e) : (cstack \o Placed(es))[k]
             = IF k <= Len(cstack) THEN cstack[k] ELSE Placed(es)[k - Len(cstack)]
    <3>1. /\ Len(cstack \o Placed(es)) = Len(cstack) + Len(Placed(es))
          /\ \A k \in 1..(Len(cstack) + Len(Placed(es))) : (cstack \o Placed(es))[k]
               = IF k <= Len(cstack) THEN cstack[k] ELSE Placed(es)[k - Len(cstack)]
      BY <1>1, <1>9, ConcatProperties
    <3> QED BY <1>9, <3>1
  <2>2. \A k \in 1..cpos : k \in 1..(Len(cstack) + e) /\ k <= Len(cstack)
    BY <1>1, <1>4 DEF cpos
  <2> QED BY <1>5, <2>1, <2>2 DEF cpos
<1> HIDE DEF n, e
<1>12. csize' \in Nat /\ cpos + e <= csize' /\ csize <= csize'
  BY <1>1, <1>2, <1>3, <1>4, <1>5
<1>13. /\ GoodQueue(queue', dsize', csize') /\ GoodPipes(pipes', dsize', csize')
       /\ Alike(ps, pipes')
  <2>1. GoodPipes(pipes', dsize, csize) /\ Alike(ps, pipes')
    BY <1>5, LeftState
  <2> QED BY <1>1, <1>5, <1>6, <1>12, <2>1, GoodQueueGrow, GoodPipesGrow
<1>14. LoopsIn(pipes', cstack')
  <2>1. Len(ps) \in Nat /\ \A i \in 1..Len(ps) : ps[i].at \in Nat /\ ps[i].at <= cpos
    <3>1. ps \in Seq(Pipe)
      BY DEF GoodPipes
    <3>2. \A i \in 1..Len(ps) : ps[i] \in Pipe
      BY <3>1, ElementOfSeq
    <3> QED BY <3>1, <3>2 DEF Pipe, LoopsIn, cpos
  <2>2. cpos \in 0..Len(cstack') /\ Len(cstack') \in Nat
    BY <1>1, <1>4, <1>11
  <2>3. LoopsIn(ps, cstack')
    BY <1>11, <2>1, <2>2, LoopsKeep
  <2> QED BY <1>13, <2>1, <2>3, AlikeLoops
<1>15. State(dstack, dsize, cstack, csize, queue, pipes)'
  <2>1. InitSize <= dsize' /\ InitSize <= csize' /\ dsize' \in Nat /\ Len(dstack') <= dsize'
    BY <1>1, <1>2, <1>5, <1>6, <1>7, <1>12
  <2> QED BY <1>7, <1>10, <1>11, <1>12, <1>13, <1>14, <2>1 DEF State
<1> QED BY <1>15 DEF IInv

-----------------------------------------------------------------------------
(* The invariant, in the terms of the actions.                             *)

LEMMA InvFacts ==
  ASSUME IInv
  PROVE  /\ dstack \in Seq(Cell) /\ cstack \in Seq(Frame)
         /\ dpos \in Nat /\ cpos \in Nat /\ dpos = Len(dstack) /\ cpos = Len(cstack)
         /\ dsize \in Nat /\ csize \in Nat /\ InitSize \in Nat /\ InitSize > 0
         /\ dpos <= dsize /\ InitSize <= dsize /\ cpos <= csize /\ InitSize <= csize
         /\ Stack(dpos, cstack)
         /\ GoodQueue(queue, dsize, csize) /\ GoodPipes(pipes, dsize, csize)
         /\ LoopsIn(pipes, cstack) /\ brk \in BOOLEAN
<1>1. State(dstack, dsize, cstack, csize, queue, pipes) /\ brk \in BOOLEAN
  BY DEF IInv
<1>2. /\ dstack \in Seq(Cell) /\ cstack \in Seq(Frame)
      /\ Len(dstack) \in Nat /\ Len(cstack) \in Nat
      /\ dsize \in Nat /\ csize \in Nat /\ InitSize \in Nat /\ InitSize > 0
  BY <1>1, StateFacts
<1> QED BY <1>1, <1>2 DEF State, dpos, cpos

LEMMA CtopFacts ==
  ASSUME IInv, cpos > 0
  PROVE  /\ Ctop \in Frame /\ Ctop.dstart \in Nat /\ Ctop.nv \in Nat /\ Ctop.want \in Nat
         /\ Ctop.prim \in Prim /\ Pending(Ctop.prim) \in Nat
         /\ Ctop.vals = Ctop.dstart /\ Ctop.want >= Pending(Ctop.prim)
         /\ Ctop.dstart + Ctop.nv + Ctop.want <= dpos
         /\ Retop(Ctop.want, Ctop.prim) = cstack
         /\ cstack # <<>> /\ Ctop = cstack[Len(cstack)]
<1>1. dpos \in Nat /\ Stack(dpos, cstack) /\ cpos = Len(cstack) /\ cstack \in Seq(Frame)
      /\ cpos \in Nat
  BY InvFacts
<1>2. Ctop = cstack[Len(cstack)]
  BY <1>1 DEF Ctop
<1>3. Len(cstack) > 0
  BY <1>1
<1>4. /\ Ctop \in Frame /\ Ctop.dstart \in Nat /\ Ctop.nv \in Nat /\ Ctop.want \in Nat
      /\ Ctop.prim \in Prim /\ Pending(Ctop.prim) \in Nat
      /\ Ctop.vals = Ctop.dstart /\ Ctop.want >= Pending(Ctop.prim)
      /\ Ctop.dstart + Ctop.nv + Ctop.want <= dpos /\ cstack # <<>>
  BY <1>1, <1>2, <1>3, TopFacts
<1>5. [Ctop EXCEPT !.want = Ctop.want, !.prim = Ctop.prim] = Ctop
  BY <1>4 DEF Frame
<1>6. Retop(Ctop.want, Ctop.prim) = cstack
  <2>1. Retop(Ctop.want, Ctop.prim)
          = [cstack EXCEPT ![cpos] = [Ctop EXCEPT !.want = Ctop.want, !.prim = Ctop.prim]]
    BY <1>1, <1>3, <1>4 DEF Retop, Ctop, Frame
  <2>2. [cstack EXCEPT ![cpos] = Ctop] = cstack
    BY <1>1, <1>3 DEF Ctop
  <2> QED BY <1>5, <2>1, <2>2
<1> QED BY <1>2, <1>4, <1>6

\* k operands of the instruction are there, above the variables.
LEMMA Operands ==
  ASSUME IInv, cpos > 0, NEW k \in Nat, k <= Ctop.want
  PROVE  /\ dpos - k \in 0..dpos /\ Ctop.want - k \in Nat
         /\ Ctop.dstart + Ctop.nv + (Ctop.want - k) <= dpos - k
         /\ k > 0 => dpos \in 1..dpos
<1> DEFINE a == Ctop.dstart
           b == Ctop.nv
           c == Ctop.want
           n == dpos
<1>1. a \in Nat /\ b \in Nat /\ c \in Nat /\ n \in Nat /\ a + b + c <= n /\ k <= c
  BY CtopFacts, InvFacts
<1> HIDE DEF a, b, c, n
<1>2. n - k \in 0..n /\ c - k \in Nat /\ a + b + (c - k) <= n - k /\ (k > 0 => n \in 1..n)
  BY <1>1
<1> QED BY <1>2 DEF a, b, c, n

\* The sizes alone.
LEMMA Sizes ==
  ASSUME IInv
  PROVE  /\ dpos \in Nat /\ dsize \in Nat /\ InitSize \in Nat /\ dpos <= dsize /\ InitSize <= dsize
         /\ dpos = Len(dstack)
BY InvFacts

LEMMA TopSizes ==
  ASSUME IInv, cpos > 0
  PROVE  /\ Ctop.dstart \in Nat /\ Ctop.nv \in Nat /\ Ctop.want \in Nat /\ dpos \in Nat
         /\ Ctop.dstart + Ctop.nv + Ctop.want <= dpos
BY CtopFacts, Sizes

\* What an instruction takes from the operands.
LEMMA TakenFacts ==
  ASSUME NEW argc \in Nat, NEW exec \in BOOLEAN
  PROVE  Taken(argc, exec) \in Nat /\ argc <= Taken(argc, exec)
         /\ (exec => argc + 1 <= Taken(argc, exec)) /\ Taken(argc, exec) <= argc + 1
BY DEF Taken

LEMMA Unmoved == pipes = Left(pipes, dsize)
BY DEF Left

\* An action that changes the last frame and the cells above its variables.
LEMMA RetopInv ==
  ASSUME IInv, cpos > 0,
         NEW w \in Nat, NEW pr \in Prim, w >= Pending(pr),
         dstack' \in Seq(Cell), dsize' \in Nat, dsize <= dsize', Len(dstack') <= dsize',
         Ctop.dstart + Ctop.nv + w <= Len(dstack'),
         pipes' = Left(pipes, dsize'), cstack' = Retop(w, pr),
         UNCHANGED <<csize, queue, brk>>,
         pr.kind = "prim" \/ Running \/ ~Breaking
  PROVE  IInv'
<1>1. State(dstack, dsize, cstack, csize, queue, pipes) /\ brk \in BOOLEAN
  BY DEF IInv
<1>2. GoodPipes(pipes', dsize, csize) /\ Alike(pipes, pipes')
  BY InvFacts, LeftState
<1>3. pr.kind = "prim" \/ \A i \in 1..Len(pipes) : pipes[i].at < Len(cstack)
  BY LoopsBelow DEF cpos
<1>4. cstack[Len(cstack)].dstart + cstack[Len(cstack)].nv + w <= Len(dstack')
  BY CtopFacts
<1>5. Len(cstack) > 0
  BY InvFacts
<1>6. State(dstack', dsize',
            [cstack EXCEPT ![Len(cstack)].want = w, ![Len(cstack)].prim = pr],
            csize, queue, pipes')
  <2> DEFINE d2 == dstack'
             ds2 == dsize'
             ps2 == pipes'
  <2>1. d2 \in Seq(Cell) /\ ds2 \in Nat /\ dsize <= ds2 /\ Len(d2) <= ds2
        /\ GoodPipes(ps2, dsize, csize) /\ Alike(pipes, ps2)
        /\ cstack[Len(cstack)].dstart + cstack[Len(cstack)].nv + w <= Len(d2)
    BY <1>2, <1>4
  <2> HIDE DEF d2, ds2, ps2
  <2>2. State(d2, ds2, [cstack EXCEPT ![Len(cstack)].want = w, ![Len(cstack)].prim = pr],
              csize, queue, ps2)
    BY <1>1, <1>3, <1>5, <2>1, RetopState
  <2> QED BY <2>2 DEF d2, ds2, ps2
<1>7. cstack' = [cstack EXCEPT ![Len(cstack)].want = w, ![Len(cstack)].prim = pr]
  BY DEF Retop, cpos
<1>8. State(dstack', dsize', cstack', csize', queue', pipes')
  BY <1>6, <1>7
<1> QED BY <1>1, <1>8 DEF IInv

\* The innermost program goes, perhaps to a queue.
LEMMA CutInv ==
  ASSUME IInv, NEW b \in 1..cpos, \A i \in 1..Len(pipes) : pipes[i].at < b,
         dstack' = Take(dstack, cstack[b].dstart), cstack' = Take(cstack, b - 1),
         GoodQueue(queue', dsize, csize), UNCHANGED <<dsize, csize, pipes, brk>>
  PROVE  IInv'
<1>1. State(dstack, dsize, cstack, csize, queue, pipes) /\ brk \in BOOLEAN /\ b \in 1..Len(cstack)
  BY DEF IInv, cpos
<1>2. State(Take(dstack, cstack[b].dstart), dsize, Take(cstack, b - 1), csize, queue', pipes)
  BY <1>1, CutState
<1> QED BY <1>1, <1>2 DEF IInv

-----------------------------------------------------------------------------
(* interp() preserves the invariant.                                       *)

LEMMA PushInv ==
  ASSUME IInv, NEW v \in Cell, Push(v)
  PROVE  IInv'
<1>1. cpos > 0 /\ Running
  BY DEF Push, Step, Running
<1>2. Append(dstack, v) \in Seq(Cell) /\ Len(Append(dstack, v)) = dpos + 1
  BY InvFacts, AppendProperties
<1>3. dsize' \in Nat /\ dsize <= dsize' /\ dpos + 1 <= dsize'
  <2>1. dpos + 1 \in Nat /\ dpos + 1 <= 2 * dsize /\ dsize \in Nat
    BY InvFacts
  <2> QED BY <2>1, FitEnough DEF Push, Double
<1>4. dstack' = Append(dstack, v) /\ cstack' = Retop(Ctop.want + 1, Ctop.prim)
      /\ pipes' = Left(pipes, dsize') /\ UNCHANGED <<csize, queue, brk>>
  BY DEF Push, Double, Want
<1>5. Ctop.want + 1 \in Nat /\ Ctop.want + 1 >= Pending(Ctop.prim) /\ Ctop.prim \in Prim
      /\ Ctop.dstart + Ctop.nv + (Ctop.want + 1) <= dpos + 1
  <2>1. Ctop.want + 1 \in Nat /\ Ctop.dstart + Ctop.nv + (Ctop.want + 1) <= dpos + 1
    BY <1>1, TopSizes
  <2>2. Ctop.prim \in Prim /\ Pending(Ctop.prim) \in Nat /\ Ctop.want >= Pending(Ctop.prim)
    BY <1>1, CtopFacts
  <2>3. Ctop.want \in Nat
    BY <1>1, TopSizes
  <2> QED BY ONLY <2>1, <2>2, <2>3
<1> QED BY <1>1, <1>2, <1>3, <1>4, <1>5, RetopInv

LEMMA NonePending ==
  ASSUME Running
  PROVE  cpos > 0 /\ Ctop.prim.kind = "none" /\ Pending(Ctop.prim) = 0
BY DEF Running, Pending

LEMMA PopInv ==
  ASSUME IInv, Pop
  PROVE  IInv'
<1>1. Running /\ cpos > 0 /\ Pending(Ctop.prim) = 0 /\ Ctop.want > 0
  BY NonePending DEF Pop, Step
<1>2. /\ dpos - 1 \in 0..dpos /\ Ctop.want - 1 \in Nat
      /\ Ctop.dstart + Ctop.nv + (Ctop.want - 1) <= dpos - 1
  <2>1. 1 \in Nat /\ 1 <= Ctop.want
    BY <1>1, TopSizes
  <2> QED BY <1>1, <2>1, Operands
<1>3. Take(dstack, dpos - 1) \in Seq(Cell) /\ Len(Take(dstack, dpos - 1)) = dpos - 1
  BY <1>2, InvFacts, TakeProperties
<1>4. dstack' = Take(dstack, dpos - 1) /\ cstack' = Retop(Ctop.want - 1, Ctop.prim)
      /\ UNCHANGED <<dsize, pipes, csize, queue, brk>>
  BY DEF Pop, Want
<1>5. pipes' = Left(pipes, dsize')
  BY <1>4, Unmoved
<1>6. Ctop.want - 1 \in Nat /\ Ctop.want - 1 >= Pending(Ctop.prim) /\ Ctop.prim \in Prim
      /\ Ctop.dstart + Ctop.nv + (Ctop.want - 1) <= dpos - 1
  BY <1>1, <1>2, CtopFacts
<1>7. dsize' \in Nat /\ dsize <= dsize' /\ dpos - 1 <= dsize'
  BY <1>4, InvFacts
<1> QED BY <1>1, <1>3, <1>4, <1>5, <1>6, <1>7, RetopInv

LEMMA EvalInv ==
  ASSUME IInv, NEW v \in Cell, Eval(v)
  PROVE  IInv'
<1>1. Running /\ cpos > 0 /\ Ctop.want > 0
  BY NonePending DEF Eval, Step
<1>2. dpos \in 1..dpos
  <2>1. 1 \in Nat /\ 1 <= Ctop.want /\ 1 > 0
    BY <1>1, TopSizes
  <2> QED BY <1>1, <2>1, Operands
<1>3. dstack' \in Seq(Cell) /\ Len(dstack') = dpos
  BY <1>2, InvFacts, ExceptSeq DEF Eval
<1>4. cstack' = Retop(Ctop.want, Ctop.prim) /\ UNCHANGED <<dsize, pipes, csize, queue, brk>>
  BY <1>1, CtopFacts DEF Eval
<1>5. pipes' = Left(pipes, dsize')
  BY <1>4, Unmoved
<1>6. dsize' \in Nat /\ dsize <= dsize' /\ dpos <= dsize'
  BY <1>4, InvFacts
<1> QED BY <1>1, <1>3, <1>4, <1>5, <1>6, CtopFacts, RetopInv

LEMMA AssignInv ==
  ASSUME IInv, NEW i \in 1..Ctop.nv, Assign(i)
  PROVE  IInv'
<1> DEFINE rest == Take(dstack, dpos - 2)
           stored == IF Ctop.live THEN [rest EXCEPT ![Ctop.vals + i] = dstack[dpos]]
                     ELSE rest
<1>1. Running /\ cpos > 0 /\ Pending(Ctop.prim) = 0 /\ Ctop.want >= 2
  BY NonePending DEF Assign, Step
<1>2. dpos - 2 \in 0..dpos /\ dpos \in 1..dpos
  BY <1>1, Operands
<1>3. rest \in Seq(Cell) /\ Len(rest) = dpos - 2
  BY <1>2, InvFacts, TakeProperties
<1>4. dstack[dpos] \in Cell
  BY <1>2, InvFacts, ElementOfSeq
<1>5. Ctop.vals + i \in 1..Len(rest)
  <2>1. Ctop.vals = Ctop.dstart /\ Len(rest) = dpos - 2
    BY <1>1, <1>3, CtopFacts
  <2> HIDE DEF rest
  <2> QED BY <1>1, <2>1, TopSizes
<1>6. stored \in Seq(Cell) /\ Len(stored) = dpos - 2
  BY <1>3, <1>4, <1>5, ExceptSeq
<1>7. dstack' = Append(stored, dstack[dpos]) /\ cstack' = Retop(Ctop.want - 1, Ctop.prim)
      /\ UNCHANGED <<dsize, pipes, csize, queue, brk>>
  BY DEF Assign, Want
<1> HIDE DEF stored, rest
<1>8. dstack' \in Seq(Cell) /\ Len(dstack') = dpos - 1
  BY <1>4, <1>6, <1>7, InvFacts, AppendProperties
<1>9. pipes' = Left(pipes, dsize')
  BY <1>7, Unmoved
<1>10. Ctop.want - 1 \in Nat /\ Ctop.want - 1 >= Pending(Ctop.prim) /\ Ctop.prim \in Prim
       /\ Ctop.dstart + Ctop.nv + (Ctop.want - 1) <= dpos - 1
  <2>1. 1 \in Nat /\ 1 <= Ctop.want
    BY <1>1, CtopFacts
  <2> QED BY <1>1, <2>1, Operands, CtopFacts
<1>11. dsize' \in Nat /\ dsize <= dsize' /\ dpos - 1 <= dsize'
  BY <1>7, InvFacts
<1> QED BY <1>1, <1>7, <1>8, <1>9, <1>10, <1>11, RetopInv

\* The call stack below a frame that is being pushed.
LEMMA RetopFacts ==
  ASSUME IInv, cpos > 0, NEW w \in Nat, NEW pr \in Prim, w >= Pending(pr),
         NEW m \in Nat, Ctop.dstart + Ctop.nv + w <= m,
         pr.kind = "prim" \/ Running \/ ~Breaking
  PROVE  LET cs == Retop(w, pr)
         IN /\ Stack(m, cs) /\ Len(cs) = cpos /\ cs # <<>>
            /\ cs[Len(cs)].prim = pr /\ FrameLaid(cs[Len(cs)], m) /\ LoopsIn(pipes, cs)
<1> DEFINE cs == Retop(w, pr)
<1>1. /\ cpos \in Nat /\ Len(cstack) = cpos /\ Ctop = cstack[Len(cstack)] /\ Ctop \in Frame
      /\ cstack # <<>> /\ dpos \in Nat /\ Stack(dpos, cstack) /\ LoopsIn(pipes, cstack)
  BY InvFacts, CtopFacts
<1>2. cs = [cstack EXCEPT ![Len(cstack)].want = w, ![Len(cstack)].prim = pr]
  BY <1>1 DEF Retop
<1>3. Stack(m, cs)
  <2>1. cstack[Len(cstack)].dstart + cstack[Len(cstack)].nv + w <= m
    BY <1>1
  <2> HIDE DEF cs
  <2> QED BY <1>1, <1>2, <2>1, RetopStack
<1>4. Len(cs) = cpos /\ (\A k \in 1..cpos : k # cpos => cs[k] = cstack[k])
      /\ cs[cpos].prim = pr /\ cs # <<>>
  <2>1. cstack \in Seq(Frame) /\ cpos \in 1..cpos
    BY <1>1 DEF Stack
  <2> QED BY <1>1, <1>2, <2>1 DEF Frame
<1> HIDE DEF cs
<1>5. FrameLaid(cs[Len(cs)], m)
  <2>1. Len(cs) \in 1..Len(cs)
    BY <1>1, <1>4
  <2> QED BY <1>3, <2>1 DEF Stack, Laid, Top
<1>6. \A i \in 1..Len(pipes) : pipes[i].at \in Nat /\ pipes[i].at <= cpos
  BY <1>1, StateFacts DEF IInv, LoopsIn
<1>7. LoopsIn(pipes, cs)
  <2>1. CASE pr.kind = "prim"
    <3>1. \A k \in 1..cpos : cstack[k].prim.kind = "prim" => cs[k].prim.kind = "prim"
      BY <2>1, <1>4
    <3>2. cpos \in 0..Len(cs) /\ Len(cs) \in Nat
      BY <1>1, <1>4
    <3> QED BY <1>1, <1>6, <3>1, <3>2, LoopsKeep
  <2>2. CASE Running \/ ~Breaking
    <3>1. \A k \in 1..(cpos - 1) : cstack[k].prim.kind = "prim" => cs[k].prim.kind = "prim"
      BY <1>1, <1>4
    <3>2. cpos - 1 \in 0..Len(cs) /\ Len(cs) \in Nat
      BY <1>1, <1>4
    <3>3. \A i \in 1..Len(pipes) : pipes[i].at <= cpos - 1
      <4>1. \A i \in 1..Len(pipes) : pipes[i].at < cpos
        BY <2>2, LoopsBelow
      <4> QED BY <1>1, <1>6, <4>1
    <3> QED BY <1>1, <1>6, <3>1, <3>2, <3>3, LoopsKeep
  <2> QED BY <2>1, <2>2
<1>8. /\ Stack(m, cs) /\ Len(cs) = cpos /\ cs # <<>>
      /\ cs[Len(cs)].prim = pr /\ FrameLaid(cs[Len(cs)], m) /\ LoopsIn(pipes, cs)
  BY <1>3, <1>4, <1>5, <1>7
<1> QED BY <1>8 DEF cs

LEMMA FcallInv ==
  ASSUME IInv, NEW prog \in Progs, NEW argc \in Nat, Fcall(prog, argc)
  PROVE  IInv'
<1>1. /\ Running /\ cpos > 0 /\ Pending(Ctop.prim) = 0 /\ Ctop.prim.kind = "none"
      /\ argc <= Ctop.want
  BY NonePending, CtopFacts DEF Fcall, Step
<1>2. /\ dpos - argc \in 0..dpos /\ Ctop.want - argc \in Nat
      /\ Ctop.dstart + Ctop.nv + (Ctop.want - argc) <= dpos - argc
  BY <1>1, Operands
<1> DEFINE cs == Want(Ctop.want - argc)
<1>3. /\ Stack(dpos - argc, cs) /\ Len(cs) = cpos /\ cs # <<>>
      /\ cs[Len(cs)].prim = Ctop.prim /\ FrameLaid(cs[Len(cs)], dpos - argc)
      /\ LoopsIn(pipes, cs)
  <2>1. dpos - argc \in Nat /\ Ctop.prim \in Prim /\ Ctop.want - argc >= Pending(Ctop.prim)
    BY <1>1, <1>2, CtopFacts
  <2> QED BY <1>1, <1>2, <2>1, RetopFacts DEF Want
<1>4. Cpush(dstack, dsize, cs, prog, argc, TRUE, 0) /\ UNCHANGED <<queue, brk>>
  BY DEF Fcall
<1> HIDE DEF cs
<1>5. /\ dstack \in Seq(Cell) /\ Len(dstack) = dpos /\ Len(dstack) <= dsize /\ dsize <= dsize
      /\ dsize \in Nat /\ argc + 0 <= Len(dstack) /\ dpos - argc \in Nat
      /\ Len(dstack) - argc - 0 = dpos - argc
  BY <1>2, InvFacts
<1>6. TRUE <=> cs # <<>> /\ cs[Len(cs)].prim.kind = "none"
  BY <1>1, <1>3
<1> QED BY <1>3, <1>4, <1>5, <1>6, CpushState

LEMMA ExecFuncInv ==
  ASSUME IInv, NEW prog \in Progs, NEW argc \in Nat, ExecFunc(prog, argc)
  PROVE  IInv'
<1>1. /\ Running /\ cpos > 0 /\ Pending(Ctop.prim) = 0 /\ Ctop.prim.kind = "none"
      /\ argc + 1 <= Ctop.want
  BY NonePending, CtopFacts DEF ExecFunc, Step
<1>2. /\ dpos - (argc + 1) \in 0..dpos /\ Ctop.want - (argc + 1) \in Nat
      /\ Ctop.dstart + Ctop.nv + (Ctop.want - (argc + 1)) <= dpos - (argc + 1)
  BY <1>1, Operands
<1> DEFINE cs == Want(Ctop.want - argc - 1)
           d == Take(dstack, dpos - argc - 1) \o SubSeq(dstack, dpos - argc + 1, dpos)
           m == dpos - (argc + 1)
<1>3. Ctop.want - argc - 1 = Ctop.want - (argc + 1) /\ dpos - argc - 1 = m
      /\ m \in 0..dpos /\ dpos \in Nat /\ m + 1 + argc = dpos
  <2>1. dpos \in Nat /\ Ctop.want \in Nat
    BY <1>1, CtopFacts, InvFacts
  <2> DEFINE a == Ctop.want
  <2>2. a \in Nat
    BY <2>1
  <2> HIDE DEF a
  <2>3. a - argc - 1 = a - (argc + 1)
    BY <2>2
  <2> QED BY <1>2, <2>1, <2>3 DEF a
<1>4. /\ Stack(m, cs) /\ Len(cs) = cpos /\ cs # <<>>
      /\ cs[Len(cs)].prim = Ctop.prim /\ FrameLaid(cs[Len(cs)], m)
      /\ LoopsIn(pipes, cs)
  <2>1. m \in Nat /\ Ctop.prim \in Prim /\ Ctop.want - (argc + 1) >= Pending(Ctop.prim)
    BY <1>1, <1>2, CtopFacts
  <2>2. cs = Retop(Ctop.want - (argc + 1), Ctop.prim)
    BY <1>3 DEF Want
  <2> QED BY <1>1, <1>2, <2>1, <2>2, RetopFacts
<1>5. Cpush(d, dsize, cs, prog, argc, TRUE, 0) /\ UNCHANGED <<queue, brk>>
  BY DEF ExecFunc
<1>6. d \in Seq(Cell) /\ Len(d) = m + argc
  <2>1. Take(dstack, m) \in Seq(Cell) /\ Len(Take(dstack, m)) = m
    <3> HIDE DEF m
    <3>1. m \in 0..Len(dstack)
      BY <1>3, InvFacts
    <3> QED BY <3>1, InvFacts, TakeProperties
  <2>2. /\ SubSeq(dstack, dpos - argc + 1, dpos) \in Seq(Cell)
        /\ Len(SubSeq(dstack, dpos - argc + 1, dpos)) = argc
    <3>1. dpos - argc + 1 \in 1..(Len(dstack) + 1) /\ dpos \in 0..Len(dstack)
          /\ dpos - argc + 1 <= dpos + 1 /\ dpos - (dpos - argc + 1) + 1 = argc
      BY <1>3, InvFacts
    <3> QED BY <3>1, InvFacts, SubSeqType
  <2>3. d = Take(dstack, m) \o SubSeq(dstack, dpos - argc + 1, dpos)
    BY <1>3
  <2> HIDE DEF d
  <2> QED BY <2>1, <2>2, <2>3, ConcatProperties
<1> HIDE DEF cs, d
<1>7. /\ Len(d) <= dsize /\ dsize <= dsize /\ dsize \in Nat /\ argc + 0 <= Len(d)
      /\ Len(d) - argc - 0 = m /\ m \in Nat
  BY <1>3, <1>6, InvFacts
<1>8. TRUE <=> cs # <<>> /\ cs[Len(cs)].prim.kind = "none"
  BY <1>1, <1>4
<1> HIDE DEF m
<1> QED BY <1>4, <1>5, <1>6, <1>7, <1>8, CpushState

LEMMA StopInv ==
  ASSUME IInv, Stop
  PROVE  IInv'
<1>1. Running /\ cpos > 0 /\ Ctop.want > 0 /\ UNCHANGED <<dsize, csize, queue, pipes, brk>>
  BY NonePending DEF Stop, Step
<1>2. cpos \in 1..cpos /\ \A i \in 1..Len(pipes) : pipes[i].at < cpos
  BY <1>1, InvFacts, LoopsBelow
<1>3. GoodQueue(queue, dsize, csize)
  BY InvFacts
<1>4. CASE ~Ctop.attached
  <2>1. /\ dstack' = Take(dstack, cstack[cpos].dstart)
        /\ cstack' = Take(cstack, cpos - 1)
    BY <1>4 DEF Stop, Ctop
  <2> QED BY <1>1, <1>2, <1>3, <2>1, CutInv
<1>5. CASE Ctop.attached
  <2> DEFINE d == Take(dstack, Ctop.dstart)
             cs == Take(cstack, cpos - 1)
             f == cs[cpos - 1]
  <2>1. dstack' = Append(d, dstack[dpos])
        /\ cstack' = [cs EXCEPT ![cpos - 1].want = @ + 1]
    BY <1>5 DEF Stop
  <2>2. cpos > 1 /\ cstack[cpos - 1].prim.kind = "none"
    <3>1. Nested(cstack) /\ cpos \in 1..Len(cstack)
      BY <1>2, InvFacts DEF Stack
    <3> QED BY <1>5, <3>1 DEF Nested, Ctop
  <2>3. State(d, dsize, cs, csize, queue, pipes)
    <3>1. cpos \in 1..Len(cstack) /\ State(dstack, dsize, cstack, csize, queue, pipes)
      BY <1>2 DEF IInv, cpos
    <3> QED BY <1>2, <1>3, <3>1, CutState DEF Ctop
  <2>4. Len(cs) = cpos - 1 /\ f = cstack[cpos - 1] /\ cs \in Seq(Frame) /\ cpos - 1 \in 1..(cpos - 1)
    <3>1. cpos - 1 \in 0..Len(cstack) /\ cpos - 1 \in 1..(cpos - 1)
      BY <1>2, <2>2, InvFacts
    <3> QED BY <3>1, InvFacts, TakeProperties
  <2>5. d \in Seq(Cell) /\ Len(d) = Ctop.dstart /\ Len(d) \in Nat
    <3>1. Ctop.dstart \in 0..Len(dstack)
      BY <1>1, CtopFacts, InvFacts
    <3> QED BY <3>1, InvFacts, TakeProperties
  <2>6. dstack' \in Seq(Cell) /\ Len(dstack') = Ctop.dstart + 1
    <3>1. dstack[dpos] \in Cell
      <4>1. dpos \in 1..Len(dstack)
        <5>1. 1 \in Nat /\ 1 <= Ctop.want /\ 1 > 0
          BY <1>1, TopSizes
        <5> QED BY <1>1, <5>1, Operands, Sizes
      <4> QED BY <4>1, InvFacts, ElementOfSeq
    <3> HIDE DEF d
    <3> QED BY <2>1, <2>5, <3>1, AppendProperties
  <2> HIDE DEF d, cs, f
  <2>7. /\ f \in Frame /\ f.dstart \in Nat /\ f.nv \in Nat /\ f.want \in Nat
        /\ f.prim \in Prim /\ f.dstart + f.nv + f.want <= Ctop.dstart
        /\ f.prim.kind = "none"
    <3>1. Stack(Len(d), cs) /\ Len(cs) > 0 /\ f = cs[Len(cs)]
      BY <2>3, <2>4, <2>2, InvFacts DEF State, f
    <3> QED BY <2>2, <2>4, <2>5, <3>1, TopFacts
  <2>8. cstack' = [cs EXCEPT ![Len(cs)].want = f.want + 1, ![Len(cs)].prim = f.prim]
    <3>1. [f EXCEPT !.want = f.want + 1, !.prim = f.prim] = [f EXCEPT !.want = f.want + 1]
      BY <2>7 DEF Frame
    <3> DEFINE k == cpos - 1
    <3>2. cstack' = [cs EXCEPT ![k] = [f EXCEPT !.want = f.want + 1]]
      BY <2>1, <2>4 DEF f
    <3>3. [cs EXCEPT ![k].want = f.want + 1, ![k].prim = f.prim]
            = [cs EXCEPT ![k] = [f EXCEPT !.want = f.want + 1, !.prim = f.prim]]
      BY <2>4, <2>7 DEF f, Frame
    <3> QED BY <2>4, <3>1, <3>2, <3>3
  <2>9. \A i \in 1..Len(pipes) : pipes[i].at < Len(cs)
    <3>1. \A i \in 1..Len(pipes) : pipes[i].at \in Nat /\ pipes[i].at <= Len(cs)
          /\ (pipes[i].at > 0 => cs[pipes[i].at].prim.kind = "prim")
      BY <2>3, StateFacts DEF State, LoopsIn
    <3>2. Len(cs) \in Nat /\ Len(cs) > 0 /\ cs[Len(cs)].prim.kind = "none"
      BY <2>2, <2>4, <2>7, InvFacts DEF f
    <3> QED BY <3>1, <3>2
  <2>10. State(dstack', dsize, cstack', csize, queue, pipes)
    <3> DEFINE d2 == dstack'
               w == f.want + 1
    <3>1. /\ d2 \in Seq(Cell) /\ Len(d2) <= dsize /\ dsize \in Nat /\ dsize <= dsize
          /\ w \in Nat /\ w >= Pending(f.prim) /\ f.dstart + f.nv + w <= Len(d2)
          /\ Len(cs) > 0 /\ f = cs[Len(cs)]
      <4>1. Pending(f.prim) = 0
        BY <2>7 DEF Pending
      <4>2. Ctop.dstart + 1 <= dsize
        BY <1>1, CtopFacts, InvFacts
      <4>3. f.dstart + f.nv + (f.want + 1) <= Ctop.dstart + 1
        <5>1. Ctop.dstart \in Nat
          BY <1>1, TopSizes
        <5> QED BY <2>7, <5>1
      <4>4. d2 \in Seq(Cell) /\ Len(d2) = Ctop.dstart + 1
        BY <2>6
      <4>5. w \in Nat /\ w >= Pending(f.prim)
        BY <2>7, <4>1
      <4>6. dsize \in Nat /\ cpos \in Nat
        BY InvFacts
      <4>7. Len(cs) > 0 /\ f = cs[Len(cs)]
        BY <2>2, <2>4, <4>6 DEF f
      <4> HIDE DEF d2
      <4> QED BY <4>2, <4>3, <4>4, <4>5, <4>6, <4>7
    <3>2. GoodPipes(pipes, dsize, csize) /\ Alike(pipes, pipes)
      BY InvFacts DEF Alike
    <3> HIDE DEF d2, w
    <3>3. State(d2, dsize, [cs EXCEPT ![Len(cs)].want = w, ![Len(cs)].prim = f.prim],
                csize, queue, pipes)
      BY <2>3, <2>7, <2>9, <3>1, <3>2, RetopState
    <3> QED BY <2>8, <3>3 DEF d2, w
  <2> QED BY <1>1, <2>10, InvFacts DEF IInv
<1> QED BY <1>4, <1>5

LEMMA AbortInv ==
  ASSUME IInv, cpos > 0, Running \/ ~Breaking, Abort
  PROVE  IInv'
<1>1. Base \in 1..cpos /\ \A i \in 1..Len(pipes) : pipes[i].at < Base
  BY BaseFacts, LoopsBelow
<1>2. GoodQueue(queue, dsize, csize)
  BY InvFacts
<1> QED BY <1>1, <1>2, CutInv DEF Abort

LEMMA BreakAbortInv ==
  ASSUME IInv, BreakAbort
  PROVE  IInv'
BY AbortInv, NonePending DEF BreakAbort

LEMMA ErrorInv ==
  ASSUME IInv, Error
  PROVE  IInv'
BY AbortInv, NonePending DEF Error, Step

-----------------------------------------------------------------------------
(* So do the primitives.                                                   *)

LEMMA PrimErrorInv ==
  ASSUME IInv, PrimError
  PROVE  IInv'
BY AbortInv DEF PrimError, InPrim

\* The stack with the cell of the function pointer nulled.
LEMMA Nulled ==
  ASSUME IInv, cpos > 0, NEW argc \in Nat, NEW exec \in BOOLEAN,
         Ctop.want >= Taken(argc, exec), NEW d,
         d = IF exec THEN [dstack EXCEPT ![dpos - argc] = Null] ELSE dstack
  PROVE  /\ d \in Seq(Cell) /\ Len(d) = dpos /\ argc <= Ctop.want /\ dpos - argc \in 0..dpos
         /\ exec => dpos - argc \in 1..dpos
         /\ \A i \in 1..dpos : d[i] = IF exec /\ i = dpos - argc THEN Null ELSE dstack[i]
<1>1. Taken(argc, exec) <= Ctop.want /\ Taken(argc, exec) \in Nat /\ Ctop.want \in Nat
      /\ dpos \in Nat /\ argc <= Ctop.want /\ (exec => argc + 1 <= Ctop.want)
  <2> DEFINE t == Taken(argc, exec)
             c == Ctop.want
  <2>1. /\ t \in Nat /\ argc <= t /\ (exec => argc + 1 <= t) /\ c \in Nat /\ t <= c
        /\ dpos \in Nat
    BY TakenFacts, CtopFacts, InvFacts
  <2> HIDE DEF t, c
  <2>2. argc <= c /\ (exec => argc + 1 <= c)
    BY <2>1
  <2> QED BY <2>1, <2>2 DEF t, c
<1>2. dpos - argc \in 0..dpos
  BY <1>1, Operands
<1>3. ASSUME exec PROVE dpos - argc \in 1..dpos
  <2>1. argc + 1 <= Ctop.want
    BY <1>1, <1>3
  <2>2. dpos - (argc + 1) \in 0..dpos
    BY <2>1, Operands
  <2> QED BY <1>1, <1>2, <2>2
<1>4. dstack \in Seq(Cell) /\ Len(dstack) = dpos /\ Null \in Cell
  BY InvFacts DEF Cell
<1>5. CASE exec
  <2>1. dpos - argc \in 1..Len(dstack)
    BY <1>3, <1>4, <1>5
  <2>2. d = [dstack EXCEPT ![dpos - argc] = Null]
    BY <1>5
  <2>3. /\ d \in Seq(Cell) /\ Len(d) = Len(dstack)
        /\ \A i \in 1..Len(dstack) : d[i] = IF i = dpos - argc THEN Null ELSE dstack[i]
    BY <1>4, <2>1, <2>2, ExceptSeq
  <2> QED BY <1>1, <1>2, <1>3, <1>4, <1>5, <2>3
<1>6. CASE ~exec
  BY <1>1, <1>2, <1>4, <1>6
<1> QED BY <1>5, <1>6

LEMMA PrimBeginInv ==
  ASSUME IInv, NEW argc \in Nat, NEW exec \in BOOLEAN, PrimBegin(argc, exec)
  PROVE  IInv'
<1> DEFINE pr == [kind |-> "prim", argc |-> argc, exec |-> exec]
<1>1. cpos > 0 /\ Ctop.want >= Taken(argc, exec)
  BY NonePending DEF PrimBegin, Step
<1>2. dstack' = (IF exec THEN [dstack EXCEPT ![dpos - argc] = Null] ELSE dstack)
      /\ cstack' = Retop(Ctop.want, pr) /\ UNCHANGED <<dsize, csize, queue, pipes, brk>>
  BY DEF PrimBegin
<1>3. dstack' \in Seq(Cell) /\ Len(dstack') = dpos
  BY <1>1, <1>2, Nulled
<1>4. pr \in Prim /\ pr.kind = "prim" /\ Pending(pr) = Taken(argc, exec)
  BY DEF Prim, Pending
<1> HIDE DEF pr
<1>5. pipes' = Left(pipes, dsize') /\ dsize' \in Nat /\ dsize <= dsize' /\ dpos <= dsize'
  BY <1>2, Unmoved, InvFacts
<1> QED BY <1>1, <1>2, <1>3, <1>4, <1>5, CtopFacts, RetopInv

LEMMA PrimEndInv ==
  ASSUME IInv, NEW v \in Cell, PrimEnd(v)
  PROVE  IInv'
<1> DEFINE argc == Ctop.prim.argc
           exec == Ctop.prim.exec
           d == Take(dstack, dpos - argc)
           w == Ctop.want - argc
<1>1. cpos > 0 /\ ~Breaking /\ Ctop.prim.kind = "prim"
  BY DEF PrimEnd, InPrim
<1>2. argc \in Nat /\ exec \in BOOLEAN /\ Ctop.want >= Taken(argc, exec)
  BY <1>1, CtopFacts DEF Prim, Pending
<1> HIDE DEF argc, exec
<1>3. /\ argc <= Ctop.want /\ dpos - argc \in 0..dpos /\ (exec => dpos - argc \in 1..dpos)
  BY <1>1, <1>2, Nulled
<1>4. w \in Nat /\ Ctop.dstart + Ctop.nv + w <= dpos - argc
  BY <1>1, <1>2, <1>3, Operands
<1>5. d \in Seq(Cell) /\ Len(d) = dpos - argc
  BY <1>3, InvFacts, TakeProperties
<1>6. NoPrim \in Prim /\ Pending(NoPrim) = 0
  BY DEF Prim, NoPrim, Pending
<1>7. UNCHANGED <<csize, queue, brk>>
  BY DEF PrimEnd
<1>8. CASE exec
  <2>1. dstack' = [d EXCEPT ![dpos - argc] = v] /\ cstack' = Retop(w, NoPrim)
        /\ UNCHANGED <<dsize, pipes>>
    BY <1>8 DEF PrimEnd, argc, exec
  <2>2. dpos - argc \in 1..Len(d)
    BY <1>3, <1>5, <1>8
  <2> HIDE DEF d, w
  <2>3. dstack' \in Seq(Cell) /\ Len(dstack') = dpos - argc
    BY <1>5, <2>1, <2>2, ExceptSeq
  <2>4. pipes' = Left(pipes, dsize') /\ dsize' \in Nat /\ dsize <= dsize' /\ Len(dstack') <= dsize'
    BY <1>3, <2>1, <2>3, Unmoved, InvFacts
  <2>5. w \in Nat /\ w >= Pending(NoPrim) /\ Ctop.dstart + Ctop.nv + w <= Len(dstack')
    BY <1>4, <1>6, <2>3
  <2> QED BY <1>1, <1>6, <1>7, <2>1, <2>3, <2>4, <2>5, RetopInv
<1>9. CASE ~exec
  <2>1. dstack' = Append(d, v) /\ cstack' = Retop(w + 1, NoPrim)
        /\ dsize' = Fit(dsize, dpos - argc + 1) /\ pipes' = Left(pipes, dsize')
    BY <1>9 DEF PrimEnd, argc, exec, Double
  <2> HIDE DEF d
  <2>2. dstack' \in Seq(Cell) /\ Len(dstack') = dpos - argc + 1
    BY <1>5, <2>1, AppendProperties
  <2> DEFINE need == dpos - argc + 1
  <2>3. need \in Nat /\ need <= 2 * dsize /\ dsize \in Nat
    BY <1>3, InvFacts
  <2>4. dsize' \in Nat /\ dsize <= dsize' /\ Len(dstack') <= dsize'
    <3>1. dsize' = Fit(dsize, need) /\ Len(dstack') = need
      BY <2>1, <2>2
    <3> HIDE DEF need
    <3> QED BY <2>3, <3>1, FitEnough
  <2>5. w + 1 \in Nat /\ w + 1 >= 0 /\ Ctop.dstart + Ctop.nv + (w + 1) <= Len(dstack')
    <3> DEFINE a == Ctop.dstart
               b == Ctop.nv
               m == dpos - argc
    <3>1. a \in Nat /\ b \in Nat /\ w \in Nat /\ m \in Nat /\ a + b + w <= m /\ Len(dstack') = m + 1
      BY <1>1, <1>3, <1>4, <2>2, CtopFacts
    <3> HIDE DEF a, b, m, w
    <3>2. a + b + (w + 1) <= m + 1 /\ w + 1 \in Nat /\ w + 1 >= 0
      BY <3>1
    <3> QED BY <3>1, <3>2 DEF a, b
  <2> HIDE DEF w
  <2> QED BY <1>1, <1>6, <1>7, <2>1, <2>2, <2>4, <2>5, RetopInv
<1> QED BY <1>2, <1>8, <1>9

LEMMA CalleeInv ==
  ASSUME IInv,
         NEW d \in Seq(Cell), NEW size \in Nat, dsize <= size, Len(d) <= size,
         NEW cs, NEW n \in Nat, Stack(n, cs), Len(cs) = cpos, LoopsIn(pipes, cs),
         NEW attached \in BOOLEAN, NEW argc \in Nat, argc <= Len(d),
         attached <=> cs # <<>> /\ cs[Len(cs)].prim.kind = "none",
         cs # <<>> => FrameLaid(cs[Len(cs)], Len(d) - argc),
         Callee(argc, attached, d, size, cs),
         UNCHANGED <<queue, brk>>
  PROVE  IInv'
<1>1. Len(d) \in Nat /\ Len(d) - argc - 0 = Len(d) - argc /\ Len(d) - 0 - argc = Len(d) - argc
      /\ argc + 0 <= Len(d) /\ 0 + argc <= Len(d)
  OBVIOUS
<1>2. ASSUME NEW p \in Progs, Cpush(d, size, cs, p, argc, attached, 0) PROVE IInv'
  <2>1. cs # <<>> => FrameLaid(cs[Len(cs)], Len(d) - argc - 0)
    BY <1>1
  <2> QED BY <1>1, <1>2, <2>1, CpushState
<1>3. ASSUME Cpush(d, size, cs, PcallProg, 0, attached, argc) PROVE IInv'
  <2>1. cs # <<>> => FrameLaid(cs[Len(cs)], Len(d) - 0 - argc)
    BY <1>1
  <2> QED BY <1>1, <1>3, <2>1, CpushState
<1> QED BY <1>2, <1>3 DEF Callee

LEMMA CallvInv ==
  ASSUME IInv, NEW argc \in Nat, NEW exec \in BOOLEAN, NEW args \in Args,
         Callv(argc, exec, args)
  PROVE  IInv'
<1> DEFINE m == dpos - argc
           low == Take(dstack, m)
           base == IF exec THEN [low EXCEPT ![m] = Null] ELSE low
           d == base \o args
           t == Taken(argc, exec)
           cs == Want(Ctop.want - t)
<1>1. /\ Running /\ cpos > 0 /\ Pending(Ctop.prim) = 0 /\ Ctop.prim.kind = "none"
      /\ Ctop.want >= t
  BY NonePending DEF Callv, Step
<1>2. Callee(Len(args), TRUE, d, Fit(dsize, Len(d)), cs) /\ UNCHANGED <<queue, brk>>
  BY DEF Callv
<1>3. m \in 0..dpos /\ (exec => m \in 1..dpos)
  BY <1>1, Nulled
<1>4. args \in Seq(Cell) /\ Len(args) \in Nat /\ Len(args) <= InitSize
  <2>1. PICK n \in 0..MaxArgs : args \in [1..n -> Cell]
    BY DEF Args, Argc
  <2>2. n \in Nat /\ n <= InitSize
    BY SizesAssumption
  <2> QED BY <2>1, <2>2
<1>5. base \in Seq(Cell) /\ Len(base) = m
  <2>1. low \in Seq(Cell) /\ Len(low) = m
    <3> HIDE DEF m
    <3>1. m \in 0..Len(dstack)
      BY <1>3, InvFacts
    <3> QED BY <3>1, InvFacts, TakeProperties
  <2>2. Null \in Cell
    BY DEF Cell
  <2> HIDE DEF low, m
  <2>3. CASE exec
    <3>1. base = [low EXCEPT ![m] = Null] /\ m \in 1..Len(low)
      BY <1>3, <2>1, <2>3
    <3> QED BY <2>1, <2>2, <3>1, ExceptSeq
  <2>4. CASE ~exec
    BY <2>1, <2>4
  <2> QED BY <2>3, <2>4
<1> HIDE DEF base, t, low
<1>6. d \in Seq(Cell) /\ Len(d) = m + Len(args)
  BY <1>4, <1>5, ConcatProperties
<1>7. /\ Stack(m, cs) /\ Len(cs) = cpos /\ cs # <<>> /\ cs[Len(cs)].prim = Ctop.prim
      /\ FrameLaid(cs[Len(cs)], m) /\ LoopsIn(pipes, cs)
  <2>1. t \in Nat /\ argc <= t /\ Ctop.want \in Nat
    BY <1>1, TakenFacts, CtopFacts DEF t
  <2>2. Ctop.want - t \in Nat
    BY <1>1, <2>1
  <2>3. Ctop.dstart + Ctop.nv + (Ctop.want - t) <= m /\ m \in Nat
    <3>1. Ctop.dstart + Ctop.nv + (Ctop.want - argc) <= m /\ Ctop.want - argc \in Nat
      <4>1. argc <= Ctop.want
        BY <1>1, <2>1
      <4> QED BY <1>1, <4>1, Operands
    <3> DEFINE a == Ctop.dstart
               b == Ctop.nv
               c == Ctop.want
    <3>2. a \in Nat /\ b \in Nat /\ c \in Nat /\ a + b + (c - argc) <= m /\ m \in Nat
      BY <1>1, <1>3, <3>1, CtopFacts
    <3> HIDE DEF a, b, c, m
    <3>3. a + b + (c - t) <= m
      BY <2>1, <3>2
    <3> QED BY <3>2, <3>3 DEF a, b, c
  <2>4. Ctop.prim \in Prim /\ Ctop.want - t >= Pending(Ctop.prim)
    BY <1>1, <2>2, CtopFacts
  <2> QED BY <1>1, <2>2, <2>3, <2>4, RetopFacts DEF Want
<1> HIDE DEF cs, d
<1>8. Len(d) - Len(args) = m /\ Len(args) <= Len(d) /\ m \in Nat
  <2> HIDE DEF m
  <2> QED BY <1>3, <1>4, <1>6, Sizes
<1>9. Fit(dsize, Len(d)) \in Nat /\ dsize <= Fit(dsize, Len(d)) /\ Len(d) <= Fit(dsize, Len(d))
  <2> HIDE DEF m
  <2>1. dsize \in Nat /\ Len(d) \in Nat /\ Len(d) <= 2 * dsize
    BY <1>3, <1>4, <1>6, Sizes
  <2> QED BY <2>1, FitEnough
<1>10. TRUE <=> cs # <<>> /\ cs[Len(cs)].prim.kind = "none"
  BY <1>1, <1>7
<1> HIDE DEF m
<1> QED BY <1>2, <1>4, <1>6, <1>7, <1>8, <1>9, <1>10, CalleeInv

LEMMA DetachInv ==
  ASSUME IInv, NEW argc \in Nat, NEW exec \in BOOLEAN, Detach(argc, exec)
  PROVE  IInv'
<1> DEFINE d == IF exec THEN [dstack EXCEPT ![dpos - argc] = Null] ELSE dstack
           pr == [kind |-> "detach", argc |-> 1, exec |-> exec]
           k == argc - 1
           w == Ctop.want - k
           cs == Retop(w, pr)
           m == dpos - k
<1>1. /\ Running /\ cpos > 0 /\ argc >= 1 /\ Ctop.want >= Taken(argc, exec)
  BY NonePending DEF Detach, Step
<1>2. Callee(k, FALSE, d, dsize, cs) /\ UNCHANGED <<queue, brk>>
  BY DEF Detach
<1>3. d \in Seq(Cell) /\ Len(d) = dpos /\ argc <= Ctop.want
  BY <1>1, Nulled
<1>4. k \in Nat /\ k <= Ctop.want
  BY <1>1, <1>3, CtopFacts
<1>5. m \in 0..dpos /\ w \in Nat /\ Ctop.dstart + Ctop.nv + w <= m /\ m \in Nat
  <2> HIDE DEF k
  <2> QED BY <1>1, <1>4, Operands, InvFacts
<1>6. pr \in Prim /\ pr.kind = "detach" /\ Pending(pr) = Taken(1, exec)
  BY DEF Prim, Pending
<1>7. w >= Pending(pr)
  <2>1. Taken(argc, exec) = Taken(1, exec) + k /\ Taken(1, exec) \in Nat
    BY <1>1 DEF Taken
  <2> DEFINE c == Ctop.want
             t == Taken(1, exec)
  <2>2. c \in Nat /\ t \in Nat /\ k \in Nat /\ c >= t + k
    BY <1>1, <1>4, <2>1, CtopFacts
  <2> HIDE DEF c, t, k
  <2>3. c - k >= t
    BY <2>2
  <2> QED BY <1>6, <2>3 DEF c, t
<1> HIDE DEF d, pr, w, k
<1>8. /\ Stack(m, cs) /\ Len(cs) = cpos /\ cs # <<>> /\ cs[Len(cs)].prim = pr
      /\ FrameLaid(cs[Len(cs)], m) /\ LoopsIn(pipes, cs)
  <2> HIDE DEF m
  <2> QED BY <1>1, <1>5, <1>6, <1>7, RetopFacts
<1>9. FALSE <=> cs # <<>> /\ cs[Len(cs)].prim.kind = "none"
  BY <1>6, <1>8
<1> HIDE DEF cs
<1>10. Len(d) - k = m /\ k <= Len(d) /\ Len(d) <= dsize /\ dsize \in Nat /\ dsize <= dsize
  BY <1>3, <1>4, <1>5, InvFacts
<1> HIDE DEF m
<1> QED BY <1>2, <1>3, <1>4, <1>5, <1>8, <1>9, <1>10, CalleeInv

LEMMA DetachEndInv ==
  ASSUME IInv, DetachEnd
  PROVE  IInv'
<1> DEFINE w == IF Ctop.prim.exec THEN Ctop.want - 1 ELSE Ctop.want
<1>1. cpos > 0 /\ Ctop.prim.kind = "detach" /\ dstack' = [dstack EXCEPT ![dpos] = Null]
      /\ cstack' = Retop(w, NoPrim) /\ UNCHANGED <<dsize, csize, queue, pipes, brk>>
  BY DEF DetachEnd
<1>2. 1 <= Ctop.want
  <2>1. Ctop.prim.argc = 1 /\ Pending(Ctop.prim) = Taken(1, Ctop.prim.exec)
        /\ Ctop.prim.exec \in BOOLEAN
    BY <1>1, CtopFacts DEF Prim, Pending
  <2>2. 1 <= Taken(1, Ctop.prim.exec) /\ Taken(1, Ctop.prim.exec) \in Nat
    BY <2>1, TakenFacts
  <2> QED BY <1>1, <2>1, <2>2, CtopFacts
<1>3. dpos \in 1..Len(dstack)
  BY <1>1, <1>2, Operands, InvFacts
<1>4. dstack' \in Seq(Cell) /\ Len(dstack') = dpos
  <2>1. Null \in Cell
    BY DEF Cell
  <2> QED BY <1>1, <1>3, <2>1, InvFacts, ExceptSeq
<1>5. w \in Nat /\ w <= Ctop.want
  BY <1>1, <1>2, CtopFacts
<1>6. Ctop.dstart + Ctop.nv + w <= Len(dstack')
  <2> HIDE DEF w
  <2> DEFINE a == Ctop.dstart
             b == Ctop.nv
             c == Ctop.want
  <2>1. a \in Nat /\ b \in Nat /\ c \in Nat /\ a + b + c <= dpos /\ dpos \in Nat /\ w <= c
    BY <1>1, <1>5, CtopFacts, InvFacts
  <2> HIDE DEF a, b, c
  <2>2. a + b + w <= dpos
    BY <1>5, <2>1
  <2> QED BY <1>4, <2>2 DEF a, b
<1>7. NoPrim \in Prim /\ w >= Pending(NoPrim)
  BY <1>5 DEF Prim, NoPrim, Pending
<1>8. ~Breaking
  <2> SUFFICES ASSUME Breaking PROVE FALSE
    OBVIOUS
  <2> DEFINE i == Len(pipes)
  <2>1. i \in 1..Len(pipes) /\ pipes[i].at = cpos
    <3>1. Len(pipes) \in Nat /\ pipes \in Seq(Pipe)
      BY InvFacts DEF GoodPipes
    <3> QED BY <3>1 DEF Breaking
  <2>2. pipes[i].at > 0 => cstack[pipes[i].at].prim.kind = "prim"
    BY <2>1, InvFacts DEF LoopsIn
  <2> QED BY <1>1, <2>1, <2>2 DEF Ctop
<1> HIDE DEF w
<1>9. pipes' = Left(pipes, dsize') /\ dsize' \in Nat /\ dsize <= dsize' /\ Len(dstack') <= dsize'
  BY <1>1, <1>4, Unmoved, InvFacts
<1> QED BY <1>1, <1>4, <1>5, <1>6, <1>7, <1>8, <1>9, RetopInv

-----------------------------------------------------------------------------
(* And suspension and resumption.                                          *)

LEMMA GoodQueueExcept ==
  ASSUME NEW ds, NEW cz, GoodQueue(queue, ds, cz), NEW q \in Queues,
         NEW list, GoodList(list, ds, cz)
  PROVE  GoodQueue([queue EXCEPT ![q] = list], ds, cz)
<1>1. queue \in [Queues -> Seq(Estate)] /\ list \in Seq(Estate)
  BY DEF GoodQueue, GoodList
<1>2. [queue EXCEPT ![q] = list] \in [Queues -> Seq(Estate)]
  BY <1>1
<1>3. \A x \in Queues : [queue EXCEPT ![q] = list][x] = IF x = q THEN list ELSE queue[x]
  BY <1>1
<1>4. \A x \in Queues : GoodList([queue EXCEPT ![q] = list][x], ds, cz)
  BY <1>3 DEF GoodQueue
<1> QED BY <1>2, <1>4 DEF GoodQueue

LEMMA GoodConcat ==
  ASSUME NEW ds, NEW cz, NEW a, GoodList(a, ds, cz), NEW b, GoodList(b, ds, cz)
  PROVE  GoodList(a \o b, ds, cz)
<1>1. a \in Seq(Estate) /\ b \in Seq(Estate) /\ Len(a) \in Nat /\ Len(b) \in Nat
  BY DEF GoodList
<1>2. /\ a \o b \in Seq(Estate) /\ Len(a \o b) = Len(a) + Len(b)
      /\ \A i \in 1..(Len(a) + Len(b)) :
           (a \o b)[i] = IF i <= Len(a) THEN a[i] ELSE b[i - Len(a)]
  BY <1>1, ConcatProperties
<1> SUFFICES ASSUME NEW i \in 1..(Len(a) + Len(b)) PROVE Good((a \o b)[i], ds, cz)
  BY <1>2 DEF GoodList
<1>3. CASE i <= Len(a)
  <2>1. i \in 1..Len(a)
    BY <1>1, <1>3
  <2> QED BY <1>2, <1>3, <2>1, GoodListElement
<1>4. CASE ~(i <= Len(a))
  <2>1. i - Len(a) \in 1..Len(b)
    BY <1>1, <1>4
  <2> QED BY <1>2, <1>4, <2>1, GoodListElement
<1> QED BY <1>3, <1>4

LEMMA GoodSub ==
  ASSUME NEW ds, NEW cz, NEW list, GoodList(list, ds, cz),
         NEW m \in 1..(Len(list) + 1), NEW n \in 0..Len(list), m <= n + 1
  PROVE  GoodList(SubSeq(list, m, n), ds, cz)
<1>1. list \in Seq(Estate) /\ Len(list) \in Nat
  BY DEF GoodList
<1>2. /\ SubSeq(list, m, n) \in Seq(Estate) /\ Len(SubSeq(list, m, n)) = n - m + 1
      /\ \A i \in 1..(n - m + 1) : SubSeq(list, m, n)[i] = list[m + i - 1]
  BY <1>1, SubSeqType
<1> SUFFICES ASSUME NEW i \in 1..(n - m + 1) PROVE Good(SubSeq(list, m, n)[i], ds, cz)
  BY <1>2 DEF GoodList
<1>3. m + i - 1 \in 1..Len(list)
  BY <1>1
<1> QED BY <1>2, <1>3, GoodListElement

LEMMA GoodOne ==
  ASSUME NEW ds, NEW cz, NEW es, Good(es, ds, cz)
  PROVE  GoodList(<<es>>, ds, cz)
BY DEF GoodList, Good

\* Tail and Head of a list of suspended programs.
LEMMA GoodTail ==
  ASSUME NEW ds, NEW cz, NEW list, GoodList(list, ds, cz), list # <<>>
  PROVE  GoodList(Tail(list), ds, cz) /\ Good(Head(list), ds, cz)
<1>1. list \in Seq(Estate) /\ Len(list) \in Nat /\ Len(list) > 0
  BY DEF GoodList
<1>2. /\ Tail(list) \in Seq(Estate) /\ Len(Tail(list)) = Len(list) - 1
      /\ \A i \in 1..(Len(list) - 1) : Tail(list)[i] = list[i + 1]
      /\ Head(list) = list[1]
  BY <1>1, HeadTailProperties
<1>3. \A i \in 1..(Len(list) - 1) : i + 1 \in 1..Len(list)
  BY <1>1
<1>4. 1 \in 1..Len(list)
  BY <1>1
<1> QED BY <1>2, <1>3, <1>4 DEF GoodList

LEMMA GoodInsert ==
  ASSUME NEW ds, NEW cz, NEW list, GoodList(list, ds, cz), NEW i \in 0..Len(list),
         NEW es, Good(es, ds, cz)
  PROVE  GoodList(Insert(list, i, es), ds, cz)
<1>1. Len(list) \in Nat
  BY DEF GoodList
<1>2. GoodList(Take(list, i), ds, cz)
  <2>1. 1 \in 1..(Len(list) + 1) /\ 1 <= i + 1
    BY <1>1
  <2> QED BY <2>1, GoodSub DEF Take
<1>3. GoodList(SubSeq(list, i + 1, Len(list)), ds, cz)
  <2>1. i + 1 \in 1..(Len(list) + 1) /\ Len(list) \in 0..Len(list) /\ i + 1 <= Len(list) + 1
    BY <1>1
  <2> QED BY <2>1, GoodSub
<1>4. GoodList(<<es>>, ds, cz)
  BY GoodOne
<1>5. GoodList(Take(list, i) \o <<es>>, ds, cz)
  BY <1>2, <1>4, GoodConcat
<1> QED BY <1>3, <1>5, GoodConcat DEF Insert

\* What suspend() saves can be resumed.
LEMMA GoodImage ==
  ASSUME IInv, cpos > 0, Running, NEW argc \in Nat, NEW exec \in BOOLEAN,
         Ctop.want >= Taken(argc, exec)
  PROVE  Good(Image(argc, exec), dsize, csize)
<1> DEFINE start == cstack[Base].dstart
           w == Ctop.want - Taken(argc, exec)
           cs == Want(w)
           low == IF exec THEN [dstack EXCEPT ![dpos - argc] = Null] ELSE dstack
           m == dpos - argc
           data == SubSeq(low, start + 1, m)
           es == [data |-> data, frames |-> SubSeq(cs, Base, cpos)]
<1>1. low \in Seq(Cell) /\ Len(low) = dpos /\ argc <= Ctop.want /\ m \in 0..dpos
  BY Nulled
<1>2. /\ Base \in 1..cpos /\ ~cstack[Base].attached
      /\ \A j \in (Base + 1)..cpos : cstack[j].attached
      /\ start \in Nat /\ start <= Ctop.dstart
  BY BaseFacts
<1>3. w \in Nat /\ w >= Pending(Ctop.prim) /\ Ctop.dstart + Ctop.nv + w <= m /\ m \in Nat
      /\ start <= m
  <2>1. Ctop.dstart + Ctop.nv + (Ctop.want - argc) <= m
    BY <1>1, Operands
  <2> DEFINE a == Ctop.dstart
             b == Ctop.nv
             c == Ctop.want
             t == Taken(argc, exec)
  <2>2. /\ a \in Nat /\ b \in Nat /\ c \in Nat /\ t \in Nat /\ argc <= t /\ t <= c
        /\ a + b + (c - argc) <= m /\ m \in Nat /\ Pending(Ctop.prim) = 0
    BY <1>1, <2>1, TakenFacts, CtopFacts, InvFacts, NonePending
  <2> HIDE DEF a, b, c, t, m
  <2>3. c - t \in Nat /\ a + b + (c - t) <= m
    BY <2>2
  <2>4. start <= m
    <3> HIDE DEF start
    <3> QED BY <1>2, <2>2, <2>3 DEF a
  <2> QED BY <2>2, <2>3, <2>4 DEF a, b, c, t
<1> HIDE DEF w, m, low
<1>4. data \in Seq(Cell) /\ Len(data) = m - start
  <2> HIDE DEF start
  <2>1. start + 1 \in 1..(Len(low) + 1) /\ m \in 0..Len(low) /\ start + 1 <= m + 1
        /\ m - (start + 1) + 1 = m - start
    BY <1>1, <1>2, <1>3, InvFacts
  <2> QED BY <1>1, <2>1, SubSeqType
<1>5. /\ Stack(m, cs) /\ Len(cs) = cpos /\ cs # <<>> /\ cs[Len(cs)].prim = Ctop.prim
  BY <1>3, CtopFacts, RetopFacts DEF Want
<1>6. \A k \in 1..cpos : cs[k].dstart = cstack[k].dstart /\ cs[k].attached = cstack[k].attached
  <2>1. \A k \in 1..cpos : cstack[k] \in Frame
    BY InvFacts, ElementOfSeq
  <2>2. cpos \in Nat /\ cstack \in Seq(Frame) /\ Len(cstack) = cpos
    BY InvFacts
  <2>3. ASSUME NEW k \in 1..cpos
        PROVE  cs[k].dstart = cstack[k].dstart /\ cs[k].attached = cstack[k].attached
    <3>1. cstack[k] \in Frame /\ k \in DOMAIN cstack /\ cpos \in DOMAIN cstack
      BY <2>1, <2>2
    <3>2. CASE k = cpos
      BY <3>1, <3>2 DEF Want, Retop, Frame
    <3>3. CASE k # cpos
      BY <3>1, <3>3 DEF Want, Retop, Frame
    <3> QED BY <3>2, <3>3
  <2> QED BY <2>3
<1> HIDE DEF cs, data
<1>7. es \in Estate /\ ImageLaid(es) /\ Len(es.frames) = cpos - Base + 1
  <2>1. /\ Base \in 1..Len(cs) /\ ~cs[Base].attached
        /\ \A j \in (Base + 1)..Len(cs) : cs[j].attached
    <3>1. \A j \in (Base + 1)..cpos : j \in 1..cpos
      BY <1>2, InvFacts
    <3> QED BY <1>2, <1>5, <1>6, <3>1
  <2>2. cs[Base].dstart + Len(data) = m
    <3>1. start + (m - start) = m
      BY <1>2, <1>3
    <3> QED BY <1>2, <1>4, <1>6, <3>1
  <2>3. cs[Len(cs)].prim.kind = "none"
    BY <1>5, NonePending
  <2>4. es = [data |-> data, frames |-> SubSeq(cs, Base, Len(cs))]
    BY <1>5
  <2>5. m \in Nat /\ Stack(m, cs) /\ data \in Seq(Cell) /\ Len(cs) = cpos
    BY <1>3, <1>4, <1>5
  <2> HIDE DEF es
  <2>6. es \in Estate /\ ImageLaid(es) /\ Len(es.frames) = Len(cs) - Base + 1
    <3>1. PICK c, x, b, n : c = cs /\ x = data /\ b = Base /\ n = m
      OBVIOUS
    <3>2. /\ n \in Nat /\ Stack(n, c) /\ b \in 1..Len(c) /\ ~c[b].attached
          /\ \A j \in (b + 1)..Len(c) : c[j].attached
          /\ c[Len(c)].prim.kind = "none" /\ x \in Seq(Cell) /\ c[b].dstart + Len(x) = n
      BY ONLY <2>1, <2>2, <2>3, <2>5, <3>1
    <3> DEFINE r == [data |-> x, frames |-> SubSeq(c, b, Len(c))]
    <3>3. r \in Estate /\ ImageLaid(r) /\ Len(r.frames) = Len(c) - b + 1
      BY ONLY <3>2, ImageOfStack, SMTT(30)
    <3>4. es = r
      BY <2>4, <3>1
    <3> HIDE DEF r
    <3> QED BY ONLY <3>1, <3>3, <3>4
  <2> QED BY <2>5, <2>6
<1>8. Len(es.data) <= dsize /\ Len(es.frames) <= csize
  <2>1. es.data = data
    OBVIOUS
  <2>2. m - start <= dsize
    <3> HIDE DEF start
    <3> QED BY <1>1, <1>2, <1>3, InvFacts
  <2>3. cpos - Base + 1 <= csize
    <3>1. cpos \in Nat /\ csize \in Nat /\ cpos <= csize
      BY InvFacts
    <3> QED BY <1>2, <3>1
  <2> QED BY <1>4, <1>7, <2>1, <2>2, <2>3
<1>9. Image(argc, exec) = es
  BY DEF Image, w, cs, low, data, m
<1> HIDE DEF es
<1> QED BY <1>7, <1>8, <1>9 DEF Good

LEMMA PlacesIn ==
  ASSUME IInv, NEW q \in Queues
  PROVE  Places(q) \subseteq 0..Len(queue[q])
<1>1. Len(queue[q]) \in Nat
  BY InvFacts DEF GoodQueue, GoodList
<1> QED BY <1>1 DEF Places

LEMMA SuspendInv ==
  ASSUME IInv, NEW q \in Queues, NEW argc \in Nat, NEW exec \in BOOLEAN,
         Suspend(q, argc, exec)
  PROVE  IInv'
<1> DEFINE es == Image(argc, exec)
<1>1. Running /\ cpos > 0 /\ Ctop.want >= Taken(argc, exec)
  BY NonePending DEF Suspend, Step
<1>2. PICK i \in Places(q) : queue' = [queue EXCEPT ![q] = Insert(queue[q], i, es)]
  BY DEF Suspend
<1>3. i \in 0..Len(queue[q]) /\ GoodList(queue[q], dsize, csize)
  BY PlacesIn, InvFacts DEF GoodQueue
<1>4. Good(es, dsize, csize)
  BY <1>1, GoodImage
<1> HIDE DEF es
<1>5. GoodList(Insert(queue[q], i, es), dsize, csize)
  BY <1>3, <1>4, GoodInsert
<1>6. GoodQueue(queue', dsize, csize)
  BY <1>2, <1>5, InvFacts, GoodQueueExcept
<1>7. Base \in 1..cpos /\ \A k \in 1..Len(pipes) : pipes[k].at < Base
  BY <1>1, BaseFacts, LoopsBelow
<1>8. dstack' = Take(dstack, cstack[Base].dstart) /\ cstack' = Take(cstack, Base - 1)
      /\ UNCHANGED <<dsize, csize, pipes, brk>>
  BY DEF Suspend
<1> QED BY <1>6, <1>7, <1>8, CutInv

LEMMA ResumeInv ==
  ASSUME IInv, NEW q \in Queues, NEW v \in Cell, Resume(q, v)
  PROVE  IInv'
<1> DEFINE es == Head(queue[q])
<1>1. /\ InC /\ queue[q] # <<>> /\ ResumeOne(es, v, pipes)
      /\ queue' = [queue EXCEPT ![q] = Tail(queue[q])] /\ brk' = brk
  BY DEF Resume
<1>2. GoodList(queue[q], dsize, csize)
  BY InvFacts DEF GoodQueue
<1>3. GoodList(Tail(queue[q]), dsize, csize) /\ Good(es, dsize, csize)
  BY <1>1, <1>2, GoodTail
<1>4. GoodQueue(queue', dsize, csize)
  BY <1>1, <1>3, InvFacts, GoodQueueExcept
<1>5. cpos > 0 => Ctop.prim.kind # "none"
  BY <1>1, InvFacts DEF InC, MainLevel, InPrim
<1> HIDE DEF es
<1> QED BY <1>1, <1>3, <1>4, <1>5, InvFacts, ResumeState

\* Lists that are emptied, and those handed to break_pipe().
LEMMA NodeQueues ==
  ASSUME NEW n \in Nodes
  PROVE  /\ n \in Seq(Queues) /\ Len(n) \in Nat /\ DOMAIN n = 1..Len(n)
         /\ \A i \in 1..Len(n) : n[i] \in Queues
<1>1. n \in Seq(ReadQueues \cup KeyQueues)
  BY NodesAssumption
<1>2. Len(n) \in Nat /\ DOMAIN n = 1..Len(n)
  BY <1>1
<1>3. \A i \in 1..Len(n) : n[i] \in Queues
  BY <1>1, ElementOfSeq DEF Queues
<1> QED BY <1>1, <1>2, <1>3 DEF Queues

LEMMA GoodEmpty ==
  ASSUME NEW ds, NEW cz
  PROVE  GoodList(<<>>, ds, cz)
BY DEF GoodList

LEMMA EmptiedGood ==
  ASSUME IInv, NEW n
  PROVE  GoodQueue(Emptied(n), dsize, csize)
<1>1. GoodQueue(queue, dsize, csize)
  BY InvFacts
<1>2. \A q \in Queues : GoodList(Emptied(n)[q], dsize, csize)
  BY <1>1, GoodEmpty DEF Emptied, GoodQueue
<1>3. Emptied(n) \in [Queues -> Seq(Estate)]
  BY <1>2 DEF Emptied, GoodList
<1> QED BY <1>2, <1>3 DEF GoodQueue

\* The queues change, and nothing else.
LEMMA QueueInv ==
  ASSUME IInv, GoodQueue(queue', dsize, csize),
         UNCHANGED <<dstack, dsize, cstack, csize, pipes, brk>>
  PROVE  IInv'
<1>1. State(dstack, dsize, cstack, csize, queue', pipes)
  BY DEF IInv, State
<1> QED BY <1>1 DEF IInv

LEMMA DestroyPipeInv ==
  ASSUME IInv, NEW n \in Nodes, DestroyPipe(n)
  PROVE  IInv'
BY EmptiedGood, QueueInv DEF DestroyPipe

LEMMA DiscardEstateInv ==
  ASSUME IInv, NEW q \in Queues, NEW i, DiscardEstate(q, i)
  PROVE  IInv'
<1> DEFINE list == queue[q]
<1>1. GoodList(list, dsize, csize) /\ list \in Seq(Estate) /\ Len(list) \in Nat
  BY InvFacts DEF GoodQueue, GoodList
<1>2. i \in 1..Len(list)
  BY <1>1 DEF DiscardEstate
<1>3. queue' = [queue EXCEPT ![q] = Take(list, i - 1) \o SubSeq(list, i + 1, Len(list))]
      /\ UNCHANGED <<dstack, dsize, cstack, csize, pipes, brk>>
  BY DEF DiscardEstate
<1> HIDE DEF list
<1>4. GoodList(Take(list, i - 1), dsize, csize)
  <2>1. 1 \in 1..(Len(list) + 1) /\ i - 1 \in 0..Len(list) /\ 1 <= (i - 1) + 1
    BY <1>1, <1>2
  <2> QED BY <1>1, <2>1, GoodSub DEF Take
<1>5. GoodList(SubSeq(list, i + 1, Len(list)), dsize, csize)
  <2>1. i + 1 \in 1..(Len(list) + 1) /\ Len(list) \in 0..Len(list) /\ i + 1 <= Len(list) + 1
    BY <1>1, <1>2
  <2> QED BY <1>1, <2>1, GoodSub
<1>6. GoodQueue(queue', dsize, csize)
  BY <1>3, <1>4, <1>5, InvFacts, GoodConcat, GoodQueueExcept
<1> QED BY <1>3, <1>6, QueueInv

\* The break_pipe() loops change, and perhaps the queues.
LEMMA PipesInv ==
  ASSUME IInv, GoodQueue(queue', dsize, csize), GoodPipes(pipes', dsize, csize),
         LoopsIn(pipes', cstack), UNCHANGED <<dstack, dsize, cstack, csize, brk>>
  PROVE  IInv'
<1>1. State(dstack, dsize, cstack, csize, queue', pipes')
  BY DEF IInv, State
<1> QED BY <1>1 DEF IInv

LEMMA BreakPipeInv ==
  ASSUME IInv, NEW n \in Nodes, BreakPipe(n)
  PROVE  IInv'
<1> DEFINE p == [at |-> cpos, lists |-> [i \in 1..Len(n) |-> queue[n[i]]]]
           ls == p.lists
           c == Len(pipes)
<1>1. /\ InC /\ Awaited(n) /\ pipes' = Append(pipes, p) /\ queue' = Emptied(n)
      /\ UNCHANGED <<dstack, dsize, cstack, csize, brk>>
  BY DEF BreakPipe
<1>2. Len(n) \in Nat /\ Len(n) > 0 /\ \A i \in 1..Len(n) : n[i] \in Queues
  BY <1>1, NodeQueues DEF Awaited
<1>3. \A i \in 1..Len(n) : ls[i] = queue[n[i]] /\ GoodList(ls[i], dsize, csize)
  BY <1>2, InvFacts DEF GoodQueue
<1>4. ls \in Seq(Seq(Estate)) /\ Len(ls) = Len(n) /\ ls # <<>>
  <2>1. ls = [i \in 1..Len(n) |-> queue[n[i]]]
    OBVIOUS
  <2> HIDE DEF ls
  <2>2. ls \in [1..Len(n) -> Seq(Estate)]
    BY <1>3, <2>1 DEF GoodList
  <2> QED BY <1>2, <2>2
<1>5. GoodPipe(p, dsize, csize) /\ p.at = cpos /\ p \in Pipe
  <2>1. p.at = cpos /\ cpos \in Nat /\ p = [at |-> cpos, lists |-> ls]
    BY InvFacts
  <2> HIDE DEF ls, p
  <2>2. p \in Pipe /\ p.lists = ls
    BY <1>4, <2>1 DEF Pipe
  <2> QED BY <1>3, <1>4, <2>1, <2>2 DEF GoodPipe
<1>6. p.lists # <<>>
  BY <1>4
<1> HIDE DEF p, ls
<1>7. pipes \in Seq(Pipe) /\ c \in Nat /\ \A k \in 1..c : GoodPipe(pipes[k], dsize, csize)
  BY InvFacts DEF GoodPipes
<1>8. /\ pipes' \in Seq(Pipe) /\ Len(pipes') = c + 1
      /\ \A k \in 1..(c + 1) : pipes'[k] = IF k = c + 1 THEN p ELSE pipes[k]
  BY <1>1, <1>5, <1>7, AppendProperties
<1>9. GoodPipes(pipes', dsize, csize)
  <2> SUFFICES ASSUME NEW k \in 1..(c + 1) PROVE GoodPipe(pipes'[k], dsize, csize)
    BY <1>8 DEF GoodPipes
  <2>1. k # c + 1 => k \in 1..c
    BY <1>7
  <2> QED BY <1>5, <1>7, <1>8, <2>1
<1>10. \A k \in 1..c : pipes[k].at < cpos /\ pipes[k].at \in Nat
  <2>1. \A k \in 1..c : pipes[k].at \in Nat /\ pipes[k].at <= cpos
    BY StateFacts, InvFacts DEF IInv, LoopsIn
  <2>2. CASE cpos > 0
    <3>1. ~Breaking
      BY <1>1, <2>2, InvFacts DEF InC, MainLevel, InPrim
    <3> QED BY <2>1, <2>2, <3>1, LoopsBelow
  <2>3. CASE cpos = 0
    <3>1. ~Breaking
      BY <1>1, <2>3 DEF InC, MainLevel, InPrim
    <3>2. c > 0 => pipes[c].at # 0
      BY <1>7, <2>3, <3>1 DEF Breaking
    <3>3. c = 0
      <4>1. c > 0 => c \in 1..c /\ pipes[c].at <= 0 /\ pipes[c].at \in Nat
        BY <1>7, <2>1, <2>3
      <4> QED BY <1>7, <3>2, <4>1
    <3> QED BY <3>3
  <2> QED BY <2>2, <2>3, InvFacts
<1>11. LoopsIn(pipes', cstack)
  <2> SUFFICES ASSUME NEW i \in 1..(c + 1)
      PROVE /\ pipes'[i].lists # <<>> /\ pipes'[i].at <= Len(cstack)
            /\ pipes'[i].at > 0 => cstack[pipes'[i].at].prim.kind = "prim"
            /\ \A j \in 1..(i - 1) : pipes'[j].at < pipes'[i].at
    BY <1>8 DEF LoopsIn
  <2>1. \A j \in 1..(i - 1) : j \in 1..c /\ j \in 1..(c + 1) /\ j # c + 1
    BY <1>7
  <2>2. CASE i = c + 1
    <3>1. pipes'[i] = p
      BY <1>8, <2>2
    <3>2. cpos > 0 => cstack[cpos].prim.kind = "prim"
      BY <1>1, InvFacts DEF InC, MainLevel, InPrim, Ctop
    <3>3. cpos = Len(cstack) /\ cpos \in Nat
      BY InvFacts
    <3>4. \A j \in 1..(i - 1) : pipes'[j].at < cpos
      BY <1>8, <1>10, <2>1
    <3> QED BY <1>5, <1>6, <3>1, <3>2, <3>3, <3>4
  <2>3. CASE i # c + 1
    <3>1. i \in 1..c /\ pipes'[i] = pipes[i]
      BY <1>7, <1>8, <2>3
    <3>2. /\ pipes[i].lists # <<>> /\ pipes[i].at <= Len(cstack)
          /\ pipes[i].at > 0 => cstack[pipes[i].at].prim.kind = "prim"
          /\ \A j \in 1..(i - 1) : pipes[j].at < pipes[i].at
      BY <3>1, InvFacts DEF LoopsIn
    <3> QED BY <1>8, <2>1, <3>1, <3>2
  <2> QED BY <2>2, <2>3
<1> QED BY <1>1, <1>9, <1>11, EmptiedGood, PipesInv

\* The innermost break_pipe() loop goes on: it holds other programs.
LEMMA SetPipe ==
  ASSUME NEW ps, GoodPipes(ps, dsize, csize), LoopsIn(ps, cstack), Len(ps) > 0,
         NEW p2, GoodPipe(p2, dsize, csize), p2.at = ps[Len(ps)].at, p2.lists # <<>>
  PROVE  LET new == [ps EXCEPT ![Len(ps)] = p2]
         IN GoodPipes(new, dsize, csize) /\ LoopsIn(new, cstack)
<1> DEFINE c == Len(ps)
           new == [ps EXCEPT ![c] = p2]
<1>1. ps \in Seq(Pipe) /\ c \in Nat /\ c \in 1..c /\ p2 \in Pipe
  BY DEF GoodPipes, GoodPipe
<1>2. new \in Seq(Pipe) /\ Len(new) = c
      /\ \A k \in 1..c : new[k] = IF k = c THEN p2 ELSE ps[k]
  BY <1>1, ExceptSeq
<1> HIDE DEF new
<1>3. GoodPipes(new, dsize, csize)
  BY <1>2 DEF GoodPipes
<1>4. Alike(ps, new)
  BY <1>2 DEF Alike
<1>5. LoopsIn(new, cstack)
  BY <1>1, <1>4, AlikeLoops
<1> QED BY <1>3, <1>5 DEF new

\* break_pipe() has the control: the main level, or a primitive.
LEMMA BreakingFacts ==
  ASSUME IInv, Breaking
  PROVE  /\ Len(pipes) \in 1..Len(pipes) /\ Len(pipes) > 0 /\ pipes[Len(pipes)] \in Pipe
         /\ GoodPipe(pipes[Len(pipes)], dsize, csize)
         /\ pipes[Len(pipes)].lists # <<>>
         /\ cpos > 0 => Ctop.prim.kind = "prim"
<1>1. Len(pipes) \in Nat /\ Len(pipes) > 0 /\ pipes \in Seq(Pipe)
      /\ pipes[Len(pipes)].at = cpos
  BY InvFacts DEF Breaking, GoodPipes
<1>2. Len(pipes) \in 1..Len(pipes)
  BY <1>1
<1>3. /\ pipes[Len(pipes)].lists # <<>>
      /\ pipes[Len(pipes)].at > 0 => cstack[pipes[Len(pipes)].at].prim.kind = "prim"
  BY <1>2, InvFacts DEF LoopsIn
<1>4. GoodPipe(pipes[Len(pipes)], dsize, csize)
  BY <1>2, InvFacts DEF GoodPipes
<1> QED BY <1>1, <1>2, <1>3, <1>4 DEF Ctop, GoodPipe

LEMMA PipeNextInv ==
  ASSUME IInv, PipeNext
  PROVE  IInv'
<1> DEFINE top == Len(pipes)
           p == pipes[top]
           list == p.lists[1]
           ls2 == [p.lists EXCEPT ![1] = Tail(list)]
           p2 == [at |-> p.at, lists |-> ls2]
           rest == [pipes EXCEPT ![top].lists[1] = Tail(list)]
<1>1. /\ Breaking /\ list # <<>> /\ ResumeOne(Head(list), Null, rest)
      /\ UNCHANGED <<queue, brk>>
  BY DEF PipeNext
<1>2. /\ top \in 1..top /\ top > 0 /\ p \in Pipe /\ GoodPipe(p, dsize, csize) /\ p.lists # <<>>
      /\ cpos > 0 => Ctop.prim.kind = "prim"
  BY <1>1, BreakingFacts
<1>3. p.lists \in Seq(Seq(Estate)) /\ Len(p.lists) \in Nat /\ 1 \in 1..Len(p.lists)
  BY <1>2 DEF Pipe
<1>4. GoodList(list, dsize, csize)
  BY <1>2, <1>3 DEF GoodPipe
<1>5. GoodList(Tail(list), dsize, csize) /\ Good(Head(list), dsize, csize)
  BY <1>1, <1>4, GoodTail
<1>6. rest = [pipes EXCEPT ![top] = p2]
  <2>1. [p EXCEPT !.lists[1] = Tail(list)] = p2
    <3> DEFINE t == Tail(list)
    <3>1. [p EXCEPT !.lists[1] = t] = [p EXCEPT !.lists = [p.lists EXCEPT ![1] = t]]
      <4> HIDE DEF t, p
      <4> QED BY <1>2 DEF Pipe
    <3> HIDE DEF ls2, p
    <3>2. [p EXCEPT !.lists = ls2] = [at |-> p.at, lists |-> ls2]
      BY <1>2 DEF Pipe
    <3> QED BY <3>1, <3>2 DEF ls2
  <2>2. rest = [pipes EXCEPT ![top] = [p EXCEPT !.lists[1] = Tail(list)]]
    <3>1. pipes \in Seq(Pipe)
      BY InvFacts DEF GoodPipes
    <3> QED BY <1>2, <3>1
  <2> QED BY <2>1, <2>2
<1>7. ls2 \in Seq(Seq(Estate)) /\ Len(ls2) = Len(p.lists)
      /\ \A i \in 1..Len(p.lists) : ls2[i] = IF i = 1 THEN Tail(list) ELSE p.lists[i]
  <2>1. Tail(list) \in Seq(Estate)
    BY <1>5 DEF GoodList
  <2> HIDE DEF list
  <2> QED BY <1>3, <2>1, ExceptSeq
<1>8. GoodPipe(p2, dsize, csize) /\ p2.at = p.at /\ p2.lists # <<>>
  <2>1. p2.at = p.at /\ p2.lists = ls2 /\ p.at \in Nat
    BY <1>2 DEF Pipe
  <2> HIDE DEF ls2
  <2>2. p2 \in Pipe
    BY <1>7, <2>1 DEF Pipe
  <2> HIDE DEF p2, list
  <2>3. \A i \in 1..Len(ls2) : GoodList(ls2[i], dsize, csize)
    BY <1>2, <1>5, <1>7 DEF GoodPipe
  <2> QED BY <1>3, <1>7, <2>1, <2>2, <2>3 DEF GoodPipe
<1> HIDE DEF p2, list, rest
<1>9. GoodPipes(rest, dsize, csize) /\ LoopsIn(rest, cstack)
  BY <1>2, <1>6, <1>8, InvFacts, SetPipe
<1>10. GoodQueue(queue', dsize, csize) /\ Null \in Cell /\ (cpos > 0 => Ctop.prim.kind # "none")
  BY <1>1, <1>2, InvFacts DEF Cell
<1> QED BY <1>1, <1>5, <1>9, <1>10, ResumeState

LEMMA PipeEndInv ==
  ASSUME IInv, PipeEnd
  PROVE  IInv'
<1> DEFINE top == Len(pipes)
           p == pipes[top]
           ls == p.lists
<1>1. /\ Breaking /\ UNCHANGED <<dstack, dsize, cstack, csize, queue, brk>>
      /\ pipes' = IF Len(ls) = 1 THEN Take(pipes, top - 1)
                  ELSE [pipes EXCEPT ![top].lists = Tail(ls)]
  BY DEF PipeEnd
<1>2. /\ top \in 1..top /\ top > 0 /\ p \in Pipe /\ GoodPipe(p, dsize, csize) /\ ls # <<>>
  BY <1>1, BreakingFacts
<1>3. pipes \in Seq(Pipe) /\ top \in Nat
  BY InvFacts DEF GoodPipes
<1>4. GoodQueue(queue', dsize, csize)
  BY <1>1, InvFacts
<1>5. CASE Len(ls) = 1
  <2>1. top - 1 \in 0..Len(pipes)
    BY <1>2, <1>3
  <2>2. /\ pipes' \in Seq(Pipe) /\ Len(pipes') = top - 1
        /\ \A k \in 1..(top - 1) : pipes'[k] = pipes[k]
    <3>1. pipes' = Take(pipes, top - 1)
      BY <1>1, <1>5
    <3> QED BY <1>3, <2>1, <3>1, TakeProperties
  <2>3. \A k \in 1..(top - 1) : k \in 1..top
    BY <1>3
  <2>4. GoodPipes(pipes', dsize, csize)
    BY <2>2, <2>3, InvFacts DEF GoodPipes
  <2>5. LoopsIn(pipes', cstack)
    <3> SUFFICES ASSUME NEW i \in 1..(top - 1)
        PROVE /\ pipes'[i].lists # <<>> /\ pipes'[i].at <= Len(cstack)
              /\ pipes'[i].at > 0 => cstack[pipes'[i].at].prim.kind = "prim"
              /\ \A j \in 1..(i - 1) : pipes'[j].at < pipes'[i].at
      BY <2>2 DEF LoopsIn
    <3>1. i \in 1..top /\ \A j \in 1..(i - 1) : j \in 1..(top - 1)
      BY <1>3
    <3>2. /\ pipes[i].lists # <<>> /\ pipes[i].at <= Len(cstack)
          /\ pipes[i].at > 0 => cstack[pipes[i].at].prim.kind = "prim"
          /\ \A j \in 1..(i - 1) : pipes[j].at < pipes[i].at
      BY <3>1, InvFacts DEF LoopsIn
    <3> QED BY <2>2, <3>1, <3>2
  <2> QED BY <1>1, <1>4, <2>4, <2>5, PipesInv
<1>6. CASE Len(ls) # 1
  <2> DEFINE p2 == [at |-> p.at, lists |-> Tail(ls)]
  <2>0. ls \in Seq(Seq(Estate))
    <3> HIDE DEF p
    <3> QED BY <1>2 DEF Pipe
  <2>1. ls \in Seq(Seq(Estate)) /\ Len(ls) \in Nat /\ Len(ls) > 1
    <3> HIDE DEF ls
    <3>1. Len(ls) \in Nat /\ Len(ls) # 0
      BY <1>2, <2>0, EmptyLen
    <3> DEFINE k == Len(ls)
    <3>2. k \in Nat /\ k # 0 /\ k # 1
      BY <1>6, <3>1
    <3> HIDE DEF k
    <3>3. k > 1
      BY <3>2
    <3> QED BY <2>0, <3>2, <3>3 DEF k
  <2>2. /\ Tail(ls) \in Seq(Seq(Estate)) /\ Len(Tail(ls)) = Len(ls) - 1
        /\ \A i \in 1..(Len(ls) - 1) : Tail(ls)[i] = ls[i + 1]
    BY <2>1, HeadTailProperties
  <2>3. pipes' = [pipes EXCEPT ![top] = p2]
    <3>1. [p EXCEPT !.lists = Tail(ls)] = p2
      <4> DEFINE t == Tail(ls)
      <4>1. p2 = [at |-> p.at, lists |-> t]
        OBVIOUS
      <4> HIDE DEF t, p2, p
      <4>2. [p EXCEPT !.lists = t] = p2
        BY <1>2, <4>1 DEF Pipe
      <4> QED BY <4>2 DEF t
    <3>2. pipes' = [pipes EXCEPT ![top] = [p EXCEPT !.lists = Tail(ls)]]
      BY <1>1, <1>2, <1>3, <1>6
    <3> QED BY <3>1, <3>2
  <2>4. GoodPipe(p2, dsize, csize) /\ p2.at = p.at /\ p2.lists # <<>>
    <3>1. p2.at = p.at /\ p2.lists = Tail(ls) /\ p.at \in Nat
      BY <1>2 DEF Pipe
    <3>2. p2 \in Pipe
      BY <2>2, <3>1 DEF Pipe
    <3>3. \A i \in 1..(Len(ls) - 1) : i + 1 \in 1..Len(ls)
      BY <2>1
    <3>4. \A i \in 1..(Len(ls) - 1) : GoodList(Tail(ls)[i], dsize, csize)
      BY <1>2, <2>2, <3>3 DEF GoodPipe
    <3>5. Tail(ls) # <<>>
      <4> HIDE DEF ls
      <4> DEFINE t == Tail(ls)
                 k == Len(ls)
      <4>1. t \in Seq(Seq(Estate)) /\ Len(t) = k - 1 /\ k \in Nat /\ k > 1
        BY <2>1, <2>2
      <4> HIDE DEF t, k
      <4>2. t # <<>>
        <5>1. Len(t) # 0
          BY <4>1
        <5> QED BY <4>1, <5>1, EmptyLen
      <4> QED BY <4>2 DEF t
    <3> QED BY <2>2, <3>1, <3>2, <3>4, <3>5 DEF GoodPipe
  <2> HIDE DEF p2
  <2>5. GoodPipes(pipes', dsize, csize) /\ LoopsIn(pipes', cstack)
    BY <1>2, <2>3, <2>4, InvFacts, SetPipe
  <2> QED BY <1>1, <1>4, <2>5, PipesInv
<1> QED BY <1>5, <1>6

-----------------------------------------------------------------------------
(* C code that starts programs.                                            *)

LEMMA RunProgInv ==
  ASSUME IInv, NEW prog \in Progs, RunProg(prog)
  PROVE  IInv'
<1>1. InC /\ Cpush(dstack, dsize, cstack, prog, 0, FALSE, 0) /\ UNCHANGED <<queue, brk>>
  BY DEF RunProg
<1>2. FALSE <=> cstack # <<>> /\ cstack[Len(cstack)].prim.kind = "none"
  BY <1>1, InvFacts DEF InC, MainLevel, InPrim, Ctop
<1>3. cstack # <<>> => FrameLaid(cstack[Len(cstack)], Len(dstack) - 0 - 0)
  <2>1. Len(dstack) - 0 - 0 = dpos /\ Len(cstack) \in Nat /\ Stack(dpos, cstack)
        /\ cstack \in Seq(Frame)
    BY InvFacts
  <2>2. cstack # <<>> => Len(cstack) \in 1..Len(cstack)
    BY <2>1
  <2> QED BY <2>1, <2>2 DEF Stack, Laid, Top
<1>4. /\ Len(dstack) <= dsize /\ dsize <= dsize /\ 0 + 0 <= Len(dstack) /\ 0 \in Nat
      /\ dpos \in Nat /\ Len(cstack) = cpos
  BY InvFacts
<1> QED BY <1>1, <1>2, <1>3, <1>4, InvFacts, CpushState

LEMMA RunProgIstrInv ==
  ASSUME IInv, NEW prog \in Progs, NEW v \in Cell, RunProgIstr(prog, v)
  PROVE  IInv'
<1> DEFINE d == Append(dstack, v)
           size == Fit(dsize, dpos + 1)
<1>1. InC /\ Cpush(d, size, cstack, prog, 1, FALSE, 0) /\ UNCHANGED <<queue, brk>>
  BY DEF RunProgIstr
<1>2. FALSE <=> cstack # <<>> /\ cstack[Len(cstack)].prim.kind = "none"
  BY <1>1, InvFacts DEF InC, MainLevel, InPrim, Ctop
<1>3. d \in Seq(Cell) /\ Len(d) = dpos + 1 /\ Len(d) - 1 - 0 = dpos
  <2>1. d \in Seq(Cell) /\ Len(d) = dpos + 1 /\ dpos \in Nat
    BY InvFacts, AppendProperties
  <2> HIDE DEF d
  <2> QED BY <2>1
<1>4. size \in Nat /\ dsize <= size /\ Len(d) <= size
  <2>1. dpos + 1 \in Nat /\ dpos + 1 <= 2 * dsize /\ dsize \in Nat
    BY InvFacts
  <2>2. size \in Nat /\ dsize <= size /\ dpos + 1 <= size
    BY <2>1, FitEnough
  <2> QED BY <1>3, <2>2
<1>5. cstack # <<>> => FrameLaid(cstack[Len(cstack)], Len(d) - 1 - 0)
  <2>1. Len(cstack) \in Nat /\ Stack(dpos, cstack) /\ cstack \in Seq(Frame)
    BY InvFacts
  <2>2. cstack # <<>> => Len(cstack) \in 1..Len(cstack)
    BY <2>1
  <2> QED BY <1>3, <2>1, <2>2 DEF Stack, Laid, Top
<1> HIDE DEF d, size
<1>6. 1 + 0 <= Len(d) /\ dpos \in Nat /\ Len(cstack) = cpos
  BY <1>3, InvFacts
<1> QED BY <1>1, <1>2, <1>3, <1>4, <1>5, <1>6, InvFacts, CpushState

-----------------------------------------------------------------------------
(* The invariant holds.                                                    *)

LEMMA InitInv ==
  ASSUME Init
  PROVE  IInv
<1>1. InitSize \in Nat /\ InitSize > 0
  BY SizesAssumption
<1>2. Stack(0, <<>>)
  BY DEF Stack, Laid, Nested
<1>3. GoodQueue(queue, dsize, csize)
  BY GoodEmpty DEF Init, GoodQueue, GoodList
<1>4. GoodPipes(pipes, dsize, csize) /\ LoopsIn(pipes, cstack)
  BY DEF Init, GoodPipes, LoopsIn
<1>5. dstack \in Seq(Cell) /\ Len(dstack) = 0 /\ Len(cstack) = 0 /\ Stack(Len(dstack), cstack)
  BY <1>2 DEF Init
<1>6. dsize = InitSize /\ csize = InitSize /\ brk \in BOOLEAN
  BY DEF Init
<1>7. /\ dsize \in Nat /\ csize \in Nat /\ InitSize <= dsize /\ InitSize <= csize
      /\ Len(dstack) <= dsize /\ Len(cstack) <= csize
  BY <1>1, <1>5, <1>6
<1> QED BY <1>3, <1>4, <1>5, <1>6, <1>7 DEF IInv, State

LEMMA NextInv ==
  ASSUME IInv, [Next]_vars
  PROVE  IInv'
<1>1. CASE UNCHANGED vars
  BY <1>1 DEF vars, IInv, State
<1>2. ASSUME Instruction PROVE IInv'
  <2>1. ASSUME NEW v \in Cell, Push(v) \/ Eval(v) PROVE IInv'
    BY <2>1, PushInv, EvalInv
  <2>2. ASSUME Pop \/ Stop \/ Error PROVE IInv'
    BY <2>2, PopInv, StopInv, ErrorInv
  <2>3. ASSUME NEW i \in 1..Ctop.nv, Assign(i) PROVE IInv'
    BY <2>3, AssignInv
  <2>4. \A argc \in Argc : argc \in Nat
    BY SizesAssumption DEF Argc
  <2>5. ASSUME NEW p \in Progs, NEW argc \in Argc, Fcall(p, argc) \/ ExecFunc(p, argc)
        PROVE IInv'
    BY <2>4, <2>5, FcallInv, ExecFuncInv
  <2>6. ASSUME NEW argc \in Argc, NEW exec \in Execs,
               \/ PrimBegin(argc, exec)
               \/ \E args \in Args : Callv(argc, exec, args)
               \/ Detach(argc, exec)
               \/ \E q \in Queues : Suspend(q, argc, exec)
        PROVE IInv'
    <3>1. argc \in Nat /\ exec \in BOOLEAN
      BY <2>4, SizesAssumption
    <3> QED BY <2>6, <3>1, PrimBeginInv, CallvInv, DetachInv, SuspendInv
  <2> QED BY <1>2, <2>1, <2>2, <2>3, <2>5, <2>6 DEF Instruction
<1>3. ASSUME CCode PROVE IInv'
  <2>1. ASSUME NEW v \in Cell, PrimEnd(v) \/ (\E q \in Queues : Resume(q, v)) PROVE IInv'
    BY <2>1, PrimEndInv, ResumeInv
  <2>2. ASSUME PrimError \/ DetachEnd \/ PipeNext \/ PipeEnd PROVE IInv'
    BY <2>2, PrimErrorInv, DetachEndInv, PipeNextInv, PipeEndInv
  <2>3. ASSUME NEW n \in Nodes, BreakPipe(n) \/ DestroyPipe(n) PROVE IInv'
    BY <2>3, BreakPipeInv, DestroyPipeInv
  <2>4. ASSUME NEW q \in Queues, NEW i, DiscardEstate(q, i) PROVE IInv'
    BY <2>4, DiscardEstateInv
  <2>5. ASSUME NEW p \in Progs, RunProg(p) \/ (\E v \in Cell : RunProgIstr(p, v)) PROVE IInv'
    BY <2>5, RunProgInv, RunProgIstrInv
  <2>6. ASSUME MainTop PROVE IInv'
    BY <2>6 DEF MainTop, IInv, State
  <2> QED BY <1>3, <2>1, <2>2, <2>3, <2>4, <2>5, <2>6 DEF CCode
<1>4. ASSUME SigBreak PROVE IInv'
  BY <1>4 DEF SigBreak, IInv, State
<1> QED BY <1>1, <1>2, <1>3, <1>4, BreakAbortInv DEF Next

\* The inductive invariant holds of every behaviour of the interpreter.
THEOREM Invariance == Spec => []IInv
BY InitInv, NextInv, PTL DEF Spec

LEMMA InvImplies ==
  ASSUME IInv
  PROVE  TypeOK /\ Capacity /\ Layout /\ ImagesLaid /\ Nesting
<1>1. queue \in [Queues -> Seq(Estate)] /\ pipes \in Seq(Pipe)
  BY InvFacts DEF GoodQueue, GoodPipes
<1>2. TypeOK
  BY <1>1, InvFacts DEF TypeOK, Pipe
<1>3. \A q \in Queues : \A i \in DOMAIN queue[q] : Good(queue[q][i], dsize, csize)
  BY <1>1, InvFacts DEF GoodQueue, GoodList
<1>4. \A k \in DOMAIN pipes : \A i \in DOMAIN pipes[k].lists :
        \A j \in DOMAIN pipes[k].lists[i] : Good(pipes[k].lists[i][j], dsize, csize)
  <2> SUFFICES ASSUME NEW k \in DOMAIN pipes, NEW i \in DOMAIN pipes[k].lists,
                      NEW j \in DOMAIN pipes[k].lists[i]
      PROVE Good(pipes[k].lists[i][j], dsize, csize)
    OBVIOUS
  <2>1. k \in 1..Len(pipes)
    BY <1>1
  <2>2. GoodPipe(pipes[k], dsize, csize)
    BY <2>1, InvFacts DEF GoodPipes
  <2>3. i \in 1..Len(pipes[k].lists)
    BY <2>2 DEF GoodPipe, Pipe
  <2>4. GoodList(pipes[k].lists[i], dsize, csize)
    BY <2>2, <2>3 DEF GoodPipe
  <2>5. j \in 1..Len(pipes[k].lists[i])
    BY <2>4 DEF GoodList
  <2> QED BY <2>4, <2>5, GoodListElement
<1>5. Capacity
  BY <1>3, <1>4, InvFacts DEF Capacity, Fits, Good
<1>6. ImagesLaid
  BY <1>3, <1>4 DEF ImagesLaid, Good
<1>7. Layout /\ Nesting
  BY InvFacts DEF Layout, Nesting, Stack
<1> QED BY <1>2, <1>5, <1>6, <1>7

\* The interpreter keeps its types: the operand count that the code generator
\* relies on is never negative, and no frame starts below the stack.
THEOREM Typed == Spec => []TypeOK
BY Invariance, InvImplies, PTL

\* cpush(), resume() and the operand pushes never write past the stacks
\* allocated, whatever is suspended meanwhile: one doubling is enough.
THEOREM NeverOverrun == Spec => []Capacity
BY Invariance, InvImplies, PTL

\* Frames do not overlap: popping never reaches another frame's cells.
THEOREM FramesApart == Spec => []Layout
BY Invariance, InvImplies, PTL

\* Whatever suspend() saves, in a queue or held by break_pipe(), can be
\* pasted back by resume().
THEOREM Resumable == Spec => []ImagesLaid
BY Invariance, InvImplies, PTL

\* Each interp() stops at its own program, and break_pipe() loops nest with
\* the primitives that run them.
THEOREM WellNested == Spec => []Nesting
BY Invariance, InvImplies, PTL

-----------------------------------------------------------------------------
(* What runs on top leaves the cells below alone.                          *)

Keeps(n, d, d2) == \A i \in 1..n : i <= Len(d2) /\ d2[i] = d[i]

LEMMA KeepsTake ==
  ASSUME NEW d \in Seq(Cell), NEW m \in 0..Len(d), NEW n \in Nat, n <= m
  PROVE  Keeps(n, d, Take(d, m))
BY TakeProperties DEF Keeps

LEMMA KeepsConcat ==
  ASSUME NEW d, NEW n \in Nat, NEW d1 \in Seq(Cell), NEW d2 \in Seq(Cell), Keeps(n, d, d1)
  PROVE  Keeps(n, d, d1 \o d2)
<1>1. /\ Len(d1) \in Nat /\ Len(d2) \in Nat /\ Len(d1 \o d2) = Len(d1) + Len(d2)
      /\ \A i \in 1..(Len(d1) + Len(d2)) :
           (d1 \o d2)[i] = IF i <= Len(d1) THEN d1[i] ELSE d2[i - Len(d1)]
  BY ConcatProperties
<1> SUFFICES ASSUME NEW i \in 1..n PROVE i <= Len(d1 \o d2) /\ (d1 \o d2)[i] = d[i]
  BY DEF Keeps
<1>2. i <= Len(d1) /\ d1[i] = d[i]
  BY DEF Keeps
<1>3. i \in 1..(Len(d1) + Len(d2))
  BY <1>1, <1>2
<1> QED BY <1>1, <1>2, <1>3

LEMMA KeepsAppend ==
  ASSUME NEW d, NEW n \in Nat, NEW d1 \in Seq(Cell), NEW v \in Cell, Keeps(n, d, d1)
  PROVE  Keeps(n, d, Append(d1, v))
<1>1. /\ Len(d1) \in Nat /\ Len(Append(d1, v)) = Len(d1) + 1
      /\ \A i \in 1..(Len(d1) + 1) :
           Append(d1, v)[i] = IF i = Len(d1) + 1 THEN v ELSE d1[i]
  BY AppendProperties
<1> SUFFICES ASSUME NEW i \in 1..n PROVE i <= Len(Append(d1, v)) /\ Append(d1, v)[i] = d[i]
  BY DEF Keeps
<1>2. i <= Len(d1) /\ d1[i] = d[i]
  BY DEF Keeps
<1>3. i \in 1..(Len(d1) + 1) /\ i # Len(d1) + 1
  BY <1>1, <1>2
<1> QED BY <1>1, <1>2, <1>3

LEMMA KeepsExcept ==
  ASSUME NEW d, NEW n \in Nat, NEW d1 \in Seq(Cell), NEW v \in Cell,
         NEW j \in 1..Len(d1), n < j, Keeps(n, d, d1)
  PROVE  Keeps(n, d, [d1 EXCEPT ![j] = v])
<1>1. /\ Len([d1 EXCEPT ![j] = v]) = Len(d1)
      /\ \A i \in 1..Len(d1) : [d1 EXCEPT ![j] = v][i] = IF i = j THEN v ELSE d1[i]
  BY ExceptSeq
<1> SUFFICES ASSUME NEW i \in 1..n
    PROVE i <= Len([d1 EXCEPT ![j] = v]) /\ [d1 EXCEPT ![j] = v][i] = d[i]
  BY DEF Keeps
<1>2. i <= Len(d1) /\ d1[i] = d[i] /\ i \in 1..Len(d1) /\ i # j
  BY DEF Keeps
<1> QED BY <1>1, <1>2

LEMMA KeepsAll ==
  ASSUME NEW d \in Seq(Cell), NEW n \in 0..Len(d)
  PROVE  Keeps(n, d, d)
BY DEF Keeps

\* The cells below the innermost program lie below all that it may touch.
LEMMA LowFacts ==
  ASSUME IInv, cpos > 0
  PROVE  /\ Low \in Nat /\ Low <= Ctop.dstart /\ Low = cstack[Base].dstart /\ Low \in 0..dpos
         /\ \A k \in Nat : k <= Ctop.want => Low <= dpos - k
<1>1. Low = cstack[Base].dstart
  BY InvFacts DEF Low
<1>2. Low \in Nat /\ Low <= Ctop.dstart
  BY <1>1, BaseFacts
<1> DEFINE a == Ctop.dstart
           b == Ctop.nv
           c == Ctop.want
<1>3. a \in Nat /\ b \in Nat /\ c \in Nat /\ a + b + c <= dpos /\ dpos \in Nat /\ Low <= a
  BY <1>2, CtopFacts, InvFacts
<1> HIDE DEF a, b, c
<1>4. Low \in 0..dpos /\ \A k \in Nat : k <= c => Low <= dpos - k
  BY <1>2, <1>3
<1> QED BY <1>1, <1>2, <1>4 DEF c

LEMMA KeepsNulled ==
  ASSUME IInv, cpos > 0, NEW argc \in Nat, NEW exec \in BOOLEAN,
         Ctop.want >= Taken(argc, exec), NEW d,
         d = IF exec THEN [dstack EXCEPT ![dpos - argc] = Null] ELSE dstack
  PROVE  /\ Keeps(Low, dstack, d) /\ Low <= dpos - argc
         /\ exec => Low < dpos - argc
<1>1. /\ d \in Seq(Cell) /\ Len(d) = dpos /\ argc <= Ctop.want /\ dpos - argc \in 0..dpos
      /\ exec => dpos - argc \in 1..dpos
      /\ \A i \in 1..dpos : d[i] = IF exec /\ i = dpos - argc THEN Null ELSE dstack[i]
  <2>1. d \in Seq(Cell) /\ Len(d) = dpos /\ argc <= Ctop.want /\ dpos - argc \in 0..dpos
    BY Nulled
  <2>2. exec => dpos - argc \in 1..dpos
    BY Nulled
  <2>3. \A i \in 1..dpos : d[i] = IF exec /\ i = dpos - argc THEN Null ELSE dstack[i]
    BY Nulled
  <2> QED BY <2>1, <2>2, <2>3
<1>2. Low \in Nat /\ Low <= dpos - argc /\ dpos \in Nat
  BY <1>1, LowFacts, InvFacts
<1>3. exec => Low < dpos - argc
  <2>1. exec => argc + 1 <= Ctop.want
    <3> DEFINE t == Taken(argc, exec)
               c == Ctop.want
    <3>1. t \in Nat /\ (exec => argc + 1 <= t) /\ c \in Nat /\ t <= c
      BY TakenFacts, CtopFacts
    <3> HIDE DEF t, c
    <3>2. exec => argc + 1 <= c
      BY <3>1
    <3> QED BY <3>2 DEF c
  <2>2. exec => Low <= dpos - (argc + 1)
    BY <2>1, LowFacts
  <2> QED BY <1>2, <2>2
<1>4. Keeps(Low, dstack, d)
  <2> SUFFICES ASSUME NEW i \in 1..Low PROVE i <= Len(d) /\ d[i] = dstack[i]
    BY DEF Keeps
  <2>1. i \in 1..dpos /\ (exec => i # dpos - argc) /\ i <= dpos
    BY <1>1, <1>2, <1>3
  <2> QED BY <1>1, <2>1
<1> QED BY <1>2, <1>3, <1>4

LEMMA KeepsCpush ==
  ASSUME IInv, NEW d \in Seq(Cell), NEW size, NEW cs, NEW prog \in Progs \cup {PcallProg},
         NEW argc \in Nat, NEW attached, NEW progress,
         Keeps(Low, dstack, d), Low \in Nat,
         Cpush(d, size, cs, prog, argc, attached, progress)
  PROVE  Keeps(Low, dstack, dstack')
<1> DEFINE alloc == Larger(argc, prog.avarc)
           m == prog.lvarc + alloc - argc
<1>1. dstack' = d \o Nulls(m)
  BY DEF Cpush
<1>2. prog.avarc \in Nat /\ prog.lvarc \in Nat
  BY ProgsAssumption DEF PcallProg
<1>3. m \in Nat
  <2>1. alloc \in Nat /\ argc <= alloc
    BY <1>2 DEF Larger
  <2> HIDE DEF alloc
  <2> QED BY <1>2, <2>1
<1> HIDE DEF m
<1>4. Nulls(m) \in Seq(Cell)
  BY <1>3, NullsProperties
<1> QED BY <1>1, <1>4, KeepsConcat

LEMMA KeepsCallee ==
  ASSUME IInv, NEW d \in Seq(Cell), NEW size, NEW cs, NEW argc \in Nat, NEW attached,
         Keeps(Low, dstack, d), Low \in Nat, Callee(argc, attached, d, size, cs)
  PROVE  Keeps(Low, dstack, dstack')
BY KeepsCpush, 0 \in Nat DEF Callee

\* Every instruction keeps what lies below the innermost program.
LEMMA InstructionKeeps ==
  ASSUME IInv, cpos > 0, Instruction
  PROVE  Keeps(Low, dstack, dstack')
<1>1. /\ dstack \in Seq(Cell) /\ Len(dstack) = dpos /\ dpos \in Nat
      /\ Low \in Nat /\ Low \in 0..dpos /\ Low <= Ctop.dstart
      /\ Keeps(Low, dstack, dstack) /\ Null \in Cell
  BY InvFacts, LowFacts, KeepsAll DEF Cell
<1>2. \A argc \in Argc : argc \in Nat
  BY SizesAssumption DEF Argc
<1>3. ASSUME NEW k \in Nat, k <= Ctop.want
      PROVE /\ Take(dstack, dpos - k) \in Seq(Cell) /\ Len(Take(dstack, dpos - k)) = dpos - k
            /\ Keeps(Low, dstack, Take(dstack, dpos - k)) /\ Low <= dpos - k
  <2>1. dpos - k \in 0..Len(dstack) /\ Low <= dpos - k
    BY <1>1, <1>3, LowFacts, Operands
  <2> QED BY <1>1, <2>1, TakeProperties, KeepsTake
<1>4. ASSUME NEW v \in Cell, Push(v) PROVE Keeps(Low, dstack, dstack')
  BY <1>1, <1>4, KeepsAppend DEF Push
<1>5. ASSUME NEW v \in Cell, Eval(v) PROVE Keeps(Low, dstack, dstack')
  <2>1. dstack' = [dstack EXCEPT ![dpos] = v] /\ Ctop.want > 0
    BY <1>5 DEF Eval
  <2>2. Low < dpos /\ dpos \in 1..Len(dstack)
    <3>1. 1 \in Nat /\ 1 <= Ctop.want
      BY <2>1, CtopFacts
    <3>2. Low <= dpos - 1
      BY <3>1, LowFacts
    <3> QED BY <1>1, <3>2
  <2> QED BY <1>1, <2>1, <2>2, KeepsExcept
<1>6. ASSUME Pop PROVE Keeps(Low, dstack, dstack')
  <2>1. 1 \in Nat /\ 1 <= Ctop.want
    BY <1>6, CtopFacts DEF Pop
  <2> QED BY <1>3, <1>6, <2>1 DEF Pop
<1>7. ASSUME NEW i \in 1..Ctop.nv, Assign(i) PROVE Keeps(Low, dstack, dstack')
  <2> DEFINE rest == Take(dstack, dpos - 2)
             stored == IF Ctop.live THEN [rest EXCEPT ![Ctop.vals + i] = dstack[dpos]]
                       ELSE rest
  <2>1. Ctop.want >= 2 /\ dstack' = Append(stored, dstack[dpos])
    BY <1>7 DEF Assign
  <2>2. 2 \in Nat /\ 2 <= Ctop.want
    BY <2>1, CtopFacts
  <2>3. /\ rest \in Seq(Cell) /\ Len(rest) = dpos - 2 /\ Keeps(Low, dstack, rest)
        /\ Low <= dpos - 2
    BY <1>3, <2>2
  <2>4. dstack[dpos] \in Cell
    <3>1. dpos \in 1..Len(dstack)
      BY <1>1, <2>3
    <3> QED BY <1>1, <3>1, ElementOfSeq
  <2>5. Ctop.vals + i \in 1..Len(rest) /\ Low < Ctop.vals + i
    <3> DEFINE a == Ctop.dstart
               b == Ctop.nv
               c == Ctop.want
    <3>1. a + b + (c - 2) <= dpos - 2 /\ c - 2 \in Nat
      BY <2>2, Operands
    <3>2. a \in Nat /\ b \in Nat /\ c \in Nat /\ Ctop.vals = a /\ Low <= a /\ i \in 1..b
      BY <1>1, CtopFacts
    <3> HIDE DEF a, b, c
    <3>3. a + i \in 1..(dpos - 2) /\ Low < a + i
      BY <1>1, <3>1, <3>2
    <3> QED BY <2>3, <3>2, <3>3
  <2> HIDE DEF rest
  <2>6. stored \in Seq(Cell) /\ Keeps(Low, dstack, stored)
    BY <1>1, <2>3, <2>4, <2>5, ExceptSeq, KeepsExcept
  <2> HIDE DEF stored
  <2> QED BY <1>1, <2>1, <2>4, <2>6, KeepsAppend
<1>8. ASSUME NEW p \in Progs, NEW argc \in Argc, Fcall(p, argc) PROVE Keeps(Low, dstack, dstack')
  BY <1>1, <1>2, <1>8, KeepsCpush DEF Fcall
<1>9. ASSUME NEW p \in Progs, NEW argc \in Argc, ExecFunc(p, argc)
      PROVE Keeps(Low, dstack, dstack')
  <2> DEFINE low == Take(dstack, dpos - argc - 1)
             args == SubSeq(dstack, dpos - argc + 1, dpos)
  <2>1. argc \in Nat /\ argc + 1 \in Nat /\ argc + 1 <= Ctop.want
    BY <1>2, <1>9, CtopFacts DEF ExecFunc
  <2>2. Low <= dpos - (argc + 1)
    BY <2>1, LowFacts
  <2>3. dpos - argc - 1 = dpos - (argc + 1)
    BY <1>1, <2>1
  <2>4. low \in Seq(Cell) /\ Keeps(Low, dstack, low)
    BY <1>3, <2>1, <2>3
  <2>5. args \in Seq(Cell)
    <3>1. dpos - argc + 1 \in 1..(Len(dstack) + 1) /\ dpos \in 0..Len(dstack)
          /\ dpos - argc + 1 <= dpos + 1
      BY <1>1, <2>1, <2>2
    <3> QED BY <1>1, <3>1, SubSeqType
  <2>6. low \o args \in Seq(Cell) /\ Keeps(Low, dstack, low \o args)
    <3> HIDE DEF low, args
    <3> QED BY <1>1, <2>4, <2>5, KeepsConcat, ConcatProperties
  <2> QED BY <1>1, <1>9, <2>1, <2>6, KeepsCpush DEF ExecFunc
<1>10. ASSUME Stop PROVE Keeps(Low, dstack, dstack')
  <2> DEFINE d == Take(dstack, Ctop.dstart)
  <2>1. Ctop.dstart \in 0..Len(dstack) /\ dstack[dpos] \in Cell
    <3>1. Ctop.want > 0
      BY <1>10 DEF Stop
    <3>2. dpos \in 1..Len(dstack) /\ Ctop.dstart \in 0..Len(dstack)
      BY <1>1, <3>1, CtopFacts
    <3> QED BY <1>1, <3>2, ElementOfSeq
  <2>2. d \in Seq(Cell) /\ Keeps(Low, dstack, d)
    BY <1>1, <2>1, TakeProperties, KeepsTake
  <2>3. dstack' = d \/ dstack' = Append(d, dstack[dpos])
    BY <1>10 DEF Stop
  <2> HIDE DEF d
  <2> QED BY <1>1, <2>1, <2>2, <2>3, KeepsAppend
<1>11. ASSUME Error PROVE Keeps(Low, dstack, dstack')
  <2>1. dstack' = Take(dstack, Low)
    BY <1>11, LowFacts DEF Error, Abort
  <2> QED BY <1>1, <2>1, KeepsTake
<1>12. ASSUME NEW argc \in Argc, NEW exec \in Execs, PrimBegin(argc, exec)
       PROVE Keeps(Low, dstack, dstack')
  <2>1. argc \in Nat /\ exec \in BOOLEAN
    BY <1>2, SizesAssumption
  <2> QED BY <1>12, <2>1, KeepsNulled DEF PrimBegin
<1>13. ASSUME NEW argc \in Argc, NEW exec \in Execs, Detach(argc, exec)
       PROVE Keeps(Low, dstack, dstack')
  <2> DEFINE d == IF exec THEN [dstack EXCEPT ![dpos - argc] = Null] ELSE dstack
             caller == Retop(Ctop.want - (argc - 1),
                             [kind |-> "detach", argc |-> 1, exec |-> exec])
  <2>1. argc \in Nat /\ exec \in BOOLEAN /\ argc - 1 \in Nat /\ Ctop.want >= Taken(argc, exec)
    BY <1>2, <1>13, SizesAssumption DEF Detach
  <2>2. d \in Seq(Cell) /\ Keeps(Low, dstack, d)
    BY <2>1, Nulled, KeepsNulled
  <2>3. Callee(argc - 1, FALSE, d, dsize, caller)
    BY <1>13 DEF Detach
  <2> HIDE DEF d, caller
  <2> QED BY <1>1, <2>1, <2>2, <2>3, KeepsCallee
<1>14. ASSUME NEW argc \in Argc, NEW exec \in Execs, NEW args \in Args, Callv(argc, exec, args)
       PROVE Keeps(Low, dstack, dstack')
  <2> DEFINE m == dpos - argc
             low == Take(dstack, m)
             base == IF exec THEN [low EXCEPT ![m] = Null] ELSE low
             d == base \o args
             cs == Want(Ctop.want - Taken(argc, exec))
  <2>1. argc \in Nat /\ exec \in BOOLEAN /\ Ctop.want >= Taken(argc, exec)
    BY <1>2, <1>14, SizesAssumption DEF Callv
  <2>2. /\ argc <= Ctop.want /\ (exec => m \in 1..dpos) /\ (exec => Low < m)
    BY <2>1, Nulled, KeepsNulled
  <2>3. low \in Seq(Cell) /\ Len(low) = m /\ Keeps(Low, dstack, low) /\ m \in Nat
    <3>1. m \in Nat
      BY <1>1, <2>1, <2>2, Operands
    <3> QED BY <1>3, <2>1, <2>2, <3>1
  <2>4. args \in Seq(Cell) /\ Len(args) \in Nat
    <3>1. PICK n \in 0..MaxArgs : args \in [1..n -> Cell]
      BY DEF Args, Argc
    <3>2. n \in Nat
      BY SizesAssumption
    <3> QED BY <3>1, <3>2
  <2> HIDE DEF low, m
  <2>5. base \in Seq(Cell) /\ Keeps(Low, dstack, base)
    <3>1. exec => m \in 1..Len(low)
      BY <2>2, <2>3
    <3> QED BY <1>1, <2>2, <2>3, <3>1, ExceptSeq, KeepsExcept
  <2> HIDE DEF base
  <2>6. d \in Seq(Cell) /\ Keeps(Low, dstack, d)
    BY <1>1, <2>4, <2>5, KeepsConcat, ConcatProperties
  <2>7. Callee(Len(args), TRUE, d, Fit(dsize, Len(d)), cs)
    BY <1>14 DEF Callv, base, low, m
  <2> HIDE DEF d, cs
  <2> QED BY <1>1, <2>4, <2>6, <2>7, KeepsCallee
<1>15. ASSUME NEW argc \in Argc, NEW exec \in Execs, NEW q \in Queues, Suspend(q, argc, exec)
       PROVE Keeps(Low, dstack, dstack')
  <2>1. dstack' = Take(dstack, Low)
    BY <1>15, LowFacts DEF Suspend
  <2> QED BY <1>1, <2>1, KeepsTake
<1> QED BY <1>4, <1>5, <1>6, <1>7, <1>8, <1>9, <1>10, <1>11, <1>12, <1>13, <1>14, <1>15
        DEF Instruction

\* C code and the break signal keep it too.
LEMMA CCodeKeeps ==
  ASSUME IInv, cpos > 0, CCode
  PROVE  Keeps(Low, dstack, dstack')
<1>1. /\ dstack \in Seq(Cell) /\ Len(dstack) = dpos /\ dpos \in Nat
      /\ Low \in Nat /\ Low \in 0..dpos /\ Keeps(Low, dstack, dstack) /\ Null \in Cell
  BY InvFacts, LowFacts, KeepsAll DEF Cell
<1>2. ASSUME NEW v \in Cell, PrimEnd(v) PROVE Keeps(Low, dstack, dstack')
  <2> DEFINE argc == Ctop.prim.argc
             exec == Ctop.prim.exec
             m == dpos - argc
             d == Take(dstack, m)
  <2>1. Ctop.prim.kind = "prim"
    BY <1>2 DEF PrimEnd, InPrim
  <2>2. argc \in Nat /\ exec \in BOOLEAN /\ Ctop.want >= Taken(argc, exec)
    BY <2>1, CtopFacts DEF Prim, Pending
  <2>3. dstack' = IF exec THEN [d EXCEPT ![m] = v] ELSE Append(d, v)
    BY <1>2 DEF PrimEnd
  <2> HIDE DEF argc, exec
  <2>4. m \in 0..dpos /\ (exec => m \in 1..dpos) /\ Low <= m /\ (exec => Low < m)
    BY <2>2, Nulled, KeepsNulled
  <2> HIDE DEF m
  <2>5. d \in Seq(Cell) /\ Len(d) = m /\ Keeps(Low, dstack, d)
    BY <1>1, <2>4, TakeProperties, KeepsTake
  <2> HIDE DEF d
  <2>6. CASE exec
    <3>1. m \in 1..Len(d) /\ Low < m /\ dstack' = [d EXCEPT ![m] = v]
      BY <2>3, <2>4, <2>5, <2>6
    <3> QED BY <1>1, <2>5, <3>1, KeepsExcept
  <2>7. CASE ~exec
    BY <1>1, <2>3, <2>5, <2>7, KeepsAppend
  <2> QED BY <2>6, <2>7
<1>3. ASSUME NEW es, Good(es, dsize, csize), NEW v \in Cell, NEW ps, ResumeOne(es, v, ps)
      PROVE Keeps(Low, dstack, dstack')
  <2>1. es.data \in Seq(Cell)
    BY <1>3, ImageStack DEF Good
  <2>2. Append(es.data, v) \in Seq(Cell)
    BY <2>1, AppendProperties
  <2> QED BY <1>1, <1>3, <2>2, KeepsConcat DEF ResumeOne
<1>4. ASSUME NEW q \in Queues, NEW v \in Cell, Resume(q, v) PROVE Keeps(Low, dstack, dstack')
  <2>1. GoodList(queue[q], dsize, csize) /\ queue[q] # <<>>
        /\ ResumeOne(Head(queue[q]), v, pipes)
    BY <1>4, InvFacts DEF GoodQueue, Resume
  <2> QED BY <1>3, <2>1, GoodTail
<1>5. ASSUME PipeNext PROVE Keeps(Low, dstack, dstack')
  <2> DEFINE p == pipes[Len(pipes)]
             rest == [pipes EXCEPT ![Len(pipes)].lists[1] = Tail(p.lists[1])]
  <2>1. Breaking /\ p.lists[1] # <<>> /\ ResumeOne(Head(p.lists[1]), Null, rest)
    BY <1>5 DEF PipeNext
  <2>2. GoodPipe(p, dsize, csize) /\ p.lists # <<>> /\ p \in Pipe
    BY <2>1, BreakingFacts
  <2>3. 1 \in 1..Len(p.lists)
    <3> HIDE DEF p
    <3>1. p.lists \in Seq(Seq(Estate))
      BY <2>2 DEF Pipe
    <3> QED BY <2>2, <3>1
  <2>4. GoodList(p.lists[1], dsize, csize)
    BY <2>2, <2>3 DEF GoodPipe
  <2>5. Good(Head(p.lists[1]), dsize, csize)
    BY <2>1, <2>4, GoodTail
  <2> HIDE DEF rest, p
  <2> QED BY <1>1, <1>3, <2>1, <2>5
<1>6. ASSUME PrimError PROVE Keeps(Low, dstack, dstack')
  <2>1. dstack' = Take(dstack, Low)
    BY <1>6, LowFacts DEF PrimError, Abort
  <2> QED BY <1>1, <2>1, KeepsTake
<1>7. ASSUME DetachEnd PROVE Keeps(Low, dstack, dstack')
  <2>1. Ctop.prim.kind = "detach" /\ dstack' = [dstack EXCEPT ![dpos] = Null]
    BY <1>7 DEF DetachEnd
  <2>2. 1 \in Nat /\ 1 <= Ctop.want
    <3>1. Ctop.prim.argc = 1 /\ Pending(Ctop.prim) = Taken(1, Ctop.prim.exec)
          /\ Ctop.prim.exec \in BOOLEAN
      BY <2>1, CtopFacts DEF Prim, Pending
    <3>2. 1 <= Taken(1, Ctop.prim.exec) /\ Taken(1, Ctop.prim.exec) \in Nat
      BY <3>1, TakenFacts
    <3> QED BY <3>1, <3>2, CtopFacts
  <2>3. Low <= dpos - 1
    BY <2>2, LowFacts
  <2>4. Low < dpos /\ dpos \in 1..Len(dstack)
    BY <1>1, <2>3
  <2> QED BY <1>1, <2>1, <2>4, KeepsExcept
<1>8. ASSUME NEW p \in Progs, RunProg(p) PROVE Keeps(Low, dstack, dstack')
  <2>1. Cpush(dstack, dsize, cstack, p, 0, FALSE, 0) /\ 0 \in Nat
    BY <1>8 DEF RunProg
  <2> QED BY <1>1, <2>1, KeepsCpush
<1>9. ASSUME NEW p \in Progs, NEW v \in Cell, RunProgIstr(p, v)
      PROVE Keeps(Low, dstack, dstack')
  <2>1. Append(dstack, v) \in Seq(Cell) /\ Keeps(Low, dstack, Append(dstack, v))
    BY <1>1, AppendProperties, KeepsAppend
  <2> QED BY <1>1, <1>9, <2>1, KeepsCpush DEF RunProgIstr
<1>10. ASSUME dstack' = dstack PROVE Keeps(Low, dstack, dstack')
  BY <1>1, <1>10
<1> QED BY <1>2, <1>4, <1>5, <1>6, <1>7, <1>8, <1>9, <1>10
        DEF CCode, BreakPipe, DestroyPipe, PipeEnd, DiscardEstate, MainTop

\* No step writes or cuts a cell below the innermost program, whatever that
\* program does, calls, or is aborted by.
THEOREM LeavesBelow == Spec => BelowUntouched
<1>1. ASSUME IInv, [Next]_vars
      PROVE [\A i \in 1..Low : i <= Len(dstack') /\ dstack'[i] = dstack[i]]_vars
  <2>1. CASE cpos = 0
    BY <2>1 DEF Low
  <2>2. CASE cpos > 0
    <3>1. ASSUME Instruction \/ CCode PROVE Keeps(Low, dstack, dstack')
      BY <1>1, <2>2, <3>1, InstructionKeeps, CCodeKeeps
    <3>2. ASSUME BreakAbort PROVE Keeps(Low, dstack, dstack')
      <4>1. dstack' = Take(dstack, Low) /\ Low \in Nat /\ Low \in 0..Len(dstack)
            /\ dstack \in Seq(Cell)
        BY <1>1, <2>2, <3>2, LowFacts, InvFacts DEF BreakAbort, Abort
      <4> QED BY <4>1, KeepsTake
    <3>3. ASSUME SigBreak PROVE Keeps(Low, dstack, dstack')
      <4>1. dstack' = dstack /\ dstack \in Seq(Cell) /\ Low \in 0..Len(dstack)
        BY <1>1, <2>2, <3>3, LowFacts, InvFacts DEF SigBreak
      <4> QED BY <4>1, KeepsAll
    <3> QED BY <1>1, <3>1, <3>2, <3>3 DEF Next, Keeps
  <2> QED BY <1>1, <2>1, <2>2, InvFacts
<1> QED BY <1>1, Invariance, PTL DEF Spec, BelowUntouched

-----------------------------------------------------------------------------
(* The programs on two stacks.                                             *)

\* Program and its helpers, of any two stacks.
Detached(cs, i) == {j \in 1..i : ~cs[j].attached}
Count(cs) == Cardinality(Detached(cs, Len(cs)))
FirstOf(cs, k) == CHOOSE i \in 1..Len(cs) : ~cs[i].attached /\ Cardinality(Detached(cs, i)) = k
Part(d, cs, k) ==
  LET last == IF k = Count(cs) THEN Len(cs) ELSE FirstOf(cs, k + 1) - 1
  IN [data |-> SubSeq(d, cs[FirstOf(cs, k)].dstart + 1, Top(Len(d), cs, last)),
      frames |-> Relative(SubSeq(cs, FirstOf(cs, k), last))]
Parts(d, cs) == [k \in 1..Count(cs) |-> Part(d, cs, k)]

LEMMA DetachedFinite ==
  ASSUME NEW cs, NEW i \in Nat
  PROVE  IsFiniteSet(Detached(cs, i)) /\ Cardinality(Detached(cs, i)) \in Nat
<1>1. IsFiniteSet(1..i) /\ Detached(cs, i) \in SUBSET (1..i)
  BY FS_Interval DEF Detached
<1> QED BY <1>1, FS_Subset, FS_CardinalityType

\* A frame adds to them if it is detached.
LEMMA DetachedStep ==
  ASSUME NEW cs, NEW i \in Nat
  PROVE  Cardinality(Detached(cs, i + 1))
           = Cardinality(Detached(cs, i)) + (IF cs[i + 1].attached THEN 0 ELSE 1)
<1>1. CASE cs[i + 1].attached
  <2>1. Detached(cs, i + 1) = Detached(cs, i)
    BY <1>1 DEF Detached
  <2> QED BY <1>1, <2>1, DetachedFinite
<1>2. CASE ~cs[i + 1].attached
  <2>1. Detached(cs, i + 1) = Detached(cs, i) \cup {i + 1} /\ i + 1 \notin Detached(cs, i)
    BY <1>2 DEF Detached
  <2> QED BY <1>2, <2>1, DetachedFinite, FS_AddElement
<1> QED BY <1>1, <1>2

LEMMA DetachedOrder ==
  ASSUME NEW cs, NEW i \in Nat, NEW j \in Nat, i <= j
  PROVE  /\ Cardinality(Detached(cs, i)) <= Cardinality(Detached(cs, j))
         /\ i < j /\ ~cs[j].attached => Cardinality(Detached(cs, i)) < Cardinality(Detached(cs, j))
<1>1. Detached(cs, i) \in SUBSET Detached(cs, j)
  BY DEF Detached
<1>2. Cardinality(Detached(cs, i)) <= Cardinality(Detached(cs, j))
  BY <1>1, DetachedFinite, FS_Subset
<1>3. ASSUME i < j, ~cs[j].attached, Cardinality(Detached(cs, i)) = Cardinality(Detached(cs, j))
      PROVE  FALSE
  <2>1. Detached(cs, i) = Detached(cs, j)
    BY <1>1, <1>3, DetachedFinite, FS_Subset
  <2>2. j \in Detached(cs, j) /\ j \notin Detached(cs, i)
    BY <1>3 DEF Detached
  <2> QED BY <2>1, <2>2
<1> QED BY <1>2, <1>3, DetachedFinite

\* The k-th detached frame.
IsFirst(cs, k, i) == i \in 1..Len(cs) /\ ~cs[i].attached /\ Cardinality(Detached(cs, i)) = k

LEMMA FirstUnique ==
  ASSUME NEW cs, Len(cs) \in Nat, NEW k, NEW i, IsFirst(cs, k, i)
  PROVE  FirstOf(cs, k) = i
<1>1. IsFirst(cs, k, FirstOf(cs, k))
  BY DEF IsFirst, FirstOf
<1> DEFINE j == FirstOf(cs, k)
<1>2. j \in Nat /\ i \in Nat
  BY <1>1 DEF IsFirst
<1>3. /\ ~cs[i].attached /\ ~cs[j].attached
      /\ Cardinality(Detached(cs, i)) = Cardinality(Detached(cs, j))
  BY <1>1 DEF IsFirst
<1>4. Cardinality(Detached(cs, i)) \in Nat
  BY <1>2, DetachedFinite
<1> HIDE DEF j
<1>5. i < j => Cardinality(Detached(cs, i)) < Cardinality(Detached(cs, j))
  BY <1>2, <1>3, DetachedOrder
<1>6. j < i => Cardinality(Detached(cs, j)) < Cardinality(Detached(cs, i))
  BY <1>2, <1>3, DetachedOrder
<1> QED BY <1>2, <1>3, <1>4, <1>5, <1>6 DEF j

LEMMA FirstExists ==
  ASSUME NEW cs, Len(cs) \in Nat, NEW k \in 1..Count(cs)
  PROVE  IsFirst(cs, k, FirstOf(cs, k))
<1> DEFINE T == {i \in 0..Len(cs) : Cardinality(Detached(cs, i)) >= k}
<1>1. Count(cs) \in Nat
  BY DetachedFinite DEF Count
<1>2. Len(cs) \in T
  BY <1>1 DEF Count
<1>3. PICK i \in T : \A j \in T : i <= j
  <2>1. T \subseteq Nat
    OBVIOUS
  <2> HIDE DEF T
  <2> QED BY <1>2, <2>1, LeastNat
<1>4. i # 0
  <2>1. Detached(cs, 0) = {}
    BY DEF Detached
  <2>2. Cardinality(Detached(cs, 0)) = 0
    BY <2>1, FS_EmptySet
  <2> QED BY <2>2
<1>5. i - 1 \in Nat /\ i - 1 \notin T /\ (i - 1) + 1 = i
  BY <1>3, <1>4
<1>6. Cardinality(Detached(cs, i - 1)) < k /\ Cardinality(Detached(cs, i - 1)) \in Nat
  BY <1>5, DetachedFinite
<1>7. Cardinality(Detached(cs, i)) = Cardinality(Detached(cs, i - 1)) + (IF cs[i].attached THEN 0 ELSE 1)
  BY <1>5, DetachedStep
<1>8. IsFirst(cs, k, i)
  BY <1>4, <1>6, <1>7 DEF IsFirst
<1> QED BY <1>8, FirstUnique

\* The part up to some place.
LEMMA SubSeqSame ==
  ASSUME NEW S, NEW s \in Seq(S), NEW t \in Seq(S), NEW m \in Nat \ {0}, NEW n \in Int,
         n <= Len(s), n <= Len(t), \A i \in 1..n : s[i] = t[i]
  PROVE  SubSeq(s, m, n) = SubSeq(t, m, n)
<1>1. CASE n < m
  BY <1>1, SubSeqEmpty
<1>2. CASE m <= n
  <2>1. \A i \in m..n : s[i] \in S /\ t[i] \in S /\ s[i] = t[i]
    BY <1>2
  <2>2. /\ SubSeq(s, m, n) \in Seq(S) /\ Len(SubSeq(s, m, n)) = n - m + 1
        /\ \A i \in 1..(n - m + 1) : SubSeq(s, m, n)[i] = s[m + i - 1]
    BY <1>2, <2>1, SubSeqProperties
  <2>3. /\ SubSeq(t, m, n) \in Seq(S) /\ Len(SubSeq(t, m, n)) = n - m + 1
        /\ \A i \in 1..(n - m + 1) : SubSeq(t, m, n)[i] = t[m + i - 1]
    BY <1>2, <2>1, SubSeqProperties
  <2>4. \A i \in 1..(n - m + 1) : m + i - 1 \in m..n
    OBVIOUS
  <2>5. \A i \in 1..(n - m + 1) : SubSeq(s, m, n)[i] = SubSeq(t, m, n)[i]
    BY <2>1, <2>2, <2>3, <2>4
  <2> QED BY <2>2, <2>3, <2>5, SeqEqual
<1> QED BY <1>1, <1>2

\* A program more on top.
LEMMA PartsAppend ==
  ASSUME NEW d \in Seq(Cell), NEW cs, Stack(Len(d), cs), NEW data \in Seq(Cell),
         NEW fs \in Seq(Frame), fs # <<>>, fs[1].dstart = Len(d), ~fs[1].attached,
         \A i \in 2..Len(fs) : fs[i].attached
  PROVE  /\ Parts(d \o data, cs \o fs)
              = Append(Parts(d, cs), [data |-> data, frames |-> Relative(fs)])
         /\ Count(cs \o fs) = Count(cs) + 1
<1> DEFINE e == d \o data
           gs == cs \o fs
           n == Count(cs)
<1>1. /\ cs \in Seq(Frame) /\ Len(cs) \in Nat /\ Len(d) \in Nat /\ Len(data) \in Nat
      /\ Len(fs) \in Nat /\ Len(fs) > 0
  BY DEF Stack
<1>2. /\ e \in Seq(Cell) /\ Len(e) = Len(d) + Len(data)
      /\ \A i \in 1..(Len(d) + Len(data)) : e[i] = IF i <= Len(d) THEN d[i] ELSE data[i - Len(d)]
  BY ConcatProperties
<1>3. /\ gs \in Seq(Frame) /\ Len(gs) = Len(cs) + Len(fs)
      /\ \A i \in 1..(Len(cs) + Len(fs)) : gs[i] = IF i <= Len(cs) THEN cs[i] ELSE fs[i - Len(cs)]
  BY <1>1, ConcatProperties
<1>4. \A i \in 1..Len(cs) : gs[i] = cs[i]
  BY <1>1, <1>3
<1>5. gs[Len(cs) + 1] = fs[1] /\ \A i \in (Len(cs) + 2)..Len(gs) : gs[i].attached
  <2>1. gs[Len(cs) + 1] = fs[1]
    BY <1>1, <1>3
  <2>2. ASSUME NEW i \in (Len(cs) + 2)..Len(gs) PROVE gs[i].attached
    <3>1. gs[i] = fs[i - Len(cs)] /\ i - Len(cs) \in 2..Len(fs)
      BY <1>1, <1>3
    <3> QED BY <3>1
  <2> QED BY <2>1, <2>2
<1> HIDE DEF e, gs
<1>6. \A i \in 0..Len(cs) : Detached(gs, i) = Detached(cs, i)
  <2> SUFFICES ASSUME NEW i \in 0..Len(cs) PROVE Detached(gs, i) = Detached(cs, i)
    OBVIOUS
  <2>1. \A j \in 1..i : gs[j] = cs[j]
    BY <1>1, <1>4
  <2> QED BY <2>1 DEF Detached
<1>7. Detached(gs, Len(gs)) = Detached(gs, Len(cs) + 1)
  BY <1>1, <1>3, <1>5 DEF Detached
<1>8. n \in Nat /\ Count(gs) = n + 1 /\ Cardinality(Detached(gs, Len(cs) + 1)) = n + 1
  <2>1. Detached(gs, Len(cs)) = Detached(cs, Len(cs))
    BY <1>1, <1>6
  <2> QED BY <1>1, <1>5, <1>7, <2>1, DetachedStep, DetachedFinite DEF Count
<1>9. FirstOf(gs, n + 1) = Len(cs) + 1
  <2>1. IsFirst(gs, n + 1, Len(cs) + 1)
    BY <1>1, <1>3, <1>5, <1>8 DEF IsFirst
  <2> QED BY <1>1, <1>3, <2>1, FirstUnique
<1> HIDE DEF n
<1>10. ASSUME NEW k \in 1..n
       PROVE  FirstOf(gs, k) = FirstOf(cs, k) /\ FirstOf(cs, k) \in 1..Len(cs)
  <2>1. IsFirst(cs, k, FirstOf(cs, k))
    BY <1>1, FirstExists DEF n
  <2>2. IsFirst(gs, k, FirstOf(cs, k))
    BY <1>1, <1>3, <1>4, <1>6, <2>1 DEF IsFirst
  <2>3. Len(gs) \in Nat
    BY <1>1, <1>3
  <2>4. FirstOf(gs, k) = FirstOf(cs, k)
    BY <2>2, <2>3, FirstUnique
  <2> QED BY <2>1, <2>4 DEF IsFirst
<1>11. ASSUME NEW k \in 1..n PROVE Part(e, gs, k) = Part(d, cs, k)
  <2> DEFINE last == IF k = n THEN Len(cs) ELSE FirstOf(cs, k + 1) - 1
             top == Top(Len(d), cs, last)
             f == FirstOf(cs, k)
  <2>1. f \in 1..Len(cs) /\ FirstOf(gs, k) = f /\ gs[f] = cs[f]
    BY <1>4, <1>10
  <2>2. last \in 0..Len(cs) /\ (k # n => last + 1 \in 1..Len(cs))
    <3>1. k # n => k + 1 \in 1..n
      BY <1>8
    <3> QED BY <1>1, <1>10, <3>1
  <2>3. last = FirstOf(gs, k + 1) - 1 /\ k # n + 1
    <3>1. CASE k = n
      BY <1>1, <1>8, <1>9, <3>1
    <3>2. CASE k # n
      <4>1. k + 1 \in 1..n
        BY <1>8, <3>2
      <4> QED BY <1>8, <1>10, <3>2, <4>1
    <3> QED BY <3>1, <3>2
  <2>4. last # Len(cs) => last + 1 \in 1..Len(cs)
    BY <1>1, <2>2
  <2> HIDE DEF f, last
  <2>5. gs[last + 1].dstart = top /\ last # Len(gs)
    <3>1. CASE last = Len(cs)
      BY <1>1, <1>3, <1>5, <3>1 DEF Top
    <3>2. CASE last # Len(cs)
      BY <1>1, <1>3, <1>4, <2>2, <2>4, <3>2 DEF Top
    <3> QED BY <3>1, <3>2
  <2>6. Top(Len(e), gs, last) = top
    BY <2>5 DEF Top
  <2>7. top \in Nat /\ top <= Len(d) /\ cs[f].dstart \in Nat
    <3>1. \A i \in 1..Len(cs) : cs[i].dstart \in Nat
      <4>1. \A i \in 1..Len(cs) : cs[i] \in Frame
        BY <1>1, ElementOfSeq
      <4> QED BY <4>1 DEF Frame
    <3>2. CASE last = Len(cs)
      BY <1>1, <2>1, <3>1, <3>2 DEF Top
    <3>3. CASE last # Len(cs)
      <4>1. PICK i \in 1..Len(cs) : i = last + 1
        BY <2>4, <3>3
      <4>2. cs[Len(cs)].dstart <= Len(d)
        <5>1. Len(cs) > 0 /\ cs[Len(cs)] = cs[Len(cs)]
          BY <1>1, <4>1
        <5>2. /\ cs[Len(cs)].dstart \in Nat /\ cs[Len(cs)].nv \in Nat /\ cs[Len(cs)].want \in Nat
              /\ cs[Len(cs)].dstart + cs[Len(cs)].nv + cs[Len(cs)].want <= Len(d)
          BY <1>1, <5>1, TopFacts
        <5> QED BY <1>1, <5>2
      <4>3. cs[i].dstart <= cs[Len(cs)].dstart
        <5>1. Len(cs) \in 1..Len(cs) /\ i \in 1..Len(cs)
          BY <1>1, <4>1
        <5> QED BY <1>1, <5>1, StartsOrdered
      <4>4. top = cs[i].dstart
        BY <3>3, <4>1 DEF Top
      <4>5. Len(cs) \in 1..Len(cs)
        BY <1>1, <4>1
      <4> QED BY <1>1, <2>1, <3>1, <4>2, <4>3, <4>4, <4>5
    <3> QED BY <3>2, <3>3
  <2> HIDE DEF top
  <2>8. SubSeq(e, cs[f].dstart + 1, top) = SubSeq(d, cs[f].dstart + 1, top)
    <3>1. ASSUME NEW i \in 1..top PROVE d[i] = e[i]
      <4>1. i \in 1..(Len(d) + Len(data)) /\ i <= Len(d)
        BY <1>1, <2>7
      <4> QED BY <1>2, <4>1
    <3> DEFINE m == cs[f].dstart + 1
    <3>2. m \in Nat \ {0}
      BY <2>7
    <3>3. top \in Int /\ top <= Len(d)
      BY <2>7
    <3>4. top <= Len(e)
      BY <1>1, <1>2, <2>7
    <3> HIDE DEF m
    <3>5. SubSeq(d, m, top) = SubSeq(e, m, top)
      BY <1>2, <3>1, <3>2, <3>3, <3>4, SubSeqSame
    <3> QED BY <3>5 DEF m
  <2>9. SubSeq(gs, f, last) = SubSeq(cs, f, last)
    <3>1. \A i \in 1..last : gs[i] = cs[i]
      BY <1>1, <1>4, <2>2
    <3>2. f \in Nat \ {0} /\ last \in Int /\ last <= Len(gs) /\ last <= Len(cs)
      BY <1>1, <1>3, <2>1, <2>2
    <3> QED BY <1>1, <1>3, <3>1, <3>2, SubSeqSame
  <2>10. Part(d, cs, k) = [data |-> SubSeq(d, cs[f].dstart + 1, top),
                           frames |-> Relative(SubSeq(cs, f, last))]
    BY DEF Part, f, last, top, n
  <2>11. Part(e, gs, k) = [data |-> SubSeq(e, gs[f].dstart + 1, Top(Len(e), gs, last)),
                           frames |-> Relative(SubSeq(gs, f, last))]
    BY <1>8, <2>1, <2>3 DEF Part
  <2> QED BY <2>1, <2>6, <2>8, <2>9, <2>10, <2>11
<1>12. Part(e, gs, n + 1) = [data |-> data, frames |-> Relative(fs)]
  <2>1. Part(e, gs, n + 1) = [data |-> SubSeq(e, Len(d) + 1, Len(e)),
                              frames |-> Relative(SubSeq(gs, Len(cs) + 1, Len(gs)))]
    BY <1>5, <1>8, <1>9 DEF Part, Top
  <2>2. SubSeq(e, Len(d) + 1, Len(e)) = data
    BY Cut DEF e
  <2>3. SubSeq(gs, Len(cs) + 1, Len(gs)) = fs
    BY <1>1, Cut DEF gs
  <2> QED BY <2>1, <2>2, <2>3
<1>13. Parts(e, gs) = Append(Parts(d, cs), [data |-> data, frames |-> Relative(fs)])
  <2> DEFINE x == [data |-> data, frames |-> Relative(fs)]
             p == Parts(d, cs)
             q == Parts(e, gs)
             S == {p[k] : k \in 1..n} \cup {x}
  <2>1. p = [k \in 1..n |-> Part(d, cs, k)] /\ q = [k \in 1..(n + 1) |-> Part(e, gs, k)]
    BY <1>8 DEF Parts, n
  <2> HIDE DEF x, p, q
  <2>2. p \in [1..n -> S] /\ Len(p) = n /\ x \in S
    BY <1>8, <2>1
  <2> HIDE DEF S
  <2>3. p \in Seq(S)
    BY <1>8, <2>2
  <2>4. \A k \in 1..n : q[k] = p[k] /\ q[n + 1] = x
    BY <1>8, <1>11, <1>12, <2>1 DEF x
  <2>5. q[n + 1] = x
    BY <1>8, <1>12, <2>1 DEF x
  <2>6. \A k \in 1..(n + 1) : q[k] \in S
    <3>0. \A k \in 1..n : p[k] \in S
      BY <2>2
    <3>1. \A k \in 1..(n + 1) : k \in 1..n \/ k = n + 1
      BY <1>8
    <3> QED BY <2>2, <2>4, <2>5, <3>0, <3>1
  <2>7. q \in [1..(n + 1) -> S]
    BY <2>1, <2>6
  <2>8. q \in Seq(S) /\ Len(q) = n + 1
    BY <1>8, <2>7
  <2>9. /\ Append(p, x) \in Seq(S) /\ Len(Append(p, x)) = n + 1
        /\ \A k \in 1..n : Append(p, x)[k] = p[k]
        /\ Append(p, x)[n + 1] = x
    BY <2>2, <2>3, AppendProperties
  <2>10. \A k \in 1..(n + 1) : q[k] = Append(p, x)[k]
    <3>1. \A k \in 1..(n + 1) : k \in 1..n \/ k = n + 1
      BY <1>8
    <3> QED BY <2>4, <2>5, <2>9, <3>1
  <2>11. q = Append(p, x)
    BY <2>8, <2>9, <2>10, SeqEqual
  <2> QED BY <2>11 DEF p, q, x
<1> QED BY <1>8, <1>13 DEF e, gs, n

\* The innermost program, from frame b on, and those below it.
Innermost(cs, b) ==
  b \in 1..Len(cs) /\ ~cs[b].attached /\ \A j \in (b + 1)..Len(cs) : cs[j].attached
Bottom(d, cs, b) == Parts(Take(d, cs[b].dstart), Take(cs, b - 1))
Upper(d, cs, b) == [data |-> SubSeq(d, cs[b].dstart + 1, Len(d)),
                    frames |-> Relative(SubSeq(cs, b, Len(cs)))]

LEMMA StartIn ==
  ASSUME NEW d \in Seq(Cell), NEW cs, Stack(Len(d), cs), NEW b \in 1..Len(cs)
  PROVE  cs[b].dstart \in 0..Len(d) /\ Len(cs) \in Nat /\ Len(d) \in Nat /\ cs \in Seq(Frame)
<1>1. cs \in Seq(Frame) /\ Len(cs) \in Nat /\ Len(d) \in Nat
  BY DEF Stack
<1>2. Len(cs) > 0 /\ Len(cs) \in 1..Len(cs)
  BY <1>1
<1>3. cs[Len(cs)].dstart <= Len(d) /\ cs[Len(cs)].dstart \in Nat
  <2>1. /\ cs[Len(cs)].dstart \in Nat /\ cs[Len(cs)].nv \in Nat /\ cs[Len(cs)].want \in Nat
        /\ cs[Len(cs)].dstart + cs[Len(cs)].nv + cs[Len(cs)].want <= Len(d)
    BY <1>1, <1>2, TopFacts
  <2> QED BY <1>1, <2>1
<1>4. cs[b].dstart <= cs[Len(cs)].dstart
  BY <1>1, <1>2, StartsOrdered
<1>5. cs[b].dstart \in Nat
  <2>1. cs[b] \in Frame
    BY <1>1, ElementOfSeq
  <2> QED BY <2>1 DEF Frame
<1> QED BY <1>1, <1>3, <1>4, <1>5

LEMMA PartsSplit ==
  ASSUME NEW d \in Seq(Cell), NEW cs, Stack(Len(d), cs), NEW b, Innermost(cs, b)
  PROVE  Parts(d, cs) = Append(Bottom(d, cs, b), Upper(d, cs, b))
<1> DEFINE start == cs[b].dstart
           low == Take(d, start)
           data == SubSeq(d, start + 1, Len(d))
           below == Take(cs, b - 1)
           fs == SubSeq(cs, b, Len(cs))
<1>1. b \in 1..Len(cs) /\ ~cs[b].attached /\ \A j \in (b + 1)..Len(cs) : cs[j].attached
  BY DEF Innermost
<1>2. start \in 0..Len(d) /\ Len(cs) \in Nat /\ Len(d) \in Nat /\ cs \in Seq(Frame)
  BY <1>1, StartIn
<1>3. /\ low \in Seq(Cell) /\ data \in Seq(Cell) /\ Len(low) = start
      /\ low \o data = d
  BY <1>2, Halves DEF Take
<1>4. /\ below \in Seq(Frame) /\ fs \in Seq(Frame) /\ Len(below) = b - 1
      /\ Len(fs) = Len(cs) - (b - 1) /\ below \o fs = cs
      /\ \A i \in 1..(Len(cs) - (b - 1)) : fs[i] = cs[b - 1 + i]
  <2> DEFINE n == b - 1
  <2>1. n \in 0..Len(cs) /\ n + 1 = b
    BY <1>1, <1>2
  <2> HIDE DEF n
  <2>2. /\ Take(cs, n) \in Seq(Frame) /\ SubSeq(cs, n + 1, Len(cs)) \in Seq(Frame)
        /\ Len(Take(cs, n)) = n /\ Len(SubSeq(cs, n + 1, Len(cs))) = Len(cs) - n
        /\ \A i \in 1..(Len(cs) - n) : SubSeq(cs, n + 1, Len(cs))[i] = cs[n + i]
        /\ Take(cs, n) \o SubSeq(cs, n + 1, Len(cs)) = cs
    BY <1>2, <2>1, Halves DEF Take
  <2> QED BY <2>1, <2>2 DEF n
<1>5. Stack(start, below)
  BY <1>1, <1>2, CutStack
<1>6. fs # <<>> /\ fs[1] = cs[b] /\ \A i \in 2..Len(fs) : fs[i].attached
  <2>1. Len(fs) > 0 /\ b - 1 + 1 = b /\ 1 \in 1..(Len(cs) - (b - 1))
    BY <1>1, <1>2, <1>4
  <2>2. fs[1] = cs[b]
    BY <1>4, <2>1
  <2>3. ASSUME NEW i \in 2..Len(fs) PROVE fs[i].attached
    <3>1. i \in 1..(Len(cs) - (b - 1)) /\ b - 1 + i \in (b + 1)..Len(cs)
      BY <1>1, <1>2, <1>4
    <3> QED BY <1>1, <1>4, <3>1
  <2>4. fs # <<>>
    <3>1. Len(fs) # 0
      BY <1>1, <1>2, <1>4
    <3>2. fs = <<>> => Len(fs) = 0
      BY <1>4, EmptySeq, Zenon
    <3> QED BY <3>1, <3>2
  <2> QED BY <2>2, <2>3, <2>4
<1> HIDE DEF start, low, data, below, fs
<1>7. Parts(low \o data, below \o fs)
        = Append(Parts(low, below), [data |-> data, frames |-> Relative(fs)])
  <2>1. fs[1].dstart = Len(low) /\ ~fs[1].attached /\ Stack(Len(low), below)
    BY <1>1, <1>3, <1>5, <1>6 DEF start
  <2>2. low \in Seq(Cell) /\ data \in Seq(Cell) /\ fs \in Seq(Frame) /\ fs # <<>>
        /\ \A i \in 2..Len(fs) : fs[i].attached
    BY <1>3, <1>4, <1>6
  <2> QED BY <2>1, <2>2, PartsAppend
<1> QED BY <1>3, <1>4, <1>7 DEF Bottom, Upper, start, low, data, below, fs

LEMMA BottomSame ==
  ASSUME NEW d \in Seq(Cell), NEW cs, Stack(Len(d), cs), NEW b \in 1..Len(cs),
         NEW e \in Seq(Cell), NEW gs \in Seq(Frame), b <= Len(gs) + 1,
         \A i \in 1..(b - 1) : gs[i] = cs[i], Keeps(cs[b].dstart, d, e)
  PROVE  Parts(Take(e, cs[b].dstart), Take(gs, b - 1)) = Bottom(d, cs, b)
<1> DEFINE start == cs[b].dstart
           n == b - 1
<1>1. /\ start \in 0..Len(d) /\ Len(cs) \in Nat /\ Len(d) \in Nat /\ cs \in Seq(Frame)
      /\ n \in Int /\ n <= Len(cs) /\ n <= Len(gs) /\ Len(e) \in Nat /\ Len(gs) \in Nat
  BY StartIn
<1>2. \A i \in 1..start : i <= Len(e) /\ d[i] = e[i]
  BY DEF Keeps
<1> HIDE DEF start
<1>3. start <= Len(e) /\ start \in Int /\ start <= Len(d)
  <2>1. start = 0 \/ start \in 1..start
    BY <1>1
  <2> QED BY <1>1, <1>2, <2>1
<1>4. Take(d, start) = Take(e, start)
  <2>1. 1 \in Nat \ {0}
    OBVIOUS
  <2> QED BY <1>2, <1>3, <2>1, SubSeqSame DEF Take
<1>5. Take(cs, n) = Take(gs, n)
  <2>1. 1 \in Nat \ {0} /\ \A i \in 1..n : cs[i] = gs[i]
    OBVIOUS
  <2> HIDE DEF n
  <2> QED BY <1>1, <2>1, SubSeqSame DEF Take
<1> QED BY <1>4, <1>5 DEF Bottom, start

LEMMA PartsSeq ==
  ASSUME NEW d, NEW cs, Len(cs) \in Nat
  PROVE  \E S : Parts(d, cs) \in Seq(S)
<1> DEFINE S == {Part(d, cs, k) : k \in 1..Count(cs)}
<1>1. Count(cs) \in Nat
  BY DetachedFinite DEF Count
<1>2. Parts(d, cs) \in [1..Count(cs) -> S]
  BY DEF Parts
<1>3. Parts(d, cs) \in Seq(S)
  <2> HIDE DEF S
  <2> QED BY <1>1, <1>2
<1> QED BY <1>3

\* A sequence and what is on top of it.
LEMMA AppendBack ==
  ASSUME NEW S, NEW p \in Seq(S), NEW x
  PROVE  /\ Len(p) \in Nat /\ Len(Append(p, x)) = Len(p) + 1
         /\ SubSeq(Append(p, x), 1, Len(p)) = p /\ Append(p, x)[Len(p) + 1] = x
<1> DEFINE T == S \cup {x}
           n == Len(p)
<1>1. p \in Seq(T) /\ x \in T /\ n \in Nat
  BY SeqMonotonic
<1> HIDE DEF T, n
<1>2. /\ Append(p, x) \in Seq(T) /\ Len(Append(p, x)) = Len(p) + 1
      /\ \A i \in 1..Len(p) : Append(p, x)[i] = p[i]
      /\ Append(p, x)[Len(p) + 1] = x
  BY <1>1, AppendProperties
<1>3. SubSeq(Append(p, x), 1, n) = SubSeq(p, 1, n)
  <2>1. n \in Int /\ 1 \in Nat \ {0} /\ n <= Len(p) /\ n <= Len(Append(p, x))
        /\ \A i \in 1..n : Append(p, x)[i] = p[i]
    BY <1>1, <1>2 DEF n
  <2> QED BY <1>1, <1>2, <2>1, SubSeqSame
<1>4. SubSeq(p, 1, Len(p)) = p
  BY SubSeqFull
<1> QED BY <1>1, <1>2, <1>3, <1>4 DEF n

-----------------------------------------------------------------------------
(* The abstract state.                                                     *)

Waiting(q) == [r \in Queues |-> Asleep(q[r])]
Dooms(ps) == [k \in DOMAIN ps |-> [i \in DOMAIN ps[k].lists |-> Asleep(ps[k].lists[i])]]

\* C's variables, in this state and in the next.
LEMMA Mapped ==
  /\ OnStacks = Parts(dstack, cstack) /\ OnStacks' = Parts(dstack', cstack')
  /\ InQueues = Waiting(queue) /\ InQueues' = Waiting(queue')
  /\ InPipes = Dooms(pipes) /\ InPipes' = Dooms(pipes')
BY DEF OnStacks, InQueues, InPipes, Programs, Program, First, Parts, Part, Count, FirstOf,
       Detached, dpos, cpos, Waiting, Dooms

\* The innermost program changes.
LEMMA MapsCompute ==
  ASSUME NEW S, NEW p \in Seq(S), NEW x, NEW y, Parts(dstack, cstack) = Append(p, x),
         Parts(dstack', cstack') = Append(p, y), Waiting(queue') = Waiting(queue),
         Dooms(pipes') = Dooms(pipes)
  PROVE  C!Compute
<1>1. /\ Len(p) \in Nat /\ Len(Append(p, x)) = Len(p) + 1 /\ SubSeq(Append(p, x), 1, Len(p)) = p
      /\ Len(Append(p, y)) = Len(p) + 1 /\ SubSeq(Append(p, y), 1, Len(p)) = p
  BY AppendBack
<1>2. Len(p) + 1 > 0 /\ (Len(p) + 1) - 1 = Len(p)
  BY <1>1
<1> QED BY <1>1, <1>2, Mapped DEF C!Compute, C!depth, C!Outer

\* Only relative positions and the numbers of variables count.
LEMMA RelativeSame ==
  ASSUME NEW fs \in Seq(Frame), NEW gs \in Seq(Frame), Len(gs) = Len(fs), NEW c \in Int,
         \A i \in 1..Len(fs) : gs[i].dstart = fs[i].dstart + c /\ gs[i].nv = fs[i].nv
  PROVE  Relative(gs) = Relative(fs)
<1>1. Len(fs) \in Nat /\ DOMAIN fs = 1..Len(fs) /\ DOMAIN gs = 1..Len(fs)
  OBVIOUS
<1>2. \A i \in 1..Len(fs) : fs[i].dstart \in Nat
  <2>1. \A i \in 1..Len(fs) : fs[i] \in Frame
    BY ElementOfSeq
  <2> QED BY <2>1 DEF Frame
<1>3. ASSUME NEW i \in 1..Len(fs)
      PROVE gs[i].dstart - gs[1].dstart = fs[i].dstart - fs[1].dstart /\ gs[i].nv = fs[i].nv
  <2>1. 1 \in 1..Len(fs)
    BY <1>1
  <2>2. /\ gs[i].dstart = fs[i].dstart + c /\ gs[1].dstart = fs[1].dstart + c
        /\ fs[i].dstart \in Nat /\ fs[1].dstart \in Nat /\ gs[i].nv = fs[i].nv
    BY <1>2, <2>1
  <2> QED BY <2>2
<1> QED BY <1>1, <1>3 DEF Relative

\* Frames that differ neither in place nor in variables.
LEMMA RelativeSub ==
  ASSUME NEW fs \in Seq(Frame), NEW gs \in Seq(Frame), Len(gs) = Len(fs), NEW b \in 1..Len(fs),
         \A i \in 1..Len(fs) : gs[i].dstart = fs[i].dstart /\ gs[i].nv = fs[i].nv
  PROVE  Relative(SubSeq(gs, b, Len(fs))) = Relative(SubSeq(fs, b, Len(fs)))
<1> DEFINE n == Len(fs)
           f == SubSeq(fs, b, n)
           g == SubSeq(gs, b, n)
<1>1. n \in Nat /\ b \in 1..n
  OBVIOUS
<1>2. \A i \in 1..n : fs[i] \in Frame /\ gs[i] \in Frame
  BY ElementOfSeq
<1> HIDE DEF n
<1>3. \A i \in b..n : fs[i] \in Frame /\ gs[i] \in Frame
  BY <1>1, <1>2
<1>4. /\ f \in Seq(Frame) /\ g \in Seq(Frame) /\ Len(f) = n - b + 1 /\ Len(g) = n - b + 1
      /\ \A i \in 1..(n - b + 1) : f[i] = fs[b + i - 1] /\ g[i] = gs[b + i - 1]
  BY <1>1, <1>3, SubSeqProperties
<1> HIDE DEF f, g
<1>5. ASSUME NEW i \in 1..(n - b + 1) PROVE g[i].dstart = f[i].dstart + 0 /\ g[i].nv = f[i].nv
  <2> DEFINE k == b + i - 1
  <2>1. k \in 1..n /\ f[i] = fs[k] /\ g[i] = gs[k]
    BY <1>1, <1>4
  <2> HIDE DEF k
  <2>2. fs[k].dstart \in Nat /\ gs[k].dstart = fs[k].dstart /\ gs[k].nv = fs[k].nv
    BY <1>2, <2>1 DEF Frame, n
  <2> QED BY <2>1, <2>2
<1>6. Relative(g) = Relative(f)
  <2>1. 0 \in Int
    OBVIOUS
  <2>2. /\ f \in Seq(Frame) /\ g \in Seq(Frame) /\ Len(g) = Len(f)
        /\ \A i \in 1..Len(f) : g[i].dstart = f[i].dstart + 0 /\ g[i].nv = f[i].nv
    BY <1>4, <1>5
  <2> QED BY ONLY <2>1, <2>2, RelativeSame
<1> QED BY <1>6 DEF f, g, n

\* What a suspended program is to C.
Dream(es) == [data |-> es.data, frames |-> Relative(es.frames)]

LEMMA DreamForget ==
  ASSUME NEW es \in Estate
  PROVE  Dream(Forget(es)) = Dream(es)
<1> DEFINE fs == es.frames
           gs == [i \in DOMAIN fs |-> [fs[i] EXCEPT !.live = FALSE]]
<1>1. fs \in Seq(Frame) /\ Len(fs) \in Nat /\ DOMAIN fs = 1..Len(fs)
  BY DEF Estate
<1>2. \A i \in 1..Len(fs) : fs[i] \in Frame
  BY <1>1, ElementOfSeq
<1>3. Forget(es) = [es EXCEPT !.frames = gs]
  BY Zenon DEF Forget
<1>4. gs = [i \in 1..Len(fs) |-> [fs[i] EXCEPT !.live = FALSE]]
  BY <1>1
<1>5. \A i \in 1..Len(fs) : gs[i] \in Frame /\ gs[i].dstart = fs[i].dstart /\ gs[i].nv = fs[i].nv
  BY <1>2, <1>4 DEF Frame
<1> HIDE DEF gs
<1>6. Forget(es).data = es.data /\ Forget(es).frames = gs
  BY <1>3 DEF Estate
<1> HIDE DEF fs
<1>7. gs \in Seq(Frame) /\ Len(gs) = Len(fs)
  <2>1. gs \in [1..Len(fs) -> Frame]
    BY <1>4, <1>5
  <2> QED BY <1>1, <2>1
<1>8. \A i \in 1..Len(fs) : gs[i].dstart = fs[i].dstart + 0 /\ gs[i].nv = fs[i].nv
  <2>1. \A i \in 1..Len(fs) : fs[i].dstart \in Nat
    BY <1>2 DEF Frame
  <2> QED BY <1>5, <2>1
<1>9. Relative(gs) = Relative(fs)
  <2>1. 0 \in Int
    OBVIOUS
  <2> QED BY <1>1, <1>7, <1>8, <2>1, RelativeSame
<1> QED BY <1>6, <1>9 DEF Dream, fs

LEMMA AsleepList ==
  ASSUME NEW list \in Seq(Estate)
  PROVE  /\ Len(list) \in Nat /\ Asleep(list) = [i \in 1..Len(list) |-> Dream(list[i])]
         /\ Asleep(list) \in Seq({Dream(es) : es \in Estate}) /\ Len(Asleep(list)) = Len(list)
         /\ \A i \in 1..Len(list) : Asleep(list)[i] = Dream(list[i])
<1> DEFINE D == {Dream(es) : es \in Estate}
           l == Asleep(list)
<1>1. Len(list) \in Nat /\ DOMAIN list = 1..Len(list)
  OBVIOUS
<1>2. l = [i \in 1..Len(list) |-> Dream(list[i])]
  BY <1>1 DEF Asleep, Dream
<1>3. \A i \in 1..Len(list) : list[i] \in Estate
  BY ElementOfSeq
<1> HIDE DEF l
<1>4. l \in [1..Len(list) -> D]
  BY <1>2, <1>3
<1> HIDE DEF D
<1>5. l \in Seq(D) /\ Len(l) = Len(list)
  BY <1>1, <1>4
<1> QED BY <1>1, <1>2, <1>5 DEF D, l

LEMMA AsleepForget ==
  ASSUME NEW list \in Seq(Estate)
  PROVE  Asleep(ForgetAll(list)) = Asleep(list)
<1>1. Len(list) \in Nat /\ DOMAIN list = 1..Len(list)
  OBVIOUS
<1>2. ForgetAll(list) = [i \in 1..Len(list) |-> Forget(list[i])]
  BY <1>1 DEF ForgetAll
<1>3. DOMAIN ForgetAll(list) = 1..Len(list) /\ \A i \in 1..Len(list) : ForgetAll(list)[i] = Forget(list[i])
  BY <1>2
<1>4. \A i \in 1..Len(list) : list[i] \in Estate
  BY ElementOfSeq
<1>5. \A i \in 1..Len(list) : Dream(Forget(list[i])) = Dream(list[i])
  BY <1>4, DreamForget
<1>6. Asleep(ForgetAll(list)) = [i \in 1..Len(list) |-> Dream(Forget(list[i]))]
  BY <1>3 DEF Asleep, Dream
<1>7. Asleep(list) = [i \in 1..Len(list) |-> Dream(list[i])]
  BY <1>1 DEF Asleep, Dream
<1> QED BY <1>5, <1>6, <1>7

\* double_dstack() is not seen.
LEMMA DoomsLeft ==
  ASSUME NEW ps \in Seq(Pipe), NEW newsize
  PROVE  Dooms(Left(ps, newsize)) = Dooms(ps)
<1>1. CASE newsize = dsize
  BY <1>1 DEF Left
<1>2. CASE newsize # dsize
  <2> DEFINE moved(p) == [p EXCEPT !.lists = [j \in DOMAIN p.lists |-> ForgetAll(p.lists[j])]]
             asleep(p) == [i \in DOMAIN p.lists |-> Asleep(p.lists[i])]
             new == Left(ps, newsize)
  <2>1. Len(ps) \in Nat /\ DOMAIN ps = 1..Len(ps) /\ \A k \in 1..Len(ps) : ps[k] \in Pipe
    BY ElementOfSeq
  <2>2. ASSUME NEW p \in Pipe PROVE asleep(moved(p)) = asleep(p)
    <3> DEFINE ls == p.lists
               ms == [j \in DOMAIN ls |-> ForgetAll(ls[j])]
    <3>1. ls \in Seq(Seq(Estate)) /\ Len(ls) \in Nat /\ DOMAIN ls = 1..Len(ls)
      BY DEF Pipe
    <3>2. \A j \in 1..Len(ls) : ls[j] \in Seq(Estate)
      BY <3>1, ElementOfSeq
    <3>3. moved(p).lists = ms
      <4>1. moved(p) = [p EXCEPT !.lists = ms]
        BY Zenon
      <4> HIDE DEF ms, moved
      <4> QED BY <4>1 DEF Pipe
    <3>4. DOMAIN ms = 1..Len(ls) /\ \A j \in 1..Len(ls) : ms[j] = ForgetAll(ls[j])
      BY <3>1
    <3> HIDE DEF ms, moved
    <3>5. asleep(moved(p)) = [i \in 1..Len(ls) |-> Asleep(ForgetAll(ls[i]))]
      BY <3>3, <3>4
    <3>6. asleep(p) = [i \in 1..Len(ls) |-> Asleep(ls[i])]
      BY <3>1
    <3>7. \A i \in 1..Len(ls) : Asleep(ForgetAll(ls[i])) = Asleep(ls[i])
      BY <3>2, AsleepForget
    <3> HIDE DEF ls, asleep
    <3> QED BY <3>5, <3>6, <3>7
  <2>3. new = [k \in 1..Len(ps) |-> moved(ps[k])]
    BY <1>2, <2>1 DEF Left
  <2> HIDE DEF moved, new
  <2>4. DOMAIN new = 1..Len(ps) /\ \A k \in 1..Len(ps) : new[k] = moved(ps[k])
    BY <2>3
  <2>5. Dooms(new) = [k \in 1..Len(ps) |-> asleep(new[k])]
    BY <2>4 DEF Dooms
  <2>6. Dooms(ps) = [k \in 1..Len(ps) |-> asleep(ps[k])]
    BY <2>1 DEF Dooms
  <2>7. \A k \in 1..Len(ps) : asleep(new[k]) = asleep(ps[k])
    BY <2>1, <2>2, <2>4
  <2> HIDE DEF asleep
  <2>8. Dooms(new) = Dooms(ps)
    BY <2>5, <2>6, <2>7
  <2> QED BY <2>8 DEF new
<1> QED BY <1>1, <1>2

-----------------------------------------------------------------------------
(* The innermost program computes.                                         *)

LEMMA NextStacks ==
  ASSUME IInv'
  PROVE  /\ dstack' \in Seq(Cell) /\ cstack' \in Seq(Frame) /\ Stack(Len(dstack'), cstack')
         /\ Len(dstack') \in Nat /\ Len(cstack') \in Nat
<1>1. dstack' \in Seq(Cell) /\ Stack(Len(dstack'), cstack')
  BY DEF IInv, State
<1> QED BY <1>1 DEF Stack

LEMMA InnermostNow ==
  ASSUME IInv, cpos > 0
  PROVE  /\ Innermost(cstack, Base) /\ Base \in 1..Len(cstack) /\ Low = cstack[Base].dstart
         /\ Low \in 0..Len(dstack) /\ Stack(Len(dstack), cstack) /\ Len(cstack) \in Nat
         /\ dstack \in Seq(Cell) /\ cstack \in Seq(Frame)
<1>1. /\ Base \in 1..cpos /\ ~cstack[Base].attached
      /\ \A j \in (Base + 1)..cpos : cstack[j].attached
  BY BaseFacts
<1>2. dstack \in Seq(Cell) /\ cstack \in Seq(Frame) /\ Stack(dpos, cstack) /\ cpos \in Nat
  BY InvFacts
<1>3. Low = cstack[Base].dstart /\ Low \in 0..dpos
  BY LowFacts
<1> QED BY <1>1, <1>2, <1>3 DEF Innermost, cpos, dpos

\* A step in which nobody else's frames or cells change.
LEMMA ComputeStep ==
  ASSUME IInv, IInv', cpos > 0, Keeps(Low, dstack, dstack'), Innermost(cstack', Base),
         \A i \in 1..(Base - 1) : cstack'[i] = cstack[i],
         cstack'[Base].dstart = cstack[Base].dstart,
         queue' = queue, NEW newsize, pipes' = Left(pipes, newsize)
  PROVE  C!Compute
<1> DEFINE b == Base
           p == Bottom(dstack, cstack, b)
           x == Upper(dstack, cstack, b)
           y == Upper(dstack', cstack', b)
<1>1. /\ Innermost(cstack, b) /\ b \in 1..Len(cstack) /\ Low = cstack[b].dstart
      /\ Stack(Len(dstack), cstack) /\ Len(cstack) \in Nat
      /\ dstack \in Seq(Cell) /\ cstack \in Seq(Frame)
  BY InnermostNow
<1>2. /\ dstack' \in Seq(Cell) /\ cstack' \in Seq(Frame) /\ Stack(Len(dstack'), cstack')
      /\ Len(cstack') \in Nat
  BY NextStacks
<1>3. /\ Innermost(cstack', b) /\ cstack'[b].dstart = cstack[b].dstart
      /\ \A i \in 1..(b - 1) : cstack'[i] = cstack[i]
      /\ Keeps(cstack[b].dstart, dstack, dstack')
  BY <1>1
<1> HIDE DEF b
<1>4. b <= Len(cstack') + 1
  BY <1>2, <1>3 DEF Innermost
<1>5. Parts(dstack, cstack) = Append(p, x)
  BY <1>1, PartsSplit
<1>6. Parts(dstack', cstack') = Append(Bottom(dstack', cstack', b), y)
  BY <1>2, <1>3, PartsSplit
<1>7. Bottom(dstack', cstack', b) = p
  <2>1. Parts(Take(dstack', cstack[b].dstart), Take(cstack', b - 1)) = Bottom(dstack, cstack, b)
    BY <1>1, <1>2, <1>3, <1>4, BottomSame
  <2> QED BY <1>3, <2>1 DEF Bottom
<1>8. PICK S : p \in Seq(S)
  <2>1. Len(Take(cstack, b - 1)) \in Nat
    <3>1. Len(Take(cstack, b - 1)) = b - 1 /\ b - 1 \in Nat
      BY <1>1, CutStack
    <3> QED BY <3>1
  <2> QED BY <2>1, PartsSeq DEF Bottom
<1>9. Dooms(pipes') = Dooms(pipes)
  <2>1. pipes \in Seq(Pipe)
    BY InvFacts DEF GoodPipes
  <2> QED BY <2>1, DoomsLeft
<1> HIDE DEF p, x, y
<1> QED BY <1>5, <1>6, <1>7, <1>8, <1>9, MapsCompute

\* Another last frame.
LEMMA RetopFrames ==
  ASSUME IInv, cpos > 0, NEW w, NEW pr
  PROVE  /\ Len(Retop(w, pr)) = cpos
         /\ \E S : Retop(w, pr) \in Seq(S)
         /\ \A i \in 1..cpos : /\ i # cpos => Retop(w, pr)[i] = cstack[i]
                               /\ Retop(w, pr)[i].dstart = cstack[i].dstart
                               /\ Retop(w, pr)[i].nv = cstack[i].nv
                               /\ Retop(w, pr)[i].attached = cstack[i].attached
<1>1. cstack \in Seq(Frame) /\ cpos \in Nat /\ cpos = Len(cstack) /\ DOMAIN cstack = 1..cpos
  BY InvFacts
<1>2. cstack[cpos] \in Frame
  BY <1>1, ElementOfSeq
<1> DEFINE f == [cstack[cpos] EXCEPT !.want = w, !.prim = pr]
<1>3. /\ f.dstart = cstack[cpos].dstart /\ f.nv = cstack[cpos].nv
      /\ f.attached = cstack[cpos].attached
  BY <1>2 DEF Frame
<1>4. Retop(w, pr) = [cstack EXCEPT ![cpos] = f]
  BY <1>1, <1>2 DEF Retop, Frame
<1> HIDE DEF f
<1>5. Retop(w, pr) = [i \in 1..cpos |-> IF i = cpos THEN f ELSE cstack[i]]
  BY <1>1, <1>4
<1>6. Retop(w, pr) \in Seq(Frame \cup {f})
  <2>1. \A i \in 1..cpos : cstack[i] \in Frame
    BY <1>1, ElementOfSeq
  <2> DEFINE S == Frame \cup {f}
  <2>2. Retop(w, pr) \in [1..cpos -> S]
    BY <1>5, <2>1
  <2> HIDE DEF S
  <2>3. Retop(w, pr) \in Seq(S)
    BY <1>1, <2>2
  <2> QED BY <2>3 DEF S
<1>7. /\ Len(Retop(w, pr)) = cpos
      /\ \A i \in 1..cpos : Retop(w, pr)[i] = IF i = cpos THEN f ELSE cstack[i]
  BY <1>1, <1>5
<1> QED BY <1>3, <1>6, <1>7

LEMMA RetopCompute ==
  ASSUME IInv, IInv', cpos > 0, Keeps(Low, dstack, dstack'), NEW w, NEW pr,
         cstack' = Retop(w, pr), queue' = queue, NEW newsize, pipes' = Left(pipes, newsize)
  PROVE  C!Compute
<1> DEFINE b == Base
<1>1. Innermost(cstack, b) /\ b \in 1..cpos /\ cpos \in Nat /\ cpos = Len(cstack)
  BY InnermostNow, InvFacts
<1>2. /\ Len(cstack') = cpos
      /\ \A i \in 1..cpos : /\ i # cpos => cstack'[i] = cstack[i]
                            /\ cstack'[i].dstart = cstack[i].dstart
                            /\ cstack'[i].attached = cstack[i].attached
  BY RetopFrames
<1>3. Innermost(cstack', b)
  BY <1>1, <1>2 DEF Innermost
<1>4. cstack'[b].dstart = cstack[b].dstart /\ \A i \in 1..(b - 1) : cstack'[i] = cstack[i]
  BY <1>1, <1>2
<1> QED BY <1>3, <1>4, ComputeStep

\* A frame more, of the same program.
LEMMA PushCompute ==
  ASSUME IInv, IInv', cpos > 0, Keeps(Low, dstack, dstack'), NEW w, NEW pr, NEW f,
         f.attached, cstack' = Append(Retop(w, pr), f),
         queue' = queue, NEW newsize, pipes' = Left(pipes, newsize)
  PROVE  C!Compute
<1> DEFINE b == Base
           cs == Retop(w, pr)
<1>1. Innermost(cstack, b) /\ b \in 1..cpos /\ cpos \in Nat /\ cpos = Len(cstack)
  BY InnermostNow, InvFacts
<1>2. /\ Len(cs) = cpos
      /\ \A i \in 1..cpos : /\ i # cpos => cs[i] = cstack[i]
                            /\ cs[i].dstart = cstack[i].dstart
                            /\ cs[i].attached = cstack[i].attached
  BY RetopFrames
<1> HIDE DEF b, cs
<1>3. /\ Len(cstack') = cpos + 1 /\ cstack'[cpos + 1] = f
      /\ \A i \in 1..cpos : cstack'[i] = cs[i]
  <2>1. PICK S : cs \in Seq(S)
    BY RetopFrames DEF cs
  <2> DEFINE T == S \cup {f}
  <2>2. cs \in Seq(T) /\ f \in T /\ cstack' = Append(cs, f)
    BY <2>1, SeqMonotonic DEF cs
  <2> HIDE DEF T
  <2> QED BY <1>2, <2>2, AppendProperties
<1>4. Innermost(cstack', b)
  <2>1. b \in 1..Len(cstack') /\ ~cstack'[b].attached
    BY <1>1, <1>2, <1>3 DEF Innermost
  <2>2. ASSUME NEW j \in (b + 1)..Len(cstack') PROVE cstack'[j].attached
    <3>1. CASE j = cpos + 1
      BY <1>3, <3>1
    <3>2. CASE j # cpos + 1
      <4>1. j \in (b + 1)..cpos /\ j \in 1..cpos
        BY <1>1, <1>3, <3>2
      <4> QED BY <1>1, <1>2, <1>3, <4>1 DEF Innermost
    <3> QED BY <3>1, <3>2
  <2> QED BY <2>1, <2>2 DEF Innermost
<1>5. cstack'[b].dstart = cstack[b].dstart /\ \A i \in 1..(b - 1) : cstack'[i] = cstack[i]
  <2>1. b - 1 < cpos /\ b \in 1..cpos /\ \A i \in 1..(b - 1) : i \in 1..cpos /\ i # cpos
    BY <1>1
  <2> QED BY <1>2, <1>3, <2>1
<1> QED BY <1>4, <1>5, ComputeStep DEF b

LEMMA CpushCompute ==
  ASSUME IInv, IInv', cpos > 0, Keeps(Low, dstack, dstack'), NEW w, NEW pr,
         NEW d, NEW size, NEW prog, NEW argc, NEW progress,
         Cpush(d, size, Retop(w, pr), prog, argc, TRUE, progress), queue' = queue
  PROVE  C!Compute
<1> DEFINE f == [dstart |-> Len(d) - argc - progress,
                 nv |-> prog.lvarc + Larger(argc, prog.avarc),
                 vals |-> Len(d) - argc - progress, live |-> TRUE,
                 attached |-> TRUE, want |-> progress, prim |-> NoPrim]
<1>1. cstack' = Append(Retop(w, pr), f)
  BY DEF Cpush
<1>2. pipes' = Left(pipes, dsize')
  BY DEF Cpush, Double
<1>3. f.attached
  OBVIOUS
<1> HIDE DEF f
<1> QED BY <1>1, <1>2, <1>3, PushCompute

LEMMA CalleeCompute ==
  ASSUME IInv, IInv', cpos > 0, Keeps(Low, dstack, dstack'), NEW w, NEW pr,
         NEW d, NEW size, NEW argc, Callee(argc, TRUE, d, size, Retop(w, pr)), queue' = queue
  PROVE  C!Compute
BY CpushCompute DEF Callee

\* Operands, and calls within the program.
LEMMA OperandsCompute ==
  ASSUME IInv, IInv', cpos > 0, Keeps(Low, dstack, dstack'),
         \/ \E v \in Cell : Push(v) \/ Eval(v)
         \/ Pop
         \/ \E i \in 1..Ctop.nv : Assign(i)
         \/ \E argc \in Argc, exec \in Execs : PrimBegin(argc, exec)
         \/ \E v \in Cell : PrimEnd(v)
         \/ DetachEnd
  PROVE  C!Compute
<1>1. ASSUME NEW w, NEW pr, cstack' = Retop(w, pr), queue' = queue,
             pipes' = pipes \/ pipes' = Left(pipes, dsize')
      PROVE  C!Compute
  <2>1. pipes' = Left(pipes, dsize) \/ pipes' = Left(pipes, dsize')
    BY <1>1, Unmoved
  <2> QED BY <1>1, <2>1, RetopCompute
<1>2. ASSUME NEW v \in Cell, Push(v) PROVE C!Compute
  BY <1>1, <1>2 DEF Push, Want, Double
<1>3. ASSUME NEW v \in Cell, Eval(v) PROVE C!Compute
  <2>1. cstack' = Retop(Ctop.want, Ctop.prim)
    BY <1>3, CtopFacts DEF Eval
  <2> QED BY <1>1, <1>3, <2>1 DEF Eval
<1>4. ASSUME Pop PROVE C!Compute
  BY <1>1, <1>4 DEF Pop, Want
<1>5. ASSUME NEW i, Assign(i) PROVE C!Compute
  BY <1>1, <1>5 DEF Assign, Want
<1>6. ASSUME NEW argc, NEW exec, PrimBegin(argc, exec) PROVE C!Compute
  BY <1>1, <1>6 DEF PrimBegin
<1>7. ASSUME NEW v \in Cell, PrimEnd(v) PROVE C!Compute
  <2>1. \E w : cstack' = Retop(w, NoPrim)
    BY <1>7 DEF PrimEnd
  <2>2. queue' = queue /\ (pipes' = pipes \/ pipes' = Left(pipes, dsize'))
    BY <1>7 DEF PrimEnd, Double
  <2> QED BY <1>1, <2>1, <2>2
<1>8. ASSUME DetachEnd PROVE C!Compute
  BY <1>1, <1>8 DEF DetachEnd
<1> QED BY <1>2, <1>3, <1>4, <1>5, <1>6, <1>7, <1>8

LEMMA CallsCompute ==
  ASSUME IInv, IInv', cpos > 0, Keeps(Low, dstack, dstack'),
         \/ \E prog \in Progs, argc \in Argc : Fcall(prog, argc) \/ ExecFunc(prog, argc)
         \/ \E argc \in Argc, exec \in Execs, args \in Args : Callv(argc, exec, args)
  PROVE  C!Compute
<1>1. ASSUME NEW prog, NEW argc, Fcall(prog, argc) PROVE C!Compute
  BY <1>1, CpushCompute DEF Fcall, Want
<1>2. ASSUME NEW prog, NEW argc, ExecFunc(prog, argc) PROVE C!Compute
  <2>1. \E d : Cpush(d, dsize, Retop(Ctop.want - argc - 1, Ctop.prim), prog, argc, TRUE, 0)
    BY <1>2 DEF ExecFunc, Want
  <2>2. queue' = queue
    BY <1>2 DEF ExecFunc
  <2> QED BY <2>1, <2>2, CpushCompute
<1>3. ASSUME NEW argc, NEW exec, NEW args, Callv(argc, exec, args) PROVE C!Compute
  <2>1. \E d : Callee(Len(args), TRUE, d, Fit(dsize, Len(d)),
                      Retop(Ctop.want - Taken(argc, exec), Ctop.prim))
    BY <1>3 DEF Callv, Want
  <2>2. queue' = queue
    BY <1>3 DEF Callv
  <2> QED BY <2>1, <2>2, CalleeCompute
<1> QED BY <1>1, <1>2, <1>3

-----------------------------------------------------------------------------
(* The innermost program returns, within or for good, or is aborted.       *)

LEMMA MapsFinish ==
  ASSUME NEW S, NEW p \in Seq(S), NEW x, Parts(dstack, cstack) = Append(p, x),
         Parts(dstack', cstack') = p, queue' = queue, pipes' = pipes
  PROVE  C!Finish
<1>1. Len(p) \in Nat /\ Len(Append(p, x)) = Len(p) + 1 /\ SubSeq(Append(p, x), 1, Len(p)) = p
  BY AppendBack
<1>2. Len(p) + 1 > 0 /\ (Len(p) + 1) - 1 = Len(p)
  BY <1>1
<1>3. Waiting(queue') = Waiting(queue) /\ Dooms(pipes') = Dooms(pipes)
  OBVIOUS
<1> QED BY <1>1, <1>2, <1>3, Mapped DEF C!Finish, C!depth, C!Outer

\* The innermost program and the others, now.
LEMMA SplitNow ==
  ASSUME IInv, cpos > 0
  PROVE  /\ Parts(dstack, cstack) = Append(Bottom(dstack, cstack, Base), Upper(dstack, cstack, Base))
         /\ \E S : Bottom(dstack, cstack, Base) \in Seq(S)
<1> DEFINE b == Base
<1>1. /\ Innermost(cstack, b) /\ b \in 1..Len(cstack)
      /\ Stack(Len(dstack), cstack) /\ Len(cstack) \in Nat
      /\ dstack \in Seq(Cell) /\ cstack \in Seq(Frame)
  BY InnermostNow
<1> HIDE DEF b
<1>2. Parts(dstack, cstack) = Append(Bottom(dstack, cstack, b), Upper(dstack, cstack, b))
  BY <1>1, PartsSplit
<1>3. Len(Take(cstack, b - 1)) \in Nat
  <2>1. Len(Take(cstack, b - 1)) = b - 1 /\ b - 1 \in Nat
    <3>1. Len(dstack) \in Nat
      BY <1>1
    <3> QED BY <1>1, <3>1, CutStack
  <2> QED BY <2>1
<1>4. \E S : Bottom(dstack, cstack, b) \in Seq(S)
  BY <1>3, PartsSeq DEF Bottom
<1> QED BY <1>2, <1>4 DEF b

LEMMA AbortFinish ==
  ASSUME IInv, cpos > 0, Abort
  PROVE  C!Finish
<1>1. PICK S : Bottom(dstack, cstack, Base) \in Seq(S)
  BY SplitNow
<1>2. Parts(dstack', cstack') = Bottom(dstack, cstack, Base)
  BY DEF Abort, Bottom
<1>3. Parts(dstack, cstack) = Append(Bottom(dstack, cstack, Base), Upper(dstack, cstack, Base))
  BY SplitNow
<1>4. queue' = queue /\ pipes' = pipes
  BY DEF Abort
<1> QED BY <1>1, <1>2, <1>3, <1>4, MapsFinish

LEMMA StopSteps ==
  ASSUME IInv, IInv', cpos > 0, Keeps(Low, dstack, dstack'), Stop
  PROVE  C!Compute \/ C!Finish
<1> DEFINE b == Base
<1>1. /\ Innermost(cstack, b) /\ b \in 1..cpos /\ cpos \in Nat /\ cpos = Len(cstack)
      /\ cstack \in Seq(Frame) /\ Ctop = cstack[cpos]
  BY InnermostNow, InvFacts DEF Ctop
<1> HIDE DEF b
<1>2. CASE ~Ctop.attached
  <2>1. b = cpos
    <3>1. ~(cpos \in (b + 1)..Len(cstack))
      BY <1>1, <1>2 DEF Innermost
    <3> QED BY <1>1, <3>1
  <2>2. Abort
    BY <1>1, <1>2, <2>1 DEF Stop, Abort, b
  <2> QED BY <2>2, AbortFinish
<1>3. CASE Ctop.attached
  <2> DEFINE n == cpos - 1
             cs == Take(cstack, n)
             g == [cs[n] EXCEPT !.want = @ + 1]
  <2>1. b <= n /\ n \in 1..cpos /\ n \in Nat /\ n \in 0..Len(cstack) /\ b \in 1..n
    <3>1. b # cpos
      BY <1>1, <1>3 DEF Innermost
    <3> QED BY <1>1, <3>1
  <2>2. cstack' = [cs EXCEPT ![n].want = @ + 1]
    BY <1>3 DEF Stop
  <2> HIDE DEF n
  <2>3. /\ cs \in Seq(Frame) /\ Len(cs) = n /\ DOMAIN cs = 1..n
        /\ \A i \in 1..n : cs[i] = cstack[i]
    <3>1. cs \in Seq(Frame) /\ Len(cs) = n /\ \A i \in 1..n : cs[i] = cstack[i]
      BY <1>1, <2>1, TakeProperties
    <3> HIDE DEF cs
    <3>2. DOMAIN cs = 1..Len(cs)
      BY <3>1, LenProperties
    <3> QED BY <3>1, <3>2
  <2>4. cs[n] \in Frame
    <3>1. n \in 1..Len(cs)
      BY <2>1, <2>3
    <3> QED BY <2>3, <3>1, ElementOfSeq
  <2> HIDE DEF cs
  <2>5. g.dstart = cs[n].dstart /\ g.attached = cs[n].attached
    BY <2>4 DEF Frame
  <2>6. cstack' = [cs EXCEPT ![n] = g]
    BY <2>2
  <2> HIDE DEF g
  <2>7. cstack' = [i \in 1..n |-> IF i = n THEN g ELSE cs[i]]
    BY <2>3, <2>6
  <2>8. Len(cstack') = n /\ \A i \in 1..n : cstack'[i] = IF i = n THEN g ELSE cs[i]
    BY <2>1, <2>7
  <2>9. \A i \in 1..n : /\ i # n => cstack'[i] = cstack[i]
                        /\ cstack'[i].dstart = cstack[i].dstart
                        /\ cstack'[i].attached = cstack[i].attached
    BY <2>3, <2>5, <2>8
  <2>10. Innermost(cstack', b)
    <3>1. b \in 1..Len(cstack') /\ ~cstack'[b].attached
      BY <1>1, <2>1, <2>8, <2>9 DEF Innermost
    <3>2. ASSUME NEW j \in (b + 1)..Len(cstack') PROVE cstack'[j].attached
      <4>1. j \in 1..n /\ j \in (b + 1)..Len(cstack)
        BY <1>1, <2>1, <2>8
      <4> QED BY <1>1, <2>9, <4>1 DEF Innermost
    <3> QED BY <3>1, <3>2 DEF Innermost
  <2>11. cstack'[b].dstart = cstack[b].dstart /\ \A i \in 1..(b - 1) : cstack'[i] = cstack[i]
    <3>1. \A i \in 1..(b - 1) : i \in 1..n /\ i # n
      BY <2>1
    <3> QED BY <2>1, <2>9, <3>1
  <2>12. queue' = queue /\ pipes' = Left(pipes, dsize)
    <3>1. queue' = queue /\ pipes' = pipes
      BY DEF Stop
    <3> QED BY <3>1, Unmoved
  <2> QED BY <2>10, <2>11, <2>12, ComputeStep DEF b
<1> QED BY <1>2, <1>3

-----------------------------------------------------------------------------
(* A program starts.                                                       *)

LEMMA MapsStarting ==
  ASSUME NEW r, NEW s, Len(s) = Len(r) + 1,
         Len(r) > 0 =>
           /\ SubSeq(s, 1, Len(r) - 1) = SubSeq(r, 1, Len(r) - 1)
           /\ s[Len(r)].frames = r[Len(r)].frames
           /\ C!Cut(r[Len(r)].data, s[Len(r)].data)
           /\ SubSeq(r[Len(r)].data, Len(s[Len(r)].data) + 1, Len(r[Len(r)].data))
                = SubSeq(s[Len(r) + 1].data, 1,
                         Len(SubSeq(r[Len(r)].data, Len(s[Len(r)].data) + 1, Len(r[Len(r)].data)))),
         Parts(dstack, cstack) = r, Parts(dstack', cstack') = s,
         queue' = queue, Dooms(pipes') = Dooms(pipes)
  PROVE  C!Start
BY Mapped DEF C!Start, C!depth, C!Outer, C!Inner

LEMMA MapsStart ==
  ASSUME NEW S, NEW p \in Seq(S), NEW x, NEW y, NEW z, Parts(dstack, cstack) = Append(p, x),
         Parts(dstack', cstack') = Append(Append(p, y), z),
         y.frames = x.frames, C!Cut(x.data, y.data),
         SubSeq(x.data, Len(y.data) + 1, Len(x.data))
           = SubSeq(z.data, 1, Len(SubSeq(x.data, Len(y.data) + 1, Len(x.data)))),
         queue' = queue, Dooms(pipes') = Dooms(pipes)
  PROVE  C!Start
<1> DEFINE n == Len(p)
           r == Append(p, x)
           q == Append(p, y)
           s == Append(q, z)
<1>1. n \in Nat /\ Len(r) = n + 1 /\ SubSeq(r, 1, n) = p /\ r[n + 1] = x
  BY AppendBack
<1>2. Len(q) = n + 1 /\ SubSeq(q, 1, n) = p /\ q[n + 1] = y
  BY AppendBack
<1>3. q \in Seq(S \cup {y})
  <2> DEFINE T == S \cup {y}
  <2>1. p \in Seq(T) /\ y \in T
    BY SeqMonotonic
  <2> HIDE DEF T
  <2>2. q \in Seq(T)
    BY <2>1, AppendProperties
  <2> QED BY <2>2 DEF T
<1> HIDE DEF n, q, r
<1>4. Len(s) = n + 2 /\ SubSeq(s, 1, n + 1) = q /\ s[n + 2] = z
  <2>1. Len(s) = Len(q) + 1 /\ SubSeq(s, 1, Len(q)) = q /\ s[Len(q) + 1] = z
    BY <1>3, AppendBack
  <2> QED BY <1>1, <1>2, <2>1
<1>5. s \in Seq((S \cup {y}) \cup {z})
  <2> DEFINE T == (S \cup {y}) \cup {z}
  <2>1. q \in Seq(T) /\ z \in T
    BY <1>3, SeqMonotonic
  <2> HIDE DEF T
  <2>2. s \in Seq(T)
    BY <2>1, AppendProperties
  <2> QED BY <2>2 DEF T
<1>6. s[n + 1] = y /\ SubSeq(s, 1, n) = p
  <2> DEFINE T == (S \cup {y}) \cup {z}
  <2>1. q \in Seq(T) /\ z \in T /\ s \in Seq(T)
    BY <1>3, <1>5, SeqMonotonic
  <2> HIDE DEF T
  <2>2. \A i \in 1..(n + 1) : s[i] = q[i]
    BY <1>2, <2>1, AppendProperties
  <2>3. s[n + 1] = y
    BY <1>1, <1>2, <2>2
  <2>4. SubSeq(s, 1, n) = SubSeq(q, 1, n)
    <3>1. 1 \in Nat \ {0} /\ n \in Int /\ n <= Len(s) /\ n <= Len(q)
          /\ \A i \in 1..n : s[i] = q[i]
      BY <1>1, <1>2, <1>4, <2>2
    <3> HIDE DEF s
    <3> QED BY <2>1, <3>1, SubSeqSame
  <2> QED BY <1>2, <2>3, <2>4
<1>7. Parts(dstack, cstack) = r /\ Parts(dstack', cstack') = s
  BY DEF r, q
<1> HIDE DEF s
<1>8. (n + 1) - 1 = n /\ (n + 1) + 1 = n + 2
  BY <1>1
<1>9. Waiting(queue') = Waiting(queue)
  OBVIOUS
<1>10. Len(s) = Len(r) + 1 /\ r[Len(r)] = x /\ s[Len(r)] = y /\ s[Len(r) + 1] = z
  BY <1>1, <1>4, <1>6, <1>8
<1>11. SubSeq(s, 1, Len(r) - 1) = SubSeq(r, 1, Len(r) - 1)
  BY <1>1, <1>6, <1>8
<1> QED
  <2>1. Len(s) = Len(r) + 1
    BY <1>10
  <2>2. /\ SubSeq(s, 1, Len(r) - 1) = SubSeq(r, 1, Len(r) - 1)
        /\ s[Len(r)].frames = r[Len(r)].frames
        /\ C!Cut(r[Len(r)].data, s[Len(r)].data)
    BY <1>10, <1>11
  <2>3. SubSeq(r[Len(r)].data, Len(s[Len(r)].data) + 1, Len(r[Len(r)].data))
          = SubSeq(s[Len(r) + 1].data, 1,
                   Len(SubSeq(r[Len(r)].data, Len(s[Len(r)].data) + 1, Len(r[Len(r)].data))))
    BY <1>10
  <2> QED BY <1>7, <2>1, <2>2, <2>3, MapsStarting

LEMMA MapsFirst ==
  ASSUME NEW S, NEW p \in Seq(S), Len(p) = 0, Len(Parts(dstack, cstack)) = 0, NEW z,
         Parts(dstack', cstack') = Append(p, z), queue' = queue, Dooms(pipes') = Dooms(pipes)
  PROVE  C!Start
<1> DEFINE r == Parts(dstack, cstack)
           s == Append(p, z)
<1>1. Len(r) = 0 /\ Len(s) = Len(r) + 1
  BY AppendBack
<1>2. ~(Len(r) > 0)
  BY <1>1
<1>3. Parts(dstack, cstack) = r /\ Parts(dstack', cstack') = s
  OBVIOUS
<1> HIDE DEF r, s
<1> QED BY <1>1, <1>2, <1>3, MapsStarting

LEMMA NoParts ==
  ASSUME NEW d, NEW cs, Len(cs) = 0
  PROVE  Len(Parts(d, cs)) = 0
<1>1. Detached(cs, 0) = {}
  BY DEF Detached
<1>2. Count(cs) = 0
  BY <1>1, FS_EmptySet DEF Count
<1>3. Parts(d, cs) = [k \in 1..0 |-> Part(d, cs, k)]
  BY <1>2 DEF Parts
<1> QED BY <1>3

LEMMA UpperHalf ==
  ASSUME NEW S, NEW s \in Seq(S), NEW k, k = Len(s), NEW n \in 0..k
  PROVE  /\ SubSeq(s, n + 1, k) \in Seq(S) /\ Len(SubSeq(s, n + 1, k)) = k - n
         /\ \A i \in 1..(k - n) : SubSeq(s, n + 1, k)[i] = s[n + i]
<1>1. n \in 0..Len(s)
  OBVIOUS
<1>2. /\ SubSeq(s, n + 1, Len(s)) \in Seq(S) /\ Len(SubSeq(s, n + 1, Len(s))) = Len(s) - n
      /\ \A i \in 1..(Len(s) - n) : SubSeq(s, n + 1, Len(s))[i] = s[n + i]
  BY <1>1, Halves
<1> QED BY <1>2

\* A caller that gives cells to a new first frame: of s, the first m cells
\* are left to the caller, changed at most to null, and e has the others. Its
\* own cells, and those of the new program, are from l on.
CutAt(s, low, e, l, m, u, v, w) ==
  /\ s \in Seq(Cell) /\ low \in Seq(Cell) /\ e \in Seq(Cell)
  /\ m \in 0..Len(s) /\ l \in 0..m /\ Len(low) = m /\ Len(s) <= Len(e)
  /\ \A i \in 1..m : low[i] = e[i]
  /\ \A i \in 1..Len(s) : e[i] = s[i] \/ (e[i] = Null /\ i <= m)
  /\ u = SubSeq(s, l + 1, Len(s)) /\ v = SubSeq(low, l + 1, m) /\ w = SubSeq(e, m + 1, Len(e))

LEMMA StartCut ==
  ASSUME NEW s, NEW low, NEW e, NEW l, NEW m, NEW u, NEW v, NEW w,
         CutAt(s, low, e, l, m, u, v, w)
  PROVE  /\ C!Cut(u, v)
         /\ SubSeq(u, Len(v) + 1, Len(u)) = SubSeq(w, 1, Len(SubSeq(u, Len(v) + 1, Len(u))))
<1>0. PICK t : t = Len(s)
  OBVIOUS
<1>1. /\ s \in Seq(Cell) /\ low \in Seq(Cell) /\ e \in Seq(Cell) /\ Len(low) = m
      /\ l \in Int /\ t \in Int /\ m \in Int /\ Len(e) \in Int
      /\ 0 <= l /\ l <= m /\ m <= t /\ t <= Len(e)
  BY <1>0 DEF CutAt
<1>2. /\ \A i \in 1..m : low[i] = e[i]
      /\ \A i \in 1..t : e[i] = s[i] \/ (e[i] = Null /\ i <= m)
  BY <1>0 DEF CutAt
<1>3. u = SubSeq(s, l + 1, t) /\ v = SubSeq(low, l + 1, m) /\ w = SubSeq(e, m + 1, Len(e))
  BY <1>0 DEF CutAt
<1>4. u \in Seq(Cell) /\ Len(u) = t - l /\ \A i \in 1..(t - l) : u[i] = s[l + i]
  <2>1. s \in Seq(Cell) /\ t = Len(s) /\ l \in 0..t
    BY <1>0, <1>1
  <2>2. /\ SubSeq(s, l + 1, t) \in Seq(Cell) /\ Len(SubSeq(s, l + 1, t)) = t - l
        /\ \A i \in 1..(t - l) : SubSeq(s, l + 1, t)[i] = s[l + i]
    BY ONLY <2>1, UpperHalf
  <2> QED BY ONLY <1>3, <2>2
<1>5. v \in Seq(Cell) /\ Len(v) = m - l /\ \A i \in 1..(m - l) : v[i] = low[l + i]
  <2>1. low \in Seq(Cell) /\ m = Len(low) /\ l \in 0..m
    BY <1>1
  <2>2. /\ SubSeq(low, l + 1, m) \in Seq(Cell) /\ Len(SubSeq(low, l + 1, m)) = m - l
        /\ \A i \in 1..(m - l) : SubSeq(low, l + 1, m)[i] = low[l + i]
    BY ONLY <2>1, UpperHalf
  <2> QED BY ONLY <1>3, <2>2
<1>6. /\ w \in Seq(Cell) /\ Len(w) = Len(e) - m
      /\ \A i \in 1..(Len(e) - m) : w[i] = e[m + i]
  <2>1. e \in Seq(Cell) /\ m \in 0..Len(e)
    BY <1>1
  <2>2. /\ SubSeq(e, m + 1, Len(e)) \in Seq(Cell) /\ Len(SubSeq(e, m + 1, Len(e))) = Len(e) - m
        /\ \A i \in 1..(Len(e) - m) : SubSeq(e, m + 1, Len(e))[i] = e[m + i]
    BY ONLY <2>1, Halves
  <2> QED BY ONLY <1>3, <2>2
<1>7. C!Cut(u, v)
  <2>1. Len(v) <= Len(u)
    BY <1>1, <1>4, <1>5
  <2>2. ASSUME NEW k \in 1..(m - l) PROVE v[k] \in {u[k], Null}
    <3>1. l + k \in 1..m /\ l + k \in 1..t /\ k \in 1..(t - l)
      BY <1>1
    <3>2. v[k] = e[l + k] /\ u[k] = s[l + k]
      BY <1>2, <1>4, <1>5, <3>1
    <3>3. e[l + k] = s[l + k] \/ e[l + k] = Null
      BY <1>2, <3>1
    <3> QED BY <3>2, <3>3
  <2>3. DOMAIN v = 1..(m - l)
    BY <1>5, LenProperties
  <2> QED BY <2>1, <2>2, <2>3 DEF C!Cut
<1>8. SubSeq(u, Len(v) + 1, Len(u)) = SubSeq(w, 1, Len(SubSeq(u, Len(v) + 1, Len(u))))
  <2> DEFINE given == SubSeq(u, Len(v) + 1, Len(u))
             n == t - m
  <2>0. /\ l \in Int /\ t \in Int /\ m \in Int /\ Len(e) \in Int
        /\ 0 <= l /\ l <= m /\ m <= t /\ t <= Len(e)
    BY <1>1
  <2>1. Len(v) \in 0..Len(u) /\ Len(u) - Len(v) = n /\ n \in 0..Len(w)
    <3>1. /\ m - l \in 0..(t - l) /\ (t - l) - (m - l) = t - m
          /\ t - m \in 0..(Len(e) - m)
      BY <2>0
    <3>2. Len(v) = m - l /\ Len(u) = t - l /\ Len(w) = Len(e) - m
      BY <1>4, <1>5, <1>6
    <3> QED BY <3>1, <3>2
  <2>2. /\ given \in Seq(Cell) /\ Len(given) = Len(u) - Len(v)
        /\ \A i \in 1..(Len(u) - Len(v)) : given[i] = u[Len(v) + i]
    <3>1. u \in Seq(Cell) /\ Len(v) \in 0..Len(u)
      BY <1>4, <2>1
    <3>2. /\ SubSeq(u, Len(v) + 1, Len(u)) \in Seq(Cell)
          /\ Len(SubSeq(u, Len(v) + 1, Len(u))) = Len(u) - Len(v)
          /\ \A i \in 1..(Len(u) - Len(v)) : SubSeq(u, Len(v) + 1, Len(u))[i] = u[Len(v) + i]
      BY ONLY <3>1, Halves
    <3> QED BY ONLY <3>2
  <2>3. /\ Take(w, n) \in Seq(Cell) /\ Len(Take(w, n)) = n
        /\ \A i \in 1..n : Take(w, n)[i] = w[i]
    <3>1. w \in Seq(Cell) /\ n \in 0..Len(w)
      BY <1>6, <2>1
    <3> HIDE DEF n
    <3> QED BY ONLY <3>1, TakeProperties
  <2> HIDE DEF given, n
  <2>4. ASSUME NEW i \in 1..n PROVE given[i] = Take(w, n)[i]
    <3>1. given[i] = u[Len(v) + i] /\ Take(w, n)[i] = w[i]
      BY <2>1, <2>2, <2>3
    <3>2. /\ Len(v) + i \in 1..(t - l) /\ l + (Len(v) + i) = m + i
          /\ i \in 1..(Len(e) - m) /\ m + i \in 1..t /\ ~(m + i <= m)
      <4>1. i \in 1..(t - m)
        BY DEF n
      <4>2. /\ (m - l) + i \in 1..(t - l) /\ l + ((m - l) + i) = m + i
            /\ i \in 1..(Len(e) - m) /\ m + i \in 1..t /\ ~(m + i <= m)
        BY <2>0, <4>1
      <4>3. Len(v) = m - l
        BY <1>5
      <4> QED BY <4>2, <4>3
    <3>3. u[Len(v) + i] = s[m + i] /\ w[i] = e[m + i]
      BY <1>4, <1>6, <3>2
    <3>4. e[m + i] = s[m + i]
      BY <1>2, <3>2
    <3> QED BY <3>1, <3>3, <3>4
  <2>5. given = Take(w, n)
    BY <2>1, <2>2, <2>3, <2>4, SeqEqual
  <2> QED BY <2>1, <2>2, <2>5 DEF Take, given
<1> QED BY <1>7, <1>8

\* A new first frame at cell m, above a caller that keeps its frames.
LEMMA StartStep ==
  ASSUME IInv, IInv', NEW cs, NEW m \in 0..dpos, Stack(m, cs), Len(cs) = cpos,
         \A i \in 1..cpos : /\ i # cpos => cs[i] = cstack[i]
                            /\ cs[i].dstart = cstack[i].dstart /\ cs[i].nv = cstack[i].nv
                            /\ cs[i].attached = cstack[i].attached,
         NEW f \in Frame, f.dstart = m, ~f.attached, cstack' = Append(cs, f),
         dpos <= Len(dstack'), Keeps(Low, dstack, dstack'),
         \A i \in 1..dpos : dstack'[i] = dstack[i] \/ (dstack'[i] = Null /\ i <= m),
         queue' = queue, NEW newsize, pipes' = Left(pipes, newsize)
  PROVE  C!Start
<1>0. PICK e, gs : e = dstack' /\ gs = cstack'
  OBVIOUS
<1> DEFINE low == Take(e, m)
           z == Upper(e, gs, cpos + 1)
           q == Parts(low, cs)
<1>1. /\ dstack \in Seq(Cell) /\ cstack \in Seq(Frame) /\ dpos \in Nat /\ cpos \in Nat
      /\ dpos = Len(dstack) /\ cpos = Len(cstack) /\ Stack(dpos, cstack)
  BY InvFacts
<1>2. e \in Seq(Cell) /\ gs \in Seq(Frame) /\ Stack(Len(e), gs) /\ Len(e) \in Nat /\ Len(gs) \in Nat
  BY <1>0, NextStacks
<1>3. cs \in Seq(Frame) /\ m \in Nat /\ m <= dpos /\ m \in 0..Len(e)
  BY <1>0, <1>1, <1>2 DEF Stack
<1>4. Len(gs) = cpos + 1 /\ gs[cpos + 1] = f /\ \A i \in 1..cpos : gs[i] = cs[i]
  BY <1>0, <1>3, AppendProperties
<1>5. Dooms(pipes') = Dooms(pipes)
  <2>1. pipes \in Seq(Pipe)
    BY InvFacts DEF GoodPipes
  <2> QED BY <2>1, DoomsLeft
<1>6. low \in Seq(Cell) /\ Len(low) = m /\ \A i \in 1..m : low[i] = e[i]
  BY <1>2, <1>3, TakeProperties
<1>7. /\ \A i \in 1..dpos : e[i] = dstack[i] \/ (e[i] = Null /\ i <= m)
      /\ dpos <= Len(e) /\ Keeps(Low, dstack, e)
  BY <1>0
<1> HIDE DEF low
<1>8. Parts(e, gs) = Append(q, z)
  <2>1. Innermost(gs, cpos + 1)
    BY <1>1, <1>4 DEF Innermost
  <2>2. Parts(e, gs) = Append(Bottom(e, gs, cpos + 1), z)
    BY <1>2, <2>1, PartsSplit
  <2>3. Take(gs, (cpos + 1) - 1) = cs
    <3>1. SubSeq(gs, 1, cpos) = SubSeq(cs, 1, cpos)
      <4>1. 1 \in Nat \ {0} /\ cpos \in Int /\ cpos <= Len(gs) /\ cpos <= Len(cs)
        BY <1>1, <1>4
      <4> QED BY <1>2, <1>3, <1>4, <4>1, SubSeqSame
    <3>2. SubSeq(cs, 1, cpos) = cs
      BY <1>3, SubSeqFull
    <3>3. (cpos + 1) - 1 = cpos
      BY <1>1
    <3> QED BY <3>1, <3>2, <3>3 DEF Take
  <2>4. Bottom(e, gs, cpos + 1) = q
    BY <1>4, <2>3 DEF Bottom, low
  <2> QED BY <2>2, <2>4
<1>9. z = [data |-> SubSeq(e, m + 1, Len(e)), frames |-> Relative(SubSeq(gs, cpos + 1, Len(gs)))]
  BY <1>4 DEF Upper
<1> HIDE DEF z
<1>10. CASE cpos = 0
  <2>1. Len(q) = 0 /\ Len(Parts(dstack, cstack)) = 0
    BY <1>1, <1>10, NoParts
  <2>2. PICK S : q \in Seq(S)
    BY <1>1, PartsSeq
  <2> HIDE DEF q
  <2>3. Parts(dstack', cstack') = Append(q, z)
    BY <1>0, <1>8
  <2> QED BY <1>5, <2>1, <2>2, <2>3, MapsFirst
<1>11. CASE cpos # 0
  <2> DEFINE b == Base
             l == Low
             x == Upper(dstack, cstack, b)
             y == Upper(low, cs, b)
             p == Bottom(dstack, cstack, b)
  <2>1. cpos > 0
    BY <1>1, <1>11
  <2>2. /\ Innermost(cstack, b) /\ b \in 1..cpos /\ l = cstack[b].dstart /\ l \in 0..dpos
    BY <1>1, <2>1, InnermostNow
  <2> HIDE DEF b, l
  <2>3. /\ Innermost(cs, b) /\ cs[b].dstart = l /\ b \in 1..Len(cs)
        /\ \A i \in 1..(b - 1) : cs[i] = cstack[i]
    <3>1. b \in 1..Len(cs) /\ ~cs[b].attached
      BY <1>1, <2>2 DEF Innermost
    <3>2. ASSUME NEW j \in (b + 1)..Len(cs) PROVE cs[j].attached
      <4>1. j \in 1..cpos /\ j \in (b + 1)..Len(cstack)
        BY <1>1, <2>2
      <4> QED BY <2>2, <4>1 DEF Innermost
    <3>3. \A i \in 1..(b - 1) : i \in 1..cpos /\ i # cpos
      BY <1>1, <2>2
    <3> QED BY <2>2, <3>1, <3>2, <3>3 DEF Innermost
  <2>4. l \in 0..m /\ Stack(Len(low), cs)
    <3>1. Stack(Len(low), cs)
      BY <1>6
    <3> QED BY <1>6, <2>3, <3>1, StartIn
  <2>5. Parts(dstack, cstack) = Append(p, x)
    BY <1>1, <2>2, PartsSplit
  <2>6. q = Append(Bottom(low, cs, b), y)
    BY <1>6, <2>3, <2>4, PartsSplit
  <2>7. Bottom(low, cs, b) = p
    <3>1. Keeps(cstack[b].dstart, dstack, low)
      <4>1. ASSUME NEW i \in 1..l PROVE i <= Len(low) /\ low[i] = dstack[i]
        <5>1. i \in 1..m /\ i <= m
          BY <1>3, <2>4
        <5>2. e[i] = dstack[i]
          BY <1>7 DEF Keeps, l
        <5> QED BY <1>6, <5>1, <5>2
      <4> QED BY <2>2, <4>1 DEF Keeps
    <3>2. b <= Len(cs) + 1 /\ b \in 1..Len(cstack) /\ Stack(Len(dstack), cstack)
      BY <1>1, <2>2
    <3>3. Parts(Take(low, cstack[b].dstart), Take(cs, b - 1)) = p
      BY <1>1, <1>3, <1>6, <2>3, <3>1, <3>2, BottomSame
    <3> QED BY <2>2, <2>3, <3>3 DEF Bottom
  <2>8. PICK S : p \in Seq(S)
    BY <2>1, SplitNow DEF b
  <2>9. y.frames = x.frames
    <3>1. Relative(SubSeq(cs, b, Len(cstack))) = Relative(SubSeq(cstack, b, Len(cstack)))
      <4>1. Len(cs) = Len(cstack) /\ b \in 1..Len(cstack)
            /\ \A i \in 1..Len(cstack) : cs[i].dstart = cstack[i].dstart /\ cs[i].nv = cstack[i].nv
        BY <1>1, <2>2
      <4> QED BY <1>1, <1>3, <4>1, RelativeSub
    <3> QED BY <1>1, <3>1 DEF Upper
  <2>10. /\ x.data = SubSeq(dstack, l + 1, dpos) /\ y.data = SubSeq(low, l + 1, m)
         /\ z.data = SubSeq(e, m + 1, Len(e))
    BY <1>1, <1>6, <1>9, <2>2, <2>3 DEF Upper
  <2>11. CutAt(dstack, low, e, l, m, x.data, y.data, z.data)
    <3>1. /\ dstack \in Seq(Cell) /\ low \in Seq(Cell) /\ e \in Seq(Cell) /\ dpos = Len(dstack)
          /\ m \in 0..dpos /\ l \in 0..m /\ Len(low) = m /\ dpos <= Len(e)
          /\ \A i \in 1..m : low[i] = e[i]
          /\ \A i \in 1..dpos : e[i] = dstack[i] \/ (e[i] = Null /\ i <= m)
      BY <1>1, <1>2, <1>6, <1>7, <2>4
    <3> HIDE DEF x, y, p
    <3> QED BY ONLY <2>10, <3>1 DEF CutAt
  <2> HIDE DEF x, y, p
  <2>16. C!Cut(x.data, y.data) /\ SubSeq(x.data, Len(y.data) + 1, Len(x.data))
           = SubSeq(z.data, 1, Len(SubSeq(x.data, Len(y.data) + 1, Len(x.data))))
    <3>1. PICK s : s = dstack
      OBVIOUS
    <3>2. PICK t, k, u, v, w : t = low /\ k = l /\ u = x.data /\ v = y.data /\ w = z.data
      OBVIOUS
    <3>3. CutAt(s, t, e, k, m, u, v, w)
      BY ONLY <2>11, <3>1, <3>2
    <3>4. C!Cut(u, v) /\ SubSeq(u, Len(v) + 1, Len(u)) = SubSeq(w, 1, Len(SubSeq(u, Len(v) + 1, Len(u))))
      BY ONLY <3>3, StartCut
    <3>5. C!Cut(x.data, y.data)
      BY ONLY <3>2, <3>4
    <3>6. SubSeq(x.data, Len(y.data) + 1, Len(x.data))
           = SubSeq(z.data, 1, Len(SubSeq(x.data, Len(y.data) + 1, Len(x.data))))
      BY ONLY <3>2, <3>4
    <3> QED BY ONLY <3>5, <3>6
  <2>17. Parts(dstack', cstack') = Append(Append(p, y), z)
    BY <1>0, <1>8, <2>6, <2>7
  <2> QED BY <1>5, <2>5, <2>8, <2>9, <2>16, <2>17, MapsStart
<1> QED BY <1>10, <1>11

\* cpush() of a first frame.
LEMMA CpushStart ==
  ASSUME IInv, IInv', NEW d \in Seq(Cell), NEW size, NEW cs, NEW prog \in Progs \cup {PcallProg},
         NEW argc \in Nat, NEW progress \in Nat, NEW m \in 0..dpos,
         m = Len(d) - argc - progress, Stack(m, cs), Len(cs) = cpos,
         \A i \in 1..cpos : /\ i # cpos => cs[i] = cstack[i]
                            /\ cs[i].dstart = cstack[i].dstart /\ cs[i].nv = cstack[i].nv
                            /\ cs[i].attached = cstack[i].attached,
         dpos <= Len(d), Keeps(Low, dstack, dstack'),
         \A i \in 1..dpos : d[i] = dstack[i] \/ (d[i] = Null /\ i <= m),
         Cpush(d, size, cs, prog, argc, FALSE, progress), queue' = queue
  PROVE  C!Start
<1> DEFINE alloc == Larger(argc, prog.avarc)
           n == prog.lvarc + alloc - argc
           f == [dstart |-> m, nv |-> prog.lvarc + alloc, vals |-> m, live |-> TRUE,
                 attached |-> FALSE, want |-> progress, prim |-> NoPrim]
<1>1. dstack' = d \o Nulls(n) /\ cstack' = Append(cs, f) /\ pipes' = Left(pipes, dsize')
  BY DEF Cpush, Double
<1>2. n \in Nat
  <2>1. prog.avarc \in Nat /\ prog.lvarc \in Nat
    BY ProgsAssumption DEF PcallProg
  <2>2. alloc \in Nat /\ argc <= alloc
    BY <2>1 DEF Larger
  <2> HIDE DEF alloc
  <2> QED BY <2>1, <2>2
<1>3. f.dstart = m /\ ~f.attached
  OBVIOUS
<1> HIDE DEF n, f
<1>4. dpos \in Nat /\ cs \in Seq(Frame) /\ Len(d) \in Nat
  BY InvFacts DEF Stack
<1>5. Nulls(n) \in Seq(Cell) /\ Len(Nulls(n)) = n
  BY <1>2, NullsProperties
<1>6. Len(dstack') = Len(d) + n /\ \A i \in 1..Len(d) : dstack'[i] = d[i]
  <2> DEFINE l == Nulls(n)
  <2>1. l \in Seq(Cell) /\ Len(l) = n /\ dstack' = d \o l
    BY <1>1, <1>5
  <2> HIDE DEF l
  <2>2. /\ Len(d \o l) = Len(d) + Len(l)
        /\ \A i \in 1..(Len(d) + Len(l)) : (d \o l)[i] = IF i <= Len(d) THEN d[i] ELSE l[i - Len(d)]
    <3>1. d \in Seq(Cell) /\ l \in Seq(Cell)
      BY <2>1
    <3> QED BY ONLY <3>1, ConcatProperties
  <2>3. \A i \in 1..Len(d) : i \in 1..(Len(d) + n) /\ i <= Len(d)
    BY <1>2, <1>4
  <2> QED BY <2>1, <2>2, <2>3
<1>7. dpos <= Len(dstack')
  BY <1>2, <1>4, <1>6
<1>8. \A i \in 1..dpos : dstack'[i] = dstack[i] \/ (dstack'[i] = Null /\ i <= m)
  <2>1. \A i \in 1..dpos : i \in 1..Len(d)
    BY <1>4
  <2> QED BY <1>6, <2>1
<1>9. f \in Frame
  <2> DEFINE T == Frame \cup {f}
  <2>1. cs \in Seq(T) /\ f \in T
    BY <1>4, SeqMonotonic
  <2> HIDE DEF T
  <2>2. Len(cstack') = Len(cs) + 1 /\ cstack'[Len(cs) + 1] = f
    BY <1>1, <2>1, AppendProperties
  <2>3. cstack' \in Seq(Frame) /\ Len(cs) + 1 \in 1..(Len(cs) + 1)
    BY <1>4, NextStacks
  <2> QED BY <2>2, <2>3, ElementOfSeq
<1> QED BY <1>1, <1>3, <1>7, <1>8, <1>9, StartStep

LEMMA DetachStart ==
  ASSUME IInv, IInv', NEW argc \in Nat, NEW exec \in BOOLEAN, Detach(argc, exec),
         Keeps(Low, dstack, dstack')
  PROVE  C!Start
<1> DEFINE d == IF exec THEN [dstack EXCEPT ![dpos - argc] = Null] ELSE dstack
           pr == [kind |-> "detach", argc |-> 1, exec |-> exec]
           k == argc - 1
           w == Ctop.want - k
           cs == Retop(w, pr)
           m == dpos - k
<1>1. /\ Running /\ cpos > 0 /\ argc >= 1 /\ Ctop.want >= Taken(argc, exec)
  BY NonePending DEF Detach, Step
<1>2. Callee(k, FALSE, d, dsize, cs) /\ queue' = queue
  BY DEF Detach
<1>3. /\ d \in Seq(Cell) /\ Len(d) = dpos /\ argc <= Ctop.want /\ dpos - argc \in 0..dpos
      /\ \A i \in 1..dpos : d[i] = IF exec /\ i = dpos - argc THEN Null ELSE dstack[i]
  <2>0. d = IF exec THEN [dstack EXCEPT ![dpos - argc] = Null] ELSE dstack
    OBVIOUS
  <2> HIDE DEF d
  <2>1. d \in Seq(Cell) /\ Len(d) = dpos /\ argc <= Ctop.want /\ dpos - argc \in 0..dpos
    BY <1>1, <2>0, Nulled
  <2>2. \A i \in 1..dpos : d[i] = IF exec /\ i = dpos - argc THEN Null ELSE dstack[i]
    BY <1>1, <2>0, Nulled
  <2> QED BY <2>1, <2>2
<1>4. k \in Nat /\ k <= Ctop.want
  BY <1>1, <1>3, CtopFacts
<1>5. m \in 0..dpos /\ w \in Nat /\ Ctop.dstart + Ctop.nv + w <= m /\ m \in Nat
  <2> HIDE DEF k
  <2> QED BY <1>1, <1>4, Operands, InvFacts
<1>6. pr \in Prim /\ pr.kind = "detach" /\ Pending(pr) = Taken(1, exec)
  BY DEF Prim, Pending
<1>7. w >= Pending(pr)
  <2>1. Taken(argc, exec) = Taken(1, exec) + k /\ Taken(1, exec) \in Nat
    BY <1>1 DEF Taken
  <2> DEFINE c == Ctop.want
             t == Taken(1, exec)
  <2>2. c \in Nat /\ t \in Nat /\ k \in Nat /\ c >= t + k
    BY <1>1, <1>4, <2>1, CtopFacts
  <2> HIDE DEF c, t, k
  <2>3. c - k >= t
    BY <2>2
  <2> QED BY <1>6, <2>3 DEF c, t
<1>8. \A i \in 1..dpos : d[i] = dstack[i] \/ (d[i] = Null /\ i <= m)
  <2>1. ASSUME NEW i \in 1..dpos PROVE d[i] = dstack[i] \/ (d[i] = Null /\ i <= m)
    <3>1. d[i] = IF exec /\ i = dpos - argc THEN Null ELSE dstack[i]
      BY <1>3
    <3>2. i = dpos - argc => i <= m
      BY InvFacts
    <3> QED BY <3>1, <3>2
  <2> QED BY <2>1
<1> HIDE DEF d, pr, w, k
<1>9. Stack(m, cs)
  <2> HIDE DEF m
  <2> QED BY <1>1, <1>5, <1>6, <1>7, RetopFacts
<1>10. /\ Len(cs) = cpos
       /\ \A i \in 1..cpos : /\ i # cpos => cs[i] = cstack[i]
                             /\ cs[i].dstart = cstack[i].dstart /\ cs[i].nv = cstack[i].nv
                             /\ cs[i].attached = cstack[i].attached
  BY <1>1, RetopFrames
<1>11. m = Len(d) - k - 0 /\ m = Len(d) - 0 - k /\ dpos <= Len(d) /\ 0 \in Nat
  <2>1. Len(d) = dpos /\ dpos \in Nat /\ k \in Nat /\ m = dpos - k
    BY <1>3, <1>4, Sizes
  <2> HIDE DEF m
  <2> QED BY <2>1
<1> HIDE DEF cs, m
<1>12. CASE \E p \in Progs : Cpush(d, dsize, cs, p, k, FALSE, 0)
  BY <1>2, <1>3, <1>4, <1>5, <1>8, <1>9, <1>10, <1>11, <1>12, CpushStart
<1>13. CASE Cpush(d, dsize, cs, PcallProg, 0, FALSE, k)
  BY <1>2, <1>3, <1>4, <1>5, <1>8, <1>9, <1>10, <1>11, <1>13, CpushStart
<1> QED BY <1>2, <1>12, <1>13 DEF Callee

LEMMA RunProgStart ==
  ASSUME IInv, IInv', NEW prog \in Progs, RunProg(prog) \/ \E v \in Cell : RunProgIstr(prog, v),
         Keeps(Low, dstack, dstack')
  PROVE  C!Start
<1>1. /\ dpos \in 0..dpos /\ dpos \in Nat /\ Len(dstack) = dpos /\ dstack \in Seq(Cell)
      /\ Stack(dpos, cstack) /\ Len(cstack) = cpos /\ 0 \in Nat /\ 1 \in Nat
  BY InvFacts
<1>2. CASE RunProg(prog)
  <2>1. Cpush(dstack, dsize, cstack, prog, 0, FALSE, 0) /\ queue' = queue
    BY <1>2 DEF RunProg
  <2>2. dpos = Len(dstack) - 0 - 0 /\ dpos <= Len(dstack)
    BY <1>1
  <2> QED BY <1>1, <2>1, <2>2, CpushStart
<1>3. ASSUME NEW v \in Cell, RunProgIstr(prog, v) PROVE C!Start
  <2> DEFINE d == Append(dstack, v)
  <2>1. Cpush(d, Fit(dsize, dpos + 1), cstack, prog, 1, FALSE, 0) /\ queue' = queue
    BY <1>3 DEF RunProgIstr
  <2>2. d \in Seq(Cell) /\ Len(d) = dpos + 1 /\ \A i \in 1..dpos : d[i] = dstack[i]
    BY <1>1, AppendProperties
  <2>3. dpos = Len(d) - 1 - 0 /\ dpos <= Len(d)
    BY <1>1, <2>2
  <2> HIDE DEF d
  <2> QED BY <1>1, <2>1, <2>2, <2>3, CpushStart
<1> QED BY <1>2, <1>3

-----------------------------------------------------------------------------
(* Lists of suspended programs.                                            *)

LEMMA AsleepConcat ==
  ASSUME NEW a \in Seq(Estate), NEW b \in Seq(Estate)
  PROVE  Asleep(a \o b) = Asleep(a) \o Asleep(b)
<1> DEFINE D == {Dream(es) : es \in Estate}
           m == Len(a)
           n == Len(b)
<1>1. /\ m \in Nat /\ n \in Nat /\ a \o b \in Seq(Estate) /\ Len(a \o b) = m + n
      /\ \A i \in 1..(m + n) : (a \o b)[i] = IF i <= m THEN a[i] ELSE b[i - m]
  BY ConcatProperties
<1>2. /\ Asleep(a) \in Seq(D) /\ Len(Asleep(a)) = m
      /\ \A i \in 1..m : Asleep(a)[i] = Dream(a[i])
  BY AsleepList
<1>3. /\ Asleep(b) \in Seq(D) /\ Len(Asleep(b)) = n
      /\ \A i \in 1..n : Asleep(b)[i] = Dream(b[i])
  BY AsleepList
<1>4. /\ Asleep(a \o b) \in Seq(D) /\ Len(Asleep(a \o b)) = m + n
      /\ \A i \in 1..(m + n) : Asleep(a \o b)[i] = Dream((a \o b)[i])
  <2> DEFINE c == a \o b
  <2>1. c \in Seq(Estate) /\ Len(c) = m + n
    BY <1>1
  <2> HIDE DEF c
  <2>2. /\ Asleep(c) \in Seq(D) /\ Len(Asleep(c)) = Len(c)
        /\ \A i \in 1..Len(c) : Asleep(c)[i] = Dream(c[i])
    BY <2>1, AsleepList
  <2> QED BY <2>1, <2>2 DEF c
<1> HIDE DEF D, m, n
<1>5. /\ Asleep(a) \o Asleep(b) \in Seq(D) /\ Len(Asleep(a) \o Asleep(b)) = m + n
      /\ \A i \in 1..(m + n) : (Asleep(a) \o Asleep(b))[i]
                                 = IF i <= m THEN Asleep(a)[i] ELSE Asleep(b)[i - m]
  BY <1>2, <1>3, ConcatProperties
<1>6. ASSUME NEW i \in 1..(m + n) PROVE Asleep(a \o b)[i] = (Asleep(a) \o Asleep(b))[i]
  <2>1. CASE i <= m
    <3>1. i \in 1..m
      BY <1>1, <2>1
    <3> QED BY <1>1, <1>2, <1>4, <1>5, <2>1, <3>1
  <2>2. CASE ~(i <= m)
    <3>1. i - m \in 1..n
      BY <1>1, <2>2
    <3> QED BY <1>1, <1>3, <1>4, <1>5, <2>2, <3>1
  <2> QED BY <2>1, <2>2
<1> QED BY <1>4, <1>5, <1>6, SeqEqual

LEMMA AsleepSub ==
  ASSUME NEW list \in Seq(Estate), NEW m \in 1..(Len(list) + 1), NEW n \in 0..Len(list), m <= n + 1
  PROVE  Asleep(SubSeq(list, m, n)) = SubSeq(Asleep(list), m, n)
<1> DEFINE D == {Dream(es) : es \in Estate}
           s == SubSeq(list, m, n)
           l == Asleep(list)
           k == n - m + 1
<1>1. Len(list) \in Nat /\ m \in Nat /\ n \in Nat /\ k \in Nat
  OBVIOUS
<1>2. s \in Seq(Estate) /\ Len(s) = k /\ \A i \in 1..k : s[i] = list[m + i - 1]
  BY SubSeqType
<1>3. l \in Seq(D) /\ Len(l) = Len(list) /\ \A i \in 1..Len(list) : l[i] = Dream(list[i])
  BY AsleepList
<1> HIDE DEF s, l, D
<1>4. SubSeq(l, m, n) \in Seq(D) /\ Len(SubSeq(l, m, n)) = k
      /\ \A i \in 1..k : SubSeq(l, m, n)[i] = l[m + i - 1]
  BY <1>3, SubSeqType
<1>5. Asleep(s) \in Seq(D) /\ Len(Asleep(s)) = Len(s) /\ \A i \in 1..Len(s) : Asleep(s)[i] = Dream(s[i])
  BY <1>2, AsleepList DEF D
<1>6. ASSUME NEW i \in 1..k PROVE Asleep(s)[i] = SubSeq(l, m, n)[i]
  <2>1. m + i - 1 \in 1..Len(list)
    BY <1>1
  <2> QED BY <1>2, <1>3, <1>4, <1>5, <2>1
<1> HIDE DEF k
<1>7. Asleep(s) = SubSeq(l, m, n)
  BY <1>2, <1>4, <1>5, <1>6, SeqEqual
<1> QED BY <1>7 DEF s, l

LEMMA AsleepTail ==
  ASSUME NEW list \in Seq(Estate)
  PROVE  /\ Asleep(list) = <<>> <=> list = <<>>
         /\ list # <<>> => /\ Head(Asleep(list)) = Dream(Head(list))
                           /\ Tail(Asleep(list)) = Asleep(Tail(list))
<1> DEFINE D == {Dream(es) : es \in Estate}
           l == Asleep(list)
<1>1. /\ Len(list) \in Nat /\ l \in Seq(D) /\ Len(l) = Len(list)
      /\ \A i \in 1..Len(list) : l[i] = Dream(list[i])
  BY AsleepList
<1> HIDE DEF l, D
<1>2. l = <<>> <=> list = <<>>
  <2>1. l = <<>> <=> Len(l) = 0
    BY <1>1, EmptyLen
  <2>2. list = <<>> <=> Len(list) = 0
    BY EmptyLen
  <2> QED BY <1>1, <2>1, <2>2
<1>3. ASSUME list # <<>>
      PROVE  Head(l) = Dream(Head(list)) /\ Tail(l) = Asleep(Tail(list))
  <2>1. Len(list) > 0
    BY <1>1, <1>3, EmptyLen
  <2>2. Head(l) = l[1] /\ Head(list) = list[1]
    OBVIOUS
  <2>3. 1 \in 1..Len(list) /\ 2 \in 1..(Len(list) + 1) /\ Len(list) \in 0..Len(list) /\ 2 <= Len(list) + 1
    BY <1>1, <2>1
  <2>4. Tail(l) = SubSeq(l, 2, Len(l)) /\ Tail(list) = SubSeq(list, 2, Len(list))
    BY <1>1, <1>2, <1>3, TailIsSubSeq
  <2>5. Asleep(SubSeq(list, 2, Len(list))) = SubSeq(Asleep(list), 2, Len(list))
    BY <2>3, AsleepSub
  <2> QED BY <1>1, <2>2, <2>3, <2>4, <2>5 DEF l
<1> QED BY <1>2, <1>3 DEF l

\* One queue changes.
LEMMA WaitingExcept ==
  ASSUME IInv, NEW q \in Queues, NEW list, queue' = [queue EXCEPT ![q] = list]
  PROVE  /\ Waiting(queue') = [Waiting(queue) EXCEPT ![q] = Asleep(list)]
         /\ \A r \in Queues : Waiting(queue)[r] = Asleep(queue[r])
         /\ \A r \in Queues \ {q} : Waiting(queue')[r] = Waiting(queue)[r]
         /\ Waiting(queue')[q] = Asleep(list)
<1>1. queue' = [r \in Queues |-> IF r = q THEN list ELSE queue[r]]
  <2>1. queue \in [Queues -> Seq(Estate)]
    BY InvFacts DEF GoodQueue
  <2> QED BY <2>1
<1>2. Waiting(queue') = [r \in Queues |-> IF r = q THEN Asleep(list) ELSE Asleep(queue[r])]
  BY <1>1 DEF Waiting
<1>3. Waiting(queue) = [r \in Queues |-> Asleep(queue[r])]
  BY DEF Waiting
<1> QED BY <1>2, <1>3

-----------------------------------------------------------------------------
(* A program is resumed.                                                   *)

LEMMA MapsWake ==
  ASSUME IInv, NEW es, Good(es, dsize, csize), NEW v \in Cell, NEW ps, ResumeOne(es, v, ps)
  PROVE  C!Wake(Dream(es))
<1> DEFINE fs == Placed(es)
           data == Append(es.data, v)
           g == es.frames
           c == -(g[1].dstart - dpos)
<1>1. /\ dstack \in Seq(Cell) /\ Stack(Len(dstack), cstack) /\ dpos \in Nat /\ dpos = Len(dstack)
  BY InvFacts
<1>2. es \in Estate /\ ImageLaid(es)
  BY DEF Good
<1>3. /\ es.data \in Seq(Cell) /\ g \in Seq(Frame) /\ Len(g) \in Nat /\ Len(g) > 0
      /\ g[1].dstart \in Nat
  BY <1>2, ImageStack
<1>4. Moved(fs, es, dpos)
  BY <1>1, <1>2, PlacedMoved
<1> HIDE DEF fs
<1>5. /\ fs \in Seq(Frame) /\ Len(fs) = Len(g)
      /\ \A i \in 1..Len(fs) : fs[i].dstart = g[i].dstart - (g[1].dstart - dpos) /\ fs[i].nv = g[i].nv
  BY <1>4 DEF Moved
<1>6. \A i \in 1..Len(fs) : /\ i = 1 => fs[i].dstart = dpos
                            /\ fs[i].attached <=> i > 1
  BY <1>1, <1>2, <1>4, MovedLaid
<1>7. fs # <<>> /\ fs[1].dstart = Len(dstack) /\ ~fs[1].attached /\ \A i \in 2..Len(fs) : fs[i].attached
  <2>1. 1 \in 1..Len(fs)
    BY <1>3, <1>5
  <2>2. fs[1].dstart = Len(dstack) /\ ~fs[1].attached
    BY <1>1, <1>6, <2>1
  <2>3. \A i \in 2..Len(fs) : i \in 1..Len(fs) /\ i > 1
    OBVIOUS
  <2>4. fs # <<>>
    <3>1. Len(fs) # 0
      BY <1>3, <1>5
    <3>2. fs = <<>> => Len(fs) = 0
      BY <1>5, EmptySeq, Zenon
    <3> QED BY <3>1, <3>2
  <2> QED BY <1>6, <2>2, <2>3, <2>4
<1>8. data \in Seq(Cell)
  BY <1>3, AppendProperties
<1> HIDE DEF data
<1>9. Parts(dstack \o data, cstack \o fs)
        = Append(Parts(dstack, cstack), [data |-> data, frames |-> Relative(fs)])
  BY <1>1, <1>5, <1>7, <1>8, PartsAppend
<1>10. Relative(fs) = Relative(g)
  <2>1. c \in Int
    BY <1>1, <1>3
  <2>2. \A i \in 1..Len(g) : fs[i].dstart = g[i].dstart + c /\ fs[i].nv = g[i].nv
    <3>1. \A i \in 1..Len(g) : g[i].dstart \in Nat
      <4>1. \A i \in 1..Len(g) : g[i] \in Frame
        BY <1>3, ElementOfSeq
      <4> QED BY <4>1 DEF Frame
    <3> QED BY <1>1, <1>3, <1>5, <3>1
  <2> HIDE DEF c, g
  <2> QED BY <1>3, <1>5, <2>1, <2>2, RelativeSame
<1>11. dstack' = dstack \o data /\ cstack' = cstack \o fs
  BY DEF ResumeOne, data, fs
<1>12. OnStacks' = Append(OnStacks, [data |-> data, frames |-> Relative(g)])
  BY <1>9, <1>10, <1>11, Mapped
<1>13. Dream(es).data = es.data /\ Dream(es).frames = Relative(g)
  BY DEF Dream
<1> QED BY <1>12, <1>13 DEF C!Wake, data

-----------------------------------------------------------------------------
(* The lists that break_pipe() holds.                                      *)

DoomOf(p) == [i \in DOMAIN p.lists |-> Asleep(p.lists[i])]

LEMMA DoomsSeq ==
  ASSUME NEW ps \in Seq(Pipe)
  PROVE  /\ Len(ps) \in Nat /\ Dooms(ps) = [k \in 1..Len(ps) |-> DoomOf(ps[k])]
         /\ Dooms(ps) \in Seq({DoomOf(p) : p \in Pipe}) /\ Len(Dooms(ps)) = Len(ps)
         /\ \A k \in 1..Len(ps) : Dooms(ps)[k] = DoomOf(ps[k])
<1> DEFINE D == {DoomOf(p) : p \in Pipe}
           l == Dooms(ps)
<1>1. Len(ps) \in Nat /\ DOMAIN ps = 1..Len(ps)
  OBVIOUS
<1>2. l = [k \in 1..Len(ps) |-> DoomOf(ps[k])]
  BY <1>1 DEF Dooms, DoomOf
<1>3. \A k \in 1..Len(ps) : ps[k] \in Pipe
  BY ElementOfSeq
<1> HIDE DEF l
<1>4. l \in [1..Len(ps) -> D]
  BY <1>2, <1>3
<1> HIDE DEF D
<1>5. l \in Seq(D) /\ Len(l) = Len(ps)
  BY <1>1, <1>4
<1> QED BY <1>1, <1>2, <1>5 DEF D, l

\* The lists of one node.
LEMMA DoomOfSeq ==
  ASSUME NEW p \in Pipe
  PROVE  /\ p.lists \in Seq(Seq(Estate)) /\ Len(p.lists) \in Nat
         /\ DoomOf(p) = [i \in 1..Len(p.lists) |-> Asleep(p.lists[i])]
         /\ DoomOf(p) \in Seq({Asleep(list) : list \in Seq(Estate)})
         /\ Len(DoomOf(p)) = Len(p.lists)
         /\ \A i \in 1..Len(p.lists) : DoomOf(p)[i] = Asleep(p.lists[i])
<1> DEFINE D == {Asleep(list) : list \in Seq(Estate)}
           l == DoomOf(p)
           ls == p.lists
<1>1. ls \in Seq(Seq(Estate)) /\ Len(ls) \in Nat /\ DOMAIN ls = 1..Len(ls)
  BY DEF Pipe
<1>2. l = [i \in 1..Len(ls) |-> Asleep(ls[i])]
  BY <1>1 DEF DoomOf
<1> HIDE DEF l, ls
<1>3. \A i \in 1..Len(ls) : ls[i] \in Seq(Estate)
  BY <1>1, ElementOfSeq
<1>4. l \in [1..Len(ls) -> D]
  BY <1>2, <1>3
<1> HIDE DEF D
<1> DEFINE n == Len(ls)
<1>5. l \in [1..n -> D] /\ n \in Nat
  BY <1>1, <1>4
<1> HIDE DEF n
<1>6. l \in Seq(D) /\ Len(l) = n
  BY <1>5
<1> QED BY <1>1, <1>2, <1>6 DEF D, l, ls, n

LEMMA DoomsExcept ==
  ASSUME NEW ps \in Seq(Pipe), NEW n \in 1..Len(ps), NEW p \in Pipe
  PROVE  Dooms([ps EXCEPT ![n] = p]) = [Dooms(ps) EXCEPT ![n] = DoomOf(p)]
<1> DEFINE qs == [ps EXCEPT ![n] = p]
           d == Dooms(ps)
<1>1. qs \in Seq(Pipe) /\ Len(qs) = Len(ps)
      /\ \A k \in 1..Len(ps) : qs[k] = IF k = n THEN p ELSE ps[k]
  BY ExceptSeq
<1> HIDE DEF qs
<1>2. Dooms(qs) = [k \in 1..Len(ps) |-> DoomOf(qs[k])]
  BY <1>1, DoomsSeq
<1>3. d = [k \in 1..Len(ps) |-> DoomOf(ps[k])]
  BY DoomsSeq
<1> HIDE DEF d
<1>4. [d EXCEPT ![n] = DoomOf(p)] = [k \in 1..Len(ps) |-> IF k = n THEN DoomOf(p) ELSE DoomOf(ps[k])]
  BY <1>3
<1>5. \A k \in 1..Len(ps) : DoomOf(qs[k]) = IF k = n THEN DoomOf(p) ELSE DoomOf(ps[k])
  BY <1>1
<1> QED BY <1>2, <1>4, <1>5 DEF qs, d

LEMMA DoomsCut ==
  ASSUME NEW ps \in Seq(Pipe), NEW n \in 0..Len(ps)
  PROVE  Dooms(Take(ps, n)) = SubSeq(Dooms(ps), 1, n)
<1> DEFINE D == {DoomOf(p) : p \in Pipe}
           qs == Take(ps, n)
           d == Dooms(ps)
<1>1. qs \in Seq(Pipe) /\ Len(qs) = n /\ \A k \in 1..n : qs[k] = ps[k]
  BY TakeProperties
<1>2. d \in Seq(D) /\ Len(d) = Len(ps) /\ \A k \in 1..Len(ps) : d[k] = DoomOf(ps[k])
  BY DoomsSeq
<1> HIDE DEF qs
<1>3. Dooms(qs) \in Seq(D) /\ Len(Dooms(qs)) = n /\ \A k \in 1..n : Dooms(qs)[k] = DoomOf(qs[k])
  BY <1>1, DoomsSeq
<1> HIDE DEF d, D
<1>4. Take(d, n) \in Seq(D) /\ Len(Take(d, n)) = n /\ \A k \in 1..n : Take(d, n)[k] = d[k]
  <2>1. d \in Seq(D) /\ n \in 0..Len(d)
    BY <1>2
  <2> QED BY ONLY <2>1, TakeProperties
<1>5. \A k \in 1..n : Dooms(qs)[k] = Take(d, n)[k]
  <2>1. \A k \in 1..n : k \in 1..Len(ps)
    OBVIOUS
  <2> QED BY <1>1, <1>2, <1>3, <1>4, <2>1
<1>6. Dooms(qs) = Take(d, n)
  BY <1>3, <1>4, <1>5, SeqEqual
<1> QED BY <1>6 DEF qs, d, Take

LEMMA DoomsAppend ==
  ASSUME NEW ps \in Seq(Pipe), NEW p \in Pipe
  PROVE  Dooms(Append(ps, p)) = Append(Dooms(ps), DoomOf(p))
<1> DEFINE D == {DoomOf(r) : r \in Pipe}
           qs == Append(ps, p)
           d == Dooms(ps)
           x == DoomOf(p)
           n == Len(ps)
<1>1. /\ qs \in Seq(Pipe) /\ Len(qs) = n + 1 /\ n \in Nat
      /\ \A k \in 1..n : qs[k] = ps[k]
      /\ qs[n + 1] = p
  BY AppendProperties
<1>2. d \in Seq(D) /\ Len(d) = n /\ (\A k \in 1..n : d[k] = DoomOf(ps[k])) /\ x \in D
  BY DoomsSeq
<1> HIDE DEF qs, n
<1>3. /\ Dooms(qs) \in Seq(D) /\ Len(Dooms(qs)) = n + 1
      /\ \A k \in 1..(n + 1) : Dooms(qs)[k] = DoomOf(qs[k])
  BY <1>1, DoomsSeq
<1> HIDE DEF d, D
<1>4. /\ Append(d, x) \in Seq(D) /\ Len(Append(d, x)) = n + 1
      /\ \A k \in 1..n : Append(d, x)[k] = d[k]
      /\ Append(d, x)[n + 1] = x
  BY <1>2, AppendProperties
<1>5. \A k \in 1..(n + 1) : Dooms(qs)[k] = Append(d, x)[k]
  <2>1. \A k \in 1..(n + 1) : k \in 1..n \/ k = n + 1
    BY <1>1
  <2> QED BY <1>1, <1>2, <1>3, <1>4, <2>1
<1>6. Dooms(qs) = Append(d, x)
  BY <1>3, <1>4, <1>5, SeqEqual
<1> QED BY <1>6 DEF qs, d, x

\* The first list changes, or goes.
LEMMA DoomOfFirst ==
  ASSUME NEW p \in Pipe, NEW p2 \in Pipe, p.lists # <<>>, NEW list \in Seq(Estate),
         p2.lists = [p.lists EXCEPT ![1] = list]
  PROVE  DoomOf(p2) = [DoomOf(p) EXCEPT ![1] = Asleep(list)]
<1> DEFINE ls == p.lists
           d == DoomOf(p)
<1>0. ls \in Seq(Seq(Estate)) /\ Len(ls) \in Nat /\ d = [i \in 1..Len(ls) |-> Asleep(ls[i])]
  BY DoomOfSeq
<1> HIDE DEF ls, d
<1>1. /\ ls \in Seq(Seq(Estate)) /\ Len(ls) \in Nat /\ d = [i \in 1..Len(ls) |-> Asleep(ls[i])]
      /\ DOMAIN ls = 1..Len(ls)
  BY <1>0, LenProperties
<1>2. p2.lists = [i \in 1..Len(ls) |-> IF i = 1 THEN list ELSE ls[i]]
  BY <1>1 DEF ls
<1>3. DOMAIN p2.lists = 1..Len(ls) /\ \A i \in 1..Len(ls) : p2.lists[i] = IF i = 1 THEN list ELSE ls[i]
  BY <1>2
<1>4. DoomOf(p2) = [i \in 1..Len(ls) |-> Asleep(IF i = 1 THEN list ELSE ls[i])]
  BY <1>3 DEF DoomOf
<1>5. [d EXCEPT ![1] = Asleep(list)] = [i \in 1..Len(ls) |-> IF i = 1 THEN Asleep(list) ELSE Asleep(ls[i])]
  BY <1>1
<1> QED BY <1>4, <1>5 DEF d

LEMMA DoomOfTail ==
  ASSUME NEW p \in Pipe, NEW p2 \in Pipe, p.lists # <<>>, p2.lists = Tail(p.lists)
  PROVE  DoomOf(p2) = Tail(DoomOf(p))
<1> DEFINE D == {Asleep(list) : list \in Seq(Estate)}
           ls == p.lists
           ms == p2.lists
           d == DoomOf(p)
           e == DoomOf(p2)
           n == Len(ls)
<1>1. /\ ls \in Seq(Seq(Estate)) /\ n \in Nat /\ d \in Seq(D) /\ Len(d) = n
      /\ \A i \in 1..n : d[i] = Asleep(ls[i])
  BY DoomOfSeq
<1>2. /\ ms \in Seq(Seq(Estate)) /\ e \in Seq(D) /\ Len(e) = Len(ms)
      /\ \A i \in 1..Len(ms) : e[i] = Asleep(ms[i])
  BY DoomOfSeq
<1>3. ms = Tail(ls) /\ ls # <<>>
  OBVIOUS
<1> HIDE DEF D, ls, ms, d, e
<1>4. n > 0
  BY <1>1, <1>3, EmptyLen
<1>5. Len(ms) = n - 1 /\ \A i \in 1..(n - 1) : ms[i] = ls[i + 1]
  BY <1>1, <1>3, HeadTailProperties
<1> HIDE DEF n
<1>6. d # <<>>
  BY <1>1, <1>4, EmptyLen
<1> DEFINE t == Tail(d)
<1>7. t \in Seq(D) /\ Len(t) = n - 1 /\ \A i \in 1..(n - 1) : t[i] = d[i + 1]
  BY <1>1, <1>6, HeadTailProperties
<1> HIDE DEF t
<1>8. ASSUME NEW i \in 1..(n - 1) PROVE e[i] = t[i]
  <2>1. i + 1 \in 1..n
    BY <1>1
  <2>2. e[i] = Asleep(ms[i]) /\ ms[i] = ls[i + 1]
    BY <1>2, <1>5
  <2> QED BY <1>1, <1>7, <2>1, <2>2
<1>9. e = t
  BY <1>2, <1>5, <1>7, <1>8, SeqEqual
<1> QED BY <1>9 DEF e, t, d

LEMMA ResumeStep ==
  ASSUME IInv, NEW q \in Queues, NEW v \in Cell, Resume(q, v)
  PROVE  C!Resume
<1> DEFINE list == queue[q]
           es == Head(list)
           w == Waiting(queue)
<1>1. /\ list # <<>> /\ ResumeOne(es, v, pipes) /\ queue' = [queue EXCEPT ![q] = Tail(list)]
  BY DEF Resume
<1>2. GoodList(list, dsize, csize) /\ queue \in [Queues -> Seq(Estate)] /\ list \in Seq(Estate)
  BY InvFacts DEF GoodQueue, GoodList
<1>3. Good(es, dsize, csize)
  BY <1>1, <1>2, GoodTail
<1>4. /\ Asleep(list) # <<>> /\ Head(Asleep(list)) = Dream(es)
      /\ Tail(Asleep(list)) = Asleep(Tail(list))
  BY <1>1, <1>2, AsleepTail
<1>5. pipes' = Left(pipes, dsize')
  BY <1>1 DEF ResumeOne
<1>6. Dooms(pipes') = Dooms(pipes)
  <2>1. pipes \in Seq(Pipe)
    BY InvFacts DEF GoodPipes
  <2> QED BY <1>5, <2>1, DoomsLeft
<1> HIDE DEF es
<1>7. C!Wake(Dream(es))
  BY <1>1, <1>3, MapsWake
<1>8. w[q] = Asleep(list) /\ Waiting(queue') = [w EXCEPT ![q] = Asleep(Tail(list))]
  <2> DEFINE tail == Tail(list)
  <2>1. queue' = [queue EXCEPT ![q] = tail]
    BY <1>1
  <2> HIDE DEF tail
  <2> HIDE DEF list
  <2>2. Waiting(queue') = [Waiting(queue) EXCEPT ![q] = Asleep(tail)]
        /\ \A r \in Queues : Waiting(queue)[r] = Asleep(queue[r])
    BY <2>1, WaitingExcept
  <2> QED BY <2>2 DEF tail, list
<1> HIDE DEF w, list
<1>9. Waiting(queue') = [w EXCEPT ![q] = Tail(w[q])]
  BY <1>4, <1>8
<1>10. InQueues = w /\ InQueues' = Waiting(queue') /\ InPipes' = InPipes
  BY <1>6, Mapped DEF w
<1>11. InQueues[q] # <<>> /\ C!Wake(Head(InQueues[q]))
       /\ InQueues' = [InQueues EXCEPT ![q] = Tail(@)]
  BY <1>4, <1>7, <1>8, <1>9, <1>10
<1> QED BY <1>10, <1>11 DEF C!Resume

-----------------------------------------------------------------------------
(* break_pipe().                                                           *)

LEMMA MapsDoomed ==
  ASSUME NEW n, NEW list, Dooms(pipes) # <<>>, n = Len(Dooms(pipes)), list = Dooms(pipes)[n][1],
         Waiting(queue') = Waiting(queue),
         \/ /\ list # <<>> /\ C!Wake(Head(list))
            /\ Dooms(pipes') = [Dooms(pipes) EXCEPT ![n][1] = Tail(list)]
         \/ /\ list = <<>> /\ Parts(dstack', cstack') = Parts(dstack, cstack)
            /\ Dooms(pipes') = IF Len(Dooms(pipes)[n]) = 1 THEN SubSeq(Dooms(pipes), 1, n - 1)
                               ELSE [Dooms(pipes) EXCEPT ![n] = Tail(Dooms(pipes)[n])]
  PROVE  C!WakeDoomed
BY Mapped DEF C!WakeDoomed

LEMMA PipeNextStep ==
  ASSUME IInv, PipeNext
  PROVE  C!WakeDoomed
<1> DEFINE n == Len(pipes)
           p == pipes[n]
           list == p.lists[1]
           tail == Tail(list)
           ls2 == [p.lists EXCEPT ![1] = tail]
           p2 == [at |-> p.at, lists |-> ls2]
           rest == [pipes EXCEPT ![n].lists[1] = tail]
           d == Dooms(pipes)
<1>1. /\ Breaking /\ list # <<>> /\ ResumeOne(Head(list), Null, rest) /\ queue' = queue
  BY DEF PipeNext
<1>2. n \in 1..n /\ p \in Pipe /\ GoodPipe(p, dsize, csize) /\ p.lists # <<>>
  BY <1>1, BreakingFacts
<1>3. /\ pipes \in Seq(Pipe) /\ n \in Nat /\ d \in Seq({DoomOf(r) : r \in Pipe}) /\ Len(d) = n
      /\ d[n] = DoomOf(p)
  <2>1. pipes \in Seq(Pipe)
    BY InvFacts DEF GoodPipes
  <2> QED BY <1>2, <2>1, DoomsSeq
<1>4. p.lists \in Seq(Seq(Estate)) /\ Len(p.lists) \in Nat /\ 1 \in 1..Len(p.lists)
      /\ DoomOf(p)[1] = Asleep(list)
  <2>1. p.lists \in Seq(Seq(Estate)) /\ Len(p.lists) \in Nat
        /\ \A i \in 1..Len(p.lists) : DoomOf(p)[i] = Asleep(p.lists[i])
    BY <1>2, DoomOfSeq
  <2>2. 1 \in 1..Len(p.lists)
    <3> DEFINE ls == p.lists
    <3>1. ls \in Seq(Seq(Estate)) /\ Len(ls) \in Nat /\ ls # <<>>
      BY <1>2, <2>1
    <3> HIDE DEF ls
    <3>2. 1 \in 1..Len(ls)
      BY <3>1, EmptyLen
    <3> QED BY <3>2 DEF ls
  <2> QED BY <2>1, <2>2
<1>5. GoodList(list, dsize, csize) /\ list \in Seq(Estate)
  BY <1>2, <1>4 DEF GoodPipe, GoodList
<1>6. tail \in Seq(Estate) /\ Good(Head(list), dsize, csize)
  BY <1>1, <1>5, GoodTail DEF GoodList
<1>7. rest = [pipes EXCEPT ![n] = p2]
  <2>1. [p EXCEPT !.lists[1] = tail] = p2
    <3>1. [p EXCEPT !.lists[1] = tail] = [p EXCEPT !.lists = [p.lists EXCEPT ![1] = tail]]
      <4> HIDE DEF tail, p
      <4> QED BY <1>2 DEF Pipe
    <3> HIDE DEF ls2, p
    <3>2. [p EXCEPT !.lists = ls2] = [at |-> p.at, lists |-> ls2]
      BY <1>2 DEF Pipe
    <3> QED BY <3>1, <3>2 DEF ls2
  <2>2. rest = [pipes EXCEPT ![n] = [p EXCEPT !.lists[1] = tail]]
    BY <1>2, <1>3
  <2> QED BY <2>1, <2>2
<1>8. p2 \in Pipe /\ p2.lists = ls2
  <2>1. ls2 \in Seq(Seq(Estate))
    <3> HIDE DEF list, tail
    <3> QED BY <1>4, <1>6, ExceptSeq
  <2> HIDE DEF ls2
  <2>2. p.at \in Nat
    BY <1>2 DEF Pipe
  <2> HIDE DEF p
  <2> QED BY <2>1, <2>2 DEF Pipe
<1>9. DoomOf(p2) = [DoomOf(p) EXCEPT ![1] = Asleep(tail)]
  <2> HIDE DEF p2, tail
  <2>1. p2.lists = [p.lists EXCEPT ![1] = tail]
    BY <1>8
  <2> HIDE DEF ls2, p
  <2> QED BY <1>2, <1>6, <1>8, <2>1, DoomOfFirst
<1> HIDE DEF p2, rest, ls2, tail
<1>10. Dooms(pipes') = Dooms(rest)
  <2>1. rest \in Seq(Pipe)
    BY <1>2, <1>3, <1>7, <1>8, ExceptSeq
  <2>2. pipes' = Left(rest, dsize')
    BY <1>1 DEF ResumeOne
  <2> QED BY <2>1, <2>2, DoomsLeft
<1>11. Dooms(rest) = [d EXCEPT ![n] = DoomOf(p2)]
  BY <1>2, <1>3, <1>7, <1>8, DoomsExcept
<1>12. Asleep(list) # <<>> /\ Head(Asleep(list)) = Dream(Head(list)) /\ Tail(Asleep(list)) = Asleep(tail)
  BY <1>1, <1>5, AsleepTail DEF tail
<1>13. C!Wake(Head(Asleep(list)))
  <2>1. Null \in Cell
    BY DEF Cell
  <2>2. C!Wake(Dream(Head(list)))
    <3> DEFINE es == Head(list)
    <3>1. Good(es, dsize, csize) /\ ResumeOne(es, Null, rest)
      BY <1>1, <1>6
    <3> HIDE DEF es
    <3>2. C!Wake(Dream(es))
      BY <2>1, <3>1, MapsWake
    <3> QED BY <3>2 DEF es
  <2> QED BY <1>12, <2>2
<1> DEFINE sl == Asleep(list)
           x == DoomOf(p)
<1>14. d[n] = x /\ x[1] = sl /\ DoomOf(p2) = [x EXCEPT ![1] = Tail(sl)] /\ sl # <<>>
  BY <1>3, <1>4, <1>9, <1>12
<1>15. C!Wake(Head(sl))
  BY <1>13
<1>16. Dooms(pipes') = [d EXCEPT ![n][1] = Tail(sl)]
  <2> HIDE DEF x, sl, d
  <2>1. d = [k \in 1..n |-> d[k]] /\ n \in 1..n
    BY <1>2, <1>3
  <2>2. [d EXCEPT ![n][1] = Tail(sl)] = [d EXCEPT ![n] = [x EXCEPT ![1] = Tail(sl)]]
    BY <1>14
  <2> QED BY <1>10, <1>11, <1>14, <2>2
<1>17. d # <<>> /\ n = Len(d) /\ sl = d[n][1]
  <2>1. Len(d) # 0
    BY <1>2, <1>3
  <2> QED BY <1>3, <1>14, <2>1, EmptyLen
<1> HIDE DEF sl, n, list
<1>18. Waiting(queue') = Waiting(queue)
  BY <1>1
<1> QED BY <1>14, <1>15, <1>16, <1>17, <1>18, MapsDoomed

LEMMA PipeEndStep ==
  ASSUME IInv, PipeEnd
  PROVE  C!WakeDoomed
<1> DEFINE n == Len(pipes)
           p == pipes[n]
           ls == p.lists
           d == Dooms(pipes)
           x == DoomOf(p)
<1>1. /\ Breaking /\ UNCHANGED <<dstack, cstack, queue>> /\ ls[1] = <<>>
      /\ pipes' = IF Len(ls) = 1 THEN Take(pipes, n - 1) ELSE [pipes EXCEPT ![n].lists = Tail(ls)]
  BY DEF PipeEnd
<1>2. n \in 1..n /\ p \in Pipe /\ GoodPipe(p, dsize, csize) /\ ls # <<>>
  BY <1>1, BreakingFacts
<1>3. /\ pipes \in Seq(Pipe) /\ n \in Nat /\ d \in Seq({DoomOf(r) : r \in Pipe}) /\ Len(d) = n
      /\ d[n] = x
  <2>1. pipes \in Seq(Pipe)
    BY InvFacts DEF GoodPipes
  <2> QED BY <1>2, <2>1, DoomsSeq
<1>4. ls \in Seq(Seq(Estate)) /\ Len(ls) \in Nat /\ Len(x) = Len(ls) /\ 1 \in 1..Len(ls)
      /\ x[1] = <<>>
  <2>1. ls \in Seq(Seq(Estate)) /\ Len(ls) \in Nat /\ Len(x) = Len(ls)
        /\ \A i \in 1..Len(ls) : x[i] = Asleep(ls[i])
    BY <1>2, DoomOfSeq
  <2>2. 1 \in 1..Len(ls)
    <3> HIDE DEF ls
    <3> QED BY <1>2, <2>1, EmptyLen
  <2>3. Asleep(<<>>) = <<>>
    <3>1. <<>> \in Seq(Estate)
      BY EmptySeq
    <3> QED BY <3>1, AsleepTail
  <2> QED BY <1>1, <2>1, <2>2, <2>3
<1>5. d # <<>> /\ n = Len(d)
  <2>1. Len(d) # 0
    BY <1>2, <1>3
  <2> QED BY <1>3, <2>1, EmptyLen
<1>6. Dooms(pipes') = IF Len(x) = 1 THEN SubSeq(d, 1, n - 1) ELSE [d EXCEPT ![n] = Tail(x)]
  <2>1. CASE Len(ls) = 1
    <3>1. n - 1 \in 0..Len(pipes) /\ pipes' = Take(pipes, n - 1)
      BY <1>1, <1>2, <1>3, <2>1
    <3>2. Dooms(pipes') = SubSeq(d, 1, n - 1)
      BY <1>3, <3>1, DoomsCut
    <3> QED BY <1>4, <2>1, <3>2
  <2>2. CASE Len(ls) # 1
    <3> DEFINE tail == Tail(ls)
               p2 == [at |-> p.at, lists |-> tail]
    <3>1. [p EXCEPT !.lists = tail] = p2
      <4> HIDE DEF tail, p
      <4> QED BY <1>2 DEF Pipe
    <3>2. pipes' = [pipes EXCEPT ![n] = p2]
      <4>1. pipes' = [pipes EXCEPT ![n] = [p EXCEPT !.lists = tail]]
        BY <1>1, <1>2, <1>3, <2>2
      <4> QED BY <3>1, <4>1
    <3>3. p2 \in Pipe /\ p2.lists = tail
      <4>1. tail \in Seq(Seq(Estate))
        <5> HIDE DEF ls
        <5> QED BY <1>2, <1>4, HeadTailProperties
      <4>2. p.at \in Nat
        BY <1>2 DEF Pipe
      <4> HIDE DEF tail, p
      <4> QED BY <4>1, <4>2 DEF Pipe
    <3> HIDE DEF p2
    <3>4. DoomOf(p2) = Tail(x)
      BY <1>2, <3>3, DoomOfTail
    <3>5. Dooms(pipes') = [d EXCEPT ![n] = DoomOf(p2)]
      BY <1>2, <1>3, <3>2, <3>3, DoomsExcept
    <3> QED BY <1>4, <2>2, <3>4, <3>5
  <2> QED BY <2>1, <2>2
<1> DEFINE e == <<>>
<1>7. e = d[n][1] /\ e = <<>> /\ Parts(dstack', cstack') = Parts(dstack, cstack)
  BY <1>1, <1>3, <1>4
<1>8. Dooms(pipes') = IF Len(d[n]) = 1 THEN SubSeq(d, 1, n - 1) ELSE [d EXCEPT ![n] = Tail(d[n])]
  BY <1>3, <1>6
<1>9. Waiting(queue') = Waiting(queue)
  BY <1>1
<1> HIDE DEF e, n, x
<1> QED BY <1>5, <1>7, <1>8, <1>9, MapsDoomed

-----------------------------------------------------------------------------
(* Queues are emptied, and a program goes.                                 *)

LEMMA WaitingEmptied ==
  ASSUME IInv, NEW n \in Nodes, queue' = Emptied(n)
  PROVE  /\ Waiting(queue') = [q \in Queues |-> IF q \in C!NodeQueues(n) THEN <<>> ELSE Waiting(queue)[q]]
         /\ \A q \in Queues : Waiting(queue)[q] = Asleep(queue[q])
<1>1. Waiting(queue) = [q \in Queues |-> Asleep(queue[q])]
  BY DEF Waiting
<1>2. Asleep(<<>>) = <<>>
  <2>1. <<>> \in Seq(Estate)
    BY EmptySeq
  <2> QED BY <2>1, AsleepTail
<1>3. DOMAIN n = 1..Len(n)
  BY NodeQueues
<1>4. \A q \in Queues : Emptied(n)[q] = IF q \in C!NodeQueues(n) THEN <<>> ELSE queue[q]
  <2>1. \A q : q \in C!NodeQueues(n) <=> \E i \in DOMAIN n : n[i] = q
    BY DEF C!NodeQueues
  <2> QED BY <2>1 DEF Emptied
<1>5. Waiting(queue') = [q \in Queues |-> Asleep(queue'[q])]
  BY DEF Waiting
<1>6. \A q \in Queues : Asleep(queue'[q]) = IF q \in C!NodeQueues(n) THEN <<>> ELSE Waiting(queue)[q]
  BY <1>1, <1>2, <1>4
<1> QED BY <1>1, <1>5, <1>6

LEMMA BreakPipeStep ==
  ASSUME IInv, NEW n \in Nodes, BreakPipe(n)
  PROVE  C!Doom
<1> DEFINE ls == [i \in 1..Len(n) |-> queue[n[i]]]
           p == [at |-> cpos, lists |-> ls]
           w == Waiting(queue)
<1>1. /\ pipes' = Append(pipes, p) /\ queue' = Emptied(n) /\ UNCHANGED <<dstack, cstack>>
  BY DEF BreakPipe
<1>2. Len(n) \in Nat /\ DOMAIN n = 1..Len(n) /\ \A i \in 1..Len(n) : n[i] \in Queues
  BY NodeQueues
<1>3. ls \in Seq(Seq(Estate)) /\ DOMAIN ls = 1..Len(n) /\ \A i \in 1..Len(n) : ls[i] = queue[n[i]]
  <2>1. ls \in [1..Len(n) -> Seq(Estate)]
    BY <1>2, InvFacts DEF GoodQueue
  <2> QED BY <1>2, <2>1
<1> HIDE DEF ls
<1>4. p \in Pipe /\ p.lists = ls
  BY <1>3, InvFacts DEF Pipe
<1>5. /\ Waiting(queue') = [q \in Queues |-> IF q \in C!NodeQueues(n) THEN <<>> ELSE w[q]]
      /\ \A q \in Queues : w[q] = Asleep(queue[q])
  BY <1>1, WaitingEmptied
<1> HIDE DEF p, w
<1>6. DoomOf(p) = [i \in 1..Len(n) |-> Asleep(ls[i])]
  BY <1>3, <1>4 DEF DoomOf
<1>7. DoomOf(p) = [i \in DOMAIN n |-> w[n[i]]]
  BY <1>2, <1>3, <1>5, <1>6
<1>8. Dooms(pipes') = Append(Dooms(pipes), [i \in DOMAIN n |-> w[n[i]]])
  <2>1. pipes \in Seq(Pipe)
    BY InvFacts DEF GoodPipes
  <2>2. Dooms(pipes') = Append(Dooms(pipes), DoomOf(p))
    BY <1>1, <1>4, <2>1, DoomsAppend
  <2> QED BY <1>7, <2>2
<1>9. Parts(dstack', cstack') = Parts(dstack, cstack)
  BY <1>1
<1> QED BY <1>5, <1>8, <1>9, Mapped DEF C!Doom, w

LEMMA DestroyPipeStep ==
  ASSUME IInv, NEW n \in Nodes, DestroyPipe(n)
  PROVE  C!Drop
<1>1. queue' = Emptied(n) /\ UNCHANGED <<dstack, cstack, pipes>>
  BY DEF DestroyPipe
<1>2. Waiting(queue') = [q \in Queues |-> IF q \in C!NodeQueues(n) THEN <<>> ELSE Waiting(queue)[q]]
  BY <1>1, WaitingEmptied
<1>3. Parts(dstack', cstack') = Parts(dstack, cstack) /\ Dooms(pipes') = Dooms(pipes)
  BY <1>1
<1> QED BY <1>2, <1>3, Mapped DEF C!Drop

\* A list with a program less.
LEMMA AsleepWithout ==
  ASSUME NEW list \in Seq(Estate), NEW i \in 1..Len(list)
  PROVE  Asleep(Take(list, i - 1) \o SubSeq(list, i + 1, Len(list))) = C!Without(Asleep(list), i)
<1> DEFINE a == Take(list, i - 1)
           b == SubSeq(list, i + 1, Len(list))
<1>1. Len(list) \in Nat /\ Len(Asleep(list)) = Len(list)
  BY AsleepList
<1>2. /\ 1 \in 1..(Len(list) + 1) /\ i - 1 \in 0..Len(list) /\ 1 <= (i - 1) + 1
      /\ i + 1 \in 1..(Len(list) + 1) /\ Len(list) \in 0..Len(list) /\ i + 1 <= Len(list) + 1
  BY <1>1
<1>3. a \in Seq(Estate) /\ b \in Seq(Estate)
  BY <1>2, SubSeqType DEF Take
<1>4. Asleep(a) = SubSeq(Asleep(list), 1, i - 1)
  BY <1>2, AsleepSub DEF Take
<1>5. Asleep(b) = SubSeq(Asleep(list), i + 1, Len(list))
  BY <1>2, AsleepSub
<1> HIDE DEF a, b
<1>6. Asleep(a \o b) = Asleep(a) \o Asleep(b)
  BY <1>3, AsleepConcat
<1> QED BY <1>1, <1>4, <1>5, <1>6 DEF C!Without, a, b

LEMMA DiscardEstateStep ==
  ASSUME IInv, NEW q \in Queues, NEW i, DiscardEstate(q, i)
  PROVE  C!Drop
<1> DEFINE list == queue[q]
           less == Take(list, i - 1) \o SubSeq(list, i + 1, Len(list))
           w == Waiting(queue)
<1>1. list \in Seq(Estate) /\ i \in 1..Len(list)
  <2>1. list \in Seq(Estate)
    BY InvFacts DEF GoodQueue
  <2>2. i \in DOMAIN list
    BY DEF DiscardEstate
  <2> HIDE DEF list
  <2> QED BY <2>1, <2>2, LenProperties
<1>2. queue' = [queue EXCEPT ![q] = less] /\ UNCHANGED <<dstack, cstack, pipes>>
  BY DEF DiscardEstate
<1> HIDE DEF list
<1>3. Asleep(less) = C!Without(Asleep(list), i)
  BY <1>1, AsleepWithout
<1> HIDE DEF less
<1>4. Waiting(queue') = [w EXCEPT ![q] = Asleep(less)] /\ w[q] = Asleep(list)
  BY <1>2, WaitingExcept DEF list
<1>5. i \in DOMAIN w[q]
  <2>1. Asleep(list) \in Seq({Dream(es) : es \in Estate}) /\ Len(Asleep(list)) = Len(list)
    BY <1>1, AsleepList
  <2>2. DOMAIN Asleep(list) = 1..Len(list)
    BY <2>1, LenProperties
  <2> QED BY <1>1, <1>4, <2>2
<1>6. Waiting(queue') = [w EXCEPT ![q] = C!Without(w[q], i)]
  BY <1>3, <1>4
<1>7. Parts(dstack', cstack') = Parts(dstack, cstack) /\ Dooms(pipes') = Dooms(pipes)
  BY <1>2
<1>8. \E r \in Queues : \E j \in DOMAIN w[r] : Waiting(queue') = [w EXCEPT ![r] = C!Without(w[r], j)]
  BY <1>5, <1>6
<1> HIDE DEF w
<1>9. InQueues = w /\ InQueues' = Waiting(queue') /\ OnStacks' = OnStacks /\ InPipes' = InPipes
  BY <1>7, Mapped DEF w
<1> QED BY <1>8, <1>9 DEF C!Drop

-----------------------------------------------------------------------------
(* A program suspends itself.                                              *)

LEMMA MapsSuspend ==
  ASSUME NEW S, NEW p \in Seq(S), NEW x, Parts(dstack, cstack) = Append(p, x),
         Parts(dstack', cstack') = p, Dooms(pipes') = Dooms(pipes), NEW q \in Queues,
         \A r \in Queues \ {q} : Waiting(queue')[r] = Waiting(queue)[r],
         NEW l, l = Waiting(queue')[q], NEW i \in DOMAIN l, C!Without(l, i) = Waiting(queue)[q],
         l[i].frames = x.frames, C!Cut(x.data, l[i].data)
  PROVE  C!Suspend
<1>1. Len(p) \in Nat /\ Len(Append(p, x)) = Len(p) + 1 /\ SubSeq(Append(p, x), 1, Len(p)) = p
      /\ Append(p, x)[Len(p) + 1] = x
  BY AppendBack
<1>2. Len(p) + 1 > 0 /\ (Len(p) + 1) - 1 = Len(p)
  BY <1>1
<1>3. C!depth > 0 /\ OnStacks' = C!Outer /\ C!Inner = x
  BY <1>1, <1>2, Mapped DEF C!depth, C!Outer, C!Inner
<1>4. /\ \A r \in Queues \ {q} : InQueues'[r] = InQueues[r]
      /\ InQueues'[q] = l /\ C!Without(l, i) = InQueues[q] /\ InPipes' = InPipes
  BY Mapped
<1> QED BY <1>3, <1>4 DEF C!Suspend

\* Where a program is inserted it can be taken out again.
LEMMA InsertWithout ==
  ASSUME NEW list \in Seq(Estate), NEW i \in 0..Len(list), NEW es \in Estate
  PROVE  LET new == Insert(list, i, es)
         IN /\ new \in Seq(Estate) /\ i + 1 \in 1..Len(new) /\ new[i + 1] = es
            /\ Take(new, (i + 1) - 1) \o SubSeq(new, (i + 1) + 1, Len(new)) = list
<1> DEFINE a == Take(list, i)
           b == SubSeq(list, i + 1, Len(list))
           c == Append(a, es)
           new == c \o b
<1>1. a \in Seq(Estate) /\ b \in Seq(Estate) /\ Len(a) = i /\ a \o b = list /\ Len(list) \in Nat
  <2>1. Len(list) \in Nat
    OBVIOUS
  <2>2. /\ SubSeq(list, 1, i) \in Seq(Estate) /\ b \in Seq(Estate) /\ Len(SubSeq(list, 1, i)) = i
        /\ SubSeq(list, 1, i) \o b = list
    BY Halves
  <2> QED BY <2>1, <2>2 DEF Take
<1>2. i \in Nat
  OBVIOUS
<1>3. Insert(list, i, es) = new
  <2>1. a \o <<es>> = c
    <3> HIDE DEF a
    <3> QED BY <1>1, AppendIsConcat
  <2> HIDE DEF a, b, c
  <2>2. Insert(list, i, es) = (a \o <<es>>) \o b
    BY DEF Insert, a, b
  <2> QED BY <2>1, <2>2
<1> HIDE DEF a, b
<1>4. /\ c \in Seq(Estate) /\ Len(c) = i + 1 /\ (\A j \in 1..i : c[j] = a[j]) /\ c[i + 1] = es
  BY <1>1, AppendProperties
<1> HIDE DEF c
<1>5. /\ new \in Seq(Estate) /\ Len(new) = (i + 1) + Len(b) /\ SubSeq(new, (i + 1) + 1, Len(new)) = b
  <2>1. new \in Seq(Estate) /\ Len(new) = Len(c) + Len(b) /\ SubSeq(new, Len(c) + 1, Len(new)) = b
    <3>1. c \in Seq(Estate) /\ b \in Seq(Estate)
      BY <1>1, <1>4
    <3> QED BY <3>1, Cut
  <2> HIDE DEF new
  <2> QED BY <1>4, <2>1
<1>6. \A j \in 1..(i + 1) : new[j] = c[j]
  <2>1. \A j \in 1..(Len(c) + Len(b)) : new[j] = IF j <= Len(c) THEN c[j] ELSE b[j - Len(c)]
    BY <1>1, <1>4, ConcatProperties
  <2>2. Len(b) \in Nat
    BY <1>1
  <2> QED BY <1>2, <1>4, <2>1, <2>2
<1> HIDE DEF new
<1>7. Len(b) \in Nat /\ i + 1 \in 1..Len(new) /\ (i + 1) - 1 = i /\ i <= Len(new)
  <2>1. Len(b) \in Nat
    BY <1>1
  <2> QED BY <1>2, <1>5, <2>1
<1>8. new[i + 1] = es
  BY <1>2, <1>4, <1>6
<1>9. Take(new, i) = a
  <2>1. SubSeq(new, 1, i) = SubSeq(a, 1, i)
    <3>1. 1 \in Nat \ {0} /\ i \in Int /\ i <= Len(a) /\ \A j \in 1..i : new[j] = a[j]
      BY <1>1, <1>2, <1>4, <1>6
    <3> QED BY <1>1, <1>5, <1>7, <3>1, SubSeqSame
  <2>2. SubSeq(a, 1, Len(a)) = a
    BY <1>1, SubSeqFull
  <2> QED BY <1>1, <2>1, <2>2 DEF Take
<1> QED BY <1>1, <1>3, <1>5, <1>7, <1>8, <1>9

\* What suspend() saves is the innermost program, less the operands.
LEMMA ImageCut ==
  ASSUME IInv, cpos > 0, Running, NEW argc \in Nat, NEW exec \in BOOLEAN,
         Ctop.want >= Taken(argc, exec)
  PROVE  LET x == Upper(dstack, cstack, Base)
             y == Dream(Image(argc, exec))
         IN y.frames = x.frames /\ C!Cut(x.data, y.data)
<1> DEFINE b == Base
           start == cstack[b].dstart
           w == Ctop.want - Taken(argc, exec)
           cs == Want(w)
           low == IF exec THEN [dstack EXCEPT ![dpos - argc] = Null] ELSE dstack
           m == dpos - argc
           u == SubSeq(dstack, start + 1, dpos)
           v == SubSeq(low, start + 1, m)
<1>1. /\ dstack \in Seq(Cell) /\ cstack \in Seq(Frame) /\ dpos \in Nat /\ cpos \in Nat
      /\ dpos = Len(dstack) /\ cpos = Len(cstack) /\ b \in 1..cpos
  BY InvFacts, BaseFacts
<1>2. /\ low \in Seq(Cell) /\ Len(low) = dpos /\ argc <= Ctop.want /\ m \in 0..dpos
      /\ \A i \in 1..dpos : low[i] = IF exec /\ i = dpos - argc THEN Null ELSE dstack[i]
  <2>0. low = IF exec THEN [dstack EXCEPT ![dpos - argc] = Null] ELSE dstack
    OBVIOUS
  <2> HIDE DEF low
  <2>1. low \in Seq(Cell) /\ Len(low) = dpos /\ argc <= Ctop.want /\ m \in 0..dpos
    BY <2>0, Nulled
  <2>2. \A i \in 1..dpos : low[i] = IF exec /\ i = dpos - argc THEN Null ELSE dstack[i]
    BY <2>0, Nulled
  <2> QED BY <2>1, <2>2
<1>3. Image(argc, exec) = [data |-> v, frames |-> SubSeq(cs, b, cpos)]
  BY DEF Image
<1> HIDE DEF low
<1>4. start \in 0..m
  <2>1. start = Low /\ Low \in Nat /\ Low <= dpos - argc
    BY <1>2, LowFacts
  <2> QED BY <1>2, <2>1
<1>5. cs \in Seq(Frame) /\ Len(cs) = cpos
  <2> DEFINE a == Ctop.dstart
             n == Ctop.nv
             c == Ctop.want
             t == Taken(argc, exec)
             d == dpos
  <2>1. /\ a \in Nat /\ n \in Nat /\ c \in Nat /\ t \in Nat /\ t <= c /\ a + n + c <= d /\ d \in Nat
        /\ Ctop.prim \in Prim /\ Pending(Ctop.prim) = 0
    BY TakenFacts, CtopFacts, InvFacts, NonePending
  <2> HIDE DEF a, n, c, t, d
  <2>2. c - t \in Nat /\ a + n + (c - t) <= d /\ c - t >= 0
    BY <2>1
  <2>3. w = c - t
    BY DEF c, t
  <2> HIDE DEF w
  <2>4. w \in Nat /\ Ctop.dstart + Ctop.nv + w <= dpos /\ w >= Pending(Ctop.prim)
    BY <2>1, <2>2, <2>3 DEF a, n, d
  <2>5. Stack(dpos, cs) /\ Len(cs) = cpos
    BY <1>1, <2>1, <2>4, RetopFacts DEF Want
  <2> QED BY <2>5 DEF Stack
<1>6. \A i \in 1..cpos : cs[i].dstart = cstack[i].dstart /\ cs[i].nv = cstack[i].nv
  BY RetopFrames DEF Want
<1> HIDE DEF cs, m, b, start
<1>7. Relative(SubSeq(cs, b, cpos)) = Relative(SubSeq(cstack, b, cpos))
  BY <1>1, <1>5, <1>6, RelativeSub
<1>8. u \in Seq(Cell) /\ Len(u) = dpos - start /\ \A i \in 1..(dpos - start) : u[i] = dstack[start + i]
  <2>1. start \in 0..Len(dstack)
    BY <1>1, <1>2, <1>4
  <2> QED BY <1>1, <2>1, Halves
<1>9. v \in Seq(Cell) /\ Len(v) = m - start /\ \A i \in 1..(m - start) : v[i] = low[start + i]
  <2>1. /\ start + 1 \in 1..(Len(low) + 1) /\ m \in 0..Len(low) /\ start + 1 <= m + 1
        /\ m - (start + 1) + 1 = m - start
    BY <1>1, <1>2, <1>4
  <2>2. \A i \in 1..(m - start) : (start + 1) + i - 1 = start + i
    BY <1>4
  <2> DEFINE k == start + 1
  <2>3. k \in 1..(Len(low) + 1) /\ m \in 0..Len(low) /\ k <= m + 1
    BY <2>1
  <2> HIDE DEF k
  <2>4. /\ SubSeq(low, k, m) \in Seq(Cell) /\ Len(SubSeq(low, k, m)) = m - k + 1
        /\ \A i \in 1..(m - k + 1) : SubSeq(low, k, m)[i] = low[k + i - 1]
    BY <1>2, <2>3, SubSeqType
  <2> QED BY <2>1, <2>2, <2>4 DEF k
<1> HIDE DEF u, v
<1>10. C!Cut(u, v)
  <2>1. Len(v) <= Len(u)
    BY <1>1, <1>2, <1>4, <1>8, <1>9
  <2>2. ASSUME NEW k \in 1..(m - start) PROVE v[k] \in {u[k], Null}
    <3>1. start + k \in 1..dpos /\ k \in 1..(dpos - start)
      BY <1>1, <1>2, <1>4
    <3> QED BY <1>2, <1>8, <1>9, <3>1
  <2>3. DOMAIN v = 1..(m - start)
    BY <1>9, LenProperties
  <2> QED BY <2>1, <2>2, <2>3 DEF C!Cut
<1>11. /\ Upper(dstack, cstack, Base).data = u
       /\ Upper(dstack, cstack, Base).frames = Relative(SubSeq(cstack, b, cpos))
  BY <1>1 DEF Upper, u, b, start
<1>12. Dream(Image(argc, exec)).data = v /\ Dream(Image(argc, exec)).frames = Relative(SubSeq(cs, b, cpos))
  BY <1>3 DEF Dream
<1> QED BY <1>7, <1>10, <1>11, <1>12

LEMMA SuspendStep ==
  ASSUME IInv, NEW q \in Queues, NEW argc \in Nat, NEW exec \in BOOLEAN, Suspend(q, argc, exec)
  PROVE  C!Suspend
<1> DEFINE es == Image(argc, exec)
           list == queue[q]
           x == Upper(dstack, cstack, Base)
           p == Bottom(dstack, cstack, Base)
<1>1. Running /\ cpos > 0 /\ Ctop.want >= Taken(argc, exec)
  BY NonePending DEF Suspend, Step
<1>2. PICK i \in Places(q) : queue' = [queue EXCEPT ![q] = Insert(list, i, es)]
  BY DEF Suspend
<1>3. i \in 0..Len(list) /\ list \in Seq(Estate)
  <2>1. list \in Seq(Estate)
    BY InvFacts DEF GoodQueue
  <2> QED BY <2>1, PlacesIn
<1>4. es \in Estate
  BY <1>1, GoodImage DEF Good
<1>5. Dream(es).frames = x.frames /\ C!Cut(x.data, Dream(es).data)
  BY <1>1, ImageCut
<1>6. /\ Parts(dstack, cstack) = Append(p, x) /\ \E S : p \in Seq(S)
      /\ Parts(dstack', cstack') = p /\ pipes' = pipes
  <2>1. Parts(dstack', cstack') = p /\ pipes' = pipes
    BY DEF Suspend, Bottom
  <2> QED BY <1>1, <2>1, SplitNow
<1> DEFINE new == Insert(list, i, es)
           l == Asleep(new)
           k == i + 1
<1> HIDE DEF es, x, p
<1>7. new \in Seq(Estate) /\ k \in 1..Len(new) /\ new[k] = es
      /\ Take(new, k - 1) \o SubSeq(new, k + 1, Len(new)) = list
  BY <1>3, <1>4, InsertWithout
<1>8. queue' = [queue EXCEPT ![q] = new]
  BY <1>2
<1> HIDE DEF new, k
<1>9. /\ Waiting(queue)[q] = Asleep(list) /\ Waiting(queue')[q] = l
      /\ \A r \in Queues \ {q} : Waiting(queue')[r] = Waiting(queue)[r]
  <2> HIDE DEF list
  <2> QED BY <1>8, WaitingExcept DEF list
<1> HIDE DEF list
<1>10. C!Without(l, k) = Asleep(list)
  BY <1>7, AsleepWithout
<1>11. k \in DOMAIN l /\ l[k] = Dream(es)
  <2>1. /\ l \in Seq({Dream(s) : s \in Estate}) /\ Len(l) = Len(new)
        /\ \A j \in 1..Len(new) : l[j] = Dream(new[j])
    BY <1>7, AsleepList
  <2> HIDE DEF l
  <2>2. DOMAIN l = 1..Len(new)
    BY <2>1, LenProperties
  <2> QED BY <1>7, <2>1, <2>2
<1>12. Dooms(pipes') = Dooms(pipes)
  BY <1>6
<1>13. l[k].frames = x.frames /\ C!Cut(x.data, l[k].data)
  BY <1>5, <1>11
<1> HIDE DEF l
<1>14. C!Without(l, k) = Waiting(queue)[q]
  BY <1>9, <1>10
<1> QED BY <1>6, <1>9, <1>11, <1>12, <1>13, <1>14, MapsSuspend

-----------------------------------------------------------------------------
(* Every step is one of Coroutines'.                                       *)

LEMMA InitMapped ==
  ASSUME Init
  PROVE  C!Init
<1>1. dstack = <<>> /\ cstack = <<>> /\ queue = [q \in Queues |-> <<>>] /\ pipes = <<>>
  BY DEF Init
<1>2. Parts(dstack, cstack) = <<>>
  <2>1. Len(cstack) = 0
    BY <1>1
  <2>2. PICK S : Parts(dstack, cstack) \in Seq(S)
    BY <2>1, PartsSeq
  <2>3. Len(Parts(dstack, cstack)) = 0
    BY <2>1, NoParts
  <2> DEFINE s == Parts(dstack, cstack)
  <2>4. s \in Seq(S) /\ Len(s) = 0
    BY <2>2, <2>3
  <2> HIDE DEF s
  <2>5. s = <<>>
    BY <2>4, EmptyLen
  <2> QED BY <2>5 DEF s
<1>3. Asleep(<<>>) = <<>>
  <2>1. <<>> \in Seq(Estate)
    BY EmptySeq
  <2> QED BY <2>1, AsleepTail
<1>4. Waiting(queue) = [q \in Queues |-> <<>>]
  BY <1>1, <1>3 DEF Waiting
<1>5. Dooms(pipes) = <<>>
  <2>1. pipes \in Seq(Pipe) /\ Len(pipes) = 0
    BY <1>1, EmptySeq
  <2>2. Dooms(pipes) \in Seq({DoomOf(p) : p \in Pipe}) /\ Len(Dooms(pipes)) = 0
    BY <2>1, DoomsSeq
  <2> QED BY <2>2, EmptyLen
<1> QED BY <1>2, <1>4, <1>5, Mapped DEF C!Init

\* Nobody notices.
LEMMA MapsNothing ==
  ASSUME UNCHANGED <<dstack, cstack, queue, pipes>>
  PROVE  UNCHANGED C!cvars
BY Mapped DEF C!cvars

LEMMA InstructionMapped ==
  ASSUME IInv, IInv', Instruction, Keeps(Low, dstack, dstack')
  PROVE  C!Next
<1>1. cpos > 0
  BY NonePending DEF Instruction, Push, Eval, Pop, Stop, Error, Assign, Fcall, ExecFunc, PrimBegin,
                     Callv, Detach, Suspend, Step
<1>2. \A argc \in Argc : argc \in Nat
  BY SizesAssumption DEF Argc
<1>3. ASSUME NEW v \in Cell, Push(v) \/ Eval(v) PROVE C!Next
  BY <1>1, <1>3, OperandsCompute DEF C!Next
<1>4. ASSUME Pop PROVE C!Next
  BY <1>1, <1>4, OperandsCompute DEF C!Next
<1>5. ASSUME Stop PROVE C!Next
  BY <1>1, <1>5, StopSteps DEF C!Next
<1>6. ASSUME Error PROVE C!Next
  BY <1>1, <1>6, AbortFinish DEF C!Next, Error
<1>7. ASSUME NEW i \in 1..Ctop.nv, Assign(i) PROVE C!Next
  BY <1>1, <1>7, OperandsCompute DEF C!Next
<1>8. ASSUME NEW p \in Progs, NEW argc \in Argc, Fcall(p, argc) \/ ExecFunc(p, argc) PROVE C!Next
  BY <1>1, <1>8, CallsCompute DEF C!Next
<1>9. ASSUME NEW argc \in Argc, NEW exec \in Execs,
             \/ PrimBegin(argc, exec)
             \/ \E args \in Args : Callv(argc, exec, args)
             \/ Detach(argc, exec)
             \/ \E q \in Queues : Suspend(q, argc, exec)
      PROVE  C!Next
  <2>1. argc \in Nat /\ exec \in BOOLEAN
    BY <1>2, SizesAssumption
  <2>2. ASSUME PrimBegin(argc, exec) PROVE C!Next
    BY <1>1, <2>2, OperandsCompute DEF C!Next
  <2>3. ASSUME NEW args \in Args, Callv(argc, exec, args) PROVE C!Next
    BY <1>1, <2>3, CallsCompute DEF C!Next
  <2>4. ASSUME Detach(argc, exec) PROVE C!Next
    BY <2>1, <2>4, DetachStart DEF C!Next
  <2>5. ASSUME NEW q \in Queues, Suspend(q, argc, exec) PROVE C!Next
    BY <2>1, <2>5, SuspendStep DEF C!Next
  <2> QED BY <1>9, <2>2, <2>3, <2>4, <2>5
<1> QED BY <1>3, <1>4, <1>5, <1>6, <1>7, <1>8, <1>9 DEF Instruction

LEMMA CCodeMapped ==
  ASSUME IInv, IInv', CCode, Keeps(Low, dstack, dstack')
  PROVE  C!Next \/ UNCHANGED C!cvars
<1>1. ASSUME NEW v \in Cell, PrimEnd(v) PROVE C!Next
  <2>1. cpos > 0
    BY <1>1 DEF PrimEnd, InPrim
  <2> QED BY <1>1, <2>1, OperandsCompute DEF C!Next
<1>2. ASSUME NEW v \in Cell, NEW q \in Queues, Resume(q, v) PROVE C!Next
  BY <1>2, ResumeStep DEF C!Next
<1>3. ASSUME PrimError PROVE C!Next
  <2>1. cpos > 0 /\ Abort
    BY <1>3 DEF PrimError, InPrim
  <2> QED BY <2>1, AbortFinish DEF C!Next
<1>4. ASSUME DetachEnd PROVE C!Next
  <2>1. cpos > 0
    BY <1>4 DEF DetachEnd
  <2> QED BY <1>4, <2>1, OperandsCompute DEF C!Next
<1>5. ASSUME NEW n \in Nodes, BreakPipe(n) \/ DestroyPipe(n) PROVE C!Next
  BY <1>5, BreakPipeStep, DestroyPipeStep DEF C!Next
<1>6. ASSUME PipeNext \/ PipeEnd PROVE C!Next
  BY <1>6, PipeNextStep, PipeEndStep DEF C!Next
<1>7. ASSUME NEW q \in Queues, NEW i, DiscardEstate(q, i) PROVE C!Next
  BY <1>7, DiscardEstateStep DEF C!Next
<1>8. ASSUME NEW p \in Progs, RunProg(p) \/ (\E v \in Cell : RunProgIstr(p, v)) PROVE C!Next
  BY <1>8, RunProgStart DEF C!Next
<1>9. ASSUME MainTop PROVE UNCHANGED C!cvars
  BY <1>9, MapsNothing DEF MainTop
<1> QED BY <1>1, <1>2, <1>3, <1>4, <1>5, <1>6, <1>7, <1>8, <1>9 DEF CCode

LEMMA NextMapped ==
  ASSUME IInv, [Next]_vars
  PROVE  [C!Next]_(C!cvars)
<1>1. IInv'
  BY NextInv
<1>2. ASSUME Instruction \/ CCode PROVE Keeps(Low, dstack, dstack')
  <2>1. CASE cpos = 0
    BY <2>1 DEF Low, Keeps
  <2>2. CASE cpos > 0
    BY <1>2, <2>2, InstructionKeeps, CCodeKeeps
  <2> QED BY <2>1, <2>2, InvFacts
<1>3. ASSUME Instruction PROVE C!Next
  BY <1>1, <1>2, <1>3, InstructionMapped
<1>4. ASSUME CCode PROVE C!Next \/ UNCHANGED C!cvars
  BY <1>1, <1>2, <1>4, CCodeMapped
<1>5. ASSUME BreakAbort PROVE C!Next
  <2>1. cpos > 0 /\ Abort
    BY <1>5, NonePending DEF BreakAbort
  <2> QED BY <2>1, AbortFinish DEF C!Next
<1>6. ASSUME SigBreak \/ UNCHANGED vars PROVE UNCHANGED C!cvars
  BY <1>6, MapsNothing DEF SigBreak, vars
<1> QED BY <1>3, <1>4, <1>5, <1>6 DEF Next

\* The interpreter implements Coroutines: a VTC program runs as if it had
\* stacks of its own, wherever suspend() takes it from and resume() puts it.
THEOREM StacksImplemented == Spec => OwnStacks
<1>1. IInv /\ [Next]_vars => [C!Next]_(C!cvars)
  BY NextMapped
<1>2. Init => C!Init
  BY InitMapped
<1> QED BY <1>1, <1>2, Invariance, PTL DEF Spec, OwnStacks, C!Spec
=============================================================================

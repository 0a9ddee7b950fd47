-------------------------- MODULE InputLineProofs --------------------------
(***************************************************************************)
(* Proofs about InputLine.                                                 *)
(***************************************************************************)
EXTENDS InputLine, SeqLemmas

-----------------------------------------------------------------------------
(* Columns and rows: numbers modulo Margin.                                *)

LEMMA MarginIs == Margin \in Nat /\ Margin > 0
BY InputLineAssumption

LEMMA MinIs ==
  ASSUME NEW a \in Int, NEW b \in Int
  PROVE  /\ Min2(a, b) \in Int /\ Min2(a, b) <= a /\ Min2(a, b) <= b
         /\ Min2(a, b) = a \/ Min2(a, b) = b
BY DEF Min2

LEMMA ModIs ==
  ASSUME NEW a \in Int
  PROVE  /\ a % Margin \in 0..(Margin - 1) /\ a \div Margin \in Int
         /\ a = Margin * (a \div Margin) + (a % Margin)
BY MarginIs

LEMMA ModUnique ==
  ASSUME NEW q \in Int, NEW r \in 0..(Margin - 1)
  PROVE  (Margin * q + r) % Margin = r /\ (Margin * q + r) \div Margin = q
<1> DEFINE a == Margin * q + r
           s == a % Margin
           p == a \div Margin
<1>1. Margin \in Nat /\ Margin > 0 /\ a \in Int
  BY MarginIs
<1>2. s \in 0..(Margin - 1) /\ p \in Int /\ a = Margin * p + s
  BY <1>1, ModIs
<1>3. Margin * (p - q) = r - s
  BY <1>1, <1>2
<1> HIDE DEF a, s, p
<1>4. p - q = 0
  <2>1. p - q \in Int /\ r - s < Margin /\ s - r < Margin
    BY <1>1, <1>2
  <2>2. p - q >= 1 => Margin * (p - q) >= Margin
    BY <1>1, <2>1
  <2>3. p - q <= -1 => Margin * (p - q) <= -Margin
    BY <1>1, <2>1
  <2> QED BY <1>1, <1>2, <1>3, <2>1, <2>2, <2>3
<1>5. p = q /\ s = r
  BY <1>1, <1>2, <1>3, <1>4
<1> QED BY <1>5 DEF a, s, p

LEMMA ModAdd ==
  ASSUME NEW a \in Int, NEW b \in Int
  PROVE  (a + b) % Margin = ((a % Margin) + b) % Margin
<1> DEFINE p == a \div Margin
           r == a % Margin
           q == (r + b) \div Margin
           s == (r + b) % Margin
<1>1. Margin \in Nat /\ r \in Int /\ p \in Int /\ a = Margin * p + r
  BY MarginIs, ModIs
<1>2. q \in Int /\ s \in 0..(Margin - 1) /\ r + b = Margin * q + s
  <2> HIDE DEF r
  <2>1. r + b \in Int
    BY <1>1
  <2> QED BY <2>1, ModIs
<1> HIDE DEF p, q, r, s
<1>3. a + b = Margin * (p + q) + s /\ p + q \in Int
  BY <1>1, <1>2
<1>4. (a + b) % Margin = s
  BY <1>2, <1>3, ModUnique
<1> QED BY <1>4 DEF s, r

-----------------------------------------------------------------------------
(* The terminal.                                                           *)

Anywhere == [line : [1..Isize -> [Columns -> Chars]], x : 0..Margin, y : 0..Isize, stray : {FALSE}]
Terminals == {t \in Anywhere : t.y # 0}

\* Line r of the terminal is the same in both.
SameRow(t, u, r) == \A i \in Columns : u.line[r][i] = t.line[r][i]

LEMMA AnywhereIs ==
  ASSUME Isize \in Nat \ {0}, NEW t \in Anywhere
  PROVE  /\ t.line \in [1..Isize -> [Columns -> Chars]] /\ t.x \in 0..Margin /\ t.y \in 0..Isize
         /\ t.stray = FALSE /\ Isize \in 1..Isize
         /\ \A r \in 1..Isize, i \in Columns : t.line[r][i] \in Chars
<1>1. /\ t.line \in [1..Isize -> [Columns -> Chars]] /\ t.x \in 0..Margin /\ t.y \in 0..Isize
      /\ t.stray \in {FALSE}
  BY DEF Anywhere
<1>2. \A r \in 1..Isize : t.line[r] \in [Columns -> Chars]
  BY <1>1
<1>3. \A r \in 1..Isize, i \in Columns : t.line[r][i] \in Chars
  BY <1>2
<1>4. Isize \in 1..Isize
  OBVIOUS
<1> QED BY <1>1, <1>3, <1>4

LEMMA EmptyIs == Empty \in [Columns -> Chars] /\ \A i \in Columns : Empty[i] = Blank
BY InputLineAssumption DEF Empty

LEMMA cmoveIs ==
  ASSUME Isize \in Nat \ {0}, NEW t \in Anywhere, NEW c \in 0..Margin
  PROVE  /\ cmove(t, c) \in Terminals /\ cmove(t, c).x = c /\ cmove(t, c).y = Isize
         /\ cmove(t, c).line = t.line
<1>1. Margin \in Nat /\ Min2(c, Margin) = c
  BY MarginIs DEF Min2
<1>2. Isize \in 0..Isize /\ Isize # 0
  OBVIOUS
<1> QED BY <1>1, <1>2 DEF cmove, Terminals, Anywhere

LEMMA LeftIs ==
  ASSUME Isize \in Nat \ {0}, NEW t \in Anywhere, NEW n \in Int
  PROVE  /\ Left(t, n) \in Anywhere /\ Left(t, n).x = Max2(t.x - Max2(n, 0), 0)
         /\ Left(t, n).y = t.y /\ Left(t, n).line = t.line
         /\ t \in Terminals => Left(t, n) \in Terminals
<1>1. t.x \in 0..Margin /\ Margin \in Nat
  BY MarginIs DEF Anywhere
<1>2. Max2(t.x - Max2(n, 0), 0) \in 0..Margin
  BY <1>1 DEF Max2
<1> QED BY <1>2 DEF Left, Anywhere, Terminals

LEMMA PutIs ==
  ASSUME Isize \in Nat \ {0}, NEW t \in Terminals, NEW s \in Seq(Chars)
  PROVE  /\ Put(t, s) \in Terminals /\ Put(t, s).y = t.y
         /\ Put(t, s).x = Min2(t.x + Len(s), Margin)
         /\ \A r \in 1..Isize : r # t.y => SameRow(t, Put(t, s), r)
         /\ \A i \in Columns : Put(t, s).line[t.y][i]
              = IF i - t.x \in 1..Len(s) THEN s[i - t.x] ELSE t.line[t.y][i]
<1>1. /\ t.line \in [1..Isize -> [Columns -> Chars]] /\ t.x \in 0..Margin /\ t.y \in 1..Isize
      /\ t.stray = FALSE /\ Margin \in Nat /\ Len(s) \in Nat /\ DOMAIN s = 1..Len(s)
      /\ \A i \in 1..Len(s) : s[i] \in Chars
  <2>1. t \in Anywhere /\ t.y # 0
    BY DEF Terminals
  <2>2. t.line \in [1..Isize -> [Columns -> Chars]] /\ t.x \in 0..Margin /\ t.stray = FALSE
    BY <2>1 DEF Anywhere
  <2>5. t.y \in 1..Isize
    BY <2>1 DEF Anywhere
  <2>3. Margin \in Nat
    BY MarginIs
  <2>4. Len(s) \in Nat /\ DOMAIN s = 1..Len(s) /\ \A i \in 1..Len(s) : s[i] \in Chars
    OBVIOUS
  <2> QED BY <2>2, <2>3, <2>4, <2>5
<1>2. DEFINE row == [i \in Columns |-> IF i - t.x \in DOMAIN s THEN s[i - t.x] ELSE t.line[t.y][i]]
             x == Min2(t.x + Len(s), Margin)
<1>3. row \in [Columns -> Chars]
  BY <1>1
<1>4. x \in 0..Margin
  BY <1>1 DEF Min2
<1>5. Put(t, s) = [t EXCEPT !.line[t.y] = row, !.x = x]
  BY <1>1 DEF Put
<1>6. \A i \in Columns : row[i] = IF i - t.x \in 1..Len(s) THEN s[i - t.x] ELSE t.line[t.y][i]
  BY <1>1
<1> HIDE DEF row, x
<1>7. Put(t, s) \in Anywhere /\ Put(t, s).y = t.y /\ Put(t, s).x = x
      /\ Put(t, s).line = [t.line EXCEPT ![t.y] = row]
  BY <1>1, <1>3, <1>4, <1>5 DEF Anywhere, Terminals
<1>8. Put(t, s).line[t.y] = row /\ \A r \in 1..Isize : r # t.y => Put(t, s).line[r] = t.line[r]
  BY <1>1, <1>7
<1> QED BY <1>1, <1>6, <1>7, <1>8 DEF x, SameRow, Terminals

LEMMA clreolIs ==
  ASSUME Isize \in Nat \ {0}, NEW t \in Terminals
  PROVE  /\ clreol(t) \in Terminals /\ clreol(t).y = t.y /\ clreol(t).x = t.x
         /\ \A r \in 1..Isize : r # t.y => SameRow(t, clreol(t), r)
         /\ \A i \in Columns : clreol(t).line[t.y][i]
              = IF i > t.x THEN Blank ELSE t.line[t.y][i]
<1>1. /\ t.line \in [1..Isize -> [Columns -> Chars]] /\ t.x \in 0..Margin /\ t.y \in 1..Isize
      /\ Blank \in Chars
  BY InputLineAssumption DEF Anywhere, Terminals
<1>2. DEFINE row == [i \in Columns |-> IF i > t.x THEN Blank ELSE t.line[t.y][i]]
<1>3. row \in [Columns -> Chars]
  BY <1>1
<1>4. clreol(t) = [t EXCEPT !.line[t.y] = row]
  BY <1>1 DEF clreol
<1>5. \A i \in Columns : row[i] = IF i > t.x THEN Blank ELSE t.line[t.y][i]
  BY <1>1
<1> HIDE DEF row
<1>6. clreol(t) \in Anywhere /\ clreol(t).y = t.y /\ clreol(t).x = t.x
      /\ clreol(t).line = [t.line EXCEPT ![t.y] = row]
  BY <1>1, <1>3, <1>4 DEF Anywhere, Terminals
<1>7. clreol(t).line[t.y] = row /\ \A r \in 1..Isize : r # t.y => clreol(t).line[r] = t.line[r]
  BY <1>1, <1>6
<1> QED BY <1>1, <1>5, <1>6, <1>7 DEF SameRow, Terminals

\* A row more at the bottom, at the top, or all of them blank.
LEMMA Iscr_fwdIs ==
  ASSUME Isize \in Nat \ {0}, NEW t \in Anywhere
  PROVE  /\ Iscr_fwd(t) \in Terminals /\ Iscr_fwd(t).y = Isize /\ Iscr_fwd(t).x = 0
         /\ \A r \in 1..(Isize - 1) : Iscr_fwd(t).line[r] = t.line[r + 1]
         /\ \A i \in Columns : Iscr_fwd(t).line[Isize][i] = Blank
<1>1. /\ t.line \in [1..Isize -> [Columns -> Chars]] /\ Margin \in Nat
      /\ Empty \in [Columns -> Chars] /\ \A i \in Columns : Empty[i] = Blank
  BY EmptyIs, MarginIs DEF Anywhere
<1> DEFINE l == [r \in 1..Isize |-> IF r = Isize THEN Empty ELSE t.line[r + 1]]
<1>2. l \in [1..Isize -> [Columns -> Chars]]
  BY <1>1
<1>3. l[Isize] = Empty /\ \A r \in 1..(Isize - 1) : l[r] = t.line[r + 1]
  OBVIOUS
<1>4. Iscr_fwd(t) = [t EXCEPT !.line = l, !.x = 0, !.y = Isize]
  BY DEF Iscr_fwd
<1> HIDE DEF l
<1>6. Isize \in 0..Isize /\ 1 \in 0..Isize /\ 0 \in 0..Margin
  BY <1>1
<1>5. Iscr_fwd(t) \in Anywhere /\ Iscr_fwd(t).y = Isize /\ Iscr_fwd(t).x = 0 /\ Iscr_fwd(t).line = l
  BY <1>1, <1>2, <1>4, <1>6 DEF Anywhere
<1> QED BY <1>1, <1>3, <1>5 DEF Terminals

LEMMA Iscr_revIs ==
  ASSUME Isize \in Nat \ {0}, NEW t \in Anywhere
  PROVE  /\ Iscr_rev(t) \in Terminals /\ Iscr_rev(t).y = 1 /\ Iscr_rev(t).x = 0
         /\ \A r \in 2..Isize : Iscr_rev(t).line[r] = t.line[r - 1]
         /\ \A i \in Columns : Iscr_rev(t).line[1][i] = Blank
<1>1. /\ t.line \in [1..Isize -> [Columns -> Chars]] /\ Margin \in Nat
      /\ Empty \in [Columns -> Chars] /\ \A i \in Columns : Empty[i] = Blank
  BY EmptyIs, MarginIs DEF Anywhere
<1> DEFINE l == [r \in 1..Isize |-> IF r = 1 THEN Empty ELSE t.line[r - 1]]
<1>2. l \in [1..Isize -> [Columns -> Chars]]
  BY <1>1
<1>3. l[1] = Empty /\ \A r \in 2..Isize : l[r] = t.line[r - 1]
  OBVIOUS
<1>4. Iscr_rev(t) = [t EXCEPT !.line = l, !.x = 0, !.y = 1]
  BY DEF Iscr_rev
<1> HIDE DEF l
<1>6. Isize \in 0..Isize /\ 1 \in 0..Isize /\ 0 \in 0..Margin
  BY <1>1
<1>5. Iscr_rev(t) \in Anywhere /\ Iscr_rev(t).y = 1 /\ Iscr_rev(t).x = 0 /\ Iscr_rev(t).line = l
  BY <1>1, <1>2, <1>4, <1>6 DEF Anywhere
<1> QED BY <1>1, <1>3, <1>5 DEF Terminals

LEMMA clear_spaceIs ==
  ASSUME Isize \in Nat \ {0}, NEW t \in Anywhere
  PROVE  /\ clear_space(t) \in Terminals /\ clear_space(t).y = Isize /\ clear_space(t).x = 0
         /\ \A i \in Columns : clear_space(t).line[Isize][i] = Blank
<1>1. /\ Margin \in Nat
      /\ Empty \in [Columns -> Chars] /\ \A i \in Columns : Empty[i] = Blank
  BY EmptyIs, MarginIs DEF Anywhere
<1> DEFINE l == [r \in 1..Isize |-> Empty]
<1>2. l \in [1..Isize -> [Columns -> Chars]] /\ l[Isize] = Empty
  BY <1>1
<1>4. clear_space(t) = [t EXCEPT !.line = l, !.x = 0, !.y = Isize]
  BY DEF clear_space
<1> HIDE DEF l
<1>6. Isize \in 0..Isize /\ 1 \in 0..Isize /\ 0 \in 0..Margin
  BY <1>1
<1>5. clear_space(t) \in Anywhere /\ clear_space(t).y = Isize /\ clear_space(t).x = 0 /\ clear_space(t).line = l
  BY <1>1, <1>2, <1>4, <1>6 DEF Anywhere
<1> QED BY <1>1, <1>2, <1>5 DEF Terminals

-----------------------------------------------------------------------------
(* What is on the rows.                                                    *)

Lines == [b : Seq(Chars), k : Nat, p : Seq(Chars), o : Nat, echo : BOOLEAN]
Sane(e) == e \in Lines /\ e.k <= Len(e.b) /\ e.o <= Len(e.p)

\* What is visible, from 1 on: o characters of the prompt and the line.
Glyph(e, j) ==
  IF j <= e.o THEN e.p[j]
  ELSE IF e.echo /\ j - e.o <= Len(e.b) THEN e.b[j - e.o] ELSE Blank

\* Row l shows what comes after q characters; up to column c, or behind it.
Begins(l, e, q, c) == \A i \in 1..c : l[i] = Glyph(e, q + i)
Ends(l, e, q, c) == \A i \in Columns : i > c => l[i] = IF i <= Margin THEN Glyph(e, q + i) ELSE Blank
RowIs(l, e, q) == Ends(l, e, q, 0)
Clean(l, c) == \A i \in Columns : i > c => l[i] = Blank

\* The rows above the bottom row, when that is to show what comes after q.
Offset(r) == (Isize - r) * Margin
Over(t, e, q) == \A r \in 1..(Isize - 1) : q >= Offset(r) => RowIs(t.line[r], e, q - Offset(r))
Full(t, e, q) == Over(t, e, q) /\ (q >= 0 => RowIs(t.line[Isize], e, q))

Cur(e) == e.o + (IF e.echo THEN e.k ELSE 0)
Base(e) == Cur(e) - (Cur(e) % Margin)

\* The cursor is where icol says, and icol is the column of the cursor in the line.
Placed(d, e) ==
  /\ d = D(d.t, d.icol) /\ d.t \in Terminals /\ d.t.x = d.icol /\ d.t.y = Isize
  /\ d.icol = Cur(e) % Margin
Seen(d, e) == Full(d.t, e, Base(e))

\* A line of which all is visible.
Echoing(e) == Sane(e) /\ e.echo = TRUE

LEMMA SaneIs ==
  ASSUME NEW e, Sane(e)
  PROVE  /\ e.b \in Seq(Chars) /\ e.p \in Seq(Chars) /\ e.k \in 0..Len(e.b) /\ e.o \in 0..Len(e.p)
         /\ Len(e.b) \in Nat /\ Len(e.p) \in Nat
BY DEF Sane, Lines

LEMMA EchoingIs ==
  ASSUME NEW e, Echoing(e)
  PROVE  /\ Sane(e) /\ Cur(e) = e.o + e.k
         /\ \A j \in Nat : Glyph(e, j) = IF j <= e.o THEN e.p[j]
                                      ELSE IF j - e.o <= Len(e.b) THEN e.b[j - e.o] ELSE Blank
BY DEF Echoing, Cur, Glyph

LEMMA FromIs ==
  ASSUME NEW s \in Seq(Chars), NEW k \in Nat, NEW n \in Nat, k + n <= Len(s)
  PROVE  /\ From(s, k, n) \in Seq(Chars) /\ Len(From(s, k, n)) = n
         /\ \A i \in 1..n : From(s, k, n)[i] = s[k + i]
<1>1. Len(s) \in Nat /\ \A i \in 1..Len(s) : s[i] \in Chars
  OBVIOUS
<1>2. k + 1 \in Nat /\ k + n \in Nat /\ k + 1 >= 1 /\ k + 1 <= k + n + 1
  OBVIOUS
<1>3. /\ SubSeq(s, k + 1, k + n) \in Seq(Chars) /\ Len(SubSeq(s, k + 1, k + n)) = n
      /\ \A i \in 1..n : SubSeq(s, k + 1, k + n)[i] = s[k + i]
  BY <1>1, <1>2, SubSeqProperties
<1> QED BY <1>3 DEF From

LEMMA OffsetIs ==
  ASSUME Isize \in Nat \ {0}, NEW r \in 1..Isize
  PROVE  /\ Offset(r) \in Nat /\ Offset(Isize) = 0
         /\ r < Isize => Offset(r) = Offset(r + 1) + Margin /\ Offset(r) >= Margin
<1>1. Margin \in Nat /\ Isize - r \in Nat
  BY MarginIs
<1>2. (Isize - r) * Margin \in Nat
  BY <1>1
<1>3. (Isize - r) * Margin = (Isize - (r + 1)) * Margin + Margin
  BY <1>1
<1>4. r < Isize => (Isize - (r + 1)) * Margin >= 0
  BY <1>1
<1>5. (Isize - Isize) * Margin = 0
  BY <1>1
<1> QED BY <1>2, <1>3, <1>4, <1>5, <1>1 DEF Offset

LEMMA OverSame ==
  ASSUME NEW t, NEW u, \A r \in 1..(Isize - 1) : SameRow(t, u, r), NEW e, NEW q, Over(t, e, q)
  PROVE  Over(u, e, q)
<1> SUFFICES ASSUME NEW r \in 1..(Isize - 1), q >= Offset(r) PROVE RowIs(u.line[r], e, q - Offset(r))
  BY DEF Over
<1>1. RowIs(t.line[r], e, q - Offset(r))
  BY DEF Over
<1> QED BY <1>1 DEF SameRow, RowIs, Ends

\* A row more at the bottom.
LEMMA ScrollUp ==
  ASSUME Isize \in Nat \ {0}, NEW t \in Anywhere, NEW e, NEW q \in Int, Full(t, e, q)
  PROVE  Over(Iscr_fwd(t), e, q + Margin) /\ Clean(Iscr_fwd(t).line[Isize], 0)
<1>1. ASSUME NEW r \in 1..(Isize - 1), q + Margin >= Offset(r)
      PROVE  RowIs(Iscr_fwd(t).line[r], e, (q + Margin) - Offset(r))
  <2>1. Iscr_fwd(t).line[r] = t.line[r + 1]
    BY Iscr_fwdIs
  <2>2. r + 1 \in 1..Isize /\ Margin \in Nat /\ Offset(r + 1) \in Nat /\ Offset(r) \in Nat
        /\ Offset(r) = Offset(r + 1) + Margin /\ Offset(Isize) = 0
    BY MarginIs, OffsetIs
  <2>3. q >= Offset(r + 1) /\ (q + Margin) - Offset(r) = q - Offset(r + 1)
    BY <1>1, <2>2
  <2>4. CASE r + 1 < Isize
    <3>1. RowIs(t.line[r + 1], e, q - Offset(r + 1))
      BY <2>2, <2>3, <2>4 DEF Full, Over
    <3> QED BY <2>1, <2>3, <3>1
  <2>5. CASE r + 1 = Isize
    <3>1. q >= 0 /\ q - Offset(r + 1) = q
      BY <2>2, <2>3, <2>5
    <3>2. RowIs(t.line[Isize], e, q)
      BY <3>1 DEF Full
    <3> QED BY <2>1, <2>3, <2>5, <3>1, <3>2
  <2> QED BY <2>2, <2>4, <2>5
<1>2. Clean(Iscr_fwd(t).line[Isize], 0)
  BY Iscr_fwdIs DEF Clean
<1>3. Over(Iscr_fwd(t), e, q + Margin)
  BY <1>1 DEF Over
<1> QED BY <1>2, <1>3

\* A row more at the top: it is the one that is left to draw.
LEMMA ScrollDown ==
  ASSUME Isize \in Nat \ {0}, NEW t \in Anywhere, NEW e, NEW q \in Int, Full(t, e, q)
  PROVE  \A r \in 2..Isize : q - Margin >= Offset(r) =>
           RowIs(Iscr_rev(t).line[r], e, q - Margin - Offset(r))
<1> SUFFICES ASSUME NEW r \in 2..Isize, q - Margin >= Offset(r)
             PROVE  RowIs(Iscr_rev(t).line[r], e, q - Margin - Offset(r))
  OBVIOUS
<1>1. Iscr_rev(t).line[r] = t.line[r - 1]
  BY Iscr_revIs
<1>2. r - 1 \in 1..(Isize - 1) /\ (r - 1) + 1 = r
  OBVIOUS
<1>3. Offset(r - 1) = Offset(r) + Margin /\ Offset(r) \in Nat /\ Offset(r - 1) \in Nat /\ Margin \in Nat
  BY <1>2, OffsetIs, MarginIs
<1>4. q >= Offset(r - 1) /\ q - Margin - Offset(r) = q - Offset(r - 1)
  BY <1>3
<1>5. RowIs(t.line[r - 1], e, q - Offset(r - 1))
  BY <1>2, <1>4 DEF Full, Over
<1> QED BY <1>1, <1>4, <1>5

-----------------------------------------------------------------------------
(* Drawing on the bottom row.                                              *)

\* The rows above stay as they are.
Aloft(t, u) == \A r \in 1..(Isize - 1) : SameRow(t, u, r)

LEMMA AloftTransitive ==
  ASSUME NEW t, NEW u, NEW v, Aloft(t, u), Aloft(u, v)
  PROVE  Aloft(t, v)
BY DEF Aloft, SameRow

LEMMA AloftLine ==
  ASSUME NEW t, NEW u, t.line = u.line
  PROVE  Aloft(t, u)
BY DEF Aloft, SameRow

\* A piece of text at the cursor.
LEMMA PutHere ==
  ASSUME Isize \in Nat \ {0}, NEW t \in Terminals, t.y = Isize, NEW s \in Seq(Chars),
         t.x + Len(s) <= Margin
  PROVE  /\ Put(t, s) \in Terminals /\ Put(t, s).y = Isize /\ Put(t, s).x = t.x + Len(s)
         /\ Aloft(t, Put(t, s))
         /\ \A i \in Columns : Put(t, s).line[Isize][i]
              = IF i - t.x \in 1..Len(s) THEN s[i - t.x] ELSE t.line[Isize][i]
<1>1. t.x \in 0..Margin /\ Margin \in Nat /\ Len(s) \in Nat
  BY MarginIs DEF Terminals, Anywhere
<1>2. Min2(t.x + Len(s), Margin) = t.x + Len(s)
  BY <1>1 DEF Min2
<1>3. \A r \in 1..(Isize - 1) : r \in 1..Isize /\ r # t.y
  OBVIOUS
<1>4. Aloft(t, Put(t, s))
  BY <1>3, PutIs DEF Aloft
<1> QED BY <1>2, <1>4, PutIs

LEMMA move_leftIs ==
  ASSUME Isize \in Nat \ {0}, NEW t \in Terminals, t.y = Isize, NEW n \in Int, NEW c \in 0..Margin,
         Max2(t.x - Max2(n, 0), 0) = c
  PROVE  /\ move_left(t, n, c) \in Terminals /\ move_left(t, n, c).y = Isize
         /\ move_left(t, n, c).x = c /\ move_left(t, n, c).line = t.line
<1>1. t \in Anywhere
  BY DEF Terminals
<1>2. CASE n < Few
  <2>1. move_left(t, n, c) = Left(t, n)
    BY <1>2 DEF move_left
  <2>2. /\ Left(t, n).x = Max2(t.x - Max2(n, 0), 0) /\ Left(t, n).y = t.y /\ Left(t, n).line = t.line
        /\ Left(t, n) \in Terminals
    BY ONLY <1>1, Isize \in Nat \ {0}, t \in Terminals, n \in Int, LeftIs
  <2> QED BY <2>1, <2>2
<1>3. CASE ~(n < Few)
  <2>1. move_left(t, n, c) = cmove(t, c)
    BY <1>3 DEF move_left
  <2> QED BY <1>1, <2>1, cmoveIs
<1> QED BY <1>2, <1>3

LEMMA clear_endIs ==
  ASSUME Isize \in Nat \ {0}, NEW t \in Terminals, t.y = Isize, NEW m \in Int, t.x + m <= Margin
  PROVE  /\ clear_end(t, m) \in Terminals /\ clear_end(t, m).y = Isize /\ clear_end(t, m).x = t.x
         /\ Aloft(t, clear_end(t, m))
         /\ \A i \in Columns :
              /\ i \in (t.x + 1)..(t.x + m) => clear_end(t, m).line[Isize][i] = Blank
              /\ i > t.x => clear_end(t, m).line[Isize][i] \in {Blank, t.line[Isize][i]}
              /\ i <= t.x => clear_end(t, m).line[Isize][i] = t.line[Isize][i]
<1>1. t \in Anywhere /\ t.x \in 0..Margin /\ Margin \in Nat /\ Columns = 1..(Margin + 1)
  BY MarginIs DEF Terminals, Anywhere, Columns
<1>2. CASE m > 1
  <2>1. clear_end(t, m) = clreol(t)
    BY <1>2 DEF clear_end
  <2>2. \A r \in 1..(Isize - 1) : r \in 1..Isize /\ r # t.y
    OBVIOUS
  <2>3. Aloft(t, clreol(t))
    BY <2>2, clreolIs DEF Aloft
  <2>4. /\ clreol(t) \in Terminals /\ clreol(t).y = Isize /\ clreol(t).x = t.x
        /\ \A i \in Columns : clreol(t).line[Isize][i] = IF i > t.x THEN Blank ELSE t.line[Isize][i]
    BY clreolIs
  <2> QED BY <1>1, <2>1, <2>3, <2>4
<1>3. CASE m = 1
  <2> DEFINE u == Put(t, <<Blank>>)
  <2>1. clear_end(t, m) = Left(u, 1)
    BY <1>3 DEF clear_end
  <2>2. <<Blank>> \in Seq(Chars) /\ Len(<<Blank>>) = 1 /\ <<Blank>>[1] = Blank
    BY InputLineAssumption
  <2>3. /\ u \in Terminals /\ u.y = Isize /\ u.x = t.x + 1 /\ Aloft(t, u)
        /\ \A i \in Columns : u.line[Isize][i]
             = IF i - t.x \in 1..1 THEN <<Blank>>[i - t.x] ELSE t.line[Isize][i]
    BY <1>1, <1>3, <2>2, PutHere
  <2>4. \A i \in Columns : u.line[Isize][i] = IF i = t.x + 1 THEN Blank ELSE t.line[Isize][i]
    <3> SUFFICES ASSUME NEW i \in Columns
                 PROVE  u.line[Isize][i] = IF i = t.x + 1 THEN Blank ELSE t.line[Isize][i]
      OBVIOUS
    <3>1. i \in Int /\ t.x \in Int /\ (i - t.x \in 1..1 <=> i = t.x + 1)
      BY <1>1
    <3>2. CASE i = t.x + 1
      <4>1. i - t.x = 1
        BY <3>1, <3>2
      <4>2. u.line[Isize][i] = <<Blank>>[1]
        BY <2>3, <3>1, <3>2, <4>1
      <4> QED BY <2>2, <3>2, <4>2
    <3>3. CASE i # t.x + 1
      <4>1. i - t.x \notin 1..1
        BY <3>1, <3>3
      <4> QED BY <2>3, <3>3, <4>1
    <3> QED BY <3>2, <3>3
  <2> HIDE DEF u
  <2>8. u \in Anywhere
    BY <2>3 DEF Terminals
  <2>5. /\ Left(u, 1) \in Terminals /\ Left(u, 1).y = Isize /\ Left(u, 1).line = u.line
        /\ Left(u, 1).x = Max2(u.x - Max2(1, 0), 0)
    BY ONLY <2>3, <2>8, Isize \in Nat \ {0}, 1 \in Int, LeftIs
  <2>6. Left(u, 1).x = t.x
    BY <1>1, <2>3, <2>5 DEF Max2
  <2>7. Aloft(t, Left(u, 1))
    BY <2>3, <2>5 DEF Aloft, SameRow
  <2> QED BY <1>1, <1>3, <2>1, <2>4, <2>5, <2>6, <2>7
<1>4. CASE m < 1
  <2>1. clear_end(t, m) = t
    BY <1>4 DEF clear_end
  <2>2. Aloft(t, t)
    BY DEF Aloft, SameRow
  <2>3. (t.x + 1)..(t.x + m) = {}
    BY <1>1, <1>4
  <2> QED BY <2>1, <2>2, <2>3
<1> QED BY <1>2, <1>3, <1>4

\* The text after the cursor is drawn, m columns behind it are cleared, and the
\* cursor goes back.
Drawn(t, s, m) == move_left(clear_end(Put(t, s), m), Len(s), t.x)

LEMMA DrawnIs ==
  ASSUME Isize \in Nat \ {0}, NEW t \in Terminals, t.y = Isize, NEW s \in Seq(Chars), NEW m \in Int,
         t.x + Len(s) <= Margin, t.x + Len(s) + m <= Margin
  PROVE  /\ Drawn(t, s, m) \in Terminals /\ Drawn(t, s, m).y = Isize /\ Drawn(t, s, m).x = t.x
         /\ Aloft(t, Drawn(t, s, m))
         /\ \A i \in Columns : LET l == Drawn(t, s, m).line[Isize] IN
              /\ i <= t.x => l[i] = t.line[Isize][i]
              /\ i > t.x /\ i <= t.x + Len(s) => l[i] = s[i - t.x]
              /\ i > t.x + Len(s) => l[i] \in {Blank, t.line[Isize][i]}
              /\ i > t.x + Len(s) /\ i <= t.x + Len(s) + m => l[i] = Blank
<1> DEFINE n == Len(s)
           u == Put(t, s)
           v == clear_end(u, m)
           w == move_left(v, n, t.x)
<1>1. t.x \in 0..Margin /\ Margin \in Nat /\ n \in Nat /\ Columns = 1..(Margin + 1)
  BY MarginIs DEF Terminals, Anywhere, Columns
<1>2. /\ u \in Terminals /\ u.y = Isize /\ u.x = t.x + n /\ Aloft(t, u)
      /\ \A i \in Columns : u.line[Isize][i] = IF i - t.x \in 1..n THEN s[i - t.x] ELSE t.line[Isize][i]
  BY PutHere
<1> HIDE DEF n, u
<1>3. u.x + m <= Margin
  BY <1>2 DEF n
<1>4. /\ v \in Terminals /\ v.y = Isize /\ v.x = u.x /\ Aloft(u, v)
      /\ \A i \in Columns :
           /\ i \in (u.x + 1)..(u.x + m) => v.line[Isize][i] = Blank
           /\ i > u.x => v.line[Isize][i] \in {Blank, u.line[Isize][i]}
           /\ i <= u.x => v.line[Isize][i] = u.line[Isize][i]
  BY ONLY <1>2, <1>3, m \in Int, Isize \in Nat \ {0}, clear_endIs
<1> HIDE DEF v
<1>5. Max2(v.x - Max2(n, 0), 0) = t.x
  BY <1>1, <1>2, <1>4 DEF Max2
<1>6. w \in Terminals /\ w.y = Isize /\ w.x = t.x /\ w.line = v.line
  BY <1>1, <1>4, <1>5, move_leftIs
<1>7. Aloft(t, w)
  BY <1>2, <1>4, <1>6 DEF Aloft, SameRow
<1>8. ASSUME NEW i \in Columns
      PROVE  /\ i <= t.x => w.line[Isize][i] = t.line[Isize][i]
             /\ i > t.x /\ i <= t.x + n => w.line[Isize][i] = s[i - t.x]
             /\ i > t.x + n => w.line[Isize][i] \in {Blank, t.line[Isize][i]}
             /\ i > t.x + n /\ i <= t.x + n + m => w.line[Isize][i] = Blank
  <2>1. i \in Int /\ t.x \in Int /\ n \in Int /\ m \in Int /\ u.x = t.x + n
    BY <1>1, <1>2
  <2>2. CASE i <= t.x
    <3>1. ~(i - t.x \in 1..n) /\ i <= u.x /\ ~(i > t.x)
      BY <2>1, <2>2, <1>1
    <3>2. w.line[Isize][i] = t.line[Isize][i]
      BY <1>2, <1>4, <1>6, <3>1
    <3> QED BY <3>2, <2>1, <2>2, <1>1
  <2>3. CASE i > t.x /\ i <= t.x + n
    <3>1. i - t.x \in 1..n /\ i <= u.x
      BY <2>1, <2>3
    <3>2. w.line[Isize][i] = s[i - t.x]
      BY <1>2, <1>4, <1>6, <3>1
    <3> QED BY <3>2, <2>1, <2>3, <1>1
  <2>4. CASE i > t.x + n
    <3>1. ~(i - t.x \in 1..n) /\ i > u.x /\ ~(i <= t.x)
      BY <2>1, <2>4, <1>1
    <3>2. w.line[Isize][i] \in {Blank, t.line[Isize][i]}
      BY <1>2, <1>4, <1>6, <3>1
    <3>3. i <= t.x + n + m => i \in (u.x + 1)..(u.x + m)
      BY <2>1, <3>1
    <3>4. i <= t.x + n + m => w.line[Isize][i] = Blank
      BY <1>4, <1>6, <3>3
    <3> QED BY <3>1, <3>2, <3>4, <2>1, <2>4
  <2> QED BY <2>1, <2>2, <2>3, <2>4
<1>9. Drawn(t, s, m) = w
  BY DEF Drawn, w, v, u, n
<1> HIDE DEF w
<1> QED BY <1>6, <1>7, <1>8, <1>9 DEF n

\* With that the bottom row is right again, if it was up to the cursor and if
\* what is not cleared is clean.
LEMMA DrawnRow ==
  ASSUME Isize \in Nat \ {0}, NEW t \in Terminals, t.y = Isize, NEW e, Echoing(e),
         NEW q \in Int, q + t.x = e.o + e.k, t.x < Margin,
         NEW n \in Nat, n = Min2(Len(e.b) - e.k, Margin - t.x),
         NEW m \in Int, t.x + n + m <= Margin,
         Begins(t.line[Isize], e, q, t.x),
         \A i \in Columns : i > t.x + n /\ i > t.x + n + m => t.line[Isize][i] = Blank
  PROVE  RowIs(Drawn(t, From(e.b, e.k, n), m).line[Isize], e, q)
<1> DEFINE s == From(e.b, e.k, n)
           l == Drawn(t, s, m).line[Isize]
<1>1. t.x \in 0..Margin /\ Margin \in Nat /\ Columns = 1..(Margin + 1)
  BY MarginIs DEF Terminals, Anywhere, Columns
<1>2. e.b \in Seq(Chars) /\ e.k \in Nat /\ e.o \in Nat /\ e.k <= Len(e.b) /\ Len(e.b) \in Nat
  BY SaneIs, EchoingIs
<1>3. n <= Len(e.b) - e.k /\ n <= Margin - t.x /\ (n = Len(e.b) - e.k \/ n = Margin - t.x)
  <2>1. Len(e.b) - e.k \in Int
    BY <1>2
  <2>2. Margin - t.x \in Int
    BY <1>1
  <2> QED BY <2>1, <2>2, MinIs
<1>4. s \in Seq(Chars) /\ Len(s) = n /\ \A i \in 1..n : s[i] = e.b[e.k + i]
  <2>1. e.k + n <= Len(e.b)
    BY <1>2, <1>3
  <2> QED BY <1>2, <2>1, FromIs
<1> HIDE DEF s
<1>5. t.x + Len(s) <= Margin /\ t.x + Len(s) + m <= Margin
  BY <1>1, <1>3, <1>4
<1>6. \A i \in Columns :
              /\ i <= t.x => l[i] = t.line[Isize][i]
              /\ i > t.x /\ i <= t.x + n => l[i] = s[i - t.x]
              /\ i > t.x + n => l[i] \in {Blank, t.line[Isize][i]}
              /\ i > t.x + n /\ i <= t.x + n + m => l[i] = Blank
  BY <1>4, <1>5, DrawnIs
<1> HIDE DEF l
<1>7. ASSUME NEW i \in Columns, i > 0
      PROVE  l[i] = IF i <= Margin THEN Glyph(e, q + i) ELSE Blank
  <2>1. i \in Int
    BY <1>1
  <2>7. t.x \in Int
    BY <1>1
  <2>8. e.k \in Nat
    BY <1>2
  <2>9. e.o \in Nat
    BY <1>2
  <2>10. Len(e.b) \in Nat
    BY <1>2
  <2>5. i \in 1..(Margin + 1)
    BY <1>1
  <2>6. q + t.x = e.o + e.k
    OBVIOUS
  <2>2. CASE i <= t.x
    <3>1. i \in 1..t.x /\ i <= Margin
      BY <1>1, <2>1, <2>2
    <3>2. l[i] = t.line[Isize][i]
      BY <1>6, <2>2
    <3> QED BY <3>1, <3>2 DEF Begins
  <2>3. CASE i > t.x /\ i <= t.x + n
    <3>6. i - t.x \in 1..n /\ i <= Margin
      BY <1>1, <1>3, <2>1, <2>3
    <3>7. ~(q + i <= e.o)
      BY ONLY q \in Int, <2>1, <2>7, <2>8, <2>9, <2>6, <2>3, n \in Nat
    <3>8. (q + i) - e.o = e.k + (i - t.x)
      BY ONLY q \in Int, <2>1, <2>7, <2>8, <2>9, <2>6
    <3>9. (q + i) - e.o <= Len(e.b)
      <4>1. n <= Len(e.b) - e.k /\ i - t.x <= n
        BY <1>3, <3>6
      <4> QED BY ONLY <2>1, <2>7, <2>8, <2>10, n \in Nat, <3>8, <4>1
    <3>1. i - t.x \in 1..n /\ i <= Margin /\ ~(q + i <= e.o) /\ (q + i) - e.o <= Len(e.b)
          /\ (q + i) - e.o = e.k + (i - t.x)
      BY <3>6, <3>7, <3>8, <3>9
    <3>2. l[i] = e.b[e.k + (i - t.x)]
      BY <1>4, <1>6, <2>3, <3>1
    <3>3. (q + i) - e.o <= Len(e.b)
      BY <1>2, <2>1, <3>1, <1>3
    <3>5. q + i \in Nat
      BY ONLY q \in Int, <2>1, <2>7, <2>8, <2>9, <2>6, <2>3, n \in Nat
    <3>4. Glyph(e, q + i) = e.b[(q + i) - e.o]
      BY <3>1, <3>3, <3>5, EchoingIs
    <3> QED BY <3>1, <3>2, <3>4
  <2>4. CASE i > t.x + n
    <3>1. l[i] = Blank
      <4>1. CASE i <= t.x + n + m
        BY <1>6, <2>4, <4>1
      <4>2. CASE i > t.x + n + m
        BY <1>6, <2>4, <4>2
      <4>3. i <= t.x + n + m \/ i > t.x + n + m
        BY ONLY <2>1, <2>7, n \in Nat, m \in Int
      <4> QED BY <4>1, <4>2, <4>3
    <3>2. ASSUME i <= Margin PROVE Glyph(e, q + i) = Blank
      <4>1. n = Len(e.b) - e.k
        BY <1>1, <1>3, <2>1, <2>4, <3>2
      <4>4. ~(q + i <= e.o)
        BY ONLY q \in Int, <2>1, <2>7, <2>8, <2>9, <2>6, <2>4, n \in Nat
      <4>5. (q + i) - e.o = e.k + (i - t.x)
        BY ONLY q \in Int, <2>1, <2>7, <2>8, <2>9, <2>6
      <4>6. ~(e.k + (i - t.x) <= Len(e.b))
        BY ONLY <2>1, <2>7, <2>8, <2>10, <2>4, n \in Nat, <4>1
      <4>2. ~(q + i <= e.o) /\ ~((q + i) - e.o <= Len(e.b))
        BY <4>4, <4>5, <4>6
      <4>3. q + i \in Nat
        BY ONLY q \in Int, <2>1, <2>7, <2>8, <2>9, <2>6, <2>4, n \in Nat
      <4> QED BY <4>2, <4>3, EchoingIs
    <3> QED BY <3>1, <3>2
  <2>11. i <= t.x \/ (i > t.x /\ i <= t.x + n) \/ i > t.x + n
    BY ONLY <2>1, <2>7, n \in Nat
  <2> QED BY <2>2, <2>3, <2>4, <2>11
<1> QED BY <1>7 DEF RowIs, Ends, l, s

-----------------------------------------------------------------------------
(* input_puts().                                                           *)

\* What the drawing functions take and return.
States == [t : Terminals, icol : 0..(Margin - 1)]

\* A character is written, with a row more if it is the last of its row.
Typed(x, a) ==
  LET c == (x.icol + 1) % Margin
      t == Put(x.t, <<a>>)
  IN D(IF c = 0 THEN Iscr_fwd(t) ELSE t, c)

LEMMA TypedType ==
  ASSUME Isize \in Nat \ {0}, NEW x \in States, NEW a \in Chars
  PROVE  Typed(x, a) \in States
<1> DEFINE c == (x.icol + 1) % Margin
           t == Put(x.t, <<a>>)
<1>1. x.t \in Terminals /\ x.icol \in Int
  BY MarginIs DEF States
<1>2. c \in 0..(Margin - 1)
  BY <1>1, ModIs
<1>3. t \in Terminals
  <2>1. <<a>> \in Seq(Chars)
    OBVIOUS
  <2> QED BY <1>1, <2>1, PutIs
<1>4. t \in Anywhere
  BY <1>3 DEF Terminals
<1> HIDE DEF c, t
<1>5. Iscr_fwd(t) \in Terminals
  BY <1>4, Iscr_fwdIs
<1>6. (IF c = 0 THEN Iscr_fwd(t) ELSE t) \in Terminals
  BY <1>3, <1>5
<1>7. D(IF c = 0 THEN Iscr_fwd(t) ELSE t, c) \in States
  BY <1>2, <1>6 DEF D, States
<1> QED BY <1>7 DEF Typed, c, t

LEMMA Puts ==
  ASSUME Isize \in Nat \ {0}, NEW d \in States, NEW e, Echoing(e), NEW s \in Seq(Chars)
  PROVE  \E f \in [0..Len(s) -> States] :
           /\ f[0] = d /\ \A i \in 1..Len(s) : f[i] = Typed(f[i - 1], s[i])
           /\ input_puts(d, e, s) = Rest(f[Len(s)], e)
<1> DEFINE n == Len(s)
           g == [p \in States \X (1..n) |-> Typed(p[1], s[p[2]])]
<1>1. n \in Nat /\ \A i \in 1..n : s[i] \in Chars
  OBVIOUS
<1>2. g \in [States \X (1..n) -> States]
  BY <1>1, TypedType
<1>3. \A x \in States, i \in 1..n : g[<<x, i>>] = Typed(x, s[i])
  OBVIOUS
<1> HIDE DEF g
<1>4. PICK f \in [0..n -> States] : f[0] = d /\ \A i \in 1..n : f[i] = g[<<f[i - 1], i>>]
  <2>1. Stepping(States, n, d, g)
    BY <1>1, <1>2 DEF Stepping
  <2> HIDE DEF n
  <2> QED BY ONLY <2>1, Iterate
<1>5. ASSUME NEW i \in 1..n PROVE f[i] = Typed(f[i - 1], s[i])
  <2>1. i - 1 \in 0..n /\ f[i - 1] \in States
    BY <1>1, <1>4
  <2> QED BY <1>3, <1>4, <2>1
<1>6. f = [i \in 0..n |-> IF i = 0 THEN d ELSE Typed(f[i - 1], s[i])]
  BY <1>1, <1>4, <1>5
<1> DEFINE put[i \in 0..Len(s)] ==
             IF i = 0 THEN d
             ELSE LET c == (put[i - 1].icol + 1) % Margin
                      t == Put(put[i - 1].t, <<s[i]>>)
                  IN D(IF c = 0 THEN Iscr_fwd(t) ELSE t, c)
<1>7. put = [i \in 0..n |-> IF i = 0 THEN d ELSE Typed(put[i - 1], s[i])]
  BY <1>6 DEF put, Typed
<1>8. input_puts(d, e, s) = Rest(put[Len(s)], e)
  BY DEF input_puts, put, Echoing
<1> HIDE DEF put
<1>9. put[0] = d
  BY <1>1, <1>7
<1>10. ASSUME NEW i \in 1..n PROVE put[i] = Typed(put[i - 1], s[i])
  BY <1>1, <1>7
<1> DEFINE S == {i \in 0..n : put[i] \in States}
<1>11. 0 \in S
  BY <1>1, <1>9
<1>12. ASSUME NEW i \in 1..n, i - 1 \in S PROVE i \in S
  <2>1. i \in 0..n /\ put[i - 1] \in States /\ s[i] \in Chars
    BY <1>1, <1>12
  <2> QED BY <1>10, <2>1, TypedType
<1>13. \A i \in 0..n : i \in S
  <2> HIDE DEF S, n
  <2> QED BY ONLY <1>1, <1>11, <1>12, Upward
<1>14. put \in [0..n -> States]
  BY <1>7, <1>13
<1> QED BY <1>8, <1>9, <1>10, <1>14
\* After p characters in all: the terminal, and what is on it, where behind the
\* cursor only what was there before z remains.
Typing(x, p) == x \in States /\ x.t.y = Isize /\ x.t.x = x.icol /\ x.icol = p % Margin
Trail(x, e, p, z) ==
  /\ Over(x.t, e, p - x.icol) /\ Begins(x.t.line[Isize], e, p - x.icol, x.icol)
  /\ \A j \in Columns : j > x.icol /\ (j = Margin + 1 \/ (p - x.icol) + j > z)
                          => x.t.line[Isize][j] = Blank

LEMMA NextColumn ==
  ASSUME NEW p \in Nat
  PROVE  /\ (p + 1) % Margin = ((p % Margin) + 1) % Margin
         /\ (p % Margin) + 1 < Margin => (p + 1) % Margin = (p % Margin) + 1
         /\ (p % Margin) + 1 = Margin => (p + 1) % Margin = 0
         /\ (p % Margin) + 1 <= Margin /\ p % Margin \in Nat
<1> DEFINE c == p % Margin
           q == p \div Margin
<1>1. Margin \in Nat /\ Margin > 0
  BY MarginIs
<1>2. c \in 0..(Margin - 1) /\ q \in Int /\ p = Margin * q + c
  <2>1. p \in Int
    OBVIOUS
  <2> QED BY <2>1, ModIs
<1>3. (p + 1) % Margin = (c + 1) % Margin
  BY ModAdd
<1> HIDE DEF c, q
<1>4. c + 1 < Margin => (c + 1) % Margin = c + 1
  <2> SUFFICES ASSUME c + 1 < Margin PROVE (c + 1) % Margin = c + 1
    OBVIOUS
  <2>1. c + 1 \in 0..(Margin - 1) /\ Margin * 0 + (c + 1) = c + 1
    BY <1>1, <1>2
  <2> QED BY <2>1, ModUnique
<1>5. c + 1 = Margin => (c + 1) % Margin = 0
  <2> SUFFICES ASSUME c + 1 = Margin PROVE (c + 1) % Margin = 0
    OBVIOUS
  <2>1. 0 \in 0..(Margin - 1) /\ Margin * 1 + 0 = c + 1
    BY <1>1
  <2> QED BY <2>1, ModUnique
<1>6. c + 1 <= Margin /\ c \in Nat
  BY <1>1, <1>2
<1> QED BY <1>3, <1>4, <1>5, <1>6 DEF c

LEMMA TypedIs ==
  ASSUME Isize \in Nat \ {0}, NEW p \in Nat, NEW x, Typing(x, p), NEW a \in Chars
  PROVE  /\ Typing(Typed(x, a), p + 1)
         /\ \A e, z : Trail(x, e, p, z) /\ z \in Int /\ a = Glyph(e, p + 1)
                        => Trail(Typed(x, a), e, p + 1, z)
<1> DEFINE c == x.icol
           t == Put(x.t, <<a>>)
           y == Typed(x, a)
           l == t.line[Isize]
<1>1. x \in States /\ x.t \in Terminals /\ x.t.y = Isize /\ x.t.x = c /\ c = p % Margin
  BY DEF Typing, States
<1>2. Margin \in Nat /\ c \in Nat /\ c + 1 <= Margin /\ Columns = 1..(Margin + 1)
  BY <1>1, MarginIs, NextColumn DEF Columns
<1>3. <<a>> \in Seq(Chars) /\ Len(<<a>>) = 1 /\ <<a>>[1] = a
  OBVIOUS
<1>4. /\ t \in Terminals /\ t.y = Isize /\ t.x = c + 1 /\ Aloft(x.t, t)
      /\ \A i \in Columns : l[i] = IF i - c \in 1..1 THEN <<a>>[i - c] ELSE x.t.line[Isize][i]
  <2>1. x.t.x + Len(<<a>>) <= Margin
    BY <1>1, <1>2, <1>3
  <2> QED BY <1>1, <1>3, <2>1, PutHere
<1>5. \A i \in Columns : l[i] = IF i = c + 1 THEN a ELSE x.t.line[Isize][i]
  <2> SUFFICES ASSUME NEW i \in Columns
               PROVE  l[i] = IF i = c + 1 THEN a ELSE x.t.line[Isize][i]
    OBVIOUS
  <2> HIDE DEF c, l
  <2>1. i \in Int /\ (i - c \in 1..1 <=> i = c + 1)
    BY <1>2
  <2>2. CASE i = c + 1
    <3>1. i - c = 1
      BY <1>2, <2>1, <2>2
    <3> QED BY <1>3, <1>4, <2>1, <2>2, <3>1
  <2> QED BY <1>4, <2>1, <2>2
<1>6. y = D(IF (c + 1) % Margin = 0 THEN Iscr_fwd(t) ELSE t, (c + 1) % Margin)
  BY DEF Typed
<1>7. (p + 1) % Margin = (c + 1) % Margin
  BY <1>1, NextColumn
<1>8. y \in States
  BY <1>1, TypedType
<1>9. p + 1 \in Nat /\ p - c = (p + 1) - (c + 1)
  BY <1>2
<1> HIDE DEF c, t, y, l
<1>10. CASE c + 1 < Margin
  <2>1. (c + 1) % Margin = c + 1 /\ c + 1 # 0
    BY <1>1, <1>2, <1>7, <1>10, NextColumn
  <2>2. y.t = t /\ y.icol = c + 1
    BY <1>6, <2>1 DEF D
  <2>3. Typing(y, p + 1)
    BY <1>4, <1>7, <1>8, <2>1, <2>2 DEF Typing
  <2>4. ASSUME NEW e, NEW z \in Int, Trail(x, e, p, z), a = Glyph(e, p + 1)
        PROVE  Trail(y, e, p + 1, z)
    <3>1. (p + 1) - y.icol = p - c
      BY <1>9, <2>2
    <3>2. Over(t, e, p - c)
      BY <1>4, <2>4, OverSame DEF Trail, Aloft, c
    <3>3. Begins(l, e, p - c, c + 1)
      <4> SUFFICES ASSUME NEW i \in 1..(c + 1) PROVE l[i] = Glyph(e, (p - c) + i)
        BY DEF Begins
      <4>1. i \in Columns /\ i \in Int
        BY <1>2
      <4>2. CASE i = c + 1
        <5>1. (p - c) + i = p + 1
          BY <1>2, <4>2
        <5> QED BY <1>5, <2>4, <4>1, <4>2, <5>1
      <4>3. CASE i # c + 1
        <5>1. i \in 1..c
          BY <1>2, <4>3
        <5>2. x.t.line[Isize][i] = Glyph(e, (p - c) + i)
          BY <2>4, <5>1 DEF Trail, Begins, c
        <5> QED BY <1>5, <4>1, <4>3, <5>2
      <4> QED BY <4>2, <4>3
    <3>4. ASSUME NEW j \in Columns, j > c + 1, j = Margin + 1 \/ (p - c) + j > z
          PROVE  l[j] = Blank
      <4>1. j > c /\ j # c + 1
        BY <1>2, <3>4
      <4>2. x.t.line[Isize][j] = Blank
        BY <2>4, <3>4, <4>1 DEF Trail, c
      <4> QED BY <1>5, <4>1, <4>2
    <3> QED BY <2>2, <3>1, <3>2, <3>3, <3>4 DEF Trail, l
  <2> QED BY <2>3, <2>4 DEF y
<1>11. CASE c + 1 = Margin
  <2>1. (c + 1) % Margin = 0
    BY <1>1, <1>7, <1>11, NextColumn
  <2>2. y.t = Iscr_fwd(t) /\ y.icol = 0 /\ t \in Anywhere
    BY <1>4, <1>6, <2>1 DEF D, Terminals
  <2>3. Typing(y, p + 1)
    <3>1. Iscr_fwd(t).y = Isize /\ Iscr_fwd(t).x = 0
      BY <2>2, Iscr_fwdIs
    <3> QED BY <1>7, <1>8, <2>1, <2>2, <3>1 DEF Typing
  <2>4. ASSUME NEW e, NEW z \in Int, Trail(x, e, p, z), a = Glyph(e, p + 1)
        PROVE  Trail(y, e, p + 1, z)
    <3>1. (p + 1) - y.icol = (p - c) + Margin /\ p - c \in Int
      BY <1>2, <1>11, <2>2
    <3>2. Over(t, e, p - c)
      BY <1>4, <2>4, OverSame DEF Trail, Aloft, c
    <3>3. RowIs(l, e, p - c)
      <4> SUFFICES ASSUME NEW i \in Columns
                   PROVE  l[i] = IF i <= Margin THEN Glyph(e, (p - c) + i) ELSE Blank
        BY DEF RowIs, Ends
      <4>1. i \in 1..(Margin + 1) /\ i \in Int
        BY <1>2
      <4>2. CASE i = c + 1
        <5>1. (p - c) + i = p + 1 /\ i <= Margin
          BY <1>2, <1>11, <4>2
        <5> QED BY <1>5, <2>4, <4>2, <5>1
      <4>3. CASE i \in 1..c
        <5>1. x.t.line[Isize][i] = Glyph(e, (p - c) + i)
          BY <2>4, <4>3 DEF Trail, Begins, c
        <5>2. i # c + 1 /\ i <= Margin
          BY <1>2, <4>3
        <5> QED BY <1>5, <5>1, <5>2
      <4>4. CASE i = Margin + 1
        <5>1. i > c /\ i # c + 1 /\ ~(i <= Margin)
          BY <1>2, <1>11, <4>4
        <5>2. x.t.line[Isize][i] = Blank
          BY <2>4, <4>4, <5>1 DEF Trail, c
        <5> QED BY <1>5, <5>1, <5>2
      <4>5. i = c + 1 \/ i \in 1..c \/ i = Margin + 1
        BY <1>2, <1>11, <4>1
      <4> QED BY <4>2, <4>3, <4>4, <4>5
    <3>4. Full(t, e, p - c)
      BY <3>2, <3>3 DEF Full, l
    <3>5. Over(y.t, e, (p - c) + Margin) /\ Clean(y.t.line[Isize], 0)
      BY <2>2, <3>1, <3>4, ScrollUp
    <3> QED BY <2>2, <3>1, <3>5 DEF Trail, Begins, Clean
  <2> QED BY <2>3, <2>4 DEF y
<1> QED BY <1>2, <1>10, <1>11

-----------------------------------------------------------------------------
(* Lines that agree up to somewhere.                                       *)

\* A line whose text is not visible.
Hiding(e) == Sane(e) /\ e.echo = FALSE

LEMMA HidingIs ==
  ASSUME NEW e, Hiding(e)
  PROVE  /\ Sane(e) /\ Cur(e) = e.o
         /\ \A j \in Nat : Glyph(e, j) = IF j <= e.o THEN e.p[j] ELSE Blank
<1>1. e.o \in Nat
  BY DEF Hiding, Sane, Lines
<1> QED BY <1>1 DEF Hiding, Cur, Glyph

LEMMA EchoingOrHiding ==
  ASSUME NEW e, Sane(e)
  PROVE  Echoing(e) \/ Hiding(e)
<1>1. e.echo \in BOOLEAN
  BY DEF Sane, Lines
<1> QED BY <1>1 DEF Echoing, Hiding

LEMMA BaseIs ==
  ASSUME NEW e, Sane(e)
  PROVE  /\ Cur(e) \in Nat /\ Cur(e) % Margin \in 0..(Margin - 1) /\ Base(e) \in Nat
         /\ Base(e) + (Cur(e) % Margin) = Cur(e) /\ Base(e) = Margin * (Cur(e) \div Margin)
         /\ Cur(e) - (Cur(e) % Margin) = Base(e)
<1>1. Cur(e) \in Nat
  <2>1. CASE Echoing(e)
    <3>1. e.o \in Nat /\ e.k \in Nat /\ Cur(e) = e.o + e.k
      BY <2>1, SaneIs, EchoingIs
    <3> QED BY <3>1
  <2>2. CASE Hiding(e)
    BY <2>2, SaneIs, HidingIs
  <2> QED BY <2>1, <2>2, EchoingOrHiding
<1> DEFINE c == Cur(e)
           r == c % Margin
           q == c \div Margin
<1>2. Margin \in Nat /\ Margin > 0
  BY MarginIs
<1>3. r \in 0..(Margin - 1) /\ q \in Int /\ c = Margin * q + r
  <2>1. c \in Int
    BY <1>1
  <2> HIDE DEF c
  <2> QED BY <2>1, ModIs
<1> HIDE DEF c, r, q
<1>4. c - r = Margin * q
  BY <1>2, <1>3
<1>5. q >= 0
  <2> SUFFICES ASSUME q <= -1 PROVE FALSE
    BY <1>3
  <2>1. Margin * q <= -Margin
    BY <1>2, <1>3
  <2> QED BY <1>1, <1>2, <1>3, <2>1 DEF c
<1>6. Margin * q \in Nat
  BY <1>2, <1>3, <1>5
<1>7. Base(e) = c - r
  BY DEF Base, c, r
<1>8. Base(e) \in Nat /\ Base(e) + r = c /\ Base(e) = Margin * q
  BY <1>1, <1>2, <1>3, <1>4, <1>6, <1>7 DEF c
<1> QED BY <1>1, <1>3, <1>7, <1>8 DEF c, r, q

LEMMA OverAgree ==
  ASSUME Isize \in Nat \ {0}, NEW e, NEW f, NEW q \in Int,
         \A j \in 1..q : Glyph(e, j) = Glyph(f, j), NEW t, Over(t, e, q)
  PROVE  Over(t, f, q)
<1> SUFFICES ASSUME NEW r \in 1..(Isize - 1), q >= Offset(r), NEW i \in Columns, i > 0
             PROVE  t.line[r][i] = IF i <= Margin THEN Glyph(f, (q - Offset(r)) + i) ELSE Blank
  BY DEF Over, RowIs, Ends
<1>1. t.line[r][i] = IF i <= Margin THEN Glyph(e, (q - Offset(r)) + i) ELSE Blank
  BY DEF Over, RowIs, Ends
<1>2. Margin \in Nat /\ i \in Nat /\ Offset(r) \in Nat /\ Offset(r) >= Margin
  <2>1. r \in 1..Isize /\ r < Isize
    OBVIOUS
  <2> QED BY <2>1, MarginIs, OffsetIs DEF Columns
<1>3. i <= Margin => (q - Offset(r)) + i \in 1..q
  BY <1>2
<1> QED BY <1>1, <1>3

LEMMA FullAgree ==
  ASSUME Isize \in Nat \ {0}, NEW e, NEW f, NEW q \in Int,
         \A j \in 1..(q + Margin) : Glyph(e, j) = Glyph(f, j), NEW t, Full(t, e, q)
  PROVE  Full(t, f, q)
<1>1. Margin \in Nat
  BY MarginIs
<1>2. Over(t, f, q)
  <2>1. \A j \in 1..q : Glyph(e, j) = Glyph(f, j)
    BY <1>1
  <2> QED BY <2>1, OverAgree DEF Full
<1>3. ASSUME q >= 0, NEW i \in Columns, i > 0
      PROVE  t.line[Isize][i] = IF i <= Margin THEN Glyph(f, q + i) ELSE Blank
  <2>1. t.line[Isize][i] = IF i <= Margin THEN Glyph(e, q + i) ELSE Blank
    BY <1>3 DEF Full, RowIs, Ends
  <2>2. i <= Margin => q + i \in 1..(q + Margin)
    BY <1>1, <1>3 DEF Columns
  <2> QED BY <2>1, <2>2
<1> QED BY <1>2, <1>3 DEF Full, RowIs, Ends

\* What a function has to do: r shows f if d showed e.
Keeps(d, e, r, f) == Placed(r, f) /\ (Seen(d, e) => Seen(r, f))

\* The prompt alone.
LEMMA HidingSame ==
  ASSUME Isize \in Nat \ {0}, NEW e, Hiding(e), NEW f, Hiding(f), e.p = f.p, e.o = f.o, NEW d, Placed(d, e)
  PROVE  Keeps(d, e, d, f)
<1>1. Cur(e) = Cur(f) /\ Base(e) = Base(f)
  BY HidingIs DEF Base
<1>2. Placed(d, f)
  BY <1>1 DEF Placed
<1>3. ASSUME Seen(d, e) PROVE Seen(d, f)
  <2>1. ASSUME NEW j \in 1..(Base(e) + Margin) PROVE Glyph(e, j) = Glyph(f, j)
    <3>1. j \in Nat
      BY BaseIs, HidingIs, MarginIs
    <3> QED BY <3>1, HidingIs
  <2>2. Base(e) \in Int
    BY BaseIs, HidingIs
  <2> QED BY <1>1, <1>3, <2>1, <2>2, FullAgree DEF Seen
<1> QED BY <1>2, <1>3 DEF Keeps

LEMMA RestIs ==
  ASSUME Isize \in Nat \ {0}, NEW e, Echoing(e), NEW d, Typing(d, Cur(e))
  PROVE  /\ Placed(Rest(d, e), e)
         /\ Trail(d, e, Cur(e), e.o + Len(e.b)) => Seen(Rest(d, e), e)
<1> DEFINE n == Min2(Len(e.b) - e.k, Margin - d.icol)
           s == From(e.b, e.k, n)
           t == Drawn(d.t, s, 0)
           c == d.icol
<1>1. /\ e.b \in Seq(Chars) /\ e.k \in Nat /\ e.o \in Nat /\ e.k <= Len(e.b) /\ Len(e.b) \in Nat
      /\ Cur(e) = e.o + e.k
  BY SaneIs, EchoingIs
<1>2. d.t \in Terminals /\ d.t.y = Isize /\ d.t.x = c /\ c = Cur(e) % Margin /\ c \in 0..(Margin - 1)
  BY DEF Typing, States
<1>3. Margin \in Nat /\ c \in Nat /\ c < Margin
  BY <1>2, MarginIs
<1>4. n \in Nat /\ n <= Len(e.b) - e.k /\ n <= Margin - c /\ (n = Len(e.b) - e.k \/ n = Margin - c)
  <2>1. Len(e.b) - e.k \in Int /\ Len(e.b) - e.k >= 0
    BY <1>1
  <2>2. Margin - c \in Int /\ Margin - c >= 0
    BY <1>3
  <2> HIDE DEF c
  <2>3. /\ n \in Int /\ n <= Len(e.b) - e.k /\ n <= Margin - c
        /\ n = Len(e.b) - e.k \/ n = Margin - c
    BY <2>1, <2>2, MinIs DEF c
  <2> QED BY <2>1, <2>2, <2>3
<1>5. s \in Seq(Chars) /\ Len(s) = n
  <2>1. e.k + n <= Len(e.b)
    BY <1>1, <1>4
  <2> HIDE DEF n
  <2> QED BY <1>1, <1>4, <2>1, FromIs
<1>6. Rest(d, e) = D(t, c)
  <2>1. clear_end(Put(d.t, s), 0) = Put(d.t, s)
    BY DEF clear_end
  <2> QED BY <1>2, <1>5, <2>1 DEF Rest, Drawn
<1> HIDE DEF n, s, t, c
<1>7. t \in Terminals /\ t.y = Isize /\ t.x = c /\ Aloft(d.t, t)
  <2>1. d.t.x + Len(s) <= Margin /\ d.t.x + Len(s) + 0 <= Margin
    BY <1>2, <1>3, <1>4, <1>5
  <2>2. 0 \in Int
    OBVIOUS
  <2> QED BY ONLY Isize \in Nat \ {0}, <1>2, <1>5, <2>1, <2>2, DrawnIs DEF t
<1>8. D(t, c).t = t /\ D(t, c).icol = c
  BY DEF D
<1>9. Placed(Rest(d, e), e)
  BY <1>2, <1>6, <1>7, <1>8 DEF Placed
<1>10. ASSUME Trail(d, e, Cur(e), e.o + Len(e.b)) PROVE Seen(Rest(d, e), e)
  <2>1. Cur(e) - c = Base(e) /\ Base(e) \in Int /\ Base(e) + c = e.o + e.k /\ Base(e) >= 0
    BY <1>1, <1>2, BaseIs, EchoingIs
  <2>2. /\ Over(d.t, e, Base(e)) /\ Begins(d.t.line[Isize], e, Base(e), c)
        /\ \A j \in Columns : j > c /\ (j = Margin + 1 \/ Base(e) + j > e.o + Len(e.b))
                                => d.t.line[Isize][j] = Blank
    BY <1>10, <2>1 DEF Trail, c
  <2>3. Over(t, e, Base(e))
    BY <1>7, <2>2, OverSame DEF Aloft
  <2>4. ASSUME NEW i \in Columns, i > d.t.x + n, i > d.t.x + n + 0 PROVE d.t.line[Isize][i] = Blank
    <3>1. i \in Nat /\ i > c /\ i <= Margin + 1
      BY <1>2, <1>3, <1>4, <2>4 DEF Columns
    <3>2. n = Len(e.b) - e.k => Base(e) + i > e.o + Len(e.b)
      <4>1. i > c + n /\ i \in Int /\ c \in Int /\ n \in Int
        BY <1>2, <1>3, <1>4, <2>4, <3>1
      <4>2. Base(e) \in Int /\ Base(e) + c = e.o + e.k /\ e.o \in Int /\ e.k \in Int /\ Len(e.b) \in Int
        BY <1>1, <2>1
      <4>3. Base(e) + i > e.o + e.k + n
        <5>1. i \in Int
          BY <4>1
        <5>2. c \in Int
          BY <4>1
        <5>3. n \in Int
          BY <4>1
        <5>4. Base(e) \in Int
          BY <4>2
        <5>5. e.o + e.k \in Int
          BY <4>2
        <5> DEFINE x == e.o + e.k
                   y == Base(e)
        <5>6. x \in Int /\ y \in Int /\ y + c = x
          BY <4>2, <5>5
        <5>7. i > c + n
          BY <4>1
        <5> HIDE DEF x, y
        <5>8. y + i > x + n
          BY ONLY <5>1, <5>2, <5>3, <5>6, <5>7
        <5> QED BY <5>8 DEF x, y
      <4> DEFINE w == Base(e) + i
                 x == Len(e.b)
                 y == e.k
                 z == e.o
      <4>4. w \in Int /\ x \in Int /\ y \in Int /\ z \in Int /\ n \in Int /\ w > z + y + n
        BY <4>1, <4>2, <4>3
      <4> HIDE DEF w, x, y, z
      <4>5. n = x - y => w > z + x
        BY ONLY <4>4
      <4> QED BY <4>5 DEF w, x, y, z
    <3>3. n = Margin - c => i = Margin + 1
      BY <1>2, <1>3, <2>4, <3>1
    <3> QED BY <1>4, <2>2, <3>1, <3>2, <3>3
  <2>5. RowIs(t.line[Isize], e, Base(e))
    <3>1. n = Min2(Len(e.b) - e.k, Margin - d.t.x) /\ d.t.x + n + 0 <= Margin /\ d.t.x < Margin
      BY <1>2, <1>3, <1>4 DEF n, c
    <3>2. Base(e) + d.t.x = e.o + e.k /\ Begins(d.t.line[Isize], e, Base(e), d.t.x)
      BY <1>2, <2>1, <2>2
    <3>3. 0 \in Int
      OBVIOUS
    <3> QED BY ONLY Isize \in Nat \ {0}, Echoing(e), <1>2, <1>4, <2>1, <2>4, <3>1, <3>2, <3>3, DrawnRow DEF t, s
  <2> QED BY <1>6, <1>8, <2>3, <2>5 DEF Seen, Full
<1> QED BY <1>9, <1>10

\* The text s before the cursor.
Splice(e, s) ==
  [e EXCEPT !.b = From(e.b, 0, e.k) \o s \o From(e.b, e.k, Len(e.b) - e.k), !.k = e.k + Len(s)]

LEMMA SpliceIs ==
  ASSUME NEW e, Sane(e), NEW s \in Seq(Chars)
  PROVE  LET f == Splice(e, s) IN
         /\ Sane(f) /\ Len(f.b) = Len(e.b) + Len(s) /\ f.k = e.k + Len(s)
         /\ f.p = e.p /\ f.o = e.o /\ f.echo = e.echo
         /\ \A i \in 1..e.k : f.b[i] = e.b[i]
         /\ \A i \in 1..Len(s) : f.b[e.k + i] = s[i]
         /\ \A i \in 1..(Len(e.b) - e.k) : f.b[e.k + Len(s) + i] = e.b[e.k + i]
<1> DEFINE f == Splice(e, s)
           m == Len(e.b) - e.k
           x == From(e.b, 0, e.k)
           z == From(e.b, e.k, m)
           b == x \o s \o z
<1>1. e.b \in Seq(Chars) /\ e.k \in Nat /\ Len(e.b) \in Nat /\ m \in Nat /\ e.k + m = Len(e.b)
      /\ Len(s) \in Nat
  BY SaneIs
<1>2. x \in Seq(Chars) /\ Len(x) = e.k /\ \A i \in 1..e.k : x[i] = e.b[i]
  <2>1. 0 \in Nat /\ 0 + e.k <= Len(e.b)
    BY <1>1
  <2>2. /\ x \in Seq(Chars) /\ Len(x) = e.k /\ \A i \in 1..e.k : x[i] = e.b[0 + i]
    BY <1>1, <2>1, FromIs
  <2>3. \A i \in 1..e.k : 0 + i = i
    OBVIOUS
  <2> QED BY <2>2, <2>3
<1>3. z \in Seq(Chars) /\ Len(z) = m /\ \A i \in 1..m : z[i] = e.b[e.k + i]
  <2> HIDE DEF m
  <2>1. e.k + m <= Len(e.b)
    BY <1>1
  <2> QED BY <1>1, <2>1, FromIs
<1> HIDE DEF m, x, z
<1>4. /\ b \in Seq(Chars) /\ Len(b) = e.k + Len(s) + m
      /\ \A i \in 1..e.k : b[i] = x[i]
      /\ \A i \in 1..Len(s) : b[e.k + i] = s[i]
      /\ \A i \in 1..m : b[e.k + Len(s) + i] = z[i]
  <2> DEFINE w == x \o s
  <2>1. w \in Seq(Chars) /\ Len(w) = e.k + Len(s)
        /\ \A i \in 1..(e.k + Len(s)) : w[i] = IF i <= e.k THEN x[i] ELSE s[i - e.k]
    <3>1. /\ x \o s \in Seq(Chars) /\ Len(x \o s) = Len(x) + Len(s)
          /\ \A i \in 1..(Len(x) + Len(s)) : (x \o s)[i] = IF i <= Len(x) THEN x[i] ELSE s[i - Len(x)]
      BY <1>2, ConcatProperties
    <3> QED BY <1>2, <3>1
  <2>2. /\ w \o z \in Seq(Chars) /\ Len(w \o z) = Len(w) + m
        /\ \A i \in 1..(Len(w) + m) : (w \o z)[i] = IF i <= Len(w) THEN w[i] ELSE z[i - Len(w)]
    <3> HIDE DEF w
    <3> QED BY <1>3, <2>1, ConcatProperties
  <2>3. b = w \o z
    OBVIOUS
  <2> HIDE DEF w, b
  <2>4. \A i \in 1..(e.k + Len(s) + m) :
          b[i] = IF i <= e.k + Len(s) THEN w[i] ELSE z[i - (e.k + Len(s))]
    BY <1>1, <2>1, <2>2, <2>3
  <2>5. ASSUME NEW i \in 1..e.k PROVE b[i] = x[i]
    <3>1. i \in 1..(e.k + Len(s) + m) /\ i \in 1..(e.k + Len(s)) /\ i <= e.k
      BY <1>1
    <3> QED BY <2>1, <2>4, <3>1
  <2>6. ASSUME NEW i \in 1..Len(s) PROVE b[e.k + i] = s[i]
    <3>1. /\ e.k + i \in 1..(e.k + Len(s) + m) /\ e.k + i \in 1..(e.k + Len(s)) /\ ~(e.k + i <= e.k)
          /\ (e.k + i) - e.k = i
      BY <1>1
    <3> QED BY <2>1, <2>4, <3>1
  <2>7. ASSUME NEW i \in 1..m PROVE b[e.k + Len(s) + i] = z[i]
    <3>1. /\ e.k + Len(s) + i \in 1..(e.k + Len(s) + m) /\ ~(e.k + Len(s) + i <= e.k + Len(s))
          /\ (e.k + Len(s) + i) - (e.k + Len(s)) = i
      BY <1>1
    <3> QED BY <2>4, <3>1
  <2> QED BY <2>1, <2>2, <2>3, <2>5, <2>6, <2>7
<1>5. f = [e EXCEPT !.b = b, !.k = e.k + Len(s)]
  BY DEF Splice, b, x, z, m
<1> HIDE DEF b, f
<1>6. e \in Lines /\ e.o <= Len(e.p) /\ e.k + Len(s) \in Nat
  BY <1>1 DEF Sane
<1>7. f \in Lines /\ f.b = b /\ f.k = e.k + Len(s) /\ f.p = e.p /\ f.o = e.o /\ f.echo = e.echo
  BY <1>4, <1>5, <1>6 DEF Lines
<1>8. Sane(f)
  BY <1>1, <1>4, <1>6, <1>7 DEF Sane
<1>9. Len(f.b) = Len(e.b) + Len(s)
  BY <1>1, <1>4, <1>7
<1>10. /\ \A i \in 1..e.k : f.b[i] = e.b[i]
       /\ \A i \in 1..Len(s) : f.b[e.k + i] = s[i]
       /\ \A i \in 1..m : f.b[e.k + Len(s) + i] = e.b[e.k + i]
  BY <1>2, <1>3, <1>4, <1>7
<1> QED BY <1>7, <1>8, <1>9, <1>10 DEF f, m

\* What is after the cursor.
LEMMA SpliceRest ==
  ASSUME NEW e, Sane(e), NEW s \in Seq(Chars), NEW d
  PROVE  d.icol \in 0..Margin => Rest(d, e) = Rest(d, Splice(e, s))
<1> SUFFICES ASSUME d.icol \in 0..Margin PROVE Rest(d, e) = Rest(d, Splice(e, s))
  OBVIOUS
<1> DEFINE f == Splice(e, s)
           m == Len(e.b) - e.k
           n == Min2(m, Margin - d.icol)
<1>1. /\ Sane(f) /\ Len(f.b) = Len(e.b) + Len(s) /\ f.k = e.k + Len(s)
      /\ \A i \in 1..m : f.b[e.k + Len(s) + i] = e.b[e.k + i]
  BY SpliceIs
<1>2. e.b \in Seq(Chars) /\ e.k \in Nat /\ Len(e.b) \in Nat /\ m \in Nat /\ Len(s) \in Nat
      /\ f.b \in Seq(Chars) /\ f.k \in Nat /\ Margin \in Nat
  BY <1>1, SaneIs, MarginIs
<1> HIDE DEF f
<1>3. Len(f.b) - f.k = m
  BY <1>1, <1>2
<1>4. n \in Nat /\ n <= m
  <2>1. Margin - d.icol \in Int /\ Margin - d.icol >= 0
    BY <1>2
  <2>2. m \in Int /\ m >= 0
    BY <1>2
  <2> HIDE DEF m
  <2>3. n \in Int /\ n <= m /\ (n = m \/ n = Margin - d.icol)
    BY <2>1, <2>2, MinIs
  <2> QED BY <2>1, <2>2, <2>3
<1>5. From(e.b, e.k, n) = From(f.b, f.k, n)
  <2> HIDE DEF n
  <2>1. e.k + n <= Len(e.b) /\ f.k + n <= Len(f.b)
    <3>1. n \in Int /\ n <= Len(e.b) - e.k /\ n <= Len(f.b) - f.k
      BY <1>3, <1>4
    <3>2. e.k \in Int /\ f.k \in Int /\ Len(e.b) \in Int /\ Len(f.b) \in Int
      BY <1>2
    <3> QED BY ONLY <3>1, <3>2
  <2> DEFINE x == From(e.b, e.k, n)
             y == From(f.b, f.k, n)
  <2>2. x \in Seq(Chars) /\ Len(x) = n /\ \A i \in 1..n : x[i] = e.b[e.k + i]
    BY <1>2, <1>4, <2>1, FromIs
  <2>3. y \in Seq(Chars) /\ Len(y) = n /\ \A i \in 1..n : y[i] = f.b[f.k + i]
    BY <1>2, <1>4, <2>1, FromIs
  <2> HIDE DEF x, y
  <2>4. \A i \in 1..n : x[i] = y[i]
    <3> TAKE i \in 1..n
    <3>1. i \in 1..m /\ f.k + i = e.k + Len(s) + i
      BY <1>1, <1>2, <1>4
    <3> QED BY <1>1, <2>2, <2>3, <3>1
  <2>5. x = y
    BY <2>2, <2>3, <2>4, SeqEqual
  <2> QED BY <2>5 DEF x, y
<1> QED BY <1>3, <1>5 DEF Rest, f

LEMMA PlacedIs ==
  ASSUME NEW e, Sane(e), NEW d, Placed(d, e)
  PROVE  d \in States /\ Typing(d, Cur(e)) /\ d.icol = Cur(e) % Margin /\ Cur(e) - d.icol = Base(e)
<1>1. Cur(e) % Margin \in 0..(Margin - 1) /\ Cur(e) - (Cur(e) % Margin) = Base(e)
  BY BaseIs
<1>2. /\ d = D(d.t, d.icol) /\ d.t \in Terminals /\ d.t.x = d.icol /\ d.t.y = Isize
      /\ d.icol = Cur(e) % Margin
  BY DEF Placed
<1>3. d \in States
  BY <1>1, <1>2 DEF D, States
<1> QED BY <1>1, <1>2, <1>3 DEF Typing

\* What is seen, after the text before the cursor.
LEMMA SeenTrail ==
  ASSUME Isize \in Nat \ {0}, NEW e, Echoing(e), NEW d, Placed(d, e), Seen(d, e), NEW f,
         \A j \in 1..Cur(e) : Glyph(e, j) = Glyph(f, j)
  PROVE  Trail(d, f, Cur(e), e.o + Len(e.b))
<1> DEFINE q == Base(e)
           c == d.icol
           z == e.o + Len(e.b)
<1>1. Sane(e) /\ Cur(e) \in Nat /\ q \in Nat /\ q + c = Cur(e) /\ c \in 0..(Margin - 1)
  BY BaseIs, EchoingIs, PlacedIs
<1>2. Margin \in Nat /\ Columns = 1..(Margin + 1) /\ e.o \in Nat /\ Len(e.b) \in Nat /\ c \in Nat
  BY <1>1, MarginIs, SaneIs DEF Columns
<1>3. Over(d.t, e, q) /\ RowIs(d.t.line[Isize], e, q)
  BY <1>1 DEF Seen, Full
<1>4. Cur(e) - c = q
  BY <1>1, PlacedIs
<1> HIDE DEF q, c
<1>5. Over(d.t, f, q)
  <2>1. \A j \in 1..q : Glyph(e, j) = Glyph(f, j)
    BY <1>1, <1>2
  <2>2. q \in Int
    BY <1>1
  <2> QED BY <1>3, <2>1, <2>2, OverAgree
<1>6. ASSUME NEW i \in 1..c PROVE d.t.line[Isize][i] = Glyph(f, q + i)
  <2>1. i \in Columns /\ i > 0 /\ i <= Margin /\ q + i \in 1..Cur(e)
    BY <1>1, <1>2
  <2> QED BY <1>3, <2>1 DEF RowIs, Ends
<1>7. ASSUME NEW j \in Columns, j > c, j = Margin + 1 \/ q + j > z
      PROVE  d.t.line[Isize][j] = Blank
  <2>1. j \in Nat /\ j > 0
    BY <1>2
  <2>2. d.t.line[Isize][j] = IF j <= Margin THEN Glyph(e, q + j) ELSE Blank
    BY <1>3, <2>1 DEF RowIs, Ends
  <2>3. CASE j = Margin + 1
    BY <1>2, <2>2, <2>3
  <2>4. CASE q + j > z
    <3>1. q + j \in Nat /\ ~(q + j <= e.o) /\ ~((q + j) - e.o <= Len(e.b))
      BY <1>1, <1>2, <2>1, <2>4
    <3>2. Glyph(e, q + j) = Blank
      BY <3>1, EchoingIs
    <3> QED BY <2>2, <3>2
  <2> QED BY <1>7, <2>3, <2>4
<1> QED BY <1>4, <1>5, <1>6, <1>7 DEF Trail, Begins, c, q

LEMMA TrailMore ==
  ASSUME NEW d, NEW e, NEW p \in Int, NEW y \in Int, NEW z \in Int, y <= z, d.icol \in Int, Trail(d, e, p, y)
  PROVE  Trail(d, e, p, z)
<1>1. \A j \in Columns : j \in Int
  BY MarginIs DEF Columns
<1>2. ASSUME NEW j \in Columns, j > d.icol, j = Margin + 1 \/ (p - d.icol) + j > z
      PROVE  d.t.line[Isize][j] = Blank
  <2>1. j = Margin + 1 \/ (p - d.icol) + j > y
    BY <1>1, <1>2
  <2> QED BY <1>2, <2>1 DEF Trail
<1> QED BY <1>2 DEF Trail

LEMMA input_putsIs ==
  ASSUME Isize \in Nat \ {0}, NEW e, Sane(e), NEW d, Placed(d, e), NEW s \in Seq(Chars)
  PROVE  Keeps(d, e, input_puts(d, e, s), Splice(e, s))
<1> DEFINE f == Splice(e, s)
           n == Len(s)
           z == e.o + Len(e.b)
<1>1. /\ Sane(f) /\ Len(f.b) = Len(e.b) + n /\ f.k = e.k + n
      /\ f.p = e.p /\ f.o = e.o /\ f.echo = e.echo
      /\ \A i \in 1..e.k : f.b[i] = e.b[i]
      /\ \A i \in 1..n : f.b[e.k + i] = s[i]
  BY SpliceIs
<1>2. /\ e.k \in Nat /\ e.o \in Nat /\ e.k <= Len(e.b) /\ Len(e.b) \in Nat /\ n \in Nat
  BY SaneIs
<1> HIDE DEF f
<1>3. CASE Hiding(e)
  <2>1. input_puts(d, e, s) = d
    BY <1>3 DEF input_puts, Hiding
  <2>2. Hiding(f)
    BY <1>1, <1>3 DEF Hiding
  <2> QED BY <1>1, <1>3, <2>1, <2>2, HidingSame DEF f
<1>4. CASE Echoing(e)
  <2>1. Echoing(f)
    BY <1>1, <1>4 DEF Echoing
  <2>2. Cur(e) = e.o + e.k /\ Cur(e) \in Nat /\ Cur(f) = Cur(e) + n
    BY <1>1, <1>2, <1>4, <2>1, EchoingIs
  <2>3. d \in States /\ Typing(d, Cur(e))
    BY PlacedIs
  <2>4. PICK h \in [0..n -> States] :
          /\ h[0] = d /\ \A i \in 1..n : h[i] = Typed(h[i - 1], s[i])
          /\ input_puts(d, e, s) = Rest(h[n], e)
    BY <1>4, <2>3, Puts
  <2>5. ASSUME Seen(d, e) PROVE Trail(d, f, Cur(e), z)
    <3>1. ASSUME NEW j \in 1..Cur(e) PROVE Glyph(e, j) = Glyph(f, j)
      <4>1. j \in Nat
        BY <2>2
      <4>2. CASE j <= e.o
        BY <1>1, <1>4, <2>1, <4>1, <4>2, EchoingIs
      <4>3. CASE j > e.o
        <5>1. j - e.o \in 1..e.k /\ j - e.o <= Len(e.b) /\ j - e.o <= Len(f.b) /\ ~(j <= e.o)
          <6>1. Len(f.b) = Len(e.b) + n
            BY <1>1
          <6>2. j <= e.o + e.k
            BY <2>2
          <6> QED BY ONLY <1>2, <4>1, <4>3, <6>1, <6>2
        <5> QED BY <1>1, <1>4, <2>1, <4>1, <5>1, EchoingIs
      <4> QED BY <1>2, <4>1, <4>2, <4>3
    <3> QED BY <1>4, <2>5, <3>1, SeenTrail
  <2> DEFINE U == {i \in 0..n : /\ Typing(h[i], Cur(e) + i)
                                /\ Seen(d, e) => Trail(h[i], f, Cur(e) + i, z)}
  <2>6. 0 \in U
    <3>1. Cur(e) + 0 = Cur(e) /\ 0 \in 0..n
      BY <1>2, <2>2
    <3> QED BY <2>3, <2>4, <2>5, <3>1
  <2>7. ASSUME NEW i \in 1..n, i - 1 \in U PROVE i \in U
    <3> DEFINE p == Cur(e) + (i - 1)
    <3>1. p \in Nat /\ p + 1 = Cur(e) + i /\ i \in 0..n /\ s[i] \in Chars /\ z \in Int
      <4>1. s[i] \in Chars
        OBVIOUS
      <4>2. z \in Int
        BY <1>2
      <4>3. p \in Nat /\ p + 1 = Cur(e) + i /\ i \in 0..n
        <5> HIDE DEF n
        <5> QED BY ONLY <1>2, <2>2, i \in 1..n DEF p
      <4> QED BY <4>1, <4>2, <4>3
    <3>2. Typing(h[i - 1], p) /\ (Seen(d, e) => Trail(h[i - 1], f, p, z))
      BY <2>7
    <3>3. s[i] = Glyph(f, p + 1)
      <4>1. p + 1 \in Nat /\ ~(p + 1 <= f.o) /\ (p + 1) - f.o = e.k + i /\ e.k + i <= Len(f.b)
        <5>1. Len(f.b) = Len(e.b) + n /\ f.o = e.o
          BY <1>1
        <5>2. p = (e.o + e.k) + (i - 1) /\ i \in 1..n
          BY <2>2
        <5>3. e.o \in Nat
          BY <1>2
        <5>4. e.k \in Nat
          BY <1>2
        <5>5. Len(e.b) \in Nat /\ e.k <= Len(e.b) /\ n \in Nat
          BY <1>2
        <5> HIDE DEF p, n
        <5>6. p + 1 \in Nat /\ p + 1 = (e.o + e.k) + i /\ i >= 1
          BY ONLY <5>2, <5>3, <5>4, <5>5
        <5>7. e.k + i <= Len(f.b)
          BY ONLY <5>1, <5>2, <5>4, <5>5
        <5> QED BY ONLY <5>1, <5>3, <5>4, <5>6, <5>7, i \in 1..n
      <4> QED BY <1>1, <2>1, <4>1, EchoingIs
    <3>4. h[i] = Typed(h[i - 1], s[i])
      BY <2>4
    <3> HIDE DEF p, z
    <3>5. Typing(h[i], p + 1) /\ (Seen(d, e) => Trail(h[i], f, p + 1, z))
      BY <3>1, <3>2, <3>3, <3>4, TypedIs
    <3> QED BY <3>1, <3>5 DEF z
  <2>8. n \in U
    <3>1. n \in 0..n
      BY <1>2
    <3> HIDE DEF U, n
    <3>2. \A i \in 0..n : i \in U
      BY ONLY <1>2, <2>6, <2>7, Upward
    <3> QED BY <3>1, <3>2
  <2>9. Typing(h[n], Cur(f)) /\ (Seen(d, e) => Trail(h[n], f, Cur(f), z))
    BY <2>2, <2>8
  <2>10. h[n].icol \in Int /\ h[n].icol \in 0..Margin
    BY <2>9, MarginIs DEF Typing, States
  <2>11. Seen(d, e) => Trail(h[n], f, Cur(f), f.o + Len(f.b))
    <3>1. z \in Int /\ f.o + Len(f.b) \in Int /\ z <= f.o + Len(f.b) /\ Cur(f) \in Int
      BY <1>1, <1>2, <2>2
    <3> HIDE DEF z
    <3> QED BY <2>9, <2>10, <3>1, TrailMore
  <2>12. input_puts(d, e, s) = Rest(h[n], f)
    BY <2>4, <2>10, SpliceRest DEF f
  <2>13. Placed(Rest(h[n], f), f) /\ (Seen(d, e) => Seen(Rest(h[n], f), f))
    BY <2>1, <2>9, <2>11, RestIs
  <2> QED BY <2>12, <2>13 DEF Keeps, f
<1> QED BY <1>3, <1>4, EchoingOrHiding

-----------------------------------------------------------------------------
(* input_cmove().                                                          *)

\* Lines that look the same.
Alike(e, f) == Cur(e) = Cur(f) /\ \A j \in Nat \ {0} : Glyph(e, j) = Glyph(f, j)

LEMMA AlikeKeeps ==
  ASSUME Isize \in Nat \ {0}, NEW e, Sane(e), NEW f, Alike(e, f), NEW d, Placed(d, e)
  PROVE  Keeps(d, e, d, f)
<1>1. Cur(e) = Cur(f) /\ Base(e) = Base(f) /\ Base(e) \in Nat
  BY BaseIs DEF Alike, Base
<1>2. Placed(d, f)
  BY <1>1 DEF Placed
<1>3. ASSUME Seen(d, e) PROVE Seen(d, f)
  <2>1. ASSUME NEW j \in 1..(Base(e) + Margin) PROVE Glyph(e, j) = Glyph(f, j)
    <3>1. j \in Nat \ {0}
      BY <1>1, MarginIs
    <3> QED BY <3>1 DEF Alike
  <2>2. Base(e) \in Int
    BY <1>1
  <2> QED BY <1>1, <1>3, <2>1, <2>2, FullAgree DEF Seen
<1> QED BY <1>2, <1>3 DEF Keeps

\* The same line with the cursor elsewhere.
Moved(e, new) == [e EXCEPT !.k = new]

LEMMA MovedIs ==
  ASSUME NEW e, Sane(e), NEW new \in 0..Len(e.b)
  PROVE  LET f == Moved(e, new) IN
         /\ Sane(f) /\ f.b = e.b /\ f.k = new /\ f.p = e.p /\ f.o = e.o /\ f.echo = e.echo
         /\ (Echoing(e) => Echoing(f)) /\ (Hiding(e) => Hiding(f))
         /\ \A j : Glyph(f, j) = Glyph(e, j)
         /\ \A t, q : Full(t, f, q) <=> Full(t, e, q)
<1> DEFINE f == Moved(e, new)
<1>1. e \in Lines /\ new \in Nat /\ new <= Len(e.b) /\ e.o <= Len(e.p)
  <2>1. Len(e.b) \in Nat
    BY SaneIs
  <2> QED BY <2>1 DEF Sane
<1>2. f \in Lines /\ f.b = e.b /\ f.k = new /\ f.p = e.p /\ f.o = e.o /\ f.echo = e.echo
  BY <1>1 DEF Moved, Lines
<1> HIDE DEF f
<1>3. Sane(f)
  BY <1>1, <1>2 DEF Sane
<1>4. \A j : Glyph(f, j) = Glyph(e, j)
  BY <1>2 DEF Glyph
<1>5. \A t, q : Full(t, f, q) <=> Full(t, e, q)
  BY <1>4 DEF Full, Over, RowIs, Ends
<1>6. (Echoing(e) => Echoing(f)) /\ (Hiding(e) => Hiding(f))
  BY <1>2, <1>3 DEF Echoing, Hiding
<1> QED BY <1>2, <1>3, <1>4, <1>5, <1>6 DEF f

\* It is enough to know the new column and the new row.
LEMMA MovedKeeps ==
  ASSUME Isize \in Nat \ {0}, NEW e, Echoing(e), NEW new \in 0..Len(e.b), NEW d, Placed(d, e),
         NEW n \in Int, NEW c \in 0..(Margin - 1), c = d.icol + (new - e.k) - n * Margin,
         NEW t \in Terminals, t.x = c, t.y = Isize,
         Full(d.t, e, Base(e)) => Full(t, e, Base(e) + n * Margin)
  PROVE  Keeps(d, e, D(t, c), Moved(e, new))
<1> DEFINE f == Moved(e, new)
           m == new - e.k
<1>1. /\ Sane(e) /\ Echoing(f) /\ Sane(f) /\ f.k = new /\ f.o = e.o
      /\ \A u, q : Full(u, f, q) <=> Full(u, e, q)
  BY MovedIs, EchoingIs
<1>2. e.k \in Nat /\ e.o \in Nat /\ new \in Nat /\ Margin \in Nat /\ c \in Int
  BY <1>1, SaneIs, MarginIs
<1> HIDE DEF f
<1>3. Cur(e) = e.o + e.k /\ Cur(f) = e.o + new /\ Cur(f) = Cur(e) + m
  BY <1>1, <1>2, EchoingIs
<1>4. d.icol = Cur(e) % Margin /\ Cur(e) - d.icol = Base(e) /\ Base(e) \in Nat /\ Base(e) = Margin * (Cur(e) \div Margin)
  BY <1>1, PlacedIs, BaseIs
<1> DEFINE g == Cur(e) \div Margin
<1>5. g \in Int /\ d.icol \in Int /\ Cur(e) \in Int /\ m \in Int
  <2>1. Cur(e) \in Int
    BY <1>2, <1>3
  <2>2. g \in Int /\ Cur(e) % Margin \in 0..(Margin - 1)
    BY <2>1, ModIs
  <2>3. m \in Int
    BY <1>2
  <2> QED BY <1>2, <1>4, <2>1, <2>2, <2>3
<1>6. Cur(f) = Margin * (g + n) + c
  <2> HIDE DEF m, g
  <2>1. Cur(f) = (Margin * g + d.icol) + m
    <3>1. Cur(e) = Base(e) + d.icol
      BY <1>4, <1>5
    <3> QED BY <1>3, <1>4, <3>1 DEF g
  <2>2. d.icol + m = n * Margin + c
    BY <1>2, <1>5 DEF m
  <2>3. n * Margin \in Int /\ Margin * g \in Int /\ Margin * (g + n) = Margin * g + n * Margin
    BY <1>2, <1>5
  <2> QED BY ONLY <2>1, <2>2, <2>3, <1>2, <1>5
<1>7. Cur(f) % Margin = c /\ Cur(f) \div Margin = g + n
  <2>1. g + n \in Int
    BY <1>5
  <2> HIDE DEF g
  <2> QED BY <1>6, <2>1, ModUnique
<1>8. Base(f) = Base(e) + n * Margin
  <2>1. Base(f) = Margin * (g + n)
    BY <1>1, <1>7, BaseIs
  <2>2. Margin * (g + n) = Margin * g + n * Margin
    BY <1>2, <1>5
  <2> QED BY <1>4, <2>1, <2>2
<1>9. D(t, c).t = t /\ D(t, c).icol = c
  BY DEF D
<1>10. Placed(D(t, c), f)
  BY <1>7, <1>9 DEF Placed
<1>11. ASSUME Seen(d, e) PROVE Seen(D(t, c), f)
  BY <1>1, <1>8, <1>9, <1>11 DEF Seen
<1> QED BY <1>10, <1>11 DEF Keeps, f

\* A row of the text, or what there is of it, on a blank row.
LEMMA TextRow ==
  ASSUME Isize \in Nat \ {0}, NEW e, Sane(e), NEW t \in Terminals, t.x = 0,
         NEW pos \in Nat, pos <= Len(e.b)
  PROVE  LET m == Min2(Len(e.b) - pos, Margin)
             u == Put(t, From(e.b, pos, m))
         IN /\ m \in 0..Margin /\ (m = Len(e.b) - pos \/ m = Margin) /\ m <= Len(e.b) - pos
            /\ u \in Terminals /\ u.y = t.y /\ u.x = m
            /\ \A r \in 1..Isize : r # t.y => SameRow(t, u, r)
            /\ Echoing(e) /\ Clean(t.line[t.y], 0) => RowIs(u.line[t.y], e, pos + e.o)
<1> DEFINE m == Min2(Len(e.b) - pos, Margin)
           s == From(e.b, pos, m)
           u == Put(t, s)
<1>1. e.b \in Seq(Chars) /\ Len(e.b) \in Nat /\ Margin \in Nat /\ Columns = 1..(Margin + 1) /\ e.o \in Nat
  BY SaneIs, MarginIs DEF Columns
<1>2. m \in Nat /\ m <= Margin /\ m <= Len(e.b) - pos /\ (m = Len(e.b) - pos \/ m = Margin)
  <2>1. Len(e.b) - pos \in Int /\ Len(e.b) - pos >= 0
    BY <1>1
  <2>2. Margin \in Int /\ Margin >= 0
    BY <1>1
  <2>3. m \in Int /\ m <= Len(e.b) - pos /\ m <= Margin /\ (m = Len(e.b) - pos \/ m = Margin)
    BY <2>1, <2>2, MinIs
  <2> HIDE DEF m
  <2> QED BY <2>1, <2>2, <2>3
<1> HIDE DEF m
<1>3. s \in Seq(Chars) /\ Len(s) = m /\ \A i \in 1..m : s[i] = e.b[pos + i]
  <2>1. pos + m <= Len(e.b)
    BY <1>1, <1>2
  <2>2. e.b \in Seq(Chars)
    BY <1>1
  <2>3. pos \in Nat
    OBVIOUS
  <2>4. m \in Nat
    BY <1>2
  <2> QED BY ONLY <2>1, <2>2, <2>3, <2>4, FromIs DEF s
<1>4. Min2(t.x + m, Margin) = m
  <2>1. 0 + m = m
    BY <1>2
  <2> QED BY <1>1, <1>2, <2>1 DEF Min2
<1> HIDE DEF s
<1>5. /\ u \in Terminals /\ u.y = t.y /\ u.x = m
      /\ \A r \in 1..Isize : r # t.y => SameRow(t, u, r)
      /\ \A i \in Columns : u.line[t.y][i] = IF i - t.x \in 1..m THEN s[i - t.x] ELSE t.line[t.y][i]
  BY <1>3, <1>4, PutIs
<1> HIDE DEF u
<1>6. ASSUME Echoing(e), Clean(t.line[t.y], 0), NEW i \in Columns, i > 0
      PROVE  u.line[t.y][i] = IF i <= Margin THEN Glyph(e, (pos + e.o) + i) ELSE Blank
  <2>1. i \in Nat /\ i > 0 /\ i - t.x = i /\ i <= Margin + 1
    BY <1>1
  <2>2. t.line[t.y][i] = Blank
    BY <1>6 DEF Clean
  <2>3. /\ (pos + e.o) + i \in Nat /\ ~((pos + e.o) + i <= e.o) /\ ((pos + e.o) + i) - e.o = pos + i
    BY <1>1, <2>1
  <2>4. CASE i <= m
    <3>1. i \in 1..m /\ i <= Margin /\ pos + i <= Len(e.b)
      BY <1>1, <1>2, <2>1, <2>4
    <3>2. u.line[t.y][i] = e.b[pos + i]
      BY <1>3, <1>5, <2>1, <3>1
    <3> QED BY <1>6, <2>3, <3>1, <3>2, EchoingIs
  <2>5. CASE i > m
    <3>1. ~(i \in 1..m)
      BY <1>2, <2>1, <2>5
    <3>2. u.line[t.y][i] = Blank
      BY <1>5, <2>1, <2>2, <3>1
    <3>3. i <= Margin => ~(pos + i <= Len(e.b))
      BY <1>1, <1>2, <2>1, <2>5
    <3>4. i <= Margin => Glyph(e, (pos + e.o) + i) = Blank
      BY <1>6, <2>3, <3>3, EchoingIs
    <3> QED BY <3>2, <3>4
  <2> QED BY <1>2, <2>1, <2>4, <2>5
<1> QED BY <1>2, <1>5, <1>6 DEF RowIs, Ends, m, s, u

\* The next row of the text, after a scroll.
LEMMA RowBelow ==
  ASSUME Isize \in Nat \ {0}, NEW e, Sane(e), NEW t \in Anywhere, NEW pos \in Nat, pos <= Len(e.b)
  PROVE  LET u == Put(Iscr_fwd(t), From(e.b, pos, Min2(Len(e.b) - pos, Margin))) IN
         /\ u \in Terminals /\ u.y = Isize
         /\ \A q \in Int : Echoing(e) /\ Full(t, e, q) /\ pos = (q + Margin) - e.o => Full(u, e, q + Margin)
<1> DEFINE v == Iscr_fwd(t)
           u == Put(v, From(e.b, pos, Min2(Len(e.b) - pos, Margin)))
<1>1. v \in Terminals /\ v.y = Isize /\ v.x = 0
  BY Iscr_fwdIs
<1> HIDE DEF v
<1>2. /\ u \in Terminals /\ u.y = v.y
      /\ \A r \in 1..Isize : r # v.y => SameRow(v, u, r)
      /\ Echoing(e) /\ Clean(v.line[v.y], 0) => RowIs(u.line[v.y], e, pos + e.o)
  BY ONLY <1>1, Isize \in Nat \ {0}, Sane(e), pos \in Nat, pos <= Len(e.b), TextRow
<1> HIDE DEF u
<1>3. ASSUME NEW q \in Int, Echoing(e), Full(t, e, q), pos = (q + Margin) - e.o
      PROVE  Full(u, e, q + Margin)
  <2>1. Over(v, e, q + Margin) /\ Clean(v.line[Isize], 0)
    BY <1>3, ScrollUp DEF v
  <2>2. pos + e.o = q + Margin
    BY <1>3, SaneIs, MarginIs
  <2>3. RowIs(u.line[Isize], e, q + Margin)
    BY <1>1, <1>2, <1>3, <2>1, <2>2
  <2>4. \A r \in 1..(Isize - 1) : r \in 1..Isize /\ r # Isize
    OBVIOUS
  <2>5. Over(u, e, q + Margin)
    <3>1. \A r \in 1..(Isize - 1) : SameRow(v, u, r)
      BY <1>1, <1>2, <2>4
    <3> QED BY <2>1, <3>1, OverSame
  <2> QED BY <2>3, <2>5 DEF Full
<1> QED BY <1>1, <1>2, <1>3 DEF u, v

\* The scrolls forward: each draws the next row.
LEMMA ForwardIs ==
  ASSUME Isize \in Nat \ {0}, NEW e, Echoing(e), NEW new \in 0..Len(e.b), new > e.k, NEW d, Placed(d, e)
  PROVE  Keeps(d, e, Forward(d, e, new), Moved(e, new))
<1> DEFINE a == d.icol + new - e.k
           n == a \div Margin
           c == d.icol + new - e.k - n * Margin
           first == Round(e.k + e.o, Margin) + Margin - e.o
           pos(i) == first + (i - 1) * Margin
           row(t, i) == Put(Iscr_fwd(t), From(e.b, pos(i), Min2(Len(e.b) - pos(i), Margin)))
           q == Base(e)
<1>1. /\ Sane(e) /\ e.k \in Nat /\ e.o \in Nat /\ Len(e.b) \in Nat /\ new \in Nat /\ new <= Len(e.b)
      /\ Margin \in Nat /\ Margin > 0
  BY EchoingIs, SaneIs, MarginIs
<1>2. /\ d.t \in Terminals /\ d.t.x = d.icol /\ d.t.y = Isize /\ d.icol \in 0..(Margin - 1)
      /\ q + d.icol = e.o + e.k /\ q \in Nat /\ Round(e.k + e.o, Margin) = q
  <2>1. Cur(e) = e.o + e.k /\ e.k + e.o = e.o + e.k
    BY <1>1, EchoingIs
  <2>2. Cur(e) - (Cur(e) % Margin) = Base(e)
    BY <1>1, BaseIs
  <2>3. Round(e.k + e.o, Margin) = q
    BY <2>1, <2>2 DEF Round
  <2>4. d.icol \in 0..(Margin - 1) /\ q + d.icol = Cur(e) /\ q \in Nat
    BY <1>1, PlacedIs, BaseIs
  <2> QED BY <2>1, <2>3, <2>4 DEF Placed
<1>3. a \in Int /\ n \in Int /\ a = Margin * n + (a % Margin) /\ a % Margin \in 0..(Margin - 1)
  <2>1. a \in Int
    BY <1>1, <1>2
  <2> HIDE DEF a
  <2> QED BY <2>1, ModIs
<1>4. /\ c = a % Margin /\ c \in 0..(Margin - 1) /\ n * Margin \in Int /\ a = n * Margin + c
      /\ c = d.icol + (new - e.k) - n * Margin
  <2>1. n * Margin = Margin * n /\ n * Margin \in Int
    <3> HIDE DEF n, a
    <3> QED BY ONLY <1>1, <1>3
  <2>2. a % Margin \in Int
    BY <1>1, <1>3
  <2>3. d.icol \in Int /\ new - e.k \in Int
    BY <1>1, <1>2
  <2> DEFINE z == n * Margin
             b == new - e.k
  <2>4. z \in Int /\ z = Margin * n /\ b \in Int
    BY <2>1, <2>3
  <2>5. c = d.icol + (b - z) /\ a = d.icol + b
    OBVIOUS
  <2> HIDE DEF n, a, c, z, b
  <2>6. c = d.icol + b - z /\ c = a - z
    BY ONLY <2>3, <2>4, <2>5
  <2>7. c = a % Margin /\ a = z + c
    BY ONLY <1>3, <2>2, <2>4, <2>6
  <2> QED BY <1>3, <2>1, <2>6, <2>7 DEF z, b
<1>5. n \in Nat
  <2> SUFFICES ASSUME n <= -1 PROVE FALSE
    BY <1>3
  <2>1. a > 0
    BY <1>1, <1>2
  <2> HIDE DEF n, a
  <2>2. Margin * n <= -Margin
    BY <1>1, <1>3
  <2> QED BY <1>1, <1>3, <2>1, <2>2
<1>6. /\ first = (q + Margin) - e.o /\ first \in Nat
      /\ q + n * Margin = e.o + new - c
  <2>1. first = (q + Margin) - e.o
    BY <1>1, <1>2
  <2>2. a = d.icol + (new - e.k)
    BY <1>1, <1>2
  <2> HIDE DEF a, n, c, first, q
  <2>3. first \in Nat
    BY <1>1, <1>2, <2>1
  <2> DEFINE z == n * Margin
  <2>5. z \in Int /\ a = z + c
    BY <1>4
  <2> HIDE DEF z
  <2>6. c \in Int
    BY <1>1, <1>4
  <2>7. q \in Int /\ q + d.icol = e.o + e.k
    BY <1>2
  <2>8. d.icol \in Int
    BY <1>1, <1>2
  <2>9. e.o \in Int /\ e.k \in Int /\ new \in Int
    BY <1>1
  <2>4. q + z = e.o + new - c
    <3> DEFINE i == d.icol
               o == e.o
               k == e.k
    <3>1. a = i + (new - k)
      BY <2>2
    <3>2. q + i = o + k
      BY <2>7
    <3>3. i \in Int /\ o \in Int /\ k \in Int /\ new \in Int /\ q \in Int
      BY <2>7, <2>8, <2>9
    <3> HIDE DEF i, o, k
    <3>4. q + z = o + new - c
      BY ONLY <2>5, <2>6, <3>1, <3>2, <3>3
    <3> QED BY <3>4 DEF o
  <2> QED BY <2>1, <2>3, <2>4 DEF z
<1> HIDE DEF a, n, c, first, q
<1>7. ASSUME NEW i \in 1..n
      PROVE  pos(i) \in Nat /\ pos(i) <= Len(e.b) /\ pos(i) = (q + (i - 1) * Margin + Margin) - e.o
  <2>1. i - 1 \in Nat /\ n - i \in Nat /\ i \in Nat
    BY <1>5
  <2>2. (i - 1) * Margin \in Nat /\ (n - i) * Margin \in Nat
    BY <1>1, <2>1
  <2>3. (n - i) * Margin = n * Margin - ((i - 1) * Margin + Margin)
    BY <1>1, <1>5, <2>1
  <2> DEFINE x == (i - 1) * Margin
             y == (n - i) * Margin
             z == n * Margin
  <2>4. x \in Nat /\ y \in Nat /\ y = z - (x + Margin) /\ z \in Int /\ q + z = e.o + new - c
    BY <1>4, <1>6, <2>2, <2>3
  <2>5. pos(i) = first + x
    OBVIOUS
  <2> HIDE DEF x, y, z, pos
  <2>6. c \in Nat
    BY <1>1, <1>4
  <2>10. q \in Int /\ e.o \in Int /\ Margin \in Int /\ x \in Int /\ first \in Nat
    BY <1>1, <1>2, <1>6, <2>4
  <2>7. pos(i) \in Nat /\ pos(i) = (q + x + Margin) - e.o
    BY ONLY <1>6, <2>4, <2>5, <2>10
  <2>8. x + Margin <= z
    BY <1>1, <2>4
  <2>9. pos(i) <= new
    <3>1. z \in Int /\ new \in Int /\ q + z = e.o + new - c
      BY <1>1, <2>4
    <3> QED BY ONLY <2>6, <2>7, <2>8, <2>10, <3>1
  <2> QED BY <1>1, <2>7, <2>9 DEF x
<1>8. ASSUME NEW i \in 1..n, NEW t \in Terminals
      PROVE  /\ row(t, i) \in Terminals /\ row(t, i).y = Isize
             /\ Full(t, e, q + (i - 1) * Margin) => Full(row(t, i), e, q + i * Margin)
  <2>1. pos(i) \in Nat /\ pos(i) <= Len(e.b) /\ pos(i) = (q + (i - 1) * Margin + Margin) - e.o
    BY <1>7
  <2>2. t \in Anywhere
    BY DEF Terminals
  <2>3. (q + (i - 1) * Margin) \in Int /\ (q + (i - 1) * Margin) + Margin = q + i * Margin
    BY <1>1, <1>2, <1>5
  <2> HIDE DEF pos
  <2>4. /\ row(t, i) \in Terminals /\ row(t, i).y = Isize
        /\ \A j \in Int : Echoing(e) /\ Full(t, e, j) /\ pos(i) = (j + Margin) - e.o
                            => Full(row(t, i), e, j + Margin)
    BY ONLY <1>1, Isize \in Nat \ {0}, <2>1, <2>2, RowBelow
  <2> HIDE DEF row
  <2> QED BY <2>1, <2>3, <2>4
<1> DEFINE g == [p \in Terminals \X (1..n) |-> row(p[1], p[2])]
           t[i \in 0..n] == IF i = 0 THEN d.t
                            ELSE Put(Iscr_fwd(t[i - 1]), From(e.b, pos(i), Min2(Len(e.b) - pos(i), Margin)))
<1>9. PICK h \in [0..n -> Terminals] : h[0] = d.t /\ \A i \in 1..n : h[i] = row(h[i - 1], i)
  <2>1. g \in [Terminals \X (1..n) -> Terminals]
    <3> HIDE DEF row
    <3> QED BY <1>8
  <2>2. \A x \in Terminals, i \in 1..n : g[<<x, i>>] = row(x, i)
    OBVIOUS
  <2> HIDE DEF g, row
  <2>3. Stepping(Terminals, n, d.t, g)
    BY <1>2, <1>5, <2>1 DEF Stepping
  <2>4. PICK h \in [0..n -> Terminals] : h[0] = d.t /\ \A i \in 1..n : h[i] = g[<<h[i - 1], i>>]
    BY ONLY <2>3, Iterate
  <2>5. ASSUME NEW i \in 1..n PROVE h[i] = row(h[i - 1], i)
    <3>1. i - 1 \in 0..n
      BY <1>5
    <3> QED BY <2>2, <2>4, <3>1
  <2> QED BY <2>4, <2>5
<1>10. t = [i \in 0..n |-> IF i = 0 THEN d.t ELSE row(t[i - 1], i)]
  <2>1. h = [i \in 0..n |-> IF i = 0 THEN d.t ELSE row(h[i - 1], i)]
    <3> HIDE DEF row
    <3> QED BY <1>5, <1>9
  <2> HIDE DEF pos
  <2> QED BY <2>1 DEF t, row
<1>11. Forward(d, e, new) = D(cmove(t[n], c), c)
  BY DEF Forward, t, pos, n, a, c, first
<1> HIDE DEF t, row
<1> DEFINE U == {i \in 0..n : /\ t[i] \in Terminals /\ t[i].y = Isize
                              /\ Full(d.t, e, q) => Full(t[i], e, q + i * Margin)}
<1>12. 0 \in U
  <2>1. q + 0 * Margin = q /\ 0 \in 0..n
    BY <1>1, <1>2, <1>5
  <2>2. t[0] = d.t
    BY <1>10, <2>1
  <2> QED BY <1>2, <2>1, <2>2
<1>13. ASSUME NEW i \in 1..n, i - 1 \in U PROVE i \in U
  <2>1. i \in 0..n
    BY <1>5
  <2>2. t[i] = row(t[i - 1], i)
    BY <1>5, <1>10, <2>1
  <2> QED BY <1>8, <1>13, <2>1, <2>2
<1>14. n \in U
  <2>1. n \in 0..n
    BY <1>5
  <2> HIDE DEF U
  <2>2. \A i \in 0..n : i \in U
    BY ONLY <1>5, <1>12, <1>13, Upward
  <2> QED BY <2>1, <2>2
<1>15. /\ cmove(t[n], c) \in Terminals /\ cmove(t[n], c).x = c /\ cmove(t[n], c).y = Isize
       /\ cmove(t[n], c).line = t[n].line
  <2>1. c \in 0..Margin
    BY <1>1, <1>4
  <2>3. t[n] \in Anywhere
    BY <1>14 DEF Terminals
  <2> QED BY <2>1, <2>3, cmoveIs
<1>16. Full(d.t, e, q) => Full(cmove(t[n], c), e, q + n * Margin)
  BY <1>14, <1>15 DEF Full, Over
<1>17. n \in Int
  BY <1>5
<1> HIDE DEF U
<1> QED BY <1>4, <1>11, <1>15, <1>16, <1>17, MovedKeeps DEF q

\* A row of the prompt, and of the text behind it, on a blank row.
LEMMA PromptRow ==
  ASSUME Isize \in Nat \ {0}, NEW e, Sane(e), NEW t \in Terminals, t.x = 0,
         NEW pos \in Int, pos < 0, pos + e.o >= 0
  PROVE  LET n == Min2(-pos, Margin)
             u == Put(Put(t, From(e.p, e.o + pos, n)), From(e.b, 0, Min2(Len(e.b), Margin - n)))
         IN /\ u \in Terminals /\ u.y = t.y
            /\ \A r \in 1..Isize : r # t.y => SameRow(t, u, r)
            /\ Echoing(e) /\ Clean(t.line[t.y], 0) => RowIs(u.line[t.y], e, pos + e.o)
<1> DEFINE n == Min2(-pos, Margin)
           k == e.o + pos
           s == From(e.p, k, n)
           v == Put(t, s)
           m == Min2(Len(e.b), Margin - n)
           z == From(e.b, 0, m)
           u == Put(v, z)
<1>1. /\ e.b \in Seq(Chars) /\ Len(e.b) \in Nat /\ e.p \in Seq(Chars) /\ Len(e.p) \in Nat
      /\ Margin \in Nat /\ Columns = 1..(Margin + 1) /\ e.o \in Nat /\ e.o <= Len(e.p)
  BY SaneIs, MarginIs DEF Columns
<1>2. n \in Nat /\ n <= Margin /\ n <= -pos /\ (n = -pos \/ n = Margin)
  <2>1. -pos \in Int /\ -pos >= 0 /\ Margin \in Int /\ Margin >= 0
    BY <1>1
  <2>2. n \in Int /\ n <= -pos /\ n <= Margin /\ (n = -pos \/ n = Margin)
    BY <2>1, MinIs
  <2> HIDE DEF n
  <2> QED BY <2>1, <2>2
<1>3. k \in Nat /\ k = pos + e.o
  BY <1>1
<1> HIDE DEF n, k
<1>4. m \in Nat /\ m <= Len(e.b) /\ m <= Margin - n /\ (m = Len(e.b) \/ m = Margin - n)
  <2>1. Len(e.b) \in Int /\ Len(e.b) >= 0
    BY <1>1
  <2>2. Margin - n \in Int /\ Margin - n >= 0
    BY <1>1, <1>2
  <2>3. m \in Int /\ m <= Len(e.b) /\ m <= Margin - n /\ (m = Len(e.b) \/ m = Margin - n)
    BY <2>1, <2>2, MinIs
  <2> HIDE DEF m
  <2> QED BY <2>1, <2>2, <2>3
<1> HIDE DEF m
<1>5. s \in Seq(Chars) /\ Len(s) = n /\ \A i \in 1..n : s[i] = e.p[k + i]
  <2>1. k + n <= Len(e.p)
    BY <1>1, <1>2, <1>3
  <2> QED BY ONLY <1>1, <1>2, <1>3, <2>1, FromIs DEF s
<1>6. z \in Seq(Chars) /\ Len(z) = m /\ \A i \in 1..m : z[i] = e.b[i]
  <2>1. 0 \in Nat /\ 0 + m <= Len(e.b) /\ \A i \in 1..m : 0 + i = i
    BY <1>1, <1>4
  <2>2. z \in Seq(Chars) /\ Len(z) = m /\ \A i \in 1..m : z[i] = e.b[0 + i]
    BY ONLY <1>1, <1>4, <2>1, FromIs DEF z
  <2> QED BY <2>1, <2>2
<1> HIDE DEF s, z
<1>7. /\ v \in Terminals /\ v.y = t.y /\ v.x = n
      /\ \A r \in 1..Isize : r # t.y => SameRow(t, v, r)
      /\ \A i \in Columns : v.line[t.y][i] = IF i - t.x \in 1..n THEN s[i - t.x] ELSE t.line[t.y][i]
  <2>1. Min2(t.x + n, Margin) = n
    BY <1>1, <1>2 DEF Min2
  <2> QED BY <1>5, <2>1, PutIs
<1> HIDE DEF v
<1>8. /\ u \in Terminals /\ u.y = v.y
      /\ \A r \in 1..Isize : r # v.y => SameRow(v, u, r)
      /\ \A i \in Columns : u.line[v.y][i] = IF i - v.x \in 1..m THEN z[i - v.x] ELSE v.line[v.y][i]
  BY <1>6, <1>7, PutIs
<1> HIDE DEF u
<1>9. ASSUME Echoing(e), Clean(t.line[t.y], 0), NEW i \in Columns, i > 0
      PROVE  u.line[t.y][i] = IF i <= Margin THEN Glyph(e, (pos + e.o) + i) ELSE Blank
  <2>1. i \in Nat /\ i > 0 /\ i <= Margin + 1 /\ i - t.x = i
    BY <1>1
  <2>2. t.line[t.y][i] = Blank
    BY <1>9 DEF Clean
  <2>3. v.line[t.y][i] = IF i \in 1..n THEN s[i] ELSE Blank
    BY <1>7, <2>1, <2>2
  <2>4. u.line[t.y][i] = IF i - n \in 1..m THEN z[i - n] ELSE v.line[t.y][i]
    BY <1>7, <1>8
  <2>5. k + i \in Nat
    BY <1>3, <2>1
  <2>6. CASE i <= n
    <3>1. i \in 1..n /\ ~(i - n \in 1..m) /\ i <= Margin
      BY <1>1, <1>2, <2>1, <2>6
    <3>2. u.line[t.y][i] = e.p[k + i]
      BY <1>5, <2>3, <2>4, <3>1
    <3>3. k + i <= e.o
      BY <1>1, <1>2, <1>3, <2>1, <2>6
    <3> QED BY <1>3, <1>9, <2>5, <3>1, <3>2, <3>3, EchoingIs
  <2>7. CASE i > n /\ i <= n + m
    <3>1. i - n \in 1..m /\ i <= Margin /\ m > 0
      BY <1>1, <1>2, <1>4, <2>1, <2>7
    <3>2. n = -pos
      BY <1>1, <1>2, <1>4, <3>1
    <3>3. ~(k + i <= e.o) /\ (k + i) - e.o = i - n /\ i - n <= Len(e.b)
      <4>1. e.o \in Int /\ k \in Int /\ i \in Int /\ n \in Int
        BY <1>1, <1>2, <1>3, <2>1
      <4>2. (k + i) - e.o = i - n /\ i - n > 0
        BY ONLY <1>3, <2>7, <3>2, <4>1, pos \in Int
      <4>3. i - n <= Len(e.b)
        BY <1>1, <1>2, <1>4, <2>1, <2>7
      <4> QED BY ONLY <4>1, <4>2, <4>3
    <3>4. u.line[t.y][i] = e.b[i - n]
      BY <1>6, <2>4, <3>1
    <3> QED BY <1>3, <1>9, <2>5, <3>1, <3>3, <3>4, EchoingIs
  <2>8. CASE i > n + m
    <3>1. ~(i - n \in 1..m) /\ ~(i \in 1..n)
      BY <1>2, <1>4, <2>1, <2>8
    <3>2. u.line[t.y][i] = Blank
      BY <2>3, <2>4, <3>1
    <3>3. ASSUME i <= Margin PROVE ~(k + i <= e.o) /\ ~((k + i) - e.o <= Len(e.b))
      <4>1. n < Margin /\ n + m < Margin
        BY <1>1, <1>2, <1>4, <2>1, <2>8, <3>3
      <4>2. n = -pos /\ m = Len(e.b)
        BY <1>1, <1>2, <1>4, <4>1
      <4>3. e.o \in Int /\ k \in Int /\ i \in Int /\ n \in Nat /\ m \in Nat
        BY <1>1, <1>2, <1>3, <1>4, <2>1
      <4>4. (k + i) - e.o = i - n
        BY ONLY <1>3, <4>2, <4>3, pos \in Int
      <4>5. i - n > m /\ (k + i) > e.o
        BY ONLY <2>8, <4>3, <4>4
      <4> QED BY ONLY <4>2, <4>3, <4>4, <4>5
    <3>4. i <= Margin => Glyph(e, k + i) = Blank
      BY <1>9, <2>5, <3>3, EchoingIs
    <3> QED BY <1>3, <3>2, <3>4
  <2>9. i <= n \/ (i > n /\ i <= n + m) \/ i > n + m
    BY <1>2, <1>4, <2>1
  <2> QED BY <2>6, <2>7, <2>8, <2>9
<1>10. \A r \in 1..Isize : r # t.y => SameRow(t, u, r)
  BY <1>7, <1>8 DEF SameRow
<1> QED BY <1>7, <1>8, <1>9, <1>10 DEF RowIs, Ends, u, v, z, m, s, k, n

\* The row before, after a scroll.
LEMMA RowAbove ==
  ASSUME Isize \in Nat \ {0}, NEW e, Sane(e), NEW t \in Anywhere, NEW pos \in Int, pos <= Len(e.b)
  PROVE  LET u == Above(Iscr_rev(t), e, pos) IN
         /\ u \in Terminals
         /\ \A q \in Int : Echoing(e) /\ Full(t, e, q) /\ pos + e.o = (q - Margin) - Offset(1)
                             => Full(u, e, q - Margin)
<1> DEFINE v == Iscr_rev(t)
           u == Above(v, e, pos)
<1>1. v \in Terminals /\ v.y = 1 /\ v.x = 0 /\ Clean(v.line[1], 0)
  BY Iscr_revIs DEF Clean
<1>2. e.o \in Nat /\ Len(e.b) \in Nat
  BY SaneIs
<1>3. 1 \in 1..Isize /\ Offset(1) \in Nat /\ Offset(Isize) = 0 /\ Margin \in Nat
  BY OffsetIs, MarginIs
<1> HIDE DEF v
<1>4. /\ u \in Terminals
      /\ \A r \in 1..Isize : r # 1 => SameRow(v, u, r)
      /\ Echoing(e) /\ pos + e.o >= 0 => RowIs(u.line[1], e, pos + e.o)
  <2>1. CASE pos >= 0
    <3>1. u = Put(v, From(e.b, pos, Min2(Len(e.b) - pos, Margin)))
      BY <2>1 DEF Above
    <3>2. pos \in Nat
      BY <2>1
    <3> HIDE DEF u
    <3> QED BY ONLY <1>1, <3>1, <3>2, Isize \in Nat \ {0}, Sane(e), pos <= Len(e.b), TextRow
  <2>2. CASE pos < 0 /\ pos + e.o >= 0
    <3>1. u = LET n == Min2(-pos, Margin)
              IN Put(Put(v, From(e.p, e.o + pos, n)), From(e.b, 0, Min2(Len(e.b), Margin - n)))
      BY <2>2 DEF Above
    <3> HIDE DEF u
    <3> QED BY ONLY <1>1, <2>2, <3>1, Isize \in Nat \ {0}, Sane(e), pos \in Int, PromptRow
  <2>3. CASE pos < 0 /\ ~(pos + e.o >= 0)
    <3>1. u = v
      BY <2>3 DEF Above
    <3> QED BY <1>1, <2>3, <3>1 DEF SameRow
  <2> QED BY <2>1, <2>2, <2>3
<1> HIDE DEF u
<1>5. ASSUME NEW q \in Int, Echoing(e), Full(t, e, q), pos + e.o = (q - Margin) - Offset(1)
      PROVE  Full(u, e, q - Margin)
  <2>1. ASSUME NEW r \in 1..Isize, q - Margin >= Offset(r)
        PROVE  RowIs(u.line[r], e, (q - Margin) - Offset(r))
    <3>1. CASE r = 1
      <4>1. pos + e.o >= 0
        BY <1>3, <1>5, <2>1, <3>1
      <4> QED BY <1>4, <1>5, <3>1, <4>1
    <3>2. CASE r # 1
      <4>1. r \in 2..Isize
        BY <3>2
      <4>2. RowIs(v.line[r], e, q - Margin - Offset(r))
        BY <1>5, <2>1, <4>1, ScrollDown DEF v
      <4>3. SameRow(v, u, r)
        BY <1>4, <3>2
      <4> QED BY <4>2, <4>3 DEF SameRow, RowIs, Ends
    <3> QED BY <3>1, <3>2
  <2>2. \A r \in 1..(Isize - 1) : r \in 1..Isize
    OBVIOUS
  <2>3. Over(u, e, q - Margin)
    BY <2>1, <2>2 DEF Over
  <2>4. ASSUME q - Margin >= 0 PROVE RowIs(u.line[Isize], e, q - Margin)
    <3>1. Isize \in 1..Isize /\ (q - Margin) - 0 = q - Margin
      BY <1>3
    <3> QED BY <1>3, <2>1, <2>4, <3>1
  <2> QED BY <2>3, <2>4 DEF Full
<1> QED BY <1>4, <1>5 DEF u, v

\* The scrolls backward: each draws the row before what is shown.
LEMMA BackwardIs ==
  ASSUME Isize \in Nat \ {0}, NEW e, Sane(e), NEW new \in 0..e.k,
         NEW d, d.t \in Anywhere, d.icol \in 0..(Margin - 1)
  PROVE  \E m \in Int, c \in 0..(Margin - 1), u \in Terminals :
           /\ Backward(d, e, new) = D(u, c) /\ u.x = c /\ u.y = Isize
           /\ c = d.icol + (new - e.k) - m * Margin
           /\ Echoing(e) /\ Full(d.t, e, Base(e)) => Full(u, e, Base(e) + m * Margin)
<1> DEFINE a == d.icol + new - e.k
           m == a \div Margin
           n == Max2(0, -(a \div Margin))
           c == d.icol + new - e.k + n * Margin
           first == Round(e.k + e.o, Margin) - e.o - Isize * Margin
           row(t, i) == Above(Iscr_rev(t), e, first - (i - 1) * Margin)
           q == Round(e.k + e.o, Margin)
<1>1. /\ e.k \in Nat /\ e.o \in Nat /\ Len(e.b) \in Nat /\ e.k <= Len(e.b) /\ new \in Nat /\ new <= e.k
      /\ Margin \in Nat /\ Margin > 0 /\ d.icol \in Nat /\ d.icol < Margin
  <2>1. e.k \in Nat /\ e.o \in Nat /\ Len(e.b) \in Nat /\ e.k <= Len(e.b) /\ Margin \in Nat /\ Margin > 0
    BY SaneIs, MarginIs
  <2> QED BY <2>1
<1>2. /\ q \in Int /\ q <= e.k + e.o
      /\ Echoing(e) => q = Base(e)
  <2>1. e.k + e.o \in Int
    BY <1>1
  <2>2. (e.k + e.o) % Margin \in 0..(Margin - 1)
    BY <2>1, ModIs
  <2> DEFINE r == (e.k + e.o) % Margin
  <2>3. q = (e.k + e.o) - r /\ r \in 0..(Margin - 1)
    BY <2>2 DEF Round
  <2> HIDE DEF q, r
  <2>4. q \in Int /\ q <= e.k + e.o
    BY <1>1, <2>1, <2>3
  <2>5. ASSUME Echoing(e) PROVE q = Base(e)
    <3>1. Cur(e) = e.k + e.o
      BY <1>1, <2>5, EchoingIs
    <3> QED BY <2>3, <3>1 DEF r, Base
  <2> QED BY <2>4, <2>5
<1>3. a \in Int /\ m \in Int /\ a = Margin * m + (a % Margin) /\ a % Margin \in 0..(Margin - 1) /\ a < Margin
  <2>1. a \in Int /\ a < Margin
    BY <1>1
  <2> HIDE DEF a
  <2> QED BY <2>1, ModIs
<1>4. n = -m /\ n \in Nat
  <2>1. m <= 0
    <3> SUFFICES ASSUME m >= 1 PROVE FALSE
      BY <1>3
    <3> HIDE DEF a, m
    <3>1. Margin * m >= Margin
      BY <1>1, <1>3
    <3> QED BY <1>1, <1>3, <3>1
  <2>2. n = Max2(0, -m)
    OBVIOUS
  <2> HIDE DEF m, n
  <2> QED BY <1>3, <2>1, <2>2 DEF Max2
<1>5. /\ c \in 0..(Margin - 1) /\ c = d.icol + (new - e.k) - m * Margin
      /\ m * Margin \in Int /\ n * Margin = -(m * Margin)
  <2> DEFINE z == m * Margin
             b == new - e.k
  <2>1. z \in Int /\ z = Margin * m /\ n * Margin = -z
    <3> HIDE DEF a, m, n
    <3> QED BY <1>1, <1>3, <1>4
  <2>2. b \in Int /\ d.icol \in Int /\ a = d.icol + b
    BY <1>1
  <2>3. c = d.icol + b + n * Margin
    OBVIOUS
  <2>4. a % Margin \in Int
    BY <1>1, <1>3
  <2> HIDE DEF a, m, n, c, z, b
  <2>5. c = a - z /\ c = d.icol + b - z
    BY ONLY <2>1, <2>2, <2>3
  <2>6. c = a % Margin
    BY ONLY <1>3, <2>1, <2>4, <2>5
  <2> QED BY <1>3, <2>1, <2>5, <2>6 DEF z, b
<1>6. first \in Int /\ first + e.o = (q - Margin) - Offset(1) /\ first <= Len(e.b)
  <2>1. Offset(1) = Isize * Margin - Margin /\ Isize * Margin \in Nat
    BY <1>1 DEF Offset
  <2> DEFINE z == Isize * Margin
  <2>2. first = q - e.o - z /\ z \in Nat /\ Offset(1) = z - Margin
    BY <2>1
  <2>3. q \in Int /\ e.o \in Int /\ Margin \in Int /\ q <= e.k + e.o /\ e.k <= Len(e.b)
    BY <1>1, <1>2
  <2>4. e.k \in Int /\ Len(e.b) \in Int
    BY <1>1
  <2> HIDE DEF first, q, z
  <2>5. first \in Int /\ first + e.o = (q - Margin) - Offset(1)
    BY ONLY <2>2, <2>3
  <2>6. first <= Len(e.b)
    BY ONLY <2>2, <2>3, <2>4
  <2> QED BY <2>5, <2>6
<1> HIDE DEF a, m, n, c, first, q
<1>7. ASSUME NEW i \in 1..n, NEW t \in Anywhere
      PROVE  /\ row(t, i) \in Terminals
             /\ Echoing(e) /\ Full(t, e, q - (i - 1) * Margin) => Full(row(t, i), e, q - i * Margin)
  <2> DEFINE x == (i - 1) * Margin
             pos == first - x
             j == q - x
  <2>1. x \in Nat /\ i * Margin = x + Margin
    <3>1. i - 1 \in Nat /\ i \in Nat
      BY <1>4
    <3>2. (i - 1) * Margin \in Nat
      BY <1>1, <3>1
    <3> QED BY <1>1, <3>1, <3>2
  <2>2. j \in Int /\ q - i * Margin = j - Margin
    <3> HIDE DEF x
    <3> QED BY <1>1, <1>2, <2>1
  <2>3. pos \in Int /\ pos <= Len(e.b) /\ pos + e.o = (j - Margin) - Offset(1)
    <3>1. Offset(1) \in Int /\ e.o \in Int /\ Len(e.b) \in Int /\ Margin \in Int
      <4>1. 1 \in 1..Isize
        OBVIOUS
      <4>2. Offset(1) \in Nat
        BY <4>1, OffsetIs
      <4> QED BY <1>1, <4>2
    <3>2. x \in Nat
      BY <2>1
    <3>3. pos = first - x /\ j = q - x
      OBVIOUS
    <3> HIDE DEF x, pos, j
    <3> QED BY ONLY <1>2, <1>6, <3>1, <3>2, <3>3
  <2>4. row(t, i) = Above(Iscr_rev(t), e, pos)
    OBVIOUS
  <2>5. q - (i - 1) * Margin = j
    OBVIOUS
  <2> HIDE DEF row, pos, j
  <2>6. /\ row(t, i) \in Terminals
        /\ Echoing(e) /\ Full(t, e, j) /\ pos + e.o = (j - Margin) - Offset(1)
             => Full(row(t, i), e, j - Margin)
    BY ONLY <2>2, <2>3, <2>4, Isize \in Nat \ {0}, Sane(e), t \in Anywhere, RowAbove
  <2> QED BY <2>2, <2>3, <2>5, <2>6
<1> DEFINE g == [p \in Anywhere \X (1..n) |-> row(p[1], p[2])]
           t[i \in 0..n] == IF i = 0 THEN d.t
                            ELSE Above(Iscr_rev(t[i - 1]), e, first - (i - 1) * Margin)
<1>8. \A i \in 1..n, x \in Anywhere : row(x, i) \in Anywhere
  <2> HIDE DEF row
  <2> QED BY <1>7 DEF Terminals
<1>9. PICK h \in [0..n -> Anywhere] : h[0] = d.t /\ \A i \in 1..n : h[i] = row(h[i - 1], i)
  <2>1. g \in [Anywhere \X (1..n) -> Anywhere]
    <3> HIDE DEF row
    <3> QED BY <1>8
  <2>2. \A x \in Anywhere, i \in 1..n : g[<<x, i>>] = row(x, i)
    OBVIOUS
  <2> HIDE DEF g, row
  <2>3. Stepping(Anywhere, n, d.t, g)
    BY <1>4, <2>1 DEF Stepping
  <2>4. PICK h \in [0..n -> Anywhere] : h[0] = d.t /\ \A i \in 1..n : h[i] = g[<<h[i - 1], i>>]
    BY ONLY <2>3, Iterate
  <2>5. ASSUME NEW i \in 1..n PROVE h[i] = row(h[i - 1], i)
    <3>1. i - 1 \in 0..n
      BY <1>4
    <3> QED BY <2>2, <2>4, <3>1
  <2> QED BY <2>4, <2>5
<1>10. t = [i \in 0..n |-> IF i = 0 THEN d.t ELSE row(t[i - 1], i)]
  <2>1. h = [i \in 0..n |-> IF i = 0 THEN d.t ELSE row(h[i - 1], i)]
    <3> HIDE DEF row
    <3> QED BY <1>4, <1>9
  <2> QED BY <2>1 DEF t, row
<1>11. Backward(d, e, new) = D(cmove(t[n], c), c)
  BY DEF Backward, t, n, a, c, first
<1> HIDE DEF t, row
<1> DEFINE U == {i \in 0..n : /\ t[i] \in Anywhere
                              /\ Echoing(e) /\ Full(d.t, e, q) => Full(t[i], e, q - i * Margin)}
<1>12. 0 \in U
  <2>1. q - 0 * Margin = q /\ 0 \in 0..n
    BY <1>1, <1>2, <1>4
  <2>2. t[0] = d.t
    BY <1>10, <2>1
  <2> QED BY <2>1, <2>2
<1>13. ASSUME NEW i \in 1..n, i - 1 \in U PROVE i \in U
  <2>1. i \in 0..n
    BY <1>4
  <2>2. t[i] = row(t[i - 1], i)
    BY <1>4, <1>10, <2>1
  <2> QED BY <1>7, <1>8, <1>13, <2>1, <2>2
<1>14. n \in U
  <2>1. n \in 0..n
    BY <1>4
  <2> HIDE DEF U
  <2>2. \A i \in 0..n : i \in U
    BY ONLY <1>4, <1>12, <1>13, Upward
  <2> QED BY <2>1, <2>2
<1> DEFINE u == cmove(t[n], c)
<1>15. u \in Terminals /\ u.x = c /\ u.y = Isize /\ u.line = t[n].line
  <2>1. c \in 0..Margin
    BY <1>1, <1>5
  <2>2. t[n] \in Anywhere
    BY <1>14
  <2> QED BY <2>1, <2>2, cmoveIs
<1>16. Echoing(e) /\ Full(d.t, e, q) => Full(u, e, q - n * Margin)
  <2> HIDE DEF u
  <2> QED BY <1>14, <1>15 DEF Full, Over
<1>17. q - n * Margin = q + m * Margin
  <2> DEFINE z == m * Margin
             y == n * Margin
  <2>1. z \in Int /\ y = -z
    BY <1>5
  <2> HIDE DEF z, y
  <2> QED BY <1>2, <2>1 DEF z, y
<1>18. Echoing(e) /\ Full(d.t, e, Base(e)) => Full(u, e, Base(e) + m * Margin)
  BY <1>2, <1>16, <1>17
<1> HIDE DEF U, u
<1>19. Backward(d, e, new) = D(u, c)
  BY <1>11 DEF u
<1> QED BY <1>3, <1>5, <1>15, <1>18, <1>19

\* One column to the left, or to the right over what is there.
LEMMA StepLeft ==
  ASSUME Isize \in Nat \ {0}, NEW e, Echoing(e), NEW new \in 0..Len(e.b), NEW d, Placed(d, e),
         new = e.k - 1, d.icol > 0
  PROVE  Keeps(d, e, D(Left(d.t, 1), d.icol - 1), Moved(e, new))
<1> DEFINE t == Left(d.t, 1)
           c == d.icol - 1
<1>1. /\ Sane(e) /\ d.t \in Terminals /\ d.t.x = d.icol /\ d.t.y = Isize /\ d.icol \in 0..(Margin - 1)
      /\ e.k \in Nat /\ Margin \in Nat
  BY EchoingIs, PlacedIs, SaneIs, MarginIs DEF Placed, Typing, States
<1>2. /\ t \in Terminals /\ t.y = Isize /\ t.line = d.t.line /\ t.x = Max2(d.t.x - Max2(1, 0), 0)
  <2>1. d.t \in Anywhere /\ 1 \in Int
    BY <1>1 DEF Terminals
  <2> QED BY <1>1, <2>1, LeftIs
<1>3. t.x = c /\ c \in 0..(Margin - 1)
  <2>1. Max2(1, 0) = 1
    BY DEF Max2
  <2>2. Max2(d.icol - 1, 0) = d.icol - 1 /\ c \in 0..(Margin - 1)
    BY <1>1 DEF Max2
  <2> QED BY <1>1, <1>2, <2>1, <2>2
<1>4. Base(e) + 0 * Margin = Base(e) /\ 0 \in Int
  BY <1>1, BaseIs
<1>5. c = d.icol + (new - e.k) - 0 * Margin
  BY <1>1
<1> HIDE DEF t, c
<1>6. Full(d.t, e, Base(e)) => Full(t, e, Base(e) + 0 * Margin)
  BY <1>2, <1>4 DEF Full, Over
<1> QED BY <1>2, <1>3, <1>4, <1>5, <1>6, MovedKeeps DEF t, c

LEMMA StepRight ==
  ASSUME Isize \in Nat \ {0}, NEW e, Echoing(e), NEW new \in 0..Len(e.b), NEW d, Placed(d, e),
         new = e.k + 1, d.icol < Margin - 1
  PROVE  Keeps(d, e, D(Put(d.t, <<e.b[new]>>), d.icol + 1), Moved(e, new))
<1> DEFINE s == <<e.b[new]>>
           t == Put(d.t, s)
           c == d.icol + 1
           q == Base(e)
<1>1. /\ Sane(e) /\ d.t \in Terminals /\ d.t.x = d.icol /\ d.t.y = Isize /\ d.icol \in Nat
      /\ e.k \in Nat /\ e.o \in Nat /\ Margin \in Nat /\ Columns = 1..(Margin + 1)
      /\ new \in Nat /\ Len(e.b) \in Nat /\ new <= Len(e.b)
      /\ q + d.icol = e.o + e.k /\ q \in Nat
  <2>1. Sane(e) /\ Cur(e) = e.o + e.k
    BY EchoingIs
  <2>2. /\ d.t \in Terminals /\ d.t.x = d.icol /\ d.t.y = Isize /\ d.icol \in 0..(Margin - 1)
    BY <2>1, PlacedIs DEF Placed, States
  <2>3. q + d.icol = Cur(e) /\ q \in Nat
    BY <2>1, PlacedIs, BaseIs
  <2>4. e.k \in Nat /\ e.o \in Nat /\ Margin \in Nat /\ Columns = 1..(Margin + 1) /\ Len(e.b) \in Nat
    BY <2>1, SaneIs, MarginIs DEF Columns
  <2> QED BY <2>1, <2>2, <2>3, <2>4
<1>2. s \in Seq(Chars) /\ Len(s) = 1 /\ s[1] = e.b[new]
  <2>1. new \in 1..Len(e.b) /\ e.b \in Seq(Chars)
    BY <1>1, SaneIs
  <2> QED BY <2>1
<1> HIDE DEF s, q
<1>3. /\ t \in Terminals /\ t.y = Isize /\ t.x = c /\ Aloft(d.t, t)
      /\ \A i \in Columns : t.line[Isize][i] = IF i - d.icol \in 1..1 THEN s[i - d.icol] ELSE d.t.line[Isize][i]
  <2>1. d.t.x + Len(s) <= Margin
    BY <1>1, <1>2
  <2>2. /\ t \in Terminals /\ t.y = Isize /\ t.x = d.t.x + Len(s) /\ Aloft(d.t, t)
        /\ \A i \in Columns : t.line[Isize][i]
             = IF i - d.t.x \in 1..Len(s) THEN s[i - d.t.x] ELSE d.t.line[Isize][i]
    <3>1. d.t \in Terminals /\ d.t.y = Isize
      BY <1>1
    <3> QED BY ONLY <3>1, Isize \in Nat \ {0}, <1>2, <2>1, PutHere
  <2> HIDE DEF t
  <2> QED BY <1>1, <1>2, <2>2
<1>4. c \in 0..(Margin - 1) /\ c = d.icol + (new - e.k) - 0 * Margin /\ 0 \in Int
  BY <1>1
<1> HIDE DEF t, c
<1>5. ASSUME Full(d.t, e, q) PROVE Full(t, e, q)
  <2>1. Over(t, e, q) /\ RowIs(d.t.line[Isize], e, q)
    BY <1>1, <1>3, <1>5, OverSame DEF Full, Aloft
  <2>2. ASSUME NEW i \in Columns, i > 0 PROVE t.line[Isize][i] = d.t.line[Isize][i]
    <3>1. i \in Int
      BY <1>1
    <3>2. CASE i = d.icol + 1
      <4>1. i - d.icol = 1 /\ i <= Margin /\ q + i \in Nat /\ ~(q + i <= e.o) /\ (q + i) - e.o = new
        <5>1. q \in Nat /\ e.o \in Nat /\ e.k \in Nat /\ new \in Nat /\ d.icol \in Nat /\ Margin \in Nat
          BY <1>1
        <5>2. q + d.icol = e.o + e.k
          BY <1>1
        <5>3. q + i = e.o + e.k + 1
          BY ONLY <3>1, <3>2, <5>1, <5>2
        <5>4. i - d.icol = 1 /\ i <= Margin
          BY ONLY <3>1, <3>2, <5>1, d.icol < Margin - 1
        <5> QED BY ONLY <5>1, <5>3, <5>4, new = e.k + 1
      <4>2. t.line[Isize][i] = e.b[new]
        BY <1>2, <1>3, <4>1
      <4>3. d.t.line[Isize][i] = Glyph(e, q + i)
        BY <2>1, <2>2, <4>1 DEF RowIs, Ends
      <4> QED BY <1>1, <4>1, <4>2, <4>3, EchoingIs
    <3>3. CASE i # d.icol + 1
      <4>1. i - d.icol \notin 1..1
        BY <1>1, <3>1, <3>3
      <4> QED BY <1>3, <4>1
    <3> QED BY <3>2, <3>3
  <2>3. RowIs(t.line[Isize], e, q)
    BY <2>1, <2>2 DEF RowIs, Ends
  <2> QED BY <2>1, <2>3 DEF Full
<1>6. Full(d.t, e, Base(e)) => Full(t, e, Base(e) + 0 * Margin)
  <2>1. Base(e) + 0 * Margin = Base(e)
    BY <1>1 DEF q
  <2> QED BY <1>5, <2>1 DEF q
<1> QED BY <1>3, <1>4, <1>6, MovedKeeps DEF t, c, s

LEMMA input_cmoveIs ==
  ASSUME Isize \in Nat \ {0}, NEW e, Sane(e), NEW new \in 0..Len(e.b), NEW d, Placed(d, e)
  PROVE  Keeps(d, e, input_cmove(d, e, new), Moved(e, new))
<1> DEFINE r == input_cmove(d, e, new)
           f == Moved(e, new)
<1>1. e.k \in 0..Len(e.b) /\ Len(e.b) \in Nat /\ Margin \in Nat
  BY SaneIs, MarginIs
<1>2. CASE Hiding(e)
  <2>1. r = d
    BY <1>2 DEF input_cmove, Hiding
  <2>2. Hiding(f) /\ e.p = f.p /\ e.o = f.o
    BY <1>2, MovedIs
  <2> QED BY <1>2, <2>1, <2>2, HidingSame
<1>3. CASE Echoing(e) /\ new = e.k
  <2>1. r = d
    BY <1>3 DEF input_cmove
  <2>2. f = e
    <3>1. e \in Lines
      BY DEF Sane
    <3> QED BY <1>3, <3>1 DEF Moved, Lines
  <2>3. Keeps(d, e, d, e)
    BY DEF Keeps
  <2> QED BY <2>1, <2>2, <2>3
<1>4. CASE Echoing(e) /\ new = e.k - 1 /\ d.icol > 0
  <2>1. r = D(Left(d.t, 1), d.icol - 1)
    <3>1. new # e.k
      BY <1>1, <1>4
    <3> QED BY <1>4, <3>1 DEF input_cmove, Echoing
  <2> QED BY <1>4, <2>1, StepLeft
<1>5. CASE Echoing(e) /\ new = e.k + 1 /\ d.icol < Margin - 1
  <2>1. r = D(Put(d.t, <<e.b[new]>>), d.icol + 1)
    <3>1. new # e.k /\ new # e.k - 1
      BY <1>1, <1>5
    <3> QED BY <1>5, <3>1 DEF input_cmove, Echoing
  <2> QED BY <1>5, <2>1, StepRight
<1>6. CASE Echoing(e) /\ new > e.k /\ ~(new = e.k + 1 /\ d.icol < Margin - 1)
  <2>1. r = Forward(d, e, new)
    <3>1. new # e.k /\ new # e.k - 1
      BY <1>1, <1>6
    <3> QED BY <1>6, <3>1 DEF input_cmove, Echoing
  <2> QED BY <1>6, <2>1, ForwardIs
<1>7. CASE Echoing(e) /\ new < e.k /\ ~(new = e.k - 1 /\ d.icol > 0)
  <2>1. r = Backward(d, e, new)
    <3>1. new # e.k /\ new # e.k + 1 /\ ~(new > e.k)
      BY <1>1, <1>7
    <3> QED BY <1>7, <3>1 DEF input_cmove, Echoing
  <2>2. new \in 0..e.k /\ d.t \in Anywhere /\ d.icol \in 0..(Margin - 1)
    <3>1. d \in States
      BY PlacedIs
    <3> QED BY <1>1, <1>7, <3>1 DEF States, Terminals
  <2>3. PICK m \in Int, c \in 0..(Margin - 1), u \in Terminals :
          /\ r = D(u, c) /\ u.x = c /\ u.y = Isize
          /\ c = d.icol + (new - e.k) - m * Margin
          /\ Echoing(e) /\ Full(d.t, e, Base(e)) => Full(u, e, Base(e) + m * Margin)
    <3> HIDE DEF r
    <3> QED BY <2>1, <2>2, BackwardIs
  <2> HIDE DEF r
  <2> QED BY <1>7, <2>3, MovedKeeps DEF r
<1>8. Echoing(e) => new = e.k \/ new > e.k \/ new < e.k
  BY <1>1
<1> QED BY <1>2, <1>3, <1>4, <1>5, <1>6, <1>7, <1>8, EchoingOrHiding

\* To the left end, from anywhere.
LEMMA input_cmoveHome ==
  ASSUME Isize \in Nat \ {0}, NEW e, Sane(e), NEW d, d.t \in Anywhere, d.icol \in 0..(Margin - 1)
  PROVE  input_cmove(d, e, 0).t \in Anywhere
<1> DEFINE r == input_cmove(d, e, 0)
<1>1. e.k \in Nat
  BY SaneIs
<1>2. Left(d.t, 1) \in Anywhere
  <2>1. 1 \in Int
    OBVIOUS
  <2> QED BY <2>1, LeftIs
<1>3. CASE 0 = e.k \/ Hiding(e)
  <2>1. r = d
    BY <1>3 DEF input_cmove, Hiding
  <2> QED BY <2>1
<1>4. CASE ~(0 = e.k) /\ Echoing(e)
  <2>1. 0 # e.k + 1 /\ ~(0 > e.k) /\ 0 \in 0..e.k
    BY <1>1, <1>4
  <2>2. r = D(Left(d.t, 1), d.icol - 1) \/ r = Backward(d, e, 0)
    BY <1>4, <2>1 DEF input_cmove, Echoing
  <2>3. CASE r = D(Left(d.t, 1), d.icol - 1)
    BY <1>2, <2>3 DEF D
  <2>4. CASE r = Backward(d, e, 0)
    <3>1. PICK u, c : u \in Terminals /\ r = D(u, c)
      <4> HIDE DEF r
      <4> QED BY <2>1, <2>4, BackwardIs
    <3> QED BY <3>1 DEF D, Terminals
  <2> QED BY <2>2, <2>3, <2>4
<1> QED BY <1>3, <1>4, EchoingOrHiding

-----------------------------------------------------------------------------
(* Deleting.                                                               *)

\* The line without the num characters after the cursor.
Cutout(e, num) == [e EXCEPT !.b = s_delete(e.b, e.k, num)]

LEMMA CutoutIs ==
  ASSUME NEW e, Sane(e), NEW num \in 0..(Len(e.b) - e.k)
  PROVE  LET f == Cutout(e, num) IN
         /\ Sane(f) /\ Len(f.b) = Len(e.b) - num /\ f.k = e.k /\ f.p = e.p /\ f.o = e.o /\ f.echo = e.echo
         /\ (Echoing(e) => Echoing(f)) /\ (Hiding(e) => Hiding(f))
         /\ \A i \in 1..e.k : f.b[i] = e.b[i]
         /\ \A i \in 1..(Len(e.b) - (e.k + num)) : f.b[e.k + i] = e.b[(e.k + num) + i]
<1> DEFINE f == Cutout(e, num)
           m == Len(e.b) - (e.k + num)
           x == From(e.b, 0, e.k)
           z == From(e.b, e.k + num, m)
           b == x \o z
<1>1. /\ e.b \in Seq(Chars) /\ e.k \in Nat /\ Len(e.b) \in Nat /\ e.k <= Len(e.b)
      /\ num \in Nat /\ m \in Nat /\ e.k + num + m = Len(e.b)
  <2>1. e.b \in Seq(Chars) /\ e.k \in Nat /\ Len(e.b) \in Nat /\ e.k <= Len(e.b)
    BY SaneIs
  <2> QED BY <2>1
<1>2. x \in Seq(Chars) /\ Len(x) = e.k /\ \A i \in 1..e.k : x[i] = e.b[i]
  <2>1. 0 \in Nat /\ 0 + e.k <= Len(e.b)
    BY <1>1
  <2>2. /\ x \in Seq(Chars) /\ Len(x) = e.k /\ \A i \in 1..e.k : x[i] = e.b[0 + i]
    BY <1>1, <2>1, FromIs
  <2>3. \A i \in 1..e.k : 0 + i = i
    OBVIOUS
  <2> QED BY <2>2, <2>3
<1> HIDE DEF m
<1>3. z \in Seq(Chars) /\ Len(z) = m /\ \A i \in 1..m : z[i] = e.b[(e.k + num) + i]
  <2>1. (e.k + num) + m <= Len(e.b) /\ e.k + num \in Nat
    BY <1>1
  <2> QED BY ONLY <1>1, <2>1, FromIs DEF z
<1> HIDE DEF x, z
<1>4. /\ b \in Seq(Chars) /\ Len(b) = e.k + m
      /\ \A i \in 1..e.k : b[i] = x[i]
      /\ \A i \in 1..m : b[e.k + i] = z[i]
  <2>1. /\ x \o z \in Seq(Chars) /\ Len(x \o z) = Len(x) + Len(z)
        /\ \A i \in 1..(Len(x) + Len(z)) : (x \o z)[i] = IF i <= Len(x) THEN x[i] ELSE z[i - Len(x)]
    BY <1>2, <1>3, ConcatProperties
  <2>2. /\ b \in Seq(Chars) /\ Len(b) = e.k + m
        /\ \A i \in 1..(e.k + m) : b[i] = IF i <= e.k THEN x[i] ELSE z[i - e.k]
    BY <1>2, <1>3, <2>1
  <2> HIDE DEF b
  <2>3. ASSUME NEW i \in 1..e.k PROVE b[i] = x[i]
    <3>1. i \in 1..(e.k + m) /\ i <= e.k
      BY <1>1
    <3> QED BY <2>2, <3>1
  <2>4. ASSUME NEW i \in 1..m PROVE b[e.k + i] = z[i]
    <3>1. e.k + i \in 1..(e.k + m) /\ ~(e.k + i <= e.k) /\ (e.k + i) - e.k = i
      BY <1>1
    <3> QED BY <2>2, <3>1
  <2> QED BY <2>2, <2>3, <2>4
<1>5. f = [e EXCEPT !.b = b]
  <2>1. Len(e.b) - e.k - num = Len(e.b) - (e.k + num)
    BY <1>1
  <2> QED BY <2>1 DEF Cutout, s_delete, b, x, z, m
<1> HIDE DEF b, f
<1>6. e \in Lines /\ e.o <= Len(e.p)
  BY DEF Sane
<1>7. f \in Lines /\ f.b = b /\ f.k = e.k /\ f.p = e.p /\ f.o = e.o /\ f.echo = e.echo
  BY <1>4, <1>5, <1>6 DEF Lines
<1>8. Sane(f) /\ Len(f.b) = Len(e.b) - num
  <2>1. e.k <= e.k + m /\ e.k + m = Len(e.b) - num
    BY <1>1
  <2> QED BY <1>4, <1>6, <1>7, <2>1 DEF Sane
<1>9. (Echoing(e) => Echoing(f)) /\ (Hiding(e) => Hiding(f))
  BY <1>7, <1>8 DEF Echoing, Hiding
<1>10. /\ \A i \in 1..e.k : f.b[i] = e.b[i]
       /\ \A i \in 1..m : f.b[e.k + i] = e.b[(e.k + num) + i]
  BY <1>2, <1>3, <1>4, <1>7
<1> QED BY <1>7, <1>8, <1>9, <1>10 DEF f, m

\* Nothing is deleted.
LEMMA CutoutNone ==
  ASSUME NEW e, Sane(e)
  PROVE  Cutout(e, 0) = e
<1> DEFINE f == Cutout(e, 0)
<1>1. e.b \in Seq(Chars) /\ e.k \in Nat /\ Len(e.b) \in Nat /\ e.k <= Len(e.b)
  BY SaneIs
<1>2. /\ Sane(f) /\ Len(f.b) = Len(e.b) - 0 /\ f.k = e.k /\ f.p = e.p /\ f.o = e.o /\ f.echo = e.echo
      /\ \A i \in 1..e.k : f.b[i] = e.b[i]
      /\ \A i \in 1..(Len(e.b) - (e.k + 0)) : f.b[e.k + i] = e.b[(e.k + 0) + i]
  <2>1. 0 \in 0..(Len(e.b) - e.k)
    BY <1>1
  <2> QED BY <2>1, CutoutIs
<1> HIDE DEF f
<1>3. \A i \in 1..Len(f.b) : f.b[i] = e.b[i]
  <2> TAKE i \in 1..Len(f.b)
  <2>1. i \in 1..Len(e.b)
    BY <1>1, <1>2
  <2>2. CASE i <= e.k
    BY <1>1, <1>2, <2>1, <2>2
  <2>3. CASE i > e.k
    <3>1. i - e.k \in 1..(Len(e.b) - (e.k + 0)) /\ e.k + (i - e.k) = i /\ (e.k + 0) + (i - e.k) = i
      BY <1>1, <2>1, <2>3
    <3>2. f.b[e.k + (i - e.k)] = e.b[(e.k + 0) + (i - e.k)]
      BY <1>2, <3>1
    <3> QED BY <3>1, <3>2
  <2> QED BY <1>1, <2>1, <2>2, <2>3
<1>4. f.b = e.b
  <2>1. f.b \in Seq(Chars) /\ Len(f.b) = Len(e.b)
    BY <1>1, <1>2, SaneIs
  <2> QED BY <1>1, <1>3, <2>1, SeqEqual
<1>5. f \in Lines /\ e \in Lines
  BY <1>2 DEF Sane
<1> QED BY <1>2, <1>4, <1>5 DEF Lines, f

\* The row is drawn again without num characters after the cursor; h has the
\* text, and may have the cursor where it was.
LEMMA ShortenIs ==
  ASSUME Isize \in Nat \ {0}, NEW e, Echoing(e), NEW num \in 0..(Len(e.b) - e.k), NEW d, Placed(d, e),
         NEW h, h.b = e.b
  PROVE  Keeps(d, e, Shorten(d, h, e.k + num, num), Cutout(e, num))
<1> DEFINE f == Cutout(e, num)
           k == e.k + num
           n == Min2(Len(e.b) - k, Margin - d.icol)
           m == Min2(num, Margin - d.icol - n)
           s == From(f.b, f.k, n)
           t == Drawn(d.t, s, m)
           c == d.icol
           q == Base(e)
           z == e.o + Len(e.b)
<1>1. /\ Sane(e) /\ e.b \in Seq(Chars) /\ e.k \in Nat /\ e.o \in Nat /\ Len(e.b) \in Nat /\ e.k <= Len(e.b)
      /\ num \in Nat /\ k \in Nat /\ k <= Len(e.b) /\ Cur(e) = e.o + e.k
  <2>1. /\ Sane(e) /\ e.b \in Seq(Chars) /\ e.k \in Nat /\ e.o \in Nat /\ Len(e.b) \in Nat /\ e.k <= Len(e.b)
        /\ Cur(e) = e.o + e.k
    BY SaneIs, EchoingIs
  <2> QED BY <2>1
<1>2. /\ Sane(f) /\ Echoing(f) /\ f.b \in Seq(Chars) /\ Len(f.b) = Len(e.b) - num /\ f.k = e.k /\ f.o = e.o /\ f.p = e.p
      /\ \A i \in 1..e.k : f.b[i] = e.b[i]
      /\ \A i \in 1..(Len(e.b) - k) : f.b[e.k + i] = e.b[k + i]
  BY <1>1, CutoutIs, SaneIs
<1>3. /\ d.t \in Terminals /\ d.t.y = Isize /\ d.t.x = c /\ c \in Nat /\ c < Margin /\ Margin \in Nat
      /\ q + c = e.o + e.k /\ q \in Nat /\ c = Cur(e) % Margin
  <2>1. /\ d.t \in Terminals /\ d.t.y = Isize /\ d.t.x = c /\ c \in 0..(Margin - 1) /\ c = Cur(e) % Margin
    BY <1>1, PlacedIs DEF Placed, States
  <2>2. Margin \in Nat /\ q \in Nat /\ q + c = Cur(e)
    BY <1>1, <2>1, BaseIs, MarginIs
  <2> QED BY <1>1, <2>1, <2>2
<1>4. Len(f.b) - f.k = Len(e.b) - k /\ Len(e.b) - k \in Nat
  <2> DEFINE x == Len(e.b)
             y == e.k
             w == Len(f.b)
             v == f.k
  <2>1. w = x - num /\ v = y /\ k = y + num
    BY <1>2
  <2>2. x \in Nat /\ y \in Nat /\ k \in Nat /\ k <= x
    BY <1>1
  <2>3. num \in Nat
    BY <1>1
  <2> HIDE DEF x, y, w, v, k
  <2>4. w - v = x - k /\ x - k \in Nat
    BY ONLY <2>1, <2>2, <2>3
  <2> QED BY <2>4 DEF x, w, v
<1> HIDE DEF f, c, q
<1>5. n \in Nat /\ n <= Len(e.b) - k /\ n <= Margin - c /\ (n = Len(e.b) - k \/ n = Margin - c)
  <2>1. Len(e.b) - k \in Int /\ Len(e.b) - k >= 0
    BY <1>4
  <2>2. Margin - c \in Int /\ Margin - c >= 0
    BY <1>3
  <2> HIDE DEF k
  <2>3. n \in Int /\ n <= Len(e.b) - k /\ n <= Margin - c /\ (n = Len(e.b) - k \/ n = Margin - c)
    BY <2>1, <2>2, MinIs DEF c
  <2> HIDE DEF n
  <2> QED BY <2>1, <2>2, <2>3
<1> HIDE DEF n, k
<1>6. m \in Nat /\ m <= num /\ c + n + m <= Margin /\ (m = num \/ c + n + m = Margin)
  <2>4. Margin \in Nat /\ c \in Nat
    BY <1>3
  <2>5. n \in Nat /\ n <= Margin - c
    BY <1>5
  <2>6. (Margin - c) - n \in Int /\ (Margin - c) - n >= 0
    BY ONLY <2>4, <2>5
  <2>7. num \in Int /\ num >= 0
    OBVIOUS
  <2>1. (Margin - c) - n \in Int /\ (Margin - c) - n >= 0 /\ num \in Int /\ num >= 0
    BY <2>6, <2>7
  <2>2. m = Min2(num, (Margin - c) - n)
    BY DEF c
  <2>3. m \in Int /\ m <= num /\ m <= (Margin - c) - n /\ (m = num \/ m = (Margin - c) - n)
    BY <2>1, <2>2, MinIs
  <2> HIDE DEF m
  <2> QED BY <1>3, <1>5, <2>1, <2>3
<1> HIDE DEF m
<1>7. s \in Seq(Chars) /\ Len(s) = n /\ s = From(e.b, k, n)
  <2>1. e.b \in Seq(Chars) /\ k \in Nat /\ n \in Nat /\ k + n <= Len(e.b)
    <3>1. e.b \in Seq(Chars)
      BY <1>1
    <3>2. k \in Nat
      BY <1>1
    <3>3. n \in Nat /\ n <= Len(e.b) - k
      BY <1>5
    <3>4. Len(e.b) \in Nat
      BY <1>1
    <3> QED BY ONLY <3>1, <3>2, <3>3, <3>4
  <2>2. f.b \in Seq(Chars) /\ f.k \in Nat /\ f.k + n <= Len(f.b)
    <3>1. f.b \in Seq(Chars)
      BY <1>2
    <3>2. f.k \in Nat
      BY <1>1, <1>2
    <3>3. Len(f.b) \in Nat
      BY <3>1
    <3>4. n \in Nat /\ n <= Len(f.b) - f.k
      BY <1>4, <1>5
    <3> QED BY ONLY <3>1, <3>2, <3>3, <3>4
  <2> DEFINE y == From(e.b, k, n)
  <2>3. y \in Seq(Chars) /\ Len(y) = n /\ \A i \in 1..n : y[i] = e.b[k + i]
    BY ONLY <2>1, FromIs DEF y
  <2>4. s \in Seq(Chars) /\ Len(s) = n /\ \A i \in 1..n : s[i] = f.b[f.k + i]
    BY ONLY <2>1, <2>2, FromIs DEF s
  <2> HIDE DEF s, y
  <2>5. \A i \in 1..n : s[i] = y[i]
    <3> TAKE i \in 1..n
    <3>1. i \in 1..(Len(e.b) - k)
      BY <1>1, <1>4, <1>5
    <3> QED BY <1>2, <2>3, <2>4, <3>1
  <2>6. s = y
    BY <2>3, <2>4, <2>5, SeqEqual
  <2> QED BY <2>4, <2>6 DEF y
<1>8. Shorten(d, h, k, num) = D(t, c)
  <2>1. Shorten(d, h, k, num) = D(move_left(clear_end(Put(d.t, From(e.b, k, n)), m), n, c), c)
    BY DEF Shorten, n, m, c
  <2> QED BY <1>3, <1>7, <2>1 DEF Drawn, t
<1> HIDE DEF s, t
<1>9. t \in Terminals /\ t.y = Isize /\ t.x = c /\ Aloft(d.t, t)
  <2>1. d.t.x + Len(s) <= Margin /\ d.t.x + Len(s) + m <= Margin
    BY <1>3, <1>5, <1>6, <1>7
  <2>2. m \in Int
    BY <1>6
  <2> QED BY ONLY Isize \in Nat \ {0}, <1>3, <1>7, <2>1, <2>2, DrawnIs DEF t
<1>10. D(t, c).t = t /\ D(t, c).icol = c
  BY DEF D
<1>11. Cur(f) = Cur(e) /\ Base(f) = q
  <2>1. Cur(f) = Cur(e)
    BY <1>1, <1>2, EchoingIs
  <2> QED BY <2>1 DEF Base, q
<1>12. Placed(D(t, c), f)
  BY <1>3, <1>9, <1>10, <1>11 DEF Placed
<1>13. ASSUME Seen(d, e) PROVE Seen(D(t, c), f)
  <2>1. ASSUME NEW j \in 1..Cur(e) PROVE Glyph(e, j) = Glyph(f, j)
    <3>1. j \in Nat /\ j <= e.o + e.k
      BY <1>1
    <3>2. CASE j <= e.o
      BY <1>2, <3>1, <3>2, EchoingIs
    <3>3. CASE j > e.o
      <4>1. j - e.o \in 1..e.k /\ j - e.o <= Len(e.b) /\ ~(j <= e.o)
        BY <1>1, <3>1, <3>3
      <4>2. j - e.o <= Len(f.b)
        <5>1. Len(f.b) >= e.k /\ Len(f.b) \in Int
          BY <1>1, <1>2, <1>4
        <5> QED BY <1>1, <4>1, <5>1
      <4> QED BY <1>2, <3>1, <4>1, <4>2, EchoingIs
    <3> QED BY <1>1, <3>1, <3>2, <3>3
  <2>2. Trail(d, f, Cur(e), z)
    <3>1. Trail(d, f, Cur(e), e.o + Len(e.b))
      BY <1>13, <2>1, SeenTrail
    <3> QED BY <3>1
  <2>3. Cur(e) - d.icol = q
    BY <1>1, PlacedIs DEF q
  <2> HIDE DEF z
  <2>4. /\ Over(d.t, f, q) /\ Begins(d.t.line[Isize], f, q, c)
        /\ \A j \in Columns : j > c /\ (j = Margin + 1 \/ q + j > z) => d.t.line[Isize][j] = Blank
    BY <2>2, <2>3 DEF Trail, c
  <2>5. Over(t, f, q)
    BY <1>9, <2>4, OverSame DEF Aloft
  <2>6. ASSUME NEW i \in Columns, i > d.t.x + n, i > d.t.x + n + m PROVE d.t.line[Isize][i] = Blank
    <3>7. c \in Nat /\ d.t.x = c /\ Margin \in Nat
      BY <1>3
    <3>8. n \in Nat
      BY <1>5
    <3>9. m \in Nat
      BY <1>6
    <3>10. i \in Nat /\ i <= Margin + 1
      BY <3>7 DEF Columns
    <3>11. i > c + n + m
      BY <2>6, <3>7
    <3>12. i > c
      BY ONLY <3>7, <3>8, <3>9, <3>10, <3>11
    <3>1. i \in Nat /\ i > c + n + m /\ i > c /\ i <= Margin + 1
      BY <3>10, <3>11, <3>12
    <3>2. c + n + m = Margin => i = Margin + 1
      BY <1>3, <1>5, <1>6, <3>1
    <3>5. Margin \in Nat /\ c \in Nat
      BY <1>3
    <3>6. n \in Nat /\ m \in Nat
      BY <1>5, <1>6
    <3>3. n = Margin - c => i = Margin + 1
      BY ONLY <3>1, <3>5, <3>6
    <3>4. ASSUME m = num, n = Len(e.b) - k PROVE q + i > z
      <4>1. c + n + m = c + Len(e.b) - e.k
        <5>1. k = e.k + num
          BY DEF k
        <5>2. e.k \in Int /\ num \in Int /\ Len(e.b) \in Int /\ c \in Int
          <6>1. e.k \in Int
            BY <1>1
          <6>2. num \in Int
            OBVIOUS
          <6>3. Len(e.b) \in Int
            BY <1>1
          <6>4. c \in Int
            BY <1>3
          <6> QED BY <6>1, <6>2, <6>3, <6>4
        <5> DEFINE x == Len(e.b)
                   y == e.k
        <5>3. n = x - k /\ m = num /\ k = y + num
          BY <3>4, <5>1
        <5>4. x \in Int /\ y \in Int /\ num \in Int /\ c \in Int
          BY <5>2
        <5> HIDE DEF x, y
        <5>5. c + n + m = c + x - y
          BY ONLY <5>3, <5>4
        <5> QED BY <5>5 DEF x, y
      <4>2. z = e.o + Len(e.b)
        BY DEF z
      <4>3. e.o \in Int /\ e.k \in Int
        BY <1>1
      <4>4. Len(e.b) \in Int
        BY <1>1
      <4>5. q \in Int /\ c \in Int /\ q + c = e.o + e.k
        BY <1>3
      <4> DEFINE x == Len(e.b)
                 y == e.k
                 w == e.o
      <4>7. x \in Int /\ y \in Int /\ w \in Int /\ q \in Int /\ c \in Int /\ q + c = w + y /\ z = w + x
        BY <4>2, <4>3, <4>4, <4>5
      <4>8. i \in Int /\ i > c + n + m
        BY <3>1
      <4>9. c + n + m = c + x - y
        BY <4>1
      <4> HIDE DEF x, y, w, z
      <4>10. i > c + x - y
        BY ONLY <4>8, <4>9
      <4> QED BY ONLY <4>7, <4>8, <4>10
    <3> QED BY <1>5, <1>6, <2>4, <3>1, <3>2, <3>3, <3>4
  <2>7. RowIs(t.line[Isize], f, q)
    <3>1. n = Min2(Len(f.b) - f.k, Margin - d.t.x) /\ d.t.x + n + m <= Margin /\ d.t.x < Margin
      BY <1>3, <1>4, <1>5, <1>6 DEF n, c
    <3>2. q + d.t.x = f.o + f.k /\ Begins(d.t.line[Isize], f, q, d.t.x) /\ q \in Int
      BY <1>2, <1>3, <2>4
    <3>3. m \in Int
      BY <1>6
    <3>4. d.t \in Terminals /\ d.t.y = Isize /\ Echoing(f) /\ n \in Nat
      BY <1>2, <1>3, <1>5
    <3> QED BY ONLY Isize \in Nat \ {0}, <2>6, <3>1, <3>2, <3>3, <3>4, DrawnRow DEF t, s
  <2> QED BY <1>10, <1>11, <2>5, <2>7 DEF Seen, Full
<1> QED BY <1>8, <1>12, <1>13 DEF Keeps, f, k

LEMMA KeepsTransitive ==
  ASSUME NEW d, NEW e, NEW r, NEW f, NEW s, NEW g, Keeps(d, e, r, f), Keeps(r, f, s, g)
  PROVE  Keeps(d, e, s, g)
BY DEF Keeps

LEMMA input_bdelIs ==
  ASSUME Isize \in Nat \ {0}, NEW e, Sane(e), NEW num \in 0..e.k, NEW d, Placed(d, e)
  PROVE  Keeps(d, e, input_bdel(d, e, num), Cutout(Moved(e, e.k - num), num))
<1> DEFINE f == Moved(e, e.k - num)
           g == Cutout(f, num)
<1>1. /\ e.k \in Nat /\ Len(e.b) \in Nat /\ e.k <= Len(e.b) /\ e.k - num \in 0..Len(e.b)
  <2>1. e.k \in Nat /\ Len(e.b) \in Nat /\ e.k <= Len(e.b)
    BY SaneIs
  <2> QED BY <2>1
<1>2. /\ Sane(f) /\ f.b = e.b /\ f.k = e.k - num /\ f.p = e.p /\ f.o = e.o
      /\ (Echoing(e) => Echoing(f)) /\ (Hiding(e) => Hiding(f))
  BY <1>1, MovedIs
<1>3. num \in 0..(Len(f.b) - f.k)
  BY <1>1, <1>2
<1>4. CASE Hiding(e)
  <2>1. input_bdel(d, e, num) = d
    BY <1>4 DEF input_bdel, Hiding
  <2>2. Hiding(g) /\ g.p = f.p /\ g.o = f.o
    BY <1>2, <1>3, <1>4, CutoutIs
  <2> QED BY <1>2, <1>4, <2>1, <2>2, HidingSame
<1>5. CASE num = 0
  <2>1. input_bdel(d, e, num) = d
    BY <1>5 DEF input_bdel
  <2>2. f = e
    <3>1. e \in Lines /\ e.k - num = e.k
      BY <1>1, <1>5 DEF Sane
    <3> QED BY <3>1 DEF Moved, Lines
  <2>3. g = e
    BY <1>5, <2>2, CutoutNone
  <2> QED BY <2>1, <2>3 DEF Keeps
<1>6. CASE Echoing(e) /\ num # 0
  <2> DEFINE r == input_cmove(d, e, e.k - num)
  <2>1. Keeps(d, e, r, f)
    BY <1>1, input_cmoveIs
  <2>2. Placed(r, f)
    BY <2>1 DEF Keeps
  <2>3. input_bdel(d, e, num) = Shorten(r, e, f.k + num, num)
    <3>1. f.k + num = e.k
      BY <1>1, <1>2
    <3>2. input_bdel(d, e, num) = Shorten(r, e, e.k, num)
      BY <1>6 DEF input_bdel, Echoing
    <3> QED BY <3>1, <3>2
  <2> HIDE DEF r, f
  <2>4. Keeps(r, f, Shorten(r, e, f.k + num, num), Cutout(f, num))
    BY <1>2, <1>3, <1>6, <2>2, ShortenIs
  <2> QED BY <2>1, <2>3, <2>4, KeepsTransitive DEF f
<1> QED BY <1>4, <1>5, <1>6, EchoingOrHiding

LEMMA input_fdelIs ==
  ASSUME Isize \in Nat \ {0}, NEW e, Sane(e), NEW num \in 0..(Len(e.b) - e.k), NEW d, Placed(d, e)
  PROVE  Keeps(d, e, input_fdel(d, e, num), Cutout(e, num))
<1>1. CASE Hiding(e)
  <2>1. input_fdel(d, e, num) = d
    BY <1>1 DEF input_fdel, Hiding
  <2>2. Hiding(Cutout(e, num)) /\ Cutout(e, num).p = e.p /\ Cutout(e, num).o = e.o
    BY <1>1, CutoutIs
  <2> QED BY <1>1, <2>1, <2>2, HidingSame
<1>2. CASE Echoing(e)
  <2>1. input_fdel(d, e, num) = Shorten(d, e, e.k + num, num)
    BY <1>2 DEF input_fdel, Echoing
  <2> QED BY <1>2, <2>1, ShortenIs
<1> QED BY <1>1, <1>2, EchoingOrHiding

-----------------------------------------------------------------------------
(* The prompt.                                                             *)

\* The line without its text.
Emptied(e) == [e EXCEPT !.b = <<>>, !.k = 0]

LEMMA EmptiedIs ==
  ASSUME NEW e, Sane(e)
  PROVE  LET f == Emptied(e) IN
         /\ Sane(f) /\ f.b = <<>> /\ f.k = 0 /\ f.p = e.p /\ f.o = e.o /\ f.echo = e.echo
         /\ (Echoing(e) => Echoing(f)) /\ (Hiding(e) => Hiding(f))
         /\ Cur(f) = e.o /\ Base(f) = e.o - (e.o % Margin)
         /\ \A j \in Nat : Glyph(f, j) = IF j <= e.o THEN e.p[j] ELSE Blank
<1> DEFINE f == Emptied(e)
<1>1. e \in Lines /\ e.o <= Len(e.p) /\ <<>> \in Seq(Chars) /\ Len(<<>>) = 0 /\ e.o \in Nat
  BY SaneIs DEF Sane
<1>2. f \in Lines /\ f.b = <<>> /\ f.k = 0 /\ f.p = e.p /\ f.o = e.o /\ f.echo = e.echo
  BY <1>1 DEF Emptied, Lines
<1> HIDE DEF f
<1>3. Sane(f)
  BY <1>1, <1>2 DEF Sane
<1>4. (Echoing(e) => Echoing(f)) /\ (Hiding(e) => Hiding(f))
  BY <1>2, <1>3 DEF Echoing, Hiding
<1>5. Cur(f) = e.o /\ \A j \in Nat : Glyph(f, j) = IF j <= e.o THEN e.p[j] ELSE Blank
  <2>1. CASE Echoing(f)
    <3>1. Cur(f) = e.o + 0
      BY <1>2, <2>1, EchoingIs
    <3>2. ASSUME NEW j \in Nat PROVE Glyph(f, j) = IF j <= e.o THEN e.p[j] ELSE Blank
      <4>1. ~(j <= e.o) => ~(j - e.o <= 0)
        BY <1>1
      <4> QED BY <1>1, <1>2, <2>1, <4>1, EchoingIs
    <3> QED BY <1>1, <3>1, <3>2
  <2>2. CASE Hiding(f)
    BY <1>2, <2>2, HidingIs
  <2> QED BY <1>3, <2>1, <2>2, EchoingOrHiding
<1>6. Base(f) = e.o - (e.o % Margin)
  BY <1>5 DEF Base
<1> QED BY <1>2, <1>3, <1>4, <1>5, <1>6 DEF f

\* A row of the prompt, or what there is of it, on a blank bottom row.
LEMMA PromptPiece ==
  ASSUME Isize \in Nat \ {0}, NEW e, Sane(e), NEW t \in Terminals, t.x = 0, t.y = Isize,
         NEW k \in Nat, k <= e.o
  PROVE  LET m == Min2(e.o - k, Margin)
             u == Put(t, From(e.p, k, m))
         IN /\ m \in 0..Margin /\ (m = e.o - k \/ m = Margin) /\ m <= e.o - k
            /\ u \in Terminals /\ u.y = Isize /\ u.x = m /\ Aloft(t, u)
            /\ Clean(t.line[Isize], 0) => RowIs(u.line[Isize], Emptied(e), k)
<1> DEFINE m == Min2(e.o - k, Margin)
           s == From(e.p, k, m)
           u == Put(t, s)
           f == Emptied(e)
<1>1. e.p \in Seq(Chars) /\ Len(e.p) \in Nat /\ Margin \in Nat /\ Columns = 1..(Margin + 1)
      /\ e.o \in Nat /\ e.o <= Len(e.p)
  BY SaneIs, MarginIs DEF Columns
<1>2. m \in Nat /\ m <= Margin /\ m <= e.o - k /\ (m = e.o - k \/ m = Margin)
  <2>1. e.o - k \in Int /\ e.o - k >= 0
    BY <1>1
  <2>2. Margin \in Int /\ Margin >= 0
    BY <1>1
  <2>3. m \in Int /\ m <= e.o - k /\ m <= Margin /\ (m = e.o - k \/ m = Margin)
    BY <2>1, <2>2, MinIs
  <2> HIDE DEF m
  <2> QED BY <2>1, <2>2, <2>3
<1> HIDE DEF m
<1>3. s \in Seq(Chars) /\ Len(s) = m /\ \A i \in 1..m : s[i] = e.p[k + i]
  <2>1. k + m <= Len(e.p)
    BY <1>1, <1>2
  <2> QED BY ONLY <1>1, <1>2, <2>1, k \in Nat, FromIs DEF s
<1> HIDE DEF s
<1>4. /\ u \in Terminals /\ u.y = Isize /\ u.x = m /\ Aloft(t, u)
      /\ \A i \in Columns : u.line[Isize][i] = IF i - t.x \in 1..m THEN s[i - t.x] ELSE t.line[Isize][i]
  <2>1. t.x + Len(s) <= Margin /\ t.x + Len(s) = m
    BY <1>1, <1>2, <1>3
  <2>2. /\ u \in Terminals /\ u.y = Isize /\ u.x = t.x + Len(s) /\ Aloft(t, u)
        /\ \A i \in Columns : u.line[Isize][i] = IF i - t.x \in 1..Len(s) THEN s[i - t.x] ELSE t.line[Isize][i]
    BY <1>3, <2>1, PutHere
  <2> HIDE DEF u
  <2> QED BY <1>3, <2>1, <2>2
<1> HIDE DEF u, f
<1>5. ASSUME Clean(t.line[Isize], 0), NEW i \in Columns, i > 0
      PROVE  u.line[Isize][i] = IF i <= Margin THEN Glyph(f, k + i) ELSE Blank
  <2>1. i \in Nat /\ i > 0 /\ i <= Margin + 1 /\ i - t.x = i /\ k + i \in Nat
    BY <1>1
  <2>2. t.line[Isize][i] = Blank
    BY <1>5 DEF Clean
  <2>3. u.line[Isize][i] = IF i \in 1..m THEN s[i] ELSE Blank
    BY <1>4, <2>1, <2>2
  <2>4. Glyph(f, k + i) = IF k + i <= e.o THEN e.p[k + i] ELSE Blank
    BY <2>1, EmptiedIs DEF f
  <2>5. CASE i <= m
    <3>1. i \in 1..m /\ i <= Margin /\ k + i <= e.o
      BY <1>1, <1>2, <2>1, <2>5
    <3> QED BY <1>3, <2>3, <2>4, <3>1
  <2>6. CASE i > m
    <3>1. ~(i \in 1..m) /\ (i <= Margin => ~(k + i <= e.o))
      BY <1>1, <1>2, <2>1, <2>6
    <3> QED BY <2>3, <2>4, <3>1
  <2> QED BY <1>2, <2>1, <2>5, <2>6
<1> QED BY <1>2, <1>4, <1>5 DEF RowIs, Ends, f, u, s, m

\* On a blank bottom row draw_prompt() shows the prompt, and nothing else is
\* needed of the rows above.
LEMMA draw_promptIs ==
  ASSUME Isize \in Nat \ {0}, NEW e, Sane(e), NEW d, d.t \in Terminals, d.t.x = 0, d.t.y = Isize,
         Clean(d.t.line[Isize], 0)
  PROVE  Placed(draw_prompt(d, e), Emptied(e)) /\ Seen(draw_prompt(d, e), Emptied(e))
<1> DEFINE rows == (e.o + Margin - 1) \div Margin
           piece(t, i) == Put(t, From(e.p, (i - 1) * Margin, Min2(e.o - (i - 1) * Margin, Margin)))
           row(t, i) == IF i * Margin <= e.o THEN Iscr_fwd(piece(t, i)) ELSE piece(t, i)
           f == Emptied(e)
           q == e.o \div Margin
           c == e.o % Margin
<1>1. /\ e.o \in Nat /\ Margin \in Nat /\ Margin > 0 /\ Columns = 1..(Margin + 1)
      /\ Sane(f) /\ Cur(f) = e.o /\ Base(f) = e.o - c
      /\ \A j \in Nat : Glyph(f, j) = IF j <= e.o THEN e.p[j] ELSE Blank
  BY SaneIs, MarginIs, EmptiedIs DEF Columns
<1>2. c \in 0..(Margin - 1) /\ q \in Int /\ e.o = Margin * q + c
  <2>1. e.o \in Int
    BY <1>1
  <2> QED BY <2>1, ModIs
<1>3. q \in Nat /\ Margin * q \in Nat /\ Base(f) = Margin * q
  <2>1. Base(f) = Margin * (Cur(f) \div Margin) /\ Base(f) \in Nat
    BY <1>1, BaseIs
  <2>2. Base(f) = Margin * q
    BY <1>1, <2>1
  <2> HIDE DEF q, f
  <2>3. q >= 0
    <3> SUFFICES ASSUME q <= -1 PROVE FALSE
      BY <1>2
    <3>1. Margin * q <= -Margin
      BY <1>1, <1>2
    <3> QED BY <1>1, <2>1, <2>2, <3>1
  <2> QED BY <1>2, <2>1, <2>2, <2>3
<1>4. rows = IF c = 0 THEN q ELSE q + 1
  <2>1. CASE c = 0
    <3>1. e.o + Margin - 1 = Margin * q + (Margin - 1) /\ Margin - 1 \in 0..(Margin - 1)
      <4> HIDE DEF q, c
      <4> QED BY ONLY <1>1, <1>2, <1>3, <2>1
    <3>2. (Margin * q + (Margin - 1)) \div Margin = q
      <4> HIDE DEF q, c
      <4> QED BY <1>2, <3>1, ModUnique
    <3> QED BY <2>1, <3>1, <3>2
  <2>2. CASE c # 0
    <3>1. e.o + Margin - 1 = Margin * (q + 1) + (c - 1) /\ c - 1 \in 0..(Margin - 1) /\ q + 1 \in Int
      <4> HIDE DEF q, c
      <4>1. Margin * (q + 1) = Margin * q + Margin
        BY ONLY <1>1, <1>3
      <4>2. c - 1 \in 0..(Margin - 1) /\ q + 1 \in Int
        BY <1>1, <1>2, <2>2
      <4> DEFINE z == Margin * q
                 y == Margin * (q + 1)
      <4>3. z \in Nat /\ y = z + Margin /\ e.o = z + c /\ c \in Int
        BY <1>1, <1>2, <1>3, <4>1
      <4> HIDE DEF z, y
      <4>4. e.o + Margin - 1 = y + (c - 1)
        BY ONLY <1>1, <4>3
      <4> QED BY <4>2, <4>4 DEF y
    <3>2. (Margin * (q + 1) + (c - 1)) \div Margin = q + 1
      <4> HIDE DEF q, c
      <4> QED BY <3>1, ModUnique
    <3> QED BY <2>2, <3>1, <3>2
  <2> QED BY <2>1, <2>2
<1> HIDE DEF rows, f, q, c
<1>5. rows \in Nat /\ q \in 0..rows /\ rows <= q + 1
  BY <1>3, <1>4
<1>6. ASSUME NEW i \in 1..rows
      PROVE  /\ (i - 1) * Margin \in Nat /\ (i - 1) * Margin <= e.o /\ i * Margin = (i - 1) * Margin + Margin
             /\ i <= q => i * Margin <= e.o
             /\ i = q + 1 => ~(i * Margin <= e.o) /\ (i - 1) * Margin = Margin * q
  <2>1. i - 1 \in Nat /\ q - (i - 1) \in Nat /\ i \in Nat
    BY <1>3, <1>5
  <2>2. (i - 1) * Margin \in Nat /\ (q - (i - 1)) * Margin \in Nat
    BY <1>1, <2>1
  <2>3. (q - (i - 1)) * Margin = Margin * q - (i - 1) * Margin
    BY <1>1, <1>3, <2>1
  <2>4. i * Margin = (i - 1) * Margin + Margin
    BY <1>1, <2>1
  <2> DEFINE x == (i - 1) * Margin
             y == i * Margin
             z == Margin * q
             w == (q - (i - 1)) * Margin
  <2>5. x \in Nat /\ z \in Nat /\ w \in Nat /\ w = z - x /\ y = x + Margin /\ e.o = z + c /\ c \in Nat /\ c < Margin
    BY <1>1, <1>2, <1>3, <2>2, <2>3, <2>4
  <2>6. ASSUME i <= q PROVE y <= z
    <3>1. q - i \in Nat
      BY <1>3, <2>1, <2>6
    <3>2. (q - i) * Margin \in Nat /\ (q - i) * Margin = z - y
      BY <1>1, <1>3, <2>1, <3>1
    <3>3. y \in Int
      BY <1>1, <2>5
    <3> HIDE DEF x, y, z, w
    <3> QED BY <2>5, <3>2, <3>3
  <2>7. i = q + 1 => x = z
    BY <1>1, <1>3
  <2>10. e.o \in Nat /\ Margin \in Nat
    BY <1>1
  <2> HIDE DEF x, y, z, w
  <2>8. x <= e.o
    BY ONLY <2>5, <2>10
  <2>9. i = q + 1 => ~(y <= e.o)
    BY ONLY <2>5, <2>7, <2>10
  <2>11. i <= q => y <= e.o
    BY ONLY <2>5, <2>6, <2>10
  <2> QED BY <2>5, <2>7, <2>8, <2>9, <2>11 DEF x, y, z
<1>7. ASSUME NEW i \in 1..rows, NEW t \in Terminals, t.x = 0, t.y = Isize
      PROVE  LET m == Min2(e.o - (i - 1) * Margin, Margin) IN
             /\ m \in 0..Margin /\ (m = e.o - (i - 1) * Margin \/ m = Margin) /\ m <= e.o - (i - 1) * Margin
             /\ piece(t, i) \in Terminals /\ piece(t, i).y = Isize /\ piece(t, i).x = m /\ Aloft(t, piece(t, i))
             /\ Clean(t.line[Isize], 0) => RowIs(piece(t, i).line[Isize], f, (i - 1) * Margin)
  <2> DEFINE k == (i - 1) * Margin
  <2>1. k \in Nat /\ k <= e.o
    BY <1>6
  <2> HIDE DEF k
  <2>2. piece(t, i) = Put(t, From(e.p, k, Min2(e.o - k, Margin)))
    BY DEF k
  <2> HIDE DEF piece
  <2>3. LET m == Min2(e.o - k, Margin) IN
        /\ m \in 0..Margin /\ (m = e.o - k \/ m = Margin) /\ m <= e.o - k
        /\ piece(t, i) \in Terminals /\ piece(t, i).y = Isize /\ piece(t, i).x = m /\ Aloft(t, piece(t, i))
        /\ Clean(t.line[Isize], 0) => RowIs(piece(t, i).line[Isize], f, k)
    BY ONLY <1>7, <2>1, <2>2, Isize \in Nat \ {0}, Sane(e), PromptPiece DEF f
  <2> QED BY <2>3 DEF k
\* Each full row but the last scrolls.
<1> DEFINE Bare(t, i) == /\ t \in Terminals /\ t.x = 0 /\ t.y = Isize /\ Clean(t.line[Isize], 0)
                         /\ Over(t, f, i * Margin)
<1>8. ASSUME NEW i \in 1..q, NEW t, Bare(t, i - 1) PROVE Bare(row(t, i), i)
  <2>1. i \in 1..rows /\ i <= q /\ i * Margin <= e.o
    <3>1. i \in 1..rows /\ i <= q
      BY <1>3, <1>5
    <3> QED BY <1>6, <3>1
  <2> DEFINE u == piece(t, i)
  <2>2. row(t, i) = Iscr_fwd(u)
    BY <2>1
  <2>3. /\ u \in Terminals /\ u.y = Isize /\ Aloft(t, u) /\ RowIs(u.line[Isize], f, (i - 1) * Margin)
    <3> HIDE DEF piece
    <3> QED BY <1>7, <1>8, <2>1
  <2> HIDE DEF u, piece, row
  <2>4. u \in Anywhere /\ (i - 1) * Margin \in Int /\ (i - 1) * Margin + Margin = i * Margin
    <3>1. (i - 1) * Margin \in Nat /\ i * Margin = (i - 1) * Margin + Margin
      BY <1>6, <2>1
    <3> QED BY <2>3, <3>1 DEF Terminals
  <2>5. Over(u, f, (i - 1) * Margin)
    <3>1. Over(t, f, (i - 1) * Margin)
      BY <1>8
    <3> QED BY <2>3, <3>1, OverSame DEF Aloft
  <2>6. Full(u, f, (i - 1) * Margin)
    BY <2>3, <2>5 DEF Full
  <2> DEFINE k == (i - 1) * Margin
  <2>7. k \in Int /\ Full(u, f, k) /\ k + Margin = i * Margin
    BY <2>4, <2>6
  <2> HIDE DEF k
  <2>8. Over(Iscr_fwd(u), f, k + Margin) /\ Clean(Iscr_fwd(u).line[Isize], 0)
    BY <2>4, <2>7, ScrollUp
  <2>9. Over(Iscr_fwd(u), f, i * Margin)
    BY <2>7, <2>8
  <2> QED BY <2>2, <2>4, <2>8, <2>9, Iscr_fwdIs
<1>9. ASSUME NEW i \in 1..rows, NEW t \in Terminals PROVE row(t, i) \in Terminals
  <2> DEFINE k == (i - 1) * Margin
             m == Min2(e.o - k, Margin)
             z == From(e.p, k, m)
  <2>1. k \in Nat /\ k <= e.o
    BY <1>6
  <2> HIDE DEF k
  <2>2. m \in Nat /\ m <= e.o - k
    <3>1. e.o - k \in Int /\ e.o - k >= 0 /\ Margin \in Int /\ Margin >= 0
      BY <1>1, <2>1
    <3>2. m \in Int /\ m <= e.o - k /\ (m = e.o - k \/ m = Margin)
      BY <3>1, MinIs
    <3> HIDE DEF m
    <3> QED BY <3>1, <3>2
  <2> HIDE DEF m
  <2>3. z \in Seq(Chars)
    <3>1. e.p \in Seq(Chars) /\ Len(e.p) \in Nat /\ e.o <= Len(e.p)
      BY SaneIs
    <3>2. k + m <= Len(e.p)
      BY <1>1, <2>1, <2>2, <3>1
    <3> QED BY ONLY <2>1, <2>2, <3>1, <3>2, FromIs DEF z
  <2> HIDE DEF z
  <2>4. piece(t, i) = Put(t, z)
    BY DEF z, m, k
  <2> HIDE DEF piece
  <2>5. piece(t, i) \in Terminals /\ piece(t, i) \in Anywhere
    <3>1. Put(t, z) \in Terminals
      BY <2>3, PutIs
    <3> QED BY <2>4, <3>1 DEF Terminals
  <2> QED BY <2>5, Iscr_fwdIs
<1> DEFINE g == [p \in Terminals \X (1..rows) |-> row(p[1], p[2])]
           t[i \in 0..rows] ==
             IF i = 0 THEN d.t
             ELSE LET z == Put(t[i - 1], From(e.p, (i - 1) * Margin, Min2(e.o - (i - 1) * Margin, Margin)))
                  IN IF i * Margin <= e.o THEN Iscr_fwd(z) ELSE z
<1>10. PICK h \in [0..rows -> Terminals] : h[0] = d.t /\ \A i \in 1..rows : h[i] = row(h[i - 1], i)
  <2>1. g \in [Terminals \X (1..rows) -> Terminals]
    <3> HIDE DEF row
    <3> QED BY <1>9
  <2>2. \A x \in Terminals, i \in 1..rows : g[<<x, i>>] = row(x, i)
    OBVIOUS
  <2> HIDE DEF g, row
  <2>3. Stepping(Terminals, rows, d.t, g)
    BY <1>5, <2>1 DEF Stepping
  <2>4. PICK h \in [0..rows -> Terminals] : h[0] = d.t /\ \A i \in 1..rows : h[i] = g[<<h[i - 1], i>>]
    BY ONLY <2>3, Iterate
  <2>5. ASSUME NEW i \in 1..rows PROVE h[i] = row(h[i - 1], i)
    <3>1. i - 1 \in 0..rows
      BY <1>5
    <3> QED BY <2>2, <2>4, <3>1
  <2> QED BY <2>4, <2>5
<1>11. t = [i \in 0..rows |-> IF i = 0 THEN d.t ELSE row(t[i - 1], i)]
  <2>1. h = [i \in 0..rows |-> IF i = 0 THEN d.t ELSE row(h[i - 1], i)]
    <3> HIDE DEF row
    <3> QED BY <1>5, <1>10
  <2> QED BY <2>1 DEF t, row, piece
<1>12. draw_prompt(d, e) = D(t[rows], c)
  BY DEF draw_prompt, t, rows, c
<1> HIDE DEF t, row
<1> DEFINE U == {i \in 0..q : Bare(t[i], i)}
<1>13. 0 \in U
  <2>1. 0 \in 0..q /\ 0 \in 0..rows /\ 0 * Margin = 0
    BY <1>1, <1>3, <1>5
  <2>2. t[0] = d.t
    BY <1>11, <2>1
  <2>3. Over(d.t, f, 0)
    <3> SUFFICES ASSUME NEW r \in 1..(Isize - 1), 0 >= Offset(r) PROVE FALSE
      BY DEF Over
    <3>1. r \in 1..Isize /\ r < Isize
      OBVIOUS
    <3>2. Offset(r) \in Nat /\ Offset(r) >= Margin
      BY <3>1, OffsetIs
    <3> QED BY <1>1, <3>2
  <2> QED BY <2>1, <2>2, <2>3
<1>14. ASSUME NEW i \in 1..q, i - 1 \in U PROVE i \in U
  <2>1. i \in 0..q /\ i \in 0..rows /\ i # 0
    BY <1>3, <1>5
  <2>2. t[i] = row(t[i - 1], i)
    BY <1>11, <2>1
  <2>3. Bare(t[i - 1], i - 1)
    BY <1>14
  <2> HIDE DEF Bare
  <2>4. Bare(t[i], i)
    BY <1>8, <2>2, <2>3
  <2> QED BY <2>1, <2>4
<1>15. Bare(t[q], q)
  <2>1. q \in 0..q
    BY <1>3
  <2> HIDE DEF U
  <2>2. \A i \in 0..q : i \in U
    BY ONLY <1>3, <1>13, <1>14, Upward
  <2>3. q \in U
    BY <2>1, <2>2
  <2> QED BY <2>3 DEF U
<1> HIDE DEF U
<1>16. ASSUME NEW u \in Terminals, u.x = c, u.y = Isize, Over(u, f, Base(f)), RowIs(u.line[Isize], f, Base(f))
       PROVE  Placed(D(u, c), f) /\ Seen(D(u, c), f)
  <2>1. D(u, c).t = u /\ D(u, c).icol = c /\ c = Cur(f) % Margin
    BY <1>1 DEF D, c
  <2>2. Placed(D(u, c), f)
    BY <1>16, <2>1 DEF Placed
  <2> QED BY <1>16, <2>1, <2>2 DEF Seen, Full
<1>17. q * Margin = Base(f)
  BY <1>1, <1>3
<1>18. CASE c = 0
  <2>1. rows = q /\ Base(f) = e.o
    BY <1>1, <1>4, <1>18
  <2>2. ASSUME NEW i \in Columns, i > 0
        PROVE  t[q].line[Isize][i] = IF i <= Margin THEN Glyph(f, e.o + i) ELSE Blank
    <3>1. i \in Nat /\ e.o + i \in Nat /\ ~(e.o + i <= e.o)
      BY <1>1, <2>2
    <3>2. t[q].line[Isize][i] = Blank
      BY <1>15, <2>2 DEF Clean
    <3> QED BY <1>1, <3>1, <3>2
  <2>3. RowIs(t[q].line[Isize], f, Base(f))
    BY <2>1, <2>2 DEF RowIs, Ends
  <2>4. Placed(D(t[q], c), f) /\ Seen(D(t[q], c), f)
    BY <1>15, <1>16, <1>17, <1>18, <2>3
  <2> QED BY <1>12, <2>1, <2>4 DEF f
<1>19. CASE c # 0
  <2> DEFINE v == piece(t[q], rows)
             m == Min2(e.o - (rows - 1) * Margin, Margin)
  <2>1. rows = q + 1 /\ rows \in 1..rows /\ rows \in 0..rows /\ rows # 0 /\ rows - 1 = q
    BY <1>3, <1>4, <1>19
  <2>2. ~(rows * Margin <= e.o) /\ (rows - 1) * Margin = Base(f)
    BY <1>3, <1>6, <2>1
  <2>3. t[rows] = v
    <3>1. t[rows] = row(t[rows - 1], rows)
      BY <1>11, <2>1
    <3> QED BY <2>1, <2>2, <3>1 DEF row
  <2>4. /\ m \in 0..Margin /\ (m = e.o - (rows - 1) * Margin \/ m = Margin) /\ m <= e.o - (rows - 1) * Margin
        /\ v \in Terminals /\ v.y = Isize /\ v.x = m /\ Aloft(t[q], v)
        /\ RowIs(v.line[Isize], f, (rows - 1) * Margin)
    <3>1. t[q] \in Terminals /\ t[q].x = 0 /\ t[q].y = Isize /\ Clean(t[q].line[Isize], 0)
      BY <1>15
    <3> HIDE DEF piece, Bare
    <3> QED BY ONLY <1>7, <2>1, <3>1
  <2> HIDE DEF v, m
  <2>5. m = c
    <3>1. e.o - (rows - 1) * Margin = c
      BY <1>1, <1>2, <2>2
    <3>2. c \in Nat /\ c < Margin
      BY <1>1, <1>2
    <3> QED BY <1>1, <2>4, <3>1, <3>2
  <2>6. Over(v, f, Base(f))
    <3>1. Over(t[q], f, Base(f))
      BY <1>15, <1>17
    <3> QED BY <2>4, <3>1, OverSame DEF Aloft
  <2>7. Placed(D(v, c), f) /\ Seen(D(v, c), f)
    BY <1>16, <2>2, <2>4, <2>5, <2>6
  <2> QED BY <1>12, <2>3, <2>7 DEF f
<1> QED BY <1>18, <1>19

LEMMA input_clearIs ==
  ASSUME Isize \in Nat \ {0}, NEW e, Sane(e), NEW d, Placed(d, e)
  PROVE  Keeps(d, e, input_clear(d, e), Emptied(e))
<1> DEFINE f == Emptied(e)
           c == e.o % Margin
           q == Base(f)
<1>1. /\ Sane(f) /\ f.p = e.p /\ f.o = e.o /\ (Hiding(e) => Hiding(f)) /\ Cur(f) = e.o /\ q = e.o - c
      /\ \A j \in Nat : Glyph(f, j) = IF j <= e.o THEN e.p[j] ELSE Blank
  BY EmptiedIs
<1>2. /\ e.o \in Nat /\ Margin \in Nat /\ Columns = 1..(Margin + 1) /\ q \in Nat /\ c \in 0..(Margin - 1)
      /\ q + c = e.o
  <2>1. e.o \in Nat /\ Margin \in Nat /\ Columns = 1..(Margin + 1)
    BY SaneIs, MarginIs DEF Columns
  <2>2. q \in Nat /\ c \in 0..(Margin - 1)
    BY <1>1, BaseIs
  <2>3. c \in Int /\ q = e.o - c
    BY <1>1, <2>1, <2>2
  <2> HIDE DEF q, c
  <2>4. q + c = e.o
    BY ONLY <2>1, <2>3
  <2> QED BY <2>1, <2>2, <2>4
<1> HIDE DEF f, c, q
<1>3. CASE Hiding(e)
  <2>1. input_clear(d, e) = d
    BY <1>3 DEF input_clear, Hiding
  <2> QED BY <1>1, <1>3, <2>1, HidingSame DEF f
<1>4. CASE Echoing(e) /\ e.k <= Isize * Margin
  <2> DEFINE r == input_cmove(d, e, 0)
             u == clreol(r.t)
             g == Moved(e, 0)
  <2>1. input_clear(d, e) = D(u, c)
    BY <1>4 DEF input_clear, Echoing, c
  <2>2. 0 \in 0..Len(e.b)
    BY SaneIs
  <2>3. Keeps(d, e, r, g) /\ Echoing(g) /\ Sane(g) /\ g.o = e.o /\ g.k = 0 /\ g.p = e.p
    BY <1>4, <2>2, input_cmoveIs, MovedIs
  <2>4. Cur(g) = e.o /\ Base(g) = q
    <3>1. Cur(g) = e.o + 0
      BY <2>3, EchoingIs
    <3>2. Cur(g) = e.o
      BY <1>2, <3>1
    <3> QED BY <1>1, <3>2 DEF Base, c, q
  <2>5. r.t \in Terminals /\ r.t.y = Isize /\ r.t.x = c
    BY <2>3, <2>4 DEF Keeps, Placed, c
  <2> HIDE DEF r, g
  <2>6. /\ u \in Terminals /\ u.y = Isize /\ u.x = c
        /\ \A i \in 1..Isize : i # r.t.y => SameRow(r.t, u, i)
        /\ \A i \in Columns : u.line[Isize][i] = IF i > c THEN Blank ELSE r.t.line[Isize][i]
    BY <2>5, clreolIs
  <2> HIDE DEF u
  <2>7. D(u, c).t = u /\ D(u, c).icol = c
    BY DEF D
  <2>8. Placed(D(u, c), f)
    BY <1>1, <2>6, <2>7 DEF Placed, c
  <2>9. ASSUME Seen(d, e) PROVE Seen(D(u, c), f)
    <3>1. Full(r.t, g, q)
      BY <2>3, <2>4, <2>9 DEF Keeps, Seen
    <3>2. ASSUME NEW j \in 1..e.o PROVE Glyph(g, j) = Glyph(f, j)
      <4>1. j \in Nat /\ j <= e.o
        BY <1>2
      <4> QED BY <1>1, <2>3, <4>1, EchoingIs
    <3>3. \A j \in 1..q : j \in 1..e.o
      BY <1>2
    <3>4. Over(u, f, q)
      <4>1. Over(r.t, f, q)
        <5>1. Over(r.t, g, q) /\ q \in Int
          BY <1>2, <3>1 DEF Full
        <5> QED BY <3>2, <3>3, <5>1, OverAgree
      <4>2. \A i \in 1..(Isize - 1) : i \in 1..Isize /\ i # r.t.y
        BY <2>5
      <4>3. \A i \in 1..(Isize - 1) : SameRow(r.t, u, i)
        BY <2>6, <4>2
      <4> QED BY <4>1, <4>3, OverSame
    <3>5. ASSUME NEW i \in Columns, i > 0
          PROVE  u.line[Isize][i] = IF i <= Margin THEN Glyph(f, q + i) ELSE Blank
      <4>1. i \in Nat /\ q + i \in Nat
        BY <1>2
      <4>2. CASE i > c
        <5>1. ~(q + i <= e.o)
          BY <1>2, <4>1, <4>2
        <5> QED BY <1>1, <2>6, <4>1, <4>2, <5>1
      <4>3. CASE ~(i > c)
        <5>1. i <= Margin /\ q + i \in 1..e.o
          BY <1>2, <3>5, <4>1, <4>3
        <5>2. r.t.line[Isize][i] = Glyph(g, q + i)
          BY <1>2, <3>1, <3>5, <5>1 DEF Full, RowIs, Ends
        <5> QED BY <2>6, <3>2, <4>3, <5>1, <5>2
      <4> QED BY <4>2, <4>3
    <3>6. RowIs(u.line[Isize], f, q)
      BY <3>5 DEF RowIs, Ends
    <3> QED BY <2>7, <3>4, <3>6 DEF Seen, Full, q
  <2> QED BY <2>1, <2>8, <2>9 DEF Keeps, f
<1>5. CASE Echoing(e) /\ ~(e.k <= Isize * Margin)
  <2> DEFINE r == draw_prompt(D(clear_space(d.t), d.icol), e)
  <2>1. input_clear(d, e) = D(r.t, c)
    BY <1>5 DEF input_clear, Echoing, c
  <2>2. d.t \in Anywhere
    BY DEF Placed, Terminals
  <2>3. /\ clear_space(d.t) \in Terminals /\ clear_space(d.t).x = 0 /\ clear_space(d.t).y = Isize
        /\ Clean(clear_space(d.t).line[Isize], 0)
    BY <2>2, clear_spaceIs DEF Clean
  <2>4. D(clear_space(d.t), d.icol).t = clear_space(d.t)
    BY DEF D
  <2>5. Placed(r, f) /\ Seen(r, f)
    BY <2>3, <2>4, draw_promptIs DEF f
  <2> HIDE DEF r
  <2>6. D(r.t, c) = r
    BY <1>1, <2>5 DEF Placed, c
  <2> QED BY <2>1, <2>5, <2>6 DEF Keeps, f
<1> QED BY <1>3, <1>4, <1>5, EchoingOrHiding

\* A blank bottom row.
Bared(t) == t \in Terminals /\ t.x = 0 /\ t.y = Isize /\ Clean(t.line[Isize], 0)

LEMMA clear_input_windowIs ==
  ASSUME Isize \in Nat \ {0}, plen \in Nat, NEW e, Sane(e), NEW d, d.t \in Anywhere, d.icol \in 0..(Margin - 1)
  PROVE  Bared(clear_input_window(d, e).t)
<1> DEFINE r == input_cmove(d, e, 0).t
           n == PromptRows
           t[i \in 0..n] == IF i = 0 THEN r ELSE Iscr_rev(t[i - 1])
<1>1. r \in Anywhere
  BY input_cmoveHome
<1>2. n \in Nat
  <2>1. Margin \in Nat /\ Margin > 0
    BY MarginIs
  <2>2. ASSUME plen > Margin PROVE (plen - 1) \div Margin \in Nat
    <3> DEFINE q == (plen - 1) \div Margin
               c == (plen - 1) % Margin
    <3>1. plen - 1 \in Int /\ plen - 1 >= Margin
      BY <2>1, <2>2
    <3>2. c \in 0..(Margin - 1) /\ q \in Int /\ plen - 1 = Margin * q + c
      BY <3>1, ModIs
    <3> HIDE DEF q, c
    <3>3. q >= 0
      <4> SUFFICES ASSUME q <= -1 PROVE FALSE
        BY <3>2
      <4>1. Margin * q <= -Margin
        BY <2>1, <3>2
      <4> QED BY <2>1, <3>1, <3>2, <4>1
    <3> QED BY <3>2, <3>3 DEF q
  <2> QED BY <2>2 DEF PromptRows
<1> HIDE DEF r, n
<1>3. \A u \in Anywhere : Iscr_rev(u) \in Anywhere
  BY Iscr_revIs DEF Terminals
<1> DEFINE g == [p \in Anywhere \X (1..n) |-> Iscr_rev(p[1])]
<1>4. PICK h \in [0..n -> Anywhere] : h[0] = r /\ \A i \in 1..n : h[i] = Iscr_rev(h[i - 1])
  <2>1. g \in [Anywhere \X (1..n) -> Anywhere]
    BY <1>3
  <2>2. \A x \in Anywhere, i \in 1..n : g[<<x, i>>] = Iscr_rev(x)
    OBVIOUS
  <2> HIDE DEF g
  <2>3. Stepping(Anywhere, n, r, g)
    BY <1>1, <1>2, <2>1 DEF Stepping
  <2>4. PICK h \in [0..n -> Anywhere] : h[0] = r /\ \A i \in 1..n : h[i] = g[<<h[i - 1], i>>]
    BY ONLY <2>3, Iterate
  <2>5. ASSUME NEW i \in 1..n PROVE h[i] = Iscr_rev(h[i - 1])
    <3>1. i - 1 \in 0..n
      BY <1>2
    <3> QED BY <2>2, <2>4, <3>1
  <2> QED BY <2>4, <2>5
<1>5. t = [i \in 0..n |-> IF i = 0 THEN r ELSE Iscr_rev(t[i - 1])]
  <2>1. h = [i \in 0..n |-> IF i = 0 THEN r ELSE Iscr_rev(h[i - 1])]
    BY <1>2, <1>4
  <2> QED BY <2>1 DEF t
<1>6. clear_input_window(d, e).t = IF Near(e) THEN clreol(cmove(t[n], 0)) ELSE clear_space(d.t)
  BY DEF clear_input_window, D, t, n, r
<1> HIDE DEF t
<1> DEFINE U == {i \in 0..n : t[i] \in Anywhere}
<1>7. 0 \in U
  <2>1. 0 \in 0..n
    BY <1>2
  <2> QED BY <1>1, <1>5, <2>1
<1>8. ASSUME NEW i \in 1..n, i - 1 \in U PROVE i \in U
  <2>1. i \in 0..n /\ i # 0
    BY <1>2
  <2>2. t[i] = Iscr_rev(t[i - 1])
    BY <1>5, <2>1
  <2> QED BY <1>3, <1>8, <2>1, <2>2
<1>9. t[n] \in Anywhere
  <2>1. n \in 0..n
    BY <1>2
  <2> HIDE DEF U
  <2>2. \A i \in 0..n : i \in U
    BY ONLY <1>2, <1>7, <1>8, Upward
  <2>3. n \in U
    BY <2>1, <2>2
  <2> QED BY <2>3 DEF U
<1>10. Bared(clreol(cmove(t[n], 0)))
  <2> DEFINE u == cmove(t[n], 0)
  <2>1. 0 \in 0..Margin
    BY MarginIs
  <2>2. u \in Terminals /\ u.x = 0 /\ u.y = Isize
    BY <1>9, <2>1, cmoveIs
  <2> HIDE DEF u
  <2>3. /\ clreol(u) \in Terminals /\ clreol(u).y = Isize /\ clreol(u).x = 0
        /\ \A i \in Columns : clreol(u).line[Isize][i] = IF i > 0 THEN Blank ELSE u.line[Isize][i]
    BY <2>2, clreolIs
  <2> QED BY <2>3 DEF Bared, Clean, u
<1>11. Bared(clear_space(d.t))
  BY clear_spaceIs DEF Bared, Clean
<1> QED BY <1>6, <1>10, <1>11

-----------------------------------------------------------------------------
(* input_draw().                                                           *)

\* Row i of the text, and the scroll after it.
DrawnLen(e, i) == Min2(Len(e.b) - (i - 1) * Margin, IF i = 1 THEN Margin - (e.o % Margin) ELSE Margin)
DrawnPiece(t, e, i) == Put(t, From(e.b, (i - 1) * Margin, DrawnLen(e, i)))
NextRow(t, e, i) == IF i < e.k \div Margin + 1 THEN Iscr_fwd(DrawnPiece(t, e, i)) ELSE DrawnPiece(t, e, i)

\* The row of the cursor, and the rows before.
LEMMA DrawnRows ==
  ASSUME NEW e, Sane(e)
  PROVE  LET g == e.k \div Margin IN
         /\ g \in Nat /\ e.k = g * Margin + (e.k % Margin) /\ e.k % Margin \in 0..(Margin - 1)
         /\ g * Margin \in Nat /\ g * Margin <= Len(e.b)
         /\ \A i \in 1..(g + 1) :
              /\ (i - 1) * Margin \in Nat /\ (i - 1) * Margin <= Len(e.b)
              /\ i * Margin = (i - 1) * Margin + Margin
              /\ i < g + 1 => i * Margin <= Len(e.b)
<1> DEFINE g == e.k \div Margin
           c == e.k % Margin
<1>1. e.k \in Nat /\ Len(e.b) \in Nat /\ e.k <= Len(e.b) /\ Margin \in Nat /\ Margin > 0
  BY SaneIs, MarginIs
<1>2. g \in Int /\ c \in 0..(Margin - 1) /\ e.k = Margin * g + c
  <2>1. e.k \in Int
    BY <1>1
  <2> QED BY <2>1, ModIs
<1> HIDE DEF g, c
<1>3. g \in Nat
  <2> SUFFICES ASSUME g <= -1 PROVE FALSE
    BY <1>2
  <2>1. Margin * g <= -Margin
    BY <1>1, <1>2
  <2> QED BY <1>1, <1>2, <2>1
<1>4. g * Margin \in Nat /\ e.k = g * Margin + c /\ g * Margin <= Len(e.b)
  <2>1. g * Margin = Margin * g /\ g * Margin \in Nat
    BY <1>1, <1>3
  <2> DEFINE x == g * Margin
  <2>2. x \in Nat /\ e.k = x + c /\ c \in Nat
    BY <1>1, <1>2, <2>1
  <2> HIDE DEF x
  <2>3. x <= Len(e.b)
    BY <1>1, <2>2
  <2> QED BY <2>2, <2>3 DEF x
<1>5. ASSUME NEW i \in 1..(g + 1)
      PROVE  /\ (i - 1) * Margin \in Nat /\ (i - 1) * Margin <= Len(e.b)
             /\ i * Margin = (i - 1) * Margin + Margin
             /\ i < g + 1 => i * Margin <= Len(e.b)
  <2>1. i - 1 \in Nat /\ i \in Nat /\ g - (i - 1) \in Nat
    BY <1>3
  <2>2. (i - 1) * Margin \in Nat /\ i * Margin = (i - 1) * Margin + Margin
    BY <1>1, <2>1
  <2>3. (g - (i - 1)) * Margin \in Nat /\ (g - (i - 1)) * Margin = g * Margin - (i - 1) * Margin
    BY <1>1, <1>3, <2>1
  <2>4. i < g + 1 => (g - i) * Margin \in Nat /\ (g - i) * Margin = g * Margin - i * Margin
    BY <1>1, <1>3, <2>1
  <2> DEFINE x == (i - 1) * Margin
             y == i * Margin
             z == g * Margin
  <2>5. x \in Nat /\ y \in Int /\ z \in Nat /\ z - x \in Nat /\ (i < g + 1 => z - y \in Nat) /\ z <= Len(e.b)
    BY <1>1, <1>4, <2>2, <2>3, <2>4
  <2>6. y = x + Margin
    BY <2>2
  <2>7. Len(e.b) \in Nat
    BY <1>1
  <2> HIDE DEF x, y, z
  <2>8. x <= Len(e.b) /\ (i < g + 1 => y <= Len(e.b))
    BY ONLY <2>5, <2>7
  <2> QED BY <2>5, <2>6, <2>8 DEF x, y
<1> QED BY <1>2, <1>3, <1>4, <1>5 DEF g, c

LEMMA NextRowType ==
  ASSUME Isize \in Nat \ {0}, NEW e, Sane(e), NEW i \in 1..(e.k \div Margin + 1), NEW t \in Terminals
  PROVE  NextRow(t, e, i) \in Terminals
<1> DEFINE k == (i - 1) * Margin
           x == IF i = 1 THEN Margin - (e.o % Margin) ELSE Margin
           m == Min2(Len(e.b) - k, x)
           z == From(e.b, k, m)
<1>1. k \in Nat /\ k <= Len(e.b) /\ e.b \in Seq(Chars) /\ Len(e.b) \in Nat /\ Margin \in Nat
  BY DrawnRows, SaneIs, MarginIs
<1>2. x \in Int /\ x >= 0
  <2>1. e.o \in Int
    BY SaneIs
  <2>2. e.o % Margin \in 0..(Margin - 1)
    BY <2>1, ModIs
  <2> QED BY <1>1, <2>2
<1> HIDE DEF k, x
<1>3. m \in Nat /\ m <= Len(e.b) - k
  <2>1. Len(e.b) - k \in Int /\ Len(e.b) - k >= 0
    BY <1>1
  <2>2. m \in Int /\ m <= Len(e.b) - k /\ (m = Len(e.b) - k \/ m = x)
    BY <1>2, <2>1, MinIs
  <2> HIDE DEF m
  <2> QED BY <1>2, <2>1, <2>2
<1> HIDE DEF m
<1>4. z \in Seq(Chars)
  <2>1. k + m <= Len(e.b)
    BY <1>1, <1>3
  <2> QED BY ONLY <1>1, <1>3, <2>1, FromIs DEF z
<1> HIDE DEF z
<1>5. DrawnPiece(t, e, i) = Put(t, z)
  BY DEF DrawnPiece, DrawnLen, z, m, x, k
<1>6. DrawnPiece(t, e, i) \in Terminals /\ DrawnPiece(t, e, i) \in Anywhere
  <2>1. Put(t, z) \in Terminals
    BY <1>4, PutIs
  <2> QED BY <1>5, <2>1 DEF Terminals
<1>7. Iscr_fwd(DrawnPiece(t, e, i)) \in Terminals
  BY <1>6, Iscr_fwdIs
<1> QED BY <1>6, <1>7 DEF NextRow

LEMMA Draws ==
  ASSUME Isize \in Nat \ {0}, NEW e, Echoing(e), NEW d, d.t \in Terminals
  PROVE  LET rows == e.k \div Margin + 1
             c == e.o + (e.k % Margin)
         IN \E h \in [0..rows -> Terminals] :
              /\ h[0] = d.t /\ \A i \in 1..rows : h[i] = NextRow(h[i - 1], e, i)
              /\ input_draw(d, e) = D(move_left(h[rows], DrawnLen(e, rows) - c, c), c)
<1> DEFINE rows == e.k \div Margin + 1
           c == e.o + (e.k % Margin)
           pos(i) == (i - 1) * Margin
           n(i) == Min2(Len(e.b) - pos(i), IF i = 1 THEN Margin - (e.o % Margin) ELSE Margin)
           t[i \in 0..rows] ==
             IF i = 0 THEN d.t
             ELSE LET s == Put(t[i - 1], From(e.b, pos(i), n(i)))
                  IN IF i < rows THEN Iscr_fwd(s) ELSE s
           g == [p \in Terminals \X (1..rows) |-> NextRow(p[1], e, p[2])]
<1>1. Sane(e) /\ rows \in Nat
  BY EchoingIs, DrawnRows
<1>2. \A i \in 1..rows, u \in Terminals : NextRow(u, e, i) \in Terminals
  BY <1>1, NextRowType
<1>3. input_draw(d, e) = D(move_left(t[rows], n(rows) - c, c), c)
  BY DEF input_draw, t, rows, c, n, pos, Echoing
<1>4. \A i : n(i) = DrawnLen(e, i)
  BY DEF DrawnLen
<1>5. g \in [Terminals \X (1..rows) -> Terminals]
  <2> HIDE DEF rows
  <2> QED BY <1>2
<1>6. \A x \in Terminals, i \in 1..rows : g[<<x, i>>] = NextRow(x, e, i)
  OBVIOUS
<1>7. ASSUME NEW h, h = [i \in 0..rows |-> IF i = 0 THEN d.t ELSE NextRow(h[i - 1], e, i)]
      PROVE  t = [i \in 0..rows |-> IF i = 0 THEN d.t ELSE NextRow(t[i - 1], e, i)]
  BY <1>7 DEF t, NextRow, DrawnPiece, DrawnLen
<1> HIDE DEF g, rows, t, n
<1>8. PICK h \in [0..rows -> Terminals] : h[0] = d.t /\ \A i \in 1..rows : h[i] = NextRow(h[i - 1], e, i)
  <2>1. Stepping(Terminals, rows, d.t, g)
    BY <1>1, <1>5 DEF Stepping
  <2>2. PICK h \in [0..rows -> Terminals] : h[0] = d.t /\ \A i \in 1..rows : h[i] = g[<<h[i - 1], i>>]
    BY ONLY <2>1, Iterate
  <2>3. ASSUME NEW i \in 1..rows PROVE h[i] = NextRow(h[i - 1], e, i)
    <3>1. i - 1 \in 0..rows
      BY <1>1
    <3> QED BY <1>6, <2>2, <3>1
  <2> QED BY <2>2, <2>3
<1>9. h = [i \in 0..rows |-> IF i = 0 THEN d.t ELSE NextRow(h[i - 1], e, i)]
  BY <1>1, <1>8
<1>10. t = [i \in 0..rows |-> IF i = 0 THEN d.t ELSE NextRow(t[i - 1], e, i)]
  BY <1>7, <1>9
<1>11. t[0] = d.t /\ \A i \in 1..rows : t[i] = NextRow(t[i - 1], e, i)
  BY <1>1, <1>10
<1> DEFINE U == {i \in 0..rows : t[i] \in Terminals}
<1>12. 0 \in U
  BY <1>1, <1>11
<1>13. ASSUME NEW i \in 1..rows, i - 1 \in U PROVE i \in U
  <2>1. i \in 0..rows
    BY <1>1
  <2> QED BY <1>2, <1>11, <1>13, <2>1
<1>14. \A i \in 0..rows : i \in U
  <2> HIDE DEF U
  <2> QED BY ONLY <1>1, <1>12, <1>13, Upward
<1>15. t \in [0..rows -> Terminals]
  BY <1>10, <1>14
<1>16. input_draw(d, e) = D(move_left(t[rows], DrawnLen(e, rows) - c, c), c)
  BY <1>3, <1>4
<1> QED BY <1>11, <1>15, <1>16 DEF rows

\* The whole text is drawn from the left of a blank row.
LEMMA DrawsText ==
  ASSUME Isize \in Nat \ {0}, NEW e, Echoing(e), e.o = 0, NEW d, Placed(d, Emptied(e))
  PROVE  Keeps(d, Emptied(e), input_draw(d, e), e)
<1> DEFINE f == Emptied(e)
           g == e.k \div Margin
           c == e.k % Margin
           rows == g + 1
           Bare(t, i) == /\ t \in Terminals /\ t.x = 0 /\ t.y = Isize
                         /\ Seen(d, f) => Clean(t.line[Isize], 0) /\ Over(t, e, i * Margin)
<1>1. /\ Sane(e) /\ e.k \in Nat /\ Len(e.b) \in Nat /\ e.k <= Len(e.b) /\ Margin \in Nat /\ Margin > 0
      /\ Cur(e) = e.k
  <2>1. Sane(e) /\ Cur(e) = e.o + e.k
    BY EchoingIs
  <2> QED BY <2>1, SaneIs, MarginIs
<1>2. /\ g \in Nat /\ e.k = g * Margin + c /\ c \in 0..(Margin - 1) /\ g * Margin \in Nat
      /\ g * Margin <= Len(e.b)
      /\ \A i \in 1..rows : /\ (i - 1) * Margin \in Nat /\ (i - 1) * Margin <= Len(e.b)
                            /\ i * Margin = (i - 1) * Margin + Margin
  BY <1>1, DrawnRows
<1>3. 0 % Margin = 0
  <2>1. 0 \in 0..(Margin - 1) /\ Margin * 0 + 0 = 0 /\ 0 \in Int
    BY <1>1
  <2> QED BY <2>1, ModUnique
<1>4. d.t \in Terminals /\ d.t.x = 0 /\ d.t.y = Isize
  <2>1. Cur(f) = e.o
    BY <1>1, EmptiedIs
  <2> QED BY <1>3, <2>1 DEF Placed
<1>5. PICK h \in [0..rows -> Terminals] :
         /\ h[0] = d.t /\ \A i \in 1..rows : h[i] = NextRow(h[i - 1], e, i)
         /\ input_draw(d, e) = D(move_left(h[rows], DrawnLen(e, rows) - c, c), c)
  <2>1. e.o + c = c
    BY <1>1, <1>2
  <2> HIDE DEF c
  <2>2. e.o + (e.k % Margin) = c
    BY <2>1 DEF c
  <2> QED BY <1>4, <2>2, Draws
<1>6. \A i \in 1..rows : DrawnLen(e, i) = Min2(Len(e.b) - (i - 1) * Margin, Margin)
  <2>1. Margin - (e.o % Margin) = Margin
    BY <1>1, <1>3
  <2> QED BY <2>1 DEF DrawnLen
<1> HIDE DEF g, c, f
<1>7. ASSUME NEW i \in 1..rows, NEW t, Bare(t, i - 1)
      PROVE  LET u == DrawnPiece(t, e, i)
                 m == DrawnLen(e, i)
                 k == (i - 1) * Margin
             IN /\ m \in 0..Margin /\ (m = Len(e.b) - k \/ m = Margin)
                /\ u \in Terminals /\ u.y = Isize /\ u.x = m
                /\ Seen(d, f) => RowIs(u.line[Isize], e, k) /\ Over(u, e, k)
  <2> DEFINE k == (i - 1) * Margin
             m == Min2(Len(e.b) - k, Margin)
             u == Put(t, From(e.b, k, m))
  <2>1. DrawnPiece(t, e, i) = u /\ DrawnLen(e, i) = m
    BY <1>6 DEF DrawnPiece
  <2>2. k \in Nat /\ k <= Len(e.b)
    BY <1>2
  <2>3. t \in Terminals /\ t.x = 0 /\ t.y = Isize /\ (Seen(d, f) => Clean(t.line[Isize], 0) /\ Over(t, e, k))
    BY <1>7
  <2> HIDE DEF k, Bare
  <2>4. /\ m \in 0..Margin /\ (m = Len(e.b) - k \/ m = Margin)
        /\ u \in Terminals /\ u.y = t.y /\ u.x = m
        /\ \A r \in 1..Isize : r # t.y => SameRow(t, u, r)
        /\ Echoing(e) /\ Clean(t.line[t.y], 0) => RowIs(u.line[t.y], e, k + e.o)
    <3>1. Sane(e) /\ t \in Terminals /\ t.x = 0
      BY <1>1, <2>3
    <3> QED BY ONLY <2>2, <3>1, Isize \in Nat \ {0}, TextRow
  <2> HIDE DEF u, m
  <2>5. k + e.o = k
    BY <2>2
  <2>6. \A r \in 1..(Isize - 1) : SameRow(t, u, r)
    <3>1. \A r \in 1..(Isize - 1) : r \in 1..Isize /\ r # Isize
      OBVIOUS
    <3> QED BY <2>3, <2>4, <3>1
  <2>7. Seen(d, f) => Over(u, e, k)
    BY <2>3, <2>6, OverSame
  <2> QED BY <2>1, <2>3, <2>4, <2>5, <2>7 DEF k
<1>8. ASSUME NEW i \in 1..g, NEW t, Bare(t, i - 1) PROVE Bare(NextRow(t, e, i), i)
  <2> DEFINE u == DrawnPiece(t, e, i)
             k == (i - 1) * Margin
  <2>1. i \in 1..rows /\ i < g + 1
    BY <1>2
  <2>2. NextRow(t, e, i) = Iscr_fwd(u)
    BY <2>1 DEF NextRow, g
  <2>3. u \in Terminals /\ u \in Anywhere /\ (Seen(d, f) => RowIs(u.line[Isize], e, k) /\ Over(u, e, k))
    <3> HIDE DEF Bare
    <3> QED BY <1>7, <1>8, <2>1 DEF Terminals
  <2>4. k \in Int /\ k + Margin = i * Margin
    BY <1>2, <2>1
  <2>5. Iscr_fwd(u) \in Terminals /\ Iscr_fwd(u).x = 0 /\ Iscr_fwd(u).y = Isize
    BY <2>3, Iscr_fwdIs
  <2> HIDE DEF u, k
  <2>6. ASSUME Seen(d, f) PROVE Clean(Iscr_fwd(u).line[Isize], 0) /\ Over(Iscr_fwd(u), e, i * Margin)
    <3>1. Full(u, e, k)
      BY <2>3, <2>6 DEF Full
    <3>2. Over(Iscr_fwd(u), e, k + Margin) /\ Clean(Iscr_fwd(u).line[Isize], 0)
      BY <2>3, <2>4, <3>1, ScrollUp
    <3> QED BY <2>4, <3>2
  <2> QED BY <2>2, <2>5, <2>6
<1>9. ASSUME Seen(d, f) PROVE Clean(d.t.line[Isize], 0) /\ Over(d.t, e, 0)
  <2>1. /\ Base(f) = 0 /\ Sane(f)
        /\ \A j \in Nat : Glyph(f, j) = IF j <= e.o THEN e.p[j] ELSE Blank
    <3>1. /\ Base(f) = e.o - (e.o % Margin) /\ Sane(f)
          /\ \A j \in Nat : Glyph(f, j) = IF j <= e.o THEN e.p[j] ELSE Blank
      BY <1>1, EmptiedIs DEF f
    <3> QED BY <1>3, <3>1
  <2>2. ASSUME NEW i \in Columns, i > 0 PROVE d.t.line[Isize][i] = Blank
    <3>1. i \in Nat /\ 0 + i = i /\ ~(i <= e.o)
      BY <2>2 DEF Columns
    <3>2. d.t.line[Isize][i] = IF i <= Margin THEN Glyph(f, 0 + i) ELSE Blank
      BY <1>9, <2>1, <2>2 DEF Seen, Full, RowIs, Ends
    <3> QED BY <2>1, <3>1, <3>2
  <2>3. Over(d.t, e, 0)
    <3> SUFFICES ASSUME NEW r \in 1..(Isize - 1), 0 >= Offset(r) PROVE FALSE
      BY DEF Over
    <3>1. r \in 1..Isize /\ r < Isize
      OBVIOUS
    <3>2. Offset(r) \in Nat /\ Offset(r) >= Margin
      BY <3>1, OffsetIs
    <3> QED BY <1>1, <3>2
  <2> QED BY <2>2, <2>3 DEF Clean
<1> DEFINE U == {i \in 0..g : Bare(h[i], i)}
<1>10. 0 \in U
  <2>1. 0 \in 0..g /\ 0 * Margin = 0
    BY <1>1, <1>2
  <2>2. h[0] = d.t
    BY <1>5
  <2> QED BY <1>4, <1>9, <2>1, <2>2
<1>11. ASSUME NEW i \in 1..g, i - 1 \in U PROVE i \in U
  <2>1. i \in 0..g /\ i \in 1..rows
    BY <1>2
  <2>2. h[i] = NextRow(h[i - 1], e, i)
    BY <1>5, <2>1
  <2>3. Bare(h[i - 1], i - 1)
    BY <1>11
  <2> HIDE DEF Bare
  <2>4. Bare(h[i], i)
    BY <1>8, <2>2, <2>3
  <2> QED BY <2>1, <2>4
<1>12. Bare(h[g], g)
  <2>1. g \in 0..g
    BY <1>2
  <2> HIDE DEF U
  <2>2. \A i \in 0..g : i \in U
    BY ONLY <1>2, <1>10, <1>11, Upward
  <2>3. g \in U
    BY <2>1, <2>2
  <2> QED BY <2>3 DEF U
<1> HIDE DEF U
<1> DEFINE u == DrawnPiece(h[g], e, rows)
           m == DrawnLen(e, rows)
           k == g * Margin
<1>13. /\ m \in 0..Margin /\ (m = Len(e.b) - k \/ m = Margin)
       /\ u \in Terminals /\ u.y = Isize /\ u.x = m
       /\ Seen(d, f) => RowIs(u.line[Isize], e, k) /\ Over(u, e, k)
  <2>1. rows \in 1..rows /\ rows - 1 = g
    BY <1>2
  <2>2. Bare(h[g], rows - 1) /\ (rows - 1) * Margin = k
    BY <1>12, <2>1
  <2> HIDE DEF Bare, rows
  <2> QED BY <1>7, <2>1, <2>2
<1>14. h[rows] = u
  <2>1. rows \in 1..rows /\ rows - 1 = g /\ ~(rows < g + 1)
    BY <1>2
  <2>2. h[rows] = NextRow(h[rows - 1], e, rows)
    BY <1>5, <2>1
  <2> HIDE DEF rows
  <2> QED BY <2>1, <2>2 DEF NextRow, g
<1>15. c <= m /\ c \in 0..Margin /\ m \in Nat /\ c \in Nat
  <2>1. k \in Nat /\ e.k = k + c
    BY <1>2
  <2> HIDE DEF k, m
  <2>2. m \in Nat /\ c \in Nat /\ c < Margin
    BY <1>1, <1>2, <1>13
  <2> QED BY <1>1, <1>13, <2>1, <2>2
<1> DEFINE w == move_left(u, m - c, c)
<1> HIDE DEF u, m
<1>16. w \in Terminals /\ w.y = Isize /\ w.x = c /\ w.line = u.line
  <2>1. Max2(m - c, 0) = m - c /\ m - (m - c) = c /\ Max2(c, 0) = c /\ m - c \in Int
    BY <1>15 DEF Max2
  <2>2. Max2(u.x - Max2(m - c, 0), 0) = c
    BY <1>13, <2>1
  <2> QED BY <1>13, <1>15, <2>1, <2>2, move_leftIs
<1> HIDE DEF w
<1>17. input_draw(d, e) = D(w, c)
  BY <1>5, <1>14 DEF w, m
<1>18. Placed(D(w, c), e)
  <2>1. D(w, c).t = w /\ D(w, c).icol = c
    BY DEF D
  <2>2. c = Cur(e) % Margin
    BY <1>1 DEF c
  <2> QED BY <1>16, <2>1, <2>2 DEF Placed
<1>19. ASSUME Seen(d, f) PROVE Seen(D(w, c), e)
  <2>1. D(w, c).t = w
    BY DEF D
  <2>2. Base(e) = k
    <3>1. Cur(e) - c = k
      BY <1>1, <1>2
    <3> QED BY <1>1, <3>1 DEF Base, c
  <2>3. Full(u, e, k)
    BY <1>13, <1>19 DEF Full
  <2>4. Full(w, e, k)
    BY <1>16, <2>3 DEF Full, Over
  <2> QED BY <2>1, <2>2, <2>4 DEF Seen
<1> QED BY <1>17, <1>18, <1>19 DEF Keeps, f

\* Text that ends in the row of the prompt, with the cursor behind it.
LEMMA DrawsTail ==
  ASSUME Isize \in Nat \ {0}, NEW e, Echoing(e), e.k = Len(e.b), e.o + e.k < Margin,
         NEW d, Placed(d, Emptied(e))
  PROVE  Keeps(d, Emptied(e), input_draw(d, e), e)
<1> DEFINE f == Emptied(e)
           c == e.o + e.k
           s == From(e.b, 0, e.k)
           u == Put(d.t, s)
<1>1. /\ Sane(e) /\ e.b \in Seq(Chars) /\ e.k \in Nat /\ Len(e.b) = e.k /\ Margin \in Nat /\ Margin > 0
      /\ e.o \in Nat /\ e.o < Margin /\ c \in Nat /\ c < Margin /\ Columns = 1..(Margin + 1)
  <2>1. Sane(e) /\ e.b \in Seq(Chars) /\ e.k \in Nat /\ Len(e.b) = e.k /\ e.o \in Nat
    BY EchoingIs, SaneIs
  <2>2. Margin \in Nat /\ Margin > 0
    BY MarginIs
  <2>3. e.o < Margin /\ c \in Nat /\ c < Margin
    BY <2>1, <2>2
  <2> QED BY <2>1, <2>2, <2>3 DEF Columns
<1>2. \A a \in 0..(Margin - 1) : a % Margin = a /\ a \div Margin = 0
  <2> TAKE a \in 0..(Margin - 1)
  <2>1. Margin * 0 + a = a
    BY <1>1
  <2>2. (Margin * 0 + a) % Margin = a /\ (Margin * 0 + a) \div Margin = 0
    BY ModUnique
  <2> QED BY <2>1, <2>2
<1>3. e.o % Margin = e.o /\ e.k % Margin = e.k /\ e.k \div Margin = 0 /\ c % Margin = c
  <2>1. e.o \in 0..(Margin - 1) /\ e.k \in 0..(Margin - 1) /\ c \in 0..(Margin - 1)
    BY <1>1
  <2> HIDE DEF c
  <2> QED BY <1>2, <2>1
<1>4. d.t \in Terminals /\ d.t.x = e.o /\ d.t.y = Isize
  <2>1. Cur(f) = e.o
    BY <1>1, EmptiedIs
  <2> QED BY <1>3, <2>1 DEF Placed
<1>20. (1 - 1) * Margin = 0
  <2>1. 1 - 1 = 0 /\ 0 * Margin = 0
    BY <1>1
  <2> QED BY <2>1
<1>5. DrawnLen(e, 1) = e.k
  <2>1. Len(e.b) - (1 - 1) * Margin = e.k /\ Margin - e.o \in Int /\ e.k < Margin - e.o
    <3>1. Len(e.b) - 0 = e.k /\ Margin - e.o \in Int /\ e.k < Margin - e.o
      <4>1. Len(e.b) = e.k /\ e.k \in Nat /\ e.o \in Nat /\ Margin \in Nat /\ e.o + e.k < Margin
        BY <1>1
      <4> QED BY ONLY <4>1
    <3> QED BY <1>20, <3>1
  <2>2. Min2(e.k, Margin - e.o) = e.k
    BY <2>1 DEF Min2
  <2> QED BY <1>3, <2>1, <2>2 DEF DrawnLen
<1>6. PICK h \in [0..1 -> Terminals] :
         /\ h[0] = d.t /\ \A i \in 1..1 : h[i] = NextRow(h[i - 1], e, i)
         /\ input_draw(d, e) = D(move_left(h[1], e.k - c, c), c)
  <2>1. e.k \div Margin + 1 = 1 /\ e.o + (e.k % Margin) = c
    BY <1>3
  <2>2. \E h \in [0..(e.k \div Margin + 1) -> Terminals] :
           /\ h[0] = d.t /\ \A i \in 1..(e.k \div Margin + 1) : h[i] = NextRow(h[i - 1], e, i)
           /\ input_draw(d, e) = D(move_left(h[e.k \div Margin + 1],
                                             DrawnLen(e, e.k \div Margin + 1) - (e.o + (e.k % Margin)),
                                             e.o + (e.k % Margin)), e.o + (e.k % Margin))
    BY <1>4, Draws
  <2> HIDE DEF c
  <2> QED BY <1>5, <2>1, <2>2
<1>7. h[1] = u
  <2>1. h[1] = NextRow(d.t, e, 1)
    BY <1>6
  <2>2. ~(1 < e.k \div Margin + 1) /\ (1 - 1) * Margin = 0
    <3>1. e.k \div Margin + 1 = 1
      BY <1>3
    <3> QED BY <1>20, <3>1
  <2>3. From(e.b, (1 - 1) * Margin, DrawnLen(e, 1)) = s
    BY <1>5, <2>2
  <2> QED BY <2>1, <2>2, <2>3 DEF NextRow, DrawnPiece
<1>8. s \in Seq(Chars) /\ Len(s) = e.k /\ \A i \in 1..e.k : s[i] = e.b[i]
  <2>1. 0 + e.k <= Len(e.b) /\ 0 \in Nat /\ \A i \in 1..e.k : 0 + i = i
    BY <1>1
  <2>2. e.b \in Seq(Chars) /\ e.k \in Nat
    BY <1>1
  <2>3. s \in Seq(Chars) /\ Len(s) = e.k /\ \A i \in 1..e.k : s[i] = e.b[0 + i]
    BY ONLY <2>1, <2>2, FromIs
  <2> QED BY <2>1, <2>3
<1> HIDE DEF s
<1>9. /\ u \in Terminals /\ u.y = Isize /\ u.x = c /\ Aloft(d.t, u)
      /\ \A i \in Columns : u.line[Isize][i] = IF i - e.o \in 1..e.k THEN s[i - e.o] ELSE d.t.line[Isize][i]
  <2>1. d.t.x + Len(s) <= Margin /\ d.t.x + Len(s) = c
    BY <1>1, <1>4, <1>8
  <2> HIDE DEF c
  <2> QED BY <1>4, <1>8, <2>1, PutHere
<1> DEFINE w == move_left(u, e.k - c, c)
<1> HIDE DEF u
<1>10. w \in Terminals /\ w.y = Isize /\ w.x = c /\ w.line = u.line
  <2>1. e.k - c \in Int /\ e.k - c <= 0 /\ c \in 0..Margin
    BY <1>1
  <2> HIDE DEF c
  <2>2. Max2(e.k - c, 0) = 0 /\ c - 0 = c /\ Max2(c, 0) = c
    BY <2>1 DEF Max2
  <2>3. Max2(u.x - Max2(e.k - c, 0), 0) = c
    BY <1>9, <2>2
  <2> QED BY <1>9, <2>1, <2>3, move_leftIs
<1> HIDE DEF w
<1>11. input_draw(d, e) = D(w, c)
  BY <1>6, <1>7 DEF w
<1>12. Cur(e) = c /\ Base(e) = 0
  <2>1. Cur(e) = c
    BY EchoingIs
  <2>2. c - c = 0
    BY <1>1
  <2> HIDE DEF c
  <2> QED BY <1>3, <2>1, <2>2 DEF Base
<1>13. Placed(D(w, c), e)
  <2> HIDE DEF c
  <2>1. D(w, c).t = w /\ D(w, c).icol = c
    BY DEF D
  <2> QED BY <1>3, <1>10, <1>12, <2>1 DEF Placed
<1>14. ASSUME Seen(d, f) PROVE Seen(D(w, c), e)
  <2>1. D(w, c).t = w
    BY DEF D
  <2>2. /\ Base(f) = 0
        /\ \A j \in Nat : Glyph(f, j) = IF j <= e.o THEN e.p[j] ELSE Blank
    <3>1. /\ Base(f) = e.o - (e.o % Margin) /\ e.o - e.o = 0
          /\ \A j \in Nat : Glyph(f, j) = IF j <= e.o THEN e.p[j] ELSE Blank
      BY <1>1, EmptiedIs DEF f
    <3> QED BY <1>3, <3>1
  <2>3. ASSUME NEW i \in Columns, i > 0
        PROVE  u.line[Isize][i] = IF i <= Margin THEN Glyph(e, 0 + i) ELSE Blank
    <3>1. i \in Nat /\ 0 + i = i /\ i > 0
      BY <1>1
    <3>2. d.t.line[Isize][i] = IF i <= Margin THEN Glyph(f, 0 + i) ELSE Blank
      BY <1>1, <1>14, <2>2, <2>3 DEF Seen, Full, RowIs, Ends
    <3>3. Glyph(e, i) = IF i <= e.o THEN e.p[i] ELSE IF i - e.o <= Len(e.b) THEN e.b[i - e.o] ELSE Blank
      BY <3>1, EchoingIs
    <3>4. CASE i <= e.o
      <4>1. ~(i - e.o \in 1..e.k) /\ i <= Margin
        BY <1>1, <3>1, <3>4
      <4> QED BY <1>9, <2>2, <3>1, <3>2, <3>3, <3>4, <4>1
    <3>5. CASE ~(i <= e.o) /\ i - e.o <= e.k
      <4>1. i - e.o \in 1..e.k /\ i <= Margin
        BY <1>1, <3>1, <3>5
      <4> QED BY <1>1, <1>8, <1>9, <3>1, <3>3, <3>5, <4>1
    <3>6. CASE ~(i <= e.o) /\ ~(i - e.o <= e.k)
      <4>1. ~(i - e.o \in 1..e.k)
        BY <1>1, <3>1, <3>6
      <4> QED BY <1>1, <1>9, <2>2, <3>1, <3>2, <3>3, <3>6, <4>1
    <3> QED BY <3>4, <3>5, <3>6
  <2>4. RowIs(u.line[Isize], e, 0)
    BY <2>3 DEF RowIs, Ends
  <2>5. Over(u, e, 0)
    <3> SUFFICES ASSUME NEW r \in 1..(Isize - 1), 0 >= Offset(r) PROVE FALSE
      BY DEF Over
    <3>1. r \in 1..Isize /\ r < Isize
      OBVIOUS
    <3>2. Offset(r) \in Nat /\ Offset(r) >= Margin
      BY <3>1, OffsetIs
    <3> QED BY <1>1, <3>2
  <2> QED BY <1>10, <1>12, <2>1, <2>4, <2>5 DEF Seen, Full, Over
<1> QED BY <1>11, <1>13, <1>14 DEF Keeps, f

\* When input_draw() draws the line.
Drawable(e) == e.o = 0 \/ e.echo = FALSE \/ (e.k = Len(e.b) /\ e.o + e.k < Margin)

LEMMA input_drawIs ==
  ASSUME Isize \in Nat \ {0}, NEW e, Sane(e), Drawable(e), NEW d, Placed(d, Emptied(e))
  PROVE  Keeps(d, Emptied(e), input_draw(d, e), e)
<1>1. CASE Hiding(e)
  <2>1. input_draw(d, e) = d
    BY <1>1 DEF input_draw, Hiding
  <2>2. Hiding(Emptied(e)) /\ Emptied(e).p = e.p /\ Emptied(e).o = e.o
    BY <1>1, EmptiedIs
  <2> QED BY <1>1, <2>1, <2>2, HidingSame
<1>2. CASE Echoing(e)
  <2>1. e.o = 0 \/ (e.k = Len(e.b) /\ e.o + e.k < Margin)
    BY <1>2 DEF Echoing, Drawable
  <2> QED BY <1>2, <2>1, DrawsText, DrawsTail
<1> QED BY <1>1, <1>2, EchoingOrHiding

-----------------------------------------------------------------------------
(* The invariant.                                                          *)

Shape ==
  /\ Isize \in Sizes
  /\ kbuf \in Seq(Chars) /\ Len(kbuf) <= MaxLen /\ kpos \in 0..Len(kbuf)
  /\ prompt \in Seq(Chars) /\ plen \in 0..Len(prompt)
  /\ vtc_mode \in BOOLEAN /\ echo_mode \in BOOLEAN /\ Recho \in BOOLEAN
  /\ curs_loc \in {"input", "window", "elsewhere"}

\* The terminal and icol fit the line.
Fits ==
  /\ term \in Anywhere /\ icol = Cur(Line) % Margin
  /\ curs_loc = "input" => term.x = icol /\ term.y = Isize
  /\ GrowAny = FALSE => Full(term, Line, Base(Line))

\* d shows the line e.
Showing(d, e) == Placed(d, e) /\ (GrowAny = FALSE => Seen(d, e))

LEMMA LineIs ==
  ASSUME Shape
  PROVE  /\ Isize \in Nat \ {0} /\ Sane(Line)
         /\ Line.b = kbuf /\ Line.k = kpos /\ Line.p = prompt /\ Line.o = Oplen /\ Line.echo = echo_mode
         /\ Oplen \in Nat /\ Oplen <= plen /\ kpos \in Nat /\ Len(kbuf) \in Nat /\ kpos <= Len(kbuf)
         /\ plen \in Nat /\ Len(prompt) \in Nat /\ plen <= Len(prompt)
<1>1. Isize \in Nat \ {0}
  BY InputLineAssumption DEF Shape
<1>2. /\ kbuf \in Seq(Chars) /\ Len(kbuf) \in Nat /\ kpos \in Nat /\ kpos <= Len(kbuf)
      /\ prompt \in Seq(Chars) /\ Len(prompt) \in Nat /\ plen \in Nat /\ plen <= Len(prompt)
  BY DEF Shape
<1>3. Oplen \in Nat /\ Oplen <= plen /\ Oplen <= Len(prompt)
  BY <1>2 DEF Oplen
<1>4. echo_mode \in BOOLEAN
  BY DEF Shape
<1>5. Line = [b |-> kbuf, k |-> kpos, p |-> prompt, o |-> Oplen, echo |-> echo_mode]
  BY DEF Line
<1>6. Line.b = kbuf /\ Line.k = kpos /\ Line.p = prompt /\ Line.o = Oplen /\ Line.echo = echo_mode
  BY <1>5
<1>7. Line \in Lines
  BY <1>2, <1>3, <1>4, <1>5 DEF Lines
<1> QED BY <1>1, <1>2, <1>3, <1>6, <1>7 DEF Sane

LEMMA HereIs ==
  ASSUME Shape, Fits
  PROVE  Showing(Here, Line) /\ Here.t \in Terminals /\ Here.icol = icol /\ icol \in 0..(Margin - 1)
<1>1. Isize \in Nat \ {0} /\ Sane(Line)
  BY LineIs
<1>2. icol \in 0..(Margin - 1) /\ icol = Cur(Line) % Margin /\ term \in Anywhere
  BY <1>1, BaseIs DEF Fits
<1>3. icol \in 0..Margin
  BY <1>2, MarginIs
<1> DEFINE t == curs_input(term)
<1>4. t \in Terminals /\ t.x = icol /\ t.y = Isize /\ t.line = term.line
  <2>1. CASE curs_loc = "input"
    BY <1>1, <1>2, <2>1 DEF Fits, curs_input, Terminals
  <2>2. CASE curs_loc # "input"
    <3>1. t = cmove(term, icol)
      BY <2>2 DEF curs_input
    <3> QED BY <1>1, <1>2, <1>3, <3>1, cmoveIs
  <2> QED BY <2>1, <2>2
<1> HIDE DEF t
<1>5. Here = D(t, icol) /\ Here.t = t /\ Here.icol = icol
  BY DEF Here, D, t
<1>6. Placed(Here, Line)
  BY <1>2, <1>4, <1>5 DEF Placed
<1>7. ASSUME GrowAny = FALSE PROVE Seen(Here, Line)
  <2>1. Full(term, Line, Base(Line))
    BY <1>7 DEF Fits
  <2>2. Full(t, Line, Base(Line))
    BY <1>4, <2>1 DEF Full, Over
  <2> QED BY <1>5, <2>2 DEF Seen
<1> QED BY <1>2, <1>4, <1>5, <1>6, <1>7 DEF Showing

\* What a drawing function returned is what is shown next.
LEMMA ShowsFits ==
  ASSUME NEW d, Showing(d, Line'), Shows(d), Isize' = Isize
  PROVE  Fits'
<1>1. term' = d.t /\ icol' = d.icol
  BY DEF Shows
<1>2. /\ d.t \in Anywhere /\ d.t.x = d.icol /\ d.t.y = Isize /\ d.icol = Cur(Line') % Margin
      /\ GrowAny = FALSE => Full(d.t, Line', Base(Line'))
  BY DEF Showing, Placed, Terminals, Seen
<1>3. (term \in Anywhere)'
  BY <1>1, <1>2 DEF Anywhere
<1>4. (icol = Cur(Line) % Margin)'
  BY <1>1, <1>2 DEF Cur
<1>5. (curs_loc = "input" => term.x = icol /\ term.y = Isize)'
  BY <1>1, <1>2
<1>6. (GrowAny = FALSE => Full(term, Line, Base(Line)))'
  BY <1>1, <1>2 DEF Full, Over, Offset, RowIs, Ends, Glyph, Base, Cur
<1> QED BY <1>3, <1>4, <1>5, <1>6 DEF Fits

LEMMA KeepsShowing ==
  ASSUME NEW d, NEW e, Showing(d, e), NEW r, NEW f, Keeps(d, e, r, f)
  PROVE  Showing(r, f)
BY DEF Keeps, Showing

-----------------------------------------------------------------------------
(* Each action keeps it.                                                   *)

\* The line is edited, with the same prompt and echo.
LEMMA Edited ==
  ASSUME Shape, Fits, NEW f, Sane(f), Line' = f, NEW d, Keeps(Here, Line, d, f), Shows(d),
         Len(kbuf') <= MaxLen, curs_loc' \in {"input", "window", "elsewhere"},
         UNCHANGED <<Isize, mode, echo>>
  PROVE  Shape' /\ Fits'
<1>1. Fits'
  <2>1. Showing(d, f)
    BY HereIs, KeepsShowing
  <2>2. Isize' = Isize
    OBVIOUS
  <2> QED BY <2>1, <2>2, ShowsFits
<1>2. f = [b |-> kbuf', k |-> kpos', p |-> prompt', o |-> Oplen', echo |-> echo_mode']
  BY DEF Line
<1>3. kbuf' \in Seq(Chars) /\ kpos' \in 0..Len(kbuf')
  <2>1. f.b = kbuf' /\ f.k = kpos'
    BY <1>2
  <2> QED BY <2>1, SaneIs
<1>4. Shape'
  BY <1>3 DEF Shape, mode, echo
<1> QED BY <1>1, <1>4

LEMMA TypeKeeps ==
  ASSUME Shape, Fits, NEW s \in Texts, Type(s)
  PROVE  Shape' /\ Fits'
<1> DEFINE d == input_puts(Here, Line, s)
           f == Splice(Line, s)
<1>1. /\ Shows(d) /\ curs_loc' = "input" /\ UNCHANGED <<Isize, mode, echo>> /\ Len(kbuf) + Len(s) <= MaxLen
      /\ kbuf' = From(kbuf, 0, kpos) \o s \o From(kbuf, kpos, Len(kbuf) - kpos)
      /\ kpos' = kpos + Len(s)
  BY DEF Type
<1>2. Isize \in Nat \ {0} /\ Sane(Line) /\ Line.b = kbuf /\ Line.k = kpos /\ s \in Seq(Chars)
  BY LineIs, InputLineAssumption
<1>3. Placed(Here, Line)
  BY HereIs DEF Showing
<1>4. Line' = f
  <2>1. f = [Line EXCEPT !.b = kbuf', !.k = kpos']
    BY <1>1, <1>2 DEF Splice
  <2> QED BY <1>1, <2>1 DEF Line, Oplen, mode, echo
<1>5. Keeps(Here, Line, d, f)
  BY <1>2, <1>3, input_putsIs
<1>6. Sane(f) /\ Len(f.b) = Len(kbuf) + Len(s)
  BY <1>2, SpliceIs
<1>7. Len(kbuf') <= MaxLen
  <2>1. f.b = kbuf'
    BY <1>4 DEF Line
  <2> QED BY <1>1, <1>6, <2>1
<1> HIDE DEF d, f
<1> QED BY <1>1, <1>4, <1>5, <1>6, <1>7, Edited

\* The next word and the last one.
LEMMA WordsIs ==
  ASSUME Shape
  PROVE  fword \in kpos..Len(kbuf) /\ bword \in 0..kpos
<1>1. kpos \in Nat /\ Len(kbuf) \in Nat /\ kpos <= Len(kbuf)
  BY LineIs
<1>2. fword \in kpos..Len(kbuf)
  <2> DEFINE end == {i \in kpos..Len(kbuf) : \A j \in kpos..(i - 1) : ~Space(j)}
             e == CHOOSE i \in end : \A j \in end : j <= i
             next == {i \in e..Len(kbuf) : \A j \in e..(i - 1) : Space(j)}
             w == CHOOSE i \in next : \A j \in next : j <= i
  <2>1. fword = w
    BY DEF fword
  <2>2. kpos \in end /\ end \subseteq 0..Len(kbuf)
    BY <1>1
  <2>3. e \in end
    <3> HIDE DEF end
    <3>1. \E i \in end : \A j \in end : j <= i
      BY <1>1, <2>2, GreatestNat
    <3> QED BY <3>1
  <2>4. e \in kpos..Len(kbuf)
    BY <2>3
  <2> HIDE DEF e
  <2>5. e \in next /\ next \subseteq 0..Len(kbuf)
    BY <1>1, <2>4
  <2>6. w \in next
    <3> HIDE DEF next
    <3>1. \E i \in next : \A j \in next : j <= i
      BY <1>1, <2>5, GreatestNat
    <3> QED BY <3>1
  <2>7. w \in e..Len(kbuf)
    BY <2>6
  <2> HIDE DEF w
  <2> QED BY <1>1, <2>1, <2>4, <2>7
<1>3. bword \in 0..kpos
  <2> DEFINE gap == {i \in 0..kpos : \A j \in i..(kpos - 1) : Space(j)}
             g == CHOOSE i \in gap : \A j \in gap : i <= j
             word == {i \in 0..g : \A j \in i..(g - 1) : ~Space(j)}
             w == CHOOSE i \in word : \A j \in word : i <= j
  <2>1. bword = w
    BY DEF bword
  <2>2. kpos \in gap /\ gap \subseteq Nat
    BY <1>1
  <2>3. g \in gap
    <3> HIDE DEF gap
    <3>1. \E i \in gap : \A j \in gap : i <= j
      BY <2>2, LeastNat
    <3> QED BY <3>1
  <2>4. g \in 0..kpos
    BY <2>3
  <2> HIDE DEF g
  <2>5. g \in word /\ word \subseteq Nat
    BY <1>1, <2>4
  <2>6. w \in word
    <3> HIDE DEF word
    <3>1. \E i \in word : \A j \in word : i <= j
      BY <2>5, LeastNat
    <3> QED BY <3>1
  <2>7. w \in 0..g
    BY <2>6
  <2> HIDE DEF w
  <2> QED BY <1>1, <2>1, <2>4, <2>7
<1> QED BY <1>2, <1>3

LEMMA DeleteBackKeeps ==
  ASSUME Shape, Fits, DeleteBack
  PROVE  Shape' /\ Fits'
<1>1. kpos \in Nat /\ Len(kbuf) \in Nat /\ kpos <= Len(kbuf) /\ bword \in 0..kpos
  BY LineIs, WordsIs
<1>2. PICK num \in {Min2(1, kpos), kpos - bword, kpos} :
         /\ Shows(input_bdel(Here, Line, num))
         /\ kbuf' = s_delete(kbuf, kpos - num, num)
         /\ kpos' = kpos - num
  BY DEF DeleteBack
<1>3. curs_loc' = "input" /\ UNCHANGED <<Isize, mode, echo>>
  BY DEF DeleteBack
<1>4. num \in 0..kpos
  <2>1. Min2(1, kpos) \in 0..kpos
    BY <1>1 DEF Min2
  <2>2. kpos - bword \in 0..kpos /\ kpos \in 0..kpos
    BY <1>1
  <2> QED BY <2>1, <2>2
<1> DEFINE d == input_bdel(Here, Line, num)
           g == Moved(Line, kpos - num)
           f == Cutout(g, num)
<1>5. Isize \in Nat \ {0} /\ Sane(Line) /\ Line.b = kbuf /\ Line.k = kpos
  BY LineIs
<1>6. Placed(Here, Line)
  BY HereIs DEF Showing
<1>7. Keeps(Here, Line, d, f)
  BY <1>4, <1>5, <1>6, input_bdelIs
<1>8. Sane(f) /\ Len(f.b) = Len(kbuf) - num
  <2>1. kpos - num \in 0..Len(Line.b) /\ num \in 0..(Len(kbuf) - (kpos - num))
    BY <1>1, <1>4, <1>5
  <2>2. Sane(g) /\ g.b = kbuf /\ g.k = kpos - num
    BY <1>5, <2>1, MovedIs
  <2> HIDE DEF g
  <2> QED BY <2>1, <2>2, CutoutIs
<1>9. Line' = f
  <2>1. g = [Line EXCEPT !.k = kpos'] /\ g.b = kbuf /\ g.k = kpos'
    BY <1>2 DEF Moved, Line
  <2>2. f = [Line EXCEPT !.b = kbuf', !.k = kpos']
    BY <1>2, <2>1 DEF Cutout
  <2> QED BY <1>3, <2>2 DEF Line, Oplen, mode, echo
<1>10. Len(kbuf') <= MaxLen
  <2>1. f.b = kbuf'
    BY <1>9 DEF Line
  <2>2. Len(kbuf) <= MaxLen /\ MaxLen \in Nat /\ num \in Nat
    BY <1>4, InputLineAssumption DEF Shape
  <2> QED BY <1>1, <1>8, <2>1, <2>2
<1> HIDE DEF d, f
<1> QED BY <1>2, <1>3, <1>7, <1>8, <1>9, <1>10, Edited DEF d

LEMMA DeleteAheadKeeps ==
  ASSUME Shape, Fits, DeleteAhead
  PROVE  Shape' /\ Fits'
<1>1. kpos \in Nat /\ Len(kbuf) \in Nat /\ kpos <= Len(kbuf) /\ fword \in kpos..Len(kbuf)
  BY LineIs, WordsIs
<1>2. PICK num \in {Min2(1, Len(kbuf) - kpos), fword - kpos, Len(kbuf) - kpos} :
         /\ Shows(IF num = 0 THEN Here ELSE input_fdel(Here, Line, num))
         /\ kbuf' = s_delete(kbuf, kpos, num)
  BY DEF DeleteAhead
<1>3. curs_loc' = "input" /\ UNCHANGED <<Isize, kpos, mode, echo>>
  BY DEF DeleteAhead
<1>4. num \in 0..(Len(kbuf) - kpos)
  <2>1. Min2(1, Len(kbuf) - kpos) \in 0..(Len(kbuf) - kpos)
    BY <1>1 DEF Min2
  <2>2. fword - kpos \in 0..(Len(kbuf) - kpos) /\ Len(kbuf) - kpos \in 0..(Len(kbuf) - kpos)
    BY <1>1
  <2> QED BY <2>1, <2>2
<1> DEFINE d == IF num = 0 THEN Here ELSE input_fdel(Here, Line, num)
           f == Cutout(Line, num)
<1>5. Isize \in Nat \ {0} /\ Sane(Line) /\ Line.b = kbuf /\ Line.k = kpos
  BY LineIs
<1>6. Placed(Here, Line)
  BY HereIs DEF Showing
<1>7. Keeps(Here, Line, d, f)
  <2>1. CASE num = 0
    <3>1. f = Line
      BY <1>5, <2>1, CutoutNone
    <3> QED BY <1>6, <2>1, <3>1 DEF Keeps
  <2>2. CASE num # 0
    BY <1>4, <1>5, <1>6, <2>2, input_fdelIs
  <2> QED BY <2>1, <2>2
<1>8. Sane(f) /\ Len(f.b) = Len(kbuf) - num
  BY <1>4, <1>5, CutoutIs
<1>9. Line' = f
  <2>1. f = [Line EXCEPT !.b = kbuf']
    BY <1>2, <1>5 DEF Cutout
  <2> QED BY <1>3, <2>1 DEF Line, Oplen, mode, echo
<1>10. Len(kbuf') <= MaxLen
  <2>1. f.b = kbuf'
    BY <1>9 DEF Line
  <2>2. Len(kbuf) <= MaxLen /\ MaxLen \in Nat /\ num \in Nat
    BY <1>4, InputLineAssumption DEF Shape
  <2> QED BY <1>1, <1>8, <2>1, <2>2
<1> HIDE DEF d, f
<1> QED BY <1>2, <1>3, <1>7, <1>8, <1>9, <1>10, Edited DEF d

LEMMA DeleteLineKeeps ==
  ASSUME Shape, Fits, DeleteLine
  PROVE  Shape' /\ Fits'
<1> DEFINE d == input_clear(Here, Line)
           f == Emptied(Line)
<1>1. /\ Shows(d) /\ kbuf' = <<>> /\ kpos' = 0 /\ curs_loc' = "input"
      /\ UNCHANGED <<Isize, mode, echo>>
  BY DEF DeleteLine
<1>2. Isize \in Nat \ {0} /\ Sane(Line) /\ Placed(Here, Line)
  BY LineIs, HereIs DEF Showing
<1>3. Keeps(Here, Line, d, f) /\ Sane(f)
  BY <1>2, input_clearIs, EmptiedIs
<1>4. Line' = f
  <2>1. f = [Line EXCEPT !.b = kbuf', !.k = kpos']
    BY <1>1 DEF Emptied
  <2> QED BY <1>1, <2>1 DEF Line, Oplen, mode, echo
<1>5. Len(kbuf') <= MaxLen
  BY <1>1, InputLineAssumption
<1> HIDE DEF d, f
<1> QED BY <1>1, <1>3, <1>4, <1>5, Edited

LEMMA MoveKeeps ==
  ASSUME Shape, Fits, Move
  PROVE  Shape' /\ Fits'
<1>1. kpos \in Nat /\ Len(kbuf) \in Nat /\ kpos <= Len(kbuf) /\ fword \in kpos..Len(kbuf) /\ bword \in 0..kpos
  BY LineIs, WordsIs
<1>2. PICK to \in {kpos - Margin, kpos + Margin, kpos - 1, kpos + 1, 0, Len(kbuf), bword, fword} :
         LET pos == Max2(0, Min2(to, Len(kbuf)))
         IN Shows(input_cmove(Here, Line, pos)) /\ kpos' = pos
  BY DEF Move
<1> DEFINE pos == Max2(0, Min2(to, Len(kbuf)))
           d == input_cmove(Here, Line, pos)
           f == Moved(Line, pos)
<1>3. curs_loc' = "input" /\ UNCHANGED <<Isize, kbuf, mode, echo>> /\ Shows(d) /\ kpos' = pos
  BY <1>2 DEF Move
<1>4. pos \in 0..Len(kbuf)
  <2>1. to \in Int /\ Len(kbuf) \in Int
    BY <1>1, MarginIs
  <2>2. Min2(to, Len(kbuf)) \in Int /\ Min2(to, Len(kbuf)) <= Len(kbuf)
    BY ONLY <2>1, MinIs
  <2> QED BY <1>1, <2>2 DEF Max2
<1> HIDE DEF pos
<1>5. Isize \in Nat \ {0} /\ Sane(Line) /\ Line.b = kbuf /\ Placed(Here, Line)
  BY LineIs, HereIs DEF Showing
<1>6. Keeps(Here, Line, d, f) /\ Sane(f)
  BY <1>4, <1>5, input_cmoveIs, MovedIs
<1>7. Line' = f
  BY <1>3 DEF Moved, Line, Oplen, mode, echo
<1>8. Len(kbuf') <= MaxLen
  BY <1>3 DEF Shape
<1> HIDE DEF d, f
<1> QED BY <1>3, <1>6, <1>7, <1>8, Edited

LEMMA SetPositionKeeps ==
  ASSUME Shape, Fits, FromAny = FALSE, NEW pos, SetPosition(pos)
  PROVE  Shape' /\ Fits'
<1> DEFINE d == input_cmove(Here, Line, pos)
           f == Moved(Line, pos)
<1>1. /\ pos \in 0..Len(kbuf) /\ curs_loc = "input" /\ kpos' = pos
      /\ Shows(input_cmove(D(term, icol), Line, pos)) /\ UNCHANGED <<Isize, kbuf, mode, echo, curs_loc>>
  BY DEF SetPosition
<1>2. Shows(d)
  BY <1>1 DEF Here, curs_input
<1>3. Isize \in Nat \ {0} /\ Sane(Line) /\ Line.b = kbuf /\ Placed(Here, Line)
  BY LineIs, HereIs DEF Showing
<1>4. Keeps(Here, Line, d, f) /\ Sane(f)
  BY <1>1, <1>3, input_cmoveIs, MovedIs
<1>5. Line' = f
  BY <1>1 DEF Moved, Line, Oplen, mode, echo
<1>6. Len(kbuf') <= MaxLen /\ curs_loc' = "input"
  BY <1>1 DEF Shape
<1> HIDE DEF d, f
<1> QED BY <1>1, <1>2, <1>4, <1>5, <1>6, Edited

\* What may be drawn is drawn as it should be.
LEMMA MayDrawIs ==
  ASSUME DrawAny = FALSE, NEW e, Sane(e), MayDraw(e)
  PROVE  Drawable(e)
<1>1. e.echo \in BOOLEAN
  BY DEF Sane, Lines
<1> QED BY <1>1 DEF MayDraw, Drawable

\* A blank row, the prompt and the text.
LEMMA Redrawn ==
  ASSUME DrawAny = FALSE, Isize \in Nat \ {0}, NEW e, Sane(e), MayDraw(e), NEW d, Bared(d.t)
  PROVE  Showing(input_draw(draw_prompt(d, e), e), e)
<1> DEFINE r == draw_prompt(d, e)
<1>1. Placed(r, Emptied(e)) /\ Seen(r, Emptied(e))
  BY draw_promptIs DEF Bared
<1> HIDE DEF r
<1>2. Keeps(r, Emptied(e), input_draw(r, e), e)
  BY <1>1, MayDrawIs, input_drawIs
<1> QED BY <1>1, <1>2 DEF Keeps, Showing, r

LEMMA RefreshKeeps ==
  ASSUME Shape, Fits, DrawAny = FALSE, Refresh
  PROVE  Shape' /\ Fits'
<1> DEFINE r == input_clear(Here, Line)
           d == input_draw(r, Line)
<1>1. /\ MayDraw(Line) /\ Shows(d) /\ curs_loc' = "input"
      /\ UNCHANGED <<Isize, text, mode, echo>>
  BY DEF Refresh
<1>2. Isize \in Nat \ {0} /\ Sane(Line) /\ Placed(Here, Line)
  BY LineIs, HereIs DEF Showing
<1>3. Keeps(Here, Line, r, Emptied(Line))
  BY <1>2, input_clearIs
<1> HIDE DEF r
<1>4. Keeps(r, Emptied(Line), d, Line)
  BY <1>1, <1>2, <1>3, MayDrawIs, input_drawIs DEF Keeps
<1> HIDE DEF d
<1>5. Keeps(Here, Line, d, Line)
  BY <1>3, <1>4, KeepsTransitive
<1>6. Line' = Line /\ Len(kbuf') <= MaxLen
  BY <1>1 DEF Line, Oplen, mode, echo, text, Shape
<1> QED BY <1>1, <1>2, <1>5, <1>6, Edited

LEMMA RedrawKeeps ==
  ASSUME Shape, Fits, DrawAny = FALSE, Redraw
  PROVE  Shape' /\ Fits'
<1> DEFINE t == [clear_space(term) EXCEPT !.x = 0]
           d == input_draw(draw_prompt(D(t, icol), Line), Line)
<1>1. /\ MayDraw(Line) /\ Shows(d) /\ curs_loc' = "elsewhere"
      /\ UNCHANGED <<Isize, text, mode, echo>>
  BY DEF Redraw
<1>2. Isize \in Nat \ {0} /\ Sane(Line) /\ term \in Anywhere
  BY LineIs DEF Fits
<1>3. Bared(D(t, icol).t)
  <2> DEFINE u == clear_space(term)
  <2>1. /\ u \in Terminals /\ u.x = 0 /\ u.y = Isize
        /\ \A i \in Columns : u.line[Isize][i] = Blank
    BY <1>2, clear_spaceIs
  <2> HIDE DEF u
  <2>2. t = u
    BY <2>1 DEF u, Terminals, Anywhere
  <2> QED BY <2>1, <2>2 DEF Bared, Clean, D
<1> HIDE DEF t
<1>4. Showing(d, Line)
  BY <1>1, <1>2, <1>3, Redrawn
<1> HIDE DEF d
<1>5. Line' = Line /\ Len(kbuf') <= MaxLen
  BY <1>1 DEF Line, Oplen, mode, echo, text, Shape
<1>6. Fits'
  BY <1>1, <1>4, <1>5, ShowsFits
<1>7. Shape'
  BY <1>1 DEF Shape, mode, echo, text
<1> QED BY <1>6, <1>7

LEMMA SetBufferKeeps ==
  ASSUME Shape, Fits, DrawAny = FALSE, NEW s \in Texts, SetBuffer(s)
  PROVE  Shape' /\ Fits'
<1> DEFINE e == [Line EXCEPT !.b = s, !.k = Min2(kpos, Len(s))]
           r == input_clear(Here, Line)
           d == input_draw(r, e)
<1>1. /\ Len(s) <= MaxLen /\ MayDraw(e) /\ Shows(d) /\ kbuf' = s /\ kpos' = Min2(kpos, Len(s))
      /\ curs_loc' = "input" /\ UNCHANGED <<Isize, mode, echo>>
  BY DEF SetBuffer, Line
<1>2. /\ Isize \in Nat \ {0} /\ Sane(Line) /\ Placed(Here, Line) /\ s \in Seq(Chars) /\ Len(s) \in Nat
      /\ kpos \in Nat
  BY LineIs, HereIs, InputLineAssumption DEF Showing
<1>3. Keeps(Here, Line, r, Emptied(Line))
  BY <1>2, input_clearIs
<1>4. Sane(e)
  <2>1. Min2(kpos, Len(s)) \in Nat /\ Min2(kpos, Len(s)) <= Len(s)
    BY <1>2 DEF Min2
  <2> QED BY <1>2, <2>1 DEF Sane, Lines
<1>5. Emptied(e) = Emptied(Line)
  BY DEF Emptied, Line
<1>6. Line' = e
  <2>1. e = [Line EXCEPT !.b = kbuf', !.k = kpos']
    BY <1>1
  <2> HIDE DEF e
  <2> QED BY <1>1, <2>1 DEF Line, Oplen, mode, echo
<1> HIDE DEF r, e
<1>7. Keeps(r, Emptied(e), d, e)
  BY <1>1, <1>2, <1>3, <1>4, <1>5, MayDrawIs, input_drawIs DEF Keeps
<1> HIDE DEF d
<1>8. Keeps(Here, Line, d, e)
  BY <1>3, <1>5, <1>7, KeepsTransitive
<1> QED BY <1>1, <1>4, <1>6, <1>8, Edited

LEMMA ProcessKeeps ==
  ASSUME Shape, Fits, Process
  PROVE  Shape' /\ Fits'
<1> DEFINE r == input_cmove(Here, Line, Len(kbuf))
           t == Iscr_fwd(r.t)
           f == Line'
<1>1. /\ Shows(D(t, 0)) /\ kbuf' = <<>> /\ kpos' = 0 /\ curs_loc' = "input"
      /\ UNCHANGED <<Isize, vtc_mode, echo>>
      /\ IF plen > 0 /\ ~vtc_mode THEN prompt' = <<>> /\ plen' = 0 ELSE UNCHANGED <<prompt, plen>>
  BY DEF Process
<1>2. /\ Isize \in Nat \ {0} /\ Sane(Line) /\ Placed(Here, Line) /\ Line.b = kbuf /\ plen \in Nat
      /\ Len(kbuf) \in Nat /\ Margin \in Nat /\ Margin > 0
  BY LineIs, HereIs, MarginIs DEF Showing
<1>3. r.t \in Anywhere
  <2>1. Len(kbuf) \in 0..Len(Line.b)
    BY <1>2
  <2>2. Keeps(Here, Line, r, Moved(Line, Len(kbuf)))
    BY <1>2, <2>1, input_cmoveIs
  <2> QED BY <2>2 DEF Keeps, Placed, Terminals
<1> HIDE DEF r
<1>4. t \in Terminals /\ t.y = Isize /\ t.x = 0 /\ \A i \in Columns : t.line[Isize][i] = Blank
  BY <1>2, <1>3, Iscr_fwdIs
<1> HIDE DEF t
<1>5. Oplen' = 0
  BY <1>1, <1>2 DEF Oplen
<1>6. f.b = <<>> /\ f.k = 0 /\ f.o = 0
  BY <1>1, <1>5 DEF Line
<1>7. Shape'
  <2>1. prompt' \in Seq(Chars) /\ plen' \in 0..Len(prompt')
    <3>1. CASE prompt' = <<>> /\ plen' = 0
      BY <3>1
    <3>2. CASE prompt' = prompt /\ plen' = plen
      BY <3>2 DEF Shape
    <3> QED BY <1>1, <3>1, <3>2
  <2>2. kbuf' \in Seq(Chars) /\ Len(kbuf') <= MaxLen /\ kpos' \in 0..Len(kbuf')
    BY <1>1, InputLineAssumption
  <2> QED BY <1>1, <2>1, <2>2 DEF Shape, echo
<1> HIDE DEF f
<1>8. Cur(f) = 0 /\ 0 % Margin = 0 /\ Base(f) = 0
  <2>1. 0 \in 0..(Margin - 1) /\ Margin * 0 + 0 = 0 /\ 0 \in Int
    BY <1>2
  <2>2. 0 % Margin = 0
    BY <2>1, ModUnique
  <2> QED BY <1>6, <2>2 DEF Cur, Base
<1>9. Placed(D(t, 0), f)
  BY <1>4, <1>8 DEF Placed, D
<1>10. Full(t, f, 0)
  <2>1. Over(t, f, 0)
    <3> SUFFICES ASSUME NEW i \in 1..(Isize - 1), 0 >= Offset(i) PROVE FALSE
      BY DEF Over
    <3>1. i \in 1..Isize /\ i < Isize
      BY <1>2
    <3>2. Offset(i) \in Nat /\ Offset(i) >= Margin
      BY <1>2, <3>1, OffsetIs
    <3> QED BY <1>2, <3>2
  <2>2. ASSUME NEW i \in Columns, i > 0
        PROVE  t.line[Isize][i] = IF i <= Margin THEN Glyph(f, 0 + i) ELSE Blank
    <3>1. i \in Nat /\ 0 + i = i /\ ~(i <= 0) /\ i - 0 = i /\ Len(f.b) = 0
      BY <1>6, <2>2 DEF Columns
    <3> QED BY <1>4, <1>6, <3>1 DEF Glyph
  <2> QED BY <2>1, <2>2 DEF Full, RowIs, Ends
<1>11. Showing(D(t, 0), f)
  BY <1>8, <1>9, <1>10 DEF Showing, Seen, D
<1>12. Fits'
  BY <1>1, <1>11, ShowsFits DEF f
<1> QED BY <1>7, <1>12

\* The rows and icol stay, and so does what the line looks like.
LEMMA SameLook ==
  ASSUME Shape, Fits, Alike(Line, Line'), Isize' = Isize, icol' = icol,
         term' \in Anywhere, term'.line = term.line,
         curs_loc' = "input" => term'.x = icol /\ term'.y = Isize
  PROVE  Fits'
<1> DEFINE f == Line'
<1>1. Isize \in Nat \ {0} /\ Sane(Line)
  BY LineIs
<1>2. Cur(f) = Cur(Line) /\ Base(f) = Base(Line) /\ Base(Line) \in Nat
  BY <1>1, BaseIs DEF Alike, Base
<1>3. \A j \in Nat \ {0} : Glyph(Line, j) = Glyph(f, j)
  BY DEF Alike
<1> HIDE DEF f
<1>4. ASSUME GrowAny = FALSE PROVE Full(term', f, Base(f))
  <2>1. Full(term, Line, Base(Line))
    BY <1>4 DEF Fits
  <2>2. Full(term', Line, Base(Line))
    BY <2>1 DEF Full, Over
  <2>3. ASSUME NEW j \in 1..(Base(Line) + Margin) PROVE Glyph(Line, j) = Glyph(f, j)
    <3>1. j \in Nat \ {0}
      BY <1>2, MarginIs
    <3> QED BY <1>3, <3>1
  <2>4. Base(Line) \in Int
    BY <1>2
  <2>5. Full(term', f, Base(Line))
    BY <1>1, <2>2, <2>3, <2>4, FullAgree
  <2> QED BY <1>2, <2>5
<1>5. (term \in Anywhere)'
  BY DEF Anywhere
<1>6. (icol = Cur(Line) % Margin)'
  BY <1>2 DEF Fits, f
<1>7. (curs_loc = "input" => term.x = icol /\ term.y = Isize)'
  OBVIOUS
<1>8. (GrowAny = FALSE => Full(term, Line, Base(Line)))'
  BY <1>4 DEF Full, Over, Offset, RowIs, Ends, Glyph, Base, Cur, f
<1> QED BY <1>5, <1>6, <1>7, <1>8 DEF Fits

\* The cursor goes to a window.
LEMMA Away ==
  ASSUME Shape, Fits
  PROVE  [term EXCEPT !.y = 0] \in Anywhere /\ [term EXCEPT !.y = 0].line = term.line
<1>1. term \in Anywhere /\ 0 \in 0..Isize
  BY LineIs DEF Fits
<1> QED BY <1>1 DEF Anywhere

LEMMA OutputKeeps ==
  ASSUME Shape, Fits, Output
  PROVE  Shape' /\ Fits'
<1>1. /\ term' = [term EXCEPT !.y = 0] /\ curs_loc' = "window"
      /\ UNCHANGED <<Isize, text, mode, echo, icol>>
  BY DEF Output
<1>2. Line' = Line
  BY <1>1 DEF Line, Oplen, text, mode, echo
<1>3. Alike(Line, Line')
  BY <1>2 DEF Alike
<1>4. term' \in Anywhere /\ term'.line = term.line
  BY <1>1, Away
<1>5. Fits'
  BY <1>1, <1>3, <1>4, SameLook
<1>6. Shape'
  BY <1>1 DEF Shape, text, mode, echo
<1> QED BY <1>5, <1>6

LEMMA CloseActiveKeeps ==
  ASSUME Shape, Fits, NEW new \in BOOLEAN, CloseActive(new)
  PROVE  Shape' /\ Fits'
<1>1. /\ term' = [term EXCEPT !.y = 0] /\ curs_loc' = "elsewhere" /\ Recho' = new
      /\ UNCHANGED <<Isize, text, mode, echo_mode, icol>>
  BY DEF CloseActive
<1>2. Line' = Line
  BY <1>1 DEF Line, Oplen, text, mode
<1>3. Alike(Line, Line')
  BY <1>2 DEF Alike
<1>4. term' \in Anywhere /\ term'.line = term.line
  BY <1>1, Away
<1>5. Fits'
  BY <1>1, <1>3, <1>4, SameLook
<1>6. Shape'
  BY <1>1 DEF Shape, text, mode
<1> QED BY <1>5, <1>6

LEMMA IdleKeeps ==
  ASSUME Shape, Fits, Idle
  PROVE  Shape' /\ Fits'
<1>1. /\ term' = curs_input(term) /\ curs_loc' = "input"
      /\ UNCHANGED <<Isize, text, mode, echo, icol>>
  BY DEF Idle
<1>2. Line' = Line
  BY <1>1 DEF Line, Oplen, text, mode, echo
<1>3. Shows(Here)
  BY <1>1 DEF Shows, Here, D
<1>4. Showing(Here, Line')
  BY <1>2, HereIs
<1>5. Fits'
  BY <1>1, <1>3, <1>4, ShowsFits
<1>6. Shape'
  BY <1>1 DEF Shape, text, mode, echo
<1> QED BY <1>5, <1>6

LEMMA ChangePromptKeeps ==
  ASSUME Shape, Fits, DrawAny = FALSE, NEW p \in Prompts, ChangePrompt(p)
  PROVE  Shape' /\ Fits'
<1> DEFINE e == [Line EXCEPT !.p = p, !.o = Len(p)]
           d == input_draw(draw_prompt(clear_input_window(Here, Line), e), e)
<1>1. /\ prompt' = p /\ plen' = Len(p) /\ UNCHANGED <<Isize, text, vtc_mode, echo>>
      /\ vtc_mode => UNCHANGED <<icol, term, curs_loc>>
      /\ ~vtc_mode => MayDraw(e) /\ Shows(d) /\ curs_loc' = "input"
  BY DEF ChangePrompt
<1>2. Isize \in Nat \ {0} /\ Sane(Line) /\ plen \in Nat /\ p \in Seq(Chars) /\ Len(p) \in Nat
  BY LineIs, InputLineAssumption
<1>3. Shape'
  <2>1. prompt' \in Seq(Chars) /\ plen' \in 0..Len(prompt')
    BY <1>1, <1>2
  <2>2. curs_loc' \in {"input", "window", "elsewhere"}
    BY <1>1 DEF Shape
  <2> QED BY <1>1, <2>1, <2>2 DEF Shape, text, echo
<1>4. CASE vtc_mode
  <2> DEFINE f == Line'
  <2>1. /\ Line.o = 0 /\ f.o = 0 /\ f.b = Line.b /\ f.k = Line.k /\ f.echo = Line.echo
    BY <1>1, <1>4 DEF Line, Oplen, text, echo
  <2> HIDE DEF f
  <2>2. Alike(Line, f)
    <3>1. \A j \in Nat \ {0} : ~(j <= 0)
      OBVIOUS
    <3> QED BY <2>1, <3>1 DEF Alike, Cur, Glyph
  <2>3. term \in Anywhere /\ (curs_loc = "input" => term.x = icol /\ term.y = Isize)
    BY DEF Fits
  <2>4. Fits'
    BY <1>1, <1>4, <2>2, <2>3, SameLook DEF f
  <2> QED BY <1>3, <2>4
<1>5. CASE ~vtc_mode
  <2>1. Sane(e)
    <3>1. Line \in Lines /\ Line.k <= Len(Line.b) /\ Len(p) <= Len(p)
      BY <1>2 DEF Sane
    <3>2. e \in Lines /\ e.b = Line.b /\ e.k = Line.k /\ e.p = p /\ e.o = Len(p)
      BY <1>2, <3>1 DEF Lines
    <3> HIDE DEF e
    <3> QED BY <3>1, <3>2 DEF Sane
  <2>2. Line' = e
    <3>1. e = [Line EXCEPT !.p = prompt', !.o = Oplen']
      BY <1>1, <1>5 DEF Oplen
    <3> HIDE DEF e
    <3> QED BY <1>1, <3>1 DEF Line, text, echo
  <2>3. Bared(clear_input_window(Here, Line).t)
    <3>1. Here.t \in Anywhere /\ Here.icol \in 0..(Margin - 1)
      BY HereIs DEF Terminals
    <3> QED BY <1>2, <3>1, clear_input_windowIs
  <2> HIDE DEF e
  <2>4. Showing(d, e)
    BY <1>1, <1>2, <1>5, <2>1, <2>3, Redrawn
  <2> HIDE DEF d
  <2>5. Fits'
    BY <1>1, <1>5, <2>2, <2>4, ShowsFits
  <2> QED BY <1>3, <2>5
<1> QED BY <1>4, <1>5

\* What clear_input_window() leaves of plen.
LEMMA PromptRowsIs ==
  ASSUME plen \in Nat
  PROVE  plen - PromptRows * Margin \in 0..plen
<1>1. Margin \in Nat /\ Margin > 0
  BY MarginIs
<1>2. CASE plen > Margin
  <2> DEFINE q == (plen - 1) \div Margin
             c == (plen - 1) % Margin
  <2>1. plen - 1 \in Int /\ plen - 1 >= Margin
    BY <1>1, <1>2
  <2>2. c \in 0..(Margin - 1) /\ q \in Int /\ plen - 1 = Margin * q + c
    BY <2>1, ModIs
  <2>3. PromptRows = q
    BY <1>2 DEF PromptRows
  <2> HIDE DEF q, c
  <2>4. q >= 0
    <3> SUFFICES ASSUME q <= -1 PROVE FALSE
      BY <2>2
    <3>1. Margin * q <= -Margin
      BY <1>1, <2>2
    <3> QED BY <1>1, <2>1, <2>2, <3>1
  <2>5. q * Margin \in Nat /\ q * Margin = Margin * q
    BY <1>1, <2>2, <2>4
  <2> DEFINE z == q * Margin
  <2>6. z \in Nat /\ plen - 1 = z + c /\ c \in Nat
    BY <1>1, <2>2, <2>5
  <2> HIDE DEF z
  <2>7. plen - z \in 0..plen
    BY <2>6
  <2> QED BY <2>3, <2>7 DEF z
<1>3. CASE ~(plen > Margin)
  <2>1. PromptRows = 0 /\ 0 * Margin = 0
    BY <1>1, <1>3 DEF PromptRows
  <2> QED BY <2>1
<1> QED BY <1>2, <1>3

LEMMA ToggleModeKeeps ==
  ASSUME Shape, Fits, DrawAny = FALSE, ToggleMode
  PROVE  Shape' /\ Fits'
<1> DEFINE o == IF vtc_mode THEN plen ELSE 0
           e == [Line EXCEPT !.o = o]
           left == IF Near(e) THEN plen - PromptRows * Margin ELSE plen
           f == [e EXCEPT !.o = IF vtc_mode THEN left ELSE 0]
           bar == D([term EXCEPT !.y = 0], icol)
           d == input_draw(draw_prompt(clear_input_window(bar, e), f), f)
<1>1. /\ vtc_mode' = ~vtc_mode /\ curs_loc' = "elsewhere" /\ UNCHANGED <<Isize, text, prompt, echo>>
      /\ plen = 0 => term' = bar.t /\ UNCHANGED <<icol, plen>>
      /\ plen # 0 => MayDraw(f) /\ Shows(d) /\ plen' = left
  BY DEF ToggleMode
<1>2. /\ Isize \in Nat \ {0} /\ Sane(Line) /\ plen \in Nat /\ plen <= Len(prompt) /\ Len(prompt) \in Nat
      /\ Line.p = prompt /\ vtc_mode \in BOOLEAN
  BY LineIs DEF Shape
<1>3. bar.t \in Anywhere /\ bar.t.line = term.line /\ bar.icol = icol /\ icol \in 0..(Margin - 1)
  BY Away, HereIs DEF D
<1>4. left \in 0..plen
  <2>1. plen - PromptRows * Margin \in 0..plen /\ plen \in 0..plen
    BY <1>2, PromptRowsIs
  <2> QED BY <2>1
<1>5. Shape'
  <2>1. plen' \in 0..Len(prompt')
    <3>1. CASE plen = 0
      BY <1>1, <1>2, <3>1
    <3>2. CASE plen # 0
      <4> HIDE DEF left
      <4> QED BY <1>1, <1>2, <1>4, <3>2
    <3> QED BY <3>1, <3>2
  <2>2. vtc_mode' \in BOOLEAN
    BY <1>1, <1>2
  <2> QED BY <1>1, <2>1, <2>2 DEF Shape, text, echo
<1> HIDE DEF left
<1>6. CASE plen = 0
  <2>1. Oplen = 0 /\ Oplen' = 0
    BY <1>1, <1>6 DEF Oplen
  <2>2. Line' = Line
    BY <1>1, <2>1 DEF Line, text, echo
  <2>3. Alike(Line, Line')
    BY <2>2 DEF Alike
  <2>4. icol' = icol /\ Isize' = Isize /\ term' = bar.t /\ curs_loc' # "input"
    BY <1>1, <1>6
  <2> HIDE DEF bar
  <2>5. Fits'
    BY <1>3, <2>3, <2>4, SameLook
  <2> QED BY <1>5, <2>5
<1>7. CASE plen # 0
  <2>1. Sane(e)
    <3>1. o \in Nat /\ o <= Len(prompt)
      BY <1>2
    <3> HIDE DEF o
    <3> QED BY <1>2, <3>1 DEF Sane, Lines
  <2>2. Sane(f)
    <3> DEFINE l == IF vtc_mode THEN left ELSE 0
    <3>1. l \in Nat /\ l <= Len(prompt)
      BY <1>2, <1>4
    <3>2. f = [Line EXCEPT !.o = l]
      BY DEF Line
    <3> HIDE DEF l, f
    <3> QED BY <1>2, <3>1, <3>2 DEF Sane, Lines
  <2>3. Line' = f
    <3>1. Oplen' = IF vtc_mode THEN left ELSE 0
      BY <1>1, <1>2, <1>7 DEF Oplen
    <3>2. f = [Line EXCEPT !.o = Oplen']
      BY <3>1 DEF Line
    <3> QED BY <1>1, <3>2 DEF Line, text, echo
  <2>4. MayDraw(f) /\ Shows(d)
    BY <1>1, <1>7
  <2>5. Isize' = Isize
    BY <1>1
  <2> HIDE DEF bar, e, f
  <2>6. Bared(clear_input_window(bar, e).t)
    BY <1>2, <1>3, <2>1, clear_input_windowIs
  <2>7. Showing(d, f)
    BY <1>2, <2>2, <2>4, <2>6, Redrawn
  <2> HIDE DEF d
  <2>8. Fits'
    BY <2>3, <2>4, <2>5, <2>7, ShowsFits
  <2> QED BY <1>5, <2>8
<1> QED BY <1>6, <1>7

LEMMA UpdateEchoKeeps ==
  ASSUME Shape, Fits, DrawAny = FALSE, NEW new \in BOOLEAN, UpdateEcho(new)
  PROVE  Shape' /\ Fits'
<1> DEFINE e == [Line EXCEPT !.echo = TRUE]
           d == IF new THEN input_draw(Here, e) ELSE input_clear(Here, e)
           f == Line'
<1>1. /\ Recho' = new /\ echo_mode' = new /\ UNCHANGED <<Isize, text, mode>>
      /\ new = echo_mode => UNCHANGED <<icol, term, curs_loc>>
      /\ new # echo_mode => (new => MayDraw(e)) /\ Shows(d) /\ curs_loc' = "input"
  BY DEF UpdateEcho
<1>2. Isize \in Nat \ {0} /\ Sane(Line) /\ Showing(Here, Line) /\ Placed(Here, Line) /\ echo_mode \in BOOLEAN
  BY LineIs, HereIs DEF Showing, Shape
<1>3. Shape'
  <2>1. curs_loc' \in {"input", "window", "elsewhere"}
    BY <1>1 DEF Shape
  <2> QED BY <1>1, <2>1 DEF Shape, text, mode
<1>4. f = [Line EXCEPT !.echo = new]
  BY <1>1 DEF Line, Oplen, text, mode
<1>5. CASE new = echo_mode
  <2>1. Alike(Line, f)
    <3>1. f = Line
      BY <1>4, <1>5 DEF Line
    <3> QED BY <3>1 DEF Alike
  <2>2. term \in Anywhere /\ (curs_loc = "input" => term.x = icol /\ term.y = Isize)
    BY DEF Fits
  <2> HIDE DEF f
  <2>3. Fits'
    BY <1>1, <1>5, <2>1, <2>2, SameLook DEF f
  <2> QED BY <1>3, <2>3
<1>6. CASE new # echo_mode /\ new = TRUE
  <2>1. f = e
    BY <1>4, <1>6
  <2>2. Hiding(Line) /\ Line.echo = FALSE
    BY <1>2, <1>6 DEF Hiding, Line
  <2>3. Sane(e) /\ e.o = Line.o /\ e.p = Line.p
    BY <1>2 DEF Sane, Lines
  <2>4. MayDraw(e)
    BY <1>1, <1>6
  <2>5. d = input_draw(Here, e) /\ Shows(d)
    BY <1>1, <1>6
  <2> HIDE DEF e, d, f
  <2> DEFINE g == Emptied(e)
  <2>6. /\ Cur(g) = e.o /\ \A j \in Nat : Glyph(g, j) = IF j <= e.o THEN e.p[j] ELSE Blank
    BY <2>3, EmptiedIs
  <2>7. /\ Cur(Line) = Line.o /\ \A j \in Nat : Glyph(Line, j) = IF j <= Line.o THEN Line.p[j] ELSE Blank
    BY <2>2, HidingIs
  <2> HIDE DEF g
  <2>8. Alike(Line, g)
    BY <2>3, <2>6, <2>7 DEF Alike
  <2>9. Keeps(Here, Line, Here, g)
    BY <1>2, <2>8, AlikeKeeps
  <2>10. Placed(Here, g)
    BY <2>9 DEF Keeps
  <2>11. Keeps(Here, g, d, e)
    BY <1>2, <2>3, <2>4, <2>5, <2>10, MayDrawIs, input_drawIs DEF g
  <2>12. Showing(d, e)
    BY <1>2, <2>9, <2>11, KeepsShowing
  <2>13. Fits'
    BY <1>1, <2>1, <2>5, <2>12, ShowsFits DEF f
  <2> QED BY <1>3, <2>13
<1>7. CASE new # echo_mode /\ new = FALSE
  <2>1. e = Line
    <3>1. echo_mode = TRUE
      BY <1>2, <1>7
    <3>2. Line \in Lines /\ Line.echo = TRUE
      BY <1>2, <3>1 DEF Sane, Line
    <3> QED BY ONLY <3>2 DEF Lines
  <2>2. d = input_clear(Here, Line) /\ Shows(d)
    BY <1>1, <1>7, <2>1
  <2> DEFINE g == Emptied(Line)
  <2>3. Keeps(Here, Line, d, g) /\ Sane(g)
    BY <1>2, <2>2, input_clearIs, EmptiedIs
  <2>4. /\ Cur(g) = Line.o /\ \A j \in Nat : Glyph(g, j) = IF j <= Line.o THEN Line.p[j] ELSE Blank
    BY <1>2, EmptiedIs
  <2>5. f.o = Line.o /\ f.p = Line.p /\ Hiding(f)
    <3>1. f.o = Line.o /\ f.p = Line.p /\ f.echo = FALSE
      BY <1>4, <1>7 DEF Line
    <3>2. Sane(f)
      BY <1>2, <1>4 DEF Sane, Lines
    <3> QED BY <3>1, <3>2 DEF Hiding
  <2> HIDE DEF e, d, f
  <2>6. /\ Cur(f) = Line.o /\ \A j \in Nat : Glyph(f, j) = IF j <= Line.o THEN Line.p[j] ELSE Blank
    BY <2>5, HidingIs
  <2> HIDE DEF g
  <2>7. Alike(g, f)
    BY <2>4, <2>6 DEF Alike
  <2>8. Showing(d, g) /\ Placed(d, g)
    BY <1>2, <2>3, KeepsShowing DEF Keeps
  <2>9. Keeps(d, g, d, f)
    BY <1>2, <2>3, <2>7, <2>8, AlikeKeeps
  <2>10. Showing(d, f)
    BY <2>8, <2>9, KeepsShowing
  <2>11. Fits'
    BY <1>1, <2>2, <2>10, ShowsFits DEF f
  <2> QED BY <1>3, <2>11
<1> QED BY <1>2, <1>5, <1>6, <1>7

LEMMA ResizeInputKeeps ==
  ASSUME Shape, Fits, NEW n \in Sizes, ResizeInput(n)
  PROVE  Shape' /\ Fits'
<1> DEFINE m == Isize - n
           l == [r \in 1..n |-> IF r + m \in 1..Isize THEN term.line[r + m] ELSE Empty]
           q == Base(Line)
<1>1. /\ GrowAny \/ n <= Isize \/ Cur(Line) < Margin
      /\ Isize' = n /\ curs_loc' = "elsewhere" /\ UNCHANGED <<text, mode, echo, icol>>
  BY DEF ResizeInput, Cur, Line
<1>2. /\ Isize \in Nat \ {0} /\ Sane(Line) /\ n \in Nat \ {0} /\ m \in Int /\ Margin \in Nat /\ Margin > 0
      /\ term \in Anywhere
  BY LineIs, InputLineAssumption DEF Fits
<1>3. term.line \in [1..Isize -> [Columns -> Chars]] /\ term.x \in 0..Margin /\ term.stray = FALSE
  BY <1>2, AnywhereIs
<1>4. term' = [term EXCEPT !.line = l, !.y = 0]
  <2>1. DOMAIN term.line = 1..Isize
    BY <1>3
  <2>2. \A r \in 1..n : r + Isize - n = r + m
    BY <1>2
  <2>3. term' = [term EXCEPT !.line = [r \in 1..n |-> IF r + Isize - n \in DOMAIN term.line
                                                       THEN term.line[r + Isize - n] ELSE Empty],
                             !.y = 0]
    BY DEF ResizeInput
  <2> QED BY <2>1, <2>2, <2>3
<1>5. l \in [1..n -> [Columns -> Chars]]
  <2>1. Empty \in [Columns -> Chars]
    BY EmptyIs
  <2> QED BY <1>3, <2>1
<1>6. /\ term' \in [line : [1..n -> [Columns -> Chars]], x : 0..Margin, y : 0..n, stray : {FALSE}]
      /\ term'.line = l
  <2> DEFINE L == [1..n -> [Columns -> Chars]]
  <2>1. l \in L /\ 0 \in 0..n
    BY <1>2, <1>5
  <2>2. term \in [line : [1..Isize -> [Columns -> Chars]], x : 0..Margin, y : 0..Isize, stray : {FALSE}]
    BY <1>2 DEF Anywhere
  <2> HIDE DEF L, l
  <2>3. term' \in [line : L, x : 0..Margin, y : 0..n, stray : {FALSE}] /\ term'.line = l
    BY ONLY <1>4, <2>1, <2>2
  <2> QED BY <2>3 DEF L
<1> HIDE DEF l
<1>7. (term \in Anywhere)'
  BY <1>1, <1>6 DEF Anywhere
<1>8. Line' = Line
  BY <1>1 DEF Line, Oplen, text, mode, echo
<1>9. (icol = Cur(Line) % Margin)'
  BY <1>1, <1>8 DEF Fits
<1>10. q \in Nat /\ (Cur(Line) < Margin => q = 0)
  <2>1. /\ Cur(Line) \in Nat /\ q \in Nat /\ Cur(Line) % Margin \in 0..(Margin - 1)
        /\ q + (Cur(Line) % Margin) = Cur(Line) /\ q = Margin * (Cur(Line) \div Margin)
    BY <1>2, BaseIs
  <2>2. ASSUME Cur(Line) < Margin PROVE q = 0
    <3> DEFINE x == Cur(Line)
    <3>5. x \in Nat /\ x < Margin /\ Margin \in Nat
      BY <1>2, <2>1, <2>2
    <3> HIDE DEF x
    <3>4. x \in 0..(Margin - 1) /\ Margin * 0 + x = x
      BY ONLY <3>5
    <3>1. Cur(Line) \in 0..(Margin - 1) /\ Margin * 0 + Cur(Line) = Cur(Line)
      BY <3>4 DEF x
    <3>2. (Margin * 0 + Cur(Line)) \div Margin = 0
      BY <3>1, ModUnique
    <3>3. Cur(Line) \div Margin = 0
      BY <3>1, <3>2
    <3> QED BY <1>2, <2>1, <3>3
  <2> QED BY <2>1, <2>2
<1> HIDE DEF q
<1>11. ASSUME GrowAny = FALSE, NEW r \in 1..n, q >= (n - r) * Margin
       PROVE  RowIs(l[r], Line, q - ((n - r) * Margin))
  <2>1. n <= Isize \/ q = 0
    BY <1>1, <1>10, <1>11
  <2>2. r + m \in 1..Isize
    <3>1. CASE n <= Isize
      BY <1>2, <3>1
    <3>2. CASE ~(n <= Isize)
      <4>1. q = 0
        BY <2>1, <3>2
      <4>2. r = n
        <5> SUFFICES ASSUME n - r >= 1 PROVE FALSE
          BY <1>2
        <5>1. (n - r) * Margin >= Margin
          BY <1>2
        <5> QED BY <1>2, <1>11, <4>1, <5>1
      <4> QED BY <1>2, <4>2
    <3> QED BY <3>1, <3>2
  <2>3. l[r] = term.line[r + m]
    BY <2>2 DEF l
  <2>4. Isize - (r + m) = n - r
    BY <1>2
  <2>5. Offset(r + m) = (n - r) * Margin
    BY <2>4 DEF Offset
  <2>6. Full(term, Line, q)
    BY <1>11 DEF Fits, q
  <2> HIDE DEF m
  <2>7. CASE r + m = Isize
    <3>1. Offset(Isize) = 0
      BY <1>2, OffsetIs
    <3>2. q - 0 = q /\ q >= 0
      BY <1>10
    <3>3. (n - r) * Margin = 0
      BY <2>5, <2>7, <3>1
    <3> QED BY <2>3, <2>6, <2>7, <3>2, <3>3 DEF Full
  <2>8. CASE r + m # Isize
    <3>1. r + m \in 1..(Isize - 1)
      BY <1>2, <2>2, <2>8
    <3> QED BY <1>11, <2>3, <2>5, <2>6, <3>1 DEF Full, Over
  <2> QED BY <2>7, <2>8
<1>12. (GrowAny = FALSE => Full(term, Line, Base(Line)))'
  <2> SUFFICES ASSUME GrowAny = FALSE PROVE Full(term, Line, Base(Line))'
    OBVIOUS
  <2>1. (Base(Line))' = q /\ Isize' = n /\ term'.line = l /\ Line' = Line
    BY <1>1, <1>6, <1>8 DEF q
  <2>2. ASSUME NEW r \in 1..(n - 1), q >= (n - r) * Margin
        PROVE  RowIs(l[r], Line, q - ((n - r) * Margin))
    <3>1. r \in 1..n
      BY <1>2
    <3> QED BY <1>11, <2>2, <3>1
  <2>3. q >= 0 => RowIs(l[n], Line, q)
    <3>1. n \in 1..n /\ (n - n) * Margin = 0 /\ q - 0 = q
      BY <1>2, <1>10
    <3>2. q >= 0 => RowIs(l[n], Line, q - ((n - n) * Margin))
      BY <1>11, <3>1
    <3> QED BY <3>1, <3>2
  <2> HIDE DEF m
  <2>4. Over(term, Line, Base(Line))'
    BY <2>1, <2>2 DEF Over, Offset, RowIs, Ends, Glyph
  <2>5. (Base(Line) >= 0 => RowIs(term.line[Isize], Line, Base(Line)))'
    BY <2>1, <2>3 DEF RowIs, Ends, Glyph
  <2> QED BY <2>4, <2>5 DEF Full
<1>13. Fits'
  BY <1>1, <1>7, <1>9, <1>12 DEF Fits
<1>14. Shape'
  BY <1>1 DEF Shape, text, mode, echo
<1> QED BY <1>13, <1>14

-----------------------------------------------------------------------------
(* The theorems.                                                           *)

LEMMA Starts ==
  ASSUME Init
  PROVE  Shape /\ Fits
<1>1. /\ Isize \in Nat \ {0} /\ Margin \in Nat /\ Margin > 0 /\ MaxLen \in Nat
  BY InputLineAssumption DEF Init
<1>2. Shape
  <2>1. kbuf \in Seq(Chars) /\ Len(kbuf) = 0 /\ prompt \in Seq(Chars) /\ Len(prompt) = 0
    BY DEF Init
  <2>2. kpos \in 0..Len(kbuf) /\ plen \in 0..Len(prompt) /\ Len(kbuf) <= MaxLen
    <3>1. kpos = 0 /\ plen = 0
      BY DEF Init
    <3> QED BY <1>1, <2>1, <3>1
  <2> QED BY <2>1, <2>2 DEF Init, Shape
<1>3. term \in Anywhere
  <2>1. Empty \in [Columns -> Chars] /\ 0 \in 0..Margin /\ 0 \in 0..Isize
    BY <1>1, EmptyIs
  <2>2. [r \in 1..Isize |-> Empty] \in [1..Isize -> [Columns -> Chars]]
    BY <2>1
  <2> QED BY <2>1, <2>2 DEF Init, Anywhere
<1>4. Line.b = <<>> /\ Line.k = 0 /\ Line.o = 0
  BY DEF Init, Line, Oplen
<1>5. Cur(Line) = 0 /\ 0 % Margin = 0 /\ Base(Line) = 0
  <2>1. 0 \in 0..(Margin - 1) /\ Margin * 0 + 0 = 0
    BY <1>1
  <2>2. 0 % Margin = 0
    BY <2>1, ModUnique
  <2> QED BY <1>4, <2>2 DEF Cur, Base
<1>6. Full(term, Line, 0)
  <2>1. \A r \in 1..Isize, i \in Columns : term.line[r][i] = Blank
    <3>1. \A r \in 1..Isize : term.line[r] = Empty
      BY DEF Init
    <3> QED BY <3>1, EmptyIs
  <2>2. ASSUME NEW i \in Columns, NEW q \in Int, q >= 0 PROVE Glyph(Line, q + i) = Blank
    <3>1. i \in Nat /\ i > 0 /\ ~(q + i <= 0) /\ ~((q + i) - 0 <= Len(<<>>))
      BY <2>2 DEF Columns
    <3> QED BY <1>4, <3>1 DEF Glyph
  <2>3. ASSUME NEW r \in 1..Isize, NEW q \in Int, q >= 0 PROVE RowIs(term.line[r], Line, q)
    BY <2>1, <2>2, <2>3 DEF RowIs, Ends
  <2>4. Over(term, Line, 0)
    <3> SUFFICES ASSUME NEW r \in 1..(Isize - 1), 0 >= Offset(r) PROVE FALSE
      BY DEF Over
    <3>1. r \in 1..Isize /\ r < Isize
      BY <1>1
    <3>2. Offset(r) \in Nat /\ Offset(r) >= Margin
      BY <1>1, <3>1, OffsetIs
    <3> QED BY <1>1, <3>2
  <2>5. RowIs(term.line[Isize], Line, 0)
    BY <1>1, <2>3
  <2> QED BY <2>4, <2>5 DEF Full
<1>7. Fits
  BY <1>3, <1>5, <1>6 DEF Fits, Init
<1> QED BY <1>2, <1>7

LEMMA Continues ==
  ASSUME DrawAny = FALSE, FromAny = FALSE, Shape, Fits, [Next]_vars
  PROVE  Shape' /\ Fits'
<1>1. ASSUME NEW s \in Texts, Type(s) PROVE Shape' /\ Fits'
  BY <1>1, TypeKeeps
<1>2. ASSUME NEW s \in Texts, SetBuffer(s) PROVE Shape' /\ Fits'
  BY <1>2, SetBufferKeeps
<1>3. CASE DeleteBack \/ DeleteAhead \/ DeleteLine \/ Move
  BY <1>3, DeleteBackKeeps, DeleteAheadKeeps, DeleteLineKeeps, MoveKeeps
<1>4. CASE Refresh \/ Redraw \/ Process
  BY <1>4, RefreshKeeps, RedrawKeeps, ProcessKeeps
<1>5. ASSUME NEW p \in Prompts, ChangePrompt(p) PROVE Shape' /\ Fits'
  BY <1>5, ChangePromptKeeps
<1>6. ASSUME NEW pos \in 0..MaxLen, SetPosition(pos) PROVE Shape' /\ Fits'
  BY <1>6, SetPositionKeeps
<1>7. ASSUME NEW new \in BOOLEAN, UpdateEcho(new) PROVE Shape' /\ Fits'
  BY <1>7, UpdateEchoKeeps
<1>8. ASSUME NEW new \in BOOLEAN, CloseActive(new) PROVE Shape' /\ Fits'
  BY <1>8, CloseActiveKeeps
<1>9. ASSUME NEW n \in Sizes, ResizeInput(n) PROVE Shape' /\ Fits'
  BY <1>9, ResizeInputKeeps
<1>10. CASE ToggleMode \/ Output \/ Idle
  BY <1>10, ToggleModeKeeps, OutputKeeps, IdleKeeps
<1>11. CASE UNCHANGED vars
  <2>1. UNCHANGED <<Isize, text, mode, echo, icol, curs_loc, term>>
    BY <1>11 DEF vars
  <2>2. Line' = Line
    BY <2>1 DEF Line, Oplen, text, mode, echo
  <2>3. Alike(Line, Line')
    BY <2>2 DEF Alike
  <2>4. Fits'
    BY <2>1, <2>3, SameLook DEF Fits
  <2> QED BY <2>1, <2>4 DEF Shape, text, mode, echo
<1> QED BY <1>1, <1>2, <1>3, <1>4, <1>5, <1>6, <1>7, <1>8, <1>9, <1>10, <1>11 DEF Next

LEMMA ShapeType ==
  ASSUME Shape, Fits
  PROVE  CursorKnown /\ NotInWindows
<1>1. Isize \in Nat \ {0} /\ term \in Anywhere /\ icol \in 0..(Margin - 1)
  BY LineIs, HereIs DEF Fits
<1>2. /\ term.line \in [1..Isize -> [Columns -> Chars]] /\ term.x \in 0..Margin /\ term.y \in 0..Isize
      /\ term.stray = FALSE
  BY <1>1, AnywhereIs
<1>3. DOMAIN term = {"line", "x", "y", "stray"}
  BY <1>1 DEF Anywhere
<1>4. /\ DOMAIN term.line = 1..Isize
      /\ \A r \in 1..Isize : DOMAIN term.line[r] = Columns /\ \A i \in Columns : term.line[r][i] \in Chars
  BY <1>2
<1>5. TypeOK
  BY <1>1, <1>2, <1>3, <1>4 DEF TypeOK, Shape
<1>6. Cur(Line) = Cursor
  BY LineIs DEF Cur, Cursor
<1> QED BY <1>2, <1>5, <1>6 DEF CursorKnown, NotInWindows, Fits

\* What Visible has is what Glyph says.
LEMMA VisibleIs ==
  ASSUME Shape, NEW j \in Nat \ {0}
  PROVE  Glyph(Line, j) = IF j \in DOMAIN Visible THEN Visible[j] ELSE Blank
<1> DEFINE x == From(prompt, 0, Oplen)
           y == IF echo_mode THEN kbuf ELSE <<>>
<1>1. /\ Line.b = kbuf /\ Line.p = prompt /\ Line.o = Oplen /\ Line.echo = echo_mode
      /\ Oplen \in Nat /\ Oplen <= plen /\ plen \in Nat /\ plen <= Len(prompt) /\ Len(prompt) \in Nat
      /\ prompt \in Seq(Chars) /\ kbuf \in Seq(Chars) /\ Len(kbuf) \in Nat
  BY LineIs DEF Shape
<1>2. x \in Seq(Chars) /\ Len(x) = Oplen /\ \A i \in 1..Oplen : x[i] = prompt[i]
  <2>1. 0 \in Nat /\ 0 + Oplen <= Len(prompt) /\ \A i \in 1..Oplen : 0 + i = i
    BY <1>1
  <2>2. x \in Seq(Chars) /\ Len(x) = Oplen /\ \A i \in 1..Oplen : x[i] = prompt[0 + i]
    <3>1. prompt \in Seq(Chars) /\ Oplen \in Nat
      BY <1>1
    <3> QED BY ONLY <2>1, <3>1, FromIs
  <2> QED BY <2>1, <2>2
<1>3. y \in Seq(Chars) /\ Len(y) = IF echo_mode THEN Len(kbuf) ELSE 0
  BY <1>1
<1>4. Visible = x \o y
  BY DEF Visible
<1>5. echo_mode => y = kbuf
  OBVIOUS
<1> HIDE DEF x, y
<1>6. /\ DOMAIN Visible = 1..(Oplen + Len(y)) /\ Len(y) \in Nat
      /\ \A i \in 1..(Oplen + Len(y)) : Visible[i] = IF i <= Oplen THEN x[i] ELSE y[i - Oplen]
  <2>1. Len(x \o y) = Len(x) + Len(y) /\ x \o y \in Seq(Chars)
    BY <1>2, <1>3, ConcatProperties
  <2>2. \A i \in 1..(Len(x) + Len(y)) : (x \o y)[i] = IF i <= Len(x) THEN x[i] ELSE y[i - Len(x)]
    BY <1>2, <1>3, ConcatProperties
  <2> QED BY <1>2, <1>3, <1>4, <2>1, <2>2
<1>7. CASE j <= Oplen
  <2>1. j \in 1..Oplen /\ j \in 1..(Oplen + Len(y))
    BY <1>1, <1>6, <1>7
  <2> QED BY <1>1, <1>2, <1>6, <1>7, <2>1 DEF Glyph
<1>8. CASE ~(j <= Oplen) /\ echo_mode /\ j - Oplen <= Len(kbuf)
  <2>1. j \in 1..(Oplen + Len(y))
    BY <1>1, <1>3, <1>8
  <2> QED BY <1>1, <1>5, <1>6, <1>8, <2>1 DEF Glyph
<1>9. CASE ~(j <= Oplen) /\ ~(echo_mode /\ j - Oplen <= Len(kbuf))
  <2>1. ~(j \in 1..(Oplen + Len(y)))
    BY <1>1, <1>3, <1>9
  <2> QED BY <1>1, <1>6, <1>9, <2>1 DEF Glyph
<1> QED BY <1>7, <1>8, <1>9

LEMMA FullShown ==
  ASSUME GrowAny = FALSE, Shape, Fits
  PROVE  LineShown
<1> SUFFICES ASSUME NEW r \in 1..Isize, Cursor \div Margin - (Isize - r) >= 0
             PROVE  term.line[r] = RowOf(Cursor \div Margin - (Isize - r))
  BY DEF LineShown
<1> DEFINE a == Cursor \div Margin
           m == Isize - r
           n == a - m
           q == Base(Line)
<1>1. Isize \in Nat \ {0} /\ Sane(Line) /\ term \in Anywhere /\ Margin \in Nat /\ Margin > 0
  BY LineIs, MarginIs DEF Fits
<1>2. Cur(Line) = Cursor
  BY LineIs DEF Cur, Cursor
<1>3. q \in Nat /\ q = Margin * a /\ a \in Int
  <2>1. Cur(Line) \in Nat /\ q \in Nat /\ q = Margin * (Cur(Line) \div Margin)
    BY <1>1, BaseIs
  <2>2. Cursor \in Int
    BY <1>2, <2>1
  <2>3. a \in Int
    BY <2>2, ModIs
  <2> QED BY <1>2, <2>1, <2>3
<1>4. Full(term, Line, q)
  BY DEF Fits
<1>13. a - m >= 0
  OBVIOUS
<1> HIDE DEF q, a
<1>5. m \in Nat /\ n \in Nat
  <2>1. m \in Nat
    BY <1>1
  <2> HIDE DEF m
  <2> QED BY <1>3, <1>13, <2>1
<1>6. Offset(r) = m * Margin /\ Offset(r) \in Nat
  BY <1>1, OffsetIs DEF Offset
<1> HIDE DEF m
<1>7. q - Offset(r) = n * Margin /\ n * Margin \in Nat
  <2>1. n * Margin \in Nat /\ n * Margin = Margin * a - m * Margin
    BY <1>1, <1>3, <1>5
  <2> QED BY <1>3, <1>6, <2>1
<1>8. RowIs(term.line[r], Line, n * Margin)
  <2>1. CASE r = Isize
    <3>1. Offset(r) = 0
      BY <1>1, <2>1, OffsetIs
    <3>2. q = n * Margin
      BY <1>3, <1>7, <3>1
    <3> QED BY <1>3, <1>4, <2>1, <3>2 DEF Full
  <2>2. CASE r # Isize
    <3>1. r \in 1..(Isize - 1)
      BY <1>1, <2>2
    <3>2. q >= Offset(r)
      BY <1>3, <1>6, <1>7
    <3> QED BY <1>4, <1>7, <3>1, <3>2 DEF Full, Over
  <2> QED BY <2>1, <2>2
<1>9. ASSUME NEW i \in Columns PROVE term.line[r][i] = RowOf(n)[i]
  <2>1. i \in Nat /\ i > 0 /\ n * Margin + i \in Nat \ {0}
    BY <1>7 DEF Columns
  <2>2. term.line[r][i] = IF i <= Margin THEN Glyph(Line, n * Margin + i) ELSE Blank
    BY <1>8, <2>1 DEF RowIs, Ends
  <2>3. Glyph(Line, n * Margin + i)
          = IF n * Margin + i \in DOMAIN Visible THEN Visible[n * Margin + i] ELSE Blank
    BY <2>1, VisibleIs
  <2>4. RowOf(n)[i] = IF i <= Margin /\ n * Margin + i \in DOMAIN Visible
                      THEN Visible[n * Margin + i] ELSE Blank
    BY DEF RowOf
  <2> QED BY <2>2, <2>3, <2>4
<1>10. term.line[r] \in [Columns -> Chars]
  BY <1>1, AnywhereIs
<1>11. RowOf(n) = [i \in Columns |-> RowOf(n)[i]]
  BY DEF RowOf
<1> HIDE DEF n
<1>12. term.line[r] = RowOf(n)
  BY <1>9, <1>10, <1>11
<1> QED BY <1>12 DEF n, m, a

\* Where text is drawn only behind a prompt it fits with, and programs move the
\* cursor of the line only from there: the line, icol and the cursor of the
\* terminal agree, whatever was typed, deleted, scrolled, prompted, hidden and
\* resized before.
THEOREM CursorKnownAlways ==
  ASSUME DrawAny = FALSE, FromAny = FALSE
  PROVE  Spec => []CursorKnown
<1>1. Init => Shape /\ Fits
  BY Starts
<1>2. Shape /\ Fits /\ [Next]_vars => (Shape /\ Fits)'
  BY Continues
<1>3. Shape /\ Fits => CursorKnown
  BY ShapeType
<1> QED BY <1>1, <1>2, <1>3, PTL DEF Spec

\* Nor is anything of the line written into a window.
THEOREM NeverInWindows ==
  ASSUME DrawAny = FALSE, FromAny = FALSE
  PROVE  Spec => []NotInWindows
<1>1. Init => Shape /\ Fits
  BY Starts
<1>2. Shape /\ Fits /\ [Next]_vars => (Shape /\ Fits)'
  BY Continues
<1>3. Shape /\ Fits => NotInWindows
  BY ShapeType
<1> QED BY <1>1, <1>2, <1>3, PTL DEF Spec

\* When the input window gets rows only while the line has one, its rows show
\* the line around the cursor, for every width, every height and every text.
THEOREM LineShownAlways ==
  ASSUME DrawAny = FALSE, FromAny = FALSE, GrowAny = FALSE
  PROVE  Spec => []LineShown
<1>1. Init => Shape /\ Fits
  BY Starts
<1>2. Shape /\ Fits /\ [Next]_vars => (Shape /\ Fits)'
  BY Continues
<1>3. Shape /\ Fits => LineShown
  BY FullShown
<1> QED BY <1>1, <1>2, <1>3, PTL DEF Spec
=============================================================================

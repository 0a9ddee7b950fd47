-------------------------------- MODULE Text --------------------------------
(***************************************************************************)
(* The functions on text: wrap() (prmt3.c), the searches and the matching  *)
(* of names (string.c, prmt3.c, util.c), itoa() (util.c), and the reading  *)
(* of a number that chooses from a list of the console (console.c).  Each  *)
(* is stated with a reference definition of what it is for, which Strings  *)
(* checks on all short inputs.                                             *)
(*                                                                         *)
(* Characters are numbers, and a text is a sequence of them without NUL.   *)
(***************************************************************************)
EXTENDS Integers, Sequences, FiniteSets, FiniteSetsExt, SequencesExt

CONSTANTS
  AnyArgs, \* whether the functions are called with arguments they are not made for
  MaxIn    \* bound: the length of the texts they are checked on

ASSUME TextAssumption == AnyArgs \in BOOLEAN /\ MaxIn \in Nat

NUL == 0
Upper == 1
Lower == 2
Blank == 3
Newline == 4
Wild == -1   \* whatever is in memory that does not belong to the text

ucase(c) == IF c = Lower THEN Upper ELSE c
lcase(c) == IF c = Upper THEN Lower ELSE c
Each(f(_), s) == [i \in DOMAIN s |-> f(s[i])]
From(s, i) == SubSeq(s, i + 1, Len(s))
Blanks(n) == [i \in 1..n |-> Blank]
TextsOver(chars, n) == UNION {[1..k -> chars] : k \in 0..n}

-----------------------------------------------------------------------------
(* Searches.  Positions count from 0, and -1 is NULL.                      *)

\* The memory from the one at pos: the text, its NUL, and what lies behind.
Memory(s, pos, n) ==
  [i \in 1..n |-> IF pos + i <= Len(s) THEN s[pos + i]
                  ELSE IF pos + i = Len(s) + 1 THEN NUL ELSE Wild]

vtstrnchr(mem, c, n) ==
  LET at == {i \in 1..n : mem[i] \in {c, Wild}} IN IF at = {} THEN -1 ELSE Min(at) - 1
vtstrnrchr(mem, c, n) ==
  LET at == {i \in 1..n : mem[i] \in {c, Wild}} IN IF at = {} THEN -1 ELSE Max(at) - 1

\* pr_strchr() and, for the last one, pr_strrchr() of s + pos, for n characters
\* at most.
Search(last, s, pos, c, n) ==
  LET most == Min({Max({n, 0}), Len(s)})
      mem == Memory(s, pos, most)
      at == IF last THEN vtstrnrchr(mem, c, most) ELSE vtstrnchr(mem, c, most)
  IN IF at = -1 THEN -1 ELSE pos + at

\* What is found lies in the text, and is the first or the last of its kind in
\* the part that was asked for (prmt3.c:104, string.c:19).
Places(s, pos, c, n) == {i \in pos..Min({pos + n, Len(s)}) - 1 : s[i + 1] = c}
SearchRight ==
  \A s \in TextsOver({Lower, Blank}, MaxIn), n \in 0..MaxIn :
    \A pos \in IF AnyArgs THEN 0..Len(s) ELSE {0} :
      LET places == Places(s, pos, Blank, n)
          is(at, want) == at = IF places = {} THEN -1 ELSE want
      IN /\ is(Search(FALSE, s, pos, Blank, n), Min(places))
         /\ is(Search(TRUE, s, pos, Blank, n), Max(places))

-----------------------------------------------------------------------------
(* wrap().                                                                 *)

RECURSIVE SkipBlanks(_)
SkipBlanks(s) == IF s # <<>> /\ Head(s) = Blank THEN SkipBlanks(Tail(s)) ELSE s

\* Mutant: a line is broken at any blank, the first one of the next line too.
BreakAt(s, margin) ==
  LET at == vtstrnrchr(s, Blank, margin + 1) IN IF at > margin \div 2 THEN at + 1 ELSE margin

\* Where a line is broken.
Break(s, margin) ==
  LET at == vtstrnrchr(s, Blank, margin) IN IF at > margin \div 2 THEN at ELSE margin

\* With no room for text after the indentation, the loop does not advance.
RECURSIVE Lines(_, _, _, _)
Lines(s, margin, width, indent) ==
  IF Len(s) <= margin THEN IF s = <<>> THEN <<>> ELSE Append(s, Newline)
  ELSE IF margin = 0 /\ width = indent /\ Head(s) # Blank THEN <<Wild>>
  ELSE LET i == Break(s, margin)
           rest == SkipBlanks(From(s, i))
       IN SubSeq(s, 1, i) \o <<Newline>>
          \o (IF rest = <<>> THEN <<>> ELSE Blanks(indent))
          \o Lines(rest, width - indent, width, indent)

\* pr_wrap().
Wrap(s, width, indent, used) ==
  IF width - used < 0 \/ width < indent \/ s = <<>> THEN <<Newline>>
  ELSE Lines(s, width - used, width, indent)

\* The parts of a text between separators.
Parts(s, seps) ==
  FoldLeft(LAMBDA ps, c : IF c \in seps THEN Append(ps, <<>>)
                          ELSE Append(Front(ps), Append(Last(ps), c)), <<<<>>>>, s)
Words(s) == SelectSeq(Parts(s, {Blank, Newline}), LAMBDA p : p # <<>>)

\* No line is longer than the width, the first one leaves the part of it that is
\* used, the others begin with the indentation; no character is lost, and words
\* shorter than half a line stay whole (prmt3.c:190).
WrapsRight ==
  \A s \in TextsOver({Lower, Blank}, MaxIn), width \in 1..5 :
    \A indent \in 0..IF AnyArgs THEN width ELSE width - 1, used \in 0..Min({width, 2}) :
      LET out == Wrap(s, width, indent, used)
          lines == Parts(out, {Newline})
          room == Min({width - used, width - indent})
      IN /\ FlattenSeq(Words(out)) = FlattenSeq(Words(s))
         /\ Len(lines[1]) <= width - used
         /\ \A i \in 2..Len(lines) - 1 :
              /\ Len(lines[i]) <= width
              /\ SubSeq(lines[i], 1, indent) = Blanks(indent) /\ lines[i][indent + 1] # Blank
         /\ (\A i \in DOMAIN Words(s) : Len(Words(s)[i]) < room - room \div 2)
              => Words(out) = Words(s)

-----------------------------------------------------------------------------
(* Matching.                                                               *)

Star == 5
Query == 6

\* vtstristr().
vtstristr(s, f) ==
  LET at == {i \in 0..Len(s) - 1 : /\ f # <<>> /\ i + Len(f) <= Len(s)
                                   /\ Each(lcase, SubSeq(s, i + 1, i + Len(f))) = Each(lcase, f)}
  IN IF at = {} THEN -1 ELSE Min(at)

\* The *s and ?s at the beginning of a pattern.
WildPart(p) ==
  CHOOSE n \in 0..Len(p) : /\ \A i \in 1..n : p[i] \in {Star, Query}
                           /\ n < Len(p) => p[n + 1] \notin {Star, Query}
Queries(p, n) == Cardinality({i \in 1..n : p[i] = Query})

\* Mutant: a pattern that ends in * and ? matches whatever is left.
RECURSIVE smatchLoose(_, _)
smatchLoose(p, s) ==
  IF p = <<>> THEN s = <<>>
  ELSE IF Head(p) = Star
  THEN LET n == WildPart(p)
       IN n = Len(p) \/ \E k \in Queries(p, n)..Len(s) : smatchLoose(From(p, n), From(s, k))
  ELSE s # <<>> /\ lcase(Head(p)) \in {Query, lcase(Head(s))} /\ smatchLoose(Tail(p), Tail(s))

\* smatch().
RECURSIVE smatch(_, _)
smatch(p, s) ==
  IF p = <<>> THEN s = <<>>
  ELSE IF Head(p) = Star
  THEN LET n == WildPart(p)
           more == Queries(p, n)
       IN /\ more <= Len(s)
          /\ \/ n = Len(p)
             \/ \E k \in more..Len(s) - 1 :
                  lcase(s[k + 1]) = lcase(p[n + 1]) /\ smatch(From(p, n), From(s, k))
  ELSE s # <<>> /\ lcase(Head(p)) \in {Query, lcase(Head(s))} /\ smatch(Tail(p), Tail(s))

\* A pattern stands for the texts that replace each * by any text and each ? by
\* one character, in any case (util.c:155); and a search that ignores case finds
\* what lies between two *s (string.c:83).
Stands(c) == CASE c = Star -> TextsOver({Lower, Blank}, 3)
               [] c = Query -> {<<Lower>>, <<Blank>>}
               [] OTHER -> {<<lcase(c)>>}
Matched(p) ==
  FoldLeft(LAMBDA ts, c : {t \o u : t \in ts, u \in Stands(c)}, {<<>>}, p)
MatchRight ==
  \A p \in TextsOver({Upper, Blank, Star, Query}, 3) :
    LET matched == Matched(p)
    IN \A s \in TextsOver({Lower, Blank}, 3) :
         /\ smatch(p, s) <=> s \in matched
         /\ p # <<>> /\ ToSet(p) \subseteq {Upper, Blank} =>
              (vtstristr(s, p) # -1 <=> smatch(<<Star>> \o p \o <<Star>>, s))

-----------------------------------------------------------------------------
(* Numbers.                                                                *)

Width == 8
Ints == -2^(Width - 1)..2^(Width - 1) - 1
Signed(n) == ((n + 2^(Width - 1)) % 2^Width) - 2^(Width - 1)

\* The digits of n; those of a negative number, which n is only if it has no
\* opposite, are characters before '0'.
RECURSIVE Digits(_)
Digits(n) ==
  IF n = 0 THEN <<>>
  ELSE LET q == IF n > 0 THEN n \div 10 ELSE -((-n) \div 10) IN Append(Digits(q), n - 10 * q)

\* itoa().
itoa(n) ==
  LET num == IF n < 0 THEN Signed(-n) ELSE n
  IN [minus |-> n < 0, digits |-> IF num = 0 THEN <<0>> ELSE Digits(num)]

Number(ds) == FoldLeft(LAMBDA n, d : 10 * n + d, 0, ds)

\* Mutant: the number is chosen as soon as one digit more would not be less.
EnoughSoon(val, maxval) == val * 10 >= maxval \/ val = 0

\* Whether no digit can follow.
Enough(val, maxval) == val * 10 > maxval \/ val = 0

\* get_num(), from the digits before Return: the number, or -1.
RECURSIVE get_num(_, _, _)
get_num(val, keys, maxval) ==
  IF keys = <<>> THEN val
  ELSE LET more == val * 10 + Head(keys)
       IN IF more > maxval THEN -1
          ELSE IF Enough(more, maxval) THEN more
          ELSE get_num(more, Tail(keys), maxval)

\* itoa() gives digits that stand for the number, and these digits, typed at the
\* console, choose that one from a list which has it and none from a list which
\* has not (util.c:133, console.c:214).
NumbersRight ==
  \A n \in IF AnyArgs THEN Ints ELSE Ints \ {Min(Ints)} :
    LET a == itoa(n)
    IN /\ n = (IF a.minus THEN -1 ELSE 1) * Number(a.digits)
       /\ \A i \in DOMAIN a.digits : a.digits[i] \in 0..9
       /\ n >= 0 => \A maxval \in {n - 1, n, n + 1, 10 * n, 10 * n + 1} \ {-1} :
                      get_num(0, a.digits, maxval) = n <=> n <= maxval
=============================================================================

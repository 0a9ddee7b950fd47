------------------------------ MODULE Strings ------------------------------
(***************************************************************************)
(* Strings of programs.  An Istr is what data frames refer to; it refers   *)
(* to the Rstr that holds its text, which others may share until it is     *)
(* written to (string.c).  The constants of programs (sconst.c) and the    *)
(* two buffers of wrap() and fread() (main.c) share theirs in the same     *)
(* way.  The operations are those of prmt3.c, oper.c and prmt5.c, and what *)
(* the interpreter does with their operands and their result.              *)
(*                                                                         *)
(* A cell of the stack is Nil, or <<i, pos>>, a pointer into Istr i.  A    *)
(* primitive takes its operands from their cells and leaves its result in  *)
(* the first one.                                                          *)
(***************************************************************************)
EXTENDS Text

CONSTANTS
  Cells,     \* cells of the data stack, of variables and of saved programs
  Given,     \* the local variable of give_window() or give_remote()
  Programs,  \* programs with a string constant
  NIstrs,    \* bound: Istrs at a time
  NRstrs,    \* bound: Rstrs at a time
  MaxLen,    \* bound: the length of a text
  MaxText,   \* bound: the length of all texts together
  Positions  \* bound: where pointers point

ASSUME StringsAssumption ==
  /\ Given \notin Cells /\ {NIstrs, NRstrs, MaxLen, MaxText} \subseteq Nat /\ Positions \subseteq Int /\ 0 \in Positions
  /\ NRstrs >= Cardinality(Programs) + 2

freader == -1
wrapbuf == -2
Buffers == {freader, wrapbuf}
Istr == 1..NIstrs
Rstr == 1..NRstrs
Nil == <<>>
Chars == {Upper, Lower, Blank, Newline}
Byte == 8   \* what a char holds: a value of the program modulo this

VARIABLES
  cell,   \* of Cells and Given: the frame
  rs,     \* the Rstr of each Istr and buffer, or 0 for an Istr that is not allocated
  irefs,  \* Istr.refs
  text,   \* the texts
  rrefs,  \* Rstr.refs, 0 for one that is not allocated
  sconst, \* the constant of each program, or 0
  crefs   \* sconst.refs, of those in the table

heap == [rs |-> rs, irefs |-> irefs, text |-> text, rrefs |-> rrefs]
vars == <<cell, rs, irefs, text, rrefs, sconst, crefs>>

Fits(h) == FoldFunction(LAMBDA t, n : n + Len(t), 0, h.text) <= MaxText
Becomes(h) == Fits(h) /\ rs' = h.rs /\ irefs' = h.irefs /\ text' = h.text /\ rrefs' = h.rrefs

-----------------------------------------------------------------------------
(* string.c.                                                               *)

CanAlloc(nistrs, nrstrs) ==
  /\ nistrs <= Cardinality({i \in Istr : rs[i] = 0})
  /\ nrstrs <= Cardinality({r \in Rstr : rrefs[r] = 0})
FreeIstr(h) == Min({i \in Istr : h.rs[i] = 0})
FreeRstr(h) == Min({r \in Rstr : h.rrefs[r] = 0})

\* istr_rs(): the new one is FreeIstr(h).
istr_rs(h, r) ==
  [h EXCEPT !.rs[FreeIstr(h)] = r, !.rrefs[r] = @ + 1]

\* rstr_c(), for istr_c().
istr_c(h, t) ==
  LET r == FreeRstr(h) IN istr_rs([h EXCEPT !.text[r] = t], r)

\* dec_ref_rstr().
dec_ref_rstr(h, r) ==
  [h EXCEPT !.rrefs[r] = @ - 1, !.text[r] = IF h.rrefs[r] = 1 THEN <<>> ELSE @]

\* dec_ref_istr().
dec_ref_istr(h, i) ==
  LET less == [h EXCEPT !.irefs[i] = @ - 1]
  IN IF less.irefs[i] > 0 THEN less
     ELSE dec_ref_rstr([less EXCEPT !.rs[i] = 0], h.rs[i])

\* Mutant: the one that was shared keeps its count.
isolate_keep(h, i) ==
  LET r == h.rs[i]
      new == FreeRstr(h)
  IN IF h.rrefs[r] <= 1 THEN h
     ELSE [h EXCEPT !.rs[i] = new, !.text[new] = h.text[r], !.rrefs[new] = 1]

\* Mutant: a text that two share is not copied.
isolate_two(h, i) ==
  LET r == h.rs[i]
      new == FreeRstr(h)
  IN IF h.rrefs[r] <= 2 THEN h
     ELSE [h EXCEPT !.rs[i] = new, !.text[new] = h.text[r],
                    !.rrefs = [@ EXCEPT ![r] = @ - 1, ![new] = 1]]

\* isolate(), with rstr_rs().
isolate(h, i) ==
  LET r == h.rs[i]
      new == FreeRstr(h)
  IN IF h.rrefs[r] <= 1 THEN h
     ELSE [h EXCEPT !.rs[i] = new, !.text[new] = h.text[r],
                    !.rrefs = [@ EXCEPT ![r] = @ - 1, ![new] = 1]]

TextOf(h, i) == h.text[h.rs[i]]
Write(h, i, t) == [h EXCEPT !.text[h.rs[i]] = t]

-----------------------------------------------------------------------------
(* Frames.                                                                 *)

InBounds(h, f) == f[2] >= 0 /\ f[2] < Len(TextOf(h, f[1]))
Soastr(h, f) == IF InBounds(h, f) THEN From(TextOf(h, f[1]), f[2]) ELSE <<>>
Padded(t, n) == IF n >= Len(t) THEN t \o Blanks(n - Len(t)) ELSE t

\* pcall(): the result f, not a pointer if Nil, is counted, then the operands
\* are dropped.
Return(h, args, f) ==
  LET counted == IF f = Nil THEN h ELSE [h EXCEPT !.irefs[f[1]] = @ + 1]
  IN /\ Becomes(FoldLeft(LAMBDA g, c : dec_ref_istr(g, cell[c][1]), counted, args))
     /\ cell' = [c \in DOMAIN cell |->
                   CASE c = Head(args) -> f [] c \in ToSet(Tail(args)) -> Nil
                     [] OTHER -> cell[c]]
     /\ UNCHANGED <<sconst, crefs>>

\* A frame is pushed.
Put(c, h, i) ==
  /\ Becomes([h EXCEPT !.irefs[i] = @ + 1]) /\ cell' = [cell EXCEPT ![c] = <<i, 0>>]
  /\ UNCHANGED <<sconst, crefs>>

\* A variable is loaded or stored, a program is suspended.
Push(c, s) ==
  /\ cell[c] = Nil /\ cell[s] # Nil
  /\ cell' = [cell EXCEPT ![c] = cell[s]]
  /\ irefs' = [irefs EXCEPT ![cell[s][1]] = @ + 1]
  /\ UNCHANGED <<rs, text, rrefs, sconst, crefs>>

Drop(c) == cell[c] # Nil /\ Return(heap, <<c>>, Nil)

\* I_SCONST.
Constant(c, p) ==
  /\ cell[c] = Nil /\ sconst[p] # 0 /\ CanAlloc(1, 0)
  /\ Put(c, istr_rs(heap, sconst[p]), FreeIstr(heap))

\* add_data_int().
Move(s, d) ==
  /\ cell[s] # Nil /\ cell[s][2] + d \in Positions
  /\ Return(heap, <<s>>, <<cell[s][1], cell[s][2] + d>>)

-----------------------------------------------------------------------------
(* Writing.                                                                *)

\* What programs write, through a pointer that is not negative.
Writes(s, t) ==
  /\ cell[s] # Nil /\ cell[s][2] >= 0 /\ CanAlloc(0, 1)
  /\ Len(t) <= MaxLen

\* selem_asn(): a character at pos, where NUL ends the text.  Any other value of
\* which char holds none of the bits is stored, and ends the text for others.
selem_asn(t, pos, val) ==
  IF val = NUL THEN SubSeq(Padded(t, pos), 1, pos)
  ELSE SubSeq(Padded(t, pos), 1, pos) \o <<val % Byte>> \o From(t, pos + 1)

\* op_asn(), postmod() and premod() on a character.
AssignChar(s, val) ==
  /\ cell[s] # Nil
  /\ LET i == cell[s][1]
         t == selem_asn(TextOf(heap, i), cell[s][2], val)
     IN Writes(s, t) /\ Return(Write(isolate(heap, i), i, t), <<s>>, Nil)

\* pr_strcpy(), of n characters at most.  The length is that from before the
\* destination is filled up with blanks, which may be the same text.
strcpy(h, d, f, n) ==
  LET len == Min({n, Len(TextOf(h, f[1])) - f[2]})
      dest == Padded(TextOf(h, d[1]), d[2])
      same == d[1] = f[1]
      from == IF same THEN dest ELSE TextOf(h, f[1])
      head == SubSeq(dest, 1, d[2])
  IN IF ~(f[2] >= 0 /\ f[2] < Len(from)) \/ n < 0 THEN head
     ELSE IF same /\ d[2] = f[2] THEN dest
     ELSE IF len < 0 THEN <<Wild>>
     ELSE head \o SubSeq(from, f[2] + 1, f[2] + len)
Strcpy(s, a, n) ==
  /\ cell[s] # Nil /\ cell[a] # Nil /\ a # s
  /\ LET h == isolate(heap, cell[s][1])
         t == strcpy(h, cell[s], cell[a], n)
     IN /\ Writes(s, t) /\ (Wild \in ToSet(t) => AnyArgs)
        /\ Return(Write(h, cell[s][1], t), <<s, a>>, cell[s])

\* pr_strcat(): at the end, wherever s points.  If it appends the text to itself,
\* what is copied has moved.
Strcat(s, a, n) ==
  /\ cell[s] # Nil /\ cell[a] # Nil /\ a # s
  /\ LET h == isolate(heap, cell[s][1])
         from == Soastr(h, cell[a])
         tail == SubSeq(from, 1, Min({Max({n, 0}), Len(from)}))
         moved == cell[s][1] = cell[a][1] /\ tail # <<>>
         t == Padded(TextOf(h, cell[s][1]), cell[s][2])
              \o (IF moved THEN <<Wild>> ELSE tail)
     IN /\ Writes(s, t) /\ (moved => AnyArgs)
        /\ Return(Write(h, cell[s][1], t), <<s, a>>, cell[s])

\* The Istr of a sum: that of the operand if nothing else refers to it.
AddTo(h, f) ==
  IF h.irefs[f[1]] = 1 THEN isolate(h, f[1])
  ELSE isolate(istr_rs(h, h.rs[f[1]]), FreeIstr(h))

\* op_add().
Add(s, a) ==
  /\ cell[s] # Nil /\ cell[a] # Nil /\ a # s
  /\ CanAlloc(IF irefs[cell[s][1]] = 1 THEN 0 ELSE 1, 1)
  /\ LET h == AddTo(heap, cell[s])
         i == IF irefs[cell[s][1]] = 1 THEN cell[s][1] ELSE FreeIstr(heap)
         old == TextOf(heap, cell[s][1])
         t == old \o Soastr(heap, cell[a])
         pos == IF InBounds(heap, cell[s]) THEN cell[s][2] ELSE Len(old)
     IN /\ Len(t) <= MaxLen /\ pos \in Positions
        /\ Return(Write(h, i, t), <<s, a>>, <<i, pos>>)

\* pr_strupr() and pr_strlwr(): the whole text.
Case(s, up) ==
  /\ cell[s] # Nil
  /\ LET f(c) == IF up THEN ucase(c) ELSE lcase(c)
         i == cell[s][1]
         h == IF InBounds(heap, cell[s]) THEN isolate(heap, i) ELSE heap
     IN /\ CanAlloc(0, 1)
        /\ Return(IF InBounds(heap, cell[s]) THEN Write(h, i, Each(f, TextOf(h, i))) ELSE h,
                  <<s>>, cell[s])

-----------------------------------------------------------------------------
(* Sharing.                                                                *)

\* pr_strdup().
Strdup(s) ==
  /\ cell[s] # Nil /\ CanAlloc(1, 0)
  /\ Return(istr_rs(heap, rs[cell[s][1]]), <<s>>, <<FreeIstr(heap), cell[s][2]>>)

\* The text goes to a buffer, and an Istr shares it.
Filled(h, b, t) ==
  LET g == Write(isolate(h, b), b, t) IN istr_rs(g, g.rs[b])

\* pr_wrap().
WrapString(s, width, indent, used) ==
  /\ cell[s] # Nil /\ CanAlloc(1, 1)
  /\ LET t == Wrap(Soastr(heap, cell[s]), width, indent, used)
     IN /\ Len(t) <= MaxLen
        /\ Return(Filled(heap, wrapbuf, t), <<s>>, <<FreeIstr(heap), 0>>)

\* pr_fread(): the next line of a file, or none.
Fread(c, line) ==
  /\ cell[c] = Nil /\ CanAlloc(1, 1)
  /\ IF line = Nil THEN Becomes(isolate(heap, freader)) /\ UNCHANGED <<cell, sconst, crefs>>
     ELSE Put(c, Filled(heap, freader, line), FreeIstr(heap))

\* give_window() and give_remote(), with a line of input or, from pr_pass(), with
\* a string: the function holds it while the program that gets it runs.
Give(c, h, f) ==
  /\ cell[Given] = Nil /\ cell[c] = Nil
  /\ Becomes([h EXCEPT !.irefs[f] = @ + 2])
  /\ cell' = [cell EXCEPT ![Given] = <<f, 0>>, ![c] = <<f, 0>>]
  /\ UNCHANGED <<sconst, crefs>>
Arrive(c, line) == CanAlloc(1, 1) /\ Give(c, istr_c(heap, line), FreeIstr(heap))
Pass(c, s) ==
  /\ cell[s] # Nil /\ CanAlloc(1, 1)
  /\ Give(c, IF cell[s][2] # 0 THEN istr_c(heap, Soastr(heap, cell[s]))
             ELSE istr_rs(heap, rs[cell[s][1]]), FreeIstr(heap))
Given_back == Drop(Given)

-----------------------------------------------------------------------------
(* Constants.                                                              *)

Table == {sconst[p] : p \in Programs} \ {0}

\* Mutant: each program has its own.
SameConstants_none(t) == {}

SameConstants(t) == {r \in Table : text[r] = t}

\* add_sconst().
AddConstant(p, t) ==
  /\ sconst[p] = 0 /\ CanAlloc(0, 1)
  /\ \E r \in IF SameConstants(t) = {} THEN {FreeRstr(heap)} ELSE SameConstants(t) :
       /\ sconst' = [sconst EXCEPT ![p] = r]
       /\ crefs' = [crefs EXCEPT ![r] = @ + 1]
       /\ Becomes(IF r \in Table THEN heap
                  ELSE [heap EXCEPT !.text[r] = t, !.rrefs[r] = 1])
  /\ UNCHANGED cell

\* del_sconst().
RemoveConstant(p) ==
  /\ sconst[p] # 0
  /\ sconst' = [sconst EXCEPT ![p] = 0]
  /\ crefs' = [crefs EXCEPT ![sconst[p]] = @ - 1]
  /\ Becomes(IF crefs[sconst[p]] > 1 THEN heap ELSE dec_ref_rstr(heap, sconst[p]))
  /\ UNCHANGED cell

-----------------------------------------------------------------------------
Typed == {<<Lower>>}                     \* constants, and lines of input
FileLines == {<<Upper>>}

Init ==
  /\ cell = [c \in Cells \cup {Given} |-> Nil]
  /\ rs = [i \in Istr \cup Buffers |-> CASE i = freader -> 1 [] i = wrapbuf -> 2 [] OTHER -> 0]
  /\ irefs = [i \in Istr \cup Buffers |-> IF i \in Buffers THEN 1 ELSE 0]
  /\ text = [r \in Rstr |-> <<>>] /\ rrefs = [r \in Rstr |-> IF r \in {1, 2} THEN 1 ELSE 0]
  /\ sconst = [p \in Programs |-> 0] /\ crefs = [r \in Rstr |-> 0]

Next ==
  \/ \E c \in Cells :
       \/ Drop(c) \/ Strdup(c) \/ \E up \in BOOLEAN : Case(c, up)
       \/ \E d \in {-1, 1} : Move(c, d)
       \/ \E val \in {NUL, Lower} \cup (IF AnyArgs THEN {Byte} ELSE {}) : AssignChar(c, val)
       \/ \E p \in Programs : Constant(c, p)
       \/ \E s \in Cells :
            \/ Push(c, s) \/ Add(c, s) \/ Pass(c, s)
            \/ \E n \in {1, MaxLen} : Strcpy(c, s, n) \/ Strcat(c, s, n)
       \/ WrapString(c, MaxLen - 1, 0, 0)
       \/ \E line \in Typed : Arrive(c, line)
       \/ \E line \in FileLines \cup {Nil} : Fread(c, line)
  \/ Given_back
  \/ \E p \in Programs : RemoveConstant(p) \/ \E t \in Typed : AddConstant(p, t)
Spec == Init /\ [][Next]_vars

-----------------------------------------------------------------------------
Refer(i) == Cardinality({c \in DOMAIN cell : cell[c] # Nil /\ cell[c][1] = i})
Share(r) == Cardinality({i \in DOMAIN rs : rs[i] = r})

TypeOK ==
  /\ \A c \in DOMAIN cell : cell[c] # Nil =>
       cell[c] \in Istr \X Positions /\ rs[cell[c][1]] # 0
  /\ rs \in [Istr \cup Buffers -> 0..NRstrs] /\ \A b \in Buffers : rs[b] # 0
  /\ \A r \in Rstr : ToSet(text[r]) \subseteq Chars /\ (rrefs[r] = 0 => text[r] = <<>>)

\* Every count is the number of what it counts: frames that refer to an Istr,
\* Istrs, buffers and the table of constants that share a text, programs that
\* have a constant; so a text is there as long as it is used, and no longer
\* (string.c:344, string.c:357, sconst.c:47).
CountsRight ==
  /\ TypeOK
  /\ \A i \in Istr : irefs[i] = Refer(i) /\ (rs[i] # 0 <=> irefs[i] > 0)
  /\ \A r \in Rstr : /\ rrefs[r] = Share(r) + (IF r \in Table THEN 1 ELSE 0)
                     /\ crefs[r] = Cardinality({p \in Programs : sconst[p] = r})

\* Programs that have the same constant share it, and the table finds it by its
\* text (sconst.c:16).
ConstantsUnique == \A r, q \in Table : text[r] = text[q] => r = q

\* What is written through one Istr is seen through no other, and neither by the
\* programs whose constant it was made from (string.c:357, oper.c:281,
\* prmt3.c:201).
Seen(i) == <<rs[i] # 0, IF rs[i] = 0 THEN <<>> ELSE text[rs[i]]>>
WrittenAlone ==
  [][/\ Cardinality({i \in DOMAIN rs : Seen(i)[1] /\ Seen(i)'[1] /\ Seen(i) # Seen(i)'}) <= 1
     /\ \A p \in Programs : sconst[p] # 0 /\ sconst'[p] = sconst[p]
                            => text'[sconst[p]] = text[sconst[p]]]_vars

\* The functions of Text do what they are for on all short inputs.  Nothing in
\* them depends on a state, so that they are looked at in the first one.

\* Searches find the first or the last place in the part that is asked for, and
\* patterns match what they stand for (prmt3.c:104, util.c:155).
FindRight == Init => SearchRight /\ MatchRight

\* wrap() loses no character, keeps to the width and breaks no short word
\* (prmt3.c:190).
WrapRight == Init => WrapsRight

\* Numbers keep their value when they are written and typed (util.c:133,
\* console.c:214).
NumberRight == Init => NumbersRight
=============================================================================

----------------------------- MODULE InputLine -----------------------------
(***************************************************************************)
(* The input line (window.c 687-897, the editing functions of keyboard.c,  *)
(* the assignable objects of bobj.c): the text being typed, the prompt     *)
(* before it, and what the rows of the input window show of them.          *)
(*                                                                         *)
(* The line is cut into rows of Margin columns; the bottom row shows the   *)
(* one with the cursor, and the rows above what comes before.  As in       *)
(* Screen, the terminal is never read back: each function draws what it    *)
(* believes to be the difference, from where icol says the cursor is.      *)
(***************************************************************************)
EXTENDS Integers, Sequences, FiniteSets

CONSTANTS
  Chars,     \* what is typed or prompted
  Blank,     \* ' ': what an empty column shows, and what separates words
  Texts,     \* what arrives at once, and what programs assign to kbuf
  Prompts,   \* what programs assign to prompt
  Margin,    \* columns in use: all but the last
  Sizes,     \* rows the input window may have
  Few,       \* 7 in the code: shorter moves to the left are backspaces
  MaxLen,    \* bound: characters in the line
  DrawAny,   \* whether text is redrawn after a prompt
  FromAny,   \* whether kpos is assigned with the cursor in a window
  CloseAny,  \* whether a close gives the input to a window that echoes differently
  GrowAny    \* whether the input window gets rows while the line has more than one

ASSUME InputLineAssumption ==
  /\ Margin \in Nat \ {0} /\ Sizes \subseteq Nat \ {0} /\ MaxLen \in Nat /\ Few \in Nat
  /\ Blank \in Chars /\ Texts \subseteq Seq(Chars) /\ Prompts \subseteq Seq(Chars)
  /\ DrawAny \in BOOLEAN /\ FromAny \in BOOLEAN /\ CloseAny \in BOOLEAN /\ GrowAny \in BOOLEAN
  /\ Sizes # {}

VARIABLES
  Isize,       \* rows of the input window
  kbuf, kpos,  \* the line, and the cursor in it
  prompt, plen,
  vtc_mode,    \* lines are VTC, and show no prompt
  echo_mode,   \* what is typed is shown
  Recho,       \* whether the remote of the active window wants that
  icol,        \* "Column of cursor on bottom line"
  curs_loc,
  term         \* the terminal: rows of the input window, cursor, and whether
               \* something was written outside

text == <<kbuf, kpos>>
mode == <<prompt, plen, vtc_mode>>
echo == <<echo_mode, Recho>>
vars == <<Isize, text, mode, echo, icol, curs_loc, term>>

Min2(a, b) == IF a < b THEN a ELSE b
Max2(a, b) == IF a > b THEN a ELSE b
Round(x, y) == x - (x % y)
Oplen == IF vtc_mode THEN 0 ELSE plen

\* n characters of s, the first is number k from zero.
From(s, k, n) == SubSeq(s, k + 1, k + n)

-----------------------------------------------------------------------------
(* The terminal.  A row has one more column than is used.  Row 0 of the    *)
(* cursor is any row of a window.                                          *)

Columns == 1..(Margin + 1)
Empty == [i \in Columns |-> Blank]

cmove(t, col) == [t EXCEPT !.x = Min2(col, Margin), !.y = Isize]
Left(t, n) == [t EXCEPT !.x = Max2(@ - Max2(n, 0), 0)]

Put(t, s) ==
  IF t.y = 0 THEN [t EXCEPT !.stray = @ \/ s # <<>>]
  ELSE [t EXCEPT !.line[t.y] = [i \in Columns |-> IF i - t.x \in DOMAIN s THEN s[i - t.x] ELSE @[i]],
                 !.x = Min2(@ + Len(s), Margin)]

clreol(t) ==
  IF t.y = 0 THEN [t EXCEPT !.stray = TRUE]
  ELSE [t EXCEPT !.line[t.y] = [i \in Columns |-> IF i > t.x THEN Blank ELSE @[i]]]

\* clear_end(), move_left().
clear_end(t, len) ==
  IF len > 1 THEN clreol(t) ELSE IF len = 1 THEN Left(Put(t, <<Blank>>), 1) ELSE t
move_left(t, n, new) == IF n < Few THEN Left(t, n) ELSE cmove(t, new)

\* Iscr_fwd and Iscr_rev: one row more, at the bottom or at the top.
Iscr_fwd(t) ==
  [t EXCEPT !.line = [r \in 1..Isize |-> IF r = Isize THEN Empty ELSE @[r + 1]],
            !.x = 0, !.y = Isize]
Iscr_rev(t) ==
  [t EXCEPT !.line = [r \in 1..Isize |-> IF r = 1 THEN Empty ELSE @[r - 1]],
            !.x = 0, !.y = 1]
clear_space(t) == [t EXCEPT !.line = [r \in 1..Isize |-> Empty], !.x = 0, !.y = Isize]

\* curs_input().
curs_input(t) == IF curs_loc = "input" THEN t ELSE cmove(t, icol)

-----------------------------------------------------------------------------
(* Drawing.  A drawing function takes and returns [t, icol], the terminal  *)
(* and the column; e is the line when it is called.                        *)

D(t, c) == [t |-> t, icol |-> c]

\* Mutant: curs_input() is forgotten.
HereAnywhere == D(term, icol)

Here == D(curs_input(term), icol)
Line == [b |-> kbuf, k |-> kpos, p |-> prompt, o |-> Oplen, echo |-> echo_mode]

\* draw_prompt(), from the left of the bottom row.
draw_prompt(d, e) ==
  LET rows == (e.o + Margin - 1) \div Margin
      t[i \in 0..rows] ==
        IF i = 0 THEN d.t
        ELSE LET s == Put(t[i - 1], From(e.p, (i - 1) * Margin, Min2(e.o - (i - 1) * Margin, Margin)))
             IN IF i * Margin <= e.o THEN Iscr_fwd(s) ELSE s
  IN D(t[rows], e.o % Margin)

\* The rest of the row is drawn again, with the cursor back where it was.
Rest(d, e) ==
  LET n == Min2(Len(e.b) - e.k, Margin - d.icol)
  IN D(move_left(Put(d.t, From(e.b, e.k, n)), n, d.icol), d.icol)

\* input_puts(): the text s goes before the cursor.
input_puts(d, e, s) ==
  LET put[i \in 0..Len(s)] ==
        IF i = 0 THEN d
        ELSE LET c == (put[i - 1].icol + 1) % Margin
                 t == Put(put[i - 1].t, <<s[i]>>)
             IN D(IF c = 0 THEN Iscr_fwd(t) ELSE t, c)
  IN IF e.echo THEN Rest(put[Len(s)], e) ELSE d

\* The forward and the backward scrolls of input_cmove().
Forward(d, e, new) ==
  LET n == (d.icol + new - e.k) \div Margin
      first == Round(e.k + e.o, Margin) + Margin - e.o
      pos(i) == first + (i - 1) * Margin
      t[i \in 0..n] ==
        IF i = 0 THEN d.t
        ELSE Put(Iscr_fwd(t[i - 1]), From(e.b, pos(i), Min2(Len(e.b) - pos(i), Margin)))
      c == d.icol + new - e.k - n * Margin
  IN D(cmove(t[n], c), c)

\* Mutant: one row too far up.
AboveNext(t, e, pos) ==
  IF pos >= Margin THEN Put(t, From(e.b, pos - Margin, Min2(Len(e.b) - pos + Margin, Margin))) ELSE t

Above(t, e, pos) ==
  IF pos >= 0 THEN Put(t, From(e.b, pos, Min2(Len(e.b) - pos, Margin)))
  ELSE IF pos + e.o >= 0
  THEN LET n == Min2(-pos, Margin)
       IN Put(Put(t, From(e.p, e.o + pos, n)), From(e.b, 0, Min2(Len(e.b), Margin - n)))
  ELSE t

Backward(d, e, new) ==
  LET n == Max2(0, -((d.icol + new - e.k) \div Margin))
      first == Round(e.k + e.o, Margin) - e.o - Isize * Margin
      t[i \in 0..n] ==
        IF i = 0 THEN d.t ELSE Above(Iscr_rev(t[i - 1]), e, first - (i - 1) * Margin)
      c == d.icol + new - e.k + n * Margin
  IN D(cmove(t[n], c), c)

\* input_cmove(): the cursor goes to character new.
input_cmove(d, e, new) ==
  IF new = e.k \/ ~e.echo THEN d
  ELSE IF new = e.k - 1 /\ d.icol > 0 THEN D(Left(d.t, 1), d.icol - 1)
  ELSE IF new = e.k + 1 /\ d.icol < Margin - 1 THEN D(Put(d.t, <<e.b[new]>>), d.icol + 1)
  ELSE IF new > e.k THEN Forward(d, e, new)
  ELSE Backward(d, e, new)

\* The row from character k on is drawn again, num characters shorter.
Shorten(d, e, k, num) ==
  LET n == Min2(Len(e.b) - k, Margin - d.icol)
      t == clear_end(Put(d.t, From(e.b, k, n)), Min2(num, Margin - d.icol - n))
  IN D(move_left(t, n, d.icol), d.icol)

\* input_bdel(), input_fdel(): num characters before or after the cursor go.
input_bdel(d, e, num) ==
  IF num = 0 \/ ~e.echo THEN d ELSE Shorten(input_cmove(d, e, e.k - num), e, e.k, num)
input_fdel(d, e, num) == IF e.echo THEN Shorten(d, e, e.k + num, num) ELSE d

\* input_clear().
input_clear(d, e) ==
  LET near == clreol(input_cmove(d, e, 0).t)
      far == draw_prompt(D(clear_space(d.t), d.icol), e).t
  IN IF e.echo THEN D(IF e.k <= Isize * Margin THEN near ELSE far, e.o % Margin) ELSE d

\* input_draw(), after a prompt of e.o characters.
input_draw(d, e) ==
  LET rows == e.k \div Margin + 1
      pos(i) == (i - 1) * Margin
      n(i) == Min2(Len(e.b) - pos(i), IF i = 1 THEN Margin - (e.o % Margin) ELSE Margin)
      t[i \in 0..rows] ==
        IF i = 0 THEN d.t
        ELSE LET s == Put(t[i - 1], From(e.b, pos(i), n(i)))
             IN IF i < rows THEN Iscr_fwd(s) ELSE s
      c == e.o + (e.k % Margin)
  IN IF e.echo THEN D(move_left(t[rows], n(rows) - c, c), c) ELSE d

\* clear_input_window() leaves plen at what the last row of the prompt has.
PromptRows == IF plen > Margin THEN (plen - 1) \div Margin ELSE 0
Near(e) == e.k + e.o <= Isize * Margin
clear_input_window(d, e) ==
  LET back == input_cmove(d, e, 0)
      t[i \in 0..PromptRows] == IF i = 0 THEN back.t ELSE Iscr_rev(t[i - 1])
  IN IF Near(e) THEN D(clreol(cmove(t[PromptRows], 0)), back.icol)
     ELSE D(clear_space(d.t), d.icol)

-----------------------------------------------------------------------------
(* What the user and programs do.                                          *)

\* A drawing function leaves the terminal like this.
Shows(d) == term' = d.t /\ icol' = d.icol

\* Drawing text after a prompt goes wrong unless it ends in the first row, and
\* the cursor with it.
MayDraw(e) ==
  \/ DrawAny \/ e.o = 0 \/ ~e.echo
  \/ e.k = Len(e.b) /\ e.o + e.k < Margin

\* flush_out(): what process_incoming() found to be text.
Type(s) ==
  /\ s # <<>> /\ Len(kbuf) + Len(s) <= MaxLen
  /\ Shows(input_puts(Here, Line, s))
  /\ kbuf' = From(kbuf, 0, kpos) \o s \o From(kbuf, kpos, Len(kbuf) - kpos)
  /\ kpos' = kpos + Len(s)
  /\ curs_loc' = "input"
  /\ UNCHANGED <<Isize, mode, echo>>

\* fword(), bword(): where the next word begins, and this one or the last.
Space(i) == kbuf[i + 1] = Blank
fword ==
  LET end == {i \in kpos..Len(kbuf) : \A j \in kpos..(i - 1) : ~Space(j)}
      e == CHOOSE i \in end : \A j \in end : j <= i
      next == {i \in e..Len(kbuf) : \A j \in e..(i - 1) : Space(j)}
  IN CHOOSE i \in next : \A j \in next : j <= i
bword ==
  LET gap == {i \in 0..kpos : \A j \in i..(kpos - 1) : Space(j)}
      g == CHOOSE i \in gap : \A j \in gap : i <= j
      word == {i \in 0..g : \A j \in i..(g - 1) : ~Space(j)}
  IN CHOOSE i \in word : \A j \in word : i <= j

\* s_delete(): n characters from number k go.
s_delete(b, k, n) == From(b, 0, k) \o From(b, k + n, Len(b) - k - n)

\* Deleting before the cursor: K_BSPC, K_BWORD, K_BHOME.
DeleteBack ==
  /\ \E num \in {Min2(1, kpos), kpos - bword, kpos} :
       /\ Shows(input_bdel(Here, Line, num))
       /\ kbuf' = s_delete(kbuf, kpos - num, num)
       /\ kpos' = kpos - num
  /\ curs_loc' = "input"
  /\ UNCHANGED <<Isize, mode, echo>>

\* Deleting after the cursor: K_DCH, K_DWORD, K_DEND.
DeleteAhead ==
  /\ \E num \in {Min2(1, Len(kbuf) - kpos), fword - kpos, Len(kbuf) - kpos} :
       /\ Shows(IF num = 0 THEN Here ELSE input_fdel(Here, Line, num))
       /\ kbuf' = s_delete(kbuf, kpos, num)
  /\ curs_loc' = "input"
  /\ UNCHANGED <<Isize, kpos, mode, echo>>

\* K_DBUF.
DeleteLine ==
  /\ Shows(input_clear(Here, Line))
  /\ kbuf' = <<>> /\ kpos' = 0 /\ curs_loc' = "input"
  /\ UNCHANGED <<Isize, mode, echo>>

\* The keys that move the cursor.
Move ==
  /\ \E to \in {kpos - Margin, kpos + Margin, kpos - 1, kpos + 1, 0, Len(kbuf), bword, fword} :
       LET pos == Max2(0, Min2(to, Len(kbuf)))
       IN Shows(input_cmove(Here, Line, pos)) /\ kpos' = pos
  /\ curs_loc' = "input"
  /\ UNCHANGED <<Isize, kbuf, mode, echo>>

\* K_REFRESH.
Refresh ==
  /\ MayDraw(Line)
  /\ Shows(input_draw(input_clear(Here, Line), Line))
  /\ curs_loc' = "input"
  /\ UNCHANGED <<Isize, text, mode, echo>>

\* redraw_screen(): the key for it, stop() and winresize().
Redraw ==
  /\ MayDraw(Line)
  /\ LET t == [clear_space(term) EXCEPT !.x = 0]
     IN Shows(input_draw(draw_prompt(D(t, icol), Line), Line))
  /\ curs_loc' = "elsewhere"
  /\ UNCHANGED <<Isize, text, mode, echo>>

\* Mutant: the column stays.
ProcessColumn ==
  /\ LET d == input_cmove(Here, Line, Len(kbuf)) IN Shows(D(Iscr_fwd(d.t), d.icol))
  /\ kbuf' = <<>> /\ kpos' = 0 /\ curs_loc' = "input"
  /\ IF plen > 0 /\ ~vtc_mode THEN prompt' = <<>> /\ plen' = 0 ELSE UNCHANGED <<prompt, plen>>
  /\ UNCHANGED <<Isize, vtc_mode, echo>>

\* K_PROCESS: the line is given away, with the prompt.
Process ==
  /\ LET d == input_cmove(Here, Line, Len(kbuf)) IN Shows(D(Iscr_fwd(d.t), 0))
  /\ kbuf' = <<>> /\ kpos' = 0 /\ curs_loc' = "input"
  /\ IF plen > 0 /\ ~vtc_mode THEN prompt' = <<>> /\ plen' = 0 ELSE UNCHANGED <<prompt, plen>>
  /\ UNCHANGED <<Isize, vtc_mode, echo>>

\* change_prompt().
ChangePrompt(p) ==
  LET e == [Line EXCEPT !.p = p, !.o = Len(p)]
  IN /\ prompt' = p /\ plen' = Len(p)
     /\ IF vtc_mode THEN UNCHANGED <<icol, term, curs_loc>>
        ELSE /\ MayDraw(e)
             /\ Shows(input_draw(draw_prompt(clear_input_window(Here, Line), e), e))
             /\ curs_loc' = "input"
     /\ UNCHANGED <<Isize, text, vtc_mode, echo>>

\* assign_bobj() for kbuf and kpos.
SetBuffer(s) ==
  LET e == [Line EXCEPT !.b = s, !.k = Min2(kpos, Len(s))]
  IN /\ Len(s) <= MaxLen /\ MayDraw(e)
     /\ Shows(input_draw(input_clear(Here, Line), e))
     /\ kbuf' = s /\ kpos' = e.k /\ curs_loc' = "input"
     /\ UNCHANGED <<Isize, mode, echo>>

SetPosition(pos) ==
  /\ pos \in 0..Len(kbuf)
  /\ FromAny \/ curs_loc = "input"
  /\ Shows(input_cmove(D(term, icol), Line, pos))
  /\ kpos' = pos
  /\ UNCHANGED <<Isize, kbuf, mode, echo, curs_loc>>

\* toggle_imode(), from the divider: the prompt is shown or taken away.
ToggleMode ==
  LET o == IF vtc_mode THEN plen ELSE 0
      e == [Line EXCEPT !.o = o]
      left == IF Near(e) THEN plen - PromptRows * Margin ELSE plen
      f == [e EXCEPT !.o = IF vtc_mode THEN left ELSE 0]
      bar == D([term EXCEPT !.y = 0], icol)
  IN /\ vtc_mode' = ~vtc_mode
     /\ curs_loc' = "elsewhere"
     /\ IF plen = 0 THEN term' = bar.t /\ UNCHANGED <<icol, plen>>
        ELSE /\ MayDraw(f)
             /\ Shows(input_draw(draw_prompt(clear_input_window(bar, e), f), f))
             /\ plen' = left
     /\ UNCHANGED <<Isize, text, prompt, echo>>

\* update_echo_mode(): the active window is another one, has another remote,
\* or its remote changes its mind.
UpdateEcho(new) ==
  LET e == [Line EXCEPT !.echo = TRUE]
  IN /\ Recho' = new /\ echo_mode' = new
     /\ IF new = echo_mode THEN UNCHANGED <<icol, term, curs_loc>>
        ELSE /\ new => MayDraw(e)
             /\ Shows(IF new THEN input_draw(Here, e) ELSE input_clear(Here, e))
             /\ curs_loc' = "input"
     /\ UNCHANGED <<Isize, text, mode>>

\* close_window() and resize_screen() choose another active window, and leave
\* echo_mode as it was.
CloseActive(new) ==
  /\ CloseAny \/ new = echo_mode
  /\ Recho' = new
  /\ term' = [term EXCEPT !.y = 0] /\ curs_loc' = "elsewhere"
  /\ UNCHANGED <<Isize, text, mode, echo_mode, icol>>

\* resize_window() of the last window: rows at the top of the input window come
\* or go.
ResizeInput(n) ==
  /\ GrowAny \/ n <= Isize \/ Oplen + (IF echo_mode THEN kpos ELSE 0) < Margin
  /\ Isize' = n
  /\ term' = [term EXCEPT !.line = [r \in 1..n |-> IF r + Isize - n \in DOMAIN @ THEN @[r + Isize - n]
                                                   ELSE Empty],
                          !.y = 0]
  /\ curs_loc' = "elsewhere"
  /\ UNCHANGED <<text, mode, echo, icol>>

\* output() to a window.
Output ==
  /\ term' = [term EXCEPT !.y = 0] /\ curs_loc' = "window"
  /\ UNCHANGED <<Isize, text, mode, echo, icol>>

\* The main loop has nothing else to do.
Idle ==
  /\ term' = curs_input(term) /\ curs_loc' = "input"
  /\ UNCHANGED <<Isize, text, mode, echo, icol>>

Init ==
  /\ Isize \in Sizes
  /\ kbuf = <<>> /\ kpos = 0 /\ prompt = <<>> /\ plen = 0
  /\ vtc_mode = FALSE /\ echo_mode = TRUE /\ Recho = TRUE
  /\ icol = 0 /\ curs_loc = "elsewhere"
  /\ term = [line |-> [r \in 1..Isize |-> Empty], x |-> 0, y |-> 0, stray |-> FALSE]

Next ==
  \/ \E s \in Texts : Type(s) \/ SetBuffer(s)
  \/ DeleteBack \/ DeleteAhead \/ DeleteLine \/ Move \/ Refresh \/ Redraw \/ Process
  \/ \E p \in Prompts : ChangePrompt(p)
  \/ \E pos \in 0..MaxLen : SetPosition(pos)
  \/ \E new \in BOOLEAN : UpdateEcho(new) \/ CloseActive(new)
  \/ \E n \in Sizes : ResizeInput(n)
  \/ ToggleMode \/ Output \/ Idle

Spec == Init /\ [][Next]_vars

-----------------------------------------------------------------------------
(* Correctness.                                                            *)

TypeOK ==
  /\ Isize \in Sizes
  /\ kbuf \in Seq(Chars) /\ Len(kbuf) <= MaxLen /\ kpos \in 0..Len(kbuf)
  /\ prompt \in Seq(Chars) /\ plen \in 0..Len(prompt)
  /\ vtc_mode \in BOOLEAN /\ echo_mode \in BOOLEAN /\ Recho \in BOOLEAN
  /\ icol \in 0..(Margin - 1) /\ curs_loc \in {"input", "window", "elsewhere"}
  /\ DOMAIN term = {"line", "x", "y", "stray"}
  /\ term.x \in 0..Margin /\ term.y \in 0..Isize /\ term.stray \in BOOLEAN
  /\ DOMAIN term.line = 1..Isize
  /\ \A r \in 1..Isize : DOMAIN term.line[r] = Columns /\ \A i \in Columns : term.line[r][i] \in Chars

\* The line as it should be seen: nothing of it after the prompt while the
\* remote does not echo.
Visible == From(prompt, 0, Oplen) \o (IF echo_mode THEN kbuf ELSE <<>>)
Cursor == Oplen + (IF echo_mode THEN kpos ELSE 0)

\* Row number n of the visible line, padded.
RowOf(n) ==
  [i \in Columns |-> IF i <= Margin /\ n * Margin + i \in DOMAIN Visible
                     THEN Visible[n * Margin + i] ELSE Blank]

\* icol is the "column of cursor on bottom line" (window.c:111), and when
\* curs_loc says that the cursor is in the input window, it is there.
CursorKnown ==
  /\ TypeOK
  /\ icol = Cursor % Margin
  /\ curs_loc = "input" => term.x = icol /\ term.y = Isize

\* The bottom row shows the row of the line that has the cursor, the rows above
\* what comes before, and nothing else, whatever was typed, deleted, scrolled,
\* prompted and hidden before.
LineShown ==
  \A r \in 1..Isize :
    LET n == Cursor \div Margin - (Isize - r) IN n >= 0 => term.line[r] = RowOf(n)

\* Nothing of the line is written into a window.
NotInWindows == ~term.stray

\* What the remote of the active window does not echo is not shown.  With
\* CloseAny TLC refutes it.
EchoFollows == echo_mode = Recho
=============================================================================

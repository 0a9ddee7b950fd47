------------------------------- MODULE Screen -------------------------------
(***************************************************************************)
(* The screen (window.c, and the window primitives of prmt1.c): how the    *)
(* windows, their dividers and the input window share its rows, what the   *)
(* terminal shows on each row, and where vt believes the cursor to be.     *)
(*                                                                         *)
(* vt never reads the screen back: it scrolls what is there, draws what is *)
(* missing, and saves itself a cursor motion when curs_loc says that the   *)
(* cursor is where it has to be.  Columns are left out: a text is shorter  *)
(* than a row.                                                             *)
(***************************************************************************)
EXTENDS Integers, Sequences, FiniteSets, SequencesExt

CONSTANTS
  Wins,     \* structures for windows
  None,     \* no window
  Sizes,    \* rows the terminal may have
  StartAny, \* whether vt may start on fewer than six rows (init_screen())
  Texts,    \* what programs write: sequences of "text", "\n" and "\f"
  Speak,    \* whether programs that a close resumes may write or echo
  MaxClose  \* bound: windows closed by programs that closes resume

ASSUME ScreenAssumption ==
  /\ None \notin Wins /\ Wins # {} /\ Speak \in BOOLEAN /\ MaxClose \in Nat
  /\ Sizes \subseteq Nat /\ (\A n \in Sizes : n >= 4) /\ StartAny \in BOOLEAN
  /\ \A t \in Texts : t \in Seq({"text", "\n", "\f"}) /\ t # <<>>

VARIABLES
  rows,
  ring,       \* win_ring, from the top of the screen
  Wtop, Wbot, \* the rows of each window
  Wnl,        \* a newline that the next output() will write
  active_win,
  term,       \* the terminal: what each row shows, scroll area, cursor row
  curs_loc, curs_win,
  closing     \* calls of close_window() that are resuming programs

layout == <<rows, ring, Wtop, Wbot, active_win>>
vars == <<rows, ring, Wtop, Wbot, Wnl, active_win, term, curs_loc, curs_win, closing>>

At(w) == CHOOSE i \in DOMAIN ring : ring[i] = w
Lowest == ring[Len(ring)]
Shown == {ring[i] : i \in DOMAIN ring}
Max2(a, b) == IF a > b THEN a ELSE b
Min2(a, b) == IF a < b THEN a ELSE b

-----------------------------------------------------------------------------
(* The terminal.                                                           *)

Blank == [what |-> "blank", win |-> None]
TextOf(w) == [what |-> "text", win |-> w]
Bar(active) == [what |-> IF active THEN "active" ELSE "divider", win |-> None]
Input == [what |-> "input", win |-> None]

\* The terminal takes a row below its last one for its last one.
Height(t) == Cardinality(DOMAIN t.line)
Nearest(t, row) == Min2(row, Height(t) - 1)
scroll(t, top, bot) == [t EXCEPT !.top = Nearest(t, top), !.bot = Nearest(t, bot)]
cmove(t, row) == [t EXCEPT !.row = Nearest(t, row)]
Put(t, what) == [t EXCEPT !.line[t.row] = what]

\* Lines from a to b move up, or down, by n; the room they leave is blank.
Up(line, a, b, n) ==
  [r \in DOMAIN line |-> IF r \notin a..b THEN line[r]
                         ELSE IF r + n <= b THEN line[r + n] ELSE Blank]
Down(line, a, b, n) ==
  [r \in DOMAIN line |-> IF r \notin a..b THEN line[r]
                         ELSE IF r - n >= a THEN line[r - n] ELSE Blank]

\* A newline scrolls at the bottom of the scroll area only.
Newline(t) ==
  IF t.row = t.bot THEN [t EXCEPT !.line = Up(@, t.top, t.bot, 1)]
  ELSE cmove(t, t.row + 1)

\* scr_fwd(), scr_rev(): n lines, at the bottom or the top of the area.
scr_fwd(t, n) == [t EXCEPT !.line = Up(@, t.top, t.bot, n), !.row = t.bot]
scr_rev(t, n) == [t EXCEPT !.line = Down(@, t.top, t.bot, n), !.row = t.top]

\* Mutant: the last row is left.
clear_but_last(t, top, bot, height) ==
  [scroll(t, 0, height - 1) EXCEPT
     !.line = [r \in DOMAIN t.line |-> IF r \in top..(bot - 1) THEN Blank ELSE t.line[r]],
     !.row = Nearest(t, bot)]

\* clear_space(): the scroll area becomes the screen.
clear_space(t, top, bot, height) ==
  [scroll(t, 0, height - 1) EXCEPT
     !.line = [r \in DOMAIN t.line |-> IF r \in top..bot THEN Blank ELSE t.line[r]],
     !.row = Nearest(t, bot)]

\* draw_Divider() and mark(), below a window that ends in row bot.
draw_Divider(t, bot, active, height) ==
  Put(cmove(scroll(t, 0, height - 1), bot + 1), Bar(active))
mark(t, bot, active) == Put(cmove(t, bot + 1), Bar(active))

-----------------------------------------------------------------------------
(* Output and input.                                                       *)

\* Mutant: in any window.
InWindowAny(w) == curs_loc = "window"

\* curs_window(): nothing to do if the cursor is there already.
InWindow(w) == curs_loc = "window" /\ curs_win = w
curs_window(t, w) ==
  IF InWindow(w) THEN t ELSE cmove(scroll(t, Wtop[w], Wbot[w]), Wbot[w])

\* A form feed clears the window, and curs_window() believes that the cursor
\* and the scroll area are still where output() put them.
Item(t, w, c) ==
  CASE c = "text" -> Put(t, TextOf(w))
    [] c = "\n" -> Newline(t)
    [] c = "\f" -> clear_space(t, Wtop[w], Wbot[w], rows)

\* output(): a newline at the end is written the next time only.
output(w, text) ==
  LET pending == Wnl[w]
      ends == text[Len(text)] = "\n"
      items == (IF pending THEN <<"\n">> ELSE <<>>)
                 \o SubSeq(text, 1, IF ends THEN Len(text) - 1 ELSE Len(text))
      t[i \in 0..Len(items)] ==
        IF i = 0 THEN curs_window(term, w) ELSE Item(t[i - 1], w, items[i])
  IN /\ term' = t[Len(items)]
     /\ Wnl' = [Wnl EXCEPT ![w] = ends]
     /\ curs_loc' = "window" /\ curs_win' = w

Writing == closing > 0 => Speak

Output(w, text) ==
  /\ Writing
  /\ output(w, text)
  /\ UNCHANGED <<layout, closing>>

\* curs_input().
curs_input(t) == IF curs_loc = "input" THEN t ELSE cmove(t, rows - 1)

Itop == Wbot[Lowest] + 2
Isize == rows - Itop

\* Iscr_fwd: the input window scrolls; one row is cleared instead.
Iscr_fwd(t) ==
  IF Isize > 1 THEN scr_fwd(scroll(t, Itop, rows - 1), 1)
  ELSE Put(cmove(t, rows - 1), Blank)

\* input_puts(): the user types, to the end of the row or not.
Typed(t) == Put(curs_input(t), Input)
InputPuts ==
  /\ Writing
  /\ term' \in {Typed(term), Iscr_fwd(Typed(term))}
  /\ curs_loc' = "input"
  /\ UNCHANGED <<layout, Wnl, curs_win, closing>>

-----------------------------------------------------------------------------
(* Windows.                                                                *)

\* Mutant: one row is enough.
SplitRowsOne(w) == (Wtop[w] + 1)..(Wbot[w] - 1)

\* pr_split(): the rows that leave two on either side.
SplitRows(w) == (Wtop[w] + 2)..(Wbot[w] - 2)

\* split_window(): a new window above row loc of w.
SplitWindow(w, loc, new) ==
  /\ w \in Shown /\ new \in Wins \ Shown
  /\ loc \in SplitRows(w)
  /\ ring' = InsertAt(ring, At(w), new)
  /\ Wtop' = [Wtop EXCEPT ![new] = Wtop[w], ![w] = loc + 1]
  /\ Wbot' = [Wbot EXCEPT ![new] = loc - 1]
  /\ Wnl' = [Wnl EXCEPT ![new] = FALSE]
  /\ term' = draw_Divider(clear_space(term, Wtop[w], loc - 1, rows), loc - 1, FALSE, rows)
  /\ curs_loc' = "elsewhere"
  /\ UNCHANGED <<rows, active_win, curs_win, closing>>

Without(w) == RemoveAt(ring, At(w))

\* close_window() resumes the programs that wait for the window before it
\* forgets where the cursor was, unless mark() has.
Resumes(marked) ==
  /\ closing < MaxClose /\ closing' = closing + 1
  /\ curs_loc' = IF marked THEN "elsewhere" ELSE curs_loc

\* close_window() upwards: the window above scrolls down into the rows.
CloseUp(w) ==
  /\ w \in Shown /\ At(w) > 1
  /\ LET into == ring[At(w) - 1]
         t == scr_rev(scroll(term, Wtop[into], Wbot[w] + 1), Wbot[w] - Wbot[into])
     IN /\ Wbot' = [Wbot EXCEPT ![into] = Wbot[w]]
        /\ active_win' = IF active_win = w THEN into ELSE active_win
        /\ term' = IF active_win = w THEN mark(t, Wbot[w], TRUE) ELSE t
  /\ ring' = Without(w)
  /\ Resumes(active_win = w)
  /\ UNCHANGED <<rows, Wtop, Wnl, curs_win>>

\* close_window() downwards: the rows are cleared for the window below.
CloseDown(w) ==
  /\ w \in Shown /\ At(w) < Len(ring)
  /\ LET into == ring[At(w) + 1]
         t == clear_space(term, Wtop[w], Wbot[w] + 1, rows)
     IN /\ Wtop' = [Wtop EXCEPT ![into] = Wtop[w]]
        /\ active_win' = IF active_win = w THEN into ELSE active_win
        /\ term' = IF active_win = w THEN mark(t, Wbot[into], TRUE) ELSE t
  /\ ring' = Without(w)
  /\ Resumes(active_win = w)
  /\ UNCHANGED <<rows, Wbot, Wnl, curs_win>>

\* The end of close_window().
CloseEnd ==
  /\ closing > 0 /\ closing' = closing - 1
  /\ curs_loc' = "elsewhere"
  /\ UNCHANGED <<layout, Wnl, term, curs_win>>

\* pr_resize(): the rows that leave two to w, two to the next window, and one to
\* the input window.
ResizeRows(w) ==
  (Wtop[w] + 2)..(IF w = Lowest THEN rows - 2 ELSE Wbot[ring[At(w) + 1]] - 2)

\* resize_window(): the divider below w moves to a row.
ResizeWindow(w, row) ==
  /\ w \in Shown
  /\ row \in ResizeRows(w)
  /\ term' = CASE row - 1 > Wbot[w] ->
                    scr_rev(scroll(term, Wtop[w], row), row - Wbot[w] - 1)
               [] row - 1 < Wbot[w] ->
                    scr_fwd(scroll(term, Wtop[w], Wbot[w] + 1), Wbot[w] - row + 1)
               [] OTHER -> term
  /\ Wtop' = IF w = Lowest THEN Wtop ELSE [Wtop EXCEPT ![ring[At(w) + 1]] = row + 1]
  /\ Wbot' = [Wbot EXCEPT ![w] = row - 1]
  /\ curs_loc' = "elsewhere"
  /\ UNCHANGED <<rows, ring, active_win, Wnl, curs_win, closing>>

\* toggle_imode(): the mode is in the last divider, and a prompt is redrawn.
ToggleMode ==
  /\ LET t == cmove(scroll(term, 0, rows - 1), Itop - 1)
     IN term' \in {t, Put(cmove(t, rows - 1), Input)}
  /\ curs_loc' = "elsewhere"
  /\ UNCHANGED <<layout, Wnl, curs_win, closing>>

\* pr_curs_reset(), and a break.
CursReset ==
  /\ curs_loc' = "elsewhere"
  /\ UNCHANGED <<layout, Wnl, term, curs_win, closing>>

\* new_active_win(); the input line is drawn, or cleared, if the new window's
\* remote echoes and the old one's did not, or the reverse.
NewActiveWin(w) ==
  /\ w \in Shown \ {active_win}
  /\ active_win' = w
  /\ LET t == mark(mark(term, Wbot[active_win], FALSE), Wbot[w], TRUE)
     IN \/ term' = t /\ curs_loc' = "elsewhere"
        \/ \E line \in {Input, Blank} :
             term' = Put(cmove(t, rows - 1), line) /\ curs_loc' = "input"
  /\ UNCHANGED <<rows, ring, Wtop, Wbot, Wnl, curs_win, closing>>

-----------------------------------------------------------------------------
(* The size of the screen.                                                 *)

\* redraw_screen() for a layout.
Drawn(height, order, bot, active) ==
  LET clear == [line |-> [r \in 0..(height - 1) |-> Blank], top |-> 0,
                bot |-> height - 1, row |-> 0]
      t[i \in 0..Len(order)] ==
        IF i = 0 THEN clear
        ELSE draw_Divider(t[i - 1], bot[order[i]], order[i] = active, height)
  IN Put(cmove(t[Len(order)], height - 1), Input)

\* stop(), and the key for it.
Redraw ==
  /\ term' = Drawn(rows, ring, Wbot, active_win)
  /\ curs_loc' = "elsewhere"
  /\ UNCHANGED <<layout, Wnl, curs_win, closing>>

\* resize_screen(): as many windows as fit, each with its share of the rows,
\* two at least; if that is too much, those with more give one row each.
ResizeScreen(new_rows) ==
  LET num_wins == Min2(Len(ring), (new_rows - 1) \div 3)
      order == SubSeq(ring, 1, num_wins)
      old_ospace == rows - Isize - Len(ring)
      new_Isize == Min2(rows - (Wbot[order[num_wins]] + 2), new_rows - num_wins * 3)
      new_ospace == new_rows - new_Isize - num_wins
      size == [i \in 1..num_wins |->
                 Max2(2, ((Wbot[order[i]] - Wtop[order[i]] + 1) * new_ospace
                            + old_ospace \div 2) \div old_ospace)]
      used[i \in 0..num_wins] == IF i = 0 THEN 0 ELSE used[i - 1] + size[i]
      overrun == used[num_wins] - new_ospace
      Gives(i) == size[i] > 2 /\ Cardinality({j \in 1..(i - 1) : size[j] > 2}) < overrun
      given[i \in 1..num_wins] == IF Gives(i) THEN size[i] - 1 ELSE size[i]
      top[i \in 1..num_wins] == IF i = 1 THEN 0 ELSE top[i - 1] + given[i - 1] + 1
      Nth(w) == CHOOSE i \in 1..num_wins : order[i] = w
      kept == {order[i] : i \in 1..num_wins}
  IN /\ closing = 0
     /\ new_rows # rows
     /\ rows' = new_rows
     /\ ring' = order
     /\ Wtop' = [w \in Wins |-> IF w \in kept THEN top[Nth(w)] ELSE Wtop[w]]
     /\ Wbot' = [w \in Wins |-> IF w \in kept THEN top[Nth(w)] + given[Nth(w)] - 1 ELSE Wbot[w]]
     /\ active_win' = IF active_win \in kept THEN active_win ELSE order[num_wins]
     /\ term' = Drawn(new_rows, order, Wbot', active_win')
     /\ curs_loc' = "elsewhere"
     /\ UNCHANGED <<Wnl, curs_win, closing>>

\* init_screen(): one window, three rows of input.
Init ==
  \E n \in Sizes, w \in Wins :
    /\ ~StartAny => n >= 6
    /\ rows = n /\ ring = <<w>> /\ active_win = w
    /\ Wtop = [v \in Wins |-> 0] /\ Wbot = [v \in Wins |-> IF v = w THEN n - 5 ELSE 0]
    /\ Wnl = [v \in Wins |-> FALSE]
    /\ term = Put(Drawn(n, ring, Wbot, w), Blank)
    /\ curs_loc = "elsewhere" /\ curs_win = None /\ closing = 0

Next ==
  \/ \E w \in Shown, text \in Texts : Output(w, text)
  \/ InputPuts \/ CloseEnd \/ Redraw \/ ToggleMode \/ CursReset
  \/ \E w, new \in Wins, loc \in 0..rows : SplitWindow(w, loc, new)
  \/ \E w \in Wins : CloseUp(w) \/ CloseDown(w) \/ NewActiveWin(w)
  \/ \E w \in Wins, row \in 0..rows : ResizeWindow(w, row)
  \/ \E n \in Sizes : ResizeScreen(n)

Spec == Init /\ [][Next]_vars

-----------------------------------------------------------------------------
(* Correctness.                                                            *)

\* Every variable has its type.
Rows == 0..(rows - 1)
Contents == {Blank, Bar(TRUE), Bar(FALSE), Input} \cup {TextOf(w) : w \in Wins}
TypeOK ==
  /\ rows \in Sizes /\ ring \in Seq(Wins) /\ Len(ring) > 0 /\ active_win \in Wins
  /\ Wtop \in [Wins -> Nat] /\ Wbot \in [Wins -> Nat] /\ Wnl \in [Wins -> BOOLEAN]
  /\ term \in [line : [Rows -> Contents], top : Rows, bot : Rows, row : Rows]
  /\ curs_loc \in {"input", "window", "elsewhere"}
  /\ curs_win \in Wins \cup {None} /\ closing \in Nat

\* The windows share the rows above the input window: the first begins in the
\* top row, each has two rows at least, and one row is between each and the
\* next.
Tiled ==
  /\ TypeOK
  /\ Wtop[ring[1]] = 0
  /\ \A i \in DOMAIN ring : Wbot[ring[i]] >= Wtop[ring[i]] + 1
  /\ \A i \in 2..Len(ring) : Wtop[ring[i]] = Wbot[ring[i - 1]] + 2
  /\ active_win \in Shown

\* There is an input window, whatever the sizes that the screen goes through.
\* Not so with sizes 10 and 16 and three windows: TLC refutes it (window.c:672).
InputShown == Isize >= 1

\* The screen shows the layout: in the rows of a window nothing but its own
\* text, below it a divider that tells whether it is active, and in the rows
\* of the input window nothing else.
Painted ==
  /\ \A w \in Shown : \A r \in Wtop[w]..Wbot[w] : term.line[r] \in {Blank, TextOf(w)}
  /\ \A w \in Shown : term.line[Wbot[w] + 1] = Bar(w = active_win)
  /\ \A r \in Itop..(rows - 1) : term.line[r] \in {Blank, Input}

\* Outside close_window(), when curs_loc says that the cursor and the scroll
\* area are in a window, or the cursor in the input window, they are ("Ensure
\* that cursor and scroll area are in window", window.c:423).
CursorKnown ==
  closing = 0 =>
  /\ curs_loc = "window" =>
       /\ curs_win \in Shown
       /\ term.top = Wtop[curs_win] /\ term.bot = Wbot[curs_win] /\ term.row = Wbot[curs_win]
  /\ curs_loc = "input" => term.row = rows - 1
=============================================================================

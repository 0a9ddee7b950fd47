------------------------------ MODULE Keyboard ------------------------------
(***************************************************************************)
(* From keys to programs and text (keyboard.c, key.c, and the primitives   *)
(* of prmt2.c that read and bind keys).                                    *)
(*                                                                         *)
(* process_incoming() takes characters one at a time.  While kkey may      *)
(* become a bound key it waits; when it cannot, its first character goes   *)
(* to a reader or into the line, and the others are processed again.       *)
(* Text collects in kout and is inserted when something needs the line.    *)
(* A key and a reader run a program, in which anything may happen: keys    *)
(* come and go, programs wait for the next character, and insert() calls   *)
(* process_incoming() in the middle of itself.                             *)
(***************************************************************************)
EXTENDS Integers, Sequences, FiniteSets

CONSTANTS
  Chars,      \* what is typed
  lcase,      \* the lower case of each
  Printable,  \* those that isprint()
  Binds,      \* what programs bind: a sequence, and an editing function or None
  Typings,    \* what is read from the terminal at once
  Inserts,    \* what programs insert()
  None,       \* NULL
  MaxTyped,   \* bound: characters typed and inserted
  MaxWait,    \* bound: programs in getch()
  InsertAny   \* whether a program in getch(1) may go on to insert()

Bindable == {b[1] : b \in Binds}
Efuncs == {"K_BSPC", "K_CLEFT", "K_PROCESS"}

ASSUME KeyboardAssumption ==
  /\ lcase \in [Chars -> Chars] /\ Printable \subseteq Chars
  /\ Bindable \subseteq Seq(Chars) \ {<<>>} /\ Typings \subseteq Seq(Chars) \ {<<>>}
  /\ Inserts \subseteq Seq(Chars) \ {<<>>}
  /\ \A b \in Binds : b[2] \in Efuncs \cup {None}
  /\ MaxTyped \in Nat /\ MaxWait \in Nat /\ InsertAny \in BOOLEAN /\ None \notin Bindable

VARIABLES
  ring,       \* key_ring, from the dummy's next on: [seq, efunc]
  klookup,    \* the first key of each clump
  kkey, kout, kbuf, kpos,
  high, low,  \* programs in getch(0) and getch(1)
  keyboard_input_waiting,
  calls,      \* process_incoming() in progress, the innermost last
  typed,      \* history: who typed each character, "user" or "program"
  done        \* history: the characters consumed, and whether by getch(0)

keys == <<ring, klookup>>
edit == <<kbuf, kpos>>
readers == <<high, low>>
history == <<typed, done>>
vars == <<keys, kkey, kout, edit, readers, keyboard_input_waiting, calls, history>>

Lower(s) == [i \in DOMAIN s |-> lcase[s[i]]]
Text(s) == [i \in DOMAIN s |-> s[i].c]

-----------------------------------------------------------------------------
(* key.c.  A key is named by its sequence.                                 *)

Seqs == {ring[i].seq : i \in DOMAIN ring}
Pos(seq) == CHOOSE i \in DOMAIN ring : ring[i].seq = seq
First(seq) == lcase[seq[1]]

\* The clump that klookup leads to: it ends where the first character does.
Clump(c) ==
  IF klookup[c] = None THEN <<>>
  ELSE LET p == Pos(klookup[c])
           more == {i \in p..Len(ring) : \A j \in p..i : First(ring[j].seq) = c}
       IN [i \in 1..Cardinality(more) |-> ring[p + i - 1]]

\* find_key().
Found(seq) ==
  LET clump == Clump(First(seq)) IN {i \in DOMAIN clump : Lower(clump[i].seq) = Lower(seq)}
find_key(seq) ==
  IF Found(seq) = {} THEN None
  ELSE Clump(First(seq))[CHOOSE i \in Found(seq) : \A j \in Found(seq) : i <= j].seq

\* Mutant: always at the end of the ring.
RingEnd(c) == Len(ring)

\* How many keys stand before a new one.
RingAt(c) == IF klookup[c] = None THEN Len(ring) ELSE Pos(klookup[c]) + Len(Clump(c)) - 1

\* gen_add_key(), add_key_cmd() and add_key_efunc().
gen_add_key(seq, efunc) ==
  LET old == find_key(seq)
      at == RingAt(First(seq))
  IN IF old # None
     THEN /\ ring' = [ring EXCEPT ![Pos(old)].efunc = efunc]
          /\ UNCHANGED klookup
     ELSE /\ ring' = SubSeq(ring, 1, at) \o <<[seq |-> seq, efunc |-> efunc]>>
                       \o SubSeq(ring, at + 1, Len(ring))
          /\ klookup' = IF klookup[First(seq)] = None
                        THEN [klookup EXCEPT ![First(seq)] = seq] ELSE klookup

\* del_key().
del_key(seq) ==
  LET p == Pos(seq)
      next == IF p < Len(ring) /\ First(ring[p + 1].seq) = First(seq) THEN ring[p + 1].seq ELSE None
  IN /\ ring' = SubSeq(ring, 1, p - 1) \o SubSeq(ring, p + 1, Len(ring))
     /\ klookup' = IF klookup[First(seq)] = seq THEN [klookup EXCEPT ![First(seq)] = next] ELSE klookup

\* match_key() compares from the second character on, check_keys() takes the
\* first key of the clump that matches whole.
Prefix(s, t) == Len(s) <= Len(t) /\ \A i \in 2..Len(s) : lcase[s[i]] = lcase[t[i]]
match_key(s, seq) ==
  IF ~Prefix(s, seq) THEN "none" ELSE IF Len(s) = Len(seq) THEN "total" ELSE "partial"
Matching(s, how) ==
  LET clump == Clump(First(s)) IN {i \in DOMAIN clump : match_key(s, clump[i].seq) = how}
check_keys(s) ==
  IF Matching(s, "total") # {} THEN "total"
  ELSE IF Matching(s, "partial") # {} THEN "partial" ELSE "none"
KeyOf(s) == Clump(First(s))[CHOOSE i \in Matching(s, "total") : \A j \in Matching(s, "total") : i <= j]

-----------------------------------------------------------------------------
(* The line.                                                               *)

\* The line when what is in kout is inserted.
FlushedLine == SubSeq(kbuf, 1, kpos) \o kout \o SubSeq(kbuf, kpos + 1, Len(kbuf))
FlushedPos == kpos + Len(kout)

\* Mutant: the cursor stays before what is inserted.
flush_out_before == kbuf' = FlushedLine /\ kpos' = kpos /\ kout' = <<>>

\* flush_out().
flush_out == kbuf' = FlushedLine /\ kpos' = FlushedPos /\ kout' = <<>>

\* do_edit_func(), on line b with the cursor at p: three functions that stand for
\* the ones of InputLine.
do_edit_func(f, b, p) ==
  CASE f = "K_BSPC" ->
         /\ kbuf' = IF p = 0 THEN b ELSE SubSeq(b, 1, p - 1) \o SubSeq(b, p + 1, Len(b))
         /\ kpos' = IF p = 0 THEN 0 ELSE p - 1
    [] f = "K_CLEFT" -> kbuf' = b /\ kpos' = IF p = 0 THEN 0 ELSE p - 1
    [] f = "K_PROCESS" -> kbuf' = <<>> /\ kpos' = 0

-----------------------------------------------------------------------------
(* process_incoming().                                                     *)

Top == calls[Len(calls)]
At(place, s) == [at |-> place, s |-> s]
Goes(place, s) == calls' = [calls EXCEPT ![Len(calls)] = At(place, s)]

\* A program runs: for a key, for a reader, or from the main loop.
InProgram == calls # <<>> => Top.at \in {"high", "key", "low"}
AtTop == calls # <<>> /\ Top.at = "top"

Arrives(s, who) ==
  /\ Len(typed) + Len(s) <= MaxTyped
  /\ typed' = typed \o [i \in DOMAIN s |-> who]
  /\ calls' = Append(calls, At("top", [i \in DOMAIN s |-> [c |-> s[i], n |-> Len(typed) + i]]))
  /\ keyboard_input_waiting' = keyboard_input_waiting + 1

\* The main loop has read something.
Read(s) ==
  /\ calls = <<>>
  /\ Arrives(s, "user")
  /\ UNCHANGED <<keys, kkey, kout, edit, readers, done>>

Taken(s, by) == done' = done \o [i \in DOMAIN s |-> [n |-> s[i].n, by |-> by]]

c == Head(Top.s)

\* Mutant: the count goes down one character late.
TakeLate ==
  /\ AtTop /\ Top.s # <<>>
  /\ UNCHANGED keyboard_input_waiting

\* The character that is taken, and what is counted when it is the last.
Take ==
  /\ AtTop /\ Top.s # <<>>
  /\ keyboard_input_waiting' = keyboard_input_waiting - (IF Tail(Top.s) = <<>> THEN 1 ELSE 0)

\* getch(0) takes it.
GiveHigh ==
  /\ Take /\ high > 0
  /\ flush_out
  /\ high' = high - 1
  /\ Taken(<<c>>, "high")
  /\ Goes("high", Tail(Top.s))
  /\ UNCHANGED <<keys, kkey, low, typed>>

\* Mutant: a program starts before the text is flushed.
KeyAtOnce ==
  LET s == Append(kkey, c)
  IN /\ Take /\ high = 0 /\ check_keys(Text(s)) = "total"
     /\ kkey' = <<>>
     /\ Taken(s, "key")
     /\ KeyOf(Text(s)).efunc = None /\ Goes("key", Tail(Top.s))
     /\ UNCHANGED <<keys, kout, edit, readers, typed>>

\* A key: an editing function, or a program.  K_PROCESS gives the line away,
\* to a program too.
Key ==
  LET s == Append(kkey, c)
  IN /\ Take /\ high = 0 /\ check_keys(Text(s)) = "total"
     /\ kkey' = <<>>
     /\ Taken(s, "key")
     /\ LET f == KeyOf(Text(s)).efunc
        IN IF f = None THEN flush_out /\ Goes("key", Tail(Top.s))
           ELSE /\ do_edit_func(f, FlushedLine, FlushedPos) /\ kout' = <<>>
                /\ Goes(IF f = "K_PROCESS" THEN "key" ELSE "top", Tail(Top.s))
     /\ UNCHANGED <<keys, readers, typed>>

Partial ==
  LET s == Append(kkey, c)
  IN /\ Take /\ high = 0 /\ check_keys(Text(s)) = "partial"
     /\ kkey' = s
     /\ Goes("top", Tail(Top.s))
     /\ UNCHANGED <<keys, kout, edit, readers, history>>

\* getch(1) takes the first character of what is no key.
GiveLow ==
  LET s == Append(kkey, c)
  IN /\ Take /\ high = 0 /\ check_keys(Text(s)) = "none" /\ low > 0
     /\ flush_out
     /\ low' = low - 1
     /\ kkey' = s
     /\ Taken(<<s[1]>>, "low")
     /\ Goes("low", Tail(Top.s))
     /\ UNCHANGED <<keys, high, typed>>

\* Mutant: the characters after the first are processed after the rest.
LeftoverLast(s, rest, waiting) ==
  /\ kkey' = <<>>
  /\ IF Len(s) > 1
     THEN calls' = [calls EXCEPT ![Len(calls)] = At("top", rest \o Tail(s))]
     ELSE calls' = [calls EXCEPT ![Len(calls)] = At("top", rest)]
  /\ keyboard_input_waiting' = waiting

\* What follows the first character of s is processed again.
Leftover(s, rest, waiting) ==
  /\ kkey' = <<>>
  /\ IF Len(s) > 1
     THEN /\ calls' = [calls EXCEPT ![Len(calls)] = At("rest", rest)] \o <<At("top", Tail(s))>>
          /\ keyboard_input_waiting' = waiting + 1
     ELSE /\ calls' = [calls EXCEPT ![Len(calls)] = At("top", rest)]
          /\ keyboard_input_waiting' = waiting

\* It goes into the line.
IntoLine ==
  LET s == Append(kkey, c)
  IN /\ AtTop /\ Top.s # <<>> /\ high = 0 /\ check_keys(Text(s)) = "none" /\ low = 0
     /\ kout' = IF s[1].c \in Printable THEN Append(kout, s[1].c) ELSE kout
     /\ Taken(<<s[1]>>, "line")
     /\ Leftover(s, Tail(Top.s), keyboard_input_waiting - (IF Tail(Top.s) = <<>> THEN 1 ELSE 0))
     /\ UNCHANGED <<keys, edit, readers, typed>>

\* The text is at its end: back to the caller, which may be an outer call.
Done ==
  /\ AtTop /\ Top.s = <<>>
  /\ flush_out
  /\ LET outer == SubSeq(calls, 1, Len(calls) - 1)
         n == Len(outer)
     IN calls' = IF n > 0 /\ outer[n].at = "rest" THEN [outer EXCEPT ![n].at = "top"] ELSE outer
  /\ UNCHANGED <<keys, kkey, readers, keyboard_input_waiting, history>>

\* The program that process_incoming() started ends, or suspends itself.
Return ==
  /\ calls # <<>>
  /\ \/ /\ Top.at \in {"high", "key"}
        /\ Goes("top", Top.s)
        /\ UNCHANGED <<kkey, keyboard_input_waiting>>
     \/ /\ Top.at = "low"
        /\ Leftover(kkey, Top.s, keyboard_input_waiting)
  /\ UNCHANGED <<keys, kout, edit, readers, history>>

-----------------------------------------------------------------------------
(* Programs.                                                               *)

Bind(seq, efunc) ==
  /\ InProgram
  /\ gen_add_key(seq, efunc)
  /\ UNCHANGED <<kkey, kout, edit, readers, keyboard_input_waiting, calls, history>>

Unbind(seq) ==
  /\ InProgram /\ seq \in Seqs
  /\ del_key(seq)
  /\ UNCHANGED <<kkey, kout, edit, readers, keyboard_input_waiting, calls, history>>

\* pr_getch(), for any character or for one that is no key.
Getch ==
  /\ InProgram /\ high + low < MaxWait
  /\ \/ high' = high + 1 /\ UNCHANGED low
     \/ low' = low + 1 /\ UNCHANGED high
  /\ UNCHANGED <<keys, kkey, kout, edit, keyboard_input_waiting, calls, history>>

\* pr_insert(), in a program that a key, a reader or the main loop started.
Insert(s) ==
  /\ InProgram
  /\ (calls # <<>> /\ ~InsertAny) => Top.at # "low"
  /\ Arrives(s, "program")
  /\ UNCHANGED <<keys, kkey, kout, edit, readers, done>>

\* pr_edfunc().
Edfunc(f) ==
  /\ InProgram
  /\ do_edit_func(f, kbuf, kpos)
  /\ UNCHANGED <<keys, kkey, kout, readers, keyboard_input_waiting, calls, history>>

Init ==
  /\ ring = <<>> /\ klookup = [x \in {lcase[y] : y \in Chars} |-> None]
  /\ kkey = <<>> /\ kout = <<>> /\ kbuf = <<>> /\ kpos = 0
  /\ high = 0 /\ low = 0 /\ keyboard_input_waiting = 0
  /\ calls = <<>> /\ typed = <<>> /\ done = <<>>

Next ==
  \/ \E s \in Typings : Read(s)
  \/ GiveHigh \/ Key \/ Partial \/ GiveLow \/ IntoLine \/ Done \/ Return
  \/ \E b \in Binds : Bind(b[1], b[2])
  \/ \E seq \in Bindable : Unbind(seq)
  \/ Getch
  \/ \E s \in Inserts : Insert(s)
  \/ \E f \in Efuncs : Edfunc(f)

Spec == Init /\ [][Next]_vars

-----------------------------------------------------------------------------
(* Correctness.                                                            *)

Char == [c : Chars, n : 1..MaxTyped]
TypeOK ==
  /\ ring \in Seq([seq : Bindable, efunc : Efuncs \cup {None}])
  /\ \A x \in DOMAIN klookup : klookup[x] \in Seqs \cup {None}
  /\ kkey \in Seq(Char) /\ kout \in Seq(Printable) /\ kbuf \in Seq(Printable)
  /\ kpos \in 0..Len(kbuf)
  /\ high \in 0..MaxWait /\ low \in 0..MaxWait /\ keyboard_input_waiting \in Nat
  /\ calls \in Seq([at : {"top", "high", "key", "low", "rest"}, s : Seq(Char)])

\* "All keys with the same first character are adjacent. klookup[c] points to
\* the first key starting with c, or NULL" (key.c:16-18), and no sequence is
\* bound twice: what Bind finds is what Unbind and check_keys() find.
Lookup ==
  /\ TypeOK
  /\ \A i, j \in DOMAIN ring : First(ring[i].seq) = First(ring[j].seq) =>
       \A l \in i..j : First(ring[l].seq) = First(ring[i].seq)
  /\ \A i, j \in DOMAIN ring : Lower(ring[i].seq) = Lower(ring[j].seq) => i = j
  /\ \A x \in DOMAIN klookup :
       LET mine == {i \in DOMAIN ring : First(ring[i].seq) = x}
       IN IF mine = {} THEN klookup[x] = None
          ELSE klookup[x] = ring[CHOOSE i \in mine : \A j \in mine : i <= j].seq

\* The characters that are not read yet, those taken, and those in kkey, whose
\* first stays there while getch(1)'s program has it.
Unread == UNION {{calls[i].s[j].n : j \in DOMAIN calls[i].s} : i \in DOMAIN calls}
Consumed == {done[i].n : i \in DOMAIN done}
Lows == {i \in DOMAIN calls : calls[i].at = "low"}
InKey == {kkey[i].n : i \in DOMAIN kkey} \ (IF Lows = {} THEN {} ELSE Consumed)

\* Each character goes to one taker, none is lost or taken twice, and what the
\* user types is taken in the order in which it is typed, however the calls of
\* process_incoming() nest; only getch(0) gets ahead of the beginning of a key.
OnceInOrder ==
  /\ \A i, j \in DOMAIN done : done[i].n = done[j].n => i = j
  /\ Consumed \cup Unread \cup InKey = DOMAIN typed
  /\ Consumed \cap (Unread \cup InKey) = {} /\ Unread \cap InKey = {}
  /\ \A i, j \in DOMAIN done :
       (/\ i < j /\ "high" \notin {done[i].by, done[j].by}
        /\ typed[done[i].n] = "user" /\ typed[done[j].n] = "user") => done[i].n < done[j].n

\* A program never runs while typed text is not in the line.
LineSeen == InProgram => kout = <<>>

\* input_waiting() tells a program whether there is text behind the character
\* that started it, in any of the calls.
WaitingKnown == (keyboard_input_waiting > 0) <=> (Unread # {})

\* Typing and editing act on one line at once, in the order of the keys.
LE == INSTANCE LineEdit WITH Chars <- Printable, line <- FlushedLine, cursor <- FlushedPos
OneLine == LE!Spec
=============================================================================

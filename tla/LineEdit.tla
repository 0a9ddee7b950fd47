------------------------------ MODULE LineEdit ------------------------------
(***************************************************************************)
(* What the keyboard promises to who types: a line of text and a cursor,   *)
(* on which every character and every editing function acts at once, in    *)
(* the order in which they are typed.                                      *)
(***************************************************************************)
EXTENDS Integers, Sequences

CONSTANT Chars

VARIABLES line, cursor

vars == <<line, cursor>>

Before == SubSeq(line, 1, cursor)
After == SubSeq(line, cursor + 1, Len(line))

Insert(c) ==
  /\ line' = Before \o <<c>> \o After
  /\ cursor' = cursor + 1

Erase ==
  /\ cursor > 0
  /\ line' = SubSeq(line, 1, cursor - 1) \o After
  /\ cursor' = cursor - 1

Left ==
  /\ cursor > 0
  /\ cursor' = cursor - 1
  /\ UNCHANGED line

Take ==
  /\ line' = <<>> /\ cursor' = 0

Init == line = <<>> /\ cursor = 0

Next == (\E c \in Chars : Insert(c)) \/ Erase \/ Left \/ Take

Spec == Init /\ [][Next]_vars
=============================================================================

---------------------------- MODULE MCInputLine ----------------------------
(* Small instances of InputLine for TLC. *)
EXTENDS InputLine

MCTexts == {<<"a">>, <<" ">>, <<"a", "b", "a", "b">>}
MCPrompts == {<<>>, <<"p">>, <<"p", "q">>}
=============================================================================

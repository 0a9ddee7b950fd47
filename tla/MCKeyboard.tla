----------------------------- MODULE MCKeyboard -----------------------------
(* Small instances of Keyboard for TLC. *)
EXTENDS Keyboard

\* An escape character, and a letter in two cases.
MCLcase == [x \in {"e", "a", "A"} |-> IF x = "A" THEN "a" ELSE x]
MCBinds == {<<<<"e", "a", "e">>, None>>, <<<<"A", "a">>, "K_PROCESS">>, <<<<"e", "A">>, "K_CLEFT">>}
MCTypings == {<<"a", "A">>, <<"e", "a", "a", "A">>, <<"a", "e", "a", "e">>}
MCInserts == {<<"A">>}
=============================================================================

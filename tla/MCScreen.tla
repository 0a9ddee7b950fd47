------------------------------ MODULE MCScreen ------------------------------
(* Small instances of Screen for TLC. *)
EXTENDS Screen, TLC

\* Lines, and two lines at a time.
MCTexts == {<<"text", "\n">>, <<"text", "\n", "text">>}

\* With a form feed.
MCFormFeed == {<<"text">>, <<"\f", "text">>}

Symmetric == Permutations(Wins)
=============================================================================

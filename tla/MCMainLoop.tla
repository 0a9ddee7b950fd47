---------------------------- MODULE MCMainLoop ----------------------------
(* Small instances of MainLoop for TLC. *)
EXTENDS MainLoop

\* A program may go to sleep for no time, or for a second.
MCNaps == {0, 1}
=============================================================================

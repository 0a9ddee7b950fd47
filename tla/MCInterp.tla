------------------------------ MODULE MCInterp ------------------------------
(* Small instances of Interp for TLC. *)
EXTENDS Interp

\* One program, with a local variable.
MCLocal == {[avarc |-> 0, lvarc |-> 1, reqargs |-> 0]}

\* One program, with a parameter that may be left out.
MCProg == {[avarc |-> 1, lvarc |-> 0, reqargs |-> 0]}

\* A remote, with the list of those that read from it.
MCRemote == {<<"Rrstack">>}

\* A window, with the list of those that wait for keys.
MCWindow == {<<"Wghstack">>}
=============================================================================

--------------------------- MODULE MCRemoteInput ---------------------------
(* Small instances of RemoteInput for TLC. *)
EXTENDS RemoteInput

\* Text with a line end in it, both ends of a line, a prompt, options.
MCWords == {<<"a", "NL", "a">>, <<"CR", "NL">>, <<"IAC", "GA">>, <<"IAC", "EOR">>,
            <<"IAC", "WILL", "ECHO">>, <<"IAC", "WONT", "ECHO">>, <<"IAC", "WILL", "EOR">>, <<"IAC", "DO", "EOR">>}

\* Without commands.
MCText == {<<"a">>}
=============================================================================

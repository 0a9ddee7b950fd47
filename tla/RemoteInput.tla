---------------------------- MODULE RemoteInput ----------------------------
(***************************************************************************)
(* What a remote sends, from the socket to the programs that read it: the  *)
(* part of main_loop() that waits for input, io_check(), receive_input(),  *)
(* process_remote_text() and give_remote() (main.c, remote.c) and the      *)
(* telnet protocol (telnet.c).                                             *)
(*                                                                         *)
(* Every piece of text given away runs a program, in the middle of the     *)
(* scan of the buffer.  It may make the remote busy, hide it, switch it to *)
(* raw mode, disconnect it, or connect anew, and the new connection may be *)
(* in the same structure.  Text that is not wanted now has to wait.        *)
(*                                                                         *)
(* One structure is followed.  A program is the changes it makes to that   *)
(* remote; that the text may be written to a window instead, and no        *)
(* program run, is the case of a program that does nothing.  Which program *)
(* gets it is the matter of Nodes and Interp.                              *)
(***************************************************************************)
EXTENDS Integers, Sequences

CONSTANTS
  Words,    \* what a peer sends at a time: sequences of bytes
  MaxWords, \* bound: words sent
  MaxConns  \* bound: connections made

Verbs == {"WILL", "WONT", "DO", "DONT"}

ASSUME RemoteAssumption ==
  /\ MaxWords \in Nat /\ MaxConns \in Nat \ {0}
  /\ \A w \in Words : w \in Seq(STRING) /\ w # <<>>

VARIABLES
  wire,       \* sent and not read yet
  rid,        \* the id of the connection in the structure, 0 if discarded
  conns,      \* connections made so far
  Rbuf,       \* read and not processed yet
  Rtelnetbuf, \* the line so far
  Riac, Rintent, Recho, Reor,
  Rraw,
  wanted,     \* (Rwin || Rback) && !Rbusy
  Rinbuf,
  fn,         \* what runs: a step of the main loop, or who waits for a program
  at,         \* process_remote_text(): the position of s
  saved,      \* and its rid
  words, sent, eaten, given, replies \* history: of this connection

socket == <<wire, words, sent>>
conn == <<rid, conns>>
buffers == <<Rbuf, Rtelnetbuf>>
telnet == <<Riac, Rintent, Recho, Reor>>
flags == <<Rraw, wanted>>
scan == <<at, saved>>
vars == <<wire, rid, conns, Rbuf, Rtelnetbuf, Riac, Rintent, Recho, Reor, Rraw,
          wanted, Rinbuf, fn, at, saved, words, sent, eaten, given,
          replies>>

-----------------------------------------------------------------------------
(* Waiting for input: main_loop(), io_check() and receive_input().          *)

\* The remote's socket is looked at, and its text processed.
Wanted == rid # 0 /\ wanted

\* s_acat() stops at the first null byte of the block.
UpToNul(s) ==
  LET nuls == {i \in DOMAIN s : s[i] = "NUL"}
  IN IF nuls = {} THEN s
     ELSE SubSeq(s, 1, (CHOOSE i \in nuls : \A j \in nuls : i <= j) - 1)

\* The peer sends.  What comes while text is processed comes before the next
\* select(), for nothing else looks at the socket.
PeerSends(w) ==
  /\ fn = "select" /\ rid # 0 /\ words < MaxWords
  /\ wire' = wire \o w /\ sent' = sent \o w /\ words' = words + 1
  /\ UNCHANGED <<conn, buffers, telnet, flags, Rinbuf, fn, scan, eaten, given, replies>>

\* Mutant: nobody is told.
ReceiveUntold(n) ==
  /\ fn = "select" /\ Wanted /\ n \in DOMAIN wire
  /\ Rbuf' = Rbuf \o UpToNul(SubSeq(wire, 1, n))
  /\ wire' = SubSeq(wire, n + 1, Len(wire))
  /\ fn' = "ready"
  /\ UNCHANGED <<conn, Rinbuf, Rtelnetbuf, telnet, flags, scan, words, sent,
                 eaten, given, replies>>

\* io_check() finds the socket readable: receive_input() reads n bytes.
ReceiveInput(n) ==
  /\ fn = "select" /\ Wanted /\ n \in DOMAIN wire
  /\ Rbuf' = Rbuf \o UpToNul(SubSeq(wire, 1, n))
  /\ wire' = SubSeq(wire, n + 1, Len(wire))
  /\ Rinbuf' = TRUE
  /\ fn' = "ready"
  /\ UNCHANGED <<conn, Rtelnetbuf, telnet, flags, scan, words, sent,
                 eaten, given, replies>>

\* The peer has closed: receive_input() disconnects, which may run a hook.
Closed ==
  /\ fn = "select" /\ Wanted /\ wire = <<>>
  /\ rid' = 0
  /\ fn' = "closed"
  /\ UNCHANGED <<socket, conns, buffers, telnet, flags, Rinbuf, scan,
                 eaten, given, replies>>

\* Another file is readable, and this socket is not.
OtherInput ==
  /\ fn = "select" /\ ~(Wanted /\ wire # <<>>)
  /\ fn' = "ready"
  /\ UNCHANGED <<socket, conn, buffers, telnet, flags, Rinbuf, scan,
                 eaten, given, replies>>

\* A timer is due: main_loop() resumes a program.  When io_check() returns 0
\* because the quarter of a second is over, main_loop() only moves the cursor:
\* nothing changes here.
Timer ==
  /\ fn = "select"
  /\ fn' = "other"
  /\ UNCHANGED <<socket, conn, buffers, telnet, flags, Rinbuf, scan,
                 eaten, given, replies>>

\* io_check() has returned 1: what was read is processed.
Ready ==
  /\ fn = "ready"
  /\ fn' = "cycle"
  /\ UNCHANGED <<socket, conn, buffers, telnet, flags, Rinbuf, scan, eaten, given, replies>>

\* Unless the user answered Break after the top of the loop.  Programs that a
\* break aborts just end.
Break ==
  /\ fn = "ready"
  /\ fn' = "select"
  /\ UNCHANGED <<socket, conn, buffers, telnet, flags, Rinbuf, scan, eaten, given, replies>>

\* io_cycle(): process_remote_text() for this remote.
Cycle ==
  /\ fn = "cycle"
  /\ IF rid = 0 THEN fn' = "other" /\ UNCHANGED scan
     ELSE fn' = "char" /\ at' = 1 /\ saved' = rid
  /\ UNCHANGED <<socket, conn, buffers, telnet, flags, Rinbuf, eaten, given, replies>>

-----------------------------------------------------------------------------
(* telnet_state_machine() for a byte of Rbuf.                               *)

\* give_remote(): who waits gets the text.
Give(text, site) ==
  /\ given' = given \o text
  /\ fn' = site

\* process_remote_text() comes to a byte and hands it on.
Byte == Rbuf[at]
Feed ==
  /\ fn = "char" /\ Wanted /\ at \in DOMAIN Rbuf
  /\ at' = at + 1
  /\ Rinbuf' = (at < Len(Rbuf))
  /\ eaten' = Append(eaten, [byte |-> Byte, kept |-> Byte # "CR" \/ Rraw])
  /\ UNCHANGED <<socket, conns, Rbuf, flags, saved>>

\* Not part of a command.  A line ends it; in raw mode nothing does.
Text ==
  /\ Feed /\ ~Riac /\ Byte # "IAC"
  /\ IF Byte = "NL" /\ ~Rraw
     THEN Give(Append(Rtelnetbuf, "NL"), "line") /\ UNCHANGED Rtelnetbuf
     ELSE /\ Rtelnetbuf' = IF Byte = "CR" /\ ~Rraw THEN Rtelnetbuf
                           ELSE Append(Rtelnetbuf, Byte)
          /\ UNCHANGED <<fn, given>>
  /\ UNCHANGED <<rid, telnet, replies>>

\* IAC, and a verb after it.
Iac ==
  /\ Feed /\ ~Riac /\ Byte = "IAC"
  /\ Riac' = TRUE
  /\ UNCHANGED <<rid, Rtelnetbuf, Rintent, Recho, Reor, fn, given, replies>>

Verb ==
  /\ Feed /\ Riac /\ Rintent = "none" /\ Byte \in Verbs
  /\ Rintent' = Byte
  /\ UNCHANGED <<rid, Rtelnetbuf, Riac, Recho, Reor, fn, given, replies>>

\* What follows the last newline of the line so far.
AfterNL(s) ==
  LET nls == {i \in DOMAIN s : s[i] = "NL"}
      last == IF nls = {} THEN 0 ELSE CHOOSE i \in nls : \A j \in nls : j <= i
  IN SubSeq(s, last + 1, Len(s))
ToNL(s) == SubSeq(s, 1, Len(s) - Len(AfterNL(s)))

\* GA, or EOR if it was agreed on: the line so far is a prompt.  In raw mode
\* the lines before it go first.
Terminator == Byte = "GA" \/ (Byte = "EOR" /\ Reor)
Prompt ==
  /\ Feed /\ Riac /\ Rintent = "none" /\ Terminator
  /\ IF Rraw /\ ToNL(Rtelnetbuf) # <<>>
     THEN Give(ToNL(Rtelnetbuf), "lines")
     ELSE Give(Rtelnetbuf, "prompt")
  /\ UNCHANGED <<rid, Rtelnetbuf, telnet, replies>>

\* Any other command.
OtherCommand ==
  /\ Feed /\ Riac /\ Rintent = "none" /\ Byte \notin Verbs /\ ~Terminator
  /\ Riac' = FALSE
  /\ UNCHANGED <<rid, Rtelnetbuf, Rintent, Recho, Reor, fn, given, replies>>

\* Mutant: every offer is answered.
AnswerAlways(opt) ==
  CASE opt = "ECHO" /\ Rintent = "DO" -> <<"WONT">>
    [] opt = "ECHO" /\ Rintent = "WILL" -> <<"DO">>
    [] opt = "ECHO" /\ Rintent = "WONT" -> <<"DONT">>
    [] OTHER -> <<>>

\* handle_echo_option(), handle_eor_option(), handle_unsupported_option(): the
\* answer, if there is one.
Answer(opt) ==
  CASE Rintent = "DO" -> <<"WONT">>
    [] opt = "ECHO" /\ Rintent = "WILL" /\ Recho -> <<"DO">>
    [] opt = "ECHO" /\ Rintent = "WONT" /\ ~Recho -> <<"DONT">>
    [] opt = "EOR" /\ Rintent = "WILL" /\ ~Reor -> <<"DO">>
    [] opt = "EOR" /\ Rintent = "WONT" /\ Reor -> <<"DONT">>
    [] opt \notin {"ECHO", "EOR"} /\ Rintent = "WILL" -> <<"DONT">>
    [] OTHER -> <<>>

\* The last byte of WILL, WONT, DO or DONT.  If the answer cannot be sent,
\* transmit() disconnects.
Option ==
  /\ Feed /\ Riac /\ Rintent # "none"
  /\ Riac' = FALSE /\ Rintent' = "none"
  /\ Recho' = IF Byte = "ECHO" /\ Rintent \in {"WILL", "WONT"} THEN Rintent = "WONT" ELSE Recho
  /\ Reor' = IF Byte = "EOR" /\ Rintent \in {"WILL", "WONT"} THEN Rintent = "WILL" ELSE Reor
  /\ \/ /\ replies' = replies \o [i \in DOMAIN Answer(Byte) |->
                                    [verb |-> Answer(Byte)[i], opt |-> Byte]]
        /\ UNCHANGED <<rid, fn>>
     \/ /\ Answer(Byte) # <<>>
        /\ rid' = 0 /\ fn' = "option" /\ UNCHANGED replies
  /\ UNCHANGED <<Rtelnetbuf, given>>

-----------------------------------------------------------------------------
(* The ends of process_remote_text(): telnet_state_machine(rmt, 0).        *)

\* The unterminated line of a remote in raw mode is given, or not.
Flush(site, next) ==
  IF Rraw /\ Rtelnetbuf # <<>>
  THEN Give(Rtelnetbuf, site) /\ UNCHANGED <<Rtelnetbuf, Rinbuf>>
  ELSE fn' = next /\ UNCHANGED <<Rtelnetbuf, Rinbuf, given>>

\* Mutant: the byte it stopped at is lost.
HeldNext ==
  /\ fn = "char" /\ ~Wanted /\ at \in DOMAIN Rbuf
  /\ Rbuf' = SubSeq(Rbuf, at + 1, Len(Rbuf))
  /\ at' = 1
  /\ Flush("held", "other")
  /\ UNCHANGED <<socket, conn, telnet, flags, saved, eaten, replies>>

\* The remote is busy now, or hidden: the rest waits.
Held ==
  /\ fn = "char" /\ ~Wanted /\ at \in DOMAIN Rbuf
  /\ Rbuf' = SubSeq(Rbuf, at, Len(Rbuf))
  /\ at' = 1
  /\ Flush("held", "other")
  /\ UNCHANGED <<socket, conn, telnet, flags, saved, eaten, replies>>

\* Everything was processed.
Emptied ==
  /\ fn = "char" /\ at > Len(Rbuf)
  /\ Flush("flush", "done")
  /\ UNCHANGED <<socket, conn, Rbuf, telnet, flags, scan, eaten, replies>>
Done ==
  /\ fn = "done"
  /\ IF rid = 0 THEN UNCHANGED <<Rbuf, Rinbuf>> ELSE Rbuf' = <<>> /\ Rinbuf' = FALSE
  /\ at' = 1
  /\ fn' = "other"
  /\ UNCHANGED <<socket, conn, Rtelnetbuf, telnet, flags, saved, eaten, given, replies>>

-----------------------------------------------------------------------------
(* Programs.                                                               *)

Sites == {"line", "lines", "prompt", "option", "closed", "flush", "held", "other"}
Running == fn \in Sites

\* set_raw(), set_busy(), and display(), close() or set_back().
SetFlags ==
  /\ Running /\ rid # 0
  /\ \/ Rraw' = ~Rraw /\ UNCHANGED wanted
     \/ wanted' = ~wanted /\ UNCHANGED Rraw
  /\ UNCHANGED <<socket, conn, buffers, telnet, Rinbuf, fn, scan, eaten, given, replies>>

\* disconnect().
Disconnect ==
  /\ Running /\ rid # 0 /\ rid' = 0
  /\ UNCHANGED <<socket, conns, buffers, telnet, flags, Rinbuf, fn, scan,
                 eaten, given, replies>>

\* connect() takes the structure again: create_rmt().  Reor and Rinbuf keep
\* what was there.
Connect ==
  /\ Running /\ rid = 0 /\ conns < MaxConns
  /\ rid' = conns + 1 /\ conns' = conns + 1
  /\ Rbuf' = <<>> /\ Rtelnetbuf' = <<>>
  /\ Riac' = FALSE /\ Rintent' = "none" /\ Recho' = TRUE /\ Reor' \in BOOLEAN
  /\ Rraw' = FALSE /\ wanted' = FALSE
  /\ Rinbuf' \in BOOLEAN
  /\ wire' = <<>> /\ sent' = <<>> /\ eaten' = <<>> /\ given' = <<>> /\ replies' = <<>>
  /\ UNCHANGED <<fn, scan, words>>

\* Who waited goes on.  If the connection is another one, nothing of it is
\* touched, and io_cycle() starts over.
Same == rid = saved

\* Mutant: what was given stays in the line.
LineEndKept ==
  /\ fn = "line"
  /\ fn' = IF Same THEN "char" ELSE "cycle"
  /\ UNCHANGED <<Rtelnetbuf, socket, conn, Rbuf, telnet, flags, Rinbuf, scan,
                 eaten, given, replies>>

LineEnd ==
  /\ fn = "line"
  /\ Rtelnetbuf' = IF Same THEN <<>> ELSE Rtelnetbuf
  /\ fn' = IF Same THEN "char" ELSE "cycle"
  /\ UNCHANGED <<socket, conn, Rbuf, telnet, flags, Rinbuf, scan,
                 eaten, given, replies>>

LinesEnd ==
  /\ fn = "lines"
  /\ IF Same
     THEN Rtelnetbuf' = AfterNL(Rtelnetbuf) /\ Give(AfterNL(Rtelnetbuf), "prompt")
     ELSE fn' = "cycle" /\ UNCHANGED <<Rtelnetbuf, given>>
  /\ UNCHANGED <<socket, conn, Rbuf, telnet, flags, Rinbuf, scan, eaten, replies>>

PromptEnd ==
  /\ fn = "prompt"
  /\ IF Same
     THEN Rtelnetbuf' = <<>> /\ Riac' = FALSE /\ fn' = "char"
     ELSE fn' = "cycle" /\ UNCHANGED <<Rtelnetbuf, Riac>>
  /\ UNCHANGED <<socket, conn, Rbuf, Rintent, Recho, Reor, flags, Rinbuf, scan,
                 eaten, given, replies>>

DisconnectEnd ==
  /\ fn \in {"option", "closed"}
  /\ fn' = IF fn = "option" THEN "cycle" ELSE "ready"
  /\ UNCHANGED <<socket, conn, buffers, telnet, flags, Rinbuf, scan,
                 eaten, given, replies>>

\* After a flush nobody asks whether the connection is the same; the line is
\* another string if it is not.
FlushEnd ==
  /\ fn \in {"flush", "held"}
  /\ Rtelnetbuf' = IF Same THEN <<>> ELSE Rtelnetbuf
  /\ fn' = IF fn = "flush" THEN "done" ELSE "other"
  /\ UNCHANGED <<socket, conn, Rbuf, telnet, flags, Rinbuf, scan,
                 eaten, given, replies>>

\* The programs that the keyboard or a timer started are over: the top of
\* the loop.
OtherEnd ==
  /\ fn = "other"
  /\ fn' = "select"
  /\ UNCHANGED <<socket, conn, buffers, telnet, flags, Rinbuf, scan,
                 eaten, given, replies>>

\* One connection, made and displayed by a program.
Init ==
  /\ wire = <<>> /\ sent = <<>> /\ words = 0
  /\ rid = 1 /\ conns = 1
  /\ Rbuf = <<>> /\ Rtelnetbuf = <<>>
  /\ Riac = FALSE /\ Rintent = "none" /\ Recho = TRUE /\ Reor \in BOOLEAN
  /\ Rraw = FALSE /\ wanted = TRUE /\ Rinbuf \in BOOLEAN
  /\ fn = "select" /\ at = 1 /\ saved = 0
  /\ eaten = <<>> /\ given = <<>> /\ replies = <<>>

MainLoop ==
  \/ \E n \in DOMAIN wire : ReceiveInput(n)
  \/ Ready \/ Cycle \/ Text \/ Iac \/ Verb \/ Prompt \/ OtherCommand \/ Option
  \/ Held \/ Emptied \/ Done
  \/ LineEnd \/ LinesEnd \/ PromptEnd \/ DisconnectEnd \/ FlushEnd \/ OtherEnd

Next ==
  \/ MainLoop \/ Closed \/ OtherInput \/ Timer \/ Break
  \/ \E w \in Words : PeerSends(w)
  \/ SetFlags \/ Disconnect \/ Connect

Spec == Init /\ [][Next]_vars
FairSpec == Spec /\ WF_vars(MainLoop)

-----------------------------------------------------------------------------
(* Correctness.                                                            *)

\* Every variable has its type.
Bytes == UNION {{w[i] : i \in DOMAIN w} : w \in Words}
Byteseq == Seq(Bytes)
TypeOK ==
  /\ wire \in Byteseq /\ sent \in Byteseq /\ words \in Nat
  /\ conns \in Nat /\ rid \in 0..conns /\ saved \in 0..conns
  /\ Rbuf \in Byteseq /\ Rtelnetbuf \in Byteseq
  /\ Riac \in BOOLEAN /\ Rintent \in Verbs \cup {"none"}
  /\ Recho \in BOOLEAN /\ Reor \in BOOLEAN
  /\ Rraw \in BOOLEAN /\ wanted \in BOOLEAN
  /\ Rinbuf \in BOOLEAN
  /\ fn \in Sites \cup {"select", "ready", "cycle", "char", "done"}
  /\ at \in 1..(Len(Rbuf) + 1) \/ ~Same
  /\ eaten \in Seq([byte : STRING, kept : BOOLEAN])
  /\ given \in Byteseq
  /\ replies \in Seq([verb : Verbs, opt : STRING])

Scanning == fn \in {"char", "line", "lines", "prompt", "flush", "done"} /\ Same

\* Read from the socket and not processed yet.
Rest == IF Scanning THEN SubSeq(Rbuf, at, Len(Rbuf)) ELSE Rbuf

\* Processed and not given to anybody yet.
Line ==
  IF ~Same THEN Rtelnetbuf
  ELSE CASE fn \in {"line", "prompt", "flush", "held"} -> <<>>
         [] fn = "lines" -> AfterNL(Rtelnetbuf)
         [] OTHER -> Rtelnetbuf

\* Every byte that the peer sent is processed once and in order: while a busy
\* or hidden remote makes the scan stop, and whatever programs do in the
\* middle of it, nothing is skipped and nothing comes twice.
NothingLost ==
  /\ TypeOK
  /\ rid # 0 => [i \in DOMAIN eaten |-> eaten[i].byte] \o Rest \o wire = sent

\* The text in a stream of telnet: IAC takes one byte more, and two if the
\* first is WILL, WONT, DO or DONT.  Lines end in NL, with or without CR.
Plain(s) ==
  LET n == Len(s)
      from[i \in 1..(n + 3)] ==
        IF i > n THEN <<>>
        ELSE IF s[i].byte = "IAC"
             THEN from[i + (IF i < n /\ s[i + 1].byte \in Verbs THEN 3 ELSE 2)]
        ELSE IF ~s[i].kept THEN from[i + 1]
        ELSE <<s[i].byte>> \o from[i + 1]
  IN from[1]

\* What programs got, followed by the line so far, is the text of the stream:
\* the commands are taken out wherever reads and programs interrupt them, and
\* no text is given twice when a program changes the mode, disconnects or
\* connects anew while it has the text.
InOrder == rid # 0 => given \o Line = Plain(eaten)

\* The peer and vt agree on who echoes, and neither an answer nor its
\* acknowledgement is answered again: DO and DONT alternate.
Said(o) == {i \in DOMAIN replies : replies[i].opt = o /\ replies[i].verb \in {"DO", "DONT"}}
LastSaid(o, verb) ==
  \E i \in Said(o) : replies[i].verb = verb /\ \A j \in Said(o) : j <= i
Negotiated ==
  /\ \A o \in {"ECHO", "EOR"} : \A i, j \in Said(o) :
       i < j /\ replies[i].verb = replies[j].verb => \E k \in Said(o) : i < k /\ k < j
  /\ rid # 0 => (~Recho <=> LastSaid("ECHO", "DO"))

\* A program that asks input_waiting() about the remote hears of text that
\* was read already.
Announced == rid # 0 /\ fn \in Sites /\ Rest # <<>> => Rinbuf

\* Text that was read for a remote that wants it is processed, after a break
\* too ("Quarter-second max delay next cycle", main.c:117).  Not so: TLC refutes
\* it under FairSpec.
Delayed ==
  fn = "select" /\ Wanted /\ Rbuf # <<>> ~> Rbuf = <<>> \/ ~Wanted
=============================================================================

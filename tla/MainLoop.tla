------------------------------ MODULE MainLoop ------------------------------
(***************************************************************************)
(* main_loop() (main.c) and what it goes through in a cycle: the pending   *)
(* signals (signal.c), the console (console.c), the wait for input in      *)
(* io_check() (remote.c), the scan of the remotes in io_cycle(), the keys  *)
(* and one timer.                                                          *)
(*                                                                         *)
(* Signals come between any two steps.  Everywhere in a cycle programs     *)
(* run, and go to sleep, connect, disconnect and hide remotes, in the      *)
(* middle of a loop over the ring of remotes.  What is read and typed is a *)
(* flag here; RemoteInput and Keyboard follow it.                          *)
(***************************************************************************)
EXTENDS Integers, Sequences, FiniteSets, SequencesExt

CONSTANTS
  Nodes,        \* structures for remotes
  Null,
  Naps,         \* what programs give to sleep()
  MaxSlept,     \* bound: calls of sleep()
  MaxTime,      \* bound: the last second
  MaxConns,     \* bound: connections
  MaxPending,   \* bound: signals pending at once
  ClosingDoes,  \* what the programs that disconnect() runs do to other remotes:
                \* its hook, and those that wait for the remote
  FlushAny,     \* whether a program that takes a prompt may disconnect its remote
  SignalAtWork  \* whether a window changes while winresize() works

ASSUME MainLoopAssumption ==
  /\ Null \notin Nodes /\ IsFiniteSet(Nodes)
  /\ Naps \subseteq Int /\ MaxSlept \in Nat /\ MaxTime \in Nat /\ MaxConns \in Nat
  /\ MaxPending \in Nat /\ ClosingDoes \subseteq {"connect", "disconnect"}
  /\ FlushAny \in BOOLEAN /\ SignalAtWork \in BOOLEAN

VARIABLES
  break_pending, stop_pending, winresize_pending, console_pending,
  outdated,  \* whether rows and cols are not the size of the terminal any more
  events,    \* the queue of sleeping programs: [timer, nr]
  now,       \* time()
  slept,     \* calls of sleep() so far
  ring,      \* rmt_ring
  free,      \* recycle_ring, and then what malloc() gives
  dying,     \* unlinked, while break_pipe() runs programs: the last one is first
  id,        \* of each structure: the number of the connection, 0 if discarded
  Rfd,
  wanted,    \* (Rwin || Rback) && !Rbusy
  Rbuf,      \* whether text is not processed yet
  conns,     \* connections so far
  kin,       \* whether keys are read and not processed yet
  curs,      \* whether curs_loc is CURS_INPUT
  fn,        \* the step of the cycle, or "program" while one runs
  back,      \* then: where it goes on
  rp, next,  \* the remote that is looked at; the next one, as io_check() saved it
  rid,       \* its id, as process_remote_text() saved it
  readers,   \* files that select() found readable, and whose they were
  late       \* history: what was hidden from the scan that is in progress

pending == <<break_pending, stop_pending, winresize_pending, console_pending>>
signals == <<pending, outdated>>
timers == <<events, slept>>
remotes == <<ring, free, dying, id, Rfd, wanted, Rbuf, conns>>
scan == <<rp, next, rid, readers, late>>
vars == <<signals, timers, now, remotes, kin, curs, fn, back, scan>>

First == IF ring = <<>> THEN Null ELSE ring[1]
Place(r) == CHOOSE i \in DOMAIN ring : ring[i] = r
Linked(r) == r \in ToSet(ring)

\* r->next.  That of a discarded structure leads into the ring of those, which
\* has no dummy to stop at.
After(r) ==
  IF ~Linked(r) THEN r
  ELSE IF Place(r) = Len(ring) THEN Null ELSE ring[Place(r) + 1]

-----------------------------------------------------------------------------
(* Programs.                                                               *)

Program(from) == fn' = "program" /\ back' = from
Goes(to) == fn' = to /\ back' = "none"
Free == fn = "program" /\ ~break_pending

\* io_check() has closed a remote, and holds the next one.
Closing == back \in {"hooked", "broken"}

\* Mutant: sleeping programs of the same second wake up last come, first.
SlotBefore(timer) == Cardinality({i \in DOMAIN events : events[i].timer < timer})

\* pr_sleep(): the place in the queue.
Slot(timer) == Cardinality({i \in DOMAIN events : events[i].timer <= timer})

Sleep(n) ==
  /\ Free /\ slept < MaxSlept /\ now + n <= MaxTime
  /\ slept' = slept + 1
  /\ events' = InsertAt(events, Slot(now + n) + 1, [timer |-> now + n, nr |-> slept'])
  /\ UNCHANGED <<signals, now, remotes, kin, curs, fn, back, scan>>

\* create_rmt() after connect().
Connect(r, fd) ==
  /\ Free /\ (Closing => "connect" \in ClosingDoes)
  /\ conns < MaxConns /\ free # <<>> /\ r = Head(free)
  /\ fd \in 1..Cardinality(Nodes) /\ \A s \in ToSet(ring) : Rfd[s] # fd
  /\ \A f \in 1..fd-1 : \E s \in ToSet(ring) : Rfd[s] = f
  /\ conns' = conns + 1 /\ ring' = Append(ring, r) /\ free' = Tail(free)
  /\ id' = [id EXCEPT ![r] = conns'] /\ Rfd' = [Rfd EXCEPT ![r] = fd]
  /\ wanted' = [wanted EXCEPT ![r] = FALSE]
  /\ Rbuf' = [Rbuf EXCEPT ![r] = FALSE]
  /\ UNCHANGED <<signals, timers, now, dying, kin, curs, fn, back, scan>>

\* The scan has looked at it for the last time.
Passed(r) == Linked(rp) /\ (Place(r) < Place(rp) \/ (back = "flushed" /\ r = rp))

\* display(), background and busy change what io_check() and
\* process_remote_text() look at.
Want(r) ==
  /\ Free /\ Linked(r)
  /\ wanted' = [wanted EXCEPT ![r] = ~@]
  /\ late' = IF back \in {"processed", "flushed"} /\ Passed(r) THEN late \cup {r} ELSE late
  /\ UNCHANGED <<signals, timers, now, ring, free, dying, id, Rfd, Rbuf, conns,
                 kin, curs, fn, back, rp, next, rid, readers>>

\* disconnect(), after its hook and until break_pipe(): the socket is closed, and
\* the structure is in no ring.
Unlink(r) ==
  /\ ring' = RemoveAt(ring, Place(r)) /\ dying' = <<r>> \o dying
  /\ Rfd' = [Rfd EXCEPT ![r] = 0] /\ wanted' = [wanted EXCEPT ![r] = FALSE]
  /\ Rbuf' = [Rbuf EXCEPT ![r] = FALSE]
  /\ UNCHANGED <<free, id, conns>>

\* discard_unode(), after break_pipe().
Discarded ==
  /\ dying # <<>>
  /\ dying' = Tail(dying) /\ free' = <<Head(dying)>> \o free
  /\ id' = [id EXCEPT ![Head(dying)] = 0]
  /\ UNCHANGED <<ring, Rfd, wanted, Rbuf, conns>>

\* The hook and the programs that wait for r are part of the program that
\* disconnects it: what they do is done before and after this step.
Disconnect(r) ==
  /\ Free /\ Linked(r)
  /\ Closing => r # rp /\ "disconnect" \in ClosingDoes
  /\ back = "flushed" => r # rp \/ FlushAny
  /\ Unlink(r) /\ late' = late \ {r}
  /\ UNCHANGED <<signals, timers, now, kin, curs, fn, back, rp, next, rid, readers>>

\* What is not discarded yet of the remotes that the program disconnects.
Own == IF back = "broken" THEN Len(dying) - 1 ELSE Len(dying)

\* The end of one of its calls of disconnect().
Disconnected ==
  /\ fn = "program" /\ Own > 0 /\ Discarded
  /\ UNCHANGED <<signals, timers, now, kin, curs, fn, back, scan>>

ProgramEnd ==
  /\ fn = "program" /\ Own = 0 /\ Goes(back)
  /\ UNCHANGED <<signals, timers, now, remotes, kin, curs, scan>>

-----------------------------------------------------------------------------
(* Signals, and everything else that happens outside.                      *)

\* Unless select() is interrupted, which io_check() takes for a timeout.
Interrupts == IF fn = "select" THEN Goes("idle") ELSE UNCHANGED <<fn, back>>

Signal ==
  /\ Cardinality({i \in DOMAIN pending : pending[i]}) < MaxPending
  /\ Interrupts
  /\ UNCHANGED <<timers, now, remotes, kin, curs, scan>>

Working == fn = "resized" \/ (fn = "program" /\ back = "resized")

\* What comes while nothing looks at its flag may as well come later.  The other
\* two flags are tested like this one; they are set in fewer places.
Looked == Working \/ fn \in {"resize", "console", "select"}

\* sigwinch_handler().
Winch ==
  /\ Signal /\ Looked /\ (Working => SignalAtWork)
  /\ outdated' = TRUE /\ winresize_pending' = TRUE
  /\ UNCHANGED <<break_pending, stop_pending, console_pending>>

\* sigtstp_handler().
Tstp ==
  /\ Signal /\ fn \in {"select", "stopped"} /\ stop_pending' = TRUE
  /\ UNCHANGED <<outdated, break_pending, winresize_pending, console_pending>>

\* sigint_handler(), when the user answers Break or Console.  With the other
\* answers nothing changes here, or there is nothing any more.
Break ==
  /\ Signal /\ break_pending' = TRUE
  /\ UNCHANGED <<outdated, stop_pending, winresize_pending, console_pending>>
AskConsole ==
  /\ Signal /\ fn \in {"select", "menu"} /\ console_pending' = (fn # "menu")
  /\ UNCHANGED <<outdated, break_pending, stop_pending, winresize_pending>>

Tick ==
  /\ now < MaxTime
  /\ now' = now + 1
  /\ UNCHANGED <<signals, timers, remotes, kin, curs, fn, back, scan>>

-----------------------------------------------------------------------------
(* main_loop(), from its top.                                              *)

\* Mutant: what has come since is forgotten with it.
TopClears ==
  /\ fn = "top" /\ Goes("stop") /\ break_pending' = FALSE /\ winresize_pending' = FALSE
  /\ UNCHANGED <<outdated, stop_pending, console_pending, timers, now, remotes, kin, curs, scan>>

\* break_pending = 0.
Top ==
  /\ fn = "top" /\ Goes("stop") /\ break_pending' = FALSE
  /\ UNCHANGED <<outdated, stop_pending, winresize_pending, console_pending, timers, now,
                 remotes, kin, curs, scan>>

\* if (stop_pending) stop(): the process stops and goes on, auto_redraw() runs
\* redraw_hook, and
Stop ==
  /\ fn = "stop" /\ IF stop_pending THEN Program("stopped") ELSE Goes("resize")
  /\ UNCHANGED <<signals, timers, now, remotes, kin, curs, scan>>

\* stop_pending = 0.
Stopped ==
  /\ fn = "stopped" /\ Goes("resize") /\ stop_pending' = FALSE
  /\ UNCHANGED <<outdated, break_pending, winresize_pending, console_pending, timers, now,
                 remotes, kin, curs, scan>>

\* if (winresize_pending) winresize(): resize_screen() ends with auto_redraw(),
\* which runs redraw_hook.
Resize ==
  /\ fn = "resize"
  /\ IF winresize_pending THEN outdated' = FALSE /\ Program("resized")
     ELSE Goes("console") /\ UNCHANGED outdated
  /\ UNCHANGED <<pending, timers, now, remotes, kin, curs, scan>>

\* winresize_pending = 0.
Resized ==
  /\ fn = "resized" /\ Goes("console") /\ winresize_pending' = FALSE
  /\ UNCHANGED <<outdated, break_pending, stop_pending, console_pending, timers, now,
                 remotes, kin, curs, scan>>

\* if (console_pending) console().
Console ==
  /\ fn = "console" /\ console_pending' = FALSE
  /\ Goes(IF console_pending THEN "menu" ELSE "select")
  /\ UNCHANGED <<outdated, break_pending, stop_pending, winresize_pending, timers, now,
                 remotes, kin, curs, scan>>

\* del_estate(&events).
DelEstate(i) ==
  /\ fn = "menu" /\ i \in DOMAIN events
  /\ events' = RemoveAt(events, i)
  /\ UNCHANGED <<signals, slept, now, remotes, kin, curs, fn, back, scan>>

Quit ==
  /\ fn = "menu" /\ Goes("select")
  /\ UNCHANGED <<signals, timers, now, remotes, kin, curs, scan>>

-----------------------------------------------------------------------------
(* io_check().                                                             *)

\* The set of files is made from the ring; 0 is the keyboard.
Files == {<<0, 0>>} \cup {<<Rfd[r], id[r]>> : r \in {s \in ToSet(ring) : wanted[s]}}

\* select() returns some of them.
Select(files) ==
  /\ fn = "select" /\ files # {} /\ Goes("check")
  /\ readers' = files /\ rp' = First
  /\ UNCHANGED <<signals, timers, now, remotes, kin, curs, next, rid, late>>

\* Mutant: a sleeping program does not end the wait.
DueNever == ~curs

\* It waits for a quarter of a second when the cursor is elsewhere, and at most
\* until the second before the first timer and a quarter.
Due == ~curs \/ (events # <<>> /\ events[1].timer - 1 <= now)

\* io_check() returns 0, and curs_input() is called.
Timeout ==
  /\ fn = "select" /\ Due /\ Goes("idle")
  /\ UNCHANGED <<signals, timers, now, remotes, kin, curs, scan>>
Idle ==
  /\ fn = "idle" /\ curs' = TRUE /\ Goes("timer")
  /\ UNCHANGED <<signals, timers, now, remotes, kin, scan>>

Looks(r) == wanted[r] /\ \E f \in readers : f[1] = Rfd[r]

\* receive_input() gets some text,
Receive ==
  /\ fn = "check" /\ rp # Null /\ Looks(rp)
  /\ Rbuf' = [Rbuf EXCEPT ![rp] = TRUE] /\ rp' = After(rp)
  /\ UNCHANGED <<signals, timers, now, ring, free, dying, id, Rfd, wanted, conns, kin,
                 curs, fn, back, next, rid, readers, late>>

\* or the end, and a hook may run first.
Closed ==
  /\ fn = "check" /\ rp # Null /\ Looks(rp)
  /\ next' = After(rp) /\ Program("hooked")
  /\ UNCHANGED <<signals, timers, now, remotes, kin, curs, rp, rid, readers, late>>

\* disconnect() after the hook: break_pipe() runs the programs that wait for rp.
Hooked ==
  /\ fn = "hooked" /\ Program("broken") /\ Unlink(rp)
  /\ UNCHANGED <<signals, timers, now, kin, curs, scan>>

\* Mutant: the loop takes rp->next after it.
BrokenNext ==
  /\ fn = "broken" /\ Goes("check")
  /\ Discarded /\ rp' = rp
  /\ UNCHANGED <<signals, timers, now, kin, curs, next, rid, readers, late>>

\* It discards rp, and the loop goes on with what it saved.
Broken ==
  /\ fn = "broken" /\ Goes("check")
  /\ Discarded /\ rp' = next /\ next' = Null
  /\ UNCHANGED <<signals, timers, now, kin, curs, rid, readers, late>>

Skip ==
  /\ fn = "check" /\ rp # Null /\ ~Looks(rp)
  /\ rp' = After(rp)
  /\ UNCHANGED <<signals, timers, now, remotes, kin, curs, fn, back, next, rid,
                 readers, late>>

\* The keyboard, after the remotes.  io_check() returns 1.
Checked ==
  /\ fn = "check" /\ rp = Null /\ Goes("ready")
  /\ kin' = (kin \/ <<0, 0>> \in readers)
  /\ readers' = {}
  /\ UNCHANGED <<signals, timers, now, remotes, curs, rp, next, rid, late>>

\* After a break everything waits for the next input.
Ready ==
  /\ fn = "ready"
  /\ IF break_pending THEN curs' = FALSE /\ Goes("top") /\ UNCHANGED <<rp, late>>
     ELSE rp' = First /\ UNCHANGED late /\ Goes("cycle") /\ UNCHANGED curs
  /\ UNCHANGED <<signals, timers, now, remotes, kin, next, rid, readers>>

-----------------------------------------------------------------------------
(* io_cycle(), the keys and the timer.                                     *)

\* process_remote_text(): some of the text goes to a program, or a window.
Process ==
  /\ fn = "cycle" /\ rp # Null /\ Rbuf[rp] /\ wanted[rp]
  /\ rid' = id[rp] /\ Program("processed")
  /\ UNCHANGED <<signals, timers, now, remotes, kin, curs, rp, next, readers, late>>

\* Mutant: as if one call of io_cycle() were enough.
ProcessedOnce ==
  /\ fn = "processed" /\ Goes("cycle") /\ rid' = 0
  /\ IF id[rp] # rid THEN rp' = Null /\ UNCHANGED Rbuf
     ELSE Rbuf' = [Rbuf EXCEPT ![rp] = FALSE] /\ UNCHANGED rp
  /\ UNCHANGED <<signals, timers, now, ring, free, dying, id, Rfd, wanted, conns,
                 kin, curs, next, readers, late>>

\* Text is left only if nobody wants it any more: one program stands for those
\* that take all the lines.
Rest == \E left \in BOOLEAN :
  /\ left => ~wanted[rp]
  /\ Rbuf' = [Rbuf EXCEPT ![rp] = left]

\* The remote has gone: io_cycle() returns 0, and is called again.
Processed ==
  /\ fn = "processed" /\ Goes("cycle") /\ rid' = 0
  /\ IF id[rp] # rid THEN rp' = First /\ late' = {} /\ UNCHANGED Rbuf
     ELSE Rest /\ UNCHANGED <<rp, late>>
  /\ UNCHANGED <<signals, timers, now, ring, free, dying, id, Rfd, wanted, conns,
                 kin, curs, next, readers>>

\* The end of the text, or of the interest in it: a prompt may go to a program.
Flush ==
  /\ fn = "cycle" /\ rp # Null /\ ~(Rbuf[rp] /\ wanted[rp])
  /\ Goes("flushed") \/ Program("flushed")
  /\ UNCHANGED <<signals, timers, now, remotes, kin, curs, scan>>

Flushed ==
  /\ fn = "flushed" /\ Goes("cycle") /\ rp' = After(rp)
  /\ UNCHANGED <<signals, timers, now, remotes, kin, curs, next, rid, readers, late>>

\* if (kin.c.l) process_incoming().
Cycled ==
  /\ fn = "cycle" /\ rp = Null
  /\ kin' = FALSE /\ IF kin THEN Program("timer") ELSE Goes("timer")
  /\ late' = {}
  /\ UNCHANGED <<signals, timers, now, remotes, curs, rp, next, rid, readers>>

Reached == events # <<>> /\ events[1].timer <= now

\* resume(&events, &df): one program, if it is time.
Timer ==
  /\ fn = "timer"
  /\ IF Reached /\ ~break_pending THEN events' = Tail(events) /\ Program("top")
     ELSE Goes("top") /\ UNCHANGED events
  /\ UNCHANGED <<signals, slept, now, remotes, kin, curs, scan>>

-----------------------------------------------------------------------------
\* load_startup_file() runs programs before the loop begins.
Init ==
  /\ break_pending = FALSE /\ stop_pending = FALSE
  /\ winresize_pending = FALSE /\ console_pending = FALSE
  /\ outdated = FALSE
  /\ events = <<>> /\ now = 0 /\ slept = 0
  /\ ring = <<>> /\ free = SetToSeq(Nodes) /\ dying = <<>>
  /\ id = [r \in Nodes |-> 0] /\ Rfd = [r \in Nodes |-> 0]
  /\ wanted = [r \in Nodes |-> FALSE]
  /\ Rbuf = [r \in Nodes |-> FALSE] /\ conns = 0
  /\ kin = FALSE /\ curs = FALSE
  /\ fn = "program" /\ back = "top"
  /\ rp = Null /\ next = Null /\ rid = 0 /\ readers = {} /\ late = {}

ProgramDoes ==
  \/ \E n \in Naps : Sleep(n)
  \/ \E r \in Nodes : Disconnect(r) \/ Want(r) \/ \E fd \in 1..Cardinality(Nodes) : Connect(r, fd)

Outside ==
  Winch \/ Tstp \/ Break \/ AskConsole \/ Tick \/ \E files \in SUBSET Files : Select(files)

\* What the loop does by itself.
Loop ==
  \/ Disconnected \/ ProgramEnd \/ Top \/ Stop \/ Stopped \/ Resize \/ Resized \/ Console \/ Quit
  \/ Timeout \/ Idle \/ Receive \/ Closed \/ Hooked \/ Broken \/ Skip \/ Checked \/ Ready
  \/ Process \/ Processed \/ Flush \/ Flushed \/ Cycled \/ Timer

Next == Loop \/ ProgramDoes \/ Outside \/ \E i \in DOMAIN events : DelEstate(i)
Spec == Init /\ [][Next]_vars

\* The loop does not stop by itself, programs and the console's menu come to an
\* end, and time goes on.
FairSpec == Spec /\ WF_vars(Loop) /\ WF_vars(Tick)

-----------------------------------------------------------------------------
Steps == {"program", "top", "stop", "stopped", "resize", "resized", "console", "menu", "select",
          "idle", "check", "hooked", "broken", "ready", "cycle", "processed", "flushed", "timer"}

TypeOK ==
  /\ {break_pending, stop_pending, winresize_pending, console_pending, outdated,
      kin, curs} \subseteq BOOLEAN
  /\ \A i \in DOMAIN events : events[i].nr \in 1..slept /\ events[i].timer <= MaxTime
  /\ now \in 0..MaxTime /\ slept \in 0..MaxSlept
  /\ IsInjective(ring) /\ IsInjective(dying) /\ IsInjective(free)
  /\ Nodes = ToSet(ring) \cup ToSet(dying) \cup ToSet(free)
  /\ ToSet(ring) \cap ToSet(dying) = {} /\ ToSet(free) \cap (ToSet(ring) \cup ToSet(dying)) = {}
  /\ \A r \in Nodes : id[r] = 0 <=> r \in ToSet(free)
  /\ \A r, s \in ToSet(ring) : r # s => Rfd[r] # Rfd[s]
  /\ wanted \in [Nodes -> BOOLEAN] /\ Rbuf \in [Nodes -> BOOLEAN]
  /\ conns \in 0..MaxConns /\ fn \in Steps /\ back \in Steps \cup {"none"}
  /\ rp \in Nodes \cup {Null} /\ next \in Nodes \cup {Null} /\ late \subseteq Nodes

\* Neither of the two loops over the remotes ever stands on a structure that is
\* discarded, whatever programs disconnect in between (but those that
\* disconnect() runs for io_check() itself: ClosingDoes), and io_check() reads
\* only from a socket that select() has found readable (remote.c:269, main.c:138).
ScanKnown ==
  /\ TypeOK
  /\ fn \in {"check", "cycle"} =>
    \/ rp = Null
    \/ Linked(rp) /\ (fn = "check" /\ Looks(rp) => <<Rfd[rp], id[rp]>> \in readers)

\* When io_cycle() returns 1, no text waits that somebody wants, except of
\* remotes that became wanted after the scan had passed them (main.c:121,
\* remote.c:327).
NoneSkipped ==
  fn = "cycle" /\ rp = Null =>
    \A r \in ToSet(ring) : Rbuf[r] /\ wanted[r] => r \in late

\* A program is resumed by its timer when that is over, and before those that
\* sleep longer, or went to sleep later for the same second (prmt4.c:297,
\* main.c:128).
Woken(e) == fn = "timer" /\ \E i \in DOMAIN events : events[i] = e /\ e \notin ToSet(events')
WakesInTurn ==
  [][\A e \in ToSet(events) : Woken(e) =>
       /\ e.timer <= now
       /\ \A f \in ToSet(events') :
            e.timer < f.timer \/ (e.timer = f.timer /\ e.nr < f.nr)]_vars

\* A program that sleeps wakes up, or is deleted at the console, also when
\* nothing else ever happens, unless the user breaks again and again (main.c:106).
Asleep(n) == \E i \in DOMAIN events : events[i].nr = n
AllWake == <>[]~break_pending => \A n \in 1..MaxSlept : Asleep(n) ~> ~Asleep(n)

\* As long as the wait for input keeps ending, the windows come to have the
\* size of the terminal (signal.c:89, main.c:102).
SizeFollows == []<>(fn \in {"idle", "ready"}) => (outdated ~> ~outdated)
=============================================================================

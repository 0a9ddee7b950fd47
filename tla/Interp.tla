------------------------------- MODULE Interp -------------------------------
(***************************************************************************)
(* The VTC interpreter of interp.c with the primitives that nest,          *)
(* suspend and resume programs (prmt1.c, prmt2.c, prmt4.c).                *)
(*                                                                         *)
(* All VTC programs share one data stack and one call stack.  A primitive  *)
(* is a C function: while it runs, it may start other programs on top of   *)
(* the one that called it (hooks, key bindings, resumed programs), each of *)
(* which runs until it finishes, is aborted, or suspends itself.           *)
(* Suspension cuts the program's part out of both stacks into an Estate    *)
(* on a queue; resumption pastes it back, at other positions.              *)
(*                                                                         *)
(* What a cell holds is abstract: a member of Value, or Null for F_NULL.   *)
(* The positions in both stacks, the sizes allocated, and what the code    *)
(* generator of vtc.y relies on ("want") are exact.                        *)
(***************************************************************************)
EXTENDS Integers, Sequences, FiniteSets

CONSTANTS
  Value,        \* abstract contents of a data frame other than F_NULL
  Null,         \* a data frame of type F_NULL (or an exception marker)
  Progs,        \* compiled programs: their avarc, lvarc and reqargs
  InitSize,     \* INIT_SIZE: 64 in the code
  MaxArgs,      \* bound: arguments of one call
  MaxDpos,      \* bound: cells in use on the data stack
  MaxCpos,      \* bound: frames in use on the call stack
  MaxSuspended, \* bound: programs suspended at a time
  Execs,        \* bound: {FALSE}, {TRUE} or both: primitives called by I_EXEC
  ReadQueues,   \* gen_read, Wrstack and Rrstack lists: read() and reread()
  KeyQueues,    \* gen_high, gen_low, Wghstack and Wglstack lists: getch()
  Events,       \* the list sorted by timer that sleep() inserts in
  Nodes         \* a window or remote: the sequence of its own queues

Queues == ReadQueues \cup KeyQueues \cup {Events}
Cell == Value \cup {Null}

\* vtc.y bounds the parameters and the locals of a program (MAX_TAGS, 32 of
\* each), so that the variables of one program fit the initial stack.
ASSUME SizesAssumption ==
  /\ InitSize \in Nat \ {0} /\ MaxArgs \in Nat
  /\ MaxDpos \in Nat /\ MaxCpos \in Nat /\ MaxSuspended \in Nat
  /\ Execs \subseteq BOOLEAN
  /\ MaxArgs <= InitSize
ASSUME ProgsAssumption ==
  \A p \in Progs : /\ p \in [avarc : Nat, lvarc : Nat, reqargs : Nat]
                   /\ p.avarc + p.lvarc <= InitSize
                   /\ p.reqargs <= p.avarc
ASSUME NodesAssumption == Nodes \subseteq Seq(ReadQueues \cup KeyQueues)

VARIABLES
  dstack,   \* the data stack in use: dpos is its length
  dsize,    \* cells allocated for it
  cstack,   \* the call stack in use: cpos is its length
  csize,    \* frames allocated for it
  queue,    \* the lists of suspended programs that double_dstack() walks
  pipes,    \* lists break_pipe() is resuming, by value: in no queue any more
  brk       \* break_pending

vars == <<dstack, dsize, cstack, csize, queue, pipes, brk>>

-----------------------------------------------------------------------------
(* Call frames, suspended programs and stack growth.                       *)

\* What the C function called by a frame's current instruction is doing:
\* nothing (the frame runs VTC code), a primitive, or pr_detach(), which
\* waits for the one program it started.
Prim == {pr \in [kind : {"none", "prim", "detach"}, argc : Nat, exec : BOOLEAN] :
           pr.kind = "detach" => pr.argc = 1}
NoPrim == [kind |-> "none", argc |-> 0, exec |-> FALSE]

\* dstart: the cell below the frame's first; nv: variables (arguments, then
\* locals); vals: where avars->vals points, live: into the current stack;
\* want: operands the compiled code counts on above the variables.
Frame == [dstart : Nat, nv : Nat, vals : Nat, live : BOOLEAN,
          attached : BOOLEAN, want : Nat, prim : Prim]

Estate == [data : Seq(Cell), frames : Seq(Frame)]

dpos == Len(dstack)
cpos == Len(cstack)
Ctop == cstack[cpos]
Take(s, n) == SubSeq(s, 1, n)
Nulls(n) == [i \in 1..n |-> Null]
Larger(a, b) == IF a > b THEN a ELSE b

\* Mutant: the stack is extended one cell late.
FitLate(size, need) == IF need > size + 1 THEN 2 * size ELSE size

\* Dextend, Dextendn: by SizesAssumption one doubling is enough.
Fit(size, need) == IF need > size THEN 2 * size ELSE size

\* double_dstack() leaves the variable pointers of these programs behind.
Forget(es) == [es EXCEPT !.frames =
                 [i \in DOMAIN es.frames |-> [es.frames[i] EXCEPT !.live = FALSE]]]
ForgetAll(list) == [i \in DOMAIN list |-> Forget(list[i])]

\* double_dstack(): the frames on the call stack and in the queues follow
\* the stack; those break_pipe() still holds do not.
Left(ps, newsize) ==
  IF newsize = dsize THEN ps
  ELSE [i \in DOMAIN ps |-> [ps[i] EXCEPT !.lists = [j \in DOMAIN ps[i].lists |-> ForgetAll(ps[i].lists[j])]]]
Double(newsize) == dsize' = newsize /\ pipes' = Left(pipes, newsize)

\* Mutant: unwinding does not stop at the innermost program.
BaseBottom == 1

\* The highest detached frame: the first frame of the innermost program.
Base == CHOOSE k \in 1..cpos :
          /\ ~cstack[k].attached
          /\ \A j \in (k + 1)..cpos : cstack[j].attached

\* break_pipe() is between two resumptions: its caller has the control.
Breaking == pipes # <<>> /\ pipes[Len(pipes)].at = cpos

\* interp() is about to execute an instruction of Ctop.
Running == cpos > 0 /\ Ctop.prim.kind = "none"
\* Mutant: break_pending is not tested.
StepAnyway == Running
\* break_pending is not set: the instruction is executed.
Step == Running /\ ~brk

\* C code is running: the main level, or a primitive called by Ctop.
MainLevel == cpos = 0 /\ ~Breaking
InPrim == cpos > 0 /\ ~Breaking /\ Ctop.prim.kind = "prim"
InC == MainLevel \/ InPrim

\* The call stack with other contents in its top frame.
Retop(w, pr) == [cstack EXCEPT ![cpos].want = w, ![cpos].prim = pr]
Want(w) == Retop(w, Ctop.prim)

\* The operands an instruction takes: argc arguments, and the function
\* pointer below them when the callee comes from the stack (I_EXEC).
Taken(argc, exec) == argc + (IF exec THEN 1 ELSE 0)

\* cpush(): d is the data stack with the arguments on top, already fitted in
\* size; cs is the call stack; the new frame starts argc + progress below.
Cpush(d, size, cs, prog, argc, attached, progress) ==
  LET alloc == Larger(argc, prog.avarc)
      n == prog.lvarc + alloc - argc
      start == Len(d) - argc - progress
  IN /\ Len(d) + n <= MaxDpos
     /\ Len(cs) < MaxCpos
     /\ dstack' = d \o Nulls(n)
     /\ Double(Fit(size, Len(d) + n))
     /\ csize' = IF Len(cs) = csize THEN 2 * csize ELSE csize
     /\ cstack' = Append(cs, [dstart |-> start, nv |-> prog.lvarc + alloc,
                              vals |-> start, live |-> TRUE,
                              attached |-> attached, want |-> progress,
                              prim |-> NoPrim])

\* prog_pcall(): a program whose code is one primitive call.  The operands
\* are already there ("progress"): it has no variables.
PcallProg == [avarc |-> 0, lvarc |-> 0, reqargs |-> 0]

\* A callee: a function with at least its required arguments, or a primitive.
Callee(argc, attached, d, size, cs) ==
  \/ \E p \in Progs : p.reqargs <= argc /\ Cpush(d, size, cs, p, argc, attached, 0)
  \/ Cpush(d, size, cs, PcallProg, 0, attached, argc)

-----------------------------------------------------------------------------
(* interp(): VTC instructions.                                             *)

\* I_ICONST, I_SCONST, I_AVAR, I_DUP...: one operand more.
Push(v) ==
  /\ Step /\ dpos < MaxDpos
  /\ dstack' = Append(dstack, v)
  /\ Double(Fit(dsize, dpos + 1))
  /\ cstack' = Want(Ctop.want + 1)
  /\ UNCHANGED <<csize, queue, brk>>

\* I_POP, I_JMPF, I_JMPT and the failing I_JMPPF, I_JMPPT.
Pop ==
  /\ Step /\ Ctop.want > 0
  /\ dstack' = Take(dstack, dpos - 1)
  /\ cstack' = Want(Ctop.want - 1)
  /\ UNCHANGED <<dsize, csize, queue, pipes, brk>>

\* I_EVAL, I_CVTB: the top operand is replaced.
Eval(v) ==
  /\ Step /\ Ctop.want > 0
  /\ dstack' = [dstack EXCEPT ![dpos] = v]
  /\ UNCHANGED <<dsize, cstack, csize, queue, pipes, brk>>

\* op_asn() on the i-th variable of the running program: pointer and value
\* are replaced by the value.  When the pointer was left behind by
\* double_dstack() the store goes to the old, freed stack.
Assign(i) ==
  /\ Step /\ Ctop.want >= 2 /\ i \in 1..Ctop.nv
  /\ LET rest == Take(dstack, dpos - 2)
         stored == IF Ctop.live THEN [rest EXCEPT ![Ctop.vals + i] = dstack[dpos]]
                   ELSE rest
     IN dstack' = Append(stored, dstack[dpos])
  /\ cstack' = Want(Ctop.want - 1)
  /\ UNCHANGED <<dsize, csize, queue, pipes, brk>>

\* I_FCALL: the arguments become variables of the callee.
Fcall(prog, argc) ==
  /\ Step /\ Ctop.want >= argc /\ argc >= prog.reqargs
  /\ Cpush(dstack, dsize, Want(Ctop.want - argc), prog, argc, TRUE, 0)
  /\ UNCHANGED <<queue, brk>>

\* I_EXEC on an F_FPTR: the arguments slide down over the pointer first.
ExecFunc(prog, argc) ==
  /\ Step /\ Ctop.want >= argc + 1 /\ argc >= prog.reqargs
  /\ LET d == Take(dstack, dpos - argc - 1) \o SubSeq(dstack, dpos - argc + 1, dpos)
     IN Cpush(d, dsize, Want(Ctop.want - argc - 1), prog, argc, TRUE, 0)
  /\ UNCHANGED <<queue, brk>>

\* Mutant: one cell too many goes with a program.
StopShort ==
  /\ Step /\ Ctop.want > 0
  /\ IF Ctop.attached
     THEN /\ dstack' = Append(Take(dstack, Ctop.dstart), dstack[dpos])
          /\ cstack' = [Take(cstack, cpos - 1) EXCEPT ![cpos - 1].want = @ + 1]
     ELSE /\ dstack' = Take(dstack, Ctop.dstart - 1)
          /\ cstack' = Take(cstack, cpos - 1)
  /\ UNCHANGED <<dsize, csize, queue, pipes, brk>>

\* I_STOP: cpop_normal().  An attached frame leaves its result to its caller;
\* after a detached one interp() pops the result and returns to C.
Stop ==
  /\ Step /\ Ctop.want > 0
  /\ IF Ctop.attached
     THEN /\ dstack' = Append(Take(dstack, Ctop.dstart), dstack[dpos])
          /\ cstack' = [Take(cstack, cpos - 1) EXCEPT ![cpos - 1].want = @ + 1]
     ELSE /\ dstack' = Take(dstack, Ctop.dstart)
          /\ cstack' = Take(cstack, cpos - 1)
  /\ UNCHANGED <<dsize, csize, queue, pipes, brk>>

\* abort_interp(): every frame of the innermost program goes, with its data.
Abort ==
  /\ dstack' = Take(dstack, cstack[Base].dstart)
  /\ cstack' = Take(cstack, Base - 1)
  /\ UNCHANGED <<dsize, csize, queue, pipes, brk>>

\* break_pending is tested before every instruction.
BreakAbort == Running /\ brk /\ Abort

\* Ierror(): an instruction fails.
Error == Step /\ Abort

-----------------------------------------------------------------------------
(* pcall(): primitives.                                                    *)

\* pcall() up to the call of the C function.  With I_EXEC the cell of the
\* function pointer becomes the place of the result, and is nulled.
PrimBegin(argc, exec) ==
  /\ Step /\ Ctop.want >= Taken(argc, exec)
  /\ exec \/ dpos - argc < MaxDpos
  /\ dstack' = IF exec THEN [dstack EXCEPT ![dpos - argc] = Null] ELSE dstack
  /\ cstack' = Retop(Ctop.want, [kind |-> "prim", argc |-> argc, exec |-> exec])
  /\ UNCHANGED <<dsize, csize, queue, pipes, brk>>

\* The C function returns: the arguments go, the result comes.  A result
\* that I_EXEC directs to a cell of a stack replaced meanwhile is lost, which
\* leaves the Null of PrimBegin.
PrimEnd(v) ==
  /\ InPrim
  /\ LET argc == Ctop.prim.argc
         d == Take(dstack, dpos - argc)
     IN IF Ctop.prim.exec
        THEN /\ dstack' = [d EXCEPT ![dpos - argc] = v]
             /\ cstack' = Retop(Ctop.want - argc, NoPrim)
             /\ UNCHANGED <<dsize, pipes>>
        ELSE /\ dstack' = Append(d, v)
             /\ cstack' = Retop(Ctop.want - argc + 1, NoPrim)
             /\ Double(Fit(dsize, dpos - argc + 1))
  /\ UNCHANGED <<csize, queue, brk>>

\* The C function fails (INTERP_ERROR).
PrimError == InPrim /\ Abort

\* pr_callv(): the arguments are replaced by those it describes, and the
\* callee's frame is pushed for interp() to continue in (INTERP_NOFREE).
Callv(argc, exec, args) ==
  /\ Step /\ argc >= 1 /\ Ctop.want >= Taken(argc, exec)
  /\ dpos - argc + Len(args) <= MaxDpos
  /\ LET low == Take(dstack, dpos - argc)
         base == IF exec THEN [low EXCEPT ![dpos - argc] = Null] ELSE low
         d == base \o args
     IN Callee(Len(args), TRUE, d, Fit(dsize, Len(d)),
               Want(Ctop.want - Taken(argc, exec)))
  /\ UNCHANGED <<queue, brk>>

\* pr_detach(): the arguments after the function become those of a program
\* of its own, which an interp() of its own runs.
Detach(argc, exec) ==
  /\ Step /\ argc >= 1 /\ Ctop.want >= Taken(argc, exec)
  /\ LET d == IF exec THEN [dstack EXCEPT ![dpos - argc] = Null] ELSE dstack
         caller == Retop(Ctop.want - (argc - 1),
                         [kind |-> "detach", argc |-> 1, exec |-> exec])
     IN Callee(argc - 1, FALSE, d, dsize, caller)
  /\ UNCHANGED <<queue, brk>>

\* pr_detach() after interp(): the cell of the function becomes the result.
\* With I_EXEC the cell of the pointer to detach stays below it.
DetachEnd ==
  /\ cpos > 0 /\ Ctop.prim.kind = "detach"
  /\ dstack' = [dstack EXCEPT ![dpos] = Null]
  /\ cstack' = Retop(IF Ctop.prim.exec THEN Ctop.want - 1 ELSE Ctop.want, NoPrim)
  /\ UNCHANGED <<dsize, csize, queue, pipes, brk>>

-----------------------------------------------------------------------------
(* suspend(), resume() and break_pipe().                                   *)

\* Mutant: only the frame that calls the primitive is saved.
ImageTopOnly(argc, exec) ==
  [data |-> SubSeq(dstack, cstack[Base].dstart + 1, dpos - argc),
   frames |-> SubSeq(Want(Ctop.want - Taken(argc, exec)), cpos, cpos)]

\* suspend(): the frames of the innermost program and their cells, without
\* the arguments of the primitive.
Image(argc, exec) ==
  LET start == cstack[Base].dstart
      taken == Want(Ctop.want - Taken(argc, exec))
      low == IF exec THEN [dstack EXCEPT ![dpos - argc] = Null] ELSE dstack
  IN [data |-> SubSeq(low, start + 1, dpos - argc),
      frames |-> SubSeq(taken, Base, cpos)]

Insert(list, i, es) == Take(list, i) \o <<es>> \o SubSeq(list, i + 1, Len(list))

\* add_ioqueue() appends, pr_reread() puts in front, pr_sleep() sorts.
Places(q) == CASE q \in ReadQueues -> {0, Len(queue[q])}
               [] q = Events -> 0..Len(queue[q])
               [] OTHER -> {Len(queue[q])}

\* How many programs are suspended: only the bound reads it.
Suspended ==
  LET queued == UNION {{q} \X DOMAIN queue[q] : q \in Queues}
      piped == UNION {UNION {{<<k, i>>} \X DOMAIN pipes[k].lists[i] :
                               i \in DOMAIN pipes[k].lists} : k \in DOMAIN pipes}
  IN Cardinality(queued) + Cardinality(piped)

\* pr_read(), pr_reread(), pr_getch(), pr_sleep(): suspend and queue.
Suspend(q, argc, exec) ==
  /\ Step /\ Ctop.want >= Taken(argc, exec)
  /\ Suspended < MaxSuspended
  /\ \E i \in Places(q) :
       queue' = [queue EXCEPT ![q] = Insert(@, i, Image(argc, exec))]
  /\ dstack' = Take(dstack, cstack[Base].dstart)
  /\ cstack' = Take(cstack, Base - 1)
  /\ UNCHANGED <<dsize, csize, pipes, brk>>

\* The size resume() leaves before it pushes the value: it has taken the
\* program from its list already, so double_dstack() does not see it.
ResumeSize(es) == IF dpos + Len(es.data) >= dsize THEN 2 * dsize ELSE dsize

\* Mutants: resume() does not adjust the frames; nor their variable pointers.
PlacedUnmoved(es) ==
  [i \in DOMAIN es.frames |->
     [es.frames[i] EXCEPT !.want = IF i = Len(es.frames) THEN @ + 1 ELSE @]]
PlacedValsUnmoved(es) ==
  LET adjust == es.frames[1].dstart - dpos
  IN [i \in DOMAIN es.frames |->
        [es.frames[i] EXCEPT
           !.dstart = @ - adjust,
           !.live = @ /\ ResumeSize(es) = dsize,
           !.want = IF i = Len(es.frames) THEN @ + 1 ELSE @]]

\* The frames of es moved to the top of both stacks.
Placed(es) ==
  LET adjust == es.frames[1].dstart - dpos
  IN [i \in DOMAIN es.frames |->
        [es.frames[i] EXCEPT
           !.dstart = @ - adjust,
           !.vals = @ - adjust,
           !.live = @ /\ ResumeSize(es) = dsize,
           !.want = IF i = Len(es.frames) THEN @ + 1 ELSE @]]

\* resume(): v is the value read() and the others return; ps are the pipes
\* without es.
ResumeOne(es, v, ps) ==
  LET newsize == Fit(ResumeSize(es), dpos + Len(es.data) + 1) IN
  /\ dstack' = dstack \o Append(es.data, v)
  /\ dsize' = newsize
  /\ pipes' = Left(ps, newsize)
  /\ cstack' = cstack \o Placed(es)
  /\ csize' = IF cpos + Len(es.frames) >= csize THEN 2 * csize ELSE csize

\* The bounds on both stacks.
HasRoom(es) == /\ dpos + Len(es.data) < MaxDpos
               /\ cpos + Len(es.frames) <= MaxCpos

\* give_window(), give_remote(), process_incoming() and main_loop(): the head
\* of a queue is resumed.  Only main_loop() resumes from Events.
Resume(q, v) ==
  /\ InC /\ queue[q] # <<>>
  /\ q = Events => MainLevel /\ ~brk /\ v = Null
  /\ HasRoom(Head(queue[q]))
  /\ ResumeOne(Head(queue[q]), v, pipes)
  /\ queue' = [queue EXCEPT ![q] = Tail(@)]
  /\ UNCHANGED brk

\* Programs wait for node n.
Awaited(n) == \E i \in DOMAIN n : queue[n[i]] # <<>>
Emptied(n) == [q \in Queues |-> IF \E i \in DOMAIN n : n[i] = q THEN <<>> ELSE queue[q]]

\* disconnect(), close_window(): the node is out of its ring and its lists
\* are handed to break_pipe(), one after the other.
BreakPipe(n) ==
  /\ InC /\ Awaited(n)
  /\ \A i \in DOMAIN n : \A j \in DOMAIN queue[n[i]] : HasRoom(queue[n[i]][j])
  /\ pipes' = Append(pipes, [at |-> cpos, lists |-> [i \in 1..Len(n) |-> queue[n[i]]]])
  /\ queue' = Emptied(n)
  /\ UNCHANGED <<dstack, dsize, cstack, csize, brk>>

\* break_pipe(): the next program of the list gets a null value.
PipeNext ==
  /\ Breaking
  /\ LET top == Len(pipes)
         list == pipes[top].lists[1]
         rest == [pipes EXCEPT ![top].lists[1] = Tail(list)]
     IN list # <<>> /\ ResumeOne(Head(list), Null, rest)
  /\ UNCHANGED <<queue, brk>>

\* A list is empty: the next one, or back to the caller.
PipeEnd ==
  /\ Breaking
  /\ LET top == Len(pipes)
         lists == pipes[top].lists
     IN /\ lists[1] = <<>>
        /\ pipes' = IF Len(lists) = 1 THEN Take(pipes, top - 1)
                    ELSE [pipes EXCEPT ![top].lists = Tail(lists)]
  /\ UNCHANGED <<dstack, dsize, cstack, csize, queue, brk>>

\* destroy_pipe(): resize_screen() drops a window with what waits for it.
DestroyPipe(n) ==
  /\ MainLevel /\ Awaited(n)
  /\ queue' = Emptied(n)
  /\ UNCHANGED <<dstack, dsize, cstack, csize, pipes, brk>>

\* discard_estate(): the console deletes the i-th program of a queue.
DiscardEstate(q, i) ==
  /\ MainLevel /\ i \in DOMAIN queue[q]
  /\ queue' = [queue EXCEPT ![q] = Take(@, i - 1) \o SubSeq(@, i + 1, Len(@))]
  /\ UNCHANGED <<dstack, dsize, cstack, csize, pipes, brk>>

-----------------------------------------------------------------------------
(* C code that starts programs, and the break signal.                      *)

\* run_prog(): key bindings, hooks, parse() and load().
RunProg(prog) ==
  /\ InC /\ prog.reqargs = 0
  /\ Cpush(dstack, dsize, cstack, prog, 0, FALSE, 0)
  /\ UNCHANGED <<queue, brk>>

\* run_prog_istr(): netread, promptread and termread functions get the text.
RunProgIstr(prog, v) ==
  /\ InC /\ prog.reqargs <= 1 /\ dpos < MaxDpos
  /\ Cpush(Append(dstack, v), Fit(dsize, dpos + 1), cstack, prog, 1, FALSE, 0)
  /\ UNCHANGED <<queue, brk>>

\* sigint_handler(), the answer being Break.
SigBreak ==
  /\ ~brk /\ brk' = TRUE
  /\ UNCHANGED <<dstack, dsize, cstack, csize, queue, pipes>>

\* main_loop() comes round.
MainTop ==
  /\ MainLevel /\ brk /\ brk' = FALSE
  /\ UNCHANGED <<dstack, dsize, cstack, csize, queue, pipes>>

Init ==
  /\ dstack = <<>> /\ dsize = InitSize
  /\ cstack = <<>> /\ csize = InitSize
  /\ queue = [q \in Queues |-> <<>>]
  /\ pipes = <<>> /\ brk = FALSE

Argc == 0..MaxArgs
Args == UNION {[1..n -> Cell] : n \in Argc}

Instruction ==
  \/ \E v \in Cell : Push(v) \/ Eval(v)
  \/ Pop \/ Stop \/ Error
  \/ cpos > 0 /\ \E i \in 1..Ctop.nv : Assign(i)
  \/ \E p \in Progs, argc \in Argc : Fcall(p, argc) \/ ExecFunc(p, argc)
  \/ \E argc \in Argc, exec \in Execs :
       \/ PrimBegin(argc, exec)
       \/ \E args \in Args : Callv(argc, exec, args)
       \/ Detach(argc, exec)
       \/ \E q \in Queues : Suspend(q, argc, exec)

CCode ==
  \/ \E v \in Cell : PrimEnd(v) \/ (\E q \in Queues : Resume(q, v))
  \/ PrimError \/ DetachEnd
  \/ \E n \in Nodes : BreakPipe(n) \/ DestroyPipe(n)
  \/ PipeNext \/ PipeEnd
  \/ \E q \in Queues, i \in 1..MaxSuspended : DiscardEstate(q, i)
  \/ \E p \in Progs : RunProg(p) \/ (\E v \in Cell : RunProgIstr(p, v))
  \/ MainTop

Next == Instruction \/ BreakAbort \/ CCode \/ SigBreak

Spec == Init /\ [][Next]_vars

\* A primitive returns, break_pipe() goes through a finite list, and
\* main_loop() comes round, whatever programs they start and however often;
\* interp() tests break_pending before each instruction.
Fairness ==
  /\ WF_vars(BreakAbort)
  /\ SF_vars(\E v \in Cell : PrimEnd(v)) /\ WF_vars(DetachEnd)
  /\ WF_vars(PipeNext) /\ WF_vars(PipeEnd)
  /\ SF_vars(MainTop)

FairSpec == Spec /\ Fairness

-----------------------------------------------------------------------------
(* Correctness.                                                            *)

\* Where the cells of the k-th of these frames end, the last of which end at n.
Top(n, frames, k) == IF k = Len(frames) THEN n ELSE frames[k + 1].dstart

\* The operands C code still holds of the frame that called it.
Pending(pr) == IF pr.kind = "none" THEN 0 ELSE Taken(pr.argc, pr.exec)

\* Every variable has its type; in particular no frame starts below the
\* stack and the code generator's operand count is never negative.
TypeOK ==
  /\ dstack \in Seq(Cell) /\ dsize \in Nat
  /\ cstack \in Seq(Frame) /\ csize \in Nat
  /\ queue \in [Queues -> Seq(Estate)]
  /\ pipes \in Seq([at : Nat, lists : Seq(Seq(Estate))])
  /\ brk \in BOOLEAN

\* Neither stack is ever written past its allocation: what is in use fits,
\* and so does every suspended image, which is why the single doubling of
\* resume() is enough.
Fits(es) == Len(es.data) <= dsize /\ Len(es.frames) <= csize
Capacity ==
  /\ dpos <= dsize /\ InitSize <= dsize /\ cpos <= csize /\ InitSize <= csize
  /\ \A q \in Queues : \A i \in DOMAIN queue[q] : Fits(queue[q][i])
  /\ \A k \in DOMAIN pipes : \A i \in DOMAIN pipes[k].lists :
       \A j \in DOMAIN pipes[k].lists[i] : Fits(pipes[k].lists[i][j])

\* No frame reaches into the cells of the next: its variables, and at least
\* the operands its code counts on, lie below.  Popping never underflows,
\* however programs nest, suspend and are aborted.
FrameLaid(f, top) ==
  /\ f.want >= Pending(f.prim)
  /\ f.dstart + f.nv + f.want <= top
  /\ f.vals = f.dstart
Laid(n, frames) == \A k \in 1..Len(frames) : FrameLaid(frames[k], Top(n, frames, k))
Layout == Laid(dpos, cstack)

\* A suspended program is laid out alike, from the start of its first frame.
ImageLaid(es) ==
  /\ es.frames # <<>>
  /\ Laid(es.frames[1].dstart + Len(es.data), es.frames)
  /\ \A k \in 1..Len(es.frames) :
       es.frames[k].prim.kind = "none" /\ (es.frames[k].attached <=> k > 1)
ImagesLaid ==
  /\ \A q \in Queues : \A i \in DOMAIN queue[q] : ImageLaid(queue[q][i])
  /\ \A k \in DOMAIN pipes : \A i \in DOMAIN pipes[k].lists :
       \A j \in DOMAIN pipes[k].lists[i] : ImageLaid(pipes[k].lists[i][j])

\* The call stack is the C stack's mirror: a frame is detached exactly when C
\* code called by the frame below (or the main level) started it, so that
\* each interp() stops at its own program; the break_pipe() loops in progress
\* are at distinct, growing depths, each in C code.
Nested(frames) == \A k \in 1..Len(frames) :
  frames[k].attached <=> k > 1 /\ frames[k - 1].prim.kind = "none"
LoopsIn(ps, frames) == \A i \in 1..Len(ps) :
  /\ ps[i].lists # <<>> /\ ps[i].at <= Len(frames)
  /\ ps[i].at > 0 => frames[ps[i].at].prim.kind = "prim"
  /\ \A j \in 1..(i - 1) : ps[j].at < ps[i].at
Nesting == Nested(cstack) /\ LoopsIn(pipes, cstack)

\* Whatever runs on top of an interrupted program leaves its cells alone:
\* a step keeps everything below the innermost program.
Low == IF cpos = 0 THEN 0 ELSE cstack[Base].dstart
BelowUntouched ==
  [][\A i \in 1..Low : i <= Len(dstack') /\ dstack'[i] = dstack[i]]_vars

\* The variables of every program on the stack are reached through pointers
\* into the stack in use.
VarsLive == \A k \in 1..cpos : cstack[k].nv > 0 => cstack[k].live

\* Interp implements Coroutines: program k owns the cells and the frames from
\* its detached frame up to the next program's.
Programs == Cardinality({k \in 1..cpos : ~cstack[k].attached})
First(k) == CHOOSE i \in 1..cpos :
  ~cstack[i].attached /\ Cardinality({j \in 1..i : ~cstack[j].attached}) = k
Relative(frames) == [i \in DOMAIN frames |->
  [start |-> frames[i].dstart - frames[1].dstart, nv |-> frames[i].nv]]
Program(k) ==
  LET last == IF k = Programs THEN cpos ELSE First(k + 1) - 1
  IN [data |-> SubSeq(dstack, cstack[First(k)].dstart + 1,
                        Top(dpos, cstack, last)),
      frames |-> Relative(SubSeq(cstack, First(k), last))]
Asleep(list) == [i \in DOMAIN list |->
  [data |-> list[i].data, frames |-> Relative(list[i].frames)]]

OnStacks == [k \in 1..Programs |-> Program(k)]
InQueues == [q \in Queues |-> Asleep(queue[q])]
InPipes == [k \in DOMAIN pipes |->
              [i \in DOMAIN pipes[k].lists |-> Asleep(pipes[k].lists[i])]]

C == INSTANCE Coroutines WITH running <- OnStacks, waiting <- InQueues, doomed <- InPipes

\* Every program runs as if it had stacks of its own, however programs nest,
\* are suspended in one place of the stacks and resumed in another.
OwnStacks == C!Spec

\* A break always unwinds to the main level, through every nested interp().
BreakUnwinds == brk ~> (cpos = 0)
=============================================================================

----------------------------- MODULE Coroutines -----------------------------
(***************************************************************************)
(* What the interpreter promises to a VTC program: a stack of its own.     *)
(*                                                                         *)
(* A program is its data (variables and operands) and its call frames, at  *)
(* positions relative to its own start.  Programs nest: the innermost one  *)
(* runs.  Only the running program changes, and a suspended program comes  *)
(* back as it went, with the value it waited for on top.  There is no      *)
(* shared stack here, no sizes and no positions of other programs.         *)
(***************************************************************************)
EXTENDS Integers, Sequences

CONSTANTS
  Cell, Null,  \* what a cell holds; the empty cell among them
  Queues,      \* where suspended programs wait
  Nodes        \* a window or remote: the sequence of its own queues

VARIABLES
  running,   \* the programs on the stack, the innermost last
  waiting,   \* the suspended programs of every queue
  doomed     \* suspended programs being woken because their node is gone

cvars == <<running, waiting, doomed>>

depth == Len(running)
Inner == running[depth]
Outer == SubSeq(running, 1, depth - 1)
\* t is s cut short; a cell the cutting instruction used up may be empty.
Cut(s, t) == Len(t) <= Len(s) /\ \A k \in DOMAIN t : t[k] \in {s[k], Null}
Without(list, i) == SubSeq(list, 1, i - 1) \o SubSeq(list, i + 1, Len(list))

Init ==
  /\ running = <<>> /\ waiting = [q \in Queues |-> <<>>] /\ doomed = <<>>

\* The innermost program computes: nobody else notices.
Compute ==
  /\ depth > 0 /\ Len(running') = depth
  /\ SubSeq(running', 1, depth - 1) = Outer
  /\ UNCHANGED <<waiting, doomed>>

\* A new program starts on top.  The one that starts it, if any, can lose
\* its last cells to it: they are the first cells of the new program.
Start ==
  /\ Len(running') = depth + 1
  /\ depth > 0 =>
       LET caller == running'[depth]
           given == SubSeq(Inner.data, Len(caller.data) + 1, Len(Inner.data))
       IN /\ SubSeq(running', 1, depth - 1) = Outer
          /\ caller.frames = Inner.frames
          /\ Cut(Inner.data, caller.data)
          /\ given = SubSeq(running'[depth + 1].data, 1, Len(given))
  /\ UNCHANGED <<waiting, doomed>>

\* The innermost program finishes or is aborted.
Finish ==
  /\ depth > 0 /\ running' = Outer
  /\ UNCHANGED <<waiting, doomed>>

\* It suspends itself: it waits with its data, less the operands of the
\* instruction that suspended it, somewhere in a queue.
Suspend ==
  /\ depth > 0 /\ running' = Outer
  /\ \E q \in Queues :
       /\ \A r \in Queues \ {q} : waiting'[r] = waiting[r]
       /\ \E i \in DOMAIN waiting'[q] :
            /\ Without(waiting'[q], i) = waiting[q]
            /\ waiting'[q][i].frames = Inner.frames
            /\ Cut(Inner.data, waiting'[q][i].data)
  /\ UNCHANGED doomed

\* p is back on top, exactly as it was suspended, with a value pushed.
Wake(p) == \E v \in Cell :
    running' = Append(running, [data |-> Append(p.data, v), frames |-> p.frames])

Resume ==
  \E q \in Queues :
    /\ waiting[q] # <<>>
    /\ Wake(Head(waiting[q]))
    /\ waiting' = [waiting EXCEPT ![q] = Tail(@)]
    /\ UNCHANGED doomed

NodeQueues(n) == {n[i] : i \in DOMAIN n}

\* A node goes: those that wait for it are to be woken with no value.
Doom ==
  \E n \in Nodes :
    /\ doomed' = Append(doomed, [i \in DOMAIN n |-> waiting[n[i]]])
    /\ waiting' = [q \in Queues |-> IF q \in NodeQueues(n) THEN <<>> ELSE waiting[q]]
    /\ UNCHANGED running

\* The first of the node that went last is woken, or its list is done.
WakeDoomed ==
  /\ doomed # <<>>
  /\ LET last == Len(doomed)
         list == doomed[last][1]
     IN IF list # <<>>
        THEN /\ Wake(Head(list))
             /\ doomed' = [doomed EXCEPT ![last][1] = Tail(list)]
        ELSE /\ doomed' = IF Len(doomed[last]) = 1 THEN SubSeq(doomed, 1, last - 1)
                          ELSE [doomed EXCEPT ![last] = Tail(@)]
             /\ UNCHANGED running
  /\ UNCHANGED waiting

\* The console deletes one suspended program, resize_screen() all of a node.
Drop ==
  /\ \/ \E q \in Queues : \E i \in DOMAIN waiting[q] :
          waiting' = [waiting EXCEPT ![q] = Without(@, i)]
     \/ \E n \in Nodes :
          waiting' = [q \in Queues |-> IF q \in NodeQueues(n) THEN <<>> ELSE waiting[q]]
  /\ UNCHANGED <<running, doomed>>

Next == Compute \/ Start \/ Finish \/ Suspend \/ Resume \/ Doom \/ WakeDoomed \/ Drop

Spec == Init /\ [][Next]_cvars
=============================================================================

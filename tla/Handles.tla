------------------------------ MODULE Handles ------------------------------
(***************************************************************************)
(* What windows, remotes and keys promise to VTC programs (struct.h,       *)
(* unode.c, interp.c): a reference names one object for ever; it becomes   *)
(* null when the object starts to close; and the current window and remote *)
(* of a program come back after a call, unless they were closed meanwhile. *)
(***************************************************************************)
EXTENDS Integers, Sequences

CONSTANTS Frames,  \* the data frames of programs
          Null

VARIABLES ever,     \* objects created so far: 0..(ever - 1)
          open,     \* objects in use
          closing,  \* objects whose waiting programs are being told
          ref,      \* what each data frame refers to
          cur,      \* the current window and remote
          saved     \* those of the interrupted programs, the oldest first

vars == <<ever, open, closing, ref, cur, saved>>

Objects == 0..(ever - 1)

\* An object that no longer exists is null.
Existing(h) == IF h \in open \cup closing THEN h ELSE Null

Init == /\ ever = 1 /\ open = {0} /\ closing = {}
        /\ ref = [f \in Frames |-> Null]
        /\ cur = [win |-> Null, rmt |-> Null]
        /\ saved = <<>>

\* A new object is none of the earlier ones.
Create == /\ ever' = ever + 1 /\ open' = open \cup {ever}
          /\ UNCHANGED <<closing, ref, cur, saved>>

\* A program stores a reference, or drops one.
Refer(f, h) == /\ ref' = [ref EXCEPT ![f] = h]
               /\ UNCHANGED <<ever, open, closing, cur, saved>>

\* A program starts, or resumes, in a context of its own.
Enter(w, r) ==
  /\ saved' = Append(saved, [hook |-> FALSE, win |-> cur.win, rmt |-> cur.rmt])
  /\ cur' = [win |-> Existing(w), rmt |-> Existing(r)]
  /\ UNCHANGED <<ever, open, closing, ref>>

\* disconnect_hook starts: the window stays as it is, before and after.
EnterHook(r) ==
  /\ saved' = Append(saved, [hook |-> TRUE, win |-> Null, rmt |-> cur.rmt])
  /\ cur' = [cur EXCEPT !.rmt = r]
  /\ UNCHANGED <<ever, open, closing, ref>>

\* The context a program returns to.
Back == LET last == saved[Len(saved)]
        IN [win |-> IF last.hook THEN cur.win ELSE Existing(last.win),
            rmt |-> Existing(last.rmt)]
Outer == SubSeq(saved, 1, Len(saved) - 1)

Leave == /\ saved # <<>> /\ ~saved[Len(saved)].hook
         /\ saved' = Outer /\ cur' = Back
         /\ UNCHANGED <<ever, open, closing, ref>>

\* h starts to close, its current context being c: no reference is left.
Close(h, c) ==
  /\ open' = open \ {h} /\ closing' = closing \cup {h}
  /\ ref' = [f \in Frames |-> IF ref[f] = h THEN Null ELSE ref[f]]
  /\ cur' = [win |-> IF c.win = h THEN Null ELSE c.win,
             rmt |-> IF c.rmt = h THEN Null ELSE c.rmt]
  /\ UNCHANGED ever

StartClose(h) == Close(h, cur) /\ UNCHANGED saved
LeaveHook(h) == /\ saved # <<>> /\ saved[Len(saved)].hook
                /\ Close(h, Back) /\ saved' = Outer

\* h is gone: for a key, or a window dropped with the screen, at once.
Finish(h) == /\ closing' = closing \ {h}
             /\ UNCHANGED <<ever, open, ref, cur, saved>>
Drop(h) == /\ open' = open \ {h}
           /\ ref' = [f \in Frames |-> IF ref[f] = h THEN Null ELSE ref[f]]
           /\ cur' = [cur EXCEPT !.win = IF @ = h THEN Null ELSE @]
           /\ UNCHANGED <<ever, closing, saved>>

Next ==
  \/ Create \/ Leave
  \/ \E f \in Frames, h \in open \cup {Null} : Refer(f, h)
  \/ \E w, r \in Objects \cup {Null} : Enter(w, r)
  \/ \E h \in open : EnterHook(h) \/ StartClose(h) \/ LeaveHook(h) \/ Drop(h)
  \/ \E h \in closing : Finish(h)

Spec == Init /\ [][Next]_vars
=============================================================================

------------------------------- MODULE Nodes -------------------------------
(***************************************************************************)
(* User nodes: windows, remotes and keys (unode.c, struct.h), how they are *)
(* created and destroyed (remote.c, window.c, key.c), the data frames that *)
(* refer to them (interp.c, unode.c), and the current window and remote    *)
(* that interp_context() and disconnect() save and restore around          *)
(* programs.                                                               *)
(*                                                                         *)
(* Destroying a node runs programs: disconnect_hook before, and after it   *)
(* left its ring every program that waits for its input.  They may destroy *)
(* other nodes, or ask for the same one.  Structures are recycled, so a    *)
(* pointer kept across such a program may name another node when it is     *)
(* used; the code compares node ids to find out.                           *)
(*                                                                         *)
(* Files are nodes like keys, and are not told apart from them.  What      *)
(* waits is a context; Interp models the stacks it is cut from.            *)
(***************************************************************************)
EXTENDS Integers, FiniteSets, SequencesExt

CONSTANTS
  Addr,        \* structures that New(Unode) returns
  Null,        \* NULL, and a data frame that refers to no node
  Frames,      \* data frames of programs
  IdMod,       \* ids are short: 2^16 in the code
  SeeDying,    \* whether programs use cur_win or cur_rmt while it is being closed:
               \* close() and others do not ask whether the window is in the ring
  WinLists,    \* a window's lists in the order close_window() breaks them
  RmtLists,    \* a remote's
  MaxId,       \* bound: ids handed out
  MaxCalls,    \* bound: C functions waiting for a program
  MaxEstates,  \* bound: programs suspended
  MaxKeys      \* bound: keys defined

Lists == Range(WinLists) \cup Range(RmtLists)

ASSUME NodesAssumption ==
  /\ Null \notin Addr /\ Addr # {}
  /\ IdMod \in Nat /\ IdMod > 1 /\ SeeDying \in BOOLEAN
  /\ MaxId \in Nat \ {0} /\ MaxCalls \in Nat /\ MaxEstates \in Nat /\ MaxKeys \in Nat
  /\ WinLists \in Seq(Range(WinLists)) /\ RmtLists \in Seq(Range(RmtLists))
  /\ Range(WinLists) \cap Range(RmtLists) = {}

VARIABLES
  mem,        \* structures allocated so far
  recycle,    \* recycle_ring: the last discarded first
  id,         \* the id of each structure, -1 when discarded
  nextid,     \* the static counter of unode.c
  links,      \* prev and next of the windows close_window() unlinked
  wins, rmts, \* win_ring and rmt_ring, from the dummy's next on
  keys,       \* key_ring and file_ring
  Wrmt, Rwin, \* which remote a window displays, and where a remote is displayed
  Rdisconnected,
  stack,      \* the programs waiting in a node's lists
  frame,      \* the node each data frame refers to
  frefs,      \* the data frames each node knows of
  active_win, cur_win, cur_rmt,
  calls       \* C functions that wait for a program to end, the innermost last

pool == <<mem, recycle, id, nextid, links>>
rings == <<wins, rmts, keys>>
shown == <<Wrmt, Rwin, active_win>>
refs == <<frame, frefs>>
context == <<cur_win, cur_rmt>>
vars == <<mem, recycle, id, nextid, links, wins, rmts, keys, Wrmt, Rwin, Rdisconnected,
          stack, frame, frefs, active_win, cur_win, cur_rmt, calls>>

-----------------------------------------------------------------------------
(* unode.c.                                                                *)

\* int to short.
Short(n) == ((n + IdMod \div 2) % IdMod) - IdMod \div 2

NoLists == [l \in Lists |-> <<>>]
NoLinks == [prev |-> Null, next |-> Null]

\* unalloc(): a recycled structure if there is one.  Its lists and flags are
\* reset by create_rmt() and init_window().
Unalloc(a) ==
  /\ IF recycle = <<>> THEN a \notin mem ELSE a = Head(recycle)
  /\ mem' = mem \cup {a}
  /\ recycle' = IF recycle = <<>> THEN recycle ELSE Tail(recycle)
  /\ id' = [id EXCEPT ![a] = Short(nextid)]
  /\ nextid < MaxId /\ nextid' = nextid + 1
  /\ links' = links
  /\ frefs' = [frefs EXCEPT ![a] = {}]

\* discard_unode(): the links are those of the recycle ring.
Discard(a) ==
  /\ id' = [id EXCEPT ![a] = -1]
  /\ recycle' = <<a>> \o recycle
  /\ links' = [links EXCEPT ![a] = NoLinks]
  /\ UNCHANGED <<mem, nextid>>

\* Mutant: only the list goes.
DestroyListOnly(a) ==
  /\ frame' = frame
  /\ frefs' = [frefs EXCEPT ![a] = {}]

\* destroy_pointers(): no data frame refers to a any more.
DestroyPointers(a) ==
  /\ frame' = [f \in Frames |-> IF f \in frefs[a] THEN Null ELSE frame[f]]
  /\ frefs' = [frefs EXCEPT ![a] = {}]

\* Mutant: the old pointer is taken back without asking for the id.
BackAlways(n, i) == n

\* A saved pointer is good if the node still has the saved id.
Back(n, i) == IF n # Null /\ id[n] = i THEN n ELSE Null
IdOf(n) == IF n = Null THEN 0 ELSE id[n]

-----------------------------------------------------------------------------
(* Control.                                                                *)

Top == calls[Len(calls)]
Popped == SubSeq(calls, 1, Len(calls) - 1)

\* A program runs, or the main loop starts one.
Running == calls # <<>> => Top.fn # "pipe"
InPipe == calls # <<>> /\ Top.fn = "pipe"
Room == Len(calls) < MaxCalls

\* head(), tail(), next() and prev() reach every node of a ring; cur_win and
\* cur_rmt name the current ones, whatever their state.
NamedWins == Range(wins) \cup (IF SeeDying THEN {cur_win} \ {Null} ELSE {})
NamedRmts == Range(rmts) \cup (IF SeeDying THEN {cur_rmt} \ {Null} ELSE {})
Named == NamedWins \cup NamedRmts \cup keys

\* prev and next of a window, Null for win_ring itself: a window that was
\* unlinked still has those it had then.
Place(w) == CHOOSE i \in DOMAIN wins : wins[i] = w
Above(w) == IF w \notin Range(wins) THEN links[w].prev
            ELSE IF Place(w) = 1 THEN Null ELSE wins[Place(w) - 1]
Below(w) == IF w \notin Range(wins) THEN links[w].next
            ELSE IF Place(w) = Len(wins) THEN Null ELSE wins[Place(w) + 1]

\* win_ring after w->prev->next and w->next->prev are set, s being what is
\* between them: windows that came there since w was unlinked are lost.  Only
\* when both are in the ring, in this order: the rest is no ring any more.
Linked(w) ==
  /\ {Above(w), Below(w)} \subseteq Range(wins) \cup {Null}
  /\ Above(w) # Null /\ Below(w) # Null => Place(Above(w)) < Place(Below(w))
Joined(w, s) ==
  (IF Above(w) = Null THEN <<>> ELSE SubSeq(wins, 1, Place(Above(w))))
    \o s \o (IF Below(w) = Null THEN <<>> ELSE SubSeq(wins, Place(Below(w)), Len(wins)))

\* A node is unlinked from its ring.
Without(s, a) ==
  IF a \in Range(s) THEN RemoveAt(s, CHOOSE i \in DOMAIN s : s[i] = a) ELSE s

\* interp_context(): save the context and run a program in another.
Enter(win, rmt) ==
  /\ Room
  /\ calls' = Append(calls, [fn |-> "context", node |-> Null, lists |-> <<>>,
                             win |-> cur_win, wid |-> IdOf(cur_win),
                             rmt |-> cur_rmt, rid |-> IdOf(cur_rmt)])
  /\ cur_win' = win /\ cur_rmt' = rmt

\* break_pipe() on the lists of a node that has left its ring.
Pipe(a, lists) == [fn |-> "pipe", node |-> a, lists |-> lists,
                   win |-> Null, wid |-> 0, rmt |-> Null, rid |-> 0]

\* disconnect() after the hook: c is cur_rmt and cs are the calls then.
Disconnected(r, c, cs) ==
  /\ Wrmt' = IF Rwin[r] = Null THEN Wrmt ELSE [Wrmt EXCEPT ![Rwin[r]] = Null]
  /\ rmts' = Without(rmts, r)
  /\ cur_rmt' = IF c = r THEN Null ELSE c
  /\ DestroyPointers(r)
  /\ calls' = Append(cs, Pipe(r, RmtLists))
  /\ UNCHANGED <<Rwin, wins, keys, active_win, cur_win>>

\* The innermost program is over: its caller goes on.
ContextEnd ==
  /\ calls # <<>> /\ Top.fn = "context"
  /\ cur_win' = Back(Top.win, Top.wid)
  /\ cur_rmt' = Back(Top.rmt, Top.rid)
  /\ calls' = Popped
  /\ UNCHANGED <<rings, shown, refs>>

HookEnd ==
  /\ calls # <<>> /\ Top.fn = "hook"
  /\ Disconnected(Top.node, Back(Top.rmt, Top.rid), Popped)

-----------------------------------------------------------------------------
(* Programs: creating, showing and referring to nodes.                     *)

\* Mutant: what the recycled structure held last stays.
NewRmtStale(a) ==
  /\ Running
  /\ Unalloc(a)
  /\ rmts' = Append(rmts, a)
  /\ Rdisconnected' = [Rdisconnected EXCEPT ![a] = FALSE]
  /\ stack' = [stack EXCEPT ![a] = NoLists]
  /\ UNCHANGED <<wins, keys, shown, frame, context, calls>>

\* new_rmt(), new_rmt_shell(): the connection is made.
NewRmt(a) ==
  /\ Running
  /\ Unalloc(a)
  /\ rmts' = Append(rmts, a)
  /\ Rwin' = [Rwin EXCEPT ![a] = Null]
  /\ Rdisconnected' = [Rdisconnected EXCEPT ![a] = FALSE]
  /\ stack' = [stack EXCEPT ![a] = NoLists]
  /\ UNCHANGED <<wins, keys, Wrmt, active_win, frame, context, calls>>

\* split_window(): the new window is between w and the one above.
SplitWindow(w, a) ==
  /\ Running /\ w \in NamedWins /\ Linked(w)
  /\ Unalloc(a)
  /\ wins' = Joined(w, <<a, w>>)
  /\ Wrmt' = [Wrmt EXCEPT ![a] = Null]
  /\ stack' = [stack EXCEPT ![a] = NoLists]
  /\ UNCHANGED <<rmts, keys, Rwin, Rdisconnected, active_win, frame, context, calls>>

\* gen_add_key() for a sequence that is not bound yet.
AddKey(a) ==
  /\ Running /\ Cardinality(keys) < MaxKeys
  /\ Unalloc(a)
  /\ keys' = keys \cup {a}
  /\ UNCHANGED <<wins, rmts, shown, Rdisconnected, stack, frame, context, calls>>

\* del_key().
DelKey(a) ==
  /\ Running /\ a \in keys
  /\ keys' = keys \ {a}
  /\ DestroyPointers(a)
  /\ Discard(a)
  /\ UNCHANGED <<wins, rmts, shown, Rdisconnected, stack, context, calls>>

\* pr_display(): an error if the remote is displayed already.
Display(w, r) ==
  /\ Running /\ w \in NamedWins
  /\ r # Null => r \in NamedRmts /\ Rwin[r] = Null
  /\ Wrmt' = [Wrmt EXCEPT ![w] = r]
  /\ Rwin' = [a \in Addr |-> IF a = r THEN w ELSE IF a = Wrmt[w] THEN Null ELSE Rwin[a]]
  /\ UNCHANGED <<pool, rings, Rdisconnected, stack, refs, active_win, context, calls>>

\* new_active_win().
NewActiveWin(w) ==
  /\ Running /\ w \in NamedWins
  /\ active_win' = w
  /\ UNCHANGED <<pool, rings, Wrmt, Rwin, Rdisconnected, stack, refs, context, calls>>

\* A data frame gets another value: deref_frame() of the old one, then
\* ref_frame() of the new one.
Refer(f, a) ==
  /\ Running /\ a \in Named \cup {Null} /\ frame[f] # a
  /\ frame' = [frame EXCEPT ![f] = a]
  /\ frefs' = [b \in Addr |-> IF b = a THEN frefs[b] \cup {f}
                              ELSE IF b = frame[f] THEN frefs[b] \ {f} ELSE frefs[b]]
  /\ UNCHANGED <<pool, rings, shown, Rdisconnected, stack, context, calls>>

-----------------------------------------------------------------------------
(* Programs that start, suspend and end.                                   *)

\* run_prog_istr(): a window's termread function, a remote's netread or
\* promptread function.
RunProgIstr(a) ==
  /\ Running
  /\ \/ a \in NamedWins /\ Enter(a, Null)
     \/ a \in NamedRmts /\ Enter(Null, a)
  /\ UNCHANGED <<pool, rings, shown, Rdisconnected, stack, refs>>

Waiting == {w \in Addr \X Lists \X (1..MaxEstates) : w[3] \in DOMAIN stack[w[1]][w[2]]}

\* read(), reread() and getch() on node a.
Suspend(a, l) ==
  /\ Running /\ a \in Named
  /\ l \in Range(IF a \in NamedWins THEN WinLists ELSE RmtLists)
  /\ a \notin keys /\ Cardinality(Waiting) < MaxEstates
  /\ stack' = [stack EXCEPT ![a][l] =
                 Append(@, [win |-> cur_win, wid |-> IdOf(cur_win),
                            rmt |-> cur_rmt, rid |-> IdOf(cur_rmt)])]
  /\ \/ ContextEnd \/ HookEnd
     \/ calls = <<>> /\ UNCHANGED <<rings, shown, refs, context, calls>>
  /\ UNCHANGED <<pool, Rdisconnected>>

\* resume() of the first program of a list.
ResumeHead(a, l) ==
  /\ stack[a][l] # <<>>
  /\ LET es == Head(stack[a][l])
     IN Enter(Back(es.win, es.wid), Back(es.rmt, es.rid))
  /\ stack' = [stack EXCEPT ![a][l] = Tail(@)]

\* give_window(), give_remote(), process_incoming().
Resume(a, l) ==
  /\ Running /\ a \in NamedWins \cup NamedRmts
  /\ ResumeHead(a, l)
  /\ UNCHANGED <<pool, rings, shown, Rdisconnected, refs>>

\* A program finishes or is aborted.
ProgEnd ==
  /\ ContextEnd \/ HookEnd
  /\ UNCHANGED <<pool, Rdisconnected, stack>>

-----------------------------------------------------------------------------
(* Destroying nodes.                                                       *)

\* Mutant: nothing stops a second disconnect().
DisconnectAgain(r) ==
  /\ Running /\ r \in Named \cap Range(rmts)
  /\ Rdisconnected' = [Rdisconnected EXCEPT ![r] = TRUE]
  /\ Room
  /\ \/ /\ calls' = Append(calls, [fn |-> "hook", node |-> r, lists |-> <<>>,
                                   win |-> Null, wid |-> 0,
                                   rmt |-> cur_rmt, rid |-> IdOf(cur_rmt)])
        /\ cur_rmt' = r
        /\ UNCHANGED <<rings, shown, refs, cur_win>>
     \/ Disconnected(r, cur_rmt, calls)
  /\ UNCHANGED <<pool, stack>>

\* disconnect(), by a program or when the connection fails: with
\* disconnect_hook() defined, or not.
Disconnect(r) ==
  /\ Running /\ r \in Named \cap Range(rmts) /\ ~Rdisconnected[r]
  /\ Rdisconnected' = [Rdisconnected EXCEPT ![r] = TRUE]
  /\ Room
  /\ \/ /\ calls' = Append(calls, [fn |-> "hook", node |-> r, lists |-> <<>>,
                                   win |-> Null, wid |-> 0,
                                   rmt |-> cur_rmt, rid |-> IdOf(cur_rmt)])
        /\ cur_rmt' = r
        /\ UNCHANGED <<rings, shown, refs, cur_win>>
     \/ Disconnected(r, cur_rmt, calls)
  /\ UNCHANGED <<pool, stack>>

\* pr_close(), close_window(): the window above or below takes the place.
CloseWindow(w, into) ==
  /\ Running /\ Room
  /\ w \in NamedWins /\ Linked(w) /\ into \in {Above(w), Below(w)} \ {Null}
  /\ Rwin' = IF Wrmt[w] = Null THEN Rwin ELSE [Rwin EXCEPT ![Wrmt[w]] = Null]
  /\ active_win' = IF active_win = w THEN into ELSE active_win
  /\ cur_win' = IF cur_win = w THEN Null ELSE cur_win
  /\ wins' = Joined(w, <<>>)
  /\ links' = [links EXCEPT ![w] = [prev |-> Above(w), next |-> Below(w)]]
  /\ DestroyPointers(w)
  /\ calls' = Append(calls, Pipe(w, WinLists))
  /\ UNCHANGED <<mem, recycle, id, nextid, rmts, keys, Wrmt, Rdisconnected, stack, cur_rmt>>

\* Mutant: the lists after the first are forgotten.
PipeFirst ==
  /\ InPipe /\ Top.lists # <<>>
  /\ stack[Top.node][Head(Top.lists)] = <<>>
  /\ calls' = [calls EXCEPT ![Len(calls)].lists = <<>>]
  /\ UNCHANGED <<pool, rings, shown, Rdisconnected, stack, refs, context>>

\* break_pipe(): the next program, or the next list.
PipeNext ==
  /\ InPipe /\ Top.lists # <<>>
  /\ ResumeHead(Top.node, Head(Top.lists))
  /\ UNCHANGED <<pool, rings, shown, Rdisconnected, refs>>

PipeList ==
  /\ InPipe /\ Top.lists # <<>>
  /\ stack[Top.node][Head(Top.lists)] = <<>>
  /\ calls' = [calls EXCEPT ![Len(calls)].lists = Tail(@)]
  /\ UNCHANGED <<pool, rings, shown, Rdisconnected, stack, refs, context>>

\* The node is discarded.
PipeEnd ==
  /\ InPipe /\ Top.lists = <<>>
  /\ Discard(Top.node)
  /\ calls' = Popped
  /\ UNCHANGED <<rings, shown, Rdisconnected, stack, refs, context>>

\* resize_screen(): the last window does not fit; who waits for it is dropped.
DropWindow ==
  LET w == wins[Len(wins)]
  IN /\ calls = <<>> /\ Len(wins) > 1
     /\ Rwin' = IF Wrmt[w] = Null THEN Rwin ELSE [Rwin EXCEPT ![Wrmt[w]] = Null]
     /\ active_win' = IF active_win = w THEN wins[Len(wins) - 1] ELSE active_win
     /\ cur_win' = IF cur_win = w THEN Null ELSE cur_win
     /\ wins' = Without(wins, w)
     /\ DestroyPointers(w)
     /\ stack' = [stack EXCEPT ![w] = NoLists]
     /\ Discard(w)
     /\ UNCHANGED <<rmts, keys, Wrmt, Rdisconnected, cur_rmt, calls>>

\* init_screen() makes the first window.
Init ==
  \E first \in Addr :
    /\ mem = {first} /\ recycle = <<>> /\ nextid = 1
    /\ id = [a \in Addr |-> IF a = first THEN 0 ELSE -1]
    /\ links = [a \in Addr |-> NoLinks]
    /\ wins = <<first>> /\ rmts = <<>> /\ keys = {}
    /\ Wrmt = [a \in Addr |-> Null] /\ Rwin = [a \in Addr |-> Null]
    /\ Rdisconnected = [a \in Addr |-> FALSE]
    /\ stack = [a \in Addr |-> NoLists]
    /\ frame = [f \in Frames |-> Null] /\ frefs = [a \in Addr |-> {}]
    /\ active_win = first /\ cur_win = Null /\ cur_rmt = Null
    /\ calls = <<>>

Next ==
  \/ \E a \in Addr : \/ NewRmt(a) \/ AddKey(a) \/ DelKey(a) \/ RunProgIstr(a)
                     \/ NewActiveWin(a) \/ Disconnect(a)
  \/ \E w, a \in Addr : SplitWindow(w, a)
  \/ \E w \in Addr, r \in Addr \cup {Null} : Display(w, r)
  \/ \E f \in Frames, a \in Addr \cup {Null} : Refer(f, a)
  \/ \E a \in Addr, l \in Lists : Suspend(a, l) \/ Resume(a, l)
  \/ \E w, into \in Addr : CloseWindow(w, into)
  \/ ProgEnd \/ PipeNext \/ PipeList \/ PipeEnd \/ DropWindow

Spec == Init /\ [][Next]_vars

-----------------------------------------------------------------------------
(* Correctness.                                                            *)

InRings == Range(wins) \cup Range(rmts) \cup keys
Pipes == {i \in DOMAIN calls : calls[i].fn = "pipe"}
Dying == {calls[i].node : i \in Pipes}

\* Every variable has its type.
NodeOrNull == Addr \cup {Null}
Ids == -(IdMod \div 2)..(IdMod - 1)
Links == [prev : NodeOrNull, next : NodeOrNull]
Context == [win : NodeOrNull, wid : Ids, rmt : NodeOrNull, rid : Ids]
Call == [fn : {"context", "hook", "pipe"}, node : NodeOrNull, lists : Seq(Lists),
         win : NodeOrNull, wid : Ids, rmt : NodeOrNull, rid : Ids]
TypeOK ==
  /\ mem \subseteq Addr /\ recycle \in Seq(Addr)
  /\ id \in [Addr -> Ids] /\ nextid \in Nat
  /\ links \in [Addr -> Links]
  /\ wins \in Seq(Addr) /\ rmts \in Seq(Addr) /\ keys \subseteq Addr
  /\ Wrmt \in [Addr -> NodeOrNull] /\ Rwin \in [Addr -> NodeOrNull]
  /\ Rdisconnected \in [Addr -> BOOLEAN]
  /\ stack \in [Addr -> [Lists -> Seq(Context)]]
  /\ frame \in [Frames -> NodeOrNull] /\ frefs \in [Addr -> SUBSET Frames]
  /\ active_win \in Addr /\ cur_win \in NodeOrNull /\ cur_rmt \in NodeOrNull
  /\ calls \in Seq(Call)

\* A structure is in one place only, once: a ring, the recycle ring, or on its
\* way from the one to the other.  However hooks and broken pipes nest, no
\* node is unlinked or discarded twice, as long as programs leave alone the
\* window they were resumed in by close_window().  (Every variable has its type.)
OnePlace ==
  /\ TypeOK
  /\ IsInjective(wins) /\ IsInjective(rmts) /\ IsInjective(recycle)
  /\ \A i, j \in Pipes : calls[i].node = calls[j].node => i = j
  /\ Range(wins) \cap Range(rmts) = {}
  /\ keys \cap (Range(wins) \cup Range(rmts)) = {}
  /\ InRings \cap Dying = {} /\ (InRings \cup Dying) \cap Range(recycle) = {}
  /\ InRings \cup Dying \cup Range(recycle) = mem

\* A data frame never refers to a node that is being or was destroyed, and a
\* node knows exactly the frames that refer to it (struct.h:134-137).
NoDangling ==
  /\ \A f \in Frames : frame[f] # Null => frame[f] \in InRings
  /\ \A f \in Frames, a \in Addr : f \in frefs[a] <=> frame[f] = a

\* There is always a window, and the active one is on the screen; a window shows
\* a remote exactly if the remote is shown in that window.
Shown ==
  /\ active_win \in Range(wins)
  /\ \A w \in Range(wins) : Wrmt[w] # Null =>
       Wrmt[w] \in Range(rmts) /\ Rwin[Wrmt[w]] = w
  /\ \A r \in Range(rmts) : Rwin[r] # Null =>
       Rwin[r] \in Range(wins) /\ Wrmt[Rwin[r]] = r

\* A program that waits for a node's input is in a list that will be read: the
\* node is in a ring, or break_pipe() has yet to come to the list.
NoneLost ==
  \A a \in Addr, l \in Lists : stack[a][l] # <<>> =>
    \/ a \in InRings
    \/ \E i \in Pipes : calls[i].node = a /\ l \in Range(calls[i].lists)

\* Nodes implements Handles, as long as ids do not repeat: a node is its id, and
\* the contexts are those that calls other than break_pipe() saved.
Handle(a) == IF a = Null THEN Null ELSE id[a]
Kept(cs) ==
  LET kept[n \in 0..Len(cs)] == IF n = 0 THEN <<>>
                                ELSE IF cs[n].fn = "pipe" THEN kept[n - 1]
                                ELSE Append(kept[n - 1], cs[n])
  IN kept[Len(cs)]
SavedHandle(n, i) == IF n = Null THEN Null ELSE i
SavedContext(c) == [hook |-> c.fn = "hook",
                    win |-> SavedHandle(c.win, c.wid), rmt |-> SavedHandle(c.rmt, c.rid)]
Open == {id[a] : a \in InRings}
Closing == {id[a] : a \in Dying}
References == [f \in Frames |-> Handle(frame[f])]
Current == [win |-> Handle(cur_win), rmt |-> Handle(cur_rmt)]
Interrupted(cs) == [i \in DOMAIN Kept(cs) |-> SavedContext(Kept(cs)[i])]
H == INSTANCE Handles WITH
  ever <- nextid, open <- Open, closing <- Closing,
  ref <- References, cur <- Current, saved <- Interrupted(calls)

\* To a program, a reference names one object for ever, and its context comes
\* back after whatever ran in between.
AreHandles == H!Spec
=============================================================================

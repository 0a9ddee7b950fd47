------------------------------- MODULE Arrays -------------------------------
(***************************************************************************)
(* Arrays and property lists (array.c), the data frames that refer to them *)
(* (ref_frame() and deref_frame() in interp.c), the primitives that make   *)
(* and change them (prmt4.c, oper.c), and the collector for those that     *)
(* counting cannot find, garbage().                                        *)
(*                                                                         *)
(* A frame is Nil, <<"aptr", a>>, a pointer into array a, or <<"plist", a>>*)
(* the property list whose elements array a holds; that array shares the   *)
(* count of its list.  The arrays of variables and of parameters, which    *)
(* are not counted, are the Roots, with the stack, the objects of nodes    *)
(* and the programs that wait.  Array is numbered as the arrays lie in     *)
(* aindex.  A pointer's position is given when it is used; acopy() into a  *)
(* fixed array, which stops at its end, assigns variables.                 *)
(***************************************************************************)
EXTENDS Integers, Sequences, FiniteSets, FiniteSetsExt, SequencesExt

CONSTANTS
  NArrays,  \* bound: arrays in aindex
  MaxIndex, \* bound: the positions that are used
  Sizes,    \* bound: the sizes given to alloc()
  Roots,    \* cells of variables, of the stack, of nodes and of saved programs
  AnyCycle, \* whether elements refer to arrays before theirs, or to their own list
  AnyTime   \* whether programs collect while break_pipe() has others to resume

ASSUME ArraysAssumption ==
  /\ NArrays \in Nat \ {0} /\ MaxIndex \in Nat /\ Sizes \subseteq Nat \ {0}
  /\ AnyCycle \in BOOLEAN /\ AnyTime \in BOOLEAN

Array == 1..NArrays
Nil == <<>>
Frame == {Nil} \cup ({"aptr", "plist"} \X Array)

VARIABLES
  root,   \* the frames in Roots
  broken, \* those of programs in a list of break_pipe() or of an unlinked node
  used,   \* the arrays in use
  isp,    \* those of property lists
  plists, \* those whose property list is allocated
  refs,   \* of an array, or of its property list
  vals,   \* the elements
  unused, \* the list of free ones, which goes through the cells of the counts
  fresh,  \* the first one that was never used
  wild    \* history: whether a count was changed that is not one any more

heap == [used |-> used, plists |-> plists, refs |-> refs, unused |-> unused, wild |-> wild]
vars == <<root, broken, used, isp, plists, refs, vals, unused, fresh, wild>>

\* What there is after counting, with the elements of what is still there.
Becomes(h, elems) ==
  /\ used' = h.used /\ plists' = h.plists /\ refs' = h.refs
  /\ unused' = h.unused /\ wild' = h.wild
  /\ vals' = [b \in Array |-> IF b \in h.used THEN elems[b] ELSE <<>>]

-----------------------------------------------------------------------------
(* Counting.                                                               *)

\* ref_frame().
Ref(h, f) == IF f = Nil THEN h ELSE [h EXCEPT !.refs[f[2]] = @ + 1]
RefAll(h, fs) == FoldLeft(Ref, h, fs)

\* Whether the count is still there: that of an array is overwritten when it
\* goes to the free list, as is the pointer to its property list.
Counted(h, f) ==
  /\ f[1] = "aptr" => f[2] \in h.used
  /\ f[1] = "plist" \/ f[2] \in isp => f[2] \in h.plists

\* arfree(), and Discard() of a property list.
Arfree(h, a) ==
  [h EXCEPT !.used = @ \ {a}, !.plists = @ \ {a}, !.refs[a] = 0, !.unused = <<a>> \o @]

\* deref_frames(), and del_array() for what nothing refers to any more.
RECURSIVE Deref(_, _, _)
Deref(h, fs, collecting) ==
  IF fs = <<>> THEN h
  ELSE LET f == Head(fs)
           less == [h EXCEPT !.refs[f[2]] = @ - 1]
           done == IF f = Nil THEN h
                   ELSE IF ~Counted(h, f) THEN [h EXCEPT !.wild = TRUE]
                   ELSE IF less.refs[f[2]] = 0 /\ ~collecting
                   THEN Arfree(Deref(less, vals[f[2]], FALSE), f[2])
                   ELSE less
       IN Deref(done, Tail(fs), collecting)

-----------------------------------------------------------------------------
(* Programs.                                                               *)

\* The result of a primitive is counted before its arguments are dropped.
Set(r, f) ==
  /\ root' = [root EXCEPT ![r] = f]
  /\ Becomes(Deref(Ref(heap, f), <<root[r]>>, FALSE), vals)

\* aralloc().
CanAlloc(a) == IF unused # <<>> THEN a = Head(unused) ELSE a = fresh /\ fresh \in Array

\* alloc(): an array, or a property list.
Alloc(r, a, n, list) ==
  /\ CanAlloc(a)
  /\ isp' = (isp \cap used) \cup (IF list THEN {a} ELSE {})
  /\ fresh' = IF unused = <<>> THEN fresh + 1 ELSE fresh
  /\ root' = [root EXCEPT ![r] = <<IF list THEN "plist" ELSE "aptr", a>>]
  /\ Becomes(Deref([used |-> used \cup {a}, plists |-> IF list THEN plists \cup {a} ELSE plists,
                    refs |-> [refs EXCEPT ![a] = 1],
                    unused |-> IF unused = <<>> THEN <<>> ELSE Tail(unused), wild |-> wild],
                   <<root[r]>>, FALSE),
             [vals EXCEPT ![a] = [i \in 1..n |-> Nil]])
  /\ UNCHANGED broken

\* A variable is assigned or dropped, a program is suspended or ends.
Assign(r, s) == Set(r, root[s]) /\ UNCHANGED <<broken, isp, fresh>>
Drop(r) == Set(r, Nil) /\ UNCHANGED <<broken, isp, fresh>>

\* base() and lookup(): a pointer into the array of a list.
Base(r, s) ==
  /\ root[s] # Nil /\ root[s][1] = "plist"
  /\ Set(r, <<"aptr", root[s][2]>>) /\ UNCHANGED <<broken, isp, fresh>>

\* The element at p[i].
Elem(p, i) == IF i < Len(vals[p[2]]) THEN vals[p[2]][i + 1] ELSE Nil
Load(r, s, i) ==
  /\ root[s] # Nil /\ root[s][1] = "aptr"
  /\ Set(r, Elem(root[s], i)) /\ UNCHANGED <<broken, isp, fresh>>

\* extend_array().
Extended(v, n) ==
  IF n <= Len(v) THEN v ELSE v \o [j \in 1..2 * n - Len(v) |-> Nil]

MayRefer(a, f) ==
  AnyCycle \/ (f # Nil => f[2] > a \/ (f[2] = a /\ a \notin isp))

\* op_asn(): p[i] = f.  deref_frame() comes first, but the operands are still on
\* the stack, and counted.
Store(s, i, t) ==
  /\ root[s] # Nil /\ root[s][1] = "aptr" /\ MayRefer(root[s][2], root[t])
  /\ LET a == root[s][2]
         v == Extended(vals[a], i + 1)
     IN Becomes(Ref(Deref(heap, <<v[i + 1]>>, FALSE), root[t]),
                [vals EXCEPT ![a] = [v EXCEPT ![i + 1] = root[t]]])
  /\ UNCHANGED <<root, broken, isp, fresh>>

\* Mutants: the elements are counted when they are in their place; those that
\* are overwritten are not dropped.
CountLate(h, new, old) == RefAll(Deref(h, old, FALSE), new)
CountOnly(h, new, old) == RefAll(h, new)

CountNew(h, new, old) == Deref(RefAll(h, new), old, FALSE)

\* pr_acopy(): n elements from q[j] to p[i], of two arrays or of one.
Acopy(s, i, t, j, n) ==
  /\ \A r \in {s, t} : root[r] # Nil /\ root[r][1] = "aptr"
  /\ n > 0 /\ i + n <= MaxIndex + 1
  /\ LET a == root[s][2]
         ftemp == [k \in 1..n |-> Elem(root[t], j + k - 1)]
         v == Extended(vals[a], i + n)
     IN /\ \A k \in 1..n : MayRefer(a, ftemp[k])
        /\ Becomes(CountNew(heap, ftemp, SubSeq(v, i + 1, i + n)),
                   [vals EXCEPT ![a] =
                      SubSeq(v, 1, i) \o ftemp \o SubSeq(v, i + n + 1, Len(v))])
  /\ UNCHANGED <<root, broken, isp, fresh>>

-----------------------------------------------------------------------------
(* garbage().                                                              *)

FramesOf(a) == {vals[a][i] : i \in DOMAIN vals[a]} \ {Nil}
FramesIn(roots) == {root[r] : r \in roots} \ {Nil}

\* mark_dframe(), from some frames.
RECURSIVE Marked(_, _)
Marked(fs, seen) ==
  LET new == {f[2] : f \in fs} \ seen
  IN IF new = {} THEN seen ELSE Marked(UNION {FramesOf(a) : a \in new}, seen \cup new)

\* Variables, the stacks, the windows and remotes of the rings with their
\* objects and programs, and the programs in the queues: break_pipe() has
\* taken its list from there.
MarkFrom == FramesIn(Roots \ broken)

\* A node is unlinked, the programs that wait for it are in the list that
\* break_pipe() resumes, until they are on the stack.  (One that holds no array
\* makes no difference.)
Unlink(r) ==
  /\ r \notin broken /\ root[r] # Nil /\ broken' = broken \cup {r}
  /\ UNCHANGED <<root, used, isp, plists, refs, vals, unused, fresh, wild>>
Resume(r) ==
  /\ r \in broken /\ broken' = broken \ {r}
  /\ UNCHANGED <<root, used, isp, plists, refs, vals, unused, fresh, wild>>

\* One of the arrays is found neither used nor marked.
Sweep(h, a) ==
  Arfree(Deref([h EXCEPT !.plists = @ \ {a}], vals[a], TRUE), a)

Garbage ==
  /\ AnyTime \/ broken = {}
  /\ LET marked == Marked(MarkFrom, {})
         collect(h, a) == IF a \in h.used \ marked THEN Sweep(h, a) ELSE h
     IN Becomes(FoldLeft(collect, heap, [a \in Array |-> a]), vals)
  /\ UNCHANGED <<root, broken, isp, fresh>>

-----------------------------------------------------------------------------
Init ==
  /\ root = [r \in Roots |-> Nil] /\ broken = {} /\ used = {} /\ isp = {} /\ plists = {}
  /\ refs = [a \in Array |-> 0] /\ vals = [a \in Array |-> <<>>]
  /\ unused = <<>> /\ fresh = 1 /\ wild = FALSE

Next ==
  \/ \E r \in Roots \ broken :
       \/ Drop(r)
       \/ \E a \in Array, n \in Sizes, list \in BOOLEAN : Alloc(r, a, n, list)
       \/ \E s \in Roots \ broken :
            \/ Assign(r, s) \/ Base(r, s)
            \/ \E i \in 0..MaxIndex : Load(r, s, i) \/ Store(r, i, s)
            \/ \E i, j \in 0..MaxIndex, n \in 1..MaxIndex + 1 : Acopy(r, i, s, j, n)
  \/ \E r \in Roots : Unlink(r) \/ Resume(r)
  \/ Garbage
Spec == Init /\ [][Next]_vars

-----------------------------------------------------------------------------
TypeOK ==
  /\ root \in [Roots -> Frame] /\ broken \subseteq Roots /\ used \subseteq Array /\ isp \subseteq Array
  /\ \A a \in Array : ToSet(vals[a]) \subseteq Frame
  /\ fresh \in 1..NArrays + 1 /\ ToSet(unused) \cap used = {}
  /\ used \cup ToSet(unused) = 1..fresh - 1 /\ IsInjective(unused)
  /\ plists = isp \cap used

\* Nothing refers to an array that is free, and the count of one that is in use
\* is the number of frames that refer to it, in variables and in arrays; no count
\* is changed that is none any more: not by a frame that outlived its array, nor
\* by the collector when it deletes what it did not mark (array.c:124, array.c:207).
Referring(a) ==
  Cardinality({r \in Roots : root[r] # Nil /\ root[r][2] = a})
  + FoldSet(LAMBDA b, n : n + Cardinality({i \in DOMAIN vals[b] :
                                                vals[b][i] # Nil /\ vals[b][i][2] = a}),
                          0, used)
CountsExact ==
  /\ TypeOK /\ ~wild
  /\ \A a \in Array : Referring(a) = IF a \in used THEN refs[a] ELSE 0

\* Counting finds all that programs lost, except for arrays that refer to
\* themselves and what those still hold: only that is left for garbage().
Lost == used \ Marked(FramesIn(Roots), {})
InCycle(a) == a \in Marked(FramesOf(a), {})
OnlyCyclesStay == Lost \subseteq Marked(UNION {FramesOf(a) : a \in {b \in Lost : InCycle(b)}}, {})
=============================================================================

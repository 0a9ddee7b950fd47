---------------------------- MODULE NodesProofs ----------------------------
(***************************************************************************)
(* Proofs about Nodes.                                                     *)
(***************************************************************************)
EXTENDS Nodes, SeqLemmas

-----------------------------------------------------------------------------
(* The calls that wait.                                                    *)

\* The calls of one kind, the nodes they are about, and that each is about
\* another node.
At(cs, k) == {i \in DOMAIN cs : cs[i].fn = k}
NodesAt(cs, k) == {cs[i].node : i \in At(cs, k)}
Once(cs, k) == \A i, j \in At(cs, k) : cs[i].node = cs[j].node => i = j

LEMMA PushCall ==
  ASSUME NEW S, NEW cs \in Seq(S), NEW c \in S, NEW k
  PROVE  /\ NodesAt(Append(cs, c), k)
              = NodesAt(cs, k) \cup (IF c.fn = k THEN {c.node} ELSE {})
         /\ Once(cs, k) /\ (c.fn = k => c.node \notin NodesAt(cs, k))
              => Once(Append(cs, c), k)
<1> DEFINE t == Append(cs, c)
           n == Len(cs)
<1>1. /\ n \in Nat /\ Len(t) = n + 1 /\ t \in Seq(S)
      /\ \A i \in 1..n : t[i] = cs[i]
      /\ t[n + 1] = c
  BY AppendProperties
<1>2. DOMAIN t = 1..(n + 1) /\ DOMAIN cs = 1..n
  BY <1>1
<1> HIDE DEF t, n
<1>3. At(t, k) = At(cs, k) \cup (IF c.fn = k THEN {n + 1} ELSE {})
  BY <1>1, <1>2 DEF At
<1>4. \A i \in At(cs, k) : t[i] = cs[i] /\ i # n + 1
  BY <1>1, <1>2 DEF At
<1>5. NodesAt(t, k) = NodesAt(cs, k) \cup (IF c.fn = k THEN {c.node} ELSE {})
  BY <1>1, <1>3, <1>4 DEF NodesAt
<1>6. ASSUME Once(cs, k), c.fn = k => c.node \notin NodesAt(cs, k)
      PROVE  Once(t, k)
  BY <1>1, <1>3, <1>4, <1>6 DEF Once, NodesAt
<1> QED BY <1>5, <1>6 DEF t

\* A call of another kind changes nothing.
LEMMA PushOther ==
  ASSUME NEW S, NEW cs \in Seq(S), NEW c \in S, NEW k, c.fn # k
  PROVE  /\ NodesAt(Append(cs, c), k) = NodesAt(cs, k)
         /\ Once(cs, k) => Once(Append(cs, c), k)
<1>1. NodesAt(Append(cs, c), k) = NodesAt(cs, k) \cup (IF c.fn = k THEN {c.node} ELSE {})
  BY PushCall
<1>2. Once(cs, k) => Once(Append(cs, c), k)
  BY PushCall
<1> QED BY <1>1, <1>2

LEMMA PopCall ==
  ASSUME NEW S, NEW cs \in Seq(S), cs # <<>>, NEW k
  PROVE  LET t == SubSeq(cs, 1, Len(cs) - 1)
             c == cs[Len(cs)]
         IN /\ t \in Seq(S) /\ c \in S
            /\ Once(cs, k) => /\ Once(t, k)
                              /\ NodesAt(t, k) = NodesAt(cs, k) \ (IF c.fn = k THEN {c.node} ELSE {})
                              /\ c.fn = k => c.node \in NodesAt(cs, k)
<1> DEFINE t == SubSeq(cs, 1, Len(cs) - 1)
           n == Len(cs)
           c == cs[n]
<1>1. n \in Nat /\ n > 0 /\ DOMAIN cs = 1..n
  OBVIOUS
<1>2. \A i \in 1..n : cs[i] \in S
  OBVIOUS
<1>3. t \in Seq(S) /\ Len(t) = n - 1 /\ \A i \in 1..(n - 1) : t[i] = cs[i]
  BY <1>1, <1>2, SubSeqProperties
<1>4. DOMAIN t = 1..(n - 1)
  BY <1>3
<1> HIDE DEF t, n
<1>5. At(cs, k) = At(t, k) \cup (IF c.fn = k THEN {n} ELSE {})
  BY <1>1, <1>3, <1>4 DEF At
<1>6. \A i \in At(t, k) : t[i] = cs[i] /\ i # n
  BY <1>1, <1>3, <1>4 DEF At
<1>7. ASSUME Once(cs, k)
      PROVE  /\ Once(t, k)
             /\ NodesAt(t, k) = NodesAt(cs, k) \ (IF c.fn = k THEN {c.node} ELSE {})
             /\ c.fn = k => c.node \in NodesAt(cs, k)
  <2> HIDE DEF c
  <2>1. Once(t, k)
    BY <1>5, <1>6, <1>7 DEF Once
  <2>2. NodesAt(t, k) \subseteq NodesAt(cs, k)
    BY <1>5, <1>6 DEF NodesAt
  <2>3. NodesAt(cs, k) \subseteq NodesAt(t, k) \cup (IF c.fn = k THEN {c.node} ELSE {})
    BY <1>5, <1>6 DEF NodesAt, c
  <2>4. c.fn = k => c.node \notin NodesAt(t, k) /\ c.node \in NodesAt(cs, k)
    BY <1>5, <1>6, <1>7 DEF Once, NodesAt, c
  <2> QED BY <2>1, <2>2, <2>3, <2>4
<1>8. c \in S
  BY <1>1, <1>2
<1> QED BY <1>3, <1>7, <1>8 DEF t, n

LEMMA ListsCall ==
  ASSUME NEW cs \in Seq(Call), cs # <<>>, NEW k, NEW ls
  PROVE  LET t == [cs EXCEPT ![Len(cs)].lists = ls]
         IN /\ ls \in Seq(Lists) => t \in Seq(Call)
            /\ Once(cs, k) => Once(t, k)
            /\ NodesAt(t, k) = NodesAt(cs, k)
<1> DEFINE t == [cs EXCEPT ![Len(cs)].lists = ls]
<1>1. DOMAIN cs = 1..Len(cs) /\ Len(cs) \in 1..Len(cs) /\ \A i \in DOMAIN cs : cs[i] \in Call
  OBVIOUS
<1>2. DOMAIN t = 1..Len(cs) /\ \A i \in DOMAIN cs : t[i].fn = cs[i].fn /\ t[i].node = cs[i].node
  BY <1>1 DEF Call
<1>3. ls \in Seq(Lists) => t \in Seq(Call)
  <2> DEFINE c == [cs[Len(cs)] EXCEPT !.lists = ls]
  <2> SUFFICES ASSUME ls \in Seq(Lists) PROVE t \in Seq(Call)
    OBVIOUS
  <2>1. c \in Call
    BY <1>1 DEF Call
  <2>2. t = [cs EXCEPT ![Len(cs)] = c]
    OBVIOUS
  <2> HIDE DEF c
  <2> QED BY <1>1, <2>1, <2>2
<1> HIDE DEF t
<1>4. At(t, k) = At(cs, k)
  BY <1>1, <1>2 DEF At
<1>5. NodesAt(t, k) = NodesAt(cs, k) /\ (Once(cs, k) => Once(t, k))
  BY <1>1, <1>2, <1>4 DEF NodesAt, Once, At
<1> QED BY <1>3, <1>5 DEF t

-----------------------------------------------------------------------------
(* Types.                                                                  *)

LEMMA Remainder == ASSUME NEW n \in Int, NEW m \in Nat, m > 1 PROVE n % m \in 0..(m - 1)
OBVIOUS

LEMMA ShortIds == \A n \in Nat : Short(n) \in Ids
<1>2. IdMod \div 2 \in 1..IdMod
  BY NodesAssumption
<1> QED BY NodesAssumption, Remainder, <1>2 DEF Short, Ids

LEMMA SomeIds == 0 \in Ids /\ -1 \in Ids
<1>1. IdMod \div 2 \in 1..IdMod
  BY NodesAssumption
<1> QED BY NodesAssumption, <1>1 DEF Ids

\* A node is unlinked.
LEMMA WithoutRange ==
  ASSUME NEW S, NEW s \in Seq(S), IsInjective(s), NEW a \in Range(s)
  PROVE  /\ Without(s, a) \in Seq(S) /\ Len(Without(s, a)) = Len(s) - 1
         /\ Range(Without(s, a)) = Range(s) \ {a}
         /\ IsInjective(Without(s, a))
<1> DEFINE i == CHOOSE n \in DOMAIN s : s[n] = a
<1>1. i \in DOMAIN s /\ s[i] = a
  BY DEF Range
<1>2. i \in 1..Len(s)
  BY <1>1
<1> HIDE DEF i
<1>3. Without(s, a) = RemoveAt(s, i)
  BY DEF Without, i
<1> QED BY <1>1, <1>2, <1>3, RemoveRange

\* A saved context has its types.
LEMMA Saved ==
  ASSUME TypeOK
  PROVE  /\ IdOf(cur_win) \in Ids /\ IdOf(cur_rmt) \in Ids
         /\ \A i : \A n \in NodeOrNull : Back(n, i) \in NodeOrNull
BY SomeIds DEF TypeOK, IdOf, Back, NodeOrNull

\* The calls that are added and the lists that are broken have their types.
LEMMA CallTypes ==
  /\ \A a \in Addr : Pipe(a, WinLists) \in Call /\ Pipe(a, RmtLists) \in Call
  /\ NoLists \in [Lists -> Seq(Context)]
<1>1. WinLists \in Seq(Lists) /\ RmtLists \in Seq(Lists)
  BY NodesAssumption DEF Lists
<1> QED BY <1>1, SomeIds DEF Pipe, Call, NoLists, NodeOrNull

\* A list is read, or gets longer.
LEMMA ListTypes ==
  ASSUME NEW S, stack \in [Addr -> [Lists -> Seq(S)]], NEW a \in Addr, NEW l \in Lists
  PROVE  /\ stack[a][l] # <<>> => /\ Head(stack[a][l]) \in S
                                  /\ [stack EXCEPT ![a][l] = Tail(@)] \in [Addr -> [Lists -> Seq(S)]]
         /\ \A c \in S : [stack EXCEPT ![a][l] = Append(@, c)] \in [Addr -> [Lists -> Seq(S)]]
<1>1. stack[a][l] \in Seq(S)
  OBVIOUS
<1>2. ASSUME NEW s \in Seq(S)
      PROVE  [stack EXCEPT ![a][l] = s] \in [Addr -> [Lists -> Seq(S)]]
  <2>1. [stack[a] EXCEPT ![l] = s] \in [Lists -> Seq(S)]
    OBVIOUS
  <2> QED BY <2>1
<1>3. stack[a][l] # <<>> => Head(stack[a][l]) \in S /\ Tail(stack[a][l]) \in Seq(S)
  <2> DEFINE s == stack[a][l]
  <2>1. s \in Seq(S)
    BY <1>1
  <2> HIDE DEF s
  <2>2. s # <<>> => Head(s) \in S /\ Tail(s) \in Seq(S)
    BY <2>1
  <2> QED BY <2>2 DEF s
<1>4. \A c \in S : Append(stack[a][l], c) \in Seq(S)
  BY <1>1
<1> QED BY <1>2, <1>3, <1>4

-----------------------------------------------------------------------------
(* The pool.                                                               *)

\* The parts of OnePlace: where a structure is.
Apart(W, R, K, D, C, M) ==
  /\ W \cap R = {} /\ K \cap (W \cup R) = {}
  /\ (W \cup R \cup K) \cap D = {}
  /\ ((W \cup R \cup K) \cup D) \cap C = {}
  /\ (W \cup R \cup K) \cup D \cup C = M
Linear == IsInjective(wins) /\ IsInjective(rmts) /\ IsInjective(recycle)

Places == Apart(Range(wins), Range(rmts), keys, NodesAt(calls, "pipe"), Range(recycle), mem)

\* While its hook runs, a remote is in its ring, and stays there: it cannot be
\* disconnected again.
Hooks ==
  /\ Once(calls, "hook")
  /\ \A r \in NodesAt(calls, "hook") : r \in Range(rmts) /\ Rdisconnected[r]

\* The inductive invariant behind OnePlace and Shown.
Structure ==
  /\ TypeOK /\ Linear /\ Once(calls, "pipe") /\ Places
  /\ Shown /\ Hooks

LEMMA StructureOnePlace == Structure => OnePlace
BY DEF Structure, OnePlace, Places, Apart, Linear, InRings, Dying, Pipes, Once, NodesAt, At

\* A structure that is allocated was nowhere, or in the recycle ring.
LEMMA UnallocEffect ==
  ASSUME Structure, NEW a \in Addr, Unalloc(a)
  PROVE  /\ mem' \subseteq Addr /\ recycle' \in Seq(Addr) /\ id' \in [Addr -> Ids]
         /\ nextid' \in Nat /\ links' \in [Addr -> Links]
         /\ frefs' \in [Addr -> SUBSET Frames]
         /\ IsInjective(recycle')
         /\ Range(recycle') = Range(recycle) \ {a} /\ mem' = mem \cup {a}
         /\ a \notin Range(wins) \cup Range(rmts) \cup keys \cup NodesAt(calls, "pipe")
<1>1. /\ mem \subseteq Addr /\ recycle \in Seq(Addr) /\ id \in [Addr -> Ids]
      /\ nextid \in Nat /\ frefs \in [Addr -> SUBSET Frames]
      /\ IsInjective(recycle)
  BY DEF Structure, Linear, TypeOK
<1>2. Apart(Range(wins), Range(rmts), keys, NodesAt(calls, "pipe"), Range(recycle), mem)
  BY DEF Structure, Places
<1>3. mem' \subseteq Addr /\ nextid' \in Nat /\ frefs' \in [Addr -> SUBSET Frames] /\ mem' = mem \cup {a}
  BY <1>1 DEF Unalloc
<1>4. id' \in [Addr -> Ids] /\ links' \in [Addr -> Links]
  BY <1>1, ShortIds DEF Unalloc, Structure, TypeOK, Links
<1>5. CASE recycle = <<>>
  <2>1. recycle' = recycle /\ a \notin mem
    BY <1>5 DEF Unalloc
  <2>2. a \notin Range(recycle)
    BY <2>1, <1>2 DEF Apart
  <2> QED BY <1>1, <1>2, <1>3, <1>4, <2>1, <2>2 DEF Apart
<1>6. CASE recycle # <<>>
  <2>1. recycle' = Tail(recycle) /\ a = Head(recycle)
    BY <1>6 DEF Unalloc
  <2>2. /\ a \in Range(recycle) /\ recycle' \in Seq(Addr) /\ IsInjective(recycle')
        /\ Range(recycle') = Range(recycle) \ {a}
    BY <1>1, <1>6, <2>1, TailRange
  <2> QED BY <1>2, <1>3, <1>4, <2>2 DEF Apart
<1> QED BY <1>5, <1>6

LEMMA DiscardEffect ==
  ASSUME Structure, NEW a \in Addr, Discard(a), a \notin Range(recycle)
  PROVE  /\ mem' \subseteq Addr /\ recycle' \in Seq(Addr) /\ id' \in [Addr -> Ids]
         /\ nextid' \in Nat /\ links' \in [Addr -> Links]
         /\ IsInjective(recycle')
         /\ Range(recycle') = Range(recycle) \cup {a} /\ mem' = mem
<1>1. /\ mem \subseteq Addr /\ recycle \in Seq(Addr) /\ id \in [Addr -> Ids]
      /\ nextid \in Nat /\ IsInjective(recycle)
  BY DEF Structure, Linear, TypeOK
<1>2. recycle' = <<a>> \o recycle
  BY DEF Discard
<1>3. /\ recycle' \in Seq(Addr) /\ IsInjective(recycle')
      /\ Range(recycle') = Range(recycle) \cup {a}
  BY <1>1, <1>2, ConsRange
<1>4. links' \in [Addr -> Links]
  BY DEF Discard, Structure, TypeOK, Links, NoLinks, NodeOrNull
<1> QED BY <1>1, <1>3, <1>4, SomeIds DEF Discard

LEMMA DestroyEffect ==
  ASSUME TypeOK, NEW a \in Addr, DestroyPointers(a)
  PROVE  frame' \in [Frames -> NodeOrNull] /\ frefs' \in [Addr -> SUBSET Frames]
BY DEF TypeOK, DestroyPointers, NodeOrNull

-----------------------------------------------------------------------------
(* Programs that start and end.                                            *)

LEMMA EnterEffect ==
  ASSUME TypeOK, NEW win \in NodeOrNull, NEW rmt \in NodeOrNull, Enter(win, rmt)
  PROVE  /\ calls' \in Seq(Call) /\ cur_win' \in NodeOrNull /\ cur_rmt' \in NodeOrNull
         /\ \A k \in {"hook", "pipe"} :
              /\ NodesAt(calls', k) = NodesAt(calls, k)
              /\ Once(calls, k) => Once(calls', k)
<1> DEFINE c == [fn |-> "context", node |-> Null, lists |-> <<>>,
                 win |-> cur_win, wid |-> IdOf(cur_win),
                 rmt |-> cur_rmt, rid |-> IdOf(cur_rmt)]
<1>1. c \in Call /\ c.fn = "context"
  BY Saved DEF TypeOK, Call, NodeOrNull
<1>2. calls' = Append(calls, c) /\ calls \in Seq(Call) /\ cur_win' = win /\ cur_rmt' = rmt
  BY DEF Enter, TypeOK
<1> HIDE DEF c
<1>3. calls' \in Seq(Call)
  BY <1>1, <1>2
<1>4. ASSUME NEW k \in {"hook", "pipe"}
      PROVE  NodesAt(calls', k) = NodesAt(calls, k) /\ (Once(calls, k) => Once(calls', k))
  <2>1. c.fn # k
    BY <1>1
  <2> QED BY <1>1, <1>2, <2>1, PushOther
<1> QED BY <1>2, <1>3, <1>4

\* What disconnect() and close_window() add.
LEMMA PipeEffect ==
  ASSUME NEW cs \in Seq(Call), NEW a \in Addr, NEW ls \in {WinLists, RmtLists}
  PROVE  /\ Append(cs, Pipe(a, ls)) \in Seq(Call)
         /\ NodesAt(Append(cs, Pipe(a, ls)), "pipe") = NodesAt(cs, "pipe") \cup {a}
         /\ Once(cs, "pipe") /\ a \notin NodesAt(cs, "pipe")
              => Once(Append(cs, Pipe(a, ls)), "pipe")
         /\ NodesAt(Append(cs, Pipe(a, ls)), "hook") = NodesAt(cs, "hook")
         /\ Once(cs, "hook") => Once(Append(cs, Pipe(a, ls)), "hook")
<1> DEFINE c == Pipe(a, ls)
<1>1. c \in Call /\ c.fn = "pipe" /\ c.node = a
  BY CallTypes DEF Pipe
<1> HIDE DEF c
<1>2. Append(cs, c) \in Seq(Call)
  BY <1>1
<1>3. /\ NodesAt(Append(cs, c), "pipe") = NodesAt(cs, "pipe") \cup {a}
      /\ Once(cs, "pipe") /\ a \notin NodesAt(cs, "pipe") => Once(Append(cs, c), "pipe")
  BY <1>1, PushCall
<1>4. /\ NodesAt(Append(cs, c), "hook") = NodesAt(cs, "hook")
      /\ Once(cs, "hook") => Once(Append(cs, c), "hook")
  <2>1. c.fn # "hook"
    BY <1>1
  <2> QED BY <1>1, <2>1, PushOther
<1> QED BY <1>2, <1>3, <1>4 DEF c

\* The innermost call is over.
LEMMA PoppedEffect ==
  ASSUME Structure, calls # <<>>
  PROVE  /\ Popped \in Seq(Call) /\ Top \in Call
         /\ \A k \in {"hook", "pipe"} :
              /\ Once(Popped, k)
              /\ NodesAt(Popped, k) = NodesAt(calls, k) \ (IF Top.fn = k THEN {Top.node} ELSE {})
              /\ Top.fn = k => Top.node \in NodesAt(calls, k)
<1>1. calls \in Seq(Call) /\ \A k \in {"hook", "pipe"} : Once(calls, k)
  BY DEF Structure, TypeOK, Hooks
<1>2. Popped \in Seq(Call) /\ Top \in Call
  BY <1>1, PopCall DEF Popped, Top
<1>3. ASSUME NEW k \in {"hook", "pipe"}
      PROVE  /\ Once(Popped, k)
             /\ NodesAt(Popped, k) = NodesAt(calls, k) \ (IF Top.fn = k THEN {Top.node} ELSE {})
             /\ Top.fn = k => Top.node \in NodesAt(calls, k)
  BY <1>1, PopCall DEF Popped, Top
<1> QED BY <1>2, <1>3

-----------------------------------------------------------------------------
(* Every step keeps Structure.                                             *)

\* A remote leaves its ring.  cs are the calls below.
LEMMA DisconnectedStep ==
  ASSUME Structure, NEW r \in Range(rmts), NEW c \in NodeOrNull, NEW cs \in Seq(Call),
         \A k \in {"hook", "pipe"} : Once(cs, k),
         NodesAt(cs, "pipe") = NodesAt(calls, "pipe"),
         NodesAt(cs, "hook") = NodesAt(calls, "hook") \ {r},
         Disconnected(r, c, cs),
         UNCHANGED pool, stack' \in [Addr -> [Lists -> Seq(Context)]],
         Rdisconnected' \in [Addr -> BOOLEAN],
         \A a \in Addr \ {r} : Rdisconnected'[a] = Rdisconnected[a]
  PROVE  Structure'
<1> USE DEF Structure
<1>1. TypeOK /\ r \in Addr /\ rmts \in Seq(Addr) /\ IsInjective(rmts)
  BY RangeProperties DEF TypeOK, Linear
<1>2. /\ rmts' \in Seq(Addr) /\ IsInjective(rmts') /\ Range(rmts') = Range(rmts) \ {r}
  BY <1>1, WithoutRange DEF Disconnected
<1>3. /\ calls' \in Seq(Call)
      /\ NodesAt(calls', "pipe") = NodesAt(calls, "pipe") \cup {r}
      /\ Once(calls', "pipe")
      /\ NodesAt(calls', "hook") = NodesAt(calls, "hook") \ {r}
      /\ Once(calls', "hook")
  <2>1. calls' = Append(cs, Pipe(r, RmtLists)) /\ r \notin NodesAt(cs, "pipe")
    BY DEF Disconnected, Places, Apart
  <2> QED BY <1>1, <2>1, PipeEffect
<1>4. frame' \in [Frames -> NodeOrNull] /\ frefs' \in [Addr -> SUBSET Frames]
  BY <1>1, DestroyEffect DEF Disconnected
<1>5. /\ UNCHANGED <<Rwin, wins, keys, active_win, cur_win, mem, recycle, id, nextid, links>>
      /\ cur_rmt' = IF c = r THEN Null ELSE c
      /\ Wrmt' = IF Rwin[r] = Null THEN Wrmt ELSE [Wrmt EXCEPT ![Rwin[r]] = Null]
  BY DEF Disconnected, pool
<1>6. TypeOK'
  BY <1>1, <1>2, <1>3, <1>4, <1>5 DEF TypeOK, NodeOrNull
<1>7. Linear' /\ Places'
  BY <1>2, <1>3, <1>5 DEF Linear, Places, Apart
<1>8. Shown'
  <2>1. Range(wins) \subseteq Addr /\ Range(rmts) \subseteq Addr /\ Wrmt \in [Addr -> NodeOrNull]
    BY <1>1, RangeProperties DEF TypeOK
  <2>2. active_win' \in Range(wins')
    BY <1>5 DEF Shown
  <2>3. ASSUME NEW w \in Range(wins), Wrmt'[w] # Null
        PROVE  Wrmt'[w] \in Range(rmts) \ {r} /\ Rwin[Wrmt'[w]] = w
    <3>1. Wrmt'[w] = Wrmt[w]
      BY <1>5, <2>1, <2>3
    <3>2. Wrmt[w] = r => Rwin[r] = w /\ w # Null
      BY <2>1, NodesAssumption DEF Shown
    <3>3. Wrmt[w] # r
      BY <1>5, <2>1, <2>3, <3>1, <3>2
    <3> QED BY <2>3, <3>1, <3>3 DEF Shown
  <2>4. ASSUME NEW q \in Range(rmts) \ {r}, Rwin[q] # Null
        PROVE  Rwin[q] \in Range(wins) /\ Wrmt'[Rwin[q]] = q
    <3>1. Rwin[q] \in Range(wins) /\ Wrmt[Rwin[q]] = q
      BY <2>4 DEF Shown
    <3>2. Rwin[r] # Null => Wrmt[Rwin[r]] = r
      BY DEF Shown
    <3> QED BY <1>5, <2>1, <3>1, <3>2
  <2> QED BY <1>2, <1>5, <2>2, <2>3, <2>4 DEF Shown
<1>9. Hooks'
  <2>1. NodesAt(calls, "hook") \subseteq Addr
    BY <1>1, RangeProperties DEF Hooks
  <2> QED BY <1>2, <1>3, <2>1 DEF Hooks
<1> QED BY <1>3, <1>6, <1>7, <1>8, <1>9

\* The innermost program is over, or waits in a list.
LEMMA EndStep ==
  ASSUME Structure, ContextEnd \/ HookEnd,
         UNCHANGED <<pool, Rdisconnected>>, stack' \in [Addr -> [Lists -> Seq(Context)]]
  PROVE  Structure'
<1> USE DEF Structure
<1>1. TypeOK /\ calls # <<>>
  BY DEF ContextEnd, HookEnd
<1>2. /\ Popped \in Seq(Call) /\ Top \in Call
      /\ \A k \in {"hook", "pipe"} :
           /\ Once(Popped, k)
           /\ NodesAt(Popped, k) = NodesAt(calls, k) \ (IF Top.fn = k THEN {Top.node} ELSE {})
           /\ Top.fn = k => Top.node \in NodesAt(calls, k)
  BY <1>1, PoppedEffect
<1>3. Top.win \in NodeOrNull /\ Top.rmt \in NodeOrNull
  BY <1>2 DEF Call
<1>4. Back(Top.win, Top.wid) \in NodeOrNull /\ Back(Top.rmt, Top.rid) \in NodeOrNull
  BY <1>1, <1>3, Saved
<1>5. CASE ContextEnd
  <2>1. /\ UNCHANGED <<rings, shown, refs, pool, Rdisconnected>> /\ calls' = Popped
        /\ cur_win' \in NodeOrNull /\ cur_rmt' \in NodeOrNull
    BY <1>4, <1>5 DEF ContextEnd
  <2>2. Top.fn # "hook" /\ Top.fn # "pipe"
    BY <1>5 DEF ContextEnd
  <2>3. \A k \in {"hook", "pipe"} : Once(calls', k) /\ NodesAt(calls', k) = NodesAt(calls, k)
    BY <1>2, <2>1, <2>2
  <2>4. TypeOK'
    BY <1>1, <1>2, <2>1 DEF TypeOK, rings, shown, refs, pool
  <2>5. Linear' /\ Places' /\ Shown' /\ Hooks'
    BY <2>1, <2>3 DEF Linear, Places, Shown, Hooks, rings, shown, refs, pool
  <2> QED BY <2>3, <2>4, <2>5
<1>6. CASE HookEnd
  <2>1. Top.fn = "hook" /\ Top.fn # "pipe" /\ Disconnected(Top.node, Back(Top.rmt, Top.rid), Popped)
    BY <1>6 DEF HookEnd
  <2>2. Top.node \in NodesAt(calls, "hook")
    BY <1>2, <2>1
  <2>3. Top.node \in Range(rmts)
    BY <2>2 DEF Hooks
  <2>4. /\ NodesAt(Popped, "pipe") = NodesAt(calls, "pipe")
        /\ NodesAt(Popped, "hook") = NodesAt(calls, "hook") \ {Top.node}
    BY <1>2, <2>1
  <2>5. Rdisconnected' \in [Addr -> BOOLEAN] /\ \A a \in Addr : Rdisconnected'[a] = Rdisconnected[a]
    BY <1>1 DEF TypeOK
  <2> HIDE DEF Structure
  <2> DEFINE r == Top.node
             c == Back(Top.rmt, Top.rid)
             cs == Popped
  <2>6. /\ r \in Range(rmts) /\ c \in NodeOrNull /\ cs \in Seq(Call)
        /\ \A k \in {"hook", "pipe"} : Once(cs, k)
        /\ NodesAt(cs, "pipe") = NodesAt(calls, "pipe")
        /\ NodesAt(cs, "hook") = NodesAt(calls, "hook") \ {r}
        /\ Disconnected(r, c, cs) /\ UNCHANGED pool
    BY <1>2, <1>4, <2>1, <2>3, <2>4
  <2> HIDE DEF r, c, cs
  <2> QED BY <2>5, <2>6, DisconnectedStep
<1> QED BY <1>5, <1>6

\* Programs that leave alone what is being closed name the nodes of the rings.
LEMMA NamedNodes ==
  ASSUME SeeDying = FALSE
  PROVE  NamedWins = Range(wins) /\ NamedRmts = Range(rmts) /\ Named = InRings
BY DEF NamedWins, NamedRmts, Named, InRings

\* Where a window of the ring is, and which windows are its neighbours.
LEMMA Neighbours ==
  ASSUME Structure, NEW w \in Range(wins)
  PROVE  LET i == Place(w)
         IN /\ i \in 1..Len(wins) /\ wins[i] = w
            /\ IF i = 1 THEN Above(w) = Null
               ELSE /\ Above(w) \in Range(wins) \ {w, Null} /\ Place(Above(w)) = i - 1
            /\ IF i = Len(wins) THEN Below(w) = Null
               ELSE /\ Below(w) \in Range(wins) \ {w, Null} /\ Place(Below(w)) = i + 1
<1>1. wins \in Seq(Addr) /\ IsInjective(wins) /\ Range(wins) \subseteq Addr /\ Null \notin Addr
  BY RangeProperties, NodesAssumption DEF Structure, TypeOK, Linear
<1>2. ASSUME NEW v \in Range(wins)
      PROVE  /\ Place(v) \in 1..Len(wins) /\ wins[Place(v)] = v
             /\ \A j \in 1..Len(wins) : wins[j] = v => j = Place(v)
  BY <1>1, PlaceOf DEF Place
<1> DEFINE i == Place(w)
<1>3. i \in 1..Len(wins) /\ wins[i] = w
  BY <1>2
<1>4. ASSUME NEW j \in 1..Len(wins), j # i
      PROVE  wins[j] \in Range(wins) \ {w, Null} /\ Place(wins[j]) = j
  <2>1. wins[j] \in Range(wins)
    BY <1>1, RangeProperties
  <2> QED BY <1>1, <1>2, <1>4, <2>1
<1>5. /\ Above(w) = IF i = 1 THEN Null ELSE wins[i - 1]
      /\ Below(w) = IF i = Len(wins) THEN Null ELSE wins[i + 1]
  BY DEF Above, Below
<1>6. Len(wins) \in Nat
  BY <1>1
<1> HIDE DEF i
<1>7. i # 1 => i - 1 \in 1..Len(wins) /\ i - 1 # i
  BY <1>3, <1>6
<1>8. i # Len(wins) => i + 1 \in 1..Len(wins) /\ i + 1 # i
  BY <1>3, <1>6
<1> QED BY <1>3, <1>4, <1>5, <1>7, <1>8 DEF i

\* A window of the ring is unlinked; another is linked before it.
LEMMA JoinedRing ==
  ASSUME Structure, NEW w \in Range(wins), NEW a \in Addr
  PROVE  /\ Joined(w, <<>>) = Without(wins, w)
         /\ Place(w) \in DOMAIN wins /\ Joined(w, <<a, w>>) = InsertAt(wins, Place(w), a)
<1> DEFINE i == Place(w)
           b == SubSeq(wins, 1, i - 1)
           c == SubSeq(wins, i + 1, Len(wins))
<1>1. wins \in Seq(Addr) /\ Len(wins) \in Nat /\ DOMAIN wins = 1..Len(wins)
  BY DEF Structure, TypeOK
<1>2. i \in 1..Len(wins) /\ wins[i] = w
  BY Neighbours
<1>3. b \in Seq(Addr) /\ c \in Seq(Addr) /\ w \in Addr
  BY <1>1, <1>2
<1>4. (IF Above(w) = Null THEN <<>> ELSE SubSeq(wins, 1, Place(Above(w)))) = b
  <2>1. CASE i = 1
    <3>1. b = <<>>
      BY <1>1, <2>1
    <3> QED BY <2>1, <3>1, Neighbours
  <2>2. CASE i # 1
    BY <2>2, Neighbours
  <2> QED BY <2>1, <2>2
<1>5. (IF Below(w) = Null THEN <<>> ELSE SubSeq(wins, Place(Below(w)), Len(wins))) = c
  <2>1. CASE i = Len(wins)
    <3>1. c = <<>>
      BY <1>1, <2>1
    <3> QED BY <2>1, <3>1, Neighbours
  <2>2. CASE i # Len(wins)
    BY <2>2, Neighbours
  <2> QED BY <2>1, <2>2
<1>6. \A s : Joined(w, s) = b \o s \o c
  BY <1>4, <1>5 DEF Joined
<1>7. SubSeq(wins, i, Len(wins)) = <<w>> \o c
  <2>1. i \in 1..Len(wins) /\ Len(wins) \in i..Len(wins)
    BY <1>1, <1>2
  <2> QED BY <1>1, <1>2, <2>1, SubSeqRecursiveFirst
<1>8. Without(wins, w) = b \o c
  BY DEF Without, RemoveAt, Place
<1> HIDE DEF b, c
<1>9. b \o <<>> \o c = b \o c
  BY <1>3, ConcatEmptySeq
<1>10. b \o <<a, w>> \o c = b \o <<a>> \o (<<w>> \o c)
  <2>1. <<a, w>> = <<a>> \o <<w>>
    OBVIOUS
  <2>2. /\ <<a>> \in Seq(Addr) /\ <<w>> \in Seq(Addr) /\ <<w>> \o c \in Seq(Addr)
        /\ b \o <<a>> \in Seq(Addr)
    BY <1>3
  <2>3. b \o (<<a>> \o <<w>>) = (b \o <<a>>) \o <<w>>
    BY <1>3, <2>2, ConcatAssociative
  <2>4. ((b \o <<a>>) \o <<w>>) \o c = (b \o <<a>>) \o (<<w>> \o c)
    BY <1>3, <2>2, ConcatAssociative
  <2> QED BY <2>1, <2>3, <2>4
<1>11. InsertAt(wins, i, a) = b \o <<a>> \o (<<w>> \o c)
  BY <1>7 DEF InsertAt, b
<1> QED BY <1>1, <1>2, <1>6, <1>8, <1>9, <1>10, <1>11

LEMMA SplitAbove ==
  ASSUME SeeDying = FALSE, Structure, NEW a \in Addr, NEW w \in Addr, SplitWindow(w, a)
  PROVE  \E i \in DOMAIN wins : wins' = InsertAt(wins, i, a)
BY NamedNodes, JoinedRing DEF SplitWindow

LEMMA CloseBetween ==
  ASSUME SeeDying = FALSE, Structure, NEW w \in Addr, NEW into \in Addr, CloseWindow(w, into)
  PROVE  /\ w \in Range(wins) /\ into \in Range(wins) /\ w # into
         /\ wins' = Without(wins, w) /\ links' \in [Addr -> Links]
<1>1. w \in Range(wins) /\ into \in {Above(w), Below(w)} \ {Null} /\ wins' = Joined(w, <<>>)
  BY NamedNodes DEF CloseWindow
<1>2. {Above(w), Below(w)} \subseteq (Range(wins) \ {w}) \cup {Null}
  BY <1>1, Neighbours
<1>3. links' \in [Addr -> Links]
  <2>1. Range(wins) \subseteq Addr
    BY RangeProperties DEF Structure, TypeOK
  <2>2. [prev |-> Above(w), next |-> Below(w)] \in Links
    BY <1>2, <2>1 DEF Links, NodeOrNull
  <2> QED BY <2>2 DEF CloseWindow, Structure, TypeOK, Links
<1> QED BY <1>1, <1>2, <1>3, JoinedRing

\* A node is created.
LEMMA CreateStep ==
  ASSUME SeeDying = FALSE, Structure, NEW a \in Addr,
         \/ NewRmt(a) \/ AddKey(a)
         \/ \E w \in Addr : SplitWindow(w, a)
  PROVE  Structure'
<1> USE DEF Structure
<1>1. TypeOK /\ Unalloc(a)
  BY DEF NewRmt, AddKey, SplitWindow
<1>2. /\ mem' \subseteq Addr /\ recycle' \in Seq(Addr) /\ id' \in [Addr -> Ids]
      /\ nextid' \in Nat /\ links' \in [Addr -> Links]
      /\ frefs' \in [Addr -> SUBSET Frames] /\ IsInjective(recycle')
      /\ Range(recycle') = Range(recycle) \ {a} /\ mem' = mem \cup {a}
      /\ a \notin Range(wins) \cup Range(rmts) \cup keys \cup NodesAt(calls, "pipe")
  BY <1>1, UnallocEffect
<1>3. /\ wins \in Seq(Addr) /\ IsInjective(wins) /\ Range(wins) \subseteq Addr
      /\ rmts \in Seq(Addr) /\ IsInjective(rmts) /\ Range(rmts) \subseteq Addr
  BY <1>1, RangeProperties DEF TypeOK, Linear
<1>4. [stack EXCEPT ![a] = NoLists] \in [Addr -> [Lists -> Seq(Context)]]
  BY <1>1, CallTypes DEF TypeOK
<1>5. NodesAt(calls, "hook") \subseteq Range(rmts)
  BY DEF Hooks
<1>6. CASE NewRmt(a)
  <2>1. /\ UNCHANGED <<wins, keys, Wrmt, active_win, frame, cur_win, cur_rmt, calls>>
        /\ rmts' = Append(rmts, a)
        /\ Rwin' = [Rwin EXCEPT ![a] = Null]
        /\ Rdisconnected' = [Rdisconnected EXCEPT ![a] = FALSE]
        /\ stack' = [stack EXCEPT ![a] = NoLists]
    BY <1>6 DEF NewRmt, context
  <2>2. rmts' \in Seq(Addr) /\ IsInjective(rmts') /\ Range(rmts') = Range(rmts) \cup {a}
    BY <1>2, <1>3, <2>1, AppendRange
  <2>3. TypeOK'
    BY <1>1, <1>2, <1>4, <2>1, <2>2 DEF TypeOK, NodeOrNull, Links
  <2>4. Linear' /\ Places'
    BY <1>2, <2>1, <2>2 DEF Linear, Places, Apart
  <2>5. Shown'
    BY <1>1, <1>2, <2>1, <2>2 DEF Shown, TypeOK
  <2>6. Hooks'
    BY <1>1, <1>2, <1>5, <2>1, <2>2 DEF Hooks, TypeOK
  <2> QED BY <2>1, <2>3, <2>4, <2>5, <2>6
<1>7. CASE AddKey(a)
  <2>1. /\ UNCHANGED <<wins, rmts, Wrmt, Rwin, active_win, Rdisconnected, stack, frame,
                       cur_win, cur_rmt, calls>>
        /\ keys' = keys \cup {a}
    BY <1>7 DEF AddKey, context, shown
  <2>2. TypeOK'
    BY <1>1, <1>2, <2>1 DEF TypeOK, Links
  <2>3. Linear' /\ Places'
    BY <1>2, <2>1 DEF Linear, Places, Apart
  <2>4. Shown' /\ Hooks'
    BY <2>1 DEF Shown, Hooks
  <2> QED BY <2>1, <2>2, <2>3, <2>4
<1>8. CASE \E w \in Addr : SplitWindow(w, a)
  <2>0. PICK w \in Addr : SplitWindow(w, a)
    BY <1>8
  <2>1. /\ UNCHANGED <<rmts, keys, Rwin, active_win, Rdisconnected, frame,
                       cur_win, cur_rmt, calls>>
        /\ Wrmt' = [Wrmt EXCEPT ![a] = Null]
        /\ stack' = [stack EXCEPT ![a] = NoLists]
    BY <2>0 DEF SplitWindow, context
  <2>2. wins' \in Seq(Addr) /\ IsInjective(wins') /\ Range(wins') = Range(wins) \cup {a}
    <3>1. PICK i \in DOMAIN wins : wins' = InsertAt(wins, i, a)
      BY <2>0, SplitAbove
    <3>2. i \in 1..(Len(wins) + 1)
      BY <1>3
    <3> QED BY <1>2, <1>3, <3>1, <3>2, InsertRange
  <2>3. TypeOK'
    BY <1>1, <1>2, <1>4, <2>1, <2>2 DEF TypeOK, NodeOrNull, Links
  <2>4. Linear' /\ Places'
    BY <1>2, <2>1, <2>2 DEF Linear, Places, Apart
  <2>5. Shown'
    BY <1>1, <1>2, <2>1, <2>2 DEF Shown, TypeOK
  <2>6. Hooks'
    BY <2>1 DEF Hooks
  <2> QED BY <2>1, <2>3, <2>4, <2>5, <2>6
<1> QED BY <1>6, <1>7, <1>8

\* A key goes.
LEMMA DelKeyStep ==
  ASSUME Structure, NEW a \in Addr, DelKey(a)
  PROVE  Structure'
<1> USE DEF Structure
<1>1. /\ TypeOK /\ a \in keys /\ keys' = keys \ {a} /\ DestroyPointers(a) /\ Discard(a)
      /\ UNCHANGED <<wins, rmts, Wrmt, Rwin, active_win, Rdisconnected, stack,
                     cur_win, cur_rmt, calls>>
  BY DEF DelKey, shown, context
<1>2. a \notin Range(recycle) /\ a \notin Range(wins) \cup Range(rmts) \cup NodesAt(calls, "pipe")
  BY <1>1 DEF Places, Apart
<1>3. /\ mem' \subseteq Addr /\ recycle' \in Seq(Addr) /\ id' \in [Addr -> Ids]
      /\ nextid' \in Nat /\ IsInjective(recycle') /\ links' \in [Addr -> Links]
      /\ Range(recycle') = Range(recycle) \cup {a} /\ mem' = mem
  BY <1>1, <1>2, DiscardEffect
<1>4. frame' \in [Frames -> NodeOrNull] /\ frefs' \in [Addr -> SUBSET Frames]
  BY <1>1, DestroyEffect
<1>5. TypeOK'
  BY <1>1, <1>3, <1>4 DEF TypeOK, Links
<1>6. Linear' /\ Places'
  BY <1>1, <1>2, <1>3 DEF Linear, Places, Apart
<1>7. Shown' /\ Hooks'
  BY <1>1 DEF Shown, Hooks
<1> QED BY <1>1, <1>5, <1>6, <1>7

\* A window shows another remote, or becomes the active one; a data frame
\* refers to another node.
LEMMA ShowStep ==
  ASSUME SeeDying = FALSE, Structure,
         \/ \E w \in Addr, r \in Addr \cup {Null} : Display(w, r)
         \/ \E w \in Addr : NewActiveWin(w)
         \/ \E f \in Frames, a \in Addr \cup {Null} : Refer(f, a)
  PROVE  Structure'
<1> USE DEF Structure
<1>1. /\ TypeOK
      /\ UNCHANGED <<mem, recycle, id, nextid, links, wins, rmts, keys, Rdisconnected, stack,
                     cur_win, cur_rmt, calls>>
  BY DEF Display, NewActiveWin, Refer, pool, rings, context
<1>2. Linear' /\ Places' /\ Hooks' /\ Once(calls, "pipe")'
  BY <1>1 DEF Linear, Places, Hooks
<1>3. ASSUME NEW w \in Addr, NEW r \in Addr \cup {Null}, Display(w, r)
      PROVE  TypeOK' /\ Shown'
  <2>1. /\ UNCHANGED <<frame, frefs, active_win>> /\ w \in Range(wins)
        /\ r # Null => r \in Range(rmts) /\ Rwin[r] = Null
        /\ Wrmt' = [Wrmt EXCEPT ![w] = r]
        /\ Rwin' = [a \in Addr |-> IF a = r THEN w ELSE IF a = Wrmt[w] THEN Null ELSE Rwin[a]]
    BY <1>3, NamedNodes DEF Display, refs
  <2>2. TypeOK'
    BY <1>1, <2>1 DEF TypeOK, NodeOrNull
  <2>3. Range(wins) \subseteq Addr /\ Range(rmts) \subseteq Addr /\ Wrmt \in [Addr -> NodeOrNull]
    BY <1>1, RangeProperties DEF TypeOK
  <2>4. ASSUME NEW v \in Range(wins), Wrmt'[v] # Null
        PROVE  Wrmt'[v] \in Range(rmts) /\ Rwin'[Wrmt'[v]] = v
    <3>1. CASE v = w
      BY <2>1, <2>3, <2>4, <3>1
    <3>2. CASE v # w
      <4>1. Wrmt'[v] = Wrmt[v]
        BY <2>1, <2>3, <3>2
      <4>2. Wrmt[v] \in Range(rmts) /\ Rwin[Wrmt[v]] = v /\ v # Null
        BY <2>3, <2>4, <4>1, NodesAssumption DEF Shown
      <4>3. Wrmt[v] # r /\ (Wrmt[w] # Null => Rwin[Wrmt[w]] = w)
        BY <2>1, <2>4, <4>1, <4>2 DEF Shown
      <4> QED BY <2>1, <2>3, <2>4, <3>2, <4>1, <4>2, <4>3
    <3> QED BY <3>1, <3>2
  <2>5. ASSUME NEW q \in Range(rmts), Rwin'[q] # Null
        PROVE  Rwin'[q] \in Range(wins) /\ Wrmt'[Rwin'[q]] = q
    <3>1. CASE q = r
      BY <1>1, <2>1, <2>3, <3>1 DEF TypeOK
    <3>2. CASE q # r
      <4>1. q # Wrmt[w] /\ Rwin'[q] = Rwin[q] /\ Rwin[q] # Null
        BY <2>1, <2>3, <2>5, <3>2
      <4>2. Rwin[q] \in Range(wins) /\ Wrmt[Rwin[q]] = q
        BY <4>1 DEF Shown
      <4> QED BY <2>1, <2>3, <4>1, <4>2
    <3> QED BY <3>1, <3>2
  <2> QED BY <1>1, <2>1, <2>2, <2>4, <2>5 DEF Shown
<1>4. ASSUME NEW w \in Addr, NewActiveWin(w)
      PROVE  TypeOK' /\ Shown'
  BY <1>1, <1>4, NamedNodes DEF NewActiveWin, TypeOK, Shown, refs
<1>5. ASSUME NEW f \in Frames, NEW a \in Addr \cup {Null}, Refer(f, a)
      PROVE  TypeOK' /\ Shown'
  <2>1. /\ UNCHANGED <<Wrmt, Rwin, active_win>>
        /\ frame' = [frame EXCEPT ![f] = a]
        /\ frefs' = [b \in Addr |-> IF b = a THEN frefs[b] \cup {f}
                                    ELSE IF b = frame[f] THEN frefs[b] \ {f} ELSE frefs[b]]
    BY <1>5 DEF Refer, shown
  <2>2. frame' \in [Frames -> NodeOrNull] /\ frefs' \in [Addr -> SUBSET Frames]
    BY <1>1, <2>1 DEF TypeOK, NodeOrNull
  <2> QED BY <1>1, <2>1, <2>2 DEF TypeOK, Shown
<1> QED BY <1>2, <1>3, <1>4, <1>5

\* A program starts or resumes.
LEMMA EnterStep ==
  ASSUME Structure, NEW win \in NodeOrNull, NEW rmt \in NodeOrNull, Enter(win, rmt),
         UNCHANGED <<pool, rings, shown, Rdisconnected, refs>>,
         stack' \in [Addr -> [Lists -> Seq(Context)]]
  PROVE  Structure'
<1> USE DEF Structure
<1>1. /\ calls' \in Seq(Call) /\ cur_win' \in NodeOrNull /\ cur_rmt' \in NodeOrNull
      /\ \A k \in {"hook", "pipe"} : NodesAt(calls', k) = NodesAt(calls, k) /\ Once(calls', k)
  BY EnterEffect DEF Hooks
<1>2. TypeOK' /\ Linear' /\ Places' /\ Shown' /\ Hooks'
  BY <1>1 DEF TypeOK, Linear, Places, Shown, Hooks, pool, rings, shown, refs
<1> QED BY <1>1, <1>2

LEMMA ResumeEffect ==
  ASSUME Structure, NEW a \in Addr, NEW l \in Lists, ResumeHead(a, l)
  PROVE  /\ \E win, rmt \in NodeOrNull : Enter(win, rmt)
         /\ stack' \in [Addr -> [Lists -> Seq(Context)]]
<1>1. TypeOK /\ stack[a][l] # <<>>
  BY DEF Structure, ResumeHead
<1>2. Head(stack[a][l]) \in Context
  BY <1>1, ListTypes DEF TypeOK
<1>3. stack' \in [Addr -> [Lists -> Seq(Context)]]
  BY <1>1, ListTypes DEF ResumeHead, TypeOK
<1> DEFINE es == Head(stack[a][l])
<1>4. Enter(Back(es.win, es.wid), Back(es.rmt, es.rid))
  BY DEF ResumeHead
<1>5. Back(es.win, es.wid) \in NodeOrNull /\ Back(es.rmt, es.rid) \in NodeOrNull
  BY <1>1, <1>2, Saved DEF Context
<1> QED BY <1>3, <1>4, <1>5

LEMMA StartStep ==
  ASSUME Structure,
         \/ \E a \in Addr : RunProgIstr(a)
         \/ \E a \in Addr, l \in Lists : Resume(a, l)
  PROVE  Structure'
<1>1. ASSUME NEW a \in Addr, RunProgIstr(a)
      PROVE  Structure'
  <2>1. \E win, rmt \in NodeOrNull : Enter(win, rmt)
    BY <1>1 DEF RunProgIstr, NodeOrNull
  <2>2. UNCHANGED <<pool, rings, shown, Rdisconnected, stack, refs>>
    BY <1>1 DEF RunProgIstr
  <2>3. stack' \in [Addr -> [Lists -> Seq(Context)]]
    BY <2>2 DEF Structure, TypeOK
  <2> QED BY <2>1, <2>2, <2>3, EnterStep
<1>2. ASSUME NEW a \in Addr, NEW l \in Lists, Resume(a, l)
      PROVE  Structure'
  <2>1. ResumeHead(a, l) /\ UNCHANGED <<pool, rings, shown, Rdisconnected, refs>>
    BY <1>2 DEF Resume
  <2> QED BY <2>1, ResumeEffect, EnterStep
<1> QED BY <1>1, <1>2

\* A program waits for input, or is over.
LEMMA SuspendStep ==
  ASSUME Structure, NEW a \in Addr, NEW l \in Lists, Suspend(a, l)
  PROVE  Structure'
<1> DEFINE c == [win |-> cur_win, wid |-> IdOf(cur_win), rmt |-> cur_rmt, rid |-> IdOf(cur_rmt)]
<1>1. TypeOK
  BY DEF Structure
<1>2. c \in Context
  BY <1>1, Saved DEF Context, TypeOK
<1>3. stack' = [stack EXCEPT ![a][l] = Append(@, c)]
  BY DEF Suspend
<1> HIDE DEF c
<1>4. stack' \in [Addr -> [Lists -> Seq(Context)]]
  BY <1>1, <1>2, <1>3, ListTypes DEF TypeOK
<1>5. UNCHANGED <<pool, Rdisconnected>>
  BY DEF Suspend
<1>6. CASE ContextEnd \/ HookEnd
  BY <1>4, <1>5, <1>6, EndStep
<1>7. CASE UNCHANGED <<rings, shown, refs, context, calls>>
  BY <1>4, <1>5, <1>7
  DEF Structure, TypeOK, Linear, Places, Shown, Hooks, pool, rings, shown, refs, context
<1> QED BY <1>6, <1>7 DEF Suspend

LEMMA ProgEndStep ==
  ASSUME Structure, ProgEnd
  PROVE  Structure'
<1>1. stack' \in [Addr -> [Lists -> Seq(Context)]]
  BY DEF ProgEnd, Structure, TypeOK
<1> QED BY <1>1, EndStep DEF ProgEnd

-----------------------------------------------------------------------------
(* Nodes that go.                                                          *)

LEMMA DisconnectStep ==
  ASSUME Structure, NEW r \in Addr, Disconnect(r)
  PROVE  Structure'
<1>1. /\ TypeOK /\ r \in Range(rmts) /\ Rdisconnected[r] = FALSE
      /\ Rdisconnected' = [Rdisconnected EXCEPT ![r] = TRUE]
      /\ UNCHANGED <<pool, stack>>
  BY DEF Structure, Disconnect, TypeOK
<1>2. /\ Rdisconnected' \in [Addr -> BOOLEAN] /\ Rdisconnected'[r] = TRUE
      /\ \A a \in Addr \ {r} : Rdisconnected'[a] = Rdisconnected[a]
  BY <1>1 DEF TypeOK
<1>3. r \notin NodesAt(calls, "hook")
  BY <1>1 DEF Structure, Hooks
<1>4. CASE Disconnected(r, cur_rmt, calls)
  <2> DEFINE cs == calls
             c == cur_rmt
  <2>1. /\ c \in NodeOrNull /\ cs \in Seq(Call) /\ \A k \in {"hook", "pipe"} : Once(cs, k)
        /\ NodesAt(cs, "pipe") = NodesAt(calls, "pipe")
        /\ NodesAt(cs, "hook") = NodesAt(calls, "hook") \ {r}
        /\ Disconnected(r, c, cs)
    BY <1>3, <1>4 DEF Structure, TypeOK, Hooks
  <2>2. UNCHANGED pool /\ stack' \in [Addr -> [Lists -> Seq(Context)]]
    BY <1>1 DEF TypeOK
  <2> HIDE DEF cs, c
  <2> QED BY <1>1, <1>2, <2>1, <2>2, DisconnectedStep
<1>5. CASE ~Disconnected(r, cur_rmt, calls)
  <2> DEFINE c == [fn |-> "hook", node |-> r, lists |-> <<>>, win |-> Null, wid |-> 0,
                   rmt |-> cur_rmt, rid |-> IdOf(cur_rmt)]
  <2>1. /\ calls' = Append(calls, c) /\ cur_rmt' = r
        /\ UNCHANGED <<rings, shown, refs, cur_win>>
    BY <1>5 DEF Disconnect
  <2>2. c \in Call /\ c.fn = "hook" /\ c.node = r
    BY <1>1, Saved, SomeIds DEF Call, TypeOK, NodeOrNull
  <2> HIDE DEF c
  <2>3. calls \in Seq(Call) /\ c.fn # "pipe"
    BY <1>1, <2>2 DEF TypeOK
  <2>4. NodesAt(calls', "pipe") = NodesAt(calls, "pipe") /\ Once(calls', "pipe")
    BY <2>1, <2>2, <2>3, PushOther DEF Structure
  <2>5. NodesAt(calls', "hook") = NodesAt(calls, "hook") \cup {r} /\ Once(calls', "hook")
    BY <1>3, <2>1, <2>2, <2>3, PushCall DEF Structure, Hooks
  <2>6. calls' \in Seq(Call)
    BY <2>1, <2>2, <2>3
  <2>7. TypeOK'
    BY <1>1, <1>2, <2>1, <2>6 DEF TypeOK, NodeOrNull, pool, rings, shown, refs
  <2>8. Linear' /\ Places' /\ Shown'
    BY <1>1, <2>1, <2>4 DEF Structure, Linear, Places, Shown, pool, rings, shown, refs
  <2>9. Hooks'
    <3>1. Range(rmts) \subseteq Addr
      BY <1>1, RangeProperties DEF TypeOK
    <3> QED BY <1>1, <1>2, <2>1, <2>5, <3>1 DEF Structure, Hooks, rings
  <2> QED BY <2>4, <2>7, <2>8, <2>9 DEF Structure
<1> QED BY <1>4, <1>5

\* A window leaves its ring; the remote it shows is no longer shown.
LEMMA WindowGone ==
  ASSUME Structure, NEW w \in Range(wins), NEW into \in Range(wins), into # w,
         Rwin' = IF Wrmt[w] = Null THEN Rwin ELSE [Rwin EXCEPT ![Wrmt[w]] = Null],
         active_win' = IF active_win = w THEN into ELSE active_win,
         wins' = Without(wins, w), UNCHANGED <<Wrmt, rmts>>
  PROVE  /\ wins' \in Seq(Addr) /\ IsInjective(wins') /\ Range(wins') = Range(wins) \ {w}
         /\ w \in Addr /\ Rwin' \in [Addr -> NodeOrNull] /\ active_win' \in Addr
         /\ Shown'
<1>1. /\ wins \in Seq(Addr) /\ IsInjective(wins) /\ Range(wins) \subseteq Addr
      /\ rmts \in Seq(Addr) /\ Range(rmts) \subseteq Addr
      /\ Rwin \in [Addr -> NodeOrNull] /\ Wrmt \in [Addr -> NodeOrNull]
  BY RangeProperties DEF Structure, TypeOK, Linear
<1>2. wins' \in Seq(Addr) /\ IsInjective(wins') /\ Range(wins') = Range(wins) \ {w}
  BY <1>1, WithoutRange
<1>3. w \in Addr /\ Rwin' \in [Addr -> NodeOrNull]
  BY <1>1 DEF NodeOrNull
<1>4. active_win' \in Range(wins')
  BY <1>2 DEF Structure, Shown
<1>5. ASSUME NEW v \in Range(wins) \ {w}, Wrmt[v] # Null
      PROVE  Wrmt[v] \in Range(rmts) /\ Rwin'[Wrmt[v]] = v
  <2>1. Wrmt[v] \in Range(rmts) /\ Rwin[Wrmt[v]] = v /\ (Wrmt[w] # Null => Rwin[Wrmt[w]] = w)
    BY <1>5 DEF Structure, Shown
  <2> QED BY <1>1, <1>5, <2>1
<1>6. ASSUME NEW q \in Range(rmts), Rwin'[q] # Null
      PROVE  Rwin'[q] \in Range(wins) \ {w} /\ Wrmt[Rwin'[q]] = q
  <2>1. Rwin'[q] = Rwin[q] /\ (Wrmt[w] # Null => q # Wrmt[w])
    BY <1>1, <1>6
  <2>2. Rwin[q] \in Range(wins) /\ Wrmt[Rwin[q]] = q /\ q # Null
    BY <1>1, <1>6, <2>1, NodesAssumption DEF Structure, Shown
  <2> QED BY <2>1, <2>2
<1>7. Shown'
  BY <1>2, <1>4, <1>5, <1>6 DEF Shown
<1>8. active_win' \in Addr
  BY <1>1, <1>2, <1>4
<1> QED BY <1>2, <1>3, <1>7, <1>8

LEMMA CloseWindowStep ==
  ASSUME SeeDying = FALSE, Structure, NEW w \in Addr, NEW into \in Addr, CloseWindow(w, into)
  PROVE  Structure'
<1>1. /\ TypeOK /\ DestroyPointers(w)
      /\ Rwin' = IF Wrmt[w] = Null THEN Rwin ELSE [Rwin EXCEPT ![Wrmt[w]] = Null]
      /\ active_win' = IF active_win = w THEN into ELSE active_win
      /\ cur_win' = IF cur_win = w THEN Null ELSE cur_win
      /\ calls' = Append(calls, Pipe(w, WinLists))
      /\ UNCHANGED <<mem, recycle, id, nextid, rmts, keys, Wrmt, Rdisconnected, stack, cur_rmt>>
  BY DEF CloseWindow, Structure
<1>2. /\ w \in Range(wins) /\ into \in Range(wins) /\ w # into /\ wins' = Without(wins, w)
      /\ links' \in [Addr -> Links]
  BY CloseBetween
<1>3. /\ wins' \in Seq(Addr) /\ IsInjective(wins') /\ Range(wins') = Range(wins) \ {w}
      /\ w \in Addr /\ Rwin' \in [Addr -> NodeOrNull] /\ active_win' \in Addr
      /\ Shown'
  BY <1>1, <1>2, WindowGone
<1>4. /\ calls' \in Seq(Call)
      /\ NodesAt(calls', "pipe") = NodesAt(calls, "pipe") \cup {w}
      /\ Once(calls', "pipe")
      /\ NodesAt(calls', "hook") = NodesAt(calls, "hook")
      /\ Once(calls', "hook")
  <2>1. w \notin NodesAt(calls, "pipe")
    BY <1>2 DEF Structure, Places, Apart
  <2>2. calls \in Seq(Call) /\ Once(calls, "pipe") /\ Once(calls, "hook")
    BY <1>1 DEF TypeOK, Structure, Hooks
  <2> QED BY <1>1, <1>3, <2>1, <2>2, PipeEffect
<1>5. frame' \in [Frames -> NodeOrNull] /\ frefs' \in [Addr -> SUBSET Frames]
  BY <1>1, <1>3, DestroyEffect
<1>6. TypeOK'
  BY <1>1, <1>2, <1>3, <1>4, <1>5 DEF TypeOK, NodeOrNull, Links
<1>7. Linear' /\ Places'
  BY <1>1, <1>2, <1>3, <1>4 DEF Structure, Linear, Places, Apart
<1>8. Hooks'
  BY <1>1, <1>4 DEF Structure, Hooks
<1> QED BY <1>3, <1>4, <1>6, <1>7, <1>8 DEF Structure

LEMMA DropWindowStep ==
  ASSUME Structure, DropWindow
  PROVE  Structure'
<1> DEFINE w == wins[Len(wins)]
           into == wins[Len(wins) - 1]
<1>1. /\ TypeOK /\ DestroyPointers(w) /\ Discard(w)
      /\ Rwin' = IF Wrmt[w] = Null THEN Rwin ELSE [Rwin EXCEPT ![Wrmt[w]] = Null]
      /\ active_win' = IF active_win = w THEN into ELSE active_win
      /\ cur_win' = IF cur_win = w THEN Null ELSE cur_win
      /\ wins' = Without(wins, w) /\ Len(wins) > 1
      /\ stack' = [stack EXCEPT ![w] = NoLists]
      /\ UNCHANGED <<rmts, keys, Wrmt, Rdisconnected, cur_rmt, calls>>
  BY DEF DropWindow, Structure
<1>2. w \in Range(wins) /\ into \in Range(wins) /\ w # into
  <2>1. /\ Len(wins) \in DOMAIN wins /\ Len(wins) - 1 \in DOMAIN wins
        /\ Len(wins) # Len(wins) - 1
    BY <1>1 DEF TypeOK
  <2> QED BY <2>1 DEF Structure, Linear, IsInjective, Range
<1> HIDE DEF w, into
<1>3. /\ wins' \in Seq(Addr) /\ IsInjective(wins') /\ Range(wins') = Range(wins) \ {w}
      /\ w \in Addr /\ Rwin' \in [Addr -> NodeOrNull] /\ active_win' \in Addr
      /\ Shown'
  BY <1>1, <1>2, WindowGone
<1>4. w \notin Range(recycle) /\ w \notin Range(rmts) \cup keys \cup NodesAt(calls, "pipe")
  BY <1>2 DEF Structure, Places, Apart
<1>5. /\ mem' \subseteq Addr /\ recycle' \in Seq(Addr) /\ id' \in [Addr -> Ids]
      /\ nextid' \in Nat /\ IsInjective(recycle') /\ links' \in [Addr -> Links]
      /\ Range(recycle') = Range(recycle) \cup {w} /\ mem' = mem
  BY <1>1, <1>3, <1>4, DiscardEffect
<1>6. frame' \in [Frames -> NodeOrNull] /\ frefs' \in [Addr -> SUBSET Frames]
  BY <1>1, <1>3, DestroyEffect
<1>7. stack' \in [Addr -> [Lists -> Seq(Context)]]
  BY <1>1, CallTypes DEF TypeOK
<1>8. TypeOK'
  BY <1>1, <1>3, <1>5, <1>6, <1>7 DEF TypeOK, NodeOrNull, Links
<1>9. Linear' /\ Places'
  BY <1>1, <1>2, <1>3, <1>4, <1>5 DEF Structure, Linear, Places, Apart
<1>10. Hooks' /\ Once(calls, "pipe")'
  BY <1>1 DEF Structure, Hooks
<1> QED BY <1>3, <1>8, <1>9, <1>10 DEF Structure

LEMMA PipeStep ==
  ASSUME Structure, PipeNext \/ PipeList \/ PipeEnd
  PROVE  Structure'
<1>1. TypeOK /\ calls # <<>> /\ Top.fn = "pipe"
  BY DEF Structure, PipeNext, PipeList, PipeEnd, InPipe
<1>2. /\ Popped \in Seq(Call) /\ Top \in Call
      /\ \A k \in {"hook", "pipe"} :
           /\ Once(Popped, k)
           /\ NodesAt(Popped, k) = NodesAt(calls, k) \ (IF Top.fn = k THEN {Top.node} ELSE {})
           /\ Top.fn = k => Top.node \in NodesAt(calls, k)
  BY <1>1, PoppedEffect
<1>3. Top.node \in NodesAt(calls, "pipe")
  BY <1>1, <1>2
<1>4. Top.node \in Addr /\ Top.node \notin Range(recycle)
  BY <1>1, <1>3 DEF Structure, Places, Apart, TypeOK
<1>5. CASE PipeNext
  <2>1. /\ ResumeHead(Top.node, Head(Top.lists))
        /\ UNCHANGED <<pool, rings, shown, Rdisconnected, refs>>
    BY <1>5 DEF PipeNext
  <2>2. Head(Top.lists) \in Lists
    <3>1. Top.lists \in Seq(Lists) /\ Top.lists # <<>>
      BY <1>2, <1>5 DEF Call, PipeNext
    <3> DEFINE s == Top.lists
    <3>2. s \in Seq(Lists) /\ s # <<>>
      BY <3>1
    <3> HIDE DEF s
    <3>3. Head(s) \in Lists
      BY <3>2
    <3> QED BY <3>3 DEF s
  <2> QED BY <1>4, <2>1, <2>2, ResumeEffect, EnterStep
<1>6. CASE PipeList
  <2> DEFINE ls == Tail(Top.lists)
  <2>1. /\ calls' = [calls EXCEPT ![Len(calls)].lists = ls]
        /\ UNCHANGED <<pool, rings, shown, Rdisconnected, stack, refs, context>>
    BY <1>6 DEF PipeList, Top
  <2>2. ls \in Seq(Lists)
    BY <1>2, <1>6 DEF Call, PipeList
  <2> HIDE DEF ls
  <2>3. calls \in Seq(Call)
    BY <1>1 DEF TypeOK
  <2>4. /\ calls' \in Seq(Call)
        /\ NodesAt(calls', "pipe") = NodesAt(calls, "pipe") /\ Once(calls', "pipe")
        /\ NodesAt(calls', "hook") = NodesAt(calls, "hook") /\ Once(calls', "hook")
    BY <1>1, <2>1, <2>2, <2>3, ListsCall DEF Structure, Hooks
  <2> QED BY <2>1, <2>4
  DEF Structure, TypeOK, Linear, Places, Shown, Hooks, pool, rings, shown, refs, context
<1>7. CASE PipeEnd
  <2>1. /\ Discard(Top.node) /\ calls' = Popped
        /\ UNCHANGED <<rings, shown, Rdisconnected, stack, refs, context>>
    BY <1>7 DEF PipeEnd
  <2>2. /\ mem' \subseteq Addr /\ recycle' \in Seq(Addr) /\ id' \in [Addr -> Ids]
        /\ nextid' \in Nat /\ IsInjective(recycle') /\ links' \in [Addr -> Links]
        /\ Range(recycle') = Range(recycle) \cup {Top.node} /\ mem' = mem
    BY <1>4, <2>1, DiscardEffect
  <2>3. /\ NodesAt(calls', "pipe") = NodesAt(calls, "pipe") \ {Top.node}
        /\ Once(calls', "pipe")
        /\ NodesAt(calls', "hook") = NodesAt(calls, "hook") /\ Once(calls', "hook")
    <3>1. Top.fn # "hook"
      BY <1>1
    <3> QED BY <1>1, <1>2, <2>1, <3>1
  <2>4. TypeOK'
    BY <1>1, <1>2, <2>1, <2>2 DEF TypeOK, rings, shown, refs, context, Links
  <2>5. Linear' /\ Places'
    BY <1>3, <1>4, <2>1, <2>2, <2>3 DEF Structure, Linear, Places, Apart, rings
  <2>6. Shown' /\ Hooks'
    BY <2>1, <2>3 DEF Structure, Shown, Hooks, rings, shown
  <2> QED BY <2>3, <2>4, <2>5, <2>6 DEF Structure
<1> QED BY <1>5, <1>6, <1>7

-----------------------------------------------------------------------------

LEMMA InitStructure == Init => Structure
<1> SUFFICES ASSUME NEW first \in Addr,
                    /\ mem = {first} /\ recycle = <<>> /\ nextid = 1
                    /\ id = [a \in Addr |-> IF a = first THEN 0 ELSE -1]
                    /\ links = [a \in Addr |-> NoLinks]
                    /\ wins = <<first>> /\ rmts = <<>> /\ keys = {}
                    /\ Wrmt = [a \in Addr |-> Null] /\ Rwin = [a \in Addr |-> Null]
                    /\ Rdisconnected = [a \in Addr |-> FALSE]
                    /\ stack = [a \in Addr |-> NoLists]
                    /\ frame = [f \in Frames |-> Null] /\ frefs = [a \in Addr |-> {}]
                    /\ active_win = first /\ cur_win = Null /\ cur_rmt = Null
                    /\ calls = <<>>
             PROVE  Structure
  BY DEF Init
<1>1. TypeOK
  BY SomeIds, CallTypes DEF TypeOK, NodeOrNull, NoLinks, Links
<1>2. Range(wins) = {first} /\ Range(rmts) = {} /\ Range(recycle) = {}
  BY DEF Range
<1>3. \A k : At(calls, k) = {} /\ NodesAt(calls, k) = {} /\ Once(calls, k)
  BY DEF At, NodesAt, Once
<1>4. Linear
  BY DEF Linear, IsInjective
<1>5. Places /\ Shown /\ Hooks
  BY <1>2, <1>3 DEF Places, Apart, Shown, Hooks
<1> QED BY <1>1, <1>3, <1>4, <1>5 DEF Structure

LEMMA NextStructure ==
  ASSUME SeeDying = FALSE, Structure, [Next]_vars
  PROVE  Structure'
<1>1. CASE UNCHANGED vars
  BY <1>1 DEF vars, Structure, TypeOK, Linear, Places, Shown, Hooks
<1>2. ASSUME NEW a \in Addr,
             \/ NewRmt(a) \/ AddKey(a) \/ DelKey(a) \/ RunProgIstr(a)
             \/ NewActiveWin(a) \/ Disconnect(a)
      PROVE  Structure'
  BY <1>2, CreateStep, DelKeyStep, StartStep, ShowStep, DisconnectStep
<1>3. ASSUME NEW w \in Addr, NEW a \in Addr, SplitWindow(w, a)
      PROVE  Structure'
  BY <1>3, CreateStep
<1>4. ASSUME NEW w \in Addr, NEW r \in Addr \cup {Null}, Display(w, r)
      PROVE  Structure'
  BY <1>4, ShowStep
<1>5. ASSUME NEW f \in Frames, NEW a \in Addr \cup {Null}, Refer(f, a)
      PROVE  Structure'
  BY <1>5, ShowStep
<1>6. ASSUME NEW a \in Addr, NEW l \in Lists, Suspend(a, l) \/ Resume(a, l)
      PROVE  Structure'
  BY <1>6, SuspendStep, StartStep
<1>7. ASSUME NEW w \in Addr, NEW into \in Addr, CloseWindow(w, into)
      PROVE  Structure'
  BY <1>7, CloseWindowStep
<1>8. CASE ProgEnd
  BY <1>8, ProgEndStep
<1>9. CASE PipeNext \/ PipeList \/ PipeEnd
  BY <1>9, PipeStep
<1>10. CASE DropWindow
  BY <1>10, DropWindowStep
<1> QED BY <1>1, <1>2, <1>3, <1>4, <1>5, <1>6, <1>7, <1>8, <1>9, <1>10 DEF Next

LEMMA Structured ==
  ASSUME SeeDying = FALSE
  PROVE  Spec => []Structure
<1>1. Structure /\ [Next]_vars => Structure'
  BY NextStructure
<1> QED BY <1>1, InitStructure, PTL DEF Spec

\* While programs leave alone the window or remote that is being closed, a
\* structure is in one ring only, once, however hooks and broken pipes nest.
THEOREM InOnePlace ==
  ASSUME SeeDying = FALSE
  PROVE  Spec => []OnePlace
BY Structured, StructureOnePlace, PTL

\* Then windows and remotes agree on which shows which, and a window is active.
THEOREM ShownTogether ==
  ASSUME SeeDying = FALSE
  PROVE  Spec => []Shown
<1>1. Structure => Shown
  BY DEF Structure
<1> QED BY <1>1, Structured, PTL

-----------------------------------------------------------------------------
(* References, when programs do not use a window or remote that is being   *)
(* closed.                                                                 *)

\* A new node is not referred to yet.
LEMMA UnallocUnknown ==
  ASSUME Structure, NoDangling, NEW a \in Addr, Unalloc(a), frame' = frame,
         InRings \subseteq InRings'
  PROVE  NoDangling'
<1>1. a \notin InRings /\ frefs' = [frefs EXCEPT ![a] = {}] /\ frefs \in [Addr -> SUBSET Frames]
  BY UnallocEffect DEF Unalloc, InRings, Structure, TypeOK
<1>2. \A f \in Frames : frame[f] # a
  BY <1>1, NodesAssumption DEF NoDangling
<1> QED BY <1>1, <1>2 DEF NoDangling

\* A node that leaves its ring is no longer referred to.
LEMMA DestroyUnknown ==
  ASSUME Structure, NoDangling, NEW a \in Addr, DestroyPointers(a), InRings' = InRings \ {a}
  PROVE  NoDangling'
<1>1. /\ frame' = [f \in Frames |-> IF f \in frefs[a] THEN Null ELSE frame[f]]
      /\ frefs' = [frefs EXCEPT ![a] = {}] /\ frefs \in [Addr -> SUBSET Frames]
  BY DEF DestroyPointers, Structure, TypeOK
<1>2. \A f \in Frames : frame'[f] = IF frame[f] = a THEN Null ELSE frame[f]
  BY <1>1 DEF NoDangling
<1> QED BY <1>1, <1>2, NodesAssumption DEF NoDangling

LEMMA NextNoDangling ==
  ASSUME SeeDying = FALSE, Structure, NoDangling, [Next]_vars
  PROVE  NoDangling'
<1>1. /\ wins \in Seq(Addr) /\ IsInjective(wins) /\ Range(wins) \subseteq Addr
      /\ rmts \in Seq(Addr) /\ IsInjective(rmts) /\ Range(rmts) \subseteq Addr
      /\ keys \subseteq Addr
  BY RangeProperties DEF Structure, TypeOK, Linear
<1>2. /\ Range(wins) \cap Range(rmts) = {} /\ keys \cap (Range(wins) \cup Range(rmts)) = {}
  BY DEF Structure, Places, Apart
<1>3. CASE UNCHANGED <<rings, refs>>
  BY <1>3 DEF NoDangling, InRings, rings, refs
<1>4. ASSUME NEW a \in Addr,
             \/ NewRmt(a) \/ AddKey(a)
             \/ \E w \in Addr : SplitWindow(w, a)
      PROVE  NoDangling'
  <2>1. Unalloc(a) /\ frame' = frame
    BY <1>4 DEF NewRmt, AddKey, SplitWindow
  <2>2. Range(wins) \subseteq Range(wins') /\ Range(rmts) \subseteq Range(rmts') /\ keys \subseteq keys'
    <3>1. CASE NewRmt(a)
      BY <1>1, <3>1, AppendRange DEF NewRmt
    <3>2. CASE AddKey(a)
      BY <3>2 DEF AddKey
    <3>3. CASE \E w \in Addr : SplitWindow(w, a)
      <4>1. PICK i \in DOMAIN wins : wins' = InsertAt(wins, i, a) /\ UNCHANGED <<rmts, keys>>
        BY <3>3, SplitAbove DEF SplitWindow
      <4>2. i \in 1..(Len(wins) + 1)
        BY <1>1
      <4> QED BY <1>1, <4>1, <4>2, InsertRange
    <3> QED BY <1>4, <3>1, <3>2, <3>3
  <2> QED BY <2>1, <2>2, UnallocUnknown DEF InRings
<1>5. ASSUME NEW a \in Addr, DelKey(a)
      PROVE  NoDangling'
  <2>1. DestroyPointers(a) /\ InRings' = InRings \ {a}
    BY <1>2, <1>5 DEF DelKey, InRings
  <2> QED BY <2>1, DestroyUnknown
<1>6. ASSUME NEW r \in Range(rmts), NEW c, NEW cs, Disconnected(r, c, cs)
      PROVE  NoDangling'
  <2>1. Range(rmts') = Range(rmts) \ {r} /\ UNCHANGED <<wins, keys>> /\ DestroyPointers(r)
    BY <1>1, <1>6, WithoutRange DEF Disconnected
  <2>2. InRings' = InRings \ {r}
    BY <1>2, <2>1 DEF InRings
  <2> QED BY <1>1, <2>1, <2>2, DestroyUnknown
<1>7. ASSUME NEW w \in Range(wins), wins' = Without(wins, w), UNCHANGED <<rmts, keys>>,
             DestroyPointers(w)
      PROVE  NoDangling'
  <2>1. Range(wins') = Range(wins) \ {w}
    BY <1>1, <1>7, WithoutRange
  <2>2. InRings' = InRings \ {w}
    BY <1>2, <1>7, <2>1 DEF InRings
  <2> QED BY <1>1, <1>7, <2>2, DestroyUnknown
<1>8. CASE ContextEnd \/ HookEnd
  <2>1. CASE ContextEnd
    BY <1>3, <2>1 DEF ContextEnd
  <2>2. CASE HookEnd
    <3>1. Top.node \in Range(rmts)
      BY <2>2, PoppedEffect DEF HookEnd, Structure, Hooks
    <3> QED BY <1>6, <2>2, <3>1 DEF HookEnd
  <2> QED BY <1>8, <2>1, <2>2
<1>9. ASSUME NEW r \in Addr, Disconnect(r)
      PROVE  NoDangling'
  BY <1>3, <1>6, <1>9 DEF Disconnect
<1>10. ASSUME NEW f \in Frames, NEW a \in Addr \cup {Null}, Refer(f, a)
       PROVE  NoDangling'
  <2>1. /\ UNCHANGED rings /\ a \in InRings \cup {Null}
        /\ frame' = [frame EXCEPT ![f] = a]
        /\ frefs' = [b \in Addr |-> IF b = a THEN frefs[b] \cup {f}
                                    ELSE IF b = frame[f] THEN frefs[b] \ {f} ELSE frefs[b]]
    BY <1>10, NamedNodes DEF Refer
  <2>2. frame \in [Frames -> NodeOrNull] /\ frefs \in [Addr -> SUBSET Frames]
    BY DEF Structure, TypeOK
  <2>3. \A g \in Frames : frame'[g] # Null => frame'[g] \in InRings
    BY <2>1, <2>2 DEF NoDangling
  <2>4. \A g \in Frames, b \in Addr : g \in frefs'[b] <=> frame'[g] = b
    BY <2>1, <2>2, NodesAssumption DEF NoDangling
  <2> QED BY <2>1, <2>3, <2>4 DEF NoDangling, InRings, rings
<1>11. ASSUME NEW a \in Addr, NEW l \in Lists, Suspend(a, l) \/ Resume(a, l)
       PROVE  NoDangling'
  BY <1>3, <1>8, <1>11 DEF Suspend, Resume
<1>12. ASSUME NEW w \in Addr, NEW into \in Addr, CloseWindow(w, into)
       PROVE  NoDangling'
  <2>1. w \in Range(wins) /\ wins' = Without(wins, w)
    BY <1>12, CloseBetween
  <2> QED BY <1>7, <1>12, <2>1 DEF CloseWindow
<1>13. CASE DropWindow
  <2>1. wins[Len(wins)] \in Range(wins)
    BY <1>1, <1>13, RangeProperties DEF DropWindow
  <2> QED BY <1>7, <1>13, <2>1 DEF DropWindow
<1>14. CASE PipeNext \/ PipeList \/ PipeEnd
  BY <1>3, <1>14 DEF PipeNext, PipeList, PipeEnd
<1>15. ASSUME NEW w \in Addr, NEW r \in Addr \cup {Null},
              Display(w, r) \/ NewActiveWin(w) \/ RunProgIstr(w)
       PROVE  NoDangling'
  BY <1>3, <1>15 DEF Display, NewActiveWin, RunProgIstr
<1>16. CASE UNCHANGED vars
  BY <1>3, <1>16 DEF vars, rings, refs
<1> QED BY <1>4, <1>5, <1>8, <1>9, <1>10, <1>11, <1>12, <1>13, <1>14, <1>15, <1>16
        DEF Next, ProgEnd

\* A data frame never refers to a node that is being or was destroyed, and each
\* node knows the frames that refer to it.
THEOREM NeverDangling ==
  ASSUME SeeDying = FALSE
  PROVE  Spec => []NoDangling
<1>1. Init => NoDangling
  BY NodesAssumption DEF Init, NoDangling
<1>2. Structure /\ NoDangling /\ [Next]_vars => NoDangling'
  BY NextNoDangling
<1> QED BY <1>1, <1>2, Structured, PTL DEF Spec

-----------------------------------------------------------------------------
(* Programs that wait.                                                     *)

\* break_pipe() has yet to come to list l of node a.
Remaining(cs, a, l) == \E i \in At(cs, "pipe") : cs[i].node = a /\ l \in Range(cs[i].lists)

\* List l of node a will be read: a window or remote has the lists of its kind.
Attended(a, l) ==
  \/ a \in Range(wins) /\ l \in Range(WinLists)
  \/ a \in Range(rmts) /\ l \in Range(RmtLists)
  \/ Remaining(calls, a, l)
Waits == \A a \in Addr, l \in Lists : stack[a][l] # <<>> => Attended(a, l)

LEMMA RemainingPush ==
  ASSUME NEW cs \in Seq(Call), NEW c \in Call, NEW a, NEW l
  PROVE  Remaining(Append(cs, c), a, l)
           <=> \/ Remaining(cs, a, l)
               \/ c.fn = "pipe" /\ c.node = a /\ l \in Range(c.lists)
<1> DEFINE t == Append(cs, c)
           n == Len(cs)
<1>1. /\ n \in Nat /\ Len(t) = n + 1 /\ t \in Seq(Call)
      /\ \A i \in 1..n : t[i] = cs[i]
      /\ t[n + 1] = c
  BY AppendProperties
<1>2. DOMAIN t = 1..(n + 1) /\ DOMAIN cs = 1..n
  BY <1>1
<1> HIDE DEF t, n
<1>3. Remaining(t, a, l)
        <=> \/ Remaining(cs, a, l)
            \/ c.fn = "pipe" /\ c.node = a /\ l \in Range(c.lists)
  <2>1. \A i \in At(cs, "pipe") : i \in At(t, "pipe") /\ t[i] = cs[i]
    BY <1>1, <1>2 DEF At
  <2>2. \A i \in At(t, "pipe") : i = n + 1 \/ (i \in At(cs, "pipe") /\ t[i] = cs[i])
    BY <1>1, <1>2 DEF At
  <2>3. c.fn = "pipe" <=> n + 1 \in At(t, "pipe")
    BY <1>1, <1>2 DEF At
  <2> QED BY <1>1, <2>1, <2>2, <2>3 DEF Remaining
<1> QED BY <1>3 DEF t

LEMMA RemainingPop ==
  ASSUME NEW cs \in Seq(Call), cs # <<>>, NEW a, NEW l, Remaining(cs, a, l)
  PROVE  \/ Remaining(SubSeq(cs, 1, Len(cs) - 1), a, l)
         \/ /\ cs[Len(cs)].fn = "pipe" /\ cs[Len(cs)].node = a
            /\ l \in Range(cs[Len(cs)].lists)
<1> DEFINE t == SubSeq(cs, 1, Len(cs) - 1)
           n == Len(cs)
<1>1. n \in Nat /\ n > 0 /\ DOMAIN cs = 1..n /\ \A i \in 1..n : cs[i] \in Call
  OBVIOUS
<1>2. t \in Seq(Call) /\ Len(t) = n - 1 /\ \A i \in 1..(n - 1) : t[i] = cs[i]
  BY <1>1, SubSeqProperties
<1>3. DOMAIN t = 1..(n - 1)
  BY <1>2
<1> HIDE DEF t, n
<1>4. \A i \in At(cs, "pipe") : i = n \/ (i \in At(t, "pipe") /\ t[i] = cs[i])
  BY <1>1, <1>2, <1>3 DEF At
<1>5. \/ Remaining(t, a, l)
      \/ cs[n].fn = "pipe" /\ cs[n].node = a /\ l \in Range(cs[n].lists)
  BY <1>4 DEF Remaining, At
<1> QED BY <1>5 DEF t, n

\* break_pipe() goes on to its next list.
LEMMA RemainingLists ==
  ASSUME NEW cs \in Seq(Call), cs # <<>>, NEW a, NEW l, Remaining(cs, a, l),
         cs[Len(cs)].lists # <<>>,
         cs[Len(cs)].node = a => l # Head(cs[Len(cs)].lists)
  PROVE  Remaining([cs EXCEPT ![Len(cs)].lists = Tail(@)], a, l)
<1> DEFINE n == Len(cs)
           ls == Tail(cs[n].lists)
           t == [cs EXCEPT ![n].lists = ls]
<1>1. DOMAIN cs = 1..n /\ n \in 1..n /\ \A i \in DOMAIN cs : cs[i] \in Call
  OBVIOUS
<1>2. DOMAIN t = 1..n /\ \A i \in DOMAIN cs : t[i].fn = cs[i].fn /\ t[i].node = cs[i].node
  BY <1>1 DEF Call
<1>3. \A i \in DOMAIN cs : t[i].lists = IF i = n THEN ls ELSE cs[i].lists
  BY <1>1 DEF Call
<1>4. cs[n].node = a /\ l \in Range(cs[n].lists) => l \in Range(ls)
  <2> DEFINE s == cs[n].lists
  <2>1. s \in Seq(Lists) /\ s # <<>> /\ (cs[n].node = a => l # Head(s)) /\ ls = Tail(s)
    BY <1>1 DEF Call
  <2> HIDE DEF s, ls, n
  <2>2. ASSUME l \in Range(s), l # Head(s) PROVE l \in Range(Tail(s))
    <3>1. PICK k \in 1..Len(s) : l = s[k] /\ k # 1
      BY <2>1, <2>2 DEF Range
    <3>2. /\ Len(s) \in Nat /\ Len(s) > 0 /\ Tail(s) \in Seq(Lists) /\ Len(Tail(s)) = Len(s) - 1
          /\ \A i \in 1..(Len(s) - 1) : Tail(s)[i] = s[i + 1]
      BY <2>1, HeadTailProperties
    <3>3. k - 1 \in DOMAIN Tail(s) /\ Tail(s)[k - 1] = l
      BY <3>1, <3>2
    <3> QED BY <3>3 DEF Range
  <2> QED BY <2>1, <2>2 DEF s
<1> HIDE DEF t, n, ls
<1>5. Remaining(t, a, l)
  BY <1>1, <1>2, <1>3, <1>4 DEF Remaining, At
<1> QED BY <1>5 DEF t, n, ls

\* What stays attended, and what is no longer in a list, needs no one.
LEMMA StayAttended ==
  ASSUME \A a \in Addr, l \in Lists : stack'[a][l] # <<>> => Attended(a, l),
         \A a \in Addr, l \in Lists : stack'[a][l] # <<>> /\ Attended(a, l) => Attended(a, l)'
  PROVE  Waits'
BY DEF Waits

\* A remote that is disconnected hands its lists to break_pipe().
LEMMA DisconnectedAttended ==
  ASSUME Structure, NEW r \in Range(rmts), NEW c, NEW cs \in Seq(Call),
         \A a \in Addr, l \in Lists : Remaining(calls, a, l) => Remaining(cs, a, l),
         Disconnected(r, c, cs)
  PROVE  \A a \in Addr, l \in Lists : Attended(a, l) => Attended(a, l)'
<1>1. rmts \in Seq(Addr) /\ IsInjective(rmts) /\ r \in Addr
  BY RangeProperties DEF Structure, TypeOK, Linear
<1>2. Range(rmts') = Range(rmts) \ {r} /\ wins' = wins /\ calls' = Append(cs, Pipe(r, RmtLists))
  BY <1>1, WithoutRange DEF Disconnected
<1> DEFINE p == Pipe(r, RmtLists)
<1>3. p \in Call /\ p.fn = "pipe" /\ p.node = r /\ p.lists = RmtLists
  BY <1>1, CallTypes DEF Pipe
<1> HIDE DEF p
<1>4. \A a \in Addr, l \in Lists :
        Remaining(Append(cs, p), a, l)
          <=> \/ Remaining(cs, a, l)
              \/ p.fn = "pipe" /\ p.node = a /\ l \in Range(p.lists)
  BY <1>3, RemainingPush
<1>5. \A a \in Addr, l \in Lists :
        Remaining(calls', a, l)
          <=> \/ Remaining(cs, a, l)
              \/ r = a /\ l \in Range(RmtLists)
  BY <1>2, <1>3, <1>4 DEF p
<1> QED BY <1>2, <1>5 DEF Attended

LEMMA EndAttended ==
  ASSUME Structure, ContextEnd \/ HookEnd
  PROVE  \A a \in Addr, l \in Lists : Attended(a, l) => Attended(a, l)'
<1>1. /\ calls \in Seq(Call) /\ calls # <<>> /\ Top.fn # "pipe"
      /\ Popped \in Seq(Call)
  BY PoppedEffect DEF Structure, TypeOK, ContextEnd, HookEnd
<1>2. \A a \in Addr, l \in Lists : Remaining(calls, a, l) => Remaining(Popped, a, l)
  BY <1>1, RemainingPop DEF Popped, Top
<1>3. CASE ContextEnd
  BY <1>2, <1>3 DEF ContextEnd, Attended, rings
<1>4. CASE HookEnd
  <2>1. Top.node \in Range(rmts)
    BY <1>4, PoppedEffect DEF HookEnd, Structure, Hooks
  <2> QED BY <1>1, <1>2, <1>4, <2>1, DisconnectedAttended DEF HookEnd
<1> QED BY <1>3, <1>4

LEMMA EnterAttended ==
  ASSUME Structure, NEW win, NEW rmt, Enter(win, rmt), UNCHANGED rings
  PROVE  \A a \in Addr, l \in Lists : Attended(a, l) => Attended(a, l)'
<1> DEFINE c == [fn |-> "context", node |-> Null, lists |-> <<>>,
                 win |-> cur_win, wid |-> IdOf(cur_win),
                 rmt |-> cur_rmt, rid |-> IdOf(cur_rmt)]
<1>1. c \in Call
  BY Saved DEF Structure, TypeOK, Call, NodeOrNull
<1>2. calls' = Append(calls, c) /\ calls \in Seq(Call)
  BY DEF Enter, Structure, TypeOK
<1> HIDE DEF c
<1>3. \A a \in Addr, l \in Lists : Remaining(calls, a, l) => Remaining(calls', a, l)
  BY <1>1, <1>2, RemainingPush
<1> QED BY <1>3 DEF Attended, rings

\* No list but the one that is read changes.
LEMMA ReadAttended ==
  ASSUME Structure, Waits, NEW a \in Addr, NEW l \in Lists, ResumeHead(a, l), UNCHANGED rings
  PROVE  Waits'
<1>1. \A b \in Addr, k \in Lists : Attended(b, k) => Attended(b, k)'
  BY EnterAttended DEF ResumeHead
<1>2. /\ stack \in [Addr -> [Lists -> Seq(Context)]] /\ stack[a][l] # <<>>
      /\ stack' = [stack EXCEPT ![a][l] = Tail(@)]
  BY DEF ResumeHead, Structure, TypeOK
<1>3. \A b \in Addr, k \in Lists : stack'[b][k] # <<>> => stack[b][k] # <<>>
  <2> SUFFICES ASSUME NEW b \in Addr, NEW k \in Lists, ~(b = a /\ k = l)
               PROVE  stack'[b][k] = stack[b][k]
    BY <1>2
  <2> QED BY <1>2
<1> QED BY <1>1, <1>3, StayAttended DEF Waits

LEMMA NextWaits ==
  ASSUME SeeDying = FALSE, Structure, Waits, [Next]_vars
  PROVE  Waits'
<1>1. /\ wins \in Seq(Addr) /\ IsInjective(wins) /\ Range(wins) \subseteq Addr
      /\ rmts \in Seq(Addr) /\ IsInjective(rmts) /\ Range(rmts) \subseteq Addr
      /\ calls \in Seq(Call) /\ stack \in [Addr -> [Lists -> Seq(Context)]]
  BY RangeProperties DEF Structure, TypeOK, Linear
<1>2. CASE UNCHANGED <<wins, rmts, calls, stack>>
  BY <1>2 DEF Waits, Attended
<1>3. ASSUME NEW a \in Addr, NewRmt(a) \/ \E w \in Addr : SplitWindow(w, a)
      PROVE  Waits'
  <2>1. stack' = [stack EXCEPT ![a] = NoLists] /\ UNCHANGED calls
    BY <1>3 DEF NewRmt, SplitWindow
  <2>2. \A b \in Addr, l \in Lists : stack'[b][l] # <<>> => stack[b][l] # <<>>
    BY <1>1, <2>1 DEF NoLists
  <2>3. Range(wins) \subseteq Range(wins') /\ Range(rmts) \subseteq Range(rmts')
    <3>1. CASE NewRmt(a)
      BY <1>1, <3>1, AppendRange DEF NewRmt
    <3>2. CASE \E w \in Addr : SplitWindow(w, a)
      <4>1. PICK i \in DOMAIN wins : wins' = InsertAt(wins, i, a) /\ UNCHANGED rmts
        BY <3>2, SplitAbove DEF SplitWindow
      <4>2. i \in 1..(Len(wins) + 1)
        BY <1>1
      <4> QED BY <1>1, <4>1, <4>2, InsertRange
    <3> QED BY <1>3, <3>1, <3>2
  <2> QED BY <2>1, <2>2, <2>3 DEF Waits, Attended
<1>4. ASSUME NEW a \in Addr, AddKey(a) \/ DelKey(a) \/ NewActiveWin(a)
      PROVE  Waits'
  BY <1>2, <1>4 DEF AddKey, DelKey, NewActiveWin, rings
<1>5. ASSUME NEW a \in Addr, RunProgIstr(a)
      PROVE  Waits'
  <2>1. \E win, rmt \in NodeOrNull : Enter(win, rmt)
    BY <1>5 DEF RunProgIstr, NodeOrNull
  <2>2. UNCHANGED <<rings, stack>>
    BY <1>5 DEF RunProgIstr
  <2>3. \A b \in Addr, k \in Lists : Attended(b, k) => Attended(b, k)'
    BY <2>1, <2>2, EnterAttended
  <2> QED BY <2>2, <2>3 DEF Waits
<1>6. ASSUME NEW w \in Addr, NEW r \in Addr \cup {Null}, Display(w, r)
      PROVE  Waits'
  BY <1>2, <1>6 DEF Display, rings
<1>7. ASSUME NEW f \in Frames, NEW a \in Addr \cup {Null}, Refer(f, a)
      PROVE  Waits'
  BY <1>2, <1>7 DEF Refer, rings
<1>8. ASSUME NEW a \in Addr, NEW l \in Lists, Suspend(a, l)
      PROVE  Waits'
  <2>1. Attended(a, l)
    <3>1. a \in Range(wins) \cup Range(rmts)
      BY <1>8, NamedNodes DEF Suspend, InRings
    <3>2. l \in Range(IF a \in Range(wins) THEN WinLists ELSE RmtLists)
      BY <1>8, NamedNodes DEF Suspend
    <3> QED BY <3>1, <3>2 DEF Attended
  <2>2. \A b \in Addr, k \in Lists : stack'[b][k] # <<>> => Attended(b, k)
    <3> SUFFICES ASSUME NEW b \in Addr, NEW k \in Lists, ~(b = a /\ k = l)
                 PROVE  stack'[b][k] = stack[b][k]
      BY <2>1 DEF Waits
    <3> QED BY <1>1, <1>8 DEF Suspend
  <2>3. CASE ContextEnd \/ HookEnd
    BY <2>2, <2>3, EndAttended, StayAttended
  <2>4. CASE UNCHANGED <<rings, calls>>
    BY <2>2, <2>4 DEF Waits, Attended, rings
  <2> QED BY <1>8, <2>3, <2>4 DEF Suspend
<1>9. ASSUME NEW a \in Addr, NEW l \in Lists, Resume(a, l)
      PROVE  Waits'
  BY <1>9, ReadAttended DEF Resume
<1>10. CASE ProgEnd
  BY <1>10, EndAttended DEF ProgEnd, Waits
<1>11. ASSUME NEW r \in Addr, Disconnect(r)
       PROVE  Waits'
  <2>1. r \in Range(rmts) /\ UNCHANGED stack
    BY <1>11 DEF Disconnect
  <2>2. CASE Disconnected(r, cur_rmt, calls)
    <3>1. \A a \in Addr, l \in Lists : Attended(a, l) => Attended(a, l)'
      BY <1>1, <2>1, <2>2, DisconnectedAttended
    <3> QED BY <2>1, <3>1 DEF Waits
  <2>3. CASE ~Disconnected(r, cur_rmt, calls)
    <3> DEFINE c == [fn |-> "hook", node |-> r, lists |-> <<>>, win |-> Null, wid |-> 0,
                     rmt |-> cur_rmt, rid |-> IdOf(cur_rmt)]
    <3>1. calls' = Append(calls, c) /\ UNCHANGED rings
      BY <1>11, <2>3 DEF Disconnect
    <3>2. c \in Call
      BY Saved, SomeIds DEF Structure, Call, TypeOK, NodeOrNull
    <3> HIDE DEF c
    <3>3. \A a \in Addr, l \in Lists : Remaining(calls, a, l) => Remaining(calls', a, l)
      BY <1>1, <3>1, <3>2, RemainingPush
    <3> QED BY <2>1, <3>1, <3>3 DEF Waits, Attended, rings
  <2> QED BY <2>2, <2>3
<1>12. ASSUME NEW w \in Addr, NEW into \in Addr, CloseWindow(w, into)
       PROVE  Waits'
  <2> DEFINE p == Pipe(w, WinLists)
  <2>1. /\ w \in Range(wins) /\ wins' = Without(wins, w) /\ UNCHANGED <<rmts, stack>>
        /\ calls' = Append(calls, p)
    BY <1>12, CloseBetween DEF CloseWindow
  <2>2. Range(wins') = Range(wins) \ {w} /\ w \in Addr
    BY <1>1, <2>1, WithoutRange
  <2>3. p \in Call /\ p.fn = "pipe" /\ p.node = w /\ p.lists = WinLists
    BY <2>2, CallTypes DEF Pipe
  <2> HIDE DEF p
  <2>4. \A a \in Addr, l \in Lists :
          Remaining(calls', a, l)
            <=> \/ Remaining(calls, a, l)
                \/ p.fn = "pipe" /\ p.node = a /\ l \in Range(p.lists)
    BY <1>1, <2>1, <2>3, RemainingPush
  <2>5. \A a \in Addr, l \in Lists : Attended(a, l) => Attended(a, l)'
    BY <2>1, <2>2, <2>3, <2>4 DEF Attended
  <2> QED BY <2>1, <2>5 DEF Waits
<1>13. CASE DropWindow
  <2> DEFINE w == wins[Len(wins)]
  <2>1. /\ wins' = Without(wins, w) /\ UNCHANGED <<rmts, calls>> /\ Len(wins) > 1
        /\ stack' = [stack EXCEPT ![w] = NoLists]
    BY <1>13 DEF DropWindow
  <2>2. w \in Range(wins)
    BY <1>1, <2>1, RangeProperties
  <2> HIDE DEF w
  <2>3. Range(wins') = Range(wins) \ {w} /\ w \in Addr
    BY <1>1, <2>1, <2>2, WithoutRange
  <2>4. \A a \in Addr, l \in Lists :
          IF a = w THEN stack'[a][l] = <<>> ELSE stack'[a][l] = stack[a][l]
    BY <1>1, <2>1, <2>3 DEF NoLists
  <2> QED BY <2>1, <2>3, <2>4 DEF Waits, Attended
<1>14. CASE PipeNext \/ PipeList \/ PipeEnd
  <2>1. calls # <<>> /\ Top.fn = "pipe"
    BY <1>14 DEF PipeNext, PipeList, PipeEnd, InPipe
  <2>2. /\ Top \in Call /\ Popped \in Seq(Call) /\ Top.node \in NodesAt(calls, "pipe")
        /\ Top.node \in Addr /\ Top.lists \in Seq(Lists)
    <3>1. Top \in Call /\ Popped \in Seq(Call) /\ Top.node \in NodesAt(calls, "pipe")
      BY <2>1, PoppedEffect
    <3> QED BY <3>1 DEF Structure, Places, Apart, TypeOK, Call
  <2>3. CASE PipeNext
    <3> DEFINE s == Top.lists
    <3>1. s \in Seq(Lists) /\ s # <<>>
      BY <2>2, <2>3 DEF PipeNext
    <3> HIDE DEF s
    <3>2. Head(s) \in Lists
      BY <3>1
    <3>3. ResumeHead(Top.node, Head(s)) /\ UNCHANGED rings
      BY <2>3 DEF PipeNext, s
    <3> QED BY <2>2, <3>2, <3>3, ReadAttended
  <2>4. CASE PipeList
    <3>1. /\ Top.lists # <<>> /\ stack[Top.node][Head(Top.lists)] = <<>>
          /\ calls' = [calls EXCEPT ![Len(calls)].lists = Tail(@)]
          /\ UNCHANGED <<rings, stack>>
      BY <2>4 DEF PipeList
    <3>2. ASSUME NEW a \in Addr, NEW l \in Lists, stack[a][l] # <<>>, Remaining(calls, a, l)
          PROVE  Remaining(calls', a, l)
      <4>1. Top.node = a => l # Head(Top.lists)
        BY <3>1, <3>2
      <4> QED BY <1>1, <2>1, <3>1, <3>2, <4>1, RemainingLists DEF Top
    <3> QED BY <3>1, <3>2 DEF Waits, Attended, rings
  <2>5. CASE PipeEnd
    <3>1. Top.lists = <<>> /\ calls' = Popped /\ UNCHANGED <<rings, stack>>
      BY <2>5 DEF PipeEnd
    <3>2. Range(Top.lists) = {}
      BY <3>1 DEF Range
    <3>3. \A a \in Addr, l \in Lists : Remaining(calls, a, l) => Remaining(calls', a, l)
      BY <1>1, <2>1, <3>1, <3>2, RemainingPop DEF Top, Popped
    <3> QED BY <3>1, <3>3 DEF Waits, Attended, rings
  <2> QED BY <1>14, <2>3, <2>4, <2>5
<1>15. CASE UNCHANGED vars
  BY <1>2, <1>15 DEF vars
<1> QED BY <1>3, <1>4, <1>5, <1>6, <1>7, <1>8, <1>9, <1>10, <1>11, <1>12, <1>13, <1>14, <1>15
        DEF Next

LEMMA AllWait ==
  ASSUME SeeDying = FALSE
  PROVE  Spec => []Waits
<1>1. Init => Waits
  BY DEF Init, Waits, NoLists
<1>2. Structure /\ Waits /\ [Next]_vars => Waits'
  BY NextWaits
<1> QED BY <1>1, <1>2, Structured, PTL DEF Spec

\* Every program that waits is in a list of a window, a remote or a node whose
\* programs are being resumed.
THEOREM NobodyLost ==
  ASSUME SeeDying = FALSE
  PROVE  Spec => []NoneLost
<1>1. Waits => NoneLost
  BY DEF Waits, Attended, Remaining, NoneLost, InRings, Pipes, At
<1> QED BY <1>1, AllWait, PTL

-----------------------------------------------------------------------------
(* The contexts that calls saved, as a sequence.                           *)

IsKept(f, cs, m) ==
  f = [n \in 0..m |-> IF n = 0 THEN <<>>
                      ELSE IF cs[n].fn = "pipe" THEN f[n - 1]
                      ELSE Append(f[n - 1], cs[n])]

LEMMA KeptExists ==
  ASSUME NEW cs \in Seq(Call)
  PROVE  \A m \in Nat : \E f : IsKept(f, cs, m)
<1> DEFINE T == {m \in Nat : ~\E f : IsKept(f, cs, m)}
<1> SUFFICES ASSUME T # {} PROVE FALSE
  OBVIOUS
<1> HIDE DEF T
<1>1. PICK m \in T : \A k \in T : m <= k
  BY LeastNat DEF T
<1>2. CASE m = 0
  <2> DEFINE f == [n \in 0..0 |-> <<>>]
  <2>1. IsKept(f, cs, 0)
    BY DEF IsKept
  <2> QED BY <1>1, <1>2, <2>1 DEF T
<1>3. CASE m # 0
  <2>1. m - 1 \in Nat /\ m \in Nat /\ m - 1 \notin T
    BY <1>1, <1>3 DEF T
  <2>2. PICK f : IsKept(f, cs, m - 1)
    BY <2>1 DEF T
  <2> DEFINE new == IF cs[m].fn = "pipe" THEN f[m - 1] ELSE Append(f[m - 1], cs[m])
             g == [n \in 0..m |-> IF n = m THEN new ELSE f[n]]
  <2>3. \A n \in 0..(m - 1) : g[n] = f[n]
    BY <2>1
  <2>4. IsKept(g, cs, m)
    <3>1. ASSUME NEW n \in 0..m
          PROVE  g[n] = IF n = 0 THEN <<>>
                        ELSE IF cs[n].fn = "pipe" THEN g[n - 1]
                        ELSE Append(g[n - 1], cs[n])
      <4>1. CASE n = m
        <5>1. g[n] = new /\ n # 0 /\ n - 1 \in 0..(m - 1)
          BY <1>3, <2>1, <4>1
        <5>2. g[n - 1] = f[m - 1]
          BY <2>3, <4>1, <5>1
        <5> HIDE DEF g
        <5> QED BY <4>1, <5>1, <5>2
      <4>2. CASE n # m
        <5>1. n \in 0..(m - 1) /\ (n # 0 => n - 1 \in 0..(m - 1))
          BY <2>1, <4>2
        <5>2. f[n] = IF n = 0 THEN <<>>
                     ELSE IF cs[n].fn = "pipe" THEN f[n - 1] ELSE Append(f[n - 1], cs[n])
          BY <2>2, <5>1 DEF IsKept
        <5>3. g[n] = f[n] /\ (n # 0 => g[n - 1] = f[n - 1])
          BY <2>3, <5>1
        <5> HIDE DEF g
        <5> QED BY <5>2, <5>3
      <4> QED BY <4>1, <4>2
    <3>2. g = [n \in 0..m |-> g[n]]
      OBVIOUS
    <3> HIDE DEF g
    <3> QED BY <3>1, <3>2 DEF IsKept
  <2> QED BY <1>1, <2>4 DEF T
<1> QED BY <1>2, <1>3

LEMMA KeptIs ==
  ASSUME NEW cs \in Seq(Call)
  PROVE  \E f : IsKept(f, cs, Len(cs)) /\ Kept(cs) = f[Len(cs)]
<1> DEFINE f == CHOOSE h : IsKept(h, cs, Len(cs))
<1>1. Len(cs) \in Nat
  OBVIOUS
<1>2. IsKept(f, cs, Len(cs))
  BY <1>1, KeptExists
<1>3. Kept(cs) = f[Len(cs)]
  BY DEF Kept, IsKept
<1> QED BY <1>2, <1>3

\* What was kept up to m depends on the calls up to m only.
LEMMA KeptAgree ==
  ASSUME NEW cs \in Seq(Call), NEW ds \in Seq(Call), NEW f, NEW g,
         IsKept(f, cs, Len(cs)), IsKept(g, ds, Len(ds)),
         NEW m \in Nat, m <= Len(cs), m <= Len(ds), \A n \in 1..m : cs[n] = ds[n]
  PROVE  f[m] = g[m] /\ f[m] \in Seq(Call)
<1> DEFINE T == {k \in Nat : k <= m /\ ~(f[k] = g[k] /\ f[k] \in Seq(Call))}
<1> SUFFICES ASSUME T # {} PROVE FALSE
  OBVIOUS
<1> HIDE DEF T
<1>1. PICK k \in T : \A j \in T : k <= j
  BY LeastNat DEF T
<1>2. k \in Nat /\ k <= m /\ ~(f[k] = g[k] /\ f[k] \in Seq(Call))
  BY <1>1 DEF T
<1>3. k \in 0..Len(cs) /\ k \in 0..Len(ds)
  BY <1>2
<1>4. /\ f[k] = IF k = 0 THEN <<>>
                ELSE IF cs[k].fn = "pipe" THEN f[k - 1] ELSE Append(f[k - 1], cs[k])
      /\ g[k] = IF k = 0 THEN <<>>
                ELSE IF ds[k].fn = "pipe" THEN g[k - 1] ELSE Append(g[k - 1], ds[k])
  BY <1>3 DEF IsKept
<1>5. CASE k = 0
  BY <1>2, <1>4, <1>5
<1>6. CASE k # 0
  <2>1. k \in 1..m /\ k - 1 \in Nat /\ k - 1 <= m /\ k - 1 \notin T
    BY <1>1, <1>2, <1>6
  <2>2. f[k - 1] = g[k - 1] /\ f[k - 1] \in Seq(Call)
    BY <2>1 DEF T
  <2>3. cs[k] = ds[k] /\ cs[k] \in Call
    BY <1>2, <2>1
  <2> QED BY <1>2, <1>4, <1>6, <2>2, <2>3
<1> QED BY <1>5, <1>6

LEMMA KeptPush ==
  ASSUME NEW cs \in Seq(Call), NEW c \in Call
  PROVE  /\ Kept(cs) \in Seq(Call)
         /\ Kept(Append(cs, c)) = IF c.fn = "pipe" THEN Kept(cs) ELSE Append(Kept(cs), c)
<1> DEFINE ds == Append(cs, c)
           m == Len(cs)
<1>1. /\ m \in Nat /\ ds \in Seq(Call) /\ Len(ds) = m + 1 /\ ds[m + 1] = c
      /\ \A n \in 1..m : cs[n] = ds[n]
  BY AppendProperties
<1> HIDE DEF ds
<1>2. PICK f : IsKept(f, cs, m) /\ Kept(cs) = f[m]
  BY KeptIs
<1>3. PICK g : IsKept(g, ds, Len(ds)) /\ Kept(ds) = g[Len(ds)]
  BY <1>1, KeptIs
<1>4. f[m] = g[m] /\ f[m] \in Seq(Call)
  <2>1. m <= Len(cs) /\ m <= Len(ds)
    BY <1>1
  <2> QED BY <1>1, <1>2, <1>3, <2>1, KeptAgree
<1>5. g[m + 1] = IF ds[m + 1].fn = "pipe" THEN g[m] ELSE Append(g[m], ds[m + 1])
  <2>1. m + 1 \in 0..Len(ds) /\ m + 1 # 0 /\ (m + 1) - 1 = m
    BY <1>1
  <2>2. g[m + 1] = IF m + 1 = 0 THEN <<>>
                   ELSE IF ds[m + 1].fn = "pipe" THEN g[(m + 1) - 1]
                   ELSE Append(g[(m + 1) - 1], ds[m + 1])
    BY <1>3, <2>1 DEF IsKept
  <2> QED BY <2>1, <2>2
<1> HIDE DEF m
<1>6. Kept(ds) = IF c.fn = "pipe" THEN Kept(cs) ELSE Append(Kept(cs), c)
  BY <1>1, <1>2, <1>3, <1>4, <1>5
<1>7. Kept(cs) \in Seq(Call)
  BY <1>2, <1>4
<1> QED BY <1>6, <1>7 DEF ds

LEMMA KeptEmpty == Kept(<<>>) = <<>>
<1>1. <<>> \in Seq(Call) /\ Len(<<>>) = 0
  OBVIOUS
<1> DEFINE cs == <<>>
<1>2. cs \in Seq(Call) /\ Len(cs) = 0
  OBVIOUS
<1> HIDE DEF cs
<1>3. PICK f : IsKept(f, cs, Len(cs)) /\ Kept(cs) = f[Len(cs)]
  BY <1>2, KeptIs
<1>4. f[0] = <<>>
  <2>1. 0 \in 0..Len(cs)
    BY <1>2
  <2> QED BY <1>3, <2>1 DEF IsKept
<1>5. Kept(cs) = <<>>
  BY <1>2, <1>3, <1>4
<1> QED BY <1>5 DEF cs

\* What is saved of a context.
SavedContexts == [hook : BOOLEAN, win : Ids \cup {Null}, rmt : Ids \cup {Null}]

LEMMA InterruptedPush ==
  ASSUME NEW cs \in Seq(Call), NEW c \in Call
  PROVE  /\ Interrupted(cs) \in Seq(SavedContexts)
         /\ Interrupted(Append(cs, c)) = IF c.fn = "pipe" THEN Interrupted(cs)
                                         ELSE Append(Interrupted(cs), SavedContext(c))
<1> DEFINE k == Kept(cs)
           kc == Kept(Append(cs, c))
           s == [i \in DOMAIN k |-> SavedContext(k[i])]
           t == [i \in DOMAIN kc |-> SavedContext(kc[i])]
<1>1. k \in Seq(Call) /\ kc = IF c.fn = "pipe" THEN k ELSE Append(k, c)
  BY KeptPush
<1>2. Interrupted(cs) = s /\ Interrupted(Append(cs, c)) = t
  BY DEF Interrupted
<1>3. \A x \in Call : SavedContext(x) \in SavedContexts
  BY DEF SavedContext, SavedHandle, SavedContexts, Call
<1> HIDE DEF k, kc
<1>4. s \in Seq(SavedContexts) /\ Len(s) = Len(k) /\ Len(k) \in Nat
  BY <1>1, <1>3
<1>5. CASE c.fn = "pipe"
  BY <1>1, <1>2, <1>4, <1>5
<1>6. CASE c.fn # "pipe"
  <2>1. /\ kc \in Seq(Call) /\ Len(kc) = Len(k) + 1 /\ kc[Len(k) + 1] = c
        /\ \A i \in 1..Len(k) : kc[i] = k[i]
    BY <1>1, <1>6, AppendProperties
  <2>2. DOMAIN kc = 1..(Len(k) + 1) /\ DOMAIN k = 1..Len(k)
    BY <1>1, <1>4, <2>1
  <2> DEFINE u == Append(s, SavedContext(c))
  <2>3. SavedContext(c) \in SavedContexts
    BY <1>3
  <2> HIDE DEF s
  <2>4. /\ u \in Seq(SavedContexts) /\ Len(u) = Len(k) + 1 /\ u[Len(k) + 1] = SavedContext(c)
        /\ \A i \in 1..Len(k) : u[i] = s[i]
    BY <1>4, <2>3, AppendProperties
  <2> HIDE DEF u
  <2>5. u = [i \in 1..(Len(k) + 1) |-> u[i]]
    BY <1>4, <2>4
  <2>6. \A i \in 1..Len(k) : s[i] = SavedContext(k[i])
    BY <2>2 DEF s
  <2>7. ASSUME NEW i \in 1..(Len(k) + 1) PROVE u[i] = SavedContext(kc[i])
    <3>1. i = Len(k) + 1 \/ i \in 1..Len(k)
      BY <1>4
    <3> QED BY <2>1, <2>4, <2>6, <3>1
  <2>8. t = u
    BY <2>2, <2>5, <2>7
  <2> QED BY <1>2, <1>4, <1>6, <2>8 DEF u
<1> QED BY <1>5, <1>6

\* A call that is over leaves what the calls below saved.
LEMMA InterruptedPop ==
  ASSUME NEW cs \in Seq(Call), cs # <<>>
  PROVE  LET c == cs[Len(cs)]
             t == SubSeq(cs, 1, Len(cs) - 1)
             s == Interrupted(cs)
         IN IF c.fn = "pipe"
            THEN s = Interrupted(t)
            ELSE /\ s # <<>> /\ s[Len(s)] = SavedContext(c)
                 /\ SubSeq(s, 1, Len(s) - 1) = Interrupted(t)
<1> DEFINE c == cs[Len(cs)]
           t == SubSeq(cs, 1, Len(cs) - 1)
           s == Interrupted(cs)
<1>1. cs = Append(t, c) /\ t \in Seq(Call) /\ c \in Call
  BY PopPush, PopCall
<1> HIDE DEF t, c
<1>2. /\ Interrupted(t) \in Seq(SavedContexts)
      /\ s = IF c.fn = "pipe" THEN Interrupted(t) ELSE Append(Interrupted(t), SavedContext(c))
  BY <1>1, InterruptedPush
<1>3. SavedContext(c) \in SavedContexts
  BY <1>1 DEF SavedContext, SavedHandle, SavedContexts, Call
<1> HIDE DEF s
<1>4. CASE c.fn = "pipe"
  BY <1>2, <1>4 DEF c, t, s
<1>5. CASE c.fn # "pipe"
  <2>1. s = Append(Interrupted(t), SavedContext(c))
    BY <1>2, <1>5
  <2>2. s # <<>> /\ s[Len(s)] = SavedContext(c) /\ SubSeq(s, 1, Len(s) - 1) = Interrupted(t)
    BY <1>2, <1>3, <2>1, PushPop
  <2> QED BY <1>5, <2>2 DEF c, t, s
<1> QED BY <1>4, <1>5

-----------------------------------------------------------------------------
(* Handles.                                                                *)

\* The nodes that are in use as windows or on their way from there, and as
\* remotes.
WinLive == Range(wins) \cup NodesAt(calls, "pipe")
RmtLive == Range(rmts) \cup NodesAt(calls, "pipe")

\* Exactly the nodes in use have ids, each its own.
Identified ==
  /\ nextid <= MaxId
  /\ \A a \in Addr : id[a] # -1 <=> a \in InRings \cup NodesAt(calls, "pipe")
  /\ \A a \in Addr : id[a] # -1 => id[a] \in 0..(nextid - 1)
  /\ \A a, b \in Addr : id[a] = id[b] /\ id[a] # -1 => a = b

\* A saved id was given to one node only; while that node has it, it is in K.
Pair(n, i, K) ==
  n # Null => /\ i \in 0..(nextid - 1)
              /\ \A b \in Addr : id[b] = i => b = n /\ b \in K
Pairs(c) == Pair(c.win, c.wid, WinLive) /\ Pair(c.rmt, c.rid, RmtLive)

GoodCalls == {c \in Call : Pairs(c) /\ (c.fn = "hook" => c.win = Null)}
GoodContexts == {c \in Context : Pairs(c)}

\* The current window and remote are in use, and what is saved can be compared.
Contexts ==
  /\ cur_win \in WinLive \cup {Null} /\ cur_rmt \in RmtLive \cup {Null}
  /\ calls \in Seq(GoodCalls)
  /\ stack \in [Addr -> [Lists -> Seq(GoodContexts)]]

\* break_pipe() starts every program in a context that does not name the node
\* that is being closed, and is above a program's end only.
Underneath(cs) ==
  \A i \in At(cs, "pipe") :
    i # Len(cs) => /\ cs[i + 1].fn = "context"
                   /\ cs[i].node \notin {cs[i + 1].win, cs[i + 1].rmt}
Aside ==
  /\ Underneath(calls)
  /\ InPipe => Top.node \notin {cur_win, cur_rmt}

LEMMA ShortSame ==
  ASSUME MaxId <= IdMod \div 2, NEW n \in Nat, n < MaxId
  PROVE  Short(n) = n
<1> DEFINE h == IdMod \div 2
<1>1. h \in Nat /\ h + h <= IdMod /\ MaxId \in Nat /\ IdMod \in Nat /\ n + h < IdMod
  BY NodesAssumption
<1>2. (n + h) % IdMod = n + h
  <2> HIDE DEF h
  <2> QED BY <1>1
<1> HIDE DEF h
<1>3. Short(n) = ((n + h) % IdMod) - h
  BY DEF Short, h
<1> QED BY <1>1, <1>2, <1>3

\* The nodes in use.
InUse == InRings \cup NodesAt(calls, "pipe")

\* What a step does to the nodes in use: one more, one less, or the same.  Those
\* that stay are still windows or remotes, or on their way from there.
Born(a) ==
  /\ Unalloc(a) /\ a \notin InUse /\ InUse' = InUse \cup {a}
  /\ WinLive \subseteq WinLive' /\ RmtLive \subseteq RmtLive'
Gone(a) ==
  /\ Discard(a) /\ a \in InUse /\ InUse' = InUse \ {a}
  /\ WinLive \ {a} \subseteq WinLive' /\ RmtLive \ {a} \subseteq RmtLive'
Same ==
  /\ UNCHANGED <<id, nextid>> /\ InUse' = InUse
  /\ WinLive \subseteq WinLive' /\ RmtLive \subseteq RmtLive'

LEMMA RingTypes ==
  ASSUME Structure
  PROVE  /\ wins \in Seq(Addr) /\ IsInjective(wins) /\ Range(wins) \subseteq Addr
         /\ rmts \in Seq(Addr) /\ IsInjective(rmts) /\ Range(rmts) \subseteq Addr
         /\ calls \in Seq(Call) /\ InUse \subseteq Addr
         /\ WinLive \subseteq InUse /\ RmtLive \subseteq InUse
BY RangeProperties DEF Structure, TypeOK, Linear, Places, Apart, InUse, InRings, WinLive, RmtLive

LEMMA CreateUse ==
  ASSUME SeeDying = FALSE, Structure, NEW a \in Addr,
         \/ NewRmt(a) \/ AddKey(a)
         \/ \E w \in Addr : SplitWindow(w, a)
  PROVE  Born(a)
<1>1. Unalloc(a) /\ UNCHANGED calls
  BY DEF NewRmt, AddKey, SplitWindow
<1>2. a \notin InUse
  BY <1>1, UnallocEffect DEF InUse, InRings
<1>3. /\ Range(wins') \cup Range(rmts') \cup keys' = InRings \cup {a}
      /\ Range(wins) \subseteq Range(wins') /\ Range(rmts) \subseteq Range(rmts')
  <2>1. CASE NewRmt(a)
    BY <2>1, RingTypes, AppendRange DEF NewRmt, InRings
  <2>2. CASE AddKey(a)
    BY <2>2 DEF AddKey, InRings
  <2>3. CASE \E w \in Addr : SplitWindow(w, a)
    <3>1. PICK i \in DOMAIN wins : wins' = InsertAt(wins, i, a) /\ UNCHANGED <<rmts, keys>>
      BY <2>3, SplitAbove DEF SplitWindow
    <3>2. i \in 1..(Len(wins) + 1)
      BY RingTypes
    <3>3. Range(wins') = Range(wins) \cup {a}
      BY <3>1, <3>2, RingTypes, InsertRange
    <3> QED BY <3>1, <3>3 DEF InRings
  <2> QED BY <2>1, <2>2, <2>3
<1> QED BY <1>1, <1>2, <1>3 DEF Born, InUse, InRings, WinLive, RmtLive

LEMMA DisconnectedUse ==
  ASSUME Structure, NEW r \in Range(rmts), NEW c, NEW cs \in Seq(Call),
         NodesAt(cs, "pipe") = NodesAt(calls, "pipe"), Disconnected(r, c, cs), UNCHANGED pool
  PROVE  Same /\ NodesAt(calls', "pipe") = NodesAt(calls, "pipe") \cup {r}
<1>1. Range(rmts') = Range(rmts) \ {r} /\ UNCHANGED <<wins, keys>> /\ r \in Addr
  BY RingTypes, WithoutRange DEF Disconnected
<1>2. NodesAt(calls', "pipe") = NodesAt(calls, "pipe") \cup {r}
  BY <1>1, PipeEffect DEF Disconnected
<1> QED BY <1>1, <1>2 DEF Same, pool, InUse, InRings, WinLive, RmtLive

LEMMA PoppedPipes ==
  ASSUME Structure, calls # <<>>
  PROVE  /\ Popped \in Seq(Call) /\ Top \in Call
         /\ Top.fn # "pipe" => NodesAt(Popped, "pipe") = NodesAt(calls, "pipe")
         /\ Top.fn = "pipe" => /\ NodesAt(Popped, "pipe") = NodesAt(calls, "pipe") \ {Top.node}
                               /\ Top.node \in NodesAt(calls, "pipe") /\ Top.node \in Addr
         /\ Top.fn = "hook" => Top.node \in Range(rmts)
<1>1. /\ Popped \in Seq(Call) /\ Top \in Call
      /\ NodesAt(Popped, "pipe") = NodesAt(calls, "pipe") \ (IF Top.fn = "pipe" THEN {Top.node} ELSE {})
      /\ Top.fn = "pipe" => Top.node \in NodesAt(calls, "pipe")
      /\ Top.fn = "hook" => Top.node \in NodesAt(calls, "hook")
  BY PoppedEffect
<1> QED BY <1>1, RingTypes DEF Structure, Hooks, InUse

LEMMA EndUse ==
  ASSUME Structure, ContextEnd \/ HookEnd, UNCHANGED pool
  PROVE  Same
<1>1. CASE ContextEnd
  BY <1>1, PoppedPipes DEF ContextEnd, Same, pool, rings, InUse, InRings, WinLive, RmtLive
<1>2. CASE HookEnd
  BY <1>2, PoppedPipes, DisconnectedUse DEF HookEnd
<1> QED BY <1>1, <1>2

LEMMA EnterUse ==
  ASSUME Structure, NEW win \in NodeOrNull, NEW rmt \in NodeOrNull, Enter(win, rmt),
         UNCHANGED <<pool, rings>>
  PROVE  Same
BY EnterEffect DEF Structure, Same, pool, rings, InUse, InRings, WinLive, RmtLive

LEMMA ResumeUse ==
  ASSUME Structure, NEW a \in Addr, NEW l \in Lists, ResumeHead(a, l), UNCHANGED <<pool, rings>>
  PROVE  Same
BY ResumeEffect, EnterUse

LEMMA CloseUse ==
  ASSUME SeeDying = FALSE, Structure, NEW w \in Addr, NEW into \in Addr, CloseWindow(w, into)
  PROVE  Same
<1>1. /\ w \in Range(wins) /\ wins' = Without(wins, w)
      /\ UNCHANGED <<id, nextid, rmts, keys>> /\ calls' = Append(calls, Pipe(w, WinLists))
  BY CloseBetween DEF CloseWindow
<1>2. Range(wins') = Range(wins) \ {w} /\ w \in Addr
  BY <1>1, RingTypes, WithoutRange
<1>3. NodesAt(calls', "pipe") = NodesAt(calls, "pipe") \cup {w}
  BY <1>1, <1>2, RingTypes, PipeEffect
<1> QED BY <1>1, <1>2, <1>3 DEF Same, InUse, InRings, WinLive, RmtLive

LEMMA DropUse ==
  ASSUME Structure, DropWindow
  PROVE  /\ wins[Len(wins)] \in Range(wins) /\ wins[Len(wins)] \in Addr
         /\ Gone(wins[Len(wins)])
<1> DEFINE w == wins[Len(wins)]
<1>1. /\ wins' = Without(wins, w) /\ Len(wins) > 1
      /\ Discard(w) /\ UNCHANGED <<rmts, keys, calls>>
  BY DEF DropWindow
<1>2. w \in Range(wins)
  BY <1>1, RingTypes, RangeProperties
<1> HIDE DEF w
<1>3. Range(wins') = Range(wins) \ {w} /\ w \in Addr
  BY <1>1, <1>2, RingTypes, WithoutRange
<1>4. w \notin Range(rmts) \cup keys \cup NodesAt(calls, "pipe")
  BY <1>2 DEF Structure, Places, Apart
<1>5. Gone(w)
  BY <1>1, <1>2, <1>3, <1>4 DEF Gone, InUse, InRings, WinLive, RmtLive
<1> QED BY <1>2, <1>3, <1>5 DEF w

LEMMA DelKeyUse ==
  ASSUME Structure, NEW a \in Addr, DelKey(a)
  PROVE  Gone(a)
<1>1. a \in keys /\ keys' = keys \ {a} /\ Discard(a) /\ UNCHANGED <<wins, rmts, calls>>
  BY DEF DelKey
<1>2. a \notin Range(wins) \cup Range(rmts) \cup NodesAt(calls, "pipe")
  BY <1>1 DEF Structure, Places, Apart
<1> QED BY <1>1, <1>2 DEF Gone, InUse, InRings, WinLive, RmtLive

LEMMA PipeListCalls ==
  ASSUME Structure, PipeList
  PROVE  /\ calls' \in Seq(Call) /\ NodesAt(calls', "pipe") = NodesAt(calls, "pipe")
<1>1. /\ calls \in Seq(Call) /\ calls # <<>> /\ Tail(Top.lists) \in Seq(Lists)
      /\ calls' = [calls EXCEPT ![Len(calls)].lists = Tail(Top.lists)]
  <2>1. /\ calls \in Seq(Call) /\ calls # <<>> /\ Top.lists # <<>>
        /\ calls' = [calls EXCEPT ![Len(calls)].lists = Tail(@)]
    BY DEF Structure, TypeOK, PipeList, InPipe
  <2>2. Top.lists \in Seq(Lists)
    BY <2>1, PoppedPipes DEF Call
  <2>3. Tail(Top.lists) \in Seq(Lists)
    BY <2>1, <2>2
  <2>4. calls' = [calls EXCEPT ![Len(calls)].lists = Tail(Top.lists)]
    BY <2>1 DEF Top
  <2> QED BY <2>1, <2>3, <2>4
<1> DEFINE ls == Tail(Top.lists)
           cs == calls
<1>2. /\ ls \in Seq(Lists) /\ calls' = [cs EXCEPT ![Len(cs)].lists = ls]
      /\ cs \in Seq(Call) /\ cs # <<>>
  BY <1>1
<1> HIDE DEF ls, cs
<1>3. calls' \in Seq(Call)
  BY <1>2, ListsCall
<1>4. NodesAt(calls', "pipe") = NodesAt(cs, "pipe")
  BY <1>2, ListsCall
<1> QED BY <1>3, <1>4 DEF cs

LEMMA PipeEndUse ==
  ASSUME Structure, PipeEnd
  PROVE  Gone(Top.node) /\ Top.node \in Addr
<1>1. /\ calls # <<>> /\ Top.fn = "pipe" /\ Discard(Top.node) /\ calls' = Popped
      /\ UNCHANGED <<wins, rmts, keys>>
  BY DEF PipeEnd, InPipe, rings
<1>2. /\ NodesAt(calls', "pipe") = NodesAt(calls, "pipe") \ {Top.node}
      /\ Top.node \in NodesAt(calls, "pipe") /\ Top.node \in Addr
  BY <1>1, PoppedPipes
<1>3. Top.node \notin Range(wins) \cup Range(rmts) \cup keys
  BY <1>2 DEF Structure, Places, Apart
<1> QED BY <1>1, <1>2, <1>3 DEF Gone, InUse, InRings, WinLive, RmtLive

LEMMA NextUse ==
  ASSUME SeeDying = FALSE, Structure, [Next]_vars
  PROVE  (\E a \in Addr : Born(a) \/ Gone(a)) \/ Same
<1>1. ASSUME UNCHANGED <<pool, rings, calls>>
      PROVE  Same
  BY <1>1 DEF Same, pool, rings, InUse, InRings, WinLive, RmtLive
<1>2. ASSUME NEW a \in Addr,
             NewRmt(a) \/ AddKey(a) \/ \E w \in Addr : SplitWindow(w, a)
      PROVE  Born(a)
  BY <1>2, CreateUse
<1>3. ASSUME NEW a \in Addr, RunProgIstr(a)
      PROVE  Same
  <2>1. \E win, rmt \in NodeOrNull : Enter(win, rmt)
    BY <1>3 DEF RunProgIstr, NodeOrNull
  <2> QED BY <1>3, <2>1, EnterUse DEF RunProgIstr
<1>4. ASSUME NEW r \in Addr, Disconnect(r)
      PROVE  Same
  <2>1. r \in Range(rmts) /\ UNCHANGED pool
    BY <1>4 DEF Disconnect
  <2>2. CASE Disconnected(r, cur_rmt, calls)
    BY <2>1, <2>2, RingTypes, DisconnectedUse
  <2>3. CASE ~Disconnected(r, cur_rmt, calls)
    <3> DEFINE c == [fn |-> "hook", node |-> r, lists |-> <<>>, win |-> Null, wid |-> 0,
                     rmt |-> cur_rmt, rid |-> IdOf(cur_rmt)]
    <3>1. calls' = Append(calls, c) /\ UNCHANGED rings
      BY <1>4, <2>3 DEF Disconnect
    <3>2. c \in Call /\ c.fn # "pipe"
      BY Saved, SomeIds DEF Structure, Call, TypeOK, NodeOrNull
    <3> HIDE DEF c
    <3>3. NodesAt(calls', "pipe") = NodesAt(calls, "pipe")
      BY <3>1, <3>2, RingTypes, PushOther
    <3> QED BY <2>1, <3>1, <3>3 DEF Same, pool, rings, InUse, InRings, WinLive, RmtLive
  <2> QED BY <2>2, <2>3
<1>5. ASSUME NEW w \in Addr, NEW r \in Addr \cup {Null}, Display(w, r) \/ NewActiveWin(w)
      PROVE  Same
  <2>1. UNCHANGED <<pool, rings, calls>>
    BY <1>5 DEF Display, NewActiveWin
  <2> QED BY <1>1, <2>1
<1>6. ASSUME NEW f \in Frames, NEW a \in Addr \cup {Null}, Refer(f, a)
      PROVE  Same
  <2>1. UNCHANGED <<pool, rings, calls>>
    BY <1>6 DEF Refer
  <2> QED BY <1>1, <2>1
<1>7. ASSUME NEW a \in Addr, NEW l \in Lists, Suspend(a, l) \/ Resume(a, l)
      PROVE  Same
  <2>1. CASE Suspend(a, l)
    <3>1. UNCHANGED <<pool, rings, calls>> \/ ((ContextEnd \/ HookEnd) /\ UNCHANGED pool)
      BY <2>1 DEF Suspend
    <3> QED BY <1>1, <3>1, EndUse
  <2>2. CASE Resume(a, l)
    BY <2>2, ResumeUse DEF Resume
  <2> QED BY <1>7, <2>1, <2>2
<1>8. CASE ProgEnd
  BY <1>8, EndUse DEF ProgEnd
<1>9. CASE PipeNext
  <2> DEFINE s == Top.lists
  <2>1. Top \in Call /\ Top.node \in Addr /\ s # <<>>
    BY <1>9, PoppedPipes DEF PipeNext, InPipe
  <2>2. s \in Seq(Lists)
    BY <2>1 DEF Call
  <2> HIDE DEF s
  <2>3. Head(s) \in Lists
    BY <2>1, <2>2
  <2>4. ResumeHead(Top.node, Head(s)) /\ UNCHANGED <<pool, rings>>
    BY <1>9 DEF PipeNext, s
  <2> QED BY <2>1, <2>3, <2>4, ResumeUse
<1>10. CASE PipeList
  BY <1>10, PipeListCalls DEF PipeList, Same, pool, rings, InUse, InRings, WinLive, RmtLive
<1>11. CASE UNCHANGED vars
  BY <1>1, <1>11 DEF vars, pool, rings
<1> QED
  BY <1>2, <1>3, <1>4, <1>5, <1>6, <1>7, <1>8, <1>9, <1>10, <1>11,
     CloseUse, DropUse, DelKeyUse, PipeEndUse DEF Next

\* Ids stay apart, and a saved id still tells its node.
LEMMA UseIdentified ==
  ASSUME Structure, Identified, MaxId <= IdMod \div 2,
         (\E a \in Addr : Born(a) \/ Gone(a)) \/ Same
  PROVE  /\ Identified'
         /\ \A n \in NodeOrNull, i \in Ids :
              /\ Pair(n, i, WinLive) => Pair(n, i, WinLive)'
              /\ Pair(n, i, RmtLive) => Pair(n, i, RmtLive)'
<1>1. id \in [Addr -> Ids] /\ nextid \in Nat /\ MaxId \in Nat /\ Ids \subseteq Int
  BY NodesAssumption DEF Structure, TypeOK, Ids
<1>2. /\ nextid <= MaxId
      /\ \A a \in Addr : id[a] # -1 <=> a \in InUse
      /\ \A a \in Addr : id[a] # -1 => id[a] \in 0..(nextid - 1)
      /\ \A a, b \in Addr : id[a] = id[b] /\ id[a] # -1 => a = b
  BY DEF Identified, InUse
<1>3. ASSUME NEW a \in Addr, Born(a)
      PROVE  /\ Identified'
             /\ \A n \in NodeOrNull, i \in Ids :
                  /\ Pair(n, i, WinLive) => Pair(n, i, WinLive)'
                  /\ Pair(n, i, RmtLive) => Pair(n, i, RmtLive)'
  <2>1. nextid < MaxId /\ nextid' = nextid + 1 /\ id' = [id EXCEPT ![a] = nextid]
    BY <1>1, <1>3, ShortSame DEF Born, Unalloc
  <2>2. \A b \in Addr : id'[b] = IF b = a THEN nextid ELSE id[b]
    BY <1>1, <2>1
  <2>3. InUse' = InUse \cup {a} /\ WinLive \subseteq WinLive' /\ RmtLive \subseteq RmtLive'
    BY <1>3 DEF Born
  <2>4. Identified'
    <3>1. nextid' <= MaxId
      BY <1>1, <2>1
    <3>2. \A b \in Addr : id'[b] # -1 <=> b \in InUse'
      BY <1>1, <1>2, <2>2, <2>3
    <3>3. \A b \in Addr : id'[b] # -1 => id'[b] \in 0..(nextid' - 1)
      BY <1>1, <1>2, <2>1, <2>2
    <3>4. \A b, c \in Addr : id'[b] = id'[c] /\ id'[b] # -1 => b = c
      BY <1>1, <1>2, <2>2
    <3> QED BY <3>1, <3>2, <3>3, <3>4 DEF Identified, InUse
  <2>5. ASSUME NEW i \in 0..(nextid - 1)
        PROVE  /\ i \in 0..(nextid' - 1)
               /\ \A b \in Addr : id'[b] = i => id[b] = i
    BY <1>1, <2>1, <2>2
  <2> QED BY <2>3, <2>4, <2>5 DEF Pair
<1>4. ASSUME NEW a \in Addr, Gone(a)
      PROVE  /\ Identified'
             /\ \A n \in NodeOrNull, i \in Ids :
                  /\ Pair(n, i, WinLive) => Pair(n, i, WinLive)'
                  /\ Pair(n, i, RmtLive) => Pair(n, i, RmtLive)'
  <2>1. nextid' = nextid /\ \A b \in Addr : id'[b] = IF b = a THEN -1 ELSE id[b]
    BY <1>1, <1>4 DEF Gone, Discard
  <2>2. /\ InUse' = InUse \ {a} /\ WinLive \ {a} \subseteq WinLive'
        /\ RmtLive \ {a} \subseteq RmtLive'
    BY <1>4 DEF Gone
  <2>3. Identified'
    BY <1>2, <2>1, <2>2 DEF Identified, InUse
  <2>4. ASSUME NEW i \in 0..(nextid - 1), NEW b \in Addr, id'[b] = i
        PROVE  id[b] = i /\ b # a
    BY <1>1, <2>1, <2>4
  <2> QED BY <2>1, <2>2, <2>3, <2>4 DEF Pair
<1>5. CASE Same
  BY <1>5 DEF Same, pool, Identified, InUse, Pair
<1> QED BY <1>3, <1>4, <1>5

-----------------------------------------------------------------------------
(* The current window and remote.                                          *)

\* What is saved now can be compared later.
LEMMA SavedGood ==
  ASSUME Structure, Identified, Contexts
  PROVE  /\ Pair(cur_win, IdOf(cur_win), WinLive) /\ Pair(cur_rmt, IdOf(cur_rmt), RmtLive)
         /\ [fn |-> "context", node |-> Null, lists |-> <<>>, win |-> cur_win, wid |-> IdOf(cur_win),
             rmt |-> cur_rmt, rid |-> IdOf(cur_rmt)] \in GoodCalls
         /\ [win |-> cur_win, wid |-> IdOf(cur_win), rmt |-> cur_rmt, rid |-> IdOf(cur_rmt)]
              \in GoodContexts
         /\ \A r \in Addr : [fn |-> "hook", node |-> r, lists |-> <<>>, win |-> Null, wid |-> 0,
                             rmt |-> cur_rmt, rid |-> IdOf(cur_rmt)] \in GoodCalls
<1>1. /\ cur_win # Null => cur_win \in WinLive /\ cur_win \in Addr /\ id[cur_win] # -1
      /\ cur_rmt # Null => cur_rmt \in RmtLive /\ cur_rmt \in Addr /\ id[cur_rmt] # -1
  BY RingTypes DEF Contexts, Identified, InUse
<1>2. Pair(cur_win, IdOf(cur_win), WinLive) /\ Pair(cur_rmt, IdOf(cur_rmt), RmtLive)
  BY <1>1 DEF Pair, IdOf, Identified
<1>3. /\ IdOf(cur_win) \in Ids /\ IdOf(cur_rmt) \in Ids /\ 0 \in Ids
      /\ cur_win \in NodeOrNull /\ cur_rmt \in NodeOrNull /\ Null \in NodeOrNull
      /\ Addr \subseteq NodeOrNull
  BY Saved, SomeIds DEF Structure, TypeOK, NodeOrNull
<1>4. Pair(Null, 0, WinLive)
  BY DEF Pair
<1> QED BY <1>2, <1>3, <1>4 DEF GoodCalls, GoodContexts, Pairs, Call, Context

\* What a saved pair gives back is in use.
LEMMA BackGood ==
  ASSUME NEW n \in NodeOrNull, NEW i
  PROVE  /\ Pair(n, i, WinLive) => Back(n, i) \in WinLive \cup {Null}
         /\ Pair(n, i, RmtLive) => Back(n, i) \in RmtLive \cup {Null}
BY DEF Pair, Back, NodeOrNull

\* What was saved before a step is good after it.
LEMMA StayGood ==
  ASSUME Structure, Identified, MaxId <= IdMod \div 2,
         (\E a \in Addr : Born(a) \/ Gone(a)) \/ Same
  PROVE  /\ GoodCalls \subseteq GoodCalls' /\ GoodContexts \subseteq GoodContexts'
         /\ \A s \in Seq(GoodCalls) : s \in Seq(GoodCalls')
         /\ stack \in [Addr -> [Lists -> Seq(GoodContexts)]]
              => stack \in [Addr -> [Lists -> Seq(GoodContexts')]]
<1>1. \A n \in NodeOrNull, i \in Ids :
        /\ Pair(n, i, WinLive) => Pair(n, i, WinLive)'
        /\ Pair(n, i, RmtLive) => Pair(n, i, RmtLive)'
  BY UseIdentified
<1>2. GoodCalls \subseteq GoodCalls'
  BY <1>1 DEF GoodCalls, Pairs, Call
<1>3. GoodContexts \subseteq GoodContexts'
  BY <1>1 DEF GoodContexts, Pairs, Context
<1>4. \A s \in Seq(GoodCalls) : s \in Seq(GoodCalls')
  BY <1>2
<1>5. stack \in [Addr -> [Lists -> Seq(GoodContexts)]]
        => stack \in [Addr -> [Lists -> Seq(GoodContexts')]]
  <2>1. \A s \in Seq(GoodContexts) : s \in Seq(GoodContexts')
    BY <1>3
  <2> QED BY <2>1
<1> QED BY <1>2, <1>3, <1>4, <1>5

LEMMA PipeGood ==
  /\ \A a \in Addr : Pipe(a, WinLists) \in GoodCalls /\ Pipe(a, RmtLists) \in GoodCalls
  /\ NoLists \in [Lists -> Seq(GoodContexts)]
BY CallTypes DEF Pipe, GoodCalls, Pairs, Pair, NoLists

\* The innermost call was good.
LEMMA TopGood ==
  ASSUME Contexts, calls # <<>>
  PROVE  Popped \in Seq(GoodCalls) /\ Top \in GoodCalls
BY PopCall DEF Contexts, Popped, Top

\* Nothing but the rings changes, and a may be gone, which is not current.
LEMMA StayContexts ==
  ASSUME Structure, Identified, Contexts, MaxId <= IdMod \div 2,
         \/ \E a \in Addr : Born(a) \/ (Gone(a) /\ a \notin {cur_win, cur_rmt})
         \/ Same,
         UNCHANGED context, calls' \in Seq(GoodCalls),
         stack' \in [Addr -> [Lists -> Seq(GoodContexts)]]
  PROVE  Contexts'
<1>1. /\ \A s \in Seq(GoodCalls) : s \in Seq(GoodCalls')
      /\ GoodContexts \subseteq GoodContexts'
  BY StayGood
<1>2. stack' \in [Addr -> [Lists -> Seq(GoodContexts')]]
  <2>1. \A s \in Seq(GoodContexts) : s \in Seq(GoodContexts')
    BY <1>1
  <2> QED BY <2>1
<1>3. cur_win' \in WinLive' \cup {Null} /\ cur_rmt' \in RmtLive' \cup {Null}
  BY DEF Contexts, Born, Gone, Same, context
<1> QED BY <1>1, <1>2, <1>3 DEF Contexts

\* A program starts or resumes.
LEMMA EnterContexts ==
  ASSUME Structure, Identified, Contexts, MaxId <= IdMod \div 2, Same,
         NEW win \in WinLive \cup {Null}, NEW rmt \in RmtLive \cup {Null}, Enter(win, rmt),
         stack' \in [Addr -> [Lists -> Seq(GoodContexts)]]
  PROVE  Contexts'
<1> DEFINE c == [fn |-> "context", node |-> Null, lists |-> <<>>, win |-> cur_win,
                 wid |-> IdOf(cur_win), rmt |-> cur_rmt, rid |-> IdOf(cur_rmt)]
<1>1. c \in GoodCalls
  BY SavedGood
<1>2. calls' = Append(calls, c) /\ cur_win' = win /\ cur_rmt' = rmt /\ calls \in Seq(GoodCalls)
  BY DEF Enter, Contexts
<1> HIDE DEF c
<1>3. calls' \in Seq(GoodCalls)
  BY <1>1, <1>2
<1>4. /\ \A s \in Seq(GoodCalls) : s \in Seq(GoodCalls')
      /\ GoodContexts \subseteq GoodContexts'
  BY StayGood
<1>5. stack' \in [Addr -> [Lists -> Seq(GoodContexts')]]
  <2>1. \A s \in Seq(GoodContexts) : s \in Seq(GoodContexts')
    BY <1>4
  <2> QED BY <2>1
<1> QED BY <1>2, <1>3, <1>4, <1>5 DEF Contexts, Same

LEMMA ResumeContexts ==
  ASSUME Structure, Identified, Contexts, MaxId <= IdMod \div 2, Same,
         NEW a \in Addr, NEW l \in Lists, ResumeHead(a, l)
  PROVE  Contexts'
<1> DEFINE es == Head(stack[a][l])
<1>1. stack \in [Addr -> [Lists -> Seq(GoodContexts)]] /\ stack[a][l] # <<>>
  BY DEF Contexts, ResumeHead
<1>2. es \in GoodContexts /\ stack' \in [Addr -> [Lists -> Seq(GoodContexts)]]
  BY <1>1, ListTypes DEF ResumeHead
<1>3. Enter(Back(es.win, es.wid), Back(es.rmt, es.rid))
  BY DEF ResumeHead
<1> HIDE DEF es
<1>4. Back(es.win, es.wid) \in WinLive \cup {Null} /\ Back(es.rmt, es.rid) \in RmtLive \cup {Null}
  BY <1>2, BackGood DEF GoodContexts, Context, Pairs
<1> QED BY <1>2, <1>3, <1>4, EnterContexts

\* A remote leaves its ring, in the context of the disconnecting program.
LEMMA DisconnectedContexts ==
  ASSUME Structure, Identified, Contexts, MaxId <= IdMod \div 2,
         NEW r \in Range(rmts), NEW c \in RmtLive \cup {Null}, NEW cs \in Seq(GoodCalls),
         NodesAt(cs, "pipe") = NodesAt(calls, "pipe"), Disconnected(r, c, cs), UNCHANGED pool,
         stack' \in [Addr -> [Lists -> Seq(GoodContexts)]]
  PROVE  Contexts'
<1>1. cs \in Seq(Call)
  <2>1. GoodCalls \subseteq Call
    BY DEF GoodCalls
  <2> QED BY <2>1
<1>2. Same
  BY <1>1, DisconnectedUse
<1>3. /\ \A s \in Seq(GoodCalls) : s \in Seq(GoodCalls')
      /\ GoodContexts \subseteq GoodContexts'
  BY <1>2, StayGood
<1>4. stack' \in [Addr -> [Lists -> Seq(GoodContexts')]]
  <2>1. \A s \in Seq(GoodContexts) : s \in Seq(GoodContexts')
    BY <1>3
  <2> QED BY <2>1
<1>5. calls' \in Seq(GoodCalls')
  <2>1. r \in Addr
    BY RingTypes
  <2>2. calls' = Append(cs, Pipe(r, RmtLists)) /\ Pipe(r, RmtLists) \in GoodCalls
    BY <2>1, PipeGood DEF Disconnected
  <2>3. calls' \in Seq(GoodCalls)
    BY <2>2
  <2> QED BY <1>3, <2>3
<1>6. cur_win' \in WinLive' \cup {Null} /\ cur_rmt' \in RmtLive' \cup {Null}
  BY <1>2 DEF Contexts, Same, Disconnected
<1> QED BY <1>4, <1>5, <1>6 DEF Contexts

LEMMA EndContexts ==
  ASSUME Structure, Identified, Contexts, MaxId <= IdMod \div 2,
         ContextEnd \/ HookEnd, UNCHANGED pool,
         stack' \in [Addr -> [Lists -> Seq(GoodContexts)]]
  PROVE  Contexts'
<1>1. calls # <<>> /\ Popped \in Seq(GoodCalls) /\ Top \in GoodCalls
  BY TopGood DEF ContextEnd, HookEnd
<1>2. /\ Back(Top.win, Top.wid) \in WinLive \cup {Null}
      /\ Back(Top.rmt, Top.rid) \in RmtLive \cup {Null}
  BY <1>1, BackGood DEF GoodCalls, Pairs, Call
<1>3. CASE ContextEnd
  <2>1. Same
    BY <1>3, EndUse
  <2>2. /\ \A s \in Seq(GoodCalls) : s \in Seq(GoodCalls')
        /\ GoodContexts \subseteq GoodContexts'
    BY <2>1, StayGood
  <2>3. stack' \in [Addr -> [Lists -> Seq(GoodContexts')]]
    <3>1. \A s \in Seq(GoodContexts) : s \in Seq(GoodContexts')
      BY <2>2
    <3> QED BY <3>1
  <2>4. calls' \in Seq(GoodCalls')
    BY <1>1, <1>3, <2>2 DEF ContextEnd
  <2> QED BY <1>2, <1>3, <2>1, <2>3, <2>4 DEF Contexts, ContextEnd, Same
<1>4. CASE HookEnd
  <2>1. Top.fn = "hook" /\ Disconnected(Top.node, Back(Top.rmt, Top.rid), Popped)
    BY <1>4 DEF HookEnd
  <2>2. Top.node \in Range(rmts) /\ NodesAt(Popped, "pipe") = NodesAt(calls, "pipe")
    BY <1>1, <2>1, PoppedPipes
  <2> DEFINE r == Top.node
             c == Back(Top.rmt, Top.rid)
             cs == Popped
  <2>3. /\ r \in Range(rmts) /\ c \in RmtLive \cup {Null} /\ cs \in Seq(GoodCalls)
        /\ NodesAt(cs, "pipe") = NodesAt(calls, "pipe") /\ Disconnected(r, c, cs)
    BY <1>1, <1>2, <2>1, <2>2
  <2> HIDE DEF r, c, cs
  <2> QED BY <2>3, DisconnectedContexts
<1> QED BY <1>3, <1>4

-----------------------------------------------------------------------------
(* What break_pipe() runs in.                                              *)

LEMMA BelowPush ==
  ASSUME NEW cs \in Seq(Call), NEW c \in Call, Underneath(cs),
         cs # <<>> /\ cs[Len(cs)].fn = "pipe"
           => c.fn = "context" /\ cs[Len(cs)].node \notin {c.win, c.rmt}
  PROVE  Underneath(Append(cs, c))
<1> DEFINE t == Append(cs, c)
           n == Len(cs)
<1>1. /\ n \in Nat /\ Len(t) = n + 1 /\ t \in Seq(Call) /\ (n > 0 => cs # <<>>)
      /\ \A i \in 1..n : t[i] = cs[i]
      /\ t[n + 1] = c
  BY AppendProperties
<1>2. DOMAIN t = 1..(n + 1) /\ DOMAIN cs = 1..n
  BY <1>1
<1> HIDE DEF t
<1> SUFFICES ASSUME NEW i \in At(t, "pipe"), i # Len(t)
             PROVE  t[i + 1].fn = "context" /\ t[i].node \notin {t[i + 1].win, t[i + 1].rmt}
  BY DEF Underneath, t
<1>3. i \in 1..n /\ i \in At(cs, "pipe") /\ t[i] = cs[i]
  BY <1>1, <1>2 DEF At
<1>4. CASE i = n
  <2>1. cs # <<>> /\ cs[n].fn = "pipe"
    BY <1>1, <1>3, <1>4 DEF At
  <2> QED BY <1>1, <1>3, <1>4, <2>1
<1>5. CASE i # n
  <2>1. i + 1 \in 1..n
    BY <1>1, <1>3, <1>5
  <2> QED BY <1>1, <1>3, <1>5, <2>1 DEF Underneath
<1> QED BY <1>4, <1>5

LEMMA BelowPop ==
  ASSUME NEW cs \in Seq(Call), cs # <<>>, Underneath(cs)
  PROVE  LET t == SubSeq(cs, 1, Len(cs) - 1)
             c == cs[Len(cs)]
         IN /\ Underneath(t)
            /\ t # <<>> /\ t[Len(t)].fn = "pipe"
                 => c.fn = "context" /\ t[Len(t)].node \notin {c.win, c.rmt}
<1> DEFINE t == SubSeq(cs, 1, Len(cs) - 1)
           n == Len(cs)
<1>1. n \in Nat /\ n > 0 /\ DOMAIN cs = 1..n /\ \A i \in 1..n : cs[i] \in Call
  OBVIOUS
<1>2. t \in Seq(Call) /\ Len(t) = n - 1 /\ \A i \in 1..(n - 1) : t[i] = cs[i]
  BY <1>1, SubSeqProperties
<1>3. DOMAIN t = 1..(n - 1) /\ (t # <<>> => Len(t) \in 1..(n - 1))
  BY <1>1, <1>2
<1> HIDE DEF t, n
<1>4. \A i \in At(t, "pipe") : i \in 1..(n - 1) /\ i \in At(cs, "pipe") /\ t[i] = cs[i]
  BY <1>1, <1>2, <1>3 DEF At
<1>5. \A i \in At(t, "pipe") :
        cs[i + 1].fn = "context" /\ cs[i].node \notin {cs[i + 1].win, cs[i + 1].rmt}
  BY <1>1, <1>4 DEF Underneath, n
<1>6. Underneath(t)
  <2> SUFFICES ASSUME NEW i \in At(t, "pipe"), i # Len(t)
               PROVE  t[i + 1].fn = "context" /\ t[i].node \notin {t[i + 1].win, t[i + 1].rmt}
    BY DEF Underneath
  <2>1. i + 1 \in 1..(n - 1)
    BY <1>1, <1>2, <1>4
  <2> QED BY <1>2, <1>4, <1>5, <2>1
<1>7. ASSUME t # <<>>, t[Len(t)].fn = "pipe"
      PROVE  cs[n].fn = "context" /\ t[Len(t)].node \notin {cs[n].win, cs[n].rmt}
  <2>1. Len(t) \in At(t, "pipe") /\ Len(t) + 1 = n
    BY <1>1, <1>2, <1>3, <1>7 DEF At
  <2> QED BY <1>4, <1>5, <2>1
<1> QED BY <1>6, <1>7 DEF t, n

LEMMA BelowLists ==
  ASSUME NEW cs \in Seq(Call), cs # <<>>, Underneath(cs), NEW ls
  PROVE  Underneath([cs EXCEPT ![Len(cs)].lists = ls])
<1> DEFINE t == [cs EXCEPT ![Len(cs)].lists = ls]
<1>1. DOMAIN cs = 1..Len(cs) /\ Len(cs) \in 1..Len(cs) /\ \A i \in DOMAIN cs : cs[i] \in Call
  OBVIOUS
<1>2. /\ DOMAIN t = 1..Len(cs) /\ Len(t) = Len(cs)
      /\ \A i \in DOMAIN cs : /\ t[i].fn = cs[i].fn /\ t[i].node = cs[i].node
                              /\ t[i].win = cs[i].win /\ t[i].rmt = cs[i].rmt
  BY <1>1 DEF Call
<1> HIDE DEF t
<1>3. \A i \in At(cs, "pipe") : i # Len(cs) => i + 1 \in DOMAIN cs
  BY <1>1 DEF At
<1>4. At(t, "pipe") = At(cs, "pipe") /\ At(cs, "pipe") \subseteq DOMAIN cs
  BY <1>1, <1>2 DEF At
<1>5. Underneath(t)
  BY <1>1, <1>2, <1>3, <1>4 DEF Underneath
<1> QED BY <1>5 DEF t

\* A call is added, by a program or by break_pipe().
LEMMA PushAside ==
  ASSUME NEW cs \in Seq(Call), NEW c \in Call, Underneath(cs),
         cs # <<>> /\ cs[Len(cs)].fn = "pipe"
           => c.fn = "context" /\ cs[Len(cs)].node \notin {c.win, c.rmt},
         calls' = Append(cs, c),
         c.fn = "pipe" => c.node \notin {cur_win', cur_rmt'}
  PROVE  Aside'
<1>1. Underneath(calls')
  BY BelowPush
<1>2. calls'[Len(calls')] = c
  BY PushPop
<1> QED BY <1>1, <1>2 DEF Aside, InPipe, Top

LEMMA DisconnectedAside ==
  ASSUME Structure, Contexts, NEW r \in Range(rmts), NEW c, NEW cs \in Seq(Call), Underneath(cs),
         ~(cs # <<>> /\ cs[Len(cs)].fn = "pipe"), Disconnected(r, c, cs)
  PROVE  Aside'
<1>1. r \in Addr /\ r # Null
  BY RingTypes, NodesAssumption
<1> DEFINE p == Pipe(r, RmtLists)
<1>2. p \in Call /\ p.fn = "pipe" /\ p.node = r /\ calls' = Append(cs, p)
  BY <1>1, CallTypes DEF Pipe, Disconnected
<1>3. r \notin WinLive
  BY DEF Structure, Places, Apart, WinLive
<1>4. r \notin {cur_win', cur_rmt'}
  BY <1>1, <1>3 DEF Disconnected, Contexts
<1> HIDE DEF p
<1> QED BY <1>2, <1>4, PushAside

\* A call is over: below, a program goes on, or break_pipe() in its context.
LEMMA EndAside ==
  ASSUME Structure, Contexts, Aside, ContextEnd \/ HookEnd
  PROVE  Aside'
<1>1. calls \in Seq(Call) /\ calls # <<>>
  BY DEF Structure, TypeOK, ContextEnd, HookEnd
<1>2. /\ Underneath(Popped)
      /\ Popped # <<>> /\ Popped[Len(Popped)].fn = "pipe"
           => Top.fn = "context" /\ Popped[Len(Popped)].node \notin {Top.win, Top.rmt}
  BY <1>1, BelowPop DEF Aside, Popped, Top
<1>3. CASE ContextEnd
  <2>1. /\ calls' = Popped /\ cur_win' \in {Top.win, Null} /\ cur_rmt' \in {Top.rmt, Null}
    BY <1>3 DEF ContextEnd, Back
  <2>2. ASSUME Popped # <<>>, Popped[Len(Popped)].fn = "pipe"
        PROVE  Popped[Len(Popped)].node # Null
    <3>1. Popped \in Seq(Call) /\ NodesAt(Popped, "pipe") \subseteq NodesAt(calls, "pipe")
      BY <1>1, PoppedPipes
    <3> DEFINE s == Popped
    <3>2. s \in Seq(Call) /\ s # <<>> /\ s[Len(s)].fn = "pipe"
      BY <2>2, <3>1
    <3> HIDE DEF s
    <3>3. Len(s) \in At(s, "pipe")
      BY <3>2 DEF At
    <3>4. s[Len(s)].node \in NodesAt(s, "pipe")
      BY <3>3 DEF NodesAt
    <3>5. NodesAt(calls, "pipe") \subseteq Addr
      BY RingTypes DEF InUse
    <3> QED BY <3>1, <3>4, <3>5, NodesAssumption DEF s
  <2> QED BY <1>2, <2>1, <2>2 DEF Aside, InPipe, Top
<1>4. CASE HookEnd
  <2>1. Top.fn = "hook" /\ Disconnected(Top.node, Back(Top.rmt, Top.rid), Popped)
    BY <1>4 DEF HookEnd
  <2>2. /\ Top.node \in Range(rmts) /\ Popped \in Seq(Call)
        /\ ~(Popped # <<>> /\ Popped[Len(Popped)].fn = "pipe")
    BY <1>1, <1>2, <2>1, PoppedPipes
  <2> QED BY <1>2, <2>1, <2>2, DisconnectedAside
<1> QED BY <1>3, <1>4

LEMMA EnterAside ==
  ASSUME Structure, Aside, NEW win, NEW rmt, Enter(win, rmt)
  PROVE  Aside'
<1> DEFINE c == [fn |-> "context", node |-> Null, lists |-> <<>>, win |-> cur_win,
                 wid |-> IdOf(cur_win), rmt |-> cur_rmt, rid |-> IdOf(cur_rmt)]
<1>1. /\ c \in Call /\ c.fn = "context" /\ c.win = cur_win /\ c.rmt = cur_rmt
      /\ calls' = Append(calls, c)
  BY Saved DEF Structure, TypeOK, Call, NodeOrNull, Enter
<1> HIDE DEF c
<1> QED BY <1>1, RingTypes, PushAside DEF Aside, InPipe, Top

LEMMA NextAside ==
  ASSUME SeeDying = FALSE, Structure, Contexts, Aside, [Next]_vars
  PROVE  Aside'
<1>1. calls \in Seq(Call)
  BY RingTypes
<1>2. ASSUME UNCHANGED calls, Running \/ UNCHANGED context
      PROVE  Aside'
  BY <1>2 DEF Aside, InPipe, Running, Top, context
<1>3. ASSUME NEW a \in Addr,
             \/ NewRmt(a) \/ AddKey(a) \/ DelKey(a) \/ NewActiveWin(a)
             \/ \E w \in Addr : SplitWindow(w, a)
      PROVE  Aside'
  BY <1>2, <1>3 DEF NewRmt, AddKey, DelKey, NewActiveWin, SplitWindow
<1>4. ASSUME NEW a \in Addr, RunProgIstr(a)
      PROVE  Aside'
  <2>1. \E win, rmt \in NodeOrNull : Enter(win, rmt)
    BY <1>4 DEF RunProgIstr, NodeOrNull
  <2> QED BY <2>1, EnterAside
<1>5. ASSUME NEW a, NEW l, ResumeHead(a, l)
      PROVE  Aside'
  BY <1>5, EnterAside DEF ResumeHead
<1>6. ASSUME NEW r \in Addr, Disconnect(r)
      PROVE  Aside'
  <2>1. r \in Range(rmts) /\ Running
    BY <1>6 DEF Disconnect
  <2>2. CASE Disconnected(r, cur_rmt, calls)
    BY <1>1, <2>1, <2>2, DisconnectedAside DEF Aside, Running, Top
  <2>3. CASE ~Disconnected(r, cur_rmt, calls)
    <3> DEFINE c == [fn |-> "hook", node |-> r, lists |-> <<>>, win |-> Null, wid |-> 0,
                     rmt |-> cur_rmt, rid |-> IdOf(cur_rmt)]
    <3>1. calls' = Append(calls, c)
      BY <1>6, <2>3 DEF Disconnect
    <3>2. c \in Call /\ c.fn # "pipe"
      BY Saved, SomeIds DEF Structure, Call, TypeOK, NodeOrNull
    <3> HIDE DEF c
    <3> QED BY <1>1, <2>1, <3>1, <3>2, PushAside DEF Aside, Running, Top
  <2> QED BY <2>2, <2>3
<1>7. ASSUME NEW w \in Addr, NEW r \in Addr \cup {Null}, Display(w, r)
      PROVE  Aside'
  BY <1>2, <1>7 DEF Display
<1>8. ASSUME NEW f \in Frames, NEW a \in Addr \cup {Null}, Refer(f, a)
      PROVE  Aside'
  BY <1>2, <1>8 DEF Refer
<1>9. ASSUME NEW a \in Addr, NEW l \in Lists, Suspend(a, l)
      PROVE  Aside'
  BY <1>2, <1>9, EndAside DEF Suspend
<1>10. ASSUME NEW w \in Addr, NEW into \in Addr, CloseWindow(w, into)
       PROVE  Aside'
  <2> DEFINE p == Pipe(w, WinLists)
  <2>1. /\ Running /\ w \in Range(wins) /\ calls' = Append(calls, p)
        /\ cur_win' = (IF cur_win = w THEN Null ELSE cur_win) /\ cur_rmt' = cur_rmt
    BY <1>10, CloseBetween DEF CloseWindow
  <2>2. w \in Addr /\ w # Null
    BY <2>1, RingTypes, NodesAssumption
  <2>3. p \in Call /\ p.fn = "pipe" /\ p.node = w
    BY <2>2, CallTypes DEF Pipe
  <2>4. w \notin RmtLive
    BY <2>1 DEF Structure, Places, Apart, RmtLive
  <2>5. w \notin {cur_win', cur_rmt'}
    BY <2>1, <2>2, <2>4 DEF Contexts
  <2> HIDE DEF p
  <2> QED BY <1>1, <2>1, <2>3, <2>5, PushAside DEF Aside, Running, Top
<1>11. CASE DropWindow
  BY <1>11 DEF DropWindow, Aside, InPipe
<1>12. CASE PipeList
  <2>1. /\ calls # <<>> /\ calls' = [calls EXCEPT ![Len(calls)].lists = Tail(@)]
        /\ Top.node \notin {cur_win, cur_rmt} /\ UNCHANGED context
    BY <1>12 DEF PipeList, InPipe, Aside
  <2>2. Underneath(calls')
    BY <1>1, <2>1, BelowLists DEF Aside
  <2>3. calls'[Len(calls')].node = Top.node
    <3>1. Len(calls) \in DOMAIN calls /\ calls[Len(calls)] \in Call
      BY <1>1, <2>1
    <3>2. Len(calls') = Len(calls)
      BY <1>1, <2>1
    <3> QED BY <2>1, <3>1, <3>2 DEF Top, Call
  <2> QED BY <2>1, <2>2, <2>3 DEF Aside, InPipe, Top, context
<1>13. CASE PipeEnd
  <2>1. calls # <<>> /\ Top.fn = "pipe" /\ calls' = Popped
    BY <1>13 DEF PipeEnd, InPipe
  <2>2. Underneath(Popped) /\ ~(Popped # <<>> /\ Popped[Len(Popped)].fn = "pipe")
    BY <1>1, <2>1, BelowPop DEF Aside, Popped, Top
  <2> QED BY <2>1, <2>2 DEF Aside, InPipe, Top
<1>14. CASE UNCHANGED vars
  BY <1>2, <1>14 DEF vars, context
<1>15. CASE ProgEnd
  BY <1>15, EndAside DEF ProgEnd
<1>16. ASSUME NEW a \in Addr, NEW l \in Lists, Resume(a, l)
       PROVE  Aside'
  BY <1>5, <1>16 DEF Resume
<1>17. CASE PipeNext
  BY <1>5, <1>17 DEF PipeNext
<1> QED BY <1>3, <1>4, <1>6, <1>7, <1>8, <1>9, <1>10, <1>11, <1>12, <1>13, <1>14,
           <1>15, <1>16, <1>17 DEF Next

LEMMA NextContexts ==
  ASSUME SeeDying = FALSE, Structure, Identified, Contexts, Aside, MaxId <= IdMod \div 2, [Next]_vars
  PROVE  Contexts'
<1>1. /\ calls \in Seq(GoodCalls) /\ stack \in [Addr -> [Lists -> Seq(GoodContexts)]]
      /\ \A a \in Addr : [stack EXCEPT ![a] = NoLists] \in [Addr -> [Lists -> Seq(GoodContexts)]]
  BY PipeGood DEF Contexts
<1>2. ASSUME UNCHANGED <<context, calls, stack>>, Same
      PROVE  Contexts'
  BY <1>1, <1>2, StayContexts
<1>3. ASSUME UNCHANGED <<pool, rings, calls>>
      PROVE  Same
  BY <1>3 DEF Same, pool, rings, InUse, InRings, WinLive, RmtLive
<1>4. ASSUME NEW a \in Addr,
             NewRmt(a) \/ AddKey(a) \/ \E w \in Addr : SplitWindow(w, a)
      PROVE  Contexts'
  <2>1. Born(a)
    BY <1>4, CreateUse
  <2>2. /\ UNCHANGED <<context, calls>>
        /\ stack' \in {stack, [stack EXCEPT ![a] = NoLists]}
    BY <1>4 DEF NewRmt, AddKey, SplitWindow
  <2>3. calls' \in Seq(GoodCalls) /\ stack' \in [Addr -> [Lists -> Seq(GoodContexts)]]
    BY <1>1, <2>2
  <2> QED BY <2>1, <2>2, <2>3, StayContexts
<1>5. ASSUME NEW a \in Addr, DelKey(a)
      PROVE  Contexts'
  <2>1. Gone(a)
    BY <1>5, DelKeyUse
  <2>2. a \in keys /\ UNCHANGED <<context, calls, stack>>
    BY <1>5 DEF DelKey
  <2>3. a \notin {cur_win, cur_rmt}
    BY <2>2, NodesAssumption DEF Structure, Places, Apart, Contexts, WinLive, RmtLive
  <2>4. calls' \in Seq(GoodCalls) /\ stack' \in [Addr -> [Lists -> Seq(GoodContexts)]]
    BY <1>1, <2>2
  <2> QED BY <2>1, <2>2, <2>3, <2>4, StayContexts
<1>6. ASSUME NEW a \in Addr, RunProgIstr(a)
      PROVE  Contexts'
  <2>1. \E win \in WinLive \cup {Null}, rmt \in RmtLive \cup {Null} : Enter(win, rmt)
    BY <1>6, NamedNodes DEF RunProgIstr, WinLive, RmtLive
  <2>2. Same
    <3>1. \E win, rmt \in NodeOrNull : Enter(win, rmt)
      BY <1>6 DEF RunProgIstr, NodeOrNull
    <3> QED BY <1>6, <3>1, EnterUse DEF RunProgIstr
  <2>3. stack' \in [Addr -> [Lists -> Seq(GoodContexts)]]
    BY <1>1, <1>6 DEF RunProgIstr
  <2> QED BY <2>1, <2>2, <2>3, EnterContexts
<1>7. ASSUME NEW r \in Addr, Disconnect(r)
      PROVE  Contexts'
  <2>1. r \in Range(rmts) /\ UNCHANGED <<pool, stack>>
    BY <1>7 DEF Disconnect
  <2>2. CASE Disconnected(r, cur_rmt, calls)
    <3> DEFINE c == cur_rmt
               cs == calls
    <3>1. /\ c \in RmtLive \cup {Null} /\ cs \in Seq(GoodCalls)
          /\ NodesAt(cs, "pipe") = NodesAt(calls, "pipe") /\ Disconnected(r, c, cs)
          /\ stack' \in [Addr -> [Lists -> Seq(GoodContexts)]]
      BY <1>1, <2>1, <2>2 DEF Contexts
    <3> HIDE DEF c, cs
    <3> QED BY <2>1, <3>1, DisconnectedContexts
  <2>3. CASE ~Disconnected(r, cur_rmt, calls)
    <3> DEFINE c == [fn |-> "hook", node |-> r, lists |-> <<>>, win |-> Null, wid |-> 0,
                     rmt |-> cur_rmt, rid |-> IdOf(cur_rmt)]
    <3>1. calls' = Append(calls, c) /\ cur_rmt' = r /\ UNCHANGED <<rings, cur_win>>
      BY <1>7, <2>3 DEF Disconnect
    <3>2. c \in GoodCalls /\ c \in Call /\ c.fn # "pipe"
      BY SavedGood DEF GoodCalls
    <3> HIDE DEF c
    <3>3. NodesAt(calls', "pipe") = NodesAt(calls, "pipe")
      BY <3>1, <3>2, RingTypes, PushOther
    <3>4. Same
      BY <2>1, <3>1, <3>3 DEF Same, pool, rings, InUse, InRings, WinLive, RmtLive
    <3>5. calls' \in Seq(GoodCalls)
      BY <1>1, <3>1, <3>2
    <3>6. /\ \A s \in Seq(GoodCalls) : s \in Seq(GoodCalls')
          /\ stack \in [Addr -> [Lists -> Seq(GoodContexts')]]
      BY <1>1, <3>4, StayGood
    <3>7. cur_win' \in WinLive' \cup {Null} /\ cur_rmt' \in RmtLive' \cup {Null}
      BY <2>1, <3>1, <3>4 DEF Contexts, Same, RmtLive
    <3> QED BY <2>1, <3>5, <3>6, <3>7 DEF Contexts
  <2> QED BY <2>2, <2>3
<1>8. ASSUME NEW w \in Addr, NEW r \in Addr \cup {Null}, Display(w, r) \/ NewActiveWin(w)
      PROVE  Contexts'
  BY <1>2, <1>3, <1>8 DEF Display, NewActiveWin
<1>9. ASSUME NEW f \in Frames, NEW a \in Addr \cup {Null}, Refer(f, a)
      PROVE  Contexts'
  BY <1>2, <1>3, <1>9 DEF Refer
<1>10. ASSUME NEW a \in Addr, NEW l \in Lists, Suspend(a, l)
       PROVE  Contexts'
  <2> DEFINE c == [win |-> cur_win, wid |-> IdOf(cur_win), rmt |-> cur_rmt, rid |-> IdOf(cur_rmt)]
  <2>1. c \in GoodContexts
    BY SavedGood
  <2>2. stack' = [stack EXCEPT ![a][l] = Append(@, c)] /\ UNCHANGED pool
    BY <1>10 DEF Suspend
  <2> HIDE DEF c
  <2>3. stack' \in [Addr -> [Lists -> Seq(GoodContexts)]]
    BY <1>1, <2>1, <2>2, ListTypes
  <2>4. CASE ContextEnd \/ HookEnd
    BY <2>2, <2>3, <2>4, EndContexts
  <2>5. CASE UNCHANGED <<rings, context, calls>>
    <3>1. calls' \in Seq(GoodCalls)
      BY <1>1, <2>5
    <3> QED BY <1>3, <2>2, <2>3, <2>5, <3>1, StayContexts
  <2> QED BY <1>10, <2>4, <2>5 DEF Suspend
<1>11. ASSUME NEW a \in Addr, NEW l \in Lists, Resume(a, l)
       PROVE  Contexts'
  BY <1>11, ResumeUse, ResumeContexts DEF Resume
<1>12. CASE ProgEnd
  BY <1>1, <1>12, EndContexts DEF ProgEnd
<1>13. ASSUME NEW w \in Addr, NEW into \in Addr, CloseWindow(w, into)
       PROVE  Contexts'
  <2> DEFINE p == Pipe(w, WinLists)
  <2>1. /\ w \in Range(wins) /\ calls' = Append(calls, p) /\ UNCHANGED <<stack, cur_rmt>>
        /\ cur_win' = IF cur_win = w THEN Null ELSE cur_win
    BY <1>13, CloseBetween DEF CloseWindow
  <2>2. Same
    BY <1>13, CloseUse
  <2>3. p \in GoodCalls
    BY <2>1, RingTypes, PipeGood
  <2> HIDE DEF p
  <2>4. calls' \in Seq(GoodCalls)
    BY <1>1, <2>1, <2>3
  <2>5. /\ \A s \in Seq(GoodCalls) : s \in Seq(GoodCalls')
        /\ stack \in [Addr -> [Lists -> Seq(GoodContexts')]]
    BY <1>1, <2>2, StayGood
  <2> QED BY <2>1, <2>2, <2>4, <2>5 DEF Contexts, Same
<1>14. CASE DropWindow
  <2> DEFINE w == wins[Len(wins)]
  <2>1. /\ UNCHANGED <<calls, cur_rmt>> /\ stack' = [stack EXCEPT ![w] = NoLists]
        /\ cur_win' = IF cur_win = w THEN Null ELSE cur_win
    BY <1>14 DEF DropWindow
  <2>2. w \in Range(wins) /\ w \in Addr /\ Gone(w)
    BY <1>14, DropUse
  <2> HIDE DEF w
  <2>3. /\ \A s \in Seq(GoodCalls) : s \in Seq(GoodCalls')
        /\ GoodContexts \subseteq GoodContexts'
    BY <2>2, StayGood
  <2>4. stack' \in [Addr -> [Lists -> Seq(GoodContexts')]]
    <3>1. \A s \in Seq(GoodContexts) : s \in Seq(GoodContexts')
      BY <2>3
    <3>2. stack' \in [Addr -> [Lists -> Seq(GoodContexts)]]
      BY <1>1, <2>1, <2>2
    <3> QED BY <3>1, <3>2
  <2>5. cur_win' \in WinLive' \cup {Null} /\ cur_rmt' \in RmtLive' \cup {Null}
    <3>1. w \notin RmtLive
      BY <2>2 DEF Structure, Places, Apart, RmtLive
    <3> QED BY <2>1, <2>2, <3>1, NodesAssumption DEF Contexts, Gone
  <2> QED BY <1>1, <2>1, <2>3, <2>4, <2>5 DEF Contexts
<1>15. CASE PipeNext
  <2> DEFINE s == Top.lists
  <2>1. Top \in Call /\ Top.node \in Addr /\ s # <<>>
    BY <1>15, PoppedPipes DEF PipeNext, InPipe
  <2>2. s \in Seq(Lists)
    BY <2>1 DEF Call
  <2> HIDE DEF s
  <2>3. Head(s) \in Lists
    BY <2>1, <2>2
  <2>4. ResumeHead(Top.node, Head(s)) /\ UNCHANGED <<pool, rings>>
    BY <1>15 DEF PipeNext, s
  <2> QED BY <2>1, <2>3, <2>4, ResumeUse, ResumeContexts
<1>16. CASE PipeList
  <2>1. /\ calls # <<>> /\ Top.lists # <<>>
        /\ calls' = [calls EXCEPT ![Len(calls)].lists = Tail(Top.lists)]
        /\ UNCHANGED <<pool, rings, stack, context>>
    BY <1>16 DEF PipeList, InPipe, Top
  <2>2. Same
    BY <1>16, <2>1, PipeListCalls DEF Same, pool, rings, InUse, InRings, WinLive, RmtLive
  <2>3. calls' \in Seq(GoodCalls)
    <3> DEFINE c == [Top EXCEPT !.lists = Tail(Top.lists)]
    <3>1. Top \in GoodCalls
      BY <2>1, TopGood
    <3>2. Top.lists \in Seq(Lists)
      BY <3>1 DEF GoodCalls, Call
    <3>3. Tail(Top.lists) \in Seq(Lists)
      BY <2>1, <3>2
    <3>4. c \in GoodCalls
      BY <3>1, <3>3 DEF GoodCalls, Call, Pairs
    <3> DEFINE cs == calls
    <3>5. calls' = [cs EXCEPT ![Len(cs)] = c] /\ cs \in Seq(GoodCalls) /\ cs # <<>>
      BY <1>1, <2>1 DEF Top
    <3> HIDE DEF c, cs
    <3>6. Len(cs) \in 1..Len(cs)
      BY <3>5
    <3> QED BY <3>4, <3>5, <3>6
  <2> QED BY <1>1, <2>1, <2>2, <2>3, StayContexts
<1>17. CASE PipeEnd
  <2>1. /\ calls # <<>> /\ calls' = Popped /\ UNCHANGED <<stack, context>>
        /\ Top.node \notin {cur_win, cur_rmt}
    BY <1>17 DEF PipeEnd, InPipe, Aside
  <2>2. Gone(Top.node) /\ Top.node \in Addr
    BY <1>17, PipeEndUse
  <2>3. calls' \in Seq(GoodCalls) /\ stack' \in [Addr -> [Lists -> Seq(GoodContexts)]]
    BY <1>1, <2>1, TopGood
  <2> QED BY <2>1, <2>2, <2>3, StayContexts
<1>18. CASE UNCHANGED vars
  BY <1>2, <1>3, <1>18 DEF vars, context, pool, rings
<1> QED BY <1>4, <1>5, <1>6, <1>7, <1>8, <1>9, <1>10, <1>11, <1>12, <1>13, <1>14,
           <1>15, <1>16, <1>17, <1>18 DEF Next

\* While ids do not repeat, the saved contexts are what they were.
LEMMA Contextual ==
  ASSUME SeeDying = FALSE, MaxId <= IdMod \div 2
  PROVE  Spec => [](Structure /\ Identified /\ Contexts /\ Aside)
<1>1. ASSUME Init PROVE Identified /\ Contexts /\ Aside
  <2>0. PICK first \in Addr :
          /\ nextid = 1 /\ id = [a \in Addr |-> IF a = first THEN 0 ELSE -1]
          /\ wins = <<first>> /\ rmts = <<>> /\ keys = {}
          /\ stack = [a \in Addr |-> NoLists]
          /\ cur_win = Null /\ cur_rmt = Null /\ calls = <<>>
    BY <1>1 DEF Init
  <2>1. InRings = {first} /\ NodesAt(calls, "pipe") = {}
    BY <2>0 DEF InRings, Range, NodesAt, At
  <2>2. Contexts /\ Aside
    BY <2>0, PipeGood DEF Contexts, Aside, Underneath, At, InPipe
  <2>3. 1 <= MaxId
    BY NodesAssumption
  <2> QED BY <2>0, <2>1, <2>2, <2>3 DEF Identified
<1>2. Structure /\ Identified /\ Contexts /\ Aside /\ [Next]_vars
        => Structure' /\ Identified' /\ Contexts' /\ Aside'
  BY NextStructure, NextUse, UseIdentified, NextContexts, NextAside
<1> QED BY <1>1, <1>2, InitStructure, PTL DEF Spec

-----------------------------------------------------------------------------
(* Every step of Nodes is one of Handles, or none.                         *)

\* What the invariants say of ids.
LEMMA HandleFacts ==
  ASSUME Structure, Identified, Contexts
  PROVE  /\ Dying = NodesAt(calls, "pipe") /\ InUse = InRings \cup Dying
         /\ InRings \cap Dying = {} /\ InUse \subseteq Addr
         /\ \A a \in InUse : id[a] \in H!Objects
         /\ \A a \in InUse, b \in Addr : id[a] = id[b] => a = b
         /\ id \in [Addr -> Ids] /\ nextid \in Nat
         /\ cur_win \in InUse \cup {Null} /\ cur_rmt \in InUse \cup {Null}
<1>1. Dying = NodesAt(calls, "pipe")
  BY DEF Dying, Pipes, NodesAt, At
<1>2. InRings \cap Dying = {}
  BY <1>1 DEF Structure, Places, Apart, InRings
<1>3. InUse \subseteq Addr /\ WinLive \subseteq InUse /\ RmtLive \subseteq InUse
  BY RingTypes
<1>4. \A a \in InUse : id[a] \in H!Objects
  BY <1>3 DEF Identified, InUse, H!Objects
<1>5. \A a \in InUse, b \in Addr : id[a] = id[b] => a = b
  BY <1>3 DEF Identified, InUse
<1>6. id \in [Addr -> Ids] /\ nextid \in Nat
  BY DEF Structure, TypeOK
<1> QED BY <1>1, <1>2, <1>3, <1>4, <1>5, <1>6 DEF InUse, Contexts

\* What a saved pair gives back is the object it saved, if that still exists.
LEMMA BackHandle ==
  ASSUME Structure, Identified, Contexts, NEW K \in {WinLive, RmtLive},
         NEW n \in NodeOrNull, NEW i, Pair(n, i, K)
  PROVE  /\ Handle(Back(n, i)) = H!Existing(SavedHandle(n, i))
         /\ SavedHandle(n, i) \in H!Objects \cup {Null}
         /\ Back(n, i) \in InUse \cup {Null}
<1>1. K \subseteq InUse
  BY RingTypes
<1>2. CASE n = Null
  BY <1>2 DEF Handle, Back, SavedHandle, H!Existing
<1>3. CASE n # Null
  <2>1. /\ n \in Addr /\ i \in 0..(nextid - 1) /\ SavedHandle(n, i) = i
        /\ \A b \in Addr : id[b] = i => b = n /\ b \in K
    BY <1>3 DEF Pair, NodeOrNull, SavedHandle
  <2>2. i \in H!Objects
    BY <2>1 DEF H!Objects
  <2>3. i \in Open \cup Closing <=> \E b \in InUse : id[b] = i
    BY HandleFacts DEF Open, Closing
  <2>4. CASE id[n] = i
    <3>1. Back(n, i) = n /\ n \in InUse /\ Handle(n) = i
      BY <1>1, <1>3, <2>1, <2>4 DEF Back, Handle
    <3>2. i \in Open \cup Closing
      BY <2>3, <2>4, <3>1
    <3> QED BY <2>1, <2>2, <3>1, <3>2 DEF H!Existing
  <2>5. CASE id[n] # i
    <3>1. Back(n, i) = Null
      BY <2>5 DEF Back
    <3>2. i \notin Open \cup Closing
      BY <2>1, <2>3, <2>5, HandleFacts
    <3> QED BY <2>1, <2>2, <3>1, <3>2 DEF H!Existing, Handle
  <2> QED BY <2>4, <2>5
<1> QED BY <1>2, <1>3

\* A new node is a new object.
LEMMA CreateHandle ==
  ASSUME Structure, Identified, Contexts, NoDangling, MaxId <= IdMod \div 2,
         NEW a \in Addr, Unalloc(a), a \notin InUse, InRings' = InRings \cup {a},
         UNCHANGED <<frame, context, calls>>
  PROVE  H!Create
<1>1. nextid \in Nat /\ nextid < MaxId /\ nextid' = nextid + 1 /\ id' = [id EXCEPT ![a] = Short(nextid)]
  BY HandleFacts DEF Unalloc
<1>2. \A b \in Addr : id'[b] = IF b = a THEN nextid ELSE id[b]
  BY <1>1, HandleFacts, ShortSame
<1>3. InRings \subseteq Addr \ {a} /\ Dying \subseteq Addr \ {a}
  BY HandleFacts
<1>4. \A n \in (Addr \ {a}) \cup {Null} : Handle(n)' = Handle(n)
  BY <1>2 DEF Handle
<1>5. Open' = Open \cup {nextid}
  BY <1>2, <1>3 DEF Open
<1>6. Dying' = Dying
  BY DEF Dying, Pipes
<1>7. Closing' = Closing
  BY <1>2, <1>3, <1>6 DEF Closing
<1>8. References' = References
  <2>1. \A f \in Frames : frame[f] \in (Addr \ {a}) \cup {Null}
    BY <1>3 DEF NoDangling
  <2> QED BY <1>2, <2>1 DEF References, Handle
<1>9. Current' = Current
  BY <1>2, HandleFacts DEF Current, Handle, context
<1> QED BY <1>1, <1>5, <1>7, <1>8, <1>9 DEF H!Create

\* A node leaves its ring and is being closed; w and r are current then.
LEMMA CloseHandle ==
  ASSUME Structure, Identified, Contexts, NoDangling,
         NEW a \in InRings, InRings' = InRings \ {a}, Dying' = Dying \cup {a},
         UNCHANGED <<id, nextid>>, DestroyPointers(a),
         NEW w \in InUse \cup {Null}, NEW r \in InUse \cup {Null},
         cur_win' = IF w = a THEN Null ELSE w, cur_rmt' = IF r = a THEN Null ELSE r
  PROVE  /\ H!Close(id[a], [win |-> Handle(w), rmt |-> Handle(r)])
         /\ id[a] \in Open
<1>1. id' = id /\ nextid' = nextid
  OBVIOUS
<1>2. a \in InUse /\ a # Null /\ InUse \subseteq Addr
  BY HandleFacts, NodesAssumption
<1>3. \A n \in InUse : id[n] = id[a] <=> n = a
  BY <1>2, HandleFacts
<1>4. Open' = Open \ {id[a]} /\ id[a] \in Open
  BY <1>1, <1>3 DEF Open, InUse
<1>5. Closing' = Closing \cup {id[a]}
  BY <1>1 DEF Closing
<1>6. \A n \in InUse : Handle(n) = id[n] /\ n # Null
  BY <1>2, NodesAssumption DEF Handle
<1>7. References' = [f \in Frames |-> IF References[f] = id[a] THEN Null ELSE References[f]]
  <2>1. \A f \in Frames : frame'[f] = IF frame[f] = a THEN Null ELSE frame[f]
    BY <1>2 DEF DestroyPointers, NoDangling
  <2>2. \A f \in Frames : frame[f] \in InUse \cup {Null}
    BY DEF NoDangling, InUse
  <2> QED BY <1>1, <1>2, <1>3, <1>6, <2>1, <2>2 DEF References, Handle
<1>8. Current' = [win |-> IF Handle(w) = id[a] THEN Null ELSE Handle(w),
                  rmt |-> IF Handle(r) = id[a] THEN Null ELSE Handle(r)]
  BY <1>1, <1>2, <1>3, <1>6 DEF Current, Handle
<1> QED BY <1>1, <1>4, <1>5, <1>7, <1>8 DEF H!Close

\* A node that nothing waits for goes at once.
LEMMA DropHandle ==
  ASSUME Structure, Identified, Contexts, NoDangling,
         NEW a \in InRings, Discard(a), InRings' = InRings \ {a}, DestroyPointers(a),
         cur_win' = IF cur_win = a THEN Null ELSE cur_win, UNCHANGED <<cur_rmt, calls>>,
         cur_rmt # a
  PROVE  H!Drop(id[a]) /\ id[a] \in Open
<1>1. nextid' = nextid /\ \A b \in Addr : id'[b] = IF b = a THEN -1 ELSE id[b]
  BY HandleFacts DEF Discard
<1>2. a \in InUse /\ a # Null /\ InUse \subseteq Addr /\ a \notin Dying
  BY HandleFacts, NodesAssumption DEF InUse
<1>3. \A n \in InUse : id[n] = id[a] <=> n = a
  BY <1>2, HandleFacts
<1>4. \A n \in InUse \ {a} : id'[n] = id[n]
  BY <1>1, <1>2
<1>5. Open' = Open \ {id[a]} /\ id[a] \in Open
  BY <1>3, <1>4 DEF Open, InUse
<1>6. Dying' = Dying /\ Dying \subseteq InUse \ {a}
  BY <1>2, HandleFacts DEF Dying, Pipes
<1>7. Closing' = Closing
  BY <1>4, <1>6 DEF Closing
<1>8. \A n \in InUse : Handle(n) = id[n] /\ n # Null
  BY <1>2, NodesAssumption DEF Handle
<1>9. References' = [f \in Frames |-> IF References[f] = id[a] THEN Null ELSE References[f]]
  <2>1. \A f \in Frames : frame'[f] = IF frame[f] = a THEN Null ELSE frame[f]
    BY <1>2 DEF DestroyPointers, NoDangling
  <2>2. \A f \in Frames : frame[f] \in InUse \cup {Null}
    BY DEF NoDangling, InUse
  <2> QED BY <1>2, <1>3, <1>4, <1>8, <2>1, <2>2 DEF References, Handle
<1>10. Current' = [Current EXCEPT !.win = IF @ = id[a] THEN Null ELSE @]
  BY <1>2, <1>3, <1>4, <1>8, HandleFacts DEF Current, Handle
<1> QED BY <1>1, <1>5, <1>7, <1>9, <1>10 DEF H!Drop

\* A node that was being closed is discarded.
LEMMA FinishHandle ==
  ASSUME Structure, Identified, Contexts, NoDangling,
         NEW a \in Dying, Discard(a), InRings' = InRings, Dying' = Dying \ {a},
         UNCHANGED <<frame, context>>, a \notin {cur_win, cur_rmt},
         Interrupted(calls') = Interrupted(calls)
  PROVE  H!Finish(id[a]) /\ id[a] \in Closing
<1>1. nextid' = nextid /\ \A b \in Addr : id'[b] = IF b = a THEN -1 ELSE id[b]
  BY HandleFacts DEF Discard
<1>2. a \in InUse /\ a # Null /\ InUse \subseteq Addr /\ a \notin InRings
  BY HandleFacts, NodesAssumption
<1>3. \A n \in InUse : id[n] = id[a] <=> n = a
  BY <1>2, HandleFacts
<1>4. \A n \in InUse \ {a} : id'[n] = id[n]
  BY <1>1, <1>2
<1>5. InRings \subseteq InUse \ {a} /\ Dying \subseteq InUse
  BY <1>2, HandleFacts
<1>6. Open' = Open
  BY <1>4, <1>5 DEF Open
<1>7. Closing' = Closing \ {id[a]} /\ id[a] \in Closing
  BY <1>3, <1>4, <1>5 DEF Closing
<1>8. References' = References
  <2>1. \A f \in Frames : frame[f] \in (InUse \ {a}) \cup {Null}
    BY <1>5 DEF NoDangling
  <2> QED BY <1>4, <2>1 DEF References, Handle
<1>9. Current' = Current
  BY <1>4, HandleFacts DEF Current, Handle, context
<1> QED BY <1>1, <1>6, <1>7, <1>8, <1>9 DEF H!Finish

\* A context is saved, and comes back.
LEMMA EnterHandle ==
  ASSUME Structure, Identified, Contexts, NEW win, NEW rmt, Enter(win, rmt),
         UNCHANGED <<pool, rings, frame>>,
         NEW w \in H!Objects \cup {Null}, NEW r \in H!Objects \cup {Null},
         Handle(win) = H!Existing(w), Handle(rmt) = H!Existing(r)
  PROVE  H!Enter(w, r)
<1> DEFINE c == [fn |-> "context", node |-> Null, lists |-> <<>>, win |-> cur_win,
                 wid |-> IdOf(cur_win), rmt |-> cur_rmt, rid |-> IdOf(cur_rmt)]
<1>1. c \in Call /\ c.fn = "context" /\ c.fn # "pipe"
  BY SavedGood DEF GoodCalls
<1>2. SavedContext(c) = [hook |-> FALSE, win |-> Current.win, rmt |-> Current.rmt]
  BY DEF SavedContext, SavedHandle, IdOf, Current, Handle
<1>3. calls' = Append(calls, c) /\ cur_win' = win /\ cur_rmt' = rmt /\ id' = id /\ nextid' = nextid
  BY DEF Enter, pool
<1> HIDE DEF c
<1>4. Interrupted(calls') = Append(Interrupted(calls), SavedContext(c))
  BY <1>1, <1>3, RingTypes, InterruptedPush
<1>5. NodesAt(calls', "pipe") = NodesAt(calls, "pipe")
  BY <1>1, <1>3, RingTypes, PushOther
<1>6. Dying' = Dying
  <2>1. \A cs : {cs[i].node : i \in {j \in DOMAIN cs : cs[j].fn = "pipe"}} = NodesAt(cs, "pipe")
    BY DEF NodesAt, At
  <2> QED BY <1>5, <2>1 DEF Dying, Pipes
<1>7. Open' = Open /\ Closing' = Closing /\ References' = References
  BY <1>3, <1>6 DEF Open, Closing, References, InRings, rings, Handle
<1>8. Current' = [win |-> H!Existing(w), rmt |-> H!Existing(r)]
  BY <1>3 DEF Current, Handle
<1> QED BY <1>2, <1>3, <1>4, <1>7, <1>8 DEF H!Enter

LEMMA ResumeHandle ==
  ASSUME Structure, Identified, Contexts, NEW a \in Addr, NEW l \in Lists, ResumeHead(a, l),
         UNCHANGED <<pool, rings, frame>>
  PROVE  \E w, r \in H!Objects \cup {Null} : H!Enter(w, r)
<1> DEFINE es == Head(stack[a][l])
<1>1. stack \in [Addr -> [Lists -> Seq(GoodContexts)]] /\ stack[a][l] # <<>>
  BY DEF Contexts, ResumeHead
<1>2. es \in GoodContexts
  BY <1>1, ListTypes
<1>3. Enter(Back(es.win, es.wid), Back(es.rmt, es.rid))
  BY DEF ResumeHead
<1> HIDE DEF es
<1>4. /\ es.win \in NodeOrNull /\ Pair(es.win, es.wid, WinLive)
      /\ es.rmt \in NodeOrNull /\ Pair(es.rmt, es.rid, RmtLive)
  BY <1>2 DEF GoodContexts, Context, Pairs
<1>5. /\ Handle(Back(es.win, es.wid)) = H!Existing(SavedHandle(es.win, es.wid))
      /\ SavedHandle(es.win, es.wid) \in H!Objects \cup {Null}
      /\ Handle(Back(es.rmt, es.rid)) = H!Existing(SavedHandle(es.rmt, es.rid))
      /\ SavedHandle(es.rmt, es.rid) \in H!Objects \cup {Null}
  BY <1>4, BackHandle
<1> QED BY <1>3, <1>5, EnterHandle

\* Dying, as the nodes of the calls of break_pipe().
LEMMA DyingNext == Dying' = NodesAt(calls', "pipe")
BY DEF Dying, Pipes, NodesAt, At

\* A remote leaves its ring.
LEMMA DisconnectedHandle ==
  ASSUME Structure, Identified, Contexts, NoDangling,
         NEW r \in Range(rmts), NEW c \in InUse \cup {Null}, NEW cs \in Seq(Call),
         NodesAt(cs, "pipe") = NodesAt(calls, "pipe"), Disconnected(r, c, cs), UNCHANGED pool
  PROVE  /\ H!Close(id[r], [win |-> Handle(cur_win), rmt |-> Handle(c)])
         /\ id[r] \in Open
         /\ Interrupted(calls') = Interrupted(cs)
<1>1. /\ Range(rmts') = Range(rmts) \ {r} /\ UNCHANGED <<wins, keys, cur_win>> /\ r \in Addr
      /\ DestroyPointers(r) /\ calls' = Append(cs, Pipe(r, RmtLists))
      /\ cur_rmt' = IF c = r THEN Null ELSE c
  BY RingTypes, WithoutRange DEF Disconnected
<1>2. NodesAt(calls', "pipe") = NodesAt(calls, "pipe") \cup {r}
  BY <1>1, PipeEffect
<1>3. r \notin Range(wins) \cup keys /\ r \notin WinLive /\ r \in InRings
  BY DEF Structure, Places, Apart, WinLive, InRings
<1>4. InRings' = InRings \ {r}
  BY <1>1, <1>3 DEF InRings
<1>5. Dying' = Dying \cup {r}
  BY <1>2, HandleFacts, DyingNext
<1>6. cur_win' = (IF cur_win = r THEN Null ELSE cur_win) /\ cur_win \in InUse \cup {Null}
  BY <1>1, <1>3, HandleFacts, NodesAssumption DEF Contexts
<1>7. /\ H!Close(id[r], [win |-> Handle(cur_win), rmt |-> Handle(c)])
      /\ id[r] \in Open
  BY <1>1, <1>3, <1>4, <1>5, <1>6, CloseHandle DEF pool
<1> DEFINE p == Pipe(r, RmtLists)
<1>8. p \in Call /\ p.fn = "pipe"
  BY <1>1, CallTypes DEF Pipe
<1> HIDE DEF p
<1>9. Interrupted(Append(cs, p)) = Interrupted(cs)
  BY <1>8, InterruptedPush
<1> QED BY <1>1, <1>7, <1>9 DEF p

\* A program ends: the context below comes back.
LEMMA EndHandle ==
  ASSUME Structure, Identified, Contexts, NoDangling, ContextEnd \/ HookEnd, UNCHANGED pool
  PROVE  H!Next
<1>1. /\ calls # <<>> /\ calls \in Seq(Call) /\ Top \in GoodCalls /\ Popped \in Seq(Call)
      /\ Top.fn # "pipe" /\ NodesAt(Popped, "pipe") = NodesAt(calls, "pipe")
  BY TopGood, PoppedPipes, RingTypes DEF ContextEnd, HookEnd
<1> DEFINE s == Interrupted(calls)
<1>2. /\ s # <<>> /\ s[Len(s)] = SavedContext(Top)
      /\ SubSeq(s, 1, Len(s) - 1) = Interrupted(Popped)
  BY <1>1, InterruptedPop DEF Top, Popped
<1>3. /\ Top.win \in NodeOrNull /\ Pair(Top.win, Top.wid, WinLive)
      /\ Top.rmt \in NodeOrNull /\ Pair(Top.rmt, Top.rid, RmtLive)
  BY <1>1 DEF GoodCalls, Call, Pairs
<1>4. /\ Handle(Back(Top.win, Top.wid)) = H!Existing(SavedHandle(Top.win, Top.wid))
      /\ Handle(Back(Top.rmt, Top.rid)) = H!Existing(SavedHandle(Top.rmt, Top.rid))
      /\ Back(Top.rmt, Top.rid) \in InUse \cup {Null}
  BY <1>3, BackHandle
<1> HIDE DEF s
<1>5. CASE ContextEnd
  <2>1. /\ Top.fn = "context" /\ calls' = Popped /\ id' = id /\ nextid' = nextid
        /\ cur_win' = Back(Top.win, Top.wid) /\ cur_rmt' = Back(Top.rmt, Top.rid)
        /\ UNCHANGED <<rings, frame>>
    BY <1>5 DEF ContextEnd, pool, refs
  <2>2. /\ ~SavedContext(Top).hook /\ SavedContext(Top).win = SavedHandle(Top.win, Top.wid)
        /\ SavedContext(Top).rmt = SavedHandle(Top.rmt, Top.rid)
    BY <2>1 DEF SavedContext
  <2>3. Dying' = Dying
    BY <1>1, <2>1, DyingNext, HandleFacts
  <2>4. Open' = Open /\ Closing' = Closing /\ References' = References
    BY <2>1, <2>3 DEF Open, Closing, References, InRings, rings, Handle
  <2>5. Current' = [win |-> H!Existing(SavedHandle(Top.win, Top.wid)),
                    rmt |-> H!Existing(SavedHandle(Top.rmt, Top.rid))]
    BY <1>4, <2>1 DEF Current, Handle
  <2>6. Current' = H!Back
    BY <1>2, <2>2, <2>5 DEF H!Back, s
  <2>7. ~s[Len(s)].hook /\ Interrupted(calls') = SubSeq(s, 1, Len(s) - 1)
    BY <1>2, <2>1, <2>2
  <2>8. H!Leave
    BY <1>2, <2>1, <2>4, <2>6, <2>7 DEF H!Leave, H!Outer, s
  <2> QED BY <2>8 DEF H!Next
<1>6. CASE HookEnd
  <2> DEFINE r == Top.node
             c == Back(Top.rmt, Top.rid)
  <2>1. Top.fn = "hook" /\ Disconnected(r, c, Popped)
    BY <1>6 DEF HookEnd
  <2>2. r \in Range(rmts)
    BY <1>1, <2>1, PoppedPipes
  <2>3. SavedContext(Top).hook /\ SavedContext(Top).rmt = SavedHandle(Top.rmt, Top.rid)
    BY <2>1 DEF SavedContext
  <2>4. [win |-> Handle(cur_win), rmt |-> Handle(c)] = H!Back
    BY <1>2, <1>4, <2>3 DEF H!Back, s, Current
  <2> HIDE DEF r, c
  <2>5. c \in InUse \cup {Null}
    BY <1>4 DEF c
  <2>6. /\ H!Close(id[r], [win |-> Handle(cur_win), rmt |-> Handle(c)]) /\ id[r] \in Open
        /\ Interrupted(calls') = Interrupted(Popped)
    BY <1>1, <2>1, <2>2, <2>5, DisconnectedHandle
  <2>7. H!LeaveHook(id[r])
    BY <1>2, <2>3, <2>4, <2>6 DEF H!LeaveHook, H!Outer, s
  <2> QED BY <2>6, <2>7 DEF H!Next
<1> QED BY <1>5, <1>6

\* Nothing of the mapping changes.
LEMMA StutterHandle ==
  ASSUME Structure, Identified, Contexts, UNCHANGED <<pool, rings, frame, context>>,
         Interrupted(calls') = Interrupted(calls), NodesAt(calls', "pipe") = NodesAt(calls, "pipe")
  PROVE  UNCHANGED H!vars
<1>1. id' = id /\ nextid' = nextid
  BY DEF pool
<1>2. Dying' = Dying
  BY DyingNext, HandleFacts
<1>3. Open' = Open /\ Closing' = Closing /\ References' = References
  BY <1>1, <1>2 DEF Open, Closing, References, InRings, rings, Handle
<1>4. Current' = Current
  BY <1>1 DEF Current, Handle, context
<1> QED BY <1>1, <1>3, <1>4 DEF H!vars

LEMMA NextHandle ==
  ASSUME SeeDying = FALSE, MaxId <= IdMod \div 2,
         Structure, Identified, Contexts, Aside, NoDangling, [Next]_vars
  PROVE  H!Next \/ UNCHANGED H!vars
<1>1. calls \in Seq(Call) /\ Range(wins) \subseteq Addr /\ Range(rmts) \subseteq Addr
  BY RingTypes
<1>2. ASSUME UNCHANGED <<pool, rings, frame, context, calls>>
      PROVE  UNCHANGED H!vars
  <2>1. Interrupted(calls') = Interrupted(calls) /\ NodesAt(calls', "pipe") = NodesAt(calls, "pipe")
    BY <1>2
  <2> QED BY <1>2, <2>1, StutterHandle
<1>3. ASSUME NEW a \in Addr,
             NewRmt(a) \/ AddKey(a) \/ \E w \in Addr : SplitWindow(w, a)
      PROVE  H!Next
  <2>1. Unalloc(a) /\ UNCHANGED <<frame, context, calls>>
    BY <1>3 DEF NewRmt, AddKey, SplitWindow
  <2>2. a \notin InUse /\ InUse' = InUse \cup {a}
    BY <1>3, CreateUse DEF Born
  <2>3. InRings' = InRings \cup {a}
    <3>1. CASE NewRmt(a)
      BY <3>1, RingTypes, AppendRange DEF NewRmt, InRings
    <3>2. CASE AddKey(a)
      BY <3>2 DEF AddKey, InRings
    <3>3. CASE \E w \in Addr : SplitWindow(w, a)
      <4>1. PICK i \in DOMAIN wins : wins' = InsertAt(wins, i, a) /\ UNCHANGED <<rmts, keys>>
        BY <3>3, SplitAbove DEF SplitWindow
      <4>2. i \in 1..(Len(wins) + 1)
        BY RingTypes
      <4>3. Range(wins') = Range(wins) \cup {a}
        BY <4>1, <4>2, RingTypes, InsertRange
      <4> QED BY <4>1, <4>3 DEF InRings
    <3> QED BY <1>3, <3>1, <3>2, <3>3
  <2>4. H!Create
    BY <2>1, <2>2, <2>3, CreateHandle
  <2> QED BY <2>4 DEF H!Next
<1>4. ASSUME NEW a \in Addr, DelKey(a)
      PROVE  H!Next
  <2>1. /\ a \in keys /\ keys' = keys \ {a} /\ DestroyPointers(a) /\ Discard(a)
        /\ UNCHANGED <<wins, rmts, context, calls>>
    BY <1>4 DEF DelKey
  <2>2. a \notin Range(wins) \cup Range(rmts) \cup NodesAt(calls, "pipe") /\ a # Null
    BY <2>1, NodesAssumption DEF Structure, Places, Apart
  <2>3. a \in InRings /\ InRings' = InRings \ {a}
    BY <2>1, <2>2 DEF InRings
  <2>4. a \notin {cur_win, cur_rmt}
    BY <2>2 DEF Contexts, WinLive, RmtLive
  <2>5. cur_win' = (IF cur_win = a THEN Null ELSE cur_win) /\ UNCHANGED <<cur_rmt, calls>>
    BY <2>1, <2>4 DEF context
  <2>6. H!Drop(id[a]) /\ id[a] \in Open
    BY <2>1, <2>3, <2>4, <2>5, DropHandle
  <2> QED BY <2>6 DEF H!Next
<1>5. ASSUME NEW a \in Addr, RunProgIstr(a)
      PROVE  H!Next
  <2>1. UNCHANGED <<pool, rings, frame>>
    BY <1>5 DEF RunProgIstr, refs
  <2>2. PICK n \in {a, Null}, m \in {a, Null} : Enter(n, m)
    BY <1>5 DEF RunProgIstr
  <2>3. a \in InUse /\ a # Null
    BY <1>5, NamedNodes, NodesAssumption DEF RunProgIstr, InUse, InRings
  <2>4. id[a] \in H!Objects /\ id[a] \in Open \cup Closing
    BY <2>3, HandleFacts DEF Open, Closing
  <2>5. ASSUME NEW k \in {a, Null}
        PROVE  \E h \in H!Objects \cup {Null} : Handle(k) = H!Existing(h)
    <3>1. CASE k = Null
      BY <3>1 DEF Handle, H!Existing
    <3>2. CASE k # Null
      BY <2>3, <2>4, <3>2 DEF Handle, H!Existing
    <3> QED BY <3>1, <3>2
  <2>6. PICK w \in H!Objects \cup {Null}, r \in H!Objects \cup {Null} :
          Handle(n) = H!Existing(w) /\ Handle(m) = H!Existing(r)
    BY <2>5
  <2>7. H!Enter(w, r)
    BY <2>1, <2>2, <2>6, EnterHandle
  <2> QED BY <2>7 DEF H!Next
<1>6. ASSUME NEW a \in Addr, NEW l \in Lists, ResumeHead(a, l), UNCHANGED <<pool, rings, frame>>
      PROVE  H!Next
  BY <1>6, ResumeHandle DEF H!Next
<1>7. ASSUME NEW r \in Addr, Disconnect(r)
      PROVE  H!Next
  <2>1. r \in Range(rmts) /\ UNCHANGED pool
    BY <1>7 DEF Disconnect
  <2>2. r \in InUse /\ r # Null /\ r \in InRings /\ id[r] \in Open
    BY <2>1, NodesAssumption DEF InUse, InRings, Open
  <2>3. CASE Disconnected(r, cur_rmt, calls)
    <3>1. cur_rmt \in InUse \cup {Null}
      BY HandleFacts
    <3>2. /\ H!Close(id[r], [win |-> Handle(cur_win), rmt |-> Handle(cur_rmt)])
          /\ Interrupted(calls') = Interrupted(calls)
      BY <1>1, <2>1, <2>3, <3>1, DisconnectedHandle
    <3>3. H!StartClose(id[r])
      BY <3>2 DEF H!StartClose, Current
    <3> QED BY <2>2, <3>3 DEF H!Next
  <2>4. CASE ~Disconnected(r, cur_rmt, calls)
    <3> DEFINE c == [fn |-> "hook", node |-> r, lists |-> <<>>, win |-> Null, wid |-> 0,
                     rmt |-> cur_rmt, rid |-> IdOf(cur_rmt)]
    <3>1. calls' = Append(calls, c) /\ cur_rmt' = r /\ UNCHANGED <<rings, refs, cur_win>>
      BY <1>7, <2>4 DEF Disconnect
    <3>2. c \in Call /\ c.fn # "pipe"
      BY SavedGood DEF GoodCalls
    <3>3. SavedContext(c) = [hook |-> TRUE, win |-> Null, rmt |-> Current.rmt]
      BY DEF SavedContext, SavedHandle, IdOf, Current, Handle
    <3> HIDE DEF c
    <3>4. Interrupted(calls') = Append(Interrupted(calls), SavedContext(c))
      BY <1>1, <3>1, <3>2, InterruptedPush
    <3>5. Dying' = Dying
      BY <1>1, <3>1, <3>2, PushOther, DyingNext, HandleFacts
    <3>6. id' = id /\ nextid' = nextid
      BY <2>1 DEF pool
    <3>7. Open' = Open /\ Closing' = Closing /\ References' = References
      BY <3>1, <3>5, <3>6 DEF Open, Closing, References, InRings, rings, refs, Handle
    <3>8. Current' = [Current EXCEPT !.rmt = id[r]]
      BY <2>2, <3>1, <3>6 DEF Current, Handle
    <3>9. H!EnterHook(id[r])
      BY <3>3, <3>4, <3>6, <3>7, <3>8 DEF H!EnterHook
    <3> QED BY <2>2, <3>9 DEF H!Next
  <2> QED BY <2>3, <2>4
<1>8. ASSUME NEW w \in Addr, NEW r \in Addr \cup {Null}, Display(w, r) \/ NewActiveWin(w)
      PROVE  UNCHANGED H!vars
  BY <1>2, <1>8 DEF Display, NewActiveWin, refs
<1>9. ASSUME NEW f \in Frames, NEW a \in Addr \cup {Null}, Refer(f, a)
      PROVE  H!Next
  <2>1. /\ a \in InRings \cup {Null} /\ frame' = [frame EXCEPT ![f] = a]
        /\ UNCHANGED <<pool, rings, context, calls>>
    BY <1>9, NamedNodes DEF Refer
  <2>2. frame \in [Frames -> NodeOrNull] /\ id' = id /\ nextid' = nextid
    BY <2>1 DEF Structure, TypeOK, pool
  <2>3. Handle(a) \in Open \cup {Null}
    BY <2>1 DEF Open, Handle
  <2>4. References' = [References EXCEPT ![f] = Handle(a)]
    BY <2>1, <2>2 DEF References, Handle
  <2>5. Open' = Open /\ Closing' = Closing
    BY <2>1, <2>2 DEF Open, Closing, InRings, rings, Dying, Pipes
  <2>6. Current' = Current
    BY <2>1, <2>2 DEF Current, Handle, context
  <2>7. Interrupted(calls') = Interrupted(calls)
    BY <2>1
  <2>8. H!Refer(f, Handle(a))
    BY <2>2, <2>4, <2>5, <2>6, <2>7 DEF H!Refer
  <2> QED BY <2>3, <2>8 DEF H!Next
<1>10. ASSUME NEW a \in Addr, NEW l \in Lists, Suspend(a, l)
       PROVE  H!Next \/ UNCHANGED H!vars
  <2>1. UNCHANGED pool
    BY <1>10 DEF Suspend
  <2>2. CASE ContextEnd \/ HookEnd
    BY <2>1, <2>2, EndHandle
  <2>3. CASE ~(ContextEnd \/ HookEnd)
    BY <1>2, <1>10, <2>1, <2>3 DEF Suspend, refs
  <2> QED BY <2>2, <2>3
<1>11. ASSUME NEW a \in Addr, NEW l \in Lists, Resume(a, l)
       PROVE  H!Next
  BY <1>6, <1>11 DEF Resume, refs
<1>12. CASE ProgEnd
  BY <1>12, EndHandle DEF ProgEnd
<1>13. ASSUME NEW w \in Addr, NEW into \in Addr, CloseWindow(w, into)
       PROVE  H!Next
  <2> DEFINE p == Pipe(w, WinLists)
  <2>1. /\ w \in Range(wins) /\ wins' = Without(wins, w) /\ DestroyPointers(w)
        /\ calls' = Append(calls, p) /\ UNCHANGED <<id, nextid, rmts, keys, cur_rmt>>
        /\ cur_win' = IF cur_win = w THEN Null ELSE cur_win
    BY <1>13, CloseBetween DEF CloseWindow
  <2>2. Range(wins') = Range(wins) \ {w} /\ w \in Addr /\ w # Null
    BY <2>1, RingTypes, WithoutRange, NodesAssumption
  <2>3. NodesAt(calls', "pipe") = NodesAt(calls, "pipe") \cup {w}
    BY <2>1, <2>2, RingTypes, PipeEffect
  <2>4. w \notin Range(rmts) \cup keys /\ w \notin RmtLive /\ w \in InRings
    BY <2>1 DEF Structure, Places, Apart, RmtLive, InRings
  <2>5. InRings' = InRings \ {w}
    BY <2>1, <2>2, <2>4 DEF InRings
  <2>6. Dying' = Dying \cup {w}
    BY <2>3, HandleFacts, DyingNext
  <2>7. /\ cur_rmt' = IF cur_rmt = w THEN Null ELSE cur_rmt
        /\ cur_rmt \in InUse \cup {Null} /\ cur_win \in InUse \cup {Null}
    BY <2>1, <2>2, <2>4, HandleFacts DEF Contexts
  <2>8. /\ H!Close(id[w], [win |-> Handle(cur_win), rmt |-> Handle(cur_rmt)]) /\ id[w] \in Open
    BY <2>1, <2>4, <2>5, <2>6, <2>7, CloseHandle
  <2>9. p \in Call /\ p.fn = "pipe"
    BY <2>2, CallTypes DEF Pipe
  <2> HIDE DEF p
  <2>10. Interrupted(calls') = Interrupted(calls)
    BY <1>1, <2>1, <2>9, InterruptedPush
  <2>11. H!StartClose(id[w])
    BY <2>8, <2>10 DEF H!StartClose, Current
  <2> QED BY <2>8, <2>11 DEF H!Next
<1>14. CASE DropWindow
  <2> DEFINE w == wins[Len(wins)]
  <2>1. /\ wins' = Without(wins, w) /\ Discard(w) /\ DestroyPointers(w)
        /\ UNCHANGED <<rmts, keys, calls, cur_rmt>>
        /\ cur_win' = IF cur_win = w THEN Null ELSE cur_win
    BY <1>14 DEF DropWindow
  <2>2. w \in Range(wins) /\ w \in Addr /\ w # Null
    BY <1>14, DropUse, NodesAssumption
  <2> HIDE DEF w
  <2>3. Range(wins') = Range(wins) \ {w}
    BY <2>1, <2>2, RingTypes, WithoutRange
  <2>4. w \notin Range(rmts) \cup keys /\ w \notin RmtLive /\ w \in InRings
    BY <2>2 DEF Structure, Places, Apart, RmtLive, InRings
  <2>5. InRings' = InRings \ {w} /\ cur_rmt # w
    BY <2>1, <2>2, <2>3, <2>4 DEF InRings, Contexts
  <2>6. H!Drop(id[w]) /\ id[w] \in Open
    BY <2>1, <2>4, <2>5, DropHandle
  <2> QED BY <2>6 DEF H!Next
<1>15. CASE PipeNext
  <2> DEFINE s == Top.lists
  <2>1. Top \in Call /\ Top.node \in Addr /\ s # <<>>
    BY <1>15, PoppedPipes DEF PipeNext, InPipe
  <2>2. s \in Seq(Lists)
    BY <2>1 DEF Call
  <2> HIDE DEF s
  <2>3. Head(s) \in Lists
    BY <2>1, <2>2
  <2>4. ResumeHead(Top.node, Head(s)) /\ UNCHANGED <<pool, rings, frame>>
    BY <1>15 DEF PipeNext, refs, s
  <2> QED BY <1>6, <2>1, <2>3, <2>4
<1>16. CASE PipeList
  <2>1. /\ calls # <<>> /\ Top.fn = "pipe" /\ UNCHANGED <<pool, rings, frame, context>>
        /\ calls' = [calls EXCEPT ![Len(calls)].lists = Tail(Top.lists)]
    BY <1>16 DEF PipeList, InPipe, Top, refs
  <2>2. calls' \in Seq(Call) /\ NodesAt(calls', "pipe") = NodesAt(calls, "pipe")
    BY <1>16, PipeListCalls
  <2>3. calls' # <<>> /\ calls'[Len(calls')].fn = "pipe" /\ SubSeq(calls', 1, Len(calls') - 1) = Popped
    <3> DEFINE cs == calls
               ls == Tail(Top.lists)
               t == [cs EXCEPT ![Len(cs)].lists = ls]
    <3>1. cs \in Seq(Call) /\ cs # <<>> /\ cs[Len(cs)].fn = "pipe" /\ calls' = t
      BY <1>1, <2>1 DEF Top
    <3> HIDE DEF cs, ls
    <3>2. /\ Len(cs) \in 1..Len(cs) /\ Len(t) = Len(cs) /\ t # <<>>
          /\ \A i \in DOMAIN cs : cs[i] \in Call
      BY <3>1
    <3>3. /\ t[Len(t)].fn = "pipe" /\ \A i \in 1..(Len(cs) - 1) : t[i] = cs[i]
      BY <3>1, <3>2 DEF Call
    <3>4. SubSeq(t, 1, Len(t) - 1) = SubSeq(cs, 1, Len(cs) - 1)
      <4>1. t \in Seq(Call)
        BY <2>2, <3>1
      <4> DEFINE n == Len(cs) - 1
      <4>2. n \in Nat /\ n <= Len(t) /\ n <= Len(cs) /\ Len(t) - 1 = n
        BY <3>1, <3>2
      <4> HIDE DEF t, n
      <4>3. \A u \in Seq(Call) : n <= Len(u) => SubSeq(u, 1, n) = [i \in 1..n |-> u[i]]
        BY <4>2
      <4>4. [i \in 1..n |-> t[i]] = [i \in 1..n |-> cs[i]]
        BY <3>3 DEF n
      <4> QED BY <3>1, <4>1, <4>2, <4>3, <4>4 DEF n
    <3> QED BY <3>1, <3>2, <3>3, <3>4 DEF Popped, cs
  <2>4. Interrupted(calls) = Interrupted(Popped)
    BY <1>1, <2>1, InterruptedPop DEF Top, Popped
  <2>5. Interrupted(calls') = Interrupted(Popped)
    BY <2>2, <2>3, InterruptedPop
  <2> QED BY <2>1, <2>2, <2>4, <2>5, StutterHandle
<1>17. CASE PipeEnd
  <2>1. /\ calls # <<>> /\ Top.fn = "pipe" /\ calls' = Popped /\ Discard(Top.node)
        /\ UNCHANGED <<rings, frame, context>> /\ Top.node \notin {cur_win, cur_rmt}
    BY <1>17 DEF PipeEnd, InPipe, Aside, refs
  <2>2. /\ NodesAt(calls', "pipe") = NodesAt(calls, "pipe") \ {Top.node}
        /\ Top.node \in NodesAt(calls, "pipe")
    BY <2>1, PoppedPipes
  <2>3. Dying' = Dying \ {Top.node} /\ Top.node \in Dying /\ InRings' = InRings
    BY <2>1, <2>2, DyingNext, HandleFacts DEF InRings, rings
  <2>4. Interrupted(calls') = Interrupted(calls)
    BY <1>1, <2>1, InterruptedPop DEF Top, Popped
  <2>5. H!Finish(id[Top.node]) /\ id[Top.node] \in Closing
    BY <2>1, <2>3, <2>4, FinishHandle
  <2> QED BY <2>5 DEF H!Next
<1>18. CASE UNCHANGED vars
  BY <1>2, <1>18 DEF vars, pool, rings, context
<1> QED BY <1>3, <1>4, <1>5, <1>7, <1>8, <1>9, <1>10, <1>11, <1>12, <1>13, <1>14,
           <1>15, <1>16, <1>17, <1>18 DEF Next

\* Nodes implements Handles: a reference names one object for ever, and the
\* contexts come back, as long as ids do not repeat and programs do not refer
\* to what they are told is closing.
THEOREM HandlesImplemented ==
  ASSUME SeeDying = FALSE, MaxId <= IdMod \div 2
  PROVE  Spec => AreHandles
<1>1. Init => H!Init
  <2> SUFFICES ASSUME Init PROVE H!Init
    OBVIOUS
  <2>1. PICK first \in Addr :
          /\ nextid = 1 /\ id = [a \in Addr |-> IF a = first THEN 0 ELSE -1]
          /\ wins = <<first>> /\ rmts = <<>> /\ keys = {}
          /\ frame = [f \in Frames |-> Null]
          /\ cur_win = Null /\ cur_rmt = Null /\ calls = <<>>
    BY DEF Init
  <2>2. InRings = {first} /\ Dying = {}
    BY <2>1 DEF InRings, Range, Dying, Pipes
  <2>3. Open = {0} /\ Closing = {}
    BY <2>1, <2>2 DEF Open, Closing
  <2>4. References = [f \in Frames |-> Null] /\ Current = [win |-> Null, rmt |-> Null]
    BY <2>1 DEF References, Current, Handle
  <2>5. Interrupted(calls) = <<>>
    BY <2>1, KeptEmpty DEF Interrupted
  <2> QED BY <2>1, <2>3, <2>4, <2>5 DEF H!Init
<1>2. Structure /\ Identified /\ Contexts /\ Aside /\ NoDangling /\ [Next]_vars
        => [H!Next]_(H!vars)
  BY NextHandle
<1>3. Spec => [](Structure /\ Identified /\ Contexts /\ Aside)
  BY Contextual
<1>4. Spec => []NoDangling
  BY NeverDangling
<1> QED BY <1>1, <1>2, <1>3, <1>4, PTL DEF Spec, AreHandles, H!Spec
=============================================================================

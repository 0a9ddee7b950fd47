--------------------------- MODULE MainLoopProofs ---------------------------
(***************************************************************************)
(* Proofs about MainLoop.                                                  *)
(***************************************************************************)
EXTENDS MainLoop, SeqLemmas

-----------------------------------------------------------------------------
(* The steps of the cycle.                                                 *)

\* Where a program goes on when it is over.
Backs == {"top", "stopped", "resized", "hooked", "broken", "processed", "flushed", "timer"}

\* The step that is in progress, whether a program runs in it or not.
Where == IF fn = "program" THEN back ELSE fn

Going == fn \in Steps /\ IF fn = "program" THEN back \in Backs ELSE back = "none"

LEMMA NextGoing ==
  ASSUME Going, [Next]_vars
  PROVE  Going'
<1> USE DEF Going, Goes, Program, Steps, Backs
<1>1. CASE UNCHANGED <<fn, back>>
  BY <1>1
<1>2. CASE Winch \/ Tstp \/ Break \/ AskConsole
  <2>1. UNCHANGED <<fn, back>> \/ (fn' = "idle" /\ back' = "none")
    BY <1>2 DEF Winch, Tstp, Break, AskConsole, Signal, Interrupts
  <2> QED BY <1>1, <2>1
<1>3. CASE ProgramEnd \/ Top \/ Stop \/ Stopped \/ Resize \/ Resized \/ Console \/ Quit
  BY <1>3 DEF ProgramEnd, Top, Stop, Stopped, Resize, Resized, Console, Quit
<1>4. CASE Timeout \/ Idle \/ Closed \/ Hooked \/ Broken \/ Checked \/ Ready
  BY <1>4 DEF Timeout, Idle, Closed, Hooked, Broken, Checked, Ready
<1>5. CASE Process \/ Processed \/ Flush \/ Flushed \/ Cycled \/ Timer
  BY <1>5 DEF Process, Processed, Flush, Flushed, Cycled, Timer
<1>6. CASE Receive \/ Skip \/ Tick \/ Disconnected \/ ProgramDoes \/ \E i \in DOMAIN events : DelEstate(i)
  BY <1>1, <1>6 DEF Receive, Skip, Tick, Disconnected, ProgramDoes, Sleep, Disconnect, Want, Connect, DelEstate
<1>7. CASE \E files \in SUBSET Files : Select(files)
  BY <1>7 DEF Select
<1>8. CASE UNCHANGED vars
  BY <1>1, <1>8 DEF vars
<1> QED BY <1>2, <1>3, <1>4, <1>5, <1>6, <1>7, <1>8 DEF Next, Loop, Outside

\* The flags are Booleans.
Flags ==
  /\ break_pending \in BOOLEAN /\ stop_pending \in BOOLEAN
  /\ winresize_pending \in BOOLEAN /\ console_pending \in BOOLEAN
  /\ outdated \in BOOLEAN /\ kin \in BOOLEAN /\ curs \in BOOLEAN

LEMMA NextFlags ==
  ASSUME Flags, [Next]_vars
  PROVE  Flags'
<1> USE DEF Flags, signals, pending
<1>1. CASE UNCHANGED <<signals, kin, curs>>
  BY <1>1
<1>2. CASE Winch \/ Tstp \/ Break \/ AskConsole
  BY <1>2 DEF Winch, Tstp, Break, AskConsole, Signal
<1>3. CASE Top \/ Stopped \/ Resize \/ Resized \/ Console
  BY <1>3 DEF Top, Stopped, Resize, Resized, Console
<1>4. CASE Disconnected \/ ProgramEnd \/ Stop \/ Quit \/ Timeout \/ Receive \/ Closed \/ Hooked
          \/ Broken \/ Skip
  BY <1>1, <1>4 DEF Disconnected, ProgramEnd, Stop, Quit, Timeout, Receive, Closed, Hooked,
                    Broken, Skip
<1>5. CASE Idle \/ Checked \/ Ready \/ Cycled
  BY <1>5 DEF Idle, Checked, Ready, Cycled
<1>6. CASE Process \/ Processed \/ Flush \/ Flushed \/ Timer \/ Tick
  BY <1>1, <1>6 DEF Process, Processed, Flush, Flushed, Timer, Tick
<1>7. CASE ProgramDoes \/ \E i \in DOMAIN events : DelEstate(i)
  BY <1>1, <1>7 DEF ProgramDoes, Sleep, Disconnect, Want, Connect, DelEstate
<1>8. CASE \E files \in SUBSET Files : Select(files)
  BY <1>1, <1>8 DEF Select
<1>9. CASE UNCHANGED vars
  BY <1>1, <1>9 DEF vars
<1> QED BY <1>2, <1>3, <1>4, <1>5, <1>6, <1>7, <1>8, <1>9 DEF Next, Loop, Outside

-----------------------------------------------------------------------------
(* The queue of sleeping programs.                                         *)

Sleeper == [timer : Int, nr : Nat]

\* What is due sooner is first; of the same second, what went to sleep first.
Sooner(e, f) == e.timer < f.timer \/ (e.timer = f.timer /\ e.nr < f.nr)
InTurn(q) == \A i, j \in DOMAIN q : i < j => Sooner(q[i], q[j])

Queue ==
  /\ now \in 0..MaxTime /\ slept \in 0..MaxSlept
  /\ events \in Seq(Sleeper) /\ InTurn(events)
  /\ \A i \in DOMAIN events : events[i].nr \in 1..slept /\ events[i].timer <= MaxTime

\* Nothing is twice in a queue that is in turn.
LEMMA InTurnInjective ==
  ASSUME NEW q \in Seq(Sleeper), InTurn(q)
  PROVE  IsInjective(q)
<1> SUFFICES ASSUME NEW a \in DOMAIN q, NEW b \in DOMAIN q, q[a] = q[b] PROVE a = b
  BY DEF IsInjective
<1>1. q[a] \in Sleeper /\ a \in Nat /\ b \in Nat
  OBVIOUS
<1>2. ~Sooner(q[a], q[a])
  BY <1>1 DEF Sooner, Sleeper
<1>3. ~(a < b) /\ ~(b < a)
  BY <1>2 DEF InTurn
<1> QED BY <1>1, <1>3

\* Whatever is removed, the others stay in turn.
LEMMA InTurnRemove ==
  ASSUME NEW q \in Seq(Sleeper), InTurn(q), NEW i \in 1..Len(q)
  PROVE  /\ RemoveAt(q, i) \in Seq(Sleeper) /\ InTurn(RemoveAt(q, i))
         /\ \A e \in Range(RemoveAt(q, i)) : e \in Range(q)
<1> DEFINE r == RemoveAt(q, i)
<1>1. /\ r \in Seq(Sleeper) /\ Len(r) = Len(q) - 1 /\ Range(r) = Range(q) \ {q[i]}
      /\ \A j \in 1..(Len(q) - 1) : r[j] = IF j < i THEN q[j] ELSE q[j + 1]
  BY InTurnInjective, RemoveRange
<1>2. Len(q) \in Nat /\ DOMAIN q = 1..Len(q)
  OBVIOUS
<1> HIDE DEF r
<1>3. DOMAIN r = 1..(Len(q) - 1)
  BY <1>1, <1>2
<1>4. ASSUME NEW a \in DOMAIN r, NEW b \in DOMAIN r, a < b PROVE Sooner(r[a], r[b])
  <2>1. PICK c \in DOMAIN q, d \in DOMAIN q : r[a] = q[c] /\ r[b] = q[d] /\ c < d
    <3>1. a \in 1..(Len(q) - 1) /\ b \in 1..(Len(q) - 1) /\ a + 1 \in 1..Len(q) /\ b + 1 \in 1..Len(q)
          /\ a \in 1..Len(q) /\ b \in 1..Len(q)
      BY <1>2, <1>3
    <3>2. CASE a < i /\ b < i
      BY <1>1, <1>2, <1>4, <3>1, <3>2
    <3>3. CASE a < i /\ ~(b < i)
      <4>1. r[a] = q[a] /\ r[b] = q[b + 1] /\ a < b + 1
        BY <1>1, <1>4, <3>1, <3>3
      <4> QED BY <1>2, <3>1, <4>1
    <3>4. CASE ~(a < i) /\ ~(b < i)
      <4>1. r[a] = q[a + 1] /\ r[b] = q[b + 1] /\ a + 1 < b + 1
        BY <1>1, <1>4, <3>1, <3>4
      <4> QED BY <1>2, <3>1, <4>1
    <3> QED BY <1>4, <3>1, <3>2, <3>3, <3>4
  <2> QED BY <2>1 DEF InTurn
<1>5. InTurn(r)
  BY <1>4 DEF InTurn
<1> QED BY <1>1, <1>5 DEF r

\* pr_sleep() finds the place of a program that goes to sleep after all others.
LEMMA InTurnInsert ==
  ASSUME NEW q \in Seq(Sleeper), InTurn(q), NEW t \in Int, NEW n \in Nat,
         \A i \in DOMAIN q : q[i].nr < n
  PROVE  LET k == Cardinality({i \in DOMAIN q : q[i].timer <= t}) + 1
             e == [timer |-> t, nr |-> n]
         IN /\ InsertAt(q, k, e) \in Seq(Sleeper) /\ InTurn(InsertAt(q, k, e))
            /\ Range(InsertAt(q, k, e)) = Range(q) \cup {e}
<1> DEFINE T == {i \in DOMAIN q : q[i].timer <= t}
           c == Cardinality(T)
           e == [timer |-> t, nr |-> n]
           r == InsertAt(q, c + 1, e)
<1>1. Len(q) \in Nat /\ DOMAIN q = 1..Len(q) /\ \A i \in 1..Len(q) : q[i] \in Sleeper
  OBVIOUS
<1>2. \A i \in T : \A j \in 1..Len(q) : j < i => j \in T
  <2> SUFFICES ASSUME NEW i \in T, NEW j \in 1..Len(q), j < i PROVE j \in T
    OBVIOUS
  <2>1. Sooner(q[j], q[i]) /\ q[i].timer <= t
    BY <1>1 DEF InTurn
  <2>2. q[j].timer <= t
    BY <1>1, <2>1 DEF Sooner, Sleeper
  <2> QED BY <1>1, <2>2
<1>3. c \in 0..Len(q) /\ T = 1..c
  <2>1. T \subseteq 1..Len(q)
    BY <1>1
  <2> HIDE DEF T
  <2> QED BY <1>1, <1>2, <2>1, Segment
<1>4. /\ \A i \in 1..c : q[i].timer <= t
      /\ \A i \in (c + 1)..Len(q) : t < q[i].timer
  <2>1. \A i \in 1..Len(q) : i \in T <=> q[i].timer <= t
    BY <1>1
  <2>2. \A i \in 1..Len(q) : q[i].timer \in Int
    BY <1>1 DEF Sleeper
  <2> HIDE DEF T, c
  <2> QED BY <1>1, <1>3, <2>1, <2>2
<1> HIDE DEF c, T
<1>5. e \in Sleeper /\ e.timer = t /\ e.nr = n
  BY DEF Sleeper
<1> HIDE DEF e
<1>6. /\ r \in Seq(Sleeper) /\ Len(r) = Len(q) + 1 /\ Range(r) = Range(q) \cup {e}
      /\ \A j \in 1..(Len(q) + 1) :
           r[j] = IF j < c + 1 THEN q[j] ELSE IF j = c + 1 THEN e ELSE q[j - 1]
  <2> DEFINE k == c + 1
  <2>1. q \in Seq(Sleeper) /\ e \in Sleeper /\ k \in 1..(Len(q) + 1)
    BY <1>1, <1>3, <1>5
  <2> HIDE DEF k
  <2>2. /\ InsertAt(q, k, e) \in Seq(Sleeper) /\ Len(InsertAt(q, k, e)) = Len(q) + 1
        /\ Range(InsertAt(q, k, e)) = Range(q) \cup {e}
        /\ \A j \in 1..(Len(q) + 1) : InsertAt(q, k, e)[j]
             = IF j < k THEN q[j] ELSE IF j = k THEN e ELSE q[j - 1]
    BY ONLY <2>1, InsertRange
  <2> QED BY <2>2 DEF k
<1> HIDE DEF r
<1>7. ASSUME NEW a \in DOMAIN r, NEW b \in DOMAIN r, a < b PROVE Sooner(r[a], r[b])
  <2>1. a \in 1..(Len(q) + 1) /\ b \in 1..(Len(q) + 1) /\ c \in Nat
    BY <1>1, <1>3, <1>6
  <2>2. CASE b <= c
    <3>1. r[a] = q[a] /\ r[b] = q[b] /\ a \in 1..Len(q) /\ b \in 1..Len(q)
      BY <1>1, <1>3, <1>6, <1>7, <2>1, <2>2
    <3> QED BY <1>1, <1>7, <3>1 DEF InTurn
  <2>3. CASE b = c + 1
    <3>1. r[a] = q[a] /\ r[b] = e /\ a \in 1..c /\ a \in 1..Len(q)
      BY <1>1, <1>3, <1>6, <1>7, <2>1, <2>3
    <3>2. q[a].timer <= t /\ q[a].nr < n /\ q[a] \in Sleeper
      BY <1>1, <1>4, <3>1
    <3> QED BY <1>5, <3>1, <3>2 DEF Sooner, Sleeper
  <2>4. CASE a = c + 1
    <3>1. r[a] = e /\ r[b] = q[b - 1] /\ b - 1 \in (c + 1)..Len(q) /\ b - 1 \in 1..Len(q)
      BY <1>1, <1>3, <1>6, <1>7, <2>1, <2>4
    <3>2. t < q[b - 1].timer
      BY <1>4, <3>1
    <3> QED BY <1>5, <3>1, <3>2 DEF Sooner
  <2>5. CASE a <= c /\ b > c + 1
    <3>1. r[a] = q[a] /\ r[b] = q[b - 1] /\ a \in 1..Len(q) /\ b - 1 \in 1..Len(q) /\ a < b - 1
      BY <1>1, <1>3, <1>6, <2>1, <2>5
    <3> QED BY <1>1, <3>1 DEF InTurn
  <2>6. CASE a > c + 1
    <3>1. r[a] = q[a - 1] /\ r[b] = q[b - 1] /\ a - 1 \in 1..Len(q) /\ b - 1 \in 1..Len(q)
          /\ a - 1 < b - 1
      BY <1>1, <1>3, <1>6, <1>7, <2>1, <2>6
    <3> QED BY <1>1, <3>1 DEF InTurn
  <2> QED BY <1>7, <2>1, <2>2, <2>3, <2>4, <2>5, <2>6
<1>8. InTurn(r)
  BY <1>7 DEF InTurn
<1> QED BY <1>6, <1>8 DEF r, c, T, e

LEMMA NextQueue ==
  ASSUME Queue, [Next]_vars
  PROVE  Queue'
<1>1. /\ now \in 0..MaxTime /\ slept \in 0..MaxSlept
      /\ events \in Seq(Sleeper) /\ InTurn(events) /\ DOMAIN events = 1..Len(events)
      /\ Len(events) \in Nat
      /\ \A i \in 1..Len(events) : events[i].nr \in 1..slept /\ events[i].timer <= MaxTime
  BY DEF Queue
<1>2. CASE UNCHANGED <<timers, now>>
  BY <1>1, <1>2 DEF Queue, timers
<1>3. CASE Tick
  BY <1>1, <1>3, MainLoopAssumption DEF Tick, Queue, timers
<1>4. ASSUME NEW n \in Naps, Sleep(n) PROVE Queue'
  <2> DEFINE t == now + n
             m == slept + 1
             e == [timer |-> t, nr |-> m]
  <2>1. t \in Int /\ m \in Nat /\ t <= MaxTime /\ m \in 0..MaxSlept
    BY <1>1, <1>4, MainLoopAssumption DEF Sleep
  <2>2. \A i \in DOMAIN events : events[i].nr < m
    BY <1>1
  <2>3. /\ slept' = m /\ UNCHANGED now
        /\ events' = InsertAt(events, Cardinality({i \in DOMAIN events : events[i].timer <= t}) + 1, e)
    BY <1>4 DEF Sleep, Slot
  <2>4. e.timer = t /\ e.nr = m
    OBVIOUS
  <2> HIDE DEF t, m
  <2>5. events' \in Seq(Sleeper) /\ InTurn(events') /\ Range(events') = Range(events) \cup {e}
    BY <1>1, <2>1, <2>2, <2>3, InTurnInsert
  <2> HIDE DEF e
  <2>6. \A f \in Range(events') : f.nr \in 1..m /\ f.timer <= MaxTime
    <3>1. \A f \in Range(events) : f.nr \in 1..m /\ f.timer <= MaxTime
      BY <1>1 DEF Range, m
    <3>2. e.nr \in 1..m /\ e.timer <= MaxTime
      BY <1>1, <2>1, <2>4 DEF m
    <3> QED BY <2>5, <3>1, <3>2
  <2>7. \A i \in DOMAIN events' : events'[i].nr \in 1..m /\ events'[i].timer <= MaxTime
    BY <2>6 DEF Range
  <2> QED BY <1>1, <2>1, <2>3, <2>5, <2>7 DEF Queue
<1>5. ASSUME NEW i \in 1..Len(events), events' = RemoveAt(events, i), UNCHANGED <<slept, now>>
      PROVE  Queue'
  <2>1. /\ events' \in Seq(Sleeper) /\ InTurn(events')
        /\ \A e \in Range(events') : e \in Range(events)
    BY <1>1, <1>5, InTurnRemove
  <2>2. \A e \in Range(events') : e.nr \in 1..slept /\ e.timer <= MaxTime
    BY <1>1, <2>1 DEF Range
  <2>3. \A j \in DOMAIN events' : events'[j].nr \in 1..slept /\ events'[j].timer <= MaxTime
    BY <2>2 DEF Range
  <2> QED BY <1>1, <1>5, <2>1, <2>3 DEF Queue
<1>6. CASE \E i \in DOMAIN events : DelEstate(i)
  BY <1>1, <1>5, <1>6 DEF DelEstate
<1>7. CASE Timer
  <2>1. UNCHANGED events \/ (events # <<>> /\ events' = Tail(events))
    BY <1>7 DEF Timer, Reached
  <2>2. UNCHANGED <<slept, now>>
    BY <1>7 DEF Timer
  <2>3. CASE events # <<>> /\ events' = Tail(events)
    <3>1. 1 \in 1..Len(events)
      BY <1>1, <2>3
    <3>2. RemoveAt(events, 1) = Tail(events)
      BY <1>1, <3>1, TailRemove
    <3> QED BY <1>5, <2>2, <2>3, <3>1, <3>2
  <2> QED BY <1>2, <2>1, <2>2, <2>3 DEF timers
<1>8. CASE Winch \/ Tstp \/ Break \/ AskConsole
  BY <1>2, <1>8 DEF Winch, Tstp, Break, AskConsole, Signal
<1>9. CASE Disconnected \/ ProgramEnd \/ Top \/ Stop \/ Stopped \/ Resize \/ Resized \/ Console \/ Quit
  BY <1>2, <1>9 DEF Disconnected, ProgramEnd, Top, Stop, Stopped, Resize, Resized, Console, Quit
<1>10. CASE Timeout \/ Idle \/ Closed \/ Hooked \/ Broken \/ Checked \/ Ready \/ Receive \/ Skip
  BY <1>2, <1>10 DEF Timeout, Idle, Closed, Hooked, Broken, Checked, Ready, Receive, Skip
<1>11. CASE Process \/ Processed \/ Flush \/ Flushed \/ Cycled
  BY <1>2, <1>11 DEF Process, Processed, Flush, Flushed, Cycled
<1>12. CASE \E r \in Nodes : Disconnect(r) \/ Want(r) \/ \E fd \in 1..Cardinality(Nodes) : Connect(r, fd)
  BY <1>2, <1>12 DEF Disconnect, Want, Connect
<1>13. CASE \E files \in SUBSET Files : Select(files)
  BY <1>2, <1>13 DEF Select
<1>14. CASE UNCHANGED vars
  BY <1>2, <1>14 DEF vars
<1> QED BY <1>3, <1>4, <1>6, <1>7, <1>8, <1>9, <1>10, <1>11, <1>12, <1>13, <1>14
        DEF Next, Loop, Outside, ProgramDoes

LEMMA InitQueue == Init => Queue
<1> SUFFICES ASSUME Init PROVE Queue
  OBVIOUS
<1>1. events = <<>> /\ now = 0 /\ slept = 0
  BY DEF Init
<1>2. events \in Seq(Sleeper) /\ DOMAIN events = {}
  BY <1>1, EmptySeq
<1> QED BY <1>1, <1>2, MainLoopAssumption DEF Queue, InTurn

\* Only the program whose time has come is resumed by its timer, and it is the
\* first of those that wait: for any number of them, in whatever order they
\* went to sleep, for how long, and were deleted.
THEOREM WokenInTurn == Spec => WakesInTurn
<1>1. ASSUME Queue, Next
      PROVE  \A e \in ToSet(events) : Woken(e) =>
               /\ e.timer <= now
               /\ \A f \in ToSet(events') :
                    e.timer < f.timer \/ (e.timer = f.timer /\ e.nr < f.nr)
  <2> SUFFICES ASSUME NEW e \in ToSet(events), Woken(e)
               PROVE  e.timer <= now /\ \A f \in ToSet(events') : Sooner(e, f)
    BY DEF Sooner
  <2>1. fn = "timer" /\ e \notin ToSet(events') /\ events' # events
    BY DEF Woken
  <2>2. Timer
    <3>1. ~(\E n \in Naps : Sleep(n)) /\ ~(\E i \in DOMAIN events : DelEstate(i))
      BY <2>1 DEF Sleep, Free, DelEstate
    <3>2. ~(Winch \/ Tstp \/ Break \/ AskConsole \/ Tick)
      BY <2>1 DEF Winch, Tstp, Break, AskConsole, Signal, Tick, timers
    <3>3. ~(\E r \in Nodes : Disconnect(r) \/ Want(r) \/ \E fd \in 1..Cardinality(Nodes) : Connect(r, fd))
      BY <2>1 DEF Disconnect, Want, Connect, Free
    <3>4. ~(\E files \in SUBSET Files : Select(files))
      BY <2>1 DEF Select
    <3>5. ~(Disconnected \/ ProgramEnd \/ Top \/ Stop \/ Stopped \/ Resize \/ Resized \/ Console \/ Quit)
      BY <2>1 DEF Disconnected, ProgramEnd, Top, Stop, Stopped, Resize, Resized, Console, Quit
    <3>6. ~(Timeout \/ Idle \/ Closed \/ Hooked \/ Broken \/ Checked \/ Ready \/ Receive \/ Skip)
      BY <2>1 DEF Timeout, Idle, Closed, Hooked, Broken, Checked, Ready, Receive, Skip
    <3>7. ~(Process \/ Processed \/ Flush \/ Flushed \/ Cycled)
      BY <2>1 DEF Process, Processed, Flush, Flushed, Cycled
    <3> QED BY <1>1, <3>1, <3>2, <3>3, <3>4, <3>5, <3>6, <3>7 DEF Next, Loop, Outside, ProgramDoes
  <2>3. events # <<>> /\ events[1].timer <= now /\ events' = Tail(events)
    BY <2>1, <2>2 DEF Timer, Reached
  <2>4. /\ events \in Seq(Sleeper) /\ InTurn(events) /\ Len(events) \in Nat
        /\ DOMAIN events = 1..Len(events) /\ Len(events) > 0
    BY <1>1, <2>3 DEF Queue
  <2>5. /\ DOMAIN events' = 1..(Len(events) - 1)
        /\ \A i \in 1..(Len(events) - 1) : events'[i] = events[i + 1]
    BY <2>3, <2>4
  <2>6. PICK i \in 1..Len(events) : e = events[i]
    BY <2>4 DEF ToSet
  <2>7. i = 1
    <3> SUFFICES ASSUME i # 1 PROVE FALSE
      OBVIOUS
    <3>1. i - 1 \in 1..(Len(events) - 1) /\ events'[i - 1] = e
      BY <2>4, <2>5, <2>6
    <3> QED BY <2>1, <2>5, <3>1 DEF ToSet
  <2>8. ASSUME NEW f \in ToSet(events') PROVE Sooner(e, f)
    <3>1. PICK j \in 1..(Len(events) - 1) : f = events[j + 1]
      BY <2>5 DEF ToSet
    <3>2. 1 \in 1..Len(events) /\ j + 1 \in 1..Len(events) /\ 1 < j + 1
      BY <2>4
    <3> QED BY <2>4, <2>6, <2>7, <3>1, <3>2 DEF InTurn
  <2> QED BY <2>3, <2>6, <2>7, <2>8
<1>2. Queue /\ [Next]_vars => Queue'
  BY NextQueue
<1> QED BY <1>1, <1>2, InitQueue, PTL DEF Spec, WakesInTurn

-----------------------------------------------------------------------------
(* The ring of remotes.                                                    *)

Rings ==
  /\ ring \in Seq(Nodes) /\ dying \in Seq(Nodes) /\ free \in Seq(Nodes)
  /\ IsInjective(ring) /\ IsInjective(dying) /\ IsInjective(free)
  /\ Nodes = Range(ring) \cup Range(dying) \cup Range(free)
  /\ Range(ring) \cap Range(dying) = {} /\ Range(free) \cap (Range(ring) \cup Range(dying)) = {}

Connections ==
  /\ conns \in 0..MaxConns
  /\ id \in [Nodes -> 0..conns] /\ Rfd \in [Nodes -> Nat]
  /\ \A r \in Nodes : id[r] = 0 <=> r \in Range(free)
  /\ \A r \in Range(ring) : Rfd[r] # 0
  /\ \A r, s \in Range(ring) : r # s => Rfd[r] # Rfd[s]

Texts == wanted \in [Nodes -> BOOLEAN] /\ Rbuf \in [Nodes -> BOOLEAN]

LEMMA LinkedIs == \A r : Linked(r) <=> r \in Range(ring)
BY DEF Linked, ToSet, Range

\* Each linked structure has one place.
LEMMA PlaceIs ==
  ASSUME Rings
  PROVE  /\ Len(ring) \in Nat
         /\ \A r \in Range(ring) : Place(r) \in 1..Len(ring) /\ ring[Place(r)] = r
         /\ \A i \in 1..Len(ring) : ring[i] \in Range(ring) /\ Place(ring[i]) = i
<1>1. ring \in Seq(Nodes) /\ IsInjective(ring)
  BY DEF Rings
<1>2. \A r \in Range(ring) : Place(r) \in 1..Len(ring) /\ ring[Place(r)] = r
                             /\ \A j \in 1..Len(ring) : ring[j] = r => j = Place(r)
  BY <1>1, PlaceOf DEF Place
<1>3. \A i \in 1..Len(ring) : ring[i] \in Range(ring)
  BY <1>1 DEF Range
<1> QED BY <1>1, <1>2, <1>3

LEMMA PlaceIsNext ==
  ASSUME Rings'
  PROVE  /\ Len(ring') \in Nat
         /\ \A r \in Range(ring') : Place(r)' \in 1..Len(ring') /\ ring'[Place(r)'] = r
         /\ \A i \in 1..Len(ring') : ring'[i] \in Range(ring') /\ (CHOOSE j \in DOMAIN ring' : ring'[j] = ring'[i]) = i
<1>1. ring' \in Seq(Nodes) /\ IsInjective(ring')
  BY DEF Rings
<1>2. \A r \in Range(ring') : LET i == CHOOSE j \in DOMAIN ring' : ring'[j] = r
                              IN i \in 1..Len(ring') /\ ring'[i] = r
                                 /\ \A j \in 1..Len(ring') : ring'[j] = r => j = i
  BY <1>1, PlaceOf
<1>3. \A i \in 1..Len(ring') : ring'[i] \in Range(ring')
  BY <1>1 DEF Range
<1> QED BY <1>1, <1>2, <1>3 DEF Place

\* first() and next() of a linked remote.
LEMMA FirstIs ==
  ASSUME Rings
  PROVE  /\ First = Null \/ (First \in Range(ring) /\ Place(First) = 1)
         /\ First = Null => Range(ring) = {}
<1>1. CASE ring = <<>>
  BY <1>1 DEF First, Range
<1>2. CASE ring # <<>>
  <2>1. 1 \in 1..Len(ring) /\ First = ring[1]
    BY <1>2 DEF Rings, First
  <2>2. First \in Range(ring) /\ First # Null
    BY <2>1, PlaceIs, MainLoopAssumption DEF Rings
  <2> QED BY <2>1, <2>2, PlaceIs
<1> QED BY <1>1, <1>2

LEMMA AfterIs ==
  ASSUME Rings, NEW r \in Range(ring)
  PROVE  \/ After(r) = Null /\ Place(r) = Len(ring)
         \/ /\ After(r) \in Range(ring) /\ After(r) # Null /\ After(r) # r
            /\ Place(After(r)) = Place(r) + 1
<1>1. Linked(r) /\ Place(r) \in 1..Len(ring) /\ Len(ring) \in Nat
  BY PlaceIs, LinkedIs
<1>2. CASE Place(r) = Len(ring)
  BY <1>1, <1>2 DEF After
<1>3. CASE Place(r) # Len(ring)
  <2>1. Place(r) + 1 \in 1..Len(ring) /\ After(r) = ring[Place(r) + 1]
    BY <1>1, <1>3 DEF After
  <2>2. After(r) \in Range(ring) /\ Place(After(r)) = Place(r) + 1
    BY <2>1, PlaceIs
  <2>3. After(r) # Null
    BY <2>2, MainLoopAssumption DEF Rings
  <2>4. After(r) # r
    BY <1>1, <2>2
  <2> QED BY <2>2, <2>3, <2>4
<1> QED BY <1>2, <1>3

\* What disconnect() makes of the ring: the others keep their order.
LEMMA Unlinked ==
  ASSUME Rings, NEW r \in Range(ring), ring' = RemoveAt(ring, Place(r)), dying' = <<r>> \o dying,
         free' = free
  PROVE  /\ Rings' /\ Range(ring') = Range(ring) \ {r}
         /\ \A s \in Range(ring') :
              Place(s)' = IF Place(s) < Place(r) THEN Place(s) ELSE Place(s) - 1
<1>1. /\ ring \in Seq(Nodes) /\ dying \in Seq(Nodes) /\ free \in Seq(Nodes)
      /\ IsInjective(ring) /\ IsInjective(dying) /\ IsInjective(free)
      /\ Range(ring) \subseteq Nodes /\ Nodes = Range(ring) \cup Range(dying) \cup Range(free)
      /\ Range(ring) \cap Range(dying) = {} /\ Range(free) \cap (Range(ring) \cup Range(dying)) = {}
  BY DEF Rings
<1>2. Place(r) \in 1..Len(ring) /\ ring[Place(r)] = r /\ Len(ring) \in Nat
  BY PlaceIs
<1> DEFINE p == Place(r)
<1>3. p \in 1..Len(ring) /\ ring[p] = r /\ ring' = RemoveAt(ring, p)
  BY <1>2
<1> HIDE DEF p
<1>4. /\ ring' \in Seq(Nodes) /\ Len(ring') = Len(ring) - 1
      /\ \A j \in 1..(Len(ring) - 1) : ring'[j] = IF j < p THEN ring[j] ELSE ring[j + 1]
      /\ Range(ring') = Range(ring) \ {r} /\ IsInjective(ring')
  <2>1. ring \in Seq(Nodes) /\ IsInjective(ring) /\ p \in 1..Len(ring)
    BY <1>1, <1>3
  <2>2. /\ RemoveAt(ring, p) \in Seq(Nodes) /\ Len(RemoveAt(ring, p)) = Len(ring) - 1
        /\ \A j \in 1..(Len(ring) - 1) :
             RemoveAt(ring, p)[j] = IF j < p THEN ring[j] ELSE ring[j + 1]
        /\ Range(RemoveAt(ring, p)) = Range(ring) \ {ring[p]}
        /\ IsInjective(RemoveAt(ring, p))
    BY ONLY <2>1, RemoveRange
  <2> QED BY <1>3, <2>2
<1>5. dying' \in Seq(Nodes) /\ Range(dying') = Range(dying) \cup {r} /\ IsInjective(dying')
  <2>1. r \in Nodes /\ r \notin Range(dying)
    BY <1>1
  <2> QED BY <1>1, <2>1, ConsRange
<1>6. Rings'
  <2>1. /\ Nodes = Range(ring') \cup Range(dying') \cup Range(free')
        /\ Range(ring') \cap Range(dying') = {} /\ Range(free') \cap (Range(ring') \cup Range(dying')) = {}
    BY <1>1, <1>4, <1>5
  <2>2. Range(ring)' = Range(ring') /\ Range(dying)' = Range(dying') /\ Range(free)' = Range(free')
    BY DEF Range
  <2> QED BY <1>1, <1>4, <1>5, <2>1, <2>2 DEF Rings
<1>7. ASSUME NEW s \in Range(ring')
      PROVE  Place(s)' = IF Place(s) < p THEN Place(s) ELSE Place(s) - 1
  <2>1. s \in Range(ring) /\ s # r
    BY <1>4
  <2>2. Place(s) \in 1..Len(ring) /\ ring[Place(s)] = s /\ Place(s) # p
    BY <1>3, <2>1, PlaceIs
  <2> DEFINE i == IF Place(s) < p THEN Place(s) ELSE Place(s) - 1
  <2>3. i \in 1..(Len(ring) - 1) /\ ring'[i] = s
    <3>1. CASE Place(s) < p
      <4>1. i = Place(s) /\ i \in 1..(Len(ring) - 1) /\ i < p
        BY <1>2, <1>3, <2>2, <3>1
      <4> QED BY <1>4, <2>2, <4>1
    <3>2. CASE ~(Place(s) < p)
      <4>1. i + 1 = Place(s) /\ i \in 1..(Len(ring) - 1) /\ ~(i < p)
        BY <1>2, <1>3, <2>2, <3>2
      <4> QED BY <1>4, <2>2, <4>1
    <3> QED BY <3>1, <3>2
  <2> HIDE DEF i
  <2>4. (CHOOSE j \in DOMAIN ring' : ring'[j] = ring'[i]) = i
    BY <1>4, <1>6, <2>3, PlaceIsNext
  <2> QED BY <2>3, <2>4 DEF Place, i
<1> QED BY <1>4, <1>6, <1>7 DEF p

\* What create_rmt() makes of it: the others keep their places.
LEMMA LinkedNew ==
  ASSUME Rings, free # <<>>, NEW r, r = Head(free), ring' = Append(ring, r), free' = Tail(free),
         dying' = dying
  PROVE  /\ Rings' /\ Range(ring') = Range(ring) \cup {r} /\ r \in Nodes /\ r \notin Range(ring)
         /\ \A s \in Range(ring) : Place(s)' = Place(s)
<1>1. /\ ring \in Seq(Nodes) /\ dying \in Seq(Nodes) /\ free \in Seq(Nodes)
      /\ IsInjective(ring) /\ IsInjective(dying) /\ IsInjective(free)
      /\ Range(ring) \subseteq Nodes /\ Nodes = Range(ring) \cup Range(dying) \cup Range(free)
      /\ Range(ring) \cap Range(dying) = {} /\ Range(free) \cap (Range(ring) \cup Range(dying)) = {}
  BY DEF Rings
<1>2. /\ r \in Nodes /\ r \in Range(free) /\ free' \in Seq(Nodes)
      /\ Range(free') = Range(free) \ {r} /\ IsInjective(free')
  BY <1>1, TailRange
<1>3. r \notin Range(ring)
  BY <1>1, <1>2
<1>4. ring' \in Seq(Nodes) /\ Range(ring') = Range(ring) \cup {r} /\ IsInjective(ring')
  BY <1>1, <1>2, <1>3, AppendRange
<1>5. Rings'
  <2>1. /\ Nodes = Range(ring') \cup Range(dying') \cup Range(free')
        /\ Range(ring') \cap Range(dying') = {} /\ Range(free') \cap (Range(ring') \cup Range(dying')) = {}
    BY <1>1, <1>2, <1>4
  <2>2. Range(ring)' = Range(ring') /\ Range(dying)' = Range(dying') /\ Range(free)' = Range(free')
    BY DEF Range
  <2> QED BY <1>1, <1>2, <1>4, <2>1, <2>2 DEF Rings
<1>6. ASSUME NEW s \in Range(ring) PROVE Place(s)' = Place(s)
  <2>1. Place(s) \in 1..Len(ring) /\ ring[Place(s)] = s /\ Len(ring) \in Nat
    BY PlaceIs
  <2> DEFINE i == Place(s)
  <2>2. i \in 1..Len(ring) /\ ring[i] = s
    BY <2>1
  <2> HIDE DEF i
  <2>3. i \in 1..Len(ring') /\ ring'[i] = s
    BY <1>1, <1>2, <2>1, <2>2
  <2>4. (CHOOSE j \in DOMAIN ring' : ring'[j] = ring'[i]) = i
    BY <1>5, <2>3, PlaceIsNext
  <2> QED BY <2>3, <2>4 DEF Place, i
<1> QED BY <1>2, <1>3, <1>4, <1>5, <1>6

-----------------------------------------------------------------------------
Remotes == Rings /\ Connections /\ Texts

LEMMA RemotesStay ==
  ASSUME Remotes, UNCHANGED remotes
  PROVE  /\ Remotes' /\ Range(ring') = Range(ring)
         /\ \A r : Place(r)' = Place(r) /\ After(r)' = After(r)
<1>1. ring' = ring /\ dying' = dying /\ free' = free /\ id' = id /\ Rfd' = Rfd /\ wanted' = wanted
      /\ Rbuf' = Rbuf /\ conns' = conns
  BY DEF remotes
<1>2. Range(ring') = Range(ring) /\ Range(dying') = Range(dying) /\ Range(free') = Range(free)
  BY <1>1
<1>3. \A r : Place(r)' = Place(r)
  BY <1>1 DEF Place
<1>4. \A r : After(r)' = After(r)
  BY <1>1 DEF After, Place, Linked
<1>5. Remotes'
  BY <1>1, <1>2 DEF Remotes, Rings, Connections, Texts
<1> QED BY <1>2, <1>3, <1>4, <1>5

\* disconnect() takes one connection from the ring, and touches no other.
LEMMA UnlinkKeeps ==
  ASSUME Remotes, NEW r \in Range(ring), Unlink(r)
  PROVE  /\ Remotes' /\ Range(ring') = Range(ring) \ {r} /\ UNCHANGED <<id, conns>>
         /\ \A s \in Range(ring') :
              /\ Place(s)' = IF Place(s) < Place(r) THEN Place(s) ELSE Place(s) - 1
              /\ Rfd'[s] = Rfd[s] /\ wanted'[s] = wanted[s] /\ Rbuf'[s] = Rbuf[s]
<1>1. /\ ring' = RemoveAt(ring, Place(r)) /\ dying' = <<r>> \o dying /\ UNCHANGED <<free, id, conns>>
      /\ Rfd' = [Rfd EXCEPT ![r] = 0]
      /\ wanted' = [wanted EXCEPT ![r] = FALSE] /\ Rbuf' = [Rbuf EXCEPT ![r] = FALSE]
  BY DEF Unlink
<1>2. Rings /\ Connections /\ Texts
  BY DEF Remotes
<1>3. /\ Rings' /\ Range(ring') = Range(ring) \ {r}
      /\ \A s \in Range(ring') :
           Place(s)' = IF Place(s) < Place(r) THEN Place(s) ELSE Place(s) - 1
  BY <1>1, <1>2, Unlinked
<1>4. /\ Range(ring) \subseteq Nodes /\ Range(ring)' = Range(ring') /\ Range(free') = Range(free)
      /\ conns \in Nat
  BY <1>1, <1>2, MainLoopAssumption DEF Rings, Range, Connections
<1>5. Connections'
  BY <1>1, <1>2, <1>3, <1>4 DEF Connections
<1>6. Texts'
  BY <1>1, <1>2, <1>4 DEF Texts
<1>7. \A s \in Range(ring') : /\ s \in Nodes /\ s # r /\ Rfd'[s] = Rfd[s]
                              /\ wanted'[s] = wanted[s] /\ Rbuf'[s] = Rbuf[s]
  BY <1>1, <1>2, <1>3, <1>4 DEF Connections, Texts
<1> QED BY <1>1, <1>3, <1>5, <1>6, <1>7 DEF Remotes

\* discard_unode() changes nothing that is in the ring.
LEMMA DiscardKeeps ==
  ASSUME Remotes, Discarded
  PROVE  /\ Remotes' /\ UNCHANGED <<ring, Rfd, wanted, Rbuf, conns>>
         /\ \A s : Place(s)' = Place(s)
         /\ \A s \in Range(ring) : id'[s] = id[s]
<1>1. /\ dying # <<>> /\ dying' = Tail(dying) /\ free' = <<Head(dying)>> \o free
      /\ id' = [id EXCEPT ![Head(dying)] = 0] /\ UNCHANGED <<ring, Rfd, wanted, Rbuf, conns>>
  BY DEF Discarded
<1>2. /\ ring \in Seq(Nodes) /\ dying \in Seq(Nodes) /\ free \in Seq(Nodes)
      /\ IsInjective(ring) /\ IsInjective(dying) /\ IsInjective(free)
      /\ Nodes = Range(ring) \cup Range(dying) \cup Range(free)
      /\ Range(ring) \cap Range(dying) = {} /\ Range(free) \cap (Range(ring) \cup Range(dying)) = {}
  BY DEF Remotes, Rings
<1>3. PICK r : r = Head(dying)
  OBVIOUS
<1>4. /\ r \in Nodes /\ r \in Range(dying) /\ dying' \in Seq(Nodes)
      /\ Range(dying') = Range(dying) \ {r} /\ IsInjective(dying')
  BY <1>1, <1>2, <1>3, TailRange
<1>5. free' \in Seq(Nodes) /\ Range(free') = Range(free) \cup {r} /\ IsInjective(free')
  <2>1. r \notin Range(free)
    BY <1>2, <1>4
  <2> QED BY <1>1, <1>2, <1>3, <1>4, <2>1, ConsRange
<1>6. Range(ring') = Range(ring)
  BY <1>1
<1>7. Rings'
  <2>1. /\ Nodes = Range(ring') \cup Range(dying') \cup Range(free')
        /\ Range(ring') \cap Range(dying') = {} /\ Range(free') \cap (Range(ring') \cup Range(dying')) = {}
    BY <1>2, <1>4, <1>5, <1>6
  <2>2. Range(ring)' = Range(ring') /\ Range(dying)' = Range(dying') /\ Range(free)' = Range(free')
    BY DEF Range
  <2> QED BY <1>1, <1>2, <1>4, <1>5, <2>1, <2>2 DEF Rings
<1>8. /\ conns \in 0..MaxConns /\ id \in [Nodes -> 0..conns] /\ Rfd \in [Nodes -> Nat]
      /\ \A s \in Nodes : id[s] = 0 <=> s \in Range(free)
      /\ \A s \in Range(ring) : Rfd[s] # 0
      /\ \A s, q \in Range(ring) : s # q => Rfd[s] # Rfd[q]
  BY DEF Remotes, Connections
<1>9. id' \in [Nodes -> 0..conns] /\ id'[r] = 0 /\ \A s \in Nodes \ {r} : id'[s] = id[s]
  BY <1>1, <1>3, <1>4, <1>8, MainLoopAssumption
<1>10. Connections'
  <2>1. \A s \in Nodes : id'[s] = 0 <=> s \in Range(free')
    BY <1>4, <1>5, <1>8, <1>9
  <2> QED BY <1>1, <1>6, <1>8, <1>9, <2>1 DEF Connections
<1>11. Texts'
  BY <1>1 DEF Texts, Remotes
<1>12. \A s : Place(s)' = Place(s)
  BY <1>1 DEF Place
<1>13. \A s \in Range(ring) : id'[s] = id[s]
  BY <1>2, <1>4, <1>9
<1> QED BY <1>1, <1>7, <1>10, <1>11, <1>12, <1>13 DEF Remotes

\* create_rmt() puts the new one behind all others.
LEMMA ConnectKeeps ==
  ASSUME Remotes, NEW r, NEW fd, Connect(r, fd)
  PROVE  /\ Remotes' /\ Range(ring') = Range(ring) \cup {r} /\ r \in Nodes /\ r \notin Range(ring)
         /\ conns' = conns + 1 /\ id'[r] = conns' /\ wanted'[r] = FALSE
         /\ \A s \in Range(ring) : Place(s)' = Place(s)
         /\ \A s \in Nodes \ {r} : id'[s] = id[s] /\ Rfd'[s] = Rfd[s] /\ wanted'[s] = wanted[s]
                                   /\ Rbuf'[s] = Rbuf[s]
<1>1. /\ conns < MaxConns /\ free # <<>> /\ r = Head(free) /\ fd \in 1..Cardinality(Nodes)
      /\ ring' = Append(ring, r) /\ free' = Tail(free) /\ dying' = dying /\ conns' = conns + 1
      /\ id' = [id EXCEPT ![r] = conns'] /\ Rfd' = [Rfd EXCEPT ![r] = fd]
      /\ wanted' = [wanted EXCEPT ![r] = FALSE] /\ Rbuf' = [Rbuf EXCEPT ![r] = FALSE]
      /\ \A s \in Range(ring) : Rfd[s] # fd
  BY DEF Connect, ToSet, Range
<1>2. Rings /\ Connections /\ Texts
  BY DEF Remotes
<1>3. /\ Rings' /\ Range(ring') = Range(ring) \cup {r} /\ r \in Nodes /\ r \notin Range(ring)
      /\ \A s \in Range(ring) : Place(s)' = Place(s)
  BY <1>1, <1>2, LinkedNew
<1>3a. Range(free') = Range(free) \ {r} /\ Range(free)' = Range(free')
  <2>1. free \in Seq(Nodes) /\ IsInjective(free) /\ free # <<>>
    BY <1>1, <1>2 DEF Rings
  <2>2. Range(Tail(free)) = Range(free) \ {Head(free)}
    BY ONLY <2>1, TailRange
  <2> QED BY <1>1, <2>2 DEF Range
<1>4. /\ Range(ring) \subseteq Nodes /\ Range(ring)' = Range(ring') /\ conns \in Nat
      /\ conns' \in 0..MaxConns /\ MaxConns \in Nat /\ fd \in Nat /\ fd # 0
  <2>1. Range(ring) \subseteq Nodes /\ Range(ring)' = Range(ring')
    BY <1>2 DEF Rings, Range
  <2>2. conns \in 0..MaxConns
    BY <1>2 DEF Connections
  <2>3. MaxConns \in Nat /\ Cardinality(Nodes) \in Nat
    BY MainLoopAssumption, FS_CardinalityType
  <2> QED BY <1>1, <2>1, <2>2, <2>3
<1>5. /\ id \in [Nodes -> 0..conns] /\ Rfd \in [Nodes -> Nat] /\ wanted \in [Nodes -> BOOLEAN]
      /\ Rbuf \in [Nodes -> BOOLEAN]
  BY <1>2 DEF Connections, Texts
<1>6. /\ id' \in [Nodes -> 0..conns'] /\ Rfd' \in [Nodes -> Nat]
      /\ id'[r] = conns' /\ Rfd'[r] = fd /\ wanted'[r] = FALSE /\ conns' # 0
      /\ \A s \in Nodes \ {r} : id'[s] = id[s] /\ Rfd'[s] = Rfd[s] /\ wanted'[s] = wanted[s]
                                /\ Rbuf'[s] = Rbuf[s]
  <2>1. \A s \in Nodes : id[s] \in 0..conns'
    BY <1>1, <1>4, <1>5
  <2>2. conns' \in 0..conns' /\ conns' # 0
    BY <1>1, <1>4
  <2> QED BY <1>1, <1>3, <1>4, <1>5, <2>1, <2>2
<1>7. Connections'
  <2>1. \A s \in Nodes : id'[s] = 0 <=> s \in Range(free')
    BY <1>2, <1>3, <1>6, <1>3a DEF Connections
  <2>2. \A s \in Range(ring') : Rfd'[s] # 0
    BY <1>2, <1>3, <1>4, <1>6 DEF Connections
  <2>3. ASSUME NEW s \in Range(ring'), NEW q \in Range(ring'), s # q PROVE Rfd'[s] # Rfd'[q]
    <3>1. /\ s \in Range(ring) => s \in Nodes /\ s # r /\ Rfd'[s] = Rfd[s] /\ Rfd[s] # fd
          /\ q \in Range(ring) => q \in Nodes /\ q # r /\ Rfd'[q] = Rfd[q] /\ Rfd[q] # fd
      BY <1>1, <1>3, <1>4, <1>6
    <3> QED BY <1>2, <1>3, <1>6, <2>3, <3>1 DEF Connections
  <2> QED BY <1>4, <1>6, <1>3a, <2>1, <2>2, <2>3 DEF Connections
<1>8. Texts'
  BY <1>1, <1>5 DEF Texts
<1> QED BY <1>1, <1>3, <1>6, <1>7, <1>8 DEF Remotes

LEMMA InitRemotes == Init => Remotes
<1> SUFFICES ASSUME Init PROVE Remotes
  OBVIOUS
<1>1. /\ ring = <<>> /\ free = SetToSeq(Nodes) /\ dying = <<>> /\ id = [r \in Nodes |-> 0] /\ Rfd = [r \in Nodes |-> 0]
      /\ wanted = [r \in Nodes |-> FALSE] /\ Rbuf = [r \in Nodes |-> FALSE] /\ conns = 0
  BY DEF Init
<1>2. free \in Seq(Nodes) /\ IsInjective(free) /\ Range(free) = Nodes
  BY <1>1, SetSequence, MainLoopAssumption
<1>3. ring \in Seq(Nodes) /\ IsInjective(ring) /\ Range(ring) = {} /\ dying = ring
  <2>1. ring \in Seq(Nodes) /\ DOMAIN ring = {} /\ dying = ring
    BY <1>1, EmptySeq
  <2> QED BY <2>1 DEF IsInjective, Range
<1>4. Rings
  BY <1>2, <1>3 DEF Rings
<1>5. Connections
  BY <1>1, <1>2, <1>3, MainLoopAssumption DEF Connections
<1> QED BY <1>1, <1>4, <1>5 DEF Remotes, Texts

-----------------------------------------------------------------------------
(* The two scans.                                                          *)

\* A program that runs between two steps of a scan may disconnect the remote
\* that the scan stands on, so what is known of it depends on the step.
Scanned ==
  /\ rp \in Nodes \cup {Null} /\ next \in Nodes \cup {Null} /\ late \subseteq Nodes /\ rid \in 0..conns
  /\ fn \in {"check", "cycle"} => rp = Null \/ rp \in Range(ring)
  /\ Where = "hooked" => rp \in Range(ring) /\ next # rp /\ (next = Null \/ next \in Range(ring))
  /\ Where = "broken" => next = Null \/ next \in Range(ring)
  /\ Where = "processed" => rp \in Nodes /\ rid # 0
  /\ Where = "flushed" => rp \in Range(ring)

\* What select() said of a socket is about the remote that has it now.
Readable ==
  Where \in {"check", "hooked", "broken"} =>
    \A r \in Range(ring), f \in readers : f[1] = Rfd[r] => f = <<Rfd[r], id[r]>>

\* A step that is not about the remotes.
Steady ==
  /\ UNCHANGED <<remotes, scan>>
  /\ fn' \in {"check", "cycle"} => fn' = fn
  /\ Where' \in {"check", "hooked", "broken", "processed", "flushed"} => Where' = Where

LEMMA SteadySteps ==
  ASSUME Going,
         \/ Winch \/ Tstp \/ Break \/ AskConsole \/ Tick \/ ProgramEnd \/ Top \/ Stop \/ Stopped
         \/ Resize \/ Resized \/ Console \/ Quit \/ Timeout \/ Idle \/ Timer
         \/ (\E n \in Naps : Sleep(n)) \/ (\E i \in DOMAIN events : DelEstate(i)) \/ UNCHANGED vars
  PROVE  Steady
<1> USE DEF Steady, Where, Goes, Program
<1>1. CASE Winch \/ Tstp \/ Break \/ AskConsole
  BY <1>1 DEF Winch, Tstp, Break, AskConsole, Signal, Interrupts
<1>2. CASE ProgramEnd
  BY <1>2 DEF ProgramEnd, Going, Backs
<1>3. CASE Top \/ Stop \/ Stopped \/ Resize \/ Resized \/ Console \/ Quit
  BY <1>3 DEF Top, Stop, Stopped, Resize, Resized, Console, Quit
<1>4. CASE Timeout \/ Idle \/ Timer
  BY <1>4 DEF Timeout, Idle, Timer
<1>5. CASE Tick \/ (\E n \in Naps : Sleep(n)) \/ (\E i \in DOMAIN events : DelEstate(i))
  BY <1>5 DEF Tick, Sleep, DelEstate
<1>6. CASE UNCHANGED vars
  BY <1>6 DEF vars
<1> QED BY <1>1, <1>2, <1>3, <1>4, <1>5, <1>6

\* What a program does to the remotes while the loop waits for it.
LEMMA ProgramScanned ==
  ASSUME Remotes, Going, Scanned, "disconnect" \notin ClosingDoes, FlushAny = FALSE, NEW r \in Nodes,
         Disconnect(r) \/ Want(r) \/ \E fd \in 1..Cardinality(Nodes) : Connect(r, fd)
  PROVE  Remotes' /\ Scanned'
<1> USE DEF Closing
<1>1. fn = "program" /\ fn' = fn /\ back' = back /\ Where' = Where /\ Where = back
      /\ UNCHANGED <<rp, next, rid, readers>>
  BY DEF Disconnect, Want, Connect, Free, Where, scan
<1>2. CASE Want(r)
  <2>1. /\ UNCHANGED <<ring, free, dying, id, Rfd, Rbuf, conns>>
        /\ wanted' = [wanted EXCEPT ![r] = ~@] /\ (late' = late \/ late' = late \cup {r})
    BY <1>2 DEF Want
  <2>2. Range(ring') = Range(ring) /\ Range(dying') = Range(dying) /\ Range(free') = Range(free)
    BY <2>1
  <2>3. Rings' /\ Connections'
    BY <2>1, <2>2 DEF Remotes, Rings, Connections
  <2>4. Texts'
    BY <2>1 DEF Remotes, Texts
  <2>5. Scanned'
    BY <1>1, <2>1, <2>2 DEF Scanned
  <2> QED BY <2>3, <2>4, <2>5 DEF Remotes
<1>3. CASE Disconnect(r)
  <2>1. /\ Unlink(r) /\ r \in Range(ring) /\ ~Closing /\ late' \subseteq late
        /\ back = "flushed" => r # rp
    BY <1>3, LinkedIs DEF Disconnect
  <2>2. Remotes' /\ Range(ring') = Range(ring) \ {r} /\ conns' = conns
    BY <2>1, UnlinkKeeps
  <2>4. Scanned'
    BY <1>1, <2>1, <2>2 DEF Scanned
  <2> QED BY <2>2, <2>4
<1>4. ASSUME NEW fd \in 1..Cardinality(Nodes), Connect(r, fd) PROVE Remotes' /\ Scanned'
  <2>1. Remotes' /\ Range(ring') = Range(ring) \cup {r} /\ conns' = conns + 1
    BY <1>4, ConnectKeeps
  <2>2. late' = late
    BY <1>4 DEF Connect, scan
  <2>4. rid' \in 0..conns'
    BY <1>1, <2>1 DEF Scanned, Remotes, Connections
  <2>5. Scanned'
    BY <1>1, <2>1, <2>2, <2>4 DEF Scanned
  <2> QED BY <2>1, <2>5
<1> QED BY <1>2, <1>3, <1>4

\* Only while disconnect() works is anything unlinked and not discarded: between
\* two steps of the loop nothing is, but for the remote that io_check() closes.
Aside ==
  /\ fn \notin {"program", "broken"} => dying = <<>>
  /\ fn = "broken" => Len(dying) = 1

LEMMA NextAside ==
  ASSUME Remotes, Going, Aside, [Next]_vars
  PROVE  Aside'
<1>1. dying \in Seq(Nodes) /\ Len(dying) \in Nat /\ (Len(dying) = 0 => dying = <<>>)
  BY DEF Remotes, Rings
<1>2. CASE fn' = "program"
  BY <1>2 DEF Aside
<1>3. CASE UNCHANGED <<fn, dying>>
  BY <1>3 DEF Aside
<1>4. CASE UNCHANGED dying /\ fn \notin {"program", "broken"} /\ fn' # "broken"
  BY <1>4 DEF Aside
<1>5. CASE ProgramEnd
  <2>1. UNCHANGED dying /\ fn' = back /\ Own = 0
    BY <1>5 DEF ProgramEnd, Goes, remotes
  <2> QED BY <1>1, <2>1 DEF Aside, Own
<1>6. CASE Broken
  <2>1. fn' = "check" /\ dying' = Tail(dying) /\ Len(dying) = 1
    BY <1>6 DEF Broken, Discarded, Goes, Aside
  <2>2. dying' = <<>>
    BY <1>1, <2>1
  <2> QED BY <2>1, <2>2 DEF Aside
<1>7. CASE Winch \/ Tstp \/ Break \/ AskConsole \/ Tick
  BY <1>3, <1>4, <1>7 DEF Winch, Tstp, Break, AskConsole, Tick, Signal, Interrupts, Goes, remotes
<1>8. CASE Top \/ Stop \/ Stopped \/ Resize \/ Resized \/ Console \/ Quit
  BY <1>2, <1>4, <1>8 DEF Top, Stop, Stopped, Resize, Resized, Console, Quit, Goes, Program, remotes
<1>9. CASE Timeout \/ Idle \/ Receive \/ Closed \/ Skip \/ Checked \/ Ready
  BY <1>2, <1>4, <1>9 DEF Timeout, Idle, Receive, Closed, Skip, Checked, Ready, Goes, Program, remotes
<1>10. CASE Process \/ Processed \/ Flush \/ Flushed \/ Cycled \/ Timer
  BY <1>2, <1>4, <1>10 DEF Process, Processed, Flush, Flushed, Cycled, Timer, Goes, Program, remotes
<1>11. CASE Hooked \/ Disconnected \/ ProgramDoes
  BY <1>2, <1>11 DEF Hooked, Disconnected, ProgramDoes, Sleep, Disconnect, Want, Connect, Free, Program
<1>12. CASE \E i \in DOMAIN events : DelEstate(i)
  BY <1>3, <1>12 DEF DelEstate, remotes
<1>13. CASE \E files \in SUBSET Files : Select(files)
  BY <1>4, <1>13 DEF Select, Goes, remotes
<1>14. CASE UNCHANGED vars
  BY <1>3, <1>14 DEF vars, remotes
<1> QED BY <1>5, <1>6, <1>7, <1>8, <1>9, <1>10, <1>11, <1>12, <1>13, <1>14 DEF Next, Loop, Outside

\* So a structure that still has the id of its connection is in the ring again
\* when the program is over.
LEMMA LinkedAgain ==
  ASSUME Remotes, Aside, fn \notin {"program", "broken"}, NEW r \in Nodes, id[r] # 0
  PROVE  r \in Range(ring)
<1>1. Range(dying) = {}
  BY DEF Aside, Range
<1> QED BY <1>1 DEF Remotes, Rings, Connections

LEMMA NextScanned ==
  ASSUME Remotes, Going, Aside, Scanned, "disconnect" \notin ClosingDoes, FlushAny = FALSE,
         [Next]_vars
  PROVE  Remotes' /\ Scanned'
<1>1. Rings /\ Connections /\ Texts /\ Range(ring) \subseteq Nodes /\ conns \in Nat
  BY MainLoopAssumption DEF Remotes, Rings, Connections
<1>2. CASE Steady
  <2>1. Remotes' /\ Range(ring') = Range(ring) /\ conns' = conns
        /\ UNCHANGED <<rp, next, rid, late>>
    BY <1>2, RemotesStay DEF Steady, remotes, scan
  <2>2. /\ fn' \in {"check", "cycle"} => fn' = fn
        /\ Where' \in {"check", "hooked", "broken", "processed", "flushed"} => Where' = Where
    BY <1>2 DEF Steady
  <2> QED BY <2>1, <2>2 DEF Scanned
<1>3. CASE Receive
  <2>1. /\ fn = "check" /\ rp \in Range(ring) /\ rp' = After(rp) /\ fn' = fn /\ Where' = Where
        /\ UNCHANGED <<ring, free, dying, id, Rfd, wanted, conns>>
        /\ UNCHANGED <<next, rid, readers, late>>
        /\ Rbuf' = [Rbuf EXCEPT ![rp] = TRUE]
    BY <1>3 DEF Receive, Scanned, Where
  <2>2. Range(ring') = Range(ring) /\ Range(dying') = Range(dying) /\ Range(free') = Range(free)
    BY <2>1
  <2>3. Remotes'
    BY <1>1, <2>1, <2>2 DEF Remotes, Rings, Connections, Texts
  <2>4. rp' = Null \/ rp' \in Range(ring)
    BY <1>1, <2>1, AfterIs
  <2> QED BY <1>1, <2>1, <2>2, <2>3, <2>4 DEF Scanned, Where
<1>4. CASE Skip
  <2>1. /\ fn = "check" /\ rp \in Range(ring) /\ rp' = After(rp) /\ fn' = fn /\ Where' = Where
        /\ UNCHANGED remotes /\ UNCHANGED <<next, rid, readers, late>>
    BY <1>4 DEF Skip, Scanned, Where
  <2>2. Remotes' /\ Range(ring') = Range(ring) /\ id' = id /\ Rfd' = Rfd /\ conns' = conns
    BY <2>1, RemotesStay DEF remotes
  <2>3. rp' = Null \/ rp' \in Range(ring)
    BY <1>1, <2>1, AfterIs
  <2> QED BY <1>1, <2>1, <2>2, <2>3 DEF Scanned, Where
<1>5. CASE Closed
  <2>1. /\ fn = "check" /\ Where = "check" /\ rp \in Range(ring) /\ next' = After(rp)
        /\ fn' = "program" /\ Where' = "hooked"
        /\ UNCHANGED remotes /\ UNCHANGED <<rp, rid, readers, late>>
    BY <1>5 DEF Closed, Scanned, Where, Program
  <2>2. Remotes' /\ Range(ring') = Range(ring) /\ conns' = conns
    BY <2>1, RemotesStay DEF remotes
  <2>3. After(rp) # rp /\ (After(rp) = Null \/ After(rp) \in Range(ring))
    BY <1>1, <2>1, AfterIs, MainLoopAssumption
  <2> QED BY <1>1, <2>1, <2>2, <2>3 DEF Scanned
<1>6. CASE Hooked
  <2>1. /\ Where = "hooked" /\ fn' = "program" /\ Where' = "broken"
        /\ Unlink(rp) /\ UNCHANGED <<rp, next, rid, readers, late>>
    BY <1>6 DEF Hooked, Program, Where, scan
  <2>2. rp \in Range(ring) /\ next # rp /\ (next = Null \/ next \in Range(ring))
    BY <2>1 DEF Scanned
  <2>3. Remotes' /\ Range(ring') = Range(ring) \ {rp} /\ conns' = conns
    BY <2>1, <2>2, UnlinkKeeps
  <2>4. next = Null \/ next \in Range(ring')
    BY <2>2, <2>3
  <2> QED BY <1>1, <2>1, <2>3, <2>4 DEF Scanned
<1>16. CASE Broken
  <2>1. /\ Where = "broken" /\ fn' = "check" /\ Where' = "check"
        /\ Discarded /\ rp' = next /\ next' = Null /\ UNCHANGED <<rid, readers, late>>
    BY <1>16 DEF Broken, Goes, Where
  <2>2. Remotes' /\ Range(ring') = Range(ring) /\ conns' = conns
    BY <2>1, DiscardKeeps
  <2> QED BY <1>1, <2>1, <2>2 DEF Scanned
<1>17. CASE Disconnected
  <2>1. Discarded /\ fn' = fn /\ Where' = Where /\ UNCHANGED <<rp, next, rid, readers, late>>
    BY <1>17 DEF Disconnected, Where, scan
  <2>2. Remotes' /\ Range(ring') = Range(ring) /\ conns' = conns
    BY <2>1, DiscardKeeps
  <2> QED BY <1>1, <2>1, <2>2 DEF Scanned
<1>7. CASE Checked
  <2>1. fn' = "ready" /\ Where' = "ready" /\ UNCHANGED remotes /\ UNCHANGED <<rp, next, rid, late>>
    BY <1>7 DEF Checked, Goes, Where
  <2>2. Remotes' /\ conns' = conns
    BY <2>1, RemotesStay DEF remotes
  <2> QED BY <2>1, <2>2 DEF Scanned
<1>8. CASE Ready
  <2>1. /\ (fn' = "top" /\ Where' = "top" /\ rp' = rp) \/ (fn' = "cycle" /\ Where' = "cycle" /\ rp' = First)
        /\ UNCHANGED remotes /\ UNCHANGED <<next, rid, late>>
    BY <1>8 DEF Ready, Goes, Where
  <2>2. Remotes' /\ conns' = conns /\ Range(ring') = Range(ring)
    BY <2>1, RemotesStay DEF remotes
  <2>3. First = Null \/ First \in Range(ring)
    BY <1>1, FirstIs
  <2> QED BY <1>1, <2>1, <2>2, <2>3 DEF Scanned
<1>9. CASE Process
  <2>1. /\ fn = "cycle" /\ rp \in Range(ring) /\ rid' = id[rp] /\ fn' = "program" /\ Where' = "processed"
        /\ UNCHANGED remotes /\ UNCHANGED <<rp, next, readers, late>>
    BY <1>9 DEF Process, Program, Where, Scanned
  <2>2. Remotes' /\ conns' = conns
    BY <2>1, RemotesStay DEF remotes
  <2>3. id[rp] # 0 /\ id[rp] \in 0..conns
    BY <1>1, <2>1 DEF Rings, Connections
  <2> QED BY <1>1, <2>1, <2>2, <2>3 DEF Scanned
<1>10. CASE Processed
  <2>1. /\ fn = "processed" /\ Where = "processed" /\ fn' = "cycle" /\ Where' = "cycle" /\ rid' = 0
        /\ UNCHANGED <<ring, free, dying, id, Rfd, wanted, conns>> /\ UNCHANGED <<next, readers>>
    BY <1>10 DEF Processed, Goes, Where
  <2>2. /\ (id[rp] # rid /\ rp' = First /\ late' = {} /\ Rbuf' = Rbuf)
           \/ (id[rp] = rid /\ rp' = rp /\ late' = late
               /\ \E left \in BOOLEAN : Rbuf' = [Rbuf EXCEPT ![rp] = left])
    BY <1>10 DEF Processed, Rest
  <2>3. Range(ring') = Range(ring) /\ Range(dying') = Range(dying) /\ Range(free') = Range(free)
    BY <2>1
  <2>4. Remotes'
    <3>1. Texts'
      BY <1>1, <2>1, <2>2 DEF Texts
    <3>2. Rings' /\ Connections'
      BY <1>1, <2>1, <2>3 DEF Rings, Connections
    <3> QED BY <3>1, <3>2 DEF Remotes
  <2>5. rp' = Null \/ rp' \in Range(ring)
    <3>1. rp \in Nodes /\ rid # 0
      BY <2>1 DEF Scanned
    <3>2. id[rp] = rid => rp \in Range(ring)
      BY <2>1, <3>1, LinkedAgain
    <3> QED BY <1>1, <2>2, <3>2, FirstIs
  <2>6. late' \subseteq Nodes
    BY <2>2 DEF Scanned
  <2> QED BY <1>1, <2>1, <2>3, <2>4, <2>5, <2>6 DEF Scanned
<1>11. CASE Flush
  <2>1. /\ fn = "cycle" /\ rp \in Range(ring) /\ fn' # "cycle" /\ fn' # "check" /\ Where' = "flushed"
        /\ UNCHANGED remotes /\ UNCHANGED <<rp, next, rid, readers, late>>
    BY <1>11 DEF Flush, Program, Goes, Where, Scanned, scan
  <2>2. Remotes' /\ conns' = conns /\ Range(ring') = Range(ring)
    BY <2>1, RemotesStay DEF remotes
  <2> QED BY <2>1, <2>2 DEF Scanned
<1>12. CASE Flushed
  <2>1. /\ fn = "flushed" /\ Where = "flushed" /\ fn' = "cycle" /\ Where' = "cycle" /\ rp' = After(rp)
        /\ UNCHANGED remotes /\ UNCHANGED <<next, rid, readers, late>>
    BY <1>12 DEF Flushed, Goes, Where
  <2>2. Remotes' /\ conns' = conns /\ Range(ring') = Range(ring)
    BY <2>1, RemotesStay DEF remotes
  <2>3. rp' = Null \/ rp' \in Range(ring)
    BY <1>1, <2>1, AfterIs DEF Scanned
  <2> QED BY <1>1, <2>1, <2>2, <2>3 DEF Scanned
<1>13. CASE Cycled
  <2>1. /\ fn' \notin {"cycle", "check"} /\ Where' = "timer"
        /\ UNCHANGED remotes /\ UNCHANGED <<rp, next, rid, readers>> /\ late' = {}
    BY <1>13 DEF Cycled, Program, Goes, Where
  <2>2. Remotes' /\ conns' = conns
    BY <2>1, RemotesStay DEF remotes
  <2> QED BY <2>1, <2>2 DEF Scanned
<1>14. CASE \E r \in Nodes : Disconnect(r) \/ Want(r) \/ \E fd \in 1..Cardinality(Nodes) : Connect(r, fd)
  BY <1>14, ProgramScanned
<1>15. CASE \E files \in SUBSET Files : Select(files)
  <2>1. /\ fn' = "check" /\ Where' = "check" /\ rp' = First
        /\ UNCHANGED remotes /\ UNCHANGED <<next, rid, late>>
    BY <1>15 DEF Select, Goes, Where
  <2>2. Remotes' /\ conns' = conns /\ Range(ring') = Range(ring)
    BY <2>1, RemotesStay DEF remotes
  <2>3. First = Null \/ First \in Range(ring)
    BY <1>1, FirstIs
  <2> QED BY <1>1, <2>1, <2>2, <2>3 DEF Scanned
<1> QED BY <1>2, <1>3, <1>4, <1>5, <1>6, <1>7, <1>8, <1>9, <1>10, <1>11, <1>12, <1>13, <1>14, <1>15,
           <1>16, <1>17, SteadySteps DEF Next, Loop, Outside, ProgramDoes

LEMMA NextReadable ==
  ASSUME Remotes, Going, Scanned, Readable, ClosingDoes = {}, [Next]_vars
  PROVE  Readable'
<1>1. CASE Where' \notin {"check", "hooked", "broken"}
  BY <1>1 DEF Readable
<1>2. CASE Where \in {"check", "hooked", "broken"} /\ UNCHANGED <<ring, id, Rfd, readers>>
  <2>1. Range(ring') = Range(ring)
    BY <1>2
  <2> QED BY <1>2, <2>1 DEF Readable
<1>3. CASE Steady
  BY <1>1, <1>2, <1>3 DEF Steady, remotes, scan
<1>4. CASE Receive \/ Skip \/ Closed
  BY <1>2, <1>4 DEF Receive, Skip, Closed, Where, remotes
<1>5. CASE Hooked
  <2>1. Unlink(rp) /\ readers' = readers /\ Where = "hooked"
    BY <1>5 DEF Hooked, Where, scan
  <2>2. rp \in Range(ring)
    BY <2>1 DEF Scanned
  <2>3. /\ Range(ring') = Range(ring) \ {rp} /\ id' = id
        /\ \A s \in Range(ring') : Rfd'[s] = Rfd[s]
    BY <2>1, <2>2, UnlinkKeeps
  <2> QED BY <2>1, <2>3 DEF Readable
<1>9. CASE Broken \/ Disconnected
  <2>1. /\ Discarded /\ readers' = readers
        /\ Where' \in {"check", "hooked", "broken"} => Where \in {"check", "hooked", "broken"}
    BY <1>9 DEF Broken, Disconnected, Where, Goes, scan
  <2>2. /\ Range(ring') = Range(ring) /\ Rfd' = Rfd
        /\ \A s \in Range(ring) : id'[s] = id[s]
    BY <2>1, DiscardKeeps
  <2> QED BY <2>1, <2>2 DEF Readable
<1>6. CASE Checked \/ Ready \/ Process \/ Processed \/ Flush \/ Flushed \/ Cycled
  BY <1>1, <1>6 DEF Checked, Ready, Process, Processed, Flush, Flushed, Cycled, Where, Goes, Program
<1>7. ASSUME NEW r \in Nodes,
             Disconnect(r) \/ Want(r) \/ \E fd \in 1..Cardinality(Nodes) : Connect(r, fd)
      PROVE  Readable'
  <2>1. Where' = Where /\ Where = back /\ back \in Backs
    BY <1>7 DEF Disconnect, Want, Connect, Free, Where, Going
  <2>2. CASE Want(r)
    BY <1>1, <1>2, <2>1, <2>2 DEF Want
  <2>3. CASE ~Want(r)
    BY <1>1, <1>7, <2>1, <2>3 DEF Disconnect, Connect, Closing, Backs
  <2> QED BY <2>2, <2>3
<1>8. ASSUME NEW files \in SUBSET Files, Select(files) PROVE Readable'
  <2>1. readers' = files /\ Range(ring') = Range(ring) /\ Rfd' = Rfd /\ id' = id
    BY <1>8 DEF Select, remotes
  <2>2. ASSUME NEW r \in Range(ring), NEW f \in files, f[1] = Rfd[r] PROVE f = <<Rfd[r], id[r]>>
    <3>1. Rfd[r] # 0 /\ \A s \in Range(ring) : r # s => Rfd[r] # Rfd[s]
      BY DEF Remotes, Connections
    <3>2. f = <<0, 0>> \/ \E s \in Range(ring) : f = <<Rfd[s], id[s]>>
      BY DEF Files, ToSet, Range
    <3>3. f # <<0, 0>>
      BY <2>2, <3>1
    <3>4. PICK s \in Range(ring) : f = <<Rfd[s], id[s]>>
      BY <3>2, <3>3
    <3>5. Rfd[s] = Rfd[r]
      BY <2>2, <3>4
    <3> QED BY <3>1, <3>4, <3>5
  <2> QED BY <2>1, <2>2 DEF Readable
<1> QED BY <1>3, <1>4, <1>5, <1>6, <1>7, <1>8, <1>9, SteadySteps DEF Next, Loop, Outside, ProgramDoes

\* The queue, the flags and the steps, and what is known of the ring.
LEMMA TypesKnown ==
  ASSUME Queue, Flags, Going, Remotes, Scanned
  PROVE  TypeOK
<1>1. \A r : Linked(r) <=> r \in Range(ring)
  BY LinkedIs
<1>2. ToSet(ring) = Range(ring) /\ ToSet(dying) = Range(dying) /\ ToSet(free) = Range(free)
  BY DEF ToSet, Range
<1>3. {break_pending, stop_pending, winresize_pending, console_pending, outdated,
       kin, curs} \subseteq BOOLEAN
  BY DEF Flags
<1>4. /\ \A i \in DOMAIN events : events[i].nr \in 1..slept /\ events[i].timer <= MaxTime
      /\ now \in 0..MaxTime /\ slept \in 0..MaxSlept
  BY DEF Queue
<1>5. /\ IsInjective(ring) /\ IsInjective(dying) /\ IsInjective(free)
      /\ Nodes = ToSet(ring) \cup ToSet(dying) \cup ToSet(free)
      /\ ToSet(ring) \cap ToSet(dying) = {} /\ ToSet(free) \cap (ToSet(ring) \cup ToSet(dying)) = {}
  BY <1>2 DEF Remotes, Rings
<1>6. /\ \A r \in Nodes : id[r] = 0 <=> r \in ToSet(free)
      /\ \A r, s \in ToSet(ring) : r # s => Rfd[r] # Rfd[s]
      /\ conns \in 0..MaxConns
  BY <1>1, <1>2 DEF Remotes, Connections
<1>7. wanted \in [Nodes -> BOOLEAN] /\ Rbuf \in [Nodes -> BOOLEAN]
  BY DEF Remotes, Texts
<1>8. /\ fn \in Steps /\ back \in Steps \cup {"none"}
      /\ rp \in Nodes \cup {Null} /\ next \in Nodes \cup {Null} /\ late \subseteq Nodes
  BY DEF Going, Backs, Steps, Scanned
<1> QED BY <1>3, <1>4, <1>5, <1>6, <1>7, <1>8 DEF TypeOK

Invariant == Queue /\ Flags /\ Going /\ Remotes /\ Aside /\ Scanned

LEMMA InvariantKept ==
  ASSUME "disconnect" \notin ClosingDoes, FlushAny = FALSE
  PROVE  (Init => Invariant) /\ (Invariant /\ [Next]_vars => Invariant')
<1>1. ASSUME Init PROVE Flags /\ Going /\ Aside /\ Scanned
  <2>1. Flags /\ Going
    BY <1>1 DEF Init, Flags, Going, Steps, Backs
  <2>2. Scanned
    BY <1>1 DEF Init, Scanned, Where
  <2>3. Aside
    BY <1>1 DEF Init, Aside
  <2> QED BY <2>1, <2>2, <2>3
<1> QED BY <1>1, NextAside, InitQueue, InitRemotes, NextQueue, NextFlags, NextGoing, NextScanned DEF Invariant

\* Neither io_check() nor io_cycle() stands on a structure that is discarded.
ScansOnRing == TypeOK /\ (fn \in {"check", "cycle"} => rp = Null \/ Linked(rp))

\* This holds wherever programs connect and disconnect remotes, also the one
\* whose text they have just got, as long as the programs that disconnect() runs
\* for io_check(), a hook and those that wait for the remote, disconnect no other
\* remote, and the program that takes a prompt leaves its remote alone.
THEOREM ScansStayOnRing ==
  ASSUME "disconnect" \notin ClosingDoes, FlushAny = FALSE
  PROVE  Spec => []ScansOnRing
<1>1. Invariant => ScansOnRing
  BY TypesKnown, LinkedIs DEF Invariant, Scanned, ScansOnRing
<1> QED BY <1>1, InvariantKept, PTL DEF Spec

\* When those programs connect nothing either, what is read is what select()
\* found.
THEOREM ScansKnown ==
  ASSUME ClosingDoes = {}, FlushAny = FALSE
  PROVE  Spec => []ScanKnown
<1>1. Init => Readable
  BY DEF Init, Readable, Where
<1>2. Invariant /\ Readable /\ [Next]_vars => Readable'
  BY NextReadable DEF Invariant
<1>3. "disconnect" \notin ClosingDoes
  OBVIOUS
<1>4. ASSUME Invariant, Readable PROVE ScanKnown
  <2>1. ASSUME fn \in {"check", "cycle"}, rp # Null
        PROVE  Linked(rp) /\ (fn = "check" /\ Looks(rp) => <<Rfd[rp], id[rp]>> \in readers)
    <3>1. rp \in Range(ring)
      BY <1>4, <2>1 DEF Invariant, Scanned
    <3>2. fn = "check" => \A f \in readers : f[1] = Rfd[rp] => f = <<Rfd[rp], id[rp]>>
      BY <1>4, <3>1 DEF Readable, Where
    <3> QED BY LinkedIs, <3>1, <3>2 DEF Looks
  <2> QED BY <1>4, <2>1, TypesKnown DEF ScanKnown, Invariant
<1> QED BY <1>1, <1>2, <1>3, <1>4, InvariantKept, PTL DEF Spec

-----------------------------------------------------------------------------
(* Nothing is skipped.                                                     *)

\* What is before the remote that io_cycle() looks at has no text that anybody
\* wants; what programs have done about it since is in late.
Done(r) == Rbuf[r] /\ wanted[r] => r \in late

Served ==
  /\ fn = "cycle" => \A r \in Range(ring) : rp = Null \/ Place(r) < Place(rp) => Done(r)
  /\ Where = "processed" /\ rp \in Range(ring) /\ id[rp] = rid =>
       \A r \in Range(ring) : Place(r) < Place(rp) => Done(r)
  /\ Where = "flushed" => \A r \in Range(ring) : Place(r) <= Place(rp) => Done(r)

LEMMA ProgramServed ==
  ASSUME Remotes, Going, Scanned, Served, FlushAny = FALSE, NEW r \in Nodes,
         Disconnect(r) \/ Want(r) \/ \E fd \in 1..Cardinality(Nodes) : Connect(r, fd)
  PROVE  Served'
<1>1. fn = "program" /\ fn' = fn /\ back' = back /\ Where' = Where /\ Where = back
      /\ UNCHANGED <<rp, rid>>
  BY DEF Disconnect, Want, Connect, Free, Where, scan
<1>2. Rings /\ Range(ring) \subseteq Nodes /\ Len(ring) \in Nat
      /\ \A s \in Range(ring) : Place(s) \in 1..Len(ring) /\ ring[Place(s)] = s
  BY PlaceIs DEF Remotes, Rings
<1>3. CASE Want(r)
  <2>1. /\ UNCHANGED <<ring, id, Rbuf>> /\ Linked(r)
        /\ wanted' = [wanted EXCEPT ![r] = ~@]
        /\ late' = IF back \in {"processed", "flushed"} /\ Passed(r) THEN late \cup {r} ELSE late
    BY <1>3 DEF Want
  <2>2. Range(ring') = Range(ring) /\ \A s \in Range(ring) : Place(s)' = Place(s)
    BY <2>1 DEF Place
  <2>3. \A s \in Nodes \ {r} : Done(s) => Done(s)'
    BY <2>1 DEF Done, Remotes, Texts
  <2>4. back \in {"processed", "flushed"} /\ Passed(r) => Done(r)'
    BY <2>1 DEF Done
  <2>5. ASSUME Where = "processed", rp \in Range(ring), id[rp] = rid, NEW s \in Range(ring),
               Place(s) < Place(rp)
        PROVE  Done(s)'
    <3>1. Done(s) /\ rp \in Range(ring)
      BY <2>5 DEF Served
    <3>2. s = r => Passed(r)
      BY <2>5, <3>1, LinkedIs DEF Passed
    <3> QED BY <1>1, <1>2, <2>3, <2>4, <2>5, <3>1, <3>2
  <2>6. ASSUME Where = "flushed", NEW s \in Range(ring), Place(s) <= Place(rp)
        PROVE  Done(s)'
    <3>1. Done(s) /\ rp \in Range(ring)
      BY <2>6 DEF Served, Scanned
    <3>2. s = r => Passed(r)
      <4>1. Place(s) < Place(rp) \/ Place(s) = Place(rp)
        BY <1>2, <2>6, <3>1
      <4>2. Place(s) = Place(rp) => s = rp
        BY <1>2, <3>1
      <4> QED BY <1>1, <2>6, <3>1, <4>1, <4>2, LinkedIs DEF Passed
    <3> QED BY <1>1, <1>2, <2>3, <2>4, <2>6, <3>1, <3>2
  <2>7. Place(rp)' = Place(rp) /\ id'[rp'] = id[rp]
    BY <1>1, <2>1 DEF Place
  <2> QED BY <1>1, <2>2, <2>5, <2>6, <2>7 DEF Served
<1>4. CASE Disconnect(r)
  <2>1. /\ Unlink(r) /\ r \in Range(ring) /\ late' = late \ {r} /\ (back = "flushed" => r # rp)
    BY <1>4, LinkedIs DEF Disconnect
  <2>2. /\ Range(ring') = Range(ring) \ {r} /\ id' = id
        /\ \A s \in Range(ring') :
             /\ Place(s)' = IF Place(s) < Place(r) THEN Place(s) ELSE Place(s) - 1
             /\ wanted'[s] = wanted[s] /\ Rbuf'[s] = Rbuf[s]
    BY <2>1, UnlinkKeeps
  <2>3. \A s \in Range(ring') : Done(s) => Done(s)'
    BY <2>1, <2>2 DEF Done
  <2>4. ASSUME NEW s \in Range(ring'), NEW q \in Range(ring')
        PROVE  (Place(s)' < Place(q)' => Place(s) < Place(q)) /\ (Place(s)' <= Place(q)' => Place(s) <= Place(q))
    <3>1. /\ Place(s) \in Nat /\ Place(q) \in Nat /\ Place(r) \in Nat
          /\ Place(s) # Place(r) /\ Place(q) # Place(r)
      BY <1>2, <2>1, <2>2
    <3>2. /\ Place(s)' = IF Place(s) < Place(r) THEN Place(s) ELSE Place(s) - 1
          /\ Place(q)' = IF Place(q) < Place(r) THEN Place(q) ELSE Place(q) - 1
      BY <2>2
    <3> QED BY <3>1, <3>2
  <2>5. ASSUME Where = "processed", rp \in Range(ring'), id[rp] = rid, NEW s \in Range(ring'),
               Place(s)' < Place(rp)'
        PROVE  Done(s)'
    <3>1. Place(s) < Place(rp)
      BY <2>4, <2>5, <1>1
    <3> QED BY <2>2, <2>3, <2>5, <3>1 DEF Served
  <2>6. ASSUME Where = "flushed", NEW s \in Range(ring'), Place(s)' <= Place(rp)'
        PROVE  Done(s)'
    <3>1. rp \in Range(ring')
      BY <1>1, <2>1, <2>2, <2>6 DEF Scanned
    <3>2. Place(s) <= Place(rp)
      BY <1>1, <2>4, <2>6, <3>1
    <3> QED BY <2>2, <2>3, <2>6, <3>2 DEF Served
  <2> QED BY <1>1, <2>2, <2>5, <2>6 DEF Served
<1>5. ASSUME NEW fd \in 1..Cardinality(Nodes), Connect(r, fd) PROVE Served'
  <2>1. /\ Range(ring') = Range(ring) \cup {r} /\ r \notin Range(ring)
        /\ conns' = conns + 1 /\ id'[r] = conns' /\ wanted'[r] = FALSE
        /\ \A s \in Range(ring) : Place(s)' = Place(s)
        /\ \A s \in Nodes \ {r} : id'[s] = id[s] /\ wanted'[s] = wanted[s] /\ Rbuf'[s] = Rbuf[s]
    BY <1>5, ConnectKeeps
  <2>2. late' = late
    BY <1>5 DEF Connect, scan
  <2>3. Done(r)' /\ \A s \in Range(ring) : Done(s) => Done(s)'
    BY <1>2, <2>1, <2>2 DEF Done
  <2>4. ASSUME Where = "processed", rp \in Range(ring'), id'[rp] = rid, NEW s \in Range(ring),
               Place(s)' < Place(rp)'
        PROVE  Done(s)'
    <3>1. rid # 0 /\ rid \in 0..conns /\ conns \in Nat
      BY <2>4, MainLoopAssumption DEF Scanned, Remotes, Connections
    <3>2. rp # r
      BY <2>1, <2>4, <3>1
    <3>3. rp \in Range(ring) /\ id[rp] = rid
      BY <1>2, <2>1, <2>4, <3>2
    <3>4. Place(s) < Place(rp)
      BY <1>1, <2>1, <2>4, <3>3
    <3> QED BY <2>3, <2>4, <3>3, <3>4 DEF Served
  <2>5. ASSUME Where = "flushed", NEW s \in Range(ring), Place(s)' <= Place(rp)'
        PROVE  Done(s)'
    <3>1. rp \in Range(ring)
      BY <2>5 DEF Scanned
    <3>2. Place(s) <= Place(rp)
      BY <1>1, <2>1, <2>5, <3>1
    <3> QED BY <2>3, <2>5, <3>2 DEF Served
  <2> QED BY <1>1, <2>1, <2>3, <2>4, <2>5 DEF Served
<1> QED BY <1>3, <1>4, <1>5

LEMMA NextServed ==
  ASSUME Remotes, Going, Aside, Scanned, Served, FlushAny = FALSE, [Next]_vars
  PROVE  Served'
<1>1. /\ Rings /\ Range(ring) \subseteq Nodes /\ Len(ring) \in Nat
      /\ \A s \in Range(ring) : Place(s) \in 1..Len(ring) /\ ring[Place(s)] = s
      /\ Null \notin Nodes
  BY PlaceIs, MainLoopAssumption DEF Remotes, Rings
<1>2. CASE fn' # "cycle" /\ Where' \notin {"processed", "flushed"}
  BY <1>2 DEF Served
<1>3. CASE Steady
  <2>1. UNCHANGED <<ring, id, wanted, Rbuf, rp, rid, late>>
    BY <1>3 DEF Steady, remotes, scan
  <2>2. Range(ring') = Range(ring) /\ \A s : Place(s)' = Place(s) /\ Done(s)' = Done(s)
    BY <2>1 DEF Place, Done
  <2>3. Place(rp)' = Place(rp)
    BY <2>1 DEF Place
  <2>4. (fn' = "cycle" => fn = "cycle") /\ (Where' \in {"processed", "flushed"} => Where' = Where)
    BY <1>3 DEF Steady
  <2> QED BY <2>1, <2>2, <2>3, <2>4 DEF Served
<1>4. CASE Receive \/ Skip \/ Closed \/ Hooked \/ Broken \/ Checked
  BY <1>2, <1>4 DEF Receive, Skip, Closed, Hooked, Broken, Checked, Where, Goes, Program
<1>5. CASE Ready
  <2>1. CASE fn' = "top" /\ Where' = "top"
    BY <1>2, <2>1
  <2>2. CASE fn' = "cycle" /\ rp' = First
    <3>1. UNCHANGED <<ring, id, wanted, Rbuf>> /\ Where' = "cycle"
      BY <1>5, <2>2 DEF Ready, remotes, Where
    <3>2. ASSUME NEW s \in Range(ring) PROVE ~(rp' = Null) /\ ~(Place(s)' < Place(rp)')
      <4>1. First \in Range(ring) /\ Place(First) = 1
        BY <1>1, <3>2, FirstIs
      <4>2. Place(s)' = Place(s) /\ Place(rp)' = Place(First)
        BY <2>2, <3>1 DEF Place
      <4> QED BY <1>1, <2>2, <4>1, <4>2
    <3>3. Range(ring') = Range(ring)
      BY <3>1
    <3> QED BY <3>1, <3>2, <3>3 DEF Served
  <2> QED BY <1>5, <2>1, <2>2 DEF Ready, Goes, Where
<1>6. CASE Process
  <2>1. /\ fn = "cycle" /\ fn' = "program" /\ Where' = "processed" /\ rp' = rp
        /\ UNCHANGED <<ring, wanted, Rbuf, late>>
    BY <1>6 DEF Process, Program, Where, remotes
  <2>2. Range(ring') = Range(ring) /\ \A s : Place(s)' = Place(s) /\ Done(s)' = Done(s)
    BY <2>1 DEF Place, Done
  <2>3. Place(rp)' = Place(rp)
    BY <2>1 DEF Place
  <2> QED BY <2>1, <2>2, <2>3 DEF Served
<1>7. CASE Processed
  <2>1. /\ Where = "processed" /\ fn' = "cycle" /\ Where' = "cycle" /\ UNCHANGED <<ring, id, wanted>>
    BY <1>7 DEF Processed, Goes, Where
  <2>2. Range(ring') = Range(ring)
    BY <2>1
  <2>3. CASE id[rp] # rid
    <3>1. rp' = First
      BY <1>7, <2>3 DEF Processed
    <3>2. ASSUME NEW s \in Range(ring) PROVE ~(rp' = Null) /\ ~(Place(s)' < Place(rp)')
      <4>1. First \in Range(ring) /\ Place(First) = 1
        BY <1>1, <3>2, FirstIs
      <4>2. Place(s)' = Place(s) /\ Place(rp)' = Place(First)
        BY <2>1, <3>1 DEF Place
      <4> QED BY <1>1, <3>1, <4>1, <4>2
    <3> QED BY <2>1, <2>2, <3>2 DEF Served
  <2>4. CASE id[rp] = rid
    <3>1. rp' = rp /\ late' = late /\ \E left \in BOOLEAN : Rbuf' = [Rbuf EXCEPT ![rp] = left]
      BY <1>7, <2>4 DEF Processed, Rest
    <3>2. rp \in Range(ring)
      <4>1. rp \in Nodes /\ id[rp] # 0 /\ fn = "processed"
        BY <1>7, <2>1, <2>4 DEF Scanned, Processed
      <4> QED BY <4>1, LinkedAgain
    <3>3. Place(rp)' = Place(rp) /\ \A s : Place(s)' = Place(s)
      BY <2>1, <3>1 DEF Place
    <3>4. ASSUME NEW s \in Range(ring), Place(s) < Place(rp) PROVE Done(s)'
      <4>1. Done(s)
        BY <2>1, <2>4, <3>2, <3>4 DEF Served
      <4>2. s # rp /\ s \in Nodes
        BY <1>1, <3>2, <3>4
      <4>3. Rbuf'[s] = Rbuf[s]
        BY <3>1, <4>2 DEF Remotes, Texts
      <4> QED BY <2>1, <3>1, <4>1, <4>3 DEF Done
    <3>5. rp' # Null
      BY <1>1, <3>1, <3>2
    <3> QED BY <2>1, <2>2, <3>1, <3>3, <3>4, <3>5 DEF Served
  <2> QED BY <2>3, <2>4
<1>8. CASE Flush
  <2>1. /\ fn = "cycle" /\ rp # Null /\ ~(Rbuf[rp] /\ wanted[rp]) /\ fn' # "cycle" /\ Where' = "flushed"
        /\ UNCHANGED <<ring, wanted, Rbuf, late, rp>>
    BY <1>8 DEF Flush, Program, Goes, Where, remotes, scan
  <2>2. rp \in Range(ring) /\ Done(rp)
    BY <2>1 DEF Scanned, Done
  <2>3. Range(ring') = Range(ring) /\ \A s : Place(s)' = Place(s) /\ Done(s)' = Done(s)
    BY <2>1 DEF Place, Done
  <2>4. Place(rp)' = Place(rp)
    BY <2>1 DEF Place
  <2>5. ASSUME NEW s \in Range(ring), Place(s) <= Place(rp) PROVE Done(s)
    <3>1. CASE Place(s) < Place(rp)
      BY <2>1, <3>1 DEF Served
    <3>2. CASE Place(s) = Place(rp)
      <4>1. s = rp
        BY <1>1, <2>2, <3>2
      <4> QED BY <2>2, <4>1
    <3> QED BY <1>1, <2>2, <2>5, <3>1, <3>2
  <2> QED BY <2>1, <2>3, <2>4, <2>5 DEF Served
<1>9. CASE Flushed
  <2>1. /\ Where = "flushed" /\ fn' = "cycle" /\ Where' = "cycle" /\ rp' = After(rp)
        /\ UNCHANGED <<ring, wanted, Rbuf, late>>
    BY <1>9 DEF Flushed, Goes, Where, remotes
  <2>2. rp \in Range(ring)
    BY <2>1 DEF Scanned
  <2>3. Range(ring') = Range(ring) /\ \A s : Place(s)' = Place(s) /\ Done(s)' = Done(s)
    BY <2>1 DEF Place, Done
  <2>4. Place(rp)' = Place(After(rp))
    BY <2>1 DEF Place
  <2>5. ASSUME NEW s \in Range(ring), rp' = Null \/ Place(s)' < Place(rp)' PROVE Done(s)'
    <3>1. Place(s) <= Place(rp)
      <4>1. \/ After(rp) = Null /\ Place(rp) = Len(ring)
            \/ After(rp) # Null /\ Place(After(rp)) = Place(rp) + 1
        BY <1>1, <2>2, AfterIs
      <4>2. Place(s)' = Place(s) /\ Place(s) \in 1..Len(ring) /\ Place(rp) \in 1..Len(ring)
        BY <1>1, <2>2, <2>3
      <4> QED BY <1>1, <2>1, <2>4, <2>5, <4>1, <4>2
    <3> QED BY <2>1, <2>3, <3>1 DEF Served
  <2> QED BY <2>1, <2>3, <2>5 DEF Served
<1>10. CASE Cycled
  BY <1>2, <1>10 DEF Cycled, Goes, Program, Where
<1>11. CASE \E r \in Nodes : Disconnect(r) \/ Want(r) \/ \E fd \in 1..Cardinality(Nodes) : Connect(r, fd)
  BY <1>11, ProgramServed
<1>12. CASE \E files \in SUBSET Files : Select(files)
  BY <1>2, <1>12 DEF Select, Goes, Where
<1>13. CASE Disconnected
  <2>1. Discarded /\ UNCHANGED <<fn, back, rp, rid, late>> /\ fn = "program"
    BY <1>13 DEF Disconnected, scan
  <2>2. /\ UNCHANGED <<ring, wanted, Rbuf>> /\ \A s : Place(s)' = Place(s)
        /\ \A s \in Range(ring) : id'[s] = id[s]
    BY <2>1, DiscardKeeps
  <2>3. Range(ring') = Range(ring) /\ Where' = Where /\ \A s : Done(s)' = Done(s)
    BY <2>1, <2>2 DEF Where, Done
  <2>4. Place(rp)' = Place(rp)
    BY <2>1, <2>2 DEF Place
  <2> QED BY <2>1, <2>2, <2>3, <2>4 DEF Served
<1> QED BY <1>3, <1>4, <1>5, <1>6, <1>7, <1>8, <1>9, <1>10, <1>11, <1>12, <1>13, SteadySteps
        DEF Next, Loop, Outside, ProgramDoes

\* When a cycle is over, no text waits that anybody has wanted since the scan
\* looked at it, whatever programs did to the remotes on both sides of the scan,
\* under the same two conditions as ScansStayOnRing.
THEOREM NobodySkipped ==
  ASSUME "disconnect" \notin ClosingDoes, FlushAny = FALSE
  PROVE  Spec => []NoneSkipped
<1>1. Init => Served
  BY DEF Init, Served, Where
<1>2. Invariant /\ Served /\ [Next]_vars => Served'
  BY NextServed DEF Invariant
<1>3. Served => NoneSkipped
  BY DEF Served, NoneSkipped, Done, ToSet, Range
<1> QED BY <1>1, <1>2, <1>3, InvariantKept, PTL DEF Spec
=============================================================================

---------------------------- MODULE ScreenProofs ----------------------------
(***************************************************************************)
(* Proofs about Screen.  The layout is one formula of the ring and of the  *)
(* rows of the windows, so that the lemmas about it serve the state before *)
(* a step and the state after it.                                          *)
(***************************************************************************)
EXTENDS Screen, SeqLemmas

-----------------------------------------------------------------------------
(* The layout.                                                             *)

\* The windows of s, from the top of the screen, two rows each at least and one
\* row between them.
Placed(s, top, bot) ==
  /\ s \in Seq(Wins) /\ Len(s) > 0 /\ IsInjective(s)
  /\ top \in [Wins -> Nat] /\ bot \in [Wins -> Nat]
  /\ top[s[1]] = 0
  /\ \A i \in 1..Len(s) : bot[s[i]] >= top[s[i]] + 1
  /\ \A i \in 2..Len(s) : top[s[i]] = bot[s[i - 1]] + 2

LEMMA PlacedTypes ==
  ASSUME NEW s, NEW top, NEW bot, Placed(s, top, bot)
  PROVE  /\ Len(s) \in Nat /\ Len(s) > 0 /\ DOMAIN s = 1..Len(s)
         /\ \A i \in 1..Len(s) : s[i] \in Wins
         /\ \A i \in 1..Len(s) : top[s[i]] \in Nat /\ bot[s[i]] \in Nat
         /\ \A i, j \in 1..Len(s) : s[i] = s[j] => i = j
<1>1. s \in Seq(Wins) /\ Len(s) > 0 /\ IsInjective(s)
      /\ top \in [Wins -> Nat] /\ bot \in [Wins -> Nat]
  BY DEF Placed
<1>2. Len(s) \in Nat /\ DOMAIN s = 1..Len(s) /\ \A i \in 1..Len(s) : s[i] \in Wins
  BY <1>1
<1>3. \A i \in 1..Len(s) : top[s[i]] \in Nat /\ bot[s[i]] \in Nat
  BY <1>1, <1>2
<1> QED BY <1>1, <1>2, <1>3 DEF IsInjective

\* What is above another window in the ring is above it on the screen.
LEMMA Above ==
  ASSUME NEW s, NEW top, NEW bot, Placed(s, top, bot)
  PROVE  \A j \in 1..Len(s) : \A i \in 1..(j - 1) : bot[s[i]] + 2 <= top[s[j]]
<1> DEFINE n == Len(s)
           T == {j \in 0..n : \A i \in 1..(j - 1) : bot[s[i]] + 2 <= top[s[j]]}
<1>1. n \in Nat /\ \A i \in 1..n : top[s[i]] \in Nat /\ bot[s[i]] \in Nat
  BY PlacedTypes
<1>2. /\ \A i \in 1..n : bot[s[i]] >= top[s[i]] + 1
      /\ \A i \in 2..n : top[s[i]] = bot[s[i - 1]] + 2
  BY DEF Placed
<1> HIDE DEF n
<1>3. 0 \in T
  BY <1>1
<1>4. ASSUME NEW j \in 1..n, j - 1 \in T
      PROVE  j \in T
  <2> SUFFICES ASSUME NEW i \in 1..(j - 1) PROVE bot[s[i]] + 2 <= top[s[j]]
    BY <1>1
  <2>1. j \in Int /\ i \in Int /\ j <= n /\ 1 <= i /\ i <= j - 1
    BY <1>1
  <2>2. j \in 2..n /\ j - 1 \in 1..n /\ i \in 1..n
    BY ONLY <1>1, <2>1
  <2>3. top[s[j]] = bot[s[j - 1]] + 2 /\ bot[s[j - 1]] >= top[s[j - 1]] + 1
    BY <1>2, <2>2
  <2>4. /\ top[s[j]] \in Nat /\ bot[s[j - 1]] \in Nat /\ top[s[j - 1]] \in Nat
        /\ bot[s[i]] \in Nat
    BY <1>1, <2>2
  <2>5. CASE i = j - 1
    BY <2>3, <2>4, <2>5
  <2>6. CASE i < j - 1
    <3>1. i \in 1..((j - 1) - 1)
      BY ONLY <2>1, <2>6
    <3>2. bot[s[i]] + 2 <= top[s[j - 1]]
      BY <1>4, <3>1
    <3> QED BY <2>3, <2>4, <3>2
  <2> QED BY <2>1, <2>5, <2>6
<1>5. \A j \in 0..n : j \in T
  <2> HIDE DEF T
  <2> QED BY <1>1, <1>3, <1>4, Upward
<1> QED BY <1>1, <1>5 DEF n

\* Rows of different windows are different, dividers included, and all are above
\* the input window.
LEMMA Apart ==
  ASSUME NEW s, NEW top, NEW bot, Placed(s, top, bot), NEW i \in 1..Len(s), NEW j \in 1..Len(s)
  PROVE  /\ i < j => bot[s[i]] + 2 <= top[s[j]]
         /\ bot[s[i]] <= bot[s[Len(s)]]
<1>1. /\ Len(s) \in Nat /\ Len(s) > 0
      /\ \A k \in 1..Len(s) : top[s[k]] \in Nat /\ bot[s[k]] \in Nat
  BY PlacedTypes
<1>2. \A k \in 1..Len(s) : bot[s[k]] >= top[s[k]] + 1
  BY DEF Placed
<1>3. ASSUME NEW k \in 1..Len(s), i < k
      PROVE  bot[s[i]] + 2 <= top[s[k]]
  <2>1. i \in 1..(k - 1)
    BY <1>1, <1>3
  <2> QED BY <2>1, Above
<1>4. Len(s) \in 1..Len(s)
  BY <1>1
<1>5. bot[s[i]] <= bot[s[Len(s)]]
  <2>1. CASE i = Len(s)
    BY <1>1, <2>1
  <2>2. CASE i < Len(s)
    <3>1. bot[s[i]] + 2 <= top[s[Len(s)]] /\ bot[s[Len(s)]] >= top[s[Len(s)]] + 1
      BY <1>2, <1>3, <1>4, <2>2
    <3> QED BY <1>1, <1>4, <3>1
  <2> QED BY <1>1, <2>1, <2>2
<1> QED BY <1>3, <1>5

\* Where a window is in the ring.
LEMMA AtIs ==
  ASSUME NEW s, NEW top, NEW bot, Placed(s, top, bot), ring = s, NEW w \in Shown
  PROVE  At(w) \in 1..Len(s) /\ s[At(w)] = w
BY PlacedTypes DEF Shown, At

\* split_window(): new comes above w.
LEMMA SplitPlaced ==
  ASSUME NEW s, NEW top, NEW bot, Placed(s, top, bot), NEW p \in 1..Len(s),
         NEW new \in Wins, new \notin Range(s),
         NEW loc \in (top[s[p]] + 2)..(bot[s[p]] - 2)
  PROVE  /\ Placed(InsertAt(s, p, new), [top EXCEPT ![new] = top[s[p]], ![s[p]] = loc + 1],
                   [bot EXCEPT ![new] = loc - 1])
         /\ Range(InsertAt(s, p, new)) = Range(s) \cup {new}
<1> DEFINE u == InsertAt(s, p, new)
           w == s[p]
           tu == [top EXCEPT ![new] = top[w], ![w] = loc + 1]
           bu == [bot EXCEPT ![new] = loc - 1]
           n == Len(s)
<1>1. /\ n \in Nat /\ n > 0 /\ DOMAIN s = 1..n /\ \A i \in 1..n : s[i] \in Wins
      /\ \A i \in 1..n : top[s[i]] \in Nat /\ bot[s[i]] \in Nat
      /\ \A i, j \in 1..n : s[i] = s[j] => i = j
  BY PlacedTypes
<1>2. /\ s \in Seq(Wins) /\ IsInjective(s)
      /\ top \in [Wins -> Nat] /\ bot \in [Wins -> Nat]
      /\ top[s[1]] = 0
      /\ \A i \in 1..n : bot[s[i]] >= top[s[i]] + 1
      /\ \A i \in 2..n : top[s[i]] = bot[s[i - 1]] + 2
  BY DEF Placed
<1>3. p \in 1..(n + 1)
  BY <1>1
<1>4. /\ u \in Seq(Wins) /\ Len(u) = n + 1 /\ IsInjective(u) /\ Range(u) = Range(s) \cup {new}
      /\ \A j \in 1..(n + 1) : u[j] = IF j < p THEN s[j] ELSE IF j = p THEN new ELSE s[j - 1]
  <2>1. /\ s \in Seq(Wins) /\ IsInjective(s) /\ new \in Wins /\ p \in 1..(Len(s) + 1)
        /\ new \notin Range(s)
    BY <1>2, <1>3
  <2> QED BY ONLY <2>1, InsertRange
<1>5. /\ w \in Wins /\ top[w] \in Nat /\ bot[w] \in Nat /\ loc \in Nat
      /\ loc - 1 >= top[w] + 1 /\ bot[w] >= loc + 2 /\ loc - 1 \in Nat
  <2> DEFINE a == top[w]
             b == bot[w]
  <2>1. w \in Wins /\ a \in Nat /\ b \in Nat
    BY <1>1
  <2>2. loc \in (a + 2)..(b - 2)
    OBVIOUS
  <2> HIDE DEF a, b
  <2>3. loc \in Nat /\ loc - 1 >= a + 1 /\ b >= loc + 2 /\ loc - 1 \in Nat
    BY ONLY <2>1, <2>2
  <2> QED BY <2>1, <2>3 DEF a, b
<1>6. new # w /\ \A i \in 1..n : s[i] # new
  BY <1>1 DEF Range
<1>7. tu \in [Wins -> Nat] /\ bu \in [Wins -> Nat]
  <2>1. top \in [Wins -> Nat] /\ bot \in [Wins -> Nat]
    BY DEF Placed
  <2>2. top[w] \in Nat /\ loc + 1 \in Nat /\ loc - 1 \in Nat
    BY <1>5
  <2> HIDE DEF w
  <2> QED BY ONLY <2>1, <2>2
<1>8. /\ tu[new] = top[w] /\ tu[w] = loc + 1 /\ bu[new] = loc - 1 /\ bu[w] = bot[w]
      /\ \A i \in 1..n : i # p => tu[s[i]] = top[s[i]] /\ bu[s[i]] = bot[s[i]]
  BY <1>1, <1>2, <1>5, <1>6
<1> HIDE DEF u, w, tu, bu, n
<1>9. w = s[p] /\ p \in 1..n
  BY DEF w, n
<1>10. tu[u[1]] = 0
  <2>1. CASE p = 1
    <3>1. u[1] = new
      BY <1>1, <1>4, <2>1
    <3> QED BY <3>1, <1>2, <1>8, <1>9, <2>1
  <2>2. CASE p > 1
    <3>1. 1 \in 1..(n + 1) /\ 1 < p /\ 1 \in 1..n /\ 1 # p
      BY <1>1, <2>2
    <3>2. u[1] = s[1]
      BY <1>4, <3>1
    <3> QED BY <3>1, <3>2, <1>2, <1>8
  <2> QED BY <1>9, <2>1, <2>2
<1>11. ASSUME NEW j \in 1..(n + 1)
       PROVE  bu[u[j]] >= tu[u[j]] + 1
  <2>1. CASE j < p
    <3>1. u[j] = s[j] /\ j \in 1..n /\ j # p
      BY <1>1, <1>4, <1>9, <2>1
    <3> QED BY <3>1, <1>2, <1>8
  <2>2. CASE j = p
    <3>1. u[j] = new
      BY <1>4, <2>2
    <3> QED BY <3>1, <1>5, <1>8
  <2>3. CASE j = p + 1
    <3>1. u[j] = w
      BY <1>1, <1>4, <1>9, <2>3
    <3> QED BY <3>1, <1>5, <1>8
  <2>4. CASE j > p + 1
    <3>0. j - 1 \in 1..n /\ j - 1 # p /\ ~(j < p) /\ j # p
      <4>1. n \in Nat /\ p \in 1..n /\ j \in 1..(n + 1)
        BY <1>1, <1>9
      <4> QED BY ONLY <2>4, <4>1
    <3>1. u[j] = s[j - 1] /\ j - 1 \in 1..n /\ j - 1 # p
      BY <1>4, <3>0
    <3> QED BY <3>1, <1>2, <1>8
  <2> QED BY <1>1, <1>9, <2>1, <2>2, <2>3, <2>4
<1>12. ASSUME NEW j \in 2..(n + 1)
       PROVE  tu[u[j]] = bu[u[j - 1]] + 2
  <2>0. j \in 1..(n + 1) /\ j - 1 \in 1..(n + 1) /\ j \in Int /\ p \in Int /\ n \in Nat
    BY <1>1, <1>9
  <2>1. CASE j < p
    <3>1. u[j] = s[j] /\ u[j - 1] = s[j - 1] /\ j \in 2..n /\ j - 1 \in 1..n /\ j \in 1..n
          /\ j # p /\ j - 1 # p
      BY <1>4, <1>9, <2>0, <2>1
    <3>2. top[s[j]] = bot[s[j - 1]] + 2
      BY <3>1, <1>2
    <3>3. tu[s[j]] = top[s[j]] /\ bu[s[j - 1]] = bot[s[j - 1]]
      BY <3>1, <1>8
    <3> QED BY <3>1, <3>2, <3>3
  <2>2. CASE j = p
    <3>1. u[j] = new /\ u[j - 1] = s[j - 1] /\ j \in 2..n /\ j - 1 \in 1..n /\ j - 1 # p
      BY <1>4, <1>9, <2>0, <2>2
    <3>2. top[w] = bot[s[j - 1]] + 2
      BY <3>1, <1>2, <1>9, <2>2
    <3> QED BY <3>1, <3>2, <1>8
  <2>3. CASE j = p + 1
    <3>1. u[j] = w /\ u[j - 1] = new
      BY <1>4, <1>9, <2>0, <2>3
    <3> QED BY <3>1, <1>5, <1>8
  <2>4. CASE j = p + 2
    <3>1. u[j] = s[j - 1] /\ u[j - 1] = w /\ j - 1 \in 2..n /\ j - 1 \in 1..n /\ j - 1 # p
      BY <1>4, <1>9, <2>0, <2>4
    <3>2. top[s[j - 1]] = bot[s[(j - 1) - 1]] + 2 /\ (j - 1) - 1 = p
      BY <3>1, <1>2, <2>0, <2>4
    <3> QED BY <3>1, <3>2, <1>8, <1>9
  <2>5. CASE j > p + 2
    <3>1. /\ u[j] = s[j - 1] /\ u[j - 1] = s[(j - 1) - 1] /\ j - 1 \in 2..n /\ j - 1 \in 1..n
          /\ (j - 1) - 1 \in 1..n /\ j - 1 # p /\ (j - 1) - 1 # p
      BY <1>4, <1>9, <2>0, <2>5
    <3>2. top[s[j - 1]] = bot[s[(j - 1) - 1]] + 2
      BY <3>1, <1>2
    <3> QED BY <3>1, <3>2, <1>8
  <2> QED BY <2>0, <2>1, <2>2, <2>3, <2>4, <2>5
<1>13. Placed(u, tu, bu)
  <2>1. Len(u) > 0
    BY <1>1, <1>4
  <2> QED BY <1>4, <1>7, <1>10, <1>11, <1>12, <2>1 DEF Placed
<1> QED BY <1>4, <1>13 DEF u, w, tu, bu

\* close_window() upwards: the window above w takes its rows.
LEMMA CloseUpPlaced ==
  ASSUME NEW s, NEW top, NEW bot, Placed(s, top, bot), NEW p \in 2..Len(s)
  PROVE  /\ Placed(RemoveAt(s, p), top, [bot EXCEPT ![s[p - 1]] = bot[s[p]]])
         /\ Range(RemoveAt(s, p)) = Range(s) \ {s[p]}
<1> DEFINE u == RemoveAt(s, p)
           w == s[p]
           v == s[p - 1]
           bu == [bot EXCEPT ![v] = bot[w]]
           n == Len(s)
<1>1. /\ n \in Nat /\ n > 0 /\ DOMAIN s = 1..n /\ \A i \in 1..n : s[i] \in Wins
      /\ \A i \in 1..n : top[s[i]] \in Nat /\ bot[s[i]] \in Nat
      /\ \A i, j \in 1..n : s[i] = s[j] => i = j
  BY PlacedTypes
<1>2. /\ s \in Seq(Wins) /\ IsInjective(s)
      /\ top \in [Wins -> Nat] /\ bot \in [Wins -> Nat]
      /\ top[s[1]] = 0
      /\ \A i \in 1..n : bot[s[i]] >= top[s[i]] + 1
      /\ \A i \in 2..n : top[s[i]] = bot[s[i - 1]] + 2
  BY DEF Placed
<1>3. p \in 1..n /\ p - 1 \in 1..n /\ p \in Int /\ p >= 2 /\ p <= n
  BY <1>1
<1>4. /\ u \in Seq(Wins) /\ Len(u) = n - 1 /\ IsInjective(u) /\ Range(u) = Range(s) \ {w}
      /\ \A j \in 1..(n - 1) : u[j] = IF j < p THEN s[j] ELSE s[j + 1]
  <2>1. s \in Seq(Wins) /\ IsInjective(s) /\ p \in 1..Len(s)
    BY <1>2, <1>3
  <2> QED BY ONLY <2>1, RemoveRange
<1>5. /\ w \in Wins /\ v \in Wins /\ v # w
      /\ top[v] \in Nat /\ bot[v] \in Nat /\ top[w] \in Nat /\ bot[w] \in Nat
      /\ bot[w] >= top[w] + 1 /\ top[w] = bot[v] + 2 /\ bot[v] >= top[v] + 1
  <2>1. w \in Wins /\ v \in Wins /\ v # w
    <3>1. p - 1 # p
      BY <1>3
    <3> QED BY <1>1, <1>3, <3>1
  <2>2. top[v] \in Nat /\ bot[v] \in Nat /\ top[w] \in Nat /\ bot[w] \in Nat
    BY <1>1, <1>3
  <2>3. bot[w] >= top[w] + 1 /\ bot[v] >= top[v] + 1
    BY <1>2, <1>3
  <2>4. top[w] = bot[v] + 2
    <3>1. p \in 2..n
      OBVIOUS
    <3> QED BY <1>2, <3>1
  <2> QED BY <2>1, <2>2, <2>3, <2>4
<1>6. /\ bu \in [Wins -> Nat] /\ bu[v] = bot[w]
      /\ \A i \in 1..n : i # p - 1 => bu[s[i]] = bot[s[i]]
  BY <1>1, <1>2, <1>3, <1>5
<1>7. v = s[p - 1] /\ w = s[p]
  OBVIOUS
<1> HIDE DEF u, w, v, bu, n
<1>8. ASSUME NEW j \in 1..(n - 1)
      PROVE  /\ j = p - 1 => u[j] = v
             /\ j < p - 1 => u[j] = s[j] /\ bu[u[j]] = bot[s[j]] /\ j \in 1..n
             /\ j >= p => u[j] = s[j + 1] /\ bu[u[j]] = bot[s[j + 1]] /\ j + 1 \in 1..n
  <2>1. j \in Int /\ 1 <= j /\ j <= n - 1
    BY <1>1
  <2>2. CASE j = p - 1
    BY <1>3, <1>4, <1>7, <2>1, <2>2
  <2>3. CASE j < p - 1
    <3>1. j \in 1..n /\ j # p - 1 /\ j < p
      BY <1>1, <1>3, <2>1, <2>3
    <3> QED BY <1>3, <1>4, <1>6, <2>1, <2>3, <3>1
  <2>4. CASE j >= p
    <3>1. j + 1 \in 1..n /\ j + 1 # p - 1 /\ ~(j < p) /\ j # p - 1
      BY <1>1, <1>3, <2>1, <2>4
    <3> QED BY <1>3, <1>4, <1>6, <2>1, <2>4, <3>1
  <2> QED BY <1>3, <2>1, <2>2, <2>3, <2>4
<1>9. top[u[1]] = 0
  <2>1. 1 < p /\ 1 \in 1..(n - 1)
    BY <1>1, <1>3
  <2> QED BY <2>1, <1>2, <1>4
<1>10. ASSUME NEW j \in 1..(n - 1)
       PROVE  bu[u[j]] >= top[u[j]] + 1
  <2>1. CASE j = p - 1
    <3>1. u[j] = v /\ bu[v] = bot[w]
      BY <1>6, <1>8, <2>1
    <3>2. bot[w] >= top[v] + 1
      BY ONLY <1>5
    <3> QED BY <3>1, <3>2
  <2>2. CASE j < p - 1
    BY <1>2, <1>8, <2>2
  <2>3. CASE j >= p
    BY <1>2, <1>8, <2>3
  <2> QED BY <1>1, <1>3, <2>1, <2>2, <2>3
<1>11. ASSUME NEW j \in 2..(n - 1)
       PROVE  top[u[j]] = bu[u[j - 1]] + 2
  <2>0. j \in 1..(n - 1) /\ j - 1 \in 1..(n - 1) /\ j \in Int /\ j <= n - 1 /\ 2 <= j
    BY <1>1
  <2>1. CASE j <= p - 1
    <3>1. u[j - 1] = s[j - 1] /\ bu[u[j - 1]] = bot[s[j - 1]]
      BY <1>3, <1>8, <2>0, <2>1
    <3>2. u[j] = s[j]
      BY <1>3, <1>7, <1>8, <2>0, <2>1
    <3>3. j \in 2..n
      BY <1>1, <2>0
    <3> QED BY <1>2, <3>1, <3>2, <3>3
  <2>2. CASE j = p
    <3>1. u[j] = s[j + 1] /\ j + 1 \in 2..n
      BY <1>1, <1>8, <2>0, <2>2
    <3>2. u[j - 1] = v
      BY <1>8, <2>0, <2>2
    <3>3. top[s[j + 1]] = bot[s[(j + 1) - 1]] + 2 /\ (j + 1) - 1 = p
      BY <1>2, <2>0, <2>2, <3>1
    <3> QED BY <1>6, <1>7, <3>1, <3>2, <3>3
  <2>3. CASE j > p
    <3>1. u[j] = s[j + 1] /\ j + 1 \in 2..n
      BY <1>1, <1>3, <1>8, <2>0, <2>3
    <3>2. bu[u[j - 1]] = bot[s[(j - 1) + 1]] /\ (j - 1) + 1 = j /\ (j + 1) - 1 = j
      BY <1>3, <1>8, <2>0, <2>3
    <3>3. top[s[j + 1]] = bot[s[(j + 1) - 1]] + 2
      BY <1>2, <3>1
    <3> QED BY <3>1, <3>2, <3>3
  <2> QED BY <1>3, <2>0, <2>1, <2>2, <2>3
<1>12. Placed(u, top, bu)
  <2>1. Len(u) > 0
    BY <1>1, <1>3, <1>4
  <2> QED BY <1>2, <1>4, <1>6, <1>9, <1>10, <1>11, <2>1 DEF Placed
<1> QED BY <1>4, <1>12 DEF u, w, v, bu

\* close_window() downwards: the window below w takes its rows.
LEMMA CloseDownPlaced ==
  ASSUME NEW s, NEW top, NEW bot, Placed(s, top, bot), NEW p \in 1..(Len(s) - 1)
  PROVE  /\ Placed(RemoveAt(s, p), [top EXCEPT ![s[p + 1]] = top[s[p]]], bot)
         /\ Range(RemoveAt(s, p)) = Range(s) \ {s[p]}
<1> DEFINE u == RemoveAt(s, p)
           w == s[p]
           v == s[p + 1]
           tu == [top EXCEPT ![v] = top[w]]
           n == Len(s)
<1>1. /\ n \in Nat /\ n > 0 /\ DOMAIN s = 1..n /\ \A i \in 1..n : s[i] \in Wins
      /\ \A i \in 1..n : top[s[i]] \in Nat /\ bot[s[i]] \in Nat
      /\ \A i, j \in 1..n : s[i] = s[j] => i = j
  BY PlacedTypes
<1>2. /\ s \in Seq(Wins) /\ IsInjective(s)
      /\ top \in [Wins -> Nat] /\ bot \in [Wins -> Nat]
      /\ top[s[1]] = 0
      /\ \A i \in 1..n : bot[s[i]] >= top[s[i]] + 1
      /\ \A i \in 2..n : top[s[i]] = bot[s[i - 1]] + 2
  BY DEF Placed
<1>3. p \in 1..n /\ p + 1 \in 1..n /\ p \in Int /\ p >= 1 /\ p <= n - 1
  BY <1>1
<1>4. /\ u \in Seq(Wins) /\ Len(u) = n - 1 /\ IsInjective(u) /\ Range(u) = Range(s) \ {w}
      /\ \A j \in 1..(n - 1) : u[j] = IF j < p THEN s[j] ELSE s[j + 1]
  <2>1. s \in Seq(Wins) /\ IsInjective(s) /\ p \in 1..Len(s)
    BY <1>2, <1>3
  <2> QED BY ONLY <2>1, RemoveRange
<1>5. /\ w \in Wins /\ v \in Wins /\ v # w
      /\ top[v] \in Nat /\ bot[v] \in Nat /\ top[w] \in Nat /\ bot[w] \in Nat
  BY <1>1, <1>3
<1>6. bot[w] >= top[w] + 1 /\ top[v] = bot[w] + 2 /\ bot[v] >= top[v] + 1
  <2>1. p + 1 \in 2..n /\ (p + 1) - 1 = p
    BY <1>1, <1>3
  <2> QED BY <1>2, <1>3, <2>1
<1>7. /\ tu \in [Wins -> Nat] /\ tu[v] = top[w]
      /\ \A i \in 1..n : i # p + 1 => tu[s[i]] = top[s[i]]
  BY <1>1, <1>2, <1>3, <1>5
<1>8. v = s[p + 1] /\ w = s[p]
  OBVIOUS
<1> HIDE DEF u, w, v, tu, n
<1>9. ASSUME NEW j \in 1..(n - 1)
      PROVE  /\ j = p => u[j] = v
             /\ j < p => u[j] = s[j] /\ tu[u[j]] = top[s[j]] /\ j \in 1..n
             /\ j > p => u[j] = s[j + 1] /\ tu[u[j]] = top[s[j + 1]] /\ j + 1 \in 1..n
  <2>1. j \in Int /\ 1 <= j /\ j <= n - 1
    BY <1>1
  <2>2. CASE j = p
    BY <1>3, <1>4, <1>8, <2>1, <2>2
  <2>3. CASE j < p
    <3>1. j \in 1..n /\ j # p + 1
      BY <1>1, <1>3, <2>1, <2>3
    <3> QED BY <1>3, <1>4, <1>7, <2>1, <2>3, <3>1
  <2>4. CASE j > p
    <3>1. j + 1 \in 1..n /\ j + 1 # p + 1 /\ ~(j < p) /\ j # p
      BY <1>1, <1>3, <2>1, <2>4
    <3> QED BY <1>3, <1>4, <1>7, <2>1, <2>4, <3>1
  <2> QED BY <1>3, <2>1, <2>2, <2>3, <2>4
<1>10. tu[u[1]] = 0
  <2>1. 1 \in 1..(n - 1)
    BY <1>1, <1>3
  <2>2. CASE p = 1
    <3>1. u[1] = v /\ tu[v] = top[w] /\ w = s[1]
      BY <1>7, <1>8, <1>9, <2>1, <2>2
    <3> QED BY <1>2, <3>1
  <2>3. CASE 1 < p
    BY <1>2, <1>9, <2>1, <2>3
  <2> QED BY <1>3, <2>2, <2>3
<1>11. ASSUME NEW j \in 1..(n - 1)
       PROVE  bot[u[j]] >= tu[u[j]] + 1
  <2>1. CASE j = p
    <3>1. u[j] = v /\ tu[v] = top[w]
      BY <1>7, <1>9, <2>1
    <3>2. bot[v] >= top[w] + 1
      <4> DEFINE a == top[w]
                 b == bot[w]
                 c == top[v]
                 d == bot[v]
      <4>1. a \in Nat /\ b \in Nat /\ d \in Nat
        BY <1>5
      <4>2. b >= a + 1 /\ c = b + 2 /\ d >= c + 1
        BY <1>6
      <4> HIDE DEF a, b, c, d
      <4>3. d >= a + 1
        BY ONLY <4>1, <4>2
      <4> QED BY <4>3 DEF a, d
    <3> QED BY <3>1, <3>2
  <2>2. CASE j < p
    BY <1>2, <1>9, <2>2
  <2>3. CASE j > p
    BY <1>2, <1>9, <2>3
  <2> QED BY <1>1, <1>3, <2>1, <2>2, <2>3
<1>12. ASSUME NEW j \in 2..(n - 1)
       PROVE  tu[u[j]] = bot[u[j - 1]] + 2
  <2>0. j \in 1..(n - 1) /\ j - 1 \in 1..(n - 1) /\ j \in Int /\ j <= n - 1 /\ 2 <= j
    BY <1>1
  <2>1. CASE j < p
    <3>1. tu[u[j]] = top[s[j]]
      BY <1>9, <2>0, <2>1
    <3>2. u[j - 1] = s[j - 1]
      BY <1>3, <1>9, <2>0, <2>1
    <3>3. j \in 2..n
      BY <1>1, <2>0
    <3> QED BY <1>2, <3>1, <3>2, <3>3
  <2>2. CASE j = p
    <3>1. tu[u[j]] = top[s[j]] /\ j \in 2..n
      BY <1>1, <1>7, <1>8, <1>9, <2>0, <2>2
    <3>2. u[j - 1] = s[j - 1]
      BY <1>3, <1>9, <2>0, <2>2
    <3> QED BY <1>2, <3>1, <3>2
  <2>3. CASE j > p
    <3>0. j + 1 \in 2..n /\ (j + 1) - 1 = j
      BY <1>1, <2>0
    <3>1. tu[u[j]] = top[s[j + 1]] /\ j + 1 \in 2..n /\ (j + 1) - 1 = j
      BY <1>9, <2>0, <2>3, <3>0
    <3>2. u[j - 1] = s[j]
      <4>1. CASE j - 1 = p
        <5>1. u[j - 1] = v /\ p + 1 = j
          BY <1>3, <1>9, <2>0, <4>1
        <5> QED BY <1>8, <5>1
      <4>2. CASE j - 1 > p
        <5>1. (j - 1) + 1 = j
          BY <2>0
        <5> QED BY <1>9, <2>0, <4>2, <5>1
      <4> QED BY <1>3, <2>0, <2>3, <4>1, <4>2
    <3>3. top[s[j + 1]] = bot[s[(j + 1) - 1]] + 2
      BY <1>2, <3>1
    <3> QED BY <3>1, <3>2, <3>3
  <2> QED BY <1>3, <2>0, <2>1, <2>2, <2>3
<1>13. Placed(u, tu, bot)
  <2>1. Len(u) > 0
    BY <1>1, <1>3, <1>4
  <2> QED BY <1>2, <1>4, <1>7, <1>10, <1>11, <1>12, <2>1 DEF Placed
<1> QED BY <1>4, <1>13 DEF u, w, v, tu

\* resize_window(): the last row of w, and the first of the next window, move.
LEMMA ResizePlaced ==
  ASSUME NEW s, NEW top, NEW bot, Placed(s, top, bot), NEW p \in 1..Len(s),
         NEW row \in Nat, row >= top[s[p]] + 2,
         p < Len(s) => row <= bot[s[p + 1]] - 2
  PROVE  Placed(s, IF p = Len(s) THEN top ELSE [top EXCEPT ![s[p + 1]] = row + 1],
                [bot EXCEPT ![s[p]] = row - 1])
<1> DEFINE n == Len(s)
           tu == IF p = n THEN top ELSE [top EXCEPT ![s[p + 1]] = row + 1]
           bu == [bot EXCEPT ![s[p]] = row - 1]
<1>1. /\ n \in Nat /\ n > 0 /\ DOMAIN s = 1..n /\ \A i \in 1..n : s[i] \in Wins
      /\ \A i \in 1..n : top[s[i]] \in Nat /\ bot[s[i]] \in Nat
      /\ \A i, j \in 1..n : s[i] = s[j] => i = j
  BY PlacedTypes
<1>2. /\ s \in Seq(Wins) /\ IsInjective(s)
      /\ top \in [Wins -> Nat] /\ bot \in [Wins -> Nat]
      /\ top[s[1]] = 0
      /\ \A i \in 1..n : bot[s[i]] >= top[s[i]] + 1
      /\ \A i \in 2..n : top[s[i]] = bot[s[i - 1]] + 2
  BY DEF Placed
<1>3. n \in Nat /\ p \in Int /\ 1 <= p /\ p <= n /\ (p < n => p + 1 \in 1..n /\ p # n)
  <2>1. n \in Nat
    BY <1>1
  <2>2. p \in 1..n
    OBVIOUS
  <2> HIDE DEF n
  <2> QED BY ONLY <2>1, <2>2
<1>4. row - 1 \in Nat /\ row + 1 \in Nat /\ row - 1 >= top[s[p]] + 1
  BY <1>1
<1>5. /\ tu \in [Wins -> Nat]
      /\ \A i \in 1..n : i # p + 1 => tu[s[i]] = top[s[i]]
      /\ p < n => tu[s[p + 1]] = row + 1
  <2>1. CASE p = n
    BY <1>1, <1>2, <1>3, <2>1
  <2>2. CASE p < n
    <3>0. p # n /\ p + 1 \in 1..n
      BY ONLY <1>3, <2>2
    <3>1. tu = [top EXCEPT ![s[p + 1]] = row + 1] /\ p + 1 \in 1..n
      BY <3>0
    <3>2. /\ top \in [Wins -> Nat] /\ row + 1 \in Nat /\ s[p + 1] \in Wins
          /\ \A i \in 1..n : s[i] \in Wins /\ (s[i] = s[p + 1] => i = p + 1)
      BY <1>1, <1>2, <1>4, <3>1
    <3> HIDE DEF tu, n
    <3> QED BY <3>1, <3>2
  <2>3. p = n \/ p < n
    BY ONLY <1>3
  <2> QED BY <2>1, <2>2, <2>3
<1>6. /\ bu \in [Wins -> Nat] /\ bu[s[p]] = row - 1
      /\ \A i \in 1..n : i # p => bu[s[i]] = bot[s[i]]
  BY <1>1, <1>2, <1>4
<1> HIDE DEF tu, bu, n
<1>7. tu[s[1]] = 0
  <2>1. 1 \in 1..n /\ 1 # p + 1
    BY <1>1, <1>3
  <2> QED BY <1>2, <1>5, <2>1
<1>8. ASSUME NEW i \in 1..n
      PROVE  bu[s[i]] >= tu[s[i]] + 1
  <2>0. i \in Int /\ i <= n
    BY <1>1
  <2>1. CASE i = p
    <3>1. i # p + 1
      BY <1>3, <2>1
    <3> QED BY <1>4, <1>5, <1>6, <2>1, <3>1
  <2>2. CASE i = p + 1
    <3>1. p < n /\ i # p
      BY <1>3, <2>0, <2>2
    <3>2. tu[s[i]] = row + 1 /\ bu[s[i]] = bot[s[i]] /\ row <= bot[s[i]] - 2
      BY <1>5, <1>6, <2>2, <3>1 DEF n
    <3> QED BY <1>1, <3>2
  <2>3. CASE i # p /\ i # p + 1
    BY <1>2, <1>5, <1>6, <2>3
  <2> QED BY <2>1, <2>2, <2>3
<1>9. ASSUME NEW i \in 2..n
      PROVE  tu[s[i]] = bu[s[i - 1]] + 2
  <2>0. i \in 1..n /\ i - 1 \in 1..n /\ i \in Int /\ i <= n
    BY <1>1
  <2>1. CASE i = p + 1
    <3>1. p < n /\ i - 1 = p
      BY <1>3, <2>0, <2>1
    <3>2. tu[s[i]] = row + 1 /\ bu[s[i - 1]] = row - 1
      BY <1>5, <1>6, <2>1, <3>1
    <3> QED BY <3>2
  <2>2. CASE i # p + 1
    <3>1. i - 1 # p
      BY <1>3, <2>0, <2>2
    <3> QED BY <1>2, <1>5, <1>6, <2>0, <2>2, <3>1
  <2> QED BY <2>1, <2>2
<1>10. Placed(s, tu, bu)
  BY <1>1, <1>2, <1>5, <1>6, <1>7, <1>8, <1>9 DEF Placed, n
<1> QED BY <1>10 DEF tu, bu, n

\* Each window takes three rows, its divider included.
LEMMA Heights ==
  ASSUME NEW s, NEW top, NEW bot, Placed(s, top, bot)
  PROVE  \A j \in 1..Len(s) : bot[s[j]] + 2 >= 3 * j
<1> DEFINE n == Len(s)
           T == {j \in 0..n : j > 0 => bot[s[j]] + 2 >= 3 * j}
<1>1. n \in Nat /\ \A i \in 1..n : top[s[i]] \in Nat /\ bot[s[i]] \in Nat
  BY PlacedTypes
<1>2. /\ top[s[1]] = 0
      /\ \A i \in 1..n : bot[s[i]] >= top[s[i]] + 1
      /\ \A i \in 2..n : top[s[i]] = bot[s[i - 1]] + 2
  BY DEF Placed
<1> HIDE DEF n
<1>3. 0 \in T
  BY <1>1
<1>4. ASSUME NEW j \in 1..n, j - 1 \in T
      PROVE  j \in T
  <2>1. j \in Int /\ 1 <= j /\ j <= n /\ j \in 0..n
    BY <1>1
  <2>2. top[s[j]] \in Nat /\ bot[s[j]] \in Nat /\ bot[s[j]] >= top[s[j]] + 1
    BY <1>1, <1>2
  <2>3. bot[s[j]] + 2 >= 3 * j
    <3>1. CASE j = 1
      BY <1>2, <2>2, <3>1
    <3>2. CASE j > 1
      <4>1. j \in 2..n /\ j - 1 \in 1..n /\ j - 1 > 0
        BY <1>1, <2>1, <3>2
      <4>2. top[s[j]] = bot[s[j - 1]] + 2 /\ bot[s[j - 1]] \in Nat
        BY <1>1, <1>2, <4>1
      <4>3. bot[s[j - 1]] + 2 >= 3 * (j - 1)
        BY <1>4, <4>1
      <4> QED BY ONLY <2>1, <2>2, <4>2, <4>3
    <3> QED BY <2>1, <3>1, <3>2
  <2> QED BY <2>1, <2>3
<1>5. \A j \in 0..n : j \in T
  <2> HIDE DEF T
  <2> QED BY <1>1, <1>3, <1>4, Upward
<1>6. ASSUME NEW j \in 1..n PROVE bot[s[j]] + 2 >= 3 * j
  <2>1. j \in 0..n /\ j > 0
    BY <1>1
  <2> QED BY <1>5, <2>1
<1> QED BY <1>6 DEF n

\* One below another, heights and a row for each divider.
LEMMA Places ==
  ASSUME NEW k \in Nat, k >= 1, NEW given \in [1..k -> Nat]
  PROVE  LET place[i \in 1..k] == IF i = 1 THEN 0 ELSE place[i - 1] + given[i - 1] + 1
         IN  /\ place \in [1..k -> Nat] /\ place[1] = 0
             /\ \A i \in 2..k : place[i] = place[i - 1] + given[i - 1] + 1
<1> DEFINE place[i \in 1..k] == IF i = 1 THEN 0 ELSE place[i - 1] + given[i - 1] + 1
           m == k - 1
           g == [p \in Nat \X (1..m) |-> p[1] + given[p[2]] + 1]
<1>1. m \in Nat /\ k = m + 1
  OBVIOUS
<1> HIDE DEF m
<1>2. \A i \in 1..m : given[i] \in Nat
  BY <1>1
<1>3. g \in [Nat \X (1..m) -> Nat]
  BY <1>2
<1>4. \A x \in Nat, i \in 1..m : g[<<x, i>>] = x + given[i] + 1
  OBVIOUS
<1> HIDE DEF g
<1>5. PICK h \in [0..m -> Nat] : h[0] = 0 /\ \A i \in 1..m : h[i] = g[<<h[i - 1], i>>]
  <2>1. Stepping(Nat, m, 0, g)
    BY <1>1, <1>3 DEF Stepping
  <2> QED BY ONLY <2>1, Iterate
<1>6. ASSUME NEW i \in 1..m PROVE h[i] = h[i - 1] + given[i] + 1
  <2>1. i - 1 \in 0..m
    BY <1>1
  <2> QED BY <1>4, <1>5, <2>1
<1> DEFINE f == [i \in 1..k |-> h[i - 1]]
<1>7. f \in [1..k -> Nat] /\ f[1] = 0
  BY <1>1, <1>5
<1>8. ASSUME NEW i \in 2..k PROVE f[i] = f[i - 1] + given[i - 1] + 1
  <2>1. i \in 1..k /\ i - 1 \in 1..k /\ i - 1 \in 1..m
    BY <1>1
  <2>2. h[i - 1] = h[(i - 1) - 1] + given[i - 1] + 1
    BY <1>6, <2>1
  <2> QED BY <2>1, <2>2
<1> HIDE DEF f
<1>9. f = [i \in 1..k |-> IF i = 1 THEN 0 ELSE f[i - 1] + given[i - 1] + 1]
  <2>1. \A i \in 1..k : f[i] = IF i = 1 THEN 0 ELSE f[i - 1] + given[i - 1] + 1
    BY <1>7, <1>8
  <2> QED BY <1>7, <2>1
<1>10. place = [i \in 1..k |-> IF i = 1 THEN 0 ELSE place[i - 1] + given[i - 1] + 1]
  BY <1>9 DEF place
<1> HIDE DEF place
<1> DEFINE T == {i \in 0..m : place[i + 1] \in Nat}
<1>11. 0 \in T
  <2>1. 1 \in 1..k /\ 0 \in 0..m
    BY <1>1
  <2>2. place[1] = 0
    BY <1>10, <2>1
  <2> QED BY <2>1, <2>2
<1>12. ASSUME NEW i \in 1..m, i - 1 \in T PROVE i \in T
  <2>1. i + 1 \in 1..k /\ i + 1 # 1 /\ (i + 1) - 1 = i /\ (i - 1) + 1 = i /\ i \in 0..m
    BY <1>1
  <2>2. place[i + 1] = place[i] + given[i] + 1
    BY <1>10, <2>1
  <2>3. place[i] \in Nat
    BY <1>12, <2>1
  <2> QED BY <1>2, <2>1, <2>2, <2>3
<1>13. \A i \in 0..m : i \in T
  <2> HIDE DEF T
  <2> QED BY ONLY <1>1, <1>11, <1>12, Upward
<1>14. ASSUME NEW i \in 1..k PROVE place[i] \in Nat
  <2>1. i - 1 \in 0..m /\ (i - 1) + 1 = i
    BY <1>1
  <2> QED BY <1>13, <2>1
<1>15. place \in [1..k -> Nat]
  BY <1>10, <1>14
<1>16. place[1] = 0
  <2>1. 1 \in 1..k
    OBVIOUS
  <2> QED BY <1>10, <2>1
<1>17. ASSUME NEW i \in 2..k PROVE place[i] = place[i - 1] + given[i - 1] + 1
  <2>1. i \in 1..k /\ i # 1
    OBVIOUS
  <2> QED BY <1>10, <2>1
<1> QED BY <1>15, <1>16, <1>17 DEF place

\* resize_screen(): the first k windows, with their new heights.
LEMMA SpreadPlaced ==
  ASSUME NEW s, NEW top, NEW bot, Placed(s, top, bot), NEW k \in 1..Len(s),
         NEW given \in [1..k -> Nat], \A i \in 1..k : given[i] >= 2,
         NEW place \in [1..k -> Nat], place[1] = 0,
         \A i \in 2..k : place[i] = place[i - 1] + given[i - 1] + 1,
         NEW tu \in [Wins -> Nat], NEW bu \in [Wins -> Nat],
         \A i \in 1..k : tu[s[i]] = place[i] /\ bu[s[i]] = place[i] + given[i] - 1
  PROVE  Placed(SubSeq(s, 1, k), tu, bu)
<1> DEFINE u == SubSeq(s, 1, k)
<1>1. s \in Seq(Wins) /\ Len(s) \in Nat /\ \A i, j \in 1..Len(s) : s[i] = s[j] => i = j
  BY PlacedTypes DEF Placed
<1>2. k \in Int /\ 1 <= k /\ k <= Len(s) /\ k \in 0..Len(s)
  BY <1>1
<1>3. u \in Seq(Wins) /\ Len(u) = k /\ \A i \in 1..k : u[i] = s[i]
  BY ONLY <1>1, <1>2, Halves
<1> HIDE DEF u
<1>4. IsInjective(u)
  <2>1. DOMAIN u = 1..k /\ \A i \in 1..k : i \in 1..Len(s)
    BY <1>1, <1>2, <1>3
  <2>2. ASSUME NEW i \in 1..k, NEW j \in 1..k, u[i] = u[j]
        PROVE  i = j
    BY ONLY <1>1, <1>3, <2>1, <2>2
  <2> QED BY ONLY <2>1, <2>2 DEF IsInjective
<1>5. 1 \in 1..k
  BY <1>2
<1>6. tu[u[1]] = 0
  BY <1>3, <1>5
<1>7. ASSUME NEW i \in 1..k PROVE bu[u[i]] >= tu[u[i]] + 1
  <2>1. place[i] \in Nat /\ given[i] \in Nat /\ given[i] >= 2
    OBVIOUS
  <2>2. bu[u[i]] = place[i] + given[i] - 1 /\ tu[u[i]] = place[i]
    BY <1>3
  <2>3. (place[i] + given[i] - 1) >= place[i] + 1
    BY ONLY <2>1
  <2> QED BY <2>2, <2>3
<1>8. ASSUME NEW i \in 2..k PROVE tu[u[i]] = bu[u[i - 1]] + 2
  <2>1. i \in 1..k /\ i - 1 \in 1..k
    BY <1>2
  <2>2. place[i - 1] \in Nat /\ given[i - 1] \in Nat
    BY <2>1
  <2>3. tu[u[i]] = place[i - 1] + given[i - 1] + 1 /\ bu[u[i - 1]] = place[i - 1] + given[i - 1] - 1
    BY <1>3, <2>1
  <2>4. (place[i - 1] + given[i - 1] + 1) = (place[i - 1] + given[i - 1] - 1) + 2
    BY ONLY <2>2
  <2> QED BY <2>3, <2>4
<1>9. Len(u) > 0
  BY <1>2, <1>3
<1>10. Placed(u, tu, bu)
  BY <1>3, <1>4, <1>6, <1>7, <1>8, <1>9 DEF Placed
<1> QED BY <1>10 DEF u

-----------------------------------------------------------------------------
(* The layout through the steps.                                           *)

LayoutInv ==
  /\ rows \in Sizes
  /\ Placed(ring, Wtop, Wbot)
  /\ active_win \in Shown

LEMMA ShownIs == Shown = Range(ring) /\ Shown' = Range(ring')
BY DEF Shown, Range

LEMMA SizesAre == \A n \in Sizes : n \in Nat /\ n >= 4
BY ScreenAssumption

LEMMA LayoutTypes ==
  ASSUME LayoutInv
  PROVE  /\ rows \in Nat /\ rows >= 4
         /\ ring \in Seq(Wins) /\ Len(ring) \in Nat /\ Len(ring) > 0 /\ DOMAIN ring = 1..Len(ring)
         /\ Shown \subseteq Wins /\ active_win \in Wins
         /\ \A w \in Wins : Wtop[w] \in Nat /\ Wbot[w] \in Nat
         /\ Lowest = ring[Len(ring)] /\ Lowest \in Wins
         /\ Itop \in Nat /\ Isize \in Int
<1>1. /\ ring \in Seq(Wins) /\ Len(ring) \in Nat /\ Len(ring) > 0 /\ DOMAIN ring = 1..Len(ring)
      /\ \A i \in 1..Len(ring) : ring[i] \in Wins
      /\ \A w \in Wins : Wtop[w] \in Nat /\ Wbot[w] \in Nat
  BY PlacedTypes DEF LayoutInv, Placed
<1>2. Shown \subseteq Wins /\ active_win \in Wins
  BY <1>1 DEF LayoutInv, Shown
<1>3. rows \in Nat /\ rows >= 4
  BY SizesAre DEF LayoutInv
<1>4. Len(ring) \in 1..Len(ring)
  BY <1>1
<1>5. Lowest = ring[Len(ring)] /\ Lowest \in Wins
  BY <1>1, <1>4 DEF Lowest
<1>6. Wbot[Lowest] \in Nat
  BY <1>1, <1>5
<1>7. Itop \in Nat /\ Isize \in Int
  BY <1>3, <1>6 DEF Itop, Isize
<1> QED BY <1>1, <1>2, <1>3, <1>5, <1>7

\* A window that is shown has its place in the ring.
LEMMA PlaceIs ==
  ASSUME LayoutInv, NEW w \in Shown
  PROVE  At(w) \in 1..Len(ring) /\ ring[At(w)] = w
BY AtIs DEF LayoutInv

LEMMA SplitLayout ==
  ASSUME LayoutInv, NEW w, NEW loc, NEW new, SplitWindow(w, loc, new)
  PROVE  LayoutInv' /\ Shown' = Shown \cup {new}
<1> DEFINE p == At(w)
<1>1. w \in Shown /\ new \in Wins /\ new \notin Shown /\ loc \in (Wtop[w] + 2)..(Wbot[w] - 2)
  BY DEF SplitWindow, SplitRows
<1>2. p \in 1..Len(ring) /\ ring[p] = w
  BY <1>1, PlaceIs
<1>3. /\ ring' = InsertAt(ring, p, new)
      /\ Wtop' = [Wtop EXCEPT ![new] = Wtop[w], ![w] = loc + 1]
      /\ Wbot' = [Wbot EXCEPT ![new] = loc - 1]
      /\ rows' = rows /\ active_win' = active_win
  BY DEF SplitWindow
<1> HIDE DEF p
<1>4. Placed(ring, Wtop, Wbot) /\ new \notin Range(ring)
  BY <1>1, ShownIs DEF LayoutInv
<1>5. Placed(ring', Wtop', Wbot') /\ Range(ring') = Range(ring) \cup {new}
  <2>1. new \in Wins /\ new \notin Range(ring) /\ loc \in (Wtop[ring[p]] + 2)..(Wbot[ring[p]] - 2)
    BY <1>1, <1>2, <1>4
  <2>2. /\ Wtop' = [Wtop EXCEPT ![new] = Wtop[ring[p]], ![ring[p]] = loc + 1]
        /\ ring' = InsertAt(ring, p, new) /\ Wbot' = [Wbot EXCEPT ![new] = loc - 1]
    BY <1>2, <1>3
  <2>3. Placed(ring, Wtop, Wbot) /\ p \in 1..Len(ring)
    BY <1>2, <1>4
  <2>4. /\ Placed(InsertAt(ring, p, new), [Wtop EXCEPT ![new] = Wtop[ring[p]], ![ring[p]] = loc + 1],
                   [Wbot EXCEPT ![new] = loc - 1])
        /\ Range(InsertAt(ring, p, new)) = Range(ring) \cup {new}
    BY ONLY <2>1, <2>3, SplitPlaced
  <2> QED BY <2>2, <2>4
<1> QED BY <1>3, <1>5, ShownIs DEF LayoutInv

LEMMA CloseUpLayout ==
  ASSUME LayoutInv, NEW w, CloseUp(w)
  PROVE  LayoutInv' /\ Shown' = Shown \ {w}
<1> DEFINE p == At(w)
<1>1. w \in Shown /\ p > 1
  BY DEF CloseUp
<1>2. p \in 1..Len(ring) /\ ring[p] = w
  BY <1>1, PlaceIs
<1>3. /\ ring' = RemoveAt(ring, p) /\ Wtop' = Wtop
      /\ Wbot' = [Wbot EXCEPT ![ring[p - 1]] = Wbot[w]]
      /\ rows' = rows /\ active_win' = IF active_win = w THEN ring[p - 1] ELSE active_win
  BY DEF CloseUp, Without
<1>4. p \in 2..Len(ring) /\ p - 1 \in 1..Len(ring) /\ p - 1 # p
  BY <1>1, <1>2, LayoutTypes
<1> HIDE DEF p
<1>5. Placed(ring, Wtop, Wbot)
  BY DEF LayoutInv
<1>6. Placed(ring', Wtop', Wbot') /\ Range(ring') = Range(ring) \ {w}
  BY ONLY <1>2, <1>3, <1>4, <1>5, CloseUpPlaced
<1>7. ring[p - 1] # w /\ ring[p - 1] \in Range(ring)
  BY <1>2, <1>4, <1>5, PlacedTypes DEF Range
<1> QED BY <1>3, <1>6, <1>7, ShownIs DEF LayoutInv

LEMMA CloseDownLayout ==
  ASSUME LayoutInv, NEW w, CloseDown(w)
  PROVE  LayoutInv' /\ Shown' = Shown \ {w}
<1> DEFINE p == At(w)
<1>1. w \in Shown /\ p < Len(ring)
  BY DEF CloseDown
<1>2. p \in 1..Len(ring) /\ ring[p] = w
  BY <1>1, PlaceIs
<1>3. /\ ring' = RemoveAt(ring, p) /\ Wbot' = Wbot
      /\ Wtop' = [Wtop EXCEPT ![ring[p + 1]] = Wtop[w]]
      /\ rows' = rows /\ active_win' = IF active_win = w THEN ring[p + 1] ELSE active_win
  BY DEF CloseDown, Without
<1>4. p \in 1..(Len(ring) - 1) /\ p + 1 \in 1..Len(ring) /\ p + 1 # p
  BY <1>1, <1>2, LayoutTypes
<1> HIDE DEF p
<1>5. Placed(ring, Wtop, Wbot)
  BY DEF LayoutInv
<1>6. Placed(ring', Wtop', Wbot') /\ Range(ring') = Range(ring) \ {w}
  BY ONLY <1>2, <1>3, <1>4, <1>5, CloseDownPlaced
<1>7. ring[p + 1] # w /\ ring[p + 1] \in Range(ring)
  BY <1>2, <1>4, <1>5, PlacedTypes DEF Range
<1> QED BY <1>3, <1>6, <1>7, ShownIs DEF LayoutInv

\* resize_window() leaves two rows to each window, and one to the input window.
LEMMA ResizeRowsAre ==
  ASSUME LayoutInv, NEW w \in Shown, NEW row \in ResizeRows(w)
  PROVE  /\ row \in Nat /\ row >= Wtop[w] + 2
         /\ At(w) < Len(ring) => row <= Wbot[ring[At(w) + 1]] - 2
         /\ At(w) = Len(ring) => row <= rows - 2
         /\ w = Lowest <=> At(w) = Len(ring)
<1>1. At(w) \in 1..Len(ring) /\ ring[At(w)] = w
  BY PlaceIs
<1>2. w \in Wins /\ Wtop[w] \in Nat /\ rows \in Nat /\ Len(ring) \in Nat /\ Len(ring) > 0
      /\ Lowest = ring[Len(ring)]
  BY LayoutTypes
<1>3. w = Lowest <=> At(w) = Len(ring)
  <2>1. \A i, j \in 1..Len(ring) : ring[i] = ring[j] => i = j
    BY PlacedTypes DEF LayoutInv
  <2> QED BY <1>1, <1>2, <2>1
<1>4. CASE At(w) = Len(ring)
  <2>1. row \in (Wtop[w] + 2)..(rows - 2)
    BY <1>3, <1>4 DEF ResizeRows
  <2> QED BY <1>2, <1>3, <1>4, <2>1
<1>5. CASE At(w) < Len(ring)
  <2>1. At(w) + 1 \in 1..Len(ring) /\ ring[At(w) + 1] \in Wins /\ At(w) # Len(ring)
    BY <1>1, <1>2, <1>5, LayoutTypes
  <2>2. Wbot[ring[At(w) + 1]] \in Nat
    BY <2>1, LayoutTypes
  <2>3. row \in (Wtop[w] + 2)..(Wbot[ring[At(w) + 1]] - 2)
    BY <1>3, <2>1 DEF ResizeRows
  <2> QED BY <1>2, <1>3, <2>1, <2>2, <2>3
<1> QED BY <1>1, <1>2, <1>4, <1>5

LEMMA ResizeLayout ==
  ASSUME LayoutInv, NEW w, NEW row, ResizeWindow(w, row)
  PROVE  LayoutInv'
<1> DEFINE p == At(w)
<1>1. w \in Shown /\ row \in ResizeRows(w)
  BY DEF ResizeWindow
<1>2. p \in 1..Len(ring) /\ ring[p] = w
  BY <1>1, PlaceIs
<1>3. /\ row \in Nat /\ row >= Wtop[ring[p]] + 2
      /\ p < Len(ring) => row <= Wbot[ring[p + 1]] - 2
      /\ w = Lowest <=> p = Len(ring)
  BY <1>1, <1>2, ResizeRowsAre
<1>4. /\ ring' = ring /\ rows' = rows /\ active_win' = active_win
      /\ Wtop' = IF p = Len(ring) THEN Wtop ELSE [Wtop EXCEPT ![ring[p + 1]] = row + 1]
      /\ Wbot' = [Wbot EXCEPT ![ring[p]] = row - 1]
  BY <1>2, <1>3 DEF ResizeWindow
<1> HIDE DEF p
<1>5. Placed(ring, Wtop, Wbot)
  BY DEF LayoutInv
<1>6. Placed(ring', Wtop', Wbot')
  BY ONLY <1>2, <1>3, <1>4, <1>5, ResizePlaced
<1> QED BY <1>4, <1>6, ShownIs DEF LayoutInv

\* The rows that windows and input window share are as many as the windows have.
LEMMA SpaceShared ==
  ASSUME LayoutInv
  PROVE  rows - Isize - Len(ring) \in Nat \ {0}
<1>1. Len(ring) \in 1..Len(ring) /\ Len(ring) \in Nat /\ Len(ring) > 0
  BY LayoutTypes
<1>2. Wbot[ring[Len(ring)]] + 2 >= 3 * Len(ring)
  BY <1>1, Heights DEF LayoutInv
<1>3. rows \in Nat /\ Lowest = ring[Len(ring)] /\ Wbot[Lowest] \in Nat
  BY LayoutTypes
<1> DEFINE b == Wbot[Lowest]
           n == Len(ring)
<1>4. rows - Isize - n = (b + 2) - n
  <2>1. b \in Nat /\ n \in Nat /\ rows \in Nat
    BY <1>1, <1>3
  <2>2. Isize = rows - (b + 2)
    BY DEF Isize, Itop
  <2> HIDE DEF b, n
  <2> QED BY ONLY <2>1, <2>2
<1>5. b + 2 >= 3 * n /\ b \in Nat /\ n \in Nat /\ n > 0
  BY <1>1, <1>2, <1>3
<1>6. ((b + 2) - n) \in Nat \ {0}
  <2> HIDE DEF b, n
  <2> QED BY ONLY <1>5
<1> QED BY <1>4, <1>6

\* resize_screen(): the windows that are left share the rows of the new screen,
\* and the screen is drawn anew.
LEMMA ResizeScreenIs ==
  ASSUME LayoutInv, NEW new_rows \in Sizes, ResizeScreen(new_rows)
  PROVE  /\ rows' = new_rows /\ Placed(ring', Wtop', Wbot') /\ active_win' \in Range(ring')
         /\ term' = Drawn(new_rows, ring', Wbot', active_win')
         /\ curs_loc' = "elsewhere" /\ UNCHANGED <<Wnl, curs_win, closing>>
<1> DEFINE num_wins == Min2(Len(ring), (new_rows - 1) \div 3)
           order == SubSeq(ring, 1, num_wins)
           old_ospace == rows - Isize - Len(ring)
           new_Isize == Min2(rows - (Wbot[order[num_wins]] + 2), new_rows - num_wins * 3)
           new_ospace == new_rows - new_Isize - num_wins
           size == [i \in 1..num_wins |->
                      Max2(2, ((Wbot[order[i]] - Wtop[order[i]] + 1) * new_ospace
                                 + old_ospace \div 2) \div old_ospace)]
           used[i \in 0..num_wins] == IF i = 0 THEN 0 ELSE used[i - 1] + size[i]
           overrun == used[num_wins] - new_ospace
           Gives(i) == size[i] > 2 /\ Cardinality({j \in 1..(i - 1) : size[j] > 2}) < overrun
           given[i \in 1..num_wins] == IF Gives(i) THEN size[i] - 1 ELSE size[i]
           top[i \in 1..num_wins] == IF i = 1 THEN 0 ELSE top[i - 1] + given[i - 1] + 1
           Nth(w) == CHOOSE i \in 1..num_wins : order[i] = w
           kept == {order[i] : i \in 1..num_wins}
<1>1. /\ rows' = new_rows
      /\ ring' = order
      /\ Wtop' = [w \in Wins |-> IF w \in kept THEN top[Nth(w)] ELSE Wtop[w]]
      /\ Wbot' = [w \in Wins |-> IF w \in kept THEN top[Nth(w)] + given[Nth(w)] - 1 ELSE Wbot[w]]
      /\ active_win' = IF active_win \in kept THEN active_win ELSE order[num_wins]
  BY DEF ResizeScreen
<1>2. /\ term' = Drawn(new_rows, order, Wbot', active_win')
      /\ curs_loc' = "elsewhere" /\ UNCHANGED <<Wnl, curs_win, closing>>
  BY DEF ResizeScreen
<1>3. /\ ring \in Seq(Wins) /\ Len(ring) \in Nat /\ Len(ring) > 0 /\ rows \in Nat
      /\ Placed(ring, Wtop, Wbot)
  BY LayoutTypes DEF LayoutInv
<1>4. num_wins \in 1..Len(ring)
  <2>1. new_rows \in Nat /\ new_rows >= 4
    BY SizesAre
  <2>2. (new_rows - 1) \div 3 \in Nat /\ (new_rows - 1) \div 3 >= 1
    BY ONLY <2>1
  <2> QED BY ONLY <1>3, <2>2 DEF Min2
<1> HIDE DEF num_wins
<1>5. num_wins \in Nat /\ num_wins >= 1 /\ num_wins \in 0..Len(ring)
  BY <1>3, <1>4
<1>6. order \in Seq(Wins) /\ Len(order) = num_wins /\ \A i \in 1..num_wins : order[i] = ring[i]
  BY ONLY <1>3, <1>5, Halves
<1> HIDE DEF order
<1>7. \A i \in 1..num_wins : order[i] \in Wins
  BY ONLY <1>5, <1>6
<1>8. old_ospace \in Nat \ {0}
  BY SpaceShared
<1> HIDE DEF old_ospace
<1>9. new_ospace \in Int
  <2>1. order[num_wins] \in Wins
    BY <1>5, <1>7
  <2>2. Wbot[order[num_wins]] \in Nat /\ new_rows \in Nat
    BY <2>1, LayoutTypes, SizesAre
  <2>3. new_Isize \in Int
    BY ONLY <1>3, <1>5, <2>2 DEF Min2
  <2> HIDE DEF new_Isize
  <2> QED BY ONLY <1>5, <2>2, <2>3
<1> HIDE DEF new_ospace
<1>10. ASSUME NEW i \in 1..num_wins
       PROVE  size[i] \in Nat /\ size[i] >= 2
  <2>1. Wbot[order[i]] \in Nat /\ Wtop[order[i]] \in Nat
    BY <1>7, LayoutTypes
  <2> DEFINE h == Wbot[order[i]] - Wtop[order[i]] + 1
             x == (h * new_ospace + old_ospace \div 2) \div old_ospace
  <2>2. h \in Int
    BY ONLY <2>1
  <2>3. x \in Int
    <3> HIDE DEF h
    <3>1. h * new_ospace \in Int /\ old_ospace \div 2 \in Int
      BY ONLY <1>8, <1>9, <2>2
    <3>2. (h * new_ospace + old_ospace \div 2) \in Int
      BY ONLY <3>1
    <3> DEFINE z == h * new_ospace + old_ospace \div 2
    <3> HIDE DEF z
    <3>3. z \in Int
      BY <3>2 DEF z
    <3>4. z \div old_ospace \in Int
      BY ONLY <1>8, <3>3
    <3> QED BY <3>4 DEF z
  <2>4. size[i] = Max2(2, x)
    OBVIOUS
  <2> HIDE DEF x, size
  <2> QED BY ONLY <2>3, <2>4 DEF Max2
<1> HIDE DEF size
<1>11. given \in [1..num_wins -> Nat] /\ \A i \in 1..num_wins : given[i] >= 2
  <2>1. given = [i \in 1..num_wins |-> IF Gives(i) THEN size[i] - 1 ELSE size[i]]
    OBVIOUS
  <2>2. ASSUME NEW i \in 1..num_wins
        PROVE  given[i] \in Nat /\ given[i] >= 2
    <3>1. size[i] \in Nat /\ size[i] >= 2
      BY <1>10
    <3>2. given[i] = IF Gives(i) THEN size[i] - 1 ELSE size[i]
      BY <2>1
    <3> HIDE DEF given, overrun
    <3>3. CASE Gives(i)
      BY <3>1, <3>2, <3>3
    <3>4. CASE ~Gives(i)
      BY <3>1, <3>2, <3>4
    <3> QED BY <3>3, <3>4
  <2> QED BY <2>1, <2>2
<1> HIDE DEF given, Gives
<1>12. /\ top \in [1..num_wins -> Nat] /\ top[1] = 0
       /\ \A i \in 2..num_wins : top[i] = top[i - 1] + given[i - 1] + 1
  BY ONLY <1>5, <1>11, Places
<1> HIDE DEF top
<1>13. ASSUME NEW w \in kept
       PROVE  Nth(w) \in 1..num_wins /\ order[Nth(w)] = w
  OBVIOUS
<1>14. ASSUME NEW i \in 1..num_wins
       PROVE  order[i] \in kept /\ Nth(order[i]) = i
  <2>1. order[i] \in kept
    OBVIOUS
  <2>2. Nth(order[i]) \in 1..num_wins /\ order[Nth(order[i])] = order[i]
    BY <1>13, <2>1
  <2>3. Nth(order[i]) \in 1..Len(ring) /\ i \in 1..Len(ring)
    BY <1>4, <2>2
  <2> QED BY <1>3, <1>6, <2>1, <2>2, <2>3, PlacedTypes
<1> HIDE DEF kept, Nth
<1>15. ASSUME NEW w \in Wins
       PROVE  Wtop[w] \in Nat /\ Wbot[w] \in Nat
  BY LayoutTypes
<1>16. ASSUME NEW w \in kept
       PROVE  top[Nth(w)] \in Nat /\ top[Nth(w)] + given[Nth(w)] - 1 \in Nat
  <2>1. top[Nth(w)] \in Nat /\ given[Nth(w)] \in Nat /\ given[Nth(w)] >= 2
    BY <1>11, <1>12, <1>13
  <2> QED BY ONLY <2>1
<1>17. Wtop' \in [Wins -> Nat] /\ Wbot' \in [Wins -> Nat]
  BY <1>1, <1>15, <1>16
<1>18. ASSUME NEW i \in 1..num_wins
       PROVE  Wtop'[ring[i]] = top[i] /\ Wbot'[ring[i]] = top[i] + given[i] - 1
  BY <1>1, <1>6, <1>7, <1>14
<1>19. Placed(SubSeq(ring, 1, num_wins), Wtop', Wbot')
  BY ONLY <1>3, <1>4, <1>11, <1>12, <1>17, <1>18, SpreadPlaced
<1>20. ring' = SubSeq(ring, 1, num_wins)
  BY <1>1 DEF order
<1>21. DOMAIN order = 1..num_wins
  BY ONLY <1>5, <1>6
<1>22. Range(order) = kept
  BY <1>21 DEF Range, kept
<1>23. active_win' \in kept
  BY <1>1, <1>5, <1>14
<1> QED BY <1>1, <1>2, <1>19, <1>20, <1>22, <1>23

-----------------------------------------------------------------------------
(* The terminal.                                                           *)

Lines(n) == [0..(n - 1) -> Contents]
Terminals(n) == [line : Lines(n), top : 0..(n - 1), bot : 0..(n - 1), row : 0..(n - 1)]

LEMMA ContentsAre ==
  /\ Blank \in Contents /\ Input \in Contents /\ \A a \in BOOLEAN : Bar(a) \in Contents
  /\ \A w \in Wins : TextOf(w) \in Contents
BY DEF Contents

LEMMA HeightIs ==
  ASSUME NEW n \in Nat, n > 0, NEW t \in Terminals(n)
  PROVE  /\ Height(t) = n
         /\ \A r \in Nat : Nearest(t, r) \in 0..(n - 1) /\ (r < n => Nearest(t, r) = r)
         /\ Nearest(t, n - 1) = n - 1
<1>1. DOMAIN t.line = 0..(n - 1)
  BY DEF Terminals, Lines
<1>2. 0 \in Int /\ n - 1 \in Int /\ 0 <= n - 1
  OBVIOUS
<1>3. Cardinality(0..(n - 1)) = n
  <2>1. Cardinality(0..(n - 1)) = IF 0 > n - 1 THEN 0 ELSE (n - 1) - 0 + 1
    BY <1>2, FS_Interval
  <2> QED BY <1>2, <2>1
<1>4. Height(t) = n
  BY <1>1, <1>3 DEF Height
<1>5. ASSUME NEW r \in Nat
      PROVE  Nearest(t, r) \in 0..(n - 1) /\ (r < n => Nearest(t, r) = r)
  <2>1. Nearest(t, r) = IF r < n - 1 THEN r ELSE n - 1
    BY <1>4 DEF Nearest, Min2
  <2> QED BY <2>1
<1>6. Nearest(t, n - 1) = n - 1
  BY <1>4 DEF Nearest, Min2
<1> QED BY <1>4, <1>5, <1>6

LEMMA FieldsAre ==
  ASSUME NEW n, NEW t \in Terminals(n)
  PROVE  /\ t.line \in Lines(n) /\ t.top \in 0..(n - 1) /\ t.bot \in 0..(n - 1)
         /\ t.row \in 0..(n - 1)
         /\ \A r \in 0..(n - 1) : t.line[r] \in Contents
BY DEF Terminals, Lines

\* The scroll area and the cursor go where they are told, or to the last row.
LEMMA ScrollIs ==
  ASSUME NEW n \in Nat, n > 0, NEW t \in Terminals(n), NEW a \in Nat, NEW b \in Nat
  PROVE  /\ scroll(t, a, b) \in Terminals(n)
         /\ scroll(t, a, b).line = t.line /\ scroll(t, a, b).row = t.row
         /\ a < n => scroll(t, a, b).top = a
         /\ b < n => scroll(t, a, b).bot = b
<1>1. scroll(t, a, b) = [t EXCEPT !.top = Nearest(t, a), !.bot = Nearest(t, b)]
  BY DEF scroll
<1>2. /\ Nearest(t, a) \in 0..(n - 1) /\ Nearest(t, b) \in 0..(n - 1)
      /\ a < n => Nearest(t, a) = a
      /\ b < n => Nearest(t, b) = b
  BY HeightIs
<1>3. t \in [line : Lines(n), top : 0..(n - 1), bot : 0..(n - 1), row : 0..(n - 1)]
  BY DEF Terminals
<1>4. scroll(t, a, b) \in Terminals(n)
  BY ONLY <1>1, <1>2, <1>3 DEF Terminals
<1>5. /\ scroll(t, a, b).line = t.line /\ scroll(t, a, b).row = t.row
      /\ scroll(t, a, b).top = Nearest(t, a) /\ scroll(t, a, b).bot = Nearest(t, b)
  BY ONLY <1>1, <1>3
<1> QED BY <1>2, <1>4, <1>5

LEMMA CmoveIs ==
  ASSUME NEW n \in Nat, n > 0, NEW t \in Terminals(n), NEW r \in Nat
  PROVE  /\ cmove(t, r) \in Terminals(n)
         /\ cmove(t, r).line = t.line /\ cmove(t, r).top = t.top /\ cmove(t, r).bot = t.bot
         /\ r < n => cmove(t, r).row = r
<1>1. cmove(t, r) = [t EXCEPT !.row = Nearest(t, r)]
  BY DEF cmove
<1>2. Nearest(t, r) \in 0..(n - 1) /\ (r < n => Nearest(t, r) = r)
  BY HeightIs
<1>3. t \in [line : Lines(n), top : 0..(n - 1), bot : 0..(n - 1), row : 0..(n - 1)]
  BY DEF Terminals
<1>4. cmove(t, r) \in Terminals(n)
  BY ONLY <1>1, <1>2, <1>3 DEF Terminals
<1>5. /\ cmove(t, r).line = t.line /\ cmove(t, r).top = t.top /\ cmove(t, r).bot = t.bot
      /\ cmove(t, r).row = Nearest(t, r)
  BY ONLY <1>1, <1>3
<1> QED BY <1>2, <1>4, <1>5

\* What is written goes to the row of the cursor.
LEMMA PutIs ==
  ASSUME NEW n \in Nat, n > 0, NEW t \in Terminals(n), NEW c \in Contents
  PROVE  /\ Put(t, c) \in Terminals(n)
         /\ Put(t, c).top = t.top /\ Put(t, c).bot = t.bot /\ Put(t, c).row = t.row
         /\ \A r \in 0..(n - 1) : Put(t, c).line[r] = IF r = t.row THEN c ELSE t.line[r]
<1>1. t \in [line : Lines(n), top : 0..(n - 1), bot : 0..(n - 1), row : 0..(n - 1)]
  BY DEF Terminals
<1> DEFINE l == [t.line EXCEPT ![t.row] = c]
<1>2. Put(t, c) = [t EXCEPT !.line = l]
  BY DEF Put
<1>3. t.line \in Lines(n) /\ t.row \in 0..(n - 1)
  BY FieldsAre
<1>4. l \in Lines(n) /\ \A r \in 0..(n - 1) : l[r] = IF r = t.row THEN c ELSE t.line[r]
  BY <1>3 DEF Lines
<1> HIDE DEF l
<1>5. Put(t, c) \in Terminals(n)
  BY ONLY <1>1, <1>2, <1>4 DEF Terminals
<1>6. /\ Put(t, c).top = t.top /\ Put(t, c).bot = t.bot /\ Put(t, c).row = t.row
      /\ Put(t, c).line = l
  BY ONLY <1>1, <1>2
<1> QED BY <1>4, <1>5, <1>6

\* Lines move up and down within the scroll area.
LEMMA UpIs ==
  ASSUME NEW n \in Nat, n > 0, NEW l \in Lines(n), NEW a \in Nat, NEW b \in Nat, b < n, NEW m \in Nat
  PROVE  /\ Up(l, a, b, m) \in Lines(n)
         /\ \A r \in 0..(n - 1) : r < a \/ r > b => Up(l, a, b, m)[r] = l[r]
         /\ \A r \in a..b : r + m <= b => Up(l, a, b, m)[r] = l[r + m]
         /\ \A r \in a..b : r + m > b => Up(l, a, b, m)[r] = Blank
<1>1. DOMAIN l = 0..(n - 1) /\ \A r \in 0..(n - 1) : l[r] \in Contents
  BY DEF Lines
<1>2. Blank \in Contents
  BY ContentsAre
<1>3. Up(l, a, b, m) = [r \in 0..(n - 1) |-> IF r \notin a..b THEN l[r]
                                             ELSE IF r + m <= b THEN l[r + m] ELSE Blank]
  BY <1>1 DEF Up
<1>4. ASSUME NEW r \in a..b
      PROVE  r \in 0..(n - 1) /\ (r + m <= b => r + m \in 0..(n - 1))
  OBVIOUS
<1>5. Up(l, a, b, m) \in Lines(n)
  <2>1. ASSUME NEW r \in 0..(n - 1)
        PROVE  (IF r \notin a..b THEN l[r] ELSE IF r + m <= b THEN l[r + m] ELSE Blank) \in Contents
    BY <1>1, <1>2, <1>4
  <2> QED BY <1>3, <2>1 DEF Lines
<1>6. ASSUME NEW r \in 0..(n - 1), r < a \/ r > b
      PROVE  r \notin a..b
  BY <1>6
<1> QED BY <1>3, <1>4, <1>5, <1>6

LEMMA DownIs ==
  ASSUME NEW n \in Nat, n > 0, NEW l \in Lines(n), NEW a \in Nat, NEW b \in Nat, b < n, NEW m \in Nat
  PROVE  /\ Down(l, a, b, m) \in Lines(n)
         /\ \A r \in 0..(n - 1) : r < a \/ r > b => Down(l, a, b, m)[r] = l[r]
         /\ \A r \in a..b : r - m >= a => Down(l, a, b, m)[r] = l[r - m]
         /\ \A r \in a..b : r - m < a => Down(l, a, b, m)[r] = Blank
<1>1. DOMAIN l = 0..(n - 1) /\ \A r \in 0..(n - 1) : l[r] \in Contents
  BY DEF Lines
<1>2. Blank \in Contents
  BY ContentsAre
<1>3. Down(l, a, b, m) = [r \in 0..(n - 1) |-> IF r \notin a..b THEN l[r]
                                               ELSE IF r - m >= a THEN l[r - m] ELSE Blank]
  BY <1>1 DEF Down
<1>4. ASSUME NEW r \in a..b
      PROVE  /\ r \in 0..(n - 1) /\ (r - m >= a => r - m \in 0..(n - 1))
             /\ (r - m < a => ~(r - m >= a))
  OBVIOUS
<1>5. Down(l, a, b, m) \in Lines(n)
  <2>1. ASSUME NEW r \in 0..(n - 1)
        PROVE  (IF r \notin a..b THEN l[r] ELSE IF r - m >= a THEN l[r - m] ELSE Blank) \in Contents
    BY <1>1, <1>2, <1>4
  <2> QED BY <1>3, <2>1 DEF Lines
<1>6. ASSUME NEW r \in 0..(n - 1), r < a \/ r > b
      PROVE  r \notin a..b
  BY <1>6
<1> QED BY <1>3, <1>4, <1>5, <1>6

LEMMA FwdIs ==
  ASSUME NEW n \in Nat, n > 0, NEW t \in Terminals(n), NEW m \in Nat
  PROVE  /\ scr_fwd(t, m) \in Terminals(n)
         /\ scr_fwd(t, m).line = Up(t.line, t.top, t.bot, m)
         /\ scr_fwd(t, m).top = t.top /\ scr_fwd(t, m).bot = t.bot /\ scr_fwd(t, m).row = t.bot
<1> DEFINE l == Up(t.line, t.top, t.bot, m)
<1>1. t \in [line : Lines(n), top : 0..(n - 1), bot : 0..(n - 1), row : 0..(n - 1)]
  BY DEF Terminals
<1>2. t.line \in Lines(n) /\ t.top \in Nat /\ t.bot \in Nat /\ t.bot < n /\ t.bot \in 0..(n - 1)
  BY FieldsAre
<1>3. l \in Lines(n)
  BY ONLY <1>2, n \in Nat, n > 0, m \in Nat, UpIs
<1>4. scr_fwd(t, m) = [t EXCEPT !.line = l, !.row = t.bot]
  BY DEF scr_fwd
<1> HIDE DEF l
<1>5. scr_fwd(t, m) \in Terminals(n)
  BY ONLY <1>1, <1>2, <1>3, <1>4 DEF Terminals
<1>6. /\ scr_fwd(t, m).line = l /\ scr_fwd(t, m).row = t.bot
      /\ scr_fwd(t, m).top = t.top /\ scr_fwd(t, m).bot = t.bot
  BY ONLY <1>1, <1>4
<1> QED BY <1>5, <1>6 DEF l

LEMMA RevIs ==
  ASSUME NEW n \in Nat, n > 0, NEW t \in Terminals(n), NEW m \in Nat
  PROVE  /\ scr_rev(t, m) \in Terminals(n)
         /\ scr_rev(t, m).line = Down(t.line, t.top, t.bot, m)
         /\ scr_rev(t, m).top = t.top /\ scr_rev(t, m).bot = t.bot /\ scr_rev(t, m).row = t.top
<1> DEFINE l == Down(t.line, t.top, t.bot, m)
<1>1. t \in [line : Lines(n), top : 0..(n - 1), bot : 0..(n - 1), row : 0..(n - 1)]
  BY DEF Terminals
<1>2. t.line \in Lines(n) /\ t.top \in Nat /\ t.bot \in Nat /\ t.bot < n /\ t.top \in 0..(n - 1)
  BY FieldsAre
<1>3. l \in Lines(n)
  BY ONLY <1>2, n \in Nat, n > 0, m \in Nat, DownIs
<1>4. scr_rev(t, m) = [t EXCEPT !.line = l, !.row = t.top]
  BY DEF scr_rev
<1> HIDE DEF l
<1>5. scr_rev(t, m) \in Terminals(n)
  BY ONLY <1>1, <1>2, <1>3, <1>4 DEF Terminals
<1>6. /\ scr_rev(t, m).line = l /\ scr_rev(t, m).row = t.top
      /\ scr_rev(t, m).top = t.top /\ scr_rev(t, m).bot = t.bot
  BY ONLY <1>1, <1>4
<1> QED BY <1>5, <1>6 DEF l

\* A newline moves the cursor, or the lines.
LEMMA NewlineIs ==
  ASSUME NEW n \in Nat, n > 0, NEW t \in Terminals(n)
  PROVE  /\ Newline(t) \in Terminals(n)
         /\ t.row = t.bot => /\ Newline(t).line = Up(t.line, t.top, t.bot, 1)
                             /\ Newline(t).top = t.top /\ Newline(t).bot = t.bot
                             /\ Newline(t).row = t.row
<1> DEFINE l == Up(t.line, t.top, t.bot, 1)
<1>1. t \in [line : Lines(n), top : 0..(n - 1), bot : 0..(n - 1), row : 0..(n - 1)]
  BY DEF Terminals
<1>2. t.line \in Lines(n) /\ t.top \in Nat /\ t.bot \in Nat /\ t.bot < n /\ t.row \in Nat
      /\ 1 \in Nat /\ t.row + 1 \in Nat
  BY FieldsAre
<1>3. l \in Lines(n)
  BY ONLY <1>2, n \in Nat, n > 0, UpIs
<1>4. CASE t.row = t.bot
  <2>1. Newline(t) = [t EXCEPT !.line = l]
    BY <1>4 DEF Newline
  <2> HIDE DEF l
  <2>2. Newline(t) \in Terminals(n)
    BY ONLY <1>1, <1>3, <2>1 DEF Terminals
  <2>3. /\ Newline(t).line = l /\ Newline(t).row = t.row
        /\ Newline(t).top = t.top /\ Newline(t).bot = t.bot
    BY ONLY <1>1, <2>1
  <2> QED BY <2>2, <2>3 DEF l
<1>5. CASE t.row # t.bot
  <2>1. Newline(t) = cmove(t, t.row + 1)
    BY <1>5 DEF Newline
  <2> QED BY <1>2, <1>5, <2>1, CmoveIs
<1> QED BY <1>4, <1>5

LEMMA ClearIs ==
  ASSUME NEW n \in Nat, n > 0, NEW t \in Terminals(n), NEW a \in Nat, NEW b \in Nat
  PROVE  /\ clear_space(t, a, b, n) \in Terminals(n)
         /\ \A r \in 0..(n - 1) : clear_space(t, a, b, n).line[r]
                                    = IF r \in a..b THEN Blank ELSE t.line[r]
<1> DEFINE s == scroll(t, 0, n - 1)
           l == [r \in DOMAIN t.line |-> IF r \in a..b THEN Blank ELSE t.line[r]]
<1>1. 0 \in Nat /\ n - 1 \in Nat
  OBVIOUS
<1>2. s \in Terminals(n) /\ s.line = t.line
  BY ONLY <1>1, n \in Nat, n > 0, t \in Terminals(n), ScrollIs
<1> HIDE DEF s
<1>3. DOMAIN t.line = 0..(n - 1) /\ \A r \in 0..(n - 1) : t.line[r] \in Contents
  BY FieldsAre DEF Lines
<1>4. l \in Lines(n) /\ \A r \in 0..(n - 1) : l[r] = IF r \in a..b THEN Blank ELSE t.line[r]
  BY <1>3, ContentsAre DEF Lines
<1> HIDE DEF l
<1>5. Nearest(t, b) \in 0..(n - 1)
  BY HeightIs
<1>6. clear_space(t, a, b, n) = [s EXCEPT !.line = l, !.row = Nearest(t, b)]
  BY DEF clear_space, s, l
<1>7. s \in [line : Lines(n), top : 0..(n - 1), bot : 0..(n - 1), row : 0..(n - 1)]
  BY <1>2 DEF Terminals
<1>8. clear_space(t, a, b, n) \in Terminals(n)
  BY ONLY <1>4, <1>5, <1>6, <1>7 DEF Terminals
<1>9. clear_space(t, a, b, n).line = l
  BY ONLY <1>6, <1>7
<1> QED BY <1>4, <1>8, <1>9

LEMMA BarIs == \A a \in BOOLEAN : Bar(a) \in Contents
BY ContentsAre

\* A divider is drawn below row b, where the screen has one.
LEMMA MarkIs ==
  ASSUME NEW n \in Nat, n > 0, NEW t \in Terminals(n), NEW b \in Nat, NEW a \in BOOLEAN
  PROVE  /\ mark(t, b, a) \in Terminals(n)
         /\ b + 1 < n => \A r \in 0..(n - 1) : mark(t, b, a).line[r]
                                                 = IF r = b + 1 THEN Bar(a) ELSE t.line[r]
<1> DEFINE u == cmove(t, b + 1)
<1>1. b + 1 \in Nat
  OBVIOUS
<1>2. u \in Terminals(n) /\ u.line = t.line /\ (b + 1 < n => u.row = b + 1)
  BY ONLY <1>1, n \in Nat, n > 0, t \in Terminals(n), CmoveIs
<1>3. mark(t, b, a) = Put(u, Bar(a)) /\ Bar(a) \in Contents
  BY BarIs DEF mark
<1> HIDE DEF u
<1>4. /\ Put(u, Bar(a)) \in Terminals(n)
      /\ \A r \in 0..(n - 1) : Put(u, Bar(a)).line[r] = IF r = u.row THEN Bar(a) ELSE u.line[r]
  BY ONLY <1>2, <1>3, n \in Nat, n > 0, PutIs
<1> QED BY <1>2, <1>3, <1>4

LEMMA DividerIs ==
  ASSUME NEW n \in Nat, n > 0, NEW t \in Terminals(n), NEW b \in Nat, NEW a \in BOOLEAN
  PROVE  /\ draw_Divider(t, b, a, n) \in Terminals(n)
         /\ b + 1 < n => \A r \in 0..(n - 1) : draw_Divider(t, b, a, n).line[r]
                                                 = IF r = b + 1 THEN Bar(a) ELSE t.line[r]
<1> DEFINE u == scroll(t, 0, n - 1)
<1>1. 0 \in Nat /\ n - 1 \in Nat
  OBVIOUS
<1>2. u \in Terminals(n) /\ u.line = t.line
  BY ONLY <1>1, n \in Nat, n > 0, t \in Terminals(n), ScrollIs
<1>3. draw_Divider(t, b, a, n) = mark(u, b, a)
  BY DEF draw_Divider, mark
<1> HIDE DEF u
<1>4. /\ mark(u, b, a) \in Terminals(n)
      /\ b + 1 < n => \A r \in 0..(n - 1) : mark(u, b, a).line[r]
                                              = IF r = b + 1 THEN Bar(a) ELSE u.line[r]
  BY ONLY <1>2, n \in Nat, n > 0, b \in Nat, a \in BOOLEAN, MarkIs
<1> QED BY <1>2, <1>3, <1>4

-----------------------------------------------------------------------------
(* What the screen shows.                                                  *)

\* There is an input window below the windows of s.
Fits(s, bot, n) == bot[s[Len(s)]] + 3 <= n

\* Nothing but text and dividers where they belong, and an input window.
Shows(line, s, top, bot, active, n) ==
  /\ \A i \in 1..Len(s) : \A r \in top[s[i]]..bot[s[i]] : line[r] \in {Blank, TextOf(s[i])}
  /\ \A i \in 1..Len(s) : line[bot[s[i]] + 1] = Bar(s[i] = active)
  /\ \A r \in (bot[s[Len(s)]] + 2)..(n - 1) : line[r] \in {Blank, Input}

\* All rows of the layout are rows of the screen.
LEMMA OnScreen ==
  ASSUME NEW s, NEW top, NEW bot, Placed(s, top, bot), NEW n \in Nat, Fits(s, bot, n),
         NEW i \in 1..Len(s)
  PROVE  /\ top[s[i]] \in 0..(n - 1) /\ bot[s[i]] \in 0..(n - 1) /\ bot[s[i]] + 1 \in 0..(n - 1)
         /\ top[s[i]] < bot[s[i]] /\ bot[s[i]] + 2 < n
         /\ \A r \in top[s[i]]..bot[s[i]] : r \in 0..(n - 1)
         /\ \A r \in (bot[s[i]] + 2)..(n - 1) : r \in 0..(n - 1)
<1>1. Len(s) \in 1..Len(s) /\ top[s[i]] \in Nat /\ bot[s[i]] \in Nat /\ bot[s[Len(s)]] \in Nat
  BY PlacedTypes
<1>2. bot[s[i]] <= bot[s[Len(s)]]
  BY <1>1, Apart
<1>3. bot[s[i]] >= top[s[i]] + 1
  BY DEF Placed
<1>4. bot[s[Len(s)]] + 3 <= n
  BY DEF Fits
<1> DEFINE a == top[s[i]]
           b == bot[s[i]]
           c == bot[s[Len(s)]]
<1>5. a \in Nat /\ b \in Nat /\ c \in Nat /\ b <= c /\ b >= a + 1 /\ c + 3 <= n
  BY <1>1, <1>2, <1>3, <1>4
<1> HIDE DEF a, b, c
<1>6. /\ a \in 0..(n - 1) /\ b \in 0..(n - 1) /\ b + 1 \in 0..(n - 1)
      /\ a < b /\ b + 2 < n
      /\ \A r \in a..b : r \in 0..(n - 1)
      /\ \A r \in (b + 2)..(n - 1) : r \in 0..(n - 1)
  BY ONLY <1>5, n \in Nat
<1> QED BY <1>6 DEF a, b

\* redraw_screen() draws dividers, and a prompt in the last row.
LEMMA DrawnIs ==
  ASSUME NEW n \in Nat, n > 0, NEW s, NEW top, NEW bot, Placed(s, top, bot), NEW active
  PROVE  /\ Drawn(n, s, bot, active) \in Terminals(n)
         /\ Drawn(n, s, bot, active).row = n - 1
         /\ Fits(s, bot, n) => Shows(Drawn(n, s, bot, active).line, s, top, bot, active, n)
<1> DEFINE k == Len(s)
           clear == [line |-> [r \in 0..(n - 1) |-> Blank], top |-> 0,
                     bot |-> n - 1, row |-> 0]
           step(u, i) == draw_Divider(u, bot[s[i]], s[i] = active, n)
           t[i \in 0..k] == IF i = 0 THEN clear ELSE step(t[i - 1], i)
           g == [p \in Terminals(n) \X (1..k) |-> step(p[1], p[2])]
<1>1. k \in Nat /\ k > 0 /\ \A i \in 1..k : bot[s[i]] \in Nat
  BY PlacedTypes
<1>2. Drawn(n, s, bot, active) = Put(cmove(t[k], n - 1), Input)
  BY DEF Drawn
<1>3. clear \in Terminals(n) /\ \A r \in 0..(n - 1) : clear.line[r] = Blank
  BY ContentsAre DEF Terminals, Lines
<1>4. ASSUME NEW i \in 1..k, NEW u \in Terminals(n)
      PROVE  /\ step(u, i) \in Terminals(n)
             /\ bot[s[i]] + 1 < n => \A r \in 0..(n - 1) :
                  step(u, i).line[r] = IF r = bot[s[i]] + 1 THEN Bar(s[i] = active) ELSE u.line[r]
  <2>1. bot[s[i]] \in Nat /\ (s[i] = active) \in BOOLEAN
    BY <1>1
  <2> QED BY ONLY <2>1, n \in Nat, n > 0, u \in Terminals(n), DividerIs
<1>5. g \in [Terminals(n) \X (1..k) -> Terminals(n)]
  <2> HIDE DEF step, k
  <2> QED BY <1>4
<1>6. \A x \in Terminals(n), i \in 1..k : g[<<x, i>>] = step(x, i)
  OBVIOUS
<1> HIDE DEF clear, step, g, k
<1>7. PICK h \in [0..k -> Terminals(n)] : h[0] = clear /\ \A i \in 1..k : h[i] = step(h[i - 1], i)
  <2>1. Stepping(Terminals(n), k, clear, g)
    BY <1>1, <1>3, <1>5 DEF Stepping
  <2>2. PICK h \in [0..k -> Terminals(n)] : h[0] = clear /\ \A i \in 1..k : h[i] = g[<<h[i - 1], i>>]
    BY ONLY <2>1, Iterate
  <2>3. ASSUME NEW i \in 1..k PROVE h[i] = step(h[i - 1], i)
    <3>1. i - 1 \in 0..k
      BY <1>1
    <3> QED BY <1>6, <2>2, <3>1
  <2> QED BY <2>2, <2>3
<1>8. h = [i \in 0..k |-> IF i = 0 THEN clear ELSE step(h[i - 1], i)]
  BY <1>1, <1>7
<1>9. t = [i \in 0..k |-> IF i = 0 THEN clear ELSE step(t[i - 1], i)]
  BY <1>8 DEF t
<1> HIDE DEF t
<1>10. t[0] = clear /\ \A i \in 1..k : t[i] = step(t[i - 1], i)
  BY <1>1, <1>9
<1> DEFINE Bars(i) == /\ \A j \in 1..i : t[i].line[bot[s[j]] + 1] = Bar(s[j] = active)
                      /\ \A r \in 0..(n - 1) : (\A j \in 1..i : r # bot[s[j]] + 1)
                                                 => t[i].line[r] = Blank
           U == {i \in 0..k : t[i] \in Terminals(n) /\ (Fits(s, bot, n) => Bars(i))}
<1>11. 0 \in U
  <2>1. 0 \in 0..k /\ \A j \in 1..0 : FALSE
    BY <1>1
  <2> QED BY <1>3, <1>10, <2>1
<1>12. ASSUME NEW i \in 1..k, i - 1 \in U PROVE i \in U
  <2>1. i \in 0..k /\ i \in Int
    BY <1>1
  <2>2. t[i] = step(t[i - 1], i) /\ t[i - 1] \in Terminals(n)
    BY <1>10, <1>12
  <2>3. t[i] \in Terminals(n)
    BY <1>4, <2>2
  <2>4. ASSUME Fits(s, bot, n) PROVE Bars(i)
    <3>1. \A j \in 1..k : bot[s[j]] + 1 \in 0..(n - 1) /\ bot[s[j]] \in Nat
      BY <1>1, <2>4, OnScreen DEF k
    <3>2. bot[s[i]] + 1 < n
      BY <3>1
    <3>3. \A r \in 0..(n - 1) : t[i].line[r]
            = IF r = bot[s[i]] + 1 THEN Bar(s[i] = active) ELSE t[i - 1].line[r]
      BY <1>4, <2>2, <3>2
    <3>4. Bars(i - 1)
      BY <1>12, <2>4
    <3>5. ASSUME NEW j \in 1..i PROVE t[i].line[bot[s[j]] + 1] = Bar(s[j] = active)
      <4>1. j \in 1..k /\ j \in Int /\ j <= i
        BY <1>1, <2>1
      <4>2. bot[s[j]] + 1 \in 0..(n - 1)
        BY <3>1, <4>1
      <4>3. CASE j = i
        BY <3>3, <4>2, <4>3
      <4>4. CASE j < i
        <5>1. j \in 1..(i - 1)
          BY <2>1, <4>1, <4>4
        <5>2. bot[s[j]] + 2 <= top[s[i]] /\ bot[s[i]] >= top[s[i]] + 1 /\ top[s[i]] \in Nat
              /\ bot[s[i]] \in Nat /\ bot[s[j]] \in Nat
          BY <4>1, <4>4, Apart, PlacedTypes DEF k, Placed
        <5> DEFINE x == bot[s[j]]
                   y == bot[s[i]]
                   z == top[s[i]]
        <5>3. x + 1 # y + 1
          <6>1. x \in Nat /\ y \in Nat /\ z \in Nat /\ x + 2 <= z /\ y >= z + 1
            BY <5>2
          <6> HIDE DEF x, y, z
          <6> QED BY ONLY <6>1
        <5> QED BY <3>3, <3>4, <4>2, <5>1, <5>3
      <4> QED BY <2>1, <4>1, <4>3, <4>4
    <3>6. ASSUME NEW r \in 0..(n - 1), \A j \in 1..i : r # bot[s[j]] + 1
          PROVE  t[i].line[r] = Blank
      <4>1. i \in 1..i /\ \A j \in 1..(i - 1) : j \in 1..i
        BY <2>1
      <4> QED BY <3>3, <3>4, <3>6, <4>1
    <3> QED BY <3>5, <3>6
  <2> HIDE DEF Bars
  <2> QED BY <2>1, <2>3, <2>4
<1>13. \A i \in 0..k : i \in U
  <2> HIDE DEF U
  <2> QED BY ONLY <1>1, <1>11, <1>12, Upward
<1>14. t[k] \in Terminals(n) /\ (Fits(s, bot, n) => Bars(k))
  <2>1. k \in 0..k
    BY <1>1
  <2> HIDE DEF Bars
  <2> QED BY <1>13, <2>1
<1> DEFINE u == cmove(t[k], n - 1)
<1>15. u \in Terminals(n) /\ u.line = t[k].line /\ u.row = n - 1
  <2>1. n - 1 \in Nat /\ n - 1 < n
    OBVIOUS
  <2> QED BY ONLY <1>14, <2>1, n \in Nat, n > 0, CmoveIs
<1> HIDE DEF u
<1>16. /\ Put(u, Input) \in Terminals(n) /\ Put(u, Input).row = n - 1
       /\ \A r \in 0..(n - 1) : Put(u, Input).line[r] = IF r = n - 1 THEN Input ELSE t[k].line[r]
  <2>1. Input \in Contents
    BY ContentsAre
  <2> QED BY <1>15, <2>1, PutIs
<1>17. ASSUME Fits(s, bot, n)
       PROVE  Shows(Put(u, Input).line, s, top, bot, active, n)
  <2> DEFINE l == Put(u, Input).line
  <2>1. \A r \in 0..(n - 1) : l[r] = IF r = n - 1 THEN Input ELSE t[k].line[r]
    BY <1>16
  <2> HIDE DEF l
  <2>2. Bars(k)
    BY <1>14, <1>17
  <2>3. ASSUME NEW i \in 1..k
        PROVE  l[bot[s[i]] + 1] = Bar(s[i] = active)
    <3>1. bot[s[i]] + 1 \in 0..(n - 1) /\ bot[s[i]] \in Nat /\ bot[s[i]] + 2 < n
      BY <1>1, <1>17, OnScreen DEF k
    <3>2. bot[s[i]] + 1 # n - 1
      BY <3>1
    <3> QED BY <2>1, <2>2, <3>1, <3>2
  <2>4. ASSUME NEW i \in 1..k, NEW r \in top[s[i]]..bot[s[i]]
        PROVE  l[r] = Blank
    <3>1. r \in 0..(n - 1) /\ bot[s[i]] + 2 < n /\ bot[s[i]] \in Nat /\ top[s[i]] \in Nat
      BY <1>17, OnScreen, PlacedTypes DEF k
    <3>2. r # n - 1
      BY <3>1
    <3>3. ASSUME NEW j \in 1..k PROVE r # bot[s[j]] + 1
      <4>1. /\ bot[s[j]] \in Nat /\ top[s[j]] \in Nat /\ bot[s[j]] >= top[s[j]] + 1
            /\ i < j => bot[s[i]] + 2 <= top[s[j]]
            /\ j < i => bot[s[j]] + 2 <= top[s[i]]
        BY Apart, PlacedTypes DEF k, Placed
      <4>2. i \in Int /\ j \in Int
        BY <1>1
      <4> DEFINE a == top[s[i]]
                 b == bot[s[i]]
                 c == top[s[j]]
                 d == bot[s[j]]
      <4>3. r \in a..b /\ a \in Nat /\ b \in Nat
        BY <3>1
      <4>4. /\ c \in Nat /\ d \in Nat /\ d >= c + 1
            /\ i < j => b + 2 <= c
            /\ j < i => d + 2 <= a
            /\ i = j => d = b
        BY <4>1
      <4> HIDE DEF a, b, c, d
      <4>5. r # d + 1
        BY ONLY <4>2, <4>3, <4>4
      <4> QED BY <4>5 DEF d
    <3> QED BY <2>1, <2>2, <3>1, <3>2, <3>3
  <2>5. ASSUME NEW r \in (bot[s[k]] + 2)..(n - 1)
        PROVE  l[r] \in {Blank, Input}
    <3>1. k \in 1..k
      BY <1>1
    <3>2. r \in 0..(n - 1) /\ bot[s[k]] \in Nat
      BY <1>1, <1>17, <3>1, OnScreen DEF k
    <3>3. ASSUME NEW j \in 1..k PROVE r # bot[s[j]] + 1
      <4>1. bot[s[j]] <= bot[s[k]] /\ bot[s[j]] \in Nat
        BY <1>1, Apart DEF k
      <4> QED BY <3>2, <4>1
    <3> QED BY <2>1, <2>2, <3>2, <3>3
  <2>6. Shows(l, s, top, bot, active, n)
    BY <2>3, <2>4, <2>5 DEF Shows, k
  <2> QED BY <2>6 DEF l
<1>18. Drawn(n, s, bot, active) = Put(u, Input)
  BY <1>2 DEF u
<1> QED BY <1>16, <1>17, <1>18

-----------------------------------------------------------------------------
(* Types.                                                                  *)

TypeInv ==
  /\ LayoutInv
  /\ Wnl \in [Wins -> BOOLEAN]
  /\ term \in Terminals(rows)
  /\ curs_loc \in {"input", "window", "elsewhere"}
  /\ curs_win \in Wins \cup {None}
  /\ closing \in Nat

LEMMA TypeInvTiled ==
  ASSUME TypeInv
  PROVE  Tiled
<1>1. TypeOK
  BY LayoutTypes DEF TypeInv, TypeOK, LayoutInv, Placed, Terminals, Lines, Rows
<1>2. DOMAIN ring = 1..Len(ring) /\ Placed(ring, Wtop, Wbot) /\ active_win \in Shown
  BY LayoutTypes DEF TypeInv, LayoutInv
<1> QED BY <1>1, <1>2 DEF Tiled, Placed

LEMMA InputShownFits ==
  ASSUME LayoutInv
  PROVE  InputShown <=> Fits(ring, Wbot, rows)
<1>1. rows \in Nat /\ Lowest = ring[Len(ring)] /\ Wbot[Lowest] \in Nat
  BY LayoutTypes
<1>2. InputShown <=> rows - (Wbot[Lowest] + 2) >= 1
  BY DEF InputShown, Isize, Itop
<1>3. (rows - (Wbot[Lowest] + 2) >= 1) <=> (Wbot[Lowest] + 3 <= rows)
  BY ONLY <1>1
<1> QED BY <1>1, <1>2, <1>3 DEF Fits

LEMMA PaintedShows ==
  ASSUME LayoutInv
  PROVE  Painted <=> Shows(term.line, ring, Wtop, Wbot, active_win, rows)
<1>1. DOMAIN ring = 1..Len(ring) /\ Lowest = ring[Len(ring)]
  BY LayoutTypes
<1>2. Shown = {ring[i] : i \in 1..Len(ring)} /\ Itop = Wbot[ring[Len(ring)]] + 2
  BY <1>1 DEF Shown, Itop
<1>3. ASSUME Painted
      PROVE  Shows(term.line, ring, Wtop, Wbot, active_win, rows)
  BY <1>2, <1>3 DEF Painted, Shows
<1>4. ASSUME Shows(term.line, ring, Wtop, Wbot, active_win, rows)
      PROVE  Painted
  BY <1>2, <1>4 DEF Painted, Shows
<1> QED BY <1>3, <1>4

Strokes == {"text", "\n", "\f"}

LEMMA ItemType ==
  ASSUME LayoutInv, NEW t \in Terminals(rows), NEW w \in Wins, NEW c \in Strokes
  PROVE  Item(t, w, c) \in Terminals(rows)
<1>1. rows \in Nat /\ rows > 0 /\ Wtop[w] \in Nat /\ Wbot[w] \in Nat /\ TextOf(w) \in Contents
  BY LayoutTypes, ContentsAre
<1>2. CASE c = "text"
  <2>1. Item(t, w, c) = Put(t, TextOf(w))
    BY <1>2 DEF Item
  <2> QED BY <1>1, <2>1, PutIs
<1>3. CASE c = "\n"
  <2>1. Item(t, w, c) = Newline(t)
    BY <1>3 DEF Item
  <2> QED BY <1>1, <2>1, NewlineIs
<1>4. CASE c = "\f"
  <2>1. Item(t, w, c) = clear_space(t, Wtop[w], Wbot[w], rows)
    BY <1>4 DEF Item
  <2> QED BY <1>1, <2>1, ClearIs
<1> QED BY <1>2, <1>3, <1>4 DEF Strokes

\* What output() writes: a newline that was pending, then the text without a
\* newline at its end.
Items(w, text) ==
  (IF Wnl[w] THEN <<"\n">> ELSE <<>>)
     \o SubSeq(text, 1, IF text[Len(text)] = "\n" THEN Len(text) - 1 ELSE Len(text))

LEMMA ItemsAre ==
  ASSUME NEW w, NEW text \in Texts
  PROVE  /\ Items(w, text) \in Seq(Strokes) /\ Len(Items(w, text)) \in Nat
         /\ (\A i \in DOMAIN text : text[i] # "\f")
              => \A i \in 1..Len(Items(w, text)) : Items(w, text)[i] # "\f"
<1> DEFINE a == IF Wnl[w] THEN <<"\n">> ELSE <<>>
           m == IF text[Len(text)] = "\n" THEN Len(text) - 1 ELSE Len(text)
           b == SubSeq(text, 1, m)
<1>1. text \in Seq(Strokes) /\ text # <<>>
  BY ScreenAssumption DEF Strokes
<1>2. Len(text) \in Nat /\ Len(text) > 0 /\ DOMAIN text = 1..Len(text)
      /\ \A i \in 1..Len(text) : text[i] \in Strokes
  BY <1>1
<1>3. m \in 0..Len(text)
  BY <1>2
<1> HIDE DEF m
<1>4. b \in Seq(Strokes) /\ Len(b) = m /\ \A i \in 1..m : b[i] = text[i]
  BY ONLY <1>1, <1>3, Halves
<1> HIDE DEF b
<1>5. a \in Seq(Strokes) /\ Len(a) \in Nat /\ \A i \in 1..Len(a) : a[i] = "\n"
  <2>1. CASE Wnl[w]
    BY <2>1 DEF Strokes
  <2>2. CASE ~Wnl[w]
    BY <2>2
  <2> QED BY <2>1, <2>2
<1>6. Items(w, text) = a \o b
  BY DEF Items, b, m
<1> HIDE DEF a
<1>7. /\ a \o b \in Seq(Strokes) /\ Len(a \o b) = Len(a) + Len(b)
      /\ \A i \in 1..(Len(a) + Len(b)) : (a \o b)[i] = IF i <= Len(a) THEN a[i] ELSE b[i - Len(a)]
  BY ONLY <1>4, <1>5, ConcatProperties
<1>8. m \in Nat /\ Len(a) \in Nat
  BY <1>2, <1>3, <1>5
<1>9. ASSUME \A i \in DOMAIN text : text[i] # "\f", NEW i \in 1..(Len(a) + Len(b))
      PROVE  (a \o b)[i] # "\f"
  <2>1. CASE i <= Len(a)
    <3>1. i \in 1..Len(a) /\ (a \o b)[i] = a[i]
      BY <1>7, <1>8, <2>1
    <3>2. a[i] = "\n"
      BY <1>5, <3>1
    <3> QED BY <3>1, <3>2
  <2>2. CASE i > Len(a)
    <3>1. i - Len(a) \in 1..m /\ (a \o b)[i] = b[i - Len(a)]
      BY <1>4, <1>7, <1>8, <2>2
    <3>2. b[i - Len(a)] = text[i - Len(a)] /\ i - Len(a) \in DOMAIN text
      BY <1>2, <1>3, <1>4, <3>1
    <3> QED BY <1>9, <3>1, <3>2
  <2> QED BY <1>4, <1>8, <2>1, <2>2
<1> QED BY <1>4, <1>6, <1>7, <1>8, <1>9

\* The terminal goes through the items one by one.
LEMMA OutputSteps ==
  ASSUME LayoutInv, NEW w \in Wins, NEW text \in Texts, output(w, text),
         curs_window(term, w) \in Terminals(rows)
  PROVE  \E t : /\ t \in [0..Len(Items(w, text)) -> Terminals(rows)]
                /\ t[0] = curs_window(term, w)
                /\ \A i \in 1..Len(Items(w, text)) : t[i] = Item(t[i - 1], w, Items(w, text)[i])
                /\ term' = t[Len(Items(w, text))]
<1> DEFINE items == Items(w, text)
           n == Len(items)
           e == curs_window(term, w)
           step(u, i) == Item(u, w, items[i])
           t[i \in 0..n] == IF i = 0 THEN e ELSE step(t[i - 1], i)
           T == Terminals(rows)
           g == [p \in T \X (1..n) |-> step(p[1], p[2])]
<1>1. term' = t[n]
  BY DEF output, Items
<1>2. n \in Nat /\ \A i \in 1..n : items[i] \in Strokes
  BY ItemsAre
<1> HIDE DEF items, n, e, T
<1>3. ASSUME NEW u \in T, NEW i \in 1..n PROVE step(u, i) \in T
  BY <1>2, ItemType DEF T
<1>4. e \in T
  BY DEF e, T
<1>5. g \in [T \X (1..n) -> T]
  <2> HIDE DEF step
  <2> QED BY <1>3
<1>6. \A x \in T, i \in 1..n : g[<<x, i>>] = step(x, i)
  OBVIOUS
<1> HIDE DEF step, g
<1>7. PICK h \in [0..n -> T] : h[0] = e /\ \A i \in 1..n : h[i] = step(h[i - 1], i)
  <2>1. Stepping(T, n, e, g)
    BY <1>2, <1>4, <1>5 DEF Stepping
  <2>2. PICK h \in [0..n -> T] : h[0] = e /\ \A i \in 1..n : h[i] = g[<<h[i - 1], i>>]
    BY ONLY <2>1, Iterate
  <2>3. ASSUME NEW i \in 1..n PROVE h[i] = step(h[i - 1], i)
    <3>1. i - 1 \in 0..n
      BY <1>2
    <3> QED BY <1>6, <2>2, <3>1
  <2> QED BY <2>2, <2>3
<1>8. h = [i \in 0..n |-> IF i = 0 THEN e ELSE step(h[i - 1], i)]
  BY <1>2, <1>7
<1>9. t = [i \in 0..n |-> IF i = 0 THEN e ELSE step(t[i - 1], i)]
  BY <1>8 DEF t
<1> HIDE DEF t
<1>10. t[0] = e /\ \A i \in 1..n : t[i] = step(t[i - 1], i)
  BY <1>2, <1>9
<1> DEFINE U == {i \in 0..n : t[i] \in T}
<1>11. 0 \in U
  BY <1>2, <1>4, <1>10
<1>12. ASSUME NEW i \in 1..n, i - 1 \in U PROVE i \in U
  <2>1. i \in 0..n
    BY <1>2
  <2> QED BY <1>3, <1>10, <1>12, <2>1 DEF step
<1>13. \A i \in 0..n : i \in U
  <2> HIDE DEF U
  <2> QED BY ONLY <1>2, <1>11, <1>12, Upward
<1>14. t \in [0..n -> T]
  BY <1>9, <1>13
<1>15. /\ t \in [0..n -> T] /\ t[0] = e /\ term' = t[n]
       /\ \A i \in 1..n : t[i] = Item(t[i - 1], w, items[i])
  BY <1>1, <1>10, <1>14 DEF step
<1> QED BY <1>15 DEF n, items, e, T

LEMMA CursWindowType ==
  ASSUME TypeInv, NEW w \in Wins
  PROVE  curs_window(term, w) \in Terminals(rows)
<1>1. rows \in Nat /\ rows > 0 /\ Wtop[w] \in Nat /\ Wbot[w] \in Nat /\ term \in Terminals(rows)
  BY LayoutTypes DEF TypeInv
<1>2. scroll(term, Wtop[w], Wbot[w]) \in Terminals(rows)
  BY ONLY <1>1, ScrollIs
<1>3. cmove(scroll(term, Wtop[w], Wbot[w]), Wbot[w]) \in Terminals(rows)
  BY ONLY <1>1, <1>2, CmoveIs
<1> QED BY <1>1, <1>3 DEF curs_window

LEMMA OutputType ==
  ASSUME TypeInv, NEW w \in Shown, NEW text \in Texts, Output(w, text)
  PROVE  TypeInv'
<1>1. w \in Wins /\ output(w, text) /\ UNCHANGED <<layout, closing>>
  BY LayoutTypes DEF TypeInv, Output
<1>2. PICK t : /\ t \in [0..Len(Items(w, text)) -> Terminals(rows)]
               /\ term' = t[Len(Items(w, text))]
  BY <1>1, OutputSteps, CursWindowType DEF TypeInv
<1>3. Len(Items(w, text)) \in 0..Len(Items(w, text))
  BY ItemsAre
<1>4. term' \in Terminals(rows)
  BY <1>2, <1>3
<1>5. Wnl' \in [Wins -> BOOLEAN]
  BY <1>1 DEF output, TypeInv
<1>6. curs_loc' = "window" /\ curs_win' = w
  BY <1>1 DEF output
<1>7. LayoutInv' /\ rows' = rows /\ closing' = closing
  BY <1>1 DEF TypeInv, LayoutInv, layout, Shown
<1> QED BY <1>1, <1>4, <1>5, <1>6, <1>7 DEF TypeInv

LEMMA CursInputType ==
  ASSUME TypeInv
  PROVE  /\ curs_input(term) \in Terminals(rows) /\ Typed(term) \in Terminals(rows)
         /\ curs_input(term).line = term.line
         /\ curs_loc # "input" => curs_input(term).row = rows - 1
<1>1. rows \in Nat /\ rows > 0 /\ rows - 1 \in Nat /\ rows - 1 < rows /\ term \in Terminals(rows)
  BY LayoutTypes DEF TypeInv
<1>2. /\ cmove(term, rows - 1) \in Terminals(rows) /\ cmove(term, rows - 1).line = term.line
      /\ cmove(term, rows - 1).row = rows - 1
  BY ONLY <1>1, CmoveIs
<1>3. /\ curs_input(term) \in Terminals(rows) /\ curs_input(term).line = term.line
      /\ curs_loc # "input" => curs_input(term).row = rows - 1
  BY <1>1, <1>2 DEF curs_input
<1>4. Typed(term) \in Terminals(rows)
  BY <1>1, <1>3, PutIs, ContentsAre DEF Typed
<1> QED BY <1>3, <1>4

\* Lines that move up by one row, to the last: those above a stay, and the
\* others are blank or one of theirs.
LEMMA UpLast ==
  ASSUME NEW n \in Nat, n > 0, NEW l \in Lines(n), NEW a \in Nat, a < n
  PROVE  /\ \A r \in 0..(a - 1) : Up(l, a, n - 1, 1)[r] = l[r]
         /\ \A r \in a..(n - 1) :
              Up(l, a, n - 1, 1)[r] \in {Blank} \cup {l[q] : q \in a..(n - 1)}
<1>1. PICK b \in Nat : b = n - 1
  OBVIOUS
<1>2. b < n /\ 1 \in Nat
  BY <1>1
<1>3. /\ \A r \in 0..(n - 1) : r < a \/ r > b => Up(l, a, b, 1)[r] = l[r]
      /\ \A r \in a..b : r + 1 <= b => Up(l, a, b, 1)[r] = l[r + 1]
      /\ \A r \in a..b : r + 1 > b => Up(l, a, b, 1)[r] = Blank
  BY <1>2, UpIs
<1>4. ASSUME NEW r \in 0..(a - 1)
      PROVE  Up(l, a, b, 1)[r] = l[r]
  <2>1. r \in 0..(n - 1) /\ r < a
    OBVIOUS
  <2> QED BY <1>3, <2>1
<1>5. ASSUME NEW r \in a..b
      PROVE  Up(l, a, b, 1)[r] \in {Blank} \cup {l[q] : q \in a..b}
  <2>1. r + 1 > b \/ (r + 1 <= b /\ r + 1 \in a..b)
    BY ONLY a \in Nat, b \in Nat, r \in a..b
  <2> QED BY <1>3, <2>1
<1> QED BY <1>1, <1>4, <1>5

\* Scrolling of the input window: its lines move up, the cursor stays in the
\* last row, and the rows above are left alone.
LEMMA IscrIs ==
  ASSUME LayoutInv, NEW t \in Terminals(rows)
  PROVE  /\ Iscr_fwd(t) \in Terminals(rows) /\ Iscr_fwd(t).row = rows - 1
         /\ Isize >= 1 => /\ \A r \in 0..(Itop - 1) : Iscr_fwd(t).line[r] = t.line[r]
                          /\ \A r \in Itop..(rows - 1) :
                               Iscr_fwd(t).line[r] \in {Blank} \cup {t.line[q] : q \in Itop..(rows - 1)}
<1>1. rows \in Nat /\ rows > 0 /\ rows - 1 \in Nat /\ rows - 1 < rows /\ Itop \in Nat
      /\ Isize = rows - Itop
  BY LayoutTypes DEF Isize
<1>2. CASE Isize > 1
  <2> DEFINE u == scroll(t, Itop, rows - 1)
  <2>1. Itop < rows
    BY ONLY <1>1, <1>2
  <2>2. u \in Terminals(rows) /\ u.line = t.line /\ u.top = Itop /\ u.bot = rows - 1
    BY ONLY <1>1, <2>1, t \in Terminals(rows), ScrollIs
  <2>3. Iscr_fwd(t) = scr_fwd(u, 1)
    BY <1>2 DEF Iscr_fwd
  <2> HIDE DEF u
  <2>4. 1 \in Nat
    OBVIOUS
  <2>5. /\ scr_fwd(u, 1) \in Terminals(rows) /\ scr_fwd(u, 1).row = rows - 1
        /\ scr_fwd(u, 1).line = Up(t.line, Itop, rows - 1, 1)
    <3>1. /\ scr_fwd(u, 1) \in Terminals(rows) /\ scr_fwd(u, 1).row = u.bot
          /\ scr_fwd(u, 1).line = Up(u.line, u.top, u.bot, 1)
      <4>1. rows \in Nat /\ rows > 0 /\ u \in Terminals(rows)
        BY <1>1, <2>2
      <4> QED BY ONLY <4>1, <2>4, FwdIs
    <3>2. u.line = t.line /\ u.top = Itop /\ u.bot = rows - 1
      BY <2>2
    <3> QED BY <3>1, <3>2
  <2>6. t.line \in Lines(rows)
    BY FieldsAre
  <2> DEFINE l == Up(t.line, Itop, rows - 1, 1)
  <2>8. /\ \A r \in 0..(Itop - 1) : l[r] = t.line[r]
        /\ \A r \in Itop..(rows - 1) : l[r] \in {Blank} \cup {t.line[q] : q \in Itop..(rows - 1)}
    BY ONLY <1>1, <2>1, <2>6, UpLast
  <2> HIDE DEF l
  <2> QED BY <2>3, <2>5, <2>8 DEF l
<1>3. CASE ~(Isize > 1)
  <2> DEFINE u == cmove(t, rows - 1)
  <2>1. u \in Terminals(rows) /\ u.line = t.line /\ u.row = rows - 1
    BY ONLY <1>1, t \in Terminals(rows), CmoveIs
  <2>2. Iscr_fwd(t) = Put(u, Blank) /\ Blank \in Contents
    BY <1>3, ContentsAre DEF Iscr_fwd
  <2> HIDE DEF u
  <2>3. /\ Put(u, Blank) \in Terminals(rows) /\ Put(u, Blank).row = rows - 1
        /\ \A r \in 0..(rows - 1) : Put(u, Blank).line[r] = IF r = rows - 1 THEN Blank ELSE t.line[r]
    BY <1>1, <2>1, <2>2, PutIs
  <2>4. ASSUME Isize >= 1
        PROVE  /\ \A r \in 0..(Itop - 1) : r \in 0..(rows - 1) /\ r # rows - 1
               /\ \A r \in Itop..(rows - 1) : r \in 0..(rows - 1) /\ r = rows - 1
    BY ONLY <1>1, <1>3, <2>4
  <2> QED BY <2>2, <2>3, <2>4
<1> QED BY <1>2, <1>3

LEMMA InputPutsType ==
  ASSUME TypeInv, InputPuts
  PROVE  TypeInv'
<1>1. term' \in {Typed(term), Iscr_fwd(Typed(term))}
      /\ curs_loc' = "input" /\ UNCHANGED <<layout, Wnl, curs_win, closing>>
  BY DEF InputPuts
<1>2. term' \in Terminals(rows)
  BY <1>1, CursInputType, IscrIs DEF TypeInv
<1> QED BY <1>1, <1>2 DEF TypeInv, LayoutInv, layout, Shown

LEMMA SplitTerm ==
  ASSUME TypeInv, NEW w, NEW loc, NEW new, SplitWindow(w, loc, new)
  PROVE  term' \in Terminals(rows) /\ loc - 1 \in Nat /\ w \in Wins
<1>1. /\ w \in Shown /\ loc \in (Wtop[w] + 2)..(Wbot[w] - 2)
      /\ term' = draw_Divider(clear_space(term, Wtop[w], loc - 1, rows), loc - 1, FALSE, rows)
  BY DEF SplitWindow, SplitRows
<1>2. w \in Wins /\ Wtop[w] \in Nat /\ Wbot[w] \in Nat /\ rows \in Nat /\ rows > 0
      /\ term \in Terminals(rows)
  BY <1>1, LayoutTypes DEF TypeInv
<1>3. loc - 1 \in Nat /\ FALSE \in BOOLEAN
  BY <1>1, <1>2
<1>4. clear_space(term, Wtop[w], loc - 1, rows) \in Terminals(rows)
  BY ONLY <1>2, <1>3, ClearIs
<1>5. draw_Divider(clear_space(term, Wtop[w], loc - 1, rows), loc - 1, FALSE, rows) \in Terminals(rows)
  BY ONLY <1>2, <1>3, <1>4, DividerIs
<1> QED BY <1>1, <1>2, <1>3, <1>5

LEMMA SplitType ==
  ASSUME TypeInv, NEW w, NEW loc, NEW new, SplitWindow(w, loc, new)
  PROVE  TypeInv'
<1>1. LayoutInv' /\ term' \in Terminals(rows)
  BY SplitLayout, SplitTerm DEF TypeInv
<1>2. /\ rows' = rows /\ new \in Wins /\ Wnl' = [Wnl EXCEPT ![new] = FALSE]
      /\ curs_loc' = "elsewhere" /\ UNCHANGED <<curs_win, closing>>
  BY DEF SplitWindow
<1>3. Wnl' \in [Wins -> BOOLEAN]
  BY <1>2 DEF TypeInv
<1> QED BY <1>1, <1>2, <1>3 DEF TypeInv

LEMMA CloseUpType ==
  ASSUME TypeInv, NEW w, CloseUp(w)
  PROVE  TypeInv'
<1> DEFINE into == ring[At(w) - 1]
           u == scroll(term, Wtop[into], Wbot[w] + 1)
           t == scr_rev(u, Wbot[w] - Wbot[into])
<1>1. /\ w \in Shown /\ At(w) > 1 /\ rows' = rows /\ Resumes(active_win = w)
      /\ term' = IF active_win = w THEN mark(t, Wbot[w], TRUE) ELSE t
      /\ UNCHANGED <<Wnl, curs_win>>
  BY DEF CloseUp
<1>2. At(w) \in 1..Len(ring) /\ ring[At(w)] = w
  BY <1>1, PlaceIs DEF TypeInv
<1>3. At(w) - 1 \in 1..Len(ring) /\ At(w) - 1 < At(w) /\ Len(ring) \in Nat
  BY <1>1, <1>2, LayoutTypes DEF TypeInv
<1>4. w \in Wins /\ into \in Wins
  BY <1>2, <1>3, PlacedTypes DEF TypeInv, LayoutInv
<1>5. /\ rows \in Nat /\ rows > 0 /\ term \in Terminals(rows)
      /\ Wtop[into] \in Nat /\ Wbot[w] \in Nat /\ Wbot[into] \in Nat /\ Wtop[w] \in Nat
  BY <1>4, LayoutTypes DEF TypeInv
<1>6. Wbot[into] + 2 <= Wtop[w] /\ Wbot[w] >= Wtop[w] + 1
  BY <1>2, <1>3, Apart DEF TypeInv, LayoutInv, Placed
<1> HIDE DEF into
<1>7. Wbot[w] - Wbot[into] \in Nat /\ Wbot[w] + 1 \in Nat /\ TRUE \in BOOLEAN
  BY ONLY <1>5, <1>6
<1>8. u \in Terminals(rows)
  BY ONLY <1>5, <1>7, ScrollIs
<1> HIDE DEF u
<1>9. t \in Terminals(rows)
  BY ONLY <1>5, <1>7, <1>8, RevIs
<1> HIDE DEF t
<1>10. mark(t, Wbot[w], TRUE) \in Terminals(rows)
  BY ONLY <1>5, <1>7, <1>9, MarkIs
<1>11. LayoutInv'
  BY CloseUpLayout DEF TypeInv
<1>12. curs_loc' \in {"input", "window", "elsewhere"} /\ closing' \in Nat
  BY <1>1 DEF Resumes, TypeInv
<1> QED BY <1>1, <1>9, <1>10, <1>11, <1>12 DEF TypeInv

LEMMA CloseDownType ==
  ASSUME TypeInv, NEW w, CloseDown(w)
  PROVE  TypeInv'
<1> DEFINE into == ring[At(w) + 1]
           t == clear_space(term, Wtop[w], Wbot[w] + 1, rows)
<1>1. /\ w \in Shown /\ At(w) < Len(ring) /\ rows' = rows /\ Resumes(active_win = w)
      /\ term' = IF active_win = w THEN mark(t, Wbot[into], TRUE) ELSE t
      /\ UNCHANGED <<Wnl, curs_win>>
  BY DEF CloseDown
<1>2. At(w) \in 1..Len(ring) /\ ring[At(w)] = w
  BY <1>1, PlaceIs DEF TypeInv
<1>3. At(w) + 1 \in 1..Len(ring)
  BY <1>1, <1>2, LayoutTypes DEF TypeInv
<1>4. w \in Wins /\ into \in Wins
  BY <1>2, <1>3, PlacedTypes DEF TypeInv, LayoutInv
<1>5. /\ rows \in Nat /\ rows > 0 /\ term \in Terminals(rows)
      /\ Wbot[w] \in Nat /\ Wbot[into] \in Nat /\ Wtop[w] \in Nat
  BY <1>4, LayoutTypes DEF TypeInv
<1> HIDE DEF into
<1>6. Wbot[w] + 1 \in Nat /\ TRUE \in BOOLEAN
  BY ONLY <1>5
<1>7. t \in Terminals(rows)
  BY ONLY <1>5, <1>6, ClearIs
<1> HIDE DEF t
<1>8. mark(t, Wbot[into], TRUE) \in Terminals(rows)
  BY ONLY <1>5, <1>6, <1>7, MarkIs
<1>9. LayoutInv'
  BY CloseDownLayout DEF TypeInv
<1>10. curs_loc' \in {"input", "window", "elsewhere"} /\ closing' \in Nat
  BY <1>1 DEF Resumes, TypeInv
<1> QED BY <1>1, <1>7, <1>8, <1>9, <1>10 DEF TypeInv

LEMMA ResizeType ==
  ASSUME TypeInv, NEW w, NEW row, ResizeWindow(w, row)
  PROVE  TypeInv'
<1>1. /\ w \in Shown /\ row \in ResizeRows(w) /\ rows' = rows /\ curs_loc' = "elsewhere"
      /\ UNCHANGED <<Wnl, curs_win, closing>>
      /\ term' = CASE row - 1 > Wbot[w] ->
                        scr_rev(scroll(term, Wtop[w], row), row - Wbot[w] - 1)
                   [] row - 1 < Wbot[w] ->
                        scr_fwd(scroll(term, Wtop[w], Wbot[w] + 1), Wbot[w] - row + 1)
                   [] OTHER -> term
  BY DEF ResizeWindow
<1>2. w \in Wins /\ rows \in Nat /\ rows > 0 /\ term \in Terminals(rows)
      /\ Wtop[w] \in Nat /\ Wbot[w] \in Nat
  BY <1>1, LayoutTypes DEF TypeInv
<1>3. row \in Nat
  BY <1>1, ResizeRowsAre DEF TypeInv
<1>4. CASE row - 1 > Wbot[w]
  <2>1. row - Wbot[w] - 1 \in Nat
    BY ONLY <1>2, <1>3, <1>4
  <2>2. scroll(term, Wtop[w], row) \in Terminals(rows)
    BY ONLY <1>2, <1>3, ScrollIs
  <2>3. scr_rev(scroll(term, Wtop[w], row), row - Wbot[w] - 1) \in Terminals(rows)
    BY ONLY <1>2, <2>1, <2>2, RevIs
  <2>4. term' = scr_rev(scroll(term, Wtop[w], row), row - Wbot[w] - 1)
    BY <1>1, <1>2, <1>3, <1>4
  <2> QED BY <1>1, <2>3, <2>4, ResizeLayout DEF TypeInv
<1>5. CASE row - 1 < Wbot[w]
  <2>1. Wbot[w] - row + 1 \in Nat /\ Wbot[w] + 1 \in Nat
    BY ONLY <1>2, <1>3, <1>5
  <2>2. scroll(term, Wtop[w], Wbot[w] + 1) \in Terminals(rows)
    BY ONLY <1>2, <2>1, ScrollIs
  <2>3. scr_fwd(scroll(term, Wtop[w], Wbot[w] + 1), Wbot[w] - row + 1) \in Terminals(rows)
    BY ONLY <1>2, <2>1, <2>2, FwdIs
  <2>4. term' = scr_fwd(scroll(term, Wtop[w], Wbot[w] + 1), Wbot[w] - row + 1)
    BY <1>1, <1>2, <1>3, <1>5
  <2> QED BY <1>1, <2>3, <2>4, ResizeLayout DEF TypeInv
<1>6. CASE row - 1 = Wbot[w]
  <2>1. term' = term
    BY <1>1, <1>2, <1>3, <1>6
  <2> QED BY <1>1, <1>2, <2>1, ResizeLayout DEF TypeInv
<1> QED BY <1>2, <1>3, <1>4, <1>5, <1>6

LEMMA ToggleTerm ==
  ASSUME TypeInv, ToggleMode
  PROVE  /\ term' \in Terminals(rows)
         /\ term'.line = term.line
              \/ \A r \in 0..(rows - 1) : term'.line[r] = IF r = rows - 1 THEN Input ELSE term.line[r]
<1> DEFINE s == scroll(term, 0, rows - 1)
           t == cmove(s, Itop - 1)
           u == cmove(t, rows - 1)
<1>1. rows \in Nat /\ rows > 0 /\ rows - 1 \in Nat /\ rows - 1 < rows /\ 0 \in Nat
      /\ term \in Terminals(rows)
  BY LayoutTypes DEF TypeInv
<1>2. Itop - 1 \in Nat
  <2>1. Lowest \in Wins /\ Wbot[Lowest] \in Nat
    BY LayoutTypes DEF TypeInv
  <2> QED BY <2>1 DEF Itop
<1>3. s \in Terminals(rows) /\ s.line = term.line
  BY ONLY <1>1, ScrollIs
<1>4. term' \in {t, Put(u, Input)}
  BY DEF ToggleMode
<1> HIDE DEF s
<1>5. t \in Terminals(rows) /\ t.line = term.line
  BY ONLY <1>1, <1>2, <1>3, CmoveIs
<1> HIDE DEF t
<1>6. u \in Terminals(rows) /\ u.line = term.line /\ u.row = rows - 1
  BY ONLY <1>1, <1>5, CmoveIs
<1> HIDE DEF u
<1>7. /\ Put(u, Input) \in Terminals(rows)
      /\ \A r \in 0..(rows - 1) : Put(u, Input).line[r] = IF r = rows - 1 THEN Input ELSE term.line[r]
  BY <1>1, <1>6, PutIs, ContentsAre
<1> QED BY <1>4, <1>5, <1>7

LEMMA ActiveTerm ==
  ASSUME TypeInv, NEW w, NewActiveWin(w)
  PROVE  LET t == mark(mark(term, Wbot[active_win], FALSE), Wbot[w], TRUE)
         IN  /\ t \in Terminals(rows) /\ w \in Shown
             /\ \/ term' = t /\ curs_loc' = "elsewhere"
                \/ /\ term' \in Terminals(rows) /\ term'.row = rows - 1 /\ curs_loc' = "input"
                   /\ \E c \in {Input, Blank} : \A r \in 0..(rows - 1) :
                        term'.line[r] = IF r = rows - 1 THEN c ELSE t.line[r]
<1> DEFINE s == mark(term, Wbot[active_win], FALSE)
           t == mark(s, Wbot[w], TRUE)
           u == cmove(t, rows - 1)
<1>1. rows \in Nat /\ rows > 0 /\ rows - 1 \in Nat /\ rows - 1 < rows
      /\ TRUE \in BOOLEAN /\ FALSE \in BOOLEAN
      /\ term \in Terminals(rows) /\ active_win \in Wins /\ Wbot[active_win] \in Nat
  BY LayoutTypes DEF TypeInv
<1>2. w \in Shown
  BY DEF NewActiveWin
<1>3. Wbot[w] \in Nat
  BY <1>2, LayoutTypes DEF TypeInv
<1>4. \/ term' = t /\ curs_loc' = "elsewhere"
      \/ \E c \in {Input, Blank} : term' = Put(u, c) /\ curs_loc' = "input"
  BY DEF NewActiveWin
<1>5. s \in Terminals(rows)
  BY ONLY <1>1, MarkIs
<1> HIDE DEF s
<1>6. t \in Terminals(rows)
  BY ONLY <1>1, <1>3, <1>5, MarkIs
<1> HIDE DEF t
<1>7. u \in Terminals(rows) /\ u.line = t.line /\ u.row = rows - 1
  BY ONLY <1>1, <1>6, CmoveIs
<1> HIDE DEF u
<1>8. ASSUME NEW c \in {Input, Blank}
      PROVE  /\ Put(u, c) \in Terminals(rows) /\ Put(u, c).row = rows - 1
             /\ \A r \in 0..(rows - 1) : Put(u, c).line[r] = IF r = rows - 1 THEN c ELSE t.line[r]
  <2>1. c \in Contents
    BY ContentsAre
  <2>2. /\ Put(u, c) \in Terminals(rows) /\ Put(u, c).row = u.row
        /\ \A r \in 0..(rows - 1) : Put(u, c).line[r] = IF r = u.row THEN c ELSE u.line[r]
    BY ONLY <1>1, <1>7, <2>1, PutIs
  <2> QED BY <1>7, <2>2
<1>9. /\ t \in Terminals(rows)
      /\ \/ term' = t /\ curs_loc' = "elsewhere"
         \/ /\ term' \in Terminals(rows) /\ term'.row = rows - 1 /\ curs_loc' = "input"
            /\ \E c \in {Input, Blank} : \A r \in 0..(rows - 1) :
                 term'.line[r] = IF r = rows - 1 THEN c ELSE t.line[r]
  BY <1>4, <1>6, <1>8
<1> QED BY <1>2, <1>9 DEF t, s

LEMMA TypeInvNext ==
  ASSUME TypeInv, [Next]_vars
  PROVE  TypeInv'
<1>1. CASE UNCHANGED vars
  BY <1>1 DEF TypeInv, LayoutInv, vars, Shown
<1>2. ASSUME NEW w \in Shown, NEW text \in Texts, Output(w, text) PROVE TypeInv'
  BY <1>2, OutputType
<1>3. CASE InputPuts
  BY <1>3, InputPutsType
<1>4. CASE CloseEnd
  BY <1>4 DEF CloseEnd, TypeInv, LayoutInv, layout, Shown
<1>5. CASE Redraw
  <2>1. rows \in Nat /\ rows > 0 /\ Placed(ring, Wtop, Wbot)
    BY LayoutTypes DEF TypeInv, LayoutInv
  <2>2. Drawn(rows, ring, Wbot, active_win) \in Terminals(rows)
    BY <2>1, DrawnIs
  <2> QED BY <1>5, <2>2 DEF Redraw, TypeInv, LayoutInv, layout, Shown
<1>6. CASE ToggleMode
  <2>1. UNCHANGED <<layout, Wnl, curs_win, closing>> /\ curs_loc' = "elsewhere"
    BY <1>6 DEF ToggleMode
  <2> QED BY <1>6, <2>1, ToggleTerm DEF TypeInv, LayoutInv, layout, Shown
<1>7. CASE CursReset
  BY <1>7 DEF CursReset, TypeInv, LayoutInv, layout, Shown
<1>8. ASSUME NEW w \in Wins, NEW new \in Wins, NEW loc \in 0..rows, SplitWindow(w, loc, new)
      PROVE  TypeInv'
  BY <1>8, SplitType
<1>9. ASSUME NEW w \in Wins, CloseUp(w) PROVE TypeInv'
  BY <1>9, CloseUpType
<1>10. ASSUME NEW w \in Wins, CloseDown(w) PROVE TypeInv'
  BY <1>10, CloseDownType
<1>11. ASSUME NEW w \in Wins, NewActiveWin(w) PROVE TypeInv'
  <2>1. /\ active_win' = w /\ UNCHANGED <<rows, ring, Wtop, Wbot, Wnl, curs_win, closing>>
        /\ w \in Shown
    BY <1>11 DEF NewActiveWin
  <2>2. term' \in Terminals(rows) /\ curs_loc' \in {"input", "elsewhere"}
    BY <1>11, ActiveTerm
  <2> QED BY <2>1, <2>2 DEF TypeInv, LayoutInv, Shown
<1>12. ASSUME NEW w \in Wins, NEW row \in 0..rows, ResizeWindow(w, row) PROVE TypeInv'
  BY <1>12, ResizeType
<1>13. ASSUME NEW n \in Sizes, ResizeScreen(n) PROVE TypeInv'
  <2>1. /\ rows' = n /\ Placed(ring', Wtop', Wbot') /\ active_win' \in Range(ring')
        /\ term' = Drawn(n, ring', Wbot', active_win')
        /\ curs_loc' = "elsewhere" /\ UNCHANGED <<Wnl, curs_win, closing>>
    BY <1>13, ResizeScreenIs DEF TypeInv
  <2>2. n \in Nat /\ n > 0
    BY SizesAre
  <2>3. term' \in Terminals(n)
    BY <2>1, <2>2, DrawnIs
  <2> QED BY <2>1, <2>3, ShownIs DEF TypeInv, LayoutInv
<1> QED BY <1>1, <1>2, <1>3, <1>4, <1>5, <1>6, <1>7, <1>8, <1>9, <1>10, <1>11, <1>12, <1>13
        DEF Next

\* init_screen() has a layout of one window.
LEMMA InitLayout ==
  ASSUME StartAny = FALSE, Init
  PROVE  TypeInv /\ Fits(ring, Wbot, rows)
           /\ \E n \in Nat, w \in Wins : /\ n > 0 /\ rows = n /\ ring = <<w>> /\ active_win = w
                                         /\ term = Put(Drawn(n, ring, Wbot, w), Blank)
<1>1. PICK n \in Sizes, w \in Wins :
        /\ ~StartAny => n >= 6
        /\ rows = n /\ ring = <<w>> /\ active_win = w
        /\ Wtop = [v \in Wins |-> 0] /\ Wbot = [v \in Wins |-> IF v = w THEN n - 5 ELSE 0]
        /\ Wnl = [v \in Wins |-> FALSE]
        /\ term = Put(Drawn(n, ring, Wbot, w), Blank)
        /\ curs_loc = "elsewhere" /\ curs_win = None /\ closing = 0
  BY DEF Init
<1>2. n \in Nat /\ n >= 6 /\ n > 0 /\ n - 5 \in Nat /\ n - 5 >= 0 + 1 /\ (n - 5) + 3 <= n
  BY <1>1, SizesAre
<1>3. ring \in Seq(Wins) /\ Len(ring) = 1 /\ DOMAIN ring = 1..1 /\ ring[1] = w
  BY <1>1
<1>4. IsInjective(ring)
  BY <1>3 DEF IsInjective
<1>5. Wtop \in [Wins -> Nat] /\ Wbot \in [Wins -> Nat] /\ Wtop[w] = 0 /\ Wbot[w] = n - 5
  BY <1>1, <1>2
<1>6. \A i \in 1..Len(ring) : i = 1
  BY <1>3
<1>7. ~\E i \in 2..Len(ring) : TRUE
  BY <1>3
<1>8. Placed(ring, Wtop, Wbot)
  BY <1>2, <1>3, <1>4, <1>5, <1>6, <1>7 DEF Placed
<1>9. Drawn(n, ring, Wbot, w) \in Terminals(n)
  BY <1>2, <1>8, DrawnIs
<1>10. term \in Terminals(n)
  BY <1>1, <1>2, <1>9, PutIs, ContentsAre
<1>11. active_win \in Shown
  BY <1>1, <1>3 DEF Shown
<1>12. Fits(ring, Wbot, rows)
  BY <1>1, <1>2, <1>3, <1>5 DEF Fits
<1>13. Wnl \in [Wins -> BOOLEAN] /\ curs_loc \in {"input", "window", "elsewhere"}
       /\ curs_win \in Wins \cup {None} /\ closing \in Nat
  BY <1>1
<1>14. TypeInv
  BY <1>1, <1>8, <1>10, <1>11, <1>13 DEF TypeInv, LayoutInv
<1> QED BY <1>1, <1>2, <1>12, <1>14

LEMMA TypeInvAlways ==
  ASSUME StartAny = FALSE
  PROVE  Spec => []TypeInv
<1>1. Init => TypeInv
  BY InitLayout
<1>2. TypeInv /\ [Next]_vars => TypeInv'
  BY TypeInvNext
<1> QED BY <1>1, <1>2, PTL DEF Spec

\* However windows are split, closed and resized, and whatever sizes of four rows
\* or more the screen goes through (window.c:632) once init_screen() had six for
\* its three parts, the windows share its rows: two rows each at least, one row
\* between each and the next, nothing twice and nothing left over, and the
\* active window is one of them (split_window(), close_window(),
\* resize_window(), resize_screen()).
THEOREM RowsShared ==
  ASSUME StartAny = FALSE
  PROVE  Spec => []Tiled
<1>1. TypeInv => Tiled
  BY TypeInvTiled
<1> QED BY <1>1, TypeInvAlways, PTL

-----------------------------------------------------------------------------
(* Where the cursor is.                                                    *)

\* The form feed, after which output() is wrong about the cursor, is not among
\* what programs write.
NoFormFeed == \A text \in Texts : \A i \in DOMAIN text : text[i] # "\f"

\* The cursor and the scroll area are in w, whose rows alone may differ from
\* those of the screen before; they show its text if they did.
Writes(t, w) ==
  /\ t.top = Wtop[w] /\ t.bot = Wbot[w] /\ t.row = Wbot[w]
  /\ \A r \in 0..(rows - 1) : r < Wtop[w] \/ r > Wbot[w] => t.line[r] = term.line[r]
  /\ (\A r \in Wtop[w]..Wbot[w] : term.line[r] \in {Blank, TextOf(w)})
       => \A r \in Wtop[w]..Wbot[w] : t.line[r] \in {Blank, TextOf(w)}

\* The rows of a window that is shown, if there is an input window.
LEMMA RowsOf ==
  ASSUME LayoutInv, InputShown, NEW w \in Shown
  PROVE  /\ w \in Wins /\ rows \in Nat /\ rows > 0
         /\ Wtop[w] \in Nat /\ Wbot[w] \in Nat /\ Wtop[w] < Wbot[w] /\ Wbot[w] + 2 < rows
<1>1. At(w) \in 1..Len(ring) /\ ring[At(w)] = w
  BY PlaceIs
<1>2. rows \in Nat /\ rows > 0 /\ w \in Wins /\ Wtop[w] \in Nat /\ Wbot[w] \in Nat
  BY LayoutTypes
<1>3. Placed(ring, Wtop, Wbot) /\ Fits(ring, Wbot, rows)
  BY InputShownFits DEF LayoutInv
<1>4. Wtop[w] < Wbot[w] /\ Wbot[w] + 2 < rows
  BY <1>1, <1>2, <1>3, OnScreen
<1> QED BY <1>2, <1>4

LEMMA ItemWrites ==
  ASSUME LayoutInv, InputShown, NEW w \in Shown, NEW t \in Terminals(rows), Writes(t, w),
         NEW c \in {"text", "\n"}
  PROVE  Writes(Item(t, w, c), w)
<1> DEFINE a == Wtop[w]
           b == Wbot[w]
           S == {Blank, TextOf(w)}
           u == Item(t, w, c)
<1>1. rows \in Nat /\ rows > 0 /\ a \in Nat /\ b \in Nat /\ a < b /\ b + 2 < rows /\ b < rows
  BY RowsOf
<1>2. TextOf(w) \in Contents
  BY RowsOf, ContentsAre
<1>3. t.top = a /\ t.bot = b /\ t.row = b
  BY DEF Writes
<1> HIDE DEF a, b
<1>4. CASE c = "text"
  <2>1. u = Put(t, TextOf(w))
    BY <1>4 DEF Item
  <2>2. /\ u.top = a /\ u.bot = b /\ u.row = b
        /\ \A r \in 0..(rows - 1) : u.line[r] = IF r = b THEN TextOf(w) ELSE t.line[r]
    BY <1>1, <1>2, <1>3, <2>1, PutIs
  <2> HIDE DEF u
  <2>3. \A r \in 0..(rows - 1) : r < a \/ r > b => r # b
    BY <1>1
  <2>4. \A r \in a..b : r \in 0..(rows - 1)
    BY ONLY <1>1
  <2> QED BY <2>2, <2>3, <2>4 DEF Writes, a, b, u
<1>5. CASE c = "\n"
  <2>1. u = Newline(t)
    BY <1>5 DEF Item
  <2>2. u.top = a /\ u.bot = b /\ u.row = b /\ u.line = Up(t.line, a, b, 1)
    BY <1>1, <1>3, <2>1, NewlineIs
  <2>3. t.line \in Lines(rows) /\ 1 \in Nat
    BY FieldsAre
  <2>4. /\ \A r \in 0..(rows - 1) : r < a \/ r > b => Up(t.line, a, b, 1)[r] = t.line[r]
        /\ \A r \in a..b : r + 1 <= b => Up(t.line, a, b, 1)[r] = t.line[r + 1]
        /\ \A r \in a..b : r + 1 > b => Up(t.line, a, b, 1)[r] = Blank
    <3> DEFINE l == t.line
    <3>1. l \in Lines(rows) /\ 1 \in Nat
      BY <2>3
    <3> HIDE DEF l
    <3>2. /\ \A r \in 0..(rows - 1) : r < a \/ r > b => Up(l, a, b, 1)[r] = l[r]
          /\ \A r \in a..b : r + 1 <= b => Up(l, a, b, 1)[r] = l[r + 1]
          /\ \A r \in a..b : r + 1 > b => Up(l, a, b, 1)[r] = Blank
      BY ONLY <1>1, <3>1, UpIs
    <3> QED BY <3>2 DEF l
  <2> HIDE DEF u
  <2>5. ASSUME NEW r \in a..b, \A q \in a..b : t.line[q] \in S
        PROVE  u.line[r] \in S
    <3>1. r + 1 > b \/ (r + 1 <= b /\ r + 1 \in a..b)
      BY ONLY <1>1, r \in a..b
    <3> QED BY <2>2, <2>4, <2>5, <3>1
  <2> QED BY <2>2, <2>4, <2>5 DEF Writes, a, b, u
<1> QED BY <1>4, <1>5

LEMMA CursWindowWrites ==
  ASSUME TypeInv, InputShown, NEW w \in Shown,
         InWindow(w) => /\ term.top = Wtop[w] /\ term.bot = Wbot[w] /\ term.row = Wbot[w]
  PROVE  Writes(curs_window(term, w), w)
<1> DEFINE u == scroll(term, Wtop[w], Wbot[w])
           v == cmove(u, Wbot[w])
<1>1. rows \in Nat /\ rows > 0 /\ Wtop[w] \in Nat /\ Wbot[w] \in Nat
      /\ Wtop[w] < rows /\ Wbot[w] < rows /\ term \in Terminals(rows)
  <2>1. rows \in Nat /\ Wtop[w] \in Nat /\ Wbot[w] \in Nat /\ Wtop[w] < Wbot[w] /\ Wbot[w] + 2 < rows
    BY RowsOf DEF TypeInv
  <2> QED BY <2>1 DEF TypeInv
<1>2. CASE InWindow(w)
  <2>1. curs_window(term, w) = term
    BY <1>2 DEF curs_window
  <2> QED BY <1>2, <2>1 DEF Writes
<1>3. CASE ~InWindow(w)
  <2>1. curs_window(term, w) = v
    BY <1>3 DEF curs_window
  <2>2. u \in Terminals(rows) /\ u.line = term.line /\ u.top = Wtop[w] /\ u.bot = Wbot[w]
    <3> DEFINE a == Wtop[w]
               b == Wbot[w]
    <3>1. a \in Nat /\ b \in Nat /\ a < rows /\ b < rows
      BY <1>1
    <3>2. rows \in Nat /\ rows > 0 /\ term \in Terminals(rows)
      BY <1>1
    <3> HIDE DEF a, b
    <3>3. /\ scroll(term, a, b) \in Terminals(rows) /\ scroll(term, a, b).line = term.line
          /\ scroll(term, a, b).top = a /\ scroll(term, a, b).bot = b
      BY ONLY <3>1, <3>2, ScrollIs
    <3> QED BY <3>3 DEF a, b
  <2> HIDE DEF u
  <2>3. v.line = u.line /\ v.top = u.top /\ v.bot = u.bot /\ v.row = Wbot[w]
    BY ONLY <1>1, <2>2, CmoveIs
  <2> QED BY <2>1, <2>2, <2>3 DEF Writes
<1> QED BY <1>2, <1>3

\* output() leaves the cursor in its window, and the other rows alone.
LEMMA OutputWrites ==
  ASSUME NoFormFeed, TypeInv, InputShown, CursorKnown, closing = 0,
         NEW w \in Shown, NEW text \in Texts, Output(w, text)
  PROVE  Writes(term', w)
<1> DEFINE items == Items(w, text)
           n == Len(items)
<1>1. w \in Wins /\ output(w, text)
  BY LayoutTypes DEF TypeInv, Output
<1>2. PICK t : /\ t \in [0..n -> Terminals(rows)]
               /\ t[0] = curs_window(term, w)
               /\ \A i \in 1..n : t[i] = Item(t[i - 1], w, items[i])
               /\ term' = t[n]
  BY <1>1, OutputSteps, CursWindowType DEF TypeInv
<1>3. n \in Nat /\ items \in Seq(Strokes) /\ \A i \in 1..n : items[i] # "\f"
  BY ItemsAre DEF NoFormFeed
<1>4. \A i \in 1..n : items[i] \in {"text", "\n"}
  BY <1>3 DEF Strokes
<1> HIDE DEF items, n
<1>5. Writes(t[0], w)
  BY <1>2, CursWindowWrites DEF CursorKnown, InWindow
<1>6. ASSUME NEW i \in 1..n, Writes(t[i - 1], w) PROVE Writes(t[i], w)
  <2>1. i - 1 \in 0..n
    BY <1>3
  <2>2. t[i - 1] \in Terminals(rows) /\ t[i] = Item(t[i - 1], w, items[i])
    BY <1>2, <2>1
  <2> QED BY <1>4, <1>6, <2>2, ItemWrites DEF TypeInv
<1> DEFINE U == {i \in 0..n : Writes(t[i], w)}
<1>7. 0 \in U
  BY <1>3, <1>5
<1>8. ASSUME NEW i \in 1..n, i - 1 \in U PROVE i \in U
  BY <1>3, <1>6, <1>8
<1>9. \A i \in 0..n : i \in U
  <2> HIDE DEF U
  <2> QED BY ONLY <1>3, <1>7, <1>8, Upward
<1>10. Writes(t[n], w)
  BY <1>3, <1>9
<1> QED BY <1>2, <1>10

LEMMA InputPutsRow ==
  ASSUME TypeInv, CursorKnown, closing = 0, InputPuts
  PROVE  /\ Typed(term) \in Terminals(rows) /\ Typed(term).row = rows - 1
         /\ \A r \in 0..(rows - 1) : Typed(term).line[r] = IF r = rows - 1 THEN Input ELSE term.line[r]
         /\ term'.row = rows - 1
<1>1. /\ curs_input(term) \in Terminals(rows) /\ Typed(term) \in Terminals(rows)
      /\ curs_input(term).line = term.line
      /\ curs_loc # "input" => curs_input(term).row = rows - 1
  BY CursInputType
<1>2. curs_input(term).row = rows - 1
  BY <1>1 DEF CursorKnown, curs_input
<1>3. rows \in Nat /\ rows > 0 /\ Input \in Contents
  BY LayoutTypes, ContentsAre DEF TypeInv
<1>4. /\ Typed(term).row = rows - 1
      /\ \A r \in 0..(rows - 1) : Typed(term).line[r] = IF r = rows - 1 THEN Input ELSE term.line[r]
  BY <1>1, <1>2, <1>3, PutIs DEF Typed
<1>5. Iscr_fwd(Typed(term)).row = rows - 1
  BY <1>1, IscrIs DEF TypeInv
<1> QED BY <1>1, <1>4, <1>5 DEF InputPuts

LEMMA CursorNext ==
  ASSUME NoFormFeed, TypeInv, InputShown, CursorKnown, [Next]_vars
  PROVE  CursorKnown'
<1>1. CASE UNCHANGED vars
  BY <1>1 DEF CursorKnown, vars, Shown
<1>2. ASSUME NEW w \in Shown, NEW text \in Texts, Output(w, text) PROVE CursorKnown'
  <2>1. curs_loc' = "window" /\ curs_win' = w /\ UNCHANGED <<layout, closing>>
    BY <1>2 DEF Output, output
  <2>2. ASSUME closing = 0
        PROVE  term'.top = Wtop[w] /\ term'.bot = Wbot[w] /\ term'.row = Wbot[w]
    BY <1>2, <2>2, OutputWrites DEF Writes
  <2> QED BY <2>1, <2>2 DEF CursorKnown, layout, Shown
<1>3. CASE InputPuts
  <2>1. curs_loc' = "input" /\ UNCHANGED <<layout, closing>>
    BY <1>3 DEF InputPuts
  <2>2. closing = 0 => term'.row = rows - 1
    BY <1>3, InputPutsRow
  <2> QED BY <2>1, <2>2 DEF CursorKnown, layout
<1>4. ASSUME curs_loc' = "elsewhere" PROVE CursorKnown'
  BY <1>4 DEF CursorKnown
<1>5. CASE CloseEnd \/ Redraw \/ ToggleMode \/ CursReset
  BY <1>4, <1>5 DEF CloseEnd, Redraw, ToggleMode, CursReset
<1>6. ASSUME NEW w \in Wins, NEW new \in Wins, NEW loc \in 0..rows, SplitWindow(w, loc, new)
      PROVE  CursorKnown'
  BY <1>4, <1>6 DEF SplitWindow
<1>7. ASSUME NEW w \in Wins, CloseUp(w) \/ CloseDown(w) PROVE CursorKnown'
  <2>1. closing' = closing + 1 /\ closing \in Nat
    BY <1>7 DEF CloseUp, CloseDown, Resumes, TypeInv
  <2>2. closing' # 0
    BY <2>1
  <2> QED BY <2>2 DEF CursorKnown
<1>8. ASSUME NEW w \in Wins, NewActiveWin(w) PROVE CursorKnown'
  <2>1. rows' = rows /\ (curs_loc' = "elsewhere" \/ (curs_loc' = "input" /\ term'.row = rows - 1))
    BY <1>8, ActiveTerm DEF NewActiveWin
  <2> QED BY <2>1 DEF CursorKnown
<1>9. ASSUME NEW w \in Wins, NEW row \in 0..rows, ResizeWindow(w, row) PROVE CursorKnown'
  BY <1>4, <1>9 DEF ResizeWindow
<1>10. ASSUME NEW n \in Sizes, ResizeScreen(n) PROVE CursorKnown'
  BY <1>4, <1>10, ResizeScreenIs DEF TypeInv
<1> QED BY <1>1, <1>2, <1>3, <1>5, <1>6, <1>7, <1>8, <1>9, <1>10 DEF Next

\* When curs_loc says that the cursor and the scroll area are in a window, or
\* the cursor in the input window, they are ("Ensure that cursor and scroll area
\* are in window", window.c:423), for as long as there is an input window and
\* programs write no form feed, whatever windows are split, closed and resized
\* and whatever the programs that a close resumes write.
THEOREM CursorKnownAlways ==
  ASSUME StartAny = FALSE, NoFormFeed
  PROVE  Spec /\ []InputShown => []CursorKnown
<1>1. Init => CursorKnown
  BY DEF Init, CursorKnown
<1>2. TypeInv /\ InputShown /\ CursorKnown /\ [Next]_vars => CursorKnown'
  BY CursorNext
<1> QED BY <1>1, <1>2, TypeInvAlways, PTL DEF Spec

-----------------------------------------------------------------------------
(* What the screen shows through the steps.                                *)

\* Rows a to b show window w, and the row below whether it is active.
WindowShows(l, w, a, b, active) ==
  /\ \A r \in a..b : l[r] \in {Blank, TextOf(w)}
  /\ l[b + 1] = Bar(active)

\* The screen shows the layout, window by window; the rows of the input window
\* are those below all of them.
LEMMA PaintedIs ==
  ASSUME LayoutInv, Painted
  PROVE  /\ \A w \in Shown : WindowShows(term.line, w, Wtop[w], Wbot[w], w = active_win)
         /\ \A r \in 0..(rows - 1) : (\A w \in Shown : r >= Wbot[w] + 2)
                                       => term.line[r] \in {Blank, Input}
<1>1. \A w \in Shown : WindowShows(term.line, w, Wtop[w], Wbot[w], w = active_win)
  BY DEF Painted, WindowShows
<1>2. ASSUME NEW r \in 0..(rows - 1), \A w \in Shown : r >= Wbot[w] + 2
      PROVE  term.line[r] \in {Blank, Input}
  <2>1. Lowest \in Shown /\ rows \in Nat /\ Wbot[Lowest] \in Nat
    <3>1. Len(ring) \in DOMAIN ring /\ Lowest = ring[Len(ring)] /\ Lowest \in Wins
      BY LayoutTypes
    <3> QED BY <3>1, LayoutTypes DEF Shown
  <2>2. r >= Itop
    BY <1>2, <2>1 DEF Itop
  <2>3. Itop \in Nat /\ r \in Int
    BY <2>1 DEF Itop
  <2>4. r \in Itop..(rows - 1)
    BY <2>1, <2>2, <2>3
  <2> QED BY <2>4 DEF Painted
<1> QED BY <1>1, <1>2

LEMMA PaintedAfter ==
  ASSUME LayoutInv',
         \A w \in Shown' : WindowShows(term'.line, w, Wtop'[w], Wbot'[w], w = active_win'),
         \A r \in 0..(rows' - 1) : (\A w \in Shown' : r >= Wbot'[w] + 2)
                                     => term'.line[r] \in {Blank, Input}
  PROVE  Painted'
<1>1. Placed(ring', Wtop', Wbot') /\ rows' \in Nat
  BY SizesAre DEF LayoutInv
<1>2. /\ Len(ring') \in 1..Len(ring') /\ DOMAIN ring' = 1..Len(ring')
      /\ \A i \in 1..Len(ring') : Wbot'[ring'[i]] \in Nat
  BY <1>1, PlacedTypes
<1>3. Shown' = {ring'[i] : i \in 1..Len(ring')}
  BY <1>2 DEF Shown
<1>4. ASSUME NEW r \in (Itop')..(rows' - 1)
      PROVE  term'.line[r] \in {Blank, Input}
  <2> DEFINE c == Wbot'[ring'[Len(ring')]]
  <2>1. Itop' = c + 2 /\ c \in Nat
    BY <1>2 DEF Itop, Lowest
  <2> HIDE DEF c
  <2>2. r \in 0..(rows' - 1) /\ r >= c + 2
    <3> DEFINE n == rows'
    <3>1. r \in (c + 2)..(n - 1)
      BY <2>1
    <3>2. n \in Nat /\ c \in Nat
      BY <1>1, <2>1
    <3> HIDE DEF n
    <3>3. r \in 0..(n - 1) /\ r >= c + 2
      BY ONLY <3>1, <3>2
    <3> QED BY <3>3 DEF n
  <2>3. ASSUME NEW w \in Shown' PROVE r >= Wbot'[w] + 2
    <3>1. PICK i \in 1..Len(ring') : w = ring'[i]
      BY <1>3
    <3>2. Wbot'[w] <= c /\ Wbot'[w] \in Nat
      BY <1>1, <1>2, <3>1, Apart DEF c
    <3> QED BY <1>1, <2>1, <2>2, <3>2
  <2> QED BY <2>2, <2>3
<1>5. \A w \in Shown' : /\ \A r \in Wtop'[w]..Wbot'[w] : term'.line[r] \in {Blank, TextOf(w)}
                        /\ term'.line[Wbot'[w] + 1] = Bar(w = active_win')
  BY DEF WindowShows
<1> QED BY <1>4, <1>5 DEF Painted

\* Windows share no rows, and the one after another in the ring is below it.
LEMMA Separate ==
  ASSUME LayoutInv, NEW w \in Shown, NEW v \in Shown, w # v
  PROVE  Wbot[w] + 2 <= Wtop[v] \/ Wbot[v] + 2 <= Wtop[w]
<1>1. At(w) \in 1..Len(ring) /\ ring[At(w)] = w /\ At(v) \in 1..Len(ring) /\ ring[At(v)] = v
  BY PlaceIs
<1>2. At(w) < At(v) \/ At(v) < At(w)
  BY <1>1, LayoutTypes
<1> QED BY <1>1, <1>2, Apart DEF LayoutInv

LEMMA UpperIs ==
  ASSUME LayoutInv, NEW w \in Shown, At(w) > 1
  PROVE  /\ ring[At(w) - 1] \in Shown /\ ring[At(w) - 1] # w
         /\ Wtop[w] = Wbot[ring[At(w) - 1]] + 2
<1> DEFINE p == At(w)
<1>1. p \in 1..Len(ring) /\ ring[p] = w /\ p > 1
  BY PlaceIs
<1> HIDE DEF p
<1>2. /\ p - 1 \in 1..Len(ring) /\ p \in 2..Len(ring) /\ p - 1 # p
      /\ DOMAIN ring = 1..Len(ring)
  BY <1>1, LayoutTypes
<1>3. Wtop[ring[p]] = Wbot[ring[p - 1]] + 2
  BY <1>2 DEF LayoutInv, Placed
<1>4. ring[p - 1] # ring[p]
  BY <1>1, <1>2, PlacedTypes DEF LayoutInv
<1>5. ring[p - 1] \in Shown
  BY <1>2 DEF Shown
<1> QED BY <1>1, <1>3, <1>4, <1>5 DEF p

LEMMA LowerIs ==
  ASSUME LayoutInv, NEW w \in Shown, At(w) < Len(ring)
  PROVE  /\ ring[At(w) + 1] \in Shown /\ ring[At(w) + 1] # w
         /\ Wtop[ring[At(w) + 1]] = Wbot[w] + 2
<1> DEFINE p == At(w)
           q == p + 1
<1>1. p \in 1..Len(ring) /\ ring[p] = w /\ p < Len(ring)
  BY PlaceIs
<1> HIDE DEF p
<1>2. q \in 1..Len(ring) /\ q \in 2..Len(ring) /\ q # p /\ q - 1 = p /\ DOMAIN ring = 1..Len(ring)
  BY <1>1, LayoutTypes
<1> HIDE DEF q
<1>3. Wtop[ring[q]] = Wbot[ring[p]] + 2
  <2>1. Wtop[ring[q]] = Wbot[ring[q - 1]] + 2
    BY <1>2 DEF LayoutInv, Placed
  <2> QED BY <1>2, <2>1
<1>4. ring[q] # ring[p]
  BY <1>1, <1>2, PlacedTypes DEF LayoutInv
<1>5. ring[q] \in Shown
  BY <1>2 DEF Shown
<1> QED BY <1>1, <1>3, <1>4, <1>5 DEF p, q

\* A window shows the same after its rows, and the row below, were left alone.
LEMMA Outside ==
  ASSUME NEW n \in Nat, NEW l, NEW m, NEW lo \in Nat, NEW hi \in Int,
         \A r \in 0..(n - 1) : r < lo \/ r > hi => m[r] = l[r],
         NEW w, NEW a \in Nat, NEW b \in Nat, NEW active, a < b, b + 2 < n,
         b + 1 < lo \/ a > hi, WindowShows(l, w, a, b, active)
  PROVE  WindowShows(m, w, a, b, active)
<1>1. \A r \in a..(b + 1) : r \in 0..(n - 1) /\ (r < lo \/ r > hi)
  OBVIOUS
<1>2. \A r \in a..b : r \in a..(b + 1)
  OBVIOUS
<1>3. b + 1 \in a..(b + 1)
  OBVIOUS
<1> QED BY <1>1, <1>2, <1>3 DEF WindowShows

\* The rows of a window, and the row below, scroll as its last row moves.
LEMMA Grown ==
  ASSUME NEW n \in Nat, n > 0, NEW l \in Lines(n), NEW w, NEW active, NEW a \in Nat, NEW b \in Nat,
         NEW c \in Nat, a < b, b < c, c + 1 < n, WindowShows(l, w, a, b, active)
  PROVE  /\ WindowShows(Down(l, a, c + 1, c - b), w, a, c, active)
         /\ \A r \in 0..(n - 1) : r < a \/ r > c + 1 => Down(l, a, c + 1, c - b)[r] = l[r]
<1> DEFINE d == c + 1
           m == c - b
           k == Down(l, a, d, m)
<1>1. d \in Nat /\ m \in Nat /\ d < n
  OBVIOUS
<1> HIDE DEF d, m
<1>2. /\ \A r \in 0..(n - 1) : r < a \/ r > d => k[r] = l[r]
      /\ \A r \in a..d : r - m >= a => k[r] = l[r - m]
      /\ \A r \in a..d : r - m < a => k[r] = Blank
  BY <1>1, DownIs
<1> HIDE DEF k
<1>3. ASSUME NEW r \in a..c
      PROVE  k[r] \in {Blank, TextOf(w)}
  <2>1. r \in a..d
    BY DEF d
  <2>2. r - m < a \/ (r - m >= a /\ r - m \in a..b)
    BY DEF m
  <2> QED BY <1>2, <2>1, <2>2 DEF WindowShows
<1>4. k[c + 1] = Bar(active)
  <2>1. d \in a..d /\ d - m >= a /\ d - m = b + 1
    BY DEF d, m
  <2> QED BY <1>2, <2>1 DEF WindowShows, d
<1>5. WindowShows(k, w, a, c, active)
  BY <1>3, <1>4 DEF WindowShows
<1> QED BY <1>2, <1>5 DEF k, d, m

LEMMA Shrunk ==
  ASSUME NEW n \in Nat, n > 0, NEW l \in Lines(n), NEW w, NEW active, NEW a \in Nat, NEW b \in Nat,
         NEW c \in Nat, a < c, c < b, NEW d \in Nat, d = b + 1, d < n, NEW m \in Nat, m = b - c,
         WindowShows(l, w, a, b, active)
  PROVE  WindowShows(Up(l, a, d, m), w, a, c, active)
<1> DEFINE k == Up(l, a, d, m)
<1>1. \A r \in a..d : r + m <= d => k[r] = l[r + m]
  BY UpIs
<1> HIDE DEF k
<1>2. ASSUME NEW r \in a..c
      PROVE  k[r] \in {Blank, TextOf(w)}
  <2>1. r \in a..d /\ r + m <= d /\ r + m \in a..b
    OBVIOUS
  <2> QED BY <1>1, <2>1 DEF WindowShows
<1>3. k[c + 1] = Bar(active)
  <2>1. c + 1 \in a..d /\ (c + 1) + m <= d /\ (c + 1) + m = b + 1
    OBVIOUS
  <2> QED BY <1>1, <2>1 DEF WindowShows
<1>4. WindowShows(k, w, a, c, active)
  BY <1>2, <1>3 DEF WindowShows
<1> QED BY <1>4 DEF k

\* scr_rev() and scr_fwd() in a scroll area.
LEMMA RevInArea ==
  ASSUME NEW n \in Nat, n > 0, NEW t \in Terminals(n), NEW a \in Nat, a < n, NEW b \in Nat, b < n,
         NEW m \in Nat
  PROVE  /\ scr_rev(scroll(t, a, b), m) \in Terminals(n)
         /\ scr_rev(scroll(t, a, b), m).line = Down(t.line, a, b, m)
<1> DEFINE u == scroll(t, a, b)
<1>1. u \in Terminals(n) /\ u.line = t.line /\ u.top = a /\ u.bot = b
  BY ScrollIs
<1> HIDE DEF u
<1>2. scr_rev(u, m) \in Terminals(n) /\ scr_rev(u, m).line = Down(u.line, u.top, u.bot, m)
  <2>1. u \in Terminals(n)
    BY <1>1
  <2> QED BY ONLY n \in Nat, n > 0, m \in Nat, <2>1, RevIs
<1> QED BY <1>1, <1>2 DEF u

LEMMA FwdInArea ==
  ASSUME NEW n \in Nat, n > 0, NEW t \in Terminals(n), NEW a \in Nat, a < n, NEW b \in Nat, b < n,
         NEW m \in Nat
  PROVE  /\ scr_fwd(scroll(t, a, b), m) \in Terminals(n)
         /\ scr_fwd(scroll(t, a, b), m).line = Up(t.line, a, b, m)
<1> DEFINE u == scroll(t, a, b)
<1>1. u \in Terminals(n) /\ u.line = t.line /\ u.top = a /\ u.bot = b
  BY ScrollIs
<1> HIDE DEF u
<1>2. scr_fwd(u, m) \in Terminals(n) /\ scr_fwd(u, m).line = Up(u.line, u.top, u.bot, m)
  <2>1. u \in Terminals(n)
    BY <1>1
  <2> QED BY ONLY n \in Nat, n > 0, m \in Nat, <2>1, FwdIs
<1> QED BY <1>1, <1>2 DEF u

\* Rows lo to hi of no concern to a window that is above or below them.
LEMMA OtherWindow ==
  ASSUME LayoutInv, InputShown, Painted, NEW m, NEW lo \in Nat, NEW hi \in Int,
         \A r \in 0..(rows - 1) : r < lo \/ r > hi => m[r] = term.line[r],
         NEW v \in Shown, Wbot[v] + 1 < lo \/ Wtop[v] > hi
  PROVE  WindowShows(m, v, Wtop[v], Wbot[v], v = active_win)
<1> DEFINE l == term.line
           act == (v = active_win)
<1>1. /\ rows \in Nat /\ Wtop[v] \in Nat /\ Wbot[v] \in Nat /\ Wtop[v] < Wbot[v] /\ Wbot[v] + 2 < rows
      /\ WindowShows(l, v, Wtop[v], Wbot[v], act)
  BY RowsOf, PaintedIs
<1>2. \A r \in 0..(rows - 1) : r < lo \/ r > hi => m[r] = l[r]
  OBVIOUS
<1> HIDE DEF l, act
<1> DEFINE a == Wtop[v]
           b == Wbot[v]
<1>3. /\ a \in Nat /\ b \in Nat /\ a < b /\ b + 2 < rows
      /\ b + 1 < lo \/ a > hi
      /\ WindowShows(l, v, a, b, act)
  BY <1>1
<1> HIDE DEF a, b
<1>4. WindowShows(m, v, a, b, act)
  <2>1. rows \in Nat
    BY <1>1
  <2> QED BY ONLY <1>2, <1>3, <2>1, lo \in Nat, hi \in Int, Outside
<1> QED BY <1>4 DEF act, a, b

\* Only what the input window shows changes.
LEMMA InputOnly ==
  ASSUME LayoutInv, InputShown, Painted, LayoutInv', UNCHANGED layout,
         \A r \in 0..(Itop - 1) : term'.line[r] = term.line[r],
         \A r \in Itop..(rows - 1) : term'.line[r] \in {Blank, Input}
  PROVE  Painted'
<1>1. /\ Lowest \in Wins /\ Wbot[Lowest] \in Nat /\ Len(ring) \in 1..Len(ring)
      /\ Lowest = ring[Len(ring)] /\ rows \in Nat
  BY LayoutTypes
<1>2. Itop = Wbot[Lowest] + 2 /\ Isize = rows - Itop
  BY DEF Itop, Isize
<1>3. /\ rows' = rows /\ Shown' = Shown /\ Wtop' = Wtop /\ Wbot' = Wbot /\ active_win' = active_win
      /\ ring' = ring /\ Lowest' = Lowest
  BY DEF layout, Shown, Lowest
<1>4. ASSUME NEW v \in Shown
      PROVE  WindowShows(term'.line, v, Wtop[v], Wbot[v], v = active_win)
  <2>1. At(v) \in 1..Len(ring) /\ ring[At(v)] = v
    BY PlaceIs
  <2>2. Wbot[v] <= Wbot[Lowest] /\ Wbot[v] \in Nat
    BY <1>1, <2>1, Apart, RowsOf DEF LayoutInv
  <2> DEFINE lo == Itop
             hi == rows - 1
  <2>3. Wbot[v] + 1 < lo /\ lo \in Nat /\ hi \in Int
    BY <1>1, <1>2, <2>2
  <2>4. \A r \in 0..(rows - 1) : r < lo \/ r > hi => term'.line[r] = term.line[r]
    <3>1. \A r \in 0..(rows - 1) : r < lo \/ r > hi => r \in 0..(Itop - 1)
      BY <1>1, <2>3
    <3> QED BY <3>1
  <2> HIDE DEF lo, hi
  <2> QED BY <2>3, <2>4, OtherWindow
<1>5. ASSUME NEW r \in 0..(rows - 1), \A w \in Shown : r >= Wbot[w] + 2
      PROVE  term'.line[r] \in {Blank, Input}
  <2>1. Lowest \in Shown
    BY <1>1, LayoutTypes DEF Shown
  <2>2. r \in Itop..(rows - 1)
    BY <1>1, <1>2, <1>5, <2>1
  <2> QED BY <2>2
<1> QED BY <1>3, <1>4, <1>5, PaintedAfter

LEMMA OutputPainted ==
  ASSUME NoFormFeed, TypeInv, InputShown, CursorKnown, closing = 0, Painted,
         NEW w \in Shown, NEW text \in Texts, Output(w, text)
  PROVE  Painted'
<1> DEFINE m == term'.line
           a == Wtop[w]
           b == Wbot[w]
<1>1. UNCHANGED layout /\ LayoutInv /\ LayoutInv'
  BY OutputType DEF TypeInv, Output
<1>2. /\ rows' = rows /\ Shown' = Shown /\ Wtop' = Wtop /\ Wbot' = Wbot /\ active_win' = active_win
  BY <1>1 DEF layout, Shown
<1>3. /\ rows \in Nat /\ a \in Nat /\ b \in Nat /\ a < b /\ b + 2 < rows
  BY <1>1, RowsOf
<1>4. WindowShows(term.line, w, a, b, w = active_win)
  BY <1>1, PaintedIs
<1>5. /\ \A r \in 0..(rows - 1) : r < a \/ r > b => m[r] = term.line[r]
      /\ \A r \in a..b : m[r] \in {Blank, TextOf(w)}
  BY <1>4, OutputWrites DEF Writes, WindowShows
<1>6. m[b + 1] = Bar(w = active_win)
  <2>1. b + 1 \in 0..(rows - 1) /\ b + 1 > b
    BY <1>3
  <2> QED BY <1>4, <1>5, <2>1 DEF WindowShows
<1>7. ASSUME NEW v \in Shown
      PROVE  WindowShows(m, v, Wtop[v], Wbot[v], v = active_win)
  <2>1. CASE v = w
    BY <1>5, <1>6, <2>1 DEF WindowShows
  <2>2. CASE v # w
    <3>1. Wbot[v] + 2 <= Wtop[w] \/ Wbot[w] + 2 <= Wtop[v]
      BY <1>1, <2>2, Separate
    <3>2. Wtop[v] \in Nat /\ Wbot[v] \in Nat /\ b \in Int
      BY <1>1, <1>3, RowsOf
    <3>3. Wbot[v] + 1 < a \/ Wtop[v] > b
      BY <1>3, <3>1, <3>2
    <3> HIDE DEF a, b, m
    <3> QED BY <1>1, <1>3, <1>5, <3>2, <3>3, OtherWindow
  <2> QED BY <2>1, <2>2
<1>8. ASSUME NEW r \in 0..(rows - 1), \A v \in Shown : r >= Wbot[v] + 2
      PROVE  m[r] \in {Blank, Input}
  <2>1. r > b
    BY <1>3, <1>8
  <2> QED BY <1>1, <1>5, <1>8, <2>1, PaintedIs
<1> QED BY <1>1, <1>2, <1>7, <1>8, PaintedAfter

LEMMA InputPutsPainted ==
  ASSUME TypeInv, InputShown, CursorKnown, closing = 0, Painted, InputPuts
  PROVE  Painted'
<1> DEFINE u == Typed(term)
<1>1. UNCHANGED layout /\ LayoutInv /\ LayoutInv'
  BY InputPutsType DEF TypeInv, InputPuts
<1>2. term' \in {u, Iscr_fwd(u)}
  BY DEF InputPuts
<1>3. /\ u \in Terminals(rows)
      /\ \A r \in 0..(rows - 1) : u.line[r] = IF r = rows - 1 THEN Input ELSE term.line[r]
  BY InputPutsRow
<1> HIDE DEF u
<1>4. rows \in Nat /\ Itop \in Nat /\ Isize >= 1 /\ Itop <= rows - 1
  <2>1. rows \in Nat /\ Itop \in Nat
    BY <1>1, LayoutTypes
  <2> QED BY <2>1 DEF InputShown, Isize
<1>5. /\ \A r \in 0..(Itop - 1) : u.line[r] = term.line[r]
      /\ \A r \in Itop..(rows - 1) : u.line[r] \in {Blank, Input}
  <2>1. \A r \in 0..(Itop - 1) : r \in 0..(rows - 1) /\ r # rows - 1
    BY <1>4
  <2>2. \A r \in Itop..(rows - 1) : r \in 0..(rows - 1)
    BY <1>4
  <2> QED BY <1>3, <2>1, <2>2 DEF Painted
<1>6. /\ \A r \in 0..(Itop - 1) : Iscr_fwd(u).line[r] = u.line[r]
      /\ \A r \in Itop..(rows - 1) :
           Iscr_fwd(u).line[r] \in {Blank} \cup {u.line[q] : q \in Itop..(rows - 1)}
  BY <1>1, <1>3, <1>4, IscrIs
<1>7. /\ \A r \in 0..(Itop - 1) : term'.line[r] = term.line[r]
      /\ \A r \in Itop..(rows - 1) : term'.line[r] \in {Blank, Input}
  <2>1. CASE term' = u
    BY <1>5, <2>1
  <2>2. CASE term' = Iscr_fwd(u)
    BY <1>5, <1>6, <2>2
  <2> QED BY <1>2, <2>1, <2>2
<1> QED BY <1>1, <1>7, InputOnly

LEMMA TogglePainted ==
  ASSUME TypeInv, InputShown, Painted, ToggleMode
  PROVE  Painted'
<1>1. UNCHANGED layout /\ LayoutInv
  BY DEF TypeInv, ToggleMode
<1>2. LayoutInv'
  BY <1>1 DEF LayoutInv, layout, Shown
<1>3. rows \in Nat /\ Itop \in Nat /\ Itop <= rows - 1
  <2>1. rows \in Nat /\ Itop \in Nat
    BY <1>1, LayoutTypes
  <2> QED BY <2>1 DEF InputShown, Isize
<1>4. /\ \A r \in 0..(Itop - 1) : r \in 0..(rows - 1) /\ r # rows - 1
      /\ \A r \in Itop..(rows - 1) : r \in 0..(rows - 1)
  BY <1>3
<1>5. /\ \A r \in 0..(Itop - 1) : term'.line[r] = term.line[r]
      /\ \A r \in Itop..(rows - 1) : term'.line[r] \in {Blank, Input}
  <2>1. CASE term'.line = term.line
    BY <2>1 DEF Painted
  <2>2. CASE \A r \in 0..(rows - 1) :
               term'.line[r] = IF r = rows - 1 THEN Input ELSE term.line[r]
    BY <1>4, <2>2 DEF Painted
  <2> QED BY <2>1, <2>2, ToggleTerm
<1> QED BY <1>1, <1>2, <1>5, InputOnly

\* redraw_screen() after the layout has changed or not.
LEMMA DrawnPainted ==
  ASSUME LayoutInv', InputShown', term' = Drawn(rows, ring, Wbot, active_win)'
  PROVE  Painted'
<1>1. Placed(ring', Wtop', Wbot') /\ rows' \in Nat /\ rows' > 0
  BY SizesAre DEF LayoutInv
<1>2. DOMAIN ring' = 1..Len(ring') /\ Len(ring') \in 1..Len(ring')
  BY <1>1, PlacedTypes
<1>3. Fits(ring', Wbot', rows')
  <2> DEFINE c == Wbot'[ring'[Len(ring')]]
             n == rows'
  <2>1. c \in Nat /\ n \in Nat
    BY <1>1, <1>2, PlacedTypes
  <2>2. n - (c + 2) >= 1
    BY DEF InputShown, Isize, Itop, Lowest
  <2> HIDE DEF c, n
  <2>3. c + 3 <= n
    BY ONLY <2>1, <2>2
  <2> QED BY <2>3 DEF c, n, Fits
<1>4. Shows(term'.line, ring', Wtop', Wbot', active_win', rows')
  BY <1>1, <1>3, DrawnIs
<1>5. Shown' = {ring'[i] : i \in 1..Len(ring')} /\ Lowest' = ring'[Len(ring')]
  BY <1>2 DEF Shown, Lowest
<1>6. /\ \A w \in Shown' : \A r \in Wtop'[w]..Wbot'[w] : term'.line[r] \in {Blank, TextOf(w)}
      /\ \A w \in Shown' : term'.line[Wbot'[w] + 1] = Bar(w = active_win')
  BY <1>4, <1>5 DEF Shows
<1>7. \A r \in (Itop')..(rows' - 1) : term'.line[r] \in {Blank, Input}
  BY <1>4, <1>5 DEF Shows, Itop
<1> QED BY <1>6, <1>7 DEF Painted

\* The divider of a window is in no row of another window or its divider.
LEMMA DividerApart ==
  ASSUME LayoutInv, NEW w \in Shown, NEW v \in Shown, w # v
  PROVE  \A r \in Wtop[v]..(Wbot[v] + 1) : r # Wbot[w] + 1
<1>1. /\ w \in Wins /\ v \in Wins /\ Wtop[w] \in Nat /\ Wbot[w] \in Nat /\ Wtop[v] \in Nat
      /\ Wbot[v] \in Nat
  BY LayoutTypes
<1>2. Wbot[w] >= Wtop[w] + 1 /\ Wbot[v] >= Wtop[v] + 1
  BY PlaceIs DEF LayoutInv, Placed
<1>3. Wbot[w] + 2 <= Wtop[v] \/ Wbot[v] + 2 <= Wtop[w]
  BY Separate
<1> QED BY <1>1, <1>2, <1>3

LEMMA ActivePainted ==
  ASSUME TypeInv, InputShown, Painted, NEW w, NewActiveWin(w)
  PROVE  Painted'
<1> DEFINE v == active_win
           s == mark(term, Wbot[v], FALSE)
           t == mark(s, Wbot[w], TRUE)
           m == term'.line
<1>1. /\ LayoutInv /\ w \in Shown /\ w # v /\ v \in Shown /\ active_win' = w
      /\ UNCHANGED <<rows, ring, Wtop, Wbot>>
  BY DEF TypeInv, LayoutInv, NewActiveWin
<1>2. LayoutInv' /\ Shown' = Shown
  BY <1>1 DEF LayoutInv, Shown
<1>3. /\ rows \in Nat /\ rows > 0 /\ term \in Terminals(rows)
      /\ Wbot[v] \in Nat /\ Wbot[w] \in Nat /\ Wbot[v] + 2 < rows /\ Wbot[w] + 2 < rows
      /\ TRUE \in BOOLEAN /\ FALSE \in BOOLEAN
  BY <1>1, RowsOf DEF TypeInv
<1>4. Wbot[v] + 1 < rows /\ Wbot[w] + 1 < rows
  BY ONLY <1>3
<1>5. /\ s \in Terminals(rows)
      /\ \A r \in 0..(rows - 1) : s.line[r] = IF r = Wbot[v] + 1 THEN Bar(FALSE) ELSE term.line[r]
  <2> DEFINE b == Wbot[v]
  <2>1. b \in Nat /\ b + 1 < rows
    BY <1>3, <1>4
  <2>2. rows \in Nat /\ rows > 0 /\ FALSE \in BOOLEAN /\ term \in Terminals(rows)
    BY <1>3
  <2> HIDE DEF b
  <2>3. /\ mark(term, b, FALSE) \in Terminals(rows)
        /\ \A r \in 0..(rows - 1) : mark(term, b, FALSE).line[r]
                                     = IF r = b + 1 THEN Bar(FALSE) ELSE term.line[r]
    BY ONLY <2>1, <2>2, MarkIs
  <2> QED BY <2>3 DEF b
<1>6. \/ term' = t
      \/ \E c \in {Input, Blank} : \A r \in 0..(rows - 1) :
           term'.line[r] = IF r = rows - 1 THEN c ELSE t.line[r]
  BY ActiveTerm
<1> HIDE DEF s
<1>7. \A r \in 0..(rows - 1) : t.line[r] = IF r = Wbot[w] + 1 THEN Bar(TRUE) ELSE s.line[r]
  <2> DEFINE b == Wbot[w]
  <2>1. b \in Nat /\ b + 1 < rows
    BY <1>3, <1>4
  <2>2. rows \in Nat /\ rows > 0 /\ TRUE \in BOOLEAN
    BY <1>3
  <2>3. s \in Terminals(rows)
    BY <1>5
  <2> HIDE DEF b
  <2>4. \A r \in 0..(rows - 1) : mark(s, b, TRUE).line[r] = IF r = b + 1 THEN Bar(TRUE) ELSE s.line[r]
    BY ONLY <2>1, <2>2, <2>3, MarkIs
  <2> QED BY <2>4 DEF b, t
<1> HIDE DEF t
<1>8. \A r \in 0..(rows - 1) : r < rows - 1 =>
        m[r] = IF r = Wbot[w] + 1 THEN Bar(TRUE)
               ELSE IF r = Wbot[v] + 1 THEN Bar(FALSE) ELSE term.line[r]
  <2>1. ASSUME NEW r \in 0..(rows - 1), r < rows - 1
        PROVE  m[r] = t.line[r]
    <3>1. r # rows - 1
      BY <1>3, <2>1
    <3> QED BY <1>6, <3>1
  <2> HIDE DEF m
  <2> QED BY <1>5, <1>7, <2>1
<1>9. /\ \A r \in 0..(rows - 1) : r = Wbot[w] + 1 \/ r = Wbot[v] + 1 \/ m[r] \in {term.line[r], Input, Blank}
  <2>1. ASSUME NEW r \in 0..(rows - 1)
        PROVE  m[r] \in {t.line[r], Input, Blank}
    BY <1>6
  <2> HIDE DEF m
  <2> QED BY <1>5, <1>7, <2>1
<1> HIDE DEF m
<1>10. ASSUME NEW x \in Shown
       PROVE  WindowShows(m, x, Wtop[x], Wbot[x], x = w)
  <2>1. /\ Wtop[x] \in Nat /\ Wbot[x] \in Nat /\ Wtop[x] < Wbot[x] /\ Wbot[x] + 2 < rows
        /\ WindowShows(term.line, x, Wtop[x], Wbot[x], x = v)
    BY <1>1, RowsOf, PaintedIs
  <2>2. \A r \in Wtop[x]..(Wbot[x] + 1) : r \in 0..(rows - 1) /\ r < rows - 1
    BY ONLY <1>3, <2>1
  <2>3. /\ x # w => \A r \in Wtop[x]..(Wbot[x] + 1) : r # Wbot[w] + 1
        /\ x # v => \A r \in Wtop[x]..(Wbot[x] + 1) : r # Wbot[v] + 1
    BY <1>1, DividerApart
  <2>4. ASSUME NEW r \in Wtop[x]..Wbot[x]
        PROVE  m[r] \in {Blank, TextOf(x)}
    <3>1. r \in Wtop[x]..(Wbot[x] + 1) /\ r # Wbot[x] + 1
      BY ONLY <2>1, r \in Wtop[x]..Wbot[x]
    <3>2. r # Wbot[w] + 1 /\ r # Wbot[v] + 1
      BY <2>3, <3>1
    <3>3. m[r] = term.line[r]
      BY <1>8, <2>2, <3>1, <3>2
    <3> QED BY <2>1, <3>3 DEF WindowShows
  <2>5. Wbot[x] + 1 \in Wtop[x]..(Wbot[x] + 1)
    BY ONLY <2>1
  <2>6. m[Wbot[x] + 1] = IF Wbot[x] + 1 = Wbot[w] + 1 THEN Bar(TRUE)
                         ELSE IF Wbot[x] + 1 = Wbot[v] + 1 THEN Bar(FALSE) ELSE term.line[Wbot[x] + 1]
    BY <1>8, <2>2, <2>5
  <2>7. m[Wbot[x] + 1] = Bar(x = w)
    <3>1. CASE x = w
      BY <2>6, <3>1
    <3>2. CASE x = v
      <4>1. x # w /\ (x = w) = FALSE
        BY <1>1, <3>2
      <4> QED BY <2>3, <2>5, <2>6, <3>2, <4>1
    <3>3. CASE x # w /\ x # v
      <4>1. (x = w) = FALSE /\ (x = v) = FALSE
        BY <3>3
      <4> QED BY <2>1, <2>3, <2>5, <2>6, <3>3, <4>1 DEF WindowShows
    <3> QED BY <3>1, <3>2, <3>3
  <2> QED BY <2>4, <2>7 DEF WindowShows
<1>11. ASSUME NEW r \in 0..(rows - 1), \A x \in Shown : r >= Wbot[x] + 2
       PROVE  m[r] \in {Blank, Input}
  <2>1. r # Wbot[w] + 1 /\ r # Wbot[v] + 1
    <3>1. r >= Wbot[w] + 2 /\ r >= Wbot[v] + 2
      BY <1>1, <1>11
    <3> QED BY ONLY <1>3, <3>1, r \in 0..(rows - 1)
  <2>2. term.line[r] \in {Blank, Input}
    BY <1>1, <1>11, PaintedIs
  <2> QED BY <1>9, <2>1, <2>2
<1> QED BY <1>1, <1>2, <1>10, <1>11, PaintedAfter DEF m

LEMMA SplitPainted ==
  ASSUME TypeInv, InputShown, Painted, NEW w, NEW loc, NEW new, SplitWindow(w, loc, new)
  PROVE  Painted'
<1> DEFINE a == Wtop[w]
           b == Wbot[w]
           e == loc - 1
           t == clear_space(term, a, e, rows)
           m == term'.line
<1>1. /\ LayoutInv /\ w \in Shown /\ new \in Wins /\ new \notin Shown /\ loc \in (a + 2)..(b - 2)
      /\ Wtop' = [Wtop EXCEPT ![new] = a, ![w] = loc + 1]
      /\ Wbot' = [Wbot EXCEPT ![new] = loc - 1]
      /\ rows' = rows /\ active_win' = active_win /\ term' = draw_Divider(t, e, FALSE, rows)
  BY DEF TypeInv, SplitWindow, SplitRows
<1>2. LayoutInv' /\ Shown' = Shown \cup {new} /\ active_win \in Shown
  BY SplitLayout DEF TypeInv, LayoutInv
<1>3. /\ rows \in Nat /\ rows > 0 /\ term \in Terminals(rows) /\ w \in Wins
      /\ a \in Nat /\ b \in Nat /\ a < b /\ b + 2 < rows /\ FALSE \in BOOLEAN
  BY <1>1, RowsOf DEF TypeInv
<1>4. loc \in (a + 2)..(b - 2)
  BY <1>1
<1> HIDE DEF a, b
<1>5. e \in Nat /\ e + 1 < rows /\ e + 1 = loc /\ loc \in Nat /\ e >= a + 1 /\ loc + 2 <= b
  BY ONLY <1>3, <1>4
<1> HIDE DEF e
<1>6. /\ t \in Terminals(rows)
      /\ \A r \in 0..(rows - 1) : t.line[r] = IF r \in a..e THEN Blank ELSE term.line[r]
  <2>1. rows \in Nat /\ rows > 0 /\ term \in Terminals(rows) /\ a \in Nat /\ e \in Nat
    BY <1>3, <1>5
  <2> QED BY ONLY <2>1, ClearIs
<1> HIDE DEF t
<1>7. \A r \in 0..(rows - 1) : m[r] = IF r = e + 1 THEN Bar(FALSE) ELSE t.line[r]
  <2>1. \A r \in 0..(rows - 1) : draw_Divider(t, e, FALSE, rows).line[r]
                                   = IF r = e + 1 THEN Bar(FALSE) ELSE t.line[r]
    <3>1. t \in Terminals(rows)
      BY <1>6
    <3>2. e \in Nat /\ e + 1 < rows
      BY <1>5
    <3>3. rows \in Nat /\ rows > 0 /\ FALSE \in BOOLEAN
      BY <1>3
    <3> QED BY ONLY <3>1, <3>2, <3>3, DividerIs
  <2>2. term' = draw_Divider(t, e, FALSE, rows)
    BY <1>1 DEF t, e
  <2> QED BY <2>1, <2>2
<1> HIDE DEF m
<1>8. \A r \in 0..(rows - 1) : m[r] = IF r = loc THEN Bar(FALSE)
                                      ELSE IF r \in a..e THEN Blank ELSE term.line[r]
  BY <1>5, <1>6, <1>7
<1>9. \A r \in 0..(rows - 1) : r < a \/ r > loc => m[r] = term.line[r]
  <2>1. \A r \in 0..(rows - 1) : r < a \/ r > loc => r # loc /\ r \notin a..e
    BY ONLY <1>3, <1>5
  <2> QED BY <1>8, <2>1
<1>10. WindowShows(term.line, w, a, b, w = active_win)
  BY <1>1, PaintedIs DEF a, b
<1>11. WindowShows(m, new, a, e, FALSE)
  <2>1. \A r \in a..e : r \in 0..(rows - 1) /\ r # loc
    BY ONLY <1>3, <1>5
  <2>2. e + 1 = loc /\ loc \in 0..(rows - 1)
    BY ONLY <1>3, <1>5
  <2> QED BY <1>8, <2>1, <2>2 DEF WindowShows
<1>12. WindowShows(m, w, loc + 1, b, w = active_win)
  <2>1. \A r \in (loc + 1)..b : r \in a..b /\ r \in 0..(rows - 1) /\ r > loc
    BY ONLY <1>3, <1>5
  <2>2. b + 1 \in 0..(rows - 1) /\ b + 1 > loc
    BY ONLY <1>3, <1>5
  <2> QED BY <1>9, <1>10, <2>1, <2>2 DEF WindowShows
<1>13. ASSUME NEW v \in Shown, v # w
       PROVE  WindowShows(m, v, Wtop[v], Wbot[v], v = active_win)
  <2>1. Wbot[v] + 2 <= a \/ b + 2 <= Wtop[v]
    BY <1>1, <1>13, Separate DEF a, b
  <2>2. Wtop[v] \in Nat /\ Wbot[v] \in Nat
    BY <1>1, RowsOf
  <2>3. (Wbot[v] + 1 < a \/ Wtop[v] > loc) /\ loc \in Int
    BY ONLY <1>3, <1>5, <2>1, <2>2
  <2> QED BY <1>1, <1>3, <1>9, <2>3, OtherWindow
<1>14. ASSUME NEW v \in Shown'
       PROVE  WindowShows(m, v, Wtop'[v], Wbot'[v], v = active_win')
  <2>0. \A x \in Shown : x \in Wins
    BY <1>1, LayoutTypes
  <2>1. Wtop \in [Wins -> Nat] /\ Wbot \in [Wins -> Nat]
    BY <1>1 DEF LayoutInv, Placed
  <2>2. CASE v = new
    <3>1. Wtop'[v] = a /\ Wbot'[v] = e /\ (v = active_win') = FALSE
      BY <1>1, <1>2, <1>3, <2>1, <2>2 DEF e
    <3> QED BY <1>11, <2>2, <3>1
  <2>3. CASE v = w
    <3>1. Wtop'[v] = loc + 1 /\ Wbot'[v] = b /\ active_win' = active_win
      BY <1>1, <1>3, <2>1, <2>3 DEF b
    <3> QED BY <1>12, <2>3, <3>1
  <2>4. CASE v # new /\ v # w
    <3>1. v \in Shown /\ v \in Wins
      BY <1>2, <2>0, <2>4
    <3>2. Wtop'[v] = Wtop[v] /\ Wbot'[v] = Wbot[v] /\ active_win' = active_win
      BY <1>1, <2>1, <2>4, <3>1
    <3> QED BY <1>13, <2>4, <3>1, <3>2
  <2> QED BY <2>2, <2>3, <2>4
<1>15. ASSUME NEW r \in 0..(rows - 1), \A v \in Shown' : r >= Wbot'[v] + 2
       PROVE  m[r] \in {Blank, Input}
  <2>1. ASSUME NEW v \in Shown PROVE r >= Wbot[v] + 2
    <3>1. v # new /\ v \in Shown' /\ v \in Wins
      BY <1>1, <1>2, LayoutTypes
    <3>2. Wbot'[v] = Wbot[v]
      BY <1>1, <3>1 DEF LayoutInv, Placed
    <3> QED BY <1>15, <3>1, <3>2
  <2>2. r >= b + 2
    BY <1>1, <2>1 DEF b
  <2>3. r > loc
    BY ONLY <1>3, <1>5, <2>2, r \in 0..(rows - 1)
  <2> QED BY <1>1, <1>9, <2>1, <2>3, PaintedIs
<1> QED BY <1>1, <1>2, <1>14, <1>15, PaintedAfter DEF m

LEMMA CloseUpPainted ==
  ASSUME TypeInv, InputShown, Painted, NEW w, CloseUp(w)
  PROVE  Painted'
<1> DEFINE v == ring[At(w) - 1]
           a == Wtop[v]
           b == Wbot[v]
           c == Wbot[w]
           t == scr_rev(scroll(term, a, c + 1), c - b)
           m == term'.line
<1>1. /\ LayoutInv /\ w \in Shown /\ v \in Shown /\ v # w /\ Wtop[w] = b + 2
      /\ Wbot' = [Wbot EXCEPT ![v] = c] /\ UNCHANGED <<rows, Wtop>>
      /\ active_win' = IF active_win = w THEN v ELSE active_win
      /\ term' = IF active_win = w THEN mark(t, c, TRUE) ELSE t
  BY UpperIs DEF TypeInv, CloseUp
<1>2. LayoutInv' /\ Shown' = Shown \ {w}
  BY CloseUpLayout DEF TypeInv
<1> HIDE DEF v
<1>3. /\ rows \in Nat /\ rows > 0 /\ term \in Terminals(rows) /\ TRUE \in BOOLEAN
      /\ a \in Nat /\ b \in Nat /\ c \in Nat /\ a < b /\ c + 2 < rows /\ Wtop[w] < c
  BY <1>1, RowsOf DEF TypeInv
<1> DEFINE top == Wtop[w]
<1>4. top = b + 2 /\ top < c
  BY <1>1, <1>3
<1> HIDE DEF a, b, c, top
<1>5. /\ b < c /\ c + 1 < rows /\ a < rows /\ c + 1 \in Nat /\ c - b \in Nat /\ b + 2 < c
      /\ c + 1 \in 0..(rows - 1)
  BY ONLY <1>3, <1>4
<1>6. t \in Terminals(rows) /\ t.line = Down(term.line, a, c + 1, c - b)
  <2> DEFINE d == c + 1
             k == c - b
  <2>1. d \in Nat /\ k \in Nat /\ d < rows
    BY <1>5
  <2> HIDE DEF d, k
  <2>2. scr_rev(scroll(term, a, d), k) \in Terminals(rows)
        /\ scr_rev(scroll(term, a, d), k).line = Down(term.line, a, d, k)
    BY ONLY <1>3, <1>5, <2>1, RevInArea
  <2> QED BY <2>2 DEF d, k
<1>7. WindowShows(term.line, v, a, b, v = active_win)
  BY <1>1, PaintedIs DEF a, b
<1>8. /\ WindowShows(t.line, v, a, c, v = active_win)
      /\ \A r \in 0..(rows - 1) : r < a \/ r > c + 1 => t.line[r] = term.line[r]
  <2> DEFINE l == term.line
             act == (v = active_win)
  <2>1. l \in Lines(rows)
    BY <1>3, FieldsAre
  <2>2. WindowShows(l, v, a, b, act)
    BY <1>7
  <2> HIDE DEF l, act
  <2>3. /\ WindowShows(Down(l, a, c + 1, c - b), v, a, c, act)
        /\ \A r \in 0..(rows - 1) : r < a \/ r > c + 1 => Down(l, a, c + 1, c - b)[r] = l[r]
    <3>1. rows \in Nat /\ rows > 0 /\ a \in Nat /\ b \in Nat /\ c \in Nat
          /\ a < b /\ b < c /\ c + 1 < rows
      BY <1>3, <1>5
    <3> QED BY ONLY <2>1, <2>2, <3>1, Grown
  <2> QED BY <1>6, <2>3 DEF l, act
<1>9. term' = IF active_win = w THEN mark(t, c, TRUE) ELSE t
  BY <1>1 DEF a, b, c
<1> HIDE DEF t
<1>10. \A r \in 0..(rows - 1) : m[r] = IF active_win = w /\ r = c + 1 THEN Bar(TRUE) ELSE t.line[r]
  <2>1. \A r \in 0..(rows - 1) : mark(t, c, TRUE).line[r]
                                   = IF r = c + 1 THEN Bar(TRUE) ELSE t.line[r]
    <3>1. t \in Terminals(rows)
      BY <1>6
    <3>2. c \in Nat /\ c + 1 < rows
      BY <1>3, <1>5
    <3>3. rows \in Nat /\ rows > 0 /\ TRUE \in BOOLEAN
      BY <1>3
    <3> QED BY ONLY <3>1, <3>2, <3>3, MarkIs
  <2> QED BY <1>9, <2>1
<1> HIDE DEF m
<1>11. \A r \in 0..(rows - 1) : r < a \/ r > c + 1 => m[r] = term.line[r]
  <2>1. \A r \in 0..(rows - 1) : r < a \/ r > c + 1 => r # c + 1
    BY ONLY <1>3, <1>5
  <2> QED BY <1>8, <1>10, <2>1
<1>12. WindowShows(m, v, a, c, v = active_win')
  <2>1. \A r \in a..c : r \in 0..(rows - 1) /\ r # c + 1
    BY ONLY <1>3, <1>5
  <2>2. \A r \in a..c : m[r] \in {Blank, TextOf(v)}
    BY <1>8, <1>10, <2>1 DEF WindowShows
  <2>3. m[c + 1] = Bar(v = active_win')
    <3>1. CASE active_win = w
      <4>1. (v = active_win') = TRUE
        BY <1>1, <3>1
      <4> QED BY <1>5, <1>10, <3>1, <4>1
    <3>2. CASE active_win # w
      <4>1. active_win' = active_win
        BY <1>1, <3>2
      <4> QED BY <1>5, <1>8, <1>10, <3>2, <4>1 DEF WindowShows
    <3> QED BY <3>1, <3>2
  <2> QED BY <2>2, <2>3 DEF WindowShows
<1>13. ASSUME NEW x \in Shown, x # v, x # w
       PROVE  WindowShows(m, x, Wtop[x], Wbot[x], x = active_win)
  <2>1. /\ Wbot[x] + 2 <= a \/ b + 2 <= Wtop[x]
        /\ Wbot[x] + 2 <= top \/ c + 2 <= Wtop[x]
    BY <1>1, <1>13, Separate DEF a, b, c, top
  <2>2. Wtop[x] \in Nat /\ Wbot[x] \in Nat /\ Wtop[x] < Wbot[x]
    BY <1>1, RowsOf
  <2> DEFINE hi == c + 1
  <2>3. (Wbot[x] + 1 < a \/ Wtop[x] > hi) /\ hi \in Int
    BY ONLY <1>3, <1>4, <1>5, <2>1, <2>2
  <2>4. \A r \in 0..(rows - 1) : r < a \/ r > hi => m[r] = term.line[r]
    BY <1>11
  <2> HIDE DEF hi
  <2> QED BY <1>1, <1>3, <2>3, <2>4, OtherWindow
<1>14. ASSUME NEW x \in Shown'
       PROVE  WindowShows(m, x, Wtop'[x], Wbot'[x], x = active_win')
  <2>1. x \in Shown /\ x # w /\ x \in Wins /\ v \in Wins
    BY <1>1, <1>2, LayoutTypes
  <2>2. Wbot' = [Wbot EXCEPT ![v] = c] /\ Wbot \in [Wins -> Nat]
    BY <1>1 DEF c, LayoutInv, Placed
  <2>3. CASE x = v
    <3>1. Wtop'[x] = a /\ Wbot'[x] = c
      BY <1>1, <2>1, <2>2, <2>3 DEF a
    <3> QED BY <1>12, <2>3, <3>1
  <2>4. CASE x # v
    <3>1. Wtop'[x] = Wtop[x] /\ Wbot'[x] = Wbot[x]
      BY <1>1, <2>1, <2>2, <2>4
    <3>2. (x = active_win') = (x = active_win)
      BY <1>1, <2>1, <2>4
    <3> QED BY <1>13, <2>1, <2>4, <3>1, <3>2
  <2> QED BY <2>3, <2>4
<1>15. ASSUME NEW r \in 0..(rows - 1), \A x \in Shown' : r >= Wbot'[x] + 2
       PROVE  m[r] \in {Blank, Input}
  <2>1. v \in Shown' /\ v \in Wins /\ Wbot'[v] = c
    BY <1>1, <1>2, LayoutTypes DEF c, LayoutInv, Placed
  <2>2. r >= c + 2
    BY <1>15, <2>1
  <2>3. r > c + 1 /\ r >= b + 2
    BY ONLY <1>3, <1>5, <2>2, r \in 0..(rows - 1)
  <2>4. ASSUME NEW x \in Shown PROVE r >= Wbot[x] + 2
    <3>1. CASE x = w
      BY <2>2, <3>1 DEF c
    <3>2. CASE x = v
      BY <2>3, <3>2 DEF b
    <3>3. CASE x # v /\ x # w
      <4>1. x \in Shown' /\ x \in Wins
        BY <1>2, <3>3, LayoutTypes, <1>1
      <4>2. Wbot'[x] = Wbot[x]
        BY <1>1, <3>3, <4>1 DEF LayoutInv, Placed
      <4> QED BY <1>15, <4>1, <4>2
    <3> QED BY <3>1, <3>2, <3>3
  <2> QED BY <1>1, <1>11, <2>3, <2>4, PaintedIs
<1> QED BY <1>1, <1>2, <1>14, <1>15, PaintedAfter DEF m

LEMMA CloseDownPainted ==
  ASSUME TypeInv, InputShown, Painted, NEW w, CloseDown(w)
  PROVE  Painted'
<1> DEFINE v == ring[At(w) + 1]
           a == Wtop[w]
           b == Wbot[w]
           c == Wbot[v]
           t == clear_space(term, a, b + 1, rows)
           m == term'.line
<1>1. /\ LayoutInv /\ w \in Shown /\ v \in Shown /\ v # w /\ Wtop[v] = b + 2
      /\ Wtop' = [Wtop EXCEPT ![v] = a] /\ UNCHANGED <<rows, Wbot>>
      /\ active_win' = IF active_win = w THEN v ELSE active_win
      /\ term' = IF active_win = w THEN mark(t, c, TRUE) ELSE t
  BY LowerIs DEF TypeInv, CloseDown
<1>2. LayoutInv' /\ Shown' = Shown \ {w}
  BY CloseDownLayout DEF TypeInv
<1> HIDE DEF v
<1>3. /\ rows \in Nat /\ rows > 0 /\ term \in Terminals(rows) /\ TRUE \in BOOLEAN
      /\ a \in Nat /\ b \in Nat /\ c \in Nat /\ a < b /\ c + 2 < rows /\ Wtop[v] < c
  BY <1>1, RowsOf DEF TypeInv
<1> DEFINE top == Wtop[v]
<1>4. top = b + 2 /\ top < c
  BY <1>1, <1>3
<1> HIDE DEF a, b, c, top
<1>5. /\ b < c /\ c + 1 < rows /\ b + 1 \in Nat /\ b + 2 < c /\ c + 1 \in 0..(rows - 1)
      /\ c + 1 > b + 1
  BY ONLY <1>3, <1>4
<1>6. /\ t \in Terminals(rows)
      /\ \A r \in 0..(rows - 1) : t.line[r] = IF r \in a..(b + 1) THEN Blank ELSE term.line[r]
  <2> DEFINE d == b + 1
  <2>1. d \in Nat
    BY <1>5
  <2> HIDE DEF d
  <2>2. /\ clear_space(term, a, d, rows) \in Terminals(rows)
        /\ \A r \in 0..(rows - 1) : clear_space(term, a, d, rows).line[r]
                                     = IF r \in a..d THEN Blank ELSE term.line[r]
    <3>1. rows \in Nat /\ rows > 0 /\ term \in Terminals(rows)
      BY <1>3
    <3>2. a \in Nat
      BY <1>3
    <3> QED BY ONLY <2>1, <3>1, <3>2, ClearIs
  <2> QED BY <2>2 DEF d
<1>7. WindowShows(term.line, v, top, c, v = active_win)
  BY <1>1, PaintedIs DEF top, c
<1>8. term' = IF active_win = w THEN mark(t, c, TRUE) ELSE t
  BY <1>1 DEF a, b, c
<1> HIDE DEF t
<1>9. \A r \in 0..(rows - 1) : m[r] = IF active_win = w /\ r = c + 1 THEN Bar(TRUE)
                                      ELSE IF r \in a..(b + 1) THEN Blank ELSE term.line[r]
  <2>1. \A r \in 0..(rows - 1) : mark(t, c, TRUE).line[r]
                                   = IF r = c + 1 THEN Bar(TRUE) ELSE t.line[r]
    <3>1. t \in Terminals(rows)
      BY <1>6
    <3>2. c \in Nat /\ c + 1 < rows
      BY <1>3, <1>5
    <3>3. rows \in Nat /\ rows > 0 /\ TRUE \in BOOLEAN
      BY <1>3
    <3> QED BY ONLY <3>1, <3>2, <3>3, MarkIs
  <2> QED BY <1>6, <1>8, <2>1
<1> HIDE DEF m
<1>10. \A r \in 0..(rows - 1) : r < a \/ r > c + 1 => m[r] = term.line[r]
  <2>1. \A r \in 0..(rows - 1) : r < a \/ r > c + 1 => r # c + 1 /\ r \notin a..(b + 1)
    BY ONLY <1>3, <1>5
  <2> QED BY <1>9, <2>1
<1>11. WindowShows(m, v, a, c, v = active_win')
  <2>1. ASSUME NEW r \in a..c PROVE m[r] \in {Blank, TextOf(v)}
    <3>1. r \in 0..(rows - 1) /\ r # c + 1 /\ (r \in a..(b + 1) \/ r \in top..c)
      BY ONLY <1>3, <1>4, <1>5, r \in a..c
    <3> QED BY <1>7, <1>9, <3>1 DEF WindowShows
  <2>2. c + 1 \notin a..(b + 1)
    BY ONLY <1>3, <1>5
  <2>3. m[c + 1] = Bar(v = active_win')
    <3>1. CASE active_win = w
      <4>1. (v = active_win') = TRUE
        BY <1>1, <3>1
      <4> QED BY <1>5, <1>9, <3>1, <4>1
    <3>2. CASE active_win # w
      <4>1. active_win' = active_win
        BY <1>1, <3>2
      <4> QED BY <1>5, <1>7, <1>9, <2>2, <3>2, <4>1 DEF WindowShows
    <3> QED BY <3>1, <3>2
  <2> QED BY <2>1, <2>3 DEF WindowShows
<1>12. ASSUME NEW x \in Shown, x # v, x # w
       PROVE  WindowShows(m, x, Wtop[x], Wbot[x], x = active_win)
  <2>1. /\ Wbot[x] + 2 <= a \/ b + 2 <= Wtop[x]
        /\ Wbot[x] + 2 <= top \/ c + 2 <= Wtop[x]
    BY <1>1, <1>12, Separate DEF a, b, c, top
  <2>2. Wtop[x] \in Nat /\ Wbot[x] \in Nat /\ Wtop[x] < Wbot[x]
    BY <1>1, RowsOf
  <2> DEFINE hi == c + 1
  <2>3. (Wbot[x] + 1 < a \/ Wtop[x] > hi) /\ hi \in Int
    BY ONLY <1>3, <1>4, <1>5, <2>1, <2>2
  <2>4. \A r \in 0..(rows - 1) : r < a \/ r > hi => m[r] = term.line[r]
    BY <1>10
  <2> HIDE DEF hi
  <2> QED BY <1>1, <1>3, <2>3, <2>4, OtherWindow
<1>13. ASSUME NEW x \in Shown'
       PROVE  WindowShows(m, x, Wtop'[x], Wbot'[x], x = active_win')
  <2>1. x \in Shown /\ x # w /\ x \in Wins /\ v \in Wins
    BY <1>1, <1>2, LayoutTypes
  <2>2. Wtop' = [Wtop EXCEPT ![v] = a] /\ Wtop \in [Wins -> Nat]
    BY <1>1 DEF a, LayoutInv, Placed
  <2>3. CASE x = v
    <3>1. Wtop'[x] = a /\ Wbot'[x] = c
      BY <1>1, <2>1, <2>2, <2>3 DEF c
    <3> QED BY <1>11, <2>3, <3>1
  <2>4. CASE x # v
    <3>1. Wtop'[x] = Wtop[x] /\ Wbot'[x] = Wbot[x]
      BY <1>1, <2>1, <2>2, <2>4
    <3>2. (x = active_win') = (x = active_win)
      BY <1>1, <2>1, <2>4
    <3> QED BY <1>12, <2>1, <2>4, <3>1, <3>2
  <2> QED BY <2>3, <2>4
<1>14. ASSUME NEW r \in 0..(rows - 1), \A x \in Shown' : r >= Wbot'[x] + 2
       PROVE  m[r] \in {Blank, Input}
  <2>1. v \in Shown' /\ Wbot' = Wbot /\ Wbot[v] = c
    BY <1>1, <1>2 DEF c
  <2>2. r >= c + 2
    BY <1>14, <2>1
  <2>3. r > c + 1 /\ r >= b + 2
    BY ONLY <1>3, <1>5, <2>2, r \in 0..(rows - 1)
  <2>4. ASSUME NEW x \in Shown PROVE r >= Wbot[x] + 2
    <3>1. CASE x = w
      BY <2>3, <3>1 DEF b
    <3>2. CASE x # w
      BY <1>2, <1>14, <2>1, <3>2
    <3> QED BY <3>1, <3>2
  <2> QED BY <1>1, <1>10, <2>3, <2>4, PaintedIs
<1> QED BY <1>1, <1>2, <1>13, <1>14, PaintedAfter DEF m

LEMMA ResizePainted ==
  ASSUME TypeInv, InputShown, Painted, NEW w, NEW row, ResizeWindow(w, row)
  PROVE  Painted'
<1> DEFINE v == ring[At(w) + 1]
           a == Wtop[w]
           b == Wbot[w]
           c == row - 1
           last == At(w) = Len(ring)
           m == term'.line
<1>1. /\ LayoutInv /\ w \in Shown /\ row \in ResizeRows(w)
      /\ UNCHANGED <<rows, ring, active_win>>
      /\ Wtop' = IF w = Lowest THEN Wtop ELSE [Wtop EXCEPT ![v] = row + 1]
      /\ Wbot' = [Wbot EXCEPT ![w] = c]
      /\ term' = CASE row - 1 > Wbot[w] ->
                        scr_rev(scroll(term, Wtop[w], row), row - Wbot[w] - 1)
                   [] row - 1 < Wbot[w] ->
                        scr_fwd(scroll(term, Wtop[w], Wbot[w] + 1), Wbot[w] - row + 1)
                   [] OTHER -> term
  BY DEF TypeInv, ResizeWindow
<1>2. LayoutInv' /\ Shown' = Shown
  BY <1>1, ResizeLayout DEF TypeInv, Shown
<1>3. /\ rows \in Nat /\ rows > 0 /\ term \in Terminals(rows)
      /\ a \in Nat /\ b \in Nat /\ a < b /\ b + 2 < rows
  BY <1>1, RowsOf DEF TypeInv
<1>4. /\ row \in Nat /\ row >= a + 2 /\ (last => row <= rows - 2)
      /\ w = Lowest <=> last
  BY <1>1, ResizeRowsAre
<1>5. ~last => /\ v \in Shown /\ v # w /\ Wtop[v] = b + 2 /\ row <= Wbot[v] - 2
               /\ Wtop[v] \in Nat /\ Wbot[v] \in Nat /\ Wbot[v] + 2 < rows
  <2>1. ASSUME ~last
        PROVE  At(w) < Len(ring)
    BY <1>1, <2>1, PlaceIs, LayoutTypes
  <2> QED BY <1>1, <2>1, LowerIs, RowsOf, ResizeRowsAre
<1> DEFINE d == Wbot[v]
           top == Wtop[v]
           dlast == last
<1> HIDE DEF a, b, d, top, dlast
<1>6. /\ dlast => row <= rows - 2
      /\ ~dlast => top = b + 2 /\ row <= d - 2 /\ top \in Nat /\ d \in Nat /\ d + 2 < rows
  BY <1>4, <1>5 DEF d, top, b, dlast
<1>7. c \in Nat /\ c + 1 = row /\ c + 1 < rows /\ a < c
  BY ONLY <1>3, <1>4, <1>6
<1> HIDE DEF c
<1> DEFINE hi == IF b < c THEN c + 1 ELSE b + 1
<1>8. WindowShows(term.line, w, a, b, w = active_win)
  BY <1>1, PaintedIs DEF a, b
<1>9. /\ WindowShows(m, w, a, c, w = active_win)
      /\ \A r \in 0..(rows - 1) : r < a \/ r > hi => m[r] = term.line[r]
      /\ \A r \in (c + 2)..(b + 1) : m[r] = Blank
  <2> DEFINE l == term.line
             act == (w = active_win)
  <2>1. l \in Lines(rows) /\ WindowShows(l, w, a, b, act)
    BY <1>3, <1>8, FieldsAre
  <2>2. rows \in Nat /\ rows > 0 /\ a \in Nat /\ b \in Nat /\ c \in Nat /\ a < b /\ a < c
        /\ c + 1 < rows /\ b + 1 < rows
    BY ONLY <1>3, <1>7
  <2>3. CASE b < c
    <3> DEFINE e == c + 1
               k == c - b
    <3>1. e \in Nat /\ e < rows /\ k \in Nat /\ a < rows
      BY ONLY <2>2, <2>3
    <3>2. row - 1 > Wbot[w] /\ row = e /\ row - Wbot[w] - 1 = k
      BY <1>4, <1>7, <2>2, <2>3 DEF b
    <3>3. term' = scr_rev(scroll(term, a, e), k)
      <4>1. term' = scr_rev(scroll(term, Wtop[w], row), row - Wbot[w] - 1)
        <5>1. ~(row - 1 < Wbot[w])
          BY <1>4, <1>7, <2>2, <2>3 DEF b
        <5> QED BY <1>1, <3>2, <5>1
      <4> QED BY <3>2, <4>1 DEF a
    <3> HIDE DEF e, k
    <3>4. scr_rev(scroll(term, a, e), k).line = Down(term.line, a, e, k)
      <4>1. term \in Terminals(rows) /\ rows \in Nat /\ rows > 0 /\ a \in Nat
        BY <1>3
      <4> QED BY ONLY <3>1, <4>1, RevInArea
    <3>5. m = Down(l, a, c + 1, c - b)
      BY <3>3, <3>4 DEF e, k
    <3> HIDE DEF l, act, m
    <3>6. /\ WindowShows(Down(l, a, c + 1, c - b), w, a, c, act)
          /\ \A r \in 0..(rows - 1) : r < a \/ r > c + 1 => Down(l, a, c + 1, c - b)[r] = l[r]
      BY ONLY <2>1, <2>2, <2>3, Grown
    <3>7. hi = c + 1 /\ ~\E r \in (c + 2)..(b + 1) : TRUE
      BY ONLY <2>2, <2>3
    <3> HIDE DEF hi
    <3> QED BY <3>5, <3>6, <3>7 DEF l, act
  <2>4. CASE c < b
    <3> DEFINE e == b + 1
               k == b - c
    <3>1. e \in Nat /\ e < rows /\ k \in Nat /\ a < rows
      BY ONLY <2>2, <2>4
    <3>2. row - 1 < Wbot[w] /\ ~(row - 1 > Wbot[w]) /\ Wbot[w] + 1 = e /\ Wbot[w] - row + 1 = k
      BY <1>4, <1>7, <2>2, <2>4 DEF b
    <3>3. term' = scr_fwd(scroll(term, a, e), k)
      BY <1>1, <3>2 DEF a
    <3> HIDE DEF e, k
    <3>4. scr_fwd(scroll(term, a, e), k).line = Up(term.line, a, e, k)
      <4>1. term \in Terminals(rows) /\ rows \in Nat /\ rows > 0 /\ a \in Nat
        BY <1>3
      <4> QED BY ONLY <3>1, <4>1, FwdInArea
    <3>5. m = Up(l, a, e, k)
      BY <3>3, <3>4
    <3> HIDE DEF l, act, m
    <3>6. /\ WindowShows(Up(l, a, e, k), w, a, c, act)
          /\ \A r \in 0..(rows - 1) : r < a \/ r > e => Up(l, a, e, k)[r] = l[r]
          /\ \A r \in (c + 2)..e : Up(l, a, e, k)[r] = Blank
      <4>1. l \in Lines(rows) /\ WindowShows(l, w, a, b, act)
        BY <2>1
      <4>2. rows \in Nat /\ rows > 0 /\ a \in Nat /\ b \in Nat /\ c \in Nat /\ a < c
        BY <2>2
      <4>3. e \in Nat /\ e = b + 1 /\ e < rows /\ k \in Nat /\ k = b - c
        BY <3>1 DEF e, k
      <4>4. WindowShows(Up(l, a, e, k), w, a, c, act)
        BY ONLY <2>4, <4>1, <4>2, <4>3, Shrunk
      <4>5. /\ \A r \in 0..(rows - 1) : r < a \/ r > e => Up(l, a, e, k)[r] = l[r]
            /\ \A r \in a..e : r + k > e => Up(l, a, e, k)[r] = Blank
        <5>1. l \in Lines(rows)
          BY <4>1
        <5>2. rows \in Nat /\ rows > 0 /\ a \in Nat /\ e \in Nat /\ e < rows /\ k \in Nat
          BY <4>2, <4>3
        <5> QED BY ONLY <5>1, <5>2, UpIs
      <4>6. \A r \in (c + 2)..e : r \in a..e /\ r + k > e
        BY ONLY <2>4, <4>2, <4>3
      <4> QED BY <4>4, <4>5, <4>6
    <3>7. hi = b + 1
      BY ONLY <2>2, <2>4
    <3> HIDE DEF hi
    <3> QED BY <3>5, <3>6, <3>7 DEF l, act, e
  <2>5. CASE b = c
    <3>1. ~(row - 1 > Wbot[w]) /\ ~(row - 1 < Wbot[w])
      BY <1>4, <1>7, <2>2, <2>5 DEF b
    <3>2. term' = term
      BY <1>1, <3>1
    <3>3. ~\E r \in (c + 2)..(b + 1) : TRUE
      BY ONLY <2>2, <2>5
    <3> QED BY <1>8, <2>5, <3>2, <3>3
  <2> QED BY ONLY <2>2, <2>3, <2>4, <2>5
<1> HIDE DEF m
<1>10. ~dlast => WindowShows(m, v, c + 2, d, v = active_win)
  <2> SUFFICES ASSUME ~dlast PROVE WindowShows(m, v, c + 2, d, v = active_win)
    OBVIOUS
  <2>1. WindowShows(term.line, v, top, d, v = active_win)
    BY <1>1, <1>5, PaintedIs DEF dlast, d, top
  <2>2. top = b + 2 /\ d \in Nat /\ d + 2 < rows /\ c + 3 <= d
    BY ONLY <1>4, <1>6, <1>7, ~dlast
  <2>3. ASSUME NEW r \in (c + 2)..d PROVE m[r] \in {Blank, TextOf(v)}
    <3>1. r \in (c + 2)..(b + 1) \/ (r \in 0..(rows - 1) /\ r > hi /\ r \in top..d)
      BY ONLY <1>3, <1>7, <2>2, r \in (c + 2)..d
    <3> HIDE DEF hi
    <3> QED BY <1>9, <2>1, <3>1 DEF WindowShows
  <2>4. d + 1 \in 0..(rows - 1) /\ (d + 1 > hi \/ d + 1 \in (c + 2)..(b + 1))
    BY ONLY <1>3, <1>7, <2>2
  <2>5. d + 1 > hi
    <3>1. top < d
      BY <1>1, <1>5, RowsOf DEF dlast, d, top
    <3> QED BY ONLY <1>3, <1>7, <2>2, <3>1
  <2> HIDE DEF hi
  <2> QED BY <1>9, <2>1, <2>3, <2>4, <2>5 DEF WindowShows
<1>11. hi \in Int /\ hi > c /\ hi > b /\ (hi = c + 1 \/ hi = b + 1)
  BY ONLY <1>3, <1>7
<1> HIDE DEF hi
<1>12. ASSUME NEW x \in Shown, x # w, ~dlast => x # v
       PROVE  WindowShows(m, x, Wtop[x], Wbot[x], x = active_win)
  <2>1. Wbot[x] + 2 <= a \/ b + 2 <= Wtop[x]
    BY <1>1, <1>12, Separate DEF a, b
  <2>2. Wtop[x] \in Nat /\ Wbot[x] \in Nat /\ Wtop[x] < Wbot[x]
    BY <1>1, RowsOf
  <2>3. Wbot[x] + 1 < a \/ Wtop[x] > hi
    <3>1. CASE dlast
      <4>1. Wbot[x] <= b
        <5>1. Len(ring) \in 1..Len(ring) /\ ring[Len(ring)] = w
          BY <1>1, <3>1, PlaceIs DEF dlast
        <5>2. At(x) \in 1..Len(ring) /\ ring[At(x)] = x
          BY <1>1, PlaceIs
        <5> QED BY <1>1, <5>1, <5>2, Apart DEF b, LayoutInv
      <4> QED BY ONLY <1>3, <2>1, <2>2, <4>1
    <3>2. CASE ~dlast
      <4>1. Wbot[x] + 2 <= top \/ d + 2 <= Wtop[x]
        BY <1>1, <1>5, <1>12, <3>2, Separate DEF d, top, dlast
      <4>2. top = b + 2 /\ d \in Nat /\ row <= d - 2 /\ top < d
        <5>1. top < d
          BY <1>1, <1>5, <3>2, RowsOf DEF dlast, d, top
        <5> QED BY <1>6, <3>2, <5>1
      <4> QED BY ONLY <1>3, <1>4, <1>7, <1>11, <2>1, <2>2, <4>1, <4>2
    <3> QED BY <3>1, <3>2
  <2> QED BY <1>1, <1>3, <1>9, <1>11, <2>3, OtherWindow
<1>13. Wtop \in [Wins -> Nat] /\ Wbot \in [Wins -> Nat] /\ \A x \in Shown : x \in Wins
  BY <1>1, LayoutTypes DEF LayoutInv, Placed
<1>14. ASSUME NEW x \in Shown
       PROVE  WindowShows(m, x, Wtop'[x], Wbot'[x], x = active_win)
  <2>1. Wbot' = [Wbot EXCEPT ![w] = c] /\ Wtop' = IF dlast THEN Wtop ELSE [Wtop EXCEPT ![v] = c + 2]
    <3>1. row + 1 = c + 2
      BY ONLY <1>4, <1>7
    <3> QED BY <1>1, <1>4, <3>1 DEF dlast
  <2>2. CASE x = w
    <3>1. Wbot'[x] = c
      BY <1>13, <2>1, <2>2
    <3>2. Wtop'[x] = a
      BY <1>5, <1>13, <2>1, <2>2 DEF a, dlast
    <3> QED BY <1>9, <2>2, <3>1, <3>2
  <2>3. CASE x = v /\ ~dlast
    <3>1. Wtop'[x] = c + 2
      BY <1>13, <2>1, <2>3
    <3>2. Wbot'[x] = d
      BY <1>5, <1>13, <2>1, <2>3 DEF d, dlast
    <3> QED BY <1>10, <2>3, <3>1, <3>2
  <2>4. CASE x # w /\ (~dlast => x # v)
    <3>1. Wtop'[x] = Wtop[x] /\ Wbot'[x] = Wbot[x]
      BY <1>13, <2>1, <2>4
    <3> QED BY <1>12, <2>4, <3>1
  <2> QED BY <1>5, <2>2, <2>3, <2>4 DEF dlast
<1>15. ASSUME NEW r \in 0..(rows - 1), \A x \in Shown : r >= Wbot'[x] + 2
       PROVE  m[r] \in {Blank, Input}
  <2>1. Wbot' = [Wbot EXCEPT ![w] = c]
    BY <1>1
  <2>2. r >= c + 2
    BY <1>1, <1>13, <1>15, <2>1
  <2>3. CASE r \in (c + 2)..(b + 1)
    BY <1>9, <2>3
  <2>4. CASE r \notin (c + 2)..(b + 1)
    <3>1. r > hi /\ r >= b + 2
      BY ONLY <1>3, <1>7, <1>11, <2>2, <2>4, r \in 0..(rows - 1)
    <3>2. ASSUME NEW x \in Shown PROVE r >= Wbot[x] + 2
      <4>1. CASE x = w
        BY <3>1, <4>1 DEF b
      <4>2. CASE x # w
        <5>1. Wbot'[x] = Wbot[x]
          BY <1>13, <2>1, <4>2
        <5> QED BY <1>15, <5>1
      <4> QED BY <4>1, <4>2
    <3> QED BY <1>1, <1>9, <3>1, <3>2, PaintedIs
  <2> QED BY <2>3, <2>4
<1> QED BY <1>1, <1>2, <1>14, <1>15, PaintedAfter DEF m

LEMMA PaintedNext ==
  ASSUME NoFormFeed, Speak = FALSE, TypeInv, InputShown, InputShown', CursorKnown, Painted,
         [Next]_vars
  PROVE  Painted'
<1>0. LayoutInv /\ LayoutInv'
  BY TypeInvNext DEF TypeInv
<1>1. CASE UNCHANGED vars
  BY <1>1 DEF Painted, vars, Shown, Itop, Lowest
<1>2. ASSUME Writing PROVE closing = 0
  BY <1>2 DEF Writing, TypeInv
<1>3. ASSUME NEW w \in Shown, NEW text \in Texts, Output(w, text) PROVE Painted'
  BY <1>2, <1>3, OutputPainted DEF Output
<1>4. CASE InputPuts
  BY <1>2, <1>4, InputPutsPainted DEF InputPuts
<1>5. CASE CloseEnd \/ CursReset
  BY <1>5 DEF CloseEnd, CursReset, Painted, layout, Shown, Itop, Lowest
<1>6. CASE Redraw
  <2>1. term' = Drawn(rows, ring, Wbot, active_win) /\ UNCHANGED layout
    BY <1>6 DEF Redraw
  <2>2. term' = Drawn(rows', ring', Wbot', active_win')
    BY <2>1 DEF layout
  <2> QED BY <1>0, <2>2, DrawnPainted
<1>7. CASE ToggleMode
  BY <1>7, TogglePainted
<1>8. ASSUME NEW w \in Wins, NEW new \in Wins, NEW loc \in 0..rows, SplitWindow(w, loc, new)
      PROVE  Painted'
  BY <1>8, SplitPainted
<1>9. ASSUME NEW w \in Wins, CloseUp(w) PROVE Painted'
  BY <1>9, CloseUpPainted
<1>10. ASSUME NEW w \in Wins, CloseDown(w) PROVE Painted'
  BY <1>10, CloseDownPainted
<1>11. ASSUME NEW w \in Wins, NewActiveWin(w) PROVE Painted'
  BY <1>11, ActivePainted
<1>12. ASSUME NEW w \in Wins, NEW row \in 0..rows, ResizeWindow(w, row) PROVE Painted'
  BY <1>12, ResizePainted
<1>13. ASSUME NEW n \in Sizes, ResizeScreen(n) PROVE Painted'
  <2>1. rows' = n /\ term' = Drawn(n, ring', Wbot', active_win')
    BY <1>0, <1>13, ResizeScreenIs
  <2> QED BY <1>0, <2>1, DrawnPainted
<1> QED BY <1>1, <1>3, <1>4, <1>5, <1>6, <1>7, <1>8, <1>9, <1>10, <1>11, <1>12, <1>13 DEF Next

LEMMA InitPainted ==
  ASSUME StartAny = FALSE, Init
  PROVE  Painted
<1>1. TypeInv /\ Fits(ring, Wbot, rows)
  BY InitLayout
<1>2. PICK n \in Nat, w \in Wins : /\ n > 0 /\ rows = n /\ ring = <<w>> /\ active_win = w
                                   /\ term = Put(Drawn(n, ring, Wbot, w), Blank)
  BY InitLayout
<1> DEFINE u == Drawn(n, ring, Wbot, w)
<1>3. Placed(ring, Wtop, Wbot) /\ LayoutInv
  BY <1>1 DEF TypeInv, LayoutInv
<1>4. u \in Terminals(n) /\ u.row = n - 1 /\ Shows(u.line, ring, Wtop, Wbot, w, n)
  BY <1>1, <1>2, <1>3, DrawnIs
<1> HIDE DEF u
<1>5. \A r \in 0..(n - 1) : term.line[r] = IF r = n - 1 THEN Blank ELSE u.line[r]
  BY <1>2, <1>4, PutIs, ContentsAre DEF u
<1>6. Shows(term.line, ring, Wtop, Wbot, w, n)
  <2>1. Len(ring) \in 1..Len(ring)
    BY <1>3, LayoutTypes
  <2>2. ASSUME NEW i \in 1..Len(ring)
        PROVE  /\ \A r \in Wtop[ring[i]]..Wbot[ring[i]] : r \in 0..(n - 1) /\ r # n - 1
               /\ Wbot[ring[i]] + 1 \in 0..(n - 1) /\ Wbot[ring[i]] + 1 # n - 1
               /\ \A r \in (Wbot[ring[i]] + 2)..(n - 1) : r \in 0..(n - 1)
    <3> DEFINE a == Wtop[ring[i]]
               b == Wbot[ring[i]]
    <3>1. a \in 0..(n - 1) /\ b \in 0..(n - 1) /\ a < b /\ b + 2 < n
      BY <1>1, <1>2, <1>3, OnScreen
    <3> HIDE DEF a, b
    <3>2. /\ \A r \in a..b : r \in 0..(n - 1) /\ r # n - 1
          /\ b + 1 \in 0..(n - 1) /\ b + 1 # n - 1
          /\ \A r \in (b + 2)..(n - 1) : r \in 0..(n - 1)
      BY ONLY <3>1, n \in Nat
    <3> QED BY <3>2 DEF a, b
  <2> QED BY <1>4, <1>5, <2>1, <2>2 DEF Shows
<1> QED BY <1>2, <1>3, <1>6, PaintedShows

\* The screen shows the layout, whatever is written, split, closed, resized and
\* activated: each window's text in its rows, the divider below it, and the
\* input window, for as long as there is an input window and programs write no
\* form feed, nor anything while a close_window() resumes them.
THEOREM PaintedAlways ==
  ASSUME StartAny = FALSE, NoFormFeed, Speak = FALSE
  PROVE  Spec /\ []InputShown => []Painted
<1>1. Init => Painted
  BY InitPainted
<1>2. TypeInv /\ InputShown /\ InputShown' /\ CursorKnown /\ Painted /\ [Next]_vars => Painted'
  BY PaintedNext
<1> QED BY <1>1, <1>2, TypeInvAlways, CursorKnownAlways, PTL DEF Spec

-----------------------------------------------------------------------------
(* The input window.                                                       *)

LEMMA InputShownAfter ==
  ASSUME LayoutInv', \A w \in Shown' : Wbot'[w] + 3 <= rows'
  PROVE  InputShown'
<1>1. Placed(ring', Wtop', Wbot') /\ rows' \in Nat
  BY SizesAre DEF LayoutInv
<1> DEFINE k == Len(ring')
           c == Wbot'[ring'[k]]
           n == rows'
<1>2. k \in DOMAIN ring' /\ c \in Nat /\ n \in Nat
  BY <1>1, PlacedTypes
<1>3. ring'[k] \in Shown'
  BY <1>2 DEF Shown
<1>4. c + 3 <= n
  BY <1>3
<1>5. InputShown' <=> n - (c + 2) >= 1
  BY DEF InputShown, Isize, Itop, Lowest
<1> HIDE DEF c, n
<1>6. n - (c + 2) >= 1
  BY ONLY <1>2, <1>4
<1> QED BY <1>5, <1>6

\* A new window and the one it is split from end above the row where that one
\* did, a closed one's rows go to a window that is shown, and pr_resize() leaves
\* the input window a row.
LEMMA InputShownNext ==
  ASSUME \A m, n \in Sizes : m = n, TypeInv, InputShown, [Next]_vars
  PROVE  InputShown'
<1>0. LayoutInv /\ LayoutInv'
  BY TypeInvNext DEF TypeInv
<1>1. \A w \in Shown : w \in Wins /\ Wbot[w] \in Nat /\ Wbot[w] + 3 <= rows
  <2>1. ASSUME NEW w \in Shown PROVE w \in Wins /\ Wbot[w] \in Nat /\ Wbot[w] + 3 <= rows
    <3>1. w \in Wins /\ Wbot[w] \in Nat /\ rows \in Nat /\ Wbot[w] + 2 < rows
      BY <1>0, RowsOf
    <3> QED BY ONLY <3>1
  <2> QED BY <2>1
<1>2. Wbot \in [Wins -> Nat] /\ rows \in Nat
  BY <1>0, LayoutTypes DEF LayoutInv, Placed
<1>3. ASSUME UNCHANGED layout PROVE InputShown'
  BY <1>3 DEF layout, InputShown, Isize, Itop, Lowest
<1>4. CASE UNCHANGED vars
  BY <1>3, <1>4 DEF vars, layout
<1>5. ASSUME NEW w \in Shown, NEW text \in Texts, Output(w, text) PROVE InputShown'
  BY <1>3, <1>5 DEF Output
<1>6. CASE InputPuts \/ CloseEnd \/ Redraw \/ ToggleMode \/ CursReset
  BY <1>3, <1>6 DEF InputPuts, CloseEnd, Redraw, ToggleMode, CursReset
<1>7. ASSUME NEW w \in Wins, NEW new \in Wins, NEW loc \in 0..rows, SplitWindow(w, loc, new)
      PROVE  InputShown'
  <2>1. /\ w \in Shown /\ loc \in (Wtop[w] + 2)..(Wbot[w] - 2) /\ rows' = rows
        /\ Wbot' = [Wbot EXCEPT ![new] = loc - 1]
    BY <1>7 DEF SplitWindow, SplitRows
  <2>2. Shown' = Shown \cup {new}
    BY <1>0, <1>7, SplitLayout
  <2>3. (loc - 1) + 3 <= rows
    <3>1. Wbot[w] \in Nat /\ Wtop[w] \in Nat /\ Wbot[w] + 3 <= rows
      BY <1>0, <1>1, <2>1, RowsOf
    <3> QED BY ONLY <1>2, <2>1, <3>1
  <2>4. ASSUME NEW x \in Shown' PROVE Wbot'[x] + 3 <= rows'
    <3>1. CASE x = new
      BY <1>2, <2>1, <2>3, <3>1
    <3>2. CASE x # new
      <4>1. x \in Shown /\ Wbot'[x] = Wbot[x]
        BY <1>1, <1>2, <2>1, <2>2, <3>2
      <4> QED BY <1>1, <2>1, <4>1
    <3> QED BY <3>1, <3>2
  <2> QED BY <1>0, <2>4, InputShownAfter
<1>8. ASSUME NEW w \in Wins, CloseUp(w) PROVE InputShown'
  <2> DEFINE v == ring[At(w) - 1]
  <2>1. w \in Shown /\ Wbot' = [Wbot EXCEPT ![v] = Wbot[w]] /\ rows' = rows
    BY <1>8 DEF CloseUp
  <2>2. Shown' \subseteq Shown
    BY <1>0, <1>8, CloseUpLayout
  <2> HIDE DEF v
  <2>3. ASSUME NEW x \in Shown' PROVE Wbot'[x] + 3 <= rows'
    <3>1. x \in Shown /\ (Wbot'[x] = Wbot[w] \/ Wbot'[x] = Wbot[x])
      BY <1>1, <1>2, <2>1, <2>2
    <3> QED BY <1>1, <2>1, <3>1
  <2> QED BY <1>0, <2>3, InputShownAfter
<1>9. ASSUME NEW w \in Wins, CloseDown(w) PROVE InputShown'
  <2>1. Wbot' = Wbot /\ rows' = rows /\ Shown' \subseteq Shown
    BY <1>0, <1>9, CloseDownLayout DEF CloseDown
  <2> QED BY <1>0, <1>1, <2>1, InputShownAfter
<1>10. ASSUME NEW w \in Wins, NewActiveWin(w) PROVE InputShown'
  BY <1>10 DEF NewActiveWin, InputShown, Isize, Itop, Lowest
<1>11. ASSUME NEW w \in Wins, NEW row \in 0..rows, ResizeWindow(w, row) PROVE InputShown'
  <2>1. /\ w \in Shown /\ row \in ResizeRows(w) /\ rows' = rows /\ ring' = ring
        /\ Wbot' = [Wbot EXCEPT ![w] = row - 1]
    BY <1>11 DEF ResizeWindow
  <2>2. (row - 1) + 3 <= rows
    <3>1. row \in Nat /\ At(w) \in 1..Len(ring) /\ Len(ring) \in Nat
      BY <1>0, <2>1, ResizeRowsAre, PlaceIs, LayoutTypes
    <3>2. CASE At(w) = Len(ring)
      <4>1. row <= rows - 2
        BY <1>0, <2>1, <3>2, ResizeRowsAre
      <4> QED BY ONLY <1>2, <3>1, <4>1
    <3>3. CASE At(w) < Len(ring)
      <4> DEFINE v == ring[At(w) + 1]
      <4>1. v \in Shown /\ row <= Wbot[v] - 2
        BY <1>0, <2>1, <3>3, LowerIs, ResizeRowsAre
      <4>2. Wbot[v] \in Nat /\ Wbot[v] + 3 <= rows
        BY <1>1, <4>1
      <4> HIDE DEF v
      <4> QED BY ONLY <1>2, <3>1, <4>1, <4>2
    <3> QED BY ONLY <3>1, <3>2, <3>3
  <2>3. Shown' = Shown
    BY <2>1 DEF Shown
  <2>4. ASSUME NEW x \in Shown' PROVE Wbot'[x] + 3 <= rows'
    <3>1. CASE x = w
      BY <1>1, <1>2, <2>1, <2>2, <3>1
    <3>2. CASE x # w
      <4>1. Wbot'[x] = Wbot[x]
        BY <1>1, <1>2, <2>1, <2>3, <3>2
      <4> QED BY <1>1, <2>1, <2>3, <4>1
    <3> QED BY <3>1, <3>2
  <2> QED BY <1>0, <2>4, InputShownAfter
<1>12. ASSUME NEW n \in Sizes, ResizeScreen(n) PROVE InputShown'
  <2>1. n # rows /\ rows \in Sizes
    BY <1>0, <1>12 DEF ResizeScreen, LayoutInv
  <2> QED BY <2>1
<1> QED BY <1>4, <1>5, <1>6, <1>7, <1>8, <1>9, <1>10, <1>11, <1>12 DEF Next

\* The terminal has one size only.
OneSize == \A m, n \in Sizes : m = n

\* Windows leave the input window a row whatever is split, closed and resized,
\* on a terminal that keeps its size (pr_resize() and pr_split() check the rows;
\* resize_screen() does not leave one, window.c:672).
THEOREM InputShownAlways ==
  ASSUME StartAny = FALSE, OneSize
  PROVE  Spec => []InputShown
<1>1. Init => InputShown
  BY InitLayout, InputShownFits DEF TypeInv
<1>2. TypeInv /\ InputShown /\ [Next]_vars => InputShown'
  BY InputShownNext DEF OneSize
<1> QED BY <1>1, <1>2, TypeInvAlways, PTL DEF Spec

\* So that on such a terminal the screen always shows the layout.
THEOREM PaintedOneSize ==
  ASSUME StartAny = FALSE, OneSize, NoFormFeed, Speak = FALSE
  PROVE  Spec => []Painted
BY InputShownAlways, PaintedAlways, PTL
=============================================================================

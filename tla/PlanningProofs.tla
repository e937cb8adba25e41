--------------------------- MODULE PlanningProofs ----------------------------
(***************************************************************************)
(* Proofs about ClearanceGrid and ParkPlan, for maps of every size.  The   *)
(* distances that the two passes of clearance_grid() compute are the       *)
(* octile ones to the nearest obstacle (TwoPasses), those that are kept    *)
(* are those of the map as it is now, and a maneuver that is chosen stays  *)
(* clear and is the best that was found.                                   *)
(*                                                                         *)
(* Then about Retrace, for segments of any radius and in any number: an    *)
(* exit ends on the first segment of the parking, a retreat turns the car  *)
(* back and follows the trail of a leg that grouping takes for what it is, *)
(* and a plan means the same in the slot's frame and on the map.           *)
(*                                                                         *)
(* A pass, a sorted order and the loops over segments are recursive: that  *)
(* the functions exist, and what they return, is shown by induction over   *)
(* the natural numbers, from their well-foundedness.                       *)
(***************************************************************************)
EXTENDS ParkPlan, Retrace, SequenceTheorems, WellFoundedInduction, TLAPS

-----------------------------------------------------------------------------
(* Induction over the natural numbers, and recursive functions *)

\* Every set of naturals has a least element.
LEMMA LeastNat ==
  ASSUME NEW T, T \subseteq Nat, T # {}
  PROVE  \E x \in T : \A y \in T : x <= y
<1> DEFINE R == {ss \in Nat \X Nat : ss[1] < ss[2]}
<1>0. IsWellFoundedOn(R, Nat)
  BY NatLessThanWellFounded, Zenon DEF OpToRel
<1> HIDE DEF R
<1>1. PICK x \in T : \A y \in T : ~ (<<y, x>> \in R)
  BY <1>0, WFMin
<1>2. \A y \in T : ~(y < x)
  BY <1>1 DEF R
<1>3. QED
  BY <1>2

\* Induction: a set of naturals that holds 0 and each successor holds them all.
LEMMA SetInduction ==
  ASSUME NEW S, 0 \in S, \A n \in Nat : n \in S => n + 1 \in S
  PROVE  Nat \subseteq S
<1>1. SUFFICES ASSUME Nat \ S # {} PROVE FALSE
  OBVIOUS
<1>2. PICK x \in Nat \ S : \A y \in Nat \ S : x <= y
  BY <1>1, LeastNat
<1>3. x # 0 /\ x - 1 \in Nat
  BY <1>2
<1>4. x - 1 \in S
  BY <1>2, <1>3
<1>5. QED
  BY <1>2, <1>3, <1>4

\* A function on the naturals that starts from a and goes on by step.
Iterates(S, a, step) ==
  \E f \in [Nat -> S] : f[0] = a /\ \A n \in Nat : f[n + 1] = step[<<n, f[n]>>]

\* For every start and step there is such a function.
LEMMA Iteration ==
  ASSUME NEW S, NEW a \in S, NEW step \in [Nat \X S -> S]
  PROVE  Iterates(S, a, step)
<1> DEFINE Ok(n, f) == f \in [0..n -> S] /\ f[0] = a /\ \A i \in 0..(n - 1) : f[i + 1] = step[<<i, f[i]>>]
           Good == {n \in Nat : \E f \in [0..n -> S] : Ok(n, f)}
<1>1. 0 \in Good
  <2>1. Ok(0, [i \in 0..0 |-> a])
    OBVIOUS
  <2>2. QED
    BY <2>1
<1>2. ASSUME NEW n \in Nat, n \in Good PROVE n + 1 \in Good
  <2>1. PICK f \in [0..n -> S] : Ok(n, f)
    BY <1>2
  <2> DEFINE g == [i \in 0..(n + 1) |-> IF i = n + 1 THEN step[<<n, f[n]>>] ELSE f[i]]
  <2>2. g \in [0..(n + 1) -> S]
    <3>1. f[n] \in S /\ step[<<n, f[n]>>] \in S
      BY <2>1
    <3>2. ASSUME NEW i \in 0..(n + 1) PROVE (IF i = n + 1 THEN step[<<n, f[n]>>] ELSE f[i]) \in S
      BY <3>1, <2>1
    <3>3. QED
      BY <3>2
  <2>3. g[0] = a
    BY <2>1
  <2>4. ASSUME NEW i \in 0..n PROVE g[i + 1] = step[<<i, g[i]>>]
    <3>1. CASE i = n
      <4>1. g[i] = f[n] /\ g[i + 1] = step[<<n, f[n]>>]
        BY <3>1
      <4>2. QED
        BY <4>1, <3>1
    <3>2. CASE i # n
      <4>1. i \in 0..(n - 1) /\ g[i + 1] = f[i + 1] /\ g[i] = f[i]
        BY <3>2
      <4>2. QED
        BY <4>1, <2>1
    <3>3. QED
      BY <3>1, <3>2
  <2> HIDE DEF g
  <2>5. \A i \in 0..((n + 1) - 1) : g[i + 1] = step[<<i, g[i]>>]
    BY <2>4
  <2>6. Ok(n + 1, g)
    BY <2>2, <2>3, <2>5
  <2>7. QED
    BY <2>2, <2>6
<1>3. Nat \subseteq Good
  <2> HIDE DEF Good
  <2>1. QED
    BY <1>1, <1>2, SetInduction
<1>4. \A n \in Nat : \E f \in [0..n -> S] : Ok(n, f)
  BY <1>3
<1>5. ASSUME NEW m \in Nat, NEW k \in Nat, NEW f, NEW g, Ok(m, f), Ok(k, g)
      PROVE  \A i \in Nat : i <= m /\ i <= k => f[i] = g[i]
  <2> DEFINE Same == {i \in Nat : i <= m /\ i <= k => f[i] = g[i]}
  <2>1. 0 \in Same
    BY <1>5
  <2>2. ASSUME NEW i \in Nat, i \in Same PROVE i + 1 \in Same
    <3>1. SUFFICES ASSUME i + 1 <= m, i + 1 <= k PROVE f[i + 1] = g[i + 1]
      OBVIOUS
    <3>2. f[i] = g[i] /\ i \in 0..(m - 1) /\ i \in 0..(k - 1)
      BY <2>2, <3>1
    <3>3. QED
      BY <3>2, <1>5
  <2>3. Nat \subseteq Same
    <3> HIDE DEF Same
    <3>1. QED
      BY <2>1, <2>2, SetInduction
  <2>4. QED
    BY <2>3
<1> DEFINE F(n) == CHOOSE f \in [0..n -> S] : Ok(n, f)
           h == [n \in Nat |-> F(n)[n]]
<1>6. \A n \in Nat : F(n) \in [0..n -> S] /\ Ok(n, F(n))
  BY <1>4
<1> HIDE DEF F
<1>7. h \in [Nat -> S]
  <2>1. \A n \in Nat : F(n)[n] \in S
    BY <1>6
  <2>2. QED
    BY <2>1
<1>8. h[0] = a
  BY <1>6
<1>9. ASSUME NEW n \in Nat PROVE h[n + 1] = step[<<n, h[n]>>]
  <2>1. Ok(n + 1, F(n + 1)) /\ Ok(n, F(n))
    BY <1>6
  <2>2. F(n + 1)[n] = F(n)[n]
    <3> HIDE DEF Ok
    <3>1. QED
      BY <2>1, <1>5
  <2>3. F(n + 1)[n + 1] = step[<<n, F(n + 1)[n]>>]
    BY <2>1
  <2>4. QED
    BY <2>2, <2>3
<1>10. QED
  BY <1>7, <1>8, <1>9 DEF Iterates

\* The same over a bounded range.
Recurses(S, a, N, rule) ==
  \E f \in [0..N -> S] : f[0] = a /\ \A i \in 1..N : f[i] = rule[<<i, f[i - 1]>>]

\* For every start and rule there is such a function too.
LEMMA Recursion ==
  \A S, a, N, rule : a \in S /\ N \in Nat /\ rule \in [(1..N) \X S -> S] => Recurses(S, a, N, rule)
<1> TAKE S, a, N, rule
<1> HAVE a \in S /\ N \in Nat /\ rule \in [(1..N) \X S -> S]
<1> DEFINE onward == [p \in Nat \X S |-> IF p[1] < N THEN rule[<<p[1] + 1, p[2]>>] ELSE p[2]]
<1>1. onward \in [Nat \X S -> S]
  OBVIOUS
<1>2. \A n \in Nat, v \in S : n < N => onward[<<n, v>>] = rule[<<n + 1, v>>]
  OBVIOUS
<1> HIDE DEF onward
<1>3. Iterates(S, a, onward)
  BY <1>1, Iteration, Zenon
<1>4. PICK f \in [Nat -> S] : f[0] = a /\ \A n \in Nat : f[n + 1] = onward[<<n, f[n]>>]
  BY <1>3 DEF Iterates
<1> DEFINE g == [i \in 0..N |-> f[i]]
<1>5. g \in [0..N -> S] /\ g[0] = a
  BY <1>4
<1>6. ASSUME NEW i \in 1..N PROVE g[i] = rule[<<i, g[i - 1]>>]
  <2>1. i - 1 \in Nat /\ i - 1 < N /\ (i - 1) + 1 = i /\ g[i] = f[i] /\ g[i - 1] = f[i - 1]
    OBVIOUS
  <2>2. f[i] = onward[<<i - 1, f[i - 1]>>] /\ f[i - 1] \in S
    BY <1>4, <2>1
  <2>3. QED
    BY <1>2, <2>1, <2>2
<1>7. QED
  BY <1>5, <1>6 DEF Recurses

\* What a recursive function returns is of the type its steps keep.
LEMMA RecursionTyping ==
  ASSUME NEW S, NEW N \in Nat, NEW b, DOMAIN b = 0..N, b = [i \in 0..N |-> b[i]], b[0] \in S,
         \A i \in 1..N : b[i - 1] \in S => b[i] \in S
  PROVE  b \in [0..N -> S]
<1> DEFINE Good == {i \in Nat : i <= N => b[i] \in S}
<1>1. 0 \in Good
  OBVIOUS
<1>2. ASSUME NEW i \in Nat, i \in Good PROVE i + 1 \in Good
  <2>1. SUFFICES ASSUME i + 1 <= N PROVE b[i + 1] \in S
    OBVIOUS
  <2>2. i + 1 \in 1..N /\ (i + 1) - 1 = i /\ b[i] \in S
    BY <1>2, <2>1
  <2>3. QED
    BY <2>2
<1>3. Nat \subseteq Good
  <2> HIDE DEF Good
  <2>1. QED
    BY <1>1, <1>2, SetInduction
<1>4. \A i \in 0..N : b[i] \in S
  BY <1>3
<1>5. QED
  BY <1>4

\* Facts about products and quotients, for the numbering of the cells.
LEMMA MulMono ==
  ASSUME NEW w \in Nat, NEW k \in Int, k >= 1
  PROVE  k * w >= w
OBVIOUS

\* A cell's number gives its column and row back.
LEMMA DivUnique ==
  ASSUME NEW w \in Nat \ {0}, NEW y \in Nat, NEW x \in 0..(w-1)
  PROVE  (y * w + x) \div w = y /\ (y * w + x) % w = x
OBVIOUS

\* And every number below the size of the map is that of a cell.
LEMMA DivRange ==
  ASSUME NEW w \in Nat \ {0}, NEW h \in Nat, NEW i \in 0..(w*h - 1)
  PROVE  (i \div w) \in 0..(h-1) /\ (i % w) \in 0..(w-1) /\ i = (i \div w) * w + (i % w)
OBVIOUS

-----------------------------------------------------------------------------
(* One pass over the grid *)

\* Min() is one of the numbers, and none is less.
LEMMA MinOf ==
  ASSUME NEW T, T \subseteq Nat, T # {}
  PROVE  Min(T) \in T /\ \A y \in T : Min(T) <= y
BY LeastNat DEF Min

\* The distances, one for each cell.
Fields == [Cells -> Nat]

\* What a step to a neighbour costs.
LEMMA HopTyping == ASSUME NEW c, NEW n PROVE Hop(c, n) \in Nat /\ Hop(c, n) <= 2 * Res
BY GridAssumption DEF Hop

\* What relaxing a cell does to it, and that it does nothing to the others.
LEMMA Relaxing ==
  ASSUME NEW d \in Fields, NEW c \in Cells, NEW near \in SUBSET Cells
  PROVE  /\ Relax(d, c, near) \in Fields
         /\ \A e \in Cells : e # c => Relax(d, c, near)[e] = d[e]
         /\ Relax(d, c, near)[c] <= d[c]
         /\ \A n \in near : Relax(d, c, near)[c] <= d[n] + Hop(c, n)
         /\ \A b \in Nat : b <= d[c] /\ (\A n \in near : b <= d[n] + Hop(c, n))
                             => b <= Relax(d, c, near)[c]
<1> DEFINE T == {d[c]} \cup {d[n] + Hop(c, n) : n \in near}
           v == IF d[c] = 0 THEN 0 ELSE Min(T)
<1>1. d[c] \in Nat /\ \A n \in near : d[n] \in Nat /\ d[n] + Hop(c, n) \in Nat
  BY HopTyping DEF Fields
<1>2. Min(T) \in T /\ \A y \in T : Min(T) <= y
  <2>1. T \subseteq Nat /\ T # {}
    BY <1>1
  <2>2. QED
    BY <2>1, MinOf
<1>3. Relax(d, c, near) = [d EXCEPT ![c] = v]
  BY DEF Relax, Fields
<1>4. v \in Nat /\ v <= d[c] /\ \A n \in near : v <= d[n] + Hop(c, n)
  <2>1. CASE d[c] = 0
    BY <2>1, <1>1
  <2>2. CASE d[c] # 0
    BY <2>2, <1>1, <1>2
  <2>3. QED
    BY <2>1, <2>2
<1>5. ASSUME NEW b \in Nat, b <= d[c], \A n \in near : b <= d[n] + Hop(c, n) PROVE b <= v
  <2>1. b <= Min(T)
    BY <1>2, <1>5
  <2>2. QED
    BY <1>5, <2>1
<1> HIDE DEF v
<1>6. Relax(d, c, near)[c] = v /\ Relax(d, c, near) \in Fields
      /\ \A e \in Cells : e # c => Relax(d, c, near)[e] = d[e]
  BY <1>3, <1>4 DEF Fields
<1>7. QED
  BY <1>4, <1>5, <1>6

\* The recursion that Pass is written with has a solution.
LEMMA PassRuns ==
  ASSUME NEW d \in Fields, NEW order \in Seq(Cells), NEW near \in [Cells -> SUBSET Cells]
  PROVE  \E after \in [0..Len(order) -> Fields] :
           /\ after[0] = d
           /\ \A i \in 1..Len(order) : after[i] = Relax(after[i - 1], order[i], near[order[i]])
           /\ Pass(d, order, near) = after[Len(order)]
<1> DEFINE N == Len(order)
           step == [p \in (1..N) \X Fields |-> Relax(p[2], order[p[1]], near[order[p[1]]])]
           Runs(a) == a = [i \in 0..N |->
                             IF i = 0 THEN d ELSE Relax(a[i - 1], order[i], near[order[i]])]
           b == CHOOSE a : Runs(a)
<1>1. N \in Nat /\ \A i \in 1..N : order[i] \in Cells /\ near[order[i]] \in SUBSET Cells
  OBVIOUS
<1>2. \A i \in 1..N, v \in Fields : Relax(v, order[i], near[order[i]]) \in Fields
  BY <1>1, Relaxing
<1>3. step \in [(1..N) \X Fields -> Fields]
        /\ \A i \in 1..N, v \in Fields : step[<<i, v>>] = Relax(v, order[i], near[order[i]])
  BY <1>2
<1> HIDE DEF step
<1>4a. Recurses(Fields, d, N, step)
  BY <1>1, <1>3, Recursion, Zenon
<1>4. PICK a \in [0..N -> Fields] : a[0] = d /\ \A i \in 1..N : a[i] = step[<<i, a[i - 1]>>]
  BY <1>4a DEF Recurses
<1>5. ASSUME NEW i \in 1..N
      PROVE  a[i - 1] \in Fields /\ a[i] = Relax(a[i - 1], order[i], near[order[i]])
  <2>1. i - 1 \in 0..N
    BY <1>1
  <2>2. a[i - 1] \in Fields
    BY <2>1, <1>4
  <2>3. QED
    BY <1>3, <1>4, <2>2
<1>6. \E g : Runs(g)
  <2>1. \A i \in 0..N : a[i] = IF i = 0 THEN d ELSE Relax(a[i - 1], order[i], near[order[i]])
    BY <1>1, <1>4, <1>5
  <2>2. Runs(a)
    BY <2>1
  <2> HIDE DEF Runs
  <2>3. QED
    BY <2>2
<1>7. Runs(b)
  <2> HIDE DEF Runs
  <2>1. QED
    BY <1>6, Zenon
<1>8. Pass(d, order, near) = b[N]
  BY DEF Pass
<1> HIDE DEF b
<1>9. DOMAIN b = 0..N /\ b = [i \in 0..N |-> b[i]] /\ b[0] = d
      /\ \A i \in 1..N : b[i] = Relax(b[i - 1], order[i], near[order[i]])
  <2>1. DOMAIN b = 0..N /\ b = [i \in 0..N |-> b[i]]
    BY <1>7
  <2>2. \A i \in 0..N : b[i] = IF i = 0 THEN d ELSE Relax(b[i - 1], order[i], near[order[i]])
    BY <1>7
  <2>3. QED
    BY <1>1, <2>1, <2>2, SMTT(20)
<1>10. b \in [0..N -> Fields]
  <2>1. \A i \in 1..N : b[i - 1] \in Fields => b[i] \in Fields
    BY <1>2, <1>9
  <2>2. QED
    BY <1>1, <1>9, <2>1, RecursionTyping
<1>11. QED
  BY <1>8, <1>9, <1>10

\* An order of the cells, each once, and neighbours that come before theirs.
Sweeping(order, pos, near) ==
  /\ order \in Seq(Cells) /\ pos \in [Cells -> 1..Len(order)]
  /\ near \in [Cells -> SUBSET Cells]
  /\ \A c \in Cells : order[pos[c]] = c
  /\ \A i \in 1..Len(order) : pos[order[i]] = i
  /\ \A c \in Cells : \A n \in near[c] : pos[n] < pos[c]

\* No cell is further than a neighbour that the pass has done, and the step from it.
Settled(r, near) == \A c \in Cells : \A n \in near[c] : r[c] <= r[n] + Hop(c, n)

\* What a pass computes: no more than before, settled, and the largest such distances.
LEMMA PassSettles ==
  ASSUME NEW d \in Fields, NEW order, NEW pos, NEW near, Sweeping(order, pos, near)
  PROVE  /\ Pass(d, order, near) \in Fields
         /\ \A c \in Cells : Pass(d, order, near)[c] <= d[c]
         /\ Settled(Pass(d, order, near), near)
         /\ \A T \in Fields : (\A c \in Cells : T[c] <= d[c]) /\ Settled(T, near)
                               => \A c \in Cells : T[c] <= Pass(d, order, near)[c]
<1> DEFINE N == Len(order)
           r == Pass(d, order, near)
<1>1. order \in Seq(Cells) /\ near \in [Cells -> SUBSET Cells]
  BY DEF Sweeping
<1>2. PICK after \in [0..N -> Fields] :
        /\ after[0] = d
        /\ \A i \in 1..N : after[i] = Relax(after[i - 1], order[i], near[order[i]])
        /\ r = after[N]
  BY <1>1, PassRuns
<1>3. N \in Nat /\ \A i \in 1..N : order[i] \in Cells /\ near[order[i]] \in SUBSET Cells
  BY <1>1
<1>4. \A i \in 0..N : after[i] \in Fields /\ \A c \in Cells : after[i][c] \in Nat
  BY <1>2 DEF Fields
<1>5. ASSUME NEW i \in 1..N
      PROVE  /\ i - 1 \in 0..N
             /\ \A c \in Cells : c # order[i] => after[i][c] = after[i - 1][c]
             /\ after[i][order[i]] <= after[i - 1][order[i]]
             /\ \A n \in near[order[i]] : after[i][order[i]] <= after[i - 1][n] + Hop(order[i], n)
             /\ \A b \in Nat : b <= after[i - 1][order[i]]
                               /\ (\A n \in near[order[i]] : b <= after[i - 1][n] + Hop(order[i], n))
                               => b <= after[i][order[i]]
  <2>1. i - 1 \in 0..N
    BY <1>3
  <2>2. after[i - 1] \in Fields /\ after[i] = Relax(after[i - 1], order[i], near[order[i]])
    BY <1>2, <1>4, <2>1
  <2>3. QED
    BY <1>3, <2>1, <2>2, Relaxing
<1>6. r \in Fields
  BY <1>2, <1>3
\* never more than before
<1>7. \A c \in Cells : r[c] <= d[c]
  <2> DEFINE Good == {i \in Nat : i <= N => \A c \in Cells : after[i][c] <= d[c]}
  <2>1. 0 \in Good
    BY <1>2, <1>4
  <2>2. ASSUME NEW i \in Nat, i \in Good PROVE i + 1 \in Good
    <3>1. SUFFICES ASSUME i + 1 <= N, NEW c \in Cells PROVE after[i + 1][c] <= d[c]
      OBVIOUS
    <3>2. i + 1 \in 1..N /\ (i + 1) - 1 = i /\ i \in 0..N /\ i + 1 \in 0..N
      BY <1>3, <3>1
    <3>3. after[i][c] <= d[c]
      BY <2>2, <3>2
    <3>4. after[i + 1][c] <= after[i][c]
      BY <1>4, <1>5, <3>2
    <3>5. d[c] \in Nat /\ after[i][c] \in Nat /\ after[i + 1][c] \in Nat
      BY <1>4, <3>2 DEF Fields
    <3>6. QED
      BY <3>3, <3>4, <3>5
  <2>3. Nat \subseteq Good
    <3> HIDE DEF Good
    <3>1. QED
      BY <2>1, <2>2, SetInduction
  <2>4. QED
    BY <1>2, <1>3, <2>3
\* the value a cell gets at its turn is final
<1>8. \A i \in 0..N : \A c \in Cells : pos[c] <= i => after[i][c] = after[pos[c]][c]
  <2> DEFINE Good == {i \in Nat : i <= N => \A c \in Cells : pos[c] <= i => after[i][c] = after[pos[c]][c]}
  <2>1. 0 \in Good
    BY DEF Sweeping
  <2>2. ASSUME NEW i \in Nat, i \in Good PROVE i + 1 \in Good
    <3>1. SUFFICES ASSUME i + 1 <= N, NEW c \in Cells, pos[c] <= i + 1
                   PROVE  after[i + 1][c] = after[pos[c]][c]
      OBVIOUS
    <3>2. i + 1 \in 1..N /\ (i + 1) - 1 = i
      BY <1>3, <3>1
    <3>3. CASE pos[c] = i + 1
      BY <3>3
    <3>4. CASE pos[c] # i + 1
      <4>1. pos[c] <= i /\ c # order[i + 1]
        BY <3>1, <3>2, <3>4 DEF Sweeping
      <4>2. after[i][c] = after[pos[c]][c]
        BY <2>2, <3>1, <4>1
      <4>3. after[i + 1][c] = after[i][c]
        BY <1>5, <3>2, <4>1
      <4>4. QED
        BY <4>2, <4>3
    <3>5. QED
      BY <3>3, <3>4
  <2>3. Nat \subseteq Good
    <3> HIDE DEF Good
    <3>1. QED
      BY <2>1, <2>2, SetInduction
  <2>4. QED
    BY <1>3, <2>3
<1>9. \A c \in Cells : r[c] = after[pos[c]][c]
  <2>1. SUFFICES ASSUME NEW c \in Cells PROVE r[c] = after[pos[c]][c]
    OBVIOUS
  <2>2. N \in 0..N /\ pos[c] \in 1..N /\ pos[c] <= N
    BY <1>3 DEF Sweeping
  <2>3. QED
    BY <1>2, <1>8, <2>2
<1>10. Settled(r, near)
  <2>1. SUFFICES ASSUME NEW c \in Cells, NEW n \in near[c] PROVE r[c] <= r[n] + Hop(c, n)
    BY DEF Settled
  <2>2. n \in Cells /\ pos[c] \in 1..N /\ pos[n] \in 1..N /\ pos[n] < pos[c] /\ order[pos[c]] = c
    BY DEF Sweeping
  <2>3. after[pos[c]][c] <= after[pos[c] - 1][n] + Hop(c, n) /\ pos[c] - 1 \in 0..N
    BY <1>5, <2>2
  <2>4. after[pos[c] - 1][n] = after[pos[n]][n]
    BY <1>8, <2>2, <2>3
  <2>5. QED
    BY <1>9, <2>2, <2>3, <2>4
\* nothing that is settled and below at first is ever passed
<1>11. ASSUME NEW T \in Fields, \A c \in Cells : T[c] <= d[c], Settled(T, near)
       PROVE  \A c \in Cells : T[c] <= r[c]
  <2> DEFINE Good == {i \in Nat : i <= N => \A c \in Cells : T[c] <= after[i][c]}
  <2>1. 0 \in Good
    BY <1>2, <1>11
  <2>2. ASSUME NEW i \in Nat, i \in Good PROVE i + 1 \in Good
    <3>1. SUFFICES ASSUME i + 1 <= N, NEW c \in Cells PROVE T[c] <= after[i + 1][c]
      OBVIOUS
    <3>2. i + 1 \in 1..N /\ (i + 1) - 1 = i /\ i \in 0..N
      BY <1>3, <3>1
    <3>3. \A e \in Cells : T[e] <= after[i][e]
      BY <2>2, <3>2
    <3>4. CASE c # order[i + 1]
      BY <1>5, <3>2, <3>3, <3>4
    <3>5. CASE c = order[i + 1]
      <4>1. T[c] \in Nat /\ T[c] <= after[i][c]
        BY <3>3 DEF Fields
      <4>2. ASSUME NEW n \in near[c] PROVE T[c] <= after[i][n] + Hop(c, n)
        <5>1. n \in Cells /\ T[c] <= T[n] + Hop(c, n)
          BY <1>1, <1>11 DEF Settled
        <5>2. T[n] <= after[i][n] /\ T[n] \in Nat /\ after[i][n] \in Nat /\ Hop(c, n) \in Nat
          BY <1>4, <3>2, <3>3, <5>1, HopTyping DEF Fields
        <5>3. QED
          BY <4>1, <5>1, <5>2
      <4>3. QED
        BY <1>5, <3>2, <3>5, <4>1, <4>2
    <3>6. QED
      BY <3>4, <3>5
  <2>3. Nat \subseteq Good
    <3> HIDE DEF Good
    <3>1. QED
      BY <2>1, <2>2, SetInduction
  <2>4. QED
    BY <1>2, <1>3, <2>3
<1>12. QED
  BY <1>6, <1>7, <1>10, <1>11

-----------------------------------------------------------------------------
(* The two passes of clearance_grid() find every cell's distance *)

\* What a chain of cells costs, each done before the next.
LEMMA Ray ==
  ASSUME NEW near \in [Cells -> SUBSET Cells], NEW r \in Fields, Settled(r, near),
         NEW m \in Nat, NEW path \in [0..m -> Cells], NEW h \in Nat,
         \A k \in 1..m : path[k - 1] \in near[path[k]] /\ Hop(path[k], path[k - 1]) = h
  PROVE  r[path[m]] <= r[path[0]] + m * h
<1> DEFINE Good == {k \in Nat : k <= m => r[path[k]] <= r[path[0]] + k * h}
<1>1. 0 \in Good
  BY DEF Fields
<1>2. ASSUME NEW k \in Nat, k \in Good PROVE k + 1 \in Good
  <2>1. SUFFICES ASSUME k + 1 <= m PROVE r[path[k + 1]] <= r[path[0]] + (k + 1) * h
    OBVIOUS
  <2>2. k + 1 \in 1..m /\ (k + 1) - 1 = k /\ path[k] \in Cells /\ path[k + 1] \in Cells /\ path[0] \in Cells
    BY <2>1
  <2>3. r[path[k + 1]] <= r[path[k]] + h
    <3>1. path[k] \in near[path[k + 1]] /\ Hop(path[k + 1], path[k]) = h
      BY <2>2
    <3>2. QED
      BY <2>2, <3>1 DEF Settled
  <2>4. r[path[k]] <= r[path[0]] + k * h
    BY <1>2, <2>1
  <2>5. r[path[k + 1]] \in Nat /\ r[path[k]] \in Nat /\ r[path[0]] \in Nat
    BY <2>2 DEF Fields
  <2>6. (k + 1) * h = k * h + h /\ k * h \in Nat
    OBVIOUS
  <2>7. QED
    BY <2>3, <2>4, <2>5, <2>6, SMTT(20)
<1>3. Nat \subseteq Good
  <2> HIDE DEF Good
  <2>1. QED
    BY <1>1, <1>2, SetInduction
<1>4. QED
  BY <1>3

\* The number of cells, and a cell's place among them.
Size == Width * Height
At(c) == c[2] * Width + c[1] + 1

\* The order of the first pass: row by row, every cell once.
LEMMA Rasters ==
  /\ Size \in Nat
  /\ Raster \in Seq(Cells) /\ Len(Raster) = Size
  /\ \A c \in Cells : At(c) \in 1..Size /\ Raster[At(c)] = c
  /\ \A i \in 1..Size : Raster[i] \in Cells /\ At(Raster[i]) = i
  /\ \A c, n \in Cells : Before(c, n) <=> At(n) < At(c)
<1>1. Width \in Nat \ {0} /\ Height \in Nat \ {0} /\ Size \in Nat
  BY GridAssumption DEF Size
<1>2. ASSUME NEW i \in 1..Size PROVE Raster[i] \in Cells /\ At(Raster[i]) = i
  <2>1. i - 1 \in 0..(Width * Height - 1)
    BY <1>1 DEF Size
  <2>2. ((i - 1) \div Width) \in 0..(Height - 1) /\ ((i - 1) % Width) \in 0..(Width - 1)
        /\ i - 1 = ((i - 1) \div Width) * Width + ((i - 1) % Width)
    BY <1>1, <2>1, DivRange
  <2>3. Raster[i] = <<(i - 1) % Width, (i - 1) \div Width>>
    BY DEF Raster, Size
  <2>4. QED
    BY <2>2, <2>3 DEF Cells, At
<1>3. Raster \in Seq(Cells) /\ Len(Raster) = Size
  <2>1. Raster = [i \in 1..Size |-> Raster[i]]
    BY DEF Raster, Size
  <2>2. QED
    BY <1>1, <1>2, <2>1
<1>4. ASSUME NEW c \in Cells PROVE At(c) \in 1..Size /\ Raster[At(c)] = c
  <2>1. c[1] \in 0..(Width - 1) /\ c[2] \in 0..(Height - 1) /\ c = <<c[1], c[2]>>
    BY DEF Cells
  <2>2. At(c) - 1 = c[2] * Width + c[1] /\ c[2] * Width \in Nat
    BY <1>1, <2>1 DEF At
  <2>3. (At(c) - 1) \div Width = c[2] /\ (At(c) - 1) % Width = c[1]
    BY <1>1, <2>1, <2>2, DivUnique
  <2>4. At(c) \in 1..Size
    <3>1. (Height - c[2]) * Width >= Width
      BY <1>1, <2>1, MulMono
    <3>2. Size = c[2] * Width + (Height - c[2]) * Width
      BY <1>1, <2>1 DEF Size
    <3>3. \A p \in Nat, q \in Int : q >= Width /\ Size = p + q => p + c[1] + 1 \in 1..Size
      BY <1>1, <2>1
    <3>4. (Height - c[2]) * Width \in Int /\ c[2] * Width \in Nat
      BY <1>1, <2>1
    <3>5. c[2] * Width + c[1] + 1 \in 1..Size
      BY <3>1, <3>2, <3>3, <3>4
    <3>6. QED
      BY <3>5 DEF At
  <2>5. QED
    BY <2>1, <2>3, <2>4 DEF Raster, Size
<1>5. ASSUME NEW c \in Cells, NEW n \in Cells PROVE Before(c, n) <=> At(n) < At(c)
  <2>1. /\ c[1] \in 0..(Width - 1) /\ c[2] \in 0..(Height - 1)
        /\ n[1] \in 0..(Width - 1) /\ n[2] \in 0..(Height - 1)
    BY DEF Cells
  <2>2. \A y, z \in Nat : y < z => z * Width >= y * Width + Width
    <3>1. SUFFICES ASSUME NEW y \in Nat, NEW z \in Nat, y < z PROVE z * Width >= y * Width + Width
      OBVIOUS
    <3>2. (z - y) * Width >= Width
      BY <1>1, <3>1, MulMono
    <3>3. QED
      BY <1>1, <3>2
  <2>3. c[2] * Width \in Nat /\ n[2] * Width \in Nat
    BY <1>1, <2>1
  <2>4. CASE n[2] < c[2]
    <3>1. c[2] * Width >= n[2] * Width + Width
      BY <2>1, <2>2, <2>4
    <3>2. QED
      BY <1>1, <2>1, <2>3, <2>4, <3>1 DEF Before, At
  <2>5. CASE c[2] < n[2]
    <3>1. n[2] * Width >= c[2] * Width + Width
      BY <2>1, <2>2, <2>5
    <3>2. QED
      BY <1>1, <2>1, <2>3, <2>5, <3>1 DEF Before, At
  <2>6. CASE c[2] = n[2]
    BY <1>1, <2>1, <2>3, <2>6 DEF Before, At
  <2>7. QED
    BY <2>1, <2>4, <2>5, <2>6
<1>6. QED
  BY <1>1, <1>2, <1>3, <1>4, <1>5

\* The neighbours that each of the two passes looks at.
EarlierOf == [c \in Cells |-> Earlier(c)]
LaterOf == [c \in Cells |-> Later(c)]

\* The first pass looks at neighbours that it has done already.
LEMMA Sweeps1 == Sweeping(Raster, [c \in Cells |-> At(c)], EarlierOf)
<1>1. \A c \in Cells : Earlier(c) \in SUBSET Cells
  BY DEF Earlier, Neighbours
<1>2. \A c \in Cells : \A n \in Earlier(c) : At(n) < At(c)
  BY Rasters DEF Earlier, Neighbours
<1>3. QED
  BY <1>1, <1>2, Rasters DEF Sweeping, EarlierOf

\* So does the second, which goes the other way.
LEMMA Sweeps2 == Sweeping(Reverse(Raster), [c \in Cells |-> Size + 1 - At(c)], LaterOf)
<1>0. Reverse(Raster) = [i \in 1..Size |-> Raster[(Size - i) + 1]]
  BY Rasters DEF Reverse
<1>1. \A i \in 1..Size : (Size - i) + 1 \in 1..Size /\ Size + 1 - i \in 1..Size
  BY Rasters
<1>2. Reverse(Raster) \in Seq(Cells) /\ Len(Reverse(Raster)) = Size
  <2>1. \A i \in 1..Size : Reverse(Raster)[i] \in Cells
    BY <1>0, <1>1, Rasters
  <2>2. QED
    BY <1>0, <2>1, Rasters
<1>3. \A c \in Cells : Later(c) \in SUBSET Cells
  BY DEF Later, Neighbours
<1>4. ASSUME NEW c \in Cells, NEW n \in Later(c) PROVE Size + 1 - At(n) < Size + 1 - At(c)
  <2>1. n \in Cells /\ n # c /\ ~ Before(c, n)
    BY <1>4 DEF Later, Earlier, Neighbours
  <2>2. At(n) # At(c) /\ ~ (At(n) < At(c)) /\ At(n) \in 1..Size /\ At(c) \in 1..Size
    BY <2>1, Rasters
  <2>3. QED
    BY <2>2, Rasters
<1>5. \A c \in Cells : Reverse(Raster)[Size + 1 - At(c)] = c
  <2>1. SUFFICES ASSUME NEW c \in Cells PROVE Reverse(Raster)[Size + 1 - At(c)] = c
    OBVIOUS
  <2>2. At(c) \in 1..Size /\ Size + 1 - At(c) \in 1..Size /\ (Size - (Size + 1 - At(c))) + 1 = At(c)
    BY Rasters
  <2> DEFINE x == Size + 1 - At(c)
  <2>3. x \in 1..Size /\ (Size - x) + 1 = At(c)
    BY <2>2
  <2> HIDE DEF x
  <2>4. Reverse(Raster)[x] = Raster[At(c)]
    BY <1>0, <2>3
  <2>5. Raster[At(c)] = c
    BY Rasters
  <2>6. QED
    BY <2>4, <2>5 DEF x
<1>6. \A i \in 1..Size : Size + 1 - At(Reverse(Raster)[i]) = i
  <2>1. SUFFICES ASSUME NEW i \in 1..Size PROVE Size + 1 - At(Reverse(Raster)[i]) = i
    OBVIOUS
  <2>2. Reverse(Raster)[i] = Raster[(Size - i) + 1] /\ At(Raster[(Size - i) + 1]) = (Size - i) + 1
    BY <1>0, <1>1, Rasters
  <2>3. QED
    BY <2>2, Rasters
<1>7. \A c \in Cells : Size + 1 - At(c) \in 1..Size
  BY <1>1, Rasters
<1>8. \A i \in 1..Size : Reverse(Raster)[i] \in Cells
  BY <1>2
<1> DEFINE pos == [c \in Cells |-> Size + 1 - At(c)]
<1>9. pos \in [Cells -> 1..Size] /\ \A c \in Cells : pos[c] = Size + 1 - At(c)
  BY <1>7
<1>10. LaterOf \in [Cells -> SUBSET Cells] /\ \A c \in Cells : LaterOf[c] = Later(c)
  BY <1>3 DEF LaterOf
<1> HIDE DEF pos
<1>11. \A c \in Cells : \A n \in LaterOf[c] : pos[n] < pos[c]
  BY <1>3, <1>4, <1>9, <1>10
<1>12. Sweeping(Reverse(Raster), pos, LaterOf)
  BY <1>2, <1>5, <1>6, <1>8, <1>9, <1>10, <1>11 DEF Sweeping
<1>13. QED
  BY <1>12 DEF pos

\* Octile distance, from the columns and rows between two cells.
Away(a, b) == IF a <= b THEN Diag * a + Res * (b - a) ELSE Diag * b + Res * (a - b)

\* The numbers of the grid: a step across costs between one step to the side and two.
LEMMA GridNumbers == /\ Width \in Nat \ {0} /\ Height \in Nat \ {0} /\ Res \in Nat \ {0}
                     /\ Diag \in Nat /\ Res <= Diag /\ Diag <= 2 * Res /\ Big \in Nat
<1>1. Width \in Nat \ {0} /\ Height \in Nat \ {0} /\ Res \in Nat \ {0}
                     /\ Diag \in Nat /\ Res <= Diag /\ Diag <= 2 * Res
  BY GridAssumption
<1>2. QED
  BY <1>1 DEF Big

\* The octile distance is a natural number.
LEMMA AwayTyping == \A a, b \in Nat : Away(a, b) \in Nat
<1>1. SUFFICES ASSUME NEW a \in Nat, NEW b \in Nat PROVE Away(a, b) \in Nat
  OBVIOUS
<1>2. Diag * a \in Nat /\ Diag * b \in Nat
  BY GridNumbers
<1>3. (a <= b => Res * (b - a) \in Nat) /\ (~(a <= b) => Res * (a - b) \in Nat)
  BY GridNumbers
<1>4. \A p, q \in Nat : p + q \in Nat
  OBVIOUS
<1>5. CASE a <= b
  <2>1. Diag * a + Res * (b - a) \in Nat
    BY <1>2, <1>3, <1>4, <1>5
  <2>2. QED
    BY <2>1, <1>5 DEF Away
<1>6. CASE ~(a <= b)
  <2>1. Diag * b + Res * (a - b) \in Nat
    BY <1>2, <1>3, <1>4, <1>6
  <2>2. QED
    BY <2>1, <1>6 DEF Away
<1>7. QED
  BY <1>5, <1>6

\* A step to the side.
LEMMA AwaySide ==
  ASSUME NEW a \in Nat, NEW b \in Nat
  PROVE  /\ Away(a + 1, b) <= Away(a, b) + Res /\ Away(a, b) <= Away(a + 1, b) + Res
         /\ Away(a, b + 1) <= Away(a, b) + Res /\ Away(a, b) <= Away(a, b + 1) + Res
<1>0. Res \in Nat /\ Diag \in Nat /\ Res <= Diag /\ Diag <= 2 * Res
  BY GridNumbers
<1>1. CASE a < b
  <2>1. /\ Away(a, b) = Diag * a + Res * b - Res * a
        /\ Away(a + 1, b) = Diag * a + Diag + Res * b - Res * a - Res
        /\ Away(a, b + 1) = Diag * a + Res * b + Res - Res * a
    BY <1>0, <1>1 DEF Away
  <2>2. QED
    BY <1>0, <2>1
<1>2. CASE a = b
  <2>1. /\ Away(a, b) = Diag * a 
        /\ Away(a + 1, b) = Diag * a + Res 
        /\ Away(a, b + 1) = Diag * a + Res
    BY <1>0, <1>2 DEF Away
  <2>2. QED
    BY <1>0, <2>1
<1>3. CASE b < a
  <2>1. /\ Away(a, b) = Diag * b + Res * a - Res * b
        /\ Away(a, b + 1) = Diag * b + Diag + Res * a - Res * b - Res
        /\ Away(a + 1, b) = Diag * b + Res * a + Res - Res * b
    BY <1>0, <1>3 DEF Away
  <2>2. QED
    BY <1>0, <2>1
<1>4. QED
  BY <1>1, <1>2, <1>3

\* A step across.
LEMMA AwayAcross ==
  ASSUME NEW a \in Nat, NEW b \in Nat
  PROVE  /\ Away(a + 1, b + 1) = Away(a, b) + Diag
         /\ Away(a + 1, b) <= Away(a, b + 1) + Diag
         /\ Away(a, b + 1) <= Away(a + 1, b) + Diag
<1>0. Res \in Nat /\ Diag \in Nat /\ Res <= Diag /\ Diag <= 2 * Res
  BY GridNumbers
<1>1. CASE a < b
  <2>1. /\ Away(a, b) = Diag * a + Res * b - Res * a
        /\ Away(a + 1, b + 1) = Diag * a + Diag + Res * b - Res * a
        /\ Away(a + 1, b) = Diag * a + Diag + Res * b - Res * a - Res
        /\ Away(a, b + 1) = Diag * a + Res * b + Res - Res * a
    BY <1>0, <1>1 DEF Away
  <2>2. QED
    BY <1>0, <2>1
<1>2. CASE a = b
  <2>1. /\ Away(a, b) = Diag * a 
        /\ Away(a + 1, b + 1) = Diag * a + Diag
        /\ Away(a + 1, b) = Diag * a + Res 
        /\ Away(a, b + 1) = Diag * a + Res
    BY <1>0, <1>2 DEF Away
  <2>2. QED
    BY <1>0, <2>1
<1>3. CASE b < a
  <2>1. /\ Away(a, b) = Diag * b + Res * a - Res * b
        /\ Away(a + 1, b + 1) = Diag * b + Diag + Res * a - Res * b
        /\ Away(a, b + 1) = Diag * b + Diag + Res * a - Res * b - Res
        /\ Away(a + 1, b) = Diag * b + Res * a + Res - Res * b
    BY <1>0, <1>3 DEF Away
  <2>2. QED
    BY <1>0, <2>1
<1>4. QED
  BY <1>1, <1>2, <1>3

\* A step to a neighbour changes the octile distance by at most its cost.
LEMMA OctileStep ==
  ASSUME NEW c \in Cells, NEW n \in Neighbours(c), NEW o \in Cells
  PROVE  /\ Octile(c, o) \in Nat /\ Octile(n, o) \in Nat
         /\ Octile(c, o) <= Octile(n, o) + Hop(c, n)
<1> DEFINE a == Apart(c[1], o[1])
           b == Apart(c[2], o[2])
           x == Apart(n[1], o[1])
           y == Apart(n[2], o[2])
<1>1. /\ n \in Cells /\ n # c
      /\ Apart(n[1], c[1]) <= 1 /\ Apart(n[2], c[2]) <= 1
      /\ c[1] \in Int /\ c[2] \in Int /\ n[1] \in Int /\ n[2] \in Int /\ o[1] \in Int /\ o[2] \in Int
  BY GridNumbers DEF Neighbours, Cells
<1>2. /\ a \in Nat /\ b \in Nat /\ x \in Nat /\ y \in Nat
      /\ a = x \/ a = x + 1 \/ x = a + 1
      /\ b = y \/ b = y + 1 \/ y = b + 1
  BY <1>1 DEF Apart
<1>3. Octile(c, o) = Away(a, b) /\ Octile(n, o) = Away(x, y)
  BY DEF Octile, Away
<1>4. Hop(c, n) = Diag \/ (Hop(c, n) = Res /\ (a = x \/ b = y))
  BY DEF Hop
<1>5. Res \in Nat /\ Diag \in Nat /\ Res <= Diag
  BY GridNumbers
<1>6. Away(a, b) \in Nat /\ Away(x, y) \in Nat
  BY <1>2, AwayTyping
<1> HIDE DEF a, b, x, y
<1>7. CASE a = x
  <2>1. Away(a, b) <= Away(x, y) + Res
    <3>1. CASE b = y
      BY <1>5, <1>6, <1>7, <3>1
    <3>2. CASE b = y + 1
      BY <1>2, <1>7, <3>2, AwaySide
    <3>3. CASE y = b + 1
      BY <1>2, <1>7, <3>3, AwaySide
    <3>4. QED
      BY <1>2, <3>1, <3>2, <3>3
  <2>2. QED
    BY <1>3, <1>4, <1>5, <1>6, <2>1
<1>8. CASE b = y
  <2>1. Away(a, b) <= Away(x, y) + Res
    <3>1. CASE a = x
      BY <1>5, <1>6, <1>8, <3>1
    <3>2. CASE a = x + 1
      BY <1>2, <1>8, <3>2, AwaySide
    <3>3. CASE x = a + 1
      BY <1>2, <1>8, <3>3, AwaySide
    <3>4. QED
      BY <1>2, <3>1, <3>2, <3>3
  <2>2. QED
    BY <1>3, <1>4, <1>5, <1>6, <2>1
<1>9. CASE a # x /\ b # y
  <2>1. Away(a, b) <= Away(x, y) + Diag
    <3>1. CASE a = x + 1 /\ b = y + 1
      BY <1>2, <1>5, <1>6, <3>1, AwayAcross
    <3>2. CASE a = x + 1 /\ y = b + 1
      BY <1>2, <3>2, AwayAcross
    <3>3. CASE x = a + 1 /\ y = b + 1
      <4>1. Away(x, y) = Away(a, b) + Diag
        BY <1>2, <3>3, AwayAcross
      <4>2. QED
        BY <4>1, <1>5, <1>6
    <3>4. CASE x = a + 1 /\ b = y + 1
      BY <1>2, <3>4, AwayAcross
    <3>5. QED
      BY <1>2, <1>9, <3>1, <3>2, <3>3, <3>4
  <2>2. QED
    BY <1>3, <1>4, <1>5, <1>6, <1>9, <2>1
<1>10. QED
  BY <1>3, <1>6, <1>7, <1>8, <1>9

\* The octile distance to the nearest obstacle.
Nearest(occ) == [c \in Cells |-> Min({Big} \cup {Octile(c, o) : o \in occ})]

\* The octile distance of two cells is a natural number.
LEMMA OctileTyping == \A c, o \in Cells : Octile(c, o) \in Nat
<1>1. SUFFICES ASSUME NEW c \in Cells, NEW o \in Cells PROVE Octile(c, o) \in Nat
  OBVIOUS
<1>2. Apart(c[1], o[1]) \in Nat /\ Apart(c[2], o[2]) \in Nat
  BY GridNumbers DEF Cells, Apart
<1>3. QED
  BY <1>2, AwayTyping DEF Octile, Away

\* What the distance to the nearest obstacle is: the least of them, and at most Big.
LEMMA NearestIs ==
  ASSUME NEW occ \in SUBSET Cells, NEW c \in Cells
  PROVE  /\ Nearest(occ)[c] \in Nat /\ Nearest(occ)[c] <= Big
         /\ \A o \in occ : Nearest(occ)[c] <= Octile(c, o)
         /\ \A b \in Nat : b <= Big /\ (\A o \in occ : b <= Octile(c, o)) => b <= Nearest(occ)[c]
<1> DEFINE T == {Big} \cup {Octile(c, o) : o \in occ}
<1>1. T \subseteq Nat /\ T # {}
  BY OctileTyping, GridNumbers
<1>2. Min(T) \in T /\ \A y \in T : Min(T) <= y
  BY <1>1, MinOf
<1>3. Nearest(occ)[c] = Min(T)
  BY DEF Nearest
<1>4. QED
  BY <1>1, <1>2, <1>3

\* It is settled, whichever neighbours a pass looks at.
LEMMA NearestSettled ==
  ASSUME NEW occ \in SUBSET Cells
  PROVE  \A c \in Cells : \A n \in Neighbours(c) : Nearest(occ)[c] <= Nearest(occ)[n] + Hop(c, n)
<1>1. SUFFICES ASSUME NEW c \in Cells, NEW n \in Neighbours(c)
               PROVE  Nearest(occ)[c] <= Nearest(occ)[n] + Hop(c, n)
  OBVIOUS
<1>2. n \in Cells
  BY DEF Neighbours
<1> DEFINE h == Hop(c, n)
           v == Nearest(occ)[c]
           w == Nearest(occ)[n]
<1>3. h \in Nat /\ v \in Nat /\ w \in Nat /\ v <= Big /\ Big \in Nat
  BY <1>2, HopTyping, NearestIs, GridNumbers
<1>4. CASE v <= h
  BY <1>3, <1>4
<1>5. CASE ~ (v <= h)
  <2>1. v - h \in Nat /\ v - h <= Big
    BY <1>3, <1>5
  <2>2. \A o \in occ : v - h <= Octile(n, o)
    <3>1. SUFFICES ASSUME NEW o \in occ PROVE v - h <= Octile(n, o)
      OBVIOUS
    <3>2. Octile(c, o) \in Nat /\ Octile(n, o) \in Nat /\ Octile(c, o) <= Octile(n, o) + h
      BY OctileStep
    <3>3. v <= Octile(c, o)
      BY NearestIs
    <3>4. QED
      BY <1>3, <3>2, <3>3
  <2>3. v - h <= w
    BY <1>2, <2>1, <2>2, NearestIs
  <2>4. QED
    BY <1>3, <2>3
<1>6. QED
  BY <1>4, <1>5

\* The eight directions; those that lead from a cell to one that comes later in the
\* first pass; and what a step costs.
Units == {-1, 0, 1}
Ahead(ux, uy) == uy = 1 \/ (uy = 0 /\ ux = 1)
Going(ux, uy) == IF ux = 0 \/ uy = 0 THEN Res ELSE Diag

\* The next cell in a direction has this one among the neighbours that its pass looks at.
LEMMA OneOn ==
  ASSUME NEW ux \in Units, NEW uy \in Units, ux # 0 \/ uy # 0, NEW n \in Cells, NEW c \in Cells,
         c[1] = n[1] + ux, c[2] = n[2] + uy
  PROVE  /\ Ahead(ux, uy) => n \in EarlierOf[c]
         /\ ~Ahead(ux, uy) => n \in LaterOf[c]
         /\ Hop(c, n) = Going(ux, uy)
<1>1. c[1] \in Int /\ c[2] \in Int /\ n[1] \in Int /\ n[2] \in Int
  BY GridNumbers DEF Cells
<1>2. n \in Neighbours(c)
  <2>1. n # c
    BY <1>1 DEF Units
  <2>2. Apart(n[1], c[1]) <= 1 /\ Apart(n[2], c[2]) <= 1
    BY <1>1 DEF Apart, Units
  <2>3. QED
    BY <2>1, <2>2 DEF Neighbours
<1>3. Before(c, n) <=> Ahead(ux, uy)
  BY <1>1 DEF Before, Ahead, Units
<1>4. Hop(c, n) = Going(ux, uy)
  BY <1>1 DEF Hop, Going, Units
<1>5. EarlierOf[c] = {e \in Neighbours(c) : Before(c, e)} /\ LaterOf[c] = Neighbours(c) \ EarlierOf[c]
  BY DEF EarlierOf, LaterOf, Earlier, Later
<1>6. QED
  BY <1>2, <1>3, <1>4, <1>5

\* The cell m steps away in a direction.
Line(a, ux, uy, m) == <<a[1] + m * ux, a[2] + m * uy>>

\* The cells in between are on the map, too.
LEMMA LineInside ==
  ASSUME NEW ux \in Units, NEW uy \in Units, NEW a \in Cells, NEW m \in Nat, Line(a, ux, uy, m) \in Cells,
         NEW k \in 0..m
  PROVE  Line(a, ux, uy, k) \in Cells
<1>1. /\ a[1] \in 0..(Width - 1) /\ a[2] \in 0..(Height - 1)
      /\ a[1] + m * ux \in 0..(Width - 1) /\ a[2] + m * uy \in 0..(Height - 1)
  BY DEF Cells, Line
<1>2. a[1] + k * ux \in 0..(Width - 1)
  BY <1>1, GridNumbers DEF Units
<1>3. a[2] + k * uy \in 0..(Height - 1)
  BY <1>1, GridNumbers DEF Units
<1>4. QED
  BY <1>2, <1>3 DEF Cells, Line

\* A pass carries distances along all straight lines of its directions.
LEMMA StraightRay ==
  ASSUME NEW near, NEW r \in Fields, Settled(r, near),
         NEW ux \in Units, NEW uy \in Units, ux # 0 \/ uy # 0,
         near = IF Ahead(ux, uy) THEN EarlierOf ELSE LaterOf,
         NEW a \in Cells, NEW m \in Nat, Line(a, ux, uy, m) \in Cells
  PROVE  r[Line(a, ux, uy, m)] <= r[a] + m * Going(ux, uy)
<1> DEFINE path == [k \in 0..m |-> Line(a, ux, uy, k)]
<1>1. path \in [0..m -> Cells]
  BY LineInside
<1>2. path[0] = a /\ path[m] = Line(a, ux, uy, m)
  BY GridNumbers DEF Line, Cells, Units
<1>3. ASSUME NEW k \in 1..m
      PROVE  path[k - 1] \in near[path[k]] /\ Hop(path[k], path[k - 1]) = Going(ux, uy)
  <2> DEFINE c == path[k]
             n == path[k - 1]
  <2>1. k - 1 \in 0..m /\ k \in 0..m
    OBVIOUS
  <2>2. c \in Cells /\ n \in Cells
    BY <1>1, <2>1
  <2>3. c[1] = n[1] + ux /\ c[2] = n[2] + uy
    <3>1. a[1] \in Int /\ a[2] \in Int
      BY GridNumbers DEF Cells
    <3>2. c = <<a[1] + k * ux, a[2] + k * uy>> /\ n = <<a[1] + (k - 1) * ux, a[2] + (k - 1) * uy>>
      BY <2>1 DEF Line
    <3>3. \A w \in Units : (k - 1) * w \in Int /\ k * w = (k - 1) * w + w /\ w \in Int
      BY DEF Units
    <3>4. \A s, t, x, w \in Int : t = s + w => x + t = (x + s) + w
      OBVIOUS
    <3>5. a[1] + k * ux = (a[1] + (k - 1) * ux) + ux /\ a[2] + k * uy = (a[2] + (k - 1) * uy) + uy
      BY <3>1, <3>3
    <3> HIDE DEF c, n
    <3>6. /\ c[1] = a[1] + k * ux /\ c[2] = a[2] + k * uy
          /\ n[1] = a[1] + (k - 1) * ux /\ n[2] = a[2] + (k - 1) * uy
      BY <3>2
    <3>7. QED
      BY <3>5, <3>6
  <2> HIDE DEF c, n
  <2>4. /\ Ahead(ux, uy) => n \in EarlierOf[c]
        /\ ~Ahead(ux, uy) => n \in LaterOf[c]
        /\ Hop(c, n) = Going(ux, uy)
    BY <2>2, <2>3, OneOn
  <2>5. n \in near[c]
    BY <2>4
  <2>6. QED
    BY <2>4, <2>5 DEF c, n
<1>4. Going(ux, uy) \in Nat
  BY GridNumbers DEF Going
<1>5. near \in [Cells -> SUBSET Cells]
  BY Sweeps1, Sweeps2 DEF Sweeping
<1> HIDE DEF path
<1>6. r[path[m]] <= r[path[0]] + m * Going(ux, uy)
  BY <1>1, <1>3, <1>4, <1>5, Ray
<1>7. QED
  BY <1>2, <1>6

\* Every obstacle is reached: by two rays, none of the first pass after one of the second.
LEMMA Reaching ==
  ASSUME NEW f \in Fields, Settled(f, EarlierOf), NEW r \in Fields, Settled(r, LaterOf),
         \A e \in Cells : r[e] <= f[e], NEW o \in Cells, f[o] = 0, NEW c \in Cells
  PROVE  r[c] <= Octile(c, o)
<1> DEFINE dx == c[1] - o[1]
           dy == c[2] - o[2]
<1>1. /\ c[1] \in 0..(Width - 1) /\ c[2] \in 0..(Height - 1) /\ c = <<c[1], c[2]>>
      /\ o[1] \in 0..(Width - 1) /\ o[2] \in 0..(Height - 1) /\ o = <<o[1], o[2]>>
      /\ Width \in Nat /\ Height \in Nat /\ Res \in Nat /\ Diag \in Nat
  BY GridNumbers DEF Cells
<1>2. \A e \in Cells : f[e] \in Nat /\ r[e] \in Nat
  BY DEF Fields
\* two rays one after the other, both of the first pass, both of the second, or mixed
<1>3. ASSUME NEW ux \in Units, NEW uy \in Units, ux # 0 \/ uy # 0,
             NEW vx \in Units, NEW vy \in Units, vx # 0 \/ vy # 0,
             ~Ahead(ux, uy) => ~Ahead(vx, vy),
             NEW k \in Nat, NEW m \in Nat, Line(o, ux, uy, k) \in Cells,
             c[1] = o[1] + k * ux + m * vx, c[2] = o[2] + k * uy + m * vy
      PROVE  r[c] <= k * Going(ux, uy) + m * Going(vx, vy)
  <2> DEFINE b == Line(o, ux, uy, k)
             p == k * Going(ux, uy)
             q == m * Going(vx, vy)
  <2>1. Line(b, vx, vy, m) = c
    BY <1>1, <1>3 DEF Line
  <2>2. p \in Nat /\ q \in Nat
    BY <1>1 DEF Going
  <2>3. b \in Cells
    BY <1>3
  <2> HIDE DEF b, p, q
  <2>4. CASE Ahead(ux, uy)
    <3>1. f[b] <= f[o] + p
      BY <1>3, <2>4, StraightRay DEF b, p
    <3>2. CASE Ahead(vx, vy)
      <4>1. f[c] <= f[b] + q
        BY <1>3, <2>1, <2>3, <3>2, StraightRay DEF q
      <4>2. QED
        BY <1>2, <2>2, <2>3, <3>1, <4>1 DEF p, q
    <3>3. CASE ~Ahead(vx, vy)
      <4>2. r[c] <= r[b] + q
        BY <1>3, <2>1, <2>3, <3>3, StraightRay DEF q
      <4>3. QED
        BY <1>2, <2>2, <2>3, <3>1, <4>2 DEF p, q
    <3>4. QED
      BY <3>2, <3>3
  <2>5. CASE ~Ahead(ux, uy)
    <3>1. r[b] <= r[o] + p /\ r[c] <= r[b] + q
      BY <1>3, <2>1, <2>3, <2>5, StraightRay DEF b, p, q
    <3>2. QED
      BY <1>2, <2>2, <2>3, <3>1 DEF p, q
  <2>6. QED
    BY <2>4, <2>5
<1>4. \A i \in Nat : i * Going(0, 1) = Res * i /\ i * Going(0, -1) = Res * i
                   /\ i * Going(1, 0) = Res * i /\ i * Going(-1, 0) = Res * i
                   /\ i * Going(1, 1) = Diag * i /\ i * Going(-1, 1) = Diag * i
                   /\ i * Going(1, -1) = Diag * i /\ i * Going(-1, -1) = Diag * i
  BY <1>1 DEF Going
<1>5. CASE dy >= 0 /\ dx >= 0 /\ dx <= dy
  <2>1. Octile(c, o) = Diag * dx + Res * (dy - dx)
    BY <1>1, <1>5 DEF Octile, Apart
  <2>2. Line(o, 1, 1, dx) \in Cells
    BY <1>1, <1>5 DEF Line, Cells
  <2>3. dx \in Nat /\ dy - dx \in Nat /\ c[1] = o[1] + dx * 1 + (dy - dx) * 0
        /\ c[2] = o[2] + dx * 1 + (dy - dx) * 1
    BY <1>1, <1>5
  <2> HIDE DEF dx, dy
  <2>4. r[c] <= dx * Going(1, 1) + (dy - dx) * Going(0, 1)
    BY <1>3, <2>2, <2>3 DEF Units, Ahead
  <2>5. QED
    BY <1>4, <2>1, <2>3, <2>4
<1>6. CASE dy >= 0 /\ dx < 0 /\ -dx <= dy
  <2> DEFINE k == -dx
             m == dy + dx
  <2>0. Apart(c[1], o[1]) = k /\ Apart(c[2], o[2]) = k + m /\ k \in Nat /\ m \in Nat
    BY <1>1, <1>6 DEF Apart
  <2>1. Octile(c, o) = Diag * k + Res * m
    <3> HIDE DEF k, m
    <3>1. k <= k + m /\ (k + m) - k = m
      BY <2>0
    <3>2. QED
      BY <2>0, <3>1 DEF Octile
  <2>2. Line(o, -1, 1, k) \in Cells
    BY <1>1, <1>6 DEF Line, Cells
  <2>3. k \in Nat /\ m \in Nat /\ c[1] = o[1] + k * (-1) + m * 0 /\ c[2] = o[2] + k * 1 + m * 1
    BY <1>1, <1>6
  <2> HIDE DEF k, m
  <2>4. r[c] <= k * Going(-1, 1) + m * Going(0, 1)
    BY <1>3, <2>2, <2>3 DEF Units, Ahead
  <2>5. QED
    BY <1>4, <2>1, <2>3, <2>4
<1>7. CASE dy >= 0 /\ dx > dy
  <2> DEFINE k == dy
             m == dx - dy
  <2>1. Octile(c, o) = Diag * k + Res * m
    BY <1>1, <1>7 DEF Octile, Apart
  <2>2. Line(o, 1, 1, k) \in Cells
    BY <1>1, <1>7 DEF Line, Cells
  <2>3. k \in Nat /\ m \in Nat /\ c[1] = o[1] + k * 1 + m * 1 /\ c[2] = o[2] + k * 1 + m * 0
    BY <1>1, <1>7
  <2> HIDE DEF k, m
  <2>4. r[c] <= k * Going(1, 1) + m * Going(1, 0)
    BY <1>3, <2>2, <2>3 DEF Units, Ahead
  <2>5. QED
    BY <1>4, <2>1, <2>3, <2>4
<1>8. CASE dy >= 0 /\ -dx > dy
  <2> DEFINE k == dy
             m == -dx - dy
  <2>1. Octile(c, o) = Diag * k + Res * m
    BY <1>1, <1>8 DEF Octile, Apart
  <2>2. Line(o, -1, 1, k) \in Cells
    BY <1>1, <1>8 DEF Line, Cells
  <2>3. k \in Nat /\ m \in Nat /\ c[1] = o[1] + k * (-1) + m * (-1) /\ c[2] = o[2] + k * 1 + m * 0
    BY <1>1, <1>8
  <2> HIDE DEF k, m
  <2>4. r[c] <= k * Going(-1, 1) + m * Going(-1, 0)
    BY <1>3, <2>2, <2>3 DEF Units, Ahead
  <2>5. QED
    BY <1>4, <2>1, <2>3, <2>4
<1>9. CASE dy < 0 /\ dx >= 0 /\ dx <= -dy
  <2> DEFINE k == dx
             m == -dy - dx
  <2>1. Octile(c, o) = Diag * k + Res * m
    BY <1>1, <1>9 DEF Octile, Apart
  <2>2. Line(o, 1, -1, k) \in Cells
    BY <1>1, <1>9 DEF Line, Cells
  <2>3. k \in Nat /\ m \in Nat /\ c[1] = o[1] + k * 1 + m * 0 /\ c[2] = o[2] + k * (-1) + m * (-1)
    BY <1>1, <1>9
  <2> HIDE DEF k, m
  <2>4. r[c] <= k * Going(1, -1) + m * Going(0, -1)
    BY <1>3, <2>2, <2>3 DEF Units, Ahead
  <2>5. QED
    BY <1>4, <2>1, <2>3, <2>4
<1>10. CASE dy < 0 /\ dx < 0 /\ -dx <= -dy
  <2> DEFINE k == -dx
             m == dx - dy
  <2>0. Apart(c[1], o[1]) = k /\ Apart(c[2], o[2]) = k + m /\ k \in Nat /\ m \in Nat
    BY <1>1, <1>10 DEF Apart
  <2>1. Octile(c, o) = Diag * k + Res * m
    <3> HIDE DEF k, m
    <3>1. k <= k + m /\ (k + m) - k = m
      BY <2>0
    <3>2. QED
      BY <2>0, <3>1 DEF Octile
  <2>2. Line(o, -1, -1, k) \in Cells
    BY <1>1, <1>10 DEF Line, Cells
  <2>3. k \in Nat /\ m \in Nat /\ c[1] = o[1] + k * (-1) + m * 0 /\ c[2] = o[2] + k * (-1) + m * (-1)
    BY <1>1, <1>10
  <2> HIDE DEF k, m
  <2>4. r[c] <= k * Going(-1, -1) + m * Going(0, -1)
    BY <1>3, <2>2, <2>3 DEF Units, Ahead
  <2>5. QED
    BY <1>4, <2>1, <2>3, <2>4
<1>11. CASE dy < 0 /\ -dx > -dy
  <2> DEFINE k == -dy
             m == dy - dx
  <2>1. Octile(c, o) = Diag * k + Res * m
    BY <1>1, <1>11 DEF Octile, Apart
  <2>2. Line(o, -1, -1, k) \in Cells
    BY <1>1, <1>11 DEF Line, Cells
  <2>3. k \in Nat /\ m \in Nat /\ c[1] = o[1] + k * (-1) + m * (-1) /\ c[2] = o[2] + k * (-1) + m * 0
    BY <1>1, <1>11
  <2> HIDE DEF k, m
  <2>4. r[c] <= k * Going(-1, -1) + m * Going(-1, 0)
    BY <1>3, <2>2, <2>3 DEF Units, Ahead
  <2>5. QED
    BY <1>4, <2>1, <2>3, <2>4
<1>12. CASE dy < 0 /\ dx > -dy
  <2> DEFINE k == dx + dy
             m == -dy
  <2>1. Octile(c, o) = Diag * m + Res * k
    BY <1>1, <1>12 DEF Octile, Apart
  <2>2. Line(o, 1, 0, k) \in Cells
    BY <1>1, <1>12 DEF Line, Cells
  <2>3. k \in Nat /\ m \in Nat /\ c[1] = o[1] + k * 1 + m * 1 /\ c[2] = o[2] + k * 0 + m * (-1)
    BY <1>1, <1>12
  <2> HIDE DEF k, m
  <2>4. r[c] <= k * Going(1, 0) + m * Going(1, -1)
    BY <1>3, <2>2, <2>3 DEF Units, Ahead
  <2>5. QED
    BY <1>1, <1>4, <2>1, <2>3, <2>4
<1>13. QED
  BY <1>1, <1>5, <1>6, <1>7, <1>8, <1>9, <1>10, <1>11, <1>12

\* The distances before the first pass.
Seed(occ) == [c \in Cells |-> IF c \in occ THEN 0 ELSE Big]

\* The two passes compute every cell's octile distance to the nearest obstacle: for
\* every map, of any size and with any obstacles (clearance_grid()).
THEOREM TwoPasses ==
  ASSUME NEW occ \in SUBSET Cells
  PROVE  Chamfer(occ) = Nearest(occ)
<1> DEFINE d == Seed(occ)
           f == Pass(d, Raster, EarlierOf)
           r == Pass(f, Reverse(Raster), LaterOf)
           near == Nearest(occ)
<1>1. Chamfer(occ) = r
  BY DEF Chamfer, Backward, Forward, Seed, EarlierOf, LaterOf
<1>2. d \in Fields /\ \A c \in Cells : d[c] = IF c \in occ THEN 0 ELSE Big
  BY GridNumbers DEF Seed, Fields
<1>3. near \in Fields
  <2>1. \A c \in Cells : near[c] \in Nat
    BY NearestIs
  <2>2. near = [c \in Cells |-> near[c]]
    BY DEF Nearest
  <2>3. QED
    BY <2>1, <2>2 DEF Fields
<1>4. \A c \in Cells : near[c] <= d[c]
  <2>1. SUFFICES ASSUME NEW c \in Cells PROVE near[c] <= d[c]
    OBVIOUS
  <2>2. CASE c \in occ
    <3>1. Octile(c, c) = 0
      <4>1. c[1] \in Int /\ c[2] \in Int
        BY GridNumbers DEF Cells
      <4>2. Apart(c[1], c[1]) = 0 /\ Apart(c[2], c[2]) = 0
        BY <4>1 DEF Apart
      <4>3. QED
        BY <4>2, GridNumbers DEF Octile
    <3>2. QED
      BY <1>2, <2>2, <3>1, NearestIs
  <2>3. CASE c \notin occ
    BY <1>2, <2>3, NearestIs
  <2>4. QED
    BY <2>2, <2>3
<1>5. Settled(near, EarlierOf) /\ Settled(near, LaterOf)
  BY NearestSettled DEF Settled, EarlierOf, LaterOf, Earlier, Later
<1> HIDE DEF d, near
<1>6. /\ f \in Fields /\ Settled(f, EarlierOf)
      /\ \A c \in Cells : f[c] <= d[c] /\ near[c] <= f[c]
  BY <1>2, <1>3, <1>4, <1>5, Sweeps1, PassSettles
<1> HIDE DEF f
<1>7. /\ r \in Fields /\ Settled(r, LaterOf)
      /\ \A c \in Cells : r[c] <= f[c] /\ near[c] <= r[c]
  BY <1>3, <1>5, <1>6, Sweeps2, PassSettles
<1> HIDE DEF r
<1>8. ASSUME NEW c \in Cells PROVE r[c] = near[c]
  <2>1. r[c] \in Nat /\ near[c] \in Nat /\ f[c] \in Nat /\ d[c] \in Nat
    BY <1>2, <1>3, <1>6, <1>7 DEF Fields
  <2>2. r[c] <= Big
    <3>1. d[c] <= Big
      BY <1>2, GridNumbers
    <3>2. QED
      BY <1>6, <1>7, <2>1, <3>1, GridNumbers
  <2>3. ASSUME NEW o \in occ PROVE r[c] <= Octile(c, o)
    <3>1. o \in Cells
      OBVIOUS
    <3>2. f[o] = 0
      <4>1. f[o] \in Nat /\ f[o] <= d[o] /\ d[o] = 0
        BY <1>2, <1>6, <3>1 DEF Fields
      <4>2. QED
        BY <4>1
    <3>3. QED
      BY <1>6, <1>7, <3>1, <3>2, Reaching
  <2>4. r[c] <= near[c]
    BY <2>1, <2>2, <2>3, NearestIs DEF near
  <2>5. QED
    BY <1>7, <2>1, <2>4
<1>9. r = [c \in Cells |-> r[c]] /\ near = [c \in Cells |-> near[c]]
  BY <1>3, <1>7 DEF Fields
<1>10. r = near
  BY <1>8, <1>9
<1>11. QED
  BY <1>1, <1>10 DEF r, near

\* Distances are at most the largest.
LEMMA ChamferTyping ==
  ASSUME NEW occ \in SUBSET Cells
  PROVE  Chamfer(occ) \in [Cells -> 0..Big]
<1>1. \A c \in Cells : Nearest(occ)[c] \in 0..Big
  BY NearestIs, GridNumbers
<1>2. QED
  BY <1>1, TwoPasses DEF Nearest

\* The invariant of the grid: the distances that are kept are those of the obstacles
\* that are marked, or are dropped.
GridInv == /\ occupied \subseteq Cells
           /\ distance \in {None, Chamfer(occupied)}

\* It gives the grid's types.
LEMMA GridInvTyping == GridInv => GridTypeOK
BY ChamferTyping DEF GridInv, GridTypeOK

\* It gives what distances are read, and that these are current.
LEMMA GridInvCurrent == GridInv => Distances = Chamfer(occupied) /\ DistancesAreCurrent
<1>1. SUFFICES ASSUME GridInv PROVE Distances = Chamfer(occupied) /\ DistancesAreCurrent
  OBVIOUS
<1>2. Distances = Chamfer(occupied)
  BY <1>1 DEF GridInv, Distances
<1>3. occupied \in SUBSET Cells
  BY <1>1 DEF GridInv
<1>4. Distances = Nearest(occupied)
  BY <1>2, <1>3, TwoPasses
<1>5. QED
  BY <1>2, <1>4 DEF DistancesAreCurrent, TrueDistance, Nearest

-----------------------------------------------------------------------------
(* The candidates in their order *)

\* What the assumptions say of the constants.
LEMMA PlanNumbers ==
  /\ Hard \in Nat /\ Want \in Nat /\ 0 < Hard /\ Hard < Want
  /\ Radii \in Seq(Nat) /\ Len(Radii) \in Nat /\ DOMAIN Radii = 1..Len(Radii)
  /\ \A i \in DOMAIN Radii : Radii[i] \in Nat
  /\ \A s \in Slots : s.radius \in Nat /\ s.kind \in {"perpendicular", "straight_first", "parallel"}
  /\ Outline # {} /\ \A s \in Sweeps : Outline \subseteq s /\ s \subseteq Int \X Int
BY PlanAssumption

\* The radii are in a total order.
LEMMA CloserIsOrder ==
  ASSUME NEW s \in Slots
  PROVE  /\ \A i, j \in DOMAIN Radii : i # j => Closer(s, i, j) \/ Closer(s, j, i)
         /\ \A i, j, k \in DOMAIN Radii : Closer(s, i, j) /\ Closer(s, j, k) => Closer(s, i, k)
<1>1. \A i \in DOMAIN Radii : Apart(Radii[i], s.radius) \in Nat
  BY PlanNumbers DEF Apart
<1>2. DOMAIN Radii \subseteq Nat
  BY PlanNumbers
<1>3. QED
  BY <1>1, <1>2 DEF Closer

\* The first n radii, sorted.
Ordering(s, n, p) ==
  p \in [1..n -> 1..n] /\ \A i, j \in 1..n : i < j => Closer(s, p[i], p[j])

\* There is a sorted order of the radii, so that Ranked is one.
LEMMA RankedSorts ==
  ASSUME NEW s \in Slots
  PROVE  /\ Ranked(s) \in [DOMAIN Radii -> DOMAIN Radii]
         /\ \A i, j \in DOMAIN Radii : i < j => Closer(s, Ranked(s)[i], Ranked(s)[j])
<1> DEFINE L == Len(Radii)
           Good == {n \in Nat : n <= L => \E p \in [1..n -> 1..n] : Ordering(s, n, p)}
<1>1. 0 \in Good
  <2>1. [i \in 1..0 |-> i] \in [1..0 -> 1..0] /\ Ordering(s, 0, [i \in 1..0 |-> i])
    BY DEF Ordering
  <2>2. QED
    BY <2>1
<1>2. ASSUME NEW n \in Nat, n \in Good PROVE n + 1 \in Good
  <2>1. SUFFICES ASSUME n + 1 <= L PROVE \E p \in [1..(n + 1) -> 1..(n + 1)] : Ordering(s, n + 1, p)
    OBVIOUS
  <2>2. L \in Nat /\ DOMAIN Radii = 1..L
    BY PlanNumbers
  <2>3. PICK p \in [1..n -> 1..n] : Ordering(s, n, p)
    BY <1>2, <2>1, <2>2
  \* where the next one belongs
  <2> DEFINE T == {j \in 1..n : Closer(s, n + 1, p[j])} \cup {n + 1}
  <2>4. T \subseteq Nat /\ T # {}
    OBVIOUS
  <2>5. PICK k \in T : \A j \in T : k <= j
    BY <2>4, LeastNat
  <2>6. k \in 1..(n + 1) /\ k \in Nat
    BY <2>5
  <2>7. \A j \in 1..n : j < k => ~ Closer(s, n + 1, p[j])
    BY <2>5, <2>6
  <2>8. k <= n => Closer(s, n + 1, p[k])
    BY <2>5, <2>6
  <2> HIDE DEF T
  <2> DEFINE q == [i \in 1..(n + 1) |-> IF i < k THEN p[i] ELSE IF i = k THEN n + 1 ELSE p[i - 1]]
  <2>9. q \in [1..(n + 1) -> 1..(n + 1)]
    <3>1. ASSUME NEW i \in 1..(n + 1)
          PROVE (IF i < k THEN p[i] ELSE IF i = k THEN n + 1 ELSE p[i - 1]) \in 1..(n + 1)
      <4>1. CASE i < k
        <5>1. i \in 1..n
          BY <2>6, <4>1
        <5>2. QED
          BY <4>1, <5>1
      <4>2. CASE i = k
        BY <4>2
      <4>3. CASE k < i
        <5>1. i - 1 \in 1..n
          BY <2>6, <4>3
        <5>2. QED
          BY <2>6, <4>3, <5>1
      <4>4. QED
        BY <2>6, <4>1, <4>2, <4>3
    <3>2. QED
      BY <3>1
  <2>10. ASSUME NEW i \in 1..(n + 1), NEW j \in 1..(n + 1), i < j PROVE Closer(s, q[i], q[j])
    <3>0. /\ \A a, b \in 1..L : a # b => Closer(s, a, b) \/ Closer(s, b, a)
          /\ \A a, b, c \in 1..L : Closer(s, a, b) /\ Closer(s, b, c) => Closer(s, a, c)
          /\ \A a \in 1..n : p[a] \in 1..n /\ p[a] \in 1..L /\ p[a] # n + 1
          /\ n + 1 \in 1..L
          /\ \A a, b \in 1..n : a < b => Closer(s, p[a], p[b])
      <4>1. /\ \A a, b \in 1..L : a # b => Closer(s, a, b) \/ Closer(s, b, a)
            /\ \A a, b, c \in 1..L : Closer(s, a, b) /\ Closer(s, b, c) => Closer(s, a, c)
        BY <2>2, CloserIsOrder
      <4>2. \A a \in 1..n : p[a] \in 1..n /\ p[a] \in 1..L /\ p[a] # n + 1
        BY <2>1, <2>2, <2>3
      <4>3. n + 1 \in 1..L
        BY <2>1, <2>2
      <4>4. \A a, b \in 1..n : a < b => Closer(s, p[a], p[b])
        BY <2>3 DEF Ordering
      <4>5. QED
        BY <4>1, <4>2, <4>3, <4>4
    <3>1. CASE j < k
      <4>1. i \in 1..n /\ j \in 1..n /\ i < k /\ q[i] = p[i] /\ q[j] = p[j]
        BY <2>6, <2>10, <3>1
      <4>2. QED
        BY <2>10, <3>0, <4>1
    <3>2. CASE j = k
      <4>1. i \in 1..n /\ i < k /\ q[i] = p[i] /\ q[j] = n + 1
        BY <2>6, <2>10, <3>2
      <4>2. QED
        BY <2>7, <3>0, <4>1
    <3>3. CASE k < j /\ i < k
      <4>1. i \in 1..n /\ j - 1 \in 1..n /\ i < j - 1 /\ q[i] = p[i] /\ q[j] = p[j - 1]
        BY <2>6, <2>10, <3>3
      <4>2. QED
        BY <3>0, <4>1
    <3>4. CASE k < j /\ i = k
      <4>1. k \in 1..n /\ j - 1 \in 1..n /\ k <= j - 1 /\ q[i] = n + 1 /\ q[j] = p[j - 1]
        BY <2>6, <2>10, <3>4
      <4>2. CASE k = j - 1
        BY <2>8, <4>1, <4>2
      <4>3. CASE k < j - 1
        <5>1. Closer(s, n + 1, p[k]) /\ Closer(s, p[k], p[j - 1])
          BY <2>8, <3>0, <4>1, <4>3
        <5>2. QED
          BY <3>0, <4>1, <5>1
      <4>4. QED
        BY <4>1, <4>2, <4>3
    <3>5. CASE k < j /\ k < i
      <4>1. i - 1 \in 1..n /\ j - 1 \in 1..n /\ i - 1 < j - 1 /\ q[i] = p[i - 1] /\ q[j] = p[j - 1]
        BY <2>6, <2>10, <3>5
      <4>2. QED
        BY <3>0, <4>1
    <3>6. QED
      BY <2>6, <3>1, <3>2, <3>3, <3>4, <3>5
  <2> HIDE DEF q
  <2>11. Ordering(s, n + 1, q)
    BY <2>9, <2>10 DEF Ordering
  <2>12. QED
    BY <2>9, <2>11
<1>3. Nat \subseteq Good
  <2> HIDE DEF Good
  <2>1. QED
    BY <1>1, <1>2, SetInduction
<1>4. \E p \in [1..L -> 1..L] : Ordering(s, L, p)
  BY <1>3, PlanNumbers
<1>5. \E p \in [DOMAIN Radii -> DOMAIN Radii] :
        \A i, j \in DOMAIN Radii : i < j => Closer(s, p[i], p[j])
  BY <1>4, PlanNumbers DEF Ordering
<1>6. QED
  BY <1>5 DEF Ranked

\* Radii that are tried later are no closer to the slot's own.
LEMMA RankedCloser ==
  ASSUME NEW s \in Slots, NEW i \in DOMAIN Radii, NEW j \in DOMAIN Radii, i <= j
  PROVE  Apart(Radii[Ranked(s)[i]], s.radius) <= Apart(Radii[Ranked(s)[j]], s.radius)
<1>1. Ranked(s)[i] \in DOMAIN Radii /\ Ranked(s)[j] \in DOMAIN Radii
  BY RankedSorts
<1>2. Apart(Radii[Ranked(s)[i]], s.radius) \in Nat /\ Apart(Radii[Ranked(s)[j]], s.radius) \in Nat
  <2>1. \A k \in DOMAIN Radii : Apart(Radii[k], s.radius) \in Nat
    BY PlanNumbers, SMTT(20) DEF Apart
  <2>2. QED
    BY <1>1, <2>1
<1>3. CASE i = j
  BY <1>2, <1>3
<1>4. CASE i < j
  BY <1>2, <1>4, RankedSorts DEF Closer
<1>5. QED
  BY <1>3, <1>4, PlanNumbers

-----------------------------------------------------------------------------
(* Clearances *)

\* The least and the greatest of two.
LEMMA TwoLeast ==
  ASSUME NEW a \in Int, NEW b \in Int
  PROVE  /\ Min({a, b}) = IF a <= b THEN a ELSE b
         /\ Max({a, b}) = IF a <= b THEN b ELSE a
BY DEF Min, Max

\* need_at(): between the two limits, and how it follows from the clearance at the start.
LEMMA NeedIs ==
  ASSUME NEW c \in Nat, c = Clearance(Outline)
  PROVE  /\ NeedAt \in Hard..Want
         /\ NeedAt >= IF c <= Want THEN c - 1 ELSE Want
<1>1. Hard \in Nat /\ Want \in Nat /\ Hard < Want
  BY PlanNumbers
<1> DEFINE m == Min({Want, c - 1})
<1>2. m = IF Want <= c - 1 THEN Want ELSE c - 1
  BY <1>1, TwoLeast
<1>3. m \in Int /\ m <= Want /\ m >= IF c <= Want THEN c - 1 ELSE Want
  BY <1>1, <1>2
<1>4. NeedAt = Max({Hard, m})
  BY DEF NeedAt
<1> HIDE DEF m
<1>5. NeedAt = IF Hard <= m THEN m ELSE Hard
  BY <1>1, <1>3, <1>4, TwoLeast, SMTT(20)
<1>6. QED
  BY <1>1, <1>3, <1>5

\* Clearances, once the distances are those of the obstacles on the map.
LEMMA PointClearance ==
  ASSUME GridInv, NEW p
  PROVE  /\ ClearanceAt(p) \in Nat
         /\ ClearanceAt(p) = IF ToCell(p) \in Cells THEN TrueDistance(ToCell(p)) ELSE 0
<1>1. occupied \in SUBSET Cells
  BY DEF GridInv
<1>2. Distances = Nearest(occupied)
  BY <1>1, GridInvCurrent, TwoPasses
<1>3. \A c \in Cells : Distances[c] = TrueDistance(c) /\ Distances[c] \in Nat
  BY <1>1, <1>2, NearestIs DEF Nearest, TrueDistance
<1>4. QED
  BY <1>3 DEF ClearanceAt

\* The clearance of a set of points is the least of its points.
LEMMA SetClearance ==
  ASSUME GridInv, NEW points, points # {}
  PROVE  /\ Clearance(points) \in Nat
         /\ \A p \in points : Clearance(points) <= ClearanceAt(p)
         /\ \E p \in points : Clearance(points) = ClearanceAt(p)
<1> DEFINE T == {ClearanceAt(p) : p \in points}
<1>1. T \subseteq Nat /\ T # {}
  BY PointClearance
<1>2. Min(T) \in T /\ \A y \in T : Min(T) <= y
  BY <1>1, MinOf
<1>3. QED
  BY <1>1, <1>2 DEF Clearance

\* int() and the floor: a point counted onto the map is on it, or just off it.
LEMMA Division ==
  ASSUME NEW n \in Int, NEW k \in Nat \ {0}
  PROVE  /\ n \div k \in Int /\ n % k \in 0..(k - 1) /\ n = k * (n \div k) + (n % k)
         /\ n >= 0 <=> n \div k >= 0
<1>1. n \div k \in Int /\ n % k \in 0..(k - 1) /\ n = k * (n \div k) + (n % k)
  OBVIOUS
<1>2. \A q \in Int : q >= 0 => k * q >= 0
  OBVIOUS
<1>3. \A q \in Int : q < 0 => k * q <= -k
  OBVIOUS
<1>4. QED
  BY <1>1, <1>2, <1>3

\* A point that int() counts onto a cell is on that cell, or off the map by less than one.
LEMMA OffByLess ==
  ASSUME NEW p \in Int \X Int, ToCell(p) \in Cells
  PROVE  Floor(p) = ToCell(p) \/ JustOff(p)
<1>1. p[1] \in Int /\ p[2] \in Int /\ Res \in Nat \ {0} /\ Width \in Nat /\ Height \in Nat
  BY GridNumbers
<1>2. ToCell(p) = <<Trunc(p[1]), Trunc(p[2])>>
  BY DEF ToCell
<1>3. Trunc(p[1]) \in 0..(Width - 1) /\ Trunc(p[2]) \in 0..(Height - 1)
  BY <1>2 DEF Cells
<1>4. ASSUME NEW n \in Int, NEW w \in Nat, Trunc(n) \in 0..(w - 1)
      PROVE  /\ -Res < n /\ n < Res * w
             /\ n >= 0 => Trunc(n) = n \div Res
             /\ n < 0 => n \div Res < 0
  <2>1. CASE n >= 0
    <3>1. Trunc(n) = n \div Res
      BY <1>1, <2>1 DEF Trunc
    <3>2. \A q \in 0..(w - 1) : Res * q + Res <= Res * w
      <4>1. SUFFICES ASSUME NEW q \in 0..(w - 1) PROVE Res * q + Res <= Res * w
        OBVIOUS
      <4>2. (w - q) * Res >= Res
        BY <1>1, MulMono
      <4>3. QED
        BY <1>1, <4>2
    <3>3. n % Res \in 0..(Res - 1) /\ n = Res * (n \div Res) + (n % Res)
      BY <1>1, Division
    <3>4. Res * (n \div Res) + Res <= Res * w
      BY <1>4, <3>1, <3>2
    <3>5. QED
      BY <1>1, <2>1, <3>1, <3>3, <3>4
  <2>2. CASE n < 0
    <3>1. Trunc(n) = -((-n) \div Res) /\ -n \in Nat
      BY <1>1, <2>2 DEF Trunc
    <3>2. (-n) \div Res = 0
      <4>0. \A x \in Nat : x \div Res \in Int /\ x \div Res >= 0
        BY <1>1
      <4>1. (-n) \div Res \in Int /\ (-n) \div Res >= 0
        BY <3>1, <4>0
      <4>2. QED
        BY <1>4, <3>1, <4>1
    <3>3. (-n) % Res \in 0..(Res - 1) /\ -n = Res * ((-n) \div Res) + ((-n) % Res)
      BY <1>1, <3>1, Division
    <3>4. -n < Res
      BY <1>1, <3>2, <3>3
    <3>5. Res * w >= 0
      BY <1>1
    <3>6. n \div Res < 0
      <4>1. n \div Res \in Int /\ (n >= 0 <=> n \div Res >= 0)
        BY <1>1, Division
      <4>2. QED
        BY <2>2, <4>1
    <3>7. QED
      BY <1>1, <2>2, <3>4, <3>5, <3>6
  <2>3. QED
    BY <2>1, <2>2
<1>5. CASE p[1] >= 0 /\ p[2] >= 0
  BY <1>1, <1>2, <1>3, <1>4, <1>5 DEF Floor
<1>6. CASE ~ (p[1] >= 0 /\ p[2] >= 0)
  <2>1. Floor(p) \notin Cells
    BY <1>1, <1>3, <1>4, <1>6 DEF Floor, Cells
  <2>2. QED
    BY <1>1, <1>3, <1>4, <2>1 DEF JustOff
<1>7. QED
  BY <1>5, <1>6

\* A point that is on the map is counted to the cell it is on.
LEMMA OnMap ==
  ASSUME NEW p \in Int \X Int, Floor(p) \in Cells
  PROVE  ToCell(p) = Floor(p)
<1>1. p[1] \in Int /\ p[2] \in Int /\ Res \in Nat \ {0}
  BY GridNumbers
<1>2. p[1] \div Res >= 0 /\ p[2] \div Res >= 0
  BY GridNumbers DEF Floor, Cells
<1>3. ASSUME NEW n \in Int, n \div Res >= 0 PROVE n >= 0
  BY <1>1, <1>3, Division
<1>4. QED
  BY <1>1, <1>2, <1>3 DEF Floor, ToCell, Trunc

\* The distances below that of two cells.
Short == {0, Res, Diag}

\* There are no others.
LEMMA AwayValues ==
  ASSUME NEW a \in Nat, NEW b \in Nat
  PROVE  Away(a, b) \in Short \/ Away(a, b) >= 2 * Res
<1>0. Res \in Nat /\ Diag \in Nat /\ Res <= Diag /\ \A i \in Nat : Res * i \in Nat /\ Diag * i \in Nat
  BY GridNumbers
<1>1. \A i, j \in Nat : i + j >= 2 => Diag * i + Res * j >= 2 * Res
  <2>1. SUFFICES ASSUME NEW i \in Nat, NEW j \in Nat, i + j >= 2 PROVE Diag * i + Res * j >= 2 * Res
    OBVIOUS
  <2>2. Diag * i >= Res * i
    <3>1. (Diag - Res) * i >= 0
      BY <1>0
    <3>2. QED
      BY <1>0, <3>1
  <2>3. Res * i + Res * j >= 2 * Res
    <3>1. Res * (i + j - 2) >= 0
      BY <1>0, <2>1
    <3>2. QED
      BY <1>0, <3>1
  <2>4. QED
    BY <1>0, <2>2, <2>3
<1>2. \A i, j \in Nat : i + j < 2 => Diag * i + Res * j \in Short
  BY <1>0 DEF Short
<1>3. \A i, j \in Nat : Diag * i + Res * j \in Short \/ Diag * i + Res * j >= 2 * Res
  BY <1>1, <1>2
<1>4. CASE a <= b
  BY <1>3, <1>4 DEF Away
<1>5. CASE ~ (a <= b)
  BY <1>3, <1>5 DEF Away
<1>6. QED
  BY <1>4, <1>5

\* The distances up to WANT_CLEARANCE: nothing, one step of either kind, two cells.
LEMMA ClearanceValues ==
  ASSUME GridInv, NEW p, ClearanceAt(p) <= Want
  PROVE  ClearanceAt(p) \in Short \cup {2 * Res}
<1>0. Res \in Nat \ {0} /\ Diag \in Nat /\ Width \in Nat \ {0} /\ Height \in Nat \ {0} /\ Want \in Nat /\ Want <= 2 * Res
  BY GridNumbers, PlanNumbers, MarginAssumption
<1>1. ClearanceAt(p) = IF ToCell(p) \in Cells THEN TrueDistance(ToCell(p)) ELSE 0
  BY PointClearance
<1>2. CASE ToCell(p) \notin Cells
  BY <1>1, <1>2 DEF Short
<1>3. CASE ToCell(p) \in Cells
  <2> DEFINE c == ToCell(p)
             T == {Big} \cup {Octile(c, o) : o \in occupied}
  <2>1. occupied \subseteq Cells
    BY DEF GridInv
  <2>2. T \subseteq Nat /\ T # {}
    BY <1>3, <2>1, OctileTyping, GridNumbers
  <2>3. ClearanceAt(p) = Min(T) /\ Min(T) \in T
    BY <1>1, <1>3, <2>2, MinOf DEF TrueDistance
  <2>4. Big > Want
    <3>1. (Width + Height) * (2 * Res) >= 2 * (2 * Res)
      <4>1. (Width + Height - 2) * (2 * Res) >= 0
        BY <1>0
      <4>2. QED
        BY <1>0, <4>1
    <3>2. Big = (Width + Height) * (2 * Res)
      BY <1>0 DEF Big
    <3>3. QED
      BY <1>0, <3>1, <3>2
  <2>5. PICK o \in occupied : ClearanceAt(p) = Octile(c, o)
    <3>1. ClearanceAt(p) # Big
      BY <1>0, <2>4, PointClearance, GridNumbers
    <3>2. QED
      BY <2>3, <3>1
  <2>6. Apart(c[1], o[1]) \in Nat /\ Apart(c[2], o[2]) \in Nat
    BY <1>3, <2>1, GridNumbers DEF Cells, Apart
  <2>7. Octile(c, o) \in Short \/ Octile(c, o) >= 2 * Res
    BY <2>6, AwayValues DEF Octile, Away
  <2>8. Octile(c, o) \in Nat
    BY <1>3, <2>1, OctileTyping
  <2>9. QED
    BY <1>0, <2>5, <2>7, <2>8
<1>4. QED
  BY <1>2, <1>3

\* So that two of them do not differ by one.
LEMMA NotByOne ==
  ASSUME GridInv, NEW p, NEW q, ClearanceAt(p) <= ClearanceAt(q), ClearanceAt(q) <= Want,
         ClearanceAt(p) >= ClearanceAt(q) - 1
  PROVE  ClearanceAt(p) = ClearanceAt(q)
<1>1. Res \in Nat /\ Diag \in Nat /\ Want \in Nat
      /\ 1 < Res /\ Res + 1 < Diag /\ Diag + 1 < 2 * Res
  BY GridNumbers, PlanNumbers, MarginAssumption
<1>2. ClearanceAt(p) \in Nat /\ ClearanceAt(q) \in Nat
  BY PointClearance
<1>3. ClearanceAt(p) \in Short \cup {2 * Res} /\ ClearanceAt(q) \in Short \cup {2 * Res}
  BY <1>1, <1>2, ClearanceValues
<1>4. QED
  BY <1>1, <1>2, <1>3 DEF Short

\* The plans that the loops build.
Plans == [key : Seq(Int), radius : Nat, solver : Solvers, end : Ends, swept : Sweeps]

\* None of them is the absence of one.
LEMMA NoPlanIsNone == NoPlan \notin Plans
BY DEF NoPlan, Plans

\* There are one or two solvers to try.
LEMMA OrderIs ==
  ASSUME NEW s \in Slots
  PROVE  /\ SolverOrder(s) \in Seq(Solvers) /\ DOMAIN SolverOrder(s) = 1..Len(SolverOrder(s))
         /\ Len(SolverOrder(s)) \in {1, 2}
<1>1. \/ SolverOrder(s) = <<"perpendicular">>
      \/ SolverOrder(s) = <<"straight first", "basic order">>
      \/ SolverOrder(s) = <<"basic order", "straight first">>
  BY PlanNumbers, Zenon DEF SolverOrder
<1>2. "perpendicular" \in Solvers /\ "straight first" \in Solvers /\ "basic order" \in Solvers
  BY DEF Solvers
<1>3. \A a \in Solvers : <<a>> \in Seq(Solvers) /\ DOMAIN <<a>> = 1..Len(<<a>>) /\ Len(<<a>>) \in {1, 2}
  OBVIOUS
<1>4. \A a, b \in Solvers :
        <<a, b>> \in Seq(Solvers) /\ DOMAIN <<a, b>> = 1..Len(<<a, b>>) /\ Len(<<a, b>>) \in {1, 2}
  OBVIOUS
<1>5. QED
  BY <1>1, <1>2, <1>3, <1>4, Zenon

\* The candidate whose turn it is: a solver and a radius, and for a parking their ranks.
LEMMA CandidateIs ==
  ASSUME task \in Tasks, slot \in Slots, next \in Nat \ {0}, next <= Len(Candidates(task, slot))
  PROVE  /\ Candidate.solver \in Solvers /\ Candidate.radius \in Nat
         /\ task = "park" => \E rank \in Nat, near \in 0..(Len(Radii) - 1) :
              /\ Candidate.ranks = <<rank, near>>
              /\ Candidate.radius = Radii[Ranked(slot)[near + 1]]
         /\ task = "align" => Candidate.ranks = <<>>
<1> DEFINE L == Len(Radii)
           K == Len(SolverOrder(slot))
<1>1. L \in Nat /\ K \in {1, 2} /\ DOMAIN Radii = 1..L
  BY OrderIs, PlanNumbers
<1>2. CASE task = "park"
  <2> DEFINE rank == (next - 1) \div L
             near == (next - 1) % L
  <2>1. Len(Candidates(task, slot)) = K * L
    <3>1. K * L \in Nat
      BY <1>1
    <3>2. QED
      BY <1>2, <3>1 DEF Candidates
  <2>2. next \in 1..(K * L) /\ L # 0
    BY <1>1, <2>1
  <2>3. rank \in 0..(K - 1) /\ near \in 0..(L - 1)
    <3>1. next - 1 \in 0..(L * K - 1) /\ L \in Nat \ {0} /\ K \in Nat
      BY <1>1, <2>2
    <3>2. QED
      BY <3>1, DivRange
  <2>4. Candidate = [solver |-> SolverOrder(slot)[rank + 1], radius |-> Radii[Ranked(slot)[near + 1]],
                     ranks |-> <<rank, near>>]
    BY <1>2, <2>2 DEF Candidate, Candidates
  <2> HIDE DEF rank, near
  <2>5. SolverOrder(slot)[rank + 1] \in Solvers
    <3>1. rank + 1 \in 1..K
      BY <1>1, <2>3
    <3>2. QED
      BY <3>1, OrderIs
  <2>6. Radii[Ranked(slot)[near + 1]] \in Nat
    <3>1. near + 1 \in DOMAIN Radii
      BY <1>1, <2>3
    <3>2. Ranked(slot)[near + 1] \in DOMAIN Radii
      BY <3>1, RankedSorts
    <3>3. QED
      BY <3>2, PlanNumbers
  <2>7. rank \in Nat
    BY <1>1, <2>3
  <2>8. QED
    BY <1>2, <2>3, <2>4, <2>5, <2>6, <2>7
<1>3. CASE task = "align"
  <2>1. Len(Candidates(task, slot)) = 2 * L
    <3>1. 2 * L \in Nat
      BY <1>1
    <3>2. QED
      BY <1>3, <3>1 DEF Candidates
  <2>2. next \in 1..(2 * L)
    BY <1>1, <2>1
  <2>3. (next - 1) \div 2 + 1 \in DOMAIN Radii
    BY <1>1, <2>2
  <2>4. Candidate = [solver |-> IF next % 2 = 1 THEN "forward" ELSE "backward",
                     radius |-> Radii[((next - 1) \div 2) + 1], ranks |-> <<>>]
    BY <1>3, <2>2 DEF Candidate, Candidates
  <2>5. Radii[((next - 1) \div 2) + 1] \in Nat
    BY <2>3, PlanNumbers
  <2>6. (IF next % 2 = 1 THEN "forward" ELSE "backward") \in Solvers
    BY DEF Solvers
  <2>7. Candidate.solver \in Solvers /\ Candidate.radius \in Nat /\ Candidate.ranks = <<>>
    BY <2>4, <2>5, <2>6
  <2>8. QED
    BY <1>3, <2>7
<1>4. CASE task = "blind"
  <2>1. DOMAIN SolverOrder(slot) = 1..K
    BY OrderIs
  <2>2. Len(Candidates(task, slot)) = K
    BY <1>1, <1>4, <2>1 DEF Candidates
  <2>3. next \in 1..K
    BY <1>1, <2>2
  <2>4. Candidate = [solver |-> SolverOrder(slot)[next], radius |-> slot.radius, ranks |-> <<>>]
    BY <1>4, <2>1, <2>3 DEF Candidate, Candidates
  <2>5. QED
    BY <1>4, <2>3, <2>4, OrderIs, PlanNumbers
<1>5. QED
  BY <1>2, <1>3, <1>4 DEF Tasks

-----------------------------------------------------------------------------
(* The search *)

\* A parking that was good enough has the best one's solver, and a radius no closer.
ParkKept(p) ==
  /\ p.key \in Seq(Int) /\ Len(p.key) = 4
  /\ p.key[1] = best.key[1] /\ p.key[2] \in 0..(Len(Radii) - 1)
  /\ p.radius = Radii[Ranked(slot)[p.key[2] + 1]]
  /\ best.key[2] <= p.key[2]

\* An alignment that was good enough is no shorter than the best.
AlignKept(p) == p.key \in Seq(Int) /\ Len(p.key) = 2 /\ best.key[1] <= p.key[1]

\* The types, as tight as the loops keep them.
PlanTyped ==
  /\ phase \in {"idle", "searching", "done"}
  /\ task \in Tasks /\ slot \in Slots
  /\ need \in Hard..Want
  /\ next \in Nat \ {0}
  /\ best \in {NoPlan} \cup Plans
  /\ best # NoPlan => [key |-> best.key, radius |-> best.radius] \in passed

\* What the loops keep: the best plan has the clearance that is needed, and every plan
\* that was good enough comes no earlier.
SearchInv ==
  /\ best = NoPlan <=> passed = {}
  /\ phase = "idle" => best = NoPlan
  /\ phase # "idle" /\ task # "blind" => need = NeedAt
  /\ task # "blind" /\ best # NoPlan => Clearance(best.swept) >= need
  /\ task = "park" /\ best # NoPlan => best.end = "there" /\ \A p \in passed : ParkKept(p)
  /\ task = "align" => \A p \in passed : AlignKept(p)

\* The inductive invariant.
PlanInv == GridInv /\ PlanTyped /\ SearchInv

\* It gives the types.
LEMMA PlanTyping == PlanInv => TypeOK
BY GridInvTyping DEF PlanInv, PlanTyped, TypeOK, Plans

\* Where the distances stay the same, so does what is computed from them.
LEMMA SameDistances ==
  ASSUME Distances' = Distances
  PROVE  NeedAt' = NeedAt /\ \A s : Clearance(s)' = Clearance(s)
<1>1. \A p : ClearanceAt(p)' = ClearanceAt(p)
  BY DEF ClearanceAt
<1>2. \A s : Clearance(s)' = Clearance(s)
  BY <1>1 DEF Clearance
<1>3. QED
  BY <1>2 DEF NeedAt

\* Steps that leave the grid alone.
LEMMA GridUnchanged == GridInv /\ UNCHANGED gridVars => GridInv' /\ Distances' = Distances
BY DEF GridInv, gridVars, Distances

\* need_at() is between the two limits.
LEMMA NeedTyping == GridInv => NeedAt \in Hard..Want
BY SetClearance, NeedIs, PlanNumbers

\* The invariant holds at the start.
LEMMA PlanInit == Init => PlanInv
<1>1. SUFFICES ASSUME Init PROVE PlanInv
  OBVIOUS
<1>2. GridInv
  BY <1>1 DEF Init, GridInit, GridInv, FromArrays
<1>3. PlanTyped
  BY <1>1, PlanNumbers DEF Init, PlanTyped, Tasks
<1>4. SearchInv
  BY <1>1 DEF Init, SearchInv
<1>5. QED
  BY <1>2, <1>3, <1>4 DEF PlanInv

\* A change of the map drops distances and plans.
LEMMA GridChanges ==
  ASSUME PlanInv, occupied' \subseteq Cells,
         distance' = None \/ (distance' = distance /\ occupied' = occupied),
         phase' = "idle", best' = NoPlan, passed' = {}, UNCHANGED <<task, slot, need, next>>
  PROVE  PlanInv'
<1>1. GridInv'
  BY DEF PlanInv, GridInv
<1>2. PlanTyped' /\ SearchInv'
  BY DEF PlanInv, PlanTyped, SearchInv
<1>3. QED
  BY <1>1, <1>2 DEF PlanInv

\* The two ways the map changes keep the invariant.
LEMMA PlanChange == PlanInv /\ Change => PlanInv'
<1>1. SUFFICES ASSUME PlanInv, Change PROVE PlanInv'
  OBVIOUS
<1>2. ASSUME NEW p \in Points, NEW span \in Spans, ObstaclesSeen(p, span) PROVE PlanInv'
  BY <1>1, <1>2, GridChanges DEF ObstaclesSeen, AddCells, PlanInv, GridInv
<1>3. ASSUME NEW data \in Statics, MapComes(data) PROVE PlanInv'
  BY <1>1, <1>3, GridChanges DEF MapComes, Rebuild, FromArrays
<1>4. QED
  BY <1>1, <1>2, <1>3 DEF Change

\* A new call computes distances if they were dropped, and what is needed from them.
LEMMA PlanAsk == ASSUME PlanInv, NEW t \in Tasks, Ask(t) PROVE PlanInv'
<1>1. GridInv' /\ Distances' = Distances
  <2>1. distance' \in {distance, Distances} /\ UNCHANGED occupied
    BY DEF Ask
  <2>2. Distances = Chamfer(occupied)
    BY GridInvCurrent DEF PlanInv
  <2>3. QED
    BY <2>1, <2>2 DEF PlanInv, GridInv, Distances
<1>2. NeedAt' = NeedAt
  BY <1>1, SameDistances
<1>3. need' \in Hard..Want
  BY NeedTyping DEF PlanInv, PlanTyped, Ask
<1>4. PlanTyped'
  BY <1>3 DEF PlanInv, PlanTyped, Ask
<1>5. SearchInv'
  BY <1>2 DEF SearchInv, Ask
<1>6. QED
  BY <1>1, <1>4, <1>5 DEF PlanInv

\* Steps that add no plan keep the invariant.
LEMMA PlanSkips ==
  ASSUME PlanInv, UNCHANGED <<gridVars, task, slot, need, best, passed>>,
         next' \in {next, next + 1}, phase' = phase \/ (phase = "searching" /\ phase' = "done")
  PROVE  PlanInv'
<1>1. GridInv' /\ Distances' = Distances
  BY GridUnchanged DEF PlanInv
<1>2. NeedAt' = NeedAt /\ \A s : Clearance(s)' = Clearance(s)
  BY <1>1, SameDistances
<1>3. PlanTyped'
  BY DEF PlanInv, PlanTyped
<1>4. SearchInv'
  BY <1>2 DEF PlanInv, SearchInv, ParkKept, AlignKept
<1>5. QED
  BY <1>1, <1>3, <1>4 DEF PlanInv

\* What tuples compared say of their first two places.
LEMMA PrecedesFirst ==
  ASSUME NEW k \in Seq(Int), NEW l \in Seq(Int), Len(k) = Len(l), Len(k) >= 1
  PROVE  /\ Precedes(k, l) => k[1] <= l[1]
         /\ ~Precedes(k, l) => l[1] <= k[1]
<1>1. k[1] \in Int /\ l[1] \in Int /\ 1 \in DOMAIN k
  OBVIOUS
<1>2. ASSUME NEW i \in DOMAIN k, k[i] < l[i], \A j \in 1..(i - 1) : k[j] = l[j] PROVE k[1] <= l[1]
  <2>1. CASE i = 1
    BY <1>1, <1>2, <2>1
  <2>2. CASE i # 1
    <3>1. 1 \in 1..(i - 1)
      BY <2>2
    <3>2. QED
      BY <1>1, <1>2, <3>1
  <2>3. QED
    BY <2>1, <2>2
<1>3. k[1] < l[1] => Precedes(k, l)
  <2>1. \A j \in 1..(1 - 1) : k[j] = l[j]
    OBVIOUS
  <2>2. QED
    BY <1>1, <2>1 DEF Precedes
<1>4. QED
  BY <1>1, <1>2, <1>3 DEF Precedes

\* What they say of the second where the first are equal.
LEMMA PrecedesSecond ==
  ASSUME NEW k \in Seq(Int), NEW l \in Seq(Int), Len(k) = Len(l), Len(k) >= 2, k[1] = l[1]
  PROVE  /\ Precedes(k, l) => k[2] <= l[2]
         /\ ~Precedes(k, l) => l[2] <= k[2]
<1>1. k[1] \in Int /\ l[1] \in Int /\ k[2] \in Int /\ l[2] \in Int /\ 2 \in DOMAIN k /\ DOMAIN k \subseteq Nat \ {0}
  OBVIOUS
<1>2. ASSUME NEW i \in DOMAIN k, k[i] < l[i], \A j \in 1..(i - 1) : k[j] = l[j] PROVE k[2] <= l[2]
  <2>0. i # 1
    BY <1>1, <1>2
  <2>1. CASE i = 2
    BY <1>1, <1>2, <2>1
  <2>2. CASE i # 2
    <3>1. 2 \in 1..(i - 1)
      BY <1>1, <2>0, <2>2
    <3>2. QED
      BY <1>1, <1>2, <3>1
  <2>3. QED
    BY <2>1, <2>2
<1>3. k[2] < l[2] => Precedes(k, l)
  <2>1. \A j \in 1..(2 - 1) : k[j] = l[j]
    OBVIOUS
  <2>2. QED
    BY <1>1, <2>1 DEF Precedes
<1>4. QED
  BY <1>1, <1>2, <1>3 DEF Precedes

\* A plan that is weighed: it replaces the best, or comes no earlier.
LEMMA PlanWeigh == ASSUME PlanInv, NEW o \in Outcomes, Weigh(o) PROVE PlanInv'
<1> DEFINE clear == Clearance(o.swept)
           plan == Plan(Candidate.ranks \o <<o.length, -clear>>, o)
           good == Reaches(task, o.end) /\ clear >= need
<1>1. /\ phase = "searching" /\ task # "blind" /\ ~Exhausted
      /\ next' = next + 1 /\ UNCHANGED <<gridVars, phase, task, slot, need>>
      /\ good => /\ passed' = passed \cup {[key |-> plan.key, radius |-> plan.radius]}
                 /\ best' = IF best = NoPlan THEN plan
                            ELSE IF Precedes(plan.key, best.key) THEN plan ELSE best
      /\ ~good => UNCHANGED <<best, passed>>
  BY DEF Weigh
<1>2. CASE ~good
  BY <1>1, <1>2, PlanSkips
<1>3. CASE good
  <2>1. GridInv' /\ Distances' = Distances
    BY <1>1, GridUnchanged DEF PlanInv
  <2>2. NeedAt' = NeedAt /\ \A s : Clearance(s)' = Clearance(s)
    BY <2>1, SameDistances
  <2>3. task \in Tasks /\ slot \in Slots /\ next \in Nat \ {0} /\ next <= Len(Candidates(task, slot))
    BY <1>1 DEF PlanInv, PlanTyped, Exhausted
  <2>4. /\ Candidate.solver \in Solvers /\ Candidate.radius \in Nat
        /\ task = "park" => \E rank \in Nat, near \in 0..(Len(Radii) - 1) :
             /\ Candidate.ranks = <<rank, near>>
             /\ Candidate.radius = Radii[Ranked(slot)[near + 1]]
        /\ task = "align" => Candidate.ranks = <<>>
    BY <2>3, CandidateIs
  <2>5. o.length \in Nat /\ o.end \in Ends /\ o.swept \in Sweeps /\ o.swept # {}
    <3>1. o.length \in Nat /\ o.end \in Ends /\ o.swept \in Sweeps
      BY PlanAssumption DEF Outcomes
    <3>2. QED
      BY <3>1, PlanNumbers
  <2>6. clear \in Nat
    BY <2>5, SetClearance DEF PlanInv
  <2> HIDE DEF clear
  <2>7. /\ plan.radius = Candidate.radius /\ plan.solver = Candidate.solver
        /\ plan.end = o.end /\ plan.swept = o.swept
        /\ plan.key = Candidate.ranks \o <<o.length, -clear>>
        /\ plan = [key |-> plan.key, radius |-> plan.radius, solver |-> plan.solver,
                   end |-> plan.end, swept |-> plan.swept]
    BY DEF Plan
  <2> HIDE DEF plan
  <2>8. task = "park" =>
          /\ plan.key \in Seq(Int) /\ Len(plan.key) = 4
          /\ plan.key[1] = Candidate.ranks[1]
          /\ plan.key[2] \in 0..(Len(Radii) - 1)
          /\ plan.radius = Radii[Ranked(slot)[plan.key[2] + 1]]
    <3>1. SUFFICES ASSUME task = "park"
                   PROVE  /\ plan.key \in Seq(Int) /\ Len(plan.key) = 4
                          /\ plan.key[1] = Candidate.ranks[1]
                          /\ plan.key[2] \in 0..(Len(Radii) - 1)
                          /\ plan.radius = Radii[Ranked(slot)[plan.key[2] + 1]]
      OBVIOUS
    <3>2. PICK rank \in Nat, near \in 0..(Len(Radii) - 1) :
             /\ Candidate.ranks = <<rank, near>>
             /\ Candidate.radius = Radii[Ranked(slot)[near + 1]]
      BY <2>4, <3>1
    <3>3. <<rank, near>> \in Seq(Int) /\ <<o.length, -clear>> \in Seq(Int)
      BY <2>5, <2>6
    <3>4. plan.key = <<rank, near>> \o <<o.length, -clear>>
      BY <2>7, <3>2
    <3>5. plan.key \in Seq(Int) /\ Len(plan.key) = 4 /\ plan.key[1] = rank /\ plan.key[2] = near
      BY <3>3, <3>4, ConcatProperties
    <3>6. QED
      BY <2>7, <3>2, <3>5
  <2>9. task = "align" => /\ plan.key \in Seq(Int) /\ Len(plan.key) = 2
    <3>1. <<o.length, -clear>> \in Seq(Int) /\ Len(<<o.length, -clear>>) = 2
      BY <2>5, <2>6
    <3>2. <<>> \o <<o.length, -clear>> = <<o.length, -clear>>
      BY <3>1
    <3>3. QED
      BY <2>4, <2>7, <3>1, <3>2
  <2>10. plan \in Plans
    BY <1>1, <2>3, <2>4, <2>5, <2>7, <2>8, <2>9 DEF Plans, Tasks
  <2>11. best' \in Plans /\ (best' = plan \/ (best' = best /\ best # NoPlan))
    BY <1>1, <1>3, <2>10 DEF PlanInv, PlanTyped
  <2>12. PlanTyped'
    <3>1. [key |-> best'.key, radius |-> best'.radius] \in passed'
      BY <1>1, <1>3, <2>11 DEF PlanInv, PlanTyped
    <3>2. QED
      BY <1>1, <2>3, <2>11, <3>1 DEF PlanInv, PlanTyped
  <2>13. best' # NoPlan /\ passed' # {}
    BY <1>1, <1>3, <2>11, NoPlanIsNone
  <2>14. Clearance(best.swept)' >= need'
    <3>1. CASE best' = plan
      BY <1>1, <1>3, <2>2, <2>7, <3>1 DEF clear
    <3>2. CASE best' = best /\ best # NoPlan
      BY <1>1, <2>2, <3>2 DEF PlanInv, SearchInv
    <3>3. QED
      BY <2>11, <3>1, <3>2
  <2>15. task' = "park" => best'.end = "there" /\ \A p \in passed' : ParkKept(p)'
    <3>1. SUFFICES ASSUME task = "park"
                   PROVE  best'.end = "there" /\ \A p \in passed' : ParkKept(p)'
      BY <1>1
    <3>2. plan.end = "there"
      BY <1>3, <2>7, <3>1 DEF Reaches
    <3>3. best'.end = "there"
      BY <2>11, <3>1, <3>2 DEF PlanInv, SearchInv
    <3>4. PICK q : passed' = passed \cup {q} /\ q.key = plan.key /\ q.radius = plan.radius
      <4> DEFINE r == [key |-> plan.key, radius |-> plan.radius]
      <4>1. passed' = passed \cup {r} /\ r.key = plan.key /\ r.radius = plan.radius
        BY <1>1, <1>3
      <4> HIDE DEF r
      <4>2. QED
        BY <4>1
    <3>5. CASE best = NoPlan
      <4>1. passed = {} /\ best' = plan
        BY <1>1, <1>3, <3>5 DEF PlanInv, SearchInv
      <4>2. QED
        BY <1>1, <2>8, <3>1, <3>3, <3>4, <4>1 DEF ParkKept
    <3>6. CASE best # NoPlan
      <4>1. best \in Plans /\ [key |-> best.key, radius |-> best.radius] \in passed
        BY <3>6 DEF PlanInv, PlanTyped
      <4>2. \A p \in passed : ParkKept(p)
        BY <3>1, <3>6 DEF PlanInv, SearchInv
      <4>3. /\ best.key \in Seq(Int) /\ Len(best.key) = 4 /\ best.key[2] \in 0..(Len(Radii) - 1)
        BY <4>1, <4>2 DEF ParkKept
      <4>4. plan.key[1] = best.key[1]
        BY <1>1, <2>3, <2>8, <3>1, <3>6 DEF Exhausted
      <4>5. /\ Precedes(plan.key, best.key) => plan.key[2] <= best.key[2]
            /\ ~Precedes(plan.key, best.key) => best.key[2] <= plan.key[2]
        <5>1. /\ plan.key \in Seq(Int) /\ best.key \in Seq(Int) /\ Len(plan.key) = Len(best.key)
              /\ Len(plan.key) >= 2 /\ plan.key[1] = best.key[1]
          BY <2>8, <3>1, <4>3, <4>4
        <5>2. QED
          BY <5>1, PrecedesSecond
      <4>6. Len(Radii) \in Nat
        BY PlanNumbers
      <4>7. /\ best'.key[1] = best.key[1]
            /\ best'.key[2] <= best.key[2] /\ best'.key[2] <= plan.key[2]
            /\ best'.key[2] \in 0..(Len(Radii) - 1)
        BY <1>1, <1>3, <2>8, <3>1, <3>6, <4>3, <4>4, <4>5, <4>6, SMTT(20)
      <4>8. ParkKept(q)'
        BY <1>1, <2>8, <3>1, <3>4, <4>4, <4>7 DEF ParkKept
      <4>9. ASSUME NEW p \in passed PROVE ParkKept(p)'
        <5>1. ParkKept(p)
          BY <4>2
        <5>2. best'.key[2] <= p.key[2]
          BY <4>3, <4>6, <4>7, <5>1 DEF ParkKept
        <5>3. QED
          BY <1>1, <4>7, <5>1, <5>2 DEF ParkKept
      <4>10. QED
        BY <3>3, <3>4, <4>8, <4>9
    <3>7. QED
      BY <3>5, <3>6
  <2>16. task' = "align" => \A p \in passed' : AlignKept(p)'
    <3>1. SUFFICES ASSUME task = "align" PROVE \A p \in passed' : AlignKept(p)'
      BY <1>1
    <3>2. PICK q : passed' = passed \cup {q} /\ q.key = plan.key
      <4> DEFINE r == [key |-> plan.key, radius |-> plan.radius]
      <4>1. passed' = passed \cup {r} /\ r.key = plan.key
        BY <1>1, <1>3
      <4> HIDE DEF r
      <4>2. QED
        BY <4>1
    <3>3. plan.key \in Seq(Int) /\ Len(plan.key) = 2 /\ plan.key[1] \in Int
      BY <2>9, <3>1
    <3>4. CASE best = NoPlan
      <4>1. passed = {} /\ best' = plan
        BY <1>1, <1>3, <3>4 DEF PlanInv, SearchInv
      <4>2. QED
        BY <3>2, <3>3, <4>1 DEF AlignKept
    <3>5. CASE best # NoPlan
      <4>1. best \in Plans /\ [key |-> best.key, radius |-> best.radius] \in passed
        BY <3>5 DEF PlanInv, PlanTyped
      <4>2. \A p \in passed : AlignKept(p)
        BY <3>1 DEF PlanInv, SearchInv
      <4>3. best.key \in Seq(Int) /\ Len(best.key) = 2 /\ best.key[1] \in Int
        BY <4>1, <4>2 DEF AlignKept
      <4>4. /\ Precedes(plan.key, best.key) => plan.key[1] <= best.key[1]
            /\ ~Precedes(plan.key, best.key) => best.key[1] <= plan.key[1]
        BY <3>3, <4>3, PrecedesFirst
      <4>5. best'.key[1] <= best.key[1] /\ best'.key[1] <= plan.key[1] /\ best'.key[1] \in Int
        BY <1>1, <1>3, <3>3, <3>5, <4>3, <4>4
      <4>6. AlignKept(q)'
        BY <3>2, <3>3, <4>5 DEF AlignKept
      <4>7. ASSUME NEW p \in passed PROVE AlignKept(p)'
        <5>1. p.key \in Seq(Int) /\ Len(p.key) = 2 /\ p.key[1] \in Int /\ best.key[1] <= p.key[1]
          BY <4>2 DEF AlignKept
        <5>2. QED
          BY <4>3, <4>5, <5>1 DEF AlignKept
      <4>8. QED
        BY <3>2, <4>6, <4>7
    <3>6. QED
      BY <3>4, <3>5
  <2>17. phase' # "idle" /\ need' = NeedAt'
    BY <1>1, <2>2 DEF PlanInv, SearchInv
  <2>18. SearchInv'
    BY <2>13, <2>14, <2>15, <2>16, <2>17 DEF SearchInv
  <2>19. QED
    BY <2>1, <2>12, <2>18 DEF PlanInv
<1>4. QED
  BY <1>2, <1>3

\* A plan without a map has nothing to be compared with.
LEMMA PlanTakes == ASSUME PlanInv, NEW o \in Outcomes, TakeUnchecked(o) PROVE PlanInv'
<1> DEFINE plan == Plan(<<>>, o)
<1>1. /\ phase = "searching" /\ task = "blind" /\ ~Exhausted
      /\ next' = next + 1 /\ UNCHANGED <<gridVars, phase, task, slot, need>>
      /\ best' = plan /\ passed' = {[key |-> <<>>, radius |-> slot.radius]}
  BY DEF TakeUnchecked
<1>2. GridInv'
  BY <1>1, GridUnchanged DEF PlanInv
<1>3. task \in Tasks /\ slot \in Slots /\ next \in Nat \ {0} /\ next <= Len(Candidates(task, slot))
  BY <1>1 DEF PlanInv, PlanTyped, Exhausted
<1>4. Candidate.solver \in Solvers /\ Candidate.radius \in Nat /\ Candidate.radius = slot.radius
  <2>1. next \in DOMAIN SolverOrder(slot)
    <3>1. Len(Candidates(task, slot)) = Len(SolverOrder(slot))
      BY <1>1, <1>3, OrderIs DEF Candidates
    <3>2. QED
      BY <1>3, <3>1, OrderIs
  <2>2. Candidate.radius = slot.radius
    BY <1>1, <2>1 DEF Candidate, Candidates
  <2>3. QED
    BY <1>3, <2>2, CandidateIs
<1>5. o.end \in Ends /\ o.swept \in Sweeps
  BY DEF Outcomes
<1>6. plan \in Plans /\ plan.key = <<>> /\ plan.radius = slot.radius
  BY <1>4, <1>5 DEF Plan, Plans
<1> HIDE DEF plan
<1>7. PlanTyped'
  BY <1>1, <1>3, <1>6 DEF PlanInv, PlanTyped
<1>8. SearchInv'
  BY <1>1, <1>6, NoPlanIsNone DEF SearchInv
<1>9. QED
  BY <1>2, <1>7, <1>8 DEF PlanInv

\* PlanInv is an invariant: of every step of plan_parking() and plan_align(), and of
\* every change of the map between two calls.
THEOREM PlanInvariant == Spec => []PlanInv
<1>1. Init => PlanInv
  BY PlanInit
<1>2. PlanInv /\ [Next]_vars => PlanInv'
  <2>1. SUFFICES ASSUME PlanInv, [Next]_vars PROVE PlanInv'
    OBVIOUS
  <2>2. CASE Change
    BY <2>1, <2>2, PlanChange
  <2>3. ASSUME NEW t \in Tasks, Ask(t) PROVE PlanInv'
    BY <2>1, <2>3, PlanAsk
  <2>4. CASE NoSolution
    BY <2>1, <2>4, PlanSkips DEF NoSolution
  <2>5. ASSUME NEW o \in Outcomes, Weigh(o) PROVE PlanInv'
    BY <2>1, <2>5, PlanWeigh
  <2>6. ASSUME NEW o \in Outcomes, TakeUnchecked(o) PROVE PlanInv'
    BY <2>1, <2>6, PlanTakes
  <2>7. CASE Return
    BY <2>1, <2>7, PlanSkips DEF Return
  <2>8. CASE UNCHANGED vars
    BY <2>1, <2>8, PlanSkips DEF vars, gridVars
  <2>9. QED
    BY <2>1, <2>2, <2>3, <2>4, <2>5, <2>6, <2>7, <2>8 DEF Next
<1>3. QED
  BY <1>1, <1>2, PTL DEF Spec

\* The planner's variables have their types.
THEOREM PlanTypeCorrect == Spec => []TypeOK
BY PlanInvariant, PlanTyping, PTL

\* The distances that is_free() and the planner read are those of the obstacles as
\* they are marked, for every map and every order of obstacles seen, maps received
\* and calls (passability.py).
THEOREM DistancesStayCurrent == Spec => []DistancesAreCurrent
<1>1. PlanInv => DistancesAreCurrent
  BY GridInvCurrent DEF PlanInv
<1>2. QED
  BY <1>1, PlanInvariant, PTL

\* The plan that is returned has the first solver and the closest radius of all that
\* were good enough, or is the shortest alignment; none is returned only if there
\* is none (collision.py 236-265, 285-303).
THEOREM ChoiceIsBest == Spec => []BestIsChosen
<1>1. ASSUME PlanInv PROVE BestIsChosen
  <2>1. ASSUME task = "park", NEW p \in passed
        PROVE  /\ best.end = "there" /\ best.key[1] = p.key[1]
               /\ Apart(best.radius, slot.radius) <= Apart(p.radius, slot.radius)
    <3>1. best # NoPlan /\ slot \in Slots /\ [key |-> best.key, radius |-> best.radius] \in passed
      BY <1>1, <2>1 DEF PlanInv, PlanTyped, SearchInv
    <3>2. best.end = "there" /\ \A q \in passed : ParkKept(q)
      BY <1>1, <2>1, <3>1 DEF PlanInv, SearchInv
    <3>3. /\ p.key[1] = best.key[1] /\ p.key[2] \in 0..(Len(Radii) - 1)
          /\ p.radius = Radii[Ranked(slot)[p.key[2] + 1]] /\ best.key[2] <= p.key[2]
      BY <3>2 DEF ParkKept
    <3>4. best.key[2] \in 0..(Len(Radii) - 1) /\ best.radius = Radii[Ranked(slot)[best.key[2] + 1]]
      BY <3>1, <3>2 DEF ParkKept
    <3>5. p.key[2] + 1 \in DOMAIN Radii /\ best.key[2] + 1 \in DOMAIN Radii
          /\ best.key[2] + 1 <= p.key[2] + 1
      <4>1. \A i \in 0..(Len(Radii) - 1) : i + 1 \in DOMAIN Radii /\ i \in Int
        BY PlanNumbers
      <4>2. QED
        BY <3>3, <3>4, <4>1
    <3>6. QED
      BY <3>1, <3>2, <3>3, <3>4, <3>5, RankedCloser
  <2>2. ASSUME task = "align", NEW p \in passed PROVE best.key[1] <= p.key[1]
    BY <1>1, <2>2 DEF PlanInv, SearchInv, AlignKept
  <2>3. QED
    BY <1>1, <2>1, <2>2 DEF BestIsChosen, PlanInv, SearchInv
<1>2. QED
  BY <1>1, PlanInvariant, PTL

\* A checked plan keeps the hard limit from every obstacle, and its way is no tighter
\* than the place the car stands in (collision.py 40, 159-167).
THEOREM ChosenStaysClear == Spec => []PlanStaysClear
<1>1. ASSUME PlanInv, Checked PROVE
        /\ \A p \in best.swept : JustOff(p) \/ TrueClearance({p}) >= Hard
        /\ (\A p \in best.swept : Floor(p) \in Cells) =>
             TrueClearance(best.swept) >= Min({Want, TrueClearance(Outline)})
  <2> DEFINE s == best.swept
  <2>1. /\ GridInv /\ best \in Plans /\ need = NeedAt /\ Clearance(s) >= need
        /\ s \in Sweeps /\ s \subseteq Int \X Int /\ s # {} /\ Outline # {} /\ Outline \subseteq s
    BY <1>1, PlanNumbers DEF Checked, PlanInv, PlanTyped, SearchInv, Plans
  <2> HIDE DEF s
  <2>2. /\ Clearance(s) \in Nat /\ \A p \in s : Clearance(s) <= ClearanceAt(p)
        /\ \E p \in s : Clearance(s) = ClearanceAt(p)
        /\ Clearance(Outline) \in Nat /\ \E p \in Outline : Clearance(Outline) = ClearanceAt(p)
    BY <2>1, SetClearance
  <2>3. /\ need \in Hard..Want /\ need >= IF Clearance(Outline) <= Want THEN Clearance(Outline) - 1 ELSE Want
    BY <2>1, <2>2, NeedIs
  <2>4. Hard \in Nat /\ Want \in Nat /\ 0 < Hard /\ Hard < Want
    BY PlanNumbers
  <2>5. \A p \in s : ClearanceAt(p) \in Nat /\ ClearanceAt(p) = IF ToCell(p) \in Cells THEN TrueDistance(ToCell(p)) ELSE 0
    BY <2>1, PointClearance
  <2>6. ASSUME NEW n \in Nat PROVE Min({n}) = n
    BY DEF Min
  <2>7. ASSUME NEW p \in s PROVE JustOff(p) \/ TrueClearance({p}) >= Hard
    <3>1. ClearanceAt(p) >= Hard
      BY <2>1, <2>2, <2>3, <2>4, <2>5
    <3>2. ToCell(p) \in Cells /\ TrueDistance(ToCell(p)) >= Hard /\ TrueDistance(ToCell(p)) \in Nat
      BY <2>4, <2>5, <3>1
    <3>3. CASE Floor(p) = ToCell(p)
      <4>1. TrueClearance({p}) = Min({TrueDistance(Floor(p))})
        BY <3>2, <3>3 DEF TrueClearance
      <4>2. QED
        BY <2>6, <3>2, <3>3, <4>1
    <3>4. QED
      BY <2>1, <3>2, <3>3, OffByLess
  <2>8. ASSUME \A p \in s : Floor(p) \in Cells
        PROVE  TrueClearance(s) >= Min({Want, TrueClearance(Outline)})
    <3>1. ASSUME NEW points \in SUBSET s PROVE TrueClearance(points) = Clearance(points)
      <4>1. \A p \in points : Floor(p) \in Cells /\ ToCell(p) = Floor(p)
        BY <2>1, <2>8, OnMap
      <4>2. \A p \in points : ClearanceAt(p) = IF Floor(p) \in Cells THEN TrueDistance(Floor(p)) ELSE 0
        BY <2>5, <4>1
      <4>3. {ClearanceAt(p) : p \in points} = {IF Floor(p) \in Cells THEN TrueDistance(Floor(p)) ELSE 0 : p \in points}
        BY <4>2
      <4>4. QED
        BY <4>3 DEF TrueClearance, Clearance
    <3>2. TrueClearance(s) = Clearance(s) /\ TrueClearance(Outline) = Clearance(Outline)
      BY <2>1, <3>1
    <3>3. Min({Want, Clearance(Outline)}) = IF Want <= Clearance(Outline) THEN Want ELSE Clearance(Outline)
      BY <2>2, <2>4, TwoLeast
    <3>4. CASE Clearance(Outline) > Want
      BY <2>1, <2>2, <2>3, <2>4, <3>2, <3>3, <3>4
    <3>5. CASE Clearance(Outline) <= Want
      <4>1. PICK p \in s : Clearance(s) = ClearanceAt(p)
        BY <2>2
      <4>2. PICK q \in Outline : Clearance(Outline) = ClearanceAt(q)
        BY <2>2
      <4>3. ClearanceAt(p) <= ClearanceAt(q) /\ ClearanceAt(p) >= ClearanceAt(q) - 1
        BY <2>1, <2>2, <2>3, <2>4, <3>5, <4>1, <4>2
      <4>4. ClearanceAt(p) = ClearanceAt(q)
        BY <2>1, <3>5, <4>2, <4>3, NotByOne
      <4>5. QED
        BY <2>2, <2>4, <3>2, <3>3, <4>1, <4>2, <4>4
    <3>6. QED
      BY <2>2, <2>4, <3>4, <3>5
  <2>9. QED
    BY <2>7, <2>8 DEF s
<1>2. PlanInv => PlanStaysClear
  BY <1>1 DEF PlanStaysClear
<1>3. QED
  BY <1>2, PlanInvariant, PTL

-----------------------------------------------------------------------------
(* the recursive loops of Retrace *)

\* A sum adds one number at a time.
LEMMA SumRuns ==
  ASSUME NEW ns \in Seq(Int)
  PROVE  \E after \in [0..Len(ns) -> Int] :
           /\ after[0] = 0
           /\ \A i \in 1..Len(ns) : after[i] = Plus(after[i - 1], ns[i])
           /\ SumOf(ns) = after[Len(ns)]
<1> DEFINE N == Len(ns)
           rule == [p \in (1..N) \X Int |-> Plus(p[2], ns[p[1]])]
           Runs(a) == a = [i \in 0..N |-> IF i = 0 THEN 0 ELSE Plus(a[i - 1], ns[i])]
           b == CHOOSE a : Runs(a)
<1>1. N \in Nat /\ \A i \in 1..N : ns[i] \in Int
  OBVIOUS
<1>2. \A i \in 1..N, v \in Int : Plus(v, ns[i]) \in Int
  BY <1>1 DEF Plus
<1>3. /\ rule \in [(1..N) \X Int -> Int]
      /\ \A i \in 1..N, v \in Int : rule[<<i, v>>] = Plus(v, ns[i])
  BY <1>2
<1> HIDE DEF rule
<1>4. 0 \in Int
  OBVIOUS
<1>5. Recurses(Int, 0, N, rule)
  BY <1>1, <1>3, <1>4, Recursion, ZenonT(60)
<1>6. PICK a \in [0..N -> Int] : a[0] = 0 /\ \A i \in 1..N : a[i] = rule[<<i, a[i - 1]>>]
  BY <1>5 DEF Recurses
<1>7. \A i \in 1..N : a[i] = Plus(a[i - 1], ns[i])
  <2>1. \A i \in 1..N : i - 1 \in 0..N
    BY <1>1
  <2>2. \A i \in 1..N : a[i - 1] \in Int
    BY <1>6, <2>1
  <2>3. QED
    BY <1>3, <1>6, <2>2
<1>8. \E g : Runs(g)
  <2>1. \A i \in 0..N : a[i] = IF i = 0 THEN 0 ELSE Plus(a[i - 1], ns[i])
    BY <1>1, <1>6, <1>7
  <2>2. Runs(a)
    BY <1>6, <2>1
  <2> HIDE DEF Runs
  <2>3. QED
    BY <2>2
<1>9. Runs(b)
  <2> HIDE DEF Runs
  <2>1. QED
    BY <1>8, Zenon
<1>10. SumOf(ns) = b[N]
  BY DEF SumOf, Loop
<1> HIDE DEF b
<1>11. /\ DOMAIN b = 0..N /\ b = [i \in 0..N |-> b[i]] /\ b[0] = 0
       /\ \A i \in 1..N : b[i] = Plus(b[i - 1], ns[i])
  <2>1. DOMAIN b = 0..N /\ b = [i \in 0..N |-> b[i]]
    BY <1>9
  <2>2. \A i \in 0..N : b[i] = IF i = 0 THEN 0 ELSE Plus(b[i - 1], ns[i])
    BY <1>9
  <2>3. b[0] = 0
    BY <1>1, <2>2
  <2>4. ASSUME NEW i \in 1..N PROVE b[i] = Plus(b[i - 1], ns[i])
    BY <1>1, <2>2
  <2>5. QED
    BY <2>1, <2>3, <2>4
<1>12. b \in [0..N -> Int]
  <2>1. \A i \in 1..N : b[i - 1] \in Int => b[i] \in Int
    BY <1>2, <1>11
  <2>2. QED
    BY <1>1, <1>4, <1>11, <2>1, RecursionTyping
<1>13. QED
  BY <1>10, <1>11, <1>12

\* Poses stay on the lattice.
LEMMA EndTyping == ASSUME NEW q \in Poses, NEW p \in Prims PROVE End(q, p) \in Poses
<1>1. /\ q.x \in Int /\ q.y \in Int /\ q.h \in 0..3 /\ p.length \in Nat /\ p.angle \in Nat
      /\ p.turn \in Int /\ p.direction \in Int
  BY DEF Poses, Prims, Headings, Turns, Directions
<1>2. \A h : Cos(h) \in Int /\ Sin(h) \in Int
  BY DEF Cos, Sin
<1>3. CASE p.angle = 0
  <2> DEFINE x == q.x + p.direction * p.length * Cos(q.h)
             y == q.y + p.direction * p.length * Sin(q.h)
  <2>1. x \in Int /\ y \in Int
    BY <1>1, <1>2
  <2>2. StraightEnd(q, p) = [q EXCEPT !.x = x, !.y = y]
    BY DEF StraightEnd
  <2> HIDE DEF x, y
  <2>3. QED
    BY <1>3, <2>1, <2>2 DEF End, Poses
<1>4. CASE p.angle # 0
  <2> DEFINE r == p.length \div p.angle
             d == p.direction * p.turn * p.angle
  <2>1. r \in Int /\ d \in Int
    BY <1>1, <1>4
  <2>2. (q.h + d) % 4 \in 0..3
    <3>1. \A n \in Int : n % 4 \in 0..3
      OBVIOUS
    <3>2. q.h + d \in Int
      BY <1>1, <2>1
    <3>3. QED
      BY <3>1, <3>2
  <2>3. ArcEnd(q, p) = [x |-> q.x - p.turn * r * Sin(q.h) + p.turn * r * Sin((q.h + d) % 4),
                        y |-> q.y + p.turn * r * Cos(q.h) - p.turn * r * Cos((q.h + d) % 4),
                        h |-> (q.h + d) % 4]
    BY DEF ArcEnd, DYaw
  <2> HIDE DEF r, d
  <2>4. QED
    BY <1>1, <1>2, <1>4, <2>1, <2>2, <2>3 DEF End, Poses, Headings
<1>5. QED
  BY <1>3, <1>4

\* Segments move the car one after the other.
LEMMA Integrates ==
  ASSUME NEW q \in Poses, NEW ps \in Seq(Prims)
  PROVE  \E after \in [0..Len(ps) -> Poses] :
           /\ after[0] = q
           /\ \A i \in 1..Len(ps) : after[i] = End(after[i - 1], ps[i])
           /\ Integrate(q, ps) = after[Len(ps)]
<1> DEFINE N == Len(ps)
           rule == [p \in (1..N) \X Poses |-> End(p[2], ps[p[1]])]
           Runs(a) == a = [i \in 0..N |-> IF i = 0 THEN q ELSE End(a[i - 1], ps[i])]
           b == CHOOSE a : Runs(a)
<1>1. N \in Nat /\ \A i \in 1..N : ps[i] \in Prims
  OBVIOUS
<1>2. \A i \in 1..N, v \in Poses : End(v, ps[i]) \in Poses
  BY <1>1, EndTyping
<1>3. /\ rule \in [(1..N) \X Poses -> Poses]
      /\ \A i \in 1..N, v \in Poses : rule[<<i, v>>] = End(v, ps[i])
  BY <1>2
<1> HIDE DEF rule
<1>4. q \in Poses
  OBVIOUS
<1>5. Recurses(Poses, q, N, rule)
  BY <1>1, <1>3, <1>4, Recursion, ZenonT(60)
<1>6. PICK a \in [0..N -> Poses] : a[0] = q /\ \A i \in 1..N : a[i] = rule[<<i, a[i - 1]>>]
  BY <1>5 DEF Recurses
<1>7. \A i \in 1..N : a[i] = End(a[i - 1], ps[i])
  <2>1. \A i \in 1..N : i - 1 \in 0..N
    BY <1>1
  <2>2. \A i \in 1..N : a[i - 1] \in Poses
    BY <1>6, <2>1
  <2>3. QED
    BY <1>3, <1>6, <2>2
<1>8. \E g : Runs(g)
  <2>1. \A i \in 0..N : a[i] = IF i = 0 THEN q ELSE End(a[i - 1], ps[i])
    BY <1>1, <1>6, <1>7
  <2>2. Runs(a)
    BY <1>6, <2>1
  <2> HIDE DEF Runs
  <2>3. QED
    BY <2>2
<1>9. Runs(b)
  <2> HIDE DEF Runs
  <2>1. QED
    BY <1>8, Zenon
<1>10. Integrate(q, ps) = b[N]
  BY DEF Integrate, Loop
<1> HIDE DEF b
<1>11. /\ DOMAIN b = 0..N /\ b = [i \in 0..N |-> b[i]] /\ b[0] = q
       /\ \A i \in 1..N : b[i] = End(b[i - 1], ps[i])
  <2>1. DOMAIN b = 0..N /\ b = [i \in 0..N |-> b[i]]
    BY <1>9
  <2>2. \A i \in 0..N : b[i] = IF i = 0 THEN q ELSE End(b[i - 1], ps[i])
    BY <1>9
  <2>3. b[0] = q
    BY <1>1, <2>2
  <2>4. ASSUME NEW i \in 1..N PROVE b[i] = End(b[i - 1], ps[i])
    BY <1>1, <2>2
  <2>5. QED
    BY <2>1, <2>3, <2>4
<1>12. b \in [0..N -> Poses]
  <2>1. \A i \in 1..N : b[i - 1] \in Poses => b[i] \in Poses
    BY <1>2, <1>11
  <2>2. QED
    BY <1>1, <1>4, <1>11, <2>1, RecursionTyping
<1>13. QED
  BY <1>10, <1>11, <1>12

\* The sums of the first numbers, one after the other.
RunningSum(ns, r) ==
  r \in [0..Len(ns) -> Int] /\ r[0] = 0 /\ \A i \in 1..Len(ns) : r[i] = r[i - 1] + ns[i]

\* A sum is the last of them.
LEMMA SumIs ==
  ASSUME NEW ns \in Seq(Int), NEW r, RunningSum(ns, r)
  PROVE  SumOf(ns) = r[Len(ns)]
<1>1. PICK after \in [0..Len(ns) -> Int] :
        /\ after[0] = 0 /\ \A i \in 1..Len(ns) : after[i] = Plus(after[i - 1], ns[i])
        /\ SumOf(ns) = after[Len(ns)]
  BY SumRuns
<1> DEFINE Good == {i \in Nat : i <= Len(ns) => after[i] = r[i]}
<1>2. 0 \in Good
  BY <1>1 DEF RunningSum
<1>3. ASSUME NEW i \in Nat, i \in Good PROVE i + 1 \in Good
  <2>1. SUFFICES ASSUME i + 1 <= Len(ns) PROVE after[i + 1] = r[i + 1]
    OBVIOUS
  <2>2. i + 1 \in 1..Len(ns) /\ (i + 1) - 1 = i /\ after[i] = r[i]
    BY <1>3, <2>1
  <2>3. QED
    BY <1>1, <2>2 DEF RunningSum, Plus
<1>4. Nat \subseteq Good
  <2> HIDE DEF Good
  <2>1. QED
    BY <1>2, <1>3, SetInduction
<1>5. QED
  BY <1>1, <1>4

\* There are such sums.
LEMMA SumRunning ==
  ASSUME NEW ns \in Seq(Int)
  PROVE  \E r : RunningSum(ns, r) /\ SumOf(ns) = r[Len(ns)] /\ SumOf(ns) \in Int
<1>1. PICK after \in [0..Len(ns) -> Int] :
        /\ after[0] = 0 /\ \A i \in 1..Len(ns) : after[i] = Plus(after[i - 1], ns[i])
        /\ SumOf(ns) = after[Len(ns)]
  BY SumRuns
<1>2. RunningSum(ns, after)
  BY <1>1 DEF RunningSum, Plus
<1>3. Len(ns) \in 0..Len(ns)
  OBVIOUS
<1>4. QED
  BY <1>1, <1>2, <1>3

\* The sum of no numbers, and of one more.
LEMMA SumAppend ==
  ASSUME NEW ns \in Seq(Int), NEW n \in Int
  PROVE  SumOf(<<>>) = 0 /\ SumOf(ns) \in Int /\ SumOf(Append(ns, n)) = SumOf(ns) + n
<1> DEFINE more == Append(ns, n)
<1>1. PICK r : RunningSum(ns, r) /\ SumOf(ns) = r[Len(ns)] /\ SumOf(ns) \in Int
  BY SumRunning
<1>2. PICK o : RunningSum(<<>>, o) /\ SumOf(<<>>) = o[Len(<<>>)]
  <2>1. <<>> \in Seq(Int)
    OBVIOUS
  <2>2. QED
    BY <2>1, SumRunning
<1> DEFINE t == [i \in 0..(Len(ns) + 1) |-> IF i = Len(ns) + 1 THEN r[Len(ns)] + n ELSE r[i]]
<1>3. more \in Seq(Int) /\ Len(more) = Len(ns) + 1 /\ Len(ns) \in Nat
      /\ more[Len(ns) + 1] = n /\ \A i \in 1..Len(ns) : more[i] = ns[i]
  OBVIOUS
<1>4. RunningSum(more, t)
  <2>1. \A i \in 0..Len(ns) : r[i] \in Int /\ t[i] = r[i]
    BY <1>1, <1>3 DEF RunningSum
  <2>2. t[Len(ns) + 1] = r[Len(ns)] + n
    BY <1>3
  <2>3. t \in [0..(Len(ns) + 1) -> Int]
    <3>1. r[Len(ns)] \in Int
      BY <1>1
    <3>2. ASSUME NEW i \in 0..(Len(ns) + 1)
          PROVE  (IF i = Len(ns) + 1 THEN r[Len(ns)] + n ELSE r[i]) \in Int
      <4>1. CASE i = Len(ns) + 1
        BY <3>1, <4>1
      <4>2. CASE i # Len(ns) + 1
        <5>1. i \in 0..Len(ns)
          BY <1>3, <4>2
        <5>2. QED
          BY <1>1, <4>2, <5>1 DEF RunningSum
      <4>3. QED
        BY <4>1, <4>2
    <3>3. QED
      BY <3>2
  <2> HIDE DEF t, more
  <2>4. ASSUME NEW i \in 1..(Len(ns) + 1) PROVE t[i] = t[i - 1] + more[i]
    <3>1. CASE i = Len(ns) + 1
      BY <1>3, <2>1, <2>2, <3>1
    <3>2. CASE i \in 1..Len(ns)
      <4>1. i - 1 \in 0..Len(ns) /\ i \in 0..Len(ns) /\ r[i] = r[i - 1] + ns[i]
        BY <1>1, <1>3, <3>2 DEF RunningSum
      <4>2. QED
        BY <1>3, <2>1, <3>2, <4>1
    <3>3. QED
      BY <1>3, <3>1, <3>2
  <2>5. t[0] = 0
    BY <1>1, <1>3, <2>1 DEF RunningSum
  <2>6. QED
    BY <1>3, <2>3, <2>4, <2>5 DEF RunningSum
<1>5. t[Len(more)] = SumOf(ns) + n
  BY <1>1, <1>3
<1>6. SumOf(more) = t[Len(more)]
  <2> HIDE DEF t, more
  <2>1. QED
    BY <1>3, <1>4, SumIs
<1>7. QED
  BY <1>1, <1>2, <1>5, <1>6 DEF RunningSum

\* Numbers have the same sum in either order.
LEMMA SumReverse ==
  ASSUME NEW ns \in Seq(Int)
  PROVE  SumOf([i \in 1..Len(ns) |-> ns[(Len(ns) - i) + 1]]) = SumOf(ns)
<1> DEFINE n == Len(ns)
           back == [i \in 1..n |-> ns[(n - i) + 1]]
<1>1. PICK r : RunningSum(ns, r) /\ SumOf(ns) = r[n]
  BY SumRunning
<1> DEFINE t == [i \in 0..n |-> r[n] - r[n - i]]
<1>2. n \in Nat /\ \A i \in 0..n : r[i] \in Int /\ n - i \in 0..n
  BY <1>1 DEF RunningSum
<1>3. back \in Seq(Int) /\ Len(back) = n
  <2>1. \A i \in 1..n : (n - i) + 1 \in 1..n /\ ns[(n - i) + 1] \in Int
    BY <1>2
  <2>2. QED
    BY <1>2, <2>1
<1>4. RunningSum(back, t)
  <2>1. t \in [0..n -> Int]
    <3>1. \A i \in 0..n : r[n] - r[n - i] \in Int
      BY <1>2, SMTT(20)
    <3>2. QED
      BY <3>1
  <2>2. t[0] = 0
    BY <1>2
  <2>3. ASSUME NEW i \in 1..n PROVE t[i] = t[i - 1] + back[i]
    <3>1. (n - i) + 1 \in 1..n /\ ((n - i) + 1) - 1 = n - i /\ n - (i - 1) = (n - i) + 1
          /\ i \in 0..n /\ i - 1 \in 0..n
      BY <1>2
    <3>2. r[(n - i) + 1] = r[n - i] + ns[(n - i) + 1]
      BY <1>1, <3>1 DEF RunningSum
    <3>3. t[i] = r[n] - r[n - i] /\ t[i - 1] = r[n] - r[(n - i) + 1] /\ back[i] = ns[(n - i) + 1]
      BY <3>1
    <3>4. r[n] \in Int /\ r[n - i] \in Int /\ ns[(n - i) + 1] \in Int
      BY <1>2, <3>1
    <3>5. QED
      BY <3>2, <3>3, <3>4
  <2> HIDE DEF t, back
  <2>4. QED
    BY <1>3, <2>1, <2>2, <2>3 DEF RunningSum
<1>5. t[n] = r[n]
  <2>1. r[0] = 0 /\ n - n = 0 /\ n \in 0..n /\ r[n] \in Int
    BY <1>1, <1>2 DEF RunningSum
  <2>2. QED
    BY <2>1
<1>6. SumOf(back) = t[n]
  <2> HIDE DEF t, back
  <2>1. QED
    BY <1>3, <1>4, SumIs
<1>7. QED
  BY <1>1, <1>5, <1>6

-----------------------------------------------------------------------------
(* groups of the trail *)

\* The groups of a trail, with the lengths and the angles of them.
Group == [length : Nat \ {0}, angle : Int]
Extents(gs) == [i \in DOMAIN gs |-> gs[i].length]
\* And how far they turn.
Angles(gs) == [i \in DOMAIN gs |-> gs[i].angle]

\* They are sequences of numbers.
LEMMA GroupTyping ==
  ASSUME NEW gs \in Seq(Group)
  PROVE  /\ Extents(gs) \in Seq(Int) /\ Len(Extents(gs)) = Len(gs)
         /\ Angles(gs) \in Seq(Int) /\ Len(Angles(gs)) = Len(gs)
         /\ \A i \in 1..Len(gs) : /\ Extents(gs)[i] = gs[i].length /\ Angles(gs)[i] = gs[i].angle
                                  /\ gs[i].length \in Nat \ {0} /\ gs[i].angle \in Int
<1>0. \A g \in Group : g.length \in Nat \ {0} /\ g.angle \in Int
  BY DEF Group
<1>1. \A i \in DOMAIN gs : gs[i].length \in Nat \ {0} /\ gs[i].angle \in Int
  <2>1. \A i \in DOMAIN gs : gs[i] \in Group
    OBVIOUS
  <2>2. QED
    BY <1>0, <2>1
<1>2. /\ Extents(gs) \in Seq(Int) /\ Len(Extents(gs)) = Len(gs)
      /\ \A i \in 1..Len(gs) : Extents(gs)[i] = gs[i].length
  BY <1>1 DEF Extents
<1>3. /\ Angles(gs) \in Seq(Int) /\ Len(Angles(gs)) = Len(gs)
      /\ \A i \in 1..Len(gs) : Angles(gs)[i] = gs[i].angle
  <2>1. \A i \in 1..Len(gs) : gs[i].angle \in Int
    BY <1>1
  <2>2. Angles(gs) = [i \in 1..Len(gs) |-> gs[i].angle] /\ Len(gs) \in Nat
    BY DEF Angles
  <2>3. QED
    BY <2>1, <2>2
<1>4. QED
  BY <1>1, <1>2, <1>3

\* They are longer by one where a group is added.
LEMMA GroupNumbers ==
  ASSUME NEW gs \in Seq(Group), NEW g \in Group
  PROVE  /\ Extents(gs) \in Seq(Int) /\ Angles(gs) \in Seq(Int)
         /\ Extents(Append(gs, g)) = Append(Extents(gs), g.length)
         /\ Angles(Append(gs, g)) = Append(Angles(gs), g.angle)
         /\ g.length \in Int /\ g.angle \in Int
<1>2. g.length \in Int /\ g.angle \in Int
  BY DEF Group
<1>3. Extents(gs) \in Seq(Int) /\ Angles(gs) \in Seq(Int)
      /\ Len(Extents(gs)) = Len(gs) /\ Len(Angles(gs)) = Len(gs)
  BY GroupTyping
<1> DEFINE more == Append(gs, g)
<1>4. /\ Len(gs) \in Nat /\ DOMAIN more = 1..(Len(gs) + 1) /\ more[Len(gs) + 1] = g /\ DOMAIN gs = 1..Len(gs)
      /\ \A i \in 1..Len(gs) : more[i] = gs[i]
  OBVIOUS
<1> HIDE DEF more
<1>5. \A i \in 1..(Len(gs) + 1) : more[i].length = Append(Extents(gs), g.length)[i]
  <2>1. SUFFICES ASSUME NEW i \in 1..(Len(gs) + 1)
                 PROVE  more[i].length = Append(Extents(gs), g.length)[i]
    OBVIOUS
  <2>2. CASE i = Len(gs) + 1
    BY <1>3, <1>4, <2>2
  <2>3. CASE i \in 1..Len(gs)
    BY <1>3, <1>4, <2>3 DEF Extents
  <2>4. QED
    <3>1. i = Len(gs) + 1 \/ i \in 1..Len(gs)
      BY <1>4
    <3>2. QED
      BY <2>2, <2>3, <3>1
<1>6. \A i \in 1..(Len(gs) + 1) : more[i].angle = Append(Angles(gs), g.angle)[i]
  <2>1. SUFFICES ASSUME NEW i \in 1..(Len(gs) + 1)
                 PROVE  more[i].angle = Append(Angles(gs), g.angle)[i]
    OBVIOUS
  <2>2. CASE i = Len(gs) + 1
    BY <1>3, <1>4, <2>2
  <2>3. CASE i \in 1..Len(gs)
    BY <1>3, <1>4, <2>3 DEF Angles
  <2>4. QED
    <3>1. i = Len(gs) + 1 \/ i \in 1..Len(gs)
      BY <1>4
    <3>2. QED
      BY <2>2, <2>3, <3>1
<1>7. Extents(more) = [i \in 1..(Len(gs) + 1) |-> more[i].length]
      /\ Angles(more) = [i \in 1..(Len(gs) + 1) |-> more[i].angle]
  BY <1>4 DEF Extents, Angles
<1>8. Extents(more) = Append(Extents(gs), g.length) /\ Angles(more) = Append(Angles(gs), g.angle)
  <2>1. /\ Append(Extents(gs), g.length) = [i \in 1..(Len(gs) + 1) |-> Append(Extents(gs), g.length)[i]]
        /\ Append(Angles(gs), g.angle) = [i \in 1..(Len(gs) + 1) |-> Append(Angles(gs), g.angle)[i]]
    BY <1>2, <1>3
  <2>2. QED
    BY <1>5, <1>6, <1>7, <2>1
<1>9. QED
  BY <1>2, <1>3, <1>8 DEF more

\* A piece of the trail joins the last group or starts one: no length and no angle is lost.
LEMMA GroupedKeeps ==
  ASSUME NEW gs \in Seq(Group), NEW p \in Group
  PROVE  /\ Grouped(gs, p) \in Seq(Group) /\ Grouped(gs, p) # <<>>
         /\ SumOf(Extents(Grouped(gs, p))) = SumOf(Extents(gs)) + p.length
         /\ SumOf(Angles(Grouped(gs, p))) = SumOf(Angles(gs)) + p.angle
<1>1. CASE Grouped(gs, p) = Append(gs, p)
  <2>1. Append(gs, p) \in Seq(Group) /\ Append(gs, p) # <<>>
    BY AppendProperties
  <2>2. /\ Extents(gs) \in Seq(Int) /\ Angles(gs) \in Seq(Int) /\ p.length \in Int /\ p.angle \in Int
        /\ Extents(Append(gs, p)) = Append(Extents(gs), p.length)
        /\ Angles(Append(gs, p)) = Append(Angles(gs), p.angle)
    BY GroupNumbers
  <2>3. /\ SumOf(Append(Extents(gs), p.length)) = SumOf(Extents(gs)) + p.length
        /\ SumOf(Append(Angles(gs), p.angle)) = SumOf(Angles(gs)) + p.angle
    BY <2>2, SumAppend
  <2>4. QED
    BY <1>1, <2>1, <2>2, <2>3
<1>2. CASE gs # <<>> /\ Grouped(gs, p) = Append(Front(gs), [length |-> Last(gs).length + p.length,
                                                          angle  |-> Last(gs).angle + p.angle])
  <2> DEFINE front == Front(gs)
             last == Last(gs)
             both == [length |-> last.length + p.length, angle |-> last.angle + p.angle]
  <2>1. front \in Seq(Group) /\ last \in Group /\ gs = Append(front, last)
    <3>1. Len(gs) \in Nat \ {0}
      BY <1>2
    <3>2. front \in Seq(Group) /\ Len(front) = Len(gs) - 1 /\ \A i \in 1..(Len(gs) - 1) : front[i] = gs[i]
      <4>1. \A i \in 1..(Len(gs) - 1) : gs[i] \in Group
        BY <3>1
      <4>2. front = SubSeq(gs, 1, Len(gs) - 1)
        BY DEF Front
      <4>3. SubSeq(gs, 1, Len(gs) - 1) = [i \in 1..(Len(gs) - 1) |-> gs[i]]
        BY <3>1
      <4> HIDE DEF front
      <4>4. front = [i \in 1..(Len(gs) - 1) |-> gs[i]] /\ Len(gs) - 1 \in Nat
        BY <3>1, <4>2, <4>3
      <4>5. front \in Seq(Group)
        BY <4>1, <4>4
      <4>6. QED
        BY <4>4, <4>5
    <3>3. last \in Group /\ last = gs[Len(gs)]
      BY <3>1 DEF Last
    <3> HIDE DEF front, last
    <3>4. QED
      BY <3>1, <3>2, <3>3
  <2> HIDE DEF front, last
  <2>2. both \in Group /\ both.length = last.length + p.length /\ both.angle = last.angle + p.angle
    BY <2>1 DEF Group
  <2> HIDE DEF both
  <2>3. Grouped(gs, p) = Append(front, both)
    BY <1>2 DEF front, last, both
  <2>4. /\ Extents(front) \in Seq(Int) /\ Angles(front) \in Seq(Int)
        /\ Extents(gs) = Append(Extents(front), last.length) /\ last.length \in Int
        /\ Angles(gs) = Append(Angles(front), last.angle) /\ last.angle \in Int
    BY <2>1, GroupNumbers
  <2>5. /\ Extents(Append(front, both)) = Append(Extents(front), both.length) /\ both.length \in Int
        /\ Angles(Append(front, both)) = Append(Angles(front), both.angle) /\ both.angle \in Int
    BY <2>1, <2>2, GroupNumbers
  <2>6. p.length \in Int /\ p.angle \in Int
    BY DEF Group
  <2>7. /\ SumOf(Extents(gs)) = SumOf(Extents(front)) + last.length
        /\ SumOf(Angles(gs)) = SumOf(Angles(front)) + last.angle
        /\ SumOf(Extents(Append(front, both))) = SumOf(Extents(front)) + both.length
        /\ SumOf(Angles(Append(front, both))) = SumOf(Angles(front)) + both.angle
        /\ SumOf(Extents(front)) \in Int /\ SumOf(Angles(front)) \in Int
    BY <2>4, <2>5, SumAppend
  <2>8. Append(front, both) \in Seq(Group) /\ Append(front, both) # <<>>
    BY <2>1, <2>2, AppendProperties
  <2>9. SumOf(Extents(Append(front, both))) = SumOf(Extents(gs)) + p.length
    BY <2>2, <2>4, <2>6, <2>7
  <2>10. SumOf(Angles(Append(front, both))) = SumOf(Angles(gs)) + p.angle
    BY <2>2, <2>4, <2>6, <2>7
  <2>11. QED
    BY <2>3, <2>8, <2>9, <2>10
<1>3. QED
  BY <1>1, <1>2 DEF Grouped

\* Pieces are grouped one after the other.
LEMMA GroupRuns ==
  ASSUME NEW ps \in Seq(Group)
  PROVE  \E after \in [0..Len(ps) -> Seq(Group)] :
           /\ after[0] = <<>>
           /\ \A i \in 1..Len(ps) : after[i] = Grouped(after[i - 1], ps[i])
           /\ Loop(Grouped, <<>>, ps) = after[Len(ps)]
<1> DEFINE N == Len(ps)
           rule == [p \in (1..N) \X Seq(Group) |-> Grouped(p[2], ps[p[1]])]
           Runs(a) == a = [i \in 0..N |-> IF i = 0 THEN <<>> ELSE Grouped(a[i - 1], ps[i])]
           b == CHOOSE a : Runs(a)
<1>1. N \in Nat /\ \A i \in 1..N : ps[i] \in Group
  OBVIOUS
<1>2. \A i \in 1..N, v \in Seq(Group) : Grouped(v, ps[i]) \in Seq(Group)
  BY <1>1, GroupedKeeps
<1>3. /\ rule \in [(1..N) \X Seq(Group) -> Seq(Group)]
      /\ \A i \in 1..N, v \in Seq(Group) : rule[<<i, v>>] = Grouped(v, ps[i])
  BY <1>2
<1> HIDE DEF rule
<1>4. <<>> \in Seq(Group)
  OBVIOUS
<1>5. Recurses(Seq(Group), <<>>, N, rule)
  BY <1>1, <1>3, <1>4, Recursion, ZenonT(60)
<1>6. PICK a \in [0..N -> Seq(Group)] : a[0] = <<>> /\ \A i \in 1..N : a[i] = rule[<<i, a[i - 1]>>]
  BY <1>5 DEF Recurses
<1>7. \A i \in 1..N : a[i] = Grouped(a[i - 1], ps[i])
  <2>1. \A i \in 1..N : i - 1 \in 0..N
    BY <1>1
  <2>2. \A i \in 1..N : a[i - 1] \in Seq(Group)
    BY <1>6, <2>1
  <2>3. QED
    BY <1>3, <1>6, <2>2
<1>8. \E g : Runs(g)
  <2>1. \A i \in 0..N : a[i] = IF i = 0 THEN <<>> ELSE Grouped(a[i - 1], ps[i])
    BY <1>1, <1>6, <1>7
  <2>2. Runs(a)
    BY <1>6, <2>1
  <2> HIDE DEF Runs
  <2>3. QED
    BY <2>2
<1>9. Runs(b)
  <2> HIDE DEF Runs
  <2>1. QED
    BY <1>8, Zenon
<1>10. Loop(Grouped, <<>>, ps) = b[N]
  BY DEF Loop
<1> HIDE DEF b
<1>11. /\ DOMAIN b = 0..N /\ b = [i \in 0..N |-> b[i]] /\ b[0] = <<>>
       /\ \A i \in 1..N : b[i] = Grouped(b[i - 1], ps[i])
  <2>1. DOMAIN b = 0..N /\ b = [i \in 0..N |-> b[i]]
    BY <1>9
  <2>2. \A i \in 0..N : b[i] = IF i = 0 THEN <<>> ELSE Grouped(b[i - 1], ps[i])
    BY <1>9
  <2>3. b[0] = <<>>
    BY <1>1, <2>2
  <2>4. ASSUME NEW i \in 1..N PROVE b[i] = Grouped(b[i - 1], ps[i])
    BY <1>1, <2>2
  <2>5. QED
    BY <2>1, <2>3, <2>4
<1>12. b \in [0..N -> Seq(Group)]
  <2>1. \A i \in 1..N : b[i - 1] \in Seq(Group) => b[i] \in Seq(Group)
    BY <1>2, <1>11
  <2>2. QED
    BY <1>1, <1>4, <1>11, <2>1, RecursionTyping
<1>13. QED
  BY <1>10, <1>11, <1>12

\* Grouping keeps the length and the angle of the whole.
LEMMA GroupingKeeps ==
  ASSUME NEW ps \in Seq(Group)
  PROVE  /\ Loop(Grouped, <<>>, ps) \in Seq(Group)
         /\ ps # <<>> => Loop(Grouped, <<>>, ps) # <<>>
         /\ SumOf(Extents(Loop(Grouped, <<>>, ps))) = SumOf(Extents(ps))
         /\ SumOf(Angles(Loop(Grouped, <<>>, ps))) = SumOf(Angles(ps))
<1> DEFINE n == Len(ps)
<1>1. PICK after \in [0..n -> Seq(Group)] :
        /\ after[0] = <<>>
        /\ \A i \in 1..n : after[i] = Grouped(after[i - 1], ps[i])
        /\ Loop(Grouped, <<>>, ps) = after[n]
  BY GroupRuns
<1> DEFINE r == [i \in 0..n |-> SumOf(Extents(after[i]))]
           a == [i \in 0..n |-> SumOf(Angles(after[i]))]
<1>2. n \in Nat /\ \A i \in 1..n : ps[i] \in Group /\ i - 1 \in 0..n /\ after[i - 1] \in Seq(Group)
  BY <1>1
<1>3. ASSUME NEW i \in 1..n
      PROVE  /\ after[i] # <<>>
             /\ SumOf(Extents(after[i])) = SumOf(Extents(after[i - 1])) + ps[i].length
             /\ SumOf(Angles(after[i])) = SumOf(Angles(after[i - 1])) + ps[i].angle
  <2>1. after[i] = Grouped(after[i - 1], ps[i]) /\ after[i - 1] \in Seq(Group) /\ ps[i] \in Group
    BY <1>1, <1>2
  <2>2. QED
    BY <2>1, GroupedKeeps
<1>4. \A i \in 0..n : SumOf(Extents(after[i])) \in Int /\ SumOf(Angles(after[i])) \in Int
  <2>1. \A gs \in Seq(Group) : Extents(gs) \in Seq(Int) /\ Angles(gs) \in Seq(Int)
    BY GroupTyping
  <2>2. \A ns \in Seq(Int) : SumOf(ns) \in Int
    BY SumRunning
  <2>3. \A i \in 0..n : after[i] \in Seq(Group)
    BY <1>1
  <2>4. QED
    BY <2>1, <2>2, <2>3
<1>5. Extents(ps) \in Seq(Int) /\ Angles(ps) \in Seq(Int) /\ Len(Extents(ps)) = n /\ Len(Angles(ps)) = n
      /\ \A i \in 1..n : Extents(ps)[i] = ps[i].length /\ Angles(ps)[i] = ps[i].angle
  BY GroupTyping
<1>6. Extents(<<>>) = <<>> /\ Angles(<<>>) = <<>>
  BY DEF Extents, Angles
<1>7. after[0] = <<>> /\ SumOf(<<>>) = 0
  <2>1. <<>> \in Seq(Int)
    OBVIOUS
  <2>2. QED
    BY <1>1, <2>1, SumAppend
<1>8. RunningSum(Extents(ps), r) /\ RunningSum(Angles(ps), a)
  <2>1. r \in [0..n -> Int] /\ a \in [0..n -> Int]
    BY <1>4
  <2>2. r[0] = 0 /\ a[0] = 0
    BY <1>2, <1>6, <1>7
  <2>3. ASSUME NEW i \in 1..n
        PROVE  r[i] = r[i - 1] + Extents(ps)[i] /\ a[i] = a[i - 1] + Angles(ps)[i]
    <3>1. i \in 0..n /\ i - 1 \in 0..n
      BY <1>2
    <3>2. /\ r[i] = SumOf(Extents(after[i])) /\ r[i - 1] = SumOf(Extents(after[i - 1]))
          /\ a[i] = SumOf(Angles(after[i])) /\ a[i - 1] = SumOf(Angles(after[i - 1]))
      BY <3>1
    <3>3. QED
      BY <1>3, <1>5, <3>2
  <2> HIDE DEF r, a
  <2>4. QED
    BY <1>5, <2>1, <2>2, <2>3 DEF RunningSum
<1>9. SumOf(Extents(ps)) = r[n] /\ SumOf(Angles(ps)) = a[n]
  <2> HIDE DEF r, a
  <2>1. QED
    BY <1>5, <1>8, SumIs
<1>10. ps # <<>> => n \in 1..n
  BY <1>2
<1>11. QED
  BY <1>1, <1>2, <1>3, <1>9, <1>10

-----------------------------------------------------------------------------
(* moves and the ends of segments *)

\* The moves of a leg.
LegMoves == {Straight(v, 1) : v \in Directions}
            \cup {Arc(v, w, r, 1) : v \in Directions, w \in Directions, r \in Bends}

\* Quarter turns.
LEMMA Quarters ==
  /\ Cos(0) = 1 /\ Sin(0) = 0 /\ Cos(1) = 0 /\ Sin(1) = 1
  /\ Cos(2) = -1 /\ Sin(2) = 0 /\ Cos(3) = 0 /\ Sin(3) = -1
BY DEF Cos, Sin

\* What a pose and a segment consist of.
LEMMA PoseFields ==
  ASSUME NEW q \in Poses
  PROVE  q.x \in Int /\ q.y \in Int /\ q.h \in {0, 1, 2, 3} /\ q = [x |-> q.x, y |-> q.y, h |-> q.h]
BY DEF Poses, Headings

\* The ends of the two kinds of segments.
LEMMA StraightEnds ==
  ASSUME NEW q \in Poses, NEW d \in Directions, NEW n \in Nat
  PROVE  End(q, Straight(d, n)) = [x |-> q.x + d * n * Cos(q.h), y |-> q.y + d * n * Sin(q.h), h |-> q.h]
<1> DEFINE p == Straight(d, n)
<1>1. p.angle = 0 /\ p.direction = d /\ p.length = n
  BY DEF Straight
<1> HIDE DEF p
<1> DEFINE a == q.x + d * n * Cos(q.h)
           b == q.y + d * n * Sin(q.h)
<1>2. End(q, p) = [q EXCEPT !.x = a, !.y = b]
  BY <1>1 DEF End, StraightEnd
<1> HIDE DEF a, b
<1>3. End(q, p) = [x |-> a, y |-> b, h |-> q.h]
  BY <1>2, PoseFields
<1>4. QED
  BY <1>3 DEF p, a, b

\* An arc of radius r.
LEMMA ArcEnds ==
  ASSUME NEW q, NEW p \in Prims, p.angle # 0, NEW r, r = p.length \div p.angle,
         NEW h, h = (q.h + p.direction * p.turn * p.angle) % 4
  PROVE  End(q, p) = [x |-> q.x - p.turn * r * Sin(q.h) + p.turn * r * Sin(h),
                      y |-> q.y + p.turn * r * Cos(q.h) - p.turn * r * Cos(h), h |-> h]
BY DEF End, ArcEnd, DYaw

\* The moves are segments.
LEMMA Moves ==
  /\ LegMoves \subseteq Prims /\ ParkMoves \subseteq Prims
  /\ \A p \in LegMoves : p.length # 0
<1>1. \A v \in Directions, n \in Nat : Straight(v, n) \in Prims /\ Straight(v, n).length = n
  BY DEF Straight, Prims, Turns, Directions
<1>2. ASSUME NEW v \in Directions, NEW w \in Directions, NEW r \in Bends, NEW a \in {1, 2}
      PROVE  Arc(v, w, r, a) \in Prims /\ Arc(v, w, r, a).length # 0
  <2>1. r \in Nat \ {0} /\ r * a \in Nat \ {0} /\ a \in Nat
    BY RetraceAssumption
  <2>2. QED
    BY <2>1 DEF Arc, Prims, Turns, Directions
<1>3. QED
  BY <1>1, <1>2 DEF LegMoves, ParkMoves, Directions

\* A piece of the trail is the move that led from one pose to the other.
LEMMA PieceIs ==
  ASSUME NEW q \in Poses, NEW p \in LegMoves
  PROVE  Piece(q, End(q, p)) = [length |-> p.length, angle |-> DYaw(p)]
<1>0. q.x \in Int /\ q.y \in Int /\ q.h \in {0, 1, 2, 3}
  BY PoseFields
<1>1. ASSUME NEW v \in Directions, p = Straight(v, 1)
      PROVE  Piece(q, End(q, p)) = [length |-> p.length, angle |-> DYaw(p)]
  <2>1. End(q, p) = [x |-> q.x + v * Cos(q.h), y |-> q.y + v * Sin(q.h), h |-> q.h]
    <3>1. 1 \in Nat /\ v * 1 = v
      BY DEF Directions
    <3>2. QED
      BY <1>1, <3>1, StraightEnds
  <2>2. p.length = 1 /\ DYaw(p) = 0
    BY <1>1 DEF Straight, DYaw, Directions
  <2>3. ((q.h - q.h + 1) % 4) - 1 = 0
    BY <1>0
  <2>4. (IF Absolute(v * Cos(q.h)) >= Absolute(v * Sin(q.h)) THEN Absolute(v * Cos(q.h))
                                                             ELSE Absolute(v * Sin(q.h))) = 1
    BY <1>0, Quarters DEF Absolute, Directions
  <2>5. v * Cos(q.h) \in Int /\ v * Sin(q.h) \in Int
    BY <1>0, Quarters DEF Directions
  <2>6. \A a, b \in Int : (a + b) - a = b
    OBVIOUS
  <2>7. QED
    BY <1>0, <2>1, <2>2, <2>3, <2>4, <2>5, <2>6 DEF Piece
<1>2. ASSUME NEW v \in Directions, NEW w \in Directions, NEW r \in Bends, p = Arc(v, w, r, 1)
      PROVE  Piece(q, End(q, p)) = [length |-> p.length, angle |-> DYaw(p)]
  <2>1. r \in Nat \ {0} /\ r * 1 = r /\ r \div 1 = r
    BY RetraceAssumption
  <2>2. p.length = r /\ p.angle = 1 /\ p.turn = w /\ p.direction = v /\ DYaw(p) = v * w /\ v * w \in {-1, 1}
        /\ v * w * 1 = v * w
    BY <1>2, <2>1 DEF Arc, DYaw, Directions
  <2> DEFINE h == (q.h + v * w) % 4
             dx == w * r * Sin(h) - w * r * Sin(q.h)
             dy == w * r * Cos(q.h) - w * r * Cos(h)
  <2>3. h \in {0, 1, 2, 3} /\ ((h - q.h + 1) % 4) - 1 = v * w
    BY <1>0, <2>2
  <2>4. /\ dx \in Int /\ dy \in Int
        /\ (IF Absolute(dx) >= Absolute(dy) THEN Absolute(dx) ELSE Absolute(dy)) = r
    <3>1. w * r = r \/ w * r = -r
      BY <2>1 DEF Directions
    <3>2. q.h # h /\ (q.h + h) % 2 = 1
      BY <1>0, <2>2
    <3> DEFINE k == w * r
    <3>3. k \in Int /\ Absolute(k) = r /\ Absolute(-k) = r
      BY <2>1, <3>1 DEF Absolute
    <3> HIDE DEF k, h
    <3>4. k * 0 = 0 /\ k * 1 = k /\ k * (-1) = -k
      BY <3>3
    <3>5. dx = k * Sin(h) - k * Sin(q.h) /\ dy = k * Cos(q.h) - k * Cos(h)
      BY DEF k
    <3> HIDE DEF dx, dy
    <3>6. dx \in {k, -k} /\ dy \in {k, -k}
      <4>1. (q.h \in {0, 2} /\ h \in {1, 3}) \/ (q.h \in {1, 3} /\ h \in {0, 2})
        BY <1>0, <2>3, <3>2
      <4>2. ASSUME NEW g \in {0, 2}
            PROVE  k * Sin(g) = 0 /\ k * Cos(g) \in {k, -k}
        BY <3>4, Quarters
      <4>3. ASSUME NEW g \in {1, 3}
            PROVE  k * Cos(g) = 0 /\ k * Sin(g) \in {k, -k}
        BY <3>4, Quarters
      <4>4. QED
        BY <3>3, <3>5, <4>1, <4>2, <4>3
    <3>7. QED
      BY <3>3, <3>6
  <2>5. End(q, p) = [x |-> q.x - w * r * Sin(q.h) + w * r * Sin(h),
                     y |-> q.y + w * r * Cos(q.h) - w * r * Cos(h), h |-> h]
    <3>1. p \in Prims /\ r = p.length \div p.angle /\ h = (q.h + p.direction * p.turn * p.angle) % 4
      BY <2>1, <2>2, Moves
    <3> HIDE DEF h
    <3>2. QED
      BY <2>2, <3>1, ArcEnds
  <2>6. End(q, p).x - q.x = dx /\ End(q, p).y - q.y = dy /\ End(q, p).h = h
    <3>1. \A a, b, c \in Int : (a - b + c) - a = c - b /\ (a + b - c) - a = b - c
      OBVIOUS
    <3>2. /\ w * r * Sin(q.h) \in Int /\ w * r * Sin(h) \in Int
          /\ w * r * Cos(q.h) \in Int /\ w * r * Cos(h) \in Int
      <4>1. w * r \in Int
        BY <2>1 DEF Directions
      <4> HIDE DEF h
      <4>2. QED
        BY <1>0, <2>3, <4>1, Quarters
    <3> HIDE DEF h
    <3>3. QED
      BY <1>0, <2>5, <3>1, <3>2
  <2> HIDE DEF h, dx, dy
  <2>7. QED
    BY <2>2, <2>3, <2>4, <2>6 DEF Piece
<1>3. QED
  BY <1>1, <1>2 DEF LegMoves

\* A segment driven the other way.
Reversed(p) == [p EXCEPT !.direction = -@]

\* Remainders of sums.
LEMMA Wrapped ==
  /\ \A a \in Int : a % 4 \in {0, 1, 2, 3}
  /\ \A a, b \in Int : ((a % 4) + b) % 4 = (a + b) % 4
  /\ \A a \in {0, 1, 2, 3} : a % 4 = a
OBVIOUS

\* What a segment consists of.
LEMMA PrimFields ==
  ASSUME NEW p \in Prims
  PROVE  /\ p.length \in Nat /\ p.angle \in Nat /\ p.turn \in {-1, 0, 1} /\ p.direction \in {-1, 1}
         /\ p.direction * p.turn * p.angle \in Int
         /\ p.angle # 0 => p.length \div p.angle \in Int
         /\ Reversed(p) \in Prims
         /\ Reversed(p).length = p.length /\ Reversed(p).angle = p.angle /\ Reversed(p).turn = p.turn
         /\ Reversed(p).direction = -p.direction
<1>1. /\ p.length \in Nat /\ p.angle \in Nat /\ p.turn \in {-1, 0, 1} /\ p.direction \in {-1, 1}
  BY DEF Prims, Turns, Directions
<1>2. p.direction * p.turn \in {-1, 0, 1}
  BY <1>1
<1>3. p.direction * p.turn * p.angle \in Int
  BY <1>1, <1>2
<1>4. Reversed(p) = [length |-> p.length, turn |-> p.turn, direction |-> -p.direction, angle |-> p.angle]
  BY DEF Reversed, Prims
<1>5. -p.direction \in Directions
  BY <1>1 DEF Directions
<1>6. p.angle # 0 => p.length \div p.angle \in Int
  BY <1>1
<1>7. QED
  BY <1>1, <1>3, <1>4, <1>5, <1>6 DEF Prims, Turns

\* Sines and cosines are whole numbers.
LEMMA AxesAreWhole == \A h \in {0, 1, 2, 3} : Cos(h) \in Int /\ Sin(h) \in Int
BY Quarters

\* Driven back, a segment ends where it began: the car has come that way.
LEMMA Undone ==
  ASSUME NEW q \in Poses, NEW p \in Prims
  PROVE  End(End(q, p), Reversed(p)) = q
<1> DEFINE b == Reversed(p)
           e == End(q, p)
<1>1. /\ p.length \in Nat /\ p.angle \in Nat /\ p.turn \in Int /\ p.direction \in {-1, 1}
      /\ b \in Prims /\ b.length = p.length /\ b.angle = p.angle /\ b.turn = p.turn
      /\ b.direction = -p.direction
  BY PrimFields
<1>2. q.x \in Int /\ q.y \in Int /\ q.h \in {0, 1, 2, 3} /\ q = [x |-> q.x, y |-> q.y, h |-> q.h]
  BY PoseFields
<1>3. e \in Poses
  BY EndTyping
<1> HIDE DEF b
<1>4. CASE p.angle = 0
  <2> DEFINE c == p.direction * p.length * Cos(q.h)
             s == p.direction * p.length * Sin(q.h)
  <2>1. e = [q EXCEPT !.x = q.x + c, !.y = q.y + s]
    BY <1>4 DEF End, StraightEnd
  <2>2. End(e, b) = [e EXCEPT !.x = e.x + b.direction * b.length * Cos(e.h),
                              !.y = e.y + b.direction * b.length * Sin(e.h)]
    BY <1>1, <1>4 DEF End, StraightEnd
  <2>3. b.direction * b.length * Cos(q.h) = -c /\ b.direction * b.length * Sin(q.h) = -s
        /\ c \in Int /\ s \in Int
    BY <1>1, <1>2, AxesAreWhole
  <2> HIDE DEF c, s, e
  <2>4. e.x = q.x + c /\ e.y = q.y + s /\ e.h = q.h /\ e = [x |-> q.x + c, y |-> q.y + s, h |-> q.h]
    BY <1>2, <2>1
  <2>5. (q.x + c) + (-c) = q.x /\ (q.y + s) + (-s) = q.y
    BY <1>2, <2>3
  <2>6. End(e, b) = [x |-> q.x, y |-> q.y, h |-> q.h]
    BY <2>2, <2>3, <2>4, <2>5
  <2>7. QED
    BY <1>2, <2>6 DEF b, e
<1>5. CASE p.angle # 0
  <2> DEFINE r == p.length \div p.angle
             d == p.direction * p.turn * p.angle
             h == (q.h + d) % 4
             S == p.turn * r * Sin(q.h)
             T == p.turn * r * Sin(h)
             C == p.turn * r * Cos(q.h)
             D == p.turn * r * Cos(h)
  <2>1. d \in Int /\ r \in Int /\ b.direction * b.turn * b.angle = -d
    <3>1. d \in Int /\ r \in Int
      BY <1>5, PrimFields
    <3>2. QED
      BY <1>1, <3>1
  <2>2. h \in {0, 1, 2, 3} /\ (h + (-d)) % 4 = q.h
    <3>1. q.h + d \in Int /\ -d \in Int /\ (q.h + d) + (-d) = q.h
      BY <1>2, <2>1
    <3> HIDE DEF d
    <3>2. QED
      BY <1>2, <3>1, Wrapped
  <2>3. S \in Int /\ T \in Int /\ C \in Int /\ D \in Int
    <3>1. p.turn * r \in Int
      BY <1>1, <2>1
    <3> HIDE DEF h
    <3>2. Sin(q.h) \in Int /\ Cos(q.h) \in Int /\ Sin(h) \in Int /\ Cos(h) \in Int
      BY <1>2, <2>2, AxesAreWhole
    <3>3. QED
      BY <3>1, <3>2
  <2>4. e = [x |-> q.x - S + T, y |-> q.y + C - D, h |-> h]
    <3> HIDE DEF r, h
    <3>1. r = p.length \div p.angle /\ h = (q.h + p.direction * p.turn * p.angle) % 4
      BY DEF r, h
    <3>2. QED
      BY <1>5, <3>1, ArcEnds
  <2> HIDE DEF e
  <2>5. End(e, b) = [x |-> e.x - T + S, y |-> e.y + D - C, h |-> q.h]
    <3>1. r = b.length \div b.angle /\ q.h = (e.h + b.direction * b.turn * b.angle) % 4
          /\ b.angle # 0 /\ e.h = h
      BY <1>1, <1>5, <2>1, <2>2, <2>4
    <3> HIDE DEF r, h
    <3>2. QED
      BY <1>1, <3>1, ArcEnds
  <2> HIDE DEF r, d, h, S, T, C, D
  <2>6. (q.x - S + T) - T + S = q.x /\ (q.y + C - D) + D - C = q.y
    BY <1>2, <2>3
  <2>7. End(e, b) = [x |-> q.x, y |-> q.y, h |-> q.h]
    BY <2>4, <2>5, <2>6
  <2>8. QED
    BY <1>2, <2>7 DEF b, e
<1>6. QED
  BY <1>4, <1>5

\* The slot's frame turns a displacement by the slot's heading.
LEMMA Frames ==
  ASSUME NEW q \in Poses, NEW s \in Poses
  PROVE  /\ ToSlot(q, s) \in Poses
         /\ FromSlot(ToSlot(q, s), s) = q
<1>1. /\ q.x \in Int /\ q.y \in Int /\ q.h \in {0, 1, 2, 3} /\ q = [x |-> q.x, y |-> q.y, h |-> q.h]
      /\ s.x \in Int /\ s.y \in Int /\ s.h \in {0, 1, 2, 3}
  BY PoseFields
<1> DEFINE a == Cos(s.h) * (q.x - s.x) + Sin(s.h) * (q.y - s.y)
           b == Cos(s.h) * (q.y - s.y) - Sin(s.h) * (q.x - s.x)
           h == (q.h - s.h) % 4
<1>2. ToSlot(q, s) = [x |-> a, y |-> b, h |-> h]
  BY DEF ToSlot
<1>3. a \in Int /\ b \in Int /\ h \in 0..3
  BY <1>1, AxesAreWhole
<1>4. (h + s.h) % 4 = q.h
  BY <1>1
<1>5. s.x + Cos(s.h) * a - Sin(s.h) * b = q.x /\ s.y + Sin(s.h) * a + Cos(s.h) * b = q.y
  BY <1>1, Quarters
<1> HIDE DEF a, b, h
<1>6. FromSlot(ToSlot(q, s), s) = [x |-> q.x, y |-> q.y, h |-> q.h]
  BY <1>2, <1>4, <1>5 DEF FromSlot
<1>7. QED
  BY <1>1, <1>2, <1>3, <1>6 DEF Poses, Headings

\* What a displacement on the map is along the axes of a frame with heading g.
AlongAxis(g, a, b) == Cos(g) * a + Sin(g) * b
\* And across them.
AcrossAxis(g, a, b) == Cos(g) * b - Sin(g) * a

\* The axes do not depend on how far one goes, nor on the way.
Scales(g, k, a, b) ==
  k * AlongAxis(g, a, b) = AlongAxis(g, k * a, k * b) /\ k * AcrossAxis(g, a, b) = AcrossAxis(g, k * a, k * b)
\* The axes add up.
Adds(g, x, y, u, v) ==
  /\ AlongAxis(g, x + u, y + v) = AlongAxis(g, x, y) + AlongAxis(g, u, v)
  /\ AcrossAxis(g, x + u, y + v) = AcrossAxis(g, x, y) + AcrossAxis(g, u, v)

\* Scaled before or after it is turned, a displacement is the same.
LEMMA Linear ==
  ASSUME NEW g \in {0, 1, 2, 3}, NEW k \in Int, NEW a \in Int, NEW b \in Int
  PROVE  Scales(g, k, a, b)
<1>1. k * a \in Int /\ k * b \in Int /\ k * (-a) = -(k * a) /\ k * (-b) = -(k * b)
  OBVIOUS
<1>2. CASE g = 0
  BY <1>1, <1>2, Quarters DEF Scales, AlongAxis, AcrossAxis
<1>3. CASE g = 1
  BY <1>1, <1>3, Quarters DEF Scales, AlongAxis, AcrossAxis
<1>4. CASE g = 2
  BY <1>1, <1>4, Quarters DEF Scales, AlongAxis, AcrossAxis
<1>5. CASE g = 3
  BY <1>1, <1>5, Quarters DEF Scales, AlongAxis, AcrossAxis
<1>6. QED
  BY <1>2, <1>3, <1>4, <1>5

\* Two displacements add up on the axes.
LEMMA Additive ==
  ASSUME NEW g \in {0, 1, 2, 3}, NEW x \in Int, NEW y \in Int, NEW u \in Int, NEW v \in Int
  PROVE  Adds(g, x, y, u, v)
BY Quarters DEF Adds, AlongAxis, AcrossAxis

\* The axes turned by a heading.
TurnsInto(a, g) ==
  /\ Cos((a - g) % 4) = AlongAxis(g, Cos(a), Sin(a))
  /\ Sin((a - g) % 4) = AcrossAxis(g, Cos(a), Sin(a))

\* The difference of two headings, as the axes see it.
LEMMA Turning ==
  ASSUME NEW a \in {0, 1, 2, 3}, NEW g \in {0, 1, 2, 3}
  PROVE  TurnsInto(a, g)
<1>1. CASE g = 0
  BY <1>1, Quarters DEF TurnsInto, AlongAxis, AcrossAxis
<1>2. CASE g = 1
  BY <1>2, Quarters DEF TurnsInto, AlongAxis, AcrossAxis
<1>3. CASE g = 2
  BY <1>3, Quarters DEF TurnsInto, AlongAxis, AcrossAxis
<1>4. CASE g = 3
  BY <1>4, Quarters DEF TurnsInto, AlongAxis, AcrossAxis
<1>5. QED
  BY <1>1, <1>2, <1>3, <1>4

\* Displaced on the map, displaced in the slot's frame.
Displaces(q, s, u, v, h) ==
  ToSlot([x |-> q.x + u, y |-> q.y + v, h |-> h], s)
    = [x |-> ToSlot(q, s).x + AlongAxis(s.h, u, v), y |-> ToSlot(q, s).y + AcrossAxis(s.h, u, v),
       h |-> (h - s.h) % 4]

\* ToSlot() turns a displacement and shifts none.
LEMMA Displaced ==
  ASSUME NEW q \in Poses, NEW s \in Poses, NEW u \in Int, NEW v \in Int, NEW h
  PROVE  Displaces(q, s, u, v, h)
<1>1. q.x \in Int /\ q.y \in Int /\ s.x \in Int /\ s.y \in Int /\ s.h \in {0, 1, 2, 3}
  BY PoseFields
<1> DEFINE a == q.x - s.x
           b == q.y - s.y
           g == s.h
<1>2. a \in Int /\ b \in Int /\ (q.x + u) - s.x = a + u /\ (q.y + v) - s.y = b + v
  BY <1>1
<1>3. ToSlot(q, s).x = AlongAxis(g, a, b) /\ ToSlot(q, s).y = AcrossAxis(g, a, b)
  BY DEF ToSlot, AlongAxis, AcrossAxis
<1>4. ToSlot([x |-> q.x + u, y |-> q.y + v, h |-> h], s)
        = [x |-> AlongAxis(g, a + u, b + v), y |-> AcrossAxis(g, a + u, b + v), h |-> (h - g) % 4]
  BY <1>2 DEF ToSlot, AlongAxis, AcrossAxis
<1>5. g \in {0, 1, 2, 3}
  BY <1>1
<1> HIDE DEF a, b, g
<1>6. Adds(g, a, b, u, v)
  BY <1>2, <1>5, Additive, Zenon
<1>7. AlongAxis(g, a + u, b + v) = AlongAxis(g, a, b) + AlongAxis(g, u, v)
      /\ AcrossAxis(g, a + u, b + v) = AcrossAxis(g, a, b) + AcrossAxis(g, u, v)
  BY <1>6 DEF Adds
<1>8. ToSlot([x |-> q.x + u, y |-> q.y + v, h |-> h], s)
    = [x |-> ToSlot(q, s).x + AlongAxis(g, u, v), y |-> ToSlot(q, s).y + AcrossAxis(g, u, v),
       h |-> (h - g) % 4]
  BY <1>3, <1>4, <1>7, Zenon
<1>9. QED
  BY <1>8 DEF Displaces, g

\* What a segment does in the slot's frame it does on the map: _to_slot_frame() and
\* integrate() commute.
LEMMA FramesMove ==
  ASSUME NEW q \in Poses, NEW s \in Poses, NEW p \in Prims
  PROVE  End(ToSlot(q, s), p) = ToSlot(End(q, p), s)
<1> DEFINE f == ToSlot(q, s)
           g == s.h
<1>1. /\ q.x \in Int /\ q.y \in Int /\ q.h \in {0, 1, 2, 3} /\ g \in {0, 1, 2, 3}
      /\ f \in Poses /\ f.x \in Int /\ f.y \in Int /\ f.h \in {0, 1, 2, 3}
      /\ f = [x |-> f.x, y |-> f.y, h |-> f.h]
  <2>1. f \in Poses
    BY Frames
  <2> HIDE DEF f
  <2>2. QED
    BY <2>1, PoseFields
<1>2. f.h = (q.h - g) % 4
  BY DEF ToSlot
<1>3. /\ p.length \in Nat /\ p.angle \in Nat /\ p.turn \in Int /\ p.direction \in Int
  BY PrimFields
<1> HIDE DEF f, g
<1>4. CASE p.angle = 0
  <2> DEFINE k == p.direction * p.length
  <2>1. k \in Int
    BY <1>3
  <2>2. /\ End(f, p) = [f EXCEPT !.x = f.x + k * Cos(f.h), !.y = f.y + k * Sin(f.h)]
        /\ End(q, p) = [q EXCEPT !.x = q.x + k * Cos(q.h), !.y = q.y + k * Sin(q.h)]
    BY <1>4 DEF End, StraightEnd
  <2> HIDE DEF k
  <2> DEFINE u == k * Cos(q.h)
             v == k * Sin(q.h)
  <2>3. u \in Int /\ v \in Int
    BY <1>1, <2>1, AxesAreWhole
  <2>4. k * Cos(f.h) = AlongAxis(g, u, v) /\ k * Sin(f.h) = AcrossAxis(g, u, v)
    <3>0. TurnsInto(q.h, g)
      BY <1>1, Turning, Zenon
    <3>1. Cos(f.h) = AlongAxis(g, Cos(q.h), Sin(q.h)) /\ Sin(f.h) = AcrossAxis(g, Cos(q.h), Sin(q.h))
      BY <1>2, <3>0, Zenon DEF TurnsInto
    <3>2. Cos(q.h) \in Int /\ Sin(q.h) \in Int
      BY <1>1, AxesAreWhole
    <3>3. Scales(g, k, Cos(q.h), Sin(q.h))
      BY <1>1, <2>1, <3>2, Linear, Zenon
    <3>4. QED
      BY <3>1, <3>3, Zenon DEF u, v, Scales
  <2>5. End(q, p) = [x |-> q.x + u, y |-> q.y + v, h |-> q.h]
    <3>1. End(q, p) = [q EXCEPT !.x = q.x + u, !.y = q.y + v]
      BY <2>2
    <3> HIDE DEF u, v
    <3>2. QED
      BY <3>1, PoseFields
  <2>6. End(f, p) = [x |-> f.x + AlongAxis(g, u, v), y |-> f.y + AcrossAxis(g, u, v), h |-> f.h]
    <3> DEFINE uu == AlongAxis(g, u, v)
               vv == AcrossAxis(g, u, v)
    <3>1. End(f, p) = [f EXCEPT !.x = f.x + uu, !.y = f.y + vv]
      BY <2>2, <2>4
    <3> HIDE DEF uu, vv
    <3>2. End(f, p) = [x |-> f.x + uu, y |-> f.y + vv, h |-> f.h]
      BY <1>1, <3>1
    <3>3. QED
      BY <3>2 DEF uu, vv
  <2> HIDE DEF u, v
  <2>7. Displaces(q, s, u, v, q.h)
    BY <2>3, Displaced, Zenon
  <2>8. QED
    BY <1>2, <2>5, <2>6, <2>7, Zenon DEF f, g, Displaces
<1>5. CASE p.angle # 0
  <2> DEFINE r == p.length \div p.angle
             d == p.direction * p.turn * p.angle
             k == p.turn * r
             h == (q.h + d) % 4
             e == (f.h + d) % 4
             u == k * (Sin(h) - Sin(q.h))
             v == k * (Cos(q.h) - Cos(h))
             uu == k * (Sin(e) - Sin(f.h))
             vv == k * (Cos(f.h) - Cos(e))
  <2>1. d \in Int /\ r \in Int /\ k \in Int
    <3>1. d \in Int /\ r \in Int
      BY <1>5, PrimFields
    <3>2. QED
      BY <1>3, <3>1
  <2>2. h \in {0, 1, 2, 3} /\ e \in {0, 1, 2, 3} /\ e = (h - g) % 4
    <3>1. q.h - g \in Int /\ q.h + d \in Int /\ -g \in Int /\ f.h + d \in Int
          /\ (q.h - g) + d = (q.h + d) + (-g)
      BY <1>1, <2>1
    <3>2. e = ((q.h - g) + d) % 4
      BY <1>2, <2>1, <3>1, Wrapped
    <3>3. (h - g) % 4 = ((q.h + d) + (-g)) % 4
      <4>1. h \in Int
        <5>1. \A a \in Int : a % 4 \in Int
          OBVIOUS
        <5>2. QED
          BY <3>1, <5>1
      <4> HIDE DEF h
      <4>2. h - g = h + (-g)
        BY <1>1, <4>1
      <4> USE DEF h
      <4>3. (((q.h + d) % 4) + (-g)) % 4 = ((q.h + d) + (-g)) % 4
        <5> HIDE DEF d
        <5>1. QED
          BY <3>1, Wrapped
      <4>4. QED
        BY <4>2, <4>3
    <3>4. h \in {0, 1, 2, 3} /\ e \in {0, 1, 2, 3}
      <4> HIDE DEF d
      <4>1. QED
        BY <3>1, Wrapped
    <3>5. QED
      BY <3>1, <3>2, <3>3, <3>4
  <2> HIDE DEF r, d, h, e
  <2>3. /\ Cos(q.h) \in Int /\ Sin(q.h) \in Int /\ Cos(h) \in Int /\ Sin(h) \in Int
        /\ Cos(f.h) \in Int /\ Sin(f.h) \in Int /\ Cos(e) \in Int /\ Sin(e) \in Int
    BY <1>1, <2>2, AxesAreWhole
  <2>4. End(q, p) = [x |-> q.x + u, y |-> q.y + v, h |-> h] /\ u \in Int /\ v \in Int
    <3>1. End(q, p) = [x |-> q.x - k * Sin(q.h) + k * Sin(h), y |-> q.y + k * Cos(q.h) - k * Cos(h), h |-> h]
      BY <1>5, ArcEnds DEF r, d, h
    <3> HIDE DEF k
    <3>2. k * Sin(h) - k * Sin(q.h) = u /\ k * Cos(q.h) - k * Cos(h) = v
      BY <2>1, <2>3
    <3>3. /\ k * Sin(h) \in Int /\ k * Sin(q.h) \in Int /\ k * Cos(h) \in Int /\ k * Cos(q.h) \in Int
      BY <2>1, <2>3
    <3>4. q.x - k * Sin(q.h) + k * Sin(h) = q.x + u /\ q.y + k * Cos(q.h) - k * Cos(h) = q.y + v
          /\ u \in Int /\ v \in Int
      <4> HIDE DEF u, v
      <4>1. QED
        BY <1>1, <3>2, <3>3
    <3>5. QED
      BY <3>1, <3>4
  <2>5. End(f, p) = [x |-> f.x + uu, y |-> f.y + vv, h |-> e]
    <3>1. End(f, p) = [x |-> f.x - k * Sin(f.h) + k * Sin(e), y |-> f.y + k * Cos(f.h) - k * Cos(e), h |-> e]
      BY <1>5, ArcEnds DEF r, d, e
    <3> HIDE DEF k
    <3>2. k * Sin(e) - k * Sin(f.h) = uu /\ k * Cos(f.h) - k * Cos(e) = vv
      BY <2>1, <2>3
    <3>3. /\ k * Sin(e) \in Int /\ k * Sin(f.h) \in Int /\ k * Cos(e) \in Int /\ k * Cos(f.h) \in Int
      BY <2>1, <2>3
    <3>4. f.x - k * Sin(f.h) + k * Sin(e) = f.x + uu /\ f.y + k * Cos(f.h) - k * Cos(e) = f.y + vv
      <4> HIDE DEF uu, vv
      <4>1. QED
        BY <1>1, <3>2, <3>3
    <3>5. QED
      BY <3>1, <3>4
  <2>6. uu = AlongAxis(g, u, v) /\ vv = AcrossAxis(g, u, v)
    <3> HIDE DEF k
    <3> DEFINE a == Sin(h) - Sin(q.h)
               b == Cos(q.h) - Cos(h)
    <3>0. TurnsInto(q.h, g) /\ TurnsInto(h, g)
      BY <1>1, <2>2, Turning, Zenon
    <3>1. /\ Cos(f.h) = AlongAxis(g, Cos(q.h), Sin(q.h)) /\ Sin(f.h) = AcrossAxis(g, Cos(q.h), Sin(q.h))
          /\ Cos(e) = AlongAxis(g, Cos(h), Sin(h)) /\ Sin(e) = AcrossAxis(g, Cos(h), Sin(h))
      BY <1>2, <2>2, <3>0, Zenon DEF TurnsInto
    <3>2. a \in Int /\ b \in Int
      BY <2>3
    <3>3. Sin(e) - Sin(f.h) = AlongAxis(g, a, b) /\ Cos(f.h) - Cos(e) = AcrossAxis(g, a, b)
      BY <1>1, <2>3, <3>1, Quarters DEF AlongAxis, AcrossAxis
    <3> HIDE DEF a, b
    <3>4. Scales(g, k, a, b)
      BY <1>1, <2>1, <3>2, Linear, Zenon
    <3>5. uu = k * AlongAxis(g, a, b) /\ vv = k * AcrossAxis(g, a, b)
      BY <3>3, Zenon
    <3>6. QED
      BY <3>4, <3>5, Zenon DEF a, b, Scales
  <2> HIDE DEF u, v, uu, vv, k
  <2>7. Displaces(q, s, u, v, h)
    BY <2>4, Displaced, Zenon
  <2>8. QED
    BY <2>2, <2>4, <2>5, <2>6, <2>7, Zenon DEF f, g, Displaces
<1>6. QED
  BY <1>4, <1>5

-----------------------------------------------------------------------------
(* the retreat *)

\* The segments of a retreat, and how far segments turn the car one by one.
Backs == {p \in Prims : p.direction = -1 /\ p.length > 0}
\* How far segments turn the car.
Yaws(ps) == [i \in DOMAIN ps |-> DYaw(ps[i])]

\* How much of its angle a group loses when it passes for straight.
LosesLittle(g, p) == 20 * Unit * Absolute(DYaw(p) + g.angle) < g.length

\* A group as a segment backwards.
LEMMA BackwardsIs ==
  ASSUME NEW g \in Group, NEW n \in 1..g.length
  PROVE  /\ Backwards(g, n) \in Backs /\ Backwards(g, n).length = n
         /\ n = g.length => LosesLittle(g, Backwards(g, n))
<1> DEFINE p == Backwards(g, n)
           a == Absolute(g.angle)
<1>1. g.length \in Nat \ {0} /\ g.angle \in Int /\ n \in Nat \ {0} /\ Unit \in Nat \ {0}
  BY RetraceAssumption DEF Group
<1>2. a \in Nat /\ (g.angle > 0 => g.angle = a) /\ (~(g.angle > 0) => g.angle = -a)
  BY <1>1 DEF Absolute
<1>3. CASE g.length > 20 * Unit * a
  <2>1. p = Straight(-1, n)
    BY <1>3 DEF Backwards, Flat
  <2>2. p = [length |-> n, turn |-> 0, direction |-> -1, angle |-> 0]
    BY <2>1 DEF Straight
  <2> HIDE DEF p
  <2>3. p \in Backs /\ p.length = n
    BY <1>1, <2>2 DEF Backs, Prims, Turns, Directions
  <2>4. DYaw(p) + g.angle = g.angle
    BY <1>1, <2>2 DEF DYaw
  <2>5. LosesLittle(g, p)
    BY <1>3, <2>4 DEF LosesLittle
  <2>6. QED
    BY <2>3, <2>5 DEF p
<1>4. CASE ~(g.length > 20 * Unit * a)
  <2> DEFINE s == IF g.angle > 0 THEN 1 ELSE -1
             k == (a * n) \div g.length
  <2>1. p = [length |-> n, turn |-> s, direction |-> -1, angle |-> k]
    BY <1>4 DEF Backwards, Flat
  <2>2. k \in Nat
    <3>1. a * n \in Nat
      BY <1>1, <1>2
    <3>2. \A x \in Nat, w \in Nat \ {0} : x \div w \in Nat
      OBVIOUS
    <3>3. QED
      BY <1>1, <3>1, <3>2
  <2>3. n = g.length => k = a
    <3>1. \A y \in Nat, w \in Nat \ {0} : (y * w) \div w = y
      OBVIOUS
    <3>2. QED
      BY <1>1, <1>2, <3>1
  <2>4. s \in {-1, 1}
    OBVIOUS
  <2> HIDE DEF p, k
  <2>5. p \in Backs /\ p.length = n
    BY <1>1, <2>1, <2>2, <2>4 DEF Backs, Prims, Turns, Directions
  <2>6. ASSUME n = g.length PROVE LosesLittle(g, p)
    <3>1. p.direction = -1 /\ p.turn = s /\ p.angle = a
      BY <2>1, <2>3, <2>6
    <3>2. DYaw(p) + g.angle = 0
      BY <1>1, <1>2, <3>1 DEF DYaw
    <3>3. 20 * Unit * Absolute(0) = 0
      BY <1>1 DEF Absolute
    <3>4. QED
      BY <1>1, <3>2, <3>3 DEF LosesLittle
  <2>7. QED
    BY <2>5, <2>6 DEF p
<1>5. QED
  BY <1>3, <1>4

\* What a sequence of segments is long and turns.
LEMMA PrimTyping ==
  ASSUME NEW ps \in Seq(Prims)
  PROVE  /\ Extents(ps) \in Seq(Int) /\ Len(Extents(ps)) = Len(ps)
         /\ Yaws(ps) \in Seq(Int) /\ Len(Yaws(ps)) = Len(ps)
         /\ \A i \in 1..Len(ps) : /\ Extents(ps)[i] = ps[i].length /\ Yaws(ps)[i] = DYaw(ps[i])
                                  /\ ps[i].length \in Nat /\ DYaw(ps[i]) \in Int
         /\ TotalLength(ps) = SumOf(Extents(ps)) /\ Turned(ps) = SumOf(Yaws(ps))
         /\ TotalLength(ps) \in Int /\ Turned(ps) \in Int
<1>1. \A p \in Prims : p.length \in Nat /\ DYaw(p) \in Int
  BY PrimFields DEF DYaw
<1>2. \A i \in 1..Len(ps) : ps[i].length \in Nat /\ DYaw(ps[i]) \in Int
  <2>1. \A i \in 1..Len(ps) : ps[i] \in Prims
    OBVIOUS
  <2>2. QED
    BY <1>1, <2>1
<1>3. /\ Extents(ps) \in Seq(Int) /\ Len(Extents(ps)) = Len(ps)
      /\ \A i \in 1..Len(ps) : Extents(ps)[i] = ps[i].length
  BY <1>2 DEF Extents
<1>4. /\ Yaws(ps) \in Seq(Int) /\ Len(Yaws(ps)) = Len(ps)
       /\ \A i \in 1..Len(ps) : Yaws(ps)[i] = DYaw(ps[i])
  <2>1. \A i \in 1..Len(ps) : DYaw(ps[i]) \in Int
    BY <1>2
  <2>2. Yaws(ps) = [i \in 1..Len(ps) |-> DYaw(ps[i])] /\ Len(ps) \in Nat
    BY DEF Yaws
  <2>3. QED
    BY <2>1, <2>2
<1>5. TotalLength(ps) = SumOf(Extents(ps)) /\ Turned(ps) = SumOf(Yaws(ps))
  BY DEF TotalLength, Turned, Extents, Yaws
<1>6. SumOf(Extents(ps)) \in Int /\ SumOf(Yaws(ps)) \in Int
  BY <1>3, <1>4, SumRunning
<1>7. QED
  BY <1>2, <1>3, <1>4, <1>5, <1>6

\* Numbers that are one more.
OneMore(ns, more, m) ==
  /\ Len(more) = Len(ns) + 1 /\ more[Len(ns) + 1] = m
  /\ \A i \in 1..Len(ns) : more[i] = ns[i]

\* Their sum is larger by it.
LEMMA SumOneMore ==
  ASSUME NEW ns \in Seq(Int), NEW more \in Seq(Int), NEW m \in Int, OneMore(ns, more, m)
  PROVE  SumOf(more) = SumOf(ns) + m
<1>0. Len(more) = Len(ns) + 1 /\ more[Len(ns) + 1] = m /\ \A i \in 1..Len(ns) : more[i] = ns[i]
  BY DEF OneMore
<1>1. more = Append(ns, m)
  <2> DEFINE both == Append(ns, m)
  <2>1. both \in Seq(Int) /\ Len(both) = Len(ns) + 1 /\ both[Len(ns) + 1] = m /\ Len(ns) \in Nat
        /\ \A i \in 1..Len(ns) : both[i] = ns[i]
    OBVIOUS
  <2> HIDE DEF both
  <2>2. ASSUME NEW i \in 1..(Len(ns) + 1) PROVE more[i] = both[i]
    <3>1. i = Len(ns) + 1 \/ i \in 1..Len(ns)
      BY <2>1
    <3>2. QED
      BY <1>0, <2>1, <3>1
  <2>3. more = both
    BY <1>0, <2>1, <2>2, SeqEqual
  <2>4. QED
    BY <2>3 DEF both
<1>2. QED
  BY <1>1, SumAppend

\* And one segment more.
LEMMA PrimNumbers ==
  ASSUME NEW ps \in Seq(Prims), NEW p \in Prims
  PROVE  /\ TotalLength(Append(ps, p)) = TotalLength(ps) + p.length
         /\ Turned(Append(ps, p)) = Turned(ps) + DYaw(p)
<1> DEFINE more == Append(ps, p)
           n == Len(ps)
<1>1. /\ more \in Seq(Prims) /\ Len(more) = n + 1 /\ n \in Nat /\ more[n + 1] = p
      /\ \A i \in 1..n : more[i] = ps[i]
  OBVIOUS
<1> HIDE DEF more
<1>2. /\ Extents(ps) \in Seq(Int) /\ Len(Extents(ps)) = n /\ Yaws(ps) \in Seq(Int) /\ Len(Yaws(ps)) = n
      /\ \A i \in 1..n : Extents(ps)[i] = ps[i].length /\ Yaws(ps)[i] = DYaw(ps[i])
      /\ TotalLength(ps) = SumOf(Extents(ps)) /\ Turned(ps) = SumOf(Yaws(ps))
  BY PrimTyping
<1>3. /\ Extents(more) \in Seq(Int) /\ Len(Extents(more)) = n + 1
      /\ Yaws(more) \in Seq(Int) /\ Len(Yaws(more)) = n + 1
      /\ \A i \in 1..(n + 1) : Extents(more)[i] = more[i].length /\ Yaws(more)[i] = DYaw(more[i])
      /\ TotalLength(more) = SumOf(Extents(more)) /\ Turned(more) = SumOf(Yaws(more))
  BY <1>1, PrimTyping
<1>4. p.length \in Int /\ DYaw(p) \in Int
  BY PrimFields DEF DYaw
<1>5. SumOf(Extents(more)) = SumOf(Extents(ps)) + p.length
  <2>1. Extents(more)[n + 1] = p.length /\ \A i \in 1..n : i \in 1..(n + 1)
    BY <1>1, <1>3
  <2>2. \A i \in 1..n : Extents(more)[i] = Extents(ps)[i]
    BY <1>1, <1>2, <1>3, <2>1
  <2>3. OneMore(Extents(ps), Extents(more), p.length)
    BY <1>2, <1>3, <2>1, <2>2 DEF OneMore
  <2>4. QED
    BY <1>2, <1>3, <1>4, <2>3, SumOneMore, Zenon
<1>6. SumOf(Yaws(more)) = SumOf(Yaws(ps)) + DYaw(p)
  <2>1. Yaws(more)[n + 1] = DYaw(p) /\ \A i \in 1..n : i \in 1..(n + 1)
    BY <1>1, <1>3
  <2>2. \A i \in 1..n : Yaws(more)[i] = Yaws(ps)[i]
    BY <1>1, <1>2, <1>3, <2>1
  <2>3. OneMore(Yaws(ps), Yaws(more), DYaw(p))
    BY <1>2, <1>3, <2>1, <2>2 DEF OneMore
  <2>4. QED
    BY <1>2, <1>3, <1>4, <2>3, SumOneMore, Zenon
<1>7. QED
  BY <1>2, <1>3, <1>5, <1>6 DEF more

\* What a group adds to a retreat: the body of the loop in trail_to_prims().
Further(out, g, max) ==
  IF max > 0 /\ TotalLength(out) >= max THEN out
  ELSE Append(out, Backwards(g, Cut(max, TotalLength(out), g.length)))

\* A retreat within its limit goes on by the group or up to the limit.
GoesFurther(out, g, max) ==
  TotalLength(Further(out, g, max)) =
    IF max > 0 /\ max < TotalLength(out) + g.length THEN max ELSE TotalLength(out) + g.length

\* Without a limit it turns the car back by the angle of the group, but for the loss.
TurnsBack(out, g, max) ==
  20 * Unit * Absolute((Turned(Further(out, g, max)) - Turned(out)) + g.angle) < g.length

\* One turn of the loop in trail_to_prims().
LEMMA Furthers ==
  ASSUME NEW out \in Seq(Backs), NEW g \in Group, NEW max \in Nat
  PROVE  /\ Further(out, g, max) \in Seq(Backs)
         /\ (max = 0 \/ TotalLength(out) <= max) => GoesFurther(out, g, max)
         /\ max = 0 => TurnsBack(out, g, max)
<1> DEFINE used == TotalLength(out)
           n == Cut(max, used, g.length)
           p == Backwards(g, n)
           further == Further(out, g, max)
<1>1. out \in Seq(Prims) /\ used \in Int
  <2>1. Backs \subseteq Prims
    BY DEF Backs
  <2>2. out \in Seq(Prims)
    BY <2>1
  <2>3. QED
    BY <2>2, PrimTyping
<1>2. g.length \in Nat \ {0} /\ g.angle \in Int
  BY DEF Group
<1>3. CASE max > 0 /\ used >= max
  <2>1. further = out
    BY <1>3 DEF Further
  <2> HIDE DEF further
  <2>2. (max = 0 \/ used <= max) => GoesFurther(out, g, max)
    BY <1>1, <1>2, <1>3, <2>1 DEF GoesFurther, further
  <2>3. QED
    BY <1>3, <2>1, <2>2 DEF further
<1>4. CASE ~(max > 0 /\ used >= max)
  <2>1. further = Append(out, p)
    BY <1>4 DEF Further
  <2>2. n \in 1..g.length
    BY <1>1, <1>2, <1>4 DEF Cut
  <2>3. n = IF max > 0 /\ max < used + g.length THEN max - used ELSE g.length
    BY <1>1, <1>2, <1>4 DEF Cut
  <2> HIDE DEF used, n
  <2>4. p \in Backs /\ p.length = n /\ (n = g.length => LosesLittle(g, p))
    BY <2>2, BackwardsIs
  <2> HIDE DEF p, further
  <2>5. further \in Seq(Backs)
    BY <2>1, <2>4, AppendProperties
  <2>6. p \in Prims
    BY <2>4 DEF Backs
  <2>7. TotalLength(further) = used + n /\ Turned(further) = Turned(out) + DYaw(p)
    BY <1>1, <2>1, <2>4, <2>6, PrimNumbers DEF used
  <2>8. GoesFurther(out, g, max)
    BY <1>1, <1>2, <2>3, <2>7 DEF GoesFurther, further, used
  <2>9. ASSUME max = 0 PROVE TurnsBack(out, g, max)
    <3>1. n = g.length
      BY <2>3, <2>9
    <3>2. Turned(out) \in Int /\ DYaw(p) \in Int
      BY <1>1, <2>6, PrimTyping, PrimFields DEF DYaw
    <3>3. Turned(further) - Turned(out) = DYaw(p)
      BY <2>7, <3>2
    <3>4. QED
      BY <2>4, <3>1, <3>3 DEF TurnsBack, LosesLittle, further
  <2>10. QED
    BY <2>5, <2>8, <2>9 DEF further
<1>5. QED
  BY <1>3, <1>4

\* The groups of a trail lead back one after the other.
LeadsBack(t, max, gs) ==
  \E after \in [0..Len(gs) -> Seq(Backs)] :
    /\ after[0] = <<>>
    /\ \A i \in 1..Len(gs) : after[i] = Further(after[i - 1], gs[i], max)
    /\ TrailToPrims(t, max) = after[Len(gs)]

\* The loop of trail_to_prims() is made of such turns.
LEMMA RetreatRuns ==
  ASSUME NEW t, NEW max \in Nat, NEW gs \in Seq(Group), gs = Reverse(Groups(t))
  PROVE  LeadsBack(t, max, gs)
<1> DEFINE N == Len(gs)
           rule == [p \in (1..N) \X Seq(Backs) |-> Further(p[2], gs[p[1]], max)]
           Runs(a) == a = [i \in 0..N |-> IF i = 0 THEN <<>> ELSE Further(a[i - 1], gs[i], max)]
           b == CHOOSE a : Runs(a)
<1>1. N \in Nat /\ \A i \in 1..N : gs[i] \in Group
  OBVIOUS
<1>2. \A i \in 1..N, v \in Seq(Backs) : Further(v, gs[i], max) \in Seq(Backs)
  BY <1>1, Furthers
<1>3. /\ rule \in [(1..N) \X Seq(Backs) -> Seq(Backs)]
      /\ \A i \in 1..N, v \in Seq(Backs) : rule[<<i, v>>] = Further(v, gs[i], max)
  BY <1>2
<1> HIDE DEF rule
<1>4. <<>> \in Seq(Backs)
  OBVIOUS
<1>5. Recurses(Seq(Backs), <<>>, N, rule)
  BY <1>1, <1>3, <1>4, Recursion, ZenonT(60)
<1>6. PICK a \in [0..N -> Seq(Backs)] : a[0] = <<>> /\ \A i \in 1..N : a[i] = rule[<<i, a[i - 1]>>]
  BY <1>5 DEF Recurses
<1>7. \A i \in 1..N : a[i] = Further(a[i - 1], gs[i], max)
  <2>1. \A i \in 1..N : i - 1 \in 0..N
    BY <1>1
  <2>2. \A i \in 1..N : a[i - 1] \in Seq(Backs)
    BY <1>6, <2>1
  <2>3. QED
    BY <1>3, <1>6, <2>2
<1>8. \E g : Runs(g)
  <2>1. \A i \in 0..N : a[i] = IF i = 0 THEN <<>> ELSE Further(a[i - 1], gs[i], max)
    BY <1>1, <1>6, <1>7
  <2>2. Runs(a)
    BY <1>6, <2>1
  <2> HIDE DEF Runs
  <2>3. QED
    BY <2>2
<1>9. Runs(b)
  <2> HIDE DEF Runs
  <2>1. QED
    BY <1>8, Zenon
<1>10. TrailToPrims(t, max) = b[N]
  BY DEF TrailToPrims, Loop, Further
<1> HIDE DEF b
<1>11. /\ DOMAIN b = 0..N /\ b = [i \in 0..N |-> b[i]] /\ b[0] = <<>>
       /\ \A i \in 1..N : b[i] = Further(b[i - 1], gs[i], max)
  <2>1. DOMAIN b = 0..N /\ b = [i \in 0..N |-> b[i]]
    BY <1>9
  <2>2. \A i \in 0..N : b[i] = IF i = 0 THEN <<>> ELSE Further(b[i - 1], gs[i], max)
    BY <1>9
  <2>3. b[0] = <<>>
    BY <1>1, <2>2
  <2>4. ASSUME NEW i \in 1..N PROVE b[i] = Further(b[i - 1], gs[i], max)
    BY <1>1, <2>2
  <2>5. QED
    BY <2>1, <2>3, <2>4
<1>12. b \in [0..N -> Seq(Backs)]
  <2>1. \A i \in 1..N : b[i - 1] \in Seq(Backs) => b[i] \in Seq(Backs)
    BY <1>2, <1>11
  <2>2. QED
    BY <1>1, <1>4, <1>11, <2>1, RecursionTyping
<1>13. QED
  BY <1>10, <1>11, <1>12 DEF LeadsBack

\* What is lost adds up to no more.
LEMMA LossesAdd ==
  ASSUME NEW c \in Nat, NEW a \in Int, NEW b \in Int, NEW x \in Int, NEW y \in Int,
         c * Absolute(a) <= x, c * Absolute(b) < y
  PROVE  c * Absolute(a + b) < x + y
<1>1. /\ Absolute(a) \in Nat /\ Absolute(b) \in Nat /\ Absolute(a + b) \in Nat
      /\ Absolute(a + b) <= Absolute(a) + Absolute(b)
  BY DEF Absolute
<1>2. c * Absolute(a + b) <= c * (Absolute(a) + Absolute(b))
  <2>1. \A k, m, n \in Nat : m <= n => k * m <= k * n
    OBVIOUS
  <2>2. Absolute(a) + Absolute(b) \in Nat
    BY <1>1
  <2>3. QED
    BY <1>1, <2>1, <2>2
<1>3. c * (Absolute(a) + Absolute(b)) = c * Absolute(a) + c * Absolute(b)
  BY <1>1
<1>4. c * Absolute(a + b) \in Int /\ c * Absolute(a) \in Int /\ c * Absolute(b) \in Int
  BY <1>1
<1>5. QED
  BY <1>2, <1>3, <1>4

\* How long a retreat gets after some of the groups, and what it has lost of their angles.
AsLong(n, max, whole) == n = IF max > 0 /\ max < whole THEN max ELSE whole
\* No more of the angles is lost than the groups that pass for straight allow.
AsTurned(turned, angles, whole) == 20 * Unit * Absolute(turned + angles) <= whole
\* And strictly less once there is a group.
TurnsAllBack(turned, angles, whole) == 20 * Unit * Absolute(turned + angles) < whole

\* The retreat is as long as the groups or as the limit, and turns the car back as far
\* as the groups that it does not take for straight.
LEMMA RetreatIs ==
  ASSUME NEW t, NEW max \in Nat, NEW gs \in Seq(Group), gs = Reverse(Groups(t)), gs # <<>>
  PROVE  /\ TrailToPrims(t, max) \in Seq(Backs)
         /\ AsLong(TotalLength(TrailToPrims(t, max)), max, SumOf(Extents(gs)))
         /\ max = 0 => TurnsAllBack(Turned(TrailToPrims(t, max)), SumOf(Angles(gs)), SumOf(Extents(gs)))
<1> DEFINE n == Len(gs)
<1>1. PICK after \in [0..n -> Seq(Backs)] :
        /\ after[0] = <<>>
        /\ \A i \in 1..n : after[i] = Further(after[i - 1], gs[i], max)
        /\ TrailToPrims(t, max) = after[n]
  <2>1. LeadsBack(t, max, gs)
    BY RetreatRuns, Zenon
  <2>2. QED
    BY <2>1 DEF LeadsBack
<1>2. /\ Extents(gs) \in Seq(Int) /\ Angles(gs) \in Seq(Int) /\ Len(Extents(gs)) = n /\ Len(Angles(gs)) = n
      /\ \A i \in 1..n : Extents(gs)[i] = gs[i].length /\ Angles(gs)[i] = gs[i].angle
  BY GroupTyping
<1>3. PICK e : RunningSum(Extents(gs), e) /\ SumOf(Extents(gs)) = e[n]
  BY <1>2, SumRunning
<1>4. PICK a : RunningSum(Angles(gs), a) /\ SumOf(Angles(gs)) = a[n]
  BY <1>2, SumRunning
<1>5. /\ n \in Nat /\ n > 0 /\ 20 * Unit \in Nat
      /\ \A i \in 0..n : e[i] \in Int /\ a[i] \in Int
      /\ e[0] = 0 /\ a[0] = 0
  <2>1. n \in Nat /\ n > 0
    OBVIOUS
  <2>2. 20 * Unit \in Nat
    BY RetraceAssumption
  <2>3. /\ \A i \in 0..n : e[i] \in Int /\ a[i] \in Int
        /\ e[0] = 0 /\ a[0] = 0
    BY <1>2, <1>3, <1>4 DEF RunningSum
  <2>4. QED
    BY <2>1, <2>2, <2>3
<1> DEFINE Good == {i \in Nat : i <= n =>
                     /\ e[i] >= 0 /\ AsLong(TotalLength(after[i]), max, e[i])
                     /\ max = 0 => /\ AsTurned(Turned(after[i]), a[i], e[i])
                                   /\ i > 0 => TurnsAllBack(Turned(after[i]), a[i], e[i])}
<1>6. 0 \in Good
  <2>1. TotalLength(<<>>) = 0 /\ Turned(<<>>) = 0
    <3>1. <<>> \in Seq(Int) /\ <<>> \in Seq(Prims)
      OBVIOUS
    <3>2. Extents(<<>>) = <<>> /\ Yaws(<<>>) = <<>>
      BY DEF Extents, Yaws
    <3>3. QED
      BY <3>1, <3>2, PrimTyping, SumAppend
  <2>2. 20 * Unit * Absolute(0) = 0
    BY <1>5 DEF Absolute
  <2>3. AsLong(0, max, 0) /\ AsTurned(0, 0, 0)
    BY <2>2 DEF AsLong, AsTurned
  <2>4. QED
    BY <1>1, <1>5, <2>1, <2>3
<1>7. ASSUME NEW i \in Nat, i \in Good PROVE i + 1 \in Good
  <2>1. SUFFICES ASSUME i + 1 <= n
                 PROVE  /\ e[i + 1] >= 0 /\ AsLong(TotalLength(after[i + 1]), max, e[i + 1])
                        /\ max = 0 => /\ AsTurned(Turned(after[i + 1]), a[i + 1], e[i + 1])
                                      /\ TurnsAllBack(Turned(after[i + 1]), a[i + 1], e[i + 1])
    OBVIOUS
  <2> DEFINE o == after[i]
             g == gs[i + 1]
             further == after[i + 1]
  <2>2. i + 1 \in 1..n /\ (i + 1) - 1 = i /\ i \in 0..n /\ i + 1 \in 0..n
    BY <1>5, <2>1
  <2>3. further = Further(o, g, max) /\ o \in Seq(Backs) /\ g \in Group /\ further \in Seq(Backs)
    BY <1>1, <2>2
  <2>4. e[i + 1] = e[i] + g.length /\ a[i + 1] = a[i] + g.angle
    <3>1. e[i + 1] = e[i] + Extents(gs)[i + 1] /\ a[i + 1] = a[i] + Angles(gs)[i + 1]
      BY <1>2, <1>3, <1>4, <2>2 DEF RunningSum
    <3>2. QED
      BY <1>2, <2>2, <3>1
  <2>5. e[i] \in Int /\ a[i] \in Int /\ g.length \in Nat \ {0} /\ g.angle \in Int
    BY <1>5, <2>2, <2>3 DEF Group
  <2> HIDE DEF o, g, further
  <2>6. e[i] >= 0 /\ AsLong(TotalLength(o), max, e[i]) /\ (max = 0 => AsTurned(Turned(o), a[i], e[i]))
    BY <1>5, <1>7, <2>1, <2>2 DEF o
  <2>7. TotalLength(o) \in Int /\ Turned(o) \in Int /\ Turned(further) \in Int /\ TotalLength(further) \in Int
    <3>1. Backs \subseteq Prims
      BY DEF Backs
    <3>2. o \in Seq(Prims) /\ further \in Seq(Prims)
      BY <2>3, <3>1
    <3>3. QED
      BY <3>2, PrimTyping
  <2>8. GoesFurther(o, g, max) /\ (max = 0 => TurnsBack(o, g, max))
    <3>1. max = 0 \/ TotalLength(o) <= max
      BY <2>5, <2>6, <2>7 DEF AsLong
    <3>2. QED
      BY <2>3, <3>1, Furthers, Zenon
  <2>9. e[i + 1] >= 0 /\ AsLong(TotalLength(further), max, e[i + 1])
    <3> DEFINE x == TotalLength(o)
               y == TotalLength(further)
               w == e[i]
               z == e[i + 1]
    <3>1. y = IF max > 0 /\ max < x + g.length THEN max ELSE x + g.length
      BY <2>3, <2>8 DEF GoesFurther
    <3>2. x = IF max > 0 /\ max < w THEN max ELSE w
      BY <2>6 DEF AsLong
    <3>3. z = w + g.length /\ w \in Int /\ w >= 0 /\ g.length \in Nat /\ x \in Int /\ y \in Int
      BY <2>4, <2>5, <2>6, <2>7
    <3> HIDE DEF x, y, w, z
    <3>4. z >= 0 /\ y = IF max > 0 /\ max < z THEN max ELSE z
      BY <3>1, <3>2, <3>3
    <3>5. QED
      BY <3>4 DEF AsLong, y, z
  <2>10. ASSUME max = 0
         PROVE  AsTurned(Turned(further), a[i + 1], e[i + 1]) /\ TurnsAllBack(Turned(further), a[i + 1], e[i + 1])
    <3> DEFINE c == 20 * Unit
               x == Turned(o) + a[i]
               y == (Turned(further) - Turned(o)) + g.angle
    <3>1. c * Absolute(x) <= e[i] /\ c * Absolute(y) < g.length
      BY <2>3, <2>6, <2>8, <2>10 DEF AsTurned, TurnsBack
    <3>2. x \in Int /\ y \in Int /\ x + y = Turned(further) + a[i + 1] /\ c \in Nat
      <4>1. x \in Int /\ y \in Int
        BY <2>5, <2>7, SMTT(20)
      <4>2. x + y = Turned(further) + (a[i] + g.angle)
        BY <2>5, <2>7
      <4> HIDE DEF x, y
      <4>3. QED
        BY <1>5, <2>4, <4>1, <4>2
    <3> HIDE DEF x, y, c
    <3>3. c * Absolute(x + y) < e[i] + g.length
      BY <2>5, <3>1, <3>2, LossesAdd
    <3>4. TurnsAllBack(Turned(further), a[i + 1], e[i + 1])
      BY <2>4, <3>2, <3>3 DEF TurnsAllBack, c
    <3>5. c * Absolute(Turned(further) + a[i + 1]) \in Int /\ e[i + 1] \in Int
      BY <1>5, <2>2, <3>2 DEF Absolute
    <3>6. AsTurned(Turned(further), a[i + 1], e[i + 1])
      BY <3>4, <3>5 DEF AsTurned, TurnsAllBack, c
    <3>7. QED
      BY <3>4, <3>6
  <2>11. QED
    BY <2>9, <2>10 DEF further
<1>8. Nat \subseteq Good
  <2> HIDE DEF Good
  <2>1. QED
    BY <1>6, <1>7, SetInduction
<1>9. n \in 0..n /\ after[n] \in Seq(Backs)
  BY <1>1, <1>5
<1>10. QED
  BY <1>1, <1>3, <1>4, <1>5, <1>8, <1>9

-----------------------------------------------------------------------------
(* the invariant of going back *)

\* The segments that are driven: those of a parking may be broken off or corrections.
MovesOf(s) == IF s \in {"leg", "retreat"} THEN LegMoves ELSE Prims

\* The trail is what the car has driven: from pose to pose by the segments, up to the
\* pose it has now.
TrailIsDriven ==
  /\ driven \in Seq(MovesOf(stage))
  /\ trail \in Seq(Poses) /\ Len(trail) = Len(driven) + 1
  /\ trail[1] = Origin /\ trail[Len(trail)] = pose
  /\ \A i \in 1..Len(driven) : trail[i + 1] = End(trail[i], driven[i])

\* A parking has a plan, and a segment of it to drive while it goes on.
PlanIsThere ==
  /\ last_park_prims \in Parkings \cup {<<>>}
  /\ stage \notin {"leg", "retreat"} => last_park_prims \in Parkings
  /\ stage = "parking" => Len(driven) < Len(last_park_prims)

\* The way back is made of the one or of the other.
WayBackIsMade ==
  /\ limit \in MaxLengths \cup {0}
  /\ stage \in {"leg", "parking", "parked", "failed"} => prims = <<>>
  /\ stage = "retreat" => driven # <<>> /\ prims = TrailToPrims(trail, limit)
  /\ stage = "exit" => \E n \in {1, 2} : prims = PartialExit(last_park_prims, n)

\* All of it, and the types of the rest.
RetraceInv ==
  /\ stage \in {"leg", "parking", "parked", "failed", "retreat", "exit"}
  /\ pose \in Poses
  /\ TrailIsDriven
  /\ PlanIsThere
  /\ WayBackIsMade

\* A plan is made of the segments of a parking.
LEMMA PlanFacts ==
  ASSUME NEW ps \in Parkings
  PROVE  /\ ps \in Seq(ParkMoves) /\ ps \in Seq(Prims) /\ ps # <<>> /\ Len(ps) \in Nat \ {0}
         /\ \A i \in 1..Len(ps) : ps[i] \in ParkMoves /\ ps[i] \in Prims
<1>1. ps \in Seq(ParkMoves) /\ ps # <<>>
  BY RetraceAssumption
<1>2. ps \in Seq(Prims)
  BY <1>1, Moves
<1>3. Len(ps) \in Nat \ {0}
  BY <1>1
<1>4. \A i \in 1..Len(ps) : ps[i] \in ParkMoves /\ ps[i] \in Prims
  BY <1>1, <1>2
<1>5. QED
  BY <1>1, <1>2, <1>3, <1>4

\* The initial states keep the invariant.
LEMMA RetraceInvInit == RetraceInit => RetraceInv
<1> SUFFICES ASSUME RetraceInit PROVE RetraceInv
  OBVIOUS
<1>1. Origin \in Poses
  BY DEF Origin, Poses, Headings
<1>2. trail \in Seq(Poses) /\ Len(trail) = 1 /\ trail[1] = Origin
  BY <1>1 DEF RetraceInit
<1>3. driven \in Seq(MovesOf(stage)) /\ Len(driven) = 0
  BY DEF RetraceInit
<1>4. TrailIsDriven
  BY <1>2, <1>3 DEF TrailIsDriven, RetraceInit
<1>5. PlanIsThere
  <2>1. CASE stage = "leg" /\ last_park_prims = <<>>
    BY <2>1 DEF PlanIsThere
  <2>2. CASE stage = "parking" /\ last_park_prims \in Parkings
    <3>1. Len(last_park_prims) \in Nat \ {0}
      BY <2>2, PlanFacts
    <3>2. QED
      BY <1>3, <2>2, <3>1 DEF PlanIsThere
  <2>3. QED
    BY <2>1, <2>2 DEF RetraceInit
<1>6. WayBackIsMade
  BY DEF WayBackIsMade, RetraceInit
<1>7. QED
  BY <1>1, <1>4, <1>5, <1>6 DEF RetraceInv, RetraceInit

\* A segment more.
LEMMA MoveKeeps ==
  ASSUME RetraceInv, NEW p \in MovesOf(stage), Move(p), MovesOf(stage') = MovesOf(stage)
  PROVE  pose' \in Poses /\ TrailIsDriven' /\ Len(driven') = Len(driven) + 1
<1> DEFINE n == Len(driven)
           e == End(pose, p)
<1>1. /\ driven \in Seq(MovesOf(stage)) /\ n \in Nat /\ trail \in Seq(Poses)
      /\ Len(trail) = n + 1 /\ trail[1] = Origin /\ trail[n + 1] = pose /\ pose \in Poses
      /\ \A i \in 1..n : trail[i + 1] = End(trail[i], driven[i])
  BY DEF RetraceInv, TrailIsDriven
<1>2. e \in Poses
  <2>1. p \in Prims
    BY Moves DEF MovesOf
  <2>2. QED
    BY <1>1, <2>1, EndTyping
<1>3. pose' = e /\ trail' = Append(trail, e) /\ driven' = Append(driven, p)
  BY DEF Move
<1> HIDE DEF e
<1>4. /\ driven' \in Seq(MovesOf(stage)) /\ Len(driven') = n + 1 /\ driven'[n + 1] = p
      /\ \A i \in 1..n : driven'[i] = driven[i]
  BY <1>1, <1>3
<1>5. /\ trail' \in Seq(Poses) /\ Len(trail') = n + 2 /\ trail'[n + 2] = e
      /\ \A i \in 1..(n + 1) : trail'[i] = trail[i]
  BY <1>1, <1>2, <1>3
<1>6. ASSUME NEW i \in 1..(n + 1) PROVE trail'[i + 1] = End(trail'[i], driven'[i])
  <2>1. CASE i = n + 1
    BY <1>1, <1>4, <1>5, <2>1 DEF e
  <2>2. CASE i \in 1..n
    <3>1. i \in 1..(n + 1) /\ i + 1 \in 1..(n + 1)
      BY <1>1, <2>2
    <3>2. QED
      BY <1>1, <1>4, <1>5, <2>2, <3>1
  <2>3. QED
    BY <1>1, <2>1, <2>2
<1>7. TrailIsDriven'
  <2>1. driven' \in Seq(MovesOf(stage')) /\ trail' \in Seq(Poses) /\ Len(trail') = Len(driven') + 1
    BY <1>1, <1>4, <1>5
  <2>2. trail'[1] = Origin /\ trail'[Len(trail')] = pose'
    <3>1. 1 \in 1..(n + 1)
      BY <1>1
    <3>2. QED
      BY <1>1, <1>3, <1>5, <3>1
  <2>3. \A i \in 1..Len(driven') : trail'[i + 1] = End(trail'[i], driven'[i])
    BY <1>4, <1>6
  <2>4. QED
    BY <2>1, <2>2, <2>3 DEF TrailIsDriven, MovesOf
<1>8. QED
  BY <1>2, <1>3, <1>4, <1>7

\* A segment of a parking, broken off.
LEMMA PartTyping ==
  ASSUME NEW p \in Prims, NEW k \in Nat
  PROVE  Part(p, k) \in Prims
<1>1. /\ p.length \in Nat /\ p.angle \in Nat
      /\ p = [length |-> p.length, turn |-> p.turn, direction |-> p.direction, angle |-> p.angle]
  BY DEF Prims
<1>2. p.angle # 0 => k * (p.length \div p.angle) \in Nat
  BY <1>1
<1> DEFINE m == k * (p.length \div p.angle)
<1>3. p.angle = 0 => [p EXCEPT !.length = k] \in Prims
  BY DEF Prims
<1> HIDE DEF m
<1>4. m \in Nat => [p EXCEPT !.length = m, !.angle = k] \in Prims
  BY DEF Prims
<1>5. QED
  BY <1>2, <1>3, <1>4 DEF Part, m

\* A step of a parking, which leaves the plan alone.
LEMMA ParkingKeeps ==
  ASSUME RetraceInv, stage \in {"parking", "parked"}, NEW p \in Prims, Move(p),
         stage' \in {"parking", "parked", "failed"},
         stage' = "parking" => Len(driven') < Len(last_park_prims)
  PROVE  RetraceInv'
<1>1. MovesOf(stage) = Prims /\ MovesOf(stage') = Prims
  BY DEF MovesOf
<1>2. pose' \in Poses /\ TrailIsDriven'
  BY <1>1, MoveKeeps
<1>3. limit' = limit /\ prims' = prims /\ last_park_prims' = last_park_prims
  BY DEF Move
<1>4. WayBackIsMade'
  BY <1>3 DEF RetraceInv, WayBackIsMade
<1>5. PlanIsThere'
  BY <1>3 DEF RetraceInv, PlanIsThere
<1>6. QED
  BY <1>2, <1>4, <1>5 DEF RetraceInv

\* Each step keeps it: a move by Nav2 or by the executor, whole or broken off, a
\* correction, the switch of the route, the exit.
LEMMA RetraceInvNext == RetraceInv /\ [RetraceNext]_retraceVars => RetraceInv'
<1> SUFFICES ASSUME RetraceInv, [RetraceNext]_retraceVars PROVE RetraceInv'
  OBVIOUS
<1>1. ASSUME NEW v \in Directions, NEW w \in Turns, NEW r \in Bends, NavDrives(v, w, r)
      PROVE  RetraceInv'
  <2> DEFINE p == IF w = 0 THEN Straight(v, 1) ELSE Arc(v, Steer(v, w), r, 1)
  <2>1. p \in LegMoves
    BY DEF LegMoves, Turns, Directions, Steer
  <2>2. stage = "leg" /\ stage' = "leg" /\ Move(p)
    BY <1>1 DEF NavDrives
  <2> HIDE DEF p
  <2>3. p \in MovesOf(stage) /\ MovesOf(stage') = MovesOf(stage)
    BY <2>1, <2>2 DEF MovesOf
  <2>4. pose' \in Poses /\ TrailIsDriven'
    BY <2>2, <2>3, MoveKeeps
  <2>5. limit' = limit /\ prims' = prims /\ last_park_prims' = last_park_prims
    BY <2>2 DEF Move
  <2>6. WayBackIsMade' /\ PlanIsThere'
    BY <2>2, <2>5 DEF RetraceInv, WayBackIsMade, PlanIsThere
  <2>7. QED
    BY <2>2, <2>4, <2>6 DEF RetraceInv
<1>2. ASSUME stage = "parking"
      PROVE  Segment \in Prims /\ Len(driven) \in Nat /\ Len(last_park_prims) \in Nat
  <2>1. last_park_prims \in Parkings /\ Len(driven) < Len(last_park_prims) /\ Len(driven) \in Nat
    BY <1>2 DEF RetraceInv, PlanIsThere, TrailIsDriven
  <2>2. Len(driven) + 1 \in 1..Len(last_park_prims) /\ Len(last_park_prims) \in Nat
    BY <2>1, PlanFacts
  <2>3. QED
    BY <2>1, <2>2, PlanFacts DEF Segment
<1>3. CASE Parks
  <2>1. /\ stage = "parking" /\ Move(Segment)
        /\ stage' = IF Len(driven') = Len(last_park_prims) THEN "parked" ELSE "parking"
    BY <1>3 DEF Parks
  <2>2. Len(driven) < Len(last_park_prims) /\ Len(driven') = Len(driven) + 1
    <3>1. Segment \in MovesOf(stage) /\ MovesOf(stage') = MovesOf(stage)
      BY <1>2, <2>1 DEF MovesOf
    <3>2. QED
      BY <2>1, <3>1, MoveKeeps DEF RetraceInv, PlanIsThere
  <2>3. stage' = "parking" => Len(driven') < Len(last_park_prims)
    BY <1>2, <2>1, <2>2
  <2>4. QED
    BY <1>2, <2>1, <2>3, ParkingKeeps
<1>4. ASSUME NEW k \in 0..2, BreaksOff(k)
      PROVE  RetraceInv'
  <2>1. stage = "parking" /\ Move(Part(Segment, k)) /\ stage' \in {"parked", "failed"}
    BY <1>4 DEF BreaksOff
  <2>2. Part(Segment, k) \in Prims
    BY <1>2, <2>1, PartTyping
  <2>3. QED
    BY <2>1, <2>2, ParkingKeeps
<1>5. ASSUME NEW p \in Corrections, Corrects(p)
      PROVE  RetraceInv'
  <2>1. stage = "parked" /\ stage' = "parked" /\ Move(p) /\ p \in Prims
    BY <1>5, RetraceAssumption DEF Corrects
  <2>2. QED
    BY <2>1, ParkingKeeps
<1>6. ASSUME NEW max \in MaxLengths, Retreat(max)
      PROVE  RetraceInv'
  <2>1. /\ stage = "leg" /\ stage' = "retreat" /\ limit' = max /\ prims' = TrailToPrims(trail, max)
        /\ pose' = pose /\ trail' = trail /\ driven' = driven /\ Len(trail) >= 2
        /\ last_park_prims' = last_park_prims
    BY <1>6 DEF Retreat
  <2>2. driven # <<>>
    BY <2>1 DEF RetraceInv, TrailIsDriven
  <2>3. TrailIsDriven' /\ PlanIsThere'
    BY <2>1 DEF RetraceInv, TrailIsDriven, PlanIsThere, MovesOf
  <2>4. WayBackIsMade'
    BY <2>1, <2>2 DEF WayBackIsMade
  <2>5. QED
    BY <2>1, <2>3, <2>4 DEF RetraceInv
<1>7. ASSUME NEW n \in {1, 2}, Exit(n)
      PROVE  RetraceInv'
  <2>1. /\ stage = "parked" /\ stage' = "exit" /\ limit' = limit
        /\ prims' = PartialExit(last_park_prims, n) /\ last_park_prims' = last_park_prims
        /\ pose' = pose /\ trail' = trail /\ driven' = driven
    BY <1>7 DEF Exit
  <2>2. TrailIsDriven' /\ PlanIsThere'
    BY <2>1 DEF RetraceInv, TrailIsDriven, PlanIsThere, MovesOf
  <2>3. WayBackIsMade'
    BY <2>1 DEF RetraceInv, WayBackIsMade
  <2>4. QED
    BY <2>1, <2>2, <2>3 DEF RetraceInv
<1>8. CASE UNCHANGED retraceVars
  BY <1>8 DEF retraceVars, RetraceInv, TrailIsDriven, PlanIsThere, WayBackIsMade, MovesOf
<1>9. QED
  BY <1>1, <1>3, <1>4, <1>5, <1>6, <1>7, <1>8 DEF RetraceNext

\* The inductive invariant of going back.
THEOREM RetraceInvariant == RetraceSpec => []RetraceInv
BY RetraceInvInit, RetraceInvNext, PTL DEF RetraceSpec

-----------------------------------------------------------------------------
(* plans and the slot's frame *)

\* The poses segments lead to, one after the other.
Follows(q, ps, r) == r[0] = q /\ \A i \in 1..Len(ps) : r[i] = End(r[i - 1], ps[i])

\* integrate() comes to the last of them.
LEMMA IntegrateIs ==
  ASSUME NEW q \in Poses, NEW ps \in Seq(Prims), NEW r, Follows(q, ps, r)
  PROVE  Integrate(q, ps) = r[Len(ps)]
<1> DEFINE n == Len(ps)
<1>1. PICK after \in [0..n -> Poses] :
        /\ after[0] = q
        /\ \A i \in 1..n : after[i] = End(after[i - 1], ps[i])
        /\ Integrate(q, ps) = after[n]
  BY Integrates
<1> DEFINE Good == {i \in Nat : i <= n => after[i] = r[i]}
<1>2. 0 \in Good
  BY <1>1 DEF Follows
<1>3. ASSUME NEW i \in Nat, i \in Good PROVE i + 1 \in Good
  <2>1. SUFFICES ASSUME i + 1 <= n PROVE after[i + 1] = r[i + 1]
    OBVIOUS
  <2>2. i + 1 \in 1..n /\ (i + 1) - 1 = i /\ after[i] = r[i]
    BY <1>3, <2>1
  <2>3. QED
    BY <1>1, <2>2 DEF Follows
<1>4. Nat \subseteq Good
  <2> HIDE DEF Good
  <2>1. QED
    BY <1>2, <1>3, SetInduction
<1>5. n \in Nat
  OBVIOUS
<1>6. QED
  BY <1>1, <1>4, <1>5

\* What the invariant says of the segments and of the trail.
LEMMA TrailFacts ==
  ASSUME RetraceInv
  PROVE  /\ driven \in Seq(Prims) /\ Len(driven) \in Nat
         /\ trail \in Seq(Poses) /\ Len(trail) = Len(driven) + 1
         /\ trail[1] = Origin /\ trail[1] \in Poses /\ trail[Len(driven) + 1] = pose /\ pose \in Poses
         /\ \A i \in 1..Len(driven) : /\ driven[i] \in MovesOf(stage) /\ driven[i] \in Prims
                                      /\ trail[i] \in Poses /\ trail[i + 1] = End(trail[i], driven[i])
<1>1. MovesOf(stage) \subseteq Prims
  BY Moves DEF MovesOf
<1>2. driven \in Seq(MovesOf(stage))
  BY DEF RetraceInv, TrailIsDriven
<1>3. driven \in Seq(Prims)
  BY <1>1, <1>2
<1>4. \A i \in 1..Len(driven) : driven[i] \in MovesOf(stage) /\ driven[i] \in Prims
  BY <1>1, <1>2
<1>5. QED
  BY <1>3, <1>4 DEF RetraceInv, TrailIsDriven

\* What is seen from a slot is driven there as it is on the map.
LEMMA IntegratesInSlot ==
  ASSUME NEW q \in Poses, NEW s \in Poses, NEW ps \in Seq(Prims)
  PROVE  Integrate(q, ps) \in Poses /\ Integrate(ToSlot(q, s), ps) = ToSlot(Integrate(q, ps), s)
<1> DEFINE n == Len(ps)
<1>1. n \in Nat /\ \A i \in 1..n : ps[i] \in Prims
  OBVIOUS
<1>2. PICK after \in [0..n -> Poses] :
        /\ after[0] = q
        /\ \A i \in 1..n : after[i] = End(after[i - 1], ps[i])
        /\ Integrate(q, ps) = after[n]
  BY Integrates
<1> DEFINE r == [i \in 0..n |-> ToSlot(after[i], s)]
<1>3. ASSUME NEW i \in 1..n PROVE r[i] = End(r[i - 1], ps[i])
  <2>1. i \in 0..n /\ i - 1 \in 0..n
    BY <1>1
  <2>2. r[i] = ToSlot(End(after[i - 1], ps[i]), s) /\ r[i - 1] = ToSlot(after[i - 1], s)
    BY <1>2, <2>1
  <2>3. after[i - 1] \in Poses
    BY <2>1
  <2>4. End(ToSlot(after[i - 1], s), ps[i]) = ToSlot(End(after[i - 1], ps[i]), s)
    BY <1>1, <2>3, FramesMove
  <2>5. QED
    BY <2>2, <2>4
<1>4. 0 \in 0..n /\ n \in 0..n
  BY <1>1
<1>5. r[0] = ToSlot(q, s) /\ r[n] = ToSlot(Integrate(q, ps), s) /\ Integrate(q, ps) \in Poses
  BY <1>2, <1>4
<1> HIDE DEF r
<1>6. Follows(ToSlot(q, s), ps, r)
  BY <1>3, <1>5 DEF Follows
<1>7. ToSlot(q, s) \in Poses
  BY Frames
<1>8. QED
  BY <1>5, <1>6, <1>7, IntegrateIs

\* The car is where the segments have led it.
LEMMA DrivenLeads == ASSUME RetraceInv PROVE Integrate(trail[1], driven) = pose
<1> DEFINE n == Len(driven)
           r == [i \in 0..n |-> trail[i + 1]]
<1>1. /\ driven \in Seq(Prims) /\ n \in Nat /\ trail[1] \in Poses /\ trail[n + 1] = pose
      /\ \A i \in 1..n : trail[i + 1] = End(trail[i], driven[i])
  BY TrailFacts
<1>2. \A i \in 1..n : i \in 0..n /\ i - 1 \in 0..n /\ (i - 1) + 1 = i
  BY <1>1
<1>3. r[0] = trail[1] /\ r[n] = pose /\ \A i \in 1..n : r[i] = End(r[i - 1], driven[i])
  BY <1>1, <1>2
<1> HIDE DEF r
<1>4. Follows(trail[1], driven, r)
  BY <1>3 DEF Follows
<1>5. QED
  BY <1>1, <1>3, <1>4, IntegrateIs

\* What is planned in the slot's frame and driven on the map comes to the same place.
LEMMA CarriesOver == RetraceInv => PlansCarryOver
<1> SUFFICES ASSUME RetraceInv, NEW s \in SlotPoses
             PROVE  /\ Integrate(ToSlot(trail[1], s), driven) = ToSlot(pose, s)
                    /\ FromSlot(ToSlot(pose, s), s) = pose
  BY DEF PlansCarryOver
<1>1. driven \in Seq(Prims) /\ trail[1] \in Poses /\ pose \in Poses
  BY TrailFacts
<1>2. s \in Poses
  BY RetraceAssumption
<1>3. Integrate(ToSlot(trail[1], s), driven) = ToSlot(Integrate(trail[1], driven), s)
  BY <1>1, <1>2, IntegratesInSlot
<1>4. FromSlot(ToSlot(pose, s), s) = pose
  BY <1>1, <1>2, Frames
<1>5. QED
  BY <1>3, <1>4, DrivenLeads

\* Half a segment of a parking, driven twice, is the segment.
Half(p) == [length |-> p.length \div 2, turn |-> p.turn, direction |-> p.direction,
            angle |-> p.angle \div 2]

\* Half a circle is two quarters, and so is a straight line.
LEMMA Halves ==
  ASSUME NEW q \in Poses, NEW p \in ParkMoves
  PROVE  /\ Half(p) \in Prims /\ End(End(q, Half(p)), Half(p)) = End(q, p)
         /\ p.length = Half(p).length + Half(p).length /\ p.angle = Half(p).angle + Half(p).angle
<1>0. q.x \in Int /\ q.y \in Int /\ q.h \in {0, 1, 2, 3}
  BY PoseFields
<1>1. ASSUME NEW v \in Directions, p = Straight(v, 2)
      PROVE  /\ Half(p) \in Prims /\ End(End(q, Half(p)), Half(p)) = End(q, p)
             /\ p.length = Half(p).length + Half(p).length /\ p.angle = Half(p).angle + Half(p).angle
  <2>1. Half(p) = Straight(v, 1)
    <3>1. 2 \div 2 = 1 /\ 0 \div 2 = 0
      OBVIOUS
    <3>2. p.length = 2 /\ p.turn = 0 /\ p.direction = v /\ p.angle = 0
      BY <1>1 DEF Straight
    <3>3. QED
      BY <3>1, <3>2 DEF Half, Straight
  <2>2. Straight(v, 1) \in Prims
    BY DEF Straight, Prims, Turns, Directions
  <2>3. End(q, Straight(v, 1)) \in Poses
    BY <2>2, EndTyping
  <2> DEFINE e == End(q, Straight(v, 1))
  <2>4. e = [x |-> q.x + v * 1 * Cos(q.h), y |-> q.y + v * 1 * Sin(q.h), h |-> q.h]
    BY StraightEnds
  <2> HIDE DEF e
  <2>5. End(e, Straight(v, 1)) = [x |-> e.x + v * 1 * Cos(e.h), y |-> e.y + v * 1 * Sin(e.h), h |-> e.h]
    BY <2>3, StraightEnds DEF e
  <2>6. End(q, p) = [x |-> q.x + v * 2 * Cos(q.h), y |-> q.y + v * 2 * Sin(q.h), h |-> q.h]
    BY <1>1, StraightEnds
  <2>7. /\ (q.x + v * 1 * Cos(q.h)) + v * 1 * Cos(q.h) = q.x + v * 2 * Cos(q.h)
        /\ (q.y + v * 1 * Sin(q.h)) + v * 1 * Sin(q.h) = q.y + v * 2 * Sin(q.h)
    BY <1>0, Quarters DEF Directions
  <2>8. End(e, Straight(v, 1)) = End(q, p)
    BY <2>4, <2>5, <2>6, <2>7
  <2>9. p.length = 2 /\ p.angle = 0 /\ Half(p).length = 1 /\ Half(p).angle = 0
    BY <1>1, <2>1 DEF Straight
  <2>10. QED
    BY <2>1, <2>2, <2>8, <2>9 DEF e
<1>2. ASSUME NEW v \in Directions, NEW w \in Directions, NEW r \in Bends, p = Arc(v, w, r, 2)
      PROVE  /\ Half(p) \in Prims /\ End(End(q, Half(p)), Half(p)) = End(q, p)
             /\ p.length = Half(p).length + Half(p).length /\ p.angle = Half(p).angle + Half(p).angle
  <2>1. r \in Nat \ {0} /\ (r * 2) \div 2 = r /\ r * 1 = r /\ r \div 1 = r /\ r * 2 = r + r
    BY RetraceAssumption
  <2>2. /\ p.length = r * 2 /\ p.angle = 2 /\ p.turn = w /\ p.direction = v
        /\ p = [length |-> r * 2, turn |-> w, direction |-> v, angle |-> 2]
    BY <1>2 DEF Arc
  <2> DEFINE f == Half(p)
  <2>3. f = [length |-> r, turn |-> w, direction |-> v, angle |-> 1]
    <3>1. 2 \div 2 = 1
      OBVIOUS
    <3>2. QED
      BY <2>1, <2>2, <3>1 DEF Half
  <2> HIDE DEF f
  <2>4. f \in Prims /\ p \in Prims
    BY <2>1, <2>2, <2>3 DEF Prims, Turns, Directions
  <2> DEFINE d == v * w
             g == (q.h + d) % 4
             h == (g + d) % 4
  <2>5. d \in Int /\ v * w * 1 = d /\ v * w * 2 = d + d
    BY DEF Directions
  <2> HIDE DEF d
  <2>6. g \in {0, 1, 2, 3} /\ h \in {0, 1, 2, 3} /\ h = (q.h + (d + d)) % 4
    <3>1. q.h + d \in Int /\ (q.h + d) + d = q.h + (d + d)
      BY <1>0, <2>5
    <3>2. g \in {0, 1, 2, 3} /\ h = ((q.h + d) + d) % 4
      BY <2>5, <3>1, Wrapped
    <3>3. (q.h + d) + d \in Int
      BY <1>0, <2>5
    <3>4. QED
      BY <3>1, <3>2, <3>3, Wrapped
  <2> DEFINE e == End(q, f)
             S == w * r * Sin(q.h)
             T == w * r * Sin(g)
             U == w * r * Sin(h)
             C == w * r * Cos(q.h)
             D == w * r * Cos(g)
             E == w * r * Cos(h)
  <2>7. e = [x |-> q.x - S + T, y |-> q.y + C - D, h |-> g]
    <3>1. f.angle # 0 /\ r = f.length \div f.angle /\ g = (q.h + f.direction * f.turn * f.angle) % 4
          /\ f.turn = w
      BY <2>1, <2>3, <2>5
    <3> HIDE DEF g
    <3>2. QED
      BY <2>4, <3>1, ArcEnds
  <2> HIDE DEF e
  <2>8. End(e, f) = [x |-> e.x - T + U, y |-> e.y + D - E, h |-> h]
    <3>1. f.angle # 0 /\ r = f.length \div f.angle /\ h = (e.h + f.direction * f.turn * f.angle) % 4
          /\ f.turn = w /\ e.h = g
      BY <2>1, <2>3, <2>5, <2>7
    <3> HIDE DEF g, h
    <3>2. QED
      BY <2>4, <3>1, ArcEnds
  <2>9. End(q, p) = [x |-> q.x - S + U, y |-> q.y + C - E, h |-> h]
    <3>1. p.angle # 0 /\ r = p.length \div p.angle /\ h = (q.h + p.direction * p.turn * p.angle) % 4
      BY <2>1, <2>2, <2>5, <2>6
    <3> HIDE DEF h
    <3>2. QED
      BY <2>2, <2>4, <3>1, ArcEnds
  <2>10. /\ S \in Int /\ T \in Int /\ U \in Int /\ C \in Int /\ D \in Int /\ E \in Int
    <3>1. w * r \in Int
      BY <2>1 DEF Directions
    <3> HIDE DEF g, h
    <3>2. /\ Sin(q.h) \in Int /\ Cos(q.h) \in Int /\ Sin(g) \in Int /\ Cos(g) \in Int
          /\ Sin(h) \in Int /\ Cos(h) \in Int
      BY <1>0, <2>6, AxesAreWhole
    <3>3. QED
      BY <3>1, <3>2
  <2> HIDE DEF g, h, S, T, U, C, D, E
  <2>11. (q.x - S + T) - T + U = q.x - S + U /\ (q.y + C - D) + D - E = q.y + C - E
    BY <1>0, <2>10
  <2>12. End(e, f) = End(q, p)
    BY <2>7, <2>8, <2>9, <2>11
  <2>13. p.length = f.length + f.length /\ p.angle = f.angle + f.angle
    BY <2>1, <2>2, <2>3
  <2>14. QED
    BY <2>4, <2>12, <2>13 DEF e, f
<1>3. QED
  BY <1>1, <1>2 DEF ParkMoves, Directions

-----------------------------------------------------------------------------
(* the exit *)

\* The last segment of an exit, cut by partial_exit().
Shortened(p, k) == [length |-> p.length \div k, turn |-> p.turn, direction |-> p.direction,
                    angle |-> p.angle \div k]

\* What partial_exit() makes of the segments of a parking.
ReversesParking(ps, k, out) ==
  /\ out \in Seq(Prims) /\ Len(out) = Len(ps)
  /\ \A i \in 1..(Len(ps) - 1) : out[i] = Reversed(ps[(Len(ps) + 1) - i])
  /\ out[Len(ps)] = Shortened(Reversed(ps[1]), k)

\* The exit is the parking from its last segment to its first, the other way round.
LEMMA ExitIs ==
  ASSUME NEW ps \in Seq(Prims), ps # <<>>, NEW k \in {1, 2}
  PROVE  ReversesParking(ps, k, PartialExit(ps, k))
<1> DEFINE n == Len(ps)
           back == ReversePrims(ps)
           out == PartialExit(ps, k)
           last == Shortened(Reversed(ps[1]), k)
<1>1. n \in Nat \ {0} /\ \A i \in 1..n : ps[i] \in Prims /\ (n + 1) - i \in 1..n
  OBVIOUS
<1>2. DOMAIN back = 1..n /\ \A i \in 1..n : back[i] = Reversed(ps[(n + 1) - i])
  <2>1. back = [i \in 1..n |-> [ps[n + 1 - i] EXCEPT !.direction = -@]]
    BY DEF ReversePrims
  <2>2. QED
    BY <2>1 DEF Reversed
<1> HIDE DEF back
<1>3. \A i \in 1..n : back[i] \in Prims
  <2>1. ASSUME NEW i \in 1..n PROVE back[i] \in Prims
    <3>1. ps[(n + 1) - i] \in Prims
      BY <1>1
    <3>2. QED
      BY <1>2, <3>1, PrimFields
  <2>2. QED
    BY <2>1
<1>4. back[n] = Reversed(ps[1])
  <2>1. n \in 1..n /\ (n + 1) - n = 1
    BY <1>1
  <2>2. QED
    BY <1>2, <2>1
<1>5. last \in Prims
  <2>1. Reversed(ps[1]) \in Prims
    BY <1>1, PrimFields
  <2>2. \A a \in Nat : a \div k \in Nat
    OBVIOUS
  <2>3. QED
    BY <2>1, <2>2 DEF Shortened, Prims
<1>6. out = [i \in 1..n |-> IF i = n THEN last ELSE back[i]]
  <2>1. out = [back EXCEPT ![n].length = @ \div k, ![n].angle = @ \div k]
    BY <1>1 DEF PartialExit, back
  <2> DEFINE b == back[n]
  <2>2. b \in Prims /\ n \in 1..n
    BY <1>1, <1>3
  <2> DEFINE c == [b EXCEPT !.length = @ \div k]
             e == [c EXCEPT !.angle = @ \div k]
  <2>3. out = [[back EXCEPT ![n] = c] EXCEPT ![n] = e]
    BY <1>2, <2>1, <2>2
  <2>4. e = last
    <3>1. b = [length |-> b.length, turn |-> b.turn, direction |-> b.direction, angle |-> b.angle]
      BY <2>2 DEF Prims
    <3> DEFINE m == b.length \div k
               a == b.angle \div k
    <3>2. e = [length |-> m, turn |-> b.turn, direction |-> b.direction, angle |-> a]
      <4>1. c = [b EXCEPT !.length = m] /\ e = [c EXCEPT !.angle = c.angle \div k]
        OBVIOUS
      <4> HIDE DEF b, c, e, m
      <4>2. c = [length |-> m, turn |-> b.turn, direction |-> b.direction, angle |-> b.angle]
        BY <3>1, <4>1
      <4>3. c.angle \div k = a
        BY <4>2
      <4> HIDE DEF a
      <4>4. QED
        BY <4>1, <4>2, <4>3
    <3>3. b = Reversed(ps[1])
      BY <1>4
    <3> HIDE DEF b, e
    <3>4. QED
      BY <3>2, <3>3 DEF Shortened, m, a
  <2> HIDE DEF c, e
  <2>5. QED
    BY <1>2, <2>3, <2>4
<1> HIDE DEF out, last
<1>7. Len(out) = n /\ out \in Seq(Prims)
  <2>1. out \in [1..n -> Prims]
    BY <1>3, <1>5, <1>6
  <2>2. QED
    BY <1>1, <2>1
<1>8. out[n] = last /\ \A i \in 1..(n - 1) : out[i] = Reversed(ps[(n + 1) - i])
  BY <1>1, <1>2, <1>6
<1>9. QED
  BY <1>7, <1>8 DEF ReversesParking, out, last

\* The exit undoes the plan segment by segment, and of the first one the part it is
\* left with.
LEMMA ExitUndoes ==
  ASSUME NEW ps \in Parkings, NEW q \in Poses, NEW k \in {1, 2}, NEW out, out = PartialExit(ps, k)
  PROVE  Integrate(Integrate(q, ps), out) =
           End(q, [ps[1] EXCEPT !.length = @ - Last(out).length, !.angle  = @ - Last(out).angle])
<1> DEFINE n == Len(ps)
           first == ps[1]
           e == Integrate(q, ps)
<1>0. /\ ps \in Seq(Prims) /\ ps # <<>> /\ n \in Nat \ {0}
      /\ \A i \in 1..n : ps[i] \in ParkMoves /\ ps[i] \in Prims
  BY PlanFacts
<1>1. PICK after \in [0..n -> Poses] :
        /\ after[0] = q
        /\ \A i \in 1..n : after[i] = End(after[i - 1], ps[i])
        /\ e = after[n]
  BY <1>0, Integrates
<1> DEFINE t == [i \in 1..(n + 1) |-> after[i - 1]]
<1>2. /\ ps \in Seq(Prims) /\ ps # <<>> /\ n \in Nat /\ t[1] = q /\ t[1] \in Poses /\ t[n + 1] = e /\ e \in Poses
      /\ \A i \in 1..n : /\ ps[i] \in Prims /\ ps[i] \in ParkMoves
                         /\ t[i] \in Poses /\ t[i + 1] = End(t[i], ps[i])
  <2>1. /\ 1 \in 1..(n + 1) /\ n + 1 \in 1..(n + 1) /\ 1 - 1 = 0 /\ (n + 1) - 1 = n
        /\ 0 \in 0..n /\ n \in 0..n
    BY <1>0
  <2>2. \A i \in 1..n : /\ i \in 1..(n + 1) /\ i + 1 \in 1..(n + 1) /\ (i + 1) - 1 = i
                        /\ i \in 0..n /\ i - 1 \in 0..n
    BY <1>0
  <2>3. t[1] = q /\ t[n + 1] = e /\ e \in Poses
    BY <1>1, <2>1
  <2>4. \A i \in 1..n : t[i] \in Poses /\ t[i + 1] = End(t[i], ps[i])
    BY <1>1, <2>2
  <2> HIDE DEF t, e
  <2>5. QED
    BY <1>0, <2>3, <2>4
<1> HIDE DEF t, e
<1>3. n \in Nat \ {0} /\ 1 \in 1..n /\ n \in 1..n
  BY <1>1, <1>2
<1>4. ReversesParking(ps, k, out)
  BY <1>2, ExitIs, Zenon
<1>5. /\ out \in Seq(Prims) /\ Len(out) = n
      /\ \A i \in 1..(n - 1) : out[i] = Reversed(ps[(n + 1) - i])
      /\ out[n] = Shortened(Reversed(first), k)
  BY <1>4 DEF ReversesParking
<1>6. first \in Prims /\ first \in ParkMoves /\ t[2] = End(t[1], first)
  <2>1. 1 + 1 = 2
    OBVIOUS
  <2>2. QED
    BY <1>2, <1>3, <2>1
<1> DEFINE part == [ps[1] EXCEPT !.length = @ - Last(out).length, !.angle  = @ - Last(out).angle]
           r == [i \in 0..n |-> IF i = n THEN End(t[2], out[n]) ELSE t[(n + 1) - i]]
<1> HIDE DEF first
<1>7. part = [length |-> first.length - out[n].length, turn |-> first.turn, direction |-> first.direction,
              angle |-> first.angle - out[n].angle]
  <2>1. Last(out) = out[n]
    BY <1>5 DEF Last
  <2>2. first = [length |-> first.length, turn |-> first.turn, direction |-> first.direction, angle |-> first.angle]
    BY <1>6 DEF Prims
  <2>3. part = [first EXCEPT !.length = @ - out[n].length, !.angle = @ - out[n].angle]
    BY <2>1 DEF first
  <2> HIDE DEF part
  <2>4. QED
    BY <2>2, <2>3
<1> HIDE DEF part
<1>8. ASSUME NEW i \in 1..n PROVE r[i] = End(r[i - 1], out[i])
  <2>1. CASE i = n
    <3>1. i - 1 \in 0..n /\ i - 1 # n /\ (n + 1) - (i - 1) = 2 /\ n \in 0..n
      BY <1>3, <2>1
    <3>2. r[i - 1] = t[2] /\ r[i] = End(t[2], out[n])
      BY <2>1, <3>1
    <3>3. QED
      BY <2>1, <3>2
  <2>2. CASE i # n
    <3> DEFINE j == (n + 1) - i
    <3>1. /\ i \in 1..(n - 1) /\ i \in 0..n /\ i - 1 \in 0..n /\ i - 1 # n
          /\ (n + 1) - (i - 1) = j + 1 /\ j \in 1..n
      BY <1>3, <2>2
    <3>2. r[i] = t[j] /\ r[i - 1] = t[j + 1]
      BY <2>2, <3>1
    <3>3. out[i] = Reversed(ps[j])
      BY <1>5, <3>1
    <3> HIDE DEF j, r
    <3>4. t[j + 1] = End(t[j], ps[j]) /\ t[j] \in Poses /\ ps[j] \in Prims
      BY <1>2, <3>1
    <3>5. End(End(t[j], ps[j]), Reversed(ps[j])) = t[j]
      BY <3>4, Undone
    <3>6. QED
      BY <3>2, <3>3, <3>4, <3>5
  <2>3. QED
    BY <2>1, <2>2
<1>9. r[0] = e /\ r[n] = End(t[2], out[n])
  BY <1>2, <1>3
<1> HIDE DEF r
<1>10. Follows(e, out, r)
  BY <1>5, <1>8, <1>9 DEF Follows
<1>11. Integrate(e, out) = End(t[2], out[n])
  BY <1>2, <1>5, <1>9, <1>10, IntegrateIs
<1>12. End(t[2], out[n]) = End(t[1], part)
  <2>0. /\ first.length \in Nat /\ first.angle \in Nat /\ first.turn \in {-1, 0, 1} /\ first.direction \in {-1, 1}
        /\ Reversed(first).length = first.length /\ Reversed(first).angle = first.angle
        /\ Reversed(first).turn = first.turn /\ Reversed(first).direction = -first.direction
        /\ Reversed(first) = [length |-> first.length, turn |-> first.turn, direction |-> -first.direction,
                              angle |-> first.angle]
    <3>1. /\ first.length \in Nat /\ first.angle \in Nat /\ first.turn \in {-1, 0, 1} /\ first.direction \in {-1, 1}
          /\ Reversed(first).length = first.length /\ Reversed(first).angle = first.angle
          /\ Reversed(first).turn = first.turn /\ Reversed(first).direction = -first.direction
          /\ Reversed(first) \in Prims
      BY <1>6, PrimFields
    <3>2. \A p \in Prims : p = [length |-> p.length, turn |-> p.turn, direction |-> p.direction, angle |-> p.angle]
      BY DEF Prims
    <3>3. QED
      BY <3>1, <3>2
  <2>1. CASE k = 1
    <3>1. out[n] = Reversed(first)
      <4>1. first.length \div k = first.length /\ first.angle \div k = first.angle
        BY <2>0, <2>1
      <4>2. QED
        BY <1>5, <2>0, <4>1 DEF Shortened
    <3>2. End(t[2], out[n]) = t[1]
      BY <1>2, <1>6, <3>1, Undone
    <3>3. part = [length |-> 0, turn |-> first.turn, direction |-> first.direction, angle |-> 0]
      BY <1>7, <2>0, <3>1
    <3>4. End(t[1], part) = t[1]
      <4> DEFINE o == t[1]
      <4>1. o \in Poses
        BY <1>2
      <4> HIDE DEF o
      <4>2. o.x \in Int /\ o.y \in Int /\ o.h \in {0, 1, 2, 3} /\ o = [x |-> o.x, y |-> o.y, h |-> o.h]
        BY <4>1, PoseFields
      <4>3. Cos(o.h) \in Int /\ Sin(o.h) \in Int
        BY <4>2, AxesAreWhole
      <4> DEFINE a == o.x + first.direction * 0 * Cos(o.h)
                 b == o.y + first.direction * 0 * Sin(o.h)
      <4>4. a = o.x /\ b = o.y
        BY <2>0, <4>2, <4>3
      <4>5. End(o, part) = [o EXCEPT !.x = a, !.y = b]
        BY <3>3 DEF End, StraightEnd
      <4> HIDE DEF a, b
      <4>6. End(o, part) = [o EXCEPT !.x = o.x, !.y = o.y]
        BY <4>4, <4>5
      <4>7. QED
        BY <4>2, <4>6 DEF o
    <3>5. QED
      BY <3>2, <3>4
  <2>2. CASE k = 2
    <3> DEFINE half == Half(first)
               mid == End(t[1], half)
    <3>1. /\ half \in Prims /\ End(mid, half) = t[2]
          /\ first.length = half.length + half.length /\ first.angle = half.angle + half.angle
      BY <1>2, <1>6, Halves
    <3>2. mid \in Poses
      BY <1>2, <3>1, EndTyping
    <3>3. half = [length |-> first.length \div 2, turn |-> first.turn, direction |-> first.direction,
                  angle |-> first.angle \div 2]
      BY DEF Half
    <3> HIDE DEF half, mid
    <3>4. out[n] = Reversed(half)
      <4>1. out[n] = [length |-> half.length, turn |-> half.turn, direction |-> -half.direction, angle |-> half.angle]
        BY <1>5, <2>0, <2>2, <3>3 DEF Shortened
      <4>2. /\ Reversed(half) \in Prims /\ Reversed(half).length = half.length /\ Reversed(half).angle = half.angle
            /\ Reversed(half).turn = half.turn /\ Reversed(half).direction = -half.direction
        BY <3>1, PrimFields
      <4>3. \A p \in Prims : p = [length |-> p.length, turn |-> p.turn, direction |-> p.direction, angle |-> p.angle]
        BY DEF Prims
      <4>4. QED
        BY <4>1, <4>2, <4>3
    <3>5. End(t[2], out[n]) = mid
      BY <3>1, <3>2, <3>4, Undone
    <3>6. part = half
      <4>1. out[n].length = half.length /\ out[n].angle = half.angle /\ half.length \in Nat /\ half.angle \in Nat
        BY <3>1, <3>4, PrimFields
      <4>2. first.length - half.length = half.length /\ first.angle - half.angle = half.angle
        BY <3>1, <4>1
      <4>3. half = [length |-> half.length, turn |-> first.turn, direction |-> first.direction, angle |-> half.angle]
        BY <3>3
      <4>4. QED
        BY <1>7, <4>1, <4>2, <4>3
    <3>7. QED
      BY <3>5, <3>6 DEF mid
  <2>3. QED
    BY <2>1, <2>2
<1>13. QED
  BY <1>2, <1>11, <1>12 DEF part, e

\* There is one place from which a pose is seen as it is.
LEMMA SeenFrom ==
  ASSUME NEW x \in Poses, NEW e \in Poses, NEW f \in Poses, ToSlot(x, e) = ToSlot(x, f)
  PROVE  e = f
<1>1. /\ x.x \in Int /\ x.y \in Int /\ x.h \in {0, 1, 2, 3}
      /\ e.x \in Int /\ e.y \in Int /\ e.h \in {0, 1, 2, 3} /\ e = [x |-> e.x, y |-> e.y, h |-> e.h]
      /\ f.x \in Int /\ f.y \in Int /\ f.h \in {0, 1, 2, 3} /\ f = [x |-> f.x, y |-> f.y, h |-> f.h]
  BY PoseFields
<1> DEFINE InFront(s) == Cos(s.h) * (x.x - s.x) + Sin(s.h) * (x.y - s.y)
           Aside(s) == Cos(s.h) * (x.y - s.y) - Sin(s.h) * (x.x - s.x)
<1>2. \A s : /\ ToSlot(x, s).x = InFront(s) /\ ToSlot(x, s).y = Aside(s)
             /\ ToSlot(x, s).h = (x.h - s.h) % 4
  BY DEF ToSlot
<1>3. InFront(e) = InFront(f) /\ Aside(e) = Aside(f)
  <2> HIDE DEF InFront, Aside
  <2>1. QED
    BY <1>2
<1>4. e.h = f.h
  <2>1. (x.h - e.h) % 4 = (x.h - f.h) % 4
    BY <1>2
  <2>2. \A a, b, c \in {0, 1, 2, 3} : (a - b) % 4 = (a - c) % 4 => b = c
    OBVIOUS
  <2>3. QED
    BY <1>1, <2>1, <2>2
<1>5. e.x = f.x /\ e.y = f.y
  <2>1. CASE e.h = 0
    <3>1. \A s \in {e, f} : InFront(s) = x.x - s.x /\ Aside(s) = x.y - s.y
      BY <1>1, <1>4, <2>1, Quarters
    <3>2. QED
      BY <1>1, <1>3, <3>1
  <2>2. CASE e.h = 1
    <3>1. \A s \in {e, f} : InFront(s) = x.y - s.y /\ Aside(s) = -(x.x - s.x)
      BY <1>1, <1>4, <2>2, Quarters
    <3>2. QED
      BY <1>1, <1>3, <3>1
  <2>3. CASE e.h = 2
    <3>1. \A s \in {e, f} : InFront(s) = -(x.x - s.x) /\ Aside(s) = -(x.y - s.y)
      BY <1>1, <1>4, <2>3, Quarters
    <3>2. QED
      BY <1>1, <1>3, <3>1
  <2>4. CASE e.h = 3
    <3>1. \A s \in {e, f} : InFront(s) = -(x.y - s.y) /\ Aside(s) = x.x - s.x
      BY <1>1, <1>4, <2>4, Quarters
    <3>2. QED
      BY <1>1, <1>3, <3>1
  <2>5. QED
    BY <1>1, <2>1, <2>2, <2>3, <2>4
<1>6. QED
  BY <1>1, <1>4, <1>5

\* From its own place every pose is seen at the origin.
LEMMA SeenAtOrigin == ASSUME NEW q \in Poses PROVE ToSlot(q, q) = Origin
<1>1. q.x \in Int /\ q.y \in Int /\ q.h \in {0, 1, 2, 3}
  BY PoseFields
<1>2. q.x - q.x = 0 /\ q.y - q.y = 0 /\ (q.h - q.h) % 4 = 0
  BY <1>1
<1>3. Cos(q.h) \in Int /\ Sin(q.h) \in Int
  BY <1>1, AxesAreWhole
<1>4. /\ Cos(q.h) * 0 + Sin(q.h) * 0 = 0
      /\ Cos(q.h) * 0 - Sin(q.h) * 0 = 0
  BY <1>3
<1>5. QED
  BY <1>2, <1>4 DEF ToSlot, Origin

\* From the end of the plan the exit comes to its first segment; from elsewhere it does
\* the same as it is seen from there.
LEMMA ExitIsOff == RetraceInv => ExitOffAsParked
<1> SUFFICES ASSUME RetraceInv, stage = "exit"
             PROVE  /\ ToSlot(Integrate(pose, prims), pose) = ToSlot(ExitPoint, PlannedEnd)
                    /\ (Integrate(pose, prims) = ExitPoint) <=> (pose = PlannedEnd)
  BY DEF ExitOffAsParked
<1> DEFINE ps == last_park_prims
           e == PlannedEnd
<1>1. PICK k \in {1, 2} : prims = PartialExit(ps, k)
  BY DEF RetraceInv, WayBackIsMade
<1>2. ps \in Parkings /\ ps \in Seq(Prims) /\ ps # <<>>
  <2>1. ps \in Parkings
    BY DEF RetraceInv, PlanIsThere
  <2>2. QED
    BY <2>1, PlanFacts
<1>3. prims \in Seq(Prims)
  <2>1. ReversesParking(ps, k, prims)
    BY <1>1, <1>2, ExitIs, Zenon
  <2>2. QED
    BY <2>1 DEF ReversesParking
<1>4. trail[1] \in Poses /\ pose \in Poses
  BY TrailFacts
<1>5. e \in Poses
  BY <1>2, <1>4, IntegratesInSlot DEF PlannedEnd
<1>6. Integrate(e, prims) = ExitPoint
  BY <1>1, <1>2, <1>4, ExitUndoes DEF PlannedEnd, ExitPoint
<1> HIDE DEF e
<1>7. ASSUME NEW q \in Poses
      PROVE  Integrate(q, prims) \in Poses /\ ToSlot(Integrate(q, prims), q) = Integrate(Origin, prims)
  BY <1>3, IntegratesInSlot, SeenAtOrigin
<1>8. ToSlot(Integrate(pose, prims), pose) = ToSlot(Integrate(e, prims), e)
  BY <1>4, <1>5, <1>7
<1>9. Integrate(pose, prims) = Integrate(e, prims) => pose = e
  BY <1>4, <1>5, <1>7, <1>8, SeenFrom
<1>10. QED
  BY <1>6, <1>8, <1>9 DEF e

-----------------------------------------------------------------------------
(* the retreat as a whole *)

\* The pieces of the trail of a leg are the moves of the leg.
LEMMA PiecesOfTrail ==
  ASSUME RetraceInv, stage = "retreat",
         NEW ps, ps = [i \in 1..(Len(trail) - 1) |-> Piece(trail[i], trail[i + 1])]
  PROVE  /\ ps \in Seq(Group) /\ ps # <<>>
         /\ SumOf(Extents(ps)) = TotalLength(driven) /\ SumOf(Angles(ps)) = Turned(driven)
<1> DEFINE n == Len(driven)
<1>1. /\ driven \in Seq(Prims) /\ n \in Nat /\ Len(trail) = n + 1
      /\ \A i \in 1..n : /\ driven[i] \in MovesOf(stage) /\ driven[i] \in Prims
                         /\ trail[i] \in Poses /\ trail[i + 1] = End(trail[i], driven[i])
  BY TrailFacts
<1>2. n \in Nat \ {0}
  BY <1>1 DEF RetraceInv, WayBackIsMade
<1>3. ASSUME NEW i \in 1..n
      PROVE  /\ Piece(trail[i], trail[i + 1]) = [length |-> driven[i].length, angle |-> DYaw(driven[i])]
             /\ Piece(trail[i], trail[i + 1]) \in Group
  <2>1. driven[i] \in LegMoves
    BY <1>1 DEF MovesOf
  <2>2. Piece(trail[i], trail[i + 1]) = [length |-> driven[i].length, angle |-> DYaw(driven[i])]
    BY <1>1, <2>1, PieceIs
  <2>3. driven[i].length \in Nat \ {0} /\ DYaw(driven[i]) \in Int
    BY <1>1, <2>1, Moves, PrimFields DEF DYaw
  <2>4. QED
    BY <2>2, <2>3 DEF Group
<1>4. ps = [i \in 1..n |-> Piece(trail[i], trail[i + 1])]
  BY <1>1
<1>5. ps \in Seq(Group) /\ Len(ps) = n
  <2>1. ps \in [1..n -> Group]
    BY <1>3, <1>4
  <2>2. QED
    BY <1>1, <2>1
<1>6. /\ Extents(ps) \in Seq(Int) /\ Len(Extents(ps)) = n /\ Angles(ps) \in Seq(Int) /\ Len(Angles(ps)) = n
      /\ \A i \in 1..n : Extents(ps)[i] = ps[i].length /\ Angles(ps)[i] = ps[i].angle
  BY <1>5, GroupTyping
<1>7. /\ Extents(driven) \in Seq(Int) /\ Len(Extents(driven)) = n /\ Yaws(driven) \in Seq(Int) /\ Len(Yaws(driven)) = n
      /\ \A i \in 1..n : Extents(driven)[i] = driven[i].length /\ Yaws(driven)[i] = DYaw(driven[i])
      /\ TotalLength(driven) = SumOf(Extents(driven)) /\ Turned(driven) = SumOf(Yaws(driven))
  BY <1>1, PrimTyping
<1>8. ASSUME NEW i \in 1..n PROVE Extents(ps)[i] = Extents(driven)[i] /\ Angles(ps)[i] = Yaws(driven)[i]
  <2>1. ps[i] = [length |-> driven[i].length, angle |-> DYaw(driven[i])]
    BY <1>3, <1>4
  <2>2. ps[i].length = driven[i].length /\ ps[i].angle = DYaw(driven[i])
    BY <2>1
  <2>3. Extents(ps)[i] = driven[i].length /\ Angles(ps)[i] = DYaw(driven[i])
    BY <1>6, <2>2
  <2>4. QED
    BY <1>7, <2>3
<1>9. Extents(ps) = Extents(driven) /\ Angles(ps) = Yaws(driven)
  BY <1>6, <1>7, <1>8, SeqEqual
<1>10. ps # <<>>
  BY <1>2, <1>5
<1>11. QED
  BY <1>5, <1>7, <1>9, <1>10

\* Groups in the reversed order have the same length and the same angle.
LEMMA GroupsReverse ==
  ASSUME NEW gs \in Seq(Group), gs # <<>>
  PROVE  /\ Reverse(gs) \in Seq(Group) /\ Reverse(gs) # <<>>
         /\ SumOf(Extents(Reverse(gs))) = SumOf(Extents(gs))
         /\ SumOf(Angles(Reverse(gs))) = SumOf(Angles(gs))
<1> DEFINE n == Len(gs)
           back == Reverse(gs)
<1>1. n \in Nat \ {0} /\ \A i \in 1..n : gs[i] \in Group /\ (n - i) + 1 \in 1..n
  OBVIOUS
<1>2. back = [i \in 1..n |-> gs[(n - i) + 1]]
  BY DEF Reverse
<1> HIDE DEF back
<1>3. back \in Seq(Group) /\ Len(back) = n /\ back # <<>>
  <2>1. back \in [1..n -> Group]
    BY <1>1, <1>2
  <2>2. back \in Seq(Group) /\ Len(back) = n
    BY <1>1, <2>1
  <2>3. QED
    BY <1>1, <2>2
<1>4. /\ Extents(gs) \in Seq(Int) /\ Len(Extents(gs)) = n /\ Angles(gs) \in Seq(Int) /\ Len(Angles(gs)) = n
      /\ \A i \in 1..n : Extents(gs)[i] = gs[i].length /\ Angles(gs)[i] = gs[i].angle
  BY GroupTyping
<1>5. Extents(back) = [i \in 1..n |-> Extents(gs)[(n - i) + 1]]
      /\ Angles(back) = [i \in 1..n |-> Angles(gs)[(n - i) + 1]]
  <2>1. DOMAIN back = 1..n /\ \A i \in 1..n : back[i] = gs[(n - i) + 1]
    BY <1>2
  <2>2. \A i \in 1..n : back[i].length = Extents(gs)[(n - i) + 1] /\ back[i].angle = Angles(gs)[(n - i) + 1]
    BY <1>1, <1>4, <2>1
  <2>3. QED
    BY <2>1, <2>2 DEF Extents, Angles
<1>6. SumOf(Extents(back)) = SumOf(Extents(gs)) /\ SumOf(Angles(back)) = SumOf(Angles(gs))
  BY <1>4, <1>5, SumReverse
<1>7. QED
  BY <1>3, <1>6 DEF back

\* What the segments of a retreat are.
LEMMA RetreatFacts ==
  ASSUME RetraceInv, stage = "retreat"
  PROVE  /\ prims \in Seq(Backs) /\ prims \in Seq(Prims)
         /\ AsLong(TotalLength(prims), limit, TotalLength(driven))
         /\ limit = 0 => TurnsAllBack(Turned(prims), Turned(driven), TotalLength(driven))
<1> DEFINE ps == [i \in 1..(Len(trail) - 1) |-> Piece(trail[i], trail[i + 1])]
           gs == Groups(trail)
           back == Reverse(gs)
<1>1. /\ ps \in Seq(Group) /\ ps # <<>>
      /\ SumOf(Extents(ps)) = TotalLength(driven) /\ SumOf(Angles(ps)) = Turned(driven)
  <2> HIDE DEF ps
  <2>1. ps = [i \in 1..(Len(trail) - 1) |-> Piece(trail[i], trail[i + 1])]
    BY DEF ps
  <2>2. QED
    BY <2>1, PiecesOfTrail
<1>2. gs = Loop(Grouped, <<>>, ps)
  BY DEF Groups
<1> HIDE DEF ps, gs
<1>3. /\ gs \in Seq(Group) /\ gs # <<>>
      /\ SumOf(Extents(gs)) = TotalLength(driven) /\ SumOf(Angles(gs)) = Turned(driven)
  BY <1>1, <1>2, GroupingKeeps
<1>4. /\ back \in Seq(Group) /\ back # <<>>
      /\ SumOf(Extents(back)) = TotalLength(driven) /\ SumOf(Angles(back)) = Turned(driven)
  BY <1>3, GroupsReverse
<1>5. back = Reverse(Groups(trail))
  BY DEF gs
<1> HIDE DEF back
<1>6. prims = TrailToPrims(trail, limit) /\ limit \in Nat
  BY RetraceAssumption DEF RetraceInv, WayBackIsMade
<1>7. /\ TrailToPrims(trail, limit) \in Seq(Backs)
      /\ AsLong(TotalLength(TrailToPrims(trail, limit)), limit, SumOf(Extents(back)))
      /\ limit = 0 => TurnsAllBack(Turned(TrailToPrims(trail, limit)), SumOf(Angles(back)), SumOf(Extents(back)))
  BY <1>4, <1>5, <1>6, RetreatIs, Zenon
<1>8. Backs \subseteq Prims
  BY DEF Backs
<1>9. QED
  BY <1>4, <1>6, <1>7, <1>8

\* The heading is what the segments have turned the car to.
LEMMA HeadingIsTurned ==
  ASSUME RetraceInv
  PROVE  pose.h = (trail[1].h + Turned(driven)) % 4 /\ trail[1].h \in {0, 1, 2, 3}
<1> DEFINE n == Len(driven)
<1>1. /\ driven \in Seq(Prims) /\ n \in Nat /\ trail[1] \in Poses /\ trail[n + 1] = pose
      /\ \A i \in 1..n : driven[i] \in Prims /\ trail[i] \in Poses /\ trail[i + 1] = End(trail[i], driven[i])
  BY TrailFacts
<1>2. /\ Yaws(driven) \in Seq(Int) /\ Len(Yaws(driven)) = n /\ Turned(driven) = SumOf(Yaws(driven))
      /\ \A i \in 1..n : Yaws(driven)[i] = DYaw(driven[i])
  BY <1>1, PrimTyping
<1>3. PICK y : RunningSum(Yaws(driven), y) /\ SumOf(Yaws(driven)) = y[n]
  BY <1>2, SumRunning
<1>4. y[0] = 0 /\ (\A i \in 0..n : y[i] \in Int) /\ \A i \in 1..n : y[i] = y[i - 1] + DYaw(driven[i])
  BY <1>2, <1>3 DEF RunningSum
<1> DEFINE a == trail[1].h
           Good == {i \in Nat : i <= n => trail[i + 1].h = (a + y[i]) % 4}
<1>5. a \in {0, 1, 2, 3}
  BY <1>1, PoseFields
<1>6. 0 \in Good
  <2>1. (a + 0) % 4 = a
    BY <1>5
  <2>2. QED
    BY <1>4, <2>1
<1>7. ASSUME NEW i \in Nat, i \in Good PROVE i + 1 \in Good
  <2>1. SUFFICES ASSUME i + 1 <= n PROVE trail[(i + 1) + 1].h = (a + y[i + 1]) % 4
    OBVIOUS
  <2> DEFINE q == trail[i + 1]
             p == driven[i + 1]
             d == DYaw(p)
  <2>2. i + 1 \in 1..n /\ i \in 0..n /\ (i + 1) - 1 = i
    BY <2>1
  <2>3. /\ q.h = (a + y[i]) % 4 /\ q \in Poses /\ p \in Prims /\ trail[(i + 1) + 1] = End(q, p)
        /\ y[i + 1] = y[i] + d /\ y[i] \in Int
    BY <1>1, <1>4, <1>7, <2>1, <2>2
  <2> HIDE DEF q, p
  <2>4. d \in Int
    BY <2>3, PrimFields DEF DYaw
  <2>5. End(q, p).h = (q.h + d) % 4
    <3>1. CASE p.angle = 0
      <4>1. d = 0
        BY <2>3, <3>1, PrimFields DEF DYaw
      <4>2. End(q, p).h = q.h /\ q.h \in {0, 1, 2, 3}
        BY <2>3, <3>1, PoseFields DEF End, StraightEnd
      <4> HIDE DEF d
      <4>3. QED
        BY <4>1, <4>2
    <3>2. CASE p.angle # 0
      BY <3>2 DEF End, ArcEnd
    <3>3. QED
      BY <3>1, <3>2
  <2> HIDE DEF d
  <2>6. (((a + y[i]) % 4) + d) % 4 = ((a + y[i]) + d) % 4 /\ (a + y[i]) + d = a + (y[i] + d)
    <3>1. a + y[i] \in Int /\ (a + y[i]) + d = a + (y[i] + d)
      BY <1>5, <2>3, <2>4
    <3>2. QED
      BY <2>4, <3>1, Wrapped
  <2>7. QED
    BY <2>3, <2>5, <2>6
<1>8. Nat \subseteq Good
  <2> HIDE DEF Good
  <2>1. QED
    BY <1>6, <1>7, SetInduction
<1>9. QED
  BY <1>1, <1>2, <1>3, <1>5, <1>8

\* The retreat goes backwards, is as long as the leg or the limit, and turns the car back.
LEMMA RetreatUndoes == RetraceInv => RetreatUndoesLeg
<1> SUFFICES ASSUME RetraceInv, stage = "retreat"
             PROVE  /\ TotalLength(prims) =
                         IF limit > 0 /\ limit < TotalLength(driven) THEN limit ELSE TotalLength(driven)
                    /\ \A i \in DOMAIN prims : prims[i].direction = -1 /\ prims[i].length > 0
                    /\ limit = 0 =>
                         \E lost \in -TotalLength(driven)..TotalLength(driven) :
                           /\ 20 * Unit * Absolute(lost) < TotalLength(driven)
                           /\ (pose.h + Turned(prims) - lost) % 4 = trail[1].h
  BY DEF RetreatUndoesLeg
<1>1. /\ prims \in Seq(Backs) /\ prims \in Seq(Prims)
      /\ AsLong(TotalLength(prims), limit, TotalLength(driven))
      /\ limit = 0 => TurnsAllBack(Turned(prims), Turned(driven), TotalLength(driven))
  BY RetreatFacts
<1>2. TotalLength(prims) =
        IF limit > 0 /\ limit < TotalLength(driven) THEN limit ELSE TotalLength(driven)
  BY <1>1 DEF AsLong
<1>3. \A i \in DOMAIN prims : prims[i].direction = -1 /\ prims[i].length > 0
  <2>1. \A i \in DOMAIN prims : prims[i] \in Backs
    BY <1>1
  <2>2. QED
    BY <2>1 DEF Backs
<1>4. ASSUME limit = 0
      PROVE  \E lost \in -TotalLength(driven)..TotalLength(driven) :
               /\ 20 * Unit * Absolute(lost) < TotalLength(driven)
               /\ (pose.h + Turned(prims) - lost) % 4 = trail[1].h
  <2> DEFINE x == Turned(prims)
             y == Turned(driven)
             w == TotalLength(driven)
             a == trail[1].h
             lost == x + y
  <2>1. x \in Int /\ y \in Int /\ w \in Int
    <3>1. driven \in Seq(Prims)
      BY TrailFacts
    <3>2. QED
      BY <1>1, <3>1, PrimTyping
  <2>2. pose.h = (a + y) % 4 /\ a \in {0, 1, 2, 3}
    BY HeadingIsTurned
  <2>3. 20 * Unit * Absolute(lost) < w
    BY <1>1, <1>4 DEF TurnsAllBack
  <2> HIDE DEF x, y, w, a
  <2>4. lost \in Int /\ Absolute(lost) \in Nat
    BY <2>1 DEF Absolute
  <2>5. (pose.h + x - lost) % 4 = a
    <3>1. a + y \in Int /\ -y \in Int /\ (a + y) % 4 \in {0, 1, 2, 3}
      BY <2>1, <2>2, Wrapped
    <3>2. pose.h + x - lost = ((a + y) % 4) + (-y)
      BY <2>1, <2>2, <3>1
    <3>3. (((a + y) % 4) + (-y)) % 4 = ((a + y) + (-y)) % 4
      BY <3>1, Wrapped
    <3>4. (a + y) + (-y) = a /\ a % 4 = a
      BY <2>1, <2>2
    <3>5. QED
      BY <3>2, <3>3, <3>4
  <2>6. Absolute(lost) <= 20 * Unit * Absolute(lost)
    <3>1. 20 * Unit \in Int /\ 20 * Unit >= 1
      BY RetraceAssumption
    <3>2. 20 * Unit * Absolute(lost) >= Absolute(lost)
      BY <2>4, <3>1, MulMono
    <3>3. 20 * Unit * Absolute(lost) \in Int
      BY <2>4, <3>1
    <3>4. QED
      BY <2>4, <3>2, <3>3
  <2>7. lost \in (-w)..w
    <3> DEFINE k == 20 * Unit * Absolute(lost)
    <3>1. k \in Int /\ Absolute(lost) <= k /\ k < w
      BY <2>3, <2>4, <2>6, RetraceAssumption
    <3> HIDE DEF k
    <3>2. Absolute(lost) < w
      BY <2>1, <2>4, <3>1
    <3>3. QED
      BY <2>1, <2>4, <3>2 DEF Absolute
  <2>8. QED
    BY <2>3, <2>5, <2>7 DEF x, y, w, a
<1>5. QED
  BY <1>2, <1>3, <1>4

\* The parts of the invariant have their types.
LEMMA RetraceTyping == RetraceInv => RetraceTypeOK
<1> SUFFICES ASSUME RetraceInv PROVE RetraceTypeOK
  OBVIOUS
<1>1. driven \in Seq(Prims) /\ trail \in Seq(Poses) /\ Len(trail) = Len(driven) + 1 /\ Len(driven) \in Nat
  BY TrailFacts
<1>2. trail # <<>>
  BY <1>1
<1>3. prims \in Seq(Prims)
  <2>1. CASE stage \in {"leg", "parking", "parked", "failed"}
    <3>1. prims = <<>>
      BY <2>1 DEF RetraceInv, WayBackIsMade
    <3>2. QED
      BY <3>1
  <2>2. CASE stage = "retreat"
    BY <2>2, RetreatFacts
  <2>3. CASE stage = "exit"
    <3>1. PICK k \in {1, 2} : prims = PartialExit(last_park_prims, k)
      BY <2>3 DEF RetraceInv, WayBackIsMade
    <3>2. last_park_prims \in Parkings
      BY <2>3 DEF RetraceInv, PlanIsThere
    <3>3. ReversesParking(last_park_prims, k, prims)
      BY <3>1, <3>2, PlanFacts, ExitIs, Zenon
    <3>4. QED
      BY <3>3 DEF ReversesParking
  <2>4. QED
    BY <2>1, <2>2, <2>3 DEF RetraceInv
<1>4. QED
  BY <1>1, <1>2, <1>3 DEF RetraceInv, RetraceTypeOK, TrailIsDriven, PlanIsThere, WayBackIsMade

\* Every variable of Retrace keeps its type, for all radii, limits and slots
\* (geometry.py): a way back that is planned is a sequence of segments.
THEOREM RetraceTypeCorrect == RetraceSpec => []RetraceTypeOK
BY RetraceInvariant, RetraceTyping, PTL

\* A plan made in the frame of the slot leads to the same place when it is driven on the
\* map, for segments of every radius and slots anywhere (geometry.py 67-89, 156-162).
THEOREM FramesCarryPlans == RetraceSpec => []PlansCarryOver
BY RetraceInvariant, CarriesOver, PTL

\* The exit is off its way by just what the parking missed of its plan, whatever the plan,
\* wherever the executor broke off and whatever was corrected: it comes out on the first
\* segment of the plan if the car stood at the end of the plan and in no other case
\* (geometry.py 226-261, mission_manager.py 567-574, 617-620, 643-648).
THEOREM ExitIsOffAsParked == RetraceSpec => []ExitOffAsParked
BY RetraceInvariant, ExitIsOff, PTL

\* The retreat goes backwards, is as long as the leg or as the limit, and gives the car
\* its first heading back but for what passed for straight, whatever was averaged by
\* grouping (geometry.py 264-346).
THEOREM RetreatTurnsBack == RetraceSpec => []RetreatUndoesLeg
BY RetraceInvariant, RetreatUndoes, PTL

-----------------------------------------------------------------------------
(* the retreat follows the trail *)

\* Dividing by a positive number keeps an order.
LEMMA Cancel ==
  ASSUME NEW n \in Nat \ {0}, NEW x \in Int, NEW y \in Int
  PROVE  (n * x <= n * y => x <= y) /\ (n * x < n * y => x < y)
<1>1. CASE x = y
  BY <1>1
<1>2. CASE x < y
  BY <1>2
<1>3. CASE y < x
  <2>1. x - y \in Nat /\ x - y >= 1 /\ n >= 1
    BY <1>3
  <2>2. n * (x - y) >= n
    BY <2>1, MulMono
  <2>3. n * (x - y) = n * x - n * y
    OBVIOUS
  <2>4. n * x \in Int /\ n * y \in Int /\ n * x > n * y
    BY <2>2, <2>3
  <2>5. QED
    BY <2>4
<1>4. QED
  BY <1>1, <1>2, <1>3

\* What n pieces alike make when they are grouped.
Copies(n, g) == [length |-> n * g.length, angle |-> n * g.angle]

\* A piece that joins such a group joins one piece of it: curvatures are compared.
LEMMA JoinsAsOne ==
  ASSUME NEW g \in Group, NEW p \in Group, NEW n \in Nat \ {0}, Joins(Copies(n, g), p)
  PROVE  Joins(g, p)
<1> DEFINE c == Copies(n, g)
           a == g.angle
           A == Absolute(a)
           l == g.length
           u == Unit
<1>1. /\ l \in Nat \ {0} /\ a \in Int /\ p.length \in Nat \ {0} /\ p.angle \in Int
      /\ c.length = n * l /\ c.angle = n * a /\ u \in Nat \ {0} /\ A \in Nat
  BY RetraceAssumption DEF Group, Copies, Absolute
<1>2. \A x \in Int : Absolute(n * x) = n * Absolute(x) /\ Absolute(x) \in Int
  <2>1. SUFFICES ASSUME NEW x \in Int PROVE Absolute(n * x) = n * Absolute(x) /\ Absolute(x) \in Int
    OBVIOUS
  <2>2. Absolute(x) \in Int
    BY DEF Absolute
  <2>3. CASE x >= 0
    <3>1. n * x >= 0
      BY <2>3
    <3>2. QED
      BY <2>2, <2>3, <3>1 DEF Absolute
  <2>4. CASE x < 0
    <3>1. n * x < 0 /\ -(n * x) = n * (-x)
      <4>1. n * (-x) >= -x
        BY <2>4, MulMono
      <4>2. -(n * x) = n * (-x)
        OBVIOUS
      <4>3. n * x \in Int
        OBVIOUS
      <4>4. QED
        BY <2>4, <4>1, <4>2, <4>3
    <3>2. QED
      BY <2>2, <2>4, <3>1 DEF Absolute
  <2>5. QED
    BY <2>3, <2>4
<1>3. Absolute(c.angle) = n * A
  BY <1>1, <1>2
<1>4. NearStraight(c) => NearStraight(g)
  <2>1. SUFFICES ASSUME NearStraight(c) PROVE NearStraight(g)
    OBVIOUS
  <2>2. 4 * u * (n * A) < n * l
    BY <1>1, <1>3, <2>1 DEF NearStraight
  <2> HIDE DEF A, l, u
  <2>3. 4 * u * (n * A) = n * (4 * u * A) /\ 4 * u * A \in Int
    BY <1>1
  <2>4. 4 * u * A < l
    BY <1>1, <2>2, <2>3, Cancel
  <2>5. QED
    BY <2>4 DEF NearStraight, A, l, u
<1>5. SameSign(c, p) => SameSign(g, p)
  <2>1. SUFFICES ASSUME SameSign(c, p), a # 0, p.angle # 0 PROVE a * p.angle > 0
    BY DEF SameSign
  <2>2. n * a # 0
    BY <1>1, <2>1
  <2>3. (n * a) * p.angle > 0
    BY <1>1, <2>1, <2>2 DEF SameSign
  <2> HIDE DEF a
  <2>4. (n * a) * p.angle = n * (a * p.angle) /\ a * p.angle \in Int /\ n * 0 = 0
    BY <1>1
  <2>5. QED
    BY <2>3, <2>4, Cancel
<1>6. Close(c, p) => Close(g, p)
  <2> DEFINE x == p.angle * l - a * p.length
             y == p.angle * c.length - c.angle * p.length
             most == IF 2 * u * A >= l THEN 2 * u * A ELSE l
             cmost == IF 2 * u * (n * A) >= n * l THEN 2 * u * (n * A) ELSE n * l
  <2>1. SUFFICES ASSUME Close(c, p) PROVE Close(g, p)
    OBVIOUS
  <2>2. 8 * u * Absolute(y) <= cmost * p.length
    BY <1>1, <1>3, <2>1 DEF Close
  <2>3. x \in Int /\ y = n * x
    <3> HIDE DEF a, l, c
    <3>1. p.angle * (n * l) = n * (p.angle * l) /\ (n * a) * p.length = n * (a * p.length)
          /\ p.angle * l \in Int /\ a * p.length \in Int
      BY <1>1
    <3>2. n * (p.angle * l) - n * (a * p.length) = n * (p.angle * l - a * p.length)
      BY <3>1
    <3>3. QED
      BY <1>1, <3>1, <3>2
  <2>4. Absolute(y) = n * Absolute(x) /\ Absolute(x) \in Int
    BY <1>2, <2>3
  <2>5. cmost = n * most /\ most \in Nat
    <3> HIDE DEF A, l, u
    <3>1. 2 * u * (n * A) = n * (2 * u * A) /\ 2 * u * A \in Nat
      BY <1>1
    <3> DEFINE k == 2 * u * A
    <3>2. n * k >= n * l <=> k >= l
      <4> HIDE DEF k
      <4>1. k \in Int /\ l \in Int
        BY <1>1, <3>1 DEF k
      <4>2. n * l <= n * k => l <= k
        BY <4>1, Cancel
      <4>3. n * k < n * l => k < l
        BY <4>1, Cancel
      <4>4. n * k \in Int /\ n * l \in Int
        BY <4>1
      <4>5. QED
        BY <4>1, <4>2, <4>3, <4>4
    <3>3. QED
      BY <1>1, <3>1, <3>2
  <2> DEFINE z == Absolute(x)
  <2> HIDE DEF x, y, most, cmost, z
  <2>6. 8 * u * (n * z) <= (n * most) * p.length
    BY <2>2, <2>4, <2>5 DEF z
  <2>7. /\ 8 * u * (n * z) = n * (8 * u * z) /\ (n * most) * p.length = n * (most * p.length)
        /\ 8 * u * z \in Int /\ most * p.length \in Int
    <3>1. z \in Int
      BY <2>4 DEF z
    <3> HIDE DEF u
    <3>2. QED
      BY <1>1, <2>5, <3>1
  <2>8. 8 * u * z <= most * p.length
    BY <2>6, <2>7, Cancel
  <2>9. QED
    BY <2>8 DEF Close, x, z, most, a, A, l, u
<1>7. QED
  BY <1>4, <1>5, <1>6 DEF Joins

\* The moves of a leg that is driven forwards, and the pieces of the trail they make.
ForwardMoves == {p \in LegMoves : p.direction = 1}
\* A move and the piece that trail_to_prims() makes of it.
PieceOf(p) == [length |-> p.length, angle |-> DYaw(p)]
\* The same move i times over, backwards in one segment.
BackOver(p, i) == [length |-> i * p.length, turn |-> p.turn, direction |-> -1, angle |-> i * p.angle]

\* The two kinds of forward moves.
LEMMA ForwardIs ==
  ASSUME NEW p \in ForwardMoves
  PROVE  /\ p \in Prims /\ p.direction = 1 /\ p.length \in Nat \ {0} /\ PieceOf(p) \in Group
         /\ \/ p = Straight(1, 1)
            \/ \E w \in Directions, r \in Bends : p = [length |-> r, turn |-> w, direction |-> 1, angle |-> 1]
<1>1. p \in LegMoves /\ p.direction = 1 /\ p \in Prims /\ p.length \in Nat \ {0}
  BY Moves, PrimFields DEF ForwardMoves
<1>2. PieceOf(p) \in Group
  BY <1>1, PrimFields DEF PieceOf, Group, DYaw
<1>3. ASSUME NEW v \in Directions, p = Straight(v, 1) PROVE p = Straight(1, 1)
  BY <1>1, <1>3 DEF Straight
<1>4. ASSUME NEW v \in Directions, NEW w \in Directions, NEW r \in Bends, p = Arc(v, w, r, 1)
      PROVE  p = [length |-> r, turn |-> w, direction |-> 1, angle |-> 1]
  <2>1. v = 1 /\ r * 1 = r
    BY <1>1, <1>4, RetraceAssumption DEF Arc
  <2>2. QED
    BY <1>4, <2>1 DEF Arc
<1>5. QED
  BY <1>1, <1>2, <1>3, <1>4 DEF LegMoves

\* The piece tells which move it was.
LEMMA PieceTells ==
  ASSUME NEW p \in ForwardMoves, NEW q \in ForwardMoves, PieceOf(p) = PieceOf(q)
  PROVE  p = q
<1> DEFINE Bent(m) == \E w \in Directions, r \in Bends : m = [length |-> r, turn |-> w, direction |-> 1, angle |-> 1]
<1>1. p.length = q.length /\ DYaw(p) = DYaw(q)
  BY DEF PieceOf
<1>2. \A m : m = Straight(1, 1) => DYaw(m) = 0 /\ m.length = 1
  BY DEF Straight, DYaw
<1>3. ASSUME NEW m, NEW w \in Directions, NEW r \in Bends,
             m = [length |-> r, turn |-> w, direction |-> 1, angle |-> 1]
      PROVE  DYaw(m) = w /\ m.length = r /\ w # 0
  BY <1>3 DEF DYaw, Directions
<1>4. QED
  BY <1>1, <1>2, <1>3, ForwardIs

\* Backed over i times, a move is a segment whose radius is whole, and once more it
\* leads back by once more.
LEMMA BackSteps ==
  ASSUME NEW q \in Poses, NEW p \in ForwardMoves, NEW i \in Nat \ {0}
  PROVE  /\ BackOver(p, i) \in Prims /\ Whole(BackOver(p, i))
         /\ BackOver(p, 1) = Reversed(p)
         /\ End(End(q, BackOver(p, i)), Reversed(p)) = End(q, BackOver(p, i + 1))
<1>0. q.x \in Int /\ q.y \in Int /\ q.h \in {0, 1, 2, 3}
  BY PoseFields
<1>1. /\ p \in Prims /\ p.direction = 1 /\ p.length \in Nat \ {0} /\ p.angle \in Nat /\ p.turn \in {-1, 0, 1}
      /\ Reversed(p) = [length |-> p.length, turn |-> p.turn, direction |-> -1, angle |-> p.angle]
  <2>1. p \in Prims /\ p.direction = 1 /\ p.length \in Nat \ {0}
    BY ForwardIs
  <2>2. Reversed(p) = [length |-> p.length, turn |-> p.turn, direction |-> -p.direction, angle |-> p.angle]
    BY <2>1 DEF Reversed, Prims
  <2>3. -1 = -(1)
    OBVIOUS
  <2>4. QED
    BY <2>1, <2>2, <2>3, PrimFields
<1>2. ASSUME NEW k \in Nat \ {0} PROVE BackOver(p, k) \in Prims
  <2>1. k * p.length \in Nat /\ k * p.angle \in Nat
    BY <1>1
  <2>2. QED
    BY <1>1, <2>1 DEF BackOver, Prims, Turns, Directions
<1>3. BackOver(p, 1) = Reversed(p)
  <2>1. 1 * p.length = p.length /\ 1 * p.angle = p.angle
    BY <1>1
  <2>2. QED
    BY <1>1, <2>1 DEF BackOver
<1>4. i + 1 \in Nat \ {0}
  OBVIOUS
<1>5. CASE p = Straight(1, 1)
  <2>1. p.length = 1 /\ p.turn = 0 /\ p.angle = 0
    BY <1>5 DEF Straight
  <2>2. ASSUME NEW k \in Nat \ {0} PROVE BackOver(p, k) = Straight(-1, k)
    <3>1. k * 1 = k /\ k * 0 = 0
      OBVIOUS
    <3>2. QED
      BY <2>1, <3>1 DEF BackOver, Straight
  <2>3. Whole(BackOver(p, i))
    BY <2>2 DEF Whole, Straight
  <2> DEFINE e == End(q, Straight(-1, i))
             c == Cos(q.h)
             s == Sin(q.h)
  <2>4. e = [x |-> q.x + (-1) * i * c, y |-> q.y + (-1) * i * s, h |-> q.h] /\ e \in Poses
    <3>1. i \in Nat /\ -1 \in Directions
      BY DEF Directions
    <3>2. Straight(-1, i) \in Prims
      BY <1>2, <2>2
    <3>3. QED
      BY <3>1, <3>2, StraightEnds, EndTyping
  <2> HIDE DEF e
  <2>5. End(e, Straight(-1, 1)) = [x |-> e.x + (-1) * 1 * c, y |-> e.y + (-1) * 1 * s, h |-> q.h]
    <3>1. 1 \in Nat /\ -1 \in Directions /\ e.h = q.h
      BY <2>4 DEF Directions
    <3>2. QED
      BY <2>4, <3>1, StraightEnds
  <2>6. End(q, Straight(-1, i + 1)) = [x |-> q.x + (-1) * (i + 1) * c, y |-> q.y + (-1) * (i + 1) * s, h |-> q.h]
    <3>1. i + 1 \in Nat /\ -1 \in Directions
      BY DEF Directions
    <3>2. QED
      BY <3>1, StraightEnds
  <2>7. c \in Int /\ s \in Int
    BY <1>0, AxesAreWhole
  <2> HIDE DEF c, s
  <2>8. /\ (q.x + (-1) * i * c) + (-1) * 1 * c = q.x + (-1) * (i + 1) * c
        /\ (q.y + (-1) * i * s) + (-1) * 1 * s = q.y + (-1) * (i + 1) * s
    <3>1. \A a \in Int : (-1) * i * a = -(i * a) /\ (-1) * (i + 1) * a = -(i * a) - a /\ (-1) * 1 * a = -a /\ i * a \in Int
      OBVIOUS
    <3>2. QED
      BY <1>0, <2>7, <3>1
  <2>9. End(e, Straight(-1, 1)) = End(q, Straight(-1, i + 1))
    BY <2>4, <2>5, <2>6, <2>8
  <2>10. Reversed(p) = Straight(-1, 1) /\ BackOver(p, i) = Straight(-1, i) /\ BackOver(p, i + 1) = Straight(-1, i + 1)
    BY <1>3, <1>4, <2>2
  <2>11. QED
    BY <1>2, <1>3, <2>3, <2>9, <2>10 DEF e
<1>6. ASSUME NEW w \in Directions, NEW r \in Bends, p = [length |-> r, turn |-> w, direction |-> 1, angle |-> 1]
      PROVE  Whole(BackOver(p, i)) /\ End(End(q, BackOver(p, i)), Reversed(p)) = End(q, BackOver(p, i + 1))
  <2>1. r \in Nat \ {0} /\ p.length = r /\ p.turn = w /\ p.angle = 1
    BY <1>6, RetraceAssumption
  <2>2. \A k \in Nat \ {0} : /\ (k * r) \div k = r /\ (k * r) % k = 0
    <3>1. \A k \in Nat \ {0} : k * r = r * k /\ (r * k) \div k = r /\ (r * k) % k = 0
      BY <2>1
    <3>2. QED
      BY <3>1
  <2>3. ASSUME NEW k \in Nat \ {0}
        PROVE  BackOver(p, k) = [length |-> k * r, turn |-> w, direction |-> -1, angle |-> k]
    <3>1. k * 1 = k
      OBVIOUS
    <3>2. QED
      BY <2>1, <3>1 DEF BackOver
  <2>4. Whole(BackOver(p, i))
    BY <2>2, <2>3 DEF Whole
  <2> DEFINE f == BackOver(p, i)
             b == Reversed(p)
             m == BackOver(p, i + 1)
             g == (q.h - i * w) % 4
             h == (g - w) % 4
  <2>5. /\ f \in Prims /\ b \in Prims /\ m \in Prims
        /\ f.length = i * r /\ f.turn = w /\ f.direction = -1 /\ f.angle = i
        /\ b.length = r /\ b.turn = w /\ b.direction = -1 /\ b.angle = 1
        /\ m.length = (i + 1) * r /\ m.turn = w /\ m.direction = -1 /\ m.angle = i + 1
    BY <1>1, <1>2, <1>4, <2>1, <2>3, PrimFields
  <2> HIDE DEF f, b, m
  <2>6. w \in Int /\ i * w \in Int /\ (-1) * w * i = -(i * w) /\ (-1) * w * 1 = -w
        /\ (-1) * w * (i + 1) = -(i * w) - w
    <3>1. w \in Int
      BY DEF Directions
    <3>2. QED
      BY <3>1
  <2>7. g \in {0, 1, 2, 3} /\ h \in {0, 1, 2, 3} /\ h = (q.h + (-(i * w) - w)) % 4
    <3> DEFINE d == i * w
    <3>1. d \in Int
      BY <2>6
    <3> HIDE DEF d
    <3>2. q.h - d \in Int /\ -w \in Int /\ (q.h - d) + (-w) = q.h + (-d - w) /\ (q.h - d) + (-w) \in Int
      BY <1>0, <2>6, <3>1
    <3>3. (q.h - d) % 4 \in {0, 1, 2, 3}
      BY <3>2, Wrapped
    <3>4. ((q.h - d) % 4) + (-w) = ((q.h - d) % 4) - w
      BY <2>6, <3>3
    <3>5. (((q.h - d) % 4) + (-w)) % 4 = ((q.h - d) + (-w)) % 4 /\ ((q.h - d) + (-w)) % 4 \in {0, 1, 2, 3}
      BY <3>2, Wrapped
    <3>6. QED
      BY <3>2, <3>3, <3>4, <3>5 DEF d
  <2> DEFINE e == End(q, f)
             S == w * r * Sin(q.h)
             T == w * r * Sin(g)
             U == w * r * Sin(h)
             C == w * r * Cos(q.h)
             D == w * r * Cos(g)
             E == w * r * Cos(h)
  <2>8. e = [x |-> q.x - S + T, y |-> q.y + C - D, h |-> g]
    <3>1. r = f.length \div f.angle
      BY <2>2, <2>5
    <3>2. g = (q.h + f.direction * f.turn * f.angle) % 4
      <4>1. q.h + (-(i * w)) = q.h - i * w
        BY <1>0, <2>6
      <4>2. QED
        BY <2>5, <2>6, <4>1
    <3>3. f.angle # 0
      BY <2>5
    <3> HIDE DEF g
    <3>4. QED
      BY <2>5, <3>1, <3>2, <3>3, ArcEnds
  <2> HIDE DEF e
  <2>9. End(e, b) = [x |-> e.x - T + U, y |-> e.y + D - E, h |-> h]
    <3>1. r = b.length \div b.angle /\ b.angle # 0
      BY <2>1, <2>5
    <3>2. h = (e.h + b.direction * b.turn * b.angle) % 4
      <4>1. e.h = g
        BY <2>8
      <4> HIDE DEF g
      <4>2. g + (-w) = g - w
        BY <2>6, <2>7
      <4>3. QED
        BY <2>5, <2>6, <4>1, <4>2
    <3>3. e.h = g
      BY <2>8
    <3> HIDE DEF g, h
    <3>4. QED
      BY <2>5, <3>1, <3>2, <3>3, ArcEnds
  <2>10. End(q, m) = [x |-> q.x - S + U, y |-> q.y + C - E, h |-> h]
    <3>1. r = m.length \div m.angle /\ m.angle # 0
      BY <1>4, <2>2, <2>5
    <3>2. h = (q.h + m.direction * m.turn * m.angle) % 4
      BY <2>5, <2>6, <2>7
    <3> HIDE DEF h
    <3>3. QED
      BY <2>5, <3>1, <3>2, ArcEnds
  <2>11. /\ S \in Int /\ T \in Int /\ U \in Int /\ C \in Int /\ D \in Int /\ E \in Int
    <3>1. w * r \in Int
      BY <2>1, <2>6
    <3> HIDE DEF g, h
    <3>2. /\ Sin(q.h) \in Int /\ Cos(q.h) \in Int /\ Sin(g) \in Int /\ Cos(g) \in Int
          /\ Sin(h) \in Int /\ Cos(h) \in Int
      BY <1>0, <2>7, AxesAreWhole
    <3>3. QED
      BY <3>1, <3>2
  <2> HIDE DEF g, h, S, T, U, C, D, E
  <2>12. (q.x - S + T) - T + U = q.x - S + U /\ (q.y + C - D) + D - E = q.y + C - E
    BY <1>0, <2>11
  <2>13. End(e, b) = End(q, m)
    BY <2>8, <2>9, <2>10, <2>12
  <2>14. QED
    BY <2>4, <2>13 DEF e, f, b, m
<1>7. QED
  BY <1>2, <1>3, <1>5, <1>6, ForwardIs

\* Grouped and cut between two poses of the trail, moves that are alike are backed over.
LEMMA BackwardsOver ==
  ASSUME NEW p \in ForwardMoves, Flat(PieceOf(p)) => p.angle = 0,
         NEW n \in Nat \ {0}, NEW i \in 1..n
  PROVE  Backwards(Copies(n, PieceOf(p)), i * p.length) = BackOver(p, i)
<1> DEFINE g == Copies(n, PieceOf(p))
<1>1. g.length = n * p.length /\ g.angle = n * DYaw(p) /\ Unit \in Nat \ {0} /\ i \in Nat \ {0}
  BY RetraceAssumption DEF Copies, PieceOf
<1> HIDE DEF g
<1>2. CASE p = Straight(1, 1)
  <2>1. p.length = 1 /\ p.turn = 0 /\ p.angle = 0 /\ DYaw(p) = 0
    BY <1>2 DEF Straight, DYaw
  <2>2. g.length = n /\ g.angle = 0
    BY <1>1, <2>1
  <2>3. Flat(g)
    <3>1. Absolute(0) = 0 /\ 20 * Unit * 0 = 0
      BY <1>1 DEF Absolute
    <3>2. QED
      BY <2>2, <3>1 DEF Flat
  <2>4. i * 1 = i /\ i * 0 = 0
    BY <1>1
  <2>5. QED
    BY <2>1, <2>3, <2>4 DEF Backwards, Straight, BackOver, g
<1>3. ASSUME NEW w \in Directions, NEW r \in Bends, p = [length |-> r, turn |-> w, direction |-> 1, angle |-> 1]
      PROVE  Backwards(g, i * p.length) = BackOver(p, i)
  <2>1. r \in Nat \ {0} /\ p.length = r /\ p.turn = w /\ p.angle = 1 /\ DYaw(p) = w /\ w \in {-1, 1}
    BY <1>3, RetraceAssumption DEF DYaw, Directions
  <2>2. g.length = n * r /\ g.angle = n * w
    BY <1>1, <2>1
  <2>3. Absolute(n * w) = n /\ Absolute(w) = 1 /\ (n * w > 0 <=> w = 1)
    BY <2>1 DEF Absolute
  <2>4. ~Flat(g)
    <3>1. ~(r > 20 * Unit * 1)
      <4>1. PieceOf(p) = [length |-> r, angle |-> w]
        BY <2>1 DEF PieceOf
      <4>2. ~Flat(PieceOf(p))
        BY <2>1
      <4>3. QED
        BY <2>3, <4>1, <4>2 DEF Flat
    <3>2. n * (20 * Unit * 1) = 20 * Unit * n /\ 20 * Unit * 1 \in Int /\ n * r \in Int /\ 20 * Unit * n \in Int
      BY <1>1, <2>1
    <3>3. ~(20 * Unit * n < n * r)
      BY <2>1, <3>1, <3>2, Cancel
    <3>4. QED
      BY <2>2, <2>3, <3>3 DEF Flat
  <2>5. (n * (i * r)) \div (n * r) = i
    <3>1. n * (i * r) = i * (n * r) /\ n * r \in Nat \ {0}
      BY <1>1, <2>1
    <3>2. \A a \in Nat, b \in Nat \ {0} : (a * b) \div b = a
      OBVIOUS
    <3>3. QED
      BY <1>1, <3>1, <3>2
  <2>6. Backwards(g, i * r) = [length |-> i * r, turn |-> w, direction |-> -1, angle |-> i]
    <3>1. Backwards(g, i * r) = [length |-> i * r, turn |-> IF g.angle > 0 THEN 1 ELSE -1, direction |-> -1,
                                 angle |-> (Absolute(g.angle) * (i * r)) \div g.length]
      BY <2>4 DEF Backwards
    <3>2. (IF g.angle > 0 THEN 1 ELSE -1) = w
      BY <2>1, <2>2, <2>3
    <3>3. (Absolute(g.angle) * (i * r)) \div g.length = i
      BY <2>2, <2>3, <2>5
    <3>4. QED
      BY <3>1, <3>2, <3>3
  <2>7. i * 1 = i
    BY <1>1
  <2>8. QED
    BY <2>1, <2>6, <2>7 DEF BackOver
<1>4. QED
  BY <1>2, <1>3, ForwardIs DEF g

\* The groups gs are made of the first i moves: group j of those after c[j - 1] up to c[j],
\* which are alike.
Partition(ms, gs, c, i) ==
  /\ c \in [0..Len(gs) -> 0..i] /\ c[0] = 0 /\ c[Len(gs)] = i
  /\ \A j \in 1..Len(gs) :
       /\ c[j - 1] < c[j]
       /\ gs[j] = Copies(c[j] - c[j - 1], PieceOf(ms[c[j]]))
       /\ \A k \in (c[j - 1] + 1)..c[j] : ms[k] = ms[c[j]]

\* A piece that finds the last group curved otherwise starts one of its own.
LEMMA PartitionStarts ==
  ASSUME NEW ms, NEW gs \in Seq(Group), NEW i \in Nat, NEW c, Partition(ms, gs, c, i),
         PieceOf(ms[i + 1]) \in Group
  PROVE  \E d : Partition(ms, Append(gs, PieceOf(ms[i + 1])), d, i + 1)
<1> DEFINE m == Len(gs)
           p == PieceOf(ms[i + 1])
           more == Append(gs, p)
           d == [j \in 0..(m + 1) |-> IF j = m + 1 THEN i + 1 ELSE c[j]]
<1>1. m \in Nat /\ Len(more) = m + 1 /\ more[m + 1] = p /\ \A j \in 1..m : more[j] = gs[j]
  OBVIOUS
<1>2. c \in [0..m -> 0..i] /\ c[0] = 0 /\ c[m] = i
  BY DEF Partition
<1>3. d \in [0..(m + 1) -> 0..(i + 1)] /\ d[0] = 0 /\ d[m + 1] = i + 1 /\ \A j \in 0..m : d[j] = c[j]
  <2>1. ASSUME NEW j \in 0..(m + 1) PROVE d[j] \in 0..(i + 1)
    <3>1. CASE j = m + 1
      BY <3>1
    <3>2. CASE j # m + 1
      <4>1. j \in 0..m
        BY <1>1, <3>2
      <4>2. c[j] \in 0..i
        BY <1>2, <4>1
      <4>3. QED
        BY <3>2, <4>2
    <3>3. QED
      BY <3>1, <3>2
  <2>2. d[0] = 0 /\ d[m + 1] = i + 1 /\ \A j \in 0..m : d[j] = c[j]
    BY <1>1, <1>2
  <2>3. QED
    BY <2>1, <2>2
<1> HIDE DEF d, more
<1>4. ASSUME NEW j \in 1..(m + 1)
      PROVE  /\ d[j - 1] < d[j]
             /\ more[j] = Copies(d[j] - d[j - 1], PieceOf(ms[d[j]]))
             /\ \A k \in (d[j - 1] + 1)..d[j] : ms[k] = ms[d[j]]
  <2>1. CASE j \in 1..m
    <3>1. j \in 0..m /\ j - 1 \in 0..m
      BY <1>1, <2>1
    <3>2. d[j] = c[j] /\ d[j - 1] = c[j - 1] /\ more[j] = gs[j]
      BY <1>1, <1>3, <2>1, <3>1
    <3>3. QED
      BY <2>1, <3>2 DEF Partition
  <2>2. CASE j = m + 1
    <3>1. d[j] = i + 1 /\ d[j - 1] = i /\ more[j] = p
      BY <1>1, <1>2, <1>3, <2>2
    <3>2. (i + 1) - i = 1 /\ \A k \in (i + 1)..(i + 1) : k = i + 1
      OBVIOUS
    <3>3. Copies(1, p) = p
      <4>1. p = [length |-> p.length, angle |-> p.angle]
        BY DEF PieceOf
      <4>2. 1 * p.length = p.length /\ 1 * p.angle = p.angle
        BY DEF Group
      <4> HIDE DEF p
      <4>3. QED
        BY <4>1, <4>2 DEF Copies
    <3>4. QED
      BY <3>1, <3>2, <3>3
  <2>3. QED
    BY <1>1, <2>1, <2>2
<1>5. Partition(ms, more, d, i + 1)
  BY <1>1, <1>3, <1>4 DEF Partition
<1>6. QED
  BY <1>5 DEF more

\* A piece that joins the last group is like the moves that made it.
LEMMA PartitionGoesOn ==
  ASSUME NEW ms, NEW gs \in Seq(Group), gs # <<>>, NEW i \in Nat, NEW c, Partition(ms, gs, c, i),
         ms[i + 1] = ms[i], PieceOf(ms[i]) \in Group
  PROVE  \E d : Partition(ms, Append(Front(gs), [length |-> Last(gs).length + PieceOf(ms[i + 1]).length,
                                                  angle  |-> Last(gs).angle + PieceOf(ms[i + 1]).angle]),
                          d, i + 1)
<1> DEFINE m == Len(gs)
           p == PieceOf(ms[i])
           last == [length |-> Last(gs).length + PieceOf(ms[i + 1]).length,
                    angle  |-> Last(gs).angle + PieceOf(ms[i + 1]).angle]
           more == Append(Front(gs), last)
           d == [j \in 0..m |-> IF j = m THEN i + 1 ELSE c[j]]
<1>1. m \in Nat \ {0}
  OBVIOUS
<1>2. /\ c \in [0..m -> 0..i] /\ c[0] = 0 /\ c[m] = i /\ c[m - 1] < i /\ c[m - 1] \in 0..i
      /\ gs[m] = Copies(i - c[m - 1], p)
      /\ \A k \in (c[m - 1] + 1)..i : ms[k] = ms[i]
  <2>1. m \in 1..m /\ m - 1 \in 0..m
    BY <1>1
  <2>2. QED
    BY <2>1 DEF Partition
<1>3. Len(more) = m /\ more[m] = last /\ \A j \in 1..(m - 1) : more[j] = gs[j]
  <2> DEFINE front == Front(gs)
  <2>1. front = SubSeq(gs, 1, m - 1)
    BY DEF Front
  <2>2. front \in Seq(Group) /\ Len(front) = m - 1 /\ \A j \in 1..(m - 1) : front[j] = gs[j]
    <3>1. \A j \in 1..(m - 1) : gs[j] \in Group
      BY <1>1
    <3>2. SubSeq(gs, 1, m - 1) = [j \in 1..(m - 1) |-> gs[j]]
      BY <1>1
    <3> HIDE DEF front
    <3>3. front = [j \in 1..(m - 1) |-> gs[j]] /\ m - 1 \in Nat
      BY <1>1, <2>1, <3>2
    <3>4. QED
      BY <3>1, <3>3
  <2> HIDE DEF front, last
  <2>3. more = Append(front, last)
    BY DEF front
  <2>4. QED
    BY <1>1, <2>2, <2>3
<1>4. last = Copies((i + 1) - c[m - 1], p)
  <2>1. Last(gs) = gs[m]
    BY DEF Last
  <2>2. last = [length |-> (i - c[m - 1]) * p.length + p.length, angle |-> (i - c[m - 1]) * p.angle + p.angle]
    BY <1>2, <2>1 DEF Copies
  <2>3. p.length \in Int /\ p.angle \in Int
    BY DEF Group
  <2> DEFINE n == i - c[m - 1]
  <2>4. n \in Int /\ (i + 1) - c[m - 1] = n + 1
    BY <1>2
  <2> HIDE DEF n, p
  <2>5. n * p.length + p.length = (n + 1) * p.length /\ n * p.angle + p.angle = (n + 1) * p.angle
    <3>1. \A a \in Int : n * a + a = (n + 1) * a
      BY <2>4
    <3>2. QED
      BY <2>3, <3>1
  <2>6. QED
    BY <2>2, <2>4, <2>5 DEF Copies, n
<1>5. d \in [0..m -> 0..(i + 1)] /\ d[0] = 0 /\ d[m] = i + 1 /\ \A j \in 0..(m - 1) : d[j] = c[j]
  <2>1. ASSUME NEW j \in 0..m PROVE d[j] \in 0..(i + 1)
    <3>1. c[j] \in 0..i
      BY <1>2
    <3>2. QED
      BY <3>1
  <2>2. d[0] = 0 /\ d[m] = i + 1 /\ \A j \in 0..(m - 1) : d[j] = c[j]
    BY <1>1, <1>2
  <2>3. QED
    BY <2>1, <2>2
<1> HIDE DEF d, more, last
<1>6. ASSUME NEW j \in 1..m
      PROVE  /\ d[j - 1] < d[j]
             /\ more[j] = Copies(d[j] - d[j - 1], PieceOf(ms[d[j]]))
             /\ \A k \in (d[j - 1] + 1)..d[j] : ms[k] = ms[d[j]]
  <2>1. CASE j \in 1..(m - 1)
    <3>1. j \in 0..(m - 1) /\ j - 1 \in 0..(m - 1)
      BY <1>1, <2>1
    <3>2. d[j] = c[j] /\ d[j - 1] = c[j - 1] /\ more[j] = gs[j]
      BY <1>3, <1>5, <2>1, <3>1
    <3>3. QED
      BY <3>2 DEF Partition
  <2>2. CASE j = m
    <3>1. m - 1 \in 0..(m - 1)
      BY <1>1
    <3>2. d[j] = i + 1 /\ d[j - 1] = c[m - 1] /\ more[j] = last /\ ms[d[j]] = ms[i]
      BY <1>3, <1>5, <2>2, <3>1
    <3>3. \A k \in (c[m - 1] + 1)..(i + 1) : k = i + 1 \/ k \in (c[m - 1] + 1)..i
      BY <1>2
    <3>4. QED
      BY <1>2, <1>4, <3>2, <3>3
  <2>3. QED
    BY <1>1, <2>1, <2>2
<1>7. Partition(ms, more, d, i + 1)
  BY <1>3, <1>5, <1>6 DEF Partition
<1>8. QED
  BY <1>7 DEF more, last

\* A leg on which grouping averages nothing, driven forwards.
LegApart ==
  stage = "retreat" /\ NothingAveraged /\ (\A i \in DOMAIN driven : driven[i].direction = 1)

\* Its moves and the pieces they make.
LEMMA ApartFacts ==
  ASSUME RetraceInv, LegApart
  PROVE  /\ driven \in Seq(ForwardMoves) /\ Len(driven) \in Nat \ {0} /\ Len(trail) = Len(driven) + 1
         /\ \A i \in 1..Len(driven) :
              /\ driven[i] \in ForwardMoves /\ trail[i] \in Poses /\ trail[i + 1] = End(trail[i], driven[i])
              /\ Piece(trail[i], trail[i + 1]) = PieceOf(driven[i]) /\ PieceOf(driven[i]) \in Group
              /\ Flat(PieceOf(driven[i])) => driven[i].angle = 0
              /\ i > 1 /\ Joins(PieceOf(driven[i - 1]), PieceOf(driven[i])) => driven[i] = driven[i - 1]
<1> DEFINE n == Len(driven)
<1>1. /\ driven \in Seq(Prims) /\ n \in Nat /\ Len(trail) = n + 1
      /\ \A i \in 1..n : /\ driven[i] \in MovesOf(stage) /\ driven[i] \in Prims
                         /\ trail[i] \in Poses /\ trail[i + 1] = End(trail[i], driven[i])
  BY TrailFacts
<1>2. n \in Nat \ {0}
  BY <1>1 DEF RetraceInv, WayBackIsMade, LegApart
<1>3. ASSUME NEW i \in 1..n PROVE driven[i] \in LegMoves /\ driven[i] \in ForwardMoves
  <2>1. driven[i] \in LegMoves /\ driven[i].direction = 1
    BY <1>1 DEF MovesOf, LegApart
  <2>2. QED
    BY <2>1 DEF ForwardMoves
<1>4. driven \in Seq(ForwardMoves)
  BY <1>1, <1>3
<1>5. ASSUME NEW i \in 1..n
      PROVE  Piece(trail[i], trail[i + 1]) = PieceOf(driven[i]) /\ PieceOf(driven[i]) \in Group
  BY <1>1, <1>3, PieceIs, ForwardIs DEF PieceOf
<1>6. ASSUME NEW i \in 1..n, Flat(PieceOf(driven[i])) PROVE driven[i].angle = 0
  <2>1. PieceOf(driven[i]).angle = 0
    BY <1>1, <1>5, <1>6 DEF LegApart, NothingAveraged
  <2>2. DYaw(driven[i]) = 0
    BY <2>1 DEF PieceOf
  <2>3. ASSUME NEW w \in Directions, NEW r \in Bends,
               driven[i] = [length |-> r, turn |-> w, direction |-> 1, angle |-> 1]
        PROVE  FALSE
    BY <2>2, <2>3 DEF DYaw, Directions
  <2>4. QED
    BY <1>3, <2>3, ForwardIs DEF Straight
<1>7. ASSUME NEW i \in 1..n, i > 1, Joins(PieceOf(driven[i - 1]), PieceOf(driven[i]))
      PROVE  driven[i] = driven[i - 1]
  <2>1. i - 1 \in 1..n /\ (i - 1) + 1 = i
    BY <1>1, <1>7
  <2>2. Piece(trail[i - 1], trail[i]) = PieceOf(driven[i - 1])
    BY <1>5, <2>1
  <2>3. PieceOf(driven[i]) = PieceOf(driven[i - 1])
    <3>1. i \in DOMAIN driven /\ NothingAveraged
      BY <1>1 DEF LegApart
    <3>2. Joins(Piece(trail[i - 1], trail[i]), Piece(trail[i], trail[i + 1]))
      BY <1>5, <1>7, <2>2
    <3>3. Piece(trail[i], trail[i + 1]) = Piece(trail[i - 1], trail[i])
      BY <1>7, <3>1, <3>2 DEF NothingAveraged
    <3>4. QED
      BY <1>5, <2>2, <3>3
  <2>4. QED
    BY <1>3, <2>1, <2>3, PieceTells
<1>8. QED
  BY <1>1, <1>2, <1>3, <1>4, <1>5, <1>6, <1>7

\* Its groups are runs of moves that are alike.
LEMMA GroupsArePartition ==
  ASSUME RetraceInv, LegApart
  PROVE  Groups(trail) \in Seq(Group) /\ \E c : Partition(driven, Groups(trail), c, Len(driven))
<1> DEFINE n == Len(driven)
           ps == [i \in 1..(Len(trail) - 1) |-> Piece(trail[i], trail[i + 1])]
<1>1. /\ n \in Nat \ {0} /\ Len(trail) = n + 1
      /\ \A i \in 1..n :
           /\ driven[i] \in ForwardMoves
           /\ Piece(trail[i], trail[i + 1]) = PieceOf(driven[i]) /\ PieceOf(driven[i]) \in Group
           /\ i > 1 /\ Joins(PieceOf(driven[i - 1]), PieceOf(driven[i])) => driven[i] = driven[i - 1]
  BY ApartFacts
<1>2. ps = [i \in 1..n |-> PieceOf(driven[i])]
  <2>1. ps = [i \in 1..n |-> Piece(trail[i], trail[i + 1])]
    BY <1>1
  <2>2. QED
    BY <1>1, <2>1
<1>3. Groups(trail) = Loop(Grouped, <<>>, ps)
  BY DEF Groups
<1> HIDE DEF ps
<1>4. ps \in Seq(Group) /\ Len(ps) = n /\ \A i \in 1..n : ps[i] = PieceOf(driven[i])
  <2>1. ps \in [1..n -> Group]
    BY <1>1, <1>2
  <2>2. QED
    BY <1>1, <1>2, <2>1
<1>5. PICK after \in [0..n -> Seq(Group)] :
        /\ after[0] = <<>>
        /\ \A i \in 1..n : after[i] = Grouped(after[i - 1], ps[i])
        /\ Loop(Grouped, <<>>, ps) = after[n]
  BY <1>4, GroupRuns
<1> DEFINE Good == {i \in Nat : i <= n => \E c : Partition(driven, after[i], c, i)}
<1>6. 0 \in Good
  <2> DEFINE c == [j \in 0..0 |-> 0]
  <2>1. Len(<<>>) = 0 /\ c \in [0..0 -> 0..0] /\ c[0] = 0 /\ 1..0 = {}
    OBVIOUS
  <2> HIDE DEF c
  <2>2. Partition(driven, <<>>, c, 0)
    BY <2>1 DEF Partition
  <2>3. QED
    BY <1>5, <2>2
<1>7. ASSUME NEW i \in Nat, i \in Good PROVE i + 1 \in Good
  <2>1. SUFFICES ASSUME i + 1 <= n PROVE \E d : Partition(driven, after[i + 1], d, i + 1)
    OBVIOUS
  <2> DEFINE gs == after[i]
             p == PieceOf(driven[i + 1])
  <2>2. i + 1 \in 1..n /\ i \in 0..n /\ (i + 1) - 1 = i
    BY <2>1
  <2>3. gs \in Seq(Group) /\ p \in Group /\ after[i + 1] = Grouped(gs, p)
    BY <1>1, <1>4, <1>5, <2>2
  <2>4. PICK c : Partition(driven, gs, c, i)
    BY <1>7, <2>1
  <2> HIDE DEF gs
  <2>5. CASE gs # <<>> /\ Joins(Last(gs), p)
    <3> DEFINE m == Len(gs)
    <3>1. m \in 1..m /\ m - 1 \in 0..m /\ m \in 0..m
      BY <2>3, <2>5
    <3>2. c[m] = i /\ c[m - 1] < i /\ c[m - 1] \in 0..i /\ gs[m] = Copies(i - c[m - 1], PieceOf(driven[i]))
      BY <3>1 , <2>4 DEF Partition
    <3>3. i \in 1..n /\ i - c[m - 1] \in Nat \ {0} /\ i + 1 > 1
      BY <2>2, <3>2
    <3>4. Joins(PieceOf(driven[i]), p)
      <4>1. Last(gs) = gs[m]
        BY DEF Last
      <4>2. PieceOf(driven[i]) \in Group
        BY <1>1, <3>3
      <4>3. Joins(Copies(i - c[m - 1], PieceOf(driven[i])), p)
        BY <2>5, <3>2, <4>1
      <4> HIDE DEF p, m
      <4>4. QED
        BY <2>3, <3>3, <4>2, <4>3, JoinsAsOne
    <3>5. driven[i + 1] = driven[i] /\ PieceOf(driven[i]) \in Group
      BY <1>1, <2>2, <3>3, <3>4
    <3>6. after[i + 1] = Append(Front(gs), [length |-> Last(gs).length + p.length,
                                            angle  |-> Last(gs).angle + p.angle])
      BY <2>3, <2>5 DEF Grouped
    <3>7. QED
      BY <2>3, <2>4, <2>5, <3>5, <3>6, PartitionGoesOn
  <2>6. CASE ~(gs # <<>> /\ Joins(Last(gs), p))
    <3>1. after[i + 1] = Append(gs, p)
      BY <2>3, <2>6 DEF Grouped
    <3>2. QED
      BY <2>3, <2>4, <3>1, PartitionStarts
  <2>7. QED
    BY <2>5, <2>6
<1>8. Nat \subseteq Good
  <2> HIDE DEF Good
  <2>1. QED
    BY <1>6, <1>7, SetInduction
<1>9. n \in Nat /\ n \in 0..n
  BY <1>1
<1>10. QED
  BY <1>3, <1>5, <1>8, <1>9

\* How far it is along the leg from after its k-th move to its end.
FarAlong(far) ==
  /\ far \in [0..Len(driven) -> Int] /\ far[Len(driven)] = 0
  /\ \A k \in 1..Len(driven) : far[k - 1] = far[k] + driven[k].length
  /\ \A k \in 0..Len(driven) : far[k] = TotalLength(SubSeq(driven, k + 1, Len(driven)))

\* There are such distances: running sums from the end.
LEMMA FarAlongExist == ASSUME RetraceInv PROVE \E far : FarAlong(far)
<1> DEFINE n == Len(driven)
<1>1. driven \in Seq(Prims) /\ n \in Nat
  BY TrailFacts
<1>2. /\ Extents(driven) \in Seq(Int) /\ Len(Extents(driven)) = n
      /\ \A i \in 1..n : Extents(driven)[i] = driven[i].length /\ driven[i].length \in Nat
  BY <1>1, PrimTyping
<1>3. PICK e : RunningSum(Extents(driven), e)
  BY <1>2, SumRunning
<1>4. e \in [0..n -> Int] /\ e[0] = 0 /\ \A i \in 1..n : e[i] = e[i - 1] + driven[i].length
  BY <1>2, <1>3 DEF RunningSum
<1> DEFINE far == [k \in 0..n |-> e[n] - e[k]]
<1>5. n \in 0..n /\ \A k \in 0..n : e[k] \in Int
  BY <1>1, <1>4
<1>6. far \in [0..n -> Int] /\ far[n] = 0
  BY <1>5
<1>7. ASSUME NEW k \in 1..n PROVE far[k - 1] = far[k] + driven[k].length
  <2>1. k \in 0..n /\ k - 1 \in 0..n
    BY <1>1
  <2>2. far[k] = e[n] - e[k] /\ far[k - 1] = e[n] - e[k - 1]
    BY <2>1
  <2>3. e[k] = e[k - 1] + driven[k].length /\ driven[k].length \in Int
    BY <1>2, <1>4
  <2>4. QED
    BY <1>5, <2>1, <2>2, <2>3
<1>8. ASSUME NEW k \in 0..n PROVE far[k] = TotalLength(SubSeq(driven, k + 1, n))
  <2> DEFINE rest == SubSeq(driven, k + 1, n)
             r == [i \in 0..(n - k) |-> e[k + i] - e[k]]
  <2>1. rest \in Seq(Prims) /\ Len(rest) = n - k /\ \A i \in 1..(n - k) : rest[i] = driven[k + i]
    <3>1. rest = [i \in 1..(n - k) |-> driven[k + i]]
      <4>1. k + 1 \in Nat /\ (n - (k + 1)) + 1 = n - k
        BY <1>1
      <4>2. \A i \in 1..(n - k) : (i + (k + 1)) - 1 = k + i
        BY <1>1
      <4>3. SubSeq(driven, k + 1, n) = [i \in 1..((n - (k + 1)) + 1) |-> driven[(i + (k + 1)) - 1]]
        BY <1>1, <4>1
      <4>4. QED
        BY <4>1, <4>2, <4>3
    <3>2. \A i \in 1..(n - k) : driven[k + i] \in Prims
      BY <1>1
    <3>3. n - k \in Nat
      BY <1>1
    <3> HIDE DEF rest
    <3>4. QED
      BY <3>1, <3>2, <3>3
  <2> HIDE DEF rest
  <2>2. /\ Extents(rest) \in Seq(Int) /\ Len(Extents(rest)) = n - k /\ TotalLength(rest) = SumOf(Extents(rest))
        /\ \A i \in 1..(n - k) : Extents(rest)[i] = rest[i].length
    BY <2>1, PrimTyping
  <2>3. ASSUME NEW i \in 1..(n - k) PROVE r[i] = r[i - 1] + Extents(rest)[i]
    <3>1. k + i \in 1..n /\ k + i \in 0..n /\ (k + i) - 1 = k + (i - 1) /\ k + (i - 1) \in 0..n
          /\ i \in 0..(n - k) /\ i - 1 \in 0..(n - k)
      BY <1>1
    <3>2. e[k + i] = e[k + (i - 1)] + driven[k + i].length /\ Extents(rest)[i] = driven[k + i].length
      BY <1>4, <2>1, <2>2, <3>1
    <3>3. r[i] = e[k + i] - e[k] /\ r[i - 1] = e[k + (i - 1)] - e[k] /\ driven[k + i].length \in Int
      BY <1>2, <3>1
    <3>4. e[k] \in Int /\ e[k + i] \in Int /\ e[k + (i - 1)] \in Int
      BY <1>5, <3>1
    <3> HIDE DEF r, far
    <3>5. QED
      BY <3>2, <3>3, <3>4
  <2>4. r \in [0..(n - k) -> Int] /\ r[0] = 0
    <3>1. \A i \in 0..(n - k) : k + i \in 0..n
      BY <1>1
    <3>2. 0 \in 0..(n - k) /\ k + 0 = k /\ e[k] - e[k] = 0
      BY <1>1, <1>5
    <3>3. QED
      BY <1>5, <3>1, <3>2
  <2>5. r[n - k] = far[k]
    <3>1. n - k \in 0..(n - k) /\ k + (n - k) = n
      BY <1>1
    <3>2. QED
      BY <3>1
  <2> HIDE DEF r
  <2>6. RunningSum(Extents(rest), r)
    BY <2>2, <2>3, <2>4 DEF RunningSum
  <2>7. SumOf(Extents(rest)) = r[n - k]
    BY <2>2, <2>6, SumIs
  <2> HIDE DEF far
  <2>8. QED
    BY <2>2, <2>5, <2>7 DEF rest
<1> HIDE DEF far
<1>9. QED
  BY <1>6, <1>7, <1>8 DEF FarAlong

\* Along moves that are alike, the car is backed over as many of them as it is told to.
LEMMA BackAlong ==
  ASSUME RetraceInv, LegApart, NEW far, FarAlong(far),
         NEW b \in 1..Len(driven), NEW a \in 0..(b - 1),
         \A k \in (a + 1)..b : driven[k] = driven[b]
  PROVE  \A i \in 1..(b - a) : /\ End(trail[b + 1], BackOver(driven[b], i)) = trail[(b - i) + 1]
                               /\ far[b - i] = far[b] + i * driven[b].length
<1> DEFINE n == Len(driven)
           p == driven[b]
           Good == {i \in Nat : i + 1 <= b - a =>
                      /\ End(trail[b + 1], BackOver(p, i + 1)) = trail[(b - (i + 1)) + 1]
                      /\ far[b - (i + 1)] = far[b] + (i + 1) * p.length}
<1>1. /\ n \in Nat \ {0}
      /\ \A i \in 1..n : driven[i] \in ForwardMoves /\ trail[i] \in Poses /\ trail[i + 1] = End(trail[i], driven[i])
  BY ApartFacts
<1>2. /\ \A k \in 0..n : far[k] \in Int
      /\ \A k \in 1..n : far[k - 1] = far[k] + driven[k].length
  BY DEF FarAlong
<1>3. p \in ForwardMoves /\ p \in Prims /\ p.length \in Nat /\ a \in Nat /\ b \in Nat /\ a < b
  BY <1>1, ForwardIs
<1>4. \A i \in 1..n : End(trail[i + 1], Reversed(driven[i])) = trail[i]
  BY <1>1, Undone, ForwardIs
<1>5. \A i \in 1..n : trail[i + 1] \in Poses
  BY <1>1, EndTyping, ForwardIs
<1>6. 0 \in Good
  <2>1. BackOver(p, 1) = Reversed(p)
    <3>1. 1 \in Nat \ {0} /\ trail[b + 1] \in Poses
      BY <1>5
    <3>2. QED
      BY <1>3, <3>1, BackSteps
  <2>2. 0 + 1 = 1 /\ (b - 1) + 1 = b /\ 1 * p.length = p.length
    BY <1>3
  <2>3. QED
    BY <1>2, <1>4, <2>1, <2>2
<1>7. ASSUME NEW i \in Nat, i \in Good PROVE i + 1 \in Good
  <2> DEFINE j == i + 1
             k == b - j
  <2>1. SUFFICES ASSUME j + 1 <= b - a
                 PROVE  /\ End(trail[b + 1], BackOver(p, j + 1)) = trail[(b - (j + 1)) + 1]
                        /\ far[b - (j + 1)] = far[b] + (j + 1) * p.length
    OBVIOUS
  <2>2. j \in Nat \ {0} /\ j <= b - a /\ k \in 1..n /\ k \in (a + 1)..b /\ (b - (j + 1)) + 1 = k
        /\ b - (j + 1) = k - 1
    BY <1>3, <2>1
  <2>3. End(trail[b + 1], BackOver(p, j)) = trail[k + 1] /\ far[k] = far[b] + j * p.length
    BY <1>7, <2>2
  <2>4. End(End(trail[b + 1], BackOver(p, j)), Reversed(p)) = End(trail[b + 1], BackOver(p, j + 1))
    <3> HIDE DEF j, k, p
    <3>1. trail[b + 1] \in Poses
      BY <1>5
    <3>2. QED
      BY <1>3, <2>2, <3>1, BackSteps
  <2>5. driven[k] = p
    BY <2>2
  <2> HIDE DEF j, k, p
  <2>6. End(trail[k + 1], Reversed(p)) = trail[k]
    BY <1>4, <2>2, <2>5
  <2>7. far[k - 1] = far[k] + p.length
    BY <1>2, <2>2, <2>5
  <2>8. far[b] + (j + 1) * p.length = (far[b] + j * p.length) + p.length
    <3>1. far[b] \in Int
      BY <1>1, <1>2
    <3>2. (j + 1) * p.length = j * p.length + p.length /\ j * p.length \in Int
      BY <1>3, <2>2
    <3>3. QED
      BY <1>3, <3>1, <3>2
  <2>9. QED
    BY <2>2, <2>3, <2>4, <2>6, <2>7, <2>8
<1>8. Nat \subseteq Good
  <2> HIDE DEF Good
  <2>1. QED
    BY <1>6, <1>7, SetInduction
<1>9. \A i \in 1..(b - a) : i - 1 \in Nat /\ (i - 1) + 1 = i /\ i <= b - a
  BY <1>3
<1>10. QED
  BY <1>8, <1>9

\* The further back, the further away.
LEMMA FarFalls ==
  ASSUME RetraceInv, LegApart, NEW far, FarAlong(far),
         NEW a \in 0..Len(driven), NEW b \in 0..Len(driven), a < b
  PROVE  far[b] < far[a]
<1> DEFINE n == Len(driven)
           Good == {i \in Nat : \A k \in 0..n : k + (i + 1) <= n => far[k + (i + 1)] < far[k]}
<1>1. n \in Nat /\ \A i \in 1..n : driven[i].length \in Nat \ {0}
  BY ApartFacts, ForwardIs
<1>2. /\ \A k \in 0..n : far[k] \in Int
      /\ \A k \in 1..n : far[k - 1] = far[k] + driven[k].length
  BY DEF FarAlong
<1>3. ASSUME NEW k \in 0..n, k + 1 <= n PROVE far[k + 1] < far[k]
  <2>1. k + 1 \in 1..n /\ k + 1 \in 0..n /\ (k + 1) - 1 = k
    BY <1>1, <1>3
  <2>2. far[k] = far[k + 1] + driven[k + 1].length
    BY <1>2, <2>1
  <2>3. QED
    BY <1>1, <1>2, <2>1, <2>2
<1>4. 0 \in Good
  BY <1>3
<1>5. ASSUME NEW i \in Nat, i \in Good PROVE i + 1 \in Good
  <2>1. SUFFICES ASSUME NEW k \in 0..n, k + ((i + 1) + 1) <= n PROVE far[k + ((i + 1) + 1)] < far[k]
    OBVIOUS
  <2>2. k + 1 \in 0..n /\ k + 1 <= n /\ (k + 1) + (i + 1) = k + ((i + 1) + 1) /\ k + ((i + 1) + 1) \in 0..n
    BY <1>1, <2>1
  <2>3. far[k + ((i + 1) + 1)] < far[k + 1]
    BY <1>5, <2>1, <2>2
  <2>4. far[k + 1] < far[k]
    BY <1>3, <2>2
  <2>5. QED
    BY <1>2, <2>2, <2>3, <2>4
<1>6. Nat \subseteq Good
  <2> HIDE DEF Good
  <2>1. QED
    BY <1>4, <1>5, SetInduction
<1>7. (b - a) - 1 \in Nat /\ a + (((b - a) - 1) + 1) = b /\ b <= n
  BY <1>1
<1>8. QED
  BY <1>6, <1>7

\* A segment more is driven from where the others have led.
LEMMA IntegrateAppend ==
  ASSUME NEW q \in Poses, NEW ps \in Seq(Prims), NEW p \in Prims
  PROVE  Integrate(q, Append(ps, p)) = End(Integrate(q, ps), p)
<1> DEFINE more == Append(ps, p)
           n == Len(ps)
<1>1. /\ more \in Seq(Prims) /\ Len(more) = n + 1 /\ n \in Nat /\ more[n + 1] = p
      /\ \A i \in 1..n : more[i] = ps[i]
  OBVIOUS
<1> HIDE DEF more
<1>2. PICK after \in [0..Len(more) -> Poses] :
        /\ after[0] = q
        /\ \A i \in 1..Len(more) : after[i] = End(after[i - 1], more[i])
        /\ Integrate(q, more) = after[Len(more)]
  BY <1>1, Integrates
<1>3. Follows(q, ps, after)
  <2>1. \A i \in 1..n : i \in 1..Len(more)
    BY <1>1
  <2>2. QED
    BY <1>1, <1>2, <2>1 DEF Follows
<1>4. Integrate(q, ps) = after[n]
  BY <1>3, IntegrateIs
<1>5. n + 1 \in 1..Len(more) /\ (n + 1) - 1 = n
  BY <1>1
<1>6. QED
  BY <1>1, <1>2, <1>4, <1>5 DEF more

\* No segment leads nowhere.
LEMMA IntegrateNone == ASSUME NEW q \in Poses PROVE Integrate(q, <<>>) = q
<1>1. <<>> \in Seq(Prims) /\ Len(<<>>) = 0 /\ 1..0 = {}
  OBVIOUS
<1> DEFINE r == [i \in {0} |-> q]
<1>2. r[0] = q
  OBVIOUS
<1> HIDE DEF r
<1>3. Follows(q, <<>>, r)
  BY <1>1, <1>2 DEF Follows
<1>4. Integrate(q, <<>>) = r[Len(<<>>)]
  BY <1>1, <1>3, IntegrateIs, Zenon
<1>5. QED
  BY <1>1, <1>2, <1>4

\* Segments that are as long as it is to a pose of the trail lead to that pose.
OnTrail(out, far) ==
  \A k \in 0..Len(driven) :
    far[k] = TotalLength(out) =>
      (\A i \in DOMAIN out : Whole(out[i])) /\ Integrate(pose, out) = trail[k + 1]

\* They do, and they reach back to after the b-th move or to the limit, if that is nearer.
BackTo(out, far, max, b) ==
  /\ out \in Seq(Prims)
  /\ OnTrail(out, far)
  /\ max > 0 => TotalLength(out) <= max
  /\ \/ TotalLength(out) = far[b]
     \/ max > 0 /\ TotalLength(out) = max /\ max <= far[b]

\* A retreat of no segments reaches back to nowhere.
LEMMA BackFromNowhere ==
  ASSUME RetraceInv, LegApart, NEW far, FarAlong(far), NEW max \in Nat
  PROVE  BackTo(<<>>, far, max, Len(driven))
<1> DEFINE n == Len(driven)
<1>1. n \in Nat /\ n \in 0..n /\ trail[n + 1] = pose /\ pose \in Poses
  BY TrailFacts
<1>2. far[n] = 0
  BY DEF FarAlong
<1>3. <<>> \in Seq(Prims) /\ TotalLength(<<>>) = 0
  <2>1. <<>> \in Seq(Int) /\ <<>> \in Seq(Prims)
    OBVIOUS
  <2>2. Extents(<<>>) = <<>>
    BY DEF Extents
  <2>3. QED
    BY <2>1, <2>2, PrimTyping, SumAppend
<1>4. ASSUME NEW k \in 0..n, far[k] = 0 PROVE k = n
  <2>1. k < n => far[n] < far[k]
    BY <1>1, FarFalls
  <2>2. QED
    BY <1>1, <1>2, <1>4, <2>1
<1>5. Integrate(pose, <<>>) = pose
  BY <1>1, IntegrateNone
<1>6. \A i \in DOMAIN <<>> : Whole(<<>>[i])
  OBVIOUS
<1>7. OnTrail(<<>>, far)
  BY <1>1, <1>3, <1>4, <1>5, <1>6 DEF OnTrail
<1>8. QED
  BY <1>2, <1>3, <1>7 DEF BackTo

\* One turn of the loop in trail_to_prims() takes a retreat back over the moves of one
\* group, or over as many of them as the limit allows.
LEMMA BackOverGroup ==
  ASSUME RetraceInv, LegApart, NEW far, FarAlong(far), NEW max \in Nat,
         NEW b \in 1..Len(driven), NEW a \in 0..(b - 1),
         \A k \in (a + 1)..b : driven[k] = driven[b],
         NEW out, BackTo(out, far, max, b),
         NEW g \in Group, g = Copies(b - a, PieceOf(driven[b]))
  PROVE  BackTo(Further(out, g, max), far, max, a)
<1> DEFINE n == Len(driven)
           move == driven[b]
           used == TotalLength(out)
           l == move.length
           m == b - a
<1>1. /\ n \in Nat \ {0} /\ move \in ForwardMoves /\ PieceOf(move) \in Group
      /\ (Flat(PieceOf(move)) => move.angle = 0)
  BY ApartFacts
<1>2. l \in Nat \ {0} /\ a \in Nat /\ b \in Nat /\ a < b /\ m \in Nat \ {0} /\ a \in 0..n /\ b \in 0..n
  BY <1>1, ForwardIs
<1>3. far \in [0..n -> Int] /\ far[a] \in Int /\ far[b] \in Int
  BY <1>2 DEF FarAlong
<1>4. out \in Seq(Prims) /\ used \in Int /\ pose \in Poses
  BY PrimTyping, TrailFacts DEF BackTo
<1>5. \A i \in 1..m : /\ End(trail[b + 1], BackOver(move, i)) = trail[(b - i) + 1]
                      /\ far[b - i] = far[b] + i * l
  BY BackAlong
<1>6. g.length = m * l /\ g.length \in Nat \ {0}
  <2>1. g.length = m * PieceOf(move).length
    BY DEF Copies
  <2>2. QED
    BY <2>1 DEF PieceOf, Group
<1>7. far[a] = far[b] + g.length
  <2>1. m \in 1..m /\ b - m = a
    BY <1>2
  <2>2. QED
    BY <1>5, <1>6, <2>1
<1>8. CASE max > 0 /\ used >= max
  <2>1. Further(out, g, max) = out
    BY <1>8 DEF Further
  <2>2. used = max /\ max <= far[b]
    BY <1>3, <1>4, <1>8 DEF BackTo
  <2>3. max <= far[a]
    BY <1>3, <1>6, <1>7, <2>2
  <2>4. QED
    BY <1>8, <2>1, <2>2, <2>3 DEF BackTo
<1>9. CASE ~(max > 0 /\ used >= max)
  <2> DEFINE c == Cut(max, used, g.length)
             p == Backwards(g, c)
             more == Append(out, p)
  <2>1. Further(out, g, max) = more
    BY <1>9 DEF Further
  <2>2. used = far[b]
    BY <1>4, <1>9 DEF BackTo
  <2>3. /\ c \in 1..g.length /\ (max > 0 => used + c <= max)
        /\ (c = g.length \/ (max > 0 /\ used + c = max))
    BY <1>4, <1>6, <1>9 DEF Cut
  <2> HIDE DEF c, used
  <2>4. p \in Backs /\ p.length = c
    BY <2>3, BackwardsIs
  <2>5. p \in Prims
    BY <2>4 DEF Backs
  <2>6. more \in Seq(Prims) /\ TotalLength(more) = used + c
    BY <1>4, <2>4, <2>5, PrimNumbers, AppendProperties DEF used
  <2>7. Integrate(pose, more) = End(Integrate(pose, out), p)
    BY <1>4, <2>5, IntegrateAppend
  <2>8. (\A i \in DOMAIN out : Whole(out[i])) /\ Integrate(pose, out) = trail[b + 1]
    BY <1>2, <2>2 DEF BackTo, OnTrail, used
  <2>9. ASSUME NEW k \in 0..n, far[k] = used + c
        PROVE  (\A i \in DOMAIN more : Whole(more[i])) /\ Integrate(pose, more) = trail[k + 1]
    <3> DEFINE i == b - k
    <3>1. far[k] \in Int /\ c \in Nat \ {0} /\ far[b] < far[k] /\ far[k] <= far[a]
      BY <1>3, <1>6, <1>7, <2>2, <2>3, <2>9
    <3>2. k < b
      <4>1. b < k => far[k] < far[b]
        BY <1>2, FarFalls
      <4>2. QED
        BY <1>2, <1>3, <3>1, <4>1
    <3>3. a <= k
      <4>1. k < a => far[a] < far[k]
        BY <1>2, FarFalls
      <4>2. QED
        BY <1>2, <1>3, <3>1, <4>1
    <3>4. i \in 1..m /\ b - i = k /\ i \in Nat \ {0}
      BY <1>2, <3>2, <3>3
    <3>5. c = i * l
      <4>1. far[k] = far[b] + i * l
        BY <1>5, <3>4
      <4> HIDE DEF i, l, m
      <4>2. i \in Int /\ l \in Int
        BY <1>2, <3>4
      <4>3. QED
        BY <1>3, <2>2, <2>3, <2>9, <3>1, <4>1, <4>2
    <3>6. p = BackOver(move, i)
      <4>1. Backwards(Copies(m, PieceOf(move)), i * l) = BackOver(move, i)
        <5> HIDE DEF m, i, move
        <5>1. QED
          BY <1>1, <1>2, <3>4, BackwardsOver
      <4>2. QED
        BY <3>5, <4>1
    <3>7. Whole(p)
      <4>1. trail[b + 1] \in Poses
        BY <1>1, ApartFacts, EndTyping, ForwardIs
      <4> HIDE DEF i, move, p
      <4>2. QED
        BY <1>1, <3>4, <3>6, <4>1, BackSteps
    <3>8. Integrate(pose, more) = trail[k + 1]
      <4>1. End(trail[b + 1], BackOver(move, i)) = trail[(b - i) + 1]
        BY <1>5, <3>4
      <4> HIDE DEF i, move, p
      <4>2. QED
        BY <2>7, <2>8, <3>4, <3>6, <4>1
    <3>9. \A j \in DOMAIN more : Whole(more[j])
      <4> HIDE DEF p
      <4>1. Len(more) = Len(out) + 1 /\ more[Len(out) + 1] = p /\ Len(out) \in Nat
            /\ \A j \in 1..Len(out) : more[j] = out[j]
        BY <1>4, <2>5
      <4>2. DOMAIN more = 1..(Len(out) + 1) /\ DOMAIN out = 1..Len(out)
        BY <1>4, <2>6, <4>1
      <4> HIDE DEF more
      <4>3. TAKE j \in DOMAIN more
      <4>4. CASE j = Len(out) + 1
        BY <3>7, <4>1, <4>4
      <4>5. CASE j \in 1..Len(out)
        <5>1. more[j] = out[j] /\ j \in DOMAIN out
          BY <4>1, <4>2, <4>5
        <5>2. Whole(out[j])
          BY <2>8, <5>1
        <5>3. QED
          BY <5>1, <5>2
      <4>6. j = Len(out) + 1 \/ j \in 1..Len(out)
        BY <4>1, <4>2
      <4>7. QED
        BY <4>4, <4>5, <4>6
    <3>10. QED
      BY <3>8, <3>9
  <2> HIDE DEF more
  <2>10. OnTrail(more, far)
    BY <2>6, <2>9 DEF OnTrail
  <2>11. TotalLength(more) = far[a] \/ (max > 0 /\ TotalLength(more) = max /\ max <= far[a])
    BY <1>3, <1>6, <1>7, <2>2, <2>3, <2>6
  <2>12. QED
    BY <2>1, <2>3, <2>6, <2>10, <2>11 DEF BackTo
<1>10. QED
  BY <1>8, <1>9

\* The groups of a leg, taken from the last to the first, lead back along its trail.
LEMMA RetreatFollows == RetraceInv => RetreatFollowsTrail
<1> SUFFICES ASSUME RetraceInv, LegApart PROVE EndsOnTrail
  BY DEF RetreatFollowsTrail, LegApart
<1> DEFINE n == Len(driven)
           gs == Groups(trail)
           m == Len(gs)
           back == Reverse(gs)
<1>1. n \in Nat /\ driven \in Seq(Prims)
  BY TrailFacts
<1>2. PICK far : FarAlong(far)
  BY FarAlongExist
<1>3. gs \in Seq(Group) /\ \E c : Partition(driven, gs, c, n)
  BY GroupsArePartition
<1>4. PICK c : Partition(driven, gs, c, n)
  BY <1>3
<1> HIDE DEF gs
<1>5. m \in Nat /\ c \in [0..m -> 0..n] /\ c[0] = 0 /\ c[m] = n
  BY <1>3, <1>4 DEF Partition
<1>6. gs # <<>>
  <2>1. n # 0
    BY ApartFacts
  <2>2. m # 0
    BY <1>5, <2>1
  <2>3. QED
    BY <2>2
<1>7. back = [j \in 1..m |-> gs[(m - j) + 1]] /\ back \in Seq(Group) /\ Len(back) = m
  <2>1. back = [j \in 1..m |-> gs[(m - j) + 1]]
    BY DEF Reverse
  <2>2. back \in Seq(Group)
    BY <1>3, <1>6, GroupsReverse
  <2> HIDE DEF back
  <2>3. QED
    BY <1>5, <2>1, <2>2
<1>8. limit \in Nat /\ prims = TrailToPrims(trail, limit)
  BY RetraceAssumption DEF RetraceInv, WayBackIsMade, LegApart
<1>9. LeadsBack(trail, limit, back)
  <2>1. back = Reverse(Groups(trail))
    BY DEF gs
  <2> HIDE DEF back
  <2>2. QED
    BY <1>7, <1>8, <2>1, RetreatRuns, Zenon
<1> HIDE DEF back
<1>10. PICK after \in [0..m -> Seq(Backs)] :
         /\ after[0] = <<>>
         /\ \A j \in 1..m : after[j] = Further(after[j - 1], back[j], limit)
         /\ prims = after[m]
  BY <1>7, <1>8, <1>9 DEF LeadsBack
<1> DEFINE Good == {j \in Nat : j <= m => BackTo(after[j], far, limit, c[m - j])}
<1>11. 0 \in Good
  <2>1. m - 0 = m
    BY <1>5
  <2>2. BackTo(<<>>, far, limit, n)
    BY <1>2, <1>8, BackFromNowhere
  <2>3. QED
    BY <1>5, <1>10, <2>1, <2>2
<1>12. ASSUME NEW j \in Nat, j \in Good PROVE j + 1 \in Good
  <2>1. SUFFICES ASSUME j + 1 <= m PROVE BackTo(after[j + 1], far, limit, c[m - (j + 1)])
    OBVIOUS
  <2> DEFINE i == m - j
             a == c[i - 1]
             b == c[i]
             g == gs[i]
  <2>2. /\ j + 1 \in 1..m /\ (j + 1) - 1 = j /\ i \in 1..m /\ i - 1 \in 0..m /\ i \in 0..m
        /\ m - (j + 1) = i - 1 /\ (m - (j + 1)) + 1 = i
    BY <1>5, <2>1
  <2> HIDE DEF i
  <2>3. /\ a < b /\ g = Copies(b - a, PieceOf(driven[b]))
        /\ \A k \in (a + 1)..b : driven[k] = driven[b]
    BY <1>4, <2>2 DEF Partition
  <2>4. b \in 1..n /\ a \in 0..(b - 1)
    <3>1. a \in 0..n /\ b \in 0..n
      BY <1>5, <2>2
    <3>2. QED
      BY <1>1, <2>3, <3>1
  <2>5. g \in Group /\ back[j + 1] = g
    BY <1>3, <1>7, <2>2
  <2>6. BackTo(after[j], far, limit, b)
    BY <1>12, <2>1 DEF i
  <2>7. after[j + 1] = Further(after[j], g, limit)
    BY <1>10, <2>2, <2>5
  <2> HIDE DEF a, b, g
  <2>8. BackTo(Further(after[j], g, limit), far, limit, a)
    BY <1>2, <1>8, <2>3, <2>4, <2>5, <2>6, BackOverGroup
  <2>9. QED
    BY <2>2, <2>7, <2>8 DEF a
<1>13. Nat \subseteq Good
  <2> HIDE DEF Good
  <2>1. QED
    BY <1>11, <1>12, SetInduction
<1>14. BackTo(prims, far, limit, c[m - m])
  BY <1>5, <1>10, <1>13
<1>15. \A k \in 0..n : far[k] = TotalLength(SubSeq(driven, k + 1, n))
  BY <1>2 DEF FarAlong
<1>16. QED
  BY <1>14, <1>15 DEF BackTo, OnTrail, EndsOnTrail

\* A leg driven forwards, of moves that grouping takes for what they are, is retraced: as
\* far as the retreat goes, it ends on the pose the car had there, for all radii of the
\* bends and whatever the limit cuts off (geometry.py 264-346).  Only reversing, averaging
\* and bends flatter than 20 metres can lead a retreat off its trail.
THEOREM RetreatRetracesLeg == RetraceSpec => []RetreatFollowsTrail
BY RetraceInvariant, RetreatFollows, PTL
=============================================================================

------------------------------ MODULE NavProofs ------------------------------
(***************************************************************************)
(* What the planner promises, for every grid and map and every two points. *)
(* Induction over the natural numbers is by the least number left out of a *)
(* set, which exists because < is well founded.                            *)
(***************************************************************************)
EXTENDS Nav, TLAPS, WellFoundedInduction

-----------------------------------------------------------------------------
(* Numbers *)

\* Every set of natural numbers has a least one.
LEMMA LeastNat ==
  ASSUME NEW S, S \subseteq Nat, S # {}
  PROVE  \E n \in S : \A m \in S : n <= m
<1> DEFINE less == {ss \in Nat \X Nat : ss[1] < ss[2]}
<1>1. IsWellFoundedOn(less, Nat)
  BY NatLessThanWellFounded, Zenon DEF OpToRel
<1>2. PICK n \in S : \A m \in S : ~(<<m, n>> \in less)
  <2> HIDE DEF less
  <2> QED BY <1>1, WFMin
<1>3. ASSUME NEW m \in S PROVE n <= m
  <2>1. m \in Nat /\ n \in Nat /\ <<m, n>> \notin less
    BY <1>2
  <2>2. <<m, n>> \in Nat \X Nat => ~(<<m, n>>[1] < <<m, n>>[2])
    BY <2>1, Zenon
  <2> QED BY <2>1, <2>2
<1> QED BY <1>3

LEMMA LeastBy ==
  ASSUME NEW S, S # {}, NEW f \in [S -> Nat]
  PROVE  \E x \in S : \A y \in S : f[x] <= f[y]
<1> DEFINE T == {f[x] : x \in S}
<1>1. T \subseteq Nat /\ T # {}
  OBVIOUS
<1>2. PICK n \in T : \A m \in T : n <= m
  <2> HIDE DEF T
  <2> QED BY <1>1, LeastNat
<1>3. PICK x \in S : f[x] = n
  BY <1>2
<1>4. \A y \in S : f[x] <= f[y]
  BY <1>2, <1>3
<1> QED BY <1>4

\* A set that holds 1 and the next of each number below n holds all up to n.
LEMMA UpTo ==
  ASSUME NEW S, NEW n \in Nat, 1 \in S, \A k \in 1..n - 1 : k \in S => k + 1 \in S
  PROVE  1..n \subseteq S
<1> SUFFICES ASSUME (1..n) \ S # {} PROVE FALSE
  OBVIOUS
<1> DEFINE T == (1..n) \ S
<1>0. T \subseteq Nat /\ T # {}
  OBVIOUS
<1>1. PICK k \in T : \A m \in T : k <= m
  <2> HIDE DEF T
  <2> QED BY <1>0, LeastNat
<1>2. k # 1 /\ k - 1 \in 1..n - 1
  BY <1>1
<1>3. k - 1 \in S
  BY <1>1, <1>2
<1>4. (k - 1) + 1 \in S
  BY <1>2, <1>3
<1> QED BY <1>1, <1>4

\* A sequence of numbers that never grows by more than another and does not begin
\* above it does not end above it.
LEMMA Telescope ==
  ASSUME NEW n \in Nat \ {0}, NEW a \in [1..n -> Int], NEW b \in [1..n -> Int],
         a[1] <= b[1],
         \A k \in 1..n - 1 : a[k + 1] - a[k] <= b[k + 1] - b[k]
  PROVE  a[n] <= b[n]
<1> DEFINE S == {k \in 1..n : a[k] <= b[k]}
<1>1. 1 \in S
  OBVIOUS
<1>2. ASSUME NEW k \in 1..n - 1, k \in S PROVE k + 1 \in S
  <2>1. k + 1 \in 1..n /\ a[k] \in Int /\ b[k] \in Int /\ a[k + 1] \in Int /\ b[k + 1] \in Int
    OBVIOUS
  <2> QED BY <1>2, <2>1
<1>3. 1..n \subseteq S
  <2> HIDE DEF S
  <2> QED BY <1>1, <1>2, UpTo
<1> QED BY <1>3

LEMMA MaxMinOfTwo ==
  ASSUME NEW x \in Int, NEW y \in Int
  PROVE  /\ Max({x, y}) = IF x >= y THEN x ELSE y
         /\ Min({x, y}) = IF x <= y THEN x ELSE y
BY DEF Max, Min

-----------------------------------------------------------------------------
(* Routes *)

\* The running sum in RouteLength exists.
LEMMA SumExists ==
  ASSUME NEW r \in Seq(Cells), r # <<>>
  PROVE  \E u \in [1..Len(r) -> Nat] :
           /\ u[1] = 0
           /\ \A k \in 1..Len(r) - 1 : u[k + 1] = u[k] + Length(r[k], r[k + 1])
           /\ RouteLength(r) = u[Len(r)]
<1> DEFINE n == Len(r)
           step(k) == Length(r[k - 1], r[k])
           IsSum(u, m) == u \in [1..m -> Nat]
             /\ \A k \in 1..m : u[k] = IF k = 1 THEN 0 ELSE u[k - 1] + step(k)
           S == {m \in 1..n : \E u : IsSum(u, m)}
<1>0. n \in Nat \ {0}
  OBVIOUS
<1>s. \A k : step(k) \in Nat
  BY DEF Length
<1>1. 1 \in S
  <2>1. IsSum([k \in 1..1 |-> 0], 1)
    OBVIOUS
  <2>2. 1 \in 1..n
    BY <1>0
  <2> HIDE DEF IsSum
  <2> QED BY <2>1, <2>2
<1>2. ASSUME NEW m \in 1..n - 1, m \in S PROVE m + 1 \in S
  <2>1. PICK u : IsSum(u, m)
    BY <1>2
  <2> DEFINE v == [k \in 1..m + 1 |-> IF k = m + 1 THEN u[m] + step(m + 1) ELSE u[k]]
  <2>0. m \in Nat \ {0} /\ m + 1 \in 1..n
    BY <1>0
  <2>2. v \in [1..m + 1 -> Nat]
    <3>1. u \in [1..m -> Nat] /\ m \in 1..m
      BY <2>0, <2>1
    <3>2. step(m + 1) \in Nat
      BY <1>s
    <3> HIDE DEF step
    <3> QED BY <2>0, <3>1, <3>2
  <2>3. ASSUME NEW k \in 1..m + 1
        PROVE  v[k] = IF k = 1 THEN 0 ELSE v[k - 1] + step(k)
    <3>1. CASE k = m + 1
      <4>1. m # m + 1 /\ m \in 1..m + 1 /\ k - 1 = m
        BY <2>0, <3>1
      <4>2. v[m] = u[m] /\ v[k] = u[m] + step(m + 1)
        BY <4>1, <3>1
      <4> HIDE DEF v, step
      <4> QED BY <4>1, <4>2, <3>1, <2>0
    <3>2. CASE k # m + 1
      <4>1. k \in 1..m
        BY <2>0, <3>2
      <4>2. v[k] = u[k] /\ (k # 1 => v[k - 1] = u[k - 1])
        BY <4>1, <3>2, <2>0
      <4>3. u[k] = IF k = 1 THEN 0 ELSE u[k - 1] + step(k)
        BY <2>1, <4>1
      <4> HIDE DEF v, step
      <4> QED BY <4>2, <4>3
    <3> QED BY <3>1, <3>2
  <2>4. IsSum(v, m + 1)
    BY <2>2, <2>3
  <2> HIDE DEF IsSum, v
  <2> QED BY <2>0, <2>4
<1>3. n \in S
  <2>1. 1..n \subseteq S
    <3> HIDE DEF S
    <3> QED BY <1>0, <1>1, <1>2, UpTo
  <2>2. n \in 1..n
    BY <1>0
  <2> HIDE DEF S
  <2> QED BY <2>1, <2>2
<1> DEFINE Def(u) == u = [k \in 1..n |-> IF k = 1 THEN 0 ELSE u[k - 1] + step(k)]
           upTo == CHOOSE u : Def(u)
<1>4. \E u : Def(u)
  <2>1. PICK u : IsSum(u, n)
    <3> HIDE DEF IsSum
    <3> QED BY <1>3
  <2>2. Def(u)
    BY <2>1
  <2> QED BY <2>2
<1>5. Def(upTo)
  <2> HIDE DEF Def
  <2> QED BY <1>4
<1>6. RouteLength(r) = upTo[n]
  BY DEF RouteLength
<1>7. \A k \in 1..n : upTo[k] = IF k = 1 THEN 0 ELSE upTo[k - 1] + step(k)
  <2> HIDE DEF upTo, step
  <2> QED BY <1>5
<1>8. upTo \in [1..n -> Nat]
  <2> DEFINE T == {k \in 1..n : upTo[k] \in Nat}
  <2>1. 1 \in T
    BY <1>0, <1>7
  <2>2. ASSUME NEW k \in 1..n - 1, k \in T PROVE k + 1 \in T
    <3>1. k + 1 \in 1..n /\ k + 1 # 1 /\ (k + 1) - 1 = k
      BY <1>0
    <3>2. upTo[k + 1] = upTo[k] + step(k + 1)
      <4> HIDE DEF upTo, step
      <4> QED BY <3>1, <1>7
    <3> HIDE DEF upTo, step
    <3> QED BY <3>1, <3>2, <2>2, <1>s
  <2>3. 1..n \subseteq T
    <3> HIDE DEF T
    <3> QED BY <1>0, <2>1, <2>2, UpTo
  <2>4. upTo = [k \in 1..n |-> upTo[k]]
    <3> HIDE DEF upTo
    <3> QED BY <1>5
  <2> HIDE DEF upTo
  <2> QED BY <2>3, <2>4
<1>9. ASSUME NEW k \in 1..n - 1 PROVE upTo[k + 1] = upTo[k] + Length(r[k], r[k + 1])
  <2>1. k + 1 \in 1..n /\ k + 1 # 1 /\ (k + 1) - 1 = k
    BY <1>0
  <2> HIDE DEF upTo
  <2> QED BY <2>1, <1>7
<1> HIDE DEF upTo
<1>10. upTo[1] = 0
  BY <1>0, <1>7
<1> QED BY <1>6, <1>8, <1>9, <1>10

\* Numbers along a route that grow by no more than its steps: the last is a lower
\* bound on its length.
LEMMA RouteAtLeast ==
  ASSUME NEW r \in Seq(Cells), r # <<>>, NEW v \in [1..Len(r) -> Int], v[1] <= 0,
         \A k \in 1..Len(r) - 1 : v[k + 1] <= v[k] + Length(r[k], r[k + 1])
  PROVE  v[Len(r)] <= RouteLength(r)
<1>1. PICK u \in [1..Len(r) -> Nat] :
           /\ u[1] = 0
           /\ \A k \in 1..Len(r) - 1 : u[k + 1] = u[k] + Length(r[k], r[k + 1])
           /\ RouteLength(r) = u[Len(r)]
  BY SumExists
<1>2. Len(r) \in Nat \ {0} /\ u \in [1..Len(r) -> Int]
  OBVIOUS
<1>3. ASSUME NEW k \in 1..Len(r) - 1 PROVE v[k + 1] - v[k] <= u[k + 1] - u[k]
  <2>1. /\ k \in 1..Len(r) /\ k + 1 \in 1..Len(r)
    OBVIOUS
  <2>2. v[k] \in Int /\ v[k + 1] \in Int /\ u[k] \in Int /\ u[k + 1] \in Int
    BY <2>1, <1>2
  <2>3. Length(r[k], r[k + 1]) \in Int
    BY DEF Length
  <2>4. v[k + 1] <= v[k] + Length(r[k], r[k + 1]) /\ u[k + 1] = u[k] + Length(r[k], r[k + 1])
    BY <1>1
  <2> QED BY <2>2, <2>3, <2>4
<1>4. v[Len(r)] <= u[Len(r)]
  BY <1>1, <1>2, <1>3, Telescope
<1> QED BY <1>1, <1>4

\* Numbers along a route that grow by at least its steps: the last is an upper bound.
LEMMA RouteAtMost ==
  ASSUME NEW r \in Seq(Cells), r # <<>>, NEW v \in [1..Len(r) -> Int], v[1] >= 0,
         \A k \in 1..Len(r) - 1 : v[k] + Length(r[k], r[k + 1]) <= v[k + 1]
  PROVE  RouteLength(r) <= v[Len(r)]
<1>1. PICK u \in [1..Len(r) -> Nat] :
           /\ u[1] = 0
           /\ \A k \in 1..Len(r) - 1 : u[k + 1] = u[k] + Length(r[k], r[k + 1])
           /\ RouteLength(r) = u[Len(r)]
  BY SumExists
<1>2. Len(r) \in Nat \ {0} /\ u \in [1..Len(r) -> Int]
  OBVIOUS
<1>3. ASSUME NEW k \in 1..Len(r) - 1 PROVE u[k + 1] - u[k] <= v[k + 1] - v[k]
  <2>1. /\ k \in 1..Len(r) /\ k + 1 \in 1..Len(r)
    OBVIOUS
  <2>2. v[k] \in Int /\ v[k + 1] \in Int /\ u[k] \in Int /\ u[k + 1] \in Int
    BY <2>1, <1>2
  <2>3. Length(r[k], r[k + 1]) \in Int
    BY DEF Length
  <2>4. v[k] + Length(r[k], r[k + 1]) <= v[k + 1] /\ u[k + 1] = u[k] + Length(r[k], r[k + 1])
    BY <1>1
  <2> QED BY <2>2, <2>3, <2>4
<1>4. u[Len(r)] <= v[Len(r)]
  BY <1>1, <1>2, <1>3, Telescope
<1> QED BY <1>1, <1>4

-----------------------------------------------------------------------------
(* Cells, steps and the heuristic *)

LEMMA IndexNat ==
  ASSUME NEW c \in Cells
  PROVE  Index(c) \in Nat
<1>1. c[1] \in Nat /\ c[2] \in Nat /\ Width \in Nat
  BY GridAssumption DEF Cells
<1>2. \A x, y \in Nat : x * y \in Nat
  OBVIOUS
<1> QED BY <1>1, <1>2 DEF Index

LEMMA CellParts ==
  ASSUME NEW c \in Cells
  PROVE  /\ c = <<c[1], c[2]>> /\ c[1] \in Int /\ c[2] \in Int /\ c # NoCell
         /\ c[1] \in 0..Width - 1 /\ c[2] \in 0..Height - 1
BY GridAssumption DEF Cells, NoCell

\* What the planner steps over is what the reference calls passable.
LEMMA StepFacts ==
  ASSUME NEW c \in Cells, c \notin map, NEW d \in Steps(c)
  PROVE  /\ Shift(c, d) \in Cells /\ Shift(c, d) \notin map /\ Shift(c, d) # c
         /\ Passable(c, Shift(c, d))
         /\ Length(c, Shift(c, d)) = StepCost(d)
         /\ d = <<Shift(c, d)[1] - c[1], Shift(c, d)[2] - c[2]>>
<1> DEFINE e == Shift(c, d)
<1>1. c = <<c[1], c[2]>> /\ c[1] \in Int /\ c[2] \in Int
  BY CellParts
<1>2. /\ d \in Dirs /\ ~Blocked(map, e)
      /\ Diagonal(d) => /\ ~Blocked(map, <<c[1] + d[1], c[2]>>)
                        /\ ~Blocked(map, <<c[1], c[2] + d[2]>>)
  BY DEF Steps
<1>3. d = <<d[1], d[2]>> /\ d[1] \in -1..1 /\ d[2] \in -1..1 /\ ~(d[1] = 0 /\ d[2] = 0)
  BY <1>2 DEF Dirs
<1>4. e = <<c[1] + d[1], c[2] + d[2]>> /\ e[1] = c[1] + d[1] /\ e[2] = c[2] + d[2]
  BY DEF Shift
<1>5. e \in Cells /\ e \notin map
  BY <1>2 DEF Blocked
<1>6. e # c
  BY <1>1, <1>3, <1>4
<1>7. Gap(c[1], e[1]) <= 1 /\ Gap(c[2], e[2]) <= 1
  BY <1>1, <1>3, <1>4 DEF Gap
<1>8. <<c[1], e[2]>> \notin map /\ <<e[1], c[2]>> \notin map
  <2>1. CASE d[1] = 0
    <3>1. e[1] = c[1]
      BY <2>1, <1>1, <1>4
    <3> QED BY <3>1, <1>1, <1>4, <1>5
  <2>2. CASE d[2] = 0
    <3>1. e[2] = c[2]
      BY <2>2, <1>1, <1>4
    <3> QED BY <3>1, <1>1, <1>4, <1>5
  <2>3. CASE d[1] # 0 /\ d[2] # 0
    BY <2>3, <1>2, <1>4 DEF Diagonal, Blocked
  <2> QED BY <2>1, <2>2, <2>3
<1>9. Passable(c, e)
  <2> HIDE DEF e
  <2> QED BY <1>5, <1>6, <1>7, <1>8 DEF Passable
<1>10. Length(c, e) = StepCost(d)
  BY <1>1, <1>3, <1>4 DEF Length, StepCost, Diagonal
<1>11. d = <<e[1] - c[1], e[2] - c[2]>>
  <2>1. e[1] - c[1] = d[1] /\ e[2] - c[2] = d[2]
    BY <1>1, <1>3, <1>4
  <2> QED BY <2>1, <1>3
<1> QED BY <1>5, <1>6, <1>9, <1>10, <1>11

\* And every passable neighbour is among the steps.
LEMMA PassableStep ==
  ASSUME NEW c \in Cells, NEW e \in Cells, Passable(c, e)
  PROVE  /\ <<e[1] - c[1], e[2] - c[2]>> \in Steps(c)
         /\ Shift(c, <<e[1] - c[1], e[2] - c[2]>>) = e
         /\ StepCost(<<e[1] - c[1], e[2] - c[2]>>) = Length(c, e)
         /\ c \notin map /\ e \notin map
<1> DEFINE d == <<e[1] - c[1], e[2] - c[2]>>
<1>1. /\ c = <<c[1], c[2]>> /\ c[1] \in Int /\ c[2] \in Int
      /\ e = <<e[1], e[2]>> /\ e[1] \in Int /\ e[2] \in Int
      /\ c[1] \in 0..Width - 1 /\ c[2] \in 0..Height - 1
      /\ e[1] \in 0..Width - 1 /\ e[2] \in 0..Height - 1
  BY CellParts
<1>2. c \notin map /\ e \notin map /\ <<c[1], e[2]>> \notin map /\ <<e[1], c[2]>> \notin map
  BY DEF Passable
<1>3. c # e /\ Gap(c[1], e[1]) <= 1 /\ Gap(c[2], e[2]) <= 1
  BY DEF Passable
<1>4. d[1] = e[1] - c[1] /\ d[2] = e[2] - c[2]
  OBVIOUS
<1>5. d[1] \in -1..1 /\ d[2] \in -1..1
  BY <1>1, <1>3, <1>4 DEF Gap
<1>6. ~(d[1] = 0 /\ d[2] = 0)
  <2>1. e[1] # c[1] \/ e[2] # c[2]
    BY <1>1, <1>3
  <2> QED BY <2>1, <1>1, <1>4
<1>7. d \in Dirs
  BY <1>5, <1>6 DEF Dirs
<1>8. c[1] + d[1] = e[1] /\ c[2] + d[2] = e[2]
  BY <1>1, <1>4
<1>9. Shift(c, d) = e
  BY <1>1, <1>8 DEF Shift
<1>10. <<c[1], e[2]>> \in Cells /\ <<e[1], c[2]>> \in Cells
  BY <1>1 DEF Cells
<1>11. ~Blocked(map, e) /\ ~Blocked(map, <<e[1], c[2]>>) /\ ~Blocked(map, <<c[1], e[2]>>)
  BY <1>2, <1>10 DEF Blocked
<1>12. d \in Steps(c)
  <2> HIDE DEF d
  <2> QED BY <1>7, <1>8, <1>9, <1>11 DEF Steps
<1>13. StepCost(d) = Length(c, e)
  <2>1. (e[1] = c[1] <=> d[1] = 0) /\ (e[2] = c[2] <=> d[2] = 0)
    BY <1>1, <1>4
  <2> HIDE DEF d
  <2> QED BY <2>1 DEF StepCost, Length, Diagonal
<1> QED BY <1>2, <1>9, <1>12, <1>13

LEMMA HeuristicValue ==
  ASSUME NEW c \in Cells, to \in Cells
  PROVE  LET dx == Gap(c[1], to[1])
             dy == Gap(c[2], to[2])
         IN  /\ dx \in Nat /\ dy \in Nat
             /\ Heuristic(c) = IF dx >= dy THEN 10000 * dx + 4142 * dy
                                           ELSE 10000 * dy + 4142 * dx
             /\ Heuristic(c) \in Nat
             /\ c = to => Heuristic(c) = 0
<1> DEFINE dx == Gap(c[1], to[1])
           dy == Gap(c[2], to[2])
<1>1. c[1] \in Int /\ c[2] \in Int /\ to[1] \in Int /\ to[2] \in Int
  BY CellParts
<1>2. dx \in Nat /\ dy \in Nat /\ (c = to => dx = 0 /\ dy = 0)
  BY <1>1 DEF Gap
<1>3. Heuristic(c) = 10000 * Max({dx, dy}) + 4142 * Min({dx, dy})
  BY DEF Heuristic
<1>4. /\ Max({dx, dy}) = IF dx >= dy THEN dx ELSE dy
      /\ Min({dx, dy}) = IF dx <= dy THEN dx ELSE dy
  <2> HIDE DEF dx, dy
  <2> QED BY <1>2, MaxMinOfTwo
<1>5. Heuristic(c) = IF dx >= dy THEN 10000 * dx + 4142 * dy ELSE 10000 * dy + 4142 * dx
  <2> HIDE DEF dx, dy
  <2> QED BY <1>2, <1>3, <1>4
<1> HIDE DEF dx, dy
<1>6. Heuristic(c) \in Nat
  BY <1>2, <1>5
<1>7. c = to => Heuristic(c) = 0
  BY <1>2, <1>5
<1> QED BY <1>2, <1>5, <1>6, <1>7 DEF dx, dy

\* The octile distance is consistent: a step shortens it by no more than its length.
LEMMA Consistent ==
  ASSUME NEW c \in Cells, NEW e \in Cells, to \in Cells, Passable(c, e)
  PROVE  Heuristic(c) <= Length(c, e) + Heuristic(e)
<1>1. /\ c[1] \in Int /\ c[2] \in Int /\ to[1] \in Int /\ to[2] \in Int
      /\ e[1] \in Int /\ e[2] \in Int
  BY CellParts
<1>2. Gap(c[1], e[1]) <= 1 /\ Gap(c[2], e[2]) <= 1 /\ (c[1] # e[1] \/ c[2] # e[2])
  <2>1. c # e /\ Gap(c[1], e[1]) <= 1 /\ Gap(c[2], e[2]) <= 1
    BY DEF Passable
  <2>2. c = <<c[1], c[2]>> /\ e = <<e[1], e[2]>>
    BY CellParts
  <2> QED BY <2>1, <2>2
<1> DEFINE cx == Gap(c[1], to[1])
           cy == Gap(c[2], to[2])
           ex == Gap(e[1], to[1])
           ey == Gap(e[2], to[2])
<1>3. /\ cx <= ex + 1 /\ cy <= ey + 1
      /\ c[1] = e[1] => cx = ex
      /\ c[2] = e[2] => cy = ey
  BY <1>1, <1>2 DEF Gap
<1>4. cx \in Nat /\ cy \in Nat /\ ex \in Nat /\ ey \in Nat
  BY HeuristicValue
<1>5. /\ Heuristic(c) = IF cx >= cy THEN 10000 * cx + 4142 * cy ELSE 10000 * cy + 4142 * cx
      /\ Heuristic(e) = IF ex >= ey THEN 10000 * ex + 4142 * ey ELSE 10000 * ey + 4142 * ex
  BY HeuristicValue
<1>6. Length(c, e) = IF c[1] # e[1] /\ c[2] # e[2] THEN 14142 ELSE 10000
  BY DEF Length
<1> HIDE DEF cx, cy, ex, ey
<1>7. CASE c[1] # e[1] /\ c[2] # e[2]
  BY <1>3, <1>4, <1>5, <1>6, <1>7
<1>8. CASE c[1] = e[1]
  BY <1>3, <1>4, <1>5, <1>6, <1>8
<1>9. CASE c[2] = e[2]
  BY <1>3, <1>4, <1>5, <1>6, <1>9
<1> QED BY <1>7, <1>8, <1>9

-----------------------------------------------------------------------------
(* What is chosen exists *)

LEMMA NearestExists ==
  ASSUME NEW S, S \subseteq (-6..6) \X (-6..6), S # {}
  PROVE  \E d \in S : \A e \in S \ {d} : Nearer(d, e)
<1> DEFINE dist(d) == d[1] * d[1] + d[2] * d[2]
<1>1. ASSUME NEW d \in S
      PROVE  d = <<d[1], d[2]>> /\ d[1] \in Int /\ d[2] \in Int /\ dist(d) \in Nat
                /\ d[1] + 6 \in Nat /\ d[2] + 6 \in Nat
  <2>1. d = <<d[1], d[2]>> /\ d[1] \in -6..6 /\ d[2] \in -6..6
    OBVIOUS
  <2>2. \A x \in Int : x * x \in Nat
    OBVIOUS
  <2>3. d[1] * d[1] \in Nat /\ d[2] * d[2] \in Nat
    BY <2>1, <2>2
  <2> QED BY <2>1, <2>3
<1> HIDE DEF dist
<1>2. PICK a \in S : \A e \in S : dist(a) <= dist(e)
  <2> DEFINE f == [d \in S |-> dist(d)]
  <2>1. f \in [S -> Nat]
    BY <1>1
  <2>2. PICK x \in S : \A y \in S : f[x] <= f[y]
    <3> HIDE DEF f
    <3> QED BY <2>1, LeastBy
  <2> QED BY <2>2
<1> DEFINE A == {d \in S : dist(d) = dist(a)}
<1>3. PICK b \in A : \A e \in A : b[2] + 6 <= e[2] + 6
  <2> DEFINE f == [d \in A |-> d[2] + 6]
  <2>1. f \in [A -> Nat] /\ A # {}
    BY <1>1
  <2>2. PICK x \in A : \A y \in A : f[x] <= f[y]
    <3> HIDE DEF f, A
    <3> QED BY <2>1, LeastBy
  <2> HIDE DEF A
  <2> QED BY <2>2
<1> DEFINE B == {d \in A : d[2] = b[2]}
<1>4. PICK c \in B : \A e \in B : c[1] + 6 <= e[1] + 6
  <2> DEFINE f == [d \in B |-> d[1] + 6]
  <2>1. f \in [B -> Nat] /\ B # {}
    BY <1>1, <1>3
  <2>2. PICK x \in B : \A y \in B : f[x] <= f[y]
    <3> HIDE DEF f, B
    <3> QED BY <2>1, LeastBy
  <2> HIDE DEF B
  <2> QED BY <2>2
<1>5. c \in S /\ dist(c) = dist(a) /\ c[2] = b[2]
  BY <1>4
<1>6. ASSUME NEW e \in S \ {c} PROVE Nearer(c, e)
  <2>1. dist(c) <= dist(e)
    BY <1>2, <1>5
  <2>2. dist(e) = dist(c) => c[2] + 6 <= e[2] + 6
    BY <1>3, <1>5
  <2>3. dist(e) = dist(c) /\ e[2] = c[2] => c[1] + 6 <= e[1] + 6
    BY <1>4, <1>5
  <2>4. e[1] # c[1] \/ e[2] # c[2]
    BY <1>1, <1>5
  <2>5. Nearer(c, e) <=> \/ dist(c) < dist(e)
                         \/ dist(c) = dist(e) /\ (c[2] < e[2] \/ (c[2] = e[2] /\ c[1] < e[1]))
    BY DEF Nearer, dist
  <2>6. /\ dist(c) \in Int /\ dist(e) \in Int /\ c[1] \in Int /\ c[2] \in Int
        /\ e[1] \in Int /\ e[2] \in Int
    BY <1>1, <1>5
  <2> QED BY <2>1, <2>2, <2>3, <2>4, <2>5, <2>6
<1> QED BY <1>5, <1>6

\* snap_free yields a free cell, and stays where it is free.
LEMMA SnapFreeFree ==
  ASSUME NEW m, NEW c \in Cells
  PROVE  /\ SnapFree(m, c) # NoCell => SnapFree(m, c) \in Cells /\ SnapFree(m, c) \notin m
         /\ c \notin m => SnapFree(m, c) = c
<1> DEFINE free(r) == {d \in Square(r) : ~Blocked(m, Shift(c, d))}
           radii == {r \in 1..6 : free(r) # {}}
           best(near) == CHOOSE d \in near : \A e \in near \ {d} : Nearer(d, e)
<1>1. SnapFree(m, c) = IF ~Blocked(m, c) THEN c
                       ELSE IF radii = {} THEN NoCell ELSE Shift(c, best(free(Min(radii))))
  BY DEF SnapFree
<1>2. ASSUME radii # {}
      PROVE  /\ Min(radii) \in radii /\ \A r \in radii : Min(radii) <= r
             /\ best(free(Min(radii))) \in free(Min(radii))
  <2>1. radii \subseteq Nat
    OBVIOUS
  <2>2. Min(radii) \in radii /\ \A r \in radii : Min(radii) <= r
    <3>1. \E r \in radii : \A s \in radii : r <= s
      <4> HIDE DEF radii
      <4> QED BY <1>2, <2>1, LeastNat
    <3> HIDE DEF radii
    <3> QED BY <3>1 DEF Min
  <2> DEFINE R == Min(radii)
             near == free(R)
  <2>3. R \in 1..6 /\ near # {}
    BY <2>2
  <2>4. near \subseteq (-6..6) \X (-6..6)
    <3> HIDE DEF R
    <3> QED BY <2>3 DEF Square
  <2>5. \E d \in near : \A e \in near \ {d} : Nearer(d, e)
    <3> HIDE DEF near
    <3> QED BY <2>3, <2>4, NearestExists
  <2>6. best(near) \in near
    <3> HIDE DEF near
    <3> QED BY <2>5
  <2> QED BY <2>2, <2>6
<1>3. ASSUME radii # {}, Blocked(m, c)
      PROVE  SnapFree(m, c) \in Cells /\ SnapFree(m, c) \notin m
  <2>1. SnapFree(m, c) = Shift(c, best(free(Min(radii))))
    BY <1>1, <1>3
  <2>2. best(free(Min(radii))) \in free(Min(radii))
    BY <1>2, <1>3
  <2>3. ~Blocked(m, Shift(c, best(free(Min(radii)))))
    <3> HIDE DEF radii, best
    <3> QED BY <2>2
  <2> QED BY <2>1, <2>3 DEF Blocked
<1>4. ~Blocked(m, c) <=> c \notin m
  BY DEF Blocked
<1>5. ~Blocked(m, c) => SnapFree(m, c) = c
  BY <1>1
<1>6. Blocked(m, c) /\ SnapFree(m, c) # NoCell => radii # {}
  BY <1>1
<1> HIDE DEF free, radii, best
<1> QED BY <1>3, <1>4, <1>5, <1>6

\* The top of the queue is in it, and has the least f.
LEMMA TopLeast ==
  ASSUME open \subseteq Nat \X Cells, open # {}
  PROVE  Top \in open /\ \A r \in open : Top[1] <= r[1]
<1> DEFINE first(q) == \A r \in open :
                         q[1] < r[1] \/ (q[1] = r[1] /\ Index(q[2]) <= Index(r[2]))
<1>0. ASSUME NEW q \in open
      PROVE  q[1] \in Nat /\ q[2] \in Cells /\ Index(q[2]) \in Nat
  <2>1. q[1] \in Nat /\ q[2] \in Cells
    OBVIOUS
  <2> QED BY <2>1, IndexNat
<1>1. PICK a \in open : \A r \in open : a[1] <= r[1]
  <2> DEFINE f == [q \in open |-> q[1]]
  <2>1. f \in [open -> Nat]
    BY <1>0
  <2>2. PICK x \in open : \A y \in open : f[x] <= f[y]
    <3> HIDE DEF f
    <3> QED BY <2>1, LeastBy
  <2> QED BY <2>2
<1> DEFINE A == {q \in open : q[1] = a[1]}
<1>2. PICK b \in A : \A r \in A : Index(b[2]) <= Index(r[2])
  <2> DEFINE f == [q \in A |-> Index(q[2])]
  <2>1. f \in [A -> Nat] /\ A # {}
    BY <1>0, <1>1
  <2>2. PICK x \in A : \A y \in A : f[x] <= f[y]
    <3> HIDE DEF f, A
    <3> QED BY <2>1, LeastBy
  <2> HIDE DEF A
  <2> QED BY <2>2
<1>3. b \in open /\ b[1] = a[1]
  BY <1>2
<1>4. ASSUME NEW r \in open
      PROVE  b[1] < r[1] \/ (b[1] = r[1] /\ Index(b[2]) <= Index(r[2]))
  <2>1. b[1] <= r[1] /\ b[1] \in Int /\ r[1] \in Int
    BY <1>0, <1>1, <1>3
  <2>2. r[1] = b[1] => Index(b[2]) <= Index(r[2])
    BY <1>2, <1>3
  <2> QED BY <2>1, <2>2
<1>5. \E q \in open : first(q)
  BY <1>3, <1>4
<1>6. Top = CHOOSE q \in open : first(q)
  BY DEF Top
<1>7. Top \in open /\ first(Top)
  <2> HIDE DEF first
  <2> QED BY <1>5, <1>6
<1>8. ASSUME NEW r \in open PROVE Top[1] <= r[1]
  <2>1. Top[1] \in Int /\ r[1] \in Int
    BY <1>0, <1>7
  <2>2. Top[1] < r[1] \/ Top[1] = r[1]
    BY <1>7
  <2> QED BY <2>1, <2>2
<1> QED BY <1>7, <1>8

-----------------------------------------------------------------------------
(***************************************************************************)
(* The invariant.                                                          *)
(***************************************************************************)
TypeOK ==
  /\ open \subseteq Nat \X Cells
  /\ came \in [Cells -> Cells \cup {NoCell}]
  /\ gscore \in [Cells -> Nat \cup {Unreached}]
  /\ pc \in {"search", "back", "found", "none"}
  /\ path \in Seq(Cells)

Planned == from # NoCell /\ to # NoCell

\* A search has two free ends, and no search ends at once.
EndsFree ==
  /\ Planned \/ pc = "none"
  /\ Planned => /\ from \in Cells \ map /\ to \in Cells \ map
                /\ goal \in Cells /\ (goal \notin map => to = goal)

Reached == {c \in Cells : gscore[c] # Unreached}

\* came leads back to the start, over passable steps, each of them paid for.
Paid(c) ==
  /\ came[c] \in Reached /\ Passable(came[c], c)
  /\ gscore[came[c]] + Length(came[c], c) <= gscore[c]

Tree ==
  Planned => /\ gscore[from] = 0 /\ came[from] = NoCell
             /\ \A c \in Reached \ {from} : Paid(c)

\* An entry of the queue may be stale, which makes its f too great, never too small.
QueueBound ==
  \A q \in open : q[2] \in Reached /\ gscore[q[2]] + Heuristic(q[2]) <= q[1]

\* A cell reached is queued with its score, or its steps have been relaxed.
Queued(c) == <<gscore[c] + Heuristic(c), c>> \in open

Relaxed(c) ==
  \A d \in Steps(c) : /\ Shift(c, d) \in Reached
                      /\ gscore[Shift(c, d)] <= gscore[c] + StepCost(d)

Frontier ==
  pc = "search" => \A c \in Reached : Queued(c) \/ (c # to /\ Relaxed(c))

\* The part of the path read back.
ReadSoFar ==
  pc \in {"back", "found"} =>
    /\ path # <<>>
    /\ pc = "back" => path[Len(path)] = to
    /\ pc = "found" => path[Len(path)] = goal /\ Route[1] = from
    /\ \A k \in 1..Len(path) : Route[k] \in Reached
    /\ \A k \in 1..Len(path) - 1 : Route[k + 1] # from /\ came[Route[k + 1]] = Route[k]

\* No route is shorter than the score of the goal, and without one there is no route.
ScoreIsLeast ==
  Planned =>
    /\ pc \in {"back", "found"} =>
         /\ to \in Reached
         /\ \A r \in Routes[from, to] : IsRoute(r) => gscore[to] <= RouteLength(r)
    /\ pc = "none" => \A r \in Routes[from, to] : ~IsRoute(r)

IInv ==
  TypeOK /\ EndsFree /\ Tree /\ QueueBound /\ Frontier /\ ReadSoFar /\ ScoreIsLeast

-----------------------------------------------------------------------------
(* What a step leaves alone *)

LEMMA Unmoved ==
  ASSUME UNCHANGED <<map, from, to>>
  PROVE  /\ \A c : Steps(c)' = Steps(c)
         /\ \A c : Heuristic(c)' = Heuristic(c)
         /\ \A c, e : Passable(c, e)' = Passable(c, e)
         /\ \A r : IsRoute(r)' = IsRoute(r)
         /\ Planned' = Planned
<1>1. ASSUME NEW c PROVE Steps(c)' = Steps(c)
  BY DEF Steps, Blocked
<1>2. ASSUME NEW c PROVE Heuristic(c)' = Heuristic(c)
  BY DEF Heuristic
<1>3. ASSUME NEW c, NEW e PROVE Passable(c, e)' = Passable(c, e)
  BY DEF Passable
<1>4. ASSUME NEW r PROVE IsRoute(r)' = IsRoute(r)
  BY <1>3 DEF IsRoute
<1>5. Planned' = Planned
  BY DEF Planned
<1> QED BY <1>1, <1>2, <1>3, <1>4, <1>5

LEMMA SumUnmoved ==
  ASSUME NEW r PROVE RouteLength(r)' = RouteLength(r)
BY DEF RouteLength

-----------------------------------------------------------------------------
(* Init *)

LEMMA InitInv == Init => IInv
<1> SUFFICES ASSUME Init PROVE IInv
  OBVIOUS
<1>1. PICK p \in Points, q \in Points :
         /\ from = IF InsideMap(p) THEN SnapFree(map, WorldToCell(p)) ELSE NoCell
         /\ goal = WorldToCell(q)
         /\ to = IF InsideMap(q) THEN SnapFree(map, goal) ELSE NoCell
  BY DEF Init, CellNear
<1>2. /\ path = <<>> /\ came = [c \in Cells |-> NoCell]
      /\ gscore = [c \in Cells |-> IF c = from /\ to # NoCell THEN 0 ELSE Unreached]
      /\ ~Planned => pc = "none" /\ open = {}
      /\ Planned => pc = "search" /\ open = {<<Heuristic(from), from>>}
  BY DEF Init, Planned
<1>3. Planned => /\ from \in Cells \ map /\ to \in Cells \ map
                /\ goal \in Cells /\ (goal \notin map => to = goal)
  BY <1>1, SnapFreeFree DEF Planned, InsideMap
<1>4. Planned => Heuristic(from) \in Nat /\ gscore[from] = 0 /\ from \in Reached
  <2> SUFFICES ASSUME Planned PROVE Heuristic(from) \in Nat /\ gscore[from] = 0 /\ from \in Reached
    OBVIOUS
  <2>1. Heuristic(from) \in Nat
    BY <1>3, HeuristicValue
  <2>2. gscore[from] = 0
    BY <1>2, <1>3 DEF Planned
  <2> QED BY <1>3, <2>1, <2>2 DEF Reached, Unreached
<1>5. ASSUME NEW c \in Reached PROVE Planned /\ c = from
  BY <1>2, <1>3, <1>5 DEF Reached, Planned, NoCell, Cells
<1>6. TypeOK
  <2>1. open \subseteq Nat \X Cells
    BY <1>2, <1>3, <1>4
  <2>2. came \in [Cells -> Cells \cup {NoCell}]
    BY <1>2
  <2>3. gscore \in [Cells -> Nat \cup {Unreached}]
    BY <1>2
  <2>4. pc \in {"search", "back", "found", "none"} /\ path \in Seq(Cells)
    BY <1>2
  <2> QED BY <2>1, <2>2, <2>3, <2>4 DEF TypeOK
<1>7. EndsFree
  BY <1>2, <1>3 DEF EndsFree
<1>8. Tree
  BY <1>2, <1>3, <1>4, <1>5 DEF Tree
<1>9. QueueBound
  <2> SUFFICES ASSUME NEW e \in open
               PROVE  e[2] \in Reached /\ gscore[e[2]] + Heuristic(e[2]) <= e[1]
    BY DEF QueueBound
  <2>1. Planned /\ e[1] = Heuristic(from) /\ e[2] = from
    BY <1>2
  <2> QED BY <2>1, <1>4
<1>10. Frontier
  <2> SUFFICES ASSUME NEW c \in Reached PROVE Queued(c)
    BY DEF Frontier
  <2>1. Planned /\ c = from
    BY <1>5
  <2> QED BY <2>1, <1>2, <1>4 DEF Queued
<1>11. ReadSoFar
  BY <1>2 DEF ReadSoFar
<1>12. ScoreIsLeast
  BY <1>2 DEF ScoreIsLeast
<1> QED BY <1>6, <1>7, <1>8, <1>9, <1>10, <1>11, <1>12 DEF IInv

-----------------------------------------------------------------------------
(* Expand *)

\* The cells whose score a step improves, and what happens to each cell.
Better(e) ==
  LET d == <<e[1] - Top[2][1], e[2] - Top[2][2]>>
  IN  d \in Steps(Top[2]) /\ Improves(e, gscore[Top[2]] + StepCost(d))

LEMMA ExpandFacts ==
  ASSUME IInv, Expand
  PROVE  LET c == Top[2] IN
         /\ Planned /\ c \in Reached /\ c \in Cells \ map /\ gscore[c] \in Nat
         /\ came' \in [Cells -> Cells \cup {NoCell}]
         /\ gscore' \in [Cells -> Nat \cup {Unreached}]
         /\ \A e \in Cells :
              /\ Better(e) => /\ e \notin map /\ e # c /\ Passable(c, e)
                              /\ came'[e] = c /\ gscore'[e] = gscore[c] + Length(c, e)
                              /\ gscore[e] = Unreached \/ gscore'[e] < gscore[e]
                              /\ <<gscore'[e] + Heuristic(e), e>> \in open'
              /\ ~Better(e) => came'[e] = came[e] /\ gscore'[e] = gscore[e]
         /\ \A q \in open' : \/ q \in open /\ q # Top
                            \/ \E e \in Cells : Better(e) /\ q = <<gscore'[e] + Heuristic(e), e>>
         /\ open \ {Top} \subseteq open'
         /\ \A d \in Steps(c) : /\ Shift(c, d) \in Cells /\ gscore'[Shift(c, d)] # Unreached
                               /\ gscore'[Shift(c, d)] <= gscore[c] + StepCost(d)
<1> DEFINE c       == Top[2]
           Cost(d) == gscore[c] + StepCost(d)
           better  == {d \in Steps(c) : Improves(Shift(c, d), Cost(d))}
           Dir(e)  == <<e[1] - c[1], e[2] - c[2]>>
<1>1. /\ pc = "search" /\ open # {} /\ c # to
      /\ came' = [e \in Cells |-> IF Dir(e) \in better THEN c ELSE came[e]]
      /\ gscore' = [e \in Cells |-> IF Dir(e) \in better THEN Cost(Dir(e)) ELSE gscore[e]]
      /\ open' = (open \ {Top}) \cup
           {<<Cost(d) + Heuristic(Shift(c, d)), Shift(c, d)>> : d \in better}
  BY DEF Expand, Popped
<1>2. TypeOK /\ EndsFree /\ Tree /\ QueueBound
  BY DEF IInv
<1>3. Planned
  BY <1>1, <1>2 DEF EndsFree
<1>4. Top \in open /\ c \in Cells
  <2>1. open \subseteq Nat \X Cells
    BY <1>2 DEF TypeOK
  <2>2. Top \in open
    BY <1>1, <2>1, TopLeast
  <2> QED BY <2>1, <2>2
<1>5. c \in Reached /\ gscore[c] \in Nat
  BY <1>2, <1>4 DEF QueueBound, Reached, TypeOK
<1>6. c \notin map
  <2>1. CASE c = from
    BY <2>1, <1>2, <1>3 DEF EndsFree
  <2>2. CASE c # from
    BY <2>2, <1>2, <1>3, <1>5 DEF Tree, Paid, Passable
  <2> QED BY <2>1, <2>2
<1>7. \A d : StepCost(d) \in Nat
  BY DEF StepCost
<1>8. ASSUME NEW e \in Cells
      PROVE  /\ Shift(c, Dir(e)) = e
             /\ Dir(e) \in better <=> Better(e)
  <2>1. Shift(c, Dir(e)) = e
    <3>1. /\ c[1] \in Int /\ c[2] \in Int /\ e[1] \in Int /\ e[2] \in Int
          /\ e = <<e[1], e[2]>>
      BY <1>4, CellParts
    <3>2. c[1] + (e[1] - c[1]) = e[1] /\ c[2] + (e[2] - c[2]) = e[2]
      BY <3>1
    <3>3. Dir(e)[1] = e[1] - c[1] /\ Dir(e)[2] = e[2] - c[2]
      OBVIOUS
    <3> HIDE DEF Dir
    <3> QED BY <3>1, <3>2, <3>3 DEF Shift
  <2> HIDE DEF c
  <2> QED BY <2>1 DEF Better, c
<1>9. ASSUME NEW d \in Steps(c)
      PROVE  /\ Shift(c, d) \in Cells /\ Shift(c, d) \notin map /\ Shift(c, d) # c
             /\ Passable(c, Shift(c, d))
             /\ Length(c, Shift(c, d)) = StepCost(d)
             /\ Dir(Shift(c, d)) = d
  <2> HIDE DEF c
  <2> QED BY <1>4, <1>6, StepFacts
<1> HIDE DEF Dir, c
<1>10. ASSUME NEW e \in Cells, Better(e)
       PROVE  /\ e \notin map /\ e # c /\ Passable(c, e)
              /\ came'[e] = c /\ gscore'[e] = gscore[c] + Length(c, e)
              /\ gscore[e] = Unreached \/ gscore'[e] < gscore[e]
              /\ <<gscore'[e] + Heuristic(e), e>> \in open'
              /\ gscore'[e] \in Nat
  <2> DEFINE d == Dir(e)
  <2>1. d \in better /\ Shift(c, d) = e
    BY <1>8, <1>10
  <2>2. d \in Steps(c) /\ Improves(e, Cost(d))
    BY <2>1
  <2>3. came'[e] = c /\ gscore'[e] = Cost(d)
    BY <1>1, <2>1
  <2>4. StepCost(d) = Length(c, e) /\ e \notin map /\ e # c /\ Passable(c, e)
    BY <1>9, <2>1, <2>2
  <2>5. gscore[e] = Unreached \/ gscore'[e] < gscore[e]
    BY <2>2, <2>3 DEF Improves
  <2>6. <<Cost(d) + Heuristic(Shift(c, d)), Shift(c, d)>> \in open'
    BY <1>1, <2>1
  <2> QED BY <1>5, <1>7, <2>1, <2>3, <2>4, <2>5, <2>6
<1>11. ASSUME NEW e \in Cells, ~Better(e)
       PROVE  came'[e] = came[e] /\ gscore'[e] = gscore[e]
  <2>1. Dir(e) \notin better
    BY <1>8, <1>11
  <2> QED BY <1>1, <2>1
<1>12. came' \in [Cells -> Cells \cup {NoCell}]
  <2>1. came' = [e \in Cells |-> came'[e]]
    BY <1>1
  <2>2. \A e \in Cells : came'[e] \in Cells \cup {NoCell}
    BY <1>2, <1>4, <1>10, <1>11 DEF TypeOK
  <2> QED BY <2>1, <2>2
<1>13. gscore' \in [Cells -> Nat \cup {Unreached}]
  <2>1. gscore' = [e \in Cells |-> gscore'[e]]
    BY <1>1
  <2>2. \A e \in Cells : gscore'[e] \in Nat \cup {Unreached}
    BY <1>2, <1>10, <1>11 DEF TypeOK
  <2> QED BY <2>1, <2>2
<1>14. ASSUME NEW q \in open'
       PROVE  \/ q \in open /\ q # Top
              \/ \E e \in Cells : Better(e) /\ q = <<gscore'[e] + Heuristic(e), e>>
  <2>1. CASE q \in open \ {Top}
    BY <2>1
  <2>2. ASSUME NEW d \in better, q = <<Cost(d) + Heuristic(Shift(c, d)), Shift(c, d)>>
        PROVE  \E e \in Cells : Better(e) /\ q = <<gscore'[e] + Heuristic(e), e>>
    <3> DEFINE e == Shift(c, d)
    <3>1. d \in Steps(c)
      OBVIOUS
    <3>2. e \in Cells /\ Dir(e) = d /\ StepCost(d) = Length(c, e)
      BY <1>9, <3>1
    <3> HIDE DEF e
    <3>3. Better(e)
      BY <1>8, <3>2
    <3>4. gscore'[e] = Cost(d)
      BY <1>10, <3>2, <3>3
    <3>5. q = <<Cost(d) + Heuristic(e), e>>
      BY <2>2 DEF e
    <3> QED BY <3>2, <3>3, <3>4, <3>5
  <2>3. q \in open \ {Top} \/ \E d \in better : q = <<Cost(d) + Heuristic(Shift(c, d)), Shift(c, d)>>
    BY <1>1
  <2> QED BY <2>1, <2>2, <2>3
<1>15. open \ {Top} \subseteq open'
  BY <1>1
<1>16. ASSUME NEW d \in Steps(c)
       PROVE  /\ Shift(c, d) \in Cells /\ gscore'[Shift(c, d)] # Unreached
              /\ gscore'[Shift(c, d)] <= gscore[c] + StepCost(d)
  <2> DEFINE e == Shift(c, d)
  <2>1. e \in Cells /\ Dir(e) = d /\ StepCost(d) = Length(c, e)
    BY <1>9
  <2>2. Better(e) <=> Improves(e, Cost(d))
    <3>1. Better(e) <=> d \in better
      BY <1>8, <2>1
    <3> QED BY <3>1
  <2> HIDE DEF e
  <2>3. CASE Better(e)
    <3>1. gscore'[e] = gscore[c] + StepCost(d) /\ gscore'[e] \in Nat
      BY <1>10, <2>1, <2>3
    <3> QED BY <3>1, <2>1 DEF e, Unreached
  <2>4. CASE ~Better(e)
    <3>1. gscore'[e] = gscore[e] /\ gscore[e] \in Nat \cup {Unreached}
      BY <1>2, <1>11, <2>1, <2>4 DEF TypeOK
    <3>2. gscore[e] # Unreached /\ ~(Cost(d) < gscore[e])
      BY <2>2, <2>4 DEF Improves
    <3>3. Cost(d) \in Nat
      BY <1>5, <1>7
    <3> QED BY <3>1, <3>2, <3>3, <2>1 DEF e, Unreached
  <2> QED BY <2>3, <2>4
<1> QED BY <1>3, <1>4, <1>5, <1>6, <1>10, <1>11, <1>12, <1>13, <1>14, <1>15, <1>16 DEF c

LEMMA ExpandInv == ASSUME IInv, Expand PROVE IInv'
<1> DEFINE c == Top[2]
<1>1. /\ Planned /\ c \in Reached /\ c \in Cells \ map /\ gscore[c] \in Nat
      /\ came' \in [Cells -> Cells \cup {NoCell}]
      /\ gscore' \in [Cells -> Nat \cup {Unreached}]
  BY ExpandFacts
<1>2. \A e \in Cells :
        /\ Better(e) => /\ e \notin map /\ e # c /\ Passable(c, e)
                        /\ came'[e] = c /\ gscore'[e] = gscore[c] + Length(c, e)
                        /\ gscore[e] = Unreached \/ gscore'[e] < gscore[e]
                        /\ <<gscore'[e] + Heuristic(e), e>> \in open'
        /\ ~Better(e) => came'[e] = came[e] /\ gscore'[e] = gscore[e]
  BY ExpandFacts
<1>3. \A q \in open' : \/ q \in open /\ q # Top
                      \/ \E e \in Cells : Better(e) /\ q = <<gscore'[e] + Heuristic(e), e>>
  BY ExpandFacts
<1>4. /\ open \ {Top} \subseteq open'
      /\ \A d \in Steps(c) : /\ Shift(c, d) \in Cells /\ gscore'[Shift(c, d)] # Unreached
                            /\ gscore'[Shift(c, d)] <= gscore[c] + StepCost(d)
  BY ExpandFacts
<1> HIDE DEF c
<1>5. TypeOK /\ EndsFree /\ Tree /\ QueueBound /\ Frontier
  BY DEF IInv
<1>6. /\ pc = "search" /\ c # to
      /\ UNCHANGED <<map, goal, from, to, pc, path>>
  BY DEF Expand, c
<1>7. /\ \A e : Steps(e)' = Steps(e)
      /\ \A e : Heuristic(e)' = Heuristic(e)
      /\ \A e, f : Passable(e, f)' = Passable(e, f)
      /\ Planned' = Planned
  BY <1>6, Unmoved
<1>8. from \in Cells /\ to \in Cells
  BY <1>1, <1>5 DEF EndsFree
<1>9. ASSUME NEW e \in Cells
      PROVE  Length(c, e) \in Nat /\ Heuristic(e) \in Nat
  BY <1>8, HeuristicValue DEF Length
<1>r. \A e \in Cells : e \in Reached' <=> gscore'[e] # Unreached
  BY DEF Reached
<1>10. ASSUME NEW e \in Reached
       PROVE  e \in Reached' /\ gscore[e] \in Nat /\ gscore'[e] \in Nat /\ gscore'[e] <= gscore[e]
  <2>1. e \in Cells /\ gscore[e] \in Nat /\ gscore[e] # Unreached
    BY <1>5 DEF Reached, TypeOK
  <2>2. gscore'[e] \in Nat /\ gscore'[e] <= gscore[e]
    <3>1. CASE Better(e)
      <4>1. gscore'[e] = gscore[c] + Length(c, e) /\ gscore'[e] < gscore[e]
        BY <2>1, <3>1, <1>2
      <4>2. Length(c, e) \in Nat
        BY <2>1, <1>9
      <4> QED BY <2>1, <4>1, <4>2, <1>1
    <3>2. CASE ~Better(e)
      <4>1. gscore'[e] = gscore[e]
        BY <2>1, <3>2, <1>2
      <4> QED BY <2>1, <4>1
    <3> QED BY <3>1, <3>2
  <2>3. gscore'[e] # Unreached
    BY <2>2 DEF Unreached
  <2> QED BY <2>1, <2>2, <2>3, <1>r
<1>11. ASSUME NEW e \in Cells, Better(e)
       PROVE  e \in Reached' /\ gscore'[e] \in Nat
  <2>1. gscore'[e] = gscore[c] + Length(c, e) /\ Length(c, e) \in Nat
    BY <1>2, <1>9, <1>11
  <2>2. gscore'[e] \in Nat
    BY <2>1, <1>1
  <2>3. gscore'[e] # Unreached
    BY <2>2 DEF Unreached
  <2> QED BY <2>2, <2>3, <1>r
<1>12. gscore'[c] = gscore[c] /\ c \in Reached'
  BY <1>1, <1>2, <1>10
<1>13. TypeOK'
  <2>1. ASSUME NEW q \in open' PROVE q \in Nat \X Cells
    <3>1. CASE q \in open
      BY <3>1, <1>5 DEF TypeOK
    <3>2. CASE \E e \in Cells : Better(e) /\ q = <<gscore'[e] + Heuristic(e), e>>
      BY <3>2, <1>9, <1>11
    <3> QED BY <3>1, <3>2, <1>3
  <2>2. pc' \in {"search", "back", "found", "none"} /\ path' \in Seq(Cells)
    BY <1>5, <1>6 DEF TypeOK
  <2> QED BY <2>1, <2>2, <1>1 DEF TypeOK
<1>14. EndsFree'
  BY <1>5, <1>6, <1>7 DEF EndsFree
<1>15. Tree'
  <2>1. ~Better(from)
    <3>1. gscore[from] = 0
      BY <1>1, <1>5 DEF Tree
    <3>2. ASSUME Better(from) PROVE FALSE
      <4>1. gscore'[from] \in Nat
        BY <3>2, <1>8, <1>11
      <4>2. gscore'[from] < 0
        <5>1. gscore[from] = Unreached \/ gscore'[from] < gscore[from]
          BY <3>2, <1>2, <1>8
        <5> QED BY <5>1, <3>1 DEF Unreached
      <4> QED BY <4>1, <4>2
    <3> QED BY <3>2
  <2>2. gscore'[from] = 0 /\ came'[from] = NoCell
    BY <2>1, <1>1, <1>2, <1>5, <1>8 DEF Tree
  <2>3. ASSUME NEW e \in Reached' \ {from} PROVE Paid(e)'
    <3>0. e \in Cells
      BY DEF Reached
    <3>1. CASE Better(e)
      <4>1. came'[e] = c /\ Passable(c, e) /\ gscore'[e] = gscore[c] + Length(c, e)
        BY <3>0, <3>1, <1>2
      <4>2. came'[e] \in Reached'
        BY <4>1, <1>12
      <4>3. gscore'[came'[e]] + Length(came'[e], e) <= gscore'[e]
        BY <3>0, <4>1, <1>1, <1>9, <1>12
      <4>4. Passable(came[e], e)'
        BY <4>1, <1>6 DEF Passable
      <4> QED BY <4>2, <4>3, <4>4 DEF Paid
    <3>2. CASE ~Better(e)
      <4>1. came'[e] = came[e] /\ gscore'[e] = gscore[e]
        BY <3>0, <3>2, <1>2
      <4>2. e \in Reached \ {from}
        BY <3>0, <4>1, <1>6 DEF Reached
      <4>3. Paid(e)
        BY <4>2, <1>1, <1>5 DEF Tree
      <4>4. PICK p \in Reached : /\ p = came[e] /\ Passable(p, e)
                                  /\ gscore[p] + Length(p, e) <= gscore[e]
        BY <4>3 DEF Paid
      <4>5. p \in Reached' /\ gscore[p] \in Nat /\ gscore'[p] \in Nat /\ gscore'[p] <= gscore[p]
        BY <1>10
      <4>6. gscore[e] \in Nat /\ Length(p, e) \in Nat
        BY <4>2, <1>10 DEF Length
      <4>7. gscore'[p] + Length(p, e) <= gscore'[e]
        BY <4>1, <4>4, <4>5, <4>6
      <4>8. came'[e] = p
        BY <4>1, <4>4
      <4>9. Passable(came[e], e)'
        BY <4>4, <4>8, <1>6 DEF Passable
      <4> QED BY <4>5, <4>7, <4>8, <4>9 DEF Paid
    <3> QED BY <3>1, <3>2
  <2> QED BY <2>2, <2>3, <1>6 DEF Tree
<1>16. QueueBound'
  <2> SUFFICES ASSUME NEW q \in open'
               PROVE  q[2] \in Reached' /\ gscore'[q[2]] + Heuristic(q[2])' <= q[1]
    BY DEF QueueBound
  <2>1. CASE q \in open
    <3>1. q[2] \in Reached /\ gscore[q[2]] + Heuristic(q[2]) <= q[1] /\ q[1] \in Nat /\ q[2] \in Cells
      BY <2>1, <1>5 DEF QueueBound, TypeOK
    <3>2. /\ q[2] \in Reached' /\ gscore[q[2]] \in Nat /\ gscore'[q[2]] \in Nat
          /\ gscore'[q[2]] <= gscore[q[2]]
      BY <3>1, <1>10
    <3>3. Heuristic(q[2]) \in Nat
      BY <3>1, <1>9
    <3>4. Heuristic(q[2])' = Heuristic(q[2])
      BY <1>7
    <3> QED BY <3>1, <3>2, <3>3, <3>4
  <2>2. ASSUME NEW e \in Cells, Better(e), q = <<gscore'[e] + Heuristic(e), e>>
        PROVE  q[2] \in Reached' /\ gscore'[q[2]] + Heuristic(q[2])' <= q[1]
    <3>1. q[2] = e /\ q[1] = gscore'[e] + Heuristic(e)
      BY <2>2
    <3>2. e \in Reached' /\ gscore'[e] \in Nat /\ Heuristic(e) \in Nat
      BY <2>2, <1>9, <1>11
    <3>3. Heuristic(e)' = Heuristic(e)
      BY <1>7
    <3> QED BY <3>1, <3>2, <3>3
  <2> QED BY <2>1, <2>2, <1>3
<1>17. Frontier'
  <2> SUFFICES ASSUME NEW e \in Reached'
               PROVE  Queued(e)' \/ (e # to' /\ Relaxed(e)')
    BY DEF Frontier
  <2>0. e \in Cells
    BY DEF Reached
  <2>h. Heuristic(e)' = Heuristic(e)
    BY <1>7
  <2>1. CASE Better(e)
    <3>1. <<gscore'[e] + Heuristic(e), e>> \in open'
      BY <2>0, <2>1, <1>2
    <3> QED BY <3>1, <2>h DEF Queued
  <2>2. CASE e = c
    <3>1. ASSUME NEW d \in Steps(e)'
          PROVE  Shift(e, d) \in Reached' /\ gscore'[Shift(e, d)] <= gscore'[e] + StepCost(d)
      <4>1. d \in Steps(c)
        BY <2>2, <1>7
      <4> QED BY <4>1, <2>2, <1>4, <1>12 DEF Reached
    <3>2. Relaxed(e)'
      BY <3>1 DEF Relaxed
    <3> QED BY <3>2, <2>2, <1>6
  <2>3. CASE ~Better(e) /\ e # c
    <3>1. gscore'[e] = gscore[e]
      BY <2>0, <2>3, <1>2
    <3>2. e \in Reached
      BY <2>0, <3>1 DEF Reached
    <3>3. CASE Queued(e)
      <4>1. <<gscore[e] + Heuristic(e), e>> \in open
        BY <3>3 DEF Queued
      <4>2. <<gscore[e] + Heuristic(e), e>> # Top
        BY <2>3 DEF c
      <4>3. <<gscore'[e] + Heuristic(e), e>> \in open'
        BY <3>1, <4>1, <4>2, <1>4
      <4> QED BY <4>3, <2>h DEF Queued
    <3>4. CASE e # to /\ Relaxed(e)
      <4>1. ASSUME NEW d \in Steps(e)'
            PROVE  Shift(e, d) \in Reached' /\ gscore'[Shift(e, d)] <= gscore'[e] + StepCost(d)
        <5>1. d \in Steps(e)
          BY <1>7
        <5>2. Shift(e, d) \in Reached /\ gscore[Shift(e, d)] <= gscore[e] + StepCost(d)
          BY <5>1, <3>4 DEF Relaxed
        <5>3. /\ Shift(e, d) \in Reached' /\ gscore[Shift(e, d)] \in Nat
              /\ gscore'[Shift(e, d)] \in Nat /\ gscore'[Shift(e, d)] <= gscore[Shift(e, d)]
          BY <5>2, <1>10
        <5>4. gscore[e] \in Nat /\ StepCost(d) \in Nat
          BY <3>2, <1>10 DEF StepCost
        <5> QED BY <3>1, <5>2, <5>3, <5>4
      <4>2. Relaxed(e)'
        BY <4>1 DEF Relaxed
      <4> QED BY <4>2, <3>4, <1>6
    <3> QED BY <3>2, <3>3, <3>4, <1>5, <1>6 DEF Frontier
  <2> QED BY <2>1, <2>2, <2>3
<1>18. ReadSoFar' /\ ScoreIsLeast'
  BY <1>6 DEF ReadSoFar, ScoreIsLeast
<1> QED BY <1>13, <1>14, <1>15, <1>16, <1>17, <1>18 DEF IInv

-----------------------------------------------------------------------------
(* The end of the search *)

LEMMA ScoreFacts ==
  ASSUME TypeOK, EndsFree, Tree, pc = "search"
  PROVE  /\ Planned /\ from \in Cells /\ to \in Cells
         /\ from \in Reached /\ gscore[from] = 0
         /\ \A c \in Reached : c \in Cells /\ gscore[c] \in Nat
<1>1. Planned
  BY DEF EndsFree
<1>2. from \in Cells /\ to \in Cells /\ gscore[from] = 0
  BY <1>1 DEF EndsFree, Tree
<1>3. from \in Reached
  BY <1>2 DEF Reached, Unreached
<1>4. \A c \in Reached : c \in Cells /\ gscore[c] \in Nat
  BY DEF TypeOK, Reached
<1> QED BY <1>1, <1>2, <1>3, <1>4

\* When the goal leaves the queue no route is shorter than its score: the lesser of a
\* cell's score and of what the heuristic leaves of the goal's never grows by more
\* than a step, because a cell whose score is the lesser has been relaxed.
LEMMA FoundLeast ==
  ASSUME IInv, pc = "search", open # {}, Top[2] = to
  PROVE  /\ to \in Reached
         /\ \A r \in Seq(Cells) : IsRoute(r) => gscore[to] <= RouteLength(r)
<1> DEFINE F == gscore[to]
           D == [e \in Cells |-> IF e \in Reached /\ gscore[e] + Heuristic(e) < F
                                THEN gscore[e] ELSE F - Heuristic(e)]
<1>1. TypeOK /\ EndsFree /\ Tree /\ QueueBound /\ Frontier
  BY DEF IInv
<1>2. /\ from \in Cells /\ to \in Cells /\ from \in Reached /\ gscore[from] = 0 /\ Planned
      /\ \A c \in Reached : c \in Cells /\ gscore[c] \in Nat
  BY <1>1, ScoreFacts
<1>3. Top \in open /\ \A q \in open : Top[1] <= q[1]
  BY <1>1, TopLeast DEF TypeOK
<1>4. to \in Reached
  BY <1>1, <1>3 DEF QueueBound
<1>5. \A c \in Cells : Heuristic(c) \in Nat
  BY <1>2, HeuristicValue
<1>6. Heuristic(to) = 0 /\ F \in Nat
  BY <1>2, <1>4, HeuristicValue
<1>7. ASSUME NEW q \in open PROVE q[1] \in Nat /\ F <= q[1]
  <2>1. F + Heuristic(to) <= Top[1]
    BY <1>1, <1>3 DEF QueueBound
  <2>2. Top[1] <= q[1]
    BY <1>3
  <2>3. Top[1] \in Nat /\ q[1] \in Nat
    BY <1>1, <1>3 DEF TypeOK
  <2> HIDE DEF F
  <2> QED BY <2>1, <2>2, <2>3, <1>6
<1>8. \A c \in Cells : D[c] \in Int
  BY <1>2, <1>5, <1>6
<1>9. ASSUME NEW c \in Cells, NEW e \in Cells, Passable(c, e)
      PROVE  D[e] <= D[c] + Length(c, e)
  <2>0. Length(c, e) \in Nat /\ Heuristic(c) \in Nat /\ Heuristic(e) \in Nat
    BY <1>5 DEF Length
  <2>1. CASE c \in Reached /\ gscore[c] + Heuristic(c) < F
    <3>1. ~Queued(c)
      <4> SUFFICES ASSUME Queued(c) PROVE FALSE
        OBVIOUS
      <4> DEFINE q == <<gscore[c] + Heuristic(c), c>>
      <4>1. F <= q[1]
        BY <1>7 DEF Queued
      <4>2. q[1] = gscore[c] + Heuristic(c) /\ gscore[c] + Heuristic(c) \in Nat
        BY <1>2, <2>0, <2>1
      <4> HIDE DEF q, F
      <4> QED BY <4>1, <4>2, <2>1, <1>6
    <3>2. Relaxed(c)
      BY <2>1, <3>1, <1>1 DEF Frontier
    <3>3. e \in Reached /\ gscore[e] <= gscore[c] + Length(c, e)
      <4> DEFINE d == <<e[1] - c[1], e[2] - c[2]>>
      <4>1. d \in Steps(c) /\ Shift(c, d) = e /\ StepCost(d) = Length(c, e)
        BY <1>9, PassableStep
      <4> HIDE DEF d
      <4> QED BY <4>1, <3>2 DEF Relaxed
    <3>4. D[c] = gscore[c]
      BY <2>1
    <3>5. gscore[c] \in Nat /\ gscore[e] \in Nat
      BY <1>2, <2>1, <3>3
    <3>6. D[e] <= gscore[e]
      <4>1. CASE gscore[e] + Heuristic(e) < F
        BY <4>1, <3>3, <3>5
      <4>2. CASE ~(gscore[e] + Heuristic(e) < F)
        <5>1. D[e] = F - Heuristic(e)
          BY <4>2
        <5> HIDE DEF D, F
        <5> QED BY <5>1, <4>2, <3>5, <2>0, <1>6
      <4> QED BY <4>1, <4>2
    <3>7. D[e] \in Int
      BY <1>8
    <3> HIDE DEF D, F
    <3> QED BY <3>3, <3>4, <3>5, <3>6, <3>7, <2>0
  <2>2. CASE ~(c \in Reached /\ gscore[c] + Heuristic(c) < F)
    <3>1. D[c] = F - Heuristic(c)
      BY <2>2
    <3>2. D[e] <= F - Heuristic(e)
      <4>1. CASE e \in Reached /\ gscore[e] + Heuristic(e) < F
        <5>1. D[e] = gscore[e] /\ gscore[e] \in Nat
          BY <4>1, <1>2
        <5> HIDE DEF D, F
        <5> QED BY <5>1, <4>1, <2>0, <1>6
      <4>2. CASE ~(e \in Reached /\ gscore[e] + Heuristic(e) < F)
        <5>1. D[e] = F - Heuristic(e)
          BY <4>2
        <5> HIDE DEF D, F
        <5> QED BY <5>1, <2>0, <1>6
      <4> QED BY <4>1, <4>2
    <3>3. Heuristic(c) <= Length(c, e) + Heuristic(e)
      BY <1>2, <1>9, Consistent
    <3>4. D[e] \in Int
      BY <1>8
    <3> HIDE DEF D, F
    <3> QED BY <3>1, <3>2, <3>3, <3>4, <2>0, <1>6
  <2> QED BY <2>1, <2>2
<1>10. D[from] <= 0
  <2>1. CASE gscore[from] + Heuristic(from) < F
    BY <2>1, <1>2
  <2>2. CASE ~(gscore[from] + Heuristic(from) < F)
    <3>1. D[from] = F - Heuristic(from)
      BY <2>2, <1>2
    <3>2. Heuristic(from) \in Nat
      BY <1>2, <1>5
    <3> HIDE DEF D, F
    <3> QED BY <3>1, <3>2, <2>2, <1>2, <1>6
  <2> QED BY <2>1, <2>2
<1>11. D[to] = F
  BY <1>2, <1>6
<1>12. ASSUME NEW r \in Seq(Cells), IsRoute(r) PROVE F <= RouteLength(r)
  <2> DEFINE v == [k \in 1..Len(r) |-> D[r[k]]]
  <2>1. r # <<>> /\ r[1] = from /\ r[Len(r)] = to /\ Len(r) \in Nat \ {0}
    BY <1>12 DEF IsRoute
  <2>2. \A k \in 1..Len(r) : r[k] \in Cells
    OBVIOUS
  <2> HIDE DEF D, F
  <2>3. v \in [1..Len(r) -> Int]
    BY <1>8, <2>2
  <2>4. v[1] <= 0
    BY <1>10, <2>1
  <2>5. ASSUME NEW k \in 1..Len(r) - 1
        PROVE  v[k + 1] <= v[k] + Length(r[k], r[k + 1])
    <3>1. k \in 1..Len(r) /\ k + 1 \in 1..Len(r)
      BY <2>1
    <3>2. v[k] = D[r[k]] /\ v[k + 1] = D[r[k + 1]] /\ r[k] \in Cells /\ r[k + 1] \in Cells
      BY <3>1, <2>2
    <3>3. Passable(r[k], r[k + 1])
      BY <1>12 DEF IsRoute
    <3> HIDE DEF v
    <3> QED BY <3>2, <3>3, <1>9
  <2>6. v[Len(r)] = F
    BY <1>11, <2>1
  <2>7. v[Len(r)] <= RouteLength(r)
    <3> HIDE DEF v
    <3> QED BY <2>1, <2>3, <2>4, <2>5, RouteAtLeast
  <2> QED BY <2>6, <2>7
<1> QED BY <1>4, <1>12

\* When the queue is empty, what is reached is closed under steps: there is no route.
LEMMA ExhaustedNone ==
  ASSUME IInv, pc = "search", open = {}, NEW r \in Seq(Cells)
  PROVE  ~IsRoute(r)
<1> SUFFICES ASSUME IsRoute(r) PROVE FALSE
  OBVIOUS
<1>1. TypeOK /\ EndsFree /\ Tree /\ Frontier
  BY DEF IInv
<1>2. /\ from \in Reached /\ \A c \in Reached : c \in Cells
  BY <1>1, ScoreFacts
<1>3. \A c \in Reached : c # to /\ Relaxed(c)
  BY <1>1 DEF Frontier, Queued
<1>4. r # <<>> /\ r[1] = from /\ r[Len(r)] = to /\ Len(r) \in Nat \ {0}
  BY DEF IsRoute
<1> DEFINE S == {k \in 1..Len(r) : r[k] \in Reached}
<1>5. 1 \in S
  BY <1>2, <1>4
<1>6. ASSUME NEW k \in 1..Len(r) - 1, k \in S PROVE k + 1 \in S
  <2>1. k \in 1..Len(r) /\ k + 1 \in 1..Len(r)
    BY <1>4
  <2>2. r[k] \in Reached /\ r[k] \in Cells /\ r[k + 1] \in Cells
    BY <1>6, <2>1
  <2>3. Passable(r[k], r[k + 1])
    BY DEF IsRoute
  <2>4. PICK d \in Steps(r[k]) : Shift(r[k], d) = r[k + 1]
    BY <2>2, <2>3, PassableStep
  <2>5. r[k + 1] \in Reached
    BY <1>3, <2>2, <2>4 DEF Relaxed
  <2> QED BY <2>1, <2>5
<1>7. 1..Len(r) \subseteq S
  <2> HIDE DEF S
  <2> QED BY <1>4, <1>5, <1>6, UpTo
<1>8. r[Len(r)] \in Reached
  BY <1>4, <1>7
<1> QED BY <1>3, <1>4, <1>8

LEMMA RoutesAreSequences ==
  ASSUME from \in Cells, to \in Cells
  PROVE  Routes[from, to] \subseteq Seq(Cells)
<1>1. Routes \in [Cells \X Cells -> SUBSET Seq(Cells)]
  BY RoutesAssumption DEF Cells
<1> QED BY <1>1

LEMMA ReplaceLast ==
  ASSUME NEW S, NEW p \in Seq(S), p # <<>>, NEW x \in S
  PROVE  LET q == [p EXCEPT ![Len(p)] = x]
         IN  /\ q \in Seq(S) /\ q # <<>> /\ Len(q) = Len(p) /\ q[Len(q)] = x
             /\ p[Len(p)] = x => q = p
OBVIOUS

LEMMA ReplaceTwice ==
  ASSUME NEW n, NEW p, p = [k \in 1..n |-> p[k]], NEW y
  PROVE  [[p EXCEPT ![n] = y] EXCEPT ![n] = p[n]] = p
<1> DEFINE q == [p EXCEPT ![n] = y]
<1>1. q = [k \in 1..n |-> IF k = n THEN y ELSE p[k]]
  OBVIOUS
<1> HIDE DEF q
<1>2. [q EXCEPT ![n] = p[n]] = [k \in 1..n |-> IF k = n THEN p[n] ELSE q[k]]
  BY <1>1
<1>3. [q EXCEPT ![n] = p[n]] = [k \in 1..n |-> p[k]]
  BY <1>1, <1>2
<1> QED BY <1>3 DEF q

LEMMA NotEmpty ==
  ASSUME NEW S, NEW p \in Seq(S), p # <<>>
  PROVE  Len(p) \in Nat \ {0} /\ 1 \in 1..Len(p) /\ Len(p) \in 1..Len(p)
OBVIOUS

LEMMA FoundInv == ASSUME IInv, Found PROVE IInv'
<1>1. TypeOK /\ EndsFree /\ Tree /\ QueueBound
  BY DEF IInv
<1>2. /\ pc = "search" /\ open # {} /\ Top[2] = to /\ pc' = "back" /\ path' = <<to>>
      /\ open' \subseteq open
      /\ UNCHANGED <<map, goal, from, to, came, gscore>>
  BY DEF Found, Popped
<1>3. Planned /\ from \in Cells /\ to \in Cells
  BY <1>1, <1>2, ScoreFacts
<1>4. /\ to \in Reached
      /\ \A r \in Seq(Cells) : IsRoute(r) => gscore[to] <= RouteLength(r)
  BY <1>2, FoundLeast
<1>5. /\ \A e : Heuristic(e)' = Heuristic(e)
      /\ \A r : IsRoute(r)' = IsRoute(r)
      /\ Planned' = Planned
  BY <1>2, Unmoved
<1>6. Reached' = Reached
  BY <1>2 DEF Reached
<1>7. TypeOK'
  BY <1>1, <1>2, <1>3 DEF TypeOK
<1>8. EndsFree'
  BY <1>1, <1>2, <1>5 DEF EndsFree
<1>9. Tree'
  BY <1>1, <1>2, <1>5, <1>6 DEF Tree, Paid, Passable
<1>10. QueueBound'
  BY <1>1, <1>2, <1>5, <1>6 DEF QueueBound, Heuristic
<1>11. Frontier'
  BY <1>2 DEF Frontier
<1>12. ReadSoFar'
  <2>1. Route' = <<to>>
    BY <1>2 DEF Route
  <2>2. Len(path') = 1 /\ path'[1] = to /\ <<to>>[1] = to /\ path' # <<>>
    BY <1>2
  <2> QED BY <2>1, <2>2, <1>2, <1>4, <1>6 DEF ReadSoFar
<1>13. ScoreIsLeast'
  <2>1. ASSUME NEW r \in Routes[from, to]', IsRoute(r)'
        PROVE  gscore'[to'] <= RouteLength(r)'
    <3>1. r \in Seq(Cells)
      BY <1>2, <1>3, RoutesAreSequences
    <3>2. IsRoute(r)
      BY <2>1, <1>5
    <3>3. gscore[to] <= RouteLength(r)
      BY <3>1, <3>2, <1>4
    <3> QED BY <3>3, <1>2, SumUnmoved
  <2> QED BY <2>1, <1>2, <1>4, <1>6 DEF ScoreIsLeast
<1> QED BY <1>7, <1>8, <1>9, <1>10, <1>11, <1>12, <1>13 DEF IInv

LEMMA ExhaustedInv == ASSUME IInv, Exhausted PROVE IInv'
<1>1. TypeOK /\ EndsFree /\ Tree /\ QueueBound
  BY DEF IInv
<1>2. /\ pc = "search" /\ open = {} /\ pc' = "none"
      /\ UNCHANGED <<map, goal, from, to, open, came, gscore, path>>
  BY DEF Exhausted
<1>3. Planned /\ from \in Cells /\ to \in Cells
  BY <1>1, <1>2, ScoreFacts
<1>4. \A r \in Routes[from, to] : ~IsRoute(r)
  BY <1>2, <1>3, ExhaustedNone, RoutesAreSequences
<1>5. /\ \A r : IsRoute(r)' = IsRoute(r)
      /\ Planned' = Planned
  BY <1>2, Unmoved
<1>6. Reached' = Reached
  BY <1>2 DEF Reached
<1>7. TypeOK'
  BY <1>1, <1>2 DEF TypeOK
<1>8. EndsFree'
  BY <1>1, <1>2, <1>5 DEF EndsFree
<1>9. Tree'
  BY <1>1, <1>2, <1>5, <1>6 DEF Tree, Paid, Passable
<1>10. QueueBound'
  BY <1>2 DEF QueueBound
<1>11. Frontier' /\ ReadSoFar'
  BY <1>2 DEF Frontier, ReadSoFar
<1>12. ScoreIsLeast'
  BY <1>2, <1>4, <1>5 DEF ScoreIsLeast
<1> QED BY <1>7, <1>8, <1>9, <1>10, <1>11, <1>12 DEF IInv

-----------------------------------------------------------------------------
(* The path read back *)

LEMMA ReadFacts ==
  ASSUME TypeOK, ReadSoFar, pc = "back"
  PROVE  /\ path \in Seq(Cells) /\ path # <<>> /\ Len(path) \in Nat \ {0}
         /\ path[Len(path)] = to /\ to \in Cells /\ Route = path
         /\ \A k \in 1..Len(path) : path[k] \in Reached
         /\ \A k \in 1..Len(path) - 1 : path[k + 1] # from /\ came[path[k + 1]] = path[k]
<1>1. path \in Seq(Cells) /\ path # <<>>
  BY DEF TypeOK, ReadSoFar
<1>2. path[Len(path)] = to /\ Len(path) \in Nat \ {0}
  BY <1>1 DEF ReadSoFar
<1>3. to \in Cells
  BY <1>1, <1>2
<1>4. Route = path
  BY <1>1, <1>2, <1>3, ReplaceLast DEF Route
<1> QED BY <1>1, <1>2, <1>3, <1>4 DEF ReadSoFar

LEMMA ReadBackInv == ASSUME IInv, ReadBack PROVE IInv'
<1>1. TypeOK /\ EndsFree /\ Tree /\ QueueBound /\ ReadSoFar /\ ScoreIsLeast
  BY DEF IInv
<1> DEFINE p == came[path[1]]
<1>2. /\ pc = "back" /\ p # NoCell /\ path' = <<p>> \o path
      /\ UNCHANGED <<map, goal, from, to, open, came, gscore, pc>>
  BY DEF ReadBack
<1>3. /\ path \in Seq(Cells) /\ path # <<>> /\ Len(path) \in Nat \ {0}
      /\ path[Len(path)] = to /\ to \in Cells
      /\ \A k \in 1..Len(path) : path[k] \in Reached
      /\ \A k \in 1..Len(path) - 1 : path[k + 1] # from /\ came[path[k + 1]] = path[k]
  BY <1>1, <1>2, ReadFacts
<1>4. Planned
  BY <1>1, <1>2 DEF EndsFree
<1>5. path[1] \in Reached /\ path[1] # from
  BY <1>1, <1>2, <1>3, <1>4 DEF Tree
<1>6. p \in Reached /\ p \in Cells
  BY <1>1, <1>4, <1>5 DEF Tree, Paid, Reached
<1>7. /\ \A r : IsRoute(r)' = IsRoute(r)
      /\ Planned' = Planned
  BY <1>2, Unmoved
<1>8. Reached' = Reached
  BY <1>2 DEF Reached
<1> HIDE DEF p
<1>9. /\ path' \in Seq(Cells) /\ path' # <<>> /\ Len(path') = Len(path) + 1
      /\ path'[1] = p /\ \A k \in 1..Len(path) : path'[k + 1] = path[k]
  BY <1>2, <1>3, <1>6
<1>10. path'[Len(path')] = to /\ Route' = path'
  <2>1. path'[Len(path')] = to
    BY <1>3, <1>9
  <2>2. Route' = [path' EXCEPT ![Len(path')] = to]
    BY <1>2 DEF Route
  <2> QED BY <2>1, <2>2, <1>3, <1>9, ReplaceLast
<1>11. ASSUME NEW k \in 1..Len(path') PROVE path'[k] \in Reached
  <2>1. CASE k = 1
    BY <2>1, <1>6, <1>9
  <2>2. CASE k # 1
    <3>1. k - 1 \in 1..Len(path) /\ (k - 1) + 1 = k
      BY <2>2, <1>3, <1>9
    <3>2. path'[k] = path[k - 1]
      BY <3>1, <1>9
    <3> QED BY <3>1, <3>2, <1>3
  <2> QED BY <2>1, <2>2
<1>12. ASSUME NEW k \in 1..Len(path') - 1
       PROVE  path'[k + 1] # from /\ came[path'[k + 1]] = path'[k]
  <2>0. k \in 1..Len(path) /\ path'[k + 1] = path[k]
    BY <1>3, <1>9
  <2>1. CASE k = 1
    BY <2>0, <2>1, <1>5, <1>9 DEF p
  <2>2. CASE k # 1
    <3>1. k - 1 \in 1..Len(path) - 1 /\ k - 1 \in 1..Len(path) /\ (k - 1) + 1 = k
      BY <2>0, <2>2, <1>3
    <3>2. path'[k] = path[k - 1]
      BY <3>1, <1>9
    <3>3. path[(k - 1) + 1] # from /\ came[path[(k - 1) + 1]] = path[k - 1]
      BY <3>1, <1>3
    <3> QED BY <2>0, <3>1, <3>2, <3>3
  <2> QED BY <2>1, <2>2
<1>13. TypeOK'
  BY <1>1, <1>2, <1>9 DEF TypeOK
<1>14. EndsFree'
  BY <1>1, <1>2, <1>7 DEF EndsFree
<1>15. Tree'
  BY <1>1, <1>2, <1>7, <1>8 DEF Tree, Paid, Passable
<1>16. QueueBound'
  BY <1>1, <1>2, <1>8 DEF QueueBound, Heuristic
<1>17. Frontier'
  BY <1>2 DEF Frontier
<1>18. ReadSoFar'
  BY <1>2, <1>8, <1>9, <1>10, <1>11, <1>12 DEF ReadSoFar
<1>19. ScoreIsLeast'
  BY <1>1, <1>2, <1>7, <1>8, SumUnmoved DEF ScoreIsLeast
<1> QED BY <1>13, <1>14, <1>15, <1>16, <1>17, <1>18, <1>19 DEF IInv

LEMMA ReturnInv == ASSUME IInv, Return PROVE IInv'
<1>1. TypeOK /\ EndsFree /\ Tree /\ QueueBound /\ ReadSoFar /\ ScoreIsLeast
  BY DEF IInv
<1>2. /\ pc = "back" /\ came[path[1]] = NoCell /\ pc' = "found"
      /\ path' = [path EXCEPT ![Len(path)] = goal]
      /\ UNCHANGED <<map, goal, from, to, open, came, gscore>>
  BY DEF Return
<1>3. /\ path \in Seq(Cells) /\ path # <<>> /\ Len(path) \in Nat \ {0}
      /\ path[Len(path)] = to /\ to \in Cells
      /\ \A k \in 1..Len(path) : path[k] \in Reached
      /\ \A k \in 1..Len(path) - 1 : path[k + 1] # from /\ came[path[k + 1]] = path[k]
  BY <1>1, <1>2, ReadFacts
<1>4. Planned /\ goal \in Cells
  BY <1>1, <1>2 DEF EndsFree
<1>5. path[1] = from
  <2> SUFFICES ASSUME path[1] # from PROVE FALSE
    OBVIOUS
  <2>1. path[1] \in Reached \ {from}
    BY <1>3
  <2>2. came[path[1]] \in Cells
    BY <2>1, <1>1, <1>4 DEF Tree, Paid, Reached
  <2> QED BY <2>2, <1>2, CellParts
<1>6. /\ path' \in Seq(Cells) /\ path' # <<>> /\ Len(path') = Len(path)
      /\ path'[Len(path')] = goal
  BY <1>2, <1>3, <1>4, ReplaceLast
<1>7. Route' = path
  <2>1. Route' = [path' EXCEPT ![Len(path')] = to]
    BY <1>2 DEF Route
  <2>2. [path' EXCEPT ![Len(path')] = to] = path
    <3> DEFINE n == Len(path)
    <3>1. path = [k \in 1..n |-> path[k]] /\ path[n] = to
      BY <1>3
    <3>2. path' = [path EXCEPT ![n] = goal] /\ Len(path') = n
      BY <1>2, <1>6
    <3> HIDE DEF n
    <3> QED BY <3>1, <3>2, ReplaceTwice
  <2> QED BY <2>1, <2>2
<1>8. /\ \A r : IsRoute(r)' = IsRoute(r)
      /\ Planned' = Planned
  BY <1>2, Unmoved
<1>9. Reached' = Reached
  BY <1>2 DEF Reached
<1>10. TypeOK'
  BY <1>1, <1>2, <1>6 DEF TypeOK
<1>11. EndsFree'
  BY <1>1, <1>2, <1>8 DEF EndsFree
<1>12. Tree'
  BY <1>1, <1>2, <1>8, <1>9 DEF Tree, Paid, Passable
<1>13. QueueBound'
  BY <1>1, <1>2, <1>9 DEF QueueBound, Heuristic
<1>14. Frontier'
  BY <1>2 DEF Frontier
<1>15. ReadSoFar'
  BY <1>2, <1>3, <1>5, <1>6, <1>7, <1>9 DEF ReadSoFar
<1>16. ScoreIsLeast'
  BY <1>1, <1>2, <1>8, <1>9, SumUnmoved DEF ScoreIsLeast
<1> QED BY <1>10, <1>11, <1>12, <1>13, <1>14, <1>15, <1>16 DEF IInv

-----------------------------------------------------------------------------
(***************************************************************************)
(* The theorems.                                                           *)
(***************************************************************************)
\* What the search keeps true from the first pop of the queue to the path returned:
\* came is a tree of passable steps that the scores pay for, and every cell reached
\* is queued with its score or has been relaxed.
THEOREM PlannerInv == Spec => []IInv
<1>1. Init => IInv
  BY InitInv
<1>2. ASSUME IInv, [Next]_vars PROVE IInv'
  <2>1. CASE Expand
    BY <2>1, <1>2, ExpandInv
  <2>2. CASE Found
    BY <2>2, <1>2, FoundInv
  <2>3. CASE ReadBack
    BY <2>3, <1>2, ReadBackInv
  <2>4. CASE Return
    BY <2>4, <1>2, ReturnInv
  <2>5. CASE Exhausted
    BY <2>5, <1>2, ExhaustedInv
  <2>6. CASE UNCHANGED vars
    <3>1. UNCHANGED <<map, goal, from, to, open, came, gscore, pc, path>>
      BY <2>6 DEF vars
    <3>2. /\ \A r : IsRoute(r)' = IsRoute(r)
          /\ Planned' = Planned
      BY <3>1, Unmoved
    <3>3. Reached' = Reached /\ Route' = Route
      BY <3>1 DEF Reached, Route
    <3>4. TypeOK' /\ EndsFree' /\ Tree'
      BY <1>2, <3>1, <3>2, <3>3 DEF IInv, TypeOK, EndsFree, Tree, Paid, Passable
    <3>5. QueueBound'
      BY <1>2, <3>1, <3>3 DEF IInv, QueueBound, Heuristic
    <3>6. Frontier'
      BY <1>2, <3>1, <3>3 DEF IInv, Frontier, Queued, Relaxed, Heuristic, Steps, Blocked
    <3>7. ReadSoFar'
      BY <1>2, <3>1, <3>3 DEF IInv, ReadSoFar
    <3>8. ScoreIsLeast'
      BY <1>2, <3>1, <3>2, <3>3, SumUnmoved DEF IInv, ScoreIsLeast
    <3> QED BY <3>4, <3>5, <3>6, <3>7, <3>8 DEF IInv
  <2> QED BY <1>2, <2>1, <2>2, <2>3, <2>4, <2>5, <2>6 DEF Next
<1> QED BY <1>1, <1>2, PTL DEF Spec

\* What the invariant says of a path returned.
LEMMA PathFacts ==
  ASSUME IInv, pc = "found"
  PROVE  /\ Planned /\ Route \in Seq(Cells) /\ IsRoute(Route)
         /\ path[Len(path)] = goal /\ (goal \notin map => to = goal)
         /\ \A k \in 1..Len(Route) : Route[k] \in Reached
         /\ \A k \in 1..Len(Route) - 1 : Route[k + 1] # from /\ came[Route[k + 1]] = Route[k]
<1>1. TypeOK /\ EndsFree /\ Tree /\ ReadSoFar
  BY DEF IInv
<1>2. Planned /\ to \in Cells /\ (goal \notin map => to = goal)
  BY <1>1 DEF EndsFree
<1>3. path \in Seq(Cells) /\ path # <<>>
  BY <1>1 DEF TypeOK, ReadSoFar
<1>4. /\ Route \in Seq(Cells) /\ Route # <<>> /\ Len(Route) = Len(path)
      /\ Route[Len(Route)] = to
  BY <1>2, <1>3, ReplaceLast DEF Route
<1>5. /\ path[Len(path)] = goal /\ Route[1] = from
      /\ \A k \in 1..Len(Route) : Route[k] \in Reached
      /\ \A k \in 1..Len(Route) - 1 : Route[k + 1] # from /\ came[Route[k + 1]] = Route[k]
  BY <1>1, <1>4 DEF ReadSoFar
<1>6. ASSUME NEW k \in 1..Len(Route) - 1 PROVE Passable(Route[k], Route[k + 1])
  <2>1. k + 1 \in 1..Len(Route)
    BY <1>4
  <2>2. Route[k + 1] \in Reached \ {from}
    BY <2>1, <1>5
  <2>3. Passable(came[Route[k + 1]], Route[k + 1])
    BY <2>2, <1>1, <1>2 DEF Tree, Paid
  <2> QED BY <2>3, <1>5
<1>7. IsRoute(Route)
  BY <1>4, <1>5, <1>6 DEF IsRoute
<1> QED BY <1>2, <1>4, <1>5, <1>7

\* The path is a way over free cells from the start to the commanded goal, on every
\* map and for every two points.
THEOREM PathLegal == Spec => []PathIsLegal
<1>1. IInv => PathIsLegal
  BY PathFacts DEF PathIsLegal
<1> QED BY <1>1, PlannerInv, PTL

LEMMA RouteLengthNat ==
  ASSUME NEW r \in Seq(Cells), IsRoute(r)
  PROVE  RouteLength(r) \in Nat
<1>1. r # <<>>
  BY DEF IsRoute
<1>2. Len(r) \in 1..Len(r)
  BY <1>1, NotEmpty
<1>3. PICK u \in [1..Len(r) -> Nat] : RouteLength(r) = u[Len(r)]
  BY <1>1, SumExists
<1> QED BY <1>2, <1>3

\* The path is no longer than the score of the goal.
LEMMA PathPaid ==
  ASSUME IInv, pc = "found", NEW p \in Seq(Cells), p = Route
  PROVE  RouteLength(p) <= gscore[to] /\ gscore[to] \in Nat
<1>1. TypeOK /\ Tree
  BY DEF IInv
<1>2. /\ Planned /\ IsRoute(p)
      /\ \A k \in 1..Len(p) : p[k] \in Reached
      /\ \A k \in 1..Len(p) - 1 : p[k + 1] # from /\ came[p[k + 1]] = p[k]
  BY PathFacts
<1>3. p # <<>> /\ p[1] = from /\ p[Len(p)] = to
  BY <1>2 DEF IsRoute
<1>4. Len(p) \in Nat \ {0} /\ 1 \in 1..Len(p) /\ Len(p) \in 1..Len(p)
  BY <1>3, NotEmpty
<1> DEFINE v == [k \in 1..Len(p) |-> gscore[p[k]]]
<1>5. \A k \in 1..Len(p) : gscore[p[k]] \in Nat
  BY <1>1, <1>2 DEF Reached, TypeOK
<1>6. v \in [1..Len(p) -> Int] /\ v[1] >= 0
  BY <1>4, <1>5
<1>7. ASSUME NEW k \in 1..Len(p) - 1
      PROVE  v[k] + Length(p[k], p[k + 1]) <= v[k + 1]
  <2>1. k \in 1..Len(p) /\ k + 1 \in 1..Len(p)
    BY <1>4
  <2>2. p[k + 1] \in Reached \ {from} /\ came[p[k + 1]] = p[k]
    BY <1>2, <2>1
  <2>3. Paid(p[k + 1])
    BY <1>1, <1>2, <2>2 DEF Tree
  <2>4. gscore[p[k]] + Length(p[k], p[k + 1]) <= gscore[p[k + 1]]
    BY <2>2, <2>3 DEF Paid
  <2> QED BY <2>1, <2>4
<1>8. v[Len(p)] = gscore[to]
  BY <1>3, <1>4
<1>9. RouteLength(p) <= v[Len(p)]
  <2> HIDE DEF v
  <2> QED BY <1>3, <1>6, <1>7, RouteAtMost
<1>10. gscore[to] \in Nat
  BY <1>3, <1>4, <1>5
<1> QED BY <1>8, <1>9, <1>10

\* No way over free cells is shorter than the path, and there is none where the
\* planner reports none.
THEOREM PathShortest == Spec => []PathIsShortest
<1>1. ASSUME IInv PROVE PathIsShortest
  <2>1. EndsFree /\ ScoreIsLeast
    BY <1>1 DEF IInv
  <2>2. Planned => Routes[from, to] \subseteq Seq(Cells)
    BY <2>1, RoutesAreSequences DEF EndsFree
  <2>3. ASSUME Planned, pc = "found", NEW r \in Seq(Cells), r \in Routes[from, to], IsRoute(r)
        PROVE  RouteLength(Route) <= RouteLength(r)
    <3>1. Route \in Seq(Cells) /\ IsRoute(Route)
      BY <1>1, <2>3, PathFacts
    <3>2. RouteLength(Route) <= gscore[to] /\ gscore[to] \in Nat
      BY <1>1, <2>3, <3>1, PathPaid
    <3>3. gscore[to] <= RouteLength(r)
      BY <2>1, <2>3 DEF ScoreIsLeast
    <3>4. RouteLength(Route) \in Nat /\ RouteLength(r) \in Nat
      BY <2>3, <3>1, RouteLengthNat
    <3> QED BY <3>2, <3>3, <3>4
  <2>4. ASSUME Planned, pc = "none", NEW r \in Routes[from, to]
        PROVE  ~IsRoute(r)
    BY <2>1, <2>4 DEF ScoreIsLeast
  <2> QED BY <2>2, <2>3, <2>4 DEF PathIsShortest, Planned
<1> QED BY <1>1, PlannerInv, PTL
=============================================================================

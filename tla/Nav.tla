-------------------------------- MODULE Nav --------------------------------
(***************************************************************************)
(* The planner of the robot (sim/include/botcockpit_sim/nav.hpp): the      *)
(* occupancy grid and A*, one pop of the priority queue per step.          *)
(*                                                                         *)
(* World coordinates are integers, two to a cell (0.25 m) from the map's   *)
(* origin, so that cell centres are odd; costs are in 1/10000 of a cell.   *)
(* Pure pursuit, which works on reals, is not modelled.                    *)
(***************************************************************************)
EXTENDS Integers, Sequences, FiniteSets, FiniteSetsExt

CONSTANTS
  Width, Height,  \* the grid
  Maps,           \* the maps to plan on, each a set of occupied cells
  Points,         \* the world points <<x, y>> to plan from and to
  Routes          \* Routes[a, b]: the ways from a to b to compare a path with

ASSUME GridAssumption == Width \in Nat /\ Height \in Nat

ASSUME RoutesAssumption ==
  LET cells == (0..Width - 1) \X (0..Height - 1)
  IN  Routes \in [cells \X cells -> SUBSET Seq(cells)]

VARIABLES
  map,    \* occupied cells
  goal,   \* the cell of the commanded goal
  from, to,  \* the cells to plan from and to, after snap_free
  open,   \* the priority queue: pairs <<f, cell>>
  came,   \* came[c]: predecessor of cell c, NoCell without
  gscore, \* gscore[c], Unreached for infinity
  pc,     \* "search", "back" (the path is read back), "found", "none"
  path    \* the cells of the waypoints

vars == <<map, goal, from, to, open, came, gscore, pc, path>>

-----------------------------------------------------------------------------
(***************************************************************************)
(* GridMap                                                                 *)
(***************************************************************************)
Cells == (0..Width - 1) \X (0..Height - 1)

\* at: everything outside the map is occupied.
Blocked(m, c) == c \notin Cells \/ c \in m

Shift(c, d) == <<c[1] + d[1], c[2] + d[2]>>

Disc(r) == {d \in (-r..r) \X (-r..r) : d[1] * d[1] + d[2] * d[2] <= r * r}

Inflate(m, r) == {Shift(c, d) : c \in m, d \in Disc(r)} \cap Cells

\* Faulty variant: the gap of the wall is two cells wide.
NarrowCorridorDemo ==
  {c \in Cells :
     \/ c[1] \in {0, Width - 1} \/ c[2] \in {0, Height - 1}
     \/ c[1] = 20 /\ c[2] \in 2..Height - 3 /\ c[2] \notin 8..9
     \/ c \in {<<5, 4>>, <<6, 4>>}}

\* make_corridor_demo, of 40 x 20 cells: the borders, a wall with a gap of five
\* cells, and a block.
CorridorDemo ==
  {c \in Cells :
     \/ c[1] \in {0, Width - 1} \/ c[2] \in {0, Height - 1}
     \/ c[1] = 20 /\ c[2] \in 2..Height - 3 /\ c[2] \notin 7..11
     \/ c \in {<<5, 4>>, <<6, 4>>}}

\* world_to_cell; a point outside the map has no cell.
WorldToCell(p) == <<p[1] \div 2, p[2] \div 2>>

InsideMap(p) == WorldToCell(p) \in Cells

-----------------------------------------------------------------------------
(***************************************************************************)
(* astar                                                                   *)
(***************************************************************************)
Square(r) == (-r..r) \X (-r..r)

NoCell == <<-1, -1>>

\* x before y in the scan of a square: by distance, then row by row.
Nearer(d, e) ==
  LET dd == d[1] * d[1] + d[2] * d[2]
      ee == e[1] * e[1] + e[2] * e[2]
  IN  dd < ee \/ (dd = ee /\ (d[2] < e[2] \/ (d[2] = e[2] /\ d[1] < e[1])))

\* snap_free: the cell itself, or the smallest square around it with a free cell,
\* up to 6 cells away.
SnapFree(m, c) ==
  LET free(r) == {d \in Square(r) : ~Blocked(m, Shift(c, d))}
      radii   == {r \in 1..6 : free(r) # {}}
      near    == free(Min(radii))
  IN  IF ~Blocked(m, c) THEN c
      ELSE IF radii = {} THEN NoCell
      ELSE Shift(c, CHOOSE d \in near : \A e \in near \ {d} : Nearer(d, e))

\* Where a search from or to p begins or ends.
CellNear(p) == IF InsideMap(p) THEN SnapFree(map, WorldToCell(p)) ELSE NoCell

\* idx, which orders cells of the same f
Index(c) == c[2] * Width + c[1]

Gap(a, b) == IF a < b THEN b - a ELSE a - b

\* h: the octile distance
Heuristic(c) ==
  LET dx == Gap(c[1], to[1])
      dy == Gap(c[2], to[2])
  IN  10000 * Max({dx, dy}) + 4142 * Min({dx, dy})

Dirs == (-1..1) \X (-1..1) \ {<<0, 0>>}

Diagonal(d) == d[1] # 0 /\ d[2] # 0

StepCost(d) == IF Diagonal(d) THEN 14142 ELSE 10000

\* Faulty variant: only the target cell is tested.
StepsCuttingCorners(c) == {d \in Dirs : ~Blocked(map, Shift(c, d))}

\* The neighbours tried from c: free, and no corner cut.
Steps(c) ==
  {d \in Dirs :
     /\ ~Blocked(map, Shift(c, d))
     /\ Diagonal(d) => /\ ~Blocked(map, <<c[1] + d[1], c[2]>>)
                       /\ ~Blocked(map, <<c[1], c[2] + d[2]>>)}

Unreached == -1

\* Either end outside the map, or without a free cell near: no search.
Init ==
  /\ map \in Maps
  /\ path = <<>>
  /\ from \in {CellNear(p) : p \in Points}
  /\ \E q \in Points : goal = WorldToCell(q) /\ to = CellNear(q)
  /\ came = [c \in Cells |-> NoCell]
  /\ gscore = [c \in Cells |-> IF c = from /\ to # NoCell THEN 0 ELSE Unreached]
  /\ IF from = NoCell \/ to = NoCell
     THEN pc = "none" /\ open = {}
     ELSE pc = "search" /\ open = {<<Heuristic(from), from>>}

\* Faulty variant: std::priority_queue without std::greater.
TopOfMaxHeap ==
  CHOOSE q \in open :
    \A r \in open : q[1] > r[1] \/ (q[1] = r[1] /\ Index(q[2]) >= Index(r[2]))

\* open.top(): the least f, and of those the least index.
Top ==
  CHOOSE q \in open :
    \A r \in open : q[1] < r[1] \/ (q[1] = r[1] /\ Index(q[2]) <= Index(r[2]))

\* Faulty variant: pop() is missing.
NotPopped == open

\* A cell is queued again only with a lower f: no pair is queued twice.
Popped == open \ {Top}

Improves(c, cost) == gscore[c] = Unreached \/ cost < gscore[c]

\* One turn of the search, for any other cell than the goal's.
Expand ==
  /\ pc = "search" /\ open # {} /\ Top[2] # to
  /\ LET c       == Top[2]
         Cost(d) == gscore[c] + StepCost(d)
         better  == {d \in Steps(c) : Improves(Shift(c, d), Cost(d))}
         Dir(e)  == <<e[1] - c[1], e[2] - c[2]>>
     IN  /\ came' = [e \in Cells |-> IF Dir(e) \in better THEN c ELSE came[e]]
         /\ gscore' = [e \in Cells |->
                         IF Dir(e) \in better THEN Cost(Dir(e)) ELSE gscore[e]]
         /\ open' = Popped \cup
              {<<Cost(d) + Heuristic(Shift(c, d)), Shift(c, d)>> : d \in better}
  /\ UNCHANGED <<map, goal, from, to, pc, path>>

Found ==
  /\ pc = "search" /\ open # {} /\ Top[2] = to
  /\ pc' = "back"
  /\ path' = <<to>>
  /\ open' = Popped
  /\ UNCHANGED <<map, goal, from, to, came, gscore>>

\* One turn of while (c >= 0), which puts a predecessor before the path.
ReadBack ==
  /\ pc = "back" /\ came[path[1]] # NoCell
  /\ path' = <<came[path[1]]>> \o path
  /\ UNCHANGED <<map, goal, from, to, open, came, gscore, pc>>

\* The last waypoint becomes the commanded goal, which snap_free may have left.
Return ==
  /\ pc = "back" /\ came[path[1]] = NoCell
  /\ pc' = "found"
  /\ path' = [path EXCEPT ![Len(path)] = goal]
  /\ UNCHANGED <<map, goal, from, to, open, came, gscore>>

Exhausted ==
  /\ pc = "search" /\ open = {}
  /\ pc' = "none"
  /\ UNCHANGED <<map, goal, from, to, open, came, gscore, path>>

Next == Expand \/ Found \/ ReadBack \/ Return \/ Exhausted

Spec == Init /\ [][Next]_vars /\ WF_vars(Next)

-----------------------------------------------------------------------------
(***************************************************************************)
(* Properties                                                              *)
(***************************************************************************)
\* The reference: a step between free cells that passes no occupied corner.
Passable(c, e) ==
  /\ c # e /\ Gap(c[1], e[1]) <= 1 /\ Gap(c[2], e[2]) <= 1
  /\ c \notin map /\ e \notin map
  /\ <<c[1], e[2]>> \notin map /\ <<e[1], c[2]>> \notin map

Length(c, e) == IF c[1] # e[1] /\ c[2] # e[2] THEN 14142 ELSE 10000

\* A way over free cells between the two ends of the search.
IsRoute(r) ==
  /\ r # <<>> /\ r[1] = from /\ r[Len(r)] = to
  /\ \A k \in 1..Len(r) - 1 : Passable(r[k], r[k + 1])

RouteLength(r) ==
  LET upTo[k \in 1..Len(r)] ==
        IF k = 1 THEN 0 ELSE upTo[k - 1] + Length(r[k - 1], r[k])
  IN  upTo[Len(r)]

\* The cells the path leads through.
Route == [path EXCEPT ![Len(path)] = to]

\* The path A* returns leads from the start over free cells, one cell at a time and
\* never between two obstacles that touch at a corner, to the commanded goal: or,
\* when the goal is occupied, to the nearest free cell, and the last leg straight to
\* the goal, is not checked against the map.
PathIsLegal ==
  pc = "found" =>
    /\ IsRoute(Route)
    /\ path[Len(path)] = goal
    /\ goal \notin map => to = goal

\* A* finds a shortest path, and reports none only when there is none: the queue
\* keeps stale entries and no closed list, and the heuristic must be admissible.
PathIsShortest ==
  from # NoCell /\ to # NoCell =>
    /\ pc = "found" =>
         LET length == RouteLength(Route)
         IN  \A r \in Routes[from, to] : IsRoute(r) => length <= RouteLength(r)
    /\ pc = "none" => \A r \in Routes[from, to] : ~IsRoute(r)

\* What on_cmd admits as a goal: x from 0 to 20 m, y from -5 to 5 m.
Admitted == (0..2 * Width) \X (0..2 * Height)

\* The search ends.
SearchEnds == <>(pc \in {"found", "none"})
=============================================================================

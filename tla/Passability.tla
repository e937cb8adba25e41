----------------------------- MODULE Passability -----------------------------
(***************************************************************************)
(* Can the car still get through: PassabilityGrid.route_passable() and its *)
(* search for the widest path, parking_mission/passability.py.             *)
(*                                                                         *)
(* The map is a choice: clear gives every cell its clearance, which        *)
(* clearance_grid() computes, in units in which a car passes a cell of     *)
(* clearance Need.  A route is its points as cells, the car's first        *)
(* (remaining_polyline).  Where the code takes the first of several cells  *)
(* at the same distance, or of several entries of the heap at the same     *)
(* bottleneck, the choice is open here.  What the result says beyond the   *)
(* verdict and its width (the path, the detour, the blocked point) is left *)
(* out.                                                                    *)
(***************************************************************************)
EXTENDS Integers, Sequences

CONSTANTS
  Width, Height,  \* of the map, in cells
  Band,           \* Band[<<a, b>>]: the cells within band of the line from a to b
  Routes,         \* the polylines that are asked about
  MaxClear,       \* bound: the largest clearance
  Need,           \* half width of the car and margin
  StartRadius,    \* how far the car's position may be moved, in cells
  GoalRadius      \* goal_span

Cells == (0..(Width - 1)) \X (0..(Height - 1))

ASSUME PassabilityAssumption ==
  /\ Width \in Nat \ {0} /\ Height \in Nat \ {0}
  /\ MaxClear \in Nat /\ Need \in 0..MaxClear
  /\ StartRadius \in Nat /\ GoalRadius \in Nat
  /\ Routes \subseteq Seq(Cells) \ {<<>>}
  /\ Band \in [Cells \X Cells -> SUBSET Cells]

VARIABLES
  clear,     \* clearance_grid()
  route,     \* polyline
  phase,     \* where route_passable() is, or the reason it has returned
  leg,       \* li, from 1
  cur,       \* cur_cell
  start,     \* leg_start
  goal,      \* goal_cell
  best,      \* _widest(): bottleneck on the way to a cell, -1 if not reached
  heap,      \* _widest()
  settled,   \* _widest()
  tightest   \* MaxClear + 1 for infinity

askVars == <<clear, route>>
searchVars == <<best, heap, settled>>
passVars == <<clear, route, phase, leg, cur, start, goal, best, heap, settled, tightest>>

Verdicts == {"no legs", "trapped", "shut", "cut", "passable"}
Entry == [b : Need..MaxClear, cell : Cells]

TypeOK ==
  /\ clear \in [Cells -> 0..MaxClear]
  /\ route \in Routes
  /\ phase \in {"start", "leg", "search", "found"} \cup Verdicts
  /\ leg \in 1..Len(route)
  /\ cur \in Cells /\ start \in Cells /\ goal \in Cells
  /\ best \in [Cells -> {-1} \cup (Need..MaxClear)]
  /\ heap \subseteq Entry
  /\ settled \subseteq Cells
  /\ tightest \in Need..(MaxClear + 1)

-----------------------------------------------------------------------------
Least(m, n) == IF m <= n THEN m ELSE n
Apart(m, n) == IF m <= n THEN n - m ELSE m - n

\* Rings around a cell; the eight neighbours are the ring of radius 1.
Ring(c, d) == IF Apart(c[1], d[1]) <= Apart(c[2], d[2]) THEN Apart(c[2], d[2])
                                                        ELSE Apart(c[1], d[1])

\* make_ok() of leg l.
OkCells(l) == {c \in Band[<<route[l], route[l + 1]>>] : clear[c] >= Need}

\* _nearest_ok()
Nearest(c, l, radius) ==
  {d \in OkCells(l) : /\ Ring(c, d) <= radius
                      /\ \A e \in OkCells(l) : Ring(c, d) <= Ring(c, e)}

\* Mutant: the heap is a list.
TopAny == heap

Top == {e \in heap : \A f \in heap : f.b <= e.b}

\* Mutant: a way as wide as the one known is pursued, also through settled cells.
WidenedAgain(e) ==
  {n \in OkCells(leg) :
     /\ Ring(e.cell, n) = 1
     /\ Least(e.b, clear[n]) >= best[n]}

\* Cells that a settled one gives a wider way to.
Widened(e) ==
  {n \in OkCells(leg) \ settled :
     /\ e.cell \notin settled
     /\ Ring(e.cell, n) = 1
     /\ Least(e.b, clear[n]) > best[n]}

-----------------------------------------------------------------------------
Init ==
  /\ clear \in [Cells -> 0..MaxClear]
  /\ route \in Routes
  /\ phase = "start"
  /\ leg = 1
  /\ cur = route[1] /\ start = route[1] /\ goal = route[1]
  /\ best = [c \in Cells |-> -1]
  /\ heap = {} /\ settled = {}
  /\ tightest = MaxClear + 1

(* route_passable(), before the legs *)
NoLegs ==
  /\ phase = "start" /\ Len(route) < 2
  /\ phase' = "no legs"
  /\ UNCHANGED <<askVars, leg, cur, start, goal, searchVars, tightest>>

Trapped ==
  /\ phase = "start" /\ Len(route) >= 2
  /\ Nearest(route[1], 1, StartRadius) = {}
  /\ phase' = "trapped"
  /\ UNCHANGED <<askVars, leg, cur, start, goal, searchVars, tightest>>

Start ==
  /\ phase = "start" /\ Len(route) >= 2
  /\ cur' \in Nearest(route[1], 1, StartRadius)
  /\ phase' = "leg"
  /\ UNCHANGED <<askVars, leg, start, goal, searchVars, tightest>>

(* a leg *)
LegShut ==
  /\ phase = "leg"
  /\ \/ Nearest(route[leg + 1], leg, GoalRadius) = {}
     \/ Nearest(cur, leg, GoalRadius) = {}
  /\ phase' = "shut"
  /\ UNCHANGED <<askVars, leg, cur, start, goal, searchVars, tightest>>

BeginSearch ==
  /\ phase = "leg"
  /\ goal' \in Nearest(route[leg + 1], leg, GoalRadius)
  /\ start' \in Nearest(cur, leg, GoalRadius)
  /\ phase' = "search"
  /\ best' = [c \in Cells |-> IF c = start' THEN clear[c] ELSE -1]
  /\ heap' = {[b |-> clear[start'], cell |-> start']}
  /\ settled' = {}
  /\ UNCHANGED <<askVars, leg, cur, tightest>>

(* _widest() *)
Expand(e) ==
  /\ phase = "search" /\ e \in Top /\ e.cell # goal
  /\ settled' = settled \cup {e.cell}
  /\ best' = [n \in Cells |-> IF n \in Widened(e) THEN Least(e.b, clear[n]) ELSE best[n]]
  /\ heap' = (heap \ {e}) \cup {[b |-> Least(e.b, clear[n]), cell |-> n] : n \in Widened(e)}
  /\ UNCHANGED <<askVars, phase, leg, cur, start, goal, tightest>>

Arrive(e) ==
  /\ phase = "search" /\ e \in Top /\ e.cell = goal
  /\ settled' = settled \cup {goal}
  /\ heap' = heap \ {e}
  /\ tightest' = Least(tightest, e.b)
  /\ phase' = "found"
  /\ UNCHANGED <<askVars, leg, cur, start, goal, best>>

Cut ==
  /\ phase = "search" /\ heap = {}
  /\ phase' = "cut"
  /\ UNCHANGED <<askVars, leg, cur, start, goal, searchVars, tightest>>

(* and on to the next leg *)
LegDone ==
  /\ phase = "found" /\ leg + 1 < Len(route)
  /\ cur' = goal
  /\ leg' = leg + 1
  /\ phase' = "leg"
  /\ UNCHANGED <<askVars, start, goal, searchVars, tightest>>

RouteDone ==
  /\ phase = "found" /\ leg + 1 = Len(route)
  /\ cur' = goal
  /\ phase' = "passable"
  /\ UNCHANGED <<askVars, leg, start, goal, searchVars, tightest>>

Search == (\E e \in heap : Expand(e)) \/ Cut
Next ==
  \/ NoLegs \/ Trapped \/ Start \/ LegShut \/ BeginSearch
  \/ Search \/ (\E e \in heap : Arrive(e)) \/ LegDone \/ RouteDone

Spec == Init /\ [][Next]_passVars
=============================================================================

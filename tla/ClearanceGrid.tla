--------------------------- MODULE ClearanceGrid ----------------------------
(***************************************************************************)
(* PassabilityGrid as a store: which cells of the map are occupied, and    *)
(* how far every cell is from the nearest of them, computed when it is     *)
(* first asked for and kept until an obstacle is added                     *)
(* (parking_mission/passability.py).                                       *)
(*                                                                         *)
(* Lengths are whole centimetres: a step to a side neighbour costs Res and *)
(* one to a diagonal neighbour Diag, for Res times the square root of two. *)
(* A point is its offset from the map's origin.                            *)
(***************************************************************************)
EXTENDS Integers, Sequences, SequencesExt

CONSTANTS
  Width, Height,  \* of the map, in cells
  Res,            \* resolution
  Diag,           \* Res * _SQRT2
  Statics         \* the static maps: OccupancyGrid.data by cell

Cells == (0..(Width - 1)) \X (0..(Height - 1))

ASSUME GridAssumption ==
  /\ Width \in Nat \ {0} /\ Height \in Nat \ {0}
  /\ Res \in Nat \ {0} /\ Diag \in Res..(2 * Res)
  /\ Statics \subseteq [Cells -> -1..100]

VARIABLES
  occupied,  \* _occupied
  distance   \* _clear, or None

gridVars == <<occupied, distance>>

None == <<>>

\* BIG, which no distance on the map exceeds.
Big == 2 * Res * (Width + Height)

GridTypeOK ==
  /\ occupied \subseteq Cells
  /\ distance \in {None} \cup [Cells -> 0..Big]

-----------------------------------------------------------------------------
\* int() cuts off towards zero.
Trunc(n) == IF n >= 0 THEN n \div Res ELSE -((-n) \div Res)

\* GridInfo.to_cell()
ToCell(p) == <<Trunc(p[1]), Trunc(p[2])>>

Apart(m, n) == IF m <= n THEN n - m ELSE m - n

Neighbours(c) ==
  {n \in Cells \ {c} : Apart(n[1], c[1]) <= 1 /\ Apart(n[2], c[2]) <= 1}

Hop(c, n) == IF c[1] = n[1] \/ c[2] = n[2] THEN Res ELSE Diag

\* The cells in the order of the two loops, and the neighbours a pass has done.
Raster == [i \in 1..(Width * Height) |-> <<(i - 1) % Width, (i - 1) \div Width>>]
Before(c, n) == n[2] < c[2] \/ (n[2] = c[2] /\ n[1] < c[1])
Earlier(c) == {n \in Neighbours(c) : Before(c, n)}
Later(c) == Neighbours(c) \ Earlier(c)

Relax(d, c, near) ==
  [d EXCEPT ![c] = IF @ = 0 THEN 0 ELSE Min({@} \cup {d[n] + Hop(c, n) : n \in near})]

\* One loop over the map: every cell is relaxed once, in this order.
Pass(d, order, near) ==
  LET after[i \in 0..Len(order)] ==
        IF i = 0 THEN d ELSE Relax(after[i - 1], order[i], near[order[i]])
  IN  after[Len(order)]

Forward(d)  == Pass(d, Raster, [c \in Cells |-> Earlier(c)])
Backward(d) == Pass(d, Reverse(Raster), [c \in Cells |-> Later(c)])

\* The distance transform of clearance_grid().
Chamfer(occ) == Backward(Forward([c \in Cells |-> IF c \in occ THEN 0 ELSE Big]))

\* What clearance_grid() returns, and keeps.
Distances == IF distance = None THEN Chamfer(occupied) ELSE distance

\* clearance_at()
ClearanceAt(p) == IF ToCell(p) \in Cells THEN Distances[ToCell(p)] ELSE 0

-----------------------------------------------------------------------------
\* Unknown cells block as well.
FromArrays(data) == {c \in Cells : data[c] >= 50 \/ data[c] < 0}

GridInit ==
  /\ \E data \in Statics : occupied = FromArrays(data)
  /\ distance = None

\* build_grid() of the mission, when one of its two messages is a new one.
Rebuild(data) ==
  /\ occupied' = FromArrays(data)
  /\ distance' = None

\* Mutant: the distances are kept.
AddCellsKeeping(cells) ==
  /\ occupied' = occupied \cup (cells \cap Cells)
  /\ UNCHANGED distance

\* add_obstacle_cells(): the distances are dropped if the set has grown.
AddCells(cells) ==
  /\ occupied' = occupied \cup (cells \cap Cells)
  /\ distance' = IF occupied' = occupied THEN distance ELSE None

\* The disc that add_obstacle_points() draws around a point.
Disc(p, span) ==
  {<<ToCell(p)[1] + o[1], ToCell(p)[2] + o[2]>> :
     o \in {v \in (-span..span) \X (-span..span) : v[1] * v[1] + v[2] * v[2] <= span * span}}

-----------------------------------------------------------------------------
\* Reference: the length of the shortest way of straight and diagonal steps.
Octile(c, o) ==
  LET dx == Apart(c[1], o[1])
      dy == Apart(c[2], o[2])
  IN  IF dx <= dy THEN Diag * dx + Res * (dy - dx) ELSE Diag * dy + Res * (dx - dy)

TrueDistance(c) == Min({Big} \cup {Octile(c, o) : o \in occupied})

\* A search or a sweep that asks for the distances is given those of the obstacles
\* that are on the map now, and two passes over the map are enough for them
\* (add_obstacle_cells 117-122, clearance_grid 142-193).
DistancesAreCurrent == \A c \in Cells : Distances[c] = TrueDistance(c)
=============================================================================

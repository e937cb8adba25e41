------------------------------ MODULE ParkPlan -------------------------------
(***************************************************************************)
(* Choosing a maneuver that stays clear of the obstacles on the map:       *)
(* plan_parking() and plan_align() of parking_mission/collision.py.        *)
(*                                                                         *)
(* What a solver returns is a choice: nothing, or segments of some length  *)
(* that end somewhere and sweep the points of one of Sweeps, all of which  *)
(* contain the car's outline at the start.  The length is the one rounded  *)
(* to a centimetre.  A plan's key is the tuple the code orders plans by.   *)
(***************************************************************************)
EXTENDS ClearanceGrid

CONSTANTS
  Outline,   \* the points of outline() where the car stands
  Sweeps,    \* the sets of points that a candidate can sweep
  Lengths,   \* total_length()
  Radii,     \* CANDIDATE_RADII
  Slots,     \* the slots to park in, with kind and radius
  Want,      \* WANT_CLEARANCE
  Hard,      \* HARD_CLEARANCE
  Points,    \* where obstacles are seen
  Spans      \* their radius, in cells

ASSUME PlanAssumption ==
  /\ Outline # {} /\ \A s \in Sweeps : Outline \subseteq s /\ s \subseteq Int \X Int
  /\ Lengths \subseteq Nat /\ Spans \subseteq Nat
  /\ Radii \in Seq(Nat)
  /\ \A s \in Slots : s.kind \in {"perpendicular", "straight_first", "parallel"} /\ s.radius \in Nat
  /\ Hard \in Nat /\ Want \in Nat /\ 0 < Hard /\ Hard < Want

\* The centimetre that need_at() takes off is less than two distances on the map
\* differ by, up to the two cells that WANT_CLEARANCE is.
ASSUME MarginAssumption ==
  /\ 1 < Res /\ Res + 1 < Diag /\ Diag + 1 < 2 * Res
  /\ Want <= 2 * Res

VARIABLES
  phase,   \* "idle", "searching" or "done"
  task,    \* "park", "align" or, without a map, "blind"
  slot,
  need,    \* need_at() the start
  next,    \* the candidate whose turn it is, from 1
  best,    \* best, or NoPlan
  passed   \* history: the candidates that were good enough

planVars == <<phase, task, slot, need, next, best, passed>>
vars == <<occupied, distance, phase, task, slot, need, next, best, passed>>

NoPlan == [key |-> <<>>]
Tasks == {"park", "align", "blind"}
Ends == {"there", "turned", "elsewhere"}   \* turned: at the target with another heading
Solvers == {"perpendicular", "straight first", "basic order", "forward", "backward"}
Outcomes == [length : Lengths, end : Ends, swept : Sweeps]

TypeOK ==
  /\ GridTypeOK
  /\ phase \in {"idle", "searching", "done"}
  /\ task \in Tasks /\ slot \in Slots
  /\ need \in Hard..Want
  /\ next \in Nat
  /\ best \in {NoPlan} \cup [key : Seq(Int), radius : Nat, solver : Solvers,
                            end : Ends, swept : Sweeps]
  /\ best # NoPlan => [key |-> best.key, radius |-> best.radius] \in passed

-----------------------------------------------------------------------------
\* _solver_order()
SolverOrder(s) ==
  CASE s.kind = "perpendicular"  -> <<"perpendicular">>
    [] s.kind = "straight_first" -> <<"straight first", "basic order">>
    [] s.kind = "parallel"       -> <<"basic order", "straight first">>

\* Mutant: the radii are tried and ranked as they are listed.
RankedAsListed(s) == [i \in DOMAIN Radii |-> i]

\* Sorted before: by distance from the slot's own, and else as listed.
Closer(s, i, j) ==
  LET Off(k) == Apart(Radii[k], s.radius)
  IN  Off(i) < Off(j) \/ (Off(i) = Off(j) /\ i < j)

\* The candidate radii, sorted.
Ranked(s) ==
  CHOOSE order \in [DOMAIN Radii -> DOMAIN Radii] :
    \A i, j \in DOMAIN Radii : i < j => Closer(s, order[i], order[j])

\* The candidates of the nested loops, in their order.
Candidates(t, s) ==
  CASE t = "park"  -> [i \in 1..(Len(SolverOrder(s)) * Len(Radii)) |->
                         LET rank == (i - 1) \div Len(Radii)
                             near == (i - 1) % Len(Radii)
                         IN  [solver |-> SolverOrder(s)[rank + 1],
                              radius |-> Radii[Ranked(s)[near + 1]],
                              ranks |-> <<rank, near>>]]
    [] t = "align" -> [i \in 1..(2 * Len(Radii)) |->
                         [solver |-> IF i % 2 = 1 THEN "forward" ELSE "backward",
                          radius |-> Radii[((i - 1) \div 2) + 1],
                          ranks |-> <<>>]]
    [] t = "blind" -> [i \in DOMAIN SolverOrder(s) |->
                         [solver |-> SolverOrder(s)[i], radius |-> s.radius, ranks |-> <<>>]]

\* clearance_pose() and sweep()
Clearance(points) == Min({ClearanceAt(p) : p \in points})

\* Mutant: only the hard limit is asked for.
NeedAtHard == Hard

\* need_at()
NeedAt == Max({Hard, Min({Want, Clearance(Outline) - 1})})

Precedes(k, l) == \E i \in DOMAIN k : k[i] < l[i] /\ \A j \in 1..(i - 1) : k[j] = l[j]

\* Does the plan go where it should?  plan_align() does not look at the heading.
Reaches(t, end) == end = "there" \/ (t = "align" /\ end = "turned")

Candidate == Candidates(task, slot)[next]

\* ManeuverPlan
Plan(key, o) ==
  [key |-> key, radius |-> Candidate.radius, solver |-> Candidate.solver,
   end |-> o.end, swept |-> o.swept]

\* Whether the loops have ended: plan_parking() leaves after the first solver that
\* has a plan, and without a map after the first one that has segments.
Exhausted ==
  next <= Len(Candidates(task, slot)) =>
    best # NoPlan /\ (task = "blind" \/ (task = "park" /\ Candidate.ranks[1] # best.key[1]))

-----------------------------------------------------------------------------
Init ==
  /\ GridInit
  /\ phase = "idle" /\ task = "park" /\ slot \in Slots
  /\ need = Hard /\ next = 1 /\ best = NoPlan /\ passed = {}

(* the map changes between two calls *)
ObstaclesSeen(p, span) ==
  /\ phase # "searching"
  /\ AddCells(Disc(p, span))
  /\ phase' = "idle" /\ best' = NoPlan /\ passed' = {}
  /\ UNCHANGED <<task, slot, need, next>>

MapComes(data) ==
  /\ phase # "searching"
  /\ Rebuild(data)
  /\ phase' = "idle" /\ best' = NoPlan /\ passed' = {}
  /\ UNCHANGED <<task, slot, need, next>>

(* plan_parking() and plan_align() *)
Ask(t) ==
  /\ phase # "searching"
  /\ phase' = "searching" /\ task' = t
  /\ IF t = "blind" THEN UNCHANGED <<distance, need>>
     ELSE distance' = Distances /\ need' = NeedAt
  /\ next' = 1 /\ best' = NoPlan /\ passed' = {}
  /\ UNCHANGED <<occupied, slot>>

\* The solver finds no segments.
NoSolution ==
  /\ phase = "searching" /\ ~Exhausted
  /\ next' = next + 1
  /\ UNCHANGED <<gridVars, phase, task, slot, need, best, passed>>

\* The segments are integrated and swept, and compared with the best so far.
Weigh(o) ==
  /\ phase = "searching" /\ task # "blind" /\ ~Exhausted
  /\ LET clear == Clearance(o.swept)
         plan == Plan(Candidate.ranks \o <<o.length, -clear>>, o)
     IN  IF Reaches(task, o.end) /\ clear >= need
         THEN /\ passed' = passed \cup {[key |-> plan.key, radius |-> plan.radius]}
              /\ best' = IF best = NoPlan THEN plan
                         ELSE IF Precedes(plan.key, best.key) THEN plan ELSE best
         ELSE UNCHANGED <<best, passed>>
  /\ next' = next + 1
  /\ UNCHANGED <<gridVars, phase, task, slot, need>>

\* Without a map the first segments are taken as they are.
TakeUnchecked(o) ==
  /\ phase = "searching" /\ task = "blind" /\ ~Exhausted
  /\ best' = Plan(<<>>, o)
  /\ passed' = {[key |-> <<>>, radius |-> slot.radius]}
  /\ next' = next + 1
  /\ UNCHANGED <<gridVars, phase, task, slot, need>>

Return ==
  /\ phase = "searching" /\ Exhausted
  /\ phase' = "done"
  /\ UNCHANGED <<gridVars, task, slot, need, next, best, passed>>

Change ==
  \/ \E p \in Points, span \in Spans : ObstaclesSeen(p, span)
  \/ \E data \in Statics : MapComes(data)

Next ==
  \/ Change
  \/ \E t \in Tasks : Ask(t)
  \/ NoSolution
  \/ \E o \in Outcomes : Weigh(o) \/ TakeUnchecked(o)
  \/ Return

Spec == Init /\ [][Next]_vars

-----------------------------------------------------------------------------
Checked == phase = "done" /\ task # "blind" /\ best # NoPlan

\* Where a point really is, the cells counted from minus infinity.
Floor(p) == <<p[1] \div Res, p[2] \div Res>>
TrueClearance(points) ==
  Min({IF Floor(p) \in Cells THEN TrueDistance(Floor(p)) ELSE 0 : p \in points})

\* The margin by which int() can move a point: less than a cell over the two lower
\* edges of the map (passability.py 53-55).
JustOff(p) ==
  /\ Floor(p) \notin Cells
  /\ -Res < p[1] /\ p[1] < Res * Width /\ -Res < p[2] /\ p[2] < Res * Height

\* A checked plan touches none of the obstacles that are on the map when it is made
\* and keeps the hard limit from all of them, whatever was on the map when the
\* distances were computed last; it may leave the map, but by less than a cell.  And
\* it is never tighter than the car's place already is, unless that is ample: the
\* centimetre that need_at() takes off is less than two distances on the grid can
\* differ by (collision.py 40, "a case of choosing a way through a wall = 0", and
\* 159-167, "it only must not get worse").
PlanStaysClear ==
  Checked =>
    /\ \A p \in best.swept : JustOff(p) \/ TrueClearance({p}) >= Hard
    /\ (\A p \in best.swept : Floor(p) \in Cells) =>
         TrueClearance(best.swept) >= Min({Want, TrueClearance(Outline)})

\* The other order of the segments, and another radius, are used only where nothing
\* else stays clear: no better solver and, for the same solver, no radius closer to
\* the slot's own had a plan that reaches the slot.  An alignment is the shortest
\* there is.  No plan is returned only if none was good enough (collision.py
\* 236-265 and 285-303).
BestIsChosen ==
  phase = "done" =>
    /\ best = NoPlan <=> passed = {}
    /\ task = "park" => \A p \in passed :
         /\ best.end = "there"
         /\ best.key[1] = p.key[1]
         /\ Apart(best.radius, slot.radius) <= Apart(p.radius, slot.radius)
    /\ task = "align" => \A p \in passed : best.key[1] <= p.key[1]
=============================================================================

------------------------------- MODULE Retrace -------------------------------
(***************************************************************************)
(* Going back the way the car has come: the segments of a maneuver and     *)
(* what they do to the car's pose, the exit that replays a parking         *)
(* backwards, and the retreat that is made of the trail of a leg           *)
(* (parking_mission/geometry.py).  A leg is driven by Nav2 through         *)
(* cmd_vel_bridge.                                                         *)
(*                                                                         *)
(* Poses are the points of a lattice and four headings, and a turn is made *)
(* of quarter turns, so that the equations of the arcs hold exactly.  The  *)
(* angle of a segment counts quarter turns and its length is the radius    *)
(* times the angle: a quarter circle of radius r counts r units of length. *)
(* An arc's curvature is a pair of whole numbers: its length and its       *)
(* angle with the sign of the turn.                                        *)
(***************************************************************************)
EXTENDS Integers, Sequences, SequencesExt

CONSTANTS
  Bends,          \* radii of the arcs that are driven
  MaxMoves,       \* bound: moves before the car goes back
  MaxLengths,     \* retreat_distance of the routes, 0 for the whole trail
  Unit,           \* lattice units in a metre
  SlotPoses,      \* poses of the slots
  Parkings,       \* maneuvers plan_parking() may find
  Corrections,    \* segments solve_correction() may find, as far as they are driven
  MinProgress     \* park_min_progress, in percent

Headings == 0..3
Poses == [x : Int, y : Int, h : Headings]
Turns == {-1, 0, 1}
Directions == {-1, 1}
Prims == [length : Nat, turn : Turns, direction : Directions, angle : Nat]

Straight(d, n) == [length |-> n, turn |-> 0, direction |-> d, angle |-> 0]
Arc(d, s, r, a) == [length |-> r * a, turn |-> s, direction |-> d, angle |-> a]

\* The segments of a parking: straights of two units and arcs of two quarter turns.
ParkMoves ==
  {Straight(d, 2) : d \in Directions}
  \cup {Arc(d, s, r, 2) : d \in Directions, s \in {-1, 1}, r \in Bends}

ASSUME RetraceAssumption ==
  /\ Bends \subseteq Nat \ {0} /\ MaxMoves \in Nat /\ MaxLengths \subseteq Nat
  /\ Unit \in Nat \ {0} /\ SlotPoses \subseteq Poses
  /\ Parkings \subseteq Seq(ParkMoves) \ {<<>>} /\ Corrections \subseteq Prims
  /\ MinProgress \in 0..100

VARIABLES
  stage,            \* "leg", "parking", "parked", "failed", "retreat" or "exit"
  pose,             \* of base_link on the map
  trail,            \* _trail; history when parking: the poses between the segments
  driven,           \* history: the segments that were driven
  last_park_prims,  \* the plan of the parking; <<>> on a leg
  limit,            \* max_length of the retreat
  prims             \* the segments that lead back

retraceVars == <<stage, pose, trail, driven, last_park_prims, limit, prims>>

RetraceTypeOK ==
  /\ stage \in {"leg", "parking", "parked", "failed", "retreat", "exit"}
  /\ pose \in Poses
  /\ trail \in Seq(Poses) /\ trail # <<>>
  /\ driven \in Seq(Prims)
  /\ last_park_prims \in Parkings \cup {<<>>}
  /\ limit \in MaxLengths \cup {0}
  /\ prims \in Seq(Prims)

-----------------------------------------------------------------------------
(* segments and poses *)
Cos(h) == CASE h = 0 -> 1 [] h = 2 -> -1 [] OTHER -> 0
Sin(h) == CASE h = 1 -> 1 [] h = 3 -> -1 [] OTHER -> 0

Origin == [x |-> 0, y |-> 0, h |-> 0]

\* d_yaw
DYaw(p) == p.direction * p.turn * p.angle

\* The radius a segment brings along, if it is a whole number.
Whole(p) == p.angle # 0 => p.length % p.angle = 0

\* _straight_end()
StraightEnd(q, p) ==
  [q EXCEPT !.x = @ + p.direction * p.length * Cos(q.h),
            !.y = @ + p.direction * p.length * Sin(q.h)]

\* _arc_end()
ArcEnd(q, p) ==
  LET r == p.length \div p.angle
      h == (q.h + DYaw(p)) % 4
  IN  [x |-> q.x - p.turn * r * Sin(q.h) + p.turn * r * Sin(h),
       y |-> q.y + p.turn * r * Cos(q.h) - p.turn * r * Cos(h),
       h |-> h]

End(q, p) == IF p.angle = 0 THEN StraightEnd(q, p) ELSE ArcEnd(q, p)

\* A loop over a sequence.
Loop(op(_, _), start, s) ==
  LET after[i \in 0..Len(s)] == IF i = 0 THEN start ELSE op(after[i - 1], s[i])
  IN  after[Len(s)]

\* integrate()
Integrate(q, ps) == Loop(End, q, ps)

Plus(a, b) == a + b
SumOf(ns) == Loop(Plus, 0, ns)

\* total_length()
TotalLength(ps) == SumOf([i \in DOMAIN ps |-> ps[i].length])

\* How far segments turn the car, in quarter turns.
Turned(ps) == SumOf([i \in DOMAIN ps |-> DYaw(ps[i])])

\* Mutant: the heading is taken over as it is.
ToSlotUnturned(q, s) ==
  [x |-> Cos(s.h) * (q.x - s.x) + Sin(s.h) * (q.y - s.y),
   y |-> Cos(s.h) * (q.y - s.y) - Sin(s.h) * (q.x - s.x),
   h |-> q.h]

\* to_slot_frame(), from_slot_frame()
ToSlot(q, s) ==
  [x |-> Cos(s.h) * (q.x - s.x) + Sin(s.h) * (q.y - s.y),
   y |-> Cos(s.h) * (q.y - s.y) - Sin(s.h) * (q.x - s.x),
   h |-> (q.h - s.h) % 4]

FromSlot(q, s) ==
  [x |-> s.x + Cos(s.h) * q.x - Sin(s.h) * q.y,
   y |-> s.y + Sin(s.h) * q.x + Cos(s.h) * q.y,
   h |-> (q.h + s.h) % 4]

-----------------------------------------------------------------------------
(* the way out of a slot *)
\* Mutant: the segments keep their order.
ReverseInOrder(ps) == [i \in DOMAIN ps |-> [ps[i] EXCEPT !.direction = -@]]

\* reverse_prims()
ReversePrims(ps) == [i \in DOMAIN ps |-> [ps[Len(ps) + 1 - i] EXCEPT !.direction = -@]]

\* partial_exit() with a fraction of one in n
PartialExit(ps, n) ==
  LET out == ReversePrims(ps)
  IN  IF ps = <<>> THEN out
      ELSE [out EXCEPT ![Len(ps)].length = @ \div n, ![Len(ps)].angle = @ \div n]

(* the way back along a trail *)
Absolute(n) == IF n < 0 THEN -n ELSE n

\* The arc through two poses of the trail, whose chord d and turn give its radius.
Piece(a, b) ==
  LET turned == ((b.h - a.h + 1) % 4) - 1
      reach  == IF Absolute(b.x - a.x) >= Absolute(b.y - a.y) THEN Absolute(b.x - a.x)
                                                              ELSE Absolute(b.y - a.y)
  IN  [length |-> reach, angle |-> turned]

\* Compared by their curvatures in metres, straight_kappa 0.25, curvature_tol 0.25.
NearStraight(g) == 4 * Unit * Absolute(g.angle) < g.length

SameSign(g, p) == g.angle * p.angle > 0 \/ g.angle = 0 \/ p.angle = 0

Close(g, p) ==
  LET apart == Absolute(p.angle * g.length - g.angle * p.length)
      \* max(|cur_k|, 0.5) times the two lengths, doubled for the half
      most  == IF 2 * Unit * Absolute(g.angle) >= g.length THEN 2 * Unit * Absolute(g.angle)
                                                           ELSE g.length
  IN  8 * Unit * apart <= most * p.length

\* A piece joins the last group if both pass for straight or are about as curved.
Joins(g, p) == (NearStraight(g) /\ NearStraight(p)) \/ (SameSign(g, p) /\ Close(g, p))

Grouped(gs, p) ==
  IF gs # <<>> /\ Joins(Last(gs), p)
  THEN Append(Front(gs), [length |-> Last(gs).length + p.length,
                          angle  |-> Last(gs).angle + p.angle])
  ELSE Append(gs, p)

Groups(t) ==
  Loop(Grouped, <<>>, [i \in 1..(Len(t) - 1) |-> Piece(t[i], t[i + 1])])

\* A group of a radius of more than 20 metres is driven as a straight.
Flat(g) == g.length > 20 * Unit * Absolute(g.angle)

\* A group as a segment backwards, at most n units of it.
Backwards(g, n) ==
  IF Flat(g)
  THEN Straight(-1, n)
  ELSE [length |-> n, turn |-> IF g.angle > 0 THEN 1 ELSE -1, direction |-> -1,
        angle |-> (Absolute(g.angle) * n) \div g.length]

\* Mutant: the limit is not what is left of it.
CutAnew(max, used, n) == IF max > 0 /\ max < n THEN max ELSE n

Cut(max, used, n) == IF max > 0 /\ max - used < n THEN max - used ELSE n

\* Mutant: the oldest part of the trail comes first.
TrailToPrimsInOrder(t, max) ==
  LET Extended(out, g) ==
        IF max > 0 /\ TotalLength(out) >= max THEN out
        ELSE Append(out, Backwards(g, Cut(max, TotalLength(out), g.length)))
  IN  Loop(Extended, <<>>, Groups(t))

\* trail_to_prims()
TrailToPrims(t, max) ==
  LET Extended(out, g) ==
        IF max > 0 /\ TotalLength(out) >= max THEN out
        ELSE Append(out, Backwards(g, Cut(max, TotalLength(out), g.length)))
  IN  Loop(Extended, <<>>, Reverse(Groups(t)))

-----------------------------------------------------------------------------
RetraceInit ==
  /\ \/ stage = "leg" /\ last_park_prims = <<>>
     \/ stage = "parking" /\ last_park_prims \in Parkings
  /\ pose = Origin /\ trail = <<Origin>>
  /\ driven = <<>> /\ limit = 0 /\ prims = <<>>

Move(p) ==
  /\ pose' = End(pose, p)
  /\ trail' = Append(trail, pose')
  /\ driven' = Append(driven, p)
  /\ UNCHANGED <<last_park_prims, limit, prims>>

\* _on_cmd_vel(): the wheels are turned to the side angular.z asks for, which the
\* direction of travel does not change.
Steer(v, w) == w

\* Nav2 drives a leg, forwards or backwards (allow_reversing); every move is long
\* enough for _record_trail().
NavDrives(v, w, r) ==
  /\ stage = "leg" /\ Len(driven) < MaxMoves
  /\ Move(IF w = 0 THEN Straight(v, 1) ELSE Arc(v, Steer(v, w), r, 1))
  /\ UNCHANGED stage

(* a parking, driven by the executor *)
Segment == last_park_prims[Len(driven) + 1]

\* A segment is driven to its end; the parking is over with the last one.
Parks ==
  /\ stage = "parking"
  /\ Move(Segment)
  /\ stage' = IF Len(driven') = Len(last_park_prims) THEN "parked" ELSE "parking"

Steps(p) == IF p.angle = 0 THEN p.length ELSE p.angle

\* The first k steps of a segment.
Part(p, k) ==
  IF p.angle = 0 THEN [p EXCEPT !.length = k]
                 ELSE [p EXCEPT !.length = k * (p.length \div p.angle), !.angle = k]

\* progress() is at least park_min_progress.
FarEnough == 100 * TotalLength(driven') >= MinProgress * TotalLength(last_park_prims)

\* The executor gives up in a segment, as far as it has come; the car is parked where
\* it stands if that is far enough.
BreaksOff(k) ==
  /\ stage = "parking" /\ k \in 0..Steps(Segment)
  /\ Move(Part(Segment, k))
  /\ stage' = IF FarEnough THEN "parked" ELSE "failed"

\* A correction of the parking, which last_park_prims does not learn of.
Corrects(p) ==
  /\ stage = "parked" /\ Len(driven) < MaxMoves
  /\ Move(p)
  /\ UNCHANGED stage

\* _switch_route()
Retreat(max) ==
  /\ stage = "leg" /\ Len(trail) >= 2
  /\ limit' = max
  /\ prims' = TrailToPrims(trail, max)
  /\ stage' = "retreat"
  /\ UNCHANGED <<pose, trail, driven, last_park_prims>>

\* ExitStep.enter(): the whole plan, from where the car stands.
Exit(n) ==
  /\ stage = "parked"
  /\ prims' = PartialExit(last_park_prims, n)
  /\ stage' = "exit"
  /\ UNCHANGED <<pose, trail, driven, last_park_prims, limit>>

RetraceNext ==
  \/ \E v \in Directions, w \in Turns, r \in Bends : NavDrives(v, w, r)
  \/ Parks
  \/ \E k \in 0..2 : BreaksOff(k)
  \/ \E p \in Corrections : Corrects(p)
  \/ \E max \in MaxLengths : Retreat(max)
  \/ \E n \in {1, 2} : Exit(n)

RetraceSpec == RetraceInit /\ [][RetraceNext]_retraceVars

-----------------------------------------------------------------------------
\* The retreat ends where the car was as long ago as the retreat is long.
EndsOnTrail ==
  \A k \in 0..Len(driven) :
    TotalLength(prims) = TotalLength(SubSeq(driven, k + 1, Len(driven))) =>
      (\A i \in DOMAIN prims : Whole(prims[i])) /\ Integrate(pose, prims) = trail[k + 1]

\* Grouping has nothing to average on this leg: a piece that joins the one before it
\* is just like it, and none that turns the car is driven as a straight.
NothingAveraged ==
  \A i \in DOMAIN driven :
    LET p == Piece(trail[i], trail[i + 1])
    IN  /\ Flat(p) => p.angle = 0
        /\ i > 1 /\ Joins(Piece(trail[i - 1], trail[i]), p) => p = Piece(trail[i - 1], trail[i])

\* A retreat follows the trail of a leg back to where the car was, whatever bends
\* the leg had and wherever the limit cuts it, provided that the leg was driven
\* forwards and grouping averaged nothing (geometry.py 283-310, 316-345).
RetreatFollowsTrail ==
  stage = "retreat" /\ NothingAveraged /\ (\A i \in DOMAIN driven : driven[i].direction = 1)
  => EndsOnTrail

\* geometry.py:270-274 without the proviso: to retrace the way the car really came
\* is the only thing that is always safe, for the car has come that way.
RetreatIsSafe == stage = "retreat" => EndsOnTrail

\* A retreat goes backwards only and is as long as the trail, or as the limit if
\* that is shorter.  One of full length turns the car back to the heading it started
\* the leg with, also where grouping has averaged bends, and where Nav2 reversed; only
\* what groups that pass for straight have turned is lost, and this is less than the
\* length of the leg over 20 metres (geometry.py 319-346, mission_config.py 252-266).
RetreatUndoesLeg ==
  stage = "retreat" =>
    /\ TotalLength(prims) =
         IF limit > 0 /\ limit < TotalLength(driven) THEN limit ELSE TotalLength(driven)
    /\ \A i \in DOMAIN prims : prims[i].direction = -1 /\ prims[i].length > 0
    /\ limit = 0 =>
         \E lost \in -TotalLength(driven)..TotalLength(driven) :
           /\ 20 * Unit * Absolute(lost) < TotalLength(driven)
           /\ (pose.h + Turned(prims) - lost) % 4 = trail[1].h

\* Where the plan of the parking leads.
PlannedEnd == Integrate(trail[1], last_park_prims)

\* The point on the first segment of the plan up to which the exit is to go back, which
\* partial_exit() leaves short of the segment's start.
ExitPoint ==
  End(trail[1], [last_park_prims[1] EXCEPT !.length = @ - Last(prims).length,
                                           !.angle  = @ - Last(prims).angle])

\* The exit replays the plan of the parking backwards, from wherever the parking ended
\* (mission_manager.py 567-574, 617-620, 643-648).  Seen from the car it leads where,
\* seen from the end of the plan, the first segment lies: it is off by just what the car
\* was off when it parked, and ends on the first segment if the car stood at the end of
\* the plan and in no other case (geometry.py 226-261).
ExitOffAsParked ==
  stage = "exit" =>
    /\ ToSlot(Integrate(pose, prims), pose) = ToSlot(ExitPoint, PlannedEnd)
    /\ Integrate(pose, prims) = ExitPoint <=> pose = PlannedEnd

\* What is planned from the pose in the slot's frame is driven from the pose on the
\* map, and comes to the same place (collision.py 223, motion.py, geometry.py 67-89).
PlansCarryOver ==
  \A s \in SlotPoses :
    /\ Integrate(ToSlot(trail[1], s), driven) = ToSlot(pose, s)
    /\ FromSlot(ToSlot(pose, s), s) = pose
=============================================================================

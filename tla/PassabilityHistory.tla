------------------------- MODULE PassabilityHistory --------------------------
(***************************************************************************)
(* Passability with a record of the searches that were answered, and what  *)
(* the verdict promises to the leg step.                                   *)
(***************************************************************************)
EXTENDS Passability, FiniteSets

VARIABLE joined   \* [leg, from, to] of every search that has arrived

vars == <<clear, route, phase, leg, cur, start, goal, best, heap, settled, tightest, joined>>

HInit == Init /\ joined = {}

HArrive ==
  /\ \E e \in heap : Arrive(e)
  /\ joined' = joined \cup {[leg |-> leg, from |-> start, to |-> goal]}

HNext ==
  \/ HArrive
  \/ NoLegs /\ UNCHANGED joined
  \/ Trapped /\ UNCHANGED joined
  \/ Start /\ UNCHANGED joined
  \/ LegShut /\ UNCHANGED joined
  \/ BeginSearch /\ UNCHANGED joined
  \/ Search /\ UNCHANGED joined
  \/ LegDone /\ UNCHANGED joined
  \/ RouteDone /\ UNCHANGED joined

HSpec == HInit /\ [][HNext]_vars
HFairSpec == HSpec /\ WF_vars(HNext)

-----------------------------------------------------------------------------
(* Reference: which cells a way of a given width joins, without a search. *)

\* No step of a leg's corridor that is at least w wide leads out of S.
Closed(S, l, w) ==
  \A c \in S, n \in OkCells(l) : Ring(c, n) = 1 /\ clear[n] >= w => n \in S

\* A way through leg l from c to d on which the clearance is nowhere less than w.
Way(l, c, d, w) ==
  /\ clear[c] >= w
  /\ \A S \in SUBSET Cells : c \in S /\ Closed(S, l, w) => d \in S

\* "Cut" is said of a leg only if no way wide enough for the car is left in it;
\* "passable", only if every leg has one, and the width that is reported is that of
\* the tightest leg on its widest way (_widest, route_passable).
VerdictIsRight ==
  /\ phase = "cut" => ~Way(leg, start, goal, Need)
  /\ phase = "passable" =>
       /\ \A l \in 1..(Len(route) - 1) : \E j \in joined : j.leg = l
       /\ \A j \in joined : Way(j.leg, j.from, j.to, tightest)
       /\ \E j \in joined : ~Way(j.leg, j.from, j.to, tightest + 1)

\* Every question is answered, whatever the map (the loop of _widest and the loop
\* over the legs end).
VerdictComes == <>(phase \in Verdicts)

\* What is ahead of a question, the weightier first: legs, where it stands with the leg
\* in hand, cells its search has not settled.
StageAhead == CASE phase = "start"  -> 4
                [] phase = "leg"    -> 3
                [] phase = "search" -> 2
                [] phase = "found"  -> 1
                [] OTHER -> 0

Ahead == <<Len(route) - leg, StageAhead, Cardinality(Cells \ settled)>>

\* m comes before n in the order of the first number they differ in.
Below(m, n) == \E i \in 1..3 : m[i] < n[i] /\ \A j \in 1..(i - 1) : m[j] = n[j]

\* Every step brings a question nearer to its answer, in an order in which nothing can
\* get nearer for ever: no cell is expanded twice, although none is marked before it is
\* popped and it may be pushed again and again (_widest, the loop over the legs).
LoopsRunOut == [][Ahead' \in [1..3 -> Nat] /\ Below(Ahead', Ahead)]_vars
=============================================================================

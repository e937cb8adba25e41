-------------------------- MODULE PassabilityProofs --------------------------
(***************************************************************************)
(* The search of Passability is right on every map, for every route, band  *)
(* and size of car: what it calls cut has no way through, and what it      *)
(* calls passable has one exactly as wide as it says.                      *)
(***************************************************************************)
EXTENDS PassabilityHistory, FiniteSetTheorems, TLAPS

Reached(c) == best[c] >= 0

\* _widest() in the middle of its loop.
SearchInv ==
  phase = "search" =>
    /\ start \in OkCells(leg) /\ best[start] = clear[start] /\ goal \notin settled
    /\ \A c \in Cells : Reached(c) => Way(leg, start, c, best[c])
    /\ \A e \in heap : e.b = best[e.cell] /\ e.cell \notin settled
    /\ \A c \in Cells \ settled : Reached(c) => \E e \in heap : e.cell = c
    /\ \A c \in settled :
         /\ Reached(c)
         /\ \A n \in OkCells(leg) : Ring(c, n) = 1 => best[n] >= Least(best[c], clear[n])
    /\ \A e \in heap, c \in Cells : Reached(c) => best[c] >= Least(e.b, clear[c])
    /\ \A e \in heap, c \in settled : e.b <= best[c]

\* The legs so far and the tightest of them.
RouteInv ==
  /\ phase \notin {"start", "no legs"} => leg < Len(route)
  /\ phase = "start" => leg = 1
  /\ \A l \in 1..(leg - 1) : \E j \in joined : j.leg = l
  /\ phase \in {"found", "passable"} => \E j \in joined : j.leg = leg
  /\ phase = "passable" => leg + 1 = Len(route)
  /\ joined \subseteq [leg : 1..(Len(route) - 1), from : Cells, to : Cells]
  /\ \A j \in joined : Way(j.leg, j.from, j.to, tightest)
  /\ joined # {} => \E j \in joined : ~Way(j.leg, j.from, j.to, tightest + 1)
  /\ joined = {} => tightest = MaxClear + 1

CutInv == phase = "cut" => ~Way(leg, start, goal, Need)

IInv == TypeOK /\ SearchInv /\ RouteInv /\ CutInv

-----------------------------------------------------------------------------
\* The cells of a leg's corridor are cells of the map.
LEMMA CorridorCells ==
  ASSUME TypeOK, NEW l \in 1..(Len(route) - 1)
  PROVE  OkCells(l) \subseteq Cells
<1>1. route \in Seq(Cells)
  BY PassabilityAssumption DEF PassabilityAssumption, TypeOK
<1>2. route[l] \in Cells /\ route[l + 1] \in Cells
  BY <1>1
<1>3. Band[<<route[l], route[l + 1]>>] \in SUBSET Cells
  BY <1>2, PassabilityAssumption DEF PassabilityAssumption
<1> QED BY <1>3 DEF OkCells

\* A wide way is a narrow one.
LEMMA WayNarrows ==
  ASSUME TypeOK, NEW l \in 1..(Len(route) - 1), NEW c \in Cells, NEW d \in Cells,
         NEW w \in Int, NEW v \in Int, v <= w, Way(l, c, d, w)
  PROVE  Way(l, c, d, v)
<1>1. \A n \in Cells : clear[n] \in Int
  BY PassabilityAssumption DEF PassabilityAssumption, TypeOK
<1>2. clear[c] >= v
  BY <1>1 DEF Way
<1>3. ASSUME NEW S \in SUBSET Cells, Closed(S, l, v)
      PROVE  Closed(S, l, w)
  BY <1>1, <1>3, CorridorCells DEF Closed
<1> QED BY <1>2, <1>3 DEF Way

\* Ways are properties of the map and the route alone.
LEMMA WayStays ==
  ASSUME UNCHANGED <<clear, route>>, NEW l, NEW c, NEW d, NEW w
  PROVE  Way(l, c, d, w)' <=> Way(l, c, d, w)
BY DEF Way, Closed, OkCells

\* What a search that has stopped knows: a set of settled cells that is closed at a
\* width, has the start in it and not the goal, is proof that there is no way.
LEMMA NoWay ==
  ASSUME NEW l, NEW c, NEW d, NEW w, NEW S \in SUBSET Cells,
         c \in S, d \notin S, Closed(S, l, w)
  PROVE  ~Way(l, c, d, w)
BY DEF Way

\* The entry popped is a way as wide as it says, and the search has seen that no
\* way is wider.
LEMMA PoppedIsWidest ==
  ASSUME TypeOK, SearchInv, RouteInv, phase = "search", NEW e \in Top, e.cell = goal
  PROVE  /\ e.b \in Need..MaxClear
         /\ Way(leg, start, goal, e.b)
         /\ ~Way(leg, start, goal, e.b + 1)
<1> USE PassabilityAssumption DEF PassabilityAssumption
<1>1. e \in heap /\ e.b \in Need..MaxClear /\ e.b = best[goal] /\ e.b >= 0
  BY DEF Top, TypeOK, Entry, SearchInv
<1>2. Way(leg, start, goal, e.b)
  BY <1>1 DEF SearchInv, TypeOK, Reached
<1>3. leg \in 1..(Len(route) - 1)
  BY DEF RouteInv, TypeOK
<1> DEFINE S == {c \in settled : best[c] >= e.b + 1}
<1>4. \A c \in Cells : best[c] \in Int /\ clear[c] \in Int
  BY DEF TypeOK
<1>5. \A c \in Cells : best[c] >= e.b + 1 => c \in settled
  <2> SUFFICES ASSUME NEW c \in Cells, best[c] >= e.b + 1, c \notin settled PROVE FALSE
    OBVIOUS
  <2>1. PICK f \in heap : f.cell = c
    BY <1>1, <1>4 DEF SearchInv, Reached
  <2>2. f.b = best[c] /\ f.b <= e.b
    BY <2>1 DEF SearchInv, Top
  <2> QED BY <2>2, <1>1, <1>4
<1>6. CASE clear[start] >= e.b + 1
  <2>1. start \in S
    BY <1>4, <1>5, <1>6 DEF SearchInv, TypeOK
  <2>2. goal \notin S
    BY DEF SearchInv
  <2>3. Closed(S, leg, e.b + 1)
    <3> SUFFICES ASSUME NEW c \in S, NEW n \in OkCells(leg), Ring(c, n) = 1, clear[n] >= e.b + 1
                 PROVE  n \in S
      BY DEF Closed
    <3>1. n \in Cells /\ c \in Cells
      BY <1>3, CorridorCells DEF TypeOK
    <3>2. best[n] >= Least(best[c], clear[n])
      BY DEF SearchInv
    <3>3. best[n] >= e.b + 1
      <4>1. best[c] >= e.b + 1
        BY DEF S
      <4> HIDE DEF S
      <4>2. e.b \in Int /\ best[c] \in Int /\ best[n] \in Int /\ clear[n] \in Int
        BY <1>1, <1>4, <3>1
      <4> QED BY <3>2, <4>1, <4>2 DEF Least
    <3> QED BY <3>1, <3>3, <1>5
  <2> QED BY <1>1, <1>2, <2>1, <2>2, <2>3, NoWay DEF TypeOK
<1>7. CASE ~(clear[start] >= e.b + 1)
  BY <1>1, <1>2, <1>7 DEF Way
<1> QED BY <1>1, <1>2, <1>6, <1>7

\* A search that has run dry has settled all there is.
LEMMA DryIsCut ==
  ASSUME TypeOK, SearchInv, RouteInv, phase = "search", heap = {}
  PROVE  ~Way(leg, start, goal, Need)
<1> USE PassabilityAssumption DEF PassabilityAssumption
<1>1. leg \in 1..(Len(route) - 1)
  BY DEF RouteInv, TypeOK
<1>2. \A c \in Cells : best[c] \in Int /\ clear[c] \in 0..MaxClear
  BY DEF TypeOK
<1>3. \A c \in Cells : Reached(c) => c \in settled
  BY DEF SearchInv
<1>4. start \in settled /\ goal \notin settled
  BY <1>2, <1>3 DEF SearchInv, TypeOK, Reached
<1>5. Closed(settled, leg, Need)
  <2> SUFFICES ASSUME NEW c \in settled, NEW n \in OkCells(leg), Ring(c, n) = 1
               PROVE  n \in settled
    BY DEF Closed
  <2>1. n \in Cells /\ c \in Cells
    BY <1>1, CorridorCells DEF TypeOK
  <2>2. best[n] >= Least(best[c], clear[n]) /\ best[c] >= 0
    BY DEF SearchInv, Reached
  <2> QED BY <1>2, <1>3, <2>1, <2>2 DEF Least, Reached
<1> QED BY <1>4, <1>5, NoWay DEF TypeOK

-----------------------------------------------------------------------------
\* The invariant holds when the question is asked.
LEMMA InitInv == HInit => IInv
<1> USE PassabilityAssumption DEF PassabilityAssumption, HInit, Init
<1>1. ASSUME HInit PROVE TypeOK
  <2>1. route \in Seq(Cells) \ {<<>>}
    BY <1>1
  <2>2. Len(route) \in Nat \ {0} /\ route[1] \in Cells
    BY <2>1
  <2>3. best \in [Cells -> {-1} \cup (Need..MaxClear)]
    BY <1>1
  <2>4. tightest \in Need..(MaxClear + 1)
    BY <1>1
  <2> QED BY <1>1, <2>2, <2>3, <2>4 DEF TypeOK
<1>2. HInit => SearchInv /\ RouteInv /\ CutInv
  BY DEF SearchInv, RouteInv, CutInv
<1> QED BY <1>1, <1>2 DEF IInv

\* The first step of a search.
LEMMA BeginInv ==
  ASSUME IInv, BeginSearch, UNCHANGED joined
  PROVE  IInv'
<1> USE PassabilityAssumption DEF PassabilityAssumption
<1>1. leg \in 1..(Len(route) - 1) /\ route[leg + 1] \in Cells /\ phase = "leg"
  BY DEF IInv, TypeOK, RouteInv, BeginSearch
<1>2. goal' \in OkCells(leg) /\ start' \in OkCells(leg)
  BY DEF BeginSearch, Nearest
<1>3. goal' \in Cells /\ start' \in Cells
  BY <1>1, <1>2, CorridorCells DEF IInv
<1>4. clear[start'] \in Need..MaxClear
  BY <1>2, <1>3 DEF OkCells, IInv, TypeOK
<1>5. /\ best' = [c \in Cells |-> IF c = start' THEN clear[c] ELSE -1]
      /\ heap' = {[b |-> clear[start'], cell |-> start']} /\ settled' = {}
      /\ phase' = "search" /\ UNCHANGED <<clear, route, leg, cur, tightest, joined>>
  BY DEF BeginSearch, askVars
<1>6. TypeOK'
  <2>1. best' \in [Cells -> {-1} \cup (Need..MaxClear)]
    BY <1>4, <1>5
  <2>2. heap' \subseteq Entry
    BY <1>3, <1>4, <1>5 DEF Entry
  <2> QED BY <1>3, <1>5, <2>1, <2>2 DEF IInv, TypeOK
<1>7. SearchInv'
  <2>1. OkCells(leg)' = OkCells(leg)
    BY <1>5 DEF OkCells
  <2>2. best'[start'] = clear[start'] /\ best'[start'] >= 0
    BY <1>3, <1>4, <1>5
  <2>3. \A c \in Cells : best'[c] >= 0 => c = start'
    BY <1>5
  <2>4. Way(leg, start', start', clear[start'])
    BY <1>4 DEF Way
  <2>5. \A c \in Cells : best'[c] >= 0 => Way(leg, start, c, best[c])'
    BY <1>5, <2>2, <2>3, <2>4, WayStays DEF Way, Closed, OkCells
  <2>6. \A c \in Cells : best'[c] >= 0 => best'[c] >= Least(clear[start'], clear[c])
    BY <1>4, <2>2, <2>3 DEF Least
  <2> QED BY <1>2, <1>3, <1>5, <2>1, <2>2, <2>3, <2>5, <2>6 DEF SearchInv, Reached
<1>8. RouteInv' /\ CutInv'
  BY <1>1, <1>5, WayStays DEF IInv, RouteInv, CutInv, Way, Closed, OkCells
<1> QED BY <1>6, <1>7, <1>8 DEF IInv

\* A cell that is widened had not been reached before: the code's entries are never
\* out of date, and a bottleneck once found is final.
LEMMA WidenedAreNew ==
  ASSUME TypeOK, SearchInv, phase = "search", leg \in 1..(Len(route) - 1),
         NEW e \in Top, NEW n \in Widened(e)
  PROVE  n \in Cells /\ best[n] = -1 /\ n \notin settled /\ Ring(e.cell, n) = 1
         /\ n \in OkCells(leg)
<1> USE PassabilityAssumption DEF PassabilityAssumption
<1>1. n \in Cells
  BY CorridorCells DEF Widened
<1>2. e \in heap /\ e.b \in Int /\ clear[n] \in Int /\ best[n] \in {-1} \cup (Need..MaxClear)
  BY <1>1 DEF Top, TypeOK, Entry
<1>3. best[n] >= 0 => best[n] >= Least(e.b, clear[n])
  BY <1>1, <1>2 DEF SearchInv, Reached
<1>4. Least(e.b, clear[n]) > best[n] /\ Least(e.b, clear[n]) \in Int
  BY <1>2 DEF Widened, Least
<1>5. best[n] = -1
  BY <1>2, <1>3, <1>4
<1> QED BY <1>1, <1>5 DEF Widened

\* One turn of the loop of _widest().
LEMMA ExpandInv ==
  ASSUME IInv, NEW e \in heap, Expand(e), UNCHANGED joined
  PROVE  IInv'
<1> USE PassabilityAssumption DEF PassabilityAssumption
<1>1. /\ phase = "search" /\ e \in Top /\ e.cell # goal
      /\ settled' = settled \cup {e.cell}
      /\ best' = [n \in Cells |-> IF n \in Widened(e) THEN Least(e.b, clear[n]) ELSE best[n]]
      /\ heap' = (heap \ {e}) \cup {[b |-> Least(e.b, clear[n]), cell |-> n] : n \in Widened(e)}
      /\ UNCHANGED <<clear, route, phase, leg, cur, start, goal, tightest, joined>>
  BY DEF Expand, askVars
<1>2. TypeOK /\ SearchInv /\ RouteInv
  BY DEF IInv
<1>3. leg \in 1..(Len(route) - 1)
  BY <1>1, <1>2 DEF RouteInv, TypeOK
<1>4. /\ e.b \in Need..MaxClear /\ e.cell \in Cells /\ e.b = best[e.cell]
      /\ e.cell \notin settled
  BY <1>1, <1>2 DEF TypeOK, Entry, SearchInv
<1>5. \A n \in Widened(e) : /\ n \in Cells /\ best[n] = -1 /\ n \notin settled
                            /\ Ring(e.cell, n) = 1 /\ n \in OkCells(leg)
  BY <1>1, <1>2, <1>3, WidenedAreNew
<1>6. \A n \in Widened(e) : /\ clear[n] \in Need..MaxClear /\ Least(e.b, clear[n]) \in Need..MaxClear
                            /\ Least(e.b, clear[n]) <= e.b /\ Least(e.b, clear[n]) <= clear[n]
  <2> SUFFICES ASSUME NEW n \in Widened(e)
               PROVE  /\ clear[n] \in Need..MaxClear /\ Least(e.b, clear[n]) \in Need..MaxClear
                      /\ Least(e.b, clear[n]) <= e.b /\ Least(e.b, clear[n]) <= clear[n]
    OBVIOUS
  <2>1. clear[n] \in 0..MaxClear
    BY <1>2, <1>5 DEF TypeOK
  <2>2. clear[n] >= Need
    BY <1>5 DEF OkCells
  <2> QED BY <1>4, <2>1, <2>2 DEF Least
<1>7. e.cell \notin Widened(e)
  BY <1>4, <1>5
<1>8. \A c \in Cells : /\ best[c] \in {-1} \cup (Need..MaxClear) /\ clear[c] \in 0..MaxClear
                       /\ c \in Widened(e) => best'[c] = Least(e.b, clear[c])
                       /\ c \notin Widened(e) => best'[c] = best[c]
  BY <1>1, <1>2 DEF TypeOK
<1>9. TypeOK'
  <2>1. best' \in [Cells -> {-1} \cup (Need..MaxClear)]
    BY <1>1, <1>6, <1>8
  <2>2. heap' \subseteq Entry
    BY <1>1, <1>2, <1>5, <1>6 DEF TypeOK, Entry
  <2>3. settled' \subseteq Cells
    BY <1>1, <1>2, <1>4 DEF TypeOK
  <2> QED BY <1>1, <1>2, <2>1, <2>2, <2>3 DEF TypeOK
<1>10. SearchInv'
  <2>1. OkCells(leg)' = OkCells(leg)
    BY <1>1 DEF OkCells
  <2>2. /\ start' \in OkCells(leg)' /\ best'[start'] = clear'[start'] /\ goal' \notin settled'
    <3>1. start \in OkCells(leg) /\ best[start] = clear[start] /\ goal \notin settled /\ start \in Cells
      BY <1>1, <1>2 DEF SearchInv, TypeOK
    <3>2. start \notin Widened(e)
      BY <1>2, <1>5, <3>1 DEF TypeOK
    <3> QED BY <1>1, <1>8, <2>1, <3>1, <3>2
  <2>3. \A c \in Cells : best'[c] >= 0 => Way(leg, start, c, best'[c])
    <3> SUFFICES ASSUME NEW c \in Cells, best'[c] >= 0 PROVE Way(leg, start, c, best'[c])
      OBVIOUS
    <3>1. CASE c \notin Widened(e)
      BY <1>1, <1>2, <1>8, <3>1 DEF SearchInv, Reached
    <3>2. CASE c \in Widened(e)
      <4> DEFINE w == Least(e.b, clear[c])
      <4>1. best'[c] = w /\ w \in Need..MaxClear /\ w <= e.b /\ w <= clear[c]
        BY <1>6, <1>8, <3>2
      <4>2. Way(leg, start, e.cell, e.b)
        BY <1>1, <1>2, <1>4 DEF SearchInv, Reached
      <4> HIDE DEF w
      <4>3. Way(leg, start, e.cell, w)
        <5>1. start \in Cells /\ w \in Int /\ e.b \in Int
          BY <1>2, <1>4, <4>1 DEF TypeOK
        <5> QED BY <1>2, <1>3, <1>4, <4>1, <4>2, <5>1, WayNarrows
      <4>4. \A S \in SUBSET Cells : e.cell \in S /\ Closed(S, leg, w) => c \in S
        BY <1>5, <3>2, <4>1 DEF Closed
      <4> QED BY <4>1, <4>3, <4>4 DEF Way
    <3> QED BY <3>1, <3>2
  <2>4. \A f \in heap' : f.b = best'[f.cell] /\ f.cell \notin settled'
    <3> SUFFICES ASSUME NEW f \in heap' PROVE f.b = best'[f.cell] /\ f.cell \notin settled'
      OBVIOUS
    <3>1. CASE f \in heap \ {e}
      <4>1. f.b = best[f.cell] /\ f.cell \notin settled /\ f.cell \in Cells /\ f.b \in Need..MaxClear
        BY <1>1, <1>2, <3>1 DEF SearchInv, TypeOK, Entry
      <4>2. f = [b |-> f.b, cell |-> f.cell] /\ e = [b |-> e.b, cell |-> e.cell]
        BY <1>2, <3>1 DEF TypeOK, Entry
      <4>3. f.cell # e.cell
        BY <1>4, <3>1, <4>1, <4>2
      <4>4. f.cell \notin Widened(e)
        BY <1>5, <4>1
      <4> QED BY <1>1, <1>8, <4>1, <4>3, <4>4
    <3>2. CASE \E n \in Widened(e) : f = [b |-> Least(e.b, clear[n]), cell |-> n]
      BY <1>1, <1>5, <1>7, <1>8, <3>2
    <3> QED BY <1>1, <3>1, <3>2
  <2>5. \A c \in Cells \ settled' : best'[c] >= 0 => \E f \in heap' : f.cell = c
    <3> SUFFICES ASSUME NEW c \in Cells \ settled', best'[c] >= 0 PROVE \E f \in heap' : f.cell = c
      OBVIOUS
    <3>1. CASE c \in Widened(e)
      <4>1. [b |-> Least(e.b, clear[c]), cell |-> c] \in heap'
        BY <1>1, <3>1
      <4> QED BY <4>1
    <3>2. CASE c \notin Widened(e)
      <4>1. PICK f \in heap : f.cell = c
        BY <1>1, <1>2, <1>8, <3>2 DEF SearchInv, Reached
      <4> QED BY <1>1, <4>1
    <3> QED BY <3>1, <3>2
  <2>6. \A c \in settled' : /\ best'[c] >= 0
                            /\ \A n \in OkCells(leg) : Ring(c, n) = 1 => best'[n] >= Least(best'[c], clear[n])
    <3>1. \A n \in OkCells(leg) : n \in Cells
      BY <1>2, <1>3, CorridorCells
    <3>2. \A c \in settled' : c \in Cells /\ c \notin Widened(e) /\ best'[c] = best[c] /\ best[c] >= 0
      BY <1>1, <1>2, <1>4, <1>5, <1>7, <1>8 DEF SearchInv, TypeOK, Reached
    <3>3. ASSUME NEW c \in settled, NEW n \in OkCells(leg), Ring(c, n) = 1
          PROVE  best'[n] >= Least(best'[c], clear[n])
      <4>1. best[n] >= Least(best[c], clear[n]) /\ best[c] >= 0 /\ c \in Cells
        BY <1>1, <1>2, <3>3 DEF SearchInv, TypeOK, Reached
      <4>2. best[n] >= 0
        BY <1>8, <3>1, <3>3, <4>1 DEF Least
      <4>3. n \notin Widened(e)
        BY <1>5, <4>2
      <4> QED BY <1>1, <1>8, <3>1, <3>2, <4>1, <4>3
    <3>4. ASSUME NEW n \in OkCells(leg), Ring(e.cell, n) = 1
          PROVE  best'[n] >= Least(e.b, clear[n])
      <4>1. n \in Cells /\ clear[n] >= 0 /\ Least(e.b, clear[n]) \in Int /\ Least(e.b, clear[n]) >= 0
        BY <1>4, <1>8, <3>1 DEF Least
      <4>2. CASE best[n] >= 0
        BY <1>1, <1>2, <1>5, <1>8, <4>1, <4>2 DEF SearchInv, Reached
      <4>3. CASE best[n] = -1
        <5>1. n \notin settled
          BY <1>1, <1>2, <4>3 DEF SearchInv, Reached
        <5>2. n \in Widened(e)
          BY <1>4, <3>4, <4>1, <4>3, <5>1 DEF Widened
        <5> QED BY <1>8, <4>1, <5>2
      <4> QED BY <1>8, <4>1, <4>2, <4>3
    <3> QED BY <1>1, <1>4, <3>2, <3>3, <3>4
  <2>7. \A f \in heap' : f.b \in Need..MaxClear /\ f.b <= e.b
    BY <1>1, <1>2, <1>6 DEF Top, TypeOK, Entry
  <2>8. \A f \in heap', c \in Cells : best'[c] >= 0 => best'[c] >= Least(f.b, clear[c])
    <3> SUFFICES ASSUME NEW f \in heap', NEW c \in Cells, best'[c] >= 0
                 PROVE  best'[c] >= Least(f.b, clear[c])
      OBVIOUS
    <3>1. f.b \in Int /\ f.b <= e.b /\ e.b \in Int /\ clear[c] \in Int /\ best'[c] \in Int
      BY <1>4, <1>6, <1>8, <2>7
    <3>2. CASE c \in Widened(e)
      BY <1>8, <3>1, <3>2 DEF Least
    <3>3. CASE c \notin Widened(e)
      <4>1. best[c] >= Least(e.b, clear[c]) /\ best'[c] = best[c]
        BY <1>1, <1>2, <1>8, <3>3 DEF SearchInv, Reached
      <4> QED BY <3>1, <4>1 DEF Least
    <3> QED BY <3>2, <3>3
  <2>9. \A f \in heap', c \in settled' : f.b <= best'[c]
    <3> SUFFICES ASSUME NEW f \in heap', NEW c \in settled' PROVE f.b <= best'[c]
      OBVIOUS
    <3>1. CASE c = e.cell
      BY <1>4, <1>7, <1>8, <2>7, <3>1
    <3>2. CASE c \in settled
      <4>1. e.b <= best[c] /\ c \in Cells
        BY <1>1, <1>2, <3>2 DEF SearchInv, TypeOK
      <4>2. best'[c] = best[c] /\ best[c] \in Int
        BY <1>5, <1>8, <3>2, <4>1
      <4> QED BY <1>4, <2>7, <4>1, <4>2
    <3> QED BY <1>1, <3>1, <3>2
  <2>10. \A c \in Cells : best'[c] >= 0 => Way(leg, start, c, best[c])'
    BY <1>1, <2>3, WayStays DEF Way, Closed, OkCells
  <2>11. \A c, n : Ring(c, n)' = Ring(c, n)
    BY DEF Ring
  <2>12. \A c \in settled' :
           /\ Reached(c)'
           /\ \A n \in OkCells(leg)' : Ring(c, n)' = 1 => best'[n] >= Least(best'[c], clear'[n])
    BY <1>1, <2>1, <2>6, <2>11 DEF Reached
  <2> QED BY <1>1, <2>2, <2>4, <2>5, <2>8, <2>9, <2>10, <2>12 DEF SearchInv, Reached
<1>11. RouteInv' /\ CutInv'
  BY <1>1, <1>2, WayStays DEF RouteInv, CutInv, Way, Closed, OkCells
<1> QED BY <1>9, <1>10, <1>11 DEF IInv

\* The search arrives: the leg joins those that count for the width.
LEMMA ArriveInv ==
  ASSUME IInv, HArrive
  PROVE  IInv'
<1> USE PassabilityAssumption DEF PassabilityAssumption
<1>1. PICK e \in heap : Arrive(e)
  BY DEF HArrive
<1> DEFINE j == [leg |-> leg, from |-> start, to |-> goal]
<1>2. /\ phase = "search" /\ phase' = "found" /\ e \in Top /\ e.cell = goal
      /\ settled' = settled \cup {goal} /\ heap' = heap \ {e} /\ tightest' = Least(tightest, e.b)
      /\ joined' = joined \cup {j}
      /\ UNCHANGED <<clear, route, leg, cur, start, goal, best>>
  BY <1>1 DEF Arrive, HArrive, askVars
<1>3. /\ e.b \in Need..MaxClear
      /\ Way(leg, start, goal, e.b) /\ ~Way(leg, start, goal, e.b + 1)
  BY <1>2, PoppedIsWidest DEF IInv
<1>4. /\ leg \in 1..(Len(route) - 1) /\ start \in Cells /\ goal \in Cells
      /\ tightest \in Need..(MaxClear + 1)
  BY <1>2 DEF IInv, TypeOK, RouteInv
<1>5. /\ tightest' \in Need..(MaxClear + 1) /\ tightest' <= tightest /\ tightest' <= e.b
      /\ tightest' = tightest \/ tightest' = e.b
  BY <1>2, <1>3, <1>4 DEF Least
<1>6. TypeOK'
  BY <1>2, <1>4, <1>5 DEF IInv, TypeOK
<1>7. SearchInv' /\ CutInv'
  BY <1>2 DEF SearchInv, CutInv
<1>8. j.leg = leg /\ j.from = start /\ j.to = goal /\ j \in joined'
  BY <1>2
<1>9. \A i \in joined : i.leg \in 1..(Len(route) - 1) /\ i.from \in Cells /\ i.to \in Cells
  BY DEF IInv, RouteInv
<1> HIDE DEF j
<1>10. \A i \in joined' : Way(i.leg, i.from, i.to, tightest')
  <2>1. ASSUME NEW i \in joined PROVE Way(i.leg, i.from, i.to, tightest')
    <3>1. Way(i.leg, i.from, i.to, tightest)
      BY DEF IInv, RouteInv
    <3>2. tightest \in Int /\ tightest' \in Int
      BY <1>4, <1>5
    <3> QED BY <1>5, <1>9, <3>1, <3>2, WayNarrows DEF IInv
  <2>2. Way(leg, start, goal, tightest')
    <3>1. e.b \in Int /\ tightest' \in Int
      BY <1>3, <1>5
    <3> QED BY <1>3, <1>4, <1>5, <3>1, WayNarrows DEF IInv
  <2> QED BY <1>2, <1>8, <2>1, <2>2
<1>11. \E i \in joined' : ~Way(i.leg, i.from, i.to, tightest' + 1)
  <2>1. CASE tightest' = e.b
    BY <1>3, <1>8, <2>1
  <2>2. CASE tightest' = tightest /\ tightest' # e.b
    <3>1. joined # {}
      <4>1. joined = {} => tightest = MaxClear + 1
        BY DEF IInv, RouteInv
      <4>2. tightest <= MaxClear
        BY <1>3, <1>5, <2>2
      <4> QED BY <4>1, <4>2
    <3>2. PICK i \in joined : ~Way(i.leg, i.from, i.to, tightest + 1)
      BY <3>1 DEF IInv, RouteInv
    <3> QED BY <1>2, <2>2, <3>2
  <2> QED BY <1>5, <2>1, <2>2
<1>12. RouteInv'
  <2>1. joined' \subseteq [leg : 1..(Len(route) - 1), from : Cells, to : Cells]
    <3>1. j \in [leg : 1..(Len(route) - 1), from : Cells, to : Cells]
      BY <1>4 DEF j
    <3> QED BY <1>2, <3>1 DEF IInv, RouteInv
  <2>2. \A i \in joined' : Way(i.leg, i.from, i.to, tightest)'
    BY <1>2, <1>10 DEF Way, Closed, OkCells
  <2>3. \E i \in joined' : ~Way(i.leg, i.from, i.to, tightest + 1)'
    BY <1>2, <1>11 DEF Way, Closed, OkCells
  <2>4. \A l \in 1..(leg - 1) : \E i \in joined' : i.leg = l
    BY <1>2 DEF IInv, RouteInv
  <2> QED BY <1>2, <1>4, <1>8, <2>1, <2>2, <2>3, <2>4 DEF RouteInv
<1> QED BY <1>6, <1>7, <1>12 DEF IInv

\* The steps between two searches.
LEMMA BetweenInv ==
  ASSUME IInv, UNCHANGED joined,
         NoLegs \/ Trapped \/ Start \/ LegShut \/ LegDone \/ RouteDone
  PROVE  IInv'
<1> USE PassabilityAssumption DEF PassabilityAssumption
<1>1. /\ UNCHANGED <<clear, route, start, goal, best, heap, settled, tightest, joined>>
      /\ phase' \notin {"search", "cut"}
  BY DEF NoLegs, Trapped, Start, LegShut, LegDone, RouteDone, askVars, searchVars
<1>2. SearchInv' /\ CutInv'
  BY <1>1 DEF SearchInv, CutInv
<1>3. route \in Seq(Cells) /\ Len(route) \in Nat /\ leg \in 1..Len(route)
  BY DEF IInv, TypeOK
<1>4. /\ leg' \in 1..Len(route) /\ cur' \in Cells
      /\ phase' \in {"leg", "no legs", "trapped", "shut", "passable"}
  <2>1. CASE Start
    <3>1. Len(route) >= 2 /\ leg' = leg /\ phase' = "leg" /\ cur' \in OkCells(1)
      BY <2>1 DEF Start, Nearest
    <3>2. OkCells(1) \subseteq Cells
      BY <1>3, <3>1, CorridorCells DEF IInv
    <3> QED BY <1>3, <3>1, <3>2
  <2>2. CASE NoLegs \/ Trapped \/ LegShut
    BY <1>3, <2>2 DEF NoLegs, Trapped, LegShut, IInv, TypeOK
  <2>3. CASE LegDone
    <3>1. leg' = leg + 1 /\ leg + 1 < Len(route) /\ phase' = "leg" /\ cur' = goal
      BY <2>3 DEF LegDone
    <3>2. goal \in Cells
      BY DEF IInv, TypeOK
    <3> QED BY <1>3, <3>1, <3>2
  <2>4. CASE RouteDone
    BY <1>3, <2>4 DEF RouteDone, IInv, TypeOK
  <2> QED BY <2>1, <2>2, <2>3, <2>4
<1>5. TypeOK'
  BY <1>1, <1>4 DEF IInv, TypeOK, Verdicts
<1>6. /\ \A i \in joined' : Way(i.leg, i.from, i.to, tightest)'
      /\ joined' # {} => \E i \in joined' : ~Way(i.leg, i.from, i.to, tightest + 1)'
  BY <1>1 DEF IInv, RouteInv, Way, Closed, OkCells
<1>7. /\ phase' \notin {"start", "no legs"} => leg' < Len(route)
      /\ \A l \in 1..(leg' - 1) : \E i \in joined : i.leg = l
      /\ phase' \in {"found", "passable"} => \E i \in joined : i.leg = leg'
      /\ phase' = "passable" => leg' + 1 = Len(route)
  <2>1. /\ phase \notin {"start", "no legs"} => leg < Len(route)
        /\ phase = "start" => leg = 1
        /\ \A l \in 1..(leg - 1) : \E i \in joined : i.leg = l
        /\ phase = "found" => \E i \in joined : i.leg = leg
    BY DEF IInv, RouteInv
  <2>2. CASE NoLegs
    BY <2>1, <2>2 DEF NoLegs
  <2>3. CASE Trapped \/ Start
    <3>1. leg' = leg /\ leg = 1 /\ Len(route) >= 2 /\ phase' \in {"trapped", "leg"}
      BY <2>1, <2>3 DEF Trapped, Start
    <3>2. 1..(leg' - 1) = {}
      BY <3>1
    <3>3. leg' < Len(route)
      BY <1>3, <3>1
    <3> QED BY <3>1, <3>2, <3>3
  <2>4. CASE LegShut
    BY <2>1, <2>4 DEF LegShut
  <2>5. CASE LegDone
    <3>1. leg' = leg + 1 /\ leg + 1 < Len(route) /\ phase = "found" /\ phase' = "leg"
      BY <2>5 DEF LegDone
    <3>2. \A l \in 1..leg : l \in 1..(leg - 1) \/ l = leg
      BY <1>3
    <3>3. leg' - 1 = leg
      BY <1>3, <3>1
    <3>4. \A l \in 1..(leg' - 1) : \E i \in joined : i.leg = l
      BY <2>1, <3>1, <3>2, <3>3
    <3> QED BY <3>1, <3>4
  <2>6. CASE RouteDone
    <3>1. leg' = leg /\ leg + 1 = Len(route) /\ phase = "found" /\ phase' = "passable"
      BY <2>6 DEF RouteDone
    <3> QED BY <1>3, <2>1, <3>1
  <2> QED BY <2>2, <2>3, <2>4, <2>5, <2>6
<1>8. RouteInv'
  <2>1. /\ joined' \subseteq [leg : 1..(Len(route') - 1), from : Cells, to : Cells]
        /\ joined' = {} => tightest' = MaxClear + 1
    BY <1>1 DEF IInv, RouteInv
  <2>2. phase' # "start"
    BY <1>4
  <2> QED BY <1>1, <1>6, <1>7, <2>1, <2>2 DEF RouteInv
<1> QED BY <1>2, <1>5, <1>8 DEF IInv

\* The search runs dry.
LEMMA CutKeepsInv ==
  ASSUME IInv, Cut, UNCHANGED joined
  PROVE  IInv'
<1>1. /\ phase = "search" /\ heap = {} /\ phase' = "cut"
      /\ UNCHANGED <<clear, route, leg, cur, start, goal, best, heap, settled, tightest, joined>>
  BY DEF Cut, askVars, searchVars
<1>2. TypeOK' /\ SearchInv'
  BY <1>1 DEF IInv, TypeOK, SearchInv, Verdicts
<1>3. RouteInv'
  BY <1>1 DEF IInv, RouteInv, Way, Closed, OkCells
<1>4. CutInv'
  BY <1>1, DryIsCut DEF IInv, CutInv, Way, Closed, OkCells
<1> QED BY <1>2, <1>3, <1>4 DEF IInv

\* The invariant is inductive.
LEMMA NextInv == IInv /\ [HNext]_vars => IInv'
<1> SUFFICES ASSUME IInv, [HNext]_vars PROVE IInv'
  OBVIOUS
<1>1. CASE HArrive
  BY <1>1, ArriveInv
<1>2. CASE BeginSearch /\ UNCHANGED joined
  BY <1>2, BeginInv
<1>3. CASE Search /\ UNCHANGED joined
  BY <1>3, ExpandInv, CutKeepsInv DEF Search
<1>4. CASE (NoLegs \/ Trapped \/ Start \/ LegShut \/ LegDone \/ RouteDone) /\ UNCHANGED joined
  BY <1>4, BetweenInv
<1>5. CASE UNCHANGED vars
  <2> USE <1>5 DEF vars, IInv
  <2>1. TypeOK'
    BY DEF TypeOK
  <2>2. SearchInv'
    BY DEF SearchInv, Way, Closed, OkCells, Ring, Apart, Reached
  <2>3. RouteInv' /\ CutInv'
    BY DEF RouteInv, CutInv, Way, Closed, OkCells
  <2> QED BY <2>1, <2>2, <2>3
<1> QED BY <1>1, <1>2, <1>3, <1>4, <1>5 DEF HNext

\* The invariant holds throughout.
LEMMA Invariance == HSpec => []IInv
BY InitInv, NextInv, PTL DEF HSpec

\* Legs, cells and bottlenecks stay within their types, and nothing narrower than the
\* car is ever entered into the heap (_widest).
THEOREM PassabilityTypeCorrect == HSpec => []TypeOK
<1>1. IInv => TypeOK
  BY DEF IInv
<1> QED BY <1>1, Invariance, PTL

\* A leg that is called cut has no way for the car in its corridor; a route that is
\* called passable has one in every leg, of the width reported (route_passable).
THEOREM VerdictsAreRight == HSpec => []VerdictIsRight
<1>1. IInv => VerdictIsRight
  <2> SUFFICES ASSUME IInv, phase = "passable"
               PROVE  /\ \A l \in 1..(Len(route) - 1) : \E j \in joined : j.leg = l
                      /\ \A j \in joined : Way(j.leg, j.from, j.to, tightest)
                      /\ \E j \in joined : ~Way(j.leg, j.from, j.to, tightest + 1)
    BY DEF IInv, CutInv, VerdictIsRight
  <2>1. /\ \A l \in 1..(leg - 1) : \E j \in joined : j.leg = l
        /\ \E j \in joined : j.leg = leg
        /\ leg + 1 = Len(route)
        /\ \A j \in joined : Way(j.leg, j.from, j.to, tightest)
        /\ joined # {} => \E j \in joined : ~Way(j.leg, j.from, j.to, tightest + 1)
    BY DEF IInv, RouteInv
  <2>2. leg \in Nat
    BY DEF IInv, TypeOK
  <2>3. \A l \in 1..(Len(route) - 1) : l \in 1..(leg - 1) \/ l = leg
    BY <2>1, <2>2
  <2> QED BY <2>1, <2>3
<1> QED BY <1>1, Invariance, PTL

-----------------------------------------------------------------------------
(***************************************************************************)
(* The loops of a question run out.                                        *)
(***************************************************************************)
CellsLeft == Cardinality(Cells \ settled)
LegsLeft == Len(route) - leg

\* There are finitely many cells left.
LEMMA CellsLeftTyping == IsFiniteSet(Cells \ settled) /\ CellsLeft \in Nat
<1>1. IsFiniteSet(0..(Width - 1)) /\ IsFiniteSet(0..(Height - 1))
  BY PassabilityAssumption, FS_Interval DEF PassabilityAssumption
<1>2. IsFiniteSet(Cells)
  BY <1>1, FS_Product DEF Cells
<1>3. IsFiniteSet(Cells \ settled)
  BY <1>2, FS_Subset
<1>4. QED
  BY <1>3, FS_CardinalityType DEF CellsLeft

LEMMA AheadTyping == TypeOK => LegsLeft \in Nat /\ StageAhead \in Nat /\ CellsLeft \in Nat
<1> SUFFICES ASSUME TypeOK PROVE LegsLeft \in Nat /\ StageAhead \in Nat /\ CellsLeft \in Nat
  OBVIOUS
<1>1. route \in Seq(Cells)
  BY PassabilityAssumption DEF PassabilityAssumption, TypeOK
<1>2. LegsLeft \in Nat
  BY <1>1 DEF TypeOK, LegsLeft
<1>3. StageAhead \in Nat
  BY DEF StageAhead
<1>4. QED
  BY <1>2, <1>3, CellsLeftTyping

\* Which of the numbers a step lowers.
FewerLegs  == LegsLeft' < LegsLeft
NextStage  == LegsLeft' = LegsLeft /\ StageAhead' < StageAhead
FewerCells == LegsLeft' = LegsLeft /\ StageAhead' = StageAhead /\ CellsLeft' < CellsLeft

Nearer == FewerLegs \/ NextStage \/ FewerCells

LEMMA NearerIsBelow == ASSUME Nearer PROVE Below(Ahead', Ahead)
<1>1. /\ Ahead[1] = LegsLeft /\ Ahead[2] = StageAhead /\ Ahead[3] = CellsLeft
      /\ Ahead'[1] = LegsLeft' /\ Ahead'[2] = StageAhead' /\ Ahead'[3] = CellsLeft'
  BY DEF Ahead, LegsLeft, CellsLeft
<1>2. ASSUME NEW i \in 1..3, Ahead'[i] < Ahead[i], \A j \in 1..(i - 1) : Ahead'[j] = Ahead[j]
      PROVE  Below(Ahead', Ahead)
  BY <1>2 DEF Below
<1>3. CASE FewerLegs
  BY <1>1, <1>2, <1>3 DEF FewerLegs
<1>4. CASE NextStage
  <2>1. \A j \in 1..(2 - 1) : j = 1
    OBVIOUS
  <2>2. QED
    BY <1>1, <1>2, <1>4, <2>1 DEF NextStage
<1>5. CASE FewerCells
  <2>1. \A j \in 1..(3 - 1) : j = 1 \/ j = 2
    OBVIOUS
  <2>2. QED
    BY <1>1, <1>2, <1>5, <2>1 DEF FewerCells
<1>6. QED
  BY <1>3, <1>4, <1>5 DEF Nearer

\* An entry that is popped is that of a cell not settled before.
LEMMA ExpandNearer ==
  ASSUME IInv, NEW e \in heap, Expand(e) PROVE Nearer
<1>1. /\ route' = route /\ leg' = leg /\ phase = "search" /\ phase' = "search"
      /\ settled' = settled \cup {e.cell}
  BY DEF Expand, askVars
<1>2. e.cell \in Cells \ settled
  <2>1. e.cell \in Cells
    BY DEF IInv, TypeOK, Entry
  <2>2. e.cell \notin settled
    BY <1>1 DEF IInv, SearchInv
  <2>3. QED
    BY <2>1, <2>2
<1>3. Cells \ settled' = (Cells \ settled) \ {e.cell}
  BY <1>1
<1>4. CellsLeft' = CellsLeft - 1
  <2>1. Cardinality((Cells \ settled) \ {e.cell}) = Cardinality(Cells \ settled) - 1
    BY <1>2, CellsLeftTyping, FS_RemoveElement
  <2>2. CellsLeft' = Cardinality((Cells \ settled) \ {e.cell})
    BY <1>3 DEF CellsLeft
  <2>3. QED
    BY <2>1, <2>2 DEF CellsLeft
<1>5. CellsLeft' < CellsLeft
  BY <1>4, CellsLeftTyping
<1>6. LegsLeft' = LegsLeft /\ StageAhead' = StageAhead
  BY <1>1 DEF LegsLeft, StageAhead
<1>7. QED
  BY <1>5, <1>6 DEF Nearer, FewerCells

\* The steps between the searches.
LEMMA StageNearer ==
  ASSUME \/ NoLegs \/ Trapped \/ Start \/ LegShut \/ BeginSearch \/ Cut \/ RouteDone
         \/ \E e \in heap : Arrive(e)
  PROVE  Nearer
<1>1. LegsLeft' = LegsLeft
  BY DEF NoLegs, Trapped, Start, LegShut, BeginSearch, Cut, RouteDone, Arrive, askVars, LegsLeft
<1>2. \/ phase = "start" /\ phase' \in {"no legs", "trapped", "leg"}
      \/ phase = "leg" /\ phase' \in {"shut", "search"}
      \/ phase = "search" /\ phase' \in {"cut", "found"}
      \/ phase = "found" /\ phase' = "passable"
  BY DEF NoLegs, Trapped, Start, LegShut, BeginSearch, Cut, RouteDone, Arrive
<1>3. CASE phase = "start" /\ phase' \in {"no legs", "trapped", "leg"}
  <2>1. StageAhead = 4 /\ StageAhead' \in {0, 3}
    BY <1>3 DEF StageAhead
  <2>2. QED
    BY <1>1, <2>1 DEF Nearer, NextStage
<1>4. CASE phase = "leg" /\ phase' \in {"shut", "search"}
  <2>1. StageAhead = 3 /\ StageAhead' \in {0, 2}
    BY <1>4 DEF StageAhead
  <2>2. QED
    BY <1>1, <2>1 DEF Nearer, NextStage
<1>5. CASE phase = "search" /\ phase' \in {"cut", "found"}
  <2>1. StageAhead = 2 /\ StageAhead' \in {0, 1}
    BY <1>5 DEF StageAhead
  <2>2. QED
    BY <1>1, <2>1 DEF Nearer, NextStage
<1>6. CASE phase = "found" /\ phase' = "passable"
  <2>1. StageAhead = 1 /\ StageAhead' = 0
    BY <1>6 DEF StageAhead
  <2>2. QED
    BY <1>1, <2>1 DEF Nearer, NextStage
<1>7. QED
  BY <1>2, <1>3, <1>4, <1>5, <1>6

LEMMA LegDoneNearer == ASSUME TypeOK, LegDone PROVE Nearer
<1>1. route' = route /\ leg' = leg + 1
  BY DEF LegDone, askVars
<1>2. Len(route) \in Int /\ leg \in Int
  <2>1. route \in Seq(Cells)
    BY PassabilityAssumption DEF PassabilityAssumption, TypeOK
  <2>2. QED
    BY <2>1 DEF TypeOK
<1>3. LegsLeft' = Len(route) - (leg + 1)
  BY <1>1 DEF LegsLeft
<1>4. QED
  BY <1>2, <1>3 DEF LegsLeft, Nearer, FewerLegs

\* The search for the widest way and the loop over the legs run out on every map, for
\* every route, band and size of car (_widest, route_passable): three natural numbers,
\* compared from the left, get smaller with every step.  This is VerdictComes without its
\* fairness.
THEOREM QuestionsRunOut == HSpec => LoopsRunOut
<1>1. IInv /\ IInv' /\ [HNext]_vars => [Ahead' \in [1..3 -> Nat] /\ Below(Ahead', Ahead)]_vars
  <2> SUFFICES ASSUME IInv, IInv', HNext
               PROVE  Ahead' \in [1..3 -> Nat] /\ Below(Ahead', Ahead)
    OBVIOUS
  <2>1. Nearer
    <3>1. CASE LegDone
      BY <3>1, LegDoneNearer DEF IInv
    <3>2. ASSUME NEW e \in heap, Expand(e) PROVE Nearer
      BY <3>2, ExpandNearer
    <3>3. QED
      BY <3>1, <3>2, StageNearer DEF HNext, HArrive, Search
  <2>2. LegsLeft' \in Nat /\ StageAhead' \in Nat /\ CellsLeft' \in Nat
    <3>1. (TypeOK => LegsLeft \in Nat /\ StageAhead \in Nat /\ CellsLeft \in Nat)'
      BY AheadTyping, PTL
    <3>2. QED
      BY <3>1 DEF IInv
  <2>3. Ahead' \in [1..3 -> Nat]
    <3>1. Ahead' = <<LegsLeft', StageAhead', CellsLeft'>>
      BY DEF Ahead, LegsLeft, CellsLeft
    <3>2. QED
      BY <2>2, <3>1
  <2>4. QED
    BY <2>1, <2>3, NearerIsBelow
<1>2. QED
  BY <1>1, Invariance, PTL DEF HSpec, LoopsRunOut
=============================================================================

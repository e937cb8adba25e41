--------------------------- MODULE ObstacleProofs ----------------------------
(***************************************************************************)
(* The safety properties of ObstacleHistory for every set of cells and     *)
(* walls, every number of hits and every time to forget.                   *)
(***************************************************************************)
EXTENDS ObstacleHistory, TLAPS

\* The monitor's counters against the record: a track has at least the hits of the
\* current streak, and its age is the time its cell has gone unseen.
TrackInv ==
  \A c \in Cells :
    /\ hits[c] > 0 => c \in Unmapped
    /\ hits[c] > 0 => age[c] = unseen[c]
    /\ hits[c] = 0 => age[c] = 0
    /\ c \in Unmapped => streak[c] <= hits[c]

\* What is published is what has been confirmed, from the first scan that counts.
LatchInv ==
  /\ latch # NoGrid => latch = {c \in Cells : hits[c] >= MinHits}
  /\ latch = NoGrid => \A c \in Cells : streak[c] = 0

IInv == TypeOK /\ HistoryOK /\ TrackInv /\ LatchInv

\* A count that is capped stays within its cap and does not fall.
LEMMA UpToType ==
  ASSUME NEW bound \in Nat, NEW n \in Nat
  PROVE  /\ UpTo(bound, n) \in 0..bound
         /\ UpTo(bound, n) <= n
         /\ n > 0 /\ bound > 0 => UpTo(bound, n) > 0
BY DEF UpTo

\* No set of cells is taken for the lack of a message.
LEMMA GridIsMessage ==
  ASSUME NEW S \in SUBSET Cells
  PROVE  S # NoGrid
BY ObstacleAssumption DEF ObstacleAssumption

\* The invariant holds before the first message.
LEMMA InitInv == HInit => IInv
<1> USE ObstacleAssumption DEF ObstacleAssumption, HInit, Init
<1>1. HInit => TypeOK
  <2>1. HInit => hits \in [Cells -> 0..MinHits] /\ age \in [Cells -> 0..(ForgetAfter + 1)]
    OBVIOUS
  <2>2. HInit => mapped \in BOOLEAN /\ static_map \in BOOLEAN
    OBVIOUS
  <2>3. HInit => /\ latch \in Messages /\ obs_grid \in Messages
                 /\ key \in Messages /\ grid \in Messages
    BY DEF Messages
  <2> QED BY <2>1, <2>2, <2>3 DEF TypeOK
<1>2. HInit => HistoryOK
  BY DEF HistoryOK
<1>3. HInit => TrackInv /\ LatchInv
  BY DEF TrackInv, LatchInv
<1> QED BY <1>1, <1>2, <1>3 DEF IInv

\* One cell's counters after a scan, by whether the scan shows it.
LEMMA ScanCell ==
  ASSUME IInv, NEW seen \in SUBSET Cells, NEW dt \in 1..MaxDelay, HScan(seen, dt),
         NEW c \in Cells
  PROVE  /\ hits'[c] \in 0..MinHits
         /\ age'[c] \in 0..(ForgetAfter + 1)
         /\ streak'[c] \in 0..MinHits
         /\ unseen'[c] \in 0..(ForgetAfter + 1)
         /\ hits'[c] > 0 => c \in Unmapped /\ age'[c] = unseen'[c] /\ unseen'[c] <= ForgetAfter
         /\ hits'[c] = 0 => age'[c] = 0
         /\ c \in Unmapped => streak'[c] <= hits'[c]
<1> USE ObstacleAssumption DEF ObstacleAssumption
<1>1. /\ hits[c] \in 0..MinHits /\ age[c] \in 0..(ForgetAfter + 1)
      /\ streak[c] \in 0..MinHits /\ unseen[c] \in 0..(ForgetAfter + 1)
  BY DEF IInv, TypeOK, HistoryOK
<1>2. /\ hits[c] > 0 => c \in Unmapped /\ age[c] = unseen[c]
      /\ hits[c] = 0 => age[c] = 0
      /\ c \in Unmapped => streak[c] <= hits[c]
  BY DEF IInv, TrackInv
<1>3. /\ hits'[c] = HitsAfter(c, seen, dt) /\ age'[c] = AgeAfter(c, seen, dt)
      /\ streak'[c] = (IF c \in seen THEN UpTo(MinHits, streak[c] + 1) ELSE 0)
      /\ unseen'[c] = (IF c \in seen THEN 0 ELSE Later(c, dt))
  BY DEF HScan, Scan
<1>4. CASE c \in Found(seen)
  BY <1>1, <1>2, <1>3, <1>4 DEF HitsAfter, AgeAfter, Found, Unmapped, UpTo
<1>5. CASE c \notin Found(seen) /\ Outdated(c, dt)
  BY <1>1, <1>2, <1>3, <1>5 DEF HitsAfter, AgeAfter, Found, Unmapped, UpTo, Later
<1>6. CASE c \notin Found(seen) /\ ~Outdated(c, dt)
  <2>1. hits'[c] = hits[c] /\ age'[c] = Aged(c, dt)
    BY <1>3, <1>6 DEF HitsAfter, AgeAfter
  <2>2. CASE hits[c] = 0
    BY <1>1, <1>2, <1>3, <1>6, <2>1, <2>2 DEF Aged, Found, Unmapped, UpTo, Later
  <2>3. CASE hits[c] > 0
    BY <1>1, <1>2, <1>3, <1>6, <2>1, <2>3 DEF Aged, Outdated, Found, Unmapped, UpTo, Later
  <2> QED BY <1>1, <2>2, <2>3
<1> QED BY <1>4, <1>5, <1>6

\* A scan preserves the invariant.
LEMMA ScanInv ==
  ASSUME IInv, NEW seen \in SUBSET Cells, NEW dt \in 1..MaxDelay, HScan(seen, dt)
  PROVE  IInv'
<1> USE ObstacleAssumption DEF ObstacleAssumption
<1>1. /\ hits' \in [Cells -> 0..MinHits] /\ age' \in [Cells -> 0..(ForgetAfter + 1)]
      /\ streak' \in [Cells -> 0..MinHits] /\ unseen' \in [Cells -> 0..(ForgetAfter + 1)]
  <2>1. /\ hits' = [c \in Cells |-> hits'[c]] /\ age' = [c \in Cells |-> age'[c]]
        /\ streak' = [c \in Cells |-> streak'[c]] /\ unseen' = [c \in Cells |-> unseen'[c]]
    BY DEF HScan, Scan
  <2> QED BY <2>1, ScanCell
<1>2. TrackInv'
  BY ScanCell DEF TrackInv, Unmapped
<1>3. latch' = {c \in Cells : hits'[c] >= MinHits}
  BY DEF HScan, Scan
<1>4. latch' \in SUBSET (Cells \ Walls)
  BY <1>1, <1>2, <1>3 DEF TrackInv, Unmapped
<1>5. TypeOK' /\ HistoryOK'
  BY <1>1, <1>4 DEF IInv, TypeOK, HistoryOK, HScan, Scan, Messages, missionVars
<1>6. LatchInv'
  BY <1>3, GridIsMessage DEF LatchInv
<1> QED BY <1>2, <1>5, <1>6 DEF IInv

\* Time passing without a scan preserves it.
LEMMA WaitInv ==
  ASSUME IInv, NEW dt \in 1..MaxDelay, HWait(dt)
  PROVE  IInv'
<1> USE ObstacleAssumption DEF ObstacleAssumption
<1>1. /\ hits \in [Cells -> 0..MinHits] /\ age \in [Cells -> 0..(ForgetAfter + 1)]
      /\ unseen \in [Cells -> 0..(ForgetAfter + 1)]
  BY DEF IInv, TypeOK, HistoryOK
<1>2. UNCHANGED <<mapped, hits, latch, missionVars, streak>>
  BY DEF HWait, Wait
<1>3. /\ age' = [c \in Cells |-> Aged(c, dt)] /\ unseen' = [c \in Cells |-> Later(c, dt)]
  BY DEF HWait, Wait
<1>4. \A c \in Cells : /\ Aged(c, dt) \in 0..(ForgetAfter + 1)
                       /\ Later(c, dt) \in 0..(ForgetAfter + 1)
  BY <1>1 DEF Aged, Later, UpTo
<1>5. TypeOK' /\ HistoryOK'
  BY <1>2, <1>3, <1>4 DEF IInv, TypeOK, HistoryOK, missionVars, Messages
<1>6. TrackInv'
  <2> SUFFICES ASSUME NEW c \in Cells
               PROVE  /\ hits[c] > 0 => c \in Unmapped
                      /\ hits[c] > 0 => age'[c] = unseen'[c]
                      /\ hits[c] = 0 => age'[c] = 0
                      /\ c \in Unmapped => streak[c] <= hits[c]
    BY <1>2 DEF TrackInv, Unmapped
  <2> QED BY <1>1, <1>3 DEF IInv, TrackInv, Aged, Later
<1>7. LatchInv'
  BY <1>2 DEF IInv, LatchInv
<1> QED BY <1>5, <1>6, <1>7 DEF IInv

\* The invariant is inductive.
LEMMA NextInv == IInv /\ [HNext]_vars => IInv'
<1> SUFFICES ASSUME IInv, [HNext]_vars PROVE IInv'
  OBVIOUS
<1>1. CASE SomeScan
  BY <1>1, ScanInv DEF SomeScan
<1>2. CASE \E dt \in 1..MaxDelay : HWait(dt)
  BY <1>2, WaitInv
<1>3. CASE MonitorMap /\ UNCHANGED <<streak, unseen>>
  BY <1>3 DEF MonitorMap, IInv, TypeOK, HistoryOK, TrackInv, LatchInv, Messages, missionVars
<1>4. CASE Mission /\ UNCHANGED <<streak, unseen>>
  <2>1. UNCHANGED <<monitorVars, streak, unseen>>
    BY <1>4 DEF Mission, MissionMap, OnObsGrid, BuildGrid
  <2>2. static_map' \in BOOLEAN /\ obs_grid' \in Messages /\ key' \in Messages /\ grid' \in Messages
    BY <1>4 DEF Mission, MissionMap, OnObsGrid, BuildGrid, IInv, TypeOK, Messages
  <2> QED BY <2>1, <2>2 DEF IInv, TypeOK, HistoryOK, TrackInv, LatchInv, monitorVars
<1>5. CASE UNCHANGED vars
  BY <1>5 DEF vars, IInv, TypeOK, HistoryOK, TrackInv, LatchInv, Messages
<1> QED BY <1>1, <1>2, <1>3, <1>4, <1>5 DEF HNext

\* The invariant holds throughout.
LEMMA Invariance == HSpec => []IInv
BY InitInv, NextInv, PTL DEF HSpec

\* Hits, ages and messages stay within their types (ObstacleMonitor).
THEOREM ObstacleTypeCorrect == HSpec => []TypeOK
<1>1. IInv => TypeOK
  BY DEF IInv
<1> QED BY <1>1, Invariance, PTL

\* An obstacle seen in min_hits scans in a row is published, however far apart the
\* scans are (_on_scan).
THEOREM SeenObstaclesPublished == HSpec => []SeenIsPublished
<1>1. IInv => SeenIsPublished
  BY ObstacleAssumption
     DEF ObstacleAssumption, IInv, TypeOK, HistoryOK, TrackInv, LatchInv, SeenIsPublished, Unmapped
<1> QED BY <1>1, Invariance, PTL

\* A published grid holds nothing that went unseen for longer than forget_sec
\* (_on_scan).
THEOREM GoneObstaclesWithdrawn == HSpec => GoneIsWithdrawn
<1>1. IInv /\ [HNext]_vars => [SomeScan => \A c \in latch' : unseen'[c] <= ForgetAfter]_vars
  <2> SUFFICES ASSUME IInv, NEW seen \in SUBSET Cells, NEW dt \in 1..MaxDelay,
                      HScan(seen, dt), NEW c \in latch'
               PROVE  unseen'[c] <= ForgetAfter
    BY DEF SomeScan
  <2>1. c \in Cells /\ hits'[c] >= MinHits
    BY DEF HScan, Scan
  <2>2. hits'[c] > 0
    BY <2>1, ScanCell, ObstacleAssumption DEF ObstacleAssumption
  <2> QED BY <2>1, <2>2, ScanCell
<1> QED BY <1>1, Invariance, PTL DEF HSpec, GoneIsWithdrawn
=============================================================================

--------------------------- MODULE UltrasonicGuard ---------------------------
(***************************************************************************)
(* The reversing guard of parking_mission/ultrasonic.py: class             *)
(* UltrasonicGuard.  A driver callback feeds it distance arrays; the       *)
(* maneuver executor asks it, before it publishes a motor command, whether *)
(* the car may go on in a direction.  Feeding and asking run at rates of   *)
(* their own, so any number of checks may see one reading.                 *)
(*                                                                         *)
(* Distances are integers in centimetres (unit_to_m = 0.01).  Time is      *)
(* counted in clock units: `age' is now - _last_stamp, kept no further     *)
(* than StaleAfter + 1, the first value that reads as stale.  bad_hits is  *)
(* only ever compared with ConfirmHits and is kept no further than that.   *)
(* side_min, side_warning and _short_count feed the log only and are left  *)
(* out, so an array that is too short (feed, early return) changes nothing.*)
(***************************************************************************)
EXTENDS Integers

CONSTANTS
  RearChannels,     \* REAR_CHANNELS: ch5, ch6, ch7
  RawReadings,      \* integers a driver message may hold for a channel
  MinValid,         \* min_valid
  MaxValid,         \* max_valid
  StopDistance,     \* stop_distance
  SlowDistance,     \* slow_distance
  ConfirmHits,      \* confirm_hits
  ResumeClearHits,  \* resume_clear_hits
  StaleAfter,       \* stale_sec, in clock units
  MaxWait           \* bound: clock units between two events of the guard

ASSUME GuardAssumption ==
  /\ RawReadings \subseteq Int
  /\ MinValid \in Nat /\ MaxValid \in Nat
  /\ StopDistance \in Nat /\ SlowDistance \in Nat
  /\ StopDistance <= SlowDistance
  /\ ConfirmHits \in Nat \ {0}
  /\ ResumeClearHits \in Nat \ {0}
  /\ StaleAfter \in Nat
  /\ MaxWait \in Nat

VARIABLES
  values,     \* _values, the rear channels
  fed,        \* _last_stamp is not None
  age,        \* now - _last_stamp
  bad_hits,   \* _bad_hits
  good_hits,  \* _good_hits
  holding,    \* _holding
  verdict     \* the GuardVerdict of the latest check()

guardVars == <<values, fed, age, bad_hits, good_hits, holding, verdict>>

NoEcho == -1

Reasons == {"forward", "never_fed", "stale", "no_echo",
            "confirming", "near", "releasing", "clear"}

Verdict == [safe : BOOLEAN, slow : BOOLEAN, reason : Reasons]

GuardTypeOK ==
  /\ values \in [RearChannels -> {NoEcho} \cup MinValid..MaxValid]
  /\ fed \in BOOLEAN
  /\ age \in 0..(StaleAfter + 1)
  /\ bad_hits \in 0..ConfirmHits
  /\ good_hits \in 0..(ResumeClearHits - 1)
  /\ holding \in BOOLEAN
  /\ verdict \in Verdict

-----------------------------------------------------------------------------
ToMeters(v) == IF v \in MinValid..MaxValid THEN v ELSE NoEcho

\* rear_min() is None: no rear channel holds a valid distance.
RearUnknown == \A c \in RearChannels : values[c] = NoEcho

\* rear_min() <= d.
RearWithin(d) == \E c \in RearChannels : values[c] # NoEcho /\ values[c] <= d

RearNear  == RearWithin(StopDistance)
RearClear == ~RearUnknown /\ ~RearNear

AgeAfter(dt) == IF age + dt > StaleAfter THEN StaleAfter + 1 ELSE age + dt

Answer(safe, slow, reason) ==
  verdict' = [safe |-> safe, slow |-> slow, reason |-> reason]

GuardInit ==
  /\ values = [c \in RearChannels |-> NoEcho]
  /\ fed = FALSE
  /\ age = 0
  /\ bad_hits = 0
  /\ good_hits = 0
  /\ holding = FALSE
  /\ verdict = [safe |-> FALSE, slow |-> FALSE, reason |-> "never_fed"]

\* feed(): an array of at least MIN_ARRAY_LEN readings.
Feed ==
  /\ \E raw \in [RearChannels -> RawReadings] :
       values' = [c \in RearChannels |-> ToMeters(raw[c])]
  /\ fed' = TRUE
  /\ age' = 0
  /\ UNCHANGED <<bad_hits, good_hits, holding, verdict>>

\* The clock moves on and nobody asks.
Wait(dt) ==
  /\ age' = AgeAfter(dt)
  /\ UNCHANGED <<values, fed, bad_hits, good_hits, holding, verdict>>

-----------------------------------------------------------------------------
(***************************************************************************)
(* check(direction, now), dt clock units after the previous event.  One    *)
(* action per return statement.                                            *)
(***************************************************************************)
CheckForward(dt) ==
  /\ age' = AgeAfter(dt)
  /\ Answer(TRUE, FALSE, "forward")
  /\ UNCHANGED <<values, fed, bad_hits, good_hits, holding>>

CheckNeverFed(dt) ==
  /\ ~fed
  /\ age' = AgeAfter(dt)
  /\ Answer(FALSE, FALSE, "never_fed")
  /\ UNCHANGED <<values, fed, bad_hits, good_hits, holding>>

\* Mutant: the age of the readings is not looked at.
FreshWhenFed(dt) == fed /\ age' = AgeAfter(dt)

\* Mutant: a sensor that fell silent starts the guard afresh.
CheckStaleForgets(dt) ==
  /\ fed
  /\ age' = AgeAfter(dt)
  /\ age' > StaleAfter
  /\ bad_hits' = 0 /\ good_hits' = 0 /\ holding' = FALSE
  /\ Answer(FALSE, FALSE, "stale")
  /\ UNCHANGED <<values, fed>>

CheckStale(dt) ==
  /\ fed
  /\ age' = AgeAfter(dt)
  /\ age' > StaleAfter
  /\ Answer(FALSE, FALSE, "stale")
  /\ UNCHANGED <<values, fed, bad_hits, good_hits, holding>>

Fresh(dt) == fed /\ age' = AgeAfter(dt) /\ age' <= StaleAfter

CheckNoEcho(dt) ==
  /\ Fresh(dt)
  /\ RearUnknown
  /\ Answer(TRUE, FALSE, "no_echo")
  /\ UNCHANGED <<values, fed, bad_hits, good_hits, holding>>

Confirmed == bad_hits + 1 >= ConfirmHits

CheckConfirming(dt) ==
  /\ Fresh(dt)
  /\ RearNear
  /\ ~Confirmed
  /\ bad_hits' = bad_hits + 1
  /\ good_hits' = 0
  /\ Answer(TRUE, TRUE, "confirming")
  /\ UNCHANGED <<values, fed, holding>>

\* Mutant: confirming a stop starts the count of near readings afresh.
CheckNearForgets(dt) ==
  /\ Fresh(dt)
  /\ RearNear
  /\ Confirmed
  /\ bad_hits' = 0
  /\ good_hits' = 0
  /\ holding' = TRUE
  /\ Answer(FALSE, FALSE, "near")
  /\ UNCHANGED <<values, fed>>

CheckNear(dt) ==
  /\ Fresh(dt)
  /\ RearNear
  /\ Confirmed
  /\ bad_hits' = ConfirmHits
  /\ good_hits' = 0
  /\ holding' = TRUE
  /\ Answer(FALSE, FALSE, "near")
  /\ UNCHANGED <<values, fed>>

Released == good_hits + 1 >= ResumeClearHits

\* Mutant: the clear readings seen while holding are not counted.
CheckReleasingUncounted(dt) ==
  /\ Fresh(dt)
  /\ RearClear
  /\ holding
  /\ ~Released
  /\ bad_hits' = 0
  /\ Answer(FALSE, FALSE, "releasing")
  /\ UNCHANGED <<values, fed, good_hits, holding>>

CheckReleasing(dt) ==
  /\ Fresh(dt)
  /\ RearClear
  /\ holding
  /\ ~Released
  /\ bad_hits' = 0
  /\ good_hits' = good_hits + 1
  /\ Answer(FALSE, FALSE, "releasing")
  /\ UNCHANGED <<values, fed, holding>>

CheckClear(dt) ==
  /\ Fresh(dt)
  /\ RearClear
  /\ holding => Released
  /\ bad_hits' = 0
  /\ good_hits' = IF holding THEN 0 ELSE good_hits
  /\ holding' = FALSE
  /\ Answer(TRUE, RearWithin(SlowDistance), "clear")
  /\ UNCHANGED <<values, fed>>

CheckReverse(dt) ==
  \/ CheckNeverFed(dt)
  \/ CheckStale(dt)
  \/ CheckNoEcho(dt)
  \/ CheckConfirming(dt)
  \/ CheckNear(dt)
  \/ CheckReleasing(dt)
  \/ CheckClear(dt)

Check(direction, dt) ==
  \/ direction >= 0 /\ CheckForward(dt)
  \/ direction < 0 /\ CheckReverse(dt)

-----------------------------------------------------------------------------
GuardNext ==
  \/ Feed
  \/ \E dt \in 1..MaxWait : Wait(dt)
  \/ \E direction \in {-1, 1}, dt \in 0..MaxWait : Check(direction, dt)

GuardSpec == GuardInit /\ [][GuardNext]_guardVars

=============================================================================

---------------------------- MODULE GuardHistory ----------------------------
(***************************************************************************)
(* UltrasonicGuard with history variables that count what the guard has    *)
(* been shown, independently of the counters the code keeps, and the       *)
(* properties of the guard stated over them.                               *)
(***************************************************************************)
EXTENDS UltrasonicGuard

VARIABLES
  near_run,       \* consecutive reverse checks that saw a live near rear
  clear_run,      \* reverse checks that saw a live clear rear since the last near one
  stopped         \* a stop was answered, and no reverse check has answered safe since

historyVars == <<near_run, clear_run, stopped>>
guardHistoryVars ==
  <<values, fed, age, bad_hits, good_hits, holding, verdict,
    near_run, clear_run, stopped>>

UpTo(bound, n) == IF n > bound THEN bound ELSE n

Live == fed /\ age <= StaleAfter

HGuardInit == GuardInit /\ near_run = 0 /\ clear_run = 0 /\ stopped = FALSE

HFeed ==
  /\ Feed /\ UNCHANGED historyVars

HWait(dt) == Wait(dt) /\ UNCHANGED historyVars

HCheckForward(dt) == Check(1, dt) /\ UNCHANGED historyVars

HCheckReverse(dt) ==
  /\ Check(-1, dt)
  /\ near_run' = IF Live' /\ RearNear THEN UpTo(ConfirmHits, near_run + 1) ELSE 0
  /\ clear_run' = CASE Live' /\ RearNear  -> 0
                    [] Live' /\ RearClear -> UpTo(ResumeClearHits, clear_run + 1)
                    [] OTHER              -> clear_run
  /\ stopped' = (verdict'.reason = "near" \/ (stopped /\ ~verdict'.safe))

HGuardNext ==
  \/ HFeed
  \/ \E dt \in 1..MaxWait : HWait(dt)
  \/ \E dt \in 0..MaxWait : HCheckForward(dt)
  \/ \E dt \in 0..MaxWait : HCheckReverse(dt)

HGuardSpec == HGuardInit /\ [][HGuardNext]_guardHistoryVars

\* The executor keeps asking while it holds the car (motion.py, HOLD).
FairGuardSpec == HGuardSpec /\ WF_guardHistoryVars(\E dt \in 0..MaxWait : HCheckReverse(dt))

GuardHistoryOK ==
  /\ near_run \in 0..ConfirmHits
  /\ clear_run \in 0..ResumeClearHits

-----------------------------------------------------------------------------
ReverseVerdict == verdict.reason # "forward"

\* A rear that stays near is a stop: once ConfirmHits reverse checks in a row
\* have seen it, the answer is "not safe", whatever happened before (releases
\* half counted, forward driving, a sensor that was silent).  check, 246-263.
NearMeansStop ==
  near_run >= ConfirmHits /\ ReverseVerdict => ~verdict.safe

\* What it takes to answer safe after a confirmed stop: ResumeClearHits clear checks
\* since the last near one, or an array without an echo, or a near array if a clear
\* one has come since the stop.  The last two are not what the configuration says of
\* resume_clear_hits (133): the one is answered before the hold is looked at (243-251),
\* and the other is counted as the first of its kind, for a clear check has undone the
\* near ones before it (266-270).  There is no fourth way: silences, forward checks and
\* half-counted releases lift nothing.  The hold itself needs the clear checks.
SafeAgain ==
  \/ RearClear /\ clear_run' >= ResumeClearHits
  \/ RearUnknown
  \/ RearNear /\ clear_run >= 1

ReleaseNeedsClears ==
  [][/\ stopped /\ ~stopped' => SafeAgain
     /\ holding /\ ~holding' => clear_run' >= ResumeClearHits]_guardHistoryVars

\* The guard cannot stay latched: if from some point on the sensor is alive and
\* the rear is clear, the stop is lifted.  check, 265-277.
HoldEnds == <>[](Live /\ RearClear) => <>[]~holding

\* And the hold is lifted by the ResumeClearHits-th of them at the latest, whatever came
\* in between: checks without an echo, silences, forward driving.  check, 265-277.
ClearsRelease == holding => clear_run < ResumeClearHits

-----------------------------------------------------------------------------
(***************************************************************************)
(* The inductive invariant behind NearMeansStop and ReleaseNeedsClears:    *)
(* the code's counters never lag behind the history they stand for, and a  *)
(* stop that no clear check has followed is still counted in full.         *)
(***************************************************************************)
CountersFollow ==
  /\ near_run <= bad_hits
  /\ holding => good_hits <= clear_run

StopCounted ==
  /\ stopped \in BOOLEAN
  /\ stopped => holding /\ (clear_run = 0 => bad_hits >= ConfirmHits)

GuardInv == GuardTypeOK /\ GuardHistoryOK /\ CountersFollow /\ NearMeansStop /\ StopCounted
=============================================================================

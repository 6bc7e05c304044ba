------------------------------ MODULE BodySonar -----------------------------
(***************************************************************************)
(* The ultrasonic sensor of the BODY ECU (BodyControl.c) and the three     *)
(* users that share its last distance, its fault bit and the danger lamp:  *)
(*                                                                         *)
(*   - the collision warning, which measures every MeasurePeriod turns     *)
(*     while it is enabled and turns distances into levels;                *)
(*   - the monitor of the sensor's DTC, which runs the diagnostic routine  *)
(*     every DtcPeriod turns;                                              *)
(*   - the diagnosis, which runs the same routine when it is asked.        *)
(*                                                                         *)
(* One turn of the main loop is a command (or none), a request (or none),  *)
(* and BodyControl_Update1ms, one action per function it calls.            *)
(***************************************************************************)
EXTENDS Integers

CONSTANTS
  Distances,      \* what a measurement may return, in cm
  MeasurePeriod,  \* BODY_ULTRASONIC_MEASURE_PERIOD_MS
  HoldTime,       \* BODY_ULTRASONIC_VALID_HOLD_MS
  DtcPeriod,      \* BODY_DTC_CHECK_PERIOD_MS
  ConfirmCount,   \* BODY_DTC_CONFIRM_FAIL_COUNT
  BlinkHalf,      \* BODY_DIAG_DANGER_BLINK_HALF_PERIOD_MS
  BlinkToggles    \* twice BODY_DIAG_DANGER_BLINK_CYCLES

ASSUME DistancesAssumption == Distances \subseteq 0..400

ASSUME PeriodsAssumption ==
  /\ MeasurePeriod \in Nat \ {0}
  /\ HoldTime \in Nat \ {0}
  /\ DtcPeriod \in Nat \ {0}

ASSUME CountsAssumption ==
  /\ ConfirmCount \in Nat \ {0}
  /\ BlinkHalf \in Nat \ {0}
  /\ BlinkToggles \in Nat \ {0}

\* No echo within the timeout.
NoEcho == -1

NoObject == 400

Echoes == Distances \cup {NoEcho}

VARIABLES
  pc,            \* where the main loop is
  warn,          \* g_collisionWarningLampOn
  dist,          \* g_ultrasonicDistanceCm
  valid,         \* g_ultrasonicDistanceValid
  measureTimer,  \* g_ultrasonicMeasureTimerMs
  holdTimer,     \* g_ultrasonicValidHoldTimerMs
  level,         \* g_collisionWarningLevel
  sonarFault,    \* BODY_DIAG_ULTRASONIC_BIT of g_diagFaultMask
  lampFault,     \* one of its other bits
  dtc,           \* g_ultrasonicDtcStatus
  failCount,     \* g_ultrasonicDtcConsecutiveFailCount
  dtcTimer,      \* g_dtcCheckTimerMs
  blinking,      \* g_diagDangerBlinkActive
  blinkOn,       \* g_diagDangerBlinkOutputOn
  toggles,       \* g_diagDangerBlinkToggleCount
  blinkTimer,    \* g_diagDangerBlinkTimerMs
  led,           \* the pin of the danger lamp
  blind,         \* history: turns since the warning heard an echo
  failed         \* history: monitor checks failed since one passed or a clear

sonarVars == <<dist, valid, sonarFault>>
warnVars  == <<warn, measureTimer, holdTimer, level, blind>>
dtcVars   == <<dtc, failCount, dtcTimer, failed>>
blinkVars == <<blinking, blinkOn, toggles, blinkTimer>>
vars == <<pc, sonarVars, warnVars, dtcVars, blinkVars, lampFault, led>>

-----------------------------------------------------------------------------
(***************************************************************************)
(* The level of the warning                                                *)
(***************************************************************************)

Hysteresis == 5

\* Level k begins at Stage[k].
Stage == [k \in 1..3 |-> IF k = 1 THEN 30 ELSE IF k = 2 THEN 20 ELSE 10]

Deeper(l, cm) == {k \in l + 1..3 : cm <= Stage[k] - Hysteresis}

\* Variant: the hysteresis is applied to one side only.
ShallowerAtStage(l, cm) == {k \in 0..l - 1 : cm >= Stage[k + 1] - Hysteresis + 1}

Shallower(l, cm) == {k \in 0..l - 1 : cm >= Stage[k + 1] + Hysteresis}

\* BodyControl_ComputeCollisionWarningLevel for a valid distance: the deepest
\* level that is reached, else the shallowest that is left for, else no change.
LevelAt(l, cm) ==
  CASE Deeper(l, cm) # {} ->
         CHOOSE k \in Deeper(l, cm) : \A j \in Deeper(l, cm) : j <= k
    [] Deeper(l, cm) = {} /\ Shallower(l, cm) # {} ->
         CHOOSE k \in Shallower(l, cm) : \A j \in Shallower(l, cm) : k <= j
    [] OTHER -> l

Level(l, cm, ok) == IF ok THEN LevelAt(l, cm) ELSE 0

-----------------------------------------------------------------------------
(***************************************************************************)
(* The danger lamp                                                         *)
(***************************************************************************)

\* BodyControl_IsDiagDangerLedSteadyOn.
SteadyOn(lamp, status) == lamp \/ "CURRENT" \in status

\* BodyControl_UpdateDiagDangerLed: nothing, while the lamp blinks.
UpdateDiagDangerLed(active, lamp, status) ==
  led' = IF active THEN led ELSE SteadyOn(lamp, status)

-----------------------------------------------------------------------------
(***************************************************************************)
(* What BodyCan calls                                                      *)
(***************************************************************************)

NoCommand ==
  /\ pc = "command"
  /\ pc' = "request"
  /\ UNCHANGED <<sonarVars, warnVars, dtcVars, blinkVars, lampFault, led>>

ForgetDistance ==
  /\ dist' = NoObject
  /\ valid' = FALSE
  /\ holdTimer' = 0
  /\ level' = 0

\* BodyControl_SetCollisionWarningLamp(TRUE): the first measurement is due.
EnableWarning ==
  /\ pc = "command"
  /\ pc' = "request"
  /\ warn' = TRUE
  /\ measureTimer' = IF warn THEN measureTimer ELSE MeasurePeriod
  /\ UNCHANGED <<sonarVars, holdTimer, level, blind, dtcVars, blinkVars,
                 lampFault, led>>

\* BodyControl_SetCollisionWarningLamp(FALSE), and BodyControl_AllOff, which
\* updates the danger lamp as well.
DisableWarning ==
  /\ pc = "command"
  /\ pc' = "request"
  /\ warn' = FALSE
  /\ measureTimer' = 0
  /\ ForgetDistance
  /\ \/ UNCHANGED led
     \/ UpdateDiagDangerLed(blinking, lampFault, dtc)
  /\ UNCHANGED <<sonarFault, blind, dtcVars, blinkVars, lampFault>>

NoRequest ==
  /\ pc = "request"
  /\ pc' = "measure"
  /\ UNCHANGED <<sonarVars, warnVars, dtcVars, blinkVars, lampFault, led>>

\* BodyControl_RunUltrasonicDiagnosticRoutine, apart from the danger lamp.
Routine(echo) ==
  /\ dist' = IF echo = NoEcho THEN NoObject ELSE echo
  /\ valid' = (echo # NoEcho)
  /\ sonarFault' = (sonarFault \/ echo = NoEcho)

\* Requested as a routine or as the DID of the distance.
RunRoutine(echo) ==
  /\ pc = "request"
  /\ pc' = "measure"
  /\ Routine(echo)
  /\ \/ echo # NoEcho /\ UNCHANGED led
     \/ echo = NoEcho /\ UpdateDiagDangerLed(blinking, lampFault, dtc)
  /\ UNCHANGED <<warnVars, dtcVars, blinkVars, lampFault>>

\* Variant: the blinking for the history that is cleared goes on.
ClearDtcHistoryBlinks ==
  /\ pc = "request"
  /\ pc' = "measure"
  /\ dtc' = dtc \ {"HISTORY"}
  /\ failCount' = 0
  /\ failed' = 0
  /\ sonarFault' = ("CURRENT" \in dtc)
  /\ UpdateDiagDangerLed(blinking, lampFault, dtc)
  /\ UNCHANGED <<dist, valid, warnVars, dtcTimer, blinkVars, lampFault>>

\* BodyControl_ClearDtcHistory: the present failure stays.
ClearDtcHistory ==
  /\ pc = "request"
  /\ pc' = "measure"
  /\ dtc' = dtc \ {"HISTORY"}
  /\ failCount' = 0
  /\ failed' = 0
  /\ blinking' = FALSE
  /\ blinkOn' = FALSE
  /\ toggles' = 0
  /\ blinkTimer' = 0
  /\ sonarFault' = ("CURRENT" \in dtc)
  /\ UpdateDiagDangerLed(FALSE, lampFault, dtc)
  /\ UNCHANGED <<dist, valid, warnVars, dtcTimer, lampFault>>

-----------------------------------------------------------------------------
(***************************************************************************)
(* BodyControl_Update1ms                                                   *)
(***************************************************************************)

OneMore(n, limit) == IF n < limit THEN n + 1 ELSE n

\* blind is counted up to the longest time that a level may outlive its echo.
BlindCap == HoldTime + MeasurePeriod + 2

Decremented(n) == IF n > 0 THEN n - 1 ELSE 0

\* BodyControl_UpdateUltrasonic1ms while the warning is disabled ...
NoMeasurement ==
  /\ pc = "measure"
  /\ ~warn
  /\ pc' = "check"
  /\ measureTimer' = 0
  /\ ForgetDistance
  /\ blind' = OneMore(blind, BlindCap)
  /\ UNCHANGED <<sonarFault, warn, dtcVars, blinkVars, lampFault, led>>

\* ... between two measurements ...
AwaitMeasurement ==
  /\ pc = "measure"
  /\ warn
  /\ measureTimer < MeasurePeriod
  /\ pc' = "check"
  /\ measureTimer' = measureTimer + 1
  /\ holdTimer' = Decremented(holdTimer)
  /\ blind' = OneMore(blind, BlindCap)
  /\ UNCHANGED <<sonarVars, warn, level, dtcVars, blinkVars, lampFault, led>>

MeasurementDue ==
  /\ pc = "measure"
  /\ warn
  /\ measureTimer >= MeasurePeriod
  /\ pc' = "check"
  /\ measureTimer' = 0

\* ... a measurement that succeeds ...
HearEcho(echo) ==
  /\ MeasurementDue
  /\ dist' = echo
  /\ valid' = TRUE
  /\ holdTimer' = HoldTime
  /\ level' = Level(level, echo, TRUE)
  /\ blind' = 0
  /\ UNCHANGED <<sonarFault, warn, dtcVars, blinkVars, lampFault, led>>

\* Variant: the hold time is not looked at.
DistanceAfterMissAtOnce == dist' = NoObject /\ valid' = FALSE

\* Variant: the distance is never given up.
DistanceAfterMissNever == UNCHANGED <<dist, valid>>

\* The last distance is kept for HoldTime.
DistanceAfterMiss ==
  \/ holdTimer' = 0 /\ dist' = NoObject /\ valid' = FALSE
  \/ holdTimer' > 0 /\ UNCHANGED <<dist, valid>>

\* ... and one that fails.
MissEcho ==
  /\ MeasurementDue
  /\ sonarFault' = TRUE
  /\ UpdateDiagDangerLed(blinking, lampFault, dtc)
  /\ holdTimer' = Decremented(holdTimer)
  /\ DistanceAfterMiss
  /\ level' = Level(level, dist', valid')
  /\ blind' = OneMore(blind, BlindCap)
  /\ UNCHANGED <<warn, dtcVars, blinkVars, lampFault>>

\* BodyControl_UpdateDtcStatus1ms between two checks ...
AwaitCheck ==
  /\ pc = "check"
  /\ dtcTimer < DtcPeriod
  /\ pc' = "blink"
  /\ dtcTimer' = dtcTimer + 1
  /\ UNCHANGED <<sonarVars, warnVars, dtc, failCount, failed, blinkVars,
                 lampFault, led>>

\* BodyControl_StartDiagDangerLedBlink.
StartBlink ==
  /\ blinking' = TRUE
  /\ blinkOn' = TRUE
  /\ toggles' = 0
  /\ blinkTimer' = 0

CheckDue ==
  /\ pc = "check"
  /\ dtcTimer >= DtcPeriod
  /\ pc' = "blink"
  /\ dtcTimer' = 0

\* ... BodyControl_UpdateUltrasonicDtcStatus(TRUE): the history bit needs
\* ConfirmCount failures in a row and makes the lamp blink ...
CheckFails ==
  /\ CheckDue
  /\ dist' = NoObject
  /\ valid' = FALSE
  /\ sonarFault' = TRUE
  /\ failCount' = OneMore(failCount, ConfirmCount)
  /\ failed' = OneMore(failed, ConfirmCount)
  /\ dtc' = dtc \cup {"CURRENT"} \cup
             (IF failCount' >= ConfirmCount THEN {"HISTORY"} ELSE {})
  /\ \/ "HISTORY" \in dtc' \ dtc /\ StartBlink /\ led' = TRUE
     \/ /\ "HISTORY" \notin dtc' \ dtc
        /\ UNCHANGED blinkVars
        /\ UpdateDiagDangerLed(blinking, lampFault, dtc')
  /\ UNCHANGED <<warnVars, lampFault>>

\* Variant: a pass does not end the row of failures.
CheckPassesKeepsCount(echo) ==
  /\ CheckDue
  /\ dist' = echo
  /\ valid' = TRUE
  /\ sonarFault' = FALSE
  /\ failCount' = failCount
  /\ failed' = 0
  /\ dtc' = dtc \ {"CURRENT"}
  /\ UpdateDiagDangerLed(blinking, lampFault, dtc')
  /\ UNCHANGED <<warnVars, blinkVars, lampFault>>

\* ... and BodyControl_UpdateUltrasonicDtcStatus(FALSE).
CheckPasses(echo) ==
  /\ CheckDue
  /\ dist' = echo
  /\ valid' = TRUE
  /\ sonarFault' = FALSE
  /\ failCount' = 0
  /\ failed' = 0
  /\ dtc' = dtc \ {"CURRENT"}
  /\ UpdateDiagDangerLed(blinking, lampFault, dtc')
  /\ UNCHANGED <<warnVars, blinkVars, lampFault>>

\* BodyControl_UpdateDiagDangerLedBlink1ms: not blinking, or in a half period.
AwaitToggle ==
  /\ pc = "blink"
  /\ blinking => blinkTimer < BlinkHalf
  /\ pc' = "diagnose"
  /\ blinkTimer' = IF blinking THEN blinkTimer + 1 ELSE blinkTimer
  /\ UNCHANGED <<sonarVars, warnVars, dtcVars, blinking, blinkOn, toggles,
                 lampFault, led>>

ToggleDue ==
  /\ pc = "blink"
  /\ blinking
  /\ blinkTimer >= BlinkHalf
  /\ pc' = "diagnose"
  /\ blinkTimer' = 0

Toggle ==
  /\ ToggleDue
  /\ toggles + 1 < BlinkToggles
  /\ toggles' = toggles + 1
  /\ blinkOn' = ~blinkOn
  /\ led' = ~blinkOn
  /\ UNCHANGED <<sonarVars, warnVars, dtcVars, blinking, lampFault>>

\* The last toggle gives the lamp back to the faults.
EndBlink ==
  /\ ToggleDue
  /\ toggles + 1 >= BlinkToggles
  /\ blinking' = FALSE
  /\ blinkOn' = FALSE
  /\ toggles' = 0
  /\ UpdateDiagDangerLed(FALSE, lampFault, dtc)
  /\ UNCHANGED <<sonarVars, warnVars, dtcVars, lampFault>>

\* BodyControl_UpdateDiagnosis1ms: a lamp that is commanded on and gives no
\* feedback for long enough is a fault, which nothing clears.
Diagnose(broken) ==
  /\ pc = "diagnose"
  /\ pc' = "command"
  /\ lampFault' = (lampFault \/ broken)
  /\ UpdateDiagDangerLed(blinking, lampFault', dtc)
  /\ UNCHANGED <<sonarVars, warnVars, dtcVars, blinkVars>>

-----------------------------------------------------------------------------

\* BodyControl_Init; the self test of the lamps may have found a fault.
Init ==
  /\ pc = "command"
  /\ warn = FALSE
  /\ dist = NoObject
  /\ valid = FALSE
  /\ measureTimer = 0
  /\ holdTimer = 0
  /\ level = 0
  /\ sonarFault = FALSE
  /\ lampFault \in BOOLEAN
  /\ dtc = {}
  /\ failCount = 0
  /\ dtcTimer = 0
  /\ blinking = FALSE
  /\ blinkOn = FALSE
  /\ toggles = 0
  /\ blinkTimer = 0
  /\ led = lampFault
  /\ blind = BlindCap
  /\ failed = 0

FromBodyCan ==
  \/ NoCommand \/ EnableWarning \/ DisableWarning
  \/ NoRequest \/ ClearDtcHistory \/ \E echo \in Echoes : RunRoutine(echo)

Update1ms ==
  \/ NoMeasurement \/ AwaitMeasurement \/ MissEcho
  \/ AwaitCheck \/ CheckFails
  \/ \E echo \in Distances : HearEcho(echo) \/ CheckPasses(echo)
  \/ AwaitToggle \/ Toggle \/ EndBlink
  \/ \E broken \in BOOLEAN : Diagnose(broken)

Next == FromBodyCan \/ Update1ms

Spec == Init /\ [][Next]_vars

-----------------------------------------------------------------------------
(***************************************************************************)
(* Properties                                                              *)
(***************************************************************************)

PCs == {"command", "request", "measure", "check", "blink", "diagnose"}

\* Type invariant: timers and counters stay within their limits.
TypeOK ==
  /\ pc \in PCs
  /\ {warn, valid, sonarFault, lampFault, blinking, blinkOn, led} \subseteq BOOLEAN
  /\ dist \in Distances \cup {NoObject}
  /\ measureTimer \in 0..MeasurePeriod
  /\ holdTimer \in 0..HoldTime
  /\ level \in 0..3
  /\ dtc \subseteq {"CURRENT", "HISTORY"}
  /\ failCount \in 0..ConfirmCount
  /\ dtcTimer \in 0..DtcPeriod
  /\ toggles \in 0..BlinkToggles - 1
  /\ blinkTimer \in 0..BlinkHalf
  /\ blind \in 0..BlindCap
  /\ failed \in 0..ConfirmCount

\* An echo that jitters by less than twice the hysteresis never makes the
\* warning leave a level and come back to it, whatever the level and however
\* many levels it skips.
NoChatter ==
  \A near, far \in Distances :
    LET next == LevelAt(level, near) IN
    next # level /\ LevelAt(next, far) = level =>
      far >= near + 2 * Hysteresis \/ near >= far + 2 * Hysteresis

\* The danger lamp has three masters (faults, the present DTC, the blinking)
\* and is written from eight places: it blinks only for a history that has not
\* been cleared, and otherwise is lit exactly while a lamp fault is latched or
\* the ultrasonic DTC is present.  So a steady lamp means a latched fault: the
\* users that share the ultrasonic bit never clear it under a present DTC.  But
\* not every latched fault lights the lamp, although BodyControl.c:152 says so:
\* the bit that a missing echo latches is masked (line 819) while the DTC is not
\* present.
LampMeansFault ==
  /\ blinking => "HISTORY" \in dtc /\ led = blinkOn
  /\ ~blinking => led = SteadyOn(lampFault, dtc)
  /\ ~blinking /\ led => sonarFault \/ lampFault

\* A warning does not outlive the obstacle: while it sounds, an echo was heard
\* within the hold time and one measurement.  Echoes of the monitor and of the
\* routine, which set the distance but not the hold time, do not prolong it.
WarningIsFresh == level > 0 => blind <= HoldTime + MeasurePeriod

\* Nor does it stop early: it goes silent only when it is disabled, when the
\* way is clear, when no echo was heard for HoldTime, or when the monitor or
\* the routine has failed meanwhile and taken the shared distance with it.
HeldOverMissingEcho ==
  [][level > 0 /\ level' = 0 =>
       \/ ~warn'
       \/ valid' /\ dist' >= Stage[1] + Hysteresis
       \/ blind' >= HoldTime
       \/ ~valid]_vars

\* The history of the DTC is set by ConfirmCount failed checks of the monitor
\* in a row: neither the requested routine nor the warning's measurements
\* count, and a pass or a clear begins a new row.
ConfirmedAfterRow ==
  []["HISTORY" \in dtc' \ dtc => failed' = ConfirmCount]_vars
=============================================================================

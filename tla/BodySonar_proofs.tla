-------------------------- MODULE BodySonar_proofs --------------------------
(***************************************************************************)
(* Proofs about BodySonar, for every set of distances, every period and    *)
(* count.  The warning, the danger lamp and the DTC each have an invariant *)
(* of their own; all of them rest on the types.                            *)
(***************************************************************************)
EXTENDS BodySonar, TLAPS

-----------------------------------------------------------------------------
(* The levels.                                                             *)

LEMMA Stages ==
  /\ \A k \in 1..3 : Stage[k] \in Int
  /\ Stage[1] = 30 /\ Stage[2] = 20 /\ Stage[3] = 10
  /\ \A j, k \in 1..3 : j <= k => Stage[k] <= Stage[j]
  BY DEF Stage

LEMMA DeepestReached ==
  ASSUME NEW l \in 0..3, NEW cm \in Int, Deeper(l, cm) # {}
  PROVE  /\ LevelAt(l, cm) \in Deeper(l, cm)
         /\ \A j \in Deeper(l, cm) : j <= LevelAt(l, cm)
<1>1. \E k \in Deeper(l, cm) : \A j \in Deeper(l, cm) : j <= k
  <2>1. Deeper(l, cm) \subseteq {1, 2, 3}
    BY DEF Deeper
  <2>2. CASE 3 \in Deeper(l, cm)
    BY <2>1, <2>2
  <2>3. CASE 3 \notin Deeper(l, cm) /\ 2 \in Deeper(l, cm)
    BY <2>1, <2>3
  <2>4. CASE Deeper(l, cm) = {1}
    BY <2>4
  <2> QED BY <2>1, <2>2, <2>3, <2>4
<1>2. LevelAt(l, cm) = CHOOSE k \in Deeper(l, cm) : \A j \in Deeper(l, cm) : j <= k
  BY DEF LevelAt
<1> QED BY <1>1, <1>2

LEMMA ShallowestLeft ==
  ASSUME NEW l \in 0..3, NEW cm \in Int,
         Deeper(l, cm) = {}, Shallower(l, cm) # {}
  PROVE  /\ LevelAt(l, cm) \in Shallower(l, cm)
         /\ \A j \in Shallower(l, cm) : LevelAt(l, cm) <= j
<1>1. \E k \in Shallower(l, cm) : \A j \in Shallower(l, cm) : k <= j
  <2>1. Shallower(l, cm) \subseteq {0, 1, 2}
    BY DEF Shallower
  <2>2. CASE 0 \in Shallower(l, cm)
    BY <2>1, <2>2
  <2>3. CASE 0 \notin Shallower(l, cm) /\ 1 \in Shallower(l, cm)
    BY <2>1, <2>3
  <2>4. CASE Shallower(l, cm) = {2}
    BY <2>4
  <2> QED BY <2>1, <2>2, <2>3, <2>4
<1>2. LevelAt(l, cm) = CHOOSE k \in Shallower(l, cm) : \A j \in Shallower(l, cm) : k <= j
  BY DEF LevelAt
<1> QED BY <1>1, <1>2

\* A level is entered below its stage by the hysteresis, and left for a
\* shallower one above the stage of that one's neighbour by the hysteresis.
LEMMA LevelChange ==
  ASSUME NEW l \in 0..3, NEW cm \in Int
  PROVE  /\ LevelAt(l, cm) \in 0..3
         /\ LevelAt(l, cm) > l => cm <= Stage[LevelAt(l, cm)] - Hysteresis
         /\ LevelAt(l, cm) < l => cm >= Stage[LevelAt(l, cm) + 1] + Hysteresis
<1>1. CASE Deeper(l, cm) # {}
  <2>1. LevelAt(l, cm) \in Deeper(l, cm)
    BY <1>1, DeepestReached
  <2> QED BY <2>1 DEF Deeper
<1>2. CASE Deeper(l, cm) = {} /\ Shallower(l, cm) # {}
  <2>1. LevelAt(l, cm) \in Shallower(l, cm)
    BY <1>2, ShallowestLeft
  <2> QED BY <2>1 DEF Shallower
<1>3. CASE Deeper(l, cm) = {} /\ Shallower(l, cm) = {}
  <2>1. LevelAt(l, cm) = l
    BY <1>3 DEF LevelAt
  <2> QED BY <2>1
<1> QED BY <1>1, <1>2, <1>3

LEMMA LevelType ==
  ASSUME NEW l \in 0..3, NEW cm \in Int, NEW ok \in BOOLEAN
  PROVE  Level(l, cm, ok) \in 0..3
  BY LevelChange DEF Level

LEMMA DistanceType == Distances \cup {NoObject} \subseteq Int /\ NoEcho \notin Distances
  BY DistancesAssumption DEF NoObject, NoEcho

-----------------------------------------------------------------------------
(* Type correctness, in three parts.                                       *)

WarnTypes ==
  /\ warn \in BOOLEAN /\ valid \in BOOLEAN
  /\ dist \in Distances \cup {NoObject}
  /\ measureTimer \in 0..MeasurePeriod
  /\ holdTimer \in 0..HoldTime
  /\ level \in 0..3
  /\ blind \in 0..BlindCap

LampTypes ==
  /\ sonarFault \in BOOLEAN /\ lampFault \in BOOLEAN
  /\ blinking \in BOOLEAN /\ blinkOn \in BOOLEAN /\ led \in BOOLEAN
  /\ toggles \in 0..BlinkToggles - 1
  /\ blinkTimer \in 0..BlinkHalf

DtcTypes ==
  /\ pc \in PCs
  /\ dtc \subseteq {"CURRENT", "HISTORY"}
  /\ failCount \in 0..ConfirmCount
  /\ dtcTimer \in 0..DtcPeriod
  /\ failed \in 0..ConfirmCount

LEMMA TypeParts == TypeOK <=> WarnTypes /\ LampTypes /\ DtcTypes
  BY DEF TypeOK, WarnTypes, LampTypes, DtcTypes

LEMMA BlindCapType == BlindCap \in Nat /\ BlindCap > HoldTime + MeasurePeriod
  BY PeriodsAssumption DEF BlindCap

LEMMA OneMoreType ==
  ASSUME NEW limit \in Nat, NEW n \in 0..limit
  PROVE  /\ OneMore(n, limit) \in 0..limit
         /\ OneMore(n, limit) <= n + 1
         /\ OneMore(n, limit) = n + 1 \/ OneMore(n, limit) = limit
  BY DEF OneMore

LEMMA TypeInit == Init => TypeOK
<1> SUFFICES ASSUME Init PROVE TypeOK
  OBVIOUS
<1>1. WarnTypes
  <2>1. warn \in BOOLEAN /\ valid \in BOOLEAN /\ dist \in Distances \cup {NoObject}
    BY DEF Init
  <2>2. /\ measureTimer \in 0..MeasurePeriod /\ holdTimer \in 0..HoldTime
        /\ level \in 0..3 /\ blind \in 0..BlindCap
    BY BlindCapType, PeriodsAssumption DEF Init
  <2> QED BY <2>1, <2>2 DEF WarnTypes
<1>2. LampTypes
  <2>1. /\ sonarFault \in BOOLEAN /\ lampFault \in BOOLEAN
        /\ blinking \in BOOLEAN /\ blinkOn \in BOOLEAN /\ led \in BOOLEAN
    BY Zenon DEF Init
  <2>2. toggles \in 0..BlinkToggles - 1 /\ blinkTimer \in 0..BlinkHalf
    BY CountsAssumption DEF Init
  <2> QED BY <2>1, <2>2 DEF LampTypes
<1>3. DtcTypes
  BY CountsAssumption, PeriodsAssumption DEF Init, DtcTypes, PCs
<1> QED BY <1>1, <1>2, <1>3, TypeParts

\* The steps that leave the warning and what it measures alone.
WarnAlone ==
  UNCHANGED <<warn, dist, valid, measureTimer, holdTimer, level, blind>>

LEMMA WarnAloneSteps ==
  \/ NoCommand \/ NoRequest \/ ClearDtcHistory \/ AwaitCheck
  \/ AwaitToggle \/ Toggle \/ EndBlink \/ \E broken \in BOOLEAN : Diagnose(broken)
  \/ UNCHANGED vars
  => WarnAlone
  BY DEF WarnAlone, NoCommand, NoRequest, ClearDtcHistory, AwaitCheck, AwaitToggle,
     Toggle, EndBlink, Diagnose, vars, sonarVars, warnVars

\* The steps that set the shared distance and nothing else of the warning.
DistanceShared ==
  /\ UNCHANGED <<warn, measureTimer, holdTimer, level, blind>>
  /\ dist' \in Distances \cup {NoObject}
  /\ valid' \in BOOLEAN

LEMMA DistanceSharedSteps ==
  \/ \E echo \in Echoes : RunRoutine(echo)
  \/ CheckFails
  \/ \E echo \in Distances : CheckPasses(echo)
  => DistanceShared
<1>1. ASSUME NEW echo \in Echoes, RunRoutine(echo) PROVE DistanceShared
  BY <1>1 DEF RunRoutine, Routine, Echoes, warnVars, DistanceShared
<1>2. CASE CheckFails
  BY <1>2 DEF CheckFails, warnVars, DistanceShared
<1>3. ASSUME NEW echo \in Distances, CheckPasses(echo) PROVE DistanceShared
  BY <1>3 DEF CheckPasses, warnVars, DistanceShared
<1> QED BY <1>1, <1>2, <1>3

LEMMA ForgetTypes ==
  ForgetDistance =>
    /\ dist' \in Distances \cup {NoObject} /\ valid' \in BOOLEAN
    /\ holdTimer' \in 0..HoldTime /\ level' \in 0..3
<1> SUFFICES ASSUME ForgetDistance
             PROVE  /\ dist' \in Distances \cup {NoObject} /\ valid' \in BOOLEAN
                    /\ holdTimer' \in 0..HoldTime /\ level' \in 0..3
  OBVIOUS
<1>1. dist' \in Distances \cup {NoObject} /\ valid' \in BOOLEAN
  BY DEF ForgetDistance
<1>2. holdTimer' \in 0..HoldTime /\ level' \in 0..3
  BY PeriodsAssumption DEF ForgetDistance
<1> QED BY <1>1, <1>2

LEMMA WarnTypesNext == WarnTypes /\ [Next]_vars => WarnTypes'
<1> SUFFICES ASSUME WarnTypes, [Next]_vars PROVE WarnTypes'
  OBVIOUS
<1> USE PeriodsAssumption, BlindCapType DEF WarnTypes
<1>1. CASE WarnAlone
  BY <1>1 DEF WarnAlone
<1>2. CASE DistanceShared
  BY <1>2 DEF DistanceShared
<1>3. CASE EnableWarning
  BY <1>3 DEF EnableWarning, sonarVars
<1>4. CASE DisableWarning
  <2>1. warn' \in BOOLEAN
    BY <1>4, Zenon DEF DisableWarning
  <2>2. measureTimer' \in 0..MeasurePeriod /\ blind' \in 0..BlindCap
    BY <1>4 DEF DisableWarning
  <2> QED BY <1>4, <2>1, <2>2, ForgetTypes DEF DisableWarning
<1>5. CASE NoMeasurement
  <2>1. blind' \in 0..BlindCap
    BY <1>5, OneMoreType DEF NoMeasurement
  <2>2. warn' \in BOOLEAN /\ measureTimer' \in 0..MeasurePeriod
    BY <1>5 DEF NoMeasurement
  <2> QED BY <1>5, <2>1, <2>2, ForgetTypes DEF NoMeasurement
<1>6. CASE AwaitMeasurement
  <2>1. blind' \in 0..BlindCap
    BY <1>6, OneMoreType DEF AwaitMeasurement
  <2> QED BY <1>6, <2>1 DEF AwaitMeasurement, sonarVars, Decremented
<1>7. ASSUME NEW echo \in Distances, HearEcho(echo) PROVE WarnTypes'
  <2>1. level' \in 0..3
    BY <1>7, LevelType, DistanceType DEF HearEcho
  <2>2. warn' \in BOOLEAN /\ valid' \in BOOLEAN /\ dist' \in Distances \cup {NoObject}
    BY <1>7, Zenon DEF HearEcho
  <2>3. /\ measureTimer' \in 0..MeasurePeriod /\ holdTimer' \in 0..HoldTime
        /\ blind' \in 0..BlindCap
    BY <1>7 DEF HearEcho, MeasurementDue
  <2> QED BY <2>1, <2>2, <2>3
<1>8. CASE MissEcho
  <2>1. dist' \in Distances \cup {NoObject} /\ valid' \in BOOLEAN
    BY <1>8 DEF MissEcho, DistanceAfterMiss
  <2>2. level' \in 0..3
    BY <1>8, <2>1, LevelType, DistanceType DEF MissEcho
  <2>3. blind' \in 0..BlindCap
    BY <1>8, OneMoreType DEF MissEcho
  <2> QED BY <1>8, <2>1, <2>2, <2>3 DEF MissEcho, MeasurementDue, Decremented
<1> QED BY <1>1, <1>2, <1>3, <1>4, <1>5, <1>6, <1>7, <1>8, WarnAloneSteps,
           DistanceSharedSteps DEF Next, FromBodyCan, Update1ms

LEMMA LedType ==
  ASSUME led \in BOOLEAN, NEW active \in BOOLEAN, NEW lamp \in BOOLEAN, NEW status,
         UpdateDiagDangerLed(active, lamp, status)
  PROVE  led' \in BOOLEAN
  BY Zenon DEF UpdateDiagDangerLed, SteadyOn

LEMMA LampTypesNext == LampTypes /\ [Next]_vars => LampTypes'
<1> SUFFICES ASSUME LampTypes, [Next]_vars PROVE LampTypes'
  OBVIOUS
<1> USE CountsAssumption DEF LampTypes
<1>1. CASE UNCHANGED <<sonarFault, lampFault, blinkVars, led>>
  BY <1>1 DEF blinkVars
<1>2. CASE DisableWarning
  <2>1. led' \in BOOLEAN
    BY <1>2, LedType DEF DisableWarning
  <2> QED BY <1>2, <2>1 DEF DisableWarning, blinkVars
<1>3. ASSUME NEW echo \in Echoes, RunRoutine(echo) PROVE LampTypes'
  <2>1. led' \in BOOLEAN
    BY <1>3, LedType DEF RunRoutine
  <2>2. sonarFault' \in BOOLEAN
    BY <1>3, Zenon DEF RunRoutine, Routine
  <2> QED BY <1>3, <2>1, <2>2 DEF RunRoutine, blinkVars
<1>4. CASE ClearDtcHistory
  <2>1. led' \in BOOLEAN
    BY <1>4, LedType DEF ClearDtcHistory
  <2>2. sonarFault' \in BOOLEAN
    BY <1>4 DEF ClearDtcHistory
  <2>3. blinking' \in BOOLEAN /\ blinkOn' \in BOOLEAN
    BY <1>4, Zenon DEF ClearDtcHistory
  <2>4. toggles' \in 0..BlinkToggles - 1 /\ blinkTimer' \in 0..BlinkHalf
    BY <1>4 DEF ClearDtcHistory
  <2> QED BY <1>4, <2>1, <2>2, <2>3, <2>4 DEF ClearDtcHistory
<1>5. CASE MissEcho
  <2>1. led' \in BOOLEAN
    BY <1>5, LedType DEF MissEcho
  <2> QED BY <1>5, <2>1 DEF MissEcho, blinkVars
<1>6. CASE CheckFails
  <2>1. CASE StartBlink /\ led' = TRUE
    <3>1. led' \in BOOLEAN /\ blinking' \in BOOLEAN /\ blinkOn' \in BOOLEAN
      BY <2>1, Zenon DEF StartBlink
    <3>2. toggles' \in 0..BlinkToggles - 1 /\ blinkTimer' \in 0..BlinkHalf
      BY <2>1 DEF StartBlink
    <3> QED BY <1>6, <3>1, <3>2 DEF CheckFails
  <2>2. CASE UNCHANGED blinkVars /\ UpdateDiagDangerLed(blinking, lampFault, dtc')
    <3>1. led' \in BOOLEAN
      BY <2>2, LedType
    <3> QED BY <1>6, <2>2, <3>1 DEF CheckFails, blinkVars
  <2> QED BY <1>6, <2>1, <2>2 DEF CheckFails
<1>7. ASSUME NEW echo \in Distances, CheckPasses(echo) PROVE LampTypes'
  <2>1. led' \in BOOLEAN
    BY <1>7, LedType DEF CheckPasses
  <2> QED BY <1>7, <2>1 DEF CheckPasses, blinkVars
<1>8. CASE AwaitToggle
  BY <1>8 DEF AwaitToggle, sonarVars
<1>9. CASE Toggle
  <2>1. led' \in BOOLEAN /\ blinkOn' \in BOOLEAN
    BY <1>9, Zenon DEF Toggle
  <2> QED BY <1>9, <2>1 DEF Toggle, ToggleDue, sonarVars
<1>10. CASE EndBlink
  <2>1. led' \in BOOLEAN
    BY <1>10, LedType DEF EndBlink
  <2>2. blinking' \in BOOLEAN /\ blinkOn' \in BOOLEAN
    BY <1>10, Zenon DEF EndBlink
  <2> QED BY <1>10, <2>1, <2>2 DEF EndBlink, ToggleDue, sonarVars
<1>11. ASSUME NEW broken \in BOOLEAN, Diagnose(broken) PROVE LampTypes'
  <2>1. lampFault' \in BOOLEAN
    BY <1>11, Zenon DEF Diagnose
  <2>2. led' \in BOOLEAN
    BY <1>11, <2>1, LedType DEF Diagnose
  <2> QED BY <1>11, <2>1, <2>2 DEF Diagnose, sonarVars, blinkVars
<1>12. NoCommand \/ EnableWarning \/ NoRequest \/ NoMeasurement \/ AwaitMeasurement
       \/ (\E echo \in Distances : HearEcho(echo)) \/ AwaitCheck \/ UNCHANGED vars
       => UNCHANGED <<sonarFault, lampFault, blinkVars, led>>
  BY DEF NoCommand, EnableWarning, NoRequest, NoMeasurement, AwaitMeasurement, HearEcho,
         AwaitCheck, vars, sonarVars
<1> QED BY <1>1, <1>2, <1>3, <1>4, <1>5, <1>6, <1>7, <1>8, <1>9, <1>10, <1>11, <1>12
        DEF Next, FromBodyCan, Update1ms

LEMMA DtcTypesNext == DtcTypes /\ [Next]_vars => DtcTypes'
<1> SUFFICES ASSUME DtcTypes, [Next]_vars PROVE DtcTypes'
  OBVIOUS
<1> USE CountsAssumption, PeriodsAssumption DEF DtcTypes, PCs
<1>1. CASE FromBodyCan
  <2>1. CASE NoCommand \/ EnableWarning \/ DisableWarning \/ NoRequest
    BY <2>1 DEF NoCommand, EnableWarning, DisableWarning, NoRequest, dtcVars
  <2>2. CASE ClearDtcHistory
    BY <2>2 DEF ClearDtcHistory
  <2>3. ASSUME NEW echo \in Echoes, RunRoutine(echo) PROVE DtcTypes'
    BY <2>3 DEF RunRoutine, dtcVars
  <2> QED BY <1>1, <2>1, <2>2, <2>3 DEF FromBodyCan
<1>2. CASE NoMeasurement \/ AwaitMeasurement \/ MissEcho
           \/ \E echo \in Distances : HearEcho(echo)
  BY <1>2 DEF NoMeasurement, AwaitMeasurement, MissEcho, HearEcho, MeasurementDue, dtcVars
<1>3. CASE AwaitCheck
  BY <1>3 DEF AwaitCheck
<1>4. CASE CheckFails
  <2>1. failCount' \in 0..ConfirmCount /\ failed' \in 0..ConfirmCount
    BY <1>4, OneMoreType DEF CheckFails
  <2> QED BY <1>4, <2>1 DEF CheckFails, CheckDue
<1>5. ASSUME NEW echo \in Distances, CheckPasses(echo) PROVE DtcTypes'
  BY <1>5 DEF CheckPasses, CheckDue
<1>6. CASE AwaitToggle \/ Toggle \/ EndBlink
  BY <1>6 DEF AwaitToggle, Toggle, EndBlink, ToggleDue, dtcVars
<1>7. ASSUME NEW broken \in BOOLEAN, Diagnose(broken) PROVE DtcTypes'
  BY <1>7 DEF Diagnose, dtcVars
<1>8. CASE UNCHANGED vars
  BY <1>8 DEF vars, dtcVars
<1> QED BY <1>1, <1>2, <1>3, <1>4, <1>5, <1>6, <1>7, <1>8 DEF Next, Update1ms

LEMMA TypeNext == TypeOK /\ [Next]_vars => TypeOK'
<1> SUFFICES ASSUME TypeOK, [Next]_vars PROVE (WarnTypes /\ LampTypes /\ DtcTypes)'
  BY TypeParts DEF TypeOK, WarnTypes, LampTypes, DtcTypes
<1> QED BY TypeParts, WarnTypesNext, LampTypesNext, DtcTypesNext

\* Type correctness: whatever the distances, periods and counts, the levels
\* stay levels and the timers and counters of BodyControl.c keep their limits.
THEOREM TypeCorrect == Spec => []TypeOK
BY TypeInit, TypeNext, PTL DEF Spec

\* The warning never leaves a level and comes back to it on a jitter of less
\* than twice the hysteresis, whatever distances the sensor can return
\* (BodyControl_ComputeCollisionWarningLevel).
THEOREM NoLevelChatters == Spec => []NoChatter
<1>1. TypeOK => NoChatter
  <2> SUFFICES ASSUME TypeOK, NEW near \in Distances, NEW far \in Distances,
                      LevelAt(level, near) # level,
                      LevelAt(LevelAt(level, near), far) = level
               PROVE  far >= near + 2 * Hysteresis \/ near >= far + 2 * Hysteresis
    BY DEF NoChatter
  <2> DEFINE next == LevelAt(level, near)
  <2>1. level \in 0..3 /\ near \in Int /\ far \in Int
    BY DistancesAssumption DEF TypeOK
  <2>2. /\ next \in 0..3
        /\ next > level => near <= Stage[next] - Hysteresis
        /\ next < level => near >= Stage[next + 1] + Hysteresis
    BY <2>1, LevelChange
  <2>3. /\ level > next => far <= Stage[level] - Hysteresis
        /\ level < next => far >= Stage[level + 1] + Hysteresis
    BY <2>1, <2>2, LevelChange
  <2> HIDE DEF next
  <2>4. CASE next > level
    <3>1. Stage[next] <= Stage[level + 1] /\ Stage[next] \in Int /\ Stage[level + 1] \in Int
      BY <2>1, <2>2, <2>4, Stages
    <3> QED BY <2>1, <2>2, <2>3, <2>4, <3>1 DEF Hysteresis
  <2>5. CASE next < level
    <3>1. Stage[level] <= Stage[next + 1] /\ Stage[level] \in Int /\ Stage[next + 1] \in Int
      BY <2>1, <2>2, <2>5, Stages
    <3> QED BY <2>1, <2>2, <2>3, <2>5, <3>1 DEF Hysteresis
  <2>6. next # level
    BY DEF next
  <2> QED BY <2>1, <2>2, <2>4, <2>5, <2>6
<1> QED BY <1>1, TypeCorrect, PTL

-----------------------------------------------------------------------------
(* The danger lamp.                                                        *)

\* The lamp shows what UpdateDiagDangerLed is to show ...
LampAgrees ==
  /\ blinking => "HISTORY" \in dtc /\ led = blinkOn
  /\ ~blinking => led = SteadyOn(lampFault, dtc)

\* ... and what it shows is latched.
PresentIsLatched == "CURRENT" \in dtc => sonarFault

LampInv == LampTypes /\ LampAgrees /\ PresentIsLatched

LEMMA LampAgreesNext == LampTypes /\ LampAgrees /\ [Next]_vars => LampAgrees'
<1> SUFFICES ASSUME LampTypes, LampAgrees, [Next]_vars PROVE LampAgrees'
  OBVIOUS
<1> USE DEF LampTypes, LampAgrees, SteadyOn, UpdateDiagDangerLed
<1>1. CASE UNCHANGED <<lampFault, dtc, blinking, blinkOn, led>>
  BY <1>1
<1>2. CASE /\ UNCHANGED <<lampFault, dtc, blinkVars>>
           /\ UpdateDiagDangerLed(blinking, lampFault, dtc)
  BY <1>2 DEF blinkVars
<1>3. CASE ClearDtcHistory
  BY <1>3 DEF ClearDtcHistory
<1>4. CASE CheckFails
  <2>1. CASE "HISTORY" \in dtc' \ dtc /\ StartBlink /\ led' = TRUE
    BY <2>1 DEF StartBlink
  <2>2. CASE UNCHANGED blinkVars /\ UpdateDiagDangerLed(blinking, lampFault, dtc')
    <3>1. dtc \subseteq dtc' /\ UNCHANGED lampFault
      BY <1>4 DEF CheckFails
    <3> QED BY <2>2, <3>1 DEF blinkVars
  <2> QED BY <1>4, <2>1, <2>2 DEF CheckFails
<1>5. ASSUME NEW echo \in Distances, CheckPasses(echo) PROVE LampAgrees'
  BY <1>5 DEF CheckPasses, blinkVars
<1>6. CASE Toggle
  BY <1>6 DEF Toggle, ToggleDue, dtcVars
<1>7. CASE EndBlink
  BY <1>7 DEF EndBlink, ToggleDue, dtcVars
<1>8. ASSUME NEW broken \in BOOLEAN, Diagnose(broken) PROVE LampAgrees'
  BY <1>8 DEF Diagnose, dtcVars, blinkVars
<1>9. \/ NoCommand \/ EnableWarning \/ NoRequest \/ NoMeasurement \/ AwaitMeasurement
      \/ (\E echo \in Distances : HearEcho(echo)) \/ AwaitCheck \/ AwaitToggle
      \/ UNCHANGED vars
      => UNCHANGED <<lampFault, dtc, blinking, blinkOn, led>>
  BY DEF NoCommand, EnableWarning, NoRequest, NoMeasurement, AwaitMeasurement, HearEcho,
         AwaitCheck, AwaitToggle, vars, dtcVars, blinkVars
<1>10. DisableWarning \/ MissEcho \/ (\E echo \in Echoes : RunRoutine(echo)) =>
         /\ UNCHANGED <<lampFault, dtc, blinkVars>>
         /\ UNCHANGED led \/ UpdateDiagDangerLed(blinking, lampFault, dtc)
  BY DEF DisableWarning, MissEcho, RunRoutine, dtcVars
<1>11. CASE UNCHANGED <<lampFault, dtc, blinkVars, led>>
  BY <1>11 DEF blinkVars
<1> QED BY <1>1, <1>2, <1>3, <1>4, <1>5, <1>6, <1>7, <1>8, <1>9, <1>10, <1>11
        DEF Next, FromBodyCan, Update1ms

LEMMA LatchedNext == PresentIsLatched /\ [Next]_vars => PresentIsLatched'
<1> SUFFICES ASSUME PresentIsLatched, [Next]_vars PROVE PresentIsLatched'
  OBVIOUS
<1> USE DEF PresentIsLatched, sonarVars, dtcVars
<1>1. CASE NoCommand \/ EnableWarning \/ DisableWarning \/ NoRequest
  BY <1>1 DEF NoCommand, EnableWarning, DisableWarning, NoRequest
<1>2. CASE ClearDtcHistory
  BY <1>2 DEF ClearDtcHistory
<1>3. ASSUME NEW echo \in Echoes, RunRoutine(echo) PROVE PresentIsLatched'
  BY <1>3 DEF RunRoutine, Routine
<1>4. CASE NoMeasurement \/ AwaitMeasurement \/ MissEcho \/ \E echo \in Distances : HearEcho(echo)
  BY <1>4 DEF NoMeasurement, AwaitMeasurement, MissEcho, HearEcho
<1>5. CASE AwaitCheck \/ CheckFails
  BY <1>5 DEF AwaitCheck, CheckFails
<1>6. ASSUME NEW echo \in Distances, CheckPasses(echo) PROVE PresentIsLatched'
  BY <1>6 DEF CheckPasses
<1>7. CASE AwaitToggle \/ Toggle \/ EndBlink
  BY <1>7 DEF AwaitToggle, Toggle, EndBlink
<1>8. ASSUME NEW broken \in BOOLEAN, Diagnose(broken) PROVE PresentIsLatched'
  BY <1>8 DEF Diagnose
<1>9. CASE UNCHANGED vars
  BY <1>9 DEF vars
<1> QED BY <1>1, <1>2, <1>3, <1>4, <1>5, <1>6, <1>7, <1>8, <1>9
        DEF Next, FromBodyCan, Update1ms

LEMMA LampNext == LampInv /\ [Next]_vars => LampInv'
  BY LampTypesNext, LampAgreesNext, LatchedNext DEF LampInv

\* Eight places write the danger lamp and three things want it; it blinks only
\* for a history that is there and else is lit exactly under a lamp fault or a
\* present DTC, each of which is latched in the fault mask
\* (BodyControl_UpdateDiagDangerLed).
THEOREM LampMeans == Spec => []LampMeansFault
<1>1. Init => LampInv
  BY TypeInit, TypeParts DEF Init, LampInv, LampAgrees, PresentIsLatched, SteadyOn
<1>2. LampInv => LampMeansFault
  BY DEF LampInv, LampAgrees, PresentIsLatched, LampMeansFault, SteadyOn
<1> QED BY <1>1, <1>2, LampNext, PTL DEF Spec

-----------------------------------------------------------------------------
(* The warning.                                                            *)

\* Only the enabled warning has a level or holds a distance.  The hold time
\* and the turns since the echo add up to HoldTime while the distance is held;
\* behind that a level lasts until the next measurement.
WarnInv ==
  /\ WarnTypes
  /\ level > 0 \/ holdTimer > 0 => warn
  /\ level > 0 \/ holdTimer > 0 => blind + holdTimer >= HoldTime
  /\ holdTimer > 0 => blind + holdTimer <= HoldTime
  /\ level > 0 /\ holdTimer = 0 => blind <= HoldTime + measureTimer

LEMMA MissedEcho ==
  ASSUME WarnInv, MissEcho
  PROVE  /\ holdTimer' = 0 => level' = 0
         /\ holdTimer' = 0 /\ level > 0 => blind' >= HoldTime
         /\ holdTimer' > 0 => blind' + holdTimer' = HoldTime
         /\ holdTimer' > 0 => UNCHANGED <<dist, valid>>
<1> USE PeriodsAssumption, BlindCapType DEF WarnInv, WarnTypes
<1>1. holdTimer' = 0 => level' = 0
  BY DEF MissEcho, DistanceAfterMiss, Level
<1>2. blind' <= blind + 1 /\ (blind' = blind + 1 \/ blind' = BlindCap)
  BY OneMoreType DEF MissEcho
<1>3. holdTimer' = IF holdTimer > 0 THEN holdTimer - 1 ELSE 0
  BY DEF MissEcho, Decremented
<1>4. holdTimer' > 0 => UNCHANGED <<dist, valid>>
  BY DEF MissEcho, DistanceAfterMiss
<1> QED BY <1>1, <1>2, <1>3, <1>4
LEMMA WarnNext == WarnInv /\ [Next]_vars => WarnInv'
<1> SUFFICES ASSUME WarnInv, [Next]_vars, WarnTypes' PROVE WarnInv'
  BY WarnTypesNext DEF WarnInv
<1> USE PeriodsAssumption, BlindCapType DEF WarnInv, WarnTypes
<1>1. CASE WarnAlone
  BY <1>1 DEF WarnAlone
<1>2. CASE DistanceShared
  BY <1>2 DEF DistanceShared
<1>3. CASE EnableWarning
  BY <1>3 DEF EnableWarning
<1>4. CASE DisableWarning \/ NoMeasurement
  <2>1. level' = 0 /\ holdTimer' = 0
    BY <1>4 DEF DisableWarning, NoMeasurement, ForgetDistance
  <2> QED BY <2>1
<1>5. CASE AwaitMeasurement
  <2>1. blind' <= blind + 1 /\ (blind' = blind + 1 \/ blind' = BlindCap)
    BY <1>5, OneMoreType DEF AwaitMeasurement
  <2> QED BY <1>5, <2>1 DEF AwaitMeasurement, Decremented
<1>6. ASSUME NEW echo \in Distances, HearEcho(echo) PROVE WarnInv'
  <2>1. warn'
    BY <1>6, Zenon DEF HearEcho, MeasurementDue
  <2>2. holdTimer' = HoldTime /\ blind' = 0
    BY <1>6 DEF HearEcho
  <2>3. /\ blind' + holdTimer' >= HoldTime /\ blind' + holdTimer' <= HoldTime
        /\ holdTimer' # 0
    BY <2>2
  <2> QED BY <2>1, <2>3
<1>7. CASE MissEcho
  BY <1>7, MissedEcho DEF MissEcho, MeasurementDue
<1> QED BY <1>1, <1>2, <1>3, <1>4, <1>5, <1>6, <1>7, WarnAloneSteps, DistanceSharedSteps
        DEF Next, FromBodyCan, Update1ms

LEMMA WarnInit == Init => WarnInv
<1> SUFFICES ASSUME Init PROVE WarnInv
  OBVIOUS
<1>1. WarnTypes
  BY TypeInit, TypeParts
<1>2. level = 0 /\ holdTimer = 0
  BY DEF Init
<1> QED BY <1>1, <1>2 DEF WarnInv

\* While the warning sounds, its own measurements heard an echo within the hold
\* time and one period; what the monitor and the routine hear does not prolong
\* it (BodyControl_UpdateUltrasonic1ms).
THEOREM WarningFresh == Spec => []WarningIsFresh
<1>1. WarnInv => WarningIsFresh
  BY PeriodsAssumption DEF WarnInv, WarnTypes, WarningIsFresh
<1> QED BY <1>1, WarnInit, WarnNext, PTL DEF Spec

\* Why the warning may go silent.
SilentFor ==
  level > 0 /\ level' = 0 =>
    \/ ~warn'
    \/ valid' /\ dist' >= Stage[1] + Hysteresis
    \/ blind' >= HoldTime
    \/ ~valid

LEMMA LevelLeft ==
  ASSUME NEW l \in 1..3, NEW cm \in Int, LevelAt(l, cm) = 0
  PROVE  cm >= Stage[1] + Hysteresis
<1>1. LevelAt(l, cm) < l => cm >= Stage[LevelAt(l, cm) + 1] + Hysteresis
  BY LevelChange
<1> QED BY <1>1

LEMMA SilentStep == WarnInv /\ [Next]_vars => SilentFor
<1> SUFFICES ASSUME WarnInv, [Next]_vars, WarnTypes', level > 0, level' = 0
             PROVE  SilentFor
  BY WarnTypesNext DEF WarnInv, SilentFor
<1> USE DistanceType DEF WarnInv, WarnTypes
<1>1. CASE WarnAlone \/ DistanceShared \/ EnableWarning \/ AwaitMeasurement
  <2>1. level' = level
    BY <1>1, Zenon DEF WarnAlone, DistanceShared, EnableWarning, AwaitMeasurement
  <2> QED BY <2>1
<1>2. CASE DisableWarning \/ NoMeasurement
  <2>1. ~warn'
    BY <1>2, Zenon DEF DisableWarning, NoMeasurement
  <2> QED BY <2>1 DEF SilentFor
<1>3. ASSUME NEW echo \in Distances, HearEcho(echo) PROVE SilentFor
  <2>1. LevelAt(level, echo) = 0 /\ level \in 1..3 /\ echo \in Int
    BY <1>3 DEF HearEcho, Level
  <2>2. echo >= Stage[1] + Hysteresis
    BY <2>1, LevelLeft
  <2>3. valid' /\ dist' = echo
    BY <1>3 DEF HearEcho
  <2> QED BY <2>2, <2>3 DEF SilentFor
<1>4. CASE MissEcho
  <2>1. CASE holdTimer' = 0
    BY <1>4, <2>1, MissedEcho DEF SilentFor
  <2>2. CASE holdTimer' > 0 /\ valid
    <3>1. UNCHANGED <<dist, valid>>
      BY <1>4, <2>2, MissedEcho
    <3>2. LevelAt(level, dist) = 0 /\ level \in 1..3 /\ dist \in Int
      BY <1>4, <2>2, <3>1 DEF MissEcho, Level
    <3>3. dist >= Stage[1] + Hysteresis
      BY <3>2, LevelLeft
    <3> QED BY <2>2, <3>1, <3>3 DEF SilentFor
  <2>3. CASE ~valid
    BY <2>3 DEF SilentFor
  <2> QED BY <2>1, <2>2, <2>3
<1> QED BY <1>1, <1>2, <1>3, <1>4, WarnAloneSteps, DistanceSharedSteps
        DEF Next, FromBodyCan, Update1ms

\* A missing echo does not silence the warning before the hold time is over,
\* unless the way is clear, it is disabled, or a failure of the monitor or the
\* routine has taken the distance with it (BodyControl_UpdateUltrasonic1ms).
THEOREM HeldOver == Spec => HeldOverMissingEcho
<1>1. WarnInv /\ [Next]_vars => [SilentFor]_vars
  BY SilentStep
<1> QED BY <1>1, WarnInit, WarnNext, PTL DEF Spec, HeldOverMissingEcho, SilentFor

-----------------------------------------------------------------------------
(* The DTC.                                                                *)

\* The counter of the code is the row of failures: nothing but the monitor's
\* checks and a clear sets either.
RowInv == DtcTypes /\ failCount = failed

LEMMA RowStep ==
  [Next]_vars =>
    ClearDtcHistory \/ CheckFails \/ (\E echo \in Distances : CheckPasses(echo))
    \/ UNCHANGED <<failCount, dtc, failed>>
  BY DEF Next, FromBodyCan, Update1ms, NoCommand, EnableWarning, DisableWarning, NoRequest,
     RunRoutine, NoMeasurement, AwaitMeasurement, MissEcho, AwaitCheck, HearEcho,
     AwaitToggle, Toggle, EndBlink, Diagnose, vars, dtcVars

LEMMA RowNext == RowInv /\ [Next]_vars => RowInv'
<1> SUFFICES ASSUME RowInv, [Next]_vars PROVE failCount' = failed'
  BY DtcTypesNext DEF RowInv
<1>1. CASE UNCHANGED <<failCount, failed>>
  BY <1>1 DEF RowInv
<1>2. CASE ClearDtcHistory \/ CheckFails \/ \E echo \in Distances : CheckPasses(echo)
  BY <1>2 DEF RowInv, ClearDtcHistory, CheckFails, CheckPasses
<1> QED BY <1>1, <1>2, RowStep

\* The history of the DTC is confirmed by a whole row of failed checks and by
\* nothing else (BodyControl_UpdateUltrasonicDtcStatus).
THEOREM ConfirmedByRow == Spec => ConfirmedAfterRow
<1> DEFINE Confirmed == "HISTORY" \in dtc' \ dtc => failed' = ConfirmCount
<1>1. Init => RowInv
  BY TypeInit, TypeParts DEF Init, RowInv
<1>2. RowInv /\ [Next]_vars => [Confirmed]_vars
  <2> SUFFICES ASSUME RowInv, RowInv', [Next]_vars, "HISTORY" \in dtc' \ dtc
               PROVE  failed' = ConfirmCount
    BY RowNext
  <2>1. CASE CheckFails
    <3>1. failCount' >= ConfirmCount
      BY <2>1 DEF CheckFails
    <3> QED BY <3>1, CountsAssumption DEF RowInv, DtcTypes
  <2>2. CASE ClearDtcHistory \/ \E echo \in Distances : CheckPasses(echo)
    BY <2>2 DEF ClearDtcHistory, CheckPasses
  <2> QED BY <2>1, <2>2, RowStep
<1> QED BY <1>1, <1>2, RowNext, PTL DEF Spec, ConfirmedAfterRow
=============================================================================

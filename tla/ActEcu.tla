------------------------------- MODULE ActEcu -------------------------------
(***************************************************************************)
(* The ACT ECU: the command path of ActCan together with the diagnostic    *)
(* routines of UdsDiag.c.  Both run in the main loop and both set the      *)
(* motor and the steering key: UdsDiag_Update1ms after the calls of        *)
(* ActCan_Update100us and before MotorControl_Update, so that the routine  *)
(* has the last word in every turn.  The receive interrupt fills a slot    *)
(* for one request, which the main loop copies without a lock.             *)
(*                                                                         *)
(* A request is its service (with the length in the same first bytes) and  *)
(* its argument.  The services that only answer (ReadDataByIdentifier, the *)
(* DTC services, every negative response) change nothing modelled here.    *)
(***************************************************************************)
EXTENDS ActCan

CONSTANTS
  Requests,     \* the 0x700 frames that MAIN may put on the bus
  MotorTestMs,  \* turns of the motor test (1000)
  ServoStepMs   \* turns at each position of the servo test (800)

Services  == {"SESSION", "ROUTINE", "OTHER"}
Arguments == {"DEFAULT", "EXTENDED", "MOTOR", "SERVO", "OTHER"}
Request   == [sid : Services, arg : Arguments]

ASSUME RequestsAssumption == Requests \subseteq Request

ASSUME DurationsAssumption == MotorTestMs \in Nat \ {0} /\ ServoStepMs \in Nat \ {0}

VARIABLES
  req,           \* g_reqData
  reqPending,    \* g_reqPending
  localReq,      \* localReq of UdsDiag_Update1ms
  udsPc,         \* where UdsDiag_Update1ms is
  session,       \* g_diagSession
  routine,       \* g_routineState
  routineTimer,  \* g_routineTimerMs
  routineStep,   \* g_routineStep
  savedDuty,     \* g_savedMotorDuty
  crossed        \* history: a request came in behind the first copied byte

slotVars    == <<req, reqPending>>
routineVars == <<routine, routineTimer, routineStep, savedDuty>>
udsVars     == <<slotVars, localReq, udsPc, session, routineVars, crossed>>
canVars     == <<isrVars, loopVars, histVars>>
ecuVars     == <<vars, udsVars>>

TestDuty == 30

NoRequest == [sid |-> "OTHER", arg |-> "OTHER"]

-----------------------------------------------------------------------------
\* The 0x700 branch of the interrupt, UdsDiag_OnCanRequest: the slot is
\* overwritten whether or not its request has been taken.
DiagIsr(q) ==
  /\ req' = q
  /\ reqPending' = TRUE
  /\ crossed' = (crossed \/ udsPc \in {"copyArg", "clear"})
  /\ UNCHANGED <<vars, localReq, udsPc, session, routineVars>>

-----------------------------------------------------------------------------
(***************************************************************************)
(* UdsDiag_Update1ms                                                       *)
(***************************************************************************)

At(here) == pc = "rest" /\ udsPc = here

\* if (g_reqPending == TRUE).
PollRequest ==
  /\ At("poll")
  /\ udsPc' = IF reqPending THEN "copySid" ELSE "routine"
  /\ UNCHANGED <<vars, slotVars, localReq, session, routineVars, crossed>>

\* The copy loop, in two parts.
CopyRequest ==
  /\ \/ /\ At("copySid")
        /\ localReq' = [localReq EXCEPT !.sid = req.sid]
        /\ udsPc' = "copyArg"
     \/ /\ At("copyArg")
        /\ localReq' = [localReq EXCEPT !.arg = req.arg]
        /\ udsPc' = "clear"
  /\ UNCHANGED <<vars, slotVars, session, routineVars, crossed>>

ClearPending ==
  /\ At("clear")
  /\ reqPending' = FALSE
  /\ udsPc' = "process"
  /\ UNCHANGED <<vars, req, localReq, session, routineVars, crossed>>

\* UdsDiag_HandleSessionControl: a routine that runs is not looked at.
HandleSessionControl ==
  /\ localReq.sid = "SESSION"
  /\ session' = IF localReq.arg \in {"DEFAULT", "EXTENDED"} THEN localReq.arg
                ELSE session
  /\ UNCHANGED <<motor, steeringKey, routineVars>>

\* UdsDiag_StartMotorRoutine.
StartMotorRoutine ==
  /\ routine' = "MOTOR"
  /\ savedDuty' = motor.duty
  /\ motor' = M!SetDutyPercent(motor, TestDuty)
  /\ UNCHANGED steeringKey

\* UdsDiag_StartServoRoutine.
StartServoRoutine ==
  /\ routine' = "SERVO"
  /\ steeringKey' = "LEFT"
  /\ UNCHANGED <<motor, savedDuty>>

\* Variant: the routine that runs is forgotten.
RoutineAllowedWhileBusy == session = "EXTENDED"

\* UdsDiag_HandleRoutineControl: 0x22 outside the extended session, 0x21 while
\* a routine runs.
RoutineAllowed == session = "EXTENDED" /\ routine = "NONE"

HandleRoutineControl ==
  /\ localReq.sid = "ROUTINE"
  /\ IF RoutineAllowed /\ localReq.arg \in {"MOTOR", "SERVO"}
     THEN /\ \/ localReq.arg = "MOTOR" /\ StartMotorRoutine
             \/ localReq.arg = "SERVO" /\ StartServoRoutine
          /\ routineTimer' = 0
          /\ routineStep' = 0
     ELSE UNCHANGED <<motor, steeringKey, routineVars>>
  /\ UNCHANGED session

AnswerOnly ==
  /\ localReq.sid = "OTHER"
  /\ UNCHANGED <<motor, steeringKey, session, routineVars>>

\* Variant: the slot is given free when the request has been processed.
ProcessRequestThenClear ==
  /\ At("process")
  /\ HandleSessionControl \/ HandleRoutineControl \/ AnswerOnly
  /\ localReq' = NoRequest
  /\ reqPending' = FALSE
  /\ crossed' = FALSE
  /\ udsPc' = "routine"
  /\ UNCHANGED <<canVars, cur, req>>

\* UdsDiag_ProcessRequest.
ProcessRequest ==
  /\ At("process")
  /\ HandleSessionControl \/ HandleRoutineControl \/ AnswerOnly
  /\ localReq' = NoRequest
  /\ crossed' = FALSE
  /\ udsPc' = "routine"
  /\ UNCHANGED <<canVars, cur, slotVars>>

\* Variant: the test ends without MotorControl_Stop.
UpdateMotorRoutineNoStop ==
  LET done == routineTimer + 1 >= MotorTestMs
      on   == M!Forward(M!SetDutyPercent(motor, TestDuty))
  IN  /\ routine = "MOTOR"
      /\ motor' = IF done THEN M!SetDutyPercent(on, savedDuty) ELSE on
      /\ routine' = IF done THEN "NONE" ELSE routine
      /\ routineTimer' = IF done THEN 0 ELSE routineTimer + 1
      /\ routineStep' = IF done THEN 0 ELSE routineStep
      /\ UNCHANGED <<steeringKey, savedDuty>>

\* UdsDiag_UpdateMotorRoutine1ms: neither the mode nor the override is read.
UpdateMotorRoutine ==
  LET done == routineTimer + 1 >= MotorTestMs
      on   == M!Forward(M!SetDutyPercent(motor, TestDuty))
  IN  /\ routine = "MOTOR"
      /\ motor' = IF done THEN M!SetDutyPercent(M!Brake(on), savedDuty) ELSE on
      /\ routine' = IF done THEN "NONE" ELSE routine
      /\ routineTimer' = IF done THEN 0 ELSE routineTimer + 1
      /\ routineStep' = IF done THEN 0 ELSE routineStep
      /\ UNCHANGED <<steeringKey, savedDuty>>

ServoKey(step) ==
  CASE step = 0 -> "LEFT"
    [] step = 1 -> "NULL"
    [] OTHER    -> "RIGHT"

\* Variant: an off-by-one in the comparison of the servo test.
UpdateServoRoutineTooLate ==
  LET stepOver == routineTimer + 1 > ServoStepMs
      done     == stepOver /\ routineStep + 1 >= 3
  IN  /\ routine = "SERVO"
      /\ steeringKey' = IF done THEN "NULL" ELSE ServoKey(routineStep)
      /\ routine' = IF done THEN "NONE" ELSE routine
      /\ routineTimer' = IF stepOver THEN 0 ELSE routineTimer + 1
      /\ routineStep' = IF done THEN 0
                        ELSE IF stepOver THEN routineStep + 1 ELSE routineStep
      /\ UNCHANGED <<motor, savedDuty>>

\* UdsDiag_UpdateServoRoutine1ms: left, centre, right and back to the centre.
UpdateServoRoutine ==
  LET stepOver == routineTimer + 1 >= ServoStepMs
      done     == stepOver /\ routineStep + 1 >= 3
  IN  /\ routine = "SERVO"
      /\ steeringKey' = IF done THEN "NULL" ELSE ServoKey(routineStep)
      /\ routine' = IF done THEN "NONE" ELSE routine
      /\ routineTimer' = IF stepOver THEN 0 ELSE routineTimer + 1
      /\ routineStep' = IF done THEN 0
                        ELSE IF stepOver THEN routineStep + 1 ELSE routineStep
      /\ UNCHANGED <<motor, savedDuty>>

NoRoutine ==
  /\ routine = "NONE"
  /\ UNCHANGED <<motor, steeringKey, routineVars>>

\* UdsDiag_UpdateRoutine1ms.
UpdateRoutine ==
  /\ At("routine")
  /\ UpdateMotorRoutine \/ UpdateServoRoutine \/ NoRoutine
  /\ udsPc' = "done"
  /\ UNCHANGED <<canVars, cur, slotVars, localReq, session, crossed>>

\* MotorControl_Update ends the turn.
FinishEcuTurn ==
  /\ At("done")
  /\ FinishTurn
  /\ udsPc' = "poll"
  /\ UNCHANGED <<slotVars, localReq, session, routineVars, crossed>>

-----------------------------------------------------------------------------
EcuInit ==
  /\ Init
  /\ req = NoRequest
  /\ reqPending = FALSE
  /\ localReq = NoRequest
  /\ udsPc = "poll"
  /\ session = "DEFAULT"
  /\ routine = "NONE"
  /\ routineTimer = 0
  /\ routineStep = 0
  /\ savedDuty = BaseDuty
  /\ crossed = FALSE

EcuLoop ==
  \/ Update100us /\ UNCHANGED udsVars
  \/ PollRequest \/ CopyRequest \/ ClearPending \/ ProcessRequest
  \/ UpdateRoutine \/ FinishEcuTurn

EcuNext ==
  \/ EcuLoop
  \/ \E f \in Frames : RxIsr(f) /\ UNCHANGED udsVars
  \/ \E q \in Requests : DiagIsr(q)

EcuSpec == EcuInit /\ [][EcuNext]_ecuVars /\ WF_ecuVars(EcuLoop)

-----------------------------------------------------------------------------
(***************************************************************************)
(* Properties                                                              *)
(***************************************************************************)

EcuTypeOK ==
  /\ TypeOK
  /\ req \in Request
  /\ reqPending \in BOOLEAN
  /\ localReq \in Request
  /\ udsPc \in {"poll", "copySid", "copyArg", "clear", "process", "routine", "done"}
  /\ session \in {"DEFAULT", "EXTENDED"}
  /\ routine \in {"NONE", "MOTOR", "SERVO"}
  /\ routineTimer \in 0..MotorTestMs + ServoStepMs
  /\ routineStep \in 0..2
  /\ savedDuty \in M!Duties
  /\ crossed \in BOOLEAN

\* The motor has one master: it turns because the motor test runs or because
\* the reported state asks for it, and a test that ends never hands the motor
\* back running, nor at a speed other than the one it found.
MotorHasOneMaster ==
  /\ Driving => routine = "MOTOR" \/ motor.state = Demand(cur)
  /\ routine # "MOTOR" => motor.duty = BaseDuty

\* The dead man's switch as far as the motor test leaves it in force.
EcuDeadMan ==
  Driving => age <= TimeoutTicks \/ routine = "MOTOR"

\* A tester that repeats its request cannot prolong a routine: it gets 0x21.
RoutineEnds == (routine # "NONE") ~> (routine = "NONE")

\* The turns of the main loop that the routine still takes.
TurnsLeft ==
  CASE routine = "NONE"  -> 0
    [] routine = "MOTOR" -> MotorTestMs - routineTimer
    [] routine = "SERVO" -> (3 - routineStep) * ServoStepMs - routineTimer

\* A routine takes as many turns as it is made for: each turn takes one away, and
\* nothing in between, no request, change of session or command, adds to them
\* or cuts them short.
RoutineOnSchedule ==
  [][routine # "NONE" =>
       TurnsLeft' = IF udsPc = "routine" /\ udsPc' = "done" THEN TurnsLeft - 1
                    ELSE TurnsLeft]_ecuVars

\* What becomes of a request in a slot that no lock protects: it leaves the
\* slot as a whole copy, unless the next one replaces it before.  Only a
\* request that comes in between the first copied byte and the clearing of the
\* flag is an exception: it is lost, and its argument may be taken for that of
\* the request before it.
RequestTakenWhole ==
  [][reqPending /\ ~reqPending' => crossed \/ localReq' = req]_ecuVars

\* SYS-038: when MAIN's latest command forces a stop and has been applied, the
\* motor does not turn at the end of the turn of the main loop.
OverrideStopsMotor ==
  pc = "check" /\ calls = 0 /\ Stopping(rx) /\ ~rxUpdated /\ Stopping(cur) => ~Driving
=============================================================================

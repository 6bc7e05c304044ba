------------------------------- MODULE ActCan -------------------------------
(***************************************************************************)
(* The command path of the ACT ECU (ActCan.c, called from the main loop of *)
(* Cpu0_Main.c).  Two contexts of one core share the g_rx* variables and   *)
(* the timeout counter without any lock:                                   *)
(*                                                                         *)
(*   - the CAN receive interrupt, ActCan_RxIsrHandler, which runs to       *)
(*     completion between any two instructions of the main loop: one       *)
(*     action, RxIsr;                                                      *)
(*   - the main loop, CallsPerMs calls of ActCan_Update100us followed by   *)
(*     one MotorControl_Update: one action per access of a shared variable *)
(*     (each of them is volatile, so each access of the source is one load *)
(*     or one store).  Steps that touch only the main loop's own data are  *)
(*     part of the step before them.                                       *)
(*                                                                         *)
(* The debug counters (g_rxCount, g_invalidCount, g_timeoutCount) are left *)
(* out: nothing in the program reads them.                                 *)
(***************************************************************************)
EXTENDS Naturals, Sequences

CONSTANTS
  Frames,        \* the 0x100 frames that MAIN may put on the bus
  TimeoutTicks,  \* ACT_CAN_CMD_TIMEOUT_100US_TICKS
  CallsPerMs     \* calls of ActCan_Update100us in one turn of the main loop

M == INSTANCE Motor

OnOff     == {"ON", "OFF"}
Steerings == {"NULL", "LEFT", "RIGHT"}
Gears     == {"P", "R", "N", "D"}
Modes     == {"STANDBY", "REMOTE_DRIVE", "DIAGNOSTIC"}
Overrides == {"NORMAL", "FORCE_STOP"}

\* The six bytes of a command whose values all pass validation.
Command == [accel : OnOff, steering : Steerings, brake : OnOff, gear : Gears,
            mode : Modes, override : Overrides]

\* The order in which ActCan_Update100us copies the bytes.
Fields == <<"accel", "steering", "brake", "gear", "mode", "override">>

\* What the bus may carry: "INVALID" stands for every byte that no validator
\* of ActCan.c accepts.
BusFrame == [accel : OnOff \cup {"INVALID"}, steering : Steerings \cup {"INVALID"},
             brake : OnOff \cup {"INVALID"}, gear : Gears \cup {"INVALID"},
             mode : Modes \cup {"INVALID"}, override : Overrides \cup {"INVALID"}]

ASSUME FramesAssumption == Frames \subseteq BusFrame

ASSUME TimeoutAssumption == TimeoutTicks \in Nat \ {0}

ASSUME CallsAssumption == CallsPerMs \in Nat \ {0}

VARIABLES
  rx,              \* g_rxAccelRaw .. g_rxSafetyOverrideRaw
  rxUpdated,       \* g_rxUpdated
  cmdTimeoutTick,  \* g_cmdTimeoutTick100us
  safeEntered,     \* g_safeStateEnteredByTimeout
  cur,             \* g_current*: what the status frame reports
  motor,           \* the state of Motor.c
  steeringKey,     \* the key held by Servo.c
  pc,              \* where the main loop is
  calls,           \* i of App_UpdateCanRxFor1ms
  reg,             \* the register of g_cmdTimeoutTick100us++
  idx,             \* the next field to copy
  cmd,             \* the local copy of the command
  prevRx,          \* history: the command accepted before the one in rx
  overlapped,      \* history: a command was accepted during this call
  age              \* history: calls begun since the last accepted command

isrVars  == <<rx, rxUpdated, cmdTimeoutTick, safeEntered>>
outVars  == <<cur, motor, steeringKey>>
loopVars == <<pc, calls, reg, idx, cmd>>
histVars == <<prevRx, overlapped, age>>
vars     == <<isrVars, outVars, loopVars, histVars>>

\* What ActCan_Init leaves in g_rx*: nothing that could move the vehicle.
InitCommand == [accel |-> "OFF", steering |-> "NULL", brake |-> "OFF",
                gear |-> "P", mode |-> "STANDBY", override |-> "NORMAL"]

InitCurrent == [accel |-> "OFF", brake |-> "OFF", gear |-> "P",
                mode |-> "STANDBY", override |-> "NORMAL"]

BaseDuty  == 90
InnerDuty == 30
OuterDuty == 100

-----------------------------------------------------------------------------
(***************************************************************************)
(* The interrupt                                                           *)
(***************************************************************************)

\* Variant: the validator of the last byte is forgotten.
ValidCommandButOverride(f) ==
  /\ f.accel \in OnOff
  /\ f.steering \in Steerings
  /\ f.brake \in OnOff
  /\ f.gear \in Gears
  /\ f.mode \in Modes

ValidCommand(f) ==
  /\ f.accel \in OnOff
  /\ f.steering \in Steerings
  /\ f.brake \in OnOff
  /\ f.gear \in Gears
  /\ f.mode \in Modes
  /\ f.override \in Overrides

InCall == pc \notin {"check", "rest"}

\* MAIN sends a command every 20 ms and one call of ActCan_Update100us takes
\* microseconds: no call is interrupted by two commands.
SpacedByMain == InCall => ~overlapped

\* Variant: g_rxUpdated is set only by a command that differs from the last.
RxIsrOnChange(f) ==
  /\ ValidCommand(f)
  /\ SpacedByMain
  /\ cmdTimeoutTick' = 0
  /\ safeEntered' = FALSE
  /\ rx' = f
  /\ rxUpdated' = (rxUpdated \/ f # rx)
  /\ prevRx' = rx
  /\ overlapped' = InCall
  /\ age' = 0
  /\ UNCHANGED <<outVars, loopVars>>

\* A frame that fails validation only counts up g_invalidCount: a stutter.
RxIsr(f) ==
  /\ ValidCommand(f)
  /\ SpacedByMain
  /\ cmdTimeoutTick' = 0
  /\ safeEntered' = FALSE
  /\ rx' = f
  /\ rxUpdated' = TRUE
  /\ prevRx' = rx
  /\ overlapped' = InCall
  /\ age' = 0
  /\ UNCHANGED <<outVars, loopVars>>

-----------------------------------------------------------------------------
(***************************************************************************)
(* What a command does to the outputs                                      *)
(***************************************************************************)

\* ActCan_ApplySteering: the wheel on the inside of the turn is slowed.
ApplySteering(m, steering) ==
  CASE steering = "LEFT"  -> M!SetWheelDutyPercent(m, InnerDuty, OuterDuty)
    [] steering = "RIGHT" -> M!SetWheelDutyPercent(m, OuterDuty, InnerDuty)
    [] OTHER              -> M!SetDutyPercent(m, BaseDuty)

\* Variant: the accelerator is looked at before the brake.
ApplyDriveAccelFirst(m, accel, brake, gear) ==
  CASE accel # "OFF" /\ gear = "D" -> M!Forward(m)
    [] accel # "OFF" /\ gear = "R" -> M!Reverse(m)
    [] accel = "OFF" /\ brake = "ON" -> M!Brake(m)
    [] OTHER -> M!Coast(m)

\* ActCan_ApplyDrive: the brake first, then the accelerator, then the gear.
ApplyDrive(m, accel, brake, gear) ==
  CASE brake = "ON"  -> M!Brake(m)
    [] brake # "ON" /\ accel = "OFF" -> M!Coast(m)
    [] brake # "ON" /\ accel # "OFF" /\ gear = "D" -> M!Forward(m)
    [] brake # "ON" /\ accel # "OFF" /\ gear = "R" -> M!Reverse(m)
    [] OTHER -> M!Coast(m)

\* ActCan_EnterSafeState.
EnterSafeState ==
  /\ cur' = [accel |-> "OFF", brake |-> "ON", gear |-> "P",
             mode |-> "STANDBY", override |-> "FORCE_STOP"]
  /\ motor' = M!SetDutyPercent(M!Brake(motor), BaseDuty)
  /\ steeringKey' = "NULL"

\* ActCan_EnterModeInhibitState.
EnterModeInhibitState(mode) ==
  /\ cur' = [accel |-> "OFF", brake |-> "OFF", gear |-> "P",
             mode |-> mode, override |-> "NORMAL"]
  /\ motor' = M!SetDutyPercent(M!Brake(motor), BaseDuty)
  /\ steeringKey' = "NULL"

\* The last lines of ActCan_Update100us, in REMOTE_DRIVE without an override.
ApplyCommand(c) ==
  /\ cur' = [accel |-> c.accel, brake |-> c.brake, gear |-> c.gear,
             mode |-> c.mode, override |-> c.override]
  /\ motor' = ApplyDrive(ApplySteering(motor, c.steering),
                         c.accel, c.brake, c.gear)
  /\ steeringKey' = c.steering

-----------------------------------------------------------------------------
(***************************************************************************)
(* ActCan_Update100us, one access of shared data at a time                 *)
(***************************************************************************)

EndCall ==
  /\ calls' = calls + 1
  /\ pc' = IF calls + 1 < CallsPerMs THEN "check" ELSE "rest"

\* if (g_cmdTimeoutTick100us < TIMEOUT): the first load.
CheckTick ==
  /\ pc = "check"
  /\ pc' = IF cmdTimeoutTick < TimeoutTicks THEN "load" ELSE "expired"
  /\ overlapped' = FALSE
  /\ age' = IF age > TimeoutTicks THEN age ELSE age + 1
  /\ UNCHANGED <<isrVars, outVars, calls, reg, idx, cmd, prevRx>>

\* g_cmdTimeoutTick100us++ is a load ...
LoadTick ==
  /\ pc = "load"
  /\ reg' = cmdTimeoutTick
  /\ pc' = "store"
  /\ UNCHANGED <<isrVars, outVars, calls, idx, cmd, histVars>>

\* ... and a store: a reset by the interrupt in between is overwritten.
StoreTick ==
  /\ pc = "store"
  /\ cmdTimeoutTick' = reg + 1
  /\ reg' = 0
  /\ pc' = "expired"
  /\ UNCHANGED <<rx, rxUpdated, safeEntered, outVars, calls, idx, cmd, histVars>>

\* Variant: an off-by-one in the comparison.
CheckExpiredTooLate ==
  /\ pc = "expired"
  /\ pc' = IF cmdTimeoutTick > TimeoutTicks THEN "flag" ELSE "updated"
  /\ UNCHANGED <<isrVars, outVars, calls, reg, idx, cmd, histVars>>

\* if (g_cmdTimeoutTick100us >= TIMEOUT): a second load of the counter.
CheckExpired ==
  /\ pc = "expired"
  /\ pc' = IF cmdTimeoutTick >= TimeoutTicks THEN "flag" ELSE "updated"
  /\ UNCHANGED <<isrVars, outVars, calls, reg, idx, cmd, histVars>>

\* if (g_safeStateEnteredByTimeout == FALSE).
CheckSafeEntered ==
  /\ pc = "flag"
  /\ pc' = IF safeEntered THEN "staySafe" ELSE "becomeSafe"
  /\ UNCHANGED <<isrVars, outVars, calls, reg, idx, cmd, histVars>>

\* The timeout branch returns before g_rxUpdated is looked at.
EnterSafeStateByTimeout ==
  /\ pc \in {"staySafe", "becomeSafe"}
  /\ safeEntered' = IF pc = "becomeSafe" THEN TRUE ELSE safeEntered
  /\ EnterSafeState
  /\ EndCall
  /\ UNCHANGED <<rx, rxUpdated, cmdTimeoutTick, reg, idx, cmd, histVars>>

\* if (g_rxUpdated == TRUE).
NothingReceived ==
  /\ pc = "updated"
  /\ ~rxUpdated
  /\ EndCall
  /\ UNCHANGED <<isrVars, outVars, reg, idx, cmd, histVars>>

\* Variant: the first byte is not copied.
StartCopyAtTwo ==
  /\ pc = "updated"
  /\ rxUpdated
  /\ idx' = 2
  /\ pc' = "copy"
  /\ UNCHANGED <<isrVars, outVars, calls, reg, cmd, histVars>>

StartCopy ==
  /\ pc = "updated"
  /\ rxUpdated
  /\ idx' = 1
  /\ pc' = "copy"
  /\ UNCHANGED <<isrVars, outVars, calls, reg, cmd, histVars>>

\* accelRaw = g_rxAccelRaw; ... one field after the other.
CopyField ==
  /\ pc = "copy"
  /\ cmd' = [cmd EXCEPT ![Fields[idx]] = rx[Fields[idx]]]
  /\ idx' = idx + 1
  /\ pc' = IF idx < 6 THEN "copy" ELSE "clear"
  /\ UNCHANGED <<isrVars, outVars, calls, reg, histVars>>

\* g_rxUpdated = FALSE, whether or not the command copied is still in rx.
ClearUpdated ==
  /\ pc = "clear"
  /\ rxUpdated' = FALSE
  /\ pc' = "apply"
  /\ UNCHANGED <<rx, cmdTimeoutTick, safeEntered, outVars, calls, reg, idx,
                 cmd, histVars>>

\* Variant: safety_override is not looked at.
ApplyWithoutOverride ==
  /\ pc = "apply"
  /\ \/ cmd.mode # "REMOTE_DRIVE" /\ EnterModeInhibitState(cmd.mode)
     \/ cmd.mode = "REMOTE_DRIVE" /\ ApplyCommand(cmd)
  /\ EndCall
  /\ idx' = 0
  /\ cmd' = InitCommand
  /\ UNCHANGED <<isrVars, reg, histVars>>

\* The rest of the call works on the local copy.
Apply ==
  /\ pc = "apply"
  /\ \/ /\ cmd.override = "FORCE_STOP"
        /\ EnterSafeState
     \/ /\ cmd.override # "FORCE_STOP"
        /\ cmd.mode # "REMOTE_DRIVE"
        /\ EnterModeInhibitState(cmd.mode)
     \/ /\ cmd.override # "FORCE_STOP"
        /\ cmd.mode = "REMOTE_DRIVE"
        /\ ApplyCommand(cmd)
  /\ EndCall
  /\ idx' = 0
  /\ cmd' = InitCommand
  /\ UNCHANGED <<isrVars, reg, histVars>>

\* The rest of the turn: MotorControl_Update, and Steering_Update every 20th
\* turn, which calls MotorControl_Update again while it holds the servo pulse.
FinishTurn ==
  /\ pc = "rest"
  /\ motor' = M!Update(motor)
  /\ calls' = 0
  /\ pc' = "check"
  /\ UNCHANGED <<isrVars, cur, steeringKey, reg, idx, cmd, histVars>>

-----------------------------------------------------------------------------

\* The entry of the endless loop: ActCan_Init leaves the motor coasting and
\* Steering_UpdateForMs(500) runs the PWM cycle on it.
Init ==
  /\ rx = InitCommand
  /\ rxUpdated = FALSE
  /\ cmdTimeoutTick = TimeoutTicks
  /\ safeEntered = FALSE
  /\ cur = InitCurrent
  /\ motor = M!Update(M!Coast(M!SetDutyPercent(M!InitMotor, BaseDuty)))
  /\ steeringKey = "NULL"
  /\ pc = "check"
  /\ calls = 0
  /\ reg = 0
  /\ idx = 0
  /\ cmd = InitCommand
  /\ prevRx = InitCommand
  /\ overlapped = FALSE
  /\ age = TimeoutTicks

Update100us ==
  \/ CheckTick \/ LoadTick \/ StoreTick \/ CheckExpired
  \/ CheckSafeEntered \/ EnterSafeStateByTimeout
  \/ NothingReceived \/ StartCopy \/ CopyField \/ ClearUpdated \/ Apply

MainLoop == Update100us \/ FinishTurn

Next == MainLoop \/ \E f \in Frames : RxIsr(f)

\* The loop never blocks on anything but time.  Nothing is assumed of the
\* bus: MAIN may fall silent at any moment.
Spec == Init /\ [][Next]_vars /\ WF_vars(MainLoop)

-----------------------------------------------------------------------------
(***************************************************************************)
(* Properties                                                              *)
(***************************************************************************)

PCs == {"check", "load", "store", "expired", "flag", "staySafe",
        "becomeSafe", "updated", "copy", "clear", "apply", "rest"}

\* Type invariant: an invalid byte never reaches the main loop, the counter
\* never passes the timeout and the duties stay percentages.
TypeOK ==
  /\ rx \in Command
  /\ rxUpdated \in BOOLEAN
  /\ cmdTimeoutTick \in 0..TimeoutTicks
  /\ safeEntered \in BOOLEAN
  /\ cur \in [accel : OnOff, brake : OnOff, gear : Gears, mode : Modes,
              override : Overrides]
  /\ motor \in M!MotorType
  /\ steeringKey \in Steerings
  /\ pc \in PCs
  /\ calls \in 0..CallsPerMs
  /\ reg \in 0..TimeoutTicks - 1
  /\ idx \in 0..7
  /\ cmd \in Command
  /\ prevRx \in Command
  /\ overlapped \in BOOLEAN
  /\ age \in 0..TimeoutTicks + 1

Driving == motor.state # "STOP"

\* The drive direction that a command, or the reported state, asks for.
Demand(c) ==
  IF /\ c.override = "NORMAL" /\ c.mode = "REMOTE_DRIVE"
     /\ c.brake = "OFF" /\ c.accel = "ON" /\ c.gear \in {"D", "R"}
  THEN IF c.gear = "D" THEN "FORWARD" ELSE "REVERSE"
  ELSE "STOP"

WheelDuties(key) ==
  CASE key = "LEFT"  -> <<InnerDuty, OuterDuty>>
    [] key = "RIGHT" -> <<OuterDuty, InnerDuty>>
    [] OTHER         -> <<BaseDuty, BaseDuty>>

\* What the ECU reports (mode, override, pedals, gear) is what it does, on
\* every path by which a command or a timeout changes the outputs: the motor
\* turns in the direction the reported state asks for, and only then, and the
\* wheels run at the duties of the steering key the servo holds.
OutputsAgree ==
  /\ motor.state = Demand(cur)
  /\ <<motor.left, motor.right>> = WheelDuties(steeringKey)

\* A copy overlapped by the interrupt is torn in one way only: a first part of
\* the previous command and the rest of the latest one, and a copy that no
\* command overlapped is the latest one entirely.
TornAtOnePoint ==
  pc \in {"copy", "clear", "apply"} =>
    \E cut \in 0..idx - 1 :
      /\ ~overlapped => cut = 0
      /\ \A i \in 1..cut : cmd[Fields[i]] = prevRx[Fields[i]]
      /\ \A i \in cut + 1..idx - 1 : cmd[Fields[i]] = rx[Fields[i]]

Stopping(c) == c.override = "FORCE_STOP"

\* A command that arrives during the copy is lost when g_rxUpdated is cleared,
\* but never two in a row: once two commands in succession ask for a forced
\* stop, one of them is pending, or being applied, or the motor has stopped.
ForceStopNotLostTwice ==
  Stopping(prevRx) /\ Stopping(rx) =>
    rxUpdated \/ ~Driving \/ (pc = "apply" /\ Stopping(cmd))

\* ... and so a forced stop that MAIN keeps sending does stop the motor.
ForceStopHonoured ==
  (Stopping(prevRx) /\ Stopping(rx)) ~> (~Driving \/ ~Stopping(rx))

\* The controller keeps the promise of a dead man's switch: the motor turns
\* for at most TimeoutTicks calls without a valid command, starts only on a
\* command younger than that, and stops for good when MAIN falls silent.
DM == INSTANCE DeadMan WITH Limit <- TimeoutTicks, driving <- Driving

IsDeadMan == DM!Spec

\* SYS-008: the motor starts in a direction only when some command received
\* (the latest or the one before) asked for that direction.
DriveWasCommanded ==
  [][motor'.state # motor.state /\ Driving'
     => motor'.state \in {Demand(rx), Demand(prevRx)}]_vars
=============================================================================

----------------------------- MODULE Act_proofs -----------------------------
(***************************************************************************)
(* Proofs about the ACT ECU, for every set of frames and requests, every   *)
(* timeout, number of calls in a turn and duration of the routines.  The   *)
(* first part is about the command path alone (ActCan).  In the second,    *)
(* about the whole main loop (ActEcu), a step is one of the command path,  *)
(* for which the lemmas of the first part hold, or one of the two in which *)
(* the diagnosis takes hold of the motor and the servo.                    *)
(***************************************************************************)
EXTENDS ActEcu, TLAPS

-----------------------------------------------------------------------------
(* The command path.                                                       *)

\* What the position of the main loop says about its own data.
Flow ==
  /\ pc = "load" => cmdTimeoutTick < TimeoutTicks
  /\ pc # "rest" => calls < CallsPerMs
  /\ pc = "copy" => idx \in 1..6
  /\ pc \in {"clear", "apply"} => idx = 7

TypeInv == TypeOK /\ Flow

\* A frame that passes the validators is a command.
LEMMA ValidFrame ==
  ASSUME NEW f \in Frames, ValidCommand(f)
  PROVE  f \in Command
  BY FramesAssumption DEF ValidCommand, BusFrame, Command

LEMMA InitCommandType == InitCommand \in Command
  BY DEF InitCommand, Command, OnOff, Steerings, Gears, Modes, Overrides

\* Copying one field keeps the local copy a command.
LEMMA CopyType ==
  ASSUME NEW c \in Command, NEW r \in Command, NEW i \in 1..6
  PROVE  [c EXCEPT ![Fields[i]] = r[Fields[i]]] \in Command
<1> DEFINE x == [c EXCEPT ![Fields[i]] = r[Fields[i]]]
<1>1. CASE i = 1
  BY <1>1 DEF Fields, Command
<1>2. CASE i = 2
  BY <1>2 DEF Fields, Command
<1>3. CASE i = 3
  BY <1>3 DEF Fields, Command
<1>4. CASE i = 4
  BY <1>4 DEF Fields, Command
<1>5. CASE i = 5
  BY <1>5 DEF Fields, Command
<1>6. CASE i = 6
  BY <1>6 DEF Fields, Command
<1> QED BY <1>1, <1>2, <1>3, <1>4, <1>5, <1>6

\* The motor operators keep the motor a motor.
LEMMA MotorTypes ==
  ASSUME NEW m \in M!MotorType
  PROVE  /\ M!Forward(m) \in M!MotorType
         /\ M!Reverse(m) \in M!MotorType
         /\ M!Brake(m) \in M!MotorType
         /\ M!Coast(m) \in M!MotorType
         /\ M!Update(m) \in M!MotorType
         /\ \A d \in Nat : M!SetDutyPercent(m, d) \in M!MotorType
         /\ \A l, r \in Nat : M!SetWheelDutyPercent(m, l, r) \in M!MotorType
<1> USE DEF M!MotorType, M!MotorStates, M!Duties
<1>1. /\ M!Forward(m) \in M!MotorType
      /\ M!Reverse(m) \in M!MotorType
  BY DEF M!Forward, M!Reverse
<1>2. /\ M!Brake(m) \in M!MotorType
      /\ M!Coast(m) \in M!MotorType
      /\ M!Update(m) \in M!MotorType
  BY DEF M!Brake, M!Coast, M!Update
<1>3. ASSUME NEW d \in Nat
      PROVE  M!SetDutyPercent(m, d) \in M!MotorType
  <2>1. M!LimitDutyPercent(d) \in 0..100
    BY DEF M!LimitDutyPercent
  <2> QED BY <2>1 DEF M!SetDutyPercent
<1>4. ASSUME NEW l \in Nat, NEW r \in Nat
      PROVE  M!SetWheelDutyPercent(m, l, r) \in M!MotorType
  <2>1. M!LimitDutyPercent(l) \in 0..100 /\ M!LimitDutyPercent(r) \in 0..100
    BY DEF M!LimitDutyPercent
  <2> QED BY <2>1 DEF M!SetWheelDutyPercent
<1> QED BY <1>1, <1>2, <1>3, <1>4

\* The three ways a command or a timeout sets the outputs are well typed.
CurrentType == [accel : OnOff, brake : OnOff, gear : Gears, mode : Modes,
                override : Overrides]

LEMMA DutyBounds == /\ BaseDuty \in Nat /\ InnerDuty \in Nat /\ OuterDuty \in Nat
  BY DEF BaseDuty, InnerDuty, OuterDuty

LEMMA SafeStateType ==
  ASSUME motor \in M!MotorType, EnterSafeState
  PROVE  cur' \in CurrentType /\ motor' \in M!MotorType /\ steeringKey' \in Steerings
<1>1. motor' \in M!MotorType
  BY MotorTypes, DutyBounds DEF EnterSafeState
<1>2. cur' \in CurrentType /\ steeringKey' \in Steerings
  BY DEF EnterSafeState, CurrentType, OnOff, Gears, Modes, Overrides, Steerings
<1> QED BY <1>1, <1>2

LEMMA ModeInhibitType ==
  ASSUME motor \in M!MotorType, NEW mode \in Modes, EnterModeInhibitState(mode)
  PROVE  cur' \in CurrentType /\ motor' \in M!MotorType /\ steeringKey' \in Steerings
<1>1. motor' \in M!MotorType
  BY MotorTypes, DutyBounds DEF EnterModeInhibitState
<1>2. cur' \in CurrentType /\ steeringKey' \in Steerings
  BY DEF EnterModeInhibitState, CurrentType, OnOff, Gears, Modes, Overrides, Steerings
<1> QED BY <1>1, <1>2

LEMMA ApplyCommandType ==
  ASSUME motor \in M!MotorType, NEW c \in Command, ApplyCommand(c)
  PROVE  cur' \in CurrentType /\ motor' \in M!MotorType /\ steeringKey' \in Steerings
<1> DEFINE steered == ApplySteering(motor, c.steering)
<1>1. steered \in M!MotorType
  BY MotorTypes, DutyBounds DEF ApplySteering
<1>2. ApplyDrive(steered, c.accel, c.brake, c.gear) \in M!MotorType
  <2> HIDE DEF steered
  <2> QED BY <1>1, MotorTypes DEF ApplyDrive
<1>3. motor' \in M!MotorType
  BY <1>2 DEF ApplyCommand
<1>4. cur' \in CurrentType /\ steeringKey' \in Steerings
  BY DEF ApplyCommand, CurrentType, Command
<1> QED BY <1>3, <1>4

LEMMA EndCallType ==
  ASSUME calls \in Nat, calls < CallsPerMs, EndCall
  PROVE  /\ calls' \in 0..CallsPerMs
         /\ pc' \in {"check", "rest"}
         /\ pc' # "rest" => calls' < CallsPerMs
  BY CallsAssumption DEF EndCall

-----------------------------------------------------------------------------
LEMMA TypeInit == Init => TypeInv
<1> SUFFICES ASSUME Init PROVE TypeInv
  OBVIOUS
<1>1. motor \in M!MotorType
  <2>1. M!InitMotor \in M!MotorType
    BY DEF M!InitMotor, M!MotorType, M!MotorStates, M!Duties
  <2>2. M!SetDutyPercent(M!InitMotor, BaseDuty) \in M!MotorType
    BY <2>1, MotorTypes, DutyBounds
  <2> QED BY <2>2, MotorTypes DEF Init
<1>2. cur \in CurrentType
  BY DEF Init, InitCurrent, CurrentType, OnOff, Gears, Modes, Overrides
<1>3. TypeOK
  <2>1. /\ cmdTimeoutTick \in 0..TimeoutTicks
        /\ calls \in 0..CallsPerMs
        /\ reg \in 0..TimeoutTicks - 1
        /\ idx \in 0..7
        /\ age \in 0..TimeoutTicks + 1
    BY TimeoutAssumption, CallsAssumption DEF Init
  <2>2. /\ rx \in Command /\ cmd \in Command /\ prevRx \in Command
        /\ rxUpdated \in BOOLEAN /\ safeEntered \in BOOLEAN /\ overlapped \in BOOLEAN
        /\ steeringKey \in Steerings /\ pc \in PCs
    BY InitCommandType DEF Init, Steerings, PCs
  <2> QED BY <1>1, <1>2, <2>1, <2>2 DEF TypeOK, CurrentType
<1>4. Flow
  BY CallsAssumption DEF Init, Flow
<1> QED BY <1>3, <1>4 DEF TypeInv

LEMMA TypeNext == TypeInv /\ [Next]_vars => TypeInv'
<1> SUFFICES ASSUME TypeInv, [Next]_vars PROVE TypeInv'
  OBVIOUS
<1> USE TimeoutAssumption, CallsAssumption DEF TypeInv, TypeOK, Flow, PCs
<1> USE DEF vars, isrVars, outVars, loopVars, histVars
<1>1. ASSUME NEW f \in Frames, RxIsr(f) PROVE TypeInv'
  <2>1. overlapped' \in BOOLEAN
    BY <1>1, Zenon DEF RxIsr, InCall
  <2>2. rx' \in Command
    BY <1>1, ValidFrame DEF RxIsr
  <2>3. UNCHANGED <<outVars, loopVars>> /\ prevRx' = rx
    BY <1>1, Zenon DEF RxIsr
  <2>4. /\ cmdTimeoutTick' = 0 /\ age' = 0
        /\ rxUpdated' \in BOOLEAN /\ safeEntered' \in BOOLEAN
    BY <1>1, Zenon DEF RxIsr
  <2>5. TypeOK'
    BY <2>1, <2>2, <2>3, <2>4
  <2>6. Flow'
    BY <2>3, <2>4
  <2> QED BY <2>5, <2>6
<1>2. CASE CheckTick
  <2>1. age' \in 0..TimeoutTicks + 1
    BY <1>2 DEF CheckTick
  <2> QED BY <1>2, <2>1 DEF CheckTick
<1>3. CASE LoadTick
  BY <1>3 DEF LoadTick
<1>4. CASE StoreTick
  BY <1>4 DEF StoreTick
<1>5. CASE CheckExpired
  BY <1>5 DEF CheckExpired
<1>6. CASE CheckSafeEntered
  BY <1>6 DEF CheckSafeEntered
<1>7. CASE EnterSafeStateByTimeout
  <2>1. cur' \in CurrentType /\ motor' \in M!MotorType /\ steeringKey' \in Steerings
    BY <1>7, SafeStateType DEF EnterSafeStateByTimeout
  <2>2. calls' \in 0..CallsPerMs /\ pc' \in {"check", "rest"}
        /\ (pc' # "rest" => calls' < CallsPerMs)
    <3>1. EndCall /\ pc \in {"staySafe", "becomeSafe"}
      BY <1>7, Zenon DEF EnterSafeStateByTimeout
    <3> QED BY <3>1, EndCallType
  <2>3. safeEntered' \in BOOLEAN
    BY <1>7 DEF EnterSafeStateByTimeout
  <2> QED BY <1>7, <2>1, <2>2, <2>3 DEF EnterSafeStateByTimeout, CurrentType
<1>8. CASE NothingReceived
  BY <1>8 DEF NothingReceived, EndCall
<1>9. CASE StartCopy
  BY <1>9 DEF StartCopy
<1>10. CASE CopyField
  <2>1. cmd' \in Command
    BY <1>10, CopyType DEF CopyField
  <2> QED BY <1>10, <2>1 DEF CopyField
<1>11. CASE ClearUpdated
  BY <1>11 DEF ClearUpdated
<1>12. CASE Apply
  <2>1. cur' \in CurrentType /\ motor' \in M!MotorType /\ steeringKey' \in Steerings
    BY <1>12, SafeStateType, ModeInhibitType, ApplyCommandType
    DEF Apply, Command
  <2> QED BY <1>12, <2>1, InitCommandType DEF Apply, EndCall, CurrentType
<1>13. CASE FinishTurn
  BY <1>13, MotorTypes DEF FinishTurn
<1>14. CASE UNCHANGED vars
  BY <1>14
<1> QED
  BY <1>1, <1>2, <1>3, <1>4, <1>5, <1>6, <1>7, <1>8, <1>9, <1>10, <1>11,
     <1>12, <1>13, <1>14
  DEF Next, MainLoop, Update100us

\* Type correctness: no invalid byte reaches the main loop and the counter of
\* g_cmdTimeoutTick100us never passes the timeout, even when the interrupt
\* resets it in the middle of the increment.
THEOREM TypeCorrect == Spec => []TypeOK
<1>1. TypeInv => TypeOK
  BY DEF TypeInv
<1> QED BY TypeInit, TypeNext, <1>1, PTL DEF Spec

-----------------------------------------------------------------------------
(***************************************************************************)
(* The outputs follow the reported state.                                  *)
(***************************************************************************)

LEMMA SafeStateAgrees ==
  ASSUME motor \in M!MotorType, EnterSafeState
  PROVE  OutputsAgree' /\ ~Driving'
<1>1. motor'.state = "STOP" /\ motor'.left = 90 /\ motor'.right = 90
  BY DEF EnterSafeState, M!Brake, M!SetDutyPercent, M!LimitDutyPercent,
     M!MotorType, BaseDuty
<1>2. cur'.override = "FORCE_STOP" /\ steeringKey' = "NULL"
  BY DEF EnterSafeState
<1> QED BY <1>1, <1>2 DEF OutputsAgree, Demand, WheelDuties, BaseDuty, Driving

LEMMA ModeInhibitAgrees ==
  ASSUME motor \in M!MotorType, NEW mode, mode # "REMOTE_DRIVE",
         EnterModeInhibitState(mode)
  PROVE  OutputsAgree' /\ ~Driving'
<1>1. motor'.state = "STOP" /\ motor'.left = 90 /\ motor'.right = 90
  BY DEF EnterModeInhibitState, M!Brake, M!SetDutyPercent, M!LimitDutyPercent,
     M!MotorType, BaseDuty
<1>2. cur'.mode # "REMOTE_DRIVE" /\ steeringKey' = "NULL"
  BY DEF EnterModeInhibitState
<1> QED BY <1>1, <1>2 DEF OutputsAgree, Demand, WheelDuties, BaseDuty, Driving

LEMMA ApplyCommandAgrees ==
  ASSUME motor \in M!MotorType, NEW c \in Command,
         c.override # "FORCE_STOP", c.mode = "REMOTE_DRIVE", ApplyCommand(c)
  PROVE  OutputsAgree'
<1> DEFINE steered == ApplySteering(motor, c.steering)
<1>1. steered \in M!MotorType
  BY MotorTypes, DutyBounds DEF ApplySteering
<1>2. <<steered.left, steered.right>> = WheelDuties(c.steering)
  BY DEF ApplySteering, WheelDuties, M!SetWheelDutyPercent, M!SetDutyPercent,
     M!LimitDutyPercent, M!MotorType, BaseDuty, InnerDuty, OuterDuty
<1>3. motor' = ApplyDrive(steered, c.accel, c.brake, c.gear)
  BY DEF ApplyCommand
<1> HIDE DEF steered
<1>4. motor'.left = steered.left /\ motor'.right = steered.right
  BY <1>1, <1>3 DEF ApplyDrive, M!Brake, M!Coast, M!Forward, M!Reverse, M!MotorType
<1>5. motor'.state = Demand(c)
  <2>1. c.override = "NORMAL" /\ c.accel \in {"ON", "OFF"} /\ c.brake \in {"ON", "OFF"}
        /\ c.gear \in {"P", "R", "N", "D"}
    BY DEF Command, Overrides, OnOff, Gears
  <2> QED BY <1>1, <1>3, <2>1
    DEF Demand, ApplyDrive, M!Brake, M!Coast, M!Forward, M!Reverse, M!MotorType
<1>6. Demand(cur') = Demand(c) /\ steeringKey' = c.steering
  BY DEF ApplyCommand, Demand
<1> QED BY <1>2, <1>4, <1>5, <1>6 DEF OutputsAgree

LEMMA UpdateAgrees ==
  ASSUME motor \in M!MotorType, motor' = M!Update(motor)
  PROVE  motor'.state = motor.state /\ motor'.left = motor.left /\ motor'.right = motor.right
  BY DEF M!Update, M!MotorType

LEMMA OutputsInit == Init => OutputsAgree
<1> SUFFICES ASSUME Init PROVE OutputsAgree
  OBVIOUS
<1>1. motor.state = "STOP" /\ motor.left = 90 /\ motor.right = 90
  BY DEF Init, M!Update, M!Coast, M!SetDutyPercent, M!LimitDutyPercent,
     M!InitMotor, BaseDuty
<1> QED BY <1>1 DEF Init, InitCurrent, OutputsAgree, Demand, WheelDuties, BaseDuty

LEMMA OutputsNext == TypeInv /\ OutputsAgree /\ [Next]_vars => OutputsAgree'
<1> SUFFICES ASSUME TypeInv, OutputsAgree, [Next]_vars PROVE OutputsAgree'
  OBVIOUS
<1>1. motor \in M!MotorType /\ cmd \in Command
  BY DEF TypeInv, TypeOK
<1>2. CASE EnterSafeStateByTimeout
  BY <1>1, <1>2, SafeStateAgrees DEF EnterSafeStateByTimeout
<1>3. CASE Apply
  BY <1>1, <1>3, SafeStateAgrees, ModeInhibitAgrees, ApplyCommandAgrees DEF Apply
<1>4. CASE FinishTurn
  <2>1. UNCHANGED <<cur, steeringKey>> /\ motor' = M!Update(motor)
    BY <1>4 DEF FinishTurn
  <2> QED BY <1>1, <2>1, UpdateAgrees DEF OutputsAgree
<1>5. CASE UNCHANGED outVars
  BY <1>5 DEF outVars, OutputsAgree
<1>6. Next \/ UNCHANGED vars => EnterSafeStateByTimeout \/ Apply \/ FinishTurn \/ UNCHANGED outVars
  BY DEF Next, MainLoop, Update100us, RxIsr, CheckTick, LoadTick, StoreTick,
     CheckExpired, CheckSafeEntered, NothingReceived, StartCopy, CopyField,
     ClearUpdated, vars
<1> QED BY <1>2, <1>3, <1>4, <1>5, <1>6

\* SYS-009, SYS-037 to SYS-039: whatever the interleaving, the motor turns only
\* while the reported state (mode, override, brake, accelerator, gear) asks for
\* it, in that direction, and at the duties of the steering key.
THEOREM OutputsCorrect == Spec => []OutputsAgree
  BY TypeInit, TypeNext, OutputsInit, OutputsNext, PTL DEF Spec

-----------------------------------------------------------------------------
(***************************************************************************)
(* Torn and lost commands.                                                 *)
(***************************************************************************)

\* The effect of copying field i on every field.
LEMMA CopyEffect ==
  ASSUME NEW c \in Command, NEW r \in Command, NEW i \in 1..6, NEW j \in 1..6
  PROVE  [c EXCEPT ![Fields[i]] = r[Fields[i]]][Fields[j]]
           = IF j = i THEN r[Fields[j]] ELSE c[Fields[j]]
<1>1. Fields[j] \in DOMAIN c
  BY DEF Fields, Command
<1>2. i # j => Fields[i] # Fields[j]
  BY DEF Fields
<1> QED BY <1>1, <1>2

LEMMA TornInit == Init => TornAtOnePoint
  BY DEF Init, TornAtOnePoint

LEMMA TornNext == TypeInv /\ TornAtOnePoint /\ [Next]_vars => TornAtOnePoint'
<1> SUFFICES ASSUME TypeInv, TornAtOnePoint, [Next]_vars,
                    pc' \in {"copy", "clear", "apply"}
             PROVE  \E cut \in 0..idx' - 1 :
                      /\ ~overlapped' => cut = 0
                      /\ \A i \in 1..cut : cmd'[Fields[i]] = prevRx'[Fields[i]]
                      /\ \A i \in cut + 1..idx' - 1 : cmd'[Fields[i]] = rx'[Fields[i]]
  BY DEF TornAtOnePoint
<1> DEFINE Tear(cut) ==
      /\ ~overlapped => cut = 0
      /\ \A i \in 1..cut : cmd[Fields[i]] = prevRx[Fields[i]]
      /\ \A i \in cut + 1..idx - 1 : cmd[Fields[i]] = rx[Fields[i]]
<1>1. ASSUME NEW f \in Frames, RxIsr(f)
      PROVE  \E cut \in 0..idx' - 1 : Tear(cut)'
  <2>1. UNCHANGED <<pc, idx, cmd>> /\ prevRx' = rx
    BY <1>1, Zenon DEF RxIsr, loopVars
  <2>2. InCall /\ overlapped' /\ ~overlapped
    BY <1>1, <2>1 DEF RxIsr, SpacedByMain, InCall
  <2>3. idx \in 1..7
    BY <2>1 DEF TypeInv, Flow
  <2>4. \A i \in 1..idx - 1 : cmd[Fields[i]] = rx[Fields[i]]
    BY <2>1, <2>2 DEF TornAtOnePoint
  <2>5. idx - 1 \in 0..idx' - 1
    BY <2>1, <2>3
  <2>6. Tear(idx - 1)'
    BY <2>1, <2>2, <2>3, <2>4
  <2> QED BY <2>1, <2>5, <2>6
<1>2. CASE StartCopy
  <2>1. 0 \in 0..idx' - 1 /\ Tear(0)'
    BY <1>2 DEF StartCopy
  <2> QED BY <2>1
<1>3. CASE CopyField
  <2>1. /\ pc = "copy" /\ idx' = idx + 1
        /\ cmd' = [cmd EXCEPT ![Fields[idx]] = rx[Fields[idx]]]
        /\ UNCHANGED <<rx, prevRx, overlapped>>
    BY <1>3 DEF CopyField, isrVars, histVars
  <2>2. idx \in 1..6 /\ cmd \in Command /\ rx \in Command
    BY <2>1 DEF TypeInv, TypeOK, Flow
  <2>3. \A j \in 1..6 : cmd'[Fields[j]] = IF j = idx THEN rx[Fields[j]] ELSE cmd[Fields[j]]
    BY <2>1, <2>2, CopyEffect
  <2>4. PICK cut \in 0..idx - 1 : Tear(cut)
    BY <2>1 DEF TornAtOnePoint
  <2>5. cut \in 0..idx' - 1 /\ Tear(cut)'
    BY <2>1, <2>2, <2>3, <2>4
  <2> QED BY <2>5
<1>4. CASE ClearUpdated \/ UNCHANGED vars
  <2>1. /\ pc \in {"copy", "clear", "apply"}
        /\ UNCHANGED <<rx, prevRx, overlapped, idx, cmd>>
    BY <1>4 DEF ClearUpdated, vars, isrVars, loopVars, histVars
  <2> QED BY <2>1 DEF TornAtOnePoint
<1>5. (\E f \in Frames : RxIsr(f)) \/ StartCopy \/ CopyField \/ ClearUpdated \/ UNCHANGED vars
  BY DEF Next, MainLoop, Update100us, CheckTick, LoadTick, StoreTick,
     CheckExpired, CheckSafeEntered, EnterSafeStateByTimeout, NothingReceived,
     Apply, FinishTurn, EndCall
<1> QED BY <1>1, <1>2, <1>3, <1>4, <1>5

\* The six bytes that ActCan_Update100us copies come from at most two commands
\* and change over at one point; without an interrupt in the copy they are the
\* latest command.
THEOREM TornCorrect == Spec => []TornAtOnePoint
  BY TypeInit, TypeNext, TornInit, TornNext, PTL DEF Spec

\* The byte that decides is the last one copied.
LEMMA CopiedOverride ==
  ASSUME TypeInv, TornAtOnePoint, pc \in {"clear", "apply"},
         Stopping(prevRx), Stopping(rx)
  PROVE  Stopping(cmd)
<1>1. idx = 7
  BY DEF TypeInv, Flow
<1>2. PICK cut \in 0..6 :
        /\ \A i \in 1..cut : cmd[Fields[i]] = prevRx[Fields[i]]
        /\ \A i \in cut + 1..6 : cmd[Fields[i]] = rx[Fields[i]]
  BY <1>1 DEF TornAtOnePoint
<1>3. cmd[Fields[6]] = prevRx[Fields[6]] \/ cmd[Fields[6]] = rx[Fields[6]]
  BY <1>2
<1>4. Fields[6] = "override"
  BY DEF Fields
<1> QED BY <1>3, <1>4 DEF Stopping

LEMMA ForceStopNext ==
  TypeInv /\ TornAtOnePoint /\ ForceStopNotLostTwice /\ [Next]_vars
    => ForceStopNotLostTwice'
<1> SUFFICES ASSUME TypeInv, TornAtOnePoint, ForceStopNotLostTwice, [Next]_vars
             PROVE  ForceStopNotLostTwice'
  OBVIOUS
<1>1. motor \in M!MotorType
  BY DEF TypeInv, TypeOK
<1>2. ASSUME NEW f \in Frames, RxIsr(f) PROVE ForceStopNotLostTwice'
  <2>1. rxUpdated' = TRUE
    BY <1>2, Zenon DEF RxIsr
  <2> QED BY <2>1 DEF ForceStopNotLostTwice
<1>3. CASE EnterSafeStateByTimeout
  BY <1>1, <1>3, SafeStateAgrees DEF EnterSafeStateByTimeout, ForceStopNotLostTwice
<1>4. CASE ClearUpdated
  <2>1. pc = "clear" /\ pc' = "apply" /\ UNCHANGED <<rx, prevRx, cmd>>
    BY <1>4 DEF ClearUpdated, histVars
  <2> QED BY <2>1, CopiedOverride DEF ForceStopNotLostTwice, Stopping
<1>5. CASE Apply
  <2>1. pc = "apply" /\ UNCHANGED <<rx, prevRx, rxUpdated>>
    BY <1>5 DEF Apply, isrVars, histVars
  <2>2. CASE Stopping(cmd)
    <3>1. EnterSafeState
      BY <1>5, <2>2 DEF Apply, Stopping
    <3> QED BY <1>1, <3>1, SafeStateAgrees DEF ForceStopNotLostTwice
  <2>3. CASE ~Stopping(cmd)
    BY <2>1, <2>3, CopiedOverride DEF ForceStopNotLostTwice, Stopping
  <2> QED BY <2>2, <2>3
<1>6. CASE FinishTurn
  <2>1. /\ pc = "rest" /\ motor' = M!Update(motor)
        /\ UNCHANGED <<rx, prevRx, rxUpdated>>
    BY <1>6 DEF FinishTurn, isrVars, histVars
  <2> QED BY <1>1, <2>1, UpdateAgrees DEF ForceStopNotLostTwice, Stopping, Driving
<1>7. CASE pc # "apply" /\ UNCHANGED <<rx, prevRx, rxUpdated, motor>>
  BY <1>7 DEF ForceStopNotLostTwice, Stopping, Driving
<1>8. CASE UNCHANGED vars
  BY <1>8 DEF vars, isrVars, outVars, loopVars, histVars, ForceStopNotLostTwice,
     Stopping, Driving
<1>9. \/ \E f \in Frames : RxIsr(f)
      \/ EnterSafeStateByTimeout \/ ClearUpdated \/ Apply \/ FinishTurn
      \/ pc # "apply" /\ UNCHANGED <<rx, prevRx, rxUpdated, motor>>
      \/ UNCHANGED vars
  BY DEF Next, MainLoop, Update100us, CheckTick, LoadTick, StoreTick,
     CheckExpired, CheckSafeEntered, NothingReceived, StartCopy, CopyField,
     isrVars, outVars, histVars
<1> QED BY <1>2, <1>3, <1>4, <1>5, <1>6, <1>7, <1>8, <1>9

\* A forced stop that MAIN repeats is never lost: clearing g_rxUpdated after the
\* copy can drop one command, but not the next one as well.
THEOREM ForceStopCorrect == Spec => []ForceStopNotLostTwice
<1>1. Init => ForceStopNotLostTwice
  BY DEF Init, ForceStopNotLostTwice, Stopping, InitCommand
<1> QED BY TypeInit, TypeNext, TornInit, TornNext, <1>1, ForceStopNext, PTL DEF Spec

-----------------------------------------------------------------------------
(***************************************************************************)
(* The dead man's switch.                                                  *)
(***************************************************************************)

\* The counter never lags behind the age of the last command: a reset that the
\* increment overwrites only makes the timeout come early.  The register plays
\* the counter's part between the load and the store.
TickCoversAge ==
  /\ pc = "load"  => age <= cmdTimeoutTick + 1
  /\ pc = "store" => age <= reg + 1
  /\ pc \notin {"load", "store"} =>
       age <= cmdTimeoutTick \/ cmdTimeoutTick = TimeoutTicks
  /\ pc \in {"updated", "copy", "clear", "apply"} => cmdTimeoutTick < TimeoutTicks

DrivesOnlyYoung ==
  Driving => /\ age <= TimeoutTicks
             /\ pc \in {"check", "rest"} => age < TimeoutTicks

DeadManInv == TypeInv /\ TickCoversAge /\ DrivesOnlyYoung

LEMMA DeadManInit == Init => DeadManInv
<1> SUFFICES ASSUME Init PROVE DeadManInv
  OBVIOUS
<1>1. TickCoversAge
  BY TimeoutAssumption DEF Init, TickCoversAge
<1>2. motor.state = "STOP"
  BY DEF Init, M!Update, M!Coast, M!SetDutyPercent, M!LimitDutyPercent,
     M!InitMotor
<1> QED BY <1>1, <1>2, TypeInit DEF DeadManInv, DrivesOnlyYoung, Driving

LEMMA TickNext == TypeInv /\ TickCoversAge /\ [Next]_vars => TickCoversAge'
<1> SUFFICES ASSUME TypeInv, TickCoversAge, [Next]_vars PROVE TickCoversAge'
  OBVIOUS
<1> USE TimeoutAssumption
<1>0. /\ cmdTimeoutTick \in 0..TimeoutTicks /\ reg \in 0..TimeoutTicks - 1
      /\ age \in 0..TimeoutTicks + 1
      /\ pc = "load" => cmdTimeoutTick < TimeoutTicks
  BY DEF TypeInv, TypeOK, Flow
<1>1. ASSUME NEW f \in Frames, RxIsr(f) PROVE TickCoversAge'
  <2>1. cmdTimeoutTick' = 0 /\ age' = 0 /\ UNCHANGED <<pc, reg>>
    BY <1>1, Zenon DEF RxIsr, loopVars
  <2> QED BY <1>0, <2>1 DEF TickCoversAge
<1>2. CASE CheckTick
  BY <1>0, <1>2 DEF CheckTick, TickCoversAge, isrVars
<1>3. CASE LoadTick
  BY <1>0, <1>3 DEF LoadTick, TickCoversAge, isrVars, histVars
<1>4. CASE StoreTick
  BY <1>0, <1>4 DEF StoreTick, TickCoversAge, histVars
<1>5. CASE CheckExpired
  BY <1>0, <1>5 DEF CheckExpired, TickCoversAge, isrVars, histVars
<1>6. CASE CheckSafeEntered
  BY <1>0, <1>6 DEF CheckSafeEntered, TickCoversAge, isrVars, histVars
<1>7. CASE EnterSafeStateByTimeout \/ NothingReceived \/ Apply
  <2>1. /\ pc \notin {"load", "store"} /\ pc' \in {"check", "rest"}
        /\ UNCHANGED <<cmdTimeoutTick, age>>
    BY <1>7 DEF EnterSafeStateByTimeout, NothingReceived, Apply, EndCall,
       isrVars, histVars
  <2> QED BY <1>0, <2>1 DEF TickCoversAge
<1>8. CASE StartCopy \/ CopyField \/ ClearUpdated \/ FinishTurn
  BY <1>0, <1>8 DEF StartCopy, CopyField, ClearUpdated, FinishTurn,
     TickCoversAge, isrVars, histVars
<1>9. CASE UNCHANGED vars
  BY <1>9 DEF vars, isrVars, loopVars, histVars, TickCoversAge
<1> QED
  BY <1>1, <1>2, <1>3, <1>4, <1>5, <1>6, <1>7, <1>8, <1>9
  DEF Next, MainLoop, Update100us

\* Each step of the command path is a step of the dead man's switch or none.
LEMMA DeadManStep ==
  DeadManInv /\ [Next]_vars => DrivesOnlyYoung' /\ [DM!Next]_(DM!vars)
<1> SUFFICES ASSUME DeadManInv, [Next]_vars
             PROVE  DrivesOnlyYoung' /\ [DM!Next]_(DM!vars)
  OBVIOUS
<1> USE TimeoutAssumption
<1>0. /\ cmdTimeoutTick \in 0..TimeoutTicks /\ age \in 0..TimeoutTicks + 1
      /\ motor \in M!MotorType
  BY DEF DeadManInv, TypeInv, TypeOK
<1> USE DEF DM!Next, DM!vars
<1>1. ASSUME NEW f \in Frames, RxIsr(f) PROVE DrivesOnlyYoung' /\ DM!Receive
  <2>1. age' = 0 /\ UNCHANGED <<pc, motor>>
    BY <1>1, Zenon DEF RxIsr, outVars, loopVars
  <2> QED BY <1>0, <2>1 DEF DrivesOnlyYoung, Driving, DM!Receive
<1>2. CASE CheckTick
  <2>1. /\ pc = "check" /\ pc' \notin {"check", "rest"} /\ UNCHANGED motor
        /\ age' = IF age > TimeoutTicks THEN age ELSE age + 1
    BY <1>2 DEF CheckTick, outVars
  <2>2. Driving => age < TimeoutTicks
    BY <2>1 DEF DeadManInv, DrivesOnlyYoung
  <2>3. DrivesOnlyYoung'
    BY <1>0, <2>1, <2>2 DEF DrivesOnlyYoung, Driving
  <2>4. CASE age > TimeoutTicks
    BY <2>1, <2>4, <2>3 DEF Driving
  <2>5. CASE ~(age > TimeoutTicks)
    BY <1>0, <2>1, <2>2, <2>3, <2>5 DEF DM!Turn, Driving
  <2> QED BY <2>4, <2>5
<1>3. CASE EnterSafeStateByTimeout
  <2>1. ~Driving' /\ UNCHANGED age
    BY <1>0, <1>3, SafeStateAgrees DEF EnterSafeStateByTimeout, histVars
  <2> QED BY <2>1 DEF DrivesOnlyYoung, DM!Stop, Driving
<1>4. CASE Apply
  <2>1. age < TimeoutTicks /\ UNCHANGED age
    BY <1>0, <1>4 DEF Apply, DeadManInv, TickCoversAge, histVars
  <2>2. DrivesOnlyYoung'
    BY <1>0, <2>1 DEF DrivesOnlyYoung
  <2>3. CASE Driving'
    BY <2>1, <2>2, <2>3 DEF DM!Start
  <2>4. CASE ~Driving'
    BY <2>1, <2>2, <2>4 DEF DM!Stop, Driving
  <2> QED BY <2>3, <2>4
<1>5. CASE NothingReceived
  <2>1. age < TimeoutTicks /\ UNCHANGED <<age, motor>>
    BY <1>0, <1>5 DEF NothingReceived, DeadManInv, TickCoversAge, histVars, outVars
  <2> QED BY <1>0, <2>1 DEF DrivesOnlyYoung, Driving
<1>6. CASE FinishTurn
  <2>1. /\ pc = "rest" /\ pc' = "check" /\ motor'.state = motor.state /\ UNCHANGED age
    BY <1>0, <1>6, UpdateAgrees DEF FinishTurn, histVars
  <2> QED BY <2>1 DEF DeadManInv, DrivesOnlyYoung, Driving
<1>7. CASE /\ pc' \notin {"check", "rest"} \/ pc' = pc
           /\ UNCHANGED <<age, motor>>
  BY <1>7 DEF DeadManInv, DrivesOnlyYoung, Driving
<1>8. \/ \E f \in Frames : RxIsr(f)
      \/ CheckTick \/ EnterSafeStateByTimeout \/ Apply \/ NothingReceived \/ FinishTurn
      \/ /\ pc' \notin {"check", "rest"} \/ pc' = pc
         /\ UNCHANGED <<age, motor>>
  BY DEF Next, MainLoop, Update100us, LoadTick, StoreTick, CheckExpired,
     CheckSafeEntered, StartCopy, CopyField, ClearUpdated, vars, outVars,
     loopVars, histVars
<1> QED BY <1>1, <1>2, <1>3, <1>4, <1>5, <1>6, <1>7, <1>8

\* SYS-037: the command path of the ACT ECU implements the dead man's switch.
\* The motor turns for at most TimeoutTicks calls of ActCan_Update100us without
\* a valid command and starts only on a younger one, at every interleaving of
\* the interrupt with the increment of the counter and the copy of the command.
THEOREM DeadManImplemented == Spec => DM!SafetySpec
<1>1. Init => DM!Init
  <2> SUFFICES ASSUME Init PROVE DM!Init
    OBVIOUS
  <2>1. motor.state = "STOP"
    BY DEF Init, M!Update, M!Coast, M!SetDutyPercent, M!LimitDutyPercent,
       M!InitMotor
  <2> QED BY <2>1 DEF Init, DM!Init, Driving
<1>2. DeadManInv /\ [Next]_vars => DeadManInv'
  BY TypeNext, TickNext, DeadManStep DEF DeadManInv
<1> QED BY DeadManInit, <1>1, <1>2, DeadManStep, PTL DEF Spec, DM!SafetySpec
-----------------------------------------------------------------------------
(* The steps of the whole main loop.                                       *)

CanStep == [Next]_vars /\ UNCHANGED <<session, routineVars>>

LEMMA StepSplits == [EcuNext]_ecuVars => CanStep \/ ProcessRequest \/ UpdateRoutine
<1> SUFFICES ASSUME [EcuNext]_ecuVars PROVE CanStep \/ ProcessRequest \/ UpdateRoutine
  OBVIOUS
<1>1. CASE Update100us /\ UNCHANGED udsVars
  BY <1>1 DEF CanStep, Next, MainLoop, udsVars
<1>2. ASSUME NEW f \in Frames, RxIsr(f) /\ UNCHANGED udsVars PROVE CanStep
  BY <1>2 DEF CanStep, Next, udsVars
<1>3. CASE PollRequest \/ CopyRequest \/ ClearPending \/ \E q \in Requests : DiagIsr(q)
  BY <1>3 DEF CanStep, PollRequest, CopyRequest, ClearPending, DiagIsr
<1>4. CASE FinishEcuTurn
  BY <1>4 DEF CanStep, FinishEcuTurn, Next, MainLoop
<1>5. CASE UNCHANGED ecuVars
  BY <1>5 DEF CanStep, ecuVars, udsVars
<1> QED BY <1>1, <1>2, <1>3, <1>4, <1>5 DEF EcuNext, EcuLoop

\* The steps of the diagnosis come when the command path is done, and leave
\* all of it alone but the motor and the servo.
LEMMA DiagStep ==
  ProcessRequest \/ UpdateRoutine =>
    pc = "rest" /\ UNCHANGED <<isrVars, loopVars, histVars, cur>>
  BY DEF ProcessRequest, UpdateRoutine, At, canVars

\* What a request does to the motor and the routine: nothing, or it starts one.
LEMMA RequestEffect ==
  ASSUME ProcessRequest
  PROVE  \/ UNCHANGED <<motor, steeringKey, routineVars>>
         \/ /\ RoutineAllowed
            /\ StartMotorRoutine \/ StartServoRoutine
            /\ routineTimer' = 0 /\ routineStep' = 0
            /\ UNCHANGED session
<1>1. CASE HandleSessionControl \/ AnswerOnly
  BY <1>1 DEF HandleSessionControl, AnswerOnly
<1>2. CASE HandleRoutineControl
  BY <1>2 DEF HandleRoutineControl
<1> QED BY <1>1, <1>2 DEF ProcessRequest

-----------------------------------------------------------------------------
(* Type correctness.                                                       *)

UdsTypes ==
  /\ req \in Request
  /\ reqPending \in BOOLEAN
  /\ localReq \in Request
  /\ udsPc \in {"poll", "copySid", "copyArg", "clear", "process", "routine", "done"}
  /\ session \in {"DEFAULT", "EXTENDED"}
  /\ crossed \in BOOLEAN

\* A routine is over before its timer passes its length.
RoutineTypes ==
  /\ routine \in {"NONE", "MOTOR", "SERVO"}
  /\ routineTimer \in 0..MotorTestMs + ServoStepMs
  /\ routine = "MOTOR" => routineTimer < MotorTestMs
  /\ routine = "SERVO" => routineTimer < ServoStepMs
  /\ routineStep \in 0..2
  /\ savedDuty \in M!Duties

EcuTypeInv == TypeInv /\ UdsTypes /\ RoutineTypes

LEMMA NoRequestType == NoRequest \in Request
  BY DEF NoRequest, Request, Services, Arguments

LEMMA EcuTypeInit == EcuInit => EcuTypeInv
<1> SUFFICES ASSUME EcuInit PROVE EcuTypeInv
  OBVIOUS
<1>1. TypeInv
  BY TypeInit DEF EcuInit
<1>2. UdsTypes
  BY NoRequestType DEF EcuInit, UdsTypes
<1>3. RoutineTypes
  BY DurationsAssumption DEF EcuInit, RoutineTypes, M!Duties, BaseDuty
<1> QED BY <1>1, <1>2, <1>3 DEF EcuTypeInv

\* The slot and the session.
LEMMA UdsTypesNext == UdsTypes /\ [EcuNext]_ecuVars => UdsTypes'
<1> SUFFICES ASSUME UdsTypes, [EcuNext]_ecuVars PROVE UdsTypes'
  OBVIOUS
<1> USE DEF UdsTypes, slotVars, routineVars
<1>1. CASE Update100us /\ UNCHANGED udsVars
  BY <1>1 DEF udsVars
<1>2. ASSUME NEW f \in Frames, RxIsr(f) /\ UNCHANGED udsVars PROVE UdsTypes'
  BY <1>2 DEF udsVars
<1>3. ASSUME NEW q \in Requests, DiagIsr(q) PROVE UdsTypes'
  BY <1>3, RequestsAssumption DEF DiagIsr
<1>4. CASE PollRequest \/ ClearPending
  BY <1>4 DEF PollRequest, ClearPending
<1>5. CASE CopyRequest
  <2>1. localReq' \in Request
    BY <1>5 DEF CopyRequest, Request
  <2> QED BY <1>5, <2>1 DEF CopyRequest
<1>6. CASE ProcessRequest
  <2>1. session' \in {"DEFAULT", "EXTENDED"}
    BY <1>6 DEF ProcessRequest, HandleSessionControl, HandleRoutineControl, AnswerOnly
  <2> QED BY <1>6, <2>1, NoRequestType DEF ProcessRequest
<1>7. CASE UpdateRoutine
  BY <1>7 DEF UpdateRoutine
<1>8. CASE FinishEcuTurn
  BY <1>8 DEF FinishEcuTurn
<1>9. CASE UNCHANGED ecuVars
  BY <1>9 DEF ecuVars, udsVars
<1> QED BY <1>1, <1>2, <1>3, <1>4, <1>5, <1>6, <1>7, <1>8, <1>9 DEF EcuNext, EcuLoop

\* The motor and the servo in the steps of the diagnosis.
LEMMA DiagOutputsType ==
  ASSUME motor \in M!MotorType, steeringKey \in Steerings, savedDuty \in M!Duties,
         ProcessRequest \/ UpdateRoutine
  PROVE  motor' \in M!MotorType /\ steeringKey' \in Steerings
<1>1. TestDuty \in Nat /\ savedDuty \in Nat
  BY DEF TestDuty, M!Duties
<1>2. CASE ProcessRequest
  BY <1>1, <1>2, RequestEffect, MotorTypes
  DEF StartMotorRoutine, StartServoRoutine, Steerings
<1>3. CASE UpdateMotorRoutine
  <2> DEFINE on == M!Forward(M!SetDutyPercent(motor, TestDuty))
  <2>1. on \in M!MotorType
    BY <1>1, MotorTypes
  <2>2. motor' = on \/ motor' = M!SetDutyPercent(M!Brake(on), savedDuty)
    BY <1>3 DEF UpdateMotorRoutine
  <2> HIDE DEF on
  <2>3. M!SetDutyPercent(M!Brake(on), savedDuty) \in M!MotorType
    BY <1>1, <2>1, MotorTypes
  <2> QED BY <1>3, <2>1, <2>2, <2>3 DEF UpdateMotorRoutine
<1>4. CASE UpdateServoRoutine \/ NoRoutine
  BY <1>4 DEF UpdateServoRoutine, NoRoutine, ServoKey, Steerings
<1> QED BY <1>2, <1>3, <1>4 DEF UpdateRoutine

LEMMA RoutineTypesNext ==
  EcuTypeInv /\ [EcuNext]_ecuVars => RoutineTypes'
<1> SUFFICES ASSUME EcuTypeInv, [EcuNext]_ecuVars PROVE RoutineTypes'
  OBVIOUS
<1> USE DurationsAssumption DEF RoutineTypes, routineVars
<1>1. RoutineTypes /\ motor.duty \in M!Duties
  BY DEF EcuTypeInv, TypeInv, TypeOK, M!MotorType
<1>2. CASE CanStep
  BY <1>1, <1>2 DEF CanStep
<1>3. CASE ProcessRequest
  BY <1>1, <1>3, RequestEffect DEF StartMotorRoutine, StartServoRoutine
<1>4. CASE UpdateRoutine
  <2>1. CASE UpdateMotorRoutine
    BY <1>1, <2>1 DEF UpdateMotorRoutine
  <2>2. CASE UpdateServoRoutine
    BY <1>1, <2>2 DEF UpdateServoRoutine
  <2>3. CASE NoRoutine
    BY <1>1, <2>3 DEF NoRoutine
  <2> QED BY <1>4, <2>1, <2>2, <2>3 DEF UpdateRoutine
<1> QED BY <1>2, <1>3, <1>4, StepSplits

LEMMA EcuTypeNext == EcuTypeInv /\ [EcuNext]_ecuVars => EcuTypeInv'
<1> SUFFICES ASSUME EcuTypeInv, [EcuNext]_ecuVars PROVE TypeInv'
  BY UdsTypesNext, RoutineTypesNext DEF EcuTypeInv
<1>1. CASE CanStep
  BY <1>1, TypeNext DEF EcuTypeInv, CanStep
<1>2. CASE ProcessRequest \/ UpdateRoutine
  <2>1. motor' \in M!MotorType /\ steeringKey' \in Steerings
    BY <1>2, DiagOutputsType DEF EcuTypeInv, TypeInv, TypeOK, RoutineTypes
  <2>2. UNCHANGED <<isrVars, loopVars, histVars, cur>>
    BY <1>2, DiagStep
  <2> QED BY <2>1, <2>2 DEF EcuTypeInv, TypeInv, TypeOK, Flow, isrVars, loopVars,
             histVars
<1> QED BY <1>1, <1>2, StepSplits

\* Every variable keeps its type; a torn request is a request, and the timer of
\* a routine keeps within its length.
THEOREM EcuTypeCorrect == EcuSpec => []EcuTypeOK
<1>1. EcuTypeInv => EcuTypeOK
  BY DEF EcuTypeInv, TypeInv, UdsTypes, RoutineTypes, EcuTypeOK
<1> QED BY <1>1, EcuTypeInit, EcuTypeNext, PTL DEF EcuSpec

-----------------------------------------------------------------------------
(* The dead man's switch.                                                  *)

\* Without the motor test the motor obeys the dead man's switch of ActCan.
EcuYoung == Driving => routine = "MOTOR" \/ DrivesOnlyYoung

EcuDeadInv == EcuTypeInv /\ TickCoversAge /\ EcuYoung

\* The test ends with a brake: the motor is not handed back running.
LEMMA MotorTestStep ==
  ASSUME motor \in M!MotorType, savedDuty \in 0..100, UpdateMotorRoutine
  PROVE  routine' = "MOTOR" \/ (~Driving' /\ motor'.duty = savedDuty)
<1> DEFINE on == M!Forward(M!SetDutyPercent(motor, TestDuty))
<1>1. CASE routineTimer + 1 >= MotorTestMs
  <2>1. on \in M!MotorType
    BY MotorTypes DEF TestDuty
  <2>2. motor' = M!SetDutyPercent(M!Brake(on), savedDuty)
    BY <1>1 DEF UpdateMotorRoutine
  <2> HIDE DEF on
  <2> QED BY <2>1, <2>2 DEF Driving, M!SetDutyPercent, M!Brake, M!LimitDutyPercent,
             M!MotorType
<1>2. CASE ~(routineTimer + 1 >= MotorTestMs)
  BY <1>2 DEF UpdateMotorRoutine
<1> QED BY <1>1, <1>2

\* Requests do not start the motor, nor do the other routines.
LEMMA RequestKeepsState ==
  ASSUME motor \in M!MotorType, ProcessRequest
  PROVE  motor'.state = motor.state
<1>1. M!SetDutyPercent(motor, TestDuty).state = motor.state
  BY DEF M!SetDutyPercent, M!MotorType
<1> QED BY <1>1, RequestEffect DEF StartMotorRoutine, StartServoRoutine

LEMMA EcuDeadInit == EcuInit => EcuDeadInv
  BY EcuTypeInit, DeadManInit DEF EcuInit, EcuDeadInv, DeadManInv, EcuYoung

LEMMA EcuDeadNext == EcuDeadInv /\ [EcuNext]_ecuVars => EcuDeadInv'
<1> SUFFICES ASSUME EcuDeadInv, [EcuNext]_ecuVars
             PROVE  TickCoversAge' /\ EcuYoung'
  BY EcuTypeNext DEF EcuDeadInv
<1>0. TypeInv /\ motor \in M!MotorType /\ savedDuty \in 0..100
  BY DEF EcuDeadInv, EcuTypeInv, TypeInv, TypeOK, RoutineTypes, M!Duties
<1>1. CASE CanStep
  <2>1. TickCoversAge'
    BY <1>0, <1>1, TickNext DEF EcuDeadInv, CanStep
  <2>2. CASE routine = "MOTOR"
    BY <1>1, <2>1, <2>2 DEF CanStep, routineVars, EcuYoung
  <2>3. CASE routine # "MOTOR"
    <3>1. DeadManInv
      BY <1>0, <2>3 DEF EcuDeadInv, EcuYoung, DeadManInv, DrivesOnlyYoung
    <3> QED BY <1>1, <2>1, <3>1, DeadManStep DEF CanStep, EcuYoung
  <2> QED BY <2>2, <2>3
<1>2. CASE ProcessRequest \/ UpdateRoutine
  <2>1. pc = "rest" /\ UNCHANGED <<isrVars, loopVars, histVars>>
    BY <1>2, DiagStep
  <2>2. TickCoversAge'
    BY <2>1 DEF EcuDeadInv, TickCoversAge, isrVars, loopVars, histVars
  <2>3. UNCHANGED <<pc, age>>
    BY <2>1 DEF loopVars, histVars
  <2>4. CASE ProcessRequest
    <3>1. motor'.state = motor.state
      BY <1>0, <2>4, RequestKeepsState
    <3>2. routine = "MOTOR" => routine' = "MOTOR"
      BY <2>4, RequestEffect DEF RoutineAllowed, routineVars
    <3> QED BY <2>2, <2>3, <3>1, <3>2 DEF EcuDeadInv, EcuYoung, DrivesOnlyYoung, Driving
  <2>5. CASE UpdateMotorRoutine
    BY <1>0, <2>2, <2>5, MotorTestStep DEF EcuYoung
  <2>6. CASE UpdateServoRoutine \/ NoRoutine
    <3>1. UNCHANGED motor /\ routine # "MOTOR"
      BY <2>6 DEF UpdateServoRoutine, NoRoutine
    <3> QED BY <2>2, <2>3, <3>1 DEF EcuDeadInv, EcuYoung, DrivesOnlyYoung, Driving
  <2> QED BY <1>2, <2>4, <2>5, <2>6 DEF UpdateRoutine
<1> QED BY <1>1, <1>2, StepSplits

\* The watchdog of the commands holds for the whole main loop of the ECU: only
\* a motor test that runs keeps the motor turning without commands
\* (UdsDiag_Update1ms has the last word in a turn).
THEOREM EcuDeadManCorrect == EcuSpec => []EcuDeadMan
<1>1. EcuDeadInv => EcuDeadMan
  BY DEF EcuDeadInv, EcuYoung, DrivesOnlyYoung, EcuDeadMan
<1> QED BY <1>1, EcuDeadInit, EcuDeadNext, PTL DEF EcuSpec

-----------------------------------------------------------------------------
(* One master of the motor.                                                *)

\* The test gives back the duty it found.
MasterInv ==
  /\ EcuTypeInv
  /\ MotorHasOneMaster
  /\ routine = "MOTOR" => savedDuty = BaseDuty

\* What the command path does to the motor.
LEMMA DutyKept ==
  ASSUME motor \in M!MotorType, motor.duty = BaseDuty
  PROVE  /\ EnterSafeState => motor'.duty = BaseDuty
         /\ \A mode : EnterModeInhibitState(mode) => motor'.duty = BaseDuty
         /\ motor' = M!Update(motor) => motor'.duty = BaseDuty
<1>1. M!Brake(motor) \in M!MotorType
  BY MotorTypes
<1>2. M!SetDutyPercent(M!Brake(motor), BaseDuty).duty = BaseDuty
  BY <1>1 DEF M!SetDutyPercent, M!LimitDutyPercent, M!MotorType, BaseDuty
<1>3. motor' = M!Update(motor) => motor'.duty = BaseDuty
  BY DEF M!Update, M!MotorType
<1> QED BY <1>2, <1>3 DEF EnterSafeState, EnterModeInhibitState

LEMMA DutyKeptByCommand ==
  ASSUME motor \in M!MotorType, motor.duty = BaseDuty, NEW c, ApplyCommand(c)
  PROVE  motor'.duty = BaseDuty
<1> DEFINE steered == ApplySteering(motor, c.steering)
<1>1. steered \in M!MotorType
  BY MotorTypes, DutyBounds DEF ApplySteering
<1>2. steered.duty = BaseDuty
  BY DEF ApplySteering, M!SetWheelDutyPercent, M!SetDutyPercent,
     M!LimitDutyPercent, M!MotorType, BaseDuty, InnerDuty, OuterDuty
<1>3. motor' = ApplyDrive(steered, c.accel, c.brake, c.gear)
  BY DEF ApplyCommand
<1> HIDE DEF steered
<1> QED BY <1>1, <1>2, <1>3 DEF ApplyDrive, M!Brake, M!Coast, M!Forward,
           M!Reverse, M!MotorType

\* On every path of the command path the motor does what is reported, or rests.
LEMMA CanKeepsMaster ==
  ASSUME TypeInv, [Next]_vars, motor.duty = BaseDuty,
         Driving => motor.state = Demand(cur)
  PROVE  motor'.duty = BaseDuty /\ (Driving' => motor'.state = Demand(cur)')
<1>1. motor \in M!MotorType /\ cmd \in Command
  BY DEF TypeInv, TypeOK
<1>2. CASE EnterSafeStateByTimeout
  BY <1>1, <1>2, SafeStateAgrees, DutyKept DEF EnterSafeStateByTimeout
<1>3. CASE Apply
  <2>1. CASE EnterSafeState
    BY <1>1, <2>1, SafeStateAgrees, DutyKept
  <2>2. CASE cmd.mode # "REMOTE_DRIVE" /\ EnterModeInhibitState(cmd.mode)
    BY <1>1, <2>2, ModeInhibitAgrees, DutyKept
  <2>3. CASE /\ cmd.override # "FORCE_STOP" /\ cmd.mode = "REMOTE_DRIVE"
             /\ ApplyCommand(cmd)
    BY <1>1, <2>3, ApplyCommandAgrees, DutyKeptByCommand DEF OutputsAgree
  <2> QED BY <1>3, <2>1, <2>2, <2>3 DEF Apply
<1>4. CASE FinishTurn
  <2>1. UNCHANGED cur /\ motor' = M!Update(motor)
    BY <1>4 DEF FinishTurn
  <2> QED BY <1>1, <2>1, UpdateAgrees, DutyKept DEF Driving
<1>5. CASE UNCHANGED outVars
  BY <1>5 DEF outVars, Driving
<1>6. EnterSafeStateByTimeout \/ Apply \/ FinishTurn \/ UNCHANGED outVars
  BY DEF Next, MainLoop, Update100us, RxIsr, CheckTick, LoadTick, StoreTick,
     CheckExpired, CheckSafeEntered, NothingReceived, StartCopy, CopyField,
     ClearUpdated, vars
<1> QED BY <1>2, <1>3, <1>4, <1>5, <1>6

LEMMA MasterInit == EcuInit => MasterInv
<1> SUFFICES ASSUME EcuInit PROVE MasterInv
  OBVIOUS
<1>1. motor.state = "STOP" /\ motor.duty = BaseDuty
  BY DEF EcuInit, Init, M!Update, M!Coast, M!SetDutyPercent,
     M!LimitDutyPercent, M!InitMotor, BaseDuty
<1> QED BY <1>1, EcuTypeInit DEF MasterInv, MotorHasOneMaster, Driving, EcuInit

LEMMA MasterNext == MasterInv /\ [EcuNext]_ecuVars => MasterInv'
<1> SUFFICES ASSUME MasterInv, [EcuNext]_ecuVars
             PROVE  MotorHasOneMaster' /\ (routine' = "MOTOR" => savedDuty' = BaseDuty)
  BY EcuTypeNext DEF MasterInv
<1>0. TypeInv /\ motor \in M!MotorType /\ savedDuty \in 0..100
  BY DEF MasterInv, EcuTypeInv, TypeInv, TypeOK, RoutineTypes, M!Duties
<1> USE DEF MasterInv, MotorHasOneMaster
<1>1. CASE CanStep
  <2>1. UNCHANGED <<routine, savedDuty>>
    BY <1>1 DEF CanStep, routineVars
  <2>2. CASE routine = "MOTOR"
    BY <2>1, <2>2
  <2>3. CASE routine # "MOTOR"
    BY <1>0, <1>1, <2>1, <2>3, CanKeepsMaster DEF CanStep
  <2> QED BY <2>2, <2>3
<1>2. CASE ProcessRequest
  <2>1. motor'.state = motor.state /\ UNCHANGED cur
    BY <1>0, <1>2, RequestKeepsState, DiagStep
  <2>2. Demand(cur)' = Demand(cur) /\ (Driving' <=> Driving)
    BY <2>1 DEF Driving
  <2>3. CASE UNCHANGED <<motor, steeringKey, routineVars>>
    BY <2>2, <2>3 DEF routineVars
  <2>4. CASE RoutineAllowed /\ StartMotorRoutine
    BY <2>4 DEF RoutineAllowed, StartMotorRoutine
  <2>5. CASE RoutineAllowed /\ StartServoRoutine
    BY <2>2, <2>5 DEF RoutineAllowed, StartServoRoutine
  <2> QED BY <1>2, <2>3, <2>4, <2>5, RequestEffect
<1>3. CASE UpdateMotorRoutine
  <2>1. routine = "MOTOR" /\ UNCHANGED savedDuty
    BY <1>3 DEF UpdateMotorRoutine
  <2> QED BY <1>0, <1>3, <2>1, MotorTestStep
<1>4. CASE UpdateRoutine /\ (UpdateServoRoutine \/ NoRoutine)
  <2>1. /\ UNCHANGED <<motor, cur, savedDuty>>
        /\ routine # "MOTOR" /\ routine' # "MOTOR"
    BY <1>4, DiagStep DEF UpdateServoRoutine, NoRoutine, routineVars
  <2> QED BY <2>1 DEF Driving
<1> QED BY <1>1, <1>2, <1>3, <1>4, StepSplits DEF UpdateRoutine

\* Two parts of the ECU drive the motor, never both: outside the motor test the
\* motor turns only as the reported state asks and at the base duty, whatever
\* requests and commands came before (UdsDiag_UpdateMotorRoutine1ms).
THEOREM OneMaster == EcuSpec => []MotorHasOneMaster
<1>1. MasterInv => MotorHasOneMaster
  BY DEF MasterInv
<1> QED BY <1>1, MasterInit, MasterNext, PTL DEF EcuSpec

-----------------------------------------------------------------------------

(* The request slot.                                                       *)

\* A copy that no request has crossed is the request in the slot, as far as it
\* has got.
SlotInv ==
  /\ udsPc = "copyArg" /\ ~crossed => localReq.sid = req.sid
  /\ udsPc = "clear" /\ ~crossed => localReq = req

LEMMA CopyStep ==
  ASSUME UdsTypes, SlotInv, CopyRequest
  PROVE  SlotInv'
<1>1. UNCHANGED <<req, crossed>>
  BY DEF CopyRequest, slotVars
<1>2. CASE udsPc = "copySid"
  <2>1. udsPc' = "copyArg" /\ localReq' = [localReq EXCEPT !.sid = req.sid]
    BY <1>2 DEF CopyRequest, At
  <2>2. localReq'.sid = req.sid
    BY <2>1 DEF UdsTypes, Request
  <2> QED BY <1>1, <2>1, <2>2 DEF SlotInv
<1>3. CASE udsPc = "copyArg"
  <2>1. udsPc' = "clear" /\ localReq' = [localReq EXCEPT !.arg = req.arg]
    BY <1>3 DEF CopyRequest, At
  <2>2. localReq.sid = req.sid => localReq' = req
    BY <2>1 DEF UdsTypes, Request
  <2> QED BY <1>1, <1>3, <2>1, <2>2 DEF SlotInv
<1> QED BY <1>2, <1>3 DEF CopyRequest, At

LEMMA SlotNext == UdsTypes /\ SlotInv /\ [EcuNext]_ecuVars => SlotInv'
<1> SUFFICES ASSUME UdsTypes, SlotInv, [EcuNext]_ecuVars PROVE SlotInv'
  OBVIOUS
<1>1. CASE CopyRequest
  BY <1>1, CopyStep
<1>2. ASSUME NEW q \in Requests, DiagIsr(q) PROVE SlotInv'
  BY <1>2 DEF DiagIsr, SlotInv
<1>3. CASE UNCHANGED udsVars
  BY <1>3 DEF udsVars, slotVars, SlotInv
<1>4. udsPc' \in {"copySid", "process", "routine", "done", "poll"}
        \/ CopyRequest \/ (\E q \in Requests : DiagIsr(q)) \/ UNCHANGED udsVars
  BY DEF EcuNext, EcuLoop, PollRequest, ClearPending, ProcessRequest, UpdateRoutine,
     FinishEcuTurn, ecuVars
<1> QED BY <1>1, <1>2, <1>3, <1>4 DEF SlotInv

\* At every interleaving of the interrupt with the copy, a request that leaves
\* the slot has been copied whole, or the next one came in while it was copied
\* (UdsDiag_OnCanRequest, UdsDiag_Update1ms).
THEOREM TakenWhole == EcuSpec => RequestTakenWhole
<1>1. EcuInit => SlotInv
  BY DEF EcuInit, SlotInv
<1>2. SlotInv /\ [EcuNext]_ecuVars
        => [reqPending /\ ~reqPending' => crossed \/ localReq' = req]_ecuVars
  <2> SUFFICES ASSUME SlotInv, [EcuNext]_ecuVars, reqPending, ~reqPending'
               PROVE  crossed \/ localReq' = req
    OBVIOUS
  <2>1. ClearPending
    BY DEF EcuNext, EcuLoop, PollRequest, CopyRequest, ProcessRequest, UpdateRoutine,
       FinishEcuTurn, DiagIsr, ecuVars, udsVars, slotVars
  <2> QED BY <2>1 DEF ClearPending, At, SlotInv
<1>3. EcuTypeInv => UdsTypes
  BY DEF EcuTypeInv
<1> QED BY <1>1, <1>2, <1>3, SlotNext, EcuTypeInit, EcuTypeNext, PTL
    DEF EcuSpec, RequestTakenWhole

-----------------------------------------------------------------------------
(* The length of a routine.                                                *)

\* What is left of a routine that runs is positive: it has not missed its end.
LEMMA TurnsLeftPositive ==
  ASSUME RoutineTypes, routine # "NONE"
  PROVE  TurnsLeft \in Nat \ {0}
<1>1. CASE routine = "MOTOR"
  BY <1>1, DurationsAssumption DEF RoutineTypes, TurnsLeft
<1>2. CASE routine = "SERVO"
  <2>1. TurnsLeft = (3 - routineStep) * ServoStepMs - routineTimer
    BY <1>2 DEF TurnsLeft
  <2>2. \/ TurnsLeft = 3 * ServoStepMs - routineTimer
        \/ TurnsLeft = 2 * ServoStepMs - routineTimer
        \/ TurnsLeft = 1 * ServoStepMs - routineTimer
    BY <2>1 DEF RoutineTypes
  <2> QED BY <1>2, <2>2, DurationsAssumption DEF RoutineTypes
<1> QED BY <1>1, <1>2 DEF RoutineTypes

\* One turn of a routine.
LEMMA RoutineTurn ==
  ASSUME RoutineTypes, routine # "NONE", UpdateRoutine
  PROVE  TurnsLeft' = TurnsLeft - 1
<1> USE DurationsAssumption DEF RoutineTypes
<1>1. CASE UpdateMotorRoutine
  <2>1. CASE routineTimer + 1 >= MotorTestMs
    BY <1>1, <2>1 DEF UpdateMotorRoutine, TurnsLeft
  <2>2. CASE ~(routineTimer + 1 >= MotorTestMs)
    BY <1>1, <2>2 DEF UpdateMotorRoutine, TurnsLeft
  <2> QED BY <2>1, <2>2
<1>2. CASE UpdateServoRoutine
  <2>1. /\ routine = "SERVO"
        /\ routineTimer \in Nat
        /\ ServoStepMs \in Nat
        /\ TurnsLeft = (3 - routineStep) * ServoStepMs - routineTimer
    BY <1>2 DEF UpdateServoRoutine, TurnsLeft
  <2>2. CASE ~(routineTimer + 1 >= ServoStepMs)
    <3>1. routine' = "SERVO" /\ routineTimer' = routineTimer + 1 /\ routineStep' = routineStep
      BY <1>2, <2>2 DEF UpdateServoRoutine
    <3>2. TurnsLeft' = (3 - routineStep) * ServoStepMs - (routineTimer + 1)
      BY <3>1 DEF TurnsLeft
    <3>3. routineStep = 0 \/ routineStep = 1 \/ routineStep = 2
      OBVIOUS
    <3> QED BY <2>1, <3>2, <3>3
  <2>3. CASE routineTimer + 1 >= ServoStepMs /\ routineStep + 1 < 3
    <3>1. /\ routine' = "SERVO" /\ routineTimer' = 0 /\ routineStep' = routineStep + 1
          /\ routineTimer = ServoStepMs - 1
      BY <1>2, <2>1, <2>3 DEF UpdateServoRoutine
    <3>2. TurnsLeft' = (3 - (routineStep + 1)) * ServoStepMs - 0
      BY <3>1 DEF TurnsLeft
    <3>3. routineStep = 0 \/ routineStep = 1
      BY <2>3
    <3> QED BY <2>1, <3>1, <3>2, <3>3
  <2>4. CASE routineTimer + 1 >= ServoStepMs /\ routineStep + 1 >= 3
    <3>1. routine' = "NONE" /\ routineStep = 2 /\ routineTimer = ServoStepMs - 1
      BY <1>2, <2>1, <2>4 DEF UpdateServoRoutine
    <3>2. TurnsLeft' = 0
      BY <3>1 DEF TurnsLeft
    <3> QED BY <2>1, <3>1, <3>2
  <2> QED BY <2>2, <2>3, <2>4
<1>3. UpdateMotorRoutine \/ UpdateServoRoutine
  BY DEF UpdateRoutine, NoRoutine
<1> QED BY <1>1, <1>2, <1>3

\* The requests and the command path leave a routine alone.
LEMMA RoutineAlone ==
  ASSUME routine # "NONE", [EcuNext]_ecuVars, ~UpdateRoutine
  PROVE  TurnsLeft' = TurnsLeft
<1>1. CASE CanStep
  BY <1>1 DEF CanStep, routineVars, TurnsLeft
<1>2. CASE ProcessRequest
  BY <1>2, RequestEffect DEF RoutineAllowed, routineVars, TurnsLeft
<1> QED BY <1>1, <1>2, StepSplits

\* Only UpdateRoutine moves the diagnosis on from there.
LEMMA TurnOfRoutine ==
  ASSUME [EcuNext]_ecuVars
  PROVE  udsPc = "routine" /\ udsPc' = "done" <=> UpdateRoutine
<1>1. UpdateRoutine => udsPc = "routine" /\ udsPc' = "done"
  BY DEF UpdateRoutine, At
<1>2. udsPc = "routine" /\ udsPc' = "done" => UpdateRoutine
  BY DEF EcuNext, EcuLoop, PollRequest, CopyRequest, ClearPending, ProcessRequest,
     FinishEcuTurn, DiagIsr, At, ecuVars, udsVars
<1> QED BY <1>1, <1>2

\* The safe half of RoutineEnds: a routine lasts the turns it is made for, one
\* less after each, and no sequence of requests, torn ones included, of session
\* changes and of commands prolongs it or cuts it short (UdsDiag_UpdateRoutine1ms).
THEOREM RoutineScheduled ==
  EcuSpec => RoutineOnSchedule /\ [](routine # "NONE" => TurnsLeft \in Nat \ {0})
<1>1. EcuTypeInv /\ [EcuNext]_ecuVars =>
        [routine # "NONE" =>
           TurnsLeft' = IF udsPc = "routine" /\ udsPc' = "done" THEN TurnsLeft - 1
                        ELSE TurnsLeft]_ecuVars
  BY RoutineTurn, RoutineAlone, TurnOfRoutine DEF EcuTypeInv
<1>2. EcuTypeInv => (routine # "NONE" => TurnsLeft \in Nat \ {0})
  BY TurnsLeftPositive DEF EcuTypeInv
<1> QED BY <1>1, <1>2, EcuTypeInit, EcuTypeNext, PTL DEF EcuSpec, RoutineOnSchedule

-----------------------------------------------------------------------------
(* Torn and lost commands, with the diagnosis in the same loop.            *)

EcuStopInv ==
  /\ EcuTypeInv
  /\ TornAtOnePoint
  /\ routine # "MOTOR" => ForceStopNotLostTwice

LEMMA EcuStopNext == EcuStopInv /\ [EcuNext]_ecuVars => EcuStopInv'
<1> SUFFICES ASSUME EcuStopInv, [EcuNext]_ecuVars
             PROVE  TornAtOnePoint' /\ (routine' # "MOTOR" => ForceStopNotLostTwice')
  BY EcuTypeNext DEF EcuStopInv
<1>0. /\ TypeInv /\ TornAtOnePoint
      /\ motor \in M!MotorType /\ savedDuty \in 0..100
  BY DEF EcuStopInv, EcuTypeInv, TypeInv, TypeOK, RoutineTypes, M!Duties
<1>1. CASE CanStep
  <2>1. TornAtOnePoint' /\ UNCHANGED routine
    BY <1>0, <1>1, TornNext DEF CanStep, routineVars
  <2>2. CASE routine # "MOTOR"
    BY <1>0, <1>1, <2>1, <2>2, ForceStopNext DEF CanStep, EcuStopInv
  <2> QED BY <2>1, <2>2
<1>2. CASE ProcessRequest \/ UpdateRoutine
  <2>1. pc = "rest" /\ UNCHANGED <<isrVars, loopVars, histVars>>
    BY <1>2, DiagStep
  <2>2. TornAtOnePoint'
    BY <2>1 DEF loopVars, TornAtOnePoint
  <2>3. motor'.state = motor.state /\ (routine' # "MOTOR" => routine # "MOTOR")
          => (routine' # "MOTOR" => ForceStopNotLostTwice')
    BY <2>1 DEF EcuStopInv, ForceStopNotLostTwice, Driving, Stopping, isrVars,
       loopVars, histVars
  <2>4. CASE ProcessRequest
    <3>1. motor'.state = motor.state
      BY <1>0, <2>4, RequestKeepsState
    <3>2. routine = "MOTOR" => routine' = "MOTOR"
      BY <2>4, RequestEffect DEF RoutineAllowed, routineVars
    <3> QED BY <2>2, <2>3, <3>1, <3>2
  <2>5. CASE UpdateMotorRoutine
    BY <1>0, <2>2, <2>5, MotorTestStep DEF ForceStopNotLostTwice
  <2>6. CASE UpdateServoRoutine \/ NoRoutine
    <3>1. UNCHANGED motor /\ routine # "MOTOR"
      BY <2>6 DEF UpdateServoRoutine, NoRoutine
    <3> QED BY <2>2, <2>3, <3>1
  <2> QED BY <1>2, <2>4, <2>5, <2>6 DEF UpdateRoutine
<1> QED BY <1>1, <1>2, StepSplits

\* In the whole main loop a copied command is torn at one point at most, and a
\* forced stop that is repeated is not lost: only a motor test that runs keeps
\* the motor turning against it, and it does not outlast the test.
THEOREM EcuForceStopCorrect ==
  EcuSpec => [](TornAtOnePoint /\ (routine # "MOTOR" => ForceStopNotLostTwice))
<1>1. EcuInit => EcuStopInv
  <2>1. Init => ForceStopNotLostTwice
    BY DEF Init, ForceStopNotLostTwice, Stopping, InitCommand
  <2> QED BY <2>1, EcuTypeInit, TornInit DEF EcuInit, EcuStopInv
<1>2. EcuStopInv => TornAtOnePoint /\ (routine # "MOTOR" => ForceStopNotLostTwice)
  BY DEF EcuStopInv
<1> QED BY <1>1, <1>2, EcuStopNext, PTL DEF EcuSpec
=============================================================================

------------------------------- MODULE Motor --------------------------------
(***************************************************************************)
(* The motor driver of the ACT ECU (Motor.c) as operators on a record.     *)
(*                                                                         *)
(*   state        g_motorState                                             *)
(*   duty         g_dutyPercent                                            *)
(*   left, right  g_leftDutyPercent, g_rightDutyPercent                    *)
(*   brake        the level of the two brake pins (TRUE = brake on)        *)
(*                                                                         *)
(* The PWM pins are low between two calls of MotorControl_Update and the   *)
(* direction pins follow the state, so neither is part of the record.      *)
(***************************************************************************)
EXTENDS Naturals

MotorStates == {"STOP", "FORWARD", "REVERSE"}

Duties == 0..100

MotorType == [state : MotorStates, duty : Duties, left : Duties,
              right : Duties, brake : BOOLEAN]

LimitDutyPercent(d) == IF d > 100 THEN 100 ELSE d

Forward(m) == [m EXCEPT !.state = "FORWARD"]

Reverse(m) == [m EXCEPT !.state = "REVERSE"]

\* MotorControl_Stop and MotorControl_Brake have the same body.
Brake(m) == [m EXCEPT !.state = "STOP", !.brake = TRUE]

Coast(m) == [m EXCEPT !.state = "STOP", !.brake = FALSE]

SetDutyPercent(m, d) ==
  LET limited == LimitDutyPercent(d)
  IN  [m EXCEPT !.duty = limited, !.left = limited, !.right = limited]

SetWheelDutyPercent(m, l, r) ==
  LET left  == LimitDutyPercent(l)
      right == LimitDutyPercent(r)
  IN  [m EXCEPT !.left = left, !.right = right,
                !.duty = IF left = right THEN left ELSE @]

\* One software PWM cycle: a stopped motor is held by the brake, so a coast
\* lasts until the next cycle at most.
Update(m) == [m EXCEPT !.brake = (m.state = "STOP")]

\* MotorControl_Init.
InitMotor == [state |-> "STOP", duty |-> 90, left |-> 90, right |-> 90,
              brake |-> TRUE]
=============================================================================

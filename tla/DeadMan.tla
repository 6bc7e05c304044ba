------------------------------ MODULE DeadMan -------------------------------
(***************************************************************************)
(* What a drive controller that obeys remote commands promises, whatever   *)
(* its implementation: it drives only while commands keep arriving.  Limit *)
(* is the number of turns of the controller that it may let pass without a *)
(* command.                                                                *)
(***************************************************************************)
EXTENDS Naturals

CONSTANT Limit  \* a positive number

VARIABLES
  driving,  \* the controller drives its actuator
  age       \* turns since the last command, counted up to Limit + 1

vars == <<driving, age>>

TypeOK == driving \in BOOLEAN /\ age \in 0..Limit + 1

Init == driving = FALSE /\ age = Limit

\* A command arrives; what it asks for is decided later.
Receive == age' = 0 /\ UNCHANGED driving

\* A turn begins; the controller may not be driving on a command that old.
Turn ==
  /\ age <= Limit
  /\ driving => age < Limit
  /\ age' = age + 1
  /\ UNCHANGED driving

Start ==
  /\ age < Limit
  /\ driving' = TRUE
  /\ UNCHANGED age

Stop ==
  /\ driving
  /\ driving' = FALSE
  /\ UNCHANGED age

Expire == age >= Limit /\ Stop

Next == Receive \/ Turn \/ Start \/ Stop

\* Nothing is promised of Receive or Start.
Spec == Init /\ [][Next]_vars /\ WF_vars(Turn) /\ WF_vars(Expire)

SafetySpec == Init /\ [][Next]_vars
=============================================================================

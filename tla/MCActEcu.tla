------------------------------ MODULE MCActEcu ------------------------------
(***************************************************************************)
(* Instance of ActEcu for TLC.                                             *)
(***************************************************************************)
EXTENDS ActEcu

MCDrive ==
  [accel |-> "ON", steering |-> "LEFT", brake |-> "OFF", gear |-> "D",
   mode |-> "REMOTE_DRIVE", override |-> "NORMAL"]

MCForceStop == [MCDrive EXCEPT !.override = "FORCE_STOP"]

MCDiagnostic == [MCDrive EXCEPT !.mode = "DIAGNOSTIC"]

MCFrames == {MCDrive, MCForceStop, MCDiagnostic}

MCRequests ==
  {[sid |-> "SESSION", arg |-> "DEFAULT"], [sid |-> "SESSION", arg |-> "EXTENDED"],
   [sid |-> "ROUTINE", arg |-> "MOTOR"], [sid |-> "ROUTINE", arg |-> "SERVO"]}
=============================================================================

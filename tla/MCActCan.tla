------------------------------ MODULE MCActCan ------------------------------
(***************************************************************************)
(* Instance of ActCan for TLC: one frame for every kind of command that    *)
(* MAIN forwards, and one that fails validation.                           *)
(***************************************************************************)
EXTENDS ActCan

Frame(accel, steering, brake, gear, mode, override) ==
  [accel |-> accel, steering |-> steering, brake |-> brake, gear |-> gear,
   mode |-> mode, override |-> override]

Drive     == Frame("ON", "LEFT", "OFF", "D", "REMOTE_DRIVE", "NORMAL")
ForceStop == Frame("ON", "LEFT", "OFF", "D", "REMOTE_DRIVE", "FORCE_STOP")
BackUp    == Frame("ON", "RIGHT", "OFF", "R", "REMOTE_DRIVE", "NORMAL")
Braking   == Frame("ON", "NULL", "ON", "R", "REMOTE_DRIVE", "NORMAL")
Ignition  == Frame("OFF", "NULL", "OFF", "P", "STANDBY", "NORMAL")
Garbled   == Frame("ON", "NULL", "OFF", "D", "REMOTE_DRIVE", "INVALID")

MCFrames == {Drive, ForceStop, BackUp, Braking, Ignition, Garbled}
=============================================================================

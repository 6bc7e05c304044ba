------------------------------ MODULE MCBodyCan -----------------------------
(***************************************************************************)
(* Instance of BodyCan for TLC: a command that lights lamps, one that ends *)
(* the remote mode while every other lamp is asked for, and one that fails *)
(* validation.                                                             *)
(***************************************************************************)
EXTENDS BodyCan

Night   == CommandOf([AllOff EXCEPT !.headlamp = "ON", !.turn = "LEFT"],
                     "REMOTE_DRIVE")
Parking == CommandOf([AllOff EXCEPT !.brake = "ON", !.warning = "ON",
                                    !.turn = "HAZARD"], "REMOTE_DRIVE")
Standby == [Parking EXCEPT !.mode = "STANDBY"]
Garbled == [Night EXCEPT !.turn = "INVALID"]

MCFrames == {Night, Standby, Garbled}
=============================================================================

----------------------------- MODULE MCMainCom ------------------------------
(***************************************************************************)
(* Instance of MainCom for TLC.  The handlers of ACT and BODY are copies   *)
(* of one another on variables of their own, so one ECU besides the PC     *)
(* shows every interplay.                                                  *)
(***************************************************************************)
EXTENDS MainCom

MCEcus == {"Act"}

MCControls == [turn : {"OFF"}, ignition : Ignitions]
=============================================================================

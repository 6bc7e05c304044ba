--------------------------- MODULE MCEventTrigger ---------------------------
(***************************************************************************)
(* Instance of EventTrigger for TLC.  The recorders share nothing but the  *)
(* handler, which opens and closes the clips of the ones that film and of  *)
(* the ones that do not; one that films at a time shows every interplay.   *)
(***************************************************************************)
EXTENDS EventTrigger

MCStarted == {{"rear"}, {"mic"}}
=============================================================================

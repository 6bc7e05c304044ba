----------------------------- MODULE MCMediaDoip ----------------------------
(***************************************************************************)
(* Instance of MediaDoip for TLC: two connections of the one tester that   *)
(* is allowed, and two components, the first of them well at the start.    *)
(***************************************************************************)
EXTENDS MediaDoip

MCBootOk == {1}
=============================================================================

--------------------------- MODULE MCDoipSession ----------------------------
(***************************************************************************)
(* Instance of DoipSession for TLC.  Three connections: one that is        *)
(* served, one that lwIP is still closing and one that is refused.         *)
(***************************************************************************)
EXTENDS DoipSession

CONSTANTS c1, c2, c3

MCConns == {c1, c2, c3}
=============================================================================

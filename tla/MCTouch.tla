------------------------------ MODULE MCTouch ------------------------------
(* Touch for TLC: the left edge and another coordinate tell a position     *)
(* that was never reported from one that was.                              *)
EXTENDS Touch

MCRaw == {0, 2050}
=============================================================================

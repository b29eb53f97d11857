----------------------------- MODULE MCHudCodes -----------------------------
(* More than a full turn on either side.                                   *)
EXTENDS HudCodes

MCAngles == -400..400
=============================================================================

------------------------------ MODULE MCCpHud ------------------------------
(* For the invariants: two list positions, a heading entry that restarts   *)
(* the window, and a head to select.  For liveness: one turn.              *)
EXTENDS CpHud

CONSTANTS m1, m2, nearby, l50

MCMan == {NoMan, m1, m2}
MCDist == {NoDist, nearby}
MCLimits == {NoLimit, l50}

Maneuver(i, m) == [kind |-> "MANEUVER", idx |-> i, man |-> m]
Guidance(h, d) == [kind |-> "GUIDANCE", head |-> h, dist |-> d]

MCReceived ==
    {Maneuver(1, m1), Maneuver(2, m2), Maneuver(1, Context),
     Guidance(1, nearby)}

OneMan == {NoMan, m1}
OneTurn == {Maneuver(1, m1), Guidance(1, NoDist)}
=============================================================================

---------------------------- MODULE MCNav16Feed ----------------------------
(* Nav16Feed for TLC: a shown value and a blank one of each part; from one *)
(* maneuver to the blank one and back is already a change of step.         *)
EXTENDS Nav16Feed

CONSTANTS none, a, d, l

MCMan == {none, a}
MCDist == {none, d}
MCLanes == {none, l}

(* Two guidances that differ in the lanes only, and one that differs in    *)
(* the maneuver.                                                           *)
MCSent == Status
    \cup {[kind |-> "NAV_STATE", man |-> m, lanes |-> n] :
              <<m, n>> \in {<<a, none>>, <<a, l>>, <<none, none>>}}
    \cup {[kind |-> "POSITION", dist |-> d]}
    \cup {[kind |-> "NEXT_TURN", man |-> a], [kind |-> "NEXT_TURN_DIST", dist |-> d]}
=============================================================================

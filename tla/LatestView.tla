----------------------------- MODULE LatestView -----------------------------
(***************************************************************************)
(* What a HUD transport promises whoever feeds it: the consumer only ever  *)
(* works from a snapshot that was published as a whole, it moves forward   *)
(* through the published snapshots, possibly skipping some, and when a     *)
(* session begins it starts over from the blank snapshot.                  *)
(***************************************************************************)
EXTENDS Naturals, Sequences

CONSTANTS Values, Blank

VARIABLES
    log,      \* the snapshots published so far
    view,     \* index of the one the consumer works from, 0 before the first
    shown     \* that snapshot

viewVars == <<log, view, shown>>

ViewInit == log = <<>> /\ view = 0 /\ shown = Blank

Publish(v) ==
    /\ log' = Append(log, v)
    /\ UNCHANGED <<view, shown>>

Advance(i) ==
    /\ i > view
    /\ view' = i
    /\ shown' = log[i]
    /\ UNCHANGED log

Restart ==
    /\ view' = 0
    /\ shown' = Blank
    /\ UNCHANGED log

ViewNext ==
    \/ \E v \in Values : Publish(v)
    \/ \E i \in 1..Len(log) : Advance(i)
    \/ Restart

ViewSpec == ViewInit /\ [][ViewNext]_viewVars
=============================================================================

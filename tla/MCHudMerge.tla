----------------------------- MODULE MCHudMerge -----------------------------
(* HudMerge for TLC: two maneuvers tell the latest from the first, and     *)
(* model values stand for blocks, speeds and streets.                      *)
EXTENDS HudMerge

CONSTANTS empty, left, right, none, fifty, blank, main

MCBlocks == {empty, left, right}
MCEmptyBlocks == {empty}
MCSpeeds == {none, fifty}
MCStreets == {blank, main}
=============================================================================

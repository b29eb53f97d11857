------------------------------ MODULE HudCodes ------------------------------
(***************************************************************************)
(* What the HUD is told to draw for a lane and for a turn.                 *)
(*   - A lane arrives as repeated directions (hud_nav16.cpp), becomes an   *)
(*     OEM lane code and then a cluster glyph (hud_lane.h).                *)
(*   - A turn arrives in protocol 1.5 (hud_nav.h), in protocol 1.6         *)
(*     (hud_nav16.cpp) or from CarPlay (nav.cpp, hud_send.cpp) and becomes *)
(*     a glyph of the same atlas.                                          *)
(* These are pure functions: the only state is the input.  Lanes are built *)
(* up direction by direction, turns are enumerated by Init.                *)
(***************************************************************************)
EXTENDS Integers, FiniteSetsExt

CONSTANT Angles       \* roundabout exit angles, in degrees

ASSUME AnglesAssumption == Angles \subseteq Int

VARIABLE input

vars == <<input>>

-----------------------------------------------------------------------------
(* Lanes.  The direction bits, lowest first.                               *)

Bits == <<"straight", "slight_r", "right", "sharp_r", "slight_l", "left", "sharp_l">>

lowest(dirs) == Bits[Min({i \in DOMAIN Bits : Bits[i] \in dirs})]

Shapes == 0..9

aa_shape_to_oem_dir(shape) ==
    CASE shape = 3 -> "slight_r"
      [] shape = 5 -> "right"
      [] shape \in {7, 9} -> "sharp_r"      \* 9: U-turn
      [] shape = 2 -> "slight_l"
      [] shape = 4 -> "left"
      [] shape \in {6, 8} -> "sharp_l"      \* 8: U-turn
      [] OTHER -> "straight"

OEM_LANE_NONE == 0
OEM_LANE_NONREC_OFFSET == 48

oem_base_code_for_dirs(d) ==
    CASE d = {"straight"} -> 1
      [] d = {"slight_r"} -> 2
      [] d = {"right"} -> 3
      [] d = {"sharp_r"} -> 4
      [] d = {"slight_l"} -> 5
      [] d = {"left"} -> 6
      [] d = {"sharp_l"} -> 7
      [] d = {"straight", "slight_r"} -> 8
      [] d = {"straight", "slight_l"} -> 9
      [] d = {"slight_l", "straight", "slight_r"} -> 10
      [] d = {"straight", "right"} -> 11
      [] d = {"straight", "left"} -> 12
      [] d = {"left", "straight", "right"} -> 13
      [] d = {"slight_r", "sharp_r"} -> 14
      [] d = {"slight_l", "sharp_l"} -> 15
      [] d = {"slight_l", "slight_r"} -> 16
      [] d = {"left", "right"} -> 19
      [] OTHER -> OEM_LANE_NONE

oem_detail_code(base, dir) ==
    LET straight == dir = "straight"
    IN  CASE base = 8  /\ straight -> 23 [] base = 8  /\ dir = "slight_r" -> 24
          [] base = 9  /\ straight -> 25 [] base = 9  /\ dir = "slight_l" -> 26
          [] base = 10 /\ straight -> 27 [] base = 10 /\ dir = "slight_l" -> 28
                                         [] base = 10 /\ dir = "slight_r" -> 29
          [] base = 11 /\ straight -> 30 [] base = 11 /\ dir = "right" -> 31
          [] base = 12 /\ straight -> 32 [] base = 12 /\ dir = "left" -> 33
          [] base = 13 /\ straight -> 34 [] base = 13 /\ dir = "left" -> 35
                                         [] base = 13 /\ dir = "right" -> 36
          [] base = 14 /\ dir = "slight_r" -> 37 [] base = 14 /\ dir = "sharp_r" -> 38
          [] base = 15 /\ dir = "slight_l" -> 39 [] base = 15 /\ dir = "sharp_l" -> 40
          [] base = 16 /\ dir = "slight_l" -> 41 [] base = 16 /\ dir = "slight_r" -> 42
          [] base = 19 /\ dir = "left" -> 47 [] base = 19 /\ dir = "right" -> 48
          [] OTHER -> OEM_LANE_NONE

(* Mutant: the first direction present, whichever is highlighted.          *)
FirstPresent(present, hl) == {lowest(present)}

(* A direction set without a combined code is drawn as one arrow: the      *)
(* highlighted direction if it is one, otherwise the first present.        *)
pick(present, hl) == IF Cardinality(hl) = 1 THEN hl ELSE {lowest(present)}

(* One lane: a set of shapes, some of them highlighted.                    *)
oem_lane_code_for_aa(present_shapes, highlight_shapes) ==
    LET present == {aa_shape_to_oem_dir(s) : s \in present_shapes}
        hl == {aa_shape_to_oem_dir(s) : s \in highlight_shapes}
        base == oem_base_code_for_dirs(present)
        detail == IF Cardinality(hl) = 1 THEN oem_detail_code(base, CHOOSE d \in hl : TRUE)
                                         ELSE OEM_LANE_NONE
    IN  IF present = {} THEN OEM_LANE_NONE
        ELSE IF detail # OEM_LANE_NONE THEN detail
        ELSE (IF base # OEM_LANE_NONE THEN base
                                      ELSE oem_base_code_for_dirs(pick(present, hl)))
             + (IF hl # {} THEN 0 ELSE OEM_LANE_NONREC_OFFSET)

TableA == <<1, 2, 2, 3, 4, 4, 5, 1, 1, 1, 1, 1, 1, 1, 1, 1, 1, 1, 1, 19, 20, 21,
            6, 7, 8, 9, 10, 11, 12, 6, 7, 8, 9, 10, 15, 13, 13, 14, 15, 16, 17, 18,
            6, 7, 8, 9, 9, 7,
            22, 23, 23, 24, 25, 25, 26, 27, 28, 29, 27, 28, 29, 30, 31, 32, 30, 31,
            32, 33, 34, 35>>
TableB == <<1, 2, 46, 3, 4, 47, 5, 40, 43, 36, 41, 44, 37, 42, 45, 38, 41, 44, 39, 19,
            20, 21, 6, 7, 8, 9, 10, 11, 12, 48, 49, 51, 52, 54, 56, 55, 13, 14, 15, 16,
            17, 18, 48, 49, 51, 52, 53, 50,
            22, 23, 57, 24, 25, 58, 26, 27, 28, 29, 59, 60, 61, 30, 31, 32, 59, 60,
            62, 33, 34, 35>>

oem_lane_glyph(code, table) == IF code \in 1..70 THEN table[code] ELSE 0

(* One direction of the lane being decoded: present, perhaps highlighted.  *)
(* A shape above 9 is ignored.                                             *)
dec_lane_direction(shape, hi) ==
    /\ input.kind = "lane" /\ shape \in Shapes
    /\ input' = [input EXCEPT !.present = @ \cup {shape},
                              !.highlight = IF hi THEN @ \cup {shape} ELSE @]

-----------------------------------------------------------------------------
(* Turns.  An input is a record of the fields the code reads.              *)

HUD_EMPTY == 18

(* The glyphs of events 0 to 19 for left, right and no side (0: nothing is  *)
(* drawn); the CarPlay sender holds the same table.                        *)
TurnIcons == <<<<0, 0, 0>>, <<35, 36, 12>>, <<1, 1, 1>>, <<4, 5, 1>>, <<2, 3, 1>>, <<11, 9, 1>>,
               <<13, 10, 1>>, <<2, 3, 1>>, <<30, 7, 1>>, <<15, 14, 1>>, <<16, 17, 1>>,
               <<0, 0, 0>>, <<0, 0, 0>>, <<0, 0, 0>>, <<1, 1, 1>>, <<0, 0, 0>>, <<0, 0, 0>>,
               <<0, 0, 0>>, <<0, 0, 0>>, <<33, 34, 8>>>>

(* Mutant: the side is used as the column without subtracting one.         *)
SideUnshifted(event, side) ==
    IF event \in 0..19 THEN TurnIcons[event + 1][IF side \in 0..2 THEN side + 1 ELSE 3] ELSE 0

kTurnIcons(event, side) ==
    IF event \in 0..19 THEN TurnIcons[event + 1][IF side \in 1..3 THEN side ELSE 3] ELSE 0

(* Protocol 1.5: bytes, and no reduction to a full turn.                   *)
roundabout_icon(degrees, left) ==
    ((((degrees + 15) \div 30) % 256) + (IF left THEN 49 ELSE 37)) % 256

compute_turn_icon(event, side, angle) ==
    IF event = 13 THEN roundabout_icon(angle, side = 1) ELSE kTurnIcons(event, side)

(* Protocol 1.6, maneuver types 0 to 42.                                   *)
ManeuverGlyphs ==
    <<12, 1, 15, 14, 4, 5, 2, 3, 11, 9, 13, 10, 4, 5, 2, 3, 11, 9, 13, 10,
      30, 7, 30, 7, 15, 14, 16, 17, 1, 1, 1, 1, 1, 1, 1, 1, 18, 18, 8, 8, 33, 34>>
kManeuverGlyph(type) == IF type \in 1..42 THEN ManeuverGlyphs[type] ELSE HUD_EMPTY

(* Mutant: the sector is not taken modulo 12.                              *)
GlyphOverflow(angle, clockwise) ==
    (IF clockwise THEN 49 ELSE 37) + (((angle % 360) + 15) \div 30)

(* TLA+'s % is never negative, as the code's is after its correction.      *)
roundabout_glyph(angle, clockwise) ==
    (IF clockwise THEN 49 ELSE 37) + ((((angle % 360) + 15) \div 30) % 12)

hud_nav16_glyph(type, angle) ==
    IF type \in 32..35 THEN roundabout_glyph(angle, type \in {32, 33}) ELSE kManeuverGlyph(type)

(* CarPlay: a maneuver type to an event and a side (1 left, 2 right, 3).   *)
EV_STRAIGHT == 14
LeftTypes == {1, 20, 47, 49, 13, 52, 22, 24}
RightTypes == {2, 21, 48, 50, 14, 53, 23, 25}
classify(mtype, junctionType, junctionAngle, driveSide) ==
    IF junctionType = 1 \/ mtype \in {6, 7, 19} \cup 28..46
    THEN [event |-> 13, side |-> IF driveSide = 1 THEN 1 ELSE 2, angle |-> junctionAngle % 360]
    ELSE [event |-> CASE mtype \in {1, 2, 20, 21} -> 4
                      [] mtype \in {47, 48} -> 5
                      [] mtype \in {49, 50} -> 3
                      [] mtype \in {13, 14, 51, 52, 53} -> 9
                      [] mtype \in {4, 26} -> 6
                      [] mtype \in {8, 22, 23} -> 8
                      [] mtype = 9 -> 7
                      [] mtype \in {15, 16, 17} -> 16
                      [] mtype \in {10, 12, 24, 25, 27} -> 19
                      [] OTHER -> EV_STRAIGHT,
          side |-> CASE mtype \in LeftTypes -> 1
                     [] mtype \in RightTypes -> 2
                     [] mtype \in {4, 26} -> IF driveSide = 1 THEN 2 ELSE 1
                     [] OTHER -> 3,
          angle |-> 0]

(* The CarPlay sender's own bank starts at the entry leg and turns         *)
(* counter-clockwise: the bearing is reflected.                            *)
CpRoundaboutIcon(degrees, left) ==
    (((((180 - degrees) % 360) + 15) \div 30) % 12) + (IF left THEN 49 ELSE 37)

CpIcon(m) ==
    IF m.event = 13 THEN CpRoundaboutIcon(m.angle, m.side = 1) ELSE kTurnIcons(m.event, m.side)

(* The glyph drawn for a turn of any of the three.                         *)
Icon(t) ==
    CASE t.kind = "1.5" -> compute_turn_icon(t.event, t.side, t.angle)
      [] t.kind = "1.6" -> hud_nav16_glyph(t.type, t.angle)
      [] t.kind = "CarPlay" -> CpIcon(classify(t.type, t.junction, t.angle, t.drive))

-----------------------------------------------------------------------------
Turns15(events, angles) ==
    [kind : {"1.5"}, event : events, side : 0..4, angle : angles]
Turns16(types, angles) == [kind : {"1.6"}, type : types, angle : angles]
TurnsCp(types, angles) ==
    [kind : {"CarPlay"}, type : types, junction : 0..1, angle : angles, drive : 0..1]

Plain == Turns15(0..20, {0}) \cup Turns16(0..43, {0}) \cup TurnsCp(0..54, {0})
Roundabouts ==
    Turns15({13}, Angles \cap 0..359) \cup Turns16(32..35, Angles) \cup TurnsCp({1, 6}, Angles)
NoLane == [kind |-> "lane", present |-> {}, highlight |-> {}]

Init == input \in {NoLane} \cup Plain \cup Roundabouts

Next == \E shape \in Shapes, hi \in BOOLEAN : dec_lane_direction(shape, hi)

Spec == Init /\ [][Next]_vars

-----------------------------------------------------------------------------
(* What a lane code means, from the comments of the code's enumeration     *)
(* (hud_lane.h:61-143): the directions drawn and the one to take.          *)
Combos == <<{"straight"}, {"slight_r"}, {"right"}, {"sharp_r"}, {"slight_l"}, {"left"},
            {"sharp_l"}, {"straight", "slight_r"}, {"straight", "slight_l"},
            {"slight_l", "straight", "slight_r"}, {"straight", "right"},
            {"straight", "left"}, {"left", "straight", "right"},
            {"slight_r", "sharp_r"}, {"slight_l", "sharp_l"}, {"slight_l", "slight_r"},
            {"straight", "right"}, {"straight", "left"}, {"left", "right"}>>
Takes == <<<<8, "straight">>, <<8, "slight_r">>, <<9, "straight">>, <<9, "slight_l">>,
           <<10, "straight">>, <<10, "slight_l">>, <<10, "slight_r">>,
           <<11, "straight">>, <<11, "right">>, <<12, "straight">>, <<12, "left">>,
           <<13, "straight">>, <<13, "left">>, <<13, "right">>,
           <<14, "slight_r">>, <<14, "sharp_r">>, <<15, "slight_l">>, <<15, "sharp_l">>,
           <<16, "slight_l">>, <<16, "slight_r">>,
           <<11, "straight">>, <<11, "right">>, <<12, "straight">>, <<12, "left">>,
           <<19, "left">>, <<19, "right">>>>
Drawn(code) == CASE code \in 1..19 -> Combos[code]
                 [] code \in 23..48 -> Combos[Takes[code - 22][1]]
                 [] code \in 49..67 -> Combos[code - 48]
Taken(code) == IF code \in 23..48 THEN {Takes[code - 22][2]} ELSE Drawn(code)
Hand(dir) == CASE dir \in {"slight_r", "right", "sharp_r"} -> "right"
               [] dir \in {"slight_l", "left", "sharp_l"} -> "left"
               [] OTHER -> "straight"
Greyed == 49..70

(* A lane is drawn with all its arrows if a code has them, else with one   *)
(* of them; it is grey exactly when nothing in it is highlighted, as a     *)
(* code and as a glyph of either table; and when one direction is to be    *)
(* taken, that one is singled out, and the glyph of the direct transport   *)
(* (table A) stands for no direction to the other hand (hud_lane.h).       *)
LaneFaithful ==
    input.kind = "lane" /\ input.present # {} =>
        LET code == oem_lane_code_for_aa(input.present, input.highlight)
            dirs == {aa_shape_to_oem_dir(s) : s \in input.present}
            hl == {aa_shape_to_oem_dir(s) : s \in input.highlight}
            alike(table) == {c \in 1..67 : oem_lane_glyph(c, table) = oem_lane_glyph(code, table)}
        IN  /\ IF dirs \in {Combos[c] : c \in 1..19}
               THEN Drawn(code) = dirs ELSE Drawn(code) \subseteq dirs
            /\ \A table \in {TableA, TableB} :
                   \A c \in alike(table) : (c \in Greyed) = (input.highlight = {})
            /\ Cardinality(hl) = 1 =>
                   /\ Taken(code) = hl
                   /\ \A c \in alike(TableB) : Taken(c) = hl
                   /\ \A c \in alike(TableA) \ 8..19 :
                          {Hand(d) : d \in Taken(c)} = {Hand(d) : d \in hl}

(* What a turn means: the names the sources give the codes.  Ramps are     *)
(* drawn as turns of their severity, a highway change as a fork.           *)
Unknown == [turn |-> "unknown", side |-> "none"]
Means(turn, l, r) ==
    [turn |-> turn, side |-> IF turn = "straight" THEN "none"
                             ELSE IF l THEN "left" ELSE IF r THEN "right" ELSE "none"]
Events == <<"depart", "straight", "slight", "turn", "sharp", "uturn", "turn", "offramp",
            "fork", "merge">>
Types16 == [t \in 1..42 |->
              CASE t = 1 -> "depart"
                [] t \in {2, 36} -> "straight"
                [] t \in {5, 6, 13, 14} -> "slight"
                [] t \in {7, 8, 15, 16} -> "turn"
                [] t \in {9, 10, 17, 18} -> "sharp"
                [] t \in {11, 12, 19, 20} -> "uturn"
                [] t \in 21..24 -> "offramp"
                [] t \in {3, 4, 25, 26} -> "fork"
                [] t \in 27..29 -> "merge"
                [] t \in 39..42 -> "dest"
                [] OTHER -> "unknown"]
TypesCp == [t \in 0..54 |->
              CASE t \in {1, 2, 9, 20, 21} -> "turn"
                [] t \in {47, 48} -> "sharp"
                [] t \in {49, 50} -> "slight"
                [] t \in {13, 14, 51, 52, 53} -> "fork"
                [] t \in {4, 26} -> "uturn"
                [] t \in {8, 22, 23} -> "offramp"
                [] t \in {10, 12, 24, 25, 27} -> "dest"
                [] t = 3 -> "straight"
                [] OTHER -> "unknown"]
Meaning(t) ==
    CASE t.kind = "1.5" ->
            IF t.event \in {14, 19} \cup 1..10
            THEN Means(CASE t.event = 14 -> "straight" [] t.event = 19 -> "dest"
                         [] OTHER -> Events[t.event], t.side = 1, t.side = 2)
            ELSE Unknown
      [] t.kind = "1.6" ->
            IF t.type \in 1..42
            THEN Means(Types16[t.type], t.type \in {3, 41} \cup {5, 7, 9, 11, 13, 15, 17, 19,
                                                     21, 23, 25, 27},
                       t.type \in {4, 42} \cup {6, 8, 10, 12, 14, 16, 18, 20, 22, 24, 26, 28})
            ELSE Unknown
      [] t.kind = "CarPlay" ->
            IF t.junction = 1 THEN Unknown
            ELSE Means(TypesCp[t.type],
                       t.type \in {1, 20, 47, 49, 13, 52, 22, 24}
                          \/ (t.type \in {4, 26} /\ t.drive = 0),
                       t.type \in {2, 21, 48, 50, 14, 53, 23, 25}
                          \/ (t.type \in {4, 26} /\ t.drive = 1))
Mirrored(m) == [m EXCEPT !.side = CASE @ = "left" -> "right" [] @ = "right" -> "left"
                                    [] OTHER -> @]
MirrorGlyphs == {{2, 3}, {4, 5}, {9, 11}, {10, 13}, {14, 15}, {16, 17}, {7, 30}, {33, 34},
                 {35, 36}}

(* A turn is drawn with the same glyph whichever of the three protocols    *)
(* reports it, the turn to the other side with the mirrored glyph, and a   *)
(* turn of another kind or side with another one (hud_nav.h,               *)
(* hud_nav16.cpp, nav.cpp, hud_send.cpp).                                  *)
SameTurnSameGlyph ==
    input.kind # "lane" /\ Meaning(input).turn # "unknown" =>
        LET m == Meaning(input)
        IN  \A t \in Plain :
               /\ Meaning(t) = m => Icon(t) = Icon(input)
               /\ m.side # "none" /\ Meaning(t) = Mirrored(m)
                      => {Icon(t), Icon(input)} \in MirrorGlyphs
               /\ m.side # "none" /\ Icon(t) = Icon(input) => Meaning(t) = m

(* The glyph is one of the bank's twelve, the one nearest to the bearing.  *)
NearestIn(icon, bank, bearing) ==
    /\ icon - bank \in 0..11
    /\ (bearing - 30 * (icon - bank)) % 360 \in (0..15) \cup (345..359)

(* A roundabout exit gets one of the twelve glyphs of its traffic side,    *)
(* the one nearest to the angle given, for any angle; in CarPlay of the    *)
(* reflected bearing.  Protocol 1.5 keeps this up to 344 degrees only: it  *)
(* does not reduce the sector (hud_nav.h:114-119).                         *)
NearestExit ==
    /\ input.kind = "1.5" /\ input.event = 13 /\ input.angle \in 0..344
           => NearestIn(Icon(input), IF input.side = 1 THEN 49 ELSE 37, input.angle)
    /\ input.kind = "1.6" /\ input.type \in 32..35
           => NearestIn(Icon(input), IF input.type \in {32, 33} THEN 49 ELSE 37, input.angle)
    /\ input.kind = "CarPlay" /\ (input.type = 6 \/ input.junction = 1)
           => NearestIn(Icon(input), IF input.drive = 1 THEN 49 ELSE 37, 180 - input.angle)
=============================================================================

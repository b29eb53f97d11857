--------------------------- MODULE HudCodesProofs ---------------------------
(* What the HUD is told to draw, for every lane, every turn code and every *)
(* set of angles: TLC checks the angles a little beyond a full turn, the   *)
(* code takes any 32-bit one.                                              *)
EXTENDS HudCodes, TLAPS, FiniteSetTheorems

Lanes == [kind : {"lane"}, present : SUBSET Shapes, highlight : SUBSET Shapes]

(* An input is a lane or one of the turns of Init: no step makes a turn.   *)
InputOK == input \in Lanes \cup Plain \cup Roundabouts

(* The sector nearest to b among twelve of 30 degrees, the first centred   *)
(* on 0, as all three icon functions compute it.                           *)
LEMMA NearestSector ==
    ASSUME NEW b \in Int, NEW s \in Int, s = (((b % 360) + 15) \div 30) % 12
    PROVE  s \in 0..11 /\ (b - 30 * s) % 360 \in (0..15) \cup (345..359)
<1> DEFINE r == b % 360
           q == (r + 15) \div 30
<1>1. r \in 0..359
  BY Z3
<1>2. PICK k \in Int : b = 360 * k + r
  BY Z3
<1>3. q \in 0..12 /\ 30 * q <= r + 15 /\ r + 15 < 30 * q + 30
  BY <1>1, Z3
<1>4. CASE q = 12
  <2>1. s = 0
    BY <1>4, Z3
  <2>2. r >= 345
    BY <1>3, <1>4, Z3
  <2>3. b - 30 * s = b
    BY <2>1, Z3
  <2> QED BY <1>1, <2>1, <2>2, <2>3, Z3
<1>5. CASE q \in 0..11
  <2>1. s = q
    BY <1>5, Z3
  <2> DEFINE d == r - 30 * q
  <2>2. d \in -15..14
    BY <1>1, <1>3, Z3
  <2>3. b - 30 * s = 360 * k + d
    BY <1>1, <1>2, <2>1, <1>5, Z3
  <2>4. CASE d >= 0
    <3>1. (360 * k + d) % 360 = d
      BY <2>2, <2>4, Z3
    <3> QED BY <2>1, <2>2, <2>3, <2>4, <3>1, <1>5, Z3
  <2>5. CASE d < 0
    <3>1. (360 * k + d) % 360 = d + 360
      BY <2>2, <2>5, Z3
    <3> QED BY <2>1, <2>2, <2>3, <2>5, <3>1, <1>5, Z3
  <2> QED BY <2>2, <2>4, <2>5, Z3
<1> QED BY <1>3, <1>4, <1>5, Z3

LEMMA SectorGlyph ==
    ASSUME NEW b \in Int, NEW bank \in Int
    PROVE  NearestIn(bank + ((((b % 360) + 15) \div 30) % 12), bank, b)
<1> DEFINE s == (((b % 360) + 15) \div 30) % 12
<1>1. s \in Int
  BY Z3
<1>2. s \in 0..11 /\ (b - 30 * s) % 360 \in (0..15) \cup (345..359)
  BY <1>1, NearestSector
<1> HIDE DEF s
<1>3. (bank + s) - bank = s
  BY <1>1, Z3
<1>4. NearestIn(bank + s, bank, b)
  BY <1>2, <1>3 DEF NearestIn
<1> QED BY <1>4 DEF s

(* One lemma per icon function, for both traffic sides.                    *)
LEMMA Exit15 ==
    ASSUME NEW a \in 0..344
    PROVE  NearestIn(roundabout_icon(a, TRUE), 49, a) /\ NearestIn(roundabout_icon(a, FALSE), 37, a)
<1> DEFINE s == (((a % 360) + 15) \div 30) % 12
<1>1. ((a + 15) \div 30) % 256 = s /\ s \in 0..11
  BY Z3
<1>2. roundabout_icon(a, TRUE) = 49 + s /\ roundabout_icon(a, FALSE) = 37 + s
  BY <1>1, Z3 DEF roundabout_icon
<1>3. a \in Int /\ 49 \in Int /\ 37 \in Int
  OBVIOUS
<1>4. NearestIn(49 + s, 49, a) /\ NearestIn(37 + s, 37, a)
  BY <1>3, SectorGlyph, Zenon
<1> QED BY <1>2, <1>4, Zenon

LEMMA Exit16 ==
    ASSUME NEW a \in Int
    PROVE  NearestIn(roundabout_glyph(a, TRUE), 49, a) /\ NearestIn(roundabout_glyph(a, FALSE), 37, a)
<1> DEFINE s == (((a % 360) + 15) \div 30) % 12
<1>1. roundabout_glyph(a, TRUE) = 49 + s /\ roundabout_glyph(a, FALSE) = 37 + s
  BY DEF roundabout_glyph
<1>2. 49 \in Int /\ 37 \in Int
  OBVIOUS
<1>3. NearestIn(49 + s, 49, a) /\ NearestIn(37 + s, 37, a)
  BY <1>2, SectorGlyph, Zenon
<1> QED BY <1>1, <1>3, Zenon

LEMMA ExitCp ==
    ASSUME NEW a \in Int
    PROVE  /\ NearestIn(CpRoundaboutIcon(a % 360, TRUE), 49, 180 - a)
           /\ NearestIn(CpRoundaboutIcon(a % 360, FALSE), 37, 180 - a)
<1> DEFINE s == ((((180 - a) % 360) + 15) \div 30) % 12
<1>1. (180 - (a % 360)) % 360 = (180 - a) % 360 /\ s \in Int /\ 180 - a \in Int
  BY Z3
<1>2. CpRoundaboutIcon(a % 360, TRUE) = 49 + s /\ CpRoundaboutIcon(a % 360, FALSE) = 37 + s
  BY <1>1, Z3 DEF CpRoundaboutIcon
<1>3. NearestIn(49 + s, 49, 180 - a) /\ NearestIn(37 + s, 37, 180 - a)
  BY <1>1, SectorGlyph
<1> QED BY <1>2, <1>3

(* A step adds a direction to a lane and leaves a turn as it is.           *)
LEMMA InputStaysOK == Spec => []InputOK
<1>1. Init => InputOK
  BY DEF Init, InputOK, NoLane, Lanes
<1>2. InputOK /\ [Next]_vars => InputOK'
  <2> SUFFICES ASSUME InputOK, [Next]_vars PROVE InputOK'
    OBVIOUS
  <2>1. CASE UNCHANGED vars
    BY <2>1 DEF InputOK, vars
  <2>2. ASSUME NEW shape \in Shapes, NEW hi \in BOOLEAN, dec_lane_direction(shape, hi)
        PROVE  InputOK'
    <3>1. input \in Lanes
      BY <2>2 DEF dec_lane_direction, InputOK, Plain, Roundabouts, Turns15, Turns16, TurnsCp
    <3>2. input' \in Lanes
      BY <2>2, <3>1 DEF dec_lane_direction, Lanes
    <3> QED BY <3>2 DEF InputOK
  <2> QED BY <2>1, <2>2 DEF Next
<1> QED BY <1>1, <1>2, PTL DEF Spec

LEMMA AngleIsInt ==
    ASSUME InputOK, input.kind # "lane"
    PROVE  input.angle \in Int
<1>1. input \notin Lanes
  BY DEF Lanes
<1>2. ASSUME NEW E, NEW A \in SUBSET Int, input \in Turns15(E, A)
      PROVE  input.angle \in Int
  BY <1>2 DEF Turns15
<1>3. ASSUME NEW T, NEW A \in SUBSET Int, input \in Turns16(T, A)
      PROVE  input.angle \in Int
  BY <1>3 DEF Turns16
<1>4. ASSUME NEW T, NEW A \in SUBSET Int, input \in TurnsCp(T, A)
      PROVE  input.angle \in Int
  BY <1>4 DEF TurnsCp
<1>5. {0} \in SUBSET Int /\ Angles \in SUBSET Int /\ Angles \cap 0..359 \in SUBSET Int
  BY AnglesAssumption
<1> QED BY <1>1, <1>2, <1>3, <1>4, <1>5 DEF InputOK, Plain, Roundabouts

(* Whatever angles the phone sends, a roundabout exit gets the nearest of  *)
(* the twelve glyphs of its traffic side (hud_nav.h, hud_nav16.cpp,        *)
(* hud_send.cpp).                                                          *)
THEOREM ExitTheorem == Spec => []NearestExit
<1>1. InputOK => NearestExit
  <2> SUFFICES ASSUME InputOK PROVE NearestExit
    OBVIOUS
  <2>1. ASSUME input.kind = "1.5", input.event = 13, input.angle \in 0..344
        PROVE  NearestIn(Icon(input), IF input.side = 1 THEN 49 ELSE 37, input.angle)
    <3>1. Icon(input) = roundabout_icon(input.angle, input.side = 1)
      BY <2>1 DEF Icon, compute_turn_icon
    <3>2. CASE input.side = 1
      <4>1. (input.side = 1) = TRUE
        BY <3>2
      <4>2. Icon(input) = roundabout_icon(input.angle, TRUE)
        BY <3>1, <4>1, Zenon
      <4> QED BY <2>1, <3>2, <4>2, Exit15, Zenon
    <3>3. CASE input.side # 1
      <4>1. (input.side = 1) = FALSE
        BY <3>3
      <4>2. Icon(input) = roundabout_icon(input.angle, FALSE)
        BY <3>1, <4>1, Zenon
      <4> QED BY <2>1, <3>3, <4>2, Exit15, Zenon
    <3> QED BY <3>2, <3>3
  <2>2. ASSUME input.kind = "1.6", input.type \in 32..35
        PROVE  NearestIn(Icon(input), IF input.type \in {32, 33} THEN 49 ELSE 37, input.angle)
    <3>1. Icon(input) = roundabout_glyph(input.angle, input.type \in {32, 33})
      BY <2>2 DEF Icon, hud_nav16_glyph
    <3>2. input.angle \in Int
      BY <2>2, AngleIsInt
    <3>3. CASE input.type \in {32, 33}
      BY <3>1, <3>2, <3>3, Exit16
    <3>4. CASE input.type \notin {32, 33}
      <4>1. (input.type \in {32, 33}) = FALSE
        BY <3>4
      <4>2. Icon(input) = roundabout_glyph(input.angle, FALSE)
        BY <3>1, <4>1, Zenon
      <4> QED BY <3>2, <3>4, <4>2, Exit16, Zenon
    <3> QED BY <3>3, <3>4
  <2>3. ASSUME input.kind = "CarPlay", input.type = 6 \/ input.junction = 1
        PROVE  NearestIn(Icon(input), IF input.drive = 1 THEN 49 ELSE 37, 180 - input.angle)
    <3> DEFINE m == classify(input.type, input.junction, input.angle, input.drive)
    <3>1. m = [event |-> 13, side |-> IF input.drive = 1 THEN 1 ELSE 2,
               angle |-> input.angle % 360]
      BY <2>3 DEF classify
    <3>2. m.event = 13 /\ m.angle = input.angle % 360
          /\ m.side = IF input.drive = 1 THEN 1 ELSE 2
      BY <3>1
    <3>3. Icon(input) = CpIcon(m)
      BY <2>3 DEF Icon
    <3> HIDE DEF m
    <3>4. CpIcon(m) = CpRoundaboutIcon(input.angle % 360, m.side = 1)
      BY <3>2 DEF CpIcon
    <3>5. input.angle \in Int
      BY <2>3, AngleIsInt
    <3>6. CASE input.drive = 1
      <4>1. (m.side = 1) = TRUE
        BY <3>2, <3>6
      <4>2. Icon(input) = CpRoundaboutIcon(input.angle % 360, TRUE)
        BY <3>3, <3>4, <4>1, Zenon
      <4> QED BY <3>5, <3>6, <4>2, ExitCp, Zenon
    <3>7. CASE input.drive # 1
      <4>1. (m.side = 1) = FALSE
        BY <3>2, <3>7
      <4>2. Icon(input) = CpRoundaboutIcon(input.angle % 360, FALSE)
        BY <3>3, <3>4, <4>1, Zenon
      <4> QED BY <3>5, <3>7, <4>2, ExitCp, Zenon
    <3> QED BY <3>6, <3>7
  <2> QED BY <2>1, <2>2, <2>3 DEF NearestExit
<1> QED BY <1>1, InputStaysOK, PTL

-----------------------------------------------------------------------------
(* Lanes.                                                                  *)

Dirs == {"straight", "slight_r", "right", "sharp_r", "slight_l", "left", "sharp_l"}

(* The codes of one arrow, of several, and of one singled out of several.  *)
Singles == 1..7
Several == (8..16) \cup {19}
Details == 23..48
Direct == Singles \cup Details

(* The direction a code of the first or the last kind is for.              *)
One(code) == IF code \in Singles THEN Bits[code] ELSE Takes[code - 22][2]

(* The rows of the enumeration.                                            *)
LEMMA ComboRows ==
    /\ Combos[1] = {"straight"}
    /\ Combos[2] = {"slight_r"}
    /\ Combos[3] = {"right"}
    /\ Combos[4] = {"sharp_r"}
    /\ Combos[5] = {"slight_l"}
    /\ Combos[6] = {"left"}
    /\ Combos[7] = {"sharp_l"}
    /\ Combos[8] = {"straight", "slight_r"}
    /\ Combos[9] = {"straight", "slight_l"}
    /\ Combos[10] = {"slight_l", "straight", "slight_r"}
    /\ Combos[11] = {"straight", "right"}
    /\ Combos[12] = {"straight", "left"}
    /\ Combos[13] = {"left", "straight", "right"}
    /\ Combos[14] = {"slight_r", "sharp_r"}
    /\ Combos[15] = {"slight_l", "sharp_l"}
    /\ Combos[16] = {"slight_l", "slight_r"}
    /\ Combos[17] = {"straight", "right"}
    /\ Combos[18] = {"straight", "left"}
    /\ Combos[19] = {"left", "right"}
BY DEF Combos

(* The code of a set of directions stands for that set, and a set without  *)
(* a code is in no row.                                                    *)
LEMMA BaseCode ==
    ASSUME NEW d, NEW b, b = oem_base_code_for_dirs(d)
    PROVE  \/ b \in Singles \cup Several /\ d = Combos[b]
           \/ b = 0 /\ \A c \in 1..19 : d # Combos[c]
<1>1. \/ b = 0
      \/ b = 1 /\ d = {"straight"}
      \/ b = 2 /\ d = {"slight_r"}
      \/ b = 3 /\ d = {"right"}
      \/ b = 4 /\ d = {"sharp_r"}
      \/ b = 5 /\ d = {"slight_l"}
      \/ b = 6 /\ d = {"left"}
      \/ b = 7 /\ d = {"sharp_l"}
      \/ b = 8 /\ d = {"straight", "slight_r"}
      \/ b = 9 /\ d = {"straight", "slight_l"}
      \/ b = 10 /\ d = {"slight_l", "straight", "slight_r"}
      \/ b = 11 /\ d = {"straight", "right"}
      \/ b = 12 /\ d = {"straight", "left"}
      \/ b = 13 /\ d = {"left", "straight", "right"}
      \/ b = 14 /\ d = {"slight_r", "sharp_r"}
      \/ b = 15 /\ d = {"slight_l", "sharp_l"}
      \/ b = 16 /\ d = {"slight_l", "slight_r"}
      \/ b = 19 /\ d = {"left", "right"}
  BY SMTT(30) DEF oem_base_code_for_dirs, OEM_LANE_NONE
<1>2. b # 0 => b \in Singles \cup Several
  BY <1>1 DEF Singles, Several
<1>3. b # 0 => d = Combos[b]
  BY <1>1, ComboRows
<1>4. b = 0 => \A c \in 1..19 : d # Combos[c]
  <2> SUFFICES ASSUME b = 0, NEW c \in 1..19, d = Combos[c] PROVE FALSE
    OBVIOUS
  <2>1. oem_base_code_for_dirs(Combos[c]) # 0
    BY ComboRows, SMTT(60) DEF oem_base_code_for_dirs
  <2> QED BY <2>1
<1> QED BY <1>2, <1>3, <1>4
(* A combination has a code for each of its directions, which singles that *)
(* direction out; no other pair has a code.                                *)
LEMMA DetailCode ==
    ASSUME NEW base \in {0} \cup Singles \cup Several, NEW x \in Dirs,
           NEW code, code = oem_detail_code(base, x)
    PROVE  /\ code # 0 => code \in Details /\ Takes[code - 22] = <<base, x>> /\ base \in Several
           /\ code = 0 /\ base \in Several => x \notin Combos[base]
<1>0. \/ code = 0
      \/ base = 8 /\ x = "straight" /\ code = 23
      \/ base = 8 /\ x = "slight_r" /\ code = 24
      \/ base = 9 /\ x = "straight" /\ code = 25
      \/ base = 9 /\ x = "slight_l" /\ code = 26
      \/ base = 10 /\ x = "straight" /\ code = 27
      \/ base = 10 /\ x = "slight_l" /\ code = 28
      \/ base = 10 /\ x = "slight_r" /\ code = 29
      \/ base = 11 /\ x = "straight" /\ code = 30
      \/ base = 11 /\ x = "right" /\ code = 31
      \/ base = 12 /\ x = "straight" /\ code = 32
      \/ base = 12 /\ x = "left" /\ code = 33
      \/ base = 13 /\ x = "straight" /\ code = 34
      \/ base = 13 /\ x = "left" /\ code = 35
      \/ base = 13 /\ x = "right" /\ code = 36
      \/ base = 14 /\ x = "slight_r" /\ code = 37
      \/ base = 14 /\ x = "sharp_r" /\ code = 38
      \/ base = 15 /\ x = "slight_l" /\ code = 39
      \/ base = 15 /\ x = "sharp_l" /\ code = 40
      \/ base = 16 /\ x = "slight_l" /\ code = 41
      \/ base = 16 /\ x = "slight_r" /\ code = 42
      \/ base = 19 /\ x = "left" /\ code = 47
      \/ base = 19 /\ x = "right" /\ code = 48
  BY SMTT(30) DEF oem_detail_code, OEM_LANE_NONE
<1>1. code # 0 => code \in Details /\ Takes[code - 22] = <<base, x>> /\ base \in Several
  <2>1. code # 0 => code \in Details /\ base \in Several
    BY <1>0 DEF Details, Several
  <2>2. code # 0 => Takes[code - 22] = <<base, x>>
    BY <1>0 DEF Takes
  <2> QED BY <2>1, <2>2
<1>2. base \in Several /\ x \in Combos[base] => code # 0
  BY ComboRows, SMTT(30) DEF oem_detail_code, OEM_LANE_NONE, Several
<1> QED BY <1>1, <1>2

(* What such a code is drawn as, and which direction it is for.            *)
LEMMA DetailDrawn ==
    ASSUME NEW code \in Details
    PROVE  Drawn(code) = Combos[Takes[code - 22][1]] /\ Taken(code) = {Takes[code - 22][2]}
BY DEF Drawn, Taken, Details

LEMMA SingleDrawn ==
    ASSUME NEW code \in Singles
    PROVE  Drawn(code) = {Bits[code]} /\ Taken(code) = {Bits[code]} /\ Combos[code] = {Bits[code]}
<1>1. Combos[code] = {Bits[code]}
  BY ComboRows DEF Bits, Singles
<1> QED BY <1>1 DEF Drawn, Taken, Singles

LEMMA PlainDrawn ==
    ASSUME NEW code \in 1..19
    PROVE  Drawn(code) = Combos[code] /\ Drawn(code + 48) = Combos[code]
BY DEF Drawn

LEMMA DirectTaken ==
    ASSUME NEW code \in Direct
    PROVE  Taken(code) = {One(code)}
<1>1. CASE code \in Singles
  BY <1>1, SingleDrawn DEF One
<1>2. CASE code \in Details
  BY <1>2, DetailDrawn DEF One, Singles, Details
<1> QED BY <1>1, <1>2 DEF Direct

-----------------------------------------------------------------------------
(* Both glyph tables keep grey glyphs apart.                               *)
LEMMA GreyGlyphs ==
    ASSUME NEW c \in 1..67
    PROVE  /\ TableA[c] >= 22 <=> c \in Greyed
           /\ TableB[c] \in (22..35) \cup (57..62) <=> c \in Greyed
<1>1. TableA[c] >= 22 <=> c >= 49
  BY DEF TableA
<1>2. TableB[c] \in (22..35) \cup (57..62) <=> c >= 49
  BY DEF TableB
<1> QED BY <1>1, <1>2 DEF Greyed

(* Two codes with one glyph of the extended table: the single arrows of    *)
(* one combination under two numbers.                                      *)
LEMMA SameGlyphB ==
    ASSUME NEW c \in 1..48, NEW k \in Direct, TableB[c] = TableB[k]
    PROVE  c = k \/ (k \in 30..33 /\ c = k + 13) \/ (c \in 30..33 /\ k = c + 13)
BY SMTT(60) DEF TableB, Direct, Singles, Details

LEMMA SameTakenB ==
    ASSUME NEW c \in 1..48, NEW k \in Direct, TableB[c] = TableB[k]
    PROVE  c \in Direct /\ One(c) = One(k)
<1>1. \A i \in 30..33 : Takes[i - 22][2] = Takes[(i + 13) - 22][2]
  BY DEF Takes
<1>2. \A i \in 30..33 : One(i) = One(i + 13)
  BY <1>1 DEF One, Singles
<1>3. c \in Direct
  BY SameGlyphB DEF Direct, Details, Singles
<1> QED BY <1>2, <1>3, SameGlyphB

(* The hand each glyph of the basic table points to.                       *)
GlyphHand(g) == IF g \in {1, 6, 8, 10} THEN "straight"
                ELSE IF g \in {2, 3, 7, 12, 13, 14, 18} THEN "right" ELSE "left"

LEMMA HandOfGlyph ==
    ASSUME NEW c \in Direct
    PROVE  Hand(One(c)) = GlyphHand(TableA[c])
<1>1. CASE c \in Singles
  <2>1. /\ c = 1 => Bits[c] = "straight" /\ TableA[c] = 1
        /\ c \in 2..4 => Bits[c] \in {"slight_r", "right", "sharp_r"} /\ TableA[c] \in 2..3
        /\ c \in 5..7 => Bits[c] \in {"slight_l", "left", "sharp_l"} /\ TableA[c] \in 4..5
    BY <1>1 DEF Bits, TableA, Singles
  <2> QED BY <1>1, <2>1 DEF One, Hand, GlyphHand, Singles
<1>2. CASE c \in Details
  <2> DEFINE x == Takes[c - 22][2]
  <2>1. \/ x = "straight" /\ TableA[c] \in {6, 8, 10}
        \/ x \in {"slight_r", "right", "sharp_r"} /\ TableA[c] \in {7, 12, 13, 14, 18}
        \/ x \in {"slight_l", "left", "sharp_l"} /\ TableA[c] \in {9, 11, 15, 16, 17}
    BY <1>2 DEF Takes, TableA, Details
  <2> QED BY <1>2, <2>1 DEF One, Hand, GlyphHand, Details, Singles
<1> QED BY <1>1, <1>2 DEF Direct
-----------------------------------------------------------------------------
(* Shapes and their directions.                                            *)
DirsOf(shapes) == {aa_shape_to_oem_dir(s) : s \in shapes}

LEMMA DirsOfShapes ==
    ASSUME NEW P \in SUBSET Shapes, NEW H \in SUBSET P
    PROVE  /\ DirsOf(P) \in SUBSET Dirs /\ DirsOf(H) \in SUBSET DirsOf(P)
           /\ DirsOf(P) = {} <=> P = {}
           /\ DirsOf(H) = {} <=> H = {}
           /\ IsFiniteSet(DirsOf(H))
<1>1. \A s \in Shapes : aa_shape_to_oem_dir(s) \in Dirs
  BY DEF aa_shape_to_oem_dir, Dirs
<1>2. IsFiniteSet(H)
  <2>1. IsFiniteSet(Shapes)
    <3>1. 0 \in Int /\ 9 \in Int
      OBVIOUS
    <3>2. IsFiniteSet(0..9)
      BY <3>1, FS_Interval, Zenon
    <3> QED BY <3>2 DEF Shapes
  <2> QED BY <2>1, FS_Subset
<1>3. IsFiniteSet(DirsOf(H))
  <2> DEFINE f == [s \in H |-> aa_shape_to_oem_dir(s)]
  <2>1. DirsOf(H) = {f[s] : s \in H}
    BY DEF DirsOf
  <2>2. f \in Surjection(H, DirsOf(H))
    BY <2>1 DEF Surjection
  <2> HIDE DEF f
  <2> QED BY <1>2, <2>2, FS_Surjection
<1>4. DirsOf(P) \in SUBSET Dirs /\ DirsOf(H) \in SUBSET DirsOf(P)
  BY <1>1 DEF DirsOf
<1>5. (DirsOf(P) = {} <=> P = {}) /\ (DirsOf(H) = {} <=> H = {})
  BY DEF DirsOf
<1> QED BY <1>3, <1>4, <1>5

LEMMA DirIsBit ==
    ASSUME NEW x \in Dirs
    PROVE  \E i \in 1..7 : Bits[i] = x
<1>1. /\ Bits[1] = "straight" /\ Bits[2] = "slight_r" /\ Bits[3] = "right" /\ Bits[4] = "sharp_r"
      /\ Bits[5] = "slight_l" /\ Bits[6] = "left" /\ Bits[7] = "sharp_l"
  BY DEF Bits
<1> QED BY <1>1 DEF Dirs

LEMMA LowestMember ==
    ASSUME NEW d \in SUBSET Dirs, d # {}
    PROVE  lowest(d) \in d
<1> DEFINE I == {i \in DOMAIN Bits : Bits[i] \in d}
<1>1. DOMAIN Bits = 1..7
  BY DEF Bits
<1>2. I \in SUBSET (1..7) /\ I # {}
  BY <1>1, DirIsBit
<1>3. \E i \in I : \A j \in I : i <= j
  BY <1>2
<1>4. Min(I) \in I
  BY <1>3 DEF Min
<1> QED BY <1>4 DEF lowest

(* A single direction always has a code of its own.                        *)
LEMMA SingleCode ==
    ASSUME NEW x \in Dirs
    PROVE  LET b == oem_base_code_for_dirs({x})
           IN  b \in Singles /\ Bits[b] = x
<1> DEFINE b == oem_base_code_for_dirs({x})
<1>1. PICK i \in 1..7 : Bits[i] = x
  BY DirIsBit
<1>2. Combos[i] = {x}
  BY <1>1, SingleDrawn DEF Singles
<1>3. b \in Singles \cup Several /\ Combos[b] = {x}
  BY <1>2, BaseCode
<1>4. \A c \in Several : Combos[c] # {x}
  BY ComboRows DEF Several
<1>5. b \in Singles
  BY <1>3, <1>4
<1> QED BY <1>3, <1>5, SingleDrawn
-----------------------------------------------------------------------------
(* A lane's code, from its directions and the highlighted ones.            *)
CodeOf(d, h) ==
    LET base == oem_base_code_for_dirs(d)
        detail == IF Cardinality(h) = 1 THEN oem_detail_code(base, CHOOSE x \in h : TRUE)
                                        ELSE OEM_LANE_NONE
    IN  IF detail # OEM_LANE_NONE THEN detail
        ELSE (IF base # OEM_LANE_NONE THEN base ELSE oem_base_code_for_dirs(pick(d, h)))
             + (IF h # {} THEN 0 ELSE OEM_LANE_NONREC_OFFSET)

LEMMA LaneCodeOf ==
    ASSUME NEW P \in SUBSET Shapes, P # {}, NEW H \in SUBSET P
    PROVE  oem_lane_code_for_aa(P, H) = CodeOf(DirsOf(P), DirsOf(H))
<1>1. DirsOf(P) # {}
  BY DirsOfShapes
<1> QED BY <1>1 DEF oem_lane_code_for_aa, CodeOf, DirsOf

(* A coded set is drawn in full and any other as one of its arrows; the    *)
(* code is grey exactly without a highlight, and a single highlighted      *)
(* direction is the one the code is for.                                   *)
CodeFits(code, d, h) ==
    /\ code \in (1..67) \ (20..22)
    /\ code \in Greyed <=> h = {}
    /\ Drawn(code) \subseteq d
    /\ (\E c \in 1..19 : d = Combos[c]) => Drawn(code) = d
    /\ Cardinality(h) = 1 => code \in Direct /\ {One(code)} = h

LEMMA ArrowFits ==
    ASSUME NEW d \in SUBSET Dirs, NEW h \in SUBSET d, NEW x \in d, NEW code,
           \A c \in 1..19 : d # Combos[c], Cardinality(h) = 1 => h = {x},
           code = oem_base_code_for_dirs({x}) + (IF h # {} THEN 0 ELSE 48)
    PROVE  CodeFits(code, d, h)
<1>1. PICK b \in Singles : b = oem_base_code_for_dirs({x}) /\ Bits[b] = x
  BY SingleCode
<1>2. b \in 1..19 /\ b \in 1..7
  BY DEF Singles
<1>3. Drawn(b) = {x} /\ Drawn(b + 48) = {x} /\ Taken(b) = {x}
  BY <1>1, <1>2, SingleDrawn, PlainDrawn
<1>4. CASE h = {}
  <2>1. code = b + 48
    BY <1>1, <1>4
  <2>2. Cardinality(h) # 1
    BY <1>4, FS_EmptySet
  <2> QED BY <1>2, <1>3, <1>4, <2>1, <2>2 DEF CodeFits, Greyed
<1>5. CASE h # {}
  <2>1. code = b
    BY <1>1, <1>2, <1>5
  <2>2. code \in Direct /\ One(code) = x
    BY <1>1, <2>1 DEF Direct, One
  <2> QED BY <1>2, <1>3, <1>5, <2>1, <2>2 DEF CodeFits, Greyed
<1> QED BY <1>4, <1>5

LEMMA LaneFits ==
    ASSUME NEW d \in SUBSET Dirs, d # {}, NEW h \in SUBSET d, IsFiniteSet(h),
           NEW code, code = CodeOf(d, h)
    PROVE  CodeFits(code, d, h)
<1>1. PICK base : base = oem_base_code_for_dirs(d)
  OBVIOUS
<1>2. \/ base \in Singles \cup Several /\ d = Combos[base]
      \/ base = 0 /\ \A c \in 1..19 : d # Combos[c]
  BY <1>1, BaseCode
<1>3. CASE Cardinality(h) = 1
  <2>1. PICK x : h = {x}
    BY <1>3, FS_Singleton
  <2>2. x \in d /\ x \in Dirs /\ (CHOOSE y \in h : TRUE) = x
    BY <2>1
  <2>3. PICK detail : detail = oem_detail_code(base, x)
    OBVIOUS
  <2>4. base \in {0} \cup Singles \cup Several
    BY <1>2
  <2>5. code = IF detail # 0 THEN detail
               ELSE (IF base # 0 THEN base ELSE oem_base_code_for_dirs({x})) + 0
    BY <1>1, <1>3, <2>1, <2>2, <2>3 DEF CodeOf, pick, OEM_LANE_NONE
  <2>6. CASE detail # 0
    <3>1. code = detail /\ code \in Details /\ Takes[code - 22] = <<base, x>> /\ base \in Several
      BY <2>2, <2>3, <2>4, <2>5, <2>6, DetailCode
    <3>2. d = Combos[base]
      BY <1>2, <3>1 DEF Several
    <3>3. Drawn(code) = d /\ One(code) = x
      BY <3>1, <3>2, DetailDrawn DEF One, Singles, Details
    <3>4. code \in 23..48 /\ code \in Direct
      BY <3>1 DEF Details, Direct
    <3> QED BY <2>1, <3>3, <3>4 DEF CodeFits, Greyed
  <2>7. CASE detail = 0 /\ base # 0
    <3>1. base \notin Several
      BY <1>2, <2>2, <2>3, <2>4, <2>7, DetailCode
    <3>2. base \in Singles /\ d = Combos[base]
      BY <1>2, <2>7, <3>1
    <3>3. code = base
      BY <2>5, <2>7, <3>2 DEF Singles
    <3>4. d = {Bits[base]} /\ Drawn(base) = d
      BY <3>2, SingleDrawn
    <3>5. One(base) = x /\ base \in Direct
      BY <2>2, <3>2, <3>4 DEF One, Direct
    <3>6. code \in 1..7
      BY <3>2, <3>3 DEF Singles
    <3>7. Drawn(code) = d /\ One(code) = x /\ code \in Direct /\ h # {}
      BY <2>1, <3>3, <3>4, <3>5
    <3> QED BY <2>1, <3>6, <3>7 DEF CodeFits, Greyed
  <2>8. CASE detail = 0 /\ base = 0
    <3>1. code = oem_base_code_for_dirs({x}) + (IF h # {} THEN 0 ELSE 48)
      BY <2>1, <2>5, <2>8
    <3>2. \A c \in 1..19 : d # Combos[c]
      BY <1>2, <2>8 DEF Singles, Several
    <3> QED BY <2>1, <2>2, <3>1, <3>2, ArrowFits
  <2> QED BY <2>6, <2>7, <2>8
<1>4. CASE Cardinality(h) # 1
  <2>1. code = (IF base # 0 THEN base ELSE oem_base_code_for_dirs({lowest(d)}))
               + (IF h # {} THEN 0 ELSE 48)
    BY <1>1, <1>4 DEF CodeOf, pick, OEM_LANE_NONE, OEM_LANE_NONREC_OFFSET
  <2>2. CASE base # 0
    <3>1. base \in (1..16) \cup {19} /\ base \in 1..19 /\ d = Combos[base]
      BY <1>2, <2>2 DEF Singles, Several
    <3>2. Drawn(base) = d /\ Drawn(base + 48) = d
      BY <3>1, PlainDrawn
    <3>3. (code = base /\ h # {}) \/ (code = base + 48 /\ h = {})
      <4>1. code = base + (IF h # {} THEN 0 ELSE 48)
        BY <2>1, <2>2
      <4>2. base + 0 = base
        BY <3>1
      <4>3. CASE h = {}
        BY <4>1, <4>3
      <4>4. CASE h # {}
        <5>1. code = base + 0
          BY <4>1, <4>4
        <5>2. code = base
          BY <4>2, <5>1, Zenon
        <5> QED BY <4>4, <5>2, Zenon
      <4> QED BY <4>3, <4>4
    <3> QED BY <1>4, <3>1, <3>2, <3>3 DEF CodeFits, Greyed
  <2>3. CASE base = 0
    <3>1. lowest(d) \in d
      BY LowestMember
    <3>2. code = oem_base_code_for_dirs({lowest(d)}) + (IF h # {} THEN 0 ELSE 48)
      BY <2>1, <2>3
    <3>3. \A c \in 1..19 : d # Combos[c]
      BY <1>2, <2>3 DEF Singles, Several
    <3> QED BY <1>4, <3>1, <3>2, <3>3, ArrowFits
  <2> QED BY <2>2, <2>3
<1> QED BY <1>3, <1>4
-----------------------------------------------------------------------------
(* Only a lane with its highlights among its directions is ever decoded.   *)
LanesOK == input.kind = "lane" => /\ input.present \in SUBSET Shapes
                                  /\ input.highlight \in SUBSET input.present

LEMMA LanesStayOK == Spec => []LanesOK
<1>1. Init => LanesOK
  <2>1. Init => input = NoLane \/ input.kind # "lane"
    BY DEF Init, Plain, Roundabouts, Turns15, Turns16, TurnsCp
  <2>2. input = NoLane => LanesOK
    BY DEF NoLane, LanesOK
  <2> QED BY <2>1, <2>2 DEF LanesOK
<1>2. InputOK /\ LanesOK /\ [Next]_vars => LanesOK'
  <2> SUFFICES ASSUME InputOK, LanesOK, [Next]_vars PROVE LanesOK'
    OBVIOUS
  <2>1. CASE UNCHANGED vars
    BY <2>1 DEF LanesOK, vars
  <2>2. ASSUME NEW shape \in Shapes, NEW hi \in BOOLEAN, dec_lane_direction(shape, hi)
        PROVE  LanesOK'
    <3>1. input \in Lanes
      BY <2>2 DEF dec_lane_direction, InputOK, Plain, Roundabouts, Turns15, Turns16, TurnsCp
    <3>2. /\ input'.present = input.present \cup {shape}
          /\ input'.highlight \in {input.highlight, input.highlight \cup {shape}}
      BY <2>2, <3>1 DEF dec_lane_direction, Lanes
    <3>3. input.present \in SUBSET Shapes /\ input.highlight \in SUBSET input.present
      BY <2>2 DEF dec_lane_direction, LanesOK
    <3> QED BY <3>2, <3>3 DEF LanesOK
  <2> QED BY <2>1, <2>2 DEF Next
<1> QED BY <1>1, <1>2, InputStaysOK, PTL DEF Spec

(* The codes drawn with the same glyph as a lane's code.                   *)
LEMMA AlikeFits ==
    ASSUME NEW code \in (1..67) \ (20..22), NEW c \in 1..67
    PROVE  /\ oem_lane_glyph(c, TableA) = oem_lane_glyph(code, TableA)
                 => (c \in Greyed) = (code \in Greyed)
           /\ oem_lane_glyph(c, TableB) = oem_lane_glyph(code, TableB)
                 => (c \in Greyed) = (code \in Greyed)
           /\ code \in Direct /\ oem_lane_glyph(c, TableB) = oem_lane_glyph(code, TableB)
                 => c \in Direct /\ One(c) = One(code)
           /\ code \in Direct /\ oem_lane_glyph(c, TableA) = oem_lane_glyph(code, TableA)
                 => c \in Direct \cup (8..22) /\ (c \in Direct => Hand(One(c)) = Hand(One(code)))
<1>1. /\ oem_lane_glyph(c, TableA) = TableA[c] /\ oem_lane_glyph(c, TableB) = TableB[c]
      /\ oem_lane_glyph(code, TableA) = TableA[code] /\ oem_lane_glyph(code, TableB) = TableB[code]
  BY DEF oem_lane_glyph
<1>2. TableA[c] = TableA[code] => (c \in Greyed <=> code \in Greyed)
  BY GreyGlyphs, Zenon
<1>3. TableB[c] = TableB[code] => (c \in Greyed <=> code \in Greyed)
  BY GreyGlyphs, Zenon
<1>4. code \in Direct => code \notin Greyed
  BY DEF Direct, Singles, Details, Greyed
<1>5. c \notin Greyed => c \in 1..48
  BY DEF Greyed
<1>6. c \in 1..48 => c \in Direct \cup (8..22)
  BY DEF Direct, Singles, Details
<1>7. code \in Direct /\ TableB[c] = TableB[code] => c \in Direct /\ One(c) = One(code)
  BY <1>3, <1>4, <1>5, SameTakenB
<1>8. code \in Direct /\ TableA[c] = TableA[code]
         => c \in Direct \cup (8..22) /\ (c \in Direct => Hand(One(c)) = Hand(One(code)))
  BY <1>2, <1>4, <1>5, <1>6, HandOfGlyph, Zenon
<1>9. (c \in Greyed <=> code \in Greyed) => (c \in Greyed) = (code \in Greyed)
  OBVIOUS
<1> QED BY <1>1, <1>2, <1>3, <1>7, <1>8, <1>9

(* No code of a lane shares a glyph of the basic table with the three that *)
(* no lane gets.                                                           *)
LEMMA NoLaneCode ==
    ASSUME NEW code \in Direct, NEW c \in 20..22
    PROVE  TableA[c] # TableA[code]
BY DEF TableA, Direct, Singles, Details

(* What a lane is drawn as, whichever directions it has: all its arrows    *)
(* where a code has them, grey exactly without a highlight, and a single   *)
(* highlighted direction singled out on both clusters (hud_lane.h:164-332, *)
(* hud_nav16.cpp:99-124).                                                  *)
THEOREM LanesFaithful == Spec => []LaneFaithful
<1>1. LanesOK => LaneFaithful
  <2> SUFFICES ASSUME LanesOK, input.kind = "lane", input.present # {}
               PROVE  LaneFaithful
    BY DEF LaneFaithful
  <2>1. PICK P \in SUBSET Shapes, H \in SUBSET Shapes :
            P = input.present /\ H = input.highlight /\ P # {} /\ H \in SUBSET P
    BY DEF LanesOK
  <2>2. PICK d, h, code : d = DirsOf(P) /\ h = DirsOf(H) /\ code = oem_lane_code_for_aa(P, H)
    OBVIOUS
  <2>3. /\ d \in SUBSET Dirs /\ d # {} /\ h \in SUBSET d /\ IsFiniteSet(h)
        /\ h = {} <=> H = {}
    BY <2>1, <2>2, DirsOfShapes
  <2>4. code = CodeOf(d, h)
    BY <2>1, <2>2, LaneCodeOf
  <2>5. CodeFits(code, d, h)
    BY <2>3, <2>4, LaneFits
  <2> DEFINE alike(table) ==
               {c \in 1..67 : oem_lane_glyph(c, table) = oem_lane_glyph(code, table)}
  <2>6. IF d \in {Combos[c] : c \in 1..19} THEN Drawn(code) = d ELSE Drawn(code) \subseteq d
    BY <2>5 DEF CodeFits
  <2>7. \A table \in {TableA, TableB} : \A c \in alike(table) : (c \in Greyed) = (H = {})
    <3>1. (code \in Greyed) = (H = {})
      BY <2>3, <2>5 DEF CodeFits
    <3>2. code \in (1..67) \ (20..22)
      BY <2>5 DEF CodeFits
    <3>3. ASSUME NEW c \in alike(TableA) PROVE (c \in Greyed) = (H = {})
      <4>1. (c \in Greyed) = (code \in Greyed)
        BY <3>2, AlikeFits
      <4> QED BY <3>1, <4>1, Zenon
    <3>4. ASSUME NEW c \in alike(TableB) PROVE (c \in Greyed) = (H = {})
      <4>1. (c \in Greyed) = (code \in Greyed)
        BY <3>2, AlikeFits
      <4> QED BY <3>1, <4>1, Zenon
    <3> QED BY <3>3, <3>4, Zenon
  <2>8. ASSUME Cardinality(h) = 1
        PROVE  /\ Taken(code) = h
               /\ \A c \in alike(TableB) : Taken(c) = h
               /\ \A c \in alike(TableA) \ 8..19 : {Hand(x) : x \in Taken(c)} = {Hand(x) : x \in h}
    <3>1. code \in Direct /\ {One(code)} = h /\ code \in (1..67) \ (20..22)
      BY <2>5, <2>8 DEF CodeFits
    <3>2. Taken(code) = h
      BY <3>1, DirectTaken
    <3>3. ASSUME NEW c \in alike(TableB) PROVE Taken(c) = h
      <4>1. c \in Direct /\ One(c) = One(code)
        BY <3>1, AlikeFits
      <4> QED BY <3>1, <4>1, DirectTaken
    <3>4. ASSUME NEW c \in alike(TableA), c \notin 8..19
          PROVE  {Hand(x) : x \in Taken(c)} = {Hand(x) : x \in h}
      <4>1. c \in Direct \cup (8..22) /\ (c \in Direct => Hand(One(c)) = Hand(One(code)))
        BY <3>1, AlikeFits
      <4>2. c \notin 20..22
        BY <3>1, NoLaneCode DEF oem_lane_glyph
      <4>3. c \in Direct /\ Taken(c) = {One(c)}
        BY <3>4, <4>1, <4>2, DirectTaken
      <4> QED BY <3>1, <4>1, <4>3
    <3> QED BY <3>2, <3>3, <3>4
  <2> QED BY <2>1, <2>2, <2>6, <2>7, <2>8 DEF LaneFaithful, DirsOf
<1> QED BY <1>1, LanesStayOK, PTL
-----------------------------------------------------------------------------
(* Turns.  The glyph of a meaning, the same for the three protocols.       *)

TurnNames == {"depart", "straight", "slight", "turn", "sharp", "uturn", "offramp", "fork",
              "merge", "dest"}
Meanings == {m \in [turn : TurnNames, side : {"left", "right", "none"}] :
                m.turn = "straight" => m.side = "none"}

ByTurn(turn) == CASE turn = "depart"  -> <<35, 36, 12>>
                  [] turn = "slight"  -> <<4, 5, 1>>
                  [] turn = "turn"    -> <<2, 3, 1>>
                  [] turn = "sharp"   -> <<11, 9, 1>>
                  [] turn = "uturn"   -> <<13, 10, 1>>
                  [] turn = "offramp" -> <<30, 7, 1>>
                  [] turn = "fork"    -> <<15, 14, 1>>
                  [] turn = "merge"   -> <<16, 17, 1>>
                  [] turn = "dest"    -> <<33, 34, 8>>
                  [] OTHER            -> <<1, 1, 1>>
Column(side) == CASE side = "left" -> 1 [] side = "right" -> 2 [] OTHER -> 3
TurnGlyph(m) == ByTurn(m.turn)[Column(m.side)]

LEMMA ByTurnRows ==
    /\ ByTurn("depart") = <<35, 36, 12>> /\ ByTurn("straight") = <<1, 1, 1>>
    /\ ByTurn("slight") = <<4, 5, 1>> /\ ByTurn("turn") = <<2, 3, 1>>
    /\ ByTurn("sharp") = <<11, 9, 1>> /\ ByTurn("uturn") = <<13, 10, 1>>
    /\ ByTurn("offramp") = <<30, 7, 1>> /\ ByTurn("fork") = <<15, 14, 1>>
    /\ ByTurn("merge") = <<16, 17, 1>> /\ ByTurn("dest") = <<33, 34, 8>>
BY SMTT(60) DEF ByTurn

(* The glyphs of an input without a meaning: a roundabout, or none.        *)
OtherIcons == {0, 1, 18, 37, 43, 49, 55}

LEMMA MeansRow ==
    ASSUME NEW turn \in TurnNames, NEW l \in BOOLEAN, NEW r \in BOOLEAN
    PROVE  /\ Means(turn, l, r) \in Meanings
           /\ TurnGlyph(Means(turn, l, r)) = ByTurn(turn)[IF l THEN 1 ELSE IF r THEN 2 ELSE 3]
<1>1. CASE turn = "straight"
  <2>1. Means(turn, l, r) = [turn |-> "straight", side |-> "none"]
    BY <1>1 DEF Means
  <2>2. ByTurn(turn) = <<1, 1, 1>>
    BY <1>1, ByTurnRows
  <2>3. Column("none") = 3
    BY DEF Column
  <2> QED BY <1>1, <2>1, <2>2, <2>3 DEF TurnGlyph, Meanings, TurnNames
<1>2. CASE turn # "straight"
  <2>1. PICK side \in {"left", "right", "none"} :
            side = IF l THEN "left" ELSE IF r THEN "right" ELSE "none"
    OBVIOUS
  <2>2. Means(turn, l, r) = [turn |-> turn, side |-> side]
    BY <1>2, <2>1 DEF Means
  <2>3. Column(side) = IF l THEN 1 ELSE IF r THEN 2 ELSE 3
    BY <2>1 DEF Column
  <2>4. Means(turn, l, r) \in Meanings
    BY <1>2, <2>2 DEF Meanings
  <2>5. Means(turn, l, r).turn = turn /\ Means(turn, l, r).side = side
    BY <2>2
  <2> QED BY <2>3, <2>4, <2>5 DEF TurnGlyph
<1> QED BY <1>1, <1>2

LEMMA EventRows ==
    ASSUME NEW e \in 1..10
    PROVE  Events[e] \in TurnNames /\ TurnIcons[e + 1] = ByTurn(Events[e])
<1>1. Events[e] \in TurnNames
  BY DEF Events, TurnNames
<1>2. TurnIcons[e + 1] = ByTurn(Events[e])
  BY SMTT(30) DEF Events, ByTurn, TurnIcons
<1> QED BY <1>1, <1>2

(* An input is drawn as what it means, and as one of a few other glyphs if *)
(* it means nothing.                                                       *)
DrawnAsMeant(t) ==
    \/ Meaning(t) \in Meanings /\ Icon(t) = TurnGlyph(Meaning(t))
    \/ Meaning(t).turn = "unknown" /\ Icon(t) \in OtherIcons

LEMMA Drawn15 ==
    ASSUME NEW t \in Turns15(0..20, {0})
    PROVE  DrawnAsMeant(t)
<1>1. PICK e \in 0..20, s \in 0..4 : t = [kind |-> "1.5", event |-> e, side |-> s, angle |-> 0]
  BY DEF Turns15
<1>2. t.kind = "1.5" /\ t.event = e /\ t.side = s /\ t.angle = 0
  BY <1>1
<1>3. PICK l \in BOOLEAN, r \in BOOLEAN : l = (s = 1) /\ r = (s = 2)
  OBVIOUS
<1>4. PICK col \in 1..3 : col = IF s \in 1..3 THEN s ELSE 3
  OBVIOUS
<1>5. col = IF l THEN 1 ELSE IF r THEN 2 ELSE 3
  <2>1. (l <=> s = 1) /\ (r <=> s = 2)
    BY <1>3, Zenon
  <2> QED BY <1>4, <2>1
<1>6. ASSUME NEW turn \in TurnNames, e # 13, Meaning(t) = Means(turn, l, r),
             e \in 0..19, TurnIcons[e + 1] = ByTurn(turn)
      PROVE  DrawnAsMeant(t)
  <2>1. Icon(t) = TurnIcons[e + 1][col]
    BY <1>2, <1>4, <1>6 DEF Icon, compute_turn_icon, kTurnIcons
  <2> QED BY <1>5, <1>6, <2>1, MeansRow DEF DrawnAsMeant
<1>7. CASE e \in 1..10
  <2>1. Meaning(t) = Means(Events[e], l, r)
    BY <1>2, <1>3, <1>7 DEF Meaning
  <2> QED BY <1>6, <1>7, <2>1, EventRows
<1>8. CASE e = 14
  <2>1. Meaning(t) = Means("straight", l, r)
    BY <1>2, <1>3, <1>8 DEF Meaning
  <2>2. TurnIcons[15] = ByTurn("straight")
    BY ByTurnRows DEF TurnIcons
  <2> QED BY <1>6, <1>8, <2>1, <2>2 DEF TurnNames
<1>9. CASE e = 19
  <2>1. Meaning(t) = Means("dest", l, r)
    BY <1>2, <1>3, <1>9 DEF Meaning
  <2>2. TurnIcons[20] = ByTurn("dest")
    BY ByTurnRows DEF TurnIcons
  <2> QED BY <1>6, <1>9, <2>1, <2>2 DEF TurnNames
<1>10. CASE e \notin 1..10 /\ e # 14 /\ e # 19
  <2>1. Meaning(t).turn = "unknown"
    BY <1>2, <1>10 DEF Meaning, Unknown
  <2>2. CASE e = 13
    <3>1. roundabout_icon(0, TRUE) = 49 /\ roundabout_icon(0, FALSE) = 37
      BY DEF roundabout_icon
    <3>2. Icon(t) = roundabout_icon(0, l)
      BY <1>2, <1>3, <2>2 DEF Icon, compute_turn_icon
    <3>3. l = TRUE \/ l = FALSE
      BY <1>3, Zenon
    <3>4. Icon(t) = 49 \/ Icon(t) = 37
      BY <3>1, <3>2, <3>3, Zenon
    <3> QED BY <2>1, <3>4 DEF DrawnAsMeant, OtherIcons
  <2>3. CASE e # 13
    <3>1. Icon(t) = IF e \in 0..19 THEN TurnIcons[e + 1][col] ELSE 0
      BY <1>2, <1>4, <2>3 DEF Icon, compute_turn_icon, kTurnIcons
    <3>2. \A k \in {0, 11, 12, 15, 16, 17, 18} : TurnIcons[k + 1] = <<0, 0, 0>>
      BY DEF TurnIcons
    <3>3. Icon(t) = 0
      BY <1>10, <2>3, <3>1, <3>2
    <3> QED BY <2>1, <3>3 DEF DrawnAsMeant, OtherIcons
  <2> QED BY <2>2, <2>3
<1> QED BY <1>7, <1>8, <1>9, <1>10

(* Protocol 1.6: the types with a meaning, their turns and their sides.    *)
Left16 == {3, 41} \cup {5, 7, 9, 11, 13, 15, 17, 19, 21, 23, 25, 27}
Right16 == {4, 42} \cup {6, 8, 10, 12, 14, 16, 18, 20, 22, 24, 26, 28}

LEMMA TypeRows ==
    ASSUME NEW k \in 1..42
    PROVE  \/ /\ Types16[k] \in TurnNames
              /\ ManeuverGlyphs[k] =
                    ByTurn(Types16[k])[IF k \in Left16 THEN 1 ELSE IF k \in Right16 THEN 2 ELSE 3]
           \/ Types16[k] = "unknown" /\ ManeuverGlyphs[k] \in OtherIcons
<1>1. \/ k = 1 /\ Types16[k] = "depart"
      \/ k \in {2, 36} /\ Types16[k] = "straight"
      \/ k \in {5, 6, 13, 14} /\ Types16[k] = "slight"
      \/ k \in {7, 8, 15, 16} /\ Types16[k] = "turn"
      \/ k \in {9, 10, 17, 18} /\ Types16[k] = "sharp"
      \/ k \in {11, 12, 19, 20} /\ Types16[k] = "uturn"
      \/ k \in 21..24 /\ Types16[k] = "offramp"
      \/ k \in {3, 4, 25, 26} /\ Types16[k] = "fork"
      \/ k \in 27..29 /\ Types16[k] = "merge"
      \/ k \in 39..42 /\ Types16[k] = "dest"
      \/ k \in (30..35) \cup {37, 38} /\ Types16[k] = "unknown"
  BY SMTT(60) DEF Types16
<1>2. PICK col \in 1..3 : col = IF k \in Left16 THEN 1 ELSE IF k \in Right16 THEN 2 ELSE 3
  OBVIOUS
<1>3. /\ k \in {1, 2, 36, 29} \cup (30..40) => col = 3
      /\ k \in {5, 7, 9, 11, 13, 15, 17, 19, 21, 23, 25, 27, 3, 41} => col = 1
      /\ k \in {6, 8, 10, 12, 14, 16, 18, 20, 22, 24, 26, 28, 4, 42} => col = 2
  BY <1>2, SMTT(30) DEF Left16, Right16
<1>4. CASE k \in {1, 2, 36, 29} \cup (30..40)
  BY <1>1, ByTurnRows, <1>2, <1>3, <1>4, SMTT(30) DEF ManeuverGlyphs, TurnNames, OtherIcons
<1>5. CASE k \in {5, 7, 9, 11, 13, 15, 17, 19, 21, 23, 25, 27, 3, 41}
  BY <1>1, ByTurnRows, <1>2, <1>3, <1>5, SMTT(30) DEF ManeuverGlyphs, TurnNames
<1>6. CASE k \in {6, 8, 10, 12, 14, 16, 18, 20, 22, 24, 26, 28, 4, 42}
  BY <1>1, ByTurnRows, <1>2, <1>3, <1>6, SMTT(30) DEF ManeuverGlyphs, TurnNames
<1> QED BY <1>4, <1>5, <1>6

LEMMA Drawn16 ==
    ASSUME NEW t \in Turns16(0..43, {0})
    PROVE  DrawnAsMeant(t)
<1>1. PICK k \in 0..43 : t = [kind |-> "1.6", type |-> k, angle |-> 0]
  BY DEF Turns16
<1>2. t.kind = "1.6" /\ t.type = k /\ t.angle = 0
  BY <1>1
<1>3. CASE k \notin 1..42
  <2>1. Meaning(t).turn = "unknown"
    BY <1>2, <1>3 DEF Meaning, Unknown
  <2>2. Icon(t) = 18
    BY <1>2, <1>3 DEF Icon, hud_nav16_glyph, kManeuverGlyph, HUD_EMPTY
  <2> QED BY <2>1, <2>2 DEF DrawnAsMeant, OtherIcons
<1>4. CASE k \in 1..42
  <2> DEFINE L == k \in Left16
             R == k \in Right16
  <2>0. L \in BOOLEAN /\ R \in BOOLEAN
    OBVIOUS
  <2> HIDE DEF L, R
  <2>1. PICK l \in BOOLEAN, r \in BOOLEAN : l = L /\ r = R
    BY <2>0, Zenon
  <2>2. (l <=> k \in Left16) /\ (r <=> k \in Right16)
    BY <2>1, Zenon DEF L, R
  <2>3. Meaning(t) = Means(Types16[k], l, r)
    BY <1>2, <1>4, <2>1 DEF Meaning, L, R, Left16, Right16
  <2>4. CASE k \in 32..35
    <3>1. k \notin Left16 /\ k \notin Right16 /\ Types16[k] = "unknown"
      BY <2>4, SMTT(30) DEF Left16, Right16, Types16
    <3>2. Meaning(t).turn = "unknown"
      BY <2>3, <3>1 DEF Means
    <3>3. roundabout_glyph(0, TRUE) = 49 /\ roundabout_glyph(0, FALSE) = 37
      BY DEF roundabout_glyph
    <3> DEFINE B == k \in {32, 33}
    <3>0. B \in BOOLEAN
      OBVIOUS
    <3> HIDE DEF B
    <3>4. PICK b \in BOOLEAN : b = B
      BY <3>0, Zenon
    <3>5. Icon(t) = roundabout_glyph(0, b)
      BY <1>2, <2>4, <3>4 DEF Icon, hud_nav16_glyph, B
    <3>6. b = TRUE \/ b = FALSE
      BY Zenon
    <3>7. Icon(t) = 49 \/ Icon(t) = 37
      BY <3>3, <3>5, <3>6, Zenon
    <3> QED BY <3>2, <3>7 DEF DrawnAsMeant, OtherIcons
  <2>5. CASE k \notin 32..35
    <3>1. Icon(t) = ManeuverGlyphs[k]
      BY <1>2, <1>4, <2>5 DEF Icon, hud_nav16_glyph, kManeuverGlyph
    <3>2. CASE Types16[k] \in TurnNames
      <4>1. Types16[k] # "unknown"
        BY <3>2 DEF TurnNames
      <4>2. ManeuverGlyphs[k] = ByTurn(Types16[k])[IF l THEN 1 ELSE IF r THEN 2 ELSE 3]
        BY <1>4, <2>2, <4>1, TypeRows
      <4> QED BY <2>3, <3>1, <3>2, <4>2, MeansRow DEF DrawnAsMeant
    <3>3. CASE Types16[k] \notin TurnNames
      <4>1. Types16[k] = "unknown" /\ ManeuverGlyphs[k] \in OtherIcons
        BY <1>4, <3>3, TypeRows
      <4>2. Meaning(t).turn = "unknown"
        BY <2>3, <4>1 DEF Means
      <4> QED BY <3>1, <4>1, <4>2 DEF DrawnAsMeant
    <3> QED BY <3>2, <3>3
  <2> QED BY <2>4, <2>5
<1> QED BY <1>3, <1>4

(* CarPlay: the event classify gives a type outside a roundabout, and the  *)
(* turn the type stands for.                                               *)
LEMMA ClassRows ==
    ASSUME NEW k \in 0..54, NEW drive \in 0..1,
           NEW c, c = classify(k, 0, 0, drive), k \notin {6, 7, 19} \cup 28..46
    PROVE  \/ /\ TypesCp[k] \in TurnNames
              /\ c.event \in 1..19 /\ c.event # 13
              /\ TurnIcons[c.event + 1] = ByTurn(TypesCp[k])
           \/ /\ TypesCp[k] = "unknown"
              /\ \/ c.event = 14
                 \/ c.event = 16
<1>1. c.event = CASE k \in {1, 2, 20, 21} -> 4
                  [] k \in {47, 48} -> 5
                  [] k \in {49, 50} -> 3
                  [] k \in {13, 14, 51, 52, 53} -> 9
                  [] k \in {4, 26} -> 6
                  [] k \in {8, 22, 23} -> 8
                  [] k = 9 -> 7
                  [] k \in {15, 16, 17} -> 16
                  [] k \in {10, 12, 24, 25, 27} -> 19
                  [] OTHER -> 14
  BY DEF classify, EV_STRAIGHT
<1>2. \/ c.event = 4 /\ TypesCp[k] = "turn"
      \/ c.event = 5 /\ TypesCp[k] = "sharp"
      \/ c.event = 3 /\ TypesCp[k] = "slight"
      \/ c.event = 9 /\ TypesCp[k] = "fork"
      \/ c.event = 6 /\ TypesCp[k] = "uturn"
      \/ c.event = 8 /\ TypesCp[k] = "offramp"
      \/ c.event = 7 /\ TypesCp[k] = "turn"
      \/ c.event = 16 /\ TypesCp[k] = "unknown"
      \/ c.event = 19 /\ TypesCp[k] = "dest"
      \/ c.event = 14 /\ TypesCp[k] \in {"straight", "unknown"}
  BY <1>1, SMTT(60) DEF TypesCp
<1>3. /\ TurnIcons[5] = ByTurn("turn") /\ TurnIcons[6] = ByTurn("sharp")
      /\ TurnIcons[4] = ByTurn("slight") /\ TurnIcons[10] = ByTurn("fork")
      /\ TurnIcons[7] = ByTurn("uturn") /\ TurnIcons[9] = ByTurn("offramp")
      /\ TurnIcons[8] = ByTurn("turn") /\ TurnIcons[20] = ByTurn("dest")
      /\ TurnIcons[15] = ByTurn("straight")
  BY ByTurnRows DEF TurnIcons
<1> QED BY <1>2, <1>3, SMTT(30) DEF TurnNames

LEMMA ClassSide ==
    ASSUME NEW k \in 0..54, NEW drive \in 0..1, NEW l \in BOOLEAN, NEW r \in BOOLEAN,
           NEW c, c = classify(k, 0, 0, drive), k \notin {6, 7, 19} \cup 28..46,
           l <=> (k \in {1, 20, 47, 49, 13, 52, 22, 24} \/ (k \in {4, 26} /\ drive = 0)),
           r <=> (k \in {2, 21, 48, 50, 14, 53, 23, 25} \/ (k \in {4, 26} /\ drive = 1))
    PROVE  c.side = IF l THEN 1 ELSE IF r THEN 2 ELSE 3
<1>1. c.side = CASE k \in LeftTypes -> 1
                 [] k \in RightTypes -> 2
                 [] k \in {4, 26} -> IF drive = 1 THEN 2 ELSE 1
                 [] OTHER -> 3
  BY DEF classify
<1> QED BY <1>1, SMTT(30) DEF LeftTypes, RightTypes

LEMMA DrawnCp ==
    ASSUME NEW t \in TurnsCp(0..54, Int), t \in TurnsCp(0..54, {0}) \/ t.type = 1
    PROVE  \/ DrawnAsMeant(t)
           \/ Meaning(t).turn = "unknown" /\ t \notin TurnsCp(0..54, {0})
<1>1. PICK k \in 0..54, j \in 0..1, a \in Int, drive \in 0..1 :
          t = [kind |-> "CarPlay", type |-> k, junction |-> j, angle |-> a, drive |-> drive]
  BY DEF TurnsCp
<1>2. t.kind = "CarPlay" /\ t.type = k /\ t.junction = j /\ t.angle = a /\ t.drive = drive
  BY <1>1
<1>3. PICK c : c = classify(k, j, a, drive)
  OBVIOUS
<1>4. Icon(t) = CpIcon(c)
  BY <1>2, <1>3 DEF Icon
<1>5. CASE j = 1 \/ k \in {6, 7, 19} \cup 28..46
  <2>1. Meaning(t).turn = "unknown"
    <3>1. CASE j = 1
      BY <1>2, <3>1 DEF Meaning, Unknown
    <3>2. CASE j # 1
      <4>1. TypesCp[k] = "unknown"
        BY <1>5, <3>2, SMTT(30) DEF TypesCp
      <4> QED BY <1>2, <3>2, <4>1 DEF Meaning, Means
    <3> QED BY <3>1, <3>2
  <2>2. c.event = 13 /\ c.angle = a % 360
    BY <1>3, <1>5 DEF classify
  <2>3. ASSUME a = 0 PROVE DrawnAsMeant(t)
    <3>1. c.angle = 0
      BY <2>2, <2>3
    <3>2. CpRoundaboutIcon(0, TRUE) = 55 /\ CpRoundaboutIcon(0, FALSE) = 43
      BY DEF CpRoundaboutIcon
    <3>3. PICK b \in BOOLEAN : b = (c.side = 1)
      BY Zenon
    <3>4. Icon(t) = CpRoundaboutIcon(0, b)
      BY <1>4, <2>2, <3>1, <3>3 DEF CpIcon
    <3>5. Icon(t) \in {43, 55}
      BY <3>2, <3>3, <3>4
    <3> QED BY <2>1, <3>5 DEF DrawnAsMeant, OtherIcons
  <2>4. a # 0 => t \notin TurnsCp(0..54, {0})
    BY <1>2 DEF TurnsCp
  <2> QED BY <2>1, <2>3, <2>4
<1>6. CASE j = 0 /\ k \notin {6, 7, 19} \cup 28..46
  <2>1. c = classify(k, 0, 0, drive) /\ c.event # 13
    BY <1>3, <1>6 DEF classify, EV_STRAIGHT
  <2> DEFINE L == k \in {1, 20, 47, 49, 13, 52, 22, 24} \/ (k \in {4, 26} /\ drive = 0)
             R == k \in {2, 21, 48, 50, 14, 53, 23, 25} \/ (k \in {4, 26} /\ drive = 1)
  <2>2. PICK l \in BOOLEAN, r \in BOOLEAN : l = L /\ r = R
    BY Zenon
  <2>3. (l <=> L) /\ (r <=> R)
    BY <2>2, Zenon
  <2>4. Meaning(t) = Means(TypesCp[k], l, r)
    BY <1>2, <1>6, <2>2 DEF Meaning
  <2>5. PICK col \in 1..3 : col = c.side /\ col = IF l THEN 1 ELSE IF r THEN 2 ELSE 3
    BY <1>6, <2>1, <2>3, ClassSide
  <2>6. Icon(t) = kTurnIcons(c.event, col)
    BY <1>4, <2>1, <2>5 DEF CpIcon
  <2>7. CASE TypesCp[k] \in TurnNames
    <3>1. TypesCp[k] # "unknown"
      BY <2>7 DEF TurnNames
    <3>2. c.event \in 1..19 /\ TurnIcons[c.event + 1] = ByTurn(TypesCp[k])
      <4>1. c = classify(k, 0, 0, drive) /\ k \notin {6, 7, 19} \cup 28..46
        BY <1>6, <2>1
      <4> HIDE DEF L, R
      <4>2. c.event \in 1..19
        BY <3>1, <4>1, ClassRows
      <4>3. TurnIcons[c.event + 1] = ByTurn(TypesCp[k])
        BY <3>1, <4>1, ClassRows, SMTT(60)
      <4> QED BY <4>2, <4>3
    <3>3. Icon(t) = ByTurn(TypesCp[k])[col]
      BY <2>6, <3>2 DEF kTurnIcons
    <3> QED BY <2>4, <2>5, <2>7, <3>3, MeansRow DEF DrawnAsMeant
  <2>8. CASE TypesCp[k] \notin TurnNames
    <3>1. TypesCp[k] = "unknown" /\ c.event \in {14, 16}
      BY <1>6, <2>1, <2>8, ClassRows
    <3>2. Meaning(t).turn = "unknown"
      BY <2>4, <3>1 DEF Means
    <3>3. TurnIcons[15] = <<1, 1, 1>> /\ TurnIcons[17] = <<0, 0, 0>>
      BY DEF TurnIcons
    <3>4. Icon(t) \in {0, 1}
      BY <2>6, <3>1, <3>3 DEF kTurnIcons
    <3> QED BY <3>2, <3>4 DEF DrawnAsMeant, OtherIcons
  <2> QED BY <2>7, <2>8
<1> QED BY <1>5, <1>6

(* A glyph with a side stands for one meaning only, and its mirror image   *)
(* for the mirrored one.                                                   *)
Back(g) == CASE g = 35 -> <<"depart", "left">>  [] g = 36 -> <<"depart", "right">>
             [] g = 4  -> <<"slight", "left">>  [] g = 5  -> <<"slight", "right">>
             [] g = 2  -> <<"turn", "left">>    [] g = 3  -> <<"turn", "right">>
             [] g = 11 -> <<"sharp", "left">>   [] g = 9  -> <<"sharp", "right">>
             [] g = 13 -> <<"uturn", "left">>   [] g = 10 -> <<"uturn", "right">>
             [] g = 30 -> <<"offramp", "left">> [] g = 7  -> <<"offramp", "right">>
             [] g = 15 -> <<"fork", "left">>    [] g = 14 -> <<"fork", "right">>
             [] g = 16 -> <<"merge", "left">>   [] g = 17 -> <<"merge", "right">>
             [] g = 33 -> <<"dest", "left">>    [] g = 34 -> <<"dest", "right">>
             [] OTHER  -> <<"none", "none">>

LEMMA SidedGlyph ==
    ASSUME NEW m \in Meanings, m.side # "none"
    PROVE  /\ TurnGlyph(m) \notin OtherIcons \cup {8, 12}
           /\ Back(TurnGlyph(m)) = <<m.turn, m.side>>
           /\ {TurnGlyph(Mirrored(m)), TurnGlyph(m)} \in MirrorGlyphs
<1>1. PICK turn \in TurnNames \ {"straight"}, side \in {"left", "right"} :
          m = [turn |-> turn, side |-> side]
  BY DEF Meanings
<1>2. m.turn = turn /\ m.side = side
  BY <1>1
<1>3. PICK g, h : g = ByTurn(turn)[1] /\ h = ByTurn(turn)[2]
  OBVIOUS
<1>4. \/ side = "left" /\ TurnGlyph(m) = g /\ TurnGlyph(Mirrored(m)) = h
      \/ side = "right" /\ TurnGlyph(m) = h /\ TurnGlyph(Mirrored(m)) = g
  <2>1. Column("left") = 1 /\ Column("right") = 2
    BY DEF Column
  <2>2. Mirrored(m) = [turn |-> turn, side |-> IF side = "left" THEN "right" ELSE "left"]
    BY <1>1, <1>2 DEF Mirrored
  <2> QED BY <1>1, <1>2, <1>3, <2>1, <2>2 DEF TurnGlyph
<1>5. /\ turn = "depart" => g = 35 /\ h = 36
      /\ turn = "slight" => g = 4 /\ h = 5
      /\ turn = "turn" => g = 2 /\ h = 3
      /\ turn = "sharp" => g = 11 /\ h = 9
      /\ turn = "uturn" => g = 13 /\ h = 10
      /\ turn = "offramp" => g = 30 /\ h = 7
      /\ turn = "fork" => g = 15 /\ h = 14
      /\ turn = "merge" => g = 16 /\ h = 17
      /\ turn = "dest" => g = 33 /\ h = 34
  BY <1>3, ByTurnRows
<1>6. g \notin OtherIcons \cup {8, 12} /\ h \notin OtherIcons \cup {8, 12}
  BY <1>5 DEF TurnNames, OtherIcons
<1>7. Back(g) = <<turn, "left">> /\ Back(h) = <<turn, "right">>
  BY <1>5, SMTT(60) DEF TurnNames, Back
<1>8. {g, h} \in MirrorGlyphs
  BY <1>5 DEF TurnNames, MirrorGlyphs
<1> QED BY <1>2, <1>4, <1>6, <1>7, <1>8

LEMMA UnsidedGlyph ==
    ASSUME NEW m \in Meanings, m.side = "none"
    PROVE  TurnGlyph(m) \in {1, 8, 12}
<1>1. Column(m.side) = 3
  BY DEF Column
<1>2. m.turn \in TurnNames
  BY DEF Meanings
<1>3. ByTurn(m.turn)[3] \in {1, 8, 12}
  BY <1>2, ByTurnRows DEF TurnNames
<1> QED BY <1>1, <1>3 DEF TurnGlyph

LEMMA SameGlyphSameMeaning ==
    ASSUME NEW m \in Meanings, NEW n \in Meanings, m.side # "none", TurnGlyph(n) = TurnGlyph(m)
    PROVE  n = m
<1>1. n.side # "none"
  BY SidedGlyph, UnsidedGlyph DEF OtherIcons
<1>2. n.turn = m.turn /\ n.side = m.side
  <2>1. Back(TurnGlyph(n)) = <<n.turn, n.side>>
    BY <1>1, SidedGlyph
  <2>2. Back(TurnGlyph(m)) = <<m.turn, m.side>>
    BY SidedGlyph
  <2> QED BY <2>1, <2>2
<1> QED BY <1>2 DEF Meanings

(* Whatever reports a turn, the same glyph is drawn for it, the mirrored   *)
(* one for the turn to the other side, and another for any other turn      *)
(* (hud_nav.h:86-172, hud_nav16.cpp:204-279, nav.cpp:154-208,              *)
(* hud_send.cpp:134-176).                                                  *)
THEOREM TurnsFaithful == Spec => []SameTurnSameGlyph
<1>1. ASSUME NEW t \in Plain PROVE DrawnAsMeant(t)
  <2>1. t \in TurnsCp(0..54, {0}) => DrawnAsMeant(t)
    <3>1. t \in TurnsCp(0..54, {0}) => t \in TurnsCp(0..54, Int)
      BY DEF TurnsCp
    <3> QED BY <3>1, DrawnCp
  <2> QED BY <2>1, Drawn15, Drawn16 DEF Plain
<1>2. ASSUME InputOK, input.kind # "lane", Meaning(input).turn # "unknown"
      PROVE  Meaning(input) \in Meanings /\ Icon(input) = TurnGlyph(Meaning(input))
  <2>1. CASE input \in Plain
    BY <1>1, <1>2, <2>1 DEF DrawnAsMeant
  <2>2. CASE input \in Turns15({13}, Angles \cap 0..359)
    <3>1. Meaning(input) = Unknown
      BY <2>2 DEF Turns15, Meaning
    <3> QED BY <1>2, <3>1 DEF Unknown
  <2>3. CASE input \in Turns16(32..35, Angles)
    <3>1. PICK k \in 32..35 : input.kind = "1.6" /\ input.type = k
      BY <2>3 DEF Turns16
    <3>2. Types16[k] = "unknown"
      BY SMTT(30) DEF Types16
    <3>3. Meaning(input).turn = "unknown"
      BY <3>1, <3>2 DEF Meaning, Means
    <3> QED BY <1>2, <3>3
  <2>4. CASE input \in TurnsCp({1, 6}, Angles)
    <3>1. input \in TurnsCp(0..54, Int) /\ (input.type = 1 \/ input.type = 6)
      <4>1. PICK k \in {1, 6}, j \in 0..1, a \in Angles, d \in 0..1 :
                input = [kind |-> "CarPlay", type |-> k, junction |-> j, angle |-> a, drive |-> d]
        BY <2>4 DEF TurnsCp
      <4>2. a \in Int
        BY AnglesAssumption
      <4> QED BY <4>1, <4>2 DEF TurnsCp
    <3>2. CASE input.type = 1
      BY <1>2, <3>1, <3>2, DrawnCp DEF DrawnAsMeant
    <3>3. CASE input.type = 6
      <4>1. TypesCp[6] = "unknown"
        BY SMTT(30) DEF TypesCp
      <4>2. input.kind = "CarPlay"
        BY <2>4 DEF TurnsCp
      <4>3. Meaning(input).turn = "unknown"
        BY <3>3, <4>1, <4>2 DEF Meaning, Means, Unknown
      <4> QED BY <1>2, <4>3
    <3> QED BY <3>1, <3>2, <3>3
  <2>5. input \notin Lanes
    BY <1>2 DEF Lanes
  <2> QED BY <1>2, <2>1, <2>2, <2>3, <2>4, <2>5 DEF InputOK, Roundabouts
<1>3. InputOK => SameTurnSameGlyph
  <2> SUFFICES ASSUME InputOK, input.kind # "lane", Meaning(input).turn # "unknown",
                      NEW t \in Plain
               PROVE  LET m == Meaning(input)
                      IN  /\ Meaning(t) = m => Icon(t) = Icon(input)
                          /\ m.side # "none" /\ Meaning(t) = Mirrored(m)
                                 => {Icon(t), Icon(input)} \in MirrorGlyphs
                          /\ m.side # "none" /\ Icon(t) = Icon(input) => Meaning(t) = m
    BY DEF SameTurnSameGlyph
  <2>1. PICK m : m = Meaning(input)
    OBVIOUS
  <2>2. m \in Meanings /\ Icon(input) = TurnGlyph(m) /\ m.turn # "unknown"
    BY <1>2, <2>1
  <2>3. \/ Meaning(t) \in Meanings /\ Icon(t) = TurnGlyph(Meaning(t))
        \/ Meaning(t).turn = "unknown" /\ Icon(t) \in OtherIcons
    BY <1>1 DEF DrawnAsMeant
  <2>4. Meaning(t) = m => Icon(t) = Icon(input)
    BY <2>2, <2>3
  <2>5. m.side # "none" /\ Meaning(t) = Mirrored(m) => {Icon(t), Icon(input)} \in MirrorGlyphs
    <3>1. Mirrored(m).turn = m.turn
      BY <2>2 DEF Mirrored, Meanings
    <3> QED BY <2>2, <2>3, <3>1, SidedGlyph
  <2>6. m.side # "none" /\ Icon(t) = Icon(input) => Meaning(t) = m
    BY <2>2, <2>3, SidedGlyph, SameGlyphSameMeaning
  <2> QED BY <2>1, <2>4, <2>5, <2>6
<1> QED BY <1>3, InputStaysOK, PTL
=============================================================================

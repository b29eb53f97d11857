--------------------------- MODULE HudMergeProofs ---------------------------
(* The HUD never flickers between the two streams, for any maneuvers,      *)
(* speeds, streets, timeout, clock settings and crashes.                   *)
EXTENDS HudMerge, TLAPS

(* Before the first frame the hooks know nothing and no strip is due;      *)
(* outside the navigation service they never own the display.              *)
Outside ==
    /\ ~gate.done =>
         /\ gate = NoGate /\ ~strip.due
         /\ lastAap.block \in EmptyBlocks
         /\ hud.speed = lastOem.speed /\ g_oem_speed = lastOem.speed
    /\ ~InService => ~g_have_aap /\ g_street_action = "PASSTHROUGH"

(* The hooks' memory is the history: whose frame was last, what it said,   *)
(* and that a lapse is what ends an ownership nobody gave up.              *)
Memory ==
    /\ InService =>
         /\ g_oem_speed = lastOem.speed /\ hud.speed = lastOem.speed
         /\ g_have_aap <=> lastAap.block \notin EmptyBlocks
         /\ g_have_aap => g_aap = lastAap.block
    /\ g_have_aap /\ ~lapsed => age <= Timeout

(* While Android Auto owns the display, the strip that is due will show or *)
(* capture its street, and the street captured is its latest.              *)
OwnedGuidance ==
    Owned =>
        /\ hud.block = lastAap.block
        /\ gate.msg2 /\ ~strip.due =>
             hud.street = Captured(lastAap.street) /\ g_aap_street = Captured(lastAap.street)
        /\ gate.msg2 /\ strip.due =>
             \/ g_street_action = "CAPTURE" /\ strip.street = lastAap.street
             \/ g_street_action = "REPLACE" /\ g_aap_street = Captured(lastAap.street)

(* While it does not, a generation of the built-in navigation is passed    *)
(* on, strip included.                                                     *)
IdleGuidance ==
    lastAap.block \in EmptyBlocks /\ lastOem.latest /\ gate.done =>
        /\ gate.set => hud.block = lastOem.block
        /\ strip.due => g_street_action = "PASSTHROUGH" /\ strip.street = lastOem.street
        /\ gate.msg2 /\ ~strip.due => hud.street = Outbound(lastOem.street)

MergeInv == TypeOK /\ Outside /\ Memory /\ OwnedGuidance /\ IdleGuidance

-----------------------------------------------------------------------------
(* What a maneuver frame leaves of the gate: it is settled, and one that   *)
(* was settled before does not change.                                     *)
LEMMA GateSettled ==
    ASSUME TypeOK, ensure_gate
    PROVE  /\ gate' \in GateOutcomes
           /\ gate'.done
           /\ gate.done => gate' = gate
<1>1. CASE gate.done
  <2>1. gate \in GateOutcomes
    BY <1>1 DEF TypeOK, NoGate
  <2> QED BY <1>1, <2>1 DEF ensure_gate
<1>2. CASE ~gate.done
  BY <1>2 DEF ensure_gate, GateOutcomes
<1> QED BY <1>1, <1>2

LEMMA TypeInit == Init => TypeOK
<1> SUFFICES ASSUME Init PROVE TypeOK
  OBVIOUS
<1>0. /\ gate \in GateOutcomes \cup {NoGate}
      /\ g_have_aap \in BOOLEAN /\ blanks \in BOOLEAN /\ aapUp \in BOOLEAN /\ lapsed \in BOOLEAN
  BY Zenon DEF Init
<1>1. /\ g_aap \in Blocks /\ age \in Ages
      /\ g_street_action \in {"PASSTHROUGH", "CAPTURE", "REPLACE"}
      /\ g_aap_street \in Streets /\ g_oem_speed \in Speeds
      /\ crashes \in Nat /\ sets \in Nat
  BY BlockAssumption, SpeedAssumption, StreetAssumption, BoundsAssumption DEF Init, Ages
<1>2. /\ strip \in [due : BOOLEAN, street : Streets]
      /\ hud \in [block : Blocks, speed : Speeds \cup {Sentinel}, street : Streets]
      /\ lastAap \in [block : Blocks, street : Streets]
      /\ lastOem \in [block : Blocks, speed : Speeds, street : Streets, latest : BOOLEAN]
  BY BlockAssumption, SpeedAssumption, StreetAssumption DEF Init, NotDue
<1> QED BY <1>0, <1>1, <1>2 DEF TypeOK

LEMMA TypeFrame ==
    ASSUME TypeOK, NEW block \in Blocks, NEW speed \in Speeds \cup {Sentinel},
           NEW street \in Streets, SetHUDDisplayMsgReq(block, speed, street)
    PROVE  TypeOK'
<1>1. gate' \in GateOutcomes
  BY GateSettled DEF SetHUDDisplayMsgReq
<1>2. strip' \in [due : BOOLEAN, street : Streets]
  BY DEF SetHUDDisplayMsgReq, Due
<1>3. hud' \in [block : Blocks, speed : Speeds \cup {Sentinel}, street : Streets]
  BY DEF TypeOK, SetHUDDisplayMsgReq, PassFrame, AapFrame, OemFrame, Forward
<1>4. /\ g_have_aap' \in BOOLEAN /\ g_aap' \in Blocks /\ age' \in Ages
      /\ g_street_action' \in {"PASSTHROUGH", "CAPTURE", "REPLACE"}
      /\ g_oem_speed' \in Speeds
  <2>0. 0 \in Ages
    BY BoundsAssumption DEF Ages
  <2>1. CASE PassFrame(block, speed)
    BY <2>1 DEF TypeOK, PassFrame
  <2>2. CASE AapFrame(block)
    BY <2>0, <2>2, Zenon DEF TypeOK, AapFrame
  <2>3. CASE OemFrame(block, speed) /\ speed # Sentinel
    BY <2>3 DEF TypeOK, OemFrame
  <2> QED BY <2>1, <2>2, <2>3, Zenon DEF SetHUDDisplayMsgReq
<1>5. /\ lastAap' \in [block : Blocks, street : Streets]
      /\ lastOem' \in [block : Blocks, speed : Speeds, street : Streets, latest : BOOLEAN]
  <2>1. CASE speed = Sentinel
    <3>1. /\ lastAap' = [block |-> block, street |-> street]
          /\ lastOem' = [lastOem EXCEPT !.latest = FALSE]
      BY <2>1 DEF SetHUDDisplayMsgReq
    <3> QED BY <3>1 DEF TypeOK
  <2>2. CASE speed # Sentinel
    <3>1. /\ lastAap' = lastAap
          /\ lastOem' = [block |-> block, speed |-> speed, street |-> street, latest |-> TRUE]
      BY <2>2 DEF SetHUDDisplayMsgReq
    <3> QED BY <2>2, <3>1 DEF TypeOK
  <2> QED BY <2>1, <2>2
<1>6. lapsed' \in BOOLEAN
  BY Zenon DEF TypeOK, SetHUDDisplayMsgReq
<1> QED BY <1>1, <1>2, <1>3, <1>4, <1>5, <1>6 DEF TypeOK, SetHUDDisplayMsgReq, env

LEMMA TypeStep == TypeOK /\ [Next]_vars => TypeOK'
<1> SUFFICES ASSUME TypeOK, [Next]_vars PROVE TypeOK'
  OBVIOUS
<1>1. CASE AapGeneration
  BY <1>1, TypeFrame DEF AapGeneration
<1>2. CASE OemGeneration
  BY <1>2, TypeFrame DEF OemGeneration
<1>3. CASE SetHUD_Display_Msg2
  BY <1>3, StreetAssumption
     DEF SetHUD_Display_Msg2, TypeOK, Captured, Outbound, NotDue, env, history
<1>4. CASE Tick
  BY <1>4, BoundsAssumption DEF Tick, Pass, TypeOK, Ages, state
<1>5. CASE SetClock
  BY <1>5 DEF SetClock, Pass, TypeOK, state
<1>6. CASE Crash \/ Recover
  <2>1. aapUp' \in BOOLEAN /\ UNCHANGED <<state, age, strip, hud, blanks, sets, history>>
    BY <1>6, Zenon DEF Crash, Recover
  <2>2. crashes' \in Nat
    BY <1>6 DEF Crash, Recover, TypeOK
  <2> QED BY <2>1, <2>2 DEF TypeOK, state, history
<1>7. CASE UNCHANGED vars
  BY <1>7 DEF vars, state, env, history, TypeOK
<1> QED BY <1>1, <1>2, <1>3, <1>4, <1>5, <1>6, <1>7 DEF Next

(* The types of the merge state (merge.cpp:140-185): whatever the two      *)
(* streams send, the speed remembered is one of the built-in navigation's. *)
THEOREM TypeCorrect == Spec => []TypeOK
BY TypeInit, TypeStep, PTL DEF Spec

-----------------------------------------------------------------------------
LEMMA MergeInit == Init => MergeInv
<1> SUFFICES ASSUME Init PROVE MergeInv
  OBVIOUS
<1>1. TypeOK
  BY TypeInit
<1>2. ~gate.done /\ ~InService
  BY DEF Init, NoGate, InService
<1> QED BY <1>1, <1>2
        DEF MergeInv, Outside, Memory, OwnedGuidance, IdleGuidance, Init, Owned, NotDue

(* A frame outside the service is passed on, and nothing is remembered.    *)
LEMMA MergePass ==
    ASSUME MergeInv, NEW block \in Blocks, NEW speed \in Speeds \cup {Sentinel},
           NEW street \in Streets, SetHUDDisplayMsgReq(block, speed, street), ~Merging
    PROVE  MergeInv'
<1>1. TypeOK'
  BY TypeFrame DEF MergeInv
<1>2. gate'.done /\ ~InService'
  BY GateSettled DEF MergeInv, SetHUDDisplayMsgReq, Merging, InService
<1>3. ~InService
  BY GateSettled, <1>2
     DEF MergeInv, SetHUDDisplayMsgReq, Outside, InService, NoGate
<1>4. ~g_have_aap /\ ~g_have_aap' /\ g_street_action' = "PASSTHROUGH"
  BY <1>3 DEF MergeInv, Outside, SetHUDDisplayMsgReq, PassFrame
<1>5. IdleGuidance'
  <2>1. CASE speed = Sentinel
    BY <2>1 DEF IdleGuidance, SetHUDDisplayMsgReq, MergeInv, TypeOK
  <2>2. CASE speed # Sentinel
    <3>1. /\ lastOem'.block = block /\ lastOem'.street = street
          /\ strip'.due /\ strip'.street = street
      BY <2>2 DEF SetHUDDisplayMsgReq, Due
    <3>2. gate'.set => hud'.block = block
      BY DEF SetHUDDisplayMsgReq, PassFrame, Forward, MergeInv, TypeOK
    <3> QED BY <1>4, <3>1, <3>2 DEF IdleGuidance
  <2> QED BY <2>1, <2>2
<1> QED BY <1>1, <1>2, <1>4, <1>5 DEF MergeInv, Outside, Memory, OwnedGuidance, Owned

(* A frame in the service finds the memory of the earlier ones, or none    *)
(* were sent.                                                              *)
LEMMA MergeEnters ==
    ASSUME MergeInv, ensure_gate, Merging
    PROVE  /\ InService' /\ gate'.done
           /\ g_oem_speed = lastOem.speed /\ hud.speed = lastOem.speed
           /\ g_have_aap <=> lastAap.block \notin EmptyBlocks
           /\ g_have_aap => g_aap = lastAap.block
           /\ gate.done => gate' = gate /\ InService
           /\ ~gate.done => ~Owned /\ ~g_have_aap
<1>1. gate'.done /\ (gate.done => gate' = gate)
  BY GateSettled DEF MergeInv
<1>2. CASE gate.done
  BY <1>1, <1>2 DEF MergeInv, Merging, InService, Memory
<1>3. CASE ~gate.done
  BY <1>1, <1>3 DEF MergeInv, Merging, InService, Outside, NoGate, Owned
<1> QED BY <1>2, <1>3

LEMMA MergeAap ==
    ASSUME MergeInv, NEW block \in Blocks, NEW street \in Streets,
           SetHUDDisplayMsgReq(block, Sentinel, street), Merging
    PROVE  MergeInv'
<1>1. TypeOK'
  BY TypeFrame DEF MergeInv
<1>2. AapFrame(block) /\ ensure_gate
  BY DEF SetHUDDisplayMsgReq
<1>3. /\ InService' /\ gate'.done
      /\ g_oem_speed = lastOem.speed
  BY <1>2, MergeEnters
<1>4. /\ hud'.block = block /\ hud'.speed = g_oem_speed
      /\ g_oem_speed' = g_oem_speed
      /\ lastAap' = [block |-> block, street |-> street]
      /\ lastOem'.speed = lastOem.speed /\ ~lastOem'.latest
      /\ strip'.due /\ strip'.street = street
      /\ ~lapsed'
  BY DEF SetHUDDisplayMsgReq, AapFrame, Forward, Due, MergeInv, TypeOK
<1>5. CASE block \in EmptyBlocks
  <2>1. ~g_have_aap'
    BY <1>2, <1>5 DEF AapFrame
  <2> QED BY <1>1, <1>3, <1>4, <1>5, <2>1
          DEF MergeInv, Outside, Memory, OwnedGuidance, IdleGuidance, Owned
<1>6. CASE block \notin EmptyBlocks
  <2>1. g_have_aap' /\ g_aap' = block /\ age' = 0 /\ g_street_action' = "CAPTURE"
    BY <1>2, <1>6 DEF AapFrame
  <2> QED BY <1>1, <1>3, <1>4, <1>6, <2>1, BoundsAssumption
          DEF MergeInv, Outside, Memory, OwnedGuidance, IdleGuidance, Owned
<1> QED BY <1>5, <1>6

LEMMA MergeOem ==
    ASSUME MergeInv, NEW block \in Blocks, NEW speed \in Speeds, NEW street \in Streets,
           SetHUDDisplayMsgReq(block, speed, street), Merging
    PROVE  MergeInv'
<1>1. TypeOK'
  BY TypeFrame DEF MergeInv
<1>2. OemFrame(block, speed) /\ ensure_gate /\ ~strip.due /\ speed # Sentinel
  BY SpeedAssumption DEF SetHUDDisplayMsgReq
<1>3. /\ InService' /\ gate'.done
      /\ g_have_aap <=> lastAap.block \notin EmptyBlocks
      /\ g_have_aap => g_aap = lastAap.block
      /\ gate.done => gate' = gate /\ InService
      /\ ~gate.done => ~g_have_aap
  BY <1>2, MergeEnters
<1>4. /\ hud'.speed = speed /\ g_oem_speed' = speed
      /\ hud'.block = IF aap_active THEN g_aap ELSE block
      /\ g_street_action' = IF aap_active THEN "REPLACE" ELSE "PASSTHROUGH"
      /\ lastOem' = [block |-> block, speed |-> speed, street |-> street, latest |-> TRUE]
      /\ strip'.due /\ strip'.street = street
      /\ UNCHANGED <<g_have_aap, g_aap, age, lastAap, lapsed, g_aap_street, blanks>>
  BY <1>2 DEF SetHUDDisplayMsgReq, OemFrame, Forward, Due, MergeInv, TypeOK, env
<1>5. Memory'
  BY <1>3, <1>4 DEF MergeInv, Memory
<1>6. OwnedGuidance'
  <2> SUFFICES ASSUME Owned' PROVE OwnedGuidance'
    BY DEF OwnedGuidance
  <2>1. g_have_aap /\ ~lapsed /\ lastAap.block \notin EmptyBlocks
    BY <1>3, <1>4 DEF Owned
  <2>2. gate' = gate /\ InService /\ Owned /\ aap_active
    BY <1>3, <2>1 DEF Owned, aap_active, MergeInv, Memory
  <2>3. gate.msg2 => g_aap_street = Captured(lastAap.street)
    BY <1>2, <2>2 DEF MergeInv, OwnedGuidance
  <2>4. Captured(lastAap.street)' = Captured(lastAap.street)
    BY <1>4, <2>2 DEF Captured, Outbound
  <2>5. /\ hud'.block = lastAap'.block
        /\ strip'.due /\ g_street_action' = "REPLACE"
        /\ gate'.msg2 => g_aap_street' = Captured(lastAap.street)'
    BY <1>3, <1>4, <2>1, <2>2, <2>3, <2>4
  <2> QED BY <2>5 DEF OwnedGuidance
<1>7. IdleGuidance'
  BY <1>3, <1>4 DEF IdleGuidance, aap_active
<1> QED BY <1>1, <1>3, <1>5, <1>6, <1>7 DEF MergeInv, Outside

LEMMA MergeStrip ==
    ASSUME MergeInv, SetHUD_Display_Msg2
    PROVE  MergeInv'
<1>1. TypeOK'
  BY TypeStep DEF MergeInv, Next
<1>2. /\ strip.due /\ ~strip'.due
      /\ UNCHANGED <<gate, g_have_aap, g_aap, age, g_street_action, g_oem_speed, blanks,
                     lastAap, lastOem, lapsed>>
      /\ hud'.block = hud.block /\ hud'.speed = hud.speed
  BY DEF SetHUD_Display_Msg2, NotDue, env, history, MergeInv, TypeOK
<1>3. gate.done
  BY <1>2 DEF MergeInv, Outside
<1>4. OwnedGuidance'
  <2> SUFFICES ASSUME Owned' PROVE OwnedGuidance'
    BY DEF OwnedGuidance
  <2>1. Owned /\ InService
    BY <1>2 DEF Owned, InService
  <2>2. Captured(lastAap.street)' = Captured(lastAap.street)
    BY <1>2 DEF Captured, Outbound
  <2>3. ASSUME gate.msg2
        PROVE  /\ hud'.street = Captured(lastAap.street)
               /\ g_aap_street' = Captured(lastAap.street)
    BY <1>2, <2>1, <2>3
       DEF SetHUD_Display_Msg2, InService, MergeInv, OwnedGuidance, TypeOK
  <2> QED BY <1>2, <2>1, <2>2, <2>3 DEF MergeInv, OwnedGuidance
<1>5. IdleGuidance'
  <2> SUFFICES ASSUME lastAap.block \in EmptyBlocks, lastOem.latest PROVE IdleGuidance'
    BY <1>2 DEF IdleGuidance
  <2>1. g_street_action = "PASSTHROUGH" /\ strip.street = lastOem.street
    BY <1>2, <1>3 DEF MergeInv, IdleGuidance
  <2>2. gate.msg2 => hud'.street = Outbound(lastOem.street)
    BY <2>1 DEF SetHUD_Display_Msg2, MergeInv, TypeOK
  <2> QED BY <1>2, <1>3, <2>2 DEF MergeInv, IdleGuidance, Outbound
<1> QED BY <1>1, <1>2, <1>3, <1>4, <1>5 DEF MergeInv, Outside, Memory, InService

(* Time only ever ends an ownership.                                       *)
LEMMA MergePassTime ==
    ASSUME MergeInv, NEW a \in Ages, Pass(a), TypeOK'
    PROVE  MergeInv'
<1>1. /\ UNCHANGED <<state, strip, hud, blanks, lastAap, lastOem>>
      /\ age' = a /\ lapsed' = (lapsed \/ a > Timeout)
  BY DEF Pass
<1>2. Outside' /\ IdleGuidance'
  BY <1>1 DEF MergeInv, Outside, IdleGuidance, InService, Outbound, state
<1>3. Memory'
  <2>1. ~lapsed' => ~(a > Timeout)
    BY <1>1, Zenon
  <2>2. ~(a > Timeout) => age' <= Timeout
    BY <1>1, BoundsAssumption DEF Ages
  <2> QED BY <1>1, <2>1, <2>2 DEF MergeInv, Memory, InService, state
<1>4. OwnedGuidance'
  BY <1>1 DEF MergeInv, OwnedGuidance, Owned, InService, Captured, Outbound, state
<1> QED BY <1>2, <1>3, <1>4 DEF MergeInv

LEMMA MergeQuiet ==
    ASSUME MergeInv, TypeOK', UNCHANGED <<state, age, strip, hud, blanks, history>>
    PROVE  MergeInv'
BY DEF MergeInv, Outside, Memory, OwnedGuidance, IdleGuidance, Owned, InService, Captured,
       Outbound, state, history

LEMMA MergeStep == MergeInv /\ [Next]_vars => MergeInv'
<1> SUFFICES ASSUME MergeInv, [Next]_vars PROVE MergeInv'
  OBVIOUS
<1>1. TypeOK'
  BY TypeStep DEF MergeInv
<1>2. CASE AapGeneration
  BY <1>2, MergePass, MergeAap DEF AapGeneration
<1>3. CASE OemGeneration
  BY <1>3, MergePass, MergeOem DEF OemGeneration
<1>4. CASE SetHUD_Display_Msg2
  BY <1>4, MergeStrip
<1>5. CASE Tick \/ SetClock
  <2>1. PICK a \in Ages : Pass(a)
    BY <1>5, BoundsAssumption DEF Tick, SetClock, MergeInv, TypeOK, Ages
  <2> QED BY <1>1, <2>1, MergePassTime
<1>6. CASE Crash \/ Recover
  BY <1>1, <1>6, MergeQuiet DEF Crash, Recover
<1>7. CASE UNCHANGED vars
  BY <1>1, <1>7, MergeQuiet DEF vars, env
<1> QED BY <1>2, <1>3, <1>4, <1>5, <1>6, <1>7 DEF Next

LEMMA MergeInvariant == Spec => []MergeInv
BY MergeInit, MergeStep, PTL DEF Spec

-----------------------------------------------------------------------------
(* No flicker (merge.cpp:28-31, 364-390), for every timeout and however    *)
(* often the wall clock is set: while Android Auto owns the display the    *)
(* frames carry its latest maneuver, and its latest street.                *)
THEOREM NeverFlickers == Spec => []SteadyGuidance
<1>1. MergeInv => SteadyGuidance
  BY DEF MergeInv, OwnedGuidance, SteadyGuidance
<1> QED BY <1>1, MergeInvariant, PTL

(* The speed limit beside it is the built-in navigation's latest           *)
(* (merge.cpp:179-184, 314-316): the sentinel never reaches the HUD.       *)
THEOREM SpeedIsNative == Spec => []SteadySpeed
<1>1. MergeInv => SteadySpeed
  BY DEF MergeInv, Memory, SteadySpeed
<1> QED BY <1>1, MergeInvariant, PTL

(* Without Android Auto guidance the built-in navigation goes out as it    *)
(* was sent (merge.cpp:289-296, 334-335).                                  *)
THEOREM IdleIsNative == Spec => []NativeWhenIdle
<1>1. MergeInv => NativeWhenIdle
  BY DEF MergeInv, IdleGuidance, NativeWhenIdle, Native
<1> QED BY <1>1, MergeInvariant, PTL
=============================================================================

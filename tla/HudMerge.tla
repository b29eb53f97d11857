------------------------------ MODULE HudMerge ------------------------------
(***************************************************************************)
(* The splice hooks in the navigation service (svcjcinavi/merge.cpp).      *)
(* svcjcinavi's one sender thread emits generations, each a maneuver frame *)
(* followed at once by a street strip, from two streams: Android Auto's    *)
(* (marked by the sentinel speed) and the built-in navigation's.  The      *)
(* hooks rewrite both before they reach the HUD, so that it always reads   *)
(* Android Auto's maneuver and street next to the built-in speed limit.    *)
(* svcjcinavi itself is not in the repository: it appears as the caller,   *)
(* which never passes a NULL frame.                                        *)
(***************************************************************************)
EXTENDS Integers

CONSTANTS
    Blocks,         \* maneuver, distance and unit: copied and compared as one
    EmptyBlocks,    \* those with nextManeuverInfo 0
    Speeds,         \* speed limits of the built-in navigation
    NoSpeed,        \* its 0: no limit
    Sentinel,       \* kAapSpeedSentinel
    Streets,
    NoStreet,       \* "", and the single space of the blanking markets
    Timeout,        \* kAapTimeoutSec, in clock steps
    MaxSets,        \* bound on the times the wall clock is set
    MaxCrashes      \* bound on the crashes of the Android Auto process

ASSUME BlockAssumption == EmptyBlocks \subseteq Blocks /\ EmptyBlocks # {}
ASSUME SpeedAssumption == NoSpeed \in Speeds /\ Sentinel \notin Speeds
ASSUME StreetAssumption == NoStreet \in Streets
ASSUME BoundsAssumption == Timeout \in Nat /\ MaxSets \in Nat /\ MaxCrashes \in Nat

VARIABLES
    gate,               \* what ensure_gate found out, once
    g_have_aap, g_aap,  \* ownership and the captured maneuver block
    age,                \* time(nullptr) - g_aap_last, saturated
    g_street_action, g_aap_street, g_oem_speed,
    blanks,             \* this market blanks the outbound strip (external)
    strip,              \* the street of the strip due next, or no strip is due
    hud,                \* what the frames handed to the real setters say
    aapUp, crashes, sets,             \* Android Auto process, wall clock
    lastAap, lastOem, lapsed          \* history

state   == <<gate, g_have_aap, g_aap, g_street_action, g_aap_street, g_oem_speed>>
env     == <<blanks, aapUp, crashes, sets>>
history == <<lastAap, lastOem, lapsed>>
vars    == <<state, age, strip, hud, env, history>>

Due(street) == [due |-> TRUE, street |-> street]
NotDue == [due |-> FALSE, street |-> NoStreet]

(* The process is or is not the navigation service, each real setter is    *)
(* found or not, and current_StreetName is resolved only in the service    *)
(* and only with force_street_name set.                                    *)
GateOutcomes ==
    {g \in [done : {TRUE}, enabled : BOOLEAN, set : BOOLEAN, msg2 : BOOLEAN,
            street : BOOLEAN] : g.street => g.enabled}

NoGate == [done |-> FALSE, enabled |-> FALSE, set |-> FALSE, msg2 |-> FALSE,
           street |-> FALSE]

ensure_gate == gate' \in IF gate.done THEN {gate} ELSE GateOutcomes

Init ==
    /\ gate = NoGate
    /\ g_have_aap = FALSE /\ g_aap \in EmptyBlocks /\ age = Timeout + 1
    /\ g_street_action = "PASSTHROUGH" /\ g_aap_street = NoStreet
    /\ g_oem_speed = NoSpeed
    /\ blanks \in BOOLEAN /\ strip = NotDue
    /\ hud = [block |-> g_aap, speed |-> NoSpeed, street |-> NoStreet]
    /\ aapUp = TRUE /\ crashes = 0 /\ sets = 0
    /\ lastAap = [block |-> g_aap, street |-> NoStreet]
    /\ lastOem = [block |-> g_aap, speed |-> NoSpeed, street |-> NoStreet, latest |-> TRUE]
    /\ lapsed = FALSE

aap_active == g_have_aap /\ age <= Timeout

-----------------------------------------------------------------------------
(* The maneuver hook, by the path it takes.                                *)

Forward(block, speed) == hud' = [hud EXCEPT !.block = block, !.speed = speed]

(* Merging is off, or there is no setter to call.                          *)
PassFrame(block, speed) ==
    /\ g_street_action' = "PASSTHROUGH"
    /\ IF gate'.set THEN Forward(block, speed) ELSE UNCHANGED hud
    /\ UNCHANGED <<g_have_aap, g_aap, g_oem_speed, age>>

(* Mutant: the blanking frame does not give ownership up.                  *)
AapFrameNeverReleases(block) ==
    /\ g_have_aap' = TRUE
    /\ g_aap' = block
    /\ age' = 0
    /\ g_street_action' = "CAPTURE"
    /\ Forward(block, g_oem_speed)
    /\ UNCHANGED g_oem_speed

(* Mutant: the sentinel is forwarded with the blanking frame.              *)
AapFrameLeaksSentinel(block) ==
    /\ IF block \in EmptyBlocks
       THEN /\ g_have_aap' = FALSE
            /\ g_street_action' = "PASSTHROUGH"
            /\ Forward(block, Sentinel)
            /\ UNCHANGED <<g_aap, age>>
       ELSE /\ g_have_aap' = TRUE
            /\ g_aap' = block
            /\ age' = 0
            /\ g_street_action' = "CAPTURE"
            /\ Forward(block, g_oem_speed)
    /\ UNCHANGED g_oem_speed

(* Mutant: every frame's speed is remembered, the sentinel too.            *)
AapFrameRemembersSpeed(block) ==
    /\ g_oem_speed' = Sentinel
    /\ g_have_aap' = (block \notin EmptyBlocks)
    /\ g_street_action' = IF block \in EmptyBlocks THEN "PASSTHROUGH" ELSE "CAPTURE"
    /\ g_aap' = block
    /\ age' = 0
    /\ Forward(block, Sentinel)

(* Android Auto: an empty frame gives ownership up, any other takes it.    *)
AapFrame(block) ==
    /\ IF block \in EmptyBlocks
       THEN /\ g_have_aap' = FALSE
            /\ g_street_action' = "PASSTHROUGH"
            /\ UNCHANGED <<g_aap, age>>
       ELSE /\ g_have_aap' = TRUE
            /\ g_aap' = block
            /\ age' = 0
            /\ g_street_action' = "CAPTURE"
    /\ Forward(block, g_oem_speed)
    /\ UNCHANGED g_oem_speed

(* Mutant: ownership never times out.                                      *)
OemFrameNoTimeout(block, speed) ==
    /\ g_oem_speed' = speed
    /\ g_street_action' = IF g_have_aap THEN "REPLACE" ELSE "PASSTHROUGH"
    /\ Forward(IF g_have_aap THEN g_aap ELSE block, speed)
    /\ UNCHANGED <<g_have_aap, g_aap, age>>

(* Mutant: the strip of an overwritten frame is left alone.                *)
OemFrameNoReplace(block, speed) ==
    /\ g_oem_speed' = speed
    /\ g_street_action' = "PASSTHROUGH"
    /\ Forward(IF aap_active THEN g_aap ELSE block, speed)
    /\ UNCHANGED <<g_have_aap, g_aap, age>>

(* Built-in navigation: its speed is remembered; its maneuver is           *)
(* overwritten while Android Auto owns the display.                        *)
OemFrame(block, speed) ==
    /\ g_oem_speed' = speed
    /\ g_street_action' = IF aap_active THEN "REPLACE" ELSE "PASSTHROUGH"
    /\ Forward(IF aap_active THEN g_aap ELSE block, speed)
    /\ UNCHANGED <<g_have_aap, g_aap, age>>

Merging == gate'.enabled /\ gate'.set

(* One maneuver frame through the hook.                                    *)
SetHUDDisplayMsgReq(block, speed, street) ==
    /\ ~strip.due
    /\ speed = Sentinel => aapUp
    /\ ensure_gate
    /\ IF ~Merging THEN PassFrame(block, speed)
       ELSE IF speed = Sentinel THEN AapFrame(block)
       ELSE OemFrame(block, speed)
    /\ strip' = Due(street)
    /\ IF speed = Sentinel
       THEN /\ lastAap' = [block |-> block, street |-> street]
            /\ lastOem' = [lastOem EXCEPT !.latest = FALSE]
            /\ lapsed' = FALSE
       ELSE /\ lastOem' = [block |-> block, speed |-> speed, street |-> street,
                           latest |-> TRUE]
            /\ UNCHANGED <<lastAap, lapsed>>
    /\ UNCHANGED <<g_aap_street, env>>

-----------------------------------------------------------------------------
(* The street hook.  In a blanking market the strip's own pointer is a     *)
(* space; current_StreetName still holds what svcjcinavi was given.        *)
Outbound(street) == IF blanks THEN NoStreet ELSE street
Captured(street) == IF gate.street THEN street ELSE Outbound(street)

SetHUD_Display_Msg2 ==
    /\ strip.due
    /\ LET merging == gate.enabled /\ gate.msg2
           shown == CASE merging /\ g_street_action = "CAPTURE" -> Captured(strip.street)
                      [] merging /\ g_street_action = "REPLACE" -> g_aap_street
                      [] OTHER -> Outbound(strip.street)
       IN  /\ hud' = IF gate.msg2 THEN [hud EXCEPT !.street = shown] ELSE hud
           /\ g_aap_street' = IF merging /\ g_street_action = "CAPTURE"
                              THEN shown ELSE g_aap_street
    /\ strip' = NotDue
    /\ UNCHANGED <<gate, g_have_aap, g_aap, age, g_street_action, g_oem_speed, env,
                   history>>

-----------------------------------------------------------------------------
(* time(): a second passes, or the wall clock is set, forwards or back.    *)
Ages == -1..(Timeout + 1)

Pass(a) ==
    /\ age' = a
    /\ lapsed' = (lapsed \/ a > Timeout)
    /\ UNCHANGED <<state, strip, hud, blanks, aapUp, crashes, lastAap, lastOem>>

Tick == age <= Timeout /\ Pass(age + 1) /\ UNCHANGED sets

SetClock == sets < MaxSets /\ sets' = sets + 1 /\ \E a \in Ages : Pass(a)

(* The Android Auto process dies without its blanking frame, and returns.  *)
Crash ==
    /\ aapUp /\ crashes < MaxCrashes
    /\ aapUp' = FALSE /\ crashes' = crashes + 1
    /\ UNCHANGED <<state, age, strip, hud, blanks, sets, history>>

Recover ==
    /\ ~aapUp /\ aapUp' = TRUE
    /\ UNCHANGED <<state, age, strip, hud, blanks, crashes, sets, history>>

AapGeneration ==
    \E block \in Blocks, street \in Streets : SetHUDDisplayMsgReq(block, Sentinel, street)

OemGeneration ==
    \E block \in Blocks, speed \in Speeds, street \in Streets :
        SetHUDDisplayMsgReq(block, speed, street)

Next ==
    \/ AapGeneration
    \/ OemGeneration
    \/ SetHUD_Display_Msg2
    \/ Tick
    \/ SetClock
    \/ Crash
    \/ Recover

Spec == Init /\ [][Next]_vars

(* The sender thread runs, time passes, and the built-in navigation        *)
(* repeats its speed frames.                                               *)
FairSpec == Spec /\ WF_vars(OemGeneration) /\ WF_vars(SetHUD_Display_Msg2) /\ WF_vars(Tick)

-----------------------------------------------------------------------------
(* The types of the merge state (merge.cpp:140-185).                       *)
TypeOK ==
    /\ gate \in GateOutcomes \cup {NoGate}
    /\ g_have_aap \in BOOLEAN /\ g_aap \in Blocks /\ age \in Ages
    /\ g_street_action \in {"PASSTHROUGH", "CAPTURE", "REPLACE"}
    /\ g_aap_street \in Streets /\ g_oem_speed \in Speeds
    /\ blanks \in BOOLEAN /\ strip \in [due : BOOLEAN, street : Streets]
    /\ hud \in [block : Blocks, speed : Speeds \cup {Sentinel}, street : Streets]
    /\ aapUp \in BOOLEAN /\ crashes \in Nat /\ sets \in Nat
    /\ lastAap \in [block : Blocks, street : Streets]
    /\ lastOem \in [block : Blocks, speed : Speeds, street : Streets, latest : BOOLEAN]
    /\ lapsed \in BOOLEAN

InService == gate.enabled /\ gate.set

(* Android Auto owns the display: its last frame had a maneuver and no     *)
(* gap longer than the timeout has passed since.                           *)
Owned == InService /\ lastAap.block \notin EmptyBlocks /\ ~lapsed

(* No flicker (merge.cpp:28-31, 364-390): whichever stream sent the last   *)
(* frame, the HUD was given Android Auto's latest maneuver and distance,   *)
(* and its latest street once the strip is out, in every market.           *)
SteadyGuidance ==
    Owned => /\ hud.block = lastAap.block
             /\ gate.msg2 /\ ~strip.due => hud.street = Captured(lastAap.street)

(* The speed next to it is always the built-in navigation's latest, never  *)
(* the sentinel (merge.cpp:179-184, 314-316).                              *)
SteadySpeed == InService => hud.speed = lastOem.speed

Native ==
    /\ gate.set => hud.block = lastOem.block
    /\ gate.msg2 => hud.street = Outbound(lastOem.street)

(* Once Android Auto has blanked its guidance, or was never there, a       *)
(* generation of the built-in navigation goes out exactly as it was sent   *)
(* (merge.cpp:289-296, 334-335).                                           *)
NativeWhenIdle ==
    (lastAap.block \in EmptyBlocks /\ lastOem.latest /\ gate.done /\ ~strip.due) => Native

(* The safety net (merge.cpp:127-136): when the Android Auto process dies  *)
(* for good without blanking, the built-in navigation gets the HUD back.   *)
HandedBack == <>[](~aapUp) => <>[](~strip.due => Native)
=============================================================================

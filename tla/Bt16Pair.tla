------------------------------ MODULE Bt16Pair ------------------------------
(***************************************************************************)
(* blmjciaapa/bt16pair/bt16pair.cpp: over a wireless dongle at protocol    *)
(* 1.6 the pairing request that makes the OEM activate a session never     *)
(* comes.  The wrapped ProjectionStatusCb starts a detached thread that    *)
(* watches the OEM's connect mode and activates the session itself.        *)
(* The connect mode (0 none, 2 pending pair, 3 activated, with the video   *)
(* focus) belongs to the OEM's connection manager.                         *)
(***************************************************************************)
EXTENDS Naturals

CONSTANTS Tries, MaxSetups      \* kGraceTries, SETUP events

ASSUME TriesAssumption == Tries \in Nat \ {0} /\ MaxSetups \in Nat

VARIABLES
    v16,                \* use_protocol_v1_6
    slot, orig,         \* cb_list[3] of the caller, g_orig_proj_cb
    guard,              \* g_activator_running
    apc, tries,         \* the activator and the polls it has left
    mode, setups

btVars == <<v16, slot, orig, guard, apc, tries, mode, setups>>

BtInit ==
    /\ slot = "oem" /\ orig = "none"
    /\ guard = FALSE /\ apc = "none" /\ tries = 0
    /\ mode = 0 /\ setups = 0

(* Mutant: the slot is saved whatever it holds.                            *)
SavesSlot ==
    /\ orig' = slot /\ slot' = "wrapper"
    /\ UNCHANGED <<v16, guard, apc, tries, mode, setups>>

(* The caller retries with the same table: the wrapper is not wrapped.     *)
bt16pair_pre_aap_create_session ==
    /\ orig' = IF slot = "wrapper" THEN orig ELSE slot
    /\ slot' = "wrapper"
    /\ UNCHANGED <<v16, guard, apc, tries, mode, setups>>

(* Mutant: a thread that could not be created leaves the guard set.        *)
SpawnKeepsGuard(spawned) ==
    IF guard THEN UNCHANGED <<guard, apc, tries>>
    ELSE /\ guard' = TRUE
         /\ apc' = IF spawned THEN "poll" ELSE "none"
         /\ tries' = IF spawned THEN Tries ELSE 0

spawn_activator_once(spawned) ==
    IF guard THEN UNCHANGED <<guard, apc, tries>>
    ELSE /\ guard' = spawned
         /\ apc' = IF spawned THEN "poll" ELSE "none"
         /\ tries' = IF spawned THEN Tries ELSE 0

(* A SETUP event; the others, other devices and protocol 1.5 arm nothing.  *)
our_projection_status_cb(dongle, spawned) ==
    /\ slot = "wrapper" /\ setups < MaxSetups /\ setups' = setups + 1
    /\ IF v16 /\ dongle THEN spawn_activator_once(spawned) ELSE UNCHANGED <<guard, apc, tries>>
    /\ UNCHANGED <<v16, slot, orig, mode>>

(* activator_thread: one poll, then the activation decided by it.          *)
PollMode ==
    /\ apc = "poll"
    /\ tries' = IF mode = 0 THEN tries - 1 ELSE tries
    /\ apc' = CASE mode = 3 -> "release"
                [] mode = 2 -> "inject"
                [] mode = 0 -> IF tries = 1 THEN "release" ELSE "poll"
    /\ UNCHANGED <<v16, slot, orig, guard, mode, setups>>

ActivateAapSession ==
    /\ apc = "inject" /\ apc' = "release"
    /\ mode' = 3
    /\ UNCHANGED <<v16, slot, orig, guard, tries, setups>>

ReleaseGuard ==
    /\ apc = "release" /\ apc' = "none"
    /\ guard' = FALSE /\ tries' = 0
    /\ UNCHANGED <<v16, slot, orig, mode, setups>>

ActivatorStep == PollMode \/ ActivateAapSession \/ ReleaseGuard

(* The OEM: the link comes up, or a pairing that does arrive activates it. *)
LinkUp ==
    /\ mode = 0 /\ mode' = 2
    /\ UNCHANGED <<v16, slot, orig, guard, apc, tries, setups>>

PairingArrives ==
    /\ mode = 2 /\ mode' = 3
    /\ UNCHANGED <<v16, slot, orig, guard, apc, tries, setups>>

(* The session's end; the next creation comes with a fresh table.          *)
SessionGone ==
    /\ mode' = 0 /\ slot' = "oem"
    /\ UNCHANGED <<v16, orig, guard, apc, tries, setups>>

(* The saved callback is never the wrapper itself: it would call itself.   *)
BtTypeOK ==
    /\ v16 \in BOOLEAN /\ slot \in {"oem", "wrapper"} /\ orig \in {"none", "oem"}
    /\ guard \in BOOLEAN
    /\ apc \in {"none", "poll", "inject", "release"} /\ tries \in 0..Tries
    /\ mode \in {0, 2, 3} /\ setups \in 0..MaxSetups
=============================================================================

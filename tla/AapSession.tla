----------------------------- MODULE AapSession -----------------------------
(***************************************************************************)
(* blmjciaapa/lifecycle.cpp: the shadowed aap_create_session and           *)
(* aap_destroy_session, and what they start and stop in the jciAAPA        *)
(* process: the play/pause watcher (PlayPause) and the wrapped projection  *)
(* callback (Bt16Pair).  The touch reader and the HUD are started and      *)
(* stopped at the same two places; VbsTx, Touch and Nav16Feed model them   *)
(* with their own start and stop.                                          *)
(* The calls come from one OEM thread, so g_session_mu is never contended. *)
(***************************************************************************)
EXTENDS PlayPause, Bt16Pair

CONSTANTS Configs, MaxSessions      \* [mute, block, v16 : BOOLEAN]; creations

ASSUME ConfigAssumption == Configs \subseteq [mute : BOOLEAN, block : BOOLEAN, v16 : BOOLEAN]
ASSUME SessionsAssumption == MaxSessions \in Nat

VARIABLES
    mutePauses,             \* mute_pauses_phone
    enabled, gated,         \* g_enabled, g_self_gate_done
    lpc, real, sessionUp,   \* the OEM thread, the SDK's session, g_session_up
    creates

lifeVars == <<mutePauses, enabled, gated, lpc, real, sessionUp, creates>>
vars == <<muteVars, btVars, lifeVars>>

Init ==
    /\ \E c \in Configs : mutePauses = c.mute /\ blockPlay = c.block /\ v16 = c.v16
    /\ enabled = FALSE /\ gated = FALSE
    /\ lpc = "idle" /\ real = FALSE /\ sessionUp = FALSE /\ creates = 0
    /\ MuteInit /\ BtInit

-----------------------------------------------------------------------------
(* The gate once per process, the hook before the SDK copies the callback  *)
(* table, then the real call, which may fail; the OEM then tries again     *)
(* with the same table.                                                    *)
aap_create_session(mapped, ok) ==
    LET on == IF gated THEN enabled ELSE mapped
    IN  /\ lpc = "idle" /\ creates < MaxSessions /\ creates' = creates + 1
        /\ gated' = TRUE /\ enabled' = on
        /\ IF on /\ v16 THEN bt16pair_pre_aap_create_session ELSE UNCHANGED btVars
        /\ real' = (real \/ ok)
        /\ lpc' = IF ok /\ on THEN "created" ELSE "idle"
        /\ UNCHANGED <<muteVars, mutePauses, sessionUp>>

(* The section under g_session_mu: the threads of the first creation.      *)
StartThreads(fdOk, spawned) ==
    /\ lpc = "created" /\ lpc' = "idle"
    /\ IF ~sessionUp /\ mutePauses THEN playpause_post_aap_create_session(fdOk, spawned)
       ELSE UNCHANGED muteVars
    /\ sessionUp' = TRUE
    /\ UNCHANGED <<btVars, mutePauses, enabled, gated, real, creates>>

aap_destroy_session ==
    /\ lpc = "idle" /\ real
    /\ IF sessionUp /\ threadUp THEN lpc' = "join" /\ SignalStop
       ELSE lpc' = "stopped" /\ UNCHANGED muteVars
    /\ UNCHANGED <<btVars, mutePauses, enabled, gated, real, sessionUp, creates>>

JoinThreads ==
    /\ lpc = "join" /\ lpc' = "stopped"
    /\ JoinWatcher
    /\ UNCHANGED <<btVars, mutePauses, enabled, gated, real, sessionUp, creates>>

(* g_session_up is cleared, then the real call ends the session.           *)
RealDestroy ==
    /\ lpc = "stopped" /\ lpc' = "idle"
    /\ sessionUp' = FALSE /\ real' = FALSE
    /\ SessionGone
    /\ UNCHANGED <<muteVars, mutePauses, enabled, gated, creates>>

-----------------------------------------------------------------------------
(* What the parts and their surroundings do in between.  The key hook is   *)
(* reached while there is a session, the projection callback from the SDK. *)
Watcher == WatcherStep /\ UNCHANGED <<btVars, lifeVars>>
Activator == ActivatorStep /\ UNCHANGED <<muteVars, lifeVars>>

Environment ==
    \/ real /\ mutePauses /\ MuteEnvironment /\ UNCHANGED <<btVars, lifeVars>>
    \/ real /\ v16 /\ (LinkUp \/ PairingArrives) /\ UNCHANGED <<muteVars, lifeVars>>
    \/ real /\ UNCHANGED <<muteVars, lifeVars>>
            /\ \E d, s \in BOOLEAN : our_projection_status_cb(d, s)

Next ==
    \/ \E m, ok \in BOOLEAN : aap_create_session(m, ok)
    \/ \E f, s \in BOOLEAN : StartThreads(f, s)
    \/ aap_destroy_session \/ JoinThreads \/ RealDestroy
    \/ Watcher \/ Activator \/ Environment

Spec == Init /\ [][Next]_vars

(* Threads run, and a call that has begun proceeds.                        *)
FairSpec ==
    /\ Spec
    /\ WF_vars(Watcher) /\ WF_vars(Activator)
    /\ WF_vars(JoinThreads \/ RealDestroy \/ \E f, s \in BOOLEAN : StartThreads(f, s))

-----------------------------------------------------------------------------
(* Type invariant of the three modules.  The saved projection callback is  *)
(* never the wrapper, even when the OEM retries a failed creation with the *)
(* same table (bt16pair.cpp:229-235).                                      *)
TypeOK ==
    /\ MuteTypeOK /\ BtTypeOK
    /\ mutePauses \in BOOLEAN /\ enabled \in BOOLEAN /\ gated \in BOOLEAN
    /\ lpc \in {"idle", "created", "join", "stopped"}
    /\ real \in BOOLEAN /\ sessionUp \in BOOLEAN /\ creates \in 0..MaxSessions
    /\ threadUp => sessionUp /\ mutePauses

(* The head unit starts the phone only to take back a pause of its own     *)
(* from the same bus connection (playpause.cpp:169-171, 588-600); with     *)
(* block_headunit_media_play no stock PLAY passes, not even while the      *)
(* module sends its own (playpause.cpp:133-137, 649-656).                  *)
StartsOnlyOwnPause == startedBy # "unasked" /\ (startedBy = "stock" => ~blockPlay)

(* A pause is not left standing: once the mute is over for good the latch  *)
(* goes, by a delivered PLAY, a change of source or a reconnection after   *)
(* which an unmute may have been missed (playpause.cpp:371-386, 590-600).  *)
(* A rejected PLAY waits for the next unmute.                              *)
PauseTakenBack == <>[](~muted /\ rejects = 0) => <>[](~wePaused)

(* A session's end is not held up by the watcher, wherever the stop meets  *)
(* it: polling, draining, sending a key or in the back-off                 *)
(* (playpause.cpp:499-615, 691-709).                                       *)
DestroyReturns == lpc = "join" ~> lpc # "join"

(* While the single-flight guard turns further SETUP events away, someone  *)
(* does activate a session that waits for its pairing: a failed thread     *)
(* creation does not leave the guard behind (bt16pair.cpp:149-171).  An    *)
(* activator that has made up its mind no longer looks.                    *)
StuckLinkActivated == guard /\ apc # "release" /\ mode = 2 ~> mode # 2
=============================================================================

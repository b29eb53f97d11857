------------------------------- MODULE CpHud -------------------------------
(***************************************************************************)
(* CarPlay guidance on the HUD, inside the jciCARPLAY process:             *)
(*   - the OEM's receive thread, whose msgrcv is tapped                    *)
(*     (blmjcicarplay/devmgr_shim.cpp) and decoded by nav.cpp: a window of *)
(*     maneuvers, and guidance whose list head names the next one;         *)
(*   - the HMI worker, which reports the end of turn-by-turn or of the     *)
(*     session (devmgr_shim.cpp) and asks for a clear;                     *)
(*   - the sender thread and its 2 Hz ticker (hud/hud_send.cpp);           *)
(*   - the speed limit another process writes to a file.                   *)
(* A publication is one step: the seqlock is the one VbsTx models.  The    *)
(* code has no caller of hud_send_stop, so a sender that came up stays.    *)
(* g_seq is only compared with last_processed and s2, g_splim_tick with    *)
(* last_tick: `behind', `moved' and `ticked' are the outcomes.             *)
(***************************************************************************)
EXTENDS Integers, Sequences, FiniteSetsExt

CONSTANTS
    Man, NoMan,        \* a maneuver as displayed (glyph and street), the blank one
    Dist, NoDist,      \* distance figure, and its absence
    Limits, NoLimit,   \* speed limits, and none
    Context,           \* a list entry that is no maneuver to display
    Received,          \* the messages the phone may send
    MaxIdx,            \* largest list index
    Window,            \* kMaxBurst
    MaxMsgs, MaxClears, MaxFails   \* bounds on messages, end reports, failed sends

ASSUME BlankAssumption == NoMan \in Man /\ NoDist \in Dist /\ NoLimit \in Limits
ASSUME LimitAssumption == {MaxIdx, Window, MaxMsgs, MaxClears, MaxFails} \subseteq Nat

NoIdx == MaxIdx + 1       \* 0xffffffff: larger than every index
Turns == Man \ {NoMan}

Maneuvers == [kind : {"MANEUVER"}, idx : 0..MaxIdx, man : Turns \cup {Context}]
Guidances == [kind : {"GUIDANCE"}, head : 0..NoIdx, dist : Dist]   \* NoIdx: empty list

ASSUME ReceivedAssumption == Received \subseteq Maneuvers \cup Guidances

Snapshot == [man : Man, dist : Dist]
Blank == [man |-> NoMan, dist |-> NoDist]

VARIABLES
    limitOn, limit, over,               \* carplay_speed_limit, the limit file, the over-speed flag
    armed, tap,                         \* nothing left for arm_navi to do; g_armed
    buf, prevIdx, head, emitted, resetReq, ppc, pdist, msgs,   \* nav.cpp
    snap, behind, guid,                 \* g_snapshot, g_seq # last_processed, g_have_guidance
    clearReq, fullReq, clears,          \* g_clear_req, g_fullclear_req
    absent,                             \* g_hud_absent
    spc, loc, fresh, moved, splim, req, prev, prevLimit,   \* the sender; s2 # last_processed, g_seq # s2
    tickerUp, ticked,                   \* the ticker
    hud, lost, fails,                   \* the cluster; whether the latest send failed
    unpublished                         \* history: wiped, and no turn published since

config   == <<limitOn, limit, over>>
arming   == <<armed, tap>>
decoder  == <<buf, prevIdx, head, emitted>>
producer == <<ppc, pdist, msgs>>
requests == <<clearReq, fullReq, clears>>
locals   == <<loc, fresh, moved, splim, req>>
sent     == <<prev, prevLimit>>
cluster  == <<hud, lost, fails>>
vars == <<config, arming, decoder, resetReq, producer, snap, behind, guid,
          requests, absent, spc, locals, sent, tickerUp, ticked, cluster,
          unpublished>>

(* A display: what the maneuver frame carries, and the street strip.       *)
Display == [man : Man, dist : Dist, sign : Limits, strip : Man]
Image(s, l) == [man |-> s.man, dist |-> s.dist, sign |-> l, strip |-> s.man]

(* The cluster keeps its last frame across a power cycle.                  *)
Init ==
    /\ limitOn \in BOOLEAN /\ over = FALSE /\ limit = NoLimit
    /\ armed = FALSE /\ tap = FALSE
    /\ buf = <<>> /\ prevIdx = NoIdx /\ head = NoIdx /\ emitted = NoMan
    /\ resetReq = FALSE /\ ppc = "idle" /\ pdist = NoDist /\ msgs = 0
    /\ snap = Blank /\ behind = FALSE /\ guid = FALSE
    /\ clearReq = FALSE /\ fullReq = FALSE /\ clears = 0
    /\ absent = FALSE
    /\ spc = "none" /\ loc = Blank /\ fresh = FALSE /\ moved = FALSE /\ splim = NoLimit
    /\ prev = Blank /\ prevLimit = NoLimit /\ req = "none"
    /\ tickerUp = FALSE /\ ticked = FALSE
    /\ hud \in {Image([man |-> m, dist |-> NoDist], NoLimit) : m \in Man}
    /\ lost = FALSE /\ fails = 0
    /\ unpublished = FALSE

-----------------------------------------------------------------------------
(* devmgr_shim.cpp: arming, and the HMI worker's callbacks.                *)

(* g_cv.notify_one: only a sender already queued on the variable wakes.    *)
Notify == spc' = IF spc = "wait" THEN "pred" ELSE spc

(* Any of the three shadowed calls, while it still does anything: the     *)
(* sender is spawned, and g_navi_armed stays set unless the OEM's StartNavi *)
(* is unresolved.  The subscription to the status signals may fail: then   *)
(* the two callbacks below never come, as they may not in any behaviour.   *)
arm_navi(spawned, resolved) ==
    /\ ~armed
    /\ tap' = TRUE /\ armed' = (spawned \/ resolved)
    /\ spc' = IF spawned THEN "setup" ELSE spc
    /\ UNCHANGED <<config, decoder, resetReq, producer, snap, behind, guid, requests,
                   absent, locals, sent, tickerUp, ticked, cluster, unpublished>>

(* TurnByTurnEntity other than CARPLAY: hud_request_clear.                 *)
cp_tbt_entity_cb ==
    /\ tap /\ clears < MaxClears
    /\ clearReq' = TRUE /\ clears' = clears + 1
    /\ Notify
    /\ UNCHANGED <<config, arming, decoder, resetReq, producer, snap, behind, guid,
                   fullReq, absent, locals, sent, tickerUp, ticked, cluster,
                   unpublished>>

(* SessionDeactive: hud_request_fullclear.                                 *)
cp_deactive_cb ==
    /\ tap /\ clears < MaxClears
    /\ fullReq' = TRUE /\ clears' = clears + 1
    /\ Notify
    /\ UNCHANGED <<config, arming, decoder, resetReq, producer, snap, behind, guid,
                   clearReq, absent, locals, sent, tickerUp, ticked, cluster,
                   unpublished>>

-----------------------------------------------------------------------------
(* nav.cpp, on the receive thread.                                         *)

(* The entry of window b with the head's index, else with the next one.    *)
select_by_head(b, h) ==
    LET at(i) == {k \in DOMAIN b : b[k].idx = i}
    IN  IF at(h) # {} THEN Min(at(h))
        ELSE IF at(h + 1) # {} THEN Min(at(h + 1)) ELSE 0

(* emit_selection, up to the calls into hud_send: nothing for no selection *)
(* or the maneuver emitted last.  `em' is that maneuver, d a distance to   *)
(* publish after it.                                                       *)
emit_selection(b, sel, em, d) ==
    LET new == sel # 0 /\ b[sel].man # em
    IN  /\ emitted' = IF new THEN b[sel].man ELSE em
        /\ ppc' = IF new THEN "status" ELSE IF d # NoDist THEN "dist" ELSE "idle"
        /\ pdist' = d

(* Mutant: a message is only buffered; the next guidance selects.          *)
BufferOnly(m, b, p, h, em) ==
    LET w == IF m.idx = 0 \/ m.idx < p THEN <<>> ELSE b
        kept == m.idx # 0 /\ m.man # Context /\ Len(w) < Window
    IN  /\ buf' = IF kept THEN Append(w, [idx |-> m.idx, man |-> m.man]) ELSE w
        /\ prevIdx' = m.idx
        /\ head' = h
        /\ emit_selection(w, 0, em, NoDist)

(* Mutant: the window takes one entry more than it has room for.           *)
WindowOffByOne(m, b, p, h, em) ==
    LET w == IF m.idx = 0 \/ m.idx < p THEN <<>> ELSE b
        kept == m.idx # 0 /\ m.man # Context /\ Len(w) <= Window
        w2 == IF kept THEN Append(w, [idx |-> m.idx, man |-> m.man]) ELSE w
    IN  /\ buf' = w2
        /\ prevIdx' = m.idx
        /\ head' = h
        /\ emit_selection(w2, IF kept /\ h # NoIdx THEN select_by_head(w2, h) ELSE 0,
                          em, NoDist)

(* Message 0x8059: a smaller or zero index starts a new window; the        *)
(* heading, context entries and what exceeds the window are left out.      *)
OnManeuver(m, b, p, h, em) ==
    LET w == IF m.idx = 0 \/ m.idx < p THEN <<>> ELSE b
        kept == m.idx # 0 /\ m.man # Context /\ Len(w) < Window
        w2 == IF kept THEN Append(w, [idx |-> m.idx, man |-> m.man]) ELSE w
    IN  /\ buf' = w2
        /\ prevIdx' = m.idx
        /\ head' = h
        /\ emit_selection(w2, IF kept /\ h # NoIdx THEN select_by_head(w2, h) ELSE 0,
                          em, NoDist)

(* Message 0x8058: the head of the list, if it is in the window, and the   *)
(* distance, if it is in range.                                            *)
OnGuidance(m, b, p, h, em) ==
    LET sel == IF m.head = NoIdx THEN 0 ELSE select_by_head(b, m.head)
    IN  /\ buf' = b /\ prevIdx' = p
        /\ head' = IF sel # 0 THEN m.head ELSE h
        /\ emit_selection(b, sel, em, m.dist)

(* Mutant: the wipe does not make nav.cpp forget what it emitted last.     *)
KeepsEmitted(m) ==
    LET b == IF resetReq THEN <<>> ELSE buf
        p == IF resetReq THEN NoIdx ELSE prevIdx
        h == IF resetReq THEN NoIdx ELSE head
    IN  \/ m.kind = "MANEUVER" /\ OnManeuver(m, b, p, h, emitted)
        \/ m.kind = "GUIDANCE" /\ OnGuidance(m, b, p, h, emitted)

(* What a message starts from: the state kept, or nothing after a wipe.    *)
KeptUnlessReset(m) ==
    LET b == IF resetReq THEN <<>> ELSE buf
        p == IF resetReq THEN NoIdx ELSE prevIdx
        h == IF resetReq THEN NoIdx ELSE head
        e == IF resetReq THEN NoMan ELSE emitted
    IN  \/ m.kind = "MANEUVER" /\ OnManeuver(m, b, p, h, e)
        \/ m.kind = "GUIDANCE" /\ OnGuidance(m, b, p, h, e)

nav_on_devmgr_msg(m) ==
    /\ tap /\ ppc = "idle" /\ msgs < MaxMsgs
    /\ KeptUnlessReset(m)
    /\ resetReq' = FALSE
    /\ msgs' = msgs + 1
    /\ UNCHANGED <<config, arming, snap, behind, guid, requests, absent, spc,
                   locals, sent, tickerUp, ticked, cluster, unpublished>>

AfterTurn == IF pdist # NoDist THEN "dist" ELSE "idle"

(* seqlock_end; `moved' matters only between the sender's read and send.   *)
Published == behind' = TRUE /\ moved' = (spc = "send")

(* hud_on_status(1)                                                        *)
hud_on_status ==
    /\ ppc = "status"
    /\ guid' = TRUE /\ Notify
    /\ ppc' = "turn"
    /\ UNCHANGED <<config, arming, decoder, resetReq, pdist, msgs, snap, behind,
                   requests, absent, locals, sent, tickerUp, ticked, cluster,
                   unpublished>>

(* hud_on_next_turn: the snapshot first, then g_have_guidance.             *)
hud_on_next_turn ==
    /\ ppc = "turn"
    /\ snap' = [snap EXCEPT !.man = emitted] /\ Published /\ Notify
    /\ ppc' = "guide"
    /\ unpublished' = FALSE
    /\ UNCHANGED <<config, arming, decoder, resetReq, pdist, msgs, guid, requests,
                   absent, loc, fresh, splim, req, sent, tickerUp, ticked, cluster>>

TurnIsLive ==
    /\ ppc = "guide"
    /\ guid' = TRUE
    /\ ppc' = AfterTurn
    /\ UNCHANGED <<config, arming, decoder, resetReq, pdist, msgs, snap, behind,
                   requests, absent, spc, locals, sent, tickerUp, ticked, cluster,
                   unpublished>>

hud_on_distance ==
    /\ ppc = "dist"
    /\ snap' = [snap EXCEPT !.dist = pdist] /\ Published /\ Notify
    /\ ppc' = "idle" /\ pdist' = NoDist
    /\ UNCHANGED <<config, arming, decoder, resetReq, msgs, guid, requests,
                   absent, loc, fresh, splim, req, sent, tickerUp, ticked, cluster, unpublished>>

-----------------------------------------------------------------------------
(* The surroundings: the limit and over-speed files, the probe's answer,   *)
(* the ticker.  No limit is also a file that is missing, implausible or    *)
(* not posted again for eight seconds.                                     *)

WriteFiles(l, o) ==
    /\ limitOn /\ (o => l # NoLimit)
    /\ limit' = l /\ over' = o
    /\ UNCHANGED <<limitOn, arming, decoder, resetReq, producer, snap, behind, guid, requests,
                   absent, spc, locals, sent, tickerUp, ticked, cluster, unpublished>>

(* GetHUDStatus answers, once and at any time after the set-up, that there *)
(* is no HUD.  The opposite answer, or none, leaves g_hud_absent as it is. *)
hud_status_cb ==
    /\ spc \notin {"none", "setup", "done"} /\ ~absent
    /\ absent' = TRUE
    /\ UNCHANGED <<config, arming, decoder, resetReq, producer, snap, behind, guid, requests,
                   spc, locals, sent, tickerUp, ticked, cluster, unpublished>>

splim_ticker_main ==
    /\ tickerUp /\ ticked' = TRUE /\ Notify
    /\ UNCHANGED <<config, arming, decoder, resetReq, producer, snap, behind, guid, requests,
                   absent, locals, sent, tickerUp, cluster, unpublished>>

-----------------------------------------------------------------------------
(* The sender thread.                                                      *)

sender_setup(ok) ==
    /\ spc = "setup"
    /\ spc' = IF ok THEN "spawn" ELSE "done"
    /\ UNCHANGED <<config, arming, decoder, resetReq, producer, snap, behind, guid, requests,
                   absent, locals, sent, tickerUp, ticked, cluster, unpublished>>

SpawnTicker(up) ==
    /\ spc = "spawn" /\ spc' = "start"
    /\ tickerUp' = up
    /\ UNCHANGED <<config, arming, decoder, resetReq, producer, snap, behind, guid, requests,
                   absent, locals, sent, ticked, cluster, unpublished>>

(* A pair of frames showing s with sign l: both arrive, or the second is   *)
(* lost, or neither is sent.  A car without a HUD is sent nothing.         *)
Outcome == {"both", "first", "none"}
Push(s, l, r) ==
    LET img == Image(s, l)
    IN  /\ r # "both" => fails < MaxFails /\ ~absent
        /\ hud' = IF absent \/ r = "none" THEN hud
                  ELSE IF r = "first" THEN [img EXCEPT !.strip = hud.strip] ELSE img
        /\ lost' = IF absent THEN lost ELSE r # "both"
        /\ fails' = IF r = "both" THEN fails ELSE fails + 1

(* The wipe before the loop, unless a route is live already.               *)
StartClear(r) ==
    /\ spc = "start" /\ spc' = "read"
    /\ IF guid THEN r = "both" /\ UNCHANGED cluster ELSE Push(Blank, NoLimit, r)
    /\ UNCHANGED <<config, arming, decoder, resetReq, producer, snap, behind, guid, requests,
                   absent, locals, sent, tickerUp, ticked, unpublished>>

read_splim == IF limitOn THEN limit ELSE NoLimit

ReadSnapshot ==
    /\ spc = "read" /\ spc' = "send"
    /\ loc' = snap /\ fresh' = behind /\ moved' = FALSE /\ splim' = read_splim
    /\ UNCHANGED <<config, arming, decoder, resetReq, producer, snap, behind, guid, requests,
                   absent, req, sent, tickerUp, ticked, cluster, unpublished>>

(* Mutant: the snapshot is sent whether or not a route is live.            *)
AlwaysSnap == loc

(* curSnap: with the sign shown, no maneuver without a live route.         *)
CurSnap == IF limitOn /\ ~guid THEN Blank ELSE loc

(* Mutant: a tick with nothing new sends nothing.                          *)
NoKeepAlive(painted, r) == painted = splim /\ r = "both" /\ UNCHANGED <<behind, sent, cluster>>

(* Nothing new: while there is something to keep on the display, the last  *)
(* frame again.                                                            *)
KeepAlive(painted, r) ==
    /\ UNCHANGED <<behind, sent>>
    /\ IF guid \/ prevLimit # NoLimit THEN Push(prev, painted, r)
       ELSE r = "both" /\ painted = splim /\ UNCHANGED cluster

(* Something new: sent if it differs; the sender's record moves on         *)
(* whether or not the frames arrived.                                      *)
SendChange(painted, r) ==
    /\ prev' = CurSnap /\ prevLimit' = splim /\ behind' = moved
    /\ IF CurSnap # prev \/ splim # prevLimit THEN Push(CurSnap, painted, r)
       ELSE r = "both" /\ painted = splim /\ UNCHANGED cluster

(* The over-speed blink paints no limit on every other tick.               *)
SendStep(painted, r) ==
    /\ spc = "send" /\ spc' = "flags"
    /\ painted \in {splim} \cup (IF over THEN {NoLimit} ELSE {})
    /\ IF fresh \/ splim # prevLimit THEN SendChange(painted, r) ELSE KeepAlive(painted, r)
    /\ loc' = Blank /\ fresh' = FALSE /\ moved' = FALSE       \* dead until the next read
    /\ UNCHANGED <<config, arming, decoder, resetReq, producer, snap, guid, requests,
                   absent, splim, req, tickerUp, ticked, unpublished>>

(* Both flags are taken before anything is sent; the full wipe wins.       *)
TakeRequests ==
    /\ spc = "flags"
    /\ req' = IF fullReq THEN "full" ELSE IF clearReq THEN "nav" ELSE "none"
    /\ fullReq' = FALSE /\ clearReq' = FALSE
    /\ spc' = IF fullReq \/ clearReq THEN "wipe" ELSE "tick"
    /\ UNCHANGED <<config, arming, decoder, resetReq, producer, snap, behind, guid, clears,
                   absent, loc, fresh, moved, splim, sent, tickerUp, ticked, cluster, unpublished>>

keepSign == req = "nav" /\ limitOn /\ splim # NoLimit

(* Mutant: the maneuver is painted again beside the sign that stays.       *)
WipeShows == IF keepSign THEN prev ELSE Blank

WipedFrame == Blank

Wipe(r) ==
    /\ spc = "wipe"
    /\ Push(WipedFrame, IF keepSign THEN splim ELSE NoLimit, r)
    /\ spc' = IF r = "both" THEN "unguide" ELSE "tick"
    /\ UNCHANGED <<config, arming, decoder, resetReq, producer, snap, behind, guid, requests,
                   absent, locals, sent, tickerUp, ticked, unpublished>>

Unguide ==
    /\ spc = "unguide" /\ spc' = "catchup"
    /\ guid' = FALSE
    /\ prev' = Blank /\ prevLimit' = IF keepSign THEN splim ELSE NoLimit
    /\ unpublished' = TRUE
    /\ UNCHANGED <<config, arming, decoder, resetReq, producer, snap, behind, requests,
                   absent, locals, tickerUp, ticked, cluster>>

CatchUp ==
    /\ spc = "catchup" /\ spc' = "reset"
    /\ behind' = FALSE
    /\ UNCHANGED <<config, arming, decoder, resetReq, producer, snap, guid, requests,
                   absent, locals, sent, tickerUp, ticked, cluster, unpublished>>

nav_request_reset ==
    /\ spc = "reset" /\ spc' = "tick"
    /\ resetReq' = TRUE
    /\ UNCHANGED <<config, arming, decoder, producer, snap, behind, guid, requests, absent,
                   locals, sent, tickerUp, ticked, cluster, unpublished>>

SeeTick ==
    /\ spc = "tick" /\ spc' = "pred"
    /\ ticked' = FALSE /\ splim' = NoLimit /\ req' = "none"
    /\ UNCHANGED <<config, arming, decoder, resetReq, producer, snap, behind, guid, requests,
                   absent, loc, fresh, moved, sent, tickerUp, cluster, unpublished>>

(* g_cv.wait: the predicate is evaluated, then the thread queues; the      *)
(* notifiers do not hold g_cv_mu, so they may notify in between.           *)
WaitPredicate ==
    /\ spc = "pred"
    /\ spc' = IF behind \/ ticked THEN "read" ELSE "block"
    /\ UNCHANGED <<config, arming, decoder, resetReq, producer, snap, behind, guid, requests,
                   absent, locals, sent, tickerUp, ticked, cluster, unpublished>>

WaitBlock ==
    /\ spc = "block" /\ spc' = "wait"
    /\ UNCHANGED <<config, arming, decoder, resetReq, producer, snap, behind, guid, requests,
                   absent, locals, sent, tickerUp, ticked, cluster, unpublished>>

SpuriousWake ==
    /\ spc = "wait" /\ spc' = "pred"
    /\ UNCHANGED <<config, arming, decoder, resetReq, producer, snap, behind, guid, requests,
                   absent, locals, sent, tickerUp, ticked, cluster, unpublished>>

-----------------------------------------------------------------------------
Publish == hud_on_status \/ hud_on_next_turn \/ TurnIsLive \/ hud_on_distance

SenderStep ==
    \/ \E ok \in BOOLEAN : sender_setup(ok) \/ SpawnTicker(ok)
    \/ \E r \in Outcome : StartClear(r) \/ Wipe(r)
    \/ \E r \in Outcome, p \in Limits : SendStep(p, r)
    \/ ReadSnapshot \/ TakeRequests
    \/ Unguide \/ CatchUp \/ nav_request_reset
    \/ SeeTick \/ WaitPredicate \/ WaitBlock

Next ==
    \/ \E sp, ok \in BOOLEAN : arm_navi(sp, ok)
    \/ cp_tbt_entity_cb \/ cp_deactive_cb
    \/ \E m \in Received : nav_on_devmgr_msg(m)
    \/ Publish
    \/ \E l \in Limits, o \in BOOLEAN : WriteFiles(l, o)
    \/ hud_status_cb
    \/ splim_ticker_main
    \/ SenderStep
    \/ SpuriousWake

Spec == Init /\ [][Next]_vars

(* The three threads keep running, the ticker for ever.                    *)
FairSpec == Spec /\ WF_vars(SenderStep) /\ WF_vars(Publish) /\ WF_vars(splim_ticker_main)

-----------------------------------------------------------------------------
(* Type invariant of the shared state and of the sender's locals.          *)
TypeOK ==
    /\ limitOn \in BOOLEAN /\ over \in BOOLEAN /\ limit \in Limits
    /\ armed \in BOOLEAN /\ tap \in BOOLEAN
    /\ buf \in Seq([idx : 1..MaxIdx, man : Turns]) /\ Len(buf) <= Window
    /\ prevIdx \in 0..NoIdx /\ head \in 0..NoIdx /\ emitted \in Man
    /\ resetReq \in BOOLEAN /\ ppc \in {"idle", "status", "turn", "guide", "dist"}
    /\ pdist \in Dist /\ msgs \in 0..MaxMsgs
    /\ snap \in Snapshot /\ behind \in BOOLEAN /\ guid \in BOOLEAN
    /\ clearReq \in BOOLEAN /\ fullReq \in BOOLEAN /\ clears \in 0..MaxClears
    /\ absent \in BOOLEAN
    /\ spc \in {"none", "setup", "done", "spawn", "start", "read", "send", "flags", "wipe",
                 "unguide", "catchup", "reset", "tick", "pred", "block", "wait"}
    /\ loc \in Snapshot /\ fresh \in BOOLEAN /\ moved \in BOOLEAN /\ splim \in Limits /\ req \in {"none", "nav", "full"}
    /\ prev \in Snapshot /\ prevLimit \in Limits
    /\ tickerUp \in BOOLEAN /\ ticked \in BOOLEAN
    /\ hud \in Display /\ lost \in BOOLEAN /\ fails \in 0..MaxFails
    /\ unpublished \in BOOLEAN

(* The sender has nothing left to send and its latest frames arrived.      *)
Shown == spc \in {"pred", "block", "wait"} /\ ~lost /\ ~absent

(* What the display shows once the sender has caught up is one             *)
(* publication, frame and strip: it is the turn the head of the phone's    *)
(* list names in the window received (nav.cpp, hud_send.cpp:600-662), or   *)
(* none after a wipe.                                                      *)
ShowsImminent ==
    Shown /\ ~behind =>
        LET sel == select_by_head(buf, head)
        IN  /\ hud.strip = hud.man
            /\ hud.man # NoMan => hud.man = snap.man /\ hud.dist = snap.dist
            /\ ppc = "idle" /\ ~resetReq /\ head # NoIdx /\ sel # 0
                   => hud.man \in {buf[sel].man, NoMan}

(* With the sign shown, a route that is no longer live leaves no maneuver  *)
(* beside it, whatever the limit does afterwards (hud_send.cpp:632-646).   *)
NoTurnBesideSign == Shown /\ limitOn /\ ~guid => hud.man = NoMan

(* After a wipe, a route whose head is selected again has been published   *)
(* again, the same turn included (nav.cpp:304-315).                        *)
RestartReemits ==
    /\ ppc = "idle" /\ ~resetReq /\ spc \notin {"catchup", "reset"}
    /\ head # NoIdx /\ select_by_head(buf, head) # 0
    => ~unpublished

(* The end of turn-by-turn or of the session takes the maneuver off the    *)
(* display, even when its wake-up falls between the sender's predicate and *)
(* its wait (hud_send.cpp:664-711, 800-810), unless a send failed.         *)
NavOffClears ==
    (clearReq \/ fullReq) /\ tickerUp ~> absent \/ hud.man = NoMan \/ fails > 0

(* While the session lasts, a limit that stays is what the sign shows in   *)
(* the end, after ends of navigation, blinking, changes of route and lost  *)
(* frames: the periodic re-assert re-sends (hud_send.cpp:622-662, 713-715).*)
(* Nothing re-sends a frame without a limit or a route, so no limit is     *)
(* only shown if none was lost.  What the sign should show after the wipe  *)
(* at the end of a session is left open: the comments at lines 222-223 and *)
(* 675-676 say none, and the next tick paints a limit still posted again.  *)
SignFollows ==
    \A v \in Limits :
        /\ [](~fullReq)
        /\ <>[](limitOn /\ limit = v /\ ~over /\ tickerUp /\ ~absent
                 /\ (v = NoLimit => fails = 0))
        => <>[](hud.sign = v)
=============================================================================

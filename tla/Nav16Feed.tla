----------------------------- MODULE Nav16Feed -----------------------------
(***************************************************************************)
(* Guidance from the phone to the HUD, across two processes:               *)
(*   - aap_service (aap_service/navi/navi.cpp), which offers protocol 1.6  *)
(*     and relays the navigation frames it swallows over a datagram        *)
(*     socket;                                                             *)
(*   - the receiver thread of jciAAPA (hud/nav16_rx.cpp), which latches    *)
(*     "seen", decodes (hud/hud_nav16.cpp) and runs the accumulator and    *)
(*     change gate of hud/hud.cpp;                                         *)
(*   - the SDK callback thread, which serves the 1.5 events while no 1.6   *)
(*     frame was seen;                                                     *)
(*   - the default transport hud/svcnavi_tx.cpp with its sender thread;    *)
(*   - the lifecycle thread, which runs the hooks around create and        *)
(*     destroy.                                                            *)
(* A transport call is one step here: that a sender only works from        *)
(* snapshots published as a whole is what VbsTx shows of the same seqlock. *)
(* svcnavi reads g_seq only to compare it with last_processed, so the      *)
(* model keeps the outcome: `pending' and, for a new sender, `ever'.       *)
(***************************************************************************)
EXTENDS Integers, Sequences, FiniteSetsExt

CONSTANTS
    Man, NoMan,       \* a maneuver as displayed: glyph and street
    Dist, NoDist,     \* distance figure with its unit
    Lanes, NoLanes,   \* lane codes
    Sent,             \* the frames the phone may send
    QueueCap,         \* datagrams the socket holds before sendto fails
    MaxFrames,        \* bound on the frames of the phone
    MaxSessions       \* bound on the sessions

ASSUME BlankAssumption == NoMan \in Man /\ NoDist \in Dist /\ NoLanes \in Lanes
ASSUME LimitAssumption == {QueueCap, MaxFrames, MaxSessions} \subseteq Nat

Display == [man : Man, dist : Dist, lanes : Lanes]
Blank == [man |-> NoMan, dist |-> NoDist, lanes |-> NoLanes]

(* Frames by what the code does with them.  "ENDED" is NavigationStatus    *)
(* INACTIVE or UNAVAILABLE, or the cluster's STOP; "KEPT" is any other     *)
(* status, the cluster's START and a position without a next step.         *)
Status == [kind : {"ENDED", "KEPT"}]
Frames15 == Status \cup [kind : {"NEXT_TURN"}, man : Man]
                   \cup [kind : {"NEXT_TURN_DIST"}, dist : Dist]
Frames16 == Status \cup [kind : {"NAV_STATE"}, man : Man, lanes : Lanes]
                   \cup [kind : {"POSITION"}, dist : Dist]
Frames == Frames15 \cup Frames16

ASSUME SentAssumption == Sent \subseteq Frames

VARIABLES
    use16, hooked,                     \* configuration, outcome of init()
    lpc, proto, session, sentFrames,   \* lifecycle thread and phone
    queue, bound,                      \* the socket
    rup, rstop, efd, seen, rpc,        \* receiver: g_thread_up, g_stop, g_stop_fd, g_seen
    acc, last, haveLast,               \* accumulator and change gate
    cpc, cframe,                       \* SDK callback
    tup, tstop, active, snap, ever, pending, tpc,   \* transport and sender
    shown, lost,                       \* the latest signal, whether one failed
    heard, dropped                     \* history

boot      == <<use16, hooked>>
phone     == <<proto, session, sentFrames>>
socket    == <<queue, bound>>
receiver  == <<rup, rstop, efd, seen, rpc>>
gate      == <<acc, last, haveLast>>
callback  == <<cpc, cframe>>
transport == <<tup, tstop, active, snap, ever, pending, tpc>>
signal    == <<shown, lost>>
history   == <<heard, dropped>>
vars == <<boot, lpc, phone, socket, receiver, gate, callback, transport, signal,
          history>>

NoFrame == [kind |-> "NONE"]

(* init() runs once, with the key set; the hook may find unexpected bytes  *)
(* and give up.                                                            *)
InitOutcome == hooked => use16

(* Protocol 1.6 is offered only after the hook is in.  The phone may stay  *)
(* at 1.5 even so: bump_version can give up, the phone can decline.        *)
Protocols == IF hooked THEN {"1.5", "1.6"} ELSE {"1.5"}

Init ==
    /\ use16 \in BOOLEAN /\ hooked \in BOOLEAN /\ InitOutcome
    /\ lpc = "none" /\ proto = "1.5" /\ session = 0 /\ sentFrames = 0
    /\ queue = <<>> /\ bound = FALSE
    /\ rup = FALSE /\ rstop = FALSE /\ efd = FALSE /\ seen = FALSE /\ rpc = "none"
    /\ acc = Blank /\ last = Blank /\ haveLast = FALSE
    /\ cpc = "idle" /\ cframe = NoFrame
    /\ tup = FALSE /\ tstop = FALSE /\ active = FALSE /\ snap = Blank
    /\ ever = FALSE /\ pending = FALSE /\ tpc = "none"
    /\ shown = Blank /\ lost = FALSE
    /\ heard = <<>> /\ dropped = FALSE

-----------------------------------------------------------------------------
(* Transport: the producers' side.                                         *)

(* A call that finds g_active false returns; otherwise it publishes and    *)
(* wakes a sender that is queued on g_cv.                                  *)
Publish(new) ==
    IF active
    THEN /\ snap' = new /\ ever' = TRUE /\ pending' = TRUE
         /\ tpc' = IF tpc = "wait" THEN "pred" ELSE tpc
         /\ UNCHANGED <<tup, tstop, active>>
    ELSE UNCHANGED transport

(* svcnavi_tx_status(1) only wakes the sender.                             *)
Wake ==
    /\ tpc' = IF active /\ tpc = "wait" THEN "pred" ELSE tpc
    /\ UNCHANGED <<tup, tstop, active, snap, ever, pending>>

-----------------------------------------------------------------------------
(* Phone and relay.                                                        *)

(* Mutant: only the two new messages are swallowed.                        *)
Swallowed16Only == {"NAV_STATE", "POSITION"}

(* The ids hook_routeMessage keeps from the OEM: 0x8001..0x8007.           *)
Swallowed == {f.kind : f \in Frames}

(* Mutant: the send waits for room instead of failing.                     *)
relay_frameUnbounded(f) ==
    queue' = IF bound THEN Append(queue, f) ELSE queue

(* sendto with MSG_DONTWAIT: dropped when nobody is bound or there is no   *)
(* room.                                                                   *)
relay_frame(f) ==
    queue' = IF bound /\ Len(queue) < QueueCap THEN Append(queue, f) ELSE queue

(* The phone talks while the SDK session exists.  A frame the OEM handles  *)
(* comes back as a callback, one at a time.                                *)
routeMessage(f) ==
    /\ lpc # "none" /\ sentFrames < MaxFrames
    /\ f \in Sent \cap (IF proto = "1.6" THEN Frames16 ELSE Frames15)
    /\ sentFrames' = sentFrames + 1
    /\ IF hooked /\ f.kind \in Swallowed
       THEN relay_frame(f) /\ UNCHANGED callback
       ELSE cpc = "idle" /\ cpc' = "queued" /\ cframe' = f /\ UNCHANGED queue
    /\ UNCHANGED <<boot, lpc, proto, session, bound, receiver, gate, transport,
                   signal, history>>

-----------------------------------------------------------------------------
(* SDK callback thread: the 1.5 path.                                      *)

our_nav_cb ==
    /\ cpc = "queued"
    /\ cpc' = IF seen THEN "idle" ELSE "call"
    /\ cframe' = IF seen THEN NoFrame ELSE cframe
    /\ UNCHANGED <<boot, lpc, phone, socket, receiver, gate, transport, signal, history>>

CallbackCall ==
    /\ cpc = "call"
    /\ \/ cframe.kind = "KEPT" /\ Wake
       \/ cframe.kind = "ENDED" /\ Publish(Blank)
       \/ cframe.kind = "NEXT_TURN" /\ Publish([snap EXCEPT !.man = cframe.man])
       \/ cframe.kind = "NEXT_TURN_DIST" /\ Publish([snap EXCEPT !.dist = cframe.dist])
    /\ cpc' = "idle" /\ cframe' = NoFrame
    /\ UNCHANGED <<boot, lpc, phone, socket, receiver, gate, signal, history>>

-----------------------------------------------------------------------------
(* Receiver thread.                                                        *)

open_rx_socket(ok) ==
    /\ rpc = "open"
    /\ bound' = ok
    /\ rpc' = IF ok THEN "loop" ELSE "done"
    /\ UNCHANGED <<boot, lpc, phone, queue, rup, rstop, efd, seen, gate, callback,
                   transport, signal, history>>

(* Closing the socket discards what was not received; the history is that  *)
(* of the receiver's session.                                              *)
RxExit ==
    /\ rpc' = "done"
    /\ bound' = FALSE /\ queue' = <<>>
    /\ heard' = <<>> /\ dropped' = FALSE

RxLoop ==
    /\ rpc = "loop"
    /\ IF rstop THEN RxExit ELSE rpc' = "poll" /\ UNCHANGED <<socket, history>>
    /\ UNCHANGED <<boot, lpc, phone, rup, rstop, efd, seen, gate, callback, transport,
                   signal>>

(* Mutant: poll always blocks without a limit.                             *)
RxWakeNoTimeout ==
    /\ rpc = "poll" /\ efd /\ rstop
    /\ RxExit
    /\ UNCHANGED <<boot, lpc, phone, rup, rstop, efd, seen, gate, callback, transport,
                   signal>>

(* poll returns without a frame: the eventfd was written, or there is no   *)
(* eventfd and the 200 ms are over.                                        *)
RxWake ==
    /\ rpc = "poll"
    /\ \/ efd /\ rstop /\ RxExit
       \/ ~efd /\ rpc' = "loop" /\ UNCHANGED <<socket, history>>
    /\ UNCHANGED <<boot, lpc, phone, rup, rstop, efd, seen, gate, callback, transport,
                   signal>>

Changed(a) == ~haveLast \/ a # last

(* Mutant: the held distance outlives the maneuver it was measured to.     *)
on_guidanceKeepsDist(a, f) == [a EXCEPT !.man = f.man, !.lanes = f.lanes]

(* nav16_on_guidance: a different maneuver invalidates the held distance.  *)
on_guidance(a, f) ==
    [man |-> f.man, lanes |-> f.lanes,
     dist |-> IF f.man # a.man THEN NoDist ELSE a.dist]

(* nav16_on_position                                                       *)
on_position(a, f) == [a EXCEPT !.dist = f.dist]

(* hud_nav16_feed up to the first transport call, if there is one.         *)
hud_nav16_feed(f) ==
    LET merged ==
             CASE f.kind = "NAV_STATE" -> on_guidance(acc, f)
               [] f.kind = "POSITION"  -> on_position(acc, f)
               [] OTHER -> acc
    IN  /\ acc' = merged
        /\ rpc' = CASE f.kind = "ENDED" -> "clear"
                    [] f.kind \in {"NAV_STATE", "POSITION"} /\ Changed(merged) -> "turn"
                    [] OTHER -> "loop"

Recv ==
    /\ rpc = "poll" /\ queue # <<>> /\ ~(efd /\ rstop)
    /\ queue' = Tail(queue)
    /\ seen' = TRUE
    /\ hud_nav16_feed(Head(queue))
    /\ heard' = Append(heard, Head(queue))
    /\ UNCHANGED <<boot, lpc, phone, bound, rup, rstop, efd, last, haveLast, callback,
                   transport, signal, dropped>>

(* nav16_emit_if_changed: three transport calls, then the gate.  `dropped' *)
(* records that a call of the latest emission found the transport not yet  *)
(* active.                                                                 *)
EmitTurn ==
    /\ rpc = "turn"
    /\ Publish([snap EXCEPT !.man = acc.man])
    /\ dropped' = ~active
    /\ rpc' = "dist"
    /\ UNCHANGED <<boot, lpc, phone, socket, rup, rstop, efd, seen, gate, callback,
                   signal, heard>>

EmitDistance ==
    /\ rpc = "dist"
    /\ Publish([snap EXCEPT !.dist = acc.dist])
    /\ dropped' = (dropped \/ ~active)
    /\ rpc' = "lanes"
    /\ UNCHANGED <<boot, lpc, phone, socket, rup, rstop, efd, seen, gate, callback,
                   signal, heard>>

EmitLanes ==
    /\ rpc = "lanes"
    /\ Publish([snap EXCEPT !.lanes = acc.lanes])
    /\ dropped' = (dropped \/ ~active)
    /\ last' = acc /\ haveLast' = TRUE
    /\ rpc' = "loop"
    /\ UNCHANGED <<boot, lpc, phone, socket, rup, rstop, efd, seen, acc, callback,
                   signal, heard>>

(* hud_feed_nav16_reset; what last holds is not read until it is set again. *)
reset == acc' = Blank /\ haveLast' = FALSE /\ last' = Blank

(* nav16_on_status                                                         *)
EmitClear ==
    /\ rpc = "clear"
    /\ Publish(Blank)
    /\ reset
    /\ dropped' = ~active
    /\ rpc' = "loop"
    /\ UNCHANGED <<boot, lpc, phone, socket, rup, rstop, efd, seen, callback, signal,
                   heard>>

-----------------------------------------------------------------------------
(* Sender thread of svcnavi_tx.                                            *)

sender_setup(ok) ==
    /\ tpc = "setup"
    /\ tpc' = IF tstop \/ ~ok THEN "done" ELSE "opened"
    /\ UNCHANGED <<boot, lpc, phone, socket, receiver, gate, callback, tup, tstop,
                   active, snap, ever, pending, signal, history>>

(* The second look at g_stop, and the start of sender_main's loop with     *)
(* last_processed = 0.                                                     *)
Activate ==
    /\ tpc = "opened"
    /\ tpc' = IF tstop THEN "teardown" ELSE "loop"
    /\ active' = ~tstop
    /\ pending' = IF tstop THEN pending ELSE ever
    /\ UNCHANGED <<boot, lpc, phone, socket, receiver, gate, callback, tup, tstop,
                   snap, ever, signal, history>>

(* emit_guidance: one signal; a failure is only logged.                    *)
emit_guidance(content, ok) ==
    /\ shown' = IF ok THEN content ELSE shown
    /\ lost' = ~ok

(* Mutant: the snapshot counts as processed when its signal carries a new  *)
(* maneuver only.                                                          *)
send_oneOnNewManeuver(ok) ==
    /\ tpc = "loop" /\ ~tstop
    /\ tpc' = "pred"
    /\ pending' = FALSE
    /\ IF pending /\ snap.man # shown.man THEN emit_guidance(snap, ok) ELSE UNCHANGED signal
    /\ UNCHANGED <<boot, lpc, phone, socket, receiver, gate, callback, tup, tstop,
                   active, snap, ever, history>>

(* One turn of the loop: every fresh snapshot is sent, whatever it holds.  *)
send_one(ok) ==
    /\ tpc = "loop" /\ ~tstop
    /\ tpc' = "pred"
    /\ pending' = FALSE
    /\ IF pending THEN emit_guidance(snap, ok) ELSE UNCHANGED signal
    /\ UNCHANGED <<boot, lpc, phone, socket, receiver, gate, callback, tup, tstop,
                   active, snap, ever, history>>

(* g_active first; last_processed ends with the loop.                      *)
Deactivate ==
    /\ tpc = "loop" /\ tstop
    /\ tpc' = "teardown"
    /\ active' = FALSE
    /\ pending' = FALSE
    /\ UNCHANGED <<boot, lpc, phone, socket, receiver, gate, callback, tup, tstop,
                   snap, ever, signal, history>>

(* The predicate of the wait, and joining the wait queue, in two steps:    *)
(* the notifier does not hold g_cv_mu.                                     *)
WaitPredicate ==
    /\ tpc = "pred"
    /\ tpc' = IF tstop \/ pending THEN "loop" ELSE "block"
    /\ UNCHANGED <<boot, lpc, phone, socket, receiver, gate, callback, tup, tstop,
                   active, snap, ever, pending, signal, history>>

WaitBlock ==
    /\ tpc = "block"
    /\ tpc' = "wait"
    /\ UNCHANGED <<boot, lpc, phone, socket, receiver, gate, callback, tup, tstop,
                   active, snap, ever, pending, signal, history>>

SpuriousWake ==
    /\ tpc = "wait"
    /\ tpc' = "pred"
    /\ UNCHANGED <<boot, lpc, phone, socket, receiver, gate, callback, tup, tstop,
                   active, snap, ever, pending, signal, history>>

(* A blank guidance signal, then the connection goes.                      *)
sender_teardown(ok) ==
    /\ tpc = "teardown"
    /\ tpc' = "done"
    /\ emit_guidance(Blank, ok)
    /\ UNCHANGED <<boot, lpc, phone, socket, receiver, gate, callback, tup, tstop,
                   active, snap, ever, pending, history>>

-----------------------------------------------------------------------------
(* Lifecycle thread.                                                       *)

aap_create_session(p) ==
    /\ lpc = "none" /\ session < MaxSessions
    /\ p \in Protocols
    /\ lpc' = "created" /\ proto' = p /\ session' = session + 1
    /\ UNCHANGED <<boot, sentFrames, socket, receiver, gate, callback, transport,
                   signal, history>>

hud_tx_start(spawned) ==
    /\ lpc = "created"
    /\ lpc' = "txup"
    /\ tup' = spawned /\ tstop' = FALSE /\ active' = FALSE
    /\ tpc' = IF spawned THEN "setup" ELSE tpc
    /\ UNCHANGED <<boot, phone, socket, receiver, gate, callback, snap, ever, pending,
                   signal, history>>

(* hud_nav16_rx_start; `fd' is whether the eventfd could be created.       *)
hud_nav16_rx_start(spawned, fd) ==
    /\ lpc = "txup"
    /\ lpc' = "live"
    /\ IF use16
       THEN /\ reset /\ seen' = FALSE /\ rstop' = FALSE
            /\ rup' = spawned /\ efd' = (fd /\ spawned)
            /\ rpc' = IF spawned THEN "open" ELSE "none"
       ELSE UNCHANGED <<gate, receiver>>
    /\ UNCHANGED <<boot, phone, socket, callback, transport, signal, history>>

hud_nav16_rx_stop ==
    /\ lpc = "live"
    /\ lpc' = IF rup THEN "rxjoin" ELSE "rxdown"
    /\ rstop' = (rstop \/ rup)
    /\ UNCHANGED <<boot, phone, socket, rup, efd, seen, rpc, gate, callback, transport,
                   signal, history>>

(* Mutant: the receiver is left to end by itself.                          *)
RxJoinNot ==
    /\ lpc = "rxjoin"
    /\ lpc' = "rxdown"
    /\ UNCHANGED <<boot, phone, socket, receiver, gate, callback, transport, signal,
                   history>>

RxJoin ==
    /\ lpc = "rxjoin" /\ rpc = "done"
    /\ lpc' = "rxdown"
    /\ rup' = FALSE /\ efd' = FALSE /\ rpc' = "none"
    /\ UNCHANGED <<boot, phone, socket, rstop, seen, gate, callback, transport, signal,
                   history>>

(* svcnavi_tx_stop: the flag, then the notification.                       *)
hud_tx_stop ==
    /\ lpc = "rxdown"
    /\ lpc' = IF tup THEN "txnotify" ELSE "stopped"
    /\ tstop' = (tstop \/ tup)
    /\ UNCHANGED <<boot, phone, socket, receiver, gate, callback, tup, active, snap,
                   ever, pending, tpc, signal, history>>

StopNotify ==
    /\ lpc = "txnotify"
    /\ lpc' = "txjoin"
    /\ tpc' = IF tpc = "wait" THEN "pred" ELSE tpc
    /\ UNCHANGED <<boot, phone, socket, receiver, gate, callback, tup, tstop, active,
                   snap, ever, pending, signal, history>>

TxJoin ==
    /\ lpc = "txjoin" /\ tpc = "done"
    /\ lpc' = "stopped"
    /\ tup' = FALSE /\ active' = FALSE /\ tpc' = "none"
    /\ UNCHANGED <<boot, phone, socket, receiver, gate, callback, tstop, snap, ever,
                   pending, signal, history>>

(* The SDK ends its callbacks before aap_destroy_session returns.          *)
aap_destroy_session ==
    /\ lpc = "stopped" /\ cpc # "call"
    /\ lpc' = "none"
    /\ cpc' = "idle" /\ cframe' = NoFrame
    /\ UNCHANGED <<boot, phone, socket, receiver, gate, transport, signal, history>>

-----------------------------------------------------------------------------
Receiver ==
    \/ \E ok \in BOOLEAN : open_rx_socket(ok)
    \/ RxLoop
    \/ RxWake
    \/ Recv
    \/ EmitTurn
    \/ EmitDistance
    \/ EmitLanes
    \/ EmitClear

Sender ==
    \/ \E ok \in BOOLEAN : sender_setup(ok)
    \/ Activate
    \/ \E ok \in BOOLEAN : send_one(ok)
    \/ Deactivate
    \/ WaitPredicate
    \/ WaitBlock
    \/ SpuriousWake
    \/ \E ok \in BOOLEAN : sender_teardown(ok)

Lifecycle ==
    \/ \E p \in Protocols : aap_create_session(p)
    \/ \E spawned \in BOOLEAN : hud_tx_start(spawned)
    \/ \E spawned, fd \in BOOLEAN : hud_nav16_rx_start(spawned, fd)
    \/ hud_nav16_rx_stop
    \/ RxJoin
    \/ hud_tx_stop
    \/ StopNotify
    \/ TxJoin
    \/ aap_destroy_session

Next ==
    \/ \E f \in Sent : routeMessage(f)
    \/ our_nav_cb
    \/ CallbackCall
    \/ Receiver
    \/ Sender
    \/ Lifecycle

Spec == Init /\ [][Next]_vars

(* The receiver and the joining thread are scheduled; nothing is assumed   *)
(* of the phone, the sender or the callback thread.                        *)
FairSpec == Spec /\ WF_vars(Receiver) /\ WF_vars(RxJoin)

-----------------------------------------------------------------------------
(* Properties.                                                             *)

(* What the frames h of a session add up to, read off the whole list: the  *)
(* last guidance since the last end, and the last distance since the       *)
(* maneuver of that guidance first appeared.                               *)
Ends(h) == {i \in DOMAIN h : h[i].kind = "ENDED"}
Guidance(h) == {i \in DOMAIN h : h[i].kind = "NAV_STATE"
                                 /\ \A e \in Ends(h) : e < i}
ManAt(h, i) == LET g == {j \in Guidance(h) : j <= i}
               IN  IF g = {} THEN NoMan ELSE h[Max(g)].man
Measured(h) == {i \in DOMAIN h : /\ h[i].kind = "POSITION"
                                 /\ \A e \in Ends(h) : e < i
                                 /\ \A j \in i .. Len(h) : ManAt(h, j) = ManAt(h, i)}
Reference(h) ==
    [man   |-> ManAt(h, Len(h)),
     lanes |-> IF Guidance(h) = {} THEN NoLanes ELSE h[Max(Guidance(h))].lanes,
     dist  |-> IF Measured(h) = {} THEN NoDist ELSE h[Max(Measured(h))].dist]

Displays(f) == f.kind \in {"NAV_STATE", "POSITION", "ENDED"}
Idle == rpc \in {"loop", "poll"}
Told == Idle /\ \E i \in DOMAIN heard : Displays(heard[i])

(* The types of the feed's state (hud.cpp:582-595, nav16_rx.cpp:42-47,     *)
(* svcnavi_tx.cpp:70-88).                                                  *)
TypeOK ==
    /\ {use16, hooked, bound, rup, rstop, efd, seen, haveLast, tup, tstop,
        active, ever, pending, lost, dropped} \subseteq BOOLEAN
    /\ lpc \in {"none", "created", "txup", "live", "rxjoin", "rxdown", "txnotify",
                "txjoin", "stopped"}
    /\ proto \in {"1.5", "1.6"}
    /\ session \in 0..MaxSessions /\ sentFrames \in 0..MaxFrames
    /\ queue \in Seq(Frames) /\ Len(queue) <= QueueCap /\ heard \in Seq(Frames)
    /\ rpc \in {"none", "open", "loop", "poll", "turn", "dist", "lanes", "clear", "done"}
    /\ {acc, last, snap, shown} \subseteq Display
    /\ cpc \in {"idle", "queued", "call"} /\ cframe \in Frames \cup {NoFrame}
    /\ tpc \in {"none", "setup", "opened", "loop", "pred", "block", "wait",
                "teardown", "done"}

(* The accumulator and its change gate lose nothing (hud.cpp:574-628): in  *)
(* a session whose latest emission the transport accepted, the snapshot is *)
(* what the frames received so far add up to, with the distance of this    *)
(* maneuver and of no earlier one.                                         *)
FeedFollows == (Told /\ ~dropped) => snap = Reference(heard)

(* End to end: once the receiver is idle and the sender has processed all  *)
(* of it, the signal on the bus is what the phone's frames add up to       *)
(* (hud.cpp:612-628, svcnavi_tx.cpp:147-164, 240-263).                     *)
SignalFollows ==
    (Told /\ ~dropped /\ active /\ tpc \in {"pred", "block", "wait"} /\ ~pending /\ ~lost)
        => shown = Reference(heard)

(* The snapshot has one writer: the callback thread and the receiver are   *)
(* never both inside a transport call (hud.cpp:467-477).                   *)
OneWriter == ~(cpc = "call" /\ rpc \in {"turn", "dist", "lanes", "clear"})

(* The transport outlives the receiver: it is not told to stop while the   *)
(* receiver may still call it (hud.cpp:722-728).                           *)
TransportOutlivesReceiver == tstop => rpc = "none"

(* hud_nav16_rx_stop returns, with the eventfd or without it, whatever the *)
(* phone sends (nav16_rx.cpp:170-191).                                     *)
RxStopReturns == (lpc = "rxjoin") ~> (lpc = "rxdown")

(* nav16_rx.h:33-39: "seen" is "evidence the 1.6 chain really took", so    *)
(* that a phone that stays at 1.5 is served by the 1.5 callbacks.          *)
SeenMeans16 == seen => proto = "1.6"
=============================================================================

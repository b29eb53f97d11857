------------------------------- MODULE VbsTx -------------------------------
(***************************************************************************)
(* The direct HUD transport of the Android Auto patch                      *)
(* (blmjciaapa/hud/vbs_tx.cpp).  Three threads share a snapshot guarded by *)
(* a sequence lock:                                                        *)
(*   - the producer, the thread that calls vbs_tx_status / _next_turn /    *)
(*     _distance / _lanes (the SDK callback thread under protocol 1.5, the *)
(*     nav16 receiver under 1.6; never both in one session);               *)
(*   - the sender, which owns the service-bus connection, copies the       *)
(*     snapshot, sends what changed and sleeps on g_cv;                     *)
(*   - the lifecycle thread, which calls vbs_tx_start and vbs_tx_stop with *)
(*     g_session_mu held, so its calls never overlap.                      *)
(* g_cv_mu is taken by the sender only, so it excludes nobody and is not a *)
(* variable here; that is why the evaluation of the wait predicate and the *)
(* moment the sender joins the wait queue are two separate steps.          *)
(* g_seq is a Nat: at the phone's update rate 2^32 is out of reach.        *)
(***************************************************************************)
EXTENDS Integers, Sequences

CONSTANTS
    Val,            \* what a snapshot field may hold
    Zero,           \* the zero-initialised field: no street, no glyph, hidden
    FieldOrder,     \* the order the build keeps among accesses to the fields
    MaxUpdates,     \* bound on the published updates
    MaxSessions     \* bound on the sessions: senders spawned

ASSUME ZeroAssumption == Zero \in Val
ASSUME BoundAssumption == MaxUpdates \in Nat /\ MaxSessions \in Nat

Fields == {"road", "icon", "dist", "lanes"}
Snapshot == [Fields -> Val]
(* The snapshot is plain memory: the compiler and the CPU may reorder      *)
(* accesses to different fields within a copy or a write, up to            *)
(* FieldOrder, a set of pairs <<earlier, later>>.                          *)
ASSUME OrderAssumption == FieldOrder \subseteq Fields \X Fields

Accessible(f, todo) == f \in todo /\ \A g \in todo : <<g, f>> \notin FieldOrder

ZeroSnap == [f \in Fields |-> Zero]

(* The three OEM setters: SetHUDDisplayMsgReq, TMC_SetHUD_Display_Msg2 and *)
(* SetRecommLaneReq.                                                       *)
Channels == {"disp", "msg2", "lanes"}

SyncBits == 0..7

VARIABLES
    g_snapshot, g_seq, g_active, g_stop,      \* shared with the producer
    g_conn, g_hud_absent, probe,              \* connection and presence probe
    up,                                       \* g_sender_thread_up
    lpc,                                      \* lifecycle thread
    pc, s1, snap, rtodo,                      \* sender: seqlock read
    prev, sync, last,                         \* sender: what it sent last
    wpc, wval, wtodo,                         \* producer: call in progress
    hud, missed,                              \* the HUD, frames it never got
    pub, session                              \* history

shared   == <<g_snapshot, g_seq, g_active, g_stop>>
conn     == <<g_conn, g_hud_absent, probe>>
reading  == <<s1, snap, rtodo>>
sent     == <<prev, sync, last>>
producer == <<wpc, wval, wtodo>>
display  == <<hud, missed>>
history  == <<pub, session>>
vars == <<shared, conn, up, lpc, pc, reading, sent, producer, display, history>>

(* The HUD as the bus sees it: the fields of the last frame each setter    *)
(* delivered and the sync generation each of them belongs to.              *)
BlankHud == [icon |-> Zero, dist |-> Zero, road |-> Zero, lanes |-> Zero,
             dsync |-> 0, rsync |-> 0, lsync |-> 0]

Init ==
    /\ g_snapshot = ZeroSnap /\ g_seq = 0 /\ g_active = FALSE /\ g_stop = FALSE
    /\ g_conn = "null" /\ g_hud_absent = FALSE /\ probe = FALSE
    /\ up = FALSE /\ lpc = "idle"
    /\ pc = "none" /\ s1 = 0 /\ snap = ZeroSnap /\ rtodo = {}
    /\ prev = ZeroSnap /\ sync = 0 /\ last = 0
    /\ wpc = "idle" /\ wval = ZeroSnap /\ wtodo = {}
    /\ hud = BlankHud /\ missed = {}
    /\ pub = <<>> /\ session = 0

(* g_cv.notify_one / notify_all: only a sender already queued on the       *)
(* condition variable is woken; it then evaluates its predicate again.     *)
Notify == pc' = IF pc = "wait" THEN "pred" ELSE pc

-----------------------------------------------------------------------------
(* Lifecycle thread.                                                       *)

vbs_tx_start(spawned) ==
    /\ lpc = "idle" /\ ~up /\ session < MaxSessions
    /\ g_stop' = FALSE
    /\ g_active' = FALSE
    /\ up' = spawned
    /\ pc' = IF spawned THEN "setup" ELSE pc
    /\ session' = IF spawned THEN session + 1 ELSE session
    /\ UNCHANGED <<g_snapshot, g_seq, conn, lpc, reading, sent, producer, display, pub>>

vbs_tx_stop ==
    /\ lpc = "idle" /\ up
    /\ g_stop' = TRUE
    /\ lpc' = "notify"
    /\ UNCHANGED <<g_snapshot, g_seq, g_active, conn, up, pc, reading, sent,
                   producer, display, history>>

StopNotify ==
    /\ lpc = "notify"
    /\ Notify
    /\ lpc' = "join"
    /\ UNCHANGED <<shared, conn, up, reading, sent, producer, display, history>>

StopJoin ==
    /\ lpc = "join" /\ pc = "done"
    /\ pc' = "none"
    /\ up' = FALSE
    /\ g_active' = FALSE
    /\ lpc' = "idle"
    /\ UNCHANGED <<g_snapshot, g_seq, g_stop, conn, reading, sent, producer,
                   display, history>>

-----------------------------------------------------------------------------
(* Producer.  A call that finds g_active false returns without a trace, so *)
(* only the calls that pass the check appear.                              *)

(* The field assignments of each call, as the snapshot they lead to.       *)
Written(call) ==
    CASE call = "next_turn" -> {"road", "icon"}
      [] call = "distance"  -> {"dist"}
      [] call = "lanes"     -> {"lanes"}
      [] call = "stop"      -> Fields

Calls == {"next_turn", "distance", "lanes", "stop"}

Produce(call, target) ==
    /\ wpc = "idle" /\ g_active /\ Len(pub) < MaxUpdates
    /\ \A f \in Fields \ Written(call) : target[f] = g_snapshot[f]
    /\ call = "stop" => target = ZeroSnap
    /\ wpc' = "begin" /\ wval' = target /\ wtodo' = Written(call)
    /\ UNCHANGED <<shared, conn, up, lpc, pc, reading, sent, display, history>>

(* vbs_tx_status(1): no write, only a wake-up.                             *)
ProduceStart ==
    /\ wpc = "idle" /\ g_active
    /\ wpc' = "notify"
    /\ UNCHANGED <<shared, conn, up, lpc, pc, reading, sent, wval, wtodo,
                   display, history>>

seqlock_begin ==
    /\ wpc = "begin"
    /\ g_seq' = g_seq + 1
    /\ wpc' = "write"
    /\ UNCHANGED <<g_snapshot, g_active, g_stop, conn, up, lpc, pc, reading,
                   sent, wval, wtodo, display, history>>

WriteField(f) ==
    /\ wpc = "write" /\ Accessible(f, wtodo)
    /\ g_snapshot' = [g_snapshot EXCEPT ![f] = wval[f]]
    /\ wtodo' = wtodo \ {f}
    /\ UNCHANGED <<g_seq, g_active, g_stop, conn, up, lpc, pc, reading, sent,
                   wpc, wval, display, history>>

seqlock_end ==
    /\ wpc = "write" /\ wtodo = {}
    /\ g_seq' = g_seq + 1
    /\ wpc' = "notify"
    /\ pub' = Append(pub, g_snapshot)
    /\ wval' = ZeroSnap
    /\ UNCHANGED <<g_snapshot, g_active, g_stop, conn, up, lpc, pc, reading,
                   sent, wtodo, display, session>>

(* Mutant: seqlock_end forgets the wake-up.                                *)
ProduceNotifyNot ==
    /\ wpc = "notify"
    /\ wpc' = "idle"
    /\ UNCHANGED <<shared, conn, up, lpc, pc, reading, sent, wval, wtodo, display,
                   history>>

ProduceNotify ==
    /\ wpc = "notify"
    /\ Notify
    /\ wpc' = "idle"
    /\ UNCHANGED <<shared, conn, up, lpc, reading, sent, wval, wtodo, display,
                   history>>

-----------------------------------------------------------------------------
(* Sender: bring-up.                                                       *)

SetupCheck ==
    /\ pc = "setup"
    /\ pc' = IF g_stop THEN "teardown" ELSE "connect"
    /\ UNCHANGED <<shared, conn, up, lpc, reading, sent, producer, display, history>>

(* Mutant: the failed connect frees the handle but keeps the pointer.      *)
SetupConnectDangling(ok) ==
    /\ pc = "connect"
    /\ g_conn' = IF ok THEN "up" ELSE "freed"
    /\ pc' = IF ok THEN "recheck" ELSE "teardown"
    /\ UNCHANGED <<shared, g_hud_absent, probe, up, lpc, reading, sent, producer,
                   display, history>>

(* conn_create and conn_connect either both succeed or leave g_conn NULL.  *)
SetupConnect(ok) ==
    /\ pc = "connect"
    /\ g_conn' = IF ok THEN "up" ELSE "null"
    /\ pc' = IF ok THEN "recheck" ELSE "teardown"
    /\ UNCHANGED <<shared, g_hud_absent, probe, up, lpc, reading, sent, producer,
                   display, history>>

SetupRecheck ==
    /\ pc = "recheck"
    /\ pc' = IF g_stop THEN "teardown" ELSE "activate"
    /\ probe' = ~g_stop
    /\ UNCHANGED <<shared, g_conn, g_hud_absent, up, lpc, reading, sent, producer,
                   display, history>>

(* The one-shot GetHUDStatus reply, on the library's worker thread.        *)
hud_status_cb(absent) ==
    /\ probe /\ g_conn = "up"
    /\ g_hud_absent' = absent
    /\ probe' = FALSE
    /\ UNCHANGED <<shared, g_conn, up, lpc, pc, reading, sent, producer, display,
                   history>>

(* prev, sync_bit and last_processed are locals of sender_main: they start *)
(* at zero with the loop and are gone when the thread returns.             *)
NothingSent == prev' = ZeroSnap /\ sync' = 0 /\ last' = 0

Activate ==
    /\ pc = "activate"
    /\ g_active' = TRUE
    /\ NothingSent
    /\ pc' = "loop"
    /\ UNCHANGED <<g_snapshot, g_seq, g_stop, conn, up, lpc, reading, producer,
                   display, history>>

-----------------------------------------------------------------------------
(* Sender: the loop.                                                       *)

LoopCheck ==
    /\ pc = "loop"
    /\ pc' = IF g_stop THEN "deactivate" ELSE "read1"
    /\ UNCHANGED <<shared, conn, up, lpc, reading, sent, producer, display, history>>

(* An odd g_seq is a write in progress: the sender yields and loads again. *)
ReadSeq1 ==
    /\ pc = "read1" /\ g_seq % 2 = 0
    /\ s1' = g_seq
    /\ rtodo' = Fields
    /\ pc' = "copy"
    /\ UNCHANGED <<shared, conn, up, lpc, snap, sent, producer, display, history>>

(* The memcpy, one field at a time and in any order.                       *)
CopyField(f) ==
    /\ pc = "copy" /\ Accessible(f, rtodo)
    /\ snap' = [snap EXCEPT ![f] = g_snapshot[f]]
    /\ rtodo' = rtodo \ {f}
    /\ UNCHANGED <<shared, conn, up, lpc, pc, s1, sent, producer, display, history>>

(* s1 and snap live for one turn of the loop; a retry overwrites both.     *)
LeaveScope == s1' = 0 /\ snap' = ZeroSnap /\ rtodo' = {}

(* Mutant: the second load of g_seq is not compared with the first.        *)
ReadSeq2NoRetry ==
    /\ pc = "copy" /\ rtodo = {}
    /\ pc' = IF s1 # last THEN "send" ELSE "pred"
    /\ IF pc' = "send" THEN UNCHANGED reading ELSE LeaveScope
    /\ UNCHANGED <<shared, conn, up, lpc, sent, producer, display, history>>

ReadSeq2 ==
    /\ pc = "copy" /\ rtodo = {}
    /\ pc' = IF g_seq # s1 THEN "read1"
             ELSE IF s1 # last THEN "send" ELSE "pred"
    /\ IF pc' = "send" THEN UNCHANGED reading ELSE LeaveScope
    /\ UNCHANGED <<shared, conn, up, lpc, sent, producer, display, history>>

(* Mutant: a new glyph on the same road is no new maneuver instance.       *)
WantedRoadOnly(cur, prv) ==
    LET event == cur["road"] # prv["road"]
        lanes == cur["lanes"] # prv["lanes"]
    IN  (IF event \/ lanes THEN {"msg2"} ELSE {})
        \cup (IF event \/ lanes \/ cur["dist"] # prv["dist"] THEN {"disp"} ELSE {})
        \cup (IF lanes \/ (event /\ cur["lanes"] # Zero) THEN {"lanes"} ELSE {})

(* Mutant: a lane change re-sends the street but not the maneuver frame.   *)
WantedNoDisp(cur, prv) ==
    LET event == cur["road"] # prv["road"] \/ cur["icon"] # prv["icon"]
        lanes == cur["lanes"] # prv["lanes"]
    IN  (IF event \/ lanes THEN {"msg2"} ELSE {})
        \cup (IF event \/ cur["dist"] # prv["dist"] THEN {"disp"} ELSE {})
        \cup (IF lanes \/ (event /\ cur["lanes"] # Zero) THEN {"lanes"} ELSE {})

(* Which setters send_one calls for the step from prv to cur.              *)
Wanted(cur, prv) ==
    LET event == cur["road"] # prv["road"] \/ cur["icon"] # prv["icon"]
        lanes == cur["lanes"] # prv["lanes"]
    IN  (IF event \/ lanes THEN {"msg2"} ELSE {})
        \cup (IF event \/ lanes \/ cur["dist"] # prv["dist"] THEN {"disp"} ELSE {})
        \cup (IF lanes \/ (event /\ cur["lanes"] # Zero) THEN {"lanes"} ELSE {})

NextSync(n) == (n % 7) + 1

(* The effect of the delivered frames, sent in the order disp, msg2,       *)
(* lanes.  A lane frame carries no sync: it belongs to the generation it   *)
(* is sent in.                                                             *)
Deliver(h, cur, n, ok) ==
    LET d == IF "disp" \in ok
             THEN [h EXCEPT !.icon = cur["icon"], !.dist = cur["dist"], !.dsync = n]
             ELSE h
        m == IF "msg2" \in ok
             THEN [d EXCEPT !.road = cur["road"], !.rsync = n] ELSE d
    IN  IF "lanes" \in ok
        THEN [m EXCEPT !.lanes = cur["lanes"], !.lsync = n] ELSE m

(* Mutant: last_processed takes the current g_seq, not the one it read.    *)
send_oneLoadsSeq(ok) ==
    /\ pc = "send"
    /\ LET want == Wanted(snap, prev)
           bump == IF "msg2" \in want /\ ~g_hud_absent THEN NextSync(sync) ELSE sync
       IN  /\ ok \subseteq (IF g_hud_absent THEN {} ELSE want)
           /\ sync' = bump
           /\ hud' = Deliver(hud, snap, bump, ok)
           /\ missed' = (missed \ ok) \cup (want \ ok)
    /\ prev' = snap
    /\ last' = g_seq
    /\ pc' = "pred"
    /\ LeaveScope
    /\ UNCHANGED <<shared, conn, up, lpc, producer, history>>

(* send_one, then prev = snap and last_processed = s2.  `ok' are the calls *)
(* that returned 0; a failed call is only logged.  With the HUD known      *)
(* absent nothing is sent and the sync bit stays.                          *)
send_one(ok) ==
    /\ pc = "send"
    /\ LET want == Wanted(snap, prev)
           bump == IF "msg2" \in want /\ ~g_hud_absent THEN NextSync(sync) ELSE sync
       IN  /\ ok \subseteq (IF g_hud_absent THEN {} ELSE want)
           /\ sync' = bump
           /\ hud' = Deliver(hud, snap, bump, ok)
           /\ missed' = (missed \ ok) \cup (want \ ok)
    /\ prev' = snap
    /\ last' = s1
    /\ pc' = "pred"
    /\ LeaveScope
    /\ UNCHANGED <<shared, conn, up, lpc, producer, history>>

(* Mutant: the predicate looks at the sequence number alone.               *)
WaitPredicateNoStop ==
    /\ pc = "pred"
    /\ pc' = IF g_seq # last THEN "loop" ELSE "block"
    /\ UNCHANGED <<shared, conn, up, lpc, reading, sent, producer, display, history>>

(* g_cv.wait: the predicate is evaluated, and only then, in a later step,  *)
(* does the sender join the wait queue.                                    *)
WaitPredicate ==
    /\ pc = "pred"
    /\ pc' = IF g_stop \/ g_seq # last THEN "loop" ELSE "block"
    /\ UNCHANGED <<shared, conn, up, lpc, reading, sent, producer, display, history>>

WaitBlock ==
    /\ pc = "block"
    /\ pc' = "wait"
    /\ UNCHANGED <<shared, conn, up, lpc, reading, sent, producer, display, history>>

(* A condition variable may wake its waiter for no reason.                 *)
SpuriousWake ==
    /\ pc = "wait"
    /\ pc' = "pred"
    /\ UNCHANGED <<shared, conn, up, lpc, reading, sent, producer, display, history>>

(* Mutant: the sender winds down with the producers still let in.          *)
DeactivateNot ==
    /\ pc = "deactivate"
    /\ pc' = "teardown"
    /\ UNCHANGED <<shared, conn, up, lpc, reading, sent, producer, display, history>>

Deactivate ==
    /\ pc = "deactivate"
    /\ g_active' = FALSE
    /\ pc' = "teardown"
    /\ UNCHANGED <<g_snapshot, g_seq, g_stop, conn, up, lpc, reading, sent, producer,
                   display, history>>

(* Mutant: the lanes stay on the HUD.                                      *)
ClearedNoLanes(h, ok) ==
    IF "disp" \in ok THEN [h EXCEPT !.icon = Zero, !.dist = Zero, !.dsync = 0] ELSE h

(* The clear frames: a zeroed display frame and an all-hidden lane array.  *)
(* The street strip is left alone.                                         *)
Cleared(h, ok) ==
    LET d == IF "disp" \in ok
             THEN [h EXCEPT !.icon = Zero, !.dist = Zero, !.dsync = 0] ELSE h
    IN  IF "lanes" \in ok THEN [d EXCEPT !.lanes = Zero, !.lsync = 0] ELSE d

sender_teardown(ok) ==
    /\ pc = "teardown"
    /\ ok \subseteq (IF g_conn = "null" \/ g_hud_absent THEN {} ELSE {"disp", "lanes"})
    /\ hud' = Cleared(hud, ok)
    /\ missed' = IF g_conn = "null" THEN missed ELSE Channels \ ok
    /\ g_conn' = "null"
    /\ probe' = FALSE
    /\ NothingSent
    /\ pc' = "done"
    /\ UNCHANGED <<shared, g_hud_absent, up, lpc, reading, producer, history>>

-----------------------------------------------------------------------------
Lifecycle ==
    \/ \E spawned \in BOOLEAN : vbs_tx_start(spawned)
    \/ vbs_tx_stop
    \/ StopNotify
    \/ StopJoin

(* The steps of a producer call once it has passed the g_active check.     *)
ProducerStep ==
    \/ seqlock_begin
    \/ \E f \in Fields : WriteField(f)
    \/ seqlock_end
    \/ ProduceNotify

Producer ==
    \/ \E call \in Calls, target \in Snapshot : Produce(call, target)
    \/ ProduceStart
    \/ ProducerStep

Sender ==
    \/ SetupCheck
    \/ \E ok \in BOOLEAN : SetupConnect(ok)
    \/ SetupRecheck
    \/ Activate
    \/ LoopCheck
    \/ ReadSeq1
    \/ \E f \in Fields : CopyField(f)
    \/ ReadSeq2
    \/ \E ok \in SUBSET Channels : send_one(ok)
    \/ WaitPredicate
    \/ WaitBlock
    \/ Deactivate
    \/ \E ok \in SUBSET Channels : sender_teardown(ok)

Environment ==
    \/ \E absent \in BOOLEAN : hud_status_cb(absent)
    \/ SpuriousWake

Next == Lifecycle \/ Producer \/ Sender \/ Environment

Spec == Init /\ [][Next]_vars

(* The threads are scheduled: a thread that has a step takes it.  Nothing  *)
(* is assumed of the phone, of the calls of start and stop, of spurious    *)
(* wake-ups or of the probe's reply.                                       *)
Fairness ==
    /\ WF_vars(Sender)
    /\ WF_vars(ProducerStep)
    /\ WF_vars(StopNotify)
    /\ WF_vars(StopJoin)

FairSpec == Spec /\ Fairness

-----------------------------------------------------------------------------
(* Properties.                                                             *)

SenderPcs == {"none", "setup", "connect", "recheck", "activate", "loop", "read1",
              "copy", "send", "pred", "block", "wait", "deactivate", "teardown",
              "done"}

Serving == {"loop", "read1", "copy", "send", "pred", "block", "wait", "deactivate"}

HudState == [icon : Val, dist : Val, road : Val, lanes : Val,
             dsync : SyncBits, rsync : SyncBits, lsync : SyncBits]

(* The types of the transport's state (vbs_tx.cpp:86-122, 405-414).        *)
TypeOK ==
    /\ g_snapshot \in Snapshot /\ g_seq \in Nat
    /\ g_active \in BOOLEAN /\ g_stop \in BOOLEAN
    /\ g_conn \in {"null", "up"} /\ g_hud_absent \in BOOLEAN /\ probe \in BOOLEAN
    /\ up \in BOOLEAN /\ lpc \in {"idle", "notify", "join"}
    /\ pc \in SenderPcs
    /\ s1 \in Nat /\ snap \in Snapshot /\ rtodo \in SUBSET Fields
    /\ prev \in Snapshot /\ sync \in SyncBits /\ last \in Nat
    /\ wpc \in {"idle", "begin", "write", "notify"}
    /\ wval \in Snapshot /\ wtodo \in SUBSET Fields
    /\ hud \in HudState /\ missed \in SUBSET Channels
    /\ pub \in Seq(Snapshot) /\ session \in Nat

(* The seqlock does its job (vbs_tx.cpp:410-422): whatever the producer    *)
(* wrote during the memcpy, the snapshot that send_one is given is one     *)
(* that was published as a whole, under the sequence number it is recorded *)
(* with.                                                                   *)
SnapshotIntact ==
    pc = "send" =>
        \E k \in 1..Len(pub) : s1 = 2 * k /\ snap = pub[k]

(* When the sender goes to sleep with nothing left to process, each part   *)
(* of the HUD shows the current snapshot, unless the last frame for that   *)
(* part was lost (vbs_tx.cpp:424-428: prev stands for what was sent, so    *)
(* the diff against it must never hide a change).                          *)
HudCurrent ==
    (pc \in {"pred", "block", "wait"} /\ g_seq = last) =>
        /\ "disp" \notin missed => /\ hud.icon = g_snapshot["icon"]
                                   /\ hud.dist = g_snapshot["dist"]
        /\ "msg2" \notin missed => hud.road = g_snapshot["road"]
        /\ "lanes" \notin missed => hud.lanes = g_snapshot["lanes"]

(* Maneuver, street and lanes on the HUD carry the same sync generation    *)
(* whenever no frame was lost (vbs_tx.cpp:200-224).                        *)
SyncPaired ==
    (pc \in Serving /\ sync # 0 /\ missed = {}) =>
        /\ hud.dsync = sync /\ hud.rsync = sync
        /\ hud.lanes # Zero => hud.lsync = sync

(* With no session the HUD holds neither a maneuver nor lanes, unless the  *)
(* clear frame itself was lost (vbs_tx.cpp:351-374).                       *)
BlankAfterStop ==
    ~up => /\ "disp" \notin missed => hud.icon = Zero /\ hud.dist = Zero
           /\ "lanes" \notin missed => hud.lanes = Zero

(* The connection is held exactly by a live sender: nothing is sent on a   *)
(* NULL or freed handle, none is left behind, and a producer that finds    *)
(* g_active set has a sender that will look at its update                  *)
(* (vbs_tx.cpp:296-388, 393-402, 441-446).                                 *)
ConnectionOwned ==
    /\ pc \in {"none", "setup", "connect", "done"} => g_conn = "null"
    /\ pc \in Serving \cup {"recheck", "activate"} => g_conn = "up"
    /\ g_active => pc \in Serving

(* The transport implements LatestView: the sender works from published    *)
(* snapshots and never goes back within a session.                         *)
View == INSTANCE LatestView
            WITH Values <- Snapshot, Blank <- ZeroSnap,
                 log <- pub, view <- last \div 2, shown <- prev

LatestViewSpec == View!ViewSpec

(* A stop whose notify_all did not fall between the sender's predicate and *)
(* its wait ends: vbs_tx_stop returns (vbs_tx.cpp:510-518).                *)
StopReturnsUnlessAsleep ==
    (lpc = "join" /\ pc \notin {"block", "wait"}) ~> (lpc = "idle")

(* An update whose notification finds the sender asleep is processed,      *)
(* unless a stop overtakes it (vbs_tx.cpp:434-438, 453-454).               *)
WakeDelivers ==
    (wpc = "notify" /\ pc = "wait" /\ g_seq # last) ~> (last = g_seq \/ g_stop)

(* vbs_tx.cpp:430-433 and 510-514: the predicated wait "closes the         *)
(* lost-wakeup race window", so a stop always ends.                        *)
StopReturns == (lpc = "join") ~> (lpc = "idle")
=============================================================================

------------------------------- MODULE Touch -------------------------------
(***************************************************************************)
(* Touch passthrough of the Android Auto patch (blmjciaapa/touch): one     *)
(* reader thread per session follows the panel's type-B multi-touch events *)
(* (touch.cpp) and turns each frame into Android-style touch events for    *)
(* the phone (touch_send.cpp).                                             *)
(*                                                                         *)
(* External are the panel, whose event stream reports only what changed    *)
(* and announces the slot only when it differs from the one announced      *)
(* before, to whichever reader; and the phone, which applies each event to *)
(* the pointers it knows.  The reader handles a frame's events without     *)
(* anyone looking, so a frame is one step; each event it sends is another. *)
(***************************************************************************)
EXTENDS Integers, Sequences, FiniteSets

CONSTANTS
    MaxFingers,     \* kMaxFingers
    Raw,            \* raw coordinates; x and y behave alike, one stands for both
    MaxAttempts,    \* kOpenMaxAttempts
    MaxContacts,    \* bound on the contacts, whose ids are handed out in order
    MaxSessions     \* bound on the sessions

ASSUME FingerAssumption == MaxFingers \in Nat \ {0}
ASSUME RawAssumption == Raw \subseteq Nat /\ 0 \in Raw
ASSUME BoundAssumption ==
    MaxAttempts \in Nat \ {0} /\ MaxContacts \in Nat /\ MaxSessions \in Nat

Slots == 0..(MaxFingers - 1)
None == -1
Ids == 1..MaxContacts
Finger == [id : Ids \cup {None}, at : Raw]
MtState == [Slots -> Finger]

(* scale_x; scale_y differs in the display size only.                      *)
kDisplayWidth == 800
kRawMax == 4099
scale_x(v) == (v * kDisplayWidth) \div kRawMax

VARIABLES
    panel, announced, contacts,       \* the panel: slots, last announced slot
    alive, stop, lpc,                 \* g_thread_alive, g_stop_fd, lifecycle
    rpc, attempt, cur, active_slot,   \* reader thread
    g_prev, todo,                     \* sender: last frame, events to send
    phone, synced,                    \* pointers the phone knows
    missed, aligned, sessions         \* history

device == <<panel, announced, contacts>>
life   == <<alive, stop, lpc>>
reader == <<rpc, attempt, cur, active_slot>>
sender == <<g_prev, todo>>
remote == <<phone, synced>>
view   == <<missed, aligned>>
vars   == <<device, life, reader, sender, remote, view, sessions>>

init_state == [s \in Slots |-> [id |-> None, at |-> 0]]

Down(m) == {s \in Slots : m[s].id # None}

Init ==
    /\ panel = init_state /\ announced = 0 /\ contacts = 0
    /\ alive = FALSE /\ stop = FALSE /\ lpc = "idle"
    /\ rpc = "none" /\ attempt = 0 /\ cur = init_state /\ active_slot = 0
    /\ g_prev = init_state /\ todo = <<>>
    /\ phone = {} /\ synced = TRUE
    /\ missed = "touches" /\ aligned = FALSE /\ sessions = 0

-----------------------------------------------------------------------------
(* Sessions.                                                               *)

(* touch_send_reset: the next frame is compared with an empty one.         *)
touch_send_reset == g_prev' = init_state

(* `ok': the eventfd and the thread could be created.                      *)
touch_post_aap_create_session(ok) ==
    /\ lpc = "idle" /\ ~alive /\ sessions < MaxSessions
    /\ sessions' = sessions + 1
    /\ touch_send_reset
    /\ alive' = ok
    /\ rpc' = IF ok THEN "open" ELSE "none"
    /\ UNCHANGED <<device, stop, lpc, attempt, cur, active_slot, todo, remote, view>>

touch_pre_aap_destroy_session ==
    /\ lpc = "idle" /\ alive
    /\ stop' = TRUE
    /\ lpc' = "join"
    /\ UNCHANGED <<device, alive, reader, sender, remote, view, sessions>>

(* The reader is joined and the descriptor closed; the phone's pointers go *)
(* with the session.                                                       *)
Join ==
    /\ lpc = "join" /\ rpc = "exit"
    /\ rpc' = "none"
    /\ alive' = FALSE /\ stop' = FALSE
    /\ lpc' = "idle"
    /\ phone' = {} /\ synced' = TRUE
    /\ UNCHANGED <<device, attempt, cur, active_slot, sender, view, sessions>>

-----------------------------------------------------------------------------
(* Reader thread.                                                          *)

(* attempt, cur and active_slot are locals of the thread: they are blank   *)
(* again once it returns.  Of the history, `missed' is what the reader did *)
(* not see: touches before it opened the device, or only those lost in an  *)
(* overflow; `aligned' is that the slot it had in mind when it started     *)
(* from empty slots was the one the panel had announced.                   *)
ForgetLocals ==
    /\ attempt' = 0 /\ cur' = init_state /\ active_slot' = 0
    /\ missed' = "touches" /\ aligned' = FALSE

(* Mutant: one attempt too many.                                           *)
open_touch_deviceOneMore(ok) ==
    /\ rpc = "open" /\ ~stop /\ ~ok
    /\ attempt' = attempt + 1
    /\ rpc' = IF attempt >= MaxAttempts THEN "exit" ELSE "open"
    /\ UNCHANGED <<device, life, cur, active_slot, sender, remote, view, sessions>>

(* One attempt.  A reader that opens the device knows nothing of the       *)
(* contacts already there nor of the slot announced last.                  *)
open_touch_device(ok) ==
    /\ rpc = "open"
    /\ LET failed == attempt + 1
       IN  \/ /\ ok /\ ~stop
              /\ rpc' = "read"
              /\ missed' = IF panel = init_state /\ announced = 0
                           THEN "nothing" ELSE "touches"
              /\ aligned' = (announced = 0)
              /\ UNCHANGED <<attempt, cur, active_slot>>
           \/ /\ ~ok /\ ~stop /\ failed < MaxAttempts
              /\ attempt' = failed
              /\ UNCHANGED <<rpc, cur, active_slot, view>>
           \/ /\ stop \/ (~ok /\ failed >= MaxAttempts)
              /\ rpc' = "exit"
              /\ ForgetLocals
    /\ UNCHANGED <<device, life, sender, remote, sessions>>

(* Mutant: the loop looks at the stop descriptor only after some input.    *)
ReaderExitOnInput ==
    /\ rpc = "read" /\ todo = <<>> /\ Down(cur) # {}
    /\ rpc' = "exit"
    /\ ForgetLocals
    /\ UNCHANGED <<device, life, sender, remote, sessions>>

(* The reader leaves its loop: stop was signalled, or the device failed.   *)
ReaderExit ==
    /\ rpc = "read" /\ todo = <<>>
    /\ rpc' = "exit"
    /\ ForgetLocals
    /\ UNCHANGED <<device, life, sender, remote, sessions>>

-----------------------------------------------------------------------------
(* touch_on_frame: the events for the step from the previous frame to c.   *)

Nth(S, i) == CHOOSE s \in S : Cardinality({t \in S : t < s}) = i - 1

Least(S) == CHOOSE s \in S : \A t \in S : s <= t
Greatest(S) == CHOOSE s \in S : \A t \in S : s >= t

(* Mutant: the index is the number of pointers, not a place among them.    *)
EventIndexAfter(alone, others, fingers, slot) ==
    [action |-> alone, ptrs |-> fingers, index |-> Cardinality(DOMAIN fingers)]

(* An event lists its pointers in slot order; the action depends on        *)
(* whether there are others, and action_index is the place of the slot it  *)
(* is about, which is where insert_sorted puts it.                         *)
Event(alone, others, fingers, slot) ==
    LET single == Cardinality(DOMAIN fingers) = 1
    IN  [action |-> IF single THEN alone ELSE others,
         ptrs   |-> fingers,
         index  |-> IF single \/ others = "MOVE" THEN 0
                    ELSE Cardinality({t \in DOMAIN fingers : t < slot})]

(* Mutant: a finger replaced within its slot is only seen to land.         *)
FallingGoneOnly(p, c) == {s \in Down(p) : c[s].id = None}

Falling(p, c)   == {s \in Down(p) : c[s].id # p[s].id}
Rising(p, c)    == {s \in Down(c) : c[s].id # p[s].id}
Survivors(p, c) == {s \in Down(p) : c[s].id = p[s].id}

Events(p, c) ==
    LET up == Falling(p, c)
        dn == Rising(p, c)
        sv == Survivors(p, c)
        moved == \E s \in sv : p[s].at # c[s].at
    IN  [i \in 1..Cardinality(up) |->
            LET s == Nth(up, i)
            IN  Event("UP", "POINTER_UP",
                      [t \in sv \cup {s} |-> IF t = s THEN p[t] ELSE c[t]], s)]
        \o [i \in 1..Cardinality(dn) |->
            LET s == Nth(dn, i)
            IN  Event("DOWN", "POINTER_DOWN",
                      [t \in sv \cup {u \in dn : u <= s} |-> c[t]], s)]
        \o (IF up = {} /\ dn = {} /\ moved
            THEN <<Event("MOVE", "MOVE", [t \in Down(c) |-> c[t]], 0)>> ELSE <<>>)

touch_on_frame(c) ==
    /\ todo' = Events(g_prev, c)
    /\ g_prev' = c

-----------------------------------------------------------------------------
(* The panel.  In one frame contacts land in the slots L, with the next    *)
(* ids, and lift from the slots U; a position is reported for a contact    *)
(* only.                                                                   *)

NewFrame(L, U, at) ==
    [s \in Slots |->
        [id |-> IF s \in L THEN contacts + Cardinality({t \in L : t <= s})
                ELSE IF s \in U THEN None ELSE panel[s].id,
         at |-> IF s \in DOMAIN at THEN at[s] ELSE panel[s].at]]

Moves == {m \in [land : SUBSET Slots, lift : SUBSET Down(panel)] :
            /\ m.land \cap m.lift = {}
            /\ contacts + Cardinality(m.land) <= MaxContacts}

Frames ==
    (UNION {{NewFrame(m.land, m.lift, at) : at \in [(Down(panel) \ m.lift) \cup m.land -> Raw]} :
                m \in Moves})
        \ {panel}

Changed(q) == {s \in Slots : q[s] # panel[s]}

PanelStep(q) ==
    /\ contacts' = contacts + Cardinality({s \in Slots : q[s].id > contacts})
    /\ panel' = q
    /\ announced' = Greatest(Changed(q))

(* Mutant: the slot announcements are skipped.                             *)
TargetInMind(q, s) == active_slot

(* The slot the reader takes s's changes to belong to: the one announced,  *)
(* slot 0 if that is out of range, and for the first changed slot, when it *)
(* is not announced again, the one the reader has in mind.                 *)
Target(q, s) ==
    IF s = Least(Changed(q)) /\ s = announced THEN active_slot
    ELSE IF s < MaxFingers THEN s ELSE 0

(* cur after the frame's events: ids and positions as they come.           *)
Tracked(q) ==
    LET idOf(t) == {s \in Changed(q) : Target(q, s) = t /\ q[s].id # panel[s].id}
        atOf(t) == {s \in Changed(q) : Target(q, s) = t /\ q[s].at # panel[s].at}
    IN  [t \in Slots |->
            [id |-> IF idOf(t) = {} THEN cur[t].id ELSE q[Greatest(idOf(t))].id,
             at |-> IF atOf(t) = {} THEN cur[t].at ELSE q[Greatest(atOf(t))].at]]

(* A frame nobody reads.                                                   *)
Unread(q) ==
    /\ rpc # "read"
    /\ PanelStep(q)
    /\ UNCHANGED <<life, reader, sender, remote, view, sessions>>

(* A frame up to its SYN_REPORT.                                           *)
SYN_REPORT(q) ==
    /\ rpc = "read" /\ ~stop /\ todo = <<>>
    /\ PanelStep(q)
    /\ cur' = Tracked(q)
    /\ active_slot' = Target(q, Greatest(Changed(q)))
    /\ touch_on_frame(cur')
    /\ UNCHANGED <<life, rpc, attempt, remote, view, sessions>>

Overflow == missed' = IF missed = "touches" THEN "touches" ELSE "overflow"

(* Mutant: an overflow is ignored.                                         *)
SYN_DROPPEDIgnored(q) ==
    /\ rpc = "read" /\ ~stop /\ todo = <<>>
    /\ PanelStep(q)
    /\ Overflow /\ aligned' = (active_slot = announced')
    /\ UNCHANGED <<life, reader, sender, remote, sessions>>

(* The queue overflowed: what happened to the panel is lost, every slot is *)
(* taken to be empty.  The slot in mind stays.                             *)
SYN_DROPPED(q) ==
    /\ rpc = "read" /\ ~stop /\ todo = <<>>
    /\ PanelStep(q)
    /\ cur' = init_state
    /\ touch_on_frame(init_state)
    /\ Overflow /\ aligned' = (active_slot = announced')
    /\ UNCHANGED <<life, rpc, attempt, active_slot, remote, sessions>>

-----------------------------------------------------------------------------
(* The pointer that event e is about, by its place in slot order.          *)
Lead(e) == e.ptrs[Nth(DOMAIN e.ptrs, e.index + 1)]

Pointer(f) == [id |-> f.id, px |-> scale_x(f.at)]
Pointers(m) == {Pointer(m[s]) : s \in DOMAIN m}

(* The phone (external): DOWN starts over, UP ends the gesture, the others *)
(* add or take away the leading pointer, and every pointer listed that the *)
(* phone knows moves.                                                      *)
Received(known, e) ==
    LET lead == Pointer(Lead(e))
        rest == {p \in known : p.id # lead.id}
        moved == {p \in Pointers(e.ptrs) : \E k \in rest : k.id = p.id}
                 \cup {k \in rest : \A p \in Pointers(e.ptrs) : p.id # k.id}
    IN  CASE e.action = "DOWN" -> {lead}
          [] e.action = "UP" -> {}
          [] e.action = "POINTER_DOWN" -> moved \cup {lead}
          [] e.action = "POINTER_UP" -> moved
          [] e.action = "MOVE" -> {p \in Pointers(e.ptrs) : \E k \in known : k.id = p.id}

(* An event does not arrive when the projection has no video focus, the    *)
(* SDK objects are missing or the SDK refuses it.                          *)
send_event(ok) ==
    /\ todo # <<>>
    /\ LET e == Head(todo)
       IN  /\ phone' = IF ok THEN Received(phone, e) ELSE phone
           /\ synced' = IF ok THEN synced \/ e.action \in {"DOWN", "UP"} ELSE FALSE
    /\ todo' = Tail(todo)
    /\ UNCHANGED <<device, life, reader, g_prev, view, sessions>>

Reader ==
    \/ \E ok \in BOOLEAN : open_touch_device(ok)
    \/ stop /\ ReaderExit
    \/ \E ok \in BOOLEAN : send_event(ok)

Next ==
    \/ \E ok \in BOOLEAN : touch_post_aap_create_session(ok)
    \/ touch_pre_aap_destroy_session
    \/ Join
    \/ Reader
    \/ ReaderExit
    \/ \E q \in Frames : Unread(q) \/ SYN_REPORT(q) \/ SYN_DROPPED(q)

Spec == Init /\ [][Next]_vars

(* The reader thread and the joining thread are scheduled.                 *)
FairSpec == Spec /\ WF_vars(Reader) /\ WF_vars(Join)

-----------------------------------------------------------------------------
(* The types of the reader's and the sender's state                        *)
(* (touch_send.h:16-27, touch.cpp:58-72).                                  *)
TypeOK ==
    /\ panel \in MtState /\ announced \in Slots /\ contacts \in 0..MaxContacts
    /\ alive \in BOOLEAN /\ stop \in BOOLEAN /\ lpc \in {"idle", "join"}
    /\ rpc \in {"none", "open", "read", "exit"} /\ attempt \in 0..(MaxAttempts - 1)
    /\ cur \in MtState /\ active_slot \in Slots
    /\ g_prev \in MtState
    /\ phone \subseteq [id : Ids, px : Nat] /\ synced \in BOOLEAN
    /\ missed \in {"nothing", "touches", "overflow"} /\ aligned \in BOOLEAN
    /\ sessions \in Nat

(* Every event fits the arrays it is built in and lists each pointer once  *)
(* (touch_send.cpp:77-80, 171-181; blmjciaapa.h:29-31).                    *)
EventsFit ==
    \A i \in 1..Len(todo) :
        LET e == todo[i]
        IN  /\ Cardinality(DOMAIN e.ptrs) \in 1..MaxFingers
            /\ e.index < Cardinality(DOMAIN e.ptrs)
            /\ Cardinality({e.ptrs[s].id : s \in DOMAIN e.ptrs})
                 = Cardinality(DOMAIN e.ptrs)

(* A reader that missed nothing sees the panel as it is                    *)
(* (touch.cpp:200-224).                                                    *)
ReaderFollows ==
    (rpc = "read" /\ missed = "nothing") =>
        /\ Down(cur) = Down(panel)
        /\ \A s \in Down(panel) : cur[s] = panel[s]

(* No ghosts: a reader that started with the panel's slot in mind tracks   *)
(* only contacts that are there, whatever it missed before it was opened   *)
(* or in an overflow (touch.cpp:200-246).                                  *)
NoGhostFinger ==
    (rpc = "read" /\ aligned) => \A s \in Down(cur) : cur[s].id = panel[s].id

(* touch.cpp:239-242: after an overflow the slots are reset to "let the    *)
(* next genuine touch re-establish state", so that when the panel is empty *)
(* again the reader knows of no finger.                                    *)
NoStuckFinger ==
    (rpc = "read" /\ missed = "overflow" /\ Down(panel) = {}) => Down(cur) = {}

(* The fingers of the session's last frame, as the phone is told of them.  *)
FrameSent == IF alive THEN Pointers([s \in Down(g_prev) |-> g_prev[s]]) ELSE {}

(* The sender implements FingerStream: frame by frame the phone is taken   *)
(* through lifts, then landings, each finger in its place                  *)
(* (touch_send.cpp:171-306).                                               *)
Stream == INSTANCE FingerStream
            WITH Fingers <- [id : Ids, px : Nat], frame <- FrameSent,
                 known <- phone, good <- synced, pending <- (todo # <<>>)

FingerStreamSpec == Stream!StreamSpec

(* The stop descriptor interrupts the reader wherever it waits, so the     *)
(* join in touch_pre_aap_destroy_session returns (touch.cpp:61-71,         *)
(* 292-313).                                                               *)
StopReturns == (lpc = "join") ~> (lpc = "idle")
=============================================================================

-------------------------- MODULE Nav16FeedProofs --------------------------
(***************************************************************************)
(* The safety properties of Nav16Feed for every set of maneuvers,          *)
(* distances and lanes, every set of frames sent and every bound.          *)
(***************************************************************************)
EXTENDS Nav16Feed, TLAPS, WellFoundedInduction

Emitting == {"turn", "dist", "lanes", "clear"}

(* With the hook in place no frame comes back as a callback; without it    *)
(* none reaches the socket, so the receiver has nothing to emit.           *)
OnePath ==
    /\ hooked => cpc = "idle"
    /\ ~hooked => queue = <<>> /\ rpc \notin Emitting

(* The receiver exists between its start and its join, and in that time    *)
(* the transport has not been told to stop.                                *)
Bracketed ==
    /\ rpc # "none" => rup
    /\ rup => lpc \in {"live", "rxjoin"}
    /\ lpc \in {"txup", "live", "rxjoin", "rxdown"} => ~tstop

(* The hook keeps every frame the phone may send (navi.cpp:95-106).        *)
LEMMA AllSwallowed ==
    ASSUME NEW f \in Sent
    PROVE  f.kind \in Swallowed
BY SentAssumption DEF Swallowed

(* Every step keeps the two paths apart (nav16_rx.cpp:69-125,              *)
(* navi.cpp:95-106, hud.cpp:458-518).                                      *)
LEMMA OnePathStep == OnePath /\ [Next]_vars => OnePath'
<1> SUFFICES ASSUME OnePath, [Next]_vars
             PROVE  OnePath'
    OBVIOUS
<1> USE DEF OnePath, Emitting
<1>1. ASSUME NEW f \in Sent, routeMessage(f)
      PROVE  OnePath'
    BY <1>1, AllSwallowed DEF routeMessage, relay_frame, boot, callback, receiver
<1>2. CASE our_nav_cb
    BY <1>2 DEF our_nav_cb, boot, socket, receiver
<1>3. CASE CallbackCall
    BY <1>3 DEF CallbackCall, boot, socket, receiver
<1>4. CASE Receiver
  <2>1. ASSUME NEW ok \in BOOLEAN, open_rx_socket(ok)
        PROVE  OnePath'
      BY <2>1 DEF open_rx_socket, boot, callback
  <2>2. CASE RxLoop
      BY <2>2 DEF RxLoop, RxExit, boot, callback, socket
  <2>3. CASE RxWake
      BY <2>3 DEF RxWake, RxExit, boot, callback, socket
  <2>4. CASE Recv
      BY <2>4 DEF Recv, boot, callback
  <2>5. CASE EmitTurn \/ EmitDistance \/ EmitLanes \/ EmitClear
      BY <2>5 DEF EmitTurn, EmitDistance, EmitLanes, EmitClear, boot, callback, socket
  <2> QED BY <1>4, <2>1, <2>2, <2>3, <2>4, <2>5 DEF Receiver
<1>5. CASE Sender
    BY <1>5 DEF Sender, sender_setup, Activate, send_one, Deactivate, WaitPredicate,
       WaitBlock, SpuriousWake, sender_teardown, boot, callback, socket, receiver
<1>6. CASE Lifecycle
  <2>1. ASSUME NEW spawned \in BOOLEAN, NEW fd \in BOOLEAN,
               hud_nav16_rx_start(spawned, fd)
        PROVE  OnePath'
      BY <2>1 DEF hud_nav16_rx_start, boot, callback, socket, receiver
  <2>2. CASE RxJoin
      BY <2>2 DEF RxJoin, boot, callback, socket
  <2>3. CASE aap_destroy_session
      BY <2>3 DEF aap_destroy_session, boot, socket, receiver
  <2>4. CASE \/ \E p \in Protocols : aap_create_session(p)
             \/ \E spawned \in BOOLEAN : hud_tx_start(spawned)
             \/ hud_nav16_rx_stop \/ hud_tx_stop \/ StopNotify \/ TxJoin
      BY <2>4 DEF aap_create_session, hud_tx_start, hud_nav16_rx_stop, hud_tx_stop,
         StopNotify, TxJoin, boot, callback, socket, receiver
  <2> QED BY <1>6, <2>1, <2>2, <2>3, <2>4 DEF Lifecycle
<1>7. CASE UNCHANGED vars
    BY <1>7 DEF vars, boot, callback, socket, receiver
<1> QED BY <1>1, <1>2, <1>3, <1>4, <1>5, <1>6, <1>7 DEF Next

(* The snapshot has one writer: the callback thread and the receiver are   *)
(* never both inside a transport call (hud.cpp:467-477).                   *)
THEOREM SingleWriter == Spec => []OneWriter
<1>1. Init => OnePath
    BY DEF Init, OnePath, Emitting
<1>2. OnePath => OneWriter
    BY DEF OnePath, OneWriter, Emitting
<1> QED BY <1>1, <1>2, OnePathStep, PTL DEF Spec

-----------------------------------------------------------------------------
(* Every step keeps the receiver's life inside the transport's             *)
(* (hud.cpp:710-728).                                                      *)
LEMMA BracketedStep == Bracketed /\ [Next]_vars => Bracketed'
<1> SUFFICES ASSUME Bracketed, [Next]_vars
             PROVE  Bracketed'
    OBVIOUS
<1> USE DEF Bracketed
<1>1. ASSUME NEW f \in Sent, routeMessage(f)
      PROVE  Bracketed'
    BY <1>1 DEF routeMessage, receiver, transport
<1>2. CASE our_nav_cb
    BY <1>2 DEF our_nav_cb, receiver, transport
<1>3. CASE CallbackCall
    BY <1>3 DEF CallbackCall, Wake, Publish, receiver, transport
<1>4. CASE Receiver
  <2>1. ASSUME NEW ok \in BOOLEAN, open_rx_socket(ok)
        PROVE  Bracketed'
      BY <2>1 DEF open_rx_socket, transport
  <2>2. CASE RxLoop \/ RxWake
      BY <2>2 DEF RxLoop, RxWake, RxExit, transport
  <2>3. CASE Recv
      BY <2>3 DEF Recv, transport
  <2>4. CASE EmitTurn \/ EmitDistance \/ EmitLanes \/ EmitClear
      BY <2>4 DEF EmitTurn, EmitDistance, EmitLanes, EmitClear, Publish, transport
  <2> QED BY <1>4, <2>1, <2>2, <2>3, <2>4 DEF Receiver
<1>5. CASE Sender
    BY <1>5 DEF Sender, sender_setup, Activate, send_one, Deactivate, WaitPredicate,
       WaitBlock, SpuriousWake, sender_teardown, receiver
<1>6. CASE Lifecycle
  <2>1. ASSUME NEW spawned \in BOOLEAN, NEW fd \in BOOLEAN,
               hud_nav16_rx_start(spawned, fd)
        PROVE  Bracketed'
      BY <2>1 DEF hud_nav16_rx_start, receiver, transport
  <2>2. CASE hud_nav16_rx_stop \/ RxJoin
      BY <2>2 DEF hud_nav16_rx_stop, RxJoin, receiver, transport
  <2>3. CASE \/ \E p \in Protocols : aap_create_session(p)
             \/ \E spawned \in BOOLEAN : hud_tx_start(spawned)
      BY <2>3 DEF aap_create_session, hud_tx_start, receiver, transport
  <2>4. CASE hud_tx_stop \/ StopNotify \/ TxJoin \/ aap_destroy_session
      BY <2>4 DEF hud_tx_stop, StopNotify, TxJoin, aap_destroy_session, receiver,
         transport
  <2> QED BY <1>6, <2>1, <2>2, <2>3, <2>4 DEF Lifecycle
<1>7. CASE UNCHANGED vars
    BY <1>7 DEF vars, receiver, transport
<1> QED BY <1>1, <1>2, <1>3, <1>4, <1>5, <1>6, <1>7 DEF Next

(* The transport outlives the receiver: it is not told to stop while the   *)
(* receiver may still call it (hud.cpp:722-728).                           *)
THEOREM ReceiverInside == Spec => []TransportOutlivesReceiver
<1>1. Init => Bracketed
    BY DEF Init, Bracketed
<1>2. Bracketed => TransportOutlivesReceiver
    BY DEF Bracketed, TransportOutlivesReceiver
<1> QED BY <1>1, <1>2, BracketedStep, PTL DEF Spec

-----------------------------------------------------------------------------
(* The feed.                                                               *)

Live == {"loop", "poll", "turn", "dist", "lanes"}
SomeDisplayed == \E i \in DOMAIN heard : Displays(heard[i])

(* The accumulator is what the frames of this session add up to; only the  *)
(* end of guidance is applied after it was heard.                          *)
Accumulated ==
    /\ ~hooked \/ rpc \in {"none", "open", "done"} => heard = <<>>
    /\ rpc = "open" => acc = Blank /\ ~haveLast
    /\ rpc \in Live => acc = Reference(heard)
    /\ rpc = "clear" => Reference(heard) = Blank

(* The change gate: what it remembers is what was emitted, and what was    *)
(* emitted in full is in the snapshot.                                     *)
Gated ==
    /\ (haveLast /\ rpc \in Live) \/ rpc \in Emitting => SomeDisplayed
    /\ haveLast /\ Idle => last = acc
    /\ Told /\ ~dropped => snap = acc
    /\ rpc \in {"dist", "lanes"} /\ ~dropped => snap.man = acc.man
    /\ rpc = "lanes" /\ ~dropped => snap.dist = acc.dist

(* The sender: in its loop, with nothing pending, the signal on the bus is *)
(* the snapshot.                                                           *)
Signalled ==
    /\ ~ever => snap = Blank /\ shown = Blank
    /\ tpc \in {"loop", "pred", "block", "wait"} /\ ~pending /\ ~lost => shown = snap

FeedInv == TypeOK /\ OnePath /\ Bracketed /\ Accumulated /\ Gated /\ Signalled

-----------------------------------------------------------------------------
(* The reference, one frame at a time: what a frame adds to it is what     *)
(* hud_nav16_feed does to the accumulator.                                 *)

LEMMA MaxTop ==
    ASSUME NEW S, S \subseteq Int, NEW n \in S, \A y \in S : n >= y
    PROVE  Max(S) = n
<1>1. Max(S) \in S /\ \A y \in S : Max(S) >= y
  BY Zenon DEF Max
<1>2. Max(S) \in Int /\ n \in Int /\ Max(S) >= n /\ n >= Max(S)
  BY <1>1
<1> HIDE DEF Max
<1> QED BY <1>2

LEMMA MaxMember ==
    ASSUME NEW n \in Nat, NEW S, S \subseteq 1..n, S # {}
    PROVE  Max(S) \in S
<1> DEFINE T == {n - x : x \in S}
<1>1. T \subseteq Nat /\ T # {}
  <2>1. \A x \in S : n - x \in Nat /\ n - x \in T
    OBVIOUS
  <2> QED BY <2>1
<1>2. PICK k \in T : \A y \in T : ~(<<y, k>> \in OpToRel(<, Nat))
  BY <1>1, NatLessThanWellFounded, WFMin
<1>3. \A y \in T : ~(y < k)
  BY <1>1, <1>2, Zenon DEF OpToRel
<1>4. PICK x \in S : k = n - x
  OBVIOUS
<1>5. \A y \in S : x >= y
  <2> TAKE y \in S
  <2>1. ~(n - y < n - x)
    BY <1>3, <1>4
  <2> QED BY <2>1
<1>6. S \subseteq Int
  OBVIOUS
<1>7. Max(S) = x
  BY <1>5, <1>6, MaxTop
<1> QED BY <1>7

(* h2 is h with f at its end, at place n + 1.                              *)
Grown(h, h2, f, n) ==
    /\ n \in Nat /\ Len(h) = n /\ DOMAIN h = 1..n
    /\ Len(h2) = n + 1 /\ DOMAIN h2 = 1..(n + 1)
    /\ h2[n + 1] = f /\ \A i \in 1..n : h2[i] = h[i]

LEMMA AppendGrows ==
    ASSUME NEW S, NEW h \in Seq(S), NEW f \in S
    PROVE  Grown(h, Append(h, f), f, Len(h))
BY DEF Grown

LEMMA GrownMan ==
    ASSUME NEW h, NEW h2, NEW f, NEW n, Grown(h, h2, f, n), f.kind # "ENDED"
    PROVE  /\ Ends(h2) = Ends(h)
           /\ f.kind # "NAV_STATE" => Guidance(h2) = Guidance(h)
           /\ f.kind = "NAV_STATE" => Guidance(h2) = Guidance(h) \cup {n + 1}
           /\ \A j \in 0..n : ManAt(h2, j) = ManAt(h, j)
<1> USE DEF Grown
<1>1. Ends(h2) = Ends(h)
  BY DEF Ends
<1>2. f.kind # "NAV_STATE" => Guidance(h2) = Guidance(h)
  BY <1>1 DEF Guidance
<1>3. f.kind = "NAV_STATE" => Guidance(h2) = Guidance(h) \cup {n + 1}
  <2>1. \A e \in Ends(h) : e < n + 1
    BY DEF Ends
  <2> QED BY <1>1, <2>1 DEF Guidance
<1>4. ASSUME NEW j \in 0..n PROVE ManAt(h2, j) = ManAt(h, j)
  <2> DEFINE g == {k \in Guidance(h) : k <= j}
  <2>1. {k \in Guidance(h2) : k <= j} = g
    BY <1>2, <1>3
  <2>2. g \subseteq 1..n
    BY DEF Guidance
  <2> HIDE DEF g
  <2>3. g # {} => h2[Max(g)] = h[Max(g)]
    BY <2>2, MaxMember
  <2>4. ManAt(h2, j) = IF g = {} THEN NoMan ELSE h2[Max(g)].man
    BY <2>1 DEF ManAt
  <2>5. ManAt(h, j) = IF g = {} THEN NoMan ELSE h[Max(g)].man
    BY DEF ManAt, g
  <2> QED BY <2>3, <2>4, <2>5
<1> QED BY <1>1, <1>2, <1>3, <1>4

LEMMA MeasuredInside ==
    ASSUME NEW h, NEW n \in Nat, DOMAIN h = 1..n
    PROVE  Measured(h) \subseteq 1..n /\ Guidance(h) \subseteq 1..n
BY DEF Measured, Guidance

(* The end of guidance leaves nothing.                                     *)
LEMMA ReferenceEnded ==
    ASSUME NEW h, NEW h2, NEW f, NEW n, Grown(h, h2, f, n), f.kind = "ENDED"
    PROVE  Reference(h2) = Blank
<1> USE DEF Grown
<1>1. n + 1 \in Ends(h2)
  BY DEF Ends
<1>2. Guidance(h2) = {} /\ Measured(h2) = {}
  BY <1>1 DEF Guidance, Measured
<1>3. ManAt(h2, Len(h2)) = NoMan
  BY <1>2 DEF ManAt
<1> QED BY <1>2, <1>3 DEF Reference, Blank

(* A guidance frame: its maneuver and lanes, and the distance held if the  *)
(* maneuver is the same.                                                   *)
LEMMA ReferenceGuidance ==
    ASSUME NEW h, NEW h2, NEW f, NEW n, Grown(h, h2, f, n), f.kind = "NAV_STATE"
    PROVE  Reference(h2) = on_guidance(Reference(h), f)
<1>0. n \in Nat /\ Len(h) = n /\ Len(h2) = n + 1 /\ DOMAIN h = 1..n /\ DOMAIN h2 = 1..(n + 1)
      /\ h2[n + 1] = f /\ \A i \in 1..n : h2[i] = h[i]
  BY DEF Grown
<1>1. /\ Ends(h2) = Ends(h) /\ Guidance(h2) = Guidance(h) \cup {n + 1}
      /\ \A j \in 0..n : ManAt(h2, j) = ManAt(h, j)
  BY GrownMan
<1>2. Guidance(h) \subseteq 1..n /\ Measured(h) \subseteq 1..n
  BY <1>0, MeasuredInside
<1>3. Max(Guidance(h2)) = n + 1 /\ Guidance(h2) # {}
  BY <1>0, <1>1, <1>2, MaxTop
<1>4. ManAt(h2, n + 1) = f.man
  <2>1. {k \in Guidance(h2) : k <= n + 1} = Guidance(h2)
    BY <1>0, <1>1, <1>2
  <2> QED BY <1>0, <1>3, <2>1 DEF ManAt
<1>5. Measured(h2) = IF f.man = ManAt(h, n) THEN Measured(h) ELSE {}
  <2>1. ASSUME NEW i \in Measured(h2)
        PROVE  i \in Measured(h) /\ f.man = ManAt(h, n)
    <3>1. /\ i \in 1..(n + 1) /\ h2[i].kind = "POSITION" /\ \A e \in Ends(h2) : e < i
          /\ \A j \in i..(n + 1) : ManAt(h2, j) = ManAt(h2, i)
      BY <1>0 DEF Measured
    <3>2. i \in 1..n
      BY <1>0, <3>1
    <3>3. \A j \in i..n : ManAt(h, j) = ManAt(h, i)
      BY <1>0, <1>1, <3>1, <3>2
    <3>4. f.man = ManAt(h, n)
      BY <1>0, <1>1, <1>4, <3>1, <3>2, <3>3
    <3> QED BY <1>0, <1>1, <3>1, <3>2, <3>3, <3>4 DEF Measured
  <2>2. ASSUME NEW i \in Measured(h), f.man = ManAt(h, n)
        PROVE  i \in Measured(h2)
    <3>1. /\ i \in 1..n /\ h[i].kind = "POSITION" /\ \A e \in Ends(h) : e < i
          /\ \A j \in i..n : ManAt(h, j) = ManAt(h, i)
      BY <1>0 DEF Measured
    <3>2. ManAt(h2, n + 1) = ManAt(h2, i)
      BY <1>0, <1>1, <1>4, <2>2, <3>1
    <3>3. \A j \in i..(n + 1) : ManAt(h2, j) = ManAt(h2, i)
      BY <1>0, <1>1, <3>1, <3>2
    <3> QED BY <1>0, <1>1, <3>1, <3>3 DEF Measured
  <2> QED BY <2>1, <2>2
<1>6. Measured(h) # {} => h2[Max(Measured(h))] = h[Max(Measured(h))]
  BY <1>0, <1>2, MaxMember
<1> QED BY <1>0, <1>3, <1>4, <1>5, <1>6 DEF Reference, on_guidance

(* A position frame: its distance.                                         *)
LEMMA ReferencePosition ==
    ASSUME NEW h, NEW h2, NEW f, NEW n, Grown(h, h2, f, n), f.kind = "POSITION"
    PROVE  Reference(h2) = on_position(Reference(h), f)
<1>0. n \in Nat /\ Len(h) = n /\ Len(h2) = n + 1 /\ DOMAIN h = 1..n /\ DOMAIN h2 = 1..(n + 1)
      /\ h2[n + 1] = f /\ \A i \in 1..n : h2[i] = h[i]
  BY DEF Grown
<1>1. /\ Ends(h2) = Ends(h) /\ Guidance(h2) = Guidance(h)
      /\ \A j \in 0..n : ManAt(h2, j) = ManAt(h, j)
  BY GrownMan
<1>2. Guidance(h) \subseteq 1..n /\ Measured(h2) \subseteq 1..(n + 1)
  BY <1>0, MeasuredInside
<1>3. ManAt(h2, n + 1) = ManAt(h, n)
  <2>1. {k \in Guidance(h2) : k <= n + 1} = {k \in Guidance(h2) : k <= n}
    BY <1>0, <1>1, <1>2
  <2>2. ManAt(h2, n + 1) = ManAt(h2, n)
    BY <2>1 DEF ManAt
  <2> QED BY <1>0, <1>1, <2>2
<1>4. n + 1 \in Measured(h2)
  <2>1. \A e \in Ends(h2) : e < n + 1
    BY <1>0, <1>1 DEF Ends
  <2> QED BY <1>0, <2>1 DEF Measured
<1>5. Max(Measured(h2)) = n + 1
  BY <1>0, <1>2, <1>4, MaxTop
<1>6. Guidance(h) # {} => h2[Max(Guidance(h))] = h[Max(Guidance(h))]
  BY <1>0, <1>2, MaxMember
<1>7. /\ Reference(h2).man = Reference(h).man /\ Reference(h2).lanes = Reference(h).lanes
      /\ Reference(h2).dist = f.dist
  BY <1>0, <1>1, <1>3, <1>4, <1>5, <1>6 DEF Reference
<1>8. ASSUME NEW m, NEW l, NEW d, NEW x
      PROVE  [[man |-> m, lanes |-> l, dist |-> d] EXCEPT !.dist = x]
               = [man |-> m, lanes |-> l, dist |-> x]
  OBVIOUS
<1>9. \A g : Reference(g) = [man |-> Reference(g).man, lanes |-> Reference(g).lanes,
                            dist |-> Reference(g).dist]
  BY DEF Reference
<1>10. on_position(Reference(h), f) = [man |-> Reference(h).man, lanes |-> Reference(h).lanes,
                                       dist |-> f.dist]
  <2>1. PICK m, l, d : Reference(h) = [man |-> m, lanes |-> l, dist |-> d]
    BY <1>9
  <2> QED BY <1>8, <2>1 DEF on_position
<1> QED BY <1>7, <1>9, <1>10

(* Any other frame: nothing.                                               *)
LEMMA ReferenceOther ==
    ASSUME NEW h, NEW h2, NEW f, NEW n, Grown(h, h2, f, n),
           f.kind \notin {"ENDED", "NAV_STATE", "POSITION"}
    PROVE  Reference(h2) = Reference(h)
<1>0. n \in Nat /\ Len(h) = n /\ Len(h2) = n + 1 /\ DOMAIN h = 1..n /\ DOMAIN h2 = 1..(n + 1)
      /\ h2[n + 1] = f /\ \A i \in 1..n : h2[i] = h[i]
  BY DEF Grown
<1>1. /\ Ends(h2) = Ends(h) /\ Guidance(h2) = Guidance(h)
      /\ \A j \in 0..n : ManAt(h2, j) = ManAt(h, j)
  BY GrownMan
<1>2. Guidance(h) \subseteq 1..n /\ Measured(h) \subseteq 1..n
  BY <1>0, MeasuredInside
<1>3. ManAt(h2, n + 1) = ManAt(h, n)
  <2>1. {k \in Guidance(h2) : k <= n + 1} = {k \in Guidance(h2) : k <= n}
    BY <1>0, <1>1, <1>2
  <2>2. ManAt(h2, n + 1) = ManAt(h2, n)
    BY <2>1 DEF ManAt
  <2> QED BY <1>0, <1>1, <2>2
<1>4. Measured(h2) = Measured(h)
  <2>1. ASSUME NEW i \in Measured(h2) PROVE i \in Measured(h)
    <3>1. /\ i \in 1..(n + 1) /\ h2[i].kind = "POSITION" /\ \A e \in Ends(h2) : e < i
          /\ \A j \in i..(n + 1) : ManAt(h2, j) = ManAt(h2, i)
      BY <1>0 DEF Measured
    <3>2. i \in 1..n
      BY <1>0, <3>1
    <3>3. \A j \in i..n : ManAt(h, j) = ManAt(h, i)
      BY <1>0, <1>1, <3>1, <3>2
    <3> QED BY <1>0, <1>1, <3>1, <3>2, <3>3 DEF Measured
  <2>2. ASSUME NEW i \in Measured(h) PROVE i \in Measured(h2)
    <3>1. /\ i \in 1..n /\ h[i].kind = "POSITION" /\ \A e \in Ends(h) : e < i
          /\ \A j \in i..n : ManAt(h, j) = ManAt(h, i)
      BY <1>0 DEF Measured
    <3>2. ManAt(h2, n + 1) = ManAt(h2, i)
      BY <1>0, <1>1, <1>3, <3>1
    <3>3. \A j \in i..(n + 1) : ManAt(h2, j) = ManAt(h2, i)
      BY <1>0, <1>1, <3>1, <3>2
    <3> QED BY <1>0, <1>1, <3>1, <3>3 DEF Measured
  <2> QED BY <2>1, <2>2
<1>5. /\ Guidance(h) # {} => h2[Max(Guidance(h))] = h[Max(Guidance(h))]
      /\ Measured(h) # {} => h2[Max(Measured(h))] = h[Max(Measured(h))]
  BY <1>0, <1>2, MaxMember
<1> QED BY <1>0, <1>1, <1>3, <1>4, <1>5 DEF Reference

LEMMA ReferenceEmpty == Reference(<<>>) = Blank
BY DEF Reference, Measured, Guidance, ManAt, Blank

-----------------------------------------------------------------------------
(* Types.                                                                  *)

SenderPlaces == {"none", "setup", "opened", "loop", "pred", "block", "wait", "teardown", "done"}

LEMMA BlankTyped == Blank \in Display
BY BlankAssumption DEF Blank, Display

LEMMA FrameTyped ==
    ASSUME NEW f \in Frames
    PROVE  /\ f.kind = "NEXT_TURN" => f.man \in Man
           /\ f.kind = "NEXT_TURN_DIST" => f.dist \in Dist
           /\ f.kind = "NAV_STATE" => f.man \in Man /\ f.lanes \in Lanes
           /\ f.kind = "POSITION" => f.dist \in Dist
BY DEF Frames, Frames15, Frames16, Status

LEMMA PublishTyped ==
    ASSUME TypeOK, NEW new \in Display, Publish(new)
    PROVE  /\ snap' \in Display /\ {ever', pending'} \subseteq BOOLEAN /\ tpc' \in SenderPlaces
           /\ UNCHANGED <<tup, tstop, active>>
<1>1. CASE active
  <2>1. {ever', pending'} \subseteq BOOLEAN
    BY <1>1, Zenon DEF Publish
  <2> QED BY <1>1, <2>1 DEF Publish, TypeOK, SenderPlaces
<1>2. CASE ~active
  BY <1>2 DEF Publish, transport, TypeOK, SenderPlaces
<1> QED BY <1>1, <1>2

LEMMA TypeInit == Init => TypeOK
<1> SUFFICES ASSUME Init PROVE TypeOK
  OBVIOUS
<1>1. {use16, hooked, bound, rup, rstop, efd, seen, haveLast, tup, tstop,
        active, ever, pending, lost, dropped} \subseteq BOOLEAN
  BY DEF Init
<1>2. session \in 0..MaxSessions /\ sentFrames \in 0..MaxFrames /\ Len(queue) <= QueueCap
  BY LimitAssumption DEF Init
<1> QED BY <1>1, <1>2, BlankTyped DEF TypeOK, Init

LEMMA TypeReceiver ==
    ASSUME TypeOK, Receiver
    PROVE  TypeOK'
<1>0. ASSUME NEW x \in Display
      PROVE  /\ \A m \in Man : [x EXCEPT !.man = m] \in Display
             /\ \A d \in Dist : [x EXCEPT !.dist = d] \in Display
             /\ \A l \in Lanes : [x EXCEPT !.lanes = l] \in Display
  BY DEF Display
<1>1. ASSUME NEW ok \in BOOLEAN, open_rx_socket(ok) PROVE TypeOK'
  BY <1>1 DEF TypeOK, open_rx_socket, boot, phone, gate, callback, transport, signal, history
<1>2. CASE RxLoop \/ RxWake
  <2>1. {bound', dropped'} \subseteq BOOLEAN
    BY <1>2 DEF TypeOK, RxLoop, RxWake, RxExit, socket, history
  <2>2. queue' \in Seq(Frames) /\ Len(queue') <= QueueCap /\ heard' \in Seq(Frames)
    <3>1. \/ queue' = queue /\ heard' = heard
          \/ queue' = <<>> /\ heard' = <<>>
      BY <1>2 DEF RxLoop, RxWake, RxExit, socket, history
    <3>2. <<>> \in Seq(Frames) /\ Len(<<>>) <= QueueCap
      BY LimitAssumption
    <3>3. queue \in Seq(Frames) /\ Len(queue) <= QueueCap /\ heard \in Seq(Frames)
      BY DEF TypeOK
    <3> QED BY <3>1, <3>2, <3>3
  <2> QED BY <1>2, <2>1, <2>2
          DEF TypeOK, RxLoop, RxWake, RxExit, boot, phone, gate, callback, transport, signal
<1>3. CASE Recv
  <2>1. Head(queue) \in Frames /\ queue' \in Seq(Frames) /\ Len(queue') <= QueueCap
    BY <1>3, LimitAssumption DEF TypeOK, Recv
  <2>2. heard' \in Seq(Frames)
    BY <1>3, <2>1 DEF TypeOK, Recv
  <2>3. acc' \in Display
    <3>1. acc \in Display /\ NoDist \in Dist
      BY BlankAssumption DEF TypeOK
    <3>2. CASE Head(queue).kind = "NAV_STATE"
      <4>1. acc' = on_guidance(acc, Head(queue))
        BY <1>3, <3>2 DEF Recv, hud_nav16_feed
      <4> QED BY <2>1, <3>1, <3>2, <4>1, FrameTyped DEF on_guidance, Display
    <3>3. CASE Head(queue).kind = "POSITION"
      <4>1. acc' = [acc EXCEPT !.dist = Head(queue).dist]
        BY <1>3, <3>3 DEF Recv, hud_nav16_feed, on_position
      <4> QED BY <1>0, <2>1, <3>1, <3>3, <4>1, FrameTyped
    <3>4. CASE Head(queue).kind \notin {"NAV_STATE", "POSITION"}
      BY <1>3, <3>1, <3>4 DEF Recv, hud_nav16_feed
    <3> QED BY <3>2, <3>3, <3>4
  <2>4. rpc' \in {"clear", "turn", "loop"}
    BY <1>3 DEF Recv, hud_nav16_feed
  <2>5. seen' \in BOOLEAN
    BY <1>3, Zenon DEF Recv
  <2> QED BY <1>3, <2>1, <2>2, <2>3, <2>4, <2>5
          DEF TypeOK, Recv, boot, phone, callback, transport, signal
<1>4. CASE EmitTurn \/ EmitDistance \/ EmitLanes
  <2>0. snap \in Display /\ acc \in Display
    BY DEF TypeOK
  <2>1. acc.man \in Man /\ acc.dist \in Dist /\ acc.lanes \in Lanes
    BY <2>0 DEF Display
  <2>2. /\ snap' \in Display /\ {ever', pending'} \subseteq BOOLEAN /\ tpc' \in SenderPlaces
        /\ UNCHANGED <<tup, tstop, active>>
    BY <1>0, <1>4, <2>0, <2>1, PublishTyped DEF EmitTurn, EmitDistance, EmitLanes
  <2>3. dropped' \in BOOLEAN /\ haveLast' \in BOOLEAN
    <3>1. dropped \in BOOLEAN /\ haveLast \in BOOLEAN
      BY DEF TypeOK
    <3> QED BY <1>4, <3>1, Zenon DEF EmitTurn, EmitDistance, EmitLanes, gate
  <2>4. last' \in Display /\ acc' = acc
    BY <1>4, <2>0 DEF EmitTurn, EmitDistance, EmitLanes, gate, TypeOK
  <2> QED BY <1>4, <2>2, <2>3, <2>4
          DEF TypeOK, EmitTurn, EmitDistance, EmitLanes, boot, phone, socket, gate, callback,
              signal, SenderPlaces
<1>5. CASE EmitClear
  <2>1. /\ snap' \in Display /\ {ever', pending'} \subseteq BOOLEAN /\ tpc' \in SenderPlaces
        /\ UNCHANGED <<tup, tstop, active>>
    BY <1>5, BlankTyped, PublishTyped DEF EmitClear
  <2>2. dropped' \in BOOLEAN /\ haveLast' \in BOOLEAN
    BY <1>5, Zenon DEF EmitClear, reset
  <2> QED BY <1>5, <2>1, <2>2, BlankTyped
          DEF TypeOK, EmitClear, reset, boot, phone, socket, callback, signal, SenderPlaces
<1> QED BY <1>1, <1>2, <1>3, <1>4, <1>5 DEF Receiver

LEMMA TypeSender ==
    ASSUME TypeOK, Sender
    PROVE  TypeOK'
<1> USE DEF TypeOK, boot, phone, socket, receiver, gate, callback, history
<1>1. ASSUME NEW ok \in BOOLEAN, sender_setup(ok) PROVE TypeOK'
  BY <1>1 DEF sender_setup, signal
<1>2. CASE Activate
  BY <1>2 DEF Activate, signal
<1>3. ASSUME NEW ok \in BOOLEAN, send_one(ok) PROVE TypeOK'
  <2>1. tpc = "loop" /\ tpc' = "pred" /\ pending' = FALSE
    BY <1>3 DEF send_one
  <2>2. emit_guidance(snap, ok) \/ UNCHANGED signal
    BY <1>3, Zenon DEF send_one
  <2>3. shown' \in Display /\ lost' \in BOOLEAN
    <3>1. CASE emit_guidance(snap, ok)
      BY <3>1, Zenon DEF emit_guidance, TypeOK
    <3>2. CASE UNCHANGED signal
      BY <3>2 DEF signal
    <3> QED BY <2>2, <3>1, <3>2
  <2>4. UNCHANGED <<boot, lpc, phone, socket, receiver, gate, callback, tup, tstop,
                    active, snap, ever, history>>
    BY <1>3 DEF send_one
  <2> QED BY <2>1, <2>3, <2>4
<1>4. CASE Deactivate
  <2>1. {active', pending'} \subseteq BOOLEAN
    BY <1>4 DEF Deactivate
  <2> QED BY <1>4, <2>1 DEF Deactivate, signal
<1>5. CASE WaitPredicate \/ WaitBlock \/ SpuriousWake
  BY <1>5 DEF WaitPredicate, WaitBlock, SpuriousWake, signal
<1>6. ASSUME NEW ok \in BOOLEAN, sender_teardown(ok) PROVE TypeOK'
  BY <1>6, BlankTyped DEF sender_teardown, emit_guidance
<1> QED BY <1>1, <1>2, <1>3, <1>4, <1>5, <1>6 DEF Sender

LEMMA TypeLifecycle ==
    ASSUME TypeOK, Lifecycle
    PROVE  TypeOK'
<1> USE DEF TypeOK, boot, signal, history
<1>1. ASSUME NEW p \in Protocols, aap_create_session(p) PROVE TypeOK'
  BY <1>1, LimitAssumption
     DEF aap_create_session, Protocols, socket, receiver, gate, callback, transport
<1>2. ASSUME NEW spawned \in BOOLEAN, hud_tx_start(spawned) PROVE TypeOK'
  <2>1. {tup', tstop', active'} \subseteq BOOLEAN
    BY <1>2 DEF hud_tx_start
  <2> QED BY <1>2, <2>1 DEF hud_tx_start, phone, socket, receiver, gate, callback
<1>3. ASSUME NEW spawned \in BOOLEAN, NEW fd \in BOOLEAN, hud_nav16_rx_start(spawned, fd)
      PROVE  TypeOK'
  <2>1. {rup', rstop', efd', seen', haveLast'} \subseteq BOOLEAN
    BY <1>3 DEF hud_nav16_rx_start, reset, gate, receiver
  <2>2. {acc', last'} \subseteq Display /\ rpc' \in {"open", "none", rpc}
    BY <1>3, BlankTyped DEF hud_nav16_rx_start, reset, gate, receiver
  <2> QED BY <1>3, <2>1, <2>2 DEF hud_nav16_rx_start, phone, socket, callback, transport
<1>4. CASE hud_nav16_rx_stop
  BY <1>4 DEF hud_nav16_rx_stop, phone, socket, gate, callback, transport
<1>5. CASE RxJoin
  <2>1. {rup', efd'} \subseteq BOOLEAN
    BY <1>5 DEF RxJoin
  <2> QED BY <1>5, <2>1 DEF RxJoin, phone, socket, gate, callback, transport
<1>6. CASE hud_tx_stop \/ StopNotify
  BY <1>6 DEF hud_tx_stop, StopNotify, phone, socket, receiver, gate, callback
<1>7. CASE TxJoin
  <2>1. {tup', active'} \subseteq BOOLEAN
    BY <1>7 DEF TxJoin
  <2> QED BY <1>7, <2>1 DEF TxJoin, phone, socket, receiver, gate, callback
<1>8. CASE aap_destroy_session
  BY <1>8 DEF aap_destroy_session, phone, socket, receiver, gate, transport
<1> QED BY <1>1, <1>2, <1>3, <1>4, <1>5, <1>6, <1>7, <1>8 DEF Lifecycle

LEMMA TypeStep == TypeOK /\ [Next]_vars => TypeOK'
<1> SUFFICES ASSUME TypeOK, [Next]_vars PROVE TypeOK'
  OBVIOUS
<1>1. ASSUME NEW f \in Sent, routeMessage(f) PROVE TypeOK'
  <2>1. f \in Frames
    BY SentAssumption
  <2>2. queue' \in Seq(Frames) /\ Len(queue') <= QueueCap /\ sentFrames' \in 0..MaxFrames
    <3>1. queue \in Seq(Frames) /\ Len(queue) \in Nat /\ Len(queue) <= QueueCap
      <4>1. queue \in Seq(Frames) /\ Len(queue) <= QueueCap
        BY DEF TypeOK
      <4> QED BY <4>1
    <3>2. queue' = queue \/ (Len(queue) < QueueCap /\ queue' = Append(queue, f))
      <4>1. relay_frame(f) \/ UNCHANGED queue
        BY <1>1, Zenon DEF routeMessage
      <4> QED BY <4>1 DEF relay_frame
    <3>3. Append(queue, f) \in Seq(Frames) /\ Len(Append(queue, f)) = Len(queue) + 1
      BY <2>1, <3>1
    <3>4. queue' \in Seq(Frames) /\ Len(queue') <= QueueCap
      BY <3>1, <3>2, <3>3, LimitAssumption
    <3>5. sentFrames' = sentFrames + 1 /\ sentFrames < MaxFrames
      BY <1>1 DEF routeMessage
    <3>6. sentFrames' \in 0..MaxFrames
      BY <3>5, LimitAssumption DEF TypeOK
    <3> QED BY <3>4, <3>6
  <2>3. cpc' \in {"idle", "queued", "call"} /\ cframe' \in Frames \cup {NoFrame}
    BY <1>1, <2>1 DEF routeMessage, callback, TypeOK
  <2> QED BY <1>1, <2>2, <2>3
          DEF routeMessage, TypeOK, boot, receiver, gate, transport, signal, history
<1>2. CASE our_nav_cb
  BY <1>2 DEF our_nav_cb, TypeOK, boot, phone, socket, receiver, gate, transport, signal, history
<1>3. CASE CallbackCall
  <2>1. cframe \in Frames \/ cframe = NoFrame
    BY DEF TypeOK
  <2>2. /\ snap' \in Display /\ {ever', pending'} \subseteq BOOLEAN /\ tpc' \in SenderPlaces
        /\ UNCHANGED <<tup, tstop, active>>
    <3>0. snap \in Display
      BY DEF TypeOK
    <3>1. CASE cframe.kind = "KEPT" /\ Wake
      BY <3>1 DEF Wake, TypeOK, SenderPlaces
    <3>2. CASE cframe.kind = "ENDED" /\ Publish(Blank)
      BY <3>2, BlankTyped, PublishTyped
    <3>3. CASE cframe.kind = "NEXT_TURN" /\ Publish([snap EXCEPT !.man = cframe.man])
      <4>1. cframe.man \in Man
        BY <2>1, <3>3, FrameTyped DEF NoFrame
      <4>2. [snap EXCEPT !.man = cframe.man] \in Display
        BY <3>0, <4>1 DEF Display
      <4> QED BY <3>3, <4>2, PublishTyped
    <3>4. CASE cframe.kind = "NEXT_TURN_DIST" /\ Publish([snap EXCEPT !.dist = cframe.dist])
      <4>1. cframe.dist \in Dist
        BY <2>1, <3>4, FrameTyped DEF NoFrame
      <4>2. [snap EXCEPT !.dist = cframe.dist] \in Display
        BY <3>0, <4>1 DEF Display
      <4> QED BY <3>4, <4>2, PublishTyped
    <3> QED BY <1>3, <3>1, <3>2, <3>3, <3>4 DEF CallbackCall
  <2> QED BY <1>3, <2>2
          DEF CallbackCall, TypeOK, SenderPlaces, boot, phone, socket, receiver, gate, signal, history
<1>4. CASE UNCHANGED vars
  BY <1>4 DEF vars, TypeOK, boot, phone, socket, receiver, gate, callback, transport, signal, history
<1> QED BY <1>1, <1>2, <1>3, <1>4, TypeReceiver, TypeSender, TypeLifecycle DEF Next

(* The types of the feed's state: the socket never holds more than its     *)
(* capacity (navi.cpp's MSG_DONTWAIT), and what is displayed is a display. *)
THEOREM TypeCorrect == Spec => []TypeOK
BY TypeInit, TypeStep, PTL DEF Spec

-----------------------------------------------------------------------------
(* Steps.                                                                  *)

(* What the accumulator, the gate and the history depend on.               *)
feed == <<hooked, heard, dropped, rpc, acc, last, haveLast, snap>>

(* Outside the receiver, its start and its join, and the callbacks, no     *)
(* step touches the feed.                                                  *)
LEMMA FeedQuiet ==
    ASSUME [Next]_vars, ~CallbackCall, ~Receiver, ~RxJoin,
           ~\E spawned, fd \in BOOLEAN : hud_nav16_rx_start(spawned, fd)
    PROVE  UNCHANGED feed
<1> USE DEF feed, boot, receiver, gate, transport, history
<1>1. ASSUME NEW f \in Sent, routeMessage(f) PROVE UNCHANGED feed
  BY <1>1 DEF routeMessage
<1>2. CASE our_nav_cb
  BY <1>2 DEF our_nav_cb
<1>3. CASE Sender
  BY <1>3 DEF Sender, sender_setup, Activate, send_one, Deactivate, WaitPredicate, WaitBlock,
     SpuriousWake, sender_teardown
<1>4. CASE Lifecycle
  BY <1>4 DEF Lifecycle, aap_create_session, hud_tx_start, hud_nav16_rx_stop, hud_tx_stop,
     StopNotify, TxJoin, aap_destroy_session
<1>5. CASE UNCHANGED vars
  BY <1>5 DEF vars
<1> QED BY <1>1, <1>2, <1>3, <1>4, <1>5 DEF Next

LEMMA FeedUnchanged ==
    ASSUME UNCHANGED feed
    PROVE  (Accumulated => Accumulated') /\ (Gated => Gated')
<1>1. Accumulated => Accumulated'
  BY DEF feed, Accumulated
<1>2. (Told' <=> Told) /\ (SomeDisplayed' <=> SomeDisplayed) /\ (Idle' <=> Idle)
  BY DEF feed, Told, SomeDisplayed, Idle
<1>3. Gated => Gated'
  BY <1>2 DEF feed, Gated
<1> QED BY <1>1, <1>3

(* A frame received is added to the accumulator as the reference adds it.  *)
LEMMA AccumulatedRecv ==
    ASSUME TypeOK, OnePath, Accumulated, Recv
    PROVE  Accumulated'
<1> DEFINE f == Head(queue)
<1>1. f \in Frames /\ heard \in Seq(Frames) /\ hooked
  BY DEF TypeOK, Recv, OnePath
<1>2. /\ heard' = Append(heard, f) /\ hooked' = hooked /\ haveLast' = haveLast
      /\ hud_nav16_feed(f) /\ rpc = "poll"
  BY DEF Recv, boot
<1>3. acc = Reference(heard)
  BY <1>2 DEF Accumulated, Live
<1> HIDE DEF f
<1>4. Grown(heard, heard', f, Len(heard))
  BY <1>1, <1>2, AppendGrows
<1>5. CASE f.kind = "ENDED"
  <2>1. rpc' = "clear"
    BY <1>2, <1>5 DEF hud_nav16_feed
  <2>2. Reference(heard') = Blank
    BY <1>4, <1>5, ReferenceEnded
  <2> QED BY <1>1, <1>2, <2>1, <2>2 DEF Accumulated, Live
<1>6. CASE f.kind = "NAV_STATE"
  <2>1. acc' = on_guidance(acc, f) /\ rpc' \in {"turn", "loop"}
    BY <1>2, <1>6 DEF hud_nav16_feed
  <2>2. Reference(heard') = acc'
    BY <1>3, <1>4, <1>6, <2>1, ReferenceGuidance
  <2> QED BY <1>1, <1>2, <2>1, <2>2 DEF Accumulated
<1>7. CASE f.kind = "POSITION"
  <2>1. acc' = on_position(acc, f) /\ rpc' \in {"turn", "loop"}
    BY <1>2, <1>7 DEF hud_nav16_feed
  <2>2. Reference(heard') = acc'
    BY <1>3, <1>4, <1>7, <2>1, ReferencePosition
  <2> QED BY <1>1, <1>2, <2>1, <2>2 DEF Accumulated
<1>8. CASE f.kind \notin {"ENDED", "NAV_STATE", "POSITION"}
  <2>1. acc' = acc /\ rpc' = "loop"
    BY <1>2, <1>8 DEF hud_nav16_feed
  <2>2. Reference(heard') = acc'
    BY <1>3, <1>4, <1>8, <2>1, ReferenceOther
  <2> QED BY <1>1, <1>2, <2>1, <2>2 DEF Accumulated
<1> QED BY <1>5, <1>6, <1>7, <1>8

LEMMA AccumulatedStep ==
    ASSUME TypeOK, OnePath, Bracketed, Accumulated, [Next]_vars
    PROVE  Accumulated'
<1>1. CASE CallbackCall
  BY <1>1 DEF CallbackCall, Accumulated, boot, receiver, gate, history
<1>2. CASE Receiver
  <2>1. ASSUME NEW ok \in BOOLEAN, open_rx_socket(ok) PROVE Accumulated'
    BY <2>1, ReferenceEmpty DEF open_rx_socket, Accumulated, Live, boot, gate, history
  <2>2. CASE RxLoop \/ RxWake
    BY <2>2 DEF RxLoop, RxWake, RxExit, Accumulated, Live, boot, gate, history
  <2>3. CASE EmitTurn \/ EmitDistance \/ EmitLanes
    BY <2>3 DEF EmitTurn, EmitDistance, EmitLanes, Accumulated, Live, boot, gate
  <2>4. CASE EmitClear
    BY <2>4 DEF EmitClear, reset, Accumulated, Live, boot
  <2> QED BY <1>2, <2>1, <2>2, <2>3, <2>4, AccumulatedRecv DEF Receiver
<1>3. ASSUME NEW spawned \in BOOLEAN, NEW fd \in BOOLEAN, hud_nav16_rx_start(spawned, fd)
      PROVE  Accumulated'
  <2>1. rpc = "none" /\ heard = <<>> /\ hooked' = hooked /\ heard' = heard
    BY <1>3 DEF hud_nav16_rx_start, Bracketed, Accumulated, boot, history
  <2>2. CASE use16
    BY <1>3, <2>1, <2>2 DEF hud_nav16_rx_start, reset, Accumulated, Live
  <2>3. CASE ~use16
    BY <1>3, <2>1, <2>3 DEF hud_nav16_rx_start, Accumulated, Live, gate, receiver
  <2> QED BY <2>2, <2>3
<1>4. CASE RxJoin
  BY <1>4 DEF RxJoin, Accumulated, Live, boot, gate, history
<1> QED BY <1>1, <1>2, <1>3, <1>4, FeedQuiet, FeedUnchanged

-----------------------------------------------------------------------------
(* The gate passes on a frame that changes the display, and one it keeps   *)
(* back is already in the snapshot.                                        *)
LEMMA GatedRecv ==
    ASSUME TypeOK, OnePath, Accumulated, Gated, Recv
    PROVE  Gated'
<1> DEFINE f == Head(queue)
<1>1. f \in Frames /\ heard \in Seq(Frames)
  BY DEF TypeOK, Recv
<1>2. /\ heard' = Append(heard, f) /\ rpc = "poll" /\ hud_nav16_feed(f)
      /\ last' = last /\ haveLast' = haveLast /\ snap' = snap /\ dropped' = dropped
  BY DEF Recv, transport
<1> HIDE DEF f
<1>3. Grown(heard, heard', f, Len(heard))
  BY <1>1, <1>2, AppendGrows
<1>4. SomeDisplayed' <=> SomeDisplayed \/ Displays(f)
  <2>1. SomeDisplayed => SomeDisplayed'
    BY <1>3 DEF SomeDisplayed, Grown
  <2>2. Displays(f) => SomeDisplayed'
    BY <1>3 DEF SomeDisplayed, Grown
  <2>3. SomeDisplayed' => SomeDisplayed \/ Displays(f)
    <3> SUFFICES ASSUME SomeDisplayed' PROVE SomeDisplayed \/ Displays(f)
      OBVIOUS
    <3>1. PICK i \in DOMAIN heard' : Displays(heard'[i])
      BY DEF SomeDisplayed
    <3> QED BY <1>3, <3>1 DEF SomeDisplayed, Grown
  <2> QED BY <2>1, <2>2, <2>3
<1>5. Idle /\ (Told <=> SomeDisplayed) /\ (haveLast => SomeDisplayed /\ last = acc)
  BY <1>2 DEF Idle, Told, SomeDisplayed, Gated, Live
<1>6. Told' <=> Idle' /\ SomeDisplayed'
  BY DEF Told, SomeDisplayed
<1>7. CASE rpc' \in {"clear", "turn"}
  <2>1. Displays(f) /\ ~Idle' /\ ~Told'
    BY <1>2, <1>6, <1>7 DEF hud_nav16_feed, Displays, Idle
  <2> QED BY <1>4, <1>7, <2>1 DEF Gated
<1>8. CASE rpc' \notin {"clear", "turn"}
  <2>1. rpc' = "loop" /\ acc' = acc /\ (Displays(f) => haveLast)
    <3>1. CASE f.kind = "NAV_STATE"
      <4>1. /\ acc' = on_guidance(acc, f)
            /\ rpc' = IF Changed(on_guidance(acc, f)) THEN "turn" ELSE "loop"
        BY <1>2, <3>1 DEF hud_nav16_feed
      <4> QED BY <1>5, <1>8, <4>1 DEF Changed
    <3>2. CASE f.kind = "POSITION"
      <4>1. /\ acc' = on_position(acc, f)
            /\ rpc' = IF Changed(on_position(acc, f)) THEN "turn" ELSE "loop"
        BY <1>2, <3>2 DEF hud_nav16_feed
      <4> QED BY <1>5, <1>8, <4>1 DEF Changed
    <3>3. CASE f.kind \notin {"NAV_STATE", "POSITION"}
      BY <1>2, <1>8, <3>3 DEF hud_nav16_feed, Displays
    <3> QED BY <3>1, <3>2, <3>3
  <2>2. Idle' /\ (SomeDisplayed' <=> SomeDisplayed)
    BY <1>4, <1>5, <2>1 DEF Idle
  <2> QED BY <1>2, <1>5, <1>6, <2>1, <2>2 DEF Gated, Emitting
<1> QED BY <1>7, <1>8

LEMMA GatedStep ==
    ASSUME TypeOK, OnePath, Bracketed, Accumulated, Gated, [Next]_vars
    PROVE  Gated'
<1>0. (Told <=> Idle /\ SomeDisplayed) /\ (Told' <=> Idle' /\ SomeDisplayed')
  BY DEF Told, SomeDisplayed
<1>1. CASE CallbackCall
  <2>1. heard = <<>> /\ rpc \notin Emitting
    BY <1>1 DEF CallbackCall, OnePath, Accumulated
  <2>2. UNCHANGED <<rpc, heard, acc, last, haveLast>>
    BY <1>1 DEF CallbackCall, receiver, gate, history
  <2>3. ~SomeDisplayed /\ ~SomeDisplayed'
    BY <2>1, <2>2 DEF SomeDisplayed
  <2> QED BY <1>0, <2>1, <2>2, <2>3 DEF Gated, Emitting, Live, Idle
<1>2. CASE Receiver
  <2>0. acc \in Display /\ snap \in Display
    BY DEF TypeOK
  <2>1. ASSUME NEW ok \in BOOLEAN, open_rx_socket(ok) PROVE Gated'
    <3>1. heard' = <<>> /\ ~haveLast' /\ rpc' \in {"loop", "done"}
      BY <2>1 DEF open_rx_socket, Accumulated, gate, history
    <3>2. ~SomeDisplayed'
      BY <3>1 DEF SomeDisplayed
    <3> QED BY <1>0, <3>1, <3>2 DEF Gated, Emitting
  <2>2. CASE RxLoop \/ RxWake
    <3>1. UNCHANGED <<acc, last, haveLast, snap>>
      BY <2>2 DEF RxLoop, RxWake, gate, transport
    <3>2. CASE rpc' = "done"
      BY <1>0, <3>2 DEF Gated, Emitting, Live, Idle
    <3>3. CASE rpc' # "done"
      <4>1. Idle /\ Idle' /\ UNCHANGED <<heard, dropped>>
        BY <2>2, <3>3 DEF RxLoop, RxWake, RxExit, history, Idle
      <4>2. SomeDisplayed' <=> SomeDisplayed
        BY <4>1 DEF SomeDisplayed
      <4> QED BY <1>0, <3>1, <4>1, <4>2 DEF Gated, Emitting, Live, Idle
    <3> QED BY <3>2, <3>3
  <2>3. CASE EmitTurn
    <3>1. /\ rpc = "turn" /\ rpc' = "dist" /\ UNCHANGED <<heard, acc>>
          /\ ~dropped' => snap' = [snap EXCEPT !.man = acc.man]
      BY <2>3 DEF EmitTurn, gate, Publish
    <3>2. ~dropped' => snap'.man = acc'.man
      BY <2>0, <3>1 DEF Display
    <3>3. SomeDisplayed'
      BY <3>1 DEF Gated, Emitting, SomeDisplayed
    <3> QED BY <1>0, <3>1, <3>2, <3>3 DEF Gated, Idle
  <2>4. CASE EmitDistance
    <3>1. /\ rpc = "dist" /\ rpc' = "lanes" /\ UNCHANGED <<heard, acc>>
          /\ ~dropped' => ~dropped /\ snap' = [snap EXCEPT !.dist = acc.dist]
      BY <2>4 DEF EmitDistance, gate, Publish
    <3>2. ~dropped' => snap'.man = acc'.man /\ snap'.dist = acc'.dist
      BY <2>0, <3>1 DEF Display, Gated
    <3>3. SomeDisplayed'
      BY <3>1 DEF Gated, Emitting, SomeDisplayed
    <3> QED BY <1>0, <3>1, <3>2, <3>3 DEF Gated, Idle
  <2>5. CASE EmitLanes
    <3>1. /\ rpc = "lanes" /\ rpc' = "loop" /\ UNCHANGED <<heard, acc>> /\ last' = acc
          /\ ~dropped' => ~dropped /\ snap' = [snap EXCEPT !.lanes = acc.lanes]
      BY <2>5 DEF EmitLanes, Publish
    <3>2. ~dropped' => snap' = acc'
      BY <2>0, <3>1 DEF Display, Gated
    <3>3. SomeDisplayed'
      BY <3>1 DEF Gated, Emitting, SomeDisplayed
    <3> QED BY <1>0, <3>1, <3>2, <3>3 DEF Gated, Emitting
  <2>6. CASE EmitClear
    <3>1. /\ rpc' = "loop" /\ ~haveLast' /\ acc' = Blank
          /\ ~dropped' => snap' = Blank
      BY <2>6 DEF EmitClear, reset, Publish
    <3> QED BY <3>1 DEF Gated, Emitting
  <2> QED BY <1>2, <2>1, <2>2, <2>3, <2>4, <2>5, <2>6, GatedRecv DEF Receiver
<1>3. ASSUME NEW spawned \in BOOLEAN, NEW fd \in BOOLEAN, hud_nav16_rx_start(spawned, fd)
      PROVE  Gated'
  <2>1. rpc' \in {"none", "open"}
    BY <1>3 DEF hud_nav16_rx_start, Bracketed, receiver
  <2> QED BY <1>0, <2>1 DEF Gated, Emitting, Live, Idle
<1>4. CASE RxJoin
  BY <1>0, <1>4 DEF RxJoin, Gated, Emitting, Live, Idle
<1> QED BY <1>1, <1>2, <1>3, <1>4, FeedQuiet, FeedUnchanged

-----------------------------------------------------------------------------
(* The sender.                                                             *)

LEMMA SignalledPublish ==
    ASSUME Signalled, NEW new, Publish(new), UNCHANGED signal
    PROVE  Signalled'
BY DEF Signalled, Publish, transport, signal

LEMMA SignalledStep ==
    ASSUME TypeOK, Signalled, [Next]_vars
    PROVE  Signalled'
<1>1. ASSUME NEW f \in Sent, routeMessage(f) PROVE Signalled'
  BY <1>1 DEF routeMessage, Signalled, transport, signal
<1>2. CASE our_nav_cb
  BY <1>2 DEF our_nav_cb, Signalled, transport, signal
<1>3. CASE CallbackCall
  <2>1. CASE Wake
    BY <1>3, <2>1 DEF CallbackCall, Wake, Signalled, signal
  <2>2. ASSUME NEW new, Publish(new) PROVE Signalled'
    BY <1>3, <2>2, SignalledPublish DEF CallbackCall
  <2> QED BY <1>3, <2>1, <2>2 DEF CallbackCall
<1>4. CASE Receiver
  <2>1. CASE \/ \E ok \in BOOLEAN : open_rx_socket(ok)
             \/ RxLoop \/ RxWake \/ Recv
    BY <2>1 DEF open_rx_socket, RxLoop, RxWake, Recv, Signalled, transport, signal
  <2>2. CASE EmitTurn \/ EmitDistance \/ EmitLanes \/ EmitClear
    BY <2>2, SignalledPublish DEF EmitTurn, EmitDistance, EmitLanes, EmitClear
  <2> QED BY <1>4, <2>1, <2>2 DEF Receiver
<1>5. CASE Sender
  <2>1. ASSUME NEW ok \in BOOLEAN, sender_setup(ok) PROVE Signalled'
    BY <2>1 DEF sender_setup, Signalled, signal
  <2>2. CASE Activate
    BY <2>2 DEF Activate, Signalled, signal
  <2>3. ASSUME NEW ok \in BOOLEAN, send_one(ok) PROVE Signalled'
    BY <2>3 DEF send_one, emit_guidance, Signalled, signal
  <2>4. CASE Deactivate \/ WaitPredicate \/ WaitBlock \/ SpuriousWake
    BY <2>4 DEF Deactivate, WaitPredicate, WaitBlock, SpuriousWake, Signalled, signal
  <2>5. ASSUME NEW ok \in BOOLEAN, sender_teardown(ok) PROVE Signalled'
    BY <2>5 DEF sender_teardown, emit_guidance, Signalled
  <2> QED BY <1>5, <2>1, <2>2, <2>3, <2>4, <2>5 DEF Sender
<1>6. CASE Lifecycle
  BY <1>6 DEF Lifecycle, aap_create_session, hud_tx_start, hud_nav16_rx_start, hud_nav16_rx_stop,
     RxJoin, hud_tx_stop, StopNotify, TxJoin, aap_destroy_session, Signalled, transport, signal
<1>7. CASE UNCHANGED vars
  BY <1>7 DEF vars, Signalled, transport, signal
<1> QED BY <1>1, <1>2, <1>3, <1>4, <1>5, <1>6, <1>7 DEF Next

-----------------------------------------------------------------------------
LEMMA FeedInvInit == Init => FeedInv
<1> SUFFICES ASSUME Init PROVE FeedInv
  OBVIOUS
<1>1. OnePath /\ Bracketed
  BY DEF Init, OnePath, Emitting, Bracketed
<1>2. Accumulated /\ Signalled
  BY DEF Init, Accumulated, Live, Signalled
<1>3. Gated
  BY DEF Init, Gated, Told, Idle, Live, Emitting
<1> QED BY <1>1, <1>2, <1>3, TypeInit DEF FeedInv

LEMMA FeedInvStep == FeedInv /\ [Next]_vars => FeedInv'
BY TypeStep, OnePathStep, BracketedStep, AccumulatedStep, GatedStep, SignalledStep DEF FeedInv

LEMMA FeedInvHolds == Spec => []FeedInv
BY FeedInvInit, FeedInvStep, PTL DEF Spec

(* The accumulator and its change gate lose nothing (hud.cpp:574-628): in  *)
(* a session whose latest emission the transport accepted, the snapshot is *)
(* what the frames received so far add up to, however many there were.     *)
THEOREM FeedAddsUp == Spec => []FeedFollows
<1>1. FeedInv => FeedFollows
  BY DEF FeedInv, Accumulated, Gated, FeedFollows, Told, Idle, Live
<1> QED BY <1>1, FeedInvHolds, PTL

(* End to end: with the receiver idle and the sender done with the         *)
(* snapshot, the signal on the bus is what the phone's frames add up to    *)
(* (hud.cpp:612-628, svcnavi_tx.cpp:147-164, 240-263).                     *)
THEOREM SignalAddsUp == Spec => []SignalFollows
<1>1. FeedInv => FeedFollows
  BY DEF FeedInv, Accumulated, Gated, FeedFollows, Told, Idle, Live
<1>2. FeedInv => SignalFollows
  BY <1>1 DEF FeedInv, Signalled, FeedFollows, SignalFollows
<1> QED BY <1>2, FeedInvHolds, PTL

(* The change gate keeps back only what is there (hud.cpp:612-628):        *)
(* while the transport refuses nothing, a frame that is not passed on      *)
(* leaves the snapshot what the frames add up to, this one included.  Once *)
(* it has refused something, the gate may keep back what is not there.     *)
THEOREM KeptBackIsShown ==
    Spec => [][~dropped /\ Recv /\ Displays(Head(queue)) /\ rpc' = "loop"
                  => snap = Reference(heard')]_vars
<1>1. ASSUME FeedInv, [Next]_vars, ~dropped, Recv, Displays(Head(queue)), rpc' = "loop"
      PROVE  snap = Reference(heard')
  <2>1. Accumulated' /\ Gated'
    BY <1>1, FeedInvStep DEF FeedInv
  <2>2. ~dropped' /\ snap' = snap /\ acc' = Reference(heard')
    BY <1>1, <2>1 DEF Recv, transport, Accumulated, Live
  <2>3. SomeDisplayed'
    <3>1. Head(queue) \in Frames /\ heard \in Seq(Frames) /\ heard' = Append(heard, Head(queue))
      BY <1>1 DEF FeedInv, TypeOK, Recv
    <3>2. Grown(heard, heard', Head(queue), Len(heard))
      BY <3>1, AppendGrows
    <3> QED BY <1>1, <3>2 DEF Grown, SomeDisplayed
  <2>4. Told'
    BY <1>1, <2>3 DEF Told, Idle, SomeDisplayed
  <2> QED BY <2>1, <2>2, <2>4 DEF Gated
<1> QED BY <1>1, FeedInvHolds, PTL DEF Spec

-----------------------------------------------------------------------------
(* hud_nav16_rx_stop waits for the receiver without a limit                *)
(* (nav16_rx.cpp:170-182).  What it can wait for: the steps the receiver   *)
(* has left once g_stop is set, at most six, the longest being a socket    *)
(* still to open, then a poll without an eventfd that finds a frame whose  *)
(* three transport calls are yet to be made.                               *)
RxStepsLeft ==
    CASE rpc = "done"  -> 0
      [] rpc = "loop"  -> 1
      [] rpc = "clear" -> 2
      [] rpc = "lanes" -> 2
      [] rpc = "dist"  -> 3
      [] rpc = "turn"  -> 4
      [] rpc = "poll"  -> 5
      [] OTHER         -> 6

(* The thread that is joined is there and was told to stop.                *)
Stopping ==
    /\ rup => rpc # "none"
    /\ lpc = "rxjoin" => rup /\ rstop

LEMMA StoppingStep == Stopping /\ [Next]_vars => Stopping'
<1> SUFFICES ASSUME Stopping, [Next]_vars
             PROVE  Stopping'
    OBVIOUS
<1> USE DEF Stopping
<1>1. ASSUME NEW f \in Sent, routeMessage(f) PROVE Stopping'
    BY <1>1 DEF routeMessage, receiver
<1>2. CASE our_nav_cb \/ CallbackCall
    BY <1>2 DEF our_nav_cb, CallbackCall, receiver
<1>3. CASE Receiver
  <2>1. /\ lpc' = lpc /\ rup' = rup /\ rstop' = rstop
        /\ rpc' # "none"
    BY <1>3 DEF Receiver, open_rx_socket, RxLoop, RxWake, RxExit, Recv, hud_nav16_feed,
       EmitTurn, EmitDistance, EmitLanes, EmitClear
  <2> QED BY <2>1
<1>4. CASE Sender
    BY <1>4 DEF Sender, sender_setup, Activate, send_one, Deactivate, WaitPredicate,
       WaitBlock, SpuriousWake, sender_teardown, receiver
<1>5. CASE Lifecycle
  <2>1. ASSUME NEW spawned \in BOOLEAN, NEW fd \in BOOLEAN,
               hud_nav16_rx_start(spawned, fd)
        PROVE  Stopping'
      BY <2>1 DEF hud_nav16_rx_start, receiver
  <2>2. CASE hud_nav16_rx_stop
    <3>1. rup' = rup /\ rpc' = rpc /\ (lpc' = "rxjoin" => rup /\ rstop')
      BY <2>2, Zenon DEF hud_nav16_rx_stop
    <3> QED BY <3>1
  <2>3. CASE \/ \E p \in Protocols : aap_create_session(p)
             \/ \E spawned \in BOOLEAN : hud_tx_start(spawned)
             \/ RxJoin \/ hud_tx_stop \/ StopNotify \/ TxJoin \/ aap_destroy_session
      BY <2>3 DEF aap_create_session, hud_tx_start, RxJoin, hud_tx_stop, StopNotify,
         TxJoin, aap_destroy_session, receiver
  <2> QED BY <1>5, <2>1, <2>2, <2>3 DEF Lifecycle
<1>6. CASE UNCHANGED vars
    BY <1>6 DEF vars, receiver
<1> QED BY <1>1, <1>2, <1>3, <1>4, <1>5, <1>6 DEF Next

(* A receiver step of a stopping receiver uses up one of the steps left.   *)
LEMMA ReceiverAdvances ==
    ASSUME TypeOK, Stopping, lpc = "rxjoin", Receiver
    PROVE  RxStepsLeft' < RxStepsLeft
<1> USE DEF Stopping, RxStepsLeft
<1>1. ASSUME NEW ok \in BOOLEAN, open_rx_socket(ok) PROVE RxStepsLeft' < RxStepsLeft
    BY <1>1 DEF open_rx_socket
<1>2. CASE RxLoop
  <2>1. rpc = "loop" /\ rpc' = "done"
    BY <1>2, Zenon DEF RxLoop, RxExit
  <2> QED BY <2>1
<1>3. CASE RxWake
  <2>1. rpc = "poll" /\ rpc' \in {"loop", "done"}
    BY <1>3 DEF RxWake, RxExit
  <2> QED BY <2>1
<1>4. CASE Recv
  <2>1. rpc = "poll" /\ rpc' \in {"clear", "turn", "loop"}
    BY <1>4 DEF Recv, hud_nav16_feed
  <2> QED BY <2>1
<1>5. CASE EmitTurn \/ EmitDistance \/ EmitLanes \/ EmitClear
  <2>1. \/ rpc = "turn" /\ rpc' = "dist"
        \/ rpc = "dist" /\ rpc' = "lanes"
        \/ rpc \in {"lanes", "clear"} /\ rpc' = "loop"
    BY <1>5, Zenon DEF EmitTurn, EmitDistance, EmitLanes, EmitClear
  <2> QED BY <2>1
<1> QED BY <1>1, <1>2, <1>3, <1>4, <1>5 DEF Receiver

(* The stop has something to wait for only so long (nav16_rx.cpp:69-125,   *)
(* 170-191): from the join on, every step of the receiver uses up one of   *)
(* the at most six it has left, and no step of the phone, the callback,    *)
(* the sender or the relay gives one back.                                 *)
THEOREM StopIsBounded ==
    Spec => [][lpc = "rxjoin" /\ lpc' = "rxjoin" =>
                  /\ RxStepsLeft \in 0..6
                  /\ RxStepsLeft' <= RxStepsLeft
                  /\ Receiver => RxStepsLeft' < RxStepsLeft]_vars
<1> DEFINE Bounded == /\ RxStepsLeft \in 0..6
                      /\ RxStepsLeft' <= RxStepsLeft
                      /\ Receiver => RxStepsLeft' < RxStepsLeft
<1>1. Init => Stopping
    BY DEF Init, Stopping
<1>2. ASSUME TypeOK, Stopping, [Next]_vars, lpc = "rxjoin", lpc' = "rxjoin"
      PROVE  Bounded
  <2>1. RxStepsLeft \in 0..6
    BY DEF RxStepsLeft
  <2>2. Receiver => RxStepsLeft' < RxStepsLeft
    BY <1>2, ReceiverAdvances
  <2>3. ~Receiver => rpc' = rpc
    <3>1. ASSUME NEW f \in Sent, routeMessage(f) PROVE rpc' = rpc
      BY <3>1 DEF routeMessage, receiver
    <3>2. CASE our_nav_cb \/ CallbackCall
      BY <3>2 DEF our_nav_cb, CallbackCall, receiver
    <3>3. CASE Sender
      BY <3>3 DEF Sender, sender_setup, Activate, send_one, Deactivate, WaitPredicate,
         WaitBlock, SpuriousWake, sender_teardown, receiver
    <3>4. CASE Lifecycle
      BY <1>2, <3>4 DEF Lifecycle, aap_create_session, hud_tx_start, hud_nav16_rx_start,
         hud_nav16_rx_stop, RxJoin, hud_tx_stop, StopNotify, TxJoin, aap_destroy_session
    <3>5. CASE UNCHANGED vars
      BY <3>5 DEF vars, receiver
    <3> QED BY <1>2, <3>1, <3>2, <3>3, <3>4, <3>5 DEF Next
  <2>4. RxStepsLeft' \in 0..6
    BY DEF RxStepsLeft
  <2>5. RxStepsLeft' <= RxStepsLeft
    <3>1. CASE rpc' = rpc
      <4>1. RxStepsLeft' = RxStepsLeft
        BY <3>1 DEF RxStepsLeft
      <4> QED BY <2>1, <4>1
    <3>2. CASE Receiver
      BY <2>1, <2>2, <2>4, <3>2
    <3> QED BY <2>3, <3>1, <3>2
  <2> QED BY <2>1, <2>2, <2>5
<1>3. TypeOK /\ Stopping /\ [Next]_vars =>
        [lpc = "rxjoin" /\ lpc' = "rxjoin" => Bounded]_vars
    BY <1>2
<1>4. Spec => []Stopping
    BY <1>1, StoppingStep, PTL DEF Spec
<1> QED BY <1>3, <1>4, TypeCorrect, PTL DEF Spec
=============================================================================

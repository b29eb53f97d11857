---------------------------- MODULE VbsTxProofs ----------------------------
(***************************************************************************)
(* Theorems about VbsTx for every set of field values, every order of      *)
(* field accesses and every bound.                                         *)
(***************************************************************************)
EXTENDS VbsTx, SequenceTheorems, FiniteSetTheorems, TLAPS

(* The state components of vars, spelled out once.                         *)
LEMMA VarsUnchanged ==
    UNCHANGED vars =>
        /\ UNCHANGED <<g_snapshot, g_seq, g_active, g_stop>>
        /\ UNCHANGED <<g_conn, g_hud_absent, probe>>
        /\ UNCHANGED <<up, lpc, pc>>
        /\ UNCHANGED <<s1, snap, rtodo>>
        /\ UNCHANGED <<prev, sync, last>>
        /\ UNCHANGED <<wpc, wval, wtodo>>
        /\ UNCHANGED <<hud, missed>>
        /\ UNCHANGED <<pub, session>>
  BY DEF vars, shared, conn, reading, sent, producer, display, history

(* The deliveries keep the HUD a HUD.                                      *)
LEMMA DeliverType ==
    ASSUME NEW h \in HudState, NEW cur \in Snapshot, NEW n \in SyncBits,
           NEW ok \in SUBSET Channels
    PROVE  Deliver(h, cur, n, ok) \in HudState
  BY DEF Deliver, HudState, Snapshot, Fields

LEMMA ZeroSync == 0 \in SyncBits
  BY DEF SyncBits

LEMMA ClearedType ==
    ASSUME NEW h \in HudState, NEW ok \in SUBSET Channels
    PROVE  Cleared(h, ok) \in HudState
<1>1. ASSUME NEW g \in HudState, NEW n \in SyncBits
      PROVE  [g EXCEPT !.icon = Zero, !.dist = Zero, !.dsync = n] \in HudState
  BY ZeroAssumption DEF HudState
<1>2. ASSUME NEW g \in HudState, NEW n \in SyncBits
      PROVE  [g EXCEPT !.lanes = Zero, !.lsync = n] \in HudState
  BY ZeroAssumption DEF HudState
<1> DEFINE d == IF "disp" \in ok
                THEN [h EXCEPT !.icon = Zero, !.dist = Zero, !.dsync = 0] ELSE h
<1>3. d \in HudState
  BY <1>1, ZeroSync, Zenon
<1>4. [d EXCEPT !.lanes = Zero, !.lsync = 0] \in HudState
  BY <1>2, <1>3, ZeroSync, Zenon
<1> QED BY <1>3, <1>4, Zenon DEF Cleared

LEMMA NextSyncType == ASSUME NEW n \in SyncBits PROVE NextSync(n) \in SyncBits \ {0}
  BY DEF NextSync, SyncBits

LEMMA ZeroSnapType == ZeroSnap \in Snapshot
  BY ZeroAssumption DEF ZeroSnap, Snapshot

LEMMA WantedType == ASSUME NEW c, NEW p PROVE Wanted(c, p) \subseteq Channels
  BY DEF Wanted, Channels
-----------------------------------------------------------------------------
(* Every state of the transport is well typed (vbs_tx.cpp:86-122).         *)
THEOREM TypeCorrect == Spec => []TypeOK
<1>1. Init => TypeOK
  <2> SUFFICES ASSUME Init PROVE TypeOK
    OBVIOUS
  <2>1. hud \in HudState
    BY ZeroAssumption DEF Init, BlankHud, HudState, SyncBits
  <2>2. pub \in Seq(Snapshot) /\ missed \in SUBSET Channels
    BY DEF Init
  <2> QED BY <2>1, <2>2, ZeroSnapType, ZeroSync DEF Init, TypeOK, SenderPcs
<1>2. TypeOK /\ [Next]_vars => TypeOK'
  <2> SUFFICES ASSUME TypeOK, [Next]_vars PROVE TypeOK'
    OBVIOUS
  <2> USE DEF TypeOK, shared, conn, reading, sent, producer, display, history
  <2>1. CASE Lifecycle
    <3>1. ASSUME NEW spawned \in BOOLEAN, vbs_tx_start(spawned) PROVE TypeOK'
      <4>1. pc' \in SenderPcs /\ session' \in Nat
        BY <3>1 DEF vbs_tx_start, SenderPcs
      <4> QED BY <3>1, <4>1 DEF vbs_tx_start
    <3>2. CASE vbs_tx_stop BY <3>2 DEF vbs_tx_stop
    <3>3. CASE StopNotify BY <3>3 DEF StopNotify, Notify, SenderPcs
    <3>4. CASE StopJoin BY <3>4 DEF StopJoin, SenderPcs
    <3> QED BY <2>1, <3>1, <3>2, <3>3, <3>4 DEF Lifecycle
  <2>2. CASE Producer
    <3>1. ASSUME NEW call \in Calls, NEW target \in Snapshot, Produce(call, target)
          PROVE TypeOK'
      <4>1. Written(call) \in SUBSET Fields
        BY DEF Written, Calls, Fields
      <4> QED BY <3>1, <4>1 DEF Produce
    <3>2. CASE ProduceStart BY <3>2 DEF ProduceStart
    <3>3. CASE seqlock_begin BY <3>3 DEF seqlock_begin
    <3>4. ASSUME NEW f \in Fields, WriteField(f) PROVE TypeOK'
      <4>1. g_snapshot' \in Snapshot
        BY <3>4 DEF WriteField, Snapshot
      <4> QED BY <3>4, <4>1 DEF WriteField
    <3>5. CASE seqlock_end
      BY <3>5, ZeroSnapType DEF seqlock_end
    <3>6. CASE ProduceNotify BY <3>6 DEF ProduceNotify, Notify, SenderPcs
    <3> QED BY <2>2, <3>1, <3>2, <3>3, <3>4, <3>5, <3>6 DEF Producer, ProducerStep
  <2>3. CASE Sender
    <3>1. CASE SetupCheck \/ LoopCheck \/ WaitPredicate \/ WaitBlock
      BY <3>1 DEF SetupCheck, LoopCheck, WaitPredicate, WaitBlock, SenderPcs
    <3>10. CASE Deactivate
      BY <3>10 DEF Deactivate, SenderPcs
    <3>9. CASE SetupRecheck
      BY <3>9 DEF SetupRecheck, SenderPcs
    <3>2. ASSUME NEW ok \in BOOLEAN, SetupConnect(ok) PROVE TypeOK'
      BY <3>2 DEF SetupConnect, SenderPcs
    <3>3. CASE Activate
      BY <3>3, ZeroSnapType DEF Activate, NothingSent, SenderPcs, SyncBits
    <3>4. CASE ReadSeq1 BY <3>4 DEF ReadSeq1, SenderPcs
    <3>5. ASSUME NEW f \in Fields, CopyField(f) PROVE TypeOK'
      <4>1. snap' \in Snapshot
        BY <3>5 DEF CopyField, Snapshot
      <4> QED BY <3>5, <4>1 DEF CopyField
    <3>6. CASE ReadSeq2
      BY <3>6, ZeroSnapType DEF ReadSeq2, LeaveScope, SenderPcs
    <3>7. ASSUME NEW ok \in SUBSET Channels, send_one(ok) PROVE TypeOK'
      <4>1. sync' \in SyncBits
        BY <3>7, NextSyncType DEF send_one
      <4>2. hud' \in HudState
        BY <3>7, <4>1, DeliverType DEF send_one
      <4>3. missed' \in SUBSET Channels
        BY <3>7, WantedType DEF send_one
      <4> QED
        BY <3>7, <4>1, <4>2, <4>3, ZeroSnapType DEF send_one, LeaveScope, SenderPcs
    <3>8. ASSUME NEW ok \in SUBSET Channels, sender_teardown(ok) PROVE TypeOK'
      <4>1. hud' \in HudState
        BY <3>8, ClearedType DEF sender_teardown
      <4>2. missed' \in SUBSET Channels
        BY <3>8 DEF sender_teardown
      <4> QED
        BY <3>8, <4>1, <4>2, ZeroSnapType, ZeroSync
        DEF sender_teardown, NothingSent, SenderPcs
    <3> QED
      BY <2>3, <3>1, <3>2, <3>3, <3>4, <3>5, <3>6, <3>7, <3>8, <3>9, <3>10 DEF Sender
  <2>4. CASE Environment
    BY <2>4 DEF Environment, hud_status_cb, SpuriousWake, SenderPcs
  <2>5. CASE UNCHANGED vars
    BY <2>5, VarsUnchanged
  <2> QED BY <2>1, <2>2, <2>3, <2>4, <2>5 DEF Next
<1> QED BY <1>1, <1>2, PTL DEF Spec
-----------------------------------------------------------------------------
(* The seqlock protocol.  Published(k) is the k-th published snapshot, and *)
(* the zero snapshot before the first.                                     *)
Published(k) == IF k = 0 THEN ZeroSnap ELSE pub[k]

(* g_seq counts two per publication and is odd exactly while fields are    *)
(* being written; otherwise memory holds the latest publication.           *)
SeqCounts ==
    /\ g_seq = 2 * Len(pub) + (IF wpc = "write" THEN 1 ELSE 0)
    /\ wpc # "write" => g_snapshot = Published(Len(pub))

(* What the sender sent last is the publication that last names.           *)
LastSent == \E k \in 0..Len(pub) : last = 2 * k /\ prev = Published(k)

(* A read in progress started from an even number not below last, and as   *)
(* long as that number is the current one, every field copied so far is    *)
(* the field in memory.                                                    *)
ReadBegan ==
    pc \in {"copy", "send"} => last <= s1 /\ \E j \in 0..Len(pub) : s1 = 2 * j

ReadSoFar ==
    pc = "copy" /\ s1 = g_seq => \A f \in Fields \ rtodo : snap[f] = g_snapshot[f]

Progress == pc = "send" => last < s1

SeqInv == SeqCounts /\ LastSent /\ ReadBegan /\ ReadSoFar /\ Progress /\ SnapshotIntact

(* A step outside the protocol: neither the snapshot, its number, the copy *)
(* nor the record of what was sent changes, and no read begins.            *)
Quiet ==
    /\ UNCHANGED <<g_snapshot, g_seq, pub, s1, snap, rtodo, last, prev>>
    /\ (wpc' = "write") <=> (wpc = "write")
    /\ pc' = pc \/ pc' \notin {"copy", "send"}

LEMMA QuietKeeps == SeqInv /\ Quiet => SeqInv'
<1> SUFFICES ASSUME SeqInv, Quiet PROVE SeqInv'
  OBVIOUS
<1> USE DEF Quiet, SeqInv
<1>1. SeqCounts' BY DEF SeqCounts, Published
<1>2. LastSent' BY DEF LastSent, Published
<1>3. ReadBegan' BY DEF ReadBegan
<1>4. ReadSoFar' BY DEF ReadSoFar
<1>5. Progress' BY DEF Progress
<1>6. SnapshotIntact' BY DEF SnapshotIntact
<1> QED BY <1>1, <1>2, <1>3, <1>4, <1>5, <1>6

LEMMA QuietSteps ==
    ASSUME \/ Lifecycle
           \/ ProduceStart \/ ProduceNotify
           \/ \E call \in Calls, target \in Snapshot : Produce(call, target)
           \/ SetupCheck \/ SetupRecheck \/ LoopCheck
           \/ \E ok \in BOOLEAN : SetupConnect(ok)
           \/ WaitPredicate \/ WaitBlock \/ Deactivate
           \/ Environment
           \/ UNCHANGED vars
    PROVE  Quiet
<1> USE DEF Quiet, vars, shared, conn, reading, sent, producer, display, history
<1>1. CASE Lifecycle
  BY <1>1 DEF Lifecycle, vbs_tx_start, vbs_tx_stop, StopNotify, StopJoin, Notify
<1>2. CASE ProduceStart \/ ProduceNotify
  BY <1>2 DEF ProduceStart, ProduceNotify, Notify
<1>3. CASE \E call \in Calls, target \in Snapshot : Produce(call, target)
  BY <1>3 DEF Produce
<1>4. CASE SetupCheck \/ SetupRecheck \/ LoopCheck
  BY <1>4 DEF SetupCheck, SetupRecheck, LoopCheck
<1>5. CASE \E ok \in BOOLEAN : SetupConnect(ok)
  BY <1>5 DEF SetupConnect
<1>6. CASE WaitPredicate \/ WaitBlock \/ Deactivate
  BY <1>6 DEF WaitPredicate, WaitBlock, Deactivate
<1>7. CASE Environment
  BY <1>7 DEF Environment, hud_status_cb, SpuriousWake
<1>8. CASE UNCHANGED vars
  BY <1>8
<1> QED BY <1>1, <1>2, <1>3, <1>4, <1>5, <1>6, <1>7, <1>8

LEMMA SeqInvInductive == TypeOK /\ SeqInv /\ [Next]_vars => SeqInv'
<1> SUFFICES ASSUME TypeOK, SeqInv, [Next]_vars PROVE SeqInv'
  OBVIOUS
<1>0. /\ Len(pub) \in Nat /\ g_seq \in Nat /\ last \in Nat /\ s1 \in Nat
      /\ pub \in Seq(Snapshot) /\ g_snapshot \in Snapshot /\ snap \in Snapshot
      /\ rtodo \in SUBSET Fields
  BY DEF TypeOK
<1> USE DEF shared, conn, reading, sent, producer, display, history
<1>1. CASE seqlock_begin
  <2> USE <1>0, <1>1 DEF seqlock_begin, SeqInv
  <2>1. SeqCounts' BY DEF SeqCounts
  <2>2. LastSent' BY DEF LastSent, Published
  <2>3. ReadBegan' BY DEF ReadBegan
  <2>4. ReadSoFar' BY DEF ReadSoFar, ReadBegan, SeqCounts
  <2>5. Progress' /\ SnapshotIntact' BY DEF Progress, SnapshotIntact
  <2> QED BY <2>1, <2>2, <2>3, <2>4, <2>5
<1>2. ASSUME NEW f \in Fields, WriteField(f) PROVE SeqInv'
  <2> USE <1>0, <1>2 DEF WriteField, SeqInv
  <2>1. SeqCounts' BY DEF SeqCounts
  <2>2. LastSent' BY DEF LastSent, Published
  <2>3. ReadBegan' BY DEF ReadBegan
  <2>4. ReadSoFar' BY DEF ReadSoFar, ReadBegan, SeqCounts
  <2>5. Progress' /\ SnapshotIntact' BY DEF Progress, SnapshotIntact
  <2> QED BY <2>1, <2>2, <2>3, <2>4, <2>5
<1>3. CASE seqlock_end
  <2>1. /\ Len(pub') = Len(pub) + 1
        /\ \A i \in 1..Len(pub) : pub'[i] = pub[i]
        /\ pub'[Len(pub) + 1] = g_snapshot
    BY <1>0, <1>3, AppendProperties DEF seqlock_end
  <2> USE <1>0, <1>3, <2>1 DEF seqlock_end, SeqInv
  <2>2. SeqCounts' BY DEF SeqCounts, Published
  <2>3. LastSent'
    <3>1. PICK k \in 0..Len(pub) : last = 2 * k /\ prev = Published(k)
      BY DEF LastSent
    <3>2. k \in 0..Len(pub') /\ Published(k)' = Published(k)
      BY <3>1 DEF Published
    <3> QED BY <3>1, <3>2 DEF LastSent
  <2>4. ReadBegan' BY DEF ReadBegan
  <2>5. ReadSoFar' BY DEF ReadSoFar, ReadBegan, SeqCounts
  <2>6. Progress' /\ SnapshotIntact' BY DEF Progress, SnapshotIntact
  <2> QED BY <2>2, <2>3, <2>4, <2>5, <2>6
<1>4. CASE ReadSeq1
  <2> USE <1>0, <1>4 DEF ReadSeq1, SeqInv
  <2>1. SeqCounts' BY DEF SeqCounts, Published
  <2>2. LastSent' BY DEF LastSent, Published
  <2>3. ReadBegan'
    <3>1. g_seq = 2 * Len(pub)
      BY DEF SeqCounts
    <3>2. last <= g_seq
      BY <3>1 DEF LastSent
    <3> QED BY <3>1, <3>2 DEF ReadBegan
  <2>4. ReadSoFar' /\ Progress' /\ SnapshotIntact'
    BY DEF ReadSoFar, Progress, SnapshotIntact
  <2> QED BY <2>1, <2>2, <2>3, <2>4
<1>5. ASSUME NEW f \in Fields, CopyField(f) PROVE SeqInv'
  <2> USE <1>0, <1>5 DEF CopyField, SeqInv
  <2>1. SeqCounts' BY DEF SeqCounts, Published
  <2>2. LastSent' BY DEF LastSent, Published
  <2>3. ReadBegan' BY DEF ReadBegan
  <2>4. ReadSoFar' BY DEF ReadSoFar, Snapshot
  <2>5. Progress' /\ SnapshotIntact' BY DEF Progress, SnapshotIntact
  <2> QED BY <2>1, <2>2, <2>3, <2>4, <2>5
<1>6. CASE ReadSeq2
  <2> USE <1>0, <1>6 DEF ReadSeq2, SeqInv, LeaveScope
  <2>1. SeqCounts' BY DEF SeqCounts, Published
  <2>2. LastSent' BY DEF LastSent, Published
  <2>3. ReadBegan' BY DEF ReadBegan
  <2>4. ReadSoFar' BY DEF ReadSoFar
  <2>5. Progress' BY DEF Progress, ReadBegan
  <2>6. SnapshotIntact'
    <3> SUFFICES ASSUME pc' = "send" PROVE SnapshotIntact'
      BY DEF SnapshotIntact
    <3>1. g_seq = s1 /\ s1 # last /\ UNCHANGED <<s1, snap, pub>>
      OBVIOUS
    <3>2. s1 = 2 * Len(pub) /\ g_snapshot = Published(Len(pub))
      BY <3>1 DEF SeqCounts, ReadBegan
    <3>3. Len(pub) # 0
      BY <3>1, <3>2 DEF ReadBegan
    <3>4. snap = g_snapshot
      BY <3>1 DEF ReadSoFar, Snapshot
    <3> QED BY <3>1, <3>2, <3>3, <3>4 DEF SnapshotIntact, Published
  <2> QED BY <2>1, <2>2, <2>3, <2>4, <2>5, <2>6
<1>7. ASSUME NEW ok \in SUBSET Channels, send_one(ok) PROVE SeqInv'
  <2>1. /\ pc = "send" /\ pc' = "pred" /\ prev' = snap /\ last' = s1
        /\ UNCHANGED <<g_snapshot, g_seq, wpc, pub>>
    BY <1>7 DEF send_one
  <2> USE <1>0, <2>1 DEF SeqInv
  <2>2. SeqCounts' BY DEF SeqCounts, Published
  <2>3. LastSent' BY DEF LastSent, SnapshotIntact, Published
  <2>4. ReadBegan' /\ ReadSoFar' /\ Progress' /\ SnapshotIntact'
    BY DEF ReadBegan, ReadSoFar, Progress, SnapshotIntact
  <2> QED BY <2>2, <2>3, <2>4
<1>8. CASE Activate \/ \E ok \in SUBSET Channels : sender_teardown(ok)
  <2>1. /\ pc' \in {"loop", "done"} /\ prev' = ZeroSnap /\ last' = 0
        /\ UNCHANGED <<g_snapshot, g_seq, wpc, pub>>
    BY <1>8 DEF Activate, sender_teardown, NothingSent
  <2> USE <1>0, <2>1 DEF SeqInv
  <2>2. SeqCounts' BY DEF SeqCounts, Published
  <2>3. LastSent' BY DEF LastSent, Published
  <2>4. ReadBegan' /\ ReadSoFar' /\ Progress' /\ SnapshotIntact'
    BY DEF ReadBegan, ReadSoFar, Progress, SnapshotIntact
  <2> QED BY <2>2, <2>3, <2>4
<1> QED
  BY <1>1, <1>2, <1>3, <1>4, <1>5, <1>6, <1>7, <1>8, QuietSteps, QuietKeeps
  DEF Next, Producer, ProducerStep, Sender

LEMMA SeqInvInit == Init => SeqInv
  BY DEF Init, SeqInv, SeqCounts, LastSent, ReadBegan, ReadSoFar, Progress,
     SnapshotIntact, Published

(* No torn read: whatever the producer writes while the sender copies, the *)
(* snapshot send_one is given is one that was published as a whole, under  *)
(* the sequence number it is recorded with (vbs_tx.cpp:410-424, 452-454).  *)
THEOREM SeqlockSound == Spec => []SnapshotIntact
<1>1. SeqInv => SnapshotIntact
  BY DEF SeqInv
<1> QED BY <1>1, SeqInvInit, SeqInvInductive, TypeCorrect, PTL DEF Spec

-----------------------------------------------------------------------------
(* The transport implements LatestView: seqlock_end publishes, send_one    *)
(* moves the view forward, the start and the end of a sender restart it,   *)
(* every other step leaves it alone (vbs_tx.cpp:401-446, 452-454).         *)
THEOREM ImplementsLatestView == Spec => LatestViewSpec
<1>1. Init => View!ViewInit
  BY DEF Init, View!ViewInit
<1>2. TypeOK /\ SeqInv /\ [Next]_vars => [View!ViewNext]_(View!viewVars)
  <2> SUFFICES ASSUME TypeOK, SeqInv, [Next]_vars
               PROVE  View!ViewNext \/ UNCHANGED <<pub, last, prev>>
    BY DEF View!viewVars
  <2> USE DEF shared, conn, reading, sent, producer, display, history
  <2>1. CASE seqlock_end
    <3>1. View!Publish(g_snapshot)
      BY <2>1 DEF seqlock_end, View!Publish
    <3> QED BY <3>1 DEF View!ViewNext, TypeOK
  <2>2. ASSUME NEW ok \in SUBSET Channels, send_one(ok) PROVE View!ViewNext
    <3>1. /\ pc = "send" /\ prev' = snap /\ last' = s1 /\ pub' = pub
      BY <2>2 DEF send_one
    <3>2. PICK k \in 1..Len(pub) : s1 = 2 * k /\ snap = pub[k]
      BY <3>1 DEF SeqInv, SnapshotIntact
    <3>3. PICK j \in 0..Len(pub) : last = 2 * j
      BY DEF SeqInv, LastSent
    <3>4. j < k
      BY <3>1, <3>2, <3>3 DEF SeqInv, Progress, TypeOK
    <3>5. last \div 2 = j /\ last' \div 2 = k
      BY <3>1, <3>2, <3>3, Len(pub) \in Nat
    <3>6. View!Advance(k)
      BY <3>1, <3>2, <3>4, <3>5 DEF View!Advance
    <3> QED BY <3>6 DEF View!ViewNext
  <2>3. CASE Activate \/ \E ok \in SUBSET Channels : sender_teardown(ok)
    <3>1. View!Restart
      BY <2>3 DEF Activate, sender_teardown, NothingSent, View!Restart
    <3> QED BY <3>1 DEF View!ViewNext
  <2>4. CASE \/ ReadSeq1 \/ ReadSeq2 \/ seqlock_begin
             \/ \E f \in Fields : CopyField(f) \/ WriteField(f)
    BY <2>4 DEF ReadSeq1, ReadSeq2, seqlock_begin, CopyField, WriteField
  <2>5. Quiet => UNCHANGED <<pub, last, prev>>
    BY DEF Quiet
  <2> QED
    BY <2>1, <2>2, <2>3, <2>4, <2>5, QuietSteps
    DEF Next, Producer, ProducerStep, Sender
<1> QED
  BY <1>1, <1>2, SeqInvInit, SeqInvInductive, TypeCorrect, PTL
  DEF Spec, LatestViewSpec, View!ViewSpec

-----------------------------------------------------------------------------
(* Who holds the connection.                                               *)
ConnInv == (up <=> pc # "none") /\ ConnectionOwned

LEMMA ConnInvInductive == TypeOK /\ ConnInv /\ [Next]_vars => ConnInv'
<1> SUFFICES ASSUME TypeOK, ConnInv, [Next]_vars PROVE ConnInv'
  OBVIOUS
<1> USE DEF ConnInv, ConnectionOwned, Serving,
            shared, conn, reading, sent, producer, display, history
<1>1. CASE Lifecycle
  BY <1>1 DEF Lifecycle, vbs_tx_start, vbs_tx_stop, StopNotify, StopJoin, Notify
<1>2. CASE Producer
  BY <1>2 DEF Producer, ProducerStep, Produce, ProduceStart, seqlock_begin,
     WriteField, seqlock_end, ProduceNotify, Notify
<1>3. CASE SetupCheck \/ SetupRecheck \/ \E ok \in BOOLEAN : SetupConnect(ok)
  BY <1>3 DEF SetupCheck, SetupRecheck, SetupConnect
<1>4. CASE Activate \/ Deactivate \/ \E ok \in SUBSET Channels : sender_teardown(ok)
  BY <1>4 DEF Activate, Deactivate, sender_teardown
<1>5. CASE \/ LoopCheck \/ ReadSeq1 \/ ReadSeq2 \/ WaitPredicate \/ WaitBlock
           \/ \E f \in Fields : CopyField(f)
           \/ \E ok \in SUBSET Channels : send_one(ok)
  <2>1. /\ pc \in Serving /\ pc' \in Serving
        /\ UNCHANGED <<up, g_conn, g_active>>
    BY <1>5 DEF LoopCheck, ReadSeq1, ReadSeq2, WaitPredicate, WaitBlock, CopyField,
       send_one
  <2> QED BY <2>1
<1>6. CASE Environment
  BY <1>6 DEF Environment, hud_status_cb, SpuriousWake
<1>7. CASE UNCHANGED vars
  BY <1>7 DEF vars
<1> QED BY <1>1, <1>2, <1>3, <1>4, <1>5, <1>6, <1>7 DEF Next, Sender

LEMMA ConnInvInit == Init => ConnInv
  BY DEF Init, ConnInv, ConnectionOwned, Serving

(* Only a live sender holds the connection, it gives it up before it ends, *)
(* and a producer is let in only while a sender is in its loop             *)
(* (vbs_tx.cpp:296-388, 393-402, 441-446).                                 *)
THEOREM ConnectionSafe == Spec => []ConnectionOwned
<1>1. ConnInv => ConnectionOwned
  BY DEF ConnInv
<1> QED BY <1>1, ConnInvInit, ConnInvInductive, TypeCorrect, PTL DEF Spec

-----------------------------------------------------------------------------
(* What the HUD shows.  Each part of it that missed no frame shows the     *)
(* snapshot prev, and outside a session prev is blank.                     *)
HudIsPrev ==
    /\ "disp" \notin missed => hud.icon = prev["icon"] /\ hud.dist = prev["dist"]
    /\ "msg2" \notin missed => hud.road = prev["road"]
    /\ "lanes" \notin missed => hud.lanes = prev["lanes"]

PrevBlank ==
    /\ pc \notin Serving \cup {"teardown"} => prev = ZeroSnap
    /\ pc = "teardown" /\ g_conn = "null" => prev = ZeroSnap

(* Each part that missed no frame carries the current sync generation.     *)
SyncKept ==
    sync # 0 => /\ "disp" \notin missed => hud.dsync = sync
                /\ "msg2" \notin missed => hud.rsync = sync
                /\ "lanes" \notin missed /\ hud.lanes # Zero => hud.lsync = sync

HudInv == HudIsPrev /\ PrevBlank /\ SyncKept

LEMMA DeliverFields ==
    ASSUME NEW h \in HudState, NEW cur \in Snapshot, NEW n \in SyncBits,
           NEW ok \in SUBSET Channels
    PROVE  LET d == Deliver(h, cur, n, ok)
           IN  /\ "disp" \in ok => /\ d.icon = cur["icon"] /\ d.dist = cur["dist"]
                                   /\ d.dsync = n
               /\ "disp" \notin ok => /\ d.icon = h.icon /\ d.dist = h.dist
                                      /\ d.dsync = h.dsync
               /\ "msg2" \in ok => d.road = cur["road"] /\ d.rsync = n
               /\ "msg2" \notin ok => d.road = h.road /\ d.rsync = h.rsync
               /\ "lanes" \in ok => d.lanes = cur["lanes"] /\ d.lsync = n
               /\ "lanes" \notin ok => d.lanes = h.lanes /\ d.lsync = h.lsync
  BY DEF Deliver, HudState

LEMMA ClearedFields ==
    ASSUME NEW h \in HudState, NEW ok \in SUBSET {"disp", "lanes"}
    PROVE  LET d == Cleared(h, ok)
           IN  /\ "disp" \in ok => d.icon = Zero /\ d.dist = Zero
               /\ "lanes" \in ok => d.lanes = Zero
               /\ ok = {} => d = h
  BY DEF Cleared, HudState

(* A step that touches neither the HUD nor the record of what was sent,    *)
(* and moves the sender so that prev is still blank where it must be.      *)
LEMMA HudQuiet ==
    ASSUME HudInv, UNCHANGED <<prev, sync, hud, missed>>, PrevBlank'
    PROVE  HudInv'
  BY DEF HudInv, HudIsPrev, SyncKept

LEMMA HudInvInductive == TypeOK /\ ConnInv /\ HudInv /\ [Next]_vars => HudInv'
<1> SUFFICES ASSUME TypeOK, ConnInv, HudInv, [Next]_vars PROVE HudInv'
  OBVIOUS
<1> USE DEF shared, conn, reading, sent, producer, display, history
<1>1. CASE Lifecycle
  BY <1>1, HudQuiet
  DEF Lifecycle, vbs_tx_start, vbs_tx_stop, StopNotify, StopJoin, Notify, ConnInv,
      HudInv, PrevBlank, Serving
<1>2. CASE Producer
  BY <1>2, HudQuiet
  DEF Producer, ProducerStep, Produce, ProduceStart, seqlock_begin, WriteField,
      seqlock_end, ProduceNotify, Notify, HudInv, PrevBlank, Serving
<1>3. CASE \/ SetupCheck \/ SetupRecheck \/ Deactivate
           \/ \E ok \in BOOLEAN : SetupConnect(ok)
  BY <1>3, HudQuiet
  DEF SetupCheck, SetupRecheck, SetupConnect, Deactivate, HudInv, PrevBlank,
      ConnInv, ConnectionOwned, Serving
<1>4. CASE \/ LoopCheck \/ ReadSeq1 \/ ReadSeq2 \/ WaitPredicate \/ WaitBlock
           \/ \E f \in Fields : CopyField(f)
  <2>1. pc' \in Serving /\ UNCHANGED <<prev, sync, hud, missed>>
    BY <1>4 DEF LoopCheck, ReadSeq1, ReadSeq2, WaitPredicate, WaitBlock, CopyField,
       Serving
  <2> QED BY <2>1, HudQuiet DEF PrevBlank, Serving
<1>5. CASE Activate
  <2>1. /\ prev' = prev /\ prev' = ZeroSnap /\ sync' = 0 /\ UNCHANGED <<hud, missed>>
    BY <1>5 DEF Activate, NothingSent, HudInv, PrevBlank, Serving
  <2> QED BY <2>1 DEF HudInv, HudIsPrev, PrevBlank, SyncKept
<1>6. ASSUME NEW ok \in SUBSET Channels, send_one(ok) PROVE HudInv'
  <2> DEFINE want == Wanted(snap, prev)
             n == IF "msg2" \in want /\ ~g_hud_absent THEN NextSync(sync) ELSE sync
  <2>1. /\ ok \subseteq want /\ (g_hud_absent => ok = {})
        /\ prev' = snap /\ sync' = n /\ hud' = Deliver(hud, snap, n, ok)
        /\ missed' = (missed \ ok) \cup (want \ ok)
        /\ pc' = "pred"
    BY <1>6 DEF send_one
  <2>2. n \in SyncBits
    BY NextSyncType DEF TypeOK
  <2>3. /\ "disp" \in ok => /\ hud'.icon = snap["icon"] /\ hud'.dist = snap["dist"]
                            /\ hud'.dsync = n
        /\ "disp" \notin ok => /\ hud'.icon = hud.icon /\ hud'.dist = hud.dist
                               /\ hud'.dsync = hud.dsync
        /\ "msg2" \in ok => hud'.road = snap["road"] /\ hud'.rsync = n
        /\ "msg2" \notin ok => hud'.road = hud.road /\ hud'.rsync = hud.rsync
        /\ "lanes" \in ok => hud'.lanes = snap["lanes"] /\ hud'.lsync = n
        /\ "lanes" \notin ok => hud'.lanes = hud.lanes /\ hud'.lsync = hud.lsync
    BY <2>1, <2>2, DeliverFields DEF TypeOK
  <2>4. /\ "disp" \notin want => /\ snap["icon"] = prev["icon"]
                                 /\ snap["dist"] = prev["dist"]
                                 /\ "msg2" \notin want
        /\ "msg2" \notin want => snap["road"] = prev["road"]
        /\ "lanes" \notin want => /\ snap["lanes"] = prev["lanes"]
                                  /\ "msg2" \in want => snap["lanes"] = Zero
    BY DEF Wanted
  <2> HIDE DEF want, n
  <2>5. HudIsPrev'
    BY <2>1, <2>3, <2>4 DEF HudInv, HudIsPrev
  <2>6. PrevBlank'
    BY <2>1 DEF PrevBlank, Serving
  <2>7. SyncKept'
    <3>1. CASE "msg2" \in want /\ ~g_hud_absent
      BY <3>1, <2>1, <2>3, <2>4 DEF SyncKept, HudInv, HudIsPrev
    <3>2. CASE ~("msg2" \in want /\ ~g_hud_absent)
      <4>1. n = sync
        BY <3>2 DEF n
      <4> QED BY <3>2, <4>1, <2>1, <2>3, <2>4 DEF SyncKept, HudInv, HudIsPrev
    <3> QED BY <3>1, <3>2
  <2> QED BY <2>5, <2>6, <2>7 DEF HudInv
<1>7. ASSUME NEW ok \in SUBSET Channels, sender_teardown(ok) PROVE HudInv'
  <2>1. /\ pc = "teardown" /\ pc' = "done" /\ prev' = ZeroSnap /\ sync' = 0
        /\ ok \in SUBSET {"disp", "lanes"} /\ hud' = Cleared(hud, ok)
        /\ g_conn = "null" => ok = {} /\ missed' = missed
        /\ g_conn # "null" => missed' = Channels \ ok
    BY <1>7 DEF sender_teardown, NothingSent
  <2>2. HudIsPrev'
    <3>1. CASE g_conn = "null"
      <4>1. hud' = hud /\ missed' = missed /\ prev' = prev
        BY <3>1, <2>1, ClearedFields DEF HudInv, PrevBlank, TypeOK
      <4> QED BY <4>1 DEF HudInv, HudIsPrev
    <3>2. CASE g_conn # "null"
      <4>1. /\ "disp" \in ok => hud'.icon = Zero /\ hud'.dist = Zero
            /\ "lanes" \in ok => hud'.lanes = Zero
        BY <2>1, ClearedFields DEF TypeOK
      <4> QED
        BY <3>2, <2>1, <4>1 DEF HudIsPrev, Channels, ZeroSnap, Fields
    <3> QED BY <3>1, <3>2
  <2> QED BY <2>1, <2>2 DEF HudInv, PrevBlank, SyncKept
<1>8. CASE Environment
  BY <1>8, HudQuiet
  DEF Environment, hud_status_cb, SpuriousWake, HudInv, PrevBlank, Serving
<1>9. CASE UNCHANGED vars
  BY <1>9, HudQuiet DEF vars, HudInv, PrevBlank
<1> QED BY <1>1, <1>2, <1>3, <1>4, <1>5, <1>6, <1>7, <1>8, <1>9 DEF Next, Sender

LEMMA HudInvInit == Init => HudInv
  BY DEF Init, HudInv, HudIsPrev, PrevBlank, SyncKept, BlankHud, ZeroSnap, Fields

(* A sender asleep on the current number has shown the current snapshot on *)
(* every part of the HUD whose last frame was not lost                     *)
(* (vbs_tx.cpp:153-285, 424-438).                                          *)
THEOREM HudFollows == Spec => []HudCurrent
<1>1. TypeOK /\ SeqInv /\ HudInv => HudCurrent
  <2> SUFFICES ASSUME TypeOK, SeqInv, HudInv, g_seq = last PROVE prev = g_snapshot
    BY DEF HudCurrent, HudInv, HudIsPrev
  <2>1. PICK k \in 0..Len(pub) : last = 2 * k /\ prev = Published(k)
    BY DEF SeqInv, LastSent
  <2>2. Len(pub) \in Nat
    BY DEF TypeOK
  <2>3. k = Len(pub) /\ wpc # "write"
    BY <2>1, <2>2 DEF SeqInv, SeqCounts
  <2> QED BY <2>1, <2>3 DEF SeqInv, SeqCounts
<1> QED
  BY <1>1, SeqInvInit, SeqInvInductive, ConnInvInit, ConnInvInductive, HudInvInit,
     HudInvInductive, TypeCorrect, PTL
  DEF Spec

(* With no session, maneuver and lanes are gone from the HUD unless the    *)
(* clear frame was lost (vbs_tx.cpp:351-374).                              *)
THEOREM HudCleared == Spec => []BlankAfterStop
<1>1. ConnInv /\ HudInv => BlankAfterStop
  BY DEF ConnInv, HudInv, HudIsPrev, PrevBlank, BlankAfterStop, ZeroSnap, Fields,
     Serving
<1> QED
  BY <1>1, ConnInvInit, ConnInvInductive, HudInvInit, HudInvInductive, TypeCorrect,
     PTL
  DEF Spec

(* Maneuver, street and lanes on the HUD are of one generation when no     *)
(* frame was lost (vbs_tx.cpp:200-224).                                    *)
THEOREM SyncFollows == Spec => []SyncPaired
<1>1. HudInv => SyncPaired
  BY DEF HudInv, SyncKept, SyncPaired
<1> QED
  BY <1>1, ConnInvInit, ConnInvInductive, HudInvInit, HudInvInductive, TypeCorrect,
     PTL
  DEF Spec

-----------------------------------------------------------------------------
(* vbs_tx_stop joins the sender without a limit (vbs_tx.cpp:510-518).  A   *)
(* sender asleep on g_cv has no step of its own; a sender that is awake    *)
(* has these left once g_stop is set.  A copy that g_seq has overtaken     *)
(* starts over.                                                            *)
Asleep == pc \in {"block", "wait"}

CopySteps == Cardinality(Fields)

SenderStepsLeft ==
    CASE pc = "none"       -> 0
      [] pc = "done"       -> 0
      [] pc = "teardown"   -> 1
      [] pc = "deactivate" -> 2
      [] pc = "setup"      -> 2
      [] pc = "recheck"    -> 2
      [] pc = "loop"       -> 3
      [] pc = "connect"    -> 3
      [] pc = "pred"       -> 4
      [] pc = "activate"   -> 4
      [] pc = "send"       -> 5
      [] pc = "read1"      -> CopySteps + 7
      [] pc = "copy"       -> Cardinality(rtodo) + IF g_seq = s1 THEN 6 ELSE CopySteps + 8
      [] OTHER             -> 0

Stopping == lpc \in {"notify", "join"} => g_stop

LEMMA StoppingStep == Stopping /\ [Next]_vars => Stopping'
<1> SUFFICES ASSUME Stopping, [Next]_vars PROVE Stopping'
  OBVIOUS
<1> USE DEF Stopping
<1>1. CASE Lifecycle
  BY <1>1 DEF Lifecycle, vbs_tx_start, vbs_tx_stop, StopNotify, StopJoin, shared
<1>2. CASE ~Lifecycle
  <2>1. g_stop' = g_stop /\ lpc' = lpc
    BY <1>2 DEF Next, Producer, ProducerStep, Produce, ProduceStart, seqlock_begin,
       WriteField, seqlock_end, ProduceNotify, Sender, SetupCheck, SetupConnect,
       SetupRecheck, Activate, LoopCheck, ReadSeq1, CopyField, ReadSeq2, send_one,
       WaitPredicate, WaitBlock, Deactivate, sender_teardown, Environment, hud_status_cb,
       SpuriousWake, vars, shared
  <2> QED BY <2>1
<1> QED BY <1>1, <1>2

(* The lost wake-up is the only way a stop can find the sender asleep for  *)
(* good (vbs_tx.cpp:430-433, 510-518): notify_all leaves asleep only a     *)
(* sender between its predicate and its wait, and after it no sender that  *)
(* is awake goes to sleep again.                                           *)
THEOREM OnlyLostWakeup ==
    Spec => [][lpc' = "join" /\ Asleep' =>
                  IF lpc = "join" THEN Asleep ELSE pc = "block"]_vars
<1> DEFINE LostOnly == IF lpc = "join" THEN Asleep ELSE pc = "block"
<1>1. Init => Stopping
  BY DEF Init, Stopping
<1>2. ASSUME Stopping, [Next]_vars, lpc' = "join", Asleep'
      PROVE  LostOnly
  <2> USE DEF Asleep
  <2>1. CASE Lifecycle
    <3>1. StopNotify
      BY <1>2, <2>1 DEF Lifecycle, vbs_tx_start, vbs_tx_stop, StopNotify, StopJoin
    <3> QED BY <1>2, <3>1 DEF StopNotify, Notify
  <2>2. CASE Producer
    BY <1>2, <2>2 DEF Producer, ProducerStep, Produce, ProduceStart, seqlock_begin,
       WriteField, seqlock_end, ProduceNotify, Notify
  <2>3. CASE Sender
    <3>1. lpc = "join" /\ g_stop
      BY <1>2, <2>3 DEF Stopping, Sender, SetupCheck, SetupConnect, SetupRecheck, Activate,
         LoopCheck, ReadSeq1, CopyField, ReadSeq2, send_one, WaitPredicate, WaitBlock,
         Deactivate, sender_teardown
    <3>2. WaitBlock \/ pc' = pc
      BY <1>2, <2>3, <3>1 DEF Sender, SetupCheck, SetupConnect, SetupRecheck, Activate,
         LoopCheck, ReadSeq1, CopyField, ReadSeq2, send_one, WaitPredicate, Deactivate,
         sender_teardown
    <3> QED BY <1>2, <3>1, <3>2 DEF WaitBlock
  <2>4. CASE Environment \/ UNCHANGED vars
    BY <1>2, <2>4 DEF Environment, hud_status_cb, SpuriousWake, vars
  <2> QED BY <1>2, <2>1, <2>2, <2>3, <2>4 DEF Next
<1>3. Stopping /\ [Next]_vars => [lpc' = "join" /\ Asleep' => LostOnly]_vars
  BY <1>2
<1> QED BY <1>1, <1>3, StoppingStep, PTL DEF Spec

LEMMA FieldCount ==
    ASSUME NEW S \in SUBSET Fields
    PROVE  IsFiniteSet(S) /\ Cardinality(S) \in Nat
<1>1. IsFiniteSet({"road"} \cup {"icon"})
  BY FS_Singleton, FS_Union
<1>2. IsFiniteSet({"dist"} \cup {"lanes"})
  BY FS_Singleton, FS_Union
<1>3. Fields = ({"road"} \cup {"icon"}) \cup ({"dist"} \cup {"lanes"})
  BY DEF Fields
<1> QED BY <1>1, <1>2, <1>3, FS_Union, FS_Subset, FS_CardinalityType

(* A step of a stopping sender that is awake uses up one of those left.    *)
LEMMA SenderAdvances ==
    ASSUME TypeOK, g_stop, ~Asleep, Sender
    PROVE  ~Asleep' /\ SenderStepsLeft' < SenderStepsLeft
<1> DEFINE n == CopySteps
<1>1. n \in Nat
  BY FieldCount DEF CopySteps
<1> HIDE DEF n
<1>2. CASE SetupCheck \/ SetupRecheck \/ LoopCheck \/ WaitPredicate \/ Activate \/ Deactivate
  <2>1. \/ pc \in {"setup", "recheck", "deactivate"} /\ pc' = "teardown"
        \/ pc \in {"pred", "activate"} /\ pc' = "loop"
        \/ pc = "loop" /\ pc' = "deactivate"
    BY <1>2 DEF SetupCheck, SetupRecheck, LoopCheck, WaitPredicate, Activate, Deactivate
  <2> QED BY <2>1 DEF SenderStepsLeft, Asleep
<1>3. CASE \/ \E ok \in BOOLEAN : SetupConnect(ok)
           \/ \E ok \in SUBSET Channels : send_one(ok) \/ sender_teardown(ok)
  <2>1. \/ pc = "connect" /\ pc' \in {"recheck", "teardown"}
        \/ pc = "send" /\ pc' = "pred"
        \/ pc = "teardown" /\ pc' = "done"
    BY <1>3 DEF SetupConnect, send_one, sender_teardown
  <2> QED BY <2>1 DEF SenderStepsLeft, Asleep
<1>4. CASE ReadSeq1
  <2>1. pc = "read1" /\ pc' = "copy" /\ rtodo' = Fields /\ g_seq' = s1'
    BY <1>4 DEF ReadSeq1, shared
  <2>2. SenderStepsLeft = n + 7 /\ SenderStepsLeft' = n + 6
    BY <2>1 DEF SenderStepsLeft, CopySteps, n
  <2> QED BY <1>1, <2>1, <2>2 DEF Asleep
<1>5. ASSUME NEW f \in Fields, CopyField(f)
      PROVE  ~Asleep' /\ SenderStepsLeft' < SenderStepsLeft
  <2> DEFINE c == Cardinality(rtodo)
             d == Cardinality(rtodo')
  <2>1. /\ pc = "copy" /\ pc' = "copy" /\ g_seq' = g_seq /\ s1' = s1
        /\ f \in rtodo /\ rtodo' = rtodo \ {f} /\ rtodo \in SUBSET Fields
    BY <1>5 DEF CopyField, Accessible, shared, TypeOK
  <2>2. c \in Nat /\ d = c - 1
    BY <2>1, FieldCount, FS_RemoveElement
  <2> HIDE DEF c, d
  <2>3. PICK k \in Nat : SenderStepsLeft = c + k /\ SenderStepsLeft' = d + k
    <3>1. CASE g_seq = s1
      <4>1. SenderStepsLeft = c + 6 /\ SenderStepsLeft' = d + 6
        BY <2>1, <3>1 DEF SenderStepsLeft, c, d
      <4> QED BY <4>1
    <3>2. CASE g_seq # s1
      <4>1. SenderStepsLeft = c + (n + 8) /\ SenderStepsLeft' = d + (n + 8)
        BY <2>1, <3>2 DEF SenderStepsLeft, c, d, n
      <4>2. n + 8 \in Nat
        BY <1>1
      <4> QED BY <4>1, <4>2
    <3> QED BY <3>1, <3>2
  <2> QED BY <2>1, <2>2, <2>3 DEF Asleep
<1>6. CASE ReadSeq2
  <2> DEFINE c == Cardinality(rtodo)
  <2>1. /\ pc = "copy" /\ c = 0
        /\ IF g_seq # s1 THEN pc' = "read1" ELSE pc' \in {"send", "pred"}
    BY <1>6, FS_EmptySet DEF ReadSeq2
  <2> HIDE DEF c
  <2>2. CASE g_seq # s1
    <3>1. SenderStepsLeft = c + (n + 8) /\ SenderStepsLeft' = n + 7
      BY <2>1, <2>2 DEF SenderStepsLeft, c, n
    <3> QED BY <1>1, <2>1, <2>2, <3>1 DEF Asleep
  <2>3. CASE g_seq = s1
    <3>1. SenderStepsLeft = c + 6 /\ SenderStepsLeft' \in {4, 5}
      BY <2>1, <2>3 DEF SenderStepsLeft, c
    <3> QED BY <2>1, <2>3, <3>1 DEF Asleep
  <2> QED BY <2>2, <2>3
<1> QED BY <1>2, <1>3, <1>4, <1>5, <1>6 DEF Sender, WaitBlock, Asleep

(* What else happens leaves an awake sender where it is; only a producer   *)
(* that moves g_seq during a copy costs it that copy again.                *)
LEMMA OthersAdd ==
    ASSUME TypeOK, ~Asleep, lpc = "join", lpc' = "join", [Next]_vars, ~Sender
    PROVE  /\ ~Asleep'
           /\ SenderStepsLeft' <= SenderStepsLeft
                                    + (IF g_seq' = g_seq THEN 0 ELSE CopySteps + 2)
<1> DEFINE n == CopySteps
           c == Cardinality(rtodo)
<1>1. n \in Nat /\ c \in Nat
  BY FieldCount DEF CopySteps, TypeOK
<1>2. pc' = pc /\ s1' = s1 /\ rtodo' = rtodo
  <2>1. CASE Lifecycle
    BY <2>1 DEF Lifecycle, vbs_tx_start, vbs_tx_stop, StopNotify, StopJoin
  <2>2. CASE Producer
    BY <2>2 DEF Producer, ProducerStep, Produce, ProduceStart, seqlock_begin,
       WriteField, seqlock_end, ProduceNotify, Notify, Asleep, reading
  <2>3. CASE Environment \/ UNCHANGED vars
    BY <2>3 DEF Environment, hud_status_cb, SpuriousWake, Asleep, vars, reading
  <2> QED BY <2>1, <2>2, <2>3 DEF Next
<1> HIDE DEF n, c
<1>3. CASE pc # "copy" \/ g_seq' = g_seq
  <2>1. SenderStepsLeft' = SenderStepsLeft
    BY <1>2, <1>3 DEF SenderStepsLeft
  <2>2. SenderStepsLeft \in Nat
    <3>1. pc = "copy" => SenderStepsLeft = c + (IF g_seq = s1 THEN 6 ELSE n + 8)
      BY DEF SenderStepsLeft, c, n
    <3>2. pc # "copy" => SenderStepsLeft \in {0, 1, 2, 3, 4, 5, n + 7}
      BY DEF SenderStepsLeft, n
    <3> QED BY <1>1, <3>1, <3>2
  <2> QED BY <1>1, <1>2, <2>1, <2>2 DEF Asleep, n
<1>4. CASE pc = "copy" /\ g_seq' # g_seq
  <2>1. SenderStepsLeft \in {c + 6, c + (n + 8)} /\ SenderStepsLeft' \in {c + 6, c + (n + 8)}
    BY <1>2, <1>4 DEF SenderStepsLeft, c, n
  <2>2. SenderStepsLeft' <= SenderStepsLeft + (n + 2)
    BY <1>1, <2>1
  <2> QED BY <1>2, <1>4, <2>2 DEF Asleep, n
<1> QED BY <1>3, <1>4

(* A stop that finds the sender awake does not wait for unboundedly much   *)
(* (vbs_tx.cpp:296-388, 405-460, 510-518): the sender stays awake, each of *)
(* its steps uses up one of those it has left, and only an update that     *)
(* moves g_seq adds to them, the steps of one copy and its two loads.      *)
THEOREM AwakeStopIsBounded ==
    Spec => [][lpc = "join" /\ lpc' = "join" /\ ~Asleep =>
                  /\ ~Asleep'
                  /\ Sender => SenderStepsLeft' < SenderStepsLeft
                  /\ ~Sender => SenderStepsLeft' <= SenderStepsLeft
                                  + (IF g_seq' = g_seq THEN 0 ELSE CopySteps + 2)]_vars
<1> DEFINE Bounded ==
             /\ ~Asleep'
             /\ Sender => SenderStepsLeft' < SenderStepsLeft
             /\ ~Sender => SenderStepsLeft' <= SenderStepsLeft
                             + (IF g_seq' = g_seq THEN 0 ELSE CopySteps + 2)
<1>1. Init => Stopping
  BY DEF Init, Stopping
<1>2. ASSUME TypeOK, Stopping, [Next]_vars, lpc = "join", lpc' = "join", ~Asleep
      PROVE  Bounded
  <2>1. g_stop
    BY <1>2 DEF Stopping
  <2>2. CASE Sender
    BY <1>2, <2>1, <2>2, SenderAdvances
  <2>3. CASE ~Sender
    BY <1>2, <2>3, OthersAdd
  <2> QED BY <2>2, <2>3
<1>3. TypeOK /\ Stopping /\ [Next]_vars =>
        [lpc = "join" /\ lpc' = "join" /\ ~Asleep => Bounded]_vars
  BY <1>2
<1>4. Spec => []Stopping
  BY <1>1, StoppingStep, PTL DEF Spec
<1> QED BY <1>3, <1>4, TypeCorrect, PTL DEF Spec
=============================================================================

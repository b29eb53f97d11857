---------------------------- MODULE CpHudProofs ----------------------------
(* What CarPlay's HUD shows, for any window, lists, messages, limits,      *)
(* reports of the end of guidance and failed sends.                        *)
EXTENDS CpHud, TLAPS, WellFoundedInduction

Sel(b, h) == IF h = NoIdx THEN 0 ELSE select_by_head(b, h)
Selected == Sel(buf, head)

Dormant == {"none", "setup", "done", "spawn", "start"}

(* nav.cpp: the turn emitted last is the one the head selects, and it is   *)
(* the one published unless its publication is still on the way.           *)
Decoding ==
    /\ Selected # 0 => emitted = buf[Selected].man
    /\ ppc \in {"status", "turn"} => emitted # NoMan
    /\ ppc = "dist" => pdist # NoDist
    /\ ppc \notin {"status", "turn"} /\ emitted # NoMan => snap.man = emitted

(* hud_send.cpp: a sequence that has moved stands for a snapshot that says *)
(* something; the sender's record is the latest snapshot or blank once it  *)
(* has caught up; and with the sign shown, blank without a live route.     *)
Reading ==
    /\ behind \/ moved => snap # Blank
    /\ fresh => loc # Blank
    /\ spc = "send" /\ ~moved => loc = snap
    /\ ~behind => prev \in {snap, Blank}
    /\ limitOn /\ ~guid => prev = Blank
    /\ spc = "catchup" => prev = Blank
    /\ ~armed => spc = "none"
    /\ spc \in Dormant => prev = Blank /\ prevLimit = NoLimit

Shows(s) == hud.man = s.man /\ hud.dist = s.dist /\ hud.strip = s.man

(* The display shows what the sender has recorded, except before its first *)
(* frame when a route was live at the start, and between a wipe and the    *)
(* record of it.                                                           *)
Displaying ==
    ~absent /\ ~lost =>
        /\ spc \notin Dormant \cup {"read", "send", "unguide"} => Shows(prev)
        /\ spc = "unguide" => Shows(Blank)
        /\ spc \in {"read", "send"} =>
             Shows(prev) \/ (guid /\ prev = Blank /\ prevLimit = NoLimit)

(* Once nav.cpp has been reset, a turn that is selected is new to it.      *)
Reissuing ==
    unpublished /\ ~resetReq /\ spc \notin {"catchup", "reset"} =>
        \/ ppc \in {"status", "turn"}
        \/ ppc \in {"idle", "dist"} /\ emitted = NoMan /\ Selected = 0

CpInv == TypeOK /\ Decoding /\ Reading /\ Displaying /\ Reissuing

-----------------------------------------------------------------------------
(* The window and the selection.                                           *)

Entry == [idx : 1..MaxIdx, man : Turns]

LEMMA MinMember ==
    ASSUME NEW S, S \subseteq Nat, S # {}
    PROVE  Min(S) \in S
<1>1. PICK x \in S : \A y \in S : ~(<<y, x>> \in OpToRel(<, Nat))
  BY NatLessThanWellFounded, WFMin
<1>2. \A y \in S : ~(y < x)
  BY <1>1, Zenon DEF OpToRel
<1>3. \A y \in S : x <= y
  BY <1>2
<1> QED BY <1>1, <1>3, Zenon DEF Min

(* The selection is an entry of the window, or none; an empty window has   *)
(* none to select.                                                         *)
LEMMA SelectMember ==
    ASSUME NEW b \in Seq(Entry), NEW h
    PROVE  \/ select_by_head(b, h) = 0
           \/ select_by_head(b, h) \in DOMAIN b /\ b[select_by_head(b, h)].man \in Turns
<1> DEFINE at(i) == {k \in DOMAIN b : b[k].idx = i}
<1>1. at(h) \subseteq Nat /\ at(h + 1) \subseteq Nat
  OBVIOUS
<1>2. select_by_head(b, h) = IF at(h) # {} THEN Min(at(h))
                             ELSE IF at(h + 1) # {} THEN Min(at(h + 1)) ELSE 0
  BY DEF select_by_head
<1>3. at(h) # {} => Min(at(h)) \in at(h)
  BY <1>1, MinMember
<1>4. at(h + 1) # {} => Min(at(h + 1)) \in at(h + 1)
  BY <1>1, MinMember
<1>5. \A k \in DOMAIN b : b[k].man \in Turns
  <2>1. \A k \in DOMAIN b : b[k] \in Entry
    OBVIOUS
  <2> QED BY <2>1 DEF Entry
<1> QED BY <1>2, <1>3, <1>4, <1>5

LEMMA SelectEmpty ==
    ASSUME NEW h
    PROVE  select_by_head(<<>>, h) = 0
BY DEF select_by_head

(* What a message does to the decoder, by what it starts from.             *)
Keeps(b, p, h, e) ==
    \/ ~resetReq /\ b = buf /\ p = prevIdx /\ h = head /\ e = emitted
    \/ resetReq /\ b = <<>> /\ p = NoIdx /\ h = NoIdx /\ e = NoMan

LEMMA MessageCases ==
    ASSUME NEW m \in Received, nav_on_devmgr_msg(m)
    PROVE  \E b, p, h, e :
             /\ Keeps(b, p, h, e)
             /\ \/ m \in Maneuvers /\ OnManeuver(m, b, p, h, e)
                \/ m \in Guidances /\ OnGuidance(m, b, p, h, e)
<1> DEFINE b == IF resetReq THEN <<>> ELSE buf
           p == IF resetReq THEN NoIdx ELSE prevIdx
           h == IF resetReq THEN NoIdx ELSE head
           e == IF resetReq THEN NoMan ELSE emitted
<1>1. \/ m.kind = "MANEUVER" /\ OnManeuver(m, b, p, h, e)
      \/ m.kind = "GUIDANCE" /\ OnGuidance(m, b, p, h, e)
  BY DEF nav_on_devmgr_msg, KeptUnlessReset
<1>2. Keeps(b, p, h, e)
  BY DEF Keeps
<1>3. (m.kind = "MANEUVER" => m \in Maneuvers) /\ (m.kind = "GUIDANCE" => m \in Guidances)
  BY ReceivedAssumption DEF Maneuvers, Guidances
<1> HIDE DEF b, p, h, e
<1> QED BY <1>1, <1>2, <1>3

(* The window a maneuver leaves: started anew, and with the maneuver       *)
(* appended if it is one to display and there is room (nav.cpp:317-366).   *)
LEMMA WindowTyped ==
    ASSUME NEW m \in Maneuvers, NEW b \in Seq(Entry), Len(b) <= Window, NEW p, NEW h, NEW e,
           OnManeuver(m, b, p, h, e)
    PROVE  buf' \in Seq(Entry) /\ Len(buf') <= Window
<1> DEFINE w == IF m.idx = 0 \/ m.idx < p THEN <<>> ELSE b
           kept == m.idx # 0 /\ m.man # Context /\ Len(w) < Window
           x == [idx |-> m.idx, man |-> m.man]
<1>1. buf' = IF kept THEN Append(w, x) ELSE w
  BY DEF OnManeuver
<1>2. Window \in Nat /\ MaxIdx \in Nat
  BY LimitAssumption
<1>3. w \in Seq(Entry) /\ Len(w) <= Window
  BY <1>2
<1>4. kept => x \in Entry
  BY <1>2 DEF Maneuvers, Entry
<1> HIDE DEF w, x
<1>5. CASE kept
  <2>1. buf' = Append(w, x) /\ x \in Entry /\ Len(w) < Window
    BY <1>1, <1>4, <1>5
  <2> QED BY <1>2, <1>3, <2>1
<1>6. CASE ~kept
  BY <1>1, <1>3, <1>6
<1> QED BY <1>5, <1>6

-----------------------------------------------------------------------------
(* Types.                                                                  *)

LEMMA BlankTyped == Blank \in Snapshot
BY BlankAssumption DEF Blank, Snapshot

LEMMA TypeInit == Init => TypeOK
<1> SUFFICES ASSUME Init PROVE TypeOK
  OBVIOUS
<1>1. hud \in Display
  BY BlankAssumption DEF Init, Display, Image
<1>2. /\ limitOn \in BOOLEAN /\ over \in BOOLEAN /\ armed \in BOOLEAN /\ tap \in BOOLEAN
      /\ resetReq \in BOOLEAN /\ behind \in BOOLEAN /\ guid \in BOOLEAN /\ clearReq \in BOOLEAN
      /\ fullReq \in BOOLEAN /\ absent \in BOOLEAN /\ fresh \in BOOLEAN /\ moved \in BOOLEAN
      /\ tickerUp \in BOOLEAN /\ ticked \in BOOLEAN /\ lost \in BOOLEAN /\ unpublished \in BOOLEAN
  BY Zenon DEF Init
<1>3. /\ limit \in Limits /\ splim \in Limits /\ prevLimit \in Limits
      /\ emitted \in Man /\ pdist \in Dist
      /\ snap \in Snapshot /\ loc \in Snapshot /\ prev \in Snapshot
  BY BlankAssumption, BlankTyped DEF Init
<1>4. /\ prevIdx \in 0..NoIdx /\ head \in 0..NoIdx /\ msgs \in 0..MaxMsgs
      /\ clears \in 0..MaxClears /\ fails \in 0..MaxFails /\ Len(buf) <= Window
  BY LimitAssumption DEF Init, NoIdx
<1> QED BY <1>1, <1>2, <1>3, <1>4 DEF TypeOK, Init

(* The decoder's state after a message.                                    *)
LEMMA TypeMessage ==
    ASSUME TypeOK, NEW m \in Received, nav_on_devmgr_msg(m)
    PROVE  /\ buf' \in Seq(Entry) /\ Len(buf') <= Window
           /\ prevIdx' \in 0..NoIdx /\ head' \in 0..NoIdx /\ emitted' \in Man
           /\ ppc' \in {"idle", "status", "dist"} /\ pdist' \in Dist
<1>0. PICK b, p, h, e :
             /\ Keeps(b, p, h, e)
             /\ \/ m \in Maneuvers /\ OnManeuver(m, b, p, h, e)
                \/ m \in Guidances /\ OnGuidance(m, b, p, h, e)
  BY MessageCases
<1>1. MaxIdx \in Nat /\ Window \in Nat /\ NoIdx \in Nat /\ NoIdx = MaxIdx + 1
  BY LimitAssumption DEF NoIdx
<1>2. /\ b \in Seq(Entry) /\ Len(b) <= Window /\ p \in 0..NoIdx /\ h \in 0..NoIdx /\ e \in Man
  <2>1. /\ buf \in Seq(Entry) /\ Len(buf) <= Window /\ prevIdx \in 0..NoIdx
        /\ head \in 0..NoIdx /\ emitted \in Man
    BY DEF TypeOK, Entry
  <2>2. <<>> \in Seq(Entry) /\ Len(<<>>) <= Window /\ NoIdx \in 0..NoIdx
    BY <1>1
  <2> QED BY <1>0, <2>1, <2>2, BlankAssumption DEF Keeps
<1>3. ASSUME NEW b2 \in Seq(Entry), NEW sel, NEW hh, sel = 0 \/ sel = select_by_head(b2, hh),
             NEW d \in Dist, emit_selection(b2, sel, e, d)
      PROVE  emitted' \in Man /\ ppc' \in {"idle", "status", "dist"} /\ pdist' \in Dist
  <2>1. sel = 0 \/ b2[sel].man \in Man
    BY <1>3, SelectMember DEF Turns
  <2> QED BY <1>2, <1>3, <2>1 DEF emit_selection
<1>4. CASE m \in Maneuvers /\ OnManeuver(m, b, p, h, e)
  <2>1. buf' \in Seq(Entry) /\ Len(buf') <= Window
    BY <1>2, <1>4, WindowTyped
  <2>2. prevIdx' \in 0..NoIdx /\ head' \in 0..NoIdx
    BY <1>1, <1>2, <1>4 DEF OnManeuver, Maneuvers
  <2>3. PICK sel : (sel = 0 \/ sel = select_by_head(buf', h)) /\ emit_selection(buf', sel, e, NoDist)
    BY <1>4 DEF OnManeuver
  <2> QED BY <1>3, <2>1, <2>2, <2>3, BlankAssumption
<1>5. CASE m \in Guidances /\ OnGuidance(m, b, p, h, e)
  <2>1. buf' = b /\ prevIdx' = p /\ head' \in {m.head, h} /\ m.head \in 0..NoIdx /\ m.dist \in Dist
    BY <1>5 DEF OnGuidance, Guidances
  <2>2. PICK sel : (sel = 0 \/ sel = select_by_head(b, m.head)) /\ emit_selection(b, sel, e, m.dist)
    BY <1>5 DEF OnGuidance
  <2> QED BY <1>2, <1>3, <2>1, <2>2
<1> QED BY <1>0, <1>4, <1>5

(* A pair of frames leaves a display, and a count within its bound.        *)
LEMMA TypePush ==
    ASSUME TypeOK, NEW s \in Snapshot, NEW l \in Limits, NEW r \in Outcome, Push(s, l, r)
    PROVE  hud' \in Display /\ lost' \in BOOLEAN /\ fails' \in 0..MaxFails
<1>1. Image(s, l) \in Display
  BY DEF Image, Display, Snapshot
<1>2. hud \in Display
  BY DEF TypeOK
<1>3. [Image(s, l) EXCEPT !.strip = hud.strip] \in Display
  BY <1>1, <1>2 DEF Display
<1>4. hud' \in Display
  BY <1>1, <1>2, <1>3 DEF Push
<1>5. lost' \in BOOLEAN
  BY Zenon DEF Push, TypeOK
<1>6. fails' \in 0..MaxFails
  BY LimitAssumption DEF Push, TypeOK, Outcome
<1> QED BY <1>4, <1>5, <1>6

LEMMA TypeRequests ==
    ASSUME TypeOK, cp_tbt_entity_cb \/ cp_deactive_cb
    PROVE  TypeOK'
<1>1. clearReq' \in BOOLEAN /\ fullReq' \in BOOLEAN
  BY Zenon DEF TypeOK, cp_tbt_entity_cb, cp_deactive_cb
<1>2. clears' \in 0..MaxClears
  BY LimitAssumption DEF TypeOK, cp_tbt_entity_cb, cp_deactive_cb
<1> QED BY <1>1, <1>2
        DEF TypeOK, cp_tbt_entity_cb, cp_deactive_cb, Notify, config, arming, decoder, producer,
            locals, sent, cluster

LEMMA TypePublish ==
    ASSUME TypeOK, Publish
    PROVE  TypeOK'
<1>1. CASE hud_on_status
  BY <1>1 DEF TypeOK, hud_on_status, Notify, config, arming, decoder, requests, locals, sent, cluster
<1>2. CASE hud_on_next_turn
  <2>1. snap' \in Snapshot
    BY <1>2 DEF TypeOK, hud_on_next_turn, Snapshot
  <2>2. behind' \in BOOLEAN /\ moved' \in BOOLEAN /\ unpublished' \in BOOLEAN
    BY <1>2, Zenon DEF hud_on_next_turn, Published
  <2> QED BY <1>2, <2>1, <2>2
          DEF TypeOK, hud_on_next_turn, Notify, config, arming, decoder, requests, sent, cluster
<1>3. CASE TurnIsLive
  BY <1>3 DEF TypeOK, TurnIsLive, AfterTurn, config, arming, decoder, requests, locals, sent, cluster
<1>4. CASE hud_on_distance
  <2>1. snap' \in Snapshot
    BY <1>4 DEF TypeOK, hud_on_distance, Snapshot
  <2>2. behind' \in BOOLEAN /\ moved' \in BOOLEAN
    BY <1>4, Zenon DEF hud_on_distance, Published
  <2> QED BY <1>4, <2>1, <2>2, BlankAssumption
          DEF TypeOK, hud_on_distance, Notify, config, arming, decoder, requests, sent, cluster
<1> QED BY <1>1, <1>2, <1>3, <1>4 DEF Publish

LEMMA TypeSend ==
    ASSUME TypeOK, NEW r \in Outcome, NEW p \in Limits, SendStep(p, r)
    PROVE  TypeOK'
<1>1. CurSnap \in Snapshot
  BY BlankTyped DEF CurSnap, TypeOK
<1>2. /\ prev' \in Snapshot /\ prevLimit' \in Limits /\ behind' \in BOOLEAN
      /\ hud' \in Display /\ lost' \in BOOLEAN /\ fails' \in 0..MaxFails
  <2>0. UNCHANGED cluster => hud' \in Display /\ lost' \in BOOLEAN /\ fails' \in 0..MaxFails
    BY DEF cluster, TypeOK
  <2>1. CASE SendChange(p, r)
    BY <1>1, <2>0, <2>1, TypePush DEF SendChange, TypeOK
  <2>2. CASE KeepAlive(p, r)
    <3>1. prev' \in Snapshot /\ prevLimit' \in Limits /\ behind' \in BOOLEAN
      BY <2>2 DEF KeepAlive, sent, TypeOK
    <3>2. prev \in Snapshot
      BY DEF TypeOK
    <3> QED BY <2>0, <2>2, <3>1, <3>2, TypePush DEF KeepAlive
  <2> QED BY <2>1, <2>2 DEF SendStep
<1>3. loc' \in Snapshot /\ fresh' \in BOOLEAN /\ moved' \in BOOLEAN /\ spc' = "flags"
  BY BlankTyped DEF SendStep
<1> QED BY <1>2, <1>3 DEF TypeOK, SendStep, config, arming, decoder, producer, requests

LEMMA TypeWipes ==
    ASSUME TypeOK, NEW r \in Outcome, StartClear(r) \/ Wipe(r)
    PROVE  TypeOK'
<1>1. hud' \in Display /\ lost' \in BOOLEAN /\ fails' \in 0..MaxFails
  <2>1. CASE StartClear(r)
    <3>1. UNCHANGED cluster \/ Push(Blank, NoLimit, r)
      BY <2>1 DEF StartClear
    <3>2. UNCHANGED cluster => hud' \in Display /\ lost' \in BOOLEAN /\ fails' \in 0..MaxFails
      BY DEF cluster, TypeOK
    <3> QED BY <3>1, <3>2, BlankTyped, BlankAssumption, TypePush
  <2>2. CASE Wipe(r)
    BY <2>2, BlankTyped, BlankAssumption, TypePush DEF Wipe, WipedFrame, TypeOK
  <2> QED BY <2>1, <2>2
<1> QED BY <1>1
        DEF TypeOK, StartClear, Wipe, config, arming, decoder, producer, requests, locals, sent

LEMMA TypeSender ==
    ASSUME TypeOK, SenderStep
    PROVE  TypeOK'
<1>1. ASSUME NEW ok \in BOOLEAN, sender_setup(ok) \/ SpawnTicker(ok) PROVE TypeOK'
  BY <1>1 DEF TypeOK, sender_setup, SpawnTicker, config, arming, decoder, producer, requests,
              locals, sent, cluster
<1>2. CASE ReadSnapshot
  <2>1. loc' \in Snapshot /\ splim' \in Limits
    BY <1>2, BlankAssumption DEF ReadSnapshot, read_splim, TypeOK
  <2>2. fresh' \in BOOLEAN /\ moved' \in BOOLEAN
    BY <1>2, Zenon DEF ReadSnapshot, TypeOK
  <2> QED BY <1>2, <2>1, <2>2
          DEF TypeOK, ReadSnapshot, config, arming, decoder, producer, requests, sent, cluster
<1>3. CASE TakeRequests
  <2>1. fullReq' \in BOOLEAN /\ clearReq' \in BOOLEAN
    BY <1>3, Zenon DEF TakeRequests
  <2> QED BY <1>3, <2>1
          DEF TypeOK, TakeRequests, config, arming, decoder, producer, sent, cluster
<1>4. CASE Unguide
  <2>1. prev' \in Snapshot /\ prevLimit' \in Limits
    BY <1>4, BlankTyped, BlankAssumption DEF Unguide, TypeOK
  <2>2. guid' \in BOOLEAN /\ unpublished' \in BOOLEAN
    BY <1>4, Zenon DEF Unguide
  <2> QED BY <1>4, <2>1, <2>2
          DEF TypeOK, Unguide, config, arming, decoder, producer, requests, locals, cluster
<1>5. CASE CatchUp \/ nav_request_reset
  <2>1. behind' \in BOOLEAN /\ resetReq' \in BOOLEAN
    BY <1>5, Zenon DEF CatchUp, nav_request_reset, TypeOK
  <2> QED BY <1>5, <2>1
          DEF TypeOK, CatchUp, nav_request_reset, config, arming, decoder, producer, requests,
              locals, sent, cluster
<1>6. CASE SeeTick
  <2>1. ticked' \in BOOLEAN
    BY <1>6, Zenon DEF SeeTick
  <2> QED BY <1>6, <2>1, BlankAssumption
          DEF TypeOK, SeeTick, config, arming, decoder, producer, requests, sent, cluster
<1>7. CASE WaitPredicate \/ WaitBlock
  BY <1>7 DEF TypeOK, WaitPredicate, WaitBlock, config, arming, decoder, producer, requests,
              locals, sent, cluster
<1> QED BY <1>1, <1>2, <1>3, <1>4, <1>5, <1>6, <1>7, TypeWipes, TypeSend DEF SenderStep

LEMMA TypeStep == TypeOK /\ [Next]_vars => TypeOK'
<1> SUFFICES ASSUME TypeOK, [Next]_vars PROVE TypeOK'
  OBVIOUS
<1>1. ASSUME NEW sp \in BOOLEAN, NEW ok \in BOOLEAN, arm_navi(sp, ok) PROVE TypeOK'
  <2>1. tap' \in BOOLEAN /\ armed' \in BOOLEAN
    BY <1>1, Zenon DEF arm_navi
  <2> QED BY <1>1, <2>1
          DEF TypeOK, arm_navi, config, decoder, producer, requests, locals, sent, cluster
<1>2. CASE cp_tbt_entity_cb \/ cp_deactive_cb
  BY <1>2, TypeRequests
<1>3. ASSUME NEW m \in Received, nav_on_devmgr_msg(m) PROVE TypeOK'
  <2>1. msgs' \in 0..MaxMsgs
    BY <1>3, LimitAssumption DEF nav_on_devmgr_msg, TypeOK
  <2>2. resetReq' \in BOOLEAN
    BY <1>3, Zenon DEF nav_on_devmgr_msg
  <2>3. /\ buf' \in Seq(Entry) /\ Len(buf') <= Window
        /\ prevIdx' \in 0..NoIdx /\ head' \in 0..NoIdx /\ emitted' \in Man
        /\ ppc' \in {"idle", "status", "dist"} /\ pdist' \in Dist
    BY <1>3, TypeMessage
  <2> QED BY <1>3, <2>1, <2>2, <2>3
          DEF TypeOK, nav_on_devmgr_msg, Entry, config, arming, requests, locals, sent, cluster
<1>4. CASE Publish
  BY <1>4, TypePublish
<1>5. ASSUME NEW l \in Limits, NEW o \in BOOLEAN, WriteFiles(l, o) PROVE TypeOK'
  BY <1>5 DEF TypeOK, WriteFiles, arming, decoder, producer, requests, locals, sent, cluster
<1>6. CASE hud_status_cb \/ splim_ticker_main
  <2>1. absent' \in BOOLEAN /\ ticked' \in BOOLEAN
    BY <1>6, Zenon DEF hud_status_cb, splim_ticker_main, TypeOK
  <2> QED BY <1>6, <2>1
          DEF TypeOK, hud_status_cb, splim_ticker_main, Notify, config, arming, decoder, producer,
              requests, locals, sent, cluster
<1>7. CASE SenderStep
  BY <1>7, TypeSender
<1>8. CASE SpuriousWake
  BY <1>8 DEF TypeOK, SpuriousWake, config, arming, decoder, producer, requests, locals, sent,
              cluster
<1>9. CASE UNCHANGED vars
  BY <1>9 DEF TypeOK, vars, config, arming, decoder, producer, requests, locals, sent, cluster
<1> QED BY <1>1, <1>2, <1>3, <1>4, <1>5, <1>6, <1>7, <1>8, <1>9 DEF Next

(* The types, the window's bound among them: nav.cpp never holds more than *)
(* kMaxBurst entries, and a heading or context entry is not one of them    *)
(* (nav.cpp:317-366).                                                      *)
THEOREM TypeCorrect == Spec => []TypeOK
BY TypeInit, TypeStep, PTL DEF Spec

-----------------------------------------------------------------------------
(* The decoder.                                                            *)

LEMMA SelTyped ==
    ASSUME NEW b \in Seq(Entry), NEW h
    PROVE  Sel(b, h) = 0 \/ b[Sel(b, h)].man \in Turns
BY SelectMember DEF Sel

LEMMA SelEmpty ==
    ASSUME NEW h
    PROVE  Sel(<<>>, h) = 0
BY SelectEmpty DEF Sel

LEMMA EmitCases ==
    ASSUME NEW b, NEW sel, sel = 0 \/ b[sel].man \in Turns, NEW e, NEW d,
           emit_selection(b, sel, e, d)
    PROVE  /\ sel # 0 => emitted' = b[sel].man /\ (ppc' # "status" => e = b[sel].man)
           /\ sel = 0 => emitted' = e /\ ppc' # "status"
           /\ ppc' = "status" => emitted' # NoMan
           /\ ppc' = "dist" => pdist' # NoDist
           /\ ppc' \in {"idle", "status", "dist"}
BY DEF emit_selection, Turns

(* A message keeps the turn emitted equal to the one selected; after a     *)
(* reset, or with nothing emitted, a selection is always new to it.        *)
LEMMA MessageDecodes ==
    ASSUME TypeOK, Decoding, NEW m \in Received, nav_on_devmgr_msg(m)
    PROVE  /\ Selected' # 0 => emitted' = buf'[Selected'].man
           /\ ppc' = "status" => emitted' # NoMan
           /\ ppc' = "dist" => pdist' # NoDist
           /\ ppc' \in {"idle", "status", "dist"}
           /\ ppc' # "status" => emitted' \in {emitted, NoMan}
           /\ (resetReq \/ (emitted = NoMan /\ Selected = 0)) /\ ppc' # "status"
                => emitted' = NoMan /\ Selected' = 0
<1>1. PICK b, p, h, e :
             /\ Keeps(b, p, h, e)
             /\ \/ m \in Maneuvers /\ OnManeuver(m, b, p, h, e)
                \/ m \in Guidances /\ OnGuidance(m, b, p, h, e)
  BY MessageCases
<1>2. /\ b \in Seq(Entry) /\ e \in {emitted, NoMan}
      /\ Sel(b, h) # 0 => e = b[Sel(b, h)].man
      /\ resetReq \/ (emitted = NoMan /\ Selected = 0) => e = NoMan /\ Sel(b, h) = 0
  <2>1. buf \in Seq(Entry) /\ <<>> \in Seq(Entry)
    BY DEF TypeOK, Entry
  <2>2. CASE ~resetReq /\ b = buf /\ h = head /\ e = emitted
    BY <2>1, <2>2 DEF Decoding, Selected
  <2>3. CASE resetReq /\ b = <<>> /\ h = NoIdx /\ e = NoMan
    BY <2>1, <2>3, SelEmpty
  <2> QED BY <1>1, <2>2, <2>3 DEF Keeps
<1>3. Selected' = Sel(buf', head')
  BY DEF Selected
<1>4. buf' \in Seq(Entry)
  BY TypeMessage
<1>5. CASE m \in Maneuvers /\ OnManeuver(m, b, p, h, e)
  <2> DEFINE w == IF m.idx = 0 \/ m.idx < p THEN <<>> ELSE b
             kept == m.idx # 0 /\ m.man # Context /\ Len(w) < Window
  <2>1. /\ head' = h
        /\ ~kept => buf' = w
        /\ emit_selection(buf', IF kept /\ h # NoIdx THEN select_by_head(buf', h) ELSE 0, e, NoDist)
    BY <1>5 DEF OnManeuver
  <2>2. w = <<>> \/ w = b
    OBVIOUS
  <2> HIDE DEF w, kept
  <2>3. CASE kept
    <3>1. emit_selection(buf', Sel(buf', h), e, NoDist)
      BY <2>1, <2>3 DEF Sel
    <3>2. Sel(buf', h) = 0 \/ buf'[Sel(buf', h)].man \in Turns
      BY <1>4, SelTyped
    <3> QED BY <1>2, <1>3, <2>1, <3>1, <3>2, EmitCases DEF Turns
  <2>4. CASE ~kept
    <3>1. emit_selection(buf', 0, e, NoDist) /\ buf' = w
      BY <2>1, <2>4
    <3>2. Sel(buf', h) = 0 \/ buf' = b
      BY <2>2, <3>1, SelEmpty
    <3> QED BY <1>2, <1>3, <2>1, <3>1, <3>2, EmitCases
  <2> QED BY <2>3, <2>4
<1>6. CASE m \in Guidances /\ OnGuidance(m, b, p, h, e)
  <2>1. /\ buf' = b
        /\ head' = IF Sel(b, m.head) # 0 THEN m.head ELSE h
        /\ emit_selection(b, Sel(b, m.head), e, m.dist)
    BY <1>6 DEF OnGuidance, Sel
  <2>2. Sel(b, m.head) = 0 \/ b[Sel(b, m.head)].man \in Turns
    BY <1>2, SelTyped
  <2> QED BY <1>2, <1>3, <2>1, <2>2, EmitCases DEF Turns
<1> QED BY <1>1, <1>5, <1>6

LEMMA DecodingQuiet ==
    ASSUME Decoding, UNCHANGED <<decoder, ppc, pdist, snap>>
    PROVE  Decoding'
BY DEF Decoding, Selected, decoder

LEMMA DecodingStep == TypeOK /\ Decoding /\ [Next]_vars => Decoding'
<1> SUFFICES ASSUME TypeOK, Decoding, [Next]_vars PROVE Decoding'
  OBVIOUS
<1>1. ASSUME NEW m \in Received, nav_on_devmgr_msg(m) PROVE Decoding'
  BY <1>1, MessageDecodes DEF Decoding, nav_on_devmgr_msg
<1>2. CASE Publish
  <2>1. UNCHANGED decoder
    BY <1>2 DEF Publish, hud_on_status, hud_on_next_turn, TurnIsLive, hud_on_distance
  <2>2. Selected' = Selected /\ emitted' = emitted /\ buf' = buf
    BY <2>1 DEF decoder, Selected
  <2>3. CASE hud_on_status \/ TurnIsLive
    BY <2>2, <2>3 DEF Decoding, hud_on_status, TurnIsLive, AfterTurn
  <2>4. CASE hud_on_next_turn
    <3>1. ppc' = "guide" /\ snap'.man = emitted
      BY <2>4 DEF hud_on_next_turn, TypeOK, Snapshot
    <3> QED BY <2>2, <3>1 DEF Decoding
  <2>5. CASE hud_on_distance
    <3>1. ppc = "dist" /\ ppc' = "idle" /\ snap'.man = snap.man
      BY <2>5 DEF hud_on_distance, TypeOK, Snapshot
    <3> QED BY <2>2, <3>1 DEF Decoding
  <2> QED BY <1>2, <2>3, <2>4, <2>5 DEF Publish
<1>3. ASSUME NEW sp \in BOOLEAN, NEW ok \in BOOLEAN, arm_navi(sp, ok) PROVE Decoding'
  BY <1>3, DecodingQuiet DEF arm_navi, producer
<1>4. ASSUME NEW l \in Limits, NEW o \in BOOLEAN, WriteFiles(l, o) PROVE Decoding'
  BY <1>4, DecodingQuiet DEF WriteFiles, producer
<1>5. CASE cp_tbt_entity_cb \/ cp_deactive_cb \/ hud_status_cb \/ splim_ticker_main \/ SpuriousWake
  BY <1>5, DecodingQuiet
     DEF cp_tbt_entity_cb, cp_deactive_cb, hud_status_cb, splim_ticker_main, SpuriousWake, producer
<1>6. CASE SenderStep
  <2>1. UNCHANGED <<decoder, ppc, pdist, snap>>
    BY <1>6 DEF SenderStep, sender_setup, SpawnTicker, StartClear, Wipe, SendStep, ReadSnapshot,
       TakeRequests, Unguide, CatchUp, nav_request_reset, SeeTick, WaitPredicate, WaitBlock, producer
  <2> QED BY <2>1, DecodingQuiet
<1>7. CASE UNCHANGED vars
  BY <1>7, DecodingQuiet DEF vars, producer
<1> QED BY <1>1, <1>2, <1>3, <1>4, <1>5, <1>6, <1>7 DEF Next

-----------------------------------------------------------------------------
(* The sender's record.                                                    *)

LEMMA ReadingQuiet ==
    ASSUME Reading,
           UNCHANGED <<limitOn, armed, snap, behind, guid, loc, fresh, moved, prev, prevLimit>>,
           spc' = spc \/ (spc # "none" /\ spc' \notin Dormant \cup {"send", "catchup"})
    PROVE  Reading'
BY DEF Reading, Dormant

(* A publication says something, and the sender is behind it.              *)
LEMMA ReadingPublish ==
    ASSUME TypeOK, Decoding, Reading, Publish
    PROVE  Reading'
<1>1. UNCHANGED <<limitOn, armed, loc, fresh, prev, prevLimit>>
  BY DEF Publish, hud_on_status, hud_on_next_turn, TurnIsLive, hud_on_distance, config, arming,
     locals, sent
<1>2. spc' = spc \/ (spc = "wait" /\ spc' = "pred")
  BY DEF Publish, hud_on_status, hud_on_next_turn, TurnIsLive, hud_on_distance, Notify
<1>3. CASE hud_on_status \/ TurnIsLive
  <2>1. guid' /\ UNCHANGED <<snap, behind, moved>>
    BY <1>3 DEF hud_on_status, TurnIsLive, locals
  <2> QED BY <1>1, <1>2, <2>1 DEF Reading, Dormant
<1>4. CASE hud_on_next_turn \/ hud_on_distance
  <2>1. snap' # Blank
    <3>1. hud_on_next_turn => snap'.man # NoMan
      BY DEF hud_on_next_turn, Decoding, TypeOK, Snapshot
    <3>2. hud_on_distance => snap'.dist # NoDist
      BY DEF hud_on_distance, Decoding, TypeOK, Snapshot
    <3> QED BY <1>4, <3>1, <3>2 DEF Blank
  <2>2. behind' /\ (spc = "send" => moved') /\ guid' = guid
    BY <1>4 DEF hud_on_next_turn, hud_on_distance, Published
  <2> QED BY <1>1, <1>2, <2>1, <2>2 DEF Reading, Dormant
<1> QED BY <1>3, <1>4 DEF Publish

LEMMA ReadingSend ==
    ASSUME TypeOK, Reading, NEW r \in Outcome, NEW p \in Limits, SendStep(p, r)
    PROVE  Reading'
<1>1. /\ spc = "send" /\ spc' = "flags" /\ loc' = Blank /\ ~fresh' /\ ~moved'
      /\ UNCHANGED <<limitOn, armed, snap, guid>>
  BY DEF SendStep, config, arming
<1>2. CASE SendChange(p, r)
  <2>1. prev' = CurSnap /\ behind' = moved
    BY <1>2 DEF SendChange
  <2>2. CurSnap \in {loc, Blank} /\ (limitOn /\ ~guid => CurSnap = Blank)
    BY DEF CurSnap
  <2> QED BY <1>1, <2>1, <2>2 DEF Reading, Dormant
<1>3. CASE KeepAlive(p, r)
  <2>1. UNCHANGED <<prev, behind>>
    BY <1>3 DEF KeepAlive, sent
  <2> QED BY <1>1, <2>1 DEF Reading, Dormant
<1> QED BY <1>2, <1>3 DEF SendStep

LEMMA ReadingSender ==
    ASSUME TypeOK, Reading, SenderStep
    PROVE  Reading'
<1>1. ASSUME NEW ok \in BOOLEAN, sender_setup(ok) \/ SpawnTicker(ok) PROVE Reading'
  BY <1>1 DEF Reading, Dormant, sender_setup, SpawnTicker, config, arming, locals, sent
<1>2. ASSUME NEW r \in Outcome, StartClear(r) \/ Wipe(r) PROVE Reading'
  BY <1>2, ReadingQuiet DEF StartClear, Wipe, Dormant, config, arming, locals, sent
<1>3. ASSUME NEW r \in Outcome, NEW p \in Limits, SendStep(p, r) PROVE Reading'
  BY <1>3, ReadingSend
<1>4. CASE ReadSnapshot
  BY <1>4 DEF ReadSnapshot, Reading, Dormant, config, arming, sent
<1>5. CASE Unguide
  BY <1>5 DEF Unguide, Reading, Dormant, config, arming, locals
<1>6. CASE CatchUp
  BY <1>6 DEF CatchUp, Reading, Dormant, config, arming, locals, sent
<1>7. CASE TakeRequests \/ nav_request_reset \/ SeeTick \/ WaitPredicate \/ WaitBlock
  BY <1>7, ReadingQuiet DEF TakeRequests, nav_request_reset, SeeTick, WaitPredicate, WaitBlock,
     Dormant, config, arming, locals, sent
<1> QED BY <1>1, <1>2, <1>3, <1>4, <1>5, <1>6, <1>7 DEF SenderStep

LEMMA ReadingStep == TypeOK /\ Decoding /\ Reading /\ [Next]_vars => Reading'
<1> SUFFICES ASSUME TypeOK, Decoding, Reading, [Next]_vars PROVE Reading'
  OBVIOUS
<1>1. ASSUME NEW sp \in BOOLEAN, NEW ok \in BOOLEAN, arm_navi(sp, ok) PROVE Reading'
  BY <1>1 DEF arm_navi, Reading, Dormant, config, locals, sent
<1>2. ASSUME NEW m \in Received, nav_on_devmgr_msg(m) PROVE Reading'
  BY <1>2, ReadingQuiet DEF nav_on_devmgr_msg, config, arming, locals, sent
<1>3. ASSUME NEW l \in Limits, NEW o \in BOOLEAN, WriteFiles(l, o) PROVE Reading'
  BY <1>3, ReadingQuiet DEF WriteFiles, arming, locals, sent
<1>4. CASE cp_tbt_entity_cb \/ cp_deactive_cb \/ hud_status_cb \/ splim_ticker_main \/ SpuriousWake
  BY <1>4, ReadingQuiet
     DEF cp_tbt_entity_cb, cp_deactive_cb, hud_status_cb, splim_ticker_main, SpuriousWake, Notify,
         Dormant, config, arming, locals, sent
<1>5. CASE UNCHANGED vars
  BY <1>5, ReadingQuiet DEF vars, config, arming, locals, sent
<1> QED BY <1>1, <1>2, <1>3, <1>4, <1>5, ReadingPublish, ReadingSender DEF Next

-----------------------------------------------------------------------------
(* The display.                                                            *)

LEMMA PushShows ==
    ASSUME NEW s, NEW l, NEW r, Push(s, l, r), ~absent, ~lost'
    PROVE  r = "both" /\ hud'.man = s.man /\ hud'.dist = s.dist /\ hud'.strip = s.man
BY DEF Push, Image

LEMMA DisplayingQuiet ==
    ASSUME Displaying, UNCHANGED <<absent, lost, hud, prev, prevLimit>>, guid => guid',
           \/ spc' = spc \/ spc' \in Dormant \/ (spc = "read" /\ spc' = "send")
           \/ spc \notin Dormant \cup {"read", "send", "unguide"} /\ spc' # "unguide"
    PROVE  Displaying'
BY DEF Displaying, Shows, Dormant

LEMMA DisplayingSend ==
    ASSUME TypeOK, Reading, Displaying, NEW r \in Outcome, NEW p \in Limits, SendStep(p, r)
    PROVE  Displaying'
<1> SUFFICES ASSUME ~absent, ~lost'
             PROVE  hud'.man = prev'.man /\ hud'.dist = prev'.dist /\ hud'.strip = prev'.man
  BY DEF Displaying, SendStep, Dormant, Shows
<1>1. CASE SendChange(p, r) /\ (fresh \/ splim # prevLimit)
  <2>1. prev' = CurSnap
    BY <1>1 DEF SendChange
  <2>2. CASE CurSnap # prev \/ splim # prevLimit
    BY <1>1, <2>1, <2>2, PushShows DEF SendChange
  <2>3. CASE CurSnap = prev /\ splim = prevLimit
    <3>1. UNCHANGED <<hud, lost>> /\ fresh /\ spc = "send"
      BY <1>1, <2>3 DEF SendChange, cluster, SendStep
    <3>2. ~(guid /\ prev = Blank)
      BY <2>3, <3>1 DEF CurSnap, Reading
    <3> QED BY <2>1, <2>3, <3>1, <3>2 DEF Displaying, Shows
  <2> QED BY <2>2, <2>3
<1>2. CASE KeepAlive(p, r)
  <2>1. prev' = prev /\ spc = "send"
    BY <1>2 DEF KeepAlive, sent, SendStep
  <2>2. CASE guid \/ prevLimit # NoLimit
    BY <1>2, <2>1, <2>2, PushShows DEF KeepAlive
  <2>3. CASE ~(guid \/ prevLimit # NoLimit)
    <3>1. UNCHANGED <<hud, lost>>
      BY <1>2, <2>3 DEF KeepAlive, cluster
    <3> QED BY <2>1, <2>3, <3>1 DEF Displaying, Shows
  <2> QED BY <2>2, <2>3
<1> QED BY <1>1, <1>2 DEF SendStep

LEMMA DisplayingWipes ==
    ASSUME TypeOK, Reading, Displaying, NEW r \in Outcome, StartClear(r) \/ Wipe(r)
    PROVE  Displaying'
<1> SUFFICES ASSUME ~absent, ~lost' PROVE Displaying'
  BY DEF Displaying, StartClear, Wipe
<1>1. CASE StartClear(r)
  <2>1. /\ spc' = "read" /\ prev = Blank /\ prevLimit = NoLimit
        /\ UNCHANGED <<prev, prevLimit, guid>>
    BY <1>1 DEF StartClear, Reading, Dormant, sent
  <2>2. CASE guid
    BY <2>1, <2>2 DEF Displaying, Dormant
  <2>3. CASE ~guid
    <3>1. hud'.man = Blank.man /\ hud'.dist = Blank.dist /\ hud'.strip = Blank.man
      BY <1>1, <2>3, PushShows DEF StartClear
    <3> QED BY <2>1, <3>1 DEF Displaying, Shows, Dormant
  <2> QED BY <2>2, <2>3
<1>2. CASE Wipe(r)
  <2>1. /\ r = "both" /\ hud'.man = Blank.man /\ hud'.dist = Blank.dist /\ hud'.strip = Blank.man
    BY <1>2, PushShows DEF Wipe, WipedFrame
  <2>2. spc' = "unguide"
    BY <1>2, <2>1 DEF Wipe
  <2> QED BY <2>1, <2>2 DEF Displaying, Shows, Dormant
<1> QED BY <1>1, <1>2

LEMMA DisplayingSender ==
    ASSUME TypeOK, Reading, Displaying, SenderStep
    PROVE  Displaying'
<1>1. ASSUME NEW ok \in BOOLEAN, sender_setup(ok) \/ SpawnTicker(ok) PROVE Displaying'
  BY <1>1 DEF Displaying, Dormant, sender_setup, SpawnTicker
<1>2. CASE ReadSnapshot
  BY <1>2, DisplayingQuiet DEF ReadSnapshot, sent, cluster
<1>3. CASE Unguide
  <2>1. spc = "unguide" /\ spc' = "catchup" /\ prev' = Blank /\ UNCHANGED <<absent, lost, hud>>
    BY <1>3 DEF Unguide, cluster
  <2> QED BY <2>1 DEF Displaying, Shows, Dormant
<1>4. CASE TakeRequests
  BY <1>4, DisplayingQuiet DEF TakeRequests, Dormant, sent, cluster
<1>5. CASE CatchUp \/ nav_request_reset
  BY <1>5, DisplayingQuiet DEF CatchUp, nav_request_reset, Dormant, sent, cluster
<1>6. CASE SeeTick \/ WaitPredicate \/ WaitBlock
  BY <1>6, DisplayingQuiet DEF SeeTick, WaitPredicate, WaitBlock, Dormant, sent, cluster
<1> QED BY <1>1, <1>2, <1>3, <1>4, <1>5, <1>6, DisplayingSend, DisplayingWipes DEF SenderStep

LEMMA DisplayingStep == TypeOK /\ Reading /\ Displaying /\ [Next]_vars => Displaying'
<1> SUFFICES ASSUME TypeOK, Reading, Displaying, [Next]_vars PROVE Displaying'
  OBVIOUS
<1>1. ASSUME NEW sp \in BOOLEAN, NEW ok \in BOOLEAN, arm_navi(sp, ok) PROVE Displaying'
  BY <1>1, DisplayingQuiet DEF arm_navi, Dormant, sent, cluster
<1>2. ASSUME NEW m \in Received, nav_on_devmgr_msg(m) PROVE Displaying'
  BY <1>2, DisplayingQuiet DEF nav_on_devmgr_msg, sent, cluster
<1>3. ASSUME NEW l \in Limits, NEW o \in BOOLEAN, WriteFiles(l, o) PROVE Displaying'
  BY <1>3, DisplayingQuiet DEF WriteFiles, sent, cluster
<1>4. CASE cp_tbt_entity_cb \/ cp_deactive_cb \/ splim_ticker_main \/ SpuriousWake
  BY <1>4, DisplayingQuiet
     DEF cp_tbt_entity_cb, cp_deactive_cb, splim_ticker_main, SpuriousWake, Notify, Dormant, sent,
         cluster
<1>5. CASE hud_status_cb
  BY <1>5 DEF hud_status_cb, Displaying
<1>6. CASE Publish
  BY <1>6, DisplayingQuiet
     DEF Publish, hud_on_status, hud_on_next_turn, TurnIsLive, hud_on_distance, Notify, Dormant,
         sent, cluster
<1>7. CASE UNCHANGED vars
  BY <1>7, DisplayingQuiet DEF vars, sent, cluster
<1> QED BY <1>1, <1>2, <1>3, <1>4, <1>5, <1>6, <1>7, DisplayingSender DEF Next

-----------------------------------------------------------------------------
(* What was wiped is published again.                                      *)

LEMMA ReissuingQuiet ==
    ASSUME Reissuing, UNCHANGED <<decoder, ppc, unpublished>>, resetReq => resetReq',
           spc' \in {"catchup", "reset"} \/ spc \notin {"catchup", "reset"} \/ resetReq'
    PROVE  Reissuing'
BY DEF Reissuing, Selected, decoder

LEMMA ReissuingStep == TypeOK /\ Decoding /\ Reading /\ Reissuing /\ [Next]_vars => Reissuing'
<1> SUFFICES ASSUME TypeOK, Decoding, Reading, Reissuing, [Next]_vars PROVE Reissuing'
  OBVIOUS
<1>1. ASSUME NEW sp \in BOOLEAN, NEW ok \in BOOLEAN, arm_navi(sp, ok) PROVE Reissuing'
  BY <1>1, ReissuingQuiet DEF arm_navi, Reading, producer
<1>2. ASSUME NEW m \in Received, nav_on_devmgr_msg(m) PROVE Reissuing'
  <2>1. ppc = "idle" /\ UNCHANGED <<spc, unpublished>>
    BY <1>2 DEF nav_on_devmgr_msg
  <2> QED BY <1>2, <2>1, MessageDecodes DEF Reissuing
<1>3. CASE Publish
  <2>1. UNCHANGED <<decoder, resetReq>> /\ (spc' = spc \/ spc = "wait")
    BY <1>3 DEF Publish, hud_on_status, hud_on_next_turn, TurnIsLive, hud_on_distance, Notify
  <2>2. Selected' = Selected /\ emitted' = emitted
    BY <2>1 DEF decoder, Selected
  <2>3. \/ ~unpublished'
        \/ /\ unpublished' = unpublished
           /\ \/ ppc = "status" /\ ppc' = "turn"
              \/ ppc = "guide"
              \/ ppc = "dist" /\ ppc' = "idle"
    BY <1>3 DEF Publish, hud_on_status, hud_on_next_turn, TurnIsLive, hud_on_distance
  <2> QED BY <2>1, <2>2, <2>3 DEF Reissuing
<1>4. ASSUME NEW l \in Limits, NEW o \in BOOLEAN, WriteFiles(l, o) PROVE Reissuing'
  BY <1>4, ReissuingQuiet DEF WriteFiles, producer
<1>5. CASE cp_tbt_entity_cb \/ cp_deactive_cb \/ hud_status_cb \/ splim_ticker_main \/ SpuriousWake
  BY <1>5, ReissuingQuiet
     DEF cp_tbt_entity_cb, cp_deactive_cb, hud_status_cb, splim_ticker_main, SpuriousWake, Notify,
         producer
<1>6. CASE SenderStep
  <2>1. CASE Unguide
    BY <2>1 DEF Unguide, Reissuing
  <2>2. CASE CatchUp
    BY <2>2, ReissuingQuiet DEF CatchUp, producer
  <2>3. CASE nav_request_reset
    BY <2>3 DEF nav_request_reset, Reissuing
  <2>4. ASSUME NEW ok \in BOOLEAN, sender_setup(ok) \/ SpawnTicker(ok) PROVE Reissuing'
    BY <2>4, ReissuingQuiet DEF sender_setup, SpawnTicker, producer
  <2>5. ASSUME NEW r \in Outcome, StartClear(r) \/ Wipe(r) PROVE Reissuing'
    BY <2>5, ReissuingQuiet DEF StartClear, Wipe, producer
  <2>6. ASSUME NEW r \in Outcome, NEW p \in Limits, SendStep(p, r) PROVE Reissuing'
    BY <2>6, ReissuingQuiet DEF SendStep, producer
  <2>7. CASE ReadSnapshot \/ TakeRequests \/ SeeTick \/ WaitPredicate \/ WaitBlock
    BY <2>7, ReissuingQuiet DEF ReadSnapshot, TakeRequests, SeeTick, WaitPredicate, WaitBlock, producer
  <2> QED BY <1>6, <2>1, <2>2, <2>3, <2>4, <2>5, <2>6, <2>7 DEF SenderStep
<1>7. CASE UNCHANGED vars
  BY <1>7, ReissuingQuiet DEF vars, producer
<1> QED BY <1>1, <1>2, <1>3, <1>4, <1>5, <1>6, <1>7 DEF Next

-----------------------------------------------------------------------------
LEMMA CpInit == Init => CpInv
<1> SUFFICES ASSUME Init PROVE CpInv
  OBVIOUS
<1>1. TypeOK
  BY TypeInit
<1>2. Decoding /\ Reissuing
  BY DEF Init, Decoding, Reissuing, Selected, Sel
<1>3. Reading /\ Displaying
  BY DEF Init, Reading, Displaying, Dormant
<1> QED BY <1>1, <1>2, <1>3 DEF CpInv

LEMMA CpStep == CpInv /\ [Next]_vars => CpInv'
BY TypeStep, DecodingStep, ReadingStep, DisplayingStep, ReissuingStep DEF CpInv

LEMMA CpInvariant == Spec => []CpInv
BY CpInit, CpStep, PTL DEF Spec

(* The display shows one publication (hud_send.cpp:600-662): the turn the  *)
(* head of the phone's list names, frame and strip together, or none.      *)
THEOREM DisplayIsImminent == Spec => []ShowsImminent
<1>1. CpInv => ShowsImminent
  <2> SUFFICES ASSUME CpInv, Shown, ~behind
               PROVE  /\ hud.strip = hud.man
                      /\ hud.man # NoMan => hud.man = snap.man /\ hud.dist = snap.dist
                      /\ ppc = "idle" /\ head # NoIdx /\ select_by_head(buf, head) # 0
                           => hud.man \in {buf[select_by_head(buf, head)].man, NoMan}
    BY DEF ShowsImminent
  <2>1. hud.man = prev.man /\ hud.dist = prev.dist /\ hud.strip = prev.man
    BY DEF CpInv, Displaying, Shown, Shows, Dormant
  <2>2. prev = snap \/ prev.man = NoMan
    BY DEF CpInv, Reading, Blank
  <2>3. ASSUME ppc = "idle", head # NoIdx, select_by_head(buf, head) # 0
        PROVE  snap.man = buf[select_by_head(buf, head)].man
    <3>1. Selected = select_by_head(buf, head)
      BY <2>3 DEF Selected, Sel
    <3>2. buf \in Seq(Entry)
      BY DEF CpInv, TypeOK, Entry
    <3>3. buf[Selected].man # NoMan
      BY <2>3, <3>1, <3>2, SelTyped DEF Turns, Selected
    <3> QED BY <2>3, <3>1, <3>3 DEF CpInv, Decoding
  <2> QED BY <2>1, <2>2, <2>3
<1> QED BY <1>1, CpInvariant, PTL

(* No turn stays beside the speed-limit sign once its route has ended      *)
(* (hud_send.cpp:632-646).                                                 *)
THEOREM SignStandsAlone == Spec => []NoTurnBesideSign
<1>1. CpInv => NoTurnBesideSign
  BY DEF CpInv, Reading, Displaying, NoTurnBesideSign, Shown, Shows, Dormant, Blank
<1> QED BY <1>1, CpInvariant, PTL

(* A route that starts again after a wipe is published again               *)
(* (nav.cpp:304-315), even when it starts with the turn shown last.        *)
THEOREM WipeIsForgotten == Spec => []RestartReemits
<1>1. CpInv => RestartReemits
  BY DEF CpInv, Reissuing, RestartReemits, Selected, Sel
<1> QED BY <1>1, CpInvariant, PTL
=============================================================================

-------------------------- MODULE AapSessionProofs --------------------------
(* What the mute bridge may start on the phone, for any configurations and *)
(* any number of sessions, signals, rejected keys and bus failures.        *)
EXTENDS AapSession, TLAPS, SequenceTheorems

-----------------------------------------------------------------------------
(* Types.  Two facts are needed besides: a session that is being destroyed *)
(* has no watcher left once its join is over, or g_session_up would be     *)
(* cleared under a running thread; and an activator that polls has a poll  *)
(* left, or its count would pass zero.                                     *)
Joined == lpc = "stopped" => ~threadUp
Polls == apc = "poll" => tries # 0

TypeInv == TypeOK /\ Joined /\ Polls

LEMMA TypeInit == Init => TypeInv
<1> SUFFICES ASSUME Init PROVE TypeInv
  OBVIOUS
<1>1. PICK c \in Configs : mutePauses = c.mute /\ blockPlay = c.block /\ v16 = c.v16
  BY DEF Init
<1>2. c.mute \in BOOLEAN /\ c.block \in BOOLEAN /\ c.v16 \in BOOLEAN
  BY ConfigAssumption
<1>3. exempt \in [Threads -> BOOLEAN]
  BY DEF Init, MuteInit
<1>4. /\ mutePauses \in BOOLEAN /\ blockPlay \in BOOLEAN /\ v16 \in BOOLEAN
      /\ threadUp \in BOOLEAN /\ downOk \in BOOLEAN /\ wePaused \in BOOLEAN
      /\ muted \in BOOLEAN /\ playing \in BOOLEAN /\ focus \in BOOLEAN /\ pausedHere \in BOOLEAN
      /\ guard \in BOOLEAN /\ enabled \in BOOLEAN /\ gated \in BOOLEAN
      /\ real \in BOOLEAN /\ sessionUp \in BOOLEAN
  BY <1>1, <1>2, Zenon DEF Init, MuteInit, BtInit
<1>5. MuteTypeOK
  BY <1>3, <1>4, MuteBounds DEF Init, MuteInit, MuteTypeOK, Keys
<1>6. BtTypeOK /\ Polls
  BY <1>4, TriesAssumption DEF Init, BtInit, BtTypeOK, Polls
<1> QED BY <1>4, <1>5, <1>6, SessionsAssumption DEF Init, MuteInit, TypeInv, TypeOK, Joined

(* The watcher's own steps leave it up or down as it was.                  *)
LEMMA MuteTypeWatcher ==
    ASSUME MuteTypeOK, WatcherStep
    PROVE  MuteTypeOK' /\ threadUp' = threadUp
<1> USE DEF MuteTypeOK
<1>1. CASE WatcherCheck
  <2>1. wePaused' \in BOOLEAN /\ pausedHere' \in BOOLEAN
    BY <1>1, Zenon DEF WatcherCheck, ForgetsLatch
  <2>2. wpc = "check" /\ wpc' \in {"done", "connect"}
    BY <1>1 DEF WatcherCheck, ForgetsLatch
  <2>3. UNCHANGED <<blockPlay, threadUp, stopFd, key, downOk, exempt, bus, media>>
    BY <1>1 DEF WatcherCheck
  <2> QED BY <2>1, <2>2, <2>3 DEF bus, media
<1>2. CASE drain_messages
  <2>1. wePaused' \in BOOLEAN
    BY <1>2, Zenon DEF drain_messages, handle_message
  <2>2. queue' \in Seq(Values)
    BY <1>2 DEF drain_messages
  <2>3. wpc = "drain" /\ wpc' \in {"press", "drain"} /\ key' \in Keys
    BY <1>2 DEF drain_messages, handle_message, Keys
  <2>4. UNCHANGED <<blockPlay, threadUp, stopFd, downOk, exempt, conn, muted, signals, drops,
                    media, pausedHere>>
    BY <1>2 DEF drain_messages
  <2> QED BY <2>1, <2>2, <2>3, <2>4 DEF media
<1>3. CASE Drained \/ Backoff
  BY <1>3 DEF Drained, Backoff, bus, media
<1>4. CASE teardown_connection
  BY <1>4 DEF teardown_connection, media
<1>5. CASE PressKey
  <2>1. exempt' \in [Threads -> BOOLEAN]
    <3>1. (key = "PLAY") \in BOOLEAN
      BY Zenon
    <3> QED BY <1>5, <3>1 DEF PressKey
  <2> QED BY <1>5, <2>1 DEF PressKey, bus, media
<1>6. ASSUME NEW ok \in BOOLEAN, SendDown(ok) PROVE MuteTypeOK' /\ threadUp' = threadUp
  <2>1. playing' \in BOOLEAN /\ pausedHere' \in BOOLEAN /\ downOk' \in BOOLEAN
    BY <1>6, Zenon DEF SendDown, aap_send_key_input
  <2>2. rejects' \in 0..MaxRejects
    BY <1>6, MuteBounds DEF SendDown, aap_send_key_input
  <2>3. startedBy' \in {"phone", "stock", "resume", "unasked"} /\ focus' = focus
    BY <1>6 DEF SendDown, aap_send_key_input, Cause
  <2> QED BY <1>6, <2>1, <2>2, <2>3 DEF SendDown, bus
<1>7. ASSUME NEW ok \in BOOLEAN, SendUp(ok) PROVE MuteTypeOK' /\ threadUp' = threadUp
  <2>1. wePaused' \in BOOLEAN /\ pausedHere' \in BOOLEAN /\ downOk' \in BOOLEAN
    BY <1>7, Zenon DEF SendUp
  <2>2. rejects' \in 0..MaxRejects /\ key' \in Keys
    BY <1>7, MuteBounds DEF SendUp, Keys
  <2>3. exempt' \in [Threads -> BOOLEAN]
    <3>1. FALSE \in BOOLEAN
      OBVIOUS
    <3> QED BY <1>7, <3>1 DEF SendUp
  <2> QED BY <1>7, <2>1, <2>2, <2>3 DEF SendUp, bus
<1>8. ASSUME NEW ok \in BOOLEAN, setup_connection(ok) PROVE MuteTypeOK' /\ threadUp' = threadUp
  BY <1>8, MuteBounds DEF setup_connection, media
<1>9. ASSUME NEW ok \in BOOLEAN, run_watch_loop(ok) PROVE MuteTypeOK' /\ threadUp' = threadUp
  BY <1>9, MuteBounds DEF run_watch_loop, PollReady, media
<1> QED BY <1>1, <1>2, <1>3, <1>4, <1>5, <1>6, <1>7, <1>8, <1>9 DEF WatcherStep

LEMMA MuteTypeEnvironment ==
    ASSUME MuteTypeOK, MuteEnvironment
    PROVE  MuteTypeOK' /\ threadUp' = threadUp
<1> USE DEF MuteTypeOK
<1>1. ASSUME NEW k \in Keys, StockKey(k) PROVE MuteTypeOK' /\ threadUp' = threadUp
  <2>1. playing' \in BOOLEAN
    BY <1>1, Zenon DEF StockKey, aap_send_key_input
  <2>2. startedBy' \in {"phone", "stock", "resume", "unasked"} /\ focus' = focus
        /\ rejects' = rejects
    BY <1>1 DEF StockKey, aap_send_key_input, Cause
  <2> QED BY <1>1, <2>1, <2>2 DEF StockKey, watcher, bus
<1>2. ASSUME NEW v \in Values, MuteSignal(v) PROVE MuteTypeOK' /\ threadUp' = threadUp
  <2>1. muted' \in BOOLEAN
    BY <1>2, Zenon DEF MuteSignal
  <2>2. queue' \in Seq(Values) /\ signals' \in 0..MaxSignals
    BY <1>2, MuteBounds DEF MuteSignal
  <2> QED BY <1>2, <2>1, <2>2 DEF MuteSignal, watcher, media
<1>3. CASE PhoneUser \/ SourceChange
  <2>1. playing' \in BOOLEAN /\ focus' \in BOOLEAN
    BY <1>3, Zenon DEF PhoneUser, SourceChange
  <2> QED BY <1>3, <2>1 DEF PhoneUser, SourceChange, watcher, bus
<1>4. CASE BusBreaks
  BY <1>4, MuteBounds DEF BusBreaks, watcher, media
<1> QED BY <1>1, <1>2, <1>3, <1>4 DEF MuteEnvironment

LEMMA MuteTypeQuiet ==
    ASSUME MuteTypeOK, UNCHANGED muteVars
    PROVE  MuteTypeOK' /\ threadUp' = threadUp
BY DEF MuteTypeOK, muteVars, watcher, bus, media

LEMMA BtTypeQuiet ==
    ASSUME BtTypeOK, Polls, UNCHANGED btVars
    PROVE  BtTypeOK' /\ Polls'
BY DEF BtTypeOK, Polls, btVars

(* What bt16pair's operations leave, the SETUP event's thread included.    *)
LEMMA BtTypeSteps ==
    ASSUME BtTypeOK, Polls,
           \/ bt16pair_pre_aap_create_session \/ SessionGone \/ ActivatorStep
           \/ LinkUp \/ PairingArrives
           \/ \E d, s \in BOOLEAN : our_projection_status_cb(d, s)
    PROVE  BtTypeOK' /\ Polls'
<1> USE DEF BtTypeOK, Polls
<1>1. CASE bt16pair_pre_aap_create_session \/ SessionGone \/ LinkUp \/ PairingArrives
  BY <1>1 DEF bt16pair_pre_aap_create_session, SessionGone, LinkUp, PairingArrives
<1>2. CASE PollMode
  BY <1>2, TriesAssumption DEF PollMode
<1>3. CASE ActivateAapSession
  BY <1>3 DEF ActivateAapSession
<1>4. CASE ReleaseGuard
  <2>1. guard' \in BOOLEAN
    BY <1>4, Zenon DEF ReleaseGuard
  <2> QED BY <1>4, <2>1, TriesAssumption DEF ReleaseGuard
<1>5. ASSUME NEW d \in BOOLEAN, NEW s \in BOOLEAN, our_projection_status_cb(d, s)
      PROVE  BtTypeOK' /\ Polls'
  <2>1. guard' \in BOOLEAN
    BY <1>5, Zenon DEF our_projection_status_cb, spawn_activator_once
  <2> QED BY <1>5, <2>1, TriesAssumption DEF our_projection_status_cb, spawn_activator_once
<1> QED BY <1>1, <1>2, <1>3, <1>4, <1>5 DEF ActivatorStep

LEMMA TypeStep == TypeInv /\ [Next]_vars => TypeInv'
<1> SUFFICES ASSUME TypeInv, [Next]_vars PROVE TypeInv'
  OBVIOUS
<1> USE DEF TypeInv, TypeOK, Joined
<1>1. ASSUME NEW m \in BOOLEAN, NEW ok \in BOOLEAN, aap_create_session(m, ok) PROVE TypeInv'
  <2>1. BtTypeOK' /\ Polls'
    BY <1>1, BtTypeSteps, BtTypeQuiet DEF aap_create_session
  <2>2. MuteTypeOK' /\ threadUp' = threadUp
    BY <1>1, MuteTypeQuiet DEF aap_create_session
  <2>3. gated' \in BOOLEAN /\ enabled' \in BOOLEAN /\ real' \in BOOLEAN
    BY <1>1, Zenon DEF aap_create_session
  <2>4. creates' \in 0..MaxSessions
    BY <1>1, SessionsAssumption DEF aap_create_session
  <2> QED BY <1>1, <2>1, <2>2, <2>3, <2>4 DEF aap_create_session
<1>2. ASSUME NEW f \in BOOLEAN, NEW s \in BOOLEAN, StartThreads(f, s) PROVE TypeInv'
  <2>1. BtTypeOK' /\ Polls' /\ sessionUp'
    BY <1>2, BtTypeQuiet DEF StartThreads
  <2>2. MuteTypeOK' /\ (threadUp' => mutePauses)
    <3>1. CASE UNCHANGED muteVars
      BY <3>1, MuteTypeQuiet
    <3>2. CASE mutePauses /\ ~threadUp /\ playpause_post_aap_create_session(f, s)
      <4>1. wePaused' \in BOOLEAN /\ threadUp' \in BOOLEAN
        BY <3>2, Zenon DEF playpause_post_aap_create_session
      <4> QED BY <3>2, <4>1 DEF playpause_post_aap_create_session, MuteTypeOK, bus, media
    <3> QED BY <1>2, <3>1, <3>2 DEF StartThreads, playpause_post_aap_create_session
  <2>3. sessionUp' \in BOOLEAN
    BY <1>2, Zenon DEF StartThreads
  <2> QED BY <1>2, <2>1, <2>2, <2>3 DEF StartThreads
<1>3. CASE aap_destroy_session
  <2>1. BtTypeOK' /\ Polls'
    BY <1>3, BtTypeQuiet DEF aap_destroy_session
  <2>2. MuteTypeOK' /\ threadUp' = threadUp
    <3>1. CASE SignalStop
      BY <3>1 DEF SignalStop, MuteTypeOK, watcher, bus, media
    <3> QED BY <1>3, <3>1, MuteTypeQuiet DEF aap_destroy_session
  <2> QED BY <1>3, <2>1, <2>2 DEF aap_destroy_session
<1>4. CASE JoinThreads
  <2>1. BtTypeOK' /\ Polls'
    BY <1>4, BtTypeQuiet DEF JoinThreads
  <2>2. threadUp' \in BOOLEAN /\ wePaused' \in BOOLEAN /\ ~threadUp'
    BY <1>4, Zenon DEF JoinThreads, JoinWatcher
  <2>3. MuteTypeOK'
    BY <1>4, <2>2 DEF JoinThreads, JoinWatcher, MuteTypeOK, bus, media
  <2> QED BY <1>4, <2>1, <2>2, <2>3 DEF JoinThreads
<1>5. CASE RealDestroy
  <2>1. BtTypeOK' /\ Polls'
    BY <1>5, BtTypeSteps DEF RealDestroy
  <2>2. MuteTypeOK' /\ threadUp' = threadUp
    BY <1>5, MuteTypeQuiet DEF RealDestroy
  <2>3. sessionUp' \in BOOLEAN /\ real' \in BOOLEAN
    BY <1>5, Zenon DEF RealDestroy
  <2> QED BY <1>5, <2>1, <2>2, <2>3 DEF RealDestroy
<1>6. CASE Watcher \/ Activator \/ Environment \/ UNCHANGED vars
  <2>1. UNCHANGED lifeVars
    BY <1>6 DEF Watcher, Activator, Environment, vars
  <2>2. BtTypeOK' /\ Polls'
    BY <1>6, BtTypeSteps, BtTypeQuiet DEF Watcher, Activator, Environment, vars
  <2>3. MuteTypeOK' /\ threadUp' = threadUp
    BY <1>6, MuteTypeQuiet, MuteTypeWatcher, MuteTypeEnvironment
       DEF Watcher, Activator, Environment, vars
  <2> QED BY <2>1, <2>2, <2>3 DEF lifeVars
<1> QED BY <1>1, <1>2, <1>3, <1>4, <1>5, <1>6 DEF Next

(* Type correctness of the session's three parts.  It says that a session  *)
(* never ends under a running watcher, that the watcher runs exactly while *)
(* its stop eventfd is open (playpause.cpp:640-709), that its activator's  *)
(* polls do not run past zero, and that the saved projection callback is   *)
(* never the wrapper itself (bt16pair.cpp:229-235).                        *)
THEOREM TypeCorrect == Spec => []TypeOK
<1>1. Spec => []TypeInv
  BY TypeInit, TypeStep, PTL DEF Spec
<1>2. TypeInv => TypeOK
  BY DEF TypeInv
<1> QED BY <1>1, <1>2, PTL

-----------------------------------------------------------------------------
(* StartsOnlyOwnPause is about the press that starts the phone.  It needs: *)
(* only the watcher's thread is ever exempt from the key filter; the latch *)
(* stands only for an own pause of this connection; a PLAY is on its way   *)
(* only while the latch is set; and an accepted PAUSE is an own pause      *)
(* before its release is sent.                                             *)
OwnPause ==
    /\ exempt \in [Threads -> BOOLEAN] /\ ~exempt["oem"]
    /\ wePaused => pausedHere
    /\ wpc \in {"press", "down"} /\ key = "PLAY" => wePaused
    /\ wpc = "up" /\ key = "PAUSE" /\ downOk => pausedHere

LatchInv == OwnPause /\ StartsOnlyOwnPause

USE DEF LatchInv, OwnPause, StartsOnlyOwnPause, Threads

LEMMA LatchInit == Init => LatchInv
BY DEF Init, MuteInit

(* A step that leaves the bridge's own state alone.                        *)
LEMMA LatchQuiet ==
    ASSUME LatchInv, UNCHANGED <<blockPlay, wpc, key, downOk, wePaused, exempt, startedBy, pausedHere>>
    PROVE  LatchInv'
OBVIOUS

LEMMA LatchEnvironment ==
    ASSUME LatchInv, MuteEnvironment
    PROVE  LatchInv'
<1>1. ASSUME NEW k \in Keys, StockKey(k) PROVE LatchInv'
  <2>1. UNCHANGED <<blockPlay, wpc, key, downOk, wePaused, exempt, pausedHere>>
    BY <1>1 DEF StockKey, watcher
  <2>2. startedBy' = startedBy \/ (startedBy' = "stock" /\ ~blockPlay)
    <3>1. Cause("oem") = "stock"
      BY DEF Cause
    <3>2. startedBy' = startedBy \/ (startedBy' = Cause("oem") /\ k = "PLAY" /\ ~Filtered("oem", k))
      BY <1>1 DEF StockKey, aap_send_key_input
    <3> QED BY <3>1, <3>2 DEF Filtered
  <2> QED BY <2>1, <2>2
<1>2. CASE PhoneUser
  BY <1>2 DEF PhoneUser, watcher
<1>3. CASE SourceChange \/ BusBreaks \/ \E v \in Values : MuteSignal(v)
  BY <1>3, LatchQuiet DEF SourceChange, BusBreaks, MuteSignal, watcher, media
<1> QED BY <1>1, <1>2, <1>3 DEF MuteEnvironment

LEMMA LatchWatcher ==
    ASSUME LatchInv, WatcherStep
    PROVE  LatchInv'
<1>1. CASE WatcherCheck
  BY <1>1 DEF WatcherCheck, ForgetsLatch, media
<1>2. CASE drain_messages
  BY <1>2 DEF drain_messages, handle_message, media
<1>3. CASE Drained \/ teardown_connection \/ Backoff
  BY <1>3 DEF Drained, teardown_connection, Backoff, media
<1>4. CASE PressKey
  BY <1>4 DEF PressKey, media
<1>5. ASSUME NEW ok \in BOOLEAN, SendDown(ok) PROVE LatchInv'
  <2>1. startedBy' = startedBy \/ (startedBy' = "resume" /\ key = "PLAY")
    BY <1>5 DEF SendDown, aap_send_key_input, Cause
  <2> QED BY <1>5, <2>1 DEF SendDown
<1>6. ASSUME NEW ok \in BOOLEAN, SendUp(ok) PROVE LatchInv'
  BY <1>6 DEF SendUp
<1>7. ASSUME NEW ok \in BOOLEAN, setup_connection(ok) \/ run_watch_loop(ok) PROVE LatchInv'
  BY <1>7 DEF setup_connection, run_watch_loop, PollReady, media
<1> QED BY <1>1, <1>2, <1>3, <1>4, <1>5, <1>6, <1>7 DEF WatcherStep

LEMMA LatchStep == LatchInv /\ [Next]_vars => LatchInv'
<1> SUFFICES ASSUME LatchInv, [Next]_vars PROVE LatchInv'
  OBVIOUS
<1>1. ASSUME NEW m \in BOOLEAN, NEW ok \in BOOLEAN, aap_create_session(m, ok) PROVE LatchInv'
  BY <1>1, LatchQuiet DEF aap_create_session, muteVars, watcher, media
<1>2. ASSUME NEW f \in BOOLEAN, NEW s \in BOOLEAN, StartThreads(f, s) PROVE LatchInv'
  <2>1. CASE UNCHANGED muteVars
    BY <2>1, LatchQuiet DEF muteVars, watcher, media
  <2>2. CASE ~threadUp /\ playpause_post_aap_create_session(f, s)
    BY <2>2 DEF playpause_post_aap_create_session, media
  <2> QED BY <1>2, <2>1, <2>2 DEF StartThreads, playpause_post_aap_create_session
<1>3. CASE aap_destroy_session
  BY <1>3, LatchQuiet DEF aap_destroy_session, SignalStop, muteVars, watcher, media
<1>4. CASE JoinThreads
  BY <1>4 DEF JoinThreads, JoinWatcher, media
<1>5. CASE RealDestroy
  BY <1>5, LatchQuiet DEF RealDestroy, muteVars, watcher, media
<1>6. CASE Watcher
  BY <1>6, LatchWatcher DEF Watcher
<1>7. CASE Activator
  BY <1>7, LatchQuiet DEF Activator, muteVars, watcher, media
<1>8. CASE Environment
  BY <1>8, LatchQuiet, LatchEnvironment DEF Environment, muteVars, watcher, media
<1>9. CASE UNCHANGED vars
  BY <1>9, LatchQuiet DEF vars, muteVars, watcher, media
<1> QED BY <1>1, <1>2, <1>3, <1>4, <1>5, <1>6, <1>7, <1>8, <1>9 DEF Next

(* The head unit starts the phone only to take back its own pause, and     *)
(* with the filter configured no stock PLAY passes (playpause.cpp).        *)
THEOREM StartsOnlyOwn == Spec => []StartsOnlyOwnPause
<1>1. Spec => []LatchInv
  BY LatchInit, LatchStep, PTL DEF Spec
<1> QED BY <1>1, PTL

-----------------------------------------------------------------------------
(* playpause_pre_aap_destroy_session joins the watcher without a limit     *)
(* (playpause.cpp:691-709).  What it can wait for: the steps the watcher   *)
(* has left once g_stop_fd is raised.  It drains what its connection       *)
(* holds, with up to four steps for a signal that makes it send a key,     *)
(* then polls, finds the stop, closes the connection and skips the         *)
(* back-off.                                                               *)
StepsToDrain == 4 + 4 * Len(queue)

WatcherStepsLeft ==
    CASE wpc = "done"    -> 0
      [] wpc = "check"   -> 1
      [] wpc = "backoff" -> 1
      [] wpc = "close"   -> 2
      [] wpc = "poll"    -> 3
      [] wpc = "drain"   -> StepsToDrain
      [] wpc = "up"      -> StepsToDrain + 1
      [] wpc = "down"    -> StepsToDrain + 2
      [] wpc = "press"   -> StepsToDrain + 3
      [] OTHER           -> StepsToDrain + 1       \* "connect"

(* The watcher that is joined is there and was told to stop.               *)
Stopping == lpc = "join" => stopFd = "raised"

LEMMA WatcherKeepsFd ==
    ASSUME WatcherStep \/ MuteEnvironment
    PROVE  stopFd' = stopFd
BY DEF WatcherStep, WatcherCheck, drain_messages, Drained, PressKey, teardown_connection,
   Backoff, setup_connection, SendDown, SendUp, run_watch_loop, MuteEnvironment, StockKey,
   MuteSignal, PhoneUser, SourceChange, BusBreaks

LEMMA StoppingStep == Stopping /\ [Next]_vars => Stopping'
<1> SUFFICES ASSUME Stopping, [Next]_vars PROVE Stopping'
  OBVIOUS
<1> USE DEF Stopping
<1>1. CASE \/ \E m, ok \in BOOLEAN : aap_create_session(m, ok)
           \/ \E f, s \in BOOLEAN : StartThreads(f, s)
           \/ JoinThreads \/ RealDestroy
  <2>1. lpc' # "join"
    BY <1>1 DEF aap_create_session, StartThreads, JoinThreads, RealDestroy
  <2> QED BY <2>1
<1>2. CASE aap_destroy_session
  BY <1>2 DEF aap_destroy_session, SignalStop
<1>3. CASE Watcher \/ Activator \/ Environment \/ UNCHANGED vars
  <2>1. lpc' = lpc
    BY <1>3 DEF Watcher, Activator, Environment, vars, lifeVars
  <2>2. stopFd' = stopFd
    BY <1>3, WatcherKeepsFd DEF Watcher, Activator, Environment, vars, muteVars
  <2> QED BY <2>1, <2>2
<1> QED BY <1>1, <1>2, <1>3 DEF Next

(* A step of a stopping watcher uses up one of the steps left.             *)
LEMMA WatcherAdvances ==
    ASSUME MuteTypeOK, stopFd = "raised", WatcherStep
    PROVE  WatcherStepsLeft' < WatcherStepsLeft
<1> DEFINE n == Len(queue)
           m == Len(queue')
<1>1. n \in Nat
  BY LenProperties DEF MuteTypeOK
<1>2. CASE WatcherCheck \/ Backoff
  <2>1. wpc \in {"check", "backoff"} /\ wpc' = "done"
    BY <1>2 DEF WatcherCheck, ForgetsLatch, Backoff, stop_requested
  <2> QED BY <2>1 DEF WatcherStepsLeft
<1>3. CASE drain_messages
  <2>1. wpc = "drain" /\ wpc' \in {"press", "drain"} /\ queue # <<>> /\ queue' = Tail(queue)
    BY <1>3 DEF drain_messages, handle_message
  <2>2. m \in Nat /\ n = m + 1
    BY <1>1, <2>1, HeadTailProperties, EmptySeq DEF MuteTypeOK
  <2> HIDE DEF n, m
  <2>3. WatcherStepsLeft = 4 + 4 * n
    BY <2>1 DEF WatcherStepsLeft, StepsToDrain, n
  <2>4. WatcherStepsLeft' \in {4 + 4 * m, 4 + 4 * m + 3}
    BY <2>1 DEF WatcherStepsLeft, StepsToDrain, m
  <2> QED BY <2>2, <2>3, <2>4
<1>4. CASE Drained
  <2>1. wpc = "drain" /\ wpc' \in {"close", "poll"}
    BY <1>4 DEF Drained
  <2> QED BY <1>1, <2>1 DEF WatcherStepsLeft, StepsToDrain
<1>5. CASE PressKey \/ (\E ok \in BOOLEAN : SendDown(ok) \/ SendUp(ok) \/ setup_connection(ok))
  <2>1. /\ queue' = queue
        /\ \/ wpc = "press" /\ wpc' = "down"
           \/ wpc = "down" /\ wpc' = "up"
           \/ wpc = "up" /\ wpc' = "drain"
           \/ wpc = "connect" /\ wpc' \in {"drain", "backoff"}
    BY <1>5 DEF PressKey, SendDown, SendUp, setup_connection, bus
  <2>2. m = n
    BY <2>1
  <2> HIDE DEF n, m
  <2> QED BY <1>1, <2>1, <2>2 DEF WatcherStepsLeft, StepsToDrain, n, m
<1>6. CASE teardown_connection \/ \E fail \in BOOLEAN : run_watch_loop(fail)
  <2>1. \/ wpc = "close" /\ wpc' = "backoff"
        \/ wpc = "poll" /\ wpc' = "close"
    BY <1>6 DEF teardown_connection, run_watch_loop, PollReady, stop_requested
  <2> QED BY <2>1 DEF WatcherStepsLeft
<1> QED BY <1>2, <1>3, <1>4, <1>5, <1>6 DEF WatcherStep

(* What happens around the watcher gives it at most the four steps of a    *)
(* signal that arrives.                                                    *)
LEMMA EnvironmentAdds ==
    ASSUME MuteTypeOK, MuteEnvironment
    PROVE  WatcherStepsLeft' <= WatcherStepsLeft + (IF signals' = signals THEN 0 ELSE 4)
<1> DEFINE n == Len(queue)
           m == Len(queue')
<1>1. n \in Nat /\ signals \in Nat
  BY LenProperties, MuteBounds DEF MuteTypeOK
<1>2. wpc' = wpc /\ (queue' = queue \/ \E v \in Values : queue' = Append(queue, v) /\ signals' # signals)
  <2>1. ASSUME NEW v \in Values, MuteSignal(v)
        PROVE  wpc' = wpc /\ (queue' = queue \/ (queue' = Append(queue, v) /\ signals' # signals))
    BY <1>1, <2>1 DEF MuteSignal, watcher
  <2>2. CASE \/ \E k \in Keys : StockKey(k)
             \/ PhoneUser \/ SourceChange \/ BusBreaks
    BY <2>2 DEF StockKey, PhoneUser, SourceChange, BusBreaks, watcher, bus
  <2> QED BY <2>1, <2>2 DEF MuteEnvironment
<1>3. m = n \/ (m = n + 1 /\ signals' # signals)
  BY <1>2, AppendProperties DEF MuteTypeOK
<1> HIDE DEF n, m
<1>4. CASE m = n
  <2>1. WatcherStepsLeft' = WatcherStepsLeft
    BY <1>2, <1>4 DEF WatcherStepsLeft, StepsToDrain, n, m
  <2>2. WatcherStepsLeft \in Nat
    BY <1>1 DEF WatcherStepsLeft, StepsToDrain, n
  <2> QED BY <2>1, <2>2
<1>5. CASE m = n + 1 /\ signals' # signals
  <2>1. WatcherStepsLeft' <= WatcherStepsLeft + 4
    BY <1>1, <1>2, <1>5 DEF WatcherStepsLeft, StepsToDrain, n, m
  <2> QED BY <1>5, <2>1
<1> QED BY <1>3, <1>4, <1>5

(* aap_destroy_session does not wait for a watcher that has unboundedly    *)
(* much to do (playpause.cpp:499-615, 691-709): from the join on, every    *)
(* step of the watcher uses up one of the steps it has left, and only a    *)
(* mute signal that still arrives adds to them, at most four.              *)
THEOREM DestroyIsBounded ==
    Spec => [][lpc = "join" /\ lpc' = "join" =>
                  /\ WatcherStepsLeft \in Nat
                  /\ Watcher => WatcherStepsLeft' < WatcherStepsLeft
                  /\ WatcherStepsLeft' <= WatcherStepsLeft
                                            + (IF signals' = signals THEN 0 ELSE 4)]_vars
<1> DEFINE Bounded ==
             /\ WatcherStepsLeft \in Nat
             /\ Watcher => WatcherStepsLeft' < WatcherStepsLeft
             /\ WatcherStepsLeft' <= WatcherStepsLeft + (IF signals' = signals THEN 0 ELSE 4)
<1>1. Init => Stopping
  BY DEF Init, Stopping
<1>2. ASSUME TypeInv, Stopping, [Next]_vars, lpc = "join", lpc' = "join"
      PROVE  Bounded
  <2>1. MuteTypeOK /\ stopFd = "raised"
    BY <1>2 DEF TypeInv, TypeOK, Stopping
  <2>2. WatcherStepsLeft \in Nat
    <3>1. Len(queue) \in Nat
      BY <2>1, LenProperties DEF MuteTypeOK
    <3> QED BY <3>1 DEF WatcherStepsLeft, StepsToDrain
  <2>3. MuteTypeOK' /\ WatcherStepsLeft' \in Nat
    <3>1. TypeInv'
      BY <1>2, TypeStep
    <3>2. Len(queue') \in Nat
      BY <3>1, LenProperties DEF TypeInv, TypeOK, MuteTypeOK
    <3> QED BY <3>1, <3>2 DEF TypeInv, TypeOK, WatcherStepsLeft, StepsToDrain
  <2>4. CASE Watcher
    <3>1. WatcherStepsLeft' < WatcherStepsLeft
      BY <2>1, <2>4, WatcherAdvances DEF Watcher
    <3> QED BY <2>2, <2>3, <3>1
  <2>5. CASE UNCHANGED muteVars
    <3>1. WatcherStepsLeft' = WatcherStepsLeft
      BY <2>5 DEF muteVars, watcher, bus, WatcherStepsLeft, StepsToDrain
    <3>2. ~Watcher
      BY <2>1, <2>2, <3>1, WatcherAdvances DEF Watcher
    <3> QED BY <2>2, <3>1, <3>2
  <2>6. CASE MuteEnvironment
    <3>1. WatcherStepsLeft' <= WatcherStepsLeft + (IF signals' = signals THEN 0 ELSE 4)
      BY <2>1, <2>6, EnvironmentAdds
    <3>2. Watcher => WatcherStepsLeft' < WatcherStepsLeft
      BY <2>1, WatcherAdvances DEF Watcher
    <3> QED BY <2>2, <3>1, <3>2
  <2>7. Watcher \/ UNCHANGED muteVars \/ MuteEnvironment
    <3>1. lpc # "idle" /\ lpc # "created" /\ lpc # "stopped" /\ lpc' # "stopped"
      BY <1>2
    <3> QED BY <1>2, <3>1 DEF Next, aap_create_session, StartThreads, aap_destroy_session,
            JoinThreads, RealDestroy, Activator, Environment, vars
  <2> QED BY <2>4, <2>5, <2>6, <2>7
<1>3. TypeInv /\ Stopping /\ [Next]_vars =>
        [lpc = "join" /\ lpc' = "join" => Bounded]_vars
  BY <1>2
<1>4. Spec => []Stopping
  BY <1>1, StoppingStep, PTL DEF Spec
<1>5. Spec => []TypeInv
  BY TypeInit, TypeStep, PTL DEF Spec
<1> QED BY <1>3, <1>4, <1>5, PTL DEF Spec
=============================================================================

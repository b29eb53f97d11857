----------------------------- MODULE PlayPause -----------------------------
(***************************************************************************)
(* blmjciaapa/playpause/playpause.cpp: the watcher thread that pauses the  *)
(* phone when the car is muted and resumes what it paused, and the hook    *)
(* that keeps the head unit's own PLAY keys from the phone.                *)
(*                                                                         *)
(* Around it: the bus (signals of the user mute, lost while the watcher is *)
(* not subscribed, and connections that break), the SDK, which may reject  *)
(* a key, the OEM's key thread, and the phone with its user.  The watcher  *)
(* is started and stopped by AapSession.                                   *)
(***************************************************************************)
EXTENDS Naturals, Sequences

CONSTANTS MaxSignals, MaxRejects, MaxDrops   \* mute signals, rejected keys, bus failures

ASSUME MuteBounds == {MaxSignals, MaxRejects, MaxDrops} \subseteq Nat

Keys == {"PLAY", "PAUSE"}
Values == {"on", "off", "other"}     \* EntertainmentMuteStatus: 2, 1, anything else

VARIABLES
    blockPlay,                  \* block_headunit_media_play
    threadUp, stopFd,           \* g_thread_up; g_stop_fd: "none", "quiet" or "raised"
    wpc, key, downOk,           \* the watcher and the key it is sending
    wePaused, exempt,           \* g_we_paused; g_allow_module_media_play by thread
    conn, queue,                \* its connection, and the signals in it
    muted, signals, drops,      \* the car and the bus
    playing, focus, rejects,    \* the phone, the audio focus, the SDK
    pausedHere, startedBy       \* history: an own PAUSE of this connection is
                                \* not yet answered; what last started the phone

bus     == <<conn, queue, muted, signals, drops>>
media   == <<playing, focus, rejects, startedBy>>
watcher == <<wpc, key, downOk, wePaused, exempt>>
muteVars == <<blockPlay, threadUp, stopFd, watcher, bus, media, pausedHere>>

Threads == {"watcher", "oem"}

MuteInit ==
    /\ threadUp = FALSE /\ stopFd = "none"
    /\ wpc = "none" /\ key = "PLAY" /\ downOk = FALSE
    /\ wePaused = FALSE /\ exempt = [t \in Threads |-> FALSE]
    /\ conn = "none" /\ queue = <<>>
    /\ muted = FALSE /\ signals = 0 /\ drops = 0
    /\ playing \in BOOLEAN /\ focus \in BOOLEAN /\ rejects = 0
    /\ pausedHere = FALSE /\ startedBy = "phone"

-----------------------------------------------------------------------------
(* Start and stop, called under g_session_mu.                              *)

playpause_post_aap_create_session(fdOk, spawned) ==
    IF threadUp THEN UNCHANGED muteVars
    ELSE /\ wePaused' = FALSE
         /\ threadUp' = (fdOk /\ spawned)
         /\ stopFd' = IF fdOk /\ spawned THEN "quiet" ELSE "none"
         /\ wpc' = IF fdOk /\ spawned THEN "check" ELSE "none"
         /\ UNCHANGED <<blockPlay, key, downOk, exempt, bus, media, pausedHere>>

SignalStop ==
    /\ threadUp /\ stopFd' = "raised"
    /\ UNCHANGED <<blockPlay, threadUp, watcher, bus, media, pausedHere>>

JoinWatcher ==
    /\ wpc = "done" /\ wpc' = "none"
    /\ threadUp' = FALSE /\ wePaused' = FALSE /\ stopFd' = "none"
    /\ UNCHANGED <<blockPlay, key, downOk, exempt, bus, media, pausedHere>>

-----------------------------------------------------------------------------
(* Keys to the phone.                                                      *)

(* Mutant: the exemption is one flag for the process.                      *)
FilteredUnlessAnyExempt(t, k) == blockPlay /\ k = "PLAY" /\ \A u \in Threads : ~exempt[u]

Filtered(t, k) == blockPlay /\ k = "PLAY" /\ ~exempt[t]

Cause(t) == IF t = "oem" THEN "stock" ELSE IF pausedHere THEN "resume" ELSE "unasked"

(* aap_send_key_input for a press: a filtered key is reported as accepted; *)
(* the phone acts on the press.                                            *)
aap_send_key_input(t, k, accepted) ==
    LET reaches == accepted /\ ~Filtered(t, k)
    IN  /\ ~accepted => rejects < MaxRejects
        /\ rejects' = IF accepted THEN rejects ELSE rejects + 1
        /\ playing' = IF reaches THEN k = "PLAY" ELSE playing
        /\ startedBy' = IF reaches /\ k = "PLAY" THEN Cause(t) ELSE startedBy
        /\ UNCHANGED focus

(* A key of the steering wheel or of the OEM's own logic.                  *)
StockKey(k) ==
    /\ aap_send_key_input("oem", k, TRUE)
    /\ UNCHANGED <<blockPlay, threadUp, stopFd, watcher, bus, pausedHere>>

(* The phone's user, and the audio source of the car.                      *)
PhoneUser ==
    /\ playing' = ~playing
    /\ startedBy' = IF playing THEN startedBy ELSE "phone"
    /\ UNCHANGED <<blockPlay, threadUp, stopFd, watcher, bus, focus, rejects, pausedHere>>

SourceChange ==
    /\ focus' = ~focus
    /\ UNCHANGED <<blockPlay, threadUp, stopFd, watcher, bus, playing, rejects, startedBy,
                   pausedHere>>

(* A mute signal reaches the watcher only while it is subscribed.          *)
MuteSignal(v) ==
    /\ signals < MaxSignals /\ signals' = signals + 1
    /\ muted' = IF v = "other" THEN muted ELSE v = "on"
    /\ queue' = IF conn = "subscribed" THEN Append(queue, v) ELSE queue
    /\ UNCHANGED <<blockPlay, threadUp, stopFd, watcher, conn, drops, media, pausedHere>>

BusBreaks ==
    /\ conn \in {"asked", "subscribed"} /\ drops < MaxDrops
    /\ conn' = "lost" /\ drops' = drops + 1
    /\ UNCHANGED <<blockPlay, threadUp, stopFd, watcher, queue, muted, signals, media,
                   pausedHere>>

-----------------------------------------------------------------------------
(* watcher_main                                                            *)

stop_requested == stopFd = "raised"

(* Mutant: the latch survives a reconnection.                              *)
KeepsLatch ==
    /\ wpc' = IF stop_requested THEN "done" ELSE "connect"
    /\ UNCHANGED wePaused

ForgetsLatch ==
    /\ wpc' = IF stop_requested THEN "done" ELSE "connect"
    /\ wePaused' = IF stop_requested THEN wePaused ELSE FALSE

WatcherCheck ==
    /\ wpc = "check"
    /\ ForgetsLatch
    /\ pausedHere' = IF stop_requested THEN pausedHere ELSE FALSE
    /\ UNCHANGED <<blockPlay, threadUp, stopFd, key, downOk, exempt, bus, media>>

setup_connection(ok) ==
    /\ wpc = "connect"
    /\ ~ok => drops < MaxDrops
    /\ drops' = IF ok THEN drops ELSE drops + 1
    /\ conn' = IF ok THEN "asked" ELSE "none"
    /\ wpc' = IF ok THEN "drain" ELSE "backoff"
    /\ UNCHANGED <<blockPlay, threadUp, stopFd, key, downOk, wePaused, exempt, queue, muted,
                   signals, media, pausedHere>>

(* on_mute_changed, up to the key it sends.                                *)
handle_message(v) ==
    LET pause  == v = "on" /\ ~wePaused /\ playing /\ focus
        resume == v = "off" /\ wePaused /\ focus
    IN  /\ wpc' = IF pause \/ resume THEN "press" ELSE "drain"
        /\ key' = IF pause THEN "PAUSE" ELSE "PLAY"
        /\ wePaused' = IF v = "off" /\ ~focus THEN FALSE ELSE wePaused

drain_messages ==
    /\ wpc = "drain" /\ queue # <<>>
    /\ queue' = Tail(queue)
    /\ handle_message(Head(queue))
    /\ UNCHANGED <<blockPlay, threadUp, stopFd, downOk, exempt, conn, muted, signals, drops,
                   media, pausedHere>>

Drained ==
    /\ wpc = "drain" /\ queue = <<>>
    /\ wpc' = IF conn = "lost" THEN "close" ELSE "poll"
    /\ UNCHANGED <<blockPlay, threadUp, stopFd, key, downOk, wePaused, exempt, bus, media,
                   pausedHere>>

(* send_media_key: press and release, the exemption around both.           *)
PressKey ==
    /\ wpc = "press" /\ wpc' = "down"
    /\ exempt' = [exempt EXCEPT !["watcher"] = (key = "PLAY")]
    /\ UNCHANGED <<blockPlay, threadUp, stopFd, key, downOk, wePaused, bus, media, pausedHere>>

SendDown(ok) ==
    /\ wpc = "down" /\ wpc' = "up"
    /\ downOk' = ok
    /\ aap_send_key_input("watcher", key, ok)
    /\ pausedHere' = IF key = "PAUSE" /\ ok THEN TRUE ELSE pausedHere
    /\ UNCHANGED <<blockPlay, threadUp, stopFd, key, wePaused, exempt, bus>>

(* The latch follows a key of which both halves were accepted.             *)
SendUp(ok) ==
    /\ wpc = "up" /\ wpc' = "drain"
    /\ ~ok => rejects < MaxRejects
    /\ rejects' = IF ok THEN rejects ELSE rejects + 1
    /\ wePaused' = IF downOk /\ ok THEN key = "PAUSE" ELSE wePaused
    /\ pausedHere' = IF downOk /\ ok /\ key = "PLAY" THEN FALSE ELSE pausedHere
    /\ exempt' = [exempt EXCEPT !["watcher"] = FALSE]
    /\ downOk' = FALSE /\ key' = "PLAY"            \* locals, dead from here
    /\ UNCHANGED <<blockPlay, threadUp, stopFd, bus, playing, focus, startedBy>>

(* Mutant: the stop eventfd is not in the poll set.                        *)
PollBusOnly(fail) ==
    /\ queue # <<>> \/ conn \in {"asked", "lost"} \/ fail
    /\ wpc' = IF fail THEN "close" ELSE "drain"
    /\ conn' = IF conn = "asked" THEN "subscribed" ELSE conn

(* One turn of the loop: the stop check, then a poll without timeout; the  *)
(* pending AddMatch is written by it.  `fail': poll or a watch failed.     *)
PollReady(fail) ==
    /\ queue # <<>> \/ conn \in {"asked", "lost"} \/ fail \/ stop_requested
    /\ wpc' = IF fail \/ stop_requested THEN "close" ELSE "drain"
    /\ conn' = IF conn = "asked" /\ ~stop_requested THEN "subscribed" ELSE conn

run_watch_loop(fail) ==
    /\ wpc = "poll"
    /\ fail => drops < MaxDrops
    /\ drops' = IF fail THEN drops + 1 ELSE drops
    /\ PollReady(fail)
    /\ UNCHANGED <<blockPlay, threadUp, stopFd, key, downOk, wePaused, exempt, queue, muted,
                   signals, media, pausedHere>>

teardown_connection ==
    /\ wpc = "close" /\ wpc' = "backoff"
    /\ conn' = "none" /\ queue' = <<>>
    /\ UNCHANGED <<blockPlay, threadUp, stopFd, key, downOk, wePaused, exempt, muted, signals,
                   drops, media, pausedHere>>

(* wait_stop: the delay, or at once when the stop is signalled.            *)
Backoff ==
    /\ wpc = "backoff"
    /\ wpc' = IF stop_requested THEN "done" ELSE "check"
    /\ UNCHANGED <<blockPlay, threadUp, stopFd, key, downOk, wePaused, exempt, bus, media,
                   pausedHere>>

-----------------------------------------------------------------------------
WatcherStep ==
    \/ WatcherCheck \/ drain_messages \/ Drained \/ PressKey \/ teardown_connection \/ Backoff
    \/ \E ok \in BOOLEAN :
          setup_connection(ok) \/ SendDown(ok) \/ SendUp(ok) \/ run_watch_loop(ok)

MuteEnvironment ==
    \/ \E k \in Keys : StockKey(k)
    \/ \E v \in Values : MuteSignal(v)
    \/ PhoneUser \/ SourceChange \/ BusBreaks

MuteTypeOK ==
    /\ blockPlay \in BOOLEAN /\ threadUp \in BOOLEAN
    /\ stopFd \in {"none", "quiet", "raised"}
    /\ wpc \in {"none", "check", "connect", "drain", "press", "down", "up", "poll", "close",
                "backoff", "done"}
    /\ key \in Keys /\ downOk \in BOOLEAN /\ wePaused \in BOOLEAN
    /\ exempt \in [Threads -> BOOLEAN]
    /\ conn \in {"none", "asked", "subscribed", "lost"} /\ queue \in Seq(Values)
    /\ muted \in BOOLEAN /\ signals \in 0..MaxSignals /\ drops \in 0..MaxDrops
    /\ playing \in BOOLEAN /\ focus \in BOOLEAN /\ rejects \in 0..MaxRejects
    /\ pausedHere \in BOOLEAN
    /\ startedBy \in {"phone", "stock", "resume", "unasked"}
    /\ threadUp <=> stopFd # "none"
    /\ threadUp <=> wpc # "none"
=============================================================================

# A TLA+ model of oem-aa-mod

The repository patches a Mazda head unit by preloading shared libraries into
four vendor processes. The patches bring Android Auto and CarPlay guidance to the
head-up display (HUD), pass multi-touch through to the phone, pair Android Auto
over Bluetooth and pause the phone's media on a mute. This directory holds
TLA+ modules translated from that code, TLC configurations that check them on
small instances, and proofs that TLAPS checks for every instance.

Paths below are relative to `src/mazda/patches/`.

## 1. Inventory

| Component | State | Operations | Interacts with |
|---|---|---|---|
| Direct HUD transport `blmjciaapa/hud/vbs_tx.cpp` | snapshot under a seqlock, `g_active`, `g_stop`, bus connection, presence flag; the sender's `prev`, sync generation, last number | start, stop, four producer calls, set-up, read-diff-send-wait loop, teardown, presence reply | fed by the HUD feed, started and stopped by the lifecycle shims, sends to the vendor bus library |
| svcnavi HUD transport `blmjciaapa/hud/svcnavi_tx.cpp` | the same, without the diff | the same; every fresh snapshot becomes one signal marked with a sentinel speed | the navigation service, where the splice hooks see it |
| Splice hooks `svcjcinavi/merge.cpp` | ownership, captured maneuver and street, last built-in speed, action for the next strip | maneuver hook, street hook, one-time gate | the navigation service's single sender thread |
| HUD feed `blmjciaapa/hud/hud.cpp`, `hud_nav.h` | 1.6 accumulator and last emitted state | 1.5 callback, 1.6 guidance/position/status, session hooks | SDK callback thread, 1.6 receiver, a transport |
| 1.6 decoder `hud_nav16.cpp`, receiver `nav16_rx.cpp` | sink, "seen" flag, receiver socket and thread | feed a frame, start, stop | `aap_service` relay, HUD feed |
| Lane encoding `hud_lane.h` | none | shape and direction tables | HUD feed |
| Lifecycle shims `blmjciaapa/lifecycle.cpp` | session mutex, resolved symbols | create and destroy session | every per-session component |
| Touch `blmjciaapa/touch/` | reader thread and stop descriptor; slots, previous frame | session start and stop, open with retries, evdev frames, overflow, events to the phone | panel, SDK |
| Media bridge `blmjciaapa/playpause/` | pause latch, watch connection, key tracking | mute signals, key filter, session start and stop | vendor bus, SDK |
| Bluetooth pairing `blmjciaapa/bt16pair/` | activator state | status callback, detached activator | SDK callback thread |
| `aap_service` relay and audio | hook, PCM handle table | route a message, open/configure/close PCM | receiver in the other process, ALSA |
| CarPlay `blmjcicarplay/` | window of maneuvers and list head; snapshot, clear flags, the sender's `prev` and limit | device-manager messages, status callbacks, sender loop, ticker | OEM receive thread, HMI worker, vendor bus, the limit file of another process |

What is hard in this code:

* **Threads without a common lock.** Producer and sender share only a sequence
  lock and atomics; the condition variable's mutex is taken by the sender alone.
* **Asynchronous replies and failures.** The presence probe, failed bus calls,
  refused SDK calls and lost focus can fall between any two steps.
* **Session boundaries.** File-scope state outlives a session; threads' locals do not.
* **Two streams on one display.** The splice must hold for every order of frames,
  for a crashed peer and a wall clock that jumps.
* **Change-only streams.** The touch panel reports differences, so a reader that
  missed something interprets later events against the wrong state.

`PROJECT.json` lists the hazards with their source lines and the properties that cover them.

## 2. Modules

### VbsTx: the direct HUD transport

| Code | Model |
|---|---|
| `g_snapshot`, `g_seq`, `g_active`, `g_stop`, `g_conn`, `g_hud_absent` | variables of the same names; `g_conn` is `"null"` or `"up"` |
| `NaviSnapshot` | a function from `road`, `icon`, `dist`, `lanes` to abstract values with a `Zero` |
| `g_sender_thread_up` and the thread | `up`, `pc`; its locals `s1`, `snap`, `prev`, `sync`, `last` |
| `vbs_tx_status/next_turn/distance/lanes` | `Produce(call, target)`: the set of fields the call writes and their new values; then `seqlock_begin`, one `WriteField` per field, `seqlock_end`, `ProduceNotify` |
| `sender_setup`, `sender_main`, `send_one`, `sender_teardown` | one action per step another thread could observe |
| the OEM setters and the HUD | `hud`, updated by the calls that succeed, and `missed`, the channels whose last frame did not arrive |

The steps are chosen at the granularity at which the threads can interfere: each
load or store of a shared variable, each field of the copy, the notification, and
the gap between the wait predicate and joining the wait queue. The target is
ARMv7, where the acquire-release increments of `g_seq` and the fence after the
copy are full barriers, so field accesses move freely between them but not
across them; `FieldOrder` says how freely (the proofs allow any order). `g_seq`
is unbounded: 2^32 half-updates are out of reach of a drive. Calls that find
`g_active` false return without effect and are not steps. One producer thread
feeds the transport in a session, which `Nav16Feed` checks (`OneWriter`).

`LatestView` is the abstract specification: a log of published snapshots and a
consumer that moves forward through it, skipping some, and starts over with each
session. `VbsTx` implements it with `log <- pub`, `view <- last \div 2`, `shown <- prev`.

### HudMerge: the splice hooks

The maneuver hook is `SetHUDDisplayMsgReq`, whose three paths are `PassFrame`,
`AapFrame` and `OemFrame`; the street hook is `SetHUD_Display_Msg2`;
`ensure_gate` picks what the process turns out to be on the first call. Maneuver,
distance and unit are one value, copied as a whole in the code; only "maneuver is 0"
is told apart. `age` is `time(nullptr) - g_aap_last`, saturated just above the
timeout, because only the comparison with the timeout is used. The caller (the
vendor's sender thread) is external: it sends generations of a maneuver frame and
its strip back to back. It never passes a NULL frame, so that early return is not
exercised. A market that blanks the outbound street is a choice of the initial state.

### Touch: touch passthrough

`SYN_REPORT(q)` is one frame: the panel goes from `panel` to `q`, the reader turns
the reported differences into `cur` (`Target`, `Tracked`), and `touch_on_frame`
queues the events (`Events`), which `send_event` sends one at a time, each of
which may fail. `SYN_DROPPED` is the queue overflow, `Unread` a frame while no
reader is open. The panel's reporting rules (differences only, slot announced on
change) and the phone's (`Received`) are external. Contacts get increasing ids, as
the kernel gives them. x and y take the same path and are one coordinate. Two history
variables say how far the reader can be right: `missed`, what it did not see (touches before it
opened the device, or only those lost in an overflow), and `aligned`, whether the slot it had
in mind when it last started from empty slots was the one the panel had announced.

`FingerStream` is what the path promises the phone: frames of fingers are reported one by one, and
a phone in step is taken from one frame to the next before another is reported, by lifts, then
landings, one finger an event; fingers that stay are where the frame has them and nobody lifts and
lands again. A phone that missed an event is in step again when a gesture starts or ends. `Touch`
implements it with `frame <- FrameSent` (the pointers of `g_prev` while the thread lives),
`known <- phone`, `good <- synced` and `pending <- (todo # <<>>)`.

### Nav16Feed: guidance from the phone to the bus

One module composes the parts a frame passes through.

| Code | Model |
|---|---|
| start-up of `aap_service/navi/navi.cpp` | `use16` (the configuration key) and `hooked`; `Protocols` are those the phone may then choose |
| `hook_routeMessage`, `relay_frame` | `routeMessage(f)`: a swallowed frame goes to `queue` or is lost, any other comes back as a callback |
| `our_nav_cb` | the test of the seen flag (`our_nav_cb`) and, later, the transport call (`CallbackCall`) |
| `rx_main`, `hud_nav16_feed`, the `nav16_on_*` callbacks | `rpc`: one step per poll and per frame, then one per transport call (`EmitTurn`, `EmitDistance`, `EmitLanes`, `EmitClear`) |
| `g_nav16_acc`, `g_nav16_last`, `g_nav16_have_last` | `acc`, `last`, `haveLast` |
| `svcnavi_tx.cpp`, the default transport | `active`, `tstop`, `snap`, `pending`, `tpc`; `shown` is the last signal |
| the session hooks of `hud.cpp` | `lpc`, in the order of the code |

A transport call is atomic, because `VbsTx` shows of the same seqlock that a sender
works from whole snapshots; the gap between the sender's predicate and its wait is kept.
`g_seq` is only compared with `last_processed`: `pending` is the outcome. A maneuver is glyph and
street together, since the code compares both. Frames with the same effect are one kind.
`Reference` states what a list of frames means without an accumulator: the guidance since the
last end, with the last distance since its maneuver appeared.

### CpHud: CarPlay guidance on the HUD

| Code | Model |
|---|---|
| `nav.cpp`: `g_buf`, `g_prev_idx`, `g_last_head`, the `g_emit_*` fields, `g_nav_reset_req` | `buf`, `prevIdx`, `head`, `emitted`, `resetReq` |
| `nav_on_devmgr_msg` | one step up to its calls into the sender's file, then one step per call: `hud_on_status`, `hud_on_next_turn`, `TurnIsLive` (the flag stored after the snapshot), `hud_on_distance` |
| `arm_navi`, `cp_tbt_entity_cb`, `cp_deactive_cb` of `devmgr_shim.cpp` | actions of the same names |
| `sender_main` | `spc`: read, send, take the clear flags, wipe, store the results of the wipe one by one, look at the tick, evaluate the predicate, queue |
| `send_one`, `send_clear` | `Push`: a maneuver frame and a strip; both arrive, or the first only, or none |
| `/data_persist/splim`, `splim_over` | `limit`, `over`, written at any time |

What is left out, and why it does no harm:

* A publication is one step, because `VbsTx` shows the same seqlock to hand over whole
  snapshots. `g_seq` and `g_splim_tick` are only compared, so `behind`, `fresh`, `moved` and
  `ticked` are the outcomes of these comparisons.
* Both clear flags are taken in one step: a request between the two exchanges has the effect of
  one just before or just after.
* A failed subscription means that the callbacks never come, which is a behaviour of the model
  anyway. `armed` says that `arm_navi` has nothing left to do. A probe that answers "present"
  changes nothing.
* `hud_send_stop` has no caller, so neither the stop nor the wind-down behind it is modelled.
* `limit` is what `read_splim` returns: no limit stands for a file that is missing, implausible or
  older than eight seconds. That a posting ages is therefore a change of `limit` at any time.
* A maneuver is glyph and street together; the over-speed flag without a limit has no effect and
  is not written.

### AapSession, PlayPause, Bt16Pair: the session and two of its parts

`AapSession` extends the other two and is the only one with a specification.

| Code | Model |
|---|---|
| `lifecycle.cpp` | `aap_create_session` (gate, hook, real call), `StartThreads` (the section under `g_session_mu`), `aap_destroy_session`, `JoinThreads`, `RealDestroy` |
| `watcher_main`, `run_watch_loop`, `drain_messages`, `send_media_key` | `wpc`; press and release of a key are separate steps, since a key of the OEM may come between them |
| `g_we_paused`, `g_allow_module_media_play` (thread-local) | `wePaused`, `exempt` by thread |
| the connection and its queue | `conn` (`asked`: the match rule is not yet on the wire) and `queue` |
| `g_orig_proj_cb`, the slot of the table, `g_activator_running` | `orig`, `slot`, `guard` |
| `activator_thread` | `apc`, `tries`; reading the mode and acting on it are separate steps |

The phone, its user, the audio source, the mute signal and the OEM's connection manager are
external. Focus and mode 3 are one value, since the activator treats them alike; a missing
connection manager is mode 0, since it goes on polling. `pausedHere` and `startedBy` are
history variables: whether the module's own pause of this connection is unanswered, and what
last started the phone. The OEM calls create and destroy from one thread.

### HudCodes: lane codes and glyphs

Pure functions over one variable, the input: a lane that grows direction by direction, as
`dec_lane_direction` builds it, or a turn as each of the three protocols reports it. The
references they are checked against are written from other lines than the functions: the
meaning of a lane code from the enumeration's comments (`Combos`, `Takes`), the meaning of a
turn code from the names the sources give the codes (`Meaning`), the nearest glyph from the
distance between two bearings (`NearestIn`).

## 3. Runs

| Run | Bounds | Shows |
|---|---|---|
| `vbs_safety` | two values per field, 2 updates, 2 sessions | no torn snapshot, HUD follows, generations paired, cleared after stop, connection owned, refinement of `LatestView` |
| `vbs_liveness` | 2 updates, 1 session | stop returns and updates are delivered unless the notification falls into the gap before the wait |
| `vbs_stop` (violation) | 1 update, 1 session | the gap: a stop can hang |
| `merge` | 3 blocks, 2 speeds, 2 streets, 1 clock jump, 1 crash | no flicker, right street and speed, native frames when idle, hand-back after a crash |
| `touch` | 2 slots, 3 contacts, 2 coordinates, 2 sessions, 2 open attempts | refinement of `FingerStream` (the phone follows the frames), reader follows the panel, no ghost finger while the slot in mind is the announced one, stop returns |
| `touch_overflow` (violation) | 3 slots, 3 contacts, 1 session | a finger that stays down after an overflow |
| `feed` | 3 frames, 2 sessions, a socket of 1, two values per part | frames add up to the snapshot and the signal, one writer, receiver ends before the transport and always ends |
| `feed_dark` (violation) | 1 frame, 1 session | a 1.5 phone behind the installed hook |
| `cp_safety` | 4 messages of 4 kinds, indices to 2, a window of 2, 1 end report | the turn shown is the one the list head names; a restarted route is published again |
| `cp_liveness` | 2 messages of 2 kinds, 1 end report, 1 failed send | a clear is carried out, no maneuver beside the sign, the sign follows the limit while the session lasts |
| `session` | 2 creations, 3 mute signals, 1 rejected key, 1 bus failure; 3 SETUP events, 2 polls | own pauses only, latch taken back, destroy returns, a stuck link is activated |
| `codes` | all lanes, all codes, angles -400..400 | lanes faithful, one glyph per turn, nearest exit |

Why the bounds suffice: a torn copy needs one write to overlap one read, and a
second update to hide behind the first; two sessions show everything that
survives a session; one non-zero value per field tells old from new. Two blocks tell
the latest maneuver from an earlier one. Two slots give every mix of landing,
lifting, replacing and surviving in one frame, and a third contact allows a
replacement next to a survivor; the proofs hold for any number of slots, and the one property
that three slots break and two do not is the one `touch_overflow` refutes. Three frames give guidance, distance and a changed or ended
guidance; a socket of one already holds a frame while another is handled, and drops. Two
list positions and a restarting entry give a head that is in the window, not yet in it and next to it;
with `MaxClears = 2` the liveness run passes as well (526,000 states). Three mute signals are a
mute, its end and a repetition. The pairing and the mute bridge share only the lifecycle, so
`session` runs one or the other. `codes` is exhaustive but for the angles. Deadlock checking is off where the system may rest
(no session and no budget left); the splice hooks never rest, and there it is on.

**Fairness.** In `VbsTx` the sender, a producer call under way and the stopping
thread are scheduled; nothing is assumed of the phone, the probe's reply, spurious
wake-ups or when start and stop are called. In `HudMerge` time passes, the sender
thread runs and the built-in navigation repeats its speed frames, as the header of
`merge.cpp` describes. In `Touch` the reader and the joining thread are scheduled, in `Nav16Feed` the receiver and
the joining thread. In `CpHud` the sender, a message being handled and the ticker run;
nothing is assumed of messages, callbacks and files, and `NavOffClears` and `SignFollows` ask for a
ticker that came up. In `AapSession` the watcher and the activator run and a call of create or
destroy that has begun goes on.

## 4. Findings

* `vbs_stop`: `g_stop` and `g_seq` change and `g_cv` is notified without `g_cv_mu`.
  A stop between the sender's predicate and its wait wakes nobody, and `pthread_join`
  in `vbs_tx_stop` hangs until some other notification. The comment at
  `vbs_tx.cpp:430-433` says the predicated wait closes this window.
* `feed_dark`: once the hook is in, it swallows the 1.5 events as well, and the first one sets
  the seen flag. A phone that stays at 1.5 gets a dark HUD, where `nav16_rx.h:33-39` promises
  the 1.5 path.
* `touch_overflow`: after an overflow the slots are blanked, but the reader keeps the slot it has in
  mind, and the kernel announces a slot only when it differs from the last one announced. Fingers
  that land during the overflow leave another slot announced; the next contact in that slot is
  put into the wrong one, its lift goes to the right one, and a finger stays down on an empty panel,
  where `touch.cpp:239-242` says that the next genuine touch re-establishes the state. A reader
  opened after another slot was announced is in the same position. It takes a third slot: with two,
  TLC finds nothing, and the attempt to prove it for any number showed the case. `NoGhostFinger`
  says what does hold.

Met while modelling, without a run of their own:

* `vbs_tx.cpp:94,407`: the snapshot survives a session while `last_processed` restarts at 0, so a
  new session first shows the last maneuver of the one before.
* `hud.cpp:626`: the change gate records as fed what the transport dropped before its sender was active,
  so the phone's repetition of it is not shown until some field changes; line 593 calls the record
  the "last frame fed to the transport". `KeptBackIsShown` says what holds otherwise.
* `touch_send.cpp:266`: two fingers that lift in one frame give two UP events, the first with
  two pointers down, against `oem/blmjciaapa.h:50`. `FingerStreamSpec` holds all the same.
* `hud_send.cpp:664-711`: a wipe whose frames fail is not repeated, although the comment at
  464-465 says the caller can retry; the comments at `devmgr_shim.cpp:142-143,166` still count on a
  staleness timer that 458-460 says is gone. Hence the `fails` in `NavOffClears` and `SignFollows`.
* `hud_send.cpp:688`: the end of a session does not take the speed-limit sign off. The comments at
  222-223, 675-676 and 684 and at `devmgr_shim.cpp:155` contrast it with the end of navigation, which
  keeps the sign: here everything goes, "incl sign". The wipe does blank the sign, but it also sets
  `prev_splim` to 0, and nothing keeps the ticker from reading the limit again: while it is still
  posted, and `read_splim` counts it for eight seconds after the last posting, the next tick finds
  it changed (626) and paints it, and the keep-alive repeats it. Stated as "after `cp_deactive_cb`,
  with a limit that stays posted and no further message, the sign is dark in the end", TLC refutes
  it within seconds: full wipe, tick, the sign is back and stays for as long as the limit is posted.
  `SignFollows` therefore speaks only of behaviours without the end of a session.
* `hud_send.cpp:689`: a distance that arrives after a clear paints the old maneuver again when the
  speed limit is not shown. `NoTurnBesideSign` speaks of the configuration that shows it.
* `playpause.cpp:377`: someone who resumes and pauses again while muted finds the phone playing
  after the unmute: the latch knows of the module's pause only. A pause whose release is rejected
  does not set the latch, and is not taken back.
* `bt16pair.cpp:84-85` says a double activation is prevented; a pairing that arrives between the
  poll and the activation is activated twice. A SETUP that meets an activator on its way out is
  turned away.
* `lifecycle.cpp` calls the projection callback slot 4; it is slot 3 (`bt16pair.cpp:30`).
* `hud_nav.h:116`: the 1.5 roundabout arithmetic is not reduced modulo 12, so exits from 345 degrees
  get the number after the bank's last. `NearestExit` asks it up to 344 degrees only.
* `hud_lane.h:287`: a lane with several highlights and no combined code may be drawn as an
  arrow that is not highlighted. `LaneFaithful` singles out a direction only if one is highlighted.

## 5. Proofs

`VbsTxProofs` proves all safety properties of `VbsTx` for every set of values, every
order of field accesses and every bound, from the assumptions named in the module:
`Zero` is a value, the bounds are naturals, `FieldOrder` relates fields.

* `TypeCorrect`: `TypeOK` is inductive.
* `SeqlockSound`: `SnapshotIntact` is not inductive, as it speaks of the moment of
  sending only. `SeqInv` adds that `g_seq` is twice the number of publications, plus one
  exactly while fields are written (`SeqCounts`), that otherwise memory holds the latest
  publication, that a read in progress started from an even number, and that as long as
  this number is current every copied field equals memory (`ReadSoFar`). A writer makes
  the number odd first, so the last part is vacuous while it writes. Most actions touch
  none of this (`Quiet`).
* `ImplementsLatestView`: step simulation under `SeqInv`; `Progress` gives that a send
  moves the view forward.
* `ConnectionSafe`: with "the thread exists iff `up`".
* `HudFollows`, `HudCleared`, `SyncFollows`: `HudInv` says that every part of the HUD that
  missed no frame equals `prev` (`HudIsPrev`), that `prev` is blank outside a session
  (`PrevBlank`), and that such a part carries the current generation (`SyncKept`). That a
  lane array not re-sent with a new generation is hidden follows from `HudIsPrev`.
  `HudFollows` also needs `SeqInv`: if the last number processed is the current one,
  `prev` is the snapshot in memory.
* `OnlyLostWakeup`, `AwakeStopIsBounded`: from before the notification of a stop the flag is set
  (`Stopping`), and with it the predicate sends nobody to sleep; so the notification, which reaches
  every sleeper, misses only a sender between predicate and wait. That is the finding of `vbs_stop`,
  and there is no other way to be left asleep. A sender awake has `SenderStepsLeft`, which counts
  its place and the fields still to copy, and which every step of its own lowers. An update
  that overtakes a copy costs that copy again, and the theorem says so: without that term
  there is no bound, because the retry of the seqlock has none.

`HudMergeProofs` proves the safety properties of `HudMerge` for every set of blocks, speeds and
streets, every timeout and every number of clock settings and crashes, from the assumptions that
the absent speed, street and block are among the values and the sentinel is not a built-in speed.

* `TypeCorrect`: needs only that the sentinel is never remembered as a speed.
* `NeverFlickers` (`SteadyGuidance`), `SpeedIsNative` (`SteadySpeed`), `IdleIsNative`
  (`NativeWhenIdle`): none is inductive, since each speaks of what is displayed and says nothing of
  what the hooks remember for the next frame. `MergeInv` adds that the memory is the history
  (`Memory`: ownership, captured maneuver, last speed, and that only a lapse ends an ownership
  nobody gave up), that the strip still due will show or capture the right street
  (`OwnedGuidance`, `IdleGuidance`), and that nothing is known before the first frame or outside
  the navigation service (`Outside`).

`Nav16FeedProofs` proves the safety properties of `Nav16Feed` for every set of values and frames
and every bound, from the assumption that the phone's frames are among those the ids name.

* `SingleWriter`: by `OnePath`, with the hook in place nothing ever comes back as a callback,
  and without it nothing reaches the socket.
* `ReceiverInside`: by `Bracketed`, a receiver lives between its start and its join, and the
  transport's stop flag is clear from its own start until after that join.
* `TypeCorrect`; `FeedAddsUp` (`FeedFollows`) and `SignalAddsUp` (`SignalFollows`). What the
  frames mean is defined by looking back over all of them (`Reference`); the lemmas about it say
  what one frame more adds, which is what the handlers do to the accumulator. `FeedInv` then
  says that the accumulator is the reference of the frames heard (`Accumulated`), that what the
  gate remembers was emitted and the parts emitted so far are in the snapshot
  (`Gated`), and that a sender with nothing pending has signalled the snapshot (`Signalled`).
* `KeptBackIsShown`: as long as the transport refused nothing, a frame the change gate keeps back is
  already in the snapshot, that frame included.
* `StopIsBounded`: once told to stop, the receiver has at most six steps left (`RxStepsLeft`), each
  of its own lowers that number, and nobody else raises it.

`CpHudProofs` proves the safety properties of `CpHud` for every set of turns, distances and limits
and every bound, from the assumptions that blank values are values and that the phone's
messages are maneuvers and guidances.

* `TypeCorrect`, the window's size included.
* `DisplayIsImminent` (`ShowsImminent`), `SignStandsAlone` (`NoTurnBesideSign`), `WipeIsForgotten`
  (`RestartReemits`). The properties relate the decoder's list to the display, with the snapshot
  and the sender's record between them; `CpInv` has one part per link: the turn emitted is
  the one the head selects and, unless its publication is under way, the one published
  (`Decoding`); the sender's record is the snapshot or blank once it has caught up, and blank
  without a live route beside the sign (`Reading`); the display shows that record
  except between a wipe and the record of it (`Displaying`); and a decoder that was
  reset takes any selected turn for new (`Reissuing`).

`TouchProofs` proves the safety properties of `Touch` for any number of slots, contacts and
sessions, and any coordinates with 0 among them.

* `EventsAlwaysFit` (`EventsFit`), `PhoneInStep` (`PhoneFollows`, stated beside its proof: the run
  checks it as part of `FingerStream`, which implies it). The heart is what one frame's
  events do, one after another, to a phone that is in step (`Delivered`): `After(p, c, k)` is what
  it knows after the first k events from slots p to c, and there is one lemma per kind of event
  (`UpDelivered`, `DownDelivered`, `MoveDelivered`). These need that a contact is in one slot only
  (`Distinct`), which holds however wrong the reader's slots are, because ids are handed out once
  (`Numbered`); and that the n-th slot of a set exists and the index finds it (`NthMember`, `NthOfRank`).
  `Delivering` says that what is still to be sent is the rest of such a sequence.
* `TypeCorrect`, `ReaderInStep` (`ReaderFollows`), `NoGhosts` (`NoGhostFinger`): by `InStep`, a reader
  that was aligned stays so, because every change then goes to its own slot (`AlignedTarget`).
* `ImplementsFingerStream`: step simulation under `TouchInv`. An event sent or refused is a `Tell`
  (`EventTells`, from `UpLifts`, `DownLands`, `MoveLifts` for a phone in step and `RestartTells` for
  one that is not), a frame is a `Report` (`FrameReports`), the join a `Restart`. It needs that a
  contact that lands was on the panel in no other slot the frame before (`Unseen`), or a finger could
  lift and land again within one frame.
* `StopIsBounded`: a reader told to stop has the events of the frame in hand left, at most two
  per slot (`EventsBounded`), and its exit.

`AapSessionProofs` proves, for every set of configurations and every bound:

* `TypeCorrect`: `TypeInv` adds to the types when each thread exists (`Joined`) and that an activator
  that polls has polls left (`Polls`). `TypeOK` says here that the watcher lives exactly while
  its eventfd is open and that the saved callback is never the wrapper.
* `StartsOnlyOwn` (`StartsOnlyOwnPause`). The property speaks of a start that has happened;
  `OwnPause`, with which it is inductive, says why the next one is allowed: only the watcher is ever
  exempt from the filter, a set latch means an own pause of this connection, a PLAY on its way
  means a set latch, and an accepted PAUSE is an own pause before its release.
* `DestroyIsBounded`: a watcher told to stop handles the signals queued, four steps each, and leaves
  (`WatcherStepsLeft`); only a further signal adds to that.

`HudCodesProofs` proves the invariants of `HudCodes` for every set of integer angles, every turn and
every lane.

* `ExitTheorem` (`NearestExit`): one lemma about rounding to the nearest of twelve sectors. Integer
  division and modulo by constants are linear, which is what puts it within reach.
* `LanesFaithful` (`LaneFaithful`): the code table is compared with the enumeration of directions row
  by row (`ComboRows`, `BaseCode`), then the highlighted codes (`DetailCode`, `DetailDrawn`) and
  the grey glyphs; the invariant it rests on is that a lane's highlights are among its
  directions (`LanesOK`).
* `TurnsFaithful` (`SameTurnSameGlyph`): per protocol, what the glyph drawn for a turn stands for
  (`Drawn15`, `Drawn16`, `DrawnCp`). A glyph with a side stands for one meaning, and its mirror image
  for the same on the other side (`SidedGlyph`), so protocols that mean the same turn draw the same.

Every invariant of the runs above was checked by TLC before it was proved, and so was every
inductive invariant (`MergeInv` on 273,000 states, `CpInv` on 3.2 million, `FeedInv` on 1.6 million,
`TouchInv` on 482,000 with two slots, three contacts and one session). Every invariant of a passing
run and both refinements have a theorem.

Only model-checked is liveness, because fairness and ENABLED are outside the prover's reach:
`StopReturnsUnlessAsleep`, `WakeDelivers`, `HandedBack`, `StopReturns`, `RxStopReturns`, `NavOffClears`,
`SignFollows`, `PauseTakenBack`, `DestroyReturns`, `StuckLinkActivated`. Of the four stops the
safety half is proved: the thread joined has a number of steps left which each of its steps
lowers, and it is stated above what else can move it. What these theorems do not say is that a
thread with steps left can always take one; TLC shows that. The numbers (`...StepsLeft`) are
defined beside their proofs, since they are about the argument and not about the code.

## 6. Not modelled, and assumptions

* `Nav16Feed` takes from the SDK that a callback ends before `aap_destroy_session` returns and
  that callbacks come one at a time, and from the socket that only the relay writes to it.
* That a new arrow can be seen for a moment with the old distance (turn and distance are
  published separately) is listed as a hazard; the properties speak of the idle receiver.
* Distance quantisation and unit tables, the protobuf reader, `SerialID_BufGet`, the retry
  thread of the CarPlay shim, the audio handle table, text, logging, symbol resolution,
  configuration, installer, bench tests: listed in `PROJECT.json` with the reason.
* `hud_lane.h:289` (no code for a single direction) cannot happen and has no case of its own.
* The touch backoff and the 50 ms flush before teardown take no time in the model; they
  delay, they do not decide.

## 7. What is left

1. The audio handle table (`aap_service/audio/audio.cpp`): a full table and reused handles.
2. Distances: quantisation, units and the parsing of decimal figures against a reference.

# Verification of the Compas player

TLA+ models of the player application in `src/src`, model-checked with TLC and,
where it matters most, proved with TLAPS. Paths below are relative to `src/src`;
`audio.c` is `audio/engine/audio.c`, `gui_player.c` is
`ui/player/screen/gui_player.c`. The repository has no tests for this code: its
comments and header files are what the code is compared with.

`PROJECT.json` lists every run, every modelled definition with its source
lines, every hazard and every theorem.

## The system

Compas is the whole user interface and player of a portable music player: one
process with an LVGL screen, one audio worker thread, and a dozen helper threads.

| Part | State it keeps | Operations | Talks to | What is hard |
|---|---|---|---|---|
| **Playback engine** (`audio.c`) | transport flags, generations, the armed successor, trusted counters, tags of the track that starts; the worker's decoders and output | `play_file`, `audio_stop`, pause, seek, `audio_set_next_track*`, crossfade, `audio_loop_start` and `_stop`, event getters, `audio_wait_track_metadata`; the worker `audio_thread_func` | decoders, ALSA output, the UI poll, the metadata worker | two to three threads and one mutex that is released around every slow call; requests that overtake one another |
| **Player queue** (`player_queue_model.c`, `playback_order.h`) | slots, current, queued tracks, shuffle bag, its place and continuation, revision | add, play next, move, remove, select, clear, delete, step, advance, skip failed | player screen, queue screen, checkpoint | the bag is remapped by hand at each edit; three indices kept separately |
| **Player screen** (`gui_player.c`, `gui.c` poll) | armed track, generation, failures | every button and menu, and the poll of the engine's events | queue, engine, metadata worker | the engine moves on by itself between two polls |
| **Queue checkpoint** (`queue_resume.c`) | a file | write, read | queue | a reboot at any time |
| **Favourites** (`favorite_writer.c`) | queue of taps, waiting and running writes | `submit`, `write_now`, `is_set`, a worker | heart, Remote Control, library database | many writers, one order per song |
| **Settings and ending** (`settings.c`, `idle_shutdown.c`) | settings file, queued snapshot, generation, shutdown latch | save, save later, flush, cancel, power off, restarts, factory reset, firmware update | everything, the reboot | synchronous and queued saves, a flush nobody may write after, power loss |
| **USB DAC session** (`usb_mode_control.c`, `charge_limiter.c`) | mode, Type-C role, charger inhibition, the journal of the session, storage leases | switch mode, charging preference, lease, reconcile at start | gadget and charger registers, polls of the charger, writers of the card | five pieces of hardware changed one by one, each of which may fail; restarts |
| **HTTP stream** (`http_stream.c`) | ring with its history, position, connection, the pump thread | read, seek, close | decoder thread, server | two pumps during a seek, a silent server, a replacement response |
| **Updates** (`player_install.c`, boot loader `installer.c` and `main.c`) | player binary and its temporary copy, update and archived names on the card | verify, copy, archive, replace, clean up; choice of the player | two file systems, the supervisor | power loss between two renames on two disks |
| **Metadata worker** (`track_metadata_worker.c`) | three lanes of requests and results, ring of counted plays | submit, take, count | engine, player screen | results of replaced requests |
| **Volume** (`audio.c`) | volume, ceiling, two generations | slider, release, Bluetooth remote, ceiling | mixer, Bluetooth | late samples |
| **Bluetooth reconnect** | thread, generation | start, cancel, poll, shutdown | D-Bus service | join against start and cancel |

The rest - decoders and probes, the library database and its scan, artwork,
Wi-Fi, AirPlay, the remote control protocol, plugins, all other screens - is
listed component by component in `PROJECT.json`, with the reason why it is not
modelled: it is byte-level parsing, drawing or I/O, or it is a candidate for a
later module and named as one.

The properties that make the modelled parts correct are those under
"Runs" below; the hazards they answer to are in `PROJECT.json`.

## Modules

| Module | Models | Status |
|---|---|---|
| `TransportSession` | what the API of `audio.h` promises: one session that starts, plays, stops | done |
| `AudioEngine` (`AudioEngineMC`) | control API, metadata wait and worker of `audio.c`; implements `TransportSession` | done |
| `AudioEngine_proofs` | the engine for every set of tracks and all bounds | done |
| `PlayerQueue`, `PlayerQueue_proofs` | queue, shuffle bag, failure plan, checkpoint, as operators on a queue record | done |
| `PlayerControl` (`PlayerControlMC`), `PlayerControl_proofs` | the screen's callbacks over `PlayerQueue` and the engine as the screen sees it | done |
| `FavoriteWriter` (`FavoriteWriterMC`), `FavoriteWriter_proofs` | the writer of favourites | done |
| `SettingsStore`, `SettingsStore_proofs` | saves, worker, flush, latch, every way to end the player, power loss | done |
| `UsbDacSession`, `UsbDacSession_proofs` | mode switches, the charger's policy, the journal, leases, restarts | done |
| `HttpStream`, `HttpStream_proofs` | ring, pumps, seek with a replacement connection, close | done |
| `PlayerInstall` (`PlayerInstallMC`), `PlayerInstall_proofs` | replacement of the installed player across two file systems | done |
| `MetadataWorker`, `VolumeControl`, `BluetoothReconnect` | lanes and ring; samples and ceiling; thread handle | left |

`PlayerControl` extends `PlayerQueue` and composes it with the engine's
interface; `AudioEngine` is shown to implement `TransportSession`. Every
safety invariant and action property of a passing run is a theorem; what is left
to prove is listed at the end of Proofs. `SettingsStore`, `UsbDacSession`, `HttpStream` and `PlayerInstall`
stand alone: what they share with the other modules in the code is the call
that starts them, not state.

### AudioEngine

Every action is a critical section under `audio_mutex`, or the stretch of the
worker between two of them; `pc` says where the worker is. The variables carry
the code's names. While the worker is in a decoder, the tag reader or the
output (`tags`, `open`, `output`, `decode`, `write` ...), the API runs.

* API: `PlayFile` (`play_file_request`), `SetNextTrack`,
  `SetNextTrackForGeneration`, `SetCrossfade`, `LoopStart`, `LoopStop`,
  `TogglePause`, `Stop`, `Seek` and the three `Consume` getters. The metadata
  worker: `WaitBegin`, `WaitSleep`, `WaitReturn`.
* Worker: the priming of the output when it starts, waiting and the start-up of
  a track (`Starting`), the loop clip of the idle and of the paused wait
  (`Clipping`: `run_loop_clip_locked`), crossfade (`Blending`), playback
  with seek, premature end and its three reopen attempts, end of file and
  gapless promotion (`Playing`), and leaving the loop (`Ending`).
* The condition variable is explicit: `sleeping` holds the threads blocked in
  `pthread_cond_wait`; a broadcast empties it. A lost wake-up is a thread that
  stays in it.
* A clip repeats one chunk at a time: the chunk is copied under the mutex, then
  the output is taken, written or lost without it (`ClipTakes`, `ClipPlays`),
  and the mutex is taken again to see whether the clip may go on
  (`ClipMayRun`). A clip that is not decoded or has no memory to play is not
  started, or dropped (`Sleep`). The priming may leave its flag set: if the
  output does not open, nothing closes it (`PrimeEnds`, `audio.c:3673`).
* The worker's locals are cleared where their scope ends, which merges states
  that differ only in values nobody reads any more.
* Abstracted: PCM, positions and formats (what a read or write returns is a
  choice; `Formats` only says which tracks may be blended), error kinds
  (output, decoder), and the wide and narrow sample paths, which are one. Not
  modelled here: tempo, A-B loops and switches, DoP, the MP3
  seek index, device volume. The target build is modelled, not `HOST_BUILD`.
* Two simplifications: the snapshot of the next track and the check of the
  output at the top of the loop are one step, and so are the check for a pause
  and the close of the output that follows it.

### PlayerQueue and PlayerControl

All callbacks and the poll run on the UI thread, so one callback is one step
and maps a *world* (queue, engine, screen) to the set of worlds it may leave;
the audio thread (`Promote`, `EndOfTrack`, `Fail`) interleaves. `Poll` is
`player_ui_timer_cb` in its order: error, advanced or finished; the metadata of
the successor; confirmation of playback; prediction for the waveform.

* The queue is the record of `EmptyQueue`; slots are numbered from 0 as in
  the code. Operations that shuffle yield sets of results.
* The queue's revision is kept as "the screen's copy is up to date or `Stale`"; the
  playback generation as how the screen's number compares with the engine's
  (none, synced, behind).
* Left as choices: the latency of metadata, when three seconds have been
  played, whether Play resumes or starts again, whether a queue has lazily
  resolved ranks. Gapless playback off is the case that metadata never arrive.
* Not modelled: drawing, the source list's bookkeeping, settings saves, remote
  and SD-card entry points, and the three functions nothing calls
  (`gui_player_queue_remove_at`, `gui_player_queue_clear`,
  `gui_player_play_at`).

### FavoriteWriter

A section under `writer_mutex` is one step (`Submit`, `Register`, `BeginWrite`,
`GiveWay`, `WorkerTake`, `Finish`), the database write between them its own
(`Store`, `FailToStore`). A request is its sequence number, so `stored[p]` is the number of
the request whose flag is on the card. `waiters[]` and `inflight[]` are the threads
at those stages. A tap is made on one thread, so deadlines are in the order of
the numbers; the 150 ms are left open. A write may be stored, stored without
being known to have reached the card, or fail. Out of memory and a worker that
cannot be started drop a request and are left out.

### SettingsStore

`settings_queue_mutex` is never held while waiting, so a section under it is
one step; `settings_write_mutex` is `writer`. The settings are the number of
their last change. A file is that number and whether its data was synced before
it got its name; `survivors` are the files a loss of power may leave under the
settings' name, and the fsync of the directory narrows them to one.

* Saving: `Change`, `Save` (at once, on the UI thread), `SaveAsync` (UI or
  Remote Control, with the fall-back when there is no worker), the worker's
  `WorkerWait`, `WorkerConsume`, `WorkerCompare`, `WorkerDone`, and the file
  replacement `WriteTemp`, `Rename`, `SyncDir`, each of which may fail.
* Ending: `BeginEnd` (power off, restart, boot selector, factory reset),
  `BeginUpdate` and `UpdateFails`; `Flush`, `Drain`, `Barrier`;
  `RequestSelector`, `Erase`; `RebootFails` with `Cancel`; `EndsInOrder`,
  `Exits`, `PowerLoss` and the next start.
* The signal of a save wakes any one of the threads that sleep on the condition
  variable, as `pthread_cond_signal` may.
* Not modelled: the fields, their encoding and the load of a file; whether a
  start without a worker is a start whose thread could not be created is a choice
  of `Init`.

### UsbDacSession

`usb_mode_mutex` is held by the operation `op` from its beginning to `Done`;
`axp_charger_mutex` makes each call of the charge limiter one step. So a step
is what touches the charger, the role, the gadget or the journal once, and any
of these calls may fail with or without effect. The polls of the charger
(`Poll`) interleave with every step; the player or the device may restart
between any two.

* `Switch`, `Prefer`, `LeaseBegin`, `LeaseEnd`, and the reconciliation with the
  journal that every start begins with (`NothingRecorded`, `Recorded`,
  `Unreadable`).
* `PrepareStep` (`Reclaim`, `Capture`, `Save`, `Undo`, `Allow`, `EnterSink`),
  `Gadget`, `Finish`, `RestoreStep` (`RestoreResume`, `RestoreRole`,
  `RestoreRelease`, `RestoreRemove`), `ReconcileStep` (`Discard`, `Retain`,
  `Keep`, `Retained`), `SetPreference`, `RevertPreference`.
* `journal` is the file as read back, `survivors` what a restart of the device
  may leave of it. `base_role` is the role before the session; `blind` says
  that the journal was once unreadable, or could not be written for a DAC found
  running without one: from then on the code cannot know the role.
* Not modelled: the bridge that moves samples, the gadget's configuration files
  (a gadget is bound to a mode or not), the timing of the role switch.

### HttpStream

A byte is a pair of the entity's version and its offset: the server may replace
the entity by another of the same length. The decoder thread is the one caller.
`pump` holds the two pumps a seek may have for a moment, each with its stage and
its buffer; `conn` is the body the stream's pump reads.

* The pump: `PumpCheck`, `PumpReceive`, `PumpLoses`, `PumpInterrupted`,
  `PumpPush`, `PumpExit`.
* The calls: `Read` and `ReadSome`; `SeekToEnd`, `SeekInRing`, `SeekFar` with
  the checks of the replacement response (`Accepted`: range, total, length,
  validator), `SeekRefused`, `SeekAccepted` (the gated pump), `StopPump`,
  `SeekSwap`, `SeekRelease`; `Close`, `Free`.
* Not modelled: the parsing of responses, redirects, TLS; the arithmetic of
  `SEEK_SET`, `SEEK_CUR` and `SEEK_END`, a seek names its destination; two
  callers at once, which the API forbids.

### PlayerInstall

Two directories: `data` (player, temporary copy) and `sd` (update, archived
names), each with the set of states a power loss may leave (`dataDisk`,
`sdDisk`): an operation adds to it, an fsync of the directory narrows it. The
content of a new file is on the disk only after an fsync of the file
(`synced`). `phase` is the boot loader, the running player, or off; `job` is
the one `player_install_fd()` that runs, with its step and locals.

* Loader and player: `InstallFromCard`, `InstallOnline`, `Quarantine`,
  `Select`. The installation: `Prepare`, `Copy`, `Verify`, `GiveUp`,
  `Archive`, `SyncArchive`, `ArchiveFails`, `Commit`, `CommitFails`,
  `SyncPlayer`, `RemoveArchive`.
* The world: `PlayerExits`, `PowerLoss`, `PowerOn`, `FirmwareUpdated`,
  `CardChanged` (the user writes or deletes the update, also during an install).
* Abstracted: an image is a value with its build stamp and whether it is an
  executable for this board; a digest that agrees is an image that is the same.
  Downloads and the parsing of release information are left out.

## Runs

| Run | Question | Instance | States |
|---|---|---|---|
| `engine_safety` | do API and worker agree on whose track plays; is no request lost, nothing stale published, the output released, and left alone when idle? | two tracks of different formats, 2 requests, 3 arms, loop clips, no waiter | 1.7 M |
| `engine_live` | are Stop, request, waiter and pause answered; is `TransportSession` implemented? | one track, 2 requests, 2 arms, loop clips, waiter, no crossfade | 0.22 M |
| `player_order` | do edits keep the bag a permutation; is the queue screen never trusted when stale; does Play Next win? | both shuffle modes, lists of one track, 3 slots, no failures | 86 k |
| `player_modes` | is a written checkpoint readable; is a failed track never started again? | 5 modes, both kinds of failure, 2 slots | 84 k |
| `favorites` | order, exclusion, true answers, progress | 3 songs, 2 callers and the worker, 2 concurrent writes, 3 requests | 91 k |
| `settings` | does a flush wait for everything, does nothing write after it, what does a power loss find? | 3 changes, 2 savers, worker, 2 enders, 1 restart or power loss | 0.29 M |
| `usb_dac` | do charger, role, journal and session agree after any failure and restart? who owns the card? | 3 operations per start, 2 restarts | 0.86 M |
| `http_stream` | are the bytes read those at the position; does a seek that fails leave the stream as it was; does a Stop depend on the server? | 4 bytes, ring of 3, chunks of 2, 3 calls | 0.87 M |
| `player_install` | does power always find a whole player; is an update neither lost nor installed twice? | 2 players, 2 archived names, 2 faults | 2.1 M |
| `engine_prefetch`, `player_sync`, `player_checkpoint` | one statement of a comment each, which the code does not keep (see Findings) | | |

**Bounds.** `MaxGen` and `MaxArm` bound requests and arms; two requests
suffice for one to overtake the other at every step of the worker, three arms
for a successor replaced while it is being prefetched. In `engine_live` a
request uses up one arm and the other is a successor, so gapless promotion is
exercised there too. `MaxClip` says until which generation clips are started:
2 means before the first track and during it, its pause and its stop included,
any number of times; such a clip is still there when the second request comes
and after it. `Crossfades` are the values given to the setting: both in
`engine_safety`, none in `engine_live`, which leaves the blending of two tracks
to it. `MaxQueue` = 3 gives a current, a queued and another track, which is what
the bag's remapping distinguishes; five modes fit with 2. Tracks are
interchangeable, so a symmetry set is used where only safety is checked. A
deleted track stays counted in `pending`, and the place in a bag that is not in
use drifts: `Fits` bounds both. In `favorites` a limit of two writes (four in
the code, which has three threads) makes each of the three wait for the
others; three songs are needed to reach it. A fourth request was tried as well
(814 k states, no error) but takes too long beside the other runs. `MaxSeq`
makes the requests finite, which `LastRequestIsWritten` needs: a song that is
tapped for ever every 150 ms is never written. `settings`: one change each for
a snapshot being written, one queued behind it and one saved at once; the
changes count from the start, so `PowerLossKeepsSettings` sees the file of the run
before. `usb_dac`: three operations reach a switch that fails, one that repairs
and one that sees the outcome; the second restart comes in the middle of the
reconciliation after the first. `http_stream`: the ring is shorter than the
entity, so history is overwritten and both the ring's end and the entity's are
met; a chunk of two straddles the end of the ring; three calls are a far seek, a
seek within what it left, and a read or a close. `player_install`: two archived
names fill up when the clean-up after an install fails twice, and two faults are a power loss within the boot that follows one, or a
change of the card during an install that is then cut off.

**Deadlock** is not checked: a player with nothing to do, or a run at its
bound, may rest. That nobody waits for ever is what the liveness properties
say where a module has threads that wait. `UsbDacSession` and `PlayerInstall`
have none: everything there is one sequential operation at a time.

**Fairness.** `AudioEngine`: weak fairness of the worker and of the waiter,
which are threads that run whenever they can, and whose library calls return.
`FavoriteWriter`: weak fairness of the worker and of each caller, for the
same reason. `SettingsStore`: weak fairness of both savers, the worker and a
flush that runs; that a user saves, ends the player or cuts the power is never
owed. `HttpStream`: the threads are scheduled, but the server owes nothing:
`http_conn_open()` sets no timeout, so a receive is only sure to end after a
shutdown of the socket. Users, remote clients and the other callers owe
nothing. `PlayerControl`, `UsbDacSession` and `PlayerInstall` have no liveness
properties and no fairness.

### What the properties say

* Engine: `WorkerOwnsTheTrack` (no command outstanding: worker and getters
  name the same track), `RequestIsServed`, `ProgressIsTrusted`,
  `TagsAreOfTheRequest`, `OnlyClipsTakeIdleOutput`
  (once `audio_is_idle()` is true, no request, start-up, promotion or failure
  takes the output: only the priming when the worker starts, `audio.c:3673`,
  and a loop clip in the idle wait, 3687, do, and the clip even with a chunk it
  copied before an `audio_loop_stop()` or a Stop),
  `StopAcknowledgedReleased`, `WaitResultIsRight`, `StopIsAcknowledged`,
  `RequestIsAnswered`, `WaiterReturns`, `PauseReleasesOutput` (a lasting pause
  without a loop clip; with one the paused wait keeps the output for it),
  `ImplementsSession`. `StoppedStartupIsSilent` (a start-up that was stopped
  reports no error) is proved and not among the runs.
* Player: `BagIsPermutation`, `NeverBackToAFailedTrack`,
  `EditHitsWhatWasShown`, `PlayNextIsNext`, `CheckpointSurvivesRestart`.
  `CheckpointSurvivesRestart` and `EditHitsWhatWasShown` hold as long as no
  other device owns the output. With `ExternalDac = TRUE` TLC finds both broken:
  a refused start moves the bag alone (see Findings), and a deleted track whose
  successor may not start leaves the queue's revision as it was
  (`player_queue_model.c:631`). The other three hold either way.
* Favourites: `ArraysFit`, `OneWriterPerPath`, `LaterRequestWins` (a request
  never overwrites a later one), `LastRequestIsShown`, `SavedUnlessSuperseded`
  (who is told "saved" was not fooled), `EveryCallReturns`,
  `LastRequestIsWritten`.
* Settings: `ClosedWhileEnding` (the store is closed only while someone ends the
  player, and nothing is written after a flush, so what a factory reset erased
  stays erased), `FlushedIsSaved` (every accepted change is in the file when the
  flush is over, unless its write failed), `PowerLossKeepsSettings` (whole
  settings, at least as new as the last that were synced), `FlushReturns`,
  `AcceptedIsWritten`.
* USB DAC: `InhibitHasOwner` (no failure leaves the charger off for good),
  `OriginalRoleIsRecorded` (in the middle of everything and after every crash
  the journal has the role to go back to), `DacKeepsTheCharger` (a bound DAC is
  owned, and no poll charges behind its back), `CardHasOneOwner`.
* HTTP: `RingHoldsTheEntity` (each byte ahead of the position and in the history
  is the one at its offset, of the same version if the first response had a
  strong validator or a date), `ShortReadMeansTheEnd`, `StopsWithoutTheServer`.
* Updates: `InstalledIsWhole`, `NotOfferedAgain`, `UpdateIsNotLost`.

Each property has a mutant: a definition `Name_Variant` beside the one it
varies, which a plausible mistake would make of it and under which the property fails.

### Findings

* `engine_prefetch`: a successor armed again during the crossfade window is
  promoted under its own name while the earlier one's decoder plays (`audio.c:4447`).
* `player_sync`: a change of the play mode between a gapless promotion and the
  poll makes the screen name a track that is not playing (`gui_player.c:5538`).
* `player_checkpoint`: after the playing song is deleted, no checkpoint of the
  queue may be written any more (`player_queue_model.c:639`).

Four more disagreements were met and are not kept as runs; each is found in a
moment by checking the property named, which is in the module.

* `FinishedIsCurrent`, an invariant, in `AudioEngine_prefetch.cfg` with
  `MaxGen = 2`: the end of a track is reported although the next request is
  already starting (`audio.c:5637`; `audio.h:420`).
* `RecoveryErrorIsExhausted`, an action property, in `AudioEngine_prefetch.cfg`:
  a Stop during recovery is reported as a decoder error (`audio.c:5069`;
  `audio.h:445`).
* `ClipEndsWithTheStart`, an action property, in `AudioEngine_prefetch.cfg`: a
  track that starts ends a loop clip only if the clip was being played
  (`audio.c:3324`). One whose turn had not come, because the worker was still
  priming, or woke only after `play_file_request()` as well, survives the start
  and plays at the next pause or stop (`audio.h:236`: starting a track ends it).
* `ClearKeepsTheCurrentTrack`, an action property, in `PlayerControl_sync.cfg`
  with `PlayModes = {"SHUFFLE_ONCE"}` and `ExternalDac = TRUE`: a step refused
  because of an external DAC leaves the place in the bag ahead of the current
  track (`player_queue_model.c:723`).

Observations that contradict no statement of the code, but that a reader of it
should know:

* Engine: `audio_stop()` does not end a loop clip, and `audio_is_idle()` is false
  while one holds the output. A producer that stops the player and waits for
  idle (`airplay_bridge.c:157`, `usb_dac_bridge.c:767`, `gui_emulators.c:214`)
  waits while the clip repeats, but for the moments its output fails. Nor does
  idle last: a clip started after it takes the output (`audio.c:3311`). The same
  holds of a priming that fails: the flag stays set until the output is next
  closed.
* Settings: a save made between a flush and its cancellation is dropped without
  a trace; the next save writes the change.
* USB: when `prepare` cannot allow charging (about line 270) it returns without
  the rollback of its other failures. A restore that fails at start is not tried
  again before the next switch. The first poll of the charger comes after the
  reconciliation only because `gui.c:1742-1746` precedes `1790`.
* HTTP: a read from a stalled server never returns (`http_conn.c:364-366` passes a
  timeout of 0), and a Stop of the engine waits for it. A seek to the present
  position does not reconnect after a lost connection (line 559). With a weak
  validator or none, versions may be mixed.
* Updates: after a failed fsync of the card *and* a failed rename back, the
  update may be found again at the next boot. `NotOfferedAgain` is about installs
  that archived it.

## Proofs

Assumptions are the named `ASSUME`s on the constants only: `NoTrack` is no
track, the lists a queue is filled from are not empty, bounds are natural
numbers (those of the ring and of its chunks positive), callers are finitely
many, the worker is no caller, `FAVORITE_INFLIGHT_MAX` is at least one. Two
theorems of the player have `~ExternalDac` as a hypothesis, as said above.

**AudioEngine_proofs.** Types first, one lemma per group of actions. The
properties are not inductive by themselves: that the worker owns the track
after start-up needs to know that it was starting the pending request
(`StartupIsCurrent`), that generations only grow (`GenerationsAreOrdered`) and
that a pending request has neither error nor counters yet (`PendingIsFresh`);
that a Stop is acknowledged with the output released, and that a clip that
fails or a priming that ends does not take what it had let go, needs
`OutputMatchesPlace`; that a stopped start-up stays silent needs
`PlayingWasNotStopped`. Their conjunction `Inv` is inductive, one step per
action. `WaitAnswer` needs to know beside it why a generation is no longer the
one somebody waits for: the tags are published before a start-up can end
(`TagsWereRead`), and the generation outgrows the last request only by a Stop,
which leaves a mark, or by a promotion, which takes the counters along
(`WhyItGrew`). The invariants of `engine_safety` are its conjuncts, its two action
properties follow from it, and every step of the engine maps to a step or a
stutter of `TransportSession` (`EngineImplementsSession`).

**FavoriteWriter_proofs.** The argument is one order: for each path, what is
stored or refused < what waits < what is queued, and what is being written lies
between (`QueuedIsNewest`, `WaitingIsNewer`, `WrittenIsStored`); the last
request is always in one of these places (`LastIsSomewhere`). `Moves` says
once what a change of stage does to the sets of waiting and writing threads.
The theorems cover exclusion, the order of writes, the truth of answers and of
`favorite_writer_is_set`, and, with the finite-set theorems, that the two
arrays never overflow.

**UsbDacSession_proofs.** For every number of operations and restarts. For each
action a lemma `...Moves` says once where `op` may go next and what that says of
the session; the step lemmas then take the parts of `Inv` one by one. The
properties hold between operations, so the invariant says what they become in the
middle of one: `Owner` (an inhibited charger belongs to a session, or to the
operation that took it and has still to give it back), `Dac` (from which step on
a bound DAC has its charger held), `Original` and `Survives` (the journal, and
everything a restart may leave of it, has the original role from before the role
changes until after it is restored); `LeaseInv` carries the card's owner.

**PlayerInstall_proofs.** For every set of players, number of archived names
and of faults. `DataInv` says what is known of the copy at each step (it is of
the image, then synced, then the player, then durable), `CardInv` where the
update is in everything a power loss may leave of the card; together with the
types they are inductive. `WholePlayer` and `OfferedOnce` follow from them,
`UpdateKept` step by step.

**SettingsStore_proofs.** For every number of changes and starts. The argument
follows a change from the queue to the worker, the writer and the file. A
snapshot, queued or taken, whose generation is the current one is as new as all
that was asked for, is on the disk or is being written (`Snapshots`), and no
snapshot is newer than the settings in memory (`Older`); what was asked for last is
queued, with the worker, being written, in the file, or refused by the card
(`Accounted`). `Closed` and `OneEnder` say what a flush has still to wait for at
each of its steps, and who may open the store again; `Replacing` what the
temporary file and the disk hold between write, fsync, rename and the fsync of
the directory.

**HttpStream_proofs.** For every length of the entity, ring and chunk.
`Handover`: of the two pumps of a seek one is at the gate until the other is
joined, so each step of a pump is one of the stream's own. `Turned` and
`Placed`: `head`, `tail`, `fill`, `history` describe one window of the ring and
`position` its place in the entity; the lemmas on `%` say which slots a push
overwrites, and that a seek within the ring turns the window without leaving it.
`InFlight`: what the pump has received and not pushed follows the window.
`OneVersion` gives the bytes one version if the first response named it, and
`Endings` says why a pump ended, which is what a short read depends on.

**PlayerQueue_proofs, PlayerControl_proofs.** For every set of tracks, lists and
modes and any length of the queue. `PlayerQueue_proofs` has one lemma per
operation of the queue: it keeps the bag and its continuation permutations
(`GoodQueue`), what it does to their length, and that the slots it returns are
in the queue. The indices meet in two invariants of the *world*. `Good`, for
every `ExternalDac`: types and bag, an engine with an error plays nothing, the
track of the screen's generation did not fail, and (`Covered`) a bag that is
used is at least as long as the queue, because the failure plan reads the bag
up to the queue's count without asking for its length. `Exact`, where no other device
takes the output: the place in the bag is the current track's (`OnTrack`),
and what the queue screen shows is what the queue would show now. It holds
because every callback that changes what plays gets as far as
`arm_next_track_for_audio()`, which looks the current track up in the bag; by the
pigeonhole principle (`OrderHits`) it is there. There is one lemma per callback
for each of the two invariants, and the theorems follow from them;
`NextIsPlayedNext` is a step of `PlayNext`.

**Only model-checked.** All liveness (the prover has no rules for fairness):
`StopIsAcknowledged`, `RequestIsAnswered`, `WaiterReturns`,
`PauseReleasesOutput`, the fairness half of `ImplementsSession`,
`EveryCallReturns`, `LastRequestIsWritten`, `FlushReturns`,
`AcceptedIsWritten`, `StopsWithoutTheServer`; and the three violation runs, which are
counterexamples.

## Not modelled, and why

See `PROJECT.json` for every component. In short: decoding, effects, parsing,
drawing, the D-Bus and SQL layers are data or I/O without the kind of state
TLC explores. Volume, the metadata worker and Bluetooth reconnect have such
state and are what the plan has left. Most of the repository, by lines, is
generated fonts, translations, vendored libraries and screens.

Hazards met while reading that no property covers: a late volume sample after a
lowered ceiling (`audio.c:6265`); the results of the metadata worker, published
in steps (`track_metadata_worker.c:95`), and its ring of counted plays when it
is full (`:202`); the bag of a mode that is off, which goes on moving with the
queue (`player_queue_model.c:681`); a tap that a remote write removed and that
is lost if that write times out (`favorite_writer.c:252`); and the read from a
silent server (`http_stream.c:478`), which is listed in `PROJECT.json` with the
reason.

----------------------------- MODULE AudioEngine -----------------------------
(* The playback engine (audio/engine/audio.c): the control API called by the *)
(* UI and its helpers, and the one worker thread, audio_thread_func().       *)
(* Every action is one critical section under audio_mutex, or a stretch of   *)
(* the worker between two of them: while it reads tags, opens a decoder or   *)
(* the output, decodes or writes, the API runs.                              *)
(*                                                                            *)
(* PCM, positions and formats are abstracted: what a read or a write returns *)
(* is a choice.  Tempo, A-B loops, DoP and the MP3 seek index are not        *)
(* modelled here.                                                            *)
EXTENDS Naturals

CONSTANTS
    Tracks,        \* paths the caller can ask for
    NoTrack,       \* NULL path, closed decoder
    LocalTracks,   \* files: tags are read by the worker, the end is a true EOF
    Formats,       \* [Tracks -> rate and channels]: equal ones can be blended
    Crossfades,    \* values the crossfade setting is given
    MaxGen,        \* bound: requests are made while playback_generation < MaxGen
    MaxArm,        \* bound: tracks are armed while next_track_generation < MaxArm
    MaxClip,       \* bound: clips are started while playback_generation < MaxClip
    Waits          \* whether a metadata worker waits for start-up tags

ASSUME TracksAssumption == NoTrack \notin Tracks /\ LocalTracks \subseteq Tracks
ASSUME CrossfadesAssumption == Crossfades \subseteq BOOLEAN
ASSUME BoundsAssumption == /\ MaxGen \in Nat /\ MaxArm \in Nat /\ MaxClip \in Nat
                           /\ Waits \in BOOLEAN

VARIABLES
    (* The transport, guarded by audio_mutex like all that follows. *)
    have_current, stop_requested, paused,
    restart_requested, restart_path, startup_pending, startup_paused,
    (* Events polled by the UI; error is last_playback_error and its generation. *)
    track_finished, track_advanced, error,
    (* The armed successor, and the clip to repeat while no track plays. *)
    next_path, next_track_generation, crossfade_enabled, loop_clip,
    (* Whose track it is. *)
    playback_generation, active_path, counter_generation, playback_progress_state,
    seek_pending,                \* generation the pending seek belongs to, 0: none
    (* Start-up tags: generations, 0 when the _ready or _valid flag is clear. *)
    startup_metadata, stopped_startup_generation,
    request_generation,          \* history: generation of the last PlayFile
    local_output_active,         \* the worker holds the output device
    (* The worker's locals. *)
    pc, cur_generation, cur_path,
    cur_dec, nxt_dec,            \* the track each decoder has open
    staged,                      \* snapshot of the armed successor
    dr,                          \* reopen attempts made by EOF recovery
    exit,                        \* why the playback loop was left
    observed_generation,         \* local of finish_startup_without_restart()
    (* audio_wait_track_metadata(): the generation waited for, 0 when none. *)
    waiter_gen,
    sleeping                     \* threads blocked on audio_cond

transport == <<have_current, stop_requested, paused, restart_requested,
               restart_path, startup_pending, startup_paused>>
events    == <<track_finished, track_advanced, error>>
staging   == <<next_path, next_track_generation, crossfade_enabled, loop_clip>>
owner     == <<playback_generation, active_path, counter_generation,
               playback_progress_state, request_generation>>
startup   == <<startup_metadata, stopped_startup_generation>>
decoders  == <<cur_generation, cur_path, cur_dec, nxt_dec>>
locals    == <<staged, dr, exit, observed_generation>>
waiting   == <<waiter_gen, sleeping>>

vars == <<transport, events, staging, owner, seek_pending, startup,
          local_output_active, pc, decoders, locals, waiting>>

Paths  == Tracks \cup {NoTrack}
Kinds  == {"NONE", "OUTPUT_FAILED", "DECODER_FAILED"}
Progress == {"NOT_READY", "ACTIVE", "NATURAL_EOF", "MANUAL_STOP"}
Exits  == {"none", "restart", "stop", "ended", "natural_eof", "failed"}

Startup   == {"tags", "cancel_check", "open", "output", "opening", "publish"}
Finishing == {"finish", "finish_close", "finish_ack"}
Priming   == {"prime", "primed"}
IdleClip  == {"clip", "clip_play", "clip_close", "clip_end"}
HeldClip  == {"held_clip", "held_play", "held_close", "held_end"}
Inner     == HeldClip \cup
             {"loop", "held", "seek", "prefetch", "blend", "mix",
              "blend_recover", "promote", "decode", "recover", "handoff", "commit",
              "write", "writing"}
Unwinding == {"unwind", "close", "settle"}
PCs       == {"idle"} \cup Priming \cup IdleClip \cup Startup \cup Finishing \cup Inner \cup Unwinding

NoError  == [kind |-> "NONE", gen |-> 0]
NoStaged == [path |-> NoTrack, gen |-> 0]

Threads   == {"worker", "waiter"}

MaxReopen == 3   \* for (int dr = 0; dr < 3; dr++)

TransportTyped ==
    /\ have_current \in BOOLEAN /\ stop_requested \in BOOLEAN /\ paused \in BOOLEAN
    /\ restart_requested \in BOOLEAN /\ restart_path \in Paths
    /\ startup_pending \in BOOLEAN /\ startup_paused \in BOOLEAN
EventsTyped ==
    /\ track_finished \in BOOLEAN /\ track_advanced \in BOOLEAN
    /\ error \in [kind : Kinds, gen : Nat]
StagingTyped ==
    /\ next_path \in Paths /\ next_track_generation \in Nat
    /\ crossfade_enabled \in BOOLEAN /\ loop_clip \in BOOLEAN
OwnerTyped ==
    /\ playback_generation \in Nat /\ active_path \in Paths
    /\ counter_generation \in Nat /\ playback_progress_state \in Progress
    /\ request_generation \in Nat
StartupTyped ==
    /\ seek_pending \in Nat /\ startup_metadata \in Nat
    /\ stopped_startup_generation \in Nat /\ local_output_active \in BOOLEAN
WorkerTyped ==
    /\ pc \in PCs /\ cur_generation \in Nat /\ cur_path \in Paths
    /\ cur_dec \in Paths /\ nxt_dec \in Paths
    /\ staged \in [path : Paths, gen : Nat]
    /\ dr \in 0..MaxReopen /\ exit \in Exits /\ observed_generation \in Nat
WaitingTyped == waiter_gen \in Nat /\ sleeping \subseteq Threads

TypeOK == /\ TransportTyped /\ EventsTyped /\ StagingTyped /\ OwnerTyped
          /\ StartupTyped /\ WorkerTyped /\ WaitingTyped

Init ==
    /\ have_current = FALSE /\ stop_requested = FALSE /\ paused = FALSE
    /\ restart_requested = FALSE /\ restart_path = NoTrack
    /\ startup_pending = FALSE /\ startup_paused = FALSE
    /\ track_finished = FALSE /\ track_advanced = FALSE /\ error = NoError
    /\ next_path = NoTrack /\ next_track_generation = 0 /\ crossfade_enabled = FALSE
    /\ loop_clip = FALSE
    /\ playback_generation = 0 /\ active_path = NoTrack /\ counter_generation = 0
    /\ playback_progress_state = "NOT_READY" /\ request_generation = 0
    /\ seek_pending = 0 /\ startup_metadata = 0 /\ stopped_startup_generation = 0
    /\ local_output_active = FALSE
    /\ pc = "prime" /\ cur_generation = 0 /\ cur_path = NoTrack
    /\ cur_dec = NoTrack /\ nxt_dec = NoTrack
    /\ staged = NoStaged /\ dr = 0 /\ exit = "none" /\ observed_generation = 0
    /\ waiter_gen = 0 /\ sleeping = {}

Broadcast_Forgotten == UNCHANGED sleeping
Broadcast == sleeping' = {}                \* pthread_cond_broadcast(&audio_cond)
Goto(next) == pc' = next

------------------------------------------------------------------------------
(* What the getters answer. *)

audio_is_idle_BlindToStartup == /\ ~have_current
                                /\ ~stop_requested /\ ~restart_requested
                                /\ ~local_output_active

audio_is_idle == /\ ~have_current /\ ~startup_pending
                 /\ ~stop_requested /\ ~restart_requested
                 /\ ~local_output_active

audio_is_paused == /\ ~stop_requested
                   /\ IF startup_pending THEN startup_paused ELSE have_current /\ paused

(* audio_wait_track_metadata(): its loop condition and its result. *)
WaitBlocked(g) == /\ playback_generation = g /\ startup_pending
                  /\ ~stop_requested /\ startup_metadata = 0

WaitResult_NoStopMark(g) ==
    IF playback_generation = g /\ ~stop_requested /\ startup_metadata = g
    THEN "READY"
    ELSE IF stop_requested /\ playback_generation = g THEN "STOPPED" ELSE "REPLACED"

WaitResult(g) ==
    IF playback_generation = g /\ ~stop_requested /\ startup_metadata = g
    THEN "READY"
    ELSE IF \/ stop_requested /\ playback_generation = g
            \/ stopped_startup_generation = g
         THEN "STOPPED"
         ELSE "REPLACED"

------------------------------------------------------------------------------
(* The control API. *)

(* play_file_request(): audio_play_file_at() and its ReplayGain variant. *)
PlayFile(p) ==
    /\ playback_generation < MaxGen
    /\ restart_path' = p /\ restart_requested' = TRUE
    /\ startup_pending' = TRUE /\ startup_paused' = FALSE
    /\ startup_metadata' = 0 /\ stopped_startup_generation' = 0
    /\ next_path' = NoTrack /\ next_track_generation' = next_track_generation + 1
    /\ stop_requested' = FALSE /\ paused' = FALSE
    /\ track_finished' = FALSE /\ track_advanced' = FALSE /\ error' = NoError
    /\ playback_generation' = playback_generation + 1
    /\ request_generation' = playback_generation'
    /\ seek_pending' = 0
    /\ active_path' = p
    /\ playback_progress_state' = "NOT_READY"
    /\ Broadcast
    /\ UNCHANGED <<have_current, crossfade_enabled, loop_clip, counter_generation,
                   local_output_active, pc, decoders, locals, waiter_gen>>

(* set_next_track(): unguarded, or for the generation the caller prepared   *)
(* the successor for.                                                       *)
Arm(p) ==
    /\ next_path' = p
    /\ next_track_generation' = next_track_generation + 1
    /\ UNCHANGED <<transport, events, crossfade_enabled, loop_clip, owner, seek_pending,
                   startup, local_output_active, pc, decoders, locals, waiting>>

SetNextTrack(p) ==
    /\ next_track_generation < MaxArm
    /\ Arm(p)

SetNextTrackForGeneration(p, g) ==
    /\ next_track_generation < MaxArm
    /\ playback_generation = g /\ ~stop_requested
    /\ Arm(p)

SetCrossfade(on) ==
    /\ crossfade_enabled' = on
    /\ UNCHANGED <<transport, events, next_path, next_track_generation, loop_clip, owner,
                   seek_pending, startup, local_output_active, pc, decoders,
                   locals, waiting>>

(* audio_loop_start(), once the clip is decoded; it replaces the one before. *)
LoopStart ==
    /\ playback_generation < MaxClip
    /\ loop_clip' = TRUE
    /\ Broadcast
    /\ UNCHANGED <<transport, events, next_path, next_track_generation,
                   crossfade_enabled, owner, seek_pending, startup,
                   local_output_active, pc, decoders, locals, waiter_gen>>

LoopStop ==
    /\ loop_clip
    /\ loop_clip' = FALSE
    /\ Broadcast
    /\ UNCHANGED <<transport, events, next_path, next_track_generation,
                   crossfade_enabled, owner, seek_pending, startup,
                   local_output_active, pc, decoders, locals, waiter_gen>>

TogglePause ==
    /\ have_current \/ startup_pending
    /\ ~stop_requested
    /\ IF startup_pending
       THEN startup_paused' = ~startup_paused /\ UNCHANGED paused
       ELSE paused' = ~paused /\ UNCHANGED startup_paused
    /\ Broadcast
    /\ UNCHANGED <<have_current, stop_requested, restart_requested, restart_path,
                   startup_pending, events, staging, owner, seek_pending, startup,
                   local_output_active, pc, decoders, locals, waiter_gen>>

(* audio_stop(): a request that is still starting is retired, whether the   *)
(* worker has consumed it or not; established playback keeps its generation.*)
Stop ==
    /\ stop_requested' = TRUE
    /\ startup_pending' = FALSE
    /\ IF startup_pending
       THEN /\ stopped_startup_generation' = playback_generation
            /\ playback_generation' = playback_generation + 1
            /\ restart_requested' = FALSE /\ restart_path' = NoTrack
       ELSE UNCHANGED <<stopped_startup_generation, playback_generation,
                        restart_requested, restart_path>>
    /\ Broadcast
    /\ UNCHANGED <<have_current, paused, startup_paused, events, staging, active_path,
                   counter_generation, playback_progress_state, request_generation,
                   seek_pending, startup_metadata, local_output_active, pc, decoders,
                   locals, waiter_gen>>

(* audio_seek(), audio_seek_percent(): one coalesced command. *)
Seek ==
    /\ active_path # NoTrack
    /\ seek_pending' = playback_generation
    /\ Broadcast
    /\ UNCHANGED <<transport, events, staging, owner, startup, local_output_active,
                   pc, decoders, locals, waiter_gen>>

(* The UI poll: error first, then advanced, then finished (gui.c:966-976). *)
ConsumeError ==
    /\ error # NoError
    /\ error' = NoError
    /\ UNCHANGED <<transport, track_finished, track_advanced, staging, owner,
                   seek_pending, startup, local_output_active, pc, decoders,
                   locals, waiting>>

ConsumeAdvanced ==
    /\ track_advanced
    /\ track_advanced' = FALSE
    /\ UNCHANGED <<transport, track_finished, error, staging, owner, seek_pending,
                   startup, local_output_active, pc, decoders, locals, waiting>>

ConsumeFinished ==
    /\ track_finished
    /\ track_finished' = FALSE
    /\ UNCHANGED <<transport, track_advanced, error, staging, owner, seek_pending,
                   startup, local_output_active, pc, decoders, locals, waiting>>

(* audio_wait_track_metadata(), called by the metadata worker for the       *)
(* generation of a request whose tags the engine reads.                     *)
WaitBegin ==
    /\ Waits /\ waiter_gen = 0
    /\ active_path \in LocalTracks
    /\ request_generation = playback_generation
    /\ waiter_gen' = playback_generation
    /\ UNCHANGED <<transport, events, staging, owner, seek_pending, startup,
                   local_output_active, pc, decoders, locals, sleeping>>

WaitSleep ==
    /\ waiter_gen # 0 /\ "waiter" \notin sleeping
    /\ WaitBlocked(waiter_gen)
    /\ sleeping' = sleeping \cup {"waiter"}
    /\ UNCHANGED <<transport, events, staging, owner, seek_pending, startup,
                   local_output_active, pc, decoders, locals, waiter_gen>>

WaitReturn ==
    /\ waiter_gen # 0 /\ "waiter" \notin sleeping
    /\ ~WaitBlocked(waiter_gen)
    /\ waiter_gen' = 0
    /\ UNCHANGED <<transport, events, staging, owner, seek_pending, startup,
                   local_output_active, pc, decoders, locals, sleeping>>

------------------------------------------------------------------------------
(* The worker: waiting for a request. *)

Awake == "worker" \notin sleeping

(* The output is opened and closed once; if it cannot be opened, nothing     *)
(* closes it and the flag stays set.                                         *)
PrimeTakes ==
    /\ pc = "prime"
    /\ local_output_active' = TRUE
    /\ Goto("primed")
    /\ UNCHANGED <<transport, events, staging, owner, seek_pending, startup,
                   decoders, locals, waiting>>

PrimeEnds ==
    /\ pc = "primed"
    /\ local_output_active' \in BOOLEAN
    /\ Goto("idle")
    /\ UNCHANGED <<transport, events, staging, owner, seek_pending, startup,
                   decoders, locals, waiting>>

(* The waits look at the commands with the mutex held, also when a loop clip *)
(* has just returned to them with it.                                        *)
AtIdle == (pc = "idle" /\ Awake) \/ pc = "clip_end"
AtHeld == (pc = "held" /\ Awake) \/ pc = "held_end"

(* Sleeps until an API call broadcasts.  A clip there is no memory to play   *)
(* is dropped first, with a broadcast of its own.                            *)
Sleep ==
    /\ loop_clip' = FALSE
    /\ sleeping' = {"worker"} \cup IF loop_clip THEN {} ELSE sleeping
    /\ UNCHANGED <<transport, events, next_path, next_track_generation,
                   crossfade_enabled, owner, seek_pending, startup,
                   local_output_active, decoders, locals, waiter_gen>>

(* A clip that was played ends if a track starts or resumes by then. *)
ClipEnded ==
    \/ pc = "clip_end" /\ restart_requested
    \/ pc = "held_end" /\ (restart_requested \/ (~paused /\ ~stop_requested))

EndClip ==
    IF ClipEnded
    THEN loop_clip' = FALSE /\ Broadcast
    ELSE UNCHANGED <<loop_clip, sleeping>>

(* The idle wait. *)
IdleWait ==
    /\ AtIdle
    /\ ~restart_requested /\ ~stop_requested
    /\ Sleep
    /\ Goto("idle")

IdleStop ==
    /\ AtIdle
    /\ ~restart_requested /\ stop_requested
    /\ Goto("finish")
    /\ UNCHANGED <<transport, events, staging, owner, seek_pending, startup,
                   local_output_active, decoders, locals, waiting>>

PlayClip(next) ==
    /\ loop_clip
    /\ Goto(next)
    /\ UNCHANGED <<transport, events, staging, owner, seek_pending, startup,
                   local_output_active, decoders, locals, waiting>>

IdlePlaysClip ==
    /\ AtIdle
    /\ ~restart_requested /\ ~stop_requested
    /\ PlayClip("clip")

(* Takes the request over, with the generation it has now. *)
IdleRestart ==
    /\ AtIdle
    /\ restart_requested
    /\ restart_requested' = FALSE /\ restart_path' = NoTrack
    /\ cur_path' = restart_path
    /\ cur_generation' = playback_generation
    /\ cur_dec' = NoTrack /\ nxt_dec' = NoTrack
    /\ exit' = "none"
    /\ EndClip
    /\ Goto(IF restart_path \in LocalTracks THEN "tags" ELSE "cancel_check")
    /\ UNCHANGED <<have_current, stop_requested, paused, startup_pending,
                   startup_paused, events, next_path, next_track_generation,
                   crossfade_enabled, owner, seek_pending, startup,
                   local_output_active, staged, dr, observed_generation, waiter_gen>>

(* finish_startup_without_restart(): look, release the output, acknowledge  *)
(* unless a newer request owns the state by then.                           *)
FinishLook ==
    /\ pc = "finish"
    /\ observed_generation' = IF restart_requested THEN 0 ELSE playback_generation
    /\ Goto(IF restart_requested THEN "idle" ELSE "finish_close")
    /\ UNCHANGED <<transport, events, staging, owner, seek_pending, startup,
                   local_output_active, decoders, staged, dr, exit, waiting>>

FinishClose ==
    /\ pc = "finish_close"
    /\ local_output_active' = FALSE
    /\ Goto("finish_ack")
    /\ UNCHANGED <<transport, events, staging, owner, seek_pending, startup,
                   decoders, locals, waiting>>

FinishAck ==
    /\ pc = "finish_ack"
    /\ IF ~restart_requested /\ playback_generation = observed_generation
       THEN /\ startup_pending' = FALSE /\ have_current' = FALSE
            /\ paused' = FALSE /\ stop_requested' = FALSE
            /\ playback_progress_state' = "NOT_READY"
            /\ Broadcast
       ELSE UNCHANGED <<startup_pending, have_current, paused, stop_requested,
                        playback_progress_state, sleeping>>
    /\ observed_generation' = 0
    /\ Goto("idle")
    /\ UNCHANGED <<restart_requested, restart_path, startup_paused, events, staging,
                   playback_generation, active_path, counter_generation,
                   request_generation, seek_pending, startup, local_output_active,
                   decoders, staged, dr, exit, waiter_gen>>

------------------------------------------------------------------------------
(* The worker: starting a request. *)

Current_OnlyStop == ~stop_requested
Current == playback_generation = cur_generation /\ ~stop_requested /\ ~restart_requested

(* Publishes the tags of the request, unless it was superseded meanwhile.   *)
PublishTags_Silent ==
    /\ startup_metadata' = IF Current THEN cur_generation ELSE startup_metadata
    /\ UNCHANGED sleeping

PublishTags ==
    /\ startup_metadata' = IF Current THEN cur_generation ELSE startup_metadata
    /\ Broadcast

ReadTags ==
    /\ pc = "tags"
    /\ PublishTags
    /\ Goto("cancel_check")
    /\ UNCHANGED <<transport, events, staging, owner, seek_pending,
                   stopped_startup_generation, local_output_active, decoders,
                   locals, waiter_gen>>

CancelCheck ==
    /\ pc = "cancel_check"
    /\ Goto(IF Current THEN "open" ELSE "finish")
    /\ UNCHANGED <<transport, events, staging, owner, seek_pending, startup,
                   local_output_active, decoders, locals, waiting>>

(* An open that failed is reported only for a request nobody superseded.    *)
StartupFails(kind) ==
    /\ IF Current
       THEN /\ startup_pending' = FALSE /\ have_current' = FALSE
            /\ playback_progress_state' = "NOT_READY"
            /\ error' = [kind |-> kind, gen |-> cur_generation]
       ELSE UNCHANGED <<startup_pending, have_current, playback_progress_state, error>>
    /\ cur_dec' = NoTrack
    /\ Goto("finish")
    /\ UNCHANGED <<stop_requested, paused, restart_requested, restart_path,
                   startup_paused, track_finished, track_advanced, staging,
                   playback_generation, active_path, counter_generation,
                   request_generation, seek_pending, startup, cur_generation,
                   cur_path, nxt_dec, locals, waiting>>

OpenFails == /\ pc = "open"
             /\ StartupFails("DECODER_FAILED")
             /\ UNCHANGED local_output_active

Open ==
    /\ pc = "open"
    /\ cur_dec' = cur_path
    /\ Goto("output")
    /\ UNCHANGED <<transport, events, staging, owner, seek_pending, startup,
                   local_output_active, cur_generation, cur_path, nxt_dec, locals,
                   waiting>>

(* pause_before_output: a request that is already paused leaves the output   *)
(* alone.                                                                   *)
OutputLook ==
    /\ pc = "output"
    /\ Goto(IF startup_paused THEN "publish" ELSE "opening")
    /\ UNCHANGED <<transport, events, staging, owner, seek_pending, startup,
                   local_output_active, decoders, locals, waiting>>

OutputReady ==
    /\ pc = "opening"
    /\ local_output_active' = TRUE
    /\ Goto("publish")
    /\ UNCHANGED <<transport, events, staging, owner, seek_pending, startup,
                   decoders, locals, waiting>>

(* The output would not open, or a command aborted the attempts: the flag    *)
(* may be set already.                                                      *)
OutputFails ==
    /\ pc = "opening"
    /\ local_output_active' \in {local_output_active, TRUE}
    /\ StartupFails("OUTPUT_FAILED")

(* A pause toggled while starting carries over. *)
FirstPause_Ignored == paused
FirstPause == IF startup_pending THEN startup_paused ELSE paused

(* The request becomes the current track, or is dropped if it is stale. *)
Publish ==
    /\ pc = "publish"
    /\ IF Current
       THEN /\ paused' = FirstPause
            /\ startup_pending' = FALSE /\ have_current' = TRUE
            /\ counter_generation' = cur_generation
            /\ playback_progress_state' = "ACTIVE"
            /\ Goto("loop")
            /\ UNCHANGED cur_dec
       ELSE /\ cur_dec' = NoTrack
            /\ Goto("finish")
            /\ UNCHANGED <<paused, startup_pending, have_current,
                           counter_generation, playback_progress_state>>
    /\ UNCHANGED <<stop_requested, restart_requested, restart_path, startup_paused,
                   events, staging, playback_generation, active_path,
                   request_generation, seek_pending, startup, local_output_active,
                   cur_generation, cur_path, nxt_dec, locals, waiting>>
------------------------------------------------------------------------------
(* The worker: the playback loop. *)

(* Leaves the playback loop on an error: published whatever the API did     *)
(* meanwhile, under the generation of the track that failed.                *)
Fails(kind) ==
    /\ error' = [kind |-> kind, gen |-> cur_generation]
    /\ have_current' = FALSE /\ paused' = FALSE
    /\ playback_progress_state' = "NOT_READY"
    /\ exit' = "failed"
    /\ Goto("unwind")
    /\ UNCHANGED <<stop_requested, restart_requested, restart_path, startup_pending,
                   startup_paused, track_finished, track_advanced, staging,
                   playback_generation, active_path, counter_generation,
                   request_generation, seek_pending, startup, local_output_active,
                   cur_generation, cur_path, cur_dec, staged, dr,
                   observed_generation, waiting>>

(* Everything but the worker's position and the decoders stays. *)
OnlyDecoders == UNCHANGED <<transport, events, staging, owner, seek_pending, startup,
                            local_output_active, cur_generation, cur_path,
                            locals, waiting>>

PauseOutput_KeepsOutput ==
    /\ pc = "loop"
    /\ paused /\ ~stop_requested /\ ~restart_requested
    /\ Goto("held")
    /\ UNCHANGED <<cur_dec, nxt_dec>> /\ OnlyDecoders

(* While paused the output is closed, so the amplifier is off. *)
PauseOutput ==
    /\ pc = "loop"
    /\ paused /\ ~stop_requested /\ ~restart_requested
    /\ local_output_active' = FALSE
    /\ Goto("held")
    /\ UNCHANGED <<transport, events, staging, owner, seek_pending, startup,
                   decoders, locals, waiting>>

HeldPaused_DeafToStop == paused /\ ~restart_requested /\ seek_pending = 0
HeldPaused == paused /\ ~stop_requested /\ ~restart_requested /\ seek_pending = 0

HeldWait ==
    /\ AtHeld /\ HeldPaused
    /\ Sleep
    /\ Goto("held")

HeldPlaysClip ==
    /\ AtHeld /\ HeldPaused
    /\ PlayClip("held_clip")

------------------------------------------------------------------------------
(* The worker: run_loop_clip_locked(), from the idle and the paused wait.    *)

(* A chunk was copied and the mutex let go: whatever happens to the clip or  *)
(* the transport now, the output is taken for that chunk.                    *)
ClipTakes ==
    /\ pc \in {"clip", "held_clip"}
    /\ local_output_active' = TRUE
    /\ Goto(IF pc = "clip" THEN "clip_play" ELSE "held_play")
    /\ UNCHANGED <<transport, events, staging, owner, seek_pending, startup,
                   decoders, locals, waiting>>

(* loop_clip_may_run_locked() *)
ClipMayRun ==
    /\ loop_clip /\ ~restart_requested /\ ~stop_requested
    /\ pc \in HeldClip => paused /\ seek_pending = 0

(* The chunk is written, or the output failed or belongs to another producer *)
(* and is let go until the next attempt.                                     *)
ClipPlays ==
    /\ pc \in {"clip_play", "held_play"}
    /\ local_output_active' \in BOOLEAN
    /\ Goto(IF ClipMayRun
            THEN IF pc = "clip_play" THEN "clip" ELSE "held_clip"
            ELSE IF pc = "clip_play" THEN "clip_close" ELSE "held_close")
    /\ UNCHANGED <<transport, events, staging, owner, seek_pending, startup,
                   decoders, locals, waiting>>

ClipCloses ==
    /\ pc \in {"clip_close", "held_close"}
    /\ local_output_active' = FALSE
    /\ Goto(IF pc = "clip_close" THEN "clip_end" ELSE "held_end")
    /\ UNCHANGED <<transport, events, staging, owner, seek_pending, startup,
                   decoders, locals, waiting>>

------------------------------------------------------------------------------
(* The worker: commands and the successor, read at the top of an iteration.  *)

(* One iteration: read the commands and the armed successor in one critical *)
(* section, reacquire the output, and act on what was read.                 *)
Snapshot ==
    /\ \/ AtHeld /\ ~HeldPaused
       \/ pc = "loop" /\ (~paused \/ stop_requested \/ restart_requested)
    /\ staged' = IF next_path = NoTrack THEN NoStaged
                 ELSE [path |-> next_path, gen |-> next_track_generation]
    /\ seek_pending' = 0
    /\ EndClip
    /\ local_output_active' = TRUE
    /\ LET do_seek == seek_pending # 0 /\ seek_pending = cur_generation
       IN  CASE stop_requested \/ restart_requested ->
                  /\ exit' = IF restart_requested THEN "restart" ELSE "stop"
                  /\ Goto("unwind")
             [] ~(stop_requested \/ restart_requested) /\ do_seek ->
                  Goto("seek") /\ UNCHANGED exit
             [] ~(stop_requested \/ restart_requested) /\ ~do_seek /\ paused ->
                  Goto("loop") /\ UNCHANGED exit
             [] OTHER ->
                  /\ \/ Goto("decode")
                     \/ crossfade_enabled /\ next_path # NoTrack /\ Goto("prefetch")
                  /\ UNCHANGED exit
    /\ UNCHANGED <<transport, events, next_path, next_track_generation,
                   crossfade_enabled, owner, startup, decoders, dr,
                   observed_generation, waiter_gen>>

(* A seek drops the prefetched successor; a failed one reopens the decoder  *)
(* where it was.  A source that cannot seek ignores it.                     *)
SeekDone ==
    /\ pc = "seek"
    /\ nxt_dec' \in {nxt_dec, NoTrack}
    /\ Goto("loop")
    /\ UNCHANGED cur_dec /\ OnlyDecoders

SeekFails ==
    /\ pc = "seek"
    /\ nxt_dec' = NoTrack
    /\ Fails("DECODER_FAILED")

------------------------------------------------------------------------------
(* The worker: the crossfade window. *)

(* The first iteration inside the window opens the successor. *)
Prefetch ==
    /\ pc = "prefetch"
    /\ nxt_dec' \in IF nxt_dec = NoTrack THEN {staged.path, NoTrack} ELSE {nxt_dec}
    /\ Goto(IF nxt_dec' # NoTrack /\ Formats[nxt_dec'] = Formats[cur_dec]
            THEN "blend" ELSE "decode")
    /\ UNCHANGED cur_dec /\ OnlyDecoders

(* The current track is read first: it can fail, end early, or simply end.  *)
BlendRead ==
    /\ pc = "blend"
    /\ Goto("mix")
    /\ UNCHANGED <<cur_dec, nxt_dec>> /\ OnlyDecoders

BlendReadFails ==
    /\ pc = "blend"
    /\ nxt_dec' = NoTrack
    /\ Fails("DECODER_FAILED")

BlendEOF ==
    /\ pc = "blend"
    /\ dr' = 0
    /\ Goto("blend_recover")
    /\ UNCHANGED <<transport, events, staging, owner, seek_pending, startup,
                   local_output_active, decoders, staged, exit,
                   observed_generation, waiting>>

(* The mixed chunk is out and more of the window is left, or the write was  *)
(* aborted by a command.                                                    *)
MixChunk ==
    /\ pc = "mix"
    /\ Goto("loop")
    /\ UNCHANGED <<cur_dec, nxt_dec>> /\ OnlyDecoders

(* The successor cannot be decoded: its decoder is closed and the chunk is  *)
(* written alone.                                                           *)
MixNextFails ==
    /\ pc = "mix"
    /\ nxt_dec' = NoTrack
    /\ Goto("write")
    /\ UNCHANGED cur_dec /\ OnlyDecoders

MixWriteFails ==
    /\ pc = "mix"
    /\ nxt_dec' = NoTrack
    /\ Fails("OUTPUT_FAILED")

BlendDone ==
    /\ pc \in {"blend", "mix"}
    /\ Goto("promote")
    /\ UNCHANGED <<cur_dec, nxt_dec>> /\ OnlyDecoders

(* snap_still_valid: nobody armed another track, stopped or started one     *)
(* since the snapshot.                                                      *)
SnapStillValid ==
    /\ staged.gen = next_track_generation
    /\ playback_generation = cur_generation
    /\ ~stop_requested /\ ~restart_requested
    /\ staged.path # NoTrack /\ next_path = staged.path

Adopt_ForgetsWorker(g) == cur_generation' = cur_generation /\ counter_generation' = g
Adopt(g) == cur_generation' = g /\ counter_generation' = g

(* The prefetched decoder becomes the current one, under the armed path. *)
Promote ==
    /\ cur_dec' = nxt_dec /\ nxt_dec' = NoTrack
    /\ cur_path' = next_path /\ next_path' = NoTrack
    /\ active_path' = next_path
    /\ playback_generation' = playback_generation + 1
    /\ Adopt(playback_generation + 1)
    /\ seek_pending' = 0
    /\ track_advanced' = TRUE
    /\ UNCHANGED <<stop_requested, restart_requested, restart_path, startup_pending,
                   startup_paused, track_finished, next_track_generation,
                   crossfade_enabled, loop_clip, request_generation, startup, staged, dr,
                   observed_generation, waiting>>

DropPrefetch ==
    /\ nxt_dec' = NoTrack
    /\ Goto("loop")
    /\ UNCHANGED cur_dec /\ OnlyDecoders

CrossfadePromote ==
    /\ pc = "promote" /\ SnapStillValid
    /\ Promote
    /\ playback_progress_state' = "ACTIVE"
    /\ Goto("loop")
    /\ UNCHANGED <<have_current, paused, error, local_output_active, exit>>

CrossfadeStale == pc = "promote" /\ ~SnapStillValid /\ DropPrefetch

------------------------------------------------------------------------------
(* The worker: plain playback and the end of the track. *)

DecodeChunk ==
    /\ pc = "decode"
    /\ Goto("write")
    /\ UNCHANGED <<cur_dec, nxt_dec>> /\ OnlyDecoders

DecodeFails == /\ pc = "decode"
               /\ Fails("DECODER_FAILED")
               /\ UNCHANGED nxt_dec

PrematureEOF ==
    /\ pc = "decode"
    /\ dr' = 0
    /\ Goto("recover")
    /\ UNCHANGED <<transport, events, staging, owner, seek_pending, startup,
                   local_output_active, decoders, staged, exit,
                   observed_generation, waiting>>

MoreAttempts == dr < MaxReopen

(* Bounded recovery from a premature end: every attempt looks at the        *)
(* commands first, reopens the decoder and reads.                           *)
Reopen ==
    /\ pc \in {"recover", "blend_recover"} /\ MoreAttempts
    /\ ~stop_requested /\ ~restart_requested
    /\ \/ Goto(IF pc = "recover" THEN "write" ELSE "mix") /\ UNCHANGED dr
       \/ dr' = dr + 1 /\ UNCHANGED pc
    /\ UNCHANGED <<transport, events, staging, owner, seek_pending, startup,
                   local_output_active, decoders, staged, exit,
                   observed_generation, waiting>>

(* Aborted or exhausted, the outcome is the same: the track failed. *)
RecoveryFails ==
    /\ pc \in {"recover", "blend_recover"}
    /\ dr = MaxReopen \/ stop_requested \/ restart_requested
    /\ nxt_dec' = IF pc = "recover" THEN nxt_dec ELSE NoTrack
    /\ Fails("DECODER_FAILED")

(* The end of the track, with a successor that opens (or is already open):  *)
(* hand over to it.                                                         *)
EofHandoff ==
    /\ pc = "decode"
    /\ nxt_dec # NoTrack \/ staged.path # NoTrack
    /\ nxt_dec' = IF nxt_dec = NoTrack THEN staged.path ELSE nxt_dec
    /\ Goto("handoff")
    /\ UNCHANGED cur_dec /\ OnlyDecoders

(* The end of the track with nothing to hand over to. *)
EofEnds ==
    /\ pc = "decode"
    /\ nxt_dec = NoTrack
    /\ exit' = IF staged.path = NoTrack /\ cur_path \in LocalTracks
               THEN "natural_eof" ELSE "ended"
    /\ Goto("unwind")
    /\ UNCHANGED <<transport, events, staging, owner, seek_pending, startup,
                   local_output_active, decoders, staged, dr,
                   observed_generation, waiting>>

Handoff ==
    /\ pc = "handoff" /\ SnapStillValid
    /\ Goto("commit")
    /\ UNCHANGED <<cur_dec, nxt_dec>> /\ OnlyDecoders

(* Checked again: setting the output up for the successor took its time. *)
GaplessPromote ==
    /\ pc = "commit" /\ SnapStillValid
    /\ Promote
    /\ local_output_active' = TRUE
    /\ playback_progress_state' = "ACTIVE"
    /\ Goto("loop")
    /\ UNCHANGED <<have_current, paused, error, exit>>

(* The successor takes over, but the output would not open for it. *)
GaplessOutputFails ==
    /\ pc = "commit" /\ SnapStillValid
    /\ Promote
    /\ local_output_active' = TRUE
    /\ error' = [kind |-> "OUTPUT_FAILED", gen |-> playback_generation']
    /\ have_current' = FALSE /\ paused' = FALSE
    /\ playback_progress_state' = "NOT_READY"
    /\ exit' = "failed"
    /\ Goto("unwind")

HandoffStale == pc \in {"handoff", "commit"} /\ ~SnapStillValid /\ DropPrefetch

(* write_device_with_retry(): abort on a command, else write. *)
WriteCheck ==
    /\ pc = "write"
    /\ Goto(IF stop_requested \/ restart_requested THEN "loop" ELSE "writing")
    /\ UNCHANGED <<cur_dec, nxt_dec>> /\ OnlyDecoders

Written ==
    /\ pc = "writing"
    /\ Goto("loop")
    /\ UNCHANGED <<cur_dec, nxt_dec>> /\ OnlyDecoders

(* A command between closing and reopening the output for another attempt. *)
RetryAborted ==
    /\ pc \in {"writing", "mix"}
    /\ stop_requested \/ restart_requested
    /\ local_output_active' = FALSE
    /\ Goto("loop")
    /\ UNCHANGED <<transport, events, staging, owner, seek_pending, startup,
                   decoders, locals, waiting>>

WriteFails == /\ pc = "writing"
              /\ Fails("OUTPUT_FAILED")
              /\ UNCHANGED nxt_dec

------------------------------------------------------------------------------
(* The worker: leaving the loop (inner_loop_done). *)

(* What is local to the loop is forgotten with it. *)
LeavesLoop ==
    /\ pc = "unwind"
    /\ staged' = NoStaged /\ dr' = 0
    /\ UNCHANGED <<transport, events, staging, owner, seek_pending, startup,
                   local_output_active, decoders, exit, observed_generation, waiting>>

Unwind_SkipsClose ==
    LeavesLoop /\ Goto(IF exit = "restart" THEN "idle" ELSE "settle")

(* A restart keeps the output and the decoders for the next request. *)
Unwind == LeavesLoop /\ Goto(IF exit = "restart" THEN "idle" ELSE "close")

Close ==
    /\ pc = "close"
    /\ cur_dec' = NoTrack /\ nxt_dec' = NoTrack /\ cur_path' = NoTrack
    /\ local_output_active' = FALSE
    /\ Goto("settle")
    /\ UNCHANGED <<transport, events, staging, owner, seek_pending, startup,
                   cur_generation, locals, waiting>>

TerminalProgress_ExitOnly ==
    IF exit = "stop" THEN "MANUAL_STOP"
    ELSE IF exit = "natural_eof" THEN "NATURAL_EOF" ELSE "NOT_READY"

(* preserve_terminal_progress *)
TerminalProgress ==
    IF /\ exit \in {"stop", "natural_eof"}
       /\ playback_generation = cur_generation
       /\ counter_generation = cur_generation
       /\ playback_progress_state = "ACTIVE"
       /\ error.gen # cur_generation
    THEN IF exit = "stop" THEN "MANUAL_STOP" ELSE "NATURAL_EOF"
    ELSE "NOT_READY"

Settle ==
    /\ pc = "settle"
    /\ playback_progress_state' = TerminalProgress
    /\ have_current' = FALSE /\ paused' = FALSE
    /\ track_finished' = (track_finished \/ exit \in {"ended", "natural_eof"})
    /\ stop_requested' = (stop_requested /\ exit # "stop")
    /\ exit' = "none"
    /\ Goto("idle")
    /\ UNCHANGED <<restart_requested, restart_path, startup_pending, startup_paused,
                   track_advanced, error, staging, playback_generation, active_path,
                   counter_generation, request_generation, seek_pending, startup,
                   local_output_active, decoders, staged, dr, observed_generation,
                   waiting>>

------------------------------------------------------------------------------
Api == \/ \E p \in Tracks : PlayFile(p)
       \/ \E p \in Paths : SetNextTrack(p)
       \/ \E p \in Tracks, g \in 0..playback_generation : SetNextTrackForGeneration(p, g)
       \/ \E on \in Crossfades : SetCrossfade(on)
       \/ LoopStart \/ LoopStop
       \/ TogglePause \/ Stop \/ Seek
       \/ ConsumeError \/ ConsumeAdvanced \/ ConsumeFinished

Waiter == WaitSleep \/ WaitReturn

Clipping == \/ IdlePlaysClip \/ HeldPlaysClip
            \/ ClipTakes \/ ClipPlays \/ ClipCloses

Starting == \/ PrimeTakes \/ PrimeEnds
            \/ IdleWait \/ IdleStop \/ IdleRestart
            \/ FinishLook \/ FinishClose \/ FinishAck
            \/ ReadTags \/ CancelCheck \/ OpenFails \/ Open
            \/ OutputLook \/ OutputReady \/ OutputFails \/ Publish

Blending == \/ Prefetch \/ BlendRead \/ BlendReadFails \/ BlendEOF \/ BlendDone
            \/ MixChunk \/ MixNextFails \/ MixWriteFails
            \/ CrossfadePromote \/ CrossfadeStale

Playing == \/ PauseOutput \/ HeldWait \/ Snapshot \/ SeekDone \/ SeekFails
           \/ DecodeChunk \/ DecodeFails \/ PrematureEOF \/ Reopen \/ RecoveryFails
           \/ EofHandoff \/ EofEnds \/ Handoff \/ GaplessPromote \/ GaplessOutputFails
           \/ HandoffStale \/ WriteCheck \/ Written \/ RetryAborted \/ WriteFails

Ending == Unwind \/ Close \/ Settle

Worker == Starting \/ Clipping \/ Blending \/ Playing \/ Ending

Next == Api \/ WaitBegin \/ Waiter \/ Worker

Safety == Init /\ [][Next]_vars

(* The worker and the waiter are threads that run whenever they can; what   *)
(* they call (decoders, output, tag reader) returns.  Callers owe nothing.  *)
Spec == Safety /\ WF_vars(Worker) /\ WF_vars(Waiter)
------------------------------------------------------------------------------
(* Properties. *)

(* While no command is outstanding, the track the worker plays is the track *)
(* every getter talks about: its generation, its path, its counters.  Broken *)
(* if a request, a Stop or a promotion updated only one of the two sides.   *)
WorkerOwnsTheTrack ==
    pc \in Inner /\ ~stop_requested /\ ~restart_requested
        => /\ cur_generation = playback_generation
           /\ counter_generation = playback_generation
           /\ active_path = cur_path
           /\ have_current /\ ~startup_pending

(* A request that is still starting is never orphaned: it is queued, or the *)
(* worker is starting exactly it.  And Stop and a queued request exclude    *)
(* each other, whoever came last.                                           *)
RequestIsServed ==
    /\ startup_pending => \/ restart_requested
                          \/ pc \in Startup /\ cur_generation = playback_generation
    /\ restart_requested => startup_pending /\ ~stop_requested /\ restart_path = active_path

(* Trusted counters belong to the current generation; a terminal state is   *)
(* kept only with the decoder gone and for a track that did not fail.       *)
ProgressIsTrusted ==
    playback_progress_state # "NOT_READY" =>
        /\ counter_generation = playback_generation
        /\ playback_progress_state = "ACTIVE" \/ ~have_current
        /\ error.gen # playback_generation

(* The tags handed to the metadata worker are those of the latest request,  *)
(* even when an older file was still being read as it was made.             *)
TagsAreOfTheRequest ==
    startup_metadata # 0 => startup_metadata = request_generation

(* A start-up the user stopped never reports an error afterwards. *)
StoppedStartupIsSilent ==
    stopped_startup_generation # 0 => error.gen # stopped_startup_generation

(* What audio_wait_track_metadata() distinguishes: STOPPED means nothing    *)
(* newer was requested, REPLACED that something newer was requested or      *)
(* reached, READY that the tags are the waiter's own.                       *)
WaitResultIsRight ==
    waiter_gen # 0 /\ ~WaitBlocked(waiter_gen) =>
        CASE WaitResult(waiter_gen) = "STOPPED"  -> request_generation = waiter_gen
          [] WaitResult(waiter_gen) = "REPLACED" -> \/ request_generation > waiter_gen
                                                    \/ counter_generation > waiter_gen
          [] OTHER -> startup_metadata = request_generation

(* audio_is_idle() is what other producers wait for: once it is true, no    *)
(* request, start-up, promotion or failure path the engine may be in takes  *)
(* the output.  What does take it then is the priming at start-up, and a    *)
(* loop clip, which audio.h:234-236 lets play while stopped: also the chunk *)
(* that was copied before audio_loop_stop() or a Stop came.                 *)
OnlyClipsTakeIdleOutput ==
    [][audio_is_idle /\ local_output_active' => pc \in {"prime", "clip"}]_vars

(* A Stop that is not overtaken by a request is acknowledged only after the *)
(* output was released.                                                     *)
StopAcknowledgedReleased ==
    [][stop_requested /\ ~stop_requested' /\ playback_generation' = playback_generation
           => ~local_output_active]_vars

(* Liveness: a Stop is acknowledged, a request is answered, a waiter        *)
(* returns (no lost wake-up), and a lasting pause without a loop clip       *)
(* releases the output.                                                     *)
StopIsAcknowledged == stop_requested ~> ~stop_requested
RequestIsAnswered == startup_pending ~> ~startup_pending
WaiterReturns == waiter_gen # 0 ~> waiter_gen = 0
PauseReleasesOutput ==
    <>[](have_current /\ paused /\ ~loop_clip) => []<>~local_output_active

(* The engine implements the session its API promises. *)
Transport == INSTANCE TransportSession WITH
    session <- IF stop_requested THEN "stopping"
               ELSE IF startup_pending THEN "starting"
               ELSE IF have_current THEN "playing" ELSE "idle",
    held <- audio_is_paused,
    generation <- playback_generation

ImplementsSession == Transport!Spec

------------------------------------------------------------------------------
(* Why the properties hold: an inductive invariant, in parts. *)

(* Stop and a starting request exclude each other; a starting request has   *)
(* the latest generation, no error of its own and no trusted counters yet.  *)
PendingIsFresh ==
    startup_pending => /\ ~stop_requested
                       /\ error.gen < playback_generation
                       /\ request_generation = playback_generation
                       /\ playback_progress_state = "NOT_READY"

(* Generations only grow: the worker's is behind as soon as a request waits,*)
(* and so is that of an error or of a stopped start-up.                     *)
GenerationsAreOrdered ==
    /\ cur_generation <= playback_generation
    /\ restart_requested => cur_generation < playback_generation
    /\ error.gen <= playback_generation
    /\ stopped_startup_generation # 0 => stopped_startup_generation < playback_generation

(* Without a command in between, the request the worker starts is the       *)
(* pending one.                                                             *)
StartupIsCurrent ==
    pc \in Startup /\ ~stop_requested /\ ~restart_requested
        => /\ cur_generation = playback_generation
           /\ active_path = cur_path
           /\ startup_pending

(* What plays was published, so it is not the start-up that was stopped. *)
PlayingWasNotStopped ==
    pc \in Inner /\ stopped_startup_generation # 0
        => cur_generation # stopped_startup_generation

(* The output is closed before the worker acknowledges, and its own while   *)
(* the priming or a chunk of an idle clip uses it.                          *)
OutputMatchesPlace ==
    /\ pc \in {"finish_ack", "settle"} => ~local_output_active
    /\ pc \in {"primed", "clip_play"} => local_output_active

TrustedHasAGeneration ==
    playback_progress_state # "NOT_READY" => playback_generation > 0

Inv == /\ TypeOK
       /\ RequestIsServed
       /\ PendingIsFresh
       /\ GenerationsAreOrdered
       /\ StartupIsCurrent
       /\ WorkerOwnsTheTrack
       /\ ProgressIsTrusted
       /\ TrustedHasAGeneration
       /\ TagsAreOfTheRequest
       /\ PlayingWasNotStopped
       /\ StoppedStartupIsSilent
       /\ OutputMatchesPlace

------------------------------------------------------------------------------
(* What the comments of the code say, and the code does not do. *)

(* audio.h:420: finished is the end of the current track, so it is never    *)
(* visible while a newer request is starting.                               *)
FinishedIsCurrent == track_finished => ~startup_pending

(* audio.c:4944: a prefetch is discarded when another track was armed, so   *)
(* what is decoded is what active_path names.                               *)
DecodesWhatItNames == pc \in Inner => cur_dec = cur_path

(* audio.h:236: starting a track ends the clip, so it is over when the      *)
(* worker takes a request.  It is not if the clip had not begun to play.    *)
ClipEndsWithTheStart ==
    [][pc' \in Startup /\ pc \notin Startup => ~loop_clip']_vars

(* audio.h:445: an error is an unrecoverable one, so EOF recovery reports   *)
(* it only after its attempts, not because a command interrupted them.      *)
RecoveryErrorIsExhausted ==
    [][error' # error /\ error'.kind # "NONE" /\ pc \in {"recover", "blend_recover"}
           => dr = MaxReopen]_vars
=============================================================================

---------------------------- MODULE PlayerControl ----------------------------
(* The player screen (ui/player/screen/gui_player.c) between the queue and   *)
(* the audio engine.                                                          *)
(*                                                                            *)
(* Every action of the user, and the poll that runs all the time, is one      *)
(* callback of the UI thread: it runs to its end before the next one, while   *)
(* the audio thread moves on by itself.  A callback maps a world - the queue, *)
(* the engine, the state of the screen - to the set of worlds it may leave    *)
(* behind; the choices are those of the shuffle.                              *)
(*                                                                            *)
(* The engine appears as the screen sees it, through the interface the module *)
(* AudioEngine models.  Only comparisons of generations matter here, so the   *)
(* screen keeps how its own number compares with the engine's.  Whether a     *)
(* press of Play resumes or starts the current track again (a deferred        *)
(* resume, an output taken over) is a choice; otherwise pausing and seeking   *)
(* only forget the failures.                                                  *)
EXTENDS PlayerQueue

CONSTANTS NoTrack,
          Lists,             \* the track lists a collection or a folder may hold
          PlayModes,         \* the modes in use
          Failures,          \* the kinds of failure that occur
          MaxQueue,          \* tracks that fit into the queue
          ExternalDac        \* whether another device may own the output

ASSUME NoTrackAssumption == NoTrack \notin Tracks
ASSUME PlayModesAssumption == PlayModes \subseteq Modes
ASSUME MaxQueueAssumption == MaxQueue \in Nat
ASSUME FailuresAssumption == Failures \subseteq {"OUTPUT", "DECODER"}
ASSUME ListsAssumption == Lists \subseteq Seq(Tracks) \ {<<>>}

VARIABLES queue, engine, ui

vars == <<queue, engine, ui>>
world == [q |-> queue, e |-> engine, u |-> ui]

Stale == [paths |-> <<NoTrack>>, current |-> -1]

IdleEngine == [active   |-> NoTrack,     \* being started or played
               next     |-> NoTrack,     \* next_path
               advanced |-> FALSE, finished |-> FALSE, error |-> "NONE"]

FreshScreen(mode) ==
    [mode     |-> mode,        \* current_settings.play_mode
     gen      |-> "none",      \* current_playback_generation: 0, the engine's or older
     wanted   |-> NoTrack,     \* the successor whose metadata were asked for
     armed    |-> NoTrack,     \* armed_next_path, of the engine's generation
     failed   |-> {}, skips |-> 0,
     shown    |-> Stale]       \* the queue screen, Stale once its revision is old

SomeOrders == {NoOrder} \cup UNION {Orders(Len(l)) : l \in Lists}

(* A queue as install_saved_resume_playlist() and prepare_deferred_resume()   *)
(* build it from a checkpoint.                                                *)
Restored(mode) ==
    {q \in [paths : Lists, current : 0..MaxQueue, pending : 0..MaxQueue, insert : -1..MaxQueue,
            order : SomeOrders, pos : -1..MaxQueue, cont : SomeOrders] :
        /\ q.insert = InsertIndex(q.current, q.pending)
        /\ UsesShuffleBag(mode) \/ (q.order = NoOrder /\ q.pos = -1)
        /\ mode = "SHUFFLE" \/ q.cont = NoOrder
        /\ CheckpointReadable(q, mode)}

Init == /\ engine = IdleEngine
        /\ \E mode \in PlayModes :
              /\ queue \in {EmptyQueue} \cup Restored(mode)
              /\ ui = FreshScreen(mode)
------------------------------------------------------------------------------
(* What the callbacks are made of. *)

reset_decoder_failure_tracking(w) == [w EXCEPT !.u.failed = {}, !.u.skips = 0]

PathOf(q, i) == IF InQueue(q, i) THEN PathAt(q, i) ELSE NoTrack

Armed_SameRevision(w, prepared) ==
    LET path == PathOf(prepared, AutoAdvanceIndex(prepared, w.u.mode))
        kept == path # NoTrack /\ w.u.armed = path
    IN  [q |-> prepared,
         e |-> [w.e EXCEPT !.next = IF kept THEN @ ELSE NoTrack],
         u |-> [w.u EXCEPT !.armed = IF kept THEN @ ELSE NoTrack, !.wanted = path]]

Armed(w, prepared) ==
    LET path == PathOf(prepared, AutoAdvanceIndex(prepared, w.u.mode))
        kept == path # NoTrack /\ w.u.armed = path
    IN  [q |-> prepared,
         e |-> [w.e EXCEPT !.next = IF kept THEN @ ELSE NoTrack],
         u |-> [w.u EXCEPT !.armed = IF kept THEN @ ELSE NoTrack,
                           !.wanted = path, !.shown = Stale]]

(* arm_next_track_for_audio(): predict, drop what was armed unless it is the  *)
(* same, and ask for the metadata of what should be armed.                    *)
arm_next_track_for_audio(w) == {Armed(w, r) : r \in note_next_armed(w.q, w.u.mode)}

Started(w, i) ==
    [q |-> select_physical(w.q, i),
     e |-> [IdleEngine EXCEPT !.active = PathAt(w.q, i)],
     u |-> [w.u EXCEPT !.gen = "synced", !.armed = NoTrack]]

play_track_at_from_internal(w, i) ==
    IF ~InQueue(w.q, i) THEN {w}
    ELSE arm_next_track_for_audio(Started(w, i)) \cup (IF ExternalDac THEN {w} ELSE {})

play_track_at(w, i) == play_track_at_from_internal(reset_decoder_failure_tracking(w), i)

on_track_auto_advanced(w, i) ==
    arm_next_track_for_audio([w EXCEPT !.q = select_physical(@, i), !.u.gen = "synced"])

(* The queue moves on by itself: After is what follows in the world where it  *)
(* moved to a slot, AtEnd is the one where it cannot.                         *)
Advanced(w, After(_, _)) ==
    LET Moved(r) ==
            LET i == AutoAdvanceIndex(r, w.u.mode)
                reset == reset_decoder_failure_tracking(w)
            IN  IF i < 0 THEN {[reset EXCEPT !.q = r]}
                ELSE After([reset EXCEPT !.q = commit_auto_advance(r, w.u.mode)], i)
    IN  IF w.q.current < 0 THEN {w}
        ELSE UNION {Moved(r) : r \in ReadyToAdvance(w.q, w.u.mode)}

handle_auto_advance(w) == Advanced(w, on_track_auto_advanced)
handle_track_finished(w) == Advanced(w, play_track_at_from_internal)

(* if (audio_consume_track_advanced()) gui_player_handle_auto_advance(), as   *)
(* the callbacks that edit the queue begin.                                   *)
Settled(w) == IF w.e.advanced THEN handle_auto_advance([w EXCEPT !.e.advanced = FALSE]) ELSE {w}

Then(worlds, Op(_)) == UNION {Op(w) : w \in worlds}
AfterSettling(w, Op(_)) == Then(Settled(w), Op)

free_playlist(w) ==
    [reset_decoder_failure_tracking(w)
        EXCEPT !.q = EmptyQueue, !.u.gen = "none", !.u.wanted = NoTrack, !.u.shown = Stale]

set_play_mode(w, mode) ==
    LET m == [w EXCEPT !.u.mode = mode]
    IN  IF w.q.current >= 0 THEN arm_next_track_for_audio(m) ELSE {m}

(* audio_stop(): a start that is cancelled takes a generation of its own.     *)
audio_stop(w) ==
    LET stopped == [w EXCEPT !.e.active = NoTrack]
    IN  {stopped, [stopped EXCEPT !.u.gen = IF @ = "none" THEN @ ELSE "behind",
                                  !.u.armed = NoTrack, !.u.wanted = NoTrack]}
------------------------------------------------------------------------------
(* A failed track (gui_player_handle_playback_error_ex). *)

MaxSkips(q) == Lesser(Count(q), 5)

SkippedFailed(w) ==
    LET path == PathOf(w.q, w.q.current)
        seen == [w EXCEPT !.u.failed = @ \cup ({path} \ {NoTrack}), !.u.skips = @ + 1]
        Result(r) == LET s == [seen EXCEPT !.q = r[1]]
                     IN  IF r[2] < 0 THEN {reset_decoder_failure_tracking(s)}
                         ELSE play_track_at_from_internal(s, r[2])
    IN  IF seen.u.skips >= MaxSkips(w.q) THEN {reset_decoder_failure_tracking(seen)}
        ELSE UNION {Result(r) : r \in advance_past_failed(w.q, w.u.mode, seen.u.failed)}

FailureHandled(w, error) ==
    IF error = "OUTPUT" THEN {w} ELSE SkippedFailed(w)

(* A failure of a generation newer than the screen's is that of a successor   *)
(* it has not noticed yet: it catches up first, or gives the failure up.      *)
handle_playback_error(w, error) ==
    LET caught_up == handle_auto_advance([w EXCEPT !.e.advanced = FALSE])
    IN  IF w.q.current < 0 THEN {w}
        ELSE IF w.u.gen # "behind" THEN FailureHandled(w, error)
        ELSE IF ~w.e.advanced THEN {w}
        ELSE UNION {IF s.u.gen = "behind" THEN {s} ELSE FailureHandled(s, error)
                       : s \in caught_up}
------------------------------------------------------------------------------
(* The callbacks. *)

(* player_ui_timer_cb(): the events of the engine, one at a time; the         *)
(* metadata of the successor, if they arrived; three seconds of a track that  *)
(* plays; the prediction for the waveform.                                    *)
EventTaken(w) ==
    IF w.e.error # "NONE" THEN handle_playback_error([w EXCEPT !.e.error = "NONE"], w.e.error)
    ELSE IF w.e.advanced THEN Settled(w)
    ELSE IF w.e.finished THEN handle_track_finished([w EXCEPT !.e.finished = FALSE])
    ELSE {w}

(* The engine gets the successor unless it already has it; one that was told  *)
(* to stop refuses it.                                                        *)
MetadataTaken(w) ==
    LET given == [w EXCEPT !.u.armed = w.u.wanted, !.e.next = w.u.wanted]
        refused == IF w.e.active = NoTrack THEN {w} ELSE {}
    IN  IF w.u.wanted = NoTrack \/ ~HasActiveTrack(w.q) \/ w.u.armed = w.u.wanted THEN {w}
        ELSE {given} \cup refused

MaybeMetadataTaken(w) == {w} \cup MetadataTaken(w)

PlaybackConfirmed(w) ==
    {w} \cup (IF w.u.skips > 0 /\ w.e.active # NoTrack
              THEN {reset_decoder_failure_tracking(w)} ELSE {})

WaveformPredicted(w) ==
    {w} \cup (IF w.e.active # NoTrack /\ HasActiveTrack(w.q)
              THEN {[w EXCEPT !.q = r] : r \in ReadyToAdvance(w.q, w.u.mode)} ELSE {})

Polled(w) ==
    Then(Then(Then(EventTaken(w), MaybeMetadataTaken), PlaybackConfirmed), WaveformPredicted)

ReadyQueue(w, list) ==
    [free_playlist(w) EXCEPT !.q = install(list, 0, Len(list) - 1, NoOrder)]

(* gui_player_queue_try_add_many() *)
QueueTried(w, new) ==
    IF HasActiveTrack(w.q) THEN arm_next_track_for_audio([w EXCEPT !.q = try_add_many(@, new)])
    ELSE {ReadyQueue(w, new)}

PlayNextTried(w, path) ==
    IF HasActiveTrack(w.q) THEN arm_next_track_for_audio([w EXCEPT !.q = play_next(@, path)])
    ELSE QueueTried(w, <<path>>)

EditTried(w, from, to) ==
    IF w.u.shown = Stale THEN {w}
    ELSE UNION {IF EditValid(r, w.u.mode, from, to)
                THEN arm_next_track_for_audio([w EXCEPT !.q = Edited(r, w.u.mode, from, to)])
                ELSE {[w EXCEPT !.q = r]} : r \in Prepared(w.q, w.u.mode)}

SelectTried(w, i) ==
    IF w.u.shown = Stale \/ ~InQueue(w.q, i) THEN {w}
    ELSE UNION {play_track_at([w EXCEPT !.q = Selected(r, w.u.mode, i)], i)
                   : r \in Prepared(w.q, w.u.mode)}

ClearTried(w) ==
    IF ~HasActiveTrack(w.q) THEN {w}
    ELSE UNION {arm_next_track_for_audio([w EXCEPT !.q = r])
                   : r \in clear_to_current(w.q, w.u.mode)}

(* queue_start(): play what the screen shows from a slot, in a new mode.      *)
Restart(w, i, mode) ==
    UNION {UNION {play_track_at(m, i)
                     : m \in set_play_mode([w EXCEPT !.q = RestartedDisplayed(r, w.u.mode, i)], mode)}
              : r \in Prepared(w.q, w.u.mode)}

(* Previous and Next; what they do within the track (rewind, skip) only      *)
(* forgets the failures.                                                      *)
StepTried(w, direction) ==
    LET reset == reset_decoder_failure_tracking(w)
        Result(r) == LET s == [reset EXCEPT !.q = r[1]]
                     IN  IF r[2] < 0 THEN {s} ELSE play_track_at(s, r[2])
    IN  {reset} \cup UNION {Result(r) : r \in manual_step(w.q, w.u.mode, direction)}

(* Play and pause: only a start of the current track changes more. *)
PlayToggled(w) ==
    {reset_decoder_failure_tracking(w)}
        \cup (IF w.q.current < 0 THEN {} ELSE play_track_at(w, w.q.current))

(* Gain mode, gapless and crossfade: what is armed is kept only where it      *)
(* still fits the setting.                                                    *)
OptionChanged(w) == arm_next_track_for_audio([w EXCEPT !.u.armed = NoTrack])
                       \cup arm_next_track_for_audio(w)

FileSelected(w, list, i) ==
    play_track_at([free_playlist(w) EXCEPT !.q = install(list, -1, 0, NoOrder)], i)

(* gui_player_play_collection_ranks() brings its bag along... *)
CollectionPlayed(w, list, mode) ==
    LET orders == IF UsesShuffleBag(mode) THEN Orders(Len(list)) ELSE {NoOrder}
        Play(order, m) == play_track_at([m EXCEPT !.q = install(list, -1, 0, order)],
                                        IF order = NoOrder THEN 0 ELSE order[1])
    IN  UNION {Play(order, m) : order \in orders, m \in set_play_mode(free_playlist(w), mode)}

(* ... gui_player_play_collection_paths() starts anywhere.                    *)
CollectionPathsPlayed(w, list, mode) ==
    LET starts == IF UsesShuffleBag(mode) THEN 0..(Len(list) - 1) ELSE {0}
        Play(i, m) == play_track_at([m EXCEPT !.q = install(list, -1, 0, NoOrder)], i)
    IN  UNION {Play(i, m) : i \in starts, m \in set_play_mode(free_playlist(w), mode)}

(* delete_song_confirm_cb().  The metadata asked for belonged to the deleted  *)
(* track.                                                                     *)
CurrentDeleted(w) ==
    LET d == [w EXCEPT !.q = delete_current(@), !.u.wanted = NoTrack]
    IN  IF AfterDelete(d.q) < 0
        THEN audio_stop([d EXCEPT !.q = finish_empty_delete(@)])
        ELSE play_track_at(d, AfterDelete(d.q))

SnapshotTaken(w) ==
    {[w EXCEPT !.q = r, !.u.shown = Displayed(r, w.u.mode)] : r \in Prepared(w.q, w.u.mode)}
------------------------------------------------------------------------------
Leave(worlds) == \E w \in worlds : queue' = w.q /\ engine' = w.e /\ ui' = w.u

(* Bounds: a deleted track stays counted in pending, and the position in a   *)
(* bag that is out of use drifts, so both could grow for ever.               *)
Fits(n) == /\ Count(queue) + n <= MaxQueue /\ queue.pending + n <= MaxQueue - 1
           /\ queue.pos < MaxQueue
Slots == 0..(Count(queue) - 1)

Poll == Leave(Polled(world))
QueueAdd(p) == Fits(1) /\ Leave(AfterSettling(world, LAMBDA w : QueueTried(w, <<p>>)))
QueueAddList(l) == Fits(Len(l)) /\ Leave(AfterSettling(world, LAMBDA w : QueueTried(w, l)))
PlayNext(p) == Fits(1) /\ Leave(AfterSettling(world, LAMBDA w : PlayNextTried(w, p)))
Move(from, to) == ui.shown # Stale /\ Leave(AfterSettling(world, LAMBDA w : EditTried(w, from, to)))
Remove(from) == ui.shown # Stale /\ Leave(AfterSettling(world, LAMBDA w : EditTried(w, from, -1)))
Select(i) == ui.shown # Stale /\ Leave(AfterSettling(world, LAMBDA w : SelectTried(w, i)))
ClearAll == Leave(AfterSettling(world, ClearTried))
QueueStart(i, mode) == InQueue(queue, i) /\ mode \in PlayModes /\ Leave(Restart(world, i, mode))
SetMode(mode) == Leave(set_play_mode(world, mode))
StepManual(direction) == Leave(StepTried(world, direction))
SelectFile(l, i) == Leave(FileSelected(world, l, i))
PlayCollection(l, mode) == Leave(CollectionPlayed(world, l, mode))
PlayCollectionPaths(l, mode) == Leave(CollectionPathsPlayed(world, l, mode))
DeleteCurrent == HasActiveTrack(queue) /\ Leave(CurrentDeleted(world))
TogglePlayPause == Leave(PlayToggled(world))
SetPlaybackOption == queue.current >= 0 /\ Leave(OptionChanged(world))
StopForExternalSession == Leave(audio_stop(world))
ShowQueue == Leave(SnapshotTaken(world))

(* The audio thread: it moves on to the armed track, with a new generation;   *)
(* it reaches the end with nothing it could play next; playback fails.        *)
Promote == /\ engine.active # NoTrack /\ engine.next # NoTrack
           /\ engine' = [engine EXCEPT !.active = engine.next, !.next = NoTrack, !.advanced = TRUE]
           /\ ui' = [ui EXCEPT !.gen = IF @ = "none" THEN @ ELSE "behind",
                               !.armed = NoTrack, !.wanted = NoTrack]
           /\ UNCHANGED queue

EndOfTrack == /\ engine.active # NoTrack
              /\ engine' = [engine EXCEPT !.active = NoTrack, !.next = NoTrack, !.finished = TRUE]
              /\ UNCHANGED <<queue, ui>>

Fail == /\ engine.active # NoTrack
        /\ \E kind \in Failures :
              engine' = [engine EXCEPT !.active = NoTrack, !.error = kind]
        /\ UNCHANGED <<queue, ui>>

Edits == \/ \E p \in Tracks : QueueAdd(p) \/ PlayNext(p)
         \/ \E l \in Lists : QueueAddList(l)
         \/ \E from, to \in Slots : from # to /\ Move(from, to)
         \/ \E from \in Slots : Remove(from)
         \/ ClearAll \/ DeleteCurrent \/ ShowQueue

Plays == \/ \E i \in Slots : Select(i)
         \/ \E i \in Slots : QueueStart(i, "SHUFFLE")
         \/ QueueStart(0, "SEQUENTIAL")
         \/ \E direction \in {-1, 1} : StepManual(direction)
         \/ \E l \in Lists : \E i \in 0..(Len(l) - 1) : SelectFile(l, i)
         \/ \E l \in Lists, mode \in PlayModes : PlayCollection(l, mode) \/ PlayCollectionPaths(l, mode)
         \/ TogglePlayPause

Settings == (\E mode \in PlayModes : SetMode(mode)) \/ SetPlaybackOption \/ StopForExternalSession

Engine == Promote \/ EndOfTrack \/ Fail

Next == Poll \/ Edits \/ Plays \/ Settings \/ Engine

Spec == Init /\ [][Next]_vars
------------------------------------------------------------------------------
(* Properties. *)

TypeOK ==
    /\ queue.paths \in Seq(Tracks)
    /\ queue.pending \in Nat
    /\ \A i \in {queue.current, queue.insert, queue.pos} : i \in Int /\ i >= -1
    /\ engine \in [active : Tracks \cup {NoTrack}, next : Tracks \cup {NoTrack},
                   advanced : BOOLEAN, finished : BOOLEAN, error : {"NONE", "OUTPUT", "DECODER"}]
    /\ ui.mode \in Modes /\ ui.gen \in {"none", "synced", "behind"}
    /\ {ui.wanted, ui.armed} \subseteq Tracks \cup {NoTrack}
    /\ ui.failed \subseteq Tracks /\ ui.skips \in 0..5

(* The bag and its continuation hold every slot of one queue exactly once,   *)
(* however tracks are inserted, moved, removed and deleted in between        *)
(* (playback_order.h, queue_shuffle_insert/remove).                          *)
BagIsPermutation ==
    /\ IsOrder(queue.order, Len(queue.order))
    /\ queue.cont # NoOrder => Len(queue.cont) = Len(queue.order) /\ IsOrder(queue.cont, Len(queue.cont))

(* A checkpoint queue_resume_write_at() accepts is one that                  *)
(* queue_resume_read() takes back after a restart: the place in the bag is   *)
(* still that of the current track, whatever moved either of them.           *)
CheckpointSurvivesRestart ==
    \A q \in Prepared(queue, ui.mode) :
        CheckpointWritable(q, ui.mode) => CheckpointReadable(q, ui.mode)

(* While its revision is the current one, the queue screen shows the queue   *)
(* as it is, so an edit or a selection hits the track the user touched       *)
(* (queue_revision, player_queue_model_edit_displayed).                      *)
EditHitsWhatWasShown ==
    ui.shown # Stale /\ HasActiveTrack(queue) => Displayed(queue, ui.mode) = ui.shown

(* Skipping over failed tracks never starts one that failed since the last   *)
(* track that played: a broken card cannot make the player go round forever  *)
(* (advance_past_failed, failed_physical_paths).                             *)
NeverBackToAFailedTrack ==
    engine.active # NoTrack /\ ui.gen = "synced" => engine.active \notin ui.failed

(* A track the user wants to hear next is the one asked for as the           *)
(* successor, also when the engine has just moved on by itself: no PlayNext  *)
(* adds its track and asks for another (gui_player_queue_play_next,          *)
(* compute_auto_advance_index).                                              *)
PlayNextIsNext ==
    [][\A p \in Tracks :
          (Count(queue') > Count(queue) /\ HasActiveTrack(queue) /\ ui'.wanted # p)
              => ~PlayNext(p)]_vars

(* Once the screen has taken every event of the engine, the track that is    *)
(* playing is the current one of the queue (on_track_auto_advanced).         *)
PlayingIsCurrent ==
    \/ engine.active = NoTrack \/ engine.advanced
    \/ engine.active = PathOf(queue, queue.current)

(* Clearing the queue keeps the current track (gui_player_queue_clear_all).  *)
ClearKeepsTheCurrentTrack ==
    [][ClearAll /\ HasActiveTrack(queue) /\ ~engine.advanced
          => PathOf(queue', queue'.current) = PathOf(queue, queue.current)]_vars

(* With a current track there is always a checkpoint to come back to: the    *)
(* writer accepts the queue.                                                 *)
CheckpointIsWritable ==
    HasActiveTrack(queue) =>
        \A q \in Prepared(queue, ui.mode) : CheckpointWritable(q, ui.mode)
=============================================================================

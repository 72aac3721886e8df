------------------------- MODULE AudioEngine_proofs -------------------------
(* What holds of the playback engine for every set of tracks and every bound.*)
(* The order is that of the argument: types (one lemma per group of actions); *)
(* the invariant Inv is inductive, step by step; the properties the runs check*)
(* are conjuncts of Inv, or action properties that follow from it; every step *)
(* of the engine maps to a step, or a stutter, of TransportSession.           *)
EXTENDS AudioEngine, TLAPS

(* The tuples of variables of AudioEngine are only abbreviations.            *)
USE DEF transport, events, staging, owner, startup, decoders, locals, waiting, Goto
(* So are the names of the worker's places while it primes or plays a clip.   *)
USE DEF Priming, IdleClip, HeldClip
(* NULL and every track are values of the path variables.                    *)
LEMMA PathFacts == NoTrack \in Paths /\ \A p \in Tracks : p \in Paths
  BY DEF Paths
(* last_playback_error_kind and its generation make a well-typed error.      *)
LEMMA ErrorFacts ==
    /\ \A k \in Kinds, g \in Nat : [kind |-> k, gen |-> g] \in [kind : Kinds, gen : Nat]
    /\ NoError \in [kind : Kinds, gen : Nat]
    /\ "DECODER_FAILED" \in Kinds /\ "OUTPUT_FAILED" \in Kinds
  BY DEF NoError, Kinds
(* The worker's snapshot of the armed successor: a path and a generation.    *)
LEMMA StagedFacts ==
    /\ \A p \in Paths, g \in Nat : [path |-> p, gen |-> g] \in [path : Paths, gen : Nat]
    /\ NoStaged \in [path : Paths, gen : Nat]
    /\ \A s \in [path : Paths, gen : Nat] : s.path \in Paths /\ s.gen \in Nat
  BY DEF NoStaged, Paths
(* The two threads that sleep on audio_cond.                                 *)
LEMMA ThreadFacts == "worker" \in Threads /\ "waiter" \in Threads
  BY DEF Threads
(* Where a clip and an iteration of the playback loop can leave the worker.   *)
LEMMA PlaceFacts ==
    {"clip_end", "held_end", "held", "loop", "seek", "prefetch", "decode", "unwind"} \subseteq PCs
  BY DEF PCs, Inner, Unwinding

(* The failure path of a start-up (decoder or output) keeps the types.       *)
LEMMA StartupFailsTyped ==
    ASSUME TypeOK, NEW kind \in Kinds, StartupFails(kind),
           local_output_active' \in BOOLEAN
    PROVE  TypeOK'
<1> USE DEF TypeOK
<1>1. (TransportTyped /\ OwnerTyped)'
  BY DEF StartupFails, TransportTyped, OwnerTyped, Progress
<1>2. EventsTyped'
  BY ErrorFacts DEF StartupFails, EventsTyped, WorkerTyped
<1>3. (StagingTyped /\ WaitingTyped)'
  BY DEF StartupFails, StagingTyped, WaitingTyped
<1>4. StartupTyped'
  BY DEF StartupFails, StartupTyped
<1>5. WorkerTyped'
  BY PathFacts DEF StartupFails, WorkerTyped, PCs, Finishing
<1> QED BY <1>1, <1>2, <1>3, <1>4, <1>5 DEF TypeOK

(* Types: every call of the control API, play_file_request() to the polls.   *)
LEMMA TypeApi ==
    ASSUME TypeOK, Api
    PROVE  TypeOK'
<1>1. ASSUME NEW p \in Tracks, PlayFile(p) PROVE TypeOK'
  <2> USE <1>1 DEF TypeOK
  <2>1. TransportTyped'
    BY PathFacts DEF PlayFile, TransportTyped
  <2>2. StagingTyped'
    BY PathFacts DEF PlayFile, StagingTyped
  <2>3. OwnerTyped'
    BY PathFacts DEF PlayFile, OwnerTyped, Progress
  <2>4. (EventsTyped /\ StartupTyped)'
    BY ErrorFacts DEF PlayFile, EventsTyped, StartupTyped
  <2>5. WorkerTyped'
    BY DEF PlayFile, WorkerTyped
  <2>6. WaitingTyped'
    BY DEF PlayFile, Broadcast, WaitingTyped
  <2> QED BY <2>1, <2>2, <2>3, <2>4, <2>5, <2>6 DEF TypeOK
<1>2. ASSUME NEW p \in Paths, SetNextTrack(p) PROVE TypeOK'
  BY <1>2, PathFacts DEF SetNextTrack, Arm, TypeOK, TransportTyped, EventsTyped, StagingTyped, OwnerTyped, StartupTyped, WorkerTyped, WaitingTyped
<1>3. ASSUME NEW p \in Tracks, NEW g \in 0..playback_generation, SetNextTrackForGeneration(p, g) PROVE TypeOK'
  BY <1>3, PathFacts DEF SetNextTrackForGeneration, Arm, TypeOK, TransportTyped, EventsTyped, StagingTyped, OwnerTyped, StartupTyped, WorkerTyped, WaitingTyped
<1>4. ASSUME NEW on \in Crossfades, SetCrossfade(on) PROVE TypeOK'
  BY <1>4, CrossfadesAssumption DEF SetCrossfade, TypeOK, TransportTyped, EventsTyped, StagingTyped, OwnerTyped, StartupTyped, WorkerTyped, WaitingTyped
<1>5. ASSUME TogglePause PROVE TypeOK'
  BY <1>5 DEF TogglePause, Broadcast, TypeOK, TransportTyped, EventsTyped, StagingTyped, OwnerTyped, StartupTyped, WorkerTyped, WaitingTyped
<1>6. ASSUME Stop PROVE TypeOK'
  <2> USE <1>6 DEF TypeOK
  <2>1. TransportTyped'
    BY PathFacts DEF Stop, TransportTyped
  <2>2. OwnerTyped'
    BY DEF Stop, OwnerTyped
  <2>3. StartupTyped'
    BY DEF Stop, StartupTyped, OwnerTyped
  <2>4. (EventsTyped /\ StagingTyped /\ WorkerTyped)'
    BY DEF Stop, EventsTyped, StagingTyped, WorkerTyped
  <2>5. WaitingTyped'
    BY DEF Stop, Broadcast, WaitingTyped
  <2> QED BY <2>1, <2>2, <2>3, <2>4, <2>5 DEF TypeOK
<1>7. ASSUME Seek PROVE TypeOK'
  BY <1>7 DEF Seek, Broadcast, TypeOK, TransportTyped, EventsTyped, StagingTyped, OwnerTyped, StartupTyped, WorkerTyped, WaitingTyped
<1>8. ASSUME ConsumeError PROVE TypeOK'
  BY <1>8, ErrorFacts DEF ConsumeError, TypeOK, TransportTyped, EventsTyped, StagingTyped, OwnerTyped, StartupTyped, WorkerTyped, WaitingTyped
<1>9. ASSUME ConsumeAdvanced PROVE TypeOK'
  BY <1>9 DEF ConsumeAdvanced, TypeOK, TransportTyped, EventsTyped, StagingTyped, OwnerTyped, StartupTyped, WorkerTyped, WaitingTyped
<1>10. ASSUME ConsumeFinished PROVE TypeOK'
  BY <1>10 DEF ConsumeFinished, TypeOK, TransportTyped, EventsTyped, StagingTyped, OwnerTyped, StartupTyped, WorkerTyped, WaitingTyped
<1>11. ASSUME LoopStart PROVE TypeOK'
  BY <1>11 DEF LoopStart, Broadcast, TypeOK, TransportTyped, EventsTyped, StagingTyped, OwnerTyped, StartupTyped, WorkerTyped, WaitingTyped
<1>12. ASSUME LoopStop PROVE TypeOK'
  BY <1>12 DEF LoopStop, Broadcast, TypeOK, TransportTyped, EventsTyped, StagingTyped, OwnerTyped, StartupTyped, WorkerTyped, WaitingTyped
<1> QED
  BY <1>1, <1>2, <1>3, <1>4, <1>5, <1>6, <1>7, <1>8, <1>9, <1>10, <1>11, <1>12 DEF Api

(* Types: audio_wait_track_metadata().                                       *)
LEMMA TypeWaiting ==
    ASSUME TypeOK, WaitBegin \/ Waiter
    PROVE  TypeOK'
<1>1. ASSUME WaitBegin PROVE TypeOK'
  BY <1>1 DEF WaitBegin, TypeOK, TransportTyped, EventsTyped, StagingTyped, OwnerTyped, StartupTyped, WorkerTyped, WaitingTyped
<1>2. ASSUME WaitSleep PROVE TypeOK'
  BY <1>2, ThreadFacts DEF WaitSleep, TypeOK, TransportTyped, EventsTyped, StagingTyped, OwnerTyped, StartupTyped, WorkerTyped, WaitingTyped
<1>3. ASSUME WaitReturn PROVE TypeOK'
  BY <1>3 DEF WaitReturn, TypeOK, TransportTyped, EventsTyped, StagingTyped, OwnerTyped, StartupTyped, WorkerTyped, WaitingTyped
<1> QED
  BY <1>1, <1>2, <1>3 DEF Waiter

(* Types: the worker starting a request, or giving it up.                    *)
LEMMA TypeStarting ==
    ASSUME TypeOK, Starting
    PROVE  TypeOK'
<1>1. ASSUME IdleWait PROVE TypeOK'
  BY <1>1, ThreadFacts DEF IdleWait, Sleep, PCs, TypeOK, TransportTyped, EventsTyped, StagingTyped, OwnerTyped, StartupTyped, WorkerTyped, WaitingTyped
<1>2. ASSUME IdleStop PROVE TypeOK'
  BY <1>2 DEF IdleStop, Finishing, PCs, TypeOK, TransportTyped, EventsTyped, StagingTyped, OwnerTyped, StartupTyped, WorkerTyped, WaitingTyped
<1>3. ASSUME IdleRestart PROVE TypeOK'
  BY <1>3, PathFacts DEF IdleRestart, EndClip, Broadcast, Startup, Exits, PCs, TypeOK, TransportTyped, EventsTyped, StagingTyped, OwnerTyped, StartupTyped, WorkerTyped, WaitingTyped
<1>4. ASSUME FinishLook PROVE TypeOK'
  BY <1>4 DEF FinishLook, Finishing, PCs, TypeOK, TransportTyped, EventsTyped, StagingTyped, OwnerTyped, StartupTyped, WorkerTyped, WaitingTyped
<1>5. ASSUME FinishClose PROVE TypeOK'
  BY <1>5 DEF FinishClose, Finishing, PCs, TypeOK, TransportTyped, EventsTyped, StagingTyped, OwnerTyped, StartupTyped, WorkerTyped, WaitingTyped
<1>6. ASSUME FinishAck PROVE TypeOK'
  <2> USE <1>6 DEF TypeOK
  <2>1. (TransportTyped /\ OwnerTyped)'
    BY DEF FinishAck, TransportTyped, OwnerTyped, Progress
  <2>2. (EventsTyped /\ StagingTyped /\ StartupTyped)'
    BY DEF FinishAck, EventsTyped, StagingTyped, StartupTyped
  <2>3. WorkerTyped'
    BY DEF FinishAck, WorkerTyped, PCs
  <2>4. WaitingTyped'
    BY DEF FinishAck, Broadcast, WaitingTyped
  <2> QED BY <2>1, <2>2, <2>3, <2>4 DEF TypeOK
<1>7. ASSUME ReadTags PROVE TypeOK'
  BY <1>7 DEF ReadTags, PublishTags, Broadcast, Startup, PCs, TypeOK, TransportTyped, EventsTyped, StagingTyped, OwnerTyped, StartupTyped, WorkerTyped, WaitingTyped
<1>8. ASSUME CancelCheck PROVE TypeOK'
  BY <1>8 DEF CancelCheck, Startup, Finishing, PCs, TypeOK, TransportTyped, EventsTyped, StagingTyped, OwnerTyped, StartupTyped, WorkerTyped, WaitingTyped
<1>9. ASSUME OpenFails PROVE TypeOK'
  <2>1. local_output_active' \in BOOLEAN BY <1>9 DEF OpenFails, TypeOK, StartupTyped
  <2> QED BY <1>9, <2>1, ErrorFacts, StartupFailsTyped DEF OpenFails
<1>10. ASSUME Open PROVE TypeOK'
  BY <1>10 DEF Open, Startup, PCs, TypeOK, TransportTyped, EventsTyped, StagingTyped, OwnerTyped, StartupTyped, WorkerTyped, WaitingTyped
<1>11. ASSUME OutputReady PROVE TypeOK'
  BY <1>11 DEF OutputReady, Startup, PCs, TypeOK, TransportTyped, EventsTyped, StagingTyped, OwnerTyped, StartupTyped, WorkerTyped, WaitingTyped
<1>12. ASSUME OutputFails PROVE TypeOK'
  <2>1. local_output_active' \in BOOLEAN BY <1>12 DEF OutputFails, TypeOK, StartupTyped
  <2> QED BY <1>12, <2>1, ErrorFacts, StartupFailsTyped DEF OutputFails
<1>13. ASSUME Publish PROVE TypeOK'
  <2> USE <1>13 DEF TypeOK
  <2>1. TransportTyped'
    BY DEF Publish, FirstPause, TransportTyped
  <2>2. OwnerTyped'
    BY DEF Publish, OwnerTyped, WorkerTyped, Progress
  <2>3. (EventsTyped /\ StagingTyped /\ StartupTyped /\ WaitingTyped)'
    BY DEF Publish, EventsTyped, StagingTyped, StartupTyped, WaitingTyped
  <2>4. WorkerTyped'
    BY PathFacts DEF Publish, WorkerTyped, PCs, Inner, Finishing
  <2> QED BY <2>1, <2>2, <2>3, <2>4 DEF TypeOK
<1>14. ASSUME OutputLook PROVE TypeOK'
  BY <1>14 DEF OutputLook, Startup, PCs, TypeOK, TransportTyped, EventsTyped, StagingTyped, OwnerTyped, StartupTyped, WorkerTyped, WaitingTyped
<1>15. ASSUME PrimeTakes PROVE TypeOK'
  BY <1>15 DEF PrimeTakes, PCs, TypeOK, TransportTyped, EventsTyped, StagingTyped, OwnerTyped, StartupTyped, WorkerTyped, WaitingTyped
<1>16. ASSUME PrimeEnds PROVE TypeOK'
  BY <1>16 DEF PrimeEnds, PCs, TypeOK, TransportTyped, EventsTyped, StagingTyped, OwnerTyped, StartupTyped, WorkerTyped, WaitingTyped
<1> QED
  BY <1>1, <1>2, <1>3, <1>4, <1>5, <1>6, <1>7, <1>8, <1>9, <1>10, <1>11, <1>12, <1>13, <1>14, <1>15, <1>16
     DEF Starting

(* Types: the worker repeating a loop clip.                                  *)
LEMMA TypeClipping ==
    ASSUME TypeOK, Clipping
    PROVE  TypeOK'
<1>1. ASSUME IdlePlaysClip \/ HeldPlaysClip PROVE TypeOK'
  BY <1>1 DEF IdlePlaysClip, HeldPlaysClip, PlayClip, Inner, PCs, TypeOK, TransportTyped, EventsTyped, StagingTyped, OwnerTyped, StartupTyped, WorkerTyped, WaitingTyped
<1>2. ASSUME ClipTakes PROVE TypeOK'
  BY <1>2 DEF ClipTakes, Inner, PCs, TypeOK, TransportTyped, EventsTyped, StagingTyped, OwnerTyped, StartupTyped, WorkerTyped, WaitingTyped
<1>3. ASSUME ClipPlays PROVE TypeOK'
  BY <1>3 DEF ClipPlays, Inner, PCs, TypeOK, TransportTyped, EventsTyped, StagingTyped, OwnerTyped, StartupTyped, WorkerTyped, WaitingTyped
<1>4. ASSUME ClipCloses PROVE TypeOK'
  BY <1>4, PlaceFacts DEF ClipCloses, TypeOK, TransportTyped, EventsTyped, StagingTyped, OwnerTyped, StartupTyped, WorkerTyped, WaitingTyped
<1> QED
  BY <1>1, <1>2, <1>3, <1>4 DEF Clipping

(* Types: the worker inside the crossfade window.                            *)
LEMMA TypeBlending ==
    ASSUME TypeOK, Blending
    PROVE  TypeOK'
<1>1. ASSUME Prefetch PROVE TypeOK'
  BY <1>1, PathFacts, StagedFacts
     DEF Prefetch, OnlyDecoders, Inner, PCs, TypeOK, TransportTyped, EventsTyped, StagingTyped, OwnerTyped, StartupTyped, WorkerTyped, WaitingTyped
<1>2. ASSUME BlendRead PROVE TypeOK'
  BY <1>2 DEF BlendRead, OnlyDecoders, Inner, PCs, TypeOK, TransportTyped, EventsTyped, StagingTyped, OwnerTyped, StartupTyped, WorkerTyped, WaitingTyped
<1>3. ASSUME BlendReadFails PROVE TypeOK'
  BY <1>3, PathFacts, ErrorFacts
     DEF BlendReadFails, Fails, Unwinding, Exits, Progress, PCs, TypeOK, TransportTyped, EventsTyped, StagingTyped, OwnerTyped, StartupTyped, WorkerTyped, WaitingTyped
<1>4. ASSUME BlendEOF PROVE TypeOK'
  BY <1>4 DEF BlendEOF, Inner, MaxReopen, PCs, TypeOK, TransportTyped, EventsTyped, StagingTyped, OwnerTyped, StartupTyped, WorkerTyped, WaitingTyped
<1>5. ASSUME BlendDone PROVE TypeOK'
  BY <1>5 DEF BlendDone, OnlyDecoders, Inner, PCs, TypeOK, TransportTyped, EventsTyped, StagingTyped, OwnerTyped, StartupTyped, WorkerTyped, WaitingTyped
<1>6. ASSUME MixChunk PROVE TypeOK'
  BY <1>6 DEF MixChunk, OnlyDecoders, Inner, PCs, TypeOK, TransportTyped, EventsTyped, StagingTyped, OwnerTyped, StartupTyped, WorkerTyped, WaitingTyped
<1>7. ASSUME MixNextFails PROVE TypeOK'
  BY <1>7, PathFacts DEF MixNextFails, OnlyDecoders, Inner, PCs, TypeOK, TransportTyped, EventsTyped, StagingTyped, OwnerTyped, StartupTyped, WorkerTyped, WaitingTyped
<1>8. ASSUME MixWriteFails PROVE TypeOK'
  BY <1>8, PathFacts, ErrorFacts
     DEF MixWriteFails, Fails, Unwinding, Exits, Progress, PCs, TypeOK, TransportTyped, EventsTyped, StagingTyped, OwnerTyped, StartupTyped, WorkerTyped, WaitingTyped
<1>9. ASSUME CrossfadePromote PROVE TypeOK'
  BY <1>9, PathFacts
     DEF CrossfadePromote, Promote, Adopt, Inner, Progress, PCs, TypeOK, TransportTyped, EventsTyped, StagingTyped, OwnerTyped, StartupTyped, WorkerTyped, WaitingTyped
<1>10. ASSUME CrossfadeStale PROVE TypeOK'
  BY <1>10, PathFacts
     DEF CrossfadeStale, DropPrefetch, OnlyDecoders, Inner, PCs, TypeOK, TransportTyped, EventsTyped, StagingTyped, OwnerTyped, StartupTyped, WorkerTyped, WaitingTyped
<1> QED
  BY <1>1, <1>2, <1>3, <1>4, <1>5, <1>6, <1>7, <1>8, <1>9, <1>10 DEF Blending

(* Types: the worker's playback loop, its errors and its end-of-track paths. *)
LEMMA TypePlaying ==
    ASSUME TypeOK, Playing
    PROVE  TypeOK'
<1>1. ASSUME PauseOutput PROVE TypeOK'
  BY <1>1 DEF PauseOutput, Inner, PCs, TypeOK, TransportTyped, EventsTyped, StagingTyped, OwnerTyped, StartupTyped, WorkerTyped, WaitingTyped
<1>2. ASSUME HeldWait PROVE TypeOK'
  <2> USE <1>2 DEF HeldWait, Sleep, TypeOK
  <2>1. (TransportTyped /\ EventsTyped /\ StagingTyped /\ OwnerTyped /\ StartupTyped)'
    BY DEF TransportTyped, EventsTyped, StagingTyped, OwnerTyped, StartupTyped
  <2>2. WorkerTyped'
    BY PlaceFacts DEF WorkerTyped
  <2>3. WaitingTyped'
    BY ThreadFacts DEF WaitingTyped
  <2> QED BY <2>1, <2>2, <2>3 DEF TypeOK
<1>3. ASSUME Snapshot PROVE TypeOK'
  <2> USE <1>3 DEF Snapshot, TypeOK
  <2>1. (TransportTyped /\ EventsTyped /\ OwnerTyped /\ StartupTyped)'
    BY DEF TransportTyped, EventsTyped, OwnerTyped, StartupTyped
  <2>2. (StagingTyped /\ WaitingTyped)'
    BY DEF EndClip, Broadcast, StagingTyped, WaitingTyped
  <2>3. staged' \in [path : Paths, gen : Nat]
    BY StagedFacts DEF StagingTyped
  <2>4. pc' \in PCs /\ exit' \in Exits
    BY PlaceFacts DEF Exits, WorkerTyped
  <2>5. WorkerTyped'
    BY <2>3, <2>4 DEF WorkerTyped
  <2> QED BY <2>1, <2>2, <2>5 DEF TypeOK
<1>4. ASSUME SeekDone PROVE TypeOK'
  BY <1>4, PathFacts DEF SeekDone, OnlyDecoders, Inner, PCs, TypeOK, TransportTyped, EventsTyped, StagingTyped, OwnerTyped, StartupTyped, WorkerTyped, WaitingTyped
<1>5. ASSUME SeekFails PROVE TypeOK'
  BY <1>5, PathFacts, ErrorFacts
     DEF SeekFails, Fails, Unwinding, Exits, Progress, PCs, TypeOK, TransportTyped, EventsTyped, StagingTyped, OwnerTyped, StartupTyped, WorkerTyped, WaitingTyped
<1>6. ASSUME DecodeChunk PROVE TypeOK'
  BY <1>6 DEF DecodeChunk, OnlyDecoders, Inner, PCs, TypeOK, TransportTyped, EventsTyped, StagingTyped, OwnerTyped, StartupTyped, WorkerTyped, WaitingTyped
<1>7. ASSUME DecodeFails PROVE TypeOK'
  BY <1>7, PathFacts, ErrorFacts
     DEF DecodeFails, Fails, Unwinding, Exits, Progress, PCs, TypeOK, TransportTyped, EventsTyped, StagingTyped, OwnerTyped, StartupTyped, WorkerTyped, WaitingTyped
<1>8. ASSUME PrematureEOF PROVE TypeOK'
  BY <1>8 DEF PrematureEOF, Inner, MaxReopen, PCs, TypeOK, TransportTyped, EventsTyped, StagingTyped, OwnerTyped, StartupTyped, WorkerTyped, WaitingTyped
<1>9. ASSUME Reopen PROVE TypeOK'
  BY <1>9 DEF Reopen, MoreAttempts, Inner, MaxReopen, PCs, TypeOK, TransportTyped, EventsTyped, StagingTyped, OwnerTyped, StartupTyped, WorkerTyped, WaitingTyped
<1>10. ASSUME RecoveryFails PROVE TypeOK'
  BY <1>10, PathFacts, ErrorFacts
     DEF RecoveryFails, Fails, Unwinding, Exits, Progress, PCs, TypeOK, TransportTyped, EventsTyped, StagingTyped, OwnerTyped, StartupTyped, WorkerTyped, WaitingTyped
<1>11. ASSUME EofHandoff PROVE TypeOK'
  BY <1>11, PathFacts, StagedFacts
     DEF EofHandoff, OnlyDecoders, Inner, PCs, TypeOK, TransportTyped, EventsTyped, StagingTyped, OwnerTyped, StartupTyped, WorkerTyped, WaitingTyped
<1>12. ASSUME EofEnds PROVE TypeOK'
  BY <1>12 DEF EofEnds, Unwinding, Exits, PCs, TypeOK, TransportTyped, EventsTyped, StagingTyped, OwnerTyped, StartupTyped, WorkerTyped, WaitingTyped
<1>13. ASSUME Handoff PROVE TypeOK'
  BY <1>13 DEF Handoff, OnlyDecoders, Inner, PCs, TypeOK, TransportTyped, EventsTyped, StagingTyped, OwnerTyped, StartupTyped, WorkerTyped, WaitingTyped
<1>14. ASSUME GaplessPromote PROVE TypeOK'
  <2> USE <1>14 DEF TypeOK
  <2>1. (TransportTyped /\ StagingTyped)'
    BY PathFacts DEF GaplessPromote, Promote, TransportTyped, StagingTyped
  <2>2. EventsTyped'
    BY DEF GaplessPromote, Promote, EventsTyped
  <2>3. OwnerTyped'
    BY DEF GaplessPromote, Promote, Adopt, OwnerTyped, StagingTyped, Progress
  <2>4. (StartupTyped /\ WaitingTyped)'
    BY DEF GaplessPromote, Promote, StartupTyped, WaitingTyped
  <2>5. WorkerTyped'
    BY PathFacts
       DEF GaplessPromote, Promote, Adopt, WorkerTyped, StagingTyped,
           OwnerTyped, PCs, Inner
  <2> QED BY <2>1, <2>2, <2>3, <2>4, <2>5 DEF TypeOK
<1>15. ASSUME GaplessOutputFails PROVE TypeOK'
  <2> USE <1>15 DEF TypeOK
  <2>1. (TransportTyped /\ StagingTyped)'
    BY PathFacts DEF GaplessOutputFails, Promote, TransportTyped, StagingTyped
  <2>2. EventsTyped'
    BY ErrorFacts DEF GaplessOutputFails, Promote, EventsTyped, OwnerTyped
  <2>3. OwnerTyped'
    BY
       DEF GaplessOutputFails, Promote, Adopt, OwnerTyped, StagingTyped,
           Progress
  <2>4. (StartupTyped /\ WaitingTyped)'
    BY DEF GaplessOutputFails, Promote, StartupTyped, WaitingTyped
  <2>5. WorkerTyped'
    BY PathFacts
       DEF GaplessOutputFails, Promote, Adopt, WorkerTyped, StagingTyped,
           OwnerTyped, PCs, Unwinding, Exits
  <2> QED BY <2>1, <2>2, <2>3, <2>4, <2>5 DEF TypeOK
<1>16. ASSUME HandoffStale PROVE TypeOK'
  BY <1>16, PathFacts
     DEF HandoffStale, DropPrefetch, OnlyDecoders, Inner, PCs, TypeOK, TransportTyped, EventsTyped, StagingTyped, OwnerTyped, StartupTyped, WorkerTyped, WaitingTyped
<1>17. ASSUME WriteCheck PROVE TypeOK'
  BY <1>17 DEF WriteCheck, OnlyDecoders, Inner, PCs, TypeOK, TransportTyped, EventsTyped, StagingTyped, OwnerTyped, StartupTyped, WorkerTyped, WaitingTyped
<1>18. ASSUME Written PROVE TypeOK'
  BY <1>18 DEF Written, OnlyDecoders, Inner, PCs, TypeOK, TransportTyped, EventsTyped, StagingTyped, OwnerTyped, StartupTyped, WorkerTyped, WaitingTyped
<1>19. ASSUME WriteFails PROVE TypeOK'
  BY <1>19, PathFacts, ErrorFacts
     DEF WriteFails, Fails, Unwinding, Exits, Progress, PCs, TypeOK, TransportTyped, EventsTyped, StagingTyped, OwnerTyped, StartupTyped, WorkerTyped, WaitingTyped
<1>20. ASSUME RetryAborted PROVE TypeOK'
  BY <1>20 DEF RetryAborted, Inner, PCs, TypeOK, TransportTyped, EventsTyped, StagingTyped, OwnerTyped, StartupTyped, WorkerTyped, WaitingTyped
<1> QED
  BY <1>1, <1>2, <1>3, <1>4, <1>5, <1>6, <1>7, <1>8, <1>9, <1>10, <1>11, <1>12, <1>13, <1>14, <1>15, <1>16, <1>17, <1>18, <1>19, <1>20
     DEF Playing

(* Types: the worker at inner_loop_done.                                     *)
LEMMA TypeEnding ==
    ASSUME TypeOK, Ending
    PROVE  TypeOK'
<1>1. ASSUME Unwind PROVE TypeOK'
  BY <1>1, StagedFacts DEF Unwind, LeavesLoop, MaxReopen, Unwinding, PCs, TypeOK, TransportTyped, EventsTyped, StagingTyped, OwnerTyped, StartupTyped, WorkerTyped, WaitingTyped
<1>2. ASSUME Close PROVE TypeOK'
  BY <1>2, PathFacts DEF Close, Unwinding, PCs, TypeOK, TransportTyped, EventsTyped, StagingTyped, OwnerTyped, StartupTyped, WorkerTyped, WaitingTyped
<1>3. ASSUME Settle PROVE TypeOK'
  BY <1>3 DEF Settle, TerminalProgress, Exits, Progress, PCs, TypeOK, TransportTyped, EventsTyped, StagingTyped, OwnerTyped, StartupTyped, WorkerTyped, WaitingTyped
<1> QED
  BY <1>1, <1>2, <1>3 DEF Ending

(* Types: the static initialisers of audio.c.                                *)
LEMMA TypeInit == Init => TypeOK
<1> SUFFICES ASSUME Init PROVE TypeOK
  OBVIOUS
<1>1. TransportTyped /\ EventsTyped /\ StagingTyped
  BY PathFacts, ErrorFacts DEF Init, TransportTyped, EventsTyped, StagingTyped
<1>2. OwnerTyped /\ StartupTyped /\ WaitingTyped
  BY PathFacts DEF Init, OwnerTyped, StartupTyped, WaitingTyped, Progress
<1>3. WorkerTyped
  BY PathFacts, StagedFacts DEF Init, WorkerTyped, PCs, Exits, MaxReopen
<1> QED BY <1>1, <1>2, <1>3 DEF TypeOK

(* Types are inductive.                                                      *)
LEMMA TypeStep == TypeOK /\ [Next]_vars => TypeOK'
<1> SUFFICES ASSUME TypeOK, [Next]_vars PROVE TypeOK'
  OBVIOUS
<1>1. CASE Api BY <1>1, TypeApi
<1>2. CASE WaitBegin \/ Waiter BY <1>2, TypeWaiting
<1>3. CASE Starting BY <1>3, TypeStarting
<1>4. CASE Blending BY <1>4, TypeBlending
<1>5. CASE Playing BY <1>5, TypePlaying
<1>6. CASE Ending BY <1>6, TypeEnding
<1>7. CASE Clipping BY <1>7, TypeClipping
<1>8. CASE UNCHANGED vars
  BY <1>8 DEF vars, TypeOK, TransportTyped, EventsTyped, StagingTyped, OwnerTyped,
              StartupTyped, WorkerTyped, WaitingTyped
<1> QED
  BY <1>1, <1>2, <1>3, <1>4, <1>5, <1>6, <1>7, <1>8 DEF Next, Worker

------------------------------------------------------------------------------
(* The inductive step.  Most steps leave the variables the invariant speaks  *)
(* of alone and keep the worker's duty: starting a request, playing one, or  *)
(* neither.                                                                  *)

Control == <<stop_requested, restart_requested, restart_path, startup_pending,
             have_current, error, owner, startup, cur_generation, cur_path>>

KeepsDuty == /\ \/ pc' = pc
                \/ pc \in Startup /\ pc' \in Startup
                \/ pc \in Inner /\ pc' \in Inner
                \/ pc \notin Startup /\ pc' \notin Startup \cup Inner
             /\ \/ UNCHANGED <<pc, local_output_active>>
                \/ pc' \in {"primed", "clip_play"} /\ local_output_active'
                \/ pc' \notin {"finish_ack", "settle", "primed", "clip_play"}

(* A step that leaves the control state alone and keeps the worker's duty    *)
(* keeps the invariant: decoding, writing, seeking, arming, polling.         *)
LEMMA Quiet ==
    ASSUME Inv, TypeOK', UNCHANGED Control, KeepsDuty
    PROVE  Inv'
<1> USE DEF Inv, Control, KeepsDuty, Startup, Inner
<1>1. RequestIsServed' BY DEF RequestIsServed
<1>2. PendingIsFresh' BY DEF PendingIsFresh
<1>3. GenerationsAreOrdered' BY DEF GenerationsAreOrdered
<1>4. StartupIsCurrent' BY DEF StartupIsCurrent
<1>5. WorkerOwnsTheTrack' BY DEF WorkerOwnsTheTrack
<1>6. ProgressIsTrusted' BY DEF ProgressIsTrusted
<1>7. TrustedHasAGeneration' BY DEF TrustedHasAGeneration
<1>8. TagsAreOfTheRequest' BY DEF TagsAreOfTheRequest
<1>9. PlayingWasNotStopped' BY DEF PlayingWasNotStopped
<1>10. StoppedStartupIsSilent' BY DEF StoppedStartupIsSilent
<1>11. OutputMatchesPlace' BY DEF OutputMatchesPlace
<1> QED BY <1>1, <1>2, <1>3, <1>4, <1>5, <1>6, <1>7, <1>8, <1>9, <1>10, <1>11

(* An error that ends the track, published even if a command came first. *)
LEMMA FailsKeepsInv ==
    ASSUME Inv, TypeOK', NEW kind, Fails(kind), pc \in Inner
    PROVE  Inv'
<1> USE DEF Inv
<1>1. PendingIsFresh'
  BY DEF Fails, PendingIsFresh, GenerationsAreOrdered, WorkerOwnsTheTrack
<1>2. StoppedStartupIsSilent'
  BY DEF Fails, PlayingWasNotStopped, StoppedStartupIsSilent
<1>3. (RequestIsServed /\ GenerationsAreOrdered /\ StartupIsCurrent
       /\ WorkerOwnsTheTrack /\ ProgressIsTrusted /\ TrustedHasAGeneration
       /\ TagsAreOfTheRequest /\ PlayingWasNotStopped /\ OutputMatchesPlace)'
  BY
     DEF Fails, Startup, Inner, RequestIsServed, GenerationsAreOrdered,
         StartupIsCurrent, WorkerOwnsTheTrack, ProgressIsTrusted,
         TrustedHasAGeneration, TagsAreOfTheRequest, PlayingWasNotStopped,
         OutputMatchesPlace
<1> QED BY <1>1, <1>2, <1>3

(* A start-up that failed, published only if it is still current. *)
LEMMA StartupFailsKeepsInv ==
    ASSUME Inv, TypeOK', NEW kind, StartupFails(kind), pc \in Startup
    PROVE  Inv'
<1> USE DEF Inv
<1>1. RequestIsServed'
  BY DEF StartupFails, Current, RequestIsServed, PendingIsFresh
<1>2. StoppedStartupIsSilent'
  BY
     DEF StartupFails, Current, GenerationsAreOrdered, StoppedStartupIsSilent,
         TypeOK, WorkerTyped
<1>3. (PendingIsFresh /\ GenerationsAreOrdered /\ StartupIsCurrent
       /\ WorkerOwnsTheTrack /\ ProgressIsTrusted /\ TrustedHasAGeneration
       /\ TagsAreOfTheRequest /\ PlayingWasNotStopped /\ OutputMatchesPlace)'
  BY
     DEF StartupFails, Startup, Inner, PendingIsFresh, GenerationsAreOrdered,
         StartupIsCurrent, WorkerOwnsTheTrack, ProgressIsTrusted,
         TrustedHasAGeneration, TagsAreOfTheRequest, PlayingWasNotStopped,
         OutputMatchesPlace
<1> QED BY <1>1, <1>2, <1>3

(* No call of the API breaks it, whatever the worker is doing. *)
LEMMA InvApi ==
    ASSUME Inv, TypeOK', Api
    PROVE  Inv'
<1>1. ASSUME NEW p \in Tracks, PlayFile(p) PROVE Inv'
  <2> USE <1>1 DEF Inv
  <2>1. PendingIsFresh'
    BY DEF PlayFile, NoError, PendingIsFresh, TypeOK, OwnerTyped
  <2>2. GenerationsAreOrdered'
    BY
       DEF PlayFile, NoError, GenerationsAreOrdered, TypeOK, OwnerTyped,
           WorkerTyped
  <2>3. (RequestIsServed /\ StartupIsCurrent /\ WorkerOwnsTheTrack
         /\ ProgressIsTrusted /\ TrustedHasAGeneration
         /\ TagsAreOfTheRequest /\ PlayingWasNotStopped
         /\ StoppedStartupIsSilent /\ OutputMatchesPlace)'
    BY
       DEF PlayFile, RequestIsServed, StartupIsCurrent, WorkerOwnsTheTrack,
           ProgressIsTrusted, TrustedHasAGeneration, TagsAreOfTheRequest,
           PlayingWasNotStopped, StoppedStartupIsSilent, OutputMatchesPlace
  <2> QED BY <2>1, <2>2, <2>3
<1>2. ASSUME NEW p \in Paths, SetNextTrack(p) PROVE Inv'
  BY <1>2, Quiet DEF SetNextTrack, Arm, Control, KeepsDuty
<1>3. ASSUME NEW p \in Tracks, NEW g \in 0..playback_generation, SetNextTrackForGeneration(p, g) PROVE Inv'
  BY <1>3, Quiet DEF SetNextTrackForGeneration, Arm, Control, KeepsDuty
<1>4. ASSUME NEW on \in Crossfades, SetCrossfade(on) PROVE Inv'
  BY <1>4, Quiet DEF SetCrossfade, Control, KeepsDuty
<1>5. ASSUME TogglePause PROVE Inv'
  BY <1>5, Quiet DEF TogglePause, Control, KeepsDuty
<1>6. ASSUME Stop PROVE Inv'
  <2> USE <1>6 DEF Inv
  <2>1. GenerationsAreOrdered'
    BY
       DEF Stop, GenerationsAreOrdered, TypeOK, EventsTyped, StartupTyped,
           WorkerTyped
  <2>2. ProgressIsTrusted'
    BY DEF Stop, PendingIsFresh, ProgressIsTrusted
  <2>3. TrustedHasAGeneration'
    BY DEF Stop, TrustedHasAGeneration, TypeOK, StartupTyped
  <2>4. PlayingWasNotStopped'
    BY
       DEF Stop, PendingIsFresh, GenerationsAreOrdered, WorkerOwnsTheTrack,
           PlayingWasNotStopped, TypeOK, WorkerTyped
  <2>5. StoppedStartupIsSilent'
    BY DEF Stop, PendingIsFresh, StoppedStartupIsSilent, TypeOK, StartupTyped
  <2>6. (RequestIsServed /\ PendingIsFresh /\ StartupIsCurrent
         /\ WorkerOwnsTheTrack /\ TagsAreOfTheRequest /\ OutputMatchesPlace)'
    BY
       DEF Stop, RequestIsServed, PendingIsFresh, StartupIsCurrent,
           WorkerOwnsTheTrack, TagsAreOfTheRequest, OutputMatchesPlace
  <2> QED BY <2>1, <2>2, <2>3, <2>4, <2>5, <2>6
<1>7. ASSUME Seek PROVE Inv'
  BY <1>7, Quiet DEF Seek, Control, KeepsDuty
<1>8. ASSUME ConsumeError PROVE Inv'
  <2> USE <1>8 DEF Inv
  <2>1. PendingIsFresh'
    BY
       DEF ConsumeError, NoError, PendingIsFresh, TypeOK, EventsTyped,
           OwnerTyped
  <2>2. GenerationsAreOrdered'
    BY DEF ConsumeError, NoError, GenerationsAreOrdered, TypeOK, OwnerTyped
  <2>3. ProgressIsTrusted'
    BY DEF ConsumeError, NoError, ProgressIsTrusted, TrustedHasAGeneration
  <2>4. (RequestIsServed /\ StartupIsCurrent /\ WorkerOwnsTheTrack
         /\ TrustedHasAGeneration /\ TagsAreOfTheRequest
         /\ PlayingWasNotStopped /\ StoppedStartupIsSilent
         /\ OutputMatchesPlace)'
    BY
       DEF ConsumeError, NoError, RequestIsServed, StartupIsCurrent,
           WorkerOwnsTheTrack, TrustedHasAGeneration, TagsAreOfTheRequest,
           PlayingWasNotStopped, StoppedStartupIsSilent, OutputMatchesPlace
  <2> QED BY <2>1, <2>2, <2>3, <2>4
<1>9. ASSUME ConsumeAdvanced PROVE Inv'
  BY <1>9, Quiet DEF ConsumeAdvanced, Control, KeepsDuty
<1>10. ASSUME ConsumeFinished PROVE Inv'
  BY <1>10, Quiet DEF ConsumeFinished, Control, KeepsDuty
<1>11. ASSUME LoopStart \/ LoopStop PROVE Inv'
  BY <1>11, Quiet DEF LoopStart, LoopStop, Control, KeepsDuty
<1> QED
  BY <1>1, <1>2, <1>3, <1>4, <1>5, <1>6, <1>7, <1>8, <1>9, <1>10, <1>11 DEF Api

(* The metadata waiter only reads. *)
LEMMA InvWaiting ==
    ASSUME Inv, TypeOK', WaitBegin \/ Waiter
    PROVE  Inv'
<1>1. ASSUME WaitBegin PROVE Inv'
  BY <1>1, Quiet DEF WaitBegin, Control, KeepsDuty
<1>2. ASSUME WaitSleep PROVE Inv'
  BY <1>2, Quiet DEF WaitSleep, Control, KeepsDuty
<1>3. ASSUME WaitReturn PROVE Inv'
  BY <1>3, Quiet DEF WaitReturn, Control, KeepsDuty
<1> QED
  BY <1>1, <1>2, <1>3 DEF Waiter

(* The worker starting a request, or giving it up. *)
LEMMA InvStarting ==
    ASSUME Inv, TypeOK', Starting
    PROVE  Inv'
<1>1. ASSUME IdleWait PROVE Inv'
  BY <1>1, Quiet DEF IdleWait, AtIdle, Sleep, Control, KeepsDuty, Startup, Inner
<1>2. ASSUME IdleStop PROVE Inv'
  BY <1>2, Quiet DEF IdleStop, AtIdle, Control, KeepsDuty, Startup, Inner
<1>3. ASSUME IdleRestart PROVE Inv'
  <2> USE <1>3 DEF Inv
  <2>1. GenerationsAreOrdered'
    BY DEF IdleRestart, GenerationsAreOrdered, TypeOK, WorkerTyped
  <2>2. StartupIsCurrent'
    BY DEF IdleRestart, RequestIsServed, StartupIsCurrent
  <2>3. (RequestIsServed /\ PendingIsFresh /\ WorkerOwnsTheTrack
         /\ ProgressIsTrusted /\ TrustedHasAGeneration
         /\ TagsAreOfTheRequest /\ PlayingWasNotStopped
         /\ StoppedStartupIsSilent /\ OutputMatchesPlace)'
    BY
       DEF IdleRestart, Startup, Inner, RequestIsServed, PendingIsFresh,
           WorkerOwnsTheTrack, ProgressIsTrusted, TrustedHasAGeneration,
           TagsAreOfTheRequest, PlayingWasNotStopped, StoppedStartupIsSilent,
           OutputMatchesPlace
  <2> QED BY <2>1, <2>2, <2>3
<1>4. ASSUME FinishLook PROVE Inv'
  BY <1>4, Quiet DEF FinishLook, Control, KeepsDuty, Startup, Inner
<1>5. ASSUME FinishClose PROVE Inv'
  <2> USE <1>5 DEF Inv
  <2>1. (RequestIsServed /\ PendingIsFresh /\ GenerationsAreOrdered
         /\ StartupIsCurrent /\ WorkerOwnsTheTrack /\ ProgressIsTrusted
         /\ TrustedHasAGeneration /\ TagsAreOfTheRequest
         /\ PlayingWasNotStopped /\ StoppedStartupIsSilent
         /\ OutputMatchesPlace)'
    BY
       DEF FinishClose, Startup, Inner, RequestIsServed, PendingIsFresh,
           GenerationsAreOrdered, StartupIsCurrent, WorkerOwnsTheTrack,
           ProgressIsTrusted, TrustedHasAGeneration, TagsAreOfTheRequest,
           PlayingWasNotStopped, StoppedStartupIsSilent, OutputMatchesPlace
  <2> QED BY <2>1
<1>6. ASSUME FinishAck PROVE Inv'
  <2> USE <1>6 DEF Inv
  <2>1. (RequestIsServed /\ PendingIsFresh /\ GenerationsAreOrdered
         /\ StartupIsCurrent /\ WorkerOwnsTheTrack /\ ProgressIsTrusted
         /\ TrustedHasAGeneration /\ TagsAreOfTheRequest
         /\ PlayingWasNotStopped /\ StoppedStartupIsSilent
         /\ OutputMatchesPlace)'
    BY
       DEF FinishAck, Startup, Inner, RequestIsServed, PendingIsFresh,
           GenerationsAreOrdered, StartupIsCurrent, WorkerOwnsTheTrack,
           ProgressIsTrusted, TrustedHasAGeneration, TagsAreOfTheRequest,
           PlayingWasNotStopped, StoppedStartupIsSilent, OutputMatchesPlace
  <2> QED BY <2>1
<1>7. ASSUME ReadTags PROVE Inv'
  <2> USE <1>7 DEF Inv
  <2>1. TagsAreOfTheRequest'
    BY
       DEF ReadTags, PublishTags, Current, PendingIsFresh, StartupIsCurrent,
           TagsAreOfTheRequest, Startup
  <2>2. (RequestIsServed /\ PendingIsFresh /\ GenerationsAreOrdered
         /\ StartupIsCurrent /\ WorkerOwnsTheTrack /\ ProgressIsTrusted
         /\ TrustedHasAGeneration /\ PlayingWasNotStopped
         /\ StoppedStartupIsSilent /\ OutputMatchesPlace)'
    BY
       DEF ReadTags, Startup, Inner, RequestIsServed, PendingIsFresh,
           GenerationsAreOrdered, StartupIsCurrent, WorkerOwnsTheTrack,
           ProgressIsTrusted, TrustedHasAGeneration, PlayingWasNotStopped,
           StoppedStartupIsSilent, OutputMatchesPlace
  <2> QED BY <2>1, <2>2
<1>8. ASSUME CancelCheck PROVE Inv'
  <2> USE <1>8 DEF Inv
  <2>1. RequestIsServed'
    BY DEF CancelCheck, Current, RequestIsServed, PendingIsFresh, Startup
  <2>2. (PendingIsFresh /\ GenerationsAreOrdered /\ StartupIsCurrent
         /\ WorkerOwnsTheTrack /\ ProgressIsTrusted
         /\ TrustedHasAGeneration /\ TagsAreOfTheRequest
         /\ PlayingWasNotStopped /\ StoppedStartupIsSilent
         /\ OutputMatchesPlace)'
    BY
       DEF CancelCheck, Startup, Inner, PendingIsFresh, GenerationsAreOrdered,
           StartupIsCurrent, WorkerOwnsTheTrack, ProgressIsTrusted,
           TrustedHasAGeneration, TagsAreOfTheRequest, PlayingWasNotStopped,
           StoppedStartupIsSilent, OutputMatchesPlace
  <2> QED BY <2>1, <2>2
<1>9. ASSUME OpenFails PROVE Inv'
  BY <1>9, StartupFailsKeepsInv DEF OpenFails, Startup
<1>10. ASSUME Open PROVE Inv'
  BY <1>10, Quiet DEF Open, Control, KeepsDuty, Startup
<1>11. ASSUME OutputReady PROVE Inv'
  BY <1>11, Quiet DEF OutputReady, Control, KeepsDuty, Startup
<1>12. ASSUME OutputFails PROVE Inv'
  BY <1>12, StartupFailsKeepsInv DEF OutputFails, Startup
<1>13. ASSUME Publish PROVE Inv'
  <2> USE <1>13 DEF Inv
  <2>1. RequestIsServed'
    BY DEF Publish, Current, RequestIsServed, PendingIsFresh
  <2>2. StartupIsCurrent'
    BY DEF Publish, StartupIsCurrent, TypeOK, WorkerTyped, Startup
  <2>3. WorkerOwnsTheTrack'
    BY
       DEF Publish, StartupIsCurrent, WorkerOwnsTheTrack,
           StoppedStartupIsSilent, Startup, Inner
  <2>4. ProgressIsTrusted'
    BY
       DEF Publish, Current, PendingIsFresh, StartupIsCurrent,
           ProgressIsTrusted, TypeOK, WorkerTyped, Startup
  <2>5. TrustedHasAGeneration'
    BY
       DEF Publish, Current, PendingIsFresh, StartupIsCurrent,
           TrustedHasAGeneration, TypeOK, EventsTyped, WorkerTyped, Startup
  <2>6. PlayingWasNotStopped'
    BY
       DEF Publish, Current, GenerationsAreOrdered, PlayingWasNotStopped,
           TypeOK, WorkerTyped, Inner
  <2>7. (PendingIsFresh /\ GenerationsAreOrdered /\ TagsAreOfTheRequest
         /\ StoppedStartupIsSilent /\ OutputMatchesPlace)'
    BY
       DEF Publish, PendingIsFresh, GenerationsAreOrdered, TagsAreOfTheRequest,
           StoppedStartupIsSilent, OutputMatchesPlace
  <2> QED BY <2>1, <2>2, <2>3, <2>4, <2>5, <2>6, <2>7
<1>14. ASSUME OutputLook PROVE Inv'
  BY <1>14, Quiet DEF OutputLook, Control, KeepsDuty, Startup
<1>15. ASSUME PrimeTakes \/ PrimeEnds PROVE Inv'
  BY <1>15, Quiet DEF PrimeTakes, PrimeEnds, Control, KeepsDuty, Startup, Inner
<1> QED
  BY <1>1, <1>2, <1>3, <1>4, <1>5, <1>6, <1>7, <1>8, <1>9, <1>10, <1>11, <1>12, <1>13, <1>14, <1>15
     DEF Starting

(* A clip takes and lets go the output, and nothing else. *)
LEMMA InvClipping ==
    ASSUME Inv, TypeOK', Clipping
    PROVE  Inv'
<1>1. ASSUME IdlePlaysClip PROVE Inv'
  BY <1>1, Quiet DEF IdlePlaysClip, AtIdle, PlayClip, Control, KeepsDuty, Startup, Inner
<1>2. ASSUME HeldPlaysClip PROVE Inv'
  BY <1>2, Quiet DEF HeldPlaysClip, AtHeld, PlayClip, Control, KeepsDuty, Startup, Inner
<1>3. ASSUME ClipTakes PROVE Inv'
  BY <1>3, Quiet DEF ClipTakes, Control, KeepsDuty, Startup, Inner
<1>4. ASSUME ClipPlays PROVE Inv'
  BY <1>4, Quiet DEF ClipPlays, Control, KeepsDuty, Startup, Inner
<1>5. ASSUME ClipCloses PROVE Inv'
  BY <1>5, Quiet DEF ClipCloses, Control, KeepsDuty, Startup, Inner
<1> QED
  BY <1>1, <1>2, <1>3, <1>4, <1>5 DEF Clipping

(* The worker inside the crossfade window. *)
LEMMA InvBlending ==
    ASSUME Inv, TypeOK', Blending
    PROVE  Inv'
<1>1. ASSUME Prefetch PROVE Inv'
  BY <1>1, Quiet DEF Prefetch, OnlyDecoders, Control, KeepsDuty, Inner, Startup
<1>2. ASSUME BlendRead PROVE Inv'
  BY <1>2, Quiet DEF BlendRead, OnlyDecoders, Control, KeepsDuty, Inner, Startup
<1>3. ASSUME BlendReadFails PROVE Inv'
  BY <1>3, FailsKeepsInv DEF BlendReadFails, Inner
<1>4. ASSUME BlendEOF PROVE Inv'
  BY <1>4, Quiet DEF BlendEOF, Control, KeepsDuty, Inner, Startup
<1>5. ASSUME BlendDone PROVE Inv'
  BY <1>5, Quiet DEF BlendDone, OnlyDecoders, Control, KeepsDuty, Inner, Startup
<1>6. ASSUME MixChunk PROVE Inv'
  BY <1>6, Quiet DEF MixChunk, OnlyDecoders, Control, KeepsDuty, Inner, Startup
<1>7. ASSUME MixNextFails PROVE Inv'
  BY <1>7, Quiet
     DEF MixNextFails, OnlyDecoders, Control, KeepsDuty, Inner, Startup
<1>8. ASSUME MixWriteFails PROVE Inv'
  BY <1>8, FailsKeepsInv DEF MixWriteFails, Inner
<1>9. ASSUME CrossfadePromote PROVE Inv'
  <2> USE <1>9 DEF Inv
  <2>1. PendingIsFresh'
    BY
       DEF CrossfadePromote, Promote, SnapStillValid, PendingIsFresh,
           WorkerOwnsTheTrack, Inner
  <2>2. GenerationsAreOrdered'
    BY
       DEF CrossfadePromote, Promote, Adopt, SnapStillValid,
           GenerationsAreOrdered, TypeOK, EventsTyped, StartupTyped,
           WorkerTyped
  <2>3. ProgressIsTrusted'
    BY
       DEF CrossfadePromote, Promote, Adopt, GenerationsAreOrdered,
           ProgressIsTrusted, TypeOK, OwnerTyped
  <2>4. TrustedHasAGeneration'
    BY DEF CrossfadePromote, Promote, TrustedHasAGeneration, TypeOK, OwnerTyped
  <2>5. PlayingWasNotStopped'
    BY
       DEF CrossfadePromote, Promote, Adopt, GenerationsAreOrdered,
           PlayingWasNotStopped, TypeOK, OwnerTyped
  <2>6. (RequestIsServed /\ StartupIsCurrent /\ WorkerOwnsTheTrack
         /\ TagsAreOfTheRequest /\ StoppedStartupIsSilent
         /\ OutputMatchesPlace)'
    BY
       DEF CrossfadePromote, Promote, SnapStillValid, Startup, Adopt, Inner,
           RequestIsServed, StartupIsCurrent, WorkerOwnsTheTrack,
           TagsAreOfTheRequest, StoppedStartupIsSilent, OutputMatchesPlace
  <2> QED BY <2>1, <2>2, <2>3, <2>4, <2>5, <2>6
<1>10. ASSUME CrossfadeStale PROVE Inv'
  BY <1>10, Quiet
     DEF CrossfadeStale, DropPrefetch, OnlyDecoders, Control, KeepsDuty, Inner,
         Startup
<1> QED
  BY <1>1, <1>2, <1>3, <1>4, <1>5, <1>6, <1>7, <1>8, <1>9, <1>10 DEF Blending

(* The worker playing, and at the end of the track. *)
LEMMA InvPlaying ==
    ASSUME Inv, TypeOK', Playing
    PROVE  Inv'
<1>1. ASSUME PauseOutput PROVE Inv'
  <2> USE <1>1 DEF Inv
  <2>1. (RequestIsServed /\ PendingIsFresh /\ GenerationsAreOrdered
         /\ StartupIsCurrent /\ WorkerOwnsTheTrack /\ ProgressIsTrusted
         /\ TrustedHasAGeneration /\ TagsAreOfTheRequest
         /\ PlayingWasNotStopped /\ StoppedStartupIsSilent
         /\ OutputMatchesPlace)'
    BY
       DEF PauseOutput, Startup, Inner, RequestIsServed, PendingIsFresh,
           GenerationsAreOrdered, StartupIsCurrent, WorkerOwnsTheTrack,
           ProgressIsTrusted, TrustedHasAGeneration, TagsAreOfTheRequest,
           PlayingWasNotStopped, StoppedStartupIsSilent, OutputMatchesPlace
  <2> QED BY <2>1
<1>2. ASSUME HeldWait PROVE Inv'
  BY <1>2, Quiet DEF HeldWait, AtHeld, Sleep, Control, KeepsDuty, Inner, Startup
<1>3. ASSUME Snapshot PROVE Inv'
  <2>1. pc \in Inner /\ pc' \in {"unwind", "seek", "loop", "decode", "prefetch"}
    BY <1>3 DEF Snapshot, AtHeld, Inner
  <2>2. KeepsDuty
    BY <2>1 DEF KeepsDuty, Startup, Inner
  <2> QED BY <1>3, <2>2, Quiet DEF Snapshot, Control
<1>4. ASSUME SeekDone PROVE Inv'
  BY <1>4, Quiet DEF SeekDone, OnlyDecoders, Control, KeepsDuty, Inner, Startup
<1>5. ASSUME SeekFails PROVE Inv'
  BY <1>5, FailsKeepsInv DEF SeekFails, Inner
<1>6. ASSUME DecodeChunk PROVE Inv'
  BY <1>6, Quiet
     DEF DecodeChunk, OnlyDecoders, Control, KeepsDuty, Inner, Startup
<1>7. ASSUME DecodeFails PROVE Inv'
  BY <1>7, FailsKeepsInv DEF DecodeFails, Inner
<1>8. ASSUME PrematureEOF PROVE Inv'
  BY <1>8, Quiet DEF PrematureEOF, Control, KeepsDuty, Inner, Startup
<1>9. ASSUME Reopen PROVE Inv'
  BY <1>9, Quiet DEF Reopen, Control, KeepsDuty, Inner, Startup
<1>10. ASSUME RecoveryFails PROVE Inv'
  BY <1>10, FailsKeepsInv DEF RecoveryFails, Inner
<1>11. ASSUME EofHandoff PROVE Inv'
  BY <1>11, Quiet
     DEF EofHandoff, OnlyDecoders, Control, KeepsDuty, Inner, Startup
<1>12. ASSUME EofEnds PROVE Inv'
  BY <1>12, Quiet DEF EofEnds, Control, KeepsDuty, Inner, Startup
<1>13. ASSUME Handoff PROVE Inv'
  BY <1>13, Quiet DEF Handoff, OnlyDecoders, Control, KeepsDuty, Inner, Startup
<1>14. ASSUME GaplessPromote PROVE Inv'
  <2> USE <1>14 DEF Inv
  <2>1. PendingIsFresh'
    BY
       DEF GaplessPromote, Promote, SnapStillValid, PendingIsFresh,
           WorkerOwnsTheTrack, Inner
  <2>2. GenerationsAreOrdered'
    BY
       DEF GaplessPromote, Promote, Adopt, SnapStillValid,
           GenerationsAreOrdered, TypeOK, EventsTyped, StartupTyped,
           WorkerTyped
  <2>3. ProgressIsTrusted'
    BY
       DEF GaplessPromote, Promote, Adopt, GenerationsAreOrdered,
           ProgressIsTrusted, TypeOK, OwnerTyped
  <2>4. TrustedHasAGeneration'
    BY DEF GaplessPromote, Promote, TrustedHasAGeneration, TypeOK, OwnerTyped
  <2>5. PlayingWasNotStopped'
    BY
       DEF GaplessPromote, Promote, Adopt, GenerationsAreOrdered,
           PlayingWasNotStopped, TypeOK, OwnerTyped
  <2>6. (RequestIsServed /\ StartupIsCurrent /\ WorkerOwnsTheTrack
         /\ TagsAreOfTheRequest /\ StoppedStartupIsSilent
         /\ OutputMatchesPlace)'
    BY
       DEF GaplessPromote, Promote, SnapStillValid, Startup, Adopt, Inner,
           RequestIsServed, StartupIsCurrent, WorkerOwnsTheTrack,
           TagsAreOfTheRequest, StoppedStartupIsSilent, OutputMatchesPlace
  <2> QED BY <2>1, <2>2, <2>3, <2>4, <2>5, <2>6
<1>15. ASSUME GaplessOutputFails PROVE Inv'
  <2> USE <1>15 DEF Inv
  <2>1. PendingIsFresh'
    BY
       DEF GaplessOutputFails, Promote, SnapStillValid, PendingIsFresh,
           WorkerOwnsTheTrack, Inner
  <2>2. GenerationsAreOrdered'
    BY
       DEF GaplessOutputFails, Promote, Adopt, SnapStillValid,
           GenerationsAreOrdered, TypeOK, StartupTyped, WorkerTyped
  <2>3. StoppedStartupIsSilent'
    BY
       DEF GaplessOutputFails, Promote, GenerationsAreOrdered,
           StoppedStartupIsSilent, TypeOK, OwnerTyped
  <2>4. (RequestIsServed /\ StartupIsCurrent /\ WorkerOwnsTheTrack
         /\ ProgressIsTrusted /\ TrustedHasAGeneration
         /\ TagsAreOfTheRequest /\ PlayingWasNotStopped
         /\ OutputMatchesPlace)'
    BY
       DEF GaplessOutputFails, Promote, SnapStillValid, Startup, Inner,
           RequestIsServed, StartupIsCurrent, WorkerOwnsTheTrack,
           ProgressIsTrusted, TrustedHasAGeneration, TagsAreOfTheRequest,
           PlayingWasNotStopped, OutputMatchesPlace
  <2> QED BY <2>1, <2>2, <2>3, <2>4
<1>16. ASSUME HandoffStale PROVE Inv'
  BY <1>16, Quiet
     DEF HandoffStale, DropPrefetch, OnlyDecoders, Control, KeepsDuty, Inner,
         Startup
<1>17. ASSUME WriteCheck PROVE Inv'
  BY <1>17, Quiet
     DEF WriteCheck, OnlyDecoders, Control, KeepsDuty, Inner, Startup
<1>18. ASSUME Written PROVE Inv'
  BY <1>18, Quiet DEF Written, OnlyDecoders, Control, KeepsDuty, Inner, Startup
<1>19. ASSUME WriteFails PROVE Inv'
  BY <1>19, FailsKeepsInv DEF WriteFails, Inner
<1>20. ASSUME RetryAborted PROVE Inv'
  BY <1>20, Quiet DEF RetryAborted, Control, KeepsDuty, Inner, Startup
<1> QED
  BY <1>1, <1>2, <1>3, <1>4, <1>5, <1>6, <1>7, <1>8, <1>9, <1>10, <1>11, <1>12, <1>13, <1>14, <1>15, <1>16, <1>17, <1>18, <1>19, <1>20
     DEF Playing

(* The worker leaving the playback loop. *)
LEMMA InvEnding ==
    ASSUME Inv, TypeOK', Ending
    PROVE  Inv'
<1>1. ASSUME Unwind PROVE Inv'
  BY <1>1, Quiet DEF Unwind, LeavesLoop, Control, KeepsDuty, Inner, Startup
<1>2. ASSUME Close PROVE Inv'
  <2> USE <1>2 DEF Inv
  <2>1. (RequestIsServed /\ PendingIsFresh /\ GenerationsAreOrdered
         /\ StartupIsCurrent /\ WorkerOwnsTheTrack /\ ProgressIsTrusted
         /\ TrustedHasAGeneration /\ TagsAreOfTheRequest
         /\ PlayingWasNotStopped /\ StoppedStartupIsSilent
         /\ OutputMatchesPlace)'
    BY
       DEF Close, Startup, Inner, RequestIsServed, PendingIsFresh,
           GenerationsAreOrdered, StartupIsCurrent, WorkerOwnsTheTrack,
           ProgressIsTrusted, TrustedHasAGeneration, TagsAreOfTheRequest,
           PlayingWasNotStopped, StoppedStartupIsSilent, OutputMatchesPlace
  <2> QED BY <2>1
<1>3. ASSUME Settle PROVE Inv'
  <2> USE <1>3 DEF Inv
  <2>1. RequestIsServed'
    BY DEF Settle, RequestIsServed, TypeOK, WorkerTyped, Startup
  <2>2. (PendingIsFresh /\ GenerationsAreOrdered /\ StartupIsCurrent
         /\ WorkerOwnsTheTrack /\ ProgressIsTrusted
         /\ TrustedHasAGeneration /\ TagsAreOfTheRequest
         /\ PlayingWasNotStopped /\ StoppedStartupIsSilent
         /\ OutputMatchesPlace)'
    BY
       DEF Settle, TerminalProgress, Startup, Inner, PendingIsFresh,
           GenerationsAreOrdered, StartupIsCurrent, WorkerOwnsTheTrack,
           ProgressIsTrusted, TrustedHasAGeneration, TagsAreOfTheRequest,
           PlayingWasNotStopped, StoppedStartupIsSilent, OutputMatchesPlace
  <2> QED BY <2>1, <2>2
<1> QED
  BY <1>1, <1>2, <1>3 DEF Ending

(* Nothing is requested, playing or stopped when the engine starts.          *)
LEMMA InvInit == Init => Inv
<1> SUFFICES ASSUME Init PROVE Inv
  OBVIOUS
<1>1. TypeOK BY TypeInit
<1>2. RequestIsServed /\ PendingIsFresh /\ GenerationsAreOrdered
  BY DEF Init, NoError, RequestIsServed, PendingIsFresh, GenerationsAreOrdered
<1>3. StartupIsCurrent /\ WorkerOwnsTheTrack /\ PlayingWasNotStopped /\ OutputMatchesPlace
  BY DEF Init, Startup, Inner, StartupIsCurrent, WorkerOwnsTheTrack,
         PlayingWasNotStopped, OutputMatchesPlace
<1>4. ProgressIsTrusted /\ TrustedHasAGeneration /\ TagsAreOfTheRequest
      /\ StoppedStartupIsSilent
  BY DEF Init, ProgressIsTrusted, TrustedHasAGeneration, TagsAreOfTheRequest,
         StoppedStartupIsSilent
<1> QED BY <1>1, <1>2, <1>3, <1>4 DEF Inv

(* Every step, of the API, of the waiter or of the worker, preserves it.     *)
LEMMA InvStep == Inv /\ [Next]_vars => Inv'
<1> SUFFICES ASSUME Inv, [Next]_vars PROVE Inv'
  OBVIOUS
<1>1. TypeOK' BY TypeStep DEF Inv
<1>2. CASE Api BY <1>1, <1>2, InvApi
<1>3. CASE WaitBegin \/ Waiter BY <1>1, <1>3, InvWaiting
<1>4. CASE Starting BY <1>1, <1>4, InvStarting
<1>5. CASE Blending BY <1>1, <1>5, InvBlending
<1>6. CASE Playing BY <1>1, <1>6, InvPlaying
<1>7. CASE Ending BY <1>1, <1>7, InvEnding
<1>8. CASE Clipping BY <1>1, <1>8, InvClipping
<1>9. CASE UNCHANGED vars
  BY <1>1, <1>9, Quiet DEF vars, Control, KeepsDuty
<1> QED
  BY <1>2, <1>3, <1>4, <1>5, <1>6, <1>7, <1>8, <1>9 DEF Next, Worker

(* The inductive invariant holds of every behaviour of the engine.           *)
LEMMA InvCorrect == Safety => []Inv
<1>1. Init => Inv BY InvInit
<1>2. Inv /\ [Next]_vars => Inv' BY InvStep
<1> QED BY <1>1, <1>2, PTL DEF Safety

(* Every variable keeps its type, for any tracks and any bounds. *)
THEOREM TypeCorrect == Safety => []TypeOK
<1>1. Inv => TypeOK BY DEF Inv
<1> QED BY <1>1, InvCorrect, PTL

(* While no command is outstanding, the worker plays the track, generation   *)
(* and counters that audio_get_playback_progress() and the others report.    *)
THEOREM WorkerOwnership == Safety => []WorkerOwnsTheTrack
<1>1. Inv => WorkerOwnsTheTrack BY DEF Inv
<1> QED BY <1>1, InvCorrect, PTL

(* No request of play_file_request() is ever orphaned. *)
THEOREM RequestsAreServed == Safety => []RequestIsServed
<1>1. Inv => RequestIsServed BY DEF Inv
<1> QED BY <1>1, InvCorrect, PTL

(* Trusted progress belongs to the current generation and to no failed track. *)
THEOREM ProgressTrusted == Safety => []ProgressIsTrusted
<1>1. Inv => ProgressIsTrusted BY DEF Inv
<1> QED BY <1>1, InvCorrect, PTL

(* Tags read for a superseded request are never handed out. *)
THEOREM TagsCorrect == Safety => []TagsAreOfTheRequest
<1>1. Inv => TagsAreOfTheRequest BY DEF Inv
<1> QED BY <1>1, InvCorrect, PTL

(* The worker never reports an error for a start-up that audio_stop() ended.  *)
THEOREM StoppedStartupSilent == Safety => []StoppedStartupIsSilent
<1>1. Inv => StoppedStartupIsSilent BY DEF Inv
<1> QED BY <1>1, InvCorrect, PTL

------------------------------------------------------------------------------
(* Action properties, from the same invariant. *)

(* While the engine says it is idle, the steps of requests, start-ups, the    *)
(* playback loop and its failures leave the output alone: they belong to a    *)
(* track that is starting or playing.  What takes it is ensure_device() in    *)
(* the priming and in the idle wait's loop clip.                              *)
LEMMA IdleStep ==
    ASSUME Inv, [Next]_vars, audio_is_idle, local_output_active'
    PROVE  pc \in {"prime", "clip"}
<1> USE DEF audio_is_idle
<1>1. pc \notin Inner
  BY DEF Inv, WorkerOwnsTheTrack
<1>2. pc \notin Startup
  BY DEF Inv, StartupIsCurrent
<1>3. pc \notin {"primed", "clip_play"}
  BY DEF Inv, OutputMatchesPlace
<1>4. CASE Api
  BY <1>4 DEF Api, PlayFile, SetNextTrack, SetNextTrackForGeneration, Arm, SetCrossfade,
     LoopStart, LoopStop, TogglePause, Stop, Seek, ConsumeError, ConsumeAdvanced,
     ConsumeFinished
<1>5. CASE WaitBegin \/ Waiter
  BY <1>5 DEF Waiter, WaitBegin, WaitSleep, WaitReturn
<1>6. CASE Starting
  BY <1>2, <1>3, <1>6 DEF Starting, Startup, PrimeTakes, PrimeEnds, IdleWait, Sleep,
     IdleStop, IdleRestart, FinishLook, FinishClose, FinishAck, ReadTags, CancelCheck,
     OpenFails, Open, OutputLook, OutputReady, OutputFails, Publish
<1>7. CASE Clipping
  BY <1>1, <1>3, <1>7 DEF Clipping, Inner, IdlePlaysClip, HeldPlaysClip, PlayClip,
     ClipTakes, ClipPlays, ClipCloses
<1>8. CASE Blending
  BY <1>1, <1>8 DEF Blending, Inner, Prefetch, BlendRead, BlendReadFails, BlendEOF,
     BlendDone, MixChunk, MixNextFails, MixWriteFails, CrossfadePromote,
     CrossfadeStale
<1>9. CASE Playing
  BY <1>1, <1>9 DEF Playing, Inner, PauseOutput, HeldWait, Sleep, Snapshot, AtHeld,
     SeekDone, SeekFails, DecodeChunk, DecodeFails, PrematureEOF, Reopen, RecoveryFails,
     EofHandoff, EofEnds, Handoff, GaplessPromote, GaplessOutputFails, HandoffStale,
     WriteCheck, Written, RetryAborted, WriteFails
<1>10. CASE Ending
  BY <1>10 DEF Ending, Unwind, LeavesLoop, Close, Settle
<1>11. CASE UNCHANGED vars BY <1>11 DEF vars
<1> QED
  BY <1>4, <1>5, <1>6, <1>7, <1>8, <1>9, <1>10, <1>11 DEF Next, Worker

(* What other producers may rely on when they wait for audio_is_idle(): the   *)
(* engine takes the output only for its priming or for a loop clip.           *)
THEOREM IdleOutputTakers == Safety => OnlyClipsTakeIdleOutput
<1>1. Inv /\ [Next]_vars
        => [audio_is_idle /\ local_output_active' => pc \in {"prime", "clip"}]_vars
  BY IdleStep
<1> QED BY <1>1, InvCorrect, PTL DEF Safety, OnlyClipsTakeIdleOutput

(* A Stop is taken back by the next request, or acknowledged by the worker,   *)
(* which has closed the output by then.                                       *)
LEMMA AckStep ==
    ASSUME Inv, [Next]_vars, stop_requested, ~stop_requested',
           playback_generation' = playback_generation
    PROVE  ~local_output_active
<1>1. CASE Api
  <2>1. ASSUME NEW p \in Tracks, PlayFile(p) PROVE FALSE
    BY <2>1 DEF PlayFile, Inv, TypeOK, OwnerTyped
  <2> QED
    BY <1>1, <2>1 DEF Api, SetNextTrack, SetNextTrackForGeneration, Arm, SetCrossfade,
       LoopStart, LoopStop, TogglePause, Stop, Seek, ConsumeError, ConsumeAdvanced,
       ConsumeFinished
<1>2. CASE WaitBegin \/ Waiter
  BY <1>2 DEF Waiter, WaitBegin, WaitSleep, WaitReturn
<1>3. CASE Starting
  BY <1>3 DEF Inv, OutputMatchesPlace, Starting, PrimeTakes, PrimeEnds, IdleWait, Sleep,
     IdleStop, IdleRestart, FinishLook, FinishClose, FinishAck, ReadTags, CancelCheck, OpenFails, Open,
     OutputLook, OutputReady, OutputFails, StartupFails, Publish
<1>4. CASE Blending
  BY <1>4 DEF Blending, Prefetch, BlendRead, BlendReadFails, BlendEOF, BlendDone,
     MixChunk, MixNextFails, MixWriteFails, CrossfadePromote, CrossfadeStale, Promote,
     Fails, DropPrefetch, OnlyDecoders
<1>5. CASE Playing
  BY <1>5 DEF Playing, PauseOutput, HeldWait, Sleep, Snapshot, SeekDone, SeekFails,
     DecodeChunk, DecodeFails, PrematureEOF, Reopen, RecoveryFails, EofHandoff, EofEnds,
     Handoff, GaplessPromote, GaplessOutputFails, HandoffStale, WriteCheck, Written, RetryAborted,
     WriteFails,
     Promote, Fails, DropPrefetch, OnlyDecoders
<1>6. CASE Ending
  BY <1>6 DEF Inv, OutputMatchesPlace, Ending, Unwind, LeavesLoop, Close, Settle
<1>7. CASE Clipping
  BY <1>7 DEF Clipping, IdlePlaysClip, HeldPlaysClip, PlayClip, ClipTakes, ClipPlays,
     ClipCloses
<1>8. CASE UNCHANGED vars BY <1>8 DEF vars
<1> QED
  BY <1>1, <1>2, <1>3, <1>4, <1>5, <1>6, <1>7, <1>8 DEF Next, Worker

(* A Stop that is not overtaken is acknowledged with the output released. *)
THEOREM StopAckReleased == Safety => StopAcknowledgedReleased
<1>1. Inv /\ [Next]_vars
        => [stop_requested /\ ~stop_requested' /\ playback_generation' = playback_generation
              => ~local_output_active]_vars
  BY AckStep
<1> QED BY <1>1, InvCorrect, PTL DEF Safety, StopAcknowledgedReleased

------------------------------------------------------------------------------
(* What a waiter for the tags of a start-up is told.  It needs to know why    *)
(* the generation it waits for is no longer starting.                         *)

(* Tags are published before a start-up can end: once the decoder is being    *)
(* opened for the request, or the request is no longer starting, they are there.*)
TagsWereRead ==
    /\ active_path \in LocalTracks /\ playback_generation = request_generation
    /\ \/ ~startup_pending
       \/ pc \in Startup \ {"tags"} /\ cur_generation = playback_generation
    => startup_metadata = request_generation

(* The generation outgrows that of the last request only by stopping its      *)
(* start-up or by a promotion.                                                *)
WhyItGrew ==
    /\ request_generation <= playback_generation
    /\ stopped_startup_generation # 0 => stopped_startup_generation = request_generation
    /\ playback_generation > request_generation =>
          \/ stopped_startup_generation = request_generation
          \/ counter_generation > request_generation

(* A waiter waits for a request for a file, the last one or one before it.    *)
WaitsForARequest ==
    waiter_gen # 0 => /\ waiter_gen <= request_generation
                      /\ playback_generation = waiter_gen => active_path \in LocalTracks

(* Together with Inv these are inductive.                                     *)
Answered == TagsWereRead /\ WhyItGrew /\ WaitsForARequest

(* What they speak of, apart from the worker's place and the waiter.          *)
Asked == <<startup_pending, playback_generation, active_path, counter_generation,
           request_generation, startup, cur_generation>>

(* Steps that touch neither requests nor tags, and where the worker stays at  *)
(* or leaves its start-up.                                                    *)
LEMMA QuietAnswer ==
    ASSUME Answered, UNCHANGED Asked, waiter_gen' \in {waiter_gen, 0},
           pc' \in Startup \ {"tags"} => pc' = pc \/ pc \in Startup \ {"tags"}
    PROVE  Answered'
<1>1. TagsWereRead'
  BY DEF Asked, Answered, TagsWereRead
<1>2. WhyItGrew'
  BY DEF Asked, Answered, WhyItGrew
<1>3. WaitsForARequest'
  BY DEF Asked, Answered, WaitsForARequest
<1> QED
  BY <1>1, <1>2, <1>3 DEF Answered

(* Requests and Stops: a Stop of a start-up leaves its mark.                  *)
LEMMA AnsweredApi ==
    ASSUME Inv, Answered, Api
    PROVE  Answered'
<1>0. /\ playback_generation \in Nat /\ request_generation \in Nat /\ waiter_gen \in Nat
      /\ cur_generation \in Nat /\ cur_generation <= playback_generation
  BY DEF Inv, TypeOK, OwnerTyped, WaitingTyped, WorkerTyped, GenerationsAreOrdered
<1>1. ASSUME NEW p \in Tracks, PlayFile(p) PROVE Answered'
  <2>1. TagsWereRead'
    BY <1>0, <1>1 DEF PlayFile, TagsWereRead
  <2>2. WhyItGrew'
    BY <1>0, <1>1 DEF PlayFile, WhyItGrew
  <2>3. WaitsForARequest'
    BY <1>0, <1>1 DEF PlayFile, Answered, WhyItGrew, WaitsForARequest
  <2> QED
    BY <2>1, <2>2, <2>3 DEF Answered
<1>2. CASE Stop
  <2>1. CASE startup_pending
    <3>1. request_generation = playback_generation
      BY <2>1 DEF Inv, PendingIsFresh
    <3>2. TagsWereRead'
      BY <1>0, <1>2, <2>1, <3>1 DEF Stop, TagsWereRead
    <3>3. WhyItGrew'
      BY <1>0, <1>2, <2>1, <3>1 DEF Stop, WhyItGrew
    <3>4. WaitsForARequest'
      BY <1>0, <1>2, <2>1, <3>1 DEF Stop, Answered, WaitsForARequest
    <3> QED
      BY <3>2, <3>3, <3>4 DEF Answered
  <2>2. CASE ~startup_pending
    BY <1>2, <2>2, <1>0, QuietAnswer DEF Asked, Stop, Inv, TypeOK, TransportTyped
  <2> QED
    BY <2>1, <2>2
<1>3. CASE ~Stop /\ ~(\E p \in Tracks : PlayFile(p))
  <2>1. /\ pc' = pc /\ waiter_gen' = waiter_gen
        /\ UNCHANGED Asked
    BY <1>3 DEF Asked, Api, SetNextTrack, SetNextTrackForGeneration, Arm, SetCrossfade,
       LoopStart, LoopStop, TogglePause, Seek, ConsumeError, ConsumeAdvanced, ConsumeFinished
  <2> QED
    BY <2>1, QuietAnswer
<1> QED
  BY <1>1, <1>2, <1>3

(* The waiter itself.                                                         *)
LEMMA AnsweredWaiting ==
    ASSUME Inv, Answered, WaitBegin \/ Waiter
    PROVE  Answered'
<1>1. CASE WaitBegin
  BY <1>1 DEF WaitBegin, Answered, TagsWereRead, WhyItGrew, WaitsForARequest, Inv, TypeOK, OwnerTyped
<1>2. CASE Waiter
  BY <1>2, QuietAnswer DEF Asked, Waiter, WaitSleep, WaitReturn
<1> QED
  BY <1>1, <1>2

(* A failed start-up ends with its tags published.                            *)
LEMMA AnsweredFails ==
    ASSUME Inv, Answered, NEW kind, StartupFails(kind), pc \in Startup \ {"tags"}
    PROVE  Answered'
<1>1. CASE Current
  <2>1. TagsWereRead'
    BY <1>1 DEF StartupFails, Current, Answered, TagsWereRead
  <2> QED
    BY <1>1, <2>1 DEF StartupFails, Answered, WhyItGrew, WaitsForARequest
<1>2. CASE ~Current
  BY <1>2, QuietAnswer DEF Asked, StartupFails, Startup
<1> QED
  BY <1>1, <1>2

(* The worker starting the request: tags first, and only for the latest one.  *)
LEMMA AnsweredStarting ==
    ASSUME Inv, Answered, Starting
    PROVE  Answered'
<1>1. CASE IdleRestart
  <2>1. startup_pending /\ restart_path = active_path
    BY <1>1 DEF IdleRestart, Inv, RequestIsServed
  <2>2. TagsWereRead'
    BY <1>1, <2>1 DEF IdleRestart, Answered, TagsWereRead, Startup
  <2> QED
    BY <1>1, <2>2 DEF IdleRestart, Answered, WhyItGrew, WaitsForARequest
<1>2. CASE FinishAck
  <2>1. startup_pending /\ ~restart_requested => FALSE
    BY <1>2 DEF FinishAck, Inv, RequestIsServed, Startup
  <2>2. UNCHANGED startup_pending
    <3>1. CASE restart_requested
      BY <1>2, <3>1 DEF FinishAck
    <3>2. CASE ~restart_requested
      <4>1. startup_pending = FALSE
        BY <2>1, <3>2 DEF Inv, TypeOK, TransportTyped
      <4> QED
        BY <1>2, <4>1 DEF FinishAck
    <3> QED
      BY <3>1, <3>2
  <2> QED
    BY <1>2, <2>2, QuietAnswer DEF Asked, FinishAck, Startup
<1>3. CASE ReadTags
  <2>1. TagsWereRead'
    <3>1. CASE Current
      BY <1>3, <3>1 DEF ReadTags, PublishTags, Current, TagsWereRead
    <3>2. CASE ~Current
      <4>1. startup_pending /\ cur_generation = playback_generation => FALSE
        BY <3>2 DEF Current, Inv, PendingIsFresh, RequestIsServed, GenerationsAreOrdered,
           TypeOK, WorkerTyped, OwnerTyped
      <4> QED
        BY <1>3, <3>2, <4>1 DEF ReadTags, PublishTags, Answered, TagsWereRead
    <3> QED
      BY <3>1, <3>2
  <2>2. WhyItGrew' /\ WaitsForARequest'
    BY <1>3 DEF ReadTags, Answered, WhyItGrew, WaitsForARequest
  <2> QED
    BY <2>1, <2>2 DEF Answered
<1>4. CASE Publish
  <2>1. CASE Current
    <3>1. startup_pending /\ request_generation = playback_generation
      BY <1>4, <2>1 DEF Publish, Current, Inv, StartupIsCurrent, PendingIsFresh, Startup
    <3>2. TagsWereRead'
      BY <1>4, <2>1, <3>1 DEF Publish, Current, Answered, TagsWereRead, Startup
    <3>3. WhyItGrew' /\ WaitsForARequest'
      BY <1>4, <2>1, <3>1 DEF Publish, Answered, WhyItGrew, WaitsForARequest, Inv, TypeOK, OwnerTyped
    <3> QED
      BY <3>2, <3>3 DEF Answered
  <2>2. CASE ~Current
    BY <1>4, <2>2, QuietAnswer DEF Asked, Publish, Startup
  <2> QED
    BY <2>1, <2>2
<1>5. CASE OpenFails \/ OutputFails
  BY <1>5, AnsweredFails DEF OpenFails, OutputFails, Startup
<1>6. CASE \/ PrimeTakes \/ PrimeEnds \/ IdleWait \/ IdleStop \/ FinishLook \/ FinishClose
           \/ CancelCheck \/ Open \/ OutputLook \/ OutputReady
  BY <1>6, QuietAnswer DEF Asked, PrimeTakes, PrimeEnds, IdleWait, Sleep, IdleStop,
     FinishLook, FinishClose, CancelCheck, Open, OutputLook, OutputReady, Startup
<1> QED
  BY <1>1, <1>2, <1>3, <1>4, <1>5, <1>6 DEF Starting

(* A promotion takes a generation for itself and its counters.                *)
LEMMA AnsweredPromote ==
    ASSUME Inv, Answered, Promote, pc' \notin Startup
    PROVE  Answered'
<1>0. playback_generation \in Nat /\ request_generation \in Nat /\ waiter_gen \in Nat
  BY DEF Inv, TypeOK, OwnerTyped, WaitingTyped
<1>1. TagsWereRead'
  BY <1>0 DEF Promote, Answered, WhyItGrew, TagsWereRead
<1>2. WhyItGrew'
  BY <1>0 DEF Promote, Adopt, Answered, WhyItGrew
<1>3. WaitsForARequest'
  BY <1>0 DEF Promote, Answered, WhyItGrew, WaitsForARequest
<1> QED
  BY <1>1, <1>2, <1>3 DEF Answered

(* The worker playing and ending: only a promotion matters.                   *)
LEMMA AnsweredWorking ==
    ASSUME Inv, Answered, Clipping \/ Blending \/ Playing \/ Ending
    PROVE  Answered'
<1>1. CASE CrossfadePromote \/ GaplessPromote \/ GaplessOutputFails
  BY <1>1, AnsweredPromote DEF CrossfadePromote, GaplessPromote, GaplessOutputFails, Startup
<1>2. CASE Blending /\ ~CrossfadePromote
  <2>1. /\ pc' \notin Startup /\ waiter_gen' = waiter_gen
        /\ UNCHANGED Asked
    BY <1>2 DEF Asked, Blending, Prefetch, BlendRead, BlendReadFails, BlendEOF, BlendDone,
       MixChunk, MixNextFails, MixWriteFails, CrossfadeStale, Fails, DropPrefetch,
       OnlyDecoders, Startup
  <2> QED
    BY <2>1, QuietAnswer
<1>3. CASE Playing /\ ~GaplessPromote /\ ~GaplessOutputFails
  <2>1. /\ pc' \notin Startup /\ waiter_gen' = waiter_gen
        /\ UNCHANGED Asked
    BY <1>3 DEF Asked, Playing, PauseOutput, HeldWait, Sleep, Snapshot, SeekDone, SeekFails, DecodeChunk,
       DecodeFails, PrematureEOF, Reopen, RecoveryFails, EofHandoff, EofEnds, Handoff,
       HandoffStale, WriteCheck, Written, RetryAborted, WriteFails,
       Fails, DropPrefetch, OnlyDecoders, Startup
  <2> QED
    BY <2>1, QuietAnswer
<1>4. CASE Ending
  BY <1>4, QuietAnswer DEF Asked, Ending, Unwind, LeavesLoop, Close, Settle, Startup
<1>5. CASE Clipping
  BY <1>5, QuietAnswer DEF Asked, Clipping, IdlePlaysClip, HeldPlaysClip, PlayClip,
     ClipTakes, ClipPlays, ClipCloses, Startup
<1> QED
  BY <1>1, <1>2, <1>3, <1>4, <1>5 DEF Blending, Playing

(* Every step.                                                                *)
LEMMA AnsweredStep == Inv /\ Answered /\ [Next]_vars => Answered'
<1> SUFFICES ASSUME Inv, Answered, [Next]_vars PROVE Answered'
  OBVIOUS
<1>1. CASE UNCHANGED vars
  BY <1>1, QuietAnswer DEF Asked, vars
<1> QED
  BY <1>1, AnsweredApi, AnsweredWaiting, AnsweredStarting, AnsweredWorking DEF Next, Worker

(* A metadata worker that waited for the tags of a start-up is told the       *)
(* truth: STOPPED only while nothing newer was requested, REPLACED only if    *)
(* something newer was requested or reached, READY with its own tags          *)
(* (audio_wait_track_metadata()).                                             *)
THEOREM WaitAnswer == Safety => []WaitResultIsRight
<1>1. Init => Answered
  BY TracksAssumption DEF Init, Answered, TagsWereRead, WhyItGrew, WaitsForARequest
<1>2. Inv /\ Answered => WaitResultIsRight
  <2> SUFFICES ASSUME Inv, Answered, waiter_gen # 0, ~WaitBlocked(waiter_gen)
               PROVE  CASE WaitResult(waiter_gen) = "STOPPED"  -> request_generation = waiter_gen
                        [] WaitResult(waiter_gen) = "REPLACED" ->
                              request_generation > waiter_gen \/ counter_generation > waiter_gen
                        [] OTHER -> startup_metadata = request_generation
    BY DEF WaitResultIsRight
  <2> DEFINE g == waiter_gen
  <2>1. /\ g \in Nat /\ playback_generation \in Nat /\ request_generation \in Nat
        /\ counter_generation \in Nat /\ g <= request_generation
        /\ request_generation <= playback_generation
    BY DEF Inv, TypeOK, OwnerTyped, WaitingTyped, Answered, WaitsForARequest, WhyItGrew
  <2>2. CASE WaitResult(g) = "STOPPED"
    <3>1. (stop_requested /\ playback_generation = g) \/ stopped_startup_generation = g
      BY <2>2 DEF WaitResult
    <3>2. request_generation = g
      BY <2>1, <3>1 DEF Answered, WhyItGrew
    <3> QED
      BY <2>2, <3>2
  <2>3. CASE WaitResult(g) = "REPLACED"
    <3>1. /\ ~(playback_generation = g /\ ~stop_requested /\ startup_metadata = g)
          /\ ~(stop_requested /\ playback_generation = g) /\ stopped_startup_generation # g
      BY <2>3 DEF WaitResult
    <3>2. playback_generation # g
      <4> SUFFICES ASSUME playback_generation = g PROVE FALSE
        OBVIOUS
      <4>1. request_generation = g /\ ~stop_requested /\ active_path \in LocalTracks
        BY <2>1, <3>1 DEF Answered, WaitsForARequest
      <4>2. startup_pending
        BY <3>1, <4>1 DEF Answered, TagsWereRead
      <4>3. startup_metadata # 0
        BY <4>1, <4>2 DEF WaitBlocked
      <4> QED
        BY <3>1, <4>1, <4>3 DEF Inv, TagsAreOfTheRequest
    <3>3. request_generation > g \/ counter_generation > g
      BY <2>1, <3>1, <3>2 DEF Answered, WhyItGrew
    <3> QED
      BY <2>3, <3>3
  <2>4. CASE WaitResult(g) = "READY"
    <3>1. startup_metadata = g
      BY <2>4 DEF WaitResult
    <3> QED
      BY <2>4, <3>1 DEF Inv, TagsAreOfTheRequest
  <2>5. WaitResult(g) \in {"STOPPED", "REPLACED", "READY"}
    BY DEF WaitResult
  <2> QED
    BY <2>2, <2>3, <2>4, <2>5
<1> QED
  BY <1>1, <1>2, InvCorrect, AnsweredStep, PTL DEF Safety

------------------------------------------------------------------------------
(* The engine's steps are steps of the session its API promises.             *)

Observed == <<stop_requested, startup_pending, have_current, startup_paused,
              paused, playback_generation>>

(* A step that changes nothing the session is mapped from is a stutter.      *)
LEMMA Unobserved ==
    ASSUME UNCHANGED Observed
    PROVE  [Transport!Next]_Transport!vars
  BY DEF Observed, Transport!vars, audio_is_paused

(* Established playback that fails or ends; a Stop in progress hides it.     *)
LEMMA LosesTrack ==
    ASSUME Inv, have_current' = FALSE, paused' = FALSE,
           UNCHANGED <<startup_pending, startup_paused, playback_generation>>,
           \/ UNCHANGED stop_requested
           \/ stop_requested /\ ~stop_requested'
    PROVE  [Transport!Next]_Transport!vars
  BY DEF Inv, PendingIsFresh, Transport!vars, Transport!Next, Transport!End, audio_is_paused

(* A request, a Stop and a pause are the session's own; other calls stutter. *)
LEMMA RefApi ==
    ASSUME Inv, Api
    PROVE  [Transport!Next]_Transport!vars
<1>1. ASSUME NEW p \in Tracks, PlayFile(p) PROVE Transport!Request
  BY <1>1 DEF PlayFile, Transport!Request, audio_is_paused
<1>2. CASE Stop
  <2>1. Transport!Stop
    BY <1>2 DEF Stop, Transport!Stop, Inv, PendingIsFresh, audio_is_paused
  <2> QED BY <2>1 DEF Transport!Next
<1>3. CASE TogglePause
  <2>1. Transport!TogglePause
    BY <1>3 DEF TogglePause, Transport!TogglePause, Inv, TypeOK, TransportTyped, audio_is_paused
  <2> QED BY <2>1 DEF Transport!Next
<1>4. ASSUME NEW p \in Paths, SetNextTrack(p) PROVE [Transport!Next]_Transport!vars
  BY <1>4, Unobserved DEF SetNextTrack, Arm, Observed
<1>5. ASSUME NEW p \in Tracks, NEW g \in 0..playback_generation, SetNextTrackForGeneration(p, g) PROVE [Transport!Next]_Transport!vars
  BY <1>5, Unobserved DEF SetNextTrackForGeneration, Arm, Observed
<1>6. ASSUME NEW on \in Crossfades, SetCrossfade(on) PROVE [Transport!Next]_Transport!vars
  BY <1>6, Unobserved DEF SetCrossfade, Observed
<1>7. CASE Seek
  BY <1>7, Unobserved DEF Seek, Observed
<1>8. CASE ConsumeError
  BY <1>8, Unobserved DEF ConsumeError, Observed
<1>9. CASE ConsumeAdvanced
  BY <1>9, Unobserved DEF ConsumeAdvanced, Observed
<1>10. CASE ConsumeFinished
  BY <1>10, Unobserved DEF ConsumeFinished, Observed
<1>11. CASE LoopStart \/ LoopStop
  BY <1>11, Unobserved DEF LoopStart, LoopStop, Observed
<1> QED
  BY <1>1, <1>2, <1>3, <1>4, <1>5, <1>6, <1>7, <1>8, <1>9, <1>10, <1>11
     DEF Api, Transport!Next

(* Waiting for the tags is not observed by the session.                      *)
LEMMA RefWaiting ==
    ASSUME Inv, WaitBegin \/ Waiter
    PROVE  [Transport!Next]_Transport!vars
<1>1. CASE WaitBegin
  BY <1>1, Unobserved DEF WaitBegin, Observed
<1>2. CASE WaitSleep
  BY <1>2, Unobserved DEF WaitSleep, Observed
<1>3. CASE WaitReturn
  BY <1>3, Unobserved DEF WaitReturn, Observed
<1> QED
  BY <1>1, <1>2, <1>3 DEF Waiter

(* Publishing establishes the session; a failed start-up and finish_startup_ *)
(* without_restart() end it; the rest of the start-up is not observed.       *)
LEMMA RefStarting ==
    ASSUME Inv, Starting
    PROVE  [Transport!Next]_Transport!vars
<1>1. CASE IdleWait
  BY <1>1, Unobserved DEF IdleWait, Sleep, Observed
<1>2. CASE IdleStop
  BY <1>2, Unobserved DEF IdleStop, Observed
<1>3. CASE IdleRestart
  BY <1>3, Unobserved DEF IdleRestart, Observed
<1>4. CASE FinishLook
  BY <1>4, Unobserved DEF FinishLook, Observed
<1>5. CASE FinishClose
  BY <1>5, Unobserved DEF FinishClose, Observed
<1>6. CASE FinishAck
  BY <1>6 DEF FinishAck, Inv, TypeOK, TransportTyped, PendingIsFresh, Transport!vars,
     Transport!Next, Transport!End, audio_is_paused
<1>7. CASE ReadTags
  BY <1>7, Unobserved DEF ReadTags, PublishTags, Observed
<1>8. CASE CancelCheck
  BY <1>8, Unobserved DEF CancelCheck, Observed
<1>9. CASE OpenFails
  BY <1>9 DEF OpenFails, StartupFails, Current, Inv, StartupIsCurrent, Startup, Transport!vars,
     Transport!Next, Transport!End, audio_is_paused
<1>10. CASE Open
  BY <1>10, Unobserved DEF Open, Observed
<1>11. CASE OutputReady
  BY <1>11, Unobserved DEF OutputReady, Observed
<1>12. CASE OutputFails
  BY <1>12 DEF OutputFails, StartupFails, Current, Inv, StartupIsCurrent, Startup, Transport!vars,
     Transport!Next, Transport!End, audio_is_paused
<1>13. CASE Publish
  BY <1>13 DEF Publish, FirstPause, Current, Inv, StartupIsCurrent, Startup, Transport!vars,
     Transport!Next, Transport!Established, audio_is_paused
<1>14. CASE OutputLook
  BY <1>14, Unobserved DEF OutputLook, Observed
<1>15. CASE PrimeTakes \/ PrimeEnds
  BY <1>15, Unobserved DEF PrimeTakes, PrimeEnds, Observed
<1> QED
  BY <1>1, <1>2, <1>3, <1>4, <1>5, <1>6, <1>7, <1>8, <1>9, <1>10, <1>11, <1>12, <1>13, <1>14, <1>15
     DEF Starting

(* A loop clip is not part of the session.                                   *)
LEMMA RefClipping ==
    ASSUME Inv, Clipping
    PROVE  [Transport!Next]_Transport!vars
  BY Unobserved DEF Clipping, IdlePlaysClip, HeldPlaysClip, PlayClip, ClipTakes, ClipPlays,
     ClipCloses, Observed

(* A promotion in the crossfade window advances the session, an error ends it.*)
LEMMA RefBlending ==
    ASSUME Inv, Blending
    PROVE  [Transport!Next]_Transport!vars
<1>1. CASE Prefetch
  BY <1>1, Unobserved DEF Prefetch, OnlyDecoders, Observed
<1>2. CASE BlendRead
  BY <1>2, Unobserved DEF BlendRead, OnlyDecoders, Observed
<1>3. CASE BlendReadFails
  BY <1>3, LosesTrack DEF BlendReadFails, Fails
<1>4. CASE BlendEOF
  BY <1>4, Unobserved DEF BlendEOF, Observed
<1>5. CASE BlendDone
  BY <1>5, Unobserved DEF BlendDone, OnlyDecoders, Observed
<1>6. CASE MixChunk
  BY <1>6, Unobserved DEF MixChunk, OnlyDecoders, Observed
<1>7. CASE MixNextFails
  BY <1>7, Unobserved DEF MixNextFails, OnlyDecoders, Observed
<1>8. CASE MixWriteFails
  BY <1>8, LosesTrack DEF MixWriteFails, Fails
<1>9. CASE CrossfadePromote
  BY <1>9 DEF CrossfadePromote, Promote, SnapStillValid, Inv, WorkerOwnsTheTrack, Inner,
     Transport!Next, Transport!Advance, audio_is_paused
<1>10. CASE CrossfadeStale
  BY <1>10, Unobserved DEF CrossfadeStale, DropPrefetch, OnlyDecoders, Observed
<1> QED
  BY <1>1, <1>2, <1>3, <1>4, <1>5, <1>6, <1>7, <1>8, <1>9, <1>10 DEF Blending

(* So does the gapless one; with an output that would not open it also ends. *)
LEMMA RefPlaying ==
    ASSUME Inv, Playing
    PROVE  [Transport!Next]_Transport!vars
<1>1. CASE PauseOutput
  BY <1>1, Unobserved DEF PauseOutput, Observed
<1>2. CASE HeldWait
  BY <1>2, Unobserved DEF HeldWait, Sleep, Observed
<1>3. CASE Snapshot
  BY <1>3, Unobserved DEF Snapshot, Observed
<1>4. CASE SeekDone
  BY <1>4, Unobserved DEF SeekDone, OnlyDecoders, Observed
<1>5. CASE SeekFails
  BY <1>5, LosesTrack DEF SeekFails, Fails
<1>6. CASE DecodeChunk
  BY <1>6, Unobserved DEF DecodeChunk, OnlyDecoders, Observed
<1>7. CASE DecodeFails
  BY <1>7, LosesTrack DEF DecodeFails, Fails
<1>8. CASE PrematureEOF
  BY <1>8, Unobserved DEF PrematureEOF, Observed
<1>9. CASE Reopen
  BY <1>9, Unobserved DEF Reopen, Observed
<1>10. CASE RecoveryFails
  BY <1>10, LosesTrack DEF RecoveryFails, Fails
<1>11. CASE EofHandoff
  BY <1>11, Unobserved DEF EofHandoff, OnlyDecoders, Observed
<1>12. CASE EofEnds
  BY <1>12, Unobserved DEF EofEnds, Observed
<1>13. CASE Handoff
  BY <1>13, Unobserved DEF Handoff, OnlyDecoders, Observed
<1>14. CASE GaplessPromote
  BY <1>14 DEF GaplessPromote, Promote, SnapStillValid, Inv, WorkerOwnsTheTrack, Inner,
     Transport!Next, Transport!Advance, audio_is_paused
<1>15. CASE GaplessOutputFails
  BY <1>15 DEF GaplessOutputFails, Promote, SnapStillValid, Inv, WorkerOwnsTheTrack, Inner,
     Transport!Next, Transport!AdvanceAndFail, audio_is_paused
<1>16. CASE HandoffStale
  BY <1>16, Unobserved DEF HandoffStale, DropPrefetch, OnlyDecoders, Observed
<1>17. CASE WriteCheck
  BY <1>17, Unobserved DEF WriteCheck, OnlyDecoders, Observed
<1>18. CASE Written
  BY <1>18, Unobserved DEF Written, OnlyDecoders, Observed
<1>19. CASE WriteFails
  BY <1>19, LosesTrack DEF WriteFails, Fails
<1>20. CASE RetryAborted
  BY <1>20, Unobserved DEF RetryAborted, Observed
<1> QED
  BY <1>1, <1>2, <1>3, <1>4, <1>5, <1>6, <1>7, <1>8, <1>9, <1>10, <1>11, <1>12, <1>13, <1>14, <1>15, <1>16, <1>17, <1>18, <1>19, <1>20
     DEF Playing

(* Settling ends the session or acknowledges its Stop.                       *)
LEMMA RefEnding ==
    ASSUME Inv, Ending
    PROVE  [Transport!Next]_Transport!vars
<1>1. CASE Unwind
  BY <1>1, Unobserved DEF Unwind, LeavesLoop, Observed
<1>2. CASE Close
  BY <1>2, Unobserved DEF Close, Observed
<1>3. CASE Settle
  BY <1>3, LosesTrack DEF Settle, Inv, TypeOK, TransportTyped
<1> QED
  BY <1>1, <1>2, <1>3 DEF Ending

(* audio.c implements the session: the safety part, for every step. *)
THEOREM EngineImplementsSession == Safety => Transport!Safety
<1>1. Init => Transport!Init
  BY DEF Init, Transport!Init, audio_is_paused
<1>2. Inv /\ [Next]_vars => [Transport!Next]_Transport!vars
  <2> SUFFICES ASSUME Inv, [Next]_vars PROVE [Transport!Next]_Transport!vars
    OBVIOUS
  <2>1. CASE Api BY <2>1, RefApi
  <2>2. CASE WaitBegin \/ Waiter BY <2>2, RefWaiting
  <2>3. CASE Starting BY <2>3, RefStarting
  <2>4. CASE Blending BY <2>4, RefBlending
  <2>5. CASE Playing BY <2>5, RefPlaying
  <2>6. CASE Ending BY <2>6, RefEnding
  <2>7. CASE Clipping BY <2>7, RefClipping
  <2>8. CASE UNCHANGED vars BY <2>8, Unobserved DEF vars, Observed
  <2> QED
    BY <2>1, <2>2, <2>3, <2>4, <2>5, <2>6, <2>7, <2>8 DEF Next, Worker
<1> QED BY <1>1, <1>2, InvCorrect, PTL DEF Safety, Transport!Safety
=============================================================================

-------------------------- MODULE TransportSession --------------------------
(* What the playback API of audio.h promises to its callers, without the     *)
(* worker thread: one playback session that a request starts, that settles,  *)
(* that Stop brings back to idle, and whose pause position belongs to the    *)
(* session from the moment it is requested.  AudioEngine implements it.      *)
EXTENDS Naturals

VARIABLES
    session,      \* "idle", "starting", "playing" or "stopping"
    held,         \* what audio_is_paused() answers
    generation    \* what audio_get_playback_generation() answers

vars == <<session, held, generation>>

Sessions == {"idle", "starting", "playing", "stopping"}

TypeOK == /\ session \in Sessions
          /\ held \in BOOLEAN
          /\ generation \in Nat

Init == session = "idle" /\ held = FALSE /\ generation = 0

(* A request replaces whatever the session was doing, and starts unpaused.  *)
Request ==
    /\ session' = "starting"
    /\ held' = FALSE
    /\ generation' = generation + 1

(* Stop is accepted in every phase; stopping a session that is still        *)
(* starting also retires its generation.                                    *)
Stop ==
    /\ session' = "stopping"
    /\ held' = FALSE
    /\ generation' = IF session = "starting" THEN generation + 1 ELSE generation

TogglePause ==
    /\ session \in {"starting", "playing"}
    /\ held' = ~held
    /\ UNCHANGED <<session, generation>>

(* The worker produced the first state of the track: the pause the user     *)
(* chose while it was starting carries over.                                *)
Established ==
    /\ session = "starting"
    /\ session' = "playing"
    /\ UNCHANGED <<held, generation>>

(* A gapless or crossfaded move to the armed track, paused or not.          *)
Advance ==
    /\ session = "playing"
    /\ generation' = generation + 1
    /\ UNCHANGED <<session, held>>

(* As Advance, but the output could not be opened for the new track.        *)
AdvanceAndFail ==
    /\ session = "playing"
    /\ session' = "idle"
    /\ held' = FALSE
    /\ generation' = generation + 1

(* Natural end, failed open or failed output; and the acknowledged Stop.    *)
End ==
    /\ session \in {"starting", "playing", "stopping"}
    /\ session' = "idle"
    /\ held' = FALSE
    /\ UNCHANGED generation

Settle == Established \/ (session \in {"starting", "stopping"} /\ End)

Next == \/ Request \/ Stop \/ TogglePause
        \/ Established \/ Advance \/ AdvanceAndFail \/ End

(* The worker eventually answers a request and acknowledges a Stop.         *)
Safety == Init /\ [][Next]_vars
Spec == Safety /\ WF_vars(Settle)
=============================================================================

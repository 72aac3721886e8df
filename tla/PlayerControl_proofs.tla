------------------------ MODULE PlayerControl_proofs ------------------------
EXTENDS PlayerControl, PlayerQueue_proofs

(*****************************************************************************)
(* The player screen, for every set of tracks, lists and modes, any length   *)
(* of the queue, and every interleaving of its callbacks with the audio      *)
(* engine.                                                                   *)
(*****************************************************************************)
Paths == Tracks \cup {NoTrack}
Engines == [active : Paths, next : Paths, advanced : BOOLEAN, finished : BOOLEAN,
            error : {"NONE", "OUTPUT", "DECODER"}]
Screens == [mode : Modes, gen : {"none", "synced", "behind"}, wanted : Paths, armed : Paths,
            failed : SUBSET Tracks, skips : 0..4, shown : Snapshots \cup {Stale}]
Worlds == [q : Queues, e : Engines, u : Screens]

(*****************************************************************************)
(* The invariant.  A track the screen started is not one that failed; an     *)
(* engine that reports an error plays nothing; the queue's bag is a          *)
(* permutation, and a bag in use covers the queue.                           *)
(*****************************************************************************)
(* NeverBackToAFailedTrack, of an engine and a screen.                       *)
Untried(e, u) == e.active # NoTrack /\ u.gen = "synced" => e.active \notin u.failed

(* What every world on the way through a callback satisfies ...              *)
Sound(w) == /\ w \in Worlds /\ Bag(w.q)
            /\ w.e.error # "NONE" => w.e.active = NoTrack
            /\ Untried(w.e, w.u)

(* ... and what holds between two callbacks: without a current track the     *)
(* next start may find the bag of another mode, so that one has to cover the *)
(* queue too.                                                                *)
Covered(w) == UsesShuffleBag(w.u.mode) \/ w.q.current < 0 => Covers(w.q)

Good(w) == Sound(w) /\ Covered(w)

Inv == Good(world)

LEMMA SoundFacts ==
  ASSUME NEW w, Sound(w)
  PROVE  GoodQueue(w.q) /\ w.e \in Engines /\ w.u \in Screens /\ Untried(w.e, w.u)
  BY DEF Sound, Worlds, GoodQueue

(* How a sound world is put together, and what replacing its parts keeps.    *)
LEMMA Assembled ==
  ASSUME NEW q, GoodQueue(q), NEW e \in Engines, NEW u \in Screens, Untried(e, u),
         e.error # "NONE" => e.active = NoTrack,
         NEW w \in [q : {q}, e : {e}, u : {u}]
  PROVE  Sound(w)
  BY DEF Sound, Worlds, GoodQueue

LEMMA Requeued ==
  ASSUME NEW w, Sound(w), NEW q, GoodQueue(q)
  PROVE  LET r == [w EXCEPT !.q = q]
         IN  Sound(r) /\ r.q = q /\ r.e = w.e /\ r.u = w.u
  BY DEF Sound, Worlds, GoodQueue

(*****************************************************************************)
(* What the callbacks are made of.                                           *)
(*****************************************************************************)
LEMMA ResetFacts ==
  ASSUME NEW w, Sound(w)
  PROVE  LET r == reset_decoder_failure_tracking(w)
         IN  /\ Sound(r) /\ r.q = w.q /\ r.e = w.e
             /\ r.u = [w.u EXCEPT !.failed = {}, !.skips = 0]
             /\ r.u.failed = {} /\ r.u.mode = w.u.mode /\ r.u.gen = w.u.gen
             /\ Covered(w) => Covered(r)
<1> DEFINE r == reset_decoder_failure_tracking(w)
           u == [w.u EXCEPT !.failed = {}, !.skips = 0]
<1>1. w \in Worlds /\ Bag(w.q) /\ w.u \in Screens
  BY DEF Sound, Worlds
<1>2. r.q = w.q /\ r.e = w.e /\ r.u = u /\ r \in [q : {w.q}, e : {w.e}, u : {u}]
  BY <1>1 DEF reset_decoder_failure_tracking, Worlds
<1>3. u \in Screens /\ u.failed = {} /\ u.mode = w.u.mode /\ u.gen = w.u.gen
  <2>1. {} \in SUBSET Tracks /\ 0 \in 0..4
    OBVIOUS
  <2> QED
    BY <1>1, <2>1 DEF Screens
<1> HIDE DEF r, u
<1>4. Sound(r)
  BY <1>1, <1>2, <1>3 DEF Sound, Worlds, Untried
<1> QED
  BY <1>2, <1>3, <1>4 DEF r, u, Covered

(* Before a start Covered may fail only for the bag of another mode.         *)
Placed(w) == ~UsesShuffleBag(w.u.mode) /\ w.q.current < 0 => Covers(w.q)

LEMMA PathOfFacts ==
  ASSUME NEW q, GoodQueue(q), NEW i \in Places
  PROVE  PathOf(q, i) \in Paths
  BY CountFacts DEF PathOf, Paths, Places

(* arm_next_track_for_audio(): the successor it asks for is the track its    *)
(* prediction names.                                                         *)
LEMMA ArmedFacts ==
  ASSUME NEW w, Sound(w), NEW r \in arm_next_track_for_audio(w)
  PROVE  /\ Sound(r) /\ (Placed(w) => Covered(r))
         /\ r.q.current = w.q.current /\ r.q.paths = w.q.paths /\ r.q.pending = w.q.pending
         /\ r.e = [w.e EXCEPT !.next = r.e.next]
         /\ r.e.active = w.e.active /\ r.e.error = w.e.error
         /\ r.u.mode = w.u.mode /\ r.u.gen = w.u.gen /\ r.u.failed = w.u.failed
         /\ r.u.wanted = PathOf(r.q, AutoAdvanceIndex(r.q, w.u.mode))
<1>1. PICK p \in note_next_armed(w.q, w.u.mode) : r = Armed(w, p)
  BY DEF arm_next_track_for_audio
<1>2. /\ GoodQueue(p) /\ SameTracks(p, w.q) /\ Count(p) = Count(w.q)
      /\ AutoAdvanceIndex(p, w.u.mode) \in Places
      /\ UsesShuffleBag(w.u.mode) => Len(p.order) = Count(p)
      /\ ~UsesShuffleBag(w.u.mode) => p.order = w.q.order \/ Len(p.order) = Count(p)
  BY SoundFacts, NextNoted
<1> DEFINE path == PathOf(p, AutoAdvanceIndex(p, w.u.mode))
           kept == path # NoTrack /\ w.u.armed = path
           next == IF kept THEN w.e.next ELSE NoTrack
           armed == IF kept THEN w.u.armed ELSE NoTrack
<1>3. path \in Paths
  BY <1>2, PathOfFacts
<1>4. /\ r \in [q : {p}, e : {[w.e EXCEPT !.next = next]},
                u : {[w.u EXCEPT !.armed = armed, !.wanted = path, !.shown = Stale]}]
      /\ r.q = p /\ r.e = [w.e EXCEPT !.next = next]
      /\ r.u = [w.u EXCEPT !.armed = armed, !.wanted = path, !.shown = Stale]
  BY <1>1, SoundFacts DEF Armed, Engines, Screens
<1>5. w.e \in Engines /\ w.u \in Screens /\ Untried(w.e, w.u)
      /\ (w.e.error # "NONE" => w.e.active = NoTrack)
  BY SoundFacts DEF Sound
<1>6. next \in Paths /\ armed \in Paths
  BY <1>5 DEF Engines, Screens, Paths
<1> DEFINE e == [w.e EXCEPT !.next = next]
           u == [w.u EXCEPT !.armed = armed, !.wanted = path, !.shown = Stale]
<1>7. /\ e \in Engines /\ e.active = w.e.active /\ e.error = w.e.error /\ e.next = next
      /\ u \in Screens /\ u.mode = w.u.mode /\ u.gen = w.u.gen /\ u.failed = w.u.failed
      /\ u.wanted = path
  <2> HIDE DEF next, armed, path
  <2> QED
    BY <1>3, <1>5, <1>6 DEF Engines, Screens
<1>8. r.q = p /\ r.e = e /\ r.u = u /\ r \in [q : {p}, e : {e}, u : {u}]
  BY <1>4
<1>9. e = [w.e EXCEPT !.next = e.next]
  BY <1>7
<1> HIDE DEF e, u, next, armed
<1>10. Sound(r)
  BY <1>2, <1>5, <1>7, <1>8 DEF Sound, Worlds, GoodQueue, Untried
<1>11. Placed(w) => Covered(r)
  BY <1>2, <1>7, <1>8, CountFacts DEF Placed, Covered, Covers, SameTracks
<1> QED
  BY <1>2, <1>7, <1>8, <1>9, <1>10, <1>11 DEF SameTracks

LEMMA StartedFacts ==
  ASSUME NEW w, Sound(w), NEW i \in Int, InQueue(w.q, i), PathAt(w.q, i) \notin w.u.failed
  PROVE  Sound(Started(w, i)) /\ Placed(Started(w, i))
<1> DEFINE q == select_physical(w.q, i)
           e == [IdleEngine EXCEPT !.active = PathAt(w.q, i)]
           u == [w.u EXCEPT !.gen = "synced", !.armed = NoTrack]
           r == Started(w, i)
<1>1. GoodQueue(w.q) /\ w.u \in Screens /\ i \in Places /\ i >= 0
  BY SoundFacts DEF InQueue, Places
<1>2. PathAt(w.q, i) \in Tracks
  BY <1>1, CountFacts
<1>3. GoodQueue(q) /\ q.current = i
  BY <1>1, AnotherCurrent DEF select_physical
<1>4. e \in Engines /\ e.active = PathAt(w.q, i) /\ e.error = "NONE"
  BY <1>2 DEF Engines, IdleEngine, Paths
<1>5. u \in Screens /\ u.failed = w.u.failed
  BY <1>1 DEF Screens, Paths
<1>6. r \in [q : {q}, e : {e}, u : {u}] /\ r.q = q
  BY DEF Started
<1> HIDE DEF q, e, u, r
<1>7. Sound(r)
  BY <1>3, <1>4, <1>5, <1>6, Assembled DEF Untried
<1> QED
  BY <1>1, <1>3, <1>6, <1>7 DEF r, Placed

(* play_track_at_from_internal() starts a track that did not fail, or leaves *)
(* the world as it was.                                                      *)
LEMMA PlayedFrom ==
  ASSUME NEW w, Good(w), NEW i \in Int,
         InQueue(w.q, i) => PathAt(w.q, i) \notin w.u.failed,
         NEW r \in play_track_at_from_internal(w, i)
  PROVE  Good(r)
<1>1. CASE ~InQueue(w.q, i) \/ r = w
  BY <1>1 DEF play_track_at_from_internal
<1>2. CASE InQueue(w.q, i) /\ r # w
  <2>1. r \in arm_next_track_for_audio(Started(w, i))
    BY <1>2 DEF play_track_at_from_internal
  <2> QED
    BY <1>2, <2>1, StartedFacts, ArmedFacts DEF Good
<1> QED
  BY <1>1, <1>2

LEMMA ResetGood ==
  ASSUME NEW w, Good(w)
  PROVE  LET r == reset_decoder_failure_tracking(w)
         IN  Good(r) /\ r.q = w.q /\ r.e = w.e /\ r.u.failed = {} /\ r.u.mode = w.u.mode
  BY ResetFacts DEF Good

LEMMA Played ==
  ASSUME NEW w, Good(w), NEW i \in Int, NEW r \in play_track_at(w, i)
  PROVE  Good(r)
  BY ResetGood, PlayedFrom DEF play_track_at

LEMMA RequeuedGood ==
  ASSUME NEW w, Good(w), NEW q, GoodQueue(q),
         Covers(q) \/ (~UsesShuffleBag(w.u.mode) /\ q.current >= 0) \/ (q.current = w.q.current /\ (Covers(w.q) => Covers(q)))
  PROVE  LET r == [w EXCEPT !.q = q]
         IN  Good(r) /\ r.q = q /\ r.e = w.e /\ r.u = w.u
<1> DEFINE r == [w EXCEPT !.q = q]
<1>1. Sound(r) /\ r.q = q /\ r.e = w.e /\ r.u = w.u
  BY Requeued DEF Good
<1>2. q.current \in Places
  BY DEF GoodQueue, Queues
<1> HIDE DEF r
<1>3. Covered(r)
  BY <1>1, <1>2 DEF Good, Covered, Places
<1> QED
  BY <1>1, <1>3 DEF Good, r

(* on_track_auto_advanced(): the screen catches up with the engine.          *)
LEMMA MovedOn ==
  ASSUME NEW w, Good(w), w.u.failed = {}, NEW i \in Nat, NEW r \in on_track_auto_advanced(w, i)
  PROVE  Good(r) /\ r.e.active = w.e.active /\ r.e.error = w.e.error
<1> DEFINE m == [w EXCEPT !.q = select_physical(@, i), !.u.gen = "synced"]
           q == select_physical(w.q, i)
           u == [w.u EXCEPT !.gen = "synced"]
<1>1. w \in Worlds /\ GoodQueue(w.q) /\ w.e \in Engines /\ w.u \in Screens /\ i \in Places
  BY SoundFacts DEF Good, Sound, Places
<1>2. m.q = q /\ m.e = w.e /\ m.u = u /\ m \in [q : {q}, e : {w.e}, u : {u}]
  BY <1>1 DEF Worlds
<1>3. GoodQueue(q) /\ q.current = i
  BY <1>1, AnotherCurrent DEF select_physical
<1>4. u \in Screens /\ u.failed = {}
  BY <1>1 DEF Screens
<1>5. w.e.error # "NONE" => w.e.active = NoTrack
  BY DEF Good, Sound
<1>6. r \in arm_next_track_for_audio(m)
  BY DEF on_track_auto_advanced
<1> HIDE DEF m, q, u
<1>7. Sound(m)
  BY <1>1, <1>2, <1>3, <1>4, <1>5, Assembled DEF Untried
<1>8. Placed(m)
  BY <1>2, <1>3 DEF Placed
<1>9. /\ Sound(r) /\ (Placed(m) => Covered(r))
      /\ r.e.active = m.e.active /\ r.e.error = m.e.error
  BY <1>6, <1>7, ArmedFacts
<1> QED
  BY <1>2, <1>8, <1>9 DEF Good

(* The queue moves on: in the world where it found a slot, or where it cannot.*)
(* handle_auto_advance() and handle_track_finished() predict first, commit   *)
(* then, and end in one of those two.                                        *)
LEMMA ReadyWorlds ==
  ASSUME NEW w, Good(w), NEW r \in ReadyToAdvance(w.q, w.u.mode)
  PROVE  LET reset == reset_decoder_failure_tracking(w)
             rest == [reset EXCEPT !.q = r]
             moved == [reset EXCEPT !.q = commit_auto_advance(r, w.u.mode)]
         IN  /\ Good(rest) /\ rest.e = w.e
             /\ Good(moved) /\ moved.e = w.e /\ moved.u.failed = {}
             /\ AutoAdvanceIndex(r, w.u.mode) \in Places
<1> DEFINE reset == reset_decoder_failure_tracking(w)
           q == commit_auto_advance(r, w.u.mode)
<1>1. Good(reset) /\ reset.q = w.q /\ reset.e = w.e /\ reset.u.failed = {} /\ reset.u.mode = w.u.mode
  BY ResetGood
<1>2. /\ GoodQueue(r) /\ SameTracks(r, w.q) /\ Count(r) = Count(w.q)
      /\ AutoAdvanceIndex(r, w.u.mode) \in Places
      /\ r.order = w.q.order \/ Len(r.order) = Count(w.q)
  BY SoundFacts, Readied DEF Good
<1>3. /\ GoodQueue(q) /\ q.paths = r.paths /\ q.current = r.current /\ Count(q) = Count(r)
      /\ q.order = r.order \/ Len(q.order) = Len(r.order)
  BY <1>2, Committed
<1>4. Count(r) \in Nat /\ Count(w.q) \in Nat
  BY <1>2, CountFacts
<1>5. r.current = w.q.current /\ (Covers(w.q) => Covers(r))
  BY <1>2, <1>4 DEF SameTracks, Covers
<1>6. q.current = w.q.current /\ (Covers(w.q) => Covers(q))
  <2>1. CASE q.order = r.order
    BY <1>3, <1>5, <2>1 DEF Covers
  <2>2. CASE Len(q.order) = Len(r.order)
    <3>1. r.order = NoOrder => Len(r.order) = 0
      BY NoOrderFacts
    <3>2. q.order \in Seq(Nat) /\ (Len(q.order) = 0 => q.order = NoOrder)
      BY <1>3 DEF GoodQueue, Queues, NoOrder
    <3> QED
      BY <1>3, <1>5, <2>2, <3>1, <3>2 DEF Covers
  <2> QED
    BY <1>3, <1>5, <2>1, <2>2
<1> HIDE DEF reset, q
<1>7. LET rest == [reset EXCEPT !.q = r] IN Good(rest) /\ rest.e = reset.e
  BY <1>1, <1>2, <1>5, RequeuedGood
<1>8. LET moved == [reset EXCEPT !.q = q]
      IN  Good(moved) /\ moved.e = reset.e /\ moved.u = reset.u
  BY <1>1, <1>3, <1>6, RequeuedGood
<1> QED
  BY <1>1, <1>2, <1>7, <1>8 DEF reset, q

LEMMA AdvanceHandled ==
  ASSUME NEW w, Good(w), NEW r \in handle_auto_advance(w)
  PROVE  Good(r) /\ r.e.active = w.e.active /\ r.e.error = w.e.error
<1> DEFINE reset == reset_decoder_failure_tracking(w)
           Rest(s) == [reset EXCEPT !.q = s]
           Moved(s) == [reset EXCEPT !.q = commit_auto_advance(s, w.u.mode)]
           Index(s) == AutoAdvanceIndex(s, w.u.mode)
<1>1. CASE r = w
  BY <1>1
<1>2. CASE r # w
  <2>1. PICK s \in ReadyToAdvance(w.q, w.u.mode) :
           r \in IF Index(s) < 0 THEN {Rest(s)} ELSE on_track_auto_advanced(Moved(s), Index(s))
    BY <1>2 DEF handle_auto_advance, Advanced
  <2>2. /\ Good(Rest(s)) /\ Rest(s).e = w.e /\ Good(Moved(s)) /\ Moved(s).e = w.e
        /\ Moved(s).u.failed = {} /\ Index(s) \in Places
    BY ReadyWorlds
  <2> DEFINE moved == Moved(s)
             i == Index(s)
  <2>3. CASE i < 0
    BY <2>1, <2>2, <2>3
  <2>4. CASE ~(i < 0)
    <3>1. i \in Nat /\ r \in on_track_auto_advanced(moved, i)
      BY <2>1, <2>2, <2>4 DEF Places
    <3>2. Good(moved) /\ moved.u.failed = {} /\ moved.e = w.e
      BY <2>2
    <3> HIDE DEF moved, i
    <3> QED
      BY <3>1, <3>2, MovedOn
  <2> QED
    BY <2>3, <2>4
<1> QED
  BY <1>1, <1>2

LEMMA FinishHandled ==
  ASSUME NEW w, Good(w), NEW r \in handle_track_finished(w)
  PROVE  Good(r)
<1> DEFINE reset == reset_decoder_failure_tracking(w)
           Rest(s) == [reset EXCEPT !.q = s]
           Moved(s) == [reset EXCEPT !.q = commit_auto_advance(s, w.u.mode)]
           Index(s) == AutoAdvanceIndex(s, w.u.mode)
<1>1. CASE r = w
  BY <1>1
<1>2. CASE r # w
  <2>1. PICK s \in ReadyToAdvance(w.q, w.u.mode) :
           r \in IF Index(s) < 0 THEN {Rest(s)} ELSE play_track_at_from_internal(Moved(s), Index(s))
    BY <1>2 DEF handle_track_finished, Advanced
  <2>2. /\ Good(Rest(s)) /\ Good(Moved(s)) /\ Moved(s).u.failed = {} /\ Index(s) \in Places
    BY ReadyWorlds
  <2> DEFINE moved == Moved(s)
             i == Index(s)
  <2>3. CASE i < 0
    BY <2>1, <2>2, <2>3
  <2>4. CASE ~(i < 0)
    <3>1. i \in Int /\ r \in play_track_at_from_internal(moved, i)
      BY <2>1, <2>2, <2>4 DEF Places
    <3>2. Good(moved) /\ moved.u.failed = {}
      BY <2>2
    <3> HIDE DEF moved, i
    <3> QED
      BY <3>1, <3>2, PlayedFrom
  <2> QED
    BY <2>3, <2>4
<1> QED
  BY <1>1, <1>2

(* An event of the engine is taken. *)
LEMMA EventGood ==
  ASSUME NEW w, Good(w), NEW e \in Engines, e.active = w.e.active,
         e.error = w.e.error \/ e.error = "NONE",
         NEW r \in [q : {w.q}, e : {e}, u : {w.u}]
  PROVE  Good(r)
<1>1. r.q = w.q /\ r.e = e /\ r.u = w.u
  OBVIOUS
<1>2. Sound(r)
  BY <1>1, SoundFacts, Assembled DEF Good, Sound, Untried
<1> QED
  BY <1>1, <1>2 DEF Good, Covered

LEMMA AdvancedTaken ==
  ASSUME NEW w, Good(w)
  PROVE  LET r == [w EXCEPT !.e.advanced = FALSE]
         IN  Good(r) /\ r.q = w.q /\ r.u = w.u /\ r.e.active = w.e.active /\ r.e.error = w.e.error
<1> DEFINE r == [w EXCEPT !.e.advanced = FALSE]
           e == [w.e EXCEPT !.advanced = FALSE]
<1>1. w \in Worlds /\ w.e \in Engines
  BY DEF Good, Sound, Worlds
<1>2. e \in Engines /\ e.active = w.e.active /\ e.error = w.e.error
  BY <1>1 DEF Engines
<1>3. r \in [q : {w.q}, e : {e}, u : {w.u}] /\ r.q = w.q /\ r.e = e /\ r.u = w.u
  BY <1>1 DEF Worlds
<1> HIDE DEF r, e
<1> QED
  BY <1>2, <1>3, EventGood DEF r

LEMMA SettledGood ==
  ASSUME NEW w, Good(w), NEW r \in Settled(w)
  PROVE  Good(r)
<1> DEFINE s == [w EXCEPT !.e.advanced = FALSE]
<1>1. Good(s)
  BY AdvancedTaken
<1>2. r = w \/ r \in handle_auto_advance(s)
  BY DEF Settled
<1> HIDE DEF s
<1> QED
  BY <1>1, <1>2, AdvanceHandled

LEMMA CoversKept ==
  ASSUME NEW q, GoodQueue(q), Covers(q), NEW r, GoodQueue(r), r.paths = q.paths,
         r.order = q.order \/ Len(r.order) = Len(q.order) \/ Len(r.order) = Count(q)
  PROVE  Covers(r)
<1>1. Count(r) = Count(q) /\ Count(q) \in Nat
  BY CountFacts DEF Count
<1>2. CASE r.order = q.order \/ Len(r.order) = Count(q)
  BY <1>1, <1>2 DEF Covers
<1>3. CASE Len(r.order) = Len(q.order)
  <2>1. q.order = NoOrder => Len(q.order) = 0
    BY NoOrderFacts
  <2>2. Len(r.order) = 0 => r.order = NoOrder
    BY DEF GoodQueue, Queues, NoOrder
  <2> QED
    BY <1>1, <1>3, <2>1, <2>2 DEF Covers
<1> QED
  BY <1>2, <1>3

(* free_playlist().                                                          *)
LEMMA Freed ==
  ASSUME NEW w, Good(w), NEW q, GoodQueue(q), Covers(q)
  PROVE  LET r == [free_playlist(w) EXCEPT !.q = q]
         IN  Good(r) /\ r.q = q /\ r.e = w.e /\ r.u.mode = w.u.mode
<1> DEFINE reset == reset_decoder_failure_tracking(w)
           u == [reset.u EXCEPT !.gen = "none", !.wanted = NoTrack, !.shown = Stale]
           r == [free_playlist(w) EXCEPT !.q = q]
<1>1. Good(reset) /\ reset.e = w.e /\ reset.u.mode = w.u.mode
  BY ResetGood
<1>2. reset \in Worlds /\ reset.u \in Screens /\ w.e \in Engines /\ (w.e.error # "NONE" => w.e.active = NoTrack)
  BY <1>1 DEF Good, Sound, Worlds
<1>3. free_playlist(w) = [reset EXCEPT !.q = EmptyQueue, !.u.gen = "none", !.u.wanted = NoTrack,
                                       !.u.shown = Stale]
  BY DEF free_playlist
<1> HIDE DEF reset
<1>4. r \in [q : {q}, e : {w.e}, u : {u}] /\ r.q = q /\ r.e = w.e /\ r.u = u
  BY <1>1, <1>2, <1>3 DEF Worlds
<1>5. u \in Screens /\ u.gen = "none" /\ u.mode = w.u.mode
  BY <1>1, <1>2 DEF Screens, Paths
<1> HIDE DEF u, r
<1>6. Sound(r)
  BY <1>2, <1>4, <1>5, Assembled DEF Untried
<1>7. Covered(r)
  BY <1>4 DEF Covered
<1> QED
  BY <1>4, <1>5, <1>6, <1>7 DEF Good, r

(* set_play_mode().                                                          *)
LEMMA ModeSet ==
  ASSUME NEW w, Good(w), NEW mode \in Modes, NEW r \in set_play_mode(w, mode)
  PROVE  Good(r) /\ r.q.current = w.q.current /\ r.e.active = w.e.active
<1> DEFINE m == [w EXCEPT !.u.mode = mode]
           u == [w.u EXCEPT !.mode = mode]
<1>1. w \in Worlds /\ GoodQueue(w.q) /\ w.e \in Engines /\ w.u \in Screens
      /\ (w.e.error # "NONE" => w.e.active = NoTrack) /\ Untried(w.e, w.u)
  BY SoundFacts DEF Good, Sound
<1>2. m \in [q : {w.q}, e : {w.e}, u : {u}] /\ m.q = w.q /\ m.e = w.e /\ m.u = u
  BY <1>1 DEF Worlds
<1>3. u \in Screens /\ Untried(w.e, u) /\ u.mode = mode
  BY <1>1 DEF Screens, Untried
<1>4. r \in IF w.q.current >= 0 THEN arm_next_track_for_audio(m) ELSE {m}
  BY DEF set_play_mode
<1> HIDE DEF m, u
<1>5. Sound(m)
  BY <1>1, <1>2, <1>3, Assembled
<1>6. w.q.current \in Places
  BY <1>1 DEF GoodQueue, Queues
<1>7. CASE w.q.current >= 0
  <2>1. r \in arm_next_track_for_audio(m)
    BY <1>4, <1>7
  <2>2. Placed(m)
    BY <1>2, <1>6, <1>7 DEF Placed, Places
  <2>3. Sound(r) /\ (Placed(m) => Covered(r)) /\ r.q.current = m.q.current /\ r.e.active = m.e.active
    BY <1>5, <2>1, ArmedFacts
  <2> QED
    BY <1>2, <2>2, <2>3 DEF Good
<1>8. CASE ~(w.q.current >= 0)
  <2>1. w.q.current < 0 /\ r = m
    BY <1>4, <1>6, <1>8 DEF Places
  <2>2. Covers(w.q)
    BY <2>1 DEF Good, Covered
  <2> QED
    BY <1>2, <1>5, <2>1, <2>2 DEF Good, Covered
<1> QED
  BY <1>7, <1>8

(* audio_stop().                                                             *)
LEMMA Stopped ==
  ASSUME NEW w, Good(w), NEW r \in audio_stop(w)
  PROVE  Good(r)
<1> DEFINE s == [w EXCEPT !.e.active = NoTrack]
           e == [w.e EXCEPT !.active = NoTrack]
           gen == IF w.u.gen = "none" THEN w.u.gen ELSE "behind"
           u == [w.u EXCEPT !.gen = gen, !.armed = NoTrack, !.wanted = NoTrack]
<1>1. w \in Worlds /\ GoodQueue(w.q) /\ w.e \in Engines /\ w.u \in Screens /\ Covered(w)
  BY SoundFacts DEF Good, Sound
<1>2. s \in [q : {w.q}, e : {e}, u : {w.u}] /\ s.q = w.q /\ s.e = e /\ s.u = w.u
  BY <1>1 DEF Worlds
<1>3. e \in Engines /\ e.active = NoTrack
  BY <1>1 DEF Engines, Paths
<1>4. u \in Screens /\ u.mode = w.u.mode
  BY <1>1 DEF Screens, Paths
<1>5. r = s \/ r = [s EXCEPT !.u.gen = IF @ = "none" THEN @ ELSE "behind",
                             !.u.armed = NoTrack, !.u.wanted = NoTrack]
  BY DEF audio_stop
<1> HIDE DEF s
<1>6. r.q = w.q /\ r.e = e /\ r.u \in {w.u, u} /\ r \in [q : {r.q}, e : {r.e}, u : {r.u}]
  BY <1>2, <1>5
<1> HIDE DEF e, u
<1>7. Sound(r)
  <2>1. r.u \in Screens /\ r.e \in Engines /\ r.e.active = NoTrack
    BY <1>1, <1>3, <1>4, <1>6
  <2> QED
    BY <1>1, <1>6, <2>1 DEF Sound, Worlds, GoodQueue, Untried
<1> QED
  BY <1>1, <1>4, <1>6, <1>7 DEF Good, Covered

(*****************************************************************************)
(* Failed tracks.  The failed track joins the set before the plan looks for  *)
(* another one, so the one it finds is none of them.                         *)
(*****************************************************************************)
LEMMA SkippedTo ==
  ASSUME NEW w, Good(w), w.e.active = NoTrack, NEW r \in SkippedFailed(w)
  PROVE  \/ r = reset_decoder_failure_tracking(w)
         \/ \E failed : \E x \in advance_past_failed(w.q, w.u.mode, failed) : \E s :
               /\ Good(s) /\ s.q = x[1] /\ s.u.mode = w.u.mode /\ s.u.shown = w.u.shown
               /\ r \in IF x[2] < 0 THEN {reset_decoder_failure_tracking(s)}
                        ELSE play_track_at_from_internal(s, x[2])
               /\ x[2] \in Places
               /\ x[2] >= 0 => InQueue(s.q, x[2]) /\ PathAt(s.q, x[2]) \notin s.u.failed
<1> DEFINE path == PathOf(w.q, w.q.current)
           failed == w.u.failed \cup ({path} \ {NoTrack})
           seen == [w EXCEPT !.u.failed = @ \cup ({path} \ {NoTrack}), !.u.skips = @ + 1]
           u == [w.u EXCEPT !.failed = failed, !.skips = @ + 1]
           Result(x) == LET s == [seen EXCEPT !.q = x[1]]
                        IN  IF x[2] < 0 THEN {reset_decoder_failure_tracking(s)}
                            ELSE play_track_at_from_internal(s, x[2])
<1>1. w \in Worlds /\ GoodQueue(w.q) /\ w.e \in Engines /\ w.u \in Screens /\ Covered(w)
  BY SoundFacts DEF Good, Sound
<1>2. seen.q = w.q /\ seen.e = w.e /\ seen.u = u /\ seen \in [q : {w.q}, e : {w.e}, u : {u}]
  BY <1>1 DEF Worlds, Screens
<1>3. failed \in SUBSET Tracks /\ w.u.skips \in 0..4
  <2>1. path \in Paths
    BY <1>1, PathOfFacts DEF GoodQueue, Queues
  <2> QED
    BY <1>1, <2>1 DEF Screens, Paths
<1>4. /\ u.failed = failed /\ u.skips = w.u.skips + 1 /\ u.mode = w.u.mode /\ u.gen = w.u.gen
      /\ u.shown = w.u.shown
  BY <1>1 DEF Screens
<1>5. r \in IF u.skips >= MaxSkips(w.q) THEN {reset_decoder_failure_tracking(seen)}
            ELSE UNION {Result(x) : x \in advance_past_failed(w.q, w.u.mode, u.failed)}
  BY <1>2 DEF SkippedFailed
<1>6. reset_decoder_failure_tracking(seen) = reset_decoder_failure_tracking(w)
  BY <1>1 DEF reset_decoder_failure_tracking, Worlds, Screens
<1>7. CASE u.skips >= MaxSkips(w.q)
  BY <1>5, <1>6, <1>7
<1>8. CASE ~(u.skips >= MaxSkips(w.q))
  <2>1. PICK x \in advance_past_failed(w.q, w.u.mode, u.failed) : r \in Result(x)
    BY <1>5, <1>8
  <2>2. Count(w.q) \in Nat /\ MaxSkips(w.q) \in Int /\ MaxSkips(w.q) <= 5
    BY <1>1, CountFacts DEF MaxSkips, Lesser
  <2>3. u \in Screens
    <3>1. u.skips \in 0..4
      BY <1>3, <1>4, <1>8, <2>2
    <3>2. w.u.skips + 1 \in 0..4
      BY <1>4, <3>1
    <3> HIDE DEF failed
    <3> QED
      BY <1>1, <1>3, <3>2 DEF Screens
  <2>4. /\ GoodQueue(x[1]) /\ x[2] \in Places
        /\ x[1].paths = w.q.paths /\ x[1].current = w.q.current
        /\ x[1].order = w.q.order \/ Len(x[1].order) = Len(w.q.order) \/ Len(x[1].order) = Count(w.q)
        /\ x[2] >= 0 => InQueue(x[1], x[2]) /\ PathAt(x[1], x[2]) \notin u.failed
    <3>1. w.u.mode = "SHUFFLE_ONCE" => Covers(w.q)
      BY <1>1 DEF Covered, UsesShuffleBag
    <3> HIDE DEF u
    <3> QED
      BY <1>1, <2>1, <3>1, PastFailed
  <2>5. Covers(w.q) => Covers(x[1])
    BY <1>1, <2>4, CoversKept
  <2> DEFINE s == [seen EXCEPT !.q = x[1]]
  <2> HIDE DEF u, seen
  <2>6. s.q = x[1] /\ s.e = w.e /\ s.u = u /\ s \in [q : {x[1]}, e : {w.e}, u : {u}]
    BY <1>2
  <2> HIDE DEF s
  <2>7. Sound(s)
    <3>1. w.e.error # "NONE" => w.e.active = NoTrack
      BY DEF Good, Sound
    <3> QED
      BY <1>1, <2>3, <2>4, <2>6, <3>1, Assembled DEF Untried
  <2>8. Good(s)
    BY <1>1, <1>4, <2>4, <2>5, <2>6, <2>7 DEF Good, Covered
  <2>9. r \in IF x[2] < 0 THEN {reset_decoder_failure_tracking(s)}
              ELSE play_track_at_from_internal(s, x[2])
    BY <2>1 DEF s
  <2> QED
    BY <1>4, <2>1, <2>4, <2>6, <2>8, <2>9
<1> QED
  BY <1>7, <1>8

LEMMA FailedSkipped ==
  ASSUME NEW w, Good(w), w.e.active = NoTrack, NEW r \in SkippedFailed(w)
  PROVE  Good(r)
<1>1. CASE r = reset_decoder_failure_tracking(w)
  BY <1>1, ResetGood
<1>2. CASE r # reset_decoder_failure_tracking(w)
  <2>1. PICK x, s :
               /\ Good(s)
               /\ r \in IF x[2] < 0 THEN {reset_decoder_failure_tracking(s)}
                        ELSE play_track_at_from_internal(s, x[2])
               /\ x[2] \in Places
               /\ x[2] >= 0 => InQueue(s.q, x[2]) /\ PathAt(s.q, x[2]) \notin s.u.failed
    BY <1>2, SkippedTo
  <2>2. CASE x[2] < 0
    BY <2>1, <2>2, ResetGood
  <2>3. CASE ~(x[2] < 0)
    <3>1. x[2] \in Int /\ PathAt(s.q, x[2]) \notin s.u.failed
      BY <2>1, <2>3 DEF Places
    <3> QED
      BY <2>1, <2>3, <3>1, PlayedFrom
  <2> QED
    BY <2>2, <2>3
<1> QED
  BY <1>1, <1>2

LEMMA FailureGood ==
  ASSUME NEW w, Good(w), w.e.active = NoTrack, NEW error, NEW r \in handle_playback_error(w, error)
  PROVE  Good(r)
<1>1. ASSUME NEW s, Good(s), s.e.active = NoTrack, NEW t \in FailureHandled(s, error)
      PROVE  Good(t)
  BY <1>1, FailedSkipped DEF FailureHandled
<1> DEFINE taken == [w EXCEPT !.e.advanced = FALSE]
<1>2. \/ r = w
      \/ r \in FailureHandled(w, error)
      \/ \E s \in handle_auto_advance(taken) : r = s \/ r \in FailureHandled(s, error)
  BY DEF handle_playback_error
<1>3. Good(taken) /\ taken.e.active = w.e.active
  BY AdvancedTaken
<1> HIDE DEF taken
<1>4. ASSUME NEW s \in handle_auto_advance(taken)
      PROVE  Good(s) /\ s.e.active = NoTrack
  BY <1>3, AdvanceHandled
<1> QED
  BY <1>1, <1>2, <1>4

(*****************************************************************************)
(* The poll: an event, the metadata, the confirmation, the prediction.       *)
(*****************************************************************************)
LEMMA EventTakenGood ==
  ASSUME NEW w, Good(w), NEW r \in EventTaken(w)
  PROVE  Good(r)
<1>1. w \in Worlds /\ w.e \in Engines /\ (w.e.error # "NONE" => w.e.active = NoTrack)
  BY DEF Good, Sound, Worlds
<1>2. CASE w.e.error # "NONE"
  <2> DEFINE s == [w EXCEPT !.e.error = "NONE"]
             e == [w.e EXCEPT !.error = "NONE"]
  <2>1. e \in Engines /\ e.active = w.e.active /\ e.error = "NONE"
    BY <1>1 DEF Engines
  <2>2. s \in [q : {w.q}, e : {e}, u : {w.u}] /\ s.e = e
    BY <1>1 DEF Worlds
  <2>3. r \in handle_playback_error(s, w.e.error)
    BY <1>2 DEF EventTaken
  <2> HIDE DEF s, e
  <2>4. Good(s)
    BY <2>1, <2>2, EventGood
  <2> QED
    BY <1>1, <1>2, <2>1, <2>2, <2>3, <2>4, FailureGood
<1>3. CASE w.e.error = "NONE" /\ w.e.advanced
  BY <1>3, SettledGood DEF EventTaken
<1>4. CASE w.e.error = "NONE" /\ ~w.e.advanced /\ w.e.finished
  <2> DEFINE s == [w EXCEPT !.e.finished = FALSE]
             e == [w.e EXCEPT !.finished = FALSE]
  <2>1. e \in Engines /\ e.active = w.e.active /\ e.error = w.e.error
    BY <1>1 DEF Engines
  <2>2. s \in [q : {w.q}, e : {e}, u : {w.u}]
    BY <1>1 DEF Worlds
  <2>3. r \in handle_track_finished(s)
    BY <1>4 DEF EventTaken
  <2> HIDE DEF s, e
  <2>4. Good(s)
    BY <2>1, <2>2, EventGood
  <2> QED
    BY <2>3, <2>4, FinishHandled
<1>5. CASE w.e.error = "NONE" /\ ~w.e.advanced /\ ~w.e.finished
  BY <1>5 DEF EventTaken
<1> QED
  BY <1>2, <1>3, <1>4, <1>5

LEMMA MetadataGood ==
  ASSUME NEW w, Good(w), NEW r \in MaybeMetadataTaken(w)
  PROVE  Good(r)
<1> DEFINE given == [w EXCEPT !.u.armed = w.u.wanted, !.e.next = w.u.wanted]
           e == [w.e EXCEPT !.next = w.u.wanted]
           u == [w.u EXCEPT !.armed = w.u.wanted]
<1>1. w \in Worlds /\ GoodQueue(w.q) /\ w.e \in Engines /\ w.u \in Screens /\ Covered(w)
      /\ Untried(w.e, w.u) /\ (w.e.error # "NONE" => w.e.active = NoTrack)
  BY SoundFacts DEF Good, Sound
<1>2. r = w \/ r = given
  BY DEF MaybeMetadataTaken, MetadataTaken
<1>3. given \in [q : {w.q}, e : {e}, u : {u}] /\ given.q = w.q /\ given.u = u
  BY <1>1 DEF Worlds
<1>4. /\ e \in Engines /\ e.active = w.e.active /\ e.error = w.e.error
      /\ u \in Screens /\ u.gen = w.u.gen /\ u.failed = w.u.failed /\ u.mode = w.u.mode
  BY <1>1 DEF Engines, Screens
<1> HIDE DEF given, e, u
<1>5. Sound(given)
  BY <1>1, <1>3, <1>4, Assembled DEF Untried
<1> QED
  BY <1>1, <1>2, <1>3, <1>4, <1>5 DEF Good, Covered

LEMMA ConfirmedGood ==
  ASSUME NEW w, Good(w), NEW r \in PlaybackConfirmed(w)
  PROVE  Good(r)
  BY ResetGood DEF PlaybackConfirmed

LEMMA PredictedGood ==
  ASSUME NEW w, Good(w), NEW r \in WaveformPredicted(w)
  PROVE  Good(r)
<1>1. CASE r = w
  BY <1>1
<1>2. CASE r # w
  <2>1. PICK q \in ReadyToAdvance(w.q, w.u.mode) : r = [w EXCEPT !.q = q]
    BY <1>2 DEF WaveformPredicted
  <2>2. /\ GoodQueue(q) /\ SameTracks(q, w.q)
        /\ q.order = w.q.order \/ Len(q.order) = Count(w.q)
    BY SoundFacts, Readied DEF Good
  <2>3. Covers(w.q) => Covers(q)
    BY <2>2, SoundFacts, CoversKept DEF Good, SameTracks
  <2> QED
    BY <2>1, <2>2, <2>3, RequeuedGood DEF SameTracks
<1> QED
  BY <1>1, <1>2

LEMMA PolledGood ==
  ASSUME NEW w, Good(w), NEW r \in Polled(w)
  PROVE  Good(r)
<1>1. PICK a \in EventTaken(w) : \E b \in MaybeMetadataTaken(a) : \E c \in PlaybackConfirmed(b) :
         r \in WaveformPredicted(c)
  BY DEF Polled, Then
<1>2. Good(a)
  BY EventTakenGood
<1>3. PICK b \in MaybeMetadataTaken(a) : \E c \in PlaybackConfirmed(b) : r \in WaveformPredicted(c)
  BY <1>1
<1>4. Good(b)
  BY <1>2, MetadataGood
<1>5. PICK c \in PlaybackConfirmed(b) : r \in WaveformPredicted(c)
  BY <1>3
<1>6. Good(c)
  BY <1>4, <1>5, ConfirmedGood
<1> QED
  BY <1>5, <1>6, PredictedGood

(* An edit of the queue, and then the successor is armed again. *)
(*****************************************************************************)
(* The callbacks that edit the queue.                                        *)
(*****************************************************************************)
LEMMA EditArmed ==
  ASSUME NEW w, Good(w), NEW q, GoodQueue(q), q.current >= 0 \/ Covers(q),
         NEW r \in arm_next_track_for_audio([w EXCEPT !.q = q])
  PROVE  /\ Good(r)
         /\ r.q.paths = q.paths /\ r.q.current = q.current /\ r.q.pending = q.pending
         /\ r.u.wanted = PathOf(r.q, AutoAdvanceIndex(r.q, w.u.mode))
<1> DEFINE s == [w EXCEPT !.q = q]
<1>1. Sound(s) /\ s.q = q /\ s.u = w.u
  BY Requeued DEF Good
<1> HIDE DEF s
<1>2. q.current \in Places
  BY DEF GoodQueue, Queues
<1>3. Placed(s)
  BY <1>1, <1>2 DEF Placed, Places
<1>4. r \in arm_next_track_for_audio(s)
  BY DEF s
<1>5. /\ Sound(r) /\ (Placed(s) => Covered(r))
      /\ r.q.current = s.q.current /\ r.q.paths = s.q.paths /\ r.q.pending = s.q.pending
      /\ r.u.wanted = PathOf(r.q, AutoAdvanceIndex(r.q, s.u.mode))
  BY <1>1, <1>4, ArmedFacts
<1> QED
  BY <1>1, <1>3, <1>5 DEF Good

LEMMA ReadyQueueFacts ==
  ASSUME NEW w, Good(w), NEW list \in Seq(Tracks), list # <<>>
  PROVE  Good(ReadyQueue(w, list)) /\ ReadyQueue(w, list).q.paths = list
<1> DEFINE pending == Len(list) - 1
           q == install(list, 0, pending, NoOrder)
<1>1. pending \in Nat /\ 0 \in Places
  BY DEF Places
<1> HIDE DEF pending
<1> DEFINE order == NoOrder
<1>2. order \in Seq(Nat) /\ Order(order) /\ order = NoOrder
  BY NoOrderFacts
<1>3. q = install(list, 0, pending, order)
  OBVIOUS
<1> HIDE DEF q, order
<1>4. GoodQueue(q) /\ Covers(q) /\ q.paths = list
  BY <1>1, <1>2, <1>3, Installed
<1>5. ReadyQueue(w, list) = [free_playlist(w) EXCEPT !.q = q]
  BY DEF ReadyQueue, q, pending
<1> QED
  BY <1>4, <1>5, Freed

LEMMA QueueTriedGood ==
  ASSUME NEW w, Good(w), NEW new \in Seq(Tracks), new # <<>>, NEW r \in QueueTried(w, new)
  PROVE  Good(r) /\ (HasActiveTrack(w.q) \/ r.q.paths = new)
<1>1. CASE ~HasActiveTrack(w.q)
  BY <1>1, ReadyQueueFacts DEF QueueTried
<1>2. CASE HasActiveTrack(w.q)
  <2> DEFINE q == try_add_many(w.q, new)
  <2>1. GoodQueue(w.q) /\ w.q.current >= 0
    BY <1>2, SoundFacts DEF Good, HasActiveTrack, InQueue
  <2>2. GoodQueue(q) /\ q.current = w.q.current
    BY <1>2, <2>1, Added
  <2>3. r \in arm_next_track_for_audio([w EXCEPT !.q = q])
    BY <1>2 DEF QueueTried
  <2> HIDE DEF q
  <2> QED
    BY <1>2, <2>1, <2>2, <2>3, EditArmed
<1> QED
  BY <1>1, <1>2

(* The track is the successor asked for, unless the queue was empty.         *)
LEMMA PlayNextTriedGood ==
  ASSUME NEW w, Good(w), NEW path \in Tracks, NEW r \in PlayNextTried(w, path)
  PROVE  /\ Good(r)
         /\ r.u.wanted = path \/ Count(r.q) = 1
<1>1. CASE ~HasActiveTrack(w.q)
  <2>1. <<path>> \in Seq(Tracks) /\ Len(<<path>>) = 1 /\ <<path>> # <<>>
    OBVIOUS
  <2>2. r \in QueueTried(w, <<path>>)
    BY <1>1 DEF PlayNextTried
  <2>3. Good(r) /\ r.q.paths = <<path>>
    BY <1>1, <2>1, <2>2, QueueTriedGood
  <2> QED
    BY <2>1, <2>3 DEF Count
<1>2. CASE HasActiveTrack(w.q)
  <2> DEFINE q == play_next(w.q, path)
  <2>1. GoodQueue(w.q) /\ w.q.current \in Nat /\ w.q.current < Count(w.q) /\ Count(w.q) \in Nat
        /\ w.q.pending \in Nat
    BY <1>2, SoundFacts, CountFacts DEF Good, HasActiveTrack, InQueue, GoodQueue, Queues, Places
  <2>2. /\ GoodQueue(q) /\ q.current = w.q.current /\ q.pending = w.q.pending + 1
        /\ Count(q) = Count(w.q) + 1 /\ PathAt(q, q.current + 1) = path
    BY <1>2, <2>1, PlayedNext
  <2>3. r \in arm_next_track_for_audio([w EXCEPT !.q = q])
    BY <1>2 DEF PlayNextTried
  <2> HIDE DEF q
  <2>4. /\ Good(r)
        /\ r.q.paths = q.paths /\ r.q.current = q.current /\ r.q.pending = q.pending
        /\ r.u.wanted = PathOf(r.q, AutoAdvanceIndex(r.q, w.u.mode))
    BY <2>1, <2>2, <2>3, EditArmed
  <2>5. r.q.current \in Nat /\ r.q.pending > 0 /\ r.q.current + 1 < Count(r.q) /\ Count(r.q) \in Nat
    BY <2>1, <2>2, <2>4 DEF Count
  <2>6. AutoAdvanceIndex(r.q, w.u.mode) = r.q.current + 1
    BY <2>5 DEF AutoAdvanceIndex
  <2>7. InQueue(r.q, r.q.current + 1)
    BY <2>5 DEF InQueue
  <2>8. PathAt(r.q, r.q.current + 1) = PathAt(q, q.current + 1)
    BY <2>4 DEF PathAt
  <2> QED
    BY <2>2, <2>4, <2>6, <2>7, <2>8 DEF PathOf
<1> QED
  BY <1>1, <1>2

LEMMA PreparedWorld ==
  ASSUME NEW w, Good(w), NEW q \in Prepared(w.q, w.u.mode)
  PROVE  /\ GoodQueue(q) /\ SameTracks(q, w.q) /\ Count(q) = Count(w.q) /\ Count(q) \in Nat
         /\ UsesShuffleBag(w.u.mode) => Len(q.order) = Count(q)
         /\ ~UsesShuffleBag(w.u.mode) => q = w.q
         /\ UsesShuffleBag(w.u.mode) \/ w.q.current < 0 => Covers(q)
<1>1. /\ GoodQueue(q) /\ SameTracks(q, w.q) /\ Count(q) = Count(w.q) /\ Count(q) \in Nat
      /\ UsesShuffleBag(w.u.mode) => Len(q.order) = Count(w.q)
      /\ ~UsesShuffleBag(w.u.mode) => q = w.q
  BY PreparedFacts, SoundFacts, CountFacts DEF Good
<1> QED
  BY <1>1 DEF Good, Covered, Covers

LEMMA EditTriedGood ==
  ASSUME NEW w, Good(w), NEW from \in Int, NEW to \in Int, NEW r \in EditTried(w, from, to)
  PROVE  Good(r)
<1>1. CASE w.u.shown = Stale
  BY <1>1 DEF EditTried
<1>2. CASE w.u.shown # Stale
  <2>1. PICK q \in Prepared(w.q, w.u.mode) :
           r \in IF EditValid(q, w.u.mode, from, to)
                 THEN arm_next_track_for_audio([w EXCEPT !.q = Edited(q, w.u.mode, from, to)])
                 ELSE {[w EXCEPT !.q = q]}
    BY <1>2 DEF EditTried
  <2>2. /\ GoodQueue(q) /\ SameTracks(q, w.q) /\ Count(q) = Count(w.q) /\ Count(q) \in Nat
        /\ UsesShuffleBag(w.u.mode) => Len(q.order) = Count(q)
        /\ ~UsesShuffleBag(w.u.mode) => q = w.q
        /\ UsesShuffleBag(w.u.mode) \/ w.q.current < 0 => Covers(q)
    BY PreparedWorld
  <2>3. CASE ~EditValid(q, w.u.mode, from, to)
    <3>1. r = [w EXCEPT !.q = q]
      BY <2>1, <2>3
    <3>2. q.current = w.q.current /\ (Covers(w.q) => Covers(q))
      BY <2>2 DEF SameTracks
    <3> QED
      BY <2>2, <3>1, <3>2, RequeuedGood
  <2>4. CASE EditValid(q, w.u.mode, from, to)
    <3> DEFINE e == Edited(q, w.u.mode, from, to)
    <3>1. GoodQueue(e) /\ e.current = DisplayCurrent(q, w.u.mode) /\ (Covers(q) => Covers(e))
      BY <2>2, <2>4, EditedFacts
    <3>2. r \in arm_next_track_for_audio([w EXCEPT !.q = e])
      BY <2>1, <2>4
    <3> HIDE DEF e
    <3>3. e.current >= 0 \/ Covers(e)
      <4>1. CASE UsesShuffleBag(w.u.mode)
        BY <2>2, <3>1, <4>1
      <4>2. CASE ~UsesShuffleBag(w.u.mode)
        BY <2>2, <3>1, <4>2 DEF DisplayCurrent, GoodQueue, Queues, Places
      <4> QED
        BY <4>1, <4>2
    <3> QED
      BY <3>1, <3>2, <3>3, EditArmed
  <2> QED
    BY <2>3, <2>4
<1> QED
  BY <1>1, <1>2

LEMMA SelectTriedGood ==
  ASSUME NEW w, Good(w), NEW i \in Int, NEW r \in SelectTried(w, i)
  PROVE  Good(r)
<1>1. CASE w.u.shown = Stale \/ ~InQueue(w.q, i)
  BY <1>1 DEF SelectTried
<1>2. CASE ~(w.u.shown = Stale \/ ~InQueue(w.q, i))
  <2>1. PICK q \in Prepared(w.q, w.u.mode) :
           r \in play_track_at([w EXCEPT !.q = Selected(q, w.u.mode, i)], i)
    BY <1>2 DEF SelectTried
  <2>2. /\ GoodQueue(q) /\ SameTracks(q, w.q) /\ Count(q) = Count(w.q) /\ Count(q) \in Nat
        /\ UsesShuffleBag(w.u.mode) => Len(q.order) = Count(q)
        /\ ~UsesShuffleBag(w.u.mode) => q = w.q
        /\ UsesShuffleBag(w.u.mode) \/ w.q.current < 0 => Covers(q)
    BY PreparedWorld
  <2> DEFINE s == Selected(q, w.u.mode, i)
             v == [w EXCEPT !.q = s]
  <2>3. i \in Nat /\ Count(q) > 0
    BY <1>2, <2>2 DEF InQueue
  <2>4. GoodQueue(s) /\ s.current = DisplayCurrent(q, w.u.mode) /\ (Covers(q) => Covers(s))
    BY <2>2, <2>3, SelectedFacts
  <2> HIDE DEF s
  <2>5. Covers(s) \/ (~UsesShuffleBag(w.u.mode) /\ s.current >= 0)
    BY <2>2, <2>4 DEF DisplayCurrent, GoodQueue, Queues, Places
  <2>6. Good(v)
    BY <2>4, <2>5, RequeuedGood
  <2>7. r \in play_track_at(v, i)
    BY <2>1 DEF s
  <2> HIDE DEF v
  <2> QED
    BY <2>6, <2>7, Played
<1> QED
  BY <1>1, <1>2

LEMMA ClearTriedGood ==
  ASSUME NEW w, Good(w), NEW r \in ClearTried(w)
  PROVE  Good(r)
<1>1. CASE ~HasActiveTrack(w.q)
  BY <1>1 DEF ClearTried
<1>2. CASE HasActiveTrack(w.q)
  <2>1. PICK q \in clear_to_current(w.q, w.u.mode) : r \in arm_next_track_for_audio([w EXCEPT !.q = q])
    BY <1>2 DEF ClearTried
  <2>2. GoodQueue(q) /\ q.current = 0
    BY <1>2, <2>1, SoundFacts, Cleared DEF Good
  <2> QED
    BY <2>1, <2>2, EditArmed
<1> QED
  BY <1>1, <1>2

LEMMA RestartGood ==
  ASSUME NEW w, Good(w), NEW i \in Int, InQueue(w.q, i), NEW mode \in Modes,
         NEW r \in Restart(w, i, mode)
  PROVE  Good(r)
<1>1. PICK q \in Prepared(w.q, w.u.mode) :
         \E m \in set_play_mode([w EXCEPT !.q = RestartedDisplayed(q, w.u.mode, i)], mode) :
            r \in play_track_at(m, i)
  BY DEF Restart
<1> DEFINE s == RestartedDisplayed(q, w.u.mode, i)
           v == [w EXCEPT !.q = s]
<1>2. i \in Nat
  BY DEF InQueue
<1>3. GoodQueue(s) /\ Covers(s)
  BY <1>2, PreparedWorld, Restarted
<1> HIDE DEF s
<1>4. Good(v)
  BY <1>3, RequeuedGood
<1>5. PICK m \in set_play_mode(v, mode) : r \in play_track_at(m, i)
  BY <1>1 DEF s
<1> HIDE DEF v
<1>6. Good(m)
  BY <1>4, <1>5, ModeSet
<1> QED
  BY <1>5, <1>6, Played

(*****************************************************************************)
(* The callbacks that start something else.                                  *)
(*****************************************************************************)
LEMMA StepTriedGood ==
  ASSUME NEW w, Good(w), NEW direction \in {-1, 1}, NEW r \in StepTried(w, direction)
  PROVE  Good(r)
<1> DEFINE reset == reset_decoder_failure_tracking(w)
           After(x) == [reset EXCEPT !.q = x[1]]
<1>1. Good(reset) /\ reset.q = w.q
  BY ResetGood
<1>2. \/ r = reset
      \/ \E x \in manual_step(w.q, w.u.mode, direction) :
            r \in IF x[2] < 0 THEN {After(x)} ELSE play_track_at(After(x), x[2])
  BY DEF StepTried
<1>3. ASSUME NEW x \in manual_step(w.q, w.u.mode, direction),
             r \in IF x[2] < 0 THEN {After(x)} ELSE play_track_at(After(x), x[2])
      PROVE  Good(r)
  <2>1. /\ GoodQueue(x[1]) /\ x[2] \in Places
        /\ x[1].paths = w.q.paths /\ x[1].current = w.q.current
        /\ x[1].order = w.q.order \/ Len(x[1].order) = Count(w.q)
    BY SoundFacts, Stepped DEF Good
  <2>2. Covers(w.q) => Covers(x[1])
    BY <2>1, SoundFacts, CoversKept DEF Good
  <2> DEFINE s == After(x)
  <2>3. r \in IF x[2] < 0 THEN {s} ELSE play_track_at(s, x[2])
    BY <1>3
  <2> HIDE DEF reset
  <2>4. Good(s)
    BY <1>1, <2>1, <2>2, RequeuedGood
  <2> HIDE DEF s
  <2> QED
    BY <2>1, <2>3, <2>4, Played DEF Places
<1> HIDE DEF reset
<1> QED
  BY <1>1, <1>2, <1>3

LEMMA PlayToggledGood ==
  ASSUME NEW w, Good(w), NEW r \in PlayToggled(w)
  PROVE  Good(r)
<1>1. w.q.current \in Int
  BY SoundFacts DEF Good, GoodQueue, Queues, Places
<1> QED
  BY <1>1, ResetGood, Played DEF PlayToggled

LEMMA OptionGood ==
  ASSUME NEW w, Good(w), w.q.current >= 0, NEW r \in OptionChanged(w)
  PROVE  Good(r)
<1> DEFINE s == [w EXCEPT !.u.armed = NoTrack]
           u == [w.u EXCEPT !.armed = NoTrack]
<1>1. w \in Worlds /\ GoodQueue(w.q) /\ w.e \in Engines /\ w.u \in Screens /\ Covered(w)
      /\ Untried(w.e, w.u) /\ (w.e.error # "NONE" => w.e.active = NoTrack)
  BY SoundFacts DEF Good, Sound
<1>2. s \in [q : {w.q}, e : {w.e}, u : {u}] /\ s.q = w.q /\ s.e = w.e /\ s.u = u
  BY <1>1 DEF Worlds
<1>3. u \in Screens /\ u.gen = w.u.gen /\ u.failed = w.u.failed /\ u.mode = w.u.mode
  BY <1>1 DEF Screens, Paths
<1>4. r \in arm_next_track_for_audio(s) \/ r \in arm_next_track_for_audio(w)
  BY DEF OptionChanged
<1> HIDE DEF s, u
<1>5. Sound(s) /\ Sound(w)
  BY <1>1, <1>2, <1>3, Assembled DEF Untried, Good
<1>6. Placed(s) /\ Placed(w)
  BY <1>1, <1>2 DEF Placed, GoodQueue, Queues, Places
<1> QED
  BY <1>4, <1>5, <1>6, ArmedFacts DEF Good

(* A list is installed in place of the queue and played from a slot. *)
LEMMA InstalledWorld ==
  ASSUME NEW w, Good(w), NEW list \in Seq(Tracks), NEW order \in Seq(Nat), Order(order),
         order = NoOrder \/ Len(order) = Len(list)
  PROVE  Good([w EXCEPT !.q = install(list, -1, 0, order)])
<1> DEFINE q == install(list, -1, 0, order)
<1>1. -1 \in Places
  BY DEF Places
<1>2. GoodQueue(q) /\ Covers(q)
  BY <1>1, Installed
<1> HIDE DEF q
<1>3. Good([w EXCEPT !.q = q])
  BY <1>2, RequeuedGood
<1> QED
  BY <1>3 DEF q

(* A new list comes with an empty queue before it.                           *)
LEMMA FreedGood ==
  ASSUME NEW w, Good(w)
  PROVE  Good(free_playlist(w))
<1> DEFINE f == free_playlist(w)
           reset == reset_decoder_failure_tracking(w)
<1>1. Good([f EXCEPT !.q = EmptyQueue])
  BY EmptyQueueFacts, Freed
<1>2. reset \in Worlds
  BY ResetGood DEF Good, Sound
<1>3. [f EXCEPT !.q = EmptyQueue] = f
  <2>1. f = [reset EXCEPT !.q = EmptyQueue, !.u.gen = "none", !.u.wanted = NoTrack, !.u.shown = Stale]
    BY DEF free_playlist
  <2> HIDE DEF reset
  <2> QED
    BY <1>2, <2>1 DEF Worlds
<1> QED
  BY <1>1, <1>3

LEMMA FileSelectedGood ==
  ASSUME NEW w, Good(w), NEW list \in Seq(Tracks), NEW i \in Int, NEW r \in FileSelected(w, list, i)
  PROVE  Good(r)
<1> DEFINE f == free_playlist(w)
           s == [f EXCEPT !.q = install(list, -1, 0, NoOrder)]
<1>1. Good(s)
  BY FreedGood, InstalledWorld, NoOrderFacts
<1>2. r \in play_track_at(s, i)
  BY DEF FileSelected
<1> HIDE DEF s
<1> QED
  BY <1>1, <1>2, Played

LEMMA CollectionGood ==
  ASSUME NEW w, Good(w), NEW list \in Seq(Tracks), list # <<>>, NEW mode \in Modes,
         NEW r \in CollectionPlayed(w, list, mode)
  PROVE  Good(r)
<1>1. PICK order \in (IF UsesShuffleBag(mode) THEN Orders(Len(list)) ELSE {NoOrder}),
           m \in set_play_mode(free_playlist(w), mode) :
         r \in play_track_at([m EXCEPT !.q = install(list, -1, 0, order)],
                             IF order = NoOrder THEN 0 ELSE order[1])
  BY DEF CollectionPlayed
<1>2. /\ order \in Seq(Nat) /\ Order(order)
      /\ order = NoOrder \/ Len(order) = Len(list)
  <2>1. Len(list) \in Nat
    OBVIOUS
  <2>2. CASE order \in Orders(Len(list))
    BY <2>1, <2>2, OrdersFacts
  <2>3. CASE order = NoOrder
    BY <2>3, NoOrderFacts
  <2> QED
    BY <1>1, <2>2, <2>3
<1>3. Good(m)
  BY FreedGood, ModeSet
<1> DEFINE s == [m EXCEPT !.q = install(list, -1, 0, order)]
           i == IF order = NoOrder THEN 0 ELSE order[1]
<1>4. i \in Int
  <2>1. CASE order = NoOrder
    BY <2>1
  <2>2. CASE order # NoOrder
    BY <1>2, <2>2
  <2> QED
    BY <2>1, <2>2
<1>5. Good(s)
  BY <1>2, <1>3, InstalledWorld
<1>6. r \in play_track_at(s, i)
  BY <1>1
<1> HIDE DEF s, i
<1> QED
  BY <1>4, <1>5, <1>6, Played

LEMMA CollectionPathsGood ==
  ASSUME NEW w, Good(w), NEW list \in Seq(Tracks), NEW mode \in Modes,
         NEW r \in CollectionPathsPlayed(w, list, mode)
  PROVE  Good(r)
<1>1. PICK i \in (IF UsesShuffleBag(mode) THEN 0..(Len(list) - 1) ELSE {0}),
           m \in set_play_mode(free_playlist(w), mode) :
         r \in play_track_at([m EXCEPT !.q = install(list, -1, 0, NoOrder)], i)
  BY DEF CollectionPathsPlayed
<1>2. i \in Int
  BY <1>1
<1>3. Good(m)
  BY FreedGood, ModeSet
<1> DEFINE s == [m EXCEPT !.q = install(list, -1, 0, NoOrder)]
<1>4. Good(s)
  BY <1>3, InstalledWorld, NoOrderFacts
<1>5. r \in play_track_at(s, i)
  BY <1>1
<1> HIDE DEF s
<1> QED
  BY <1>2, <1>4, <1>5, Played

(* Deleting the current track.                                               *)
LEMMA DeletedGood ==
  ASSUME NEW w, Good(w), HasActiveTrack(w.q), NEW r \in CurrentDeleted(w)
  PROVE  Good(r)
<1> DEFINE q == delete_current(w.q)
           v == [w EXCEPT !.u.wanted = NoTrack]
           u == [w.u EXCEPT !.wanted = NoTrack]
           d == [w EXCEPT !.q = delete_current(@), !.u.wanted = NoTrack]
<1>1. w \in Worlds /\ GoodQueue(w.q) /\ w.e \in Engines /\ w.u \in Screens /\ Covered(w)
      /\ Untried(w.e, w.u) /\ (w.e.error # "NONE" => w.e.active = NoTrack)
  BY SoundFacts DEF Good, Sound
<1>2. d.q = q /\ d.e = w.e /\ d.u = u /\ d \in [q : {q}, e : {w.e}, u : {u}]
  BY <1>1 DEF Worlds
<1>3. u \in Screens /\ u.gen = w.u.gen /\ u.failed = w.u.failed /\ u.mode = w.u.mode
  BY <1>1 DEF Screens, Paths
<1>4. /\ GoodQueue(q) /\ q.current = w.q.current /\ q.current \in Nat
      /\ Covers(w.q) => Covers(q)
      /\ AfterDelete(q) \in Places
      /\ AfterDelete(q) < 0 <=> Count(q) = 0
  BY <1>1, Deleted
<1>5. r \in IF AfterDelete(d.q) < 0
            THEN audio_stop([d EXCEPT !.q = finish_empty_delete(@)])
            ELSE play_track_at(d, AfterDelete(d.q))
  BY DEF CurrentDeleted
<1> HIDE DEF q, u, d
<1>6. Sound(d)
  BY <1>1, <1>2, <1>3, <1>4, Assembled DEF Untried
<1>7. Good(d)
  BY <1>1, <1>2, <1>3, <1>4, <1>6 DEF Good, Covered
<1>8. CASE AfterDelete(q) < 0
  <2> DEFINE p == [q EXCEPT !.current = -1]
             s == [d EXCEPT !.q = p]
  <2>1. -1 \in Places
    BY DEF Places
  <2>2. GoodQueue(p) /\ Count(p) = Count(q) /\ p.order = q.order
    BY <1>4, <2>1, AnotherCurrent
  <2> HIDE DEF p
  <2>3. Covers(p)
    BY <1>4, <1>8, <2>2, BagSlots DEF Covers
  <2>4. Good(s)
    BY <1>7, <2>2, <2>3, RequeuedGood
  <2>5. s = [d EXCEPT !.q = finish_empty_delete(@)]
    BY <1>2 DEF finish_empty_delete, p
  <2>6. r \in audio_stop(s)
    BY <1>2, <1>5, <1>8, <2>5
  <2> HIDE DEF s
  <2> QED
    BY <2>4, <2>6, Stopped
<1>9. CASE ~(AfterDelete(q) < 0)
  BY <1>2, <1>4, <1>5, <1>7, <1>9, Played DEF Places
<1> QED
  BY <1>8, <1>9

LEMMA SnapshotGood ==
  ASSUME NEW w, Good(w), NEW r \in SnapshotTaken(w)
  PROVE  Good(r)
<1>1. PICK q \in Prepared(w.q, w.u.mode) :
         r = [w EXCEPT !.q = q, !.u.shown = Displayed(q, w.u.mode)]
  BY DEF SnapshotTaken
<1> DEFINE shown == Displayed(q, w.u.mode)
           u == [w.u EXCEPT !.shown = shown]
<1>2. w \in Worlds /\ w.e \in Engines /\ w.u \in Screens /\ Covered(w)
      /\ Untried(w.e, w.u) /\ (w.e.error # "NONE" => w.e.active = NoTrack)
  BY SoundFacts DEF Good, Sound
<1>3. /\ GoodQueue(q) /\ SameTracks(q, w.q)
      /\ UsesShuffleBag(w.u.mode) => Len(q.order) = Count(q)
      /\ ~UsesShuffleBag(w.u.mode) => q = w.q
      /\ UsesShuffleBag(w.u.mode) \/ w.q.current < 0 => Covers(q)
  BY PreparedWorld
<1>4. shown \in Snapshots
  BY <1>3, Shown
<1>5. r.q = q /\ r.e = w.e /\ r.u = u /\ r \in [q : {q}, e : {w.e}, u : {u}]
  BY <1>1, <1>2 DEF Worlds
<1> HIDE DEF shown
<1>6. u \in Screens /\ u.gen = w.u.gen /\ u.failed = w.u.failed /\ u.mode = w.u.mode
  BY <1>2, <1>4 DEF Screens
<1> HIDE DEF u
<1>7. Sound(r)
  BY <1>2, <1>3, <1>5, <1>6, Assembled DEF Untried
<1> QED
  BY <1>3, <1>5, <1>6, <1>7 DEF Good, Covered, SameTracks

(*****************************************************************************)
(* The initial states and the steps.  A checkpoint is restored only if it is *)
(* readable, so its bag fits its queue.                                      *)
(*****************************************************************************)
LEMMA Initially == Init => Inv
<1> SUFFICES ASSUME Init
             PROVE  Inv
  OBVIOUS
<1>1. PICK mode \in PlayModes : /\ queue \in {EmptyQueue} \cup Restored(mode)
                                /\ ui = FreshScreen(mode)
  BY DEF Init
<1>2. mode \in Modes
  BY <1>1, PlayModesAssumption
<1>3. engine \in Engines /\ engine.active = NoTrack
  BY DEF Init, IdleEngine, Engines, Paths
<1>4. ui \in Screens /\ ui.mode = mode
  <2>1. {} \in SUBSET Tracks /\ 0 \in 0..4
    OBVIOUS
  <2> QED
    BY <1>1, <1>2, <2>1 DEF FreshScreen, Screens, Paths
<1>5. GoodQueue(queue) /\ (UsesShuffleBag(mode) \/ queue.current < 0 => Covers(queue))
  <2>1. CASE queue = EmptyQueue
    BY <2>1, EmptyQueueFacts
  <2>2. CASE queue \in Restored(mode)
    <3>1. /\ queue \in [paths : Lists, current : 0..MaxQueue, pending : 0..MaxQueue,
                        insert : -1..MaxQueue, order : SomeOrders, pos : -1..MaxQueue,
                        cont : SomeOrders]
          /\ UsesShuffleBag(mode) \/ (queue.order = NoOrder /\ queue.pos = -1)
          /\ mode = "SHUFFLE" \/ queue.cont = NoOrder
          /\ CheckpointReadable(queue, mode)
      BY <2>2 DEF Restored
    <3>2. \A n \in 0..MaxQueue : n \in Nat /\ n \in Places
      BY MaxQueueAssumption DEF Places
    <3>3. \A n \in -1..MaxQueue : n \in Places
      BY MaxQueueAssumption DEF Places
    <3>4. \A l \in Lists : l \in Seq(Tracks) /\ Len(l) \in Nat
      BY ListsAssumption
    <3>5. \A o \in SomeOrders : o \in Seq(Nat) /\ Order(o)
      BY <3>4, OrdersFacts, NoOrderFacts DEF SomeOrders
    <3>6. queue \in Queues
      BY <3>1, <3>2, <3>3, <3>4, <3>5 DEF Queues
    <3>7. /\ UsesShuffleBag(mode) => IsOrder(queue.order, Count(queue))
          /\ mode = "SHUFFLE" /\ queue.cont # NoOrder => IsOrder(queue.cont, Count(queue))
      BY <3>1 DEF CheckpointReadable, CheckpointWritable
    <3>8. Count(queue) \in Nat
      BY <3>6 DEF Count, Queues
    <3>9. \A o \in Seq(Nat) : IsOrder(o, Count(queue)) => Len(o) = Count(queue)
      BY <3>8 DEF IsOrder
    <3>10. UsesShuffleBag(mode) => Len(queue.order) = Count(queue)
      BY <3>6, <3>7, <3>9 DEF Queues
    <3>11. queue.cont # NoOrder => Len(queue.cont) = Len(queue.order)
      BY <3>1, <3>6, <3>7, <3>9, <3>10 DEF Queues, UsesShuffleBag
    <3>12. queue.current >= 0
      BY <3>1
    <3>13. UsesShuffleBag(mode) => Covers(queue)
      BY <3>8, <3>10 DEF Covers
    <3>14. ~(queue.current < 0)
      BY <3>6, <3>12 DEF Queues, Places
    <3>15. Order(queue.order) /\ Order(queue.cont)
      BY <3>1, <3>5
    <3> QED
      BY <3>6, <3>11, <3>13, <3>14, <3>15 DEF GoodQueue, Bag
  <2> QED
    BY <1>1, <2>1, <2>2
<1> QED
  BY <1>3, <1>4, <1>5 DEF Inv, Good, Sound, Worlds, world, Covered, Untried, GoodQueue

(* A callback leaves one of its worlds behind.                               *)
LEMMA LeftAs ==
  ASSUME NEW w, Good(w), queue' = w.q, engine' = w.e, ui' = w.u
  PROVE  Inv'
<1>1. w \in Worlds
  BY DEF Good, Sound
<1>2. w = [q |-> queue', e |-> engine', u |-> ui']
  BY <1>1 DEF Worlds
<1> QED
  BY <1>2 DEF Inv, world

(* The audio thread moves on: the screen is behind.                          *)
LEMMA Promoted == ASSUME Inv, Promote PROVE Inv'
<1>1. /\ queue \in Queues /\ Bag(queue) /\ engine \in Engines /\ ui \in Screens
      /\ engine.error = "NONE" /\ Covered(world)
  BY DEF Inv, Good, Sound, Worlds, world, Promote
<1> DEFINE gen == IF ui.gen = "none" THEN ui.gen ELSE "behind"
<1>2. /\ engine' = [engine EXCEPT !.active = engine.next, !.next = NoTrack, !.advanced = TRUE]
      /\ ui' = [ui EXCEPT !.gen = gen, !.armed = NoTrack, !.wanted = NoTrack]
      /\ queue' = queue
  BY <1>1 DEF Promote, Screens
<1>3. gen \in {"none", "synced", "behind"} /\ gen # "synced"
  BY <1>1 DEF Screens
<1> HIDE DEF gen
<1>4. engine' \in Engines /\ engine'.error = engine.error
  BY <1>1, <1>2 DEF Engines, Paths
<1>5. ui' \in Screens /\ ui'.gen = gen /\ ui'.mode = ui.mode
  BY <1>1, <1>2, <1>3 DEF Screens, Paths
<1> QED
  BY <1>1, <1>2, <1>3, <1>4, <1>5 DEF Inv, Good, Sound, Worlds, world, Covered, Untried

(* The end of a track, and a failure.                                        *)
LEMMA Ended == ASSUME Inv, EndOfTrack \/ Fail PROVE Inv'
<1>1. /\ queue \in Queues /\ Bag(queue) /\ engine \in Engines /\ ui \in Screens
      /\ Covered(world)
  BY DEF Inv, Good, Sound, Worlds, world
<1>2. queue' = queue /\ ui' = ui
  BY DEF EndOfTrack, Fail
<1>3. engine' \in Engines /\ engine'.active = NoTrack
  <2>1. CASE EndOfTrack
    BY <1>1, <2>1 DEF EndOfTrack, Engines, Paths
  <2>2. CASE Fail
    BY <1>1, <2>2, FailuresAssumption DEF Fail, Engines, Paths
  <2> QED
    BY <2>1, <2>2
<1> QED
  BY <1>1, <1>2, <1>3 DEF Inv, Good, Sound, Worlds, world, Covered, Untried

LEMMA EditsGood == ASSUME Inv, Edits PROVE Inv'
<1>1. Good(world) /\ \A s \in Settled(world) : Good(s)
  BY SettledGood DEF Inv
<1>2. ASSUME NEW p \in Tracks, QueueAdd(p) PROVE Inv'
  <2>1. <<p>> \in Seq(Tracks) /\ <<p>> # <<>>
    OBVIOUS
  <2>2. PICK w \in AfterSettling(world, LAMBDA s : QueueTried(s, <<p>>)) :
           queue' = w.q /\ engine' = w.e /\ ui' = w.u
    BY <1>2 DEF QueueAdd, Leave
  <2>3. PICK s \in Settled(world) : w \in QueueTried(s, <<p>>)
    BY <2>2 DEF AfterSettling, Then
  <2>4. Good(w)
    BY <1>1, <2>1, <2>3, QueueTriedGood
  <2> QED
    BY <2>2, <2>4, LeftAs
<1>3. ASSUME NEW l \in Lists, QueueAddList(l) PROVE Inv'
  <2>1. l \in Seq(Tracks) /\ l # <<>>
    BY ListsAssumption
  <2>2. PICK w \in AfterSettling(world, LAMBDA s : QueueTried(s, l)) :
           queue' = w.q /\ engine' = w.e /\ ui' = w.u
    BY <1>3 DEF QueueAddList, Leave
  <2>3. PICK s \in Settled(world) : w \in QueueTried(s, l)
    BY <2>2 DEF AfterSettling, Then
  <2>4. Good(w)
    BY <1>1, <2>1, <2>3, QueueTriedGood
  <2> QED
    BY <2>2, <2>4, LeftAs
<1>4. ASSUME NEW p \in Tracks, PlayNext(p) PROVE Inv'
  <2>1. PICK w \in AfterSettling(world, LAMBDA s : PlayNextTried(s, p)) :
           queue' = w.q /\ engine' = w.e /\ ui' = w.u
    BY <1>4 DEF PlayNext, Leave
  <2>2. PICK s \in Settled(world) : w \in PlayNextTried(s, p)
    BY <2>1 DEF AfterSettling, Then
  <2>3. Good(w)
    BY <1>1, <2>2, PlayNextTriedGood
  <2> QED
    BY <2>1, <2>3, LeftAs
<1>5. ASSUME NEW from \in Int, NEW to \in Int,
             Leave(AfterSettling(world, LAMBDA s : EditTried(s, from, to)))
      PROVE  Inv'
  <2>1. PICK w \in AfterSettling(world, LAMBDA s : EditTried(s, from, to)) :
           queue' = w.q /\ engine' = w.e /\ ui' = w.u
    BY <1>5 DEF Leave
  <2>2. PICK s \in Settled(world) : w \in EditTried(s, from, to)
    BY <2>1 DEF AfterSettling, Then
  <2>3. Good(w)
    BY <1>1, <2>2, EditTriedGood
  <2> QED
    BY <2>1, <2>3, LeftAs
<1>6. \A i \in Slots : i \in Int
  BY DEF Slots
<1>7. ASSUME NEW from \in Slots, NEW to \in Slots, Move(from, to) PROVE Inv'
  BY <1>5, <1>6, <1>7 DEF Move
<1>8. ASSUME NEW from \in Slots, Remove(from) PROVE Inv'
  <2> DEFINE to == -1
  <2>1. from \in Int /\ to \in Int
    BY <1>6
  <2>2. Leave(AfterSettling(world, LAMBDA s : EditTried(s, from, to)))
    BY <1>8 DEF Remove
  <2> HIDE DEF to
  <2> QED
    BY <1>5, <2>1, <2>2
<1>9. ASSUME ClearAll PROVE Inv'
  <2>1. PICK w \in AfterSettling(world, ClearTried) : queue' = w.q /\ engine' = w.e /\ ui' = w.u
    BY <1>9 DEF ClearAll, Leave
  <2>2. PICK s \in Settled(world) : w \in ClearTried(s)
    BY <2>1 DEF AfterSettling, Then
  <2>3. Good(w)
    BY <1>1, <2>2, ClearTriedGood
  <2> QED
    BY <2>1, <2>3, LeftAs
<1>10. ASSUME DeleteCurrent PROVE Inv'
  <2>1. world.q = queue
    BY DEF world
  <2>2. PICK w \in CurrentDeleted(world) : queue' = w.q /\ engine' = w.e /\ ui' = w.u
    BY <1>10 DEF DeleteCurrent, Leave
  <2>3. HasActiveTrack(world.q)
    BY <1>10, <2>1 DEF DeleteCurrent
  <2>4. Good(w)
    BY <1>1, <2>2, <2>3, DeletedGood
  <2> QED
    BY <2>2, <2>4, LeftAs
<1>11. ASSUME ShowQueue PROVE Inv'
  <2>1. PICK w \in SnapshotTaken(world) : queue' = w.q /\ engine' = w.e /\ ui' = w.u
    BY <1>11 DEF ShowQueue, Leave
  <2> QED
    BY <1>1, <2>1, SnapshotGood, LeftAs
<1> QED
  BY <1>2, <1>3, <1>4, <1>7, <1>8, <1>9, <1>10, <1>11 DEF Edits

LEMMA PlaysGood == ASSUME Inv, Plays PROVE Inv'
<1>1. Good(world) /\ (\A s \in Settled(world) : Good(s)) /\ world.q = queue
  BY SettledGood DEF Inv, world
<1>2. \A i \in Slots : i \in Int
  BY DEF Slots
<1>3. ASSUME NEW i \in Slots, Select(i) PROVE Inv'
  <2>1. PICK w \in AfterSettling(world, LAMBDA s : SelectTried(s, i)) :
           queue' = w.q /\ engine' = w.e /\ ui' = w.u
    BY <1>3 DEF Select, Leave
  <2>2. PICK s \in Settled(world) : w \in SelectTried(s, i)
    BY <2>1 DEF AfterSettling, Then
  <2>3. Good(w)
    BY <1>1, <1>2, <2>2, SelectTriedGood
  <2> QED
    BY <2>1, <2>3, LeftAs
<1>4. ASSUME NEW i \in Int, NEW mode, QueueStart(i, mode) PROVE Inv'
  <2>1. PICK w \in Restart(world, i, mode) : queue' = w.q /\ engine' = w.e /\ ui' = w.u
    BY <1>4 DEF QueueStart, Leave
  <2>2. mode \in Modes /\ InQueue(world.q, i)
    BY <1>1, <1>4, PlayModesAssumption DEF QueueStart
  <2>3. Good(w)
    BY <1>1, <2>1, <2>2, RestartGood
  <2> QED
    BY <2>1, <2>3, LeftAs
<1>5. ASSUME NEW direction \in {-1, 1}, StepManual(direction) PROVE Inv'
  <2>1. PICK w \in StepTried(world, direction) : queue' = w.q /\ engine' = w.e /\ ui' = w.u
    BY <1>5 DEF StepManual, Leave
  <2>2. Good(w)
    BY <1>1, <2>1, StepTriedGood
  <2> QED
    BY <2>1, <2>2, LeftAs
<1>6. \A l \in Lists : l \in Seq(Tracks) /\ l # <<>>
  BY ListsAssumption
<1>7. ASSUME NEW l \in Lists, NEW i \in Int, SelectFile(l, i) PROVE Inv'
  <2>1. PICK w \in FileSelected(world, l, i) : queue' = w.q /\ engine' = w.e /\ ui' = w.u
    BY <1>7 DEF SelectFile, Leave
  <2>2. Good(w)
    BY <1>1, <1>6, <2>1, FileSelectedGood
  <2> QED
    BY <2>1, <2>2, LeftAs
<1>8. ASSUME NEW l \in Lists, NEW mode \in PlayModes, PlayCollection(l, mode) PROVE Inv'
  <2>1. PICK w \in CollectionPlayed(world, l, mode) : queue' = w.q /\ engine' = w.e /\ ui' = w.u
    BY <1>8 DEF PlayCollection, Leave
  <2>2. mode \in Modes
    BY PlayModesAssumption
  <2>3. Good(w)
    BY <1>1, <1>6, <2>1, <2>2, CollectionGood
  <2> QED
    BY <2>1, <2>3, LeftAs
<1>9. ASSUME NEW l \in Lists, NEW mode \in PlayModes, PlayCollectionPaths(l, mode) PROVE Inv'
  <2>1. PICK w \in CollectionPathsPlayed(world, l, mode) :
           queue' = w.q /\ engine' = w.e /\ ui' = w.u
    BY <1>9 DEF PlayCollectionPaths, Leave
  <2>2. mode \in Modes
    BY PlayModesAssumption
  <2>3. Good(w)
    BY <1>1, <1>6, <2>1, <2>2, CollectionPathsGood
  <2> QED
    BY <2>1, <2>3, LeftAs
<1>10. ASSUME TogglePlayPause PROVE Inv'
  <2>1. PICK w \in PlayToggled(world) : queue' = w.q /\ engine' = w.e /\ ui' = w.u
    BY <1>10 DEF TogglePlayPause, Leave
  <2> QED
    BY <1>1, <2>1, PlayToggledGood, LeftAs
<1>11. 0 \in Int /\ \A l \in Lists : \A i \in 0..(Len(l) - 1) : i \in Int
  OBVIOUS
<1> QED
  BY <1>2, <1>3, <1>4, <1>5, <1>7, <1>8, <1>9, <1>10, <1>11 DEF Plays

LEMMA SettingsGood == ASSUME Inv, Settings PROVE Inv'
<1>1. Good(world) /\ world.q = queue
  BY DEF Inv, world
<1>2. ASSUME NEW mode \in PlayModes, SetMode(mode) PROVE Inv'
  <2>1. PICK w \in set_play_mode(world, mode) : queue' = w.q /\ engine' = w.e /\ ui' = w.u
    BY <1>2 DEF SetMode, Leave
  <2>2. mode \in Modes
    BY PlayModesAssumption
  <2>3. Good(w)
    BY <1>1, <2>1, <2>2, ModeSet
  <2> QED
    BY <2>1, <2>3, LeftAs
<1>3. ASSUME SetPlaybackOption PROVE Inv'
  <2>1. PICK w \in OptionChanged(world) : queue' = w.q /\ engine' = w.e /\ ui' = w.u
    BY <1>3 DEF SetPlaybackOption, Leave
  <2>2. world.q.current >= 0
    BY <1>1, <1>3 DEF SetPlaybackOption
  <2>3. Good(w)
    BY <1>1, <2>1, <2>2, OptionGood
  <2> QED
    BY <2>1, <2>3, LeftAs
<1>4. ASSUME StopForExternalSession PROVE Inv'
  <2>1. PICK w \in audio_stop(world) : queue' = w.q /\ engine' = w.e /\ ui' = w.u
    BY <1>4 DEF StopForExternalSession, Leave
  <2> QED
    BY <1>1, <2>1, Stopped, LeftAs
<1> QED
  BY <1>2, <1>3, <1>4 DEF Settings

(*****************************************************************************)
(* The theorems.                                                             *)
(*****************************************************************************)
(* Every world the callbacks of the screen and the audio thread leave behind *)
(* satisfies the invariant.                                                  *)
THEOREM Invariance == Spec => []Inv
<1>1. Init => Inv
  BY Initially
<1>2. Inv /\ [Next]_vars => Inv'
  <2> SUFFICES ASSUME Inv, [Next]_vars
               PROVE  Inv'
    OBVIOUS
  <2>1. CASE Poll
    <3>1. PICK w \in Polled(world) : queue' = w.q /\ engine' = w.e /\ ui' = w.u
      BY <2>1 DEF Poll, Leave
    <3>2. Good(w)
      BY <3>1, PolledGood DEF Inv
    <3> QED
      BY <3>1, <3>2, LeftAs
  <2>2. CASE Edits
    BY <2>2, EditsGood
  <2>3. CASE Plays
    BY <2>3, PlaysGood
  <2>4. CASE Settings
    BY <2>4, SettingsGood
  <2>5. CASE Engine
    BY <2>5, Promoted, Ended DEF Engine
  <2>6. CASE UNCHANGED vars
    BY <2>6 DEF vars, Inv, world
  <2> QED
    BY <2>1, <2>2, <2>3, <2>4, <2>5, <2>6 DEF Next
<1> QED
  BY <1>1, <1>2, PTL DEF Spec

(* The queue, the engine as the screen sees it and the screen keep their     *)
(* types; the skips over failed tracks stay bounded                          *)
(* (consecutive_decoder_failure_skips).                                      *)
THEOREM TypeCorrect == Spec => []TypeOK
<1>1. Inv => TypeOK
  <2> SUFFICES ASSUME Inv
               PROVE  TypeOK
    OBVIOUS
  <2>1. queue \in Queues /\ engine \in Engines /\ ui \in Screens
    BY DEF Inv, Good, Sound, Worlds, world
  <2>2. /\ queue.paths \in Seq(Tracks) /\ queue.pending \in Nat
        /\ \A i \in {queue.current, queue.insert, queue.pos} : i \in Int /\ i >= -1
    BY <2>1 DEF Queues, Places
  <2>3. /\ ui.mode \in Modes /\ ui.gen \in {"none", "synced", "behind"}
        /\ {ui.wanted, ui.armed} \subseteq Tracks \cup {NoTrack}
        /\ ui.failed \subseteq Tracks /\ ui.skips \in 0..5
    BY <2>1 DEF Screens, Paths
  <2> QED
    BY <2>1, <2>2, <2>3 DEF TypeOK, Engines, Paths
<1> QED
  BY <1>1, Invariance, PTL

(* However tracks are inserted, moved, removed, deleted and played, the      *)
(* shuffle bag and its continuation hold every slot exactly once             *)
(* (queue_shuffle_insert, queue_shuffle_remove, playback_order.h).           *)
THEOREM BagStaysPermutation == Spec => []BagIsPermutation
<1>1. Inv => BagIsPermutation
  BY DEF Inv, Good, Sound, world, Bag, Order, BagIsPermutation
<1> QED
  BY <1>1, Invariance, PTL

(* Skipping over failed tracks never starts one that failed since the last   *)
(* track that played, in any mode and across the reshuffles of the bag       *)
(* (advance_past_failed, failed_physical_paths).                             *)
THEOREM NoFailedTrackAgain == Spec => []NeverBackToAFailedTrack
<1>1. Inv => NeverBackToAFailedTrack
  BY DEF Inv, Good, Sound, world, Untried, NeverBackToAFailedTrack
<1> QED
  BY <1>1, Invariance, PTL

(* The track of a Play next is the one asked for as the successor, also when *)
(* the engine moved on just before, and whoever owns the output              *)
(* (gui_player_queue_play_next, compute_auto_advance_index).                 *)
THEOREM NextIsPlayedNext == Spec => PlayNextIsNext
<1>1. Inv /\ [Next]_vars =>
         [\A p \in Tracks :
             (Count(queue') > Count(queue) /\ HasActiveTrack(queue) /\ ui'.wanted # p)
                 => ~PlayNext(p)]_vars
  <2> SUFFICES ASSUME Inv, NEW p \in Tracks, PlayNext(p),
                      Count(queue') > Count(queue), HasActiveTrack(queue)
               PROVE  ui'.wanted = p
    OBVIOUS
  <2>1. PICK w \in AfterSettling(world, LAMBDA s : PlayNextTried(s, p)) :
           queue' = w.q /\ engine' = w.e /\ ui' = w.u
    BY DEF PlayNext, Leave
  <2>2. PICK s \in Settled(world) : w \in PlayNextTried(s, p)
    BY <2>1 DEF AfterSettling, Then
  <2>3. Good(s)
    BY <2>2, SettledGood DEF Inv
  <2>4. w.u.wanted = p \/ Count(w.q) = 1
    BY <2>2, <2>3, PlayNextTriedGood
  <2>5. GoodQueue(queue)
    BY SoundFacts DEF Inv, Good, world
  <2>6. Count(queue) \in Nat /\ Count(queue) > 0
    BY <2>5, CountFacts DEF HasActiveTrack, InQueue, GoodQueue, Queues, Places
  <2> QED
    BY <2>1, <2>4, <2>6
<1> QED
  BY <1>1, Invariance, PTL DEF Spec, PlayNextIsNext
------------------------------------------------------------------------------
(* Where no other device takes the output, every callback that changes what   *)
(* plays gets as far as arm_next_track_for_audio(), which finds the current   *)
(* track in the bag again and drops what the queue screen shows.  The others  *)
(* leave the queue as it is shown, or without a current track.                *)
Exact(w) ==
  /\ UsesShuffleBag(w.u.mode) => OnTrack(w.q)
  /\ w.u.shown # Stale /\ HasActiveTrack(w.q) =>
        /\ UsesShuffleBag(w.u.mode) => BagIsCurrent(w.q)
        /\ Displayed(w.q, w.u.mode) = w.u.shown

(* The steps that leave the queue as it is shown ...                         *)
LEMMA ViewKept ==
  ASSUME NEW w, Exact(w), NEW r, SameView(r.q, w.q, w.u.mode),
         r.u.mode = w.u.mode, r.u.shown \in {w.u.shown, Stale}
  PROVE  Exact(r)
<1>1. Count(r.q) = Count(w.q) /\ (HasActiveTrack(r.q) <=> HasActiveTrack(w.q))
  BY DEF SameView, Count, HasActiveTrack, InQueue
<1>2. UsesShuffleBag(w.u.mode) /\ BagIsCurrent(w.q) =>
         BagIsCurrent(r.q) /\ Displayed(r.q, w.u.mode) = Displayed(w.q, w.u.mode)
  BY <1>1 DEF SameView, BagIsCurrent, Displayed, DisplayOrder, DisplayCurrent
<1>3. ~UsesShuffleBag(w.u.mode) => Displayed(r.q, w.u.mode) = Displayed(w.q, w.u.mode)
  BY <1>1 DEF SameView, Displayed, DisplayOrder, DisplayCurrent
<1> QED
  BY <1>1, <1>2, <1>3 DEF Exact, SameView

LEMMA SameQueueExact ==
  ASSUME NEW w, Exact(w), NEW r, r.q = w.q, r.u.mode = w.u.mode, r.u.shown \in {w.u.shown, Stale}
  PROVE  Exact(r)
  BY DEF Exact

(* ... that leave no current track, or that go through                       *)
(* arm_next_track_for_audio().                                               *)
LEMMA InactiveExact ==
  ASSUME NEW w, ~HasActiveTrack(w.q)
  PROVE  Exact(w)
  BY DEF Exact, OnTrack

LEMMA ArmedExact ==
  ASSUME NEW w, Sound(w), NEW r \in arm_next_track_for_audio(w)
  PROVE  Exact(r)
<1>1. PICK p \in note_next_armed(w.q, w.u.mode) : r = Armed(w, p)
  BY DEF arm_next_track_for_audio
<1>2. w.u \in Screens /\ GoodQueue(w.q)
  BY SoundFacts
<1>3. r.q = p /\ r.u.mode = w.u.mode /\ r.u.shown = Stale
  BY <1>1, <1>2 DEF Armed, Screens
<1>4. UsesShuffleBag(w.u.mode) => OnTrack(p)
  BY <1>2, NotedView
<1> QED
  BY <1>3, <1>4 DEF Exact

LEMMA PlayedFromExact ==
  ASSUME ~ExternalDac, NEW w, Good(w), NEW i \in Int,
         InQueue(w.q, i) => PathAt(w.q, i) \notin w.u.failed,
         InQueue(w.q, i) \/ Exact(w), NEW r \in play_track_at_from_internal(w, i)
  PROVE  Exact(r)
<1>1. CASE ~InQueue(w.q, i)
  BY <1>1 DEF play_track_at_from_internal
<1>2. CASE InQueue(w.q, i)
  <2>1. r \in arm_next_track_for_audio(Started(w, i))
    BY <1>2 DEF play_track_at_from_internal
  <2> QED
    BY <1>2, <2>1, StartedFacts, ArmedExact DEF Good
<1> QED
  BY <1>1, <1>2

LEMMA ResetExact ==
  ASSUME NEW w, Good(w), Exact(w)
  PROVE  Exact(reset_decoder_failure_tracking(w))
<1> DEFINE r == reset_decoder_failure_tracking(w)
<1>1. r.q = w.q /\ r.u = [w.u EXCEPT !.failed = {}, !.skips = 0] /\ w.u \in Screens
  BY ResetFacts, SoundFacts DEF Good
<1>2. r.u.mode = w.u.mode /\ r.u.shown = w.u.shown
  BY <1>1 DEF Screens
<1> HIDE DEF r
<1>3. Exact(r)
  BY <1>1, <1>2, SameQueueExact
<1> QED
  BY <1>3 DEF r

LEMMA PlayedExact ==
  ASSUME ~ExternalDac, NEW w, Good(w), NEW i \in Int,
         InQueue(w.q, i) \/ Exact(w), NEW r \in play_track_at(w, i)
  PROVE  Exact(r)
<1> DEFINE s == reset_decoder_failure_tracking(w)
<1>1. Good(s) /\ s.q = w.q /\ s.u.failed = {} /\ (Exact(w) => Exact(s))
  BY ResetGood, ResetExact
<1>2. r \in play_track_at_from_internal(s, i)
  BY DEF play_track_at
<1> HIDE DEF s
<1> QED
  BY <1>1, <1>2, PlayedFromExact

(* The same for what the callbacks are made of, as for Good above.           *)
LEMMA MovedOnExact ==
  ASSUME NEW w, Good(w), w.u.failed = {}, NEW i \in Nat, NEW r \in on_track_auto_advanced(w, i)
  PROVE  Exact(r)
<1> DEFINE m == [w EXCEPT !.q = select_physical(@, i), !.u.gen = "synced"]
           q == select_physical(w.q, i)
           u == [w.u EXCEPT !.gen = "synced"]
<1>1. w \in Worlds /\ GoodQueue(w.q) /\ w.e \in Engines /\ w.u \in Screens /\ i \in Places
      /\ (w.e.error # "NONE" => w.e.active = NoTrack)
  BY SoundFacts DEF Good, Sound, Places
<1>2. m \in [q : {q}, e : {w.e}, u : {u}]
  BY <1>1 DEF Worlds
<1>3. GoodQueue(q)
  BY <1>1, AnotherCurrent DEF select_physical
<1>4. u \in Screens /\ u.failed = {}
  BY <1>1 DEF Screens
<1>5. r \in arm_next_track_for_audio(m)
  BY DEF on_track_auto_advanced
<1> HIDE DEF m, q, u
<1>6. Sound(m)
  BY <1>1, <1>2, <1>3, <1>4, Assembled DEF Untried
<1> QED
  BY <1>5, <1>6, ArmedExact

LEMMA ReadyExact ==
  ASSUME NEW w, Good(w), Exact(w), NEW s \in ReadyToAdvance(w.q, w.u.mode)
  PROVE  LET reset == reset_decoder_failure_tracking(w)
             rest == [reset EXCEPT !.q = s]
             moved == [reset EXCEPT !.q = commit_auto_advance(s, w.u.mode)]
             i == AutoAdvanceIndex(s, w.u.mode)
         IN  Exact(rest) /\ (i >= 0 => InQueue(moved.q, i) \/ Exact(moved))
<1> DEFINE reset == reset_decoder_failure_tracking(w)
           c == commit_auto_advance(s, w.u.mode)
           i == AutoAdvanceIndex(s, w.u.mode)
           rest == [reset EXCEPT !.q = s]
           moved == [reset EXCEPT !.q = c]
<1>1. Sound(reset) /\ reset.q = w.q /\ reset.u.mode = w.u.mode /\ Exact(reset)
  BY ResetGood, ResetExact DEF Good
<1>2. GoodQueue(w.q)
  BY SoundFacts DEF Good
<1>3. /\ GoodQueue(s) /\ SameTracks(s, w.q) /\ Count(s) = Count(w.q) /\ i \in Places
      /\ HasActiveTrack(w.q) => i < Count(w.q)
  BY <1>2, Readied
<1>4. /\ GoodQueue(c) /\ c.current = s.current /\ Count(c) = Count(s)
  BY <1>3, Committed
<1>5. SameView(s, w.q, w.u.mode)
  BY <1>2, ReadiedView
<1> HIDE DEF reset, c, i
<1>6. rest.q = s /\ rest.u = reset.u /\ moved.q = c
  BY <1>1, <1>3, <1>4, Requeued
<1> HIDE DEF rest, moved
<1>7. Exact(rest)
  BY <1>1, <1>5, <1>6, ViewKept
<1>8. CASE HasActiveTrack(w.q)
  <2>1. i >= 0 => InQueue(c, i)
    BY <1>3, <1>4, <1>8 DEF InQueue
  <2> QED
    BY <1>6, <1>7, <2>1 DEF rest, moved, reset, c, i
<1>9. CASE ~HasActiveTrack(w.q)
  <2>1. ~HasActiveTrack(c)
    BY <1>3, <1>4, <1>9 DEF HasActiveTrack, InQueue, SameTracks
  <2>2. Exact(moved)
    BY <1>6, <2>1, InactiveExact
  <2> QED
    BY <1>7, <2>2 DEF rest, moved, reset, c, i
<1> QED
  BY <1>8, <1>9

LEMMA AdvanceExact ==
  ASSUME NEW w, Good(w), Exact(w), NEW r \in handle_auto_advance(w)
  PROVE  Exact(r)
<1> DEFINE reset == reset_decoder_failure_tracking(w)
           Rest(s) == [reset EXCEPT !.q = s]
           Moved(s) == [reset EXCEPT !.q = commit_auto_advance(s, w.u.mode)]
           Index(s) == AutoAdvanceIndex(s, w.u.mode)
<1>1. CASE r = w
  BY <1>1
<1>2. CASE r # w
  <2>1. PICK s \in ReadyToAdvance(w.q, w.u.mode) :
           r \in IF Index(s) < 0 THEN {Rest(s)} ELSE on_track_auto_advanced(Moved(s), Index(s))
    BY <1>2 DEF handle_auto_advance, Advanced
  <2>2. Good(Moved(s)) /\ Moved(s).u.failed = {} /\ Index(s) \in Places /\ Exact(Rest(s))
    BY ReadyWorlds, ReadyExact
  <2> DEFINE moved == Moved(s)
             i == Index(s)
  <2>3. CASE i < 0
    BY <2>1, <2>2, <2>3
  <2>4. CASE ~(i < 0)
    <3>1. i \in Nat /\ r \in on_track_auto_advanced(moved, i)
      BY <2>1, <2>2, <2>4 DEF Places
    <3>2. Good(moved) /\ moved.u.failed = {}
      BY <2>2
    <3> HIDE DEF moved, i
    <3> QED
      BY <3>1, <3>2, MovedOnExact
  <2> QED
    BY <2>3, <2>4
<1> QED
  BY <1>1, <1>2

LEMMA FinishExact ==
  ASSUME ~ExternalDac, NEW w, Good(w), Exact(w), NEW r \in handle_track_finished(w)
  PROVE  Exact(r)
<1> DEFINE reset == reset_decoder_failure_tracking(w)
           Rest(s) == [reset EXCEPT !.q = s]
           Moved(s) == [reset EXCEPT !.q = commit_auto_advance(s, w.u.mode)]
           Index(s) == AutoAdvanceIndex(s, w.u.mode)
<1>1. CASE r = w
  BY <1>1
<1>2. CASE r # w
  <2>1. PICK s \in ReadyToAdvance(w.q, w.u.mode) :
           r \in IF Index(s) < 0 THEN {Rest(s)} ELSE play_track_at_from_internal(Moved(s), Index(s))
    BY <1>2 DEF handle_track_finished, Advanced
  <2>2. /\ Good(Moved(s)) /\ Moved(s).u.failed = {} /\ Index(s) \in Places /\ Exact(Rest(s))
        /\ Index(s) >= 0 => InQueue(Moved(s).q, Index(s)) \/ Exact(Moved(s))
    BY ReadyWorlds, ReadyExact
  <2> DEFINE moved == Moved(s)
             i == Index(s)
  <2>3. CASE i < 0
    BY <2>1, <2>2, <2>3
  <2>4. CASE ~(i < 0)
    <3>1. i \in Int /\ i >= 0 /\ r \in play_track_at_from_internal(moved, i)
      BY <2>1, <2>2, <2>4 DEF Places
    <3>2. Good(moved) /\ moved.u.failed = {} /\ (InQueue(moved.q, i) \/ Exact(moved))
      BY <2>2, <3>1
    <3> HIDE DEF moved, i
    <3> QED
      BY <3>1, <3>2, PlayedFromExact
  <2> QED
    BY <2>3, <2>4
<1> QED
  BY <1>1, <1>2

(*****************************************************************************)
(* Exact, callback by callback: each leaves the view alone or ends in        *)
(* arm_next_track_for_audio().                                               *)
(*****************************************************************************)
LEMMA SettledExact ==
  ASSUME NEW w, Good(w), Exact(w), NEW r \in Settled(w)
  PROVE  Exact(r)
<1> DEFINE s == [w EXCEPT !.e.advanced = FALSE]
<1>1. Good(s) /\ s.q = w.q /\ s.u = w.u
  BY AdvancedTaken
<1>2. r = w \/ r \in handle_auto_advance(s)
  BY DEF Settled
<1> HIDE DEF s
<1>3. Exact(s)
  BY <1>1, SameQueueExact
<1> QED
  BY <1>1, <1>2, <1>3, AdvanceExact

LEMMA FailedExact ==
  ASSUME ~ExternalDac, NEW w, Good(w), Exact(w), w.e.active = NoTrack, NEW r \in SkippedFailed(w)
  PROVE  Exact(r)
<1>1. CASE r = reset_decoder_failure_tracking(w)
  BY <1>1, ResetExact
<1>2. CASE r # reset_decoder_failure_tracking(w)
  <2>1. PICK failed : \E x \in advance_past_failed(w.q, w.u.mode, failed) : \E s :
               /\ Good(s) /\ s.q = x[1] /\ s.u.mode = w.u.mode /\ s.u.shown = w.u.shown
               /\ r \in IF x[2] < 0 THEN {reset_decoder_failure_tracking(s)}
                        ELSE play_track_at_from_internal(s, x[2])
               /\ x[2] \in Places
               /\ x[2] >= 0 => InQueue(s.q, x[2]) /\ PathAt(s.q, x[2]) \notin s.u.failed
    BY <1>2, SkippedTo
  <2>2. PICK x \in advance_past_failed(w.q, w.u.mode, failed) : \E s :
               /\ Good(s) /\ s.q = x[1] /\ s.u.mode = w.u.mode /\ s.u.shown = w.u.shown
               /\ r \in IF x[2] < 0 THEN {reset_decoder_failure_tracking(s)}
                        ELSE play_track_at_from_internal(s, x[2])
               /\ x[2] \in Places
               /\ x[2] >= 0 => InQueue(s.q, x[2]) /\ PathAt(s.q, x[2]) \notin s.u.failed
    BY <2>1
  <2>3. PICK s :
               /\ Good(s) /\ s.q = x[1] /\ s.u.mode = w.u.mode /\ s.u.shown = w.u.shown
               /\ r \in IF x[2] < 0 THEN {reset_decoder_failure_tracking(s)}
                        ELSE play_track_at_from_internal(s, x[2])
               /\ x[2] \in Places
               /\ x[2] >= 0 => InQueue(s.q, x[2]) /\ PathAt(s.q, x[2]) \notin s.u.failed
    BY <2>2
  <2>4. CASE x[2] < 0
    <3>1. SameView(x[1], w.q, w.u.mode)
      BY <2>4, SoundFacts, PastFailedView DEF Good
    <3>2. Exact(s)
      BY <2>3, <3>1, ViewKept
    <3> QED
      BY <2>3, <2>4, <3>2, ResetExact
  <2>5. CASE ~(x[2] < 0)
    <3>1. x[2] \in Int /\ InQueue(s.q, x[2]) /\ PathAt(s.q, x[2]) \notin s.u.failed
      BY <2>3, <2>5 DEF Places
    <3> QED
      BY <2>3, <2>5, <3>1, PlayedFromExact
  <2> QED
    BY <2>4, <2>5
<1> QED
  BY <1>1, <1>2

LEMMA FailureExact ==
  ASSUME ~ExternalDac, NEW w, Good(w), Exact(w), w.e.active = NoTrack, NEW error,
         NEW r \in handle_playback_error(w, error)
  PROVE  Exact(r)
<1>1. ASSUME NEW s, Good(s), Exact(s), s.e.active = NoTrack, NEW t \in FailureHandled(s, error)
      PROVE  Exact(t)
  BY <1>1, FailedExact DEF FailureHandled
<1> DEFINE taken == [w EXCEPT !.e.advanced = FALSE]
<1>2. \/ r = w
      \/ r \in FailureHandled(w, error)
      \/ \E s \in handle_auto_advance(taken) : r = s \/ r \in FailureHandled(s, error)
  BY DEF handle_playback_error
<1>3. Good(taken) /\ taken.e.active = w.e.active /\ taken.q = w.q /\ taken.u = w.u
  BY AdvancedTaken
<1> HIDE DEF taken
<1>4. Exact(taken)
  BY <1>3, SameQueueExact
<1>5. ASSUME NEW s \in handle_auto_advance(taken)
      PROVE  Good(s) /\ s.e.active = NoTrack /\ Exact(s)
  BY <1>3, <1>4, AdvanceHandled, AdvanceExact
<1> QED
  BY <1>1, <1>2, <1>5

LEMMA EventTakenExact ==
  ASSUME ~ExternalDac, NEW w, Good(w), Exact(w), NEW r \in EventTaken(w)
  PROVE  Exact(r)
<1>1. w \in Worlds /\ w.e \in Engines /\ (w.e.error # "NONE" => w.e.active = NoTrack)
  BY DEF Good, Sound, Worlds
<1>2. CASE w.e.error # "NONE"
  <2> DEFINE s == [w EXCEPT !.e.error = "NONE"]
             e == [w.e EXCEPT !.error = "NONE"]
  <2>1. e \in Engines /\ e.active = w.e.active /\ e.error = "NONE"
    BY <1>1 DEF Engines
  <2>2. s \in [q : {w.q}, e : {e}, u : {w.u}] /\ s.q = w.q /\ s.e = e /\ s.u = w.u
    BY <1>1 DEF Worlds
  <2>3. r \in handle_playback_error(s, w.e.error)
    BY <1>2 DEF EventTaken
  <2> HIDE DEF s, e
  <2>4. Good(s) /\ Exact(s)
    BY <2>1, <2>2, EventGood, SameQueueExact
  <2> QED
    BY <1>1, <1>2, <2>1, <2>2, <2>3, <2>4, FailureExact
<1>3. CASE w.e.error = "NONE" /\ w.e.advanced
  BY <1>3, SettledExact DEF EventTaken
<1>4. CASE w.e.error = "NONE" /\ ~w.e.advanced /\ w.e.finished
  <2> DEFINE s == [w EXCEPT !.e.finished = FALSE]
             e == [w.e EXCEPT !.finished = FALSE]
  <2>1. e \in Engines /\ e.active = w.e.active /\ e.error = w.e.error
    BY <1>1 DEF Engines
  <2>2. s \in [q : {w.q}, e : {e}, u : {w.u}] /\ s.q = w.q /\ s.u = w.u
    BY <1>1 DEF Worlds
  <2>3. r \in handle_track_finished(s)
    BY <1>4 DEF EventTaken
  <2> HIDE DEF s, e
  <2>4. Good(s) /\ Exact(s)
    BY <2>1, <2>2, EventGood, SameQueueExact
  <2> QED
    BY <2>3, <2>4, FinishExact
<1>5. CASE w.e.error = "NONE" /\ ~w.e.advanced /\ ~w.e.finished
  BY <1>5 DEF EventTaken
<1> QED
  BY <1>2, <1>3, <1>4, <1>5

LEMMA MetadataExact ==
  ASSUME NEW w, Good(w), Exact(w), NEW r \in MaybeMetadataTaken(w)
  PROVE  Exact(r)
<1> DEFINE given == [w EXCEPT !.u.armed = w.u.wanted, !.e.next = w.u.wanted]
<1>1. w \in Worlds /\ w.u \in Screens
  BY DEF Good, Sound, Worlds
<1>2. r = w \/ r = given
  BY DEF MaybeMetadataTaken, MetadataTaken
<1>3. given.q = w.q /\ given.u = [w.u EXCEPT !.armed = w.u.wanted]
  BY <1>1 DEF Worlds
<1> HIDE DEF given
<1>4. given.u.mode = w.u.mode /\ given.u.shown = w.u.shown
  BY <1>1, <1>3 DEF Screens
<1> QED
  BY <1>2, <1>3, <1>4, SameQueueExact

LEMMA PredictedExact ==
  ASSUME NEW w, Good(w), Exact(w), NEW r \in WaveformPredicted(w)
  PROVE  Exact(r)
<1>1. CASE r = w
  BY <1>1
<1>2. CASE r # w
  <2>1. PICK q \in ReadyToAdvance(w.q, w.u.mode) : r = [w EXCEPT !.q = q]
    BY <1>2 DEF WaveformPredicted
  <2>2. GoodQueue(q) /\ SameView(q, w.q, w.u.mode)
    BY SoundFacts, Readied, ReadiedView DEF Good
  <2>3. r.q = q /\ r.u = w.u
    BY <2>1, <2>2, Requeued DEF Good
  <2> QED
    BY <2>2, <2>3, ViewKept
<1> QED
  BY <1>1, <1>2

LEMMA PolledExact ==
  ASSUME ~ExternalDac, NEW w, Good(w), Exact(w), NEW r \in Polled(w)
  PROVE  Exact(r)
<1>1. PICK a \in EventTaken(w) : \E b \in MaybeMetadataTaken(a) : \E c \in PlaybackConfirmed(b) :
         r \in WaveformPredicted(c)
  BY DEF Polled, Then
<1>2. Good(a) /\ Exact(a)
  BY EventTakenGood, EventTakenExact
<1>3. PICK b \in MaybeMetadataTaken(a) : \E c \in PlaybackConfirmed(b) : r \in WaveformPredicted(c)
  BY <1>1
<1>4. Good(b) /\ Exact(b)
  BY <1>2, MetadataGood, MetadataExact
<1>5. PICK c \in PlaybackConfirmed(b) : r \in WaveformPredicted(c)
  BY <1>3
<1>6. Good(c) /\ Exact(c)
  BY <1>4, ConfirmedGood, ResetExact DEF PlaybackConfirmed
<1> QED
  BY <1>5, <1>6, PredictedExact

LEMMA EditExact ==
  ASSUME NEW w, Good(w), NEW q, GoodQueue(q), NEW r \in arm_next_track_for_audio([w EXCEPT !.q = q])
  PROVE  Exact(r)
<1> DEFINE s == [w EXCEPT !.q = q]
<1>1. Sound(s)
  BY Requeued DEF Good
<1> HIDE DEF s
<1>2. r \in arm_next_track_for_audio(s)
  BY DEF s
<1> QED
  BY <1>1, <1>2, ArmedExact

LEMMA QueueTriedExact ==
  ASSUME NEW w, Good(w), NEW new \in Seq(Tracks), new # <<>>, NEW r \in QueueTried(w, new)
  PROVE  Exact(r)
<1>1. CASE ~HasActiveTrack(w.q)
  <2> DEFINE pending == Len(new) - 1
             q == install(new, 0, pending, NoOrder)
             u == [w.u EXCEPT !.failed = {}, !.skips = 0, !.gen = "none", !.wanted = NoTrack,
                              !.shown = Stale]
  <2>1. r = [free_playlist(w) EXCEPT !.q = q]
    BY <1>1 DEF QueueTried, ReadyQueue
  <2>2. w \in Worlds /\ w.u \in Screens
    BY DEF Good, Sound, Worlds
  <2>3. r.q = q /\ r.u.shown = Stale
    BY <2>1, <2>2 DEF free_playlist, reset_decoder_failure_tracking, Worlds, Screens
  <2>4. q.order = NoOrder
    BY EmptyQueueFacts DEF install, EmptyQueue
  <2> HIDE DEF q
  <2> QED
    BY <2>3, <2>4 DEF Exact, OnTrack, BagIsCurrent
<1>2. CASE HasActiveTrack(w.q)
  <2>1. GoodQueue(try_add_many(w.q, new))
    BY <1>2, SoundFacts, Added DEF Good
  <2>2. r \in arm_next_track_for_audio([w EXCEPT !.q = try_add_many(w.q, new)])
    BY <1>2 DEF QueueTried
  <2> QED
    BY <2>1, <2>2, EditExact
<1> QED
  BY <1>1, <1>2

LEMMA PlayNextTriedExact ==
  ASSUME NEW w, Good(w), NEW path \in Tracks, NEW r \in PlayNextTried(w, path)
  PROVE  Exact(r)
<1>1. CASE ~HasActiveTrack(w.q)
  <2>1. <<path>> \in Seq(Tracks) /\ <<path>> # <<>>
    OBVIOUS
  <2>2. r \in QueueTried(w, <<path>>)
    BY <1>1 DEF PlayNextTried
  <2> QED
    BY <2>1, <2>2, QueueTriedExact
<1>2. CASE HasActiveTrack(w.q)
  <2>1. GoodQueue(play_next(w.q, path))
    BY <1>2, SoundFacts, PlayedNext DEF Good
  <2>2. r \in arm_next_track_for_audio([w EXCEPT !.q = play_next(w.q, path)])
    BY <1>2 DEF PlayNextTried
  <2> QED
    BY <2>1, <2>2, EditExact
<1> QED
  BY <1>1, <1>2

LEMMA PreparedView ==
  ASSUME NEW q, GoodQueue(q), NEW mode, NEW r \in Prepared(q, mode)
  PROVE  SameView(r, q, mode)
  BY PreparedFacts, EnsuredView DEF Prepared, SameView, SameTracks

LEMMA EditTriedExact ==
  ASSUME NEW w, Good(w), Exact(w), NEW from \in Int, NEW to \in Int, NEW r \in EditTried(w, from, to)
  PROVE  Exact(r)
<1>1. CASE w.u.shown = Stale
  BY <1>1 DEF EditTried
<1>2. CASE w.u.shown # Stale
  <2>1. PICK q \in Prepared(w.q, w.u.mode) :
           r \in IF EditValid(q, w.u.mode, from, to)
                 THEN arm_next_track_for_audio([w EXCEPT !.q = Edited(q, w.u.mode, from, to)])
                 ELSE {[w EXCEPT !.q = q]}
    BY <1>2 DEF EditTried
  <2>2. /\ GoodQueue(q) /\ SameView(q, w.q, w.u.mode)
        /\ UsesShuffleBag(w.u.mode) => Len(q.order) = Count(q)
    BY PreparedWorld, PreparedView, SoundFacts DEF Good
  <2>3. CASE ~EditValid(q, w.u.mode, from, to)
    <3>1. r = [w EXCEPT !.q = q]
      BY <2>1, <2>3
    <3>2. r.q = q /\ r.u = w.u
      BY <2>2, <3>1, Requeued DEF Good
    <3> QED
      BY <2>2, <3>2, ViewKept
  <2>4. CASE EditValid(q, w.u.mode, from, to)
    <3>1. GoodQueue(Edited(q, w.u.mode, from, to))
      BY <2>2, <2>4, EditedFacts
    <3> QED
      BY <2>1, <2>4, <3>1, EditExact
  <2> QED
    BY <2>3, <2>4
<1> QED
  BY <1>1, <1>2

LEMMA SelectTriedExact ==
  ASSUME ~ExternalDac, NEW w, Good(w), Exact(w), NEW i \in Int, NEW r \in SelectTried(w, i)
  PROVE  Exact(r)
<1>1. CASE w.u.shown = Stale \/ ~InQueue(w.q, i)
  BY <1>1 DEF SelectTried
<1>2. CASE ~(w.u.shown = Stale \/ ~InQueue(w.q, i))
  <2>1. PICK q \in Prepared(w.q, w.u.mode) :
           r \in play_track_at([w EXCEPT !.q = Selected(q, w.u.mode, i)], i)
    BY <1>2 DEF SelectTried
  <2>2. /\ GoodQueue(q) /\ SameTracks(q, w.q) /\ Count(q) = Count(w.q) /\ Count(q) \in Nat
        /\ UsesShuffleBag(w.u.mode) => Len(q.order) = Count(q)
        /\ ~UsesShuffleBag(w.u.mode) => q = w.q
        /\ UsesShuffleBag(w.u.mode) \/ w.q.current < 0 => Covers(q)
    BY PreparedWorld
  <2> DEFINE s == Selected(q, w.u.mode, i)
             v == [w EXCEPT !.q = s]
  <2>3. i \in Nat /\ Count(q) > 0
    BY <1>2, <2>2 DEF InQueue
  <2>4. /\ GoodQueue(s) /\ s.current = DisplayCurrent(q, w.u.mode) /\ (Covers(q) => Covers(s))
        /\ Count(s) = Count(q)
    BY <2>2, <2>3, SelectedFacts
  <2> HIDE DEF s
  <2>5. Covers(s) \/ (~UsesShuffleBag(w.u.mode) /\ s.current >= 0)
    BY <2>2, <2>4 DEF DisplayCurrent, GoodQueue, Queues, Places
  <2>6. Good(v) /\ v.q = s
    BY <2>4, <2>5, RequeuedGood
  <2>7. InQueue(v.q, i)
    BY <1>2, <2>2, <2>4, <2>6 DEF InQueue
  <2>8. r \in play_track_at(v, i)
    BY <2>1 DEF s
  <2> HIDE DEF v
  <2> QED
    BY <2>6, <2>7, <2>8, PlayedExact
<1> QED
  BY <1>1, <1>2

LEMMA ClearTriedExact ==
  ASSUME NEW w, Good(w), Exact(w), NEW r \in ClearTried(w)
  PROVE  Exact(r)
<1>1. CASE ~HasActiveTrack(w.q)
  BY <1>1 DEF ClearTried
<1>2. CASE HasActiveTrack(w.q)
  <2>1. PICK q \in clear_to_current(w.q, w.u.mode) : r \in arm_next_track_for_audio([w EXCEPT !.q = q])
    BY <1>2 DEF ClearTried
  <2>2. GoodQueue(q)
    BY <1>2, <2>1, SoundFacts, Cleared DEF Good
  <2> QED
    BY <2>1, <2>2, EditExact
<1> QED
  BY <1>1, <1>2

LEMMA ModeSetExact ==
  ASSUME NEW w, Good(w), NEW mode \in Modes, NEW r \in set_play_mode(w, mode)
  PROVE  Exact(r) /\ r.q.paths = w.q.paths
<1> DEFINE m == [w EXCEPT !.u.mode = mode]
           u == [w.u EXCEPT !.mode = mode]
<1>1. w \in Worlds /\ GoodQueue(w.q) /\ w.e \in Engines /\ w.u \in Screens
      /\ (w.e.error # "NONE" => w.e.active = NoTrack) /\ Untried(w.e, w.u)
  BY SoundFacts DEF Good, Sound
<1>2. m \in [q : {w.q}, e : {w.e}, u : {u}] /\ m.q = w.q
  BY <1>1 DEF Worlds
<1>3. u \in Screens /\ Untried(w.e, u)
  BY <1>1 DEF Screens, Untried
<1>4. r \in IF w.q.current >= 0 THEN arm_next_track_for_audio(m) ELSE {m}
  BY DEF set_play_mode
<1> HIDE DEF m, u
<1>5. Sound(m)
  BY <1>1, <1>2, <1>3, Assembled
<1>6. CASE w.q.current >= 0
  <2>1. r \in arm_next_track_for_audio(m)
    BY <1>4, <1>6
  <2>2. Exact(r) /\ r.q.paths = m.q.paths
    BY <1>5, <2>1, ArmedExact, ArmedFacts
  <2> QED
    BY <1>2, <2>2
<1>7. CASE ~(w.q.current >= 0)
  <2>1. r = m
    BY <1>4, <1>7
  <2>2. ~HasActiveTrack(m.q)
    BY <1>2, <1>7 DEF HasActiveTrack, InQueue
  <2> QED
    BY <1>2, <2>1, <2>2, InactiveExact
<1> QED
  BY <1>6, <1>7

LEMMA RestartExact ==
  ASSUME ~ExternalDac, NEW w, Good(w), NEW i \in Int, InQueue(w.q, i), NEW mode \in Modes,
         NEW r \in Restart(w, i, mode)
  PROVE  Exact(r)
<1>1. PICK q \in Prepared(w.q, w.u.mode) :
         \E m \in set_play_mode([w EXCEPT !.q = RestartedDisplayed(q, w.u.mode, i)], mode) :
            r \in play_track_at(m, i)
  BY DEF Restart
<1> DEFINE s == RestartedDisplayed(q, w.u.mode, i)
           v == [w EXCEPT !.q = s]
<1>2. i \in Nat
  BY DEF InQueue
<1>3. GoodQueue(s) /\ Covers(s)
  BY <1>2, PreparedWorld, Restarted
<1> HIDE DEF s
<1>4. Good(v) /\ v.q = s
  BY <1>3, RequeuedGood
<1>5. PICK m \in set_play_mode(v, mode) : r \in play_track_at(m, i)
  BY <1>1 DEF s
<1> HIDE DEF v
<1>6. Good(m) /\ Exact(m)
  BY <1>4, <1>5, ModeSet, ModeSetExact
<1> QED
  BY <1>5, <1>6, PlayedExact

LEMMA StepTriedExact ==
  ASSUME ~ExternalDac, NEW w, Good(w), Exact(w), NEW direction \in {-1, 1},
         NEW r \in StepTried(w, direction)
  PROVE  Exact(r)
<1> DEFINE reset == reset_decoder_failure_tracking(w)
           After(x) == [reset EXCEPT !.q = x[1]]
<1>1. Good(reset) /\ reset.q = w.q /\ reset.u.mode = w.u.mode /\ Exact(reset)
  BY ResetGood, ResetExact
<1>2. \/ r = reset
      \/ \E x \in manual_step(w.q, w.u.mode, direction) :
            r \in IF x[2] < 0 THEN {After(x)} ELSE play_track_at(After(x), x[2])
  BY DEF StepTried
<1>3. ASSUME NEW x \in manual_step(w.q, w.u.mode, direction),
             r \in IF x[2] < 0 THEN {After(x)} ELSE play_track_at(After(x), x[2])
      PROVE  Exact(r)
  <2>1. /\ GoodQueue(x[1]) /\ x[2] \in Places
        /\ x[1].paths = w.q.paths /\ x[1].current = w.q.current
        /\ x[1].order = w.q.order \/ Len(x[1].order) = Count(w.q)
    BY SoundFacts, Stepped DEF Good
  <2>2. Covers(w.q) => Covers(x[1])
    BY <2>1, SoundFacts, CoversKept DEF Good
  <2>3. IF x[2] < 0 THEN SameView(x[1], w.q, w.u.mode) ELSE InQueue(x[1], x[2])
    BY SoundFacts, SteppedView DEF Good
  <2> DEFINE s == After(x)
  <2>4. r \in IF x[2] < 0 THEN {s} ELSE play_track_at(s, x[2])
    BY <1>3
  <2> HIDE DEF reset
  <2>5. Good(s) /\ s.q = x[1] /\ s.u = reset.u
    BY <1>1, <2>1, <2>2, RequeuedGood
  <2> HIDE DEF s
  <2>6. CASE x[2] < 0
    <3>1. r = s
      BY <2>4, <2>6
    <3> QED
      BY <1>1, <2>3, <2>5, <2>6, <3>1, ViewKept
  <2>7. CASE ~(x[2] < 0)
    <3>1. x[2] \in Int /\ InQueue(s.q, x[2]) /\ r \in play_track_at(s, x[2])
      BY <2>1, <2>3, <2>4, <2>5, <2>7 DEF Places
    <3> QED
      BY <2>5, <3>1, PlayedExact
  <2> QED
    BY <2>6, <2>7
<1> HIDE DEF reset
<1> QED
  BY <1>1, <1>2, <1>3

LEMMA PlayToggledExact ==
  ASSUME ~ExternalDac, NEW w, Good(w), Exact(w), NEW r \in PlayToggled(w)
  PROVE  Exact(r)
<1>1. w.q.current \in Int
  BY SoundFacts DEF Good, GoodQueue, Queues, Places
<1> QED
  BY <1>1, ResetExact, PlayedExact DEF PlayToggled

LEMMA OptionExact ==
  ASSUME NEW w, Good(w), NEW r \in OptionChanged(w)
  PROVE  Exact(r)
<1> DEFINE s == [w EXCEPT !.u.armed = NoTrack]
           u == [w.u EXCEPT !.armed = NoTrack]
<1>1. w \in Worlds /\ GoodQueue(w.q) /\ w.e \in Engines /\ w.u \in Screens
      /\ Untried(w.e, w.u) /\ (w.e.error # "NONE" => w.e.active = NoTrack)
  BY SoundFacts DEF Good, Sound
<1>2. s \in [q : {w.q}, e : {w.e}, u : {u}]
  BY <1>1 DEF Worlds
<1>3. u \in Screens /\ u.gen = w.u.gen /\ u.failed = w.u.failed
  BY <1>1 DEF Screens, Paths
<1>4. r \in arm_next_track_for_audio(s) \/ r \in arm_next_track_for_audio(w)
  BY DEF OptionChanged
<1> HIDE DEF s, u
<1>5. Sound(s) /\ Sound(w)
  BY <1>1, <1>2, <1>3, Assembled DEF Untried, Good
<1> QED
  BY <1>4, <1>5, ArmedExact

(* A new list is started at once, so its bag is aligned before the callback  *)
(* ends.                                                                     *)
LEMMA InstalledExact ==
  ASSUME NEW w, Good(w), NEW list \in Seq(Tracks), NEW order \in Seq(Nat), Order(order),
         order = NoOrder \/ Len(order) = Len(list)
  PROVE  Exact([w EXCEPT !.q = install(list, -1, 0, order)])
<1> DEFINE q == install(list, -1, 0, order)
           s == [w EXCEPT !.q = q]
<1>1. -1 \in Places
  BY DEF Places
<1>2. GoodQueue(q) /\ q.current = -1
  BY <1>1, Installed
<1> HIDE DEF q
<1>3. s.q = q
  BY <1>2, Requeued DEF Good
<1> HIDE DEF s
<1>4. Exact(s)
  BY <1>2, <1>3, InactiveExact DEF HasActiveTrack, InQueue
<1> QED
  BY <1>4 DEF q, s

LEMMA FileSelectedExact ==
  ASSUME ~ExternalDac, NEW w, Good(w), NEW list \in Seq(Tracks), NEW i \in Int,
         NEW r \in FileSelected(w, list, i)
  PROVE  Exact(r)
<1> DEFINE f == free_playlist(w)
           s == [f EXCEPT !.q = install(list, -1, 0, NoOrder)]
<1>1. Good(s) /\ Exact(s)
  BY FreedGood, InstalledWorld, InstalledExact, NoOrderFacts
<1>2. r \in play_track_at(s, i)
  BY DEF FileSelected
<1> HIDE DEF s
<1> QED
  BY <1>1, <1>2, PlayedExact

LEMMA CollectionExact ==
  ASSUME ~ExternalDac, NEW w, Good(w), NEW list \in Seq(Tracks), list # <<>>, NEW mode \in Modes,
         NEW r \in CollectionPlayed(w, list, mode)
  PROVE  Exact(r)
<1>1. PICK order \in (IF UsesShuffleBag(mode) THEN Orders(Len(list)) ELSE {NoOrder}),
           m \in set_play_mode(free_playlist(w), mode) :
         r \in play_track_at([m EXCEPT !.q = install(list, -1, 0, order)],
                             IF order = NoOrder THEN 0 ELSE order[1])
  BY DEF CollectionPlayed
<1>2. /\ order \in Seq(Nat) /\ Order(order)
      /\ order = NoOrder \/ Len(order) = Len(list)
  <2>1. Len(list) \in Nat
    OBVIOUS
  <2>2. CASE order \in Orders(Len(list))
    BY <2>1, <2>2, OrdersFacts
  <2>3. CASE order = NoOrder
    BY <2>3, NoOrderFacts
  <2> QED
    BY <1>1, <2>2, <2>3
<1>3. Good(m)
  BY FreedGood, ModeSet
<1> DEFINE s == [m EXCEPT !.q = install(list, -1, 0, order)]
           i == IF order = NoOrder THEN 0 ELSE order[1]
<1>4. i \in Int
  <2>1. CASE order = NoOrder
    BY <2>1
  <2>2. CASE order # NoOrder
    BY <1>2, <2>2
  <2> QED
    BY <2>1, <2>2
<1>5. Good(s) /\ Exact(s)
  BY <1>2, <1>3, InstalledWorld, InstalledExact
<1>6. r \in play_track_at(s, i)
  BY <1>1
<1> HIDE DEF s, i
<1> QED
  BY <1>4, <1>5, <1>6, PlayedExact

LEMMA CollectionPathsExact ==
  ASSUME ~ExternalDac, NEW w, Good(w), NEW list \in Seq(Tracks), NEW mode \in Modes,
         NEW r \in CollectionPathsPlayed(w, list, mode)
  PROVE  Exact(r)
<1>1. PICK i \in (IF UsesShuffleBag(mode) THEN 0..(Len(list) - 1) ELSE {0}),
           m \in set_play_mode(free_playlist(w), mode) :
         r \in play_track_at([m EXCEPT !.q = install(list, -1, 0, NoOrder)], i)
  BY DEF CollectionPathsPlayed
<1>2. i \in Int
  BY <1>1
<1>3. Good(m)
  BY FreedGood, ModeSet
<1> DEFINE s == [m EXCEPT !.q = install(list, -1, 0, NoOrder)]
<1>4. Good(s) /\ Exact(s)
  BY <1>3, InstalledWorld, InstalledExact, NoOrderFacts
<1>5. r \in play_track_at(s, i)
  BY <1>1
<1> HIDE DEF s
<1> QED
  BY <1>2, <1>4, <1>5, PlayedExact

LEMMA StoppedExact ==
  ASSUME NEW w, Good(w), Exact(w), NEW r \in audio_stop(w)
  PROVE  Exact(r)
<1> DEFINE s == [w EXCEPT !.e.active = NoTrack]
           gen == IF w.u.gen = "none" THEN w.u.gen ELSE "behind"
           u == [w.u EXCEPT !.gen = gen, !.armed = NoTrack, !.wanted = NoTrack]
<1>1. w \in Worlds /\ w.u \in Screens
  BY DEF Good, Sound, Worlds
<1>2. s.q = w.q /\ s.u = w.u /\ s \in [q : {w.q}, e : {s.e}, u : {w.u}]
  BY <1>1 DEF Worlds
<1>3. u.mode = w.u.mode /\ u.shown = w.u.shown
  BY <1>1 DEF Screens
<1>4. r = s \/ r = [s EXCEPT !.u.gen = IF @ = "none" THEN @ ELSE "behind",
                             !.u.armed = NoTrack, !.u.wanted = NoTrack]
  BY DEF audio_stop
<1> HIDE DEF s
<1>5. r.q = w.q /\ r.u \in {w.u, u}
  BY <1>2, <1>4
<1> HIDE DEF u
<1> QED
  BY <1>3, <1>5, SameQueueExact

LEMMA DeletedExact ==
  ASSUME ~ExternalDac, NEW w, Good(w), HasActiveTrack(w.q), NEW r \in CurrentDeleted(w)
  PROVE  Exact(r)
<1> DEFINE q == delete_current(w.q)
           u == [w.u EXCEPT !.wanted = NoTrack]
           d == [w EXCEPT !.q = delete_current(@), !.u.wanted = NoTrack]
<1>1. w \in Worlds /\ GoodQueue(w.q) /\ w.e \in Engines /\ w.u \in Screens /\ Covered(w)
      /\ Untried(w.e, w.u) /\ (w.e.error # "NONE" => w.e.active = NoTrack)
  BY SoundFacts DEF Good, Sound
<1>2. d.q = q /\ d.e = w.e /\ d.u = u /\ d \in [q : {q}, e : {w.e}, u : {u}]
  BY <1>1 DEF Worlds
<1>3. u \in Screens /\ u.gen = w.u.gen /\ u.failed = w.u.failed /\ u.mode = w.u.mode
  BY <1>1 DEF Screens, Paths
<1>4. /\ GoodQueue(q) /\ q.current = w.q.current /\ q.current \in Nat
      /\ Covers(w.q) => Covers(q)
      /\ AfterDelete(q) \in Places
      /\ AfterDelete(q) < 0 <=> Count(q) = 0
  BY <1>1, Deleted
<1>5. r \in IF AfterDelete(d.q) < 0
            THEN audio_stop([d EXCEPT !.q = finish_empty_delete(@)])
            ELSE play_track_at(d, AfterDelete(d.q))
  BY DEF CurrentDeleted
<1> HIDE DEF q, u, d
<1>6. Sound(d)
  BY <1>1, <1>2, <1>3, <1>4, Assembled DEF Untried
<1>7. Good(d)
  BY <1>1, <1>2, <1>3, <1>4, <1>6 DEF Good, Covered
<1>8. CASE AfterDelete(q) < 0
  <2> DEFINE p == [q EXCEPT !.current = -1]
             s == [d EXCEPT !.q = p]
  <2>1. -1 \in Places
    BY DEF Places
  <2>2. GoodQueue(p) /\ Count(p) = Count(q) /\ p.order = q.order /\ p.current = -1
    BY <1>4, <2>1, AnotherCurrent
  <2> HIDE DEF p
  <2>3. Covers(p)
    BY <1>4, <1>8, <2>2, BagSlots DEF Covers
  <2>4. Good(s) /\ s.q = p
    BY <1>7, <2>2, <2>3, RequeuedGood
  <2>5. s = [d EXCEPT !.q = finish_empty_delete(@)]
    BY <1>2 DEF finish_empty_delete, p
  <2>6. r \in audio_stop(s)
    BY <1>2, <1>5, <1>8, <2>5
  <2> HIDE DEF s
  <2>7. Exact(s)
    BY <2>2, <2>4, InactiveExact DEF HasActiveTrack, InQueue
  <2> QED
    BY <2>4, <2>6, <2>7, StoppedExact
<1>9. CASE ~(AfterDelete(q) < 0)
  <2> DEFINE i == AfterDelete(q)
  <2>1. i \in Int /\ i >= 0 /\ Count(q) \in Nat /\ Count(q) # 0
    BY <1>4, <1>9, CountFacts DEF Places
  <2>2. i <= Count(q) - 1
    <3>1. i = Lesser(q.current, Count(q) - 1)
      BY <2>1 DEF AfterDelete
    <3>2. q.current \in Int /\ Count(q) - 1 \in Int
      BY <1>4, <2>1
    <3> HIDE DEF i
    <3> QED
      BY <3>1, <3>2, LesserFacts
  <2>3. InQueue(d.q, i)
    BY <1>2, <2>1, <2>2 DEF InQueue
  <2>4. r \in play_track_at(d, i)
    BY <1>2, <1>5, <1>9
  <2> HIDE DEF i
  <2> QED
    BY <1>7, <2>1, <2>3, <2>4, PlayedExact
<1> QED
  BY <1>8, <1>9

LEMMA SnapshotExact ==
  ASSUME NEW w, Good(w), Exact(w), NEW r \in SnapshotTaken(w)
  PROVE  Exact(r)
<1>1. PICK q \in Prepared(w.q, w.u.mode) :
         r = [w EXCEPT !.q = q, !.u.shown = Displayed(q, w.u.mode)]
  BY DEF SnapshotTaken
<1> DEFINE shown == Displayed(q, w.u.mode)
<1>2. w \in Worlds /\ w.u \in Screens /\ GoodQueue(w.q)
  BY SoundFacts DEF Good, Sound
<1>3. /\ GoodQueue(q) /\ SameView(q, w.q, w.u.mode)
      /\ UsesShuffleBag(w.u.mode) => Len(q.order) = Count(q)
  BY <1>2, PreparedWorld, PreparedView
<1>4. r.q = q /\ r.u = [w.u EXCEPT !.shown = shown]
  BY <1>1, <1>2 DEF Worlds
<1> HIDE DEF shown
<1>5. r.u.mode = w.u.mode /\ r.u.shown = shown
  BY <1>2, <1>4 DEF Screens
<1>6. UsesShuffleBag(w.u.mode) => OnTrack(q)
  BY <1>3 DEF Exact, SameView
<1>7. UsesShuffleBag(w.u.mode) /\ HasActiveTrack(q) => BagIsCurrent(q)
  <2>1. HasActiveTrack(q) => Count(q) # 0
    BY <1>3, CountFacts DEF HasActiveTrack, InQueue, GoodQueue, Queues, Places
  <2> QED
    BY <1>3, <2>1, NoOrderFacts DEF BagIsCurrent
<1> QED
  BY <1>4, <1>5, <1>6, <1>7 DEF Exact, shown

LEMMA ExactlyLeft ==
  ASSUME NEW w, Good(w), Exact(w), queue' = w.q, engine' = w.e, ui' = w.u
  PROVE  Exact(world)'
<1>1. w \in Worlds
  BY DEF Good, Sound
<1>2. w = [q |-> queue', e |-> engine', u |-> ui']
  BY <1>1 DEF Worlds
<1> QED
  BY <1>2 DEF world

LEMMA InitiallyExact == Init => Exact(world)
<1> SUFFICES ASSUME Init
             PROVE  Exact(world)
  OBVIOUS
<1>1. PICK mode \in PlayModes : /\ queue \in {EmptyQueue} \cup Restored(mode)
                                /\ ui = FreshScreen(mode)
  BY DEF Init
<1>2. world.q = queue /\ world.u.mode = mode /\ world.u.shown = Stale
  BY <1>1 DEF world, FreshScreen
<1>3. UsesShuffleBag(mode) => OnTrack(queue)
  <2>1. CASE queue = EmptyQueue
    BY <2>1, EmptyQueueFacts DEF OnTrack, BagIsCurrent
  <2>2. CASE queue \in Restored(mode)
    <3>1. CheckpointReadable(queue, mode) /\ queue.pos \in -1..MaxQueue
      BY <2>2 DEF Restored
    <3>2. UsesShuffleBag(mode) =>
             /\ queue.pos >= 0 /\ queue.pos < Count(queue)
             /\ queue.order[queue.pos + 1] = queue.current
      BY <3>1 DEF CheckpointReadable, CheckpointWritable, CheckpointValid
    <3>3. Count(queue) \in Nat
      BY <1>1, Initially, SoundFacts, CountFacts DEF Inv, Good, world
    <3> QED
      BY <3>1, <3>2, <3>3, MaxQueueAssumption DEF OnTrack
  <2> QED
    BY <1>1, <2>1, <2>2
<1> QED
  BY <1>2, <1>3 DEF Exact

LEMMA EngineExact ==
  ASSUME Inv, Exact(world), Engine
  PROVE  Exact(world)'
<1>1. ui \in Screens
  BY SoundFacts DEF Inv, Good, world
<1>2. queue' = queue
  BY DEF Engine, Promote, EndOfTrack, Fail
<1>3. ui'.mode = ui.mode /\ ui'.shown = ui.shown
  <2>1. CASE Promote
    <3> DEFINE gen == IF ui.gen = "none" THEN ui.gen ELSE "behind"
    <3>1. ui' = [ui EXCEPT !.gen = gen, !.armed = NoTrack, !.wanted = NoTrack]
      BY <1>1, <2>1 DEF Promote, Screens
    <3> HIDE DEF gen
    <3> QED
      BY <1>1, <3>1 DEF Screens
  <2>2. CASE EndOfTrack \/ Fail
    BY <2>2 DEF EndOfTrack, Fail
  <2> QED
    BY <2>1, <2>2 DEF Engine
<1>4. world' = [q |-> queue', e |-> engine', u |-> ui'] /\ world.q = queue /\ world.u = ui
  BY DEF world
<1> DEFINE r == [q |-> queue', e |-> engine', u |-> ui']
<1>5. Exact(r)
  <2>1. r.q = world.q /\ r.u.mode = world.u.mode /\ r.u.shown = world.u.shown
    BY <1>2, <1>3, <1>4
  <2> HIDE DEF r
  <2> QED
    BY <2>1, SameQueueExact
<1> QED
  BY <1>5 DEF Exact, world

LEMMA EditsExact ==
  ASSUME ~ExternalDac, Inv, Exact(world), Edits
  PROVE  Exact(world)'
<1>1. Good(world) /\ \A s \in Settled(world) : Good(s) /\ Exact(s)
  BY SettledGood, SettledExact DEF Inv
<1>2. ASSUME NEW p \in Tracks, QueueAdd(p) PROVE Exact(world)'
  <2>1. <<p>> \in Seq(Tracks) /\ <<p>> # <<>>
    OBVIOUS
  <2>2. PICK w \in AfterSettling(world, LAMBDA s : QueueTried(s, <<p>>)) :
           queue' = w.q /\ engine' = w.e /\ ui' = w.u
    BY <1>2 DEF QueueAdd, Leave
  <2>3. PICK s \in Settled(world) : w \in QueueTried(s, <<p>>)
    BY <2>2 DEF AfterSettling, Then
  <2>4. Good(w) /\ Exact(w)
    BY <1>1, <2>1, <2>3, QueueTriedGood, QueueTriedExact
  <2> QED
    BY <2>2, <2>4, ExactlyLeft
<1>3. ASSUME NEW l \in Lists, QueueAddList(l) PROVE Exact(world)'
  <2>1. l \in Seq(Tracks) /\ l # <<>>
    BY ListsAssumption
  <2>2. PICK w \in AfterSettling(world, LAMBDA s : QueueTried(s, l)) :
           queue' = w.q /\ engine' = w.e /\ ui' = w.u
    BY <1>3 DEF QueueAddList, Leave
  <2>3. PICK s \in Settled(world) : w \in QueueTried(s, l)
    BY <2>2 DEF AfterSettling, Then
  <2>4. Good(w) /\ Exact(w)
    BY <1>1, <2>1, <2>3, QueueTriedGood, QueueTriedExact
  <2> QED
    BY <2>2, <2>4, ExactlyLeft
<1>4. ASSUME NEW p \in Tracks, PlayNext(p) PROVE Exact(world)'
  <2>1. PICK w \in AfterSettling(world, LAMBDA s : PlayNextTried(s, p)) :
           queue' = w.q /\ engine' = w.e /\ ui' = w.u
    BY <1>4 DEF PlayNext, Leave
  <2>2. PICK s \in Settled(world) : w \in PlayNextTried(s, p)
    BY <2>1 DEF AfterSettling, Then
  <2>3. Good(w) /\ Exact(w)
    BY <1>1, <2>2, PlayNextTriedGood, PlayNextTriedExact
  <2> QED
    BY <2>1, <2>3, ExactlyLeft
<1>5. ASSUME NEW from \in Int, NEW to \in Int,
             Leave(AfterSettling(world, LAMBDA s : EditTried(s, from, to)))
      PROVE  Exact(world)'
  <2>1. PICK w \in AfterSettling(world, LAMBDA s : EditTried(s, from, to)) :
           queue' = w.q /\ engine' = w.e /\ ui' = w.u
    BY <1>5 DEF Leave
  <2>2. PICK s \in Settled(world) : w \in EditTried(s, from, to)
    BY <2>1 DEF AfterSettling, Then
  <2>3. Good(w) /\ Exact(w)
    BY <1>1, <2>2, EditTriedGood, EditTriedExact
  <2> QED
    BY <2>1, <2>3, ExactlyLeft
<1>6. \A i \in Slots : i \in Int
  BY DEF Slots
<1>7. ASSUME NEW from \in Slots, NEW to \in Slots, Move(from, to) PROVE Exact(world)'
  BY <1>5, <1>6, <1>7 DEF Move
<1>8. ASSUME NEW from \in Slots, Remove(from) PROVE Exact(world)'
  <2> DEFINE to == -1
  <2>1. from \in Int /\ to \in Int
    BY <1>6
  <2>2. Leave(AfterSettling(world, LAMBDA s : EditTried(s, from, to)))
    BY <1>8 DEF Remove
  <2> HIDE DEF to
  <2> QED
    BY <1>5, <2>1, <2>2
<1>9. ASSUME ClearAll PROVE Exact(world)'
  <2>1. PICK w \in AfterSettling(world, ClearTried) : queue' = w.q /\ engine' = w.e /\ ui' = w.u
    BY <1>9 DEF ClearAll, Leave
  <2>2. PICK s \in Settled(world) : w \in ClearTried(s)
    BY <2>1 DEF AfterSettling, Then
  <2>3. Good(w) /\ Exact(w)
    BY <1>1, <2>2, ClearTriedGood, ClearTriedExact
  <2> QED
    BY <2>1, <2>3, ExactlyLeft
<1>10. ASSUME DeleteCurrent PROVE Exact(world)'
  <2>1. world.q = queue
    BY DEF world
  <2>2. PICK w \in CurrentDeleted(world) : queue' = w.q /\ engine' = w.e /\ ui' = w.u
    BY <1>10 DEF DeleteCurrent, Leave
  <2>3. HasActiveTrack(world.q)
    BY <1>10, <2>1 DEF DeleteCurrent
  <2>4. Good(w) /\ Exact(w)
    BY <1>1, <2>2, <2>3, DeletedGood, DeletedExact
  <2> QED
    BY <2>2, <2>4, ExactlyLeft
<1>11. ASSUME ShowQueue PROVE Exact(world)'
  <2>1. PICK w \in SnapshotTaken(world) : queue' = w.q /\ engine' = w.e /\ ui' = w.u
    BY <1>11 DEF ShowQueue, Leave
  <2> QED
    BY <1>1, <2>1, SnapshotGood, SnapshotExact, ExactlyLeft
<1> QED
  BY <1>2, <1>3, <1>4, <1>7, <1>8, <1>9, <1>10, <1>11 DEF Edits

LEMMA PlaysExact ==
  ASSUME ~ExternalDac, Inv, Exact(world), Plays
  PROVE  Exact(world)'
<1>1. Good(world) /\ (\A s \in Settled(world) : Good(s) /\ Exact(s)) /\ world.q = queue
  BY SettledGood, SettledExact DEF Inv, world
<1>2. \A i \in Slots : i \in Int
  BY DEF Slots
<1>3. ASSUME NEW i \in Slots, Select(i) PROVE Exact(world)'
  <2>1. PICK w \in AfterSettling(world, LAMBDA s : SelectTried(s, i)) :
           queue' = w.q /\ engine' = w.e /\ ui' = w.u
    BY <1>3 DEF Select, Leave
  <2>2. PICK s \in Settled(world) : w \in SelectTried(s, i)
    BY <2>1 DEF AfterSettling, Then
  <2>3. Good(w) /\ Exact(w)
    BY <1>1, <1>2, <2>2, SelectTriedGood, SelectTriedExact
  <2> QED
    BY <2>1, <2>3, ExactlyLeft
<1>4. ASSUME NEW i \in Int, NEW mode, QueueStart(i, mode) PROVE Exact(world)'
  <2>1. PICK w \in Restart(world, i, mode) : queue' = w.q /\ engine' = w.e /\ ui' = w.u
    BY <1>4 DEF QueueStart, Leave
  <2>2. mode \in Modes /\ InQueue(world.q, i)
    BY <1>1, <1>4, PlayModesAssumption DEF QueueStart
  <2>3. Good(w) /\ Exact(w)
    BY <1>1, <2>1, <2>2, RestartGood, RestartExact
  <2> QED
    BY <2>1, <2>3, ExactlyLeft
<1>5. ASSUME NEW direction \in {-1, 1}, StepManual(direction) PROVE Exact(world)'
  <2>1. PICK w \in StepTried(world, direction) : queue' = w.q /\ engine' = w.e /\ ui' = w.u
    BY <1>5 DEF StepManual, Leave
  <2>2. Good(w) /\ Exact(w)
    BY <1>1, <2>1, StepTriedGood, StepTriedExact
  <2> QED
    BY <2>1, <2>2, ExactlyLeft
<1>6. \A l \in Lists : l \in Seq(Tracks) /\ l # <<>>
  BY ListsAssumption
<1>7. ASSUME NEW l \in Lists, NEW i \in Int, SelectFile(l, i) PROVE Exact(world)'
  <2>1. PICK w \in FileSelected(world, l, i) : queue' = w.q /\ engine' = w.e /\ ui' = w.u
    BY <1>7 DEF SelectFile, Leave
  <2>2. Good(w) /\ Exact(w)
    BY <1>1, <1>6, <2>1, FileSelectedGood, FileSelectedExact
  <2> QED
    BY <2>1, <2>2, ExactlyLeft
<1>8. ASSUME NEW l \in Lists, NEW mode \in PlayModes, PlayCollection(l, mode)
      PROVE  Exact(world)'
  <2>1. PICK w \in CollectionPlayed(world, l, mode) : queue' = w.q /\ engine' = w.e /\ ui' = w.u
    BY <1>8 DEF PlayCollection, Leave
  <2>2. mode \in Modes
    BY PlayModesAssumption
  <2>3. Good(w) /\ Exact(w)
    BY <1>1, <1>6, <2>1, <2>2, CollectionGood, CollectionExact
  <2> QED
    BY <2>1, <2>3, ExactlyLeft
<1>9. ASSUME NEW l \in Lists, NEW mode \in PlayModes, PlayCollectionPaths(l, mode)
      PROVE  Exact(world)'
  <2>1. PICK w \in CollectionPathsPlayed(world, l, mode) :
           queue' = w.q /\ engine' = w.e /\ ui' = w.u
    BY <1>9 DEF PlayCollectionPaths, Leave
  <2>2. mode \in Modes
    BY PlayModesAssumption
  <2>3. Good(w) /\ Exact(w)
    BY <1>1, <1>6, <2>1, <2>2, CollectionPathsGood, CollectionPathsExact
  <2> QED
    BY <2>1, <2>3, ExactlyLeft
<1>10. ASSUME TogglePlayPause PROVE Exact(world)'
  <2>1. PICK w \in PlayToggled(world) : queue' = w.q /\ engine' = w.e /\ ui' = w.u
    BY <1>10 DEF TogglePlayPause, Leave
  <2> QED
    BY <1>1, <2>1, PlayToggledGood, PlayToggledExact, ExactlyLeft
<1>11. 0 \in Int /\ \A l \in Lists : \A i \in 0..(Len(l) - 1) : i \in Int
  OBVIOUS
<1> QED
  BY <1>2, <1>3, <1>4, <1>5, <1>7, <1>8, <1>9, <1>10, <1>11 DEF Plays

LEMMA SettingsExact ==
  ASSUME Inv, Exact(world), Settings
  PROVE  Exact(world)'
<1>1. Good(world) /\ world.q = queue
  BY DEF Inv, world
<1>2. ASSUME NEW mode \in PlayModes, SetMode(mode) PROVE Exact(world)'
  <2>1. PICK w \in set_play_mode(world, mode) : queue' = w.q /\ engine' = w.e /\ ui' = w.u
    BY <1>2 DEF SetMode, Leave
  <2>2. mode \in Modes
    BY PlayModesAssumption
  <2>3. Good(w) /\ Exact(w)
    BY <1>1, <2>1, <2>2, ModeSet, ModeSetExact
  <2> QED
    BY <2>1, <2>3, ExactlyLeft
<1>3. ASSUME SetPlaybackOption PROVE Exact(world)'
  <2>1. PICK w \in OptionChanged(world) : queue' = w.q /\ engine' = w.e /\ ui' = w.u
    BY <1>3 DEF SetPlaybackOption, Leave
  <2>2. world.q.current >= 0
    BY <1>1, <1>3 DEF SetPlaybackOption
  <2>3. Good(w) /\ Exact(w)
    BY <1>1, <2>1, <2>2, OptionGood, OptionExact
  <2> QED
    BY <2>1, <2>3, ExactlyLeft
<1>4. ASSUME StopForExternalSession PROVE Exact(world)'
  <2>1. PICK w \in audio_stop(world) : queue' = w.q /\ engine' = w.e /\ ui' = w.u
    BY <1>4 DEF StopForExternalSession, Leave
  <2> QED
    BY <1>1, <2>1, Stopped, StoppedExact, ExactlyLeft
<1> QED
  BY <1>2, <1>3, <1>4 DEF Settings

(*****************************************************************************)
(* Where no other device takes the output.                                   *)
(*****************************************************************************)
(* The invariant, for an output nobody else may own.                         *)
LEMMA Exactness == ~ExternalDac => (Spec => []Exact(world))
<1>1. Init => Exact(world)
  BY InitiallyExact
<1>2. ~ExternalDac /\ Inv /\ Exact(world) /\ [Next]_vars => Exact(world)'
  <2> SUFFICES ASSUME ~ExternalDac, Inv, Exact(world), [Next]_vars
               PROVE  Exact(world)'
    OBVIOUS
  <2>1. CASE Poll
    <3>1. PICK w \in Polled(world) : queue' = w.q /\ engine' = w.e /\ ui' = w.u
      BY <2>1 DEF Poll, Leave
    <3>2. Good(w) /\ Exact(w)
      BY <3>1, PolledGood, PolledExact DEF Inv
    <3> QED
      BY <3>1, <3>2, ExactlyLeft
  <2>2. CASE Edits
    BY <2>2, EditsExact
  <2>3. CASE Plays
    BY <2>3, PlaysExact
  <2>4. CASE Settings
    BY <2>4, SettingsExact
  <2>5. CASE Engine
    BY <2>5, EngineExact
  <2>6. CASE UNCHANGED vars
    BY <2>6 DEF vars, Exact, world
  <2> QED
    BY <2>1, <2>2, <2>3, <2>4, <2>5, <2>6 DEF Next
<1>3. ASSUME ~ExternalDac
      PROVE  Spec => []Exact(world)
  <2>1. Inv /\ Exact(world) /\ [Next]_vars => Exact(world)'
    BY <1>2, <1>3
  <2> QED
    BY <1>1, <2>1, Invariance, PTL DEF Spec
<1> QED
  BY <1>3

(* A checkpoint the player writes is one it takes back after a restart: the  *)
(* place in the bag is that of the current track (queue_resume_write_at,     *)
(* queue_resume_read).  Where another device may own the output a start can  *)
(* be refused after the bag has moved to the chosen track, and TLC finds the *)
(* place lost; hence the hypothesis.                                         *)
THEOREM RestartKeepsThePlace == ~ExternalDac => (Spec => []CheckpointSurvivesRestart)
<1>1. Inv /\ Exact(world) => CheckpointSurvivesRestart
  <2> SUFFICES ASSUME Inv, Exact(world), NEW q \in Prepared(queue, ui.mode),
                      CheckpointWritable(q, ui.mode), UsesShuffleBag(ui.mode)
               PROVE  q.order[q.pos + 1] = q.current
    BY DEF CheckpointSurvivesRestart, CheckpointReadable
  <2>1. GoodQueue(queue) /\ OnTrack(queue)
    BY SoundFacts DEF Inv, Good, Exact, world
  <2>2. GoodQueue(q) /\ Len(q.order) = Count(q) /\ OnTrack(q)
    BY <2>1, PreparedFacts, EnsuredView DEF Prepared
  <2>3. HasActiveTrack(q) /\ Count(q) > 0
    BY DEF CheckpointWritable, CheckpointValid
  <2>4. BagIsCurrent(q)
    BY <2>2, <2>3, NoOrderFacts DEF BagIsCurrent
  <2> QED
    BY <2>2, <2>3, <2>4 DEF OnTrack
<1>2. ASSUME ~ExternalDac
      PROVE  Spec => []CheckpointSurvivesRestart
  <2>1. Spec => []Exact(world)
    BY <1>2, Exactness
  <2> QED
    BY <1>1, <2>1, Invariance, PTL
<1> QED
  BY <1>2

(* While its revision is current the queue screen shows the queue as it is,  *)
(* so an edit or a selection hits the track the user touched                 *)
(* (queue_revision, player_queue_model_edit_displayed).  The hypothesis is   *)
(* the same: a deleted track whose successor may not start leaves the old    *)
(* revision behind.                                                          *)
THEOREM ScreenShowsTheQueue == ~ExternalDac => (Spec => []EditHitsWhatWasShown)
<1>1. Exact(world) => EditHitsWhatWasShown
  BY DEF Exact, world, EditHitsWhatWasShown
<1>2. ASSUME ~ExternalDac
      PROVE  Spec => []EditHitsWhatWasShown
  <2>1. Spec => []Exact(world)
    BY <1>2, Exactness
  <2> QED
    BY <1>1, <2>1, PTL
<1> QED
  BY <1>2
=============================================================================

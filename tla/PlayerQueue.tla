----------------------------- MODULE PlayerQueue -----------------------------
(* The play queue (ui/player/queue/player_queue_model.c), its shuffle bag    *)
(* (library/playlists/playback_order.h) and the choice of the next track     *)
(* after a failure (audio/engine/audio_helpers.h).                           *)
(*                                                                            *)
(* The queue is a record; an operation that shuffles yields the set of its   *)
(* possible results.  Slots are numbered from 0 as in the code, sequences    *)
(* from 1: slot i is at i + 1.  Allocations succeed; whether a queue keeps   *)
(* ranks and resolves its paths late is a choice where it makes a difference.*)
EXTENDS Integers, Sequences

CONSTANT Tracks        \* the paths a queue can hold

Modes == {"SEQUENTIAL", "REPEAT_ALL", "REPEAT_ONE", "SHUFFLE", "SHUFFLE_ONCE"}
UsesShuffleBag(mode) == mode \in {"SHUFFLE", "SHUFFLE_ONCE"}

NoOrder == <<>>        \* a NULL order

EmptyQueue == [paths    |-> <<>>,
               current  |-> -1,
               pending  |-> 0,          \* queued by the user, right after current
               insert   |-> -1,         \* queue_next_insert_index
               order    |-> NoOrder,    \* queue_shuffle_order, its length the count
               pos      |-> -1,         \* queue_shuffle_pos
               cont     |-> NoOrder]    \* queue_shuffle_continuation

Count(q) == Len(q.paths)
PathAt(q, i) == q.paths[i + 1]
InQueue(q, i) == i >= 0 /\ i < Count(q)
HasActiveTrack(q) == InQueue(q, q.current)

Least(S) == CHOOSE x \in S : \A y \in S : x <= y
Lesser(a, b) == IF a < b THEN a ELSE b
------------------------------------------------------------------------------
(* Orders: sequences that hold every slot 0..n-1 once. *)

Distinct(o) == \A i, j \in DOMAIN o : i < j => o[i] # o[j]
Orders(n) == {o \in [1..n -> 0..(n - 1)] : Distinct(o)}
IsOrder(o, n) == o \in [1..n -> 0..(n - 1)] /\ Distinct(o)
Identity(n) == [i \in 1..n |-> i - 1]

(* playback_order_insert(): added slots from physical on, put at position at.*)
OrderInsert(o, physical, at, added) ==
    LET Moved(slot) == IF slot >= physical THEN slot + added ELSE slot
    IN  [i \in 1..(Len(o) + added) |->
            IF i <= at THEN Moved(o[i])
            ELSE IF i <= at + added THEN physical + i - at - 1
            ELSE Moved(o[i - added])]

(* playback_order_remove(): drop one slot, found at position k. *)
OrderRemove_KeepsSlots(o, k) == [i \in 1..(Len(o) - 1) |-> o[IF i < k THEN i ELSE i + 1]]

OrderRemove(o, k) ==
    LET Moved(slot) == IF slot > o[k] THEN slot - 1 ELSE slot
    IN  [i \in 1..(Len(o) - 1) |-> Moved(o[IF i < k THEN i ELSE i + 1])]

PositionOf(o, slot) == CHOOSE i \in 1..Len(o) : o[i] = slot

(* The paths of an edited queue: in another order, with some inserted at or  *)
(* one removed from a slot, with one moved to another slot.                  *)
InOrder(paths, o) == [i \in 1..Len(paths) |-> paths[o[i] + 1]]
Without(paths, slot) == SubSeq(paths, 1, slot) \o SubSeq(paths, slot + 2, Len(paths))
With(paths, slot, new) == SubSeq(paths, 1, slot) \o new \o SubSeq(paths, slot + 1, Len(paths))
MovedTo(paths, from, to) == With(Without(paths, from), to, <<paths[from + 1]>>)
------------------------------------------------------------------------------
(* The shuffle bag. *)

BagIsCurrent(q) == q.order # NoOrder /\ Len(q.order) = Count(q)

(* A fresh bag starts with the current track and then what was queued. *)
FreshOrders(q) ==
    {o \in Orders(Count(q)) :
        HasActiveTrack(q) =>
            /\ o[1] = q.current
            /\ \A i \in 1..q.pending : InQueue(q, q.current + i) => o[i + 1] = q.current + i}

ensure_shuffle_order_current(q) ==
    IF BagIsCurrent(q) THEN {q}
    ELSE {[q EXCEPT !.order = o, !.pos = 0, !.cont = NoOrder] : o \in FreshOrders(q)}

Prepared(q, mode) == IF UsesShuffleBag(mode) THEN ensure_shuffle_order_current(q) ELSE {q}

WithContinuation(q) ==
    IF q.cont # NoOrder THEN {q}
    ELSE {[q EXCEPT !.cont = o] : o \in Orders(Count(q))}

(* queue_shuffle_insert(), called with the new paths in place. *)
queue_shuffle_insert(q, physical, added) ==
    LET old == Count(q) - added
        wanted == q.pos + physical - q.current
        at == IF wanted < 0 THEN 0 ELSE Lesser(wanted, old)
    IN  [q EXCEPT !.order = IF @ # NoOrder /\ Len(@) = old
                            THEN OrderInsert(@, physical, at, added) ELSE @,
                  !.cont = NoOrder]

(* queue_shuffle_remove(), called with the old paths in place. *)
queue_shuffle_remove(q, physical) ==
    IF BagIsCurrent(q)
    THEN LET k == PositionOf(q.order, physical)
         IN  [q EXCEPT !.order = OrderRemove(@, k), !.cont = NoOrder,
                       !.pos = IF k - 1 <= @ THEN @ - 1 ELSE @]
    ELSE [q EXCEPT !.cont = NoOrder]
------------------------------------------------------------------------------
(* What plays next. *)

(* compute_auto_advance_index() may build the bag or its continuation... *)
ReadyToAdvance(q, mode) ==
    IF \/ q.current < 0 \/ Count(q) = 0
       \/ q.pending > 0 /\ q.current + 1 < Count(q)
       \/ ~UsesShuffleBag(mode)
    THEN {q}
    ELSE UNION {IF mode = "SHUFFLE" /\ r.pos + 1 >= Count(r)
                THEN WithContinuation(r) ELSE {r} : r \in ensure_shuffle_order_current(q)}

(* ... and then finds the slot, or -1. *)
AutoAdvanceIndex(q, mode) ==
    LET i == q.current
        n == Count(q)
        peek == q.pos + 1
    IN  IF i < 0 \/ n = 0 THEN -1
        ELSE IF q.pending > 0 /\ i + 1 < n THEN i + 1
        ELSE CASE
             mode = "REPEAT_ONE" -> i
          [] mode = "REPEAT_ALL" -> (i + 1) % n
          [] mode = "SHUFFLE" -> IF peek < n THEN q.order[peek + 1] ELSE q.cont[1]
          [] mode = "SHUFFLE_ONCE" -> IF peek < n THEN q.order[peek + 1] ELSE -1
          [] OTHER -> IF i + 1 < n THEN i + 1 ELSE -1

Unqueued(q, n) == IF q.pending = n THEN [q EXCEPT !.pending = 0, !.insert = -1]
                                   ELSE [q EXCEPT !.pending = @ - n]

(* The first of the queued tracks is taken. *)
QueuedTaken(q) == [Unqueued(q, 1) EXCEPT !.pos = IF BagIsCurrent(q) THEN @ + 1 ELSE @]

commit_auto_advance_Uncounted(q, mode) == QueuedTaken(q)

commit_auto_advance(q, mode) ==
    IF q.pending > 0 THEN QueuedTaken(q)
    ELSE IF ~UsesShuffleBag(mode) THEN q
    ELSE IF q.pos + 1 < Count(q) THEN [q EXCEPT !.pos = @ + 1]
    ELSE IF mode = "SHUFFLE" /\ q.cont # NoOrder
         THEN [q EXCEPT !.order = q.cont, !.cont = NoOrder, !.pos = 0]
    ELSE q

(* player_queue_model_manual_step(): results as <<queue, slot or -1>>.  A    *)
(* step back gives the queued tracks up.                                     *)
manual_step(q0, mode, direction) ==
    LET q == IF direction < 0 /\ q0.pending > 0
             THEN [q0 EXCEPT !.pending = 0, !.insert = -1] ELSE q0
        n == Count(q)
        next == q.current + direction
        Shuffled(r) ==
            LET to == r.pos + direction
            IN  IF to >= 0 /\ to < n THEN {<<[r EXCEPT !.pos = to], r.order[to + 1]>>}
                ELSE IF to >= n /\ mode = "SHUFFLE"
                     THEN {<<[r EXCEPT !.order = o, !.pos = 0], o[1]>> : o \in Orders(n)}
                ELSE {<<r, -1>>}
    IN  IF q.current < 0 \/ n = 0 THEN {<<q0, -1>>}
        ELSE IF direction > 0 /\ q.pending > 0 /\ next < n
             THEN {<<QueuedTaken(q), next>>}
        ELSE IF UsesShuffleBag(mode) THEN UNION {Shuffled(r) : r \in ensure_shuffle_order_current(q)}
        ELSE IF mode = "REPEAT_ALL" THEN {<<q, (next + n) % n>>}
        ELSE {<<q, IF InQueue(q, next) THEN next ELSE -1>>}

note_next_armed_Unaligned(q, mode) ==
    UNION {ReadyToAdvance(r, mode) : r \in Prepared(q, mode)}

(* player_queue_model_note_next_armed(): find the current track in the bag   *)
(* again, then predict.                                                      *)
note_next_armed(q, mode) ==
    LET Aligned(r) == IF \E k \in 1..Len(r.order) : r.order[k] = r.current
                      THEN [r EXCEPT !.pos = PositionOf(r.order, r.current) - 1] ELSE r
    IN  UNION {ReadyToAdvance(IF UsesShuffleBag(mode) THEN Aligned(r) ELSE r, mode)
                   : r \in Prepared(q, mode)}

(* candidate_path_failed().  A definition Name_Variant, here and below, is   *)
(* what a plausible mistake in the code would make of Name; nothing uses it. *)
HasFailed_Never(q, slot, failed) == FALSE
HasFailed(q, slot, failed) == PathAt(q, slot) \in failed

NoPlan == [target |-> -1, queued |-> 0, steps |-> 0, wrapped |-> FALSE]

(* compute_decoder_failure_advance_plan(): queued tracks first, then the     *)
(* mode's order, past every track that failed already.                       *)
FailurePlan(q, mode, failed) ==
    LET n == Count(q)
        cur == q.current
        Failed(slot) == HasFailed(q, slot, failed)
        queued == {k \in 1..Lesser(q.pending, n - 1 - cur) : ~Failed(cur + k)}
        base == Lesser(cur + q.pending, n - 1)
        Fits(slot) == InQueue(q, slot) /\ slot \notin {cur, base} /\ ~Failed(slot)
        left == IF n - 1 >= q.pos THEN n - 1 - q.pos ELSE 0
        Slot(step) == IF q.pos + step < n THEN q.order[q.pos + step + 1]
                      ELSE IF q.pos + step - n < n /\ q.cont # NoOrder
                           THEN q.cont[q.pos + step - n + 1]
                      ELSE -1
        wraps == mode = "SHUFFLE" /\ q.cont # NoOrder
        steps == CASE UsesShuffleBag(mode) ->
                        IF q.order = NoOrder THEN {}
                        ELSE {s \in 1..(IF wraps THEN left + n ELSE left) : Fits(Slot(s))}
                   [] mode \in {"REPEAT_ALL", "REPEAT_ONE"} ->
                        {s \in 1..(n - 1) : Fits((base + s) % n)}
                   [] OTHER -> {s \in 1..(n - 1 - base) : Fits(base + s)}
        step == Least(steps)
    IN  IF cur < 0 \/ n = 0 THEN NoPlan
        ELSE IF queued # {}
             THEN [NoPlan EXCEPT !.target = cur + Least(queued), !.queued = Least(queued)]
        ELSE IF n = 1 \/ steps = {} THEN NoPlan
        ELSE CASE
             UsesShuffleBag(mode) ->
                [target |-> Slot(step), queued |-> q.pending, steps |-> step,
                 wrapped |-> q.pos + step >= n]
          [] mode \in {"REPEAT_ALL", "REPEAT_ONE"} ->
                [NoPlan EXCEPT !.target = (base + step) % n, !.queued = q.pending]
          [] OTHER -> [NoPlan EXCEPT !.target = base + step, !.queued = q.pending]

commit_failure_advance(q, plan, mode) ==
    LET r == IF plan.queued > 0 THEN Unqueued(q, Lesser(plan.queued, q.pending)) ELSE q
    IN  IF ~UsesShuffleBag(mode) \/ plan.steps = 0 THEN r
        ELSE IF plan.wrapped /\ r.cont # NoOrder
             THEN [r EXCEPT !.order = r.cont, !.cont = NoOrder, !.pos = (@ + plan.steps) % Count(r)]
        ELSE [r EXCEPT !.pos = Lesser(@ + plan.steps, Count(r) - 1)]

advance_past_failed(q, mode, failed) ==
    LET ready == IF mode = "SHUFFLE"
                 THEN UNION {WithContinuation(r) : r \in ensure_shuffle_order_current(q)}
                 ELSE {q}
        Result(r) == LET plan == FailurePlan(r, mode, failed)
                     IN  <<IF plan.target < 0 THEN r ELSE commit_failure_advance(r, plan, mode),
                           plan.target>>
    IN  {Result(r) : r \in ready}
------------------------------------------------------------------------------
(* Editing. *)

InsertIndex(current, pending) == IF pending > 0 THEN current + 1 + pending ELSE -1

install(paths, current, pending, order) ==
    [EmptyQueue EXCEPT !.paths = paths, !.current = current, !.pending = pending,
                       !.insert = IF pending > 0 THEN Len(paths) ELSE -1,
                       !.order = order, !.pos = IF order = NoOrder THEN -1 ELSE 0]

try_add_many(q, new) ==
    LET pos == IF q.insert >= 0 /\ q.insert <= Count(q) THEN q.insert ELSE q.current + 1
        added == Len(new)
    IN  queue_shuffle_insert([q EXCEPT !.paths = With(@, pos, new),
                                       !.pending = @ + added,
                                       !.insert = pos + added], pos, added)

play_next_Last(q, path) == try_add_many(q, <<path>>)

play_next(q, path) ==
    LET r == try_add_many([q EXCEPT !.insert = q.current + 1], <<path>>)
    IN  [r EXCEPT !.insert = r.current + 1 + r.pending]

(* What the queue screen shows: the bag in shuffle modes, else the slots. *)
DisplayOrder(q, mode) == IF UsesShuffleBag(mode) THEN q.order ELSE Identity(Count(q))
DisplayCurrent(q, mode) == IF UsesShuffleBag(mode) THEN q.pos ELSE q.current
Displayed(q, mode) == [paths |-> InOrder(q.paths, DisplayOrder(q, mode)),
                       current |-> DisplayCurrent(q, mode)]

(* materialize_display_order(), on a queue that is Prepared. *)
Materialized(q, mode) ==
    LET current == DisplayCurrent(q, mode)
    IN  IF Count(q) = 0 THEN q
        ELSE [q EXCEPT !.paths = InOrder(@, DisplayOrder(q, mode)),
                       !.current = current,
                       !.order = IF BagIsCurrent(q) THEN Identity(Count(q)) ELSE @,
                       !.pos = IF BagIsCurrent(q) THEN current ELSE @,
                       !.cont = NoOrder,
                       !.insert = InsertIndex(current, q.pending)]

(* player_queue_model_edit_displayed() past its revision check: from is      *)
(* moved to slot to, or removed when to is -1.                               *)
EditValid(q, mode, from, to) ==
    LET current == DisplayCurrent(q, mode)
    IN  /\ from > current /\ from < Count(q)
        /\ \/ to < 0
           \/ to > current /\ to < Count(q)

Edited(q, mode, from, to) ==
    LET m == Materialized(q, mode)
        end == m.current + m.pending
        pending == IF to < 0 THEN IF from <= end THEN m.pending - 1 ELSE m.pending
                   ELSE IF from <= end /\ to > end THEN to - m.current
                   ELSE IF from > end /\ to <= end THEN m.pending + 1
                   ELSE m.pending
        r == IF to < 0
             THEN [queue_shuffle_remove(m, from) EXCEPT !.paths = Without(@, from)]
             ELSE [m EXCEPT !.paths = MovedTo(@, from, to)]
    IN  [r EXCEPT !.pending = pending, !.insert = InsertIndex(m.current, pending)]

(* player_queue_model_select_displayed() past its revision check. *)
Selected(q, mode, index) ==
    LET m == Materialized(q, mode)
        pending == IF index > m.current /\ index <= m.current + m.pending
                   THEN m.pending - (index - m.current)
                   ELSE IF index # m.current THEN 0 ELSE m.pending
    IN  [m EXCEPT !.pending = pending,
                  !.insert = IF pending > 0 THEN index + 1 + pending ELSE -1,
                  !.pos = IF m.order # NoOrder THEN index ELSE @]

(* A queue with ranks is cut down to its current track without its bag; one  *)
(* without is materialized first, and where the bag's position is no slot    *)
(* the pointer comes from outside of the array.                              *)
CutDownTo(q, path) ==
    [q EXCEPT !.paths = <<path>>, !.current = 0, !.pending = 0, !.insert = -1, !.cont = NoOrder]

clear_to_current(q, mode) ==
    LET Kept(m) == IF HasActiveTrack(m) THEN {PathAt(m, m.current)} ELSE Tracks
        Cut(m) == {[CutDownTo(m, path) EXCEPT !.order = IF @ = NoOrder THEN @ ELSE <<0>>,
                                              !.pos = IF m.order = NoOrder THEN @ ELSE 0]
                      : path \in Kept(m)}
    IN  {[CutDownTo(q, PathAt(q, q.current)) EXCEPT !.order = NoOrder]}
            \cup UNION {Cut(Materialized(r, mode)) : r \in Prepared(q, mode)}

RestartedDisplayed(q, mode, index) ==
    [q EXCEPT !.paths = InOrder(@, DisplayOrder(q, mode)), !.current = index,
              !.pending = 0, !.insert = -1, !.order = NoOrder, !.pos = -1, !.cont = NoOrder]

(* player_queue_model_delete_current(): the rest of the state is untouched.  *)
delete_current(q) == [q EXCEPT !.paths = Without(@, q.current)]
AfterDelete(q) == IF Count(q) = 0 THEN -1 ELSE Lesser(q.current, Count(q) - 1)

finish_empty_delete(q) == [q EXCEPT !.current = -1]

select_physical(q, i) == [q EXCEPT !.current = i]
------------------------------------------------------------------------------
(* The checkpoint (library/playlists/queue_resume.c). *)

(* valid(): what the writer and the reader both demand of a queue; the order *)
(* is in the file in shuffle modes only.                                     *)
CheckpointValid(q, mode) ==
    /\ Count(q) > 0 /\ HasActiveTrack(q)
    /\ q.pending >= 0 /\ q.pending < Count(q) - q.current
    /\ UsesShuffleBag(mode) => q.pos >= 0 /\ q.pos < Count(q)

(* queue_resume_write_at() *)
CheckpointWritable(q, mode) ==
    /\ CheckpointValid(q, mode)
    /\ UsesShuffleBag(mode) => IsOrder(q.order, Count(q))
    /\ mode = "SHUFFLE" /\ q.cont # NoOrder => IsOrder(q.cont, Count(q))

(* queue_resume_read(): also finds the current track in the bag. *)
CheckpointReadable(q, mode) ==
    /\ CheckpointWritable(q, mode)
    /\ UsesShuffleBag(mode) => q.order[q.pos + 1] = q.current
=============================================================================

--------------------------- MODULE FavoriteWriter ---------------------------
(* The single ordered writer of favourite flags                               *)
(* (library/playlists/favorite_writer.c): the player's heart queues its       *)
(* changes for a worker, Remote Control writes at once and waits.             *)
(*                                                                            *)
(* Whoever holds writer_mutex runs to the next wait, so every section under   *)
(* the mutex is one step; the write itself is done without it.  A request is  *)
(* its sequence number: which flag it carries does not matter, only which of  *)
(* two requests is the later one.  The heart is touched on one thread, so the *)
(* entry due first is the one with the lowest number, and how long a tap is   *)
(* held back is left open.  Running out of memory is left out.                *)
EXTENDS Integers, FiniteSets

CONSTANTS Paths,
          Callers,         \* the threads that write at once
          Worker,          \* worker_thread
          InflightMax,     \* FAVORITE_INFLIGHT_MAX
          MaxSeq           \* bound: requests made

ASSUME WorkerAssumption == Worker \notin Callers
ASSUME CallersAssumption == IsFiniteSet(Callers)
ASSUME InflightMaxAssumption == InflightMax \in Nat \ {0}
ASSUME MaxSeqAssumption == MaxSeq \in Nat

VARIABLES next_seq,
          queue,           \* per path the number of the queued request, 0: none
          thread,          \* what each thread is at, for which request
          stored,          \* per path the number of the request on the card
          latest, refused  \* history: last request taken, last one not stored

vars == <<next_seq, queue, thread, stored, latest, refused>>

Threads == Callers \cup {Worker}
NoPath == "none"
Idle == [at |-> "idle", path |-> NoPath, seq |-> 0]

Seqs == 0..MaxSeq
Requests == {Idle} \cup [at : {"entering"}, path : Paths, seq : {0}]
                   \cup [at : {"waiting", "writing", "written", "unsaved"},
                        path : Paths, seq : 1..MaxSeq]

Init == /\ next_seq = 1
        /\ queue = [p \in Paths |-> 0]
        /\ thread = [t \in Threads |-> Idle]
        /\ stored = [p \in Paths |-> 0]
        /\ latest = [p \in Paths |-> 0]
        /\ refused = [p \in Paths |-> 0]
------------------------------------------------------------------------------
(* waiters[] and inflight[].  A definition Name_Variant, here and below, is   *)
(* what a plausible mistake in the code would make of Name; nothing uses it. *)
Waiters == {t \in Threads : thread[t].at = "waiting"}
Inflight == {t \in Threads : thread[t].at \in {"writing", "written", "unsaved"}}

BeingWritten(p) == \E t \in Inflight : thread[t].path = p

older_waiter_Never(p, seq) == FALSE
older_waiter_OrSame(p, seq) ==
    \E t \in Waiters : thread[t].path = p /\ thread[t].seq <= seq
older_waiter(p, seq) ==
    \E t \in Waiters : thread[t].path = p /\ thread[t].seq < seq

newer_request_AnyPath(p, seq) ==
    \/ \E t \in Waiters : thread[t].seq > seq
    \/ queue[p] > seq
newer_request(p, seq) ==
    \/ \E t \in Waiters : thread[t].path = p /\ thread[t].seq > seq
    \/ queue[p] > seq

(* A request takes the next number, under the mutex. *)
TakesNumber(p) ==
    /\ next_seq <= MaxSeq
    /\ next_seq' = next_seq + 1
    /\ latest' = [latest EXCEPT ![p] = next_seq]
    /\ UNCHANGED <<stored, refused>>

(* favorite_writer_submit(): a tap replaces a queued one of its path. *)
Submit_KeepsFirst(p) ==
    /\ TakesNumber(p)
    /\ queue' = [queue EXCEPT ![p] = IF @ > 0 THEN @ ELSE next_seq]
    /\ UNCHANGED thread

Submit(p) ==
    /\ TakesNumber(p)
    /\ queue' = [queue EXCEPT ![p] = next_seq]
    /\ UNCHANGED thread

(* favorite_writer_write_now() is called... *)
Call(c, p) ==
    /\ thread[c] = Idle /\ next_seq <= MaxSeq
    /\ thread' = [thread EXCEPT ![c] = [at |-> "entering", path |-> p, seq |-> 0]]
    /\ UNCHANGED <<next_seq, queue, stored, latest, refused>>

(* ... takes its number and its place among the waiters... *)
Register(c) ==
    LET p == thread[c].path
    IN  /\ thread[c].at = "entering"
        /\ Cardinality(Waiters) < InflightMax
        /\ TakesNumber(p)
        /\ queue' = [queue EXCEPT ![p] = 0]
        /\ thread' = [thread EXCEPT ![c] = [at |-> "waiting", path |-> p, seq |-> next_seq]]

MayWrite_Unlimited(p, seq) == ~BeingWritten(p) /\ ~older_waiter(p, seq)
MayWrite_AtOnce(p, seq) == ~older_waiter(p, seq) /\ Cardinality(Inflight) < InflightMax

MayWrite(p, seq) ==
    ~BeingWritten(p) /\ ~older_waiter(p, seq) /\ Cardinality(Inflight) < InflightMax

(* ... and, when it is its turn, writes or gives way to a newer request. *)
HasTurn(c) ==
    /\ thread[c].at = "waiting"
    /\ MayWrite(thread[c].path, thread[c].seq)

BeginWrite(c) ==
    /\ HasTurn(c) /\ ~newer_request(thread[c].path, thread[c].seq)
    /\ thread' = [thread EXCEPT ![c].at = "writing"]
    /\ UNCHANGED <<next_seq, queue, stored, latest, refused>>

GiveWay(c) ==
    /\ HasTurn(c) /\ newer_request(thread[c].path, thread[c].seq)
    /\ thread' = [thread EXCEPT ![c] = Idle]
    /\ UNCHANGED <<next_seq, queue, stored, latest, refused>>

(* worker_main() takes the entry due first of those it may write. *)
WorkerTake(p) ==
    LET Takeable(q) == queue[q] > 0 /\ ~BeingWritten(q) /\ ~older_waiter(q, queue[q])
    IN  /\ thread[Worker] = Idle
        /\ Takeable(p) /\ \A q \in Paths : Takeable(q) => queue[p] <= queue[q]
        /\ Cardinality(Inflight) < InflightMax
        /\ thread' = [thread EXCEPT ![Worker] = [at |-> "writing", path |-> p, seq |-> queue[p]]]
        /\ queue' = [queue EXCEPT ![p] = 0]
        /\ UNCHANGED <<next_seq, stored, latest, refused>>

(* metadata_db_song_favorite_set() and .._set_durable(), without the mutex:  *)
(* the flag is stored; or it is, but never known to have reached the card;   *)
(* or it is not stored.                                                      *)
Store(t) ==
    LET r == thread[t]
    IN  /\ r.at = "writing"
        /\ stored' = [stored EXCEPT ![r.path] = r.seq]
        /\ \E at \in {"written", "unsaved"} : thread' = [thread EXCEPT ![t].at = at]
        /\ UNCHANGED <<next_seq, queue, latest, refused>>

FailToStore(t) ==
    LET r == thread[t]
    IN  /\ r.at = "writing"
        /\ refused' = [refused EXCEPT ![r.path] = r.seq]
        /\ thread' = [thread EXCEPT ![t].at = "unsaved"]
        /\ UNCHANGED <<next_seq, queue, stored, latest>>

(* inflight_remove(), and the answer of a write that waited. *)
Finish(t) ==
    /\ thread[t].at \in {"written", "unsaved"}
    /\ thread' = [thread EXCEPT ![t] = Idle]
    /\ UNCHANGED <<next_seq, queue, stored, latest, refused>>

WriteStep(t) == Store(t) \/ FailToStore(t) \/ Finish(t)
CallerStep(c) == Register(c) \/ BeginWrite(c) \/ GiveWay(c) \/ WriteStep(c)
WorkerStep == WriteStep(Worker) \/ \E p \in Paths : WorkerTake(p)

Next == \/ \E p \in Paths : Submit(p)
        \/ \E c \in Callers, p \in Paths : Call(c, p)
        \/ \E c \in Callers : CallerStep(c)
        \/ WorkerStep

Spec == /\ Init /\ [][Next]_vars
        /\ WF_vars(WorkerStep)
        /\ \A c \in Callers : WF_vars(CallerStep(c))
------------------------------------------------------------------------------
(* favorite_writer_is_set(): a queued or running write wins over the card.   *)
Effective(p) ==
    IF queue[p] > 0 THEN queue[p]
    ELSE IF BeingWritten(p) THEN thread[CHOOSE t \in Inflight : thread[t].path = p].seq
    ELSE stored[p]

TypeOK ==
    /\ next_seq \in 1..(MaxSeq + 1)
    /\ queue \in [Paths -> Seqs] /\ stored \in [Paths -> Seqs]
    /\ latest \in [Paths -> Seqs] /\ refused \in [Paths -> Seqs]
    /\ thread \in [Threads -> Requests]

(* inflight[] and waiters[] are arrays of FAVORITE_INFLIGHT_MAX entries that *)
(* are appended to without a look at their size.                             *)
ArraysFit == Cardinality(Inflight) <= InflightMax /\ Cardinality(Waiters) <= InflightMax

(* "Writes to one path never run concurrently": worker and callers look for  *)
(* a running write under the mutex and write without it.                     *)
OneWriterPerPath ==
    \A s, t \in Inflight : thread[s].path = thread[t].path => s = t

(* A request never overwrites a later one, whoever makes the two and however *)
(* long each waits for its turn.                                             *)
LaterRequestWins == [][\A p \in Paths : stored'[p] >= stored[p]]_vars

(* Unless a caller waits to write the path or its last write failed, what    *)
(* favorite_writer_is_set() says is the last request: a tap stays visible    *)
(* from the queue through the write to the card.                             *)
LastRequestIsShown ==
    \A p \in Paths :
        \/ Effective(p) = latest[p]
        \/ refused[p] = latest[p]
        \/ \E t \in Waiters : thread[t].path = p

(* favorite_writer_write_now() returns true only if its request is stored or *)
(* a later one of the path is still to be written.                           *)
SavedUnlessSuperseded ==
    [][\A c \in Callers :
          LET r == thread[c]
          IN  (thread'[c] = Idle /\ r.at \in {"waiting", "written"}) =>
                 \/ stored[r.path] = r.seq
                 \/ queue[r.path] > r.seq
                 \/ \E t \in Threads : thread[t].path = r.path /\ thread[t].seq > r.seq]_vars

(* A caller gets its answer, and once no more requests come the last one of  *)
(* every path has been written.                                              *)
EveryCallReturns == \A c \in Callers : thread[c].at = "waiting" ~> thread[c] = Idle
LastRequestIsWritten == []<>(\A p \in Paths : latest[p] \in {stored[p], refused[p]})
=============================================================================

----------------------------- MODULE HttpStream -----------------------------
(***************************************************************************)
(* network/http/stream/http_stream.c: a finite HTTP entity read through a  *)
(* ring that a pump thread fills from the connection.  The decoder thread  *)
(* is the one caller of read, seek and close.  A seek first moves within   *)
(* the ring; otherwise it opens a replacement response while the old pump  *)
(* runs on, validates it, creates its pump behind a gate, stops and joins  *)
(* the old pump and only then swaps the connection.                        *)
(*                                                                         *)
(* A byte is <<version, offset>>: the server may replace the entity by     *)
(* another one of the same length.  Seeks name their destination; the      *)
(* arithmetic of SEEK_SET, SEEK_CUR and SEEK_END on int64_t is left out.   *)
(***************************************************************************)
EXTENDS Integers, Sequences, FiniteSets

CONSTANTS
  Length,        \* bytes of the entity
  Capacity,      \* STREAM_RING_CAPACITY
  Chunk,         \* HTTP_CONN_READ_CHUNK
  Validators,    \* the validators the first response may have carried
  MaxCalls       \* bound: calls of the API

ASSUME HttpStreamAssumption ==
  /\ Length \in Nat \ {0} /\ Capacity \in Nat \ {0} /\ Chunk \in Nat \ {0}
  /\ Validators \subseteq {"strong", "dated", "weak", "none"}
  /\ MaxCalls \in Nat

Versions == 1..2
Slots    == 0..Capacity - 1
Offsets  == 0..Length
Unset    == <<0, 0>>
Bytes    == (Versions \X Offsets) \cup {Unset}
Threads  == 1..2
Min2(m, n) == IF m <= n THEN m ELSE n

VARIABLES
  ring, head, tail, fill, history,  \* ring, ring_head, ring_tail, ring_fill, ring_history
  position, atVirtualEnd,           \* position, at_virtual_end
  stop, ended,                      \* stop_requested, ended
  limited, remaining,               \* has_content_length, remaining
  conn,        \* conn and reader: the response body the pump reads
  thread,      \* thread: which of the two pumps is the stream's
  pump,        \* the pumps: where each is and what it holds in buf
  call,        \* the call of the API that runs, with its locals
  seekable, validator,              \* of the first response
  entity,      \* the version the server has now
  calls        \* bound

buffer == <<ring, head, tail, fill, history>>
place  == <<position, atVirtualEnd>>
flags  == <<stop, ended>>
body   == <<limited, remaining, conn>>
fixed  == <<seekable, validator>>
vars   == <<buffer, place, flags, body, thread, pump, call, fixed, entity, calls>>

(* next: the offset the server sends next; up: the socket is open; cut: it *)
(* was the server or the network that ended it.                            *)
Connection(version, from) == [version |-> version, next |-> from, up |-> TRUE, cut |-> FALSE]
NoPump   == [pc |-> "gone", buf |-> <<>>]
Idle     == [pc |-> "idle"]

Init ==
  /\ ring = [i \in Slots |-> Unset]
  /\ head = 0 /\ tail = 0 /\ fill = 0 /\ history = 0
  /\ position = 0 /\ atVirtualEnd = FALSE
  /\ stop = FALSE /\ ended = FALSE
  /\ limited \in BOOLEAN /\ remaining = Length
  /\ conn = Connection(1, 0)
  /\ thread = 1 /\ pump = [t \in Threads |-> IF t = 1 THEN [pc |-> "check", buf |-> <<>>] ELSE NoPump]
  /\ call = Idle
  /\ seekable \in BOOLEAN /\ validator \in Validators
  /\ entity = 1 /\ calls = 0

(***************************************************************************)
(* The pump.                                                               *)
(***************************************************************************)
At(t, pc) == pump[t].pc = pc
Goto(t, pc, buf) == pump' = [pump EXCEPT ![t] = [pc |-> pc, buf |-> buf]]

(* The head of the loop of pump(). *)
PumpCheck(t) ==
  /\ At(t, "check")
  /\ Goto(t, IF stop \/ (limited /\ remaining = 0) THEN "exit" ELSE "receive", <<>>)
  /\ UNCHANGED <<buffer, place, flags, body, thread, call, fixed, entity, calls>>

(* http_conn_reader_read_some() gets bytes of the body into buf; what has    *)
(* arrived can still be read after a shutdown.                             *)
PumpReceive(t) ==
  /\ At(t, "receive")
  /\ \E n \in 1..Min2(Chunk, Length - conn.next) :
       /\ limited => n <= remaining
       /\ Goto(t, "push", [i \in 1..n |-> <<conn.version, conn.next + i - 1>>])
       /\ conn' = [conn EXCEPT !.next = @ + n]
  /\ UNCHANGED <<buffer, place, flags, limited, remaining, thread, call, fixed, entity, calls>>

(* The body ends, or the connection is lost. *)
PumpLoses(t) ==
  /\ At(t, "receive") /\ conn.up
  /\ Goto(t, "exit", <<>>)
  /\ conn' = [conn EXCEPT !.cut = TRUE]
  /\ UNCHANGED <<buffer, place, flags, limited, remaining, thread, call, fixed, entity, calls>>

(* shutdown() by the caller wakes the blocked recv. *)
PumpInterrupted(t) ==
  /\ At(t, "receive") /\ ~conn.up
  /\ Goto(t, "exit", <<>>)
  /\ UNCHANGED <<buffer, place, flags, body, thread, call, fixed, entity, calls>>

Forget(h, f) == Min2(h, Capacity - f)

(* One pass of the loop of push_ring(); it waits while the ring is full.   *)
(* The pump alone reads remaining, so its count is taken with the last one. *)
PumpPush(t) ==
  /\ At(t, "push")
  /\ \/ /\ stop
        /\ Goto(t, "exit", <<>>)
        /\ UNCHANGED <<buffer, remaining>>
     \/ /\ ~stop /\ fill < Capacity
        /\ LET buf  == pump[t].buf
               take == Min2(Len(buf), Capacity - fill)
           IN /\ ring' = [i \in Slots |->
                            LET k == (i - head + Capacity) % Capacity
                            IN IF k < take THEN buf[k + 1] ELSE ring[i]]
              /\ head' = (head + take) % Capacity
              /\ fill' = fill + take
              /\ history' = Forget(history, fill + take)
              /\ Goto(t, IF take = Len(buf) THEN "check" ELSE "push", SubSeq(buf, take + 1, Len(buf)))
              /\ remaining' = IF limited THEN remaining - take ELSE remaining
        /\ UNCHANGED tail
  /\ UNCHANGED <<place, flags, limited, conn, thread, call, fixed, entity, calls>>

(* The tail of pump(): the end is published and the connection closed. *)
PumpExit(t) ==
  /\ At(t, "exit")
  /\ ended' = TRUE
  /\ conn' = [conn EXCEPT !.up = FALSE]
  /\ Goto(t, "gone", <<>>)
  /\ UNCHANGED <<buffer, place, stop, limited, remaining, thread, call, fixed, entity, calls>>

(***************************************************************************)
(* http_stream_read().                                                     *)
(***************************************************************************)
Begin(record) ==
  /\ call = Idle /\ calls < MaxCalls
  /\ calls' = calls + 1
  /\ call' = record

Read(n) ==
  /\ Begin([pc |-> "read", left |-> n])
  /\ UNCHANGED <<buffer, place, flags, body, thread, pump, fixed, entity>>

(* One pass of its loop.  Reaching the end of a seekable entity, the virtual *)
(* end or, with the ring drained, the end of the pump returns what there is. *)
ReadSome ==
  /\ call.pc = "read"
  /\ LET take == Min2(Min2(call.left, fill), IF seekable THEN Length - position ELSE fill)
     IN \/ /\ call.left = 0 \/ atVirtualEnd \/ (fill = 0 /\ (ended \/ stop)) \/ (fill > 0 /\ take = 0)
           /\ call' = Idle
           /\ UNCHANGED <<tail, fill, history, position>>
        \/ /\ call.left > 0 /\ ~atVirtualEnd /\ fill > 0 /\ take > 0
           /\ tail' = (tail + take) % Capacity
           /\ fill' = fill - take
           /\ history' = Forget(history + take, fill - take)
           /\ position' = position + take
           /\ call' = [call EXCEPT !.left = @ - take]
  /\ UNCHANGED <<ring, head, atVirtualEnd, flags, body, thread, pump, fixed, entity, calls>>

(***************************************************************************)
(* http_stream_seek().                                                     *)
(***************************************************************************)
SeekToEnd ==
  /\ seekable /\ ~stop
  /\ Begin(Idle)
  /\ atVirtualEnd' = TRUE
  /\ UNCHANGED <<buffer, position, flags, body, thread, pump, fixed, entity>>

(* Variant: the old pump is stopped before the replacement is known. *)
SeekFar_StopsFirst(dest) ==
  /\ seekable /\ ~stop /\ dest # Length
  /\ dest - position > fill \/ position - dest > history
  /\ Begin([pc |-> "open", dest |-> dest])
  /\ stop' = TRUE /\ conn' = [conn EXCEPT !.up = FALSE]
  /\ UNCHANGED <<buffer, place, ended, limited, remaining, thread, pump, fixed, entity>>

(* Forward within what is buffered or back within what was read: the ring  *)
(* turns, the connection stays.                                            *)
SeekInRing(dest) ==
  /\ seekable /\ ~stop /\ dest # Length
  /\ dest - position <= fill /\ position - dest <= history
  /\ Begin(Idle)
  /\ LET by == dest - position
     IN /\ tail' = (tail + Capacity + by) % Capacity
        /\ fill' = fill - by
        /\ history' = IF by > 0 THEN Forget(history + by, fill - by) ELSE history + by
  /\ position' = dest /\ atVirtualEnd' = FALSE
  /\ UNCHANGED <<ring, head, flags, body, thread, pump, fixed, entity>>

SeekFar(dest) ==
  /\ seekable /\ ~stop /\ dest # Length
  /\ dest - position > fill \/ position - dest > history
  /\ Begin([pc |-> "open", dest |-> dest])
  /\ UNCHANGED <<buffer, place, flags, body, thread, pump, fixed, entity>>

(* What a server may answer to "Range: bytes=dest-": the validators of the *)
(* version it sends, or none; with the strong one or the date in If-Range, *)
(* a server that knows the header sends a 206 only for that version.       *)
Responses(dest) ==
  [status : {200, 206}, version : {entity}, tagged : BOOLEAN, dated : BOOLEAN,
   start : {dest, 0}, whole : BOOLEAN, total : {Length, Length + 1}]

HasTag  == validator \in {"strong", "weak"}
HasDate == validator = "dated"

(* The checks of open_response() and of seek on the response; both         *)
(* validators are distinct for distinct versions.                          *)
Same(r) == r.version = 1
Accepted(r, dest) ==
  /\ r.status = 206 /\ r.start = dest /\ r.total = Length /\ r.whole
  /\ validator = "strong" => r.tagged
  /\ validator = "dated"  => r.dated
  /\ (HasTag /\ r.tagged) \/ (HasDate /\ r.dated) => Same(r)

(* open_response() fails, the response is not the rest of this entity, or  *)
(* no pump can be created: the stream goes on as it was.                   *)
SeekRefused ==
  /\ call.pc = "open"
  /\ call' = Idle
  /\ UNCHANGED <<buffer, place, flags, body, thread, pump, fixed, entity, calls>>

Other(t) == 3 - t

(* Variant: the new pump is not gated. *)
SeekAccepted_NoGate ==
  /\ call.pc = "open"
  /\ \E r \in Responses(call.dest) :
       /\ Accepted(r, call.dest)
       /\ call' = [pc |-> "stop", dest |-> call.dest, candidate |-> Connection(r.version, call.dest)]
  /\ Goto(Other(thread), "check", <<>>)
  /\ UNCHANGED <<buffer, place, flags, body, thread, fixed, entity, calls>>

(* create_gated_pump(): the pump exists before the old one is stopped, and *)
(* waits at its gate.                                                      *)
SeekAccepted ==
  /\ call.pc = "open"
  /\ \E r \in Responses(call.dest) :
       /\ Accepted(r, call.dest)
       /\ call' = [pc |-> "stop", dest |-> call.dest, candidate |-> Connection(r.version, call.dest)]
  /\ Goto(Other(thread), "gate", <<>>)
  /\ UNCHANGED <<buffer, place, flags, body, thread, fixed, entity, calls>>

(* Variant: the pump is told to stop but its recv is not woken. *)
StopPump_NoShutdown ==
  /\ call.pc \in {"stop", "close"}
  /\ stop' = TRUE
  /\ call' = [call EXCEPT !.pc = IF call.pc = "stop" THEN "join" ELSE "join to close"]
  /\ UNCHANGED <<buffer, place, ended, body, thread, pump, fixed, entity, calls>>

(* stop_requested and shutdown() under the mutex, in seek and in close. *)
StopPump ==
  /\ call.pc \in {"stop", "close"}
  /\ stop' = TRUE
  /\ conn' = [conn EXCEPT !.up = FALSE]
  /\ call' = [call EXCEPT !.pc = IF call.pc = "stop" THEN "join" ELSE "join to close"]
  /\ UNCHANGED <<buffer, place, ended, limited, remaining, thread, pump, fixed, entity, calls>>

(* The old pump is joined; the stream becomes the candidate's.  The body   *)
(* is limited unless the replacement is chunked.                           *)
SeekSwap ==
  /\ call.pc = "join" /\ At(thread, "gone")
  /\ head' = 0 /\ tail' = 0 /\ fill' = 0 /\ history' = 0
  /\ position' = call.dest /\ atVirtualEnd' = FALSE
  /\ stop' = FALSE /\ ended' = FALSE
  /\ conn' = call.candidate
  /\ limited' \in BOOLEAN /\ remaining' = Length - call.dest
  /\ thread' = Other(thread)
  /\ call' = [pc |-> "release"]
  /\ UNCHANGED <<ring, pump, fixed, entity, calls>>

(* release_gated_pump() *)
SeekRelease ==
  /\ call.pc = "release"
  /\ Goto(thread, "check", <<>>)
  /\ call' = Idle
  /\ UNCHANGED <<buffer, place, flags, body, thread, fixed, entity, calls>>

(***************************************************************************)
(* http_stream_close().                                                    *)
(***************************************************************************)
Close ==
  /\ call = Idle
  /\ call' = [pc |-> "close"]
  /\ UNCHANGED <<buffer, place, flags, body, thread, pump, fixed, entity, calls>>

Free ==
  /\ call.pc = "join to close" /\ At(thread, "gone")
  /\ call' = [pc |-> "closed"]
  /\ UNCHANGED <<buffer, place, flags, body, thread, pump, fixed, entity, calls>>

(* The entity is replaced by one of the same length. *)
Replaced ==
  /\ entity = 1 /\ entity' = 2
  /\ UNCHANGED <<buffer, place, flags, body, thread, pump, call, fixed, calls>>

Pump(t) ==
  \/ PumpCheck(t) \/ PumpReceive(t) \/ PumpLoses(t)
  \/ PumpInterrupted(t) \/ PumpPush(t) \/ PumpExit(t)

Finish == ReadSome \/ StopPump \/ SeekSwap \/ SeekRelease \/ Free

Next ==
  \/ \E t \in Threads : Pump(t)
  \/ \E n \in 1..Length : Read(n)
  \/ \E dest \in Offsets : SeekInRing(dest) \/ SeekFar(dest)
  \/ SeekToEnd \/ SeekRefused \/ SeekAccepted \/ Close \/ Finish \/ Replaced

(* The threads are scheduled; the server owes nothing: http_conn_open()    *)
(* sets no timeout, so a recv ends for sure only after a shutdown.         *)
Fairness ==
  /\ \A t \in Threads :
       WF_vars(PumpCheck(t) \/ PumpInterrupted(t) \/ PumpPush(t) \/ PumpExit(t))
  /\ WF_vars(Finish)

Spec == Init /\ [][Next]_vars /\ Fairness

(***************************************************************************)
(* Properties.                                                             *)
(***************************************************************************)
TypeOK ==
  /\ ring \in [Slots -> Bytes] /\ head \in Slots /\ tail \in Slots
  /\ fill \in 0..Capacity /\ history \in 0..Capacity
  /\ position \in Offsets /\ atVirtualEnd \in BOOLEAN
  /\ stop \in BOOLEAN /\ ended \in BOOLEAN
  /\ limited \in BOOLEAN /\ remaining \in Offsets
  /\ conn \in [version : Versions, next : Offsets, up : BOOLEAN, cut : BOOLEAN]
  /\ thread \in Threads
  /\ \A t \in Threads : pump[t].pc \in {"gone", "gate", "check", "receive", "push", "exit"}

Byte(i) == ring[(tail + i + Capacity) % Capacity]

(* Whatever was read, skipped, rewound or reopened, and wherever the pump  *)
(* is: the byte i places ahead of the position, and the one i places       *)
(* behind it as far as the history reaches, are the entity's bytes at      *)
(* those offsets; when the first response carried a strong validator or a  *)
(* date, they are bytes of the same version.                               *)
RingHoldsTheEntity ==
  \A i \in (0 - history)..fill - 1 :
    /\ Byte(i)[2] = position + i
    /\ validator \in {"strong", "dated"} => Byte(i)[1] = 1

(* A read that returns less than asked does so at the end of the entity or *)
(* because the server or the network ended the connection, never because   *)
(* of something the stream did itself: a seek that failed at any point     *)
(* leaves a stream that reads on.                                          *)
ShortReadMeansTheEnd ==
  [][call.pc = "read" /\ call'.pc = "idle" /\ call.left > 0
       => atVirtualEnd \/ position = Length \/ conn.cut]_vars

(* Once a seek has its replacement, or a close has begun, the call returns *)
(* although the server may have stopped sending for good and the pump may  *)
(* be blocked in recv or waiting for space: neither depends on the server. *)
StopsWithoutTheServer ==
  call.pc \in {"stop", "join", "release", "close", "join to close"} ~> call.pc \in {"idle", "closed"}
=============================================================================

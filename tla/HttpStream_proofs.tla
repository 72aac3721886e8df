------------------------- MODULE HttpStream_proofs -------------------------
(***************************************************************************)
(* The ring of a network stream, for every length of the entity, capacity of *)
(* the ring and size of a chunk, and for any number of reads and seeks.    *)
(***************************************************************************)
EXTENDS HttpStream, SequenceTheorems, TLAPS

(***************************************************************************)
(* The call that runs, and the two pumps.                                  *)
(***************************************************************************)
Conns == [version : Versions, next : Offsets, up : BOOLEAN, cut : BOOLEAN]
Calls ==
  [pc : {"idle", "release", "close", "join to close", "closed"}]
    \cup [pc : {"read"}, left : Nat]
    \cup [pc : {"open"}, dest : Offsets]
    \cup [pc : {"stop", "join"}, dest : Offsets, candidate : Conns]
Stages == {"gone", "gate", "check", "receive", "push", "exit"}
Chunks == Seq(Versions \X Offsets)
CallType == call \in Calls
PumpType == pump \in [Threads -> [pc : Stages, buf : Chunks]]
RestType == entity \in Versions /\ seekable \in BOOLEAN /\ validator \in Validators

(* The other pump exists only as the gated one of a seek; stop_requested   *)
(* is set exactly while the stream's own pump is to be joined.             *)
Handover ==
  /\ pump[Other(thread)].pc = IF call.pc \in {"stop", "join"} THEN "gate" ELSE "gone"
  /\ pump[thread].pc = "gate" <=> call.pc = "release"
  /\ stop <=> call.pc \in {"join", "join to close", "closed"}

(* head, tail, fill and history describe one window of the ring, and       *)
(* remaining is what lies behind it.                                       *)
Turned == head = (tail + fill) % Capacity /\ fill + history <= Capacity
Placed ==
  /\ position + fill <= Length
  /\ limited => remaining = Length - (position + fill)

(* What the pump has received and not pushed follows what is buffered.     *)
Follows(buf) ==
  /\ conn.next = position + fill + Len(buf)
  /\ \A k \in 1..Len(buf) : buf[k] = <<conn.version, position + fill + k - 1>>
InFlight ==
  /\ pump[thread].pc \in {"gate", "check", "receive"} => conn.next = position + fill
  /\ pump[thread].pc = "push" => Follows(pump[thread].buf)

(* A replacement starts at the destination; both connections are of the    *)
(* version the validator names.                                            *)
Original(version) == validator \in {"strong", "dated"} => version = 1
Replacement ==
  call.pc \in {"stop", "join"} =>
    /\ call.candidate = Connection(call.candidate.version, call.dest)
    /\ Original(call.candidate.version)
OneVersion == Original(conn.version) /\ Replacement

(* Unless the caller stopped it, a pump ends after the last byte or with   *)
(* the connection.                                                         *)
Endings ==
  ~stop =>
    /\ ended <=> pump[thread].pc = "gone"
    /\ pump[thread].pc \notin {"exit", "gone"} => conn.up
    /\ pump[thread].pc \in {"exit", "gone"} => conn.cut \/ (limited /\ remaining = 0)

Inv ==
  /\ TypeOK /\ CallType /\ PumpType /\ RestType
  /\ Handover /\ Turned /\ Placed /\ InFlight /\ OneVersion /\ Endings
  /\ RingHoldsTheEntity


(***************************************************************************)
(* What a pump holds, and the call that runs.                              *)
(***************************************************************************)
(* The stages of a pump past its gate; only the stream's own pump is there. *)
Moving == {"check", "receive", "push", "exit"}
LEMMA Owner ==
  ASSUME Inv, NEW t \in Threads, pump[t].pc \in Moving
  PROVE  t = thread /\ call.pc # "release"
<1>1. thread \in 1..2 /\ Other(thread) = 3 - thread
  BY DEF Inv, TypeOK, Threads, Other
<1>2. t = thread \/ t = Other(thread)
  BY <1>1 DEF Threads
<1>3. pump[Other(thread)].pc \in {"gate", "gone"}
  BY DEF Inv, Handover
<1>4. t = thread
  BY <1>2, <1>3 DEF Moving
<1>5. pump[thread].pc # "gate"
  BY <1>4 DEF Moving
<1> QED
  BY <1>4, <1>5 DEF Inv, Handover

(* A pump that moves leaves the other one alone.                           *)
LEMMA Gotos ==
  ASSUME PumpType, NEW t \in Threads, NEW pc \in Stages, NEW buf \in Chunks, Goto(t, pc, buf)
  PROVE  PumpType' /\ pump'[t] = [pc |-> pc, buf |-> buf] /\ pump'[Other(t)] = pump[Other(t)]
  BY DEF PumpType, Goto, Threads, Other

(* The locals each stage of a call has.                                    *)
Simple == {"idle", "release", "close", "join to close", "closed"}
LEMMA CallFacts ==
  ASSUME CallType
  PROVE  /\ call.pc \in Simple \cup {"read", "open", "stop", "join"}
         /\ call.pc \in Simple => call = [pc |-> call.pc]
         /\ call.pc = "read" => call = [pc |-> "read", left |-> call.left] /\ call.left \in Nat
         /\ call.pc = "open" => call.dest \in Offsets
         /\ call.pc \in {"stop", "join"} =>
              /\ call = [pc |-> call.pc, dest |-> call.dest, candidate |-> call.candidate]
              /\ call.dest \in Offsets /\ call.candidate \in Conns
  BY DEF CallType, Calls, Simple

LEMMA CallsClosed ==
  /\ \A pc \in Simple : [pc |-> pc] \in Calls
  /\ \A n \in Nat : [pc |-> "read", left |-> n] \in Calls
  /\ \A d \in Offsets : [pc |-> "open", dest |-> d] \in Calls
  /\ \A pc \in {"stop", "join"}, d \in Offsets, c \in Conns :
       [pc |-> pc, dest |-> d, candidate |-> c] \in Calls
  BY DEF Calls, Simple

(* What one pass of push_ring() puts into the ring, and what it keeps.     *)
Pushed == Min2(Len(pump[thread].buf), Capacity - fill)
LEMMA PushFacts ==
  ASSUME Inv, pump[thread].pc = "push"
  PROVE  /\ Pushed \in 0..Capacity - fill /\ Pushed <= Len(pump[thread].buf)
         /\ Len(pump[thread].buf) \in Nat
         /\ position + fill + Len(pump[thread].buf) <= Length
         /\ Pushed \in Nat /\ position + fill + Pushed <= Length
         /\ SubSeq(pump[thread].buf, Pushed + 1, Len(pump[thread].buf)) \in Chunks
         /\ Len(SubSeq(pump[thread].buf, Pushed + 1, Len(pump[thread].buf))) = Len(pump[thread].buf) - Pushed
         /\ \A k \in 1..Len(pump[thread].buf) - Pushed :
              SubSeq(pump[thread].buf, Pushed + 1, Len(pump[thread].buf))[k] = pump[thread].buf[Pushed + k]
<1> DEFINE buf == pump[thread].buf
<1>1. buf \in Seq(Versions \X Offsets) /\ Len(buf) \in Nat
  BY DEF Inv, TypeOK, PumpType, Chunks
<1>2. fill \in 0..Capacity /\ Capacity \in Nat /\ Length \in Nat
  BY HttpStreamAssumption DEF Inv, TypeOK
<1>3. Pushed \in 0..Capacity - fill /\ Pushed <= Len(buf)
  BY <1>1, <1>2 DEF Pushed, Min2
<1>4. position + fill + Len(buf) <= Length
  BY <1>1, <1>2 DEF Inv, InFlight, Follows, TypeOK, Offsets
<1>7. Pushed \in Nat /\ position + fill + Pushed <= Length
  <2>1. position \in Nat /\ fill \in Nat /\ Pushed \in Nat
    BY <1>2, <1>3 DEF Inv, TypeOK, Offsets
  <2> HIDE DEF buf
  <2> QED
    BY <1>1, <1>2, <1>3, <1>4, <2>1
<1>5. SubSeq(buf, Pushed + 1, Len(buf)) \in Seq(Versions \X Offsets)
  BY <1>1, <1>2, <1>3, SubSeqProperties
<1>6. /\ Len(SubSeq(buf, Pushed + 1, Len(buf))) = Len(buf) - Pushed
      /\ \A k \in 1..Len(buf) - Pushed : SubSeq(buf, Pushed + 1, Len(buf))[k] = buf[Pushed + k]
  BY <1>1, <1>2, <1>3, SubSeqProperties
<1> QED
  BY <1>1, <1>3, <1>4, <1>5, <1>6, <1>7 DEF Chunks

(* What http_conn_reader_read_some() hands over is a run of the body.      *)
LEMMA ReceiveFacts ==
  ASSUME Inv, NEW n \in 1..Min2(Chunk, Length - conn.next)
  PROVE  /\ [i \in 1..n |-> <<conn.version, conn.next + i - 1>>] \in Chunks
         /\ n \in Nat /\ conn.next \in Nat /\ n > 0 /\ conn.next + n \in Offsets
         /\ Len([i \in 1..n |-> <<conn.version, conn.next + i - 1>>]) = n
<1>1. conn.next \in Offsets /\ conn.version \in Versions /\ Length \in Nat /\ Chunk \in Nat
  BY HttpStreamAssumption DEF Inv, TypeOK
<1>2. n \in Nat /\ n > 0 /\ n <= Length - conn.next
  BY <1>1 DEF Min2, Offsets
<1>3. \A i \in 1..n : <<conn.version, conn.next + i - 1>> \in Versions \X Offsets
  BY <1>1, <1>2 DEF Offsets
<1>4. [i \in 1..n |-> <<conn.version, conn.next + i - 1>>] \in Seq(Versions \X Offsets)
  BY <1>2, <1>3
<1>5. Len([i \in 1..n |-> <<conn.version, conn.next + i - 1>>]) = n
  BY <1>2
<1> QED
  BY <1>1, <1>2, <1>4, <1>5 DEF Offsets, Chunks

(***************************************************************************)
(* The slots of the ring.                                                  *)
(***************************************************************************)
(* % on three turns of the ring.                                           *)
LEMMA Modulo ==
  ASSUME NEW x \in Int
  PROVE  /\ x % Capacity \in Slots
         /\ x \in Slots => x % Capacity = x
         /\ x \in Capacity..2 * Capacity - 1 => x % Capacity = x - Capacity
         /\ x \in 2 * Capacity..3 * Capacity - 1 => x % Capacity = x - 2 * Capacity
<1> DEFINE C == Capacity
<1>1. C \in Nat \ {0}
  BY HttpStreamAssumption
<1>2. x % C \in 0..C - 1
  BY <1>1
<1>3. x \in 0..C - 1 => x % C = x
  BY <1>1
<1>4. x \in C..2 * C - 1 => x % C = x - C
  BY <1>1
<1>5. x \in 2 * C..3 * C - 1 => x % C = x - 2 * C
  BY <1>1
<1> QED
  BY <1>2, <1>3, <1>4, <1>5 DEF Slots

(* The slot i places from the tail t; turning the tail shifts it.          *)
Slot(t, i) == (t + i + Capacity) % Capacity
LEMMA TurnSlots ==
  ASSUME NEW t \in Slots, NEW by \in Int, 0 - Capacity <= by, by <= Capacity, NEW i \in Int,
         0 - Capacity <= i, i <= Capacity, 0 - Capacity <= by + i, by + i < Capacity
  PROVE  Slot((t + Capacity + by) % Capacity, i) = Slot(t, by + i)
<1>1. Capacity \in Nat \ {0}
  BY HttpStreamAssumption
<1> DEFINE x == t + Capacity + by
           u == x % Capacity
           y == u + i + Capacity
           z == t + (by + i) + Capacity
<1>2. u \in Slots /\ u \in {x, x - Capacity, x - 2 * Capacity}
  <2>1. x \in Int /\ 0 <= x /\ x < 3 * Capacity
    BY <1>1 DEF Slots
  <2> QED
    BY <1>1, <2>1, Modulo DEF Slots
<1>3. y % Capacity \in Slots /\ y % Capacity \in {y, y - Capacity, y - 2 * Capacity}
  <2>1. y \in Int /\ 0 <= y /\ y < 3 * Capacity
    BY <1>1, <1>2 DEF Slots
  <2> QED
    BY <1>1, <2>1, Modulo DEF Slots
<1>4. z % Capacity \in Slots /\ z % Capacity \in {z, z - Capacity, z - 2 * Capacity}
  <2>1. z \in Int /\ 0 <= z /\ z < 3 * Capacity
    BY <1>1 DEF Slots
  <2> QED
    BY <1>1, <2>1, Modulo DEF Slots
<1> QED
  BY <1>1, <1>2, <1>3, <1>4 DEF Slots, Slot

(* A push overwrites the slots behind what is buffered and, of the history, *)
(* only what Forget forgets.                                               *)
LEMMA Distance ==
  ASSUME NEW c \in Nat \ {0}, NEW t \in 0..c - 1, NEW f \in 0..c, NEW take \in 0..c - f,
         NEW i \in Int, f + take - c <= i, i < f + take,
         NEW h \in 0..c - 1, h \in {t + f, t + f - c},
         NEW s \in 0..c - 1, s \in {t + i + c, t + i, t + i - c},
         NEW k \in 0..c - 1, k \in {s - h + c, s - h}
  PROVE  IF i >= f THEN k = i - f ELSE k >= take
  OBVIOUS

LEMMA PushedSlots ==
  ASSUME NEW t \in Slots, NEW f \in 0..Capacity, NEW take \in 0..Capacity - f,
         NEW i \in Int, f + take - Capacity <= i, i < f + take
  PROVE  LET k == (Slot(t, i) - ((t + f) % Capacity) + Capacity) % Capacity
         IN Slot(t, i) \in Slots /\ IF i >= f THEN k = i - f ELSE k >= take
<1>1. Capacity \in Nat \ {0}
  BY HttpStreamAssumption
<1> DEFINE h == (t + f) % Capacity
           s == Slot(t, i)
           y == t + i + Capacity
           z == s - h + Capacity
<1>2. h \in Slots /\ h \in {t + f, t + f - Capacity}
  <2>1. t + f \in Int /\ 0 <= t + f /\ t + f < 2 * Capacity
    BY <1>1 DEF Slots
  <2> QED
    BY <1>1, <2>1, Modulo DEF Slots
<1>3. s \in Slots /\ s \in {y, y - Capacity, y - 2 * Capacity}
  <2>1. y \in Int /\ 0 <= y /\ y < 3 * Capacity
    BY <1>1 DEF Slots
  <2> QED
    BY <1>1, <2>1, Modulo DEF Slots, Slot
<1>4. z % Capacity \in Slots /\ z % Capacity \in {z, z - Capacity}
  <2>1. z \in Int /\ 0 <= z /\ z < 2 * Capacity
    BY <1>1, <1>2, <1>3 DEF Slots
  <2> HIDE DEF z
  <2> QED
    BY <1>1, <2>1, Modulo DEF Slots
<1>5. s \in {t + i + Capacity, t + i, t + i - Capacity} /\ z % Capacity \in {s - h + Capacity, s - h}
  BY <1>1, <1>2, <1>3, <1>4 DEF Slots
<1>6. IF i >= f THEN z % Capacity = i - f ELSE z % Capacity >= take
  <2> HIDE DEF h, s, z
  <2>1. /\ t \in 0..Capacity - 1 /\ h \in 0..Capacity - 1
        /\ s \in 0..Capacity - 1 /\ z % Capacity \in 0..Capacity - 1
    BY <1>2, <1>3, <1>4 DEF Slots
  <2> QED
    BY <1>1, <1>2, <1>5, <2>1, Distance
<1> QED
  BY <1>3, <1>6

LEMMA Wraps ==
  ASSUME NEW x \in Int, 0 <= x, x < 3 * Capacity
  PROVE  x % Capacity \in Slots /\ x % Capacity \in {x, x - Capacity, x - 2 * Capacity}
  BY Modulo, HttpStreamAssumption DEF Slots

(* Two numbers of slots that differ by whole turns are the same slot.         *)
LEMMA SameSlot ==
  ASSUME NEW x \in Int, NEW y \in Int, 0 <= x, x < 3 * Capacity, 0 <= y, y < 3 * Capacity,
         y - x \in {0, Capacity, 2 * Capacity, 0 - Capacity, 0 - 2 * Capacity}
  PROVE  x % Capacity = y % Capacity
<1>1. Capacity \in Nat \ {0}
  BY HttpStreamAssumption
<1>2. x % Capacity \in Slots /\ x % Capacity \in {x, x - Capacity, x - 2 * Capacity}
  BY Wraps
<1>3. y % Capacity \in Slots /\ y % Capacity \in {y, y - Capacity, y - 2 * Capacity}
  BY Wraps
<1> QED
  BY <1>1, <1>2, <1>3 DEF Slots

LEMMA TurnForward ==
  ASSUME NEW t \in Slots, NEW by \in 0..Capacity
  PROVE  (t + by) % Capacity = (t + Capacity + by) % Capacity
<1> DEFINE x == t + by
           y == t + Capacity + by
<1>1. x \in Int /\ y \in Int /\ 0 <= x /\ x < 3 * Capacity /\ 0 <= y /\ y < 3 * Capacity /\ y - x = Capacity
  BY HttpStreamAssumption DEF Slots
<1> HIDE DEF x, y
<1>2. x % Capacity = y % Capacity
  BY <1>1, SameSlot
<1> QED
  BY <1>2 DEF x, y

LEMMA AddedTwice ==
  ASSUME NEW t \in Slots, NEW f \in 0..Capacity, NEW take \in 0..Capacity - f
  PROVE  (((t + f) % Capacity) + take) % Capacity = (t + (f + take)) % Capacity
<1> DEFINE u == (t + f) % Capacity
           v == t + f
           x == u + take
           y == t + (f + take)
<1>1. Capacity \in Nat \ {0} /\ t \in 0..Capacity - 1
  BY HttpStreamAssumption DEF Slots
<1>2. v \in Int /\ 0 <= v /\ v < 3 * Capacity
  BY <1>1
<1>3. u \in Slots /\ u \in {v, v - Capacity, v - 2 * Capacity}
  <2> HIDE DEF v
  <2> QED
    BY <1>2, Wraps DEF v
<1> HIDE DEF u
<1>4. /\ x \in Int /\ y \in Int /\ 0 <= x /\ x < 3 * Capacity /\ 0 <= y /\ y < 3 * Capacity
      /\ y - x \in {0, Capacity, 2 * Capacity}
  BY <1>1, <1>3 DEF Slots
<1> HIDE DEF x, y
<1>5. x % Capacity = y % Capacity
  BY <1>4, SameSlot
<1> QED
  BY <1>5 DEF x, y, u

LEMMA TurnedBack ==
  ASSUME NEW t \in Slots, NEW f \in 0..Capacity, NEW by \in Int, 0 - Capacity <= by, by <= f,
         f - by <= Capacity
  PROVE  (((t + Capacity + by) % Capacity) + (f - by)) % Capacity = (t + f) % Capacity
<1> DEFINE u == (t + Capacity + by) % Capacity
           v == t + Capacity + by
           x == u + (f - by)
           y == t + f
<1>1. Capacity \in Nat \ {0} /\ t \in 0..Capacity - 1
  BY HttpStreamAssumption DEF Slots
<1>2. v \in Int /\ 0 <= v /\ v < 3 * Capacity
  BY <1>1
<1>3. u \in Slots /\ u \in {v, v - Capacity, v - 2 * Capacity}
  <2> HIDE DEF v
  <2> QED
    BY <1>2, Wraps DEF v
<1> HIDE DEF u
<1>4. /\ x \in Int /\ y \in Int /\ 0 <= x /\ x < 3 * Capacity /\ 0 <= y /\ y < 3 * Capacity
      /\ y - x \in {0, Capacity, 0 - Capacity}
  BY <1>1, <1>3 DEF Slots
<1> HIDE DEF x, y
<1>5. x % Capacity = y % Capacity
  BY <1>4, SameSlot
<1> QED
  BY <1>5 DEF x, y, u

(***************************************************************************)
(* Types.                                                                  *)
(***************************************************************************)
LEMMA NoBuffer == <<>> \in Chunks
  BY DEF Chunks

(* Every step leaves the pumps, the call and what is fixed in their types ... *)
LEMMA PumpStep ==
  ASSUME Inv, Next
  PROVE  PumpType'
<1> USE NoBuffer DEF Inv
<1>1. ASSUME NEW t \in Threads, PumpCheck(t)
      PROVE  PumpType'
  BY <1>1, Gotos DEF PumpCheck, Stages, TypeOK
<1>2. ASSUME NEW t \in Threads, PumpReceive(t)
      PROVE  PumpType'
  <2>1. PICK n \in 1..Min2(Chunk, Length - conn.next) :
          Goto(t, "push", [i \in 1..n |-> <<conn.version, conn.next + i - 1>>])
    BY <1>2 DEF PumpReceive
  <2>2. [i \in 1..n |-> <<conn.version, conn.next + i - 1>>] \in Chunks
    BY <2>1, ReceiveFacts
  <2> QED
    BY <2>1, <2>2, Gotos DEF Stages
<1>3. ASSUME NEW t \in Threads, PumpLoses(t)
      PROVE  PumpType'
  BY <1>3, Gotos DEF PumpLoses, Stages, TypeOK
<1>4. ASSUME NEW t \in Threads, PumpInterrupted(t)
      PROVE  PumpType'
  BY <1>4, Gotos DEF PumpInterrupted, Stages, TypeOK
<1>5. ASSUME NEW t \in Threads, PumpPush(t)
      PROVE  PumpType'
  <2>1. t = thread /\ pump[thread].pc = "push"
    BY <1>5, Owner DEF PumpPush, At, Moving
  <2>2. SubSeq(pump[thread].buf, Pushed + 1, Len(pump[thread].buf)) \in Chunks
    BY <2>1, PushFacts
  <2>3. CASE stop
    BY <1>5, <2>3, Gotos DEF PumpPush, Stages
  <2>4. CASE ~stop
    <3>1. Goto(t, IF Pushed = Len(pump[thread].buf) THEN "check" ELSE "push",
               SubSeq(pump[thread].buf, Pushed + 1, Len(pump[thread].buf)))
      BY <1>5, <2>1, <2>4 DEF PumpPush, Pushed
    <3> QED
      BY <2>2, <3>1, Gotos DEF Stages
  <2> QED
    BY <2>3, <2>4
<1>6. ASSUME NEW t \in Threads, PumpExit(t)
      PROVE  PumpType'
  BY <1>6, Gotos DEF PumpExit, Stages, TypeOK
<1>7. ASSUME NEW n \in 1..Length, Read(n)
      PROVE  PumpType'
  BY <1>7 DEF PumpType, Read
<1>8. ASSUME ReadSome
      PROVE  PumpType'
  BY <1>8 DEF PumpType, ReadSome
<1>9. ASSUME SeekToEnd
      PROVE  PumpType'
  BY <1>9 DEF PumpType, SeekToEnd
<1>10. ASSUME NEW dest \in Offsets, SeekInRing(dest)
      PROVE  PumpType'
  BY <1>10 DEF PumpType, SeekInRing
<1>11. ASSUME NEW dest \in Offsets, SeekFar(dest)
      PROVE  PumpType'
  BY <1>11 DEF PumpType, SeekFar
<1>12. ASSUME SeekRefused
      PROVE  PumpType'
  BY <1>12 DEF PumpType, SeekRefused
<1>13. ASSUME SeekAccepted
      PROVE  PumpType'
  <2>1. Other(thread) \in Threads
    BY DEF TypeOK, Other, Threads
  <2> QED
    BY <1>13, <2>1, Gotos DEF SeekAccepted, Stages
<1>14. ASSUME StopPump
      PROVE  PumpType'
  BY <1>14 DEF PumpType, StopPump
<1>15. ASSUME SeekSwap
      PROVE  PumpType'
  BY <1>15 DEF PumpType, SeekSwap
<1>16. ASSUME SeekRelease
      PROVE  PumpType'
  BY <1>16, Gotos DEF SeekRelease, Stages, TypeOK
<1>17. ASSUME Close
      PROVE  PumpType'
  BY <1>17 DEF PumpType, Close
<1>18. ASSUME Free
      PROVE  PumpType'
  BY <1>18 DEF PumpType, Free
<1>19. ASSUME Replaced
      PROVE  PumpType'
  BY <1>19 DEF PumpType, Replaced
<1> QED
  BY <1>1, <1>2, <1>3, <1>4, <1>5, <1>6, <1>7, <1>8, <1>9, <1>10,
     <1>11, <1>12, <1>13, <1>14, <1>15, <1>16, <1>17, <1>18, <1>19 DEF Next, Pump, Finish

LEMMA CallStep ==
  ASSUME Inv, Next
  PROVE  CallType'
<1> USE CallsClosed DEF Inv, CallType
<1>1. ASSUME NEW t \in Threads, PumpCheck(t)
      PROVE  CallType'
  BY <1>1 DEF PumpCheck
<1>2. ASSUME NEW t \in Threads, PumpReceive(t)
      PROVE  CallType'
  BY <1>2 DEF PumpReceive
<1>3. ASSUME NEW t \in Threads, PumpLoses(t)
      PROVE  CallType'
  BY <1>3 DEF PumpLoses
<1>4. ASSUME NEW t \in Threads, PumpInterrupted(t)
      PROVE  CallType'
  BY <1>4 DEF PumpInterrupted
<1>5. ASSUME NEW t \in Threads, PumpPush(t)
      PROVE  CallType'
  BY <1>5 DEF PumpPush
<1>6. ASSUME NEW t \in Threads, PumpExit(t)
      PROVE  CallType'
  BY <1>6 DEF PumpExit
<1>7. ASSUME NEW n \in 1..Length, Read(n)
      PROVE  CallType'
  <2>1. n \in Nat
    BY HttpStreamAssumption
  <2> QED
    BY <1>7, <2>1 DEF Read, Begin
<1>8. ASSUME ReadSome
      PROVE  CallType'
  <2> DEFINE take == Min2(Min2(call.left, fill), IF seekable THEN Length - position ELSE fill)
  <2>1. CASE call' = Idle
    BY <2>1 DEF Idle, Simple
  <2>2. CASE call' # Idle
    <3>1. call.pc = "read" /\ call' = [call EXCEPT !.left = @ - take] /\ fill > 0
      BY <1>8, <2>2 DEF ReadSome
    <3>2. call.left - take \in Nat
      BY <3>1, CallFacts, HttpStreamAssumption DEF TypeOK, Offsets, Min2
    <3>3. call' = [pc |-> "read", left |-> call.left - take]
      BY <3>1, CallFacts
    <3> QED
      BY <3>2, <3>3
  <2> QED
    BY <2>1, <2>2
<1>9. ASSUME SeekToEnd
      PROVE  CallType'
  BY <1>9 DEF SeekToEnd, Begin, Idle, Simple
<1>10. ASSUME NEW dest \in Offsets, SeekInRing(dest)
      PROVE  CallType'
  BY <1>10 DEF SeekInRing, Begin, Idle, Simple
<1>11. ASSUME NEW dest \in Offsets, SeekFar(dest)
      PROVE  CallType'
  BY <1>11 DEF SeekFar, Begin, Idle, Simple
<1>12. ASSUME SeekRefused
      PROVE  CallType'
  BY <1>12 DEF SeekRefused, Idle, Simple
<1>13. ASSUME SeekAccepted
      PROVE  CallType'
  <2>1. PICK r \in Responses(call.dest) :
          call' = [pc |-> "stop", dest |-> call.dest, candidate |-> Connection(r.version, call.dest)]
    BY <1>13 DEF SeekAccepted
  <2>2. call.dest \in Offsets
    BY <1>13, CallFacts DEF SeekAccepted
  <2>3. Connection(r.version, call.dest) \in Conns
    BY <2>2 DEF Responses, RestType, Connection, Conns
  <2> QED
    BY <2>1, <2>2, <2>3
<1>14. ASSUME StopPump
      PROVE  CallType'
  <2>1. CASE call.pc = "stop"
    <3>1. call' = [pc |-> "join", dest |-> call.dest, candidate |-> call.candidate]
      BY <1>14, <2>1, CallFacts DEF StopPump
    <3> QED
      BY <2>1, <3>1, CallFacts
  <2>2. CASE call.pc = "close"
    <3>1. call' = [pc |-> "join to close"]
      BY <1>14, <2>2, CallFacts DEF StopPump, Simple
    <3> QED
      BY <3>1 DEF Simple
  <2> QED
    BY <1>14, <2>1, <2>2 DEF StopPump
<1>15. ASSUME SeekSwap
      PROVE  CallType'
  BY <1>15 DEF SeekSwap, Simple
<1>16. ASSUME SeekRelease
      PROVE  CallType'
  BY <1>16 DEF SeekRelease, Idle, Simple
<1>17. ASSUME Close
      PROVE  CallType'
  BY <1>17 DEF Close, Idle, Simple
<1>18. ASSUME Free
      PROVE  CallType'
  BY <1>18 DEF Free, Idle, Simple
<1>19. ASSUME Replaced
      PROVE  CallType'
  BY <1>19 DEF Replaced
<1> QED
  BY <1>1, <1>2, <1>3, <1>4, <1>5, <1>6, <1>7, <1>8, <1>9, <1>10,
     <1>11, <1>12, <1>13, <1>14, <1>15, <1>16, <1>17, <1>18, <1>19 DEF Next, Pump, Finish

LEMMA RestStep ==
  ASSUME Inv, Next
  PROVE  RestType'
<1> USE DEF Inv, RestType, Versions
<1>1. ASSUME NEW t \in Threads, PumpCheck(t)
      PROVE  RestType'
  BY <1>1 DEF PumpCheck, fixed
<1>2. ASSUME NEW t \in Threads, PumpReceive(t)
      PROVE  RestType'
  BY <1>2 DEF PumpReceive, fixed
<1>3. ASSUME NEW t \in Threads, PumpLoses(t)
      PROVE  RestType'
  BY <1>3 DEF PumpLoses, fixed
<1>4. ASSUME NEW t \in Threads, PumpInterrupted(t)
      PROVE  RestType'
  BY <1>4 DEF PumpInterrupted, fixed
<1>5. ASSUME NEW t \in Threads, PumpPush(t)
      PROVE  RestType'
  BY <1>5 DEF PumpPush, fixed
<1>6. ASSUME NEW t \in Threads, PumpExit(t)
      PROVE  RestType'
  BY <1>6 DEF PumpExit, fixed
<1>7. ASSUME NEW n \in 1..Length, Read(n)
      PROVE  RestType'
  BY <1>7 DEF Read, fixed
<1>8. ASSUME ReadSome
      PROVE  RestType'
  BY <1>8 DEF ReadSome, fixed
<1>9. ASSUME SeekToEnd
      PROVE  RestType'
  BY <1>9 DEF SeekToEnd, fixed
<1>10. ASSUME NEW dest \in Offsets, SeekInRing(dest)
      PROVE  RestType'
  BY <1>10 DEF SeekInRing, fixed
<1>11. ASSUME NEW dest \in Offsets, SeekFar(dest)
      PROVE  RestType'
  BY <1>11 DEF SeekFar, fixed
<1>12. ASSUME SeekRefused
      PROVE  RestType'
  BY <1>12 DEF SeekRefused, fixed
<1>13. ASSUME SeekAccepted
      PROVE  RestType'
  BY <1>13 DEF SeekAccepted, fixed
<1>14. ASSUME StopPump
      PROVE  RestType'
  BY <1>14 DEF StopPump, fixed
<1>15. ASSUME SeekSwap
      PROVE  RestType'
  BY <1>15 DEF SeekSwap, fixed
<1>16. ASSUME SeekRelease
      PROVE  RestType'
  BY <1>16 DEF SeekRelease, fixed
<1>17. ASSUME Close
      PROVE  RestType'
  BY <1>17 DEF Close, fixed
<1>18. ASSUME Free
      PROVE  RestType'
  BY <1>18 DEF Free, fixed
<1>19. ASSUME Replaced
      PROVE  RestType'
  BY <1>19 DEF Replaced, fixed
<1> QED
  BY <1>1, <1>2, <1>3, <1>4, <1>5, <1>6, <1>7, <1>8, <1>9, <1>10,
     <1>11, <1>12, <1>13, <1>14, <1>15, <1>16, <1>17, <1>18, <1>19 DEF Next, Pump, Finish

(* Every step leaves each variable in its type.                            *)
LEMMA TypeStep ==
  ASSUME Inv, Next
  PROVE  TypeOK'
<1> USE DEF Inv
<1>0. \A t \in Threads : pump'[t].pc \in {"gone", "gate", "check", "receive", "push", "exit"}
  BY PumpStep DEF PumpType, Stages
<1>1. ASSUME NEW t \in Threads, PumpCheck(t)
      PROVE  TypeOK'
  BY <1>0, <1>1 DEF PumpCheck, TypeOK, buffer, place, flags, body, fixed
<1>2. ASSUME NEW t \in Threads, PumpReceive(t)
      PROVE  TypeOK'
  <2>1. PICK n \in 1..Min2(Chunk, Length - conn.next) : conn' = [conn EXCEPT !.next = @ + n]
    BY <1>0, <1>2 DEF PumpReceive
  <2>2. conn.next + n \in Offsets
    BY <2>1, ReceiveFacts
  <2> QED
    BY <1>0, <1>2, <2>1, <2>2 DEF PumpReceive, TypeOK, buffer, place, flags, body, fixed
<1>3. ASSUME NEW t \in Threads, PumpLoses(t)
      PROVE  TypeOK'
  BY <1>0, <1>3 DEF PumpLoses, TypeOK, buffer, place, flags, body, fixed
<1>4. ASSUME NEW t \in Threads, PumpInterrupted(t)
      PROVE  TypeOK'
  BY <1>0, <1>4 DEF PumpInterrupted, TypeOK, buffer, place, flags, body, fixed
<1>5. ASSUME NEW t \in Threads, PumpPush(t)
      PROVE  TypeOK'
  <2>1. CASE stop
    BY <1>0, <1>5, <2>1 DEF PumpPush, TypeOK, buffer, place, flags, body, fixed
  <2>2. CASE ~stop
    <3>1. t = thread /\ pump[thread].pc = "push"
      BY <1>5, Owner DEF PumpPush, At, Moving
    <3>2. Pushed \in 0..Capacity - fill /\ Pushed <= Len(pump[thread].buf) /\ Len(pump[thread].buf) \in Nat
          /\ position + fill + Len(pump[thread].buf) <= Length
      BY <3>1, PushFacts
    <3>3. /\ ring' = [i \in Slots |->
                        LET k == (i - head + Capacity) % Capacity
                        IN IF k < Pushed THEN pump[thread].buf[k + 1] ELSE ring[i]]
          /\ head' = (head + Pushed) % Capacity /\ tail' = tail
          /\ fill' = fill + Pushed
          /\ history' = Forget(history, fill + Pushed)
          /\ remaining' = IF limited THEN remaining - Pushed ELSE remaining
      BY <1>0, <1>5, <2>2, <3>1 DEF PumpPush, Pushed
    <3>4. fill' \in 0..Capacity /\ history' \in 0..Capacity /\ head' \in Slots
      <4>1. head + Pushed \in Int
        BY <3>2 DEF TypeOK, Slots
      <4>2. head' \in Slots
        BY <3>3, <4>1, Modulo
      <4> QED
        BY <3>2, <3>3, <4>2, HttpStreamAssumption DEF TypeOK, Forget, Min2
    <3>5. remaining' \in Offsets
      <4>1. /\ Capacity \in Nat /\ position \in Nat /\ fill \in Nat
            /\ remaining \in 0..Length /\ Length \in Nat
            /\ limited => remaining = Length - (position + fill)
        BY HttpStreamAssumption DEF TypeOK, Placed, Offsets
      <4>2. remaining' = IF limited THEN remaining - Pushed ELSE remaining
        BY <3>3
      <4>3. Pushed \in Nat /\ position + fill + Pushed <= Length
        BY <3>1, PushFacts
      <4> QED
        BY <4>1, <4>2, <4>3 DEF Offsets
    <3>6. ring' \in [Slots -> Bytes]
      <4>1. ASSUME NEW i \in Slots, (i - head + Capacity) % Capacity < Pushed
            PROVE  pump[thread].buf[((i - head + Capacity) % Capacity) + 1] \in Bytes
        <5>1. i - head + Capacity \in Int /\ Capacity \in Nat \ {0}
          BY HttpStreamAssumption DEF TypeOK, Slots
        <5>2. (i - head + Capacity) % Capacity \in Slots
          BY <5>1, Modulo
        <5>3. ((i - head + Capacity) % Capacity) + 1 \in 1..Len(pump[thread].buf)
          BY <3>2, <4>1, <5>1, <5>2 DEF Slots
        <5>4. pump[thread].buf \in Seq(Versions \X Offsets)
          BY DEF PumpType, Chunks, TypeOK
        <5> QED
          BY <5>3, <5>4, ElementOfSeq DEF Bytes
      <4> QED
        BY <3>3, <4>1 DEF TypeOK
    <3> QED
      BY <1>0, <1>5, <3>3, <3>4, <3>5, <3>6 DEF PumpPush, TypeOK, place, flags, fixed
  <2> QED
    BY <2>1, <2>2
<1>6. ASSUME NEW t \in Threads, PumpExit(t)
      PROVE  TypeOK'
  BY <1>0, <1>6 DEF PumpExit, TypeOK, buffer, place, flags, body, fixed
<1>7. ASSUME NEW n \in 1..Length, Read(n)
      PROVE  TypeOK'
  BY <1>0, <1>7 DEF Read, Begin, TypeOK, buffer, place, flags, body, fixed
<1>8. ASSUME ReadSome
      PROVE  TypeOK'
  <2> DEFINE take == Min2(Min2(call.left, fill), IF seekable THEN Length - position ELSE fill)
  <2>1. CASE UNCHANGED <<tail, fill, history, position>>
    BY <1>0, <1>8, <2>1 DEF ReadSome, TypeOK, flags, body, fixed
  <2>2. CASE ~UNCHANGED <<tail, fill, history, position>>
    <3>1. /\ take > 0 /\ tail' = (tail + take) % Capacity /\ fill' = fill - take
          /\ history' = Forget(history + take, fill - take) /\ position' = position + take
      BY <1>0, <1>8, <2>2 DEF ReadSome
    <3>2. take \in 0..fill
      BY <1>0, <1>8, <3>1, CallFacts, HttpStreamAssumption DEF ReadSome, TypeOK, Offsets, Min2
    <3>3. tail' \in Slots
      <4>1. tail + take \in Int
        BY <3>2 DEF TypeOK, Slots
      <4> QED
        BY <3>1, <4>1, Modulo
    <3> HIDE DEF take
    <3>4. fill' \in 0..Capacity /\ history' \in 0..Capacity /\ position' \in Offsets
      BY <3>1, <3>2, HttpStreamAssumption DEF TypeOK, Placed, Offsets, Forget, Min2
    <3> QED
      BY <1>0, <1>8, <3>3, <3>4 DEF ReadSome, TypeOK, flags, body, fixed
  <2> QED
    BY <2>1, <2>2
<1>9. ASSUME SeekToEnd
      PROVE  TypeOK'
  BY <1>0, <1>9 DEF SeekToEnd, Begin, TypeOK, buffer, place, flags, body, fixed
<1>10. ASSUME NEW dest \in Offsets, SeekInRing(dest)
      PROVE  TypeOK'
  <2> DEFINE by == dest - position
  <2>1. /\ by \in Int /\ by <= fill /\ 0 - by <= history
        /\ tail' = (tail + Capacity + by) % Capacity /\ fill' = fill - by
        /\ history' = IF by > 0 THEN Forget(history + by, fill - by) ELSE history + by
    BY <1>10, HttpStreamAssumption DEF SeekInRing, TypeOK, Offsets
  <2>2. tail' \in Slots
    <3>1. tail + Capacity + by \in Int
      BY <2>1, HttpStreamAssumption DEF TypeOK, Slots
    <3> QED
      BY <2>1, <3>1, Modulo
  <2>3. fill' \in 0..Capacity /\ history' \in 0..Capacity
    BY <2>1, HttpStreamAssumption DEF TypeOK, Turned, Forget, Min2
  <2> QED
    BY <1>0, <1>10, <2>2, <2>3 DEF SeekInRing, TypeOK, flags, body, fixed
<1>11. ASSUME NEW dest \in Offsets, SeekFar(dest)
      PROVE  TypeOK'
  BY <1>0, <1>11 DEF SeekFar, Begin, TypeOK, buffer, place, flags, body, fixed
<1>12. ASSUME SeekRefused
      PROVE  TypeOK'
  BY <1>0, <1>12 DEF SeekRefused, TypeOK, buffer, place, flags, body, fixed
<1>13. ASSUME SeekAccepted
      PROVE  TypeOK'
  BY <1>0, <1>13 DEF SeekAccepted, TypeOK, buffer, place, flags, body, fixed
<1>14. ASSUME StopPump
      PROVE  TypeOK'
  BY <1>0, <1>14 DEF StopPump, TypeOK, buffer, place, flags, body, fixed
<1>15. ASSUME SeekSwap
      PROVE  TypeOK'
  <2>1. call.dest \in Offsets /\ call.candidate \in Conns /\ 0 \in Slots /\ 0 \in 0..Capacity
        /\ Length - call.dest \in Offsets
    BY <1>15, CallFacts, HttpStreamAssumption DEF SeekSwap, Slots, Offsets
  <2>2. Other(thread) \in Threads
    BY DEF TypeOK, Other, Threads
  <2> QED
    BY <1>0, <1>15, <2>1, <2>2 DEF SeekSwap, TypeOK, Conns, fixed
<1>16. ASSUME SeekRelease
      PROVE  TypeOK'
  BY <1>0, <1>16 DEF SeekRelease, TypeOK, buffer, place, flags, body, fixed
<1>17. ASSUME Close
      PROVE  TypeOK'
  BY <1>0, <1>17 DEF Close, TypeOK, buffer, place, flags, body, fixed
<1>18. ASSUME Free
      PROVE  TypeOK'
  BY <1>0, <1>18 DEF Free, TypeOK, buffer, place, flags, body, fixed
<1>19. ASSUME Replaced
      PROVE  TypeOK'
  BY <1>0, <1>19 DEF Replaced, TypeOK, buffer, place, flags, body, fixed
<1> QED
  BY <1>1, <1>2, <1>3, <1>4, <1>5, <1>6, <1>7, <1>8, <1>9, <1>10,
     <1>11, <1>12, <1>13, <1>14, <1>15, <1>16, <1>17, <1>18, <1>19 DEF Next, Pump, Finish

(***************************************************************************)
(* One pump at a time.                                                     *)
(***************************************************************************)
LEMMA OtherThread ==
  ASSUME thread \in Threads
  PROVE  Other(thread) \in Threads /\ Other(Other(thread)) = thread /\ Other(thread) # thread
  BY DEF Threads, Other

(* A step of a pump is one of the stream's own, which goes on or is gone.     *)
LEMMA PumpMoves ==
  ASSUME Inv, NEW t \in Threads, Pump(t)
  PROVE  /\ t = thread /\ pump[thread].pc \in Moving
         /\ pump'[thread].pc \in Moving \cup {"gone"}
         /\ pump'[Other(thread)] = pump[Other(thread)]
         /\ UNCHANGED <<thread, call, stop, validator, entity, place, tail, limited>>
<1> USE DEF Inv, Moving
<1>1. pump[t].pc \in Moving
  BY DEF Pump, PumpCheck, PumpReceive, PumpLoses, PumpInterrupted, PumpPush, PumpExit, At
<1>2. t = thread
  BY <1>1, Owner
<1>3. ASSUME NEW pc \in Moving \cup {"gone"}, NEW buf, Goto(t, pc, buf)
      PROVE  pump'[thread].pc \in Moving \cup {"gone"} /\ pump'[Other(thread)] = pump[Other(thread)]
  BY <1>2, <1>3, OtherThread DEF Goto, PumpType, TypeOK
<1>4. UNCHANGED <<thread, call, stop, validator, entity, place, tail, limited>>
  BY DEF Pump, PumpCheck, PumpReceive, PumpLoses, PumpInterrupted, PumpPush, PumpExit, flags, fixed,
         buffer, body
<1>5. pump'[thread].pc \in Moving \cup {"gone"} /\ pump'[Other(thread)] = pump[Other(thread)]
  <2>1. CASE PumpCheck(t) \/ PumpLoses(t) \/ PumpInterrupted(t) \/ PumpExit(t)
    BY <1>3, <2>1 DEF PumpCheck, PumpLoses, PumpInterrupted, PumpExit
  <2>2. CASE PumpReceive(t)
    BY <1>3, <2>2 DEF PumpReceive
  <2>3. CASE PumpPush(t)
    BY <1>3, <2>3 DEF PumpPush
  <2> QED
    BY <2>1, <2>2, <2>3 DEF Pump
<1> QED
  BY <1>1, <1>2, <1>4, <1>5

(* The gate, the join and the swap keep one pump at the connection.        *)
LEMMA HandoverStep ==
  ASSUME Inv, Next
  PROVE  Handover'
<1> USE DEF Inv, Handover, Other
<1>1. ASSUME NEW t \in Threads, Pump(t)
      PROVE  Handover'
  BY <1>1, PumpMoves, OtherThread DEF TypeOK, Moving
<1>2. ASSUME NEW n \in 1..Length, Read(n)
      PROVE  Handover'
  BY <1>2 DEF Read, Begin, Idle, flags
<1>3. ASSUME ReadSome
      PROVE  Handover'
  <2>1. call.pc = "read" /\ call'.pc \in {"idle", "read"} /\ UNCHANGED <<thread, pump, stop>>
    BY <1>3, CallFacts DEF ReadSome, Idle, flags
  <2> QED
    BY <2>1
<1>4. ASSUME SeekToEnd
      PROVE  Handover'
  BY <1>4 DEF SeekToEnd, Begin, Idle, flags
<1>5. ASSUME NEW dest \in Offsets, SeekInRing(dest)
      PROVE  Handover'
  BY <1>5 DEF SeekInRing, Begin, Idle, flags
<1>6. ASSUME NEW dest \in Offsets, SeekFar(dest)
      PROVE  Handover'
  BY <1>6 DEF SeekFar, Begin, Idle, flags
<1>7. ASSUME SeekRefused
      PROVE  Handover'
  BY <1>7, CallFacts DEF SeekRefused, Idle, flags
<1>8. ASSUME SeekAccepted
      PROVE  Handover'
  <2>1. pump'[Other(thread)].pc = "gate" /\ pump'[thread] = pump[thread]
    BY <1>8, OtherThread DEF SeekAccepted, Goto, PumpType, TypeOK
  <2>2. call'.pc = "stop" /\ UNCHANGED <<thread, stop>>
    BY <1>8 DEF SeekAccepted, flags
  <2> QED
    BY <1>8, <2>1, <2>2 DEF SeekAccepted
<1>9. ASSUME StopPump
      PROVE  Handover'
  BY <1>9, CallFacts DEF StopPump
<1>10. ASSUME SeekSwap
      PROVE  Handover'
  <2>1. thread' = Other(thread) /\ pump' = pump /\ call'.pc = "release" /\ ~stop'
    BY <1>10 DEF SeekSwap
  <2>2. Other(thread') = thread
    BY <2>1, OtherThread DEF TypeOK, Other, Threads
  <2> QED
    BY <1>10, <2>1, <2>2 DEF SeekSwap, At
<1>11. ASSUME SeekRelease
      PROVE  Handover'
  <2>1. pump'[thread].pc = "check" /\ pump'[Other(thread)] = pump[Other(thread)]
    BY <1>11, OtherThread DEF SeekRelease, Goto, PumpType, TypeOK
  <2> QED
    BY <1>11, <2>1 DEF SeekRelease, Idle, flags
<1>12. ASSUME Close
      PROVE  Handover'
  BY <1>12, CallFacts DEF Close, Idle, flags
<1>13. ASSUME Free
      PROVE  Handover'
  BY <1>13, CallFacts DEF Free, Idle, flags
<1>14. ASSUME Replaced
      PROVE  Handover'
  BY <1>14 DEF Replaced, flags
<1> QED
  BY <1>1, <1>2, <1>3, <1>4, <1>5, <1>6, <1>7, <1>8, <1>9, <1>10, <1>11, <1>12, <1>13, <1>14 DEF Next, Finish



(***************************************************************************)
(* The window of the ring.                                                 *)
(***************************************************************************)
(* What can happen to the window of the ring: the pump adds to its end, it    *)
(* turns with the position, a seek empties it, or it stays.                   *)
PushPass ==
  /\ pump[thread].pc = "push" /\ ~stop
  /\ ring' = [i \in Slots |->
                LET k == (i - head + Capacity) % Capacity
                IN IF k < Pushed THEN pump[thread].buf[k + 1] ELSE ring[i]]
  /\ head' = (head + Pushed) % Capacity /\ tail' = tail
  /\ fill' = fill + Pushed /\ history' = Forget(history, fill + Pushed)
  /\ Goto(thread, IF Pushed = Len(pump[thread].buf) THEN "check" ELSE "push",
                  SubSeq(pump[thread].buf, Pushed + 1, Len(pump[thread].buf)))
  /\ remaining' = IF limited THEN remaining - Pushed ELSE remaining
  /\ UNCHANGED <<position, limited, conn>>
Turns(by) ==
  /\ by \in (0 - history)..fill
  /\ tail' = (tail + Capacity + by) % Capacity /\ fill' = fill - by /\ position' = position + by
  /\ history' >= 0 /\ history' <= history + by /\ fill' + history' <= Capacity
  /\ UNCHANGED <<ring, head, limited, remaining, conn, ended, thread, pump, stop>>

(* A read moves the tail and the position forward together ...             *)
LEMMA ReadTurns ==
  ASSUME Inv, ReadSome
  PROVE  \E by \in Int : Turns(by)
<1> DEFINE take == Min2(Min2(call.left, fill), IF seekable THEN Length - position ELSE fill)
<1> USE HttpStreamAssumption
<1>1. /\ fill \in 0..Capacity /\ history \in 0..Capacity /\ position \in 0..Length /\ tail \in Slots
      /\ fill + history <= Capacity /\ tail \in Int /\ call.left \in Nat /\ Capacity \in Nat
      /\ Length \in Nat
  BY CallFacts DEF Inv, TypeOK, Turned, Offsets, Slots, ReadSome
<1>2. take \in Int /\ take <= fill
  BY <1>1 DEF Min2
<1>3. UNCHANGED <<ring, head, limited, remaining, conn, ended, thread, pump, stop>>
  BY DEF ReadSome, flags, body
<1>4. CASE UNCHANGED <<tail, fill, history, position>>
  <2>1. tail' = (tail + Capacity + 0) % Capacity
    BY <1>1, <1>4, Modulo DEF Slots
  <2>2. Turns(0)
    BY <1>1, <1>3, <1>4, <2>1 DEF Turns
  <2> QED
    BY <2>2
<1>5. CASE ~UNCHANGED <<tail, fill, history, position>>
  <2>1. /\ take > 0 /\ tail' = (tail + take) % Capacity /\ fill' = fill - take
        /\ history' = Forget(history + take, fill - take) /\ position' = position + take
    BY <1>5 DEF ReadSome
  <2> HIDE DEF take
  <2>2. (tail + take) % Capacity = (tail + Capacity + take) % Capacity
    <3>1. take \in 0..Capacity
      BY <1>1, <1>2, <2>1
    <3> QED
      BY <1>1, <3>1, TurnForward
  <2>3. history' >= 0 /\ history' <= history + take /\ fill' + history' <= Capacity
    BY <1>1, <1>2, <2>1 DEF Forget, Min2
  <2>4. Turns(take)
    BY <1>1, <1>2, <1>3, <2>1, <2>2, <2>3 DEF Turns
  <2> QED
    BY <1>2, <2>4
<1> QED
  BY <1>4, <1>5

(* ... and a seek within the window moves them either way.                 *)
LEMMA SeekTurns ==
  ASSUME Inv, NEW dest \in Offsets, SeekInRing(dest)
  PROVE  Turns(dest - position)
<1> DEFINE by == dest - position
<1> USE HttpStreamAssumption
<1>1. /\ fill \in 0..Capacity /\ history \in 0..Capacity /\ position \in 0..Length
      /\ fill + history <= Capacity /\ Capacity \in Nat /\ Length \in Nat
  BY DEF Inv, TypeOK, Turned, Offsets
<1>2. /\ by \in Int /\ by <= fill /\ 0 - by <= history /\ position' = position + by
      /\ tail' = (tail + Capacity + by) % Capacity /\ fill' = fill - by
      /\ history' = IF by > 0 THEN Forget(history + by, fill - by) ELSE history + by
  BY <1>1 DEF SeekInRing, Offsets
<1>3. history' >= 0 /\ history' <= history + by /\ fill' + history' <= Capacity
  BY <1>1, <1>2 DEF Forget, Min2
<1>4. UNCHANGED <<ring, head, limited, remaining, conn, ended, thread, pump, stop>>
  BY DEF SeekInRing, flags, body
<1> QED
  BY <1>1, <1>2, <1>3, <1>4 DEF Turns

LEMMA PushPasses ==
  ASSUME Inv, NEW t \in Threads, PumpPush(t), ~stop
  PROVE  PushPass
<1>1. t = thread /\ pump[thread].pc = "push"
  BY Owner DEF PumpPush, At, Moving
<1> QED
  BY <1>1 DEF PumpPush, PushPass, Pushed, place

(* These are all the ways there are.                                       *)
LEMMA Windows ==
  ASSUME Inv, Next
  PROVE  /\ validator' = validator /\ seekable' = seekable
         /\ \/ PushPass \/ (\E by \in Int : Turns(by)) \/ SeekSwap
            \/ UNCHANGED <<buffer, position, limited, remaining>>
<1>1. validator' = validator /\ seekable' = seekable
  BY DEF Next, Pump, Finish, fixed, PumpCheck, PumpReceive, PumpLoses, PumpInterrupted, PumpPush,
         PumpExit, Read, ReadSome, SeekToEnd, SeekInRing, SeekFar, SeekRefused, SeekAccepted,
         StopPump, SeekSwap, SeekRelease, Close, Free, Replaced
<1>2. ASSUME NEW t \in Threads, Pump(t)
      PROVE  PushPass \/ UNCHANGED <<buffer, position, limited, remaining>>
  <2>1. CASE PumpPush(t) /\ ~stop
    BY <2>1, PushPasses
  <2>2. CASE PumpPush(t) /\ stop
    BY <2>2 DEF PumpPush, place
  <2> QED
    BY <1>2, <2>1, <2>2 DEF Pump, PumpCheck, PumpReceive, PumpLoses, PumpInterrupted, PumpExit, place, body
<1>3. CASE ReadSome
  BY <1>1, <1>3, ReadTurns
<1>4. ASSUME NEW dest \in Offsets, SeekInRing(dest)
      PROVE  \E by \in Int : Turns(by)
  <2>1. dest - position \in Int
    BY HttpStreamAssumption DEF Inv, TypeOK, Offsets
  <2> QED
    BY <1>4, <2>1, SeekTurns
<1>5. \/ \E t \in Threads : Pump(t)
      \/ ReadSome \/ SeekSwap
      \/ \E dest \in Offsets : SeekInRing(dest)
      \/ UNCHANGED <<buffer, position, limited, remaining>>
  BY DEF Next, Finish, Read, SeekToEnd, SeekFar, SeekRefused, SeekAccepted, StopPump, SeekRelease,
         Close, Free, Replaced, place, body
<1> QED
  BY <1>1, <1>2, <1>3, <1>4, <1>5

(* The window stays within the ring, and the rest of the entity behind it. *)
LEMMA TurnedStep ==
  ASSUME Inv, Next
  PROVE  Turned' /\ Placed'
<1> USE HttpStreamAssumption
<1>1. /\ fill \in 0..Capacity /\ history \in 0..Capacity /\ position \in 0..Length /\ tail \in Slots
      /\ fill + history <= Capacity /\ tail \in Nat /\ Capacity \in Nat /\ Length \in Nat
      /\ head = (tail + fill) % Capacity /\ position + fill <= Length
      /\ limited => remaining = Length - (position + fill)
  BY DEF Inv, TypeOK, Turned, Placed, Offsets, Slots
<1>2. CASE PushPass
  <2>1. Pushed \in Nat /\ Pushed <= Capacity - fill /\ position + fill + Pushed <= Length
    BY <1>1, <1>2, PushFacts DEF PushPass
  <2>2. (((tail + fill) % Capacity) + Pushed) % Capacity = (tail + (fill + Pushed)) % Capacity
    <3>1. Pushed \in 0..Capacity - fill
      BY <1>1, <2>1
    <3> QED
      BY <1>1, <3>1, AddedTwice
  <2>3. Turned'
    BY <1>1, <1>2, <2>1, <2>2 DEF PushPass, Turned, Forget, Min2
  <2>4. /\ fill' = fill + Pushed /\ UNCHANGED <<position, limited>>
        /\ remaining' = IF limited THEN remaining - Pushed ELSE remaining
    BY <1>2 DEF PushPass
  <2>5. Placed'
    BY <1>1, <2>1, <2>4 DEF Placed
  <2> QED
    BY <2>3, <2>5
<1>3. ASSUME NEW by \in Int, Turns(by)
      PROVE  Turned' /\ Placed'
  <2>1. (((tail + Capacity + by) % Capacity) + (fill - by)) % Capacity = (tail + fill) % Capacity
    <3>1. 0 - Capacity <= by /\ by <= fill /\ fill - by <= Capacity
      BY <1>1, <1>3 DEF Turns
    <3> QED
      BY <1>1, <1>3, <3>1, TurnedBack
  <2> QED
    BY <1>1, <1>3, <2>1 DEF Turns, Turned, Placed
<1>4. CASE SeekSwap
  <2>1. (0 + 0) % Capacity = 0 /\ call.dest \in 0..Length
    BY <1>4, CallFacts DEF SeekSwap, Inv, Offsets
  <2> QED
    BY <1>1, <1>4, <2>1 DEF SeekSwap, Turned, Placed
<1>5. CASE UNCHANGED <<buffer, position, limited, remaining>>
  BY <1>1, <1>5 DEF Turned, Placed, buffer
<1> QED
  BY <1>2, <1>3, <1>4, <1>5, Windows


LEMMA Between ==
  ASSUME NEW a \in Int, NEW b \in Int
  PROVE  \A i \in (0 - a)..b - 1 : i \in Int /\ 0 - a <= i /\ i <= b - 1
  OBVIOUS

(* What the window holds stays the entity, whatever the pump, a read or a  *)
(* seek does to it.                                                        *)
LEMMA RingStep ==
  ASSUME Inv, Next
  PROVE  RingHoldsTheEntity'
<1> USE HttpStreamAssumption
<1>1. /\ fill \in 0..Capacity /\ history \in 0..Capacity /\ position \in 0..Length /\ tail \in Slots
      /\ fill + history <= Capacity /\ tail \in Nat /\ Capacity \in Nat \ {0} /\ Length \in Nat
      /\ head = (tail + fill) % Capacity
  BY DEF Inv, TypeOK, Turned, Offsets, Slots
<1> DEFINE Holds(i) == /\ ring[Slot(tail, i)][2] = position + i
                       /\ validator \in {"strong", "dated"} => ring[Slot(tail, i)][1] = 1
<1>2. \A i \in (0 - history)..fill - 1 : Holds(i)
  BY DEF Inv, RingHoldsTheEntity, Byte, Slot
<1>3. SUFFICES ASSUME NEW i \in (0 - history')..fill' - 1
               PROVE  /\ ring'[Slot(tail', i)][2] = position' + i
                      /\ validator \in {"strong", "dated"} => ring'[Slot(tail', i)][1] = 1
  BY Windows DEF RingHoldsTheEntity, Byte, Slot
<1>4. CASE PushPass
  <2>1. /\ Pushed \in 0..Capacity - fill /\ Pushed <= Len(pump[thread].buf)
        /\ Len(pump[thread].buf) \in Nat /\ pump[thread].pc = "push"
    BY <1>4, PushFacts DEF PushPass
  <2>2. /\ fill' = fill + Pushed /\ tail' = tail /\ position' = position
        /\ history' = Forget(history, fill + Pushed)
    BY <1>4 DEF PushPass
  <2>3. i \in Int /\ fill + Pushed - Capacity <= i /\ i < fill + Pushed /\ 0 - history <= i
    BY <1>1, <1>3, <2>1, <2>2 DEF Forget, Min2
  <2> DEFINE s == Slot(tail, i)
             k == (s - head + Capacity) % Capacity
  <2>4. s \in Slots /\ IF i >= fill THEN k = i - fill ELSE k >= Pushed
    BY <1>1, <2>1, <2>3, PushedSlots
  <2>5. ring'[s] = IF k < Pushed THEN pump[thread].buf[k + 1] ELSE ring[s]
    <3> HIDE DEF s
    <3> QED
      BY <1>4, <2>4 DEF PushPass
  <2>6. k \in Int
    BY <1>1, <2>4 DEF Slots
  <2> HIDE DEF s, k
  <2>7. CASE i >= fill
    <3>1. k + 1 \in 1..Len(pump[thread].buf) /\ k < Pushed /\ k + 1 = i - fill + 1
      BY <1>1, <2>1, <2>3, <2>4, <2>7
    <3>2. \A m \in 1..Len(pump[thread].buf) :
            pump[thread].buf[m] = <<conn.version, position + fill + m - 1>>
      BY <2>1 DEF Inv, InFlight, Follows
    <3>3. ring'[s] = <<conn.version, position + fill + (i - fill + 1) - 1>>
      BY <2>5, <3>1, <3>2
    <3>4. position + fill + (i - fill + 1) - 1 = position + i
      BY <1>1, <2>3
    <3>5. validator \in {"strong", "dated"} => conn.version = 1
      BY DEF Inv, OneVersion, Original
    <3> QED
      BY <2>2, <3>3, <3>4, <3>5 DEF s
  <2>8. CASE i < fill
    <3>1. ring'[s] = ring[s]
      BY <1>1, <2>1, <2>3, <2>4, <2>5, <2>6, <2>8
    <3>2. i \in (0 - history)..fill - 1
      BY <1>1, <2>3, <2>8
    <3>3. Holds(i)
      BY <1>2, <3>2
    <3> QED
      BY <2>2, <3>1, <3>3 DEF s
  <2> QED
    BY <1>1, <2>3, <2>7, <2>8
<1>5. ASSUME NEW by \in Int, Turns(by)
      PROVE  /\ ring'[Slot(tail', i)][2] = position' + i
             /\ validator \in {"strong", "dated"} => ring'[Slot(tail', i)][1] = 1
  <2>1. /\ by \in (0 - history)..fill /\ tail' = (tail + Capacity + by) % Capacity /\ fill' = fill - by
        /\ position' = position + by /\ history' >= 0 /\ history' <= history + by
        /\ fill' + history' <= Capacity /\ ring' = ring
    BY <1>5 DEF Turns
  <2>2. history' \in Int /\ fill' \in Int
    BY <1>1, TypeStep DEF TypeOK
  <2>3. i \in Int /\ by + i \in (0 - history)..fill - 1
    <3>1. i \in Int /\ 0 - history' <= i /\ i <= fill' - 1
      BY <2>2, Between
    <3>2. 0 - history <= by + i /\ by + i <= fill - 1
      <4> DEFINE h == history'
                 f == fill'
      <4>1. h \in Int /\ 0 - h <= i /\ i <= f - 1
        BY <2>2, <3>1
      <4>2. f = fill - by /\ h <= history + by
        BY <2>1
      <4> HIDE DEF h, f
      <4> QED
        BY <1>1, <3>1, <4>1, <4>2
    <3> QED
      BY <1>1, <3>1, <3>2
  <2>4. /\ 0 - Capacity <= by /\ by <= Capacity /\ 0 - Capacity <= i /\ i <= Capacity
        /\ 0 - Capacity <= by + i /\ by + i < Capacity
    BY <1>1, <1>3, <2>1, <2>2, <2>3
  <2>5. Slot(tail', i) = Slot(tail, by + i)
    BY <1>1, <2>1, <2>3, <2>4, TurnSlots
  <2>6. Holds(by + i)
    BY <1>2, <2>3
  <2>7. position + (by + i) = position' + i
    BY <1>1, <2>1, <2>3
  <2> QED
    BY <2>1, <2>5, <2>6, <2>7
<1>6. CASE SeekSwap
  BY <1>3, <1>6 DEF SeekSwap
<1>7. CASE UNCHANGED <<buffer, position, limited, remaining>>
  BY <1>2, <1>3, <1>7 DEF buffer
<1> QED
  BY <1>4, <1>5, <1>6, <1>7, Windows

(***************************************************************************)
(* What the pump pushes next, and why it ends.                             *)
(***************************************************************************)
(* The bytes the pump holds are the ones that follow the window.           *)
LEMMA InFlightStep ==
  ASSUME Inv, Next
  PROVE  InFlight'
<1> USE DEF Inv, InFlight
<1>0. /\ conn \in Conns /\ conn.next \in Nat /\ position \in Nat /\ fill \in Nat
      /\ Length \in Nat /\ \A dest \in Offsets : dest \in Nat
  BY HttpStreamAssumption DEF TypeOK, Conns, Offsets
<1>1. ASSUME NEW t \in Threads, Pump(t)
      PROVE  InFlight'
  <2>0. t = thread /\ thread' = thread /\ position' = position
    BY <1>1, PumpMoves DEF place
  <2> USE DEF Stages
  <2>1. CASE PumpCheck(t)
    <3>1. pump[t].pc = "check" /\ pump'[t].pc \in {"exit", "receive"} /\ UNCHANGED <<fill, conn>>
      BY <2>1 DEF PumpCheck, Goto, PumpType, At, buffer, body
    <3> QED
      BY <2>0, <3>1
  <2>2. CASE PumpReceive(t)
    <3>1. PICK n \in 1..Min2(Chunk, Length - conn.next) :
            /\ Goto(t, "push", [i \in 1..n |-> <<conn.version, conn.next + i - 1>>])
            /\ conn' = [conn EXCEPT !.next = @ + n]
      BY <2>2 DEF PumpReceive
    <3> DEFINE buf == [i \in 1..n |-> <<conn.version, conn.next + i - 1>>]
    <3>2. buf \in Chunks /\ n \in Nat /\ Len(buf) = n
      BY ReceiveFacts
    <3>3. pump'[thread] = [pc |-> "push", buf |-> buf]
      BY <2>0, <3>1, <3>2, Gotos
    <3>4. conn.next = position + fill /\ fill' = fill
      BY <2>0, <2>2 DEF PumpReceive, At, buffer
    <3>5. conn'.next = conn.next + n /\ conn'.version = conn.version
      BY <1>0, <3>1 DEF Conns
    <3>6. \A k \in 1..n : buf[k] = <<conn.version, position + fill + k - 1>>
      BY <3>4
    <3> HIDE DEF buf
    <3>7. pump'[thread'].pc = "push" /\ pump'[thread'].buf = buf
      BY <2>0, <3>3
    <3>8. Follows(pump[thread].buf)'
      BY <2>0, <3>2, <3>4, <3>5, <3>6, <3>7 DEF Follows
    <3> QED
      BY <3>7, <3>8
  <2>3. CASE PumpLoses(t) \/ PumpInterrupted(t) \/ PumpExit(t)
    <3>1. pump'[t].pc \in {"exit", "gone"}
      BY <2>3 DEF PumpLoses, PumpInterrupted, PumpExit, Goto, PumpType
    <3> QED
      BY <2>0, <3>1
  <2>4. CASE PumpPush(t) /\ stop
    <3>1. pump'[t].pc = "exit"
      BY <2>4 DEF PumpPush, Goto, PumpType
    <3> QED
      BY <2>0, <3>1
  <2>5. CASE PumpPush(t) /\ ~stop
    <3> DEFINE buf == pump[thread].buf
               rest == SubSeq(buf, Pushed + 1, Len(buf))
    <3>1. PushPass
      BY <2>5, PushPasses
    <3>2. /\ Pushed \in Nat /\ Len(buf) \in Nat /\ Pushed <= Len(buf) /\ rest \in Chunks
          /\ Len(rest) = Len(buf) - Pushed
          /\ \A k \in 1..Len(buf) - Pushed : rest[k] = buf[Pushed + k]
      BY <3>1, PushFacts DEF PushPass
    <3>3. pump'[thread] = [pc |-> IF Pushed = Len(buf) THEN "check" ELSE "push", buf |-> rest]
      BY <2>0, <3>1, <3>2, Gotos DEF PushPass
    <3>4. fill' = fill + Pushed /\ conn' = conn /\ Follows(buf)
      BY <3>1 DEF PushPass
    <3> HIDE DEF buf, rest
    <3>5. CASE Pushed = Len(buf)
      BY <1>0, <2>0, <3>2, <3>3, <3>4, <3>5 DEF Follows
    <3>6. CASE Pushed # Len(buf)
      <4>1. pump'[thread'] = [pc |-> "push", buf |-> rest]
        BY <2>0, <3>3, <3>6
      <4>2. conn.next = position + (fill + Pushed) + Len(rest)
        BY <1>0, <3>2, <3>4 DEF Follows
      <4>3. ASSUME NEW k \in 1..Len(rest)
            PROVE  rest[k] = <<conn.version, position + (fill + Pushed) + k - 1>>
        <5>1. Pushed + k \in 1..Len(buf) /\ rest[k] = buf[Pushed + k]
          BY <3>2
        <5>2. buf[Pushed + k] = <<conn.version, position + fill + (Pushed + k) - 1>>
          BY <3>4, <5>1 DEF Follows
        <5>3. position + fill + (Pushed + k) - 1 = position + (fill + Pushed) + k - 1
          BY <1>0, <3>2
        <5> QED
          BY <5>1, <5>2, <5>3
      <4> QED
        BY <2>0, <3>4, <4>1, <4>2, <4>3 DEF Follows
    <3> QED
      BY <3>5, <3>6
  <2> QED
    BY <1>1, <2>1, <2>2, <2>3, <2>4, <2>5 DEF Pump
<1>2. ASSUME NEW n \in 1..Length, Read(n)
      PROVE  InFlight'
  BY <1>2 DEF Read, buffer, place, body, Follows
<1>3. ASSUME ReadSome
      PROVE  InFlight'
  <2>1. PICK by \in Int : Turns(by)
    BY <1>3, ReadTurns
  <2>2. position' + fill' = position + fill /\ UNCHANGED <<conn, thread, pump>>
    BY <1>0, <2>1 DEF Turns
  <2> QED
    BY <2>2 DEF Follows
<1>4. ASSUME SeekToEnd
      PROVE  InFlight'
  BY <1>4 DEF SeekToEnd, buffer, place, body, Follows
<1>5. ASSUME NEW dest \in Offsets, SeekInRing(dest)
      PROVE  InFlight'
  <2>1. Turns(dest - position)
    BY <1>5, SeekTurns
  <2>2. dest - position \in Int
    BY <1>0
  <2>3. position' + fill' = position + fill /\ UNCHANGED <<conn, thread, pump>>
    BY <1>0, <2>1, <2>2 DEF Turns
  <2> QED
    BY <2>3 DEF Follows
<1>6. ASSUME NEW dest \in Offsets, SeekFar(dest)
      PROVE  InFlight'
  BY <1>6 DEF SeekFar, buffer, place, body, Follows
<1>7. ASSUME SeekRefused
      PROVE  InFlight'
  BY <1>7 DEF SeekRefused, buffer, place, body, Follows
<1>8. ASSUME SeekAccepted
      PROVE  InFlight'
  <2>1. pump'[thread] = pump[thread] /\ UNCHANGED <<position, fill, thread, conn>>
    BY <1>0, <1>8, OtherThread DEF SeekAccepted, Goto, PumpType, TypeOK, buffer, place, body
  <2> QED
    BY <2>1 DEF Follows
<1>9. ASSUME StopPump
      PROVE  InFlight'
  <2>1. UNCHANGED <<position, fill, thread, pump>> /\ conn'.next = conn.next /\ conn'.version = conn.version
    BY <1>0, <1>9 DEF StopPump, buffer, place, Conns
  <2> QED
    BY <2>1 DEF Follows
<1>10. ASSUME SeekSwap
      PROVE  InFlight'
  <2>1. call.candidate.next = call.dest /\ call.dest \in Offsets
    BY <1>10, CallFacts DEF SeekSwap, OneVersion, Replacement, Connection
  <2>2. /\ thread' = Other(thread) /\ pump' = pump /\ conn' = call.candidate
        /\ position' = call.dest /\ fill' = 0
    BY <1>10 DEF SeekSwap
  <2>3. pump'[thread'].pc = "gate"
    BY <1>10, <2>2 DEF SeekSwap, Handover
  <2> QED
    BY <1>0, <2>1, <2>2, <2>3 DEF Offsets
<1>11. ASSUME SeekRelease
      PROVE  InFlight'
  <2>1. pump'[thread].pc = "check" /\ UNCHANGED <<position, fill, thread, conn>>
    BY <1>0, <1>11 DEF SeekRelease, Goto, PumpType, TypeOK, buffer, place, body
  <2>2. pump[thread].pc = "gate"
    BY <1>11 DEF SeekRelease, Handover
  <2> QED
    BY <2>1, <2>2
<1>12. ASSUME Close
      PROVE  InFlight'
  BY <1>12 DEF Close, buffer, place, body, Follows
<1>13. ASSUME Free
      PROVE  InFlight'
  BY <1>13 DEF Free, buffer, place, body, Follows
<1>14. ASSUME Replaced
      PROVE  InFlight'
  BY <1>14 DEF Replaced, buffer, place, body, Follows
<1> QED
  BY <1>1, <1>2, <1>3, <1>4, <1>5, <1>6, <1>7, <1>8, <1>9, <1>10, <1>11, <1>12, <1>13, <1>14 DEF Next, Finish

(* A replacement is accepted only when it is of the version the validator names. *)
LEMMA OneVersionStep ==
  ASSUME Inv, Next
  PROVE  OneVersion'
<1> USE DEF Inv, OneVersion, Replacement, Original
<1>0. conn \in Conns
  BY DEF TypeOK, Conns
<1>1. ASSUME NEW t \in Threads, Pump(t)
      PROVE  OneVersion'
  <2>1. conn'.version = conn.version /\ UNCHANGED <<validator, call>>
    BY <1>0, <1>1 DEF Pump, PumpCheck, PumpReceive, PumpLoses, PumpInterrupted, PumpPush, PumpExit, body,
                      fixed, Conns
  <2> QED
    BY <2>1
<1>2. ASSUME NEW n \in 1..Length, Read(n)
      PROVE  OneVersion'
  BY <1>2 DEF Read, Begin, Idle, body, fixed
<1>3. ASSUME ReadSome
      PROVE  OneVersion'
  <2>1. call'.pc \in {"idle", "read", "close", "closed"} /\ UNCHANGED <<conn, validator>>
    BY <1>3, CallFacts DEF ReadSome, Idle, Simple, body, fixed
  <2> QED
    BY <2>1 DEF Simple
<1>4. ASSUME SeekToEnd
      PROVE  OneVersion'
  BY <1>4 DEF SeekToEnd, Begin, Idle, body, fixed
<1>5. ASSUME NEW dest \in Offsets, SeekInRing(dest)
      PROVE  OneVersion'
  BY <1>5 DEF SeekInRing, Begin, Idle, body, fixed
<1>6. ASSUME NEW dest \in Offsets, SeekFar(dest)
      PROVE  OneVersion'
  BY <1>6 DEF SeekFar, Begin, Idle, body, fixed
<1>7. ASSUME SeekRefused
      PROVE  OneVersion'
  <2>1. call'.pc \in {"idle", "read", "close", "closed"} /\ UNCHANGED <<conn, validator>>
    BY <1>7, CallFacts DEF SeekRefused, Idle, Simple, body, fixed
  <2> QED
    BY <2>1 DEF Simple
<1>8. ASSUME SeekAccepted
      PROVE  OneVersion'
  <2>1. PICK r \in Responses(call.dest) :
          /\ Accepted(r, call.dest)
          /\ call' = [pc |-> "stop", dest |-> call.dest, candidate |-> Connection(r.version, call.dest)]
    BY <1>8 DEF SeekAccepted
  <2>2. Original(r.version)
    BY <2>1 DEF Accepted, HasTag, HasDate, Same
  <2>3. UNCHANGED <<conn, validator>>
    BY <1>8 DEF SeekAccepted, body, fixed
  <2>4. call'.candidate = Connection(r.version, call.dest) /\ call'.dest = call.dest /\ call'.pc = "stop"
    BY <2>1
  <2>5. call'.candidate.version = r.version
    BY <2>4 DEF Connection
  <2> QED
    BY <2>2, <2>3, <2>4, <2>5
<1>9. ASSUME StopPump
      PROVE  OneVersion'
  <2>1. conn'.version = conn.version /\ validator' = validator
    BY <1>0, <1>9 DEF StopPump, Conns, fixed
  <2>2. CASE call.pc = "stop"
    <3>1. call'.pc = "join" /\ call'.dest = call.dest /\ call'.candidate = call.candidate
      BY <1>9, <2>2, CallFacts DEF StopPump
    <3> QED
      BY <2>1, <2>2, <3>1
  <2>3. CASE call.pc = "close"
    <3>1. call'.pc = "join to close"
      BY <1>9, <2>3, CallFacts DEF StopPump, Simple
    <3> QED
      BY <2>1, <3>1
  <2> QED
    BY <1>9, <2>2, <2>3 DEF StopPump
<1>10. ASSUME SeekSwap
      PROVE  OneVersion'
  <2>1. conn' = call.candidate /\ call'.pc = "release" /\ validator' = validator /\ call.pc = "join"
    BY <1>10 DEF SeekSwap, fixed
  <2> QED
    BY <2>1
<1>11. ASSUME SeekRelease
      PROVE  OneVersion'
  BY <1>11 DEF SeekRelease, Idle, body, fixed
<1>12. ASSUME Close
      PROVE  OneVersion'
  <2>1. call'.pc \in {"idle", "read", "close", "closed"} /\ UNCHANGED <<conn, validator>>
    BY <1>12, CallFacts DEF Close, Idle, Simple, body, fixed
  <2> QED
    BY <2>1 DEF Simple
<1>13. ASSUME Free
      PROVE  OneVersion'
  <2>1. call'.pc \in {"idle", "read", "close", "closed"} /\ UNCHANGED <<conn, validator>>
    BY <1>13, CallFacts DEF Free, Idle, Simple, body, fixed
  <2> QED
    BY <2>1 DEF Simple
<1>14. ASSUME Replaced
      PROVE  OneVersion'
  BY <1>14 DEF Replaced, body, fixed
<1> QED
  BY <1>1, <1>2, <1>3, <1>4, <1>5, <1>6, <1>7, <1>8, <1>9, <1>10, <1>11, <1>12, <1>13, <1>14 DEF Next, Finish

(* A pump that nobody stopped ended with the entity or with the connection. *)
LEMMA EndingsStep ==
  ASSUME Inv, Next
  PROVE  Endings'
<1> USE DEF Inv, Endings
<1>0. conn \in Conns
  BY DEF TypeOK, Conns
<1>1. ASSUME NEW t \in Threads, Pump(t)
      PROVE  Endings'
  <2>0. t = thread /\ thread' = thread /\ stop' = stop /\ limited' = limited /\ pump[thread].pc \in Moving
    BY <1>1, PumpMoves
  <2> USE DEF Stages, Moving
  <2>1. CASE PumpCheck(t)
    <3>1. /\ UNCHANGED <<ended, conn, remaining>> /\ pump'[t].pc \in {"exit", "receive"}
          /\ pump'[t].pc = "exit" => stop \/ (limited /\ remaining = 0)
      BY <2>1 DEF PumpCheck, Goto, PumpType, flags, body
    <3>2. CASE stop
      BY <2>0, <3>2
    <3>3. CASE ~stop
      <4>1. ~ended
        BY <2>0, <3>3
      <4>2. conn.up
        BY <2>0, <2>1, <3>3 DEF PumpCheck, At
      <4> QED
        BY <2>0, <3>1, <3>3, <4>1, <4>2
    <3> QED
      BY <3>2, <3>3
  <2>2. CASE PumpReceive(t)
    <3>1. PICK n \in 1..Min2(Chunk, Length - conn.next) :
            /\ Goto(t, "push", [i \in 1..n |-> <<conn.version, conn.next + i - 1>>])
            /\ conn' = [conn EXCEPT !.next = @ + n]
      BY <2>2 DEF PumpReceive
    <3>2. pump'[t].pc = "push"
      BY <3>1 DEF Goto, PumpType
    <3>3. conn'.up = conn.up /\ ended' = ended /\ pump[t].pc = "receive"
      BY <1>0, <2>2, <3>1 DEF PumpReceive, Conns, flags, At
    <3> QED
      BY <2>0, <3>2, <3>3
  <2>3. CASE PumpLoses(t)
    <3>1. pump'[t].pc = "exit" /\ conn'.cut /\ ended' = ended
      BY <1>0, <2>3 DEF PumpLoses, Goto, PumpType, Conns, flags
    <3> QED
      BY <2>0, <3>1
  <2>4. CASE PumpInterrupted(t)
    <3>1. ~conn.up /\ pump[t].pc = "receive" /\ stop' = stop
      BY <2>4 DEF PumpInterrupted, At, flags
    <3> QED
      BY <2>0, <3>1
  <2>5. CASE PumpPush(t) /\ stop
    BY <2>0, <2>5
  <2>6. CASE PumpPush(t) /\ ~stop
    <3>1. PushPass
      BY <2>6, PushPasses
    <3>2. pump'[t].pc \in {"check", "push"}
      BY <2>0, <3>1 DEF PushPass, Goto, PumpType
    <3>3. UNCHANGED <<conn, ended>> /\ pump[t].pc = "push"
      BY <2>6 DEF PumpPush, flags, At
    <3> QED
      BY <2>0, <3>2, <3>3
  <2>7. CASE PumpExit(t)
    <3>1. /\ pump'[t].pc = "gone" /\ pump[t].pc = "exit" /\ ended'
          /\ conn'.cut = conn.cut /\ remaining' = remaining
      BY <1>0, <2>7 DEF PumpExit, Goto, PumpType, At, Conns, body
    <3> QED
      BY <2>0, <3>1
  <2> QED
    BY <1>1, <2>1, <2>2, <2>3, <2>4, <2>5, <2>6, <2>7 DEF Pump
<1>2. ASSUME NEW n \in 1..Length, Read(n)
      PROVE  Endings'
  BY <1>2 DEF Read, flags, body
<1>3. ASSUME ReadSome
      PROVE  Endings'
  BY <1>3 DEF ReadSome, flags, body
<1>4. ASSUME SeekToEnd
      PROVE  Endings'
  BY <1>4 DEF SeekToEnd, flags, body
<1>5. ASSUME NEW dest \in Offsets, SeekInRing(dest)
      PROVE  Endings'
  BY <1>5 DEF SeekInRing, flags, body
<1>6. ASSUME NEW dest \in Offsets, SeekFar(dest)
      PROVE  Endings'
  BY <1>6 DEF SeekFar, flags, body
<1>7. ASSUME SeekRefused
      PROVE  Endings'
  BY <1>7 DEF SeekRefused, flags, body
<1>8. ASSUME SeekAccepted
      PROVE  Endings'
  <2>1. pump'[thread] = pump[thread] /\ UNCHANGED <<thread, flags, body>>
    BY <1>8, OtherThread DEF SeekAccepted, Goto, PumpType, TypeOK
  <2> QED
    BY <2>1 DEF flags, body
<1>9. ASSUME StopPump
      PROVE  Endings'
  BY <1>9 DEF StopPump
<1>10. ASSUME SeekSwap
      PROVE  Endings'
  <2>1. thread' = Other(thread) /\ pump' = pump /\ conn' = call.candidate /\ ~ended'
    BY <1>10 DEF SeekSwap
  <2>2. pump'[thread'].pc = "gate"
    BY <1>10, <2>1 DEF SeekSwap, Handover
  <2>3. conn'.up
    BY <1>10, <2>1 DEF SeekSwap, OneVersion, Replacement, Connection
  <2> QED
    BY <2>1, <2>2, <2>3
<1>11. ASSUME SeekRelease
      PROVE  Endings'
  <2>1. pump[thread].pc = "gate" /\ pump'[thread].pc = "check" /\ UNCHANGED <<thread, flags, body>>
    BY <1>11 DEF SeekRelease, Goto, PumpType, TypeOK, Handover
  <2> QED
    BY <2>1 DEF flags, body
<1>12. ASSUME Close
      PROVE  Endings'
  BY <1>12 DEF Close, flags, body
<1>13. ASSUME Free
      PROVE  Endings'
  BY <1>13 DEF Free, flags, body
<1>14. ASSUME Replaced
      PROVE  Endings'
  BY <1>14 DEF Replaced, flags, body
<1> QED
  BY <1>1, <1>2, <1>3, <1>4, <1>5, <1>6, <1>7, <1>8, <1>9, <1>10, <1>11, <1>12, <1>13, <1>14 DEF Next, Finish



(***************************************************************************)
(* The theorems.                                                           *)
(***************************************************************************)
LEMMA InitInv == Init => Inv
<1> SUFFICES ASSUME Init PROVE Inv
  OBVIOUS
<1> USE HttpStreamAssumption DEF Init
<1>1. 0 \in Slots /\ Unset \in Bytes /\ 0 \in Offsets /\ Length \in Offsets /\ 1 \in Threads /\ 1 \in Versions
      /\ 0 \in 0..Capacity /\ 0 % Capacity = 0
  BY DEF Slots, Bytes, Offsets, Threads, Versions
<1>2. TypeOK
  BY <1>1 DEF TypeOK, Connection, NoPump, Threads
<1>3. CallType /\ RestType
  BY <1>1, CallsClosed DEF CallType, RestType, Idle, Simple
<1>4. PumpType
  BY NoBuffer DEF PumpType, NoPump, Stages
<1>5. Handover
  BY DEF Handover, Idle, NoPump, Threads, Other
<1>6. Turned /\ Placed
  BY <1>1 DEF Turned, Placed
<1>7. InFlight /\ OneVersion /\ Endings
  BY DEF InFlight, OneVersion, Original, Replacement, Endings, Connection, Idle, NoPump, Threads
<1>8. RingHoldsTheEntity
  BY DEF RingHoldsTheEntity
<1> QED
  BY <1>2, <1>3, <1>4, <1>5, <1>6, <1>7, <1>8 DEF Inv

LEMMA StepInv == Inv /\ [Next]_vars => Inv'
<1>1. ASSUME Inv, Next
      PROVE  Inv'
  BY <1>1, PumpStep, CallStep, RestStep, TypeStep, HandoverStep, TurnedStep, RingStep, InFlightStep,
     OneVersionStep, EndingsStep DEF Inv
<1>2. ASSUME Inv, UNCHANGED vars
      PROVE  Inv'
  <2>1. TypeOK' /\ CallType' /\ PumpType' /\ RestType'
    BY <1>2 DEF Inv, vars, buffer, place, flags, body, fixed, TypeOK, CallType, PumpType, RestType
  <2>2. Handover' /\ Turned' /\ Placed' /\ Endings'
    BY <1>2 DEF Inv, vars, buffer, place, flags, body, Handover, Turned, Placed, Endings
  <2>3. InFlight' /\ OneVersion'
    BY <1>2 DEF Inv, vars, buffer, place, body, fixed, InFlight, Follows, OneVersion, Original, Replacement
  <2>4. RingHoldsTheEntity'
    BY <1>2 DEF Inv, vars, buffer, place, fixed, RingHoldsTheEntity, Byte
  <2> QED
    BY <2>1, <2>2, <2>3, <2>4 DEF Inv
<1> QED
  BY <1>1, <1>2

(* The invariant holds in every state of every behaviour.                  *)
THEOREM Invariance == Spec => []Inv
  BY InitInv, StepInv, PTL DEF Spec

(* Every variable keeps its type.                                          *)
THEOREM TypeCorrect == Spec => []TypeOK
<1>1. Inv => TypeOK
  BY DEF Inv
<1> QED
  BY <1>1, Invariance, PTL

(* What lies buffered around the position is the entity, in its place, and of *)
(* one version when the first response named it: push_ring(), the loop of  *)
(* http_stream_read() and the seek within the ring agree on the slots.     *)
THEOREM RingIsTheEntity == Spec => []RingHoldsTheEntity
<1>1. Inv => RingHoldsTheEntity
  BY DEF Inv
<1> QED
  BY <1>1, Invariance, PTL

(* A read that returns less than was asked for has met the end.            *)
LEMMA ShortRead ==
  ASSUME Inv, [Next]_vars, call.pc = "read", call'.pc = "idle", call.left > 0
  PROVE  atVirtualEnd \/ position = Length \/ conn.cut
<1> USE HttpStreamAssumption
<1>1. Next
  BY DEF vars
<1>2. ReadSome
  <2>1. ASSUME NEW t \in Threads, Pump(t)
        PROVE  FALSE
    BY <2>1, PumpMoves
  <2> QED
    BY <1>1, <2>1 DEF Next, Finish, Read, SeekToEnd, SeekInRing, SeekFar, Begin, Idle, SeekRefused,
       SeekAccepted, StopPump, SeekSwap, SeekRelease, Close, Free, Replaced
<1>3. call.left # 0 /\ ~stop /\ call.left \in Nat
  BY CallFacts DEF Inv, Handover
<1> DEFINE take == Min2(Min2(call.left, fill), IF seekable THEN Length - position ELSE fill)
<1>4. atVirtualEnd \/ (fill = 0 /\ ended) \/ (fill > 0 /\ take = 0)
  <2>1. ASSUME NEW n
        PROVE  call' # [call EXCEPT !.left = @ - n]
    BY CallFacts DEF Inv
  <2>2. \/ call.left = 0 \/ atVirtualEnd \/ (fill = 0 /\ (ended \/ stop)) \/ (fill > 0 /\ take = 0)
        \/ call' = [call EXCEPT !.left = @ - take]
    BY <1>2 DEF ReadSome
  <2>3. call' # [call EXCEPT !.left = @ - take]
    BY <2>1
  <2> QED
    BY <1>3, <2>2, <2>3
<1>5. CASE fill = 0 /\ ended
  BY <1>3, <1>5 DEF Inv, Endings, Placed, TypeOK, Offsets
<1>6. CASE fill > 0 /\ take = 0
  BY <1>3, <1>6 DEF Inv, Placed, TypeOK, Offsets, Min2
<1> QED
  BY <1>4, <1>5, <1>6

(* http_stream_read() returns short only at the end of the entity or when the *)
(* server or the network ended the connection.                             *)
THEOREM ShortReads == Spec => ShortReadMeansTheEnd
<1>1. Inv /\ [Next]_vars =>
        [call.pc = "read" /\ call'.pc = "idle" /\ call.left > 0
           => atVirtualEnd \/ position = Length \/ conn.cut]_vars
  BY ShortRead
<1> QED
  BY <1>1, Invariance, PTL DEF Spec, ShortReadMeansTheEnd
=============================================================================

------------------------- MODULE PlayerQueue_proofs -------------------------
EXTENDS PlayerQueue, SequenceTheorems, FunctionTheorems, FiniteSetTheorems,
        WellFoundedInduction, TLAPS
(*****************************************************************************)
(* What the operations of the queue keep and what they return, for every     *)
(* queue, every bag the shuffle may draw and every mode.                     *)
(*****************************************************************************)
Places == Nat \cup {-1}
Queues == [paths : Seq(Tracks), current : Places, pending : Nat, insert : Places,
           order : Seq(Nat), pos : Places, cont : Seq(Nat)]
Order(o) == IsOrder(o, Len(o))
Bag(q) == Order(q.order) /\ Order(q.cont) /\ (q.cont # NoOrder => Len(q.cont) = Len(q.order))
GoodQueue(q) == q \in Queues /\ Bag(q)
SameTracks(r, q) ==
  r.paths = q.paths /\ r.current = q.current /\ r.pending = q.pending /\ r.insert = q.insert

(* What follows from IsOrder: the slots of a bag are in range and different. *)
LEMMA OrderFacts ==
  ASSUME NEW o \in Seq(Nat), Order(o)
  PROVE  /\ Len(o) \in Nat /\ DOMAIN o = 1..Len(o)
         /\ \A i \in 1..Len(o) : o[i] \in Nat /\ o[i] <= Len(o) - 1
         /\ \A i, j \in 1..Len(o) : i # j => o[i] # o[j]
<1>1. Len(o) \in Nat /\ DOMAIN o = 1..Len(o)
  OBVIOUS
<1>2. o \in [1..Len(o) -> 0..(Len(o) - 1)] /\ \A i, j \in 1..Len(o) : i < j => o[i] # o[j]
  BY <1>1 DEF Order, IsOrder, Distinct
<1>3. ASSUME NEW i \in 1..Len(o), NEW j \in 1..Len(o), i # j
      PROVE  o[i] # o[j]
  <2>1. i < j \/ j < i
    BY <1>1, <1>3
  <2> QED
    BY <1>2, <2>1
<1> QED
  BY <1>1, <1>2, <1>3

(* ... and how a sequence of different slots in range becomes one.           *)
LEMMA OrderBuilt ==
  ASSUME NEW n \in Nat, NEW o, o \in [1..n -> 0..(n - 1)],
         \A i, j \in 1..n : i < j => o[i] # o[j]
  PROVE  o \in Seq(Nat) /\ Len(o) = n /\ Order(o)
<1>1. o \in Seq(Nat) /\ Len(o) = n
  <2>1. o \in [1..n -> Nat]
    OBVIOUS
  <2> QED
    BY <2>1
<1> QED
  BY <1>1 DEF Order, IsOrder, Distinct

(* The bags a shuffle may draw (playback_order_build).                       *)
LEMMA OrdersFacts ==
  ASSUME NEW n \in Nat, NEW o \in Orders(n)
  PROVE  o \in Seq(Nat) /\ Len(o) = n /\ Order(o)
<1>1. o \in [1..n -> 0..(n - 1)] /\ DOMAIN o = 1..n
  BY DEF Orders
<1>2. \A i, j \in 1..n : i < j => o[i] # o[j]
  BY <1>1 DEF Orders, Distinct
<1> QED
  BY <1>1, <1>2, OrderBuilt

LEMMA NoOrderFacts == NoOrder \in Seq(Nat) /\ Len(NoOrder) = 0 /\ Order(NoOrder)
<1>1. Len(<<>>) = 0 /\ <<>> \in [1..0 -> 0..(0 - 1)]
  OBVIOUS
<1> QED
  BY <1>1 DEF NoOrder, Order, IsOrder, Distinct

LEMMA IdentityFacts ==
  ASSUME NEW n \in Nat
  PROVE  Identity(n) \in Seq(Nat) /\ Len(Identity(n)) = n /\ Order(Identity(n))
<1>1. Identity(n) \in [1..n -> 0..(n - 1)]
  BY DEF Identity
<1>2. \A i, j \in 1..n : i < j => Identity(n)[i] # Identity(n)[j]
  BY DEF Identity
<1> QED
  BY <1>1, <1>2, OrderBuilt

(* queue_shuffle_insert(): the slots behind the new ones move up.            *)
LEMMA InsertFacts ==
  ASSUME NEW o \in Seq(Nat), Order(o), NEW physical \in 0..Len(o), NEW at \in 0..Len(o), NEW added \in Nat
  PROVE  LET new == OrderInsert(o, physical, at, added)
         IN  new \in Seq(Nat) /\ Len(new) = Len(o) + added /\ Order(new)
<1> DEFINE n == Len(o) + added
           Up(slot) == IF slot >= physical THEN slot + added ELSE slot
           new == OrderInsert(o, physical, at, added)
           Old(i) == IF i <= at THEN i ELSE i - added
<1>1. n \in Nat /\ Len(o) \in Nat
  OBVIOUS
<1>2. /\ \A i \in 1..Len(o) : o[i] \in Nat /\ o[i] <= Len(o) - 1
      /\ \A i, j \in 1..Len(o) : i # j => o[i] # o[j]
  BY OrderFacts
<1>3. DOMAIN new = 1..n /\ \A i \in 1..n : new[i] =
         IF i <= at THEN Up(o[i])
         ELSE IF i <= at + added THEN physical + i - at - 1 ELSE Up(o[i - added])
  BY DEF OrderInsert
<1> HIDE DEF new
<1>4. \A i \in 1..n : /\ i \in at + 1..at + added => new[i] = physical + i - at - 1
                      /\ i \notin at + 1..at + added => Old(i) \in 1..Len(o) /\ new[i] = Up(o[Old(i)])
  BY <1>1, <1>3
<1>5. \A s \in Nat : s <= Len(o) - 1 =>
         Up(s) \in Nat /\ Up(s) <= n - 1 /\ Up(s) \notin physical..physical + added - 1
  BY <1>1
<1>6. \A r, s \in Nat : r # s => Up(r) # Up(s)
  BY <1>1
<1> HIDE DEF Up
<1>7. ASSUME NEW i \in 1..n
      PROVE  new[i] \in 0..(n - 1)
  <2>1. CASE i \in at + 1..at + added
    BY <1>1, <1>4, <2>1
  <2>2. CASE i \notin at + 1..at + added
    <3>1. o[Old(i)] \in Nat /\ o[Old(i)] <= Len(o) - 1 /\ new[i] = Up(o[Old(i)])
      BY <1>2, <1>4, <2>2
    <3> HIDE DEF Old
    <3> QED
      BY <1>1, <1>5, <3>1
  <2> QED
    BY <2>1, <2>2
<1>8. ASSUME NEW i \in 1..n, NEW j \in 1..n, i < j
      PROVE  new[i] # new[j]
  <2>1. CASE i \in at + 1..at + added /\ j \in at + 1..at + added
    BY <1>1, <1>4, <1>8, <2>1
  <2>2. CASE i \in at + 1..at + added /\ j \notin at + 1..at + added
    <3>1. new[i] \in physical..physical + added - 1
      BY <1>1, <1>4, <2>2
    <3>2. o[Old(j)] \in Nat /\ o[Old(j)] <= Len(o) - 1 /\ new[j] = Up(o[Old(j)])
      BY <1>2, <1>4, <2>2
    <3> HIDE DEF Old
    <3> QED
      BY <1>5, <3>1, <3>2
  <2>3. CASE i \notin at + 1..at + added /\ j \in at + 1..at + added
    <3>1. new[j] \in physical..physical + added - 1
      BY <1>1, <1>4, <2>3
    <3>2. o[Old(i)] \in Nat /\ o[Old(i)] <= Len(o) - 1 /\ new[i] = Up(o[Old(i)])
      BY <1>2, <1>4, <2>3
    <3> HIDE DEF Old
    <3> QED
      BY <1>5, <3>1, <3>2
  <2>4. CASE i \notin at + 1..at + added /\ j \notin at + 1..at + added
    <3>1. Old(i) # Old(j)
      BY <1>1, <1>8, <2>4
    <3> HIDE DEF Old
    <3> QED
      BY <1>2, <1>4, <1>6, <2>4, <3>1
  <2> QED
    BY <2>1, <2>2, <2>3, <2>4
<1>9. new \in [1..n -> 0..(n - 1)]
  <2>1. new = [i \in 1..n |-> new[i]]
    BY <1>3 DEF new, OrderInsert
  <2> QED
    BY <1>7, <2>1
<1>10. new \in Seq(Nat) /\ Len(new) = n /\ Order(new)
  <2> HIDE DEF n
  <2> QED
    BY <1>1, <1>8, <1>9, OrderBuilt
<1> QED
  BY <1>10 DEF new

(* queue_shuffle_remove(): the slots behind the removed one move down.       *)
LEMMA RemoveFacts ==
  ASSUME NEW o \in Seq(Nat), Order(o), NEW k \in 1..Len(o)
  PROVE  LET new == OrderRemove(o, k)
         IN  new \in Seq(Nat) /\ Len(new) = Len(o) - 1 /\ Order(new)
<1> DEFINE n == Len(o) - 1
           Down(slot) == IF slot > o[k] THEN slot - 1 ELSE slot
           new == OrderRemove(o, k)
           Old(i) == IF i < k THEN i ELSE i + 1
<1>1. n \in Nat /\ Len(o) \in Nat
  OBVIOUS
<1>2. /\ \A i \in 1..Len(o) : o[i] \in Nat /\ o[i] <= Len(o) - 1
      /\ \A i, j \in 1..Len(o) : i # j => o[i] # o[j]
  BY OrderFacts
<1>3. new = [i \in 1..n |-> Down(o[Old(i)])]
  BY DEF OrderRemove
<1> HIDE DEF new
<1>4. \A i \in 1..n : Old(i) \in 1..Len(o) /\ Old(i) # k
  BY <1>1
<1>5. \A i, j \in 1..n : i < j => Old(i) # Old(j)
  BY <1>1
<1> HIDE DEF Old
<1>6. \A i \in 1..n : o[Old(i)] \in Nat /\ o[Old(i)] <= n /\ o[Old(i)] # o[k]
  BY <1>2, <1>4
<1>7. o[k] \in Nat /\ o[k] <= n
  BY <1>2
<1> HIDE DEF n
<1>11. \A s \in Nat : s <= n /\ s # o[k] => Down(s) \in 0..(n - 1)
  BY <1>1, <1>7
<1>12. \A r, s \in Nat : r # s /\ r # o[k] /\ s # o[k] => Down(r) # Down(s)
  BY <1>7
<1> HIDE DEF Down
<1>8. new \in [1..n -> 0..(n - 1)]
  BY <1>3, <1>6, <1>11
<1>9. ASSUME NEW i \in 1..n, NEW j \in 1..n, i < j
      PROVE  new[i] # new[j]
  <2>1. o[Old(i)] # o[Old(j)]
    BY <1>2, <1>4, <1>5, <1>9
  <2> QED
    BY <1>3, <1>6, <1>12, <2>1
<1>10. new \in Seq(Nat) /\ Len(new) = n /\ Order(new)
  BY <1>1, <1>8, <1>9, OrderBuilt
<1> QED
  BY <1>10 DEF new, n

(*****************************************************************************)
(* The list of paths: read through a bag, shortened, extended.               *)
(*****************************************************************************)
LEMMA InOrderFacts ==
  ASSUME NEW paths \in Seq(Tracks), NEW o \in Seq(Nat), Order(o), Len(o) = Len(paths)
  PROVE  InOrder(paths, o) \in Seq(Tracks) /\ Len(InOrder(paths, o)) = Len(paths)
<1>1. \A i \in 1..Len(paths) : paths[o[i] + 1] \in Tracks
  BY OrderFacts
<1>2. InOrder(paths, o) \in [1..Len(paths) -> Tracks] /\ Len(paths) \in Nat
  BY <1>1 DEF InOrder
<1> QED
  BY <1>2 DEF InOrder

LEMMA WithoutFacts ==
  ASSUME NEW paths \in Seq(Tracks), NEW slot \in 0..Len(paths) - 1
  PROVE  Without(paths, slot) \in Seq(Tracks) /\ Len(Without(paths, slot)) = Len(paths) - 1
<1>1. /\ SubSeq(paths, 1, slot) \in Seq(Tracks) /\ Len(SubSeq(paths, 1, slot)) = slot
      /\ SubSeq(paths, slot + 2, Len(paths)) \in Seq(Tracks)
      /\ Len(SubSeq(paths, slot + 2, Len(paths))) = Len(paths) - slot - 1
  BY SubSeqProperties
<1> DEFINE pre == SubSeq(paths, 1, slot)
           post == SubSeq(paths, slot + 2, Len(paths))
<1>2. pre \in Seq(Tracks) /\ Len(pre) = slot /\ post \in Seq(Tracks) /\ Len(post) = Len(paths) - slot - 1
  BY <1>1
<1>3. Without(paths, slot) = pre \o post
  BY DEF Without
<1> HIDE DEF pre, post
<1>4. pre \o post \in Seq(Tracks) /\ Len(pre \o post) = Len(pre) + Len(post)
  BY <1>2, ConcatProperties
<1>5. Len(pre) + Len(post) = Len(paths) - 1
  BY <1>2
<1> QED
  BY <1>3, <1>4, <1>5

LEMMA WithFacts ==
  ASSUME NEW paths \in Seq(Tracks), NEW slot \in 0..Len(paths), NEW new \in Seq(Tracks)
  PROVE  /\ With(paths, slot, new) \in Seq(Tracks)
         /\ Len(With(paths, slot, new)) = Len(paths) + Len(new)
         /\ \A i \in 1..Len(new) : With(paths, slot, new)[slot + i] = new[i]
<1>1. /\ SubSeq(paths, 1, slot) \in Seq(Tracks) /\ Len(SubSeq(paths, 1, slot)) = slot
      /\ SubSeq(paths, slot + 1, Len(paths)) \in Seq(Tracks)
      /\ Len(SubSeq(paths, slot + 1, Len(paths))) = Len(paths) - slot
  BY SubSeqProperties
<1> DEFINE pre == SubSeq(paths, 1, slot)
           post == SubSeq(paths, slot + 1, Len(paths))
<1>2. pre \in Seq(Tracks) /\ Len(pre) = slot /\ post \in Seq(Tracks) /\ Len(post) = Len(paths) - slot
  BY <1>1
<1>3. With(paths, slot, new) = pre \o new \o post
  BY DEF With
<1> HIDE DEF pre, post
<1>4. /\ pre \o new \in Seq(Tracks) /\ Len(pre \o new) = slot + Len(new)
      /\ \A i \in 1..slot + Len(new) : (pre \o new)[i] = IF i <= slot THEN pre[i] ELSE new[i - slot]
  BY <1>2, ConcatProperties
<1> DEFINE first == pre \o new
<1> HIDE DEF first
<1>8. /\ first \in Seq(Tracks) /\ Len(first) = slot + Len(new)
      /\ first \o post \in Seq(Tracks) /\ Len(first \o post) = Len(first) + Len(post)
      /\ \A i \in 1..Len(first) + Len(post) :
           (first \o post)[i] = IF i <= Len(first) THEN first[i] ELSE post[i - Len(first)]
  <2>1. first \in Seq(Tracks) /\ Len(first) = slot + Len(new)
    BY <1>4 DEF first
  <2>2. first \o post \in Seq(Tracks) /\ Len(first \o post) = Len(first) + Len(post)
    BY <1>2, <2>1, ConcatProperties
  <2>3. \A i \in 1..Len(first) + Len(post) :
           (first \o post)[i] = IF i <= Len(first) THEN first[i] ELSE post[i - Len(first)]
    BY <1>2, <2>1, ConcatProperties
  <2> QED
    BY <2>1, <2>2, <2>3
<1>5. /\ pre \o new \o post \in Seq(Tracks) /\ Len(pre \o new \o post) = slot + Len(new) + Len(post)
      /\ \A i \in 1..slot + Len(new) + Len(post) :
           (pre \o new \o post)[i] = IF i <= slot + Len(new) THEN (pre \o new)[i] ELSE post[i - (slot + Len(new))]
  BY <1>8 DEF first
<1>6. \A i \in 1..Len(new) : (pre \o new \o post)[slot + i] = new[i]
  <2>1. ASSUME NEW i \in 1..Len(new)
        PROVE  (pre \o new \o post)[slot + i] = new[i]
    <3>1. slot + i \in 1..slot + Len(new) /\ slot + i \in 1..slot + Len(new) + Len(post) /\ slot + i > slot
          /\ slot + i - slot = i /\ slot + i <= slot + Len(new)
      BY <1>2
    <3> QED
      BY <1>4, <1>5, <3>1
  <2> QED
    BY <2>1
<1>7. slot + Len(new) + Len(post) = Len(paths) + Len(new)
  BY <1>2
<1> QED
  BY <1>3, <1>5, <1>6, <1>7

LEMMA LeastFacts ==
  ASSUME NEW S \in SUBSET Nat, S # {}
  PROVE  Least(S) \in S /\ \A y \in S : Least(S) <= y
<1>1. PICK x \in S : \A y \in S : ~(<<y, x>> \in OpToRel(<, Nat))
  BY NatLessThanWellFounded, WFMin
<1>2. \A y \in S : ~(y < x)
  <2>1. ASSUME NEW y \in S, y < x
        PROVE  <<y, x>> \in OpToRel(<, Nat)
    BY <2>1 DEF OpToRel
  <2> QED
    BY <1>1, <2>1
<1>3. \A y \in S : x <= y
  BY <1>2
<1> QED
  BY <1>3 DEF Least

(*****************************************************************************)
(* Preparing the bag.  A bag in use covers the queue when it has a slot for  *)
(* every track: what reads one past the tracks it knows of stays inside.     *)
(*****************************************************************************)
Covers(q) == q.order = NoOrder \/ Len(q.order) >= Count(q)

LEMMA CountFacts ==
  ASSUME NEW q, GoodQueue(q)
  PROVE  /\ Count(q) \in Nat
         /\ \A i \in 1..Count(q) : q.paths[i] \in Tracks
         /\ \A i \in Int : InQueue(q, i) => PathAt(q, i) \in Tracks
<1>1. q.paths \in Seq(Tracks)
  BY DEF GoodQueue, Queues
<1>2. Count(q) \in Nat /\ \A i \in 1..Count(q) : q.paths[i] \in Tracks
  BY <1>1 DEF Count
<1> QED
  BY <1>2 DEF InQueue, PathAt

(* ensure_shuffle_order_current() leaves a bag of the queue's own length ... *)
LEMMA Ensured ==
  ASSUME NEW q, GoodQueue(q), NEW r \in ensure_shuffle_order_current(q)
  PROVE  /\ GoodQueue(r) /\ SameTracks(r, q)
         /\ Count(r) = Count(q) /\ Len(r.order) = Count(q)
<1>1. CASE BagIsCurrent(q)
  BY <1>1 DEF ensure_shuffle_order_current, BagIsCurrent, SameTracks
<1>2. CASE ~BagIsCurrent(q)
  <2>1. PICK o \in FreshOrders(q) : r = [q EXCEPT !.order = o, !.pos = 0, !.cont = NoOrder]
    BY <1>2 DEF ensure_shuffle_order_current
  <2>2. o \in Seq(Nat) /\ Order(o) /\ Len(o) = Count(q)
    BY CountFacts, OrdersFacts DEF FreshOrders
  <2>3. 0 \in Places
    BY DEF Places
  <2>4. GoodQueue(r) /\ SameTracks(r, q) /\ r.order = o
    BY <2>1, <2>2, <2>3, NoOrderFacts DEF GoodQueue, Queues, Bag, SameTracks
  <2> QED
    BY <2>2, <2>4 DEF Count, SameTracks
<1> QED
  BY <1>1, <1>2

(* ... and the continuation of a bag that repeats is as long.                *)
LEMMA Continued ==
  ASSUME NEW q, GoodQueue(q), Len(q.order) = Count(q), NEW r \in WithContinuation(q)
  PROVE  /\ GoodQueue(r) /\ SameTracks(r, q) /\ r.order = q.order /\ r.pos = q.pos
         /\ Count(r) = Count(q) /\ Len(r.cont) = Count(q)
<1>1. CASE q.cont # NoOrder
  BY <1>1 DEF WithContinuation, SameTracks, GoodQueue, Bag
<1>2. CASE q.cont = NoOrder
  <2>1. PICK o \in Orders(Count(q)) : r = [q EXCEPT !.cont = o]
    BY <1>2 DEF WithContinuation
  <2>2. o \in Seq(Nat) /\ Order(o) /\ Len(o) = Count(q)
    BY CountFacts, OrdersFacts
  <2> QED
    BY <2>1, <2>2 DEF GoodQueue, Queues, Bag, SameTracks, Count
<1> QED
  BY <1>1, <1>2

(* So is the bag a display, a checkpoint or an edit prepares.                *)
LEMMA PreparedFacts ==
  ASSUME NEW q, GoodQueue(q), NEW mode, NEW r \in Prepared(q, mode)
  PROVE  /\ GoodQueue(r) /\ SameTracks(r, q) /\ Count(r) = Count(q)
         /\ UsesShuffleBag(mode) => Len(r.order) = Count(q)
         /\ ~UsesShuffleBag(mode) => r = q
  BY Ensured DEF Prepared, SameTracks

LEMMA BagSlots ==
  ASSUME NEW q, GoodQueue(q)
  PROVE  /\ Len(q.order) \in Nat /\ Len(q.cont) \in Nat
         /\ \A i \in 1..Len(q.order) : q.order[i] \in Nat /\ q.order[i] < Len(q.order)
         /\ \A i \in 1..Len(q.cont) : q.cont[i] \in Nat /\ q.cont[i] < Len(q.cont)
<1>1. q.order \in Seq(Nat) /\ q.cont \in Seq(Nat) /\ Order(q.order) /\ Order(q.cont)
  BY DEF GoodQueue, Queues, Bag
<1>2. ASSUME NEW o \in Seq(Nat), Order(o)
      PROVE  Len(o) \in Nat /\ \A i \in 1..Len(o) : o[i] \in Nat /\ o[i] < Len(o)
  BY <1>2, OrderFacts
<1> QED
  BY <1>1, <1>2

LEMMA RemainderFacts ==
  ASSUME NEW a \in Int, NEW n \in Nat \ {0}
  PROVE  a % n \in 0..(n - 1)
  OBVIOUS

(* What the automatic advance predicts is a slot of the queue or none        *)
(* (compute_auto_advance_index).                                             *)
LEMMA Readied ==
  ASSUME NEW q, GoodQueue(q), NEW mode, NEW r \in ReadyToAdvance(q, mode)
  PROVE  /\ GoodQueue(r) /\ SameTracks(r, q) /\ Count(r) = Count(q)
         /\ AutoAdvanceIndex(r, mode) \in Places
         /\ HasActiveTrack(q) => AutoAdvanceIndex(r, mode) < Count(q)
         /\ r.order = q.order \/ Len(r.order) = Count(q)
<1> DEFINE Early == \/ q.current < 0 \/ Count(q) = 0
                    \/ q.pending > 0 /\ q.current + 1 < Count(q)
<1>1. Count(q) \in Nat /\ q.current \in Places /\ q.pending \in Nat
  BY CountFacts DEF GoodQueue, Queues
<1>2. CASE Early
  <2>1. r = q
    BY <1>2 DEF ReadyToAdvance
  <2>2. CASE q.current < 0 \/ Count(q) = 0
    <3>1. AutoAdvanceIndex(q, mode) = -1
      BY <2>2 DEF AutoAdvanceIndex
    <3> QED
      BY <1>1, <2>1, <2>2, <3>1 DEF SameTracks, Places, HasActiveTrack, InQueue
  <2>3. CASE ~(q.current < 0 \/ Count(q) = 0)
    <3>1. AutoAdvanceIndex(q, mode) = q.current + 1
      BY <1>2, <2>3 DEF AutoAdvanceIndex
    <3> QED
      BY <1>1, <1>2, <2>1, <2>3, <3>1 DEF SameTracks, Places
  <2> QED
    BY <2>2, <2>3
<1>3. CASE ~Early /\ ~UsesShuffleBag(mode)
  <2>1. r = q
    BY <1>3 DEF ReadyToAdvance
  <2>2. q.current + 1 \in Nat /\ q.current \in Nat /\ Count(q) \in Nat \ {0}
    BY <1>1, <1>3 DEF Places
  <2> DEFINE i == q.current + 1
             n == Count(q)
  <2>3. i % n \in 0..(n - 1)
    <3>1. i \in Int /\ n \in Nat \ {0}
      BY <2>2
    <3> HIDE DEF i, n
    <3> QED
      BY <3>1, RemainderFacts
  <2>4. AutoAdvanceIndex(q, mode) =
           CASE mode = "REPEAT_ONE" -> q.current
             [] mode = "REPEAT_ALL" -> (q.current + 1) % Count(q)
             [] OTHER -> IF q.current + 1 < Count(q) THEN q.current + 1 ELSE -1
    BY <1>1, <1>3, <2>2 DEF AutoAdvanceIndex, UsesShuffleBag
  <2>5. /\ AutoAdvanceIndex(q, mode) \in Int /\ AutoAdvanceIndex(q, mode) >= -1
        /\ HasActiveTrack(q) => AutoAdvanceIndex(q, mode) < Count(q)
    <3> DEFINE m == i % n
    <3>1. m \in Int /\ m >= 0 /\ m < Count(q)
      BY <2>2, <2>3
    <3>2. AutoAdvanceIndex(q, mode) =
             CASE mode = "REPEAT_ONE" -> q.current
               [] mode = "REPEAT_ALL" -> m
               [] OTHER -> IF i < n THEN i ELSE -1
      BY <2>4
    <3> HIDE DEF m
    <3>3. mode = "REPEAT_ONE" \/ mode = "REPEAT_ALL" \/ mode \notin {"REPEAT_ONE", "REPEAT_ALL"}
      OBVIOUS
    <3>4. AutoAdvanceIndex(q, mode) \in {q.current, m} \/
          AutoAdvanceIndex(q, mode) = IF i < n THEN i ELSE -1
      BY <3>2, <3>3
    <3> DEFINE a == AutoAdvanceIndex(q, mode)
    <3>5. CASE a = m
      BY <3>1, <3>5
    <3>6. CASE a = q.current
      BY <2>2, <3>6 DEF HasActiveTrack, InQueue
    <3>7. CASE a = IF i < n THEN i ELSE -1
      BY <2>2, <3>7
    <3> QED
      BY <3>4, <3>5, <3>6, <3>7
  <2> QED
    <3>1. AutoAdvanceIndex(q, mode) \in Places
      BY <2>5 DEF Places
    <3>2. SameTracks(q, q)
      BY DEF SameTracks
    <3> QED
      BY <2>1, <2>5, <3>1, <3>2
<1>4. CASE ~Early /\ UsesShuffleBag(mode)
  <2>1. PICK s \in ensure_shuffle_order_current(q) :
           r \in IF mode = "SHUFFLE" /\ s.pos + 1 >= Count(s) THEN WithContinuation(s) ELSE {s}
    BY <1>4 DEF ReadyToAdvance
  <2>2. GoodQueue(s) /\ SameTracks(s, q) /\ Count(s) = Count(q) /\ Len(s.order) = Count(q)
    BY Ensured
  <2>3. /\ GoodQueue(r) /\ SameTracks(r, q) /\ r.order = s.order /\ r.pos = s.pos
        /\ Count(r) = Count(q) /\ Len(r.order) = Count(q)
        /\ mode = "SHUFFLE" /\ s.pos + 1 >= Count(q) => Len(r.cont) = Count(q)
    BY <2>1, <2>2, Continued DEF SameTracks
  <2>4. r.pos \in Places
    BY <2>3 DEF GoodQueue, Queues
  <2>5. /\ r.pos + 1 < Count(q) => r.order[r.pos + 1 + 1] \in Nat /\ r.order[r.pos + 1 + 1] < Count(q)
        /\ mode = "SHUFFLE" /\ r.pos + 1 >= Count(q) => r.cont[1] \in Nat /\ r.cont[1] < Count(q)
    BY <1>1, <1>4, <2>3, <2>4, BagSlots DEF Places
  <2>6. r.current = q.current /\ r.pending = q.pending
    BY <2>3 DEF SameTracks
  <2>7. AutoAdvanceIndex(r, mode) \in Places /\ AutoAdvanceIndex(r, mode) < Count(q)
    <3>1. AutoAdvanceIndex(r, mode) =
             IF r.pos + 1 < Count(q) THEN r.order[r.pos + 1 + 1]
             ELSE IF mode = "SHUFFLE" THEN r.cont[1] ELSE -1
      BY <1>1, <1>4, <2>3, <2>6 DEF AutoAdvanceIndex, UsesShuffleBag
    <3> QED
      BY <1>1, <1>4, <2>3, <2>4, <2>5, <3>1 DEF Places
  <2> QED
    BY <2>3, <2>7
<1> QED
  BY <1>2, <1>3, <1>4

(*****************************************************************************)
(* Committing an advance.                                                    *)
(*****************************************************************************)
LEMMA UnqueuedFacts ==
  ASSUME NEW q, GoodQueue(q), NEW n \in Nat, n <= q.pending
  PROVE  LET r == Unqueued(q, n)
         IN  /\ GoodQueue(r) /\ r.paths = q.paths /\ r.current = q.current
             /\ r.order = q.order /\ r.pos = q.pos /\ r.cont = q.cont
<1>1. q.pending - n \in Nat
  BY DEF GoodQueue, Queues
<1> QED
  BY <1>1 DEF GoodQueue, Queues, Places, Bag, Unqueued

LEMMA Consumed ==
  ASSUME NEW q, GoodQueue(q), q.pending > 0
  PROVE  LET r == QueuedTaken(q)
         IN  /\ GoodQueue(r) /\ r.paths = q.paths /\ r.current = q.current
             /\ r.order = q.order /\ r.cont = q.cont /\ Count(r) = Count(q)
             /\ r.pos = IF BagIsCurrent(q) THEN q.pos + 1 ELSE q.pos
<1> DEFINE s == Unqueued(q, 1)
<1>1. q.pending \in Nat /\ q.pos \in Places
  BY DEF GoodQueue, Queues
<1>2. /\ GoodQueue(s) /\ s.paths = q.paths /\ s.current = q.current
      /\ s.order = q.order /\ s.pos = q.pos /\ s.cont = q.cont
  BY <1>1, UnqueuedFacts
<1> HIDE DEF s
<1>3. q.pos + 1 \in Places
  BY <1>1 DEF Places
<1>4. QueuedTaken(q) = [s EXCEPT !.pos = IF BagIsCurrent(q) THEN @ + 1 ELSE @]
  BY DEF s, QueuedTaken
<1> QED
  BY <1>1, <1>2, <1>3, <1>4 DEF GoodQueue, Queues, Bag, Count

LEMMA Committed ==
  ASSUME NEW q, GoodQueue(q), NEW mode
  PROVE  LET r == commit_auto_advance(q, mode)
         IN  /\ GoodQueue(r) /\ r.paths = q.paths /\ r.current = q.current
             /\ Count(r) = Count(q)
             /\ r.order = q.order \/ Len(r.order) = Len(q.order)
<1>1. CASE q.pending > 0
  BY <1>1, Consumed DEF commit_auto_advance
<1>2. CASE ~(q.pending > 0)
  <2>1. q.pos + 1 \in Places /\ 0 \in Places
    BY DEF GoodQueue, Queues, Places
  <2>2. /\ q.order \in Seq(Nat) /\ Order(q.order) /\ q.cont \in Seq(Nat) /\ Order(q.cont)
        /\ q.cont # NoOrder => Len(q.cont) = Len(q.order)
    BY DEF GoodQueue, Queues, Bag
  <2>3. \/ commit_auto_advance(q, mode) = q
        \/ commit_auto_advance(q, mode) = [q EXCEPT !.pos = @ + 1]
        \/ /\ commit_auto_advance(q, mode) = [q EXCEPT !.order = q.cont, !.cont = NoOrder, !.pos = 0]
           /\ q.cont # NoOrder
    BY <1>2 DEF commit_auto_advance
  <2> QED
    BY <2>1, <2>2, <2>3, NoOrderFacts DEF GoodQueue, Queues, Bag, Count
<1> QED
  BY <1>1, <1>2

(* note_next_armed() puts the place in the bag on the current track before   *)
(* it predicts, if the bag holds that track.                                 *)
LEMMA Aligned ==
  ASSUME NEW q, GoodQueue(q), NEW mode, NEW r \in note_next_armed(q, mode)
  PROVE  \E s : /\ GoodQueue(s) /\ SameTracks(s, q) /\ Count(s) = Count(q)
                /\ UsesShuffleBag(mode) => Len(s.order) = Count(q)
                /\ ~UsesShuffleBag(mode) => s = q
                /\ r \in ReadyToAdvance(s, mode)
                /\ UsesShuffleBag(mode) /\ (\E k \in 1..Len(s.order) : s.order[k] = s.current)
                      => s.pos \in 0..(Count(q) - 1) /\ s.order[s.pos + 1] = s.current
<1> DEFINE Found(t) == \E k \in 1..Len(t.order) : t.order[k] = t.current
           Align(t) == IF Found(t) THEN [t EXCEPT !.pos = PositionOf(t.order, t.current) - 1] ELSE t
<1>1. PICK t \in Prepared(q, mode) :
         r \in ReadyToAdvance(IF UsesShuffleBag(mode) THEN Align(t) ELSE t, mode)
  BY DEF note_next_armed
<1>2. /\ GoodQueue(t) /\ SameTracks(t, q) /\ Count(t) = Count(q) /\ Count(q) \in Nat
      /\ UsesShuffleBag(mode) => Len(t.order) = Count(q)
      /\ ~UsesShuffleBag(mode) => t = q
  BY PreparedFacts, CountFacts
<1>3. CASE ~UsesShuffleBag(mode)
  BY <1>1, <1>2, <1>3
<1>4. CASE UsesShuffleBag(mode) /\ ~Found(t)
  BY <1>1, <1>2, <1>4
<1>5. CASE UsesShuffleBag(mode) /\ Found(t)
  <2> DEFINE k == PositionOf(t.order, t.current)
             s == [t EXCEPT !.pos = k - 1]
  <2>1. k \in 1..Len(t.order) /\ t.order[k] = t.current
    BY <1>5 DEF PositionOf
  <2> HIDE DEF k
  <2>2. k - 1 \in Nat /\ k - 1 \in Places /\ k - 1 \in 0..(Count(q) - 1) /\ k - 1 + 1 = k
    BY <1>2, <1>5, <2>1 DEF Places
  <2>3. GoodQueue(s) /\ SameTracks(s, t) /\ s.order = t.order /\ s.pos = k - 1
    BY <1>2, <2>2 DEF GoodQueue, Queues, Bag, SameTracks
  <2>4. r \in ReadyToAdvance(s, mode)
    BY <1>1, <1>5 DEF k
  <2> HIDE DEF s
  <2>5. SameTracks(s, q) /\ Count(s) = Count(q)
    BY <1>2, <2>3 DEF SameTracks, Count
  <2>6. s.pos \in 0..(Count(q) - 1) /\ s.order[s.pos + 1] = s.current
    BY <1>2, <2>1, <2>2, <2>3 DEF SameTracks
  <2>7. Len(s.order) = Count(q)
    BY <1>2, <1>5, <2>3
  <2> QED
    BY <1>5, <2>3, <2>4, <2>5, <2>6, <2>7
<1> QED
  BY <1>3, <1>4, <1>5

LEMMA NextNoted ==
  ASSUME NEW q, GoodQueue(q), NEW mode, NEW r \in note_next_armed(q, mode)
  PROVE  /\ GoodQueue(r) /\ SameTracks(r, q) /\ Count(r) = Count(q)
         /\ AutoAdvanceIndex(r, mode) \in Places
         /\ UsesShuffleBag(mode) => Len(r.order) = Count(q)
         /\ ~UsesShuffleBag(mode) => r.order = q.order \/ Len(r.order) = Count(q)
<1>1. PICK s : /\ GoodQueue(s) /\ SameTracks(s, q) /\ Count(s) = Count(q)
               /\ UsesShuffleBag(mode) => Len(s.order) = Count(q)
               /\ ~UsesShuffleBag(mode) => s = q
               /\ r \in ReadyToAdvance(s, mode)
  BY Aligned
<1>2. /\ GoodQueue(r) /\ SameTracks(r, s) /\ Count(r) = Count(s)
      /\ AutoAdvanceIndex(r, mode) \in Places
      /\ r.order = s.order \/ Len(r.order) = Count(s)
  BY <1>1, Readied
<1> QED
  BY <1>1, <1>2 DEF SameTracks

(* Next and Previous, in every mode, with the bag shuffled anew at its ends. *)
LEMMA Stepped ==
  ASSUME NEW q0, GoodQueue(q0), NEW mode, NEW direction \in {-1, 1},
         NEW x \in manual_step(q0, mode, direction)
  PROVE  /\ GoodQueue(x[1]) /\ x[2] \in Places
         /\ x[1].paths = q0.paths /\ x[1].current = q0.current
         /\ x[1].order = q0.order \/ Len(x[1].order) = Count(q0)
<1> DEFINE q == IF direction < 0 /\ q0.pending > 0
                THEN [q0 EXCEPT !.pending = 0, !.insert = -1] ELSE q0
           n == Count(q)
           next == q.current + direction
           Shuffled(r) ==
              LET to == r.pos + direction
              IN  IF to >= 0 /\ to < n THEN {<<[r EXCEPT !.pos = to], r.order[to + 1]>>}
                  ELSE IF to >= n /\ mode = "SHUFFLE"
                       THEN {<<[r EXCEPT !.order = o, !.pos = 0], o[1]>> : o \in Orders(n)}
                  ELSE {<<r, -1>>}
<1>1. GoodQueue(q) /\ q.paths = q0.paths /\ q.current = q0.current /\ q.order = q0.order
  BY DEF GoodQueue, Queues, Places, Bag
<1>2. x \in IF q.current < 0 \/ n = 0 THEN {<<q0, -1>>}
            ELSE IF direction > 0 /\ q.pending > 0 /\ next < n
                 THEN {<<QueuedTaken(q), next>>}
            ELSE IF UsesShuffleBag(mode) THEN UNION {Shuffled(r) : r \in ensure_shuffle_order_current(q)}
            ELSE IF mode = "REPEAT_ALL" THEN {<<q, (next + n) % n>>}
            ELSE {<<q, IF InQueue(q, next) THEN next ELSE -1>>}
  BY DEF manual_step
<1> HIDE DEF q
<1>3. n \in Nat /\ q.current \in Places /\ n = Count(q0)
  BY <1>1, CountFacts DEF GoodQueue, Queues, Count
<1> HIDE DEF n
<1>4. CASE q.current < 0 \/ n = 0
  <2>1. x = <<q0, -1>>
    BY <1>2, <1>4
  <2> QED
    BY <2>1 DEF Places
<1>5. CASE ~(q.current < 0 \/ n = 0)
  <2>1. n \in Nat \ {0} /\ q.current \in Nat /\ next \in Places /\ next + n \in Int
    BY <1>3, <1>5 DEF Places
  <2> HIDE DEF next
  <2>2. CASE direction > 0 /\ q.pending > 0 /\ next < n
    <3> DEFINE s == QueuedTaken(q)
    <3>1. x = <<s, next>>
      BY <1>2, <1>5, <2>2
    <3>2. GoodQueue(s) /\ s.paths = q.paths /\ s.current = q.current /\ s.order = q.order
      BY <1>1, <2>2, Consumed
    <3> HIDE DEF s
    <3> QED
      BY <1>1, <2>1, <3>1, <3>2
  <2>3. CASE ~(direction > 0 /\ q.pending > 0 /\ next < n) /\ UsesShuffleBag(mode)
    <3>1. PICK r \in ensure_shuffle_order_current(q) : x \in Shuffled(r)
      BY <1>2, <1>5, <2>3
    <3>2. GoodQueue(r) /\ r.paths = q.paths /\ r.current = q.current /\ Len(r.order) = n
      BY <1>1, Ensured DEF SameTracks, n
    <3> DEFINE to == r.pos + direction
    <3>3. to \in Int /\ r.pos \in Places
      BY <3>2 DEF GoodQueue, Queues, Places
    <3> HIDE DEF to
    <3>4. CASE to >= 0 /\ to < n
      <4>1. x = <<[r EXCEPT !.pos = to], r.order[to + 1]>>
        BY <3>1, <3>4 DEF to
      <4>2. r.order[to + 1] \in Nat
        BY <1>3, <3>2, <3>3, <3>4, BagSlots
      <4>3. to \in Places
        BY <3>3, <3>4 DEF Places
      <4>4. GoodQueue(x[1]) /\ x[1].paths = r.paths /\ x[1].current = r.current /\ x[1].order = r.order
        BY <3>2, <4>1, <4>3 DEF GoodQueue, Queues, Bag
      <4> QED
        BY <1>1, <1>3, <3>2, <4>1, <4>2, <4>4 DEF Places
    <3>5. CASE ~(to >= 0 /\ to < n) /\ to >= n /\ mode = "SHUFFLE"
      <4>1. PICK o \in Orders(n) : x = <<[r EXCEPT !.order = o, !.pos = 0], o[1]>>
        BY <3>1, <3>5 DEF to
      <4>2. o \in Seq(Nat) /\ Len(o) = n /\ Order(o)
        BY <1>3, OrdersFacts
      <4>3. o[1] \in Nat
        BY <2>1, <4>2
      <4>4. GoodQueue(x[1]) /\ x[1].paths = r.paths /\ x[1].current = r.current /\ x[1].order = o
        BY <3>2, <4>1, <4>2 DEF GoodQueue, Queues, Bag, Places
      <4> QED
        BY <1>1, <1>3, <3>2, <4>1, <4>2, <4>3, <4>4 DEF Places
    <3>6. CASE ~(to >= 0 /\ to < n) /\ ~(to >= n /\ mode = "SHUFFLE")
      <4>1. x = <<r, -1>>
        BY <3>1, <3>6 DEF to
      <4> QED
        BY <1>1, <1>3, <3>2, <4>1 DEF Places
    <3> QED
      BY <3>4, <3>5, <3>6
  <2>4. CASE ~(direction > 0 /\ q.pending > 0 /\ next < n) /\ ~UsesShuffleBag(mode)
    <3>1. x = <<q, (next + n) % n>> \/ x = <<q, next>> \/ x = <<q, -1>>
      BY <1>2, <1>5, <2>4
    <3>2. (next + n) % n \in Places
      <4> DEFINE a == next + n
      <4>1. a \in Int
        BY <2>1
      <4> HIDE DEF a
      <4>2. a % n \in 0..(n - 1)
        BY <2>1, <4>1, RemainderFacts
      <4> QED
        BY <2>1, <4>2 DEF a, Places
    <3> QED
      BY <1>1, <2>1, <3>1, <3>2 DEF Places
  <2> QED
    BY <2>2, <2>3, <2>4
<1> QED
  BY <1>4, <1>5

(*****************************************************************************)
(* The tracks that failed.  The plan looks for the nearest track that did    *)
(* not fail, behind the current one in the bag and, where the mode repeats,  *)
(* in its continuation; what it finds is in the queue and did not fail.      *)
(*****************************************************************************)
LEMMA LesserFacts ==
  ASSUME NEW a \in Int, NEW b \in Int
  PROVE  /\ Lesser(a, b) \in Int /\ Lesser(a, b) <= a /\ Lesser(a, b) <= b
         /\ Lesser(a, b) \in {a, b}
  BY DEF Lesser

LEMMA FailurePlanned ==
  ASSUME NEW q, GoodQueue(q), NEW mode, NEW failed,
         mode = "SHUFFLE" => Len(q.order) = Count(q) /\ (Count(q) > 0 => Len(q.cont) = Count(q)),
         mode = "SHUFFLE_ONCE" => Covers(q)
  PROVE  LET plan == FailurePlan(q, mode, failed)
         IN  /\ plan.target \in Places /\ plan.queued \in Nat /\ plan.steps \in Nat
             /\ plan.target >= 0 =>
                   /\ InQueue(q, plan.target) /\ PathAt(q, plan.target) \notin failed
<1> DEFINE n == Count(q)
           cur == q.current
           Failed(slot) == HasFailed(q, slot, failed)
           queued == {k \in 1..Lesser(q.pending, n - 1 - cur) : ~Failed(cur + k)}
           base == Lesser(cur + q.pending, n - 1)
           Fits(slot) == InQueue(q, slot) /\ slot \notin {cur, base} /\ ~Failed(slot)
           left == IF n - 1 >= q.pos THEN n - 1 - q.pos ELSE 0
           Slot(step) == IF q.pos + step < n THEN q.order[q.pos + step + 1]
                         ELSE IF q.pos + step - n < n /\ q.cont # NoOrder
                              THEN q.cont[q.pos + step - n + 1]
                         ELSE -1
           wraps == mode = "SHUFFLE" /\ q.cont # NoOrder
           bagSteps == {s \in 1..(IF wraps THEN left + n ELSE left) : Fits(Slot(s))}
           ringSteps == {s \in 1..(n - 1) : Fits((base + s) % n)}
           listSteps == {s \in 1..(n - 1 - base) : Fits(base + s)}
           steps == CASE UsesShuffleBag(mode) -> IF q.order = NoOrder THEN {} ELSE bagSteps
                      [] mode \in {"REPEAT_ALL", "REPEAT_ONE"} -> ringSteps
                      [] OTHER -> listSteps
           step == Least(steps)
           plan == FailurePlan(q, mode, failed)
<1>1. plan = IF cur < 0 \/ n = 0 THEN NoPlan
             ELSE IF queued # {}
                  THEN [NoPlan EXCEPT !.target = cur + Least(queued), !.queued = Least(queued)]
             ELSE IF n = 1 \/ steps = {} THEN NoPlan
             ELSE CASE
                  UsesShuffleBag(mode) ->
                     [target |-> Slot(step), queued |-> q.pending, steps |-> step,
                      wrapped |-> q.pos + step >= n]
               [] mode \in {"REPEAT_ALL", "REPEAT_ONE"} ->
                     [NoPlan EXCEPT !.target = (base + step) % n, !.queued = q.pending]
               [] OTHER -> [NoPlan EXCEPT !.target = base + step, !.queued = q.pending]
  BY DEF FailurePlan
<1> HIDE DEF plan
<1>2. n \in Nat /\ cur \in Places /\ q.pending \in Nat /\ q.pos \in Places
  BY CountFacts DEF GoodQueue, Queues
<1>3. NoPlan.target = -1 /\ NoPlan.queued = 0 /\ NoPlan.steps = 0
  BY DEF NoPlan
<1>4. CASE cur < 0 \/ n = 0
  <2>1. plan = NoPlan
    BY <1>1, <1>4
  <2> QED
    BY <1>3, <2>1 DEF plan, Places
<1>5. CASE ~(cur < 0 \/ n = 0) /\ queued # {}
  <2>1. plan = [NoPlan EXCEPT !.target = cur + Least(queued), !.queued = Least(queued)]
    BY <1>1, <1>5
  <2>2. n - 1 - cur \in Int /\ cur \in Nat
    BY <1>2, <1>5 DEF Places
  <2>3. /\ Lesser(q.pending, n - 1 - cur) \in Int
        /\ Lesser(q.pending, n - 1 - cur) <= n - 1 - cur
    <3> DEFINE room == n - 1 - cur
    <3> HIDE DEF room, n
    <3>1. room \in Int /\ q.pending \in Int
      BY <1>2, <2>2 DEF room
    <3>2. Lesser(q.pending, room) \in Int /\ Lesser(q.pending, room) <= room
      BY <3>1, LesserFacts
    <3> QED
      BY <3>2 DEF room
  <2>4. \A k \in queued : k \in Nat /\ k <= n - 1 - cur /\ k >= 1 /\ ~Failed(cur + k)
    BY <1>2, <2>2, <2>3
  <2>5. queued \in SUBSET Nat
    BY <2>4
  <2> HIDE DEF queued
  <2>6. Least(queued) \in queued
    BY <1>5, <2>5, LeastFacts
  <2> DEFINE k == Least(queued)
  <2>7. k \in Nat /\ k <= n - 1 - cur /\ k >= 1 /\ ~Failed(cur + k)
    BY <2>4, <2>6
  <2>8. plan.target = cur + k /\ plan.queued = k /\ plan.steps = 0
    BY <2>1 DEF NoPlan
  <2> HIDE DEF k
  <2> QED
    BY <1>2, <2>2, <2>7, <2>8 DEF plan, InQueue, HasFailed, Places
<1>6. CASE ~(cur < 0 \/ n = 0) /\ queued = {} /\ (n = 1 \/ steps = {})
  <2>1. plan = NoPlan
    BY <1>1, <1>6
  <2> QED
    BY <1>3, <2>1 DEF plan, Places
<1>7. CASE ~(cur < 0 \/ n = 0) /\ queued = {} /\ ~(n = 1 \/ steps = {})
  <2>1. plan = CASE
                  UsesShuffleBag(mode) ->
                     [target |-> Slot(step), queued |-> q.pending, steps |-> step,
                      wrapped |-> q.pos + step >= n]
               [] mode \in {"REPEAT_ALL", "REPEAT_ONE"} ->
                     [NoPlan EXCEPT !.target = (base + step) % n, !.queued = q.pending]
               [] OTHER -> [NoPlan EXCEPT !.target = base + step, !.queued = q.pending]
    BY <1>1, <1>7
  <2>2. n \in Nat /\ n >= 1 /\ cur \in Nat
    BY <1>2, <1>7 DEF Places
  <2>3. base \in Nat /\ base <= n - 1
    BY <1>2, <2>2 DEF Lesser
  <2>4. left \in Nat /\ (q.pos <= n - 1 => left = n - 1 - q.pos) /\ (q.pos > n - 1 => left = 0)
    BY <1>2, <2>2 DEF Places
  <2> HIDE DEF queued, base, left
  <2>5. CASE UsesShuffleBag(mode)
    <3>1. /\ q.order # NoOrder /\ bagSteps # {} /\ step = Least(bagSteps)
          /\ plan = [target |-> Slot(step), queued |-> q.pending, steps |-> step,
                     wrapped |-> q.pos + step >= n]
      BY <1>7, <2>1, <2>5 DEF UsesShuffleBag
    <3>2. bagSteps \in SUBSET Nat /\ \A s \in bagSteps :
             /\ s \in Nat /\ s >= 1 /\ s <= IF wraps THEN left + n ELSE left
             /\ Fits(Slot(s))
      BY <2>2, <2>4
    <3> HIDE DEF bagSteps, step
    <3>3. step \in bagSteps
      BY <3>1, <3>2, LeastFacts
    <3>4. /\ step \in Nat /\ step >= 1 /\ step <= IF wraps THEN left + n ELSE left
          /\ Fits(Slot(step))
      BY <3>2, <3>3
    <3>5. Slot(step) \in Places
      <4>1. Len(q.order) \in Nat /\ Len(q.order) >= n /\ (wraps => Len(q.cont) = n)
        BY <2>2, <2>5, <3>1, BagSlots DEF UsesShuffleBag, Covers
      <4>2. CASE q.pos + step < n
        <5>1. q.pos + step + 1 \in 1..Len(q.order)
          BY <1>2, <2>2, <3>4, <4>1, <4>2 DEF Places
        <5> QED
          BY <4>2, <5>1, BagSlots DEF Places
      <4>3. CASE ~(q.pos + step < n) /\ q.pos + step - n < n /\ q.cont # NoOrder
        <5>1. q.pos + step \in Int /\ q.pos + step >= n
          BY <1>2, <2>2, <3>4, <4>3 DEF Places
        <5>2. wraps
          BY <1>2, <2>2, <2>4, <3>4, <4>3, <5>1 DEF Places
        <5>3. q.pos + step - n + 1 \in 1..Len(q.cont)
          <6> DEFINE at == q.pos
          <6>1. at \in Int /\ step \in Int /\ at + step >= n /\ at + step < n + n /\ Len(q.cont) = n
            BY <1>2, <2>2, <3>4, <4>1, <4>3, <5>1, <5>2 DEF Places
          <6> HIDE DEF at, n
          <6>2. at + step - n + 1 \in 1..Len(q.cont)
            BY <2>2, <6>1
          <6> QED
            BY <6>2 DEF at, n
        <5>4. q.cont[q.pos + step - n + 1] \in Nat
          BY <5>3, BagSlots
        <5>5. Slot(step) = q.cont[q.pos + step - n + 1]
          BY <4>3
        <5> QED
          BY <5>4, <5>5 DEF Places
      <4>4. CASE ~(q.pos + step < n) /\ ~(q.pos + step - n < n /\ q.cont # NoOrder)
        <5>1. Slot(step) = -1
          BY <4>4
        <5> QED
          BY <5>1 DEF Places
      <4> QED
        BY <4>2, <4>3, <4>4
    <3>6. plan.target = Slot(step) /\ plan.queued = q.pending /\ plan.steps = step
      BY <3>1
    <3> HIDE DEF Slot
    <3> QED
      BY <1>2, <3>4, <3>5, <3>6 DEF plan, HasFailed
  <2>6. CASE ~UsesShuffleBag(mode) /\ mode \in {"REPEAT_ALL", "REPEAT_ONE"}
    <3>1. /\ ringSteps # {} /\ step = Least(ringSteps)
          /\ plan = [NoPlan EXCEPT !.target = (base + step) % n, !.queued = q.pending]
      BY <1>7, <2>1, <2>6
    <3>2. ringSteps \in SUBSET Nat /\ \A s \in ringSteps : s \in Nat /\ Fits((base + s) % n)
      BY <2>2
    <3> HIDE DEF ringSteps, step
    <3>3. step \in ringSteps
      BY <3>1, <3>2, LeastFacts
    <3>4. step \in Nat /\ Fits((base + step) % n)
      BY <3>2, <3>3
    <3>5. (base + step) % n \in Places
      <4> DEFINE a == base + step
      <4>1. a \in Int /\ n \in Nat \ {0}
        BY <2>2, <2>3, <3>4
      <4> HIDE DEF a
      <4>2. a % n \in 0..(n - 1)
        BY <4>1, RemainderFacts
      <4> QED
        BY <2>2, <4>2 DEF a, Places
    <3>6. plan.target = (base + step) % n /\ plan.queued = q.pending /\ plan.steps = 0
      BY <3>1 DEF NoPlan
    <3> QED
      BY <1>2, <3>4, <3>5, <3>6 DEF plan, HasFailed
  <2>7. CASE ~UsesShuffleBag(mode) /\ ~(mode \in {"REPEAT_ALL", "REPEAT_ONE"})
    <3>1. /\ listSteps # {} /\ step = Least(listSteps)
          /\ plan = [NoPlan EXCEPT !.target = base + step, !.queued = q.pending]
      BY <1>7, <2>1, <2>7
    <3>2. listSteps \in SUBSET Nat /\ \A s \in listSteps : s \in Nat /\ Fits(base + s)
      BY <2>2, <2>3
    <3> HIDE DEF listSteps, step
    <3>3. step \in listSteps
      BY <3>1, <3>2, LeastFacts
    <3>4. step \in Nat /\ Fits(base + step)
      BY <3>2, <3>3
    <3>5. base + step \in Places
      BY <2>3, <3>4 DEF Places
    <3>6. plan.target = base + step /\ plan.queued = q.pending /\ plan.steps = 0
      BY <3>1 DEF NoPlan
    <3> QED
      BY <1>2, <3>4, <3>5, <3>6 DEF plan, HasFailed
  <2> QED
    BY <2>5, <2>6, <2>7
<1> QED
  BY <1>4, <1>5, <1>6, <1>7

LEMMA FailureCommitted ==
  ASSUME NEW q, GoodQueue(q), Count(q) > 0, NEW mode, NEW plan,
         plan.queued \in Nat, plan.steps \in Nat
  PROVE  LET r == commit_failure_advance(q, plan, mode)
         IN  /\ GoodQueue(r) /\ r.paths = q.paths /\ r.current = q.current
             /\ r.order = q.order \/ Len(r.order) = Len(q.order)
<1> DEFINE s == IF plan.queued > 0 THEN Unqueued(q, Lesser(plan.queued, q.pending)) ELSE q
<1>1. /\ GoodQueue(s) /\ s.paths = q.paths /\ s.current = q.current
      /\ s.order = q.order /\ s.pos = q.pos /\ s.cont = q.cont
  <2>1. q.pending \in Nat
    BY DEF GoodQueue, Queues
  <2>2. Lesser(plan.queued, q.pending) \in Nat /\ Lesser(plan.queued, q.pending) <= q.pending
    BY <2>1 DEF Lesser
  <2> QED
    BY <2>2, UnqueuedFacts
<1>2. commit_failure_advance(q, plan, mode) =
         IF ~UsesShuffleBag(mode) \/ plan.steps = 0 THEN s
         ELSE IF plan.wrapped /\ s.cont # NoOrder
              THEN [s EXCEPT !.order = s.cont, !.cont = NoOrder, !.pos = (@ + plan.steps) % Count(s)]
         ELSE [s EXCEPT !.pos = Lesser(@ + plan.steps, Count(s) - 1)]
  BY DEF commit_failure_advance
<1> HIDE DEF s
<1>3. /\ s.order \in Seq(Nat) /\ Order(s.order) /\ s.cont \in Seq(Nat) /\ Order(s.cont)
      /\ s.cont # NoOrder => Len(s.cont) = Len(s.order)
      /\ s.pos \in Places /\ Count(s) = Count(q) /\ Count(s) \in Nat
  BY <1>1, CountFacts DEF GoodQueue, Queues, Bag, Count
<1> DEFINE n == Count(s)
           a == s.pos + plan.steps
<1>4. a \in Places /\ a \in Int /\ n \in Nat \ {0}
  BY <1>3 DEF Places
<1>5. (s.pos + plan.steps) % Count(s) \in Places
  <2> HIDE DEF a, n
  <2>1. a % n \in 0..(n - 1)
    BY <1>4, RemainderFacts
  <2> QED
    BY <1>4, <2>1 DEF a, n, Places
<1>6. Lesser(s.pos + plan.steps, Count(s) - 1) \in Places
  BY <1>3, <1>4 DEF Lesser, Places
<1>7. CASE commit_failure_advance(q, plan, mode) = s
  BY <1>1, <1>7
<1>8. CASE /\ s.cont # NoOrder
           /\ commit_failure_advance(q, plan, mode) =
                 [s EXCEPT !.order = s.cont, !.cont = NoOrder, !.pos = (@ + plan.steps) % Count(s)]
  <2> DEFINE p == (s.pos + plan.steps) % Count(s)
  <2>1. commit_failure_advance(q, plan, mode) = [s EXCEPT !.order = s.cont, !.cont = NoOrder, !.pos = p]
    BY <1>8
  <2>2. p \in Places
    BY <1>5
  <2> HIDE DEF p
  <2> QED
    BY <1>1, <1>3, <1>8, <2>1, <2>2, NoOrderFacts DEF GoodQueue, Queues, Bag
<1>9. CASE commit_failure_advance(q, plan, mode) = [s EXCEPT !.pos = Lesser(@ + plan.steps, Count(s) - 1)]
  BY <1>1, <1>3, <1>6, <1>9 DEF GoodQueue, Queues, Bag
<1> QED
  BY <1>2, <1>7, <1>8, <1>9

LEMMA PastFailed ==
  ASSUME NEW q, GoodQueue(q), NEW mode, NEW failed, mode = "SHUFFLE_ONCE" => Covers(q),
         NEW x \in advance_past_failed(q, mode, failed)
  PROVE  /\ GoodQueue(x[1]) /\ x[2] \in Places
         /\ x[1].paths = q.paths /\ x[1].current = q.current
         /\ x[1].order = q.order \/ Len(x[1].order) = Len(q.order) \/ Len(x[1].order) = Count(q)
         /\ x[2] >= 0 => InQueue(x[1], x[2]) /\ PathAt(x[1], x[2]) \notin failed
<1> DEFINE ready == IF mode = "SHUFFLE"
                    THEN UNION {WithContinuation(r) : r \in ensure_shuffle_order_current(q)}
                    ELSE {q}
           Plan(r) == FailurePlan(r, mode, failed)
           Left(r) == IF Plan(r).target < 0 THEN r ELSE commit_failure_advance(r, Plan(r), mode)
<1>1. PICK r \in ready : x = <<Left(r), Plan(r).target>>
  BY DEF advance_past_failed
<1>2. /\ GoodQueue(r) /\ r.paths = q.paths /\ r.current = q.current /\ Count(r) = Count(q)
      /\ mode = "SHUFFLE" => Len(r.order) = Count(r) /\ Len(r.cont) = Count(r)
      /\ mode # "SHUFFLE" => r = q
  <2>1. CASE mode = "SHUFFLE"
    <3>1. PICK s \in ensure_shuffle_order_current(q) : r \in WithContinuation(s)
      BY <1>1, <2>1
    <3>2. GoodQueue(s) /\ SameTracks(s, q) /\ Count(s) = Count(q) /\ Len(s.order) = Count(q)
      BY Ensured
    <3>3. /\ GoodQueue(r) /\ SameTracks(r, s) /\ r.order = s.order
          /\ Count(r) = Count(s) /\ Len(r.cont) = Count(s)
      BY <3>1, <3>2, Continued
    <3> QED
      BY <2>1, <3>2, <3>3 DEF SameTracks
  <2>2. CASE mode # "SHUFFLE"
    BY <1>1, <2>2
  <2> QED
    BY <2>1, <2>2
<1>3. /\ Plan(r).target \in Places /\ Plan(r).queued \in Nat /\ Plan(r).steps \in Nat
      /\ Plan(r).target >= 0 =>
            InQueue(r, Plan(r).target) /\ PathAt(r, Plan(r).target) \notin failed
  BY <1>2, FailurePlanned
<1> DEFINE p == Plan(r)
<1>4. x[1] = (IF p.target < 0 THEN r ELSE commit_failure_advance(r, p, mode)) /\ x[2] = p.target
  BY <1>1
<1> HIDE DEF p
<1>5. CASE p.target < 0
  <2>1. x[1] = r /\ ~(p.target >= 0)
    BY <1>3, <1>4, <1>5 DEF p, Places
  <2> QED
    BY <1>2, <1>3, <1>4, <2>1 DEF p
<1>6. CASE ~(p.target < 0)
  <2>1. p.target >= 0 /\ InQueue(r, p.target) /\ PathAt(r, p.target) \notin failed
    BY <1>3, <1>6 DEF p, Places
  <2>2. Count(r) > 0
    BY <1>2, <1>3, <2>1, CountFacts DEF InQueue, p, Places
  <2>3. x[1] = commit_failure_advance(r, p, mode)
    BY <1>4, <1>6
  <2>4. /\ GoodQueue(x[1]) /\ x[1].paths = r.paths /\ x[1].current = r.current
        /\ x[1].order = r.order \/ Len(x[1].order) = Len(r.order)
    BY <1>2, <1>3, <2>2, <2>3, FailureCommitted DEF p
  <2> QED
    BY <1>2, <1>3, <1>4, <2>1, <2>4 DEF InQueue, PathAt, Count, p
<1> QED
  BY <1>5, <1>6

(*****************************************************************************)
(* Building and editing the queue.                                           *)
(*****************************************************************************)
LEMMA EmptyQueueFacts ==
  /\ GoodQueue(EmptyQueue) /\ Covers(EmptyQueue)
  /\ EmptyQueue.current = -1 /\ EmptyQueue.order = NoOrder /\ EmptyQueue.cont = NoOrder
  BY NoOrderFacts DEF GoodQueue, Queues, Bag, Places, Covers, EmptyQueue

LEMMA Installed ==
  ASSUME NEW paths \in Seq(Tracks), NEW current \in Places, NEW pending \in Nat,
         NEW order \in Seq(Nat), Order(order), order = NoOrder \/ Len(order) = Len(paths)
  PROVE  LET r == install(paths, current, pending, order)
         IN  GoodQueue(r) /\ Covers(r) /\ r.paths = paths /\ r.current = current
<1> DEFINE r == install(paths, current, pending, order)
           empty == EmptyQueue
<1>1. empty \in Queues /\ empty.cont = NoOrder
  BY EmptyQueueFacts DEF GoodQueue
<1>2. r = [empty EXCEPT !.paths = paths, !.current = current, !.pending = pending,
                        !.insert = IF pending > 0 THEN Len(paths) ELSE -1,
                        !.order = order, !.pos = IF order = NoOrder THEN -1 ELSE 0]
  BY DEF install
<1>3. Len(paths) \in Nat
  OBVIOUS
<1> HIDE DEF r, empty
<1>4. /\ r \in Queues /\ r.paths = paths /\ r.current = current
      /\ r.order = order /\ r.cont = NoOrder
  BY <1>1, <1>2, <1>3 DEF Queues, Places
<1>5. GoodQueue(r)
  BY <1>4, NoOrderFacts DEF GoodQueue, Bag
<1>6. Covers(r)
  BY <1>3, <1>4 DEF Covers, Count
<1> QED
  BY <1>4, <1>5, <1>6 DEF r

(* try_add_many(): the new tracks are where the insertion index says, and    *)
(* behind the current track in the bag.                                      *)
LEMMA Added ==
  ASSUME NEW q, GoodQueue(q), HasActiveTrack(q), NEW new \in Seq(Tracks)
  PROVE  LET r == try_add_many(q, new)
             pos == IF q.insert >= 0 /\ q.insert <= Count(q) THEN q.insert ELSE q.current + 1
         IN  /\ GoodQueue(r) /\ r.current = q.current /\ r.pending = q.pending + Len(new)
             /\ Count(r) = Count(q) + Len(new)
             /\ \A i \in 1..Len(new) : r.paths[pos + i] = new[i]
<1> DEFINE pos == IF q.insert >= 0 /\ q.insert <= Count(q) THEN q.insert ELSE q.current + 1
           added == Len(new)
           s == [q EXCEPT !.paths = With(@, pos, new), !.pending = @ + added, !.insert = pos + added]
           r == queue_shuffle_insert(s, pos, added)
<1>1. r = try_add_many(q, new)
  BY DEF try_add_many
<1>2. /\ q.paths \in Seq(Tracks) /\ Len(q.paths) = Count(q) /\ Count(q) \in Nat /\ added \in Nat
      /\ q.current \in Nat /\ q.current < Count(q) /\ q.pending \in Nat /\ q.insert \in Places
      /\ q.pos \in Places
  BY CountFacts DEF GoodQueue, Queues, Count, HasActiveTrack, InQueue, Places
<1>3. pos \in 0..Count(q) /\ pos \in Nat
  BY <1>2 DEF Places
<1> HIDE DEF pos, added
<1>4. /\ With(q.paths, pos, new) \in Seq(Tracks)
      /\ Len(With(q.paths, pos, new)) = Count(q) + added
      /\ \A i \in 1..added : With(q.paths, pos, new)[pos + i] = new[i]
  <2>1. pos \in 0..Len(q.paths)
    BY <1>2, <1>3
  <2> DEFINE paths == q.paths
  <2>2. paths \in Seq(Tracks) /\ pos \in 0..Len(paths)
    BY <1>2, <2>1
  <2> HIDE DEF paths
  <2>3. /\ With(paths, pos, new) \in Seq(Tracks)
        /\ Len(With(paths, pos, new)) = Len(paths) + Len(new)
        /\ \A i \in 1..Len(new) : With(paths, pos, new)[pos + i] = new[i]
    BY <2>2, WithFacts
  <2> QED
    BY <1>2, <2>3 DEF added, paths
<1>5. /\ GoodQueue(s) /\ s.current = q.current /\ s.pending = q.pending + added
      /\ s.paths = With(q.paths, pos, new) /\ s.order = q.order /\ s.pos = q.pos
      /\ Count(s) = Count(q) + added
  <2>1. pos + added \in Places /\ q.pending + added \in Nat
    BY <1>2, <1>3 DEF Places
  <2> QED
    BY <1>2, <1>4, <2>1 DEF GoodQueue, Queues, Bag, Count
<1> HIDE DEF s
<1> DEFINE old == Count(s) - added
           wanted == s.pos + pos - s.current
           at == IF wanted < 0 THEN 0 ELSE Lesser(wanted, old)
           o == IF s.order # NoOrder /\ Len(s.order) = old THEN OrderInsert(s.order, pos, at, added)
                ELSE s.order
<1>6. r = [s EXCEPT !.order = o, !.cont = NoOrder]
  BY DEF queue_shuffle_insert
<1>7. old = Count(q) /\ at \in 0..Count(q)
  <2>1. old = Count(q)
    BY <1>2, <1>5
  <2>2. wanted \in Int
    BY <1>2, <1>3, <1>5 DEF Places
  <2> HIDE DEF old, wanted
  <2> QED
    BY <1>2, <2>1, <2>2 DEF Lesser
<1>8. s.order \in Seq(Nat) /\ Order(s.order)
  BY <1>5 DEF GoodQueue, Queues, Bag
<1> HIDE DEF at
<1>9. o \in Seq(Nat) /\ Order(o)
  <2>1. CASE s.order # NoOrder /\ Len(s.order) = old
    <3>1. pos \in 0..Len(s.order) /\ at \in 0..Len(s.order) /\ added \in Nat
      BY <1>2, <1>3, <1>7, <2>1
    <3>2. o = OrderInsert(s.order, pos, at, added)
      BY <2>1
    <3> QED
      BY <1>8, <3>1, <3>2, InsertFacts
  <2>2. CASE ~(s.order # NoOrder /\ Len(s.order) = old)
    BY <1>8, <2>2
  <2> QED
    BY <2>1, <2>2
<1> HIDE DEF o
<1>10. /\ GoodQueue(r) /\ r.current = s.current /\ r.pending = s.pending /\ r.paths = s.paths
       /\ Count(r) = Count(s)
  BY <1>5, <1>6, <1>9, NoOrderFacts DEF GoodQueue, Queues, Bag, Count
<1> HIDE DEF r
<1>11. \A i \in 1..added : r.paths[pos + i] = new[i]
  BY <1>4, <1>5, <1>10
<1> QED
  BY <1>1, <1>2, <1>5, <1>10, <1>11 DEF pos, added

(* play_next() puts its track right behind the current one.                  *)
LEMMA PlayedNext ==
  ASSUME NEW q, GoodQueue(q), HasActiveTrack(q), NEW path \in Tracks
  PROVE  LET r == play_next(q, path)
         IN  /\ GoodQueue(r) /\ r.current = q.current /\ r.pending = q.pending + 1
             /\ Count(r) = Count(q) + 1
             /\ PathAt(r, r.current + 1) = path
<1> DEFINE s == [q EXCEPT !.insert = q.current + 1]
           t == try_add_many(s, <<path>>)
<1>1. q.current \in Nat /\ q.current < Count(q) /\ Count(q) \in Nat /\ q.pending \in Nat
  BY CountFacts DEF GoodQueue, Queues, HasActiveTrack, InQueue, Places
<1>2. /\ GoodQueue(s) /\ s.paths = q.paths /\ s.current = q.current /\ s.pending = q.pending
      /\ s.insert = q.current + 1 /\ Count(s) = Count(q)
  <2>1. q.current + 1 \in Places
    BY <1>1 DEF Places
  <2> QED
    BY <2>1 DEF GoodQueue, Queues, Bag, Count
<1>3. HasActiveTrack(s)
  BY <1>2 DEF HasActiveTrack, InQueue
<1> HIDE DEF s
<1>4. <<path>> \in Seq(Tracks) /\ Len(<<path>>) = 1 /\ <<path>>[1] = path
  OBVIOUS
<1> DEFINE new == <<path>>
           at == IF s.insert >= 0 /\ s.insert <= Count(s) THEN s.insert ELSE s.current + 1
<1>5. at = q.current + 1
  BY <1>1, <1>2
<1>6. /\ GoodQueue(t) /\ t.current = s.current /\ t.pending = s.pending + 1
      /\ Count(t) = Count(s) + 1
      /\ \A i \in 1..1 : t.paths[at + i] = <<path>>[i]
  BY <1>2, <1>3, <1>4, Added
<1>7. t.paths[q.current + 1 + 1] = path
  <2>1. t.paths[at + 1] = path
    BY <1>4, <1>6
  <2> QED
    BY <1>5, <2>1
<1>8. play_next(q, path) = [t EXCEPT !.insert = t.current + 1 + t.pending]
  BY DEF play_next, s
<1> HIDE DEF t, at
<1>9. t.current + 1 + t.pending \in Places
  BY <1>1, <1>2, <1>6 DEF Places
<1> QED
  BY <1>2, <1>6, <1>7, <1>8, <1>9 DEF GoodQueue, Queues, Bag, Count, PathAt

(* The order in which the queue screen lists the tracks.                     *)
LEMMA DisplayFacts ==
  ASSUME NEW q, GoodQueue(q), NEW mode, UsesShuffleBag(mode) => Len(q.order) = Count(q)
  PROVE  /\ DisplayOrder(q, mode) \in Seq(Nat) /\ Order(DisplayOrder(q, mode))
         /\ Len(DisplayOrder(q, mode)) = Count(q)
         /\ DisplayCurrent(q, mode) \in Places
         /\ InOrder(q.paths, DisplayOrder(q, mode)) \in Seq(Tracks)
         /\ Len(InOrder(q.paths, DisplayOrder(q, mode))) = Count(q)
<1>1. /\ q.paths \in Seq(Tracks) /\ Len(q.paths) = Count(q) /\ Count(q) \in Nat
      /\ q.current \in Places /\ q.pos \in Places /\ q.order \in Seq(Nat) /\ Order(q.order)
  BY CountFacts DEF GoodQueue, Queues, Bag, Count
<1>2. /\ DisplayOrder(q, mode) \in Seq(Nat) /\ Order(DisplayOrder(q, mode))
      /\ Len(DisplayOrder(q, mode)) = Count(q)
  BY <1>1, IdentityFacts DEF DisplayOrder
<1>3. DisplayCurrent(q, mode) \in Places
  BY <1>1 DEF DisplayCurrent
<1> DEFINE o == DisplayOrder(q, mode)
<1> HIDE DEF o
<1>4. InOrder(q.paths, o) \in Seq(Tracks) /\ Len(InOrder(q.paths, o)) = Len(q.paths)
  BY <1>1, <1>2, InOrderFacts DEF o
<1> QED
  BY <1>1, <1>2, <1>3, <1>4 DEF o

(* materialize_display_order(): afterwards the queue is in the order of the  *)
(* screen and the bag, if any, is the identity.                              *)
LEMMA MaterializedFacts ==
  ASSUME NEW q, GoodQueue(q), NEW mode, UsesShuffleBag(mode) => Len(q.order) = Count(q)
  PROVE  LET m == Materialized(q, mode)
         IN  /\ GoodQueue(m) /\ Count(m) = Count(q) /\ m.pending = q.pending
             /\ m.current = IF Count(q) = 0 THEN q.current ELSE DisplayCurrent(q, mode)
             /\ m.order = q.order \/ m.order = Identity(Count(q))
             /\ BagIsCurrent(m) => m.order = Identity(Count(q)) \/ Count(q) = 0
<1> DEFINE m == Materialized(q, mode)
           current == DisplayCurrent(q, mode)
           paths == InOrder(q.paths, DisplayOrder(q, mode))
           insert == InsertIndex(current, q.pending)
<1>1. /\ current \in Places /\ paths \in Seq(Tracks) /\ Len(paths) = Count(q) /\ Count(q) \in Nat
      /\ Identity(Count(q)) \in Seq(Nat) /\ Len(Identity(Count(q))) = Count(q)
      /\ Order(Identity(Count(q))) /\ q.pending \in Nat
  BY DisplayFacts, CountFacts, IdentityFacts DEF GoodQueue, Queues
<1>2. insert \in Places
  BY <1>1 DEF InsertIndex, Places
<1>3. CASE Count(q) = 0
  <2>1. m = q
    BY <1>3 DEF Materialized
  <2> QED
    BY <1>3, <2>1
<1>4. CASE Count(q) # 0
  <2>1. m = [q EXCEPT !.paths = paths, !.current = current,
                      !.order = IF BagIsCurrent(q) THEN Identity(Count(q)) ELSE @,
                      !.pos = IF BagIsCurrent(q) THEN current ELSE @,
                      !.cont = NoOrder, !.insert = insert]
    BY <1>4 DEF Materialized
  <2> HIDE DEF m, current, paths, insert
  <2>2. /\ GoodQueue(m) /\ m.paths = paths /\ m.pending = q.pending /\ m.current = current
        /\ m.order = IF BagIsCurrent(q) THEN Identity(Count(q)) ELSE q.order
    BY <1>1, <1>2, <2>1, NoOrderFacts DEF GoodQueue, Queues, Bag
  <2>3. Count(m) = Count(q)
    BY <1>1, <2>2 DEF Count
  <2>4. BagIsCurrent(m) => m.order = Identity(Count(q))
    BY <2>2, <2>3 DEF BagIsCurrent
  <2> QED
    BY <1>4, <2>2, <2>3, <2>4 DEF m, current
<1> QED
  BY <1>3, <1>4

(* The bag of a materialized queue follows a removal.                        *)
LEMMA RemovedFromBag ==
  ASSUME NEW q, GoodQueue(q), NEW slot \in 0..(Count(q) - 1),
         BagIsCurrent(q) => q.order = Identity(Count(q))
  PROVE  LET r == queue_shuffle_remove(q, slot)
         IN  /\ GoodQueue(r) /\ SameTracks(r, q) /\ Count(r) = Count(q)
             /\ IF BagIsCurrent(q) THEN Len(r.order) = Count(q) - 1 ELSE r.order = q.order
<1> DEFINE r == queue_shuffle_remove(q, slot)
<1>1. Count(q) \in Nat /\ q.pos \in Places /\ q.order \in Seq(Nat) /\ Order(q.order)
  BY CountFacts DEF GoodQueue, Queues, Bag
<1>2. CASE ~BagIsCurrent(q)
  <2>1. r = [q EXCEPT !.cont = NoOrder]
    BY <1>2 DEF queue_shuffle_remove
  <2> HIDE DEF r
  <2>2. GoodQueue(r) /\ SameTracks(r, q) /\ r.order = q.order
    BY <2>1, NoOrderFacts DEF GoodQueue, Queues, Bag, SameTracks
  <2> QED
    BY <1>2, <2>2 DEF r, SameTracks, Count
<1>3. CASE BagIsCurrent(q)
  <2> DEFINE k == PositionOf(q.order, slot)
             p == IF k - 1 <= q.pos THEN q.pos - 1 ELSE q.pos
             o == OrderRemove(q.order, k)
  <2>1. Len(q.order) = Count(q) /\ q.order = Identity(Count(q))
    BY <1>3 DEF BagIsCurrent
  <2>2. slot + 1 \in 1..Len(q.order) /\ q.order[slot + 1] = slot
    BY <1>1, <2>1 DEF Identity
  <2>3. k \in 1..Len(q.order)
    BY <2>2 DEF PositionOf
  <2>4. r = [q EXCEPT !.order = o, !.cont = NoOrder, !.pos = p]
    BY <1>3 DEF queue_shuffle_remove
  <2> HIDE DEF k, r
  <2>5. o \in Seq(Nat) /\ Len(o) = Len(q.order) - 1 /\ Order(o)
    BY <1>1, <2>3, RemoveFacts
  <2>6. p \in Places
    BY <1>1, <2>1, <2>3 DEF Places
  <2> HIDE DEF o, p
  <2>7. GoodQueue(r) /\ SameTracks(r, q) /\ r.order = o
    BY <2>4, <2>5, <2>6, NoOrderFacts DEF GoodQueue, Queues, Bag, SameTracks
  <2> QED
    BY <1>3, <2>1, <2>5, <2>7 DEF r, SameTracks, Count
<1> QED
  BY <1>2, <1>3

(* player_queue_model_edit_displayed(): moves and removals.                  *)
LEMMA EditedFacts ==
  ASSUME NEW q, GoodQueue(q), NEW mode, UsesShuffleBag(mode) => Len(q.order) = Count(q),
         NEW from \in Int, NEW to \in Int, EditValid(q, mode, from, to)
  PROVE  LET r == Edited(q, mode, from, to)
         IN  /\ GoodQueue(r)
             /\ r.current = DisplayCurrent(q, mode)
             /\ Covers(q) => Covers(r)
<1> DEFINE m == Materialized(q, mode)
           end == m.current + m.pending
           pending == IF to < 0 THEN IF from <= end THEN m.pending - 1 ELSE m.pending
                      ELSE IF from <= end /\ to > end THEN to - m.current
                      ELSE IF from > end /\ to <= end THEN m.pending + 1
                      ELSE m.pending
           s == IF to < 0 THEN [queue_shuffle_remove(m, from) EXCEPT !.paths = Without(@, from)]
                ELSE [m EXCEPT !.paths = MovedTo(@, from, to)]
           r == [s EXCEPT !.pending = pending, !.insert = InsertIndex(m.current, pending)]
<1>1. r = Edited(q, mode, from, to)
  BY DEF Edited
<1>2. Count(q) \in Nat /\ DisplayCurrent(q, mode) \in Places
  BY CountFacts, DisplayFacts
<1>3. /\ from > DisplayCurrent(q, mode) /\ from < Count(q)
      /\ to < 0 \/ (to > DisplayCurrent(q, mode) /\ to < Count(q))
  BY DEF EditValid
<1>4. from \in Nat /\ Count(q) > 0 /\ from \in 0..(Count(q) - 1)
  BY <1>2, <1>3 DEF Places
<1>5. /\ GoodQueue(m) /\ Count(m) = Count(q) /\ m.current = DisplayCurrent(q, mode)
      /\ m.order = q.order \/ m.order = Identity(Count(q))
      /\ BagIsCurrent(m) => m.order = Identity(Count(m))
  BY <1>2, <1>4, MaterializedFacts
<1>6. /\ m.pending \in Nat /\ m.current \in Places /\ m.paths \in Seq(Tracks)
      /\ Len(m.paths) = Count(m)
  BY <1>5 DEF GoodQueue, Queues, Count
<1> HIDE DEF m
<1>7. pending \in Nat
  BY <1>3, <1>5, <1>6 DEF Places
<1>8. InsertIndex(m.current, pending) \in Places
  <2> HIDE DEF pending
  <2> QED
    BY <1>6, <1>7 DEF InsertIndex, Places
<1>9. Covers(q) => Covers(m)
  <2> HIDE DEF pending, s, r, end
  <2>1. Len(Identity(Count(q))) = Count(q)
    BY <1>2, IdentityFacts
  <2>2. CASE m.order = q.order
    BY <1>5, <2>2 DEF Covers
  <2>3. CASE m.order = Identity(Count(q))
    <3>1. Len(m.order) = Count(m)
      BY <1>5, <2>1, <2>3
    <3> QED
      BY <1>2, <1>5, <3>1 DEF Covers
  <2> QED
    BY <1>5, <2>2, <2>3
<1>10. GoodQueue(s) /\ s.current = m.current /\ (Covers(m) => Covers(s))
  <2>1. CASE to < 0
    <3> DEFINE t == queue_shuffle_remove(m, from)
    <3>1. /\ GoodQueue(t) /\ SameTracks(t, m) /\ Count(t) = Count(m)
          /\ IF BagIsCurrent(m) THEN Len(t.order) = Count(m) - 1 ELSE t.order = m.order
      BY <1>4, <1>5, RemovedFromBag
    <3>2. s = [t EXCEPT !.paths = Without(@, from)]
      BY <2>1
    <3>3. t.paths = m.paths /\ t.current = m.current
      BY <3>1 DEF SameTracks
    <3>4. Without(m.paths, from) \in Seq(Tracks) /\ Len(Without(m.paths, from)) = Len(m.paths) - 1
      <4> DEFINE paths == m.paths
      <4>1. paths \in Seq(Tracks) /\ from \in 0..Len(paths) - 1
        BY <1>4, <1>5, <1>6
      <4> HIDE DEF paths
      <4>2. Without(paths, from) \in Seq(Tracks) /\ Len(Without(paths, from)) = Len(paths) - 1
        BY <4>1, WithoutFacts
      <4> QED
        BY <4>2 DEF paths
    <3> HIDE DEF s, t
    <3>5. GoodQueue(s) /\ s.current = t.current /\ s.order = t.order /\ Count(s) = Count(m) - 1
      BY <1>6, <3>1, <3>2, <3>3, <3>4 DEF GoodQueue, Queues, Bag, Count
    <3>6. Covers(m) => Covers(s)
      BY <1>2, <1>5, <3>1, <3>5, BagSlots DEF Covers, BagIsCurrent
    <3> QED
      BY <3>3, <3>5, <3>6 DEF s
  <2>2. CASE ~(to < 0)
    <3>1. s = [m EXCEPT !.paths = MovedTo(@, from, to)]
      BY <2>2
    <3>2. MovedTo(m.paths, from, to) \in Seq(Tracks) /\ Len(MovedTo(m.paths, from, to)) = Len(m.paths)
      <4> DEFINE paths == m.paths
                 short == Without(paths, from)
                 one == <<paths[from + 1]>>
      <4>1. paths \in Seq(Tracks) /\ from \in 0..Len(paths) - 1 /\ to \in 0..Len(paths) - 1
        BY <1>2, <1>3, <1>4, <1>5, <1>6, <2>2
      <4> HIDE DEF paths
      <4>2. short \in Seq(Tracks) /\ Len(short) = Len(paths) - 1
        BY <4>1, WithoutFacts
      <4>3. one \in Seq(Tracks) /\ Len(one) = 1 /\ to \in 0..Len(short) /\ Len(paths) \in Nat
        BY <4>1, <4>2
      <4>4. MovedTo(paths, from, to) = With(short, to, one)
        BY DEF MovedTo
      <4> HIDE DEF short, one
      <4>5. With(short, to, one) \in Seq(Tracks) /\ Len(With(short, to, one)) = Len(short) + Len(one)
        BY <4>2, <4>3, WithFacts
      <4> QED
        BY <4>2, <4>3, <4>4, <4>5 DEF paths
    <3> HIDE DEF s
    <3>3. GoodQueue(s) /\ s.current = m.current /\ s.order = m.order /\ Count(s) = Count(m)
      BY <1>5, <1>6, <3>1, <3>2 DEF GoodQueue, Queues, Bag, Count
    <3> QED
      BY <3>3 DEF Covers, s
  <2> QED
    BY <2>1, <2>2
<1> HIDE DEF s, pending
<1>11. GoodQueue(r) /\ r.current = s.current /\ r.order = s.order /\ Count(r) = Count(s)
  BY <1>7, <1>8, <1>10 DEF GoodQueue, Queues, Bag, Count
<1> HIDE DEF r
<1> QED
  BY <1>1, <1>5, <1>9, <1>10, <1>11 DEF Covers

(* A selection in the displayed queue.                                       *)
LEMMA SelectedFacts ==
  ASSUME NEW q, GoodQueue(q), NEW mode, UsesShuffleBag(mode) => Len(q.order) = Count(q),
         NEW index \in Nat
  PROVE  LET r == Selected(q, mode, index)
         IN  /\ GoodQueue(r) /\ Count(r) = Count(q)
             /\ r.current = IF Count(q) = 0 THEN q.current ELSE DisplayCurrent(q, mode)
             /\ Covers(q) => Covers(r)
<1> DEFINE m == Materialized(q, mode)
           pending == IF index > m.current /\ index <= m.current + m.pending
                      THEN m.pending - (index - m.current)
                      ELSE IF index # m.current THEN 0 ELSE m.pending
           r == Selected(q, mode, index)
<1>1. /\ GoodQueue(m) /\ Count(m) = Count(q) /\ Count(q) \in Nat
      /\ m.current = IF Count(q) = 0 THEN q.current ELSE DisplayCurrent(q, mode)
      /\ m.order = q.order \/ m.order = Identity(Count(q))
  BY MaterializedFacts, CountFacts
<1>2. r = [m EXCEPT !.pending = pending,
                    !.insert = IF pending > 0 THEN index + 1 + pending ELSE -1,
                    !.pos = IF m.order # NoOrder THEN index ELSE @]
  BY DEF Selected
<1> HIDE DEF m, r
<1>3. m.pending \in Nat /\ m.current \in Places
  BY <1>1 DEF GoodQueue, Queues
<1>4. pending \in Nat
  BY <1>3 DEF Places
<1> HIDE DEF pending
<1>5. index \in Places /\ index + 1 + pending \in Places
  BY <1>4 DEF Places
<1>6. GoodQueue(r) /\ r.current = m.current /\ r.order = m.order /\ Count(r) = Count(m)
  BY <1>1, <1>2, <1>4, <1>5 DEF GoodQueue, Queues, Bag, Count, Places
<1>7. Covers(q) => Covers(m)
  <2>1. Len(Identity(Count(q))) = Count(q)
    BY <1>1, IdentityFacts
  <2>2. CASE m.order = q.order
    BY <1>1, <2>2 DEF Covers
  <2>3. CASE m.order = Identity(Count(q))
    <3>1. Len(m.order) = Count(m)
      BY <1>1, <2>1, <2>3
    <3> QED
      BY <1>1, <3>1 DEF Covers
  <2> QED
    BY <1>1, <2>2, <2>3
<1> QED
  BY <1>1, <1>6, <1>7 DEF r, Covers

(* clear_to_current() leaves one track, the current one.                     *)
LEMMA Cleared ==
  ASSUME NEW q, GoodQueue(q), HasActiveTrack(q), NEW mode, NEW r \in clear_to_current(q, mode)
  PROVE  GoodQueue(r) /\ Count(r) = 1 /\ r.current = 0
<1>1. ASSUME NEW m, GoodQueue(m), NEW path \in Tracks
      PROVE  LET c == CutDownTo(m, path)
             IN  /\ c \in Queues /\ c.paths = <<path>> /\ c.current = 0 /\ c.cont = NoOrder
                 /\ c.order = m.order /\ c.pos = m.pos
  <2>1. <<path>> \in Seq(Tracks) /\ 0 \in Places /\ -1 \in Places
    BY DEF Places
  <2> QED
    BY <1>1, <2>1, NoOrderFacts DEF GoodQueue, Queues, CutDownTo
<1>2. << 0 >> \in Seq(Nat) /\ Len(<< 0 >>) = 1 /\ Order(<< 0 >>)
  BY DEF Order, IsOrder, Distinct
<1>3. CASE r = [CutDownTo(q, PathAt(q, q.current)) EXCEPT !.order = NoOrder]
  <2> DEFINE c == CutDownTo(q, PathAt(q, q.current))
  <2>1. PathAt(q, q.current) \in Tracks
    BY CountFacts DEF HasActiveTrack, GoodQueue, Queues, Places
  <2>2. c \in Queues /\ c.paths = <<PathAt(q, q.current)>> /\ c.current = 0 /\ c.cont = NoOrder
    BY <1>1, <2>1
  <2>3. r = [c EXCEPT !.order = NoOrder]
    BY <1>3
  <2> HIDE DEF c
  <2> QED
    BY <2>2, <2>3, NoOrderFacts DEF GoodQueue, Queues, Bag, Count
<1>4. ASSUME NEW s \in Prepared(q, mode), NEW path \in Tracks,
             LET m == Materialized(s, mode)
             IN  r = [CutDownTo(m, path) EXCEPT !.order = IF @ = NoOrder THEN @ ELSE << 0 >>,
                                                !.pos = IF m.order = NoOrder THEN @ ELSE 0]
      PROVE  GoodQueue(r) /\ Count(r) = 1 /\ r.current = 0
  <2> DEFINE m == Materialized(s, mode)
             c == CutDownTo(m, path)
  <2>1. GoodQueue(m)
    BY PreparedFacts, MaterializedFacts
  <2>2. /\ c \in Queues /\ c.paths = <<path>> /\ c.current = 0 /\ c.cont = NoOrder
        /\ c.order = m.order /\ c.pos = m.pos
    BY <1>1, <2>1
  <2>3. r = [c EXCEPT !.order = IF @ = NoOrder THEN @ ELSE << 0 >>,
                      !.pos = IF m.order = NoOrder THEN @ ELSE 0]
    BY <1>4
  <2> HIDE DEF c, m
  <2> QED
    BY <1>2, <2>2, <2>3, NoOrderFacts DEF GoodQueue, Queues, Bag, Count, Places
<1> DEFINE Kept(m) == IF HasActiveTrack(m) THEN {PathAt(m, m.current)} ELSE Tracks
           Last(m, path) == [CutDownTo(m, path) EXCEPT !.order = IF @ = NoOrder THEN @ ELSE << 0 >>,
                                                       !.pos = IF m.order = NoOrder THEN @ ELSE 0]
           Cut(m) == {Last(m, path) : path \in Kept(m)}
<1>5. r \in {[CutDownTo(q, PathAt(q, q.current)) EXCEPT !.order = NoOrder]}
              \cup UNION {Cut(Materialized(s, mode)) : s \in Prepared(q, mode)}
  BY DEF clear_to_current
<1>6. CASE r \in UNION {Cut(Materialized(s, mode)) : s \in Prepared(q, mode)}
  <2>1. PICK s \in Prepared(q, mode) : r \in Cut(Materialized(s, mode))
    BY <1>6
  <2> DEFINE m == Materialized(s, mode)
  <2>2. GoodQueue(m)
    BY PreparedFacts, MaterializedFacts
  <2>3. PICK path \in Kept(m) : r = Last(m, path)
    BY <2>1
  <2>4. path \in Tracks
    <3>1. m.current \in Int
      BY <2>2 DEF GoodQueue, Queues, Places
    <3> HIDE DEF m
    <3> QED
      BY <2>2, <3>1, CountFacts DEF HasActiveTrack
  <2> QED
    BY <1>4, <2>3, <2>4
<1> QED
  BY <1>3, <1>5, <1>6

(* Playing what the screen shows from a slot.                                *)
LEMMA Restarted ==
  ASSUME NEW q, GoodQueue(q), NEW mode, UsesShuffleBag(mode) => Len(q.order) = Count(q),
         NEW index \in Nat
  PROVE  LET r == RestartedDisplayed(q, mode, index)
         IN  GoodQueue(r) /\ Covers(r) /\ r.current = index
<1> DEFINE r == RestartedDisplayed(q, mode, index)
           paths == InOrder(q.paths, DisplayOrder(q, mode))
<1>1. paths \in Seq(Tracks)
  BY DisplayFacts
<1>2. r = [q EXCEPT !.paths = paths, !.current = index, !.pending = 0, !.insert = -1,
                    !.order = NoOrder, !.pos = -1, !.cont = NoOrder]
  BY DEF RestartedDisplayed
<1> HIDE DEF r, paths
<1>3. GoodQueue(r) /\ r.current = index /\ r.order = NoOrder
  BY <1>1, <1>2, NoOrderFacts DEF GoodQueue, Queues, Bag, Places
<1> QED
  BY <1>3 DEF Covers, r

(* Deleting the current track leaves a track to go on with unless the queue  *)
(* is empty.                                                                 *)
LEMMA Deleted ==
  ASSUME NEW q, GoodQueue(q), HasActiveTrack(q)
  PROVE  LET r == delete_current(q)
         IN  /\ GoodQueue(r) /\ r.current = q.current /\ r.current \in Nat
             /\ Covers(q) => Covers(r)
             /\ AfterDelete(r) \in Places
             /\ AfterDelete(r) < 0 <=> Count(r) = 0
<1> DEFINE r == delete_current(q)
           paths == q.paths
           slot == q.current
<1>1. paths \in Seq(Tracks) /\ slot \in 0..Len(paths) - 1 /\ Len(paths) \in Nat /\ slot \in Nat
  BY DEF HasActiveTrack, InQueue, GoodQueue, Queues, Places, Count
<1>2. r = [q EXCEPT !.paths = Without(paths, slot)]
  BY DEF delete_current
<1> HIDE DEF paths, slot
<1>3. Without(paths, slot) \in Seq(Tracks) /\ Len(Without(paths, slot)) = Len(paths) - 1
  BY <1>1, WithoutFacts
<1>4. GoodQueue(r) /\ r.current = slot /\ r.order = q.order /\ Count(r) = Count(q) - 1
  BY <1>1, <1>2, <1>3 DEF GoodQueue, Queues, Bag, Count, paths, slot
<1> HIDE DEF r
<1>5. Covers(q) => Covers(r)
  BY <1>1, <1>4, BagSlots, CountFacts DEF Covers
<1>6. AfterDelete(r) \in Places /\ (AfterDelete(r) < 0 <=> Count(r) = 0)
  <2>1. Count(r) \in Nat
    BY <1>4, CountFacts
  <2>2. CASE Count(r) = 0
    <3>1. AfterDelete(r) = -1
      BY <2>2 DEF AfterDelete
    <3> QED
      BY <2>2, <3>1 DEF Places
  <2>3. CASE Count(r) # 0
    <3> DEFINE c == r.current
               n == Count(r) - 1
    <3>4. c \in Nat
      BY <1>1, <1>4
    <3>5. n \in Nat
      BY <2>1, <2>3
    <3>1. c \in Nat /\ n \in Nat
      BY <3>4, <3>5
    <3>2. AfterDelete(r) = Lesser(c, n)
      BY <2>3 DEF AfterDelete
    <3> HIDE DEF c, n
    <3>3. AfterDelete(r) \in Nat
      BY <3>1, <3>2 DEF Lesser
    <3> QED
      BY <2>3, <3>3 DEF Places
  <2> QED
    BY <2>2, <2>3
<1> QED
  BY <1>1, <1>4, <1>5, <1>6 DEF r, slot

(* select_physical().                                                        *)
LEMMA AnotherCurrent ==
  ASSUME NEW q, GoodQueue(q), NEW i \in Places
  PROVE  LET r == [q EXCEPT !.current = i]
         IN  /\ GoodQueue(r) /\ r.current = i /\ r.paths = q.paths /\ Count(r) = Count(q)
             /\ r.order = q.order /\ (Covers(q) => Covers(r))
  BY DEF GoodQueue, Queues, Bag, Count, Covers

Snapshots == [paths : Seq(Tracks), current : Places]

(* A snapshot for the queue screen.                                          *)
LEMMA Shown ==
  ASSUME NEW q, GoodQueue(q), NEW mode, UsesShuffleBag(mode) => Len(q.order) = Count(q)
  PROVE  Displayed(q, mode) \in Snapshots
  BY DisplayFacts DEF Displayed, Snapshots

(* Where the bag and what it shows stay.  OnTrack: the place in a bag in use *)
(* is that of the current track.  SameView: an operation left the queue as   *)
(* its screen shows it.                                                      *)
OnTrack(q) == BagIsCurrent(q) /\ HasActiveTrack(q) =>
                 q.pos \in 0..(Count(q) - 1) /\ q.order[q.pos + 1] = q.current
SameView(r, q, mode) ==
  /\ r.paths = q.paths /\ r.current = q.current
  /\ UsesShuffleBag(mode) => /\ OnTrack(q) => OnTrack(r)
                             /\ BagIsCurrent(q) => r.order = q.order /\ r.pos = q.pos

(* By the pigeonhole principle a bag holds every slot.                       *)
LEMMA OrderHits ==
  ASSUME NEW o \in Seq(Nat), Order(o), NEW slot \in 0..(Len(o) - 1)
  PROVE  \E k \in 1..Len(o) : o[k] = slot
<1> DEFINE n == Len(o)
<1>1. n \in Nat /\ o \in [1..n -> 0..(n - 1)]
  BY DEF Order, IsOrder
<1>2. \A i, j \in 1..n : i # j => o[i] # o[j]
  BY OrderFacts
<1> HIDE DEF n
<1>3. o \in Injection(1..n, 0..(n - 1))
  BY <1>1, <1>2 DEF Injection, IsInjective
<1>4. /\ IsFiniteSet(1..n) /\ Cardinality(1..n) = n
      /\ IsFiniteSet(0..(n - 1)) /\ Cardinality(0..(n - 1)) = n
  <2>1. \A a, b \in Int : /\ IsFiniteSet(a..b)
                          /\ Cardinality(a..b) = IF a > b THEN 0 ELSE b - a + 1
    BY FS_Interval
  <2> QED
    BY <1>1, <2>1
<1>5. o \in Surjection(1..n, 0..(n - 1))
  BY <1>3, <1>4, FS_Injection
<1> QED
  BY <1>5 DEF Surjection, n

(* The bag of another length is drawn anew around the current track; one     *)
(* that fits is left alone.                                                  *)
LEMMA EnsuredView ==
  ASSUME NEW q, GoodQueue(q), NEW r \in ensure_shuffle_order_current(q)
  PROVE  (OnTrack(q) => OnTrack(r)) /\ (BagIsCurrent(q) => r = q)
<1>1. CASE BagIsCurrent(q)
  BY <1>1 DEF ensure_shuffle_order_current
<1>2. CASE ~BagIsCurrent(q)
  <2>1. PICK o \in FreshOrders(q) : r = [q EXCEPT !.order = o, !.pos = 0, !.cont = NoOrder]
    BY <1>2 DEF ensure_shuffle_order_current
  <2>2. r.order = o /\ r.pos = 0 /\ r.current = q.current /\ r.paths = q.paths
    BY <2>1 DEF GoodQueue, Queues
  <2>3. Count(q) \in Nat /\ Count(r) = Count(q)
    BY <2>2, CountFacts DEF Count
  <2>4. HasActiveTrack(r) => HasActiveTrack(q) /\ o[1] = q.current /\ Count(q) > 0
    <3>1. HasActiveTrack(r) => HasActiveTrack(q)
      BY <2>2, <2>3 DEF HasActiveTrack, InQueue
    <3>2. HasActiveTrack(q) => Count(q) > 0
      BY <2>3 DEF HasActiveTrack, InQueue, GoodQueue, Queues, Places
    <3> QED
      BY <3>1, <3>2 DEF FreshOrders
  <2> QED
    BY <1>2, <2>2, <2>3, <2>4 DEF OnTrack
<1> QED
  BY <1>1, <1>2

LEMMA ContinuedView ==
  ASSUME NEW q, GoodQueue(q), OnTrack(q), NEW r, r.paths = q.paths, r.current = q.current,
         r.order = q.order, r.pos = q.pos
  PROVE  OnTrack(r)
  BY DEF OnTrack, BagIsCurrent, HasActiveTrack, InQueue, Count

(* A prediction changes the continuation of a bag, never the bag as it is    *)
(* shown.                                                                    *)
LEMMA ReadiedView ==
  ASSUME NEW q, GoodQueue(q), NEW mode, NEW r \in ReadyToAdvance(q, mode)
  PROVE  SameView(r, q, mode)
<1>1. CASE r = q
  BY <1>1 DEF SameView
<1>2. CASE r # q
  <2>1. PICK s \in ensure_shuffle_order_current(q) :
           r \in IF mode = "SHUFFLE" /\ s.pos + 1 >= Count(s) THEN WithContinuation(s) ELSE {s}
    BY <1>2 DEF ReadyToAdvance
  <2>2. GoodQueue(s) /\ SameTracks(s, q) /\ Count(s) = Count(q) /\ Len(s.order) = Count(q)
        /\ (OnTrack(q) => OnTrack(s)) /\ (BagIsCurrent(q) => s = q)
    BY Ensured, EnsuredView
  <2>3. SameTracks(r, s) /\ r.order = s.order /\ r.pos = s.pos
    BY <2>1, <2>2, Continued DEF SameTracks
  <2>4. OnTrack(s) => OnTrack(r)
    BY <2>2, <2>3, ContinuedView DEF SameTracks
  <2> QED
    BY <2>2, <2>3, <2>4 DEF SameView, SameTracks
<1> QED
  BY <1>1, <1>2

(* After note_next_armed() the place in the bag is that of the current       *)
(* track.                                                                    *)
LEMMA NotedView ==
  ASSUME NEW q, GoodQueue(q), NEW mode, UsesShuffleBag(mode), NEW r \in note_next_armed(q, mode)
  PROVE  OnTrack(r)
<1>1. PICK s : /\ GoodQueue(s) /\ SameTracks(s, q) /\ Count(s) = Count(q)
               /\ Len(s.order) = Count(q)
               /\ r \in ReadyToAdvance(s, mode)
               /\ (\E k \in 1..Len(s.order) : s.order[k] = s.current)
                     => s.pos \in 0..(Count(q) - 1) /\ s.order[s.pos + 1] = s.current
  BY Aligned
<1>2. OnTrack(s)
  <2> SUFFICES ASSUME HasActiveTrack(s)
               PROVE  s.pos \in 0..(Count(s) - 1) /\ s.order[s.pos + 1] = s.current
    BY DEF OnTrack
  <2>1. s.current \in 0..(Len(s.order) - 1)
    BY <1>1, CountFacts DEF HasActiveTrack, InQueue, GoodQueue, Queues, Places
  <2>2. s.order \in Seq(Nat) /\ Order(s.order)
    BY <1>1 DEF GoodQueue, Queues, Bag
  <2> QED
    BY <1>1, <2>1, <2>2, OrderHits
<1>3. SameView(r, s, mode)
  BY <1>1, ReadiedView
<1> QED
  BY <1>2, <1>3 DEF SameView

(* An advance past the failed tracks that finds none leaves the view alone,  *)
(* and so does a step that leads nowhere.                                    *)
LEMMA PastFailedView ==
  ASSUME NEW q, GoodQueue(q), NEW mode, NEW failed,
         NEW x \in advance_past_failed(q, mode, failed), x[2] < 0
  PROVE  SameView(x[1], q, mode)
<1> DEFINE ready == IF mode = "SHUFFLE"
                    THEN UNION {WithContinuation(r) : r \in ensure_shuffle_order_current(q)}
                    ELSE {q}
           Plan(r) == FailurePlan(r, mode, failed)
           Left(r) == IF Plan(r).target < 0 THEN r ELSE commit_failure_advance(r, Plan(r), mode)
<1>1. PICK r \in ready : x = <<Left(r), Plan(r).target>>
  BY DEF advance_past_failed
<1>2. x[1] = r
  BY <1>1
<1>3. CASE r = q
  BY <1>2, <1>3 DEF SameView
<1>4. CASE r # q
  <2>1. PICK s \in ensure_shuffle_order_current(q) : r \in WithContinuation(s)
    BY <1>1, <1>4
  <2>2. GoodQueue(s) /\ SameTracks(s, q) /\ Count(s) = Count(q) /\ Len(s.order) = Count(q)
        /\ (OnTrack(q) => OnTrack(s)) /\ (BagIsCurrent(q) => s = q)
    BY Ensured, EnsuredView
  <2>3. SameTracks(r, s) /\ r.order = s.order /\ r.pos = s.pos
    BY <2>1, <2>2, Continued
  <2>4. OnTrack(s) => OnTrack(r)
    BY <2>2, <2>3, ContinuedView DEF SameTracks
  <2> QED
    BY <1>2, <2>2, <2>3, <2>4 DEF SameView, SameTracks
<1> QED
  BY <1>3, <1>4

LEMMA SteppedView ==
  ASSUME NEW q0, GoodQueue(q0), NEW mode, NEW direction \in {-1, 1},
         NEW x \in manual_step(q0, mode, direction)
  PROVE  IF x[2] < 0 THEN SameView(x[1], q0, mode) ELSE InQueue(x[1], x[2])
<1> DEFINE q == IF direction < 0 /\ q0.pending > 0
                THEN [q0 EXCEPT !.pending = 0, !.insert = -1] ELSE q0
           n == Count(q)
           next == q.current + direction
           Shuffled(r) ==
              LET to == r.pos + direction
              IN  IF to >= 0 /\ to < n THEN {<<[r EXCEPT !.pos = to], r.order[to + 1]>>}
                  ELSE IF to >= n /\ mode = "SHUFFLE"
                       THEN {<<[r EXCEPT !.order = o, !.pos = 0], o[1]>> : o \in Orders(n)}
                  ELSE {<<r, -1>>}
<1>1. /\ GoodQueue(q) /\ q.paths = q0.paths /\ q.current = q0.current /\ q.order = q0.order
      /\ q.pos = q0.pos
  BY DEF GoodQueue, Queues, Places, Bag
<1>2. x \in IF q.current < 0 \/ n = 0 THEN {<<q0, -1>>}
            ELSE IF direction > 0 /\ q.pending > 0 /\ next < n
                 THEN {<<QueuedTaken(q), next>>}
            ELSE IF UsesShuffleBag(mode) THEN UNION {Shuffled(r) : r \in ensure_shuffle_order_current(q)}
            ELSE IF mode = "REPEAT_ALL" THEN {<<q, (next + n) % n>>}
            ELSE {<<q, IF InQueue(q, next) THEN next ELSE -1>>}
  BY DEF manual_step
<1> HIDE DEF q
<1>3. n \in Nat /\ q.current \in Places /\ n = Count(q0)
  BY <1>1, CountFacts DEF GoodQueue, Queues, Count
<1>4. x[1].paths = q0.paths /\ x[2] \in Places
  BY Stepped
<1>5. Count(x[1]) = n
  BY <1>1, <1>4 DEF Count
<1>6. SameView(q, q0, mode)
  <2>1. OnTrack(q0) => OnTrack(q)
    BY <1>1, ContinuedView
  <2> QED
    BY <1>1, <2>1 DEF SameView
<1>7. CASE x = <<q0, -1>>
  BY <1>7 DEF SameView
<1>8. CASE q.current >= 0 /\ n > 0 /\ direction > 0 /\ q.pending > 0 /\ next < n /\ x = <<QueuedTaken(q), next>>
  <2>1. next \in Nat
    BY <1>3, <1>8 DEF Places
  <2>2. x[2] = next
    BY <1>8
  <2> QED
    BY <1>5, <1>8, <2>1, <2>2 DEF InQueue
<1>9. CASE n > 0 /\ UsesShuffleBag(mode)
           /\ x \in UNION {Shuffled(r) : r \in ensure_shuffle_order_current(q)}
  <2>1. PICK r \in ensure_shuffle_order_current(q) : x \in Shuffled(r)
    BY <1>9
  <2>2. GoodQueue(r) /\ SameTracks(r, q) /\ Len(r.order) = n /\ Count(r) = n
        /\ (OnTrack(q) => OnTrack(r)) /\ (BagIsCurrent(q) => r = q)
    BY <1>1, Ensured, EnsuredView DEF SameTracks
  <2> DEFINE to == r.pos + direction
  <2>3. to \in Int
    BY <2>2 DEF GoodQueue, Queues, Places
  <2> HIDE DEF to
  <2>4. CASE to >= 0 /\ to < n
    <3>1. x = <<[r EXCEPT !.pos = to], r.order[to + 1]>>
      BY <2>1, <2>4 DEF to
    <3>2. r.order[to + 1] \in Nat /\ r.order[to + 1] < n
      BY <1>3, <2>2, <2>3, <2>4, BagSlots
    <3>3. x[2] = r.order[to + 1]
      BY <3>1
    <3> QED
      BY <1>3, <1>5, <3>2, <3>3 DEF InQueue
  <2>5. CASE ~(to >= 0 /\ to < n) /\ to >= n /\ mode = "SHUFFLE"
    <3>1. PICK o \in Orders(n) : x = <<[r EXCEPT !.order = o, !.pos = 0], o[1]>>
      BY <2>1, <2>5 DEF to
    <3>2. o \in [1..n -> 0..(n - 1)]
      BY DEF Orders
    <3>3. o[1] \in 0..(n - 1)
      <4> HIDE DEF n, Shuffled
      <4>1. n > 0
        BY <1>9
      <4>2. 1 \in 1..n
        BY <1>3, <4>1
      <4> QED
        BY <3>2, <4>2
    <3>4. x[2] = o[1]
      BY <3>1
    <3> QED
      BY <1>3, <1>5, <3>3, <3>4 DEF InQueue
  <2>6. CASE ~(to >= 0 /\ to < n) /\ ~(to >= n /\ mode = "SHUFFLE")
    <3>1. x = <<r, -1>>
      BY <2>1, <2>6 DEF to
    <3>2. SameView(r, q, mode)
      BY <2>2 DEF SameView, SameTracks
    <3>3. BagIsCurrent(q) <=> BagIsCurrent(q0)
      BY <1>1 DEF BagIsCurrent, Count
    <3>4. SameView(r, q0, mode)
      BY <1>1, <1>6, <3>2, <3>3 DEF SameView
    <3> QED
      BY <3>1, <3>4
  <2> QED
    BY <2>4, <2>5, <2>6
<1>10. CASE n > 0 /\ x = <<q, (next + n) % n>>
  <2> DEFINE a == next + n
  <2>1. a \in Int /\ n \in Nat \ {0}
    BY <1>3, <1>10 DEF Places
  <2>2. x[2] = a % n
    BY <1>10
  <2> HIDE DEF a, n
  <2>3. a % n \in 0..(n - 1)
    BY <2>1, RemainderFacts
  <2> QED
    BY <1>5, <2>1, <2>2, <2>3 DEF InQueue
<1>11. CASE x = <<q, IF InQueue(q, next) THEN next ELSE -1>>
  <2>1. CASE InQueue(q, next)
    <3>1. x[2] = next /\ x[1] = q
      BY <1>11, <2>1
    <3> HIDE DEF next
    <3>2. next \in Int
      BY <1>3 DEF Places, next
    <3> QED
      BY <2>1, <3>1, <3>2 DEF InQueue
  <2>2. CASE ~InQueue(q, next)
    <3>1. x = <<q, -1>>
      BY <1>11, <2>2
    <3> QED
      BY <1>6, <3>1
  <2> QED
    BY <2>1, <2>2
<1> QED
  <2>1. n > 0 \/ n = 0
    BY <1>3
  <2>2. q.current >= 0 \/ q.current < 0
    BY <1>3 DEF Places
  <2> QED
    BY <1>2, <1>7, <1>8, <1>9, <1>10, <1>11, <2>1, <2>2
=============================================================================

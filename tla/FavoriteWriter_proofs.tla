----------------------- MODULE FavoriteWriter_proofs -----------------------
(* What holds of the writer of favourites for every set of paths and callers *)
(* and for every FAVORITE_INFLIGHT_MAX.                                       *)
EXTENDS FavoriteWriter, FiniteSetTheorems, TLAPS

(* The only way from request to card is in the order of the numbers: what is *)
(* stored is older than what waits, what is being written older than what    *)
(* waits, what waits older than what is queued.                              *)
Known ==
    /\ \A p \in Paths : /\ latest[p] < next_seq
                        /\ queue[p] <= latest[p]
                        /\ stored[p] <= latest[p]
                        /\ refused[p] <= latest[p]
    /\ \A t \in Waiters \cup Inflight : thread[t].seq <= latest[thread[t].path]

QueuedIsNewest ==
    /\ \A p \in Paths : queue[p] > 0 => stored[p] < queue[p] /\ refused[p] < queue[p]
    /\ \A t \in Waiters \cup Inflight :
          queue[thread[t].path] > 0 => thread[t].seq < queue[thread[t].path]

WaitingIsNewer ==
    /\ \A s \in Waiters : LET r == thread[s]
                          IN  stored[r.path] < r.seq /\ refused[r.path] < r.seq
    /\ \A s, t \in Waiters :
          thread[s].path = thread[t].path /\ thread[s].seq = thread[t].seq => s = t
    /\ \A s \in Waiters, t \in Inflight :
          thread[s].path = thread[t].path => thread[t].seq < thread[s].seq

WrittenIsStored ==
    \A t \in Inflight :
        LET r == thread[t]
        IN  /\ stored[r.path] <= r.seq /\ refused[r.path] <= r.seq
            /\ r.at = "written" => stored[r.path] = r.seq
            /\ r.at = "unsaved" => r.seq \in {stored[r.path], refused[r.path]}

LastIsSomewhere ==
    \A p \in Paths :
        \/ latest[p] \in {queue[p], stored[p], refused[p]}
        \/ \E t \in Waiters \cup Inflight : thread[t].path = p /\ thread[t].seq = latest[p]

Ordered == OneWriterPerPath /\ QueuedIsNewest /\ WaitingIsNewer /\ WrittenIsStored
Inv == TypeOK /\ Known /\ Ordered /\ LastIsSomewhere

(* A thread that waits or writes is at a request of a path.                  *)
LEMMA RequestFacts ==
    ASSUME TypeOK
    PROVE  /\ \A t \in Threads : thread[t].at # "idle" => thread[t].path \in Paths
           /\ \A t \in Waiters \cup Inflight :
                 /\ t \in Threads /\ thread[t].path \in Paths
                 /\ thread[t].seq \in 1..MaxSeq
           /\ Waiters \cap Inflight = {}
  BY DEF TypeOK, Requests, Idle, Waiters, Inflight

(* The steps of a request keep its path and its number.                      *)
Busy == {"waiting", "writing", "written", "unsaved"}

LEMMA RequestShapes ==
    /\ Idle \in Requests
    /\ \A p \in Paths : [at |-> "entering", path |-> p, seq |-> 0] \in Requests
    /\ \A p \in Paths, n \in 1..MaxSeq, stage \in Busy :
          [at |-> stage, path |-> p, seq |-> n] \in Requests
    /\ \A r \in Requests :
          /\ r.at = "idle" => r = Idle
          /\ r.at = "entering" => r = [at |-> "entering", path |-> r.path, seq |-> 0]
          /\ r.at \in Busy => r = [at |-> r.at, path |-> r.path, seq |-> r.seq]
          /\ r.at \in {"idle", "entering"} \cup Busy
          /\ r.at # "idle" => r.path \in Paths
          /\ r.at \in Busy => r.seq \in 1..MaxSeq
  BY DEF Requests, Idle, Busy

LEMMA NextStage ==
    ASSUME NEW r \in Requests, r.at \in Busy, NEW stage \in Busy
    PROVE  [r EXCEPT !.at = stage] = [at |-> stage, path |-> r.path, seq |-> r.seq]
  BY RequestShapes

(* One thread moves to another stage: who waits and who writes then.         *)
LEMMA Moves ==
    ASSUME TypeOK, NEW t \in Threads, NEW r \in Requests,
           thread' = [thread EXCEPT ![t] = r]
    PROVE  /\ thread' \in [Threads -> Requests]
           /\ thread'[t] = r
           /\ \A u \in Threads \ {t} : thread'[u] = thread[u]
           /\ Waiters' = IF r.at = "waiting" THEN Waiters \cup {t} ELSE Waiters \ {t}
           /\ Inflight' = IF r.at \in {"writing", "written", "unsaved"}
                          THEN Inflight \cup {t} ELSE Inflight \ {t}
<1>1. /\ thread \in [Threads -> Requests]
      /\ thread' \in [Threads -> Requests]
      /\ thread'[t] = r
      /\ \A u \in Threads \ {t} : thread'[u] = thread[u]
  BY DEF TypeOK
<1> QED
  BY <1>1 DEF Waiters, Inflight

LEMMA InitInv == Init => Inv
<1> SUFFICES ASSUME Init PROVE Inv
  OBVIOUS
<1> USE MaxSeqAssumption
<1>1. Waiters = {} /\ Inflight = {}
  BY DEF Init, Waiters, Inflight, Idle
<1>2. TypeOK
  BY DEF Init, TypeOK, Requests, Seqs
<1> QED
  BY <1>1, <1>2 DEF Init, Inv, Known, Ordered, OneWriterPerPath, QueuedIsNewest,
     WaitingIsNewer, WrittenIsStored, LastIsSomewhere

(* What each step makes of the thread that takes it.                         *)
LEMMA CallMoves ==
    ASSUME TypeOK, NEW c \in Callers, NEW p \in Paths, Call(c, p)
    PROVE  /\ thread' = [thread EXCEPT ![c] = [at |-> "entering", path |-> p, seq |-> 0]]
           /\ [at |-> "entering", path |-> p, seq |-> 0] \in Requests
  BY RequestShapes DEF Call

LEMMA RegisterMoves ==
    ASSUME TypeOK, NEW c \in Callers, Register(c)
    PROVE  LET p == thread[c].path
               r == [at |-> "waiting", path |-> p, seq |-> next_seq]
           IN  p \in Paths /\ r \in Requests /\ thread' = [thread EXCEPT ![c] = r]
<1>1. thread[c] \in Requests /\ next_seq \in 1..MaxSeq
  BY MaxSeqAssumption DEF TypeOK, Threads, Register, TakesNumber
<1> QED
  BY <1>1, RequestShapes DEF Register, Busy

LEMMA BeginMoves ==
    ASSUME TypeOK, NEW c \in Callers, BeginWrite(c)
    PROVE  LET r == [at |-> "writing", path |-> thread[c].path, seq |-> thread[c].seq]
           IN  r \in Requests /\ thread' = [thread EXCEPT ![c] = r]
<1>1. thread[c] \in Requests /\ thread[c].at \in Busy
  BY DEF TypeOK, Threads, BeginWrite, HasTurn, Busy
<1> QED
  BY <1>1, NextStage, RequestShapes DEF BeginWrite, Busy

LEMMA TakeMoves ==
    ASSUME TypeOK, NEW p \in Paths, WorkerTake(p)
    PROVE  LET r == [at |-> "writing", path |-> p, seq |-> queue[p]]
           IN  queue[p] > 0 /\ r \in Requests /\ thread' = [thread EXCEPT ![Worker] = r]
<1>1. queue[p] \in 1..MaxSeq
  BY MaxSeqAssumption DEF TypeOK, Seqs, WorkerTake
<1> QED
  BY <1>1, RequestShapes DEF WorkerTake, Busy

LEMMA StoreMoves ==
    ASSUME TypeOK, NEW t \in Threads, Store(t) \/ FailToStore(t)
    PROVE  \E stage \in {"written", "unsaved"} :
              LET r == [at |-> stage, path |-> thread[t].path, seq |-> thread[t].seq]
              IN  /\ r \in Requests /\ thread' = [thread EXCEPT ![t] = r]
                  /\ FailToStore(t) => stage = "unsaved"
<1>1. thread[t] \in Requests /\ thread[t].at \in Busy
  BY DEF TypeOK, Threads, Store, FailToStore, Busy
<1>2. PICK stage \in {"written", "unsaved"} :
         /\ thread' = [thread EXCEPT ![t].at = stage]
         /\ FailToStore(t) => stage = "unsaved"
<2>1. CASE FailToStore(t)
  BY <2>1 DEF FailToStore
<2>2. CASE Store(t) /\ ~FailToStore(t)
  BY <2>2 DEF Store
<2> QED
  BY <2>1, <2>2
<1> QED
  BY <1>1, <1>2, NextStage, RequestShapes DEF Busy

LEMMA TypesKept == TypeOK /\ [Next]_vars => TypeOK'
<1> SUFFICES ASSUME TypeOK, [Next]_vars PROVE TypeOK'
  OBVIOUS
<1> USE MaxSeqAssumption
<1>t. Worker \in Threads /\ Callers \subseteq Threads
  BY DEF Threads
<1>1. ASSUME NEW p \in Paths, Submit(p) PROVE TypeOK'
  BY <1>1 DEF Submit, TakesNumber, TypeOK, Seqs
<1>2. ASSUME NEW c \in Callers, NEW p \in Paths, Call(c, p) PROVE TypeOK'
  BY <1>2, <1>t, CallMoves, Moves DEF Call, TypeOK
<1>3. ASSUME NEW c \in Callers, Register(c) PROVE TypeOK'
<2>1. thread' \in [Threads -> Requests]
  BY <1>3, <1>t, RegisterMoves, Moves
<2> DEFINE p == thread[c].path
<2>2. /\ next_seq <= MaxSeq /\ next_seq' = next_seq + 1 /\ UNCHANGED <<stored, refused>>
      /\ latest' = [latest EXCEPT ![p] = next_seq]
      /\ queue' = [queue EXCEPT ![p] = 0]
  BY <1>3 DEF Register, TakesNumber
<2>3. p \in Paths
  BY <1>3, RegisterMoves
<2> HIDE DEF p
<2> QED
  BY <2>1, <2>2, <2>3 DEF TypeOK, Seqs
<1>4. ASSUME NEW c \in Callers, BeginWrite(c) PROVE TypeOK'
  BY <1>4, <1>t, BeginMoves, Moves DEF BeginWrite, TypeOK
<1>5. ASSUME NEW c \in Callers, GiveWay(c) PROVE TypeOK'
  BY <1>5, <1>t, RequestShapes, Moves DEF GiveWay, TypeOK
<1>6. ASSUME NEW p \in Paths, WorkerTake(p) PROVE TypeOK'
<2>1. thread' \in [Threads -> Requests]
  BY <1>6, <1>t, TakeMoves, Moves
<2> QED
  BY <1>6, <2>1 DEF WorkerTake, TypeOK, Seqs
<1>7. ASSUME NEW t \in Threads, Store(t) \/ FailToStore(t) PROVE TypeOK'
<2>1. thread' \in [Threads -> Requests]
  BY <1>7, StoreMoves, Moves
<2>2. thread[t].path \in Paths /\ thread[t].seq \in Seqs
  BY <1>7, RequestShapes DEF Store, FailToStore, TypeOK, Seqs, Busy
<2> QED
  BY <1>7, <2>1, <2>2 DEF Store, FailToStore, TypeOK
<1>8. ASSUME NEW t \in Threads, Finish(t) PROVE TypeOK'
  BY <1>8, RequestShapes, Moves DEF Finish, TypeOK
<1>9. CASE UNCHANGED vars
  BY <1>9 DEF vars, TypeOK
<1> QED
  BY <1>1, <1>2, <1>3, <1>4, <1>5, <1>6, <1>7, <1>8, <1>9, <1>t
     DEF Next, CallerStep, WorkerStep, WriteStep
(* A tap is the newest request of its path.                                   *)
LEMMA SubmitInv ==
    ASSUME Inv, TypeOK', NEW p \in Paths, Submit(p)
    PROVE  Inv'
<1>0. TypeOK
  BY DEF Inv
<1>a. /\ next_seq' = next_seq + 1 /\ UNCHANGED <<stored, refused, thread>>
      /\ latest' = [latest EXCEPT ![p] = next_seq]
      /\ queue' = [queue EXCEPT ![p] = next_seq]
      /\ Waiters' = Waiters /\ Inflight' = Inflight
  BY DEF Submit, TakesNumber, Waiters, Inflight
<1> USE DEF Inv, Ordered, TypeOK, Seqs
<1>1. Known'
  BY <1>a, RequestFacts DEF Known
<1>2. OneWriterPerPath'
  BY <1>a, RequestFacts DEF OneWriterPerPath
<1>3. QueuedIsNewest'
  BY <1>a, RequestFacts DEF QueuedIsNewest, Known
<1>4. WaitingIsNewer'
  BY <1>a, RequestFacts DEF WaitingIsNewer
<1>5. WrittenIsStored'
  BY <1>a, RequestFacts DEF WrittenIsStored
<1>6. LastIsSomewhere'
  BY <1>a, RequestFacts DEF LastIsSomewhere
<1> QED
  BY <1>1, <1>2, <1>3, <1>4, <1>5, <1>6

(* A thread that enters is neither waiting nor writing.                       *)
LEMMA CallInv ==
    ASSUME Inv, TypeOK', NEW c \in Callers, NEW p \in Paths, Call(c, p)
    PROVE  Inv'
<1>0. TypeOK
  BY DEF Inv
<1>a. /\ Waiters' = Waiters /\ Inflight' = Inflight
      /\ \A u \in Waiters \cup Inflight : u \in Threads /\ thread'[u] = thread[u]
<2>1. c \in Threads /\ c \notin Waiters /\ c \notin Inflight
  BY DEF Call, Waiters, Inflight, Idle, Threads
<2> DEFINE r == [at |-> "entering", path |-> p, seq |-> 0]
<2>2. r \in Requests /\ thread' = [thread EXCEPT ![c] = r]
  BY <1>0, CallMoves
<2>3. r.at = "entering"
  OBVIOUS
<2> HIDE DEF r
<2>4. /\ thread'[c] = r /\ \A u \in Threads \ {c} : thread'[u] = thread[u]
      /\ Waiters' = IF r.at = "waiting" THEN Waiters \cup {c} ELSE Waiters \ {c}
      /\ Inflight' = IF r.at \in {"writing", "written", "unsaved"}
                     THEN Inflight \cup {c} ELSE Inflight \ {c}
  BY <1>0, <2>1, <2>2, Moves
<2> QED
  BY <1>0, <2>1, <2>3, <2>4, RequestFacts
<1>b. UNCHANGED <<next_seq, queue, stored, latest, refused>>
  BY DEF Call
<1> USE DEF Inv, Ordered, TypeOK, Seqs
<1>1. Known'
  BY <1>a, <1>b DEF Known
<1>2. OneWriterPerPath'
  BY <1>a, <1>b DEF OneWriterPerPath
<1>3. QueuedIsNewest'
  BY <1>a, <1>b DEF QueuedIsNewest
<1>4. WaitingIsNewer'
  BY <1>a, <1>b DEF WaitingIsNewer
<1>5. WrittenIsStored'
  BY <1>a, <1>b DEF WrittenIsStored
<1>6. LastIsSomewhere'
  BY <1>a, <1>b DEF LastIsSomewhere
<1> QED
  BY <1>1, <1>2, <1>3, <1>4, <1>5, <1>6

(* A caller that registers is the newest request of its path.                 *)
LEMMA RegisterInv ==
    ASSUME Inv, TypeOK', NEW c \in Callers, Register(c)
    PROVE  Inv'
<1>0. TypeOK
  BY DEF Inv
<1> DEFINE p == thread[c].path
<1>a. /\ Waiters' = Waiters \cup {c} /\ Inflight' = Inflight
      /\ c \notin Waiters \cup Inflight
      /\ thread'[c].path = p /\ thread'[c].seq = next_seq /\ thread'[c].at = "waiting"
      /\ p \in Paths
      /\ \A u \in Waiters \cup Inflight : u \in Threads /\ thread'[u] = thread[u]
<2>1. c \in Threads /\ c \notin Waiters /\ c \notin Inflight
  BY DEF Register, Waiters, Inflight, Threads
<2> DEFINE r == [at |-> "waiting", path |-> p, seq |-> next_seq]
<2>2. r \in Requests /\ thread' = [thread EXCEPT ![c] = r]
  BY <1>0, RegisterMoves
<2>3. r.at = "waiting" /\ r.path = p /\ r.seq = next_seq
  OBVIOUS
<2> HIDE DEF r
<2>4. /\ thread'[c] = r /\ \A u \in Threads \ {c} : thread'[u] = thread[u]
      /\ Waiters' = IF r.at = "waiting" THEN Waiters \cup {c} ELSE Waiters \ {c}
      /\ Inflight' = IF r.at \in {"writing", "written", "unsaved"}
                     THEN Inflight \cup {c} ELSE Inflight \ {c}
  BY <1>0, <2>1, <2>2, Moves
<2> QED
  BY <1>0, <2>1, <2>3, <2>4, RequestFacts, RegisterMoves
<1>b. /\ next_seq' = next_seq + 1 /\ UNCHANGED <<stored, refused>>
      /\ latest' = [latest EXCEPT ![p] = next_seq]
      /\ queue' = [queue EXCEPT ![p] = 0]
  BY DEF Register, TakesNumber
<1> HIDE DEF p
<1> USE DEF Inv, Ordered, TypeOK, Seqs
<1>1. Known'
  BY <1>a, <1>b, RequestFacts DEF Known
<1>2. OneWriterPerPath'
  BY <1>a, <1>b, RequestFacts DEF OneWriterPerPath
<1>3. QueuedIsNewest'
  BY <1>a, <1>b, RequestFacts DEF QueuedIsNewest
<1>4. WaitingIsNewer'
  BY <1>a, <1>b, RequestFacts DEF WaitingIsNewer, Known
<1>5. WrittenIsStored'
  BY <1>a, <1>b, RequestFacts DEF WrittenIsStored
<1>6. LastIsSomewhere'
  BY <1>a, <1>b, RequestFacts DEF LastIsSomewhere
<1> QED
  BY <1>1, <1>2, <1>3, <1>4, <1>5, <1>6

(* The oldest waiter of a path that nobody writes: nothing newer is pending.  *)
LEMMA BeginInv ==
    ASSUME Inv, TypeOK', NEW c \in Callers, BeginWrite(c)
    PROVE  Inv'
<1>0. TypeOK
  BY DEF Inv
<1> DEFINE p == thread[c].path
<1>a. /\ Waiters' = Waiters \ {c} /\ Inflight' = Inflight \cup {c}
      /\ c \in Waiters
      /\ thread'[c].path = p /\ thread'[c].seq = thread[c].seq /\ thread'[c].at = "writing"
      /\ \A u \in (Waiters \cup Inflight) \ {c} : u \in Threads /\ thread'[u] = thread[u]
<2>1. c \in Threads /\ c \in Waiters
  BY DEF BeginWrite, HasTurn, Waiters, Threads
<2> DEFINE r == [at |-> "writing", path |-> p, seq |-> thread[c].seq]
<2>2. r \in Requests /\ thread' = [thread EXCEPT ![c] = r]
  BY <1>0, BeginMoves
<2>3. r.at = "writing" /\ r.path = p /\ r.seq = thread[c].seq
  OBVIOUS
<2> HIDE DEF r
<2>4. /\ thread'[c] = r /\ \A u \in Threads \ {c} : thread'[u] = thread[u]
      /\ Waiters' = IF r.at = "waiting" THEN Waiters \cup {c} ELSE Waiters \ {c}
      /\ Inflight' = IF r.at \in {"writing", "written", "unsaved"}
                     THEN Inflight \cup {c} ELSE Inflight \ {c}
  BY <1>0, <2>1, <2>2, Moves
<2> QED
  BY <1>0, <2>1, <2>3, <2>4, RequestFacts
<1>b. /\ UNCHANGED <<next_seq, queue, stored, latest, refused>>
      /\ \A t \in Inflight : thread[t].path # p
      /\ \A t \in Waiters : thread[t].path = p => thread[t].seq = thread[c].seq
      /\ queue[p] <= thread[c].seq
  BY <1>0, <1>a, RequestFacts
     DEF BeginWrite, HasTurn, MayWrite, BeingWritten, older_waiter, newer_request, TypeOK, Seqs
<1>c. p \in Paths /\ thread[c].seq \in 1..MaxSeq /\ c \in Threads
  BY <1>0, <1>a, RequestFacts
<1> DEFINE n == thread[c].seq
<1>d. thread[c].seq = n /\ thread[c].path = p
  OBVIOUS
<1> HIDE DEF p, n
<1> USE DEF Inv, Ordered, TypeOK, Seqs
<1>1. Known'
  BY <1>0, <1>a, <1>b, <1>c, <1>d, RequestFacts DEF Known
<1>2. OneWriterPerPath'
  BY <1>0, <1>a, <1>b, <1>c, <1>d, RequestFacts DEF OneWriterPerPath
<1>3. QueuedIsNewest'
  BY <1>0, <1>a, <1>b, <1>c, <1>d, RequestFacts DEF QueuedIsNewest
<1>4. WaitingIsNewer'
  BY <1>0, <1>a, <1>b, <1>c, <1>d, RequestFacts DEF WaitingIsNewer
<1>5. WrittenIsStored'
  BY <1>0, <1>a, <1>b, <1>c, <1>d, RequestFacts DEF WrittenIsStored, WaitingIsNewer
<1>6. LastIsSomewhere'
  BY <1>0, <1>a, <1>b, <1>c, <1>d, RequestFacts DEF LastIsSomewhere
<1> QED
  BY <1>1, <1>2, <1>3, <1>4, <1>5, <1>6

(* A waiter gives way only to a newer request, which is still there.          *)
LEMMA GiveWayInv ==
    ASSUME Inv, TypeOK', NEW c \in Callers, GiveWay(c)
    PROVE  Inv'
<1>0. TypeOK
  BY DEF Inv
<1>a. /\ Waiters' = Waiters \ {c} /\ Inflight' = Inflight
      /\ c \in Waiters
      /\ \A u \in (Waiters \cup Inflight) \ {c} : u \in Threads /\ thread'[u] = thread[u]
<2>1. c \in Threads /\ c \in Waiters /\ c \notin Inflight
  BY DEF GiveWay, HasTurn, Waiters, Inflight, Threads
<2> DEFINE r == Idle
<2>2. r \in Requests /\ thread' = [thread EXCEPT ![c] = r]
  BY RequestShapes DEF GiveWay
<2>3. r.at = "idle"
  BY DEF Idle
<2> HIDE DEF r
<2>4. /\ thread'[c] = r /\ \A u \in Threads \ {c} : thread'[u] = thread[u]
      /\ Waiters' = IF r.at = "waiting" THEN Waiters \cup {c} ELSE Waiters \ {c}
      /\ Inflight' = IF r.at \in {"writing", "written", "unsaved"}
                     THEN Inflight \cup {c} ELSE Inflight \ {c}
  BY <1>0, <2>1, <2>2, Moves
<2> QED
  BY <1>0, <2>1, <2>3, <2>4, RequestFacts
<1>b. UNCHANGED <<next_seq, queue, stored, latest, refused>>
  BY DEF GiveWay
<1>c. thread[c].seq < latest[thread[c].path]
  BY <1>0, <1>a, RequestFacts DEF GiveWay, newer_request, Known, Inv, TypeOK, Seqs
<1> USE DEF Inv, Ordered, TypeOK, Seqs
<1>1. Known'
  BY <1>a, <1>b, <1>c, RequestFacts DEF Known
<1>2. OneWriterPerPath'
  BY <1>a, <1>b, <1>c, RequestFacts DEF OneWriterPerPath
<1>3. QueuedIsNewest'
  BY <1>a, <1>b, <1>c, RequestFacts DEF QueuedIsNewest
<1>4. WaitingIsNewer'
  BY <1>a, <1>b, <1>c, RequestFacts DEF WaitingIsNewer
<1>5. WrittenIsStored'
  BY <1>a, <1>b, <1>c, RequestFacts DEF WrittenIsStored
<1>6. LastIsSomewhere'
  BY <1>a, <1>b, <1>c, RequestFacts DEF LastIsSomewhere
<1> QED
  BY <1>1, <1>2, <1>3, <1>4, <1>5, <1>6

(* The worker takes a request no waiter is older than, and so none waits.     *)
LEMMA TakeInv ==
    ASSUME Inv, TypeOK', NEW p \in Paths, WorkerTake(p)
    PROVE  Inv'
<1>0. TypeOK
  BY DEF Inv
<1>a. /\ Waiters' = Waiters /\ Inflight' = Inflight \cup {Worker}
      /\ Worker \notin Waiters \cup Inflight
      /\ thread'[Worker].path = p /\ thread'[Worker].seq = queue[p]
      /\ thread'[Worker].at = "writing"
      /\ \A u \in Waiters \cup Inflight : u \in Threads /\ thread'[u] = thread[u]
<2>1. Worker \in Threads /\ Worker \notin Waiters \cup Inflight
  BY DEF WorkerTake, Waiters, Inflight, Threads, Idle
<2> DEFINE r == [at |-> "writing", path |-> p, seq |-> queue[p]]
<2>2. r \in Requests /\ thread' = [thread EXCEPT ![Worker] = r]
  BY <1>0, TakeMoves
<2>3. r.at = "writing" /\ r.path = p /\ r.seq = queue[p]
  OBVIOUS
<2> HIDE DEF r
<2>4. /\ thread'[Worker] = r /\ \A u \in Threads \ {Worker} : thread'[u] = thread[u]
      /\ Waiters' = IF r.at = "waiting" THEN Waiters \cup {Worker} ELSE Waiters \ {Worker}
      /\ Inflight' = IF r.at \in {"writing", "written", "unsaved"}
                     THEN Inflight \cup {Worker} ELSE Inflight \ {Worker}
  BY <1>0, <2>1, <2>2, Moves
<2> QED
  BY <1>0, <2>1, <2>3, <2>4, RequestFacts
<1>b. /\ UNCHANGED <<next_seq, stored, latest, refused>>
      /\ queue' = [queue EXCEPT ![p] = 0]
      /\ queue[p] > 0
      /\ \A t \in Inflight : thread[t].path # p
      /\ \A t \in Waiters : thread[t].path # p
  BY <1>0, <1>a, TakeMoves, RequestFacts
     DEF WorkerTake, BeingWritten, older_waiter, QueuedIsNewest, Inv, Ordered
<1> USE DEF Inv, Ordered, TypeOK, Seqs
<1>1. Known'
  BY <1>a, <1>b, RequestFacts DEF Known
<1>2. OneWriterPerPath'
  BY <1>a, <1>b, RequestFacts DEF OneWriterPerPath
<1>3. QueuedIsNewest'
  BY <1>a, <1>b, RequestFacts DEF QueuedIsNewest
<1>4. WaitingIsNewer'
  BY <1>a, <1>b, RequestFacts DEF WaitingIsNewer
<1>5. WrittenIsStored'
  BY <1>a, <1>b, RequestFacts DEF WrittenIsStored, QueuedIsNewest
<1>6. LastIsSomewhere'
  BY <1>a, <1>b, RequestFacts DEF LastIsSomewhere
<1> QED
  BY <1>1, <1>2, <1>3, <1>4, <1>5, <1>6

(* What is stored is older than all that waits or is queued.                  *)
LEMMA StoreInv ==
    ASSUME Inv, TypeOK', NEW t \in Threads, Store(t) \/ FailToStore(t)
    PROVE  Inv'
<1>0. TypeOK
  BY DEF Inv
<1> DEFINE p == thread[t].path
           n == thread[t].seq
<1>a. /\ Waiters' = Waiters /\ Inflight' = Inflight /\ t \in Inflight
      /\ thread'[t].path = p /\ thread'[t].seq = n
      /\ thread'[t].at = "unsaved" \/ (thread'[t].at = "written" /\ Store(t))
      /\ \A u \in (Waiters \cup Inflight) \ {t} : u \in Threads /\ thread'[u] = thread[u]
<2>1. t \in Inflight /\ t \notin Waiters
  BY DEF Store, FailToStore, Inflight, Waiters
<2>2. PICK stage \in {"written", "unsaved"} :
         LET r == [at |-> stage, path |-> p, seq |-> n]
         IN  /\ r \in Requests /\ thread' = [thread EXCEPT ![t] = r]
             /\ FailToStore(t) => stage = "unsaved"
  BY <1>0, StoreMoves
<2> DEFINE r == [at |-> stage, path |-> p, seq |-> n]
<2>3. r.at = stage /\ r.path = p /\ r.seq = n
  OBVIOUS
<2>5. r \in Requests /\ thread' = [thread EXCEPT ![t] = r]
  BY <2>2
<2> HIDE DEF r
<2>4. /\ thread'[t] = r /\ \A u \in Threads \ {t} : thread'[u] = thread[u]
      /\ Waiters' = IF r.at = "waiting" THEN Waiters \cup {t} ELSE Waiters \ {t}
      /\ Inflight' = IF r.at \in {"writing", "written", "unsaved"}
                     THEN Inflight \cup {t} ELSE Inflight \ {t}
  BY <1>0, <2>1, <2>5, Moves DEF Inflight
<2>6. stage = "unsaved" \/ (stage = "written" /\ Store(t))
  BY <2>2
<2> QED
  BY <1>0, <2>1, <2>3, <2>4, <2>6, RequestFacts
<1>b. /\ UNCHANGED <<next_seq, queue, latest>>
      /\ \/ Store(t) /\ stored' = [stored EXCEPT ![p] = n] /\ UNCHANGED refused
         \/ ~Store(t) /\ refused' = [refused EXCEPT ![p] = n] /\ UNCHANGED stored
  BY DEF Store, FailToStore
<1>c. \A u \in Inflight \ {t} : thread[u].path # p
  BY <1>a DEF OneWriterPerPath, Inv, Ordered
<1> HIDE DEF p, n
<1>d. p \in Paths /\ n \in 1..MaxSeq
  BY <1>0, <1>a, RequestFacts DEF p, n
<1>e. \A u \in Waiters \cup Inflight : thread'[u].path = thread[u].path /\ thread'[u].seq = thread[u].seq
  BY <1>a DEF p, n
<1> USE DEF Inv, Ordered, TypeOK, Seqs
<1>1. Known'
  BY <1>a, <1>b, <1>c, <1>d, <1>e, RequestFacts DEF Known, p, n
<1>2. OneWriterPerPath'
  BY <1>a, <1>b, <1>c, <1>d, <1>e, RequestFacts DEF OneWriterPerPath
<1>3. QueuedIsNewest'
  BY <1>a, <1>b, <1>c, <1>d, <1>e, RequestFacts DEF QueuedIsNewest, p, n
<1>4. WaitingIsNewer'
  BY <1>a, <1>b, <1>c, <1>d, <1>e, RequestFacts DEF WaitingIsNewer, p, n
<1>5. WrittenIsStored'
  BY <1>a, <1>b, <1>c, <1>d, <1>e, RequestFacts DEF WrittenIsStored, p, n
<1>6. LastIsSomewhere'
  BY <1>a, <1>b, <1>c, <1>d, <1>e, RequestFacts DEF LastIsSomewhere, WrittenIsStored, Known, p, n
<1> QED
  BY <1>1, <1>2, <1>3, <1>4, <1>5, <1>6

(* What was written is stored, or refused.                                    *)
LEMMA FinishInv ==
    ASSUME Inv, TypeOK', NEW t \in Threads, Finish(t)
    PROVE  Inv'
<1>0. TypeOK
  BY DEF Inv
<1>a. /\ Waiters' = Waiters /\ Inflight' = Inflight \ {t} /\ t \in Inflight
      /\ \A u \in (Waiters \cup Inflight) \ {t} : u \in Threads /\ thread'[u] = thread[u]
<2>1. t \in Inflight /\ t \notin Waiters
  BY DEF Finish, Inflight, Waiters
<2> DEFINE r == Idle
<2>2. r \in Requests /\ thread' = [thread EXCEPT ![t] = r]
  BY RequestShapes DEF Finish
<2>3. r.at = "idle"
  BY DEF Idle
<2> HIDE DEF r
<2>4. /\ thread'[t] = r /\ \A u \in Threads \ {t} : thread'[u] = thread[u]
      /\ Waiters' = IF r.at = "waiting" THEN Waiters \cup {t} ELSE Waiters \ {t}
      /\ Inflight' = IF r.at \in {"writing", "written", "unsaved"}
                     THEN Inflight \cup {t} ELSE Inflight \ {t}
  BY <1>0, <2>1, <2>2, Moves
<2> QED
  BY <1>0, <2>1, <2>3, <2>4, RequestFacts
<1>b. UNCHANGED <<next_seq, queue, stored, latest, refused>>
  BY DEF Finish
<1>c. LET r == thread[t] IN r.seq \in {stored[r.path], refused[r.path]}
  BY <1>a DEF WrittenIsStored, Finish, Inv, Ordered
<1>d. t \notin Waiters
  BY DEF Finish, Waiters
<1> USE DEF Inv, Ordered, TypeOK, Seqs
<1>1. Known'
  BY <1>a, <1>b, <1>c, <1>d, RequestFacts DEF Known
<1>2. OneWriterPerPath'
  BY <1>a, <1>b, <1>c, <1>d, RequestFacts DEF OneWriterPerPath
<1>3. QueuedIsNewest'
  BY <1>a, <1>b, <1>c, <1>d, RequestFacts DEF QueuedIsNewest
<1>4. WaitingIsNewer'
  BY <1>a, <1>b, <1>c, <1>d, RequestFacts DEF WaitingIsNewer
<1>5. WrittenIsStored'
  BY <1>a, <1>b, <1>c, <1>d, RequestFacts DEF WrittenIsStored
<1>6. LastIsSomewhere'
  BY <1>a, <1>b, <1>c, <1>d, RequestFacts DEF LastIsSomewhere
<1> QED
  BY <1>1, <1>2, <1>3, <1>4, <1>5, <1>6
LEMMA NextInv == Inv /\ [Next]_vars => Inv'
<1> SUFFICES ASSUME Inv, [Next]_vars PROVE Inv'
  OBVIOUS
<1>1. TypeOK'
  BY TypesKept DEF Inv
<1>2. CASE UNCHANGED vars
  BY <1>2 DEF vars, Inv, TypeOK, Known, Ordered, OneWriterPerPath, QueuedIsNewest,
     WaitingIsNewer, WrittenIsStored, LastIsSomewhere, Waiters, Inflight
<1>3. ASSUME NEW t \in Threads, WriteStep(t) PROVE Inv'
  BY <1>1, <1>3, StoreInv, FinishInv DEF WriteStep
<1>4. ASSUME NEW c \in Callers, CallerStep(c) PROVE Inv'
  BY <1>1, <1>3, <1>4, RegisterInv, BeginInv, GiveWayInv DEF CallerStep, Threads
<1>5. ASSUME WorkerStep PROVE Inv'
  BY <1>1, <1>3, <1>5, TakeInv DEF WorkerStep, Threads
<1> QED
  BY <1>1, <1>2, <1>4, <1>5, SubmitInv, CallInv DEF Next

THEOREM Invariance == Spec => []Inv
  BY InitInv, NextInv, PTL DEF Spec

(* Every number and every stage is one the writer knows; a thread is at a    *)
(* request of a path exactly while it is not idle.                           *)
THEOREM TypeCorrectness == Spec => []TypeOK
<1>1. Inv => TypeOK
  BY DEF Inv
<1> QED
  BY <1>1, Invariance, PTL

(* Two threads never write the flag of one path at the same time.            *)
THEOREM WritesExclude == Spec => []OneWriterPerPath
<1>1. Inv => OneWriterPerPath
  BY DEF Inv, Ordered
<1> QED
  BY <1>1, Invariance, PTL

(* favorite_writer_is_set() answers with the last request.                   *)
LEMMA ShownFromInv == Inv => LastRequestIsShown
<1> SUFFICES ASSUME Inv, NEW p \in Paths,
                    refused[p] # latest[p],
                    \A t \in Waiters : thread[t].path # p
             PROVE  Effective(p) = latest[p]
  BY DEF LastRequestIsShown
<1>1. TypeOK
  BY DEF Inv
<1>2. CASE queue[p] > 0
  BY <1>1, <1>2, RequestFacts
     DEF Effective, Inv, Ordered, TypeOK, Seqs, Known, QueuedIsNewest, LastIsSomewhere
<1>3. CASE ~(queue[p] > 0) /\ BeingWritten(p)
<2>1. PICK t \in Inflight : thread[t].path = p
  BY <1>3 DEF BeingWritten
<2>2. t = CHOOSE u \in Inflight : thread[u].path = p
  BY <2>1 DEF Inv, Ordered, OneWriterPerPath
<2>3. thread[t].seq = latest[p]
  BY <1>1, <1>3, <2>1, RequestFacts
     DEF Inv, Ordered, OneWriterPerPath, WrittenIsStored, Known, LastIsSomewhere, TypeOK, Seqs
<2> QED
  BY <1>3, <2>2, <2>3 DEF Effective
<1>4. CASE ~(queue[p] > 0) /\ ~BeingWritten(p)
  BY <1>1, <1>4
     DEF Effective, Inv, BeingWritten, Known, LastIsSomewhere, TypeOK, Seqs
<1> QED
  BY <1>2, <1>3, <1>4

THEOREM LastRequestShown == Spec => []LastRequestIsShown
  BY ShownFromInv, Invariance, PTL

(* No step stores a request over a later one.                                *)
THEOREM StoreGoesForward == Spec => LaterRequestWins
<1>1. Inv /\ [Next]_vars => [\A p \in Paths : stored'[p] >= stored[p]]_vars
<2> SUFFICES ASSUME Inv, Next, NEW p \in Paths PROVE stored'[p] >= stored[p]
  OBVIOUS
<2>1. TypeOK
  BY DEF Inv
<2>2. CASE stored' = stored
  BY <2>1, <2>2 DEF TypeOK, Seqs
<2>3. ASSUME NEW t \in Threads, Store(t) PROVE stored'[p] >= stored[p]
<3>1. t \in Inflight
  BY <2>3 DEF Store, Inflight
<3>2. stored[thread[t].path] <= thread[t].seq
  BY <3>1 DEF Inv, Ordered, WrittenIsStored
<3> QED
  BY <2>1, <2>3, <3>1, <3>2, RequestFacts DEF Store, TypeOK, Seqs
<2> QED
  BY <2>2, <2>3 DEF Next, Submit, TakesNumber, Call, CallerStep, WorkerStep, WriteStep,
     Register, BeginWrite, GiveWay, WorkerTake, FailToStore, Finish, Threads
<1> QED
  BY <1>1, Invariance, PTL DEF Spec, LaterRequestWins

(* A caller that is told its flag is saved was not fooled.                   *)
THEOREM AnswersAreTrue == Spec => SavedUnlessSuperseded
<1> DEFINE Told(c) ==
       LET r == thread[c]
       IN  (thread'[c] = Idle /\ r.at \in {"waiting", "written"}) =>
              \/ stored[r.path] = r.seq
              \/ queue[r.path] > r.seq
              \/ \E t \in Threads : thread[t].path = r.path /\ thread[t].seq > r.seq
<1>1. Inv /\ [Next]_vars => [\A c \in Callers : Told(c)]_vars
<2> SUFFICES ASSUME Inv, Next, NEW c \in Callers,
                    thread'[c] = Idle, thread[c].at \in {"waiting", "written"}
             PROVE  \/ stored[thread[c].path] = thread[c].seq
                    \/ queue[thread[c].path] > thread[c].seq
                    \/ \E t \in Threads : /\ thread[t].path = thread[c].path
                                          /\ thread[t].seq > thread[c].seq
  OBVIOUS
<2>1. CASE thread[c].at = "written"
  BY <2>1 DEF Inv, Ordered, WrittenIsStored, Inflight, Threads
<2>2. CASE thread[c].at = "waiting"
<3>1. GiveWay(c)
  BY <2>2 DEF Next, Submit, Call, CallerStep, WorkerStep, WriteStep, Register, BeginWrite,
     GiveWay, WorkerTake, Store, FailToStore, Finish, Threads, Inv, TypeOK, Idle
<3> QED
  BY <3>1 DEF GiveWay, newer_request, Waiters
<2> QED
  BY <2>1, <2>2
<1> QED
  BY <1>1, Invariance, PTL DEF Spec, SavedUnlessSuperseded

(* waiters[] and inflight[] grow by one thread at most, and only below the   *)
(* limit.                                                                    *)
LEMMA ArraysGrow ==
    ASSUME TypeOK, [Next]_vars
    PROVE  /\ \/ Waiters' \subseteq Waiters
              \/ /\ Cardinality(Waiters) < InflightMax
                 /\ \E t \in Threads : Waiters' \subseteq Waiters \cup {t}
           /\ \/ Inflight' \subseteq Inflight
              \/ /\ Cardinality(Inflight) < InflightMax
                 /\ \E t \in Threads : Inflight' \subseteq Inflight \cup {t}
<1> DEFINE Grown == /\ \/ Waiters' \subseteq Waiters
                       \/ /\ Cardinality(Waiters) < InflightMax
                          /\ \E t \in Threads : Waiters' \subseteq Waiters \cup {t}
                    /\ \/ Inflight' \subseteq Inflight
                       \/ /\ Cardinality(Inflight) < InflightMax
                          /\ \E t \in Threads : Inflight' \subseteq Inflight \cup {t}
<1>1. CASE UNCHANGED thread
  BY <1>1 DEF Waiters, Inflight
<1>2. ASSUME NEW c \in Callers, NEW p \in Paths, Call(c, p) PROVE Grown
<2>1. c \in Threads /\ \A u \in Threads \ {c} : thread'[u] = thread[u]
  BY <1>2, CallMoves, Moves DEF Threads
<2>2. thread'[c].at = "entering"
  BY <1>2, <2>1 DEF Call, TypeOK
<2> QED
  BY <2>1, <2>2 DEF Waiters, Inflight
<1>3. ASSUME NEW c \in Callers, Register(c) PROVE Grown
<2>1. /\ c \in Threads /\ \A u \in Threads \ {c} : thread'[u] = thread[u]
      /\ thread'[c].at = "waiting" /\ Cardinality(Waiters) < InflightMax
  BY <1>3 DEF Register, TypeOK, Threads
<2> QED
  BY <2>1 DEF Waiters, Inflight
<1>4. ASSUME NEW c \in Callers, BeginWrite(c) PROVE Grown
<2>1. /\ c \in Threads /\ \A u \in Threads \ {c} : thread'[u] = thread[u]
      /\ thread' = [thread EXCEPT ![c] = [at |-> "writing", path |-> thread[c].path, seq |-> thread[c].seq]]
      /\ Cardinality(Inflight) < InflightMax
  BY <1>4, BeginMoves DEF BeginWrite, HasTurn, MayWrite, TypeOK, Threads
<2>2. thread'[c].at = "writing"
  BY <2>1 DEF TypeOK
<2> QED
  BY <2>1, <2>2 DEF Waiters, Inflight
<1>5. ASSUME NEW t \in Threads, thread' = [thread EXCEPT ![t] = Idle] PROVE Grown
  BY <1>5 DEF Waiters, Inflight, Idle, TypeOK
<1>6. ASSUME NEW p \in Paths, WorkerTake(p) PROVE Grown
<2>1. /\ Worker \in Threads /\ \A u \in Threads \ {Worker} : thread'[u] = thread[u]
      /\ thread'[Worker].at = "writing" /\ Cardinality(Inflight) < InflightMax
  BY <1>6 DEF WorkerTake, TypeOK, Threads
<2> QED
  BY <2>1 DEF Waiters, Inflight
<1>7. ASSUME NEW t \in Threads, Store(t) \/ FailToStore(t) PROVE Grown
<2>1. PICK stage \in {"written", "unsaved"} :
         thread' = [thread EXCEPT ![t] = [at |-> stage, path |-> thread[t].path, seq |-> thread[t].seq]]
  BY <1>7, StoreMoves
<2>2. /\ \A u \in Threads \ {t} : thread'[u] = thread[u]
      /\ thread'[t].at = stage /\ t \in Inflight
  BY <1>7, <2>1 DEF Store, FailToStore, Inflight, TypeOK
<2> QED
  BY <2>2 DEF Waiters, Inflight
<1> QED
  BY <1>1, <1>2, <1>3, <1>4, <1>5, <1>6, <1>7
     DEF Next, Submit, CallerStep, WorkerStep, WriteStep, GiveWay, Finish, Threads, vars

LEMMA LimitKept ==
    ASSUME NEW S, NEW T, IsFiniteSet(S), Cardinality(S) <= InflightMax,
           \/ T \subseteq S
           \/ Cardinality(S) < InflightMax /\ \E x \in Threads : T \subseteq S \cup {x}
    PROVE  Cardinality(T) <= InflightMax
<1> USE InflightMaxAssumption
<1>1. CASE T \subseteq S
  BY <1>1, FS_Subset, FS_CardinalityType
<1>2. ASSUME Cardinality(S) < InflightMax, NEW x \in Threads, T \subseteq S \cup {x}
      PROVE  Cardinality(T) <= InflightMax
<2>1. IsFiniteSet(S \cup {x}) /\ Cardinality(S \cup {x}) <= Cardinality(S) + 1
  BY FS_AddElement, FS_CardinalityType
<2>2. Cardinality(T) <= Cardinality(S \cup {x}) /\ Cardinality(T) \in Nat
  BY <1>2, <2>1, FS_Subset, FS_CardinalityType
<2> QED
  BY <1>2, <2>1, <2>2, FS_CardinalityType
<1> QED
  BY <1>1, <1>2

(* The writer never writes behind the end of waiters[] or inflight[].        *)
THEOREM ArraysNeverOverflow == Spec => []ArraysFit
<1>1. IsFiniteSet(Waiters) /\ IsFiniteSet(Inflight)
<2>1. IsFiniteSet(Threads)
  BY CallersAssumption, FS_AddElement DEF Threads
<2> QED
  BY <2>1, FS_Subset DEF Waiters, Inflight
<1>2. Init => ArraysFit
<2> SUFFICES ASSUME Init PROVE ArraysFit
  OBVIOUS
<2>1. Waiters = {} /\ Inflight = {}
  BY DEF Init, Waiters, Inflight, Idle
<2> QED
  BY <2>1, FS_EmptySet, InflightMaxAssumption DEF ArraysFit
<1>3. TypeOK /\ ArraysFit /\ [Next]_vars => ArraysFit'
  BY <1>1, ArraysGrow, LimitKept DEF ArraysFit
<1> QED
  BY <1>2, <1>3, TypeCorrectness, PTL DEF Spec

=============================================================================

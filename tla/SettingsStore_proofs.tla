------------------------- MODULE SettingsStore_proofs -------------------------
(******************************************************************************)
(* The settings store for any number of changes, restarts and losses of       *)
(* power: the flush, the latch and the replacement of the file.               *)
(******************************************************************************)
EXTENDS SettingsStore, TLAPS

(* Where each thread can be; who writes holds settings_write_mutex, and the   *)
(* worker has a snapshot exactly while one is in flight.                      *)
Writing == {"write", "rename", "syncdir"}
Ending == {"flush", "drain", "barrier", "flushed", "reboot", "stuck"}
UiPlaces == {"idle", "save", "save_async"} \cup Writing \cup Ending
WebPlaces == {"idle", "save", "save_async"} \cup Writing
UpdaterPlaces == {"idle"} \cup Ending
WorkerPlaces == {"idle", "consumed", "written"} \cup Writing
Threading ==
    /\ thread["ui"].at \in UiPlaces /\ thread["web"].at \in WebPlaces
    /\ thread["updater"].at \in UpdaterPlaces /\ thread["worker"].at \in WorkerPlaces
    /\ \A t \in Threads : thread[t].at \in Writing <=> writer = t
    /\ thread["worker"].at = "idle" <=> ~in_flight

(* One thread at a time ends the player.                                      *)
OneEnder ==
    /\ thread["updater"].at # "idle" => busy
    /\ busy => thread["ui"].at \notin Ending

(* The flush: from its beginning the store is closed, from its barrier on     *)
(* nothing waits to be written, after it nothing is being written.            *)
Closed ==
    /\ shutdown_started => \E t \in Enders : Flushing(t) \/ PastFlush(t)
    /\ \A t \in Enders :
         /\ Flushing(t) \/ PastFlush(t) => shutdown_started
         /\ At(t, "barrier") \/ PastFlush(t) => ~pending /\ ~in_flight
         /\ PastFlush(t) => writer = NoWriter

(* A snapshot is the newest one while no save came after it: then it is as    *)
(* new as all that was asked for, is on the disk or is being written.         *)
Older ==
    /\ asked <= live /\ kept <= live /\ queued.change <= live
    /\ \A t \in Threads : thread[t].change <= live
    /\ \A t \in Savers : thread[t].at \in Writing => thread[t].change <= asked
Newest(change) ==
    /\ change >= asked /\ change >= kept
    /\ writer # NoWriter => change >= thread[writer].change
Snapshots ==
    /\ thread["worker"].generation <= generation
    /\ pending => /\ queued.generation <= generation
                  /\ queued.generation = generation => Newest(queued.change)
    /\ pending /\ in_flight => thread["worker"].generation < queued.generation
    /\ At("worker", "consumed") /\ thread["worker"].generation = generation
         => Newest(thread["worker"].change)

(* What was asked for last is queued, with the worker, being written, or was  *)
(* written or refused by the card.                                            *)
Accounted ==
    \/ pending /\ queued.generation = generation
    \/ At("worker", "consumed") /\ thread["worker"].generation = generation
    \/ writer # NoWriter /\ thread[writer].change >= asked
    \/ writer = NoWriter /\ asked <= Max(file.change, lost)

(* The file replaced, the one that replaces it, and what a power loss leaves. *)
Replacing ==
    /\ file \in survivors
    /\ At("worker", "write") => thread["worker"].change >= kept
    /\ \A t \in Threads :
         /\ At(t, "rename") => tmp.synced /\ tmp.change >= thread[t].change /\ tmp.change >= kept
         /\ At(t, "syncdir") => file.change >= thread[t].change
Disk == Replacing /\ PowerLossKeepsSettings

Inv == TypeOK /\ Threading /\ OneEnder /\ Closed /\ Older /\ Snapshots /\ Accounted /\ Disk

(******************************************************************************)
(* Types.                                                                     *)
(******************************************************************************)
Stages == [at : Places, change : Changes, generation : Nat, to : Goals \cup {"none"}]
Threaded == thread \in [Threads -> Stages]
Saving == /\ live \in Changes /\ generation \in Nat
          /\ queued \in [change : Changes, generation : Nat]
          /\ pending \in BOOLEAN /\ in_flight \in BOOLEAN /\ shutdown_started \in BOOLEAN
          /\ busy \in BOOLEAN /\ worker_ready \in BOOLEAN
Waiting == writer \in Threads \cup {NoWriter} /\ asleep \subseteq Threads
OnDisk == tmp \in Files /\ file \in Files /\ survivors \subseteq Files
Remembered == /\ asked \in Changes /\ lost \in Changes /\ kept \in Changes
              /\ starts \in 0..MaxStarts

LEMMA Types == TypeOK <=> Threaded /\ Saving /\ Waiting /\ OnDisk /\ Remembered
  BY DEF TypeOK, Threaded, Stages, Saving, Waiting, OnDisk, Remembered

(* Numbers, files and records stay in their sets.                             *)
LEMMA NumbersClosed ==
  /\ 0 \in Changes /\ Idle \in Stages
  /\ NoSnapshot \in [change : Changes, generation : Nat]
  /\ \A x, y \in Changes : Max(x, y) \in Changes
  /\ \A c \in Changes, b \in BOOLEAN : File(c, b) \in Files
  /\ NoFile \in Files
  BY MaxChangeAssumption DEF Changes, Idle, Stages, Places, NoSnapshot, Max, File, Files, NoFile

LEMMA IdleClosed ==
  /\ \A p \in Places, c \in Changes : [Idle EXCEPT !.at = p, !.change = c] \in Stages
  /\ \A p \in Places, c \in Changes, g \in Nat :
       [Idle EXCEPT !.at = p, !.change = c, !.generation = g] \in Stages
  /\ \A p \in Places, g \in Goals : [Idle EXCEPT !.at = p, !.to = g] \in Stages
<1>1. Idle \in Stages
  BY NumbersClosed
<1> QED
  BY <1>1 DEF Stages

(* What the actions do to one thread leaves a thread.                         *)
LEMMA StagesClosed ==
  ASSUME TypeOK, NEW t \in Threads
  PROVE  /\ \A p \in Places : Goto(t, p) => Threaded'
         /\ Leave(t) => Threaded'
         /\ \A s \in Stages : thread' = [thread EXCEPT ![t] = s] => Threaded'
         /\ \A p \in Places, c \in Changes :
              thread' = [thread EXCEPT ![t].at = p, ![t].change = c] => Threaded'
         /\ thread' = [s \in Threads |-> Idle] => Threaded'
<1>1. thread \in [Threads -> Stages]
  BY Types DEF Threaded
<1>2. \A s \in Stages : thread' = [thread EXCEPT ![t] = s] => Threaded'
  BY <1>1 DEF Threaded
<1>3. \A p \in Places : [thread[t] EXCEPT !.at = p] \in Stages
  BY <1>1 DEF Stages
<1>4. \A p \in Places, c \in Changes :
        [[thread[t] EXCEPT !.at = p] EXCEPT !.change = c] \in Stages
  BY <1>1 DEF Stages
<1> QED
  BY <1>1, <1>2, <1>3, <1>4, NumbersClosed DEF Threaded, Goto, Leave

(* Every action leaves the threads in their places' type ...                  *)
LEMMA ThreadedStep ==
  ASSUME Inv, Next
  PROVE  Threaded'
<1> USE Types DEF Inv, Threads, Savers, Enders, Places, memory
<1>1. ASSUME NEW t \in Savers, NEW how \in {"save", "save_async"}, Change(t, how)
      PROVE  Threaded'
  <2>1. live + 1 \in Changes
    BY <1>1, MaxChangeAssumption DEF Change, Saving, Changes
  <2> QED
    BY <1>1, <2>1, StagesClosed, IdleClosed DEF Change
<1>2. ASSUME NEW t \in Savers, Save(t)
      PROVE  Threaded'
  <2>1. thread[t].change \in Changes /\ asked \in Changes
    BY Types DEF Threaded, Stages, Remembered
  <2> QED
    BY <1>2, <2>1, StagesClosed, NumbersClosed DEF Save, Accept, StartWrite
<1>3. ASSUME NEW t \in Savers, SaveAsync(t)
      PROVE  Threaded'
  BY <1>3, StagesClosed DEF SaveAsync, Accept
<1>4. ASSUME NEW t \in Savers \cup {"worker"}, WriteTemp(t)
      PROVE  Threaded'
  BY <1>4, StagesClosed DEF WriteTemp, WriterUnchanged, EndWrite, FailWrite, File, NoFile, Written
<1>5. ASSUME NEW t \in Savers \cup {"worker"}, Rename(t)
      PROVE  Threaded'
  BY <1>5, StagesClosed DEF Rename, WriterUnchanged, EndWrite, FailWrite, File, NoFile
<1>6. ASSUME NEW t \in Savers \cup {"worker"}, SyncDir(t)
      PROVE  Threaded'
  BY <1>6, StagesClosed DEF SyncDir, WriterUnchanged, EndWrite, FailWrite
<1>7. CASE WorkerWait
  BY <1>7 DEF WorkerWait, Threaded
<1>8. CASE WorkerConsume
  BY <1>8, StagesClosed, IdleClosed, Types DEF WorkerConsume, Saving
<1>9. CASE WorkerCompare
  BY <1>9, StagesClosed DEF WorkerCompare
<1>10. CASE WorkerDone
  BY <1>10, StagesClosed DEF WorkerDone
<1>11. ASSUME NEW goal \in Goals, BeginEnd(goal)
      PROVE  Threaded'
  BY <1>11, StagesClosed, IdleClosed, NumbersClosed DEF BeginEnd
<1>12. CASE BeginUpdate
  BY <1>12, StagesClosed, IdleClosed, NumbersClosed DEF BeginUpdate, Goals
<1>13. CASE UpdateFails
  BY <1>13, StagesClosed DEF UpdateFails, EndUnchanged
<1>14. ASSUME NEW t \in Enders, Flush(t)
      PROVE  Threaded'
  BY <1>14, StagesClosed DEF Flush, EndUnchanged
<1>15. ASSUME NEW t \in Enders, Drain(t)
      PROVE  Threaded'
  BY <1>15, StagesClosed DEF Drain, Threaded
<1>16. ASSUME NEW t \in Enders, Barrier(t)
      PROVE  Threaded'
  BY <1>16, StagesClosed DEF Barrier, EndUnchanged
<1>17. ASSUME NEW t \in Enders, RequestSelector(t)
      PROVE  Threaded'
  BY <1>17, StagesClosed DEF RequestSelector, EndUnchanged, Cancel
<1>18. ASSUME NEW t \in Enders, Erase(t)
      PROVE  Threaded'
  BY <1>18, StagesClosed DEF Erase, EndUnchanged, File, NoFile
<1>19. ASSUME NEW t \in Enders, RebootFails(t)
      PROVE  Threaded'
  BY <1>19, StagesClosed DEF RebootFails, EndUnchanged, Cancel
<1>20. ASSUME NEW t \in Enders, EndsInOrder(t)
      PROVE  Threaded'
  BY <1>20, StagesClosed DEF EndsInOrder, NextStart, NoSnapshot
<1>21. ASSUME NEW t \in Enders, Exits(t)
      PROVE  Threaded'
  BY <1>21, StagesClosed DEF Exits, NextStart, NoSnapshot
<1>22. CASE PowerLoss
  BY <1>22, StagesClosed DEF PowerLoss, NextStart, NoSnapshot, NoFile, File
<1> QED
  BY <1>1, <1>2, <1>3, <1>4, <1>5, <1>6, <1>7, <1>8, <1>9, <1>10, <1>11, <1>12, <1>13, <1>14, <1>15, <1>16, <1>17, <1>18, <1>19, <1>20, <1>21, <1>22 DEF Next, SaverStep, WriteStep, WorkerStep, EnderStep, FlushStep

(* ... and everything else in its own.                                        *)
LEMMA ScalarStep ==
  ASSUME Inv, Next
  PROVE  Saving' /\ Waiting' /\ OnDisk' /\ Remembered'
<1> USE Types DEF Inv, Threaded, Stages, Saving, Waiting, OnDisk, Remembered, Threads, Savers, Enders, NoWriter, At, memory, disk, history
<1>1. ASSUME NEW t \in Savers, NEW how \in {"save", "save_async"}, Change(t, how)
      PROVE  Saving' /\ Waiting' /\ OnDisk' /\ Remembered'
  <2>1. live + 1 \in Changes
    BY <1>1, MaxChangeAssumption DEF Change, Changes
  <2> QED
    BY <1>1, <2>1 DEF Change
<1>2. ASSUME NEW t \in Savers, Save(t)
      PROVE  Saving' /\ Waiting' /\ OnDisk' /\ Remembered'
  BY <1>2, NumbersClosed DEF Save, Accept, StartWrite
<1>3. ASSUME NEW t \in Savers, SaveAsync(t)
      PROVE  Saving' /\ Waiting' /\ OnDisk' /\ Remembered'
  <2>1. thread[t].change \in Changes /\ generation + 1 \in Nat
    OBVIOUS
  <2>2. Max(asked, thread[t].change) \in Changes
    BY <2>1, NumbersClosed
  <2>3. [change |-> live, generation |-> generation + 1] \in [change : Changes, generation : Nat]
    BY <2>1
  <2> QED
    BY <1>3, <2>1, <2>2, <2>3 DEF SaveAsync, Accept
<1>4. ASSUME NEW t \in Savers \cup {"worker"}, WriteTemp(t)
      PROVE  Saving' /\ Waiting' /\ OnDisk' /\ Remembered'
  <2>1. thread[t].change \in Changes /\ Written(t) \in Changes
    BY DEF Written
  <2>2. Max(lost, thread[t].change) \in Changes /\ File(Written(t), TRUE) \in Files
    BY <2>1, NumbersClosed
  <2> QED
    BY <1>4, <2>1, <2>2, NumbersClosed DEF WriteTemp, WriterUnchanged, EndWrite, FailWrite
<1>5. ASSUME NEW t \in Savers \cup {"worker"}, Rename(t)
      PROVE  Saving' /\ Waiting' /\ OnDisk' /\ Remembered'
  BY <1>5, NumbersClosed DEF Rename, WriterUnchanged, EndWrite, FailWrite
<1>6. ASSUME NEW t \in Savers \cup {"worker"}, SyncDir(t)
      PROVE  Saving' /\ Waiting' /\ OnDisk' /\ Remembered'
  BY <1>6, NumbersClosed DEF SyncDir, WriterUnchanged, EndWrite, FailWrite
<1>7. CASE WorkerWait
  BY <1>7, NumbersClosed DEF WorkerWait
<1>8. CASE WorkerConsume
  BY <1>8, NumbersClosed DEF WorkerConsume
<1>9. CASE WorkerCompare
  BY <1>9, NumbersClosed DEF WorkerCompare
<1>10. CASE WorkerDone
  BY <1>10, NumbersClosed DEF WorkerDone
<1>11. ASSUME NEW goal \in Goals, BeginEnd(goal)
      PROVE  Saving' /\ Waiting' /\ OnDisk' /\ Remembered'
  BY <1>11, NumbersClosed DEF BeginEnd, EndUnchanged
<1>12. CASE BeginUpdate
  BY <1>12, NumbersClosed DEF BeginUpdate, EndUnchanged
<1>13. CASE UpdateFails
  BY <1>13, NumbersClosed DEF UpdateFails, EndUnchanged
<1>14. ASSUME NEW t \in Enders, Flush(t)
      PROVE  Saving' /\ Waiting' /\ OnDisk' /\ Remembered'
  BY <1>14, NumbersClosed DEF Flush, EndUnchanged
<1>15. ASSUME NEW t \in Enders, Drain(t)
      PROVE  Saving' /\ Waiting' /\ OnDisk' /\ Remembered'
  BY <1>15, NumbersClosed DEF Drain, EndUnchanged
<1>16. ASSUME NEW t \in Enders, Barrier(t)
      PROVE  Saving' /\ Waiting' /\ OnDisk' /\ Remembered'
  BY <1>16, NumbersClosed DEF Barrier, EndUnchanged
<1>17. ASSUME NEW t \in Enders, RequestSelector(t)
      PROVE  Saving' /\ Waiting' /\ OnDisk' /\ Remembered'
  BY <1>17, NumbersClosed DEF RequestSelector, EndUnchanged, Cancel
<1>18. ASSUME NEW t \in Enders, Erase(t)
      PROVE  Saving' /\ Waiting' /\ OnDisk' /\ Remembered'
  BY <1>18, NumbersClosed DEF Erase, EndUnchanged
<1>19. ASSUME NEW t \in Enders, RebootFails(t)
      PROVE  Saving' /\ Waiting' /\ OnDisk' /\ Remembered'
  BY <1>19, NumbersClosed DEF RebootFails, EndUnchanged, Cancel
<1>20. ASSUME NEW t \in Enders, EndsInOrder(t)
      PROVE  Saving' /\ Waiting' /\ OnDisk' /\ Remembered'
  <2>1. \A f \in Files : f.change \in Changes
    BY DEF Files
  <2>2. starts < MaxStarts => starts + 1 \in 0..MaxStarts
    BY MaxStartsAssumption
  <2> QED
    BY <1>20, <2>1, <2>2, NumbersClosed DEF EndsInOrder, NextStart
<1>21. ASSUME NEW t \in Enders, Exits(t)
      PROVE  Saving' /\ Waiting' /\ OnDisk' /\ Remembered'
  <2>1. \A f \in Files : f.change \in Changes
    BY DEF Files
  <2>2. starts < MaxStarts => starts + 1 \in 0..MaxStarts
    BY MaxStartsAssumption
  <2> QED
    BY <1>21, <2>1, <2>2, NumbersClosed DEF Exits, NextStart
<1>22. CASE PowerLoss
  <2>1. PICK f \in survivors : NextStart(f) /\ survivors' = {f}
    BY <1>22 DEF PowerLoss
  <2>2. f \in Files /\ f.change \in Changes
    BY DEF Files
  <2>3. starts < MaxStarts => starts + 1 \in 0..MaxStarts
    BY MaxStartsAssumption
  <2> QED
    BY <1>22, <2>1, <2>2, <2>3, NumbersClosed DEF PowerLoss, NextStart
<1> QED
  BY <1>1, <1>2, <1>3, <1>4, <1>5, <1>6, <1>7, <1>8, <1>9, <1>10, <1>11, <1>12, <1>13, <1>14, <1>15, <1>16, <1>17, <1>18, <1>19, <1>20, <1>21, <1>22 DEF Next, SaverStep, WriteStep, WorkerStep, EnderStep, FlushStep

LEMMA TypeOKStep ==
  ASSUME Inv, Next
  PROVE  TypeOK'
<1>1. TypeOK' <=> Threaded' /\ Saving' /\ Waiting' /\ OnDisk' /\ Remembered'
  BY DEF TypeOK, Threaded, Stages, Saving, Waiting, OnDisk, Remembered
<1> QED
  BY <1>1, ThreadedStep, ScalarStep

(******************************************************************************)
(* The parts of the invariant, each kept by every action.                     *)
(******************************************************************************)
(* Where the threads are, and who holds settings_write_mutex.                 *)
LEMMA ThreadingStep ==
  ASSUME Inv, Next
  PROVE  Threading'
<1> USE MaxChangeAssumption, MaxStartsAssumption DEF Inv, Disk, TypeOK, Threading, UiPlaces, WebPlaces, UpdaterPlaces, WorkerPlaces, Writing, Ending, NoWriter, Savers, Enders, Threads, At, Goto, Leave, Idle, memory, disk, history
<1>1. ASSUME NEW t \in Savers, NEW how \in {"save", "save_async"}, Change(t, how)
      PROVE  Threading'
  BY <1>1 DEF Change
<1>2. ASSUME NEW t \in Savers, Save(t)
      PROVE  Threading'
  BY <1>2 DEF Save, Accept, StartWrite, Max
<1>3. ASSUME NEW t \in Savers, SaveAsync(t)
      PROVE  Threading'
  BY <1>3 DEF SaveAsync, Accept, Max
<1>4. ASSUME NEW t \in Savers \cup {"worker"}, WriteTemp(t)
      PROVE  Threading'
  BY <1>4 DEF WriteTemp, WriterUnchanged, EndWrite, FailWrite, File, NoFile, Written, Max
<1>5. ASSUME NEW t \in Savers \cup {"worker"}, Rename(t)
      PROVE  Threading'
  BY <1>5 DEF Rename, WriterUnchanged, EndWrite, FailWrite, File, NoFile, Max
<1>6. ASSUME NEW t \in Savers \cup {"worker"}, SyncDir(t)
      PROVE  Threading'
  BY <1>6 DEF SyncDir, WriterUnchanged, EndWrite, FailWrite, Max
<1>7. CASE WorkerWait
  BY <1>7 DEF WorkerWait
<1>8. CASE WorkerConsume
  BY <1>8 DEF WorkerConsume, NoSnapshot
<1>9. CASE WorkerCompare
  BY <1>9 DEF WorkerCompare
<1>10. CASE WorkerDone
  BY <1>10 DEF WorkerDone
<1>11. ASSUME NEW goal \in Goals, BeginEnd(goal)
      PROVE  Threading'
  BY <1>11 DEF BeginEnd, EndUnchanged
<1>12. CASE BeginUpdate
  BY <1>12 DEF BeginUpdate, EndUnchanged
<1>13. CASE UpdateFails
  BY <1>13 DEF UpdateFails, EndUnchanged
<1>14. ASSUME NEW t \in Enders, Flush(t)
      PROVE  Threading'
  BY <1>14 DEF Flush, EndUnchanged
<1>15. ASSUME NEW t \in Enders, Drain(t)
      PROVE  Threading'
  BY <1>15 DEF Drain, EndUnchanged
<1>16. ASSUME NEW t \in Enders, Barrier(t)
      PROVE  Threading'
  BY <1>16 DEF Barrier, EndUnchanged
<1>17. ASSUME NEW t \in Enders, RequestSelector(t)
      PROVE  Threading'
  BY <1>17 DEF RequestSelector, EndUnchanged, Cancel
<1>18. ASSUME NEW t \in Enders, Erase(t)
      PROVE  Threading'
  BY <1>18 DEF Erase, EndUnchanged, File, NoFile
<1>19. ASSUME NEW t \in Enders, RebootFails(t)
      PROVE  Threading'
  BY <1>19 DEF RebootFails, EndUnchanged, Cancel
<1>20. ASSUME NEW t \in Enders, EndsInOrder(t)
      PROVE  Threading'
  BY <1>20 DEF EndsInOrder, NextStart, NoSnapshot
<1>21. ASSUME NEW t \in Enders, Exits(t)
      PROVE  Threading'
  BY <1>21 DEF Exits, NextStart, NoSnapshot
<1>22. CASE PowerLoss
  BY <1>22 DEF PowerLoss, NextStart, NoSnapshot, NoFile, File
<1> QED
  BY <1>1, <1>2, <1>3, <1>4, <1>5, <1>6, <1>7, <1>8, <1>9, <1>10, <1>11, <1>12, <1>13, <1>14, <1>15, <1>16, <1>17, <1>18, <1>19, <1>20, <1>21, <1>22 DEF Next, SaverStep, WriteStep, WorkerStep, EnderStep, FlushStep

(* One thread at a time ends the player: the updater is busy while it does.   *)
LEMMA OneEnderStep ==
  ASSUME Inv, Next
  PROVE  OneEnder'
<1> USE MaxChangeAssumption, MaxStartsAssumption DEF Inv, Disk, TypeOK, Threading, UiPlaces, WebPlaces, UpdaterPlaces, WorkerPlaces, Ending, Writing, OneEnder, Savers, Enders, Threads, At, Goto, Leave, Idle, memory, disk, history
<1>1. ASSUME NEW t \in Savers, NEW how \in {"save", "save_async"}, Change(t, how)
      PROVE  OneEnder'
  BY <1>1 DEF Change
<1>2. ASSUME NEW t \in Savers, Save(t)
      PROVE  OneEnder'
  BY <1>2 DEF Save, Accept, StartWrite, Max
<1>3. ASSUME NEW t \in Savers, SaveAsync(t)
      PROVE  OneEnder'
  BY <1>3 DEF SaveAsync, Accept, Max
<1>4. ASSUME NEW t \in Savers \cup {"worker"}, WriteTemp(t)
      PROVE  OneEnder'
  BY <1>4 DEF WriteTemp, WriterUnchanged, EndWrite, FailWrite, File, NoFile, Written, Max
<1>5. ASSUME NEW t \in Savers \cup {"worker"}, Rename(t)
      PROVE  OneEnder'
  BY <1>5 DEF Rename, WriterUnchanged, EndWrite, FailWrite, File, NoFile, Max
<1>6. ASSUME NEW t \in Savers \cup {"worker"}, SyncDir(t)
      PROVE  OneEnder'
  BY <1>6 DEF SyncDir, WriterUnchanged, EndWrite, FailWrite, Max
<1>7. CASE WorkerWait
  BY <1>7 DEF WorkerWait
<1>8. CASE WorkerConsume
  BY <1>8 DEF WorkerConsume, NoSnapshot
<1>9. CASE WorkerCompare
  BY <1>9 DEF WorkerCompare
<1>10. CASE WorkerDone
  BY <1>10 DEF WorkerDone
<1>11. ASSUME NEW goal \in Goals, BeginEnd(goal)
      PROVE  OneEnder'
  BY <1>11 DEF BeginEnd, EndUnchanged
<1>12. CASE BeginUpdate
  BY <1>12 DEF BeginUpdate, EndUnchanged
<1>13. CASE UpdateFails
  BY <1>13 DEF UpdateFails, EndUnchanged
<1>14. ASSUME NEW t \in Enders, Flush(t)
      PROVE  OneEnder'
  BY <1>14 DEF Flush, EndUnchanged
<1>15. ASSUME NEW t \in Enders, Drain(t)
      PROVE  OneEnder'
  BY <1>15 DEF Drain, EndUnchanged
<1>16. ASSUME NEW t \in Enders, Barrier(t)
      PROVE  OneEnder'
  BY <1>16 DEF Barrier, EndUnchanged
<1>17. ASSUME NEW t \in Enders, RequestSelector(t)
      PROVE  OneEnder'
  BY <1>17 DEF RequestSelector, EndUnchanged, Cancel
<1>18. ASSUME NEW t \in Enders, Erase(t)
      PROVE  OneEnder'
  BY <1>18 DEF Erase, EndUnchanged, File, NoFile
<1>19. ASSUME NEW t \in Enders, RebootFails(t)
      PROVE  OneEnder'
  BY <1>19 DEF RebootFails, EndUnchanged, Cancel
<1>20. ASSUME NEW t \in Enders, EndsInOrder(t)
      PROVE  OneEnder'
  BY <1>20 DEF EndsInOrder, NextStart, NoSnapshot
<1>21. ASSUME NEW t \in Enders, Exits(t)
      PROVE  OneEnder'
  BY <1>21 DEF Exits, NextStart, NoSnapshot
<1>22. CASE PowerLoss
  BY <1>22 DEF PowerLoss, NextStart, NoSnapshot, NoFile, File
<1> QED
  BY <1>1, <1>2, <1>3, <1>4, <1>5, <1>6, <1>7, <1>8, <1>9, <1>10, <1>11, <1>12, <1>13, <1>14, <1>15, <1>16, <1>17, <1>18, <1>19, <1>20, <1>21, <1>22 DEF Next, SaverStep, WriteStep, WorkerStep, EnderStep, FlushStep

(* The store opens again only when nobody ends the player any more, and a     *)
(* flush passes its barrier with nothing left to write.                       *)
LEMMA ClosedStep ==
  ASSUME Inv, Next
  PROVE  Closed'
<1> USE MaxChangeAssumption, MaxStartsAssumption DEF Inv, Disk, TypeOK, Threading, UiPlaces, WebPlaces, UpdaterPlaces, WorkerPlaces, Writing, Ending, NoWriter, OneEnder, Closed, Flushing, PastFlush, Savers, Enders, Threads, At, Goto, Leave, Idle, memory, disk, history
<1>1. ASSUME NEW t \in Savers, NEW how \in {"save", "save_async"}, Change(t, how)
      PROVE  Closed'
  BY <1>1 DEF Change
<1>2. ASSUME NEW t \in Savers, Save(t)
      PROVE  Closed'
  BY <1>2 DEF Save, Accept, StartWrite, Max
<1>3. ASSUME NEW t \in Savers, SaveAsync(t)
      PROVE  Closed'
  BY <1>3 DEF SaveAsync, Accept, Max
<1>4. ASSUME NEW t \in Savers \cup {"worker"}, WriteTemp(t)
      PROVE  Closed'
  BY <1>4 DEF WriteTemp, WriterUnchanged, EndWrite, FailWrite, File, NoFile, Written, Max
<1>5. ASSUME NEW t \in Savers \cup {"worker"}, Rename(t)
      PROVE  Closed'
  BY <1>5 DEF Rename, WriterUnchanged, EndWrite, FailWrite, File, NoFile, Max
<1>6. ASSUME NEW t \in Savers \cup {"worker"}, SyncDir(t)
      PROVE  Closed'
  BY <1>6 DEF SyncDir, WriterUnchanged, EndWrite, FailWrite, Max
<1>7. CASE WorkerWait
  BY <1>7 DEF WorkerWait
<1>8. CASE WorkerConsume
  BY <1>8 DEF WorkerConsume, NoSnapshot
<1>9. CASE WorkerCompare
  BY <1>9 DEF WorkerCompare
<1>10. CASE WorkerDone
  BY <1>10 DEF WorkerDone
<1>11. ASSUME NEW goal \in Goals, BeginEnd(goal)
      PROVE  Closed'
  BY <1>11 DEF BeginEnd, EndUnchanged
<1>12. CASE BeginUpdate
  BY <1>12 DEF BeginUpdate, EndUnchanged
<1>13. CASE UpdateFails
  BY <1>13 DEF UpdateFails, EndUnchanged
<1>14. ASSUME NEW t \in Enders, Flush(t)
      PROVE  Closed'
  BY <1>14 DEF Flush, EndUnchanged
<1>15. ASSUME NEW t \in Enders, Drain(t)
      PROVE  Closed'
  BY <1>15 DEF Drain, EndUnchanged
<1>16. ASSUME NEW t \in Enders, Barrier(t)
      PROVE  Closed'
  BY <1>16 DEF Barrier, EndUnchanged
<1>17. ASSUME NEW t \in Enders, RequestSelector(t)
      PROVE  Closed'
  BY <1>17 DEF RequestSelector, EndUnchanged, Cancel
<1>18. ASSUME NEW t \in Enders, Erase(t)
      PROVE  Closed'
  BY <1>18 DEF Erase, EndUnchanged, File, NoFile
<1>19. ASSUME NEW t \in Enders, RebootFails(t)
      PROVE  Closed'
  BY <1>19 DEF RebootFails, EndUnchanged, Cancel
<1>20. ASSUME NEW t \in Enders, EndsInOrder(t)
      PROVE  Closed'
  BY <1>20 DEF EndsInOrder, NextStart, NoSnapshot
<1>21. ASSUME NEW t \in Enders, Exits(t)
      PROVE  Closed'
  BY <1>21 DEF Exits, NextStart, NoSnapshot
<1>22. CASE PowerLoss
  BY <1>22 DEF PowerLoss, NextStart, NoSnapshot, NoFile, File
<1> QED
  BY <1>1, <1>2, <1>3, <1>4, <1>5, <1>6, <1>7, <1>8, <1>9, <1>10, <1>11, <1>12, <1>13, <1>14, <1>15, <1>16, <1>17, <1>18, <1>19, <1>20, <1>21, <1>22 DEF Next, SaverStep, WriteStep, WorkerStep, EnderStep, FlushStep

(* No number runs ahead of the live settings; a save counts what it writes.   *)
LEMMA OlderStep ==
  ASSUME Inv, Next
  PROVE  Older'
<1> USE MaxChangeAssumption, MaxStartsAssumption DEF Inv, Disk, TypeOK, Changes, Files, Threading, UiPlaces, WebPlaces, UpdaterPlaces, WorkerPlaces, Writing, Ending, NoWriter, Older, Closed, PastFlush, Replacing, PowerLossKeepsSettings, Savers, Enders, Threads, At, Goto, Leave, Idle, memory, disk, history
<1>1. ASSUME NEW t \in Savers, NEW how \in {"save", "save_async"}, Change(t, how)
      PROVE  Older'
  BY <1>1 DEF Change
<1>2. ASSUME NEW t \in Savers, Save(t)
      PROVE  Older'
  BY <1>2 DEF Save, Accept, StartWrite, Max
<1>3. ASSUME NEW t \in Savers, SaveAsync(t)
      PROVE  Older'
  BY <1>3 DEF SaveAsync, Accept, Max
<1>4. ASSUME NEW t \in Savers \cup {"worker"}, WriteTemp(t)
      PROVE  Older'
  BY <1>4 DEF WriteTemp, WriterUnchanged, EndWrite, FailWrite, File, NoFile, Written, Max
<1>5. ASSUME NEW t \in Savers \cup {"worker"}, Rename(t)
      PROVE  Older'
  BY <1>5 DEF Rename, WriterUnchanged, EndWrite, FailWrite, File, NoFile, Max
<1>6. ASSUME NEW t \in Savers \cup {"worker"}, SyncDir(t)
      PROVE  Older'
  BY <1>6 DEF SyncDir, WriterUnchanged, EndWrite, FailWrite, Max
<1>7. CASE WorkerWait
  BY <1>7 DEF WorkerWait
<1>8. CASE WorkerConsume
  BY <1>8 DEF WorkerConsume, NoSnapshot
<1>9. CASE WorkerCompare
  BY <1>9 DEF WorkerCompare
<1>10. CASE WorkerDone
  BY <1>10 DEF WorkerDone
<1>11. ASSUME NEW goal \in Goals, BeginEnd(goal)
      PROVE  Older'
  BY <1>11 DEF BeginEnd, EndUnchanged
<1>12. CASE BeginUpdate
  BY <1>12 DEF BeginUpdate, EndUnchanged
<1>13. CASE UpdateFails
  BY <1>13 DEF UpdateFails, EndUnchanged
<1>14. ASSUME NEW t \in Enders, Flush(t)
      PROVE  Older'
  BY <1>14 DEF Flush, EndUnchanged
<1>15. ASSUME NEW t \in Enders, Drain(t)
      PROVE  Older'
  BY <1>15 DEF Drain, EndUnchanged
<1>16. ASSUME NEW t \in Enders, Barrier(t)
      PROVE  Older'
  BY <1>16 DEF Barrier, EndUnchanged
<1>17. ASSUME NEW t \in Enders, RequestSelector(t)
      PROVE  Older'
  BY <1>17 DEF RequestSelector, EndUnchanged, Cancel
<1>18. ASSUME NEW t \in Enders, Erase(t)
      PROVE  Older'
  BY <1>18 DEF Erase, EndUnchanged, File, NoFile
<1>19. ASSUME NEW t \in Enders, RebootFails(t)
      PROVE  Older'
  BY <1>19 DEF RebootFails, EndUnchanged, Cancel
<1>20. ASSUME NEW t \in Enders, EndsInOrder(t)
      PROVE  Older'
  BY <1>20 DEF EndsInOrder, NextStart, NoSnapshot
<1>21. ASSUME NEW t \in Enders, Exits(t)
      PROVE  Older'
  BY <1>21 DEF Exits, NextStart, NoSnapshot
<1>22. CASE PowerLoss
  BY <1>22 DEF PowerLoss, NextStart, NoSnapshot, NoFile, File
<1> QED
  BY <1>1, <1>2, <1>3, <1>4, <1>5, <1>6, <1>7, <1>8, <1>9, <1>10, <1>11, <1>12, <1>13, <1>14, <1>15, <1>16, <1>17, <1>18, <1>19, <1>20, <1>21, <1>22 DEF Next, SaverStep, WriteStep, WorkerStep, EnderStep, FlushStep

(* A snapshot that no save overtook is as new as everything else.             *)
LEMMA SnapshotsStep ==
  ASSUME Inv, Next
  PROVE  Snapshots'
<1> USE MaxChangeAssumption, MaxStartsAssumption DEF Inv, Disk, TypeOK, Changes, Threading, UiPlaces, WebPlaces, UpdaterPlaces, WorkerPlaces, Writing, Ending, NoWriter, Older, Snapshots, Newest, Savers, Enders, Threads, At, Goto, Leave, Idle, memory, disk, history
<1>1. ASSUME NEW t \in Savers, NEW how \in {"save", "save_async"}, Change(t, how)
      PROVE  Snapshots'
  BY <1>1 DEF Change
<1>2. ASSUME NEW t \in Savers, Save(t)
      PROVE  Snapshots'
  BY <1>2 DEF Save, Accept, StartWrite, Max
<1>3. ASSUME NEW t \in Savers, SaveAsync(t)
      PROVE  Snapshots'
  BY <1>3 DEF SaveAsync, Accept, Max
<1>4. ASSUME NEW t \in Savers \cup {"worker"}, WriteTemp(t)
      PROVE  Snapshots'
  BY <1>4 DEF WriteTemp, WriterUnchanged, EndWrite, FailWrite, File, NoFile, Written, Max
<1>5. ASSUME NEW t \in Savers \cup {"worker"}, Rename(t)
      PROVE  Snapshots'
  BY <1>5 DEF Rename, WriterUnchanged, EndWrite, FailWrite, File, NoFile, Max
<1>6. ASSUME NEW t \in Savers \cup {"worker"}, SyncDir(t)
      PROVE  Snapshots'
  BY <1>6 DEF SyncDir, WriterUnchanged, EndWrite, FailWrite, Max
<1>7. CASE WorkerWait
  BY <1>7 DEF WorkerWait
<1>8. CASE WorkerConsume
  BY <1>8 DEF WorkerConsume, NoSnapshot
<1>9. CASE WorkerCompare
  BY <1>9 DEF WorkerCompare
<1>10. CASE WorkerDone
  BY <1>10 DEF WorkerDone
<1>11. ASSUME NEW goal \in Goals, BeginEnd(goal)
      PROVE  Snapshots'
  BY <1>11 DEF BeginEnd, EndUnchanged
<1>12. CASE BeginUpdate
  BY <1>12 DEF BeginUpdate, EndUnchanged
<1>13. CASE UpdateFails
  BY <1>13 DEF UpdateFails, EndUnchanged
<1>14. ASSUME NEW t \in Enders, Flush(t)
      PROVE  Snapshots'
  BY <1>14 DEF Flush, EndUnchanged
<1>15. ASSUME NEW t \in Enders, Drain(t)
      PROVE  Snapshots'
  BY <1>15 DEF Drain, EndUnchanged
<1>16. ASSUME NEW t \in Enders, Barrier(t)
      PROVE  Snapshots'
  BY <1>16 DEF Barrier, EndUnchanged
<1>17. ASSUME NEW t \in Enders, RequestSelector(t)
      PROVE  Snapshots'
  BY <1>17 DEF RequestSelector, EndUnchanged, Cancel
<1>18. ASSUME NEW t \in Enders, Erase(t)
      PROVE  Snapshots'
  BY <1>18 DEF Erase, EndUnchanged, File, NoFile
<1>19. ASSUME NEW t \in Enders, RebootFails(t)
      PROVE  Snapshots'
  BY <1>19 DEF RebootFails, EndUnchanged, Cancel
<1>20. ASSUME NEW t \in Enders, EndsInOrder(t)
      PROVE  Snapshots'
  BY <1>20 DEF EndsInOrder, NextStart, NoSnapshot
<1>21. ASSUME NEW t \in Enders, Exits(t)
      PROVE  Snapshots'
  BY <1>21 DEF Exits, NextStart, NoSnapshot
<1>22. CASE PowerLoss
  BY <1>22 DEF PowerLoss, NextStart, NoSnapshot, NoFile, File
<1> QED
  BY <1>1, <1>2, <1>3, <1>4, <1>5, <1>6, <1>7, <1>8, <1>9, <1>10, <1>11, <1>12, <1>13, <1>14, <1>15, <1>16, <1>17, <1>18, <1>19, <1>20, <1>21, <1>22 DEF Next, SaverStep, WriteStep, WorkerStep, EnderStep, FlushStep

(* What was asked for last passes from the queue to the worker, to the writer *)
(* and to the file, and is never dropped on the way.                          *)
LEMMA AccountedStep ==
  ASSUME Inv, Next
  PROVE  Accounted'
<1> USE MaxChangeAssumption, MaxStartsAssumption DEF Inv, Disk, TypeOK, Changes, Files, Threading, UiPlaces, WebPlaces, UpdaterPlaces, WorkerPlaces, Writing, Ending, NoWriter, Older, Snapshots, Newest, Accounted, Max, Replacing, Savers, Enders, Threads, At, Goto, Leave, Idle, memory, disk, history
<1>1. ASSUME NEW t \in Savers, NEW how \in {"save", "save_async"}, Change(t, how)
      PROVE  Accounted'
  BY <1>1 DEF Change
<1>2. ASSUME NEW t \in Savers, Save(t)
      PROVE  Accounted'
  BY <1>2 DEF Save, Accept, StartWrite
<1>3. ASSUME NEW t \in Savers, SaveAsync(t)
      PROVE  Accounted'
  BY <1>3 DEF SaveAsync, Accept
<1>4. ASSUME NEW t \in Savers \cup {"worker"}, WriteTemp(t)
      PROVE  Accounted'
  BY <1>4 DEF WriteTemp, WriterUnchanged, EndWrite, FailWrite, File, NoFile, Written
<1>5. ASSUME NEW t \in Savers \cup {"worker"}, Rename(t)
      PROVE  Accounted'
  BY <1>5 DEF Rename, WriterUnchanged, EndWrite, FailWrite, File, NoFile
<1>6. ASSUME NEW t \in Savers \cup {"worker"}, SyncDir(t)
      PROVE  Accounted'
  BY <1>6 DEF SyncDir, WriterUnchanged, EndWrite, FailWrite
<1>7. CASE WorkerWait
  BY <1>7 DEF WorkerWait
<1>8. CASE WorkerConsume
  BY <1>8 DEF WorkerConsume, NoSnapshot
<1>9. CASE WorkerCompare
  BY <1>9 DEF WorkerCompare
<1>10. CASE WorkerDone
  BY <1>10 DEF WorkerDone
<1>11. ASSUME NEW goal \in Goals, BeginEnd(goal)
      PROVE  Accounted'
  BY <1>11 DEF BeginEnd, EndUnchanged
<1>12. CASE BeginUpdate
  BY <1>12 DEF BeginUpdate, EndUnchanged
<1>13. CASE UpdateFails
  BY <1>13 DEF UpdateFails, EndUnchanged
<1>14. ASSUME NEW t \in Enders, Flush(t)
      PROVE  Accounted'
  BY <1>14 DEF Flush, EndUnchanged
<1>15. ASSUME NEW t \in Enders, Drain(t)
      PROVE  Accounted'
  BY <1>15 DEF Drain, EndUnchanged
<1>16. ASSUME NEW t \in Enders, Barrier(t)
      PROVE  Accounted'
  BY <1>16 DEF Barrier, EndUnchanged
<1>17. ASSUME NEW t \in Enders, RequestSelector(t)
      PROVE  Accounted'
  BY <1>17 DEF RequestSelector, EndUnchanged, Cancel
<1>18. ASSUME NEW t \in Enders, Erase(t)
      PROVE  Accounted'
  BY <1>18 DEF Erase, EndUnchanged, File, NoFile
<1>19. ASSUME NEW t \in Enders, RebootFails(t)
      PROVE  Accounted'
  BY <1>19 DEF RebootFails, EndUnchanged, Cancel
<1>20. ASSUME NEW t \in Enders, EndsInOrder(t)
      PROVE  Accounted'
  BY <1>20 DEF EndsInOrder, NextStart, NoSnapshot
<1>21. ASSUME NEW t \in Enders, Exits(t)
      PROVE  Accounted'
  BY <1>21 DEF Exits, NextStart, NoSnapshot
<1>22. CASE PowerLoss
  BY <1>22 DEF PowerLoss, NextStart, NoSnapshot, NoFile, File
<1> QED
  BY <1>1, <1>2, <1>3, <1>4, <1>5, <1>6, <1>7, <1>8, <1>9, <1>10, <1>11, <1>12, <1>13, <1>14, <1>15, <1>16, <1>17, <1>18, <1>19, <1>20, <1>21, <1>22 DEF Next, SaverStep, WriteStep, WorkerStep, EnderStep, FlushStep

(* What is renamed over the file was synced and is newer than what it         *)
(* replaces.                                                                  *)
LEMMA ReplacingStep ==
  ASSUME Inv, Next
  PROVE  Replacing'
<1> USE MaxChangeAssumption, MaxStartsAssumption DEF Inv, Disk, TypeOK, Changes, Files, Threading, UiPlaces, WebPlaces, UpdaterPlaces, WorkerPlaces, Writing, Ending, NoWriter, Older, Snapshots, Newest, Replacing, Closed, PastFlush, Savers, Enders, Threads, At, Goto, Leave, Idle, memory, disk, history
<1>1. ASSUME NEW t \in Savers, NEW how \in {"save", "save_async"}, Change(t, how)
      PROVE  Replacing'
  BY <1>1 DEF Change
<1>2. ASSUME NEW t \in Savers, Save(t)
      PROVE  Replacing'
  BY <1>2 DEF Save, Accept, StartWrite, Max
<1>3. ASSUME NEW t \in Savers, SaveAsync(t)
      PROVE  Replacing'
  BY <1>3 DEF SaveAsync, Accept, Max
<1>4. ASSUME NEW t \in Savers \cup {"worker"}, WriteTemp(t)
      PROVE  Replacing'
  BY <1>4 DEF WriteTemp, WriterUnchanged, EndWrite, FailWrite, File, NoFile, Written, Max
<1>5. ASSUME NEW t \in Savers \cup {"worker"}, Rename(t)
      PROVE  Replacing'
  BY <1>5 DEF Rename, WriterUnchanged, EndWrite, FailWrite, File, NoFile, Max
<1>6. ASSUME NEW t \in Savers \cup {"worker"}, SyncDir(t)
      PROVE  Replacing'
  BY <1>6 DEF SyncDir, WriterUnchanged, EndWrite, FailWrite, Max
<1>7. CASE WorkerWait
  BY <1>7 DEF WorkerWait
<1>8. CASE WorkerConsume
  BY <1>8 DEF WorkerConsume, NoSnapshot
<1>9. CASE WorkerCompare
  BY <1>9 DEF WorkerCompare
<1>10. CASE WorkerDone
  BY <1>10 DEF WorkerDone
<1>11. ASSUME NEW goal \in Goals, BeginEnd(goal)
      PROVE  Replacing'
  BY <1>11 DEF BeginEnd, EndUnchanged
<1>12. CASE BeginUpdate
  BY <1>12 DEF BeginUpdate, EndUnchanged
<1>13. CASE UpdateFails
  BY <1>13 DEF UpdateFails, EndUnchanged
<1>14. ASSUME NEW t \in Enders, Flush(t)
      PROVE  Replacing'
  BY <1>14 DEF Flush, EndUnchanged
<1>15. ASSUME NEW t \in Enders, Drain(t)
      PROVE  Replacing'
  BY <1>15 DEF Drain, EndUnchanged
<1>16. ASSUME NEW t \in Enders, Barrier(t)
      PROVE  Replacing'
  BY <1>16 DEF Barrier, EndUnchanged
<1>17. ASSUME NEW t \in Enders, RequestSelector(t)
      PROVE  Replacing'
  BY <1>17 DEF RequestSelector, EndUnchanged, Cancel
<1>18. ASSUME NEW t \in Enders, Erase(t)
      PROVE  Replacing'
  BY <1>18 DEF Erase, EndUnchanged, File, NoFile
<1>19. ASSUME NEW t \in Enders, RebootFails(t)
      PROVE  Replacing'
  BY <1>19 DEF RebootFails, EndUnchanged, Cancel
<1>20. ASSUME NEW t \in Enders, EndsInOrder(t)
      PROVE  Replacing'
  BY <1>20 DEF EndsInOrder, NextStart, NoSnapshot
<1>21. ASSUME NEW t \in Enders, Exits(t)
      PROVE  Replacing'
  BY <1>21 DEF Exits, NextStart, NoSnapshot
<1>22. CASE PowerLoss
  BY <1>22 DEF PowerLoss, NextStart, NoSnapshot, NoFile, File
<1> QED
  BY <1>1, <1>2, <1>3, <1>4, <1>5, <1>6, <1>7, <1>8, <1>9, <1>10, <1>11, <1>12, <1>13, <1>14, <1>15, <1>16, <1>17, <1>18, <1>19, <1>20, <1>21, <1>22 DEF Next, SaverStep, WriteStep, WorkerStep, EnderStep, FlushStep

(* Every file a power loss may leave is whole and new enough.                 *)
LEMMA PowerLossKeepsSettingsStep ==
  ASSUME Inv, Next
  PROVE  PowerLossKeepsSettings'
<1> USE MaxChangeAssumption, MaxStartsAssumption DEF Inv, Disk, TypeOK, Changes, Files, Threading, UiPlaces, WebPlaces, UpdaterPlaces, WorkerPlaces, Writing, Ending, NoWriter, Older, Replacing, PowerLossKeepsSettings, Savers, Enders, Threads, At, Goto, Leave, Idle, memory, disk, history
<1>1. ASSUME NEW t \in Savers, NEW how \in {"save", "save_async"}, Change(t, how)
      PROVE  PowerLossKeepsSettings'
  BY <1>1 DEF Change
<1>2. ASSUME NEW t \in Savers, Save(t)
      PROVE  PowerLossKeepsSettings'
  BY <1>2 DEF Save, Accept, StartWrite, Max
<1>3. ASSUME NEW t \in Savers, SaveAsync(t)
      PROVE  PowerLossKeepsSettings'
  BY <1>3 DEF SaveAsync, Accept, Max
<1>4. ASSUME NEW t \in Savers \cup {"worker"}, WriteTemp(t)
      PROVE  PowerLossKeepsSettings'
  BY <1>4 DEF WriteTemp, WriterUnchanged, EndWrite, FailWrite, File, NoFile, Written, Max
<1>5. ASSUME NEW t \in Savers \cup {"worker"}, Rename(t)
      PROVE  PowerLossKeepsSettings'
  BY <1>5 DEF Rename, WriterUnchanged, EndWrite, FailWrite, File, NoFile, Max
<1>6. ASSUME NEW t \in Savers \cup {"worker"}, SyncDir(t)
      PROVE  PowerLossKeepsSettings'
  BY <1>6 DEF SyncDir, WriterUnchanged, EndWrite, FailWrite, Max
<1>7. CASE WorkerWait
  BY <1>7 DEF WorkerWait
<1>8. CASE WorkerConsume
  BY <1>8 DEF WorkerConsume, NoSnapshot
<1>9. CASE WorkerCompare
  BY <1>9 DEF WorkerCompare
<1>10. CASE WorkerDone
  BY <1>10 DEF WorkerDone
<1>11. ASSUME NEW goal \in Goals, BeginEnd(goal)
      PROVE  PowerLossKeepsSettings'
  BY <1>11 DEF BeginEnd, EndUnchanged
<1>12. CASE BeginUpdate
  BY <1>12 DEF BeginUpdate, EndUnchanged
<1>13. CASE UpdateFails
  BY <1>13 DEF UpdateFails, EndUnchanged
<1>14. ASSUME NEW t \in Enders, Flush(t)
      PROVE  PowerLossKeepsSettings'
  BY <1>14 DEF Flush, EndUnchanged
<1>15. ASSUME NEW t \in Enders, Drain(t)
      PROVE  PowerLossKeepsSettings'
  BY <1>15 DEF Drain, EndUnchanged
<1>16. ASSUME NEW t \in Enders, Barrier(t)
      PROVE  PowerLossKeepsSettings'
  BY <1>16 DEF Barrier, EndUnchanged
<1>17. ASSUME NEW t \in Enders, RequestSelector(t)
      PROVE  PowerLossKeepsSettings'
  BY <1>17 DEF RequestSelector, EndUnchanged, Cancel
<1>18. ASSUME NEW t \in Enders, Erase(t)
      PROVE  PowerLossKeepsSettings'
  BY <1>18 DEF Erase, EndUnchanged, File, NoFile
<1>19. ASSUME NEW t \in Enders, RebootFails(t)
      PROVE  PowerLossKeepsSettings'
  BY <1>19 DEF RebootFails, EndUnchanged, Cancel
<1>20. ASSUME NEW t \in Enders, EndsInOrder(t)
      PROVE  PowerLossKeepsSettings'
  BY <1>20 DEF EndsInOrder, NextStart, NoSnapshot
<1>21. ASSUME NEW t \in Enders, Exits(t)
      PROVE  PowerLossKeepsSettings'
  BY <1>21 DEF Exits, NextStart, NoSnapshot
<1>22. CASE PowerLoss
  BY <1>22 DEF PowerLoss, NextStart, NoSnapshot, NoFile, File
<1> QED
  BY <1>1, <1>2, <1>3, <1>4, <1>5, <1>6, <1>7, <1>8, <1>9, <1>10, <1>11, <1>12, <1>13, <1>14, <1>15, <1>16, <1>17, <1>18, <1>19, <1>20, <1>21, <1>22 DEF Next, SaverStep, WriteStep, WorkerStep, EnderStep, FlushStep

(******************************************************************************)
(* The invariant and the results.                                             *)
(******************************************************************************)
LEMMA InitInv == Init => Inv
<1> SUFFICES ASSUME Init PROVE Inv
  OBVIOUS
<1>1. TypeOK
  <2>1. starts \in 0..MaxStarts
    BY MaxStartsAssumption DEF Init
  <2>2. {NoFile} \subseteq Files
    BY NumbersClosed
  <2> QED
    BY <2>1, <2>2, NumbersClosed, Types DEF Init, Threaded, Saving, Waiting, OnDisk, Remembered, NoWriter
<1>2. Threading /\ OneEnder /\ Closed
  BY DEF Init, Threading, OneEnder, Closed, UiPlaces, WebPlaces, UpdaterPlaces, WorkerPlaces,
         Writing, Ending, Threads, Savers, Enders, Idle, NoWriter, Flushing, PastFlush, At
<1>3. Older /\ Snapshots /\ Accounted
  BY DEF Init, Older, Snapshots, Accounted, Writing, Threads, Savers, Enders, Idle, NoWriter,
         NoSnapshot, NoFile, File, Max, At
<1>4. Disk
  BY DEF Init, Disk, Replacing, PowerLossKeepsSettings, Threads, Savers, Enders, Idle, NoFile,
         File, At
<1> QED
  BY <1>1, <1>2, <1>3, <1>4 DEF Inv

LEMMA Stuttering == Inv /\ UNCHANGED vars => Inv'
  BY DEF Inv, vars, memory, disk, history, TypeOK, Threading, OneEnder, Closed, Older, Snapshots,
         Newest, Accounted, Disk, Replacing, PowerLossKeepsSettings, At, Flushing, PastFlush

THEOREM Invariance == Spec => []Inv
<1>1. Init => Inv
  BY InitInv
<1>2. Inv /\ [Next]_vars => Inv'
  BY Stuttering, TypeOKStep, ThreadingStep, OneEnderStep, ClosedStep, OlderStep, SnapshotsStep,
     AccountedStep, ReplacingStep, PowerLossKeepsSettingsStep DEF Inv, Disk
<1> QED
  BY <1>1, <1>2, PTL DEF Spec

(* Threads, numbers and files keep their types.                               *)
THEOREM TypeCorrect == Spec => []TypeOK
<1>1. Inv => TypeOK
  BY DEF Inv
<1> QED
  BY <1>1, Invariance, PTL

(* The store is closed only while someone ends the player, and nobody writes  *)
(* the settings after a flush (settings_shutdown_flush(), ..._cancel()).      *)
THEOREM ClosedStore == Spec => []ClosedWhileEnding
<1>1. Inv => ClosedWhileEnding
  <2> SUFFICES ASSUME Inv PROVE ClosedWhileEnding
    OBVIOUS
  <2>1. ASSUME NEW e \in Enders, PastFlush(e), NEW t \in Threads
        PROVE  thread[t].at \notin {"consumed"} \cup Writing
    BY <2>1 DEF Inv, Closed, Threading, UiPlaces, WebPlaces, UpdaterPlaces, WorkerPlaces,
                Writing, Ending, Threads, Savers, Enders, NoWriter
  <2> QED
    BY <2>1 DEF ClosedWhileEnding, Inv, Closed, Writing
<1> QED
  BY <1>1, Invariance, PTL

(* Every change a save was accepted for is in the file once the flush is      *)
(* over, unless the card refused it: what the worker had queued, what it had  *)
(* taken and what another thread was writing.                                 *)
THEOREM FlushSaves == Spec => []FlushedIsSaved
<1>1. Inv => FlushedIsSaved
  BY DEF FlushedIsSaved, Inv, Closed, Accounted, Threading, At
<1> QED
  BY <1>1, Invariance, PTL

(* Whatever a power loss leaves of the settings is a whole file, as new as    *)
(* the last one known to be on the disk (settings_write_file()).              *)
THEOREM PowerLossSafe == Spec => []PowerLossKeepsSettings
<1>1. Inv => PowerLossKeepsSettings
  BY DEF Inv, Disk
<1> QED
  BY <1>1, Invariance, PTL
=============================================================================

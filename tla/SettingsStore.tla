---------------------------- MODULE SettingsStore ----------------------------
(* Saving the settings (core/persistence/settings.c) and shutting down        *)
(* (core/system/lifecycle/idle_shutdown.c).  The UI saves at once or through  *)
(* a worker, Remote Control through the worker; power actions of the UI, the  *)
(* factory reset and the firmware updater close the store before they end the *)
(* player, and open it again when they fail.                                  *)
(*                                                                            *)
(* settings_queue_mutex is never held while waiting, so each section under it *)
(* is one step; settings_write_mutex is `writer`.  The settings are the       *)
(* number of their last change.  A file is that number and whether its data   *)
(* was synced before it got its name; `survivors` are the files a loss of     *)
(* power may leave under that name.                                           *)
EXTENDS Integers, FiniteSets

CONSTANTS MaxChange,       \* bound: changes between two starts
          MaxStarts        \* bound: restarts and losses of power

ASSUME MaxChangeAssumption == MaxChange \in Nat \ {0}
ASSUME MaxStartsAssumption == MaxStarts \in Nat

VARIABLES live,            \* current_settings
          thread,          \* what each thread is at
          writer,          \* holder of settings_write_mutex
          asleep,          \* threads in pthread_cond_wait()
          generation, queued, pending, in_flight,
          shutdown_started, busy, worker_ready,
          tmp, file, survivors,
          asked, lost,     \* history: last change taken to be saved, not written
          kept,            \* history: last change known to be on the disk
          starts

memory == <<live, thread, writer, asleep, generation, queued, pending, in_flight,
            shutdown_started, busy, worker_ready>>
disk == <<tmp, file, survivors>>
history == <<asked, lost, kept, starts>>
vars == <<memory, disk, history>>

Savers == {"ui", "web"}
Enders == {"ui", "updater"}
Threads == Savers \cup Enders \cup {"worker"}
Changes == 0..MaxChange
NoWriter == "none"
Max(x, y) == IF x > y THEN x ELSE y

Idle == [at |-> "idle", change |-> 0, generation |-> 0, to |-> "none"]
File(n, synced) == [change |-> n, synced |-> synced]
NoFile == File(0, TRUE)
Files == [change : Changes, synced : BOOLEAN]

Goals == {"poweroff", "restart", "selector", "reset", "update"}
Places == {"idle", "save", "save_async", "consumed", "write", "rename",
           "syncdir", "written", "flush", "drain", "barrier", "flushed",
           "reboot", "stuck"}
TypeOK ==
    /\ live \in Changes
    /\ thread \in [Threads -> [at : Places, change : Changes, generation : Nat,
                               to : Goals \cup {"none"}]]
    /\ writer \in Threads \cup {NoWriter} /\ asleep \subseteq Threads
    /\ generation \in Nat /\ queued \in [change : Changes, generation : Nat]
    /\ {pending, in_flight, shutdown_started, busy, worker_ready} \subseteq BOOLEAN
    /\ tmp \in Files /\ file \in Files /\ survivors \subseteq Files
    /\ {asked, lost, kept} \subseteq Changes /\ starts \in 0..MaxStarts

NoSnapshot == [change |-> 0, generation |-> 0]

Init ==
    /\ live = 0 /\ thread = [t \in Threads |-> Idle]
    /\ writer = NoWriter /\ asleep = {}
    /\ generation = 0 /\ queued = NoSnapshot /\ pending = FALSE /\ in_flight = FALSE
    /\ shutdown_started = FALSE /\ busy = FALSE /\ worker_ready \in BOOLEAN
    /\ tmp = NoFile /\ file = NoFile /\ survivors = {NoFile}
    /\ asked = 0 /\ lost = 0 /\ kept = 0 /\ starts = 0

At(t, place) == thread[t].at = place
Goto(t, place) == thread' = [thread EXCEPT ![t].at = place]
Leave(t) == thread' = [thread EXCEPT ![t] = Idle]
------------------------------------------------------------------------------
(* A thread changes the settings and saves them, at once or not.             *)
Change(t, how) ==
    /\ thread[t] = Idle /\ live < MaxChange
    /\ live' = live + 1
    /\ thread' = [thread EXCEPT ![t] = [Idle EXCEPT !.at = how, !.change = live + 1]]
    /\ UNCHANGED <<writer, asleep, generation, queued, pending, in_flight,
                   shutdown_started, busy, worker_ready, disk, history>>

Accept(t) ==
    /\ generation' = generation + 1
    /\ asked' = Max(asked, thread[t].change)

(* settings_save(), up to its write, which stands for every save before it:  *)
(* a queued snapshot is now too old.                                         *)
StartWrite(t) ==
    thread' = [thread EXCEPT ![t].at = "write", ![t].change = Max(asked, @)]

Save_KeepsGeneration(t) ==
    /\ At(t, "save") /\ writer = NoWriter
    /\ IF shutdown_started
       THEN Leave(t) /\ UNCHANGED <<writer, generation, asked>>
       ELSE /\ writer' = t /\ StartWrite(t)
            /\ asked' = Max(asked, thread[t].change) /\ UNCHANGED generation
    /\ UNCHANGED <<live, asleep, queued, pending, in_flight, shutdown_started, busy,
                   worker_ready, disk, lost, kept, starts>>

Save(t) ==
    /\ At(t, "save") /\ writer = NoWriter
    /\ IF shutdown_started
       THEN Leave(t) /\ UNCHANGED <<writer, generation, asked>>
       ELSE writer' = t /\ Accept(t) /\ StartWrite(t)
    /\ UNCHANGED <<live, asleep, queued, pending, in_flight, shutdown_started, busy,
                   worker_ready, disk, lost, kept, starts>>

(* settings_save_async(): without a worker it saves at once; the signal      *)
(* wakes one waiter, whichever.                                              *)
SaveAsync(t) ==
    /\ At(t, "save_async")
    /\ IF ~worker_ready
       THEN Goto(t, "save") /\ UNCHANGED <<asleep, generation, queued, pending, asked>>
       ELSE /\ Leave(t)
            /\ IF shutdown_started
               THEN UNCHANGED <<asleep, generation, queued, pending, asked>>
               ELSE /\ Accept(t)
                    /\ queued' = [change |-> live, generation |-> generation + 1]
                    /\ pending' = TRUE
                    /\ \/ asleep = {} /\ asleep' = {}
                       \/ \E w \in asleep : asleep' = asleep \ {w}
    /\ UNCHANGED <<live, writer, in_flight, shutdown_started, busy, worker_ready,
                   disk, lost, kept, starts>>

(* settings_worker_main()                                                    *)
WorkerWait ==
    /\ worker_ready /\ At("worker", "idle") /\ "worker" \notin asleep /\ ~pending
    /\ asleep' = asleep \cup {"worker"}
    /\ UNCHANGED <<live, thread, writer, generation, queued, pending, in_flight,
                   shutdown_started, busy, worker_ready, disk, history>>

WorkerConsume ==
    /\ worker_ready /\ At("worker", "idle") /\ "worker" \notin asleep /\ pending
    /\ thread' = [thread EXCEPT !["worker"] =
                     [Idle EXCEPT !.at = "consumed", !.change = queued.change,
                                  !.generation = queued.generation]]
    /\ pending' = FALSE /\ queued' = NoSnapshot /\ in_flight' = TRUE
    /\ UNCHANGED <<live, writer, asleep, generation, shutdown_started, busy,
                   worker_ready, disk, history>>

WorkerCompare ==
    /\ At("worker", "consumed") /\ writer = NoWriter
    /\ IF thread["worker"].generation = generation
       THEN writer' = "worker" /\ Goto("worker", "write")
       ELSE UNCHANGED writer /\ Goto("worker", "written")
    /\ UNCHANGED <<live, asleep, generation, queued, pending, in_flight,
                   shutdown_started, busy, worker_ready, disk, history>>

WorkerDone_Silent ==
    /\ At("worker", "written")
    /\ Leave("worker") /\ in_flight' = FALSE
    /\ UNCHANGED <<live, writer, asleep, generation, queued, pending, shutdown_started,
                   busy, worker_ready, disk, history>>

WorkerDone ==
    /\ At("worker", "written")
    /\ Leave("worker") /\ in_flight' = FALSE /\ asleep' = {}
    /\ UNCHANGED <<live, writer, generation, queued, pending, shutdown_started, busy,
                   worker_ready, disk, history>>
------------------------------------------------------------------------------
(* settings_write_file(): the temporary file, its name, the directory.  A     *)
(* synchronous save reads the live settings while it writes them.             *)
WriterUnchanged == UNCHANGED <<live, asleep, generation, queued, pending, in_flight,
                               shutdown_started, busy, worker_ready, asked, starts>>
EndWrite(t) ==
    /\ writer' = NoWriter
    /\ IF t = "worker" THEN Goto(t, "written") ELSE Leave(t)
FailWrite(t) ==
    /\ EndWrite(t)
    /\ tmp' = NoFile /\ lost' = Max(lost, thread[t].change)
    /\ UNCHANGED <<file, survivors, kept>>

Written(t) == IF t = "worker" THEN thread[t].change ELSE live

WriteTemp_NoSync(t) ==
    /\ At(t, "write") /\ WriterUnchanged
    /\ \/ /\ tmp' = File(Written(t), FALSE)
          /\ Goto(t, "rename") /\ UNCHANGED <<writer, file, survivors, lost, kept>>
       \/ FailWrite(t)

WriteTemp(t) ==
    /\ At(t, "write") /\ WriterUnchanged
    /\ \/ /\ tmp' = File(Written(t), TRUE)
          /\ Goto(t, "rename") /\ UNCHANGED <<writer, file, survivors, lost, kept>>
       \/ FailWrite(t)

Rename(t) ==
    /\ At(t, "rename") /\ WriterUnchanged
    /\ \/ /\ file' = tmp /\ survivors' = survivors \cup {tmp} /\ tmp' = NoFile
          /\ Goto(t, "syncdir") /\ UNCHANGED <<writer, lost, kept>>
       \/ FailWrite(t)

SyncDir(t) ==
    /\ At(t, "syncdir") /\ WriterUnchanged
    /\ EndWrite(t)
    /\ \/ survivors' = {file} /\ kept' = Max(kept, thread[t].change)
       \/ UNCHANGED <<survivors, kept>>
    /\ UNCHANGED <<tmp, file, lost>>

WriteStep(t) == WriteTemp(t) \/ Rename(t) \/ SyncDir(t)
------------------------------------------------------------------------------
(* idle_shutdown_now(), idle_shutdown_reboot_now(), ..._to_bootloader() and   *)
(* settings_factory_reset() start on the UI thread, unless an update runs...  *)
EndUnchanged == UNCHANGED <<live, generation, queued, pending, in_flight, worker_ready>>

BeginEnd_EvenBusy(goal) ==
    /\ thread["ui"] = Idle
    /\ thread' = [thread EXCEPT !["ui"] = [Idle EXCEPT !.at = "flush", !.to = goal]]
    /\ EndUnchanged /\ UNCHANGED <<writer, asleep, shutdown_started, busy, disk, history>>

BeginEnd(goal) ==
    /\ thread["ui"] = Idle /\ ~busy
    /\ thread' = [thread EXCEPT !["ui"] = [Idle EXCEPT !.at = "flush", !.to = goal]]
    /\ EndUnchanged /\ UNCHANGED <<writer, asleep, shutdown_started, busy, disk, history>>

(* ... which the UI thread starts: reserve_update(), or the claim of the OTA. *)
BeginUpdate ==
    /\ thread["ui"] = Idle /\ ~busy /\ busy' = TRUE
    /\ thread' = [thread EXCEPT !["updater"] =
                     [Idle EXCEPT !.at = "flush", !.to = "update"]]
    /\ EndUnchanged /\ UNCHANGED <<writer, asleep, shutdown_started, disk, history>>

(* prepare_recovery() fails before the reboot: finish_update(false).          *)
UpdateFails ==
    /\ At("updater", "flush")
    /\ Leave("updater") /\ busy' = FALSE
    /\ EndUnchanged /\ UNCHANGED <<writer, asleep, shutdown_started, disk, history>>

(* settings_shutdown_flush() closes the store, waits for the worker...        *)
Flush(t) ==
    /\ At(t, "flush")
    /\ shutdown_started' = TRUE /\ asleep' = {} /\ Goto(t, "drain")
    /\ EndUnchanged /\ UNCHANGED <<writer, busy, disk, history>>

Drain_PendingOnly(t) ==
    /\ At(t, "drain") /\ t \notin asleep
    /\ IF pending
       THEN asleep' = asleep \cup {t} /\ UNCHANGED thread
       ELSE Goto(t, "barrier") /\ UNCHANGED asleep
    /\ EndUnchanged /\ UNCHANGED <<writer, shutdown_started, busy, disk, history>>

Drain(t) ==
    /\ At(t, "drain") /\ t \notin asleep
    /\ IF pending \/ in_flight
       THEN asleep' = asleep \cup {t} /\ UNCHANGED thread
       ELSE Goto(t, "barrier") /\ UNCHANGED asleep
    /\ EndUnchanged /\ UNCHANGED <<writer, shutdown_started, busy, disk, history>>

(* ... and for a synchronous save that passed before.                         *)
Barrier(t) ==
    /\ At(t, "barrier") /\ writer = NoWriter
    /\ Goto(t, IF thread[t].to \in {"selector", "reset"} THEN "flushed" ELSE "reboot")
    /\ EndUnchanged /\ UNCHANGED <<writer, asleep, shutdown_started, busy, disk, history>>

(* settings_shutdown_cancel()                                                 *)
Cancel(t) ==
    /\ shutdown_started' = (shutdown_started /\ (pending \/ in_flight))
    /\ asleep' = {}
    /\ Leave(t)
    /\ busy' = (busy /\ t # "updater")
    /\ EndUnchanged /\ UNCHANGED <<writer, disk, history>>

(* What was flushed for: idle_shutdown_reboot_to_bootloader() records its     *)
(* request, or fails and cancels; the reset erases the files.  The flush they *)
(* repeat in idle_shutdown_reboot_handoff() has nothing left to wait for.     *)
RequestSelector(t) ==
    /\ At(t, "flushed") /\ thread[t].to = "selector"
    /\ \/ /\ Goto(t, "reboot") /\ EndUnchanged
          /\ UNCHANGED <<writer, asleep, shutdown_started, busy, disk, history>>
       \/ Cancel(t)

Erase(t) ==
    /\ At(t, "flushed") /\ thread[t].to = "reset"
    /\ file' = NoFile /\ tmp' = NoFile /\ survivors' = survivors \cup {NoFile}
    /\ asked' = 0 /\ lost' = 0 /\ kept' = 0
    /\ Goto(t, "reboot")
    /\ EndUnchanged /\ UNCHANGED <<writer, asleep, shutdown_started, busy, starts>>

(* The reboot call returns: who came back to the UI opens the store again,    *)
(* the others stay where they are.                                            *)
RebootFails(t) ==
    /\ At(t, "reboot")
    /\ IF thread[t].to \in {"selector", "update"}
       THEN Cancel(t)
       ELSE /\ Goto(t, "stuck") /\ EndUnchanged
            /\ UNCHANGED <<writer, asleep, shutdown_started, busy, disk, history>>

(* The player starts again with the settings it finds: settings_load().      *)
NextStart(f) ==
    /\ starts < MaxStarts /\ starts' = starts + 1
    /\ live' = f.change /\ file' = f /\ thread' = [t \in Threads |-> Idle]
    /\ writer' = NoWriter /\ asleep' = {}
    /\ generation' = 0 /\ queued' = NoSnapshot /\ pending' = FALSE /\ in_flight' = FALSE
    /\ shutdown_started' = FALSE /\ busy' = FALSE /\ worker_ready' \in BOOLEAN
    /\ asked' = 0 /\ lost' = 0 /\ UNCHANGED kept

(* poweroff and reboot sync the disk first; a supervised player just exits.   *)
EndsInOrder(t) ==
    /\ At(t, "reboot")
    /\ NextStart(file) /\ tmp' = tmp /\ survivors' = {file}
Exits(t) ==
    /\ At(t, "reboot") /\ thread[t].to # "poweroff"
    /\ NextStart(file) /\ UNCHANGED <<tmp, survivors>>

PowerLoss ==
    /\ \E f \in survivors : NextStart(f) /\ survivors' = {f}
    /\ tmp' = NoFile
------------------------------------------------------------------------------
SaverStep(t) == Save(t) \/ SaveAsync(t) \/ WriteStep(t)
WorkerStep ==
    \/ WorkerWait \/ WorkerConsume \/ WorkerCompare \/ WorkerDone \/ WriteStep("worker")
FlushStep(t) == Flush(t) \/ Drain(t) \/ Barrier(t)
EnderStep(t) ==
    \/ FlushStep(t) \/ RequestSelector(t) \/ Erase(t) \/ RebootFails(t)
    \/ EndsInOrder(t) \/ Exits(t)

Next ==
    \/ Change("ui", "save") \/ \E t \in Savers : Change(t, "save_async")
    \/ \E t \in Savers : SaverStep(t)
    \/ WorkerStep
    \/ \E goal \in Goals \ {"update"} : BeginEnd(goal)
    \/ BeginUpdate \/ UpdateFails
    \/ \E t \in Enders : EnderStep(t)
    \/ PowerLoss

Fairness ==
    /\ \A t \in Savers : WF_vars(Save(t)) /\ WF_vars(SaveAsync(t)) /\ WF_vars(WriteStep(t))
    /\ WF_vars(WorkerStep)
    /\ \A t \in Enders : WF_vars(FlushStep(t))
Spec == Init /\ [][Next]_vars /\ Fairness
------------------------------------------------------------------------------
(* The store is closed only while someone ends the player: what failed opened *)
(* it again.  And from the end of a flush on nobody writes the settings: what *)
(* a factory reset erased stays erased, no write is cut off by the end.       *)
PastFlush(t) == thread[t].at \in {"flushed", "reboot", "stuck"}
Flushing(t) == thread[t].at \in {"drain", "barrier"}
ClosedWhileEnding ==
    /\ shutdown_started => \E t \in Enders : Flushing(t) \/ PastFlush(t)
    /\ (\E t \in Enders : PastFlush(t)) =>
          \A t \in Threads : thread[t].at \notin {"consumed", "write", "rename", "syncdir"}

(* Every change a save was accepted for is in the file when the flush is      *)
(* over, unless writing it failed: neither a newer save nor the end drops it. *)
FlushedIsSaved ==
    (\E t \in Enders : PastFlush(t)) => asked <= Max(file.change, lost)

(* Whatever write a loss of power interrupts, the settings then found are     *)
(* whole, and at least as new as those that were written and synced before.   *)
PowerLossKeepsSettings ==
    \A f \in survivors : f.synced /\ f.change >= kept

(* A flush ends, and a change a save was accepted for reaches the file,       *)
(* unless writing it fails, the settings are erased or the player ends.       *)
FlushReturns == \A t \in Enders : At(t, "flush") ~> ~(At(t, "flush") \/ At(t, "drain") \/ At(t, "barrier"))
AcceptedIsWritten ==
    \A n \in 1..MaxChange :
        asked >= n ~> (file.change >= n \/ lost >= n \/ asked < n)
=============================================================================

---------------------------- MODULE UsbDacSession ----------------------------
(* The USB modes of the R1 (hardware/usb/usb_mode_control.c) and the charger  *)
(* policy of its USB DAC (hardware/power/charge_limiter.c).  As a DAC the     *)
(* player takes the Type-C role Sink and, if so preferred, stops charging; a  *)
(* journal on the disk remembers what was there before.                       *)
(*                                                                            *)
(* usb_mode_mutex is held by `op` from its begin to Done; axp_charger_mutex   *)
(* makes each call of the charge limiter one step.  Beside an operation only  *)
(* the polls of the charger run, and the process or the power may end: so a   *)
(* step is what touches the charger, the role, the gadget or the journal      *)
(* once.  Every such call may fail, with or without effect.                   *)
EXTENDS Integers

CONSTANTS MaxOps,          \* bound: operations of the user between two starts
          MaxStarts        \* bound: restarts

ASSUME MaxOpsAssumption == MaxOps \in Nat
ASSUME MaxStartsAssumption == MaxStarts \in Nat

VARIABLES role, charger, bound,             \* hardware; bound: the gadget
          journal, survivors,               \* usb_dac_session.txt
          owned, saved_role, saved_charger, charger_valid, disabled,
          inhibited, limiter_saved,         \* of charge_limiter.c
          leases, restore_needed,
          op,                               \* the operation under the mutex
          base_role, blind, started,        \* history
          ops, starts

hardware == <<role, charger, bound>>
disk == <<journal, survivors>>
policy == <<owned, saved_role, saved_charger, charger_valid, disabled>>
limiter == <<inhibited, limiter_saved>>
lease == <<leases, restore_needed>>
history == <<base_role, blind, started, ops, starts>>
vars == <<hardware, disk, policy, limiter, lease, op, history>>

Roles == {"NormalDRP", "Sink"}
Modes == {"storage", "dac", "adb"}
Absent == [role |-> "none", charger |-> FALSE]
Journals == {Absent} \cup [role : Roles, charger : BOOLEAN]

(* for: what the operation is; already: owned before it; ok: charger_ok, then *)
(* what it will return; captured: dac_last_prepare_captured_baseline.         *)
Ops == [at : {"idle", "begin", "reclaim", "capture", "save", "undo", "allow", "sink",
              "gadget", "finish", "resume", "role", "release", "remove", "discard",
              "retain", "keep", "retained", "preference", "revert"},
        for : {"none", "reconcile", "switch", "preference"},
        mode : Modes, already : BOOLEAN, ok : BOOLEAN, captured : BOOLEAN]
NoOp == [at |-> "idle", for |-> "none", mode |-> "storage",
         already |-> FALSE, ok |-> FALSE, captured |-> FALSE]
Reconcile == [NoOp EXCEPT !.at = "begin", !.for = "reconcile", !.ok = TRUE]

TypeOK ==
    /\ role \in Roles /\ {charger, owned, saved_charger, charger_valid, disabled,
                          inhibited, limiter_saved, restore_needed, blind, started}
                         \subseteq BOOLEAN
    /\ bound \in Modes \cup {"none"}
    /\ journal \in Journals /\ survivors \subseteq Journals
    /\ saved_role \in Roles /\ base_role \in Roles
    /\ leases \in Nat /\ op \in Ops /\ ops \in 0..MaxOps /\ starts \in 0..MaxStarts

(* Perhaps an older version, which kept no journal, left its DAC bound.       *)
Init ==
    /\ role \in Roles /\ charger \in BOOLEAN /\ bound \in {"none", "dac"}
    /\ journal = Absent /\ survivors = {Absent}
    /\ owned = FALSE /\ saved_role = "Sink" /\ saved_charger = FALSE
    /\ charger_valid = FALSE /\ disabled \in BOOLEAN
    /\ inhibited = FALSE /\ limiter_saved = FALSE
    /\ leases = 0 /\ restore_needed = FALSE
    /\ op = Reconcile
    /\ base_role = role /\ blind = FALSE /\ started = FALSE /\ ops = 0 /\ starts = 0

At(place) == op.at = place
Goto(place) == op' = [op EXCEPT !.at = place]
Done(ok) == op' = NoOp /\ started' = (ok /\ bound = "dac")
Continue(place) == Goto(place) /\ UNCHANGED started
HistoryKept == UNCHANGED <<base_role, ops, starts>>
------------------------------------------------------------------------------
(* charge_limiter.c: what a call does to the charger, and what it returns.    *)
TurnOff(ok) == charger' = FALSE \/ (~ok /\ UNCHANGED charger)

resume(orig, ok) ==
    limiter_saved' = orig /\ inhibited' = TRUE /\ TurnOff(ok)

release(orig, ok) ==
    /\ limiter_saved' = orig /\ inhibited' = ~ok
    /\ IF ok THEN charger' = orig ELSE charger' \in {charger, orig, FALSE}

begin(ok) ==
    \/ /\ ~inhibited /\ inhibited' = TRUE /\ limiter_saved' = charger /\ TurnOff(ok)
    \/ /\ inhibited /\ UNCHANGED limiter /\ TurnOff(ok)
    \/ /\ ~inhibited /\ ~ok /\ UNCHANGED <<charger, limiter>>

capture(ok) ==
    /\ limiter_saved' = IF ok /\ ~inhibited THEN charger ELSE limiter_saved
    /\ inhibited => ok
    /\ UNCHANGED <<charger, inhibited>>

end(ok) ==
    /\ ~inhibited => ok
    /\ inhibited' = (inhibited /\ ~ok) /\ UNCHANGED limiter_saved
    /\ IF ~inhibited THEN UNCHANGED charger
       ELSE IF ok THEN charger' = limiter_saved
       ELSE charger' \in {charger, limiter_saved}

(* How a DAC session holds the charger, after the user's preference.          *)
hold(orig, ok) == IF disabled THEN resume(orig, ok) ELSE release(orig, ok)

(* enable_axp_charger(), of every pass of charge_limiter_poll().              *)
Poll ==
    /\ op.for # "reconcile"
    /\ ~inhibited /\ charger' = TRUE
    /\ UNCHANGED <<role, bound, disk, policy, limiter, lease, op, history>>

(* The role and the journal: a failed write may still have happened.          *)
r1_usb_role_set(r, ok) == role' = r \/ (~ok /\ UNCHANGED role)
Record(j, ok) ==
    \/ journal' = j /\ survivors' = IF ok THEN {j} ELSE survivors \cup {j}
    \/ ~ok /\ UNCHANGED disk
save_journal(ok) == Record([role |-> saved_role, charger |-> saved_charger], ok)
------------------------------------------------------------------------------
(* usb_mode_control_apply_with_status(), ..._set_dac_charging_disabled().     *)
UserCalls == /\ At("idle") /\ ops < MaxOps /\ ops' = ops + 1
             /\ UNCHANGED <<hardware, disk, limiter, lease, base_role, blind, starts>>

Switch(mode) ==
    /\ UserCalls /\ leases = 0
    /\ op' = [NoOp EXCEPT !.at = IF mode = "dac" THEN "reclaim" ELSE "gadget",
                          !.for = "switch", !.mode = mode, !.already = owned, !.ok = TRUE]
    /\ UNCHANGED <<policy, started>>

Prefer(off) ==
    /\ UserCalls /\ (disabled # off \/ owned)
    /\ IF owned
       THEN op' = [NoOp EXCEPT !.at = "preference", !.for = "preference", !.ok = off]
            /\ UNCHANGED policy
       ELSE /\ disabled' = off /\ UNCHANGED op
            /\ UNCHANGED <<owned, saved_role, saved_charger, charger_valid>>
    /\ UNCHANGED started

SetPreference(ok) ==
    /\ At("preference")
    /\ IF op.ok THEN resume(saved_charger, ok) ELSE release(saved_charger, ok)
    /\ IF ok THEN disabled' = op.ok /\ Done(started)
             ELSE UNCHANGED disabled /\ Continue("revert")
    /\ UNCHANGED <<role, bound, disk, owned, saved_role, saved_charger, charger_valid,
                   lease, blind>> /\ HistoryKept

RevertPreference(ok) ==
    /\ At("revert") /\ hold(saved_charger, ok) /\ Done(FALSE)
    /\ UNCHANGED <<role, bound, disk, policy, lease, blind>> /\ HistoryKept

(* usb_mode_control_storage_write_begin(), .._end(): a writer of the card     *)
(* takes it away from the USB host, unless the host is using it.              *)
LeaseBegin ==
    /\ At("idle") /\ ops < MaxOps /\ ops' = ops + 1
    /\ \/ /\ leases > 0 \/ bound # "storage"
          /\ leases' = leases + 1 /\ UNCHANGED <<bound, restore_needed>>
       \/ /\ leases = 0 /\ bound = "storage" /\ bound' = "none"
          /\ \/ leases' = 1 /\ restore_needed' = TRUE
             \/ leases' = 0 /\ restore_needed' = FALSE
    /\ UNCHANGED <<role, charger, disk, policy, limiter, op, base_role, blind, started, starts>>

LeaseEnd_KeepsIt ==
    /\ At("idle") /\ leases > 0
    /\ leases' = leases - 1
    /\ bound' = IF restore_needed THEN "storage" ELSE bound
    /\ UNCHANGED restore_needed
    /\ UNCHANGED <<role, charger, disk, policy, limiter, op, history>>

LeaseEnd ==
    /\ At("idle") /\ leases > 0
    /\ leases' = leases - 1
    /\ IF leases = 1 /\ restore_needed
       THEN restore_needed' = FALSE /\ bound' \in {bound, IF bound = "none" THEN "storage" ELSE bound}
       ELSE UNCHANGED <<bound, restore_needed>>
    /\ UNCHANGED <<role, charger, disk, policy, limiter, op, history>>
------------------------------------------------------------------------------
(* prepare_dac_usb_policy(): a retry reclaims what it owned; otherwise the    *)
(* role and the charger are captured first...  A failure is the end, or for   *)
(* reconcile a reason to be cautious.                                         *)
Fail(place) == op' = [op EXCEPT !.at = place, !.ok = FALSE] /\ UNCHANGED started
GiveUp == IF op.for = "reconcile" THEN Fail("retain") ELSE Done(FALSE)
Rollback == IF op.already THEN GiveUp ELSE Fail("resume")

Reclaim(ok) ==
    /\ At("reclaim") /\ HistoryKept
    /\ IF owned
       THEN /\ hold(saved_charger, ok) /\ UNCHANGED <<saved_role, charger_valid>>
            /\ IF ok THEN Continue("save") ELSE GiveUp
       ELSE /\ charger_valid' = FALSE /\ UNCHANGED <<charger, limiter>>
            /\ IF ok THEN /\ saved_role' = role /\ UNCHANGED started
                          /\ op' = [op EXCEPT !.at = "capture", !.captured = TRUE]
                     ELSE UNCHANGED saved_role /\ GiveUp
    /\ UNCHANGED <<role, bound, disk, owned, saved_charger, disabled, lease, blind>>

Capture(ok) ==
    /\ At("capture") /\ HistoryKept
    /\ IF disabled THEN begin(ok) ELSE capture(ok)
    /\ IF ok \/ (disabled /\ inhibited')
       THEN /\ owned' = TRUE /\ charger_valid' = TRUE /\ saved_charger' = limiter_saved'
            /\ op' = [op EXCEPT !.at = "save", !.ok = ok] /\ UNCHANGED started
       ELSE UNCHANGED <<owned, charger_valid, saved_charger>> /\ GiveUp
    /\ UNCHANGED <<role, bound, disk, saved_role, disabled, lease, blind>>

(* ... then recorded, "Sink must never be entered without a recoverable      *)
(* original charger value"...                                                *)
Save_Unchecked(ok) ==
    /\ At("save") /\ save_journal(ok) /\ Continue("allow")
    /\ UNCHANGED <<hardware, policy, limiter, lease, blind>> /\ HistoryKept

Save(ok) ==
    /\ At("save") /\ save_journal(ok)
    /\ IF ok THEN Continue("allow") ELSE IF op.already THEN GiveUp ELSE Continue("undo")
    /\ UNCHANGED <<hardware, policy, limiter, lease, blind>> /\ HistoryKept

Undo_Anyway(ok) ==
    /\ At("undo") /\ end(ok) /\ owned' = FALSE /\ GiveUp
    /\ UNCHANGED <<role, bound, disk, saved_role, saved_charger, charger_valid,
                   disabled, lease, blind>> /\ HistoryKept

Undo(ok) ==
    /\ At("undo") /\ end(ok) /\ owned' = ~ok /\ GiveUp
    /\ UNCHANGED <<role, bound, disk, saved_role, saved_charger, charger_valid,
                   disabled, lease, blind>> /\ HistoryKept

(* ... and last the charger and the role are set.                             *)
Allow(ok) ==
    /\ At("allow") /\ HistoryKept
    /\ IF disabled THEN ok /\ UNCHANGED <<charger, limiter>> ELSE release(saved_charger, ok)
    /\ IF ~ok THEN GiveUp ELSE IF ~op.ok THEN Rollback ELSE Continue("sink")
    /\ UNCHANGED <<role, bound, disk, policy, lease, blind>>

EnterSink(ok) ==
    /\ At("sink") /\ r1_usb_role_set("Sink", ok)
    /\ IF ~ok THEN Rollback
       ELSE IF op.for = "reconcile" THEN Done(TRUE) ELSE Continue("gadget")
    /\ UNCHANGED <<charger, bound, disk, policy, limiter, lease, blind>> /\ HistoryKept

PrepareStep(ok) ==
    Reclaim(ok) \/ Capture(ok) \/ Save(ok) \/ Undo(ok) \/ Allow(ok) \/ EnterSink(ok)
------------------------------------------------------------------------------
(* usb_mode_control_apply_gadget_locked(): the old gadget is torn down, or    *)
(* not, and the new one comes up, or not.                                     *)
Gadget(applied) ==
    /\ At("gadget")
    /\ bound' \in IF applied THEN {op.mode} ELSE {bound, "none", op.mode}
    /\ op' = [op EXCEPT !.at = "finish", !.ok = applied]
    /\ UNCHANGED <<role, charger, disk, policy, limiter, lease, blind, started>> /\ HistoryKept

(* dac_gadget_may_be_bound(): whatever cannot be read may be bound.           *)
MayBeBound(answer) == bound = "dac" => answer

(* finish_dac_usb_policy_apply()                                              *)
Finish_Unseen(may) ==
    /\ At("finish") /\ MayBeBound(may) /\ HistoryKept
    /\ IF owned /\ (op.mode # "dac" \/ ~op.ok)
       THEN Continue("resume") ELSE Done(op.ok)
    /\ UNCHANGED <<hardware, disk, policy, limiter, lease, blind>>

Finish(may) ==
    /\ At("finish") /\ MayBeBound(may) /\ HistoryKept
    /\ IF owned /\ ~may /\ (op.mode # "dac" \/ ~op.ok)
       THEN Continue("resume") ELSE Done(op.ok)
    /\ UNCHANGED <<hardware, disk, policy, limiter, lease, blind>>

(* restore_dac_usb_policy(): inhibit, role, charger, and last the record.     *)
EndRestore(restored) ==
    IF op.for = "reconcile" /\ ~op.ok THEN Continue("retain") ELSE Done(op.ok /\ restored)
Then(place, ok) == IF ok THEN Continue(place) ELSE EndRestore(FALSE)

RestoreResume(ok) ==
    /\ At("resume") /\ resume(saved_charger, ok) /\ Then("role", ok)
    /\ UNCHANGED <<role, bound, disk, policy, lease, blind>> /\ HistoryKept

RestoreRole(ok) ==
    /\ At("role") /\ r1_usb_role_set(saved_role, ok) /\ Then("release", ok)
    /\ UNCHANGED <<charger, bound, disk, policy, limiter, lease, blind>> /\ HistoryKept

RestoreRelease(ok) ==
    /\ At("release") /\ release(saved_charger, ok) /\ Then("remove", ok)
    /\ UNCHANGED <<role, bound, disk, policy, lease, blind>> /\ HistoryKept

RestoreRemove(ok) ==
    /\ At("remove") /\ Record(Absent, ok) /\ EndRestore(ok) /\ owned' = ~ok
    /\ UNCHANGED <<hardware, limiter, saved_role, saved_charger, charger_valid, disabled,
                   lease, blind>> /\ HistoryKept

RestoreStep(ok) ==
    RestoreResume(ok) \/ RestoreRole(ok) \/ RestoreRelease(ok) \/ RestoreRemove(ok)
------------------------------------------------------------------------------
(* usb_mode_control_reconcile_dac_session(), before the first poll of a       *)
(* start, when no lease is taken yet: by what the journal says...             *)
Own(r, c) == owned' = TRUE /\ saved_role' = r /\ saved_charger' = c /\ charger_valid' = TRUE
             /\ UNCHANGED disabled

NothingRecorded(may) ==
    /\ At("begin") /\ MayBeBound(may) /\ journal = Absent
    /\ IF may THEN Continue("reclaim") ELSE Done(TRUE)
    /\ UNCHANGED <<hardware, disk, policy, limiter, lease, blind>> /\ HistoryKept

Recorded(may, ok) ==
    /\ At("begin") /\ MayBeBound(may) /\ journal # Absent
    /\ Own(journal.role, journal.charger)
    /\ IF may
       THEN /\ hold(journal.charger, ok)
            /\ op' = [op EXCEPT !.at = "retained", !.ok = ok] /\ UNCHANGED started
       ELSE resume(journal.charger, ok) /\ IF ok THEN Continue("role") ELSE Done(FALSE)
    /\ UNCHANGED <<role, bound, disk, lease, blind>> /\ HistoryKept

Unreadable(may, ok) ==
    /\ At("begin") /\ MayBeBound(may) /\ blind' = TRUE
    /\ IF may
       THEN Own("Sink", FALSE) /\ hold(FALSE, ok) /\ Fail("retained")
       ELSE ok /\ Continue("discard") /\ UNCHANGED <<charger, policy, limiter>>
    /\ UNCHANGED <<role, bound, disk, lease>> /\ HistoryKept

Discard(ok) ==
    /\ At("discard") /\ Record(Absent, ok) /\ Done(ok)
    /\ UNCHANGED <<hardware, policy, limiter, lease, blind>> /\ HistoryKept

(* ... and a DAC that is perhaps still bound keeps its session, with what     *)
(* could be captured of the original policy, or else conservatively.          *)
Retain(ok) ==
    LET captured == owned \/ op.captured
        c == captured /\ charger_valid /\ saved_charger
    IN  /\ At("retain")
        /\ Own(IF captured THEN saved_role ELSE "Sink", c)
        /\ hold(c, ok) /\ Continue("keep")
        /\ blind' = (blind \/ ~captured)
        /\ UNCHANGED <<role, bound, disk, lease>> /\ HistoryKept

Keep(ok) ==
    /\ At("keep") /\ save_journal(ok) /\ Continue("retained")
    /\ blind' = (blind \/ ~ok)
    /\ UNCHANGED <<hardware, policy, limiter, lease>> /\ HistoryKept

Retained(ok) ==
    /\ At("retained") /\ r1_usb_role_set("Sink", ok) /\ Done(op.ok /\ ok)
    /\ UNCHANGED <<charger, bound, disk, policy, limiter, lease, blind>> /\ HistoryKept

ReconcileStep(ok) ==
    \/ \E may \in BOOLEAN : Recorded(may, ok) \/ Unreadable(may, ok)
    \/ Discard(ok) \/ Retain(ok) \/ Keep(ok) \/ Retained(ok)
------------------------------------------------------------------------------
(* The player is started again: the hardware stays as it is...                *)
NextStart ==
    /\ starts < MaxStarts /\ starts' = starts + 1 /\ ops' = 0
    /\ owned' = FALSE /\ saved_role' = "Sink" /\ saved_charger' = FALSE
    /\ charger_valid' = FALSE /\ disabled' \in BOOLEAN
    /\ inhibited' = FALSE /\ limiter_saved' = FALSE
    /\ leases' = 0 /\ restore_needed' = FALSE
    /\ op' = Reconcile /\ started' = FALSE /\ UNCHANGED <<base_role, blind>>

PlayerRestarts == NextStart /\ UNCHANGED <<hardware, disk>>

(* ... or the device is: no gadget, the role of its driver.                   *)
DeviceRestarts ==
    /\ NextStart
    /\ role' = base_role /\ bound' = "none" /\ charger' \in BOOLEAN
    /\ \E j \in survivors : journal' = j /\ survivors' = {j}

Next ==
    \/ \E mode \in Modes : Switch(mode)
    \/ \E off \in BOOLEAN : Prefer(off)
    \/ LeaseBegin \/ LeaseEnd \/ Poll
    \/ \E ok \in BOOLEAN : \/ SetPreference(ok) \/ RevertPreference(ok)
                         \/ PrepareStep(ok) \/ Gadget(ok) \/ Finish(ok) \/ RestoreStep(ok)
                         \/ NothingRecorded(ok) \/ ReconcileStep(ok)
    \/ PlayerRestarts \/ DeviceRestarts

Spec == Init /\ [][Next]_vars
------------------------------------------------------------------------------
(* Between operations the charger is inhibited only for a session that is     *)
(* still owned: whatever failed or crashed, polls charge the battery again    *)
(* once the session is given up.                                              *)
InhibitHasOwner == At("idle") /\ inhibited => owned

(* Whenever the Type-C role is not the original one, the journal says which   *)
(* it was: in the middle of a switch or a restore, after a write that failed, *)
(* after a crash.  Only a journal that could not be read, or not be written   *)
(* for a DAC found running without one, loses it.                             *)
OriginalRoleIsRecorded == role # base_role /\ ~blind => journal.role = base_role

(* The session ends only when the DAC is gone, and till then no poll may turn *)
(* the charger on: a switch or a restore that failed half way keeps it.  And  *)
(* a DAC that is reported to run is a Sink and, if so preferred, does not     *)
(* charge, however the polls of the charger and earlier failures interleave.  *)
DacKeepsTheCharger ==
    At("idle") /\ bound = "dac" =>
        /\ owned /\ (disabled => inhibited)
        /\ started => role = "Sink" /\ (disabled => ~charger)

(* While someone holds a lease to write to the card, the USB host has not got *)
(* it: no switch of the mode, and no lease that ends earlier, exposes it.     *)
CardHasOneOwner == leases > 0 => bound # "storage"
=============================================================================

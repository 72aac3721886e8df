------------------------- MODULE UsbDacSession_proofs -------------------------
(******************************************************************************)
(* The USB DAC session for any number of operations and restarts.             *)
(******************************************************************************)
EXTENDS UsbDacSession, TLAPS

(* Where the operation under the mutex can be.                                *)
Prepare     == {"reclaim", "capture", "save", "undo", "allow", "sink"}
Restore     == {"resume", "role", "release", "remove"}
Switching   == Prepare \cup Restore \cup {"gadget", "finish"}
Reconciling == Prepare \cup Restore \cup {"begin", "discard", "retain", "keep", "retained"}
Shape ==
    /\ op.for \in {"none", "preference", "switch", "reconcile"}
    /\ op.for = "none" => op.at = "idle"
    /\ op.for = "preference" => op.at \in {"preference", "revert"}
    /\ op.for = "switch" => op.at \in Switching
    /\ op.for = "reconcile" => op.at \in Reconciling

(* No lease is held while the mode is switched or the session reconciled.     *)
Leased == op.for \in {"switch", "reconcile"} => leases = 0
LeaseInv == Leased /\ CardHasOneOwner

(* Who inhibits the charger owns the session; a step that gives it up comes   *)
(* after the inhibition is gone.                                              *)
Owner ==
    /\ inhibited => owned
    /\ op.at \in {"save", "undo", "allow", "sink", "preference", "revert", "keep", "retained"}
                 \cup Restore => owned
    /\ op.at \in {"begin", "capture"} => ~owned
    /\ op.at = "begin" => ~op.already /\ op.ok
    /\ op.at = "reclaim" => op.already = owned
    /\ op.at = "remove" => ~inhibited

(* What is saved, recorded or may survive names the original role; the role   *)
(* is the original one where nothing is owned and before the journal is       *)
(* removed.                                                                   *)
Recording ==
    /\ role # base_role => journal.role = base_role
    /\ \A j \in survivors : j.role \in {base_role, "none"}
    /\ owned \/ op.captured => saved_role = base_role
    /\ owned \/ op.at = "begin" \/ role = base_role
    /\ op.at = "capture" => op.captured /\ ~op.already
    /\ op.at # "discard"
    /\ op.at \in {"capture", "save", "undo"} /\ ~op.already => role = base_role
    /\ op.at = "undo" => ~op.already
    /\ op.at \in {"allow", "sink", "retained"} => journal.role = base_role
    /\ op.at \in {"release", "remove"} => role = base_role
Original == ~blind => Recording
Survives == journal \in survivors

(* A bound DAC is held at the end of every operation, and in the middle of    *)
(* one where nothing later would notice that it is not.                       *)
Held == owned /\ (disabled => inhibited)
Off  == disabled => inhibited /\ ~charger
BoundDac ==
    /\ op.for \in {"none", "switch"} => Held
    /\ op.for = "preference" => owned /\ (op.at = "preference" /\ disabled => inhibited)
    /\ op.for = "switch" => /\ op.at \in Prepare => op.already
                            /\ op.at \notin {"capture", "undo"} \cup Restore
    /\ op.for = "reconcile" => ~(op.at \in Restore /\ op.ok) /\ op.at # "discard"
    /\ op.at \in {"keep", "retained"} => Held
    /\ op.at \in {"idle", "preference"} /\ started => role = "Sink" /\ Off
    /\ op.at = "finish" /\ op.ok => op.mode = "dac"
Charging ==
    /\ op.at \in {"reclaim", "capture", "sink"} => op.ok
    /\ op.at \in {"retain", "keep"} => ~op.ok
    /\ op.at \in {"save", "allow", "sink", "retained"} /\ op.ok => Off
    /\ op.at \in {"gadget", "finish"} /\ op.mode = "dac" => Held /\ role = "Sink" /\ Off
Dac == (bound = "dac" => BoundDac) /\ Charging

Inv == TypeOK /\ Shape /\ LeaseInv /\ Owner /\ Survives /\ Original /\ Dac

(******************************************************************************)
(* Types.                                                                     *)
(******************************************************************************)
(* The types, one by one.                                                     *)
Places == {"idle", "begin", "reclaim", "capture", "save", "undo", "allow", "sink",
           "gadget", "finish", "resume", "role", "release", "remove", "discard",
           "retain", "keep", "retained", "preference", "revert"}
Flags == /\ charger \in BOOLEAN /\ owned \in BOOLEAN /\ saved_charger \in BOOLEAN /\ charger_valid \in BOOLEAN
         /\ disabled \in BOOLEAN /\ inhibited \in BOOLEAN /\ limiter_saved \in BOOLEAN
         /\ restore_needed \in BOOLEAN /\ blind \in BOOLEAN
Reports == started \in BOOLEAN
Kinds == /\ role \in Roles /\ saved_role \in Roles /\ base_role \in Roles /\ bound \in Modes \cup {"none"}
         /\ journal \in Journals /\ survivors \subseteq Journals
Counts == leases \in Nat /\ ops \in 0..MaxOps /\ starts \in 0..MaxStarts
OpType == op \in Ops

LEMMA Types == TypeOK <=> Flags /\ Reports /\ Kinds /\ Counts /\ OpType
  BY DEF TypeOK, Flags, Reports, Kinds, Counts, OpType

LEMMA Reporting ==
  ASSUME TypeOK
  PROVE  /\ started \in BOOLEAN
         /\ \A p : Continue(p) \/ Fail(p) => started' \in BOOLEAN
         /\ \A b \in BOOLEAN : Done(b) \/ EndRestore(b) => started' \in BOOLEAN
         /\ GiveUp \/ Rollback => started' \in BOOLEAN
  BY Types DEF Reports, Continue, Fail, Done, EndRestore, GiveUp, Rollback

LEMMA OpsClosed ==
  ASSUME TypeOK
  PROVE  /\ \A p \in Places : Goto(p) \/ Fail(p) => op' \in Ops
         /\ \A p \in Places : op' = [op EXCEPT !.at = p, !.captured = TRUE] => op' \in Ops
         /\ \A p \in Places : \A b \in BOOLEAN : op' = [op EXCEPT !.at = p, !.ok = b] => op' \in Ops
         /\ \A m \in Modes, p \in Places, f \in {"none", "reconcile", "switch", "preference"}, a, b \in BOOLEAN :
              [NoOp EXCEPT !.at = p, !.for = f, !.mode = m, !.already = a, !.ok = b] \in Ops
         /\ \A b \in BOOLEAN : [NoOp EXCEPT !.at = "preference", !.for = "preference", !.ok = b] \in Ops
         /\ NoOp \in Ops /\ Reconcile \in Ops
<1>1. op \in Ops
  BY DEF TypeOK
<1>2. \A p \in Places : Goto(p) \/ Fail(p) => op' \in Ops
  BY <1>1 DEF Ops, Places, Goto, Fail
<1>3. /\ \A p \in Places : op' = [op EXCEPT !.at = p, !.captured = TRUE] => op' \in Ops
      /\ \A p \in Places : \A b \in BOOLEAN : op' = [op EXCEPT !.at = p, !.ok = b] => op' \in Ops
  BY <1>1 DEF Ops, Places
<1>4. NoOp \in Ops
  BY DEF NoOp, Ops, Modes
<1>5. Reconcile \in Ops
  BY <1>4 DEF Reconcile, Ops
<1>6. ASSUME NEW m \in Modes, NEW p \in Places, NEW f \in {"none", "reconcile", "switch", "preference"},
             NEW a \in BOOLEAN, NEW b \in BOOLEAN
      PROVE  [NoOp EXCEPT !.at = p, !.for = f, !.mode = m, !.already = a, !.ok = b] \in Ops
  BY <1>4 DEF Places, Ops
<1>7. ASSUME NEW b \in BOOLEAN PROVE [NoOp EXCEPT !.at = "preference", !.for = "preference", !.ok = b] \in Ops
  BY <1>4 DEF Ops
<1> QED
  BY <1>2, <1>3, <1>4, <1>5, <1>6, <1>7

LEMMA CountsUp ==
  ASSUME TypeOK
  PROVE  /\ leases + 1 \in Nat /\ (leases > 0 => leases - 1 \in Nat) /\ 0 \in Nat /\ 1 \in Nat /\ 0 \in 0..MaxOps
         /\ (ops < MaxOps => ops + 1 \in 0..MaxOps) /\ (starts < MaxStarts => starts + 1 \in 0..MaxStarts)
  BY MaxOpsAssumption, MaxStartsAssumption DEF TypeOK

LEMMA JournalTypes ==
  ASSUME TypeOK
  PROVE  /\ Absent \in Journals /\ [role |-> saved_role, charger |-> saved_charger] \in Journals
         /\ journal # Absent => journal.role \in Roles /\ journal.charger \in BOOLEAN
  BY DEF TypeOK, Journals, Absent, Roles

LEMMA FlagsStep ==
  ASSUME TypeOK, [Next]_vars
  PROVE  Flags'
<1>1. ASSUME NEW mode \in Modes, Switch(mode) PROVE Flags'
  BY <1>1, Types, JournalTypes DEF Switch, UserCalls, At, hardware, disk, policy, limiter,
    lease, history, Flags
<1>2. ASSUME NEW off \in BOOLEAN, Prefer(off) PROVE Flags'
  BY <1>2, Types, JournalTypes DEF Prefer, UserCalls, At, hardware, disk, policy, limiter,
    lease, history, Flags
<1>3. CASE LeaseBegin
  BY <1>3, Types, JournalTypes DEF LeaseBegin, At, hardware, disk, policy, limiter, lease,
    history, Flags
<1>4. CASE LeaseEnd
  BY <1>4, Types, JournalTypes DEF LeaseEnd, At, hardware, disk, policy, limiter, lease,
    history, Flags
<1>5. CASE Poll
  BY <1>5, Types, JournalTypes DEF Poll, hardware, disk, policy, limiter, lease, history, Flags
<1>6. ASSUME NEW ok \in BOOLEAN, SetPreference(ok) PROVE Flags'
  <2>1. op.ok \in BOOLEAN
    BY DEF TypeOK, Ops
  <2>2. /\ charger' \in BOOLEAN /\ inhibited' \in BOOLEAN /\ limiter_saved' \in BOOLEAN
        /\ UNCHANGED <<owned, saved_charger, charger_valid, restore_needed, blind>>
    BY <1>6, Types DEF SetPreference, resume, release, TurnOff, lease, Flags
  <2>3. disabled' \in {disabled, op.ok}
    BY <1>6 DEF SetPreference
  <2> QED
    BY <2>1, <2>2, <2>3, Types DEF Flags
<1>7. ASSUME NEW ok \in BOOLEAN, RevertPreference(ok) PROVE Flags'
  BY <1>7, Types, JournalTypes DEF RevertPreference, At, hold, resume, release, TurnOff,
    HistoryKept, hardware, disk, policy, limiter, lease, history, Flags
<1>8. ASSUME NEW ok \in BOOLEAN, Reclaim(ok) PROVE Flags'
  BY <1>8, Types, JournalTypes DEF Reclaim, At, hold, resume, release, TurnOff, HistoryKept,
    hardware, disk, policy, limiter, lease, history, Flags
<1>9. ASSUME NEW ok \in BOOLEAN, Capture(ok) PROVE Flags'
  BY <1>9, Types, JournalTypes DEF Capture, At, begin, capture, TurnOff, HistoryKept, hardware,
    disk, policy, limiter, lease, history, Flags
<1>10. ASSUME NEW ok \in BOOLEAN, Save(ok) PROVE Flags'
  BY <1>10, Types, JournalTypes DEF Save, At, save_journal, Record, HistoryKept, hardware, disk,
    policy, limiter, lease, history, Flags
<1>11. ASSUME NEW ok \in BOOLEAN, Undo(ok) PROVE Flags'
  BY <1>11, Types, JournalTypes DEF Undo, At, end, HistoryKept, hardware, disk, policy, limiter,
    lease, history, Flags
<1>12. ASSUME NEW ok \in BOOLEAN, Allow(ok) PROVE Flags'
  BY <1>12, Types, JournalTypes DEF Allow, At, release, HistoryKept, hardware, disk, policy,
    limiter, lease, history, Flags
<1>13. ASSUME NEW ok \in BOOLEAN, EnterSink(ok) PROVE Flags'
  BY <1>13, Types, JournalTypes DEF EnterSink, At, r1_usb_role_set, HistoryKept, hardware, disk,
    policy, limiter, lease, history, Flags
<1>14. ASSUME NEW applied \in BOOLEAN, Gadget(applied) PROVE Flags'
  BY <1>14, Types, JournalTypes DEF Gadget, At, HistoryKept, hardware, disk, policy, limiter,
    lease, history, Flags
<1>15. ASSUME NEW may \in BOOLEAN, Finish(may) PROVE Flags'
  BY <1>15, Types, JournalTypes DEF Finish, At, MayBeBound, HistoryKept, hardware, disk, policy,
    limiter, lease, history, Flags
<1>16. ASSUME NEW ok \in BOOLEAN, RestoreResume(ok) PROVE Flags'
  BY <1>16, Types, JournalTypes DEF RestoreResume, At, resume, TurnOff, HistoryKept, hardware,
    disk, policy, limiter, lease, history, Flags
<1>17. ASSUME NEW ok \in BOOLEAN, RestoreRole(ok) PROVE Flags'
  BY <1>17, Types, JournalTypes DEF RestoreRole, At, r1_usb_role_set, HistoryKept, hardware,
    disk, policy, limiter, lease, history, Flags
<1>18. ASSUME NEW ok \in BOOLEAN, RestoreRelease(ok) PROVE Flags'
  BY <1>18, Types, JournalTypes DEF RestoreRelease, At, release, HistoryKept, hardware, disk,
    policy, limiter, lease, history, Flags
<1>19. ASSUME NEW ok \in BOOLEAN, RestoreRemove(ok) PROVE Flags'
  BY <1>19, Types, JournalTypes DEF RestoreRemove, At, Record, HistoryKept, hardware, disk,
    policy, limiter, lease, history, Flags
<1>20. ASSUME NEW may \in BOOLEAN, NothingRecorded(may) PROVE Flags'
  BY <1>20, Types, JournalTypes DEF NothingRecorded, At, MayBeBound, HistoryKept, hardware,
    disk, policy, limiter, lease, history, Flags
<1>21. ASSUME NEW may \in BOOLEAN, NEW ok \in BOOLEAN, Recorded(may, ok) PROVE Flags'
  BY <1>21, Types, JournalTypes DEF Recorded, At, MayBeBound, Own, hold, resume, release,
    TurnOff, HistoryKept, hardware, disk, policy, limiter, lease, history, Flags
<1>22. ASSUME NEW may \in BOOLEAN, NEW ok \in BOOLEAN, Unreadable(may, ok) PROVE Flags'
  BY <1>22, Types, JournalTypes DEF Unreadable, At, MayBeBound, Own, hold, resume, release,
    TurnOff, HistoryKept, hardware, disk, policy, limiter, lease, history, Flags
<1>23. ASSUME NEW ok \in BOOLEAN, Discard(ok) PROVE Flags'
  BY <1>23, Types, JournalTypes DEF Discard, At, Record, HistoryKept, hardware, disk, policy,
    limiter, lease, history, Flags
<1>24. ASSUME NEW ok \in BOOLEAN, Retain(ok) PROVE Flags'
  BY <1>24, Types, JournalTypes DEF Retain, At, Own, hold, resume, release, TurnOff,
    HistoryKept, hardware, disk, policy, limiter, lease, history, Flags
<1>25. ASSUME NEW ok \in BOOLEAN, Keep(ok) PROVE Flags'
  BY <1>25, Types, JournalTypes DEF Keep, At, save_journal, Record, HistoryKept, hardware, disk,
    policy, limiter, lease, history, Flags
<1>26. ASSUME NEW ok \in BOOLEAN, Retained(ok) PROVE Flags'
  BY <1>26, Types, JournalTypes DEF Retained, At, r1_usb_role_set, HistoryKept, hardware, disk,
    policy, limiter, lease, history, Flags
<1>27. CASE PlayerRestarts
  BY <1>27, Types, JournalTypes DEF PlayerRestarts, NextStart, Reconcile, hardware, disk,
    policy, limiter, lease, history, Flags
<1>28. CASE DeviceRestarts
  BY <1>28, Types, JournalTypes DEF DeviceRestarts, NextStart, Reconcile, hardware, disk,
    policy, limiter, lease, history, Flags
<1>29. CASE UNCHANGED vars
  BY <1>29, Types, JournalTypes DEF vars, hardware, disk, policy, limiter, lease, history, Flags
<1> QED
  BY <1>1, <1>2, <1>3, <1>4, <1>5, <1>6, <1>7, <1>8, <1>9, <1>10, <1>11, <1>12, <1>13, <1>14,
    <1>15, <1>16, <1>17, <1>18, <1>19, <1>20, <1>21, <1>22, <1>23, <1>24, <1>25, <1>26, <1>27,
    <1>28, <1>29 DEF Next, PrepareStep, RestoreStep, ReconcileStep

LEMMA ReportsStep ==
  ASSUME TypeOK, [Next]_vars
  PROVE  Reports'
<1>1. ASSUME NEW mode \in Modes, Switch(mode) PROVE Reports'
  BY <1>1, Types, Reporting DEF Switch, UserCalls, At, hardware, disk, policy, limiter, lease,
    history, Reports
<1>2. ASSUME NEW off \in BOOLEAN, Prefer(off) PROVE Reports'
  BY <1>2, Types, Reporting DEF Prefer, UserCalls, At, hardware, disk, policy, limiter, lease,
    history, Reports
<1>3. CASE LeaseBegin
  BY <1>3, Types, Reporting DEF LeaseBegin, At, hardware, disk, policy, limiter, lease, history,
    Reports
<1>4. CASE LeaseEnd
  BY <1>4, Types, Reporting DEF LeaseEnd, At, hardware, disk, policy, limiter, lease, history,
    Reports
<1>5. CASE Poll
  BY <1>5, Types, Reporting DEF Poll, hardware, disk, policy, limiter, lease, history, Reports
<1>6. ASSUME NEW ok \in BOOLEAN, SetPreference(ok) PROVE Reports'
  BY <1>6, Types, Reporting DEF SetPreference, Reports
<1>7. ASSUME NEW ok \in BOOLEAN, RevertPreference(ok) PROVE Reports'
  BY <1>7, Types, Reporting DEF RevertPreference, At, HistoryKept, hardware, disk, policy,
    limiter, lease, history, Reports
<1>8. ASSUME NEW ok \in BOOLEAN, Reclaim(ok) PROVE Reports'
  BY <1>8, Types, Reporting DEF Reclaim, At, HistoryKept, hardware, disk, policy, limiter,
    lease, history, Reports
<1>9. ASSUME NEW ok \in BOOLEAN, Capture(ok) PROVE Reports'
  BY <1>9, Types, Reporting DEF Capture, At, HistoryKept, hardware, disk, policy, limiter,
    lease, history, Reports
<1>10. ASSUME NEW ok \in BOOLEAN, Save(ok) PROVE Reports'
  BY <1>10, Types, Reporting DEF Save, At, HistoryKept, hardware, disk, policy, limiter, lease,
    history, Reports
<1>11. ASSUME NEW ok \in BOOLEAN, Undo(ok) PROVE Reports'
  BY <1>11, Types, Reporting DEF Undo, At, HistoryKept, hardware, disk, policy, limiter, lease,
    history, Reports
<1>12. ASSUME NEW ok \in BOOLEAN, Allow(ok) PROVE Reports'
  BY <1>12, Types, Reporting DEF Allow, At, HistoryKept, hardware, disk, policy, limiter, lease,
    history, Reports
<1>13. ASSUME NEW ok \in BOOLEAN, EnterSink(ok) PROVE Reports'
  BY <1>13, Types, Reporting DEF EnterSink, At, r1_usb_role_set, HistoryKept, hardware, disk,
    policy, limiter, lease, history, Reports
<1>14. ASSUME NEW applied \in BOOLEAN, Gadget(applied) PROVE Reports'
  BY <1>14, Types, Reporting DEF Gadget, At, HistoryKept, hardware, disk, policy, limiter,
    lease, history, Reports
<1>15. ASSUME NEW may \in BOOLEAN, Finish(may) PROVE Reports'
  <2>1. op.ok \in BOOLEAN
    BY DEF TypeOK, Ops
  <2> QED
    BY <1>15, <2>1, Reporting DEF Finish, Reports
<1>16. ASSUME NEW ok \in BOOLEAN, RestoreResume(ok) PROVE Reports'
  BY <1>16, Types, Reporting DEF RestoreResume, At, Then, HistoryKept, hardware, disk, policy,
    limiter, lease, history, Reports
<1>17. ASSUME NEW ok \in BOOLEAN, RestoreRole(ok) PROVE Reports'
  BY <1>17, Types, Reporting DEF RestoreRole, At, r1_usb_role_set, Then, HistoryKept, hardware,
    disk, policy, limiter, lease, history, Reports
<1>18. ASSUME NEW ok \in BOOLEAN, RestoreRelease(ok) PROVE Reports'
  BY <1>18, Types, Reporting DEF RestoreRelease, At, Then, HistoryKept, hardware, disk, policy,
    limiter, lease, history, Reports
<1>19. ASSUME NEW ok \in BOOLEAN, RestoreRemove(ok) PROVE Reports'
  BY <1>19, Types, Reporting DEF RestoreRemove, At, HistoryKept, hardware, disk, policy,
    limiter, lease, history, Reports
<1>20. ASSUME NEW may \in BOOLEAN, NothingRecorded(may) PROVE Reports'
  BY <1>20, Types, Reporting DEF NothingRecorded, At, MayBeBound, HistoryKept, hardware, disk,
    policy, limiter, lease, history, Reports
<1>21. ASSUME NEW may \in BOOLEAN, NEW ok \in BOOLEAN, Recorded(may, ok) PROVE Reports'
  BY <1>21, Types, Reporting DEF Recorded, At, MayBeBound, HistoryKept, hardware, disk, policy,
    limiter, lease, history, Reports
<1>22. ASSUME NEW may \in BOOLEAN, NEW ok \in BOOLEAN, Unreadable(may, ok) PROVE Reports'
  BY <1>22, Types, Reporting DEF Unreadable, At, MayBeBound, HistoryKept, hardware, disk,
    policy, limiter, lease, history, Reports
<1>23. ASSUME NEW ok \in BOOLEAN, Discard(ok) PROVE Reports'
  BY <1>23, Types, Reporting DEF Discard, At, HistoryKept, hardware, disk, policy, limiter,
    lease, history, Reports
<1>24. ASSUME NEW ok \in BOOLEAN, Retain(ok) PROVE Reports'
  BY <1>24, Types, Reporting DEF Retain, At, HistoryKept, hardware, disk, policy, limiter,
    lease, history, Reports
<1>25. ASSUME NEW ok \in BOOLEAN, Keep(ok) PROVE Reports'
  BY <1>25, Types, Reporting DEF Keep, At, HistoryKept, hardware, disk, policy, limiter, lease,
    history, Reports
<1>26. ASSUME NEW ok \in BOOLEAN, Retained(ok) PROVE Reports'
  BY <1>26, Types, Reporting DEF Retained, At, r1_usb_role_set, HistoryKept, hardware, disk,
    policy, limiter, lease, history, Reports
<1>27. CASE PlayerRestarts
  BY <1>27, Types, Reporting DEF PlayerRestarts, NextStart, Reconcile, hardware, disk, policy,
    limiter, lease, history, Reports
<1>28. CASE DeviceRestarts
  BY <1>28, Types, Reporting DEF DeviceRestarts, NextStart, Reconcile, hardware, disk, policy,
    limiter, lease, history, Reports
<1>29. CASE UNCHANGED vars
  BY <1>29, Types, Reporting DEF vars, hardware, disk, policy, limiter, lease, history, Reports
<1> QED
  BY <1>1, <1>2, <1>3, <1>4, <1>5, <1>6, <1>7, <1>8, <1>9, <1>10, <1>11, <1>12, <1>13, <1>14,
    <1>15, <1>16, <1>17, <1>18, <1>19, <1>20, <1>21, <1>22, <1>23, <1>24, <1>25, <1>26, <1>27,
    <1>28, <1>29 DEF Next, PrepareStep, RestoreStep, ReconcileStep

LEMMA KindsStep ==
  ASSUME TypeOK, [Next]_vars
  PROVE  Kinds'
<1>1. ASSUME NEW mode \in Modes, Switch(mode) PROVE Kinds'
  BY <1>1, Types, JournalTypes DEF Switch, UserCalls, At, hardware, disk, policy, limiter,
    lease, history, Kinds, Roles, Modes
<1>2. ASSUME NEW off \in BOOLEAN, Prefer(off) PROVE Kinds'
  BY <1>2, Types, JournalTypes DEF Prefer, UserCalls, At, hardware, disk, policy, limiter,
    lease, history, Kinds, Roles, Modes
<1>3. CASE LeaseBegin
  BY <1>3, Types, JournalTypes DEF LeaseBegin, At, hardware, disk, policy, limiter, lease,
    history, Kinds, Roles, Modes
<1>4. CASE LeaseEnd
  BY <1>4, Types, JournalTypes DEF LeaseEnd, At, hardware, disk, policy, limiter, lease,
    history, Kinds, Roles, Modes
<1>5. CASE Poll
  BY <1>5, Types, JournalTypes DEF Poll, hardware, disk, policy, limiter, lease, history, Kinds,
    Roles, Modes
<1>6. ASSUME NEW ok \in BOOLEAN, SetPreference(ok) PROVE Kinds'
  BY <1>6, Types, JournalTypes DEF SetPreference, At, resume, release, TurnOff, Done, Continue,
    HistoryKept, hardware, disk, policy, limiter, lease, history, Kinds, Roles, Modes
<1>7. ASSUME NEW ok \in BOOLEAN, RevertPreference(ok) PROVE Kinds'
  BY <1>7, Types, JournalTypes DEF RevertPreference, At, hold, resume, release, TurnOff, Done,
    HistoryKept, hardware, disk, policy, limiter, lease, history, Kinds, Roles, Modes
<1>8. ASSUME NEW ok \in BOOLEAN, Reclaim(ok) PROVE Kinds'
  BY <1>8, Types, JournalTypes DEF Reclaim, At, hold, resume, release, TurnOff, Continue,
    GiveUp, Done, HistoryKept, hardware, disk, policy, limiter, lease, history, Kinds, Roles,
    Modes
<1>9. ASSUME NEW ok \in BOOLEAN, Capture(ok) PROVE Kinds'
  BY <1>9, Types, JournalTypes DEF Capture, At, begin, capture, TurnOff, GiveUp, Done,
    HistoryKept, hardware, disk, policy, limiter, lease, history, Kinds, Roles, Modes
<1>10. ASSUME NEW ok \in BOOLEAN, Save(ok) PROVE Kinds'
  BY <1>10, Types, JournalTypes DEF Save, At, save_journal, Record, Continue, GiveUp, Done,
    HistoryKept, hardware, disk, policy, limiter, lease, history, Kinds, Roles, Modes
<1>11. ASSUME NEW ok \in BOOLEAN, Undo(ok) PROVE Kinds'
  BY <1>11, Types, JournalTypes DEF Undo, At, end, GiveUp, Done, HistoryKept, hardware, disk,
    policy, limiter, lease, history, Kinds, Roles, Modes
<1>12. ASSUME NEW ok \in BOOLEAN, Allow(ok) PROVE Kinds'
  BY <1>12, Types, JournalTypes DEF Allow, At, release, Rollback, GiveUp, Done, Continue,
    HistoryKept, hardware, disk, policy, limiter, lease, history, Kinds, Roles, Modes
<1>13. ASSUME NEW ok \in BOOLEAN, EnterSink(ok) PROVE Kinds'
  BY <1>13, Types, JournalTypes DEF EnterSink, At, r1_usb_role_set, Rollback, GiveUp, Done,
    Continue, HistoryKept, hardware, disk, policy, limiter, lease, history, Kinds, Roles, Modes
<1>14. ASSUME NEW applied \in BOOLEAN, Gadget(applied) PROVE Kinds'
  <2>1. op.mode \in Modes
    BY DEF TypeOK, Ops
  <2> QED
    BY <1>14, <2>1, Types DEF Gadget, HistoryKept, disk, policy, Kinds
<1>15. ASSUME NEW may \in BOOLEAN, Finish(may) PROVE Kinds'
  BY <1>15, Types, JournalTypes DEF Finish, At, MayBeBound, Continue, Done, HistoryKept,
    hardware, disk, policy, limiter, lease, history, Kinds, Roles, Modes
<1>16. ASSUME NEW ok \in BOOLEAN, RestoreResume(ok) PROVE Kinds'
  BY <1>16, Types, JournalTypes DEF RestoreResume, At, resume, TurnOff, Then, EndRestore,
    Continue, Done, HistoryKept, hardware, disk, policy, limiter, lease, history, Kinds, Roles,
    Modes
<1>17. ASSUME NEW ok \in BOOLEAN, RestoreRole(ok) PROVE Kinds'
  BY <1>17, Types, JournalTypes DEF RestoreRole, At, r1_usb_role_set, Then, EndRestore,
    Continue, Done, HistoryKept, hardware, disk, policy, limiter, lease, history, Kinds, Roles,
    Modes
<1>18. ASSUME NEW ok \in BOOLEAN, RestoreRelease(ok) PROVE Kinds'
  BY <1>18, Types, JournalTypes DEF RestoreRelease, At, release, Then, EndRestore, Continue,
    Done, HistoryKept, hardware, disk, policy, limiter, lease, history, Kinds, Roles, Modes
<1>19. ASSUME NEW ok \in BOOLEAN, RestoreRemove(ok) PROVE Kinds'
  BY <1>19, Types, JournalTypes DEF RestoreRemove, At, Record, EndRestore, Continue, Done,
    HistoryKept, hardware, disk, policy, limiter, lease, history, Kinds, Roles, Modes
<1>20. ASSUME NEW may \in BOOLEAN, NothingRecorded(may) PROVE Kinds'
  BY <1>20, Types, JournalTypes DEF NothingRecorded, At, MayBeBound, Continue, Done,
    HistoryKept, hardware, disk, policy, limiter, lease, history, Kinds, Roles, Modes
<1>21. ASSUME NEW may \in BOOLEAN, NEW ok \in BOOLEAN, Recorded(may, ok) PROVE Kinds'
  BY <1>21, Types, JournalTypes DEF Recorded, At, MayBeBound, Own, hold, resume, release,
    TurnOff, Continue, Done, HistoryKept, hardware, disk, policy, limiter, lease, history,
    Kinds, Roles, Modes
<1>22. ASSUME NEW may \in BOOLEAN, NEW ok \in BOOLEAN, Unreadable(may, ok) PROVE Kinds'
  BY <1>22, Types, JournalTypes DEF Unreadable, At, MayBeBound, Own, hold, resume, release,
    TurnOff, Continue, HistoryKept, hardware, disk, policy, limiter, lease, history, Kinds,
    Roles, Modes
<1>23. ASSUME NEW ok \in BOOLEAN, Discard(ok) PROVE Kinds'
  BY <1>23, Types, JournalTypes DEF Discard, At, Record, Done, HistoryKept, hardware, disk,
    policy, limiter, lease, history, Kinds, Roles, Modes
<1>24. ASSUME NEW ok \in BOOLEAN, Retain(ok) PROVE Kinds'
  BY <1>24, Types, JournalTypes DEF Retain, At, Own, hold, resume, release, TurnOff, Continue,
    HistoryKept, hardware, disk, policy, limiter, lease, history, Kinds, Roles, Modes
<1>25. ASSUME NEW ok \in BOOLEAN, Keep(ok) PROVE Kinds'
  BY <1>25, Types, JournalTypes DEF Keep, At, save_journal, Record, Continue, HistoryKept,
    hardware, disk, policy, limiter, lease, history, Kinds, Roles, Modes
<1>26. ASSUME NEW ok \in BOOLEAN, Retained(ok) PROVE Kinds'
  BY <1>26, Types, JournalTypes DEF Retained, At, r1_usb_role_set, Done, HistoryKept, hardware,
    disk, policy, limiter, lease, history, Kinds, Roles, Modes
<1>27. CASE PlayerRestarts
  BY <1>27, Types, JournalTypes DEF PlayerRestarts, NextStart, Reconcile, hardware, disk,
    policy, limiter, lease, history, Kinds, Roles, Modes
<1>28. CASE DeviceRestarts
  BY <1>28, Types, JournalTypes DEF DeviceRestarts, NextStart, Reconcile, hardware, disk,
    policy, limiter, lease, history, Kinds, Roles, Modes
<1>29. CASE UNCHANGED vars
  BY <1>29, Types, JournalTypes DEF vars, hardware, disk, policy, limiter, lease, history,
    Kinds, Roles, Modes
<1> QED
  BY <1>1, <1>2, <1>3, <1>4, <1>5, <1>6, <1>7, <1>8, <1>9, <1>10, <1>11, <1>12, <1>13, <1>14,
    <1>15, <1>16, <1>17, <1>18, <1>19, <1>20, <1>21, <1>22, <1>23, <1>24, <1>25, <1>26, <1>27,
    <1>28, <1>29 DEF Next, PrepareStep, RestoreStep, ReconcileStep

LEMMA CountsStep ==
  ASSUME TypeOK, [Next]_vars
  PROVE  Counts'
<1>1. ASSUME NEW mode \in Modes, Switch(mode) PROVE Counts'
  BY <1>1, Types, CountsUp DEF Switch, UserCalls, At, hardware, disk, policy, limiter, lease,
    history, Counts
<1>2. ASSUME NEW off \in BOOLEAN, Prefer(off) PROVE Counts'
  BY <1>2, Types, CountsUp DEF Prefer, UserCalls, At, hardware, disk, policy, limiter, lease,
    history, Counts
<1>3. CASE LeaseBegin
  BY <1>3, Types, CountsUp DEF LeaseBegin, At, hardware, disk, policy, limiter, lease, history,
    Counts
<1>4. CASE LeaseEnd
  BY <1>4, Types, CountsUp DEF LeaseEnd, At, hardware, disk, policy, limiter, lease, history,
    Counts
<1>5. CASE Poll
  BY <1>5, Types, CountsUp DEF Poll, hardware, disk, policy, limiter, lease, history, Counts
<1>6. ASSUME NEW ok \in BOOLEAN, SetPreference(ok) PROVE Counts'
  BY <1>6, Types, CountsUp DEF SetPreference, At, resume, release, TurnOff, Done, Continue,
    HistoryKept, hardware, disk, policy, limiter, lease, history, Counts
<1>7. ASSUME NEW ok \in BOOLEAN, RevertPreference(ok) PROVE Counts'
  BY <1>7, Types, CountsUp DEF RevertPreference, At, hold, resume, release, TurnOff, Done,
    HistoryKept, hardware, disk, policy, limiter, lease, history, Counts
<1>8. ASSUME NEW ok \in BOOLEAN, Reclaim(ok) PROVE Counts'
  BY <1>8, Types, CountsUp DEF Reclaim, At, hold, resume, release, TurnOff, Continue, GiveUp,
    Done, HistoryKept, hardware, disk, policy, limiter, lease, history, Counts
<1>9. ASSUME NEW ok \in BOOLEAN, Capture(ok) PROVE Counts'
  BY <1>9, Types, CountsUp DEF Capture, At, begin, capture, TurnOff, GiveUp, Done, HistoryKept,
    hardware, disk, policy, limiter, lease, history, Counts
<1>10. ASSUME NEW ok \in BOOLEAN, Save(ok) PROVE Counts'
  BY <1>10, Types, CountsUp DEF Save, At, save_journal, Record, Continue, GiveUp, Done,
    HistoryKept, hardware, disk, policy, limiter, lease, history, Counts
<1>11. ASSUME NEW ok \in BOOLEAN, Undo(ok) PROVE Counts'
  BY <1>11, Types, CountsUp DEF Undo, At, end, GiveUp, Done, HistoryKept, hardware, disk,
    policy, limiter, lease, history, Counts
<1>12. ASSUME NEW ok \in BOOLEAN, Allow(ok) PROVE Counts'
  BY <1>12, Types, CountsUp DEF Allow, At, release, Rollback, GiveUp, Done, Continue,
    HistoryKept, hardware, disk, policy, limiter, lease, history, Counts
<1>13. ASSUME NEW ok \in BOOLEAN, EnterSink(ok) PROVE Counts'
  BY <1>13, Types, CountsUp DEF EnterSink, At, r1_usb_role_set, Rollback, GiveUp, Done,
    Continue, HistoryKept, hardware, disk, policy, limiter, lease, history, Counts
<1>14. ASSUME NEW applied \in BOOLEAN, Gadget(applied) PROVE Counts'
  BY <1>14, Types, CountsUp DEF Gadget, At, HistoryKept, hardware, disk, policy, limiter, lease,
    history, Counts
<1>15. ASSUME NEW may \in BOOLEAN, Finish(may) PROVE Counts'
  BY <1>15, Types, CountsUp DEF Finish, At, MayBeBound, Continue, Done, HistoryKept, hardware,
    disk, policy, limiter, lease, history, Counts
<1>16. ASSUME NEW ok \in BOOLEAN, RestoreResume(ok) PROVE Counts'
  BY <1>16, Types, CountsUp DEF RestoreResume, At, resume, TurnOff, Then, EndRestore, Continue,
    Done, HistoryKept, hardware, disk, policy, limiter, lease, history, Counts
<1>17. ASSUME NEW ok \in BOOLEAN, RestoreRole(ok) PROVE Counts'
  BY <1>17, Types, CountsUp DEF RestoreRole, At, r1_usb_role_set, Then, EndRestore, Continue,
    Done, HistoryKept, hardware, disk, policy, limiter, lease, history, Counts
<1>18. ASSUME NEW ok \in BOOLEAN, RestoreRelease(ok) PROVE Counts'
  BY <1>18, Types, CountsUp DEF RestoreRelease, At, release, Then, EndRestore, Continue, Done,
    HistoryKept, hardware, disk, policy, limiter, lease, history, Counts
<1>19. ASSUME NEW ok \in BOOLEAN, RestoreRemove(ok) PROVE Counts'
  BY <1>19, Types, CountsUp DEF RestoreRemove, At, Record, EndRestore, Continue, Done,
    HistoryKept, hardware, disk, policy, limiter, lease, history, Counts
<1>20. ASSUME NEW may \in BOOLEAN, NothingRecorded(may) PROVE Counts'
  BY <1>20, Types, CountsUp DEF NothingRecorded, At, MayBeBound, Continue, Done, HistoryKept,
    hardware, disk, policy, limiter, lease, history, Counts
<1>21. ASSUME NEW may \in BOOLEAN, NEW ok \in BOOLEAN, Recorded(may, ok) PROVE Counts'
  BY <1>21, Types, CountsUp DEF Recorded, At, MayBeBound, Own, hold, resume, release, TurnOff,
    Continue, Done, HistoryKept, hardware, disk, policy, limiter, lease, history, Counts
<1>22. ASSUME NEW may \in BOOLEAN, NEW ok \in BOOLEAN, Unreadable(may, ok) PROVE Counts'
  BY <1>22, Types, CountsUp DEF Unreadable, At, MayBeBound, Own, hold, resume, release, TurnOff,
    Continue, HistoryKept, hardware, disk, policy, limiter, lease, history, Counts
<1>23. ASSUME NEW ok \in BOOLEAN, Discard(ok) PROVE Counts'
  BY <1>23, Types, CountsUp DEF Discard, At, Record, Done, HistoryKept, hardware, disk, policy,
    limiter, lease, history, Counts
<1>24. ASSUME NEW ok \in BOOLEAN, Retain(ok) PROVE Counts'
  BY <1>24, Types, CountsUp DEF Retain, At, Own, hold, resume, release, TurnOff, Continue,
    HistoryKept, hardware, disk, policy, limiter, lease, history, Counts
<1>25. ASSUME NEW ok \in BOOLEAN, Keep(ok) PROVE Counts'
  BY <1>25, Types, CountsUp DEF Keep, At, save_journal, Record, Continue, HistoryKept, hardware,
    disk, policy, limiter, lease, history, Counts
<1>26. ASSUME NEW ok \in BOOLEAN, Retained(ok) PROVE Counts'
  BY <1>26, Types, CountsUp DEF Retained, At, r1_usb_role_set, Done, HistoryKept, hardware,
    disk, policy, limiter, lease, history, Counts
<1>27. CASE PlayerRestarts
  BY <1>27, Types, CountsUp DEF PlayerRestarts, NextStart, Reconcile, hardware, disk, policy,
    limiter, lease, history, Counts
<1>28. CASE DeviceRestarts
  BY <1>28, Types, CountsUp DEF DeviceRestarts, NextStart, Reconcile, hardware, disk, policy,
    limiter, lease, history, Counts
<1>29. CASE UNCHANGED vars
  BY <1>29, Types, CountsUp DEF vars, hardware, disk, policy, limiter, lease, history, Counts
<1> QED
  BY <1>1, <1>2, <1>3, <1>4, <1>5, <1>6, <1>7, <1>8, <1>9, <1>10, <1>11, <1>12, <1>13, <1>14,
    <1>15, <1>16, <1>17, <1>18, <1>19, <1>20, <1>21, <1>22, <1>23, <1>24, <1>25, <1>26, <1>27,
    <1>28, <1>29 DEF Next, PrepareStep, RestoreStep, ReconcileStep

LEMMA OpTypeStep ==
  ASSUME TypeOK, [Next]_vars
  PROVE  OpType'
<1>1. ASSUME NEW mode \in Modes, Switch(mode) PROVE OpType'
  <2> DEFINE p == IF mode = "dac" THEN "reclaim" ELSE "gadget"
  <2>1. op' = [NoOp EXCEPT !.at = p, !.for = "switch", !.mode = mode, !.already = owned, !.ok = TRUE]
    BY <1>1 DEF Switch
  <2>2. p \in Places /\ owned \in BOOLEAN
    BY Types DEF Places, Flags
  <2> QED
    BY <2>1, <2>2, OpsClosed DEF OpType
<1>2. ASSUME NEW off \in BOOLEAN, Prefer(off) PROVE OpType'
  BY <1>2, Types, OpsClosed DEF Prefer, UserCalls, At, hardware, disk, policy, limiter, lease,
    history, OpType, Places
<1>3. CASE LeaseBegin
  BY <1>3, Types, OpsClosed DEF LeaseBegin, At, hardware, disk, policy, limiter, lease, history,
    OpType, Places
<1>4. CASE LeaseEnd
  BY <1>4, Types, OpsClosed DEF LeaseEnd, At, hardware, disk, policy, limiter, lease, history,
    OpType, Places
<1>5. CASE Poll
  BY <1>5, Types, OpsClosed DEF Poll, hardware, disk, policy, limiter, lease, history, OpType,
    Places
<1>6. ASSUME NEW ok \in BOOLEAN, SetPreference(ok) PROVE OpType'
  BY <1>6, Types, OpsClosed DEF SetPreference, At, resume, release, TurnOff, Done, Continue,
    HistoryKept, hardware, disk, policy, limiter, lease, history, OpType, Places
<1>7. ASSUME NEW ok \in BOOLEAN, RevertPreference(ok) PROVE OpType'
  BY <1>7, Types, OpsClosed DEF RevertPreference, At, hold, resume, release, TurnOff, Done,
    HistoryKept, hardware, disk, policy, limiter, lease, history, OpType, Places
<1>8. ASSUME NEW ok \in BOOLEAN, Reclaim(ok) PROVE OpType'
  BY <1>8, Types, OpsClosed DEF Reclaim, At, hold, resume, release, TurnOff, Continue, GiveUp,
    Done, HistoryKept, hardware, disk, policy, limiter, lease, history, OpType, Places
<1>9. ASSUME NEW ok \in BOOLEAN, Capture(ok) PROVE OpType'
  BY <1>9, Types, OpsClosed DEF Capture, At, begin, capture, TurnOff, GiveUp, Done, HistoryKept,
    hardware, disk, policy, limiter, lease, history, OpType, Places
<1>10. ASSUME NEW ok \in BOOLEAN, Save(ok) PROVE OpType'
  BY <1>10, Types, OpsClosed DEF Save, At, save_journal, Record, Continue, GiveUp, Done,
    HistoryKept, hardware, disk, policy, limiter, lease, history, OpType, Places
<1>11. ASSUME NEW ok \in BOOLEAN, Undo(ok) PROVE OpType'
  BY <1>11, Types, OpsClosed DEF Undo, At, end, GiveUp, Done, HistoryKept, hardware, disk,
    policy, limiter, lease, history, OpType, Places
<1>12. ASSUME NEW ok \in BOOLEAN, Allow(ok) PROVE OpType'
  BY <1>12, Types, OpsClosed DEF Allow, At, release, Rollback, GiveUp, Done, Continue,
    HistoryKept, hardware, disk, policy, limiter, lease, history, OpType, Places
<1>13. ASSUME NEW ok \in BOOLEAN, EnterSink(ok) PROVE OpType'
  BY <1>13, Types, OpsClosed DEF EnterSink, At, r1_usb_role_set, Rollback, GiveUp, Done,
    Continue, HistoryKept, hardware, disk, policy, limiter, lease, history, OpType, Places
<1>14. ASSUME NEW applied \in BOOLEAN, Gadget(applied) PROVE OpType'
  BY <1>14, Types, OpsClosed DEF Gadget, At, HistoryKept, hardware, disk, policy, limiter,
    lease, history, OpType, Places
<1>15. ASSUME NEW may \in BOOLEAN, Finish(may) PROVE OpType'
  BY <1>15, Types, OpsClosed DEF Finish, At, MayBeBound, Continue, Done, HistoryKept, hardware,
    disk, policy, limiter, lease, history, OpType, Places
<1>16. ASSUME NEW ok \in BOOLEAN, RestoreResume(ok) PROVE OpType'
  BY <1>16, Types, OpsClosed DEF RestoreResume, At, resume, TurnOff, Then, EndRestore, Continue,
    Done, HistoryKept, hardware, disk, policy, limiter, lease, history, OpType, Places
<1>17. ASSUME NEW ok \in BOOLEAN, RestoreRole(ok) PROVE OpType'
  BY <1>17, Types, OpsClosed DEF RestoreRole, At, r1_usb_role_set, Then, EndRestore, Continue,
    Done, HistoryKept, hardware, disk, policy, limiter, lease, history, OpType, Places
<1>18. ASSUME NEW ok \in BOOLEAN, RestoreRelease(ok) PROVE OpType'
  BY <1>18, Types, OpsClosed DEF RestoreRelease, At, release, Then, EndRestore, Continue, Done,
    HistoryKept, hardware, disk, policy, limiter, lease, history, OpType, Places
<1>19. ASSUME NEW ok \in BOOLEAN, RestoreRemove(ok) PROVE OpType'
  BY <1>19, Types, OpsClosed DEF RestoreRemove, At, Record, EndRestore, Continue, Done,
    HistoryKept, hardware, disk, policy, limiter, lease, history, OpType, Places
<1>20. ASSUME NEW may \in BOOLEAN, NothingRecorded(may) PROVE OpType'
  BY <1>20, Types, OpsClosed DEF NothingRecorded, At, MayBeBound, Continue, Done, HistoryKept,
    hardware, disk, policy, limiter, lease, history, OpType, Places
<1>21. ASSUME NEW may \in BOOLEAN, NEW ok \in BOOLEAN, Recorded(may, ok) PROVE OpType'
  <2>1. op' = [op EXCEPT !.at = "retained", !.ok = ok] \/ Goto("role") \/ op' = NoOp
    BY <1>21 DEF Recorded, Continue, Done
  <2> QED
    BY <2>1, Types, OpsClosed DEF OpType, Places
<1>22. ASSUME NEW may \in BOOLEAN, NEW ok \in BOOLEAN, Unreadable(may, ok) PROVE OpType'
  BY <1>22, Types, OpsClosed DEF Unreadable, At, MayBeBound, Own, hold, resume, release,
    TurnOff, Continue, HistoryKept, hardware, disk, policy, limiter, lease, history, OpType,
    Places
<1>23. ASSUME NEW ok \in BOOLEAN, Discard(ok) PROVE OpType'
  BY <1>23, Types, OpsClosed DEF Discard, At, Record, Done, HistoryKept, hardware, disk, policy,
    limiter, lease, history, OpType, Places
<1>24. ASSUME NEW ok \in BOOLEAN, Retain(ok) PROVE OpType'
  BY <1>24, Types, OpsClosed DEF Retain, At, Own, hold, resume, release, TurnOff, Continue,
    HistoryKept, hardware, disk, policy, limiter, lease, history, OpType, Places
<1>25. ASSUME NEW ok \in BOOLEAN, Keep(ok) PROVE OpType'
  BY <1>25, Types, OpsClosed DEF Keep, At, save_journal, Record, Continue, HistoryKept,
    hardware, disk, policy, limiter, lease, history, OpType, Places
<1>26. ASSUME NEW ok \in BOOLEAN, Retained(ok) PROVE OpType'
  BY <1>26, Types, OpsClosed DEF Retained, At, r1_usb_role_set, Done, HistoryKept, hardware,
    disk, policy, limiter, lease, history, OpType, Places
<1>27. CASE PlayerRestarts
  BY <1>27, Types, OpsClosed DEF PlayerRestarts, NextStart, Reconcile, hardware, disk, policy,
    limiter, lease, history, OpType, Places
<1>28. CASE DeviceRestarts
  BY <1>28, Types, OpsClosed DEF DeviceRestarts, NextStart, Reconcile, hardware, disk, policy,
    limiter, lease, history, OpType, Places
<1>29. CASE UNCHANGED vars
  BY <1>29, Types, OpsClosed DEF vars, hardware, disk, policy, limiter, lease, history, OpType,
    Places
<1> QED
  BY <1>1, <1>2, <1>3, <1>4, <1>5, <1>6, <1>7, <1>8, <1>9, <1>10, <1>11, <1>12, <1>13, <1>14,
    <1>15, <1>16, <1>17, <1>18, <1>19, <1>20, <1>21, <1>22, <1>23, <1>24, <1>25, <1>26, <1>27,
    <1>28, <1>29 DEF Next, PrepareStep, RestoreStep, ReconcileStep

LEMMA TypeStep ==
  ASSUME TypeOK, [Next]_vars
  PROVE  TypeOK'
<1>1. Flags' /\ Reports' /\ Kinds' /\ Counts' /\ OpType'
  BY FlagsStep, ReportsStep, KindsStep, CountsStep, OpTypeStep
<1> QED
  BY <1>1 DEF TypeOK, Flags, Reports, Kinds, Counts, OpType

(******************************************************************************)
(* What each step does, in the terms of the invariants.  The operation goes   *)
(* to another place, perhaps as failed, or ends.                              *)
(******************************************************************************)
Kept == op'.for = op.for /\ op'.mode = op.mode /\ op'.already = op.already
ToWith(p, b) == op'.at = p /\ Kept /\ op'.ok = b /\ op'.captured = op.captured /\ started' = started
To(p) == ToWith(p, op.ok)
ToCapture == op'.at = "capture" /\ Kept /\ op'.ok = op.ok /\ op'.captured /\ started' = started
Idle == /\ op'.at = "idle" /\ op'.for = "none"
        /\ ~op'.already /\ ~op'.ok /\ ~op'.captured
Ended(b) == Idle /\ (started' => b /\ bound = "dac")
GaveUp == \/ op.for = "reconcile" /\ ToWith("retain", FALSE)
          \/ op.for # "reconcile" /\ Ended(FALSE)
RolledBack == \/ op.already /\ GaveUp
              \/ ~op.already /\ ToWith("resume", FALSE)
RestoreEnded == \/ op.for = "reconcile" /\ ~op.ok /\ To("retain")
                \/ (op.for # "reconcile" \/ op.ok) /\ Ended(TRUE)
Starts == /\ op'.at = "begin" /\ op'.for = "reconcile" /\ op'.ok /\ ~op'.already /\ ~op'.captured
          /\ ~owned' /\ ~inhibited' /\ leases' = 0 /\ ~started' /\ base_role' = base_role /\ blind' = blind

LEMMA OpMoves ==
  ASSUME TypeOK
  PROVE  /\ \A p : Continue(p) => To(p)
         /\ \A p : Fail(p) => ToWith(p, FALSE)
         /\ \A b \in BOOLEAN : Done(b) => Ended(b)
         /\ GiveUp => GaveUp
         /\ Rollback => RolledBack
         /\ \A b \in BOOLEAN : EndRestore(b) => RestoreEnded
         /\ \A p : op' = [op EXCEPT !.at = p, !.captured = TRUE] /\ started' = started =>
              op'.at = p /\ Kept /\ op'.ok = op.ok /\ op'.captured
         /\ \A p : \A b \in BOOLEAN : op' = [op EXCEPT !.at = p, !.ok = b] /\ started' = started => ToWith(p, b)
         /\ op.ok \in BOOLEAN
<1>1. op \in Ops
  BY DEF TypeOK
<1>2. \A p : Continue(p) => To(p)
  BY <1>1 DEF Ops, Continue, Goto, To, ToWith, Kept
<1>3. \A p : Fail(p) => ToWith(p, FALSE)
  BY <1>1 DEF Ops, Fail, ToWith, Kept
<1>4. NoOp.at = "idle" /\ NoOp.for = "none" /\ ~NoOp.already /\ ~NoOp.ok /\ ~NoOp.captured
  BY DEF NoOp
<1>5. \A b \in BOOLEAN : Done(b) => Ended(b)
  BY <1>4 DEF Done, Ended, Idle
<1>6. GiveUp => GaveUp
  BY <1>3, <1>5 DEF GiveUp, GaveUp
<1>7. Rollback => RolledBack
  BY <1>3, <1>6 DEF Rollback, RolledBack
<1>8. \A b \in BOOLEAN : Ended(b) => Ended(TRUE)
  BY DEF Ended
<1>9. ASSUME NEW b \in BOOLEAN, EndRestore(b) PROVE RestoreEnded
  <2>1. (op.ok /\ b) \in BOOLEAN
    OBVIOUS
  <2>2. CASE op.for = "reconcile" /\ ~op.ok
    BY <1>2, <1>9, <2>2 DEF EndRestore, RestoreEnded
  <2>3. CASE ~(op.for = "reconcile" /\ ~op.ok)
    <3>1. Done(op.ok /\ b)
      BY <1>9, <2>3 DEF EndRestore
    <3> QED
      BY <1>5, <1>8, <2>1, <2>3, <3>1 DEF RestoreEnded
  <2> QED
    BY <2>2, <2>3
<1>10. \A p : op' = [op EXCEPT !.at = p, !.captured = TRUE] /\ started' = started =>
         op'.at = p /\ Kept /\ op'.ok = op.ok /\ op'.captured
  BY <1>1 DEF Ops, Kept
<1>11. \A p : \A b \in BOOLEAN : op' = [op EXCEPT !.at = p, !.ok = b] /\ started' = started => ToWith(p, b)
  BY <1>1 DEF Ops, Kept, ToWith
<1>12. op.ok \in BOOLEAN
  BY <1>1 DEF Ops
<1> QED
  BY <1>2, <1>3, <1>5, <1>6, <1>7, <1>9, <1>10, <1>11, <1>12

LEMMA RecordMoves ==
  ASSUME NEW j, NEW ok \in BOOLEAN, Record(j, ok)
  PROVE  /\ journal' = journal \/ journal' = j
         /\ \A s \in survivors' : s \in survivors \/ s = j
         /\ ok => journal' = j
  BY DEF Record, disk

LEMMA SwitchMoves ==
  ASSUME TypeOK, NEW mode \in Modes, Switch(mode)
  PROVE  /\ op.at = "idle" /\ leases = 0 /\ op'.at \in {"reclaim", "gadget"} /\ op'.for =
                 "switch"
         /\ op'.at = "gadget" => op'.mode # "dac"
         /\ op'.already = owned /\ op'.ok /\ ~op'.captured
         /\ UNCHANGED <<role, charger, bound, journal, survivors, owned, saved_role, disabled,
                         inhibited, leases, base_role, blind, started>>
  BY OpMoves DEF Switch, UserCalls, At, hardware, disk, policy, limiter, lease, history, NoOp

LEMMA PreferMoves ==
  ASSUME TypeOK, NEW off \in BOOLEAN, Prefer(off)
  PROVE  /\ op.at = "idle"
         /\ UNCHANGED <<role, charger, bound, journal, survivors, owned, saved_role,
                         inhibited, leases, base_role, blind, started>>
         /\ \/ /\ owned /\ disabled' = disabled /\ op'.at = "preference" /\ op'.for = "preference"
               /\ ~op'.already /\ ~op'.captured
            \/ ~owned /\ op' = op
  BY OpMoves DEF Prefer, UserCalls, At, hardware, disk, policy, limiter, lease, history, NoOp

LEMMA SetPreferenceMoves ==
  ASSUME TypeOK, NEW ok \in BOOLEAN, SetPreference(ok)
  PROVE  /\ op.at = "preference"
         /\ UNCHANGED <<role, bound, journal, survivors, owned, saved_role, leases, base_role,
                         blind>>
         /\ \/ inhibited' /\ ~charger' /\ Ended(started)
            \/ ~disabled' /\ Ended(started)
            \/ disabled' = disabled /\ To("revert")
<1>1. /\ op.at = "preference"
      /\ UNCHANGED <<role, bound, journal, survivors, owned, saved_role, leases, base_role, blind>>
  BY DEF SetPreference, At, HistoryKept, hardware, disk, policy, limiter, lease, history
<1>2. started \in BOOLEAN
  BY Types DEF Reports
<1>3. CASE ok /\ op.ok
  BY <1>1, <1>2, <1>3, OpMoves DEF SetPreference, resume, TurnOff
<1>4. CASE ok /\ ~op.ok
  BY <1>1, <1>2, <1>4, OpMoves DEF SetPreference
<1>5. CASE ~ok
  BY <1>1, <1>5, OpMoves DEF SetPreference
<1> QED
  BY <1>3, <1>4, <1>5

LEMMA RevertPreferenceMoves ==
  ASSUME TypeOK, NEW ok \in BOOLEAN, RevertPreference(ok)
  PROVE  /\ op.at = "revert" /\ Ended(FALSE) /\ (disabled => inhibited')
         /\ UNCHANGED <<role, bound, journal, survivors, owned, saved_role, disabled, leases,
                         base_role, blind>>
  BY OpMoves DEF RevertPreference, At, hold, resume, release, TurnOff, HistoryKept, hardware,
    disk, policy, limiter, lease, history

LEMMA ReclaimMoves ==
  ASSUME TypeOK, NEW ok \in BOOLEAN, Reclaim(ok)
  PROVE  /\ op.at = "reclaim"
         /\ UNCHANGED <<role, bound, journal, survivors, owned, disabled, leases, base_role,
                         blind>>
         /\ \/ owned /\ saved_role' = saved_role /\ (disabled => inhibited' /\ ~charger') /\ To("save")
            \/ owned /\ saved_role' = saved_role /\ (disabled => inhibited') /\ GaveUp
            \/ ~owned /\ inhibited' = inhibited /\ saved_role' = role /\ ToCapture
            \/ ~owned /\ inhibited' = inhibited /\ saved_role' = saved_role /\ GaveUp
  BY OpMoves DEF Reclaim, At, hold, resume, release, TurnOff, HistoryKept, hardware, disk,
    policy, limiter, lease, history, ToCapture

LEMMA CaptureMoves ==
  ASSUME TypeOK, NEW ok \in BOOLEAN, Capture(ok)
  PROVE  /\ op.at = "capture"
         /\ UNCHANGED <<role, bound, journal, survivors, saved_role, disabled, leases,
                         base_role, blind>>
         /\ \/ owned' /\ (ok /\ disabled => inhibited' /\ ~charger') /\ ToWith("save", ok)
            \/ owned' = owned /\ ~inhibited' /\ GaveUp
<1>1. /\ op.at = "capture"
      /\ UNCHANGED <<role, bound, journal, survivors, saved_role, disabled, leases, base_role, blind>>
  BY DEF Capture, At, HistoryKept, hardware, disk, policy, limiter, lease, history
<1>2. CASE ok \/ (disabled /\ inhibited')
  <2>1. owned' /\ ToWith("save", ok)
    BY <1>2, OpMoves DEF Capture
  <2>2. ok /\ disabled => inhibited' /\ ~charger'
    BY DEF Capture, begin, TurnOff, limiter
  <2> QED
    BY <1>1, <2>1, <2>2
<1>3. CASE ~(ok \/ (disabled /\ inhibited'))
  <2>1. owned' = owned /\ GaveUp
    BY <1>3, OpMoves DEF Capture
  <2>2. ~inhibited'
    BY <1>3 DEF Capture, capture
  <2> QED
    BY <1>1, <2>1, <2>2
<1> QED
  BY <1>2, <1>3

LEMMA SaveMoves ==
  ASSUME TypeOK, NEW ok \in BOOLEAN, Save(ok)
  PROVE  /\ op.at = "save"
         /\ UNCHANGED <<role, charger, bound, owned, saved_role, disabled, inhibited, leases,
                         base_role, blind>>
         /\ journal' = journal \/ journal'.role = saved_role
         /\ \A j \in survivors' : j \in survivors \/ j.role = saved_role
         /\ \/ journal'.role = saved_role /\ To("allow")
            \/ op.already /\ GaveUp
            \/ ~op.already /\ To("undo")
<1>1. save_journal(ok)
  BY DEF Save
<1>2. /\ journal' = journal \/ journal'.role = saved_role
      /\ \A j \in survivors' : j \in survivors \/ j.role = saved_role
      /\ ok => journal'.role = saved_role
  BY <1>1, RecordMoves DEF save_journal
<1>3. /\ op.at = "save"
      /\ UNCHANGED <<role, charger, bound, owned, saved_role, disabled, inhibited, leases, base_role, blind>>
  BY DEF Save, At, HistoryKept, hardware, disk, policy, limiter, lease, history
<1>4. CASE ok
  BY <1>2, <1>3, <1>4, OpMoves DEF Save
<1>5. CASE ~ok /\ op.already
  BY <1>2, <1>3, <1>5, OpMoves DEF Save
<1>6. CASE ~ok /\ ~op.already
  BY <1>2, <1>3, <1>6, OpMoves DEF Save
<1> QED
  BY <1>4, <1>5, <1>6

LEMMA UndoMoves ==
  ASSUME TypeOK, NEW ok \in BOOLEAN, Undo(ok)
  PROVE  /\ op.at = "undo" /\ (inhibited' => owned') /\ GaveUp
         /\ UNCHANGED <<role, bound, journal, survivors, saved_role, disabled, leases,
                         base_role, blind>>
  BY OpMoves DEF Undo, At, end, HistoryKept, hardware, disk, policy, limiter, lease, history

LEMMA AllowMoves ==
  ASSUME TypeOK, NEW ok \in BOOLEAN, Allow(ok)
  PROVE  /\ op.at = "allow" /\ (disabled => inhibited' = inhibited /\ charger' = charger)
         /\ UNCHANGED <<role, bound, journal, survivors, owned, saved_role, disabled, leases,
                         base_role, blind>>
         /\ \/ op.ok /\ To("sink")
            \/ ~disabled /\ GaveUp
            \/ RolledBack
  BY OpMoves DEF Allow, At, release, HistoryKept, hardware, disk, policy, limiter, lease,
    history

LEMMA EnterSinkMoves ==
  ASSUME TypeOK, NEW ok \in BOOLEAN, EnterSink(ok)
  PROVE  /\ op.at = "sink" /\ role' \in {role, "Sink"}
         /\ UNCHANGED <<charger, bound, journal, survivors, owned, saved_role, disabled,
                         inhibited, leases, base_role, blind>>
         /\ \/ role' = "Sink" /\ op.for = "reconcile" /\ Ended(TRUE)
            \/ role' = "Sink" /\ op.for # "reconcile" /\ To("gadget")
            \/ RolledBack
  BY OpMoves DEF EnterSink, At, r1_usb_role_set, HistoryKept, hardware, disk, policy, limiter,
    lease, history

LEMMA GadgetMoves ==
  ASSUME TypeOK, NEW applied \in BOOLEAN, Gadget(applied)
  PROVE  /\ op.at = "gadget" /\ bound' \in {bound, "none", op.mode} /\ (applied => bound' =
                 op.mode)
         /\ ToWith("finish", applied)
         /\ UNCHANGED <<role, charger, journal, survivors, owned, saved_role, disabled,
                         inhibited, leases, base_role, blind>>
  BY OpMoves DEF Gadget, At, HistoryKept, hardware, disk, policy, limiter, lease, history

LEMMA FinishMoves ==
  ASSUME TypeOK, NEW may \in BOOLEAN, Finish(may)
  PROVE  /\ op.at = "finish"
         /\ UNCHANGED <<role, charger, bound, journal, survivors, owned, saved_role, disabled,
                         inhibited, leases, base_role, blind>>
         /\ \/ owned /\ bound # "dac" /\ To("resume")
            \/ Ended(op.ok)
  BY OpMoves DEF Finish, At, MayBeBound, HistoryKept, hardware, disk, policy, limiter, lease,
    history

LEMMA RestoreResumeMoves ==
  ASSUME TypeOK, NEW ok \in BOOLEAN, RestoreResume(ok)
  PROVE  /\ op.at = "resume" /\ inhibited'
         /\ UNCHANGED <<role, bound, journal, survivors, owned, saved_role, disabled, leases,
                         base_role, blind>>
         /\ To("role") \/ RestoreEnded
  BY OpMoves DEF RestoreResume, At, resume, TurnOff, Then, HistoryKept, hardware, disk, policy,
    limiter, lease, history

LEMMA RestoreRoleMoves ==
  ASSUME TypeOK, NEW ok \in BOOLEAN, RestoreRole(ok)
  PROVE  /\ op.at = "role" /\ role' \in {role, saved_role}
         /\ UNCHANGED <<charger, bound, journal, survivors, owned, saved_role, disabled,
                         inhibited, leases, base_role, blind>>
         /\ (role' = saved_role /\ To("release")) \/ RestoreEnded
  BY OpMoves DEF RestoreRole, At, r1_usb_role_set, Then, HistoryKept, hardware, disk, policy,
    limiter, lease, history

LEMMA RestoreReleaseMoves ==
  ASSUME TypeOK, NEW ok \in BOOLEAN, RestoreRelease(ok)
  PROVE  /\ op.at = "release"
         /\ UNCHANGED <<role, bound, journal, survivors, owned, saved_role, disabled, leases,
                         base_role, blind>>
         /\ (~inhibited' /\ To("remove")) \/ RestoreEnded
  BY OpMoves DEF RestoreRelease, At, release, Then, HistoryKept, hardware, disk, policy,
    limiter, lease, history

LEMMA RestoreRemoveMoves ==
  ASSUME TypeOK, NEW ok \in BOOLEAN, RestoreRemove(ok)
  PROVE  /\ op.at = "remove" /\ RestoreEnded
         /\ UNCHANGED <<role, charger, bound, saved_role, disabled, inhibited, leases,
                         base_role, blind>>
         /\ owned' \in {owned, FALSE, TRUE}
         /\ \A j \in survivors' : j \in survivors \/ j.role = "none"
<1>1. \A j \in survivors' : j \in survivors \/ j.role = "none"
  BY RecordMoves DEF RestoreRemove, Absent
<1>2. /\ op.at = "remove" /\ owned' \in {owned, FALSE, TRUE}
      /\ UNCHANGED <<role, charger, bound, saved_role, disabled, inhibited, leases, base_role, blind>>
  BY DEF RestoreRemove, At, HistoryKept, hardware, disk, policy, limiter, lease, history
<1>3. RestoreEnded
  BY OpMoves DEF RestoreRemove
<1> QED
  BY <1>1, <1>2, <1>3

LEMMA NothingRecordedMoves ==
  ASSUME TypeOK, NEW may \in BOOLEAN, NothingRecorded(may)
  PROVE  /\ op.at = "begin" /\ journal = Absent
         /\ UNCHANGED <<role, charger, bound, journal, survivors, owned, saved_role, disabled,
                         inhibited, leases, base_role, blind>>
         /\ To("reclaim") \/ (bound # "dac" /\ Ended(TRUE))
<1>1. op.at = "begin" /\ journal = Absent /\ MayBeBound(may)
  BY DEF NothingRecorded, At
<1>2. UNCHANGED <<role, charger, bound, journal, survivors, owned, saved_role, disabled, inhibited, leases,
                  base_role, blind>>
  BY DEF NothingRecorded, At, HistoryKept, hardware, disk, policy, limiter, lease, history
<1>3. CASE may
  <2>1. Continue("reclaim")
    BY <1>3 DEF NothingRecorded
  <2>2. To("reclaim")
    BY <2>1, OpMoves
  <2> QED
    BY <1>1, <1>2, <2>2
<1>4. CASE ~may
  <2>1. Done(TRUE)
    BY <1>4 DEF NothingRecorded
  <2>2. Ended(TRUE)
    BY <2>1, OpMoves
  <2> QED
    BY <1>1, <1>2, <1>4, <2>2 DEF MayBeBound
<1> QED
  BY <1>3, <1>4

LEMMA RecordedMoves ==
  ASSUME TypeOK, NEW may \in BOOLEAN, NEW ok \in BOOLEAN, Recorded(may, ok)
  PROVE  /\ op.at = "begin" /\ journal # Absent /\ owned' /\ saved_role' = journal.role
         /\ UNCHANGED <<role, bound, journal, survivors, disabled, leases, base_role, blind>>
         /\ \/ (disabled => inhibited') /\ (ok /\ disabled => ~charger') /\ ToWith("retained", ok)
            \/ bound # "dac" /\ To("role")
            \/ bound # "dac" /\ Ended(FALSE)
<1>1. /\ op.at = "begin" /\ journal # Absent /\ MayBeBound(may) /\ owned' /\ saved_role' = journal.role
      /\ UNCHANGED <<role, bound, journal, survivors, disabled, leases, base_role, blind>>
  BY DEF Recorded, Own, At, HistoryKept, hardware, disk, policy, limiter, lease, history
<1>2. CASE may
  <2>1. ToWith("retained", ok)
    BY <1>2, OpMoves DEF Recorded
  <2>2. (disabled => inhibited') /\ (ok /\ disabled => ~charger')
    BY <1>2 DEF Recorded, hold, resume, TurnOff
  <2> QED
    BY <1>1, <2>1, <2>2
<1>3. CASE ~may
  <2>1. To("role") \/ Ended(FALSE)
    BY <1>3, OpMoves DEF Recorded
  <2> QED
    BY <1>1, <1>3, <2>1 DEF MayBeBound
<1> QED
  BY <1>2, <1>3

LEMMA UnreadableMoves ==
  ASSUME TypeOK, NEW may \in BOOLEAN, NEW ok \in BOOLEAN, Unreadable(may, ok)
  PROVE  /\ op.at = "begin" /\ blind'
         /\ UNCHANGED <<role, bound, journal, survivors, disabled, leases, base_role>>
         /\ \/ owned' /\ (disabled => inhibited') /\ ToWith("retained", FALSE)
            \/ bound # "dac" /\ UNCHANGED <<owned, inhibited>> /\ To("discard")
  BY OpMoves DEF Unreadable, At, MayBeBound, Own, hold, resume, release, TurnOff, HistoryKept,
    hardware, disk, policy, limiter, lease, history

LEMMA DiscardMoves ==
  ASSUME TypeOK, NEW ok \in BOOLEAN, Discard(ok)
  PROVE  /\ op.at = "discard" /\ Ended(TRUE)
         /\ UNCHANGED <<role, charger, bound, owned, saved_role, disabled, inhibited, leases,
                         base_role, blind>>
<1>1. Ended(ok) => Ended(TRUE)
  BY DEF Ended
<1>2. Ended(ok)
  BY OpMoves DEF Discard
<1> QED
  BY <1>1, <1>2 DEF Discard, At, HistoryKept, hardware, disk, policy, limiter, lease, history

LEMMA RetainMoves ==
  ASSUME TypeOK, NEW ok \in BOOLEAN, Retain(ok)
  PROVE  /\ op.at = "retain" /\ owned' /\ (disabled => inhibited') /\ To("keep")
         /\ ~blind' => ~blind /\ (owned \/ op.captured) /\ saved_role' = saved_role
         /\ UNCHANGED <<role, bound, journal, survivors, disabled, leases, base_role>>
  BY OpMoves DEF Retain, At, Own, hold, resume, release, TurnOff, HistoryKept, hardware, disk,
    policy, limiter, lease, history

LEMMA KeepMoves ==
  ASSUME TypeOK, NEW ok \in BOOLEAN, Keep(ok)
  PROVE  /\ op.at = "keep" /\ To("retained")
         /\ ~blind' => ~blind /\ journal'.role = saved_role
         /\ \A j \in survivors' : j \in survivors \/ j.role = saved_role
         /\ UNCHANGED <<role, charger, bound, owned, saved_role, disabled, inhibited, leases,
                         base_role>>
<1>1. save_journal(ok)
  BY DEF Keep
<1>2. /\ journal' = journal \/ journal'.role = saved_role
      /\ \A j \in survivors' : j \in survivors \/ j.role = saved_role
      /\ ok => journal'.role = saved_role
  BY <1>1, RecordMoves DEF save_journal
<1>3. /\ op.at = "keep" /\ To("retained") /\ (~blind' => ~blind /\ ok)
      /\ UNCHANGED <<role, charger, bound, owned, saved_role, disabled, inhibited, leases, base_role>>
  BY OpMoves DEF Keep, At, HistoryKept, hardware, disk, policy, limiter, lease, history
<1> QED
  BY <1>2, <1>3

LEMMA RetainedMoves ==
  ASSUME TypeOK, NEW ok \in BOOLEAN, Retained(ok)
  PROVE  /\ op.at = "retained" /\ role' \in {role, "Sink"}
         /\ UNCHANGED <<charger, bound, journal, survivors, owned, saved_role, disabled,
                         inhibited, leases, base_role, blind>>
         /\ (role' = "Sink" /\ Ended(op.ok)) \/ Ended(FALSE)
  BY OpMoves DEF Retained, At, r1_usb_role_set, HistoryKept, hardware, disk, policy, limiter,
    lease, history

LEMMA PlayerRestartsMoves ==
  ASSUME TypeOK, PlayerRestarts
  PROVE  /\ Starts
         /\ UNCHANGED <<role, bound, journal, survivors>>
  BY OpMoves DEF PlayerRestarts, NextStart, Reconcile, hardware, disk, policy, limiter, lease,
    history, Starts, NoOp

LEMMA DeviceRestartsMoves ==
  ASSUME TypeOK, DeviceRestarts
  PROVE  /\ Starts
         /\ role' = base_role /\ bound' = "none" /\ journal' \in survivors /\ survivors'
                 \subseteq survivors
  BY OpMoves DEF DeviceRestarts, NextStart, Reconcile, hardware, disk, policy, limiter, lease,
    history, Starts, NoOp

(******************************************************************************)
(* The steps keep the invariant, part by part.                                *)
(******************************************************************************)
LEMMA SurvivesStep ==
  ASSUME TypeOK, Survives, [Next]_vars
  PROVE  Survives'
<1>1. ASSUME NEW j, NEW ok \in BOOLEAN, Record(j, ok) PROVE Survives'
  BY <1>1 DEF Record, disk, Survives
<1>2. CASE UNCHANGED <<journal, survivors>>
  BY <1>2 DEF Survives
<1>3. ASSUME NEW mode \in Modes, Switch(mode) PROVE Survives'
  BY <1>2, <1>3, SwitchMoves
<1>4. ASSUME NEW off \in BOOLEAN, Prefer(off) PROVE Survives'
  BY <1>2, <1>4, PreferMoves
<1>5. CASE LeaseBegin
  BY <1>2, <1>5 DEF LeaseBegin, disk
<1>6. CASE LeaseEnd
  BY <1>2, <1>6 DEF LeaseEnd, disk
<1>7. CASE Poll
  BY <1>2, <1>7 DEF Poll, disk
<1>8. ASSUME NEW ok \in BOOLEAN, SetPreference(ok) PROVE Survives'
  BY <1>2, <1>8, SetPreferenceMoves
<1>9. ASSUME NEW ok \in BOOLEAN, RevertPreference(ok) PROVE Survives'
  BY <1>2, <1>9, RevertPreferenceMoves
<1>10. ASSUME NEW ok \in BOOLEAN, Reclaim(ok) PROVE Survives'
  BY <1>2, <1>10, ReclaimMoves
<1>11. ASSUME NEW ok \in BOOLEAN, Capture(ok) PROVE Survives'
  BY <1>2, <1>11, CaptureMoves
<1>12. ASSUME NEW ok \in BOOLEAN, Save(ok) PROVE Survives'
  BY <1>1, <1>12 DEF Save, save_journal
<1>13. ASSUME NEW ok \in BOOLEAN, Undo(ok) PROVE Survives'
  BY <1>2, <1>13, UndoMoves
<1>14. ASSUME NEW ok \in BOOLEAN, Allow(ok) PROVE Survives'
  BY <1>2, <1>14, AllowMoves
<1>15. ASSUME NEW ok \in BOOLEAN, EnterSink(ok) PROVE Survives'
  BY <1>2, <1>15, EnterSinkMoves
<1>16. ASSUME NEW applied \in BOOLEAN, Gadget(applied) PROVE Survives'
  BY <1>2, <1>16, GadgetMoves
<1>17. ASSUME NEW may \in BOOLEAN, Finish(may) PROVE Survives'
  BY <1>2, <1>17, FinishMoves
<1>18. ASSUME NEW ok \in BOOLEAN, RestoreResume(ok) PROVE Survives'
  BY <1>2, <1>18, RestoreResumeMoves
<1>19. ASSUME NEW ok \in BOOLEAN, RestoreRole(ok) PROVE Survives'
  BY <1>2, <1>19, RestoreRoleMoves
<1>20. ASSUME NEW ok \in BOOLEAN, RestoreRelease(ok) PROVE Survives'
  BY <1>2, <1>20, RestoreReleaseMoves
<1>21. ASSUME NEW ok \in BOOLEAN, RestoreRemove(ok) PROVE Survives'
  BY <1>1, <1>21 DEF RestoreRemove
<1>22. ASSUME NEW may \in BOOLEAN, NothingRecorded(may) PROVE Survives'
  BY <1>2, <1>22, NothingRecordedMoves
<1>23. ASSUME NEW may \in BOOLEAN, NEW ok \in BOOLEAN, Recorded(may, ok) PROVE Survives'
  BY <1>2, <1>23, RecordedMoves
<1>24. ASSUME NEW may \in BOOLEAN, NEW ok \in BOOLEAN, Unreadable(may, ok) PROVE Survives'
  BY <1>2, <1>24, UnreadableMoves
<1>25. ASSUME NEW ok \in BOOLEAN, Discard(ok) PROVE Survives'
  BY <1>1, <1>25 DEF Discard
<1>26. ASSUME NEW ok \in BOOLEAN, Retain(ok) PROVE Survives'
  BY <1>2, <1>26, RetainMoves
<1>27. ASSUME NEW ok \in BOOLEAN, Keep(ok) PROVE Survives'
  BY <1>1, <1>27 DEF Keep, save_journal
<1>28. ASSUME NEW ok \in BOOLEAN, Retained(ok) PROVE Survives'
  BY <1>2, <1>28, RetainedMoves
<1>29. CASE PlayerRestarts
  BY <1>2, <1>29, PlayerRestartsMoves
<1>30. CASE DeviceRestarts
  BY <1>30 DEF DeviceRestarts, Survives
<1>31. CASE UNCHANGED vars
  BY <1>2, <1>31 DEF vars, disk
<1> QED
  BY <1>3, <1>4, <1>5, <1>6, <1>7, <1>8, <1>9, <1>10, <1>11, <1>12, <1>13, <1>14, <1>15, <1>16,
    <1>17, <1>18, <1>19, <1>20, <1>21, <1>22, <1>23, <1>24, <1>25, <1>26, <1>27, <1>28, <1>29,
    <1>30, <1>31 DEF Next, PrepareStep, RestoreStep, ReconcileStep

LEMMA ShapeStep ==
  ASSUME TypeOK, Shape, [Next]_vars
  PROVE  Shape'
<1>1. ASSUME NEW mode \in Modes, Switch(mode) PROVE Shape'
  BY <1>1, SwitchMoves DEF Shape, Switching, Reconciling, Prepare, Restore, To, ToWith, Kept,
    Ended, Idle, GaveUp, RolledBack, RestoreEnded, ToCapture, Starts
<1>2. ASSUME NEW off \in BOOLEAN, Prefer(off) PROVE Shape'
  BY <1>2, PreferMoves DEF Shape, Switching, Reconciling, Prepare, Restore, To, ToWith, Kept,
    Ended, Idle, GaveUp, RolledBack, RestoreEnded, ToCapture, Starts
<1>3. CASE LeaseBegin
  BY <1>3 DEF LeaseBegin, At, hardware, disk, policy, limiter, lease, history, Shape, Switching,
    Reconciling, Prepare, Restore, To, ToWith, Kept, Ended, Idle, GaveUp, RolledBack,
    RestoreEnded, ToCapture, Starts
<1>4. CASE LeaseEnd
  BY <1>4 DEF LeaseEnd, At, hardware, disk, policy, limiter, lease, history, Shape, Switching,
    Reconciling, Prepare, Restore, To, ToWith, Kept, Ended, Idle, GaveUp, RolledBack,
    RestoreEnded, ToCapture, Starts
<1>5. CASE Poll
  BY <1>5 DEF Poll, hardware, disk, policy, limiter, lease, history, Shape, Switching,
    Reconciling, Prepare, Restore, To, ToWith, Kept, Ended, Idle, GaveUp, RolledBack,
    RestoreEnded, ToCapture, Starts
<1>6. ASSUME NEW ok \in BOOLEAN, SetPreference(ok) PROVE Shape'
  BY <1>6, SetPreferenceMoves DEF Shape, Switching, Reconciling, Prepare, Restore, To, ToWith,
    Kept, Ended, Idle, GaveUp, RolledBack, RestoreEnded, ToCapture, Starts
<1>7. ASSUME NEW ok \in BOOLEAN, RevertPreference(ok) PROVE Shape'
  BY <1>7, RevertPreferenceMoves DEF Shape, Switching, Reconciling, Prepare, Restore, To,
    ToWith, Kept, Ended, Idle, GaveUp, RolledBack, RestoreEnded, ToCapture, Starts
<1>8. ASSUME NEW ok \in BOOLEAN, Reclaim(ok) PROVE Shape'
  BY <1>8, ReclaimMoves DEF Shape, Switching, Reconciling, Prepare, Restore, To, ToWith, Kept,
    Ended, Idle, GaveUp, RolledBack, RestoreEnded, ToCapture, Starts
<1>9. ASSUME NEW ok \in BOOLEAN, Capture(ok) PROVE Shape'
  BY <1>9, CaptureMoves DEF Shape, Switching, Reconciling, Prepare, Restore, To, ToWith, Kept,
    Ended, Idle, GaveUp, RolledBack, RestoreEnded, ToCapture, Starts
<1>10. ASSUME NEW ok \in BOOLEAN, Save(ok) PROVE Shape'
  BY <1>10, SaveMoves DEF Shape, Switching, Reconciling, Prepare, Restore, To, ToWith, Kept,
    Ended, Idle, GaveUp, RolledBack, RestoreEnded, ToCapture, Starts
<1>11. ASSUME NEW ok \in BOOLEAN, Undo(ok) PROVE Shape'
  BY <1>11, UndoMoves DEF Shape, Switching, Reconciling, Prepare, Restore, To, ToWith, Kept,
    Ended, Idle, GaveUp, RolledBack, RestoreEnded, ToCapture, Starts
<1>12. ASSUME NEW ok \in BOOLEAN, Allow(ok) PROVE Shape'
  BY <1>12, AllowMoves DEF Shape, Switching, Reconciling, Prepare, Restore, To, ToWith, Kept,
    Ended, Idle, GaveUp, RolledBack, RestoreEnded, ToCapture, Starts
<1>13. ASSUME NEW ok \in BOOLEAN, EnterSink(ok) PROVE Shape'
  BY <1>13, EnterSinkMoves DEF Shape, Switching, Reconciling, Prepare, Restore, To, ToWith,
    Kept, Ended, Idle, GaveUp, RolledBack, RestoreEnded, ToCapture, Starts
<1>14. ASSUME NEW applied \in BOOLEAN, Gadget(applied) PROVE Shape'
  BY <1>14, GadgetMoves DEF Shape, Switching, Reconciling, Prepare, Restore, To, ToWith, Kept,
    Ended, Idle, GaveUp, RolledBack, RestoreEnded, ToCapture, Starts
<1>15. ASSUME NEW may \in BOOLEAN, Finish(may) PROVE Shape'
  BY <1>15, FinishMoves DEF Shape, Switching, Reconciling, Prepare, Restore, To, ToWith, Kept,
    Ended, Idle, GaveUp, RolledBack, RestoreEnded, ToCapture, Starts
<1>16. ASSUME NEW ok \in BOOLEAN, RestoreResume(ok) PROVE Shape'
  BY <1>16, RestoreResumeMoves DEF Shape, Switching, Reconciling, Prepare, Restore, To, ToWith,
    Kept, Ended, Idle, GaveUp, RolledBack, RestoreEnded, ToCapture, Starts
<1>17. ASSUME NEW ok \in BOOLEAN, RestoreRole(ok) PROVE Shape'
  BY <1>17, RestoreRoleMoves DEF Shape, Switching, Reconciling, Prepare, Restore, To, ToWith,
    Kept, Ended, Idle, GaveUp, RolledBack, RestoreEnded, ToCapture, Starts
<1>18. ASSUME NEW ok \in BOOLEAN, RestoreRelease(ok) PROVE Shape'
  BY <1>18, RestoreReleaseMoves DEF Shape, Switching, Reconciling, Prepare, Restore, To, ToWith,
    Kept, Ended, Idle, GaveUp, RolledBack, RestoreEnded, ToCapture, Starts
<1>19. ASSUME NEW ok \in BOOLEAN, RestoreRemove(ok) PROVE Shape'
  BY <1>19, RestoreRemoveMoves DEF Shape, Switching, Reconciling, Prepare, Restore, To, ToWith,
    Kept, Ended, Idle, GaveUp, RolledBack, RestoreEnded, ToCapture, Starts
<1>20. ASSUME NEW may \in BOOLEAN, NothingRecorded(may) PROVE Shape'
  BY <1>20, NothingRecordedMoves DEF Shape, Switching, Reconciling, Prepare, Restore, To,
    ToWith, Kept, Ended, Idle, GaveUp, RolledBack, RestoreEnded, ToCapture, Starts
<1>21. ASSUME NEW may \in BOOLEAN, NEW ok \in BOOLEAN, Recorded(may, ok) PROVE Shape'
  BY <1>21, RecordedMoves DEF Shape, Switching, Reconciling, Prepare, Restore, To, ToWith, Kept,
    Ended, Idle, GaveUp, RolledBack, RestoreEnded, ToCapture, Starts
<1>22. ASSUME NEW may \in BOOLEAN, NEW ok \in BOOLEAN, Unreadable(may, ok) PROVE Shape'
  BY <1>22, UnreadableMoves DEF Shape, Switching, Reconciling, Prepare, Restore, To, ToWith,
    Kept, Ended, Idle, GaveUp, RolledBack, RestoreEnded, ToCapture, Starts
<1>23. ASSUME NEW ok \in BOOLEAN, Discard(ok) PROVE Shape'
  BY <1>23, DiscardMoves DEF Shape, Switching, Reconciling, Prepare, Restore, To, ToWith, Kept,
    Ended, Idle, GaveUp, RolledBack, RestoreEnded, ToCapture, Starts
<1>24. ASSUME NEW ok \in BOOLEAN, Retain(ok) PROVE Shape'
  BY <1>24, RetainMoves DEF Shape, Switching, Reconciling, Prepare, Restore, To, ToWith, Kept,
    Ended, Idle, GaveUp, RolledBack, RestoreEnded, ToCapture, Starts
<1>25. ASSUME NEW ok \in BOOLEAN, Keep(ok) PROVE Shape'
  BY <1>25, KeepMoves DEF Shape, Switching, Reconciling, Prepare, Restore, To, ToWith, Kept,
    Ended, Idle, GaveUp, RolledBack, RestoreEnded, ToCapture, Starts
<1>26. ASSUME NEW ok \in BOOLEAN, Retained(ok) PROVE Shape'
  BY <1>26, RetainedMoves DEF Shape, Switching, Reconciling, Prepare, Restore, To, ToWith, Kept,
    Ended, Idle, GaveUp, RolledBack, RestoreEnded, ToCapture, Starts
<1>27. CASE PlayerRestarts
  BY <1>27, PlayerRestartsMoves DEF Shape, Switching, Reconciling, Prepare, Restore, To, ToWith,
    Kept, Ended, Idle, GaveUp, RolledBack, RestoreEnded, ToCapture, Starts
<1>28. CASE DeviceRestarts
  BY <1>28, DeviceRestartsMoves DEF Shape, Switching, Reconciling, Prepare, Restore, To, ToWith,
    Kept, Ended, Idle, GaveUp, RolledBack, RestoreEnded, ToCapture, Starts
<1>29. CASE UNCHANGED vars
  BY <1>29 DEF vars, hardware, disk, policy, limiter, lease, history, Shape, Switching,
    Reconciling, Prepare, Restore, To, ToWith, Kept, Ended, Idle, GaveUp, RolledBack,
    RestoreEnded, ToCapture, Starts
<1> QED
  BY <1>1, <1>2, <1>3, <1>4, <1>5, <1>6, <1>7, <1>8, <1>9, <1>10, <1>11, <1>12, <1>13, <1>14,
    <1>15, <1>16, <1>17, <1>18, <1>19, <1>20, <1>21, <1>22, <1>23, <1>24, <1>25, <1>26, <1>27,
    <1>28, <1>29 DEF Next, PrepareStep, RestoreStep, ReconcileStep

LEMMA LeaseStep ==
  ASSUME TypeOK, Shape, LeaseInv, [Next]_vars
  PROVE  LeaseInv'
<1>1. ASSUME NEW mode \in Modes, Switch(mode) PROVE LeaseInv'
  BY <1>1, SwitchMoves DEF Shape, Switching, Reconciling, Prepare, Restore, To, ToWith, Kept,
    Ended, Idle, GaveUp, RolledBack, RestoreEnded, ToCapture, Starts, LeaseInv, Leased,
    CardHasOneOwner
<1>2. ASSUME NEW off \in BOOLEAN, Prefer(off) PROVE LeaseInv'
  BY <1>2, PreferMoves DEF Shape, Switching, Reconciling, Prepare, Restore, To, ToWith, Kept,
    Ended, Idle, GaveUp, RolledBack, RestoreEnded, ToCapture, Starts, LeaseInv, Leased,
    CardHasOneOwner
<1>3. CASE LeaseBegin
  BY <1>3 DEF LeaseBegin, At, hardware, disk, policy, limiter, lease, history, Shape, Switching,
    Reconciling, Prepare, Restore, To, ToWith, Kept, Ended, Idle, GaveUp, RolledBack,
    RestoreEnded, ToCapture, Starts, LeaseInv, Leased, CardHasOneOwner
<1>4. CASE LeaseEnd
  <2>1. op' = op /\ leases' = leases - 1 /\ op.for = "none" /\ leases \in Nat
    BY <1>4 DEF LeaseEnd, At, Shape, Switching, Reconciling, Prepare, Restore, TypeOK, Ops
  <2>2. leases' > 0 => bound' = bound
    BY <1>4, <2>1 DEF LeaseEnd
  <2> QED
    BY <2>1, <2>2 DEF LeaseInv, Leased, CardHasOneOwner
<1>5. CASE Poll
  BY <1>5 DEF Poll, hardware, disk, policy, limiter, lease, history, Shape, Switching,
    Reconciling, Prepare, Restore, To, ToWith, Kept, Ended, Idle, GaveUp, RolledBack,
    RestoreEnded, ToCapture, Starts, LeaseInv, Leased, CardHasOneOwner
<1>6. ASSUME NEW ok \in BOOLEAN, SetPreference(ok) PROVE LeaseInv'
  BY <1>6, SetPreferenceMoves DEF Shape, Switching, Reconciling, Prepare, Restore, To, ToWith,
    Kept, Ended, Idle, GaveUp, RolledBack, RestoreEnded, ToCapture, Starts, LeaseInv, Leased,
    CardHasOneOwner
<1>7. ASSUME NEW ok \in BOOLEAN, RevertPreference(ok) PROVE LeaseInv'
  BY <1>7, RevertPreferenceMoves DEF Shape, Switching, Reconciling, Prepare, Restore, To,
    ToWith, Kept, Ended, Idle, GaveUp, RolledBack, RestoreEnded, ToCapture, Starts, LeaseInv,
    Leased, CardHasOneOwner
<1>8. ASSUME NEW ok \in BOOLEAN, Reclaim(ok) PROVE LeaseInv'
  BY <1>8, ReclaimMoves DEF Shape, Switching, Reconciling, Prepare, Restore, To, ToWith, Kept,
    Ended, Idle, GaveUp, RolledBack, RestoreEnded, ToCapture, Starts, LeaseInv, Leased,
    CardHasOneOwner
<1>9. ASSUME NEW ok \in BOOLEAN, Capture(ok) PROVE LeaseInv'
  BY <1>9, CaptureMoves DEF Shape, Switching, Reconciling, Prepare, Restore, To, ToWith, Kept,
    Ended, Idle, GaveUp, RolledBack, RestoreEnded, ToCapture, Starts, LeaseInv, Leased,
    CardHasOneOwner
<1>10. ASSUME NEW ok \in BOOLEAN, Save(ok) PROVE LeaseInv'
  BY <1>10, SaveMoves DEF Shape, Switching, Reconciling, Prepare, Restore, To, ToWith, Kept,
    Ended, Idle, GaveUp, RolledBack, RestoreEnded, ToCapture, Starts, LeaseInv, Leased,
    CardHasOneOwner
<1>11. ASSUME NEW ok \in BOOLEAN, Undo(ok) PROVE LeaseInv'
  BY <1>11, UndoMoves DEF Shape, Switching, Reconciling, Prepare, Restore, To, ToWith, Kept,
    Ended, Idle, GaveUp, RolledBack, RestoreEnded, ToCapture, Starts, LeaseInv, Leased,
    CardHasOneOwner
<1>12. ASSUME NEW ok \in BOOLEAN, Allow(ok) PROVE LeaseInv'
  BY <1>12, AllowMoves DEF Shape, Switching, Reconciling, Prepare, Restore, To, ToWith, Kept,
    Ended, Idle, GaveUp, RolledBack, RestoreEnded, ToCapture, Starts, LeaseInv, Leased,
    CardHasOneOwner
<1>13. ASSUME NEW ok \in BOOLEAN, EnterSink(ok) PROVE LeaseInv'
  BY <1>13, EnterSinkMoves DEF Shape, Switching, Reconciling, Prepare, Restore, To, ToWith,
    Kept, Ended, Idle, GaveUp, RolledBack, RestoreEnded, ToCapture, Starts, LeaseInv, Leased,
    CardHasOneOwner
<1>14. ASSUME NEW applied \in BOOLEAN, Gadget(applied) PROVE LeaseInv'
  BY <1>14, GadgetMoves DEF Shape, Switching, Reconciling, Prepare, Restore, To, ToWith, Kept,
    Ended, Idle, GaveUp, RolledBack, RestoreEnded, ToCapture, Starts, LeaseInv, Leased,
    CardHasOneOwner
<1>15. ASSUME NEW may \in BOOLEAN, Finish(may) PROVE LeaseInv'
  BY <1>15, FinishMoves DEF Shape, Switching, Reconciling, Prepare, Restore, To, ToWith, Kept,
    Ended, Idle, GaveUp, RolledBack, RestoreEnded, ToCapture, Starts, LeaseInv, Leased,
    CardHasOneOwner
<1>16. ASSUME NEW ok \in BOOLEAN, RestoreResume(ok) PROVE LeaseInv'
  BY <1>16, RestoreResumeMoves DEF Shape, Switching, Reconciling, Prepare, Restore, To, ToWith,
    Kept, Ended, Idle, GaveUp, RolledBack, RestoreEnded, ToCapture, Starts, LeaseInv, Leased,
    CardHasOneOwner
<1>17. ASSUME NEW ok \in BOOLEAN, RestoreRole(ok) PROVE LeaseInv'
  BY <1>17, RestoreRoleMoves DEF Shape, Switching, Reconciling, Prepare, Restore, To, ToWith,
    Kept, Ended, Idle, GaveUp, RolledBack, RestoreEnded, ToCapture, Starts, LeaseInv, Leased,
    CardHasOneOwner
<1>18. ASSUME NEW ok \in BOOLEAN, RestoreRelease(ok) PROVE LeaseInv'
  BY <1>18, RestoreReleaseMoves DEF Shape, Switching, Reconciling, Prepare, Restore, To, ToWith,
    Kept, Ended, Idle, GaveUp, RolledBack, RestoreEnded, ToCapture, Starts, LeaseInv, Leased,
    CardHasOneOwner
<1>19. ASSUME NEW ok \in BOOLEAN, RestoreRemove(ok) PROVE LeaseInv'
  BY <1>19, RestoreRemoveMoves DEF Shape, Switching, Reconciling, Prepare, Restore, To, ToWith,
    Kept, Ended, Idle, GaveUp, RolledBack, RestoreEnded, ToCapture, Starts, LeaseInv, Leased,
    CardHasOneOwner
<1>20. ASSUME NEW may \in BOOLEAN, NothingRecorded(may) PROVE LeaseInv'
  BY <1>20, NothingRecordedMoves DEF Shape, Switching, Reconciling, Prepare, Restore, To,
    ToWith, Kept, Ended, Idle, GaveUp, RolledBack, RestoreEnded, ToCapture, Starts, LeaseInv,
    Leased, CardHasOneOwner
<1>21. ASSUME NEW may \in BOOLEAN, NEW ok \in BOOLEAN, Recorded(may, ok) PROVE LeaseInv'
  BY <1>21, RecordedMoves DEF Shape, Switching, Reconciling, Prepare, Restore, To, ToWith, Kept,
    Ended, Idle, GaveUp, RolledBack, RestoreEnded, ToCapture, Starts, LeaseInv, Leased,
    CardHasOneOwner
<1>22. ASSUME NEW may \in BOOLEAN, NEW ok \in BOOLEAN, Unreadable(may, ok) PROVE LeaseInv'
  BY <1>22, UnreadableMoves DEF Shape, Switching, Reconciling, Prepare, Restore, To, ToWith,
    Kept, Ended, Idle, GaveUp, RolledBack, RestoreEnded, ToCapture, Starts, LeaseInv, Leased,
    CardHasOneOwner
<1>23. ASSUME NEW ok \in BOOLEAN, Discard(ok) PROVE LeaseInv'
  BY <1>23, DiscardMoves DEF Shape, Switching, Reconciling, Prepare, Restore, To, ToWith, Kept,
    Ended, Idle, GaveUp, RolledBack, RestoreEnded, ToCapture, Starts, LeaseInv, Leased,
    CardHasOneOwner
<1>24. ASSUME NEW ok \in BOOLEAN, Retain(ok) PROVE LeaseInv'
  BY <1>24, RetainMoves DEF Shape, Switching, Reconciling, Prepare, Restore, To, ToWith, Kept,
    Ended, Idle, GaveUp, RolledBack, RestoreEnded, ToCapture, Starts, LeaseInv, Leased,
    CardHasOneOwner
<1>25. ASSUME NEW ok \in BOOLEAN, Keep(ok) PROVE LeaseInv'
  BY <1>25, KeepMoves DEF Shape, Switching, Reconciling, Prepare, Restore, To, ToWith, Kept,
    Ended, Idle, GaveUp, RolledBack, RestoreEnded, ToCapture, Starts, LeaseInv, Leased,
    CardHasOneOwner
<1>26. ASSUME NEW ok \in BOOLEAN, Retained(ok) PROVE LeaseInv'
  BY <1>26, RetainedMoves DEF Shape, Switching, Reconciling, Prepare, Restore, To, ToWith, Kept,
    Ended, Idle, GaveUp, RolledBack, RestoreEnded, ToCapture, Starts, LeaseInv, Leased,
    CardHasOneOwner
<1>27. CASE PlayerRestarts
  BY <1>27, PlayerRestartsMoves DEF Shape, Switching, Reconciling, Prepare, Restore, To, ToWith,
    Kept, Ended, Idle, GaveUp, RolledBack, RestoreEnded, ToCapture, Starts, LeaseInv, Leased,
    CardHasOneOwner
<1>28. CASE DeviceRestarts
  BY <1>28, DeviceRestartsMoves DEF Shape, Switching, Reconciling, Prepare, Restore, To, ToWith,
    Kept, Ended, Idle, GaveUp, RolledBack, RestoreEnded, ToCapture, Starts, LeaseInv, Leased,
    CardHasOneOwner
<1>29. CASE UNCHANGED vars
  BY <1>29 DEF vars, hardware, disk, policy, limiter, lease, history, Shape, Switching,
    Reconciling, Prepare, Restore, To, ToWith, Kept, Ended, Idle, GaveUp, RolledBack,
    RestoreEnded, ToCapture, Starts, LeaseInv, Leased, CardHasOneOwner
<1> QED
  BY <1>1, <1>2, <1>3, <1>4, <1>5, <1>6, <1>7, <1>8, <1>9, <1>10, <1>11, <1>12, <1>13, <1>14,
    <1>15, <1>16, <1>17, <1>18, <1>19, <1>20, <1>21, <1>22, <1>23, <1>24, <1>25, <1>26, <1>27,
    <1>28, <1>29 DEF Next, PrepareStep, RestoreStep, ReconcileStep

LEMMA OwnerStep ==
  ASSUME TypeOK, Shape, Owner, [Next]_vars
  PROVE  Owner'
<1>1. ASSUME NEW mode \in Modes, Switch(mode) PROVE Owner'
  BY <1>1, SwitchMoves DEF Owner, Restore, To, ToWith, Kept, Ended, Idle, GaveUp, RolledBack,
    RestoreEnded, ToCapture, Starts
<1>2. ASSUME NEW off \in BOOLEAN, Prefer(off) PROVE Owner'
  BY <1>2, PreferMoves DEF Owner, Restore, To, ToWith, Kept, Ended, Idle, GaveUp, RolledBack,
    RestoreEnded, ToCapture, Starts
<1>3. CASE LeaseBegin
  BY <1>3 DEF LeaseBegin, At, hardware, disk, policy, limiter, lease, history, Owner, Restore,
    To, ToWith, Kept, Ended, Idle, GaveUp, RolledBack, RestoreEnded, ToCapture, Starts
<1>4. CASE LeaseEnd
  BY <1>4 DEF LeaseEnd, At, hardware, disk, policy, limiter, lease, history, Owner, Restore, To,
    ToWith, Kept, Ended, Idle, GaveUp, RolledBack, RestoreEnded, ToCapture, Starts
<1>5. CASE Poll
  BY <1>5 DEF Poll, hardware, disk, policy, limiter, lease, history, Owner, Restore, To, ToWith,
    Kept, Ended, Idle, GaveUp, RolledBack, RestoreEnded, ToCapture, Starts
<1>6. ASSUME NEW ok \in BOOLEAN, SetPreference(ok) PROVE Owner'
  BY <1>6, SetPreferenceMoves DEF Owner, Restore, To, ToWith, Kept, Ended, Idle, GaveUp,
    RolledBack, RestoreEnded, ToCapture, Starts
<1>7. ASSUME NEW ok \in BOOLEAN, RevertPreference(ok) PROVE Owner'
  BY <1>7, RevertPreferenceMoves DEF Owner, Restore, To, ToWith, Kept, Ended, Idle, GaveUp,
    RolledBack, RestoreEnded, ToCapture, Starts
<1>8. ASSUME NEW ok \in BOOLEAN, Reclaim(ok) PROVE Owner'
  BY <1>8, ReclaimMoves DEF Owner, Restore, To, ToWith, Kept, Ended, Idle, GaveUp, RolledBack,
    RestoreEnded, ToCapture, Starts
<1>9. ASSUME NEW ok \in BOOLEAN, Capture(ok) PROVE Owner'
  BY <1>9, CaptureMoves DEF Owner, Restore, To, ToWith, Kept, Ended, Idle, GaveUp, RolledBack,
    RestoreEnded, ToCapture, Starts
<1>10. ASSUME NEW ok \in BOOLEAN, Save(ok) PROVE Owner'
  BY <1>10, SaveMoves DEF Owner, Restore, To, ToWith, Kept, Ended, Idle, GaveUp, RolledBack,
    RestoreEnded, ToCapture, Starts
<1>11. ASSUME NEW ok \in BOOLEAN, Undo(ok) PROVE Owner'
  BY <1>11, UndoMoves DEF Owner, Restore, To, ToWith, Kept, Ended, Idle, GaveUp, RolledBack,
    RestoreEnded, ToCapture, Starts
<1>12. ASSUME NEW ok \in BOOLEAN, Allow(ok) PROVE Owner'
  BY <1>12, AllowMoves DEF Owner, Restore, To, ToWith, Kept, Ended, Idle, GaveUp, RolledBack,
    RestoreEnded, ToCapture, Starts
<1>13. ASSUME NEW ok \in BOOLEAN, EnterSink(ok) PROVE Owner'
  BY <1>13, EnterSinkMoves DEF Owner, Restore, To, ToWith, Kept, Ended, Idle, GaveUp,
    RolledBack, RestoreEnded, ToCapture, Starts
<1>14. ASSUME NEW applied \in BOOLEAN, Gadget(applied) PROVE Owner'
  BY <1>14, GadgetMoves DEF Owner, Restore, To, ToWith, Kept, Ended, Idle, GaveUp, RolledBack,
    RestoreEnded, ToCapture, Starts
<1>15. ASSUME NEW may \in BOOLEAN, Finish(may) PROVE Owner'
  BY <1>15, FinishMoves DEF Owner, Restore, To, ToWith, Kept, Ended, Idle, GaveUp, RolledBack,
    RestoreEnded, ToCapture, Starts
<1>16. ASSUME NEW ok \in BOOLEAN, RestoreResume(ok) PROVE Owner'
  BY <1>16, RestoreResumeMoves DEF Owner, Restore, To, ToWith, Kept, Ended, Idle, GaveUp,
    RolledBack, RestoreEnded, ToCapture, Starts
<1>17. ASSUME NEW ok \in BOOLEAN, RestoreRole(ok) PROVE Owner'
  BY <1>17, RestoreRoleMoves DEF Owner, Restore, To, ToWith, Kept, Ended, Idle, GaveUp,
    RolledBack, RestoreEnded, ToCapture, Starts
<1>18. ASSUME NEW ok \in BOOLEAN, RestoreRelease(ok) PROVE Owner'
  BY <1>18, RestoreReleaseMoves DEF Owner, Restore, To, ToWith, Kept, Ended, Idle, GaveUp,
    RolledBack, RestoreEnded, ToCapture, Starts
<1>19. ASSUME NEW ok \in BOOLEAN, RestoreRemove(ok) PROVE Owner'
  BY <1>19, RestoreRemoveMoves DEF Owner, Restore, To, ToWith, Kept, Ended, Idle, GaveUp,
    RolledBack, RestoreEnded, ToCapture, Starts
<1>20. ASSUME NEW may \in BOOLEAN, NothingRecorded(may) PROVE Owner'
  <2>1. op.at = "begin" /\ UNCHANGED <<owned, inhibited>> /\ (To("reclaim") \/ Ended(TRUE))
    BY <1>20, NothingRecordedMoves
  <2>2. ~owned /\ ~inhibited /\ ~op.already
    BY <2>1 DEF Owner
  <2>3. owned \in BOOLEAN /\ op.already \in BOOLEAN
    BY DEF TypeOK, Ops
  <2>4. op.already = owned
    BY <2>2, <2>3
  <2> QED
    BY <2>1, <2>2, <2>4 DEF Owner, Restore, To, ToWith, Kept, Ended, Idle
<1>21. ASSUME NEW may \in BOOLEAN, NEW ok \in BOOLEAN, Recorded(may, ok) PROVE Owner'
  BY <1>21, RecordedMoves DEF Owner, Restore, To, ToWith, Kept, Ended, Idle, GaveUp, RolledBack,
    RestoreEnded, ToCapture, Starts
<1>22. ASSUME NEW may \in BOOLEAN, NEW ok \in BOOLEAN, Unreadable(may, ok) PROVE Owner'
  BY <1>22, UnreadableMoves DEF Owner, Restore, To, ToWith, Kept, Ended, Idle, GaveUp,
    RolledBack, RestoreEnded, ToCapture, Starts
<1>23. ASSUME NEW ok \in BOOLEAN, Discard(ok) PROVE Owner'
  BY <1>23, DiscardMoves DEF Owner, Restore, To, ToWith, Kept, Ended, Idle, GaveUp, RolledBack,
    RestoreEnded, ToCapture, Starts
<1>24. ASSUME NEW ok \in BOOLEAN, Retain(ok) PROVE Owner'
  BY <1>24, RetainMoves DEF Owner, Restore, To, ToWith, Kept, Ended, Idle, GaveUp, RolledBack,
    RestoreEnded, ToCapture, Starts
<1>25. ASSUME NEW ok \in BOOLEAN, Keep(ok) PROVE Owner'
  BY <1>25, KeepMoves DEF Owner, Restore, To, ToWith, Kept, Ended, Idle, GaveUp, RolledBack,
    RestoreEnded, ToCapture, Starts
<1>26. ASSUME NEW ok \in BOOLEAN, Retained(ok) PROVE Owner'
  BY <1>26, RetainedMoves DEF Owner, Restore, To, ToWith, Kept, Ended, Idle, GaveUp, RolledBack,
    RestoreEnded, ToCapture, Starts
<1>27. CASE PlayerRestarts
  BY <1>27, PlayerRestartsMoves DEF Owner, Restore, To, ToWith, Kept, Ended, Idle, GaveUp,
    RolledBack, RestoreEnded, ToCapture, Starts
<1>28. CASE DeviceRestarts
  BY <1>28, DeviceRestartsMoves DEF Owner, Restore, To, ToWith, Kept, Ended, Idle, GaveUp,
    RolledBack, RestoreEnded, ToCapture, Starts
<1>29. CASE UNCHANGED vars
  BY <1>29 DEF vars, hardware, disk, policy, limiter, lease, history, Owner, Restore, To,
    ToWith, Kept, Ended, Idle, GaveUp, RolledBack, RestoreEnded, ToCapture, Starts
<1> QED
  BY <1>1, <1>2, <1>3, <1>4, <1>5, <1>6, <1>7, <1>8, <1>9, <1>10, <1>11, <1>12, <1>13, <1>14,
    <1>15, <1>16, <1>17, <1>18, <1>19, <1>20, <1>21, <1>22, <1>23, <1>24, <1>25, <1>26, <1>27,
    <1>28, <1>29 DEF Next, PrepareStep, RestoreStep, ReconcileStep

LEMMA OriginalStep ==
  ASSUME TypeOK, Shape, Owner, Survives, Original, [Next]_vars
  PROVE  Original'
<1>1. ASSUME NEW mode \in Modes, Switch(mode) PROVE Original'
  BY <1>1, SwitchMoves DEF Owner, Original, Recording, Restore, To, ToWith, Kept, Ended, Idle,
    GaveUp, RolledBack, RestoreEnded, ToCapture, Starts
<1>2. ASSUME NEW off \in BOOLEAN, Prefer(off) PROVE Original'
  BY <1>2, PreferMoves DEF Owner, Original, Recording, Restore, To, ToWith, Kept, Ended, Idle,
    GaveUp, RolledBack, RestoreEnded, ToCapture, Starts
<1>3. CASE LeaseBegin
  BY <1>3 DEF LeaseBegin, At, hardware, disk, policy, limiter, lease, history, Owner, Original,
    Recording, Restore, To, ToWith, Kept, Ended, Idle, GaveUp, RolledBack, RestoreEnded,
    ToCapture, Starts
<1>4. CASE LeaseEnd
  BY <1>4 DEF LeaseEnd, At, hardware, disk, policy, limiter, lease, history, Owner, Original,
    Recording, Restore, To, ToWith, Kept, Ended, Idle, GaveUp, RolledBack, RestoreEnded,
    ToCapture, Starts
<1>5. CASE Poll
  BY <1>5 DEF Poll, hardware, disk, policy, limiter, lease, history, Owner, Original, Recording,
    Restore, To, ToWith, Kept, Ended, Idle, GaveUp, RolledBack, RestoreEnded, ToCapture, Starts
<1>6. ASSUME NEW ok \in BOOLEAN, SetPreference(ok) PROVE Original'
  BY <1>6, SetPreferenceMoves DEF Owner, Original, Recording, Restore, To, ToWith, Kept, Ended,
    Idle, GaveUp, RolledBack, RestoreEnded, ToCapture, Starts
<1>7. ASSUME NEW ok \in BOOLEAN, RevertPreference(ok) PROVE Original'
  BY <1>7, RevertPreferenceMoves DEF Owner, Original, Recording, Restore, To, ToWith, Kept,
    Ended, Idle, GaveUp, RolledBack, RestoreEnded, ToCapture, Starts
<1>8. ASSUME NEW ok \in BOOLEAN, Reclaim(ok) PROVE Original'
  BY <1>8, ReclaimMoves DEF Owner, Original, Recording, Restore, To, ToWith, Kept, Ended, Idle,
    GaveUp, RolledBack, RestoreEnded, ToCapture, Starts
<1>9. ASSUME NEW ok \in BOOLEAN, Capture(ok) PROVE Original'
  BY <1>9, CaptureMoves DEF Owner, Original, Recording, Restore, To, ToWith, Kept, Ended, Idle,
    GaveUp, RolledBack, RestoreEnded, ToCapture, Starts
<1>10. ASSUME NEW ok \in BOOLEAN, Save(ok) PROVE Original'
  BY <1>10, SaveMoves DEF Owner, Original, Recording, Restore, To, ToWith, Kept, Ended, Idle,
    GaveUp, RolledBack, RestoreEnded, ToCapture, Starts
<1>11. ASSUME NEW ok \in BOOLEAN, Undo(ok) PROVE Original'
  BY <1>11, UndoMoves DEF Owner, Original, Recording, Restore, To, ToWith, Kept, Ended, Idle,
    GaveUp, RolledBack, RestoreEnded, ToCapture, Starts
<1>12. ASSUME NEW ok \in BOOLEAN, Allow(ok) PROVE Original'
  BY <1>12, AllowMoves DEF Owner, Original, Recording, Restore, To, ToWith, Kept, Ended, Idle,
    GaveUp, RolledBack, RestoreEnded, ToCapture, Starts
<1>13. ASSUME NEW ok \in BOOLEAN, EnterSink(ok) PROVE Original'
  BY <1>13, EnterSinkMoves DEF Owner, Original, Recording, Restore, To, ToWith, Kept, Ended,
    Idle, GaveUp, RolledBack, RestoreEnded, ToCapture, Starts
<1>14. ASSUME NEW applied \in BOOLEAN, Gadget(applied) PROVE Original'
  BY <1>14, GadgetMoves DEF Owner, Original, Recording, Restore, To, ToWith, Kept, Ended, Idle,
    GaveUp, RolledBack, RestoreEnded, ToCapture, Starts
<1>15. ASSUME NEW may \in BOOLEAN, Finish(may) PROVE Original'
  BY <1>15, FinishMoves DEF Owner, Original, Recording, Restore, To, ToWith, Kept, Ended, Idle,
    GaveUp, RolledBack, RestoreEnded, ToCapture, Starts
<1>16. ASSUME NEW ok \in BOOLEAN, RestoreResume(ok) PROVE Original'
  BY <1>16, RestoreResumeMoves DEF Owner, Original, Recording, Restore, To, ToWith, Kept, Ended,
    Idle, GaveUp, RolledBack, RestoreEnded, ToCapture, Starts
<1>17. ASSUME NEW ok \in BOOLEAN, RestoreRole(ok) PROVE Original'
  BY <1>17, RestoreRoleMoves DEF Owner, Original, Recording, Restore, To, ToWith, Kept, Ended,
    Idle, GaveUp, RolledBack, RestoreEnded, ToCapture, Starts
<1>18. ASSUME NEW ok \in BOOLEAN, RestoreRelease(ok) PROVE Original'
  BY <1>18, RestoreReleaseMoves DEF Owner, Original, Recording, Restore, To, ToWith, Kept,
    Ended, Idle, GaveUp, RolledBack, RestoreEnded, ToCapture, Starts
<1>19. ASSUME NEW ok \in BOOLEAN, RestoreRemove(ok) PROVE Original'
  BY <1>19, RestoreRemoveMoves DEF Owner, Original, Recording, Restore, To, ToWith, Kept, Ended,
    Idle, GaveUp, RolledBack, RestoreEnded, ToCapture, Starts
<1>20. ASSUME NEW may \in BOOLEAN, NothingRecorded(may) PROVE Original'
  <2>1. op.at = "begin" /\ UNCHANGED <<role, journal, survivors, owned, saved_role, base_role, blind>>
    BY <1>20, NothingRecordedMoves
  <2>2. ~blind => role = base_role
    <3>1. journal = Absent /\ Absent.role = "none"
      BY <1>20 DEF NothingRecorded, Absent
    <3>2. base_role # "none"
      BY Types DEF Kinds, Roles
    <3> QED
      BY <3>1, <3>2 DEF Original, Recording
  <2>3. op'.at \in {"reclaim", "idle"} /\ (op'.captured => op.captured)
    BY <1>20, NothingRecordedMoves DEF To, ToWith, Ended, Idle
  <2> QED
    BY <2>1, <2>2, <2>3 DEF Original, Recording, Restore
<1>21. ASSUME NEW may \in BOOLEAN, NEW ok \in BOOLEAN, Recorded(may, ok) PROVE Original'
  <2>1. op.at = "begin" /\ owned' /\ UNCHANGED <<role, journal, survivors, base_role, blind>>
    BY <1>21, RecordedMoves
  <2>2. journal \in survivors /\ journal.role \in Roles /\ saved_role' = journal.role
    BY <1>21, RecordedMoves, JournalTypes DEF Survives
  <2>3. ~blind => journal.role = base_role
    BY <2>2 DEF Original, Recording, Roles
  <2>4. op'.at \in {"retained", "role", "idle"}
    BY <1>21, RecordedMoves DEF To, ToWith, Ended, Idle
  <2> QED
    BY <2>1, <2>2, <2>3, <2>4 DEF Original, Recording
<1>22. ASSUME NEW may \in BOOLEAN, NEW ok \in BOOLEAN, Unreadable(may, ok) PROVE Original'
  BY <1>22, UnreadableMoves DEF Owner, Original, Recording, Restore, To, ToWith, Kept, Ended,
    Idle, GaveUp, RolledBack, RestoreEnded, ToCapture, Starts
<1>23. ASSUME NEW ok \in BOOLEAN, Discard(ok) PROVE Original'
  BY <1>23, DiscardMoves DEF Owner, Original, Recording, Restore, To, ToWith, Kept, Ended, Idle,
    GaveUp, RolledBack, RestoreEnded, ToCapture, Starts
<1>24. ASSUME NEW ok \in BOOLEAN, Retain(ok) PROVE Original'
  BY <1>24, RetainMoves DEF Owner, Original, Recording, Restore, To, ToWith, Kept, Ended, Idle,
    GaveUp, RolledBack, RestoreEnded, ToCapture, Starts
<1>25. ASSUME NEW ok \in BOOLEAN, Keep(ok) PROVE Original'
  BY <1>25, KeepMoves DEF Owner, Original, Recording, Restore, To, ToWith, Kept, Ended, Idle,
    GaveUp, RolledBack, RestoreEnded, ToCapture, Starts
<1>26. ASSUME NEW ok \in BOOLEAN, Retained(ok) PROVE Original'
  BY <1>26, RetainedMoves DEF Owner, Original, Recording, Restore, To, ToWith, Kept, Ended,
    Idle, GaveUp, RolledBack, RestoreEnded, ToCapture, Starts
<1>27. CASE PlayerRestarts
  BY <1>27, PlayerRestartsMoves DEF Owner, Original, Recording, Restore, To, ToWith, Kept,
    Ended, Idle, GaveUp, RolledBack, RestoreEnded, ToCapture, Starts
<1>28. CASE DeviceRestarts
  BY <1>28, DeviceRestartsMoves DEF Owner, Original, Recording, Restore, To, ToWith, Kept,
    Ended, Idle, GaveUp, RolledBack, RestoreEnded, ToCapture, Starts
<1>29. CASE UNCHANGED vars
  BY <1>29 DEF vars, hardware, disk, policy, limiter, lease, history, Owner, Original,
    Recording, Restore, To, ToWith, Kept, Ended, Idle, GaveUp, RolledBack, RestoreEnded,
    ToCapture, Starts
<1> QED
  BY <1>1, <1>2, <1>3, <1>4, <1>5, <1>6, <1>7, <1>8, <1>9, <1>10, <1>11, <1>12, <1>13, <1>14,
    <1>15, <1>16, <1>17, <1>18, <1>19, <1>20, <1>21, <1>22, <1>23, <1>24, <1>25, <1>26, <1>27,
    <1>28, <1>29 DEF Next, PrepareStep, RestoreStep, ReconcileStep

LEMMA DacStep ==
  ASSUME TypeOK, Shape, Owner, Dac, [Next]_vars
  PROVE  Dac'
<1>1. ASSUME NEW mode \in Modes, Switch(mode) PROVE Dac'
  BY <1>1, SwitchMoves DEF Shape, Switching, Reconciling, Prepare, Restore, Owner, Dac,
    BoundDac, Charging, Held, Off, To, ToWith, Kept, Ended, Idle, GaveUp, RolledBack,
    RestoreEnded, ToCapture, Starts
<1>2. ASSUME NEW off \in BOOLEAN, Prefer(off) PROVE Dac'
  BY <1>2, PreferMoves DEF Shape, Switching, Reconciling, Prepare, Restore, Owner, Dac,
    BoundDac, Charging, Held, Off, To, ToWith, Kept, Ended, Idle, GaveUp, RolledBack,
    RestoreEnded, ToCapture, Starts
<1>3. CASE LeaseBegin
  BY <1>3 DEF LeaseBegin, At, hardware, disk, policy, limiter, lease, history, Shape, Switching,
    Reconciling, Prepare, Restore, Owner, Dac, BoundDac, Charging, Held, Off, To, ToWith, Kept,
    Ended, Idle, GaveUp, RolledBack, RestoreEnded, ToCapture, Starts
<1>4. CASE LeaseEnd
  BY <1>4 DEF LeaseEnd, At, hardware, disk, policy, limiter, lease, history, Shape, Switching,
    Reconciling, Prepare, Restore, Owner, Dac, BoundDac, Charging, Held, Off, To, ToWith, Kept,
    Ended, Idle, GaveUp, RolledBack, RestoreEnded, ToCapture, Starts
<1>5. CASE Poll
  BY <1>5 DEF Poll, hardware, disk, policy, limiter, lease, history, Shape, Switching,
    Reconciling, Prepare, Restore, Owner, Dac, BoundDac, Charging, Held, Off, To, ToWith, Kept,
    Ended, Idle, GaveUp, RolledBack, RestoreEnded, ToCapture, Starts
<1>6. ASSUME NEW ok \in BOOLEAN, SetPreference(ok) PROVE Dac'
  BY <1>6, SetPreferenceMoves DEF Shape, Switching, Reconciling, Prepare, Restore, Owner, Dac,
    BoundDac, Charging, Held, Off, To, ToWith, Kept, Ended, Idle, GaveUp, RolledBack,
    RestoreEnded, ToCapture, Starts
<1>7. ASSUME NEW ok \in BOOLEAN, RevertPreference(ok) PROVE Dac'
  BY <1>7, RevertPreferenceMoves DEF Shape, Switching, Reconciling, Prepare, Restore, Owner,
    Dac, BoundDac, Charging, Held, Off, To, ToWith, Kept, Ended, Idle, GaveUp, RolledBack,
    RestoreEnded, ToCapture, Starts
<1>8. ASSUME NEW ok \in BOOLEAN, Reclaim(ok) PROVE Dac'
  BY <1>8, ReclaimMoves DEF Shape, Switching, Reconciling, Prepare, Restore, Owner, Dac,
    BoundDac, Charging, Held, Off, To, ToWith, Kept, Ended, Idle, GaveUp, RolledBack,
    RestoreEnded, ToCapture, Starts
<1>9. ASSUME NEW ok \in BOOLEAN, Capture(ok) PROVE Dac'
  BY <1>9, CaptureMoves DEF Shape, Switching, Reconciling, Prepare, Restore, Owner, Dac,
    BoundDac, Charging, Held, Off, To, ToWith, Kept, Ended, Idle, GaveUp, RolledBack,
    RestoreEnded, ToCapture, Starts
<1>10. ASSUME NEW ok \in BOOLEAN, Save(ok) PROVE Dac'
  BY <1>10, SaveMoves DEF Shape, Switching, Reconciling, Prepare, Restore, Owner, Dac, BoundDac,
    Charging, Held, Off, To, ToWith, Kept, Ended, Idle, GaveUp, RolledBack, RestoreEnded,
    ToCapture, Starts
<1>11. ASSUME NEW ok \in BOOLEAN, Undo(ok) PROVE Dac'
  BY <1>11, UndoMoves DEF Shape, Switching, Reconciling, Prepare, Restore, Owner, Dac, BoundDac,
    Charging, Held, Off, To, ToWith, Kept, Ended, Idle, GaveUp, RolledBack, RestoreEnded,
    ToCapture, Starts
<1>12. ASSUME NEW ok \in BOOLEAN, Allow(ok) PROVE Dac'
  BY <1>12, AllowMoves DEF Shape, Switching, Reconciling, Prepare, Restore, Owner, Dac,
    BoundDac, Charging, Held, Off, To, ToWith, Kept, Ended, Idle, GaveUp, RolledBack,
    RestoreEnded, ToCapture, Starts
<1>13. ASSUME NEW ok \in BOOLEAN, EnterSink(ok) PROVE Dac'
  BY <1>13, EnterSinkMoves DEF Shape, Switching, Reconciling, Prepare, Restore, Owner, Dac,
    BoundDac, Charging, Held, Off, To, ToWith, Kept, Ended, Idle, GaveUp, RolledBack,
    RestoreEnded, ToCapture, Starts
<1>14. ASSUME NEW applied \in BOOLEAN, Gadget(applied) PROVE Dac'
  BY <1>14, GadgetMoves DEF Shape, Switching, Reconciling, Prepare, Restore, Owner, Dac,
    BoundDac, Charging, Held, Off, To, ToWith, Kept, Ended, Idle, GaveUp, RolledBack,
    RestoreEnded, ToCapture, Starts
<1>15. ASSUME NEW may \in BOOLEAN, Finish(may) PROVE Dac'
  BY <1>15, FinishMoves DEF Shape, Switching, Reconciling, Prepare, Restore, Owner, Dac,
    BoundDac, Charging, Held, Off, To, ToWith, Kept, Ended, Idle, GaveUp, RolledBack,
    RestoreEnded, ToCapture, Starts
<1>16. ASSUME NEW ok \in BOOLEAN, RestoreResume(ok) PROVE Dac'
  BY <1>16, RestoreResumeMoves DEF Shape, Switching, Reconciling, Prepare, Restore, Owner, Dac,
    BoundDac, Charging, Held, Off, To, ToWith, Kept, Ended, Idle, GaveUp, RolledBack,
    RestoreEnded, ToCapture, Starts
<1>17. ASSUME NEW ok \in BOOLEAN, RestoreRole(ok) PROVE Dac'
  BY <1>17, RestoreRoleMoves DEF Shape, Switching, Reconciling, Prepare, Restore, Owner, Dac,
    BoundDac, Charging, Held, Off, To, ToWith, Kept, Ended, Idle, GaveUp, RolledBack,
    RestoreEnded, ToCapture, Starts
<1>18. ASSUME NEW ok \in BOOLEAN, RestoreRelease(ok) PROVE Dac'
  BY <1>18, RestoreReleaseMoves DEF Shape, Switching, Reconciling, Prepare, Restore, Owner, Dac,
    BoundDac, Charging, Held, Off, To, ToWith, Kept, Ended, Idle, GaveUp, RolledBack,
    RestoreEnded, ToCapture, Starts
<1>19. ASSUME NEW ok \in BOOLEAN, RestoreRemove(ok) PROVE Dac'
  BY <1>19, RestoreRemoveMoves DEF Shape, Switching, Reconciling, Prepare, Restore, Owner, Dac,
    BoundDac, Charging, Held, Off, To, ToWith, Kept, Ended, Idle, GaveUp, RolledBack,
    RestoreEnded, ToCapture, Starts
<1>20. ASSUME NEW may \in BOOLEAN, NothingRecorded(may) PROVE Dac'
  BY <1>20, NothingRecordedMoves DEF Shape, Switching, Reconciling, Prepare, Restore, Owner,
    Dac, BoundDac, Charging, Held, Off, To, ToWith, Kept, Ended, Idle, GaveUp, RolledBack,
    RestoreEnded, ToCapture, Starts
<1>21. ASSUME NEW may \in BOOLEAN, NEW ok \in BOOLEAN, Recorded(may, ok) PROVE Dac'
  BY <1>21, RecordedMoves DEF Shape, Switching, Reconciling, Prepare, Restore, Owner, Dac,
    BoundDac, Charging, Held, Off, To, ToWith, Kept, Ended, Idle, GaveUp, RolledBack,
    RestoreEnded, ToCapture, Starts
<1>22. ASSUME NEW may \in BOOLEAN, NEW ok \in BOOLEAN, Unreadable(may, ok) PROVE Dac'
  BY <1>22, UnreadableMoves DEF Shape, Switching, Reconciling, Prepare, Restore, Owner, Dac,
    BoundDac, Charging, Held, Off, To, ToWith, Kept, Ended, Idle, GaveUp, RolledBack,
    RestoreEnded, ToCapture, Starts
<1>23. ASSUME NEW ok \in BOOLEAN, Discard(ok) PROVE Dac'
  BY <1>23, DiscardMoves DEF Shape, Switching, Reconciling, Prepare, Restore, Owner, Dac,
    BoundDac, Charging, Held, Off, To, ToWith, Kept, Ended, Idle, GaveUp, RolledBack,
    RestoreEnded, ToCapture, Starts
<1>24. ASSUME NEW ok \in BOOLEAN, Retain(ok) PROVE Dac'
  BY <1>24, RetainMoves DEF Shape, Switching, Reconciling, Prepare, Restore, Owner, Dac,
    BoundDac, Charging, Held, Off, To, ToWith, Kept, Ended, Idle, GaveUp, RolledBack,
    RestoreEnded, ToCapture, Starts
<1>25. ASSUME NEW ok \in BOOLEAN, Keep(ok) PROVE Dac'
  BY <1>25, KeepMoves DEF Shape, Switching, Reconciling, Prepare, Restore, Owner, Dac, BoundDac,
    Charging, Held, Off, To, ToWith, Kept, Ended, Idle, GaveUp, RolledBack, RestoreEnded,
    ToCapture, Starts
<1>26. ASSUME NEW ok \in BOOLEAN, Retained(ok) PROVE Dac'
  BY <1>26, RetainedMoves DEF Shape, Switching, Reconciling, Prepare, Restore, Owner, Dac,
    BoundDac, Charging, Held, Off, To, ToWith, Kept, Ended, Idle, GaveUp, RolledBack,
    RestoreEnded, ToCapture, Starts
<1>27. CASE PlayerRestarts
  BY <1>27, PlayerRestartsMoves DEF Shape, Switching, Reconciling, Prepare, Restore, Owner, Dac,
    BoundDac, Charging, Held, Off, To, ToWith, Kept, Ended, Idle, GaveUp, RolledBack,
    RestoreEnded, ToCapture, Starts
<1>28. CASE DeviceRestarts
  BY <1>28, DeviceRestartsMoves DEF Shape, Switching, Reconciling, Prepare, Restore, Owner, Dac,
    BoundDac, Charging, Held, Off, To, ToWith, Kept, Ended, Idle, GaveUp, RolledBack,
    RestoreEnded, ToCapture, Starts
<1>29. CASE UNCHANGED vars
  BY <1>29 DEF vars, hardware, disk, policy, limiter, lease, history, Shape, Switching,
    Reconciling, Prepare, Restore, Owner, Dac, BoundDac, Charging, Held, Off, To, ToWith, Kept,
    Ended, Idle, GaveUp, RolledBack, RestoreEnded, ToCapture, Starts
<1> QED
  BY <1>1, <1>2, <1>3, <1>4, <1>5, <1>6, <1>7, <1>8, <1>9, <1>10, <1>11, <1>12, <1>13, <1>14,
    <1>15, <1>16, <1>17, <1>18, <1>19, <1>20, <1>21, <1>22, <1>23, <1>24, <1>25, <1>26, <1>27,
    <1>28, <1>29 DEF Next, PrepareStep, RestoreStep, ReconcileStep

(******************************************************************************)
(* The inductive invariant and the results.                                   *)
(******************************************************************************)
LEMMA InitInv == Init => Inv
<1> SUFFICES ASSUME Init PROVE Inv
  OBVIOUS
<1>1. NoOp \in Ops /\ op = Reconcile
  BY DEF Init, NoOp, Ops, Modes
<1>2. op \in Ops /\ op.at = "begin" /\ op.for = "reconcile" /\ op.ok /\ ~op.already /\ ~op.captured
  BY <1>1 DEF Reconcile, NoOp, Ops
<1>3. Absent \in Journals /\ Absent.role = "none"
  BY DEF Absent, Journals
<1>4. TypeOK
  <2>1. Flags /\ Reports /\ OpType
    BY <1>2 DEF Init, Flags, Reports, OpType
  <2>2. Kinds
    BY <1>3 DEF Init, Kinds, Roles, Modes
  <2>3. Counts
    BY MaxOpsAssumption, MaxStartsAssumption DEF Init, Counts
  <2> QED
    BY <2>1, <2>2, <2>3, Types
<1>5. Shape /\ LeaseInv
  BY <1>2 DEF Init, Shape, Reconciling, LeaseInv, Leased, CardHasOneOwner
<1>6. Owner
  BY <1>2 DEF Init, Owner, Restore
<1>7. Survives /\ Original
  BY <1>2, <1>3 DEF Init, Survives, Original, Recording
<1>8. Dac
  BY <1>2 DEF Init, Dac, BoundDac, Charging, Restore
<1> QED
  BY <1>4, <1>5, <1>6, <1>7, <1>8 DEF Inv

LEMMA InvStep == Inv /\ [Next]_vars => Inv'
  BY TypeStep, ShapeStep, LeaseStep, OwnerStep, SurvivesStep, OriginalStep, DacStep DEF Inv

(* Inv holds whatever the user, the failures and the restarts do.             *)
THEOREM Invariance == Spec => []Inv
<1>1. Init => Inv
  BY InitInv
<1>2. Inv /\ [Next]_vars => Inv'
  BY InvStep
<1> QED
  BY <1>1, <1>2, PTL DEF Spec

(* Registers, roles, journals and the operation under the mutex keep their    *)
(* types.                                                                     *)
THEOREM TypeCorrect == Spec => []TypeOK
<1>1. Inv => TypeOK
  BY DEF Inv
<1> QED
  BY <1>1, Invariance, PTL

(* The charger is inhibited only for a session that is owned, also in the     *)
(* middle of an operation (finish_dac_usb_policy_apply() and the others).     *)
THEOREM InhibitOwned == Spec => []InhibitHasOwner
<1>1. Inv => InhibitHasOwner
  BY DEF Inv, Owner, InhibitHasOwner
<1> QED
  BY <1>1, Invariance, PTL

(* A Type-C role that is not the original one is in the journal on the disk   *)
(* (prepare_dac_usb_policy(), restore_dac_usb_policy()).                      *)
THEOREM RoleRecorded == Spec => []OriginalRoleIsRecorded
<1>1. Inv => OriginalRoleIsRecorded
  BY DEF Inv, Original, Recording, OriginalRoleIsRecorded
<1> QED
  BY <1>1, Invariance, PTL

(* A DAC that may be bound keeps its session and the charger, whatever failed *)
(* (usb_mode_control_apply_with_status(), ..._reconcile_dac_session()).       *)
THEOREM ChargerKept == Spec => []DacKeepsTheCharger
<1>1. Inv => DacKeepsTheCharger
  <2> SUFFICES ASSUME Inv, op.at = "idle", bound = "dac"
               PROVE  /\ owned /\ (disabled => inhibited)
                      /\ started => role = "Sink" /\ (disabled => ~charger)
    BY DEF DacKeepsTheCharger, At
  <2>1. op.for = "none"
    BY DEF Inv, Shape, Switching, Reconciling, Prepare, Restore
  <2> QED
    BY <2>1 DEF Inv, Dac, BoundDac, Held, Off
<1> QED
  BY <1>1, Invariance, PTL

(* While a writer holds a lease the USB host has not got the card             *)
(* (usb_mode_control_storage_write_begin()).                                  *)
THEOREM OneOwner == Spec => []CardHasOneOwner
<1>1. Inv => CardHasOneOwner
  BY DEF Inv, LeaseInv
<1> QED
  BY <1>1, Invariance, PTL
=============================================================================

----------------------- MODULE ScheduleRegistryProofs -----------------------
(***************************************************************************)
(* Machine-checked: however commands, failures and crashes interleave, a   *)
(* compensation never registers a schedule without the task it read for    *)
(* it, and a stored schedule always names a stored task; and the registry, *)
(* the scheduler and the snapshots agree, the enabled flag included, on    *)
(* every quiet name that has no excuse.                                    *)
(***************************************************************************)
EXTENDS ScheduleRegistry, TLAPS

(* What a command knows at each place: the reads it has behind it.         *)
Locals(r) ==
  /\ r.pc # "idle" => r.name \in Schedules
  /\ r.pc \in {"task", "previous", "schedule", "set", "store"} => ~r.undo
  /\ r.op = "create" /\ ~r.undo /\ r.pc # "restore" => r.task \in Tasks
  /\ r.pc = "task" => r.op = "create"
  /\ r.pc = "schedule" => r.op # "none" /\ (r.op # "create" \/ r.revision # 0)
  /\ r.pc = "previous" => /\ r.prev # None
                          /\ r.op = "delete" \/ (r.op = "create" /\ r.revision # 0)
  /\ r.pc = "snapshot" => IF r.undo THEN r.prev # None /\ r.prev_task # 0
                          ELSE r.op = "create" /\ r.revision # 0
  /\ r.pc = "register" => IF r.undo THEN r.prev # None ELSE r.op = "create"
  /\ r.pc = "store" => r.op = "create" \/ (r.op = "set" /\ r.prev # None)
  /\ r.pc = "set" => r.op = "set" /\ r.prev # None
  /\ r.pc \in {"unregister", "forget"} => r.undo \/ (r.op = "delete" /\ r.prev # None)
  /\ r.pc = "remove" => r.prev # None

Inv == /\ TypeOK
       /\ \A c \in Callers : Locals(call[c])
       /\ ScheduleNamesATask

(* A command that is to register has a definition and a task to do it with.*)
LEMMA RegistersADefinition ==
  ASSUME Inv, NEW c \in Callers, call[c].pc \in {"snapshot", "register", "store"}
  PROVE  DefinitionOf(c) \in Definition
<1>1. call[c] \in Call /\ Locals(call[c])
  BY DEF Inv, TypeOK
<1>2. CASE call[c].undo
  BY <1>1, <1>2 DEF Locals, Call, DefinitionOf
<1>3. CASE ~call[c].undo
  BY <1>1, <1>3, NoneAssumption DEF Locals, Call, DefinitionOf, Definition
<1> QED
  BY <1>1, <1>2, <1>3 DEF Call

LEMMA SnapshotsATask ==
  ASSUME Inv, NEW c \in Callers, call[c].pc = "snapshot"
  PROVE  SnapshotOf(c) \in Snapshot
<1>1. call[c] \in Call /\ Locals(call[c])
  BY DEF Inv, TypeOK
<1>2. DefinitionOf(c) \in Definition
  BY RegistersADefinition
<1> QED
  BY <1>1, <1>2 DEF Locals, Call, SnapshotOf, Snapshot, Definition

LEMMA IdleLocals == NoCall \in Call /\ Locals(NoCall)
BY ScheduleAssumption DEF NoCall, Call, Pc, Locals, Excuse

LEMMA InitInv == Init => Inv
BY IdleLocals, ScheduleAssumption
DEF Init, Inv, TypeOK, ScheduleNamesATask, Definition, Snapshot, Excuse

(* A step of one command that leaves the tables alone.                     *)
LEMMA OneCall ==
  ASSUME Inv, NEW c \in Callers, NEW r \in Call, Locals(r),
         call' = [call EXCEPT ![c] = r],
         registered' \in [Schedules -> {None, "enabled", "disabled"}],
         snapshot' \in [Schedules -> Snapshot \cup {None, Damaged}],
         excuse' \in [Schedules -> Excuse], UNCHANGED tables
  PROVE  Inv'
BY DEF Inv, TypeOK, ScheduleNamesATask, tables

LEMMA BothIsExcuse == \A x, y \in Excuse : Both(x, y) \in Excuse
BY DEF Both, Excuse

LEMMA AgainIsExcuse == \A c, failed : Again(c, failed) \in Excuse
BY DEF Again, Excuse

LEMMA ExcuseNames ==
  /\ "none" \in Excuse /\ "replaced" \in Excuse /\ "flag" \in Excuse
  /\ "unrestored" \in Excuse /\ "disturbed" \in Excuse
BY DEF Excuse

LEMMA ReturnsExcuse ==
  ASSUME TypeOK, NEW c \in Callers, NEW success \in BOOLEAN, NEW why \in Excuse,
         Return(c, success, why)
  PROVE  excuse' \in [Schedules -> Excuse]
<1>1. call[c].excuse \in Excuse /\ excuse \in [Schedules -> Excuse]
  BY DEF TypeOK, Call
<1>2. (IF call[c].excuse = "disturbed" THEN "disturbed" ELSE why) \in Excuse
  BY ExcuseNames
<1>3. \A x \in Excuse :
        (Both(x, IF call[c].excuse = "disturbed" THEN "disturbed" ELSE why)) \in Excuse
  BY <1>2, BothIsExcuse
<1> QED
  BY <1>1, <1>3 DEF Return

LEMMA Returned ==
  ASSUME Inv, NEW c \in Callers, NEW success \in BOOLEAN, NEW why \in Excuse,
         Return(c, success, why),
         registered' \in [Schedules -> {None, "enabled", "disabled"}],
         snapshot' \in [Schedules -> Snapshot \cup {None, Damaged}],
         UNCHANGED tables
  PROVE  Inv'
<1>1. call' = [call EXCEPT ![c] = NoCall]
  BY DEF Return
<1> QED
  BY <1>1, ReturnsExcuse, OneCall, IdleLocals DEF Inv

(* Only the command's own history variable changes.                        *)
LEMMA ExcuseIsFree ==
  ASSUME NEW k \in Call, Locals(k), NEW b \in Excuse
  PROVE  [k EXCEPT !.excuse = b] \in Call /\ Locals([k EXCEPT !.excuse = b])
<1> DEFINE r == [k EXCEPT !.excuse = b]
<1>1. r \in Call
  BY DEF Call
<1>2. /\ r.pc = k.pc /\ r.op = k.op /\ r.name = k.name /\ r.task = k.task
      /\ r.undo = k.undo /\ r.revision = k.revision
      /\ r.prev = k.prev /\ r.prev_task = k.prev_task
  BY DEF Call
<1>3. Locals(r)
  <2> HIDE DEF r
  <2> QED
    BY <1>2 DEF Locals
<1> QED
  BY <1>1, <1>3

(* A step that moves one command from place to place.                      *)
LEMMA WentTo ==
  ASSUME Inv, NEW c \in Callers, NEW pc \in Pc, NEW failed \in BOOLEAN,
         Goto(c, pc, failed), failed => call[c].faults < MaxFaults,
         NEW r, r = [call[c] EXCEPT !.pc = pc, !.faults = Faults(c, failed),
                                    !.excuse = Both(call[c].excuse, Again(c, failed))],
         Locals(r),
         registered' \in [Schedules -> {None, "enabled", "disabled"}],
         snapshot' \in [Schedules -> Snapshot \cup {None, Damaged}],
         UNCHANGED tables
  PROVE  Inv'
<1>1. call[c] \in Call
  BY DEF Inv, TypeOK
<1>2. Faults(c, failed) \in 0..MaxFaults
  <2>1. call[c].faults \in 0..MaxFaults
    BY <1>1 DEF Call
  <2> QED
    BY <2>1, ScheduleAssumption DEF Faults
<1>e. Both(call[c].excuse, Again(c, failed)) \in Excuse
  BY <1>1, BothIsExcuse, AgainIsExcuse DEF Call
<1>3. r \in Call
  BY <1>1, <1>2, <1>e DEF Call
<1>4. call' = [call EXCEPT ![c] = r] /\ UNCHANGED excuse
  BY <1>1 DEF Goto, Inv, TypeOK, Call
<1> QED
  BY <1>3, <1>4, OneCall DEF Inv, TypeOK

(* A task command leaves its mark on the commands that have read the task. *)
LEMMA Marked ==
  ASSUME Inv, NEW t \in Tasks,
         call' = [d \in Callers |->
                    [call[d] EXCEPT !.excuse =
                       Both(@, IF HasRead(d, t) THEN "replaced" ELSE "none")]]
  PROVE  call' \in [Callers -> Call] /\ \A d \in Callers : Locals(call'[d])
<1> SUFFICES ASSUME NEW d \in Callers PROVE call'[d] \in Call /\ Locals(call'[d])
  OBVIOUS
<1>1. call[d] \in Call /\ Locals(call[d])
  BY DEF Inv, TypeOK
<1>2. PICK e : e = Both(call[d].excuse, IF HasRead(d, t) THEN "replaced" ELSE "none")
  OBVIOUS
<1>3. e \in Excuse
  <2>1. (IF HasRead(d, t) THEN "replaced" ELSE "none") \in Excuse /\ call[d].excuse \in Excuse
    BY <1>1 DEF Excuse, Call
  <2> QED
    BY <1>2, <2>1, BothIsExcuse
<1>4. call'[d] = [call[d] EXCEPT !.excuse = e]
  BY <1>2
<1> QED
  BY <1>1, <1>3, <1>4, ExcuseIsFree

(* The locals a command starts with.                                       *)
Starting(k) ==
  /\ ~k.undo /\ k.pc # "restore"
  /\ \/ k.pc = "task" /\ k.op = "create" /\ k.task \in Tasks
     \/ k.pc = "schedule" /\ k.op \in {"delete", "set"}

LEMMA Begun ==
  ASSUME Inv, NEW c \in Callers, NEW n \in Schedules, NEW k \in Call, Starting(k),
         Begin(c, n, k)
  PROVE  Inv'
<1> DEFINE r == [k EXCEPT !.name = n, !.excuse = IF Quiet(n) THEN "none" ELSE "disturbed"]
<1>1. r \in Call /\ Locals(r)
  BY DEF Call, Locals, Excuse, Starting
<1>2. \A d \in Callers : call[d] \in Call /\ Locals(call[d])
  BY DEF Inv, TypeOK
<1>3. \A d \in Callers :
        call'[d] = IF d = c THEN r
                   ELSE [call[d] EXCEPT !.excuse = IF Name(d) = n THEN "disturbed" ELSE @]
  BY DEF Begin
<1>4. \A d \in Callers : call'[d] \in Call /\ Locals(call'[d])
  <2> SUFFICES ASSUME NEW d \in Callers, d # c
               PROVE  call'[d] \in Call /\ Locals(call'[d])
    BY <1>1, <1>3
  <2>1. call[d] \in Call /\ Locals(call[d])
    BY <1>2
  <2>2. PICK e : e = IF Name(d) = n THEN "disturbed" ELSE call[d].excuse
    OBVIOUS
  <2>3. call'[d] = [call[d] EXCEPT !.excuse = e] /\ e \in Excuse
    BY <1>3, <2>1, <2>2 DEF Call, Excuse
  <2> QED
    BY <2>1, <2>3, ExcuseIsFree
<1>5. call' \in [Callers -> Call]
  <2>1. call' = [d \in Callers |-> call'[d]]
    BY DEF Begin
  <2> QED
    BY <1>4, <2>1
<1> QED
  BY <1>4, <1>5 DEF Begin, Inv, TypeOK, ScheduleNamesATask, tables

LEMMA StepInv == Inv /\ [Next]_vars => Inv'
<1> SUFFICES ASSUME Inv, [Next]_vars PROVE Inv'
  OBVIOUS
<1>T. TypeOK /\ \A c \in Callers : call[c] \in Call /\ Locals(call[c])
  BY DEF Inv, TypeOK
<1>1. ASSUME NEW c \in Callers, NEW t \in Tasks, NEW replace \in BOOLEAN,
             PutTask(c, t, replace)
      PROVE  Inv'
  <2>1. call' \in [Callers -> Call] /\ \A d \in Callers : Locals(call'[d])
    BY <1>1, Marked DEF PutTask
  <2>2. ScheduleNamesATask'
    BY <1>1 DEF Inv, TypeOK, ScheduleNamesATask, PutTask
  <2> QED
    BY <1>1, <2>1, <2>2, ScheduleAssumption
       DEF Inv, TypeOK, PutTask, Revision
<1>2. ASSUME NEW c \in Callers, NEW t \in Tasks, DeleteTask(c, t)
      PROVE  Inv'
  <2>2. ScheduleNamesATask'
    BY <1>2 DEF Inv, TypeOK, ScheduleNamesATask, DeleteTask, Referenced
  <2> QED
    BY <1>2, <2>2 DEF Inv, TypeOK, DeleteTask
<1>3. ASSUME NEW c \in Callers, ScheduleCommand(c)
      PROVE  Inv'
  <2>1. PICK n \in Schedules, flag \in BOOLEAN :
          \/ \E t \in Tasks, enabled \in BOOLEAN : BeginCreate(c, n, t, enabled, flag)
          \/ BeginDelete(c, n, flag)
          \/ BeginSet(c, n, flag)
    BY <1>3 DEF ScheduleCommand
  <2>2. ASSUME NEW t \in Tasks, NEW enabled \in BOOLEAN,
               BeginCreate(c, n, t, enabled, flag)
        PROVE  Inv'
    <3> DEFINE k == [NoCall EXCEPT !.pc = "task", !.op = "create", !.task = t,
                                   !.enabled = enabled, !.force = flag]
    <3>1. k \in Call /\ Starting(k)
      BY IdleLocals DEF NoCall, Call, Pc, Starting
    <3>2. Begin(c, n, k)
      BY <2>2 DEF BeginCreate
    <3> HIDE DEF k
    <3> QED
      BY <3>1, <3>2, Begun
  <2>3. ASSUME BeginDelete(c, n, flag)
        PROVE  Inv'
    <3> DEFINE k == [NoCall EXCEPT !.pc = "schedule", !.op = "delete", !.force = flag]
    <3>1. k \in Call /\ Starting(k)
      BY IdleLocals DEF NoCall, Call, Pc, Starting
    <3>2. Begin(c, n, k)
      BY <2>3 DEF BeginDelete
    <3> HIDE DEF k
    <3> QED
      BY <3>1, <3>2, Begun
  <2>4. ASSUME BeginSet(c, n, flag)
        PROVE  Inv'
    <3> DEFINE k == [NoCall EXCEPT !.pc = "schedule", !.op = "set", !.enabled = flag]
    <3>1. k \in Call /\ Starting(k)
      BY IdleLocals DEF NoCall, Call, Pc, Starting
    <3>2. Begin(c, n, k)
      BY <2>4 DEF BeginSet
    <3> HIDE DEF k
    <3> QED
      BY <3>1, <3>2, Begun
  <2> QED
    BY <2>1, <2>2, <2>3, <2>4
<1>4. ASSUME NEW c \in Callers, ReadFails(c)
      PROVE  Inv'
  BY <1>4, Returned, ExcuseNames DEF Inv, TypeOK, ReadFails
<1>5. ASSUME NEW c \in Callers, ReadTask(c)
      PROVE  Inv'
  <2>1. CASE tasks[call[c].task] = 0
    BY <1>5, <2>1, Returned, ExcuseNames DEF ReadTask, Inv, TypeOK
  <2>2. CASE tasks[call[c].task] # 0
    <3> DEFINE r == [call[c] EXCEPT !.pc = "schedule", !.revision = tasks[call[c].task]]
    <3>1. call[c].op = "create" /\ call[c].task \in Tasks /\ ~call[c].undo
      BY <1>5, <1>T DEF Locals, Call, ReadTask, At
    <3>2. tasks[call[c].task] \in Revision \cup {0} /\ "schedule" \in Pc
      BY <3>1, <1>T DEF TypeOK, Pc
    <3>3. r \in Call
      BY <3>2, <1>T DEF Call
    <3>4. Locals(r)
      BY <1>5, <2>2, <3>1, <1>T DEF Call, Locals, ReadTask, At
    <3>5. call' = [call EXCEPT ![c] = r] /\ UNCHANGED excuse
      BY <1>5, <2>2, <1>T DEF TypeOK, Call, ReadTask
    <3> HIDE DEF r
    <3> QED
      BY <1>5, <3>3, <3>4, <3>5, <1>T, OneCall DEF TypeOK, ReadTask
  <2> QED
    BY <2>1, <2>2
<1>6. ASSUME NEW c \in Callers, ReadSchedule(c)
      PROVE  Inv'
  <2> DEFINE stored == schedules[Name(c)]
             next == IF call[c].op = "set" THEN "set"
                     ELSE IF stored # None THEN "previous" ELSE "snapshot"
             r == [call[c] EXCEPT !.pc = next, !.prev = stored]
  <2>1. CASE Return(c, FALSE, "none")
    BY <1>6, <2>1, Returned, ExcuseNames DEF ReadSchedule, Inv, TypeOK
  <2>2. CASE ~Return(c, FALSE, "none")
    <3>1. /\ call' = [call EXCEPT ![c] = r]
          /\ UNCHANGED <<tables, registered, snapshot, excuse>>
          /\ call[c].op # "create" => stored # None
      BY <1>6, <2>2, <1>T DEF ReadSchedule, TypeOK, Call
    <3>2. /\ stored \in Definition \cup {None}
          /\ call[c].op \in {"create", "delete", "set"}
      BY <1>6, <1>T DEF TypeOK, Locals, Call, ReadSchedule, At, Name
    <3>3. next \in Pc
      BY DEF Pc
    <3>4. r \in Call
      <4> HIDE DEF next, stored
      <4> QED
        BY <3>2, <3>3, <1>T DEF Call
    <3>5. Locals(r)
      BY <1>6, <3>1, <3>2, <1>T DEF Call, Locals, ReadSchedule, At
    <3> HIDE DEF r, stored
    <3> QED
      BY <3>1, <3>4, <3>5, <1>T, OneCall DEF TypeOK
  <2> QED
    BY <2>1, <2>2
<1>7. ASSUME NEW c \in Callers, ReadPreviousTask(c)
      PROVE  Inv'
  <2>1. PICK failed \in {f \in BOOLEAN : f => Fault(c, "state")} :
          call' = [call EXCEPT
            ![c].pc = IF call[c].op = "delete" THEN "unregister" ELSE "snapshot",
            ![c].prev_task = IF failed THEN 0 ELSE tasks[call[c].prev.task],
            ![c].faults = Faults(c, failed)]
    BY <1>7 DEF ReadPreviousTask
  <2> DEFINE next == IF call[c].op = "delete" THEN "unregister" ELSE "snapshot"
             found == IF failed THEN 0 ELSE tasks[call[c].prev.task]
             count == Faults(c, failed)
             r == [call[c] EXCEPT !.pc = next, !.prev_task = found, !.faults = count]
  <2>2. call[c].prev \in Definition /\ call[c].faults \in 0..MaxFaults
    BY <1>7, <1>T DEF Locals, Call, ReadPreviousTask, At
  <2>3. next \in Pc /\ found \in Revision \cup {0} /\ count \in 0..MaxFaults
    BY <2>1, <2>2, <1>T, ScheduleAssumption DEF TypeOK, Definition, Pc, Faults, Fault
  <2>4. call' = [call EXCEPT ![c] = r]
    BY <2>1, <1>T DEF TypeOK, Call
  <2>5. Locals(r)
    BY <1>7, <1>T DEF Call, Locals, ReadPreviousTask, At
  <2> HIDE DEF next, found, count
  <2>6. r \in Call
    BY <2>3, <1>T DEF Call
  <2> HIDE DEF r
  <2> QED
    BY <1>7, <1>T, <2>4, <2>5, <2>6, OneCall DEF TypeOK, ReadPreviousTask
<1>8. ASSUME NEW c \in Callers, WriteSnapshot(c)
      PROVE  Inv'
  <2> DEFINE r == [call[c] EXCEPT !.pc = "register", !.revision = 0, !.saved = snapshot[Name(c)]]
  <2>1. Name(c) \in Schedules /\ "register" \in Pc
    BY <1>8, <1>T DEF Locals, WriteSnapshot, At, Name, Pc
  <2>2. SnapshotOf(c) \in Snapshot
    BY <1>8, <1>T, SnapshotsATask DEF WriteSnapshot, At
  <2>3. snapshot[Name(c)] \in Snapshot \cup {None, Damaged}
    BY <1>8, <1>T, <2>1 DEF TypeOK
  <2>4. r \in Call
    BY <1>T, <2>1, <2>2, <2>3 DEF Call
  <2>5. Locals(r)
    BY <1>8, <1>T, <2>1, <2>2, <2>3 DEF Call, Locals, WriteSnapshot, At
  <2>6. call' = [call EXCEPT ![c] = r]
    BY <1>8, <1>T DEF TypeOK, Call, WriteSnapshot
  <2> HIDE DEF r
  <2> QED
    BY <1>8, <1>T, <2>1, <2>2, <2>3, <2>4, <2>5, <2>6, OneCall
       DEF TypeOK, WriteSnapshot, Name
<1>9. ASSUME NEW c \in Callers, WriteSnapshotFails(c)
      PROVE  Inv'
  <2>1. PICK why : Return(c, FALSE, why) /\ why \in Excuse
    <3>1. PICK left \in {snapshot[Name(c)], Damaged} :
            Return(c, FALSE, Both(Again(c, TRUE),
                     IF left = snapshot[Name(c)] THEN "none" ELSE "unrestored"))
      BY <1>9 DEF WriteSnapshotFails
    <3> QED
      BY <3>1, BothIsExcuse, AgainIsExcuse, ExcuseNames
  <2> QED
    BY <1>9, <2>1, Returned DEF Inv, TypeOK, WriteSnapshotFails
<1>10. ASSUME NEW c \in Callers, XmlFails(c)
      PROVE  Inv'
  <2>1. PICK why : Return(c, FALSE, why) /\ why \in Excuse
    BY <1>10, BothIsExcuse, AgainIsExcuse, ExcuseNames DEF XmlFails
  <2> QED
    BY <1>10, <2>1, Returned DEF Inv, TypeOK, XmlFails
<1>11. ASSUME NEW c \in Callers, Register(c)
      PROVE  Inv'
  <2>1. DefinitionOf(c).enabled \in BOOLEAN
    BY <1>11, RegistersADefinition DEF Register, At, Definition
  <2>2. registered' \in [Schedules -> {None, "enabled", "disabled"}]
    BY <1>11, <1>T, <2>1 DEF TypeOK, Register, Setting
  <2>3. CASE call[c].undo
    BY <1>11, <1>T, <2>2, <2>3, Returned, ExcuseNames DEF TypeOK, Register
  <2>4. CASE ~call[c].undo
    <3> DEFINE r == [call[c] EXCEPT !.pc = "store", !.saved = None]
    <3>1. r \in Call
      BY <1>T DEF Call, Pc
    <3>2. Locals(r)
      BY <1>11, <2>4, <1>T DEF Call, Locals, Register, At
    <3>3. call' = [call EXCEPT ![c] = r] /\ UNCHANGED excuse
      BY <1>11, <2>4, <1>T DEF TypeOK, Call, Register
    <3> HIDE DEF r
    <3> QED
      BY <1>11, <1>T, <2>2, <3>1, <3>2, <3>3, OneCall DEF TypeOK, Register
  <2> QED
    BY <2>3, <2>4
<1>12. ASSUME NEW c \in Callers, RegisterFails(c)
      PROVE  Inv'
  <2> DEFINE e == Both(call[c].excuse, Again(c, TRUE))
             r == [NoCall EXCEPT !.pc = "restore", !.op = call[c].op, !.name = Name(c),
                              !.prev = call[c].prev, !.saved = call[c].saved,
                              !.undo = call[c].undo, !.faults = call[c].faults + 1,
                              !.excuse = e]
  <2>e. e \in Excuse
    BY <1>T, BothIsExcuse, AgainIsExcuse DEF Call
  <2>1. call[c].faults + 1 \in 0..MaxFaults
    BY <1>12, <1>T, ScheduleAssumption DEF Call, RegisterFails, Fault
  <2>4. call' = [call EXCEPT ![c] = r]
    BY <1>12, <1>T DEF TypeOK, Call, RegisterFails
  <2> HIDE DEF e
  <2>2. r \in Call
    BY <1>T, <2>1, <2>e DEF Call, NoCall, Name, Pc
  <2>3. Locals(r)
    BY <1>12, <1>T, <2>1 DEF Call, Locals, RegisterFails, At, NoCall, Name
  <2> HIDE DEF r
  <2> QED
    BY <1>12, <1>T, <2>1, <2>2, <2>3, <2>4, OneCall DEF TypeOK, RegisterFails
<1>13. ASSUME NEW c \in Callers, RestoreSnapshot(c)
      PROVE  Inv'
  <2>1. call[c].saved \in Snapshot \cup {None, Damaged}
    BY <1>T DEF Call
  <2>2. snapshot' \in [Schedules -> Snapshot \cup {None, Damaged}]
    BY <1>13, <1>T, <2>1 DEF TypeOK, RestoreSnapshot
  <2>3. PICK why : Return(c, FALSE, why) /\ why \in Excuse
    BY <1>13, AgainIsExcuse, ExcuseNames DEF RestoreSnapshot
  <2> QED
    BY <1>13, <2>2, <2>3, <1>T, Returned DEF TypeOK, RestoreSnapshot
<1>14. ASSUME NEW c \in Callers, StoreSchedule(c)
      PROVE  Inv'
  <2>1. DefinitionOf(c) \in Definition
    BY <1>14, RegistersADefinition DEF StoreSchedule, At
  <2>2. schedules' \in [Schedules -> Definition \cup {None}]
    BY <1>14, <1>T, <2>1 DEF TypeOK, StoreSchedule
  <2>3. ScheduleNamesATask'
    BY <1>14, <1>T DEF Inv, TypeOK, ScheduleNamesATask, StoreSchedule, CanStore
  <2>4. call' = [call EXCEPT ![c] = NoCall] /\ excuse' \in [Schedules -> Excuse]
    <3>1. Return(c, TRUE, "none") /\ call[c].excuse \in Excuse
      BY <1>14, <1>T DEF StoreSchedule, Call
    <3> QED
      BY <3>1, <1>T, ReturnsExcuse, ExcuseNames DEF Return
  <2> QED
    BY <1>14, <1>T, <2>2, <2>3, <2>4, IdleLocals DEF Inv, TypeOK, StoreSchedule
<1>15. ASSUME NEW c \in Callers, StoreFails(c)
      PROVE  Inv'
  <2> DEFINE next == Compensation(c)
             count == Faults(c, CanStore(c))
             e == Both(call[c].excuse, Again(c, TRUE))
             r == [call[c] EXCEPT !.pc = next, !.undo = TRUE, !.task = None,
                                  !.force = FALSE, !.faults = count, !.excuse = e]
  <2>e. e \in Excuse
    BY <1>T, BothIsExcuse, AgainIsExcuse DEF Call
  <2>1. count \in 0..MaxFaults
    BY <1>15, <1>T, ScheduleAssumption DEF Call, StoreFails, Fault, Faults
  <2>2. next \in {"unset", "snapshot", "unregister"}
    BY DEF Compensation
  <2>3. next = "snapshot" => call[c].prev # None /\ call[c].prev_task # 0
    BY DEF Compensation, CanRegisterAgain
  <2>4. call' = [call EXCEPT ![c] = r]
    BY <1>15, <1>T DEF TypeOK, Call, StoreFails
  <2>5. next \in Pc
    BY DEF Compensation, Pc
  <2> HIDE DEF next, count, e
  <2>6. r \in Call
    BY <2>1, <2>5, <2>e, <1>T DEF Call
  <2>7. Locals(r)
    BY <1>15, <2>2, <2>3, <1>T DEF Call, Locals, StoreFails, At
  <2> HIDE DEF r
  <2> QED
    BY <1>15, <1>T, <2>4, <2>6, <2>7, OneCall DEF TypeOK, StoreFails
<1>16. ASSUME NEW c \in Callers, Unregister(c)
      PROVE  Inv'
  <2>1. "forget" \in Pc /\ FALSE \in BOOLEAN
    BY DEF Pc
  <2>2. \A r : r = [call[c] EXCEPT !.pc = "forget", !.faults = Faults(c, FALSE),
                       !.excuse = Both(call[c].excuse, Again(c, FALSE))]
               => Locals(r)
    BY <1>16, <1>T DEF Call, Locals, Unregister, At
  <2>3. registered' \in [Schedules -> {None, "enabled", "disabled"}]
    BY <1>16, <1>T DEF TypeOK, Unregister
  <2> QED
    BY <1>16, <1>T, <2>1, <2>2, <2>3, WentTo DEF TypeOK, Unregister
<1>17. ASSUME NEW c \in Callers, UnregisterFails(c)
      PROVE  Inv'
  <2> DEFINE failed == registered[Name(c)] # None
  <2>1. CASE Return(c, FALSE, Again(c, TRUE))
    BY <1>17, <1>T, <2>1, Returned, AgainIsExcuse DEF TypeOK, UnregisterFails
  <2>2. CASE call[c].op = "delete" /\ Goto(c, "forget", failed)
    <3>1. "forget" \in Pc /\ failed \in BOOLEAN
      BY DEF Pc
    <3>2. \A r : r = [call[c] EXCEPT !.pc = "forget", !.faults = Faults(c, failed),
                       !.excuse = Both(call[c].excuse, Again(c, failed))]
                 => Locals(r)
      BY <1>17, <1>T DEF Call, Locals, UnregisterFails, At
    <3>3. failed => call[c].faults < MaxFaults
      BY <1>17 DEF UnregisterFails, Fault
    <3> HIDE DEF failed
    <3> QED
      BY <1>17, <1>T, <2>2, <3>1, <3>2, <3>3, WentTo DEF TypeOK, UnregisterFails
  <2> QED
    BY <1>17, <2>1, <2>2 DEF UnregisterFails
<1>18. ASSUME NEW c \in Callers, ForgetSnapshot(c)
      PROVE  Inv'
  <2>1. PICK failed \in {f \in BOOLEAN : f => Fault(c, "remove")} :
          /\ snapshot' = IF failed THEN snapshot
                         ELSE [snapshot EXCEPT ![Name(c)] = None]
          /\ IF call[c].undo THEN Return(c, FALSE, Again(c, failed))
             ELSE Goto(c, "remove", failed)
    BY <1>18 DEF ForgetSnapshot
  <2>2. snapshot' \in [Schedules -> Snapshot \cup {None, Damaged}]
    BY <1>T, <2>1 DEF TypeOK
  <2>3. CASE call[c].undo
    BY <1>18, <1>T, <2>1, <2>2, <2>3, Returned, AgainIsExcuse DEF TypeOK, ForgetSnapshot
  <2>4. CASE ~call[c].undo
    <3>1. "remove" \in Pc /\ failed \in BOOLEAN
      BY DEF Pc
    <3>2. \A r : r = [call[c] EXCEPT !.pc = "remove", !.faults = Faults(c, failed),
                       !.excuse = Both(call[c].excuse, Again(c, failed))]
                 => Locals(r)
      BY <1>18, <1>T, <2>4 DEF Call, Locals, ForgetSnapshot, At
    <3>3. failed => call[c].faults < MaxFaults
      BY <2>1 DEF Fault
    <3>4. Goto(c, "remove", failed)
      BY <2>1, <2>4
    <3>5. registered' \in [Schedules -> {None, "enabled", "disabled"}] /\ UNCHANGED tables
      BY <1>18, <1>T DEF TypeOK, ForgetSnapshot
    <3> QED
      BY <2>2, <3>1, <3>2, <3>3, <3>4, <3>5, WentTo
  <2> QED
    BY <2>3, <2>4
<1>19. ASSUME NEW c \in Callers, RemoveSchedule(c)
      PROVE  Inv'
  <2>1. call' = [call EXCEPT ![c] = NoCall] /\ excuse' \in [Schedules -> Excuse]
    <3>1. PICK success \in BOOLEAN : Return(c, success, "none")
      BY <1>19 DEF RemoveSchedule
    <3> QED
      BY <3>1, <1>T, ReturnsExcuse, ExcuseNames DEF Return
  <2>2. schedules' \in [Schedules -> Definition \cup {None}]
    BY <1>19, <1>T DEF TypeOK, RemoveSchedule
  <2>3. ScheduleNamesATask'
    BY <1>19, <1>T DEF Inv, TypeOK, ScheduleNamesATask, RemoveSchedule
  <2> QED
    BY <1>19, <1>T, <2>1, <2>2, <2>3, IdleLocals DEF Inv, TypeOK, RemoveSchedule
<1>20. ASSUME NEW c \in Callers, RemoveFails(c)
      PROVE  Inv'
  <2>1. CASE call[c].prev_task = 0
    BY <1>20, <1>T, <2>1, Returned, AgainIsExcuse DEF TypeOK, RemoveFails
  <2>2. CASE call[c].prev_task # 0
    <3> DEFINE count == call[c].faults + 1
               e == Both(call[c].excuse, Again(c, TRUE))
               r == [call[c] EXCEPT !.pc = "snapshot", !.undo = TRUE, !.faults = count,
                                    !.excuse = e]
    <3>e. e \in Excuse
      BY <1>T, BothIsExcuse, AgainIsExcuse DEF Call
    <3>1. count \in 0..MaxFaults
      BY <1>20, <1>T, ScheduleAssumption DEF Call, RemoveFails, Fault
    <3>2. call' = [call EXCEPT ![c] = r] /\ UNCHANGED excuse
      BY <1>20, <1>T, <2>2 DEF TypeOK, Call, RemoveFails
    <3>3. Locals(r)
      BY <1>20, <1>T, <2>2 DEF Call, Locals, RemoveFails, At
    <3> HIDE DEF count, e
    <3>4. r \in Call
      BY <1>T, <3>1, <3>e DEF Call, Pc
    <3> HIDE DEF r
    <3> QED
      BY <1>20, <1>T, <3>2, <3>3, <3>4, OneCall DEF TypeOK, RemoveFails
  <2> QED
    BY <2>1, <2>2
<1>21. ASSUME NEW c \in Callers, SetEnabled(c)
      PROVE  Inv'
  <2>1. "store" \in Pc /\ FALSE \in BOOLEAN
    BY DEF Pc
  <2>2. \A r : r = [call[c] EXCEPT !.pc = "store", !.faults = Faults(c, FALSE),
                       !.excuse = Both(call[c].excuse, Again(c, FALSE))]
               => Locals(r)
    BY <1>21, <1>T DEF Call, Locals, SetEnabled, At
  <2>3. registered' \in [Schedules -> {None, "enabled", "disabled"}]
    BY <1>21, <1>T DEF TypeOK, SetEnabled, Setting
  <2> QED
    BY <1>21, <1>T, <2>1, <2>2, <2>3, WentTo DEF TypeOK, SetEnabled
<1>22. ASSUME NEW c \in Callers, SetEnabledFails(c)
      PROVE  Inv'
  BY <1>22, Returned, ExcuseNames DEF Inv, TypeOK, SetEnabledFails
<1>23. ASSUME NEW c \in Callers, UnsetEnabled(c)
      PROVE  Inv'
  <2>1. registered' \in [Schedules -> {None, "enabled", "disabled"}]
    BY <1>23, <1>T DEF TypeOK, UnsetEnabled, Setting
  <2>2. PICK why : Return(c, FALSE, why) /\ why \in Excuse
    BY <1>23, AgainIsExcuse, ExcuseNames DEF UnsetEnabled
  <2> QED
    BY <1>23, <1>T, <2>1, <2>2, Returned DEF TypeOK, UnsetEnabled
<1>24. ASSUME Crash PROVE Inv'
  <2>1. excuse' \in [Schedules -> Excuse]
    BY <1>24, <1>T, ExcuseNames DEF TypeOK, Crash
  <2> QED
    BY <1>24, <2>1, <1>T, IdleLocals DEF Inv, TypeOK, ScheduleNamesATask, Crash, tables
<1>25. ASSUME UNCHANGED vars PROVE Inv'
  BY <1>25 DEF Inv, TypeOK, ScheduleNamesATask, vars, tables
<1>26. ASSUME NEW c \in Callers, CommandStep(c) PROVE Inv'
  BY <1>26, <1>4, <1>5, <1>6, <1>7, <1>8, <1>9, <1>10, <1>11, <1>12, <1>13, <1>14,
     <1>15, <1>16, <1>17, <1>18, <1>19, <1>20, <1>21, <1>22, <1>23
     DEF CommandStep
<1> QED
  BY <1>1, <1>2, <1>3, <1>24, <1>25, <1>26 DEF Next, TaskCommand

(* Every local a command holds has its type; above all, it never registers *)
(* a schedule again without the task it read for the compensation.         *)
THEOREM RegistryTypeCorrect == Spec => []TypeOK
<1>1. Inv => TypeOK
  BY DEF Inv
<1> QED
  BY InitInv, StepInv, <1>1, PTL DEF Spec

(* Whatever task and schedule commands, failures and crashes interleave,   *)
(* every stored schedule names a stored task.                              *)
THEOREM ScheduleNamesATaskAlways == Spec => []ScheduleNamesATask
<1>1. Inv => ScheduleNamesATask
  BY DEF Inv
<1> QED
  BY InitInv, StepInv, <1>1, PTL DEF Spec
-----------------------------------------------------------------------------
(* The two stores agree.  While a command runs they need not: the          *)
(* invariant follows what an undisturbed command has read and written so   *)
(* far, and what its compensation has to go by.                            *)

(* A stored schedule s, a scheduler entry g and a snapshot f agree.        *)
Right(s, g, f) ==
  IF s = None THEN g = None \/ f = None
  ELSE g = Setting(s.enabled) /\ f = Current(s.task)

(* What the command r knows is still so: s is the stored schedule.  The    *)
(* task of a create may have gone, but while nothing replaced it, it is    *)
(* the one that was read.                                                  *)
Creating(r, places) == r.op = "create" /\ ~r.undo /\ r.pc \in places
Kept(r) == r.excuse = "none" /\ tasks[r.task] # 0
Reads(r, s) ==
  /\ r.pc \notin {"task", "schedule"} => r.prev = s
  /\ r.op = "set" => r.pc \in {"schedule", "set", "store", "unset"}
  /\ Creating(r, {"schedule", "previous", "snapshot"}) /\ Kept(r)
       => r.revision = tasks[r.task]
  /\ Creating(r, {"previous", "snapshot", "register", "store"}) /\ ~r.force => s = None
  /\ /\ r.op # "set"
     /\ r.pc \in {"snapshot", "register", "store", "unregister", "forget", "remove"}
     /\ s # None
     /\ r.undo \/ r.faults = 0
    => r.prev_task = tasks[s.task]

(* Where r has changed nothing.                                            *)
Untouched(r) ==
  \/ r.pc \in {"task", "schedule", "previous", "set"}
  \/ r.pc \in {"snapshot", "unregister"} /\ ~r.undo

(* What r has made of the entry g and the snapshot f so far; k says that   *)
(* they were right when it began.                                          *)
Writes(r, s, g, f, k) ==
  /\ Untouched(r) /\ k => Right(s, g, f)
  /\ r.pc = "register" =>
       IF r.undo THEN f = Current(s.task)
       ELSE /\ Kept(r) => f = Current(r.task)
            /\ k => Right(s, g, r.saved)
  /\ r.pc = "restore" => /\ ~r.undo /\ r.faults # 0
                         /\ k => Right(s, g, r.saved)
  /\ r.pc = "store" /\ r.op = "create" =>
       g = Setting(r.enabled) /\ (Kept(r) => f = Current(r.task))
  /\ r.pc \in {"store", "unset"} /\ r.op = "set" =>
       g = Setting(r.enabled) /\ (k => f = Current(s.task))
  /\ r.pc = "unset" => r.op = "set" /\ r.undo /\ s # None
  /\ r.pc = "unregister" /\ r.undo => s = None
  /\ r.pc = "forget" => IF r.undo THEN s = None /\ g = None
                        ELSE g = None \/ r.faults # 0
  /\ r.pc = "remove" => g = None \/ (r.faults # 0 /\ f = None)

Clean(r) == r.excuse # "disturbed"
Trusted(n) == excuse[n] = "none"

OnCourse(r, n) ==
  /\ Reads(r, schedules[n])
  /\ Writes(r, schedules[n], registered[n], snapshot[n], Trusted(n))

AgreeInv ==
  /\ \A c \in Callers : At(c, "idle") => call[c] = NoCall
  /\ \A c, d \in Callers :
       Name(c) # None /\ Clean(call[c]) /\ d # c => Name(d) # Name(c)
  /\ \A c \in Callers : Name(c) # None /\ Clean(call[c]) => OnCourse(call[c], Name(c))
  /\ StoresAgree

LEMMA InitAgree == Init => AgreeInv
BY DEF Init, AgreeInv, At, Name, NoCall, StoresAgree, AgreeBut, Agree

(* An excuse once there stays, and two are one too many.                   *)
LEMMA BothKeeps ==
  \A x, y \in Excuse :
    /\ Both(x, y) # "disturbed" => x # "disturbed" /\ y # "disturbed"
    /\ Both(x, y) = "none" <=> x = "none" /\ y = "none"
BY DEF Both, Excuse

(* A command that is still clean after a failure met its first.            *)
LEMMA FirstFailure ==
  ASSUME NEW c, call[c].faults \in Nat, Again(c, TRUE) # "disturbed"
  PROVE  ~call[c].undo /\ call[c].faults = 0
BY DEF Again

(* A command that is clean after a step was clean before it, and a failure *)
(* in the step was its first.                                              *)
LEMMA CleanStays ==
  ASSUME NEW c, call[c].excuse \in Excuse, call[c].faults \in Nat,
         NEW failed \in BOOLEAN, NEW e, e = Both(call[c].excuse, Again(c, failed)),
         e # "disturbed"
  PROVE  Clean(call[c]) /\ (failed => ~call[c].undo /\ call[c].faults = 0)
<1>1. PICK a : a = Again(c, failed)
  OBVIOUS
<1>2. a \in Excuse /\ e = Both(call[c].excuse, a)
  BY <1>1, AgainIsExcuse
<1>3. call[c].excuse # "disturbed" /\ a # "disturbed"
  BY <1>2, BothKeeps
<1> QED
  BY <1>1, <1>3 DEF Again, Clean

LEMMA NoFailure == \A c : Again(c, FALSE) = "none"
BY DEF Again

LEMMA AgainIsNone == \A c, failed : Again(c, failed) # "disturbed" => Again(c, failed) = "none"
BY DEF Again

(* The tasks, and the entries of other names, are left alone.              *)
OthersKept(n) ==
  /\ UNCHANGED tasks
  /\ \A m \in Schedules \ {n} :
       /\ schedules'[m] = schedules[m]
       /\ registered'[m] = registered[m]
       /\ snapshot'[m] = snapshot[m]
       /\ excuse'[m] = excuse[m]

(* A command on another name stays on its course.                          *)
LEMMA OthersStay ==
  ASSUME NEW n, OthersKept(n), NEW m \in Schedules \ {n}, NEW r, OnCourse(r, m)
  PROVE  /\ Reads(r, schedules[m])'
         /\ Writes(r, schedules[m], registered[m], snapshot[m], Trusted(m))'
BY DEF OthersKept, OnCourse, Reads, Writes, Creating, Kept, Untouched, Right, Current, Trusted

(* What there is to show of a step that takes one command further.         *)
LEMMA MovesOn ==
  ASSUME Inv, AgreeInv, NEW c \in Callers, NEW n \in Schedules, n = Name(c), NEW r,
         call' = [call EXCEPT ![c] = r], OthersKept(n),
         r.name = n, r.pc # "idle", excuse'[n] = excuse[n],
         Clean(r) =>
           /\ Clean(call[c])
           /\ Reads(r, schedules'[n])
           /\ Writes(r, schedules'[n], registered'[n], snapshot'[n], Trusted(n))
  PROVE  AgreeInv'
<1>0. /\ n # None /\ call \in [Callers -> Call]
      /\ \A d \in Callers : call'[d] = IF d = c THEN r ELSE call[d]
  BY NoneAssumption DEF Inv, TypeOK
<1>1. \A d \in Callers : Name(d)' = Name(d)
  BY <1>0 DEF Name
<1>2. \A d \in Callers : Name(d) \in Schedules \cup {None}
  BY <1>0 DEF Name, Call
<1>3. (\A d \in Callers : At(d, "idle") => call[d] = NoCall)'
  BY <1>0 DEF AgreeInv, At
<1>4. (\A d, e \in Callers : Name(d) # None /\ Clean(call[d]) /\ e # d
         => Name(e) # Name(d))'
  <2> SUFFICES ASSUME NEW d \in Callers, NEW e \in Callers, Name(d) # None,
                      Clean(call'[d]), e # d
               PROVE  Name(e) # Name(d)
    BY <1>1 DEF Clean
  <2>1. Clean(call[d])
    BY <1>0
  <2> QED
    BY <2>1 DEF AgreeInv
<1>6. (\A d \in Callers : Name(d) # None /\ Clean(call[d]) => OnCourse(call[d], Name(d)))'
  <2> SUFFICES ASSUME NEW d \in Callers, Name(d) # None, Clean(call'[d])
               PROVE  OnCourse(call[d], Name(d))'
    BY <1>1 DEF Clean
  <2>1. CASE d = c
    <3>1. tasks' = tasks /\ Trusted(n)' = Trusted(n) /\ Name(d)' = n /\ call'[d] = r
      BY <2>1, <1>0, <1>1 DEF OthersKept, Trusted
    <3> QED
      BY <3>1, <2>1
         DEF OnCourse, Reads, Writes, Creating, Kept, Untouched, Right, Current
  <2>2. CASE d # c
    <3>1. call'[d] = call[d] /\ Name(d) \in Schedules \ {n}
      BY <2>2, <1>0, <1>1, <1>2, <1>4 DEF Clean
    <3>2. OnCourse(call[d], Name(d))
      BY <3>1, <2>2, <1>0 DEF AgreeInv
    <3>3. (call[d])' = call[d] /\ Name(d)' = Name(d)
      BY <3>1, <1>1
    <3> QED
      BY <3>1, <3>2, <3>3, OthersStay DEF OnCourse
  <2> QED
    BY <2>1, <2>2
<1>7. StoresAgree'
  <2> SUFFICES ASSUME NEW m \in Schedules, excuse'[m] = "none", Quiet(m)'
               PROVE  Agree(m)'
    BY DEF StoresAgree, AgreeBut
  <2>1. Quiet(m) /\ m # n
    BY <1>1 DEF Quiet
  <2>2. Agree(m)
    BY <2>1 DEF OthersKept, AgreeInv, StoresAgree, AgreeBut
  <2> QED
    BY <2>1, <2>2 DEF OthersKept, Agree, Current
<1> QED
  BY <1>3, <1>4, <1>6, <1>7 DEF AgreeInv

(* What there is to show of a step that ends a command.                    *)
LEMMA Ends ==
  ASSUME Inv, AgreeInv, NEW c \in Callers, NEW n \in Schedules, n = Name(c),
         call' = [call EXCEPT ![c] = NoCall], OthersKept(n),
         excuse'[n] = "none" => /\ Clean(call[c])
                                /\ Right(schedules'[n], registered'[n], snapshot'[n])
  PROVE  AgreeInv'
<1>0. /\ n # None /\ call \in [Callers -> Call]
      /\ \A d \in Callers : call'[d] = IF d = c THEN NoCall ELSE call[d]
  BY NoneAssumption DEF Inv, TypeOK
<1>1. /\ \A d \in Callers \ {c} : Name(d)' = Name(d)
      /\ Name(c)' = None
  BY <1>0 DEF Name, NoCall
<1>2. \A d \in Callers : Name(d) \in Schedules \cup {None}
  BY <1>0 DEF Name, Call
<1>3. (\A d \in Callers : At(d, "idle") => call[d] = NoCall)'
  BY <1>0 DEF AgreeInv, At
<1>4. (\A d, e \in Callers : Name(d) # None /\ Clean(call[d]) /\ e # d
         => Name(e) # Name(d))'
  <2> SUFFICES ASSUME NEW d \in Callers, NEW e \in Callers, Name(d)' # None,
                      Clean(call'[d]), e # d
               PROVE  Name(e)' # Name(d)'
    BY DEF Clean
  <2>1. d # c /\ call'[d] = call[d] /\ Name(d)' = Name(d)
    BY <1>0, <1>1
  <2>2. CASE e = c
    BY <2>2, <1>1
  <2>3. CASE e # c
    BY <2>1, <2>3, <1>1 DEF AgreeInv, Clean
  <2> QED
    BY <2>2, <2>3
<1>6. (\A d \in Callers : Name(d) # None /\ Clean(call[d]) => OnCourse(call[d], Name(d)))'
  <2> SUFFICES ASSUME NEW d \in Callers, Name(d)' # None, Clean(call'[d])
               PROVE  OnCourse(call[d], Name(d))'
    BY DEF Clean
  <2>1. d # c /\ call'[d] = call[d] /\ Name(d)' = Name(d)
    BY <1>0, <1>1
  <2>2. OnCourse(call[d], Name(d)) /\ Name(d) \in Schedules \ {n}
    BY <2>1, <1>0, <1>2 DEF AgreeInv, Clean
  <2> QED
    BY <2>1, <2>2, OthersStay DEF OnCourse
<1>7. StoresAgree'
  <2> SUFFICES ASSUME NEW m \in Schedules, excuse'[m] = "none", Quiet(m)'
               PROVE  Agree(m)'
    BY DEF StoresAgree, AgreeBut
  <2>1. CASE m = n
    <3>1. Right(schedules'[n], registered'[n], snapshot'[n]) /\ tasks' = tasks
      BY <2>1 DEF OthersKept
    <3> QED
      BY <2>1, <3>1 DEF Right, Agree, Current
  <2>2. CASE m # n
    <3>1. Quiet(m)
      BY <2>2, <1>1 DEF Quiet
    <3>2. Agree(m)
      BY <2>2, <3>1 DEF OthersKept, AgreeInv, StoresAgree, AgreeBut
    <3> QED
      BY <2>2, <3>2 DEF OthersKept, Agree, Current
  <2> QED
    BY <2>1, <2>2
<1> QED
  BY <1>3, <1>4, <1>6, <1>7 DEF AgreeInv

(* It returns: with an error, when what was right is right again; in any   *)
(* case, when the stores agree.                                            *)
LEMMA Failed ==
  ASSUME Inv, AgreeInv, NEW c \in Callers, NEW n \in Schedules, n = Name(c),
         NEW why \in Excuse, Return(c, FALSE, why), UNCHANGED tasks,
         \A m \in Schedules \ {n} : /\ schedules'[m] = schedules[m]
                                    /\ registered'[m] = registered[m]
                                    /\ snapshot'[m] = snapshot[m],
         Clean(call[c]) /\ why = "none" /\ Trusted(n)
           => Right(schedules'[n], registered'[n], snapshot'[n])
  PROVE  AgreeInv'
<1>1. excuse \in [Schedules -> Excuse] /\ call' = [call EXCEPT ![c] = NoCall]
  BY DEF Inv, TypeOK, Return
<1>2. PICK e : e = IF call[c].excuse = "disturbed" THEN "disturbed" ELSE why
  OBVIOUS
<1>3. e \in Excuse /\ (e = "none" => Clean(call[c]) /\ why = "none")
  BY <1>2, ExcuseNames DEF Clean
<1>4. excuse' = [excuse EXCEPT ![n] = Both(@, e)]
  BY <1>2 DEF Return
<1>5. excuse'[n] = "none" => Clean(call[c]) /\ why = "none" /\ Trusted(n)
  BY <1>1, <1>3, <1>4, BothKeeps DEF Trusted
<1>6. OthersKept(n)
  BY <1>1, <1>4 DEF OthersKept
<1> QED
  BY <1>1, <1>5, <1>6, Ends

LEMMA Succeeded ==
  ASSUME Inv, AgreeInv, NEW c \in Callers, NEW n \in Schedules, n = Name(c),
         NEW success \in BOOLEAN, Return(c, success, "none"), UNCHANGED tasks,
         \A m \in Schedules \ {n} : /\ schedules'[m] = schedules[m]
                                    /\ registered'[m] = registered[m]
                                    /\ snapshot'[m] = snapshot[m],
         IF success /\ call[c].op \in {"create", "delete"}
         THEN call[c].excuse = "none"
                => Right(schedules'[n], registered'[n], snapshot'[n])
         ELSE Clean(call[c]) /\ Trusted(n)
                => Right(schedules'[n], registered'[n], snapshot'[n])
  PROVE  AgreeInv'
<1>1. excuse \in [Schedules -> Excuse] /\ call' = [call EXCEPT ![c] = NoCall]
  BY DEF Inv, TypeOK, Return
<1>2. PICK e : e = IF call[c].excuse = "disturbed" THEN "disturbed" ELSE "none"
  OBVIOUS
<1>3. e \in Excuse /\ (e = "none" => Clean(call[c]))
  BY <1>2, ExcuseNames DEF Clean
<1>4. excuse' = [excuse EXCEPT ![n] =
        IF success /\ call[c].op \in {"create", "delete"} THEN call[c].excuse
        ELSE Both(@, e)]
  BY <1>2 DEF Return
<1>5. excuse'[n] = "none" =>
        IF success /\ call[c].op \in {"create", "delete"} THEN call[c].excuse = "none"
        ELSE Clean(call[c]) /\ Trusted(n)
  BY <1>1, <1>3, <1>4, BothKeeps DEF Trusted
<1>6. excuse'[n] = "none" => /\ Clean(call[c])
                             /\ Right(schedules'[n], registered'[n], snapshot'[n])
  BY <1>5 DEF Clean
<1>7. OthersKept(n)
  BY <1>1, <1>4 DEF OthersKept
<1> QED
  BY <1>1, <1>6, <1>7, Ends

(* A task command changes a task that no schedule names, and marks the     *)
(* creates that hold an older definition of it.                            *)
Marks(t, e) ==
  \A d \in Callers :
    /\ call'[d] = [call[d] EXCEPT !.excuse = e[d]]
    /\ e[d] # "disturbed" => Clean(call[d])
    /\ e[d] = "none" => call[d].excuse = "none" /\ (tasks'[t] = 0 \/ ~HasRead(d, t))
    /\ At(d, "idle") => e[d] = "none"

LEMMA TaskCommandAgrees ==
  ASSUME Inv, AgreeInv, NEW t \in Tasks, NEW e,
         \A u \in Tasks \ {t} : tasks'[u] = tasks[u],
         \A n \in Schedules : schedules[n] # None => schedules[n].task # t,
         UNCHANGED <<schedules, registered, snapshot, excuse>>,
         Marks(t, e)
  PROVE  AgreeInv'
<1>0. /\ call \in [Callers -> Call] /\ \A d \in Callers : Locals(call[d])
      /\ \A d \in Callers : call'[d] = [call[d] EXCEPT !.excuse = e[d]]
  BY DEF Inv, TypeOK, Marks
<1>m. ASSUME NEW d \in Callers
      PROVE  /\ e[d] # "disturbed" => Clean(call[d])
             /\ e[d] = "none" => /\ call[d].excuse = "none"
                                 /\ tasks'[t] = 0 \/ ~HasRead(d, t)
             /\ At(d, "idle") => e[d] = "none"
  BY DEF Marks
<1>1. ASSUME NEW d \in Callers
      PROVE  /\ Name(d)' = Name(d) /\ At(d, "idle")' = At(d, "idle")
             /\ Clean(call'[d]) => Clean(call[d])
             /\ At(d, "idle") => call'[d] = call[d]
  <2>1. call[d] \in Call /\ call'[d] = [call[d] EXCEPT !.excuse = e[d]]
    BY <1>0
  <2>2. call'[d].name = call[d].name /\ call'[d].pc = call[d].pc /\ call'[d].excuse = e[d]
    BY <2>1 DEF Call
  <2>3. At(d, "idle") => e[d] = call[d].excuse
    <3>1. NoCall.excuse = "none"
      BY DEF NoCall
    <3> QED
      BY <3>1, <1>m DEF AgreeInv
  <2>4. At(d, "idle") => call'[d] = call[d]
    BY <2>1, <2>3 DEF Call
  <2> QED
    BY <2>2, <2>4, <1>m DEF Name, At, Clean
<1>2. (\A d \in Callers : At(d, "idle") => call[d] = NoCall)'
  BY <1>1 DEF AgreeInv
<1>3. (\A d, f \in Callers : Name(d) # None /\ Clean(call[d]) /\ f # d
         => Name(f) # Name(d))'
  BY <1>1 DEF AgreeInv, Clean
<1>4. (\A d \in Callers : Name(d) # None /\ Clean(call[d]) => OnCourse(call[d], Name(d)))'
  <2> SUFFICES ASSUME NEW d \in Callers, Name(d)' # None, Clean(call'[d])
               PROVE  OnCourse(call[d], Name(d))'
    BY DEF Clean
  <2>1. Name(d) # None /\ Name(d)' = Name(d) /\ OnCourse(call[d], Name(d))
    BY <1>1 DEF AgreeInv
  <2>2. PICK n \in Schedules : n = Name(d)
    BY <1>0, <2>1 DEF Name, Call
  <2>3. PICK s : s = schedules[n]
    OBVIOUS
  <2>4. s # None => s.task \in Tasks \ {t} /\ tasks'[s.task] = tasks[s.task]
    BY <2>3 DEF Inv, TypeOK, Definition
  <2>5. PICK r : r = call'[d]
    OBVIOUS
  <2>6. /\ call[d] \in Call /\ Locals(call[d])
        /\ r = [call[d] EXCEPT !.excuse = e[d]]
    BY <1>0, <2>5
  <2>7. /\ r.pc = call[d].pc /\ r.op = call[d].op /\ r.prev = call[d].prev
        /\ r.undo = call[d].undo /\ r.task = call[d].task /\ r.force = call[d].force
        /\ r.revision = call[d].revision /\ r.prev_task = call[d].prev_task
        /\ r.faults = call[d].faults /\ r.saved = call[d].saved
        /\ r.enabled = call[d].enabled /\ r.excuse = e[d]
    BY <2>6 DEF Call
  <2>8. /\ call[d].op = "create" /\ ~call[d].undo
        /\ call[d].pc \in {"schedule", "previous", "snapshot", "register", "store"}
        /\ e[d] = "none" /\ tasks'[call[d].task] # 0
        => /\ call[d].excuse = "none" /\ tasks'[call[d].task] = tasks[call[d].task]
    BY <2>6, <1>m DEF Locals, HasRead, At
  <2>9. Reads(call[d], s) /\ Writes(call[d], s, registered[n], snapshot[n], Trusted(n))
    BY <2>1, <2>2, <2>3 DEF OnCourse
  <2>10. Reads(r, s)'
    <3>1. /\ r.pc \notin {"task", "schedule"} => r.prev = s
          /\ r.op = "set" => r.pc \in {"schedule", "set", "store", "unset"}
          /\ Creating(r, {"previous", "snapshot", "register", "store"}) /\ ~r.force
               => s = None
      BY <2>7, <2>9 DEF Reads, Creating
    <3>2. Creating(r, {"schedule", "previous", "snapshot"})
          /\ r.excuse = "none" /\ tasks'[r.task] # 0
          => r.revision = tasks'[r.task]
      BY <2>7, <2>8, <2>9 DEF Reads, Creating, Kept
    <3>3. /\ r.op # "set"
          /\ r.pc \in {"snapshot", "register", "store", "unregister", "forget", "remove"}
          /\ s # None
          /\ r.undo \/ r.faults = 0
         => r.prev_task = tasks'[s.task]
      BY <2>4, <2>7, <2>9 DEF Reads
    <3> QED
      BY <3>1, <3>2, <3>3 DEF Reads, Creating, Kept
  <2>11. Writes(r, s, registered[n], snapshot[n], Trusted(n))'
    <3>1. Kept(r)' <=> e[d] = "none" /\ tasks'[call[d].task] # 0
      BY <2>7 DEF Kept
    <3>2. s # None => Current(s.task)' = Current(s.task)
      BY <2>4 DEF Current
    <3>3. Trusted(n)' = Trusted(n) /\ \A g, f : Right(s, g, f)' <=> Right(s, g, f)
      BY <3>2 DEF Right, Trusted
    <3>4. r.pc = "register" /\ r.undo => s # None
      BY <2>6, <2>7, <2>9 DEF Locals, Reads
    <3>5. r.pc \in {"store", "unset"} /\ r.op = "set" => s # None
      BY <2>6, <2>7, <2>9 DEF Locals, Reads, Writes
    <3>6. /\ call[d].op = "create" /\ ~call[d].undo /\ call[d].pc \in {"register", "store"}
          /\ Kept(r)'
          => Kept(call[d]) /\ Current(r.task)' = Current(call[d].task)
      BY <2>7, <2>8, <3>1 DEF Kept, Current
    <3>7. /\ Untouched(r) <=> Untouched(call[d])
          /\ call[d].pc = "register" /\ ~call[d].undo => call[d].op = "create"
          /\ call[d].pc = "store" => ~call[d].undo
      BY <2>6, <2>7 DEF Untouched, Locals
    <3>8. UNCHANGED <<registered, snapshot>>
      OBVIOUS
    <3>9. r.pc = "register" =>
            IF r.undo THEN snapshot[n] = Current(s.task)'
            ELSE /\ Kept(r)' => snapshot[n] = Current(r.task)'
                 /\ Trusted(n) => Right(s, registered[n], r.saved)
      BY <2>7, <2>9, <3>2, <3>4, <3>6, <3>7 DEF Writes
    <3>10. r.pc = "store" /\ r.op = "create" =>
             registered[n] = Setting(r.enabled) /\ (Kept(r)' => snapshot[n] = Current(r.task)')
      BY <2>7, <2>9, <3>6, <3>7 DEF Writes
    <3>11. r.pc \in {"store", "unset"} /\ r.op = "set" =>
             registered[n] = Setting(r.enabled)
             /\ (Trusted(n) => snapshot[n] = Current(s.task)')
      BY <2>7, <2>9, <3>2, <3>5 DEF Writes
    <3>12. /\ Untouched(r) /\ Trusted(n) => Right(s, registered[n], snapshot[n])
           /\ r.pc = "restore" => /\ ~r.undo /\ r.faults # 0
                                  /\ Trusted(n) => Right(s, registered[n], r.saved)
           /\ r.pc = "unset" => r.op = "set" /\ r.undo /\ s # None
           /\ r.pc = "unregister" /\ r.undo => s = None
           /\ r.pc = "forget" => IF r.undo THEN s = None /\ registered[n] = None
                                 ELSE registered[n] = None \/ r.faults # 0
           /\ r.pc = "remove" => registered[n] = None \/ (r.faults # 0 /\ snapshot[n] = None)
      BY <2>7, <2>9, <3>7 DEF Writes
    <3> QED
      BY <3>3, <3>8, <3>9, <3>10, <3>11, <3>12 DEF Writes, Untouched
  <2> QED
    BY <2>1, <2>2, <2>3, <2>5, <2>10, <2>11 DEF OnCourse
<1>5. StoresAgree'
  <2> SUFFICES ASSUME NEW n \in Schedules, excuse'[n] = "none", Quiet(n)'
               PROVE  Agree(n)'
    BY DEF StoresAgree, AgreeBut
  <2>1. Agree(n)
    BY <1>1 DEF AgreeInv, StoresAgree, AgreeBut, Quiet
  <2>2. schedules[n] # None => schedules[n].task \in Tasks \ {t}
    BY DEF Inv, TypeOK, Definition
  <2> QED
    BY <2>1, <2>2 DEF Agree, Current
<1> QED
  BY <1>2, <1>3, <1>4, <1>5 DEF AgreeInv

(* A command that begins on a quiet name has it for itself; one that       *)
(* begins beside another leaves both disturbed.                            *)
LEMMA BeginAgrees ==
  ASSUME Inv, AgreeInv, NEW c \in Callers, NEW n \in Schedules, NEW k \in Call,
         Starting(k),
         Begin(c, n, k)
  PROVE  AgreeInv'
<1>e. PICK e : e = IF Quiet(n) THEN "none" ELSE "disturbed"
  OBVIOUS
<1>r. PICK r : r = [k EXCEPT !.name = n, !.excuse = e]
  OBVIOUS
<1>0. /\ call \in [Callers -> Call] /\ \A d \in Callers : Locals(call[d])
      /\ n # None /\ UNCHANGED <<tasks, schedules, registered, snapshot, excuse>>
  BY NoneAssumption DEF Inv, TypeOK, Begin, tables
<1>1. /\ call'[c] = r
      /\ \A d \in Callers \ {c} :
           call'[d] = [call[d] EXCEPT !.excuse = IF Name(d) = n THEN "disturbed" ELSE @]
  BY <1>e, <1>r DEF Begin
<1>2. /\ r.name = n /\ (Clean(r) <=> Quiet(n)) /\ r.pc = k.pc /\ r.op = k.op
      /\ r.undo = k.undo
  BY <1>e, <1>r DEF Call, Clean
<1>3. Name(c) = None /\ Name(c)' = n
  <2>1. call[c] = NoCall /\ NoCall.name = None
    BY DEF Begin, AgreeInv, NoCall
  <2> QED
    BY <2>1, <1>1, <1>2 DEF Name
<1>4. ASSUME NEW d \in Callers \ {c}
      PROVE  /\ Name(d)' = Name(d) /\ At(d, "idle")' = At(d, "idle")
             /\ Name(d) # n => call'[d] = call[d]
             /\ Name(d) = n => ~Clean(call'[d])
  <2>1. /\ call'[d] = [call[d] EXCEPT !.excuse =
                         IF Name(d) = n THEN "disturbed" ELSE call[d].excuse]
        /\ call[d] \in Call
    BY <1>0, <1>1
  <2>2. Name(d)' = Name(d) /\ At(d, "idle")' = At(d, "idle")
    BY <2>1 DEF Name, At, Call
  <2>3. Name(d) # n => call'[d] = call[d]
    BY <2>1 DEF Call
  <2>4. Name(d) = n => ~Clean(call'[d])
    BY <2>1 DEF Call, Clean
  <2> QED
    BY <2>2, <2>3, <2>4
<1>6. \A d \in Callers : Name(d) \in Schedules \cup {None}
  BY <1>0 DEF Name, Call
<1>7. (\A d \in Callers : At(d, "idle") => call[d] = NoCall)'
  <2> SUFFICES ASSUME NEW d \in Callers, At(d, "idle")'
               PROVE  call'[d] = NoCall
    OBVIOUS
  <2>1. d # c /\ At(d, "idle")
    BY <1>1, <1>2, <1>4 DEF At, Starting
  <2>2. call[d] = NoCall
    BY <2>1 DEF AgreeInv
  <2>3. NoCall.name = None
    BY DEF NoCall
  <2> QED
    BY <1>0, <1>4, <2>1, <2>2, <2>3 DEF Name
<1>8. (\A d, f \in Callers : Name(d) # None /\ Clean(call[d]) /\ f # d
         => Name(f) # Name(d))'
  <2> SUFFICES ASSUME NEW d \in Callers, NEW f \in Callers, Name(d)' # None,
                      Clean(call'[d]), f # d
               PROVE  Name(f)' # Name(d)'
    BY DEF Clean
  <2>1. CASE d = c
    <3>1. Quiet(n) /\ f # c
      BY <2>1, <1>1, <1>2
    <3> QED
      BY <2>1, <3>1, <1>3, <1>4 DEF Quiet
  <2>2. CASE d # c /\ f = c
    BY <2>2, <1>3, <1>4
  <2>3. CASE d # c /\ f # c
    <3>1. /\ Name(d) # None /\ Clean(call[d])
          /\ Name(d)' = Name(d) /\ Name(f)' = Name(f)
      BY <2>3, <1>4
    <3> QED
      BY <3>1 DEF AgreeInv
  <2> QED
    BY <2>1, <2>2, <2>3
<1>10. (\A d \in Callers : Name(d) # None /\ Clean(call[d]) => OnCourse(call[d], Name(d)))'
  <2> SUFFICES ASSUME NEW d \in Callers, Name(d)' # None, Clean(call'[d])
               PROVE  OnCourse(call[d], Name(d))'
    BY DEF Clean
  <2>1. CASE d = c
    <3>1. Quiet(n) /\ (Trusted(n) => Agree(n))
      BY <2>1, <1>1, <1>2 DEF AgreeInv, StoresAgree, AgreeBut, Trusted
    <3>2. Reads(r, schedules[n])'
      BY <1>2 DEF Reads, Creating, Starting
    <3>3. Writes(r, schedules[n], registered[n], snapshot[n], Trusted(n))'
      BY <1>0, <1>2, <3>1 DEF Writes, Untouched, Agree, Right, Current, Starting, Trusted
    <3> QED
      BY <2>1, <3>2, <3>3, <1>1, <1>3 DEF OnCourse
  <2>2. CASE d # c
    <3>1. /\ Name(d) \in Schedules \ {n} /\ call'[d] = call[d] /\ Name(d)' = Name(d)
          /\ Clean(call[d])
      BY <2>2, <1>4, <1>6
    <3>2. OnCourse(call[d], Name(d)) /\ OthersKept(n)
      BY <3>1, <1>0 DEF AgreeInv, OthersKept
    <3> QED
      BY <3>1, <3>2, OthersStay DEF OnCourse
  <2> QED
    BY <2>1, <2>2
<1>11. StoresAgree'
  <2> SUFFICES ASSUME NEW m \in Schedules, excuse'[m] = "none", Quiet(m)'
               PROVE  Agree(m)'
    BY DEF StoresAgree, AgreeBut
  <2>1. m # n /\ Quiet(m)
    <3>1. m # n
      BY <1>3 DEF Quiet
    <3>2. ASSUME NEW d \in Callers PROVE Name(d) # m
      <4>1. Name(d)' # m
        BY DEF Quiet
      <4> QED
        BY <4>1, <1>3, <1>4, NoneAssumption
    <3> QED
      BY <3>1, <3>2 DEF Quiet
  <2>2. Agree(m)
    BY <2>1, <1>0 DEF AgreeInv, StoresAgree, AgreeBut
  <2> QED
    BY <2>2, <1>0 DEF Agree, Current
<1> QED
  BY <1>7, <1>8, <1>10, <1>11 DEF AgreeInv

(* A name no command was on when the shell was killed agrees as before.    *)
LEMMA CrashAgrees ==
  ASSUME Inv, AgreeInv, Crash PROVE AgreeInv'
<1>1. \A c \in Callers : call'[c] = NoCall /\ Name(c)' = None
  BY DEF Crash, NoCall, Name
<1>2. StoresAgree'
  BY DEF Crash, AgreeInv, StoresAgree, AgreeBut, Agree, Current, tables
<1> QED
  BY <1>1, <1>2 DEF AgreeInv

(* What is known of a running command.                                     *)
LEMMA Running ==
  ASSUME Inv, AgreeInv, NEW c \in Callers, ~At(c, "idle")
  PROVE  /\ Name(c) \in Schedules /\ call[c] \in Call /\ Locals(call[c])
         /\ Clean(call[c]) => OnCourse(call[c], Name(c))
         /\ call[c].faults \in Nat /\ call[c].excuse \in Excuse
         /\ call[c].prev # None => /\ call[c].prev \in Definition
                                   /\ call[c].prev.task \in Tasks
<1>1. call[c] \in Call /\ Locals(call[c])
  BY DEF Inv, TypeOK
<1>2. Name(c) \in Schedules
  BY <1>1 DEF Locals, At, Name
<1>3. Clean(call[c]) => OnCourse(call[c], Name(c))
  BY <1>2, NoneAssumption DEF AgreeInv
<1>4. call[c].faults \in Nat /\ call[c].excuse \in Excuse
  BY <1>1, ScheduleAssumption DEF Call
<1>5. call[c].prev # None => call[c].prev \in Definition /\ call[c].prev.task \in Tasks
  BY <1>1 DEF Call, Definition
<1> QED
  BY <1>1, <1>2, <1>3, <1>4, <1>5

(* An entry that was set is not None.                                      *)
LEMMA SettingIsEntry == \A b : Setting(b) # None
BY NoneAssumption DEF Setting

(* A command ends where it has changed nothing since the stores agreed.    *)
LEMMA EndedUntouched ==
  ASSUME Inv, AgreeInv, NEW c \in Callers, Untouched(call[c]),
         ~At(c, "idle"), NEW why \in Excuse, Return(c, FALSE, why),
         UNCHANGED <<tables, registered, snapshot>>
  PROVE  AgreeInv'
<1>1. PICK n \in Schedules : n = Name(c)
  BY Running
<1>2. Clean(call[c]) /\ Trusted(n) => Right(schedules[n], registered[n], snapshot[n])
  BY <1>1, Running DEF OnCourse, Writes
<1> QED
  BY <1>1, <1>2, Failed DEF tables

LEMMA ReadFailsAgrees ==
  ASSUME Inv, AgreeInv, NEW c \in Callers, ReadFails(c)
  PROVE  AgreeInv'
<1>1. Untouched(call[c]) /\ ~At(c, "idle")
  BY DEF ReadFails, Untouched, At
<1> QED
  BY <1>1, EndedUntouched, ExcuseNames DEF ReadFails

LEMMA ReadTaskAgrees ==
  ASSUME Inv, AgreeInv, NEW c \in Callers, ReadTask(c)
  PROVE  AgreeInv'
<1>0. ~At(c, "idle")
  BY DEF ReadTask, At
<1>1. PICK n \in Schedules : n = Name(c)
  BY <1>0, Running
<1>2. /\ call[c] \in Call /\ Locals(call[c]) /\ TypeOK
      /\ Clean(call[c]) => /\ Reads(call[c], schedules[n])
                          /\ Writes(call[c], schedules[n], registered[n], snapshot[n],
                                    Trusted(n))
  BY <1>0, <1>1, Running DEF OnCourse, Inv
<1>3. call[c].faults \in Nat /\ call[c].excuse \in Excuse
  BY <1>0, Running
<1>4. CASE tasks[call[c].task] = 0
  BY <1>0, <1>4, EndedUntouched, ExcuseNames DEF ReadTask, Untouched, At
<1>5. CASE tasks[call[c].task] # 0
  <2>1. PICK r : r = [call[c] EXCEPT !.pc = "schedule", !.revision = tasks[call[c].task]]
    OBVIOUS
  <2>2. call' = [call EXCEPT ![c] = r] /\ UNCHANGED excuse
    BY <1>2, <1>5, <2>1 DEF ReadTask, TypeOK, Call
  <2>3. /\ r.name = call[c].name /\ r.excuse = call[c].excuse /\ r.pc = "schedule"
        /\ r.undo = call[c].undo /\ r.op = call[c].op /\ r.task = call[c].task
        /\ r.revision = tasks[call[c].task]
    BY <1>2, <2>1 DEF Call
  <2>4. /\ call[c].pc = "task" /\ ~call[c].undo
        /\ OthersKept(n) /\ UNCHANGED <<schedules, registered, snapshot>>
    BY <1>2, <2>2 DEF ReadTask, At, Locals, OthersKept, tables
  <2>5. Reads(r, schedules[n])
    BY <2>3, <2>4, <1>2, <1>5 DEF Reads, Creating, Locals
  <2>6. Clean(call[c]) => Writes(r, schedules[n], registered[n], snapshot[n], Trusted(n))
    BY <1>2, <2>3, <2>4 DEF Writes, Untouched, Creating
  <2> QED
    BY <1>1, <2>2, <2>3, <2>4, <2>5, <2>6, <1>2, MovesOn DEF Name, Clean
<1> QED
  BY <1>4, <1>5

LEMMA ReadScheduleAgrees ==
  ASSUME Inv, AgreeInv, NEW c \in Callers, ReadSchedule(c)
  PROVE  AgreeInv'
<1>0. ~At(c, "idle")
  BY DEF ReadSchedule, At
<1>1. PICK n \in Schedules : n = Name(c)
  BY <1>0, Running
<1>2. /\ call[c] \in Call /\ Locals(call[c]) /\ TypeOK
      /\ Clean(call[c]) => /\ Reads(call[c], schedules[n])
                          /\ Writes(call[c], schedules[n], registered[n], snapshot[n],
                                    Trusted(n))
  BY <1>0, <1>1, Running DEF OnCourse, Inv
<1>3. call[c].faults \in Nat /\ call[c].excuse \in Excuse
  BY <1>0, Running
<1>4. CASE Return(c, FALSE, "none")
  BY <1>0, <1>4, EndedUntouched, ExcuseNames DEF ReadSchedule, Untouched, At
<1>5. CASE ~Return(c, FALSE, "none")
  <2>1. PICK s : s = schedules[n]
    OBVIOUS
  <2>2. PICK next : next = IF call[c].op = "set" THEN "set"
                           ELSE IF s # None THEN "previous" ELSE "snapshot"
    OBVIOUS
  <2>3. PICK r : r = [call[c] EXCEPT !.pc = next, !.prev = s]
    OBVIOUS
  <2>4. /\ call' = [call EXCEPT ![c] = r]
        /\ UNCHANGED <<excuse, tables, registered, snapshot>>
        /\ IF call[c].op = "create" THEN ~call[c].force => s = None ELSE s # None
    BY <1>1, <1>2, <1>5, <2>1, <2>2, <2>3 DEF ReadSchedule, TypeOK, Call, Name
  <2>5. /\ r.name = call[c].name /\ r.excuse = call[c].excuse /\ r.pc = next
        /\ r.undo = call[c].undo /\ r.op = call[c].op /\ r.task = call[c].task
        /\ r.revision = call[c].revision /\ r.prev = s /\ r.force = call[c].force
    BY <1>2, <2>3 DEF Call
  <2>6. /\ call[c].pc = "schedule" /\ ~call[c].undo /\ OthersKept(n)
        /\ UNCHANGED <<schedules, registered, snapshot>>
    BY <1>2, <2>4 DEF ReadSchedule, At, Locals, OthersKept, tables
  <2>7. Clean(call[c]) => Reads(r, s)
    BY <1>2, <2>1, <2>2, <2>4, <2>5, <2>6 DEF Reads, Creating, Kept
  <2>8. Clean(call[c]) => Writes(r, s, registered[n], snapshot[n], Trusted(n))
    BY <1>2, <2>1, <2>2, <2>4, <2>5, <2>6 DEF Writes, Untouched
  <2> QED
    BY <1>1, <2>1, <2>2, <2>4, <2>5, <2>6, <2>7, <2>8, <1>2, MovesOn DEF Name, Clean
<1> QED
  BY <1>4, <1>5

LEMMA ReadPreviousTaskAgrees ==
  ASSUME Inv, AgreeInv, NEW c \in Callers, ReadPreviousTask(c)
  PROVE  AgreeInv'
<1>0. ~At(c, "idle")
  BY DEF ReadPreviousTask, At
<1>1. PICK n \in Schedules : n = Name(c)
  BY <1>0, Running
<1>2. /\ call[c] \in Call /\ Locals(call[c]) /\ TypeOK
      /\ Clean(call[c]) => /\ Reads(call[c], schedules[n])
                          /\ Writes(call[c], schedules[n], registered[n], snapshot[n],
                                    Trusted(n))
  BY <1>0, <1>1, Running DEF OnCourse, Inv
<1>3. call[c].faults \in Nat /\ call[c].excuse \in Excuse
  BY <1>0, Running
<1>4. PICK failed \in {f \in BOOLEAN : f => Fault(c, "state")} :
        call' = [call EXCEPT
          ![c].pc = IF call[c].op = "delete" THEN "unregister" ELSE "snapshot",
          ![c].prev_task = IF failed THEN 0 ELSE tasks[call[c].prev.task],
          ![c].faults = Faults(c, failed)]
  BY DEF ReadPreviousTask
<1>5. PICK next : next = IF call[c].op = "delete" THEN "unregister" ELSE "snapshot"
  OBVIOUS
<1>6. PICK found : found = IF failed THEN 0 ELSE tasks[call[c].prev.task]
  OBVIOUS
<1>7. PICK r : r = [call[c] EXCEPT !.pc = next, !.prev_task = found,
                                   !.faults = Faults(c, failed)]
  OBVIOUS
<1>8. call' = [call EXCEPT ![c] = r]
  BY <1>2, <1>4, <1>5, <1>6, <1>7 DEF TypeOK, Call
<1>9. /\ r.name = call[c].name /\ r.excuse = call[c].excuse /\ r.pc = next
      /\ r.undo = call[c].undo /\ r.op = call[c].op /\ r.task = call[c].task
      /\ r.revision = call[c].revision /\ r.prev = call[c].prev /\ r.force = call[c].force
      /\ r.prev_task = found /\ r.faults = Faults(c, failed)
  BY <1>2, <1>7 DEF Call
<1>10. failed => r.faults # 0
  BY <1>3, <1>9 DEF Faults
<1>11. /\ call[c].pc = "previous" /\ ~call[c].undo /\ OthersKept(n)
       /\ UNCHANGED <<schedules, registered, snapshot, excuse>>
       /\ call[c].op = "delete" \/ call[c].op = "create"
  BY <1>2 DEF ReadPreviousTask, At, Locals, OthersKept, tables
<1>12. Clean(call[c]) => Reads(r, schedules[n])
  BY <1>2, <1>5, <1>6, <1>9, <1>10, <1>11 DEF Reads, Creating, Kept
<1>13. Clean(call[c]) => Writes(r, schedules[n], registered[n], snapshot[n], Trusted(n))
  BY <1>2, <1>5, <1>9, <1>11 DEF Writes, Untouched
<1> QED
  BY <1>1, <1>5, <1>8, <1>9, <1>11, <1>12, <1>13, <1>2, MovesOn DEF Name, Clean

LEMMA WriteSnapshotAgrees ==
  ASSUME Inv, AgreeInv, NEW c \in Callers, WriteSnapshot(c)
  PROVE  AgreeInv'
<1>0. ~At(c, "idle")
  BY DEF WriteSnapshot, At
<1>1. PICK n \in Schedules : n = Name(c)
  BY <1>0, Running
<1>2. /\ call[c] \in Call /\ Locals(call[c]) /\ TypeOK
      /\ Clean(call[c]) => /\ Reads(call[c], schedules[n])
                          /\ Writes(call[c], schedules[n], registered[n], snapshot[n],
                                    Trusted(n))
  BY <1>0, <1>1, Running DEF OnCourse, Inv
<1>3. call[c].faults \in Nat /\ call[c].excuse \in Excuse
  BY <1>0, Running
<1>4. PICK f : f = snapshot[n]
  OBVIOUS
<1>5. PICK r : r = [call[c] EXCEPT !.pc = "register", !.revision = 0, !.saved = f]
  OBVIOUS
<1>6. call' = [call EXCEPT ![c] = r]
  BY <1>1, <1>2, <1>4, <1>5 DEF WriteSnapshot, TypeOK, Call, Name
<1>7. /\ r.name = call[c].name  /\ r.pc = "register"
      /\ r.undo = call[c].undo /\ r.op = call[c].op /\ r.task = call[c].task
      /\ r.prev = call[c].prev /\ r.force = call[c].force
      /\ r.prev_task = call[c].prev_task /\ r.excuse = call[c].excuse /\ r.faults = call[c].faults /\ r.saved = f
  BY <1>2, <1>5 DEF Call
<1>8. /\ call[c].pc = "snapshot" /\ OthersKept(n) /\ snapshot'[n] = SnapshotOf(c)
      /\ UNCHANGED <<schedules, registered, excuse>>
  BY <1>1, <1>2 DEF WriteSnapshot, At, Locals, OthersKept, tables, TypeOK
<1>9. IF call[c].undo THEN call[c].prev # None ELSE call[c].op = "create"
  BY <1>2, <1>8 DEF Locals
<1>10. Clean(call[c]) => Reads(r, schedules[n])
  BY <1>2, <1>7, <1>8 DEF Reads, Creating
<1>11. Clean(call[c]) =>
         IF r.undo THEN SnapshotOf(c) = Current(schedules[n].task)
         ELSE Kept(r) => SnapshotOf(c) = Current(r.task)
  <2>1. CASE call[c].undo
    BY <1>2, <1>7, <1>8, <1>9, <2>1 DEF Reads, SnapshotOf, DefinitionOf, Current
  <2>2. CASE ~call[c].undo
    BY <1>2, <1>7, <1>8, <1>9, <2>2
       DEF Reads, Creating, Kept, SnapshotOf, DefinitionOf, Current
  <2> QED
    BY <2>1, <2>2
<1>12. Clean(call[c]) => Writes(r, schedules[n], registered[n], snapshot'[n], Trusted(n))
  BY <1>2, <1>4, <1>7, <1>8, <1>11 DEF Writes, Untouched
<1> QED
  BY <1>1, <1>6, <1>7, <1>8, <1>10, <1>12, <1>2, MovesOn DEF Name, Clean

LEMMA WriteSnapshotFailsAgrees ==
  ASSUME Inv, AgreeInv, NEW c \in Callers, WriteSnapshotFails(c)
  PROVE  AgreeInv'
<1>0. ~At(c, "idle")
  BY DEF WriteSnapshotFails, At
<1>1. PICK n \in Schedules : n = Name(c)
  BY <1>0, Running
<1>2. /\ call[c] \in Call /\ Locals(call[c]) /\ TypeOK
      /\ Clean(call[c]) => /\ Reads(call[c], schedules[n])
                          /\ Writes(call[c], schedules[n], registered[n], snapshot[n],
                                    Trusted(n))
  BY <1>0, <1>1, Running DEF OnCourse, Inv
<1>3. call[c].faults \in Nat /\ call[c].excuse \in Excuse
  BY <1>0, Running
<1>4. PICK left \in {snapshot[n], Damaged} :
        /\ snapshot' = [snapshot EXCEPT ![n] = left]
        /\ Return(c, FALSE, Both(Again(c, TRUE),
                    IF left = snapshot[n] THEN "none" ELSE "unrestored"))
  BY <1>1 DEF WriteSnapshotFails
<1>5. PICK x : x = IF left = snapshot[n] THEN "none" ELSE "unrestored"
  OBVIOUS
<1>6. PICK why : why = Both(Again(c, TRUE), x)
  OBVIOUS
<1>7. x \in Excuse /\ why \in Excuse
  BY <1>5, <1>6, ExcuseNames, AgainIsExcuse, BothIsExcuse
<1>8. why = "none" => left = snapshot[n] /\ ~call[c].undo
  <2>1. why = "none" => Again(c, TRUE) = "none" /\ x = "none"
    BY <1>6, <1>7, AgainIsExcuse, BothKeeps
  <2> QED
    BY <2>1, <1>5 DEF Again
<1>9. /\ call[c].pc = "snapshot" /\ Return(c, FALSE, why)
      /\ UNCHANGED <<tasks, schedules, registered>>
      /\ snapshot'[n] = left
      /\ \A m \in Schedules \ {n} : snapshot'[m] = snapshot[m]
  BY <1>2, <1>4, <1>5, <1>6 DEF WriteSnapshotFails, At, tables, TypeOK
<1>10. Clean(call[c]) /\ why = "none" /\ Trusted(n)
         => Right(schedules[n], registered[n], snapshot'[n])
  BY <1>2, <1>8, <1>9 DEF Writes, Untouched
<1> QED
  BY <1>1, <1>7, <1>9, <1>10, Failed

LEMMA XmlFailsAgrees ==
  ASSUME Inv, AgreeInv, NEW c \in Callers, XmlFails(c)
  PROVE  AgreeInv'
<1>0. ~At(c, "idle")
  BY DEF XmlFails, At
<1>1. PICK n \in Schedules : n = Name(c)
  BY <1>0, Running
<1>2. /\ call[c] \in Call /\ Locals(call[c]) /\ TypeOK
      /\ Clean(call[c]) => /\ Reads(call[c], schedules[n])
                          /\ Writes(call[c], schedules[n], registered[n], snapshot[n],
                                    Trusted(n))
  BY <1>0, <1>1, Running DEF OnCourse, Inv
<1>3. call[c].faults \in Nat /\ call[c].excuse \in Excuse
  BY <1>0, Running
<1>4. PICK x : x = IF snapshot[n] = call[c].saved THEN "none" ELSE "unrestored"
  OBVIOUS
<1>5. PICK why : why = Both(Again(c, TRUE), x)
  OBVIOUS
<1>6. x \in Excuse /\ why \in Excuse
  BY <1>4, <1>5, ExcuseNames, AgainIsExcuse, BothIsExcuse
<1>7. why = "none" => snapshot[n] = call[c].saved /\ ~call[c].undo
  <2>1. why = "none" => Again(c, TRUE) = "none" /\ x = "none"
    BY <1>5, <1>6, AgainIsExcuse, BothKeeps
  <2> QED
    BY <2>1, <1>4 DEF Again
<1>8. /\ call[c].pc = "register" /\ Return(c, FALSE, why)
      /\ UNCHANGED <<tasks, schedules, registered, snapshot>>
  BY <1>1, <1>4, <1>5 DEF XmlFails, At, tables
<1>9. Clean(call[c]) /\ why = "none" /\ Trusted(n)
        => Right(schedules[n], registered[n], snapshot[n])
  BY <1>2, <1>7, <1>8 DEF Writes
<1> QED
  BY <1>1, <1>6, <1>8, <1>9, Failed

LEMMA RegisterAgrees ==
  ASSUME Inv, AgreeInv, NEW c \in Callers, Register(c)
  PROVE  AgreeInv'
<1>0. ~At(c, "idle")
  BY DEF Register, At
<1>1. PICK n \in Schedules : n = Name(c)
  BY <1>0, Running
<1>2. /\ call[c] \in Call /\ Locals(call[c]) /\ TypeOK
      /\ Clean(call[c]) => /\ Reads(call[c], schedules[n])
                          /\ Writes(call[c], schedules[n], registered[n], snapshot[n],
                                    Trusted(n))
  BY <1>0, <1>1, Running DEF OnCourse, Inv
<1>3. call[c].faults \in Nat /\ call[c].excuse \in Excuse
  BY <1>0, Running
<1>4. /\ call[c].pc = "register"
      /\ registered'[n] = Setting(DefinitionOf(c).enabled)
      /\ \A m \in Schedules \ {n} : registered'[m] = registered[m]
      /\ UNCHANGED <<tables, snapshot>>
  BY <1>1, <1>2 DEF Register, At, TypeOK
<1>5. CASE call[c].undo
  <2>1. call[c].prev # None /\ Return(c, FALSE, "none") /\ DefinitionOf(c) = call[c].prev
    BY <1>2, <1>4, <1>5 DEF Locals, Register, DefinitionOf
  <2>2. Clean(call[c]) => Right(schedules[n], registered'[n], snapshot[n])
    BY <1>2, <1>4, <1>5, <2>1 DEF Reads, Writes, Right
  <2>3. tasks' = tasks /\ schedules' = schedules /\ snapshot' = snapshot
    BY <1>4 DEF tables
  <2> QED
    BY <1>1, <1>4, <2>1, <2>2, <2>3, Failed, ExcuseNames
<1>6. CASE ~call[c].undo
  <2>1. PICK r : r = [call[c] EXCEPT !.pc = "store", !.saved = None]
    OBVIOUS
  <2>2. call' = [call EXCEPT ![c] = r] /\ UNCHANGED excuse /\ OthersKept(n)
    BY <1>2, <1>4, <1>6, <2>1 DEF Register, TypeOK, Call, OthersKept, tables
  <2>3. /\ r.name = call[c].name /\ r.excuse = call[c].excuse /\ r.pc = "store"
        /\ r.undo = call[c].undo /\ r.op = call[c].op /\ r.task = call[c].task
        /\ r.prev = call[c].prev /\ r.force = call[c].force
        /\ r.prev_task = call[c].prev_task /\ r.faults = call[c].faults
        /\ r.enabled = call[c].enabled
    BY <1>2, <2>1 DEF Call
  <2>4. call[c].op = "create" /\ DefinitionOf(c).enabled = call[c].enabled
    BY <1>2, <1>4, <1>6 DEF Locals, DefinitionOf
  <2>5. Clean(call[c]) => Reads(r, schedules[n])
    BY <1>2, <1>4, <2>3, <2>4 DEF Reads, Creating
  <2>6. Clean(call[c]) => Writes(r, schedules[n], registered'[n], snapshot[n], Trusted(n))
    BY <1>2, <1>4, <1>6, <2>3, <2>4 DEF Writes, Untouched, Kept
  <2> QED
    BY <1>1, <1>4, <2>2, <2>3, <2>5, <2>6, MovesOn DEF Name, tables, Clean, Trusted
<1> QED
  BY <1>5, <1>6

LEMMA RegisterFailsAgrees ==
  ASSUME Inv, AgreeInv, NEW c \in Callers, RegisterFails(c)
  PROVE  AgreeInv'
<1>0. ~At(c, "idle")
  BY DEF RegisterFails, At
<1>1. PICK n \in Schedules : n = Name(c)
  BY <1>0, Running
<1>2. /\ call[c] \in Call /\ Locals(call[c]) /\ TypeOK
      /\ Clean(call[c]) => /\ Reads(call[c], schedules[n])
                          /\ Writes(call[c], schedules[n], registered[n], snapshot[n],
                                    Trusted(n))
  BY <1>0, <1>1, Running DEF OnCourse, Inv
<1>3. call[c].faults \in Nat /\ call[c].excuse \in Excuse
  BY <1>0, Running
<1>4. PICK e : e = Both(call[c].excuse, Again(c, TRUE))
  OBVIOUS
<1>5. PICK r : r = [NoCall EXCEPT !.pc = "restore", !.op = call[c].op, !.name = Name(c),
                       !.prev = call[c].prev, !.saved = call[c].saved,
                       !.undo = call[c].undo, !.faults = call[c].faults + 1,
                       !.excuse = e]
  OBVIOUS
<1>6. call' = [call EXCEPT ![c] = r]
  BY <1>4, <1>5 DEF RegisterFails
<1>7. /\ r.name = n /\ r.excuse = e /\ r.pc = "restore"
      /\ r.undo = call[c].undo /\ r.op = call[c].op /\ r.prev = call[c].prev
      /\ r.faults = call[c].faults + 1 /\ r.saved = call[c].saved
  BY <1>1, <1>5 DEF NoCall
<1>8. Clean(r) => Clean(call[c]) /\ ~call[c].undo /\ call[c].faults = 0
  BY <1>3, <1>4, <1>7, CleanStays DEF Clean
<1>9. /\ call[c].pc = "register" /\ OthersKept(n)
      /\ UNCHANGED <<schedules, registered, snapshot, excuse>>
  BY DEF RegisterFails, At, OthersKept, tables
<1>10. call[c].op = "create" \/ call[c].undo
  BY <1>2, <1>9 DEF Locals
<1>11. Clean(r) => Reads(r, schedules[n])
  BY <1>2, <1>7, <1>8, <1>9, <1>10 DEF Reads, Creating
<1>12. Clean(r) => Writes(r, schedules[n], registered[n], snapshot[n], Trusted(n))
  BY <1>2, <1>3, <1>7, <1>8, <1>9 DEF Reads, Writes, Untouched
<1> QED
  BY <1>1, <1>6, <1>7, <1>8, <1>9, <1>11, <1>12, MovesOn DEF Trusted

LEMMA RestoreSnapshotAgrees ==
  ASSUME Inv, AgreeInv, NEW c \in Callers, RestoreSnapshot(c)
  PROVE  AgreeInv'
<1>0. ~At(c, "idle")
  BY DEF RestoreSnapshot, At
<1>1. PICK n \in Schedules : n = Name(c)
  BY <1>0, Running
<1>2. /\ call[c] \in Call /\ Locals(call[c]) /\ TypeOK
      /\ Clean(call[c]) => /\ Reads(call[c], schedules[n])
                          /\ Writes(call[c], schedules[n], registered[n], snapshot[n],
                                    Trusted(n))
  BY <1>0, <1>1, Running DEF OnCourse, Inv
<1>3. call[c].faults \in Nat /\ call[c].excuse \in Excuse
  BY <1>0, Running
<1>4. PICK why \in Excuse :
        /\ Return(c, FALSE, why)
        /\ \/ snapshot' = [snapshot EXCEPT ![n] = call[c].saved]
           \/ UNCHANGED snapshot /\ why = Again(c, TRUE)
  BY <1>1, ExcuseNames, AgainIsExcuse DEF RestoreSnapshot
<1>5. /\ call[c].pc = "restore" /\ UNCHANGED <<tasks, schedules, registered>>
      /\ \A m \in Schedules \ {n} : snapshot'[m] = snapshot[m]
      /\ snapshot'[n] = call[c].saved \/ why = Again(c, TRUE)
  BY <1>2, <1>4 DEF RestoreSnapshot, At, tables, TypeOK
<1>6. Clean(call[c]) /\ why = "none" /\ Trusted(n)
        => Right(schedules[n], registered[n], snapshot'[n])
  BY <1>2, <1>3, <1>5 DEF Writes, Again
<1> QED
  BY <1>1, <1>4, <1>5, <1>6, Failed

LEMMA StoreScheduleAgrees ==
  ASSUME Inv, AgreeInv, NEW c \in Callers, StoreSchedule(c)
  PROVE  AgreeInv'
<1>0. ~At(c, "idle")
  BY DEF StoreSchedule, At
<1>1. PICK n \in Schedules : n = Name(c)
  BY <1>0, Running
<1>2. /\ call[c] \in Call /\ Locals(call[c]) /\ TypeOK
      /\ Clean(call[c]) => /\ Reads(call[c], schedules[n])
                          /\ Writes(call[c], schedules[n], registered[n], snapshot[n],
                                    Trusted(n))
  BY <1>0, <1>1, Running DEF OnCourse, Inv
<1>3. call[c].faults \in Nat /\ call[c].excuse \in Excuse
  BY <1>0, Running
<1>4. PICK s : s = DefinitionOf(c)
  OBVIOUS
<1>5. /\ call[c].pc = "store" /\ ~call[c].undo /\ Return(c, TRUE, "none")
      /\ UNCHANGED <<tasks, registered, snapshot>> /\ schedules'[n] = s
      /\ \A m \in Schedules \ {n} : schedules'[m] = schedules[m]
      /\ tasks[s.task] # 0
  BY <1>1, <1>2, <1>4 DEF StoreSchedule, At, TypeOK, Locals, CanStore
<1>6. s \in Definition /\ s # None
  BY <1>4, <1>5, RegistersADefinition, NoneAssumption
<1>7. CASE call[c].op = "create"
  <2>1. s.task = call[c].task /\ s.enabled = call[c].enabled
    BY <1>4, <1>5, <1>7 DEF DefinitionOf
  <2>2. call[c].excuse = "none" => Right(s, registered[n], snapshot[n])
    BY <1>2, <1>5, <1>6, <1>7, <2>1 DEF Writes, Right, Kept, Clean
  <2> QED
    BY <1>1, <1>5, <1>7, <2>2, Succeeded
<1>8. CASE call[c].op = "set"
  <2>1. s.task = call[c].prev.task /\ s.enabled = call[c].enabled
    BY <1>2, <1>4, <1>5, <1>8 DEF DefinitionOf
  <2>2. Clean(call[c]) => call[c].prev = schedules[n]
    BY <1>2, <1>5 DEF Reads
  <2>3. Clean(call[c]) /\ Trusted(n) => Right(s, registered[n], snapshot[n])
    BY <1>2, <1>5, <1>6, <1>8, <2>1, <2>2 DEF Writes, Right
  <2> QED
    BY <1>1, <1>5, <1>8, <2>3, Succeeded
<1> QED
  BY <1>2, <1>5, <1>7, <1>8 DEF Locals

LEMMA StoreFailsAgrees ==
  ASSUME Inv, AgreeInv, NEW c \in Callers, StoreFails(c)
  PROVE  AgreeInv'
<1>0. ~At(c, "idle")
  BY DEF StoreFails, At
<1>1. PICK n \in Schedules : n = Name(c)
  BY <1>0, Running
<1>2. /\ call[c] \in Call /\ Locals(call[c]) /\ TypeOK
      /\ Clean(call[c]) => /\ Reads(call[c], schedules[n])
                          /\ Writes(call[c], schedules[n], registered[n], snapshot[n],
                                    Trusted(n))
  BY <1>0, <1>1, Running DEF OnCourse, Inv
<1>3. call[c].faults \in Nat /\ call[c].excuse \in Excuse
  BY <1>0, Running
<1>4. PICK next : next = Compensation(c)
  OBVIOUS
<1>5. PICK e : e = Both(call[c].excuse, Again(c, TRUE))
  OBVIOUS
<1>6. PICK count : count = Faults(c, CanStore(c))
  OBVIOUS
<1>7. PICK r : r = [call[c] EXCEPT !.pc = next, !.undo = TRUE, !.task = None,
                                   !.force = FALSE, !.faults = count, !.excuse = e]
  OBVIOUS
<1>8. call' = [call EXCEPT ![c] = r]
  BY <1>2, <1>4, <1>5, <1>6, <1>7 DEF StoreFails, TypeOK, Call
<1>9. /\ r.name = call[c].name /\ r.excuse = e /\ r.pc = next
      /\ r.undo = TRUE /\ r.op = call[c].op /\ r.prev = call[c].prev
      /\ r.prev_task = call[c].prev_task /\ r.enabled = call[c].enabled
  BY <1>2, <1>7 DEF Call
<1>10. Clean(r) => Clean(call[c]) /\ call[c].faults = 0
  BY <1>3, <1>5, <1>9, CleanStays DEF Clean
<1>11. /\ call[c].pc = "store" /\ ~call[c].undo /\ OthersKept(n)
       /\ UNCHANGED <<schedules, registered, snapshot, excuse>>
  BY <1>2 DEF StoreFails, At, Locals, OthersKept, tables
<1>12. call[c].op = "create" \/ (call[c].op = "set" /\ call[c].prev # None)
  BY <1>2, <1>11 DEF Locals
<1>13. schedules[n] # None => tasks[schedules[n].task] # 0
  BY DEF Inv, ScheduleNamesATask
<1>14. Clean(r) /\ call[c].op = "create" =>
         IF schedules[n] = None THEN next = "unregister" ELSE next = "snapshot"
  BY <1>2, <1>4, <1>10, <1>11, <1>13 DEF Reads, Compensation, CanRegisterAgain
<1>15. call[c].op = "set" => next = "unset"
  BY <1>4 DEF Compensation
<1>16. next \in {"unset", "snapshot", "unregister"}
  BY <1>4 DEF Compensation
<1>17. Clean(r) => Reads(r, schedules[n])
  BY <1>2, <1>9, <1>10, <1>11, <1>15, <1>16 DEF Reads, Creating
<1>18. Clean(r) => Writes(r, schedules[n], registered[n], snapshot[n], Trusted(n))
  BY <1>2, <1>9, <1>10, <1>11, <1>12, <1>14, <1>15 DEF Reads, Writes, Untouched
<1> QED
  BY <1>1, <1>8, <1>9, <1>10, <1>11, <1>16, <1>17, <1>18, MovesOn DEF Name, Trusted

LEMMA UnregisterAgrees ==
  ASSUME Inv, AgreeInv, NEW c \in Callers, Unregister(c)
  PROVE  AgreeInv'
<1>0. ~At(c, "idle")
  BY DEF Unregister, At
<1>1. PICK n \in Schedules : n = Name(c)
  BY <1>0, Running
<1>2. /\ call[c] \in Call /\ Locals(call[c]) /\ TypeOK
      /\ Clean(call[c]) => /\ Reads(call[c], schedules[n])
                          /\ Writes(call[c], schedules[n], registered[n], snapshot[n],
                                    Trusted(n))
  BY <1>0, <1>1, Running DEF OnCourse, Inv
<1>3. call[c].faults \in Nat /\ call[c].excuse \in Excuse
  BY <1>0, Running
<1>4. PICK e : e = Both(call[c].excuse, Again(c, FALSE))
  OBVIOUS
<1>5. PICK count : count = Faults(c, FALSE)
  OBVIOUS
<1>6. PICK r : r = [call[c] EXCEPT !.pc = "forget", !.faults = count, !.excuse = e]
  OBVIOUS

<1>7. call' = [call EXCEPT ![c] = r] /\ UNCHANGED excuse
  BY <1>2, <1>4, <1>5, <1>6 DEF Unregister, Goto, TypeOK, Call
<1>8. /\ r.name = call[c].name /\ r.excuse = e /\ r.pc = "forget"
      /\ r.undo = call[c].undo /\ r.op = call[c].op /\ r.prev = call[c].prev
      /\ r.prev_task = call[c].prev_task /\ r.faults = count
  BY <1>2, <1>6 DEF Call
<1>9. count = call[c].faults /\ (Clean(r) => Clean(call[c]))
  <2>1. count = call[c].faults
    BY <1>3, <1>5 DEF Faults
  <2>2. Clean(r) => Clean(call[c])
    BY <1>3, <1>4, <1>8, CleanStays DEF Clean
  <2> QED
    BY <2>1, <2>2
<1>10. /\ call[c].pc = "unregister" /\ OthersKept(n) /\ registered'[n] = None
       /\ UNCHANGED <<schedules, snapshot>>
  BY <1>1, <1>2, <1>7 DEF Unregister, At, OthersKept, tables, TypeOK
<1>11. Clean(r) => Reads(r, schedules[n])
  BY <1>2, <1>8, <1>9, <1>10 DEF Reads, Creating
<1>12. Clean(r) => Writes(r, schedules[n], registered'[n], snapshot[n], Trusted(n))
  BY <1>2, <1>8, <1>9, <1>10 DEF Writes, Untouched
<1> QED
  BY <1>1, <1>7, <1>8, <1>9, <1>10, <1>11, <1>12, MovesOn DEF Name, Trusted

LEMMA UnregisterFailsAgrees ==
  ASSUME Inv, AgreeInv, NEW c \in Callers, UnregisterFails(c)
  PROVE  AgreeInv'
<1>0. ~At(c, "idle")
  BY DEF UnregisterFails, At
<1>1. PICK n \in Schedules : n = Name(c)
  BY <1>0, Running
<1>2. /\ call[c] \in Call /\ Locals(call[c]) /\ TypeOK
      /\ Clean(call[c]) => /\ Reads(call[c], schedules[n])
                          /\ Writes(call[c], schedules[n], registered[n], snapshot[n],
                                    Trusted(n))
  BY <1>0, <1>1, Running DEF OnCourse, Inv
<1>3. call[c].faults \in Nat /\ call[c].excuse \in Excuse
  BY <1>0, Running
<1>4. PICK failed \in BOOLEAN : failed <=> registered[n] # None
  OBVIOUS
<1>5. /\ call[c].pc = "unregister"
      /\ UNCHANGED <<tasks, schedules, registered, snapshot>>
  BY DEF UnregisterFails, At, tables
<1>6. CASE Return(c, FALSE, Again(c, TRUE))
  <2>1. Clean(call[c]) /\ Again(c, TRUE) = "none" /\ Trusted(n)
          => Right(schedules[n], registered[n], snapshot[n])
    BY <1>2, <1>5 DEF Writes, Untouched, Again
  <2> QED
    BY <1>1, <1>5, <1>6, <2>1, Failed, AgainIsExcuse
<1>7. CASE Goto(c, "forget", failed)
  <2>1. PICK e : e = Both(call[c].excuse, Again(c, failed))
    OBVIOUS
  <2>2. PICK count : count = Faults(c, failed)
    OBVIOUS
  <2>3. PICK r : r = [call[c] EXCEPT !.pc = "forget", !.faults = count, !.excuse = e]
    OBVIOUS
  <2>4. call' = [call EXCEPT ![c] = r] /\ UNCHANGED excuse
    BY <1>2, <1>7, <2>1, <2>2, <2>3 DEF Goto, TypeOK, Call
  <2>5. /\ r.name = call[c].name /\ r.excuse = e /\ r.pc = "forget"
        /\ r.undo = call[c].undo /\ r.op = call[c].op /\ r.prev = call[c].prev
        /\ r.prev_task = call[c].prev_task /\ r.faults = count
    BY <1>2, <2>3 DEF Call
  <2>6. Clean(r) => Clean(call[c]) /\ (failed => ~call[c].undo)
    BY <1>3, <2>1, <2>5, CleanStays DEF Clean
  <2>7. count = IF failed THEN call[c].faults + 1 ELSE call[c].faults
    BY <1>3, <2>2 DEF Faults
  <2>8. Clean(r) => Reads(r, schedules[n])
    BY <1>2, <1>3, <1>5, <2>5, <2>6, <2>7 DEF Reads, Creating
  <2>9. Clean(r) => Writes(r, schedules[n], registered[n], snapshot[n], Trusted(n))
    BY <1>2, <1>3, <1>4, <1>5, <2>5, <2>6, <2>7 DEF Writes, Untouched
  <2>10. OthersKept(n)
    BY <1>5, <2>4 DEF OthersKept
  <2> QED
    BY <1>1, <1>5, <2>4, <2>5, <2>6, <2>8, <2>9, <2>10, MovesOn DEF Name, Trusted
<1> QED
  BY <1>1, <1>4, <1>6, <1>7 DEF UnregisterFails

LEMMA ForgetSnapshotAgrees ==
  ASSUME Inv, AgreeInv, NEW c \in Callers, ForgetSnapshot(c)
  PROVE  AgreeInv'
<1>0. ~At(c, "idle")
  BY DEF ForgetSnapshot, At
<1>1. PICK n \in Schedules : n = Name(c)
  BY <1>0, Running
<1>2. /\ call[c] \in Call /\ Locals(call[c]) /\ TypeOK
      /\ Clean(call[c]) => /\ Reads(call[c], schedules[n])
                          /\ Writes(call[c], schedules[n], registered[n], snapshot[n],
                                    Trusted(n))
  BY <1>0, <1>1, Running DEF OnCourse, Inv
<1>3. call[c].faults \in Nat /\ call[c].excuse \in Excuse
  BY <1>0, Running
<1>4. PICK failed \in {f \in BOOLEAN : f => Fault(c, "remove")} :
        /\ snapshot' = IF failed THEN snapshot ELSE [snapshot EXCEPT ![Name(c)] = None]
        /\ IF call[c].undo THEN Return(c, FALSE, Again(c, failed))
           ELSE Goto(c, "remove", failed)
  BY DEF ForgetSnapshot
<1>5. /\ call[c].pc = "forget" /\ UNCHANGED <<tasks, schedules, registered>>
      /\ snapshot'[n] = IF failed THEN snapshot[n] ELSE None
      /\ \A m \in Schedules \ {n} : snapshot'[m] = snapshot[m]
  BY <1>1, <1>2, <1>4 DEF ForgetSnapshot, At, tables, TypeOK
<1>6. CASE call[c].undo
  <2>1. Clean(call[c]) /\ Again(c, failed) = "none"
          => Right(schedules[n], registered[n], snapshot'[n])
    BY <1>2, <1>5, <1>6 DEF Writes, Right, Again
  <2> QED
    BY <1>1, <1>4, <1>5, <1>6, <2>1, Failed, AgainIsExcuse
<1>7. CASE ~call[c].undo
  <2>1. PICK e : e = Both(call[c].excuse, Again(c, failed))
    OBVIOUS
  <2>2. PICK count : count = Faults(c, failed)
    OBVIOUS
  <2>3. PICK r : r = [call[c] EXCEPT !.pc = "remove", !.faults = count, !.excuse = e]
    OBVIOUS
  <2>4. call' = [call EXCEPT ![c] = r] /\ UNCHANGED excuse
    BY <1>2, <1>4, <1>7, <2>1, <2>2, <2>3 DEF Goto, TypeOK, Call
  <2>5. /\ r.name = call[c].name /\ r.excuse = e /\ r.pc = "remove"
        /\ r.undo = call[c].undo /\ r.op = call[c].op /\ r.prev = call[c].prev
        /\ r.prev_task = call[c].prev_task /\ r.faults = count
    BY <1>2, <2>3 DEF Call
  <2>6. Clean(r) => Clean(call[c]) /\ (failed => call[c].faults = 0)
    BY <1>3, <2>1, <2>5, CleanStays DEF Clean
  <2>7. count = IF failed THEN call[c].faults + 1 ELSE call[c].faults
    BY <1>3, <2>2 DEF Faults
  <2>8. Clean(r) => Reads(r, schedules[n])
    BY <1>2, <1>3, <1>5, <1>7, <2>5, <2>6, <2>7 DEF Reads, Creating
  <2>9. Clean(r) => Writes(r, schedules[n], registered[n], snapshot'[n], Trusted(n))
    BY <1>2, <1>3, <1>5, <1>7, <2>5, <2>6, <2>7 DEF Writes, Untouched
  <2>10. OthersKept(n)
    BY <1>5, <2>4 DEF OthersKept
  <2> QED
    BY <1>1, <1>5, <2>4, <2>5, <2>6, <2>8, <2>9, <2>10, MovesOn DEF Name, Trusted
<1> QED
  BY <1>6, <1>7

LEMMA RemoveScheduleAgrees ==
  ASSUME Inv, AgreeInv, NEW c \in Callers, RemoveSchedule(c)
  PROVE  AgreeInv'
<1>0. ~At(c, "idle")
  BY DEF RemoveSchedule, At
<1>1. PICK n \in Schedules : n = Name(c)
  BY <1>0, Running
<1>2. /\ call[c] \in Call /\ Locals(call[c]) /\ TypeOK
      /\ Clean(call[c]) => /\ Reads(call[c], schedules[n])
                          /\ Writes(call[c], schedules[n], registered[n], snapshot[n],
                                    Trusted(n))
  BY <1>0, <1>1, Running DEF OnCourse, Inv
<1>3. call[c].faults \in Nat /\ call[c].excuse \in Excuse
  BY <1>0, Running
<1>4. PICK success \in BOOLEAN : Return(c, success, "none")
  <2>1. (schedules[Name(c)] # None) \in BOOLEAN
    OBVIOUS
  <2> QED
    BY <2>1 DEF RemoveSchedule
<1>5. /\ call[c].pc = "remove" /\ UNCHANGED <<tasks, registered, snapshot>>
      /\ schedules'[n] = None
      /\ \A m \in Schedules \ {n} : schedules'[m] = schedules[m]
  BY <1>1, <1>2 DEF RemoveSchedule, At, TypeOK
<1>6. Clean(call[c]) => Right(None, registered[n], snapshot[n])
  BY <1>2, <1>5 DEF Writes, Right
<1>7. call[c].excuse = "none" => Clean(call[c])
  BY DEF Clean
<1> QED
  BY <1>1, <1>4, <1>5, <1>6, <1>7, Succeeded

LEMMA RemoveFailsAgrees ==
  ASSUME Inv, AgreeInv, NEW c \in Callers, RemoveFails(c)
  PROVE  AgreeInv'
<1>0. ~At(c, "idle")
  BY DEF RemoveFails, At
<1>1. PICK n \in Schedules : n = Name(c)
  BY <1>0, Running
<1>2. /\ call[c] \in Call /\ Locals(call[c]) /\ TypeOK
      /\ Clean(call[c]) => /\ Reads(call[c], schedules[n])
                          /\ Writes(call[c], schedules[n], registered[n], snapshot[n],
                                    Trusted(n))
  BY <1>0, <1>1, Running DEF OnCourse, Inv
<1>3. call[c].faults \in Nat /\ call[c].excuse \in Excuse
  BY <1>0, Running
<1>4. /\ call[c].pc = "remove" /\ call[c].prev # None
      /\ UNCHANGED <<tasks, schedules, registered, snapshot>>
  BY <1>2 DEF RemoveFails, At, Locals, tables
<1>5. schedules[n] # None => tasks[schedules[n].task] # 0
  BY DEF Inv, ScheduleNamesATask
<1>6. Clean(call[c]) /\ call[c].faults = 0 => schedules[n] # None /\ call[c].prev_task # 0
  BY <1>2, <1>4, <1>5 DEF Reads, Writes
<1>7. CASE call[c].prev_task = 0
  <2>1. ~(Clean(call[c]) /\ Again(c, TRUE) = "none")
    BY <1>3, <1>6, <1>7, FirstFailure
  <2> QED
    BY <1>1, <1>4, <1>7, <2>1, Failed, AgainIsExcuse DEF RemoveFails
<1>8. CASE call[c].prev_task # 0
  <2>1. PICK e : e = Both(call[c].excuse, Again(c, TRUE))
    OBVIOUS
  <2>2. PICK r : r = [call[c] EXCEPT !.pc = "snapshot", !.undo = TRUE,
                                     !.faults = call[c].faults + 1, !.excuse = e]
    OBVIOUS
  <2>3. call' = [call EXCEPT ![c] = r] /\ UNCHANGED excuse
    BY <1>2, <1>8, <2>1, <2>2 DEF RemoveFails, TypeOK, Call
  <2>4. /\ r.name = call[c].name /\ r.excuse = e /\ r.pc = "snapshot"
        /\ r.undo = TRUE /\ r.op = call[c].op /\ r.prev = call[c].prev
        /\ r.prev_task = call[c].prev_task
    BY <1>2, <2>2 DEF Call
  <2>5. Clean(r) => Clean(call[c]) /\ call[c].faults = 0
    BY <1>3, <2>1, <2>4, CleanStays DEF Clean
  <2>6. Clean(r) => Reads(r, schedules[n])
    BY <1>2, <1>4, <2>4, <2>5 DEF Reads, Creating
  <2>7. Clean(r) => Writes(r, schedules[n], registered[n], snapshot[n], Trusted(n))
    BY <2>4 DEF Writes, Untouched
  <2>8. OthersKept(n)
    BY <1>4, <2>3 DEF OthersKept
  <2> QED
    BY <1>1, <1>4, <2>3, <2>4, <2>5, <2>6, <2>7, <2>8, MovesOn DEF Name, Trusted
<1> QED
  BY <1>7, <1>8

LEMMA SetEnabledAgrees ==
  ASSUME Inv, AgreeInv, NEW c \in Callers, SetEnabled(c)
  PROVE  AgreeInv'
<1>0. ~At(c, "idle")
  BY DEF SetEnabled, At
<1>1. PICK n \in Schedules : n = Name(c)
  BY <1>0, Running
<1>2. /\ call[c] \in Call /\ Locals(call[c]) /\ TypeOK
      /\ Clean(call[c]) => /\ Reads(call[c], schedules[n])
                          /\ Writes(call[c], schedules[n], registered[n], snapshot[n],
                                    Trusted(n))
  BY <1>0, <1>1, Running DEF OnCourse, Inv
<1>3. call[c].faults \in Nat /\ call[c].excuse \in Excuse
  BY <1>0, Running
<1>4. PICK e : e = Both(call[c].excuse, Again(c, FALSE))
  OBVIOUS
<1>5. PICK count : count = Faults(c, FALSE)
  OBVIOUS
<1>6. PICK r : r = [call[c] EXCEPT !.pc = "store", !.faults = count, !.excuse = e]
  OBVIOUS

<1>7. call' = [call EXCEPT ![c] = r] /\ UNCHANGED excuse
  BY <1>2, <1>4, <1>5, <1>6 DEF SetEnabled, Goto, TypeOK, Call
<1>8. /\ r.name = call[c].name /\ r.excuse = e /\ r.pc = "store"
      /\ r.undo = call[c].undo /\ r.op = call[c].op /\ r.prev = call[c].prev
      /\ r.prev_task = call[c].prev_task /\ r.enabled = call[c].enabled
  BY <1>2, <1>6 DEF Call
<1>9. Clean(r) => Clean(call[c])
  BY <1>3, <1>4, <1>8, CleanStays DEF Clean
<1>10. /\ call[c].pc = "set" /\ call[c].op = "set" /\ call[c].prev # None
       /\ OthersKept(n) /\ registered'[n] = Setting(call[c].enabled)
       /\ UNCHANGED <<schedules, snapshot>>
  BY <1>1, <1>2, <1>7 DEF SetEnabled, At, Locals, OthersKept, tables, TypeOK
<1>11. Clean(r) => Reads(r, schedules[n])
  BY <1>2, <1>8, <1>9, <1>10 DEF Reads, Creating
<1>12. Clean(r) => Writes(r, schedules[n], registered'[n], snapshot[n], Trusted(n))
  BY <1>2, <1>8, <1>9, <1>10 DEF Reads, Writes, Untouched, Right
<1> QED
  BY <1>1, <1>7, <1>8, <1>9, <1>10, <1>11, <1>12, MovesOn DEF Name, Trusted

LEMMA SetEnabledFailsAgrees ==
  ASSUME Inv, AgreeInv, NEW c \in Callers, SetEnabledFails(c)
  PROVE  AgreeInv'
BY EndedUntouched, ExcuseNames DEF SetEnabledFails, Untouched, At

LEMMA UnsetEnabledAgrees ==
  ASSUME Inv, AgreeInv, NEW c \in Callers, UnsetEnabled(c)
  PROVE  AgreeInv'
<1>0. ~At(c, "idle")
  BY DEF UnsetEnabled, At
<1>1. PICK n \in Schedules : n = Name(c)
  BY <1>0, Running
<1>2. /\ call[c] \in Call /\ Locals(call[c]) /\ TypeOK
      /\ Clean(call[c]) => /\ Reads(call[c], schedules[n])
                          /\ Writes(call[c], schedules[n], registered[n], snapshot[n],
                                    Trusted(n))
  BY <1>0, <1>1, Running DEF OnCourse, Inv
<1>3. call[c].faults \in Nat /\ call[c].excuse \in Excuse
  BY <1>0, Running
<1>4. /\ call[c].pc = "unset"
      /\ UNCHANGED <<tasks, schedules, snapshot>>
      /\ \A m \in Schedules \ {n} : registered'[m] = registered[m]
  BY <1>1, <1>2 DEF UnsetEnabled, At, tables, TypeOK
<1>5. CASE /\ registered' = [registered EXCEPT ![n] = Setting(~call[c].enabled)]
           /\ Return(c, FALSE,
                     IF call[c].prev.enabled = call[c].enabled THEN "flag" ELSE "none")
  <2>1. PICK why : why = IF call[c].prev.enabled = call[c].enabled THEN "flag" ELSE "none"
    OBVIOUS
  <2>2. why \in Excuse /\ Return(c, FALSE, why)
    BY <1>5, <2>1, ExcuseNames
  <2>3. registered'[n] = Setting(~call[c].enabled)
    BY <1>2, <1>5 DEF TypeOK
  <2>4. Clean(call[c]) =>
          /\ schedules[n] # None /\ call[c].prev = schedules[n]
          /\ Trusted(n) => snapshot[n] = Current(schedules[n].task)
    BY <1>2, <1>4 DEF Reads, Writes
  <2>5. schedules[n] # None => schedules[n].enabled \in BOOLEAN
    BY <1>2 DEF TypeOK, Definition
  <2>6. Clean(call[c]) /\ why = "none" => schedules[n].enabled = (~call[c].enabled)
    <3>1. call[c].enabled \in BOOLEAN
      BY <1>2 DEF Call
    <3> QED
      BY <2>1, <2>4, <2>5, <3>1
  <2>7. Clean(call[c]) /\ why = "none" /\ Trusted(n)
          => Right(schedules[n], registered'[n], snapshot[n])
    BY <2>3, <2>4, <2>6 DEF Right
  <2> QED
    BY <1>1, <1>4, <2>2, <2>7, Failed
<1>6. CASE Return(c, FALSE, Again(c, TRUE))
  <2>1. ~(Clean(call[c]) /\ Again(c, TRUE) = "none")
    BY <1>2, <1>4 DEF Writes, Again
  <2> QED
    BY <1>1, <1>4, <1>6, <2>1, Failed, AgainIsExcuse
<1> QED
  BY <1>1, <1>5, <1>6 DEF UnsetEnabled

LEMMA StepAgree ==
  ASSUME Inv, AgreeInv, [Next]_vars PROVE AgreeInv'
<1>1. ASSUME NEW c \in Callers, NEW t \in Tasks, NEW replace \in BOOLEAN,
             PutTask(c, t, replace)
      PROVE  AgreeInv'
  <2>1. \A n \in Schedules : schedules[n] # None => schedules[n].task # t
    BY <1>1 DEF PutTask, Referenced, Inv, ScheduleNamesATask
  <2>2. \A u \in Tasks \ {t} : tasks'[u] = tasks[u]
    BY <1>1 DEF PutTask, Inv, TypeOK
  <2>3. PICK e : e = [d \in Callers |-> Both(call[d].excuse,
                         IF HasRead(d, t) THEN "replaced" ELSE "none")]
    OBVIOUS
  <2>4. Marks(t, e)
    <3> SUFFICES ASSUME NEW d \in Callers
                 PROVE  /\ call'[d] = [call[d] EXCEPT !.excuse = e[d]]
                        /\ e[d] # "disturbed" => Clean(call[d])
                        /\ e[d] = "none" => /\ call[d].excuse = "none"
                                            /\ tasks'[t] = 0 \/ ~HasRead(d, t)
                        /\ At(d, "idle") => e[d] = "none"
      BY Zenon DEF Marks
    <3>1. PICK x : x = IF HasRead(d, t) THEN "replaced" ELSE "none"
      OBVIOUS
    <3>2. x \in Excuse /\ call[d].excuse \in Excuse /\ e[d] = Both(call[d].excuse, x)
      BY <2>3, <3>1, ExcuseNames DEF Inv, TypeOK, Call
    <3>3. call'[d] = [call[d] EXCEPT !.excuse = e[d]]
      BY <1>1, <2>3 DEF PutTask
    <3>4. e[d] # "disturbed" => Clean(call[d])
      BY <3>2, BothKeeps DEF Clean
    <3>5. e[d] = "none" => call[d].excuse = "none" /\ ~HasRead(d, t)
      <4>1. PICK y \in Excuse : y = call[d].excuse /\ e[d] = Both(y, x)
        BY <3>2
      <4>2. e[d] = "none" => y = "none" /\ x = "none"
        BY <4>1 DEF Both
      <4> QED
        BY <4>1, <4>2, <3>1
    <3>6. At(d, "idle") => e[d] = "none"
      <4>1. NoCall.task = None /\ NoCall.excuse = "none" /\ None # t
        BY NoneAssumption DEF NoCall
      <4>2. At(d, "idle") => call[d] = NoCall
        BY DEF AgreeInv
      <4>3. At(d, "idle") => x = "none" /\ call[d].excuse = "none"
        BY <3>1, <4>1, <4>2 DEF HasRead
      <4> QED
        BY <3>2, <4>3, BothKeeps
    <3> QED
      BY <3>3, <3>4, <3>5, <3>6
  <2>5. UNCHANGED <<schedules, registered, snapshot, excuse>>
    BY <1>1 DEF PutTask
  <2> QED
    BY <2>1, <2>2, <2>4, <2>5, TaskCommandAgrees
<1>2. ASSUME NEW c \in Callers, NEW t \in Tasks, DeleteTask(c, t)
      PROVE  AgreeInv'
  <2>1. \A n \in Schedules : schedules[n] # None => schedules[n].task # t
    BY <1>2 DEF DeleteTask, Referenced
  <2>2. \A u \in Tasks \ {t} : tasks'[u] = tasks[u]
    BY <1>2 DEF DeleteTask, Inv, TypeOK
  <2>3. PICK e : e = [d \in Callers |-> call[d].excuse]
    OBVIOUS
  <2>4. Marks(t, e)
    <3> SUFFICES ASSUME NEW d \in Callers
                 PROVE  /\ call'[d] = [call[d] EXCEPT !.excuse = e[d]]
                        /\ e[d] # "disturbed" => Clean(call[d])
                        /\ e[d] = "none" => /\ call[d].excuse = "none"
                                            /\ tasks'[t] = 0 \/ ~HasRead(d, t)
                        /\ At(d, "idle") => e[d] = "none"
      BY Zenon DEF Marks
    <3>1. call[d] \in Call /\ e[d] = call[d].excuse /\ call' = call
      BY <1>2, <2>3 DEF Inv, TypeOK, DeleteTask
    <3>2. call'[d] = [call[d] EXCEPT !.excuse = e[d]]
      BY <3>1 DEF Call
    <3>3. tasks'[t] = 0
      BY <1>2 DEF DeleteTask, Inv, TypeOK
    <3>4. At(d, "idle") => e[d] = "none"
      <4>1. NoCall.excuse = "none"
        BY DEF NoCall
      <4> QED
        BY <3>1, <4>1 DEF AgreeInv
    <3> QED
      BY <3>1, <3>2, <3>3, <3>4 DEF Clean
  <2>5. UNCHANGED <<schedules, registered, snapshot, excuse>>
    BY <1>2 DEF DeleteTask
  <2> QED
    BY <2>1, <2>2, <2>4, <2>5, TaskCommandAgrees
<1>3. ASSUME NEW c \in Callers, ScheduleCommand(c) PROVE AgreeInv'
  <2>1. PICK n \in Schedules, flag \in BOOLEAN :
          \/ \E t \in Tasks, enabled \in BOOLEAN : BeginCreate(c, n, t, enabled, flag)
          \/ BeginDelete(c, n, flag)
          \/ BeginSet(c, n, flag)
    BY <1>3 DEF ScheduleCommand
  <2>2. PICK k \in Call : Starting(k) /\ Begin(c, n, k)
    <3>1. ASSUME NEW t \in Tasks, NEW enabled \in BOOLEAN,
                 BeginCreate(c, n, t, enabled, flag)
          PROVE  \E k \in Call : Starting(k) /\ Begin(c, n, k)
      <4> DEFINE k == [NoCall EXCEPT !.pc = "task", !.op = "create", !.task = t,
                                     !.enabled = enabled, !.force = flag]
      <4>1. k \in Call /\ Starting(k)
        BY IdleLocals DEF NoCall, Call, Pc, Starting
      <4> QED
        BY <3>1, <4>1 DEF BeginCreate
    <3>2. ASSUME BeginDelete(c, n, flag)
          PROVE  \E k \in Call : Starting(k) /\ Begin(c, n, k)
      <4> DEFINE k == [NoCall EXCEPT !.pc = "schedule", !.op = "delete", !.force = flag]
      <4>1. k \in Call /\ Starting(k)
        BY IdleLocals DEF NoCall, Call, Pc, Starting
      <4> QED
        BY <3>2, <4>1 DEF BeginDelete
    <3>3. ASSUME BeginSet(c, n, flag)
          PROVE  \E k \in Call : Starting(k) /\ Begin(c, n, k)
      <4> DEFINE k == [NoCall EXCEPT !.pc = "schedule", !.op = "set", !.enabled = flag]
      <4>1. k \in Call /\ Starting(k)
        BY IdleLocals DEF NoCall, Call, Pc, Starting
      <4> QED
        BY <3>3, <4>1 DEF BeginSet
    <3> QED
      BY <2>1, <3>1, <3>2, <3>3
  <2> QED
    BY <2>2, BeginAgrees
<1>4. ASSUME NEW c \in Callers, CommandStep(c) PROVE AgreeInv'
  BY <1>4, ReadFailsAgrees, ReadTaskAgrees, ReadScheduleAgrees, ReadPreviousTaskAgrees,
     WriteSnapshotAgrees, WriteSnapshotFailsAgrees, XmlFailsAgrees, RegisterAgrees,
     RegisterFailsAgrees, RestoreSnapshotAgrees, StoreScheduleAgrees, StoreFailsAgrees,
     UnregisterAgrees, UnregisterFailsAgrees, ForgetSnapshotAgrees,
     RemoveScheduleAgrees, RemoveFailsAgrees, SetEnabledAgrees, SetEnabledFailsAgrees,
     UnsetEnabledAgrees
  DEF CommandStep
<1>5. CASE UNCHANGED vars
  BY <1>5 DEF vars, tables, AgreeInv, At, Name, OnCourse, Reads, Writes, Creating,
     Kept, Clean, Trusted, Untouched, Right, Current, StoresAgree, AgreeBut, Agree, Quiet
<1> QED
  BY <1>1, <1>2, <1>3, <1>4, <1>5, CrashAgrees DEF Next, TaskCommand

(* However commands, failures and crashes interleave, on every quiet name  *)
(* that no excuse covers a stored schedule is registered with its own      *)
(* enabled flag and with its task's current definition, and one that is    *)
(* not stored can start nothing.  The compensation of a failed create,     *)
(* replace, delete, enable or disable (shell.rs:2790-2798, 2883-2887,      *)
(* 2913-2917) thus undoes everything; Excuse lists what is not promised.   *)
THEOREM StoresAgreeAlways == Spec => []StoresAgree
<1>1. Init => Inv /\ AgreeInv
  BY InitInv, InitAgree
<1>2. Inv /\ AgreeInv /\ [Next]_vars => Inv' /\ AgreeInv'
  BY StepInv, StepAgree
<1>3. AgreeInv => StoresAgree
  BY DEF AgreeInv
<1> QED
  BY <1>1, <1>2, <1>3, PTL DEF Spec
=============================================================================

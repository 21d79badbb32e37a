-------------------------- MODULE ScheduleRegistry --------------------------
(***************************************************************************)
(* Tasks and schedules: the `task` and `schedule` commands of src/shell.rs *)
(* over the two tables of the state worker (src/state.rs), the operating   *)
(* system's scheduler and the task snapshots beside it                     *)
(* (src/task_scheduler.rs).                                                *)
(*                                                                         *)
(* Callers are the threads of one shell: the statements of a parallel      *)
(* block may run these commands side by side.  A request to the state      *)
(* worker is one action, and so is each call of schtasks and each access   *)
(* to a snapshot file; between any two of them the shell may be killed.    *)
(*                                                                         *)
(* UndoAlways, ReferencedByEnabled and Uncompensated are faulty variants   *)
(* of the definitions after them.                                          *)
(***************************************************************************)
EXTENDS Integers

CONSTANTS
  Callers,      \* threads that run task and schedule commands
  Tasks,        \* task names
  Schedules,    \* schedule names
  MaxRevision,  \* most task definitions ever stored
  MaxFaults,    \* most failures one command meets, while no other meets any
  Failing,      \* the kinds of failure it may meet
  None,         \* no entry, no file
  Damaged       \* a file cut short by a failed write

FaultKinds == {"state", "schtasks", "xml", "write", "remove"}

ASSUME ScheduleAssumption ==
  /\ MaxRevision \in Nat \ {0}
  /\ MaxFaults \in Nat
  /\ Failing \subseteq FaultKinds

Revision == 1..MaxRevision
Definition == [task : Tasks, enabled : BOOLEAN]
Snapshot == [task : Tasks, revision : Revision]

ASSUME NoneAssumption ==
  /\ None \notin Schedules \cup Tasks \cup Definition \cup Snapshot
                 \cup {"enabled", "disabled"}
  /\ Damaged \notin Snapshot \cup {None}

VARIABLES
  tasks,       \* TASKS: the revision stored under each name, 0 for none
  revision,    \* revisions given out so far
  schedules,   \* SCHEDULES
  registered,  \* the scheduler's entry \ion-win-NAME
  snapshot,    \* the file NAME.task.json
  call,        \* where each caller is in its command, and its locals
  excuse       \* what may have set the stores apart since a name was right: a
               \* history variable, it enables nothing

tables == <<tasks, revision, schedules>>
vars == <<tables, registered, snapshot, call, excuse>>

(* The task of a create was replaced after the create had read it; a       *)
(* failed enable or disable had asked for what was already so; a failed    *)
(* register left another snapshot than it found; the shell was killed in a *)
(* command, two commands on one name overlapped, a command failed again    *)
(* after it had failed, or more than one of all these.                     *)
Excuse == {"none", "replaced", "flag", "unrestored", "disturbed"}
Both(x, y) ==
  CASE x = "none" -> y
    [] y \in {"none", x} -> x
    [] OTHER -> "disturbed"

Pc == {"idle", "task", "schedule", "previous", "snapshot", "register",
       "restore", "store", "unregister", "forget", "remove", "set", "unset"}

(* op, name, task, enabled and force are the arguments; revision, prev,    *)
(* prev_task and saved what the command has read; undo says that it is     *)
(* compensating.  excuse: what it has met so far itself.                    *)
Call == [pc : Pc, op : {"none", "create", "delete", "set"},
         name : Schedules \cup {None}, task : Tasks \cup {None},
         enabled : BOOLEAN, force : BOOLEAN,
         revision : Revision \cup {0}, prev : Definition \cup {None},
         prev_task : Revision \cup {0},
         saved : Snapshot \cup {None, Damaged},
         undo : BOOLEAN, faults : 0..MaxFaults, excuse : Excuse]

NoCall == [pc |-> "idle", op |-> "none", name |-> None, task |-> None,
           enabled |-> FALSE, force |-> FALSE, revision |-> 0, prev |-> None,
           prev_task |-> 0, saved |-> None, undo |-> FALSE, faults |-> 0,
           excuse |-> "none"]

TypeOK ==
  /\ tasks \in [Tasks -> Revision \cup {0}]
  /\ revision \in 0..MaxRevision
  /\ schedules \in [Schedules -> Definition \cup {None}]
  /\ registered \in [Schedules -> {None, "enabled", "disabled"}]
  /\ snapshot \in [Schedules -> Snapshot \cup {None, Damaged}]
  /\ call \in [Callers -> Call]
  /\ excuse \in [Schedules -> Excuse]

Init ==
  /\ tasks = [t \in Tasks |-> 0]
  /\ revision = 0
  /\ schedules = [n \in Schedules |-> None]
  /\ registered = [n \in Schedules |-> None]
  /\ snapshot = [n \in Schedules |-> None]
  /\ call = [c \in Callers |-> NoCall]
  /\ excuse = [n \in Schedules |-> "none"]

-----------------------------------------------------------------------------
(* Helpers.                                                                *)

At(c, pc) == call[c].pc = pc
Name(c) == call[c].name
Quiet(n) == \A c \in Callers : Name(c) # n
Fault(c, kind) ==
  /\ kind \in Failing
  /\ call[c].faults < MaxFaults
  /\ \A d \in Callers \ {c} : call[d].faults = 0
Faults(c, failed) == call[c].faults + IF failed THEN 1 ELSE 0
Setting(enabled) == IF enabled THEN "enabled" ELSE "disabled"

(* A failure after another, in the compensation for one as a rule.         *)
Again(c, failed) ==
  IF failed /\ (call[c].undo \/ call[c].faults > 0) THEN "disturbed" ELSE "none"

Goto(c, pc, failed) ==
  /\ call' = [call EXCEPT ![c].pc = pc, ![c].faults = Faults(c, failed),
                          ![c].excuse = Both(@, Again(c, failed))]
  /\ UNCHANGED excuse

(* The command returns.  A create or delete that succeeds leaves the name  *)
(* right, whatever went before; one that fails has put back what it found, *)
(* and a task that was replaced meanwhile does not matter to it.           *)
Return(c, success, why) ==
  /\ call' = [call EXCEPT ![c] = NoCall]
  /\ excuse' = [excuse EXCEPT ![Name(c)] =
       IF success /\ call[c].op \in {"create", "delete"} THEN call[c].excuse
       ELSE Both(@, IF call[c].excuse = "disturbed" THEN "disturbed" ELSE why)]

(* What task_scheduler::register is called with.                           *)
DefinitionOf(c) ==
  IF call[c].undo THEN call[c].prev
  ELSE [task |-> IF call[c].op = "set" THEN call[c].prev.task ELSE call[c].task,
        enabled |-> call[c].enabled]
SnapshotOf(c) ==
  [task |-> DefinitionOf(c).task,
   revision |-> IF call[c].undo THEN call[c].prev_task ELSE call[c].revision]

-----------------------------------------------------------------------------
(* task create and task delete: one request to the state worker.           *)

ReferencedByEnabled(t) ==
  \E n \in Schedules : schedules[n] = [task |-> t, enabled |-> TRUE]
Referenced(t) == \E n \in Schedules : schedules[n] # None /\ schedules[n].task = t

(* Creates that hold the definition of t they have read.                   *)
HasRead(d, t) == call[d].task = t /\ ~At(d, "task")

PutTask(c, t, replace) ==
  /\ At(c, "idle")
  /\ IF replace THEN ~Referenced(t) ELSE tasks[t] = 0
  /\ revision < MaxRevision
  /\ revision' = revision + 1
  /\ tasks' = [tasks EXCEPT ![t] = revision']
  /\ call' = [d \in Callers |->
                [call[d] EXCEPT !.excuse =
                   Both(@, IF HasRead(d, t) THEN "replaced" ELSE "none")]]
  /\ UNCHANGED <<schedules, registered, snapshot, excuse>>

DeleteTask(c, t) ==
  /\ At(c, "idle")
  /\ ~Referenced(t)
  /\ tasks[t] # 0
  /\ tasks' = [tasks EXCEPT ![t] = 0]
  /\ UNCHANGED <<revision, schedules, registered, snapshot, call, excuse>>

-----------------------------------------------------------------------------
(* schedule create, delete, enable and disable: arguments and reads.       *)

Begin(c, n, command) ==
  /\ At(c, "idle")
  /\ call' = [d \in Callers |->
                IF d = c
                THEN [command EXCEPT !.name = n,
                                     !.excuse = IF Quiet(n) THEN "none" ELSE "disturbed"]
                ELSE [call[d] EXCEPT !.excuse = IF Name(d) = n THEN "disturbed" ELSE @]]
  /\ UNCHANGED <<tables, registered, snapshot, excuse>>

BeginCreate(c, n, t, enabled, force) ==
  Begin(c, n, [NoCall EXCEPT !.pc = "task", !.op = "create", !.task = t,
                             !.enabled = enabled, !.force = force])
BeginDelete(c, n, force) ==
  Begin(c, n, [NoCall EXCEPT !.pc = "schedule", !.op = "delete", !.force = force])
BeginSet(c, n, enabled) ==
  Begin(c, n, [NoCall EXCEPT !.pc = "schedule", !.op = "set", !.enabled = enabled])

(* state.get_task and state.get_schedule; an error ends the command.       *)
ReadFails(c) ==
  /\ At(c, "task") \/ At(c, "schedule")
  /\ Fault(c, "state")
  /\ Return(c, FALSE, "none")
  /\ UNCHANGED <<tables, registered, snapshot>>

ReadTask(c) ==
  /\ At(c, "task")
  /\ LET stored == tasks[call[c].task] IN
     IF stored = 0
     THEN Return(c, FALSE, "none")
     ELSE /\ call' = [call EXCEPT ![c].pc = "schedule", ![c].revision = stored]
          /\ UNCHANGED excuse
  /\ UNCHANGED <<tables, registered, snapshot>>

ReadSchedule(c) ==
  /\ At(c, "schedule")
  /\ LET stored == schedules[Name(c)]
         op == call[c].op
         refused == IF op = "create" THEN stored # None /\ ~call[c].force
                    ELSE stored = None
         next == IF op = "set" THEN "set"
                 ELSE IF stored # None THEN "previous" ELSE "snapshot"
     IN IF refused
        THEN Return(c, FALSE, "none")
        ELSE /\ call' = [call EXCEPT ![c].pc = next, ![c].prev = stored]
             /\ UNCHANGED excuse
  /\ UNCHANGED <<tables, registered, snapshot>>

(* The task of the previous definition, for compensation; an error counts  *)
(* as no task.                                                             *)
ReadPreviousTask(c) ==
  /\ At(c, "previous")
  /\ \E failed \in {f \in BOOLEAN : f => Fault(c, "state")} :
       call' = [call EXCEPT
         ![c].pc = IF call[c].op = "delete" THEN "unregister" ELSE "snapshot",
         ![c].prev_task = IF failed THEN 0 ELSE tasks[call[c].prev.task],
         ![c].faults = Faults(c, failed)]
  /\ UNCHANGED <<tables, registered, snapshot, excuse>>

-----------------------------------------------------------------------------
(* task_scheduler::register.                                               *)

WriteSnapshot(c) ==
  /\ At(c, "snapshot")
  /\ snapshot' = [snapshot EXCEPT ![Name(c)] = SnapshotOf(c)]
  /\ call' = [call EXCEPT ![c].pc = "register", ![c].revision = 0,
                          ![c].saved = snapshot[Name(c)]]
  /\ UNCHANGED <<tables, registered, excuse>>

(* The file cannot be opened, or cannot be written to its end.             *)
WriteSnapshotFails(c) ==
  /\ At(c, "snapshot")
  /\ Fault(c, "write")
  /\ \E left \in {snapshot[Name(c)], Damaged} :
       /\ snapshot' = [snapshot EXCEPT ![Name(c)] = left]
       /\ Return(c, FALSE, Both(Again(c, TRUE),
                   IF left = snapshot[Name(c)] THEN "none" ELSE "unrestored"))
  /\ UNCHANGED <<tables, registered>>

(* registration_xml or writing its result fails: a daily trigger in the    *)
(* gap of a timezone transition, for one.                                  *)
XmlFails(c) ==
  /\ At(c, "register")
  /\ Fault(c, "xml")
  /\ Return(c, FALSE, Both(Again(c, TRUE),
              IF snapshot[Name(c)] = call[c].saved THEN "none" ELSE "unrestored"))
  /\ UNCHANGED <<tables, registered, snapshot>>

(* schtasks /Create /F.                                                    *)
Register(c) ==
  /\ At(c, "register")
  /\ registered' = [registered EXCEPT ![Name(c)] = Setting(DefinitionOf(c).enabled)]
  /\ IF call[c].undo
     THEN Return(c, FALSE, "none")
     ELSE /\ call' = [call EXCEPT ![c].pc = "store", ![c].saved = None]
          /\ UNCHANGED excuse
  /\ UNCHANGED <<tables, snapshot>>

RegisterFails(c) ==
  /\ At(c, "register")
  /\ Fault(c, "schtasks")
  /\ call' = [call EXCEPT ![c] =
       [NoCall EXCEPT !.pc = "restore", !.op = call[c].op, !.name = Name(c),
                      !.prev = call[c].prev, !.saved = call[c].saved,
                      !.undo = call[c].undo, !.faults = call[c].faults + 1,
                      !.excuse = Both(call[c].excuse, Again(c, TRUE))]]
  /\ UNCHANGED <<tables, registered, snapshot, excuse>>

RestoreSnapshot(c) ==
  /\ At(c, "restore")
  /\ \/ /\ snapshot' = [snapshot EXCEPT ![Name(c)] = call[c].saved]
        /\ Return(c, FALSE, "none")
     \/ /\ Fault(c, IF call[c].saved = None THEN "remove" ELSE "write")
        /\ Return(c, FALSE, Again(c, TRUE))
        /\ UNCHANGED snapshot
  /\ UNCHANGED <<tables, registered>>

-----------------------------------------------------------------------------
(* The registry, and compensation when it refuses or fails.                *)

UndoAlways(c) == call[c].prev # None
CanRegisterAgain(c) == call[c].prev # None /\ call[c].prev_task # 0

Compensation(c) ==
  CASE call[c].op = "set" -> "unset"
    [] call[c].op # "set" /\ CanRegisterAgain(c) -> "snapshot"
    [] OTHER -> "unregister"

(* StateCommand::PutSchedule.                                              *)
CanStore(c) == /\ tasks[DefinitionOf(c).task] # 0
               /\ call[c].op = "create" /\ ~call[c].force
                    => schedules[Name(c)] = None
StoreSchedule(c) ==
  /\ At(c, "store")
  /\ CanStore(c)
  /\ schedules' = [schedules EXCEPT ![Name(c)] = DefinitionOf(c)]
  /\ Return(c, TRUE, "none")
  /\ UNCHANGED <<tasks, revision, registered, snapshot>>

StoreFails(c) ==
  /\ At(c, "store")
  /\ CanStore(c) => Fault(c, "state")
  /\ call' = [call EXCEPT ![c].pc = Compensation(c), ![c].undo = TRUE,
                          ![c].task = None, ![c].force = FALSE,
                          ![c].faults = Faults(c, CanStore(c)),
                          ![c].excuse = Both(@, Again(c, TRUE))]
  /\ UNCHANGED <<tables, registered, snapshot, excuse>>

(* task_scheduler::delete: schtasks /Delete fails when there is no entry.  *)
Unregister(c) ==
  /\ At(c, "unregister")
  /\ registered[Name(c)] # None
  /\ registered' = [registered EXCEPT ![Name(c)] = None]
  /\ Goto(c, "forget", FALSE)
  /\ UNCHANGED <<tables, snapshot>>

UnregisterFails(c) ==
  /\ At(c, "unregister")
  /\ registered[Name(c)] # None => Fault(c, "schtasks")
  /\ IF call[c].op = "delete" /\ call[c].force
     THEN Goto(c, "forget", registered[Name(c)] # None)
     ELSE Return(c, FALSE, Again(c, TRUE))
  /\ UNCHANGED <<tables, registered, snapshot>>

ForgetSnapshot(c) ==
  /\ At(c, "forget")
  /\ \E failed \in {f \in BOOLEAN : f => Fault(c, "remove")} :
       /\ snapshot' = IF failed THEN snapshot
                      ELSE [snapshot EXCEPT ![Name(c)] = None]
       /\ IF call[c].undo THEN Return(c, FALSE, Again(c, failed))
          ELSE Goto(c, "remove", failed)
  /\ UNCHANGED <<tables, registered>>

(* StateCommand::DeleteSchedule.                                           *)
RemoveSchedule(c) ==
  /\ At(c, "remove")
  /\ schedules' = [schedules EXCEPT ![Name(c)] = None]
  /\ Return(c, schedules[Name(c)] # None, "none")
  /\ UNCHANGED <<tasks, revision, registered, snapshot>>

Uncompensated(c) ==
  /\ At(c, "remove")
  /\ Fault(c, "state")
  /\ Return(c, FALSE, "none")
  /\ UNCHANGED <<tables, registered, snapshot>>
RemoveFails(c) ==
  /\ At(c, "remove")
  /\ Fault(c, "state")
  /\ IF call[c].prev_task # 0
     THEN /\ call' = [call EXCEPT ![c].pc = "snapshot", ![c].undo = TRUE,
                                  ![c].faults = @ + 1,
                                  ![c].excuse = Both(@, Again(c, TRUE))]
          /\ UNCHANGED excuse
     ELSE Return(c, FALSE, Again(c, TRUE))
  /\ UNCHANGED <<tables, registered, snapshot>>

(* schtasks /Change /ENABLE or /DISABLE.                                   *)
SetEnabled(c) ==
  /\ At(c, "set")
  /\ registered[Name(c)] # None
  /\ registered' = [registered EXCEPT ![Name(c)] = Setting(call[c].enabled)]
  /\ Goto(c, "store", FALSE)
  /\ UNCHANGED <<tables, snapshot>>

SetEnabledFails(c) ==
  /\ At(c, "set")
  /\ registered[Name(c)] # None => Fault(c, "schtasks")
  /\ Return(c, FALSE, "none")
  /\ UNCHANGED <<tables, registered, snapshot>>

UnsetEnabled(c) ==
  /\ At(c, "unset")
  /\ \/ /\ registered[Name(c)] # None
        /\ registered' = [registered EXCEPT ![Name(c)] = Setting(~call[c].enabled)]
        /\ Return(c, FALSE,
                  IF call[c].prev.enabled = call[c].enabled THEN "flag" ELSE "none")
     \/ /\ registered[Name(c)] # None => Fault(c, "schtasks")
        /\ Return(c, FALSE, Again(c, TRUE))
        /\ UNCHANGED registered
  /\ UNCHANGED <<tables, snapshot>>

(* The shell is killed and started again.                                  *)
Crash ==
  /\ \E c \in Callers : ~At(c, "idle")
  /\ call' = [c \in Callers |-> NoCall]
  /\ excuse' = [n \in Schedules |-> IF Quiet(n) THEN excuse[n] ELSE "disturbed"]
  /\ UNCHANGED <<tables, registered, snapshot>>

-----------------------------------------------------------------------------

TaskCommand(c) ==
  \E t \in Tasks : \/ \E replace \in BOOLEAN : PutTask(c, t, replace)
                   \/ DeleteTask(c, t)

ScheduleCommand(c) ==
  \E n \in Schedules, flag \in BOOLEAN :
    \/ \E t \in Tasks, enabled \in BOOLEAN : BeginCreate(c, n, t, enabled, flag)
    \/ BeginDelete(c, n, flag)
    \/ BeginSet(c, n, flag)

CommandStep(c) ==
  \/ ReadFails(c) \/ ReadTask(c) \/ ReadSchedule(c) \/ ReadPreviousTask(c)
  \/ WriteSnapshot(c) \/ WriteSnapshotFails(c) \/ XmlFails(c)
  \/ Register(c) \/ RegisterFails(c) \/ RestoreSnapshot(c)
  \/ StoreSchedule(c) \/ StoreFails(c)
  \/ Unregister(c) \/ UnregisterFails(c) \/ ForgetSnapshot(c)
  \/ RemoveSchedule(c) \/ RemoveFails(c)
  \/ SetEnabled(c) \/ SetEnabledFails(c) \/ UnsetEnabled(c)

Next == \/ \E c \in Callers : TaskCommand(c) \/ ScheduleCommand(c) \/ CommandStep(c)
        \/ Crash

Spec == Init /\ [][Next]_vars

-----------------------------------------------------------------------------

(* Every stored schedule names a stored task, whatever commands, failures  *)
(* and crashes interleave: PutSchedule looks for the task in its           *)
(* transaction, PutTask and DeleteTask for schedules in theirs.            *)
ScheduleNamesATask ==
  \A n \in Schedules : schedules[n] # None => tasks[schedules[n].task] # 0

Current(t) == [task |-> t, revision |-> tasks[t]]

(* The two stores agree on a name: a stored schedule is registered with    *)
(* its own setting, and what the scheduler will start is its task's        *)
(* current definition; for a name that is not stored the scheduler can     *)
(* start nothing.                                                          *)
Agree(n) ==
  IF schedules[n] = None
  THEN registered[n] = None \/ snapshot[n] = None
  ELSE /\ registered[n] = Setting(schedules[n].enabled)
       /\ snapshot[n] = Current(schedules[n].task)

AgreeBut(why) ==
  \A n \in Schedules : excuse[n] \in {"none", why} /\ Quiet(n) => Agree(n)

(* Create, replace, delete, enable and disable keep the stores in          *)
(* agreement, the enabled flag included, although any one of their         *)
(* requests, schtasks calls or file accesses fails, and although the task  *)
(* is deleted, or replaced before a failure, under them: compensation      *)
(* restores what was there (shell.rs:2790-2798, 2883-2887, 2913-2917).     *)
(* Once a name has an excuse, one more create or delete that succeeds      *)
(* without any is enough to bring the stores back.                         *)
StoresAgree == AgreeBut("none")

(* ARCHITECTURE.md:959: "Create/replace/delete/enable/disable apply OS     *)
(* changes first and compensate or roll back if registry persistence       *)
(* fails", and a task referenced by a schedule cannot be replaced, "so     *)
(* snapshots cannot silently become stale"; HANDOVER.md:93: "failed        *)
(* replacement preserves the prior snapshot".  So the stores agree unless  *)
(* a crash, an overlap of commands or a second failure disturbs them.      *)
StoresAlwaysAgree == \A why \in Excuse \ {"disturbed"} : AgreeBut(why)

=============================================================================

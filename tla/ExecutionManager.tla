-------------------------- MODULE ExecutionManager --------------------------
(***************************************************************************)
(* The in-memory execution registry of src/execution.rs together with the  *)
(* threads that drive it: the shell and parallel workers that launch and   *)
(* wait (runners and waiters), the Ctrl+C handler and deadline watchers of *)
(* src/jobctl.rs, the grace-period escalators, and the child processes.    *)
(*                                                                         *)
(* One action is one critical section of the manager mutex, or one         *)
(* operating-system call made outside it.  Operations that begin with      *)
(* refresh_background_jobs hold the mutex over several actions (lock).     *)
(*                                                                         *)
(* The definitions before Trim, FinalState, SignalCancellation and a few   *)
(* others that are used nowhere are faulty variants of them: the runs are  *)
(* repeated with each to confirm that the properties notice the fault.     *)
(***************************************************************************)
EXTENDS Integers, Sequences

CONSTANTS
  MaxId,         \* the value at which next_id is exhausted (u64::MAX)
  MaxStages,     \* most external stages a pipeline has
  HistoryLimit,  \* history_limit of the manager
  Waiters,       \* shell threads that run `wait` and `exec wait`
  Launches       \* the specs the n-th launch is chosen from

Stage == 1..MaxStages
NoId == 0
ExecutionId == 1..(MaxId - 1)

Kind == {"external", "captured", "pipeline", "background"}

(* stubborn: the program ignores Ctrl+Break.  limits: a memory or process  *)
(* count limit is requested.  Only task specs (external) carry policies.   *)
ExecutionSpec == [kind : Kind, stages : 0..MaxStages,
                  timeout : BOOLEAN, limits : BOOLEAN, stubborn : BOOLEAN]

ASSUME BoundsAssumption ==
  /\ MaxId \in Nat \ {0}
  /\ MaxStages \in Nat \ {0}
  /\ HistoryLimit \in Nat

ASSUME WaitersAssumption ==
  Waiters \cap {"none", "runner", "manager"} = {}

ASSUME LaunchesAssumption ==
  /\ Launches \in [ExecutionId -> SUBSET ExecutionSpec]
  /\ \A id \in ExecutionId : \A s \in Launches[id] :
       /\ s.kind \in {"external", "captured"} => s.stages = 1
       /\ s.kind # "external" => ~s.timeout /\ ~s.limits

NonTerminal == {"Created", "Starting", "Running", "Cancelling"}
Terminal == {"Completed", "Failed", "Cancelled", "TimedOut"}

NoSpec == [kind |-> "pipeline", stages |-> 0,
           timeout |-> FALSE, limits |-> FALSE, stubborn |-> FALSE]

ExecutionRecord == [id : ExecutionId, state : Terminal,
                    processes : SUBSET Stage, exited : SUBSET Stage]

Process == ExecutionId \X Stage

VARIABLES
  next_id,            \* next_id
  spec,               \* spec of every execution created so far
  state,              \* state of an active execution, "absent" when not in active
  timeout_triggered,  \* timeout_triggered
  processes,          \* process records attached to an active execution
  exited,             \* those with an exit code, recorded or in a waiter's updates
  job,                \* processes in the execution's Job Object, {} without one
  history,            \* bounded VecDeque of ExecutionRecords
  owner,              \* who holds the child handles (background_children: "manager")
  children,           \* the child handles not yet waited for
  verdict,            \* outcome so far of the wait loop over children
  pc,                 \* where the launching call of each execution is
  current,            \* the execution a waiter's loop is at
  lock,               \* the operation that holds the mutex across a refresh
  timers,             \* executions whose deadline watcher sleeps
  graces,             \* id sets of sleeping grace-period escalators
  os,                 \* state of every child process
  broken              \* running processes that have received Ctrl+Break

registry == <<next_id, spec, state, timeout_triggered, processes, exited,
              job, history>>
handles == <<owner, children, verdict, pc, current>>
signalling == <<timers, graces, broken>>
vars == <<registry, handles, signalling, lock, os>>

Free == [op |-> "free", id |-> NoId, waiter |-> "none", todo |-> {}]
Unlocked == lock.op = "free"

OsState == {"unborn", "running", "ok", "bad", "terminated"}
Exited(id, k) == os[id][k] \in {"ok", "bad", "terminated"}

TypeOK ==
  /\ next_id \in 1..MaxId
  /\ spec \in [ExecutionId -> ExecutionSpec]
  /\ state \in [ExecutionId -> NonTerminal \cup {"absent"}]
  /\ timeout_triggered \in [ExecutionId -> BOOLEAN]
  /\ processes \in [ExecutionId -> SUBSET Stage]
  /\ exited \in [ExecutionId -> SUBSET Stage]
  /\ job \in [ExecutionId -> SUBSET Stage]
  /\ history \in Seq(ExecutionRecord)
  /\ owner \in [ExecutionId -> {"none", "runner", "manager"} \cup Waiters]
  /\ children \in [ExecutionId -> SUBSET Stage]
  /\ verdict \in [ExecutionId -> {"success", "failure", "broken"}]
  /\ pc \in [ExecutionId -> {"idle", "created", "starting", "building",
                             "spawned", "assigned", "waiting", "done"}]
  /\ current \in [Waiters -> ExecutionId \cup {NoId}]
  /\ lock \in [op : {"free", "observe", "wait", "cancel"},
               id : ExecutionId \cup {NoId},
               waiter : Waiters \cup {"none"},
               todo : SUBSET ExecutionId]
  /\ timers \in SUBSET ExecutionId
  /\ graces \in SUBSET (SUBSET ExecutionId)
  /\ os \in [ExecutionId -> [Stage -> OsState]]
  /\ broken \in SUBSET Process

Init ==
  /\ next_id = 1
  /\ spec = [id \in ExecutionId |-> NoSpec]
  /\ state = [id \in ExecutionId |-> "absent"]
  /\ timeout_triggered = [id \in ExecutionId |-> FALSE]
  /\ processes = [id \in ExecutionId |-> {}]
  /\ exited = [id \in ExecutionId |-> {}]
  /\ job = [id \in ExecutionId |-> {}]
  /\ history = << >>
  /\ owner = [id \in ExecutionId |-> "none"]
  /\ children = [id \in ExecutionId |-> {}]
  /\ verdict = [id \in ExecutionId |-> "success"]
  /\ pc = [id \in ExecutionId |-> "idle"]
  /\ current = [w \in Waiters |-> NoId]
  /\ lock = Free
  /\ timers = {}
  /\ graces = {}
  /\ os = [id \in ExecutionId |-> [k \in Stage |-> "unborn"]]
  /\ broken = {}

-----------------------------------------------------------------------------
(* Helpers shared by the operations.                                       *)

Pipeline(id) == spec[id].kind \in {"pipeline", "background"}
Foreground(id) == spec[id].kind # "background"
RequiredForLimits(id) == spec[id].limits
Required(id) == spec[id].timeout \/ spec[id].limits
Managed(id) == owner[id] = "manager"
Held(w) == {id \in ExecutionId : owner[id] = w}

(* The interactive thread assembles at most one background pipeline at a   *)
(* time, and runs nothing else meanwhile.                                  *)
Constructing == \E id \in ExecutionId :
                  spec[id].kind = "background" /\ owner[id] = "runner"
ShellIdle == /\ \A id \in ExecutionId : owner[id] # "runner"
             /\ \A w \in Waiters : Held(w) = {}

(* Wait loops take the handles in stage order.                             *)
NextChild(id, k) == k \in children[id] /\ \A j \in children[id] : k <= j

(* transition into a terminal state: the execution leaves active and       *)
(* job_objects, and its sanitized record enters the bounded history.       *)
TrimOneLate(s) == IF Len(s) > HistoryLimit + 1 THEN Tail(s) ELSE s
Trim(s) == IF Len(s) > HistoryLimit THEN Tail(s) ELSE s
Retire(id, final, recorded) ==
  /\ state' = [state EXCEPT ![id] = "absent"]
  /\ timeout_triggered' = [timeout_triggered EXCEPT ![id] = FALSE]
  /\ processes' = [processes EXCEPT ![id] = {}]
  /\ exited' = [exited EXCEPT ![id] = {}]
  /\ job' = [job EXCEPT ![id] = {}]
  /\ history' = Trim(Append(history, [id |-> id, state |-> final,
                                      processes |-> processes[id],
                                      exited |-> recorded]))

FinalStateIsNatural(id, natural) == natural
FinalStateAsIs(id, natural) ==
  IF state[id] = "Cancelling" THEN state[id] ELSE natural

(* finish_after_wait: a cancelling execution ends as cancelled or timed    *)
(* out whatever its processes returned.                                    *)
FinalState(id, natural) ==
  IF state[id] = "Cancelling"
  THEN IF timeout_triggered[id] THEN "TimedOut" ELSE "Cancelled"
  ELSE natural
FinishAfterWait(id, natural, recorded) ==
  Retire(id, FinalState(id, natural), recorded)

NaturalState(v) == IF v = "success" THEN "Completed" ELSE "Failed"

(* The holder drops its handles and the locals of its wait loop.           *)
Release(id) == /\ owner' = [owner EXCEPT ![id] = "none"]
               /\ children' = [children EXCEPT ![id] = {}]
               /\ verdict' = [verdict EXCEPT ![id] = "success"]

SignalByJobOnly(ids) ==
  /\ broken' = broken
  /\ graces' = graces \cup {ids}

(* The snapshot of a cancellation, and what signal_cancellation does with  *)
(* it outside the mutex: Ctrl+Break to every recorded process still        *)
(* running, then a thread that escalates after the grace period.  Delivery *)
(* is asynchronous anyway, so it is joined to taking the snapshot.         *)
SignalCancellation(ids) ==
  /\ broken' = broken \cup {p \in Process : /\ p[1] \in ids
                                            /\ p[2] \in processes[p[1]]
                                            /\ os[p[1]][p[2]] = "running"}
  /\ graces' = graces \cup {ids}

-----------------------------------------------------------------------------
(* Launching: run_foreground_spec, run_captured_external, begin_pipeline   *)
(* and the stage loop of pipeline_exec::run_impl.                          *)

Create(id, s) ==
  /\ Unlocked
  /\ id = next_id
  /\ ~Constructing
  /\ s.kind = "background" => ShellIdle
  /\ next_id' = next_id + 1
  /\ spec' = [spec EXCEPT ![id] = s]
  /\ state' = [state EXCEPT ![id] = "Created"]
  /\ owner' = [owner EXCEPT ![id] = "runner"]
  /\ pc' = [pc EXCEPT ![id] = "created"]
  /\ UNCHANGED <<timeout_triggered, processes, exited, job, history,
                 children, verdict, current, signalling, lock, os>>

StartExternal(id) ==
  /\ Unlocked
  /\ pc[id] = "created"
  /\ ~Pipeline(id)
  /\ state' = [state EXCEPT ![id] = "Starting"]
  /\ pc' = [pc EXCEPT ![id] = "starting"]
  /\ UNCHANGED <<next_id, spec, timeout_triggered, processes, exited, job,
                 history, owner, children, verdict, current, signalling,
                 lock, os>>

(* begin_pipeline passes through Starting to Running in one critical       *)
(* section, before any stage exists.                                       *)
BeginPipeline(id) ==
  /\ Unlocked
  /\ pc[id] = "created"
  /\ Pipeline(id)
  /\ state' = [state EXCEPT ![id] = "Running"]
  /\ pc' = [pc EXCEPT ![id] = "building"]
  /\ UNCHANGED <<next_id, spec, timeout_triggered, processes, exited, job,
                 history, owner, children, verdict, current, signalling,
                 lock, os>>

SpawnFails(id) ==
  /\ Unlocked
  /\ pc[id] = "starting"
  /\ Retire(id, "Failed", {})
  /\ Release(id)
  /\ pc' = [pc EXCEPT ![id] = "done"]
  /\ UNCHANGED <<next_id, spec, current, signalling, lock, os>>

Spawn(id, k) ==
  /\ pc[id] \in {"starting", "building"}
  /\ k <= spec[id].stages
  /\ os[id][k] = "unborn"
  /\ \A j \in 1..(k - 1) : os[id][j] # "unborn"
  /\ os' = [os EXCEPT ![id][k] = "running"]
  /\ children' = [children EXCEPT ![id] = @ \cup {k}]
  /\ pc' = [pc EXCEPT ![id] = "spawned"]
  /\ UNCHANGED <<registry, owner, verdict, current, signalling, lock>>

(* try_assign_job_object succeeds: the Job Object exists from the first    *)
(* assignment on.                                                          *)
AssignJob(id, k) ==
  /\ Unlocked
  /\ pc[id] = "spawned"
  /\ k \in children[id] \ processes[id]
  /\ job' = [job EXCEPT ![id] = @ \cup {k}]
  /\ pc' = [pc EXCEPT ![id] = "assigned"]
  /\ UNCHANGED <<next_id, spec, state, timeout_triggered, processes, exited,
                 history, owner, children, verdict, current, signalling,
                 lock, os>>

(* Creating, configuring or assigning the Job Object fails and nothing     *)
(* requires it (or the caller ignores the error): the launch goes on.      *)
AssignJobIgnored(id) ==
  /\ Unlocked
  /\ pc[id] = "spawned"
  /\ ~Required(id)
  /\ pc' = [pc EXCEPT ![id] = "assigned"]
  /\ UNCHANGED <<registry, owner, children, verdict, current, signalling,
                 lock, os>>

(* The failure is a launch failure for an execution with policies: the     *)
(* root process is killed and reaped, and the execution fails.             *)
AssignJobFails(id) ==
  /\ Unlocked
  /\ pc[id] = "spawned"
  /\ Required(id)
  /\ os' = [os EXCEPT ![id] = [k \in Stage |->
                IF k \in children[id] /\ @[k] = "running" THEN "bad" ELSE @[k]]]
  /\ Retire(id, "Failed", {})
  /\ Release(id)
  /\ pc' = [pc EXCEPT ![id] = "done"]
  /\ UNCHANGED <<next_id, spec, current, signalling, lock>>

(* The PID is recorded and the execution becomes Running in one critical   *)
(* section; arm_timeout then starts the deadline watcher.                  *)
RunExternal(id) ==
  /\ Unlocked
  /\ pc[id] = "assigned"
  /\ ~Pipeline(id)
  /\ processes' = [processes EXCEPT ![id] = children[id]]
  /\ state' = [state EXCEPT ![id] = "Running"]
  /\ timers' = IF spec[id].timeout THEN timers \cup {id} ELSE timers
  /\ pc' = [pc EXCEPT ![id] = "waiting"]
  /\ UNCHANGED <<next_id, spec, timeout_triggered, exited, job, history,
                 owner, children, verdict, current, graces, broken,
                 lock, os>>

RegisterStage(id) ==
  /\ Unlocked
  /\ pc[id] = "assigned"
  /\ Pipeline(id)
  /\ processes' = [processes EXCEPT ![id] = children[id]]
  /\ pc' = [pc EXCEPT ![id] = "building"]
  /\ UNCHANGED <<next_id, spec, state, timeout_triggered, exited, job,
                 history, owner, children, verdict, current, signalling,
                 lock, os>>

SetupFailsUnfinished(id) ==
  /\ Unlocked
  /\ pc[id] = "building"
  /\ Release(id)
  /\ pc' = [pc EXCEPT ![id] = "done"]
  /\ UNCHANGED <<registry, current, signalling, lock, os>>

(* fail_pipeline_execution on an early exit of the stage loop (a bad       *)
(* redirection, a failed spawn, a typed value that cannot cross): the      *)
(* handles of the stages already running are dropped, not waited for.      *)
SetupFails(id) ==
  /\ Unlocked
  /\ pc[id] = "building"
  /\ FinishAfterWait(id, "Failed", exited[id])
  /\ Release(id)
  /\ pc' = [pc EXCEPT ![id] = "done"]
  /\ UNCHANGED <<next_id, spec, current, signalling, lock, os>>

AllSpawned(id) == \A k \in 1..spec[id].stages : os[id][k] # "unborn"

RegisterBackgroundChildren(id) ==
  /\ Unlocked
  /\ pc[id] = "building"
  /\ AllSpawned(id)
  /\ spec[id].kind = "background"
  /\ owner' = [owner EXCEPT ![id] = "manager"]
  /\ pc' = [pc EXCEPT ![id] = "done"]
  /\ UNCHANGED <<registry, children, verdict, current, signalling, lock, os>>

(* wait_foreground_pipeline starts on the handles of all stages.           *)
WaitForegroundPipeline(id) ==
  /\ pc[id] = "building"
  /\ AllSpawned(id)
  /\ spec[id].kind = "pipeline"
  /\ pc' = [pc EXCEPT ![id] = "waiting"]
  /\ UNCHANGED <<registry, owner, children, verdict, current, signalling,
                 lock, os>>

(* child.wait() returns for the next child in order and its exit code is   *)
(* recorded.  In a pipeline the last result decides.                       *)
RunnerReap(id) ==
  /\ Unlocked
  /\ pc[id] = "waiting"
  /\ \E k \in Stage :
       /\ NextChild(id, k)
       /\ Exited(id, k)
       /\ children' = [children EXCEPT ![id] = @ \ {k}]
       /\ exited' = [exited EXCEPT ![id] = @ \cup {k}]
       /\ verdict' = [verdict EXCEPT ![id] =
                        IF os[id][k] = "ok" THEN "success" ELSE "failure"]
  /\ UNCHANGED <<next_id, spec, state, timeout_triggered, processes, job,
                 history, owner, pc, current, signalling, lock, os>>

RunnerReapErrorIgnored(id) ==
  /\ pc[id] = "waiting"
  /\ \E k \in Stage :
       /\ NextChild(id, k)
       /\ children' = [children EXCEPT ![id] = @ \ {k}]
  /\ UNCHANGED <<registry, owner, verdict, pc, current, signalling, lock, os>>

(* child.wait() itself fails: no exit code, and a failure unless a later   *)
(* stage of the pipeline is waited for successfully.                       *)
RunnerReapError(id) ==
  /\ pc[id] = "waiting"
  /\ \E k \in Stage :
       /\ NextChild(id, k)
       /\ children' = [children EXCEPT ![id] = @ \ {k}]
  /\ verdict' = [verdict EXCEPT ![id] = "failure"]
  /\ UNCHANGED <<registry, owner, pc, current, signalling, lock, os>>

RunnerFinish(id) ==
  /\ Unlocked
  /\ pc[id] = "waiting"
  /\ children[id] = {}
  /\ FinishAfterWait(id, NaturalState(verdict[id]), exited[id])
  /\ Release(id)
  /\ pc' = [pc EXCEPT ![id] = "done"]
  /\ UNCHANGED <<next_id, spec, current, signalling, lock, os>>

-----------------------------------------------------------------------------
(* Operations that refresh first: jobs and exec list/show (observe),       *)
(* exec wait, exec cancel.  The mutex is held from Begin to the end.       *)

BeginRefresh(op, id, w) ==
  /\ Unlocked
  /\ ~Constructing
  /\ op = "wait" => Held(w) = {}
  /\ lock' = [op |-> op, id |-> id, waiter |-> w,
              todo |-> {i \in ExecutionId : Managed(i)}]
  /\ UNCHANGED <<registry, handles, signalling, os>>

BeginObserve == BeginRefresh("observe", NoId, "none")
BeginWait(id, w) == id < next_id /\ BeginRefresh("wait", id, w)
BeginCancel(id) == id < next_id /\ BeginRefresh("cancel", id, "none")

(* refresh_background_jobs for one execution: every finished child is      *)
(* dropped; the status that counts is that of the last child, in stage     *)
(* order, which this refresh found finished.  failed: children whose       *)
(* try_wait returned an error.                                             *)
Reaped(id, failed) == {k \in children[id] \ failed : Exited(id, k)}
RefreshVerdict(id, failed) ==
  LET reaped == Reaped(id, failed) IN
  IF failed # {} THEN "broken"
  ELSE IF \A k \in reaped : os[id][k] = "ok" \/ \E j \in reaped : j > k
       THEN "success" ELSE "failure"

RefreshJob(id, failed) ==
  /\ id \in lock.todo
  /\ failed \subseteq children[id]
  /\ LET left == children[id] \ (Reaped(id, failed) \cup failed)
         recorded == exited[id] \cup Reaped(id, failed)
     IN IF left = {}
        THEN /\ FinishAfterWait(id, NaturalState(RefreshVerdict(id, failed)), recorded)
             /\ Release(id)
        ELSE /\ children' = [children EXCEPT ![id] = left]
             /\ exited' = [exited EXCEPT ![id] = recorded]
             /\ UNCHANGED <<state, timeout_triggered, processes, job, history,
                            owner, verdict>>
  /\ lock' = [lock EXCEPT !.todo = @ \ {id}]
  /\ UNCHANGED <<next_id, spec, pc, current, signalling, os>>

Observe ==
  /\ lock.op = "observe" /\ lock.todo = {}
  /\ lock' = Free
  /\ UNCHANGED <<registry, handles, signalling, os>>

(* wait_execution after its refresh: take the children out of the manager. *)
TakeChildren ==
  /\ lock.op = "wait" /\ lock.todo = {}
  /\ Managed(lock.id)
  /\ owner' = [owner EXCEPT ![lock.id] = lock.waiter]
  /\ lock' = Free
  /\ UNCHANGED <<registry, children, verdict, pc, current, signalling, os>>

(* It is terminal history, unknown, or not a waitable background           *)
(* execution: the call returns at once.                                    *)
NothingToTake ==
  /\ lock.op = "wait" /\ lock.todo = {}
  /\ ~Managed(lock.id)
  /\ lock' = Free
  /\ UNCHANGED <<registry, handles, signalling, os>>

(* request_cancellation: Running becomes Cancelling, Cancelling is         *)
(* signalled again, anything else is refused.                              *)
RequestCancellation ==
  /\ lock.op = "cancel" /\ lock.todo = {}
  /\ LET id == lock.id IN
       /\ state[id] \in {"Running", "Cancelling"}
       /\ state' = [state EXCEPT ![id] = "Cancelling"]
       /\ SignalCancellation({id})
  /\ lock' = Free
  /\ UNCHANGED <<next_id, spec, timeout_triggered, processes, exited, job,
                 history, handles, timers, os>>

CancellationRefused ==
  /\ lock.op = "cancel" /\ lock.todo = {}
  /\ state[lock.id] \notin {"Running", "Cancelling"}
  /\ lock' = Free
  /\ UNCHANGED <<registry, handles, signalling, os>>

-----------------------------------------------------------------------------
(* wait and exec wait: blocking on the children taken from the manager.    *)

(* wait_background_jobs takes every tracked execution, without refreshing. *)
WaitBackgroundJobs(w) ==
  /\ Unlocked
  /\ ~Constructing
  /\ Held(w) = {}
  /\ \E id \in ExecutionId : Managed(id)
  /\ owner' = [id \in ExecutionId |-> IF Managed(id) THEN w ELSE owner[id]]
  /\ UNCHANGED <<registry, children, verdict, pc, current, signalling, lock, os>>

PickJob(w, id) ==
  /\ current[w] = NoId
  /\ owner[id] = w
  /\ current' = [current EXCEPT ![w] = id]
  /\ UNCHANGED <<registry, owner, children, verdict, pc, signalling, lock, os>>

WaiterReap(w) ==
  /\ current[w] # NoId
  /\ \E k \in Stage : LET id == current[w] IN
       /\ NextChild(id, k)
       /\ Exited(id, k)
       /\ children' = [children EXCEPT ![id] = @ \ {k}]
       /\ exited' = [exited EXCEPT ![id] = @ \cup {k}]
       /\ verdict' = [verdict EXCEPT ![id] =
                        IF @ = "broken" THEN "broken"
                        ELSE IF os[id][k] = "ok" THEN "success" ELSE "failure"]
  /\ UNCHANGED <<next_id, spec, state, timeout_triggered, processes, job,
                 history, owner, pc, current, signalling, lock, os>>

WaiterReapError(w) ==
  /\ current[w] # NoId
  /\ \E k \in Stage : LET id == current[w] IN
       /\ NextChild(id, k)
       /\ children' = [children EXCEPT ![id] = @ \ {k}]
       /\ verdict' = [verdict EXCEPT ![id] = "broken"]
  /\ UNCHANGED <<registry, owner, pc, current, signalling, lock, os>>

WaiterFinish(w) ==
  /\ Unlocked
  /\ current[w] # NoId
  /\ LET id == current[w] IN
       /\ children[id] = {}
       /\ FinishAfterWait(id, NaturalState(verdict[id]), exited[id])
       /\ Release(id)
  /\ current' = [current EXCEPT ![w] = NoId]
  /\ UNCHANGED <<next_id, spec, pc, signalling, lock, os>>

-----------------------------------------------------------------------------
(* disown, Ctrl+C, deadlines and escalation.                               *)

LosesJobWhenEmpty(removed, empty) == empty
LosesJob(removed, empty) == removed # {} \/ empty

(* disown_background_jobs: the handles and process records of the chosen   *)
(* processes go; an execution left without children goes without a record; *)
(* the Job Object of an execution that lost a process goes as a whole.     *)
ManagedProcesses == {p \in Process : Managed(p[1]) /\ p[2] \in children[p[1]]}
Disown(pids) ==
  /\ Unlocked
  /\ ~Constructing
  /\ LET removed(id) == IF Managed(id)
                        THEN {k \in children[id] : <<id, k>> \in pids} ELSE {}
         empty(id) == Managed(id) /\ children[id] \subseteq removed(id)
     IN /\ children' = [id \in ExecutionId |-> children[id] \ removed(id)]
        /\ processes' = [id \in ExecutionId |-> processes[id] \ removed(id)]
        /\ exited' = [id \in ExecutionId |-> exited[id] \ removed(id)]
        /\ job' = [id \in ExecutionId |->
                     IF LosesJob(removed(id), empty(id)) THEN {} ELSE job[id]]
        /\ owner' = [id \in ExecutionId |-> IF empty(id) THEN "none" ELSE owner[id]]
        /\ state' = [id \in ExecutionId |-> IF empty(id) THEN "absent" ELSE state[id]]
  /\ UNCHANGED <<next_id, spec, timeout_triggered, history, verdict, pc,
                 current, signalling, lock, os>>

InterruptibleWhenActive(id) == Foreground(id) /\ state[id] # "absent"

(* request_interrupt: Ctrl+C moves every running foreground execution to   *)
(* Cancelling and snapshots the PIDs to signal.                            *)
Interruptible(id) == Foreground(id) /\ state[id] \in {"Running", "Cancelling"}
RequestForegroundCancellation ==
  /\ Unlocked
  /\ LET ids == {id \in ExecutionId : Interruptible(id)} IN
       /\ ids # {}
       /\ state' = [id \in ExecutionId |->
                      IF id \in ids THEN "Cancelling" ELSE state[id]]
       /\ SignalCancellation(ids)
  /\ UNCHANGED <<next_id, spec, timeout_triggered, processes, exited, job,
                 history, handles, timers, lock, os>>

DeadlineAppliesAlways(id) == state[id] \in {"Running", "Cancelling"}
DeadlineApplies(id) == state[id] = "Running"

(* The deadline watcher wakes while the execution runs.                    *)
RequestTimeout(id) ==
  /\ Unlocked
  /\ id \in timers
  /\ DeadlineApplies(id)
  /\ timeout_triggered' = [timeout_triggered EXCEPT ![id] = TRUE]
  /\ state' = [state EXCEPT ![id] = "Cancelling"]
  /\ SignalCancellation({id})
  /\ timers' = timers \ {id}
  /\ UNCHANGED <<next_id, spec, processes, exited, job, history, handles,
                 lock, os>>

(* It wakes after the execution has finished or began cancelling.          *)
TimeoutTooLate(id) ==
  /\ Unlocked
  /\ id \in timers
  /\ ~DeadlineApplies(id)
  /\ timers' = timers \ {id}
  /\ UNCHANGED <<registry, handles, graces, broken, lock, os>>

(* escalate_cancellation: executions of the snapshot still cancelling have *)
(* their Job Object terminated.                                            *)
EscalateCancellation(ids) ==
  /\ Unlocked
  /\ ids \in graces
  /\ graces' = graces \ {ids}
  /\ os' = [id \in ExecutionId |-> [k \in Stage |->
              IF /\ id \in ids /\ state[id] = "Cancelling"
                 /\ k \in job[id] /\ os[id][k] = "running"
              THEN "terminated" ELSE os[id][k]]]
  /\ broken' = {p \in broken : os'[p[1]][p[2]] = "running"}
  /\ UNCHANGED <<registry, handles, timers, lock>>

(* A child process ends, by itself or on Ctrl+Break.                       *)
ProcessExits(id, k) ==
  /\ os[id][k] = "running"
  /\ \E code \in {"ok", "bad"} : os' = [os EXCEPT ![id][k] = code]
  /\ broken' = broken \ {<<id, k>>}
  /\ UNCHANGED <<registry, handles, timers, graces, lock>>

-----------------------------------------------------------------------------

RunnerStep(id) ==
  \/ StartExternal(id) \/ BeginPipeline(id) \/ SpawnFails(id)
  \/ \E k \in Stage : Spawn(id, k)
  \/ \E k \in Stage : AssignJob(id, k)
  \/ AssignJobIgnored(id) \/ AssignJobFails(id)
  \/ RunExternal(id) \/ RegisterStage(id) \/ SetupFails(id)
  \/ RegisterBackgroundChildren(id) \/ WaitForegroundPipeline(id)
  \/ RunnerReap(id) \/ RunnerReapError(id) \/ RunnerFinish(id)

LockedStep ==
  \/ \E id \in lock.todo : \E failed \in SUBSET Stage : RefreshJob(id, failed)
  \/ Observe \/ TakeChildren \/ NothingToTake
  \/ RequestCancellation \/ CancellationRefused

WaiterStep(w) ==
  \/ \E id \in ExecutionId : PickJob(w, id)
  \/ WaiterReap(w) \/ WaiterReapError(w) \/ WaiterFinish(w)

SignalStep ==
  \/ \E id \in timers : RequestTimeout(id) \/ TimeoutTooLate(id)
  \/ \E ids \in graces : EscalateCancellation(ids)

Next ==
  \/ \E id \in ExecutionId : \E s \in Launches[id] : Create(id, s)
  \/ \E id \in ExecutionId : RunnerStep(id)
  \/ BeginObserve
  \/ \E id \in ExecutionId, w \in Waiters : BeginWait(id, w)
  \/ \E id \in ExecutionId : BeginCancel(id)
  \/ LockedStep
  \/ \E w \in Waiters : WaitBackgroundJobs(w) \/ WaiterStep(w)
  \/ \E pids \in SUBSET ManagedProcesses : Disown(pids)
  \/ RequestForegroundCancellation
  \/ SignalStep
  \/ \E id \in ExecutionId, k \in Stage : ProcessExits(id, k)

Spec == Init /\ [][Next]_vars

-----------------------------------------------------------------------------
(* Safety.                                                                 *)

(* Exactly one party can still finish an active execution: the call that   *)
(* launched it, the manager, or one waiter.  No interleaving of launch     *)
(* failures, refreshes, waits, disowns and cancellations leaves an active  *)
(* entry that nobody will ever retire (exec list would show it for good),  *)
(* or a handle holder whose execution the registry no longer knows, for    *)
(* which every later get_mut fails with NotFound.                          *)
OwnedIffActive ==
  \A id \in ExecutionId : state[id] = "absent" <=> owner[id] = "none"

(* The lifecycle state is the one the holder's next call expects, whatever *)
(* cancellations slipped in between its critical sections: transition()    *)
(* never refuses a launch or a finish with InvalidTransition.              *)
LaunchStateAgrees ==
  \A id \in ExecutionId :
    /\ pc[id] = "created" => state[id] = "Created"
    /\ pc[id] \in {"starting", "spawned", "assigned"} /\ ~Pipeline(id)
         => state[id] = "Starting"
    /\ pc[id] \in {"building", "spawned", "assigned", "waiting"} /\ Pipeline(id)
         => state[id] \in {"Running", "Cancelling"}
    /\ pc[id] = "waiting" => state[id] \in {"Running", "Cancelling"}
    /\ owner[id] \in {"manager"} \cup Waiters
         => state[id] \in {"Running", "Cancelling"} /\ ~Foreground(id)

(* The registry and the history tell one story: an execution is active or  *)
(* in history, never both and never twice, only allocated ids appear, and  *)
(* no Job Object outlives its execution.                                   *)
RegistryConsistent ==
  /\ \A i \in 1..Len(history) :
       history[i].id < next_id /\ state[history[i].id] = "absent"
  /\ \A i, j \in 1..Len(history) : history[i].id = history[j].id => i = j
  /\ \A id \in ExecutionId : id >= next_id => state[id] = "absent"
  /\ \A id \in ExecutionId : state[id] = "absent" => job[id] = {}
  /\ Len(history) <= HistoryLimit

FinalStage(id) == spec[id].stages
FullLength(r) == r.processes = 1..spec[r.id].stages
CompletedByFinalStage(r) ==
  r.state = "Completed" /\ FullLength(r) /\ r.processes # {}
    => FinalStage(r.id) \in r.exited /\ os[r.id][FinalStage(r.id)] = "ok"

(* A foreground execution, or a background one of a single process, is     *)
(* recorded Completed only if its final process exited successfully and    *)
(* its exit is in the record (wait_foreground_pipeline: "The pipeline      *)
(* result remains the final stage's status").                              *)
CompletedMeansFinalStageSucceeded ==
  \A i \in 1..Len(history) :
    LET r == history[i] IN
      Foreground(r.id) \/ spec[r.id].stages <= 1 => CompletedByFinalStage(r)

(* The same for every background pipeline, as HANDOVER.md says of managed  *)
(* foreground and background pipelines: "the final stage still determines  *)
(* pipeline success", every exit having been observed.  A refresh between  *)
(* two exits loses the status of the final stage, so this does not hold.   *)
BackgroundResultIsFinalStage ==
  \A i \in 1..Len(history) :
    LET r == history[i] IN
      ~Foreground(r.id) /\ r.exited = r.processes => CompletedByFinalStage(r)

(* Escalation is precise: the Job Object is terminated only for an         *)
(* execution that is cancelling at that moment, and reaches only processes *)
(* that still count as its own, so never a disowned stage, one of a        *)
(* pipeline that was given up, or one of a later execution.                *)
OnlyCancellingAreTerminated ==
  [][\A id \in ExecutionId, k \in Stage :
       os[id][k] # "terminated" /\ os'[id][k] = "terminated"
         => state[id] = "Cancelling" /\ k \in children[id] \cup processes[id]]_vars

(* The first cause wins: once cancellation has begun, a deadline that      *)
(* expires or a Ctrl+C that arrives during the grace period cannot turn    *)
(* Cancelled into TimedOut or back.                                        *)
FirstCauseWins ==
  [][\A id \in ExecutionId : state[id] = "Cancelling" =>
       /\ state'[id] = "Cancelling"
            => timeout_triggered'[id] = timeout_triggered[id]
       /\ history' # history /\ history'[Len(history')].id = id
            => history'[Len(history')].state =
                 IF timeout_triggered[id] THEN "TimedOut" ELSE "Cancelled"]_vars

(* What exec list and exec show report of one execution over time.         *)
Recorded(id) == {i \in 1..Len(history) : history[i].id = id}
PhaseOf(id) ==
  IF state[id] # "absent" THEN state[id]
  ELSE IF id >= next_id THEN "unborn"
  ELSE IF Recorded(id) # {} THEN history[CHOOSE i \in Recorded(id) : TRUE].state
  ELSE "forgotten"

Lifecycle == INSTANCE ExecutionLifecycle
               WITH phase <- [id \in ExecutionId |-> PhaseOf(id)]

(* Every execution a user watches goes through the documented lifecycle    *)
(* and nothing else: cancelled ones end cancelled, terminal records never  *)
(* change, ids are never reused, and only disowned or evicted executions   *)
(* disappear.                                                              *)
ImplementsLifecycle == Lifecycle!Spec

-----------------------------------------------------------------------------
(* Liveness.                                                               *)

(* Threads that have called into the manager get the mutex eventually and  *)
(* keep running; sleeping watchers wake up.  Nothing makes a program exit  *)
(* by itself; one that does not ignore Ctrl+Break exits once it got it.    *)
(* Launches, exits and deadlines are finite in number, so one condition    *)
(* for all of them is as strong as one for each; escalators are not.       *)
Fairness ==
  /\ WF_vars(LockedStep)
  /\ WF_vars(\E p \in broken : ~spec[p[1]].stubborn /\ ProcessExits(p[1], p[2]))
  /\ SF_vars(\E id \in ExecutionId : RunnerReap(id) \/ RunnerFinish(id))
  /\ SF_vars(\E w \in Waiters : WaiterReap(w) \/ WaiterFinish(w))
  /\ SF_vars(\E id \in timers : RequestTimeout(id) \/ TimeoutTooLate(id))
  /\ \A id \in ExecutionId :
       SF_vars(\E ids \in graces : id \in ids /\ EscalateCancellation(ids))

FairSpec == Spec /\ Fairness

(* An execution with a deadline ends even if its program ignores every     *)
(* Ctrl+Break: the mandatory Job Object is terminated after the grace      *)
(* period, whichever of deadline and user cancellation comes first.        *)
TimeoutEndsExecution ==
  \A id \in ExecutionId :
    (state[id] = "Running" /\ spec[id].timeout) ~> (state[id] = "absent")

(* Cancelling a well-behaved program is enough: a foreground command, or a *)
(* background execution somebody blocks on in wait, ends after Ctrl+Break  *)
(* even where the host rejects Job Objects.                                *)
CancellationTakesEffect ==
  \A id \in ExecutionId :
    (/\ state[id] = "Cancelling"
     /\ ~spec[id].stubborn
     /\ ~Pipeline(id) \/ \E w \in Waiters : current[w] = id)
      ~> (state[id] = "absent")
=============================================================================

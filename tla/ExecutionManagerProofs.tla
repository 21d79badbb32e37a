----------------------- MODULE ExecutionManagerProofs -----------------------
(***************************************************************************)
(* Machine-checked, for every number of executions, stages and waiters,    *)
(* every history limit and every choice of launches: the execution         *)
(* registry is safe, what executions report, and what becomes of their     *)
(* child processes.                                                        *)
(*                                                                         *)
(* ExecutionManager implements ExecutionLifecycle, and the first cause of  *)
(* an end wins.  Both follow from RegistryStep, which says all that a step *)
(* may do to the states, the history and the causes of the executions.     *)
(*                                                                         *)
(* Escalation terminates only processes that are still the execution's     *)
(* own, and a single process or foreground pipeline is recorded Completed  *)
(* only if its final stage succeeded.                                      *)
(***************************************************************************)
EXTENDS ExecutionManager, TLAPS

(* t is what a queue h becomes when r is appended and the d oldest go.     *)
Shifted(t, h, r, d) ==
  /\ Len(t) = Len(h) + 1 - d
  /\ \A i \in 1..Len(t) : t[i] = IF i + d <= Len(h) THEN h[i + d] ELSE r

(* One more record in a bounded queue evicts at most the oldest, and the   *)
(* others keep their order.                                                *)
LEMMA TrimKeepsOrder ==
  ASSUME NEW R, NEW h \in Seq(R), NEW r \in R, Len(h) <= HistoryLimit,
         NEW t, t = Trim(Append(h, r))
  PROVE  /\ t \in Seq(R)
         /\ Len(t) <= HistoryLimit
         /\ \E d \in {0, 1} : Shifted(t, h, r, d)
<1> DEFINE a == Append(h, r)
<1>1. a \in Seq(R) /\ Len(a) = Len(h) + 1 /\ a # << >>
  OBVIOUS
<1>2. \A i \in 1..Len(a) : a[i] = IF i <= Len(h) THEN h[i] ELSE r
  OBVIOUS
<1>3. Len(h) \in Nat /\ HistoryLimit \in Nat
  BY BoundsAssumption
<1>4. CASE Len(a) > HistoryLimit
  <2>1. t = Tail(a)
    BY <1>4 DEF Trim
  <2>2. t \in Seq(R) /\ Len(t) = Len(h) + 1 - 1
    BY <1>1, <1>3, <2>1
  <2>3. \A i \in 1..Len(t) : t[i] = a[i + 1]
    BY <1>1, <2>1
  <2>4. \A i \in 1..Len(t) :
          t[i] = IF i + 1 <= Len(h) THEN h[i + 1] ELSE r
    BY <1>1, <1>2, <1>3, <2>2, <2>3
  <2>5. Shifted(t, h, r, 1)
    BY <2>2, <2>4 DEF Shifted
  <2>6. Len(t) <= HistoryLimit
    BY <1>3, <2>2
  <2> QED
    BY <2>2, <2>5, <2>6
<1>5. CASE ~(Len(a) > HistoryLimit)
  <2>1. t = a
    BY <1>5 DEF Trim
  <2>2. Len(t) = Len(h) + 1 - 0 /\ t \in Seq(R) /\ Len(t) <= HistoryLimit
    BY <1>1, <1>3, <1>5, <2>1
  <2>3. \A i \in 1..Len(t) :
          t[i] = IF i + 0 <= Len(h) THEN h[i + 0] ELSE r
    BY <1>2, <1>3, <2>1, <2>2
  <2>4. Shifted(t, h, r, 0)
    BY <2>2, <2>3 DEF Shifted
  <2> QED
    BY <2>2, <2>4
<1> QED
  BY <1>4, <1>5

(* Retiring an execution keeps the registry variables in their types.      *)
LEMMA RetireType ==
  ASSUME TypeOK, Len(history) <= HistoryLimit,
         NEW id \in ExecutionId, NEW final \in Terminal,
         NEW recorded \in SUBSET Stage, Retire(id, final, recorded)
  PROVE  /\ state' \in [ExecutionId -> NonTerminal \cup {"absent"}]
         /\ timeout_triggered' \in [ExecutionId -> BOOLEAN]
         /\ processes' \in [ExecutionId -> SUBSET Stage]
         /\ exited' \in [ExecutionId -> SUBSET Stage]
         /\ job' \in [ExecutionId -> SUBSET Stage]
         /\ history' \in Seq(ExecutionRecord)
         /\ Len(history') <= HistoryLimit
<1> DEFINE r == [id |-> id, state |-> final,
                 processes |-> processes[id], exited |-> recorded]
<1>1. r \in ExecutionRecord
  BY DEF TypeOK, ExecutionRecord
<1>2. history' = Trim(Append(history, r))
  BY DEF Retire
<1>3. history' \in Seq(ExecutionRecord) /\ Len(history') <= HistoryLimit
  <2> HIDE DEF r
  <2> QED
    BY <1>1, <1>2, TrimKeepsOrder DEF TypeOK
<1> QED
  BY <1>3 DEF TypeOK, Retire

LEMMA FinalStateType ==
  ASSUME NEW id \in ExecutionId, NEW natural \in Terminal
  PROVE  FinalState(id, natural) \in Terminal
BY DEF FinalState, Terminal

LEMMA NaturalStateType ==
  ASSUME NEW v
  PROVE  NaturalState(v) \in Terminal
BY DEF NaturalState, Terminal

(* The type invariant, with what makes it inductive: the history bound, and*)
(* the mutex holder naming the execution and the waiter it acts for.       *)
Typed == /\ TypeOK
         /\ Len(history) <= HistoryLimit
         /\ lock.op \in {"wait", "cancel"} => lock.id \in ExecutionId
         /\ lock.op = "wait" => lock.waiter \in Waiters

LEMMA InitTyped == Init => Typed
<1> SUFFICES ASSUME Init PROVE Typed
  OBVIOUS
<1>1. NoSpec \in ExecutionSpec
  BY BoundsAssumption DEF NoSpec, ExecutionSpec, Kind
<1>2. history \in Seq(ExecutionRecord) /\ Len(history) = 0
  BY DEF Init
<1>3. /\ lock \in [op : {"free", "observe", "wait", "cancel"},
                   id : ExecutionId \cup {NoId},
                   waiter : Waiters \cup {"none"},
                   todo : SUBSET ExecutionId]
      /\ lock.op = "free"
  BY DEF Init, Free
<1> QED
  BY <1>1, <1>2, <1>3, BoundsAssumption
  DEF Init, Typed, TypeOK, OsState, Process

LEMMA StepTyped == Typed /\ [Next]_vars => Typed'
<1> SUFFICES ASSUME Typed, [Next]_vars PROVE Typed'
  OBVIOUS
<1> USE DEF Typed
<1>1. ASSUME NEW id \in ExecutionId, NEW s \in Launches[id], Create(id, s)
      PROVE  Typed'
  BY <1>1, LaunchesAssumption, BoundsAssumption DEF Typed, TypeOK, registry, handles, signalling, Create, ExecutionId, NonTerminal
<1>2. ASSUME NEW id \in ExecutionId, StartExternal(id)
      PROVE  Typed'
  BY <1>2 DEF Typed, TypeOK, registry, handles, signalling, StartExternal, NonTerminal
<1>3. ASSUME NEW id \in ExecutionId, BeginPipeline(id)
      PROVE  Typed'
  BY <1>3 DEF Typed, TypeOK, registry, handles, signalling, BeginPipeline, NonTerminal
<1>4. ASSUME NEW id \in ExecutionId, SpawnFails(id)
      PROVE  Typed'
  <2>1. Retire(id, "Failed", {}) /\ "Failed" \in Terminal
    BY <1>4 DEF SpawnFails, Terminal
  <2>2. {} \in SUBSET Stage
    BY DEF TypeOK
  <2> QED
    BY <1>4, <2>1, <2>2, RetireType DEF TypeOK, signalling, SpawnFails, Release
<1>5. ASSUME NEW id \in ExecutionId, NEW k \in Stage, Spawn(id, k)
      PROVE  Typed'
  BY <1>5 DEF Typed, TypeOK, registry, handles, signalling, Spawn, OsState
<1>6. ASSUME NEW id \in ExecutionId, NEW k \in Stage, AssignJob(id, k)
      PROVE  Typed'
  BY <1>6 DEF Typed, TypeOK, registry, handles, signalling, AssignJob
<1>7. ASSUME NEW id \in ExecutionId, AssignJobIgnored(id)
      PROVE  Typed'
  BY <1>7 DEF Typed, TypeOK, registry, handles, signalling, AssignJobIgnored
<1>8. ASSUME NEW id \in ExecutionId, AssignJobFails(id)
      PROVE  Typed'
  <2>1. Retire(id, "Failed", {}) /\ "Failed" \in Terminal
    BY <1>8 DEF AssignJobFails, Terminal
  <2>2. {} \in SUBSET Stage
    BY DEF TypeOK
  <2> QED
    BY <1>8, <2>1, <2>2, RetireType DEF TypeOK, signalling, AssignJobFails, Release, OsState
<1>9. ASSUME NEW id \in ExecutionId, RunExternal(id)
      PROVE  Typed'
  BY <1>9 DEF Typed, TypeOK, registry, handles, signalling, RunExternal, NonTerminal
<1>10. ASSUME NEW id \in ExecutionId, RegisterStage(id)
      PROVE  Typed'
  BY <1>10 DEF Typed, TypeOK, registry, handles, signalling, RegisterStage
<1>11. ASSUME NEW id \in ExecutionId, SetupFails(id)
      PROVE  Typed'
  <2>1. Retire(id, FinalState(id, "Failed" ), exited[id]) /\ FinalState(id, "Failed" ) \in Terminal
    BY <1>11, FinalStateType, NaturalStateType DEF SetupFails, FinishAfterWait, Terminal
  <2>2. exited[id] \in SUBSET Stage
    BY DEF TypeOK
  <2> QED
    BY <1>11, <2>1, <2>2, RetireType DEF TypeOK, signalling, SetupFails, Release
<1>12. ASSUME NEW id \in ExecutionId, RegisterBackgroundChildren(id)
      PROVE  Typed'
  BY <1>12 DEF Typed, TypeOK, registry, handles, signalling, RegisterBackgroundChildren
<1>13. ASSUME NEW id \in ExecutionId, WaitForegroundPipeline(id)
      PROVE  Typed'
  BY <1>13 DEF Typed, TypeOK, registry, handles, signalling, WaitForegroundPipeline
<1>14. ASSUME NEW id \in ExecutionId, RunnerReap(id)
      PROVE  Typed'
  BY <1>14 DEF Typed, TypeOK, registry, handles, signalling, RunnerReap
<1>15. ASSUME NEW id \in ExecutionId, RunnerReapError(id)
      PROVE  Typed'
  BY <1>15 DEF Typed, TypeOK, registry, handles, signalling, RunnerReapError
<1>16. ASSUME NEW id \in ExecutionId, RunnerFinish(id)
      PROVE  Typed'
  <2>1. Retire(id, FinalState(id, NaturalState(verdict[id])), exited[id]) /\ FinalState(id, NaturalState(verdict[id])) \in Terminal
    BY <1>16, FinalStateType, NaturalStateType DEF RunnerFinish, FinishAfterWait, Terminal
  <2>2. exited[id] \in SUBSET Stage
    BY DEF TypeOK
  <2> QED
    BY <1>16, <2>1, <2>2, RetireType DEF TypeOK, signalling, RunnerFinish, Release
<1>17. ASSUME BeginObserve
      PROVE  Typed'
  BY <1>17 DEF Typed, TypeOK, registry, handles, signalling, BeginObserve, BeginRefresh
<1>18. ASSUME NEW id \in ExecutionId, NEW w \in Waiters, BeginWait(id, w)
      PROVE  Typed'
  BY <1>18 DEF Typed, TypeOK, registry, handles, signalling, BeginWait, BeginRefresh
<1>19. ASSUME NEW id \in ExecutionId, BeginCancel(id)
      PROVE  Typed'
  BY <1>19 DEF Typed, TypeOK, registry, handles, signalling, BeginCancel, BeginRefresh
<1>20. ASSUME NEW id \in lock.todo, NEW failed \in SUBSET Stage, RefreshJob(id, failed)
      PROVE  Typed'
  <2> DEFINE left == children[id] \ (Reaped(id, failed) \cup failed)
             recorded == exited[id] \cup Reaped(id, failed)
             natural == NaturalState(RefreshVerdict(id, failed))
  <2>1. id \in ExecutionId
    BY DEF TypeOK
  <2>2. left \in SUBSET Stage /\ recorded \in SUBSET Stage
    BY <2>1 DEF TypeOK, Reaped
  <2>3. /\ lock' \in [op : {"free", "observe", "wait", "cancel"},
                      id : ExecutionId \cup {NoId},
                      waiter : Waiters \cup {"none"},
                      todo : SUBSET ExecutionId]
        /\ lock'.op \in {"wait", "cancel"} => lock'.id \in ExecutionId
        /\ lock'.op = "wait" => lock'.waiter \in Waiters
    BY <1>20 DEF RefreshJob, TypeOK
  <2>4. CASE left = {}
    <3>1. Retire(id, FinalState(id, natural), recorded) /\ Release(id)
      BY <1>20, <2>4 DEF RefreshJob, FinishAfterWait
    <3>2. FinalState(id, natural) \in Terminal
      BY <2>1, FinalStateType, NaturalStateType
    <3> QED
      BY <1>20, <2>1, <2>2, <2>3, <3>1, <3>2, RetireType
      DEF TypeOK, signalling, RefreshJob, Release
  <2>5. CASE left # {}
    <3>1. /\ children' = [children EXCEPT ![id] = left]
          /\ exited' = [exited EXCEPT ![id] = recorded]
          /\ UNCHANGED <<state, timeout_triggered, processes, job, history,
                         owner, verdict, next_id, spec, pc, current, signalling, os>>
      BY <1>20, <2>5 DEF RefreshJob
    <3> QED
      BY <2>1, <2>2, <2>3, <3>1 DEF TypeOK, signalling
  <2> QED
    BY <2>4, <2>5
<1>21. ASSUME Observe
      PROVE  Typed'
  BY <1>21 DEF Typed, TypeOK, registry, handles, signalling, Observe, Free
<1>22. ASSUME TakeChildren
      PROVE  Typed'
  BY <1>22 DEF Typed, TypeOK, registry, handles, signalling, TakeChildren, Free, Managed
<1>23. ASSUME NothingToTake
      PROVE  Typed'
  BY <1>23 DEF Typed, TypeOK, registry, handles, signalling, NothingToTake, Free
<1>24. ASSUME RequestCancellation
      PROVE  Typed'
  BY <1>24 DEF Typed, TypeOK, registry, handles, signalling, RequestCancellation, Free, NonTerminal, SignalCancellation, Process
<1>25. ASSUME CancellationRefused
      PROVE  Typed'
  BY <1>25 DEF Typed, TypeOK, registry, handles, signalling, CancellationRefused, Free
<1>26. ASSUME NEW w \in Waiters, WaitBackgroundJobs(w)
      PROVE  Typed'
  BY <1>26 DEF Typed, TypeOK, registry, handles, signalling, WaitBackgroundJobs
<1>27. ASSUME NEW w \in Waiters, NEW id \in ExecutionId, PickJob(w, id)
      PROVE  Typed'
  BY <1>27 DEF Typed, TypeOK, registry, handles, signalling, PickJob
<1>28. ASSUME NEW w \in Waiters, WaiterReap(w)
      PROVE  Typed'
  BY <1>28 DEF Typed, TypeOK, registry, handles, signalling, WaiterReap, NextChild, NoId
<1>29. ASSUME NEW w \in Waiters, WaiterReapError(w)
      PROVE  Typed'
  BY <1>29 DEF Typed, TypeOK, registry, handles, signalling, WaiterReapError, NextChild, NoId
<1>30. ASSUME NEW w \in Waiters, WaiterFinish(w)
      PROVE  Typed'
  <2> DEFINE id == current[w]
  <2>1. id \in ExecutionId
    BY <1>30 DEF WaiterFinish, TypeOK
  <2>2. /\ Retire(id, FinalState(id, NaturalState(verdict[id])), exited[id])
        /\ FinalState(id, NaturalState(verdict[id])) \in Terminal
    BY <1>30, <2>1, FinalStateType, NaturalStateType DEF WaiterFinish, FinishAfterWait
  <2>3. exited[id] \in SUBSET Stage
    BY <2>1 DEF TypeOK
  <2> QED
    BY <1>30, <2>1, <2>2, <2>3, RetireType DEF TypeOK, signalling, WaiterFinish, Release
<1>31. ASSUME NEW pids \in SUBSET ManagedProcesses, Disown(pids)
      PROVE  Typed'
  BY <1>31 DEF Typed, TypeOK, registry, handles, signalling, Disown
<1>32. ASSUME RequestForegroundCancellation
      PROVE  Typed'
  BY <1>32 DEF Typed, TypeOK, registry, handles, signalling, RequestForegroundCancellation, Interruptible, NonTerminal, SignalCancellation, Process
<1>33. ASSUME NEW id \in timers, RequestTimeout(id)
      PROVE  Typed'
  BY <1>33 DEF Typed, TypeOK, registry, handles, signalling, RequestTimeout, NonTerminal, SignalCancellation, Process
<1>34. ASSUME NEW id \in timers, TimeoutTooLate(id)
      PROVE  Typed'
  BY <1>34 DEF Typed, TypeOK, registry, handles, signalling, TimeoutTooLate
<1>35. ASSUME NEW ids \in graces, EscalateCancellation(ids)
      PROVE  Typed'
  BY <1>35 DEF Typed, TypeOK, registry, handles, signalling, EscalateCancellation, OsState
<1>36. ASSUME NEW id \in ExecutionId, NEW k \in Stage, ProcessExits(id, k)
      PROVE  Typed'
  BY <1>36 DEF Typed, TypeOK, registry, handles, signalling, ProcessExits, OsState
<1>37. CASE UNCHANGED vars
  BY <1>37 DEF TypeOK, vars, registry, handles, signalling
<1> QED
  BY <1>1, <1>2, <1>3, <1>4, <1>5, <1>6, <1>7, <1>8, <1>9, <1>10, <1>11, <1>12, <1>13, <1>14, <1>15, <1>16, <1>17, <1>18, <1>19, <1>20, <1>21, <1>22, <1>23, <1>24, <1>25, <1>26, <1>27, <1>28, <1>29, <1>30, <1>31, <1>32, <1>33, <1>34, <1>35, <1>36, <1>37
  DEF Next, RunnerStep, LockedStep, WaiterStep, SignalStep

(* Theorem: type correctness of the registry and of every thread's state.           *)
THEOREM TypeCorrect == Spec => []TypeOK
<1>1. Typed => TypeOK
  BY DEF Typed
<1> QED
  BY <1>1, InitTyped, StepTyped, PTL DEF Spec

-----------------------------------------------------------------------------
(* Ownership.  OwnedIffActive is not inductive alone: that a holder's      *)
(* execution is still active needs to know where its launch is, and that   *)
(* no refresh, wait loop or unallocated id can release somebody else's.    *)

Launching == {"created", "starting", "building", "spawned", "assigned",
              "waiting"}
HolderKnowsPlace ==
  \A id \in ExecutionId : owner[id] = "runner" <=> pc[id] \in Launching
OnlyBackgroundHandedOver ==
  \A id \in ExecutionId : owner[id] \in {"manager"} \cup Waiters
                           => spec[id].kind = "background"
LoopsHoldTheirJob ==
  \A w \in Waiters : current[w] # NoId => owner[current[w]] = w
RefreshesManaged ==
  /\ \A id \in lock.todo : owner[id] = "manager"
  /\ Unlocked => lock.todo = {}
UnallocatedIdle ==
  \A id \in ExecutionId : id >= next_id => owner[id] = "none"

Ownership == /\ OwnedIffActive
             /\ HolderKnowsPlace
             /\ OnlyBackgroundHandedOver
             /\ LoopsHoldTheirJob
             /\ RefreshesManaged
             /\ UnallocatedIdle

(* The launch call agrees with the lifecycle state.                        *)
LaunchPathByKind ==
  \A id \in ExecutionId :
    /\ pc[id] = "starting" => ~Pipeline(id)
    /\ pc[id] = "building" => Pipeline(id)
Agreement == LaunchStateAgrees /\ LaunchPathByKind

LEMMA InitOwnership == Init => Ownership
BY WaitersAssumption
DEF Init, Free, Unlocked, Launching, Ownership, OwnedIffActive,
       HolderKnowsPlace, OnlyBackgroundHandedOver, LoopsHoldTheirJob,
       RefreshesManaged, UnallocatedIdle

LEMMA StepOwnership == Typed /\ Ownership /\ [Next]_vars => Ownership'
<1> SUFFICES ASSUME Typed /\ Ownership, [Next]_vars
             PROVE  Ownership'
  OBVIOUS
<1> USE DEF Typed, TypeOK, Ownership, OwnedIffActive, HolderKnowsPlace,
           OnlyBackgroundHandedOver, LoopsHoldTheirJob, RefreshesManaged,
           UnallocatedIdle, Unlocked
<1>1. ASSUME NEW id \in ExecutionId, NEW s \in Launches[id],
             Create(id, s)
      PROVE  Ownership'
  BY <1>1, BoundsAssumption, LaunchesAssumption, WaitersAssumption DEF Create,
     Managed, Unlocked, Launching, Constructing, ExecutionId
<1>2. ASSUME NEW id \in ExecutionId, StartExternal(id)
      PROVE  Ownership'
  BY <1>2 DEF StartExternal, Launching
<1>3. ASSUME NEW id \in ExecutionId, BeginPipeline(id)
      PROVE  Ownership'
  BY <1>3 DEF BeginPipeline, Launching
<1>4. ASSUME NEW id \in ExecutionId, SpawnFails(id)
      PROVE  Ownership'
  BY <1>4, WaitersAssumption DEF SpawnFails, Retire, Release, Launching
<1>5. ASSUME NEW id \in ExecutionId, NEW k \in Stage,
             Spawn(id, k)
      PROVE  Ownership'
  BY <1>5 DEF Spawn, registry, Launching
<1>6. ASSUME NEW id \in ExecutionId, NEW k \in Stage,
             AssignJob(id, k)
      PROVE  Ownership'
  BY <1>6 DEF AssignJob, Launching
<1>7. ASSUME NEW id \in ExecutionId, AssignJobIgnored(id)
      PROVE  Ownership'
  BY <1>7 DEF AssignJobIgnored, registry, Launching
<1>8. ASSUME NEW id \in ExecutionId, AssignJobFails(id)
      PROVE  Ownership'
  BY <1>8, WaitersAssumption DEF AssignJobFails, Retire, Release, Launching
<1>9. ASSUME NEW id \in ExecutionId, RunExternal(id)
      PROVE  Ownership'
  BY <1>9 DEF RunExternal, Launching
<1>10. ASSUME NEW id \in ExecutionId, RegisterStage(id)
      PROVE  Ownership'
  BY <1>10 DEF RegisterStage, Launching
<1>11. ASSUME NEW id \in ExecutionId, SetupFails(id)
      PROVE  Ownership'
  BY <1>11, WaitersAssumption DEF SetupFails, FinishAfterWait, Retire,
     Release, Launching
<1>12. ASSUME NEW id \in ExecutionId, RegisterBackgroundChildren(id)
      PROVE  Ownership'
  BY <1>12, WaitersAssumption DEF RegisterBackgroundChildren, registry,
     Launching
<1>13. ASSUME NEW id \in ExecutionId, WaitForegroundPipeline(id)
      PROVE  Ownership'
  BY <1>13 DEF WaitForegroundPipeline, registry, Launching
<1>14. ASSUME NEW id \in ExecutionId, RunnerReap(id)
      PROVE  Ownership'
  BY <1>14 DEF RunnerReap
<1>15. ASSUME NEW id \in ExecutionId, RunnerReapError(id)
      PROVE  Ownership'
  BY <1>15 DEF RunnerReapError, registry
<1>16. ASSUME NEW id \in ExecutionId, RunnerFinish(id)
      PROVE  Ownership'
  BY <1>16, WaitersAssumption DEF RunnerFinish, FinishAfterWait, Retire,
     Release, Launching
<1>17. ASSUME BeginObserve
      PROVE  Ownership'
  BY <1>17 DEF BeginObserve, BeginRefresh, registry, handles, Managed
<1>18. ASSUME NEW id \in ExecutionId, NEW w \in Waiters,
             BeginWait(id, w)
      PROVE  Ownership'
  BY <1>18 DEF BeginWait, BeginRefresh, registry, handles, Managed
<1>19. ASSUME NEW id \in ExecutionId, BeginCancel(id)
      PROVE  Ownership'
  BY <1>19 DEF BeginCancel, BeginRefresh, registry, handles, Managed
<1>20. ASSUME NEW id \in lock.todo, NEW failed \in SUBSET Stage,
             RefreshJob(id, failed)
      PROVE  Ownership'
  <2>1. id \in ExecutionId /\ owner[id] = "manager"
    BY DEF Typed, TypeOK
  <2>2. lock' = [lock EXCEPT !.todo = @ \ {id}]
    BY <1>20 DEF RefreshJob
  <2>3. lock'.todo = lock.todo \ {id} /\ lock'.op = lock.op
    BY <2>2 DEF Typed, TypeOK
  <2>4. UNCHANGED <<next_id, spec, pc, current>>
    BY <1>20 DEF RefreshJob
  <2>5. \/ UNCHANGED <<state, owner>>
        \/ /\ state' = [state EXCEPT ![id] = "absent"]
           /\ owner' = [owner EXCEPT ![id] = "none"]
    BY <1>20 DEF RefreshJob, FinishAfterWait, Retire, Release
  <2> QED
    BY <2>1, <2>3, <2>4, <2>5, WaitersAssumption DEF Launching
<1>21. ASSUME Observe
      PROVE  Ownership'
  BY <1>21 DEF Observe, registry, handles, Free
<1>22. ASSUME TakeChildren
      PROVE  Ownership'
  BY <1>22, WaitersAssumption DEF TakeChildren, registry, Free, Managed,
     Launching
<1>23. ASSUME NothingToTake
      PROVE  Ownership'
  BY <1>23 DEF NothingToTake, registry, handles, Free
<1>24. ASSUME RequestCancellation
      PROVE  Ownership'
  BY <1>24 DEF RequestCancellation, handles, Free
<1>25. ASSUME CancellationRefused
      PROVE  Ownership'
  BY <1>25 DEF CancellationRefused, registry, handles, Free
<1>26. ASSUME NEW w \in Waiters, WaitBackgroundJobs(w)
      PROVE  Ownership'
  BY <1>26, WaitersAssumption DEF WaitBackgroundJobs, registry, Managed
<1>27. ASSUME NEW w \in Waiters, NEW id \in ExecutionId,
             PickJob(w, id)
      PROVE  Ownership'
  BY <1>27 DEF PickJob, registry
<1>28. ASSUME NEW w \in Waiters, WaiterReap(w)
      PROVE  Ownership'
  BY <1>28 DEF WaiterReap
<1>29. ASSUME NEW w \in Waiters, WaiterReapError(w)
      PROVE  Ownership'
  BY <1>29 DEF WaiterReapError, registry
<1>30. ASSUME NEW w \in Waiters, WaiterFinish(w)
      PROVE  Ownership'
  BY <1>30, WaitersAssumption DEF WaiterFinish, FinishAfterWait, Retire,
     Release, Launching
<1>31. ASSUME NEW pids \in SUBSET ManagedProcesses, Disown(pids)
      PROVE  Ownership'
  BY <1>31, WaitersAssumption DEF Disown, LosesJob, Managed, Launching
<1>32. ASSUME RequestForegroundCancellation
      PROVE  Ownership'
  BY <1>32 DEF RequestForegroundCancellation, handles, Interruptible
<1>33. ASSUME NEW id \in timers, RequestTimeout(id)
      PROVE  Ownership'
  BY <1>33 DEF RequestTimeout, handles, DeadlineApplies
<1>34. ASSUME NEW id \in timers, TimeoutTooLate(id)
      PROVE  Ownership'
  BY <1>34 DEF TimeoutTooLate, registry, handles
<1>35. ASSUME NEW ids \in graces,
             EscalateCancellation(ids)
      PROVE  Ownership'
  BY <1>35 DEF EscalateCancellation, registry, handles
<1>36. ASSUME NEW id \in ExecutionId, NEW k \in Stage,
             ProcessExits(id, k)
      PROVE  Ownership'
  BY <1>36 DEF ProcessExits, registry, handles
<1>37. CASE UNCHANGED vars
  BY <1>37 DEF vars, registry, handles
<1> QED
  BY <1>1, <1>2, <1>3, <1>4, <1>5, <1>6, <1>7, <1>8, <1>9, <1>10, <1>11,
     <1>12, <1>13, <1>14, <1>15, <1>16, <1>17, <1>18, <1>19, <1>20, <1>21,
     <1>22, <1>23, <1>24, <1>25, <1>26, <1>27, <1>28, <1>29, <1>30, <1>31,
     <1>32, <1>33, <1>34, <1>35, <1>36, <1>37
  DEF Next, RunnerStep, LockedStep, WaiterStep, SignalStep

(* Theorem: whatever launches, failures, refreshes, waits, disowns and     *)
(* cancellations interleave, an execution is in the active map exactly as  *)
(* long as one party still holds it and will finish it.                    *)
THEOREM OwnershipSafe == Spec => []OwnedIffActive
<1>1. Typed /\ Ownership => OwnedIffActive
  BY DEF Ownership
<1> QED
  BY <1>1, InitTyped, StepTyped, InitOwnership, StepOwnership, PTL DEF Spec

-----------------------------------------------------------------------------
(* The launch and finish calls never meet a state transition() refuses.    *)

LEMMA InitAgreement == Init => Agreement
BY WaitersAssumption
DEF Init, Agreement, LaunchStateAgrees, LaunchPathByKind

LEMMA StepAgreement == Typed /\ Ownership /\ Agreement /\ [Next]_vars => Agreement'
<1> SUFFICES ASSUME Typed /\ Ownership /\ Agreement, [Next]_vars
             PROVE  Agreement'
  OBVIOUS
<1> USE DEF Typed, TypeOK, Agreement, LaunchStateAgrees, LaunchPathByKind,
           Pipeline, Foreground
<1>1. ASSUME NEW id \in ExecutionId, NEW s \in Launches[id],
             Create(id, s)
      PROVE  Agreement'
  BY <1>1, LaunchesAssumption, BoundsAssumption, WaitersAssumption DEF Create,
     Launching, ExecutionId, Pipeline, Foreground, Ownership, UnallocatedIdle,
     HolderKnowsPlace
<1>2. ASSUME NEW id \in ExecutionId, StartExternal(id)
      PROVE  Agreement'
  BY <1>2 DEF StartExternal, Launching
<1>3. ASSUME NEW id \in ExecutionId, BeginPipeline(id)
      PROVE  Agreement'
  BY <1>3 DEF BeginPipeline, Launching
<1>4. ASSUME NEW id \in ExecutionId, SpawnFails(id)
      PROVE  Agreement'
  BY <1>4, WaitersAssumption DEF SpawnFails, Retire, Release, Launching
<1>5. ASSUME NEW id \in ExecutionId, NEW k \in Stage,
             Spawn(id, k)
      PROVE  Agreement'
  BY <1>5 DEF Spawn, registry, Launching
<1>6. ASSUME NEW id \in ExecutionId, NEW k \in Stage,
             AssignJob(id, k)
      PROVE  Agreement'
  BY <1>6 DEF AssignJob, Launching
<1>7. ASSUME NEW id \in ExecutionId, AssignJobIgnored(id)
      PROVE  Agreement'
  BY <1>7 DEF AssignJobIgnored, registry, Launching
<1>8. ASSUME NEW id \in ExecutionId, AssignJobFails(id)
      PROVE  Agreement'
  BY <1>8, WaitersAssumption DEF AssignJobFails, Retire, Release, Launching
<1>9. ASSUME NEW id \in ExecutionId, RunExternal(id)
      PROVE  Agreement'
  BY <1>9 DEF RunExternal, Launching
<1>10. ASSUME NEW id \in ExecutionId, RegisterStage(id)
      PROVE  Agreement'
  BY <1>10 DEF RegisterStage, Launching
<1>11. ASSUME NEW id \in ExecutionId, SetupFails(id)
      PROVE  Agreement'
  BY <1>11, WaitersAssumption DEF SetupFails, FinishAfterWait, Retire,
     Release, Launching
<1>12. ASSUME NEW id \in ExecutionId, RegisterBackgroundChildren(id)
      PROVE  Agreement'
  BY <1>12, WaitersAssumption DEF RegisterBackgroundChildren, registry,
     Launching, Pipeline, Foreground
<1>13. ASSUME NEW id \in ExecutionId, WaitForegroundPipeline(id)
      PROVE  Agreement'
  BY <1>13 DEF WaitForegroundPipeline, registry, Launching
<1>14. ASSUME NEW id \in ExecutionId, RunnerReap(id)
      PROVE  Agreement'
  BY <1>14 DEF RunnerReap
<1>15. ASSUME NEW id \in ExecutionId, RunnerReapError(id)
      PROVE  Agreement'
  BY <1>15 DEF RunnerReapError, registry
<1>16. ASSUME NEW id \in ExecutionId, RunnerFinish(id)
      PROVE  Agreement'
  BY <1>16, WaitersAssumption DEF RunnerFinish, FinishAfterWait, Retire,
     Release, Launching
<1>17. ASSUME BeginObserve
      PROVE  Agreement'
  BY <1>17 DEF BeginObserve, BeginRefresh, registry, handles
<1>18. ASSUME NEW id \in ExecutionId, NEW w \in Waiters,
             BeginWait(id, w)
      PROVE  Agreement'
  BY <1>18 DEF BeginWait, BeginRefresh, registry, handles
<1>19. ASSUME NEW id \in ExecutionId, BeginCancel(id)
      PROVE  Agreement'
  BY <1>19 DEF BeginCancel, BeginRefresh, registry, handles
<1>20. ASSUME NEW id \in lock.todo, NEW failed \in SUBSET Stage,
             RefreshJob(id, failed)
      PROVE  Agreement'
  <2>1. id \in ExecutionId /\ owner[id] = "manager"
    BY DEF Ownership, RefreshesManaged
  <2>2. UNCHANGED <<spec, pc>>
    BY <1>20 DEF RefreshJob
  <2>3. \/ UNCHANGED <<state, owner>>
        \/ /\ state' = [state EXCEPT ![id] = "absent"]
           /\ owner' = [owner EXCEPT ![id] = "none"]
    BY <1>20 DEF RefreshJob, FinishAfterWait, Retire, Release
  <2>4. pc[id] \notin Launching
    BY <2>1 DEF Ownership, HolderKnowsPlace
  <2> QED
    BY <2>1, <2>2, <2>3, <2>4, WaitersAssumption DEF Launching
<1>21. ASSUME Observe
      PROVE  Agreement'
  BY <1>21 DEF Observe, registry, handles
<1>22. ASSUME TakeChildren
      PROVE  Agreement'
  BY <1>22, WaitersAssumption DEF TakeChildren, registry, Launching, Managed,
     Ownership, HolderKnowsPlace, OnlyBackgroundHandedOver
<1>23. ASSUME NothingToTake
      PROVE  Agreement'
  BY <1>23 DEF NothingToTake, registry, handles
<1>24. ASSUME RequestCancellation
      PROVE  Agreement'
  BY <1>24 DEF RequestCancellation, handles
<1>25. ASSUME CancellationRefused
      PROVE  Agreement'
  BY <1>25 DEF CancellationRefused, registry, handles
<1>26. ASSUME NEW w \in Waiters, WaitBackgroundJobs(w)
      PROVE  Agreement'
  BY <1>26, WaitersAssumption DEF WaitBackgroundJobs, registry, Managed,
     Ownership, HolderKnowsPlace, OnlyBackgroundHandedOver
<1>27. ASSUME NEW w \in Waiters, NEW id \in ExecutionId,
             PickJob(w, id)
      PROVE  Agreement'
  BY <1>27 DEF PickJob, registry
<1>28. ASSUME NEW w \in Waiters, WaiterReap(w)
      PROVE  Agreement'
  BY <1>28 DEF WaiterReap
<1>29. ASSUME NEW w \in Waiters, WaiterReapError(w)
      PROVE  Agreement'
  BY <1>29 DEF WaiterReapError, registry
<1>30. ASSUME NEW w \in Waiters, WaiterFinish(w)
      PROVE  Agreement'
  BY <1>30, WaitersAssumption DEF WaiterFinish, FinishAfterWait, Retire,
     Release, Launching, Ownership, LoopsHoldTheirJob, HolderKnowsPlace
<1>31. ASSUME NEW pids \in SUBSET ManagedProcesses, Disown(pids)
      PROVE  Agreement'
  BY <1>31, WaitersAssumption DEF Disown, LosesJob, Launching, Managed,
     Ownership, LoopsHoldTheirJob, HolderKnowsPlace
<1>32. ASSUME RequestForegroundCancellation
      PROVE  Agreement'
  BY <1>32 DEF RequestForegroundCancellation, handles, Interruptible
<1>33. ASSUME NEW id \in timers, RequestTimeout(id)
      PROVE  Agreement'
  BY <1>33 DEF RequestTimeout, handles, DeadlineApplies
<1>34. ASSUME NEW id \in timers, TimeoutTooLate(id)
      PROVE  Agreement'
  BY <1>34 DEF TimeoutTooLate, registry, handles
<1>35. ASSUME NEW ids \in graces,
             EscalateCancellation(ids)
      PROVE  Agreement'
  BY <1>35 DEF EscalateCancellation, registry, handles
<1>36. ASSUME NEW id \in ExecutionId, NEW k \in Stage,
             ProcessExits(id, k)
      PROVE  Agreement'
  BY <1>36 DEF ProcessExits, registry, handles
<1>37. CASE UNCHANGED vars
  BY <1>37 DEF vars, registry, handles
<1> QED
  BY <1>1, <1>2, <1>3, <1>4, <1>5, <1>6, <1>7, <1>8, <1>9, <1>10, <1>11,
     <1>12, <1>13, <1>14, <1>15, <1>16, <1>17, <1>18, <1>19, <1>20, <1>21,
     <1>22, <1>23, <1>24, <1>25, <1>26, <1>27, <1>28, <1>29, <1>30, <1>31,
     <1>32, <1>33, <1>34, <1>35, <1>36, <1>37
  DEF Next, RunnerStep, LockedStep, WaiterStep, SignalStep

(* Theorem: no cancellation, deadline or Ctrl+C that slips in between two  *)
(* critical sections of a launch or a wait makes its next transition fail. *)
THEOREM LaunchSafe == Spec => []LaunchStateAgrees
<1>1. Typed /\ Ownership /\ Agreement => LaunchStateAgrees
  BY DEF Agreement
<1> QED
  BY <1>1, InitTyped, StepTyped, InitOwnership, StepOwnership,
     InitAgreement, StepAgreement, PTL DEF Spec

-----------------------------------------------------------------------------
(* The registry and the history agree.                                     *)

(* Retiring an active execution keeps them so: its record is the only one  *)
(* with its id, and evicting the oldest record creates no duplicate.       *)
LEMMA RetireRegistry ==
  ASSUME Typed, RegistryConsistent, NEW id \in ExecutionId,
         NEW final \in Terminal, NEW recorded \in SUBSET Stage,
         Retire(id, final, recorded),
         state[id] # "absent", id < next_id, next_id' = next_id
  PROVE  RegistryConsistent'
<1> DEFINE r == [id |-> id, state |-> final,
                 processes |-> processes[id], exited |-> recorded]
<1>1. r \in ExecutionRecord /\ r.id = id
  BY DEF Typed, TypeOK, ExecutionRecord
<1>2. history' = Trim(Append(history, r))
  BY DEF Retire
<1>3. history \in Seq(ExecutionRecord) /\ Len(history) \in Nat
  BY DEF Typed, TypeOK
<1> HIDE DEF r
<1>4. /\ Len(history') <= HistoryLimit
      /\ \E d \in {0, 1} : Shifted(history', history, r, d)
  BY <1>1, <1>2, <1>3, TrimKeepsOrder DEF Typed
<1>5. PICK d \in {0, 1} : Shifted(history', history, r, d)
  BY <1>4
<1>d. /\ Len(history') = Len(history) + 1 - d
      /\ \A i \in 1..Len(history') :
           history'[i] = IF i + d <= Len(history) THEN history[i + d] ELSE r
  BY <1>5 DEF Shifted
<1>6. state' = [state EXCEPT ![id] = "absent"] /\ job' = [job EXCEPT ![id] = {}]
  BY DEF Retire
<1>7. \A i \in 1..Len(history) :
        history[i].id < next_id /\ state[history[i].id] = "absent"
  BY DEF RegistryConsistent
<1>8. \A i \in 1..Len(history) : history[i] \in ExecutionRecord
  BY <1>3
<1>9. \A i \in 1..Len(history) : history[i].id \in ExecutionId /\ history[i].id # id
  BY <1>7, <1>8 DEF ExecutionRecord
<1>10. \A i \in 1..Len(history') :
         history'[i].id < next_id' /\ state'[history'[i].id] = "absent"
  <2> TAKE i \in 1..Len(history')
  <2>1. CASE i + d <= Len(history)
    <3>1. history'[i] = history[i + d] /\ i + d \in 1..Len(history)
      BY <1>3, <1>4, <1>d, <2>1
    <3> QED
      BY <3>1, <1>6, <1>7, <1>9 DEF Typed, TypeOK
  <2>2. CASE ~(i + d <= Len(history))
    <3>1. history'[i] = r
      BY <1>d, <2>2
    <3> QED
      BY <3>1, <1>1, <1>6 DEF Typed, TypeOK
  <2> QED
    BY <2>1, <2>2
<1>11. \A i, j \in 1..Len(history') : history'[i].id = history'[j].id => i = j
  <2> SUFFICES ASSUME NEW i \in 1..Len(history'), NEW j \in 1..Len(history'),
                      history'[i].id = history'[j].id
               PROVE  i = j
    OBVIOUS
  <2>1. \A m \in 1..Len(history') :
          \/ m + d \in 1..Len(history) /\ history'[m] = history[m + d]
          \/ m = Len(history') /\ history'[m] = r
    <3> TAKE m \in 1..Len(history')
    <3>1. CASE m + d <= Len(history)
      BY <1>3, <1>d, <3>1
    <3>2. CASE ~(m + d <= Len(history))
      <4>1. m = Len(history')
        BY <1>3, <1>d, <3>2
      <4> QED
        BY <1>d, <3>2, <4>1
    <3> QED
      BY <3>1, <3>2
  <2>2. CASE i + d \in 1..Len(history) /\ j + d \in 1..Len(history)
    BY <1>d, <2>2, <1>3 DEF RegistryConsistent
  <2>3. CASE i = Len(history') /\ history'[i] = r
    BY <2>1, <2>3, <1>1, <1>9
  <2>4. CASE j = Len(history') /\ history'[j] = r
    BY <2>1, <2>4, <1>1, <1>9
  <2> QED
    BY <2>1, <2>2, <2>3, <2>4
<1>12. /\ \A k \in ExecutionId : k >= next_id' => state'[k] = "absent"
       /\ \A k \in ExecutionId : state'[k] = "absent" => job'[k] = {}
  BY <1>6 DEF RegistryConsistent, Typed, TypeOK
<1> QED
  BY <1>4, <1>10, <1>11, <1>12 DEF RegistryConsistent

LEMMA InitRegistry == Init => RegistryConsistent
BY BoundsAssumption DEF Init, RegistryConsistent

LEMMA StepRegistry ==
  Typed /\ Ownership /\ RegistryConsistent /\ [Next]_vars
    => RegistryConsistent'
<1> SUFFICES ASSUME Typed, Ownership, RegistryConsistent, [Next]_vars
             PROVE  RegistryConsistent'
  OBVIOUS
<1>a. \A id \in ExecutionId : owner[id] # "none"
        => state[id] # "absent" /\ id < next_id
  BY BoundsAssumption
  DEF Ownership, OwnedIffActive, UnallocatedIdle, ExecutionId, Typed, TypeOK
<1>b. \A id \in ExecutionId : pc[id] \in Launching => owner[id] = "runner"
  BY DEF Ownership, HolderKnowsPlace
<1>c. \A i \in 1..Len(history) : history[i].id \in ExecutionId
  <2>1. \A i \in 1..Len(history) : history[i] \in ExecutionRecord
    BY DEF Typed, TypeOK
  <2> QED
    BY <2>1 DEF ExecutionRecord
<1>1. ASSUME NEW id \in ExecutionId, NEW s \in Launches[id],
             Create(id, s)
      PROVE  RegistryConsistent'
  <2>1. /\ next_id' = next_id + 1 /\ next_id \in Nat /\ id = next_id
        /\ state' = [state EXCEPT ![id] = "Created"]
        /\ UNCHANGED <<job, history>>
    BY <1>1, BoundsAssumption DEF Create, Typed, TypeOK
  <2>2. \A i \in 1..Len(history) : history[i].id \in Nat /\ history[i].id # id
    BY <1>c, <2>1 DEF RegistryConsistent, ExecutionId
  <2>3. \A i \in 1..Len(history') :
          history'[i].id < next_id' /\ state'[history'[i].id] = "absent"
    BY <1>c, <2>1, <2>2 DEF RegistryConsistent, Typed, TypeOK
  <2>4. \A k \in ExecutionId : k >= next_id' => state'[k] = "absent"
    BY <2>1 DEF RegistryConsistent, Typed, TypeOK, ExecutionId
  <2>5. \A k \in ExecutionId : state'[k] = "absent" => job'[k] = {}
    BY <2>1 DEF RegistryConsistent, Typed, TypeOK
  <2> QED
    BY <2>1, <2>3, <2>4, <2>5 DEF RegistryConsistent
<1>2. ASSUME NEW id \in ExecutionId, StartExternal(id)
      PROVE  RegistryConsistent'
  BY <1>2, <1>a, <1>b, <1>c DEF StartExternal, Launching, RegistryConsistent,
     Typed, TypeOK
<1>3. ASSUME NEW id \in ExecutionId, BeginPipeline(id)
      PROVE  RegistryConsistent'
  BY <1>3, <1>a, <1>b, <1>c DEF BeginPipeline, Launching, RegistryConsistent,
     Typed, TypeOK
<1>4. ASSUME NEW id \in ExecutionId, SpawnFails(id)
      PROVE  RegistryConsistent'
  <2>1. Retire(id, "Failed", {}) /\ next_id' = next_id
    BY <1>4 DEF SpawnFails
  <2>2. "Failed" \in Terminal /\ {} \in SUBSET Stage
    BY FinalStateType, NaturalStateType DEF Terminal, Typed, TypeOK
  <2>3. state[id] # "absent" /\ id < next_id
    BY <1>4, <1>a, <1>b DEF SpawnFails, Launching
  <2> QED
    BY <2>1, <2>2, <2>3, RetireRegistry
<1>5. ASSUME NEW id \in ExecutionId, NEW k \in Stage,
             Spawn(id, k)
      PROVE  RegistryConsistent'
  BY <1>5 DEF Spawn, registry, RegistryConsistent, Typed, TypeOK
<1>6. ASSUME NEW id \in ExecutionId, NEW k \in Stage,
             AssignJob(id, k)
      PROVE  RegistryConsistent'
  BY <1>6, <1>a, <1>b, <1>c DEF AssignJob, Launching, RegistryConsistent,
     Typed, TypeOK
<1>7. ASSUME NEW id \in ExecutionId, AssignJobIgnored(id)
      PROVE  RegistryConsistent'
  BY <1>7 DEF AssignJobIgnored, registry, RegistryConsistent, Typed, TypeOK
<1>8. ASSUME NEW id \in ExecutionId, AssignJobFails(id)
      PROVE  RegistryConsistent'
  <2>1. Retire(id, "Failed", {}) /\ next_id' = next_id
    BY <1>8 DEF AssignJobFails
  <2>2. "Failed" \in Terminal /\ {} \in SUBSET Stage
    BY FinalStateType, NaturalStateType DEF Terminal, Typed, TypeOK
  <2>3. state[id] # "absent" /\ id < next_id
    BY <1>8, <1>a, <1>b DEF AssignJobFails, Launching
  <2> QED
    BY <2>1, <2>2, <2>3, RetireRegistry
<1>9. ASSUME NEW id \in ExecutionId, RunExternal(id)
      PROVE  RegistryConsistent'
  BY <1>9, <1>a, <1>b, <1>c DEF RunExternal, Launching, RegistryConsistent,
     Typed, TypeOK
<1>10. ASSUME NEW id \in ExecutionId, RegisterStage(id)
      PROVE  RegistryConsistent'
  BY <1>10 DEF RegisterStage, RegistryConsistent, Typed, TypeOK
<1>11. ASSUME NEW id \in ExecutionId, SetupFails(id)
      PROVE  RegistryConsistent'
  <2>1. Retire(id, FinalState(id, "Failed"), exited[id]) /\ next_id' = next_id
    BY <1>11 DEF SetupFails, FinishAfterWait
  <2>2. FinalState(id, "Failed") \in Terminal /\ exited[id] \in SUBSET Stage
    BY FinalStateType, NaturalStateType DEF Terminal, Typed, TypeOK
  <2>3. state[id] # "absent" /\ id < next_id
    BY <1>11, <1>a, <1>b DEF SetupFails, Launching
  <2> QED
    BY <2>1, <2>2, <2>3, RetireRegistry
<1>12. ASSUME NEW id \in ExecutionId, RegisterBackgroundChildren(id)
      PROVE  RegistryConsistent'
  BY <1>12 DEF RegisterBackgroundChildren, registry, RegistryConsistent,
     Typed, TypeOK
<1>13. ASSUME NEW id \in ExecutionId, WaitForegroundPipeline(id)
      PROVE  RegistryConsistent'
  BY <1>13 DEF WaitForegroundPipeline, registry, RegistryConsistent, Typed,
     TypeOK
<1>14. ASSUME NEW id \in ExecutionId, RunnerReap(id)
      PROVE  RegistryConsistent'
  BY <1>14 DEF RunnerReap, RegistryConsistent, Typed, TypeOK
<1>15. ASSUME NEW id \in ExecutionId, RunnerReapError(id)
      PROVE  RegistryConsistent'
  BY <1>15 DEF RunnerReapError, registry, RegistryConsistent, Typed, TypeOK
<1>16. ASSUME NEW id \in ExecutionId, RunnerFinish(id)
      PROVE  RegistryConsistent'
  <2>1. Retire(id, FinalState(id, NaturalState(verdict[id])), exited[id]) /\ next_id' = next_id
    BY <1>16 DEF RunnerFinish, FinishAfterWait
  <2>2. FinalState(id, NaturalState(verdict[id])) \in Terminal /\ exited[id] \in SUBSET Stage
    BY FinalStateType, NaturalStateType DEF Terminal, Typed, TypeOK
  <2>3. state[id] # "absent" /\ id < next_id
    BY <1>16, <1>a, <1>b DEF RunnerFinish, Launching
  <2> QED
    BY <2>1, <2>2, <2>3, RetireRegistry
<1>17. ASSUME BeginObserve
      PROVE  RegistryConsistent'
  BY <1>17 DEF BeginObserve, registry, handles, BeginRefresh,
     RegistryConsistent, Typed, TypeOK
<1>18. ASSUME NEW id \in ExecutionId, NEW w \in Waiters,
             BeginWait(id, w)
      PROVE  RegistryConsistent'
  BY <1>18 DEF BeginWait, registry, handles, BeginRefresh, RegistryConsistent,
     Typed, TypeOK
<1>19. ASSUME NEW id \in ExecutionId, BeginCancel(id)
      PROVE  RegistryConsistent'
  BY <1>19 DEF BeginCancel, registry, handles, BeginRefresh,
     RegistryConsistent, Typed, TypeOK
<1>20. ASSUME NEW id \in lock.todo, NEW failed \in SUBSET Stage,
             RefreshJob(id, failed)
      PROVE  RegistryConsistent'
  <2> DEFINE left == children[id] \ (Reaped(id, failed) \cup failed)
             recorded == exited[id] \cup Reaped(id, failed)
             final == FinalState(id, NaturalState(RefreshVerdict(id, failed)))
  <2>1. id \in ExecutionId /\ owner[id] = "manager" /\ next_id' = next_id
    BY <1>20 DEF Ownership, RefreshesManaged, RefreshJob, Typed, TypeOK
  <2>2. recorded \in SUBSET Stage /\ final \in Terminal
    BY <2>1, FinalStateType, NaturalStateType DEF Typed, TypeOK, Reaped
  <2>3. CASE left = {}
    <3>1. Retire(id, final, recorded)
      BY <1>20, <2>3 DEF RefreshJob, FinishAfterWait
    <3> QED
      BY <1>a, <2>1, <2>2, <3>1, RetireRegistry
  <2>4. CASE left # {}
    <3>1. UNCHANGED <<state, job, history, next_id>>
      BY <1>20, <2>4 DEF RefreshJob
    <3> QED
      BY <3>1 DEF RegistryConsistent
  <2> QED
    BY <2>3, <2>4
<1>21. ASSUME Observe
      PROVE  RegistryConsistent'
  BY <1>21 DEF Observe, registry, handles, RegistryConsistent, Typed, TypeOK
<1>22. ASSUME TakeChildren
      PROVE  RegistryConsistent'
  BY <1>22 DEF TakeChildren, registry, RegistryConsistent, Typed, TypeOK
<1>23. ASSUME NothingToTake
      PROVE  RegistryConsistent'
  BY <1>23 DEF NothingToTake, registry, handles, RegistryConsistent, Typed,
     TypeOK
<1>24. ASSUME RequestCancellation
      PROVE  RegistryConsistent'
  BY <1>24, <1>c DEF RequestCancellation, handles, RegistryConsistent, Typed,
     TypeOK
<1>25. ASSUME CancellationRefused
      PROVE  RegistryConsistent'
  BY <1>25 DEF CancellationRefused, registry, handles, RegistryConsistent,
     Typed, TypeOK
<1>26. ASSUME NEW w \in Waiters, WaitBackgroundJobs(w)
      PROVE  RegistryConsistent'
  BY <1>26 DEF WaitBackgroundJobs, registry, RegistryConsistent, Typed, TypeOK
<1>27. ASSUME NEW w \in Waiters, NEW id \in ExecutionId,
             PickJob(w, id)
      PROVE  RegistryConsistent'
  BY <1>27 DEF PickJob, registry, RegistryConsistent, Typed, TypeOK
<1>28. ASSUME NEW w \in Waiters, WaiterReap(w)
      PROVE  RegistryConsistent'
  BY <1>28 DEF WaiterReap, RegistryConsistent, Typed, TypeOK
<1>29. ASSUME NEW w \in Waiters, WaiterReapError(w)
      PROVE  RegistryConsistent'
  BY <1>29 DEF WaiterReapError, registry, RegistryConsistent, Typed, TypeOK
<1>30. ASSUME NEW w \in Waiters, WaiterFinish(w)
      PROVE  RegistryConsistent'
  <2> DEFINE id == current[w]
  <2>1. id \in ExecutionId /\ owner[id] = w
    BY <1>30 DEF WaiterFinish, Ownership, LoopsHoldTheirJob, Typed, TypeOK
  <2>2. /\ Retire(id, FinalState(id, NaturalState(verdict[id])), exited[id])
        /\ next_id' = next_id
    BY <1>30 DEF WaiterFinish, FinishAfterWait
  <2>3. /\ FinalState(id, NaturalState(verdict[id])) \in Terminal
        /\ exited[id] \in SUBSET Stage
    BY <2>1, FinalStateType, NaturalStateType DEF Typed, TypeOK
  <2>4. state[id] # "absent" /\ id < next_id
    BY <1>a, <2>1, WaitersAssumption
  <2> QED
    BY <2>1, <2>2, <2>3, <2>4, RetireRegistry
<1>31. ASSUME NEW pids \in SUBSET ManagedProcesses, Disown(pids)
      PROVE  RegistryConsistent'
  BY <1>31, <1>c DEF Disown, LosesJob, RegistryConsistent, Typed, TypeOK
<1>32. ASSUME RequestForegroundCancellation
      PROVE  RegistryConsistent'
  BY <1>32, <1>c DEF RequestForegroundCancellation, handles, Interruptible,
     RegistryConsistent, Typed, TypeOK
<1>33. ASSUME NEW id \in timers, RequestTimeout(id)
      PROVE  RegistryConsistent'
  BY <1>33, <1>c DEF RequestTimeout, handles, DeadlineApplies,
     RegistryConsistent, Typed, TypeOK
<1>34. ASSUME NEW id \in timers, TimeoutTooLate(id)
      PROVE  RegistryConsistent'
  BY <1>34 DEF TimeoutTooLate, registry, handles, RegistryConsistent, Typed,
     TypeOK
<1>35. ASSUME NEW ids \in graces,
             EscalateCancellation(ids)
      PROVE  RegistryConsistent'
  BY <1>35 DEF EscalateCancellation, registry, handles, RegistryConsistent,
     Typed, TypeOK
<1>36. ASSUME NEW id \in ExecutionId, NEW k \in Stage,
             ProcessExits(id, k)
      PROVE  RegistryConsistent'
  BY <1>36 DEF ProcessExits, registry, handles, RegistryConsistent, Typed,
     TypeOK
<1>37. CASE UNCHANGED vars
  BY <1>37 DEF vars, registry, RegistryConsistent
<1> QED
  BY <1>1, <1>2, <1>3, <1>4, <1>5, <1>6, <1>7, <1>8, <1>9, <1>10, <1>11,
     <1>12, <1>13, <1>14, <1>15, <1>16, <1>17, <1>18, <1>19, <1>20, <1>21,
     <1>22, <1>23, <1>24, <1>25, <1>26, <1>27, <1>28, <1>29, <1>30, <1>31,
     <1>32, <1>33, <1>34, <1>35, <1>36, <1>37
  DEF Next, RunnerStep, LockedStep, WaiterStep, SignalStep

(* Theorem: an id is in the active map or in history, never in both and    *)
(* never twice, and no Job Object outlives its execution.                  *)
THEOREM RegistrySafe == Spec => []RegistryConsistent
  BY InitTyped, StepTyped, InitOwnership, StepOwnership, InitRegistry,
     StepRegistry, PTL DEF Spec

-----------------------------------------------------------------------------
(* What executions report, and the processes of their stages.               *)

(* Only tasks have deadlines and limits, and they run as single programs.  *)
PoliciesAreExternal ==
  \A id \in ExecutionId : Required(id) => ~Pipeline(id)

LEMMA InitPolicies == Init => PoliciesAreExternal
BY DEF Init, NoSpec, PoliciesAreExternal, Required, Pipeline

(* What an execution is stays as it was created.                           *)
LEMMA SpecsStay ==
  [Next]_vars =>
    \/ UNCHANGED spec
    \/ \E id \in ExecutionId : \E s \in Launches[id] : Create(id, s)
<1> SUFFICES ASSUME [Next]_vars,
                    ~\E id \in ExecutionId : \E s \in Launches[id] : Create(id, s)
             PROVE  UNCHANGED spec
  OBVIOUS
<1>1. ASSUME NEW id \in ExecutionId, NEW s \in Launches[id],
             Create(id, s)
      PROVE  UNCHANGED spec
  BY <1>1
<1>2. ASSUME NEW id \in ExecutionId, StartExternal(id)
      PROVE  UNCHANGED spec
  BY <1>2 DEF StartExternal
<1>3. ASSUME NEW id \in ExecutionId, BeginPipeline(id)
      PROVE  UNCHANGED spec
  BY <1>3 DEF BeginPipeline
<1>4. ASSUME NEW id \in ExecutionId, SpawnFails(id)
      PROVE  UNCHANGED spec
  BY <1>4 DEF SpawnFails
<1>5. ASSUME NEW id \in ExecutionId, NEW k \in Stage, Spawn(id, k)
      PROVE  UNCHANGED spec
  BY <1>5 DEF Spawn, registry
<1>6. ASSUME NEW id \in ExecutionId, NEW k \in Stage, AssignJob(id, k)
      PROVE  UNCHANGED spec
  BY <1>6 DEF AssignJob
<1>7. ASSUME NEW id \in ExecutionId, AssignJobIgnored(id)
      PROVE  UNCHANGED spec
  BY <1>7 DEF AssignJobIgnored, registry
<1>8. ASSUME NEW id \in ExecutionId, AssignJobFails(id)
      PROVE  UNCHANGED spec
  BY <1>8 DEF AssignJobFails
<1>9. ASSUME NEW id \in ExecutionId, RunExternal(id)
      PROVE  UNCHANGED spec
  BY <1>9 DEF RunExternal
<1>10. ASSUME NEW id \in ExecutionId, RegisterStage(id)
      PROVE  UNCHANGED spec
  BY <1>10 DEF RegisterStage
<1>11. ASSUME NEW id \in ExecutionId, SetupFails(id)
      PROVE  UNCHANGED spec
  BY <1>11 DEF SetupFails
<1>12. ASSUME NEW id \in ExecutionId, RegisterBackgroundChildren(id)
      PROVE  UNCHANGED spec
  BY <1>12 DEF RegisterBackgroundChildren, registry
<1>13. ASSUME NEW id \in ExecutionId, WaitForegroundPipeline(id)
      PROVE  UNCHANGED spec
  BY <1>13 DEF WaitForegroundPipeline, registry
<1>14. ASSUME NEW id \in ExecutionId, RunnerReap(id)
      PROVE  UNCHANGED spec
  BY <1>14 DEF RunnerReap
<1>15. ASSUME NEW id \in ExecutionId, RunnerReapError(id)
      PROVE  UNCHANGED spec
  BY <1>15 DEF RunnerReapError, registry
<1>16. ASSUME NEW id \in ExecutionId, RunnerFinish(id)
      PROVE  UNCHANGED spec
  BY <1>16 DEF RunnerFinish
<1>17. ASSUME BeginObserve
      PROVE  UNCHANGED spec
  BY <1>17 DEF BeginObserve, BeginRefresh, registry, handles
<1>18. ASSUME NEW id \in ExecutionId, NEW w \in Waiters,
             BeginWait(id, w)
      PROVE  UNCHANGED spec
  BY <1>18 DEF BeginWait, BeginRefresh, registry, handles
<1>19. ASSUME NEW id \in ExecutionId, BeginCancel(id)
      PROVE  UNCHANGED spec
  BY <1>19 DEF BeginCancel, BeginRefresh, registry, handles
<1>20. ASSUME NEW id \in lock.todo, NEW failed \in SUBSET Stage,
             RefreshJob(id, failed)
      PROVE  UNCHANGED spec
  BY <1>20 DEF RefreshJob
<1>21. ASSUME Observe
      PROVE  UNCHANGED spec
  BY <1>21 DEF Observe, registry, handles
<1>22. ASSUME TakeChildren
      PROVE  UNCHANGED spec
  BY <1>22 DEF TakeChildren, registry
<1>23. ASSUME NothingToTake
      PROVE  UNCHANGED spec
  BY <1>23 DEF NothingToTake, registry, handles
<1>24. ASSUME RequestCancellation
      PROVE  UNCHANGED spec
  BY <1>24 DEF RequestCancellation, handles
<1>25. ASSUME CancellationRefused
      PROVE  UNCHANGED spec
  BY <1>25 DEF CancellationRefused, registry, handles
<1>26. ASSUME NEW w \in Waiters, WaitBackgroundJobs(w)
      PROVE  UNCHANGED spec
  BY <1>26 DEF WaitBackgroundJobs, registry
<1>27. ASSUME NEW w \in Waiters, NEW id \in ExecutionId, PickJob(w, id)
      PROVE  UNCHANGED spec
  BY <1>27 DEF PickJob, registry
<1>28. ASSUME NEW w \in Waiters, WaiterReap(w)
      PROVE  UNCHANGED spec
  BY <1>28 DEF WaiterReap
<1>29. ASSUME NEW w \in Waiters, WaiterReapError(w)
      PROVE  UNCHANGED spec
  BY <1>29 DEF WaiterReapError, registry
<1>30. ASSUME NEW w \in Waiters, WaiterFinish(w)
      PROVE  UNCHANGED spec
  BY <1>30 DEF WaiterFinish
<1>31. ASSUME NEW pids \in SUBSET ManagedProcesses, Disown(pids)
      PROVE  UNCHANGED spec
  BY <1>31 DEF Disown
<1>32. ASSUME RequestForegroundCancellation
      PROVE  UNCHANGED spec
  BY <1>32 DEF RequestForegroundCancellation, handles
<1>33. ASSUME NEW id \in timers, RequestTimeout(id)
      PROVE  UNCHANGED spec
  BY <1>33 DEF RequestTimeout, handles
<1>34. ASSUME NEW id \in timers, TimeoutTooLate(id)
      PROVE  UNCHANGED spec
  BY <1>34 DEF TimeoutTooLate, registry, handles
<1>35. ASSUME NEW ids \in graces, EscalateCancellation(ids)
      PROVE  UNCHANGED spec
  BY <1>35 DEF EscalateCancellation, registry, handles
<1>36. ASSUME NEW id \in ExecutionId, NEW k \in Stage, ProcessExits(id, k)
      PROVE  UNCHANGED spec
  BY <1>36 DEF ProcessExits, registry, handles
<1>37. CASE UNCHANGED vars
  BY <1>37
  DEF vars, registry, handles, signalling
<1> QED
  BY <1>1, <1>2, <1>3, <1>4, <1>5, <1>6, <1>7, <1>8, <1>9, <1>10, <1>11,
  <1>12, <1>13, <1>14, <1>15, <1>16, <1>17, <1>18, <1>19, <1>20, <1>21, <1>22,
  <1>23, <1>24, <1>25, <1>26, <1>27, <1>28, <1>29, <1>30, <1>31, <1>32, <1>33,
  <1>34, <1>35, <1>36, <1>37
  DEF Next, RunnerStep, LockedStep, WaiterStep, SignalStep

LEMMA StepPolicies == Typed /\ PoliciesAreExternal /\ [Next]_vars => PoliciesAreExternal'
<1> SUFFICES ASSUME Typed, PoliciesAreExternal, [Next]_vars
             PROVE  PoliciesAreExternal'
  OBVIOUS
<1>1. ASSUME NEW id \in ExecutionId, NEW s \in Launches[id], Create(id, s)
      PROVE  PoliciesAreExternal'
  <2>1. s \in ExecutionSpec /\ (s.timeout \/ s.limits => s.kind = "external")
    BY LaunchesAssumption
  <2>2. spec' = [spec EXCEPT ![id] = s]
    BY <1>1 DEF Create
  <2> QED
    BY <2>1, <2>2 DEF PoliciesAreExternal, Required, Pipeline, Typed, TypeOK
<1>2. CASE UNCHANGED spec
  BY <1>2 DEF PoliciesAreExternal, Required, Pipeline
<1> QED
  BY <1>1, <1>2, SpecsStay

-----------------------------------------------------------------------------
(* The steps of the registry: an execution is created, or one ends, or     *)
(* some go on to their next state or are disowned.                         *)

Creates(id) ==
  /\ id = next_id
  /\ next_id' = next_id + 1
  /\ state' = [state EXCEPT ![id] = "Created"]
  /\ UNCHANGED <<timeout_triggered, history>>

MayEnd(id, final) ==
  \/ state[id] = "Starting" /\ final = "Failed"
  \/ state[id] = "Running" /\ final \in {"Completed", "Failed"}
  \/ state[id] = "Cancelling"
       /\ final = IF timeout_triggered[id] THEN "TimedOut" ELSE "Cancelled"

Ends(id) ==
  /\ next_id' = next_id
  /\ \E final \in Terminal, recorded \in SUBSET Stage :
       Retire(id, final, recorded) /\ MayEnd(id, final)

Advance == {<<"Created", "Starting">>, <<"Created", "Running">>,
            <<"Starting", "Running">>, <<"Running", "Cancelling">>}

GoesOn(id) ==
  \/ state'[id] = state[id]
       /\ (state[id] = "Cancelling" => timeout_triggered'[id] = timeout_triggered[id])
  \/ <<state[id], state'[id]>> \in Advance
  \/ state[id] \in {"Running", "Cancelling"} /\ state'[id] = "absent"

GoOn == UNCHANGED <<next_id, history>> /\ \A id \in ExecutionId : GoesOn(id)

RegistryMove ==
  \/ GoOn
  \/ \E id \in ExecutionId : Creates(id)
  \/ \E id \in ExecutionId : Ends(id)

Sound == Typed /\ Ownership /\ Agreement /\ PoliciesAreExternal

LEMMA UnchangedGoesOn ==
  UNCHANGED <<next_id, history, state, timeout_triggered>> => RegistryMove
BY DEF RegistryMove, GoOn, GoesOn

(* The end of a wait, whatever came in between.                            *)
LEMMA WaitEnds ==
  ASSUME Typed, NEW id \in ExecutionId, state[id] \in {"Running", "Cancelling"},
         NEW natural \in {"Completed", "Failed"}, NEW recorded \in SUBSET Stage,
         FinishAfterWait(id, natural, recorded), next_id' = next_id
  PROVE  Ends(id)
BY DEF FinishAfterWait, FinalState, Ends, MayEnd, Terminal

LEMMA RegistryStep == Sound /\ [Next]_vars => RegistryMove
<1> SUFFICES ASSUME Sound, [Next]_vars PROVE RegistryMove
  OBVIOUS
<1> USE DEF Sound
<1>t. /\ state \in [ExecutionId -> NonTerminal \cup {"absent"}]
      /\ timeout_triggered \in [ExecutionId -> BOOLEAN]
      /\ exited \in [ExecutionId -> SUBSET Stage]
      /\ children \in [ExecutionId -> SUBSET Stage]
  BY DEF Typed, TypeOK
<1>n. \A v : NaturalState(v) \in {"Completed", "Failed"}
  BY DEF NaturalState
<1>1. ASSUME NEW id \in ExecutionId, NEW s \in Launches[id],
             Create(id, s)
      PROVE  RegistryMove
  BY <1>1 DEF Create, Creates, RegistryMove
<1>2. ASSUME NEW id \in ExecutionId, StartExternal(id)
      PROVE  RegistryMove
  <2>1. state[id] = "Created"
    BY <1>2 DEF StartExternal, Agreement, LaunchStateAgrees
  <2> QED
    BY <1>2, <1>t, <2>1 DEF StartExternal, RegistryMove, GoOn, GoesOn, Advance
<1>3. ASSUME NEW id \in ExecutionId, BeginPipeline(id)
      PROVE  RegistryMove
  <2>1. state[id] = "Created"
    BY <1>3 DEF BeginPipeline, Agreement, LaunchStateAgrees
  <2> QED
    BY <1>3, <1>t, <2>1 DEF BeginPipeline, RegistryMove, GoOn, GoesOn, Advance
<1>4. ASSUME NEW id \in ExecutionId, SpawnFails(id)
      PROVE  RegistryMove
  <2>1. state[id] = "Starting"
    BY <1>4 DEF SpawnFails, Agreement, LaunchStateAgrees, LaunchPathByKind
  <2>2. Retire(id, "Failed", {}) /\ next_id' = next_id
    BY <1>4 DEF SpawnFails
  <2> QED
    BY <2>1, <2>2 DEF RegistryMove, Ends, MayEnd, Terminal
<1>5. ASSUME NEW id \in ExecutionId, NEW k \in Stage, Spawn(id, k)
      PROVE  RegistryMove
  BY <1>5, UnchangedGoesOn
  DEF Spawn, registry
<1>6. ASSUME NEW id \in ExecutionId, NEW k \in Stage, AssignJob(id, k)
      PROVE  RegistryMove
  BY <1>6, UnchangedGoesOn
  DEF AssignJob
<1>7. ASSUME NEW id \in ExecutionId, AssignJobIgnored(id)
      PROVE  RegistryMove
  BY <1>7, UnchangedGoesOn
  DEF AssignJobIgnored, registry
<1>8. ASSUME NEW id \in ExecutionId, AssignJobFails(id)
      PROVE  RegistryMove
  <2>1. state[id] = "Starting"
    BY <1>8 DEF AssignJobFails, Agreement, LaunchStateAgrees, PoliciesAreExternal
  <2>2. Retire(id, "Failed", {}) /\ next_id' = next_id
    BY <1>8 DEF AssignJobFails
  <2> QED
    BY <2>1, <2>2 DEF RegistryMove, Ends, MayEnd, Terminal
<1>9. ASSUME NEW id \in ExecutionId, RunExternal(id)
      PROVE  RegistryMove
  <2>1. state[id] = "Starting"
    BY <1>9 DEF RunExternal, Agreement, LaunchStateAgrees
  <2> QED
    BY <1>9, <1>t, <2>1 DEF RunExternal, RegistryMove, GoOn, GoesOn, Advance
<1>10. ASSUME NEW id \in ExecutionId, RegisterStage(id)
      PROVE  RegistryMove
  BY <1>10, UnchangedGoesOn
  DEF RegisterStage
<1>11. ASSUME NEW id \in ExecutionId, SetupFails(id)
      PROVE  RegistryMove
  <2>1. state[id] \in {"Running", "Cancelling"}
    BY <1>11 DEF SetupFails, Agreement, LaunchStateAgrees, LaunchPathByKind
  <2>2. FinishAfterWait(id, "Failed", exited[id]) /\ next_id' = next_id
    BY <1>11 DEF SetupFails
  <2> QED
    BY <1>t, <2>1, <2>2, WaitEnds DEF RegistryMove
<1>12. ASSUME NEW id \in ExecutionId, RegisterBackgroundChildren(id)
      PROVE  RegistryMove
  BY <1>12, UnchangedGoesOn
  DEF RegisterBackgroundChildren, registry
<1>13. ASSUME NEW id \in ExecutionId, WaitForegroundPipeline(id)
      PROVE  RegistryMove
  BY <1>13, UnchangedGoesOn
  DEF WaitForegroundPipeline, registry
<1>14. ASSUME NEW id \in ExecutionId, RunnerReap(id)
      PROVE  RegistryMove
  BY <1>14, UnchangedGoesOn
  DEF RunnerReap
<1>15. ASSUME NEW id \in ExecutionId, RunnerReapError(id)
      PROVE  RegistryMove
  BY <1>15, UnchangedGoesOn
  DEF RunnerReapError, registry
<1>16. ASSUME NEW id \in ExecutionId, RunnerFinish(id)
      PROVE  RegistryMove
  <2>1. state[id] \in {"Running", "Cancelling"}
    BY <1>16 DEF RunnerFinish, Agreement, LaunchStateAgrees
  <2>2. /\ FinishAfterWait(id, NaturalState(verdict[id]), exited[id])
        /\ next_id' = next_id
    BY <1>16 DEF RunnerFinish
  <2> QED
    BY <1>n, <1>t, <2>1, <2>2, WaitEnds DEF RegistryMove
<1>17. ASSUME BeginObserve
      PROVE  RegistryMove
  BY <1>17, UnchangedGoesOn
  DEF BeginObserve, BeginRefresh, registry, handles
<1>18. ASSUME NEW id \in ExecutionId, NEW w \in Waiters,
             BeginWait(id, w)
      PROVE  RegistryMove
  BY <1>18, UnchangedGoesOn
  DEF BeginWait, BeginRefresh, registry, handles
<1>19. ASSUME NEW id \in ExecutionId, BeginCancel(id)
      PROVE  RegistryMove
  BY <1>19, UnchangedGoesOn
  DEF BeginCancel, BeginRefresh, registry, handles
<1>20. ASSUME NEW id \in lock.todo, NEW failed \in SUBSET Stage,
             RefreshJob(id, failed)
      PROVE  RegistryMove
  <2> DEFINE left == children[id] \ (Reaped(id, failed) \cup failed)
             recorded == exited[id] \cup Reaped(id, failed)
             natural == NaturalState(RefreshVerdict(id, failed))
  <2>1. id \in ExecutionId /\ owner[id] = "manager"
    BY DEF Ownership, RefreshesManaged, Typed, TypeOK
  <2>2. state[id] \in {"Running", "Cancelling"}
    BY <2>1 DEF Agreement, LaunchStateAgrees
  <2>3. recorded \in SUBSET Stage /\ next_id' = next_id
    BY <1>20, <1>t, <2>1 DEF Reaped, RefreshJob
  <2>4. CASE left = {}
    <3>1. FinishAfterWait(id, natural, recorded)
      BY <1>20, <2>4 DEF RefreshJob
    <3> HIDE DEF natural, recorded
    <3>2. natural \in {"Completed", "Failed"}
      BY <1>n DEF natural
    <3> QED
      BY <2>1, <2>2, <2>3, <3>1, <3>2, WaitEnds DEF RegistryMove
  <2>5. CASE left # {}
    <3>1. UNCHANGED <<state, timeout_triggered, history>>
      BY <1>20, <2>5 DEF RefreshJob
    <3> QED
      BY <2>3, <3>1, UnchangedGoesOn
  <2> QED
    BY <2>4, <2>5
<1>21. ASSUME Observe
      PROVE  RegistryMove
  BY <1>21, UnchangedGoesOn
  DEF Observe, registry, handles
<1>22. ASSUME TakeChildren
      PROVE  RegistryMove
  BY <1>22, UnchangedGoesOn
  DEF TakeChildren, registry
<1>23. ASSUME NothingToTake
      PROVE  RegistryMove
  BY <1>23, UnchangedGoesOn
  DEF NothingToTake, registry, handles
<1>24. ASSUME RequestCancellation
      PROVE  RegistryMove
  <2>1. UNCHANGED <<next_id, history, timeout_triggered>>
    BY <1>24 DEF RequestCancellation
  <2>2. /\ state[lock.id] \in {"Running", "Cancelling"}
        /\ state' = [state EXCEPT ![lock.id] = "Cancelling"]
    BY <1>24 DEF RequestCancellation
  <2> QED
    BY <1>t, <2>1, <2>2 DEF RegistryMove, GoOn, GoesOn, Advance
<1>25. ASSUME CancellationRefused
      PROVE  RegistryMove
  BY <1>25, UnchangedGoesOn
  DEF CancellationRefused, registry, handles
<1>26. ASSUME NEW w \in Waiters, WaitBackgroundJobs(w)
      PROVE  RegistryMove
  BY <1>26, UnchangedGoesOn
  DEF WaitBackgroundJobs, registry
<1>27. ASSUME NEW w \in Waiters, NEW id \in ExecutionId, PickJob(w, id)
      PROVE  RegistryMove
  BY <1>27, UnchangedGoesOn
  DEF PickJob, registry
<1>28. ASSUME NEW w \in Waiters, WaiterReap(w)
      PROVE  RegistryMove
  BY <1>28, UnchangedGoesOn
  DEF WaiterReap
<1>29. ASSUME NEW w \in Waiters, WaiterReapError(w)
      PROVE  RegistryMove
  BY <1>29, UnchangedGoesOn
  DEF WaiterReapError, registry
<1>30. ASSUME NEW w \in Waiters, WaiterFinish(w)
      PROVE  RegistryMove
  <2> DEFINE id == current[w]
  <2>1. id \in ExecutionId /\ owner[id] = w
    BY <1>30 DEF WaiterFinish, Ownership, LoopsHoldTheirJob, Typed, TypeOK
  <2>2. state[id] \in {"Running", "Cancelling"}
    BY <2>1 DEF Agreement, LaunchStateAgrees
  <2>3. /\ FinishAfterWait(id, NaturalState(verdict[id]), exited[id])
        /\ next_id' = next_id
    BY <1>30 DEF WaiterFinish
  <2> QED
    BY <1>n, <1>t, <2>1, <2>2, <2>3, WaitEnds DEF RegistryMove
<1>31. ASSUME NEW pids \in SUBSET ManagedProcesses, Disown(pids)
      PROVE  RegistryMove
  <2> DEFINE empty(id) == Managed(id) /\ children[id] \subseteq
                            (IF Managed(id) THEN {k \in children[id] : <<id, k>> \in pids}
                             ELSE {})
  <2>1. UNCHANGED <<next_id, history, timeout_triggered>>
    BY <1>31 DEF Disown
  <2>2. state' = [id \in ExecutionId |-> IF empty(id) THEN "absent" ELSE state[id]]
    BY <1>31 DEF Disown
  <2>3. \A id \in ExecutionId : Managed(id) => state[id] \in {"Running", "Cancelling"}
    BY DEF Managed, Agreement, LaunchStateAgrees
  <2> HIDE DEF empty
  <2>4. \A id \in ExecutionId : empty(id) => Managed(id)
    BY DEF empty
  <2> QED
    BY <2>1, <2>2, <2>3, <2>4 DEF RegistryMove, GoOn, GoesOn
<1>32. ASSUME RequestForegroundCancellation
      PROVE  RegistryMove
  <2>1. UNCHANGED <<next_id, history, timeout_triggered>>
    BY <1>32 DEF RequestForegroundCancellation
  <2>2. state' = [id \in ExecutionId |->
                    IF id \in {i \in ExecutionId : Interruptible(i)}
                    THEN "Cancelling" ELSE state[id]]
    BY <1>32 DEF RequestForegroundCancellation
  <2> QED
    BY <1>t, <2>1, <2>2 DEF RegistryMove, GoOn, GoesOn, Advance, Interruptible
<1>33. ASSUME NEW id \in timers, RequestTimeout(id)
      PROVE  RegistryMove
  <2>1. id \in ExecutionId /\ state[id] = "Running" /\ UNCHANGED <<next_id, history>>
    BY <1>33 DEF RequestTimeout, DeadlineApplies, Typed, TypeOK
  <2>2. /\ state' = [state EXCEPT ![id] = "Cancelling"]
        /\ timeout_triggered' = [timeout_triggered EXCEPT ![id] = TRUE]
    BY <1>33 DEF RequestTimeout
  <2> QED
    BY <1>t, <2>1, <2>2 DEF RegistryMove, GoOn, GoesOn, Advance
<1>34. ASSUME NEW id \in timers, TimeoutTooLate(id)
      PROVE  RegistryMove
  BY <1>34, UnchangedGoesOn
  DEF TimeoutTooLate, registry, handles
<1>35. ASSUME NEW ids \in graces, EscalateCancellation(ids)
      PROVE  RegistryMove
  BY <1>35, UnchangedGoesOn
  DEF EscalateCancellation, registry, handles
<1>36. ASSUME NEW id \in ExecutionId, NEW k \in Stage, ProcessExits(id, k)
      PROVE  RegistryMove
  BY <1>36, UnchangedGoesOn
  DEF ProcessExits, registry, handles
<1>37. CASE UNCHANGED vars
  BY <1>37, UnchangedGoesOn
  DEF vars, registry, handles, signalling
<1> QED
  BY <1>1, <1>2, <1>3, <1>4, <1>5, <1>6, <1>7, <1>8, <1>9, <1>10, <1>11,
  <1>12, <1>13, <1>14, <1>15, <1>16, <1>17, <1>18, <1>19, <1>20, <1>21, <1>22,
  <1>23, <1>24, <1>25, <1>26, <1>27, <1>28, <1>29, <1>30, <1>31, <1>32, <1>33,
  <1>34, <1>35, <1>36, <1>37
  DEF Next, RunnerStep, LockedStep, WaiterStep, SignalStep

-----------------------------------------------------------------------------
(* The first cause wins.                                                   *)

(* The record of an execution that ends is the last of the history, or     *)
(* none is kept at all.                                                    *)
LEMMA NewestRecord ==
  ASSUME Typed, NEW id \in ExecutionId, NEW final \in Terminal,
         NEW recorded \in SUBSET Stage, Retire(id, final, recorded)
  PROVE  LET r == [id |-> id, state |-> final,
                   processes |-> processes[id], exited |-> recorded]
         IN  /\ r.id = id /\ r.state = final
             /\ \E d \in {0, 1} : Shifted(history', history, r, d)
             /\ Len(history') \in Nat
<1> DEFINE r == [id |-> id, state |-> final,
                 processes |-> processes[id], exited |-> recorded]
<1>1. r \in ExecutionRecord /\ r.id = id /\ r.state = final
  BY DEF Typed, TypeOK, ExecutionRecord
<1>2. history' = Trim(Append(history, r))
  BY DEF Retire
<1> HIDE DEF r
<1>3. /\ history' \in Seq(ExecutionRecord)
      /\ \E d \in {0, 1} : Shifted(history', history, r, d)
  BY <1>1, <1>2, TrimKeepsOrder DEF Typed, TypeOK
<1> QED
  BY <1>1, <1>3 DEF r

FirstCauseStep ==
  \A id \in ExecutionId : state[id] = "Cancelling" =>
    /\ state'[id] = "Cancelling"
         => timeout_triggered'[id] = timeout_triggered[id]
    /\ history' # history /\ history'[Len(history')].id = id
         => history'[Len(history')].state =
              IF timeout_triggered[id] THEN "TimedOut" ELSE "Cancelled"

LEMMA MoveKeepsCause == Sound /\ RegistryMove => FirstCauseStep
<1> SUFFICES ASSUME Sound, RegistryMove, NEW c \in ExecutionId, state[c] = "Cancelling"
             PROVE  /\ state'[c] = "Cancelling"
                         => timeout_triggered'[c] = timeout_triggered[c]
                    /\ history' # history /\ history'[Len(history')].id = c
                         => history'[Len(history')].state =
                              IF timeout_triggered[c] THEN "TimedOut" ELSE "Cancelled"
  BY DEF FirstCauseStep
<1>t. /\ state \in [ExecutionId -> NonTerminal \cup {"absent"}]
      /\ timeout_triggered \in [ExecutionId -> BOOLEAN]
      /\ history \in Seq(ExecutionRecord)
  BY DEF Sound, Typed, TypeOK
<1>1. CASE GoOn
  BY <1>1 DEF GoOn, GoesOn, Advance
<1>2. ASSUME NEW id \in ExecutionId, Creates(id)
      PROVE  history' = history /\ timeout_triggered' = timeout_triggered
  BY <1>2 DEF Creates
<1>3. ASSUME NEW id \in ExecutionId, Ends(id)
      PROVE  /\ state'[c] = "Cancelling"
                  => timeout_triggered'[c] = timeout_triggered[c]
             /\ history' # history /\ history'[Len(history')].id = c
                  => history'[Len(history')].state =
                       IF timeout_triggered[c] THEN "TimedOut" ELSE "Cancelled"
  <2>1. PICK final \in Terminal, recorded \in SUBSET Stage :
               Retire(id, final, recorded) /\ MayEnd(id, final)
    BY <1>3 DEF Ends
  <2>2. /\ state' = [state EXCEPT ![id] = "absent"]
        /\ timeout_triggered' = [timeout_triggered EXCEPT ![id] = FALSE]
    BY <2>1 DEF Retire
  <2>3. state'[c] = "Cancelling" => timeout_triggered'[c] = timeout_triggered[c]
    BY <1>t, <2>2
  <2> DEFINE r == [id |-> id, state |-> final,
                   processes |-> processes[id], exited |-> recorded]
  <2>4. PICK d \in {0, 1} : Shifted(history', history, r, d)
    BY <2>1, NewestRecord DEF Sound
  <2>5. r.id = id /\ r.state = final
    OBVIOUS
  <2>6. Len(history') \in Nat /\ Len(history) \in Nat
    BY <1>t, <2>1, NewestRecord DEF Sound
  <2> HIDE DEF r
  <2>7. ASSUME history' # history, history'[Len(history')].id = c
        PROVE  history'[Len(history')].state =
                 IF timeout_triggered[c] THEN "TimedOut" ELSE "Cancelled"
    <3>1. Len(history') = Len(history) + 1 - d
      BY <2>4 DEF Shifted
    <3>2. CASE Len(history') = 0
      <4>1. Len(history) = 0
        BY <2>6, <3>1, <3>2
      <4>2. history = << >> /\ history' \in Seq(ExecutionRecord)
        BY <1>t, <4>1, <2>1, RetireType DEF Sound, Typed
      <4> QED
        BY <2>7, <3>2, <4>2
    <3>3. CASE Len(history') # 0
      <4>1. Len(history') \in 1..Len(history') /\ ~(Len(history') + d <= Len(history))
        BY <2>6, <3>1, <3>3
      <4>2. history'[Len(history')] = r
        BY <2>4, <4>1 DEF Shifted
      <4>3. c = id
        BY <2>5, <2>7, <4>2
      <4> QED
        BY <2>1, <2>5, <4>2, <4>3 DEF MayEnd
    <3> QED
      BY <3>2, <3>3
  <2> QED
    BY <2>3, <2>7
<1> QED
  BY <1>1, <1>2, <1>3 DEF RegistryMove

(* Theorem: once an execution is cancelling, neither a deadline nor a      *)
(* Ctrl+C changes what it is recorded to have ended of (finish_after_wait, *)
(* request_timeout).                                                       *)
THEOREM FirstCauseAlwaysWins == Spec => FirstCauseWins
<1>1. Sound /\ [Next]_vars => FirstCauseStep
  BY RegistryStep, MoveKeepsCause
<1>2. Init => Sound
  BY InitTyped, InitOwnership, InitAgreement, InitPolicies DEF Sound
<1>3. Sound /\ [Next]_vars => Sound'
  BY StepTyped, StepOwnership, StepAgreement, StepPolicies DEF Sound
<1>4. [FirstCauseStep]_vars <=> (FirstCauseStep \/ UNCHANGED vars)
  OBVIOUS
<1> QED
  BY <1>1, <1>2, <1>3, PTL DEF Spec, FirstCauseWins, FirstCauseStep

-----------------------------------------------------------------------------
(* The refinement.  PhaseIn is PhaseOf of any registry: st, n and h stand  *)
(* for the states, the next id and the history.                            *)

PhaseIn(st, n, h, id) ==
  IF st[id] # "absent" THEN st[id]
  ELSE IF id >= n THEN "unborn"
  ELSE IF {i \in 1..Len(h) : h[i].id = id} # {}
       THEN h[CHOOSE i \in {i \in 1..Len(h) : h[i].id = id} : TRUE].state
  ELSE "forgotten"

LEMMA PhaseOfNow ==
  \A id \in ExecutionId : PhaseOf(id) = PhaseIn(state, next_id, history, id)
BY DEF PhaseOf, PhaseIn, Recorded

LEMMA PhaseOfNext ==
  \A id \in ExecutionId : PhaseOf(id)' = PhaseIn(state', next_id', history', id)
BY DEF PhaseOf, PhaseIn, Recorded

OneRecordEach(h) == \A j, k \in 1..Len(h) : h[j].id = h[k].id => j = k

LEMMA RegistryHasOneRecordEach == RegistryConsistent => OneRecordEach(history)
BY DEF RegistryConsistent, OneRecordEach

(* With one record for each id, the phase is its state.                    *)
LEMMA PhaseRecorded ==
  ASSUME NEW st, NEW n, NEW h, NEW id, OneRecordEach(h),
         st[id] = "absent", ~(id >= n)
  PROVE  \A i \in 1..Len(h) : h[i].id = id => PhaseIn(st, n, h, id) = h[i].state
<1> SUFFICES ASSUME NEW i \in 1..Len(h), h[i].id = id
             PROVE  PhaseIn(st, n, h, id) = h[i].state
  OBVIOUS
<1>1. {j \in 1..Len(h) : h[j].id = id} = {i}
  BY DEF OneRecordEach
<1>2. (CHOOSE j \in {i} : TRUE) = i
  OBVIOUS
<1> QED
  BY <1>1, <1>2 DEF PhaseIn

LEMMA PhaseForgotten ==
  ASSUME NEW st, NEW n, NEW h, NEW id, \A i \in 1..Len(h) : h[i].id # id,
         st[id] = "absent", ~(id >= n)
  PROVE  PhaseIn(st, n, h, id) = "forgotten"
<1>1. {i \in 1..Len(h) : h[i].id = id} = {}
  OBVIOUS
<1> QED
  BY <1>1 DEF PhaseIn

PhaseStep(id) ==
  LET before == PhaseIn(state, next_id, history, id)
      after  == PhaseIn(state', next_id', history', id)
  IN  after = before \/ <<before, after>> \in Lifecycle!Step

LEMMA StepTable ==
  /\ Advance \subseteq Lifecycle!Step
  /\ <<"unborn", "Created">> \in Lifecycle!Step
  /\ \A p \in Terminal \cup {"Running", "Cancelling"} :
       <<p, "forgotten">> \in Lifecycle!Step
  /\ <<"Starting", "Failed">> \in Lifecycle!Step
  /\ \A f \in {"Completed", "Failed"} : <<"Running", f>> \in Lifecycle!Step
  /\ \A f \in {"Cancelled", "TimedOut"} : <<"Cancelling", f>> \in Lifecycle!Step
BY DEF Advance, Terminal, Lifecycle!Step, Lifecycle!CanTransitionTo, Lifecycle!Forget,
       Lifecycle!Terminal

LEMMA GoOnRefines ==
  ASSUME Sound, RegistryConsistent, GoOn, NEW id \in ExecutionId
  PROVE  PhaseStep(id)
<1>t. /\ state \in [ExecutionId -> NonTerminal \cup {"absent"}]
      /\ next_id' = next_id /\ history' = history /\ GoesOn(id)
  BY DEF Sound, Typed, TypeOK, GoOn
<1>1. CASE state'[id] = state[id]
  BY <1>t, <1>1 DEF PhaseStep, PhaseIn
<1>2. CASE <<state[id], state'[id]>> \in Advance
  <2>1. state[id] # "absent" /\ state'[id] # "absent"
    BY <1>2 DEF Advance
  <2> QED
    BY <1>2, <2>1, StepTable DEF PhaseStep, PhaseIn
<1>3. CASE state[id] \in {"Running", "Cancelling"} /\ state'[id] = "absent"
  <2>1. PhaseIn(state, next_id, history, id) = state[id]
    BY <1>3 DEF PhaseIn
  <2>2. ~(id >= next_id)
    BY <1>3 DEF RegistryConsistent
  <2>3. \A i \in 1..Len(history) : history[i].id # id
    BY <1>3 DEF RegistryConsistent
  <2>4. PhaseIn(state', next_id', history', id) = "forgotten"
    BY <1>t, <1>3, <2>2, <2>3, PhaseForgotten
  <2> QED
    BY <1>3, <2>1, <2>4, StepTable DEF PhaseStep
<1> QED
  BY <1>t, <1>1, <1>2, <1>3 DEF GoesOn

LEMMA CreatesRefines ==
  ASSUME Sound, RegistryConsistent, NEW c \in ExecutionId, Creates(c),
         NEW id \in ExecutionId
  PROVE  PhaseStep(id)
<1>t. /\ state \in [ExecutionId -> NonTerminal \cup {"absent"}]
      /\ next_id \in Nat /\ c = next_id /\ next_id' = next_id + 1
      /\ state' = [state EXCEPT ![c] = "Created"] /\ history' = history
  BY BoundsAssumption DEF Sound, Typed, TypeOK, Creates
<1>1. CASE id = c
  <2>1. state[id] = "absent" /\ id >= next_id
    BY <1>t, <1>1 DEF RegistryConsistent, ExecutionId
  <2>2. PhaseIn(state, next_id, history, id) = "unborn"
    BY <2>1 DEF PhaseIn
  <2>3. PhaseIn(state', next_id', history', id) = "Created"
    BY <1>t, <1>1 DEF PhaseIn
  <2> QED
    BY <2>2, <2>3, StepTable DEF PhaseStep
<1>2. CASE id # c
  <2>1. state'[id] = state[id] /\ (id >= next_id' <=> id >= next_id)
    BY <1>t, <1>2 DEF ExecutionId
  <2> QED
    BY <1>t, <2>1 DEF PhaseStep, PhaseIn
<1> QED
  BY <1>1, <1>2

(* The one that ends gets its record, or is forgotten at once if no        *)
(* history is kept; another one may lose its record.                       *)
LEMMA EndsRefines ==
  ASSUME HistoryLimit # 0, Sound, RegistryConsistent, RegistryConsistent',
         NEW c \in ExecutionId, Ends(c), NEW id \in ExecutionId
  PROVE  PhaseStep(id)
<1>1. PICK final \in Terminal, recorded \in SUBSET Stage :
             Retire(c, final, recorded) /\ MayEnd(c, final)
  BY DEF Ends
<1> DEFINE r == [id |-> c, state |-> final,
                 processes |-> processes[c], exited |-> recorded]
<1>2. PICK d \in {0, 1} : Shifted(history', history, r, d)
  BY <1>1, NewestRecord DEF Sound
<1>3. r.id = c /\ r.state = final
  OBVIOUS
<1> HIDE DEF r
<1>t. /\ state \in [ExecutionId -> NonTerminal \cup {"absent"}]
      /\ next_id' = next_id
      /\ state' = [state EXCEPT ![c] = "absent"]
      /\ history \in Seq(ExecutionRecord)
  BY <1>1 DEF Sound, Typed, TypeOK, Ends, Retire
<1>l. /\ Len(history) \in Nat /\ Len(history') \in Nat
      /\ Len(history') = Len(history) + 1 - d
      /\ \A i \in 1..Len(history') :
           history'[i] = IF i + d <= Len(history) THEN history[i + d] ELSE r
  BY <1>1, <1>2, <1>t, NewestRecord DEF Sound, Shifted
<1>m. state[c] \in {"Starting", "Running", "Cancelling"}
  BY <1>1 DEF MayEnd
<1>u. OneRecordEach(history) /\ OneRecordEach(history')
  BY DEF RegistryConsistent, OneRecordEach
<1>4. CASE id = c
  <2>1. PhaseIn(state, next_id, history, id) = state[c]
    BY <1>4, <1>m DEF PhaseIn
  <2>2. state'[id] = "absent" /\ ~(id >= next_id')
    BY <1>t, <1>4, <1>m DEF RegistryConsistent
  <2>3. Len(history') \in 1..Len(history')
    <3>1. CASE d = 0
      BY <1>l, <3>1
    <3>2. CASE d = 1
      <4>1. Trim(Append(history, r)) = history'
        BY <1>1 DEF Retire, r
      <4>2. Len(Append(history, r)) = Len(history) + 1
        BY <1>t
      <4>3. Len(history) + 1 > HistoryLimit
        <5>1. CASE ~(Len(history) + 1 > HistoryLimit)
          <6>1. history' = Append(history, r)
            BY <4>1, <4>2, <5>1 DEF Trim
          <6> QED
            BY <1>l, <3>2, <4>2, <6>1
        <5> QED
          BY <5>1
      <4> QED
        BY <1>l, <3>2, <4>3, BoundsAssumption
    <3> QED
      BY <3>1, <3>2
  <2>4. history'[Len(history')] = r
    BY <1>l, <2>3
  <2>5. PhaseIn(state', next_id', history', id) = final
    <3> DEFINE i == Len(history')
    <3>1. history'[i].id = id /\ history'[i].state = final
      BY <1>3, <1>4, <2>4
    <3> HIDE DEF i
    <3>2. i \in 1..Len(history')
      BY <2>3 DEF i
    <3> QED
      BY <1>u, <2>2, <3>1, <3>2, PhaseRecorded
  <2> QED
    BY <1>1, <2>1, <2>5, StepTable DEF PhaseStep, MayEnd
<1>5. CASE id # c
  <2>1. state'[id] = state[id]
    BY <1>t, <1>5
  <2>2. CASE state[id] # "absent" \/ id >= next_id
    BY <1>t, <2>1, <2>2 DEF PhaseStep, PhaseIn
  <2>3. CASE /\ state[id] = "absent" /\ ~(id >= next_id)
             /\ \E i \in 1..Len(history) : history[i].id = id
    <3>1. PICK i \in 1..Len(history) : history[i].id = id
      BY <2>3
    <3>2. PhaseIn(state, next_id, history, id) = history[i].state
      BY <1>u, <2>3, <3>1, PhaseRecorded
    <3>3. history[i].state \in Terminal
      <4>1. history[i] \in ExecutionRecord
        BY <1>t
      <4> QED
        BY <4>1 DEF ExecutionRecord
    <3>4. CASE i - d \in 1..Len(history')
      <4>1. history'[i - d] = history[i]
        BY <1>l, <3>4
      <4>2. PhaseIn(state', next_id', history', id) = history[i].state
        <5> DEFINE m == i - d
        <5>1. /\ m \in 1..Len(history') /\ history'[m] = history[i]
              /\ history'[m].id = id
              /\ state'[id] = "absent" /\ ~(id >= next_id')
          BY <1>t, <2>1, <2>3, <3>1, <3>4, <4>1
        <5> HIDE DEF m
        <5>2. PhaseIn(state', next_id', history', id) = history'[m].state
          BY <1>u, <5>1, PhaseRecorded
        <5> QED
          BY <5>1, <5>2
      <4> QED
        BY <3>2, <4>2 DEF PhaseStep
    <3>5. CASE ~(i - d \in 1..Len(history'))
      <4>1. \A j \in 1..Len(history') : history'[j].id # id
        <5> SUFFICES ASSUME NEW j \in 1..Len(history'), history'[j].id = id
                     PROVE  FALSE
          OBVIOUS
        <5>1. j + d <= Len(history) /\ history'[j] = history[j + d]
          BY <1>3, <1>5, <1>l
        <5>2. j + d \in 1..Len(history)
          BY <1>l, <5>1
        <5>3. j + d = i
          BY <1>u, <3>1, <5>1, <5>2 DEF OneRecordEach
        <5> QED
          BY <1>l, <3>5, <5>3
      <4>2. PhaseIn(state', next_id', history', id) = "forgotten"
        BY <1>t, <2>1, <2>3, <4>1, PhaseForgotten
      <4> QED
        BY <3>2, <3>3, <4>2, StepTable DEF PhaseStep
    <3> QED
      BY <3>4, <3>5
  <2>4. CASE /\ state[id] = "absent" /\ ~(id >= next_id)
             /\ \A i \in 1..Len(history) : history[i].id # id
    <3>1. \A j \in 1..Len(history') : history'[j].id # id
      <4> TAKE j \in 1..Len(history')
      <4>1. CASE j + d <= Len(history)
        BY <1>l, <2>4, <4>1
      <4>2. CASE ~(j + d <= Len(history))
        BY <1>3, <1>5, <1>l, <4>2
      <4> QED
        BY <4>1, <4>2
    <3>2. PhaseIn(state', next_id', history', id) = "forgotten"
      BY <1>t, <2>1, <2>4, <3>1, PhaseForgotten
    <3>3. PhaseIn(state, next_id, history, id) = "forgotten"
      BY <2>4, PhaseForgotten
    <3> QED
      BY <3>2, <3>3 DEF PhaseStep
  <2> QED
    BY <2>2, <2>3, <2>4
<1> QED
  BY <1>4, <1>5

(* Every phase is one of the abstract specification's.                     *)
PhasesTyped == \A id \in ExecutionId : PhaseOf(id) \in Lifecycle!Phase

LEMMA PhaseTyped == Typed /\ RegistryConsistent => PhasesTyped
<1> SUFFICES ASSUME Typed, RegistryConsistent, NEW id \in ExecutionId
             PROVE  PhaseOf(id) \in Lifecycle!Phase
  BY DEF PhasesTyped
<1>t. /\ state \in [ExecutionId -> NonTerminal \cup {"absent"}]
      /\ history \in Seq(ExecutionRecord)
  BY DEF Typed, TypeOK
<1> USE DEF Lifecycle!Phase, Lifecycle!Active, Lifecycle!Terminal
<1>1. CASE state[id] # "absent"
  BY <1>t, <1>1 DEF PhaseOf, NonTerminal
<1>2. CASE state[id] = "absent" /\ id >= next_id
  BY <1>2 DEF PhaseOf
<1>3. CASE /\ state[id] = "absent" /\ ~(id >= next_id)
           /\ \E i \in 1..Len(history) : history[i].id = id
  <2>1. PICK i \in 1..Len(history) : history[i].id = id
    BY <1>3
  <2>2. PhaseIn(state, next_id, history, id) = history[i].state
    BY <1>3, <2>1, PhaseRecorded, RegistryHasOneRecordEach
  <2>3. history[i] \in ExecutionRecord
    BY <1>t
  <2> QED
    BY <2>2, <2>3, PhaseOfNow DEF ExecutionRecord, Terminal
<1>4. CASE /\ state[id] = "absent" /\ ~(id >= next_id)
           /\ \A i \in 1..Len(history) : history[i].id # id
  BY <1>4, PhaseForgotten, PhaseOfNow
<1> QED
  BY <1>1, <1>2, <1>3, <1>4

LEMMA InitRefines == Init => Lifecycle!Init
<1> SUFFICES ASSUME Init PROVE Lifecycle!Init
  OBVIOUS
<1>1. \A id \in ExecutionId : PhaseOf(id) = "unborn"
  BY DEF Init, PhaseOf, ExecutionId
<1> QED
  BY <1>1 DEF Lifecycle!Init

LEMMA StepRefines ==
  ASSUME HistoryLimit # 0, Sound, RegistryConsistent, RegistryConsistent',
         PhasesTyped', [Next]_vars
  PROVE  Lifecycle!Next
<1>1. \A id \in ExecutionId : PhaseStep(id)
  BY RegistryStep, GoOnRefines, CreatesRefines, EndsRefines DEF RegistryMove
<1>2. \A id \in ExecutionId :
        PhaseOf(id)' = PhaseOf(id) \/ <<PhaseOf(id), PhaseOf(id)'>> \in Lifecycle!Step
  BY <1>1, PhaseOfNow, PhaseOfNext DEF PhaseStep
<1>3. \A id \in ExecutionId : PhaseOf(id)' \in Lifecycle!Phase
  BY DEF PhasesTyped
<1> QED
  BY <1>2, <1>3 DEF Lifecycle!Next

(* Theorem: what exec list and exec show report of every execution is a    *)
(* behaviour of the documented lifecycle, when a history is kept.          *)
THEOREM LifecycleImplemented ==
  ASSUME HistoryLimit # 0
  PROVE  Spec => ImplementsLifecycle
<1> DEFINE Inv == Sound /\ RegistryConsistent /\ PhasesTyped
<1>1. Init => Inv
  BY InitTyped, InitOwnership, InitAgreement, InitPolicies, InitRegistry, PhaseTyped
  DEF Sound
<1>2. Sound /\ RegistryConsistent /\ [Next]_vars => Sound' /\ RegistryConsistent'
  BY StepTyped, StepOwnership, StepAgreement, StepPolicies, StepRegistry DEF Sound
<1>3. Sound /\ RegistryConsistent => PhasesTyped
  BY PhaseTyped DEF Sound
<1>4. /\ Sound /\ RegistryConsistent /\ RegistryConsistent' /\ PhasesTyped'
      /\ [Next]_vars
      => Lifecycle!Next
  BY StepRefines
<1> QED
  BY <1>1, <1>2, <1>3, <1>4, InitRefines, PTL
  DEF Spec, ImplementsLifecycle, Lifecycle!Spec

-----------------------------------------------------------------------------
(* Handles, process records and Job Objects.  Between two critical         *)
(* sections of a launch a child has a handle and no record; later it may   *)
(* have a record and no handle.  It always has one of them while it runs   *)
(* in the Job Object.                                                      *)

HandedOver(id) == owner[id] \in {"manager"} \cup Waiters

Accounted(id) ==
  /\ \A k \in children[id] : k <= spec[id].stages
  /\ pc[id] \in {"idle", "created", "starting"}
       => children[id] = {} /\ processes[id] = {}
  /\ pc[id] \in {"building", "spawned", "assigned"}
       => processes[id] \subseteq children[id]
  /\ pc[id] \in {"building", "waiting"} \/ HandedOver(id)
       => children[id] \subseteq processes[id]
  /\ id >= next_id => pc[id] = "idle"
  /\ HandedOver(id) => pc[id] = "done"
  /\ \A k \in job[id] : os[id][k] = "running"
                         => k \in children[id] \cup processes[id]
AllAccounted == \A id \in ExecutionId : Accounted(id)

LEMMA InitAccounted == Init => AllAccounted
BY WaitersAssumption DEF Init, AllAccounted, Accounted, HandedOver

(* An execution that ends leaves nothing to account for.                   *)
LEMMA RetiredAccounted ==
  ASSUME Typed, AllAccounted, NEW c \in ExecutionId, NEW final, NEW recorded,
         Retire(c, final, recorded), Release(c), UNCHANGED <<next_id, spec>>,
         \/ pc' = pc /\ HandedOver(c)
         \/ pc' = [pc EXCEPT ![c] = "done"] /\ pc[c] # "idle",
         \A id \in ExecutionId, k \in Stage :
           os'[id][k] = "running" => os[id][k] = "running"
  PROVE  AllAccounted'
<1> SUFFICES ASSUME NEW id \in ExecutionId PROVE Accounted(id)'
  BY DEF AllAccounted
<1>t. /\ pc'[c] = "done" /\ pc[c] # "idle" /\ owner'[c] = "none"
      /\ children'[c] = {} /\ job'[c] = {}
      /\ "none" \notin {"manager"} \cup Waiters
  BY WaitersAssumption DEF AllAccounted, Accounted, Typed, TypeOK, Retire, Release
<1>1. CASE id = c
  BY <1>1, <1>t DEF AllAccounted, Accounted, HandedOver
<1>2. CASE id # c
  <2>1. /\ children'[id] = children[id] /\ processes'[id] = processes[id]
        /\ job'[id] = job[id] /\ pc'[id] = pc[id] /\ owner'[id] = owner[id]
        /\ job[id] \subseteq Stage
    BY <1>2 DEF Typed, TypeOK, Retire, Release
  <2> QED
    BY <1>2, <2>1 DEF AllAccounted, Accounted, HandedOver
<1> QED
  BY <1>1, <1>2

LEMMA StepAccounted ==
  Typed /\ Ownership /\ Agreement /\ AllAccounted /\ [Next]_vars => AllAccounted'
<1> SUFFICES ASSUME Typed, Ownership, Agreement, AllAccounted, [Next]_vars
             PROVE  AllAccounted'
  OBVIOUS
<1> USE DEF AllAccounted, Accounted, HandedOver
<1>t. /\ children \in [ExecutionId -> SUBSET Stage]
      /\ processes \in [ExecutionId -> SUBSET Stage]
      /\ job \in [ExecutionId -> SUBSET Stage]
      /\ os \in [ExecutionId -> [Stage -> OsState]]
      /\ spec \in [ExecutionId -> ExecutionSpec]
      /\ owner \in [ExecutionId -> {"none", "runner", "manager"} \cup Waiters]
      /\ pc \in [ExecutionId -> {"idle", "created", "starting", "building",
                                 "spawned", "assigned", "waiting", "done"}]
      /\ next_id \in Nat /\ ExecutionId \subseteq Nat
      /\ Waiters \cap {"none", "runner", "manager"} = {}
  BY BoundsAssumption, WaitersAssumption DEF Typed, TypeOK, ExecutionId
<1>o. \A id \in ExecutionId :
        /\ owner[id] = "runner" <=> pc[id] \in Launching
        /\ pc[id] = "starting" => ~Pipeline(id)
        /\ pc[id] = "building" => Pipeline(id)
  BY DEF Ownership, HolderKnowsPlace, Agreement, LaunchPathByKind
<1>1. ASSUME NEW id \in ExecutionId, NEW s \in Launches[id],
             Create(id, s)
      PROVE  AllAccounted'
  BY <1>1, <1>t, <1>o DEF Create, Launching
<1>2. ASSUME NEW id \in ExecutionId, StartExternal(id)
      PROVE  AllAccounted'
  BY <1>2, <1>t, <1>o DEF StartExternal, Launching
<1>3. ASSUME NEW id \in ExecutionId, BeginPipeline(id)
      PROVE  AllAccounted'
  BY <1>3, <1>t, <1>o DEF BeginPipeline, Launching
<1>4. ASSUME NEW id \in ExecutionId, SpawnFails(id)
      PROVE  AllAccounted'
  BY <1>4, <1>t, <1>o, RetiredAccounted
  DEF SpawnFails, Launching
<1>5. ASSUME NEW id \in ExecutionId, NEW k \in Stage, Spawn(id, k)
      PROVE  AllAccounted'
  BY <1>5, <1>t, <1>o DEF Spawn, registry, Launching
<1>6. ASSUME NEW id \in ExecutionId, NEW k \in Stage, AssignJob(id, k)
      PROVE  AllAccounted'
  BY <1>6, <1>t, <1>o DEF AssignJob, Launching
<1>7. ASSUME NEW id \in ExecutionId, AssignJobIgnored(id)
      PROVE  AllAccounted'
  BY <1>7, <1>t, <1>o DEF AssignJobIgnored, registry, Launching
<1>8. ASSUME NEW id \in ExecutionId, AssignJobFails(id)
      PROVE  AllAccounted'
  <2>1. /\ Retire(id, "Failed", {}) /\ Release(id)
        /\ pc' = [pc EXCEPT ![id] = "done"] /\ pc[id] # "idle"
        /\ UNCHANGED <<next_id, spec>>
    BY <1>8 DEF AssignJobFails
  <2>2. \A i \in ExecutionId, k \in Stage :
          os'[i][k] = "running" => os[i][k] = "running"
    BY <1>8, <1>t DEF AssignJobFails
  <2> QED
    BY <2>1, <2>2, RetiredAccounted
<1>9. ASSUME NEW id \in ExecutionId, RunExternal(id)
      PROVE  AllAccounted'
  BY <1>9, <1>t, <1>o DEF RunExternal, Launching
<1>10. ASSUME NEW id \in ExecutionId, RegisterStage(id)
      PROVE  AllAccounted'
  BY <1>10, <1>t, <1>o DEF RegisterStage, Launching
<1>11. ASSUME NEW id \in ExecutionId, SetupFails(id)
      PROVE  AllAccounted'
  BY <1>11, <1>t, <1>o, RetiredAccounted
  DEF SetupFails, Launching, FinishAfterWait
<1>12. ASSUME NEW id \in ExecutionId, RegisterBackgroundChildren(id)
      PROVE  AllAccounted'
  BY <1>12, <1>t, <1>o DEF RegisterBackgroundChildren, registry, Launching
<1>13. ASSUME NEW id \in ExecutionId, WaitForegroundPipeline(id)
      PROVE  AllAccounted'
  BY <1>13, <1>t, <1>o DEF WaitForegroundPipeline, registry, Launching
<1>14. ASSUME NEW id \in ExecutionId, RunnerReap(id)
      PROVE  AllAccounted'
  BY <1>14, <1>t, <1>o DEF RunnerReap, Launching
<1>15. ASSUME NEW id \in ExecutionId, RunnerReapError(id)
      PROVE  AllAccounted'
  BY <1>15, <1>t, <1>o DEF RunnerReapError, registry, Launching
<1>16. ASSUME NEW id \in ExecutionId, RunnerFinish(id)
      PROVE  AllAccounted'
  <2>1. /\ Retire(id, FinalState(id, NaturalState(verdict[id])), exited[id])
        /\ Release(id)
        /\ pc' = [pc EXCEPT ![id] = "done"] /\ pc[id] # "idle"
        /\ UNCHANGED <<next_id, spec, os>>
    BY <1>16 DEF RunnerFinish, FinishAfterWait
  <2> QED
    BY <2>1, RetiredAccounted
<1>17. ASSUME BeginObserve
      PROVE  AllAccounted'
  BY <1>17, <1>t, <1>o
  DEF BeginObserve, BeginRefresh, registry, handles, Launching
<1>18. ASSUME NEW id \in ExecutionId, NEW w \in Waiters,
             BeginWait(id, w)
      PROVE  AllAccounted'
  BY <1>18, <1>t, <1>o
  DEF BeginWait, BeginRefresh, registry, handles, Launching
<1>19. ASSUME NEW id \in ExecutionId, BeginCancel(id)
      PROVE  AllAccounted'
  BY <1>19, <1>t, <1>o
  DEF BeginCancel, BeginRefresh, registry, handles, Launching
<1>20. ASSUME NEW id \in lock.todo, NEW failed \in SUBSET Stage,
             RefreshJob(id, failed)
      PROVE  AllAccounted'
  <2> DEFINE left == children[id] \ (Reaped(id, failed) \cup failed)
  <2>1. id \in ExecutionId /\ owner[id] = "manager"
    BY DEF Ownership, RefreshesManaged, Typed, TypeOK
  <2>2. UNCHANGED <<next_id, spec, pc, os>> /\ left \subseteq children[id]
    BY <1>20 DEF RefreshJob
  <2>3. CASE left = {}
    <3>1. \E final, recorded : Retire(id, final, recorded)
      BY <1>20, <2>3 DEF RefreshJob, FinishAfterWait
    <3>2. Release(id)
      BY <1>20, <2>3 DEF RefreshJob
    <3> QED
      BY <2>1, <2>2, <3>1, <3>2, RetiredAccounted
  <2>4. CASE left # {}
    <3>1. /\ children' = [children EXCEPT ![id] = left]
          /\ UNCHANGED <<processes, job, owner>>
      BY <1>20, <2>4 DEF RefreshJob
    <3> HIDE DEF left
    <3> QED
      BY <1>t, <2>1, <2>2, <3>1
  <2> QED
    BY <2>3, <2>4
<1>21. ASSUME Observe
      PROVE  AllAccounted'
  BY <1>21, <1>t, <1>o DEF Observe, registry, handles, Launching
<1>22. ASSUME TakeChildren
      PROVE  AllAccounted'
  <2>1. lock.id \in ExecutionId /\ owner[lock.id] = "manager" /\ lock.waiter \in Waiters
    BY <1>22 DEF TakeChildren, Managed, Typed
  <2>2. owner' = [owner EXCEPT ![lock.id] = lock.waiter]
    BY <1>22 DEF TakeChildren
  <2>3. \A id \in ExecutionId : HandedOver(id)' <=> HandedOver(id)
    BY <1>t, <2>1, <2>2
  <2> QED
    BY <1>22, <2>3 DEF TakeChildren, registry
<1>23. ASSUME NothingToTake
      PROVE  AllAccounted'
  BY <1>23, <1>t, <1>o DEF NothingToTake, registry, handles, Launching
<1>24. ASSUME RequestCancellation
      PROVE  AllAccounted'
  BY <1>24, <1>t, <1>o DEF RequestCancellation, handles, Launching
<1>25. ASSUME CancellationRefused
      PROVE  AllAccounted'
  BY <1>25, <1>t, <1>o DEF CancellationRefused, registry, handles, Launching
<1>26. ASSUME NEW w \in Waiters, WaitBackgroundJobs(w)
      PROVE  AllAccounted'
  <2>1. owner' = [id \in ExecutionId |-> IF Managed(id) THEN w ELSE owner[id]]
    BY <1>26 DEF WaitBackgroundJobs
  <2>2. \A id \in ExecutionId : HandedOver(id)' <=> HandedOver(id)
    BY <1>t, <2>1 DEF Managed
  <2> QED
    BY <1>26, <2>2 DEF WaitBackgroundJobs, registry
<1>27. ASSUME NEW w \in Waiters, NEW id \in ExecutionId, PickJob(w, id)
      PROVE  AllAccounted'
  BY <1>27, <1>t, <1>o DEF PickJob, registry, Launching
<1>28. ASSUME NEW w \in Waiters, WaiterReap(w)
      PROVE  AllAccounted'
  <2>1. current[w] \in ExecutionId /\ owner[current[w]] = w
    BY <1>28 DEF WaiterReap, Ownership, LoopsHoldTheirJob, Typed, TypeOK
  <2>2. PICK k \in Stage : /\ children' = [children EXCEPT ![current[w]] =
                                           children[current[w]] \ {k}]
                           /\ Exited(current[w], k)
    BY <1>28 DEF WaiterReap
  <2>3. UNCHANGED <<next_id, spec, processes, job, owner, pc, os>>
    BY <1>28 DEF WaiterReap
  <2> QED
    BY <1>t, <2>1, <2>2, <2>3 DEF Exited
<1>29. ASSUME NEW w \in Waiters, WaiterReapError(w)
      PROVE  AllAccounted'
  <2>1. current[w] \in ExecutionId /\ owner[current[w]] = w
    BY <1>29 DEF WaiterReapError, Ownership, LoopsHoldTheirJob, Typed, TypeOK
  <2>2. PICK k \in Stage : /\ children' = [children EXCEPT ![current[w]] =
                                           children[current[w]] \ {k}]
                           /\ NextChild(current[w], k)
    BY <1>29 DEF WaiterReapError
  <2>3. UNCHANGED <<next_id, spec, processes, job, owner, pc, os>>
    BY <1>29 DEF WaiterReapError, registry
  <2> QED
    BY <1>t, <2>1, <2>2, <2>3 DEF NextChild
<1>30. ASSUME NEW w \in Waiters, WaiterFinish(w)
      PROVE  AllAccounted'
  <2> DEFINE id == current[w]
  <2>1. /\ Retire(id, FinalState(id, NaturalState(verdict[id])), exited[id])
        /\ Release(id)
        /\ UNCHANGED <<next_id, spec, pc, os>>
    BY <1>30 DEF WaiterFinish, FinishAfterWait
  <2>2. id \in ExecutionId /\ owner[id] = w
    BY <1>30 DEF WaiterFinish, Ownership, LoopsHoldTheirJob, Typed, TypeOK
  <2> HIDE DEF id
  <2> QED
    BY <2>1, <2>2, RetiredAccounted
<1>31. ASSUME NEW pids \in SUBSET ManagedProcesses, Disown(pids)
      PROVE  AllAccounted'
  <2> DEFINE removed(id) == IF Managed(id)
                            THEN {k \in children[id] : <<id, k>> \in pids} ELSE {}
             empty(id) == Managed(id) /\ children[id] \subseteq removed(id)
  <2>1. /\ children' = [id \in ExecutionId |-> children[id] \ removed(id)]
        /\ processes' = [id \in ExecutionId |-> processes[id] \ removed(id)]
        /\ job' = [id \in ExecutionId |->
                     IF LosesJob(removed(id), empty(id)) THEN {} ELSE job[id]]
        /\ owner' = [id \in ExecutionId |-> IF empty(id) THEN "none" ELSE owner[id]]
        /\ UNCHANGED <<next_id, spec, pc, os>>
    BY <1>31 DEF Disown
  <2>2. \A id \in ExecutionId : removed(id) # {} => owner[id] = "manager"
    BY DEF Managed
  <2> SUFFICES ASSUME NEW id \in ExecutionId PROVE Accounted(id)'
    BY DEF AllAccounted
  <2> HIDE DEF removed, empty
  <2>3. CASE removed(id) = {}
    <3>1. /\ children'[id] = children[id] /\ processes'[id] = processes[id]
          /\ job'[id] = {} \/ job'[id] = job[id]
          /\ owner'[id] = "none" \/ owner'[id] = owner[id]
      BY <1>t, <2>1, <2>3
    <3> QED
      BY <1>t, <2>1, <3>1
  <2>4. CASE removed(id) # {}
    <3>1. job'[id] = {} /\ (owner'[id] = "none" \/ owner'[id] = owner[id])
      BY <2>1, <2>4 DEF LosesJob
    <3>2. children'[id] = children[id] \ removed(id) /\ processes'[id] = processes[id] \ removed(id)
      BY <2>1
    <3> QED
      BY <1>t, <1>o, <2>1, <2>2, <2>4, <3>1, <3>2 DEF Launching
  <2> QED
    BY <2>3, <2>4
<1>32. ASSUME RequestForegroundCancellation
      PROVE  AllAccounted'
  BY <1>32, <1>t, <1>o DEF RequestForegroundCancellation, handles, Launching
<1>33. ASSUME NEW id \in timers, RequestTimeout(id)
      PROVE  AllAccounted'
  BY <1>33, <1>t, <1>o DEF RequestTimeout, handles, Launching
<1>34. ASSUME NEW id \in timers, TimeoutTooLate(id)
      PROVE  AllAccounted'
  BY <1>34, <1>t, <1>o DEF TimeoutTooLate, registry, handles, Launching
<1>35. ASSUME NEW ids \in graces, EscalateCancellation(ids)
      PROVE  AllAccounted'
  BY <1>35, <1>t, <1>o DEF EscalateCancellation, registry, handles, Launching
<1>36. ASSUME NEW id \in ExecutionId, NEW k \in Stage, ProcessExits(id, k)
      PROVE  AllAccounted'
  BY <1>36, <1>t, <1>o DEF ProcessExits, registry, handles, Launching
<1>37. CASE UNCHANGED vars
  BY <1>37, <1>t, <1>o
  DEF vars, registry, handles, signalling, Launching
<1> QED
  BY <1>1, <1>2, <1>3, <1>4, <1>5, <1>6, <1>7, <1>8, <1>9, <1>10, <1>11,
  <1>12, <1>13, <1>14, <1>15, <1>16, <1>17, <1>18, <1>19, <1>20, <1>21, <1>22,
  <1>23, <1>24, <1>25, <1>26, <1>27, <1>28, <1>29, <1>30, <1>31, <1>32, <1>33,
  <1>34, <1>35, <1>36, <1>37
  DEF Next, RunnerStep, LockedStep, WaiterStep, SignalStep

-----------------------------------------------------------------------------
(* The status of the final stage.  Of the executions the property is about *)
(* it is still to be waited for, or it was the last one waited for.        *)

SingleResult(id) == Foreground(id) \/ spec[id].stages <= 1
Succeeded(id, recorded) ==
  FinalStage(id) \in recorded /\ os[id][FinalStage(id)] = "ok"

FinalPending(id) ==
  /\ SingleResult(id)
  /\ FinalStage(id) \in processes[id]
  /\ pc[id] = "waiting" \/ HandedOver(id)
  => \/ FinalStage(id) \in children[id]
     \/ /\ children[id] = {}
        /\ owner[id] # "manager"
        /\ verdict[id] = "success" => Succeeded(id, exited[id])
AllPending == \A id \in ExecutionId : FinalPending(id)

LEMMA InitPending == Init => AllPending
BY WaitersAssumption DEF Init, AllPending, FinalPending, HandedOver

(* All that a step may do to the processes and to the history.             *)
ProcessMoves ==
  \A id \in ExecutionId, k \in Stage :
    \/ os'[id][k] = os[id][k]
    \/ os[id][k] = "unborn" /\ os'[id][k] = "running"
    \/ os[id][k] = "running" /\ os'[id][k] \in {"ok", "bad"}
    \/ /\ os[id][k] = "running" /\ os'[id][k] = "terminated"
       /\ state[id] = "Cancelling" /\ k \in job[id]

Concludes(id, final, recorded) ==
  /\ Retire(id, final, recorded)
  /\ /\ final = "Completed" /\ SingleResult(id)
     /\ FinalStage(id) \in processes[id]
     => Succeeded(id, recorded)

HistoryMoves ==
  \/ UNCHANGED history
  \/ \E id \in ExecutionId, final \in Terminal, recorded \in SUBSET Stage :
       Concludes(id, final, recorded)

LEMMA Quiet == UNCHANGED <<os, history>> => ProcessMoves /\ HistoryMoves
BY DEF ProcessMoves, HistoryMoves

(* What a wait loop reports of its last child.                             *)
LEMMA WaitConcludes ==
  ASSUME Typed, NEW id \in ExecutionId, AllPending, children[id] = {},
         pc[id] = "waiting" \/ HandedOver(id), owner[id] # "manager",
         FinishAfterWait(id, NaturalState(verdict[id]), exited[id])
  PROVE  HistoryMoves
<1> DEFINE final == FinalState(id, NaturalState(verdict[id]))
<1>1. final \in Terminal /\ (final = "Completed" => verdict[id] = "success")
  BY DEF FinalState, NaturalState, Terminal
<1>2. Retire(id, final, exited[id]) /\ exited[id] \in SUBSET Stage
  BY DEF FinishAfterWait, Typed, TypeOK
<1>3. FinalPending(id)
  BY DEF AllPending
<1> HIDE DEF final
<1>4. Concludes(id, final, exited[id])
  BY <1>1, <1>2, <1>3 DEF Concludes, FinalPending
<1> QED
  BY <1>1, <1>2, <1>4 DEF HistoryMoves

(* A managed execution of one process: the refresh that finds it finished  *)
(* reports its status.                                                     *)
LEMMA RefreshConcludes ==
  ASSUME Typed, NEW id \in ExecutionId, AllPending, AllAccounted,
         owner[id] = "manager", ~Foreground(id),
         NEW failed \in SUBSET Stage, failed \subseteq children[id],
         children[id] \ (Reaped(id, failed) \cup failed) = {},
         FinishAfterWait(id, NaturalState(RefreshVerdict(id, failed)),
                         exited[id] \cup Reaped(id, failed))
  PROVE  HistoryMoves
<1> DEFINE final == FinalState(id, NaturalState(RefreshVerdict(id, failed)))
           recorded == exited[id] \cup Reaped(id, failed)
<1>1. /\ final \in Terminal
      /\ final = "Completed" => RefreshVerdict(id, failed) = "success"
  BY DEF FinalState, NaturalState, Terminal
<1>2. Retire(id, final, recorded) /\ recorded \in SUBSET Stage
  BY DEF FinishAfterWait, Reaped, Typed, TypeOK
<1>3. ASSUME RefreshVerdict(id, failed) = "success", SingleResult(id),
             FinalStage(id) \in processes[id]
      PROVE  Succeeded(id, recorded)
  <2> DEFINE S == FinalStage(id)
  <2>1. S \in children[id]
    BY <1>3 DEF AllPending, FinalPending, HandedOver
  <2>2. \A k \in children[id] : k = S
    <3>1. S \in 1..MaxStages /\ S <= 1
      BY <1>3 DEF SingleResult, FinalStage, Typed, TypeOK, Stage
    <3>2. \A k \in children[id] : k \in 1..MaxStages /\ k <= S
      BY DEF AllAccounted, Accounted, FinalStage, Typed, TypeOK, Stage
    <3> QED
      BY <3>1, <3>2, BoundsAssumption
  <2>3. failed = {} /\ S \in Reaped(id, failed)
    BY <1>3, <2>1 DEF RefreshVerdict
  <2>4. \A j \in Reaped(id, failed) : j = S
    BY <2>2 DEF Reaped
  <2>5. ~(S > S)
    BY <1>3 DEF FinalStage, Typed, TypeOK, Stage
  <2>6. os[id][S] = "ok"
    BY <1>3, <2>3, <2>4, <2>5 DEF RefreshVerdict
  <2> QED
    BY <2>3, <2>6 DEF Succeeded
<1> HIDE DEF final, recorded
<1>4. Concludes(id, final, recorded)
  BY <1>1, <1>2, <1>3 DEF Concludes
<1> QED
  BY <1>1, <1>2, <1>4 DEF HistoryMoves

LEMMA StepMoves ==
  /\ Typed /\ Ownership /\ AllAccounted /\ AllPending /\ [Next]_vars
  => ProcessMoves /\ HistoryMoves
<1> SUFFICES ASSUME Typed, Ownership, AllAccounted, AllPending, [Next]_vars
             PROVE  ProcessMoves /\ HistoryMoves
  OBVIOUS
<1>t. /\ os \in [ExecutionId -> [Stage -> OsState]]
      /\ exited \in [ExecutionId -> SUBSET Stage]
      /\ {} \in SUBSET Stage /\ "Failed" \in Terminal
  BY DEF Typed, TypeOK, Terminal
<1>1. ASSUME NEW id \in ExecutionId, NEW s \in Launches[id],
             Create(id, s)
      PROVE  ProcessMoves /\ HistoryMoves
  BY <1>1, Quiet DEF Create
<1>2. ASSUME NEW id \in ExecutionId, StartExternal(id)
      PROVE  ProcessMoves /\ HistoryMoves
  BY <1>2, Quiet DEF StartExternal
<1>3. ASSUME NEW id \in ExecutionId, BeginPipeline(id)
      PROVE  ProcessMoves /\ HistoryMoves
  BY <1>3, Quiet DEF BeginPipeline
<1>4. ASSUME NEW id \in ExecutionId, SpawnFails(id)
      PROVE  ProcessMoves /\ HistoryMoves
  <2>1. Retire(id, "Failed", {}) /\ UNCHANGED os
    BY <1>4 DEF SpawnFails
  <2>2. Concludes(id, "Failed", {}) /\ {} \in SUBSET Stage
    BY <1>t, <2>1 DEF Concludes
  <2> QED
    BY <1>t, <2>1, <2>2 DEF ProcessMoves, HistoryMoves
<1>5. ASSUME NEW id \in ExecutionId, NEW k \in Stage, Spawn(id, k)
      PROVE  ProcessMoves /\ HistoryMoves
  BY <1>5, <1>t DEF Spawn, registry, ProcessMoves, HistoryMoves
<1>6. ASSUME NEW id \in ExecutionId, NEW k \in Stage, AssignJob(id, k)
      PROVE  ProcessMoves /\ HistoryMoves
  BY <1>6, Quiet DEF AssignJob
<1>7. ASSUME NEW id \in ExecutionId, AssignJobIgnored(id)
      PROVE  ProcessMoves /\ HistoryMoves
  BY <1>7, Quiet DEF AssignJobIgnored, registry
<1>8. ASSUME NEW id \in ExecutionId, AssignJobFails(id)
      PROVE  ProcessMoves /\ HistoryMoves
  <2>1. Retire(id, "Failed", {})
    BY <1>8 DEF AssignJobFails
  <2>2. Concludes(id, "Failed", {})
    BY <2>1 DEF Concludes
  <2>3. ProcessMoves
    BY <1>8, <1>t DEF AssignJobFails, ProcessMoves
  <2> QED
    BY <1>t, <2>2, <2>3 DEF HistoryMoves
<1>9. ASSUME NEW id \in ExecutionId, RunExternal(id)
      PROVE  ProcessMoves /\ HistoryMoves
  BY <1>9, Quiet DEF RunExternal
<1>10. ASSUME NEW id \in ExecutionId, RegisterStage(id)
      PROVE  ProcessMoves /\ HistoryMoves
  BY <1>10, Quiet DEF RegisterStage
<1>11. ASSUME NEW id \in ExecutionId, SetupFails(id)
      PROVE  ProcessMoves /\ HistoryMoves
  <2> DEFINE final == FinalState(id, "Failed")
  <2>1. final \in Terminal /\ final # "Completed"
    BY DEF FinalState, Terminal
  <2>2. Retire(id, final, exited[id]) /\ UNCHANGED os
    BY <1>11 DEF SetupFails, FinishAfterWait
  <2> HIDE DEF final
  <2>3. Concludes(id, final, exited[id]) /\ exited[id] \in SUBSET Stage
    BY <1>t, <2>1, <2>2 DEF Concludes
  <2> QED
    BY <2>1, <2>2, <2>3 DEF ProcessMoves, HistoryMoves
<1>12. ASSUME NEW id \in ExecutionId, RegisterBackgroundChildren(id)
      PROVE  ProcessMoves /\ HistoryMoves
  BY <1>12, Quiet DEF RegisterBackgroundChildren, registry
<1>13. ASSUME NEW id \in ExecutionId, WaitForegroundPipeline(id)
      PROVE  ProcessMoves /\ HistoryMoves
  BY <1>13, Quiet DEF WaitForegroundPipeline, registry
<1>14. ASSUME NEW id \in ExecutionId, RunnerReap(id)
      PROVE  ProcessMoves /\ HistoryMoves
  BY <1>14, Quiet DEF RunnerReap
<1>15. ASSUME NEW id \in ExecutionId, RunnerReapError(id)
      PROVE  ProcessMoves /\ HistoryMoves
  BY <1>15, Quiet DEF RunnerReapError, registry
<1>16. ASSUME NEW id \in ExecutionId, RunnerFinish(id)
      PROVE  ProcessMoves /\ HistoryMoves
  <2>1. /\ FinishAfterWait(id, NaturalState(verdict[id]), exited[id])
        /\ pc[id] = "waiting" /\ children[id] = {} /\ UNCHANGED os
    BY <1>16 DEF RunnerFinish
  <2>2. owner[id] = "runner"
    BY <2>1 DEF Ownership, HolderKnowsPlace, Launching
  <2> QED
    BY <2>1, <2>2, WaitConcludes DEF ProcessMoves
<1>17. ASSUME BeginObserve
      PROVE  ProcessMoves /\ HistoryMoves
  BY <1>17, Quiet DEF BeginObserve, BeginRefresh, registry, handles
<1>18. ASSUME NEW id \in ExecutionId, NEW w \in Waiters,
             BeginWait(id, w)
      PROVE  ProcessMoves /\ HistoryMoves
  BY <1>18, Quiet DEF BeginWait, BeginRefresh, registry, handles
<1>19. ASSUME NEW id \in ExecutionId, BeginCancel(id)
      PROVE  ProcessMoves /\ HistoryMoves
  BY <1>19, Quiet DEF BeginCancel, BeginRefresh, registry, handles
<1>20. ASSUME NEW id \in lock.todo, NEW failed \in SUBSET Stage,
             RefreshJob(id, failed)
      PROVE  ProcessMoves /\ HistoryMoves
  <2> DEFINE left == children[id] \ (Reaped(id, failed) \cup failed)
  <2>1. id \in ExecutionId /\ owner[id] = "manager" /\ ~Foreground(id)
    BY DEF Ownership, RefreshesManaged, OnlyBackgroundHandedOver, Foreground,
           Typed, TypeOK
  <2>2. failed \subseteq children[id] /\ UNCHANGED os
    BY <1>20 DEF RefreshJob
  <2>3. CASE left = {}
    <3>1. FinishAfterWait(id, NaturalState(RefreshVerdict(id, failed)),
                          exited[id] \cup Reaped(id, failed))
      BY <1>20, <2>3 DEF RefreshJob
    <3> QED
      BY <2>1, <2>2, <2>3, <3>1, RefreshConcludes DEF ProcessMoves
  <2>4. CASE left # {}
    <3>1. UNCHANGED history
      BY <1>20, <2>4 DEF RefreshJob
    <3> QED
      BY <2>2, <3>1, Quiet
  <2> QED
    BY <2>3, <2>4
<1>21. ASSUME Observe
      PROVE  ProcessMoves /\ HistoryMoves
  BY <1>21, Quiet DEF Observe, registry, handles
<1>22. ASSUME TakeChildren
      PROVE  ProcessMoves /\ HistoryMoves
  BY <1>22, Quiet DEF TakeChildren, registry
<1>23. ASSUME NothingToTake
      PROVE  ProcessMoves /\ HistoryMoves
  BY <1>23, Quiet DEF NothingToTake, registry, handles
<1>24. ASSUME RequestCancellation
      PROVE  ProcessMoves /\ HistoryMoves
  BY <1>24, Quiet DEF RequestCancellation, handles
<1>25. ASSUME CancellationRefused
      PROVE  ProcessMoves /\ HistoryMoves
  BY <1>25, Quiet DEF CancellationRefused, registry, handles
<1>26. ASSUME NEW w \in Waiters, WaitBackgroundJobs(w)
      PROVE  ProcessMoves /\ HistoryMoves
  BY <1>26, Quiet DEF WaitBackgroundJobs, registry
<1>27. ASSUME NEW w \in Waiters, NEW id \in ExecutionId, PickJob(w, id)
      PROVE  ProcessMoves /\ HistoryMoves
  BY <1>27, Quiet DEF PickJob, registry
<1>28. ASSUME NEW w \in Waiters, WaiterReap(w)
      PROVE  ProcessMoves /\ HistoryMoves
  BY <1>28, Quiet DEF WaiterReap
<1>29. ASSUME NEW w \in Waiters, WaiterReapError(w)
      PROVE  ProcessMoves /\ HistoryMoves
  BY <1>29, Quiet DEF WaiterReapError, registry
<1>30. ASSUME NEW w \in Waiters, WaiterFinish(w)
      PROVE  ProcessMoves /\ HistoryMoves
  <2> DEFINE id == current[w]
  <2>1. /\ FinishAfterWait(id, NaturalState(verdict[id]), exited[id])
        /\ children[id] = {} /\ UNCHANGED os
    BY <1>30 DEF WaiterFinish
  <2>2. id \in ExecutionId /\ owner[id] = w
    BY <1>30 DEF WaiterFinish, Ownership, LoopsHoldTheirJob, Typed, TypeOK
  <2>3. HandedOver(id) /\ owner[id] # "manager"
    BY <2>2, WaitersAssumption DEF HandedOver
  <2> HIDE DEF id
  <2> QED
    BY <2>1, <2>2, <2>3, WaitConcludes DEF ProcessMoves
<1>31. ASSUME NEW pids \in SUBSET ManagedProcesses, Disown(pids)
      PROVE  ProcessMoves /\ HistoryMoves
  BY <1>31, Quiet DEF Disown
<1>32. ASSUME RequestForegroundCancellation
      PROVE  ProcessMoves /\ HistoryMoves
  BY <1>32, Quiet DEF RequestForegroundCancellation, handles
<1>33. ASSUME NEW id \in timers, RequestTimeout(id)
      PROVE  ProcessMoves /\ HistoryMoves
  BY <1>33, Quiet DEF RequestTimeout, handles
<1>34. ASSUME NEW id \in timers, TimeoutTooLate(id)
      PROVE  ProcessMoves /\ HistoryMoves
  BY <1>34, Quiet DEF TimeoutTooLate, registry, handles
<1>35. ASSUME NEW ids \in graces, EscalateCancellation(ids)
      PROVE  ProcessMoves /\ HistoryMoves
  BY <1>35, <1>t DEF EscalateCancellation, registry, ProcessMoves, HistoryMoves
<1>36. ASSUME NEW id \in ExecutionId, NEW k \in Stage, ProcessExits(id, k)
      PROVE  ProcessMoves /\ HistoryMoves
  BY <1>36, <1>t DEF ProcessExits, registry, ProcessMoves, HistoryMoves
<1>37. CASE UNCHANGED vars
  BY <1>37, Quiet
  DEF vars, registry, handles, signalling
<1> QED
  BY <1>1, <1>2, <1>3, <1>4, <1>5, <1>6, <1>7, <1>8, <1>9, <1>10, <1>11,
  <1>12, <1>13, <1>14, <1>15, <1>16, <1>17, <1>18, <1>19, <1>20, <1>21, <1>22,
  <1>23, <1>24, <1>25, <1>26, <1>27, <1>28, <1>29, <1>30, <1>31, <1>32, <1>33,
  <1>34, <1>35, <1>36, <1>37
  DEF Next, RunnerStep, LockedStep, WaiterStep, SignalStep

(* An execution that ends has nothing pending.                             *)
LEMMA RetiredPending ==
  ASSUME Typed, AllPending, ProcessMoves, NEW c \in ExecutionId,
         NEW final, NEW recorded, Retire(c, final, recorded), Release(c),
         UNCHANGED spec, pc' = pc \/ pc' = [pc EXCEPT ![c] = "done"]
  PROVE  AllPending'
<1> SUFFICES ASSUME NEW id \in ExecutionId PROVE FinalPending(id)'
  BY DEF AllPending
<1>1. CASE id = c
  <2>1. processes'[id] = {}
    BY <1>1 DEF Retire, Typed, TypeOK
  <2> QED
    BY <2>1 DEF FinalPending
<1>2. CASE id # c
  <2>1. /\ children'[id] = children[id] /\ processes'[id] = processes[id]
        /\ exited'[id] = exited[id] /\ verdict'[id] = verdict[id]
        /\ pc'[id] = pc[id] /\ owner'[id] = owner[id]
    BY <1>2 DEF Typed, TypeOK, Retire, Release
  <2>2. exited[id] \subseteq Stage /\ processes[id] \subseteq Stage
    BY DEF Typed, TypeOK
  <2>3. Succeeded(id, exited[id]) => Succeeded(id, exited[id])'
    BY <2>1, <2>2 DEF Succeeded, FinalStage, ProcessMoves
  <2> QED
    BY <2>1, <2>3 DEF AllPending, FinalPending, HandedOver, SingleResult, Foreground,
                      FinalStage
<1> QED
  BY <1>1, <1>2

(* A step that leaves the handles alone keeps the status that was seen.    *)
LEMMA PendingStays ==
  ASSUME Typed, AllPending, ProcessMoves, NEW id \in ExecutionId,
         children'[id] = children[id], verdict'[id] = verdict[id],
         processes'[id] = processes[id], exited'[id] = exited[id],
         spec'[id] = spec[id],
         pc'[id] = pc[id] \/ pc'[id] # "waiting",
         HandedOver(id)' <=> HandedOver(id),
         owner'[id] = owner[id] \/ owner'[id] # "manager"
  PROVE  FinalPending(id)'
<1>1. exited[id] \subseteq Stage /\ processes[id] \subseteq Stage
  BY DEF Typed, TypeOK
<1>2. Succeeded(id, exited[id]) => Succeeded(id, exited[id])'
  BY <1>1 DEF Succeeded, FinalStage, ProcessMoves
<1> QED
  BY <1>2 DEF AllPending, FinalPending, SingleResult, Foreground, FinalStage

LEMMA SamePending ==
  ASSUME Typed, AllPending, ProcessMoves,
         UNCHANGED <<spec, processes, exited, owner, children, verdict, pc>>
  PROVE  AllPending'
BY PendingStays DEF AllPending, HandedOver

(* The next child in stage order is taken: the final stage comes last.     *)
LEMMA ReapPending ==
  ASSUME Typed, AllPending, AllAccounted, ProcessMoves,
         NEW c \in ExecutionId, owner[c] # "manager",
         pc[c] = "waiting" \/ HandedOver(c),
         NEW k \in Stage, NextChild(c, k),
         NEW v, NEW seen \in {{}, {k}},
         v = "success" => seen = {k} /\ os[c][k] = "ok",
         children' = [children EXCEPT ![c] = @ \ {k}],
         exited' = [exited EXCEPT ![c] = @ \cup seen],
         verdict' = [verdict EXCEPT ![c] = v],
         UNCHANGED <<spec, processes, owner, pc>>
  PROVE  AllPending'
<1> SUFFICES ASSUME NEW id \in ExecutionId PROVE FinalPending(id)'
  BY DEF AllPending
<1>1. CASE id # c
  <2>1. /\ children'[id] = children[id] /\ exited'[id] = exited[id]
        /\ verdict'[id] = verdict[id]
    BY <1>1 DEF Typed, TypeOK
  <2>2. HandedOver(id)' <=> HandedOver(id)
    BY DEF HandedOver
  <2> QED
    BY <2>1, <2>2, PendingStays
<1>2. CASE id = c
  <2>t. /\ children'[c] = children[c] \ {k} /\ exited'[c] = exited[c] \cup seen
        /\ verdict'[c] = v /\ k \in children[c] /\ k \in Nat
        /\ children[c] \subseteq Stage /\ Stage \subseteq Nat
        /\ spec[c].stages \in Nat
    BY BoundsAssumption DEF Typed, TypeOK, Stage, ExecutionSpec, NextChild
  <2>1. CASE FinalStage(c) \in children[c] /\ FinalStage(c) # k
    BY <1>2, <2>1, <2>t DEF FinalPending, FinalStage
  <2>2. CASE FinalStage(c) \in children[c] /\ FinalStage(c) = k
    <3>1. \A j \in children[c] : j = k
      <4> TAKE j \in children[c]
      <4>1. j \in Nat /\ k <= j
        BY <2>t DEF NextChild
      <4>2. j <= k
        BY <2>2 DEF AllAccounted, Accounted, FinalStage
      <4> QED
        BY <2>t, <4>1, <4>2
    <3>2. children'[c] = {}
      BY <2>t, <3>1
    <3>3. v = "success" => Succeeded(c, exited[c])'
      BY <2>2, <2>t DEF Succeeded, FinalStage, ProcessMoves
    <3> QED
      BY <1>2, <2>t, <3>2, <3>3 DEF FinalPending
  <2>3. CASE FinalStage(c) \notin children[c]
    BY <1>2, <2>3, <2>t DEF AllPending, FinalPending, FinalStage, HandedOver,
                            SingleResult, Foreground
  <2> QED
    BY <2>1, <2>2, <2>3
<1> QED
  BY <1>1, <1>2

LEMMA StepPending ==
  /\ Typed /\ Ownership /\ Agreement /\ AllAccounted /\ AllPending
  /\ ProcessMoves /\ [Next]_vars
  => AllPending'
<1> SUFFICES ASSUME Typed, Ownership, Agreement, AllAccounted, AllPending,
                    ProcessMoves, [Next]_vars
             PROVE  AllPending'
  OBVIOUS
<1>t. /\ children \in [ExecutionId -> SUBSET Stage]
      /\ processes \in [ExecutionId -> SUBSET Stage]
      /\ exited \in [ExecutionId -> SUBSET Stage]
      /\ verdict \in [ExecutionId -> {"success", "failure", "broken"}]
      /\ spec \in [ExecutionId -> ExecutionSpec]
      /\ owner \in [ExecutionId -> {"none", "runner", "manager"} \cup Waiters]
      /\ pc \in [ExecutionId -> {"idle", "created", "starting", "building",
                                 "spawned", "assigned", "waiting", "done"}]
      /\ Waiters \cap {"none", "runner", "manager"} = {}
  BY WaitersAssumption DEF Typed, TypeOK
<1>o. \A id \in ExecutionId : owner[id] = "runner" <=> pc[id] \in Launching
  BY DEF Ownership, HolderKnowsPlace
<1>1. ASSUME NEW id \in ExecutionId, NEW s \in Launches[id],
             Create(id, s)
      PROVE  AllPending'
  <2> SUFFICES ASSUME NEW i \in ExecutionId PROVE FinalPending(i)'
    BY DEF AllPending
  <2>1. /\ pc' = [pc EXCEPT ![id] = "created"]
        /\ owner' = [owner EXCEPT ![id] = "runner"]
        /\ spec' = [spec EXCEPT ![id] = s]
        /\ UNCHANGED <<children, processes, exited, verdict>>
    BY <1>1 DEF Create
  <2>2. CASE i = id
    BY <1>t, <2>1, <2>2 DEF FinalPending, HandedOver
  <2>3. CASE i # id
    BY <1>t, <2>1, <2>3, PendingStays DEF HandedOver
  <2> QED
    BY <2>2, <2>3
<1>2. ASSUME NEW id \in ExecutionId, StartExternal(id)
      PROVE  AllPending'
  <2> SUFFICES ASSUME NEW i \in ExecutionId PROVE FinalPending(i)'
    BY DEF AllPending
  <2>1. /\ pc' = [pc EXCEPT ![id] = "starting"]
        /\ UNCHANGED <<spec, exited, owner, verdict, children, processes>>
    BY <1>2 DEF StartExternal
  <2> QED
    BY <1>t, <2>1, PendingStays DEF HandedOver
<1>3. ASSUME NEW id \in ExecutionId, BeginPipeline(id)
      PROVE  AllPending'
  <2> SUFFICES ASSUME NEW i \in ExecutionId PROVE FinalPending(i)'
    BY DEF AllPending
  <2>1. /\ pc' = [pc EXCEPT ![id] = "building"]
        /\ UNCHANGED <<spec, exited, owner, verdict, children, processes>>
    BY <1>3 DEF BeginPipeline
  <2> QED
    BY <1>t, <2>1, PendingStays DEF HandedOver
<1>4. ASSUME NEW id \in ExecutionId, SpawnFails(id)
      PROVE  AllPending'
  <2>1. /\ Retire(id, "Failed", {}) /\ Release(id)
        /\ pc' = [pc EXCEPT ![id] = "done"] /\ UNCHANGED spec
    BY <1>4 DEF SpawnFails
  <2> QED
    BY <2>1, RetiredPending
<1>5. ASSUME NEW id \in ExecutionId, NEW k \in Stage, Spawn(id, k)
      PROVE  AllPending'
  <2> SUFFICES ASSUME NEW i \in ExecutionId PROVE FinalPending(i)'
    BY DEF AllPending
  <2>1. /\ pc' = [pc EXCEPT ![id] = "spawned"]
        /\ UNCHANGED <<spec, exited, owner, verdict>>
    BY <1>5 DEF Spawn, registry
  <2>2. /\ children' = [children EXCEPT ![id] = children[id] \cup {k}]
        /\ UNCHANGED processes /\ pc[id] \in Launching
    BY <1>5 DEF Spawn, registry, Launching
  <2>3. CASE i = id
    BY <1>t, <1>o, <2>1, <2>2, <2>3 DEF FinalPending, HandedOver
  <2>4. CASE i # id
    BY <1>t, <2>1, <2>2, <2>4, PendingStays DEF HandedOver
  <2> QED
    BY <2>3, <2>4
<1>6. ASSUME NEW id \in ExecutionId, NEW k \in Stage, AssignJob(id, k)
      PROVE  AllPending'
  <2> SUFFICES ASSUME NEW i \in ExecutionId PROVE FinalPending(i)'
    BY DEF AllPending
  <2>1. /\ pc' = [pc EXCEPT ![id] = "assigned"]
        /\ UNCHANGED <<spec, exited, owner, verdict, children, processes>>
    BY <1>6 DEF AssignJob
  <2> QED
    BY <1>t, <2>1, PendingStays DEF HandedOver
<1>7. ASSUME NEW id \in ExecutionId, AssignJobIgnored(id)
      PROVE  AllPending'
  <2> SUFFICES ASSUME NEW i \in ExecutionId PROVE FinalPending(i)'
    BY DEF AllPending
  <2>1. /\ pc' = [pc EXCEPT ![id] = "assigned"]
        /\ UNCHANGED <<spec, exited, owner, verdict, children, processes>>
    BY <1>7 DEF AssignJobIgnored, registry
  <2> QED
    BY <1>t, <2>1, PendingStays DEF HandedOver
<1>8. ASSUME NEW id \in ExecutionId, AssignJobFails(id)
      PROVE  AllPending'
  <2>1. /\ Retire(id, "Failed", {}) /\ Release(id)
        /\ pc' = [pc EXCEPT ![id] = "done"] /\ UNCHANGED spec
    BY <1>8 DEF AssignJobFails
  <2> QED
    BY <2>1, RetiredPending
<1>9. ASSUME NEW id \in ExecutionId, RunExternal(id)
      PROVE  AllPending'
  <2> SUFFICES ASSUME NEW i \in ExecutionId PROVE FinalPending(i)'
    BY DEF AllPending
  <2>1. /\ pc' = [pc EXCEPT ![id] = "waiting"]
        /\ UNCHANGED <<spec, exited, owner, verdict>>
    BY <1>9 DEF RunExternal
  <2>2. /\ processes' = [processes EXCEPT ![id] = children[id]]
        /\ UNCHANGED children
    BY <1>9 DEF RunExternal
  <2>3. CASE i = id
    BY <1>t, <2>1, <2>2, <2>3 DEF FinalPending, FinalStage
  <2>4. CASE i # id
    BY <1>t, <2>1, <2>2, <2>4, PendingStays DEF HandedOver
  <2> QED
    BY <2>3, <2>4
<1>10. ASSUME NEW id \in ExecutionId, RegisterStage(id)
      PROVE  AllPending'
  <2> SUFFICES ASSUME NEW i \in ExecutionId PROVE FinalPending(i)'
    BY DEF AllPending
  <2>1. /\ pc' = [pc EXCEPT ![id] = "building"]
        /\ UNCHANGED <<spec, exited, owner, verdict>>
    BY <1>10 DEF RegisterStage
  <2>2. /\ processes' = [processes EXCEPT ![id] = children[id]]
        /\ UNCHANGED children
    BY <1>10 DEF RegisterStage
  <2>3. CASE i = id
    BY <1>t, <2>1, <2>2, <2>3 DEF FinalPending, FinalStage
  <2>4. CASE i # id
    BY <1>t, <2>1, <2>2, <2>4, PendingStays DEF HandedOver
  <2> QED
    BY <2>3, <2>4
<1>11. ASSUME NEW id \in ExecutionId, SetupFails(id)
      PROVE  AllPending'
  <2>1. /\ Retire(id, FinalState(id, "Failed"), exited[id]) /\ Release(id)
        /\ pc' = [pc EXCEPT ![id] = "done"] /\ UNCHANGED spec
    BY <1>11 DEF SetupFails, FinishAfterWait
  <2> QED
    BY <2>1, RetiredPending
<1>12. ASSUME NEW id \in ExecutionId, RegisterBackgroundChildren(id)
      PROVE  AllPending'
  <2> SUFFICES ASSUME NEW i \in ExecutionId PROVE FinalPending(i)'
    BY DEF AllPending
  <2>1. /\ owner' = [owner EXCEPT ![id] = "manager"]
        /\ pc' = [pc EXCEPT ![id] = "done"] /\ pc[id] = "building"
        /\ UNCHANGED <<spec, exited, verdict, children, processes>>
    BY <1>12 DEF RegisterBackgroundChildren, registry
  <2>2. CASE i = id
    BY <2>1, <2>2 DEF AllAccounted, Accounted, FinalPending, FinalStage
  <2>3. CASE i # id
    BY <1>t, <2>1, <2>3, PendingStays DEF HandedOver
  <2> QED
    BY <2>2, <2>3
<1>13. ASSUME NEW id \in ExecutionId, WaitForegroundPipeline(id)
      PROVE  AllPending'
  <2> SUFFICES ASSUME NEW i \in ExecutionId PROVE FinalPending(i)'
    BY DEF AllPending
  <2>1. /\ pc' = [pc EXCEPT ![id] = "waiting"] /\ pc[id] = "building"
        /\ UNCHANGED <<spec, exited, verdict, children, processes, owner>>
    BY <1>13 DEF WaitForegroundPipeline, registry
  <2>2. CASE i = id
    BY <2>1, <2>2 DEF AllAccounted, Accounted, FinalPending, FinalStage
  <2>3. CASE i # id
    BY <1>t, <2>1, <2>3, PendingStays DEF HandedOver
  <2> QED
    BY <2>2, <2>3
<1>14. ASSUME NEW id \in ExecutionId, RunnerReap(id)
      PROVE  AllPending'
  <2>1. /\ pc[id] = "waiting" /\ owner[id] = "runner"
        /\ UNCHANGED <<spec, processes, owner, pc>>
    BY <1>14, <1>o DEF RunnerReap, Launching
  <2>2. PICK k \in Stage :
          /\ NextChild(id, k)
          /\ children' = [children EXCEPT ![id] = children[id] \ {k}]
          /\ exited' = [exited EXCEPT ![id] = exited[id] \cup {k}]
          /\ verdict' = [verdict EXCEPT ![id] =
                           IF os[id][k] = "ok" THEN "success" ELSE "failure"]
    BY <1>14 DEF RunnerReap
  <2> DEFINE v == IF os[id][k] = "ok" THEN "success" ELSE "failure"
             seen == {k}
  <2>3. v = "success" => seen = {k} /\ os[id][k] = "ok"
    OBVIOUS
  <2>4. /\ exited' = [exited EXCEPT ![id] = exited[id] \cup seen]
        /\ verdict' = [verdict EXCEPT ![id] = v]
        /\ seen \in {{}, {k}}
    BY <2>2
  <2> HIDE DEF v, seen
  <2> QED
    BY <2>1, <2>2, <2>3, <2>4, ReapPending
<1>15. ASSUME NEW id \in ExecutionId, RunnerReapError(id)
      PROVE  AllPending'
  <2>1. /\ pc[id] = "waiting" /\ owner[id] = "runner"
        /\ verdict' = [verdict EXCEPT ![id] = "failure"]
        /\ UNCHANGED <<spec, processes, exited, owner, pc>>
    BY <1>15, <1>o DEF RunnerReapError, registry, Launching
  <2>2. PICK k \in Stage :
          /\ NextChild(id, k)
          /\ children' = [children EXCEPT ![id] = children[id] \ {k}]
    BY <1>15 DEF RunnerReapError
  <2>3. exited' = [exited EXCEPT ![id] = exited[id] \cup {}]
    BY <1>t, <2>1
  <2> QED
    BY <2>1, <2>2, <2>3, ReapPending
<1>16. ASSUME NEW id \in ExecutionId, RunnerFinish(id)
      PROVE  AllPending'
  <2>1. /\ Retire(id, FinalState(id, NaturalState(verdict[id])), exited[id]) /\ Release(id)
        /\ pc' = [pc EXCEPT ![id] = "done"] /\ UNCHANGED spec
    BY <1>16 DEF RunnerFinish, FinishAfterWait
  <2> QED
    BY <2>1, RetiredPending
<1>17. ASSUME BeginObserve
      PROVE  AllPending'
  BY <1>17, SamePending DEF BeginObserve, BeginRefresh, registry, handles
<1>18. ASSUME NEW id \in ExecutionId, NEW w \in Waiters,
             BeginWait(id, w)
      PROVE  AllPending'
  BY <1>18, SamePending DEF BeginWait, BeginRefresh, registry, handles
<1>19. ASSUME NEW id \in ExecutionId, BeginCancel(id)
      PROVE  AllPending'
  BY <1>19, SamePending DEF BeginCancel, BeginRefresh, registry, handles
<1>20. ASSUME NEW id \in lock.todo, NEW failed \in SUBSET Stage,
             RefreshJob(id, failed)
      PROVE  AllPending'
  <2> DEFINE left == children[id] \ (Reaped(id, failed) \cup failed)
             recorded == exited[id] \cup Reaped(id, failed)
  <2>1. /\ id \in ExecutionId /\ owner[id] = "manager" /\ ~Foreground(id)
        /\ UNCHANGED <<spec, pc>>
    BY <1>20 DEF RefreshJob, Ownership, RefreshesManaged, OnlyBackgroundHandedOver,
             Foreground, Typed, TypeOK
  <2>2. CASE left = {}
    <3>1. \E final : Retire(id, final, recorded)
      BY <1>20, <2>2 DEF RefreshJob, FinishAfterWait
    <3>2. Release(id)
      BY <1>20, <2>2 DEF RefreshJob
    <3> QED
      BY <2>1, <3>1, <3>2, RetiredPending
  <2>3. CASE left # {}
    <3>1. /\ children' = [children EXCEPT ![id] = left]
          /\ exited' = [exited EXCEPT ![id] = recorded]
          /\ UNCHANGED <<processes, owner, verdict>>
      BY <1>20, <2>3 DEF RefreshJob
    <3> SUFFICES ASSUME NEW i \in ExecutionId PROVE FinalPending(i)'
      BY DEF AllPending
    <3>2. left \subseteq children[id]
      OBVIOUS
    <3> HIDE DEF left, recorded
    <3>3. CASE i = id
      <4> SUFFICES ASSUME SingleResult(id)', FinalStage(id)' \in processes'[id]
                   PROVE  FinalStage(id)' \in children'[id]
        BY <3>3 DEF FinalPending
      <4>1. FinalStage(id) \in 1..MaxStages /\ FinalStage(id) <= 1
        BY <1>t, <2>1, <3>1 DEF SingleResult, FinalStage, Foreground, Stage
      <4>2. \A k \in children[id] : k \in 1..MaxStages /\ k <= FinalStage(id)
        BY <1>t, <2>1 DEF AllAccounted, Accounted, FinalStage, Stage
      <4>3. \A k \in left : k = FinalStage(id)
        BY <3>2, <4>1, <4>2, BoundsAssumption
      <4> QED
        BY <1>t, <2>1, <2>3, <3>1, <4>3 DEF FinalStage
    <3>4. CASE i # id
      BY <1>t, <2>1, <3>1, <3>4, PendingStays DEF HandedOver
    <3> QED
      BY <3>3, <3>4
  <2> QED
    BY <2>2, <2>3
<1>21. ASSUME Observe
      PROVE  AllPending'
  BY <1>21, SamePending DEF Observe, registry, handles
<1>22. ASSUME TakeChildren
      PROVE  AllPending'
  <2> SUFFICES ASSUME NEW i \in ExecutionId PROVE FinalPending(i)'
    BY DEF AllPending
  <2>1. /\ lock.id \in ExecutionId /\ owner[lock.id] = "manager"
        /\ lock.waiter \in Waiters
    BY <1>22 DEF TakeChildren, Managed, Typed
  <2>2. /\ owner' = [owner EXCEPT ![lock.id] = lock.waiter]
        /\ UNCHANGED <<spec, exited, verdict, children, processes, pc>>
    BY <1>22 DEF TakeChildren, registry
  <2> QED
    BY <1>t, <2>1, <2>2, PendingStays DEF HandedOver
<1>23. ASSUME NothingToTake
      PROVE  AllPending'
  BY <1>23, SamePending DEF NothingToTake, registry, handles
<1>24. ASSUME RequestCancellation
      PROVE  AllPending'
  BY <1>24, SamePending DEF RequestCancellation, handles
<1>25. ASSUME CancellationRefused
      PROVE  AllPending'
  BY <1>25, SamePending DEF CancellationRefused, registry, handles
<1>26. ASSUME NEW w \in Waiters, WaitBackgroundJobs(w)
      PROVE  AllPending'
  <2> SUFFICES ASSUME NEW i \in ExecutionId PROVE FinalPending(i)'
    BY DEF AllPending
  <2>1. /\ owner' = [id \in ExecutionId |-> IF Managed(id) THEN w ELSE owner[id]]
        /\ UNCHANGED <<spec, exited, verdict, children, processes, pc>>
    BY <1>26 DEF WaitBackgroundJobs, registry
  <2> QED
    BY <1>t, <2>1, PendingStays DEF HandedOver, Managed
<1>27. ASSUME NEW w \in Waiters, NEW id \in ExecutionId, PickJob(w, id)
      PROVE  AllPending'
  BY <1>27, SamePending DEF PickJob, registry
<1>28. ASSUME NEW w \in Waiters, WaiterReap(w)
      PROVE  AllPending'
  <2> DEFINE id == current[w]
  <2>1. /\ id \in ExecutionId /\ owner[id] = w
        /\ UNCHANGED <<spec, processes, owner, pc>>
    BY <1>28 DEF WaiterReap, Ownership, LoopsHoldTheirJob, Typed, TypeOK
  <2>2. PICK k \in Stage :
          /\ NextChild(id, k)
          /\ children' = [children EXCEPT ![id] = children[id] \ {k}]
          /\ exited' = [exited EXCEPT ![id] = exited[id] \cup {k}]
          /\ verdict' = [verdict EXCEPT ![id] =
                           IF verdict[id] = "broken" THEN "broken"
                           ELSE IF os[id][k] = "ok" THEN "success" ELSE "failure"]
    BY <1>28 DEF WaiterReap
  <2> DEFINE v == IF verdict[id] = "broken" THEN "broken"
                  ELSE IF os[id][k] = "ok" THEN "success" ELSE "failure"
             seen == {k}
  <2>3. v = "success" => seen = {k} /\ os[id][k] = "ok"
    OBVIOUS
  <2>4. /\ exited' = [exited EXCEPT ![id] = exited[id] \cup seen]
        /\ verdict' = [verdict EXCEPT ![id] = v]
        /\ seen \in {{}, {k}}
    BY <2>2
  <2> HIDE DEF v, seen, id
  <2>5. HandedOver(id) /\ owner[id] # "manager"
    BY <1>t, <2>1 DEF HandedOver
  <2> QED
    BY <2>1, <2>2, <2>3, <2>4, <2>5, ReapPending
<1>29. ASSUME NEW w \in Waiters, WaiterReapError(w)
      PROVE  AllPending'
  <2> DEFINE id == current[w]
  <2>1. /\ id \in ExecutionId /\ owner[id] = w
        /\ UNCHANGED <<spec, processes, exited, owner, pc>>
    BY <1>29 DEF WaiterReapError, registry, Ownership, LoopsHoldTheirJob, Typed, TypeOK
  <2>2. PICK k \in Stage :
          /\ NextChild(id, k)
          /\ children' = [children EXCEPT ![id] = children[id] \ {k}]
          /\ verdict' = [verdict EXCEPT ![id] = "broken"]
    BY <1>29 DEF WaiterReapError
  <2> HIDE DEF id
  <2>3. exited' = [exited EXCEPT ![id] = exited[id] \cup {}]
    BY <1>t, <2>1
  <2>4. HandedOver(id) /\ owner[id] # "manager"
    BY <1>t, <2>1 DEF HandedOver
  <2> QED
    BY <2>1, <2>2, <2>3, <2>4, ReapPending
<1>30. ASSUME NEW w \in Waiters, WaiterFinish(w)
      PROVE  AllPending'
  <2> DEFINE id == current[w]
  <2>1. /\ Retire(id, FinalState(id, NaturalState(verdict[id])), exited[id])
        /\ Release(id) /\ UNCHANGED <<spec, pc>>
    BY <1>30 DEF WaiterFinish, FinishAfterWait
  <2>2. id \in ExecutionId
    BY <1>30 DEF WaiterFinish, Typed, TypeOK
  <2> HIDE DEF id
  <2> QED
    BY <2>1, <2>2, RetiredPending
<1>31. ASSUME NEW pids \in SUBSET ManagedProcesses, Disown(pids)
      PROVE  AllPending'
  <2> SUFFICES ASSUME NEW i \in ExecutionId PROVE FinalPending(i)'
    BY DEF AllPending
  <2> DEFINE removed(id) == IF Managed(id)
                            THEN {k \in children[id] : <<id, k>> \in pids} ELSE {}
             empty(id) == Managed(id) /\ children[id] \subseteq removed(id)
  <2>1. /\ children' = [id \in ExecutionId |-> children[id] \ removed(id)]
        /\ processes' = [id \in ExecutionId |-> processes[id] \ removed(id)]
        /\ exited' = [id \in ExecutionId |-> exited[id] \ removed(id)]
        /\ owner' = [id \in ExecutionId |-> IF empty(id) THEN "none" ELSE owner[id]]
        /\ UNCHANGED <<spec, verdict, pc>>
    BY <1>31 DEF Disown
  <2>2. (removed(i) # {} \/ empty(i)) => owner[i] = "manager"
    BY DEF Managed
  <2> HIDE DEF removed, empty
  <2>3. /\ children'[i] = children[i] \ removed(i)
        /\ processes'[i] = processes[i] \ removed(i)
        /\ exited'[i] = exited[i] \ removed(i)
        /\ owner'[i] = IF empty(i) THEN "none" ELSE owner[i]
    BY <2>1
  <2>4. CASE owner[i] = "manager"
    BY <1>t, <1>o, <2>1, <2>3, <2>4
    DEF AllPending, FinalPending, HandedOver, SingleResult, Foreground, FinalStage,
        Launching
  <2>5. CASE owner[i] # "manager"
    BY <1>t, <2>1, <2>2, <2>3, <2>5, PendingStays DEF HandedOver
  <2> QED
    BY <2>4, <2>5
<1>32. ASSUME RequestForegroundCancellation
      PROVE  AllPending'
  BY <1>32, SamePending DEF RequestForegroundCancellation, handles
<1>33. ASSUME NEW id \in timers, RequestTimeout(id)
      PROVE  AllPending'
  BY <1>33, SamePending DEF RequestTimeout, handles
<1>34. ASSUME NEW id \in timers, TimeoutTooLate(id)
      PROVE  AllPending'
  BY <1>34, SamePending DEF TimeoutTooLate, registry, handles
<1>35. ASSUME NEW ids \in graces, EscalateCancellation(ids)
      PROVE  AllPending'
  BY <1>35, SamePending DEF EscalateCancellation, registry, handles
<1>36. ASSUME NEW id \in ExecutionId, NEW k \in Stage, ProcessExits(id, k)
      PROVE  AllPending'
  BY <1>36, SamePending DEF ProcessExits, registry, handles
<1>37. CASE UNCHANGED vars
  BY <1>37, SamePending
  DEF vars, registry, handles, signalling
<1> QED
  BY <1>1, <1>2, <1>3, <1>4, <1>5, <1>6, <1>7, <1>8, <1>9, <1>10, <1>11,
  <1>12, <1>13, <1>14, <1>15, <1>16, <1>17, <1>18, <1>19, <1>20, <1>21, <1>22,
  <1>23, <1>24, <1>25, <1>26, <1>27, <1>28, <1>29, <1>30, <1>31, <1>32, <1>33,
  <1>34, <1>35, <1>36, <1>37
  DEF Next, RunnerStep, LockedStep, WaiterStep, SignalStep

-----------------------------------------------------------------------------
(* The theorems.                                                           *)

OutcomeInv == /\ Sound /\ RegistryConsistent
              /\ AllAccounted /\ AllPending

LEMMA InitOutcome == Init => OutcomeInv
BY InitTyped, InitOwnership, InitAgreement, InitPolicies, InitRegistry,
   InitAccounted, InitPending
DEF OutcomeInv, Sound

LEMMA OutcomeMoves == OutcomeInv /\ [Next]_vars => ProcessMoves /\ HistoryMoves
BY StepMoves DEF OutcomeInv, Sound

LEMMA StepOutcome == OutcomeInv /\ [Next]_vars => OutcomeInv'
<1> SUFFICES ASSUME OutcomeInv, [Next]_vars PROVE OutcomeInv'
  OBVIOUS
<1>1. Typed' /\ Ownership' /\ Agreement' /\ PoliciesAreExternal'
  BY StepTyped, StepOwnership, StepAgreement, StepPolicies DEF OutcomeInv, Sound
<1>2. RegistryConsistent' /\ AllAccounted'
  BY StepRegistry, StepAccounted DEF OutcomeInv, Sound
<1>3. AllPending'
  BY OutcomeMoves, StepPending DEF OutcomeInv, Sound
<1> QED
  BY <1>1, <1>2, <1>3 DEF OutcomeInv, Sound

PreciseStep ==
  \A id \in ExecutionId, k \in Stage :
    os[id][k] # "terminated" /\ os'[id][k] = "terminated"
      => state[id] = "Cancelling" /\ k \in children[id] \cup processes[id]

(* Theorem: escalate_cancellation terminates only processes of executions  *)
(* cancelling at that moment, and only those that still have a handle or a *)
(* record there: never a disowned one.                                     *)
THEOREM EscalationPrecise == Spec => OnlyCancellingAreTerminated
<1>1. OutcomeInv /\ [Next]_vars => PreciseStep
  <2> SUFFICES ASSUME OutcomeInv, [Next]_vars PROVE PreciseStep
    OBVIOUS
  <2>1. ProcessMoves
    BY OutcomeMoves
  <2>2. \A id \in ExecutionId, k \in Stage :
          os[id][k] = "running" /\ k \in job[id]
            => k \in children[id] \cup processes[id]
    BY DEF OutcomeInv, AllAccounted, Accounted
  <2> QED
    BY <2>1, <2>2 DEF PreciseStep, ProcessMoves
<1>2. [PreciseStep]_vars <=> (PreciseStep \/ UNCHANGED vars)
  OBVIOUS
<1> QED
  BY <1>1, <1>2, InitOutcome, StepOutcome, PTL
  DEF Spec, OnlyCancellingAreTerminated, PreciseStep

(* CompletedMeansFinalStageSucceeded for one record r: sp and o stand for  *)
(* the specs and the states of the processes.                              *)
RecordSound(sp, o, r) ==
  /\ sp[r.id].kind # "background" \/ sp[r.id].stages <= 1
  /\ r.state = "Completed"
  /\ r.processes = 1..sp[r.id].stages /\ r.processes # {}
  => sp[r.id].stages \in r.exited /\ o[r.id][sp[r.id].stages] = "ok"

LEMMA RecordsNow ==
  CompletedMeansFinalStageSucceeded
    <=> \A i \in 1..Len(history) : RecordSound(spec, os, history[i])
BY DEF CompletedMeansFinalStageSucceeded, CompletedByFinalStage, FullLength,
       FinalStage, Foreground, RecordSound

LEMMA RecordsNext ==
  CompletedMeansFinalStageSucceeded'
    <=> \A i \in 1..Len(history') : RecordSound(spec', os', history'[i])
BY DEF CompletedMeansFinalStageSucceeded, CompletedByFinalStage, FullLength,
       FinalStage, Foreground, RecordSound

(* It is about a process that has exited, so it stays true.                *)
LEMMA RecordStays ==
  ASSUME OutcomeInv, [Next]_vars, NEW r \in ExecutionRecord, r.id < next_id,
         RecordSound(spec, os, r)
  PROVE  RecordSound(spec', os', r)
<1>1. r.id \in ExecutionId /\ r.exited \subseteq Stage /\ next_id \in Nat
  BY BoundsAssumption DEF OutcomeInv, Sound, Typed, TypeOK, ExecutionRecord
<1>2. spec'[r.id] = spec[r.id]
  <2>1. ASSUME NEW id \in ExecutionId, NEW s \in Launches[id], Create(id, s)
        PROVE  spec'[r.id] = spec[r.id]
    BY <1>1, <2>1 DEF Create, OutcomeInv, Sound, Typed, TypeOK
  <2> QED
    BY <2>1, SpecsStay
<1>3. ProcessMoves
  BY OutcomeMoves
<1> QED
  BY <1>1, <1>2, <1>3 DEF RecordSound, ProcessMoves

LEMMA NewRecordSound ==
  ASSUME OutcomeInv, [Next]_vars, NEW c \in ExecutionId, NEW final \in Terminal,
         NEW recorded \in SUBSET Stage, Concludes(c, final, recorded)
  PROVE  RecordSound(spec', os', [id |-> c, state |-> final,
                                  processes |-> processes[c], exited |-> recorded])
<1> DEFINE r == [id |-> c, state |-> final,
                 processes |-> processes[c], exited |-> recorded]
<1>1. /\ r \in ExecutionRecord /\ r.id = c /\ r.state = final
      /\ r.processes = processes[c] /\ r.exited = recorded
  BY DEF OutcomeInv, Sound, Typed, TypeOK, ExecutionRecord
<1> HIDE DEF r
<1>2. CASE processes[c] = {}
  BY <1>1, <1>2 DEF RecordSound, r
<1>3. CASE processes[c] # {}
  <2>1. c < next_id
    BY <1>3, BoundsAssumption
    DEF OutcomeInv, Sound, AllAccounted, Accounted, Typed, TypeOK, ExecutionId
  <2>2. ASSUME processes[c] = 1..spec[c].stages
        PROVE  spec[c].stages \in processes[c]
    <3>1. spec[c].stages \in Nat
      BY BoundsAssumption DEF OutcomeInv, Sound, Typed, TypeOK, ExecutionSpec
    <3> QED
      BY <1>3, <2>2, <3>1
  <2>3. RecordSound(spec, os, r)
    BY <1>1, <2>2
    DEF RecordSound, Concludes, SingleResult, FinalStage, Foreground, Succeeded
  <2> QED
    BY <1>1, <2>1, <2>3, RecordStays DEF r
<1> QED
  BY <1>2, <1>3

LEMMA StepRecords ==
  OutcomeInv /\ CompletedMeansFinalStageSucceeded /\ [Next]_vars
  => CompletedMeansFinalStageSucceeded'
<1> SUFFICES ASSUME OutcomeInv, CompletedMeansFinalStageSucceeded, [Next]_vars
             PROVE  CompletedMeansFinalStageSucceeded'
  OBVIOUS
<1>1. ASSUME NEW i \in 1..Len(history)
      PROVE  RecordSound(spec', os', history[i])
  <2>1. history[i] \in ExecutionRecord /\ history[i].id < next_id
    BY DEF OutcomeInv, Sound, Typed, TypeOK, RegistryConsistent
  <2>2. RecordSound(spec, os, history[i])
    BY RecordsNow
  <2> QED
    BY <2>1, <2>2, RecordStays
<1>2. CASE UNCHANGED history
  BY <1>1, <1>2, RecordsNext
<1>3. ASSUME NEW c \in ExecutionId, NEW final \in Terminal,
             NEW recorded \in SUBSET Stage, Concludes(c, final, recorded)
      PROVE  CompletedMeansFinalStageSucceeded'
  <2> DEFINE r == [id |-> c, state |-> final,
                   processes |-> processes[c], exited |-> recorded]
  <2>1. RecordSound(spec', os', r)
    BY <1>3, NewRecordSound
  <2>2. /\ \E d \in {0, 1} : Shifted(history', history, r, d)
        /\ Len(history') \in Nat /\ Len(history) \in Nat
    BY <1>3, NewestRecord DEF Concludes, OutcomeInv, Sound, Typed, TypeOK
  <2> HIDE DEF r
  <2>3. PICK d \in {0, 1} : Shifted(history', history, r, d)
    BY <2>2
  <2>4. ASSUME NEW i \in 1..Len(history')
        PROVE  RecordSound(spec', os', history'[i])
    <3>1. CASE i + d <= Len(history)
      <4>1. history'[i] = history[i + d] /\ i + d \in 1..Len(history)
        BY <2>2, <2>3, <3>1 DEF Shifted
      <4> QED
        BY <1>1, <4>1
    <3>2. CASE ~(i + d <= Len(history))
      BY <2>1, <2>3, <3>2 DEF Shifted
    <3> QED
      BY <3>1, <3>2
  <2> QED
    BY <2>4, RecordsNext
<1> QED
  BY <1>2, <1>3, OutcomeMoves DEF HistoryMoves

(* Theorem: wait_foreground_pipeline, wait_execution and the refresh of a  *)
(* single background process record Completed only if the final process    *)
(* exited successfully, and with its exit in the record.                   *)
THEOREM FinalStageDecides == Spec => []CompletedMeansFinalStageSucceeded
<1>1. Init => CompletedMeansFinalStageSucceeded
  BY DEF Init, CompletedMeansFinalStageSucceeded
<1> QED
  BY <1>1, InitOutcome, StepOutcome, StepRecords, PTL DEF Spec
=============================================================================

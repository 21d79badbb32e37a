--------------------------- MODULE ParallelBlock ---------------------------
(***************************************************************************)
(* The `parallel --workers N VARIABLE in EXPRESSION ... end` block of      *)
(* src/shell.rs (exec_parallel): the coordinator with its ParallelSchedule,*)
(* one thread per launched item running exec_block_statements, the mpsc    *)
(* channel of results, and the process-wide interrupt flag of src/jobctl.rs*)
(* that Ctrl+C sets and every poller in every thread swaps to FALSE.       *)
(*                                                                         *)
(* Statements are opaque here: an external command among them is an        *)
(* execution of ExecutionManager, which ends when Ctrl+C cancels it.       *)
(* CanLaunchUnbounded, NoticeFlagOnly, WorkerStatus and SendUnlessExit are *)
(* faulty variants of the definitions after them.                          *)
(***************************************************************************)
EXTENDS Integers, Sequences, FiniteSets

CONSTANTS
  Items,       \* number of inputs the expression expanded to
  Workers,     \* --workers, the limit of the schedule
  Statements,  \* statements in the body
  Presses      \* most times the user presses Ctrl+C during the block

(* An empty expansion returns before the schedule exists.                  *)
ASSUME ParallelAssumption ==
  /\ Items \in Nat \ {0}
  /\ Workers \in 1..64
  /\ Statements \in Nat \ {0}
  /\ Presses \in Nat

Item == 1..Items
Flow == {"Normal", "Interrupted", "ShellExit"}
WorkerResult == [index : Item, success : BOOLEAN, interrupted : BOOLEAN]

VARIABLES
  next, active, cancelled,  \* the ParallelSchedule
  interrupt,                \* INTERRUPTED
  phase,                    \* where the thread of each item is
  at,                       \* statements it has executed
  flow,                     \* the Flow of its block
  status,                   \* previous_status of its interpreter
  noticed,                  \* the interrupted flag of its result
  channel,                  \* results sent and not yet received
  results,                  \* results received, by index
  main,                     \* where the coordinator is
  outcome,                  \* what exec_parallel returned and left as status
  presses,                  \* Ctrl+C presses so far
  swallowed                 \* a builtin took an interrupt for itself

schedule == <<next, active, cancelled>>
worker == <<phase, at, flow, status, noticed>>
coordinator == <<results, main, outcome>>
vars == <<schedule, interrupt, worker, channel, coordinator, presses, swallowed>>

TypeOK ==
  /\ next \in 1..(Items + 1)
  /\ active \in 0..Workers
  /\ cancelled \in BOOLEAN
  /\ interrupt \in BOOLEAN
  /\ phase \in [Item -> {"queued", "polling", "executing", "ending",
                         "sending", "sent"}]
  /\ at \in [Item -> 0..Statements]
  /\ flow \in [Item -> Flow]
  /\ status \in [Item -> BOOLEAN]
  /\ noticed \in [Item -> BOOLEAN]
  /\ channel \in Seq(WorkerResult)
  /\ results \in [Item -> SUBSET WorkerResult]
  /\ main \in {"launching", "receiving", "refilling", "done"}
  /\ outcome \in [flow : Flow, success : BOOLEAN]
  /\ presses \in 0..Presses
  /\ swallowed \in BOOLEAN

Init ==
  /\ next = 1 /\ active = 0 /\ cancelled = FALSE
  /\ interrupt = FALSE
  /\ phase = [i \in Item |-> "queued"]
  /\ at = [i \in Item |-> 0]
  /\ flow = [i \in Item |-> "Normal"]
  /\ status = [i \in Item |-> TRUE]
  /\ noticed = [i \in Item |-> FALSE]
  /\ channel = << >>
  /\ results = [i \in Item |-> {}]
  /\ main = "launching"
  /\ outcome = [flow |-> "Normal", success |-> TRUE]
  /\ presses = 0
  /\ swallowed = FALSE

-----------------------------------------------------------------------------
(* The coordinator.                                                        *)

(* ParallelSchedule::next_launch returns an index.                         *)
CanLaunchUnbounded == ~cancelled /\ next <= Items
CanLaunch == ~cancelled /\ active < Workers /\ next <= Items

(* The thread gets a clone of the interpreter and its own binding.         *)
Launch ==
  /\ CanLaunch
  /\ next' = next + 1
  /\ active' = active + 1
  /\ phase' = [phase EXCEPT ![next] = "polling"]
  /\ UNCHANGED <<cancelled, at, flow, status, noticed>>

LaunchFirst ==
  /\ main = "launching"
  /\ Launch
  /\ UNCHANGED <<interrupt, channel, coordinator, presses, swallowed>>

StartReceiving ==
  /\ main = "launching"
  /\ ~CanLaunch
  /\ main' = "receiving"
  /\ UNCHANGED <<schedule, interrupt, worker, channel, results, outcome,
                 presses, swallowed>>

(* recv, and ParallelSchedule::complete with what the result or the flag   *)
(* says of an interrupt.                                                   *)
Receive ==
  /\ main = "receiving"
  /\ active > 0
  /\ channel # << >>
  /\ LET result == Head(channel) IN
       /\ active' = active - 1
       /\ cancelled' = (cancelled \/ result.interrupted \/ interrupt)
       /\ results' = [results EXCEPT ![result.index] = @ \cup {result}]
  /\ channel' = Tail(channel)
  /\ main' = "refilling"
  /\ UNCHANGED <<next, interrupt, worker, outcome, presses, swallowed>>

Refill ==
  /\ main = "refilling"
  /\ IF CanLaunch THEN Launch ELSE UNCHANGED <<schedule, worker>>
  /\ main' = "receiving"
  /\ UNCHANGED <<interrupt, channel, results, outcome, presses, swallowed>>

AllResults == UNION {results[i] : i \in Item}
BlockInterrupted ==
  cancelled \/ interrupt \/ \E r \in AllResults : r.interrupted

AllSucceeded == next > Items /\ \A r \in AllResults : r.success

(* Every launched worker has been joined: set the status, consume the flag *)
(* and return.                                                             *)
Finish ==
  /\ main = "receiving"
  /\ active = 0
  /\ outcome' = [flow |-> IF BlockInterrupted THEN "Interrupted" ELSE "Normal",
                 success |-> AllSucceeded]
  /\ interrupt' = IF BlockInterrupted THEN FALSE ELSE interrupt
  /\ main' = "done"
  /\ UNCHANGED <<schedule, worker, channel, results, presses, swallowed>>

-----------------------------------------------------------------------------
(* A worker thread.                                                        *)

End(i, f) == /\ phase' = [phase EXCEPT ![i] = "ending"]
             /\ flow' = [flow EXCEPT ![i] = f]

(* The worker's tokio runtime cannot be built: no statement runs.          *)
RuntimeFails(i) ==
  /\ phase[i] = "polling"
  /\ at[i] = 0
  /\ End(i, "Normal")
  /\ status' = [status EXCEPT ![i] = FALSE]
  /\ UNCHANGED <<schedule, interrupt, at, noticed, channel, coordinator,
                 presses, swallowed>>

(* take_interrupt before every statement.                                  *)
Poll(i) ==
  /\ phase[i] = "polling"
  /\ at[i] < Statements
  /\ interrupt' = FALSE
  /\ IF interrupt
     THEN End(i, "Interrupted")
     ELSE phase' = [phase EXCEPT ![i] = "executing"] /\ UNCHANGED flow
  /\ UNCHANGED <<schedule, at, status, noticed, channel, coordinator,
                 presses, swallowed>>

(* A statement ends and leaves its status.                                 *)
Statement(i) ==
  /\ phase[i] = "executing"
  /\ phase' = [phase EXCEPT ![i] = "polling"]
  /\ at' = [at EXCEPT ![i] = @ + 1]
  /\ \E ok \in BOOLEAN : status' = [status EXCEPT ![i] = ok]
  /\ UNCHANGED <<schedule, interrupt, flow, noticed, channel, coordinator,
                 presses, swallowed>>

(* A while or for inside the statement polls, takes the interrupt and      *)
(* unwinds the whole block.                                                *)
LoopPoll(i) ==
  /\ phase[i] = "executing"
  /\ interrupt
  /\ interrupt' = FALSE
  /\ End(i, "Interrupted")
  /\ UNCHANGED <<schedule, at, status, noticed, channel, coordinator,
                 presses, swallowed>>

(* copy, stat, compress or a database statement takes the interrupt,       *)
(* reports it, and returns to the block normally.                          *)
BuiltinTakesInterrupt(i) ==
  /\ phase[i] = "executing"
  /\ interrupt
  /\ interrupt' = FALSE
  /\ swallowed' = TRUE
  /\ phase' = [phase EXCEPT ![i] = "polling"]
  /\ at' = [at EXCEPT ![i] = @ + 1]
  /\ \E ok \in BOOLEAN : status' = [status EXCEPT ![i] = ok]
  /\ UNCHANGED <<schedule, flow, noticed, channel, coordinator, presses>>

(* `exit` in the body ends the worker's block, not the shell.              *)
ExitStatement(i) ==
  /\ phase[i] = "executing"
  /\ End(i, "ShellExit")
  /\ UNCHANGED <<schedule, interrupt, at, status, noticed, channel,
                 coordinator, presses, swallowed>>

BodyEnds(i) ==
  /\ phase[i] = "polling"
  /\ at[i] = Statements
  /\ End(i, "Normal")
  /\ UNCHANGED <<schedule, interrupt, at, status, noticed, channel,
                 coordinator, presses, swallowed>>

(* The result's interrupted flag is read before the result is sent.        *)
NoticeFlagOnly(i) == interrupt
Notice(i) == flow[i] = "Interrupted" \/ interrupt
Conclude(i) ==
  /\ phase[i] = "ending"
  /\ noticed' = [noticed EXCEPT ![i] = Notice(i)]
  /\ phase' = [phase EXCEPT ![i] = "sending"]
  /\ UNCHANGED <<schedule, interrupt, at, flow, status, channel, coordinator,
                 presses, swallowed>>

WorkerStatus(i) == status[i]
WorkerSuccess(i) == flow[i] = "Normal" /\ status[i]
SendUnlessExit(i) ==
  /\ phase[i] = "sending"
  /\ channel' = IF flow[i] = "ShellExit" THEN channel
                ELSE Append(channel, [index |-> i, success |-> WorkerSuccess(i),
                                      interrupted |-> noticed[i]])
  /\ phase' = [phase EXCEPT ![i] = "sent"]
  /\ UNCHANGED <<schedule, interrupt, at, flow, status, noticed, coordinator,
                 presses, swallowed>>
Send(i) ==
  /\ phase[i] = "sending"
  /\ channel' = Append(channel, [index |-> i, success |-> WorkerSuccess(i),
                                 interrupted |-> noticed[i]])
  /\ phase' = [phase EXCEPT ![i] = "sent"]
  /\ UNCHANGED <<schedule, interrupt, at, flow, status, noticed, coordinator,
                 presses, swallowed>>

(* request_interrupt sets the flag; that it also cancels the commands of   *)
(* the executing statements is ExecutionManager's part.                    *)
CtrlC ==
  /\ main # "done"
  /\ presses < Presses
  /\ presses' = presses + 1
  /\ interrupt' = TRUE
  /\ UNCHANGED <<schedule, worker, channel, coordinator, swallowed>>

-----------------------------------------------------------------------------

CoordinatorStep == LaunchFirst \/ StartReceiving \/ Receive \/ Refill \/ Finish

WorkerStep(i) ==
  \/ RuntimeFails(i) \/ Poll(i) \/ Statement(i) \/ LoopPoll(i)
  \/ BuiltinTakesInterrupt(i) \/ ExitStatement(i) \/ BodyEnds(i)
  \/ Conclude(i) \/ Send(i)

Next == CoordinatorStep \/ (\E i \in Item : WorkerStep(i)) \/ CtrlC

Spec == Init /\ [][Next]_vars

(* Threads keep running and every statement ends: commands finish by       *)
(* themselves or because Ctrl+C cancelled them.                            *)
FairSpec == /\ Spec
            /\ WF_vars(CoordinatorStep)
            /\ \A i \in Item : WF_vars(WorkerStep(i))

-----------------------------------------------------------------------------

(* The count the schedule keeps is the number of threads launched and not  *)
(* yet joined, however completions and launches interleave: never more     *)
(* than --workers threads live, and the loop that stops at active = 0      *)
(* leaves no thread behind and no result in the channel.                   *)
SlotsMatchThreads ==
  /\ active = Cardinality({i \in Item : phase[i] # "queued" /\ results[i] = {}})
  /\ active <= Workers
  /\ main = "done" => \A i \in Item : phase[i] \in {"queued", "sent"}

(* The statement succeeds only when all workers succeed: every input was   *)
(* launched, and each of their blocks ran to its end with success.         *)
SuccessMeansAllSucceeded ==
  main = "done" /\ outcome.success =>
    \A i \in Item : at[i] = Statements /\ flow[i] = "Normal" /\ status[i]

(* An interrupt is neither lost nor left over, although any of several     *)
(* threads may take it from the shared flag: unless a builtin handled it   *)
(* as its own, a Ctrl+C makes the whole block return Interrupted, and when *)
(* the block returns the flag is clear, so no later statement is aborted.  *)
InterruptAccountedFor ==
  main = "done" =>
    /\ presses > 0 /\ ~swallowed => outcome.flow = "Interrupted"
    /\ ~interrupt

(* The statement ends once every launched worker has unwound.              *)
BlockEnds == <>(main = "done")
=============================================================================

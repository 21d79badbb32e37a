------------------------ MODULE MCExecutionManager ------------------------
(* Launches for the bounded instances of ExecutionManager.                 *)
EXTENDS ExecutionManager

Launch(kind, stages) == [kind |-> kind, stages |-> stages, timeout |-> FALSE,
                         limits |-> FALSE, stubborn |-> FALSE]
Task == [Launch("external", 1) EXCEPT !.timeout = TRUE, !.stubborn = TRUE]
LimitedTask == [Launch("external", 1) EXCEPT !.limits = TRUE]

(* A task, a captured command, a foreground pipeline or a background one,  *)
(* before or beside a command under limits, as another worker of a         *)
(* parallel block would run it, or a background job with no process.       *)
MixedLaunches ==
  <<{Task, Launch("captured", 1), Launch("pipeline", 2), Launch("background", 2)},
    {LimitedTask, Launch("background", 0)}>>

(* One background pipeline of two stages.                                  *)
BackgroundLaunch == <<{Launch("background", 2)}>>

(* A stubborn task with a deadline, beside or before a well-behaved        *)
(* command or a background job.                                            *)
LivenessLaunches ==
  <<{Task}, {Launch("captured", 1), Launch("background", 1)}>>
=============================================================================

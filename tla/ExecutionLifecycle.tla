------------------------- MODULE ExecutionLifecycle -------------------------
(***************************************************************************)
(* What a user of `exec list` and `exec show` may observe of an execution  *)
(* (ARCHITECTURE.md, sections 44 to 46): it is created, started, runs,     *)
(* and ends in exactly one of four ways, after which its record never      *)
(* changes until the bounded history forgets it.  A disowned execution is  *)
(* forgotten while it runs.                                                *)
(***************************************************************************)
CONSTANT ExecutionId

VARIABLE phase    \* what is known of each execution id

Active == {"Created", "Starting", "Running", "Cancelling"}
Terminal == {"Completed", "Failed", "Cancelled", "TimedOut"}
Phase == Active \cup Terminal \cup {"unborn", "forgotten"}

(* ExecutionState::can_transition_to.  begin_pipeline makes two of its     *)
(* steps in one critical section, hence Created to Running.                *)
CanTransitionTo ==
  {<<"Created", "Starting">>, <<"Created", "Running">>}
    \cup ({"Starting"} \X {"Running", "Failed"})
    \cup ({"Running"} \X {"Completed", "Failed", "Cancelling"})
    \cup ({"Cancelling"} \X {"Cancelled", "TimedOut"})

Forget == (Terminal \cup {"Running", "Cancelling"}) \X {"forgotten"}

Step == CanTransitionTo \cup Forget \cup {<<"unborn", "Created">>}

Init == phase = [id \in ExecutionId |-> "unborn"]

(* Ctrl+C moves several executions at once; retiring one may evict the     *)
(* record of another.                                                      *)
Next == /\ phase' \in [ExecutionId -> Phase]
        /\ \A id \in ExecutionId :
             phase'[id] = phase[id] \/ <<phase[id], phase'[id]>> \in Step

Spec == Init /\ [][Next]_phase
=============================================================================

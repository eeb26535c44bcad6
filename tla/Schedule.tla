------------------------------- MODULE Schedule -------------------------------
(***************************************************************************)
(* What the engine's three schedulers promise, without the count-downs and *)
(* levels that keep the promise: tasks that come after one another, be     *)
(* they the ops of a step (StepOps), the steps of a deploy (PlanExec) or   *)
(* the lanes of a run (Deploys).  A task begins once, when all it comes    *)
(* after is done; the run says "all" only when every task is done, and     *)
(* stops short with nothing left running and a failure to show for it,     *)
(* or before any task began.                                               *)
(***************************************************************************)
VARIABLES
    waits,      \* waits[t]: the tasks that t comes after
    stage,      \* where each task is
    over        \* what the run has answered: "no", "all" or "some"

vars == <<waits, stage, over>>

Task == DOMAIN waits

Done(t)  == stage[t] \in {"found", "done"}
Ready(t) == \A u \in waits[t] : Done(u)
NoneBegan == \A t \in Task : stage[t] \in {"waits", "found"}
NoneRuns  == \A t \in Task : stage[t] # "runs"

\* A run that cannot be ordered is over before it begins; in another, what
\* comes after nothing may begin at once.
Init ==
    /\ \A t \in Task : waits[t] \subseteq Task \ {t}
    /\ stage \in [Task -> {"waits", "runs"}]
    /\ \A t \in Task : stage[t] = "runs" => waits[t] = {}
    /\ over \in {"no", "some"}
    /\ over = "some" => NoneBegan

\* The task has nothing to do, which is found out before any begins.
Find(t) ==
    /\ over = "no" /\ NoneBegan /\ stage[t] = "waits"
    /\ stage' = [stage EXCEPT ![t] = "found"]
    /\ UNCHANGED <<waits, over>>

\* Tasks that are ready begin, perhaps several at once.
Begin(S) ==
    /\ over = "no"
    /\ \A t \in S : stage[t] = "waits" /\ Ready(t)
    /\ stage' = [t \in Task |-> IF t \in S THEN "runs" ELSE stage[t]]
    /\ UNCHANGED <<waits, over>>

End(t, how) ==
    /\ over = "no" /\ stage[t] = "runs"
    /\ stage' = [stage EXCEPT ![t] = how]
    /\ UNCHANGED <<waits, over>>

\* The turn of the task has come, but the run is being cut off.
GiveUp(t) ==
    /\ over = "no" /\ stage[t] = "waits" /\ Ready(t)
    /\ stage' = [stage EXCEPT ![t] = "failed"]
    /\ UNCHANGED <<waits, over>>

Succeed ==
    /\ over = "no" /\ \A t \in Task : Done(t)
    /\ over' = "all"
    /\ UNCHANGED <<waits, stage>>

Stop ==
    /\ over = "no" /\ NoneRuns
    /\ NoneBegan \/ \E t \in Task : stage[t] = "failed"
    /\ over' = "some"
    /\ UNCHANGED <<waits, stage>>

\* A run that went well may be followed by another of the same tasks.
Restart ==
    /\ over = "all" /\ over' = "no"
    /\ stage' = [t \in Task |-> "waits"]
    /\ UNCHANGED waits

Next ==
    \/ \E S \in SUBSET Task : Begin(S)
    \/ \E t \in Task : Find(t) \/ GiveUp(t) \/ \E how \in {"done", "failed"} : End(t, how)
    \/ Succeed \/ Stop \/ Restart

Spec == Init /\ [][Next]_vars
=============================================================================

------------------------------ MODULE PlanExec ------------------------------
(***************************************************************************)
(* checkPlan and executePlan of internal/engine/exec.go: the steps of one  *)
(* deploy, run by goroutines in the order the step graph allows, first in  *)
(* a check run and, if that went well, in an apply run on the same target, *)
(* or in an apply run alone.                                               *)
(*                                                                         *)
(* A step that has what it waits for is given a goroutine (scheduleNode),  *)
(* which returns at once when the group's context is done, and otherwise   *)
(* runs the step.  What a step does is abstracted to what it returns (see  *)
(* StepOps), to whether it changes or would change anything, and to what   *)
(* of its needs is missing on the target when it looks.  A check run       *)
(* defers on a missing resource that the steps finished when this one was  *)
(* scheduled would provide.                                                *)
(***************************************************************************)
EXTENDS StepGraph

CONSTANTS
    Plans,      \* the step sequences considered
    Targets     \* what may be present on the target at first

ASSUME PlansAssumption == \A steps \in Plans : steps \in Seq(StepDecl) /\ ValidPlan(steps)
ASSUME TargetsAssumption == Targets \subseteq SUBSET Resource

StepErr == {"AbortError", "StepAbortedError", "raw", "cancelled", "missing"}
NoErr == "none"

VARIABLES
    steps, checkOnly,
    present,    \* the resources on the target
    pc,         \* where the goroutine of each step is
    pending,    \* stepNode.pending
    snap,       \* the provided set a step was scheduled with
    changed,    \* rep.Steps: whether the step changed, or would change, something
    err,        \* what the step returned
    provided,   \* what the changed steps of a check run provide
    planErr,    \* the first error, kept by the errgroup
    cancelled,  \* the user interrupted the run
    verdict,    \* what ExecutePlan / CheckPlan returned
    checkVerdict    \* what the check run before this apply run returned

vars == <<steps, checkOnly, present, pc, pending, snap, changed, err, provided,
          planErr, cancelled, verdict, checkVerdict>>

N == DOMAIN steps
Verdicts == {"none", "ok", "AbortError", "StepAbortedError", "CancelledError", "panic"}

TypeOK ==
    /\ steps \in Plans /\ checkOnly \in BOOLEAN
    /\ present \subseteq Resource
    /\ pc \in [N -> {"waiting", "scheduled", "running", "failing", "over"}]
    /\ pending \in [N -> Nat]
    /\ snap \in [N -> SUBSET Resource]
    /\ changed \in [N -> BOOLEAN]
    /\ err \in [N -> StepErr \cup {NoErr}]
    /\ provided \subseteq Resource
    /\ planErr \in StepErr \cup {NoErr}
    /\ cancelled \in BOOLEAN
    /\ verdict \in Verdicts /\ checkVerdict \in Verdicts

(***************************************************************************)
(* Operators named Bug... are plausible mistakes in the definition that    *)
(* follows them, for the mutation runs.                                    *)
(***************************************************************************)

BugPendingResourcesOnly(ss) ==
    [n \in DOMAIN ss |->
        Cardinality({m \in DOMAIN ss : <<m, n>> \in ResourceEdges(ss)})]

\* initStepPending, and the roots scheduled under mu with an empty snapshot.
PendingOf(ss) == [n \in DOMAIN ss |-> Cardinality(Requires(ss)[n])]
StartPc(ss)   == [n \in DOMAIN ss |-> IF PendingOf(ss)[n] = 0 THEN "scheduled"
                                      ELSE "waiting"]

Init ==
    /\ steps \in Plans /\ checkOnly \in BOOLEAN
    /\ present \in Targets
    /\ pc = StartPc(steps) /\ pending = PendingOf(steps)
    /\ snap = [n \in N |-> {}]
    /\ changed = [n \in N |-> FALSE]
    /\ err = [n \in N |-> NoErr]
    /\ provided = {}
    /\ planErr = NoErr
    /\ cancelled = FALSE
    /\ verdict = "none" /\ checkVerdict = "none"

run == <<steps, checkOnly, checkVerdict>>

-----------------------------------------------------------------------------
GroupDone == cancelled \/ planErr # NoErr

\* The goroutine of a step begins; it gives up when the context is done.
Begin(n) ==
    /\ pc[n] = "scheduled"
    /\ IF GroupDone
       THEN /\ pc' = [pc EXCEPT ![n] = "failing"]
            /\ err' = [err EXCEPT ![n] = "cancelled"]
       ELSE /\ pc' = [pc EXCEPT ![n] = "running"]
            /\ UNCHANGED err
    /\ UNCHANGED <<run, present, pending, snap, changed, provided, planErr,
                   cancelled, verdict>>

(***************************************************************************)
(* What step n misses when it looks, and what of that a check run defers   *)
(* (isDeferred): a resource of the snapshot, or a directory above one.     *)
(***************************************************************************)
Missing(n) == steps[n].needs \ present

Deferred(S) == S \cup Above(S)

BugEveryMissingDeferred(n) == IF checkOnly THEN {} ELSE Missing(n)

Blocked(n) == IF checkOnly THEN Missing(n) \ Deferred(snap[n]) ELSE Missing(n)

\* A step that misses what it provides or needs has something to change.
Converged(n) == steps[n].provides \cup steps[n].needs \subseteq present

\* What a step provides is there afterwards, with the directories above it.
Applied(n) == present \cup Deferred(steps[n].provides)

Waiters(n) == {m \in N : n \in Requires(steps)[m]}

BugAnyProviderSchedules(n, ch) ==
    /\ pc[n] = "running" /\ Blocked(n) = {}
    /\ ~Converged(n) => ch
    /\ changed' = [changed EXCEPT ![n] = ch]
    /\ present' = IF checkOnly THEN present ELSE Applied(n)
    /\ provided' = IF checkOnly /\ ch THEN provided \cup steps[n].provides
                   ELSE provided
    /\ pc' = [m \in N |-> IF m = n THEN "over"
                          ELSE IF m \in Waiters(n) /\ pc[m] = "waiting"
                          THEN "scheduled" ELSE pc[m]]
    /\ UNCHANGED <<run, pending, snap, err, planErr, cancelled, verdict>>

\* The step returned without an error: the section of checkPlan / executePlan
\* that holds mu.
StepSucceeds(n, ch) ==
    /\ pc[n] = "running" /\ Blocked(n) = {}
    /\ ~Converged(n) => ch
    /\ changed' = [changed EXCEPT ![n] = ch]
    /\ present' = IF checkOnly THEN present ELSE Applied(n)
    /\ provided' = IF checkOnly /\ ch THEN provided \cup steps[n].provides
                   ELSE provided
    /\ pending' = [m \in N |-> IF m \in Waiters(n) THEN pending[m] - 1
                               ELSE pending[m]]
    /\ pc' = [m \in N |-> IF m = n THEN "over"
                          ELSE IF m \in Waiters(n) /\ pending[m] = 1
                          THEN "scheduled" ELSE pc[m]]
    /\ snap' = [m \in N |-> IF m \in Waiters(n) /\ pending[m] = 1
                            THEN provided' ELSE snap[m]]
    /\ UNCHANGED <<run, err, planErr, cancelled, verdict>>

\* The step returned an error.
StepFails(n, e) ==
    /\ pc[n] = "running"
    /\ e = "missing" => Blocked(n) # {}
    /\ e = "cancelled" => GroupDone
    /\ pc' = [pc EXCEPT ![n] = "failing"]
    /\ err' = [err EXCEPT ![n] = e]
    /\ UNCHANGED <<run, present, pending, snap, changed, provided, planErr,
                   cancelled, verdict>>

BugLastErrorWins(n) ==
    /\ pc[n] = "failing"
    /\ pc' = [pc EXCEPT ![n] = "over"]
    /\ planErr' = err[n]
    /\ UNCHANGED <<run, present, pending, snap, changed, err, provided,
                   cancelled, verdict>>

\* The goroutine hands its error to the group, which keeps the first one and
\* cancels the context.
GroupFails(n) ==
    /\ pc[n] = "failing"
    /\ pc' = [pc EXCEPT ![n] = "over"]
    /\ planErr' = IF planErr = NoErr THEN err[n] ELSE planErr
    /\ UNCHANGED <<run, present, pending, snap, changed, err, provided,
                   cancelled, verdict>>

BugCancelledIsOk(e) ==
    CASE e \in {NoErr, "cancelled"}         -> "ok"
      [] e \in {"AbortError", "missing"}   -> "AbortError"
      [] e = "StepAbortedError"            -> "StepAbortedError"
      [] OTHER                             -> "panic"

\* panicIfNotAbortError
VerdictOf(e) ==
    CASE e = NoErr                         -> "ok"
      [] e \in {"AbortError", "missing"}   -> "AbortError"
      [] e = "StepAbortedError"            -> "StepAbortedError"
      [] e = "cancelled"                   -> "CancelledError"
      [] OTHER                             -> "panic"

BugWaitsForEveryStep ==
    /\ verdict = "none"
    /\ \A n \in N : pc[n] = "over"
    /\ verdict' = VerdictOf(planErr)
    /\ UNCHANGED <<run, present, pc, pending, snap, changed, err, provided,
                   planErr, cancelled>>

\* grp.Wait, then the rest of CheckPlan / ExecutePlan.
Wait ==
    /\ verdict = "none"
    /\ \A n \in N : pc[n] \in {"waiting", "over"}
    /\ verdict' = VerdictOf(planErr)
    /\ UNCHANGED <<run, present, pc, pending, snap, changed, err, provided,
                   planErr, cancelled>>

Cancel ==
    /\ ~cancelled /\ verdict = "none"
    /\ cancelled' = TRUE
    /\ UNCHANGED <<run, present, pc, pending, snap, changed, err, provided,
                   planErr, verdict>>

\* A check run went well, and an apply run of the same configuration follows.
ApplyAfterCheck ==
    /\ checkOnly /\ verdict = "ok" /\ ~cancelled
    /\ checkOnly' = FALSE /\ checkVerdict' = verdict
    /\ pc' = StartPc(steps) /\ pending' = PendingOf(steps)
    /\ snap' = [n \in N |-> {}]
    /\ changed' = [n \in N |-> FALSE]
    /\ provided' = {}
    /\ verdict' = "none"
    /\ UNCHANGED <<steps, present, err, planErr, cancelled>>

Finished == verdict # "none" /\ UNCHANGED vars

StepNext(n) ==
    \/ Begin(n)
    \/ \E ch \in BOOLEAN : StepSucceeds(n, ch)
    \/ \E e \in StepErr : StepFails(n, e)
    \/ GroupFails(n)

Next == Wait \/ Cancel \/ ApplyAfterCheck \/ Finished \/ \E n \in N : StepNext(n)

(***************************************************************************)
(* Every goroutine runs, and every step ends (StepOps!StepEnds).           *)
(***************************************************************************)
Fairness == WF_vars(Wait \/ \E n \in N : StepNext(n))

Spec == Init /\ [][Next]_vars /\ Fairness

-----------------------------------------------------------------------------
(***************************************************************************)
(* Properties                                                              *)
(***************************************************************************)
Started(n) == pc[n] \in {"running", "failing", "over"} /\ err[n] # "cancelled"
FinishedWell(n) == pc[n] = "over" /\ err[n] = NoErr

\* A step starts only after every step it waits for returned without an
\* error, so nothing runs downstream of a failure.
RequiredFirst ==
    \A n \in N : pc[n] # "waiting" => \A m \in Requires(steps)[n] : FinishedWell(m)

\* internal/engine/step_graph.go:79-83: the fences with O(n) edges give the
\* order a fence against every other step would, "nothing may reorder across
\* them", and an opaque step (run, pkg, service) runs alone.
FencesHold ==
    \A e \in AllFences(steps) : pc[e[2]] # "waiting" => FinishedWell(e[1])

\* The steps that n comes after: those it requires, and those that a fence,
\* or n as a fence, puts before it.
ComesAfter(n) == {m \in N : <<m, n>> \in Edges(steps) \cup AllFences(steps)}

StageOf(n) ==
    IF err[n] # NoErr THEN "failed"
    ELSE CASE pc[n] = "over"    -> "done"
           [] pc[n] = "running" -> "runs"
           [] OTHER             -> "waits"

OverOf == CASE verdict = "none" -> "no" [] verdict = "ok" -> "all" [] OTHER -> "some"

Sched ==
    INSTANCE Schedule WITH
        waits <- [n \in N |-> ComesAfter(n)],
        stage <- [n \in N |-> StageOf(n)],
        over  <- OverOf

\* executePlan and checkPlan run the steps of a deploy as Schedule has it, a
\* step after all that the resources and the fences put before it: each once,
\* with a success when all of them ended well, and none running when the group
\* is joined; and an apply follows only a check that went through.
KeepsSchedule == Sched!Spec

\* A step never finds missing what another step of the plan declares to
\* provide: not in a check run, which creates nothing, and not in an apply
\* run, whatever runs beside it.
ProvidedInTime ==
    \A n \in N : pc[n] = "running" =>
        \A r \in Blocked(n), m \in N \ {n} : r \notin steps[m].provides

\* A check run that went well foretells the apply run: no step of the apply
\* finds missing what the check had deferred.
CheckForetellsApply ==
    checkVerdict = "ok" => \A n \in N : err[n] # "missing"

\* Neither a check, which creates nothing, nor the apply it foretells finds
\* missing what the plan itself provides (isDeferred, checkPlan).
NothingMissed == ProvidedInTime /\ CheckForetellsApply

\* What the run returns is the first failure and never the cancellation that
\* failure spread: it answers "interrupted" only to an interrupt.
InterruptedOnlyByUser == verdict = "CancelledError" => cancelled

\* A run that answers success ran every step of the plan.
SuccessIsComplete == verdict = "ok" => \A n \in N : FinishedWell(n)

\* What a run of a plan answers is so: it was interrupted, it went through
\* (executePlan).
VerdictIsTrue == InterruptedOnlyByUser /\ SuccessIsComplete

\* Every run ends: no step is left waiting while none runs, and a failure or
\* an interrupt does not hang the group.
RunEnds == []<>(verdict # "none")

-----------------------------------------------------------------------------
(***************************************************************************)
(* The inductive invariant of PlanExec: what ties the count-downs, the     *)
(* errors and the verdict to where the goroutines are.  TLC checks it on   *)
(* the same instances as the properties; PlanExecProofs proves it          *)
(* inductive.                                                              *)
(***************************************************************************)

Awaited(n) == {m \in Requires(steps)[n] : ~FinishedWell(m)}

\* The count-down of a step is exact, and a step waits as long as it is not
\* over.
PendingInv ==
    \A n \in N :
        /\ pending[n] = Cardinality(Awaited(n))
        /\ pc[n] = "waiting" <=> pending[n] # 0

\* An error is set when a goroutine fails, is handed to the group before the
\* goroutine is over, and is a cancellation only when the context is done.
ErrInv ==
    \A n \in N :
        /\ pc[n] \in {"waiting", "scheduled", "running"} => err[n] = NoErr
        /\ pc[n] = "failing" => err[n] # NoErr
        /\ pc[n] = "over" /\ err[n] # NoErr => planErr # NoErr
        /\ err[n] = "cancelled" => GroupDone

\* The first error is that of a step, and a cancellation only when it came from
\* above.
CauseInv ==
    /\ planErr = "cancelled" => cancelled
    /\ planErr # NoErr => \E n \in N : err[n] = planErr

\* Once the run has answered, nothing of it moves.
VerdictInv ==
    verdict # "none" =>
        /\ verdict = VerdictOf(planErr)
        /\ \A n \in N : pc[n] \in {"waiting", "over"}

IInv == TypeOK /\ PendingInv /\ ErrInv /\ CauseInv /\ VerdictInv
(***************************************************************************)
(* What the plan provides, and when it is there; inductive beside IInv for *)
(* plans that are WellDeclared.                                            *)
(***************************************************************************)

\* What is there or, in a check run, deferred.
AtHand == present \cup provided

\* A step that ended well left what it provides, or has it deferred, and what
\* it needed is there or provided by another.
ProvidedInv ==
    /\ ~checkOnly => provided = {}
    /\ \A r \in provided : \E m \in N : FinishedWell(m) /\ r \in steps[m].provides
    /\ Above(provided) \subseteq AtHand
    /\ \A n \in N : FinishedWell(n) =>
          /\ steps[n].provides \subseteq AtHand
          /\ \A r \in steps[n].needs \ present :
                \E m \in N \ {n} : r \in steps[m].provides

\* The snapshot of a step holds what the steps it waited for provide.
SnapInv ==
    \A n \in N : /\ snap[n] \subseteq provided
                 /\ pc[n] # "waiting" =>
                       \A m \in Requires(steps)[n] :
                           steps[m].provides \subseteq present \cup snap[n]

\* After a check run that went well, what a step needs is there or provided by
\* another, and no step finds it missing.
ForetoldInv ==
    /\ checkVerdict = "ok" =>
          /\ ~checkOnly
          /\ \A n \in N : /\ err[n] # "missing"
                          /\ \A r \in steps[n].needs \ present :
                                \E m \in N \ {n} : r \in steps[m].provides
    /\ checkVerdict \in {"none", "ok"} /\ (checkOnly => checkVerdict = "none")

SupplyInv == ProvidedInv /\ SnapInv /\ ForetoldInv
=============================================================================

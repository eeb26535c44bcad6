------------------------------- MODULE StepOps -------------------------------
(***************************************************************************)
(* One run of one step: runStep (apply) or runCheckStep (check) of         *)
(* internal/engine/exec.go, with the op graph buildPlan made for it.       *)
(*                                                                         *)
(* Every op is checked by a goroutine of its own, with no order between    *)
(* them.  When all checks went through, apply counts for each op how many  *)
(* of its unsatisfied dependencies are outstanding (initPending) and runs  *)
(* the ops whose count is zero, each in a goroutine; a goroutine that      *)
(* succeeds counts its dependents down under s.mu and starts the ones that *)
(* reach zero.  errgroup keeps the first error and cancels the context the *)
(* other goroutines run under; it stops none of them.                      *)
(*                                                                         *)
(* An action is one critical section of s.mu, or one stretch of a          *)
(* goroutine that reads or writes nothing shared.                          *)
(***************************************************************************)
EXTENDS Naturals, FiniteSets

CONSTANTS
    Op,         \* the ops of the step
    Graphs      \* the DependsOn functions of the steps considered

ASSUME OpAssumption == IsFiniteSet(Op)

\* buildPlan panics on a graph it cannot sort: some op of any set of ops
\* depends on none of the set.
Acyclic(g) == \A S \in SUBSET Op : S # {} => \E o \in S : g[o] \cap S = {}

ASSUME GraphAssumption ==
    Graphs \subseteq [Op -> SUBSET Op] /\ \A g \in Graphs : Acyclic(g)

(***************************************************************************)
(* What Check and Execute may return in place of a result: a diagnostic    *)
(* that asks for an abort, one that does not, an error that is no          *)
(* diagnostic (an expired op timeout is one), the context's cancellation.  *)
(***************************************************************************)
OpErr == {"abort", "soft", "raw", "cancelled"}
NoErr == "none"

\* The error a step returns to the plan scheduler.
StepErr == {NoErr, "AbortError", "StepAbortedError", "raw", "cancelled"}

Outcomes == {"unknown", "Succeeded", "Failed", "Aborted", "Skipped", "WouldChange"}

VARIABLES
    deps,       \* deps[o]: the ops o depends on (buildPlan)
    checkOnly,  \* runCheckStep instead of runStep
    upstream,   \* an earlier step of a check provides what a check may miss
    phase,      \* where the goroutine of runStep / runCheckStep is
    pc,         \* where the goroutine of each op is
    satisfied, pending, outcome, err, changed,      \* opNode
    checkErr, execErr,                              \* the two errgroups
    cancelled,  \* the plan's context is done
    stepErr,    \* what the step returned
    calls       \* how often Execute was called, a history variable

vars == <<deps, checkOnly, upstream, phase, pc, satisfied, pending, outcome,
          err, changed, checkErr, execErr, cancelled, stepErr, calls>>

node  == <<satisfied, pending, outcome, err, changed>>
plan  == <<deps, checkOnly, upstream>>

TypeOK ==
    /\ deps \in Graphs
    /\ checkOnly \in BOOLEAN /\ upstream \in BOOLEAN
    /\ phase \in {"checks", "exec", "report", "done", "panicked"}
    /\ pc \in [Op -> {"checking", "idle", "scheduled", "running", "failing", "over"}]
    /\ satisfied \in [Op -> BOOLEAN]
    /\ pending \in [Op -> Nat]
    /\ outcome \in [Op -> Outcomes]
    /\ err \in [Op -> OpErr \cup StepErr]
    /\ changed \in [Op -> BOOLEAN]
    /\ checkErr \in StepErr /\ execErr \in OpErr \cup {NoErr}
    /\ cancelled \in BOOLEAN
    /\ stepErr \in StepErr
    /\ calls \in [Op -> Nat]

Init ==
    /\ deps \in Graphs
    /\ checkOnly \in BOOLEAN
    /\ upstream \in {b \in BOOLEAN : b => checkOnly}
    /\ phase = "checks"
    /\ pc = [o \in Op |-> "checking"]
    /\ satisfied = [o \in Op |-> FALSE]
    /\ pending = [o \in Op |-> 0]
    /\ outcome = [o \in Op |-> "unknown"]
    /\ err = [o \in Op |-> NoErr]
    /\ changed = [o \in Op |-> FALSE]
    /\ checkErr = NoErr /\ execErr = NoErr
    /\ cancelled = FALSE
    /\ stepErr = NoErr
    /\ calls = [o \in Op |-> 0]

-----------------------------------------------------------------------------
(***************************************************************************)
(* Operators named Bug... are plausible mistakes in the definition that    *)
(* follows them.  Nothing uses them; the mutation runs put them in its     *)
(* place to show that a property notices.                                  *)
(***************************************************************************)

BugLastErr(kept, e) == e

\* errgroup.Group keeps the first error it is given.
FirstErr(kept, e) == IF kept = NoErr THEN e ELSE kept

\* The contexts the ops run under: cancelled from above, or by a first error.
CheckCtxDone == cancelled \/ checkErr # NoErr
ExecCtxDone  == cancelled \/ execErr # NoErr

(***************************************************************************)
(* runChecks, one goroutine per op.                                        *)
(***************************************************************************)

\* Check returned a verdict, perhaps with a diagnostic that does not abort.
CheckPasses(o, sat) ==
    /\ pc[o] = "checking"
    /\ pc' = [pc EXCEPT ![o] = "idle"]
    /\ satisfied' = [satisfied EXCEPT ![o] = sat]
    /\ outcome' = [outcome EXCEPT ![o] = IF sat THEN "Skipped" ELSE @]
    /\ UNCHANGED <<plan, phase, pending, err, changed, checkErr, execErr,
                   cancelled, stepErr, calls>>

\* isDeferred: the check misses what an upstream step of this check provides.
CheckDeferred(o) ==
    /\ pc[o] = "checking" /\ upstream
    /\ pc' = [pc EXCEPT ![o] = "idle"]
    /\ outcome' = [outcome EXCEPT ![o] = "WouldChange"]
    /\ UNCHANGED <<plan, phase, satisfied, pending, err, changed, checkErr,
                   execErr, cancelled, stepErr, calls>>

\* A diagnostic that aborts settles the op; a raw error leaves it open.
CheckFails(o, e) ==
    /\ pc[o] = "checking"
    /\ e \in {"abort", "raw", "cancelled"}
    /\ e = "cancelled" => CheckCtxDone
    /\ pc' = [pc EXCEPT ![o] = "idle"]
    /\ outcome' = [outcome EXCEPT ![o] = IF e = "abort" THEN "Aborted" ELSE @]
    /\ err' = [err EXCEPT ![o] = IF e = "abort" THEN "abort" ELSE @]
    /\ checkErr' = FirstErr(checkErr, IF e = "abort" THEN "AbortError" ELSE e)
    /\ UNCHANGED <<plan, phase, satisfied, pending, changed, execErr, cancelled,
                   stepErr, calls>>

\* g.Wait of runChecks.
ChecksJoined == phase = "checks" /\ \A o \in Op : pc[o] # "checking"

-----------------------------------------------------------------------------
(***************************************************************************)
(* The execution phase of runStep.                                         *)
(***************************************************************************)

BugPendingInverted ==
    [o \in Op |-> IF satisfied[o] THEN 0
                  ELSE Cardinality({d \in deps[o] : satisfied[d]})]

BugPendingCountsSatisfied ==
    [o \in Op |-> IF satisfied[o] THEN 0 ELSE Cardinality(deps[o])]

\* initPending: what each op waits for is counted over direct, unsatisfied
\* dependencies.
PendingAtStart ==
    [o \in Op |-> IF satisfied[o] THEN 0
                  ELSE Cardinality({d \in deps[o] : ~satisfied[d]})]

BugStartsSatisfied ==
    /\ ChecksJoined /\ ~checkOnly /\ checkErr = NoErr
    /\ phase' = "exec"
    /\ pending' = PendingAtStart
    /\ pc' = [o \in Op |-> IF PendingAtStart[o] = 0 THEN "scheduled" ELSE pc[o]]
    /\ UNCHANGED <<plan, satisfied, outcome, err, changed, checkErr, execErr,
                   cancelled, stepErr, calls>>

BugStartsDespiteCheckErr ==
    /\ ChecksJoined /\ ~checkOnly
    /\ phase' = "exec"
    /\ pending' = PendingAtStart
    /\ pc' = [o \in Op |-> IF ~satisfied[o] /\ PendingAtStart[o] = 0
                           THEN "scheduled" ELSE pc[o]]
    /\ UNCHANGED <<plan, satisfied, outcome, err, changed, checkErr, execErr,
                   cancelled, stepErr, calls>>

\* initPending, then the roots are scheduled while s.mu is held.
StartExec ==
    /\ ChecksJoined /\ ~checkOnly /\ checkErr = NoErr
    /\ phase' = "exec"
    /\ pending' = PendingAtStart
    /\ pc' = [o \in Op |-> IF ~satisfied[o] /\ PendingAtStart[o] = 0
                           THEN "scheduled" ELSE pc[o]]
    /\ UNCHANGED <<plan, satisfied, outcome, err, changed, checkErr, execErr,
                   cancelled, stepErr, calls>>

\* A scheduled goroutine calls Execute, whatever became of the context.
Execute(o) ==
    /\ pc[o] = "scheduled"
    /\ pc' = [pc EXCEPT ![o] = "running"]
    /\ calls' = [calls EXCEPT ![o] = @ + 1]
    /\ UNCHANGED <<plan, phase, node, checkErr, execErr, cancelled, stepErr>>

BugDependentsAll(o) == {d \in Op : o \in deps[d]}
Dependents(o) == {d \in Op : o \in deps[d] /\ ~satisfied[d]}

\* Execute returned no error: the section of schedule that holds s.mu.
ExecSucceeds(o, ch) ==
    /\ pc[o] = "running"
    /\ outcome' = [outcome EXCEPT ![o] = "Succeeded"]
    /\ changed' = [changed EXCEPT ![o] = ch]
    /\ pending' = [d \in Op |-> IF d \in Dependents(o) THEN pending[d] - 1
                                ELSE pending[d]]
    /\ pc' = [d \in Op |-> IF d = o THEN "over"
                           ELSE IF d \in Dependents(o) /\ pending[d] = 1
                           THEN "scheduled" ELSE pc[d]]
    /\ UNCHANGED <<plan, phase, satisfied, err, checkErr, execErr, cancelled,
                   stepErr, calls>>

\* Execute returned an error: the node is settled under s.mu; the group does
\* not know of it yet.
ExecFails(o, e) ==
    /\ pc[o] = "running"
    /\ e = "cancelled" => ExecCtxDone
    /\ pc' = [pc EXCEPT ![o] = "failing"]
    /\ outcome' = [outcome EXCEPT ![o] = "Failed"]
    /\ err' = [err EXCEPT ![o] = e]
    /\ UNCHANGED <<plan, phase, satisfied, pending, changed, checkErr, execErr,
                   cancelled, stepErr, calls>>

\* The goroutine hands its error to the group, which cancels the context.
GroupFails(o) ==
    /\ pc[o] = "failing"
    /\ pc' = [pc EXCEPT ![o] = "over"]
    /\ execErr' = FirstErr(execErr, err[o])
    /\ UNCHANGED <<plan, phase, node, checkErr, cancelled, stepErr, calls>>

\* s.grp.Wait.
ExecJoined ==
    phase = "exec" /\ \A o \in Op : pc[o] \notin {"scheduled", "running", "failing"}

Join ==
    /\ \/ ChecksJoined /\ (checkOnly \/ checkErr # NoErr)
       \/ ExecJoined
    /\ phase' = "report"
    /\ UNCHANGED <<plan, pc, node, checkErr, execErr, cancelled, stepErr, calls>>

-----------------------------------------------------------------------------
(***************************************************************************)
(* What runStep and runCheckStep return.                                   *)
(***************************************************************************)

\* cmp.Or(checkErr, execErr)
FirstError == IF checkErr # NoErr THEN checkErr ELSE execErr

BugSoftErrSwallowed(e) ==
    CASE e = "abort" -> "AbortError"
      [] e = "soft"  -> NoErr
      [] OTHER       -> e

\* emitStepDiagnostic and the switch after it.
StepErrOf(e) ==
    CASE e = "abort" -> "AbortError"
      [] e = "soft"  -> "StepAbortedError"
      [] OTHER       -> e

BugOutcomeLeftOpen(o) ==
    IF outcome[o] = "unknown" /\ checkOnly /\ ~satisfied[o]
    THEN "WouldChange" ELSE outcome[o]

\* An op that has no outcome yet takes one from how the step went.
FinalOutcome(o) ==
    IF outcome[o] # "unknown" THEN outcome[o]
    ELSE IF FirstError # NoErr THEN "Aborted"
    ELSE IF checkOnly /\ ~satisfied[o] THEN "WouldChange"
    ELSE "unknown"

FinalErr(o) ==
    IF outcome[o] = "unknown" /\ FirstError # NoErr THEN FirstError ELSE err[o]

\* validateOpReport, for an op with outcome out and error e.
ValidReport(o, out, e) ==
    CASE out = "Succeeded"                 -> e = NoErr
      [] out \in {"Failed", "Aborted"}     -> e # NoErr /\ ~changed[o]
      [] out \in {"Skipped", "WouldChange"} -> e = NoErr /\ ~changed[o]
      [] OTHER                             -> FALSE

\* The rest of runStep / runCheckStep; a report that does not validate is a
\* BUG panic.
Report ==
    /\ phase = "report"
    /\ outcome' = [o \in Op |-> FinalOutcome(o)]
    /\ err' = [o \in Op |-> FinalErr(o)]
    /\ stepErr' = StepErrOf(FirstError)
    /\ phase' = IF \A o \in Op : ValidReport(o, FinalOutcome(o), FinalErr(o))
                THEN "done" ELSE "panicked"
    /\ UNCHANGED <<plan, pc, satisfied, pending, changed, checkErr, execErr,
                   cancelled, calls>>

\* A sibling step failed, or the user interrupted the run.
Cancel ==
    /\ ~cancelled /\ phase \notin {"done", "panicked"}
    /\ cancelled' = TRUE
    /\ UNCHANGED <<plan, phase, pc, node, checkErr, execErr, stepErr, calls>>

Finished == phase \in {"done", "panicked"} /\ UNCHANGED vars

OpNext(o) ==
    \/ \E sat \in BOOLEAN : CheckPasses(o, sat)
    \/ CheckDeferred(o)
    \/ \E e \in OpErr : CheckFails(o, e)
    \/ Execute(o)
    \/ \E ch \in BOOLEAN : ExecSucceeds(o, ch)
    \/ \E e \in OpErr : ExecFails(o, e)
    \/ GroupFails(o)

StepNext == StartExec \/ Join \/ Report

Next == StepNext \/ Cancel \/ Finished \/ \E o \in Op : OpNext(o)

(***************************************************************************)
(* Goroutines run, and every call of Check and Execute returns: it runs    *)
(* under a context with the op's timeout.                                  *)
(***************************************************************************)
Fairness == WF_vars(StepNext) /\ \A o \in Op : WF_vars(OpNext(o))

Spec == Init /\ [][Next]_vars /\ Fairness
-----------------------------------------------------------------------------
(***************************************************************************)
(* Properties                                                              *)
(***************************************************************************)

Started(o) == calls[o] > 0
Settled(o) == satisfied[o] \/ outcome[o] = "Succeeded"

\* No Execute is called before every op the op declares in DependsOn was
\* found satisfied or has succeeded, whatever goroutines finish in between.
DepsSettledFirst ==
    \A o \in Op : Started(o) => \A d \in deps[o] : Settled(d)

\* The count-downs of concurrent goroutines start an op once: no Execute is
\* called twice in a run, and none for an op whose check was satisfied.
ExecutedAtMostOnce ==
    \A o \in Op : calls[o] <= IF satisfied[o] THEN 0 ELSE 1

\* A failed check of any op keeps every op of the step from executing, even
\* those whose own checks had passed; a check run executes nothing at all.
NoExecAfterFailedCheck ==
    (\E o \in Op : Started(o)) => checkErr = NoErr /\ ~checkOnly

\* What any interleaving of the ops' goroutines keeps of the order of a step:
\* an op is executed after what it depends on, once, and not at all when a
\* check failed (scheduler.schedule, initPending, runStep).
ExecutesOnceInOrder == DepsSettledFirst /\ ExecutedAtMostOnce /\ NoExecAfterFailedCheck

\* The step answers success exactly when every op ended well, and an op that
\* was cut off counts as aborted: no op is missing from the report.
VerdictMatchesReport ==
    phase = "done" =>
        /\ stepErr = NoErr <=>
              \A o \in Op : outcome[o] \in {"Skipped", "Succeeded", "WouldChange"}
        /\ ~checkOnly => \A o \in Op : outcome[o] = "Skipped" => ~Started(o)
        /\ checkOnly /\ stepErr = NoErr =>
              \A o \in Op : outcome[o] = "Skipped" <=> satisfied[o]

\* The BUG panics of buildStepReport and "op left without outcome" are never
\* reached.
NoBugPanic == phase # "panicked"

\* A step blames the cause and not its own reaction: the cancellation that a
\* failing op spreads to its siblings is never what the step returns.
BlamesTheCause == stepErr = "cancelled" => cancelled

\* The report of a step validates, whatever mix of results the ops had, says of
\* every op what the step's answer says of all of them (buildStepReport), and
\* the answer names the cause.
ReportIsSound == NoBugPanic /\ VerdictMatchesReport /\ BlamesTheCause

StageOf(o) ==
    IF satisfied[o] THEN "found"
    ELSE IF pc[o] = "running" THEN "runs"
    ELSE CASE outcome[o] = "Succeeded" -> "done"
           [] outcome[o] = "Failed"    -> "failed"
           [] OTHER                    -> "waits"

\* A check run executes nothing, and is over without having begun.
OverOf ==
    IF phase \in {"checks", "exec"} THEN "no"
    ELSE IF ~checkOnly /\ FirstError = NoErr THEN "all"
    ELSE "some"

Sched ==
    INSTANCE Schedule WITH
        waits <- deps,
        stage <- [o \in Op |-> StageOf(o)],
        over  <- OverOf

\* The count-downs of scheduler.schedule run the ops of a step as Schedule has
\* it: each once, when all it depends on is settled; the step goes through when
\* all of them did, and otherwise stops with none of them still running.
KeepsSchedule == Sched!Spec

\* Every run of a step ends, with no op left waiting for a count-down that
\* does not come.
StepEnds == <>(phase = "done")

-----------------------------------------------------------------------------
(***************************************************************************)
(* The inductive invariant of StepOps: what ties the program counters, the *)
(* pending counts and the outcomes together.  TLC checks it on the same    *)
(* instances as the properties; StepOpsProofs proves it inductive.         *)
(***************************************************************************)

Awaited(o) == {d \in deps[o] : ~satisfied[d] /\ outcome[d] # "Succeeded"}

\* Only a check run defers.
ModeInv == upstream => checkOnly

\* Checks are over before anything is scheduled.
PhaseInv ==
    \A o \in Op :
        /\ pc[o] = "checking" => phase = "checks"
        /\ pc[o] \in {"scheduled", "running", "failing"} => phase = "exec"
        /\ phase = "checks" => pc[o] \in {"checking", "idle"}
        /\ pc[o] \in {"scheduled", "running", "failing", "over"} =>
              ~satisfied[o] /\ checkErr = NoErr /\ ~checkOnly
        /\ pc[o] = "checking" => ~satisfied[o]
        /\ calls[o] = IF pc[o] \in {"running", "failing", "over"} THEN 1 ELSE 0

\* What the outcome of an op says of its goroutine.
OutcomeInv ==
    \A o \in Op :
        /\ pc[o] \in {"checking", "scheduled", "running"} =>
              outcome[o] = "unknown" /\ err[o] = NoErr
        /\ outcome[o] = "unknown" => pc[o] \notin {"failing", "over"}
        /\ outcome[o] \in {"Succeeded", "Failed"} => pc[o] \in {"failing", "over"}
        /\ pc[o] = "over" => outcome[o] \in {"Succeeded", "Failed"}
        /\ pc[o] = "failing" => outcome[o] = "Failed" /\ err[o] \in OpErr
        /\ ~satisfied[o] /\ pc[o] = "idle" /\ checkErr = NoErr /\ ~checkOnly
              /\ phase \in {"checks", "exec", "report"} => outcome[o] = "unknown"
        /\ satisfied[o] => outcome[o] = "Skipped"
        /\ outcome[o] = "Failed" => pc[o] = "failing" \/ execErr # NoErr
        /\ outcome[o] = "WouldChange" => checkOnly

\* What a report may hold for an op.
ReportInv ==
    \A o \in Op :
        /\ changed[o] => outcome[o] = "Succeeded"
        /\ err[o] = NoErr <=> outcome[o] \notin {"Failed", "Aborted"}

\* The count-down of an unsatisfied op is exact.
PendingInv ==
    phase = "exec" =>
        \A o \in Op : ~satisfied[o] =>
            /\ pending[o] = Cardinality(Awaited(o))
            /\ pc[o] = "idle" <=> pending[o] # 0

\* Nothing that has started awaits an op, also once the step is reporting.
StartedInv ==
    \A o \in Op : pc[o] \in {"scheduled", "running", "failing", "over"} => Awaited(o) = {}

\* An execution phase that is over has executed all it could.
JoinedInv ==
    /\ execErr # NoErr => phase # "checks"
    /\ phase \in {"report", "done"} /\ ~checkOnly /\ checkErr = NoErr /\ execErr = NoErr =>
          \A o \in Op : satisfied[o] \/ outcome[o] = "Succeeded"
    /\ phase # "panicked"

\* A cancellation is either from above or a consequence of a kept error.
CauseInv ==
    /\ checkErr \in {NoErr, "AbortError", "raw", "cancelled"}
    /\ checkErr = "cancelled" => cancelled
    /\ execErr = "cancelled" => cancelled
    /\ stepErr = "cancelled" => cancelled
    /\ \A o \in Op : pc[o] = "failing" /\ err[o] = "cancelled" => ExecCtxDone

IInv == TypeOK /\ ModeInv /\ PhaseInv /\ OutcomeInv /\ ReportInv /\ PendingInv /\ StartedInv
        /\ JoinedInv /\ CauseInv
(***************************************************************************)
(* What ties the outcomes to the error the step returns; inductive beside  *)
(* IInv.                                                                   *)
(***************************************************************************)

\* A kept error has an op to show for it, and an op cut off an error.
BlameInv ==
    /\ checkErr # NoErr =>
          \E o \in Op : /\ pc[o] = "idle"
                        /\ outcome[o] \in IF phase = "done" THEN {"Aborted"}
                                          ELSE {"unknown", "Aborted"}
    /\ execErr # NoErr => \E o \in Op : outcome[o] = "Failed"
    /\ \A o \in Op : /\ outcome[o] = "Aborted" => FirstError # NoErr
                     /\ outcome[o] = "Skipped" => satisfied[o]

\* A step that is done has settled every op and returned its first error.
DoneInv ==
    phase = "done" => /\ stepErr = StepErrOf(FirstError)
                      /\ \A o \in Op : outcome[o] # "unknown"

SoundInv == BlameInv /\ DoneInv
=============================================================================

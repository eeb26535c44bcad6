-------------------------------- MODULE Hooks --------------------------------
(***************************************************************************)
(* converge of internal/engine/converge.go for one deploy: the plan runs   *)
(* (PlanExec), then executeHooks of internal/engine/hooks.go runs the      *)
(* hooks that the changed steps notify and the hooks those chain to, and   *)
(* the command line turns what converge returns into an exit.              *)
(*                                                                         *)
(* A check and an apply differ in what a step does (StepOps) and agree     *)
(* here: "changed" stands for "would change" in a check.  validateHooks    *)
(* refuses a configuration that names an unknown hook or chains hooks in a *)
(* cycle.                                                                  *)
(***************************************************************************)
EXTENDS Naturals, Sequences, SequencesExt

CONSTANTS
    Hook,
    Configs     \* [steps, hooks]: the OnChange of each step of the deploy, and
                \* of each step of each hook

\* The hooks that hook h of configuration c chains to.
ChainOf(c) == [h \in Hook |-> UNION {Range(c.hooks[h][i]) : i \in DOMAIN c.hooks[h]}]

\* detectHookCycles
NoHookCycle(c) ==
    \A H \in SUBSET Hook : H # {} => \E h \in H : ChainOf(c)[h] \cap H = {}

ASSUME ConfigsAssumption ==
    \A c \in Configs :
        /\ c.steps \in Seq(Seq(Hook))
        /\ c.hooks \in [Hook -> Seq(Seq(Hook))]
        /\ NoHookCycle(c)

\* What a step returns (StepOps!StepErr).
NoErr == "none"
StepErr == {"AbortError", "StepAbortedError", "raw", "cancelled"}

\* What ExecutePlan / CheckPlan returns when it fails (PlanExec!VerdictOf).
PlanErr == {"AbortError", "StepAbortedError", "CancelledError", "panic"}

VARIABLES
    cfg,
    changedSteps,   \* the steps of the deploy that changed something
    queue,          \* the hooks notified, in the order they were
    pos,            \* the hook of the queue being looked at; 0 before the hooks
    step,           \* the step of that hook to run next; 0 before the hook
    anyChanged, executed,
    hookReports,    \* [hook, step, changed] for every hook step that ran
    cancelled,      \* the user interrupted the run
    verdict,        \* what converge returned
    exit            \* how the process ends

vars == <<cfg, changedSteps, queue, pos, step, anyChanged, executed,
          hookReports, cancelled, verdict, exit>>

TypeOK ==
    /\ cfg \in Configs
    /\ changedSteps \subseteq DOMAIN cfg.steps
    /\ queue \in Seq(Hook) /\ pos \in 0 .. Len(queue) + 1
    /\ step \in Nat /\ (step > 0 => pos \in DOMAIN queue)
    /\ anyChanged \in BOOLEAN
    /\ executed \subseteq Range(queue)
    /\ hookReports \in Seq([hook : Hook, step : Nat, changed : BOOLEAN])
    /\ cancelled \in BOOLEAN
    /\ verdict \in {NoErr, "ok"} \cup StepErr \cup PlanErr
    /\ exit \in {NoErr, "ok", "user error", "panic"}

Init ==
    /\ cfg \in Configs
    /\ changedSteps = {}
    /\ queue = <<>> /\ pos = 0 /\ step = 0
    /\ anyChanged = FALSE /\ executed = {}
    /\ hookReports = <<>>
    /\ cancelled = FALSE
    /\ verdict = NoErr /\ exit = NoErr

-----------------------------------------------------------------------------
(***************************************************************************)
(* Operators named Bug... are plausible mistakes in the definition that    *)
(* follows them, for the mutation runs.                                    *)
(***************************************************************************)

BugNewestFirst(q, hs) ==
    FoldLeft(LAMBDA qq, h : IF h \in Range(qq) THEN qq ELSE <<h>> \o qq, q, hs)

\* The queue q with the hooks hs notified: the map notified holds what the
\* queue holds.
Notify(q, hs) ==
    FoldLeft(LAMBDA qq, h : IF h \in Range(qq) THEN qq ELSE Append(qq, h), q, hs)

\* The steps that changed notify their hooks, in the order of the steps.
Notified(c, changed) ==
    Notify(<<>>, FlattenSeq([i \in DOMAIN c.steps |->
                                IF i \in changed THEN c.steps[i] ELSE <<>>]))

\* ExecutePlan / CheckPlan failed: converge returns, and no hook runs.
PlanFails(e) ==
    /\ pos = 0 /\ verdict = NoErr
    /\ e = "CancelledError" => cancelled
    /\ verdict' = e
    /\ UNCHANGED <<cfg, changedSteps, queue, pos, step, anyChanged, executed,
                   hookReports, cancelled, exit>>

PlanSucceeds(changed) ==
    /\ pos = 0 /\ verdict = NoErr
    /\ changedSteps' = changed
    /\ queue' = Notified(cfg, changed)
    /\ pos' = 1
    /\ UNCHANGED <<cfg, step, anyChanged, executed, hookReports, cancelled,
                   verdict, exit>>

AtHook == pos \in DOMAIN queue /\ verdict = NoErr
HookSteps == cfg.hooks[queue[pos]]

BeginHook ==
    /\ AtHook /\ step = 0 /\ queue[pos] \notin executed
    /\ executed' = executed \cup {queue[pos]}
    /\ step' = 1
    /\ anyChanged' = FALSE
    /\ UNCHANGED <<cfg, changedSteps, queue, pos, hookReports, cancelled,
                   verdict, exit>>

BugLastStepDecides(ch, e) ==
    /\ AtHook /\ step \in DOMAIN HookSteps
    /\ e = "cancelled" => cancelled
    /\ hookReports' = Append(hookReports, [hook |-> queue[pos], step |-> step,
                                           changed |-> ch])
    /\ anyChanged' = ch
    /\ step' = IF e = NoErr THEN step + 1 ELSE step
    /\ verdict' = e
    /\ UNCHANGED <<cfg, changedSteps, queue, pos, executed, cancelled, exit>>

\* runStep / runCheckStep of the next step of the hook; a step that failed may
\* have changed something first.  The error is returned as it is.
HookStep(ch, e) ==
    /\ AtHook /\ step \in DOMAIN HookSteps
    /\ e = "cancelled" => cancelled
    /\ hookReports' = Append(hookReports, [hook |-> queue[pos], step |-> step,
                                           changed |-> ch])
    /\ anyChanged' = (anyChanged \/ ch)
    /\ step' = IF e = NoErr THEN step + 1 ELSE step
    /\ verdict' = e
    /\ UNCHANGED <<cfg, changedSteps, queue, pos, executed, cancelled, exit>>

BugNextOnlyIfChanged ==
    /\ AtHook /\ step = Len(HookSteps) + 1 /\ anyChanged
    /\ queue' = Notify(queue, FlattenSeq(HookSteps))
    /\ pos' = pos + 1 /\ step' = 0
    /\ UNCHANGED <<cfg, changedSteps, anyChanged, executed, hookReports,
                   cancelled, verdict, exit>>

BugStepNotReset ==
    /\ AtHook /\ step = Len(HookSteps) + 1
    /\ queue' = IF anyChanged THEN Notify(queue, FlattenSeq(HookSteps)) ELSE queue
    /\ pos' = pos + 1
    /\ UNCHANGED <<cfg, changedSteps, step, anyChanged, executed, hookReports,
                   cancelled, verdict, exit>>

\* The hook is through: one changed step of it notifies for all its steps.
EndHook ==
    /\ AtHook /\ step = Len(HookSteps) + 1
    /\ queue' = IF anyChanged THEN Notify(queue, FlattenSeq(HookSteps)) ELSE queue
    /\ pos' = pos + 1 /\ step' = 0
    /\ UNCHANGED <<cfg, changedSteps, anyChanged, executed, hookReports,
                   cancelled, verdict, exit>>

BugQueueReadOnce ==
    /\ pos > Len(Notified(cfg, changedSteps)) /\ pos > 0 /\ verdict = NoErr
    /\ verdict' = "ok"
    /\ UNCHANGED <<cfg, changedSteps, queue, pos, step, anyChanged, executed,
                   hookReports, cancelled, exit>>

HooksOver ==
    /\ pos > Len(queue) /\ verdict = NoErr
    /\ verdict' = "ok"
    /\ UNCHANGED <<cfg, changedSteps, queue, pos, step, anyChanged, executed,
                   hookReports, cancelled, exit>>

BugExitOf(v) ==
    CASE v \in {"ok", "StepAbortedError"}       -> "ok"
      [] v \in {"AbortError", "CancelledError"} -> "user error"
      [] OTHER                                  -> "panic"

\* handleEngineError
ExitOf(v) ==
    CASE v = "ok"                               -> "ok"
      [] v \in {"AbortError", "CancelledError"} -> "user error"
      [] OTHER                                  -> "panic"

Exit ==
    /\ verdict # NoErr /\ exit = NoErr
    /\ exit' = ExitOf(verdict)
    /\ UNCHANGED <<cfg, changedSteps, queue, pos, step, anyChanged, executed,
                   hookReports, cancelled, verdict>>

Cancel ==
    /\ ~cancelled /\ verdict = NoErr
    /\ cancelled' = TRUE
    /\ UNCHANGED <<cfg, changedSteps, queue, pos, step, anyChanged, executed,
                   hookReports, verdict, exit>>

Finished == exit # NoErr /\ UNCHANGED vars

Progress ==
    \/ \E e \in PlanErr : PlanFails(e)
    \/ \E S \in SUBSET DOMAIN cfg.steps : PlanSucceeds(S)
    \/ BeginHook
    \/ \E ch \in BOOLEAN, e \in StepErr \cup {NoErr} : HookStep(ch, e)
    \/ EndHook
    \/ HooksOver
    \/ Exit

Next == Progress \/ Cancel \/ Finished

(***************************************************************************)
(* One goroutine does it all; the plan and every step of a hook end        *)
(* (PlanExec!RunEnds, StepOps!StepEnds).                                   *)
(***************************************************************************)
Spec == Init /\ [][Next]_vars /\ WF_vars(Progress)

-----------------------------------------------------------------------------
(***************************************************************************)
(* Properties                                                              *)
(***************************************************************************)
ChangedHooks == {hookReports[r].hook : r \in {q \in DOMAIN hookReports : hookReports[q].changed}}

\* The hooks that changed steps of the deploy notify.
Direct == UNION {Range(cfg.steps[i]) : i \in changedSteps}

\* The hooks a run owes: those the changed steps notify, and those the changed
\* ones among them chain to, and so on.
Owed ==
    CHOOSE H \in SUBSET Hook :
        /\ Direct \cup UNION {ChainOf(cfg)[h] : h \in H \cap ChangedHooks} = H
        /\ \A G \in SUBSET Hook :
              Direct \cup UNION {ChainOf(cfg)[h] : h \in G \cap ChangedHooks} = G
                  => H \subseteq G

ReportsOf(h) == {r \in DOMAIN hookReports : hookReports[r].hook = h}

\* A success means that every hook owed ran all its steps, each once and in
\* order, and that no other hook ran a step.
SuccessRanOwed ==
    exit = "ok" =>
        \A h \in Hook :
            /\ {hookReports[r].step : r \in ReportsOf(h)} =
                  IF h \in Owed THEN DOMAIN cfg.hooks[h] ELSE {}
            /\ \A q, r \in ReportsOf(h) : q < r => hookReports[q].step < hookReports[r].step

\* internal/engine/hooks.go:12-13: hooks run "in notification order": those
\* the steps notify before those that hooks chain to, in the order of the
\* steps, however early a chained hook becomes known.
FirstNotifier(h) ==
    LET I == {i \in changedSteps : h \in Range(cfg.steps[i])} IN
    IF I = {} THEN Len(cfg.steps) + 1 ELSE CHOOSE i \in I : \A j \in I : i <= j

NotificationOrder ==
    \A q, r \in DOMAIN hookReports :
        q < r => FirstNotifier(hookReports[q].hook) <= FirstNotifier(hookReports[r].hook)

\* The queue of executeHooks runs what the changes of a deploy owe, all of it,
\* once and in order, although it grows while it is read.
OwedInOrder == SuccessRanOwed /\ NotificationOrder

\* Nothing follows a failure: once a step of the deploy or of a hook failed, no
\* further hook step runs, and the process does not exit as if all went well.
FailureStopsHooks ==
    [][verdict \notin {NoErr, "ok"} => hookReports' = hookReports /\ exit' # "ok"]_vars

\* The process ends: every hook of the queue is got past, also those that
\* change nothing.
RunEnds == <>(exit # NoErr)

OverOf(v) == CASE v = NoErr -> "no" [] v = "ok" -> "success" [] OTHER -> "failure"

\* A deploy keeps the promise stated in HookNotify.
Promise ==
    INSTANCE HookNotify WITH
        chain    <- ChainOf(cfg),
        notified <- Range(queue),
        ran      <- executed,
        over     <- OverOf(verdict)

KeepsPromise == Promise!Spec

-----------------------------------------------------------------------------
(***************************************************************************)
(* The inductive invariant of Hooks: what ties the queue, while it grows,  *)
(* to the hooks that ran and to the reason each of them is in it.  TLC     *)
(* checks it on the same instances as the properties; HooksProofs proves   *)
(* it inductive.                                                           *)
(***************************************************************************)

Fine == verdict \in {NoErr, "ok"}   \* nothing failed

StepsOf(h) == {hookReports[r].step : r \in ReportsOf(h)}

\* Each hook is in the queue once; those before the current one are executed,
\* and so is that one when its first step has begun.
QueueInv ==
    /\ \A j, k \in DOMAIN queue : queue[j] = queue[k] => j = k
    /\ executed = {queue[j] : j \in {k \in DOMAIN queue : k < pos \/ (k = pos /\ step > 0)}}
    /\ pos = 0 => queue = <<>>
    /\ step > 0 => step <= Len(HookSteps) + 1

\* What is in the queue has a reason to be: a changed step of the deploy, or a
\* changed hook that stands before it.  What has a reason is in the queue.
ReasonInv ==
    /\ pos > 0 => Direct \subseteq Range(queue)
    /\ \A k \in DOMAIN queue :
          \/ queue[k] \in Direct
          \/ \E j \in 1 .. k - 1 : /\ j < pos /\ queue[j] \in ChangedHooks
                                   /\ queue[k] \in ChainOf(cfg)[queue[j]]
    /\ \A j \in DOMAIN queue :
          j < pos /\ queue[j] \in ChangedHooks => ChainOf(cfg)[queue[j]] \subseteq Range(queue)

\* A step of the deploy that notifies a hook has one at or before it that
\* notifies any hook queued earlier.
OrderInv ==
    \A j, k \in DOMAIN queue : \A i \in changedSteps :
        j < k /\ queue[k] \in Range(cfg.steps[i])
            => \E m \in changedSteps : m <= i /\ queue[j] \in Range(cfg.steps[m])

\* The reports follow the queue and, within a hook, its steps; the hooks that
\* are through have reported all of theirs, the current one those so far.
ReportInv ==
    /\ \A r \in DOMAIN hookReports :
          /\ hookReports[r].hook \in executed
          /\ hookReports[r].step \in DOMAIN cfg.hooks[hookReports[r].hook]
    /\ \A q, r \in DOMAIN hookReports : \A j, k \in DOMAIN queue :
          q < r /\ queue[j] = hookReports[q].hook /\ queue[k] = hookReports[r].hook => j <= k
    /\ \A q, r \in DOMAIN hookReports :
          q < r /\ hookReports[q].hook = hookReports[r].hook
              => hookReports[q].step < hookReports[r].step
    /\ Fine => \A j \in DOMAIN queue :
          /\ j < pos => StepsOf(queue[j]) = DOMAIN cfg.hooks[queue[j]]
          /\ j = pos /\ step > 0 => StepsOf(queue[j]) = 1 .. step - 1

\* The flag of the current hook says whether one of its steps changed something.
ChangedInv ==
    verdict = NoErr /\ step > 0 => (anyChanged <=> queue[pos] \in ChangedHooks)

\* The end follows what converge returned, and that is a success only when the
\* queue is through.
EndInv ==
    /\ verdict = "ok" => pos = Len(queue) + 1 /\ step = 0
    /\ exit # NoErr => verdict # NoErr /\ exit = ExitOf(verdict)

IInv == TypeOK /\ QueueInv /\ ReasonInv /\ OrderInv /\ ReportInv /\ ChangedInv /\ EndInv
=============================================================================

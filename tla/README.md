# scampi in TLA+

scampi converges machines to a declared state: it evaluates a configuration,
links it to steps, plans each step as a small graph of ops, and checks or
applies the ops on a target, for many steps and many targets at once.  This
directory models the parts of it where order, concurrency and failure decide
whether the result is right: the engine, the ssh session pool, the identity
cache, the output of a run; what each step kind does to a target that may fail
it at any call; and the configuration language, from its lexer to its evaluator
and formatter.  The models are checked with TLC, and theorems about eight
of them are proved with TLAPS.  Paths below are those of the repository.

## 1. The system

### Components, their state and what makes them correct

| component | source | state | operations | correct when | here |
|---|---|---|---|---|---|
| step execution | `internal/engine/exec.go` (`runStep`, `runCheckStep`, `scheduler`) | `opNode`s (satisfied, pending, outcome, err, changed) under `s.mu`; two errgroups | check all ops; count down and run the unsatisfied ones; classify error; build and validate the report | an op runs after what it depends on, once, never after a failed check; the report is complete; the blamed error is the cause | `StepOps` |
| plan execution | `exec.go` (`checkPlan`, `executePlan`), `step_graph.go`, `duplicate_provides.go` | `stepNode.pending`, reports, `provided`, under `mu`; one errgroup | build the graph; schedule; defer in a check; cancel; verdict | resource order and fences hold under any interleaving; a step never misses what the plan provides; every run ends | `StepGraph`, `PlanExec` |
| hooks | `hooks.go`, `converge.go` | the queue `notified`, `executed`, reports | notify, run, chain, stop | each owed hook runs once, in notification order, and nothing after a failure | `HookNotify`, `Hooks` |
| deploy levels | `deploy_graph.go`, `engine.go`, `converge.go`, `config.go` | lanes, levels, causes, reports | make lanes, sort them, refuse, run level by level, aggregate | consumers after producers; siblings not cut off; no failure lost; ordered report | `Deploys` |
| exit | `cmd/scampi/main.go`, `converge.go` | none | error to exit code or BUG panic | no normal control flow ends in a BUG panic | in `Hooks`, `Deploys` |
| ssh shell pool | `internal/target/ssh/shell_pool.go`, `shell_session.go` | `sem`, `free`, sessions with `unsafe` and an ssh channel, watchers | acquire, run, watch, release, closeAll | no session shared; server limit kept; tokens and sessions come back; every command ends | `ShellPool` |
| planning | `plan.go`, `plan_cycles.go`, `cycles.go` | none | plan steps; detect cycles and duplicates | what is refused is exactly what cannot be scheduled | as assumptions of `PlanExec`, `Hooks` |
| output sequencer, render stream | `internal/render/order`, `internal/render/cli` (`stream.go`, `inflight.go`, `region.go`, `sink.go`) | blocks pending per lane and a cursor; a bounded channel; steps in flight; the lines of the live region | emit, buffer, release in order, redraw, stop | every block once, whole and in plan order; nothing sent after the close; the region shows what runs and leaves no trace | `RunOutput` |
| identity cache | `internal/target/identity`, `target/posix/user.go`, `target/ssh/target.go` | name and number maps under a lock | look up, store, store absence, invalidate | what it says is so, unless an answer came late | `IdentityCache` |
| shared ops | `internal/step/sharedop` | files on the target, a cache on the controller | backup, verified write, owner, mode, download | no unverified file in place, nothing left behind, nothing lost | `FileSteps`, `Downloads` |
| step kinds | `internal/step/*` | none of their own; the target's | check and execute ops | apply reaches the declared state, a second apply changes nothing, a broken one is repaired by the next, what changed is reported | `StepRuns`, `StepKinds` and the modules it joins |
| platform back-ends | `internal/target/posix`, `pkgmgr`, `svcmgr`, `ctrmgr` | the machine's | accounts, packages, services, containers | | by their effect, in the step kinds |
| language | `internal/lang` (`lex`, `parse`, `check`, `eval`, `format`), `internal/linker/load.go`, `cmd/scampi/fmt.go` | the parser's position; scopes; environments and the collector of a block fill | parse, check, evaluate, format | the formatter keeps the program; what the checker accepts evaluates, to values of the types it gave | `Language` and the modules it joins |
| diagnostics, renderer | `internal/diagnostic`, `internal/render` | none | emit, filter, print | | the events of a run, in `RunOutput` |
| step outputs | `ref.go` | a map under the plan's lock | store, resolve | a reader runs after its writer | not modelled (section 8) |
| linker, std, mod, secrets, test kit, escalation, local target, support | `internal/linker`, `std`, ... | none shared | pure functions, or I/O on the machine | | not modelled (section 8) |

### How they interact

```
file ── lex, parse, check, evaluate ──> values             (Language)
command line ── Apply/Check ──> runPlansConcurrent        (Deploys)
    levels of lanes, the lanes of a level in goroutines
      lane: converge ── CheckPlan/ExecutePlan ──> steps    (PlanExec, StepGraph)
                    │        each step in a goroutine
                    │          step: runStep ──> ops       (StepOps)
                    │              op: RunCommand ──> acquire/run/release (ShellPool)
                    │                  ──> Check, Execute     (StepKinds)
                    │                        account lookups  (IdentityCache)
                    └─ executeHooks ──> hook steps         (Hooks, HookNotify)
    events of all of these ──> channel ──> terminal        (RunOutput)
    error ──> handleEngineError ──> exit or BUG panic      (Hooks, Deploys)
```

A layer sees of the layer below what it returns.  `StepOps!StepErr` is the set of
errors a step returns in `PlanExec` and in `Hooks`; `PlanExec!Verdicts` is what
the plan returns in `Hooks`; what a lane returns in `Deploys` is what `Hooks`
ends with.  `StepOps!StepEnds`, `PlanExec!RunEnds` and `Hooks!RunEnds` justify
the fairness of the layer above.  Cancellation goes the other way: an interrupt
or the failure of a sibling may end the context of any layer at any time.
`StepRuns` reduces the scheduling of a step's ops to what the theorems of
`StepOps` leave of it; `RunOutput` lets any step of a lane begin when `PlanExec`
might let it.

### What is hard here

Concurrent count-downs at two layers; order that is derived from sparse edges
(fences, unsatisfied dependencies only); checks that are judged against what
another step *would* provide; first errors and the cancellations they spread;
work queues that grow while they are read; limits counted in something other
than what is limited; goroutines that outlive the command they watch; answers that
arrive after what they are about has changed; a channel that is closed while
others send; calls that break off half-way on a machine that keeps what they
did; two walks of one tree (checker and evaluator, parser and formatter) that
must agree.
`PROJECT.json` lists the hazards line by line with the properties aimed at them.

## 2. Modules

| module | what it is |
|---|---|
| `Schedule` | what the three schedulers of the engine promise: tasks that come after one another, each begun once and in time (refinements: `KeepsSchedule`) |
| `StepOps` | one run of one step |
| `StepOpsProofs` | theorems and proofs, that `StepOps` implements `Schedule` among them |
| `MCStepOps`, `MCPkgChain` | instances: three ops over five graphs; the step `pkg` with its four ops |
| `StepGraph` | `buildStepGraph` as operators, with the order it stands for |
| `PlanExec`, `MCPlanExec` | one deploy: check, apply, check then apply; plans from a catalogue of step kinds |
| `PlanExecProofs` | theorems and proofs, that `PlanExec` implements `Schedule` among them |
| `HookNotify` | what a deploy promises of its hooks |
| `Hooks`, `MCHooks` | the queue that keeps the promise (refinement: `KeepsPromise`) |
| `HooksProofs` | theorems and proofs, the refinement among them |
| `Deploys`, `MCDeploys` | lanes, levels, aggregation, exit |
| `DeploysProofs` | theorems and proofs, that `Deploys` implements `Schedule` among them |
| `ShellPool`, `MCShellPool` | the pool, its commands and their watchers |
| `ShellPoolProofs` | theorems and proofs |
| `IdentityCache`, `MCIdentityCache` | the cache of user and group numbers, beside changes of accounts |
| `IdentityCacheProofs` | theorems and proofs about it |
| `RunOutput`, `MCRunOutput` | emitters, channel, sequencer, live region and the end of a command |
| `RunOutputProofs` | theorems and proofs |
| `Calls` | a call on a target: it works, it fails, or it fails after it had an effect |
| `FileSystem` | paths and the calls on them, with what a call that broke off leaves |
| `Downloads`, `FileSteps`, `HostSteps`, `PkgSteps`, `CommandSteps`, `ContainerSteps` | the ops of each step kind: their order, `Check`, `Execute`; what the declaration asks for |
| `StepKinds` | the step kinds joined: ops, order, `Check`, `Execute`, worlds and declarations of each |
| `StepRuns`, `MCStepKinds` | a step of any kind, applied again and again while the world changes; what is promised of all kinds and of single ones |
| `MCStepClaims` | apply of a configuration of four steps, for what the repository says of apply |
| `StepContracts` | what the proofs say of the operators of the kinds: what a check, an op, a call and a write come to, and what each leaves alone |
| `StepRunsProofs` | theorems and proofs, that the operators keep these contracts among them |
| `Lexing`, `Parsing`, `Checking`, `Evaluating`, `Formatting` | the phases of the language, as operators from one representation to the next |
| `Language`, `MCLanguage` | a file that is typed, formatted and loaded; nine contexts to type in |

Each module that theorems are about ends with its inductive invariant, `IInv`, as a
conjunction of named parts.  Operators named `Bug...` are plausible mistakes in the definition that follows
them.  No specification uses them; each shows that a property notices.

### Correspondence with the code

**StepOps.** `pc[o]` is the goroutine of op `o` (`idle` between the two phases),
`phase` the goroutine of the step, `satisfied`, `pending`, `outcome`, `err`,
`changed` the fields of `opNode`, `checkErr` and `execErr` the two errgroups.
One action is one critical section of `s.mu` or one stretch that touches nothing
shared.  `ExecFails` and `GroupFails` are two actions because the goroutine
settles its node before the group hears of the error.  Counting down, and
starting dependents, happens inside the critical section (`ExecSucceeds`), so it
is one action.  An op's result is abstracted to: verdict, deferred, diagnostic
that aborts, diagnostic that does not (`soft`), any other error (`raw`, among
them an expired op timeout), cancellation.  `calls` is a history variable.

**StepGraph, PlanExec.** A step is what it declares: provided and required
resources.  `needs` is what its ops look for on the target when they check;
a declaration may omit some of it.  `Within` is path containment (`isDeferred`
treats a provided path as implying those above it).  `snap` is the copy of
`provided` a step is scheduled with.  `present` is the target.  `ApplyAfterCheck`
stands for the apply run that follows a check run of the same configuration on
a target nobody else changes.

**Hooks.** `queue` is the slice `notified` with `pos` the loop's index, `step`
the step of the hook that runs.  Failure returns at once, with the step's error
as it is.  `Exit` is `handleEngineError`.

**Deploys.** `LanesOf` is `ResolveMultiple` with `collectProvides` and
`collectRequires`; `DepthOf` is Kahn's levels; `LevelOver` is the `WaitGroup`.
`Cyclic` is what `findCycle` decides, not how.

**ShellPool.** One caller is one `RunCommand`.  `sem` counts tokens, `free` is the
channel of idle sessions, `dead` the sessions whose ssh channel is closed, `cut`
(history) those whose stream stopped inside a frame.  `tries` bounds the backoff.
The watcher is a goroutine of its own: it may be started late, block, fire, mark
and close, and its last two steps may happen long after its command ended.

**IdentityCache.** `entry` and `nameOf` are the two directions of the cache,
`ids` the accounts of the target.  A lookup asks the target outside the lock
(`LookUpName`, `Answered`) and stores afterwards (`Store`); a change runs its
command (`Effect`), hears of it (`Changed`) or not (`ChangeLost`), and drops one
entry at a time (`Invalidate`).  `raced` and `stale` are history: the names an
answer came late for, and those whose entry is such an answer now.

**RunOutput.** `events` is the channel of capacity `Buffer`, `closed` its end.
`at` is how far a step is, `main` the command.  The consumer's variables are the
fields of `inflight`, of `Sequencer` and of `sink`.  Handling one event is one
action, since one goroutine does it all.  `printed` is the scrollback, `smeared`
records that a line of the region stayed there.

**Calls, StepRuns, StepKinds.** A world is a record that holds only what a kind
looks at.  A call is an operator that takes what follows it as an argument and
gives the set of all outcomes: `Call` has it fail before or after its effect,
`Ask` has a question stay unanswered, `Lost` is an effect without an answer.
A function of the code that others call gives the outcomes it can end with, and
`Then` goes on from those that are no error.
`Check` and `Execute` of each op are such operators, in the order of the calls
in the code, so that every prefix of them is an outcome.  `w.fault` says that a
call of this run failed; the properties say which of them need a run without
faults (`CleanRun`).  Names, versions and settings are members of a constant set,
`Value`, of which the model knows only the words that the code itself puts in.
`Config` and `IsWorld` say, kind by kind, what is a declaration and what a world:
the fields and their ranges, that what is on the target stands in a directory
that is there, that the tree of an archive has files where the archive has them
and that its marker is scampi's own.  A cached copy and the ETag beside it may be of
different versions, since the one is written after the other.  `Edit` is somebody
else's change, between two steps of a run or between two runs.  Two predicates say,
kind by kind, how far the promises go.  `Stuck` names the worlds in which an
undisturbed run may *fail*, or panic, or in which a settled target may be changed all
the same; that a run which succeeds falls short it does not excuse.  `Unseen` names the
worlds that fall short of the declaration in something no check of the step looks at,
and in nothing else: a run in which no op was overtaken may succeed and end there, and
in no other world that is not as declared.  Each entry is something the code does, and
section 8 lists them.  The repository promises more (`about.md:141`); that the code
does not keep this is what `apply_claim` shows (section 3).

**Lexing to Language.** A file is a sequence of phrases (words, marks, ends of
lines); `Lex` inserts the semicolons and tells an interpolation from a brace.
The parser, the checker and the evaluator are records handed from one operator
to the next: position and error; scopes, types of nodes and UFCS marks; heap,
environments, collector and errors.  Nodes, types, scopes and heap values are
records with the fields of their structs; a node keeps the offset it starts at
and whether it went over a line, which is all the formatter asks of a position.
Pointers are indices where identity matters: heap values, types and
environments.  `died` is a nil dereference, an index out of range or a failed
type assertion.  The standard library is two modules written for the purpose,
parsed and checked by the same operators, whose functions are the stubs that
`extractStubInfo` makes of such declarations.
`Language` takes the phases as parameters (`Reader`, `Analyzer`, `Formatter`), and
the configurations of `MCLanguage` give it `Read`, `Analyze` and `Formatted`.

## 3. Runs

| run | module, cfg | question | result |
|---|---|---|---|
| `step_ops` | `MCStepOps` | does the op scheduler keep order, count and blame, with any mix of results and an interrupt? | holds; 20 249 states |
| `pkg_chain` | `MCPkgChain` | is the key installed before the packages? | violated |
| `plan_exec` | `MCPlanExec` | do graph, fences and deferral hold for all valid three-step plans? | holds; 203 367 states |
| `hooks` | `MCHooks` | does the queue keep the promise of `HookNotify`, in order, and stop? | holds; 31 476 states |
| `deploys` | `MCDeploys` | producers first, siblings not cut off, ordered report, no lost failure? | holds; 331 581 states |
| `shell_pool` | `MCShellPool` | no sharing, server limit, no reuse of a cut stream, tokens and sessions back, and every command ends although commands hang? | holds; 433 240 states |
| `step_kinds` | `MCStepKinds` | does each step kind reach what it declares, as far as it looks, stay there, recover, and report? | holds; 2 247 736 states |
| `apply_claim` | `MCStepClaims` | is the target in the declared state when apply finishes? | violated |
| `identity` | `MCIdentityCache` | is the cache wrong only where an answer came late or was lost? | holds; 1 506 686 states |
| `run_output` | `MCRunOutput` | is the output whole, in order and clean, and does the command end? | holds; 68 541 states |
| `lang` | `MCLanguage` | does the formatter keep programs without annotated lets, and does what the checker accepts evaluate as it says? | holds; 50 718 states |
| `fmt_claim` | `MCLanguage`, `MCFmtClaims.cfg` | does the formatter keep every program, and leave its own output alone? | violated |

### Properties

A run checks few formulas, each the conjunction of the claims named after it.

| module | formula | says |
|---|---|---|
| `StepOps` | `ExecutesOnceInOrder` | `DepsSettledFirst`, `ExecutedAtMostOnce`, `NoExecAfterFailedCheck` |
| | `ReportIsSound` | `NoBugPanic` (the report validates, so the BUG panic of `buildStepReport` is unreachable), `VerdictMatchesReport`, `BlamesTheCause` (the error returned is the cause) |
| | `KeepsSchedule`, `StepEnds`, `IInv` | the refinement of `Schedule`; every step ends; the inductive invariant, types among it |
| `PlanExec` | `KeepsSchedule` | the refinement of `Schedule`, with `RequiredFirst` and `FencesHold` (the O(n) fence edges give the full order) in it |
| | `NothingMissed` | `ProvidedInTime`, `CheckForetellsApply` |
| | `VerdictIsTrue` | `InterruptedOnlyByUser`, `SuccessIsComplete` |
| | `RunEnds`, `IInv` | |
| `Hooks` | `OwedInOrder` | `SuccessRanOwed` (against a least fixed point), `NotificationOrder` |
| | `FailureStopsHooks` | an action property |
| | `KeepsPromise`, `RunEnds`, `IInv` | the refinement of `HookNotify`; every run ends |
| `Deploys` | `KeepsSchedule` | the refinement of `Schedule`, with `ProducersFirst` in it |
| | `ReportIsWhole` | `OnlyDownstreamSkipped`, `ReportIsOrdered`, `NoLostFailure` |
| | `RunEnds`, `IInv` | |
| `ShellPool` | `StreamsApart` | `NoSharing`, `NoRunAfterCutOff` |
| | `NothingLeaks` | `TokensReturned`, `NoSessionLeft` |
| | `ServerLimit`, `EveryCommandEnds`, `IInv` | |
| `IdentityCache` | `CacheIsHonest` | `StaysHonest` (what the cache says of a name), `NumbersStayHonest` (of a number) |
| | `IInv` | |
| `RunOutput` | `BlocksInOrder` | `DeclarationOrder`, `WholeBlocks` (all changes of a step, in one block, in order), `NothingStranded`, `HeldForAReason` (a block waits only for one before it) |
| | `EndsInOrder` | `NoSendAfterClose`, `SummaryLast` |
| | `RegionIsTrue` | `RegionIsCurrent`, `ScrollbackIsClean` |
| | `CommandEnds`, `IInv` | |
| `StepRuns`, for every kind | `Converges` | `Converged` (at once, unless an op was overtaken: what it was judged by changed before the run was over), `SatisfiedMeansDesired`, `RepeatedRunsConverge` (as many clean runs as the ops are deep settle a target); each but for what is `Unseen` |
| | `ChangesAreReal` | `Idempotent` (a settled target sees no change, unless `Stuck` names its world), `ChangeIsReported` |
| | `HealsUnlessStuck` | whatever broken runs have left, an undisturbed run succeeds where the declaration can be met, and no op panics, but for the worlds that `Stuck` names |
| | `IInv` | the inductive invariant, types among it |
| `StepRuns`, for single kinds | `StepsTakeCare` | an action property: `VerifiedOnly`, `NoTempLeft`, `BackedUp`, `MarkerLast`, `CacheIsVerified`, `StartsCurrentUnit` |
| `Language` | `Grouping` | what the parser groups, against the precedences |
| | `AcceptedIsSound` | `NoStrayErrors`, `ReturnsItsType`, `TypesKept`, `FillsKeepApart`, `UfcsIsSugar` |
| | `FmtIsFaithful` | an action property of `fmt` on files without annotated lets: `KeepsProgram`, `LosesNothing` (no word), `Settles` |
| | `FmtIsSafe` | the same of all files, for `fmt_claim` |
| `MCStepClaims` | `ImmediateConvergence` | what `about.md:141` says of apply, without an exception |

### What the violations show

* `pkg_chain`: `initPending` counts unsatisfied *direct* dependencies.  With the
  repo config in place and the key missing, `ensurePkg` has no unsatisfied direct
  dependency and runs beside, or before, the install of the key.
* `apply_claim`: the four steps are applied to a target as it is met every day, no call
  fails, nobody else changes anything, apply succeeds, and none of the four is as
  declared.  This is so in every behaviour of the run that comes to its end, and the
  last state of the counterexample shows each (`applied`):
  - The file system is not mounted.  `isMounted` asks `findmnt --target`, which answers
    for the file system a path lies on, and so for every directory; `Execute` makes the
    mount point before it asks.  `mount_test.go` has a mock that answers for mounts alone.
  - The packages are not the latest.  The check judges by the index that is there, and a
    satisfied op is not executed, so that the refresh `ensure_pkg_op.go:196-198` counts
    on does not happen.
  - The file is the old one.  All checks come before all executions: the content op
    compares the file with the download of an earlier run, is satisfied, and is not asked
    again when the download op has fetched the new version.  The next run mends it.
  - The port is still denied.  On firewalld an open port and a rule that drops are two
    things, and the step looks for the one it is about.  (With ufw the new action takes
    the place of the old.)
* `fmt_claim`: `letDecl` prints name and value, and not the type.  `fieldList` puts fields on
  lines of their own when their span goes over a line; the span of a lone field does not,
  once it has a line of its own, and the next `fmt` joins it again.  In the one step of the
  counterexample neither `KeepsProgram` nor `LosesNothing` nor `Settles` holds.

## 4. Bounds, and why they are enough

* **Ops**: three, over the five shapes that occur in the step kinds (independent,
  fork, join, chain, chain with shortcut).  A lost or doubled count-down needs two
  predecessors or two successors; a lost order needs a chain of three.  The
  proofs cover any number.
* **Steps**: three, all valid sequences over five step kinds.  A fence error needs
  a step on either side of it; a count-down error two providers.  Two initial targets.
* **Hooks**: three hooks, two steps; chains of two, hooks notified twice, hooks
  notified both by a step and by a hook.
* **Deploys**: three blocks, up to six lanes and three levels, two targets; also
  a single block, and a graph for each reason to refuse it: a label of two blocks, a
  label listed twice in one, a cycle of two blocks and of one.
* **Pool**: three commands, two tokens, one session.  Every token can be wanted by
  one command more than there are, two commands can be on their way to a session
  at once, and the one session is handed on, to a command that looks for it and to
  one that backs off, by a command whose watcher is still there.  `MaxTries = 1`
  bounds the refused opens of a command: one refusal exercises the backoff, the
  second gives up.  The supply of identities bounds the sessions opened in one
  run; when it is used up every open is refused.  What needs two sessions side by
  side is left to the proofs, which hold for any supply.
* **Identity**: two goroutines, two names, one number, two changes; names, and
  goroutines, are symmetric.  A late answer needs one lookup and one change; a
  number that passes from one name to another needs two names and two changes.
* **Output**: two lanes, one with two steps and a hook step, the other with one
  step, so that steps can settle out of order, a lane can be ahead of the other
  and a hook can follow a gap.  `MaxChanges = 1` change per step, a channel of two
  (emitters do wait), one running step shown per lane (the second is "more"),
  three rows (the least the region is made for).
* **Step kinds**: up to three runs of a step and one edit by somebody else, from
  every world of the kind's few fields and for the declarations listed in
  `MCStepKinds`.  Three runs show one that breaks off, one that repairs and one that
  finds nothing to do.  `apply_claim` has those of these worlds in which the file system
  is not mounted, the index older than the mirror, the file and its download of the
  same, older version and the port denied.
* **Language**: nine contexts, each a head, a tail and a few phrases to type
  between them, of which at most three (`Types`, `Receivers`), four (`Arithmetic`,
  `Blocks`, `Steps`, `Changes`) or five (`Layout`, `Paths`, `Strings`) are typed;
  every sequence is tried, those that do not parse as well.  Four phrases are
  what two operators of different precedence need; `MaxCalls = 3` bounds
  the depth of calls, and a program that exceeds it is not judged.  `fmt_claim` has a
  context of its own, one file with what the formatter does not keep.

Deadlock is checked in every run but three: each specification ends in an explicit
step that stutters (`Finished`; `Rest` in `StepRuns`).  `identity`, `lang` and
`fmt_claim` have no end of their own: the goroutines of the first stop when the
changes are used up, the author of the other two when the phrases are.

## 5. Fairness

* `StepOps`: weak fairness of each op's goroutine and of the step's own.  Go
  schedules goroutines; every `Check` and `Execute` runs under a context with the
  op's timeout (`opTimeout`), so a call returns.
* `PlanExec`, `Hooks`, `Deploys`: weak fairness of progress as a whole; that a step,
  a plan and a lane ends is the liveness property of the layer below.
* `ShellPool`: weak fairness per command and watcher.  `RunSucceeds` is *not* fair: a
  command may hang.  `ContextDone` is fair: an op's context ends at the latest with
  its timeout.  `SessionDies` and `Cancel` are never fair.
* `RunOutput`: weak fairness of the consumer and of the command.  Of each step's
  moves, strong fairness: emitters compete for the mutex of the Emitter and a
  place in the channel, so a step that wants to emit is enabled again and again
  and not for good, and Go's mutexes do not starve a waiter.  The interrupt and the
  ticker are never fair.
`StepRuns`, `IdentityCache` and `Language` state no fairness: they are checked for
safety only.

## 6. Proofs

Theorems whose property a run checks are listed in `PROJECT.json`.
`StepOpsProofs` proves for every finite set of ops and every set of acyclic graphs:

| theorem | says |
|---|---|
| `IInvHolds` | `IInv` holds in every reachable state |
| `TypeCorrect` | `TypeOK`; no count-down passes zero |
| `DepsFirst`, `AtMostOnce`, `ChecksGateExecution`; together `OrderHolds` | `ExecutesOnceInOrder` |
| `NoPanic`, `ReportMatches`, `CauseBlamed`; together `ReportHolds` | `ReportIsSound` |
| `ScheduleKept` | `KeepsSchedule`: `StepOps` implements `Schedule` |

Assumptions: `OpAssumption` (finitely many ops) and `GraphAssumption` (the graph is
acyclic, since `buildPlan` panics on any other); TLC evaluates both on its
instances.

The properties are not inductive: `DepsSettledFirst` says nothing of an op that has
not started.  `IInv` adds what the code relies on.  `PendingInv`: during execution
`pending[o]` is *exactly* the number of dependencies of `o` that are neither
satisfied nor succeeded, and `o` is idle exactly while that is not zero; this is
what makes a decrement safe and the start unique.  `StartedInv` keeps "nothing
awaited" after the counts have lost their meaning.  `PhaseInv` ties program
counters to phases.  `OutcomeInv` and `ReportInv` tie outcomes to them, and give
`NoBugPanic`.  `JoinedInv` says that an execution phase which is over without an
error has run everything, which needs acyclicity: the unfinished ops would
contain one that waits for none of them, and that one would have been started.
`CauseInv` follows cancellation to its source.  `SoundInv`, inductive beside
`IInv`, gives every kept error an op to show for it and every op that was cut off an
error, so that success and "every op ended well" are the same.  Each action preserves each part
it can disturb, one step each, and the lemma on cardinalities (removing the op
that finished takes one from the set awaited) is stated once.

`StepOps`, `PlanExec` and `Deploys` each implement `Schedule`, which knows neither
counts nor levels: a task begins when all it comes after is done, once; the run
answers "all" when every task is done; it stops short only with nothing running, and
with a failed task to show or before any began.  In `StepOps` the tasks are ops, and
those a check finds satisfied are `found`; in `PlanExec` they are steps, which come
after what they require and after *every* fence between, although the code joins
only neighbours; in `Deploys` they are lanes, and a graph that is refused is a run that
is over before it begins.  Each of the three proofs has one lemma per action that
names the step of `Schedule` it is, or shows that every task is where it was; that a
task is ready follows from `StartedInv`, from `RequiredFirst` and `FencesHold`, and from
`ProducersFirst`; that all are done, from `JoinedInv`, `SuccessIsComplete` and
`OnlyDownstreamSkipped`.  `Schedule` promises less of a failure than the engine's steps
do: a lane whose producers all ended well is left out when another lane of a level
before its own failed, so that `Stop` may leave a task that is ready.

`PlanExecProofs` proves for every plan, in either mode:

| theorem | says |
|---|---|
| `IInvHolds`, `TypeCorrect` | `IInv`, `TypeOK` |
| `RequiredSteps`, `Fences` | `RequiredFirst`, `FencesHold` |
| `ScheduleKept` | `KeepsSchedule`: `PlanExec` implements `Schedule` |
| `NothingMissedHolds` | `NothingMissed`, if every plan is `WellDeclared` |
| `OnlyUserInterrupts`, `SuccessComplete`; together `VerdictHolds` | `VerdictIsTrue` |

Assumptions: `PlansAssumption` (a plan is a finite sequence of steps whose graph
can be sorted; `plan` refuses any other), `TargetsAssumption` and
`WithinAssumption`.  `PendingInv` again makes `pending` exact: the number of
required steps that have not finished well.  `RequiredFirst` follows at once: a
step that left `waiting` awaits nothing.  `FencesHold` does not, because
`buildStepGraph` joins a step only to the nearest fence on each side.  The proof
has two halves.  `AfterBarrier`: of the unfinished fences before a step that has
started, take the last; either the step has an edge to it, or the next fence has
one and is finished, and both contradict it.  `BeforeBarrier`: a step has an edge
to the first fence after it, and that fence has finished, by the first half,
before any later one starts.  `SuccessIsComplete`: if steps were still waiting,
one of them would require none of the others, since the graph can be sorted;
everything it requires is then over and well, its exact count-down is zero, and
it does not wait.
`ErrInv` and `CauseInv` follow a cancellation from `GroupDone` to its source.
`NothingMissed` is about what steps declare, so its theorem has a hypothesis,
`WellDeclared`: what a step's checks look for it requires, or it is a directory of
what the step provides, and those are looked for.  TLC evaluates it on the
catalogue of `plan_exec`.  It leaves out the one case in which `isDeferred` defers
on something no edge of the graph stands for (section 8).  `SupplyInv` then says
what is at hand when: what the finished steps provide is present or provided, the
snapshot a step was scheduled with holds what the steps it waited for provide, and
after a good check every need is present or provided by another step.

`ShellPoolProofs` proves for any number of commands, any supply of sessions and
any `MaxSessions`:

| theorem | says |
|---|---|
| `IInvHolds`, `TypeCorrect` | `IInv`, `TypeOK` |
| `SessionsUnshared`, `NoRunOnCutStream`; together `StreamsHold` | `StreamsApart` |
| `LimitKept` | `ServerLimit` |
| `TokensBack`, `SessionsClosed`; together `LeaksNothing` | `NothingLeaks` |

Assumption: `PoolAssumption` (finitely many commands, room for a session).
`ServerLimit` is about sessions, the code counts commands.  `TokenInv` says that
`sem` counts exactly the commands on their way; `RoomInv` that the idle sessions
and the commands that have a session, or open one, fit in `Max` together.  The
critical step is `NoneFree`: a session is opened only when `free` is empty, so
the tokens alone bound what is in use.  `LiveInv` says that every session not
closed is idle or in use, which turns `RoomInv` into `ServerLimit` and, when
nobody is left and `free` is drained, into `NoSessionLeft`.  Actions are proved
in groups that disturb the same parts: those that move no command (`QuietInv`),
those that move one without a session (`MoveInv`), those that keep one's session
(`RunInv`), and one lemma each for taking, opening, releasing and closing.

`IdentityCacheProofs` proves, for any set of goroutines, names and numbers,
`IInvHolds`, `TypeCorrect` and, of `Honest` and `NumbersHonest`, `HonestHolds`:
`CacheIsHonest`.  That is not inductive: it says nothing of the answer a lookup
carries and has not stored.  `IInv` adds `Current`, of every name, for the entry and
for the answers under way: it is what the target says, unless a change of the
name is pending or the histories hold the name; and `Agree`: of the two
directions, a number leads to a name whose entry is that number.  The steps are
proved in groups: those that store and change nothing (`QuietStep`), and a lemma
each for the answer, the store, the change, the lost change and the
invalidation.

`HooksProofs` proves for any hooks and any plan:

| theorem | says |
|---|---|
| `IInvHolds` | `IInv`, `TypeOK` among it |
| `OwedHolds` | `OwedInOrder` |
| `PromiseKept` | `KeepsPromise`: `Hooks` implements `HookNotify` |
| `FailureStops` | `FailureStopsHooks` |

Assumption: `ConfigsAssumption` (steps and hook steps name hooks, and no hook reaches
itself by its chains; `detectHookCycles` refuses any other configuration).
`OwedInOrder` says something of the end only.  `ReasonInv` says it of a queue
half-way: what is in the queue was notified by a changed step, or by a changed
hook that stands before it, and what is notified so far is in the queue.  When the
queue is through, that makes it closed under the chains of what changed, and so it
holds the least such set (`Owed`); nothing in it is there without a reason, and so
it is no more than that: take the first entry that is not owed; its reason stands
before it.  `OrderInv` carries the order of the steps over to the queue, `ReportInv`
the order of the queue to the reports.  The refinement follows from the same
invariant, one step of `Next` at a time.

`DeploysProofs` proves for any blocks, targets and levels:

| theorem | says |
|---|---|
| `LevelsAreRight` | the depths are right: a lane is deeper than those it waits for, no depth is left out |
| `IInvHolds` | `IInv`, `TypeOK` among it |
| `ProducersRunFirst` | `ProducersFirst` |
| `ScheduleKept` | `KeepsSchedule`: `Deploys` implements `Schedule` |
| `FailuresKept` | `NoLostFailure` |
| `ReportHolds` | `ReportIsWhole` |

Assumption: `ConfigsAssumption` (there is a block, and each block has a target).
`DepthOf` is recursive over the graph.  That there is such a function is proved
by taking the smallest set of lanes it may leave out: without a cycle that set has a
lane that waits for none in it, whose depth could be given as well, unless the set
is empty.  `CurrentInv` says that the levels below the current one are
through and those above have not begun, `CauseInv` that a failure is of the current
level, `SettledInv` that every lane that ended is among the reports or the
causes, and none twice.  The report is ordered by level and declaration because a
lane stands where the number of those before it puts it (`Ranked`).

`RunOutputProofs` proves for any lanes, plans, hook steps, changes, capacity of the
channel and size of the terminal:

| theorem | says |
|---|---|
| `IInvHolds`, `TypeCorrect` | `IInv`, `TypeOK` |
| `BlocksHold` | `BlocksInOrder` |
| `EndsHold` | `EndsInOrder` |
| `RegionHolds` | `RegionIsTrue` |

Assumptions: `LaneAssumption` (finitely many lanes, known by their ordinals),
`StepsAssumption` and `BoundsAssumption` (a channel has room for an event).  Engine
and consumer share no variable but the channel, and the properties relate what
the one did to what the other printed.  What ties them is a notion the code does
not have: what a step has *told* follows from its state (`Told`: the place of each of its
events), and what was *heard* of it is what it told and the channel does not hold any
more (`Heard`).  `ChannelInv` says that the channel holds the events of a step in the
order it told them, so that a step heard to end was heard entirely (`Complete`).
`RegionInv`, `SequencerInv` and `PrintedInv` say of the region, of each block held
back and of what is printed that they are what was heard.  A send adds to what was
told and to the channel, and so changes nothing that was heard (`Sent`): no step of
the engine can disturb the consumer (`Quiet`).  Taking an event adds that one event
to what was heard of one step (`Received`), and each action of the consumer has to
account for that one.

What the library states with an operator as a parameter, induction above all, the
modules do without: a set of numbers has a least element, a finite family of sets a
smallest, and both turn a proof by induction into one by the first counterexample.
What flattening a sequence and putting a set in order give is proved beside the
theorems that need it (`FlattenFold`, `Flattened`, `Ranked`).

`StepRunsProofs`, with the contracts of `StepContracts`, proves for every
declaration of the fifteen step kinds, any world to begin with, any edits by
others, any calls that fail, and any number of runs:

| theorem | says |
|---|---|
| `CheckIsSound` | what each kind's `Check` says is so, and it leaves the target and what is settled alone |
| `ExecuteIsSound` | an op that succeeds has done what it is there for, reports what it changed, and undoes at most what an op waiting for it is there for |
| `CheckRests` | on a target that is as declared, after a clean run, `Check` finds nothing to do but for a restart, a command without a check and packages kept at the latest version |
| `Invariance`, `TypeCorrect` | `IInv`, `TypeOK` |
| `Convergence` | `Converges`: where all ops are satisfied the target is as declared but for what is `Unseen`; all are satisfied at once unless an op was overtaken, and in any case after as many clean runs as the longest chain has ops |
| `Changes`, `Reporting` | `ChangesAreReal`, and of its two halves `ChangeIsReported` by itself |
| `Care` | `StepsTakeCare` |
| `Healing` | `HealsUnlessStuck` of the nine kinds that keep neither files nor packages |

Assumptions: `ConfigsAssumption` (the declarations and worlds considered are such:
`Config`, `IsWorld`), `BoundsAssumption`, and `ValueAssumption` (the words the code puts
in are values).

`Converges` speaks of a run that is over and says nothing of one half-way, nor
of what an earlier run has left.  `IInv` adds a notion the code does not have: what
each op is there for (`SeesTo`), a predicate of the world.  It stands between
`Check`, which decides whether it is so, `Execute`, which makes it so, and the
declaration: when all ops have seen to what they are there for, the world is as
declared but for what is `Unseen` (`SettledIsDesired`).  The ops of a step form
chains, at most four ops deep (`Ranks`), and an op may undo only what the ops after it
see to.  `RunInv` and `RestInv` count by them: after `streak` clean runs in a row, the
ops of the first `streak` ranks are settled, and stay so.  In a run they are found
satisfied, or have nothing to undo; the ops of the next rank are either found
satisfied, and nothing before them undoes it any more, or executed.  So each clean run settles
one rank more, which is `RepeatedRunsConverge`; a run in which every op is found satisfied
executes nothing, which is `SatisfiedMeansDesired`; and a verdict that still holds
at the end, or an op that was executed last, gives `Converged`.  `PhaseInv` ties verdicts and
what is left to the phases, and keeps an op from running before those it waits for.
`ReportInv` carries the report along: the target is as it was, or a change was reported.
These make up `SettleInv`.

`Idempotent` needs two parts more.  That a target is as declared does not yet mean that a
check finds it so: the cache of a download is no part of the target, and the marker of an
archive may name none.  But a clean run settles the ops that wait for no other, and
leaves the archive marked (`MarkerInv`).  A target as declared of which both hold is at
rest (`AtRest`): every op that a check still finds unsatisfied is one that always does
(`Standing`), a step has at most one of these (`StandsAlone`), and what it does there does
not show (`ExecuteRests`).  So a run that begins on such a target leaves it alone as long
as it is undisturbed, which is `StillInv`.

`HealsUnlessStuck` says of a run that it succeeds, and so is about the errors of an op,
of which the contracts say nothing.  `FailuresHaveReasons` adds, along the same calls:
an op none of whose calls failed ends with an error only in a world that `Stuck` names
or that does not let the declaration be met, and never panics.  The property speaks of
the world the run *began* with, the lemma of the one the op met.  These are the same,
because a step that can be stuck at all has one op (`StuckLasts`) and before the first
op nothing is reported (`FreshInv`), hence nothing changed (`ReportInv`).  That carries
over to `ReasonInv`: a run that failed undisturbed had a reason to.

Both contracts are proved along the calls of each op.  A call may fail before or after
its effect, so a lemma on each call says what it leaves in each case, and one on
each function of the code (`EnsureMode`, `EnsureOwner`, the verified write, the
extraction, reconciling a user, a container or a port) what its outcomes have in common.
`Care` is about the prefixes of the calls: `Careful` relates the world before an op to
the world after any of its outcomes, and is proved op by op; ops of other kinds
leave alone what it speaks of.

## 7. What is model-checked only

* Liveness in all modules, which is out of the prover's reach.
* `HealsUnlessStuck` of the other six kinds.  Of those that keep files it depends on what
  others do between two ops, which `MCStepKinds` fixes: whether
  `ensure_mode_op.go:124` and `ensure_owner_op.go:142` can meet a path that is gone, and
  whether something stands in the way of a temporary file, a marker or a backup.  Of
  packages it is not true in every world: see "Step kinds" in section 8 for one that
  `MCStepKinds` has no edit for.
* The language, whose phases are recursive operators on trees of any depth.

## 8. What is not modelled, and why

* **Linker, standard library, module fetcher, escalation, local target, test kit,
  support packages**: functions without state of their own, or I/O.
* **Step outputs** (`ref.go`): a map under the plan's lock.  A reader that names a
  step's output gets an edge like any other; an unresolved one is an error a step may
  return.
* **Secrets**: decryption, and redaction of what is printed.
* **Platform back-ends** but for their effect: the templates of commands per package,
  service and container manager, and the parsers of their output.
* **Of the language**: several files of one module and user modules; built-in
  functions but `range` and `unique`; the checks attributes make of their arguments;
  comments, multi-line strings, map comprehensions.  The contexts of `lang` avoid
  what is listed below as going wrong, and lone parameters over several lines;
  `FmtIsFaithful` leaves out files with annotated lets.  `fmt_claim` has both.
* **Of the step kinds**: nested archives; source kinds beyond what a file step asks of
  them; what commands contain; failures of the disk of the controller.
* **Of the engine and the output**: the report of `plan` and the inspection commands;
  wording and layout; `findCycle` and the other depth-first searches, which are
  modelled by what they decide; the framing of a shell session, abstracted to
  "whole, or cut off"; usage counters.

### Observations

What follows was met while modelling, and is recorded beside the findings: either no
statement of the repository settles it, or no run of its own is kept for it.

Engine and targets:

* After a failed plan or hook the notifications of the steps that did change are
  dropped; the next run finds those steps satisfied and notifies nobody.
* An op that exceeds its timeout returns `DeadlineExceeded`, which is neither a
  diagnostic nor a cancellation, and ends in the BUG panic.
* A step error that does not abort (`StepAbortedError`) would also end in the BUG
  panic of `handleEngineError`; no diagnostic of the present step kinds asks for it.
* `isDeferred` lets a provided path stand for the directories above it
  (`exec.go:307`), and no edge of the graph does: a check may defer on a step that the
  apply runs later, or beside, and the apply then misses the directory.
* A block that provides a label it requires itself waits for itself, and a label listed
  twice in one block has two providers (`deploy_graph.go:52-64` appends each occurrence):
  `plan` refuses both, `apply` of that block alone does not build the graph.  A refusal of
  the deploy graph reaches the BUG panic (`main.go:359`, `deploy_graph.go:216`).  One block
  on two targets counts as two providers of what it provides (`deploy_graph.go:58`).
* An interrupt that arrives while a hook runs ends in the BUG panic: only `ExecutePlan` and
  `CheckPlan` turn a cancelled context into a `CancelledError`, and `executeHooks` returns it
  bare, although `errors.go:81-82` says of it "This is normal control flow, not a bug."
* A session that its watcher marks after it was pooled is handed out again, although
  `shell_session.go:127` says that it "must not be reused": `release` asks whether the
  session is healthy, `acquire` does not.  The command that takes it is refused by `run`,
  so that `NoRunAfterCutOff` holds all the same.
* `SessionsOpened` is not bounded by `MaxSessions`: a session a timeout spoils is
  replaced.
* A hook step begins although the context is cancelled.  On a terminal of two rows
  the live region leaves lines behind.
* Identity: a lookup that spans an invalidation stores a stale answer; an entry that
  is overwritten leaves its number behind; a change whose answer is lost invalidates
  nothing.

Step kinds (what is behind `Stuck` and `Unseen`, among others):

* A mount point that is there passes for mounted (`apply_claim`).  So the state "mounted"
  never mounts, once the directory is there, nor are options of a mounted file system
  applied again (`MountUnseen`).  The states "unmounted" and "absent" find an unmounted
  directory mounted and fail in `umount`, in every run (`MountStuck`), although
  `mount_test.go:293` says `Test_Mount_AbsentCheckPassesWhenAlreadyGone`; its mock answers
  for mounts alone.  `fstab` is rewritten in place (`ensure_mount_op.go`).
* A rule of firewalld that is in force and was never made permanent is taken for the real
  thing, and the rule of an earlier action stays (`RuleUnseen`).
* `ensure_container_op.go:479` waits for health longer than an op is given by default.
* A satisfied verdict that an op of the same step, executed after it, makes untrue takes
  another run (`Overtaken`).  That is so of a file from a server, of a directory, where
  the mode is found right on a file that stands in its place, and of an archive whose
  new files have other modes or owners.
* A template with a cached remote source that does not parse, or was cut short, aborts
  before the download could mend it.
* A download is written in place and its ETag after it (`download_op.go:198-209`), and an
  error of the latter is dropped.  Where a fetch broke off between the two, or in the first,
  and the server goes back to the version of the ETag on record, the copy passes for it
  (`Mislabelled`).  A fetch that succeeds again mends it in every other case.
* A truncated marker of `unarchive` panics at `[:12]`.  A marker stays valid while a later
  extraction breaks off, so that the tree it vouches for may be spoilt (`FileStuck`,
  `FileUnseen`); `MarkerLast` is about the marker when it is written, and does not see
  that.  Errors of `Mkdir` are dropped.
* Backups of one second overwrite each other although `backup.go:13-14` says "Never
  overwrites an existing backup": `BackedUp` asks for the backup of the second and not
  that an earlier one survives.  A read error counts as nothing to back up.
* `pkg` with "latest" does not refresh the index when satisfied (`apply_claim`,
  `PkgUnseen`); an index less than a second old is not made anew, even if it is out of
  date (`PkgStuck`); of a repository's key and file only their existence is looked at.
* The packages wait for the op of the repository's file (`pkg.go:154`), and ops found
  satisfied hold nobody up (`initPending`): where the file is there and the key is not,
  the packages may be installed, and the index updated, before the key is back.  The
  step fails and the next run mends it.
* Password and home of a user, the number of a group and the health of a container are
  not checked again.  `docker inspect` is asked without a type; an engine that is down
  counts as an absent container.  The `init` of a run set runs in `Check`.

Language:

* `else if` with something that is no expression after it, and `type @`, panic in the
  parser or after it (`stmt.go`, `decl.go:62`).  A declared function without a body in
  the user's file dereferences nil when called.
* `f().T { a = 1 }` drops the call.  Besides the annotations of `let` (`fmt_claim`), the
  formatter drops `pub` before attribute types.
* Names may be used above their declaration and are not evaluated yet.  A `let` in a
  nested scope changes the type of an outer name.  A bare `return` yields none.
* "Funcs are pure" (`checker.go:465`), but their bodies may emit and change globals.
  A type annotation that names a block is never assignable.
* A negative index and `range(-1)` panic.  `&&` and `||` evaluate both operands.  Lists
  are never equal.  A list or an `if` expression has the type of its first element or
  branch.
* A `return` in a block fill at the top leaves the return value set.  Defaults of
  parameters of user declarations are not applied; enums of the main file have no
  value; a local function named like a step of a module captures `module.step {}`.

## 9. Plan

Done: the engine from ops to exit, the pool, the identity cache, the output, the
step kinds and the language, checked; all safety properties of the first seven
(`StepOps`, `PlanExec`, `Hooks`, `Deploys`, `ShellPool`, `IdentityCache`,
`RunOutput`) proved, and the refinements of `Schedule` and `HookNotify`; of the step
kinds that they converge, come to rest, report and take care, and of nine that they
heal.  What is left, in this order:

1. `HealsUnlessStuck` of files and packages, under an assumption on the edits.
2. Step outputs in `PlanExec`: writers and readers, and a reader scheduled without its
   writer.
3. The depth-first cycle searches against `Cyclic`; comments and several files in the
   language; attributes.

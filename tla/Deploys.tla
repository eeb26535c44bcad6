------------------------------- MODULE Deploys -------------------------------
(***************************************************************************)
(* One call of check, apply or plan over a configuration with several      *)
(* deploy blocks: ResolveMultiple (internal/engine/config.go) makes a lane *)
(* of every block and target, buildDeployGraph (deploy_graph.go) sorts the *)
(* lanes into levels by what they provide to and require of one another,   *)
(* runPlansConcurrent (engine.go) runs level after level, the lanes of one *)
(* level at once, runConverge (converge.go) puts the reports together, and *)
(* the command line turns the error into an exit.  What a lane does is     *)
(* Hooks, and here only what it returns.                                   *)
(***************************************************************************)
EXTENDS Naturals, Sequences, FiniteSets, SequencesExt, FiniteSetsExt

CONSTANTS
    Resource, Target,
    Configs     \* [blocks, needs]: the deploy blocks, and what the targets require

\* A block provides a resource as often as its steps do.
Block == [targets : Seq(Target), provides : Seq(Resource), requires : SUBSET Resource]

ASSUME ConfigsAssumption ==
    \A c \in Configs :
        /\ c.blocks \in Seq(Block) \ {<<>>}
        /\ \A b \in DOMAIN c.blocks : c.blocks[b].targets # <<>>
        /\ c.needs \in [Target -> SUBSET Resource]

-----------------------------------------------------------------------------
(***************************************************************************)
(* Resolution and the deploy graph.                                        *)
(***************************************************************************)

\* ResolveMultiple, collectProvides and collectRequires.
LanesOf(c, b) ==
    [t \in DOMAIN c.blocks[b].targets |->
        [block |-> b,
         provides |-> c.blocks[b].provides,
         requires |-> c.blocks[b].requires \cup c.needs[c.blocks[b].targets[t]]]]

Lanes(c) == FlattenSeq([b \in DOMAIN c.blocks |-> LanesOf(c, b)])

\* producer has an entry for every time a resource is provided, by one lane or by
\* several.
Ambiguous(ls) ==
    \E m, n \in DOMAIN ls :
        \E i \in DOMAIN ls[m].provides, j \in DOMAIN ls[n].provides :
            <<m, i>> # <<n, j>> /\ ls[m].provides[i] = ls[n].provides[j]

\* deployNode.deps; a lane that requires what it provides waits for itself.
Deps(ls) ==
    [n \in DOMAIN ls |-> {m \in DOMAIN ls : ls[n].requires \cap Range(ls[m].provides) # {}}]

\* findCycle
Cyclic(g) == \E S \in SUBSET DOMAIN g : S # {} /\ \A n \in S : g[n] \cap S # {}

BugDepthFrom(g) ==
    LET depth[n \in DOMAIN g] ==
            IF g[n] = {} THEN 0 ELSE 1 + Min({depth[m] : m \in g[n]})
    IN  depth

\* depthOf
DepthOf(g) ==
    LET depth[n \in DOMAIN g] ==
            IF g[n] = {} THEN 0 ELSE 1 + Max({depth[m] : m \in g[n]})
    IN  depth

\* The levels the lanes run in.  One lane alone has no graph.
LevelOf(ls) == IF Len(ls) = 1 THEN <<0>> ELSE DepthOf(Deps(ls))

Refusal(ls) ==
    CASE Len(ls) = 1      -> "none"
      [] Ambiguous(ls)    -> "MultipleProvidersError"
      [] Cyclic(Deps(ls)) -> "DeployCycleError"
      [] OTHER            -> "none"

-----------------------------------------------------------------------------
NoErr == "none"

\* What a lane returns when it fails: what its plan or its hooks return, or a
\* target that could not be connected to; "raw" is an error that no caller has
\* made one of the other two.  An interrupt reaches the lanes alone.
LaneErr == {"AbortError", "CancelledError", "raw"}

VARIABLES
    cfg, lanes,
    level,      \* the level of each lane; the lanes of a level run at once
    current,    \* the level that runs
    pc,         \* where the goroutine of each lane is
    causes,     \* the errors of the lanes, in the order they came
    reps,       \* the lanes whose report is in, in the order they came
    result,     \* what runPlansConcurrent returned
    report,     \* the lanes of the aggregated report
    exit        \* how the process ends

vars == <<cfg, lanes, level, current, pc, causes, reps, result, report, exit>>

Lane == DOMAIN lanes

TypeOK ==
    /\ cfg.blocks \in Seq(Block) /\ cfg.needs \in [Target -> SUBSET Resource]
    /\ lanes \in Seq([block : DOMAIN cfg.blocks, provides : Seq(Resource),
                       requires : SUBSET Resource])
    /\ level \in [Lane -> 0 .. Len(lanes)]
    /\ current \in 0 .. Len(lanes)
    /\ pc \in [Lane -> {"idle", "running", "ok", "failed"}]
    /\ causes \in Seq(LaneErr) /\ reps \in Seq(Lane)
    /\ Len(causes) + Len(reps) <= Len(lanes)
    /\ result \in LaneErr \cup {NoErr, "ok", "MultipleProvidersError", "DeployCycleError"}
    /\ report \in Seq(Lane)
    /\ exit \in {NoErr, "ok", "user error", "panic"}

AtLevel(lv, k) == {n \in DOMAIN lv : lv[n] = k}
StartedAt(lv, k) == [n \in DOMAIN lv |-> IF lv[n] = k THEN "running" ELSE "idle"]

\* Resolution, and the graph built or refused.
Init ==
    /\ cfg \in Configs
    /\ lanes = Lanes(cfg)
    /\ result = Refusal(lanes)
    /\ level = IF result = NoErr THEN LevelOf(lanes) ELSE [n \in Lane |-> 0]
    /\ current = 0
    /\ pc = IF result = NoErr THEN StartedAt(level, 0) ELSE [n \in Lane |-> "idle"]
    /\ causes = <<>> /\ reps = <<>>
    /\ report = <<>>
    /\ exit = NoErr

Running == result = NoErr /\ exit = NoErr

LaneSucceeds(n) ==
    /\ Running /\ pc[n] = "running"
    /\ pc' = [pc EXCEPT ![n] = "ok"]
    /\ reps' = Append(reps, n)
    /\ UNCHANGED <<cfg, lanes, level, current, causes, result, report, exit>>

LaneFails(n, e) ==
    /\ Running /\ pc[n] = "running"
    /\ pc' = [pc EXCEPT ![n] = "failed"]
    /\ causes' = Append(causes, e)
    /\ UNCHANGED <<cfg, lanes, level, current, reps, result, report, exit>>

\* A panic in the goroutine of a lane ends the process.
LanePanics(n) ==
    /\ Running /\ pc[n] = "running"
    /\ exit' = "panic"
    /\ UNCHANGED <<cfg, lanes, level, current, pc, causes, reps, result, report>>

LevelOver == \A n \in AtLevel(level, current) : pc[n] # "running"

BugNextLevelRestarts ==
    /\ Running /\ LevelOver
    /\ causes = <<>> /\ AtLevel(level, current + 1) # {}
    /\ current' = current + 1
    /\ pc' = [n \in Lane |-> IF level[n] <= current' THEN "running" ELSE pc[n]]
    /\ UNCHANGED <<cfg, lanes, level, causes, reps, result, report, exit>>

NextLevel ==
    /\ Running /\ LevelOver
    /\ causes = <<>> /\ AtLevel(level, current + 1) # {}
    /\ current' = current + 1
    /\ pc' = [n \in Lane |-> IF level[n] = current' THEN "running" ELSE pc[n]]
    /\ UNCHANGED <<cfg, lanes, level, causes, reps, result, report, exit>>

BugLastCauseOf(cs) == IF Len(cs) = 1 THEN cs[1] ELSE "ok"

\* One cause is returned as it is, several in an AbortError.
ResultOf(cs) ==
    CASE cs = <<>>   -> "ok"
      [] Len(cs) = 1 -> cs[1]
      [] OTHER       -> "AbortError"

BugCompletionOrder(rs) == rs

\* The ordinal of a lane: level by level, and as declared within a level.
Before(m, n) == level[m] < level[n] \/ (level[m] = level[n] /\ m < n)

InOrdinalOrder(rs) ==
    LET S == Range(rs) IN
    [i \in 1 .. Cardinality(S) |->
        CHOOSE n \in S : Cardinality({m \in S : Before(m, n)}) = i - 1]

BugReturnsAtFirstCause ==
    /\ Running
    /\ causes # <<>> \/ (LevelOver /\ AtLevel(level, current + 1) = {})
    /\ result' = ResultOf(causes)
    /\ report' = InOrdinalOrder(reps)
    /\ UNCHANGED <<cfg, lanes, level, current, pc, causes, reps, exit>>

BugWaitsForReports ==
    /\ Running /\ LevelOver
    /\ \A n \in AtLevel(level, current) : n \in Range(reps)
    /\ AtLevel(level, current + 1) = {}
    /\ result' = ResultOf(causes)
    /\ report' = InOrdinalOrder(reps)
    /\ UNCHANGED <<cfg, lanes, level, current, pc, causes, reps, exit>>

\* runPlansConcurrent returns, and runConverge aggregates.
Return ==
    /\ Running /\ LevelOver
    /\ causes # <<>> \/ AtLevel(level, current + 1) = {}
    /\ result' = ResultOf(causes)
    /\ report' = InOrdinalOrder(reps)
    /\ UNCHANGED <<cfg, lanes, level, current, pc, causes, reps, exit>>

\* handleEngineError
ExitOf(e) ==
    CASE e = "ok"                               -> "ok"
      [] e \in {"AbortError", "CancelledError"} -> "user error"
      [] OTHER                                  -> "panic"

Exit ==
    /\ result # NoErr /\ exit = NoErr
    /\ exit' = ExitOf(result)
    /\ UNCHANGED <<cfg, lanes, level, current, pc, causes, reps, result, report>>

Finished == exit # NoErr /\ UNCHANGED vars

LaneNext(n) == LaneSucceeds(n) \/ LanePanics(n) \/ \E e \in LaneErr : LaneFails(n, e)

Progress == NextLevel \/ Return \/ Exit \/ \E n \in Lane : LaneNext(n)

Next == Progress \/ Finished

\* Goroutines run, and every lane ends (Hooks!RunEnds).
Spec == Init /\ [][Next]_vars /\ WF_vars(Progress)

-----------------------------------------------------------------------------
(***************************************************************************)
(* Properties                                                              *)
(***************************************************************************)

\* internal/engine/engine.go:162-163: no lane runs before the lanes that
\* provide what it requires ended well, over any number of levels between.
ProducersFirst ==
    \A m, n \in Lane :
        lanes[n].requires \cap Range(lanes[m].provides) # {} /\ pc[n] # "idle" /\ m # n
            => pc[m] = "ok"

\* internal/engine/engine_test.go:257-258: a failure skips downstream levels
\* entirely while same-level siblings still run to completion.  So when the
\* run returns, nothing is left running, and a lane that never ran has a
\* failure in a level before its own.
OnlyDownstreamSkipped ==
    result \in LaneErr \cup {"ok"} =>
        \A n \in Lane :
            /\ pc[n] # "running"
            /\ pc[n] = "idle" => \E m \in Lane : pc[m] = "failed" /\ level[m] < level[n]

StageOf(n) ==
    CASE pc[n] = "idle"    -> "waits"
      [] pc[n] = "running" -> "runs"
      [] pc[n] = "ok"      -> "done"
      [] OTHER             -> "failed"

OverOf == CASE result = NoErr -> "no" [] result = "ok" -> "all" [] OTHER -> "some"

Sched ==
    INSTANCE Schedule WITH
        waits <- [n \in Lane |-> Deps(lanes)[n] \ {n}],
        stage <- [n \in Lane |-> StageOf(n)],
        over  <- OverOf

\* The levels of runPlansConcurrent run the lanes as Schedule has it: each once,
\* when all that provide what it requires have ended well; the run succeeds when
\* every lane did, and otherwise returns with none running.
KeepsSchedule == Sched!Spec

\* A success reports every lane once, producers before their consumers and
\* lanes of one level as declared, in whatever order they finished.
ReportIsOrdered ==
    exit = "ok" =>
        /\ Len(report) = Len(lanes) /\ Range(report) = Lane
        /\ \A i, j \in DOMAIN report :
              i < j => /\ level[report[i]] <= level[report[j]]
                       /\ level[report[i]] = level[report[j]] => report[i] < report[j]
                       /\ lanes[report[i]].requires \cap Range(lanes[report[j]].provides) = {}
                             \/ Len(lanes) = 1

\* No failure is lost: a run in which some lane failed does not exit as if
\* all went well, however many lanes failed and in whatever order.
NoLostFailure == exit = "ok" => \A n \in Lane : pc[n] # "failed"

\* What the lanes of all levels report is put together whole: in order when all
\* went well, a failure when one of them failed, and nothing left out but what is
\* downstream of it (runPlansConcurrent, runConverge).
ReportIsWhole == OnlyDownstreamSkipped /\ ReportIsOrdered /\ NoLostFailure

\* Every run ends, whichever lanes fail or are interrupted.
RunEnds == <>(exit # NoErr)

-----------------------------------------------------------------------------
(***************************************************************************)
(* The inductive invariant of Deploys: which lanes have run when, what is  *)
(* known of those that have, and what is made of it in the end.  TLC       *)
(* checks it on the same instances as the properties; DeploysProofs proves *)
(* it inductive.                                                           *)
(***************************************************************************)

\* What depthOf, a recursion over the graph, is for: a lane is deeper than the
\* lanes it waits for, and no depth is left out.
LevelsRight(ls) ==
    Refusal(ls) = NoErr =>
        /\ LevelOf(ls) \in [DOMAIN ls -> Nat] /\ \A n \in DOMAIN ls : LevelOf(ls)[n] <= Len(ls)
        /\ Len(ls) # 1 =>
              \A n \in DOMAIN ls : \A m \in Deps(ls)[n] : LevelOf(ls)[m] < LevelOf(ls)[n]
        /\ \A n \in DOMAIN ls : \A k \in 0 .. LevelOf(ls)[n] :
              \E m \in DOMAIN ls : LevelOf(ls)[m] = k

Started == Refusal(lanes) = NoErr

\* A graph that is refused runs nothing.
RefusedInv ==
    ~Started => result = Refusal(lanes) /\ \A n \in Lane : pc[n] = "idle"

\* The levels below the current one are through, those above have not begun.
CurrentInv ==
    Started =>
        /\ level = LevelOf(lanes) /\ current \in Nat
        /\ pc \in [Lane -> {"idle", "running", "ok", "failed"}]
        /\ \A n \in Lane : /\ pc[n] = "idle" <=> level[n] > current
                           /\ level[n] < current => pc[n] = "ok"

\* Every failure is a cause, and of the current level.
CauseInv ==
    /\ causes \in Seq(LaneErr)
    /\ Started => (causes # <<>> <=> \E n \in Lane : pc[n] = "failed" /\ level[n] = current)

\* The run returns when the current level is through and no other follows.
ReturnInv ==
    Started /\ result # NoErr =>
        /\ LevelOver
        /\ causes # <<>> \/ AtLevel(level, current + 1) = {}
        /\ result = ResultOf(causes)

\* The exit is that of the result, or a panic.
ExitInv == exit \in {NoErr, "panic"} \/ (result # NoErr /\ exit = ExitOf(result))

\* What is in of each lane: a report of those that went well, a cause of those
\* that failed.
SettledInv ==
    /\ Range(reps) = {n \in Lane : pc[n] = "ok"}
    /\ Len(causes) + Len(reps) = Cardinality({n \in Lane : pc[n] \in {"ok", "failed"}})

\* What is aggregated is what is in when the run returns.
ReportInv ==
    report = IF Started /\ result # NoErr THEN InOrdinalOrder(reps) ELSE <<>>

LevelInv == RefusedInv /\ CurrentInv /\ CauseInv /\ ReturnInv /\ ExitInv

IInv == TypeOK /\ LevelsRight(lanes) /\ LevelInv /\ SettledInv /\ ReportInv
=============================================================================

------------------------------- MODULE StepRuns -------------------------------
(***************************************************************************)
(* A step that is applied again and again to a target, while the world     *)
(* around it changes: apply checks the ops of the step, executes those     *)
(* that are unsatisfied in the order of their dependencies, and calls the  *)
(* step done when all went through.                                        *)
(*                                                                         *)
(* What the ops do is said in StepKinds.  The scheduling of the ops is     *)
(* that of StepOps, reduced to what its theorems leave: an op that is      *)
(* satisfied is not executed, an unsatisfied one follows its unsatisfied   *)
(* dependencies, the first error ends the step.                            *)
(***************************************************************************)
EXTENDS StepKinds

CONSTANTS
    Configs,            \* the declarations considered
    Worlds(_),          \* the worlds a declaration may meet at first
    Edits(_, _),        \* what others may make of the world meanwhile
    MaxRuns, MaxEdits   \* bounds

ASSUME ConfigsAssumption ==
    \A c \in Configs : c \in Config /\ \A u \in Worlds(c) : IsWorld(c, u)
ASSUME BoundsAssumption == MaxRuns \in Nat /\ MaxEdits \in Nat

VARIABLES
    cfg,        \* the declaration
    w,          \* the world; w.fault tells that a call of this run failed
    phase,      \* "idle", "checks" or "exec"
    verdict,    \* what Check said of each op in this run
    left,       \* the unsatisfied ops that have not been executed
    changed,    \* some op reported Changed, so the hooks are notified
    result,     \* how the last run ended
    before,     \* the world when the run began, a history variable
    edited,     \* others changed the world since the run began
    streak,     \* successful runs in a row, without a fault or an edit
    runs, edits \* bounded

vars == <<cfg, w, phase, verdict, left, changed, result, before, edited,
          streak, runs, edits>>

Init ==
    /\ cfg \in Configs
    /\ w \in Worlds(cfg)
    /\ phase = "idle"
    /\ verdict = [o \in Ops(cfg) |-> "none"]
    /\ left = {}
    /\ changed = FALSE
    /\ result = "none"
    /\ before = w
    /\ edited = FALSE
    /\ streak = 0 /\ runs = 0 /\ edits = 0

\* scampi apply begins.
Start ==
    /\ phase = "idle" /\ runs < MaxRuns
    /\ phase' = "checks"
    /\ runs' = runs + 1
    /\ w' = WithFault(w, FALSE)
    /\ before' = w'
    /\ verdict' = [o \in Ops(cfg) |-> "none"]
    /\ left' = {} /\ changed' = FALSE /\ result' = "none" /\ edited' = FALSE
    /\ UNCHANGED <<cfg, streak, edits>>

\* The run is over.
Over(how) ==
    /\ phase' = "idle"
    /\ result' = how
    /\ streak' = IF how = "ok" /\ ~w'.fault /\ ~edited THEN streak + 1 ELSE 0

\* One op is checked; the checks have no order.
CheckOp(o) ==
    /\ phase = "checks" /\ verdict[o] = "none"
    /\ \E out \in Check(cfg, o, w) :
          /\ w' = out.w
          /\ IF out.res \in {"satisfied", "unsatisfied"}
             THEN /\ verdict' = [verdict EXCEPT ![o] = out.res]
                  /\ UNCHANGED <<phase, result, streak>>
             ELSE Over(out.res) /\ UNCHANGED verdict
    /\ UNCHANGED <<cfg, left, changed, before, edited, runs, edits>>

BugExecutesAll ==
    /\ phase = "checks" /\ \A o \in Ops(cfg) : verdict[o] # "none"
    /\ phase' = "exec"
    /\ left' = Ops(cfg)
    /\ UNCHANGED <<cfg, w, verdict, changed, result, before, edited, streak,
                   runs, edits>>

\* initPending: the satisfied ops count as done and are not looked at again.
StartExec ==
    /\ phase = "checks" /\ \A o \in Ops(cfg) : verdict[o] # "none"
    /\ phase' = "exec"
    /\ left' = {o \in Ops(cfg) : verdict[o] = "unsatisfied"}
    /\ UNCHANGED <<cfg, w, verdict, changed, result, before, edited, streak,
                   runs, edits>>

\* One op is executed.
ExecuteOp(o) ==
    /\ phase = "exec" /\ o \in left /\ Deps(cfg, o) \cap left = {}
    /\ \E out \in Execute(cfg, o, w) :
          /\ w' = out.w
          /\ IF out.res \in {"changed", "unchanged"}
             THEN /\ left' = left \ {o}
                  /\ changed' = (changed \/ out.res = "changed")
                  /\ UNCHANGED <<phase, result, streak>>
             ELSE Over(out.res) /\ UNCHANGED <<left, changed>>
    /\ UNCHANGED <<cfg, verdict, before, edited, runs, edits>>

Finish ==
    /\ phase = "exec" /\ left = {}
    /\ w' = w
    /\ Over("ok")
    /\ UNCHANGED <<cfg, verdict, left, changed, before, edited, runs, edits>>

\* A new version is published, somebody changes the target, time passes.
Edit ==
    /\ edits < MaxEdits
    /\ \E u \in Edits(cfg, w) : IsWorld(cfg, u) /\ w' = WithFault(u, w.fault)
    /\ edits' = edits + 1
    /\ edited' = TRUE
    /\ streak' = 0
    /\ UNCHANGED <<cfg, phase, verdict, left, changed, result, before, runs>>

\* The last run is over and nothing more is done.
Rest ==
    /\ phase = "idle" /\ (runs = MaxRuns \/ result = "panic")
    /\ UNCHANGED vars

Next ==
    \/ Start
    \/ \E o \in Ops(cfg) : CheckOp(o) \/ ExecuteOp(o)
    \/ StartExec
    \/ Finish
    \/ Edit
    \/ Rest

Spec == Init /\ [][Next]_vars

-----------------------------------------------------------------------------
(***************************************************************************)
(* What the steps promise.                                                 *)
(***************************************************************************)

TypeOK ==
    /\ cfg \in Configs
    /\ IsWorld(cfg, w) /\ IsWorld(cfg, before)
    /\ phase \in {"idle", "checks", "exec"}
    /\ verdict \in [Ops(cfg) -> {"none", "satisfied", "unsatisfied"}]
    /\ left \subseteq {o \in Ops(cfg) : verdict[o] = "unsatisfied"}
    /\ changed \in BOOLEAN /\ edited \in BOOLEAN
    /\ result \in {"none", "ok", "error", "panic"}
    /\ runs \in 0..MaxRuns /\ streak \in 0..runs /\ edits \in 0..MaxEdits

\* The run just over went through without a fault and undisturbed.
CleanRun == phase = "idle" /\ result # "none" /\ ~w.fault /\ ~edited

\* An op was found satisfied, and then one that it waits for was executed and
\* left it something to do: initPending does not come back to it.
Overtaken ==
    \E o \in Ops(cfg) :
        /\ verdict[o] = "satisfied"
        /\ \E d \in Deps(cfg, o) : verdict[d] = "unsatisfied"
        /\ [res |-> "satisfied", w |-> w] \notin Check(cfg, o, w)

\* When apply has finished, the target is in the declared state, but for what no
\* check of the step looks at; in the one run in which an op was overtaken it
\* may fall short.
Converged == CleanRun /\ result = "ok" /\ ~Overtaken => Desired(cfg, w) \/ Unseen(cfg, w)

\* A run that finds every op satisfied may be believed, whatever failures,
\* interrupted runs and edits it follows.
SatisfiedMeansDesired ==
    phase = "exec" /\ left = {} /\ ~w.fault /\ ~edited
        /\ (\A o \in Ops(cfg) : verdict[o] = "satisfied")
    => Desired(cfg, w) \/ Unseen(cfg, w)

\* The ops of a step form chains: how many come before op o, and o itself.
Rank(c) == LET rank[o \in Ops(c)] ==
                   IF Deps(c, o) = {} THEN 1 ELSE 1 + rank[CHOOSE d \in Deps(c, o) : TRUE]
           IN rank

\* A verdict that was overtaken costs a run for every op it can pass through: as
\* many clean runs in a row as the longest chain has ops make up for all of them.
RepeatedRunsConverge ==
    CleanRun /\ (\A o \in Ops(cfg) : streak >= Rank(cfg)[o])
    => Desired(cfg, w) \/ Unseen(cfg, w)

\* A step reaches what it declares, but for what none of its checks looks at
\* (Unseen): in one clean run unless an op was overtaken in it, in as many as its
\* longest chain has ops in any case; and where it says "satisfied" of all of its
\* ops there is nothing else amiss (runStep).
Converges == Converged /\ SatisfiedMeansDesired /\ RepeatedRunsConverge

\* A run that follows a clean one on a target that is as declared, and not one
\* of those beyond the step, changes nothing.
Idempotent ==
    CleanRun /\ streak >= 2 /\ Desired(cfg, before) /\ ~Stuck(cfg, before)
    => Target(cfg, w) = Target(cfg, before)

\* What changed the target is reported, so that its hooks run.
ChangeIsReported ==
    CleanRun /\ result = "ok" /\ Target(cfg, w) # Target(cfg, before) => changed

\* A change is what is reported as one, and a settled target sees none: the
\* hooks of a step run when there is a reason (opNode.changed).
ChangesAreReal == Idempotent /\ ChangeIsReported

\* Whatever broken runs have left, an undisturbed run succeeds where the
\* declaration can be met at all, and no op runs into a state its author called
\* impossible; but for the worlds known to be beyond the step.
HealsUnlessStuck ==
    /\ CleanRun /\ Feasible(cfg, w) /\ ~Stuck(cfg, before) => result = "ok"
    /\ phase = "idle" /\ ~Stuck(cfg, before) => result # "panic"

-----------------------------------------------------------------------------
(***************************************************************************)
(* What single kinds promise besides, at every step that is not an edit of *)
(* others: how the worlds before and after it compare.                     *)
(***************************************************************************)

\* copy: content that the verify command rejects never takes the place of
\* content that is there, whatever call fails.
VerifiedOnly ==
    cfg.kind = "copy" /\ cfg.verify = "command" /\ Contents(w'.fs, Dest) = "bad"
    => Contents(w.fs, Dest) = "bad"

\* copy, unarchive: an op none of whose calls failed leaves nothing behind of
\* what it put on the target for its own use, however it ends.
NoTempLeft ==
    cfg.kind \in {"copy", "unarchive"} /\ ~w'.fault
    => {TempFile, TempDir, Archive} \cap DOMAIN w'.fs \subseteq DOMAIN w.fs

\* copy: with backup, no file is replaced whose content is not in the backup of
\* that second, unless a call failed and was taken for "no file".  A backup made
\* earlier in the same second is lost.
BackedUp ==
    cfg.kind = "copy" /\ cfg.backup /\ ~w'.fault /\ IsFile(w.fs, Dest)
        /\ Contents(w'.fs, Dest) # Contents(w.fs, Dest)
    => Contents(w'.fs, BackupOf(Dest, w.clock)) = Contents(w.fs, Dest)

\* unarchive: the marker of an archive is written when all of it is unpacked,
\* whatever call fails and wherever the op breaks off.
MarkerLast ==
    cfg.kind = "unarchive" /\ Contents(w'.fs, Marker) # Contents(w.fs, Marker)
        /\ Readable(Contents(w'.fs, Marker))
    => Unpacked(w'.fs, Contents(w'.fs, Marker))

\* download: what enters the cache has the checksum that was declared, as far as
\* it gets.
CacheIsVerified ==
    cfg.kind = "copy" /\ cfg.checksum # "none" /\ w'.cache # w.cache
    => w'.cache = cfg.checksum \/ (w'.cache = "cut" /\ w'.fault)

\* service: a service that is started runs the unit file that is on the disk,
\* not the one the service manager read at an earlier time.
StartsCurrentUnit ==
    cfg.kind = "service" /\ w.running = "no" /\ w'.running # "no"
    => w'.running = w'.unit

\* What has to be done in a certain order because any call may be the last one,
\* verify before write, backup before write, marker and cache after, reload
\* before start, is done in that order.
StepsTakeCare ==
    [][edits' = edits =>
          /\ VerifiedOnly /\ NoTempLeft /\ BackedUp
          /\ MarkerLast /\ CacheIsVerified /\ StartsCurrentUnit]_vars

-----------------------------------------------------------------------------
(***************************************************************************)
(* The inductive invariant: what the ops have seen to so far.              *)
(***************************************************************************)

\* What op o is there for.
SeesTo(c, o, u) ==
    CASE o = "dir"      -> IsDir(u.fs, Dest)
      [] o = "link"     -> LinkInPlace(u.fs)
      [] o = "content"  -> HasContent(c, u)
      [] o = "archive"  -> Marked(c, u)
      [] o = "mode"     -> TreeHas(u.fs, Dest, Deep(c), "mode", c.mode)
      [] o = "owner"    -> TreeHas(u.fs, Dest, Deep(c), "owner", c.owner)
      [] o = "download" -> IF c.checksum # "none" THEN u.cache = c.checksum
                           ELSE u.meta = u.remote /\ u.cache # "none"
      [] o = "key"      -> u.key # "none"
      [] o = "repo"     -> u.repo # "none"
      [] o = "pkgs"     -> Actionable(c, u) = {}
      [] o = "active"   -> (u.running # "no") = (c.state = "running")
      [] o = "enabled"  -> u.enabled = c.enabled
      [] o = "set"      -> u.live = c.value
      [] o = "persist"  -> u.dropin = c.value
      [] o = "cleanup"  -> u.dropin = "none"
      [] o \in {"restarted", "reloaded"} -> u.running = u.unit /\ u.loaded = u.unit
      [] OTHER          -> Desired(c, u) \/ Unseen(c, u)

\* Nothing has disturbed the run so far, or the last run.
Quiet == ~w.fault /\ ~edited

\* The plan of a run_set is made by Check and carried out by Execute.
PlanStands(c, u) ==
    c.kind = "run_set" => u.listed /\ u.adds = ToAdd(c, u) /\ u.removes = ToRemove(c, u)

\* An op waits for o.
Leads(c, o) == \E p \in Ops(c) : o \in Deps(c, p)

\* Nor is an op executed before those it waits for.
PhaseInv ==
    /\ phase = "checks" => left = {} /\ ~changed
    /\ phase = "exec" \/ result = "ok" => \A o \in Ops(cfg) : verdict[o] # "none"
    /\ phase # "idle" => result = "none" /\ streak < runs
    /\ result = "ok" => left = {}
    /\ phase = "exec" => \A o \in Ops(cfg) :
          verdict[o] = "unsatisfied" /\ o \notin left => Deps(cfg, o) \cap left = {}

\* In a run: what clean runs have settled stays so; what was found satisfied is
\* so unless something has been executed since; what was executed is done.
RunInv ==
    phase # "idle" /\ Quiet => \A o \in Ops(cfg) :
        /\ Rank(cfg)[o] <= streak =>
              SeesTo(cfg, o, w) /\ (Leads(cfg, o) => verdict[o] # "unsatisfied")
        /\ verdict[o] = "satisfied"
              /\ \/ phase = "checks" \/ Rank(cfg)[o] <= streak + 1
                 \/ left = {p \in Ops(cfg) : verdict[p] = "unsatisfied"}
                 \/ \A d \in Deps(cfg, o) : verdict[d] = "satisfied"
           => SeesTo(cfg, o, w)
        /\ verdict[o] = "unsatisfied" =>
              IF phase = "checks" \/ o \in left THEN PlanStands(cfg, w) ELSE SeesTo(cfg, o, w)

\* After it: as many ops are settled, in their order, as clean runs went before,
\* and those that were executed or not overtaken.
RestInv ==
    phase = "idle" => \A o \in Ops(cfg) :
        \/ Rank(cfg)[o] <= streak
        \/ /\ Quiet /\ result = "ok"
           /\ verdict[o] = "unsatisfied" \/ \A d \in Deps(cfg, o) : verdict[d] = "satisfied"
        => SeesTo(cfg, o, w)

\* The target is as it was, or a change has been reported.
ReportInv ==
    Quiet /\ (phase # "idle" \/ result = "ok") => changed \/ Target(cfg, w) = Target(cfg, before)

\* How far the ops of the step have got.
SettleInv == TypeOK /\ PhaseInv /\ RunInv /\ RestInv /\ ReportInv

\* An archive that was found extracted, or extracted, has a marker.
Marking ==
    /\ cfg.kind = "unarchive" /\ (phase = "idle" \/ Quiet)
    /\ \/ streak >= 1
       \/ phase # "idle" /\ verdict["archive"] = "satisfied"
       \/ phase = "exec" /\ "archive" \notin left
MarkerInv == Marking => Contents(w.fs, Marker) # "none"

\* An op that finds something to do although the target is as declared.
Standing(c, o) ==
    \/ o \in {"restarted", "reloaded"}
    \/ c.kind = "run" /\ c.always
    \/ o = "pkgs" /\ c.state = "latest"

\* A run that began on a settled target leaves it alone: no other op has
\* anything to do.
Calm == phase # "idle" /\ Quiet /\ streak >= 1 /\ Desired(cfg, before) /\ ~Stuck(cfg, before)
StillInv ==
    Calm => /\ Target(cfg, w) = Target(cfg, before)
            /\ \A o \in Ops(cfg) : verdict[o] = "unsatisfied" => Standing(cfg, o)
            /\ phase = "checks" \/ left # {} => Desired(cfg, w) /\ ~Stuck(cfg, w)

IInv == SettleInv /\ MarkerInv /\ StillInv
=============================================================================

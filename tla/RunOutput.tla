----------------------------- MODULE RunOutput -----------------------------
(***************************************************************************)
(* The output of a run: the steps of concurrent deploys emit events        *)
(* (engine/exec.go), the Emitter (diagnostic/policy.go) sends them one at  *)
(* a time into the channel of the stream (render/cli/stream.go), and one   *)
(* goroutine tracks what is in flight (inflight.go), hands the events to   *)
(* the Sequencer (render/order/order.go), which holds back the block of a  *)
(* step until those before it in its lane are out, and draws the live      *)
(* region below what is printed for good (region.go, sink.go).  The        *)
(* command closes the channel when the run is over, however it ended.      *)
(*                                                                         *)
(* A lane is a deploy; its steps are numbered 1 .. Plan[l], its hook steps *)
(* go on from there (the source numbers from 0).  Which steps of a plan    *)
(* run when is left open: the dependencies of PlanExec only rule some of   *)
(* these orders out.                                                       *)
(***************************************************************************)
EXTENDS Integers, Sequences, FiniteSets, SequencesExt, FiniteSetsExt

CONSTANTS
    Lane,           \* the ordinals of the deploys
    Plan, HookSteps, \* the number of steps and of hook steps of each lane
    MaxChanges,     \* a bound: the changes one step reports
    Buffer,         \* the capacity of the channel (streamBuffer)
    MaxShown,       \* the running steps shown of a lane (maxPerLane)
    Height          \* the rows of the terminal

ASSUME LaneAssumption == Lane \subseteq Nat /\ IsFiniteSet(Lane)
ASSUME StepsAssumption == Plan \in [Lane -> Nat] /\ HookSteps \in [Lane -> Nat]
ASSUME BoundsAssumption == /\ MaxChanges \in Nat /\ Buffer \in Nat \ {0}
                           /\ MaxShown \in Nat /\ Height \in Nat

Steps(l) == 1 .. Plan[l] + HookSteps[l]
IsHook(l, i) == i > Plan[l]
PlanSteps == UNION {{l} \X (1 .. Plan[l]) : l \in Lane}

Event == [kind : {"Begin", "Change", "Result", "Error"}, lane : Lane,
          index : Nat, nr : 0 .. MaxChanges, ok : BOOLEAN]

\* What the terminal keeps: the block of a step, an error, or the summary.
Line == [kind : {"block"}, lane : Lane, index : Nat,
         changes : Seq(1 .. MaxChanges), ok : BOOLEAN]
        \cup [kind : {"error", "summary"}]

VARIABLES
    at,         \* of each step: waiting, running, failing, settled, failed,
                \* or dropped
    sent,       \* the changes each step has reported
    cancelled,  \* the lanes whose context is cancelled
    main,       \* the command: runs, has failed or succeeded, stops, is over
    events, closed, \* the channel
    running,    \* inflight: the steps of each lane that began and did not finish
    finished,   \* inflight: the plan steps and the hook steps that settled
    pending,    \* Sequencer: the blocks held back in each lane, by index
    cursor,     \* Sequencer: the index each lane waits for
    printed,    \* what the terminal keeps: step blocks, errors, the summary
    drawn,      \* the lines of the live region on the terminal
    smeared,    \* a line of the live region was left behind in the scrollback
    done        \* the consumer has ended

engine == <<at, sent, cancelled, main>>
consumer == <<running, finished, pending, cursor, printed, drawn, smeared, done>>
vars == <<at, sent, cancelled, main, events, closed, running, finished,
          pending, cursor, printed, drawn, smeared, done>>

Init ==
    /\ at = [l \in Lane |-> [i \in Steps(l) |-> "waiting"]]
    /\ sent = [l \in Lane |-> [i \in Steps(l) |-> 0]]
    /\ cancelled = {}
    /\ main = "runs"
    /\ events = <<>> /\ closed = FALSE
    /\ running = [l \in Lane |-> {}]
    /\ finished = [plan |-> 0, hooks |-> 0]
    /\ pending = [l \in Lane |-> << >>]
    /\ cursor = [l \in Lane |-> 1]
    /\ printed = <<>>
    /\ drawn = 0 /\ smeared = FALSE
    /\ done = FALSE

-----------------------------------------------------------------------------
(***************************************************************************)
(* The engine.  Emit holds the mutex of the Emitter while it waits for     *)
(* room in the channel, so that sends are atomic and in some order.        *)
(*                                                                         *)
(* Operators named Bug... are plausible mistakes in the definition that    *)
(* follows them, for the mutation runs.                                    *)
(***************************************************************************)
BugUnbounded(kind, l, i, nr, ok) ==
    events' = Append(events, [kind |-> kind, lane |-> l, index |-> i,
                              nr |-> nr, ok |-> ok])

Emit(kind, l, i, nr, ok) ==
    /\ Len(events) < Buffer
    /\ events' = Append(events, [kind |-> kind, lane |-> l, index |-> i,
                                 nr |-> nr, ok |-> ok])

Plain(kind) == [kind |-> kind]

Over(l, i) == at[l][i] \in {"settled", "failed", "dropped"}
LaneOver(l) == \A i \in Steps(l) : Over(l, i)

\* A step of the plan may run next to any other, also in a lane cancelled since
\* it looked; executeHooks runs the hook steps one after the other once the plan
\* has succeeded, and does not look at the context between them.
MayBegin(l, i) ==
    /\ at[l][i] = "waiting"
    /\ IsHook(l, i) => \A j \in 1 .. i - 1 : at[l][j] = "settled"

\* emitBegin
BeginStep(l, i) ==
    /\ MayBegin(l, i)
    /\ at' = [at EXCEPT ![l][i] = "running"]
    /\ Emit("Begin", l, i, 0, TRUE)
    /\ UNCHANGED <<sent, cancelled, main, closed, consumer>>

\* ResolveRefs fails before the step begins: an error is all there is of it.
RefFails(l, i) ==
    /\ MayBegin(l, i) /\ ~ IsHook(l, i)
    /\ at' = [at EXCEPT ![l][i] = "dropped"]
    /\ cancelled' = cancelled \cup {l}
    /\ Emit("Error", l, i, 0, FALSE)
    /\ UNCHANGED <<sent, main, closed, consumer>>

\* emitChanges and emitExecuted, by an op of the step.
ReportChange(l, i) ==
    /\ at[l][i] = "running" /\ sent[l][i] < MaxChanges
    /\ sent' = [sent EXCEPT ![l][i] = @ + 1]
    /\ Emit("Change", l, i, sent[l][i] + 1, TRUE)
    /\ UNCHANGED <<at, cancelled, main, closed, consumer>>

\* emitStepDiagnostic: the step failed, or was cancelled, and says so.
Fail(l, i) ==
    /\ at[l][i] = "running"
    /\ at' = [at EXCEPT ![l][i] = "failing"]
    /\ Emit("Error", l, i, 0, FALSE)
    /\ UNCHANGED <<sent, cancelled, main, closed, consumer>>

\* emitResult; the error a failed step returns cancels its lane.
Settle(l, i) ==
    /\ at[l][i] \in {"running", "failing"}
    /\ LET ok == at[l][i] = "running"
       IN  /\ at' = [at EXCEPT ![l][i] = IF ok THEN "settled" ELSE "failed"]
           /\ cancelled' = IF ok THEN cancelled ELSE cancelled \cup {l}
           /\ Emit("Result", l, i, 0, ok)
    /\ UNCHANGED <<sent, main, closed, consumer>>

\* A step of a cancelled lane that has not begun never does, and neither does a
\* hook step that no change asked for or whose plan failed.
Drop(l, i) ==
    /\ at[l][i] = "waiting"
    /\ IF IsHook(l, i) THEN \A j \in 1 .. i - 1 : Over(l, j) ELSE l \in cancelled
    /\ at' = [at EXCEPT ![l][i] = "dropped"]
    /\ UNCHANGED <<sent, cancelled, main, events, closed, consumer>>

\* The user interrupts the run: the context of every lane is cancelled.
Interrupt ==
    /\ main = "runs" /\ cancelled # Lane
    /\ cancelled' = Lane
    /\ UNCHANGED <<at, sent, main, events, closed, consumer>>

Succeeded ==
    \A l \in Lane : \A i \in Steps(l) :
        at[l][i] = "settled" \/ (IsHook(l, i) /\ at[l][i] = "dropped")

BugReturnsOnError == main = "runs" /\ (cancelled # {} \/ \A l \in Lane : LaneOver(l))

\* runConverge returns when every deploy it started has.
RunOver == main = "runs" /\ \A l \in Lane : LaneOver(l)

RunReturns ==
    /\ RunOver
    /\ main' = IF Succeeded THEN "succeeded" ELSE "failed"
    /\ UNCHANGED <<at, sent, cancelled, events, closed, consumer>>

BugStopsOnSuccess ==
    /\ main = "succeeded" /\ ~ closed
    /\ closed' = TRUE
    /\ UNCHANGED <<engine, events, consumer>>

\* RenderSummary, or the deferred Flush of a run that failed: stop closes the
\* channel and waits for the consumer.
Stop ==
    /\ main \in {"succeeded", "failed"} /\ ~ closed
    /\ closed' = TRUE
    /\ UNCHANGED <<engine, events, consumer>>

BugPrintsBeforeEnd ==
    /\ main \in {"succeeded", "failed"} /\ closed
    /\ main' = "over"
    /\ printed' = IF main = "succeeded" THEN Append(printed, Plain("summary")) ELSE printed
    /\ UNCHANGED <<at, sent, cancelled, events, closed, running, finished,
                   pending, cursor, drawn, smeared, done>>

\* The consumer has ended: the summary is printed after all it printed.
Exit ==
    /\ main \in {"succeeded", "failed"} /\ done
    /\ main' = "over"
    /\ printed' = IF main = "succeeded" THEN Append(printed, Plain("summary")) ELSE printed
    /\ UNCHANGED <<at, sent, cancelled, events, closed, running, finished,
                   pending, cursor, drawn, smeared, done>>

-----------------------------------------------------------------------------
(***************************************************************************)
(* inflight and the live region.                                           *)
(***************************************************************************)
Began(e) == [running EXCEPT ![e.lane] = @ \cup {e.index}]

Finished(e) == [running EXCEPT ![e.lane] = @ \ {e.index}]

BugCountsHooks(e) == [finished EXCEPT !.plan = @ + 1]

\* A hook step is not counted with the steps of the plan.
Counted(e) == IF IsHook(e.lane, e.index) THEN [finished EXCEPT !.hooks = @ + 1]
              ELSE [finished EXCEPT !.plan = @ + 1]

\* What there is to show: at most MaxShown steps a lane, and a line for the rest.
Rows(inFlight) ==
    {r \in Lane \X (1 .. MaxShown + 1) : r[2] <= Cardinality(inFlight[r[1]])}

BugUncapped(inFlight, footer) == Cardinality(Rows(inFlight)) + footer

\* regionLines cuts the lines to what the terminal has room for; the footer with
\* the progress always stays.
RegionLines(inFlight, footer) ==
    LET lines == Cardinality(Rows(inFlight))
        room == Height - 1 - footer
    IN  (IF lines >= Height - 1 THEN Max({room, 1}) ELSE lines) + footer

\* eraseRegion moves up as far as the terminal lets it: the cursor is on the row
\* below the region, and a region as high as the terminal has scrolled.
Smears == drawn > Height - 1

-----------------------------------------------------------------------------
(***************************************************************************)
(* The Sequencer.                                                          *)
(***************************************************************************)
Indices(l) == DOMAIN pending[l]

BugFreshBlock(l, i) == [changes |-> <<>>, done |-> FALSE, ok |-> FALSE]

BlockOf(l, i) == IF i \in Indices(l) THEN pending[l][i]
                 ELSE [changes |-> <<>>, done |-> FALSE, ok |-> FALSE]

\* collect
Collect(l, i, b) ==
    [pending EXCEPT ![l] = [j \in Indices(l) \cup {i} |-> IF j = i THEN b ELSE pending[l][j]]]

BugReleasesAll(pend, c) == {i \in DOMAIN pend : pend[i].done}

BugReleasesOne(pend, c) == {i \in DOMAIN pend : i = c /\ pend[i].done}

\* advance: the completed blocks that follow the cursor without a gap.
Released(pend, c) ==
    {i \in DOMAIN pend : i >= c /\ \A j \in c .. i : j \in DOMAIN pend /\ pend[j].done}

BugNoDrain(pend) == {}

\* drain: what is left of a lane, and complete.
Drained(pend) == {i \in DOMAIN pend : pend[i].done}

\* Blocks come out by the ordinal of their lane and by index: a pair stands at
\* the place that the number of those before it gives.
Before(p, q) == p[1] < q[1] \/ (p[1] = q[1] /\ p[2] < q[2])

InOrder(S) == [k \in 1 .. Cardinality(S) |->
                  CHOOSE p \in S : Cardinality({q \in S : Before(q, p)}) = k - 1]

\* flush replays the changes of a step and then its verdict, from which the CLI
\* prints one block.
Block(pend, l, i) == [kind |-> "block", lane |-> l, index |-> i,
                      changes |-> pend[l][i].changes, ok |-> pend[l][i].ok]

Flushed(pend, S) == [k \in 1 .. Cardinality(S) |->
                        Block(pend, InOrder(S)[k][1], InOrder(S)[k][2])]

-----------------------------------------------------------------------------
(***************************************************************************)
(* The consumer.                                                           *)
(***************************************************************************)
Head1 == Head(events)
Take(kinds) == ~ done /\ events # <<>> /\ Head1.kind \in kinds /\ events' = Tail(events)

Repaint(inFlight) ==
    /\ smeared' = (smeared \/ Smears)
    /\ drawn' = RegionLines(inFlight, 1)

HandleBegin ==
    /\ Take({"Begin"})
    /\ running' = Began(Head1)
    /\ Repaint(running')
    /\ UNCHANGED <<engine, closed, finished, pending, cursor, printed, done>>

\* An error is printed at once, above the region.
HandleError ==
    /\ Take({"Error"})
    /\ printed' = Append(printed, Plain("error"))
    /\ smeared' = (smeared \/ Smears)
    /\ UNCHANGED <<engine, closed, running, finished, pending, cursor, drawn, done>>

HandleChange ==
    /\ Take({"Change"})
    /\ LET b == BlockOf(Head1.lane, Head1.index)
       IN  pending' = Collect(Head1.lane, Head1.index,
                              [b EXCEPT !.changes = Append(@, Head1.nr)])
    /\ UNCHANGED <<engine, closed, running, finished, cursor, printed, drawn,
                   smeared, done>>

HandleResult ==
    /\ Take({"Result"})
    /\ running' = Finished(Head1)
    /\ finished' = Counted(Head1)
    /\ Repaint(running')
    /\ LET l    == Head1.lane
           b    == BlockOf(l, Head1.index)
           pend == Collect(l, Head1.index, [b EXCEPT !.done = TRUE, !.ok = Head1.ok])
           idxs == Released(pend[l], cursor[l])
       IN  /\ pending' = [pend EXCEPT ![l] = [i \in DOMAIN pend[l] \ idxs |-> pend[l][i]]]
           /\ cursor' = [cursor EXCEPT ![l] = @ + Cardinality(idxs)]
           /\ printed' = printed \o Flushed(pend, {l} \X idxs)
    /\ UNCHANGED <<engine, closed, done>>

\* The ticker turns the spinner of the steps in flight.
Tick ==
    /\ ~ done
    /\ IF \E l \in Lane : running[l] # {} THEN Repaint(running)
       ELSE UNCHANGED <<smeared, drawn>>
    /\ UNCHANGED <<engine, events, closed, running, finished, pending, cursor,
                   printed, done>>

\* finish: Flush drains the lanes in the order of their ordinals, and the
\* region is wiped.
FinishStream ==
    /\ ~ done /\ events = <<>> /\ closed
    /\ printed' = printed \o Flushed(pending, UNION {{l} \X Drained(pending[l]) : l \in Lane})
    /\ pending' = [l \in Lane |-> << >>]
    /\ smeared' = (smeared \/ Smears)
    /\ drawn' = 0
    /\ done' = TRUE
    /\ UNCHANGED <<engine, events, closed, running, finished, cursor>>

Consume == HandleBegin \/ HandleError \/ HandleChange \/ HandleResult \/ FinishStream

StepEmits(l, i) == \/ BeginStep(l, i) \/ RefFails(l, i) \/ ReportChange(l, i)
                   \/ Fail(l, i) \/ Settle(l, i)

StepMoves(l, i) == StepEmits(l, i) \/ Drop(l, i)

Command == RunReturns \/ Stop \/ Exit

Next ==
    \/ \E l \in Lane : \E i \in Steps(l) : StepMoves(l, i)
    \/ Interrupt
    \/ Command
    \/ Consume
    \/ Tick
    \/ (main = "over" /\ UNCHANGED vars)

\* Goroutines run on: a step that may go on does (an op that hangs is cut off by
\* its timeout, see StepOps), and so do the consumer and the command.
Fairness ==
    /\ \A l \in Lane : \A i \in Steps(l) : SF_vars(StepMoves(l, i))
    /\ WF_vars(Consume)
    /\ WF_vars(Command)

Spec == Init /\ [][Next]_vars /\ Fairness

-----------------------------------------------------------------------------
\* The lines that show a block of a lane.
BlocksOf(l) == {k \in DOMAIN printed : printed[k].kind = "block" /\ printed[k].lane = l}

\* One type invariant: the engine, the channel and the consumer hold what the
\* source declares them to.
TypeOK ==
    /\ \A l \in Lane : /\ at[l] \in [Steps(l) -> {"waiting", "running", "failing",
                                                  "settled", "failed", "dropped"}]
                       /\ sent[l] \in [Steps(l) -> 0 .. MaxChanges]
                       /\ running[l] \subseteq Steps(l)
                       /\ Indices(l) \subseteq Steps(l)
                       /\ cursor[l] \in 1 .. Plan[l] + HookSteps[l] + 1
    /\ cancelled \subseteq Lane
    /\ main \in {"runs", "succeeded", "failed", "over"}
    /\ events \in Seq(Event) /\ Len(events) <= Buffer
    /\ finished \in [plan : 0 .. Cardinality(PlanSteps), hooks : Nat]
    /\ printed \in Seq(Line)
    /\ drawn \in Nat

\* The blocks of a lane come out in the order of its steps, each once, also
\* those that are only released when the run ends ("the bytes a run emits match
\* what serial execution would produce", order.go).
DeclarationOrder ==
    \A l \in Lane : \A j, k \in BlocksOf(l) :
        j < k => printed[j].index < printed[k].index

\* A block shows the verdict of its step and every change the step reported, in
\* the order it reported them, however the events of the lanes were mixed.
WholeBlocks ==
    \A l \in Lane : \A k \in BlocksOf(l) :
        LET b == printed[k]
        IN  /\ b.changes = [n \in 1 .. sent[l][b.index] |-> n]
            /\ b.ok = (at[l][b.index] = "settled")

\* When the process ends, exactly the steps that settled have been shown, on
\* the paths that abort the run as well: the steps that completed behind one
\* that never did are not stranded (the comment on Sequencer.Flush).
NothingStranded ==
    main = "over" =>
        \A l \in Lane : {printed[k].index : k \in BlocksOf(l)}
                        = {i \in Steps(l) : at[l][i] \in {"settled", "failed"}}

\* A block is held back only because an earlier step of its lane has no verdict
\* yet: the Sequencer never sits on the block its cursor points at.
HeldForAReason ==
    \A l \in Lane : cursor[l] \in Indices(l) => ~ pending[l][cursor[l]].done

\* The terminal shows the run as it would look with its steps one by one: the
\* block of each step, whole, in its place, and none kept back longer than
\* that takes (Sequencer).
BlocksInOrder == DeclarationOrder /\ WholeBlocks /\ NothingStranded /\ HeldForAReason

\* Nothing is sent into the closed channel (a panic): when the command stops the
\* stream, no step of any lane is left that could emit.
NoSendAfterClose == closed => \A l \in Lane : LaneOver(l)

\* The summary is the last line, after the blocks of all steps.
SummaryLast == \A k \in DOMAIN printed : printed[k].kind = "summary" => k = Len(printed)

\* The end of a command comes in order: steps, close of the channel, last
\* blocks, summary (streamSink.stop, RenderSummary).
EndsInOrder == NoSendAfterClose /\ SummaryLast

\* The live region is a picture of the run: once the consumer has caught up, it
\* knows as in flight exactly the steps that began and did not settle, and the
\* footer counts the plan steps that did.
RegionIsCurrent ==
    events = <<>> =>
        /\ \A l \in Lane : running[l] = {i \in Steps(l) : at[l][i] \in {"running", "failing"}}
        /\ finished.plan = Cardinality({p \in PlanSteps : at[p[1]][p[2]] \in {"settled", "failed"}})

\* On a terminal of at least three rows the live region fits ("a region taller
\* than the screen breaks CursorUp", region.go): none of its lines is left
\* behind among the lines that stay.
ScrollbackIsClean == Height >= 3 => ~ smeared

\* The live region shows what is running, and nothing of it stays
\* (inflight, regionLines, sink).
RegionIsTrue == RegionIsCurrent /\ ScrollbackIsClean

\* The command ends, whoever fails and however small the buffer of the channel.
CommandEnds == <>(main = "over")

-----------------------------------------------------------------------------
(***************************************************************************)
(* The inductive invariant of RunOutput.  The events of a step come in one *)
(* order: Begin, the changes, the result.  What a step has told is fixed   *)
(* by its state; what the consumer has heard of it is what it told and is  *)
(* not in the channel any more.  The invariant says of the region, of the  *)
(* blocks held back and of what is printed that they are as much as was    *)
(* heard warrants.                                                         *)
(***************************************************************************)

\* The place of an event among those of its step.
Final == MaxChanges + 1
Rank(e) == IF e.kind = "Begin" THEN 0 ELSE IF e.kind = "Change" THEN e.nr ELSE Final

States == {"waiting", "running", "failing", "settled", "failed", "dropped"}
IsSettled(l, i) == at[l][i] \in {"settled", "failed"}

\* The events a step has sent, by their place.
Told(l, i) ==
    IF at[l][i] \in {"waiting", "dropped"} THEN {}
    ELSE 0 .. sent[l][i] \cup (IF IsSettled(l, i) THEN {Final} ELSE {})

\* Where the channel holds an event of a step; an error is not tracked.
Of(l, i) == {k \in DOMAIN events : /\ events[k].kind # "Error"
                                   /\ events[k].lane = l /\ events[k].index = i}

Heard(l, i) == Told(l, i) \ {Rank(events[k]) : k \in Of(l, i)}

EngineInv ==
    /\ DOMAIN at = Lane /\ DOMAIN sent = Lane
    /\ \A l \in Lane : /\ at[l] \in [Steps(l) -> States]
                       /\ sent[l] \in [Steps(l) -> 0 .. MaxChanges]
    /\ \A l \in Lane : \A i \in Steps(l) :
          at[l][i] \in {"waiting", "dropped"} => sent[l][i] = 0
    /\ cancelled \subseteq Lane
    /\ main \in {"runs", "succeeded", "failed", "over"}
    /\ main # "runs" => \A l \in Lane : LaneOver(l)
    /\ closed \in BOOLEAN /\ (closed => main # "runs")

\* What the channel holds was told, and says of the step what is true of it.
Warranted(e) ==
    /\ e.index \in Steps(e.lane)
    /\ e.kind # "Error" => Rank(e) \in Told(e.lane, e.index)
    /\ e.kind = "Change" => e.nr >= 1
    /\ e.kind = "Result" => e.ok = (at[e.lane][e.index] = "settled")

InLine(l, i) == \A j, k \in Of(l, i) : j < k => Rank(events[j]) < Rank(events[k])

\* Nothing more comes of a step that was heard to end.
Complete(l, i) == Final \in Heard(l, i) => Heard(l, i) = Told(l, i)

\* The channel: what each step told, in the order it told it.
ChannelInv ==
    /\ events \in Seq(Event) /\ Len(events) <= Buffer
    /\ \A k \in DOMAIN events : Warranted(events[k])
    /\ \A l \in Lane : \A i \in Steps(l) : InLine(l, i) /\ Complete(l, i)

\* The region: what was heard to begin and not to end, and how many ended.
RegionInv ==
    /\ DOMAIN running = Lane
    /\ \A l \in Lane :
          running[l] = {i \in Steps(l) : 0 \in Heard(l, i) /\ Final \notin Heard(l, i)}
    /\ finished \in [plan : Nat, hooks : Nat]
    /\ finished.plan = Cardinality({p \in PlanSteps : Final \in Heard(p[1], p[2])})
    /\ drawn \in Nat /\ smeared \in BOOLEAN
    /\ Height >= 3 => drawn <= Height - 1 /\ ~ smeared

BlockType == [changes : Seq(1 .. MaxChanges), done : BOOLEAN, ok : BOOLEAN]

\* The changes a block holds are those that were heard, and a complete block
\* holds all there are.
Fits(b, l, i) ==
    /\ b \in BlockType
    /\ b.changes = [n \in 1 .. Len(b.changes) |-> n]
    /\ \A n \in 1 .. MaxChanges : n \in Heard(l, i) <=> n <= Len(b.changes)
    /\ b.done <=> Final \in Heard(l, i)
    /\ b.done => b.ok = (at[l][i] = "settled") /\ Len(b.changes) = sent[l][i]

\* The Sequencer: the cursor stands at the first step whose end was not heard,
\* and nothing is held for a step before it.
LaneInv(l) ==
    /\ cursor[l] \in 1 .. Plan[l] + HookSteps[l] + 1
    /\ DOMAIN pending[l] \subseteq Steps(l)
    /\ ~ done => /\ \A i \in DOMAIN pending[l] : i >= cursor[l]
                 /\ cursor[l] \in DOMAIN pending[l] => ~ pending[l][cursor[l]].done
                 /\ \A i \in Steps(l) : IF i < cursor[l] THEN Final \in Heard(l, i)
                                        ELSE Fits(BlockOf(l, i), l, i)

SequencerInv ==
    /\ DOMAIN cursor = Lane /\ DOMAIN pending = Lane
    /\ \A l \in Lane : LaneInv(l)

\* The steps whose block is out: those before the cursor, and in the end all
\* that were heard to end.
Out(l, i) == IF done THEN Final \in Heard(l, i) ELSE i < cursor[l]

\* A block that is out shows all its step told, and how it ended.
Shown(b) ==
    b.kind = "block" =>
        /\ b.index \in Steps(b.lane) /\ Out(b.lane, b.index)
        /\ Final \in Heard(b.lane, b.index)
        /\ b.changes = [n \in 1 .. sent[b.lane][b.index] |-> n]
        /\ b.ok = (at[b.lane][b.index] = "settled")

PrintedInv ==
    /\ printed \in Seq(Line)
    /\ \A k \in DOMAIN printed : Shown(printed[k])
    /\ DeclarationOrder
    /\ \A l \in Lane : \A i \in Steps(l) :
          Out(l, i) => \E k \in BlocksOf(l) : printed[k].index = i

\* The end: the channel is closed, then emptied, and then the summary may come.
EndInv ==
    /\ done \in BOOLEAN
    /\ done => closed /\ events = <<>> /\ \A l \in Lane : pending[l] = << >>
    /\ main = "over" => done
    /\ \A k \in DOMAIN printed : printed[k].kind = "summary" =>
          main = "over" /\ k = Len(printed)

\* The inductive invariant.
IInv == /\ EngineInv /\ ChannelInv /\ RegionInv
        /\ SequencerInv /\ PrintedInv /\ EndInv
=============================================================================

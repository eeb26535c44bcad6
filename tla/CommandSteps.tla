----------------------------- MODULE CommandSteps -----------------------------
(***************************************************************************)
(* The step kinds that run commands of the user's: run, with a command to  *)
(* apply and one to check, and run_set, which keeps a set of items with a  *)
(* command to list them and commands to add and remove some.               *)
(***************************************************************************)
EXTENDS FiniteSets, Calls

-----------------------------------------------------------------------------
(***************************************************************************)
(* run.  World: holds, what the check command asks.  Declaration: always,  *)
(* there is no check; apply, what the command does: it "works", it "fails" *)
(* or it is "idle" and succeeds without effect.                            *)
(***************************************************************************)

CheckRun(c, w) == IF c.always THEN Verdict(FALSE, w)
                  ELSE Ask(w, LAMBDA u : Verdict(u.holds, u))

\* The check is run again after the command.
ExecuteRun(c, w) ==
    LET Verify(u) == IF c.always THEN Done(u)
                     ELSE Ask(u, LAMBDA v : IF v.holds THEN Done(v) ELSE Ends("error", v))
    IN IF c.apply = "fails" THEN Ask(w, LAMBDA u : Ends("error", u))
       ELSE Call(w, [w EXCEPT !.holds = @ \/ c.apply = "works"], Verify)

-----------------------------------------------------------------------------
(***************************************************************************)
(* run_set.  World: listed, the list command works; live, the items there  *)
(* are; adds and removes, the plan of the op, made by Check for Execute.   *)
(* Declaration: desired; add, remove and init, there is such a command.    *)
(***************************************************************************)

\* The init command is run when the list command fails, in a check too.
ListLive(c, w) ==
    Ask(w, LAMBDA u : IF u.listed THEN Returns(u)
                      ELSE IF ~c.init THEN Ends("error", u)
                      ELSE Call(u, [u EXCEPT !.listed = TRUE], LAMBDA v : Ask(v, Returns)))

ToAdd(c, w)    == IF c.add THEN c.desired \ w.live ELSE {}
ToRemove(c, w) == IF c.remove THEN w.live \ c.desired ELSE {}
Planned(c, w)  == [w EXCEPT !.adds = ToAdd(c, w), !.removes = ToRemove(c, w)]

CheckRunSet(c, w) ==
    Then(ListLive(c, w), LAMBDA u :
        Verdict(ToAdd(c, u) \cup ToRemove(c, u) = {}, Planned(c, u)))

\* The items to remove come first, one by one or in one command, and what
\* breaks off has done some of them.
WithItems(w, T)    == [w EXCEPT !.live = @ \cup T]
WithoutItems(w, T) == [w EXCEPT !.live = @ \ T]

AddItems(w) ==
    (UNION {Lost(WithItems(w, T)) : T \in SUBSET w.adds})
    \cup Ends(IF w.adds \cup w.removes = {} THEN "unchanged" ELSE "changed",
              WithItems(w, w.adds))

ExecuteRunSet(c, w) ==
    (UNION {Lost(WithoutItems(w, T)) : T \in SUBSET w.removes})
    \cup AddItems(WithoutItems(w, w.removes))

-----------------------------------------------------------------------------

CommandConfig ==
    [kind: {"run"}, always: BOOLEAN, apply: {"works", "fails", "idle"}] \cup
    [kind: {"run_set"}, desired: SUBSET Value, add: BOOLEAN, remove: BOOLEAN, init: BOOLEAN]

RunWorld    == [fault: BOOLEAN, holds: BOOLEAN]
RunSetWorld == [fault: BOOLEAN, listed: BOOLEAN, live: SUBSET Value, adds: SUBSET Value,
                removes: SUBSET Value]

IsCommandWorld(c, w) == IF c.kind = "run" THEN w \in RunWorld ELSE w \in RunSetWorld

CommandCheck(c, w)   == IF c.kind = "run" THEN CheckRun(c, w) ELSE CheckRunSet(c, w)
CommandExecute(c, w) == IF c.kind = "run" THEN ExecuteRun(c, w) ELSE ExecuteRunSet(c, w)

CommandDesired(c, w) ==
    /\ c.kind = "run" => w.holds
    /\ c.kind = "run_set" => /\ w.listed
                             /\ c.add => c.desired \subseteq w.live
                             /\ c.remove => w.live \subseteq c.desired

CommandFeasible(c, w) == /\ c.kind = "run" => c.apply = "works"
                         /\ c.kind = "run_set" => w.listed \/ c.init

\* Nobody looks at what a command without a check has done.
CommandUnseen(c, w) == c.kind = "run" /\ c.always /\ c.apply = "idle"
=============================================================================

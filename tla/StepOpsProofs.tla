---------------------------- MODULE StepOpsProofs ----------------------------
(***************************************************************************)
(* Proofs about StepOps, for every finite set of ops and every set of      *)
(* acyclic dependency functions.                                           *)
(***************************************************************************)
EXTENDS StepOps, FiniteSetTheorems, TLAPS

\* The initial state satisfies the inductive invariant.
LEMMA InitInv == Init => IInv
<1> SUFFICES ASSUME Init PROVE IInv
  OBVIOUS
<1>1. TypeOK
  BY DEF Init, TypeOK, Outcomes, StepErr, OpErr, NoErr
<1>2. ModeInv /\ PhaseInv /\ OutcomeInv /\ ReportInv
  BY DEF Init, ModeInv, PhaseInv, OutcomeInv, ReportInv, NoErr
<1>3. PendingInv /\ StartedInv /\ JoinedInv /\ CauseInv
  BY DEF Init, PendingInv, StartedInv, JoinedInv, CauseInv, NoErr
<1> QED
  BY <1>1, <1>2, <1>3 DEF IInv

\* Awaited is a finite set, so that its size is a number.
LEMMA AwaitedFinite ==
    ASSUME TypeOK, NEW o \in Op
    PROVE  /\ deps[o] \subseteq Op /\ Awaited(o) \subseteq Op
           /\ IsFiniteSet(Awaited(o))
           /\ Cardinality(Awaited(o)) \in Nat
           /\ Cardinality(Awaited(o)) = 0 <=> Awaited(o) = {}
<1>1. deps[o] \subseteq Op
  BY GraphAssumption DEF TypeOK
<1>2. Awaited(o) \subseteq Op /\ IsFiniteSet(Awaited(o))
  BY <1>1, OpAssumption, FS_Subset DEF Awaited
<1> QED
  BY <1>1, <1>2, FS_CardinalityType, FS_EmptySet

\* An action that leaves the graph and the nodes' settlement alone leaves
\* Awaited alone.
LEMMA AwaitedSame ==
    ASSUME UNCHANGED <<deps, satisfied>>,
           \A d \in Op : outcome[d] = "Succeeded" <=> outcome'[d] = "Succeeded",
           TypeOK, NEW o \in Op
    PROVE  Awaited(o)' = Awaited(o)
<1>1. deps[o] \subseteq Op
  BY AwaitedFinite
<1> QED
  BY <1>1 DEF Awaited

\* A check that passes concerns its op alone.
LEMMA CheckPassesInv ==
    ASSUME IInv, NEW o \in Op, NEW sat \in BOOLEAN, CheckPasses(o, sat)
    PROVE  IInv'
<1> USE DEF CheckPasses, plan
<1>1. TypeOK' /\ ModeInv'
  BY DEF IInv, ModeInv, TypeOK, Outcomes
<1>2. PhaseInv'
  BY DEF IInv, TypeOK, PhaseInv
<1>3. OutcomeInv'
  BY DEF IInv, TypeOK, OutcomeInv, PhaseInv
<1>4. ReportInv'
  BY DEF IInv, TypeOK, ReportInv, OutcomeInv
<1>5. PendingInv' /\ StartedInv' /\ JoinedInv'
  <2>1. phase = "checks" /\ phase' = "checks" /\ execErr = NoErr
    BY DEF IInv, TypeOK, PhaseInv, JoinedInv
  <2>2. StartedInv'
    BY <2>1 DEF IInv, TypeOK, PhaseInv, StartedInv
  <2> QED
    BY <2>1, <2>2 DEF PendingInv, JoinedInv
<1>6. CauseInv'
  BY DEF IInv, TypeOK, CauseInv, ExecCtxDone
<1> QED
  BY <1>1, <1>2, <1>3, <1>4, <1>5, <1>6 DEF IInv

\* A deferral happens in a check run only.
LEMMA CheckDeferredInv ==
    ASSUME IInv, NEW o \in Op, CheckDeferred(o)
    PROVE  IInv'
<1> USE DEF CheckDeferred, plan
<1>1. TypeOK' /\ ModeInv'
  BY DEF IInv, ModeInv, TypeOK, Outcomes
<1>2. PhaseInv'
  BY DEF IInv, TypeOK, PhaseInv
<1>3. OutcomeInv'
  BY DEF IInv, ModeInv, TypeOK, OutcomeInv, PhaseInv
<1>4. ReportInv'
  BY DEF IInv, TypeOK, ReportInv, OutcomeInv
<1>5. PendingInv' /\ StartedInv' /\ JoinedInv'
  <2>1. phase = "checks" /\ phase' = "checks" /\ execErr = NoErr
    BY DEF IInv, TypeOK, PhaseInv, JoinedInv
  <2>2. StartedInv'
    BY <2>1 DEF IInv, TypeOK, PhaseInv, StartedInv
  <2> QED
    BY <2>1, <2>2 DEF PendingInv, JoinedInv
<1>6. CauseInv'
  BY DEF IInv, TypeOK, CauseInv, ExecCtxDone
<1> QED
  BY <1>1, <1>2, <1>3, <1>4, <1>5, <1>6 DEF IInv

\* A first check error is kept for good, and nothing has been scheduled yet.
LEMMA CheckFailsInv ==
    ASSUME IInv, NEW o \in Op, NEW e \in OpErr, CheckFails(o, e)
    PROVE  IInv'
<1> USE DEF CheckFails, plan, FirstErr, NoErr, OpErr
<1>1. TypeOK' /\ ModeInv'
  BY DEF IInv, ModeInv, TypeOK, Outcomes, StepErr
<1>2. PhaseInv'
  BY DEF IInv, TypeOK, PhaseInv
<1>3. OutcomeInv'
  BY DEF IInv, TypeOK, OutcomeInv, PhaseInv
<1>4. ReportInv'
  BY DEF IInv, TypeOK, ReportInv, OutcomeInv
<1>5. PendingInv' /\ StartedInv' /\ JoinedInv'
  <2>1. phase = "checks" /\ phase' = "checks" /\ execErr = NoErr
    BY DEF IInv, TypeOK, PhaseInv, JoinedInv
  <2>2. StartedInv'
    BY <2>1 DEF IInv, TypeOK, PhaseInv, StartedInv
  <2> QED
    BY <2>1, <2>2 DEF PendingInv, JoinedInv
<1>6. CauseInv'
  BY DEF IInv, TypeOK, CauseInv, ExecCtxDone, CheckCtxDone, PhaseInv
<1> QED
  BY <1>1, <1>2, <1>3, <1>4, <1>5, <1>6 DEF IInv

\* Execute is called by a goroutine whose op awaits nothing.
LEMMA ExecuteInv ==
    ASSUME IInv, NEW o \in Op, Execute(o)
    PROVE  IInv'
<1> USE DEF Execute, plan, node
<1>1. TypeOK' /\ ModeInv'
  BY DEF IInv, ModeInv, TypeOK
<1>2. PhaseInv'
  BY DEF IInv, TypeOK, PhaseInv
<1>3. OutcomeInv'
  BY DEF IInv, TypeOK, OutcomeInv, PhaseInv
<1>4. ReportInv'
  BY DEF IInv, TypeOK, ReportInv
<1>5. PendingInv' /\ StartedInv' /\ JoinedInv'
  <2>1. \A p \in Op : Awaited(p)' = Awaited(p)
    BY AwaitedSame DEF IInv, TypeOK, OutcomeInv
  <2>2. PendingInv'
    BY <2>1 DEF IInv, TypeOK, PhaseInv, PendingInv
  <2>3. StartedInv'
    BY <2>1 DEF IInv, TypeOK, StartedInv
  <2>4. JoinedInv'
    BY DEF IInv, TypeOK, PhaseInv, JoinedInv
  <2> QED
    BY <2>2, <2>3, <2>4
<1>6. CauseInv'
  BY DEF IInv, TypeOK, CauseInv, ExecCtxDone
<1> QED
  BY <1>1, <1>2, <1>3, <1>4, <1>5, <1>6 DEF IInv

\* A failure settles the op without counting anything down.
LEMMA ExecFailsInv ==
    ASSUME IInv, NEW o \in Op, NEW e \in OpErr, ExecFails(o, e)
    PROVE  IInv'
<1> USE DEF ExecFails, plan, OpErr, NoErr
<1>1. TypeOK' /\ ModeInv'
  BY DEF IInv, ModeInv, TypeOK, Outcomes
<1>2. PhaseInv'
  BY DEF IInv, TypeOK, PhaseInv
<1>3. OutcomeInv'
  BY DEF IInv, TypeOK, OutcomeInv, PhaseInv
<1>4. ReportInv'
  BY DEF IInv, TypeOK, ReportInv, OutcomeInv
<1>5. PendingInv' /\ StartedInv' /\ JoinedInv'
  <2>1. \A p \in Op : Awaited(p)' = Awaited(p)
    BY AwaitedSame DEF IInv, TypeOK, OutcomeInv
  <2>2. PendingInv'
    BY <2>1 DEF IInv, TypeOK, PhaseInv, PendingInv
  <2>3. StartedInv'
    BY <2>1 DEF IInv, TypeOK, StartedInv
  <2>4. JoinedInv'
    BY DEF IInv, TypeOK, PhaseInv, JoinedInv
  <2> QED
    BY <2>2, <2>3, <2>4
<1>6. CauseInv'
  BY DEF IInv, TypeOK, CauseInv, ExecCtxDone
<1> QED
  BY <1>1, <1>2, <1>3, <1>4, <1>5, <1>6 DEF IInv

\* The group keeps its first error; by then the context is done already.
LEMMA GroupFailsInv ==
    ASSUME IInv, NEW o \in Op, GroupFails(o)
    PROVE  IInv'
<1> USE DEF GroupFails, plan, node, FirstErr, NoErr
<1>1. TypeOK' /\ ModeInv'
  BY DEF IInv, ModeInv, TypeOK, OutcomeInv
<1>2. PhaseInv'
  BY DEF IInv, TypeOK, PhaseInv
<1>3. OutcomeInv'
  BY DEF IInv, TypeOK, OutcomeInv, PhaseInv, OpErr
<1>4. ReportInv'
  BY DEF IInv, TypeOK, ReportInv
<1>5. PendingInv' /\ StartedInv' /\ JoinedInv'
  <2>1. \A p \in Op : Awaited(p)' = Awaited(p)
    BY AwaitedSame DEF IInv, TypeOK, OutcomeInv
  <2>2. PendingInv'
    BY <2>1 DEF IInv, TypeOK, PhaseInv, PendingInv
  <2>3. StartedInv'
    BY <2>1 DEF IInv, TypeOK, StartedInv
  <2>4. JoinedInv'
    BY DEF IInv, TypeOK, PhaseInv, JoinedInv
  <2> QED
    BY <2>2, <2>3, <2>4
<1>6. CauseInv'
  BY DEF IInv, TypeOK, CauseInv, ExecCtxDone, OutcomeInv
<1> QED
  BY <1>1, <1>2, <1>3, <1>4, <1>5, <1>6 DEF IInv

\* A cancellation from above changes no node.
LEMMA CancelInv ==
    ASSUME IInv, Cancel
    PROVE  IInv'
<1> USE DEF Cancel, plan, node
<1>1. TypeOK' /\ ModeInv'
  BY DEF IInv, ModeInv, TypeOK
<1>2. PhaseInv'
  BY DEF IInv, TypeOK, PhaseInv
<1>3. OutcomeInv'
  BY DEF IInv, TypeOK, OutcomeInv, PhaseInv
<1>4. ReportInv'
  BY DEF IInv, TypeOK, ReportInv
<1>5. PendingInv' /\ StartedInv' /\ JoinedInv'
  <2>1. \A p \in Op : Awaited(p)' = Awaited(p)
    BY AwaitedSame DEF IInv
  <2> QED
    BY <2>1 DEF IInv, PendingInv, StartedInv, JoinedInv
<1>6. CauseInv'
  BY DEF IInv, TypeOK, CauseInv, ExecCtxDone
<1> QED
  BY <1>1, <1>2, <1>3, <1>4, <1>5, <1>6 DEF IInv

\* When the checks went through, the first counts are exact and the ops that
\* are started await nothing.
LEMMA StartExecInv ==
    ASSUME IInv, StartExec
    PROVE  IInv'
<1> USE DEF StartExec, ChecksJoined, plan
<1>1. \A o \in Op : pc[o] = "idle" /\ calls[o] = 0
  BY DEF IInv, PhaseInv
<1>2. \A o \in Op : Awaited(o)' = Awaited(o)
  BY AwaitedSame DEF IInv
<1>3. \A o \in Op : ~satisfied[o] => PendingAtStart[o] = Cardinality(Awaited(o))
  <2> SUFFICES ASSUME NEW o \in Op, ~satisfied[o]
               PROVE  PendingAtStart[o] = Cardinality(Awaited(o))
    OBVIOUS
  <2>1. \A d \in Op : ~satisfied[d] => outcome[d] # "Succeeded"
    BY <1>1 DEF IInv, OutcomeInv
  <2>2. deps[o] \subseteq Op
    BY AwaitedFinite DEF IInv
  <2>3. {d \in deps[o] : ~satisfied[d]} = Awaited(o)
    BY <2>1, <2>2 DEF Awaited
  <2> QED
    BY <2>3 DEF PendingAtStart
<1>4. PendingAtStart \in [Op -> Nat]
  BY <1>3, AwaitedFinite DEF IInv, PendingAtStart
<1>5. TypeOK' /\ ModeInv'
  BY <1>4 DEF IInv, ModeInv, TypeOK
<1>6. PhaseInv'
  BY <1>1 DEF IInv, TypeOK, PhaseInv
<1>7. OutcomeInv'
  BY <1>1 DEF IInv, TypeOK, OutcomeInv, ReportInv, NoErr
<1>8. ReportInv'
  BY DEF IInv, ReportInv
<1>9. PendingInv'
  <2> SUFFICES ASSUME NEW o \in Op, ~satisfied[o]
               PROVE  /\ pending'[o] = Cardinality(Awaited(o)')
                      /\ pc'[o] = "idle" <=> pending'[o] # 0
    BY DEF PendingInv
  <2> QED
    BY <1>1, <1>2, <1>3 DEF IInv, TypeOK
<1>10. StartedInv'
  BY <1>1, <1>2, <1>3, AwaitedFinite DEF IInv, TypeOK, StartedInv
<1>11. JoinedInv'
  BY DEF IInv, JoinedInv
<1>12. CauseInv'
  BY <1>1 DEF IInv, TypeOK, CauseInv, ExecCtxDone
<1> QED
  BY <1>5, <1>6, <1>7, <1>8, <1>9, <1>10, <1>11, <1>12 DEF IInv

\* A success counts down exactly the ops that awaited it.
LEMMA ExecSucceedsInv ==
    ASSUME IInv, NEW o \in Op, NEW ch \in BOOLEAN, ExecSucceeds(o, ch)
    PROVE  IInv'
<1> USE DEF ExecSucceeds, plan
<1>1. /\ phase = "exec" /\ phase' = "exec" /\ ~satisfied[o]
      /\ outcome[o] # "Succeeded" /\ checkErr = NoErr /\ ~checkOnly
  BY DEF IInv, TypeOK, PhaseInv, OutcomeInv
<1>2. ASSUME NEW d \in Op
      PROVE  Awaited(d)' = Awaited(d) \ {o}
  <2>1. deps[d] \subseteq Op
    BY AwaitedFinite DEF IInv
  <2> QED
    BY <2>1 DEF IInv, TypeOK, Awaited
<1>3. ASSUME NEW d \in Op, d \in Dependents(o)
      PROVE  /\ o \in Awaited(d) /\ ~satisfied[d]
             /\ pending[d] \in Nat \ {0}
             /\ pending[d] = Cardinality(Awaited(d))
             /\ Cardinality(Awaited(d)') = pending[d] - 1
             /\ pc[d] = "idle"
  <2>1. o \in Awaited(d) /\ ~satisfied[d]
    BY <1>1, <1>3 DEF Dependents, Awaited
  <2>2. pending[d] = Cardinality(Awaited(d)) /\ pending[d] \in Nat
    BY <1>1, <2>1, AwaitedFinite DEF IInv, PendingInv
  <2>3. IsFiniteSet(Awaited(d)) /\ Cardinality(Awaited(d)) # 0
    BY <2>1, AwaitedFinite DEF IInv
  <2>4. Cardinality(Awaited(d) \ {o}) = Cardinality(Awaited(d)) - 1
    BY <2>1, <2>3, FS_RemoveElement
  <2>5. pc[d] = "idle"
    BY <1>1, <2>1, <2>2, <2>3 DEF IInv, PendingInv
  <2> QED
    BY <1>2, <2>1, <2>2, <2>3, <2>4, <2>5
<1>4. ASSUME NEW d \in Op, d \notin Dependents(o), ~satisfied[d]
      PROVE  Awaited(d)' = Awaited(d)
  BY <1>2, <1>4 DEF Dependents, Awaited
<1>5. \A d \in Op : pc'[d] # pc[d] => d = o \/ (d \in Dependents(o) /\ pc[d] = "idle")
  BY <1>3 DEF IInv, TypeOK
<1>6. o \notin Dependents(o) /\ pc'[o] = "over"
  BY <1>3 DEF IInv, TypeOK
<1>7. TypeOK' /\ ModeInv'
  <2>1. pending' \in [Op -> Nat]
    BY <1>3 DEF IInv, TypeOK
  <2> QED
    BY <2>1 DEF IInv, ModeInv, TypeOK, Outcomes
<1>8. PhaseInv'
  BY <1>1, <1>3, <1>5, <1>6 DEF IInv, TypeOK, PhaseInv
<1>9. OutcomeInv'
  BY <1>1, <1>3, <1>5, <1>6 DEF IInv, TypeOK, OutcomeInv, ReportInv, NoErr
<1>10. ReportInv'
  BY DEF IInv, TypeOK, ReportInv, OutcomeInv
<1>11. PendingInv'
  <2> SUFFICES ASSUME NEW d \in Op, ~satisfied[d]
               PROVE  /\ pending'[d] = Cardinality(Awaited(d)')
                      /\ pc'[d] = "idle" <=> pending'[d] # 0
    BY DEF PendingInv
  <2>1. CASE d \in Dependents(o)
    BY <1>3, <1>6, <2>1 DEF IInv, TypeOK
  <2>2. CASE d \notin Dependents(o) /\ d # o
    BY <1>1, <1>4, <2>2 DEF IInv, TypeOK, PendingInv
  <2>3. CASE d = o
    BY <1>1, <1>4, <1>6, <2>3 DEF IInv, TypeOK, PendingInv
  <2> QED
    BY <2>1, <2>2, <2>3
<1>12. StartedInv'
  <2> SUFFICES ASSUME NEW d \in Op, pc'[d] \in {"scheduled", "running", "failing", "over"}
               PROVE  Awaited(d)' = {}
    BY DEF StartedInv
  <2>1. CASE pc[d] \in {"scheduled", "running", "failing", "over"}
    BY <1>2, <2>1 DEF IInv, StartedInv
  <2>2. CASE d \in Dependents(o) /\ pending[d] = 1
    <3>1. IsFiniteSet(Awaited(d)) /\ Cardinality(Awaited(d)') = 0
      BY <1>3, <2>2, AwaitedFinite DEF IInv
    <3> QED
      BY <1>2, <3>1, FS_EmptySet, FS_Subset
  <2> QED
    BY <2>1, <2>2 DEF IInv, TypeOK
<1>13. JoinedInv'
  BY <1>1 DEF IInv, JoinedInv
<1>14. CauseInv'
  BY <1>5, <1>6 DEF IInv, TypeOK, CauseInv, ExecCtxDone
<1> QED
  BY <1>7, <1>8, <1>9, <1>10, <1>11, <1>12, <1>13, <1>14 DEF IInv

\* An execution that ends without an error has executed every op: the ops
\* still idle would all await one another, and the graph has no cycle.
LEMMA JoinInv ==
    ASSUME IInv, Join
    PROVE  IInv'
<1> USE DEF Join, plan, node
<1>1. TypeOK' /\ ModeInv'
  BY DEF IInv, ModeInv, TypeOK
<1>2. \A o \in Op : pc[o] \in {"idle", "over"}
  BY DEF IInv, TypeOK, PhaseInv, ChecksJoined, ExecJoined
<1>3. PhaseInv'
  BY <1>2 DEF IInv, PhaseInv
<1>4. OutcomeInv' /\ ReportInv'
  BY <1>2 DEF IInv, OutcomeInv, ReportInv, ChecksJoined, ExecJoined
<1>5. PendingInv' /\ StartedInv'
  <2>1. \A o \in Op : Awaited(o)' = Awaited(o)
    BY AwaitedSame DEF IInv
  <2> QED
    BY <2>1 DEF IInv, PendingInv, StartedInv
<1>6. ASSUME ExecJoined, execErr = NoErr
      PROVE  \A o \in Op : satisfied[o] \/ outcome[o] = "Succeeded"
  <2> DEFINE Left == {o \in Op : ~satisfied[o] /\ outcome[o] # "Succeeded"}
  <2>1. ASSUME NEW o \in Left
        PROVE  pc[o] = "idle"
    BY <1>2, <1>6 DEF IInv, OutcomeInv
  <2>2. ASSUME NEW o \in Left
        PROVE  deps[o] \cap Left # {}
    <3>1. pending[o] # 0 /\ pending[o] = Cardinality(Awaited(o))
      BY <1>6, <2>1 DEF IInv, PendingInv, ExecJoined
    <3>2. Awaited(o) # {} /\ Awaited(o) \subseteq Op
      BY <3>1, AwaitedFinite DEF IInv
    <3>3. Awaited(o) \subseteq deps[o] \cap Left
      BY <3>2 DEF Awaited
    <3> QED
      BY <3>2, <3>3
  <2>3. Left = {}
    <3>1. Acyclic(deps) /\ Left \in SUBSET Op
      BY GraphAssumption DEF IInv, TypeOK
    <3>2. Left # {} => \E o \in Left : deps[o] \cap Left = {}
      BY <3>1 DEF Acyclic
    <3> QED
      BY <2>2, <3>2
  <2> QED
    BY <2>3
<1>7. JoinedInv'
  BY <1>6 DEF IInv, JoinedInv, ChecksJoined, ExecJoined
<1>8. CauseInv'
  BY DEF IInv, CauseInv, ExecCtxDone
<1> QED
  BY <1>1, <1>3, <1>4, <1>5, <1>7, <1>8 DEF IInv

\* Every op gets an outcome its result and error agree with.
LEMMA ReportStepInv ==
    ASSUME IInv, Report
    PROVE  IInv'
<1> USE DEF Report, plan
<1>1. \A o \in Op : pc[o] \in {"idle", "over"}
  BY DEF IInv, TypeOK, PhaseInv
<1>2. FirstError \in StepErr \cup OpErr /\ (FirstError = "cancelled" => cancelled)
      /\ StepErrOf(FirstError) \in StepErr
  BY DEF IInv, TypeOK, CauseInv, FirstError, StepErrOf, StepErr, OpErr, NoErr
<1>3. ASSUME NEW o \in Op
      PROVE  /\ FinalOutcome(o) \in Outcomes \ {"unknown"}
             /\ outcome[o] # "unknown" => FinalOutcome(o) = outcome[o] /\ FinalErr(o) = err[o]
             /\ outcome[o] = "unknown" =>
                   \/ /\ FinalOutcome(o) = "Aborted" /\ FinalErr(o) # NoErr
                      /\ FirstError # NoErr
                   \/ /\ FinalOutcome(o) = "WouldChange" /\ FinalErr(o) = NoErr
                      /\ checkOnly
             /\ FinalErr(o) \in OpErr \cup StepErr
  <2>1. outcome[o] = "unknown" /\ FirstError = NoErr => checkOnly /\ ~satisfied[o]
    BY DEF IInv, JoinedInv, OutcomeInv, FirstError
  <2>2. outcome[o] \in Outcomes /\ err[o] \in OpErr \cup StepErr
    BY DEF IInv, TypeOK
  <2>3. outcome[o] = "unknown" => err[o] = NoErr
    BY DEF IInv, ReportInv
  <2>4. CASE outcome[o] # "unknown"
    BY <2>2, <2>4 DEF FinalOutcome, FinalErr
  <2>5. CASE outcome[o] = "unknown" /\ FirstError # NoErr
    BY <1>2, <2>5 DEF FinalOutcome, FinalErr, Outcomes
  <2>6. CASE outcome[o] = "unknown" /\ FirstError = NoErr
    BY <2>1, <2>2, <2>3, <2>6 DEF FinalOutcome, FinalErr, Outcomes
  <2> QED
    BY <2>4, <2>5, <2>6
<1>4. phase' = "done"
  <2> SUFFICES ASSUME NEW o \in Op
               PROVE  ValidReport(o, FinalOutcome(o), FinalErr(o))
    OBVIOUS
  <2>1. /\ changed[o] => outcome[o] = "Succeeded"
        /\ err[o] = NoErr <=> outcome[o] \notin {"Failed", "Aborted"}
    BY DEF IInv, ReportInv
  <2> QED
    BY <1>3, <2>1 DEF ValidReport, Outcomes
<1>5. TypeOK' /\ ModeInv'
  BY <1>2, <1>3, <1>4 DEF IInv, ModeInv, TypeOK
<1>6. PhaseInv'
  BY <1>1, <1>4 DEF IInv, PhaseInv
<1>7. OutcomeInv'
  BY <1>1, <1>3, <1>4 DEF IInv, TypeOK, OutcomeInv
<1>8. ReportInv'
  BY <1>3 DEF IInv, TypeOK, ReportInv
<1>9. PendingInv' /\ StartedInv'
  <2>1. \A o \in Op : outcome[o] = "Succeeded" <=> outcome'[o] = "Succeeded"
    BY <1>3 DEF IInv, TypeOK
  <2>2. \A o \in Op : Awaited(o)' = Awaited(o)
    BY <2>1, AwaitedSame DEF IInv
  <2> QED
    BY <1>4, <2>2 DEF IInv, PendingInv, StartedInv
<1>10. JoinedInv'
  BY <1>3, <1>4 DEF IInv, TypeOK, JoinedInv
<1>11. CauseInv'
  <2>1. stepErr' = "cancelled" => cancelled
    BY <1>2 DEF StepErrOf
  <2> QED
    BY <1>1, <2>1 DEF IInv, CauseInv
<1> QED
  BY <1>5, <1>6, <1>7, <1>8, <1>9, <1>10, <1>11 DEF IInv

-----------------------------------------------------------------------------
\* IInv is inductive.
LEMMA NextInv == IInv /\ [Next]_vars => IInv'
<1> SUFFICES ASSUME IInv, [Next]_vars PROVE IInv'
  OBVIOUS
<1>1. CASE StepNext
  BY <1>1, StartExecInv, JoinInv, ReportStepInv DEF StepNext
<1>2. CASE Cancel
  BY <1>2, CancelInv
<1>3. ASSUME NEW o \in Op, OpNext(o)
      PROVE  IInv'
  BY <1>3, CheckPassesInv, CheckDeferredInv, CheckFailsInv, ExecuteInv,
     ExecSucceedsInv, ExecFailsInv, GroupFailsInv DEF OpNext
<1>4. CASE UNCHANGED vars
  BY <1>4 DEF vars, IInv, TypeOK, ModeInv, PhaseInv, OutcomeInv, ReportInv,
     PendingInv, StartedInv, JoinedInv, CauseInv, Awaited, ExecCtxDone
<1> QED
  BY <1>1, <1>2, <1>3, <1>4 DEF Next, Finished

\* The inductive invariant holds in every state of every run of a step.
THEOREM IInvHolds == Spec => []IInv
<1>1. Init => IInv
  BY InitInv
<1>2. IInv /\ [Next]_vars => IInv'
  BY NextInv
<1> QED
  BY <1>1, <1>2, PTL DEF Spec

\* Type correctness of one run of a step.
THEOREM TypeCorrect == Spec => []TypeOK
<1>1. IInv => TypeOK
  BY DEF IInv
<1> QED
  BY <1>1, IInvHolds, PTL

\* An op starts only when each op it depends on is satisfied or succeeded.
THEOREM DepsFirst == Spec => []DepsSettledFirst
<1>1. IInv => DepsSettledFirst
  <2> SUFFICES ASSUME IInv, NEW o \in Op, Started(o), NEW d \in deps[o]
               PROVE  Settled(d)
    BY DEF DepsSettledFirst
  <2>1. pc[o] \in {"running", "failing", "over"}
    BY DEF IInv, PhaseInv, Started
  <2>2. Awaited(o) = {}
    BY <2>1 DEF IInv, StartedInv
  <2> QED
    BY <2>2 DEF Awaited, Settled
<1> QED
  BY <1>1, IInvHolds, PTL

\* However the count-downs interleave, no op is executed twice, and none that
\* was found satisfied is executed at all.
THEOREM AtMostOnce == Spec => []ExecutedAtMostOnce
<1>1. IInv => ExecutedAtMostOnce
  BY DEF IInv, PhaseInv, TypeOK, ExecutedAtMostOnce
<1> QED
  BY <1>1, IInvHolds, PTL

\* One failed check keeps every op of the step from executing.
THEOREM ChecksGateExecution == Spec => []NoExecAfterFailedCheck
<1>1. IInv => NoExecAfterFailedCheck
  BY DEF IInv, PhaseInv, NoExecAfterFailedCheck, Started
<1> QED
  BY <1>1, IInvHolds, PTL

\* The report of every run validates: no BUG panic is reached.
THEOREM NoPanic == Spec => []NoBugPanic
<1>1. IInv => NoBugPanic
  BY DEF IInv, JoinedInv, NoBugPanic
<1> QED
  BY <1>1, IInvHolds, PTL

\* A step returns a cancellation only when it was cancelled from above.
THEOREM CauseBlamed == Spec => []BlamesTheCause
<1>1. IInv => BlamesTheCause
  BY DEF IInv, CauseInv, BlamesTheCause
<1> QED
  BY <1>1, IInvHolds, PTL

\* Ops execute after what they depend on, once, and not after a failed check.
THEOREM OrderHolds == Spec => []ExecutesOnceInOrder
<1>1. DepsSettledFirst /\ ExecutedAtMostOnce /\ NoExecAfterFailedCheck => ExecutesOnceInOrder
  BY DEF ExecutesOnceInOrder
<1> QED
  BY <1>1, DepsFirst, AtMostOnce, ChecksGateExecution, PTL
\* Every step of a run keeps what ties the outcomes to the error returned.
LEMMA SoundStep == IInv /\ SoundInv /\ [Next]_vars => SoundInv'
<1> SUFFICES ASSUME IInv, SoundInv, [Next]_vars PROVE SoundInv'
  OBVIOUS
<1> USE DEF SoundInv, FirstError, NoErr, plan, node
<1>1. CASE UNCHANGED vars
  BY <1>1 DEF vars, BlameInv, DoneInv, StepErrOf
<1>2. ASSUME StartExec PROVE SoundInv'
  BY <1>2 DEF StartExec, ChecksJoined, IInv, TypeOK, BlameInv, DoneInv
<1>3. CASE Join \/ Cancel
  BY <1>3 DEF Join, Cancel, ChecksJoined, ExecJoined, BlameInv, DoneInv
<1>4. ASSUME Report PROVE SoundInv'
  <2>1. ASSUME NEW o \in Op PROVE outcome'[o] = FinalOutcome(o)
    BY <1>4, <2>1 DEF Report
  <2>2. phase' = "done" => \A o \in Op : outcome'[o] # "unknown"
    BY <1>4, <2>1 DEF Report, ValidReport
  <2>3. BlameInv'
    BY <1>4, <2>1 DEF Report, BlameInv, FinalOutcome, IInv, JoinedInv
  <2> QED
    BY <1>4, <2>2, <2>3 DEF Report, DoneInv, StepErrOf
<1>5. ASSUME NEW o \in Op, OpNext(o) PROVE SoundInv'
  <2>1. phase' = phase /\ phase \in {"checks", "exec"}
    BY <1>5 DEF OpNext, IInv, PhaseInv, CheckPasses, CheckDeferred, CheckFails,
       Execute, ExecSucceeds, ExecFails, GroupFails
  <2>2. DoneInv'
    BY <2>1 DEF DoneInv
  <2>3. CASE pc[o] = "checking"
    <3>1. \/ \E sat \in BOOLEAN : CheckPasses(o, sat)
          \/ CheckDeferred(o)
          \/ \E e \in OpErr : CheckFails(o, e)
      BY <1>5, <2>3 DEF OpNext, Execute, ExecSucceeds, ExecFails, GroupFails
    <3>2. BlameInv'
      BY <2>1, <2>3, <3>1 DEF IInv, TypeOK, OutcomeInv, BlameInv, FirstErr, CheckPasses,
         CheckDeferred, CheckFails, OpErr
    <3> QED
      BY <2>2, <3>2
  <2>4. CASE pc[o] # "checking"
    <3>1. \/ Execute(o)
          \/ \E ch \in BOOLEAN : ExecSucceeds(o, ch)
          \/ \E e \in OpErr : ExecFails(o, e)
          \/ GroupFails(o)
      BY <1>5, <2>4 DEF OpNext, CheckPasses, CheckDeferred, CheckFails
    <3>2. checkErr = NoErr
      BY <3>1 DEF IInv, PhaseInv, Execute, ExecSucceeds, ExecFails, GroupFails
    <3>3. BlameInv'
      BY <2>1, <3>1, <3>2 DEF IInv, TypeOK, OutcomeInv, BlameInv, FirstErr, Execute,
         ExecSucceeds, ExecFails, GroupFails
    <3> QED
      BY <2>2, <3>3
  <2> QED
    BY <2>3, <2>4
<1> QED
  BY <1>1, <1>2, <1>3, <1>4, <1>5 DEF Next, StepNext, Finished

\* What ties the outcomes to the error returned holds throughout a run.
LEMMA SoundHolds == Spec => []SoundInv
<1>1. Init => SoundInv
  BY DEF Init, SoundInv, BlameInv, DoneInv, NoErr
<1> QED
  BY <1>1, IInvHolds, SoundStep, PTL DEF Spec

\* The step answers success exactly when every op ended well, and its report
\* says of each op what became of it.
THEOREM ReportMatches == Spec => []VerdictMatchesReport
<1>1. IInv /\ SoundInv => VerdictMatchesReport
  <2> SUFFICES ASSUME IInv, SoundInv, phase = "done"
               PROVE  VerdictMatchesReport
    BY DEF VerdictMatchesReport
  <2>1. stepErr = NoErr <=> FirstError = NoErr
    BY DEF SoundInv, DoneInv, StepErrOf, NoErr
  <2>2. FirstError # NoErr => \E o \in Op : outcome[o] \in {"Aborted", "Failed"}
    BY DEF SoundInv, BlameInv, FirstError
  <2>3. ASSUME FirstError = NoErr, NEW o \in Op
        PROVE  outcome[o] \in {"Skipped", "Succeeded", "WouldChange"}
    BY <2>3 DEF IInv, TypeOK, PhaseInv, OutcomeInv, SoundInv, BlameInv, DoneInv, Outcomes,
       FirstError
  <2>4. \A o \in Op : outcome[o] = "Skipped" <=> satisfied[o]
    BY DEF IInv, OutcomeInv, SoundInv, BlameInv
  <2>5. ASSUME NEW o \in Op, satisfied[o] PROVE ~Started(o)
    BY <2>5 DEF IInv, PhaseInv, Started
  <2> QED
    BY <2>1, <2>2, <2>3, <2>4, <2>5 DEF VerdictMatchesReport
<1> QED
  BY <1>1, IInvHolds, SoundHolds, PTL

\* The report of a step validates, agrees with what the step answers, and the
\* answer is the cause.
THEOREM ReportHolds == Spec => []ReportIsSound
<1>1. NoBugPanic /\ VerdictMatchesReport /\ BlamesTheCause => ReportIsSound
  BY DEF ReportIsSound
<1> QED
  BY <1>1, NoPanic, ReportMatches, CauseBlamed, PTL

-----------------------------------------------------------------------------
(***************************************************************************)
(* StepOps implements Schedule.                                            *)
(***************************************************************************)

\* The tasks of the schedule are the ops.
LEMMA TasksAreOps ==
    ASSUME TypeOK
    PROVE  /\ Sched!Task = Op
           /\ \A o \in Op : deps[o] \subseteq Op \ {o}
<1>1. deps \in [Op -> SUBSET Op] /\ Acyclic(deps)
  BY GraphAssumption DEF TypeOK
<1>2. ASSUME NEW o \in Op PROVE o \notin deps[o]
  <2>1. {o} \in SUBSET Op /\ {o} # {}
    OBVIOUS
  <2> QED
    BY <1>1, <2>1 DEF Acyclic
<1> QED
  BY <1>1, <1>2 DEF Sched!Task

\* Ops begin to be checked, and none runs.
LEMMA SchedInit == Init => Sched!Init
<1> SUFFICES ASSUME Init PROVE Sched!Init
  OBVIOUS
<1>1. TypeOK
  BY InitInv DEF IInv
<1>2. OverOf = "no" /\ \A o \in Op : StageOf(o) = "waits"
  BY DEF Init, OverOf, StageOf
<1> QED
  BY <1>1, <1>2, TasksAreOps DEF Sched!Init, Sched!NoneBegan

\* A step after which every op is where it was is no step of the schedule.
LEMMA SchedQuiet ==
    ASSUME UNCHANGED deps, OverOf' = OverOf, \A o \in Op : StageOf(o)' = StageOf(o)
    PROVE  UNCHANGED Sched!vars
BY DEF Sched!vars

\* The stage of one op as the step of the schedule that it is.
LEMMA SchedMove ==
    ASSUME TypeOK, UNCHANGED deps, OverOf = "no", OverOf' = "no", NEW o \in Op,
           \A p \in Op \ {o} : StageOf(p)' = StageOf(p),
           \/ /\ StageOf(o) = "waits" /\ StageOf(o)' = "found"
              /\ \A p \in Op : StageOf(p) \in {"waits", "found"}
           \/ /\ StageOf(o) = "waits" /\ StageOf(o)' = "runs"
              /\ \A p \in deps[o] : StageOf(p) \in {"found", "done"}
           \/ StageOf(o) = "runs" /\ StageOf(o)' \in {"done", "failed"}
    PROVE  Sched!Next
<1>1. Sched!Task = Op /\ \A p \in Op : deps[p] \subseteq Op
  BY TasksAreOps
<1> DEFINE st == [p \in Op |-> StageOf(p)]
<1>2. st' = [st EXCEPT ![o] = StageOf(o)'] /\ \A p \in Op : st[p] = StageOf(p)
  OBVIOUS
<1>3. CASE /\ StageOf(o) = "waits" /\ StageOf(o)' = "found"
           /\ \A p \in Op : StageOf(p) \in {"waits", "found"}
  <2>1. Sched!Find(o)
    BY <1>1, <1>2, <1>3 DEF Sched!Find, Sched!NoneBegan
  <2> QED
    BY <1>1, <2>1 DEF Sched!Next
<1>4. CASE /\ StageOf(o) = "waits" /\ StageOf(o)' = "runs"
           /\ \A p \in deps[o] : StageOf(p) \in {"found", "done"}
  <2>1. st' = [p \in Op |-> IF p \in {o} THEN "runs" ELSE st[p]]
    BY <1>2, <1>4
  <2>2. Sched!Begin({o})
    BY <1>1, <1>2, <1>4, <2>1 DEF Sched!Begin, Sched!Ready, Sched!Done
  <2>3. {o} \in SUBSET Sched!Task
    BY <1>1
  <2> QED
    BY <2>2, <2>3 DEF Sched!Next
<1>5. CASE StageOf(o) = "runs" /\ StageOf(o)' \in {"done", "failed"}
  <2>1. PICK how \in {"done", "failed"} : StageOf(o)' = how
    BY <1>5
  <2>2. Sched!End(o, how)
    BY <1>1, <1>2, <1>5, <2>1 DEF Sched!End
  <2> QED
    BY <1>1, <2>1, <2>2 DEF Sched!Next
<1> QED
  BY <1>3, <1>4, <1>5

\* What has begun of an op shows in its stage.
LEMMA StageFacts ==
    ASSUME IInv, NEW o \in Op
    PROVE  /\ pc[o] \in {"checking", "scheduled"} => StageOf(o) = "waits"
           /\ pc[o] = "running" => StageOf(o) = "runs"
           /\ StageOf(o) \in {"runs", "done", "failed"} =>
                 pc[o] \in {"running", "failing", "over"}
           /\ Awaited(o) = {} => \A p \in deps[o] : StageOf(p) \in {"found", "done"}
<1>1. deps[o] \subseteq Op
  BY TasksAreOps DEF IInv
<1> QED
  BY <1>1 DEF IInv, PhaseInv, OutcomeInv, StageOf, Awaited

\* What a goroutine of an op does is a step of the schedule, or none.
LEMMA SchedOp ==
    ASSUME IInv, NEW o \in Op, OpNext(o)
    PROVE  Sched!Next \/ UNCHANGED Sched!vars
<1> USE DEF plan, node
<1>1. /\ TypeOK /\ OverOf = "no" /\ OverOf' = "no" /\ UNCHANGED deps
      /\ phase' = phase /\ phase \in {"checks", "exec"}
  BY DEF IInv, PhaseInv, OpNext, CheckPasses, CheckDeferred, CheckFails, Execute,
     ExecSucceeds, ExecFails, GroupFails, OverOf
<1>2. ASSUME NEW sat \in BOOLEAN, CheckPasses(o, sat)
      PROVE  Sched!Next \/ UNCHANGED Sched!vars
  <2>1. \A p \in Op : StageOf(p) \in {"waits", "found"}
    BY <1>2 DEF CheckPasses, IInv, PhaseInv, OutcomeInv, StageOf
  <2>2. \A p \in Op \ {o} : StageOf(p)' = StageOf(p)
    BY <1>2 DEF CheckPasses, IInv, TypeOK, StageOf
  <2>3. StageOf(o) = "waits" /\ StageOf(o)' = IF sat THEN "found" ELSE "waits"
    BY <1>2 DEF CheckPasses, IInv, TypeOK, PhaseInv, OutcomeInv, StageOf
  <2>4. CASE sat
    BY <1>1, <2>1, <2>2, <2>3, <2>4, SchedMove
  <2>5. CASE ~sat
    BY <1>1, <2>2, <2>3, <2>5, SchedQuiet
  <2> QED
    BY <2>4, <2>5
<1>3. ASSUME CheckDeferred(o) \/ \E e \in OpErr : CheckFails(o, e)
      PROVE  UNCHANGED Sched!vars
  <2>1. \A p \in Op : StageOf(p)' = StageOf(p)
    BY <1>3 DEF CheckDeferred, CheckFails, IInv, TypeOK, OutcomeInv, StageOf
  <2> QED
    BY <1>1, <2>1, SchedQuiet
<1>4. ASSUME Execute(o)
      PROVE  Sched!Next
  <2>1. StageOf(o) = "waits" /\ \A p \in deps[o] : StageOf(p) \in {"found", "done"}
    BY <1>4, StageFacts DEF Execute, IInv, StartedInv
  <2>2. \A p \in Op \ {o} : StageOf(p)' = StageOf(p)
    BY <1>4 DEF Execute, IInv, TypeOK, StageOf
  <2>3. StageOf(o)' = "runs"
    BY <1>4 DEF Execute, IInv, TypeOK, PhaseInv, OutcomeInv, StageOf
  <2> QED
    BY <1>1, <2>1, <2>2, <2>3, SchedMove
<1>5. ASSUME \/ \E ch \in BOOLEAN : ExecSucceeds(o, ch)
             \/ \E e \in OpErr : ExecFails(o, e)
      PROVE  Sched!Next
  <2>1. StageOf(o) = "runs"
    BY <1>5, StageFacts DEF ExecSucceeds, ExecFails
  <2>2. ASSUME NEW p \in Op \ {o} PROVE StageOf(p)' = StageOf(p)
    <3>1. outcome'[p] = outcome[p] /\ satisfied' = satisfied
      BY <1>5 DEF ExecSucceeds, ExecFails, IInv, TypeOK
    <3>2. pc'[p] = "running" <=> pc[p] = "running"
      BY <1>5 DEF ExecSucceeds, ExecFails, IInv, TypeOK, PendingInv, PhaseInv, Dependents
    <3> QED
      BY <3>1, <3>2 DEF StageOf
  <2>3. StageOf(o)' \in {"done", "failed"}
    BY <1>5 DEF ExecSucceeds, ExecFails, IInv, TypeOK, PhaseInv, StageOf
  <2> QED
    BY <1>1, <2>1, <2>2, <2>3, SchedMove
<1>6. ASSUME GroupFails(o)
      PROVE  UNCHANGED Sched!vars
  <2>1. \A p \in Op : StageOf(p)' = StageOf(p)
    BY <1>6 DEF GroupFails, IInv, TypeOK, OutcomeInv, StageOf
  <2> QED
    BY <1>1, <2>1, SchedQuiet
<1> QED
  BY <1>2, <1>3, <1>4, <1>5, <1>6 DEF OpNext

\* The join of a step is its success, or its stop without an op running.
LEMMA SchedJoin ==
    ASSUME IInv, SoundInv, IInv', Join
    PROVE  Sched!Next
<1>1. TypeOK /\ Sched!Task = Op /\ \A o \in Op : [p \in Op |-> StageOf(p)][o] = StageOf(o)
  BY TasksAreOps DEF IInv
<1>2. /\ OverOf = "no" /\ UNCHANGED deps /\ phase' = "report"
      /\ \A o \in Op : StageOf(o)' = StageOf(o)
      /\ OverOf' = IF ~checkOnly /\ FirstError = NoErr THEN "all" ELSE "some"
  BY DEF Join, ChecksJoined, ExecJoined, plan, node, StageOf, OverOf, FirstError
<1>3. \A o \in Op : StageOf(o) # "runs"
  BY <1>2, StageFacts DEF IInv, PhaseInv, StageOf
<1>4. CASE ~checkOnly /\ FirstError = NoErr
  <2>1. \A o \in Op : StageOf(o) \in {"found", "done"}
    <3>1. /\ phase' = "report" /\ ~checkOnly' /\ checkErr' = NoErr /\ execErr' = NoErr
          /\ satisfied' = satisfied /\ outcome' = outcome
      BY <1>4 DEF FirstError, Join, plan, node
    <3>2. \A o \in Op : satisfied[o] \/ outcome[o] = "Succeeded"
      BY <3>1 DEF IInv, JoinedInv
    <3> QED
      BY <1>3, <3>2 DEF StageOf
  <2>2. Sched!Succeed
    BY <1>1, <1>2, <1>4, <2>1 DEF Sched!Succeed, Sched!Done
  <2> QED
    BY <2>2 DEF Sched!Next
<1>5. CASE checkOnly \/ FirstError # NoErr
  <2>1. \/ \A o \in Op : StageOf(o) \in {"waits", "found"}
        \/ \E o \in Op : StageOf(o) = "failed"
    <3>1. CASE checkOnly \/ checkErr # NoErr
      BY <1>3, <3>1, StageFacts DEF IInv, PhaseInv, StageOf
    <3>2. CASE execErr # NoErr
      BY <3>2 DEF SoundInv, BlameInv, IInv, OutcomeInv, StageOf
    <3> QED
      BY <1>5, <3>1, <3>2 DEF FirstError
  <2>2. Sched!Stop
    BY <1>1, <1>2, <1>3, <1>5, <2>1 DEF Sched!Stop, Sched!NoneBegan, Sched!NoneRuns
  <2> QED
    BY <2>2 DEF Sched!Next
<1> QED
  BY <1>4, <1>5

\* Every step of a run is a step of the schedule, or none.
LEMMA SchedNext ==
    IInv /\ SoundInv /\ IInv' /\ [Next]_vars => [Sched!Next]_(Sched!vars)
<1> SUFFICES ASSUME IInv, SoundInv, IInv', [Next]_vars
             PROVE  Sched!Next \/ UNCHANGED Sched!vars
  OBVIOUS
<1>1. CASE \E o \in Op : OpNext(o)
  BY <1>1, SchedOp
<1>2. CASE Join
  BY <1>2, SchedJoin
<1>3. ASSUME StartExec
      PROVE  UNCHANGED Sched!vars
  <2>1. \A o \in Op : StageOf(o)' = StageOf(o)
    BY <1>3 DEF StartExec, ChecksJoined, IInv, TypeOK, PhaseInv, StageOf
  <2>2. UNCHANGED deps /\ OverOf' = OverOf
    BY <1>3 DEF StartExec, ChecksJoined, OverOf, plan
  <2> QED
    BY <2>1, <2>2, SchedQuiet
<1>4. ASSUME Report
      PROVE  UNCHANGED Sched!vars
  <2>1. \A o \in Op : StageOf(o)' = StageOf(o)
    BY <1>4 DEF Report, FinalOutcome, StageOf
  <2>2. UNCHANGED deps /\ OverOf' = OverOf
    BY <1>4 DEF Report, OverOf, FirstError, plan
  <2> QED
    BY <2>1, <2>2, SchedQuiet
<1>5. CASE Cancel \/ UNCHANGED vars
  BY <1>5, SchedQuiet DEF Cancel, vars, plan, node, StageOf, OverOf, FirstError
<1> QED
  BY <1>1, <1>2, <1>3, <1>4, <1>5 DEF Next, StepNext, Finished

\* The count-downs run the ops as Schedule has it: every step of a run is a
\* step of the schedule or none.
THEOREM ScheduleKept == Spec => KeepsSchedule
<1> QED
  BY SchedInit, SchedNext, IInvHolds, SoundHolds, PTL DEF Spec, KeepsSchedule, Sched!Spec
=============================================================================

--------------------------- MODULE PlanExecProofs ---------------------------
(***************************************************************************)
(* Proofs about PlanExec, for every set of valid plans of any length and   *)
(* every set of targets.                                                   *)
(***************************************************************************)
EXTENDS PlanExec, FiniteSetTheorems, WellFoundedInduction, TLAPS

\* A set of numbers that is not empty has a least one.
LEMMA LeastNat ==
    ASSUME NEW S, S \subseteq Nat, S # {}
    PROVE  \E m \in S : \A n \in S : m <= n
<1> DEFINE R == {ss \in Nat \X Nat : ss[1] < ss[2]}
<1>1. R = OpToRel(<, Nat)
  BY DEF OpToRel
<1>2. IsWellFoundedOn(R, Nat)
  BY <1>1, NatLessThanWellFounded
<1> HIDE DEF R
<1>3. PICK m \in S : \A n \in S : <<n, m>> \notin R
  BY <1>2, WFMin
<1>4. \A n \in S : ~(n < m)
  BY <1>3 DEF R
<1> QED
  BY <1>3, <1>4

-----------------------------------------------------------------------------
(***************************************************************************)
(* The step graph.                                                         *)
(***************************************************************************)

\* The steps are finitely many, numbered, and wait for steps.
LEMMA PlanFacts ==
    ASSUME TypeOK
    PROVE  /\ steps \in Seq(StepDecl) /\ ValidPlan(steps)
           /\ N = 1 .. Len(steps) /\ N \subseteq Nat /\ IsFiniteSet(N)
           /\ \A n \in N : steps[n].provides \subseteq Resource
           /\ Requires(steps) \in [N -> SUBSET N]
<1>1. steps \in Seq(StepDecl) /\ ValidPlan(steps)
  BY PlansAssumption DEF TypeOK
<1>2. N = 1 .. Len(steps) /\ Len(steps) \in Nat
  BY <1>1 DEF N
<1>3. IsFiniteSet(N)
  BY <1>2, FS_Interval
<1>4. Requires(steps) \in [N -> SUBSET N]
  BY DEF Requires, N
<1>5. \A n \in N : steps[n].provides \subseteq Resource
  <2>1. \A n \in N : steps[n] \in StepDecl
    BY <1>1, <1>2
  <2> QED
    BY <2>1 DEF StepDecl
<1> QED
  BY <1>1, <1>2, <1>3, <1>4, <1>5

\* Awaited is a finite set, so that its size is a number.
LEMMA AwaitedFinite ==
    ASSUME TypeOK, NEW n \in N
    PROVE  /\ Awaited(n) \subseteq N /\ IsFiniteSet(Awaited(n))
           /\ Cardinality(Awaited(n)) \in Nat
           /\ Cardinality(Awaited(n)) = 0 <=> Awaited(n) = {}
<1>1. Awaited(n) \subseteq N
  BY PlanFacts DEF Awaited
<1>2. IsFiniteSet(Awaited(n))
  BY <1>1, PlanFacts, FS_Subset
<1> QED
  BY <1>1, <1>2, FS_CardinalityType, FS_EmptySet

\* Every fence edge is an edge of the graph.
LEMMA EdgeRequired ==
    ASSUME TypeOK, NEW m \in N, NEW n \in N, <<m, n>> \in FenceEdges(steps)
    PROVE  m \in Requires(steps)[n]
  BY DEF Requires, Edges, N

-----------------------------------------------------------------------------
(***************************************************************************)
(* The invariant holds.                                                    *)
(***************************************************************************)

\* Where a run starts, every step awaits all it requires.
LEMMA StartInv ==
    TypeOK /\ pc = StartPc(steps) /\ pending = PendingOf(steps) => PendingInv
<1> SUFFICES ASSUME TypeOK, pc = StartPc(steps), pending = PendingOf(steps)
             PROVE  PendingInv
  OBVIOUS
<1>1. ASSUME NEW n \in N
      PROVE  pc[n] # "over"
  BY <1>1 DEF StartPc, N
<1>2. ASSUME NEW n \in N
      PROVE  Awaited(n) = Requires(steps)[n]
  BY <1>1, <1>2, PlanFacts DEF Awaited, FinishedWell
<1>3. ASSUME NEW n \in N
      PROVE  /\ pending[n] = Cardinality(Requires(steps)[n])
             /\ pc[n] = IF pending[n] = 0 THEN "scheduled" ELSE "waiting"
  BY <1>3 DEF StartPc, PendingOf, N
<1> QED
  BY <1>2, <1>3 DEF PendingInv

\* What a run starts with has the right types.
LEMMA StartTypes ==
    ASSUME steps \in Plans
    PROVE  /\ StartPc(steps) \in [N -> {"waiting", "scheduled"}]
           /\ PendingOf(steps) \in [N -> Nat]
<1>1. steps \in Seq(StepDecl)
  BY PlansAssumption
<1>2. IsFiniteSet(N)
  BY <1>1, FS_Interval DEF N
<1>3. ASSUME NEW n \in N
      PROVE  Cardinality(Requires(steps)[n]) \in Nat
  <2>1. Requires(steps)[n] \subseteq N
    BY <1>3 DEF Requires, N
  <2> QED
    BY <2>1, <1>2, FS_Subset, FS_CardinalityType
<1> QED
  BY <1>3 DEF StartPc, PendingOf, N

\* The initial state satisfies the inductive invariant.
LEMMA InitInv == Init => IInv
<1> SUFFICES ASSUME Init PROVE IInv
  OBVIOUS
<1>1. TypeOK
  BY StartTypes, TargetsAssumption DEF Init, TypeOK, Verdicts, NoErr, StepErr
<1>2. PendingInv
  BY <1>1, StartInv DEF Init
<1>3. ErrInv
  BY DEF Init, ErrInv, StartPc, N, NoErr
<1>4. CauseInv /\ VerdictInv
  BY DEF Init, CauseInv, VerdictInv, NoErr
<1> QED
  BY <1>1, <1>2, <1>3, <1>4 DEF IInv

\* An action that finishes no step leaves the sets awaited alone.
LEMMA AwaitedSame ==
    ASSUME TypeOK, UNCHANGED steps,
           \A m \in N : FinishedWell(m) <=> FinishedWell(m)',
           NEW n \in N
    PROVE  Awaited(n)' = Awaited(n)
<1>1. Requires(steps)[n] \subseteq N
  BY PlanFacts
<1> QED
  BY <1>1 DEF Awaited

\* Nothing has answered while a goroutine is on its way.
LEMMA NotYetOver ==
    ASSUME IInv, NEW n \in N, pc[n] \in {"scheduled", "running", "failing"}
    PROVE  verdict = "none"
  BY DEF IInv, VerdictInv

\* A goroutine that begins finishes nothing.
LEMMA BeginInv ==
    ASSUME IInv, NEW n \in N, Begin(n)
    PROVE  IInv'
<1> USE DEF Begin, run
<1>1. TypeOK'
  BY DEF IInv, TypeOK, StepErr, N
<1>2. PendingInv'
  <2>1. \A m \in N : FinishedWell(m) <=> FinishedWell(m)'
    BY DEF IInv, TypeOK, FinishedWell
  <2>2. \A m \in N : Awaited(m)' = Awaited(m)
    BY <2>1, AwaitedSame DEF IInv
  <2> QED
    BY <2>2 DEF IInv, TypeOK, PendingInv, N
<1>3. ErrInv'
  BY DEF IInv, TypeOK, ErrInv, GroupDone, N, NoErr
<1>4. CauseInv'
  <2>1. err[n] = NoErr /\ \A m \in N \ {n} : err'[m] = err[m]
    BY DEF IInv, TypeOK, ErrInv
  <2> QED
    BY <2>1 DEF IInv, CauseInv, N
<1>5. VerdictInv'
  BY NotYetOver DEF IInv, VerdictInv
<1> QED
  BY <1>1, <1>2, <1>3, <1>4, <1>5 DEF IInv

\* A step that succeeds is taken out of what its waiters await, and out of
\* nothing else; the waiters that awaited it alone are the ones scheduled.
LEMMA StepSucceedsInv ==
    ASSUME IInv, NEW n \in N, NEW ch \in BOOLEAN, StepSucceeds(n, ch)
    PROVE  IInv'
<1> USE DEF StepSucceeds, run
<1>0. TypeOK /\ pc[n] = "running" /\ err[n] = NoErr /\ N' = N
  BY DEF IInv, ErrInv, N
<1>1. \A m \in N : m \in Waiters(n) <=> n \in Awaited(m)
  BY <1>0 DEF Waiters, Awaited, FinishedWell
<1>2. \A m \in N : m \in Waiters(n) => pending[m] # 0 /\ pc[m] = "waiting"
  BY <1>0, <1>1, AwaitedFinite DEF IInv, PendingInv
<1>3. \A m \in N : Awaited(m)' = Awaited(m) \ {n}
  <2>1. \A m \in N : FinishedWell(m)' <=> FinishedWell(m) \/ m = n
    BY <1>0, <1>2 DEF TypeOK, FinishedWell
  <2>2. ASSUME NEW m \in N
        PROVE  Requires(steps)[m] \subseteq N /\ Requires(steps)'[m] = Requires(steps)[m]
    BY <2>2, <1>0, PlanFacts
  <2> QED
    BY <2>1, <2>2, <1>0 DEF Awaited
<1>4. TypeOK'
  <2>1. \A m \in N : m \in Waiters(n) => pending[m] - 1 \in Nat
    BY <1>0, <1>2 DEF TypeOK
  <2>2. pending' \in [N -> Nat]
    BY <1>0, <2>1 DEF TypeOK
  <2>3. present' \subseteq Resource
    BY <1>0, PlanFacts DEF TypeOK, Applied, Deferred, Above
  <2>4. provided' \subseteq Resource
    BY <1>0, PlanFacts DEF TypeOK
  <2>5. snap' \in [N -> SUBSET Resource]
    BY <1>0, <2>4 DEF TypeOK
  <2> QED
    BY <1>0, <2>2, <2>3, <2>4, <2>5 DEF TypeOK
<1>5. PendingInv'
  <2> SUFFICES ASSUME NEW m \in N
               PROVE  /\ pending'[m] = Cardinality(Awaited(m)')
                      /\ pc'[m] = "waiting" <=> pending'[m] # 0
    BY <1>0 DEF PendingInv
  <2>1. CASE m \in Waiters(n)
    <3>1. Cardinality(Awaited(m) \ {n}) = Cardinality(Awaited(m)) - 1
      BY <1>0, <1>1, <2>1, AwaitedFinite, FS_RemoveElement
    <3>2. pending[m] \in Nat /\ pending'[m] = pending[m] - 1
      BY <1>0, <2>1 DEF TypeOK
    <3>3. m # n
      BY <1>0, <1>2, <2>1
    <3> QED
      BY <1>0, <1>3, <1>2, <2>1, <3>1, <3>2, <3>3 DEF IInv, TypeOK, PendingInv
  <2>2. CASE m \notin Waiters(n)
    <3>1. Awaited(m)' = Awaited(m)
      BY <1>3, <1>1, <2>2
    <3>2. pending'[m] = pending[m]
      BY <1>0, <2>2 DEF TypeOK
    <3>3. pc'[m] = "waiting" <=> pc[m] = "waiting"
      BY <1>0, <2>2 DEF TypeOK
    <3> QED
      BY <3>1, <3>2, <3>3 DEF IInv, PendingInv
  <2> QED
    BY <2>1, <2>2
<1>6. ErrInv'
  BY <1>0, <1>2 DEF IInv, TypeOK, ErrInv, GroupDone
<1>7. CauseInv' /\ VerdictInv'
  BY <1>0, NotYetOver DEF IInv, CauseInv, VerdictInv
<1> QED
  BY <1>4, <1>5, <1>6, <1>7 DEF IInv

\* A step that fails finishes nothing, and is cancelled only when it may be.
LEMMA StepFailsInv ==
    ASSUME IInv, NEW n \in N, NEW e \in StepErr, StepFails(n, e)
    PROVE  IInv'
<1> USE DEF StepFails, run
<1>1. TypeOK'
  BY DEF IInv, TypeOK, N
<1>2. PendingInv'
  <2>1. \A m \in N : FinishedWell(m) <=> FinishedWell(m)'
    BY DEF IInv, TypeOK, FinishedWell
  <2>2. \A m \in N : Awaited(m)' = Awaited(m)
    BY <2>1, AwaitedSame DEF IInv
  <2> QED
    BY <2>2 DEF IInv, TypeOK, PendingInv, N
<1>3. ErrInv'
  BY DEF IInv, TypeOK, ErrInv, GroupDone, N, NoErr, StepErr
<1>4. CauseInv'
  <2>1. err[n] = NoErr /\ \A m \in N \ {n} : err'[m] = err[m]
    BY DEF IInv, TypeOK, ErrInv
  <2> QED
    BY <2>1 DEF IInv, CauseInv, N
<1>5. VerdictInv'
  BY NotYetOver DEF IInv, VerdictInv
<1> QED
  BY <1>1, <1>2, <1>3, <1>4, <1>5 DEF IInv

\* The group keeps a cancellation only when nothing failed before it.
LEMMA GroupFailsInv ==
    ASSUME IInv, NEW n \in N, GroupFails(n)
    PROVE  IInv'
<1> USE DEF GroupFails, run
<1>0. err[n] # NoErr
  BY DEF IInv, ErrInv
<1>1. TypeOK'
  BY DEF IInv, TypeOK, N
<1>2. PendingInv'
  <2>1. \A m \in N : FinishedWell(m) <=> FinishedWell(m)'
    BY <1>0 DEF IInv, TypeOK, FinishedWell
  <2>2. \A m \in N : Awaited(m)' = Awaited(m)
    BY <2>1, AwaitedSame DEF IInv
  <2> QED
    BY <2>2 DEF IInv, TypeOK, PendingInv, N
<1>3. ErrInv'
  BY <1>0 DEF IInv, TypeOK, ErrInv, GroupDone, N
<1>4. CauseInv'
  BY DEF IInv, ErrInv, GroupDone, CauseInv, N
<1>5. VerdictInv'
  BY NotYetOver DEF IInv, VerdictInv
<1> QED
  BY <1>1, <1>2, <1>3, <1>4, <1>5 DEF IInv

\* The run returns when no goroutine is on its way.
LEMMA WaitInv == IInv /\ Wait => IInv'
<1> SUFFICES ASSUME IInv, Wait PROVE IInv'
  OBVIOUS
<1> USE DEF Wait, run
<1>1. TypeOK'
  BY DEF IInv, TypeOK, N, VerdictOf, Verdicts, StepErr
<1>2. PendingInv'
  <2>1. \A m \in N : Awaited(m)' = Awaited(m)
    BY AwaitedSame DEF IInv, FinishedWell
  <2> QED
    BY <2>1 DEF IInv, PendingInv, N
<1>3. ErrInv' /\ CauseInv' /\ VerdictInv'
  BY DEF IInv, ErrInv, GroupDone, CauseInv, VerdictInv, N, VerdictOf
<1> QED
  BY <1>1, <1>2, <1>3 DEF IInv

\* An interrupt comes before the run has answered.
LEMMA CancelInv == IInv /\ Cancel => IInv'
<1> SUFFICES ASSUME IInv, Cancel PROVE IInv'
  OBVIOUS
<1> USE DEF Cancel, run
<1>1. TypeOK'
  BY DEF IInv, TypeOK, N
<1>2. PendingInv'
  <2>1. \A m \in N : Awaited(m)' = Awaited(m)
    BY AwaitedSame DEF IInv, FinishedWell
  <2> QED
    BY <2>1 DEF IInv, PendingInv, N
<1>3. ErrInv' /\ CauseInv' /\ VerdictInv'
  BY DEF IInv, ErrInv, GroupDone, CauseInv, VerdictInv, N
<1> QED
  BY <1>1, <1>2, <1>3 DEF IInv

\* A run that follows a good check run starts without an error.
LEMMA ApplyAfterCheckInv == IInv /\ ApplyAfterCheck => IInv'
<1> SUFFICES ASSUME IInv, ApplyAfterCheck PROVE IInv'
  OBVIOUS
<1> USE DEF ApplyAfterCheck
<1>0. planErr = NoErr
  BY DEF IInv, TypeOK, VerdictInv, VerdictOf, StepErr
<1>1. \A n \in N : err[n] = NoErr
  BY <1>0 DEF IInv, VerdictInv, ErrInv
<1>2. TypeOK'
  BY StartTypes DEF IInv, TypeOK, N, Verdicts
<1>3. PendingInv'
  <2>1. (pc = StartPc(steps) /\ pending = PendingOf(steps))'
    OBVIOUS
  <2> QED
    BY <1>2, <2>1, StartInv, PTL
<1>4. ErrInv'
  BY <1>1, StartTypes DEF IInv, TypeOK, ErrInv, N, NoErr
<1>5. CauseInv' /\ VerdictInv'
  BY <1>0 DEF CauseInv, VerdictInv, NoErr
<1> QED
  BY <1>2, <1>3, <1>4, <1>5 DEF IInv

\* Every step of the specification preserves the invariant.
LEMMA NextInv == IInv /\ [Next]_vars => IInv'
<1> SUFFICES ASSUME IInv, [Next]_vars PROVE IInv'
  OBVIOUS
<1>1. CASE \E n \in N : StepNext(n)
  <2>1. PICK n \in N : StepNext(n)
    BY <1>1
  <2> QED
    BY <2>1, BeginInv, StepSucceedsInv, StepFailsInv, GroupFailsInv DEF StepNext
<1>2. CASE Wait
  BY <1>2, WaitInv
<1>3. CASE Cancel
  BY <1>3, CancelInv
<1>4. CASE ApplyAfterCheck
  BY <1>4, ApplyAfterCheckInv
<1>5. CASE UNCHANGED vars
  <2>1. TypeOK'
    BY <1>5 DEF vars, IInv, TypeOK, N
  <2>2. \A m \in N : Awaited(m)' = Awaited(m)
    BY <1>5, AwaitedSame DEF vars, IInv, FinishedWell
  <2>3. PendingInv'
    BY <1>5, <2>2 DEF vars, IInv, PendingInv, N
  <2>4. ErrInv' /\ CauseInv' /\ VerdictInv'
    BY <1>5 DEF vars, IInv, ErrInv, GroupDone, CauseInv, VerdictInv, N
  <2> QED
    BY <2>1, <2>3, <2>4 DEF IInv
<1> QED
  BY <1>1, <1>2, <1>3, <1>4, <1>5 DEF Next, Finished

\* The inductive invariant of PlanExec holds in every reachable state of a
\* check and an apply of any valid plan.
THEOREM IInvHolds == Spec => []IInv
<1> QED
  BY InitInv, NextInv, PTL DEF Spec

\* Every variable of a plan run keeps its type; no count-down of a step that
\* waits for others goes below zero.
THEOREM TypeCorrect == Spec => []TypeOK
<1>1. IInv => TypeOK
  BY DEF IInv
<1> QED
  BY <1>1, IInvHolds, PTL

-----------------------------------------------------------------------------
(***************************************************************************)
(* What follows from the invariant.                                        *)
(***************************************************************************)

\* A step that no longer waits awaits nothing.
LEMMA RequiredFirstState == IInv => RequiredFirst
<1> SUFFICES ASSUME IInv, NEW n \in N, pc[n] # "waiting",
                    NEW m \in Requires(steps)[n]
             PROVE  FinishedWell(m)
  BY DEF RequiredFirst
<1>1. Cardinality(Awaited(n)) = 0
  BY DEF IInv, PendingInv
<1>2. Awaited(n) = {}
  BY <1>1, AwaitedFinite DEF IInv
<1> QED
  BY <1>2 DEF Awaited

\* Nothing runs downstream of a step that failed or has yet to finish, for any
\* plan and any interleaving of checkPlan / executePlan.
THEOREM RequiredSteps == Spec => []RequiredFirst
<1> QED
  BY RequiredFirstState, IInvHolds, PTL

\* A step with a barrier before it waits until the barrier is over: the last
\* barrier that the step would not wait for has a next one, for which it does,
\* and which waits for the first.
LEMMA AfterBarrier ==
    ASSUME IInv, NEW b \in Barriers(steps), NEW n \in N, b < n, pc[n] # "waiting"
    PROVE  FinishedWell(b)
<1> DEFINE Ahead == {c \in Barriers(steps) : c < n /\ ~FinishedWell(c)}
           Gaps  == {n - c : c \in Ahead}
<1>1. TypeOK /\ Barriers(steps) \subseteq N /\ N \subseteq Nat
  BY PlanFacts DEF IInv, Barriers, N
<1> SUFFICES ASSUME b \in Ahead PROVE FALSE
  OBVIOUS
<1>2. \A c \in Ahead : c \in Nat /\ n \in Nat /\ c < n /\ n - c \in Nat
  <2> SUFFICES ASSUME NEW c \in Ahead
               PROVE  c \in Nat /\ n \in Nat /\ c < n /\ n - c \in Nat
    OBVIOUS
  <2>1. c \in Nat /\ n \in Nat /\ c < n
    BY <1>1
  <2> QED
    BY <2>1
<1>3. PICK g \in Gaps : \A h \in Gaps : g <= h
  <2>1. Gaps \subseteq Nat /\ Gaps # {}
    BY <1>2
  <2> HIDE DEF Gaps
  <2> QED
    BY <2>1, LeastNat
<1>4. PICK c \in Ahead : g = n - c
  BY DEF Gaps
<1>5. ASSUME NEW d \in Ahead PROVE d <= c
  <2>1. n - c <= n - d
    BY <1>3, <1>4
  <2>2. c \in Nat /\ d \in Nat /\ n \in Nat
    BY <1>2
  <2> QED
    BY <2>1, <2>2
<1>6. CASE \A d \in NextBarrier(steps, c) : d >= n
  <2>1. <<c, n>> \in FenceEdges(steps)
    BY <1>1, <1>6 DEF FenceEdges, Pairs, N
  <2> QED
    BY <1>1, <2>1, EdgeRequired, RequiredFirstState DEF RequiredFirst
<1>7. CASE \E d \in NextBarrier(steps, c) : d < n
  <2> DEFINE Between == {d \in NextBarrier(steps, c) : d < n}
  <2>1. Between \subseteq Nat /\ Between # {}
    BY <1>1, <1>7 DEF NextBarrier
  <2>2. PICK d \in Between : \A h \in Between : d <= h
    BY <2>1, LeastNat
  <2>3. d \in Barriers(steps) /\ c < d /\ d < n
    BY DEF NextBarrier
  <2>4. ASSUME NEW h \in NextBarrier(steps, c) PROVE h >= d
    <3>1. h \in Nat /\ d \in Nat /\ n \in Nat
      BY <1>1, <2>1 DEF NextBarrier
    <3>2. CASE h < n
      <4>1. d <= h
        BY <2>2, <3>2
      <4> QED
        BY <3>1, <4>1
    <3>3. CASE h >= n
      BY <2>3, <3>1, <3>3
    <3> QED
      BY <3>1, <3>2, <3>3
  <2>5. FinishedWell(d)
    <3>1. c \in Nat /\ d \in Nat
      BY <1>1, <2>3
    <3>2. ~FinishedWell(d) => d \in Ahead
      BY <2>3
    <3>3. ~(d <= c)
      BY <2>3, <3>1
    <3> QED
      BY <1>5, <3>2, <3>3
  <2>6. <<c, d>> \in FenceEdges(steps)
    BY <1>1, <2>3, <2>4 DEF FenceEdges, Pairs, N
  <2>7. pc[d] # "waiting"
    BY <2>5 DEF FinishedWell
  <2> QED
    BY <1>1, <2>3, <2>6, <2>7, EdgeRequired, RequiredFirstState DEF RequiredFirst
<1> QED
  BY <1>1, <1>6, <1>7 DEF NextBarrier

\* A barrier waits for every step before it: for the steps since the barrier
\* before by an edge, for the ones before that through that barrier.
LEMMA BeforeBarrier ==
    ASSUME IInv, NEW b \in Barriers(steps), NEW m \in N, m < b, pc[b] # "waiting"
    PROVE  FinishedWell(m)
<1>1. TypeOK /\ Barriers(steps) \subseteq N /\ N \subseteq Nat
  BY PlanFacts DEF IInv, Barriers, N
<1> DEFINE After == NextBarrier(steps, m)
<1>2. After \subseteq Nat /\ b \in After
  BY <1>1 DEF NextBarrier
<1>3. PICK c \in After : \A h \in After : c <= h
  BY <1>2, LeastNat
<1>4. c \in Barriers(steps) /\ m < c
  BY DEF NextBarrier
<1>5. \A h \in After : h >= c
  BY <1>2, <1>3
<1>6. <<m, c>> \in FenceEdges(steps)
  BY <1>1, <1>4, <1>5 DEF FenceEdges, Pairs, N
<1>7. pc[c] # "waiting"
  <2>1. CASE c = b
    BY <2>1
  <2>2. CASE c < b
    BY <1>1, <1>4, <2>2, AfterBarrier DEF FinishedWell
  <2> QED
    BY <1>1, <1>2, <1>4, <1>5, <2>1, <2>2
<1> QED
  BY <1>1, <1>4, <1>6, <1>7, EdgeRequired, RequiredFirstState DEF RequiredFirst

\* The O(n) fence edges of buildStepGraph give the full order of fences: no
\* step is reordered with an opaque one, in plans of any length.
LEMMA FencesState == IInv => FencesHold
<1> SUFFICES ASSUME IInv, NEW e \in AllFences(steps), pc[e[2]] # "waiting"
             PROVE  FinishedWell(e[1])
  BY DEF FencesHold
<1>1. /\ e[1] \in N /\ e[2] \in N /\ e[1] < e[2]
      /\ e[1] \in Barriers(steps) \/ e[2] \in Barriers(steps)
  BY DEF AllFences, Pairs, N
<1> QED
  BY <1>1, AfterBarrier, BeforeBarrier

\* Every step stays on its side of every fence.
THEOREM Fences == Spec => []FencesHold
<1> QED
  BY FencesState, IInvHolds, PTL

\* A plan answers "interrupted" only to an interrupt, whatever failed and in
\* whatever order the goroutines reported to the group.
THEOREM OnlyUserInterrupts == Spec => []InterruptedOnlyByUser
<1>1. IInv => InterruptedOnlyByUser
  <2> SUFFICES ASSUME IInv, verdict = "CancelledError" PROVE cancelled
    BY DEF InterruptedOnlyByUser
  <2>1. planErr = "cancelled"
    BY DEF IInv, VerdictInv, VerdictOf, NoErr
  <2> QED
    BY <2>1 DEF IInv, CauseInv
<1> QED
  BY <1>1, IInvHolds, PTL

\* Success is complete: since the graph can be sorted, the steps left waiting
\* would contain one that awaits nothing.
LEMMA SuccessState == IInv => SuccessIsComplete
<1> SUFFICES ASSUME IInv, verdict = "ok" PROVE \A n \in N : FinishedWell(n)
  BY DEF SuccessIsComplete
<1> DEFINE W == {n \in N : pc[n] = "waiting"}
<1>1. planErr = NoErr
  BY DEF IInv, TypeOK, VerdictInv, VerdictOf, StepErr
<1>2. \A n \in N \ W : FinishedWell(n)
  BY <1>1 DEF IInv, VerdictInv, ErrInv, FinishedWell
<1>3. CASE W # {}
  <2>1. Sortable(Requires(steps)) /\ Requires(steps) \in [N -> SUBSET N]
    BY PlanFacts DEF IInv, ValidPlan
  <2>2. PICK n \in W : Requires(steps)[n] \cap W = {}
    BY <1>3, <2>1 DEF Sortable
  <2>3. Awaited(n) = {}
    BY <1>2, <2>1, <2>2 DEF Awaited
  <2>4. pending[n] = 0
    BY <2>3, FS_EmptySet DEF IInv, PendingInv
  <2> QED
    BY <2>4 DEF IInv, PendingInv
<1> QED
  BY <1>2, <1>3

\* A plan that answers success has run every step of it.
THEOREM SuccessComplete == Spec => []SuccessIsComplete
  BY SuccessState, IInvHolds, PTL

\* What a plan answers is true: interrupted by the user only, and successful
\* only with every step run.
THEOREM VerdictHolds == Spec => []VerdictIsTrue
<1>1. InterruptedOnlyByUser /\ SuccessIsComplete => VerdictIsTrue
  BY DEF VerdictIsTrue
<1> QED
  BY <1>1, OnlyUserInterrupts, SuccessComplete, PTL

-----------------------------------------------------------------------------
(***************************************************************************)
(* PlanExec implements Schedule.                                           *)
(***************************************************************************)

\* The tasks of the schedule are the steps, and none comes after itself.
LEMMA TasksAreSteps ==
    ASSUME TypeOK
    PROVE  /\ Sched!Task = N
           /\ \A n \in N : ComesAfter(n) \subseteq N \ {n}
<1>1. N \subseteq Nat
  BY PlanFacts
<1>2. ASSUME NEW n \in N PROVE <<n, n>> \notin Edges(steps) \cup AllFences(steps)
  BY <1>1 DEF Edges, ResourceEdges, FenceEdges, AllFences
<1> QED
  BY <1>2 DEF Sched!Task, ComesAfter

\* A step that is scheduled comes after nothing that is not done.
LEMMA ScheduledReady ==
    ASSUME IInv, NEW n \in N, pc[n] # "waiting"
    PROVE  \A m \in ComesAfter(n) : StageOf(m) = "done"
<1> SUFFICES ASSUME NEW m \in ComesAfter(n) PROVE StageOf(m) = "done"
  OBVIOUS
<1>1. FinishedWell(m)
  <2>1. CASE <<m, n>> \in Edges(steps)
    <3>1. m \in Requires(steps)[n]
      BY <2>1 DEF Requires, ComesAfter, N
    <3> QED
      BY <3>1, RequiredFirstState DEF RequiredFirst
  <2>2. CASE <<m, n>> \in AllFences(steps)
    BY <2>2, FencesState DEF FencesHold
  <2> QED
    BY <2>1, <2>2 DEF ComesAfter
<1> QED
  BY <1>1 DEF FinishedWell, StageOf

\* A run begins with every step waiting for its turn.
LEMMA SchedInit == Init => Sched!Init
<1> SUFFICES ASSUME Init PROVE Sched!Init
  OBVIOUS
<1>1. TypeOK /\ PendingInv
  BY InitInv DEF IInv
<1>2. \A n \in N : pc[n] \in {"waiting", "scheduled"}
  BY StartTypes DEF Init
<1>3. OverOf = "no" /\ \A n \in N : StageOf(n) = "waits"
  BY <1>2 DEF Init, OverOf, StageOf
<1> QED
  BY <1>1, <1>3, TasksAreSteps DEF Sched!Init, Sched!NoneBegan

\* A step after which every step of the plan is where it was.
LEMMA SchedQuiet ==
    ASSUME UNCHANGED steps, OverOf' = OverOf, \A n \in N : StageOf(n)' = StageOf(n)
    PROVE  UNCHANGED Sched!vars
BY DEF Sched!vars, ComesAfter, N

\* The move of one step of the plan as the step of the schedule that it is.
LEMMA SchedMove ==
    ASSUME TypeOK, UNCHANGED steps, OverOf = "no", OverOf' = "no", NEW n \in N,
           \A m \in N \ {n} : StageOf(m)' = StageOf(m),
           \/ /\ StageOf(n) = "waits" /\ StageOf(n)' \in {"runs", "failed"}
              /\ \A m \in ComesAfter(n) : StageOf(m) = "done"
           \/ StageOf(n) = "runs" /\ StageOf(n)' \in {"done", "failed"}
    PROVE  Sched!Next
<1>1. Sched!Task = N /\ \A m \in N : ComesAfter(m) \subseteq N
  BY TasksAreSteps
<1> DEFINE st == [m \in N |-> StageOf(m)]
           wt == [m \in N |-> ComesAfter(m)]
<1>2. /\ N' = N /\ wt' = wt
      /\ st' = [st EXCEPT ![n] = StageOf(n)'] /\ \A m \in N : st[m] = StageOf(m)
  BY DEF N, ComesAfter
<1>3. CASE StageOf(n) = "waits"
  <2>1. CASE StageOf(n)' = "runs"
    <3>1. st' = [m \in N |-> IF m \in {n} THEN "runs" ELSE st[m]]
      BY <1>2, <2>1
    <3>2. Sched!Begin({n})
      BY <1>1, <1>2, <1>3, <3>1 DEF Sched!Begin, Sched!Ready, Sched!Done
    <3>3. {n} \in SUBSET Sched!Task
      BY <1>1
    <3> QED
      BY <3>2, <3>3 DEF Sched!Next
  <2>2. CASE StageOf(n)' = "failed"
    <3>1. Sched!GiveUp(n)
      BY <1>1, <1>2, <1>3, <2>2 DEF Sched!GiveUp, Sched!Ready, Sched!Done
    <3> QED
      BY <1>1, <3>1 DEF Sched!Next
  <2> QED
    BY <1>3, <2>1, <2>2
<1>4. CASE StageOf(n) = "runs" /\ StageOf(n)' \in {"done", "failed"}
  <2>1. PICK how \in {"done", "failed"} : StageOf(n)' = how
    BY <1>4
  <2>2. Sched!End(n, how)
    BY <1>1, <1>2, <1>4, <2>1 DEF Sched!End
  <2> QED
    BY <1>1, <2>1, <2>2 DEF Sched!Next
<1> QED
  BY <1>3, <1>4

\* What the goroutine of a step does is a step of the schedule, or none.
LEMMA SchedStep ==
    ASSUME IInv, NEW n \in N, StepNext(n)
    PROVE  Sched!Next \/ UNCHANGED Sched!vars
<1> USE DEF run
<1>1. TypeOK /\ OverOf = "no" /\ OverOf' = "no" /\ UNCHANGED steps
  BY NotYetOver DEF IInv, StepNext, Begin, StepSucceeds, StepFails, GroupFails, OverOf
<1>2. ASSUME Begin(n) PROVE Sched!Next
  <2>1. StageOf(n) = "waits" /\ \A m \in ComesAfter(n) : StageOf(m) = "done"
    BY <1>2, ScheduledReady DEF Begin, IInv, ErrInv, StageOf
  <2>2. \A m \in N \ {n} : StageOf(m)' = StageOf(m)
    BY <1>2 DEF Begin, IInv, TypeOK, StageOf
  <2>3. StageOf(n)' \in {"runs", "failed"}
    BY <1>2 DEF Begin, IInv, TypeOK, ErrInv, StageOf, NoErr
  <2> QED
    BY <1>1, <2>1, <2>2, <2>3, SchedMove
<1>3. ASSUME NEW ch \in BOOLEAN, StepSucceeds(n, ch) PROVE Sched!Next
  <2>1. StageOf(n) = "runs" /\ StageOf(n)' = "done"
    BY <1>3 DEF StepSucceeds, IInv, TypeOK, ErrInv, StageOf
  <2>2. ASSUME NEW m \in N \ {n} PROVE StageOf(m)' = StageOf(m)
    <3>1. pc'[m] = pc[m] \/ (pc[m] = "waiting" /\ pc'[m] = "scheduled")
      BY <1>3 DEF StepSucceeds, IInv, TypeOK, PendingInv
    <3>2. err'[m] = err[m]
      BY <1>3 DEF StepSucceeds
    <3> QED
      BY <3>1, <3>2 DEF StageOf
  <2> QED
    BY <1>1, <2>1, <2>2, SchedMove
<1>4. ASSUME NEW e \in StepErr, StepFails(n, e) PROVE Sched!Next
  <2>1. StageOf(n) = "runs" /\ StageOf(n)' = "failed"
    BY <1>4 DEF StepFails, IInv, TypeOK, ErrInv, StageOf, StepErr, NoErr
  <2>2. \A m \in N \ {n} : StageOf(m)' = StageOf(m)
    BY <1>4 DEF StepFails, IInv, TypeOK, StageOf
  <2> QED
    BY <1>1, <2>1, <2>2, SchedMove
<1>5. ASSUME GroupFails(n) PROVE UNCHANGED Sched!vars
  <2>1. \A m \in N : StageOf(m)' = StageOf(m)
    BY <1>5 DEF GroupFails, IInv, TypeOK, ErrInv, StageOf
  <2> QED
    BY <1>1, <2>1, SchedQuiet
<1> QED
  BY <1>2, <1>3, <1>4, <1>5 DEF StepNext

\* The group is joined: every step is through, or one of them has failed.
LEMMA SchedWait ==
    ASSUME IInv, IInv', Wait
    PROVE  Sched!Next
<1> USE DEF run
<1>1. TypeOK /\ Sched!Task = N /\ \A n \in N : [m \in N |-> StageOf(m)][n] = StageOf(n)
  BY TasksAreSteps DEF IInv
<1>2. /\ UNCHANGED <<steps, N>> /\ OverOf = "no" /\ UNCHANGED [n \in N |-> ComesAfter(n)]
      /\ UNCHANGED [n \in N |-> StageOf(n)]
  BY DEF Wait, OverOf, StageOf, ComesAfter, N
<1>3. CASE planErr = NoErr
  <2>1. OverOf' = "all" /\ verdict' = "ok"
    BY <1>3 DEF Wait, VerdictOf, OverOf, NoErr
  <2>2. \A n \in N : FinishedWell(n)
    <3>1. SuccessIsComplete'
      BY SuccessState, PTL
    <3> QED
      BY <1>2, <2>1, <3>1 DEF SuccessIsComplete, FinishedWell, Wait
  <2>3. Sched!Succeed
    BY <1>1, <1>2, <2>1, <2>2 DEF Sched!Succeed, Sched!Done, StageOf, FinishedWell
  <2> QED
    BY <2>3 DEF Sched!Next
<1>4. CASE planErr # NoErr
  <2>1. OverOf' = "some"
    BY <1>1, <1>4 DEF Wait, TypeOK, StepErr, VerdictOf, OverOf, NoErr
  <2>2. PICK n \in N : StageOf(n) = "failed"
    BY <1>4 DEF IInv, CauseInv, StageOf
  <2>3. \A m \in N : StageOf(m) # "runs"
    BY DEF Wait, StageOf
  <2>4. Sched!Stop
    BY <1>1, <1>2, <2>1, <2>2, <2>3 DEF Sched!Stop, Sched!NoneRuns
  <2> QED
    BY <2>4 DEF Sched!Next
<1> QED
  BY <1>3, <1>4

\* The apply that follows a check that went well starts over.
LEMMA SchedApply ==
    ASSUME IInv, ApplyAfterCheck
    PROVE  Sched!Next
<1>1. TypeOK /\ Sched!Task = N /\ UNCHANGED <<steps, N>>
      /\ UNCHANGED [n \in N |-> ComesAfter(n)]
  BY TasksAreSteps DEF IInv, ApplyAfterCheck, ComesAfter, N
<1>2. OverOf = "all" /\ OverOf' = "no"
  BY DEF ApplyAfterCheck, OverOf
<1>3. \A n \in N : err[n] = NoErr
  <2>1. SuccessIsComplete
    BY SuccessState
  <2> QED
    BY <2>1 DEF SuccessIsComplete, FinishedWell, ApplyAfterCheck
<1>4. ASSUME NEW n \in N PROVE StageOf(n)' = "waits"
  <2>1. pc'[n] \in {"waiting", "scheduled"} /\ err'[n] = NoErr
    BY <1>1, <1>3, StartTypes DEF ApplyAfterCheck, TypeOK
  <2> QED
    BY <2>1 DEF StageOf
<1>5. Sched!Restart
  BY <1>1, <1>2, <1>4 DEF Sched!Restart
<1> QED
  BY <1>5 DEF Sched!Next

\* Every step of a run is a step of the schedule, or none.
LEMMA SchedNext == IInv /\ IInv' /\ [Next]_vars => [Sched!Next]_(Sched!vars)
<1> SUFFICES ASSUME IInv, IInv', [Next]_vars
             PROVE  Sched!Next \/ UNCHANGED Sched!vars
  OBVIOUS
<1>1. CASE \E n \in N : StepNext(n)
  BY <1>1, SchedStep
<1>2. CASE Wait
  BY <1>2, SchedWait
<1>3. CASE ApplyAfterCheck
  BY <1>3, SchedApply
<1>4. CASE Cancel \/ UNCHANGED vars
  BY <1>4, SchedQuiet DEF Cancel, vars, run, StageOf, OverOf
<1> QED
  BY <1>1, <1>2, <1>3, <1>4 DEF Next, Finished

\* The steps of a deploy run as Schedule has it, in plans of any length: what
\* executePlan and checkPlan do is a step of the schedule or none.
THEOREM ScheduleKept == Spec => KeepsSchedule
<1> QED
  BY SchedInit, SchedNext, IInvHolds, PTL DEF Spec, KeepsSchedule, Sched!Spec

-----------------------------------------------------------------------------
(***************************************************************************)
(* What a plan provides is there in time, for plans whose steps declare    *)
(* what they need (WellDeclared).                                          *)
(***************************************************************************)

\* What another step provides of a step's needs comes from a step it requires.
LEMMA ProviderRequired ==
    ASSUME TypeOK, WellDeclared(steps), NEW n \in N, NEW r \in steps[n].needs,
           NEW m \in N \ {n}, r \in steps[m].provides
    PROVE  m \in Requires(steps)[n]
<1>1. <<m, n>> \in Pairs(steps) /\ <<m, n>>[1] = m /\ <<m, n>>[2] = n
  BY DEF Pairs, N
<1>2. CASE r \in steps[n].requires
  <2>1. <<m, n>> \in ResourceEdges(steps)
    BY <1>1, <1>2 DEF ResourceEdges
  <2> QED
    BY <2>1 DEF Requires, Edges, N
<1>3. CASE r \in Above(steps[n].provides)
  <2>1. PICK q \in steps[n].provides : <<q, r>> \in Within
    BY <1>3 DEF Above
  <2>2. <<q, r>> \in (steps[n].provides \X steps[m].provides) \cap Within
    BY <2>1
  <2>3. <<m, n>> \in ResourceEdges(steps)
    BY <1>1, <2>2 DEF ResourceEdges
  <2> QED
    BY <2>3 DEF Requires, Edges, N
<1> QED
  BY <1>2, <1>3 DEF WellDeclared, N

\* So a step that runs never misses what another step provides.
LEMMA InTime ==
    ASSUME IInv, SupplyInv, WellDeclared(steps)
    PROVE  ProvidedInTime
<1> SUFFICES ASSUME NEW n \in N, pc[n] = "running", NEW r \in Blocked(n),
                    NEW m \in N \ {n}, r \in steps[m].provides
             PROVE  FALSE
  BY DEF ProvidedInTime
<1>1. r \in steps[n].needs \ present
  BY DEF Blocked, Missing
<1>2. m \in Requires(steps)[n]
  BY <1>1, ProviderRequired DEF IInv
<1>3. steps[m].provides \subseteq present \cup snap[n]
  BY <1>2 DEF SupplyInv, SnapInv
<1>4. r \in snap[n]
  BY <1>1, <1>3
<1>5. checkOnly
  BY <1>4 DEF SupplyInv, SnapInv, ProvidedInv
<1> QED
  BY <1>4, <1>5 DEF Blocked, Deferred

\* A run starts with nothing provided, and with steps that require nothing.
LEMMA StartSupply ==
    ASSUME TypeOK, pc = StartPc(steps), pending = PendingOf(steps),
           snap = [n \in N |-> {}], provided = {}
    PROVE  ProvidedInv /\ SnapInv
<1>1. PendingInv
  BY StartInv
<1>2. ASSUME NEW n \in N
      PROVE  pc[n] # "over"
  BY <1>2 DEF StartPc, N
<1>3. ASSUME NEW n \in N, pc[n] # "waiting"
      PROVE  Requires(steps)[n] = {}
  <2>1. Awaited(n) = {}
    BY <1>1, <1>3, AwaitedFinite DEF PendingInv
  <2> QED
    BY <1>2, <2>1, PlanFacts DEF Awaited, FinishedWell
<1>4. Above(provided) = {}
  BY DEF Above
<1> QED
  BY <1>2, <1>3, <1>4 DEF ProvidedInv, SnapInv, FinishedWell

\* An action that finishes and schedules no step leaves the supply alone.
LEMMA QuietSupply ==
    ASSUME IInv, SupplyInv, N' = N,
           UNCHANGED <<steps, checkOnly, checkVerdict, present, snap, provided>>,
           \A n \in N : /\ FinishedWell(n) <=> FinishedWell(n)'
                        /\ pc[n] = "waiting" <=> pc'[n] = "waiting"
                        /\ err'[n] = "missing" => err[n] = "missing" \/ checkVerdict # "ok"
    PROVE  SupplyInv'
<1>1. ProvidedInv'
  BY DEF SupplyInv, ProvidedInv, AtHand, Above
<1>2. SnapInv' /\ ForetoldInv'
  BY DEF SupplyInv, SnapInv, ForetoldInv
<1> QED
  BY <1>1, <1>2 DEF SupplyInv

\* A step that ends well adds what it provides to what is at hand.
LEMMA SuccessSupply ==
    ASSUME IInv, SupplyInv, WellDeclared(steps),
           NEW n \in N, NEW ch \in BOOLEAN, StepSucceeds(n, ch)
    PROVE  SupplyInv'
<1> USE DEF StepSucceeds, run
<1>0. /\ TypeOK /\ pc[n] = "running" /\ err[n] = NoErr /\ N' = N
      /\ UNCHANGED <<steps, checkOnly, checkVerdict, err>>
  BY DEF IInv, ErrInv, N
<1>1. \A m \in N : m \in Waiters(n) => pc[m] = "waiting"
  BY <1>0, AwaitedFinite DEF IInv, PendingInv, Waiters, Awaited, FinishedWell
<1>2. \A m \in N : FinishedWell(m)' <=> FinishedWell(m) \/ m = n
  BY <1>0, <1>1 DEF TypeOK, FinishedWell
<1>3. present \subseteq present' /\ provided \subseteq provided'
  BY DEF Applied, Deferred
<1>4. steps[n].needs \subseteq AtHand
  <2>1. checkOnly => steps[n].needs \subseteq present \cup Deferred(snap[n])
    BY <1>0 DEF Blocked, Missing
  <2>2. Deferred(snap[n]) \subseteq provided \cup Above(provided)
    BY DEF SupplyInv, SnapInv, Deferred, Above
  <2> QED
    BY <1>0, <2>1, <2>2 DEF SupplyInv, ProvidedInv, Blocked, Missing, AtHand
<1>5. ProvidedInv'
  <2>1. \A m \in N : FinishedWell(m)' =>
            /\ steps[m].provides \subseteq AtHand'
            /\ \A r \in steps[m].needs \ present' :
                  \E k \in N \ {m} : r \in steps[k].provides
    <3>1. steps[n].provides \subseteq AtHand'
      BY DEF AtHand, Applied, Deferred, Converged
    <3>2. \A r \in steps[n].needs \ present :
              \E k \in N \ {n} : r \in steps[k].provides
      BY <1>0, <1>4 DEF SupplyInv, ProvidedInv, AtHand, FinishedWell
    <3> QED
      BY <1>0, <1>2, <1>3, <3>1, <3>2 DEF SupplyInv, ProvidedInv, AtHand
  <2>2. \A r \in provided' : \E m \in N : FinishedWell(m)' /\ r \in steps[m].provides
    BY <1>0, <1>2 DEF SupplyInv, ProvidedInv
  <2>3. Above(provided') \subseteq AtHand'
    <3>1. Above(provided) \subseteq AtHand /\ Above(steps[n].provides) \subseteq AtHand
      BY <1>4 DEF SupplyInv, ProvidedInv, WellDeclared, N
    <3>2. Above(provided') \subseteq Above(provided) \cup Above(steps[n].provides)
      BY <1>0 DEF Above
    <3> QED
      BY <1>3, <3>1, <3>2 DEF AtHand
  <2>4. ~checkOnly => provided' = {}
    BY <1>0 DEF SupplyInv, ProvidedInv
  <2>5. Above(provided)' = Above(provided')
    BY DEF Above
  <2> HIDE DEF StepSucceeds
  <2> QED
    BY <1>0, <2>1, <2>2, <2>3, <2>4, <2>5 DEF ProvidedInv
<1>6. SnapInv'
  <2> SUFFICES ASSUME NEW m \in N
               PROVE  /\ snap'[m] \subseteq provided'
                      /\ pc'[m] # "waiting" =>
                            \A k \in Requires(steps)[m] :
                                steps[k].provides \subseteq present' \cup snap'[m]
    <3> HIDE DEF StepSucceeds
    <3> QED
      BY <1>0 DEF SnapInv
  <2>1. CASE m \in Waiters(n) /\ pending[m] = 1
    <3>1. snap'[m] = provided'
      BY <1>0, <2>1 DEF TypeOK
    <3>2. \A k \in Requires(steps)[m] : k \in N /\ FinishedWell(k)'
      <4>1. Awaited(m) = {n}
        <5>1. n \in Awaited(m) /\ Cardinality(Awaited(m)) = 1
          BY <1>0, <2>1 DEF IInv, PendingInv, Waiters, Awaited, FinishedWell
        <5>2. Cardinality(Awaited(m) \ {n}) = 0
          <6>1. IsFiniteSet(Awaited(m))
            BY <1>0, AwaitedFinite
          <6>2. Cardinality(Awaited(m) \ {n}) = Cardinality(Awaited(m)) - 1
            BY <5>1, <6>1, FS_RemoveElement
          <6> QED
            BY <5>1, <6>2
        <5>3. IsFiniteSet(Awaited(m) \ {n})
          BY <1>0, AwaitedFinite, FS_Subset
        <5>4. Awaited(m) \ {n} = {}
          BY <5>2, <5>3, FS_EmptySet
        <5> QED
          BY <5>1, <5>4
      <4>2. Requires(steps)[m] \subseteq N
        BY <1>0, PlanFacts
      <4> QED
        BY <1>2, <4>1, <4>2 DEF Awaited
    <3>3. \A k \in N : FinishedWell(k)' => steps[k].provides \subseteq present' \cup provided'
      BY <1>0, <1>5 DEF ProvidedInv, AtHand
    <3> QED
      BY <3>1, <3>2, <3>3
  <2>2. CASE ~(m \in Waiters(n) /\ pending[m] = 1)
    <3>1. snap'[m] = snap[m]
      BY <1>0, <2>2 DEF TypeOK
    <3>2. pc'[m] # "waiting" => pc[m] # "waiting"
      BY <1>0, <2>2 DEF TypeOK
    <3> QED
      BY <1>3, <3>1, <3>2 DEF SupplyInv, SnapInv
  <2> QED
    BY <2>1, <2>2
<1>7. ForetoldInv'
  BY <1>0, <1>3 DEF SupplyInv, ForetoldInv
<1> QED
  BY <1>5, <1>6, <1>7 DEF SupplyInv

\* Every step of a run keeps the supply.
LEMMA SupplyStep ==
    ASSUME IInv, SupplyInv, WellDeclared(steps), [Next]_vars
    PROVE  SupplyInv'
<1>1. CASE Wait \/ Cancel \/ UNCHANGED vars
  BY <1>1, QuietSupply DEF Wait, Cancel, vars, run, N, FinishedWell
<1>2. ASSUME ApplyAfterCheck PROVE SupplyInv'
  <2>1. planErr = NoErr /\ \A n \in N : FinishedWell(n)
    <3>1. planErr = NoErr /\ SuccessIsComplete
      BY <1>2, SuccessState DEF ApplyAfterCheck, IInv, TypeOK, VerdictInv, VerdictOf, StepErr
    <3> QED
      BY <1>2, <3>1 DEF ApplyAfterCheck, SuccessIsComplete
  <2>2. TypeOK'
    BY <1>2, ApplyAfterCheckInv DEF IInv
  <2>3. (ProvidedInv /\ SnapInv)'
    <3>1. (/\ pc = StartPc(steps) /\ pending = PendingOf(steps)
           /\ snap = [n \in N |-> {}] /\ provided = {})'
      BY <1>2 DEF ApplyAfterCheck, N
    <3> QED
      BY <2>2, <3>1, StartSupply, PTL
  <2>4. ForetoldInv'
    BY <1>2, <2>1 DEF ApplyAfterCheck, SupplyInv, ProvidedInv, ForetoldInv, FinishedWell, N,
       NoErr
  <2> QED
    BY <2>3, <2>4 DEF SupplyInv
<1>3. ASSUME NEW n \in N, StepNext(n) PROVE SupplyInv'
  <2>1. ASSUME Begin(n) \/ GroupFails(n) PROVE SupplyInv'
    <3>1. \A m \in N : /\ FinishedWell(m) <=> FinishedWell(m)'
                       /\ pc[m] = "waiting" <=> pc'[m] = "waiting"
                       /\ err'[m] = "missing" => err[m] = "missing"
      BY <2>1 DEF Begin, GroupFails, IInv, TypeOK, ErrInv, FinishedWell
    <3> QED
      BY <2>1, <3>1, QuietSupply DEF Begin, GroupFails, run, N
  <2>2. ASSUME NEW e \in StepErr, StepFails(n, e) PROVE SupplyInv'
    <3>1. e = "missing" => checkVerdict # "ok"
      <4> SUFFICES ASSUME e = "missing", checkVerdict = "ok" PROVE FALSE
        OBVIOUS
      <4>1. PICK r \in Blocked(n) : TRUE
        BY <2>2 DEF StepFails
      <4>2. r \in steps[n].needs \ present
        BY <4>1 DEF Blocked, Missing
      <4> QED
        BY <2>2, <4>1, <4>2, InTime DEF StepFails, ProvidedInTime, SupplyInv, ForetoldInv
    <3>2. \A m \in N : /\ FinishedWell(m) <=> FinishedWell(m)'
                       /\ pc[m] = "waiting" <=> pc'[m] = "waiting"
                       /\ err'[m] = "missing" => err[m] = "missing" \/ checkVerdict # "ok"
      BY <2>2, <3>1 DEF StepFails, IInv, TypeOK, FinishedWell
    <3> QED
      BY <2>2, <3>2, QuietSupply DEF StepFails, run, N
  <2> QED
    BY <1>3, <2>1, <2>2, SuccessSupply DEF StepNext
<1> QED
  BY <1>1, <1>2, <1>3 DEF Next, Finished

\* Neither a check nor the apply it foretells finds missing what another step
\* of the plan provides, for plans of any length whose steps declare what
\* their checks look at.
THEOREM NothingMissedHolds ==
    ASSUME \A ss \in Plans : WellDeclared(ss)
    PROVE  Spec => []NothingMissed
<1>1. IInv => WellDeclared(steps)
  BY DEF IInv, TypeOK
<1>2. Init => SupplyInv
  <2> SUFFICES ASSUME Init PROVE SupplyInv
    OBVIOUS
  <2>1. ProvidedInv /\ SnapInv
    BY InitInv, StartSupply DEF Init, IInv
  <2>2. ForetoldInv
    BY DEF Init, ForetoldInv
  <2> QED
    BY <2>1, <2>2 DEF SupplyInv
<1>3. IInv /\ SupplyInv /\ [Next]_vars => SupplyInv'
  BY <1>1, SupplyStep
<1>4. IInv /\ SupplyInv => NothingMissed
  BY <1>1, InTime DEF NothingMissed, CheckForetellsApply, SupplyInv, ForetoldInv
<1> QED
  BY <1>2, <1>3, <1>4, IInvHolds, PTL DEF Spec
=============================================================================

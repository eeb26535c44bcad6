--------------------------- MODULE RunOutputProofs ---------------------------
(***************************************************************************)
(* Proofs about RunOutput: its inductive invariant, and from it all of its *)
(* safety properties, for any number of lanes and steps, any number of     *)
(* changes, any capacity of the channel and any size of the terminal.      *)
(*                                                                         *)
(* The engine and the consumer meet in one notion, what was heard of a     *)
(* step: a send leaves it alone for every step (Sent), and taking an event *)
(* adds the next event of one step (Received).  So a step of the engine    *)
(* cannot disturb the consumer (Quiet), and a step of the consumer has to  *)
(* account for one event.                                                  *)
(***************************************************************************)
EXTENDS RunOutput, SequencesExt,
        FiniteSetTheorems, WellFoundedInduction, SequenceTheorems, TLAPS

-----------------------------------------------------------------------------
(***************************************************************************)
(* The theorems of the library that state induction cannot be cited, so an *)
(* induction here takes the least position at which a property fails.      *)
(***************************************************************************)

\* A set of natural numbers has a least one, which is what an induction over
\* positions rests on.
LEMMA Least ==
  ASSUME NEW T \in SUBSET Nat, T # {}
  PROVE  \E n \in T : \A m \in T : n <= m
<1> DEFINE U == {T \cap (0 .. n) : n \in T}
<1>1. U \subseteq FiniteSubsetsOf(T) /\ U # {}
  <2>1. ASSUME NEW n \in T PROVE IsFiniteSet(T \cap (0 .. n))
    <3>1. n \in Int /\ IsFiniteSet(0 .. n)
      BY FS_Interval
    <3> QED
      BY <3>1, FS_Intersection
  <2> QED
    BY <2>1 DEF FiniteSubsetsOf
<1>2. PICK A \in U : \A B \in U : ~ (<<B, A>> \in StrictSubsetOrdering(T))
  <2> HIDE DEF U
  <2> QED BY <1>1, FS_StrictSubsetOrderingWellFounded, WFMin
<1>3. PICK n \in T : A = T \cap (0 .. n)
  BY <1>2
<1>4. ASSUME NEW m \in T, m < n PROVE FALSE
  <2>1. T \cap (0 .. m) \in U /\ T \cap (0 .. m) \subseteq A /\ n \in A /\ n \notin T \cap (0 .. m)
    BY <1>3, <1>4
  <2> QED
    BY <1>2, <2>1, <1>3 DEF StrictSubsetOrdering
<1> QED
  BY <1>4

\* The members of a finite set in a total order: each stands where the number of
\* members before it puts it.
LEMMA Ranked ==
  ASSUME NEW S, IsFiniteSet(S), NEW B,
         \A x \in S : <<x, x>> \notin B,
         \A x, y \in S : x = y \/ <<x, y>> \in B \/ <<y, x>> \in B,
         \A x, y, z \in S : <<x, y>> \in B /\ <<y, z>> \in B => <<x, z>> \in B
  PROVE  LET z == [i \in 1 .. Cardinality(S) |->
                      CHOOSE n \in S : Cardinality({m \in S : <<m, n>> \in B}) = i - 1]
         IN  /\ Cardinality(S) \in Nat /\ z \in [1 .. Cardinality(S) -> S]
             /\ \A x \in S : \E i \in 1 .. Cardinality(S) : z[i] = x
             /\ \A i, j \in 1 .. Cardinality(S) : i < j => <<z[i], z[j]>> \in B
<1> DEFINE N == Cardinality(S)
           Under(n) == {m \in S : <<m, n>> \in B}
           r == [n \in S |-> Cardinality(Under(n))]
           z == [i \in 1 .. N |-> CHOOSE n \in S : Cardinality(Under(n)) = i - 1]
<1>1. N \in Nat
  BY FS_CardinalityType
<1>2. ASSUME NEW n \in S
      PROVE  Cardinality(Under(n)) \in Nat /\ Cardinality(Under(n)) < N /\ IsFiniteSet(Under(n))
  <2>1. Under(n) \in SUBSET S /\ n \notin Under(n)
    OBVIOUS
  <2> HIDE DEF Under
  <2>2. IsFiniteSet(Under(n)) /\ Cardinality(Under(n)) <= N /\ (N = Cardinality(Under(n)) => S = Under(n))
    BY <2>1, FS_Subset
  <2>3. Cardinality(Under(n)) \in Nat
    BY <2>2, FS_CardinalityType
  <2> QED
    BY <1>1, <2>1, <2>2, <2>3
<1>3. ASSUME NEW m \in S, NEW n \in S, <<m, n>> \in B PROVE r[m] < r[n]
  <2>1. Under(m) \in SUBSET Under(n) /\ m \in Under(n) /\ m \notin Under(m)
    BY <1>3
  <2>2. IsFiniteSet(Under(n)) /\ Cardinality(Under(n)) \in Nat /\ Cardinality(Under(m)) \in Nat
    BY <1>2
  <2>3. r[m] = Cardinality(Under(m)) /\ r[n] = Cardinality(Under(n))
    OBVIOUS
  <2> HIDE DEF Under, r
  <2> QED
    BY <2>1, <2>2, <2>3, FS_Subset
<1>4. r \in [S -> 0 .. N - 1]
  <2>1. \A n \in S : Cardinality(Under(n)) \in 0 .. N - 1
    BY <1>1, <1>2
  <2> QED
    BY <2>1
<1>5. r \in Injection(S, 0 .. N - 1)
  <2>1. \A m, n \in S : r[m] = r[n] => m = n
    <3> SUFFICES ASSUME NEW m \in S, NEW n \in S, r[m] = r[n], m # n PROVE FALSE
      OBVIOUS
    <3>1. r[m] \in Nat /\ r[n] \in Nat
      BY <1>4
    <3>2. <<m, n>> \in B \/ <<n, m>> \in B
      OBVIOUS
    <3>3. r[m] < r[n] \/ r[n] < r[m]
      BY <1>3, <3>2
    <3> QED
      BY <3>1, <3>3
  <2> QED
    BY <1>4, <2>1 DEF Injection, IsInjective
<1>6. IsFiniteSet(0 .. N - 1) /\ Cardinality(0 .. N - 1) = N
  <2>1. 0 \in Int /\ N - 1 \in Int /\ 0 .. N - 1 = 0 .. N - 1
    BY <1>1
  <2>2. IsFiniteSet(0 .. N - 1) /\ Cardinality(0 .. N - 1) = IF 0 > N - 1 THEN 0 ELSE N - 1 - 0 + 1
    BY <2>1, FS_Interval
  <2> QED
    BY <1>1, <2>2
<1>7. r \in Surjection(S, 0 .. N - 1)
  <2> HIDE DEF r
  <2> QED
    BY <1>5, <1>6, FS_Injection
<1>8. \A k \in 0 .. N - 1 : \E n \in S : r[n] = k
  <2> HIDE DEF r
  <2> QED
    BY <1>7 DEF Surjection
<1>9. ASSUME NEW i \in 1 .. N PROVE z[i] \in S /\ r[z[i]] = i - 1
  <2>1. i - 1 \in 0 .. N - 1
    BY <1>1
  <2>2. \E n \in S : Cardinality(Under(n)) = i - 1
    BY <1>8, <2>1
  <2> HIDE DEF Under
  <2> QED
    BY <2>2
<1>10. z \in [1 .. N -> S]
  <2>1. ASSUME NEW i \in 1 .. N PROVE (CHOOSE n \in S : Cardinality(Under(n)) = i - 1) \in S
    BY <1>9
  <2> HIDE DEF Under
  <2> QED
    BY <2>1
<1>11. ASSUME NEW x \in S PROVE \E i \in 1 .. N : z[i] = x
  <2>1. r[x] \in 0 .. N - 1
    BY <1>4
  <2>2. r[x] + 1 \in 1 .. N /\ (r[x] + 1) - 1 = r[x]
    BY <1>1, <2>1
  <2>3. z[r[x] + 1] \in S /\ r[z[r[x] + 1]] = r[x]
    BY <1>9, <2>2
  <2>4. z[r[x] + 1] = x
    <3> HIDE DEF r, z
    <3> QED
      BY <1>5, <2>3 DEF Injection, IsInjective
  <2> QED
    BY <2>2, <2>4
<1>12. ASSUME NEW i \in 1 .. N, NEW j \in 1 .. N, i < j PROVE <<z[i], z[j]>> \in B
  <2>1. z[i] \in S /\ z[j] \in S /\ r[z[i]] = i - 1 /\ r[z[j]] = j - 1
    BY <1>9
  <2> HIDE DEF r, z
  <2>2. ~ (r[z[j]] < r[z[i]]) /\ z[i] # z[j]
    BY <1>12, <2>1
  <2> QED
    BY <1>3, <2>1, <2>2
<1> QED
  BY <1>1, <1>10, <1>11, <1>12

-----------------------------------------------------------------------------

USE DEF Final, Rank

-----------------------------------------------------------------------------
(***************************************************************************)
(* The engine.                                                             *)
(***************************************************************************)
\* What a step has told is a matter of its state, and its result the last of it.
LEMMA ToldAre ==
    ASSUME EngineInv, NEW l \in Lane, NEW i \in Steps(l)
    PROVE  /\ sent[l][i] \in 0 .. MaxChanges /\ at[l][i] \in States
           /\ Told(l, i) \in SUBSET (0 .. MaxChanges + 1) /\ MaxChanges \in Nat
           /\ \A n \in 1 .. MaxChanges : n \in Told(l, i) <=> n <= sent[l][i]
           /\ 0 \in Told(l, i) <=> at[l][i] \notin {"waiting", "dropped"}
           /\ Final \in Told(l, i) <=> IsSettled(l, i)
           /\ Heard(l, i) \subseteq Told(l, i)
<1>1. MaxChanges \in Nat
  BY BoundsAssumption
<1>2. sent[l][i] \in 0 .. MaxChanges /\ at[l][i] \in States
  BY DEF EngineInv
<1>3. at[l][i] \in {"waiting", "dropped"} => sent[l][i] = 0
  BY DEF EngineInv
<1>4. Heard(l, i) \subseteq Told(l, i)
  BY DEF Heard
<1>5. CASE at[l][i] \in {"waiting", "dropped"}
  BY <1>1, <1>2, <1>3, <1>4, <1>5 DEF Told, IsSettled
<1>6. CASE at[l][i] \notin {"waiting", "dropped"}
  <2>1. CASE IsSettled(l, i)
    BY <1>1, <1>2, <1>4, <1>6, <2>1 DEF Told
  <2>2. CASE ~ IsSettled(l, i)
    BY <1>1, <1>2, <1>4, <1>6, <2>2 DEF Told
  <2> QED
    BY <2>1, <2>2
<1> QED
  BY <1>5, <1>6

\* A step that moves was not over, so that the command still waits for it, and
\* the state it moves to is one it can be in.
LEMMA MoveStep ==
    ASSUME EngineInv, NEW l \in Lane, NEW i \in Steps(l), StepMoves(l, i)
    PROVE  /\ EngineInv' /\ ~ closed /\ UNCHANGED <<main, closed, consumer>>
           /\ \A m \in Lane : \A j \in Steps(m) :
                 m # l \/ j # i => at'[m][j] = at[m][j] /\ sent'[m][j] = sent[m][j]
<1>1. ~Over(l, i)
  BY DEF StepMoves, StepEmits, BeginStep, RefFails, ReportChange, Fail, Settle, Drop, MayBegin,
     Over
<1>2. main = "runs" /\ ~closed
  BY <1>1 DEF EngineInv, LaneOver
<1>3. UNCHANGED <<main, closed, consumer>>
  BY DEF StepMoves, StepEmits, BeginStep, RefFails, ReportChange, Fail, Settle, Drop
<1>4. \/ at' = at /\ at[l][i] = "running"
         /\ sent[l][i] < MaxChanges /\ sent' = [sent EXCEPT ![l][i] = @ + 1]
      \/ /\ sent' = sent
         /\ \E s \in States : /\ at' = [at EXCEPT ![l][i] = s]
                              /\ s \in {"waiting", "dropped"} => at[l][i] = "waiting"
  BY DEF StepMoves, StepEmits, BeginStep, RefFails, ReportChange, Fail, Settle, Drop, MayBegin,
     States
<1>5. DOMAIN at = Lane /\ DOMAIN sent = Lane
  BY DEF EngineInv
<1>6. \A m \in Lane : /\ at[m] \in [Steps(m) -> States] /\ sent[m] \in [Steps(m) -> 0 .. MaxChanges]
                      /\ \A j \in Steps(m) : at[m][j] \in {"waiting", "dropped"} => sent[m][j] = 0
  BY DEF EngineInv
<1>7. DOMAIN at' = Lane /\ DOMAIN sent' = Lane
  BY <1>4, <1>5
<1>8. \A m \in Lane : at'[m] \in [Steps(m) -> States] /\ sent'[m] \in [Steps(m) -> 0 .. MaxChanges]
  <2>1. sent[l][i] \in 0 .. MaxChanges /\ MaxChanges \in Nat
    BY <1>6, BoundsAssumption
  <2>2. \A m \in Lane : at'[m] \in [Steps(m) -> States]
    BY <1>4, <1>5, <1>6
  <2>3. \A m \in Lane : sent'[m] \in [Steps(m) -> 0 .. MaxChanges]
    <3>1. CASE sent' = sent
      BY <3>1, <1>6
    <3>2. CASE sent[l][i] < MaxChanges /\ sent' = [sent EXCEPT ![l][i] = @ + 1]
      <4>1. sent[l][i] + 1 \in 0 .. MaxChanges
        BY <2>1, <3>2
      <4> QED
        BY <4>1, <3>2, <1>5, <1>6
    <3> QED
      BY <3>1, <3>2, <1>4
  <2> QED
    BY <2>2, <2>3
<1>9. \A m \in Lane : \A j \in Steps(m) :
         m # l \/ j # i => at'[m][j] = at[m][j] /\ sent'[m][j] = sent[m][j]
  BY <1>4, <1>5, <1>6
<1>10. \A m \in Lane : \A j \in Steps(m) : at'[m][j] \in {"waiting", "dropped"} => sent'[m][j] = 0
  <2>1. at'[l][i] \in {"waiting", "dropped"} => sent'[l][i] = 0
    BY <1>4, <1>5, <1>6
  <2> QED
    BY <2>1, <1>9, <1>6
<1>11. cancelled' \subseteq Lane
  BY DEF EngineInv, StepMoves, StepEmits, BeginStep, RefFails, ReportChange, Fail, Settle, Drop
<1> QED
  BY <1>2, <1>3, <1>7, <1>8, <1>9, <1>10, <1>11 DEF EngineInv

\* What a send adds to the channel is the next thing its step has to tell, and
\* so nothing is heard of it yet.
LEMMA Sent ==
    ASSUME ChannelInv, EngineInv, EngineInv', NEW l \in Lane, NEW i \in Steps(l), NEW e \in Event,
           e.lane = l, e.index = i, Len(events) < Buffer, events' = Append(events, e),
           \A m \in Lane : \A j \in Steps(m) :
              m # l \/ j # i => at'[m][j] = at[m][j] /\ sent'[m][j] = sent[m][j],
           e.kind = "Error" => Told(l, i)' = Told(l, i),
           e.kind # "Error" => /\ Told(l, i)' = Told(l, i) \cup {Rank(e)}
                               /\ \A r \in Told(l, i) : r < Rank(e),
           e.kind = "Change" => e.nr >= 1,
           e.kind = "Result" => e.ok = (at'[l][i] = "settled"),
           ~ IsSettled(l, i)
    PROVE  /\ ChannelInv'
           /\ \A m \in Lane : \A j \in Steps(m) : Heard(m, j)' = Heard(m, j)
<1> DEFINE q == events'
<1>1. /\ events \in Seq(Event) /\ q \in Seq(Event) /\ Len(q) = Len(events) + 1 /\ Len(events) \in Nat
      /\ DOMAIN events = 1 .. Len(events) /\ DOMAIN q = 1 .. Len(events) + 1
      /\ q[Len(events) + 1] = e /\ \A k \in 1 .. Len(events) : q[k] = events[k]
  <2>1. events \in Seq(Event)
    BY DEF ChannelInv
  <2> QED
    BY <2>1
<1>2. Len(q) <= Buffer
  BY <1>1, BoundsAssumption
<1>3. \A m \in Lane : \A j \in Steps(m) : m # l \/ j # i => Told(m, j)' = Told(m, j)
  BY DEF Told, IsSettled
<1>4. Told(l, i) \subseteq Told(l, i)'
  OBVIOUS
<1> HIDE DEF q
<1>5. ASSUME NEW m \in Lane, NEW j \in Steps(m)
      PROVE  Of(m, j)' = IF e.kind # "Error" /\ m = l /\ j = i THEN Of(m, j) \cup {Len(events) + 1}
                         ELSE Of(m, j)
  <2>1. Of(m, j)' = {k \in DOMAIN q : q[k].kind # "Error" /\ q[k].lane = m /\ q[k].index = j}
    BY DEF Of, q
  <2>2. Of(m, j) \subseteq 1 .. Len(events)
    BY <1>1 DEF Of
  <2> QED
    BY <1>1, <2>1, <2>2 DEF Of
<1>6. \A k \in DOMAIN events : events[k] \in Event /\ Warranted(events[k])
  BY <1>1 DEF ChannelInv
<1>7. ASSUME NEW k \in DOMAIN q, NEW x, x = q[k] PROVE Warranted(x)'
  <2>1. CASE k = Len(events) + 1
    <3>1. x = e
      BY <1>1, <1>7, <2>1
    <3> QED
      BY <3>1 DEF Warranted
  <2>2. CASE k \in DOMAIN events
    <3>1. x \in Event /\ Warranted(x)
      BY <1>1, <1>6, <1>7, <2>2
    <3>2. x.lane \in Lane /\ x.index \in Steps(x.lane)
      BY <3>1 DEF Event, Warranted
    <3>3. x.kind # "Error" => Rank(x) \in Told(x.lane, x.index)'
      BY <3>1, <3>2, <1>3, <1>4 DEF Warranted
    <3>4. x.kind = "Result" => IsSettled(x.lane, x.index)
      <4>1. x.kind = "Result" => Final \in Told(x.lane, x.index)
        BY <3>1 DEF Warranted
      <4> QED
        BY <4>1, <3>2, ToldAre
    <3>5. x.kind = "Result" => x.ok = (at'[x.lane][x.index] = "settled")
      BY <3>1, <3>2, <3>4 DEF Warranted
    <3>6. x.index \in Steps(x.lane) /\ (x.kind = "Change" => x.nr >= 1)
      BY <3>1 DEF Warranted
    <3> QED
      BY <3>3, <3>5, <3>6 DEF Warranted
  <2> QED
    BY <2>1, <2>2, <1>1
<1>8. ASSUME NEW m \in Lane, NEW j \in Steps(m), NEW a \in Of(m, j)', NEW b \in Of(m, j)', a < b
      PROVE  Rank(q[a]) < Rank(q[b])
  <2>1. CASE b \in Of(m, j)
    <3>1. a \in Of(m, j)
      <4>1. b # Len(events) + 1 /\ b \in 1 .. Len(events)
        BY <2>1, <1>1 DEF Of
      <4>2. a # Len(events) + 1
        <5>1. a \in Of(m, j) \/ a = Len(events) + 1
          BY <1>5
        <5>2. \A c \in Of(m, j) : c \in 1 .. Len(events)
          BY <1>1 DEF Of
        <5> QED
          BY <5>1, <5>2, <4>1, <1>8, <1>1
      <4> QED
        BY <4>2, <1>5
    <3>2. Rank(events[a]) < Rank(events[b])
      BY <2>1, <3>1, <1>8 DEF ChannelInv, InLine
    <3> QED
      BY <2>1, <3>1, <3>2, <1>1 DEF Of
  <2>2. CASE b \notin Of(m, j)
    <3>1. e.kind # "Error" /\ m = l /\ j = i /\ b = Len(events) + 1
      BY <1>5, <2>2
    <3>2. a \in Of(l, i)
      BY <1>5, <1>8, <3>1
    <3>3. a \in DOMAIN events /\ q[a] = events[a] /\ Rank(events[a]) \in Told(l, i)
      <4>1. a \in DOMAIN events /\ q[a] = events[a] /\ events[a].kind # "Error"
            /\ events[a].lane = l /\ events[a].index = i
        BY <3>2, <1>1 DEF Of
      <4>2. Warranted(events[a])
        BY <4>1, <1>6
      <4> QED
        BY <4>1, <4>2 DEF Warranted
    <3> QED
      BY <3>1, <3>3, <1>1
  <2> QED
    BY <2>1, <2>2
<1>9. ASSUME NEW m \in Lane, NEW j \in Steps(m) PROVE Heard(m, j)' = Heard(m, j)
  <2>1. Heard(m, j)' = Told(m, j)' \ {Rank(q[k]) : k \in Of(m, j)'}
    BY DEF Heard, q
  <2>2. \A k \in Of(m, j) : k \in DOMAIN events /\ q[k] = events[k]
    BY <1>1 DEF Of
  <2>3. CASE e.kind # "Error" /\ m = l /\ j = i
    <3>1. {Rank(q[k]) : k \in Of(m, j)'} = {Rank(events[k]) : k \in Of(m, j)} \cup {Rank(e)}
      BY <1>5, <2>2, <2>3, <1>1
    <3>2. Rank(e) \notin Told(l, i)
      <4>1. Told(l, i) \in SUBSET (0 .. MaxChanges + 1) /\ MaxChanges \in Nat
        BY ToldAre
      <4> QED
        BY <4>1, <2>3
    <3>3. Told(m, j)' = Told(m, j) \cup {Rank(e)}
      BY <2>3
    <3>4. Rank(e) \notin Told(m, j)
      BY <2>3, <3>2
    <3>5. Heard(m, j) = Told(m, j) \ {Rank(events[k]) : k \in Of(m, j)}
      BY DEF Heard
    <3> HIDE DEF Rank
    <3> QED
      BY <2>1, <3>1, <3>3, <3>4, <3>5
  <2>4. CASE ~ (e.kind # "Error" /\ m = l /\ j = i)
    <3>1. {Rank(q[k]) : k \in Of(m, j)'} = {Rank(events[k]) : k \in Of(m, j)}
      BY <1>5, <2>2, <2>4
    <3>2. Told(m, j)' = Told(m, j)
      BY <1>3, <2>4
    <3> QED
      BY <2>1, <3>1, <3>2 DEF Heard
  <2> QED
    BY <2>3, <2>4
<1>10. ChannelInv'
  <2>1. \A m \in Lane : \A j \in Steps(m) : InLine(m, j)'
    BY <1>8 DEF InLine, q
  <2>2. \A k \in DOMAIN events' : \A x : x = events'[k] => Warranted(x)'
    BY <1>7 DEF q
  <2>3. ASSUME NEW m \in Lane, NEW j \in Steps(m), Final \in Heard(m, j) PROVE Told(m, j)' = Told(m, j)
    <3>1. IsSettled(m, j)
      BY <2>3, ToldAre
    <3> QED
      BY <3>1, <1>3
  <2>4. \A m \in Lane : \A j \in Steps(m) : Complete(m, j)'
    BY <1>9, <2>3 DEF Complete, ChannelInv
  <2> QED
    BY <1>1, <1>2, <2>1, <2>2, <2>4 DEF ChannelInv, q
<1> QED
  BY <1>9, <1>10

\* The channel holds what it held, when nothing is sent or taken.
LEMMA ChannelSame ==
    ASSUME ChannelInv, UNCHANGED <<at, sent, events>>
    PROVE  /\ ChannelInv'
           /\ \A m \in Lane : \A j \in Steps(m) : Heard(m, j)' = Heard(m, j)
<1>1. \A m \in Lane : \A j \in Steps(m) : Told(m, j)' = Told(m, j) /\ Of(m, j)' = Of(m, j)
  BY DEF Told, Of, IsSettled
<1>2. \A m \in Lane : \A j \in Steps(m) : Heard(m, j)' = Heard(m, j)
  BY <1>1 DEF Heard
<1>3. ChannelInv'
  <2>0. \A m \in Lane : \A j \in Steps(m) : InLine(m, j)' /\ Complete(m, j)'
    BY <1>1, <1>2 DEF InLine, Complete, ChannelInv
  <2>1. \A x : Warranted(x) /\ x \in Event => Warranted(x)'
    BY <1>1 DEF Warranted, Event
  <2>2. \A k \in DOMAIN events : events[k] \in Event /\ Warranted(events[k])
    BY DEF ChannelInv
  <2>3. \A k \in DOMAIN events' : \A x : x = events'[k] => Warranted(x)'
    BY <2>1, <2>2
  <2>4. events' \in Seq(Event) /\ Len(events') <= Buffer
    BY DEF ChannelInv
  <2> QED
    BY <2>0, <2>3, <2>4 DEF ChannelInv
<1> QED
  BY <1>2, <1>3

\* Nothing a step does changes what was heard, of it or of another.
LEMMA Emitted ==
    ASSUME ChannelInv, EngineInv, NEW l \in Lane, NEW i \in Steps(l), StepMoves(l, i)
    PROVE  /\ ChannelInv'
           /\ \A m \in Lane : \A j \in Steps(m) : Heard(m, j)' = Heard(m, j)
<1>1. /\ EngineInv'
      /\ \A m \in Lane : \A j \in Steps(m) :
            m # l \/ j # i => at'[m][j] = at[m][j] /\ sent'[m][j] = sent[m][j]
  BY MoveStep
<1>2. /\ MaxChanges \in Nat /\ sent[l][i] \in 0 .. MaxChanges
      /\ at[l][i] \in {"waiting", "dropped"} => sent[l][i] = 0
      /\ DOMAIN at = Lane /\ DOMAIN sent = Lane /\ DOMAIN at[l] = Steps(l) /\ DOMAIN sent[l] = Steps(l)
      /\ i \in Nat
  BY BoundsAssumption, StepsAssumption DEF EngineInv, Steps
<1> DEFINE E(kind, nr, ok) == [kind |-> kind, lane |-> l, index |-> i, nr |-> nr, ok |-> ok]
<1>3. CASE BeginStep(l, i)
  <2> DEFINE e == E("Begin", 0, TRUE)
  <2>1. e \in Event /\ Len(events) < Buffer /\ events' = Append(events, e)
    BY <1>2, <1>3 DEF BeginStep, Emit, Event
  <2>2. at[l][i] = "waiting" /\ at'[l][i] = "running" /\ sent'[l][i] = 0
    BY <1>2, <1>3 DEF BeginStep, MayBegin
  <2>3. Told(l, i) = {} /\ Told(l, i)' = {0}
    BY <2>2 DEF Told, IsSettled
  <2>4. /\ e.lane = l /\ e.index = i /\ e.kind = "Begin" /\ Rank(e) = 0
        /\ ~ IsSettled(l, i)
    BY <2>2 DEF IsSettled
  <2> HIDE DEF e, Rank
  <2> QED
    BY <1>1, <2>1, <2>3, <2>4, Sent
<1>4. CASE RefFails(l, i) \/ Fail(l, i)
  <2> DEFINE e == E("Error", 0, FALSE)
  <2>1. e \in Event /\ Len(events) < Buffer /\ events' = Append(events, e)
    BY <1>2, <1>4 DEF RefFails, Fail, Emit, Event
  <2>2. /\ ~ IsSettled(l, i) /\ ~ IsSettled(l, i)' /\ sent'[l][i] = sent[l][i]
        /\ at[l][i] \in {"waiting", "dropped"} <=> at'[l][i] \in {"waiting", "dropped"}
    BY <1>2, <1>4 DEF RefFails, Fail, MayBegin, IsSettled
  <2>3. Told(l, i)' = Told(l, i)
    BY <2>2 DEF Told
  <2>4. e.lane = l /\ e.index = i /\ e.kind = "Error"
    OBVIOUS
  <2> HIDE DEF e
  <2> QED
    BY <1>1, <2>1, <2>2, <2>3, <2>4, Sent
<1>5. CASE ReportChange(l, i)
  <2> DEFINE e == E("Change", sent[l][i] + 1, TRUE)
  <2>1. at[l][i] = "running" /\ at'[l][i] = "running" /\ sent[l][i] < MaxChanges
        /\ sent'[l][i] = sent[l][i] + 1
    BY <1>2, <1>5 DEF ReportChange
  <2>2. e \in Event /\ Len(events) < Buffer /\ events' = Append(events, e)
    <3>1. sent[l][i] + 1 \in 0 .. MaxChanges
      BY <1>2, <2>1
    <3> QED
      BY <3>1, <1>2, <1>5 DEF ReportChange, Emit, Event
  <2>3. Told(l, i) = 0 .. sent[l][i] /\ Told(l, i)' = 0 .. sent[l][i] + 1
    BY <2>1 DEF Told, IsSettled
  <2>4. Told(l, i)' = Told(l, i) \cup {sent[l][i] + 1} /\ \A r \in Told(l, i) : r < sent[l][i] + 1
    BY <1>2, <2>3
  <2>5. /\ e.lane = l /\ e.index = i /\ e.kind = "Change" /\ Rank(e) = sent[l][i] + 1
        /\ e.nr >= 1 /\ ~ IsSettled(l, i)
    BY <1>2, <2>1 DEF IsSettled
  <2> HIDE DEF e, Rank
  <2> QED
    BY <1>1, <2>2, <2>4, <2>5, Sent
<1>6. CASE Settle(l, i)
  <2> DEFINE ok == at[l][i] = "running"
             e == E("Result", 0, ok)
  <2>1. /\ at[l][i] \in {"running", "failing"} /\ sent'[l][i] = sent[l][i]
        /\ at'[l][i] = IF ok THEN "settled" ELSE "failed"
    BY <1>2, <1>6 DEF Settle
  <2>2. e \in Event /\ Len(events) < Buffer /\ events' = Append(events, e)
    <3>1. ok \in BOOLEAN
      OBVIOUS
    <3>2. Len(events) < Buffer /\ events' = Append(events, e)
      BY <1>6 DEF Settle, Emit
    <3> HIDE DEF ok
    <3> QED
      BY <3>1, <3>2, <1>2 DEF Event
  <2>3. Told(l, i) = 0 .. sent[l][i] /\ Told(l, i)' = (0 .. sent[l][i]) \cup {MaxChanges + 1}
    BY <2>1 DEF Told, IsSettled
  <2>4. \A r \in Told(l, i) : r < MaxChanges + 1
    BY <1>2, <2>3
  <2>5. /\ e.lane = l /\ e.index = i /\ e.kind = "Result" /\ Rank(e) = MaxChanges + 1
        /\ ~ IsSettled(l, i)
    BY <2>1 DEF IsSettled
  <2>6. e.ok = (at'[l][i] = "settled")
    BY <2>1
  <2> HIDE DEF e, Rank, ok, E
  <2>7. Told(l, i)' = Told(l, i) \cup {Rank(e)} /\ \A r \in Told(l, i) : r < Rank(e)
    BY <2>3, <2>4, <2>5
  <2> QED
    BY <1>1, <2>2, <2>5, <2>6, <2>7, Sent
<1>7. CASE Drop(l, i)
  <2>1. at[l][i] = "waiting" /\ at'[l][i] = "dropped" /\ sent' = sent /\ events' = events
    BY <1>2, <1>7 DEF Drop
  <2>2. \A m \in Lane : \A j \in Steps(m) :
           Told(m, j)' = Told(m, j) /\ Of(m, j)' = Of(m, j) /\ (IsSettled(m, j) => at'[m][j] = at[m][j])
    BY <1>1, <2>1 DEF Told, Of, IsSettled
  <2>3. \A m \in Lane : \A j \in Steps(m) : Heard(m, j)' = Heard(m, j) /\ (InLine(m, j) => InLine(m, j)')
    BY <2>1, <2>2 DEF Heard, InLine
  <2>4. ASSUME NEW x \in Event, Warranted(x) PROVE Warranted(x)'
    <3>1. x.lane \in Lane /\ x.index \in Steps(x.lane)
      BY <2>4 DEF Event, Warranted
    <3>2. x.kind = "Result" => IsSettled(x.lane, x.index)
      <4>1. x.kind = "Result" => Final \in Told(x.lane, x.index)
        BY <2>4 DEF Warranted
      <4> QED
        BY <4>1, <3>1, ToldAre
    <3> QED
      BY <2>2, <2>4, <3>1, <3>2 DEF Warranted
  <2>5. \A k \in DOMAIN events : events[k] \in Event /\ Warranted(events[k])
    BY DEF ChannelInv
  <2>6. \A k \in DOMAIN events' : \A x : x = events'[k] => Warranted(x)'
    BY <2>1, <2>4, <2>5
  <2>7. events' \in Seq(Event) /\ Len(events') <= Buffer
    BY <2>1 DEF ChannelInv
  <2>8. \A m \in Lane : \A j \in Steps(m) : InLine(m, j)' /\ Complete(m, j)'
    BY <2>2, <2>3 DEF ChannelInv, Complete
  <2>9. ChannelInv'
    BY <2>6, <2>7, <2>8 DEF ChannelInv
  <2> QED
    BY <2>3, <2>9
<1> QED
  BY <1>3, <1>4, <1>5, <1>6, <1>7 DEF StepMoves, StepEmits

\* The consumer is none the wiser: what it holds and has printed still agrees
\* with what it heard.
LEMMA Quiet ==
    ASSUME IInv, EngineInv', ChannelInv', UNCHANGED consumer,
           \A m \in Lane : \A j \in Steps(m) :
              Heard(m, j)' = Heard(m, j) /\ (IsSettled(m, j) => at'[m][j] = at[m][j] /\ sent'[m][j] = sent[m][j]),
           done => closed' /\ events' = events, main' = "over" <=> main = "over"
    PROVE  IInv'
<1>1. UNCHANGED <<running, finished, pending, cursor, printed, drawn, smeared, done>>
  BY DEF consumer
<1>2. \A m \in Lane : \A j \in Steps(m) :
         Final \in Heard(m, j) => at'[m][j] = at[m][j] /\ sent'[m][j] = sent[m][j]
  <2>1. EngineInv
    BY DEF IInv
  <2> QED
    BY <2>1, ToldAre
<1>3. RegionInv'
  <2>1. \A p \in PlanSteps : p[1] \in Lane /\ p[2] \in Steps(p[1])
    BY StepsAssumption DEF PlanSteps, Steps
  <2>2. {p \in PlanSteps : Final \in Heard(p[1], p[2])'} = {p \in PlanSteps : Final \in Heard(p[1], p[2])}
    BY <2>1
  <2>3. \A m \in Lane : running'[m] = {j \in Steps(m) : 0 \in Heard(m, j)' /\ Final \notin Heard(m, j)'}
    BY <1>1 DEF IInv, RegionInv
  <2>4. RegionInv
    BY DEF IInv
  <2> QED
    BY <1>1, <2>2, <2>3, <2>4 DEF RegionInv
<1>4. SequencerInv'
  <2>1. SequencerInv
    BY DEF IInv
  <2>2. ASSUME NEW l \in Lane PROVE LaneInv(l)'
    <3>1. LaneInv(l)
      BY <2>1 DEF SequencerInv
    <3>2. ASSUME NEW i \in Steps(l), Fits(BlockOf(l, i), l, i)
          PROVE  Fits(BlockOf(l, i), l, i)'
      <4>1. BlockOf(l, i)' = BlockOf(l, i)
        BY <1>1 DEF BlockOf, Indices
      <4> QED
        BY <3>2, <4>1, <1>2 DEF Fits
    <3>3. \A i \in Steps(l) : Heard(l, i)' = Heard(l, i)
      OBVIOUS
    <3> QED
      BY <1>1, <3>1, <3>2, <3>3 DEF LaneInv
  <2> QED
    BY <1>1, <2>1, <2>2 DEF SequencerInv
<1>5. PrintedInv'
  <2>1. PrintedInv
    BY DEF IInv
  <2>2. \A m \in Lane : \A j \in Steps(m) : Out(m, j)' <=> Out(m, j)
    BY <1>1 DEF Out
  <2>3. DeclarationOrder' /\ \A m \in Lane : BlocksOf(m)' = BlocksOf(m)
    BY <1>1, <2>1 DEF PrintedInv, DeclarationOrder, BlocksOf
  <2>4. ASSUME NEW b \in Line, Shown(b) PROVE Shown(b)'
    <3>1. CASE b.kind = "block"
      <4>1. b.lane \in Lane /\ b.index \in Steps(b.lane) /\ Out(b.lane, b.index)
            /\ Final \in Heard(b.lane, b.index)
        BY <2>4, <3>1 DEF Shown, Line
      <4> QED
        BY <2>2, <2>4, <3>1, <4>1, <1>2 DEF Shown
    <3>2. CASE b.kind # "block"
      BY <3>2 DEF Shown
    <3> QED
      BY <3>1, <3>2
  <2>5. \A k \in DOMAIN printed : printed[k] \in Line /\ Shown(printed[k])
    BY <2>1 DEF PrintedInv
  <2>6. \A k \in DOMAIN printed' : \A b : b = printed'[k] => Shown(b)'
    BY <1>1, <2>4, <2>5
  <2>7. \A l \in Lane : \A i \in Steps(l) :
           Out(l, i)' => \E k \in BlocksOf(l)' : printed'[k].index = i
    BY <1>1, <2>1, <2>2, <2>3 DEF PrintedInv
  <2>8. printed' \in Seq(Line)
    BY <1>1, <2>1 DEF PrintedInv
  <2> QED
    BY <2>3, <2>6, <2>7, <2>8 DEF PrintedInv
<1>6. EndInv'
  BY <1>1 DEF IInv, EndInv
<1> QED
  BY <1>3, <1>4, <1>5, <1>6 DEF IInv

LEMMA EngineStep ==
    ASSUME IInv, \/ \E l \in Lane : \E i \in Steps(l) : StepMoves(l, i)
                 \/ Interrupt \/ RunReturns \/ Stop
    PROVE  IInv'
<1>1. EngineInv /\ ChannelInv
  BY DEF IInv
<1>2. ASSUME NEW l \in Lane, NEW i \in Steps(l), StepMoves(l, i) PROVE IInv'
  <2>1. /\ EngineInv' /\ ~ done /\ UNCHANGED <<main, consumer>>
        /\ \A m \in Lane : \A j \in Steps(m) :
              m # l \/ j # i => at'[m][j] = at[m][j] /\ sent'[m][j] = sent[m][j]
    BY <1>1, <1>2, MoveStep DEF IInv, EndInv
  <2>2. ~ IsSettled(l, i)
    BY <1>2 DEF StepMoves, StepEmits, BeginStep, RefFails, ReportChange, Fail, Settle, Drop,
       MayBegin, IsSettled
  <2>3. ChannelInv' /\ \A m \in Lane : \A j \in Steps(m) : Heard(m, j)' = Heard(m, j)
    BY <1>1, <1>2, Emitted
  <2> QED
    BY <2>1, <2>2, <2>3, Quiet
<1>3. CASE Interrupt \/ RunReturns \/ Stop
  <2>1. UNCHANGED <<at, sent, events, consumer>>
    BY <1>3 DEF Interrupt, RunReturns, Stop, engine
  <2>2. EngineInv'
    <3>1. cancelled' \subseteq Lane /\ main' \in {"runs", "succeeded", "failed", "over"}
          /\ closed' \in BOOLEAN /\ (closed' => main' # "runs")
      <4>1. EngineInv
        BY <1>1
      <4>2. CASE Interrupt
        BY <4>1, <4>2 DEF Interrupt, EngineInv
      <4>3. CASE RunReturns
        BY <4>1, <4>3 DEF RunReturns, RunOver, EngineInv
      <4>4. CASE Stop
        BY <4>1, <4>4 DEF Stop, engine, EngineInv
      <4> QED
        BY <4>2, <4>3, <4>4, <1>3
    <3>2. main' # "runs" => \A l \in Lane : LaneOver(l)
      BY <1>1, <1>3 DEF Interrupt, RunReturns, RunOver, Stop, engine, EngineInv
    <3>3. \A l \in Lane : LaneOver(l) => LaneOver(l)'
      BY <2>1 DEF LaneOver, Over
    <3> QED
      BY <1>1, <2>1, <3>1, <3>2, <3>3 DEF EngineInv
  <2>3. ChannelInv' /\ \A m \in Lane : \A j \in Steps(m) : Heard(m, j)' = Heard(m, j)
    BY <1>1, <2>1, ChannelSame
  <2>4. (done => closed') /\ (main' = "over" <=> main = "over")
    BY <1>3 DEF Interrupt, RunReturns, Stop, engine, IInv, EndInv, RunOver
  <2> QED
    BY <2>1, <2>2, <2>3, <2>4, Quiet
<1> QED
  BY <1>2, <1>3

-----------------------------------------------------------------------------
(***************************************************************************)
(* The consumer.                                                           *)
(***************************************************************************)
\* What the consumer takes from the channel is the next thing of its step that
\* it has not heard, and nothing else is heard by that.
LEMMA Received ==
    ASSUME ChannelInv, EngineInv, events # <<>>, events' = Tail(events), UNCHANGED <<at, sent>>
    PROVE  LET e == Head1
           IN  /\ e \in Event /\ Warranted(e) /\ ChannelInv'
               /\ \A m \in Lane : \A j \in Steps(m) :
                     Heard(m, j)' = IF e.kind # "Error" /\ m = e.lane /\ j = e.index
                                    THEN Heard(m, j) \cup {Rank(e)} ELSE Heard(m, j)
               /\ e.kind # "Error" =>
                     /\ Rank(e) \notin Heard(e.lane, e.index)
                     /\ \A r \in Told(e.lane, e.index) : r < Rank(e) => r \in Heard(e.lane, e.index)
<1> DEFINE N == Len(events)
           q == Tail(events)
           e == events[1]
<1>1. /\ events \in Seq(Event) /\ q \in Seq(Event) /\ N \in Nat /\ N >= 1 /\ N <= Buffer
      /\ DOMAIN events = 1 .. N /\ DOMAIN q = 1 .. N - 1 /\ Len(q) = N - 1
      /\ \A k \in 1 .. N - 1 : q[k] = events[k + 1]
      /\ Head1 = e /\ e \in Event
  <2>1. events \in Seq(Event) /\ Len(events) <= Buffer
    BY DEF ChannelInv
  <2>2. N \in Nat /\ N >= 1 /\ DOMAIN events = 1 .. N /\ Head1 = e /\ e \in Event
    BY <2>1 DEF Head1
  <2>3. q \in Seq(Event) /\ Len(q) = N - 1
    BY <2>1
  <2>4. DOMAIN q = 1 .. N - 1 /\ \A k \in 1 .. N - 1 : q[k] = events[k + 1]
    BY <2>1, <2>2, <2>3
  <2> QED
    BY <2>1, <2>2, <2>3, <2>4
<1>2. Buffer \in Nat
  BY BoundsAssumption
<1>3. events' = q
  OBVIOUS
<1>4. \A k \in DOMAIN events : Warranted(events[k])
  BY DEF ChannelInv
<1>5. Warranted(e)
  BY <1>1, <1>4
<1> HIDE DEF N, q, e
<1>6. \A m \in Lane : \A j \in Steps(m) : Told(m, j)' = Told(m, j)
  BY DEF Told, IsSettled
<1>7. ASSUME NEW m \in Lane, NEW j \in Steps(m)
      PROVE  /\ \A k \in Of(m, j)' : k \in 1 .. N - 1 /\ k + 1 \in Of(m, j) /\ q[k] = events[k + 1]
             /\ \A k \in Of(m, j) : k # 1 => k - 1 \in Of(m, j)' /\ q[k - 1] = events[k]
             /\ \A k \in Of(m, j) : k \in 1 .. N
             /\ 1 \in Of(m, j) <=> e.kind # "Error" /\ m = e.lane /\ j = e.index
  <2>1. Of(m, j)' = {k \in 1 .. N - 1 : /\ q[k].kind # "Error"
                                        /\ q[k].lane = m /\ q[k].index = j}
    BY <1>1, <1>3 DEF Of
  <2>2. Of(m, j) = {k \in 1 .. N : /\ events[k].kind # "Error"
                                   /\ events[k].lane = m /\ events[k].index = j}
    BY <1>1 DEF Of
  <2>3. \A k \in Of(m, j)' : k \in 1 .. N - 1 /\ k + 1 \in Of(m, j) /\ q[k] = events[k + 1]
    <3>1. \A k \in 1 .. N - 1 : k + 1 \in 1 .. N
      BY <1>1
    <3> QED
      BY <1>1, <2>1, <2>2, <3>1
  <2>4. \A k \in Of(m, j) : k # 1 => k - 1 \in Of(m, j)' /\ q[k - 1] = events[k]
    <3>1. \A k \in 1 .. N : k # 1 => k - 1 \in 1 .. N - 1 /\ (k - 1) + 1 = k
      BY <1>1
    <3>2. \A k \in 1 .. N : k # 1 => q[k - 1] = events[k]
      BY <1>1, <3>1
    <3> QED
      BY <2>1, <2>2, <3>1, <3>2
  <2>5. 1 \in Of(m, j) <=> e.kind # "Error" /\ m = e.lane /\ j = e.index
    BY <1>1, <2>2 DEF e
  <2> QED
    BY <2>2, <2>3, <2>4, <2>5
<1>8. \A m \in Lane : \A j \in Steps(m) : InLine(m, j)
  BY DEF ChannelInv
<1>9. ASSUME NEW m \in Lane, NEW j \in Steps(m) PROVE InLine(m, j)'
  <2>1. ASSUME NEW a \in Of(m, j)', NEW b \in Of(m, j)', a < b PROVE Rank(q[a]) < Rank(q[b])
    <3>1. /\ a \in 1 .. N - 1 /\ b \in 1 .. N - 1 /\ a + 1 \in Of(m, j) /\ b + 1 \in Of(m, j)
          /\ q[a] = events[a + 1] /\ q[b] = events[b + 1]
      BY <1>7
    <3>2. a + 1 < b + 1
      BY <2>1, <3>1, <1>1
    <3> HIDE DEF Rank
    <3> QED
      BY <3>1, <3>2, <1>8 DEF InLine
  <2> QED
    BY <2>1, <1>3 DEF InLine
<1>10. ASSUME NEW x \in Event, Warranted(x) PROVE Warranted(x)'
  BY <1>6, <1>10 DEF Warranted, Event
<1>11. ASSUME NEW m \in Lane, NEW j \in Steps(m)
       PROVE  /\ Heard(m, j)' = IF 1 \in Of(m, j) THEN Heard(m, j) \cup {Rank(e)} ELSE Heard(m, j)
              /\ 1 \in Of(m, j) => /\ Rank(e) \notin Heard(m, j)
                                   /\ \A r \in Told(m, j) : r < Rank(e) => r \in Heard(m, j)
  <2> DEFINE A == {Rank(events[k]) : k \in Of(m, j)}
             B == {Rank(q[k]) : k \in Of(m, j)'}
  <2>1. Heard(m, j) = Told(m, j) \ A
    BY DEF Heard
  <2>2. Heard(m, j)' = Told(m, j) \ B
    BY <1>3, <1>6 DEF Heard
  <2>3. B \subseteq A
    <3> HIDE DEF Rank
    <3> QED BY <1>7
  <2>4. CASE 1 \notin Of(m, j)
    <3>1. A \subseteq B
      <4> HIDE DEF Rank
      <4> QED BY <1>7, <2>4
    <3> HIDE DEF A, B
    <3> QED
      BY <2>1, <2>2, <2>3, <2>4, <3>1
  <2>5. CASE 1 \in Of(m, j)
    <3>1. m = e.lane /\ j = e.index /\ e.kind # "Error"
      BY <1>7, <2>5
    <3>2. Rank(e) \in Told(m, j)
      BY <1>5, <3>1 DEF Warranted
    <3>3. Told(m, j) \in SUBSET (0 .. MaxChanges + 1) /\ MaxChanges \in Nat
      BY ToldAre
    <3>4. A = B \cup {Rank(e)}
      <4> HIDE DEF Rank
      <4>1. A \subseteq B \cup {Rank(e)}
        BY <1>7 DEF e
      <4>2. Rank(e) \in A
        BY <2>5 DEF e
      <4> QED
        BY <4>1, <4>2, <2>3
    <3>5. \A k \in Of(m, j)' : Rank(e) < Rank(q[k])
      <4>1. ASSUME NEW k \in Of(m, j)' PROVE Rank(e) < Rank(q[k])
        <5>1. k \in 1 .. N - 1 /\ k + 1 \in Of(m, j) /\ q[k] = events[k + 1]
          BY <1>7
        <5>2. 1 < k + 1
          BY <5>1, <1>1
        <5> HIDE DEF Rank
        <5> QED
          BY <5>1, <5>2, <1>8, <2>5 DEF InLine, e
      <4> QED
        BY <4>1
    <3>6. \A b \in B : Rank(e) < b
      <4> HIDE DEF Rank
      <4> QED BY <3>5
    <3> HIDE DEF A, B, Rank
    <3>7. Rank(e) \notin B
      BY <3>2, <3>3, <3>6
    <3>8. \A r \in Told(m, j) : r < Rank(e) => r \notin A
      BY <3>2, <3>3, <3>4, <3>6
    <3> QED
      BY <2>1, <2>2, <2>5, <3>2, <3>4, <3>7, <3>8
  <2> QED
    BY <2>4, <2>5
<1>12. ChannelInv'
  <2>1. \A k \in DOMAIN events' : \A x : x = events'[k] => Warranted(x)'
    <3>1. \A k \in 1 .. N - 1 : k + 1 \in 1 .. N
      BY <1>1
    <3>2. \A k \in 1 .. N : events[k] \in Event /\ Warranted(events[k])
      BY <1>1, <1>4
    <3> QED
      BY <1>1, <1>3, <1>10, <3>1, <3>2
  <2>2. events' \in Seq(Event) /\ Len(events') <= Buffer
    BY <1>1, <1>2, <1>3
  <2>3. ASSUME NEW m \in Lane, NEW j \in Steps(m) PROVE Complete(m, j)'
    <3>1. Complete(m, j) /\ MaxChanges \in Nat /\ Told(m, j) \in SUBSET (0 .. MaxChanges + 1)
      BY ToldAre, BoundsAssumption DEF ChannelInv
    <3>2. 1 \in Of(m, j) => Rank(e) \in Told(m, j)
      BY <1>5, <1>7 DEF Warranted
    <3>3. Heard(m, j) \subseteq Told(m, j)
      BY DEF Heard
    <3>4. Told(m, j)' = Told(m, j)
      BY <1>6
    <3> HIDE DEF Rank
    <3>5. CASE 1 \notin Of(m, j)
      BY <1>11, <3>1, <3>4, <3>5 DEF Complete
    <3>6. CASE 1 \in Of(m, j) /\ Final \in Heard(m, j)
      BY <1>11, <3>1, <3>2, <3>6 DEF Complete
    <3>7. CASE 1 \in Of(m, j) /\ Final \notin Heard(m, j)
      <4>1. Final \in Heard(m, j)' => Rank(e) = Final
        BY <1>11, <3>7
      <4>2. Rank(e) = Final => \A r \in Told(m, j) : r = Final \/ r < Rank(e)
        BY <3>1
      <4>3. Rank(e) = Final => Heard(m, j) \cup {Rank(e)} = Told(m, j)
        BY <1>11, <3>2, <3>3, <3>7, <4>2
      <4> QED
        BY <1>11, <3>4, <3>7, <4>1, <4>3 DEF Complete
    <3> QED
      BY <3>5, <3>6, <3>7
  <2> QED
    BY <1>9, <2>1, <2>2, <2>3 DEF ChannelInv
<1>13. e.kind # "Error" => e.lane \in Lane /\ e.index \in Steps(e.lane) /\ 1 \in Of(e.lane, e.index)
  BY <1>1, <1>5, <1>7 DEF Event, Warranted
<1> HIDE DEF Rank
<1>14. \A m \in Lane : \A j \in Steps(m) :
         Heard(m, j)' = IF e.kind # "Error" /\ m = e.lane /\ j = e.index
                        THEN Heard(m, j) \cup {Rank(e)} ELSE Heard(m, j)
  BY <1>7, <1>11
<1> QED
  BY <1>1, <1>5, <1>11, <1>12, <1>13, <1>14

\* The region fits a terminal of three rows or more.
LEMMA RegionFits ==
    ASSUME NEW f
    PROVE  RegionLines(f, 1) \in Nat /\ (Height >= 3 => RegionLines(f, 1) <= Height - 1)
<1> DEFINE n == Cardinality(Rows(f))
<1>1. n \in Nat
  <2>1. IsFiniteSet(Lane \X (1 .. MaxShown + 1))
    <3>1. IsFiniteSet(1 .. MaxShown + 1)
      BY FS_Interval, BoundsAssumption
    <3> QED
      BY <3>1, LaneAssumption, FS_Product
  <2>2. Rows(f) \subseteq Lane \X (1 .. MaxShown + 1)
    BY DEF Rows
  <2> QED
    BY <2>1, <2>2, FS_Subset, FS_CardinalityType
<1>2. Height \in Nat
  BY BoundsAssumption
<1> DEFINE room == Height - 2
           M == Max({room, 1})
<1>3. M \in Int /\ M >= 1 /\ M >= room /\ (M = room \/ M = 1)
  <2>1. \E x \in {room, 1} : \A y \in {room, 1} : x >= y
    BY <1>2
  <2> QED
    BY <1>2, <2>1 DEF Max
<1> HIDE DEF M, n
<1>4. RegionLines(f, 1) = (IF n >= Height - 1 THEN M ELSE n) + 1
  BY <1>2 DEF RegionLines, n, M
<1> QED
  BY <1>1, <1>2, <1>3, <1>4

\* So that drawing it anew leaves nothing behind.
LEMMA Painted ==
    ASSUME drawn \in Nat, smeared \in BOOLEAN, Height >= 3 => drawn <= Height - 1 /\ ~ smeared,
           NEW f, smeared' = (smeared \/ Smears), drawn' = drawn \/ drawn' = RegionLines(f, 1) \/ drawn' = 0
    PROVE  drawn' \in Nat /\ smeared' \in BOOLEAN /\ (Height >= 3 => drawn' <= Height - 1 /\ ~ smeared')
<1>1. Height \in Nat
  BY BoundsAssumption
<1>2. Height >= 3 => ~ Smears
  BY <1>1 DEF Smears
<1>3. drawn' \in Nat /\ (Height >= 3 => drawn' <= Height - 1)
  BY <1>1, RegionFits
<1>4. Smears \in BOOLEAN
  BY DEF Smears
<1> QED
  BY <1>2, <1>3, <1>4

\* What was shown is shown when more was heard.
LEMMA StillShown ==
    ASSUME UNCHANGED <<at, sent>>, NEW b \in Line, Shown(b),
           \A m \in Lane : \A j \in Steps(m) :
              /\ Heard(m, j) \subseteq Heard(m, j)'
              /\ Out(m, j) => Out(m, j)'
    PROVE  Shown(b)'
<1>1. CASE b.kind = "block"
  <2>1. b.lane \in Lane /\ b.index \in Steps(b.lane)
    BY <1>1 DEF Shown, Line
  <2> QED
    BY <1>1, <2>1 DEF Shown
<1>2. CASE b.kind # "block"
  BY <1>2 DEF Shown
<1> QED
  BY <1>1, <1>2

\* An error or the summary is no block.
LEMMA PrintsPlain ==
    ASSUME PrintedInv, UNCHANGED <<at, sent>>, NEW kind \in {"error", "summary"},
           printed' = printed \/ printed' = Append(printed, Plain(kind)),
           \A m \in Lane : \A j \in Steps(m) :
              /\ Heard(m, j) \subseteq Heard(m, j)'
              /\ Out(m, j) <=> Out(m, j)'
    PROVE  /\ PrintedInv'
           /\ \A k \in DOMAIN printed' :
                 \/ printed'[k] = printed[k] /\ k \in DOMAIN printed
                 \/ printed'[k] = Plain(kind) /\ k = Len(printed')
           /\ printed' = printed => Len(printed') = Len(printed)
<1>1. printed \in Seq(Line) /\ DOMAIN printed = 1 .. Len(printed) /\ Len(printed) \in Nat
  BY DEF PrintedInv
<1>2. Plain(kind) \in Line /\ Plain(kind).kind # "block"
  BY DEF Plain, Line
<1>3. /\ printed' \in Seq(Line)
      /\ \A k \in DOMAIN printed : k \in DOMAIN printed' /\ printed'[k] = printed[k]
      /\ \A k \in DOMAIN printed' : k \in DOMAIN printed \/ (printed'[k] = Plain(kind) /\ k = Len(printed'))
  <2>1. CASE printed' = printed
    BY <1>1, <2>1
  <2>2. CASE printed' = Append(printed, Plain(kind))
    <3> HIDE DEF Plain
    <3>1. /\ printed' \in Seq(Line) /\ Len(printed') = Len(printed) + 1
          /\ DOMAIN printed' = 1 .. Len(printed) + 1
          /\ \A k \in 1 .. Len(printed) : printed'[k] = printed[k]
          /\ printed'[Len(printed) + 1] = Plain(kind)
      BY <1>1, <1>2, <2>2, AppendProperties
    <3> QED
      BY <1>1, <3>1
  <2> QED
    BY <2>1, <2>2
<1>4. \A l \in Lane : BlocksOf(l)' = BlocksOf(l)
  BY <1>2, <1>3 DEF BlocksOf
<1>5. \A l \in Lane : \A k \in BlocksOf(l) : printed'[k].index = printed[k].index
  BY <1>3 DEF BlocksOf
<1>6. DeclarationOrder'
  BY <1>4, <1>5 DEF DeclarationOrder, PrintedInv
<1>7. \A l \in Lane : \A i \in Steps(l) :
         Out(l, i)' => \E k \in BlocksOf(l)' : printed'[k].index = i
  <2>1. \A l \in Lane : \A i \in Steps(l) : Out(l, i) => \E k \in BlocksOf(l) : printed[k].index = i
    BY DEF PrintedInv
  <2> QED
    BY <1>4, <1>5, <2>1
<1>8. \A k \in DOMAIN printed' : \A b : b = printed'[k] => Shown(b)'
  <2>1. \A k \in DOMAIN printed : printed[k] \in Line /\ Shown(printed[k])
    BY <1>1 DEF PrintedInv
  <2>2. ASSUME NEW b, b = Plain(kind) PROVE Shown(b)'
    BY <1>2, <2>2 DEF Shown
  <2> QED
    BY <1>3, <2>1, <2>2, StillShown
<1>9. PrintedInv'
  BY <1>3, <1>6, <1>7, <1>8 DEF PrintedInv
<1> QED
  BY <1>3, <1>9

\* What is held back is not touched by the beginning of a step or an error.
LEMMA HeldSame ==
    ASSUME SequencerInv, UNCHANGED <<at, sent, pending, cursor, done>>,
           \A m \in Lane : \A j \in Steps(m) : \A n \in 1 .. MaxChanges + 1 :
              n \in Heard(m, j) <=> n \in Heard(m, j)'
    PROVE  SequencerInv'
<1>1. MaxChanges \in Nat
  BY BoundsAssumption
<1>2. ASSUME NEW l \in Lane PROVE LaneInv(l)'
  <2>1. LaneInv(l)
    BY DEF SequencerInv
  <2>2. ASSUME NEW i \in Steps(l), Fits(BlockOf(l, i), l, i)
          PROVE  Fits(BlockOf(l, i), l, i)'
    <3>1. BlockOf(l, i)' = BlockOf(l, i)
      BY DEF BlockOf, Indices
    <3>2. \A n \in 1 .. MaxChanges : n \in 1 .. MaxChanges + 1
      BY <1>1
    <3>3. Final \in 1 .. MaxChanges + 1
      BY <1>1
    <3> HIDE DEF Final
    <3> QED
      BY <2>2, <3>1, <3>2, <3>3 DEF Fits
  <2>3. Final \in 1 .. MaxChanges + 1
    BY <1>1
  <2> QED
    BY <2>1, <2>2, <2>3 DEF LaneInv
<1> QED
  BY <1>2 DEF SequencerInv

\* The engine is not touched by the consumer.
LEMMA EngineSame ==
    ASSUME EngineInv, UNCHANGED <<engine, closed>>
    PROVE  EngineInv'
<1>1. UNCHANGED <<at, sent, cancelled, main, closed>>
  BY DEF engine
<1>2. \A l \in Lane : LaneOver(l) => LaneOver(l)'
  BY <1>1 DEF LaneOver, Over
<1> QED
  BY <1>1, <1>2 DEF EngineInv

\* The region stays right when no more is heard to begin or to end.
LEMMA RegionSame ==
    ASSUME RegionInv, UNCHANGED <<running, finished>>,
           drawn' \in Nat, smeared' \in BOOLEAN, Height >= 3 => drawn' <= Height - 1 /\ ~ smeared',
           \A m \in Lane : \A j \in Steps(m) : \A n \in {0, Final} :
              n \in Heard(m, j) <=> n \in Heard(m, j)'
    PROVE  RegionInv'
<1>1. \A p \in PlanSteps : p[1] \in Lane /\ p[2] \in Steps(p[1])
  BY StepsAssumption DEF PlanSteps, Steps
<1>2. {p \in PlanSteps : Final \in Heard(p[1], p[2])'} = {p \in PlanSteps : Final \in Heard(p[1], p[2])}
  BY <1>1
<1>3. \A m \in Lane : running'[m] = {j \in Steps(m) : 0 \in Heard(m, j)' /\ Final \notin Heard(m, j)'}
  BY DEF RegionInv
<1> QED
  BY <1>2, <1>3 DEF RegionInv

LEMMA ExitStep ==
    ASSUME IInv, Exit
    PROVE  IInv'
<1>1. /\ EngineInv /\ ChannelInv /\ RegionInv /\ SequencerInv /\ PrintedInv /\ EndInv
      /\ UNCHANGED <<at, sent, cancelled, events, closed, running, finished, pending, cursor,
                     drawn, smeared, done>>
      /\ main \in {"succeeded", "failed"} /\ main' = "over" /\ done
      /\ printed' = printed \/ printed' = Append(printed, Plain("summary"))
  BY DEF IInv, Exit
<1>2. EngineInv'
  <2>1. \A l \in Lane : LaneOver(l) => LaneOver(l)'
    BY <1>1 DEF LaneOver, Over
  <2> QED
    BY <1>1, <2>1 DEF EngineInv
<1>3. ChannelInv' /\ \A m \in Lane : \A j \in Steps(m) : Heard(m, j)' = Heard(m, j)
  BY <1>1, ChannelSame
<1>4. RegionInv'
  BY <1>1, <1>3, RegionSame DEF RegionInv
<1>5. SequencerInv'
  BY <1>1, <1>3, HeldSame
<1>6. /\ PrintedInv'
      /\ \A k \in DOMAIN printed' :
            \/ printed'[k] = printed[k] /\ k \in DOMAIN printed
            \/ printed'[k] = Plain("summary") /\ k = Len(printed')
  <2>1. \A m \in Lane : \A j \in Steps(m) : Out(m, j) <=> Out(m, j)'
    BY <1>1, <1>3 DEF Out
  <2> HIDE DEF Plain
  <2> QED
    BY <1>1, <1>3, <2>1, PrintsPlain
<1>7. EndInv'
  BY <1>1, <1>6 DEF EndInv
<1> QED
  BY <1>2, <1>3, <1>4, <1>5, <1>6, <1>7 DEF IInv

LEMMA TickStep ==
    ASSUME IInv, Tick
    PROVE  IInv'
<1>1. /\ EngineInv /\ ChannelInv /\ RegionInv /\ SequencerInv /\ PrintedInv /\ EndInv
      /\ UNCHANGED <<engine, events, closed, running, finished, pending, cursor, printed, done>>
      /\ \/ UNCHANGED <<smeared, drawn>>
         \/ smeared' = (smeared \/ Smears) /\ drawn' = RegionLines(running, 1)
  BY DEF IInv, Tick, Repaint
<1>2. UNCHANGED <<at, sent, main>>
  BY <1>1 DEF engine
<1>3. EngineInv'
  BY <1>1, EngineSame
<1>4. ChannelInv' /\ \A m \in Lane : \A j \in Steps(m) : Heard(m, j)' = Heard(m, j)
  BY <1>1, <1>2, ChannelSame
<1>5. drawn' \in Nat /\ smeared' \in BOOLEAN /\ (Height >= 3 => drawn' <= Height - 1 /\ ~ smeared')
  <2>1. drawn \in Nat /\ smeared \in BOOLEAN /\ (Height >= 3 => drawn <= Height - 1 /\ ~ smeared)
    BY <1>1 DEF RegionInv
  <2> QED
    BY <1>1, <2>1, Painted
<1>6. RegionInv'
  BY <1>1, <1>4, <1>5, RegionSame
<1>7. SequencerInv'
  BY <1>1, <1>2, <1>4, HeldSame
<1>8. PrintedInv'
  <2>1. \A m \in Lane : \A j \in Steps(m) : Out(m, j) <=> Out(m, j)'
    BY <1>1, <1>4 DEF Out
  <2> QED
    BY <1>1, <1>2, <1>4, <2>1, PrintsPlain
<1>9. EndInv'
  BY <1>1, <1>2 DEF EndInv
<1> QED
  BY <1>3, <1>4, <1>6, <1>7, <1>8, <1>9 DEF IInv

\* What all steps of the consumer that take an event have in common.
LEMMA Takes ==
    ASSUME IInv, NEW kinds, Take(kinds), UNCHANGED <<engine, closed, done>>
    PROVE  LET e == Head1
           IN  /\ EngineInv' /\ ChannelInv' /\ e \in Event /\ e.kind \in kinds /\ Warranted(e)
               /\ e.lane \in Lane /\ e.index \in Steps(e.lane) /\ ~ done /\ UNCHANGED <<at, sent, main>>
               /\ main # "over" /\ \A k \in DOMAIN printed : printed[k].kind # "summary"
               /\ \A m \in Lane : \A j \in Steps(m) :
                     Heard(m, j)' = IF e.kind # "Error" /\ m = e.lane /\ j = e.index
                                    THEN Heard(m, j) \cup {Rank(e)} ELSE Heard(m, j)
               /\ e.kind # "Error" =>
                     /\ Rank(e) \notin Heard(e.lane, e.index)
                     /\ Rank(e) \in Told(e.lane, e.index)
                     /\ Final \notin Heard(e.lane, e.index)
                     /\ \A r \in Told(e.lane, e.index) : r < Rank(e) => r \in Heard(e.lane, e.index)
<1>1. EngineInv /\ ChannelInv /\ EndInv
  BY DEF IInv
<1>2. ~ done /\ events # <<>> /\ Head1.kind \in kinds /\ events' = Tail(events)
  BY DEF Take
<1>3. UNCHANGED <<at, sent, main>>
  BY DEF engine
<1>4. main # "over" /\ \A k \in DOMAIN printed : printed[k].kind # "summary"
  BY <1>1, <1>2 DEF EndInv
<1> DEFINE e == Head1
<1> HIDE DEF e, Rank
<1>5. /\ e \in Event /\ Warranted(e) /\ ChannelInv'
      /\ \A m \in Lane : \A j \in Steps(m) :
            Heard(m, j)' = IF e.kind # "Error" /\ m = e.lane /\ j = e.index
                           THEN Heard(m, j) \cup {Rank(e)} ELSE Heard(m, j)
      /\ e.kind # "Error" =>
            /\ Rank(e) \notin Heard(e.lane, e.index)
            /\ \A r \in Told(e.lane, e.index) : r < Rank(e) => r \in Heard(e.lane, e.index)
  BY <1>1, <1>2, <1>3, Received DEF e
<1>6. e.lane \in Lane /\ e.index \in Steps(e.lane) /\ (e.kind # "Error" => Rank(e) \in Told(e.lane, e.index))
  BY <1>5 DEF Event, Warranted
<1>7. EngineInv'
  BY <1>1, EngineSame
<1>8. e.kind # "Error" => Final \notin Heard(e.lane, e.index)
  BY <1>1, <1>5, <1>6 DEF ChannelInv, Complete
<1> QED
  BY <1>2, <1>3, <1>4, <1>5, <1>6, <1>7, <1>8 DEF e

LEMMA ErrorStep ==
    ASSUME IInv, HandleError
    PROVE  IInv'
<1> DEFINE e == Head1
<1> HIDE DEF e, Rank
<1>1. /\ RegionInv /\ SequencerInv /\ PrintedInv /\ EndInv
      /\ UNCHANGED <<engine, closed, running, finished, pending, cursor, drawn, done>>
      /\ Take({"Error"}) /\ printed' = Append(printed, Plain("error")) /\ smeared' = (smeared \/ Smears)
  BY DEF IInv, HandleError
<1>2. /\ EngineInv' /\ ChannelInv' /\ ~ done /\ UNCHANGED <<at, sent, main>> /\ main # "over"
      /\ \A k \in DOMAIN printed : printed[k].kind # "summary"
      /\ \A m \in Lane : \A j \in Steps(m) : Heard(m, j)' = Heard(m, j)
  <2>1. e.kind = "Error"
    BY <1>1 DEF Take, e
  <2> QED
    BY <1>1, <2>1, Takes DEF e
<1>3. RegionInv'
  <2>1. drawn' \in Nat /\ smeared' \in BOOLEAN /\ (Height >= 3 => drawn' <= Height - 1 /\ ~ smeared')
    <3>1. drawn \in Nat /\ smeared \in BOOLEAN /\ (Height >= 3 => drawn <= Height - 1 /\ ~ smeared)
      BY <1>1 DEF RegionInv
    <3> QED
      BY <1>1, <3>1, Painted
  <2> QED
    BY <1>1, <1>2, <2>1, RegionSame
<1>4. SequencerInv'
  BY <1>1, <1>2, HeldSame
<1>5. /\ PrintedInv'
      /\ \A k \in DOMAIN printed' :
            \/ printed'[k] = printed[k] /\ k \in DOMAIN printed
            \/ printed'[k] = Plain("error") /\ k = Len(printed')
  <2>1. \A m \in Lane : \A j \in Steps(m) : Out(m, j) <=> Out(m, j)'
    BY <1>1, <1>2 DEF Out
  <2> HIDE DEF Plain
  <2> QED
    BY <1>1, <1>2, <2>1, PrintsPlain
<1>6. EndInv'
  <2>1. \A k \in DOMAIN printed' : printed'[k].kind # "summary"
    BY <1>2, <1>5 DEF Plain
  <2> QED
    BY <1>1, <1>2, <2>1 DEF EndInv
<1> QED
  BY <1>2, <1>3, <1>4, <1>5, <1>6 DEF IInv

LEMMA BeginHeard ==
    ASSUME IInv, HandleBegin
    PROVE  IInv'
<1> DEFINE e == Head1
<1> HIDE DEF e
<1>0. MaxChanges \in Nat
  BY BoundsAssumption
<1>1. /\ RegionInv /\ SequencerInv /\ PrintedInv /\ EndInv /\ EngineInv
      /\ UNCHANGED <<engine, closed, finished, pending, cursor, printed, done>>
      /\ Take({"Begin"}) /\ smeared' = (smeared \/ Smears) /\ drawn' = RegionLines(running', 1)
      /\ running' = [running EXCEPT ![e.lane] = @ \cup {e.index}]
  BY DEF IInv, HandleBegin, Repaint, Began, e
<1>2. e.kind = "Begin" /\ Rank(e) = 0
  BY <1>1 DEF Take, e
<1> HIDE DEF Rank
<1>3. /\ EngineInv' /\ ChannelInv' /\ ~ done /\ UNCHANGED <<at, sent, main>> /\ main # "over"
      /\ \A k \in DOMAIN printed : printed[k].kind # "summary"
      /\ e.lane \in Lane /\ e.index \in Steps(e.lane) /\ 0 \notin Heard(e.lane, e.index)
      /\ \A m \in Lane : \A j \in Steps(m) :
            Heard(m, j)' = IF m = e.lane /\ j = e.index THEN Heard(m, j) \cup {0} ELSE Heard(m, j)
  BY <1>1, <1>2, Takes DEF e
<1>4. Final \notin Heard(e.lane, e.index)
  BY <1>1, <1>2, <1>3, Takes DEF e
<1>5. RegionInv'
  <2>1. drawn' \in Nat /\ smeared' \in BOOLEAN /\ (Height >= 3 => drawn' <= Height - 1 /\ ~ smeared')
    <3>1. drawn \in Nat /\ smeared \in BOOLEAN /\ (Height >= 3 => drawn <= Height - 1 /\ ~ smeared)
      BY <1>1 DEF RegionInv
    <3> QED
      BY <1>1, <3>1, Painted
  <2>2. Final # 0
    BY <1>0
  <2> HIDE DEF Final
  <2>3. \A m \in Lane : \A j \in Steps(m) :
           /\ Final \in Heard(m, j)' <=> Final \in Heard(m, j)
           /\ 0 \in Heard(m, j)' <=> 0 \in Heard(m, j) \/ (m = e.lane /\ j = e.index)
    BY <1>3, <2>2
  <2>4. Final \notin Heard(e.lane, e.index)
    BY <1>4
  <2>5. ASSUME NEW m \in Lane
        PROVE  running'[m] = {j \in Steps(m) : 0 \in Heard(m, j)' /\ Final \notin Heard(m, j)'}
    <3>1. running[m] = {j \in Steps(m) : 0 \in Heard(m, j) /\ Final \notin Heard(m, j)}
          /\ DOMAIN running = Lane
      BY <1>1 DEF RegionInv
    <3>2. CASE m # e.lane
      BY <1>1, <2>3, <3>1, <3>2
    <3>3. CASE m = e.lane
      <4>1. running'[m] = running[m] \cup {e.index}
        BY <1>1, <3>1, <3>3
      <4> QED
        BY <1>3, <2>3, <2>4, <3>1, <3>3, <4>1
    <3> QED
      BY <3>2, <3>3
  <2>6. {p \in PlanSteps : Final \in Heard(p[1], p[2])'} = {p \in PlanSteps : Final \in Heard(p[1], p[2])}
    <3>1. \A p \in PlanSteps : p[1] \in Lane /\ p[2] \in Steps(p[1])
      BY StepsAssumption DEF PlanSteps, Steps
    <3> QED
      BY <2>3, <3>1
  <2>7. DOMAIN running' = Lane
    BY <1>1 DEF RegionInv
  <2> QED
    BY <1>1, <2>1, <2>5, <2>6, <2>7 DEF RegionInv
<1>6. SequencerInv'
  <2>1. \A m \in Lane : \A j \in Steps(m) : \A n \in 1 .. MaxChanges + 1 :
           n \in Heard(m, j) <=> n \in Heard(m, j)'
    BY <1>3
  <2> QED
    BY <1>1, <1>3, <2>1, HeldSame
<1>7. PrintedInv'
  <2>1. \A m \in Lane : \A j \in Steps(m) :
           (Out(m, j) <=> Out(m, j)') /\ Heard(m, j) \subseteq Heard(m, j)'
    BY <1>1, <1>3 DEF Out
  <2> QED
    BY <1>1, <1>3, <2>1, PrintsPlain
<1>8. EndInv'
  BY <1>1, <1>3 DEF EndInv
<1> QED
  BY <1>3, <1>5, <1>6, <1>7, <1>8 DEF IInv

\* A change that is heard is the next one of its block.
LEMMA ChangeHeard ==
    ASSUME IInv, HandleChange
    PROVE  IInv'
<1>e. PICK e : e = Head1
  OBVIOUS
<1> DEFINE l == e.lane
           i == e.index
           n == e.nr
           b == BlockOf(l, i)
           c == [b EXCEPT !.changes = Append(@, n)]
<1>0. MaxChanges \in Nat
  BY BoundsAssumption
<1>1. /\ RegionInv /\ SequencerInv /\ PrintedInv /\ EndInv /\ EngineInv
      /\ UNCHANGED <<engine, closed, running, finished, cursor, printed, drawn, smeared, done>>
      /\ Take({"Change"}) /\ pending' = Collect(l, i, c)
  BY <1>e DEF IInv, HandleChange
<1>2. e.kind = "Change" /\ Rank(e) = n
  BY <1>e, <1>1 DEF Take
<1> HIDE DEF Rank, b, c
<1>3. /\ EngineInv' /\ ChannelInv' /\ ~ done /\ UNCHANGED <<at, sent, main>> /\ main # "over"
      /\ e \in Event /\ Warranted(e) /\ l \in Lane /\ i \in Steps(l)
      /\ n \notin Heard(l, i) /\ n \in Told(l, i) /\ Final \notin Heard(l, i)
      /\ \A r \in Told(l, i) : r < n => r \in Heard(l, i)
      /\ \A m \in Lane : \A j \in Steps(m) :
            Heard(m, j)' = IF m = l /\ j = i THEN Heard(m, j) \cup {n} ELSE Heard(m, j)
  BY <1>e, <1>1, <1>2, Takes
<1>4. n \in 1 .. MaxChanges
  BY <1>0, <1>2, <1>3 DEF Event, Warranted
<1>5. Fits(b, l, i) /\ cursor[l] \in Nat /\ i \in Nat /\ i >= cursor[l]
  <2>1. LaneInv(l)
    BY <1>1, <1>3 DEF SequencerInv
  <2>2. cursor[l] \in Nat /\ i \in Nat
    BY <2>1, <1>3, StepsAssumption DEF LaneInv, Steps
  <2>3. ~ (i < cursor[l])
    BY <2>1, <1>3 DEF LaneInv
  <2> QED
    BY <2>1, <2>2, <2>3, <1>3 DEF LaneInv, b
<1> DEFINE k == Len(b.changes)
<1>6. /\ b \in BlockType /\ b.changes \in Seq(1 .. MaxChanges) /\ k \in Nat
      /\ b.changes = [x \in 1 .. k |-> x] /\ ~ b.done
  BY <1>3, <1>5 DEF Fits, BlockType
<1>7. n = k + 1
  <2>1. \A x \in 1 .. MaxChanges : x \in Heard(l, i) <=> x <= k
    BY <1>5 DEF Fits
  <2>2. n > k
    BY <2>1, <1>3, <1>4, <1>6
  <2>3. CASE n > k + 1
    <3>1. k + 1 \in 1 .. MaxChanges
      BY <1>0, <1>4, <1>6, <2>3
    <3>2. k + 1 \in Told(l, i)
      <4>1. EngineInv /\ sent[l][i] \in Nat /\ \A x \in 1 .. MaxChanges : x \in Told(l, i) <=> x <= sent[l][i]
        BY <1>1, <1>3, ToldAre
      <4> QED
        BY <1>3, <1>4, <1>6, <2>3, <3>1, <4>1
    <3>3. k + 1 \in Heard(l, i)
      BY <1>3, <2>3, <3>2
    <3> QED
      BY <2>1, <3>1, <3>3, <1>6
  <2> QED
    BY <2>2, <2>3, <1>4, <1>6
<1>8. /\ c \in BlockType /\ c.changes = Append(b.changes, n) /\ c.changes \in Seq(1 .. MaxChanges)
      /\ Len(c.changes) = k + 1 /\ ~ c.done
      /\ c.changes = [x \in 1 .. Len(c.changes) |-> x]
  <2> DEFINE s == b.changes
             t == Append(s, n)
  <2> HIDE DEF s
  <2>1. s \in Seq(1 .. MaxChanges) /\ s = [x \in 1 .. k |-> x] /\ Len(s) = k
    BY <1>6 DEF s
  <2>2. /\ t \in Seq(1 .. MaxChanges) /\ Len(t) = k + 1 /\ DOMAIN t = 1 .. k + 1
        /\ \A x \in 1 .. k : t[x] = s[x]
        /\ t[k + 1] = n
    BY <1>4, <2>1, AppendProperties
  <2> HIDE DEF t
  <2>3. t = [x \in 1 .. k + 1 |-> x]
    <3>1. ASSUME NEW x \in 1 .. k + 1 PROVE t[x] = x
      <4>1. k \in Nat /\ n = k + 1
        BY <1>6, <1>7
      <4>2. x \in 1 .. k \/ x = k + 1
        BY <4>1
      <4> QED
        BY <2>1, <2>2, <4>1, <4>2
    <3>2. t = [x \in 1 .. k + 1 |-> t[x]]
      BY <2>2
    <3> QED
      BY <3>1, <3>2
  <2>4. c \in BlockType /\ c.changes = t /\ c.done = b.done
    BY <1>6, <2>2 DEF c, BlockType, s, t
  <2> QED
    BY <2>2, <2>3, <2>4, <1>6 DEF s, t
<1>9. /\ DOMAIN pending' = Lane /\ DOMAIN pending = Lane
      /\ \A m \in Lane : m # l => pending'[m] = pending[m]
      /\ DOMAIN pending'[l] = DOMAIN pending[l] \cup {i}
      /\ pending'[l][i] = c
      /\ \A j \in DOMAIN pending[l] : j # i => pending'[l][j] = pending[l][j]
  <2>1. DOMAIN pending = Lane
    BY <1>1 DEF SequencerInv
  <2> QED
    BY <1>1, <1>3, <2>1 DEF Collect, Indices
<1>10. SequencerInv'
  <2>1. ASSUME NEW m \in Lane PROVE LaneInv(m)'
    <3>1. LaneInv(m)
      BY <1>1 DEF SequencerInv
    <3>2. ASSUME NEW j \in Steps(m), m # l \/ j # i
          PROVE  BlockOf(m, j)' = BlockOf(m, j) /\ (j \in DOMAIN pending'[m] <=> j \in DOMAIN pending[m])
                 /\ Heard(m, j)' = Heard(m, j)
      BY <1>3, <1>9, <3>2 DEF BlockOf, Indices
    <3>3. ASSUME NEW j \in Steps(m), m # l \/ j # i, Fits(BlockOf(m, j), m, j)
          PROVE  Fits(BlockOf(m, j), m, j)'
      BY <1>3, <3>2, <3>3 DEF Fits
    <3>4. CASE m # l
      <4>1. pending'[m] = pending[m] /\ cursor' = cursor /\ done' = done
        BY <1>1, <1>9, <3>4
      <4> QED
        BY <3>1, <3>2, <3>3, <3>4, <4>1 DEF LaneInv
    <3>5. CASE m = l
      <4>1. Fits(BlockOf(l, i), l, i)'
        <5>1. BlockOf(l, i)' = c
          BY <1>9 DEF BlockOf, Indices
        <5>2. ASSUME NEW x \in 1 .. MaxChanges PROVE x \in Heard(l, i)' <=> x <= k + 1
          <6>1. x \in Heard(l, i) <=> x <= k
            BY <1>5 DEF Fits
          <6>2. x \in Heard(l, i)' <=> x \in Heard(l, i) \/ x = k + 1
            BY <1>3, <1>7
          <6> QED
            BY <6>1, <6>2, <1>0, <1>6
        <5>3. Final \notin Heard(l, i)'
          BY <1>0, <1>3, <1>4
        <5> QED
          BY <1>8, <5>1, <5>2, <5>3 DEF Fits
      <4>2. \A j \in DOMAIN pending'[l] : j \in Steps(l) /\ j >= cursor[l]
        BY <1>3, <1>5, <1>9, <3>1, <3>5 DEF LaneInv
      <4>3. cursor[l] \in DOMAIN pending'[l] => ~ pending'[l][cursor[l]].done
        BY <1>3, <1>8, <1>9, <3>1, <3>5 DEF LaneInv
      <4>4. \A j \in Steps(l) : IF j < cursor[l] THEN Final \in Heard(l, j)'
                                ELSE Fits(BlockOf(l, j), l, j)'
        <5>1. ASSUME NEW j \in Steps(l), j # i
              PROVE  IF j < cursor[l] THEN Final \in Heard(l, j)' ELSE Fits(BlockOf(l, j), l, j)'
          BY <1>3, <3>1, <3>2, <3>3, <3>5, <5>1 DEF LaneInv
        <5>2. ~ (i < cursor[l])
          BY <1>5
        <5> QED
          BY <4>1, <5>1, <5>2
      <4>5. cursor' = cursor /\ done' = done /\ cursor[l] \in 1 .. Plan[l] + HookSteps[l] + 1
        BY <1>1, <3>1, <3>5 DEF LaneInv
      <4> QED
        BY <3>5, <4>2, <4>3, <4>4, <4>5 DEF LaneInv
    <3> QED
      BY <3>4, <3>5
  <2> QED
    BY <1>1, <1>9, <2>1 DEF SequencerInv
<1>11. RegionInv'
  <2>1. \A m \in Lane : \A j \in Steps(m) : \A x \in {0, Final} :
           x \in Heard(m, j) <=> x \in Heard(m, j)'
    BY <1>0, <1>3, <1>4
  <2>2. drawn' \in Nat /\ smeared' \in BOOLEAN /\ (Height >= 3 => drawn' <= Height - 1 /\ ~ smeared')
    BY <1>1 DEF RegionInv
  <2> QED
    BY <1>1, <2>1, <2>2, RegionSame
<1>12. PrintedInv'
  <2>1. \A m \in Lane : \A j \in Steps(m) :
           (Out(m, j) <=> Out(m, j)') /\ Heard(m, j) \subseteq Heard(m, j)'
    BY <1>1, <1>3 DEF Out
  <2> QED
    BY <1>1, <1>3, <2>1, PrintsPlain
<1>13. EndInv'
  BY <1>1, <1>3 DEF EndInv
<1> QED
  BY <1>3, <1>10, <1>11, <1>12, <1>13 DEF IInv

\* The blocks that are due come out each once, in their order.
LEMMA Ordered ==
    ASSUME NEW S \in SUBSET (Nat \X Nat), IsFiniteSet(S)
    PROVE  /\ Cardinality(S) \in Nat /\ InOrder(S) \in [1 .. Cardinality(S) -> S]
           /\ \A p \in S : \E k \in 1 .. Cardinality(S) : InOrder(S)[k] = p
           /\ \A j, k \in 1 .. Cardinality(S) : j < k => Before(InOrder(S)[j], InOrder(S)[k])
<1> DEFINE B == {d \in S \X S : Before(d[1], d[2])}
           Z == [i \in 1 .. Cardinality(S) |->
                    CHOOSE n \in S : Cardinality({m \in S : <<m, n>> \in B}) = i - 1]
<1>1. \A p, q \in S : <<p, q>> \in B <=> Before(p, q)
  OBVIOUS
<1>2. \A p \in S : p[1] \in Nat /\ p[2] \in Nat /\ p = <<p[1], p[2]>>
  OBVIOUS
<1>3. \A p \in S : ~ Before(p, p)
  BY <1>2 DEF Before
<1>4. \A p, q \in S : p = q \/ Before(p, q) \/ Before(q, p)
  BY <1>2 DEF Before
<1>5. \A p, q, r \in S : Before(p, q) /\ Before(q, r) => Before(p, r)
  BY <1>2 DEF Before
<1>6. Z = InOrder(S)
  <2>1. ASSUME NEW n \in S PROVE {m \in S : <<m, n>> \in B} = {m \in S : Before(m, n)}
    BY <1>1
  <2> DEFINE F(i) == CHOOSE n \in S : Cardinality({m \in S : <<m, n>> \in B}) = i - 1
             G(i) == CHOOSE n \in S : Cardinality({m \in S : Before(m, n)}) = i - 1
  <2>2. \A i \in 1 .. Cardinality(S) : F(i) = G(i)
    BY <2>1
  <2>3. Z = [i \in 1 .. Cardinality(S) |-> F(i)] /\ InOrder(S) = [i \in 1 .. Cardinality(S) |-> G(i)]
    BY DEF InOrder
  <2> HIDE DEF F, G, Z
  <2> QED
    BY <2>2, <2>3
<1>7. /\ Cardinality(S) \in Nat /\ Z \in [1 .. Cardinality(S) -> S]
      /\ \A x \in S : \E i \in 1 .. Cardinality(S) : Z[i] = x
      /\ \A i, j \in 1 .. Cardinality(S) : i < j => <<Z[i], Z[j]>> \in B
  <2>1. /\ \A x \in S : <<x, x>> \notin B
        /\ \A x, y \in S : x = y \/ <<x, y>> \in B \/ <<y, x>> \in B
        /\ \A x, y, z \in S : <<x, y>> \in B /\ <<y, z>> \in B => <<x, z>> \in B
    BY <1>1, <1>3, <1>4, <1>5
  <2> HIDE DEF B
  <2> QED
    BY <2>1, Ranked
<1> HIDE DEF Z, B
<1>8. \A i, j \in 1 .. Cardinality(S) : i < j => Before(Z[i], Z[j])
  <2>1. \A i \in 1 .. Cardinality(S) : Z[i] \in S
    BY <1>7
  <2> QED
    BY <1>1, <1>7, <2>1
<1> QED
  BY <1>6, <1>7, <1>8

\* What is printed when blocks are due that come after all that are out.
LEMMA PrintsBlocks ==
    ASSUME PrintedInv, UNCHANGED <<at, sent>>, NEW pend, NEW S \in SUBSET (Nat \X Nat), IsFiniteSet(S),
           printed' = printed \o Flushed(pend, S),
           \A p \in S : /\ p[1] \in Lane /\ p[2] \in Steps(p[1])
                        /\ \A j \in Steps(p[1]) : Out(p[1], j) => j < p[2]
                        /\ Block(pend, p[1], p[2]) \in Line /\ Shown(Block(pend, p[1], p[2]))',
           \A m \in Lane : \A j \in Steps(m) :
              /\ Heard(m, j) \subseteq Heard(m, j)'
              /\ Out(m, j)' <=> Out(m, j) \/ <<m, j>> \in S
    PROVE  PrintedInv' /\ \A k \in DOMAIN printed' :
              printed'[k].kind = "summary" => k \in DOMAIN printed /\ printed[k].kind = "summary"
<1> DEFINE N == Len(printed)
           M == Cardinality(S)
           z == Flushed(pend, S)
           P(k) == InOrder(S)[k]
<1>1. /\ M \in Nat /\ \A k \in 1 .. M : P(k) \in S
      /\ \A p \in S : \E k \in 1 .. M : P(k) = p
      /\ \A j, k \in 1 .. M : j < k => Before(P(j), P(k))
  BY Ordered
<1>2. DOMAIN z = 1 .. M /\ \A k \in 1 .. M : z[k] = Block(pend, P(k)[1], P(k)[2])
  BY DEF Flushed
<1>3. printed \in Seq(Line) /\ N \in Nat /\ DOMAIN printed = 1 .. N
  BY DEF PrintedInv
<1> HIDE DEF P, M, N, z
<1>4. z \in Seq(Line) /\ Len(z) = M
  <2>1. \A k \in 1 .. M : z[k] \in Line
    BY <1>1, <1>2
  <2>2. z \in [1 .. M -> Line]
    <3>1. z = [k \in 1 .. M |-> z[k]]
      BY <1>2 DEF z, Flushed
    <3> QED
      BY <2>1, <3>1
  <2> QED
    BY <1>1, <2>2
<1>5. /\ printed' \in Seq(Line) /\ DOMAIN printed' = 1 .. N + M
      /\ \A k \in 1 .. N : printed'[k] = printed[k]
      /\ \A k \in 1 .. M : N + k \in 1 .. N + M /\ printed'[N + k] = z[k]
      /\ \A k \in 1 .. N + M : k \in 1 .. N \/ (k - N \in 1 .. M /\ printed'[k] = z[k - N])
  <2>1. printed' = printed \o z
    BY DEF z
  <2>2. printed' \in Seq(Line) /\ Len(printed') = N + M
    BY <1>3, <1>4, <2>1, ConcatProperties DEF N
  <2>3. \A k \in 1 .. N : printed'[k] = printed[k]
    BY <1>1, <1>3, <1>4, <2>1 DEF N
  <2>4. \A k \in 1 .. N + M : k \in 1 .. N \/ (k - N \in 1 .. M /\ printed'[k] = z[k - N])
    BY <1>1, <1>3, <1>4, <2>1 DEF N
  <2>5. ASSUME NEW k \in 1 .. M PROVE N + k \in 1 .. N + M /\ printed'[N + k] = z[k]
    <3>1. N + k \in 1 .. N + M /\ N + k \notin 1 .. N /\ (N + k) - N = k
      BY <1>1, <1>3
    <3> QED
      BY <2>4, <3>1
  <2>6. DOMAIN printed' = 1 .. N + M
    BY <2>2
  <2> QED
    BY <2>2, <2>3, <2>4, <2>5, <2>6
<1>6. \A p \in S : LET b == Block(pend, p[1], p[2])
                   IN  b.kind = "block" /\ b.lane = p[1] /\ b.index = p[2]
  BY DEF Block
<1>7. \A l \in Lane : \A k \in BlocksOf(l)' :
         \/ k \in BlocksOf(l) /\ k \in 1 .. N
         \/ k - N \in 1 .. M /\ printed'[k].index = P(k - N)[2] /\ P(k - N)[1] = l /\ k > N
  <2>1. ASSUME NEW l \in Lane, NEW k \in BlocksOf(l)'
        PROVE  \/ k \in BlocksOf(l) /\ k \in 1 .. N
               \/ k - N \in 1 .. M /\ printed'[k].index = P(k - N)[2] /\ P(k - N)[1] = l /\ k > N
    <3>1. k \in 1 .. N + M /\ printed'[k].kind = "block" /\ printed'[k].lane = l
      BY <1>5 DEF BlocksOf
    <3>2. CASE k \in 1 .. N
      BY <1>3, <1>5, <3>1, <3>2 DEF BlocksOf
    <3>3. CASE k \notin 1 .. N
      <4>1. k - N \in 1 .. M /\ printed'[k] = z[k - N]
        BY <1>5, <3>1, <3>3
      <4>2. P(k - N) \in S /\ z[k - N] = Block(pend, P(k - N)[1], P(k - N)[2])
        BY <1>1, <1>2, <4>1
      <4>3. k > N
        BY <1>1, <1>3, <3>1, <3>3
      <4> QED
        BY <1>6, <3>1, <4>1, <4>2, <4>3
    <3> QED
      BY <3>2, <3>3
  <2> QED
    BY <2>1
<1>8. DeclarationOrder'
  <2>1. ASSUME NEW l \in Lane, NEW j \in BlocksOf(l)', NEW k \in BlocksOf(l)', j < k
        PROVE  printed'[j].index < printed'[k].index
    <3>1. CASE k \in BlocksOf(l) /\ k \in 1 .. N
      <4>1. j \in BlocksOf(l) /\ j \in 1 .. N
        BY <1>3, <1>7, <2>1, <3>1
      <4> QED
        BY <1>5, <2>1, <3>1, <4>1 DEF PrintedInv, DeclarationOrder
    <3>2. CASE k - N \in 1 .. M /\ printed'[k].index = P(k - N)[2] /\ P(k - N)[1] = l /\ k > N
      <4>1. CASE j \in BlocksOf(l) /\ j \in 1 .. N
        <5> DEFINE b == printed[j]
        <5>1. Shown(b) /\ b.kind = "block" /\ b.lane = l /\ printed'[j] = b
          BY <1>3, <1>5, <4>1 DEF PrintedInv, BlocksOf
        <5>2. b.index \in Steps(l) /\ Out(l, b.index)
          BY <5>1 DEF Shown
        <5>3. P(k - N) \in S
          BY <1>1, <3>2
        <5> HIDE DEF b
        <5> QED
          BY <3>2, <5>1, <5>2, <5>3
      <4>2. CASE j - N \in 1 .. M /\ printed'[j].index = P(j - N)[2] /\ P(j - N)[1] = l /\ j > N
        <5>1. j - N < k - N
          <6>1. j \in Int /\ k \in Int
            BY <1>5 DEF BlocksOf
          <6> QED
            BY <2>1, <6>1, <1>3
        <5>2. Before(P(j - N), P(k - N)) /\ P(k - N) \in S
          BY <1>1, <3>2, <4>2, <5>1
        <5>3. ~ (l < l)
          BY LaneAssumption
        <5> QED
          BY <3>2, <4>2, <5>2, <5>3 DEF Before
      <4> QED
        BY <1>7, <4>1, <4>2
    <3> QED
      BY <1>7, <3>1, <3>2
  <2> QED
    BY <2>1 DEF DeclarationOrder
<1>9. \A k \in DOMAIN printed' : \A b : b = printed'[k] => Shown(b)'
  <2>1. \A m \in Lane : \A j \in Steps(m) : Out(m, j) => Out(m, j)'
    OBVIOUS
  <2>2. \A k \in 1 .. N : \A b : b = printed'[k] => Shown(b)'
    <3>1. \A k \in 1 .. N : printed[k] \in Line /\ Shown(printed[k])
      <4>1. \A k \in 1 .. N : printed[k] \in Line
        BY <1>3
      <4>2. \A k \in DOMAIN printed : Shown(printed[k])
        BY DEF PrintedInv
      <4> QED
        BY <1>3, <4>1, <4>2
    <3> QED
      BY <1>5, <2>1, <3>1, StillShown
  <2>3. \A k \in 1 .. M : \A b : b = z[k] => Shown(b)'
    <3>1. ASSUME NEW p \in S, NEW b, b = Block(pend, p[1], p[2]) PROVE Shown(b)'
      <4>1. Shown(Block(pend, p[1], p[2]))'
        OBVIOUS
      <4> QED
        BY <3>1, <4>1 DEF Shown, Block
    <3> QED
      BY <1>1, <1>2, <3>1
  <2>4. ASSUME NEW k \in DOMAIN printed' PROVE \A b : b = printed'[k] => Shown(b)'
    <3>1. k \in 1 .. N + M
      BY <1>5
    <3>2. CASE k \in 1 .. N
      BY <2>2, <3>2
    <3>3. CASE k - N \in 1 .. M /\ printed'[k] = z[k - N]
      BY <2>3, <3>3
    <3> QED
      BY <1>5, <3>1, <3>2, <3>3
  <2> QED
    BY <2>4
<1>10. ASSUME NEW l \in Lane, NEW i \in Steps(l), Out(l, i)'
       PROVE  \E k \in BlocksOf(l)' : printed'[k].index = i
  <2>1. CASE Out(l, i)
    <3>1. PICK k \in BlocksOf(l) : printed[k].index = i
      BY <2>1 DEF PrintedInv
    <3>2. k \in 1 .. N /\ printed[k].kind = "block" /\ printed[k].lane = l
      BY <1>3 DEF BlocksOf
    <3>3. k \in DOMAIN printed' /\ printed'[k] = printed[k]
      BY <1>1, <1>3, <1>5, <3>2
    <3> QED
      BY <3>1, <3>2, <3>3 DEF BlocksOf
  <2>2. CASE <<l, i>> \in S
    <3>1. PICK k \in 1 .. M : P(k) = <<l, i>>
      BY <1>1, <2>2
    <3>2. N + k \in DOMAIN printed' /\ printed'[N + k] = Block(pend, l, i)
      <4>1. z[k] = Block(pend, P(k)[1], P(k)[2])
        BY <1>2
      <4>2. P(k)[1] = l /\ P(k)[2] = i
        BY <3>1
      <4> QED
        BY <1>5, <4>1, <4>2
    <3>3. Block(pend, l, i).kind = "block" /\ Block(pend, l, i).lane = l /\ Block(pend, l, i).index = i
      BY DEF Block
    <3> QED
      BY <3>2, <3>3 DEF BlocksOf
  <2> QED
    BY <1>10, <2>1, <2>2
<1>11. PrintedInv'
  BY <1>5, <1>8, <1>9, <1>10 DEF PrintedInv
<1>12. ASSUME NEW k \in DOMAIN printed', printed'[k].kind = "summary"
       PROVE  k \in DOMAIN printed /\ printed[k].kind = "summary"
  <2>1. CASE k \in 1 .. N
    BY <1>3, <1>5, <1>12, <2>1
  <2>2. CASE k - N \in 1 .. M /\ printed'[k] = z[k - N]
    <3>1. printed'[k].kind = "block"
      BY <1>1, <1>2, <1>6, <2>2
    <3> QED
      BY <1>12, <3>1
  <2> QED
    BY <1>5, <2>1, <2>2
<1> QED
  BY <1>11, <1>12

\* The cursor advances to the first step without a complete block, and what is
\* released are the blocks it passes.
LEMMA Advanced ==
    ASSUME NEW N \in Nat, NEW p, DOMAIN p \subseteq 1 .. N, NEW c \in 1 .. N + 1,
           \A i \in DOMAIN p : p[i].done \in BOOLEAN
    PROVE  \E m \in c .. N + 1 :
              /\ Released(p, c) = c .. m - 1 /\ IsFiniteSet(Released(p, c))
              /\ Cardinality(Released(p, c)) = m - c
              /\ m \in DOMAIN p => ~ p[m].done
              /\ \A j \in c .. m - 1 : j \in DOMAIN p /\ p[j].done
<1> DEFINE Ready(i) == i \in DOMAIN p /\ p[i].done
           T == {i \in Nat : i >= c /\ ~ Ready(i)}
<1>1. T \in SUBSET Nat /\ N + 1 \in T
  OBVIOUS
<1>2. PICK m \in T : \A j \in T : m <= j
  <2> HIDE DEF T
  <2> QED BY <1>1, Least
<1>3. m \in c .. N + 1 /\ ~ Ready(m)
  BY <1>1, <1>2
<1>4. \A j \in c .. m - 1 : Ready(j)
  BY <1>2, <1>3
<1>5. Released(p, c) = {i \in DOMAIN p : i >= c /\ \A j \in c .. i : Ready(j)}
  BY DEF Released
<1> HIDE DEF T
<1>6. Released(p, c) = c .. m - 1
  <2>1. ASSUME NEW i \in Released(p, c) PROVE i \in c .. m - 1
    <3>1. i \in Nat /\ i >= c /\ \A j \in c .. i : Ready(j)
      BY <1>5
    <3>2. ~ (m <= i)
      BY <1>3, <3>1
    <3> QED
      BY <1>3, <3>1, <3>2
  <2>2. ASSUME NEW i \in c .. m - 1 PROVE i \in Released(p, c)
    <3>1. Ready(i)
      BY <1>4
    <3>2. \A j \in c .. i : Ready(j)
      BY <1>3, <1>4
    <3> QED
      BY <1>5, <3>1, <3>2
  <2> QED
    BY <2>1, <2>2
<1>7. IsFiniteSet(c .. m - 1) /\ Cardinality(c .. m - 1) = m - c
  <2>1. c \in Int /\ m - 1 \in Int
    BY <1>3
  <2>2. IsFiniteSet(c .. m - 1) /\ Cardinality(c .. m - 1) = IF c > m - 1 THEN 0 ELSE m - 1 - c + 1
    BY <2>1, FS_Interval
  <2> QED
    BY <1>3, <2>2
<1> QED
  BY <1>3, <1>4, <1>6, <1>7

\* Finitely many for each lane are finitely many for all.
LEMMA PairsFinite ==
    ASSUME NEW f, \A l \in Lane : IsFiniteSet(f[l])
    PROVE  IsFiniteSet(UNION {{l} \X f[l] : l \in Lane})
<1> DEFINE T == {{l} \X f[l] : l \in Lane}
           g == [l \in Lane |-> {l} \X f[l]]
<1>1. g \in Surjection(Lane, T)
  BY DEF Surjection
<1>2. IsFiniteSet(T)
  <2> HIDE DEF T, g
  <2> QED BY <1>1, FS_Surjection, LaneAssumption
<1>3. \A A \in T : IsFiniteSet(A)
  <2>1. ASSUME NEW l \in Lane PROVE IsFiniteSet({l} \X f[l])
    BY FS_Singleton, FS_Product
  <2> QED
    BY <2>1
<1> HIDE DEF T
<1>4. IsFiniteSet(UNION T)
  BY <1>2, <1>3, FS_UNION
<1> QED
  BY <1>4 DEF T

LEMMA PlanFinite == IsFiniteSet(PlanSteps)
<1> DEFINE f == [l \in Lane |-> 1 .. Plan[l]]
<1>1. \A l \in Lane : IsFiniteSet(f[l])
  BY StepsAssumption, FS_Interval
<1>2. PlanSteps = UNION {{l} \X f[l] : l \in Lane}
  BY DEF PlanSteps
<1> HIDE DEF f
<1> QED
  BY <1>1, <1>2, PairsFinite

\* A block that is complete shows all that its step told.
LEMMA BlockShown ==
    ASSUME NEW pend, NEW l \in Lane, NEW i \in Steps(l), Fits(pend[l][i], l, i)', pend[l][i].done,
           Out(l, i)'
    PROVE  Block(pend, l, i) \in Line /\ Shown(Block(pend, l, i))'
<1> DEFINE b == pend[l][i]
<1>1. /\ b.changes \in Seq(1 .. MaxChanges) /\ b.ok \in BOOLEAN
      /\ b.changes = [n \in 1 .. Len(b.changes) |-> n] /\ Len(b.changes) = sent'[l][i]
      /\ b.ok = (at'[l][i] = "settled") /\ Final \in Heard(l, i)'
  BY DEF Fits, BlockType
<1>2. i \in Nat
  BY StepsAssumption DEF Steps
<1>3. Block(pend, l, i) \in Line
  BY <1>1, <1>2 DEF Block, Line
<1>4. b.changes = [n \in 1 .. sent'[l][i] |-> n]
  BY <1>1
<1> HIDE DEF b
<1>5. Block(pend, l, i) = [kind |-> "block", lane |-> l, index |-> i, changes |-> b.changes, ok |-> b.ok]
  BY DEF Block, b
<1> QED
  BY <1>1, <1>3, <1>4, <1>5 DEF Shown

LEMMA FinishStep ==
    ASSUME IInv, FinishStream
    PROVE  IInv'
<1>1. /\ RegionInv /\ SequencerInv /\ PrintedInv /\ EndInv /\ EngineInv /\ ChannelInv
      /\ ~ done /\ events = <<>> /\ closed
      /\ printed' = printed \o Flushed(pending, UNION {{l} \X Drained(pending[l]) : l \in Lane})
      /\ pending' = [l \in Lane |-> << >>] /\ smeared' = (smeared \/ Smears) /\ drawn' = 0 /\ done' = TRUE
      /\ UNCHANGED <<engine, events, closed, running, finished, cursor>>
  BY DEF IInv, FinishStream
<1>2. UNCHANGED <<at, sent, main>>
  BY <1>1 DEF engine
<1>3. EngineInv'
  BY <1>1, EngineSame
<1>4. ChannelInv' /\ \A m \in Lane : \A j \in Steps(m) : Heard(m, j)' = Heard(m, j)
  BY <1>1, <1>2, ChannelSame
<1>5. RegionInv'
  <2>1. drawn' \in Nat /\ smeared' \in BOOLEAN /\ (Height >= 3 => drawn' <= Height - 1 /\ ~ smeared')
    <3>1. drawn \in Nat /\ smeared \in BOOLEAN /\ (Height >= 3 => drawn <= Height - 1 /\ ~ smeared)
      BY <1>1 DEF RegionInv
    <3> QED
      BY <1>1, <3>1, Painted
  <2> QED
    BY <1>1, <1>4, <2>1, RegionSame
<1>6. SequencerInv'
  <2>1. \A l \in Lane : cursor[l] \in 1 .. Plan[l] + HookSteps[l] + 1
    BY <1>1 DEF SequencerInv, LaneInv
  <2>2. \A l \in Lane : DOMAIN pending'[l] = {}
    BY <1>1
  <2>3. DOMAIN cursor' = Lane /\ DOMAIN pending' = Lane
    BY <1>1 DEF SequencerInv
  <2>4. \A l \in Lane : LaneInv(l)'
    BY <1>1, <2>1, <2>2 DEF LaneInv
  <2> QED
    BY <2>3, <2>4 DEF SequencerInv
<1>7. PICK pend : pend = pending
  OBVIOUS
<1> DEFINE S == UNION {{l} \X Drained(pend[l]) : l \in Lane}
<1>8. ASSUME NEW m \in Lane
      PROVE  /\ DOMAIN pend[m] \subseteq Steps(m) /\ cursor[m] \in Nat /\ Steps(m) \subseteq Nat
             /\ \A j \in DOMAIN pend[m] : j >= cursor[m]
             /\ \A j \in Steps(m) : IF j < cursor[m] THEN Final \in Heard(m, j)
                                    ELSE Fits(BlockOf(m, j), m, j)
  BY <1>1, <1>7, StepsAssumption DEF SequencerInv, LaneInv, Steps
<1>9. ASSUME NEW m \in Lane, NEW j PROVE <<m, j>> \in S <=> j \in DOMAIN pend[m] /\ pend[m][j].done
  BY DEF Drained
<1>10. ASSUME NEW p \in S
       PROVE  p[1] \in Lane /\ p[2] \in DOMAIN pend[p[1]] /\ pend[p[1]][p[2]].done /\ p = <<p[1], p[2]>>
  BY DEF Drained
<1>11. S \in SUBSET (Nat \X Nat) /\ IsFiniteSet(S)
  <2>1. S \in SUBSET (Nat \X Nat)
    <3>1. \A p \in S : p[1] \in Nat /\ p[2] \in Nat /\ p = <<p[1], p[2]>>
      BY <1>8, <1>10, LaneAssumption
    <3> HIDE DEF S
    <3> QED
      BY <3>1
  <2> DEFINE f == [l \in Lane |-> Drained(pend[l])]
  <2>2. ASSUME NEW l \in Lane PROVE IsFiniteSet(f[l])
    <3>1. Drained(pend[l]) \subseteq Steps(l)
      BY <1>8 DEF Drained
    <3>2. IsFiniteSet(Steps(l))
      BY StepsAssumption, FS_Interval DEF Steps
    <3> QED
      BY <3>1, <3>2, FS_Subset
  <2>3. S = UNION {{l} \X f[l] : l \in Lane}
    OBVIOUS
  <2> HIDE DEF S, f
  <2> QED
    BY <2>1, <2>2, <2>3, PairsFinite
<1>12. printed' = printed \o Flushed(pend, S)
  BY <1>1, <1>7
<1> HIDE DEF S
<1>13. ASSUME NEW m \in Lane, NEW j \in Steps(m)
       PROVE  /\ Out(m, j)' <=> Out(m, j) \/ <<m, j>> \in S
              /\ j \in DOMAIN pend[m] => Fits(pend[m][j], m, j)'
  <2>1. Out(m, j) <=> j < cursor[m]
    BY <1>1 DEF Out
  <2>2. Out(m, j)' <=> Final \in Heard(m, j)
    BY <1>1, <1>4 DEF Out
  <2>3. <<m, j>> \in S => ~ (j < cursor[m])
    BY <1>8, <1>9
  <2>4. CASE j < cursor[m]
    <3>1. j \notin DOMAIN pend[m]
      BY <1>8, <2>4
    <3> QED
      BY <1>8, <2>1, <2>2, <2>4, <3>1
  <2>5. CASE ~ (j < cursor[m])
    <3>1. Fits(BlockOf(m, j), m, j)
      BY <1>8, <2>5
    <3>2. BlockOf(m, j) = IF j \in DOMAIN pend[m] THEN pend[m][j]
                          ELSE [changes |-> <<>>, done |-> FALSE, ok |-> FALSE]
      BY <1>7 DEF BlockOf, Indices
    <3>3. Final \in Heard(m, j) <=> j \in DOMAIN pend[m] /\ pend[m][j].done
      BY <3>1, <3>2 DEF Fits
    <3>4. j \in DOMAIN pend[m] => Fits(pend[m][j], m, j)
      BY <3>1, <3>2
    <3>5. ASSUME NEW b, Fits(b, m, j) PROVE Fits(b, m, j)'
      BY <1>2, <1>4, <3>5 DEF Fits
    <3> QED
      BY <1>9, <2>1, <2>2, <2>5, <3>3, <3>4, <3>5
  <2> QED
    BY <2>4, <2>5
<1>14. ASSUME NEW p \in S
       PROVE  /\ p[1] \in Lane /\ p[2] \in Steps(p[1])
              /\ \A j \in Steps(p[1]) : Out(p[1], j) => j < p[2]
              /\ Block(pend, p[1], p[2]) \in Line /\ Shown(Block(pend, p[1], p[2]))'
  <2>1. p[1] \in Lane /\ p[2] \in Steps(p[1]) /\ p[2] \in DOMAIN pend[p[1]] /\ pend[p[1]][p[2]].done
    BY <1>8, <1>10
  <2>2. \A j \in Steps(p[1]) : Out(p[1], j) => j < p[2]
    <3>1. cursor[p[1]] \in Nat /\ p[2] \in Nat /\ p[2] >= cursor[p[1]] /\ Steps(p[1]) \subseteq Nat
      BY <1>8, <2>1
    <3> QED
      BY <1>1, <3>1 DEF Out
  <2>3. Out(p[1], p[2])' /\ Fits(pend[p[1]][p[2]], p[1], p[2])'
    BY <1>10, <1>13, <2>1
  <2> QED
    BY <2>1, <2>2, <2>3, BlockShown
<1>15. PrintedInv' /\ \A k \in DOMAIN printed' :
          printed'[k].kind = "summary" => k \in DOMAIN printed /\ printed[k].kind = "summary"
  <2>1. \A m \in Lane : \A j \in Steps(m) : Heard(m, j) \subseteq Heard(m, j)'
    BY <1>4
  <2> QED
    BY <1>1, <1>2, <1>11, <1>12, <1>13, <1>14, <2>1, PrintsBlocks
<1>16. EndInv'
  <2>1. \A k \in DOMAIN printed : printed[k].kind # "summary"
    BY <1>1 DEF EndInv
  <2> QED
    BY <1>1, <1>2, <1>15, <2>1 DEF EndInv
<1> QED
  BY <1>3, <1>4, <1>5, <1>6, <1>15, <1>16 DEF IInv

\* The region loses the step whose end is heard, and the count gains it.
LEMMA RegionEnds ==
    ASSUME RegionInv, NEW l \in Lane, NEW i \in Steps(l), Final \notin Heard(l, i),
           running' = [running EXCEPT ![l] = @ \ {i}],
           finished' = IF IsHook(l, i) THEN [finished EXCEPT !.hooks = @ + 1]
                       ELSE [finished EXCEPT !.plan = @ + 1],
           \A m \in Lane : \A j \in Steps(m) :
              Heard(m, j)' = IF m = l /\ j = i THEN Heard(m, j) \cup {Final} ELSE Heard(m, j),
           drawn' \in Nat, smeared' \in BOOLEAN, Height >= 3 => drawn' <= Height - 1 /\ ~ smeared'
    PROVE  RegionInv'
<1>1. Final # 0
  BY BoundsAssumption
<1> HIDE DEF Final
<1>2. \A m \in Lane : \A j \in Steps(m) :
         /\ 0 \in Heard(m, j)' <=> 0 \in Heard(m, j)
         /\ Final \in Heard(m, j)' <=> Final \in Heard(m, j) \/ (m = l /\ j = i)
  BY <1>1
<1>3. /\ DOMAIN running = Lane /\ finished \in [plan : Nat, hooks : Nat]
      /\ \A m \in Lane :
            running[m] = {j \in Steps(m) : 0 \in Heard(m, j) /\ Final \notin Heard(m, j)}
      /\ finished.plan = Cardinality({p \in PlanSteps : Final \in Heard(p[1], p[2])})
  BY DEF RegionInv
<1>4. ASSUME NEW m \in Lane
      PROVE  running'[m] = {j \in Steps(m) : 0 \in Heard(m, j)' /\ Final \notin Heard(m, j)'}
  <2>1. CASE m # l
    BY <1>2, <1>3, <2>1
  <2>2. CASE m = l
    <3>1. running'[m] = running[m] \ {i}
      BY <1>3, <2>2
    <3> QED
      BY <1>2, <1>3, <2>2, <3>1
  <2> QED
    BY <2>1, <2>2
<1> DEFINE A == {p \in PlanSteps : Final \in Heard(p[1], p[2])}
           B == {p \in PlanSteps : Final \in Heard(p[1], p[2])'}
<1>5. \A p \in PlanSteps : p[1] \in Lane /\ p[2] \in Steps(p[1]) /\ p = <<p[1], p[2]>>
  BY StepsAssumption DEF PlanSteps, Steps
<1>6. <<l, i>> \in PlanSteps <=> ~ IsHook(l, i)
  <2>1. <<l, i>> \in PlanSteps <=> i \in 1 .. Plan[l]
    BY DEF PlanSteps
  <2>2. Plan[l] \in Nat /\ HookSteps[l] \in Nat /\ i \in 1 .. Plan[l] + HookSteps[l]
    BY StepsAssumption DEF Steps
  <2> QED
    BY <2>1, <2>2 DEF IsHook
<1>7. IsFiniteSet(A) /\ Cardinality(A) \in Nat /\ <<l, i>> \notin A
  <2>1. A \subseteq PlanSteps
    OBVIOUS
  <2>2. <<l, i>> \notin A
    OBVIOUS
  <2> HIDE DEF A
  <2> QED
    BY <2>1, <2>2, PlanFinite, FS_Subset, FS_CardinalityType
<1>8. CASE IsHook(l, i)
  <2>1. B = A
    BY <1>2, <1>5, <1>6, <1>8
  <2>2. finished' \in [plan : Nat, hooks : Nat] /\ finished'.plan = finished.plan
    BY <1>3, <1>8
  <2> QED
    BY <1>3, <1>4, <2>1, <2>2 DEF RegionInv
<1>9. CASE ~ IsHook(l, i)
  <2>1. B = A \cup {<<l, i>>}
    BY <1>2, <1>5, <1>6, <1>9
  <2>2. finished' \in [plan : Nat, hooks : Nat] /\ finished'.plan = finished.plan + 1
    BY <1>3, <1>9
  <2>3. Cardinality(A \cup {<<l, i>>}) = Cardinality(A) + 1
    <3> HIDE DEF A
    <3> QED BY <1>7, FS_AddElement
  <2> QED
    BY <1>3, <1>4, <2>1, <2>2, <2>3 DEF RegionInv
<1> QED
  BY <1>8, <1>9

\* The result of a step completes its block, which holds all the changes by now.
LEMMA Completed ==
    ASSUME NEW l \in Lane, NEW i \in Steps(l), NEW b, NEW ok, Fits(b, l, i), EngineInv,
           UNCHANGED <<at, sent>>, ok = (at[l][i] = "settled"), IsSettled(l, i),
           Heard(l, i)' = Heard(l, i) \cup {Final}, \A r \in Told(l, i) : r < Final => r \in Heard(l, i)
    PROVE  Fits([b EXCEPT !.done = TRUE, !.ok = ok], l, i)'
<1> DEFINE d == [b EXCEPT !.done = TRUE, !.ok = ok]
           s == b.changes
<1>1. /\ sent[l][i] \in 0 .. MaxChanges /\ MaxChanges \in Nat
      /\ \A n \in 1 .. MaxChanges : n \in Told(l, i) <=> n <= sent[l][i]
      /\ Heard(l, i) \subseteq Told(l, i)
  BY ToldAre
<1>2. /\ b \in BlockType /\ s \in Seq(1 .. MaxChanges) /\ s = [n \in 1 .. Len(s) |-> n]
      /\ \A n \in 1 .. MaxChanges : n \in Heard(l, i) <=> n <= Len(s)
  BY DEF Fits, BlockType
<1>3. ok \in BOOLEAN
  OBVIOUS
<1>4. d \in BlockType /\ d.changes = s /\ d.done /\ d.ok = ok
  BY <1>2, <1>3 DEF BlockType
<1> HIDE DEF d, s
<1>5. \A n \in 1 .. MaxChanges : n \in Heard(l, i) <=> n <= sent[l][i]
  BY <1>1
<1>6. Len(s) \in Nat /\ Len(s) <= MaxChanges
  <2>1. Len(s) \in Nat /\ \A n \in 1 .. Len(s) : s[n] \in 1 .. MaxChanges
    <3>1. s \in Seq(1 .. MaxChanges)
      BY <1>2
    <3> QED
      BY <3>1, LenProperties, ElementOfSeq
  <2>2. Len(s) > 0 => s[Len(s)] = Len(s) /\ Len(s) \in 1 .. Len(s)
    BY <1>2, <2>1
  <2> QED
    BY <1>1, <2>1, <2>2
<1>7. Len(s) = sent[l][i]
  <2>1. ~ (Len(s) < sent[l][i])
    <3>1. Len(s) < sent[l][i] => Len(s) + 1 \in 1 .. MaxChanges /\ Len(s) + 1 <= sent[l][i]
      BY <1>1, <1>6
    <3>2. ~ (Len(s) + 1 <= Len(s))
      BY <1>6
    <3> QED
      BY <1>2, <1>5, <3>1, <3>2
  <2>2. ~ (sent[l][i] < Len(s))
    <3>1. sent[l][i] < Len(s) => Len(s) \in 1 .. MaxChanges /\ ~ (Len(s) <= sent[l][i])
      BY <1>1, <1>6
    <3>2. Len(s) <= Len(s)
      BY <1>6
    <3> QED
      BY <1>2, <1>5, <3>1, <3>2
  <2> QED
    BY <1>1, <1>6, <2>1, <2>2
<1>8. \A n \in 1 .. MaxChanges : n \in Heard(l, i)' <=> n <= Len(s)
  <2>1. \A n \in 1 .. MaxChanges : n # Final
    BY <1>1
  <2> QED
    BY <1>2, <2>1
<1>9. Final \in Heard(l, i)'
  OBVIOUS
<1> HIDE DEF Final
<1>10. Fits(d, l, i)'
  <2>1. ASSUME NEW x, x = d PROVE Fits(x, l, i)'
    BY <1>2, <1>4, <1>7, <1>8, <1>9, <2>1 DEF Fits
  <2> QED
    BY <2>1 DEF d
<1> QED
  BY <1>10 DEF d

LEMMA ResultHeard ==
    ASSUME IInv, HandleResult
    PROVE  IInv'
<1>e. PICK e : e = Head1
  OBVIOUS
<1> DEFINE l == e.lane
           i == e.index
<1>b. PICK b : b = BlockOf(l, i)
  OBVIOUS
<1> DEFINE d == [b EXCEPT !.done = TRUE, !.ok = e.ok]
<1>p. PICK pend : pend = Collect(l, i, d)
  OBVIOUS
<1>c. PICK c : c = cursor[l]
  OBVIOUS
<1> DEFINE R == Released(pend[l], c)
<1>0. MaxChanges \in Nat
  BY BoundsAssumption
<1>1. /\ RegionInv /\ SequencerInv /\ PrintedInv /\ EndInv /\ EngineInv
      /\ UNCHANGED <<engine, closed, done>> /\ Take({"Result"})
      /\ running' = [running EXCEPT ![l] = @ \ {i}]
      /\ finished' = IF IsHook(l, i) THEN [finished EXCEPT !.hooks = @ + 1]
                     ELSE [finished EXCEPT !.plan = @ + 1]
      /\ smeared' = (smeared \/ Smears) /\ drawn' = RegionLines(running', 1)
      /\ pending' = [pend EXCEPT ![l] = [j \in DOMAIN pend[l] \ R |-> pend[l][j]]]
      /\ cursor' = [cursor EXCEPT ![l] = @ + Cardinality(R)]
      /\ printed' = printed \o Flushed(pend, {l} \X R)
  BY <1>e, <1>b, <1>p, <1>c DEF IInv, HandleResult, Finished, Counted, Repaint
<1>2. e.kind = "Result" /\ Rank(e) = Final
  BY <1>e, <1>1 DEF Take
<1> HIDE DEF Rank, R, d
<1>3. /\ EngineInv' /\ ChannelInv' /\ ~ done /\ UNCHANGED <<at, sent, main>> /\ main # "over"
      /\ \A k \in DOMAIN printed : printed[k].kind # "summary"
      /\ e \in Event /\ Warranted(e) /\ l \in Lane /\ i \in Steps(l)
      /\ Final \notin Heard(l, i) /\ Final \in Told(l, i)
      /\ \A r \in Told(l, i) : r < Final => r \in Heard(l, i)
      /\ \A m \in Lane : \A j \in Steps(m) :
            Heard(m, j)' = IF m = l /\ j = i THEN Heard(m, j) \cup {Final} ELSE Heard(m, j)
  BY <1>e, <1>1, <1>2, Takes
<1>4. RegionInv'
  <2>1. drawn \in Nat /\ smeared \in BOOLEAN /\ (Height >= 3 => drawn <= Height - 1 /\ ~ smeared)
    BY <1>1 DEF RegionInv
  <2>2. PICK f : f = running'
    OBVIOUS
  <2>3. drawn' \in Nat /\ smeared' \in BOOLEAN /\ (Height >= 3 => drawn' <= Height - 1 /\ ~ smeared')
    BY <1>1, <2>1, <2>2, Painted
  <2> QED
    BY <1>1, <1>3, <2>3, RegionEnds
<1> DEFINE N == Plan[l] + HookSteps[l]
<1>5. /\ \A m \in Lane : LaneInv(m) /\ Steps(m) \subseteq Nat
      /\ c \in 1 .. N + 1 /\ N \in Nat /\ Steps(l) = 1 .. N /\ i \in 1 .. N
      /\ DOMAIN pending = Lane /\ DOMAIN cursor = Lane
  <2>1. \A m \in Lane : LaneInv(m) /\ Steps(m) \subseteq Nat
    BY <1>1, StepsAssumption DEF SequencerInv, Steps
  <2>2. N \in Nat /\ Steps(l) = 1 .. N
    BY <1>3, StepsAssumption DEF Steps
  <2>3. c \in 1 .. N + 1
    BY <1>c, <1>3, <2>1 DEF LaneInv
  <2> QED
    BY <1>1, <1>3, <2>1, <2>2, <2>3 DEF SequencerInv
<1> HIDE DEF N
<1>6. i >= c /\ Fits(b, l, i)
  BY <1>b, <1>c, <1>3, <1>5 DEF LaneInv
<1>7. Fits(d, l, i)' /\ d.done
  <2>1. EngineInv /\ IsSettled(l, i)
    BY <1>1, <1>3, ToldAre
  <2>2. e.ok = (at[l][i] = "settled")
    BY <1>2, <1>3 DEF Warranted
  <2>3. b \in BlockType
    BY <1>6 DEF Fits
  <2>4. d.done
    BY <2>3 DEF d, BlockType
  <2>5. Heard(l, i)' = Heard(l, i) \cup {Final}
    BY <1>3
  <2> HIDE DEF Final
  <2>6. Fits([b EXCEPT !.done = TRUE, !.ok = e.ok], l, i)'
    BY <1>3, <1>6, <2>1, <2>2, <2>5, Completed
  <2> QED
    BY <2>4, <2>6 DEF d
<1>8. /\ DOMAIN pend = Lane
      /\ \A m \in Lane : m # l => pend[m] = pending[m]
      /\ DOMAIN pend[l] = DOMAIN pending[l] \cup {i}
      /\ pend[l][i] = d
      /\ \A j \in DOMAIN pending[l] : j # i => pend[l][j] = pending[l][j]
  BY <1>p, <1>3, <1>5 DEF Collect, Indices
\* Every block fits what is heard now.
<1>9. ASSUME NEW m \in Lane, NEW j \in Steps(m), m # l \/ j # i, NEW x, Fits(x, m, j)
      PROVE  Fits(x, m, j)'
  BY <1>3, <1>9 DEF Fits
<1> DEFINE InPend(m, j) == IF j \in DOMAIN pend[m] THEN pend[m][j]
                           ELSE [changes |-> <<>>, done |-> FALSE, ok |-> FALSE]
<1>10. ASSUME NEW j \in Steps(l), j >= c PROVE Fits(InPend(l, j), l, j)'
  <2>1. CASE j = i
    <3>1. InPend(l, j) = d
      BY <1>8, <2>1
    <3> HIDE DEF InPend
    <3>2. ASSUME NEW x, x = InPend(l, j) PROVE Fits(x, l, j)'
      BY <1>7, <2>1, <3>1, <3>2 DEF Fits
    <3> QED
      BY <3>2
  <2>2. CASE j # i
    <3>1. InPend(l, j) = BlockOf(l, j)
      BY <1>8, <2>2 DEF BlockOf, Indices
    <3>2. ~ (j < cursor[l])
      BY <1>c, <1>5, <1>10
    <3>3. Fits(BlockOf(l, j), l, j)
      BY <1>3, <1>5, <3>2 DEF LaneInv
    <3>4. PICK x : x = InPend(l, j)
      OBVIOUS
    <3>5. ASSUME NEW y, y = x PROVE Fits(y, l, j)'
      BY <1>3, <1>9, <2>2, <3>1, <3>3, <3>4, <3>5
    <3> QED
      BY <3>4, <3>5
  <2> QED
    BY <2>1, <2>2
<1>11. \A j \in DOMAIN pend[l] : j \in Steps(l) /\ j >= c /\ j \in Nat /\ Fits(pend[l][j], l, j)'
                                 /\ pend[l][j].done \in BOOLEAN
  <2>1. ASSUME NEW j \in DOMAIN pend[l]
        PROVE  j \in Steps(l) /\ j >= c /\ j \in Nat /\ InPend(l, j) = pend[l][j]
    <3>1. LaneInv(l) /\ ~ done
      BY <1>3, <1>5
    <3>2. j \in DOMAIN pending[l] => j \in Steps(l) /\ j >= c
      BY <1>c, <3>1 DEF LaneInv
    <3> QED
      BY <1>3, <1>5, <1>6, <1>8, <3>2
  <2> HIDE DEF InPend
  <2>2. ASSUME NEW j \in DOMAIN pend[l] PROVE Fits(pend[l][j], l, j)'
    BY <1>10, <2>1
  <2>3. \A j \in Steps(l) : \A x : Fits(x, l, j)' => x.done \in BOOLEAN
    BY DEF Fits, BlockType
  <2> QED
    BY <2>1, <2>2, <2>3
\* The cursor moves to m.
<1>12. PICK m \in c .. N + 1 :
          /\ R = c .. m - 1 /\ IsFiniteSet(R) /\ Cardinality(R) = m - c
          /\ m \in DOMAIN pend[l] => ~ pend[l][m].done
          /\ \A j \in c .. m - 1 : j \in DOMAIN pend[l] /\ pend[l][j].done
  <2>1. DOMAIN pend[l] \subseteq 1 .. N
    BY <1>5, <1>11
  <2>2. \A j \in DOMAIN pend[l] : pend[l][j].done \in BOOLEAN
    BY <1>11
  <2> QED
    BY <1>5, <2>1, <2>2, Advanced DEF R
<1>13. m \in Nat /\ c \in Nat /\ m >= c /\ m \in 1 .. N + 1
  BY <1>5, <1>12
<1>14. /\ DOMAIN cursor' = Lane /\ cursor'[l] = m
       /\ \A k \in Lane : k # l => cursor'[k] = cursor[k]
  BY <1>c, <1>1, <1>3, <1>5, <1>12, <1>13
<1>15. /\ DOMAIN pending' = Lane
       /\ \A k \in Lane : k # l => pending'[k] = pending[k]
       /\ DOMAIN pending'[l] = {j \in DOMAIN pend[l] : j >= m}
       /\ \A j \in DOMAIN pending'[l] : pending'[l][j] = pend[l][j]
  <2>1. DOMAIN pend[l] \ R = {j \in DOMAIN pend[l] : j >= m}
    BY <1>11, <1>12, <1>13
  <2> QED
    BY <1>1, <1>3, <1>8, <2>1

<1>16. ASSUME NEW k \in Lane, k # l PROVE LaneInv(k)'
  <2>1. LaneInv(k)
    BY <1>5
  <2>2. \A j \in Steps(k) : BlockOf(k, j)' = BlockOf(k, j) /\ Heard(k, j)' = Heard(k, j)
    BY <1>3, <1>15, <1>16 DEF BlockOf, Indices
  <2>3. \A j \in Steps(k) : Fits(BlockOf(k, j), k, j) => Fits(BlockOf(k, j), k, j)'
    BY <1>9, <1>16, <2>2 DEF Fits
  <2> QED
    BY <1>1, <1>14, <1>15, <1>16, <2>1, <2>2, <2>3 DEF LaneInv
<1>17. LaneInv(l)'
  <2>1. \A j \in DOMAIN pending'[l] : j \in Steps(l) /\ j >= m
    BY <1>11, <1>15
  <2>2. m \in DOMAIN pending'[l] => ~ pending'[l][m].done
    BY <1>12, <1>15
  <2>3. ASSUME NEW j \in Steps(l), j < m PROVE Final \in Heard(l, j)'
    <3>1. CASE j < c
      <4>1. Final \in Heard(l, j)
        BY <1>c, <1>3, <1>5, <3>1 DEF LaneInv
      <4> QED
        BY <1>3, <4>1
    <3>2. CASE ~ (j < c)
      <4>1. j \in c .. m - 1
        BY <1>5, <1>13, <2>3, <3>2
      <4>2. pend[l][j].done /\ Fits(pend[l][j], l, j)'
        BY <1>11, <1>12, <4>1
      <4> QED
        BY <4>2 DEF Fits
    <3> QED
      BY <3>1, <3>2
  <2>4. ASSUME NEW j \in Steps(l), ~ (j < m) PROVE Fits(BlockOf(l, j), l, j)'
    <3>1. j >= c /\ j >= m
      BY <1>5, <1>13, <2>4
    <3>2. j \in DOMAIN pending'[l] <=> j \in DOMAIN pend[l]
      BY <1>15, <3>1
    <3>3. IF j \in DOMAIN pending'[l] THEN pending'[l][j] = pend[l][j] ELSE j \notin DOMAIN pend[l]
      BY <1>15, <3>2
    <3>4. BlockOf(l, j)' = InPend(l, j)
      BY <3>2, <3>3 DEF BlockOf, Indices
    <3>5. Fits(InPend(l, j), l, j)'
      BY <1>10, <3>1
    <3>6. PICK x : x = InPend(l, j)
      OBVIOUS
    <3>7. Fits(x, l, j)'
      <4>1. j \in DOMAIN pend[l] => x = pend[l][j] /\ Fits(pend[l][j], l, j)'
        BY <1>11, <3>6
      <4>2. j \notin DOMAIN pend[l] => x = [changes |-> <<>>, done |-> FALSE, ok |-> FALSE]
        BY <3>6
      <4> QED
        BY <3>5, <4>1, <4>2
    <3> HIDE DEF InPend
    <3> QED
      BY <3>4, <3>6, <3>7 DEF Fits
  <2>5. cursor'[l] = m /\ m \in 1 .. N + 1
    BY <1>13, <1>14
  <2> QED
    BY <1>5, <1>14, <2>1, <2>2, <2>3, <2>4, <2>5 DEF LaneInv, N
<1>18. SequencerInv'
  BY <1>14, <1>15, <1>16, <1>17 DEF SequencerInv
<1> DEFINE S == {l} \X R
<1>19. \A p : p \in S <=> p = <<l, p[2]>> /\ p[2] \in R
  OBVIOUS
<1>20. S \in SUBSET (Nat \X Nat) /\ IsFiniteSet(S) /\ \A j : <<l, j>> \in S <=> j \in R
  <2>1. l \in Nat /\ R \subseteq Nat
    <3>1. l \in Nat
      BY <1>3, LaneAssumption
    <3>2. \A j \in c .. m - 1 : j \in Nat
      BY <1>13
    <3> QED
      BY <1>12, <3>1, <3>2
  <2>2. IsFiniteSet(S)
    <3>1. IsFiniteSet({l})
      BY FS_Singleton
    <3> QED
      BY <1>12, <3>1, FS_Product
  <2> QED
    BY <2>1, <2>2
<1> HIDE DEF S
<1>21. ASSUME NEW k \in Lane, NEW j \in Steps(k)
       PROVE  Heard(k, j) \subseteq Heard(k, j)' /\ (Out(k, j)' <=> Out(k, j) \/ <<k, j>> \in S)
  <2>1. Out(k, j)' <=> j < cursor'[k]
    BY <1>1, <1>3 DEF Out
  <2>2. Out(k, j) <=> j < cursor[k]
    BY <1>3 DEF Out
  <2>3. CASE k # l
    <3>1. <<k, j>> \notin S
      BY <1>19, <2>3
    <3> QED
      BY <1>3, <1>14, <2>1, <2>2, <2>3, <3>1
  <2>4. CASE k = l
    <3>1. <<k, j>> \in S <=> j \in c .. m - 1
      BY <1>12, <1>20, <2>4
    <3>2. j \in Nat
      BY <1>5
    <3>3. j < m <=> j < c \/ j \in c .. m - 1
      BY <1>13, <3>2
    <3> QED
      BY <1>c, <1>3, <1>14, <2>1, <2>2, <2>4, <3>1, <3>3
  <2> QED
    BY <2>3, <2>4
<1>22. ASSUME NEW p \in S
       PROVE  /\ p[1] \in Lane /\ p[2] \in Steps(p[1])
              /\ \A j \in Steps(p[1]) : Out(p[1], j) => j < p[2]
              /\ Block(pend, p[1], p[2]) \in Line /\ Shown(Block(pend, p[1], p[2]))'
  <2>1. p[1] = l /\ p[2] \in R /\ p = <<l, p[2]>>
    BY <1>19
  <2>2. PICK q : q = p[2]
    OBVIOUS
  <2>3. q \in c .. m - 1 /\ q \in DOMAIN pend[l] /\ pend[l][q].done
    BY <1>12, <2>1, <2>2
  <2>4. q \in Steps(l) /\ Fits(pend[l][q], l, q)'
    BY <1>11, <2>3
  <2>5. \A j \in Steps(l) : Out(l, j) => j < q
    <3>1. \A j \in Steps(l) : j \in Nat /\ (Out(l, j) => j < c)
      BY <1>c, <1>3, <1>5 DEF Out
    <3> QED
      BY <1>13, <2>3, <3>1
  <2>6. Out(l, q)'
    BY <1>3, <1>20, <1>21, <2>1, <2>2, <2>4
  <2>7. Block(pend, l, q) \in Line /\ Shown(Block(pend, l, q))'
    BY <1>3, <2>3, <2>4, <2>6, BlockShown
  <2> QED
    BY <1>3, <2>1, <2>2, <2>4, <2>5, <2>7
<1>23. PrintedInv' /\ \A k \in DOMAIN printed' :
          printed'[k].kind = "summary" => k \in DOMAIN printed /\ printed[k].kind = "summary"
  <2>1. printed' = printed \o Flushed(pend, S)
    BY <1>1 DEF S
  <2> QED
    BY <1>1, <1>3, <1>20, <1>21, <1>22, <2>1, PrintsBlocks
<1>24. EndInv'
  BY <1>1, <1>3, <1>23 DEF EndInv
<1> QED
  BY <1>3, <1>4, <1>18, <1>23, <1>24 DEF IInv

-----------------------------------------------------------------------------
(***************************************************************************)
(* The invariant, and what follows from it.                                *)
(***************************************************************************)
LEMMA Starts == Init => IInv
<1> SUFFICES ASSUME Init PROVE IInv
  OBVIOUS
<1>0. MaxChanges \in Nat /\ Buffer \in Nat
  BY BoundsAssumption
<1>1. \A l \in Lane : /\ at[l] = [i \in Steps(l) |-> "waiting"]
                      /\ sent[l] = [i \in Steps(l) |-> 0]
                      /\ running[l] = {} /\ DOMAIN pending[l] = {} /\ cursor[l] = 1
  BY DEF Init
<1>2. /\ DOMAIN at = Lane /\ DOMAIN sent = Lane /\ DOMAIN running = Lane
      /\ DOMAIN pending = Lane /\ DOMAIN cursor = Lane
  BY DEF Init
<1>3. /\ cancelled = {} /\ main = "runs" /\ events = <<>> /\ closed = FALSE
      /\ finished = [plan |-> 0, hooks |-> 0] /\ printed = <<>> /\ drawn = 0
      /\ smeared = FALSE /\ done = FALSE
  BY DEF Init
<1>4. \A l \in Lane : \A i \in Steps(l) : Told(l, i) = {} /\ Heard(l, i) = {}
  BY <1>1 DEF Told, Heard
<1>5. EngineInv
  <2>1. \A l \in Lane : at[l] \in [Steps(l) -> States]
    BY <1>1 DEF States
  <2>2. \A l \in Lane : sent[l] \in [Steps(l) -> 0 .. MaxChanges]
    <3> SUFFICES ASSUME NEW l \in Lane PROVE sent[l] \in [Steps(l) -> 0 .. MaxChanges]
      OBVIOUS
    <3>1. 0 \in 0 .. MaxChanges
      BY <1>0
    <3>2. sent[l] = [i \in Steps(l) |-> 0]
      BY <1>1
    <3> QED
      BY <3>1, <3>2
  <2>3. \A l \in Lane : \A i \in Steps(l) : sent[l][i] = 0
    <3> SUFFICES ASSUME NEW l \in Lane, NEW i \in Steps(l) PROVE sent[l][i] = 0
      OBVIOUS
    <3>1. sent[l] = [j \in Steps(l) |-> 0]
      BY <1>1
    <3> QED
      BY <3>1
  <2> QED
    BY <1>2, <1>3, <2>1, <2>2, <2>3 DEF EngineInv
<1>6. ChannelInv
  <2>1. events \in Seq(Event) /\ Len(events) = 0 /\ DOMAIN events = {}
    BY <1>3
  <2>2. \A l \in Lane : \A i \in Steps(l) : InLine(l, i) /\ Complete(l, i)
    BY <1>4, <2>1 DEF InLine, Complete, Of
  <2> QED
    BY <1>0, <2>1, <2>2 DEF ChannelInv
<1>7. RegionInv
  <2>1. {p \in PlanSteps : Final \in Heard(p[1], p[2])} = {}
    <3>1. \A p \in PlanSteps : p[1] \in Lane /\ p[2] \in Steps(p[1])
      BY StepsAssumption DEF PlanSteps, Steps
    <3> QED
      BY <1>4, <3>1
  <2>2. Cardinality({p \in PlanSteps : Final \in Heard(p[1], p[2])}) = 0
    BY <2>1, FS_EmptySet
  <2>3. \A l \in Lane : running[l] = {i \in Steps(l) : 0 \in Heard(l, i) /\ Final \notin Heard(l, i)}
    BY <1>1, <1>4
  <2>4. finished \in [plan : Nat, hooks : Nat] /\ finished.plan = 0
    BY <1>3
  <2>5. Height >= 3 => drawn <= Height - 1
    BY <1>3, BoundsAssumption
  <2> QED
    BY <1>2, <1>3, <2>2, <2>3, <2>4, <2>5 DEF RegionInv
<1>8. SequencerInv
  <2>1. ASSUME NEW l \in Lane PROVE LaneInv(l)
    <3>1. 1 \in 1 .. Plan[l] + HookSteps[l] + 1 /\ \A i \in Steps(l) : ~ (i < 1)
      BY StepsAssumption DEF Steps
    <3>2. ASSUME NEW i \in Steps(l) PROVE Fits(BlockOf(l, i), l, i)
      <4>1. BlockOf(l, i) = [changes |-> <<>>, done |-> FALSE, ok |-> FALSE]
        BY <1>1 DEF BlockOf, Indices
      <4>2. BlockOf(l, i) \in BlockType
        BY <4>1 DEF BlockType
      <4>3. <<>> = [n \in 1 .. Len(<<>>) |-> n] /\ \A n \in 1 .. MaxChanges : ~ (n <= Len(<<>>))
        BY <1>0
      <4> QED
        BY <1>4, <4>1, <4>2, <4>3 DEF Fits
    <3> QED
      BY <1>1, <3>1, <3>2 DEF LaneInv
  <2> QED
    BY <1>2, <2>1 DEF SequencerInv
<1>9. PrintedInv
  <2>1. printed \in Seq(Line) /\ DOMAIN printed = {}
    BY <1>3
  <2>2. \A l \in Lane : \A i \in Steps(l) : ~ Out(l, i)
    <3>1. \A l \in Lane : \A i \in Steps(l) : ~ (i < 1)
      BY StepsAssumption DEF Steps
    <3> QED
      BY <1>1, <1>3, <3>1 DEF Out
  <2> QED
    BY <2>1, <2>2 DEF PrintedInv, DeclarationOrder, BlocksOf
<1>10. EndInv
  <2>1. DOMAIN printed = {}
    BY <1>3
  <2>2. main # "over"
    BY <1>3
  <2> QED
    BY <1>3, <2>1, <2>2 DEF EndInv
<1> QED
  BY <1>5, <1>6, <1>7, <1>8, <1>9, <1>10 DEF IInv

\* Every step keeps the invariant.
LEMMA InvStep == IInv /\ [Next]_vars => IInv'
<1> SUFFICES ASSUME IInv, [Next]_vars PROVE IInv'
  OBVIOUS
<1>1. CASE UNCHANGED vars
  <2>1. UNCHANGED <<at, sent, cancelled, main, events, closed, running, finished, pending,
                    cursor, printed, drawn, smeared, done>>
    BY <1>1 DEF vars
  <2>2. EngineInv'
    BY <2>1, EngineSame DEF IInv, engine
  <2>3. ChannelInv' /\ \A m \in Lane : \A j \in Steps(m) : Heard(m, j)' = Heard(m, j)
    BY <2>1, ChannelSame DEF IInv
  <2>4. UNCHANGED consumer
    BY <2>1 DEF consumer
  <2>5. done => closed'
    BY <2>1 DEF IInv, EndInv
  <2> QED
    BY <2>1, <2>2, <2>3, <2>4, <2>5, Quiet
<1>2. CASE Next
  BY <1>1, <1>2, EngineStep, ExitStep, TickStep, BeginHeard, ErrorStep, ChangeHeard, ResultHeard,
     FinishStep DEF Next, Command, Consume
<1> QED
  BY <1>1, <1>2

\* The inductive invariant: the channel, the region, the blocks held back and
\* what is printed agree with what the steps told, at any number of lanes and
\* steps and any capacity of the channel.
THEOREM IInvHolds == Spec => []IInv
<1> QED
  BY Starts, InvStep, PTL DEF Spec

\* The engine, the channel and the consumer hold what the source declares.
THEOREM TypeCorrect == Spec => []TypeOK
<1>1. IInv => TypeOK
  <2> SUFFICES ASSUME IInv PROVE TypeOK
    OBVIOUS
  <2>1. EngineInv /\ ChannelInv /\ RegionInv /\ SequencerInv /\ PrintedInv
    BY DEF IInv
  <2>2. \A l \in Lane : /\ at[l] \in [Steps(l) -> {"waiting", "running", "failing", "settled",
                                                   "failed", "dropped"}]
                        /\ sent[l] \in [Steps(l) -> 0 .. MaxChanges]
    BY <2>1 DEF EngineInv, States
  <2>3. \A l \in Lane : running[l] \subseteq Steps(l)
    BY <2>1 DEF RegionInv
  <2>4. \A l \in Lane : Indices(l) \subseteq Steps(l) /\ cursor[l] \in 1 .. Plan[l] + HookSteps[l] + 1
    BY <2>1 DEF SequencerInv, LaneInv, Indices
  <2>5. finished \in [plan : 0 .. Cardinality(PlanSteps), hooks : Nat]
    <3> DEFINE A == {p \in PlanSteps : Final \in Heard(p[1], p[2])}
    <3>1. finished \in [plan : Nat, hooks : Nat] /\ finished.plan = Cardinality(A)
      BY <2>1 DEF RegionInv
    <3>2. A \subseteq PlanSteps
      OBVIOUS
    <3> HIDE DEF A
    <3>3. Cardinality(A) <= Cardinality(PlanSteps) /\ Cardinality(PlanSteps) \in Nat
      BY <3>2, PlanFinite, FS_Subset, FS_CardinalityType
    <3> QED
      BY <3>1, <3>3
  <2> QED
    BY <2>1, <2>2, <2>3, <2>4, <2>5 DEF TypeOK, EngineInv, ChannelInv, RegionInv, PrintedInv
<1> QED
  BY <1>1, IInvHolds, PTL

\* The terminal shows the run as it would look with its steps one by one: every
\* block whole, with its verdict, in its place, once, and none is lost when the
\* run fails or is interrupted.
THEOREM BlocksHold == Spec => []BlocksInOrder
<1>1. IInv => BlocksInOrder
  <2> SUFFICES ASSUME IInv PROVE BlocksInOrder
    OBVIOUS
  <2>1. EngineInv /\ SequencerInv /\ PrintedInv /\ EndInv /\ ChannelInv
    BY DEF IInv
  <2>2. ASSUME NEW l \in Lane, NEW k \in BlocksOf(l)
        PROVE  LET b == printed[k]
               IN  /\ b.index \in Steps(l) /\ Out(l, b.index) /\ Final \in Heard(l, b.index)
                   /\ b.changes = [n \in 1 .. sent[l][b.index] |-> n]
                   /\ b.ok = (at[l][b.index] = "settled")
    <3>1. k \in DOMAIN printed /\ printed[k].kind = "block" /\ printed[k].lane = l
      BY DEF BlocksOf
    <3>2. Shown(printed[k])
      BY <2>1, <3>1 DEF PrintedInv
    <3> QED
      BY <3>1, <3>2 DEF Shown
  <2>3. DeclarationOrder
    BY <2>1 DEF PrintedInv
  <2>4. WholeBlocks
    BY <2>2 DEF WholeBlocks
  <2>5. NothingStranded
    <3> SUFFICES ASSUME main = "over", NEW l \in Lane
                 PROVE  {printed[k].index : k \in BlocksOf(l)} = {i \in Steps(l) : IsSettled(l, i)}
      BY DEF NothingStranded, IsSettled
    <3>1. done /\ events = <<>>
      BY <2>1 DEF EndInv
    <3>2. \A i \in Steps(l) : Out(l, i) <=> IsSettled(l, i)
      <4>1. ASSUME NEW i \in Steps(l) PROVE Out(l, i) <=> IsSettled(l, i)
        <5>1. Of(l, i) = {}
          BY <3>1 DEF Of
        <5>2. Heard(l, i) = Told(l, i)
          BY <5>1 DEF Heard
        <5> QED
          BY <2>1, <3>1, <5>2, ToldAre DEF Out
      <4> QED
        BY <4>1
    <3>3. \A k \in BlocksOf(l) : printed[k].index \in Steps(l) /\ Out(l, printed[k].index)
      BY <2>2
    <3>4. \A i \in Steps(l) : Out(l, i) => \E k \in BlocksOf(l) : printed[k].index = i
      BY <2>1 DEF PrintedInv
    <3> QED
      BY <3>2, <3>3, <3>4
  <2>6. HeldForAReason
    <3>1. ASSUME NEW l \in Lane, cursor[l] \in Indices(l) PROVE ~ pending[l][cursor[l]].done
      <4>1. LaneInv(l) /\ ~ done
        BY <2>1, <3>1 DEF SequencerInv, EndInv, Indices
      <4> QED
        BY <3>1, <4>1 DEF LaneInv, Indices
    <3> QED
      BY <3>1 DEF HeldForAReason
  <2> QED
    BY <2>3, <2>4, <2>5, <2>6 DEF BlocksInOrder
<1> QED
  BY <1>1, IInvHolds, PTL

\* The end of a command comes in order: no step is left that could send into
\* the closed channel (a panic), and the summary is the last line.
THEOREM EndsHold == Spec => []EndsInOrder
<1>1. IInv => EndsInOrder
  BY DEF IInv, EngineInv, EndInv, EndsInOrder, NoSendAfterClose, SummaryLast
<1> QED
  BY <1>1, IInvHolds, PTL

\* The live region shows what runs and counts what ended, once the consumer has
\* caught up, and on three rows or more nothing of it stays in the scrollback.
THEOREM RegionHolds == Spec => []RegionIsTrue
<1>1. IInv => RegionIsTrue
  <2> SUFFICES ASSUME IInv PROVE RegionIsTrue
    OBVIOUS
  <2>1. EngineInv /\ RegionInv
    BY DEF IInv
  <2>2. ScrollbackIsClean
    BY <2>1 DEF RegionInv, ScrollbackIsClean
  <2>3. ASSUME events = <<>>, NEW l \in Lane, NEW i \in Steps(l)
        PROVE  /\ 0 \in Heard(l, i) <=> at[l][i] \notin {"waiting", "dropped"}
               /\ Final \in Heard(l, i) <=> at[l][i] \in {"settled", "failed"}
               /\ at[l][i] \in States
    <3>1. Of(l, i) = {}
      BY <2>3 DEF Of
    <3>2. Heard(l, i) = Told(l, i)
      BY <3>1 DEF Heard
    <3> QED
      BY <2>1, <3>2, ToldAre DEF IsSettled
  <2>4. RegionIsCurrent
    <3> SUFFICES ASSUME events = <<>>
                 PROVE  /\ \A l \in Lane : running[l] = {i \in Steps(l) : at[l][i] \in {"running", "failing"}}
                        /\ finished.plan =
                              Cardinality({p \in PlanSteps : at[p[1]][p[2]] \in {"settled", "failed"}})
      BY DEF RegionIsCurrent
    <3>1. ASSUME NEW l \in Lane
          PROVE  running[l] = {i \in Steps(l) : at[l][i] \in {"running", "failing"}}
      <4>1. running[l] = {i \in Steps(l) : 0 \in Heard(l, i) /\ Final \notin Heard(l, i)}
        BY <2>1 DEF RegionInv
      <4>2. \A i \in Steps(l) : 0 \in Heard(l, i) /\ Final \notin Heard(l, i)
                                <=> at[l][i] \in {"running", "failing"}
        BY <2>3 DEF States
      <4> QED
        BY <4>1, <4>2
    <3>2. \A p \in PlanSteps : p[1] \in Lane /\ p[2] \in Steps(p[1])
      BY StepsAssumption DEF PlanSteps, Steps
    <3>3. {p \in PlanSteps : Final \in Heard(p[1], p[2])}
          = {p \in PlanSteps : at[p[1]][p[2]] \in {"settled", "failed"}}
      BY <2>3, <3>2
    <3> QED
      BY <2>1, <3>1, <3>3 DEF RegionInv
  <2> QED
    BY <2>2, <2>4 DEF RegionIsTrue
<1> QED
  BY <1>1, IInvHolds, PTL
=============================================================================

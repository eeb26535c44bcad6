--------------------------- MODULE ShellPoolProofs ---------------------------
(***************************************************************************)
(* Proofs about ShellPool, for any number of commands, any supply of       *)
(* sessions and any MaxSessions.                                           *)
(***************************************************************************)
EXTENDS ShellPool, FiniteSetTheorems, SequenceTheorems, TLAPS

\* The sets the invariant counts are finite.
LEMMA Finite ==
    /\ IsFiniteSet(Holders) /\ Cardinality(Holders) \in Nat
    /\ IsFiniteSet(Using) /\ Cardinality(Using) \in Nat
    /\ Cardinality(Using) <= Cardinality(Holders)
<1>1. Holders \subseteq Caller /\ Using \subseteq Holders
  BY DEF Holders, Using
<1>2. IsFiniteSet(Holders)
  BY <1>1, PoolAssumption, FS_Subset
<1> QED
  BY <1>1, <1>2, FS_Subset, FS_CardinalityType

\* A command that leaves a finite set takes one from its size; one that enters
\* adds one.
LEMMA Leaves ==
    ASSUME NEW S, NEW T, IsFiniteSet(S), NEW c \in S, T = S \ {c}
    PROVE  Cardinality(T) = Cardinality(S) - 1
  BY FS_RemoveElement

LEMMA Enters ==
    ASSUME NEW S, NEW T, IsFiniteSet(S), NEW c, c \notin S, T = S \cup {c}
    PROVE  Cardinality(T) = Cardinality(S) + 1
  BY FS_AddElement

\* The size of a union.
LEMMA UnionSize ==
    ASSUME NEW S, IsFiniteSet(S), NEW T, IsFiniteSet(T)
    PROVE  /\ IsFiniteSet(S \cup T)
           /\ Cardinality(S \cup T) <= Cardinality(S) + Cardinality(T)
           /\ S \cap T = {} => Cardinality(S \cup T) = Cardinality(S) + Cardinality(T)
<1> DEFINE s == Cardinality(S)  t == Cardinality(T)  i == Cardinality(S \cap T)
           u == Cardinality(S \cup T)
<1>1. IsFiniteSet(S \cup T) /\ u = s + t - i
  BY FS_Union
<1>2. IsFiniteSet(S \cap T)
  BY FS_Intersection
<1>3. s \in Nat /\ t \in Nat /\ i \in Nat
  BY <1>2, FS_CardinalityType
<1>4. S \cap T = {} => i = 0
  BY FS_EmptySet
<1> HIDE DEF s, t, i, u
<1>5. u <= s + t /\ (S \cap T = {} => u = s + t)
  BY <1>1, <1>3, <1>4
<1> QED
  BY <1>1, <1>5 DEF s, t, u

\* The initial state satisfies the invariant.
LEMMA InitInv == Init => IInv
<1> SUFFICES ASSUME Init PROVE IInv
  OBVIOUS
<1> USE DEF Init
<1>1. TypeOK
  <2>1. free \in Seq(Session)
    OBVIOUS
  <2>2. tries \in [Caller -> 0 .. MaxTries]
    BY PoolAssumption
  <2> QED
    BY <2>1, <2>2 DEF TypeOK, Places
<1>2. Holders = {} /\ Using = {} /\ InUse = {} /\ Idle = {}
  BY DEF Holders, Using, InUse, Idle
<1>3. TokenInv /\ RoomInv
  BY <1>2, FS_EmptySet, PoolAssumption DEF TokenInv, RoomInv
<1>4. OwnInv /\ LiveInv /\ CutInv /\ CloseInv
  BY <1>2 DEF OwnInv, NoSharing, LiveInv, CutInv, NoRunAfterCutOff, CloseInv
<1> QED
  BY <1>1, <1>3, <1>4 DEF IInv

\* A step that moves no command and no session, and marks or closes some,
\* preserves the invariant.
LEMMA QuietInv ==
    ASSUME IInv, TypeOK', UNCHANGED <<pc, sess, sem, free, opened, cut, closed>>,
           unsafe \subseteq unsafe', dead \subseteq dead',
           \A c \in Caller : watch'[c] # "none" => watch[c] # "none"
    PROVE  IInv'
<1>1. /\ Holders' = Holders /\ Using' = Using /\ InUse' = InUse /\ Idle' = Idle
  BY DEF Holders, Using, InUse, Idle
<1>2. TokenInv' /\ RoomInv'
  BY <1>1 DEF IInv, TokenInv, RoomInv
<1>3. OwnInv'
  BY <1>1 DEF IInv, OwnInv, NoSharing
<1>4. LiveInv'
  BY <1>1 DEF IInv, LiveInv
<1>5. CutInv' /\ CloseInv'
  BY DEF IInv, CutInv, NoRunAfterCutOff, CloseInv, AllDone
<1> QED
  BY <1>2, <1>3, <1>4, <1>5 DEF IInv

\* The steps of the watchers and of the world are of that kind.
LEMMA WatcherInv ==
    ASSUME IInv, NEW c \in Caller, Watcher(c) PROVE IInv'
<1>0. watch[c] # "none" => sess[c] \in opened
  BY DEF IInv, OwnInv
<1>1. ASSUME NEW next \in {"blocked", "firing", "none"}, WatcherSelects(c, next)
      PROVE  IInv'
  <2>1. TypeOK'
    BY <1>1 DEF IInv, TypeOK, WatcherSelects, health
  <2>2. \A d \in Caller : watch'[d] # "none" => watch[d] # "none"
    BY <1>1 DEF IInv, TypeOK, WatcherSelects
  <2> QED
    BY <1>1, <2>1, <2>2, QuietInv DEF WatcherSelects, health
<1>2. CASE WatcherMarks(c)
  <2>1. TypeOK'
    BY <1>0, <1>2 DEF IInv, TypeOK, WatcherMarks
  <2>2. \A d \in Caller : watch'[d] # "none" => watch[d] # "none"
    BY <1>2 DEF IInv, TypeOK, WatcherMarks
  <2> QED
    BY <1>2, <2>1, <2>2, QuietInv DEF WatcherMarks
<1>3. CASE WatcherCloses(c)
  <2>1. TypeOK'
    BY <1>0, <1>3 DEF IInv, TypeOK, WatcherCloses
  <2>2. \A d \in Caller : watch'[d] # "none" => watch[d] # "none"
    BY <1>3 DEF IInv, TypeOK, WatcherCloses
  <2> QED
    BY <1>3, <2>1, <2>2, QuietInv DEF WatcherCloses
<1> QED
  BY <1>1, <1>2, <1>3 DEF Watcher

LEMMA ContextDoneInv ==
    ASSUME IInv, NEW c \in Caller, ContextDone(c) PROVE IInv'
<1> USE DEF ContextDone, health
<1>1. TypeOK'
  BY DEF IInv, TypeOK
<1>2. \A d \in Caller : watch'[d] # "none" => watch[d] # "none"
  BY DEF IInv, TypeOK
<1> QED
  BY <1>1, <1>2, QuietInv

LEMMA SessionDiesInv ==
    ASSUME IInv, NEW s \in Session, SessionDies(s) PROVE IInv'
<1> USE DEF SessionDies
<1>1. TypeOK'
  BY DEF IInv, TypeOK
<1> QED
  BY <1>1, QuietInv

-----------------------------------------------------------------------------
(***************************************************************************)
(* acquire.                                                                *)
(***************************************************************************)

\* A command that has no session before a step and none after it leaves the
\* sessions' owners alone.
LEMMA MoveInv ==
    ASSUME IInv, NEW c \in Caller,
           NEW here \in {"idle", "look", "opening", "backoff", "returning"},
           NEW next \in {"look", "opening", "backoff", "done"},
           At(c, here, next),
           UNCHANGED <<sess, watch, free, health, closed>>,
           TypeOK', TokenInv', RoomInv'
    PROVE  IInv'
<1> USE DEF At, health
<1>1. InUse' = InUse /\ Idle' = Idle
  BY DEF IInv, TypeOK, InUse, Idle
<1>2. OwnInv'
  BY <1>1 DEF IInv, OwnInv, NoSharing
<1>3. LiveInv'
  BY <1>1 DEF IInv, LiveInv
<1>4. CutInv' /\ CloseInv'
  BY DEF IInv, TypeOK, CutInv, NoRunAfterCutOff, CloseInv, AllDone
<1> QED
  BY <1>2, <1>3, <1>4 DEF IInv

LEMMA EnterInv ==
    ASSUME IInv, NEW c \in Caller, Enter(c) PROVE IInv'
<1> USE DEF Enter, At
<1>1. TypeOK'
  BY DEF IInv, TypeOK, Places, health
<1>2. TokenInv'
  <2>1. c \notin Holders /\ Holders' = Holders \cup {c}
    BY DEF IInv, TypeOK, Holders
  <2> QED
    BY <2>1, Finite, Enters, PoolAssumption DEF IInv, TokenInv
<1>3. RoomInv'
  <2>1. Using' = Using
    BY DEF IInv, TypeOK, Using
  <2> QED
    BY <2>1 DEF IInv, RoomInv
<1> QED
  BY <1>1, <1>2, <1>3, MoveInv

LEMMA EnterCancelledInv ==
    ASSUME IInv, NEW c \in Caller, EnterCancelled(c) PROVE IInv'
<1> USE DEF EnterCancelled, At
<1>1. TypeOK'
  BY DEF IInv, TypeOK, Places, health
<1>2. Holders' = Holders /\ Using' = Using
  BY DEF IInv, TypeOK, Holders, Using
<1>3. TokenInv' /\ RoomInv'
  BY <1>2 DEF IInv, TokenInv, RoomInv
<1> QED
  BY <1>1, <1>3, MoveInv

\* A session is opened when none is idle: tokens alone leave room for it.
LEMMA NoneFreeInv ==
    ASSUME IInv, NEW c \in Caller, NoneFree(c) PROVE IInv'
<1> USE DEF NoneFree, At
<1>1. TypeOK'
  BY DEF IInv, TypeOK, Places, health
<1>2. Holders' = Holders
  BY DEF IInv, TypeOK, Holders
<1>3. TokenInv'
  BY <1>2 DEF IInv, TokenInv
<1>4. RoomInv'
  <2>1. Len(free') = 0
    OBVIOUS
  <2>2. Using' \subseteq Holders
    BY DEF IInv, TypeOK, Holders, Using
  <2>3. Cardinality(Using') \in Nat /\ Cardinality(Using') <= Cardinality(Holders)
    BY <2>2, Finite, FS_Subset, FS_CardinalityType
  <2> QED
    BY <2>1, <2>3, Finite, PoolAssumption DEF IInv, TokenInv, RoomInv
<1> QED
  BY <1>1, <1>3, <1>4, MoveInv

LEMMA OpenFailsInv ==
    ASSUME IInv, NEW c \in Caller, OpenFails(c) PROVE IInv'
<1> USE DEF OpenFails, At
<1>1. TypeOK'
  BY PoolAssumption DEF IInv, TypeOK, Places, health
<1>2. Holders' = Holders
  BY DEF IInv, TypeOK, Holders
<1>3. TokenInv'
  BY <1>2 DEF IInv, TokenInv
<1>4. RoomInv'
  <2>1. c \in Using /\ Using' = Using \ {c}
    BY DEF IInv, TypeOK, Using
  <2>2. Cardinality(Using') = Cardinality(Using) - 1
    BY <2>1, Finite, Leaves
  <2>3. Len(free) \in Nat
    BY DEF IInv, TypeOK
  <2> QED
    BY <2>2, <2>3, Finite, PoolAssumption DEF IInv, RoomInv
<1> QED
  BY <1>1, <1>3, <1>4, MoveInv

LEMMA OpenGivesUpInv ==
    ASSUME IInv, NEW c \in Caller, OpenGivesUp(c) PROVE IInv'
<1> USE DEF OpenGivesUp, At
<1>1. c \in Holders /\ Holders' = Holders \ {c}
  BY DEF IInv, TypeOK, Holders
<1>2. c \in Using /\ Using' = Using \ {c}
  BY DEF IInv, TypeOK, Using
<1>3. /\ Cardinality(Holders') = Cardinality(Holders) - 1
      /\ Cardinality(Using') = Cardinality(Using) - 1
  BY <1>1, <1>2, Finite, Leaves
<1>4. Cardinality(Holders') \in Nat
  BY <1>1, Finite, FS_RemoveElement, FS_CardinalityType
<1>5. TypeOK'
  BY <1>3, <1>4 DEF IInv, TypeOK, TokenInv, Places, health
<1>6. TokenInv' /\ RoomInv'
  <2>1. Len(free) \in Nat
    BY DEF IInv, TypeOK
  <2> QED
    BY <1>3, <2>1, Finite, PoolAssumption DEF IInv, TokenInv, RoomInv
<1> QED
  BY <1>5, <1>6, MoveInv

LEMMA BackoffElapsesInv ==
    ASSUME IInv, NEW c \in Caller, BackoffElapses(c) PROVE IInv'
<1> USE DEF BackoffElapses, At
<1>1. TypeOK'
  BY DEF IInv, TypeOK, Places, health
<1>2. Holders' = Holders /\ Using' = Using
  BY DEF IInv, TypeOK, Holders, Using
<1>3. TokenInv' /\ RoomInv'
  BY <1>2 DEF IInv, TokenInv, RoomInv
<1> QED
  BY <1>1, <1>3, MoveInv

\* A command that ends without a session gives its token back.
LEMMA TokenBackInv ==
    ASSUME IInv, NEW c \in Caller, NEW here \in {"backoff", "returning"},
           At(c, here, "done"), sem' = sem - 1,
           UNCHANGED <<tries, sess, ctxDone, watch, free, health, closed>>
    PROVE  IInv'
<1> USE DEF At
<1>1. c \in Holders /\ Holders' = Holders \ {c}
  BY DEF IInv, TypeOK, Holders
<1>2. Using' = Using
  BY DEF IInv, TypeOK, Using
<1>3. Cardinality(Holders') = Cardinality(Holders) - 1
  BY <1>1, Finite, Leaves
<1>4. Cardinality(Holders') \in Nat
  BY <1>1, Finite, FS_RemoveElement, FS_CardinalityType
<1>5. TypeOK'
  BY <1>3, <1>4 DEF IInv, TypeOK, TokenInv, Places, health
<1>6. TokenInv' /\ RoomInv'
  BY <1>2, <1>3, Finite, PoolAssumption DEF IInv, TokenInv, RoomInv
<1> QED
  BY <1>5, <1>6, MoveInv

\* The head of free is idle no more, and its taker's alone.
LEMMA TakeFreeInv ==
    ASSUME IInv, NEW c \in Caller, TakeFree(c) PROVE IInv'
<1> USE DEF TakeFree, At, health
<1>1. /\ free \in Seq(Session) /\ Len(free) \in Nat \ {0}
      /\ Head(free) = free[1] /\ free[1] \in Session
      /\ Tail(free) \in Seq(Session) /\ Len(Tail(free)) = Len(free) - 1
      /\ \A i \in DOMAIN Tail(free) : i + 1 \in DOMAIN free /\ Tail(free)[i] = free[i + 1]
      /\ 1 \in DOMAIN free
  BY DEF IInv, TypeOK
<1>2. TypeOK'
  BY <1>1 DEF IInv, TypeOK, Places
<1>3. c \notin InUse /\ InUse' = InUse \cup {c}
  BY DEF IInv, TypeOK, InUse
<1>4. \A d \in Caller : sess'[d] = IF d = c THEN free[1] ELSE sess[d]
  BY <1>1 DEF IInv, TypeOK
<1>5. Idle' \subseteq Idle /\ Idle = Idle' \cup {free[1]} /\ free[1] \in Idle
  <2>1. \A s : s \in Idle' <=> \E i \in DOMAIN Tail(free) : s = free[i + 1]
    BY <1>1 DEF Idle
  <2>2. \A i \in DOMAIN free : i = 1 \/ (i - 1 \in DOMAIN Tail(free) /\ i = (i - 1) + 1)
    BY <1>1
  <2> QED
    BY <1>1, <2>1, <2>2 DEF Idle
<1>6. TokenInv'
  <2>1. Holders' = Holders
    BY DEF IInv, TypeOK, Holders
  <2> QED
    BY <2>1 DEF IInv, TokenInv
<1>7. RoomInv'
  <2>1. c \notin Using /\ Using' = Using \cup {c}
    BY DEF IInv, TypeOK, Using
  <2>2. Cardinality(Using') = Cardinality(Using) + 1
    BY <2>1, Finite, Enters
  <2> QED
    BY <1>1, <2>2, Finite, PoolAssumption DEF IInv, RoomInv
<1>8. OwnInv'
  <2>1. \A d \in Caller : d \in InUse' \/ watch'[d] # "none" => sess'[d] \in opened'
    BY <1>3, <1>4, <1>5 DEF IInv, OwnInv
  <2>2. Idle' \subseteq opened'
    BY <1>5 DEF IInv, OwnInv
  <2>3. \A d \in InUse : sess[d] \notin Idle
    BY DEF IInv, OwnInv, NoSharing, Idle
  <2>4. \A d, e \in InUse' : d # e => sess'[d] # sess'[e]
    BY <1>3, <1>4, <1>5, <2>3 DEF IInv, OwnInv, NoSharing, InUse
  <2>5. \A i, j \in DOMAIN free' : i # j => free'[i] # free'[j]
    BY <1>1 DEF IInv, OwnInv, NoSharing
  <2>6. free[1] \notin Idle'
    BY <1>1 DEF IInv, OwnInv, NoSharing, Idle
  <2>7. \A d \in InUse' : sess'[d] \notin Idle'
    BY <1>3, <1>4, <1>5, <2>3, <2>6 DEF InUse
  <2> QED
    BY <2>1, <2>2, <2>4, <2>5, <2>7 DEF OwnInv, NoSharing, Idle
<1>9. LiveInv'
  BY <1>3, <1>4, <1>5 DEF IInv, LiveInv, InUse
<1>10. CutInv' /\ CloseInv'
  BY <1>4 DEF IInv, TypeOK, CutInv, NoRunAfterCutOff, CloseInv, AllDone
<1> QED
  BY <1>2, <1>6, <1>7, <1>8, <1>9, <1>10 DEF IInv

\* A session that was never opened before is nobody else's.
LEMMA OpenSucceedsInv ==
    ASSUME IInv, NEW c \in Caller, NEW s \in Session, OpenSucceeds(c, s) PROVE IInv'
<1> USE DEF OpenSucceeds, At
<1>1. TypeOK'
  BY DEF IInv, TypeOK, Places
<1>2. c \notin InUse /\ InUse' = InUse \cup {c} /\ Idle' = Idle
  BY DEF IInv, TypeOK, InUse, Idle
<1>3. \A d \in Caller : sess'[d] = IF d = c THEN s ELSE sess[d]
  BY DEF IInv, TypeOK
<1>4. Holders' = Holders /\ Using' = Using
  BY DEF IInv, TypeOK, Holders, Using
<1>5. TokenInv' /\ RoomInv'
  BY <1>4 DEF IInv, TokenInv, RoomInv
<1>6. OwnInv'
  <2>1. \A d \in Caller : d \in InUse' \/ watch'[d] # "none" => sess'[d] \in opened'
    BY <1>2, <1>3 DEF IInv, OwnInv
  <2>2. Idle' \subseteq opened'
    BY <1>2 DEF IInv, OwnInv
  <2>3. \A d \in InUse : sess[d] # s
    BY DEF IInv, OwnInv, InUse
  <2>4. s \notin Idle
    BY DEF IInv, OwnInv
  <2>5. \A d, e \in InUse' : d # e => sess'[d] # sess'[e]
    BY <1>2, <1>3, <2>3 DEF IInv, OwnInv, NoSharing, InUse
  <2>6. \A d \in InUse' : sess'[d] \notin Idle
    BY <1>2, <1>3, <2>4 DEF IInv, OwnInv, NoSharing, InUse, Idle
  <2> QED
    BY <2>1, <2>2, <2>5, <2>6 DEF IInv, OwnInv, NoSharing, Idle
<1>7. LiveInv'
  BY <1>2, <1>3 DEF IInv, LiveInv, InUse
<1>8. CutInv' /\ CloseInv'
  BY <1>3 DEF IInv, TypeOK, CutInv, NoRunAfterCutOff, CloseInv, AllDone
<1> QED
  BY <1>1, <1>5, <1>6, <1>7, <1>8 DEF IInv

-----------------------------------------------------------------------------
(***************************************************************************)
(* run, release and Close.                                                 *)
(***************************************************************************)

\* A command that keeps its session through a step.
LEMMA RunInv ==
    ASSUME IInv, NEW c \in Caller, NEW here \in {"held", "running"},
           NEW next \in {"running", "ran"}, At(c, here, next),
           UNCHANGED <<tries, sess, ctxDone, sem, free, opened, dead, closed>>,
           watch' \in [Caller -> {"none", "starting", "blocked", "firing", "closing"}],
           \A d \in Caller \ {c} : watch'[d] = watch[d],
           unsafe \subseteq unsafe', unsafe' \subseteq unsafe \cup {sess[c]},
           cut \subseteq cut', cut' \subseteq cut \cup {sess[c]}, cut' \subseteq unsafe',
           next = "running" => sess[c] \notin cut /\ cut' = cut
    PROVE  IInv'
<1> USE DEF At
<1>1. InUse' = InUse /\ c \in InUse /\ Idle' = Idle
  BY DEF IInv, TypeOK, InUse, Idle
<1>2. Holders' = Holders /\ Using' = Using
  BY DEF IInv, TypeOK, Holders, Using
<1>3. sess[c] \in opened
  BY <1>1 DEF IInv, OwnInv
<1>4. TypeOK'
  BY <1>3 DEF IInv, TypeOK, Places
<1>5. TokenInv' /\ RoomInv'
  BY <1>2 DEF IInv, TokenInv, RoomInv
<1>6. OwnInv'
  BY <1>1, <1>3 DEF IInv, OwnInv, NoSharing
<1>7. LiveInv'
  BY <1>1 DEF IInv, LiveInv
<1>8. CutInv'
  <2>1. \A d \in Caller : pc'[d] = "running" /\ d # c => sess[d] # sess[c] /\ pc[d] = "running"
    BY <1>1 DEF IInv, TypeOK, OwnInv, NoSharing, InUse
  <2> QED
    BY <2>1 DEF IInv, TypeOK, CutInv, NoRunAfterCutOff
<1>9. CloseInv'
  BY DEF IInv, TypeOK, CloseInv, AllDone
<1> QED
  BY <1>4, <1>5, <1>6, <1>7, <1>8, <1>9 DEF IInv

\* A run that is refused, starts, succeeds or fails is such a step.
LEMMA RunsInv ==
    ASSUME IInv, NEW c \in Caller, Run(c) \/ RunSucceeds(c) PROVE IInv'
<1>1. CASE RunRefused(c)
  BY <1>1, RunInv DEF RunRefused, IInv, TypeOK, CutInv, health
<1>2. CASE RunStarts(c)
  <2>1. sess[c] \notin cut
    BY <1>2 DEF RunStarts, IInv, CutInv
  <2>2. /\ watch' \in [Caller -> {"none", "starting", "blocked", "firing", "closing"}]
        /\ \A d \in Caller \ {c} : watch'[d] = watch[d]
    BY <1>2 DEF RunStarts, IInv, TypeOK
  <2> QED
    BY <1>2, <2>1, <2>2, RunInv DEF RunStarts, IInv, CutInv, health
<1>3. ASSUME watch' = DoneRead(c)
      PROVE  /\ watch' \in [Caller -> {"none", "starting", "blocked", "firing", "closing"}]
             /\ \A d \in Caller \ {c} : watch'[d] = watch[d]
  BY <1>3 DEF DoneRead, IInv, TypeOK
<1>4. CASE RunSucceeds(c)
  BY <1>3, <1>4, RunInv DEF RunSucceeds, IInv, CutInv, health
<1>5. CASE RunFails(c)
  BY <1>3, <1>5, RunInv DEF RunFails, IInv, CutInv
<1> QED
  BY <1>1, <1>2, <1>4, <1>5 DEF Run

\* A session is given back to the pool, or closed.
LEMMA ReleaseInv ==
    ASSUME IInv, NEW c \in Caller, Release(c) PROVE IInv'
<1> USE DEF Release, At
<1>1. c \in InUse /\ InUse' = InUse \ {c}
  BY DEF IInv, TypeOK, InUse
<1>2. sess[c] \in opened /\ sess[c] \in Session
  BY <1>1 DEF IInv, TypeOK, OwnInv
<1>3. TokenInv'
  <2>1. Holders' = Holders
    BY DEF IInv, TypeOK, Holders
  <2> QED
    BY <2>1 DEF IInv, TokenInv
<1>4. /\ Cardinality(Using') = Cardinality(Using) - 1 /\ Cardinality(Using) \in Nat
      /\ Len(free) \in Nat
  <2>1. c \in Using /\ Using' = Using \ {c}
    BY DEF IInv, TypeOK, Using
  <2> QED
    BY <2>1, Finite, Leaves DEF IInv, TypeOK
<1>5. CutInv' /\ CloseInv'
  BY <1>1 DEF IInv, TypeOK, CutInv, NoRunAfterCutOff, CloseInv, AllDone
<1>6. CASE sess[c] \notin unsafe /\ Len(free) < Max
  <2>1. free' = Append(free, sess[c]) /\ UNCHANGED <<unsafe, dead>>
    BY <1>6
  <2>2. /\ free' \in Seq(Session) /\ Len(free') = Len(free) + 1
        /\ DOMAIN free = 1 .. Len(free) /\ DOMAIN free' = 1 .. Len(free) + 1
        /\ \A i \in DOMAIN free : free'[i] = free[i]
        /\ free'[Len(free) + 1] = sess[c]
    BY <1>2, <2>1 DEF IInv, TypeOK
  <2>3. TypeOK'
    BY <2>1, <2>2 DEF IInv, TypeOK, Places
  <2>4. RoomInv'
    BY <1>4, <2>2, PoolAssumption DEF IInv, RoomInv
  <2>5. Idle' = Idle \cup {sess[c]}
    BY <1>4, <2>2 DEF Idle
  <2>6. sess[c] \notin Idle
    BY <1>1 DEF IInv, OwnInv, NoSharing, Idle
  <2>7. OwnInv'
    <3>1. \A d \in Caller : d \in InUse' \/ watch'[d] # "none" => sess'[d] \in opened'
      BY <1>1 DEF IInv, OwnInv
    <3>2. Idle' \subseteq opened'
      BY <1>2, <2>5 DEF IInv, OwnInv
    <3>3. \A d \in InUse' : sess'[d] \notin Idle'
      BY <1>1, <2>5 DEF IInv, OwnInv, NoSharing, Idle
    <3>4. \A i, j \in DOMAIN free' : i # j => free'[i] # free'[j]
      BY <1>4, <2>2, <2>6 DEF IInv, OwnInv, NoSharing, Idle
    <3>5. \A d, e \in InUse' : d # e => sess'[d] # sess'[e]
      BY <1>1 DEF IInv, OwnInv, NoSharing
    <3> QED
      BY <3>1, <3>2, <3>3, <3>4, <3>5 DEF OwnInv, NoSharing, Idle
  <2>8. LiveInv'
    BY <1>1, <2>1, <2>5 DEF IInv, LiveInv
  <2> QED
    BY <1>3, <1>5, <2>3, <2>4, <2>7, <2>8 DEF IInv
<1>7. CASE ~(sess[c] \notin unsafe /\ Len(free) < Max)
  <2>1. /\ unsafe' = unsafe \cup {sess[c]} /\ dead' = dead \cup {sess[c]}
        /\ free' = free /\ Idle' = Idle
    BY <1>7 DEF Idle
  <2>2. TypeOK'
    BY <1>2, <2>1 DEF IInv, TypeOK, Places
  <2>3. RoomInv'
    BY <1>4, <2>1, PoolAssumption DEF IInv, RoomInv
  <2>4. OwnInv'
    BY <1>1, <2>1 DEF IInv, OwnInv, NoSharing
  <2>5. LiveInv'
    BY <1>1, <2>1 DEF IInv, LiveInv
  <2> QED
    BY <1>3, <1>5, <2>2, <2>3, <2>4, <2>5 DEF IInv
<1> QED
  BY <1>6, <1>7

\* Nobody has a session when Close runs, and it closes those that are idle.
LEMMA CloseStepInv ==
    ASSUME IInv, Close PROVE IInv'
<1> USE DEF Close
<1>1. InUse = {} /\ InUse' = {} /\ Using' = Using /\ Holders' = Holders
  BY DEF IInv, TypeOK, AllDone, InUse, Using, Holders
<1>2. Idle' = {} /\ unsafe' = unsafe \cup Idle /\ dead' = dead \cup Idle
  BY DEF Idle
<1>3. Idle \subseteq opened
  BY DEF IInv, OwnInv
<1>4. TypeOK'
  <2>1. free' \in Seq(Session)
    OBVIOUS
  <2> QED
    BY <1>2, <1>3, <2>1 DEF IInv, TypeOK
<1>5. TokenInv'
  BY <1>1 DEF IInv, TokenInv
<1>6. RoomInv'
  <2>1. Len(free') = 0 /\ Len(free) \in Nat
    BY DEF IInv, TypeOK
  <2> QED
    BY <1>1, <2>1, Finite, PoolAssumption DEF IInv, RoomInv
<1>7. OwnInv'
  BY <1>1, <1>2 DEF IInv, OwnInv, NoSharing
<1>8. opened' \subseteq dead'
  BY <1>1, <1>2 DEF IInv, LiveInv
<1>9. LiveInv' /\ CutInv' /\ CloseInv'
  BY <1>2, <1>8 DEF IInv, LiveInv, CutInv, NoRunAfterCutOff, CloseInv, AllDone
<1> QED
  BY <1>4, <1>5, <1>6, <1>7, <1>9 DEF IInv

\* Every step preserves the invariant.
LEMMA NextInv == IInv /\ [Next]_vars => IInv'
<1> SUFFICES ASSUME IInv, [Next]_vars PROVE IInv'
  OBVIOUS
<1>1. ASSUME NEW c \in Caller, Acquire(c) PROVE IInv'
  <2>1. CASE BackoffCancelled(c)
    BY <2>1, TokenBackInv DEF BackoffCancelled
  <2> QED
    BY <1>1, <2>1, EnterInv, EnterCancelledInv, TakeFreeInv, NoneFreeInv, OpenSucceedsInv,
       OpenFailsInv, OpenGivesUpInv, BackoffElapsesInv DEF Acquire
<1>2. ASSUME NEW c \in Caller, Returns(c) PROVE IInv'
  <2>1. CASE ReturnToken(c)
    BY <2>1, TokenBackInv DEF ReturnToken
  <2> QED
    BY <1>2, <2>1, ReleaseInv DEF Returns
<1>3. CASE UNCHANGED vars
  <2>1. TypeOK'
    BY <1>3 DEF IInv, TypeOK, vars
  <2> QED
    BY <1>3, <2>1, QuietInv DEF vars
<1> QED
  BY <1>1, <1>2, <1>3, RunsInv, WatcherInv, ContextDoneInv, SessionDiesInv, CloseStepInv
  DEF Next, Finished

-----------------------------------------------------------------------------
(***************************************************************************)
(* What the invariant gives.                                               *)
(***************************************************************************)

\* Tokens are exact, the sessions used and idle fit in MaxSessions, every open
\* session is idle or in use, and none is both or in use twice.
THEOREM IInvHolds == Spec => []IInv
  BY InitInv, NextInv, PTL DEF Spec

\* shellPool and its commands keep their state well-formed: sem, in particular,
\* is never received from when no token is in it.
THEOREM TypeCorrect == Spec => []TypeOK
<1>1. IInv => TypeOK
  BY DEF IInv
<1> QED
  BY <1>1, IInvHolds, PTL

\* acquire hands a session to one command, and release puts it in the pool only
\* when that command has ended.
THEOREM SessionsUnshared == Spec => []NoSharing
<1>1. IInv => NoSharing
  BY DEF IInv, OwnInv
<1> QED
  BY <1>1, IInvHolds, PTL

\* The channels open or being opened are never more than MaxSessions.
THEOREM LimitKept == Spec => []ServerLimit
<1>1. ASSUME IInv PROVE ServerLimit
  <2> DEFINE Taken == {sess[c] : c \in InUse}
  <2>1. InUse \subseteq Using /\ Opening \subseteq Using
        /\ InUse \cup Opening = Using /\ InUse \cap Opening = {}
    BY DEF InUse, Opening, Using
  <2>2. /\ IsFiniteSet(InUse) /\ Cardinality(InUse) \in Nat
        /\ IsFiniteSet(Opening) /\ Cardinality(Opening) \in Nat
    BY <2>1, Finite, FS_Subset, FS_CardinalityType
  <2>3. Cardinality(InUse) + Cardinality(Opening) = Cardinality(Using)
    BY <2>1, <2>2, UnionSize
  <2>4. IsFiniteSet(Taken) /\ Cardinality(Taken) <= Cardinality(InUse)
    <3> DEFINE f == [c \in InUse |-> sess[c]]
    <3>1. f \in Surjection(InUse, Taken)
      BY DEF Surjection
    <3> HIDE DEF f, Taken
    <3> QED
      BY <2>2, <3>1, FS_Surjection
  <2>5. IsFiniteSet(Idle) /\ Cardinality(Idle) <= Len(free)
    <3>1. /\ DOMAIN free = 1 .. Len(free) /\ Len(free) \in Nat
          /\ free = [i \in 1 .. Len(free) |-> free[i]]
      BY <1>1 DEF IInv, TypeOK
    <3>2. free \in Surjection(1 .. Len(free), Idle)
      BY <3>1 DEF Surjection, Idle
    <3>3. IsFiniteSet(1 .. Len(free)) /\ Cardinality(1 .. Len(free)) = Len(free)
      <4>1. 1 \in Int /\ Len(free) \in Int /\ ~(1 > Len(free) /\ Len(free) # 0)
        BY <3>1
      <4> HIDE DEF Taken
      <4>2. /\ IsFiniteSet(1 .. Len(free))
            /\ Cardinality(1 .. Len(free)) =
                   IF 1 > Len(free) THEN 0 ELSE Len(free) - 1 + 1
        BY <4>1, FS_Interval
      <4> QED
        BY <3>1, <4>2
    <3> QED
      BY <3>2, <3>3, FS_Surjection
  <2>6. opened \ dead \subseteq Idle \cup Taken
    BY <1>1 DEF IInv, LiveInv
  <2> HIDE DEF Taken
  <2>7. /\ IsFiniteSet(Idle \cup Taken)
        /\ Cardinality(Idle \cup Taken) <= Cardinality(Idle) + Cardinality(Taken)
    BY <2>4, <2>5, UnionSize
  <2>8. /\ Cardinality(opened \ dead) <= Cardinality(Idle \cup Taken)
        /\ Cardinality(opened \ dead) \in Nat /\ Cardinality(Idle \cup Taken) \in Nat
    BY <2>6, <2>7, FS_Subset, FS_CardinalityType
  <2>9. /\ Cardinality(Idle) \in Nat /\ Cardinality(Taken) \in Nat /\ Len(free) \in Nat
    BY <1>1, <2>4, <2>5, FS_CardinalityType DEF IInv, TypeOK
  <2> QED
    BY <1>1, <2>2, <2>3, <2>4, <2>5, <2>7, <2>8, <2>9, Finite, PoolAssumption
    DEF IInv, RoomInv, ServerLimit
<1> QED
  BY <1>1, IInvHolds, PTL

\* A run that was cut off marks its session, and run refuses a marked one.
THEOREM NoRunOnCutStream == Spec => []NoRunAfterCutOff
<1>1. IInv => NoRunAfterCutOff
  BY DEF IInv, CutInv
<1> QED
  BY <1>1, IInvHolds, PTL

\* Refused, cancelled and failed commands give back what they took.
THEOREM TokensBack == Spec => []TokensReturned
<1>1. ASSUME IInv PROVE TokensReturned
  <2>1. AllDone => Holders = {}
    BY DEF AllDone, Holders
  <2> QED
    BY <1>1, <2>1, FS_EmptySet DEF IInv, TokenInv, TokensReturned
<1> QED
  BY <1>1, IInvHolds, PTL

\* closeAll finds every session its last command did not close.
THEOREM SessionsClosed == Spec => []NoSessionLeft
<1>1. IInv => NoSessionLeft
  BY DEF IInv, CloseInv, NoSessionLeft
<1> QED
  BY <1>1, IInvHolds, PTL

\* One stream serves one command at a time, and none after a broken frame.
THEOREM StreamsHold == Spec => []StreamsApart
<1>1. NoSharing /\ NoRunAfterCutOff => StreamsApart
  BY DEF StreamsApart
<1> QED
  BY <1>1, SessionsUnshared, NoRunOnCutStream, PTL

\* Neither a token nor a session is kept by a command that has ended.
THEOREM LeaksNothing == Spec => []NothingLeaks
<1>1. TokensReturned /\ NoSessionLeft => NothingLeaks
  BY DEF NothingLeaks
<1> QED
  BY <1>1, TokensBack, SessionsClosed, PTL
=============================================================================

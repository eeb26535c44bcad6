----------------------------- MODULE HooksProofs -----------------------------
(***************************************************************************)
(* Proofs about Hooks, for every configuration: what the queue holds, in   *)
(* which order, and what has run of it when the process ends.              *)
(***************************************************************************)
EXTENDS Hooks, SequencesExt,
        FiniteSetTheorems, WellFoundedInduction, SequenceTheorems, TLAPS

-----------------------------------------------------------------------------
(***************************************************************************)
(* The theorems of the library that state induction cannot be cited, so an *)
(* induction here takes the least position at which a property fails.      *)
(***************************************************************************)

\* A set of natural numbers has a least one, which is what an induction over
\* positions rests on.
LEMMA Least ==
  ASSUME NEW T \in SUBSET Nat, T # {}
  PROVE  \E n \in T : \A m \in T : n <= m
<1> DEFINE U == {T \cap (0 .. n) : n \in T}
<1>1. U \subseteq FiniteSubsetsOf(T) /\ U # {}
  <2>1. ASSUME NEW n \in T PROVE IsFiniteSet(T \cap (0 .. n))
    <3>1. n \in Int /\ IsFiniteSet(0 .. n)
      BY FS_Interval
    <3> QED
      BY <3>1, FS_Intersection
  <2> QED
    BY <2>1 DEF FiniteSubsetsOf
<1>2. PICK A \in U : \A B \in U : ~ (<<B, A>> \in StrictSubsetOrdering(T))
  <2> HIDE DEF U
  <2> QED BY <1>1, FS_StrictSubsetOrderingWellFounded, WFMin
<1>3. PICK n \in T : A = T \cap (0 .. n)
  BY <1>2
<1>4. ASSUME NEW m \in T, m < n PROVE FALSE
  <2>1. T \cap (0 .. m) \in U /\ T \cap (0 .. m) \subseteq A /\ n \in A /\ n \notin T \cap (0 .. m)
    BY <1>3, <1>4
  <2> QED
    BY <1>2, <2>1, <1>3 DEF StrictSubsetOrdering
<1> QED
  BY <1>4

\* And a bounded one has a greatest, which is what Max chooses.
LEMMA Greatest ==
  ASSUME NEW T \in SUBSET Nat, NEW b \in Nat, T # {}, \A n \in T : n <= b
  PROVE  Max(T) \in T /\ \A m \in T : m <= Max(T)
<1> DEFINE U == {b - n : n \in T}
<1>1. PICK u \in U : \A v \in U : u <= v
  <2>1. \A n \in T : b - n \in Nat
    OBVIOUS
  <2>2. U \in SUBSET Nat /\ U # {}
    BY <2>1
  <2> HIDE DEF U
  <2> QED BY <2>2, Least
<1>2. PICK n \in T : u = b - n
  BY <1>1
<1>3. \A m \in T : n >= m
  BY <1>1, <1>2
<1> QED
  BY <1>3 DEF Max

\* The sequences of a sequence, joined: what is reached after each of them.
LEMMA FlattenFold ==
  ASSUME NEW S, NEW ss \in Seq(Seq(S)), ss # <<>>
  PROVE  \E f : /\ FlattenSeq(ss) = f[Len(ss)] /\ f[1] = ss[1]
                /\ \A i \in 2 .. Len(ss) : f[i] = f[i - 1] \o ss[i]
<1> DEFINE n == Len(ss)
           Body(g, i) == IF i = 1 THEN ss[i] ELSE g[i - 1] \o ss[i]
           Good(m) == \E g : \A i \in 1 .. m : g[i] = Body(g, i)
<1>1. n \in Nat /\ n # 0
  OBVIOUS
<1>2. \A m \in Nat : Good(m)
  <2> SUFFICES ASSUME NEW k \in Nat, ~ Good(k) PROVE FALSE
    OBVIOUS
  <2>1. PICK m \in Nat : ~ Good(m) /\ \A j \in Nat : j < m => Good(j)
    <3> HIDE DEF Good
    <3> DEFINE T == {j \in Nat : ~ Good(j)}
    <3>1. T \in SUBSET Nat /\ T # {}
      OBVIOUS
    <3>2. PICK m \in T : \A j \in T : m <= j
      <4> HIDE DEF T
      <4> QED
        BY <3>1, Least
    <3> QED
      BY <3>2
  <2>2. CASE m = 0
    BY <2>1, <2>2
  <2>3. CASE m > 0
    <3>1. m - 1 \in Nat /\ m - 1 < m
      BY <2>3
    <3>2. Good(m - 1)
      BY <2>1, <3>1
    <3>3. PICK g : \A i \in 1 .. m - 1 : g[i] = Body(g, i)
      BY <3>2
    <3> DEFINE h == [i \in 1 .. m |-> IF i < m THEN g[i] ELSE Body(g, i)]
    <3>4. \A i \in 1 .. m : h[i] = Body(h, i)
      BY <3>3
    <3> QED
      BY <2>1, <3>4
  <2> QED
    BY <2>2, <2>3
<1> DEFINE f == CHOOSE g : g = [i \in 1 .. Len(ss) |-> Body(g, i)]
<1>3. \E g : g = [i \in 1 .. Len(ss) |-> Body(g, i)]
  <2>1. PICK g : \A i \in 1 .. n : g[i] = Body(g, i)
    BY <1>1, <1>2
  <2> DEFINE h == [i \in 1 .. n |-> g[i]]
  <2>2. \A i \in 1 .. n : Body(g, i) = Body(h, i)
    BY <1>1
  <2>3. h = [i \in 1 .. Len(ss) |-> Body(h, i)]
    BY <2>1, <2>2
  <2> QED
    BY <2>3
<1>4. f = [i \in 1 .. Len(ss) |-> Body(f, i)]
  BY <1>3
<1>5. FlattenSeq(ss) = f[Len(ss)]
  BY <1>1 DEF FlattenSeq
<1> HIDE DEF f
<1>6. 1 \in 1 .. Len(ss) /\ \A i \in 2 .. Len(ss) : i \in 1 .. Len(ss) /\ i # 1
  BY <1>1
<1>7. f[1] = ss[1]
  BY <1>4, <1>6
<1>8. ASSUME NEW i \in 2 .. Len(ss) PROVE f[i] = f[i - 1] \o ss[i]
  BY <1>4, <1>6
<1> QED
  BY <1>5, <1>7, <1>8

\* A joined sequence holds what the sequences hold; and each of them ends before
\* anything of a later one begins.
LEMMA Flattened ==
  ASSUME NEW S, NEW ss \in Seq(Seq(S))
  PROVE  LET z == FlattenSeq(ss)
         IN  /\ z \in Seq(S)
             /\ Range(z) = UNION {Range(ss[i]) : i \in DOMAIN ss}
             /\ \A i \in DOMAIN ss : \A x \in Range(ss[i]) :
                   \E p \in DOMAIN z :
                      /\ z[p] = x
                      /\ \A o \in 1 .. p : \E m \in 1 .. i : z[o] \in Range(ss[m])
<1>1. CASE ss = <<>>
  BY <1>1 DEF FlattenSeq, Range
<1>2. CASE ss # <<>>
  <2> DEFINE n == Len(ss)
             z == FlattenSeq(ss)
  <2>1. n \in Nat /\ n # 0 /\ DOMAIN ss = 1 .. n /\ \A i \in 1 .. n : ss[i] \in Seq(S)
    BY <1>2
  <2>2. PICK f : /\ z = f[n] /\ f[1] = ss[1]
                 /\ \A i \in 2 .. n : f[i] = f[i - 1] \o ss[i]
    BY <1>2, FlattenFold
  <2> HIDE DEF n, z
  <2> DEFINE All(i) == UNION {Range(ss[m]) : m \in 1 .. i}
             Good(i) ==
               /\ f[i] \in Seq(S) /\ Range(f[i]) = All(i)
               /\ \A k \in 1 .. i : \A x \in Range(ss[k]) :
                     \E p \in 1 .. Len(f[i]) :
                        f[i][p] = x /\ \A o \in 1 .. p : f[i][o] \in All(k)
  <2>3. Good(1)
    <3>1. f[1] \in Seq(S) /\ DOMAIN ss[1] = 1 .. Len(ss[1]) /\ f[1] = ss[1]
      BY <2>1, <2>2
    <3>2. Range(ss[1]) = {ss[1][p] : p \in 1 .. Len(ss[1])} /\ Len(ss[1]) \in Nat
      BY <3>1 DEF Range
    <3>3. All(1) = Range(ss[1])
      OBVIOUS
    <3>4. \A k \in 1 .. 1 : k = 1
      OBVIOUS
    <3>5. ASSUME NEW x \in Range(ss[1])
          PROVE  \E p \in 1 .. Len(f[1]) :
                    f[1][p] = x /\ \A o \in 1 .. p : f[1][o] \in All(1)
      <4>1. PICK p \in 1 .. Len(ss[1]) : ss[1][p] = x
        BY <3>2
      <4>2. \A o \in 1 .. p : f[1][o] \in All(1)
        BY <3>1, <3>2, <3>3
      <4> QED
        BY <3>1, <4>1, <4>2
    <3> HIDE DEF All
    <3> QED
      BY <3>1, <3>3, <3>4, <3>5
  <2>4. ASSUME NEW i \in 2 .. n, Good(i - 1) PROVE Good(i)
    <3> DEFINE a == f[i - 1]
               b == ss[i]
               c == f[i]
    <3>1. /\ a \in Seq(S) /\ b \in Seq(S) /\ c = a \o b /\ Range(a) = All(i - 1) /\ i \in Nat
          /\ \A k \in 1 .. i - 1 : \A x \in Range(ss[k]) :
                \E p \in 1 .. Len(a) : a[p] = x /\ \A o \in 1 .. p : a[o] \in All(k)
      <4>1. i \in Nat /\ i \in 1 .. n
        BY <2>1
      <4>2. b \in Seq(S)
        BY <2>1, <4>1
      <4>3. c = a \o b
        BY <2>2
      <4> QED
        BY <2>4, <4>1, <4>2, <4>3
    <3>2. All(i) = All(i - 1) \cup Range(b)
      BY <3>1
    <3> HIDE DEF a, b, c, All
    <3>3. /\ c \in Seq(S) /\ Len(c) = Len(a) + Len(b) /\ Len(a) \in Nat /\ Len(b) \in Nat
          /\ \A o \in 1 .. Len(a) : c[o] = a[o]
          /\ \A o \in 1 .. Len(b) : c[Len(a) + o] = b[o]
      BY <3>1
    <3>4. Range(c) = All(i)
      BY <3>1, <3>2, RangeConcatenation
    <3>d. DOMAIN b = 1 .. Len(b) /\ DOMAIN c = 1 .. Len(c)
      BY <3>1, <3>3
    <3>5. Range(b) = {b[p] : p \in 1 .. Len(b)} /\ Range(c) = {c[p] : p \in 1 .. Len(c)}
      BY <3>d DEF Range
    <3>6. ASSUME NEW k \in 1 .. i - 1, NEW x \in Range(ss[k])
          PROVE  \E p \in 1 .. Len(c) : c[p] = x /\ \A o \in 1 .. p : c[o] \in All(k)
      <4>1. PICK p \in 1 .. Len(a) : a[p] = x /\ \A o \in 1 .. p : a[o] \in All(k)
        BY <3>1
      <4>2. p \in 1 .. Len(c) /\ p \in 1 .. p /\ \A o \in 1 .. p : c[o] = a[o]
        BY <3>3
      <4>3. c[p] = x
        BY <4>1, <4>2
      <4>4. \A o \in 1 .. p : c[o] \in All(k)
        BY <4>1, <4>2
      <4> QED
        BY <4>2, <4>3, <4>4
    <3>7. ASSUME NEW x \in Range(b)
          PROVE  \E p \in 1 .. Len(c) : c[p] = x /\ \A o \in 1 .. p : c[o] \in All(i)
      <4>1. PICK l \in 1 .. Len(b) : b[l] = x
        BY <3>5
      <4>2. Len(a) + l \in 1 .. Len(c) /\ c[Len(a) + l] = x
        BY <3>3, <4>1
      <4>3. \A o \in 1 .. Len(a) + l : c[o] \in All(i)
        BY <3>3, <3>4, <3>5, <4>2
      <4> QED
        BY <4>2, <4>3
    <3>8. ASSUME NEW k \in 1 .. i, NEW x \in Range(ss[k])
          PROVE  \E p \in 1 .. Len(c) : c[p] = x /\ \A o \in 1 .. p : c[o] \in All(k)
      <4>1. k \in 1 .. i - 1 \/ k = i
        BY <3>1
      <4> QED
        BY <3>6, <3>7, <4>1 DEF b
    <3> QED
      BY <3>1, <3>3, <3>4, <3>8 DEF c
  <2>5. Good(n)
    <3> HIDE DEF Good
    <3> SUFFICES ASSUME ~ Good(n) PROVE FALSE
      OBVIOUS
    <3> DEFINE T == {i \in 1 .. n : ~ Good(i)}
    <3>1. T \in SUBSET Nat /\ T # {}
      BY <2>1
    <3>2. PICK i \in T : \A j \in T : i <= j
      <4> HIDE DEF T
      <4> QED
        BY <3>1, Least
    <3>3. i # 1 /\ i \in 2 .. n /\ i - 1 \in 1 .. n /\ i - 1 < i
      BY <2>1, <2>3
    <3>4. Good(i - 1)
      BY <3>2, <3>3
    <3> QED
      BY <2>4, <3>3, <3>4
  <2>6. z \in Seq(S) /\ Range(z) = UNION {Range(ss[i]) : i \in DOMAIN ss}
    BY <2>1, <2>2, <2>5
  <2>7. ASSUME NEW i \in DOMAIN ss, NEW x \in Range(ss[i])
        PROVE  \E p \in DOMAIN z :
                  /\ z[p] = x
                  /\ \A o \in 1 .. p : \E m \in 1 .. i : z[o] \in Range(ss[m])
    <3>0. \A k \in 1 .. n : \A y \in Range(ss[k]) :
             \E p \in 1 .. Len(z) : z[p] = y /\ \A o \in 1 .. p : z[o] \in All(k)
      <4> HIDE DEF All
      <4> QED
        BY <2>2, <2>5
    <3>1. PICK p \in 1 .. Len(z) : z[p] = x /\ \A o \in 1 .. p : z[o] \in All(i)
      <4>1. i \in 1 .. n
        BY <2>1
      <4> HIDE DEF All
      <4> QED
        BY <3>0, <4>1
    <3>2. \A o \in 1 .. p : \E m \in 1 .. i : z[o] \in Range(ss[m])
      BY <3>1
    <3>3. p \in DOMAIN z
      BY <2>6
    <3> QED
      BY <3>1, <3>2, <3>3
  <2> QED
    BY <2>6, <2>7 DEF z
<1> QED
  BY <1>1, <1>2

-----------------------------------------------------------------------------

\* What is queued after each of the hooks notified.
LEMMA NotifyFold ==
  ASSUME NEW q \in Seq(Hook), NEW hs \in Seq(Hook)
  PROVE  \E f : /\ f[0] = q /\ Notify(q, hs) = f[Len(hs)]
                /\ \A i \in 1 .. Len(hs) : f[i] = IF hs[i] \in Range(f[i - 1]) THEN f[i - 1]
                                            ELSE Append(f[i - 1], hs[i])
<1>n. PICK n \in Nat : n = Len(hs) /\ DOMAIN hs = 1 .. n
  OBVIOUS
<1> DEFINE With(v, h) == IF h \in Range(v) THEN v ELSE Append(v, h)
           Body(g, s) == IF s = {} THEN q ELSE With(g[s \ {Max(s)}], hs[Max(s)])
           Good(m) == \E g : \A s \in SUBSET (1 .. m) : g[s] = Body(g, s)
<1>1. \A m \in Nat : Good(m)
  <2> SUFFICES ASSUME NEW k \in Nat, ~ Good(k) PROVE FALSE
    OBVIOUS
  <2>1. PICK m \in Nat : ~ Good(m) /\ \A j \in Nat : j < m => Good(j)
    <3> HIDE DEF Good
    <3> DEFINE T == {j \in Nat : ~ Good(j)}
    <3>1. T \in SUBSET Nat /\ T # {}
      OBVIOUS
    <3>2. PICK m \in T : \A j \in T : m <= j
      <4> HIDE DEF T
      <4> QED BY <3>1, Least
    <3> QED
      BY <3>2
  <2>2. CASE m = 0
    <3>1. \A s \in SUBSET (1 .. 0) : [s0 \in {{}} |-> q][s] = Body([s0 \in {{}} |-> q], s)
      OBVIOUS
    <3> QED
      BY <2>1, <2>2, <3>1
  <2>3. CASE m > 0
    <3>1. PICK g : \A s \in SUBSET (1 .. m - 1) : g[s] = Body(g, s)
      <4>1. m - 1 \in Nat /\ m - 1 < m
        BY <2>3
      <4>2. Good(m - 1)
        BY <2>1, <4>1
      <4> QED
        BY <4>2
    <3> DEFINE h == [s \in SUBSET (1 .. m) |-> IF s \subseteq 1 .. m - 1 THEN g[s] ELSE Body(g, s)]
    <3>2. ASSUME NEW s \in SUBSET (1 .. m) PROVE h[s] = Body(h, s)
      <4>0. s \in SUBSET Nat /\ \A j \in s : j <= m
        OBVIOUS
      <4>1. s # {} => /\ Max(s) \in s /\ \A j \in s : j <= Max(s)
        BY <4>0, Greatest
      <4>2. s # {} => s \ {Max(s)} \subseteq 1 .. m - 1
        <5> SUFFICES ASSUME s # {}, NEW j \in s, j # Max(s) PROVE j \in 1 .. m - 1
          OBVIOUS
        <5>1. j \in 1 .. m /\ Max(s) \in 1 .. m /\ j <= Max(s)
          BY <4>1
        <5> QED
          BY <5>1
      <4>3. s # {} => h[s \ {Max(s)}] = g[s \ {Max(s)}]
        BY <4>2
      <4> QED
        BY <3>1, <4>3
    <3> QED
      BY <2>1, <3>2
  <2> QED
    BY <2>2, <2>3
<1> DEFINE iter == CHOOSE g : g = [s \in SUBSET (DOMAIN hs) |-> Body(g, s)]
<1>2. \E g : g = [s \in SUBSET (DOMAIN hs) |-> Body(g, s)]
  <2>1. PICK g : \A s \in SUBSET (1 .. n) : g[s] = Body(g, s)
    BY <1>1
  <2> DEFINE h == [s \in SUBSET (1 .. n) |-> g[s]]
  <2>2. \A s \in SUBSET (1 .. n) : Body(g, s) = Body(h, s)
    OBVIOUS
  <2>3. h = [s \in SUBSET (DOMAIN hs) |-> Body(h, s)]
    BY <1>n, <2>1, <2>2
  <2> QED
    BY <2>3
<1>3. iter = [s \in SUBSET (DOMAIN hs) |-> Body(iter, s)]
  BY <1>2
<1>4. Notify(q, hs) = iter[DOMAIN hs]
  BY DEF Notify, FoldLeft, MapThenFoldSet
<1> HIDE DEF iter
<1> DEFINE f == [i \in 0 .. n |-> iter[1 .. i]]
<1>5. f[0] = q
  BY <1>n, <1>3
<1>6. ASSUME NEW i \in 1 .. n PROVE f[i] = With(f[i - 1], hs[i])
  <2>1. Max(1 .. i) = i
    <3>1. Max(1 .. i) \in 1 .. i /\ \A j \in 1 .. i : j <= Max(1 .. i)
      <4>1. 1 .. i \in SUBSET Nat /\ i \in Nat /\ i \in 1 .. i /\ \A j \in 1 .. i : j <= i
        OBVIOUS
      <4> QED
        BY <4>1, Greatest
    <3> QED
      BY <3>1
  <2>2. /\ (1 .. i) \ {i} = 1 .. i - 1 
        /\ i \in 1 .. i /\ 1 .. i \subseteq DOMAIN hs
    BY <1>n
  <2>3. iter[1 .. i] = Body(iter, 1 .. i)
    BY <1>3, <2>2
  <2>4. f[i] = iter[1 .. i] /\ f[i - 1] = iter[1 .. i - 1]
    OBVIOUS
  <2> QED
    BY <2>1, <2>2, <2>3, <2>4
<1>7. Notify(q, hs) = f[n]
  BY <1>n, <1>4
<1> HIDE DEF f
<1> QED
  BY <1>n, <1>5, <1>6, <1>7

\* Hooks notified go to the end of the queue, each once and only when it is not
\* there, in the order in which they first occur.
LEMMA NotifyQueue ==
  ASSUME NEW q \in Seq(Hook), NEW hs \in Seq(Hook),
         \A j, k \in DOMAIN q : q[j] = q[k] => j = k
  PROVE  LET z == Notify(q, hs)
         IN  /\ z \in Seq(Hook) /\ Len(q) <= Len(z) /\ \A j \in DOMAIN q : z[j] = q[j]
             /\ \A j, k \in DOMAIN z : z[j] = z[k] => j = k
             /\ Range(z) = Range(q) \cup Range(hs)
             /\ \A j, k \in DOMAIN z : \A p \in DOMAIN hs :
                   j < k /\ z[k] = hs[p] => \/ z[j] \in Range(q)
                                            \/ \E o \in 1 .. p : z[j] = hs[o]
<1> DEFINE n == Len(hs)
<1>1. n \in Nat /\ DOMAIN hs = 1 .. n /\ DOMAIN q = 1 .. Len(q) /\ Len(q) \in Nat
  OBVIOUS
<1>2. PICK f : /\ f[0] = q /\ Notify(q, hs) = f[n]
               /\ \A i \in 1 .. n : f[i] = IF hs[i] \in Range(f[i - 1]) THEN f[i - 1]
                                           ELSE Append(f[i - 1], hs[i])
  BY NotifyFold
<1> DEFINE Seen(i) == {hs[o] : o \in 1 .. i}
           Good(i) ==
             /\ f[i] \in Seq(Hook) /\ Len(q) <= Len(f[i]) /\ \A j \in 1 .. Len(q) : f[i][j] = q[j]
             /\ \A j, k \in 1 .. Len(f[i]) : f[i][j] = f[i][k] => j = k
             /\ Range(f[i]) = Range(q) \cup Seen(i)
             /\ \A j, k \in 1 .. Len(f[i]) : \A p \in 1 .. i :
                   j < k /\ f[i][k] = hs[p] => f[i][j] \in Range(q) \cup Seen(p)
<1>3. Good(0)
  BY <1>1, <1>2
<1>4. ASSUME NEW i \in 1 .. n, Good(i - 1) PROVE Good(i)
  <2> DEFINE y == f[i - 1]
             z == f[i]
  <2>1. /\ y \in Seq(Hook) /\ Len(y) \in Nat /\ hs[i] \in Hook /\ i \in Nat
        /\ DOMAIN y = 1 .. Len(y) /\ Seen(i) = Seen(i - 1) \cup {hs[i]}
    BY <1>1, <1>4
  <2>g. /\ Range(y) = Range(q) \cup Seen(i - 1) /\ Len(q) <= Len(y)
        /\ \A j \in 1 .. Len(q) : y[j] = q[j]
        /\ \A j, k \in 1 .. Len(y) : y[j] = y[k] => j = k
        /\ \A j, k \in 1 .. Len(y) : \A p \in 1 .. i - 1 :
              j < k /\ y[k] = hs[p] => y[j] \in Range(q) \cup Seen(p)
    BY <1>4
  <2>r. Range(q) = {q[j] : j \in 1 .. Len(q)} /\ Range(y) = {y[j] : j \in 1 .. Len(y)}
    BY <1>1, <2>1 DEF Range
  <2>t. z = IF hs[i] \in Range(y) THEN y ELSE Append(y, hs[i])
    BY <1>2
  <2> HIDE DEF y, z
  <2>2. CASE hs[i] \in Range(y)
    <3>1. z = y
      BY <2>t, <2>2
    <3>2. ASSUME NEW j \in 1 .. Len(y), NEW k \in 1 .. Len(y), j < k, y[k] = hs[i]
          PROVE  y[j] \in Range(q) \cup Seen(i)
      <4>1. y[k] \in Range(q) \/ y[k] \in Seen(i - 1)
        BY <2>g, <2>r
      <4>2. CASE k <= Len(q)
        <5>1. j \in 1 .. Len(q)
          BY <1>1, <3>2, <4>2
        <5> QED
          BY <5>1, <2>g, <2>r
      <4>3. CASE y[k] \in Seen(i - 1)
        <5>1. PICK p \in 1 .. i - 1 : y[k] = hs[p]
          BY <4>3
        <5>2. Seen(p) \subseteq Seen(i)
          BY <2>1
        <5> QED
          BY <5>1, <5>2, <2>g, <3>2
      <4>4. CASE k > Len(q) /\ y[k] \in Range(q)
        <5>1. PICK l \in 1 .. Len(q) : q[l] = y[k]
          BY <2>r, <4>4
        <5> QED
          BY <1>1, <2>g, <4>4, <5>1, <2>1
      <4> QED
        BY <4>1, <4>2, <4>3, <4>4, <1>1, <2>1
    <3>3. ASSUME NEW j \in 1 .. Len(z), NEW k \in 1 .. Len(z), NEW p \in 1 .. i,
                 j < k, z[k] = hs[p]
          PROVE  z[j] \in Range(q) \cup Seen(p)
      BY <2>g, <2>1, <3>1, <3>2, <3>3
    <3>4. Range(z) = Range(q) \cup Seen(i)
      BY <2>g, <2>1, <2>2, <3>1
    <3> QED
      BY <2>g, <2>1, <3>1, <3>3, <3>4 DEF z
  <2>3. CASE hs[i] \notin Range(y)
    <3>1. z = Append(y, hs[i])
      BY <2>t, <2>3
    <3>2. /\ z \in Seq(Hook) /\ Len(z) = Len(y) + 1 /\ z[Len(z)] = hs[i]
          /\ \A j \in 1 .. Len(y) : z[j] = y[j] /\ y[j] # hs[i]
      BY <2>1, <2>3, <2>r, <3>1
    <3>3. Range(z) = Range(y) \cup {hs[i]}
      <4>1. DOMAIN z = 1 .. Len(z)
        BY <3>2
      <4>2. Range(z) = {z[j] : j \in 1 .. Len(z)}
        BY <4>1 DEF Range
      <4>3. \A j \in 1 .. Len(z) : z[j] \in Range(y) \cup {hs[i]}
        <5>1. \A j \in 1 .. Len(z) : j \in 1 .. Len(y) \/ j = Len(z)
          BY <2>1, <3>2
        <5> QED
          BY <2>r, <3>2, <5>1
      <4>4. \A j \in 1 .. Len(y) : j \in 1 .. Len(z)
        BY <2>1, <3>2
      <4>5. Len(z) \in 1 .. Len(z)
        BY <2>1, <3>2
      <4>6. \A v \in Range(y) \cup {hs[i]} : \E j \in 1 .. Len(z) : z[j] = v
        BY <2>r, <3>2, <4>4, <4>5
      <4> QED
        BY <4>2, <4>3, <4>6
    <3>4. ASSUME NEW j \in 1 .. Len(z), NEW k \in 1 .. Len(z), z[j] = z[k] PROVE j = k
      <4>1. (j \in 1 .. Len(y) \/ j = Len(z)) /\ (k \in 1 .. Len(y) \/ k = Len(z))
        BY <3>2, <2>1
      <4> QED
        BY <3>2, <3>4, <2>g, <4>1
    <3>5. ASSUME NEW j \in 1 .. Len(z), NEW k \in 1 .. Len(z), NEW p \in 1 .. i,
                 j < k, z[k] = hs[p]
          PROVE  z[j] \in Range(q) \cup Seen(p)
      <4>1. j \in 1 .. Len(y) /\ z[j] = y[j]
        BY <3>2, <3>5, <2>1
      <4>2. CASE p < i
        <5>1. hs[p] \in Range(y) /\ p \in 1 .. i - 1
          BY <2>g, <4>2, <2>1
        <5>2. k # Len(z)
          BY <5>1, <2>3, <3>2, <3>5
        <5>3. k \in 1 .. Len(y) /\ z[k] = y[k]
          <6>1. k \in 1 .. Len(y) + 1 /\ k # Len(y) + 1
            BY <5>2, <3>2
          <6> QED
            BY <6>1, <3>2, <2>1
        <5> QED
          BY <2>g, <4>1, <5>1, <5>3, <3>5
      <4>3. CASE p = i
        <5>1. z[j] \in Range(y) /\ Seen(i - 1) \subseteq Seen(p)
          BY <2>r, <4>1, <4>3, <2>1
        <5>2. Range(y) = Range(q) \cup Seen(i - 1)
          BY <2>g
        <5> HIDE DEF Seen
        <5> QED
          BY <5>1, <5>2, <4>3
      <4>4. p < i \/ p = i
        BY <2>1
      <4> QED
        BY <4>2, <4>3, <4>4
    <3>6. Range(z) = Range(q) \cup Seen(i)
      BY <2>g, <2>1, <3>3
    <3>7. Len(q) <= Len(z) /\ \A j \in 1 .. Len(q) : z[j] = q[j]
      BY <1>1, <2>g, <2>1, <3>2
    <3> QED
      BY <3>2, <3>4, <3>5, <3>6, <3>7 DEF z
  <2> QED
    BY <2>2, <2>3
<1>5. Good(n)
  <2> HIDE DEF Good
  <2> SUFFICES ASSUME ~ Good(n) PROVE FALSE
    OBVIOUS
  <2> DEFINE T == {i \in 0 .. n : ~ Good(i)}
  <2>1. T \in SUBSET Nat /\ T # {}
    BY <1>1
  <2>2. PICK i \in T : \A j \in T : i <= j
    <3> HIDE DEF T
    <3> QED
      BY <2>1, Least
  <2>3. i # 0 /\ i - 1 \in 0 .. n /\ i - 1 < i
    BY <1>1, <1>3
  <2>4. Good(i - 1)
    BY <2>2, <2>3
  <2> QED
    BY <1>1, <1>4, <2>3, <2>4
<1>6. Range(hs) = Seen(n) /\ n \in 0 .. n
  BY <1>1 DEF Range
<1> DEFINE z == Notify(q, hs)
<1>7. /\ z \in Seq(Hook) /\ Len(q) <= Len(z) /\ \A j \in 1 .. Len(q) : z[j] = q[j]
      /\ \A j, k \in 1 .. Len(z) : z[j] = z[k] => j = k
      /\ Range(z) = Range(q) \cup Range(hs)
      /\ \A j, k \in 1 .. Len(z) : \A p \in 1 .. n :
            j < k /\ z[k] = hs[p] => z[j] \in Range(q) \cup Seen(p)
  <2>1. z = f[n]
    BY <1>2
  <2> HIDE DEF z, Seen
  <2> QED
    BY <1>5, <1>6, <2>1
<1> HIDE DEF z
<1>8. DOMAIN z = 1 .. Len(z)
  BY <1>7
<1>9. \A j, k \in DOMAIN z : \A p \in DOMAIN hs :
          j < k /\ z[k] = hs[p] => \/ z[j] \in Range(q)
                                   \/ \E o \in 1 .. p : z[j] = hs[o]
  <2> SUFFICES ASSUME NEW j \in DOMAIN z, NEW k \in DOMAIN z, NEW p \in DOMAIN hs,
                      j < k, z[k] = hs[p], z[j] \notin Range(q)
               PROVE  \E o \in 1 .. p : z[j] = hs[o]
    OBVIOUS
  <2>1. z[j] \in Seen(p)
    BY <1>1, <1>7, <1>8
  <2> QED
    BY <2>1
<1> QED
  BY <1>1, <1>7, <1>8, <1>9 DEF z

\* What the changed steps of a deploy put into the queue.
LEMMA NotifiedQueue ==
  ASSUME NEW c \in Configs, NEW changed \in SUBSET DOMAIN c.steps
  PROVE  LET z == Notified(c, changed)
         IN  /\ z \in Seq(Hook)
             /\ \A j, k \in DOMAIN z : z[j] = z[k] => j = k
             /\ Range(z) = UNION {Range(c.steps[i]) : i \in changed}
             /\ \A j, k \in DOMAIN z : \A i \in changed :
                   j < k /\ z[k] \in Range(c.steps[i])
                       => \E m \in changed : m <= i /\ z[j] \in Range(c.steps[m])
<1> DEFINE ss == [i \in DOMAIN c.steps |-> IF i \in changed THEN c.steps[i] ELSE <<>>]
           hs == FlattenSeq(ss)
           z  == Notified(c, changed)
<1>0. c.steps \in Seq(Seq(Hook))
  BY ConfigsAssumption
<1>1. ss \in Seq(Seq(Hook)) /\ DOMAIN ss = DOMAIN c.steps
  <2>1. PICK n \in Nat : DOMAIN c.steps = 1 .. n
    BY <1>0
  <2>2. \A i \in 1 .. n : c.steps[i] \in Seq(Hook)
    BY <1>0, <2>1
  <2>3. <<>> \in Seq(Hook)
    OBVIOUS
  <2>4. ss \in [1 .. n -> Seq(Hook)]
    BY <2>1, <2>2, <2>3
  <2> QED
    BY <2>1, <2>4
<1>2. Range(<<>>) = {}
  BY DEF Range
<1>3. \A i \in DOMAIN ss : Range(ss[i]) = IF i \in changed THEN Range(c.steps[i]) ELSE {}
  BY <1>2
<1>4. /\ hs \in Seq(Hook)
      /\ Range(hs) = UNION {Range(ss[i]) : i \in DOMAIN ss}
      /\ \A i \in DOMAIN ss : \A x \in Range(ss[i]) :
            \E p \in DOMAIN hs :
               /\ hs[p] = x
               /\ \A o \in 1 .. p : \E m \in 1 .. i : hs[o] \in Range(ss[m])
  <2> HIDE DEF ss
  <2> QED
    BY <1>1, Flattened
<1>5. z = Notify(<<>>, hs)
  BY DEF Notified
<1>d. \E n \in Nat : DOMAIN ss = 1 .. n
  BY <1>1
<1> HIDE DEF z, hs, ss
<1>6. /\ z \in Seq(Hook)
      /\ \A j, k \in DOMAIN z : z[j] = z[k] => j = k
      /\ Range(z) = Range(hs)
      /\ \A j, k \in DOMAIN z : \A p \in DOMAIN hs :
            j < k /\ z[k] = hs[p] => \E o \in 1 .. p : z[j] = hs[o]
  <2>0. <<>> \in Seq(Hook)
    OBVIOUS
  <2>1. PICK q \in Seq(Hook) : q = <<>>
    BY <2>0
  <2>2. DOMAIN q = {} /\ z = Notify(q, hs) /\ Range(q) = {}
    BY <1>2, <1>5, <2>1
  <2>3. \A j, k \in DOMAIN q : q[j] = q[k] => j = k
    BY <2>2
  <2>4. /\ z \in Seq(Hook)
        /\ \A j, k \in DOMAIN z : z[j] = z[k] => j = k
        /\ Range(z) = Range(q) \cup Range(hs)
        /\ \A j, k \in DOMAIN z : \A p \in DOMAIN hs :
              j < k /\ z[k] = hs[p] => \/ z[j] \in Range(q)
                                       \/ \E o \in 1 .. p : z[j] = hs[o]
    <3> DEFINE w == Notify(q, hs)
    <3>1. /\ w \in Seq(Hook)
          /\ \A j, k \in DOMAIN w : w[j] = w[k] => j = k
          /\ Range(w) = Range(q) \cup Range(hs)
          /\ \A j, k \in DOMAIN w : \A p \in DOMAIN hs :
                j < k /\ w[k] = hs[p] => \/ w[j] \in Range(q)
                                         \/ \E o \in 1 .. p : w[j] = hs[o]
      BY <1>4, <2>3, NotifyQueue
    <3>2. z = w
      BY <2>2
    <3> QED
      BY <3>1, <3>2
  <2> QED
    BY <2>2, <2>4
<1>7. Range(z) = UNION {Range(c.steps[i]) : i \in changed}
  <2>1. changed \subseteq DOMAIN ss
    BY <1>1
  <2> QED
    BY <2>1, <1>3, <1>4, <1>6
<1>8. ASSUME NEW j \in DOMAIN z, NEW k \in DOMAIN z, NEW i \in changed,
             j < k, z[k] \in Range(c.steps[i])
      PROVE  \E m \in changed : m <= i /\ z[j] \in Range(c.steps[m])
  <2>1. i \in DOMAIN ss /\ z[k] \in Range(ss[i])
    BY <1>1, <1>3, <1>8
  <2>2. PICK p \in DOMAIN hs : /\ hs[p] = z[k]
                               /\ \A o \in 1 .. p : \E m \in 1 .. i : hs[o] \in Range(ss[m])
    BY <1>4, <2>1
  <2>3. PICK o \in 1 .. p : z[j] = hs[o]
    BY <1>6, <1>8, <2>2
  <2>4. PICK m \in 1 .. i : z[j] \in Range(ss[m])
    BY <2>2, <2>3
  <2>5. m \in DOMAIN ss /\ m <= i
    BY <1>d, <2>1, <2>4
  <2> QED
    BY <1>3, <2>4, <2>5
<1> QED
  BY <1>6, <1>7, <1>8 DEF z

\* What a hook that changed something puts into the queue is what it chains to.
LEMMA ChainQueue ==
  ASSUME NEW c \in Configs, NEW h \in Hook
  PROVE  /\ c.hooks[h] \in Seq(Seq(Hook)) /\ FlattenSeq(c.hooks[h]) \in Seq(Hook)
         /\ Range(FlattenSeq(c.hooks[h])) = ChainOf(c)[h]
<1>1. c.hooks[h] \in Seq(Seq(Hook))
  BY ConfigsAssumption
<1> QED
  BY <1>1, Flattened DEF ChainOf

\* A run starts with an empty queue and nothing reported.
LEMMA InitInv == Init => IInv
<1> SUFFICES ASSUME Init PROVE IInv
  OBVIOUS
<1>1. Range(<<>>) = {} /\ DOMAIN queue = {} /\ DOMAIN hookReports = {} /\ DOMAIN <<>> = {}
  BY DEF Init, Range
<1>2. TypeOK
  <2>1. queue \in Seq(Hook) /\ Len(queue) = 0 /\ pos \in 0 .. Len(queue) + 1
    BY DEF Init
  <2>2. hookReports \in Seq([hook : Hook, step : Nat, changed : BOOLEAN])
    BY DEF Init
  <2>3. /\ cfg \in Configs /\ changedSteps \subseteq DOMAIN cfg.steps
        /\ step \in Nat /\ (step > 0 => pos \in DOMAIN queue) /\ executed \subseteq Range(queue)
    BY DEF Init
  <2>4. /\ anyChanged \in BOOLEAN /\ cancelled \in BOOLEAN
        /\ verdict \in {NoErr, "ok"} \cup StepErr \cup PlanErr
        /\ exit \in {NoErr, "ok", "user error", "panic"}
    BY DEF Init
  <2> QED
    BY <2>1, <2>2, <2>3, <2>4 DEF TypeOK
<1>3. QueueInv
  BY <1>1 DEF Init, QueueInv
<1>4. ReasonInv /\ OrderInv
  BY <1>1 DEF Init, ReasonInv, OrderInv
<1>5. ReportInv
  BY <1>1 DEF Init, ReportInv
<1>6. ChangedInv /\ EndInv
  BY DEF Init, ChangedInv, EndInv, NoErr
<1> QED
  BY <1>2, <1>3, <1>4, <1>5, <1>6 DEF IInv

\* What is over stays over: the plan failed, the queue is through, the process
\* exits, or the user interrupts, and nothing else moves.
LEMMA EndsInv ==
  ASSUME IInv, UNCHANGED <<cfg, changedSteps, queue, pos, step, anyChanged, executed, hookReports>>,
         \/ \E e \in PlanErr : PlanFails(e)
         \/ HooksOver \/ Exit \/ Cancel \/ UNCHANGED vars
  PROVE  IInv'
<1>1. /\ verdict' \in {NoErr, "ok"} \cup StepErr \cup PlanErr /\ cancelled' \in BOOLEAN
      /\ exit' \in {NoErr, "ok", "user error", "panic"}
  BY DEF IInv, TypeOK, PlanFails, HooksOver, Exit, ExitOf, Cancel, vars
<1>2. /\ Fine' => Fine
      /\ verdict' = NoErr => verdict = NoErr
  BY DEF Fine, PlanFails, HooksOver, Exit, Cancel, vars, PlanErr, NoErr
<1>3. TypeOK'
  BY <1>1 DEF IInv, TypeOK
<1>q. QueueInv'
  BY DEF IInv, QueueInv, HookSteps
<1>r. ReasonInv'
  <2>1. Direct' = Direct /\ ChangedHooks' = ChangedHooks
    BY DEF Direct, ChangedHooks
  <2>2. queue' = queue /\ pos' = pos /\ ChainOf(cfg)' = ChainOf(cfg) /\ ReasonInv
    BY DEF ChainOf, IInv
  <2> QED
    BY <2>1, <2>2 DEF ReasonInv
<1>4. OrderInv'
  BY DEF IInv, OrderInv
<1>5. ReportInv'
  BY <1>2 DEF IInv, ReportInv, StepsOf, ReportsOf
<1>6. ChangedInv'
  BY <1>2 DEF IInv, ChangedInv, ChangedHooks
<1>7. EndInv'
  <2>1. CASE verdict' = "ok" /\ verdict # "ok"
    <3>1. HooksOver
      BY <2>1 DEF HooksOver, PlanFails, Exit, Cancel, vars, PlanErr
    <3>2. QED
      <4>0. /\ queue \in Seq(Hook) /\ pos \in 0 .. Len(queue) + 1
            /\ step \in Nat /\ (step > 0 => pos \in DOMAIN queue)
        BY DEF IInv, TypeOK
      <4>1. Len(queue) \in Nat /\ DOMAIN queue = 1 .. Len(queue)
        BY <4>0
      <4>2. verdict = NoErr /\ exit' = exit /\ verdict' = "ok" /\ pos > Len(queue)
        BY <3>1 DEF HooksOver
      <4>3. pos = Len(queue) + 1 /\ step = 0
        BY <4>0, <4>1, <4>2
      <4> QED
        BY <4>2, <4>3 DEF IInv, EndInv
  <2>2. CASE ~ (verdict' = "ok" /\ verdict # "ok")
    BY <2>2 DEF IInv, EndInv, PlanFails, HooksOver, Exit, Cancel, vars, PlanErr, NoErr
  <2> QED
    BY <2>1, <2>2
<1> QED
  BY <1>3, <1>q, <1>r, <1>4, <1>5, <1>6, <1>7 DEF IInv

\* Before the hooks nothing is queued and nothing has run.
LEMMA BeforeHooks ==
  ASSUME IInv, pos = 0
  PROVE  queue = <<>> /\ step = 0 /\ executed = {} /\ DOMAIN hookReports = {}
<1>1. queue = <<>> /\ DOMAIN queue = {}
  BY DEF IInv, QueueInv
<1>2. step = 0 /\ executed = {}
  <2>1. step \in Nat /\ (step > 0 => pos \in DOMAIN queue)
    BY DEF IInv, TypeOK
  <2>2. step = 0
    BY <1>1, <2>1
  <2> QED
    BY <1>1, <2>2 DEF IInv, QueueInv
<1> QED
  BY <1>1, <1>2 DEF IInv, ReportInv

\* The queue begins as what the changed steps notify.
LEMMA PlanSucceedsInv ==
  ASSUME IInv, NEW S \in SUBSET DOMAIN cfg.steps, PlanSucceeds(S)
  PROVE  IInv'
<1>1. /\ cfg \in Configs /\ step = 0 /\ executed = {} /\ DOMAIN hookReports = {}
      /\ hookReports' = hookReports /\ executed' = {} /\ step' = 0 /\ pos' = 1
      /\ cfg' = cfg /\ changedSteps' = S /\ verdict' = verdict /\ exit' = exit
      /\ verdict = NoErr
  BY BeforeHooks DEF PlanSucceeds, IInv, TypeOK
<1>2. /\ queue' \in Seq(Hook)
      /\ \A j, k \in DOMAIN queue' : queue'[j] = queue'[k] => j = k
      /\ Range(queue') = Direct'
      /\ \A j, k \in DOMAIN queue' : \A i \in S :
            j < k /\ queue'[k] \in Range(cfg.steps[i])
                => \E m \in S : m <= i /\ queue'[j] \in Range(cfg.steps[m])
  <2>1. queue' = Notified(cfg, S) /\ Direct' = UNION {Range(cfg.steps[i]) : i \in S}
    BY <1>1 DEF PlanSucceeds, Direct
  <2> QED
    BY <1>1, <2>1, NotifiedQueue
<1>3. \A j \in DOMAIN queue' : j \in Nat /\ j >= 1 /\ queue'[j] \in Range(queue')
  <2>1. DOMAIN queue' = 1 .. Len(queue')
    BY <1>2
  <2> QED
    BY <2>1 DEF Range
<1>4. TypeOK'
  <2>1. Len(queue') \in Nat
    BY <1>2
  <2>2. pos' \in 0 .. Len(queue') + 1
    BY <2>1, <1>1
  <2> QED
    <3>1. /\ cancelled' \in BOOLEAN /\ anyChanged' \in BOOLEAN
          /\ hookReports' \in Seq([hook : Hook, step : Nat, changed : BOOLEAN])
          /\ verdict' \in {NoErr, "ok"} \cup StepErr \cup PlanErr
          /\ exit' \in {NoErr, "ok", "user error", "panic"}
      BY DEF TypeOK, IInv, PlanSucceeds
    <3>2. cfg' \in Configs /\ changedSteps' \subseteq DOMAIN cfg'.steps
      BY <1>1
    <3>3. step' \in Nat /\ (step' > 0 => pos' \in DOMAIN queue') /\ executed' \subseteq Range(queue')
      BY <1>1
    <3> QED
      BY <1>2, <2>2, <3>1, <3>2, <3>3 DEF TypeOK
<1>5. QueueInv'
  BY <1>1, <1>2, <1>3 DEF QueueInv
<1>6. ReasonInv' /\ OrderInv'
  BY <1>1, <1>2, <1>3 DEF ReasonInv, OrderInv
<1>7. ReportInv'
  BY <1>1, <1>3 DEF ReportInv
<1>8. ChangedInv' /\ EndInv'
  BY <1>1 DEF ChangedInv, EndInv, IInv, NoErr
<1> QED
  BY <1>4, <1>5, <1>6, <1>7, <1>8 DEF IInv

\* The state at a hook of the queue.
LEMMA AtHookFacts ==
  ASSUME IInv, AtHook
  PROVE  /\ queue \in Seq(Hook) /\ DOMAIN queue = 1 .. Len(queue) /\ Len(queue) \in Nat
         /\ pos \in 1 .. Len(queue) /\ queue[pos] \in Hook /\ cfg \in Configs
         /\ verdict = NoErr /\ Fine /\ exit = NoErr /\ step \in Nat
         /\ hookReports \in Seq([hook : Hook, step : Nat, changed : BOOLEAN])
         /\ HookSteps \in Seq(Seq(Hook)) /\ HookSteps = cfg.hooks[queue[pos]]
<1>1. /\ queue \in Seq(Hook) /\ cfg \in Configs /\ step \in Nat
      /\ hookReports \in Seq([hook : Hook, step : Nat, changed : BOOLEAN])
  BY DEF IInv, TypeOK
<1>2. pos \in DOMAIN queue /\ verdict = NoErr /\ exit = NoErr
  BY DEF AtHook, IInv, EndInv
<1>3. queue[pos] \in Hook
  BY <1>1, <1>2
<1>4. HookSteps \in Seq(Seq(Hook))
  BY <1>1, <1>3, ChainQueue DEF HookSteps
<1> QED
  BY <1>1, <1>2, <1>3, <1>4 DEF Fine, HookSteps

\* A hook begins: it has reported nothing yet.
LEMMA BeginHookInv ==
  ASSUME IInv, BeginHook
  PROVE  IInv'
<1>1. AtHook /\ step = 0 /\ queue[pos] \notin executed
  BY DEF BeginHook
<1>2. /\ cfg' = cfg /\ changedSteps' = changedSteps /\ queue' = queue /\ pos' = pos
      /\ step' = 1 /\ executed' = executed \cup {queue[pos]} /\ anyChanged' = FALSE
      /\ hookReports' = hookReports /\ verdict' = verdict /\ exit' = exit
      /\ cancelled' = cancelled
  BY DEF BeginHook
<1>3. /\ queue \in Seq(Hook) /\ DOMAIN queue = 1 .. Len(queue) /\ Len(queue) \in Nat
      /\ pos \in 1 .. Len(queue) /\ queue[pos] \in Hook /\ verdict = NoErr /\ Fine
      /\ HookSteps \in Seq(Seq(Hook))
  BY <1>1, AtHookFacts
<1>4. \A r \in DOMAIN hookReports : hookReports[r].hook # queue[pos]
  BY <1>1 DEF IInv, ReportInv
<1>5. /\ \A j, k \in DOMAIN queue : queue[j] = queue[k] => j = k
      /\ executed = {queue[j] : j \in {k \in DOMAIN queue : k < pos \/ (k = pos /\ step > 0)}}
  BY DEF IInv, QueueInv
<1>6. TypeOK'
  BY <1>2, <1>3 DEF IInv, TypeOK, Range
<1>7. QueueInv'
  <2>1. executed' = {queue[j] : j \in {k \in DOMAIN queue : k < pos \/ (k = pos /\ 1 > 0)}}
    BY <1>1, <1>2, <1>3, <1>5
  <2>2. HookSteps' = HookSteps /\ 1 <= Len(HookSteps) + 1
    BY <1>2, <1>3 DEF HookSteps
  <2> QED
    BY <1>2, <1>3, <1>5, <2>1, <2>2 DEF QueueInv
<1>8. ReasonInv' /\ OrderInv'
  <2>1. Direct' = Direct /\ ChangedHooks' = ChangedHooks
    BY <1>2 DEF Direct, ChangedHooks
  <2>2. ReasonInv /\ OrderInv
    BY DEF IInv
  <2>3. ReasonInv'
    BY <1>2, <2>1, <2>2 DEF ReasonInv
  <2> QED
    BY <1>2, <2>2, <2>3 DEF OrderInv
<1>9. ReportInv'
  <2>1. \A h : StepsOf(h)' = StepsOf(h)
    BY <1>2 DEF StepsOf, ReportsOf
  <2>2. StepsOf(queue[pos]) = {}
    BY <1>4 DEF StepsOf, ReportsOf
  <2>3. 1 .. 1 - 1 = {}
    OBVIOUS
  <2>4. /\ \A r \in DOMAIN hookReports : hookReports[r].hook \in executed'
        /\ \A j \in DOMAIN queue : j < pos => StepsOf(queue[j]) = DOMAIN cfg.hooks[queue[j]]
    BY <1>2, <1>3 DEF IInv, ReportInv
  <2>5. ReportInv
    BY DEF IInv
  <2> QED
    BY <1>2, <2>1, <2>2, <2>3, <2>4, <2>5 DEF ReportInv
<1>10. ChangedInv'
  <2>1. queue[pos] \notin ChangedHooks'
    BY <1>2, <1>4 DEF ChangedHooks
  <2> QED
    BY <1>2, <2>1 DEF ChangedInv
<1>11. EndInv'
  BY <1>2, <1>3 DEF EndInv, IInv, NoErr
<1> QED
  BY <1>6, <1>7, <1>8, <1>9, <1>10, <1>11 DEF IInv

\* A hook that is executed stands at or before the current position.
LEMMA ExecutedBefore ==
  ASSUME IInv, NEW j \in DOMAIN queue, queue[j] \in executed
  PROVE  j <= pos /\ (j = pos => step > 0)
<1>1. PICK k \in DOMAIN queue : (k < pos \/ (k = pos /\ step > 0)) /\ queue[k] = queue[j]
  BY DEF IInv, QueueInv
<1>2. k = j
  BY <1>1 DEF IInv, QueueInv
<1>3. queue \in Seq(Hook) /\ pos \in 0 .. Len(queue) + 1
  BY DEF IInv, TypeOK
<1>4. j \in Nat /\ pos \in Nat
  BY <1>3
<1> QED
  BY <1>1, <1>2, <1>3, <1>4

\* A step of a hook ends: its report follows those of the queue before it and
\* those of the hook before it.
LEMMA HookStepInv ==
  ASSUME IInv, NEW ch \in BOOLEAN, NEW e \in StepErr \cup {NoErr}, HookStep(ch, e)
  PROVE  IInv'
<1> DEFINE new == [hook |-> queue[pos], step |-> step, changed |-> ch]
           n   == Len(hookReports)
           k0  == queue[pos]
<1>1. AtHook /\ step \in DOMAIN HookSteps
  BY DEF HookStep
<1>2. /\ cfg' = cfg /\ changedSteps' = changedSteps /\ queue' = queue /\ pos' = pos
      /\ executed' = executed /\ anyChanged' = (anyChanged \/ ch)
      /\ hookReports' = Append(hookReports, new) /\ verdict' = e /\ exit' = exit
      /\ step' = (IF e = NoErr THEN step + 1 ELSE step) /\ cancelled' = cancelled
  BY DEF HookStep
<1>3. /\ queue \in Seq(Hook) /\ DOMAIN queue = 1 .. Len(queue) /\ Len(queue) \in Nat
      /\ pos \in 1 .. Len(queue) /\ k0 \in Hook /\ verdict = NoErr /\ Fine /\ exit = NoErr
      /\ hookReports \in Seq([hook : Hook, step : Nat, changed : BOOLEAN])
      /\ HookSteps \in Seq(Seq(Hook)) /\ HookSteps = cfg.hooks[k0]
  BY <1>1, AtHookFacts
<1>4. step \in Nat /\ step >= 1 /\ step <= Len(HookSteps) /\ step' \in Nat /\ step' > 0
  <2>1. DOMAIN HookSteps = 1 .. Len(HookSteps) /\ Len(HookSteps) \in Nat
    BY <1>3
  <2>2. step \in 1 .. Len(HookSteps)
    BY <1>1, <2>1
  <2> QED
    BY <1>2, <2>1, <2>2
<1>5. /\ \A j, k \in DOMAIN queue : queue[j] = queue[k] => j = k
      /\ executed = {queue[j] : j \in {k \in DOMAIN queue : k < pos \/ (k = pos /\ step > 0)}}
      /\ k0 \in executed
  <2>1. /\ \A j, k \in DOMAIN queue : queue[j] = queue[k] => j = k
        /\ executed = {queue[j] : j \in {k \in DOMAIN queue : k < pos \/ (k = pos /\ step > 0)}}
    BY DEF IInv, QueueInv
  <2>2. pos \in {k \in DOMAIN queue : k < pos \/ (k = pos /\ step > 0)}
    BY <1>3, <1>4
  <2> QED
    BY <2>1, <2>2 DEF k0
<1>6. /\ new \in [hook : Hook, step : Nat, changed : BOOLEAN]
      /\ hookReports' \in Seq([hook : Hook, step : Nat, changed : BOOLEAN])
      /\ n \in Nat /\ DOMAIN hookReports = 1 .. n /\ DOMAIN hookReports' = 1 .. n + 1
      /\ hookReports'[n + 1] = new /\ \A r \in 1 .. n : hookReports'[r] = hookReports[r]
  <2>1. new \in [hook : Hook, step : Nat, changed : BOOLEAN]
    BY <1>3, <1>4
  <2> HIDE DEF new
  <2> QED
    BY <1>2, <1>3, <2>1
<1>7. new.hook = k0 /\ new.step = step /\ new.changed = ch
  OBVIOUS
<1> HIDE DEF new, n, k0
<1>8. \A r \in 1 .. n + 1 : r \in 1 .. n \/ r = n + 1
  BY <1>6
<1>9. /\ ChangedHooks' = ChangedHooks \cup (IF ch THEN {k0} ELSE {})
      /\ \A h : StepsOf(h)' = IF h = k0 THEN StepsOf(h) \cup {step} ELSE StepsOf(h)
  <2>1. ChangedHooks' = ChangedHooks \cup (IF ch THEN {k0} ELSE {})
    BY <1>6, <1>7, <1>8 DEF ChangedHooks
  <2>2. ASSUME NEW h, h = k0 PROVE StepsOf(h)' = StepsOf(h) \cup {step}
    <3>1. \A r : r \in ReportsOf(h)' <=> r \in ReportsOf(h) \/ r = n + 1
      BY <1>6, <1>7, <1>8, <2>2 DEF ReportsOf
    <3>2. \A r \in ReportsOf(h) : hookReports'[r] = hookReports[r]
      BY <1>6 DEF ReportsOf
    <3> QED
      BY <1>6, <1>7, <3>1, <3>2 DEF StepsOf
  <2>3. ASSUME NEW h, h # k0 PROVE StepsOf(h)' = StepsOf(h)
    BY <1>6, <1>7, <1>8, <2>3 DEF StepsOf, ReportsOf
  <2> QED
    BY <2>1, <2>2, <2>3
<1>10. TypeOK'
  <2>1. verdict' \in {NoErr, "ok"} \cup StepErr \cup PlanErr /\ anyChanged' \in BOOLEAN
    BY <1>2 DEF IInv, TypeOK
  <2> QED
    BY <1>2, <1>3, <1>4, <1>6, <2>1 DEF IInv, TypeOK
<1>11. QueueInv'
  <2>1. HookSteps' = HookSteps /\ step' <= Len(HookSteps) + 1
    BY <1>2, <1>3, <1>4 DEF HookSteps
  <2>2. executed' = {queue[j] : j \in {k \in DOMAIN queue : k < pos \/ (k = pos /\ step' > 0)}}
    BY <1>2, <1>4, <1>5
  <2>3. pos' # 0
    BY <1>2, <1>3
  <2>4. /\ \A j, k \in DOMAIN queue' : queue'[j] = queue'[k] => j = k
        /\ executed' = {queue'[j] : j \in {k \in DOMAIN queue' : k < pos' \/ (k = pos' /\ step' > 0)}}
    BY <1>2, <1>5, <2>2
  <2> QED
    BY <2>1, <2>3, <2>4 DEF QueueInv
<1>12. ReasonInv' /\ OrderInv'
  <2>1. Direct' = Direct /\ ReasonInv /\ OrderInv
    BY <1>2 DEF Direct, IInv
  <2>2. \A j \in DOMAIN queue : j < pos /\ queue[j] \in ChangedHooks' => queue[j] \in ChangedHooks
    BY <1>3, <1>5, <1>9 DEF k0
  <2>3. ChangedHooks \subseteq ChangedHooks'
    BY <1>9
  <2>4. ReasonInv'
    BY <1>2, <2>1, <2>2, <2>3 DEF ReasonInv
  <2> QED
    BY <1>2, <2>1, <2>4 DEF OrderInv
<1>r. /\ \A r \in DOMAIN hookReports :
            /\ hookReports[r].hook \in executed
            /\ hookReports[r].step \in DOMAIN cfg.hooks[hookReports[r].hook]
      /\ \A q, r \in DOMAIN hookReports : \A j, k \in DOMAIN queue :
            q < r /\ queue[j] = hookReports[q].hook /\ queue[k] = hookReports[r].hook => j <= k
      /\ \A q, r \in DOMAIN hookReports :
            q < r /\ hookReports[q].hook = hookReports[r].hook
                => hookReports[q].step < hookReports[r].step
      /\ \A j \in DOMAIN queue : j < pos => StepsOf(queue[j]) = DOMAIN cfg.hooks[queue[j]]
      /\ StepsOf(k0) = 1 .. step - 1
  BY <1>3, <1>4 DEF IInv, ReportInv, k0
<1>13. ReportInv'
  <2>1. ASSUME NEW r \in 1 .. n + 1
        PROVE  /\ hookReports'[r].hook \in executed
               /\ hookReports'[r].step \in DOMAIN cfg.hooks[hookReports'[r].hook]
    BY <1>1, <1>3, <1>5, <1>6, <1>7, <1>8, <1>r
  <2>2. ASSUME NEW q \in 1 .. n + 1, NEW r \in 1 .. n + 1, NEW j \in DOMAIN queue,
               NEW k \in DOMAIN queue, q < r, queue[j] = hookReports'[q].hook,
               queue[k] = hookReports'[r].hook
        PROVE  j <= k
    <3>1. q \in 1 .. n
      BY <1>6, <2>2
    <3>2. CASE r \in 1 .. n
      BY <1>6, <1>r, <2>2, <3>1, <3>2
    <3>3. CASE r = n + 1
      <4>1. k = pos
        BY <1>3, <1>5, <1>6, <1>7, <2>2, <3>3 DEF k0
      <4>2. queue[j] \in executed
        BY <2>1, <2>2, <3>1
      <4> QED
        BY <4>1, <4>2, ExecutedBefore
    <3> QED
      BY <1>8, <3>2, <3>3
  <2>3. ASSUME NEW q \in 1 .. n + 1, NEW r \in 1 .. n + 1, q < r,
               hookReports'[q].hook = hookReports'[r].hook
        PROVE  hookReports'[q].step < hookReports'[r].step
    <3>1. q \in 1 .. n
      BY <1>6, <2>3
    <3>2. CASE r \in 1 .. n
      BY <1>6, <1>r, <2>3, <3>1, <3>2
    <3>3. CASE r = n + 1
      <4>1. hookReports[q].step \in StepsOf(k0)
        BY <1>6, <1>7, <2>3, <3>1, <3>3 DEF StepsOf, ReportsOf
      <4>2. hookReports[q].step < step
        BY <1>4, <1>r, <4>1
      <4> QED
        BY <1>6, <1>7, <3>1, <3>3, <4>2
    <3> QED
      BY <1>8, <3>2, <3>3
  <2>4. ASSUME Fine', NEW j \in DOMAIN queue
        PROVE  /\ j < pos => StepsOf(queue[j])' = DOMAIN cfg.hooks[queue[j]]
               /\ j = pos => StepsOf(queue[j])' = 1 .. step' - 1
    <3>1. step' = step + 1
      BY <2>4, <1>2 DEF Fine, StepErr, NoErr
    <3>2. 1 .. step' - 1 = (1 .. step - 1) \cup {step}
      BY <1>4, <3>1
    <3>3. j < pos => queue[j] # k0
      BY <1>3, <1>5 DEF k0
    <3>4. \A h : h = k0 => StepsOf(h)' = 1 .. step' - 1
      BY <1>9, <1>r, <3>2
    <3>5. \A h : h # k0 => StepsOf(h)' = StepsOf(h)
      BY <1>9
    <3>6. j < pos => StepsOf(queue[j]) = DOMAIN cfg.hooks[queue[j]]
      BY <1>r
    <3> QED
      BY <3>3, <3>4, <3>5, <3>6, <1>2 DEF k0
  <2> QED
    BY <1>2, <1>6, <2>1, <2>2, <2>3, <2>4 DEF ReportInv
<1>14. ChangedInv'
  <2>1. anyChanged <=> k0 \in ChangedHooks
    BY <1>3, <1>4 DEF IInv, ChangedInv, k0
  <2> QED
    BY <1>2, <1>9, <2>1 DEF ChangedInv, k0
<1>15. EndInv'
  BY <1>2, <1>3 DEF EndInv, StepErr, NoErr
<1> QED
  BY <1>10, <1>11, <1>12, <1>13, <1>14, <1>15 DEF IInv

\* A hook ends: what it chains to is queued when it changed something, behind
\* what the steps of the deploy notified.
LEMMA EndHookInv ==
  ASSUME IInv, EndHook
  PROVE  IInv'
<1> DEFINE k0 == queue[pos]
           L  == Len(queue)
<1>1. AtHook /\ step = Len(HookSteps) + 1
  BY DEF EndHook
<1>2. /\ cfg' = cfg /\ changedSteps' = changedSteps /\ pos' = pos + 1 /\ step' = 0
      /\ executed' = executed /\ anyChanged' = anyChanged /\ hookReports' = hookReports
      /\ verdict' = verdict /\ exit' = exit /\ cancelled' = cancelled
      /\ queue' = IF anyChanged THEN Notify(queue, FlattenSeq(HookSteps)) ELSE queue
  BY DEF EndHook
<1>3. /\ queue \in Seq(Hook) /\ DOMAIN queue = 1 .. L /\ L \in Nat
      /\ pos \in 1 .. L /\ k0 \in Hook /\ verdict = NoErr /\ Fine /\ exit = NoErr
      /\ HookSteps \in Seq(Seq(Hook)) /\ HookSteps = cfg.hooks[k0] /\ cfg \in Configs
  BY <1>1, AtHookFacts
<1>4. step \in Nat /\ step > 0 /\ DOMAIN HookSteps = 1 .. step - 1
  <2>1. DOMAIN HookSteps = 1 .. Len(HookSteps) /\ Len(HookSteps) \in Nat
    BY <1>3
  <2> QED
    BY <1>1, <2>1
<1>5. /\ \A j, k \in DOMAIN queue : queue[j] = queue[k] => j = k
      /\ executed = {queue[j] : j \in {k \in DOMAIN queue : k < pos \/ (k = pos /\ step > 0)}}
      /\ anyChanged <=> k0 \in ChangedHooks
  BY <1>3, <1>4 DEF IInv, QueueInv, ChangedInv
<1>6. /\ queue' \in Seq(Hook) /\ L <= Len(queue') /\ \A j \in DOMAIN queue : queue'[j] = queue[j]
      /\ \A j, k \in DOMAIN queue' : queue'[j] = queue'[k] => j = k
      /\ Range(queue') = Range(queue) \cup (IF anyChanged THEN ChainOf(cfg)[k0] ELSE {})
  <2>0. PICK hs : hs = FlattenSeq(HookSteps)
    OBVIOUS
  <2>1. hs \in Seq(Hook) /\ Range(hs) = ChainOf(cfg)[k0]
    BY <1>3, <2>0, ChainQueue
  <2> DEFINE z == Notify(queue, hs)
  <2>2. /\ z \in Seq(Hook) /\ Len(queue) <= Len(z) /\ \A j \in DOMAIN queue : z[j] = queue[j]
        /\ \A j, k \in DOMAIN z : z[j] = z[k] => j = k
        /\ Range(z) = Range(queue) \cup Range(hs)
    <3>1. queue \in Seq(Hook) /\ \A j, k \in DOMAIN queue : queue[j] = queue[k] => j = k
      BY <1>3, <1>5
    <3> QED
      BY <2>1, <3>1, NotifyQueue
  <2> HIDE DEF z
  <2>3. CASE anyChanged
    <3>1. queue' = z
      BY <1>2, <2>0, <2>3 DEF z
    <3> QED
      BY <2>1, <2>2, <2>3, <3>1
  <2>4. CASE ~ anyChanged
    BY <1>2, <1>3, <1>5, <2>4
  <2> QED
    BY <2>3, <2>4
<1> HIDE DEF k0, L
<1>7. /\ DOMAIN queue' = 1 .. Len(queue') /\ Len(queue') \in Nat /\ DOMAIN queue \subseteq DOMAIN queue'
      /\ Range(queue') = {queue'[j] : j \in DOMAIN queue'}
      /\ Range(queue) = {queue[j] : j \in DOMAIN queue}
      /\ pos \in DOMAIN queue
  <2>1. DOMAIN queue' = 1 .. Len(queue') /\ Len(queue') \in Nat
    BY <1>6
  <2> QED
    BY <1>3, <1>6, <2>1 DEF Range
\* What of the old queue is met in the new one stands where it stood.
<1>8. ASSUME NEW k \in DOMAIN queue', queue'[k] \in Range(queue)
      PROVE  k \in DOMAIN queue /\ queue'[k] = queue[k]
  <2>1. PICK l \in DOMAIN queue : queue[l] = queue'[k]
    BY <1>7, <1>8
  <2>2. l = k
    BY <1>6, <1>7, <2>1
  <2> QED
    BY <2>1, <2>2
<1>9. \A j \in DOMAIN queue' : j < pos' => j \in DOMAIN queue /\ j <= pos /\ queue'[j] = queue[j]
  BY <1>2, <1>3, <1>6, <1>7
<1>10. TypeOK'
  <2>1. pos' \in 0 .. Len(queue') + 1
    BY <1>2, <1>3, <1>6, <1>7
  <2>2. executed \subseteq Range(queue')
    BY <1>6 DEF IInv, TypeOK
  <2>3. step' \in Nat /\ ~ (step' > 0)
    BY <1>2
  <2> QED
    BY <1>2, <1>6, <2>1, <2>2, <2>3 DEF IInv, TypeOK
<1>11. QueueInv'
  <2>1. pos' # 0 /\ ~ (step' > 0)
    BY <1>2, <1>3
  <2>2. executed' = {queue'[j] : j \in {k \in DOMAIN queue' : k < pos' \/ (k = pos' /\ step' > 0)}}
    <3>1. \A k \in DOMAIN queue : k < pos \/ (k = pos /\ step > 0) <=> k < pos'
      BY <1>2, <1>3, <1>4
    <3>2. executed = {queue[j] : j \in {k \in DOMAIN queue : k < pos'}}
      BY <1>5, <3>1
    <3>3. {k \in DOMAIN queue' : k < pos' \/ (k = pos' /\ step' > 0)} = {k \in DOMAIN queue : k < pos'}
      BY <1>7, <1>9, <2>1
    <3> QED
      BY <1>2, <1>6, <3>2, <3>3
  <2> QED
    BY <1>6, <2>1, <2>2 DEF QueueInv
<1>12. ReasonInv'
  <2>1. Direct' = Direct /\ ChangedHooks' = ChangedHooks /\ ChainOf(cfg') = ChainOf(cfg)
    BY <1>2 DEF Direct, ChangedHooks
  <2>2. /\ Direct \subseteq Range(queue)
        /\ \A k \in DOMAIN queue :
              \/ queue[k] \in Direct
              \/ \E j \in 1 .. k - 1 : /\ j < pos /\ queue[j] \in ChangedHooks
                                       /\ queue[k] \in ChainOf(cfg)[queue[j]]
        /\ \A j \in DOMAIN queue :
              j < pos /\ queue[j] \in ChangedHooks => ChainOf(cfg)[queue[j]] \subseteq Range(queue)
    BY <1>3 DEF IInv, ReasonInv
  <2>3. ASSUME NEW k \in DOMAIN queue'
        PROVE  \/ queue'[k] \in Direct
               \/ \E j \in 1 .. k - 1 : /\ j < pos' /\ queue'[j] \in ChangedHooks
                                        /\ queue'[k] \in ChainOf(cfg)[queue'[j]]
    <3>1. CASE k \in DOMAIN queue /\ queue[k] \notin Direct
      <4>1. PICK j \in 1 .. k - 1 : /\ j < pos /\ queue[j] \in ChangedHooks
                                    /\ queue[k] \in ChainOf(cfg)[queue[j]]
        BY <2>2, <3>1
      <4>2. j \in DOMAIN queue /\ j < pos'
        BY <1>2, <1>3, <3>1, <4>1
      <4> QED
        BY <1>6, <3>1, <4>1, <4>2
    <3>2. CASE k \notin DOMAIN queue
      <4>1. queue'[k] \notin Range(queue) /\ queue'[k] \in Range(queue')
        BY <1>7, <1>8, <3>2
      <4>2. anyChanged /\ queue'[k] \in ChainOf(cfg)[k0]
        BY <1>6, <4>1
      <4>3. k > pos /\ k \in Nat /\ pos \in Nat /\ pos >= 1
        BY <1>3, <1>7, <3>2
      <4>4. pos \in 1 .. k - 1 /\ pos < pos'
        BY <1>2, <4>3
      <4>5. queue'[pos] = k0 /\ k0 \in ChangedHooks
        BY <1>5, <1>6, <1>7, <4>2 DEF k0
      <4> QED
        BY <4>2, <4>4, <4>5
    <3> QED
      BY <1>6, <3>1, <3>2
  <2>4. ASSUME NEW j \in DOMAIN queue', j < pos', queue'[j] \in ChangedHooks
        PROVE  ChainOf(cfg)[queue'[j]] \subseteq Range(queue')
    <3>1. j \in DOMAIN queue /\ j <= pos /\ queue'[j] = queue[j]
      BY <1>9, <2>4
    <3>2. CASE j < pos
      BY <1>6, <2>2, <2>4, <3>1, <3>2
    <3>3. CASE j = pos
      BY <1>5, <1>6, <2>4, <3>1, <3>3 DEF k0
    <3> QED
      BY <1>3, <3>1, <3>2, <3>3
  <2>5. Direct \subseteq Range(queue')
    BY <1>6, <2>2
  <2> QED
    BY <1>2, <2>1, <2>3, <2>4, <2>5 DEF ReasonInv
<1>13. OrderInv'
  <2> SUFFICES ASSUME NEW j \in DOMAIN queue', NEW k \in DOMAIN queue', NEW i \in changedSteps,
                      j < k, queue'[k] \in Range(cfg.steps[i])
               PROVE  \E m \in changedSteps : m <= i /\ queue'[j] \in Range(cfg.steps[m])
    BY <1>2 DEF OrderInv
  <2>1. queue'[k] \in Range(queue)
    BY <1>3 DEF IInv, ReasonInv, Direct
  <2>2. k \in DOMAIN queue /\ queue'[k] = queue[k]
    BY <1>8, <2>1
  <2>3. j \in DOMAIN queue /\ queue'[j] = queue[j]
    BY <1>3, <1>6, <1>7, <2>2
  <2> QED
    BY <2>2, <2>3 DEF IInv, OrderInv
<1>14. ReportInv'
  <2>1. \A h : StepsOf(h)' = StepsOf(h)
    BY <1>2 DEF StepsOf, ReportsOf
  <2>2. /\ \A r \in DOMAIN hookReports :
              /\ hookReports[r].hook \in executed
              /\ hookReports[r].step \in DOMAIN cfg.hooks[hookReports[r].hook]
        /\ \A q, r \in DOMAIN hookReports : \A j, k \in DOMAIN queue :
              q < r /\ queue[j] = hookReports[q].hook /\ queue[k] = hookReports[r].hook => j <= k
        /\ \A q, r \in DOMAIN hookReports :
              q < r /\ hookReports[q].hook = hookReports[r].hook
                  => hookReports[q].step < hookReports[r].step
        /\ \A j \in DOMAIN queue : j < pos => StepsOf(queue[j]) = DOMAIN cfg.hooks[queue[j]]
        /\ StepsOf(k0) = 1 .. step - 1
    BY <1>3, <1>4 DEF IInv, ReportInv, k0
  <2>3. executed \subseteq Range(queue)
    BY DEF IInv, TypeOK
  <2>4. ASSUME NEW q \in DOMAIN hookReports, NEW r \in DOMAIN hookReports,
               NEW j \in DOMAIN queue', NEW k \in DOMAIN queue', q < r,
               queue'[j] = hookReports[q].hook, queue'[k] = hookReports[r].hook
        PROVE  j <= k
    <3>1. queue'[j] \in Range(queue) /\ queue'[k] \in Range(queue)
      BY <2>2, <2>3, <2>4
    <3>2. j \in DOMAIN queue /\ queue'[j] = queue[j] /\ k \in DOMAIN queue /\ queue'[k] = queue[k]
      BY <1>8, <3>1
    <3> QED
      BY <2>2, <2>4, <3>2
  <2>5. ASSUME NEW j \in DOMAIN queue', j < pos'
        PROVE  StepsOf(queue'[j]) = DOMAIN cfg.hooks[queue'[j]]
    <3>1. j \in DOMAIN queue /\ j <= pos /\ queue'[j] = queue[j]
      BY <1>9, <2>5
    <3>2. CASE j < pos
      BY <2>2, <3>1, <3>2
    <3>3. CASE j = pos
      BY <1>3, <1>4, <2>2, <3>1, <3>3 DEF k0
    <3> QED
      BY <1>3, <3>1, <3>2, <3>3
  <2> QED
    BY <1>2, <2>1, <2>2, <2>4, <2>5 DEF ReportInv
<1>15. ChangedInv' /\ EndInv'
  BY <1>2, <1>3 DEF ChangedInv, EndInv, NoErr
<1> QED
  BY <1>10, <1>11, <1>12, <1>13, <1>14, <1>15 DEF IInv

\* Every step keeps the invariant.
LEMMA NextInv == IInv /\ [Next]_vars => IInv'
<1> SUFFICES ASSUME IInv, [Next]_vars PROVE IInv'
  OBVIOUS
<1>1. CASE \E e \in PlanErr : PlanFails(e)
  <2>1. UNCHANGED <<cfg, changedSteps, queue, pos, step, anyChanged, executed, hookReports>>
    BY <1>1 DEF PlanFails
  <2> QED
    BY <1>1, <2>1, EndsInv
<1>2. CASE \E S \in SUBSET DOMAIN cfg.steps : PlanSucceeds(S)
  BY <1>2, PlanSucceedsInv
<1>3. CASE BeginHook
  BY <1>3, BeginHookInv
<1>4. CASE \E ch \in BOOLEAN, e \in StepErr \cup {NoErr} : HookStep(ch, e)
  BY <1>4, HookStepInv
<1>5. CASE EndHook
  BY <1>5, EndHookInv
<1>6. CASE HooksOver \/ Exit \/ Cancel \/ UNCHANGED vars
  <2>1. UNCHANGED <<cfg, changedSteps, queue, pos, step, anyChanged, executed, hookReports>>
    BY <1>6 DEF HooksOver, Exit, Cancel, vars
  <2> QED
    BY <1>6, <2>1, EndsInv
<1> QED
  BY <1>1, <1>2, <1>3, <1>4, <1>5, <1>6 DEF Next, Progress, Finished

\* The invariant that ties the queue, while it grows, to what ran and why holds
\* in every reachable state.
THEOREM IInvHolds == Spec => []IInv
<1> QED
  BY InitInv, NextInv, PTL DEF Spec

\* A step of the deploy that notifies h first, or one past them all.
LEMMA FirstNotifierIs ==
  ASSUME IInv, NEW h
  PROVE  LET I == {i \in changedSteps : h \in Range(cfg.steps[i])}
             f == FirstNotifier(h)
         IN  /\ f \in Nat
             /\ I = {} => f = Len(cfg.steps) + 1
             /\ I # {} => f \in I /\ f <= Len(cfg.steps) /\ \A i \in I : f <= i
<1> DEFINE I == {i \in changedSteps : h \in Range(cfg.steps[i])}
           f == FirstNotifier(h)
<1>1. cfg.steps \in Seq(Seq(Hook))
  BY ConfigsAssumption DEF IInv, TypeOK
<1>2. Len(cfg.steps) \in Nat /\ DOMAIN cfg.steps = 1 .. Len(cfg.steps)
  BY <1>1
<1>3. I \subseteq 1 .. Len(cfg.steps)
  BY <1>2 DEF IInv, TypeOK
<1>4. I \in SUBSET Nat
  BY <1>2, <1>3
<1>5. f = IF I = {} THEN Len(cfg.steps) + 1 ELSE CHOOSE i \in I : \A j \in I : i <= j
  BY DEF FirstNotifier
<1> HIDE DEF I, f
<1>6. CASE I = {}
  <2>1. f = Len(cfg.steps) + 1 /\ f \in Nat
    BY <1>2, <1>5, <1>6
  <2> QED
    BY <1>6, <2>1 DEF I, f
<1>7. CASE I # {}
  <2>1. \E i \in I : \A j \in I : i <= j
    BY <1>4, <1>7, Least
  <2>2. f \in I /\ \A i \in I : f <= i
    BY <1>5, <1>7, <2>1
  <2>3. f \in Nat /\ f <= Len(cfg.steps)
    BY <1>2, <1>3, <2>2
  <2> QED
    BY <1>7, <2>2, <2>3 DEF I, f
<1> QED
  BY <1>6, <1>7

\* The hooks run in the order in which the steps of the deploy notify them.
LEMMA InvOrder == IInv => NotificationOrder
<1> SUFFICES ASSUME IInv, NEW q \in DOMAIN hookReports, NEW r \in DOMAIN hookReports, q < r
             PROVE  FirstNotifier(hookReports[q].hook) <= FirstNotifier(hookReports[r].hook)
  BY DEF NotificationOrder
<1> DEFINE a == hookReports[q].hook
           b == hookReports[r].hook
           I(h) == {i \in changedSteps : h \in Range(cfg.steps[i])}
<1>1. a \in Range(queue) /\ b \in Range(queue)
  BY DEF IInv, ReportInv, TypeOK
<1>2. PICK j \in DOMAIN queue : queue[j] = a
  BY <1>1 DEF Range
<1>3. PICK k \in DOMAIN queue : queue[k] = b
  BY <1>1 DEF Range
<1>4. j <= k /\ j \in Nat /\ k \in Nat
  <2>1. queue \in Seq(Hook)
    BY DEF IInv, TypeOK
  <2> QED
    BY <1>2, <1>3, <2>1 DEF IInv, ReportInv
<1>5. \A h : /\ FirstNotifier(h) \in Nat
             /\ I(h) = {} => FirstNotifier(h) = Len(cfg.steps) + 1
             /\ I(h) # {} => /\ FirstNotifier(h) \in I(h) /\ FirstNotifier(h) <= Len(cfg.steps)
                             /\ \A i \in I(h) : FirstNotifier(h) <= i
  BY FirstNotifierIs
<1>s. cfg.steps \in Seq(Seq(Hook)) /\ changedSteps \subseteq DOMAIN cfg.steps
  BY ConfigsAssumption DEF IInv, TypeOK
<1>l. Len(cfg.steps) \in Nat /\ DOMAIN cfg.steps = 1 .. Len(cfg.steps)
  BY <1>s
<1>6. \A i \in changedSteps : i \in Nat
  BY <1>s, <1>l
<1> HIDE DEF a, b
<1>7. CASE j = k
  <2>1. a = b
    BY <1>2, <1>3, <1>7
  <2> QED
    BY <1>5, <2>1 DEF a, b
<1>8. CASE j < k /\ I(b) # {}
  <2>1. FirstNotifier(b) \in changedSteps /\ queue[k] \in Range(cfg.steps[FirstNotifier(b)])
    BY <1>3, <1>5, <1>8
  <2>2. PICK m \in changedSteps : m <= FirstNotifier(b) /\ queue[j] \in Range(cfg.steps[m])
    BY <1>8, <2>1 DEF IInv, OrderInv
  <2>3. m \in I(a)
    BY <1>2, <2>2
  <2>4. FirstNotifier(a) <= m
    BY <1>5, <2>3
  <2> QED
    BY <1>5, <1>6, <2>2, <2>4 DEF a, b
<1>9. CASE I(b) = {}
  <2>1. FirstNotifier(b) = Len(cfg.steps) + 1
    BY <1>5, <1>9
  <2>2. FirstNotifier(a) \in Nat /\ FirstNotifier(a) <= Len(cfg.steps) + 1
    BY <1>5, <1>l
  <2> QED
    BY <2>1, <2>2 DEF a, b
<1> QED
  BY <1>4, <1>7, <1>8, <1>9

\* When all went well, the queue is what the run owes: it holds what the changed
\* steps notify and is closed under the chains of changed hooks, and everything
\* in it is there for one of those reasons.
LEMMA QueueIsOwed ==
  ASSUME IInv, verdict = "ok"
  PROVE  Owed = Range(queue)
<1> DEFINE R == Range(queue)
           From(G) == Direct \cup UNION {ChainOf(cfg)[h] : h \in G \cap ChangedHooks}
<1>1. /\ queue \in Seq(Hook) /\ DOMAIN queue = 1 .. Len(queue) /\ Len(queue) \in Nat
      /\ pos = Len(queue) + 1
  <2>1. queue \in Seq(Hook)
    BY DEF IInv, TypeOK
  <2> QED
    BY <2>1 DEF IInv, EndInv
<1>2. R \in SUBSET Hook /\ R = {queue[j] : j \in 1 .. Len(queue)}
  BY <1>1 DEF Range
<1>3. \A j \in 1 .. Len(queue) : j < pos
  BY <1>1
<1>4. /\ Direct \subseteq R
      /\ \A k \in 1 .. Len(queue) :
            \/ queue[k] \in Direct
            \/ \E j \in 1 .. k - 1 : /\ j < pos /\ queue[j] \in ChangedHooks
                                     /\ queue[k] \in ChainOf(cfg)[queue[j]]
      /\ \A j \in 1 .. Len(queue) :
            queue[j] \in ChangedHooks => ChainOf(cfg)[queue[j]] \subseteq R
  <2>1. pos > 0
    BY <1>1
  <2> QED
    BY <1>1, <1>3, <2>1 DEF IInv, ReasonInv
<1> HIDE DEF R
<1>5. From(R) = R
  <2>1. From(R) \subseteq R
    <3>1. \A h \in R \cap ChangedHooks : ChainOf(cfg)[h] \subseteq R
      BY <1>2, <1>4
    <3> QED
      BY <1>4, <3>1
  <2>2. R \subseteq From(R)
    <3> SUFFICES ASSUME NEW k \in 1 .. Len(queue) PROVE queue[k] \in From(R)
      BY <1>2
    <3>1. CASE queue[k] \in Direct
      BY <3>1
    <3>2. CASE queue[k] \notin Direct
      <4>1. PICK j \in 1 .. k - 1 : /\ queue[j] \in ChangedHooks
                                    /\ queue[k] \in ChainOf(cfg)[queue[j]]
        BY <1>4, <3>2
      <4>2. queue[j] \in R
        BY <1>1, <1>2, <4>1
      <4> QED
        BY <4>1, <4>2
    <3> QED
      BY <3>1, <3>2
  <2> QED
    BY <2>1, <2>2
<1>6. ASSUME NEW G \in SUBSET Hook, From(G) = G PROVE R \subseteq G
  <2> SUFFICES ASSUME ~ (R \subseteq G) PROVE FALSE
    OBVIOUS
  <2> DEFINE T == {k \in 1 .. Len(queue) : queue[k] \notin G}
  <2>1. T \in SUBSET Nat /\ T # {}
    BY <1>1, <1>2
  <2>2. PICK k \in T : \A j \in T : k <= j
    <3> HIDE DEF T
    <3> QED
      BY <2>1, Least
  <2>3. queue[k] \notin Direct
    BY <1>6
  <2>4. PICK j \in 1 .. k - 1 : /\ queue[j] \in ChangedHooks
                                /\ queue[k] \in ChainOf(cfg)[queue[j]]
    BY <1>4, <2>3
  <2>5. j \in 1 .. Len(queue) /\ j < k
    BY <1>1, <2>4
  <2>6. queue[j] \in G
    BY <2>2, <2>5, <1>1
  <2> QED
    BY <1>6, <2>4, <2>6
<1> DEFINE Good(H) == From(H) = H /\ \A G \in SUBSET Hook : From(G) = G => H \subseteq G
<1>7. Good(R)
  BY <1>5, <1>6
<1>8. \A H \in SUBSET Hook : Good(H) => H = R
  BY <1>2, <1>5, <1>6
<1>9. Owed = CHOOSE H \in SUBSET Hook : Good(H)
  BY DEF Owed
<1> HIDE DEF Good
<1>10. Owed = R
  BY <1>2, <1>7, <1>8, <1>9
<1> QED
  BY <1>10 DEF R

\* A success ran all the steps of what is in the queue, and no other.
LEMMA InvRan == IInv => SuccessRanOwed
<1> SUFFICES ASSUME IInv, exit = "ok", NEW h \in Hook
             PROVE  /\ StepsOf(h) = IF h \in Owed THEN DOMAIN cfg.hooks[h] ELSE {}
                    /\ \A q, r \in ReportsOf(h) : q < r => hookReports[q].step < hookReports[r].step
  BY DEF SuccessRanOwed, StepsOf
<1>1. verdict = "ok" /\ pos = Len(queue) + 1 /\ Fine
  <2>1. verdict = "ok"
    BY DEF IInv, EndInv, ExitOf, NoErr
  <2> QED
    BY <2>1 DEF IInv, EndInv, Fine
<1>2. Owed = Range(queue)
  BY <1>1, QueueIsOwed
<1>3. queue \in Seq(Hook)
  BY DEF IInv, TypeOK
<1>4. CASE h \in Range(queue)
  <2>1. PICK j \in DOMAIN queue : queue[j] = h
    BY <1>4 DEF Range
  <2>2. j < pos
    BY <1>1, <1>3, <2>1
  <2>3. StepsOf(h) = DOMAIN cfg.hooks[h]
    BY <1>1, <2>1, <2>2 DEF IInv, ReportInv
  <2> QED
    BY <1>2, <1>4, <2>3 DEF IInv, ReportInv, ReportsOf
<1>5. CASE h \notin Range(queue)
  <2>1. ReportsOf(h) = {}
    BY <1>5 DEF IInv, ReportInv, TypeOK, ReportsOf
  <2> QED
    BY <1>2, <1>5, <2>1 DEF StepsOf
<1> QED
  BY <1>4, <1>5

\* A success means that every hook owed ran all its steps, once and in order,
\* and no other hook did; and hooks run in the order the steps notify them.
THEOREM OwedHolds == Spec => []OwedInOrder
<1>1. IInv => OwedInOrder
  BY InvOrder, InvRan DEF OwedInOrder
<1> QED
  BY <1>1, IInvHolds, PTL

\* The end of a deploy as the promise sees it.
LEMMA OverIs ==
  /\ OverOf(NoErr) = "no" /\ OverOf("ok") = "success"
  /\ \A v : v # NoErr /\ v # "ok" => OverOf(v) = "failure"
BY DEF OverOf, NoErr

\* The state a deploy starts in is one the promise starts in.
LEMMA PromiseInit == Init => Promise!Init
<1> SUFFICES ASSUME Init PROVE Promise!Init
  OBVIOUS
<1>1. queue = <<>> /\ DOMAIN queue = {} /\ executed = {} /\ verdict = NoErr /\ cfg \in Configs
  BY DEF Init
<1>2. Range(queue) = {}
  BY <1>1 DEF Range
<1>3. ChainOf(cfg) \in [Hook -> SUBSET Hook]
  <2>1. \A h \in Hook : ChainOf(cfg)[h] \in SUBSET Hook
    <3> SUFFICES ASSUME NEW h \in Hook PROVE ChainOf(cfg)[h] \subseteq Hook
      OBVIOUS
    <3>1. FlattenSeq(cfg.hooks[h]) \in Seq(Hook) /\ Range(FlattenSeq(cfg.hooks[h])) = ChainOf(cfg)[h]
      BY <1>1, ChainQueue
    <3> DEFINE z == FlattenSeq(cfg.hooks[h])
    <3>2. z \in Seq(Hook) /\ Range(z) = ChainOf(cfg)[h]
      BY <3>1
    <3> HIDE DEF z
    <3>3. Range(z) \subseteq Hook
      BY <3>2 DEF Range
    <3> QED
      BY <3>2, <3>3
  <2>2. ChainOf(cfg) = [h \in Hook |-> ChainOf(cfg)[h]]
    BY DEF ChainOf
  <2> QED
    BY <2>1, <2>2
<1> QED
  BY <1>1, <1>2, <1>3, OverIs DEF Promise!Init

\* Each step of a deploy is a step of the promise, or none.
LEMMA PromiseNext == IInv /\ IInv' /\ [Next]_vars => [Promise!Next]_(Promise!vars)
<1> SUFFICES ASSUME IInv, IInv', [Next]_vars
             PROVE  Promise!Next \/ UNCHANGED Promise!vars
  OBVIOUS
<1>c. ChainOf(cfg)' = ChainOf(cfg)
  <2>1. cfg' = cfg
    BY DEF Next, Progress, Finished, PlanFails, PlanSucceeds, BeginHook, HookStep, EndHook,
       HooksOver, Exit, Cancel, vars
  <2> QED
    BY <2>1 DEF ChainOf
<1>1. ASSUME NEW e \in PlanErr, PlanFails(e) PROVE Promise!Fail
  <2>1. verdict = NoErr /\ verdict' = e /\ e # NoErr /\ e # "ok" /\ queue' = queue /\ executed' = executed
    BY <1>1 DEF PlanFails, PlanErr, NoErr
  <2> QED
    BY <1>c, <2>1, OverIs DEF Promise!Fail
<1>2. ASSUME NEW S \in SUBSET DOMAIN cfg.steps, PlanSucceeds(S)
      PROVE  \E T \in SUBSET Hook : Promise!Start(T)
  <2>1. verdict = NoErr /\ verdict' = verdict /\ executed' = executed /\ pos = 0
    BY <1>2 DEF PlanSucceeds
  <2>2. Range(queue) = {}
    BY <2>1, BeforeHooks DEF Range
  <2>3. Range(queue') \in SUBSET Hook
    <3>1. queue' \in Seq(Hook)
      BY DEF IInv, TypeOK
    <3> QED
      BY <3>1 DEF Range
  <2> QED
    BY <1>c, <2>1, <2>2, <2>3, OverIs DEF Promise!Start
<1>3. ASSUME BeginHook PROVE \E h \in Hook : Promise!Run(h)
  <2>1. AtHook /\ queue[pos] \notin executed /\ executed' = executed \cup {queue[pos]}
        /\ queue' = queue /\ verdict' = verdict
    BY <1>3 DEF BeginHook
  <2>2. queue[pos] \in Hook /\ verdict = NoErr /\ queue[pos] \in Range(queue)
    BY <2>1, AtHookFacts DEF Range
  <2> QED
    BY <1>c, <2>1, <2>2, OverIs DEF Promise!Run
<1>4. ASSUME NEW ch \in BOOLEAN, NEW e \in StepErr \cup {NoErr}, HookStep(ch, e)
      PROVE  Promise!Fail \/ UNCHANGED Promise!vars
  <2>1. verdict = NoErr /\ verdict' = e /\ queue' = queue /\ executed' = executed
    BY <1>4 DEF HookStep, AtHook
  <2>2. CASE e = NoErr
    BY <1>c, <2>1, <2>2 DEF Promise!vars
  <2>3. CASE e # NoErr
    <3>1. e # "ok"
      BY <2>3 DEF StepErr
    <3> QED
      BY <1>c, <2>1, <2>3, <3>1, OverIs DEF Promise!Fail, NoErr
  <2> QED
    BY <2>2, <2>3
<1>5. ASSUME EndHook PROVE (\E h \in Hook : Promise!Chain(h)) \/ UNCHANGED Promise!vars
  <2>1. AtHook /\ executed' = executed /\ verdict' = verdict /\ step = Len(HookSteps) + 1
        /\ queue' = IF anyChanged THEN Notify(queue, FlattenSeq(HookSteps)) ELSE queue
    BY <1>5 DEF EndHook
  <2>2. /\ queue[pos] \in Hook /\ verdict = NoErr /\ cfg \in Configs /\ queue \in Seq(Hook)
        /\ pos \in DOMAIN queue /\ HookSteps = cfg.hooks[queue[pos]] /\ HookSteps \in Seq(Seq(Hook))
    BY <2>1, AtHookFacts
  <2>3. CASE ~ anyChanged
    BY <1>c, <2>1, <2>3 DEF Promise!vars
  <2>4. CASE anyChanged
    <3>1. /\ FlattenSeq(HookSteps) \in Seq(Hook)
          /\ Range(FlattenSeq(HookSteps)) = ChainOf(cfg)[queue[pos]]
      BY <2>2, ChainQueue
    <3>2. \A j, k \in DOMAIN queue : queue[j] = queue[k] => j = k
      BY DEF IInv, QueueInv
    <3> DEFINE z == Notify(queue, FlattenSeq(HookSteps))
    <3>3. Range(z) = Range(queue) \cup ChainOf(cfg)[queue[pos]]
      BY <2>2, <3>1, <3>2, NotifyQueue
    <3>4. queue' = z
      BY <2>1, <2>4
    <3> HIDE DEF z
    <3>5. queue[pos] \in executed
      <4>1. step > 0
        BY <2>1, <2>2
      <4> QED
        BY <2>2, <4>1 DEF IInv, QueueInv
    <3>6. Range(queue') = Range(queue) \cup ChainOf(cfg)[queue[pos]]
      BY <3>3, <3>4
    <3> QED
      BY <1>c, <2>1, <2>2, <3>5, <3>6, OverIs DEF Promise!Chain
  <2> QED
    BY <2>3, <2>4
<1>6. ASSUME HooksOver PROVE Promise!Succeed
  <2>1. verdict = NoErr /\ verdict' = "ok" /\ queue' = queue /\ executed' = executed
    BY <1>6 DEF HooksOver
  <2>2. pos' = Len(queue') + 1 /\ step' = 0
    BY <2>1 DEF IInv, EndInv
  <2>3. queue' \in Seq(Hook)
    BY DEF IInv, TypeOK
  <2>4. executed' = {queue'[j] : j \in DOMAIN queue'}
    BY <2>2, <2>3 DEF IInv, QueueInv
  <2>5. executed = Range(queue)
    BY <2>1, <2>4 DEF Range
  <2> QED
    BY <1>c, <2>1, <2>5, OverIs DEF Promise!Succeed, NoErr
<1>7. ASSUME Exit \/ Cancel \/ UNCHANGED vars PROVE UNCHANGED Promise!vars
  <2>1. queue' = queue /\ executed' = executed /\ verdict' = verdict
    BY <1>7 DEF Exit, Cancel, vars
  <2> QED
    BY <1>c, <2>1 DEF Promise!vars
<1> QED
  BY <1>1, <1>2, <1>3, <1>4, <1>5, <1>6, <1>7 DEF Next, Progress, Finished, Promise!Next

\* A deploy keeps the promise of HookNotify: a hook runs once it was notified
\* and only then, and success comes when every notified hook has run.
THEOREM PromiseKept == Spec => KeepsPromise
<1> QED
  BY PromiseInit, PromiseNext, IInvHolds, PTL DEF Spec, KeepsPromise, Promise!Spec

\* Once a step of the deploy or of a hook failed, or the user interrupted, no
\* hook step runs and the process does not exit as if all went well.
THEOREM FailureStops == Spec => FailureStopsHooks
<1>2. ASSUME IInv, [Next]_vars
      PROVE  [verdict \notin {NoErr, "ok"} => hookReports' = hookReports /\ exit' # "ok"]_vars
  <2> SUFFICES ASSUME verdict \notin {NoErr, "ok"}, ~(UNCHANGED vars)
               PROVE  hookReports' = hookReports /\ exit' # "ok"
    OBVIOUS
  <2>1. Exit
    BY <1>2 DEF Next, Progress, Finished, PlanFails, PlanSucceeds, BeginHook, HookStep, EndHook,
       HooksOver, Cancel, AtHook
  <2> QED
    BY <2>1 DEF Exit, ExitOf
<1>3. IInv /\ [Next]_vars
         => [verdict \notin {NoErr, "ok"} => hookReports' = hookReports /\ exit' # "ok"]_vars
  BY <1>2
<1> QED
  BY IInvHolds, <1>3, PTL DEF Spec, FailureStopsHooks
=============================================================================

---------------------------- MODULE DeploysProofs ----------------------------
(***************************************************************************)
(* Proofs about Deploys, for any number of blocks, targets and resources:  *)
(* the depths of an acyclic graph are right, the levels keep their order,  *)
(* no failure is lost and the report is whole and in order.                *)
(***************************************************************************)
EXTENDS Deploys, SequencesExt,
        FiniteSetTheorems, WellFoundedInduction, SequenceTheorems, TLAPS

-----------------------------------------------------------------------------
(***************************************************************************)
(* The theorems of the library that state induction cannot be cited, so an *)
(* induction here takes the least position at which a property fails.      *)
(***************************************************************************)

\* A family of subsets of a finite set has a smallest member, in the sense that
\* it contains no other.
LEMMA Smallest ==
  ASSUME NEW D, IsFiniteSet(D), NEW F \in SUBSET (SUBSET D), F # {}
  PROVE  \E A \in F : \A B \in F : B \subseteq A => B = A
<1>1. F \subseteq FiniteSubsetsOf(D)
  <2>1. \A A \in F : IsFiniteSet(A)
    BY FS_Subset
  <2> QED
    BY <2>1 DEF FiniteSubsetsOf
<1>2. PICK A \in F : \A B \in F : ~ (<<B, A>> \in StrictSubsetOrdering(D))
  BY <1>1, FS_StrictSubsetOrderingWellFounded, WFMin
<1>3. ASSUME NEW B \in F, B \subseteq A, B # A PROVE FALSE
  BY <1>2, <1>3 DEF StrictSubsetOrdering
<1> QED
  BY <1>3

\* A set of natural numbers has a least one, which is what an induction over
\* positions rests on.
LEMMA Least ==
  ASSUME NEW T \in SUBSET Nat, T # {}
  PROVE  \E n \in T : \A m \in T : n <= m
<1> DEFINE U == {T \cap (0 .. n) : n \in T}
<1>1. U \subseteq FiniteSubsetsOf(T) /\ U # {}
  <2>1. ASSUME NEW n \in T PROVE IsFiniteSet(T \cap (0 .. n))
    <3>1. n \in Int /\ IsFiniteSet(0 .. n)
      BY FS_Interval
    <3> QED
      BY <3>1, FS_Intersection
  <2> QED
    BY <2>1 DEF FiniteSubsetsOf
<1>2. PICK A \in U : \A B \in U : ~ (<<B, A>> \in StrictSubsetOrdering(T))
  <2> HIDE DEF U
  <2> QED BY <1>1, FS_StrictSubsetOrderingWellFounded, WFMin
<1>3. PICK n \in T : A = T \cap (0 .. n)
  BY <1>2
<1>4. ASSUME NEW m \in T, m < n PROVE FALSE
  <2>1. T \cap (0 .. m) \in U /\ T \cap (0 .. m) \subseteq A /\ n \in A /\ n \notin T \cap (0 .. m)
    BY <1>3, <1>4
  <2> QED
    BY <1>2, <2>1, <1>3 DEF StrictSubsetOrdering
<1> QED
  BY <1>4

\* And a bounded one has a greatest, which is what Max chooses.
LEMMA Greatest ==
  ASSUME NEW T \in SUBSET Nat, NEW b \in Nat, T # {}, \A n \in T : n <= b
  PROVE  Max(T) \in T /\ \A m \in T : m <= Max(T)
<1> DEFINE U == {b - n : n \in T}
<1>1. PICK u \in U : \A v \in U : u <= v
  <2>1. \A n \in T : b - n \in Nat
    OBVIOUS
  <2>2. U \in SUBSET Nat /\ U # {}
    BY <2>1
  <2> HIDE DEF U
  <2> QED BY <2>2, Least
<1>2. PICK n \in T : u = b - n
  BY <1>1
<1>3. \A m \in T : n >= m
  BY <1>1, <1>2
<1> QED
  BY <1>3 DEF Max

\* A finite set of natural numbers is bounded.
LEMMA FiniteBound ==
  ASSUME NEW T, IsFiniteSet(T), \A n \in T : n \in Nat
  PROVE  \E b \in Nat : \A n \in T : n <= b
<1> DEFINE F == {A \in SUBSET T : \E b \in Nat : \A n \in T \ A : n <= b}
<1>1. F \in SUBSET (SUBSET T) /\ F # {}
  <2>1. T \in F
    <3>1. 0 \in Nat /\ \A n \in T \ T : n <= 0
      OBVIOUS
    <3> QED
      BY <3>1
  <2> QED
    BY <2>1
<1>2. PICK A \in F : \A B \in F : B \subseteq A => B = A
  <2> HIDE DEF F
  <2> QED
    BY <1>1, Smallest
<1>3. PICK b \in Nat : \A n \in T \ A : n <= b
  BY <1>2
<1>4. ASSUME NEW m \in A PROVE FALSE
  <2>1. m \in Nat /\ b + m \in Nat
    BY <1>2
  <2>2. \A n \in T \ (A \ {m}) : n <= b + m
    <3> SUFFICES ASSUME NEW n \in T, n = m \/ n \notin A PROVE n <= b + m
      OBVIOUS
    <3>1. n = m \/ n <= b
      BY <1>3
    <3> QED
      BY <2>1, <3>1
  <2>3. A \ {m} \in F
    BY <1>2, <2>1, <2>2
  <2> QED
    BY <1>2, <2>3
<1> QED
  BY <1>3, <1>4

\* The sequences of a sequence, joined: what is reached after each of them.
LEMMA FlattenFold ==
  ASSUME NEW S, NEW ss \in Seq(Seq(S)), ss # <<>>
  PROVE  \E f : /\ FlattenSeq(ss) = f[Len(ss)] /\ f[1] = ss[1]
                /\ \A i \in 2 .. Len(ss) : f[i] = f[i - 1] \o ss[i]
<1> DEFINE n == Len(ss)
           Body(g, i) == IF i = 1 THEN ss[i] ELSE g[i - 1] \o ss[i]
           Good(m) == \E g : \A i \in 1 .. m : g[i] = Body(g, i)
<1>1. n \in Nat /\ n # 0
  OBVIOUS
<1>2. \A m \in Nat : Good(m)
  <2> SUFFICES ASSUME NEW k \in Nat, ~ Good(k) PROVE FALSE
    OBVIOUS
  <2>1. PICK m \in Nat : ~ Good(m) /\ \A j \in Nat : j < m => Good(j)
    <3> HIDE DEF Good
    <3> DEFINE T == {j \in Nat : ~ Good(j)}
    <3>1. T \in SUBSET Nat /\ T # {}
      OBVIOUS
    <3>2. PICK m \in T : \A j \in T : m <= j
      <4> HIDE DEF T
      <4> QED
        BY <3>1, Least
    <3> QED
      BY <3>2
  <2>2. CASE m = 0
    BY <2>1, <2>2
  <2>3. CASE m > 0
    <3>1. m - 1 \in Nat /\ m - 1 < m
      BY <2>3
    <3>2. Good(m - 1)
      BY <2>1, <3>1
    <3>3. PICK g : \A i \in 1 .. m - 1 : g[i] = Body(g, i)
      BY <3>2
    <3> DEFINE h == [i \in 1 .. m |-> IF i < m THEN g[i] ELSE Body(g, i)]
    <3>4. \A i \in 1 .. m : h[i] = Body(h, i)
      BY <3>3
    <3> QED
      BY <2>1, <3>4
  <2> QED
    BY <2>2, <2>3
<1> DEFINE f == CHOOSE g : g = [i \in 1 .. Len(ss) |-> Body(g, i)]
<1>3. \E g : g = [i \in 1 .. Len(ss) |-> Body(g, i)]
  <2>1. PICK g : \A i \in 1 .. n : g[i] = Body(g, i)
    BY <1>1, <1>2
  <2> DEFINE h == [i \in 1 .. n |-> g[i]]
  <2>2. \A i \in 1 .. n : Body(g, i) = Body(h, i)
    BY <1>1
  <2>3. h = [i \in 1 .. Len(ss) |-> Body(h, i)]
    BY <2>1, <2>2
  <2> QED
    BY <2>3
<1>4. f = [i \in 1 .. Len(ss) |-> Body(f, i)]
  BY <1>3
<1>5. FlattenSeq(ss) = f[Len(ss)]
  BY <1>1 DEF FlattenSeq
<1> HIDE DEF f
<1>6. 1 \in 1 .. Len(ss) /\ \A i \in 2 .. Len(ss) : i \in 1 .. Len(ss) /\ i # 1
  BY <1>1
<1>7. f[1] = ss[1]
  BY <1>4, <1>6
<1>8. ASSUME NEW i \in 2 .. Len(ss) PROVE f[i] = f[i - 1] \o ss[i]
  BY <1>4, <1>6
<1> QED
  BY <1>5, <1>7, <1>8

\* What joined sequences of a set make is one too.
LEMMA FlattenedIsSeq ==
  ASSUME NEW S, NEW ss \in Seq(Seq(S))
  PROVE  FlattenSeq(ss) \in Seq(S)
<1>1. CASE ss = <<>>
  BY <1>1 DEF FlattenSeq
<1>2. CASE ss # <<>>
  <2>1. PICK f : /\ FlattenSeq(ss) = f[Len(ss)] /\ f[1] = ss[1]
                 /\ \A i \in 2 .. Len(ss) : f[i] = f[i - 1] \o ss[i]
    BY <1>2, FlattenFold
  <2> DEFINE T == {i \in 1 .. Len(ss) : f[i] \notin Seq(S)}
  <2>2. Len(ss) \in Nat /\ Len(ss) # 0 /\ \A i \in 1 .. Len(ss) : ss[i] \in Seq(S)
    BY <1>2
  <2>3. T = {}
    <3> SUFFICES ASSUME T # {} PROVE FALSE
      OBVIOUS
    <3>1. T \in SUBSET Nat
      BY <2>2
    <3>2. PICK i \in T : \A j \in T : i <= j
      <4> HIDE DEF T
      <4> QED
        BY <3>1, Least
    <3>3. i # 1 /\ i \in 2 .. Len(ss) /\ i - 1 \in 1 .. Len(ss) /\ i - 1 < i
      BY <2>1, <2>2
    <3>4. f[i - 1] \in Seq(S)
      BY <3>2, <3>3
    <3>5. ss[i] \in Seq(S) /\ f[i] = f[i - 1] \o ss[i]
      BY <2>1, <2>2, <3>3
    <3>6. f[i] \in Seq(S)
      BY <3>4, <3>5
    <3> QED
      BY <3>6
  <2> QED
    BY <2>1, <2>2, <2>3
<1> QED
  BY <1>1, <1>2


\* The members of a finite set in a total order: each stands where the number of
\* members before it puts it.
LEMMA Ranked ==
  ASSUME NEW S, IsFiniteSet(S), NEW B,
         \A x \in S : <<x, x>> \notin B,
         \A x, y \in S : x = y \/ <<x, y>> \in B \/ <<y, x>> \in B,
         \A x, y, z \in S : <<x, y>> \in B /\ <<y, z>> \in B => <<x, z>> \in B
  PROVE  LET z == [i \in 1 .. Cardinality(S) |->
                      CHOOSE n \in S : Cardinality({m \in S : <<m, n>> \in B}) = i - 1]
         IN  /\ Cardinality(S) \in Nat /\ z \in [1 .. Cardinality(S) -> S]
             /\ \A x \in S : \E i \in 1 .. Cardinality(S) : z[i] = x
             /\ \A i, j \in 1 .. Cardinality(S) : i < j => <<z[i], z[j]>> \in B
<1> DEFINE N == Cardinality(S)
           Under(n) == {m \in S : <<m, n>> \in B}
           r == [n \in S |-> Cardinality(Under(n))]
           z == [i \in 1 .. N |-> CHOOSE n \in S : Cardinality(Under(n)) = i - 1]
<1>1. N \in Nat
  BY FS_CardinalityType
<1>2. ASSUME NEW n \in S
      PROVE  Cardinality(Under(n)) \in Nat /\ Cardinality(Under(n)) < N /\ IsFiniteSet(Under(n))
  <2>1. Under(n) \in SUBSET S /\ n \notin Under(n)
    OBVIOUS
  <2> HIDE DEF Under
  <2>2. IsFiniteSet(Under(n)) /\ Cardinality(Under(n)) <= N /\ (N = Cardinality(Under(n)) => S = Under(n))
    BY <2>1, FS_Subset
  <2>3. Cardinality(Under(n)) \in Nat
    BY <2>2, FS_CardinalityType
  <2> QED
    BY <1>1, <2>1, <2>2, <2>3
<1>3. ASSUME NEW m \in S, NEW n \in S, <<m, n>> \in B PROVE r[m] < r[n]
  <2>1. Under(m) \in SUBSET Under(n) /\ m \in Under(n) /\ m \notin Under(m)
    BY <1>3
  <2>2. IsFiniteSet(Under(n)) /\ Cardinality(Under(n)) \in Nat /\ Cardinality(Under(m)) \in Nat
    BY <1>2
  <2>3. r[m] = Cardinality(Under(m)) /\ r[n] = Cardinality(Under(n))
    OBVIOUS
  <2> HIDE DEF Under, r
  <2> QED
    BY <2>1, <2>2, <2>3, FS_Subset
<1>4. r \in [S -> 0 .. N - 1]
  <2>1. \A n \in S : Cardinality(Under(n)) \in 0 .. N - 1
    BY <1>1, <1>2
  <2> QED
    BY <2>1
<1>5. r \in Injection(S, 0 .. N - 1)
  <2>1. \A m, n \in S : r[m] = r[n] => m = n
    <3> SUFFICES ASSUME NEW m \in S, NEW n \in S, r[m] = r[n], m # n PROVE FALSE
      OBVIOUS
    <3>1. r[m] \in Nat /\ r[n] \in Nat
      BY <1>4
    <3>2. <<m, n>> \in B \/ <<n, m>> \in B
      OBVIOUS
    <3>3. r[m] < r[n] \/ r[n] < r[m]
      BY <1>3, <3>2
    <3> QED
      BY <3>1, <3>3
  <2> QED
    BY <1>4, <2>1 DEF Injection, IsInjective
<1>6. IsFiniteSet(0 .. N - 1) /\ Cardinality(0 .. N - 1) = N
  <2>1. 0 \in Int /\ N - 1 \in Int /\ 0 .. N - 1 = 0 .. N - 1
    BY <1>1
  <2>2. IsFiniteSet(0 .. N - 1) /\ Cardinality(0 .. N - 1) = IF 0 > N - 1 THEN 0 ELSE N - 1 - 0 + 1
    BY <2>1, FS_Interval
  <2> QED
    BY <1>1, <2>2
<1>7. r \in Surjection(S, 0 .. N - 1)
  <2> HIDE DEF r
  <2> QED
    BY <1>5, <1>6, FS_Injection
<1>8. \A k \in 0 .. N - 1 : \E n \in S : r[n] = k
  <2> HIDE DEF r
  <2> QED
    BY <1>7 DEF Surjection
<1>9. ASSUME NEW i \in 1 .. N PROVE z[i] \in S /\ r[z[i]] = i - 1
  <2>1. i - 1 \in 0 .. N - 1
    BY <1>1
  <2>2. \E n \in S : Cardinality(Under(n)) = i - 1
    BY <1>8, <2>1
  <2> HIDE DEF Under
  <2> QED
    BY <2>2
<1>10. z \in [1 .. N -> S]
  <2>1. ASSUME NEW i \in 1 .. N PROVE (CHOOSE n \in S : Cardinality(Under(n)) = i - 1) \in S
    BY <1>9
  <2> HIDE DEF Under
  <2> QED
    BY <2>1
<1>11. ASSUME NEW x \in S PROVE \E i \in 1 .. N : z[i] = x
  <2>1. r[x] \in 0 .. N - 1
    BY <1>4
  <2>2. r[x] + 1 \in 1 .. N /\ (r[x] + 1) - 1 = r[x]
    BY <1>1, <2>1
  <2>3. z[r[x] + 1] \in S /\ r[z[r[x] + 1]] = r[x]
    BY <1>9, <2>2
  <2>4. z[r[x] + 1] = x
    <3> HIDE DEF r, z
    <3> QED
      BY <1>5, <2>3 DEF Injection, IsInjective
  <2> QED
    BY <2>2, <2>4
<1>12. ASSUME NEW i \in 1 .. N, NEW j \in 1 .. N, i < j PROVE <<z[i], z[j]>> \in B
  <2>1. z[i] \in S /\ z[j] \in S /\ r[z[i]] = i - 1 /\ r[z[j]] = j - 1
    BY <1>9
  <2> HIDE DEF r, z
  <2>2. ~ (r[z[j]] < r[z[i]]) /\ z[i] # z[j]
    BY <1>12, <2>1
  <2> QED
    BY <1>3, <2>1, <2>2
<1> QED
  BY <1>1, <1>10, <1>11, <1>12

\* What is appended is held besides what was.
LEMMA AppendRange ==
  ASSUME NEW S, NEW q \in Seq(S), NEW e \in S
  PROVE  Range(Append(q, e)) = Range(q) \cup {e}
<1> DEFINE z == Append(q, e)
<1>1. /\ z \in Seq(S) /\ Len(z) = Len(q) + 1 /\ Len(q) \in Nat
      /\ \A i \in 1 .. Len(q) : z[i] = q[i] /\ z[Len(q) + 1] = e
  BY AppendProperties
<1>2. z[Len(q) + 1] = e
  BY AppendProperties
<1> HIDE DEF z
<1>3. Range(z) = {z[i] : i \in 1 .. Len(z)} /\ Range(q) = {q[i] : i \in 1 .. Len(q)}
  BY <1>1, RangeEquality
<1>4. Range(z) = Range(q) \cup {e}
  BY <1>1, <1>2, <1>3
<1> QED
  BY <1>4 DEF z

-----------------------------------------------------------------------------

\* depthOf over an acyclic graph gives every node a number: one more than the
\* deepest of those it waits for.
LEMMA DepthExists ==
  ASSUME NEW D, IsFiniteSet(D), NEW g \in [D -> SUBSET D], ~ Cyclic(g)
  PROVE  \E d \in [D -> Nat] : \A n \in D :
            d[n] = IF g[n] = {} THEN 0 ELSE 1 + Max({d[m] : m \in g[n]})
<1> DEFINE Body(d, n) == IF g[n] = {} THEN 0 ELSE 1 + Max({d[m] : m \in g[n]})
           Good(C) == \E b \in Nat : \E d \in [D -> Nat] :
                        /\ \A n \in D \ C : g[n] \cap C = {} /\ d[n] = Body(d, n)
                        /\ \A n \in D : d[n] <= b
           F == {C \in SUBSET D : Good(C)}
<1>1. F \in SUBSET (SUBSET D) /\ F # {}
  <2>1. Good(D)
    <3>1. /\ 0 \in Nat /\ [n \in D |-> 0] \in [D -> Nat]
          /\ \A n \in D \ D : g[n] \cap D = {} /\ [k \in D |-> 0][n] = Body([k \in D |-> 0], n)
          /\ \A n \in D : [k \in D |-> 0][n] <= 0
      OBVIOUS
    <3> QED
      BY <3>1
  <2> HIDE DEF Good
  <2> QED
    BY <2>1
<1>2. PICK C \in F : \A B \in F : B \subseteq C => B = C
  <2> HIDE DEF F
  <2> QED
    BY <1>1, Smallest
<1>3. PICK b \in Nat : \E d \in [D -> Nat] :
                        /\ \A n \in D \ C : g[n] \cap C = {} /\ d[n] = Body(d, n)
                        /\ \A n \in D : d[n] <= b
  BY <1>2
<1>4. PICK d \in [D -> Nat] : /\ \A n \in D \ C : g[n] \cap C = {} /\ d[n] = Body(d, n)
                              /\ \A n \in D : d[n] <= b
  BY <1>3
<1>5. C \subseteq D
  BY <1>2
<1>6. C = {}
  <2> SUFFICES ASSUME C # {} PROVE FALSE
    OBVIOUS
  <2>1. PICK n \in C : g[n] \cap C = {}
    BY <1>5 DEF Cyclic
  <2> DEFINE e == [k \in D |-> IF k = n THEN Body(d, n) ELSE d[k]]
             T == {d[m] : m \in g[n]}
  <2>2. Body(d, n) \in Nat /\ Body(d, n) <= b + 1
    <3>1. CASE g[n] = {}
      BY <3>1
    <3>2. CASE g[n] # {}
      <4>1. T \in SUBSET Nat /\ T # {} /\ \A t \in T : t <= b
        BY <1>4, <1>5, <2>1, <3>2
      <4>2. Max(T) \in T
        <5> HIDE DEF T
        <5> QED
          BY <4>1, Greatest
      <4>3. Max(T) \in Nat /\ Max(T) <= b
        BY <4>1, <4>2
      <4>4. Body(d, n) = 1 + Max(T)
        BY <3>2
      <4> HIDE DEF T, Body
      <4> QED
        BY <4>3, <4>4
    <3> QED
      BY <3>1, <3>2
  <2>3. e \in [D -> Nat] /\ \A k \in D : e[k] <= b + 1
    <3> HIDE DEF Body
    <3> QED
      BY <1>4, <2>2
  <2>4. \A k \in D \ (C \ {n}) : g[k] \cap (C \ {n}) = {} /\ n \notin g[k] /\ e[k] = Body(d, k)
    <3>1. \A k \in D \ C : g[k] \cap C = {} /\ d[k] = Body(d, k)
      BY <1>4
    <3>2. n \notin g[n]
      BY <2>1
    <3> HIDE DEF Body
    <3> QED
      BY <1>5, <2>1, <3>1, <3>2
  <2>5. \A k \in D \ (C \ {n}) : Body(d, k) = Body(e, k)
    <3> SUFFICES ASSUME NEW k \in D \ (C \ {n}) PROVE Body(d, k) = Body(e, k)
      OBVIOUS
    <3>1. \A m \in g[k] : m \in D /\ m # n /\ e[m] = d[m]
      BY <2>4
    <3>2. {d[m] : m \in g[k]} = {e[m] : m \in g[k]}
      BY <3>1
    <3> QED
      BY <3>2
  <2>6. Good(C \ {n})
    <3>1. b + 1 \in Nat
      OBVIOUS
    <3>2. \A k \in D \ (C \ {n}) : g[k] \cap (C \ {n}) = {} /\ e[k] = Body(e, k)
      BY <2>4, <2>5
    <3> HIDE DEF e, Body
    <3> QED
      BY <2>3, <3>1, <3>2
  <2>7. C \ {n} \in F
    <3> HIDE DEF Good
    <3> QED
      BY <1>5, <2>6
  <2> HIDE DEF F
  <2> QED
    BY <1>2, <2>1, <2>7
<1> QED
  BY <1>4, <1>6

\* A node is deeper than those it waits for, and no depth is left out.
LEMMA Depths ==
  ASSUME NEW D, IsFiniteSet(D), NEW g \in [D -> SUBSET D], ~ Cyclic(g)
  PROVE  /\ DepthOf(g) \in [D -> Nat]
         /\ \A n \in D : \A m \in g[n] : DepthOf(g)[m] < DepthOf(g)[n]
         /\ \A n \in D : \A k \in 0 .. DepthOf(g)[n] : \E m \in D : DepthOf(g)[m] = k
<1> DEFINE Body(d, n) == IF g[n] = {} THEN 0 ELSE 1 + Max({d[m] : m \in g[n]})
           f == DepthOf(g)
<1>1. PICK d \in [D -> Nat] : \A n \in D : d[n] = Body(d, n)
  BY DepthExists
<1>2. f = [n \in D |-> Body(f, n)]
  <2>1. d = [n \in DOMAIN g |-> Body(d, n)]
    BY <1>1
  <2>2. f = CHOOSE h : h = [n \in DOMAIN g |-> Body(h, n)]
    BY DEF DepthOf
  <2> HIDE DEF f, Body
  <2> QED
    BY <2>1, <2>2
<1> HIDE DEF f
<1>3. f = d
  <2> DEFINE U == {n \in D : f[n] # d[n]}
  <2>1. CASE U # {}
    <3>1. PICK n \in U : g[n] \cap U = {}
      BY <2>1 DEF Cyclic
    <3>2. \A m \in g[n] : f[m] = d[m]
      BY <3>1
    <3>3. {f[m] : m \in g[n]} = {d[m] : m \in g[n]}
      BY <3>2
    <3>4. Body(f, n) = Body(d, n)
      BY <3>3
    <3>5. f[n] = Body(f, n) /\ d[n] = Body(d, n)
      BY <1>1, <1>2
    <3> QED
      BY <3>1, <3>4, <3>5
  <2>2. CASE U = {}
    <3>1. \A n \in D : f[n] = d[n]
      BY <2>2
    <3>2. f = [n \in D |-> f[n]] /\ d = [n \in D |-> d[n]]
      BY <1>2
    <3> QED
      BY <3>1, <3>2
  <2> QED
    BY <2>1, <2>2
<1>4. \A n \in D : f[n] = Body(f, n)
  BY <1>1, <1>3
<1>5. PICK b \in Nat : \A n \in D : f[n] <= b
  <2> DEFINE R == {f[n] : n \in D}
  <2>1. f \in [D -> Nat]
    BY <1>3
  <2>2. f \in Surjection(D, R)
    BY <2>1 DEF Surjection
  <2>3. R \in SUBSET Nat
    BY <2>1
  <2>4. IsFiniteSet(R)
    <3> HIDE DEF R
    <3> QED
      BY <2>2, FS_Surjection
  <2>5. \E b \in Nat : \A r \in R : r <= b
    <3> HIDE DEF R
    <3> QED
      BY <2>3, <2>4, FiniteBound
  <2> QED
    BY <2>5
<1>6. ASSUME NEW n \in D, g[n] # {}
      PROVE  /\ \A m \in g[n] : f[m] < f[n]
             /\ \E m \in g[n] : f[n] = 1 + f[m]
  <2> DEFINE T == {f[m] : m \in g[n]}
  <2>1. T \in SUBSET Nat /\ T # {} /\ \A t \in T : t <= b
    BY <1>3, <1>5, <1>6
  <2>2. Max(T) \in T /\ \A t \in T : t <= Max(T)
    <3> HIDE DEF T
    <3> QED
      BY <2>1, Greatest
  <2>3. f[n] = 1 + Max(T)
    BY <1>4, <1>6
  <2>4. PICK m \in g[n] : Max(T) = f[m]
    BY <2>2
  <2>5. \A k \in g[n] : f[k] \in Nat /\ f[k] <= Max(T)
    BY <2>1, <2>2
  <2>6. Max(T) \in Nat
    BY <2>1, <2>2
  <2> HIDE DEF T
  <2> QED
    BY <2>3, <2>4, <2>5, <2>6
<1>7. \A n \in D : \A m \in g[n] : f[m] < f[n]
  BY <1>6
<1>8. ASSUME NEW n \in D, NEW k \in 0 .. f[n], \A m \in D : f[m] # k PROVE FALSE
  <2> DEFINE T == {f[m] : m \in {o \in D : k < f[o]}}
  <2>1. f[n] \in Nat /\ k < f[n] /\ k \in Nat
    BY <1>3, <1>8
  <2>2. T \in SUBSET Nat /\ T # {}
    BY <1>3, <2>1
  <2>3. PICK t \in T : \A u \in T : t <= u
    <3> HIDE DEF T
    <3> QED
      BY <2>2, Least
  <2>4. PICK m \in D : k < f[m] /\ t = f[m]
    BY <2>3
  <2>5. g[m] # {}
    <3>1. g[m] = {} => f[m] = 0
      BY <1>4
    <3> QED
      BY <2>1, <2>4, <3>1
  <2>6. PICK o \in g[m] : f[m] = 1 + f[o]
    BY <1>6, <2>5
  <2>7. o \in D /\ f[o] \in Nat /\ f[m] \in Nat
    BY <1>3
  <2>8. k < f[o]
    BY <1>8, <2>1, <2>4, <2>6, <2>7
  <2>9. f[o] \in T
    BY <2>7, <2>8
  <2> HIDE DEF T
  <2> QED
    BY <2>3, <2>4, <2>6, <2>7, <2>9
<1> QED
  BY <1>3, <1>7, <1>8 DEF f

\* What a lane is.
LaneRec(c) == [block : DOMAIN c.blocks, provides : Seq(Resource), requires : SUBSET Resource]

\* The lanes of a configuration are put in a row.
LEMMA LanesAre == ASSUME NEW c \in Configs PROVE Lanes(c) \in Seq(LaneRec(c))
<1> DEFINE ss == [b \in DOMAIN c.blocks |-> LanesOf(c, b)]
<1>1. c.blocks \in Seq(Block) /\ c.needs \in [Target -> SUBSET Resource]
  BY ConfigsAssumption
<1>2. PICK k \in Nat : DOMAIN c.blocks = 1 .. k
  BY <1>1
<1>3. ASSUME NEW b \in DOMAIN c.blocks PROVE LanesOf(c, b) \in Seq(LaneRec(c))
  <2>1. /\ c.blocks[b].targets \in Seq(Target) /\ c.blocks[b].provides \in Seq(Resource)
        /\ c.blocks[b].requires \in SUBSET Resource
    <3>1. c.blocks[b] \in Block
      BY <1>1
    <3> QED
      BY <3>1 DEF Block
  <2>2. PICK j \in Nat : DOMAIN c.blocks[b].targets = 1 .. j
    BY <2>1
  <2>3. \A t \in 1 .. j : c.needs[c.blocks[b].targets[t]] \in SUBSET Resource
    BY <1>1, <2>1, <2>2
  <2>4. LanesOf(c, b) \in [1 .. j -> LaneRec(c)]
    BY <2>1, <2>2, <2>3 DEF LanesOf, LaneRec
  <2> QED
    BY <2>4
<1>4. ss \in Seq(Seq(LaneRec(c)))
  <2>1. ss \in [1 .. k -> Seq(LaneRec(c))]
    BY <1>2, <1>3
  <2> QED
    BY <2>1
<1>5. Lanes(c) = FlattenSeq(ss)
  BY DEF Lanes
<1> HIDE DEF ss
<1> QED
  BY <1>4, <1>5, FlattenedIsSeq

\* The levels of the lanes are right in every configuration that is not refused.
THEOREM LevelsAreRight == ASSUME NEW c \in Configs PROVE LevelsRight(Lanes(c))
<1> DEFINE ls == Lanes(c)
           N  == Len(ls)
           lv == LevelOf(ls)
           g  == Deps(ls)
<1> SUFFICES ASSUME Refusal(ls) = NoErr
             PROVE  /\ lv \in [DOMAIN ls -> Nat] /\ \A n \in DOMAIN ls : lv[n] <= N
                    /\ N # 1 => \A n \in DOMAIN ls : \A m \in g[n] : lv[m] < lv[n]
                    /\ \A n \in DOMAIN ls : \A k \in 0 .. lv[n] : \E m \in DOMAIN ls : lv[m] = k
  BY DEF LevelsRight
<1>1. N \in Nat /\ DOMAIN ls = 1 .. N /\ IsFiniteSet(DOMAIN ls) /\ Cardinality(DOMAIN ls) = N
  <2>1. ls \in Seq(LaneRec(c))
    BY LanesAre
  <2>2. N \in Nat /\ DOMAIN ls = 1 .. N
    BY <2>1
  <2>3. 1 \in Int /\ N \in Int
    BY <2>2
  <2>4. IsFiniteSet(1 .. N) /\ Cardinality(1 .. N) = IF 1 > N THEN 0 ELSE N - 1 + 1
    BY <2>3, FS_Interval
  <2> QED
    BY <2>2, <2>4
<1>2. CASE N = 1
  <2>1. lv = <<0>>
    BY <1>2 DEF LevelOf
  <2>2. DOMAIN ls = 1 .. 1 /\ \A n \in DOMAIN ls : n = 1
    BY <1>1, <1>2
  <2>3. lv \in [DOMAIN ls -> Nat] /\ lv[1] = 0
    BY <2>1, <2>2
  <2> HIDE DEF lv, ls, N
  <2> QED
    BY <1>2, <2>2, <2>3
<1>3. CASE N # 1
  <2>1. lv = DepthOf(g) /\ ~ Cyclic(g)
    BY <1>3 DEF LevelOf, Refusal, NoErr
  <2>2. g \in [DOMAIN ls -> SUBSET DOMAIN ls]
    BY DEF Deps
  <2> HIDE DEF g, ls, N, lv
  <2>3. /\ lv \in [DOMAIN ls -> Nat]
        /\ \A n \in DOMAIN ls : \A m \in g[n] : lv[m] < lv[n]
        /\ \A n \in DOMAIN ls : \A k \in 0 .. lv[n] : \E m \in DOMAIN ls : lv[m] = k
    BY <1>1, <2>1, <2>2, Depths
  <2>4. ASSUME NEW n \in DOMAIN ls PROVE lv[n] <= N
    <3> DEFINE f == [k \in 0 .. lv[n] |-> CHOOSE m \in DOMAIN ls : lv[m] = k]
    <3>1. \A k \in 0 .. lv[n] : f[k] \in DOMAIN ls /\ lv[f[k]] = k
      BY <2>3
    <3>2. f \in [0 .. lv[n] -> DOMAIN ls]
      <4>1. \A k \in 0 .. lv[n] : (CHOOSE m \in DOMAIN ls : lv[m] = k) \in DOMAIN ls
        BY <2>3
      <4> QED
        BY <4>1
    <3>3. \A j, k \in 0 .. lv[n] : f[j] = f[k] => j = k
      <4> HIDE DEF f
      <4> QED
        BY <3>1
    <3> HIDE DEF f
    <3>4. f \in Injection(0 .. lv[n], DOMAIN ls)
      BY <3>2, <3>3 DEF Injection, IsInjective
    <3>5. Cardinality(0 .. lv[n]) <= N
      BY <1>1, <3>4, FS_Injection
    <3>6. lv[n] \in Nat
      BY <2>3
    <3>7. 0 \in Int /\ lv[n] \in Int
      BY <3>6
    <3>8. Cardinality(0 .. lv[n]) = IF 0 > lv[n] THEN 0 ELSE lv[n] - 0 + 1
      BY <3>7, FS_Interval
    <3> QED
      BY <1>1, <3>5, <3>6, <3>8
  <2> QED
    BY <2>3, <2>4
<1> QED
  BY <1>2, <1>3

\* A run that has not returned has been accepted.
LEMMA RunningStarted == LevelInv /\ Running => Started
  BY DEF LevelInv, RefusedInv, Running, Started

\* At first the lanes of level zero run, or none when the graph is refused.
LEMMA InitLevels == ASSUME Init PROVE LevelInv /\ LevelsRight(lanes)
<1>1. LevelsRight(lanes)
  BY LevelsAreRight DEF Init
<1>2. ASSUME ~Started PROVE LevelInv
  BY <1>2 DEF Init, LevelInv, RefusedInv, CurrentInv, CauseInv, ReturnInv, ExitInv, Started,
     Lane, NoErr
<1>3. ASSUME Started PROVE LevelInv
  <2>1. /\ level \in [Lane -> Nat] /\ level = LevelOf(lanes) /\ result = NoErr
        /\ pc = [n \in Lane |-> IF level[n] = 0 THEN "running" ELSE "idle"]
    BY <1>1, <1>3 DEF Init, LevelsRight, Started, StartedAt, Lane
  <2> QED
    BY <1>3, <2>1 DEF Init, LevelInv, RefusedInv, CurrentInv, CauseInv, ReturnInv, ExitInv
<1> QED
  BY <1>1, <1>2, <1>3

\* A lane that ends settles itself alone.
LEMMA LaneStep ==
    ASSUME LevelInv, LevelsRight(lanes), NEW n \in Lane, LaneNext(n)
    PROVE  LevelInv'
<1>1. Started /\ pc[n] = "running" /\ result = NoErr /\ exit = NoErr
  BY RunningStarted DEF LaneNext, LaneSucceeds, LaneFails, LanePanics, Running
<1>2. /\ UNCHANGED <<lanes, level, current, result>>
      /\ level \in [Lane -> Nat] /\ level[n] = current
  BY <1>1 DEF LaneNext, LaneSucceeds, LaneFails, LanePanics, LevelInv, CurrentInv, LevelsRight,
     Started, Lane
<1>3. CASE LaneSucceeds(n)
  BY <1>1, <1>2, <1>3 DEF LaneSucceeds, LevelInv, RefusedInv, CurrentInv, CauseInv, ReturnInv,
     ExitInv, Started, Lane
<1>4. ASSUME NEW e \in LaneErr, LaneFails(n, e) PROVE LevelInv'
  <2>1. causes' = Append(causes, e) /\ causes' # <<>> /\ causes' \in Seq(LaneErr)
    BY <1>4 DEF LaneFails, LevelInv, CauseInv
  <2>2. pc' = [pc EXCEPT ![n] = "failed"] /\ exit' = exit
    BY <1>4 DEF LaneFails
  <2>3. RefusedInv' /\ CurrentInv'
    BY <1>1, <1>2, <2>2 DEF LevelInv, RefusedInv, CurrentInv, Started, Lane
  <2>4. CauseInv' /\ ReturnInv' /\ ExitInv'
    BY <1>1, <1>2, <2>1, <2>2 DEF LevelInv, CurrentInv, CauseInv, ReturnInv, ExitInv, Started,
       Lane
  <2> QED
    BY <2>3, <2>4 DEF LevelInv
<1>5. CASE LanePanics(n)
  BY <1>1, <1>2, <1>5 DEF LanePanics, LevelInv, RefusedInv, CurrentInv, CauseInv, ReturnInv,
     ExitInv, Started, Lane
<1> QED
  BY <1>3, <1>4, <1>5 DEF LaneNext

\* The next level begins when every lane of this one went well.
LEMMA NextLevelStep ==
    ASSUME LevelInv, LevelsRight(lanes), NextLevel
    PROVE  LevelInv'
<1>1. Started /\ result = NoErr /\ exit = NoErr
  BY RunningStarted DEF NextLevel, Running
<1>2. /\ UNCHANGED <<lanes, level, causes, result, exit>>
      /\ level \in [Lane -> Nat] /\ current' = current + 1 /\ current \in Nat
      /\ pc' = [n \in Lane |-> IF level[n] = current' THEN "running" ELSE pc[n]]
  BY <1>1 DEF NextLevel, LevelInv, CurrentInv, LevelsRight, Started, Lane
<1>3. \A n \in Lane : pc[n] = "ok" \/ level[n] > current
  BY <1>1, <1>2 DEF NextLevel, LevelOver, AtLevel, LevelInv, CurrentInv, CauseInv, Lane
<1>4. CurrentInv'
  BY <1>1, <1>2, <1>3 DEF LevelInv, CurrentInv, Started, Lane
<1>5. causes = <<>> /\ \A n \in Lane : pc'[n] # "failed"
  BY <1>1, <1>2, <1>3 DEF NextLevel, LevelInv, CurrentInv
<1> QED
  BY <1>1, <1>2, <1>4, <1>5 DEF LevelInv, RefusedInv, CauseInv, ReturnInv, ExitInv, Started, Lane

\* Every step keeps the invariant, and the lanes are what they were.
LEMMA NextLevels ==
    ASSUME LevelInv, LevelsRight(lanes), [Next]_vars
    PROVE  LevelInv' /\ lanes' = lanes
<1>1. CASE UNCHANGED vars
  BY <1>1 DEF vars, LevelInv, RefusedInv, CurrentInv, CauseInv, ReturnInv, ExitInv, Started, Lane,
     LevelOver, AtLevel
<1>2. ASSUME NEW n \in Lane, LaneNext(n) PROVE LevelInv' /\ lanes' = lanes
  BY <1>2, LaneStep DEF LaneNext, LaneSucceeds, LaneFails, LanePanics
<1>3. CASE NextLevel
  BY <1>3, NextLevelStep DEF NextLevel
<1>4. CASE Return
  <2>1. Started /\ exit = NoErr
    BY <1>4, RunningStarted DEF Return, Running
  <2> QED
    BY <1>4, <2>1 DEF Return, LevelInv, RefusedInv, CurrentInv, CauseInv, ReturnInv, ExitInv,
       Started, Lane, LevelOver, AtLevel
<1>5. CASE Exit
  BY <1>5 DEF Exit, LevelInv, RefusedInv, CurrentInv, CauseInv, ReturnInv, ExitInv, Started,
     Lane, LevelOver, AtLevel
<1> QED
  BY <1>1, <1>2, <1>3, <1>4, <1>5 DEF Next, Progress, Finished

\* The lanes of a run are a finite set.
LEMMA LanesFinite ==
  ASSUME lanes \in Seq([block : DOMAIN cfg.blocks, provides : Seq(Resource),
                        requires : SUBSET Resource])
  PROVE  /\ Len(lanes) \in Nat /\ Lane = 1 .. Len(lanes)
         /\ IsFiniteSet(Lane) /\ Cardinality(Lane) = Len(lanes)
<1>1. Len(lanes) \in Nat /\ Lane = 1 .. Len(lanes)
  BY DEF Lane
<1>2. 1 \in Int /\ Len(lanes) \in Int
  BY <1>1
<1>3. IsFiniteSet(1 .. Len(lanes))
      /\ Cardinality(1 .. Len(lanes)) = IF 1 > Len(lanes) THEN 0 ELSE Len(lanes) - 1 + 1
  BY <1>2, FS_Interval
<1> QED
  BY <1>1, <1>3

\* The lanes of which a report or a cause is in.
Settled == {n \in Lane : pc[n] \in {"ok", "failed"}}

\* The report of some lanes has each of them once, in the order of their ordinals.
LEMMA Ordinals ==
  ASSUME IInv, NEW rs, Range(rs) \subseteq Lane
  PROVE  LET z == InOrdinalOrder(rs)
         IN  /\ z \in Seq(Lane) /\ Len(z) = Cardinality(Range(rs)) /\ Range(z) = Range(rs)
             /\ \A i, j \in DOMAIN z : i < j => Before(z[i], z[j])
<1> DEFINE S == Range(rs)
           B == {p \in Lane \X Lane : Before(p[1], p[2])}
           N == Cardinality(S)
           y == [i \in 1 .. N |-> CHOOSE n \in S : Cardinality({m \in S : <<m, n>> \in B}) = i - 1]
           z == InOrdinalOrder(rs)
<1>1. Len(lanes) \in Nat /\ Lane = 1 .. Len(lanes) /\ IsFiniteSet(Lane)
  BY LanesFinite DEF IInv, TypeOK
<1>2. level \in [Lane -> Nat]
  <2>1. level \in [Lane -> 0 .. Len(lanes)]
    BY DEF IInv, TypeOK
  <2> QED
    BY <1>1, <2>1
<1>3. IsFiniteSet(S)
  BY <1>1, FS_Subset
<1>4. \A m, n \in S : m \in Nat /\ level[m] \in Nat /\ (<<m, n>> \in B <=> Before(m, n))
  BY <1>1, <1>2
<1>5. y = z
  <2>1. \A n \in S : {m \in S : <<m, n>> \in B} = {m \in S : Before(m, n)}
    BY <1>4
  <2>2. z = [i \in 1 .. N |-> CHOOSE n \in S : Cardinality({m \in S : Before(m, n)}) = i - 1]
    BY DEF InOrdinalOrder
  <2>3. ASSUME NEW i \in 1 .. N
        PROVE  (CHOOSE n \in S : Cardinality({m \in S : <<m, n>> \in B}) = i - 1)
             = (CHOOSE n \in S : Cardinality({m \in S : Before(m, n)}) = i - 1)
    <3> DEFINE P(n) == Cardinality({m \in S : <<m, n>> \in B}) = i - 1
               Q(n) == Cardinality({m \in S : Before(m, n)}) = i - 1
    <3>1. \A n \in S : P(n) <=> Q(n)
      BY <2>1
    <3> HIDE DEF P, Q
    <3>2. (CHOOSE n \in S : P(n)) = (CHOOSE n \in S : Q(n))
      BY <3>1
    <3> QED
      BY <3>2 DEF P, Q
  <2> QED
    BY <2>2, <2>3
<1>6. /\ N \in Nat /\ y \in [1 .. N -> S]
      /\ \A x \in S : \E i \in 1 .. N : y[i] = x
      /\ \A i, j \in 1 .. N : i < j => <<y[i], y[j]>> \in B
  <2> HIDE DEF B, S
  <2>1. \A x \in S : <<x, x>> \notin B
    BY <1>4 DEF Before
  <2>l. /\ \A x \in S : x \in Nat /\ level[x] \in Nat
        /\ \A x, w \in S : <<x, w>> \in B
                             <=> level[x] < level[w] \/ (level[x] = level[w] /\ x < w)
    BY <1>4 DEF Before
  <2>2. ASSUME NEW x \in S, NEW w \in S PROVE x = w \/ <<x, w>> \in B \/ <<w, x>> \in B
    <3>1. x \in Nat /\ w \in Nat /\ level[x] \in Nat /\ level[w] \in Nat
      BY <2>l
    <3>2. /\ <<x, w>> \in B <=> level[x] < level[w] \/ (level[x] = level[w] /\ x < w)
          /\ <<w, x>> \in B <=> level[w] < level[x] \/ (level[w] = level[x] /\ w < x)
      BY <2>l
    <3> QED
      BY <3>1, <3>2
  <2>3. ASSUME NEW x \in S, NEW w \in S, NEW v \in S, <<x, w>> \in B, <<w, v>> \in B
        PROVE  <<x, v>> \in B
    <3>1. /\ x \in Nat /\ w \in Nat /\ v \in Nat
          /\ level[x] \in Nat /\ level[w] \in Nat /\ level[v] \in Nat
      BY <2>l
    <3>2. /\ level[x] < level[w] \/ (level[x] = level[w] /\ x < w)
          /\ level[w] < level[v] \/ (level[w] = level[v] /\ w < v)
          /\ <<x, v>> \in B <=> level[x] < level[v] \/ (level[x] = level[v] /\ x < v)
      BY <2>l, <2>3
    <3> QED
      BY <3>1, <3>2
  <2> QED
    BY <1>3, <2>1, <2>2, <2>3, Ranked
<1>7. z \in [1 .. N -> S]
  BY <1>5, <1>6
<1>8. z \in Seq(Lane) /\ Len(z) = N /\ DOMAIN z = 1 .. N
  <2> HIDE DEF z, N, S
  <2>1. z \in Seq(S)
    BY <1>6, <1>7
  <2> QED
    BY <1>6, <1>7, <2>1 DEF S
<1>9. Range(z) = S
  <2> HIDE DEF z, y, N, S, B
  <2>1. \A x \in S : \E i \in 1 .. N : z[i] = x
    BY <1>5, <1>6
  <2>2. Range(z) = {z[i] : i \in 1 .. N}
    BY <1>8 DEF Range
  <2> QED
    BY <1>7, <2>1, <2>2
<1>10. \A i, j \in DOMAIN z : i < j => Before(z[i], z[j])
  <2> HIDE DEF z, y, N, S, B
  <2>1. \A i, j \in 1 .. N : z[i] \in S /\ z[j] \in S /\ (i < j => <<z[i], z[j]>> \in B)
    BY <1>5, <1>6, <1>7
  <2> QED
    BY <1>4, <1>8, <2>1
<1> QED
  BY <1>8, <1>9, <1>10

\* The run starts with its lanes in a row, their levels right and nothing in.
LEMMA InitInv == Init => IInv
<1> SUFFICES ASSUME Init PROVE IInv
  OBVIOUS
<1>1. LevelInv /\ LevelsRight(lanes)
  BY InitLevels
<1>2. lanes \in Seq([block : DOMAIN cfg.blocks, provides : Seq(Resource),
                     requires : SUBSET Resource])
  BY LanesAre DEF Init, LaneRec
<1>3. Len(lanes) \in Nat /\ Lane = 1 .. Len(lanes)
  BY <1>2, LanesFinite
<1>4. level \in [Lane -> 0 .. Len(lanes)] /\ current \in 0 .. Len(lanes)
  BY <1>1, <1>3 DEF Init, LevelsRight, Lane
<1>5. pc \in [Lane -> {"idle", "running"}]
  <2>1. DOMAIN level = Lane
    BY <1>4
  <2> QED
    BY <2>1 DEF Init, StartedAt
<1>6. TypeOK
  <2>1. causes \in Seq(LaneErr) /\ reps \in Seq(Lane) /\ report \in Seq(Lane)
        /\ Len(causes) = 0 /\ Len(reps) = 0
    BY DEF Init
  <2>2. result \in LaneErr \cup {NoErr, "ok", "MultipleProvidersError", "DeployCycleError"}
        /\ exit \in {NoErr, "ok", "user error", "panic"}
    BY DEF Init, Refusal, NoErr
  <2>3. cfg.blocks \in Seq(Block) /\ cfg.needs \in [Target -> SUBSET Resource]
    BY ConfigsAssumption DEF Init
  <2>4. pc \in [Lane -> {"idle", "running", "ok", "failed"}]
    BY <1>5
  <2>5. Len(causes) + Len(reps) <= Len(lanes)
    BY <1>3, <2>1
  <2> QED
    BY <1>2, <1>4, <2>1, <2>2, <2>3, <2>4, <2>5 DEF TypeOK
<1>7. SettledInv
  <2>1. \A n \in Lane : pc[n] # "ok" /\ pc[n] # "failed"
    BY <1>5
  <2>2. {n \in Lane : pc[n] \in {"ok", "failed"}} = {} /\ {n \in Lane : pc[n] = "ok"} = {}
    BY <2>1
  <2>3. Range(reps) = {} /\ Len(reps) = 0 /\ Len(causes) = 0
    BY DEF Init, Range
  <2> QED
    BY <2>2, <2>3, FS_EmptySet DEF SettledInv
<1>8. ReportInv
  BY DEF Init, ReportInv, Started
<1> QED
  BY <1>1, <1>6, <1>7, <1>8 DEF IInv

\* A lane that goes well or fails is settled once.
LEMMA LaneSettles ==
  ASSUME IInv, NEW n \in Lane, NEW s \in {"ok", "failed"}, pc[n] = "running",
         pc' = [pc EXCEPT ![n] = s], UNCHANGED lanes
  PROVE  /\ Cardinality(Settled') = Cardinality(Settled) + 1
         /\ {m \in Lane : pc'[m] = "ok"} =
               {m \in Lane : pc[m] = "ok"} \cup (IF s = "ok" THEN {n} ELSE {})
<1>1. pc \in [Lane -> {"idle", "running", "ok", "failed"}] /\ Lane' = Lane /\ IsFiniteSet(Lane)
  BY LanesFinite DEF IInv, TypeOK, Lane
<1>2. Settled' = Settled \cup {n} /\ n \notin Settled
  BY <1>1 DEF Settled
<1>3. IsFiniteSet(Settled)
  <2>1. Settled \in SUBSET Lane
    BY DEF Settled
  <2> QED
    BY <1>1, <2>1, FS_Subset
<1>4. Cardinality(Settled \cup {n}) = Cardinality(Settled) + 1
  BY <1>2, <1>3, FS_AddElement
<1> QED
  BY <1>1, <1>2, <1>4

\* A step keeps the types, and what is in of the lanes in step with what they did.
LEMMA NextSettles ==
  ASSUME IInv, [Next]_vars
  PROVE  TypeOK' /\ SettledInv' /\ ReportInv'
<1>1. TypeOK /\ LevelInv /\ LevelsRight(lanes) /\ SettledInv /\ ReportInv
  BY DEF IInv
<1>2. cfg' = cfg /\ lanes' = lanes /\ level' = level /\ Lane' = Lane
  BY DEF Next, Progress, Finished, NextLevel, Return, Exit, LaneNext, LaneSucceeds, LaneFails,
     LanePanics, vars, Lane
<1>3. /\ cfg'.blocks \in Seq(Block) /\ cfg'.needs \in [Target -> SUBSET Resource]
      /\ lanes' \in Seq([block : DOMAIN cfg'.blocks, provides : Seq(Resource),
                         requires : SUBSET Resource])
      /\ level' \in [Lane' -> 0 .. Len(lanes')]
  BY <1>1, <1>2 DEF TypeOK
<1>4. Len(lanes) \in Nat /\ Lane = 1 .. Len(lanes) /\ IsFiniteSet(Lane)
  BY <1>1, LanesFinite DEF TypeOK
<1>t. ASSUME SettledInv',
             current' \in 0 .. Len(lanes), pc' \in [Lane -> {"idle", "running", "ok", "failed"}],
             causes' \in Seq(LaneErr), reps' \in Seq(Lane),
             result' \in LaneErr \cup {NoErr, "ok", "MultipleProvidersError", "DeployCycleError"},
             report' \in Seq(Lane), exit' \in {NoErr, "ok", "user error", "panic"}
      PROVE  TypeOK'
  <2>1. Settled' \in SUBSET Lane /\ Len(causes') + Len(reps') = Cardinality(Settled')
    BY <1>2, <1>t DEF SettledInv, Settled
  <2>2. Cardinality(Settled') <= Cardinality(Lane)
    BY <1>4, <2>1, FS_Subset
  <2>3. Cardinality(Lane) = Len(lanes)
    BY <1>1, LanesFinite DEF TypeOK
  <2>4. Len(causes') + Len(reps') <= Len(lanes')
    BY <1>2, <2>1, <2>2, <2>3
  <2> QED
    BY <1>2, <1>3, <1>t, <2>4 DEF TypeOK
<1>o. /\ current \in 0 .. Len(lanes) /\ pc \in [Lane -> {"idle", "running", "ok", "failed"}]
      /\ causes \in Seq(LaneErr) /\ reps \in Seq(Lane)
      /\ result \in LaneErr \cup {NoErr, "ok", "MultipleProvidersError", "DeployCycleError"}
      /\ report \in Seq(Lane) /\ exit \in {NoErr, "ok", "user error", "panic"}
  BY <1>1 DEF TypeOK
<1>q. causes \in Seq(LaneErr) /\ reps \in Seq(Lane)
  BY <1>o
<1>l. Len(causes) \in Nat /\ Len(reps) \in Nat
  BY <1>q, LenProperties
<1>s. /\ Range(reps) = {n \in Lane : pc[n] = "ok"}
      /\ Len(causes) + Len(reps) = Cardinality(Settled)
  BY <1>1 DEF SettledInv, Settled
<1>5. ASSUME NEW n \in Lane, LaneSucceeds(n) PROVE TypeOK' /\ SettledInv' /\ ReportInv'
  <2>1. /\ pc[n] = "running" /\ pc' = [pc EXCEPT ![n] = "ok"] /\ reps' = Append(reps, n)
        /\ result = NoErr /\ UNCHANGED <<current, causes, result, report, exit>>
    BY <1>5 DEF LaneSucceeds, Running
  <2>2. /\ Cardinality(Settled') = Cardinality(Settled) + 1
        /\ {m \in Lane : pc'[m] = "ok"} = {m \in Lane : pc[m] = "ok"} \cup {n}
    BY <1>2, <2>1, LaneSettles
  <2>3. Len(reps') = Len(reps) + 1 /\ reps' \in Seq(Lane) /\ Range(reps') = Range(reps) \cup {n}
    BY <1>q, <2>1, AppendProperties, AppendRange
  <2>4. SettledInv'
    <3>2. Len(causes') + Len(reps') = Cardinality(Settled')
      BY <1>l, <1>s, <2>1, <2>2, <2>3
    <3> QED
      BY <1>2, <1>s, <2>2, <2>3, <3>2 DEF SettledInv, Settled
  <2>5. pc' \in [Lane -> {"idle", "running", "ok", "failed"}]
    BY <1>o, <2>1
  <2>6. ReportInv'
    BY <1>1, <1>2, <2>1 DEF ReportInv, Started
  <2> QED
    BY <1>o, <1>t, <2>1, <2>3, <2>4, <2>5, <2>6
<1>6. ASSUME NEW n \in Lane, NEW e \in LaneErr, LaneFails(n, e)
      PROVE  TypeOK' /\ SettledInv' /\ ReportInv'
  <2>1. /\ pc[n] = "running" /\ pc' = [pc EXCEPT ![n] = "failed"] /\ causes' = Append(causes, e)
        /\ result = NoErr /\ UNCHANGED <<current, reps, result, report, exit>>
    BY <1>6 DEF LaneFails, Running
  <2>2. /\ Cardinality(Settled') = Cardinality(Settled) + 1
        /\ {m \in Lane : pc'[m] = "ok"} = {m \in Lane : pc[m] = "ok"}
    BY <1>2, <2>1, LaneSettles
  <2>3. Len(causes') = Len(causes) + 1 /\ causes' \in Seq(LaneErr)
    BY <1>q, <2>1, AppendProperties
  <2>4. SettledInv'
    <3>2. Len(causes') + Len(reps') = Cardinality(Settled')
      BY <1>l, <1>s, <2>1, <2>2, <2>3
    <3> QED
      BY <1>2, <1>s, <2>1, <2>2, <3>2 DEF SettledInv, Settled
  <2>5. pc' \in [Lane -> {"idle", "running", "ok", "failed"}]
    BY <1>o, <2>1
  <2>6. ReportInv'
    BY <1>1, <1>2, <2>1 DEF ReportInv, Started
  <2> QED
    BY <1>o, <1>t, <2>1, <2>3, <2>4, <2>5, <2>6
<1>7. CASE NextLevel
  <2>1. /\ current' = current + 1 /\ AtLevel(level, current + 1) # {} /\ result = NoErr
        /\ pc' = [n \in Lane |-> IF level[n] = current' THEN "running" ELSE pc[n]]
        /\ UNCHANGED <<causes, reps, result, report, exit>>
    BY <1>7 DEF NextLevel, Running
  <2>2. current' \in 0 .. Len(lanes)
    <3>1. PICK n \in Lane : level[n] = current + 1
      BY <1>2, <1>3, <2>1 DEF AtLevel
    <3>2. level[n] \in 0 .. Len(lanes)
      BY <1>2, <1>3
    <3> QED
      BY <2>1, <3>1, <3>2
  <2>3. \A n \in Lane : level[n] = current' => pc[n] = "idle"
    <3>1. Started
      BY <1>1, <1>7, RunningStarted DEF NextLevel
    <3>2. \A n \in Lane : pc[n] = "idle" <=> level[n] > current
      BY <1>1, <3>1 DEF LevelInv, CurrentInv
    <3>3. current + 1 > current
      <4>1. current \in Nat
        BY <1>1, <3>1 DEF LevelInv, CurrentInv
      <4> QED
        BY <4>1
    <3> QED
      BY <2>1, <3>2, <3>3
  <2>4. \A n \in Lane : pc'[n] \in {"ok", "failed"} <=> pc[n] \in {"ok", "failed"}
    BY <2>1, <2>3
  <2>5. \A n \in Lane : pc'[n] = "ok" <=> pc[n] = "ok"
    BY <2>1, <2>3
  <2>6. SettledInv'
    <3>1. {n \in Lane : pc'[n] = "ok"} = {n \in Lane : pc[n] = "ok"} /\ Settled' = Settled
      BY <1>2, <2>4, <2>5 DEF Settled
    <3> QED
      BY <1>2, <1>s, <2>1, <3>1 DEF SettledInv, Settled
  <2>7. ReportInv'
    BY <1>1, <1>2, <2>1 DEF ReportInv, Started
  <2>8. pc' \in [Lane -> {"idle", "running", "ok", "failed"}]
    BY <1>o, <2>1
  <2> QED
    BY <1>o, <1>t, <2>1, <2>2, <2>6, <2>7, <2>8
<1>8. CASE Return
  <2>1. /\ Running /\ result' = ResultOf(causes) /\ report' = InOrdinalOrder(reps)
        /\ UNCHANGED <<current, pc, causes, reps, exit>>
    BY <1>8 DEF Return
  <2>2. Range(reps) \subseteq Lane
    BY <1>s
  <2>3. report' \in Seq(Lane)
    BY <2>1, <2>2, Ordinals
  <2>4. result' \in LaneErr \cup {"ok"} /\ result' # NoErr
    <3>1. Len(causes) = 1 => causes[1] \in LaneErr
      BY <1>q
    <3>2. ResultOf(causes) \in LaneErr \cup {"ok"}
      BY <3>1 DEF ResultOf, LaneErr
    <3> QED
      BY <2>1, <3>2 DEF LaneErr, NoErr
  <2>5. SettledInv'
    BY <1>1, <1>2, <2>1 DEF SettledInv
  <2>6. ReportInv'
    <3>1. Started' /\ InOrdinalOrder(reps)' = InOrdinalOrder(reps)
      BY <1>1, <1>2, <2>1, RunningStarted DEF Started, InOrdinalOrder, Before
    <3> QED
      BY <2>1, <2>4, <3>1 DEF ReportInv
  <2> QED
    BY <1>o, <1>t, <2>1, <2>3, <2>4, <2>5, <2>6
<1>9. ASSUME UNCHANGED <<current, pc, causes, reps, result, report>>,
             exit' \in {NoErr, "ok", "user error", "panic"}
      PROVE  TypeOK' /\ SettledInv' /\ ReportInv'
  <2>1. SettledInv'
    BY <1>1, <1>2, <1>9 DEF SettledInv
  <2>0. reps' = reps /\ level' = level
    BY <1>2, <1>9
  <2>2. InOrdinalOrder(reps)' = InOrdinalOrder(reps)
    BY <2>0 DEF InOrdinalOrder, Before
  <2>3. ReportInv'
    BY <1>1, <1>2, <1>9, <2>2 DEF ReportInv, Started
  <2> QED
    BY <1>o, <1>t, <1>9, <2>1, <2>3
<1>10. ASSUME NEW n \in Lane, LaneNext(n) PROVE TypeOK' /\ SettledInv' /\ ReportInv'
  <2>1. CASE LanePanics(n)
    BY <1>9, <2>1 DEF LanePanics
  <2> QED
    BY <1>5, <1>6, <1>10, <2>1 DEF LaneNext
<1>11. CASE Exit
  <2>1. exit' \in {"ok", "user error", "panic"}
    BY <1>11 DEF Exit, ExitOf
  <2> QED
    BY <1>9, <1>11, <2>1 DEF Exit
<1>12. CASE UNCHANGED vars
  BY <1>9, <1>o, <1>12 DEF vars
<1> QED
  BY <1>7, <1>8, <1>10, <1>11, <1>12 DEF Next, Progress, Finished

\* The invariant of the levels, of what is in and of the report holds in every
\* reachable state.
THEOREM IInvHolds == Spec => []IInv
<1>1. IInv /\ [Next]_vars => IInv'
  <2> SUFFICES ASSUME IInv, [Next]_vars PROVE IInv'
    OBVIOUS
  <2>1. LevelInv' /\ lanes' = lanes
    BY NextLevels DEF IInv
  <2>2. LevelsRight(lanes)'
    BY <2>1 DEF IInv
  <2> QED
    BY <2>1, <2>2, NextSettles DEF IInv
<1> QED
  BY <1>1, InitInv, PTL DEF Spec

\* What running level by level keeps: producers come first, and only what is
\* downstream of a failure is left out.
LEMMA InvLevels == LevelInv /\ LevelsRight(lanes) => ProducersFirst /\ OnlyDownstreamSkipped
<1>1. ASSUME LevelInv, LevelsRight(lanes) PROVE ProducersFirst
  <2> SUFFICES ASSUME NEW m \in Lane, NEW n \in Lane, m # n, pc[n] # "idle",
                      lanes[n].requires \cap Range(lanes[m].provides) # {}
               PROVE  pc[m] = "ok"
    BY DEF ProducersFirst
  <2>1. Started
    BY <1>1 DEF LevelInv, RefusedInv
  <2>2. Len(lanes) # 1 /\ m \in Deps(lanes)[n]
    BY <2>1 DEF Deps, Lane
  <2>3. level[m] < level[n] /\ level \in [Lane -> Nat]
    BY <1>1, <2>1, <2>2 DEF LevelsRight, LevelInv, CurrentInv, Started, Lane
  <2> QED
    BY <1>1, <2>1, <2>3 DEF LevelInv, CurrentInv
<1>2. ASSUME LevelInv, LevelsRight(lanes) PROVE OnlyDownstreamSkipped
  <2> SUFFICES ASSUME result \in LaneErr \cup {"ok"}, NEW n \in Lane
               PROVE  /\ pc[n] # "running"
                      /\ pc[n] = "idle" =>
                            \E m \in Lane : pc[m] = "failed" /\ level[m] < level[n]
    BY DEF OnlyDownstreamSkipped
  <2>1. Started /\ result # NoErr
    BY <1>2 DEF LevelInv, RefusedInv, Refusal, LaneErr, Started, NoErr
  <2>2. level \in [Lane -> Nat] /\ current \in Nat
    BY <1>2, <2>1 DEF LevelsRight, LevelInv, CurrentInv, Started, Lane
  <2>3. pc[n] # "running"
    BY <1>2, <2>1, <2>2 DEF LevelInv, CurrentInv, ReturnInv, LevelOver, AtLevel, Lane
  <2>4. CASE causes # <<>>
    BY <1>2, <2>1, <2>2, <2>3, <2>4 DEF LevelInv, CurrentInv, CauseInv
  <2>5. CASE AtLevel(level, current + 1) = {}
    <3> SUFFICES ASSUME level[n] > current PROVE FALSE
      BY <1>2, <2>1, <2>3 DEF LevelInv, CurrentInv
    <3>1. current + 1 \in 0 .. level[n]
      BY <2>2
    <3>2. PICK m \in Lane : level[m] = current + 1
      BY <1>2, <2>1, <3>1 DEF LevelsRight, LevelInv, CurrentInv, Started, Lane
    <3> QED
      BY <2>2, <2>5, <3>2 DEF AtLevel, Lane
  <2> QED
    BY <1>2, <2>1, <2>3, <2>4, <2>5 DEF LevelInv, ReturnInv
<1> QED
  BY <1>1, <1>2

\* Lanes run after the producers of what they require, for any number of blocks
\* and levels.
THEOREM ProducersRunFirst == Spec => []ProducersFirst
<1>1. IInv => ProducersFirst
  BY InvLevels DEF IInv
<1> QED
  BY <1>1, IInvHolds, PTL

\* The process exits well only when no lane failed.
LEMMA InvFailures ==
    ASSUME LevelInv, LevelsRight(lanes)
    PROVE  exit = "ok" => result = "ok" /\ \A n \in Lane : pc[n] # "failed"
<1>1. exit = "ok" => result = "ok" /\ \A n \in Lane : pc[n] # "failed"
  <2>1. ASSUME exit = "ok" PROVE result = "ok"
    BY <2>1 DEF LevelInv, ExitInv, ExitOf, NoErr
  <2> SUFFICES ASSUME exit = "ok", NEW n \in Lane, pc[n] = "failed" PROVE FALSE
    BY <2>1
  <2>2. Started /\ result # NoErr
    BY <2>1 DEF LevelInv, RefusedInv, Refusal, Started, NoErr
  <2>3. level \in [Lane -> Nat] /\ current \in Nat
    BY <2>2 DEF LevelsRight, LevelInv, CurrentInv, Started, Lane
  <2>4. causes # <<>>
    BY <2>2, <2>3 DEF LevelInv, CurrentInv, CauseInv
  <2>5. causes \in Seq(LaneErr) /\ "ok" = ResultOf(causes)
    BY <2>1, <2>2 DEF LevelInv, CauseInv, ReturnInv
  <2>6. Len(causes) = 1 => causes[1] \in LaneErr
    BY <2>5
  <2> QED
    BY <2>4, <2>5, <2>6 DEF ResultOf, LaneErr
<1> QED
  BY <1>1

\* A run in which a lane failed does not exit as if all went well, however
\* many failed and in whatever order.
THEOREM FailuresKept == Spec => []NoLostFailure
<1>1. IInv => NoLostFailure
  BY InvFailures DEF IInv, NoLostFailure
<1> QED
  BY <1>1, IInvHolds, PTL

\* A success reports every lane once, producers before their consumers and lanes
\* of one level as declared, in whatever order they finished.
LEMMA InvReport == IInv => ReportIsOrdered
<1> SUFFICES ASSUME IInv, exit = "ok" PROVE ReportIsOrdered
  BY DEF ReportIsOrdered
<1>1. LevelInv /\ LevelsRight(lanes) /\ TypeOK
  BY DEF IInv
<1>2. result = "ok" /\ \A n \in Lane : pc[n] # "failed"
  BY <1>1, InvFailures
<1>3. Started /\ result # NoErr
  BY <1>1, <1>2 DEF LevelInv, RefusedInv, Refusal, Started, NoErr
<1>4. \A n \in Lane : pc[n] = "ok"
  <2>1. \A n \in Lane : pc[n] # "running" /\ pc[n] # "idle"
    BY <1>1, <1>2, InvLevels DEF OnlyDownstreamSkipped
  <2> QED
    BY <1>1, <1>2, <2>1 DEF TypeOK
<1>5. Range(reps) = Lane
  BY <1>4 DEF IInv, SettledInv
<1>6. /\ report \in Seq(Lane) /\ Len(report) = Cardinality(Lane) /\ Range(report) = Lane
      /\ \A i, j \in DOMAIN report : i < j => Before(report[i], report[j])
  <2>1. report = InOrdinalOrder(reps)
    BY <1>3 DEF IInv, ReportInv
  <2> QED
    BY <1>5, <2>1, Ordinals
<1>7. Cardinality(Lane) = Len(lanes) /\ Len(lanes) \in Nat /\ Lane = 1 .. Len(lanes)
  BY <1>1, LanesFinite DEF TypeOK
<1>8. level \in [Lane -> Nat]
  <2>1. level \in [Lane -> 0 .. Len(lanes)]
    BY <1>1 DEF TypeOK
  <2> QED
    BY <1>7, <2>1
<1>9. ASSUME NEW i \in DOMAIN report, NEW j \in DOMAIN report, i < j
      PROVE  /\ level[report[i]] <= level[report[j]]
             /\ level[report[i]] = level[report[j]] => report[i] < report[j]
             /\ lanes[report[i]].requires \cap Range(lanes[report[j]].provides) = {}
                   \/ Len(lanes) = 1
  <2>1. report[i] \in Lane /\ report[j] \in Lane /\ Before(report[i], report[j])
    BY <1>6, <1>9
  <2>2. level[report[i]] \in Nat /\ level[report[j]] \in Nat /\ report[i] \in Nat /\ report[j] \in Nat
    BY <1>7, <1>8, <2>1
  <2>3. /\ level[report[i]] <= level[report[j]]
        /\ level[report[i]] = level[report[j]] => report[i] < report[j]
    BY <2>1, <2>2 DEF Before
  <2>4. ASSUME lanes[report[i]].requires \cap Range(lanes[report[j]].provides) # {}, Len(lanes) # 1
        PROVE  FALSE
    <3>1. report[j] \in Deps(lanes)[report[i]]
      BY <2>1, <2>4 DEF Deps, Lane
    <3>2. level[report[j]] < level[report[i]]
      BY <1>1, <1>3, <2>1, <2>4, <3>1 DEF LevelsRight, LevelInv, CurrentInv, Started, Lane
    <3> QED
      BY <2>2, <2>3, <3>2
  <2> QED
    BY <2>3, <2>4
<1> QED
  BY <1>6, <1>7, <1>9 DEF ReportIsOrdered

\* What concurrent lanes report is put together whole: every lane once and in
\* order when all went well, a failure when one of them failed, and nothing left
\* out but what is downstream of it.
THEOREM ReportHolds == Spec => []ReportIsWhole
<1>1. IInv => ReportIsWhole
  BY InvReport, InvFailures, InvLevels DEF IInv, NoLostFailure, ReportIsWhole
<1> QED
  BY <1>1, IInvHolds, PTL

-----------------------------------------------------------------------------
(***************************************************************************)
(* Deploys implements Schedule.                                            *)
(***************************************************************************)

\* The tasks of the schedule are the lanes.
LEMMA TasksAreLanes ==
    /\ Sched!Task = Lane
    /\ \A n \in Lane : Deps(lanes)[n] \subseteq Lane
BY DEF Sched!Task, Deps, Lane

\* A lane that is not idle comes after nothing that has not ended well.
LEMMA BegunReady ==
    ASSUME IInv, NEW n \in Lane, pc[n] # "idle", NEW m \in Deps(lanes)[n] \ {n}
    PROVE  m \in Lane /\ pc[m] = "ok"
<1>1. ProducersFirst
  BY InvLevels DEF IInv
<1>2. m \in Lane /\ lanes[n].requires \cap Range(lanes[m].provides) # {}
  BY DEF Deps, Lane
<1> QED
  BY <1>1, <1>2 DEF ProducersFirst

\* A graph that is refused is over; in another the first level begins.
LEMMA SchedInit == Init => Sched!Init
<1> SUFFICES ASSUME Init PROVE Sched!Init
  OBVIOUS
<1>1. IInv /\ \A n \in Lane : pc[n] \in {"idle", "running"}
  BY InitInv DEF Init, StartedAt, LevelOf, IInv, TypeOK, Lane
<1>2. \A n \in Lane : StageOf(n) = IF pc[n] = "running" THEN "runs" ELSE "waits"
  BY <1>1 DEF StageOf
<1>3. \A n \in Lane : pc[n] = "running" => Deps(lanes)[n] \ {n} = {}
  BY <1>1, BegunReady
<1>4. /\ OverOf \in {"no", "some"}
      /\ OverOf = "some" => \A n \in Lane : pc[n] = "idle"
  BY DEF Init, OverOf, Refusal, NoErr
<1> QED
  BY <1>2, <1>3, <1>4, TasksAreLanes DEF Sched!Init, Sched!NoneBegan

\* What a lane does, of itself, is to end.
LEMMA SchedLane ==
    ASSUME IInv, NEW n \in Lane, LaneNext(n)
    PROVE  Sched!Next \/ UNCHANGED Sched!vars
<1>1. UNCHANGED <<lanes, Lane>> /\ OverOf = "no" /\ OverOf' = "no" /\ pc[n] = "running"
  BY DEF LaneNext, LaneSucceeds, LaneFails, LanePanics, Running, OverOf, NoErr, Lane
<1>2. CASE LanePanics(n)
  BY <1>1, <1>2 DEF LanePanics, Sched!vars, StageOf
<1>3. CASE LaneSucceeds(n) \/ \E e \in LaneErr : LaneFails(n, e)
  <2>1. PICK how \in {"done", "failed"} :
           pc' = [pc EXCEPT ![n] = IF how = "done" THEN "ok" ELSE "failed"]
    BY <1>3 DEF LaneSucceeds, LaneFails
  <2>2. \A m \in Lane : StageOf(m)' = IF m = n THEN how ELSE StageOf(m)
    BY <2>1 DEF StageOf, IInv, TypeOK
  <2>3. StageOf(n) = "runs"
    BY <1>1 DEF StageOf
  <2>4. Sched!End(n, how)
    BY <1>1, <2>2, <2>3 DEF Sched!End
  <2> QED
    BY <2>1, <2>4, TasksAreLanes DEF Sched!Next
<1> QED
  BY <1>2, <1>3 DEF LaneNext

\* The lanes of a level begin at once, and all they come after has ended well.
LEMMA SchedLevel ==
    ASSUME IInv, IInv', NextLevel
    PROVE  Sched!Next
<1>1. UNCHANGED <<lanes, Lane>> /\ OverOf = "no" /\ OverOf' = "no"
  BY DEF NextLevel, Running, OverOf, NoErr, Lane
<1>2. /\ Started /\ level \in [Lane -> Nat] /\ current \in Nat
      /\ \A n \in Lane : pc[n] = "idle" <=> level[n] > current
  <2>1. Started
    BY DEF NextLevel, Running, IInv, LevelInv, RefusedInv, Started, NoErr
  <2> QED
    BY <2>1 DEF IInv, LevelInv, CurrentInv, LevelsRight, Started, Lane
<1> DEFINE S == {n \in Lane : level[n] = current + 1}
<1>3. \A n \in S : pc[n] = "idle" /\ pc'[n] = "running"
  BY <1>2 DEF NextLevel
<1>4. ASSUME NEW n \in S, NEW m \in Deps(lanes)[n] \ {n}
      PROVE  m \in Lane /\ pc[m] = "ok"
  <2>1. ProducersFirst'
    BY InvLevels, PTL DEF IInv
  <2>2. m \in Lane /\ m # n /\ lanes[n].requires \cap Range(lanes[m].provides) # {}
    BY DEF Deps, Lane
  <2>3. pc'[m] = "ok"
    BY <1>1, <1>3, <2>1, <2>2 DEF ProducersFirst
  <2> QED
    BY <2>2, <2>3 DEF NextLevel
<1>5. \A n \in Lane : StageOf(n)' = IF n \in S THEN "runs" ELSE StageOf(n)
  <2>1. \A n \in Lane : pc'[n] = IF n \in S THEN "running" ELSE pc[n]
    BY DEF NextLevel
  <2> QED
    BY <2>1 DEF StageOf
<1>6. \A n \in S : /\ StageOf(n) = "waits"
                   /\ \A m \in Deps(lanes)[n] \ {n} : m \in Lane /\ StageOf(m) = "done"
  BY <1>3, <1>4 DEF StageOf
<1>7. S \in SUBSET Sched!Task
  BY TasksAreLanes
<1> HIDE DEF S
<1>8. Sched!Begin(S)
  BY <1>1, <1>5, <1>6, <1>7, TasksAreLanes DEF Sched!Begin, Sched!Ready, Sched!Done
<1> QED
  BY <1>7, <1>8 DEF Sched!Next

\* The run returns when every lane ended well, or a lane failed and none runs.
LEMMA SchedReturn ==
    ASSUME IInv, IInv', Return
    PROVE  Sched!Next
<1>1. /\ UNCHANGED <<lanes, Lane, pc>> /\ OverOf = "no"
      /\ \A n \in Lane : StageOf(n)' = StageOf(n)
  BY DEF Return, Running, OverOf, NoErr, Lane, StageOf
<1>2. /\ Started /\ level \in [Lane -> Nat] /\ current \in Nat
      /\ pc \in [Lane -> {"idle", "running", "ok", "failed"}]
      /\ \A n \in Lane : /\ pc[n] = "idle" <=> level[n] > current
                         /\ level[n] < current => pc[n] = "ok"
      /\ causes # <<>> <=> \E n \in Lane : pc[n] = "failed" /\ level[n] = current
  <2>1. Started
    BY DEF Return, Running, IInv, LevelInv, RefusedInv, Started, NoErr
  <2> QED
    BY <2>1 DEF IInv, LevelInv, CurrentInv, CauseInv, LevelsRight, Started, Lane
<1>3. \A n \in Lane : pc[n] # "running"
  BY <1>2 DEF Return, LevelOver, AtLevel, Lane
<1>4. CASE causes = <<>>
  <2>1. result' = "ok" /\ OverOf' = "all"
    BY <1>4 DEF Return, ResultOf, OverOf, NoErr
  <2>2. \A n \in Lane : pc[n] # "failed"
    BY <1>2, <1>4
  <2>3. OnlyDownstreamSkipped'
    BY InvLevels, PTL DEF IInv
  <2>4. \A n \in Lane : pc[n] # "idle"
    BY <1>1, <2>1, <2>2, <2>3 DEF OnlyDownstreamSkipped
  <2>5. \A n \in Lane : StageOf(n) = "done"
    BY <1>2, <1>3, <2>2, <2>4 DEF StageOf
  <2>6. Sched!Succeed
    BY <1>1, <2>1, <2>5, TasksAreLanes DEF Sched!Succeed, Sched!Done
  <2> QED
    BY <2>6 DEF Sched!Next
<1>5. CASE causes # <<>>
  <2>1. result' \in LaneErr
    <3>1. causes \in Seq(LaneErr)
      BY DEF IInv, LevelInv, CauseInv
    <3>2. Len(causes) = 1 => causes[1] \in LaneErr
      BY <3>1
    <3> QED
      BY <1>5, <3>2 DEF Return, ResultOf, LaneErr
  <2>2. OverOf' = "some"
    BY <2>1 DEF LaneErr, OverOf, NoErr
  <2>3. \E n \in Lane : StageOf(n) = "failed"
    BY <1>2, <1>5 DEF StageOf
  <2>4. \A n \in Lane : StageOf(n) # "runs"
    BY <1>2, <1>3 DEF StageOf
  <2>5. Sched!Stop
    BY <1>1, <2>2, <2>3, <2>4, TasksAreLanes DEF Sched!Stop, Sched!NoneRuns
  <2> QED
    BY <2>5 DEF Sched!Next
<1> QED
  BY <1>4, <1>5

\* Every step of a run is a step of the schedule, or none.
LEMMA SchedNext == IInv /\ IInv' /\ [Next]_vars => [Sched!Next]_(Sched!vars)
<1> SUFFICES ASSUME IInv, IInv', [Next]_vars
             PROVE  Sched!Next \/ UNCHANGED Sched!vars
  OBVIOUS
<1>1. CASE \E n \in Lane : LaneNext(n)
  BY <1>1, SchedLane
<1>2. CASE NextLevel
  BY <1>2, SchedLevel
<1>3. CASE Return
  BY <1>3, SchedReturn
<1>4. CASE Exit \/ UNCHANGED vars
  BY <1>4 DEF Exit, vars, Sched!vars, StageOf, OverOf, Lane
<1> QED
  BY <1>1, <1>2, <1>3, <1>4 DEF Next, Progress, Finished

\* The lanes of a run are run as Schedule has it, for any number of blocks,
\* targets and levels: a step of a run is a step of the schedule or none.
THEOREM ScheduleKept == Spec => KeepsSchedule
<1> QED
  BY SchedInit, SchedNext, IInvHolds, PTL DEF Spec, KeepsSchedule, Sched!Spec
=============================================================================

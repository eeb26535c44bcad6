------------------------- MODULE IdentityCacheProofs -------------------------
(***************************************************************************)
(* Proofs about IdentityCache, for any names, numbers and goroutines.      *)
(***************************************************************************)
EXTENDS IdentityCache, TLAPS

\* The initial state satisfies the invariant.
LEMMA InitInv == Init => IInv
<1> SUFFICES ASSUME Init PROVE IInv
  OBVIOUS
<1>1. \A p \in Proc : task[p] = Idle
  BY DEF Init
<1>2. Idle \in Task
  BY DEF Idle, Task, Space
<1>3. \A p \in Proc : task[p].at = "idle"
  BY <1>1 DEF Idle
<1>4. TypeOK
  <2>1. entry \in [Space -> [Name -> Id \cup {NoId, Unknown}]]
    BY DEF Init
  <2>2. nameOf \in [Space -> [Id -> Name \cup {NoName}]]
    BY DEF Init
  <2>3. task \in [Proc -> Task]
    BY <1>2 DEF Init
  <2> QED
    BY <1>3, <2>1, <2>2, <2>3 DEF Init, TypeOK
<1>5. \A s \in Space, n \in Name : Current(s, n)
  BY <1>3 DEF Init, Current
<1>6. \A s \in Space, i \in Id : Agree(s, i)
  BY DEF Init, Agree
<1> QED
  BY <1>4, <1>5, <1>6 DEF IInv

\* A command touches the accounts of one name, in the spaces whose entries are
\* dropped after it.
LEMMA EffectIsDropped ==
    ASSUME TypeOK, NEW p \in Proc, task[p].at = "ask", Effect(task[p], ids')
    PROVE  /\ ids' \in [Space -> Accounts]
           /\ task[p].name \in Name /\ task[p].op # "id"
           /\ \A s \in Space, m \in Name :
                 ids'[s][m] # ids[s][m] => m = task[p].name /\ s \in Drops(task[p])
           /\ Drops(task[p]) \subseteq Space /\ Drops(task[p]) # {}
<1> DEFINE t == task[p]  s == t.space  n == t.name
<1>1. t \in Task /\ s \in Space /\ t.op \in {"create", "delete", "modify"}
  BY DEF TypeOK, Task, Effect
<1>2. n \in Name
  BY <1>1 DEF TypeOK
<1>3. Drops(t) \subseteq Space /\ Drops(t) # {} /\ s \in Drops(t)
  BY <1>1 DEF Drops, Space
<1>4. s = "user" /\ t.op # "modify" => "group" \in Drops(t)
  BY DEF Drops
<1>5. ids \in [Space -> Accounts] /\ \A x \in Space : ids[x] \in [Name -> Id \cup {NoId}]
  BY DEF TypeOK, Accounts
<1>6. ASSUME NEW x \in Space, NEW i \in Id, Free(x, i)
      PROVE  [ids[x] EXCEPT ![n] = i] \in Accounts
  BY <1>2, <1>5, <1>6, NotValues DEF Accounts, Free
<1>7. ASSUME NEW x \in Space
      PROVE  [ids[x] EXCEPT ![n] = NoId] \in Accounts
  BY <1>2, <1>5, <1>7 DEF Accounts
<1>8. CASE t.op = "create"
  <2>1. PICK i \in Id : Free(s, i) /\ \/ ids' = [ids EXCEPT ![s][n] = i]
                                      \/ /\ s = "user"
                                         /\ \E j \in Id : /\ Free("group", j)
                                                          /\ ids' = [[ids EXCEPT ![s][n] = i]
                                                                     EXCEPT !["group"][n] = j]
    BY <1>8 DEF Effect
  <2>2. CASE ids' = [ids EXCEPT ![s][n] = i]
    BY <1>1, <1>2, <1>3, <1>5, <1>6, <2>1, <2>2
  <2>3. CASE s = "user" /\ \E j \in Id : /\ Free("group", j)
                                         /\ ids' = [[ids EXCEPT ![s][n] = i]
                                                    EXCEPT !["group"][n] = j]
    <3>1. PICK j \in Id : /\ Free("group", j)
                          /\ ids' = [[ids EXCEPT ![s][n] = i] EXCEPT !["group"][n] = j]
      BY <2>3
    <3>2. /\ ids' = [x \in Space |-> IF x = "user" THEN [ids["user"] EXCEPT ![n] = i]
                                                   ELSE [ids["group"] EXCEPT ![n] = j]]
      BY <1>5, <2>3, <3>1 DEF Space
    <3> QED
      BY <1>1, <1>2, <1>3, <1>4, <1>5, <1>6, <1>8, <2>1, <2>3, <3>1, <3>2 DEF Space
  <2> QED
    BY <2>1, <2>2, <2>3
<1>9. CASE t.op = "delete"
  <2>1. \/ ids' = [ids EXCEPT ![s][n] = NoId]
        \/ s = "user" /\ ids' = [ids EXCEPT ![s][n] = NoId, !["group"][n] = NoId]
    BY <1>9 DEF Effect
  <2>2. CASE ids' = [ids EXCEPT ![s][n] = NoId]
    BY <1>1, <1>2, <1>3, <1>5, <1>7, <1>9, <2>2
  <2>3. CASE s = "user" /\ ids' = [ids EXCEPT ![s][n] = NoId, !["group"][n] = NoId]
    <3>1. ids' = [x \in Space |-> [ids[x] EXCEPT ![n] = NoId]]
      BY <1>5, <2>3 DEF Space
    <3> QED
      BY <1>1, <1>2, <1>3, <1>4, <1>5, <1>7, <1>9, <2>3, <3>1 DEF Space
  <2> QED
    BY <2>1, <2>2, <2>3
<1>10. CASE t.op = "modify"
  <2>1. ids' = ids
    BY <1>10 DEF Effect
  <2> QED
    BY <1>1, <1>2, <1>3, <1>5, <1>10, <2>1
<1> QED
  BY <1>1, <1>8, <1>9, <1>10

\* A goroutine that begins or gives up, and neither stores nor drops, disturbs
\* nothing.
LEMMA QuietStep ==
    ASSUME IInv, NEW p \in Proc, task[p].at \in {"idle", "ask"}, NEW t \in Task,
           t.at \in {"idle", "ask"},
           t.at = "ask" /\ t.op = "id" => t.id \in Id,
           t.at = "ask" /\ t.op # "id" => t.name \in Name,
           Becomes(p, t), UNCHANGED <<ids, entry, nameOf, changes, stale, raced>>
    PROVE  IInv'
<1>1. /\ task' \in [Proc -> Task] /\ task'[p] = t
      /\ \A q \in Proc \ {p} : task'[q] = task[q]
  BY DEF IInv, TypeOK, Becomes
<1>2. TypeOK'
  <2>1. ids' = ids /\ entry' = entry /\ nameOf' = nameOf /\ changes' = changes
        /\ stale' = stale /\ raced' = raced
    OBVIOUS
  <2>2. ASSUME NEW q \in Proc
        PROVE  /\ task'[q].at = "ask" /\ task'[q].op = "id" => task'[q].id \in Id
               /\ task'[q].at = "idle" \/ (task'[q].at = "ask" /\ task'[q].op = "id")
                     \/ task'[q].name \in Name
               /\ task'[q].at = "drop" => task'[q].drops # {}
    BY <1>1, <2>2 DEF IInv, TypeOK
  <2> QED
    BY <1>1, <2>1, <2>2 DEF IInv, TypeOK
<1>3. ASSUME NEW s \in Space, NEW n \in Name
      PROVE  Pending(s, n)' \/ <<s, n>> \in stale' \/ Current(s, n)'
  <2>1. Pending(s, n) => Pending(s, n)'
    BY <1>1 DEF Pending
  <2>2. Current(s, n) => Current(s, n)'
    BY <1>1 DEF Current
  <2> QED
    BY <2>1, <2>2 DEF IInv
<1>4. ASSUME NEW s \in Space, NEW i \in Id PROVE Agree(s, i)'
  BY DEF IInv, Agree
<1> QED
  BY <1>2, <1>3, <1>4 DEF IInv

\* A lookup that has its answer holds what is so at that moment.
LEMMA AnsweredStep == ASSUME IInv, NEW p \in Proc, Answered(p) PROVE IInv'
<1> DEFINE t == task[p]
<1>1. t \in Task /\ t.space \in Space /\ t.at = "ask"
      /\ UNCHANGED <<ids, entry, nameOf, changes, stale, raced>>
      /\ ids \in [Space -> [Name -> Id \cup {NoId}]]
  BY DEF IInv, TypeOK, Task, Answered, Accounts
<1>2. PICK n \in Name, i \in Id \cup {NoId} :
          i = ids[t.space][n] /\ task' = [task EXCEPT ![p] = [t EXCEPT !.at = "store",
                                                                   !.name = n, !.id = i]]
  <2>1. CASE t.op = "name"
    <3>1. t.name \in Name /\ ids[t.space][t.name] \in Id \cup {NoId}
      BY <1>1, <2>1 DEF IInv, TypeOK
    <3>2. task' = [task EXCEPT ![p] = [t EXCEPT !.at = "store", !.id = ids[t.space][t.name]]]
      BY <2>1 DEF Answered, Becomes
    <3>3. [t EXCEPT !.at = "store", !.id = ids[t.space][t.name]]
             = [t EXCEPT !.at = "store", !.name = t.name, !.id = ids[t.space][t.name]]
      BY <1>1 DEF Task
    <3> QED
      BY <3>1, <3>2, <3>3
  <2>2. CASE t.op = "id"
    <3>1. PICK n \in Name : ids[t.space][n] = t.id
                            /\ task' = [task EXCEPT ![p] = [t EXCEPT !.at = "store", !.name = n]]
      BY <2>2 DEF Answered, Becomes
    <3>2. [t EXCEPT !.at = "store", !.name = n]
             = [t EXCEPT !.at = "store", !.name = n, !.id = t.id]
      BY <1>1 DEF Task
    <3>3. t.id \in Id
      BY <1>1, <2>2 DEF IInv, TypeOK
    <3> QED
      BY <3>1, <3>2, <3>3
  <2> QED
    BY <2>1, <2>2 DEF Answered
<1> DEFINE u == [t EXCEPT !.at = "store", !.name = n, !.id = i]
<1>3. /\ u \in Task /\ u.at = "store" /\ u.name = n /\ u.id = i /\ u.space = t.space
      /\ u.op = t.op
  BY <1>1 DEF Task
<1>4. /\ task' \in [Proc -> Task] /\ task'[p] = u
      /\ \A q \in Proc \ {p} : task'[q] = task[q]
  BY <1>2, <1>3 DEF IInv, TypeOK
<1> HIDE DEF u
<1>5. TypeOK'
  BY <1>1, <1>3, <1>4 DEF IInv, TypeOK
<1>6. ASSUME NEW s \in Space, NEW m \in Name
      PROVE  Pending(s, m)' \/ <<s, m>> \in stale' \/ Current(s, m)'
  <2>1. Pending(s, m) => Pending(s, m)'
    BY <1>1, <1>4 DEF Pending
  <2>2. Current(s, m) => Current(s, m)'
    BY <1>1, <1>2, <1>3, <1>4 DEF Current
  <2> QED
    BY <1>1, <2>1, <2>2 DEF IInv
<1>7. ASSUME NEW s \in Space, NEW j \in Id PROVE Agree(s, j)'
  BY <1>1 DEF IInv, Agree
<1> QED
  BY <1>5, <1>6, <1>7 DEF IInv

\* A stored answer is as right as the task that held it, and goes to both
\* directions of the cache at once.
LEMMA StoreStep == ASSUME IInv, NEW p \in Proc, Store(p) PROVE IInv'
<1> DEFINE t == task[p]
<1>1. /\ t \in Task /\ t.space \in Space /\ t.at = "store" /\ t.name \in Name
      /\ t.id \in Id \cup {NoId}
      /\ UNCHANGED <<ids, changes, stale>>
      /\ raced \subseteq raced' /\ raced' \subseteq Space \X Name
  BY DEF IInv, TypeOK, Task, Store
<1>2. /\ task' \in [Proc -> Task] /\ task'[p].at = "idle"
      /\ \A q \in Proc \ {p} : task'[q] = task[q]
  <2>1. Idle \in Task /\ Idle.at = "idle"
    BY DEF Idle, Task, Space
  <2> QED
    BY <2>1 DEF IInv, TypeOK, Store, Becomes
<1>3. /\ entry' \in [Space -> [Name -> Id \cup {NoId, Unknown}]]
      /\ entry'[t.space][t.name] = t.id
      /\ \A s \in Space, n \in Name :
            entry'[s][n] # entry[s][n] => s = t.space /\ n = t.name
  BY <1>1 DEF IInv, TypeOK, Store
<1>4. /\ nameOf' \in [Space -> [Id -> Name \cup {NoName}]]
      /\ \A s \in Space, i \in Id :
            nameOf'[s][i] # nameOf[s][i] => s = t.space /\ i = t.id /\ nameOf'[s][i] = t.name
  <2>1. CASE t.id = NoId
    BY <1>1, <2>1 DEF IInv, TypeOK, Store
  <2>2. CASE t.id \in Id
    BY <1>1, <2>2, NotValues DEF IInv, TypeOK, Store
  <2> QED
    BY <1>1, <2>1, <2>2
<1>5. TypeOK'
  BY <1>1, <1>2, <1>3, <1>4 DEF IInv, TypeOK
<1>6. ASSUME NEW s \in Space, NEW n \in Name
      PROVE  Pending(s, n)' \/ <<s, n>> \in stale' \/ Current(s, n)'
  <2>1. Pending(s, n) => Pending(s, n)'
    BY <1>1, <1>2 DEF Pending
  <2>2. Current(s, n) => Current(s, n)'
    BY <1>1, <1>2, <1>3 DEF Current
  <2> QED
    BY <1>1, <2>1, <2>2 DEF IInv
<1>7. ASSUME NEW s \in Space, NEW i \in Id PROVE Agree(s, i)'
  <2> DEFINE n == nameOf'[s][i]
  <2>1. CASE n # nameOf[s][i]
    BY <1>3, <1>4, <2>1 DEF Agree
  <2>2. CASE n = nameOf[s][i] /\ n # NoName /\ <<s, n>> \notin raced'
    <3>1. n \in Name /\ entry[s][n] = i
      BY <1>1, <1>4, <2>2 DEF IInv, Agree
    <3>2. CASE s = t.space /\ n = t.name
      <4>1. entry[t.space][t.name] = i /\ raced' = IF i \in Id \ {t.id}
                THEN raced \cup {<<t.space, t.name>>} ELSE raced
        BY <3>1, <3>2 DEF Store
      <4>2. i = t.id
        BY <2>2, <3>2, <4>1
      <4> QED
        BY <1>3, <3>2, <4>2 DEF Agree
    <3>3. CASE ~(s = t.space /\ n = t.name)
      BY <1>3, <3>1, <3>3 DEF Agree
    <3> QED
      BY <3>2, <3>3
  <2> QED
    BY <2>1, <2>2 DEF Agree
<1> QED
  BY <1>5, <1>6, <1>7 DEF IInv

\* A change that took effect makes the names it touched pending.
LEMMA ChangedStep == ASSUME IInv, NEW p \in Proc, Changed(p) PROVE IInv'
<1> DEFINE t == task[p]  D == Drops(t)
<1>1. /\ t \in Task /\ t.at = "ask" /\ Effect(t, ids') /\ changes' = changes + 1
      /\ UNCHANGED <<entry, nameOf, stale, raced>>
  BY DEF IInv, TypeOK, Changed
<1>2. /\ ids' \in [Space -> Accounts] /\ t.name \in Name
      /\ \A s \in Space, m \in Name : ids'[s][m] # ids[s][m] => m = t.name /\ s \in D
      /\ D \subseteq Space /\ D # {}
  BY <1>1, EffectIsDropped DEF IInv
<1> DEFINE u == [t EXCEPT !.at = "drop", !.drops = D]
<1>3. u \in Task /\ u.at = "drop" /\ u.name = t.name /\ u.drops = D
  BY <1>1, <1>2 DEF Task
<1>4. /\ task' \in [Proc -> Task] /\ task'[p] = u
      /\ \A q \in Proc \ {p} : task'[q] = task[q]
  BY <1>3 DEF IInv, TypeOK, Changed, Becomes
<1> HIDE DEF u, D
<1>5. TypeOK'
  BY <1>1, <1>2, <1>3, <1>4 DEF IInv, TypeOK
<1>6. ASSUME NEW s \in Space, NEW n \in Name
      PROVE  Pending(s, n)' \/ <<s, n>> \in stale' \/ Current(s, n)'
  <2>1. CASE n = t.name /\ s \in D
    BY <1>3, <1>4, <2>1 DEF Pending
  <2>2. CASE ids'[s][n] = ids[s][n]
    <3>1. Pending(s, n) => Pending(s, n)'
      BY <1>1, <1>4 DEF Pending
    <3>2. Current(s, n) => Current(s, n)'
      BY <1>1, <1>3, <1>4, <2>2 DEF Current
    <3> QED
      BY <1>1, <3>1, <3>2 DEF IInv
  <2> QED
    BY <1>2, <2>1, <2>2
<1>7. ASSUME NEW s \in Space, NEW i \in Id PROVE Agree(s, i)'
  BY <1>1 DEF IInv, Agree
<1> QED
  BY <1>5, <1>6, <1>7 DEF IInv

\* A change whose answer is lost makes them stale.
LEMMA ChangeLostStep == ASSUME IInv, NEW p \in Proc, ChangeLost(p) PROVE IInv'
<1> DEFINE t == task[p]  seen == {<<s, t.name>> : s \in {"user", "group"}}
<1>1. /\ t \in Task /\ t.at = "ask" /\ Effect(t, ids') /\ changes' = changes + 1
      /\ UNCHANGED <<entry, nameOf>>
      /\ stale' = stale \cup seen /\ raced' = raced \cup seen
  BY DEF IInv, TypeOK, ChangeLost
<1>2. /\ ids' \in [Space -> Accounts] /\ t.name \in Name
      /\ \A s \in Space, m \in Name : ids'[s][m] # ids[s][m] => m = t.name
  BY <1>1, EffectIsDropped DEF IInv
<1>3. /\ task' \in [Proc -> Task] /\ task'[p].at = "idle"
      /\ \A q \in Proc \ {p} : task'[q] = task[q]
  <2>1. Idle \in Task /\ Idle.at = "idle"
    BY DEF Idle, Task, Space
  <2> QED
    BY <2>1 DEF IInv, TypeOK, ChangeLost, Becomes
<1>4. seen \subseteq Space \X Name
  BY <1>2 DEF Space
<1>5. \A s \in Space : <<s, t.name>> \in seen
  BY DEF Space
<1> HIDE DEF seen
<1>6. TypeOK'
  <2>1. /\ stale' \subseteq raced' /\ raced' \subseteq Space \X Name /\ changes' \in Nat
    BY <1>1, <1>4 DEF IInv, TypeOK
  <2>2. ASSUME NEW q \in Proc
        PROVE  /\ task'[q].at = "ask" /\ task'[q].op = "id" => task'[q].id \in Id
               /\ task'[q].at = "idle" \/ (task'[q].at = "ask" /\ task'[q].op = "id")
                     \/ task'[q].name \in Name
               /\ task'[q].at = "drop" => task'[q].drops # {}
    BY <1>3, <2>2 DEF IInv, TypeOK
  <2> QED
    BY <1>1, <1>2, <1>3, <2>1, <2>2 DEF IInv, TypeOK
<1>7. ASSUME NEW s \in Space, NEW n \in Name
      PROVE  Pending(s, n)' \/ <<s, n>> \in stale' \/ Current(s, n)'
  <2>1. CASE n = t.name
    BY <1>1, <1>5, <2>1
  <2>2. CASE n # t.name
    <3>1. Pending(s, n) => Pending(s, n)'
      BY <1>1, <1>3 DEF Pending
    <3>2. Current(s, n) => Current(s, n)'
      BY <1>1, <1>2, <1>3, <2>2 DEF Current
    <3> QED
      BY <1>1, <3>1, <3>2 DEF IInv
  <2> QED
    BY <2>1, <2>2
<1>8. ASSUME NEW s \in Space, NEW i \in Id PROVE Agree(s, i)'
  BY <1>1 DEF IInv, Agree
<1> QED
  BY <1>6, <1>7, <1>8 DEF IInv

\* An invalidation leaves no entry; what is still under way is current or late.
LEMMA InvalidateStep ==
    ASSUME IInv, NEW p \in Proc, NEW s \in Space, Invalidate(p, s)
    PROVE  IInv'
<1> DEFINE t == task[p]  n == t.name  left == t.drops \ {s}
<1>1. /\ t \in Task /\ t.at = "drop" /\ s \in t.drops /\ n \in Name /\ t.drops \subseteq Space
      /\ UNCHANGED <<ids, changes>>
  BY DEF IInv, TypeOK, Task, Invalidate
<1>2. /\ task' \in [Proc -> Task]
      /\ \A q \in Proc \ {p} : task'[q] = task[q]
      /\ left = {} => task'[p].at = "idle"
      /\ left # {} => task'[p] = [t EXCEPT !.drops = left]
  <2>1. Idle \in Task /\ Idle.at = "idle"
    BY DEF Idle, Task, Space
  <2>2. [t EXCEPT !.drops = left] \in Task
    BY <1>1 DEF Task
  <2> QED
    BY <2>1, <2>2 DEF IInv, TypeOK, Invalidate, Becomes
<1>3. left # {} => /\ task'[p].at = "drop" /\ task'[p].name = n /\ task'[p].drops = left
                   /\ task'[p].op = t.op
  BY <1>1, <1>2 DEF Task
<1>4. /\ entry' \in [Space -> [Name -> Id \cup {NoId, Unknown}]]
      /\ entry'[s][n] = Unknown
      /\ \A x \in Space, m \in Name : entry'[x][m] # entry[x][m] => x = s /\ m = n
  BY <1>1 DEF IInv, TypeOK, Invalidate
<1>5. /\ nameOf' \in [Space -> [Id -> Name \cup {NoName}]]
      /\ \A x \in Space, i \in Id :
            \/ nameOf'[x][i] = NoName
            \/ nameOf'[x][i] = nameOf[x][i] /\ ~(x = s /\ i = entry[s][n])
  <2>1. CASE entry[s][n] \in Id
    BY <1>1, <2>1 DEF IInv, TypeOK, Invalidate, ReverseDropped
  <2>2. CASE entry[s][n] \notin Id
    BY <1>1, <2>2 DEF IInv, TypeOK, Invalidate, ReverseDropped
  <2> QED
    BY <2>1, <2>2
<1>6. /\ raced \subseteq raced' /\ stale' \subseteq raced' /\ raced' \subseteq Space \X Name
      /\ \A x \in Space, m \in Name :
            ~(x = s /\ m = n) => (<<x, m>> \in stale' <=> <<x, m>> \in stale)
      /\ Late(p, s, n) => <<s, n>> \in stale'
  BY <1>1 DEF IInv, TypeOK, Invalidate
<1>7. TypeOK'
  <2>1. ASSUME NEW q \in Proc
        PROVE  /\ task'[q].at = "ask" /\ task'[q].op = "id" => task'[q].id \in Id
               /\ task'[q].at = "idle" \/ (task'[q].at = "ask" /\ task'[q].op = "id")
                     \/ task'[q].name \in Name
               /\ task'[q].at = "drop" => task'[q].drops # {}
    BY <1>1, <1>2, <1>3, <2>1 DEF IInv, TypeOK
  <2> QED
    BY <1>1, <1>2, <1>4, <1>5, <1>6, <2>1 DEF IInv, TypeOK
<1>8. ASSUME NEW x \in Space, NEW m \in Name
      PROVE  Pending(x, m)' \/ <<x, m>> \in stale' \/ Current(x, m)'
  <2>1. CASE x = s /\ m = n
    <3>1. CASE Late(p, s, n)
      BY <1>6, <2>1, <3>1
    <3>2. CASE ~Late(p, s, n)
      <4>1. \A q \in Proc : task'[q].at = "store" /\ task'[q].space = s /\ task'[q].name = n
                             => task'[q].id = ids[s][n]
        BY <1>1, <1>2, <1>3, <3>2 DEF Late
      <4> QED
        BY <1>1, <1>4, <2>1, <4>1 DEF Current
    <3> QED
      BY <3>1, <3>2
  <2>2. CASE ~(x = s /\ m = n)
    <3>1. ASSUME Pending(x, m) PROVE Pending(x, m)'
      <4>1. PICK q \in Proc : task[q].at = "drop" /\ x \in task[q].drops /\ task[q].name = m
        BY <3>1 DEF Pending
      <4>2. CASE q # p
        BY <1>2, <4>1, <4>2 DEF Pending
      <4>3. CASE q = p
        BY <1>2, <1>3, <2>2, <4>1, <4>3 DEF Pending
      <4> QED
        BY <4>2, <4>3
    <3>2. Current(x, m) => Current(x, m)'
      BY <1>1, <1>2, <1>3, <1>4, <2>2 DEF Current
    <3> QED
      BY <1>6, <2>2, <3>1, <3>2 DEF IInv
  <2> QED
    BY <2>1, <2>2
<1>9. ASSUME NEW x \in Space, NEW i \in Id PROVE Agree(x, i)'
  <2> DEFINE m == nameOf'[x][i]
  <2>1. CASE m = NoName
    BY <2>1 DEF Agree
  <2>2. CASE m # NoName /\ <<x, m>> \notin raced'
    <3>1. m = nameOf[x][i] /\ ~(x = s /\ i = entry[s][n]) /\ m \in Name
      BY <1>5, <2>2
    <3>2. entry[x][m] = i
      BY <1>6, <2>2, <3>1 DEF IInv, Agree
    <3>3. ~(x = s /\ m = n)
      BY <3>1, <3>2
    <3> QED
      BY <1>4, <3>1, <3>2, <3>3 DEF Agree
  <2> QED
    BY <2>1, <2>2 DEF Agree
<1> QED
  BY <1>7, <1>8, <1>9 DEF IInv

\* Every step keeps the invariant.
LEMMA NextInv == IInv /\ [Next]_vars => IInv'
<1> SUFFICES ASSUME IInv, [Next]_vars PROVE IInv'
  OBVIOUS
<1>1. Idle \in Task /\ Idle.at = "idle"
  BY DEF Idle, Task, Space
<1>2. ASSUME NEW p \in Proc, NEW s \in Space, NEW n \in Name, LookUpName(p, s, n) PROVE IInv'
  <2> DEFINE u == [Idle EXCEPT !.at = "ask", !.space = s, !.name = n]
  <2>1. u \in Task /\ u.at = "ask" /\ u.op = "name" /\ u.name = n
    BY DEF Idle, Task, Space
  <2> QED
    BY <1>2, <2>1, QuietStep DEF LookUpName
<1>3. ASSUME NEW p \in Proc, NEW s \in Space, NEW i \in Id, LookUpId(p, s, i) PROVE IInv'
  <2> DEFINE u == [Idle EXCEPT !.at = "ask", !.op = "id", !.space = s, !.id = i]
  <2>1. u \in Task /\ u.at = "ask" /\ u.op = "id" /\ u.id = i
    BY DEF Idle, Task, Space
  <2> QED
    BY <1>3, <2>1, QuietStep DEF LookUpId
<1>4. ASSUME NEW p \in Proc, NEW s \in Space, NEW n \in Name,
             NEW op \in {"create", "delete", "modify"}, BeginChange(p, op, s, n)
      PROVE  IInv'
  <2> DEFINE u == [Idle EXCEPT !.at = "ask", !.op = op, !.space = s, !.name = n]
  <2>1. u \in Task /\ u.at = "ask" /\ u.op # "id" /\ u.name = n
    BY DEF Idle, Task, Space
  <2> QED
    BY <1>4, <2>1, QuietStep DEF BeginChange
<1>5. ASSUME NEW p \in Proc, AskFails(p) PROVE IInv'
  BY <1>1, <1>5, QuietStep DEF AskFails
<1>6. CASE UNCHANGED vars
  BY <1>6 DEF vars, IInv, TypeOK, Pending, Current, Agree
<1> QED
  BY <1>2, <1>3, <1>4, <1>5, <1>6, AnsweredStep, StoreStep, ChangedStep, ChangeLostStep,
     InvalidateStep DEF Next

\* The invariant holds in every reachable state: what identity.Cache says is
\* right but for what the histories record.
THEOREM IInvHolds == Spec => []IInv
  BY InitInv, NextInv, PTL DEF Spec

\* The cache and the tasks of the goroutines are always well formed: an answer
\* is stored under a name, a change names what it drops.
THEOREM TypeCorrect == Spec => []TypeOK
<1>1. IInv => TypeOK
  BY DEF IInv
<1> QED
  BY <1>1, IInvHolds, PTL

\* What the cache says of a name is so while no change of it is under way,
\* unless a lookup stored its answer late or a change's answer was lost.
THEOREM Honest == Spec => []StaysHonest
<1>1. IInv => StaysHonest
  BY DEF IInv, StaysHonest, Current
<1> QED
  BY <1>1, IInvHolds, PTL

\* What it says of a number is so under the same conditions, for good where an
\* answer was ever stored over another.
THEOREM NumbersHonest == Spec => []NumbersStayHonest
<1>1. ASSUME IInv PROVE NumbersStayHonest
  <2> SUFFICES ASSUME NEW s \in Space, NEW i \in Id, nameOf[s][i] # NoName,
                      <<s, nameOf[s][i]>> \notin raced, ~Pending(s, nameOf[s][i])
               PROVE  ids[s][nameOf[s][i]] = i
    BY DEF NumbersStayHonest
  <2>1. nameOf[s][i] \in Name /\ entry[s][nameOf[s][i]] = i
    BY <1>1 DEF IInv, TypeOK, Agree
  <2>2. Current(s, nameOf[s][i])
    BY <1>1, <2>1 DEF IInv, TypeOK
  <2> QED
    BY <2>1, <2>2, NotValues DEF Current
<1> QED
  BY <1>1, IInvHolds, PTL

\* Names and numbers are answered truly unless the histories explain it.
THEOREM HonestHolds == Spec => []CacheIsHonest
<1>1. StaysHonest /\ NumbersStayHonest => CacheIsHonest
  BY DEF CacheIsHonest
<1> QED
  BY <1>1, Honest, NumbersHonest, PTL
=============================================================================

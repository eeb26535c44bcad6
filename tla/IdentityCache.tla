---------------------------- MODULE IdentityCache ----------------------------
(***************************************************************************)
(* The cache of user and group numbers a target keeps                      *)
(* (internal/target/identity), with the lookups that fill it               *)
(* (internal/target/ssh/target.go) and the account changes that drop its   *)
(* entries (internal/target/posix/user.go).                                *)
(*                                                                         *)
(* The steps of a deploy call all of these concurrently.  A lookup asks    *)
(* the cache, on a miss the target, and stores the answer; a change runs   *)
(* its command on the target and then drops what the cache says of the     *)
(* name.  Each access to the cache is atomic, the whole is not.  Accounts  *)
(* are changed by nobody else, as the cache assumes.                       *)
(***************************************************************************)
EXTENDS Naturals

CONSTANTS
    Name, Id,           \* of users and of groups
    NoId, NoName,       \* what is not there
    Unknown,            \* what the cache has no entry for
    Proc,               \* the goroutines that use the target
    MaxChanges          \* a bound: the changes that take effect

ASSUME NotValues == /\ NoId \notin Id /\ Unknown \notin Id \cup {NoId}
                    /\ NoName \notin Name

Space == {"user", "group"}

VARIABLES
    ids,        \* the accounts of the target: the number of each name
    entry,      \* users and groups of the cache: a number, NoId, or Unknown
    nameOf,     \* userByID and grpByID of the cache
    task,       \* what each goroutine is about
    stale,      \* history: the <<space, name>> with an entry that a late
                \* lookup or a lost answer may have made wrong
    changes,    \* that took effect, bounded
    raced       \* history: those, and those with an entry stored over another

vars == <<ids, entry, nameOf, task, changes, stale, raced>>

\* A task asks the target, stores its answer, or drops entries of the spaces in
\* "drops".  A change has taken effect on the target when it comes to drop.
Idle == [at |-> "idle", op |-> "name", space |-> "user", name |-> NoName, id |-> NoId,
         drops |-> {}]

Task == [at: {"idle", "ask", "store", "drop"},
         op: {"name", "id", "create", "delete", "modify"}, space: Space,
         name: Name \cup {NoName}, id: Id \cup {NoId}, drops: SUBSET Space]

\* The accounts are what they are when scampi starts: no number has two names.
Accounts == {a \in [Name -> Id \cup {NoId}] :
                \A m, n \in Name : a[m] = a[n] /\ a[m] # NoId => m = n}

Init ==
    /\ ids \in [Space -> Accounts]
    /\ entry = [s \in Space |-> [n \in Name |-> Unknown]]
    /\ nameOf = [s \in Space |-> [i \in Id |-> NoName]]
    /\ task = [p \in Proc |-> Idle]
    /\ changes = 0
    /\ stale = {} /\ raced = {}

Becomes(p, t) == task' = [task EXCEPT ![p] = t]

-----------------------------------------------------------------------------
(***************************************************************************)
(* resolveUser, resolveGroup; resolveUID, resolveGID.                      *)
(***************************************************************************)

\* A hit is returned at once.
LookUpName(p, s, n) ==
    /\ task[p].at = "idle"
    /\ entry[s][n] = Unknown
    /\ Becomes(p, [Idle EXCEPT !.at = "ask", !.space = s, !.name = n])
    /\ UNCHANGED <<ids, entry, nameOf, changes, stale, raced>>

LookUpId(p, s, i) ==
    /\ task[p].at = "idle"
    /\ nameOf[s][i] = NoName
    /\ Becomes(p, [Idle EXCEPT !.at = "ask", !.op = "id", !.space = s, !.id = i])
    /\ UNCHANGED <<ids, entry, nameOf, changes, stale, raced>>

BugStoresEmpty(p) ==
    LET t == task[p]
    IN /\ t.at = "ask" /\ t.op \in {"name", "id"}
       /\ IF t.op = "name" THEN Becomes(p, [t EXCEPT !.at = "store", !.id = ids[t.space][t.name]])
          ELSE \E n \in Name \cup {NoName} :
                  /\ n = NoName \/ ids[t.space][n] = t.id
                  /\ Becomes(p, [t EXCEPT !.at = "store", !.name = n])
       /\ UNCHANGED <<ids, entry, nameOf, changes, stale, raced>>

\* The command answers.  That a number has no name is not stored.
Answered(p) ==
    LET t == task[p]
    IN /\ t.at = "ask"
       /\ \/ /\ t.op = "name"
             /\ Becomes(p, [t EXCEPT !.at = "store", !.id = ids[t.space][t.name]])
          \/ /\ t.op = "id"
             /\ \E n \in Name :
                   /\ ids[t.space][n] = t.id
                   /\ Becomes(p, [t EXCEPT !.at = "store", !.name = n])
       /\ UNCHANGED <<ids, entry, nameOf, changes, stale, raced>>

\* It fails, or has nothing to say: nothing is stored, nothing was changed.
AskFails(p) ==
    /\ task[p].at = "ask"
    /\ Becomes(p, Idle)
    /\ UNCHANGED <<ids, entry, nameOf, changes, stale, raced>>

\* SetUser and SetGroup, MarkUserAbsent and MarkGroupAbsent.  The number that
\* an entry had before keeps its name.
Store(p) ==
    LET t == task[p]
        was == entry[t.space][t.name]
    IN /\ t.at = "store"
       /\ entry' = [entry EXCEPT ![t.space][t.name] = t.id]
       /\ nameOf' = IF t.id = NoId THEN nameOf
                    ELSE [nameOf EXCEPT ![t.space][t.id] = t.name]
       /\ Becomes(p, Idle)
       /\ raced' = IF was \in Id \ {t.id} THEN raced \cup {<<t.space, t.name>>} ELSE raced
       /\ UNCHANGED <<ids, changes, stale>>

-----------------------------------------------------------------------------
(***************************************************************************)
(* CreateUser, ModifyUser, DeleteUser, CreateGroup, DeleteGroup.           *)
(***************************************************************************)

BeginChange(p, op, s, n) ==
    /\ task[p].at = "idle"
    /\ op = "modify" => s = "user"
    /\ Becomes(p, [Idle EXCEPT !.at = "ask", !.op = op, !.space = s, !.name = n])
    /\ UNCHANGED <<ids, entry, nameOf, changes, stale, raced>>

Free(s, i) == \A n \in Name : ids[s][n] # i

\* The accounts after the command.  On many systems useradd makes a group of
\* the same name and userdel removes it.
Effect(t, after) ==
    LET s == t.space
        n == t.name
        WithGroup(a) ==
            \/ s = "user" /\ \E i \in Id :
                  Free("group", i) /\ ids["group"][n] = NoId /\ after = [a EXCEPT !["group"][n] = i]
            \/ after = a
    IN CASE t.op = "create" ->
              /\ ids[s][n] = NoId
              /\ \E i \in Id : Free(s, i) /\ WithGroup([ids EXCEPT ![s][n] = i])
         [] t.op = "delete" ->
              /\ ids[s][n] # NoId
              /\ \/ after = [ids EXCEPT ![s][n] = NoId]
                 \/ s = "user" /\ after = [ids EXCEPT ![s][n] = NoId, !["group"][n] = NoId]
         [] t.op = "modify" -> ids[s][n] # NoId /\ after = ids
         [] OTHER -> FALSE

BugGroupKept(t) == {t.space}

\* The invalidations of a change.
Drops(t) == IF t.space = "user" /\ t.op # "modify" THEN {"user", "group"} ELSE {t.space}

\* The command is done; its entries are to be dropped.
Changed(p) ==
    /\ task[p].at = "ask" /\ changes < MaxChanges
    /\ Effect(task[p], ids')
    /\ Becomes(p, [task[p] EXCEPT !.at = "drop", !.drops = Drops(task[p])])
    /\ changes' = changes + 1
    /\ UNCHANGED <<entry, nameOf, stale, raced>>

\* The command is done and its answer lost: nothing is dropped.
ChangeLost(p) ==
    LET seen == {<<s, task[p].name>> : s \in {"user", "group"}}
    IN /\ task[p].at = "ask" /\ changes < MaxChanges
       /\ Effect(task[p], ids')
       /\ Becomes(p, Idle)
       /\ stale' = stale \cup seen
       /\ raced' = raced \cup seen
       /\ changes' = changes + 1
       /\ UNCHANGED <<entry, nameOf>>

\* Another goroutine holds an answer about the name that is out of date.
Late(p, s, n) == \E q \in Proc \ {p} :
    task[q].at = "store" /\ task[q].space = s /\ task[q].name = n /\ task[q].id # ids[s][n]

BugForwardOnly(s, n) == nameOf

\* The other direction goes by the number that the entry has.
ReverseDropped(s, n) ==
    IF entry[s][n] \in Id THEN [nameOf EXCEPT ![s][entry[s][n]] = NoName] ELSE nameOf

\* InvalidateUser, then InvalidateGroup.
Invalidate(p, s) ==
    LET n == task[p].name
        left == task[p].drops \ {s}
        late == IF Late(p, s, n) THEN {<<s, n>>} ELSE {}
    IN /\ task[p].at = "drop" /\ s \in task[p].drops
       /\ s = "group" => "user" \notin task[p].drops
       /\ entry' = [entry EXCEPT ![s][n] = Unknown]
       /\ nameOf' = ReverseDropped(s, n)
       /\ Becomes(p, IF left = {} THEN Idle ELSE [task[p] EXCEPT !.drops = left])
       /\ stale' = (stale \ {<<s, n>>}) \cup late
       /\ raced' = raced \cup late
       /\ UNCHANGED <<ids, changes>>

-----------------------------------------------------------------------------

Next ==
    \E p \in Proc :
        \/ \E s \in Space :
              \/ \E n \in Name :
                    \/ LookUpName(p, s, n)
                    \/ \E op \in {"create", "delete", "modify"} : BeginChange(p, op, s, n)
              \/ \E i \in Id : LookUpId(p, s, i)
              \/ Invalidate(p, s)
        \/ Answered(p) \/ AskFails(p) \/ Store(p)
        \/ Changed(p) \/ ChangeLost(p)

Spec == Init /\ [][Next]_vars

-----------------------------------------------------------------------------

TypeOK ==
    /\ ids \in [Space -> Accounts]
    /\ entry \in [Space -> [Name -> Id \cup {NoId, Unknown}]]
    /\ nameOf \in [Space -> [Id -> Name \cup {NoName}]]
    /\ task \in [Proc -> Task]
    /\ \A p \in Proc :
          /\ task[p].at = "ask" /\ task[p].op = "id" => task[p].id \in Id
          /\ task[p].at = "idle" \/ (task[p].at = "ask" /\ task[p].op = "id")
                \/ task[p].name \in Name
          /\ task[p].at = "drop" => task[p].drops # {}
    /\ changes \in Nat
    /\ stale \subseteq raced /\ raced \subseteq Space \X Name

\* A change of n has taken effect and not yet dropped the entry.
Pending(s, n) == \E p \in Proc :
    task[p].at = "drop" /\ s \in task[p].drops /\ task[p].name = n

\* cache.go: "so the cache stays honest": what the cache says of a name is so,
\* while no change of the name is under way, unless a lookup that was under way
\* stored its answer after the change had dropped the entry, or the answer of
\* the change was lost.
StaysHonest ==
    \A s \in Space, n \in Name :
        Pending(s, n) \/ <<s, n>> \in stale \/ entry[s][n] \in {Unknown, ids[s][n]}

\* The same of what it says of a number, but that a wrong answer may outlive
\* the next change: an answer stored over another one, as by MarkUserAbsent
\* between a change's command and its invalidation, leaves the other direction
\* as it was, and the invalidation finds it only by the number of the entry.
NumbersStayHonest ==
    \A s \in Space, i \in Id :
        LET n == nameOf[s][i]
        IN n = NoName \/ Pending(s, n) \/ <<s, n>> \in raced \/ ids[s][n] = i

\* Both directions of the cache say what is so, up to answers that were late or
\* lost (cache.go).
CacheIsHonest == StaysHonest /\ NumbersStayHonest

-----------------------------------------------------------------------------
(***************************************************************************)
(* The inductive invariant: what the cache says, and what a lookup under   *)
(* way is about to store.                                                  *)
(***************************************************************************)

\* Neither the entry of n nor an answer about n is out of date.
Current(s, n) ==
    /\ entry[s][n] \in {Unknown, ids[s][n]}
    /\ \A p \in Proc : task[p].at = "store" /\ task[p].space = s /\ task[p].name = n
                      => task[p].id = ids[s][n]

\* The two directions of the cache agree.
Agree(s, i) == LET n == nameOf[s][i]
               IN n = NoName \/ <<s, n>> \in raced \/ entry[s][n] = i

\* What a lookup or a change under way may come to, while the two directions of
\* the cache agree and only a change under way or a recorded late answer makes
\* a name out of date.
IInv ==
    /\ TypeOK
    /\ \A s \in Space, n \in Name : Pending(s, n) \/ <<s, n>> \in stale \/ Current(s, n)
    /\ \A s \in Space, i \in Id : Agree(s, i)
=============================================================================

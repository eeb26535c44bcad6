------------------------------ MODULE ShellPool ------------------------------
(***************************************************************************)
(* The shell sessions an ssh target runs its commands in: shellPool of     *)
(* internal/target/ssh/shell_pool.go with shellSession.run of              *)
(* shell_session.go.                                                       *)
(*                                                                         *)
(* A command (SSHTarget.RunCommand) takes a token of sem, then an idle     *)
(* session of free or a new one, runs, and gives both back.  Beside the    *)
(* run a watcher goroutine waits for the end of the read or of the op's    *)
(* context; on the latter it marks the session unsafe and closes it, which *)
(* fails the blocked read.  The op's context is done at the latest when    *)
(* its timeout expires, and at the earliest before the command asks for a  *)
(* session.                                                                *)
(***************************************************************************)
EXTENDS Naturals, Sequences, FiniteSets

CONSTANTS
    Caller,     \* one command each
    Session,    \* the identities a session may get when it is opened
    NoSession,
    Max,        \* capacity: MaxSessions
    MaxTries    \* the opens of one command that fit in MaxElapsedTime

ASSUME PoolAssumption ==
    /\ IsFiniteSet(Caller) /\ IsFiniteSet(Session)
    /\ NoSession \notin Session
    /\ Max \in Nat \ {0} /\ MaxTries \in Nat

VARIABLES
    pc,         \* where each command is
    tries,      \* the opens that failed
    sess,       \* the session of a command, kept after its release
    ctxDone,    \* the commands whose context is done
    watch,      \* the watcher goroutine of each command
    sem,        \* the tokens taken
    free,       \* the idle sessions, a channel
    opened,     \* the sessions ever opened
    unsafe,     \* shellSession.unsafe
    dead,       \* the sessions whose ssh channel is closed
    cut,        \* the sessions with a run cut off half-way, a history variable
    closed      \* SSHTarget.Close was called

vars == <<pc, tries, sess, ctxDone, watch, sem, free, opened, unsafe, dead, cut, closed>>

Places == {"idle", "look", "opening", "backoff", "held", "running", "ran",
           "returning", "done"}

TypeOK ==
    /\ pc \in [Caller -> Places]
    /\ tries \in [Caller -> 0 .. MaxTries]
    /\ sess \in [Caller -> Session \cup {NoSession}]
    /\ ctxDone \subseteq Caller
    /\ watch \in [Caller -> {"none", "starting", "blocked", "firing", "closing"}]
    /\ sem \in Nat
    /\ free \in Seq(Session)
    /\ opened \subseteq Session
    /\ unsafe \subseteq opened /\ dead \subseteq opened /\ cut \subseteq opened
    /\ closed \in BOOLEAN

Init ==
    /\ pc = [c \in Caller |-> "idle"]
    /\ tries = [c \in Caller |-> 0]
    /\ sess = [c \in Caller |-> NoSession]
    /\ ctxDone = {}
    /\ watch = [c \in Caller |-> "none"]
    /\ sem = 0
    /\ free = <<>>
    /\ opened = {} /\ unsafe = {} /\ dead = {} /\ cut = {}
    /\ closed = FALSE

At(c, here, next) == pc[c] = here /\ pc' = [pc EXCEPT ![c] = next]

health == <<opened, unsafe, dead, cut>>

-----------------------------------------------------------------------------
(***************************************************************************)
(* acquire                                                                 *)
(***************************************************************************)

Enter(c) ==
    /\ At(c, "idle", "look") /\ sem < Max
    /\ sem' = sem + 1
    /\ UNCHANGED <<tries, sess, ctxDone, watch, free, health, closed>>

EnterCancelled(c) ==
    /\ At(c, "idle", "done") /\ c \in ctxDone
    /\ UNCHANGED <<tries, sess, ctxDone, watch, sem, free, health, closed>>

BugPeeksFree(c) ==
    /\ At(c, "look", "held") \/ At(c, "backoff", "held")
    /\ free # <<>>
    /\ sess' = [sess EXCEPT ![c] = Head(free)]
    /\ UNCHANGED <<tries, ctxDone, watch, sem, free, health, closed>>

\* The oldest idle session, at once or while backing off; its health is not
\* looked at.
TakeFree(c) ==
    /\ At(c, "look", "held") \/ At(c, "backoff", "held")
    /\ free # <<>>
    /\ sess' = [sess EXCEPT ![c] = Head(free)]
    /\ free' = Tail(free)
    /\ UNCHANGED <<tries, ctxDone, watch, sem, health, closed>>

BugOpensFirst(c) ==
    /\ At(c, "look", "opening")
    /\ UNCHANGED <<tries, sess, ctxDone, watch, sem, free, health, closed>>

NoneFree(c) ==
    /\ At(c, "look", "opening") /\ free = <<>>
    /\ UNCHANGED <<tries, sess, ctxDone, watch, sem, free, health, closed>>

OpenSucceeds(c, s) ==
    /\ At(c, "opening", "held") /\ s \notin opened
    /\ opened' = opened \cup {s}
    /\ sess' = [sess EXCEPT ![c] = s]
    /\ UNCHANGED <<tries, ctxDone, watch, sem, free, unsafe, dead, cut, closed>>

BugRetriesForever(c) ==
    /\ At(c, "opening", "backoff")
    /\ tries' = [tries EXCEPT ![c] = @ + 1]
    /\ UNCHANGED <<sess, ctxDone, watch, sem, free, health, closed>>

\* The server refuses the channel, and the backoff has time left.
OpenFails(c) ==
    /\ At(c, "opening", "backoff") /\ tries[c] < MaxTries
    /\ tries' = [tries EXCEPT ![c] = @ + 1]
    /\ UNCHANGED <<sess, ctxDone, watch, sem, free, health, closed>>

\* It refuses, and the time is up.
OpenGivesUp(c) ==
    /\ At(c, "opening", "done")
    /\ sem' = sem - 1
    /\ UNCHANGED <<tries, sess, ctxDone, watch, free, health, closed>>

BackoffElapses(c) ==
    /\ At(c, "backoff", "look")
    /\ UNCHANGED <<tries, sess, ctxDone, watch, sem, free, health, closed>>

BugKeepsToken(c) ==
    /\ At(c, "backoff", "done") /\ c \in ctxDone
    /\ UNCHANGED <<tries, sess, ctxDone, watch, sem, free, health, closed>>

BackoffCancelled(c) ==
    /\ At(c, "backoff", "done") /\ c \in ctxDone
    /\ sem' = sem - 1
    /\ UNCHANGED <<tries, sess, ctxDone, watch, free, health, closed>>

-----------------------------------------------------------------------------
(***************************************************************************)
(* run, and its watcher                                                    *)
(***************************************************************************)

RunRefused(c) ==
    /\ At(c, "held", "ran") /\ sess[c] \in unsafe
    /\ UNCHANGED <<tries, sess, ctxDone, watch, sem, free, health, closed>>

RunStarts(c) ==
    /\ At(c, "held", "running") /\ sess[c] \notin unsafe
    /\ watch' = [watch EXCEPT ![c] = "starting"]
    /\ UNCHANGED <<tries, sess, ctxDone, sem, free, health, closed>>

\* close(doneRead) ends a watcher that waits, and not one that has yet to.
DoneRead(c) == [watch EXCEPT ![c] = IF @ = "blocked" THEN "none" ELSE @]

RunSucceeds(c) ==
    /\ At(c, "running", "ran") /\ sess[c] \notin dead
    /\ watch' = DoneRead(c)
    /\ UNCHANGED <<tries, sess, ctxDone, sem, free, health, closed>>

BugFailureUnmarked(c) ==
    /\ At(c, "running", "ran") /\ sess[c] \in dead
    /\ cut' = cut \cup {sess[c]}
    /\ watch' = DoneRead(c)
    /\ UNCHANGED <<tries, sess, ctxDone, sem, free, opened, unsafe, dead, closed>>

\* A write or a read fails on a session whose channel is closed.
RunFails(c) ==
    /\ At(c, "running", "ran") /\ sess[c] \in dead
    /\ unsafe' = unsafe \cup {sess[c]}
    /\ cut' = cut \cup {sess[c]}
    /\ watch' = DoneRead(c)
    /\ UNCHANGED <<tries, sess, ctxDone, sem, free, opened, dead, closed>>

\* The watcher reaches its select; if both channels are ready it picks either.
WatcherSelects(c, next) ==
    /\ watch[c] = "starting"
    /\ \/ next = "blocked" /\ pc[c] = "running" /\ c \notin ctxDone
       \/ next = "firing"  /\ c \in ctxDone
       \/ next = "none"    /\ pc[c] # "running"
    /\ watch' = [watch EXCEPT ![c] = next]
    /\ UNCHANGED <<pc, tries, sess, ctxDone, sem, free, health, closed>>

WatcherMarks(c) ==
    /\ watch[c] = "firing"
    /\ watch' = [watch EXCEPT ![c] = "closing"]
    /\ unsafe' = unsafe \cup {sess[c]}
    /\ UNCHANGED <<pc, tries, sess, ctxDone, sem, free, opened, dead, cut, closed>>

BugWatcherOnlyMarks(c) ==
    /\ watch[c] = "closing"
    /\ watch' = [watch EXCEPT ![c] = "none"]
    /\ UNCHANGED <<pc, tries, sess, ctxDone, sem, free, health, closed>>

WatcherCloses(c) ==
    /\ watch[c] = "closing"
    /\ watch' = [watch EXCEPT ![c] = "none"]
    /\ dead' = dead \cup {sess[c]}
    /\ UNCHANGED <<pc, tries, sess, ctxDone, sem, free, opened, unsafe, cut, closed>>

-----------------------------------------------------------------------------
(***************************************************************************)
(* release, and Close                                                      *)
(***************************************************************************)

BugDropsUnclosed(c) ==
    /\ At(c, "ran", "returning")
    /\ free' = IF sess[c] \notin unsafe THEN Append(free, sess[c]) ELSE free
    /\ UNCHANGED <<tries, sess, ctxDone, watch, sem, health, closed>>

Release(c) ==
    /\ At(c, "ran", "returning")
    /\ IF sess[c] \notin unsafe /\ Len(free) < Max
       THEN free' = Append(free, sess[c]) /\ UNCHANGED <<unsafe, dead>>
       ELSE /\ unsafe' = unsafe \cup {sess[c]} /\ dead' = dead \cup {sess[c]}
            /\ UNCHANGED free
    /\ UNCHANGED <<tries, sess, ctxDone, watch, sem, opened, cut, closed>>

ReturnToken(c) ==
    /\ At(c, "returning", "done")
    /\ sem' = sem - 1
    /\ UNCHANGED <<tries, sess, ctxDone, watch, free, health, closed>>

\* The op was cancelled, its timeout expired, or it ended.
ContextDone(c) ==
    /\ c \notin ctxDone
    /\ ctxDone' = ctxDone \cup {c}
    /\ watch' = [watch EXCEPT ![c] = IF @ = "blocked" THEN "firing" ELSE @]
    /\ UNCHANGED <<pc, tries, sess, sem, free, health, closed>>

\* The server closes a session on its own.
SessionDies(s) ==
    /\ s \in opened \ dead
    /\ dead' = dead \cup {s}
    /\ UNCHANGED <<pc, tries, sess, ctxDone, watch, sem, free, opened, unsafe, cut, closed>>

AllDone == \A c \in Caller : pc[c] = "done"

\* Engine.Close, deferred until every op has returned: closeAll drains free.
Close ==
    /\ AllDone /\ ~closed
    /\ LET idle == {free[i] : i \in DOMAIN free} IN
       unsafe' = unsafe \cup idle /\ dead' = dead \cup idle
    /\ free' = <<>>
    /\ closed' = TRUE
    /\ UNCHANGED <<pc, tries, sess, ctxDone, watch, sem, opened, cut>>

Finished == closed /\ UNCHANGED vars

Acquire(c) ==
    \/ Enter(c) \/ EnterCancelled(c) \/ TakeFree(c) \/ NoneFree(c)
    \/ \E s \in Session : OpenSucceeds(c, s)
    \/ OpenFails(c) \/ OpenGivesUp(c) \/ BackoffElapses(c) \/ BackoffCancelled(c)

Run(c) == RunRefused(c) \/ RunStarts(c) \/ RunFails(c)

Watcher(c) ==
    \/ \E next \in {"blocked", "firing", "none"} : WatcherSelects(c, next)
    \/ WatcherMarks(c) \/ WatcherCloses(c)

Returns(c) == Release(c) \/ ReturnToken(c)

Next ==
    \/ \E c \in Caller :
          Acquire(c) \/ Run(c) \/ RunSucceeds(c) \/ Watcher(c) \/ Returns(c) \/ ContextDone(c)
    \/ \E s \in Session : SessionDies(s)
    \/ Close
    \/ Finished

(***************************************************************************)
(* A command may hang; its context has a timeout, goroutines run, and the  *)
(* read on a closed channel fails.                                         *)
(***************************************************************************)
Fairness ==
    /\ \A c \in Caller :
          /\ WF_vars(Acquire(c)) /\ WF_vars(Run(c)) /\ WF_vars(Returns(c))
          /\ WF_vars(Watcher(c)) /\ WF_vars(ContextDone(c))
    /\ WF_vars(Close)

Spec == Init /\ [][Next]_vars /\ Fairness

-----------------------------------------------------------------------------
(***************************************************************************)
(* Properties                                                              *)
(***************************************************************************)
Opening == {c \in Caller : pc[c] = "opening"}
InUse   == {c \in Caller : pc[c] \in {"held", "running", "ran"}}

\* No two commands share a session, and an idle one is nobody's: the frames of
\* two commands never mix in one shell.
NoSharing ==
    /\ \A c, d \in InUse : c # d => sess[c] # sess[d]
    /\ \A c \in InUse, i \in DOMAIN free : sess[c] # free[i]
    /\ \A i, j \in DOMAIN free : i # j => free[i] # free[j]

\* internal/target/ssh/shell_pool.go:25: tokens and idle sessions together cap
\* what the server sees: the channels open and those being opened are never
\* more than MaxSessions, although tokens count commands and not sessions.
ServerLimit == Cardinality(opened \ dead) + Cardinality(Opening) <= Max

\* A session whose stream was left half-way through a command's frames never
\* runs another command.
NoRunAfterCutOff == \A c \in Caller : pc[c] = "running" => sess[c] \notin cut

\* The streams of two commands never meet: no session is used by both at once,
\* nor by one after the other was cut off on it (acquire, run, release).
StreamsApart == NoSharing /\ NoRunAfterCutOff

\* No command keeps its token: the pool is as large after any number of
\* refused, cancelled and failed commands as it was before.
TokensReturned == AllDone => sem = 0

\* Every session ever opened is closed by its last command or by Close.
NoSessionLeft == closed => opened \subseteq dead

\* After any number of refused, cancelled and failed commands the pool has all
\* its tokens, and Close leaves no session open (release, closeAll).
NothingLeaks == TokensReturned /\ NoSessionLeft

\* Every command ends: one that hangs is cut off when its context is done.
EveryCommandEnds == <>AllDone

-----------------------------------------------------------------------------
(***************************************************************************)
(* The inductive invariant of ShellPool: how tokens, idle sessions and     *)
(* sessions in use bound one another.  TLC checks it on the same instance  *)
(* as the properties; ShellPoolProofs proves it inductive.                 *)
(***************************************************************************)

\* The commands with a token, and those with a session or about to have one.
Holders == {c \in Caller : pc[c] \in {"look", "opening", "backoff", "held",
                                      "running", "ran", "returning"}}
Using == {c \in Caller : pc[c] \in {"opening", "held", "running", "ran"}}

Idle == {free[i] : i \in DOMAIN free}

\* The tokens taken are those of the commands that hold one.
TokenInv == sem = Cardinality(Holders) /\ sem <= Max

\* A session is opened only when none is idle: the idle ones and those that
\* are used or opened fit in the server's limit together.
RoomInv == Len(free) + Cardinality(Using) <= Max

\* Sessions in use, idle or watched were opened, and belong to one each.
OwnInv ==
    /\ \A c \in Caller : c \in InUse \/ watch[c] # "none" => sess[c] \in opened
    /\ Idle \subseteq opened
    /\ NoSharing

\* No open session is forgotten.
LiveInv == \A s \in opened \ dead : s \in Idle \/ \E c \in InUse : sess[c] = s

\* A session whose stream was cut off is unsafe, and nobody runs on it.
CutInv == cut \subseteq unsafe /\ NoRunAfterCutOff

CloseInv == closed => AllDone /\ opened \subseteq dead

IInv == TypeOK /\ TokenInv /\ RoomInv /\ OwnInv /\ LiveInv /\ CutInv /\ CloseInv
=============================================================================

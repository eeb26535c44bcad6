----------------------------- MODULE HookNotify -----------------------------
(***************************************************************************)
(* What a deploy promises of its hooks, without the queue that keeps the   *)
(* promise: a hook runs when it was notified, once, and the deploy answers *)
(* success only when every notified hook has run.                          *)
(***************************************************************************)
CONSTANT Hook

VARIABLES
    chain,      \* chain[h]: the hooks that h notifies when it changes something
    notified, ran,
    over        \* "no", "success" or "failure"

vars == <<chain, notified, ran, over>>

Init ==
    /\ chain \in [Hook -> SUBSET Hook]
    /\ notified = {} /\ ran = {}
    /\ over = "no"

\* The deploy's steps are through, and the changed ones notify the hooks of S.
Start(S) ==
    /\ over = "no" /\ notified = {}
    /\ notified' = S
    /\ UNCHANGED <<chain, ran, over>>

Run(h) ==
    /\ over = "no" /\ h \in notified \ ran
    /\ ran' = ran \cup {h}
    /\ UNCHANGED <<chain, notified, over>>

\* A hook that changed something notifies all the hooks it names.
Chain(h) ==
    /\ over = "no" /\ h \in ran
    /\ notified' = notified \cup chain[h]
    /\ UNCHANGED <<chain, ran, over>>

Succeed ==
    /\ over = "no" /\ notified = ran
    /\ over' = "success"
    /\ UNCHANGED <<chain, notified, ran>>

Fail ==
    /\ over = "no"
    /\ over' = "failure"
    /\ UNCHANGED <<chain, notified, ran>>

Next ==
    \/ \E S \in SUBSET Hook : Start(S)
    \/ \E h \in Hook : Run(h) \/ Chain(h)
    \/ Succeed
    \/ Fail

Spec == Init /\ [][Next]_vars
=============================================================================

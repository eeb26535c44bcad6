-------------------------------- MODULE Calls --------------------------------
(***************************************************************************)
(* What the code of an op can come to, as a set of outcomes.               *)
(*                                                                         *)
(* Check and Execute of an op talk to the target (and to the controller    *)
(* and to web servers) in a sequence of calls, each of which may fail: the *)
(* connection drops, the op's timeout or an interrupt cancels its context, *)
(* the command is killed.  A call that fails did its work or did not.  An  *)
(* outcome is the value the op ends with and the world it leaves, in which *)
(* "fault" records that some call failed.  An op is written as its calls   *)
(* in the order of the code, each with the rest of the op as its last      *)
(* argument; a function of the code that comes back to its caller ends     *)
(* with "returned".                                                        *)
(***************************************************************************)

\* Names, versions and settings, with the words the code itself puts in.
CONSTANT Value

ASSUME ValueAssumption ==
    {"", "none", "no", "cut", "bad", "v1", "v2", "good", "sh", "default", "locked", "declared",
     "own", "root", "starting", "healthy", "unhealthy", "PATH",
     "0644", "0700", "0755", "0777"} \subseteq Value

\* The op returns res and leaves the world w.
Ends(res, w) == {[res |-> res, w |-> w]}

\* The two ends of a Check, and the usual end of an Execute.
Verdict(so, w) == Ends(IF so THEN "satisfied" ELSE "unsatisfied", w)
Done(w) == Ends("changed", w)

\* The function comes back without an error, and its caller goes on.
Returns(w) == Ends("returned", w)
Then(outcomes, Rest(_)) ==
    {o \in outcomes : o.res # "returned"}
    \cup UNION {Rest(o.w) : o \in {o \in outcomes : o.res = "returned"}}

\* Its caller has something else to do about an error.
ThenOr(outcomes, Rest(_), Failed(_)) ==
    UNION {IF o.res = "returned" THEN Rest(o.w) ELSE Failed(o.w) : o \in outcomes}

WithFault(w, so) == [w EXCEPT !.fault = so]
Faulty(w) == WithFault(w, TRUE)

\* A call failed and the op returns its error.
Lost(w) == Ends("error", Faulty(w))

\* A call that takes w to u; an error of it is returned.
Call(w, u, Rest(_)) == Lost(w) \cup Lost(u) \cup Rest(u)

\* A call that changes nothing.
Ask(w, Rest(_)) == Lost(w) \cup Rest(w)

\* A call whose error is ignored.
Try(w, u, Rest(_)) == Rest(Faulty(w)) \cup Rest(u)

\* A question whose error is taken for the answer "no".
AskOr(w, yes, Yes(_), No(_)) ==
    No(Faulty(w)) \cup (IF yes THEN Yes(w) ELSE No(w))

\* Execute asks again and leaves alone what is as it should be.
Unless(so, w, Do(_)) == Ask(w, LAMBDA u : IF so THEN Ends("unchanged", u) ELSE Do(u))

\* What a deferred clean-up, the set of worlds it may leave, makes of it.
Deferred(outcomes, CleanUp(_)) ==
    UNION {{[o EXCEPT !.w = u] : u \in CleanUp(o.w)} : o \in outcomes}
=============================================================================

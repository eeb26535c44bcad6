------------------------------ MODULE MCHooks ------------------------------
(* Small instances of Hooks for TLC. *)
EXTENDS Hooks, TLC

CONSTANTS h1, h2, h3

\* Two steps that notify none, one or both of h1 and h2; h1 has two steps, and
\* chains to h2 from its first or to h3 from its second; h2 chains to h3 or
\* to none.
StepChanges == {<<>>, <<h1>>, <<h2, h1>>}

MCConfigs ==
    {[steps |-> <<s, t>>, hooks |-> (h1 :> one @@ h2 :> two @@ h3 :> << <<>> >>)] :
        s \in StepChanges, t \in StepChanges,
        one \in {<< <<h2>>, <<>> >>, << <<>>, <<h3>> >>},
        two \in {<< <<>> >>, << <<h3>> >>}}
=============================================================================

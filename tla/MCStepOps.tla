------------------------------ MODULE MCStepOps ------------------------------
(* Small instances of StepOps for TLC. *)
EXTENDS StepOps

CONSTANTS a, b, c

Edges(e) == [o \in Op |-> {p \in Op : <<p, o>> \in e}]

\* Three ops: none ordered, file-then-owner-and-mode (copy, dir, template),
\* a join, a chain, and a chain with a shortcut.
ThreeOpGraphs ==
    {Edges({}), Edges({<<a, b>>, <<a, c>>}), Edges({<<a, c>>, <<b, c>>}),
     Edges({<<a, b>>, <<b, c>>}), Edges({<<a, b>>, <<b, c>>, <<a, c>>})}
=============================================================================

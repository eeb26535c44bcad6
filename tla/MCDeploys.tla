----------------------------- MODULE MCDeploys -----------------------------
(* Small instances of Deploys for TLC. *)
EXTENDS Deploys, TLC

CONSTANTS realm, vm, hostA, hostB

Decl(ts, p, r) == [targets |-> ts, provides |-> p, requires |-> r]

\* hostB is a machine that a deploy creates: its target requires vm.
Needs == hostA :> {} @@ hostB :> {vm}

\* Blocks that provide or require one thing, a link of a chain, a block on the
\* created machine, and one on both machines.
Kinds ==
    {Decl(<<hostA>>, <<>>, {}), Decl(<<hostA>>, <<vm>>, {}), Decl(<<hostA>>, <<realm>>, {}),
     Decl(<<hostA>>, <<>>, {realm}), Decl(<<hostA>>, <<vm>>, {realm}),
     Decl(<<hostB>>, <<>>, {}), Decl(<<hostB>>, <<realm>>, {}),
     Decl(<<hostA, hostB>>, <<>>, {realm})}

\* Refused: two blocks provide the same, one block provides it twice, two wait for
\* each other, one for itself.
Refused ==
    {<<Decl(<<hostA>>, <<vm>>, {}), Decl(<<hostA>>, <<vm>>, {})>>,
     <<Decl(<<hostA>>, <<vm, vm>>, {}), Decl(<<hostA>>, <<>>, {})>>,
     <<Decl(<<hostA>>, <<vm>>, {realm}), Decl(<<hostA>>, <<realm>>, {vm})>>,
     <<Decl(<<hostA>>, <<vm>>, {vm}), Decl(<<hostA>>, <<>>, {})>>}

Config(bs) == [blocks |-> bs, needs |-> Needs]

Accepted(bs) == Refusal(Lanes(Config(bs))) = NoErr

MCConfigs ==
    {Config(bs) : bs \in {t \in [1..3 -> Kinds] : Accepted(t)} \cup [1..1 -> Kinds] \cup Refused}

ASSUME RefusedAssumption == \A bs \in Refused : Refusal(Lanes(Config(bs))) # NoErr


=============================================================================

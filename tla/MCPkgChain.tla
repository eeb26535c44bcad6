----------------------------- MODULE MCPkgChain -----------------------------
(***************************************************************************)
(* StepOps for the step pkg with a third-party source.                     *)
(***************************************************************************)
EXTENDS StepOps

CONSTANTS download, installKey, writeRepoConfig, ensurePkg

PkgGraphs ==
    {[o \in Op |-> CASE o = download        -> {}
                     [] o = installKey      -> {download}
                     [] o = writeRepoConfig -> {installKey}
                     [] o = ensurePkg       -> {writeRepoConfig}]}

\* internal/step/pkg/pkg.go:124-125 gives the order of the ops as "download
\* key -> install key -> write repo config -> install packages".  It is not
\* kept when the repo config is already there and the key is not: a satisfied
\* op is counted for nobody and itself counts nobody.
KeyBeforePackages == Started(ensurePkg) => Settled(installKey)
=============================================================================

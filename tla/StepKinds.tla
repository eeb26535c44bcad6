------------------------------- MODULE StepKinds -------------------------------
(***************************************************************************)
(* Every step kind of the standard library: its ops, their order, what     *)
(* they check and do, and what the declaration promises, by kind.          *)
(***************************************************************************)
EXTENDS FileSteps, HostSteps, PkgSteps, CommandSteps, ContainerSteps

FileKinds    == {"dir", "symlink", "copy", "template", "unarchive"}
HostKinds    == {"group", "user", "service", "sysctl", "mount", "firewall"}
CommandKinds == {"run", "run_set"}

\* The declarations there are, and the worlds a step of the kind may meet.
Config == FileConfig \cup HostConfig \cup PkgConfig \cup CommandConfig \cup ContainerConfig

IsWorld(c, u) == CASE c.kind \in FileKinds    -> IsFileWorld(c, u)
                   [] c.kind \in HostKinds    -> IsHostWorld(c, u)
                   [] c.kind = "pkg"          -> IsPkgWorld(u)
                   [] c.kind \in CommandKinds -> IsCommandWorld(c, u)
                   [] c.kind = "container"    -> u \in ContainerWorld

Ops(c) == CASE c.kind \in FileKinds -> FileOps(c)
            [] c.kind \in HostKinds -> HostOps(c)
            [] c.kind = "pkg"       -> PkgOps(c)
            [] OTHER                -> {"main"}

Deps(c, o) == CASE c.kind \in FileKinds -> FileDeps(c, o)
                [] c.kind \in HostKinds -> HostDeps(c, o)
                [] c.kind = "pkg"       -> PkgDeps(c, o)
                [] OTHER                -> {}

Check(c, o, u) == CASE c.kind \in FileKinds    -> FileCheck(c, o, u)
                    [] c.kind \in HostKinds    -> HostCheck(c, o, u)
                    [] c.kind = "pkg"          -> PkgCheck(c, o, u)
                    [] c.kind \in CommandKinds -> CommandCheck(c, u)
                    [] c.kind = "container"    -> CheckContainer(c, u)

Execute(c, o, u) == CASE c.kind \in FileKinds    -> FileExecute(c, o, u)
                      [] c.kind \in HostKinds    -> HostExecute(c, o, u)
                      [] c.kind = "pkg"          -> PkgExecute(c, o, u)
                      [] c.kind \in CommandKinds -> CommandExecute(c, u)
                      [] c.kind = "container"    -> ExecuteContainer(c, u)

-----------------------------------------------------------------------------

\* The world is as declared.
Desired(c, u) == CASE c.kind \in FileKinds    -> FileDesired(c, u)
                   [] c.kind \in HostKinds    -> HostDesired(c, u)
                   [] c.kind = "pkg"          -> PkgDesired(c, u)
                   [] c.kind \in CommandKinds -> CommandDesired(c, u)
                   [] c.kind = "container"    -> ContainerDesired(c, u)

\* The world lets the declaration be met.
Feasible(c, u) == CASE c.kind \in FileKinds    -> FileFeasible(c, u)
                    [] c.kind \in HostKinds    -> HostFeasible(c, u)
                    [] c.kind = "pkg"          -> TRUE
                    [] c.kind \in CommandKinds -> CommandFeasible(c, u)
                    [] c.kind = "container"    -> ContainerFeasible(c, u)

\* The step cannot mend this world.
Stuck(c, u) == CASE c.kind \in FileKinds    -> FileStuck(c, u)
                 [] c.kind \in HostKinds    -> HostStuck(c, u)
                 [] c.kind = "pkg"          -> PkgStuck(c, u)
                 [] c.kind \in CommandKinds -> FALSE
                 [] c.kind = "container"    -> ContainerStuck(c, u)

\* The world falls short of the declaration in something that no check of the
\* step looks at, and in nothing else.
Unseen(c, u) == CASE c.kind \in FileKinds -> FileUnseen(c, u)
                  [] c.kind \in HostKinds -> HostUnseen(c, u)
                  [] c.kind = "pkg"       -> PkgUnseen(c, u)
                  [] c.kind \in CommandKinds -> CommandUnseen(c, u)
                  [] c.kind = "container" -> ContainerUnseen(c, u)

\* Of a host everything is its target's but what the engine of the step keeps
\* for itself, and the list an init command has made.
Target(c, u) == CASE c.kind \in FileKinds -> FileTarget(u)
                  [] c.kind = "pkg"       -> <<u.have, u.key, u.repo>>
                  [] c.kind = "run_set"   -> u.live
                  [] OTHER                -> WithFault(u, FALSE)
=============================================================================

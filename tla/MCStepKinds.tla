----------------------------- MODULE MCStepKinds -----------------------------
(* The step kinds for TLC: for every kind some declarations, the worlds     *)
(* they meet at first, and what others change between and during the runs. *)
EXTENDS StepRuns, TLC

Values ==
    {"", "none", "no", "cut", "bad", "old", "v0", "v1", "v2", "good", "k0", "k1", "k2", "u0", "u1", "u2",
     "i0", "i1", "sh", "bash", "default", "declared", "locked", "secret", "own", "root", "app", "adm",
     "any", "100", "999", "0", "1", "rw", "ro", "p", "q", "x", "y", "z", "dir", "starting", "healthy",
     "unhealthy", "PATH", "A", "0600", "0644", "0700", "0755", "0777"}

-----------------------------------------------------------------------------
(* dir, symlink, copy, template, unarchive *)

FileCfg(kind, source, mode, owner) ==
    [kind |-> kind, source |-> source, mode |-> mode, owner |-> owner,
     checksum |-> "none", verify |-> "none", backup |-> FALSE]

FileConfigs ==
    {FileCfg("dir", "none", "0700", "app"), FileCfg("symlink", "none", "none", "none"),
     FileCfg("copy", "target", "0600", "app"), FileCfg("copy", "remote", "0600", "none"),
     [FileCfg("copy", "remote", "none", "none") EXCEPT !.checksum = "v1"],
     [FileCfg("copy", "local", "none", "app") EXCEPT !.verify = "command"],
     [FileCfg("copy", "local", "none", "none") EXCEPT !.backup = TRUE],
     FileCfg("template", "remote", "0600", "none"),
     FileCfg("unarchive", "local", "0755", "none"),
     FileCfg("unarchive", "remote", "none", "app")}

Base == (<<"srv">> :> NewDir("0755")) @@ (<<"var">> :> NewDir("0755"))
           @@ (Other :> NewFile("v1"))

FileWorld(fs, source) ==
    [fault |-> FALSE, fs |-> fs, users |-> {"root", "app"}, tool |-> TRUE,
     clock |-> 0, source |-> source, remote |-> "v1", cache |-> "none", meta |-> "none"]

Remotes(x) == {[x EXCEPT !.remote = r, !.cache = d, !.meta = d] :
                  r \in {"v1", "v2"}, d \in {"none", "v1", "bad"}}

\* An archive that was unpacked by an earlier run, with and without the mode
\* and the owner the step wants.
UnpackedTree(data, mode, owner) ==
    LET all == Put(Extracted(Base, data, Members(data)), Dest, NewDir("0755"))
        own == [q \in DOMAIN all |-> IF Dest \in Prefixes(q)
                                     THEN [all[q] EXCEPT !.mode = mode, !.owner = owner]
                                     ELSE all[q]]
    IN Put(Put(own, StateDir, NewDir("0755")), Marker, NewFile(data))

FileTrees(c) ==
    {Base} \cup
    IF c.kind = "unarchive"
    THEN {UnpackedTree("v1", "0755", "app"), UnpackedTree("v1", "0644", "root")}
    ELSE {Put(Base, Dest, Node("dir", "", "0755", "app")),
          Put(Base, Dest, Node("file", "v1", "0600", "app")),
          Put(Base, Dest, Node("file", "old", "0700", "app")),
          Put(Base, Dest, NewLink(Other))}

FileWorlds(c) ==
    UNION {CASE c.source = "remote" ->
                    {x \in Remotes(FileWorld(f, "none")) :
                        c.kind = "unarchive" =>
                            x.cache # "bad" /\ (x.cache = "none") = (x.remote = "v1")}
             [] c.source = "local"  -> {FileWorld(f, d) : d \in {"v1", "bad"}}
             [] OTHER               -> {FileWorld(f, "none")} : f \in FileTrees(c)}

FileEdits(c, x) ==
    (IF c.source = "remote" THEN {[x EXCEPT !.remote = d] : d \in
            {"bad", "v2", IF c.kind = "unarchive" THEN "v2" ELSE "v1"} \ {x.remote}} ELSE {})
    \cup (IF c.source = "local" THEN {[x EXCEPT !.source = d, !.clock = 1] : d \in {"v2", "bad"}} ELSE {})
    \cup (IF c.source = "target" THEN {[x EXCEPT !.fs = Put(@, Other, NewFile("v2"))]} ELSE {})
    \cup (IF c.kind = "unarchive" /\ c.source = "local" THEN {[x EXCEPT !.tool = FALSE]} ELSE {})

-----------------------------------------------------------------------------
(* group, user, service, sysctl, mount, firewall *)

UserCfg(state, shell, home, groups, password) ==
    [kind |-> "user", state |-> state, shell |-> shell, home |-> home,
     groups |-> groups, password |-> password]

ServiceCfg(state) == [kind |-> "service", state |-> state, enabled |-> TRUE, reloads |-> TRUE]

HostConfigs ==
    {[kind |-> "group", state |-> s, gid |-> "100"] : s \in {"present", "absent"}} \cup
    {UserCfg("present", "bash", TRUE, {"app"}, "secret"),
     UserCfg("present", "none", TRUE, {"any"}, "none"),
     UserCfg("absent", "none", FALSE, {"any"}, "none")} \cup
    {ServiceCfg(s) : s \in {"running", "stopped", "restarted", "reloaded"}} \cup
    {[ServiceCfg("reloaded") EXCEPT !.reloads = FALSE]} \cup
    {[kind |-> "sysctl", value |-> "1", persist |-> p] : p \in BOOLEAN} \cup
    {[kind |-> "mount", state |-> s, opts |-> "rw"] : s \in {"mounted", "unmounted", "absent"}} \cup
    [kind: {"firewall"}, action: Actions]

HostWorlds(c) ==
    CASE c.kind = "group" -> {[fault |-> FALSE, gid |-> g] : g \in {"none", "100", "999"}}
      [] c.kind = "user" ->
            [fault: {FALSE}, there: {TRUE}, shell: {"sh", "bash"}, homedir: {"default", "declared"},
             groups: {{}, {"app"}, {"app", "adm"}}, password: {"locked", "secret"},
             home: {"none", "own", "root"}]
            \cup [fault: {FALSE}, there: {FALSE}, shell: {"sh"}, homedir: {"default"},
                  groups: {{}}, password: {"locked"}, home: {"none", "own", "root"}]
      [] c.kind = "service" ->
            [fault: {FALSE}, unit: {"u1"}, loaded: {"u0", "u1"}, running: {"no", "u0"},
             enabled: BOOLEAN]
      [] c.kind = "sysctl" -> [fault: {FALSE}, live: {"0", "1"}, dropin: {"none", "0", "1"}]
      [] c.kind = "mount" ->
            {x \in [fault: {FALSE}, fstab: {"none", "rw", "ro"}, others: {TRUE}, dir: BOOLEAN,
                    mounted: {"none", "rw", "ro"}, helper: BOOLEAN] :
                x.mounted # "none" => x.dir}
      [] c.kind = "firewall" ->
            [fault: {FALSE}, ufw: BOOLEAN, firewalld: BOOLEAN, added: {"none", "allow", "deny"},
             permanent: {{}, {"allow"}, {"deny"}}, runtime: {{}, {"allow"}, {"deny"}}, guest: {TRUE}]

HostEdits(c, x) ==
    CASE c.kind = "group" -> {[x EXCEPT !.gid = g] : g \in {"none", "999"}}
      [] c.kind = "user" -> {[x EXCEPT !.home = h] : h \in {"none", "root"}}
                            \cup {[x EXCEPT !.shell = "sh"], NoAccount(x)}
      [] c.kind = "service" -> {[x EXCEPT !.unit = "u2"], [x EXCEPT !.running = "no"]}
      [] c.kind = "sysctl" -> {[x EXCEPT !.live = "0"], [x EXCEPT !.dropin = "0"]}
      [] c.kind = "mount" -> {[x EXCEPT !.fstab = "ro"], [x EXCEPT !.mounted = "none"],
                              [x EXCEPT !.helper = FALSE]}
      [] c.kind = "firewall" -> {[x EXCEPT !.runtime = {}], [x EXCEPT !.firewalld = FALSE]}

-----------------------------------------------------------------------------
(* pkg, run, run_set, container *)

PkgConfigs ==
    {[kind |-> "pkg", state |-> s, third |-> t, checksum |-> "none"] :
        s \in {"present", "latest"}, t \in BOOLEAN}
    \cup {[kind |-> "pkg", state |-> "absent", third |-> FALSE, checksum |-> "none"]}

PkgWorlds(c) ==
    {[fault |-> FALSE, have |-> h, mirror |-> "v1", index |-> i, fresh |-> f,
      key |-> k, repo |-> "none", remote |-> "k1", cache |-> "none", meta |-> "none"] :
         h \in {x \in [{"p", "q"} -> {"no", "v0"}] : x["p"] = "v0" => x["q"] = "v0"},
         i \in {"none", "v0"} \cup IF c.third THEN {} ELSE {"v1"}, f \in BOOLEAN,
         k \in IF c.third THEN {"none", "k0"} ELSE {"none"}}

PkgEdits(c, x) == {[x EXCEPT !.mirror = "v2"], [x EXCEPT !.fresh = FALSE],
                   [x EXCEPT !.have = [p \in DOMAIN @ |-> IF p = "p" THEN "no" ELSE @[p]]]}
                  \cup IF c.third THEN {[x EXCEPT !.remote = "k2"]} ELSE {}

CommandConfigs ==
    {[kind |-> "run", always |-> b, apply |-> a] :
        b \in BOOLEAN, a \in {"works", "fails", "idle"}}
    \cup [kind: {"run_set"}, desired: {{"x", "y"}}, add: BOOLEAN, remove: BOOLEAN, init: BOOLEAN]

CommandWorlds(c) ==
    IF c.kind = "run" THEN [fault: {FALSE}, holds: BOOLEAN]
    ELSE [fault: {FALSE}, listed: BOOLEAN, live: SUBSET {"x", "y", "z"}, adds: {{}}, removes: {{}}]

CommandEdits(c, x) ==
    IF c.kind = "run" THEN {[x EXCEPT !.holds = FALSE]}
    ELSE {[x EXCEPT !.live = @ \ {"x"}], [x EXCEPT !.live = @ \cup {"z"}]}

ContainerCfg(state, interval) ==
    [kind |-> "container", state |-> state, image |-> "i1", env |-> {"A"}, mount |-> TRUE,
     namesake |-> FALSE, interval |-> interval, retries |-> 3, start |-> 0]

ContainerConfigs ==
    {ContainerCfg("running", i) : i \in {0, 5, 35}} \cup
    {ContainerCfg("stopped", 0), ContainerCfg("absent", 0),
     [ContainerCfg("absent", 0) EXCEPT !.namesake = TRUE],
     [ContainerCfg("running", 0) EXCEPT !.mount = FALSE]}

ContainerWorlds(c) ==
    LET Host == [fault: {FALSE}, daemon: {TRUE}, namesake: {c.namesake}, born: {0},
                 source: {"dir", "none"}, sound: BOOLEAN]
    IN UNION {
        {[there |-> FALSE, image |-> "i0", env |-> {}, running |-> FALSE, health |-> "none"] @@ h,
         [there |-> TRUE, image |-> "i1", env |-> {"PATH"}, running |-> TRUE, health |-> "none"] @@ h,
         [there |-> TRUE, image |-> "i1", env |-> {"PATH", "A"}, running |-> FALSE, health |-> "none"] @@ h,
         [there |-> TRUE, image |-> "i0", env |-> {"A"}, running |-> FALSE, health |-> "none"] @@ h}
        : h \in Host}

ContainerEdits(c, x) ==
    {[x EXCEPT !.daemon = FALSE], [x EXCEPT !.running = FALSE], [x EXCEPT !.source = "none"]}
    \cup IF x.running /\ x.health = "starting" /\ x.sound THEN {[x EXCEPT !.health = "healthy"]} ELSE {}

-----------------------------------------------------------------------------

KindConfigs == FileConfigs \cup HostConfigs \cup PkgConfigs \cup CommandConfigs \cup ContainerConfigs

KindWorlds(c) == CASE c.kind \in FileKinds    -> FileWorlds(c)
                   [] c.kind \in HostKinds    -> HostWorlds(c)
                   [] c.kind = "pkg"          -> PkgWorlds(c)
                   [] c.kind \in CommandKinds -> CommandWorlds(c)
                   [] c.kind = "container"    -> ContainerWorlds(c)

KindEdits(c, x) == CASE c.kind \in FileKinds    -> FileEdits(c, x)
                     [] c.kind \in HostKinds    -> HostEdits(c, x)
                     [] c.kind = "pkg"          -> PkgEdits(c, x)
                     [] c.kind \in CommandKinds -> CommandEdits(c, x)
                     [] c.kind = "container"    -> ContainerEdits(c, x)
=============================================================================

------------------------------- MODULE StepContracts -------------------------------
(***************************************************************************)
(* What the proofs about runs say of the operators of the kinds: what a    *)
(* check and an op come to, which files a call touches and which it leaves *)
(* alone, what a step keeps up all along.  StepRunsProofs shows that the   *)
(* operators keep these contracts and that the runs follow from them.      *)
(***************************************************************************)
EXTENDS StepRuns

\* A check says what is so and disturbs nothing.
Checked(c, o, u, out) ==
    /\ IsWorld(c, out.w)
    /\ out.res \in {"satisfied", "unsatisfied", "error", "panic"}
    /\ u.fault => out.w.fault
    /\ ~out.w.fault =>
          /\ out.res = "satisfied" => SeesTo(c, o, out.w)
          /\ out.res = "unsatisfied" => PlanStands(c, out.w) /\ ~(Leads(c, o) /\ SeesTo(c, o, u))
          /\ \A p \in Ops(c) : SeesTo(c, p, u) => SeesTo(c, p, out.w)
          /\ Target(c, out.w) = Target(c, u)

\* An op that succeeds has done what it is there for, and undone nothing that
\* does not come after it.
Executed(c, o, u, out) ==
    /\ IsWorld(c, out.w)
    /\ out.res \in {"changed", "unchanged", "error", "panic"}
    /\ u.fault => out.w.fault
    /\ ~out.w.fault /\ out.res \in {"changed", "unchanged"} =>
          /\ PlanStands(c, u) => SeesTo(c, o, out.w)
          /\ \A p \in Ops(c) \ {o} : o \notin Deps(c, p) /\ SeesTo(c, p, u) => SeesTo(c, p, out.w)
          /\ out.res = "unchanged" => Target(c, out.w) = Target(c, u)

\* The outcomes of a check that only looks.
Looked(c, o, u, out) ==
    /\ out.w \in {u, Faulty(u)}
    /\ out.res \in {"satisfied", "unsatisfied", "error", "panic"}
    /\ ~u.fault /\ out.w = u =>
          /\ out.res = "satisfied" => SeesTo(c, o, u)
          /\ out.res = "unsatisfied" /\ SeesTo(c, o, u) => ~Leads(c, o)

\* A container of the declaration, whether it runs or not.
AsDeclared(c, u) == u.there /\ u.image = c.image /\ c.env \subseteq u.env

\* It is made, and started if it is to run.
MadeContainer(c, u) ==
    Then(CreateContainer(c, u),
         LAMBDA v : IF c.state = "running" THEN StartContainer(c, v) ELSE Done(v))

\* A download's world is seen to by what its cache holds.
HasCache(c, u) == IF c.checksum # "none" THEN u.cache = c.checksum
                  ELSE u.meta = u.remote /\ u.cache # "none"

\* The cache as a broken, a finished and a labelled download leave it.
CutCopy(u)  == [u EXCEPT !.cache = "cut"]
Copied(u)   == [u EXCEPT !.cache = u.remote]
Labelled(u) == [Copied(u) EXCEPT !.meta = Copied(u).remote]

\* What a download comes to, with a checksum that fits.
Downloaded(u, out) ==
    \/ out.res = "error" /\ out.w \in {Faulty(CutCopy(u)), Faulty(Copied(u))}
    \/ out.res = "changed" /\ out.w \in {Faulty(Copied(u)), Labelled(u)}

\* Everything but the index.
SameButIndex(u, v) ==
    /\ v.have = u.have /\ v.mirror = u.mirror /\ v.key = u.key /\ v.repo = u.repo
    /\ v.remote = u.remote /\ v.cache = u.cache /\ v.meta = u.meta

\* An installation that comes back has brought every package of S to the mirror's
\* version.
Installs(u, S, d) ==
    /\ IsPkgWorld(d.w) /\ d.res \in {"returned", "error"} /\ (~d.w.fault => ~u.fault)
    /\ d.w.key = u.key /\ d.w.repo = u.repo
    /\ d.w.remote = u.remote /\ d.w.cache = u.cache /\ d.w.meta = u.meta
    /\ d.res = "returned" => /\ u.index = u.mirror /\ d.w.index = u.index
                             /\ d.w = Having(u, S, u.index)
    /\ d.res = "error" => d.w = u \/ d.w.fault = TRUE

\* Where the packages of T have the version x.
AllHave(u, v, T, x) ==
    /\ DOMAIN v.have = DOMAIN u.have
    /\ \A p \in DOMAIN u.have : v.have[p] = IF p \in T THEN x ELSE u.have[p]

\* What an op of a package step leaves alone.
SameRepo(u, v) == v.key = u.key /\ v.repo = u.repo
SameDownload(u, v) == v.remote = u.remote /\ v.cache = u.cache /\ v.meta = u.meta

Srv == <<"srv">>
Var == <<"var">>
Backups == {<<"srv", "bak0">>, <<"srv", "bak1">>, <<"srv", "bak2">>}

\* The paths of the files the ops write.
Written == {Dest, Other, TempFile, Archive, Marker, Main, More} \cup Backups

\* Where only modes and owners differ.
SameShape(f, g) ==
    /\ g \in [DOMAIN f -> NodeRecord]
    /\ \A q \in DOMAIN f : /\ g[q].kind = f[q].kind /\ g[q].data = f[q].data
                           /\ g[q].to = f[q].to

FilesOK(u) ==
    /\ u \in [fault: BOOLEAN, fs: {u.fs}, users: SUBSET Value, tool: BOOLEAN, clock: 0 .. 2,
              source: Value, remote: Value \ {"none"}, cache: Value, meta: Value]
    /\ IsTree(u.fs)

\* All but the files and the fault.
SameHost(u, v) ==
    /\ v.users = u.users /\ v.tool = u.tool /\ v.clock = u.clock /\ v.source = u.source
    /\ v.remote = u.remote /\ v.cache = u.cache /\ v.meta = u.meta

\* The files but for those of A.
Beside(f, g, A) ==
    \A q : q \notin A => /\ q \in DOMAIN g <=> q \in DOMAIN f
                         /\ q \in DOMAIN f => g[q] = f[q]

\* Nothing but the files of A has been touched on the way from u to v.
Keeps(u, v, A) ==
    /\ FilesOK(v) /\ v.fault \in BOOLEAN /\ (u.fault => v.fault)
    /\ SameHost(u, v) /\ Beside(u.fs, v.fs, A)

\* What a write comes to: the file, followed through a link, holds the data, or
\* what a broken write leaves of it.
Writes(u, p, data, d) ==
    LET q == Follow(u.fs, p)
    IN  /\ Keeps(u, d.w, {q}) /\ d.res \in {"returned", "error"}
        /\ \/ d.w.fs = u.fs /\ d.res = "error"
           \/ /\ Follow(d.w.fs, p) = q /\ q \in DOMAIN d.w.fs /\ d.w.fs[q].kind = "file"
              /\ d.w.fs[q].data \in {"cut", data} /\ (IsLink(d.w.fs, Dest) <=> IsLink(u.fs, Dest))
              /\ q \in DOMAIN u.fs => u.fs[q].kind = "file"
        /\ d.res = "returned" => d.w.fs[q].data = data /\ d.w.fault = u.fault
        /\ d.res = "error" => d.w = u \/ d.w.fault = TRUE

\* Where only modes, or only owners, differ.
Alike(f, g, field) == SameShape(f, g) /\ \A q \in DOMAIN f : g[q][field] = f[q][field]

\* Where directories of S have been added, and modes or owners changed.
Grown(f, g, S) ==
    /\ \A q \in DOMAIN f : /\ q \in DOMAIN g /\ g[q].kind = f[q].kind /\ g[q].data = f[q].data
                           /\ g[q].to = f[q].to
    /\ \A q \in DOMAIN g : q \in DOMAIN f \/ (q \in S /\ g[q].kind = "dir" /\ g[q].data = "")

\* The directories the ops make.
Founded == {Dest, TempDir, StateDir, Lib}

\* What making a directory comes to.
Makes(u, p, d) ==
    /\ Keeps(u, d.w, Prefixes(p) \cup {Follow(u.fs, p)})
    /\ Grown(u.fs, d.w.fs, Prefixes(p))
    /\ d.res \in {"returned", "error"}
    /\ d.res = "returned" => IsDir(d.w.fs, p) /\ d.w.fault = u.fault
    /\ d.res = "error" => d.w = u \/ d.w.fault = TRUE

\* What removing an entry comes to.
Removes(u, p, d) ==
    /\ Keeps(u, d.w, {p}) /\ d.res \in {"returned", "error"}
    /\ d.w.fs \in {u.fs, Without(u.fs, p)}
    /\ d.res = "returned" => d.w.fs = Without(u.fs, p) /\ d.w.fault = u.fault
    /\ d.res = "error" => d.w = u \/ d.w.fault = TRUE

\* Nothing but modes or owners has been touched on the way from u to v.
Reshapes(u, v, kept) ==
    /\ FilesOK(v) /\ v.fault \in BOOLEAN /\ (u.fault => v.fault)
    /\ SameHost(u, v) /\ Alike(u.fs, v.fs, kept)

\* The outcomes of a check that tells whether p is so.
Tells(u, p, out) ==
    /\ out.w \in {u, Faulty(u)}
    /\ out.res \in {"satisfied", "unsatisfied", "error", "panic"}
    /\ out.w # Faulty(u) => /\ out.res = "satisfied" => p
                            /\ out.res = "unsatisfied" => ~p

\* What the ops that set modes or owners come to.
Sets(u, field, kept, value, deep, out) ==
    /\ Reshapes(u, out.w, kept)
    /\ out.res \in {"changed", "unchanged", "error", "panic"}
    /\ out.res \in {"changed", "unchanged"} => TreeHas(out.w.fs, Dest, deep, field, value)
    /\ out.res = "unchanged" => out.w.fs = u.fs

SetTree(u, field, value) == Then(SetRecursive(u, Dest, field, value), Done)

\* What an op that makes Dest comes to, as far as the rest of the world goes.
Lands(u, out) ==
    /\ FilesOK(out.w) /\ (u.fault => out.w.fault) /\ SameHost(u, out.w)
    /\ out.res \in {"changed", "unchanged", "error", "panic"}
    /\ out.res = "unchanged" => out.w.fs = u.fs

MadeDir(u) == Then(Mkdir(u, Dest, "0755"), Done)

MadeLink(u) == Then(Symlink(u, Other, Dest), Done)

\* What a download comes to.
Fetches(c, u, out) ==
    /\ FilesOK(out.w) /\ out.w.fs = u.fs /\ (u.fault => out.w.fault)
    /\ out.res \in {"changed", "unchanged", "error", "panic"}
    /\ out.res \in {"changed", "unchanged"} /\ ~out.w.fault => HasCache(c, out.w)
    /\ out.w.cache # u.cache /\ c.checksum # "none" =>
          out.w.cache = c.checksum \/ (out.w.cache = "cut" /\ out.w.fault)
    /\ out.w.clock = u.clock

Temps == {TempDir, TempFile}

\* Nothing of the op's own is left behind, unless a call has failed.
Tidy(u, v) == ~v.fault => Temps \cap DOMAIN v.fs \subseteq DOMAIN u.fs

\* An outcome is its result and its world.
IsOutcome(d) == d = [res |-> d.res, w |-> d.w]

\* What the verified content goes through.
Verifying(u, data, verify) ==
    Then(WriteFile(u, TempFile, data), LAMBDA v :
        Ask(v, LAMBDA x : IF Rejects(verify, data) THEN Ends("error", x)
                          ELSE Then(WriteFile(x, Dest, data), Done)))

WriteIt(u, data) == Then(WriteFile(u, Dest, data), Done)

\* What a write to Dest comes to.
Replaces(u, data, out) ==
    /\ Keeps(u, out.w, {Follow(u.fs, Dest)})
    /\ IsOutcome(out) /\ out.res \in {"changed", "error"}
    /\ \/ out.w.fs = u.fs /\ out.res = "error"
       \/ Contents(out.w.fs, Dest) \in {"cut", data}
    /\ out.res = "changed" => Contents(out.w.fs, Dest) = data

\* Up to the removal of the temporary file.
Verifies(u, data, verify, out) ==
    /\ Keeps(u, out.w, {TempFile, Follow(u.fs, Dest)})
    /\ IsOutcome(out) /\ out.res \in {"changed", "error"}
    /\ \/ Keeps(u, out.w, {TempFile})
       \/ ~Rejects(verify, data) /\ Contents(out.w.fs, Dest) \in {"cut", data}
    /\ out.res = "changed" => Contents(out.w.fs, Dest) = data
    /\ TempFile \in DOMAIN out.w.fs => TempFile \in DOMAIN u.fs \/ out.w.fs[TempFile].kind = "file"

\* What the whole of a verified write comes to.
VerifiedIs(u, data, verify, out) ==
    /\ Keeps(u, out.w, Temps \cup {Follow(u.fs, Dest)})
    /\ out.res \in {"changed", "error"}
    /\ \/ Keeps(u, out.w, Temps)
       \/ ~Rejects(verify, data) /\ Contents(out.w.fs, Dest) \in {"cut", data}
    /\ out.res = "changed" => Contents(out.w.fs, Dest) = data
    /\ Tidy(u, out.w)

\* What keeping a backup comes to.
BacksUp(u, d) ==
    /\ Keeps(u, d.w, Backups) /\ d.res \in {"returned", "error"}
    /\ d.res = "returned" /\ ~d.w.fault /\ IsFile(u.fs, Dest) =>
          Contents(d.w.fs, BackupOf(Dest, u.clock)) = Contents(u.fs, Dest)

WriteDest(c, u, content) ==
    IF c.verify # "none" THEN VerifiedWrite(u, Dest, content, c.verify)
    ELSE Then(WriteFile(u, Dest, content), Done)

Replacing(c, u, content) ==
    IF c.backup THEN Then(Backup(u, Dest), LAMBDA v : WriteDest(c, v, content))
    ELSE WriteDest(c, u, content)

\* What writing the content of Dest comes to, with or without a verify command.
DestIs(c, u, content, out) ==
    /\ Keeps(u, out.w, Temps \cup {Follow(u.fs, Dest)})
    /\ out.res \in {"changed", "error"}
    /\ \/ Contents(out.w.fs, Dest) = Contents(u.fs, Dest)
       \/ ~Rejects(c.verify, content) /\ Contents(out.w.fs, Dest) \in {"cut", content}
    /\ out.res = "changed" => Contents(out.w.fs, Dest) = content
    /\ Tidy(u, out.w)

\* Where a content op leaves its marks.
Touched(u) == Temps \cup Backups \cup {Follow(u.fs, Dest)}

\* What replacing the file comes to, after a backup of it.
Replaced(c, u, content, out) ==
    /\ Keeps(u, out.w, Touched(u))
    /\ out.res \in {"changed", "unchanged", "error"}
    /\ \/ Contents(out.w.fs, Dest) = Contents(u.fs, Dest)
       \/ ~Rejects(c.verify, content) /\ Contents(out.w.fs, Dest) \in {"cut", content}
    /\ out.res \in {"changed", "unchanged"} => Contents(out.w.fs, Dest) = content
    /\ out.res = "unchanged" => out.w = u
    /\ Tidy(u, out.w)
    /\ c.backup /\ ~out.w.fault /\ IsFile(u.fs, Dest)
          /\ Contents(out.w.fs, Dest) # Contents(u.fs, Dest)
       => Contents(out.w.fs, BackupOf(Dest, u.clock)) = Contents(u.fs, Dest)

\* The content an op writes, from its source.
Content(c, u) == IF c.kind = "copy" THEN Source(c, u) ELSE Rendered(Source(c, u))

\* What the content op comes to.
Copies(c, u, out) ==
    /\ Keeps(u, out.w, Touched(u))
    /\ out.res \in {"changed", "unchanged", "error"}
    /\ \/ Contents(out.w.fs, Dest) = Contents(u.fs, Dest)
       \/ /\ ~Rejects(c.verify, Content(c, u))
          /\ Contents(out.w.fs, Dest) \in {"cut", Content(c, u)}
    /\ out.res \in {"changed", "unchanged"} => Content(c, u) # "none" /\ Contents(out.w.fs, Dest) = Content(c, u)
    /\ out.res = "unchanged" => out.w = u
    /\ Tidy(u, out.w)
    /\ c.backup /\ ~out.w.fault /\ IsFile(u.fs, Dest)
          /\ Contents(out.w.fs, Dest) # Contents(u.fs, Dest)
       => Contents(out.w.fs, BackupOf(Dest, u.clock)) = Contents(u.fs, Dest)

Entries == {Lib, Main, More}

\* What writing a file of the tree, or the archive, comes to.
Puts(u, p, data, d) ==
    /\ Keeps(u, d.w, {p}) /\ IsUnpacked(d.w.fs) /\ IsOutcome(d)
    /\ d.res \in {"returned", "error"}
    /\ d.res = "returned" => /\ p \in DOMAIN d.w.fs /\ d.w.fs[p].kind = "file"
                             /\ Contents(d.w.fs, p) = data
    /\ d.res = "error" => d.w = u \/ d.w.fault = TRUE

\* What an extraction comes to, with the tool or without it.
Extracts(u, data, d) ==
    /\ Keeps(u, d.w, Entries \cup {Archive}) /\ IsUnpacked(d.w.fs)
    /\ d.res \in {"returned", "error"}
    /\ d.res = "returned" => Readable(data) /\ Unpacked(d.w.fs, data)
    /\ ~d.w.fault /\ Archive \in DOMAIN d.w.fs => Archive \in DOMAIN u.fs

\* The files of the archive, one after the other.
PutMore(u, data) == IF More \in Members(data) THEN WriteFile(u, More, data) ELSE Returns(u)
PutFiles(u, data) == Then(WriteFile(u, Main, data), LAMBDA v : PutMore(v, data))

\* What unpacking the files comes to.
Fills(u, data, d) ==
    /\ Keeps(u, d.w, {Main, More}) /\ IsUnpacked(d.w.fs)
    /\ d.res \in {"returned", "error"}
    /\ d.res = "returned" => Unpacked(d.w.fs, data)

\* What the op puts on the target for its own use.
OwnFiles == {TempFile, TempDir, Archive}

\* What an unarchive step keeps up all along.
Carries(u, v) ==
    /\ FilesOK(v) /\ (u.fault => v.fault) /\ SameHost(u, v) /\ IsUnpacked(v.fs)
    /\ ~v.fault => OwnFiles \cap DOMAIN v.fs \subseteq DOMAIN u.fs

\* What the extraction of an archive and its marker come to.
Unpacks(u, data, out) ==
    /\ Carries(u, out.w) /\ out.res \in {"changed", "error"}
    /\ out.res = "changed" => Contents(out.w.fs, Marker) = data
    /\ \/ Contents(out.w.fs, Marker) \in {Contents(u.fs, Marker), "cut"}
       \/ Unpacked(out.w.fs, Contents(out.w.fs, Marker))

MarkIt(u, data) == Then(WriteFile(u, Marker, data), Done)

ToolThenMark(u, data) == Then(ExtractWithTool(u, data), LAMBDA v : MarkIt(v, data))
GoThenMark(u, data)   == Then(ExtractWithGo(u, data), LAMBDA v : MarkIt(v, data))

ExtractIt(u, data) ==
    AskOr(u, u.tool, LAMBDA v : ToolThenMark(v, data), LAMBDA v : GoThenMark(v, data))

FromState(u, data) == Then(Mkdir(u, StateDir, "0755"), LAMBDA v : ExtractIt(v, data))
FromDest(u, data)  == Then(Mkdir(u, Dest, "0755"), LAMBDA v : FromState(v, data))

\* What the unarchive op comes to.
Archived(c, u, out) ==
    /\ Carries(u, out.w) /\ out.res \in {"changed", "unchanged", "error"}
    /\ out.res \in {"changed", "unchanged"} => Marked(c, out.w)
    /\ out.res = "unchanged" => out.w = u
    /\ \/ Contents(out.w.fs, Marker) \in {Contents(u.fs, Marker), "cut"}
       \/ Unpacked(out.w.fs, Contents(out.w.fs, Marker))

\* The op sees what it saw before.
Same(c, u, v) ==
    /\ IsWorld(c, v)
    /\ Target(c, v) = Target(c, u)
    /\ \A o \in Ops(c) : SeesTo(c, o, u) => SeesTo(c, o, v)

\* With another fault flag the op sees the same.
Aside(c, u, b) ==
    WithFault(u, b).fault = b /\ Same(c, u, WithFault(u, b)) /\ u.fault \in BOOLEAN

\* An op waits for nothing, or for one op.
Chained(c) ==
    \A o \in Ops(c) : Deps(c, o) = {} \/ \E d \in Ops(c) \ {o} : Deps(c, o) = {d}

\* A function that counts the ops of every chain.
Counts(c, depth) ==
    /\ depth \in [Ops(c) -> Nat \ {0}]
    /\ \A o \in Ops(c) : IF Deps(c, o) = {} THEN depth[o] = 1
                         ELSE \A d \in Deps(c, o) : depth[o] = 1 + depth[d]

Ranked(c) ==
    \A o \in Ops(c) :
        /\ Rank(c)[o] \in Nat \ {0}
        /\ Deps(c, o) \subseteq Ops(c) \ {o}
        /\ Deps(c, o) = {} => Rank(c)[o] = 1
        /\ \A d \in Deps(c, o) : Rank(c)[d] + 1 = Rank(c)[o]

\* Four levels are all there are.
Levels(c, A, B, C, D) ==
    /\ Ops(c) = A \cup B \cup C \cup D
    /\ \A o \in A : Deps(c, o) = {}
    /\ \A o \in B : Deps(c, o) \subseteq A
    /\ \A o \in C : Deps(c, o) \subseteq A \cup B
    /\ \A o \in D : Deps(c, o) \subseteq A \cup B \cup C

\* A target that is as declared, as a run finds it that follows a clean one.
AtRest(c, u) ==
    /\ IsWorld(c, u) /\ Desired(c, u) /\ ~Stuck(c, u) /\ ~u.fault
    /\ \A o \in Ops(c) : Deps(c, o) = {} => SeesTo(c, o, u)
    /\ c.kind = "unarchive" => Contents(u.fs, Marker) # "none"

\* An op does not panic, and where no call failed an error of it has a reason.
Blames(c, u, out) ==
    /\ out.res # "panic"
    /\ out.res = "error" /\ ~out.w.fault => Stuck(c, u) \/ ~Feasible(c, out.w)

\* Where an op fails, a call did.
Excused(x) == x.res # "panic" /\ (x.res = "error" => x.w.fault)

\* The kinds that keep neither files nor packages.
Fileless == HostKinds \cup CommandKinds \cup {"container"}

\* Before the first op has been executed, nothing is reported.
FreshInv ==
    phase = "exec" /\ left = {o \in Ops(cfg) : verdict[o] = "unsatisfied"} => ~changed

\* A run that failed undisturbed had a reason to, and no run panicked.
ReasonInv ==
    cfg.kind \in Fileless =>
        /\ result # "panic"
        /\ phase = "idle" /\ result = "error" /\ Quiet => Stuck(cfg, before) \/ ~Feasible(cfg, w)

\* StepsTakeCare, of a step of declaration c from the world u to the world v.
Careful(c, u, v) ==
    /\ c.kind = "copy" /\ c.verify = "command" /\ Contents(v.fs, Dest) = "bad"
          => Contents(u.fs, Dest) = "bad"
    /\ c.kind \in {"copy", "unarchive"} /\ ~v.fault
          => {TempFile, TempDir, Archive} \cap DOMAIN v.fs \subseteq DOMAIN u.fs
    /\ c.kind = "copy" /\ c.backup /\ ~v.fault /\ IsFile(u.fs, Dest)
             /\ Contents(v.fs, Dest) # Contents(u.fs, Dest)
          => Contents(v.fs, BackupOf(Dest, u.clock)) = Contents(u.fs, Dest)
    /\ c.kind = "unarchive" /\ Contents(v.fs, Marker) # Contents(u.fs, Marker)
             /\ Readable(Contents(v.fs, Marker))
          => Unpacked(v.fs, Contents(v.fs, Marker))
    /\ c.kind = "copy" /\ c.checksum # "none" /\ v.cache # u.cache
          => v.cache = c.checksum \/ (v.cache = "cut" /\ v.fault)
    /\ c.kind = "service" /\ u.running = "no" /\ v.running # "no"
          => v.running = v.unit

=============================================================================

------------------------------ MODULE FileSteps ------------------------------
(***************************************************************************)
(* The step kinds that manage files: dir, symlink, copy, template and      *)
(* unarchive, each as the ops it is made of, with their order, their Check *)
(* and their Execute.                                                      *)
(*                                                                         *)
(* The world w of such a step:                                             *)
(*   fs, users     the target's files and accounts                         *)
(*   tool          the archive tool is installed on the target             *)
(*   clock         the second the controller's clock shows                 *)
(*   source        the local source file, "none" when it is missing        *)
(*   remote        what the web server offers                              *)
(*   cache, meta   the downloaded copy and the version of the ETag kept    *)
(*                 beside it                                               *)
(***************************************************************************)
EXTENDS FileSystem, Downloads, FiniteSets

Dest  == <<"srv", "app">>
Other == <<"srv", "old">>
TempDir  == <<"tmp">>
TempFile == <<"tmp", "app">>
Archive  == <<"pack">>       \* the archive on its way to the tool
StateDir == <<"var", "state">>
Marker   == <<"var", "state", "app">>

\* What an archive holds.
Lib  == <<"srv", "app", "lib">>
Main == <<"srv", "app", "main">>
More == <<"srv", "app", "more">>

\* dest.<second>.bak
BackupOf(p, clock) ==
    << p[1], CASE clock = 0 -> "bak0" [] clock = 1 -> "bak1" [] clock = 2 -> "bak2" >>

-----------------------------------------------------------------------------
(***************************************************************************)
(* EnsureModeOp and EnsureOwnerOp, shared by all these steps.              *)
(***************************************************************************)

BugTopOnly(f, p, deep, field, value) == Stats(f, p) /\ f[Follow(f, p)][field] = value

\* Every file of the tree, or the path alone, has what the op wants.
TreeHas(f, p, deep, field, value) ==
    /\ Stats(f, p) /\ f[Follow(f, p)][field] = value
    /\ deep => \A q \in Below(f, p) : Stats(f, q) /\ f[Follow(f, q)][field] = value

CheckMode(w, p, mode, deep) ==
    Ask(w, LAMBDA u :
        Verdict(TreeHas(u.fs, p, deep, "mode", mode), u))

\* HasUser takes a lost call for an unknown user, an error either way.
CheckOwner(w, p, owner, deep) ==
    IF owner \notin w.users
    THEN Ends("error", w)
    ELSE Ask(w, LAMBDA u :
        Verdict(TreeHas(u.fs, p, deep, "owner", owner), u))

ExecuteMode(w, p, mode, deep) ==
    LET stat == w.fs[Follow(w.fs, p)]
    IN IF deep
       THEN Then(ChmodRecursive(w, p, mode), Done)
       ELSE IF ~Stats(w.fs, p)
       THEN Ends("panic", w)
       ELSE Ask(w, LAMBDA v : Then(Chmod(v, p, mode), LAMBDA u :
                Ends(IF stat.mode # mode THEN "changed" ELSE "unchanged", u)))

ExecuteOwner(w, p, owner, deep) ==
    LET stat == w.fs[Follow(w.fs, p)]
    IN IF deep
       THEN Then(ChownRecursive(w, p, owner), Done)
       ELSE IF ~Stats(w.fs, p)
       THEN Ends("panic", w)
       ELSE Ask(w, LAMBDA v : Then(Chown(v, p, owner), LAMBDA u :
                Ends(IF stat.owner # owner THEN "changed" ELSE "unchanged", u)))

-----------------------------------------------------------------------------
(***************************************************************************)
(* dir: the directory, then its mode and its owner.                        *)
(***************************************************************************)

CheckDir(w) == Ask(w, LAMBDA u : Verdict(IsDir(u.fs, Dest), u))

ExecuteDir(w) ==
    LET Made(u) == Then(Mkdir(u, Dest, "0755"), Done)
    IN Unless(IsDir(w.fs, Dest), w, LAMBDA u :
        IF Stats(u.fs, Dest) THEN Then(Remove(u, Dest), Made) ELSE Made(u))

(***************************************************************************)
(* symlink, to Other: one op.                                              *)
(***************************************************************************)

LinkInPlace(f) == IsLink(f, Dest) /\ f[Dest].to = Other

CheckLink(w) ==
    Ask(w, LAMBDA u :
        IF ~IsDir(u.fs, Parent(Dest)) THEN Ends("error", u)
        ELSE Verdict(LinkInPlace(u.fs), u))

\* A failed Lstat is taken for a free path.
ExecuteLink(w) ==
    LET Linked(u) == Then(Symlink(u, Other, Dest), Done)
    IN AskOr(w, Exists(w.fs, Dest),
        LAMBDA u : IF LinkInPlace(u.fs) THEN Ends("unchanged", u)
                                        ELSE Then(Remove(u, Dest), Linked),
        Linked)

-----------------------------------------------------------------------------
(***************************************************************************)
(* copy and template: the content, then its owner and its mode.            *)
(***************************************************************************)

\* getContent, "none" when the source cannot be read.
Source(c, w) ==
    CASE c.source = "local"  -> w.source
      [] c.source = "remote" -> w.cache
      [] c.source = "target" -> Contents(w.fs, Other)

\* A template that does not parse, or lacks a value, renders to "none", and so
\* does one that was cut short.
Rendered(data) == IF data \in {"bad", "cut"} THEN "none" ELSE data

\* CheckSourcePending: the download is still to come.
SourceMissing(c, w) == Ends(IF c.source = "remote" THEN "unsatisfied" ELSE "error", w)

\* A file that cannot be read differs.
CheckDest(w, content) ==
    IF content = "none" \/ ~IsDir(w.fs, Parent(Dest)) THEN Ends("error", w)
    ELSE AskOr(w, Contents(w.fs, Dest) = content,
               LAMBDA u : Verdict(TRUE, u), LAMBDA u : Verdict(FALSE, u))

CheckCopy(c, w) ==
    Ask(w, LAMBDA u : IF Source(c, u) = "none" THEN SourceMissing(c, u)
                      ELSE CheckDest(u, Source(c, u)))

CheckTemplate(c, w) ==
    Ask(w, LAMBDA u : IF Source(c, u) = "none" THEN SourceMissing(c, u)
                      ELSE CheckDest(u, Rendered(Source(c, u))))

\* The file has the content the source says.
HasContent(c, w) ==
    LET content == IF c.kind = "copy" THEN Source(c, w) ELSE Rendered(Source(c, w))
    IN content # "none" /\ Contents(w.fs, Dest) = content

\* Whatever keeps the file from being read is taken for its absence.
Backup(w, p) ==
    AskOr(w, IsFile(w.fs, p),
          LAMBDA u : WriteFile(u, BackupOf(p, u.clock), Contents(u.fs, p)),
          Returns)

\* The temporary file and directory are removed on every way out.
BugRemovesDirFirst(w) == UNION {TryRemove(u, TempFile) : u \in TryRemove(w, TempDir)}

RemoveTemp(w) == UNION {TryRemove(u, TempDir) : u \in TryRemove(w, TempFile)}

\* The command rejects "bad", and the placeholder must be there once.
Rejects(verify, data) == verify = "command" /\ data = "bad"

BugVerifyAfterWrite(w, p, data, verify) ==
    Then(WriteFile(w, p, data), LAMBDA u :
        IF Rejects(verify, data) THEN Ends("error", u) ELSE Ends("changed", u))

VerifiedWrite(w, p, data, verify) ==
    IF verify = "malformed"
    THEN Ends("error", w)
    ELSE Then(Mkdir(w, TempDir, "0700"), LAMBDA u :
        Deferred(
            Then(WriteFile(u, TempFile, data), LAMBDA v :
                Ask(v, LAMBDA x :
                    IF Rejects(verify, data) THEN Ends("error", x)
                    ELSE Then(WriteFile(x, p, data), Done))),
            RemoveTemp))

BugBackupAfterWrite(c, w, content) ==
    LET Replace(u) ==
            UNION {IF o.res = "changed" /\ c.backup THEN Then(Backup(o.w, Dest), Done) ELSE {o} :
                   o \in IF c.verify # "none" THEN VerifiedWrite(u, Dest, content, c.verify)
                         ELSE Then(WriteFile(u, Dest, content), Done)}
    IN IF content = "none" \/ ~IsDir(w.fs, Parent(Dest)) THEN Ends("error", w)
       ELSE AskOr(w, Contents(w.fs, Dest) = content,
                  LAMBDA u : Ends("unchanged", u), Replace)

ReplaceDest(c, w, content) ==
    LET Write(u) == IF c.verify # "none"
                    THEN VerifiedWrite(u, Dest, content, c.verify)
                    ELSE Then(WriteFile(u, Dest, content), Done)
        Replace(u) == IF c.backup THEN Then(Backup(u, Dest), Write) ELSE Write(u)
    IN IF content = "none" \/ ~IsDir(w.fs, Parent(Dest)) THEN Ends("error", w)
       ELSE AskOr(w, Contents(w.fs, Dest) = content,
                  LAMBDA u : Ends("unchanged", u), Replace)

ExecuteCopy(c, w) == Ask(w, LAMBDA u : ReplaceDest(c, u, Source(c, u)))

ExecuteTemplate(c, w) == Ask(w, LAMBDA u : ReplaceDest(c, u, Rendered(Source(c, u))))

-----------------------------------------------------------------------------
(***************************************************************************)
(* unarchive: the extraction, then the owner and mode of the whole tree.   *)
(* A marker holds the hash of the archive that was extracted last.         *)
(***************************************************************************)

\* The archive "v1" has a directory and a file, "v2" a second file more.
Members(data) == {Lib, Main} \cup (IF data = "v2" THEN {More} ELSE {})

Extracted(f, data, S) ==
    [q \in DOMAIN f \cup S |-> IF q \notin S THEN f[q]
                              ELSE IF q = Lib THEN NewDir("0755") ELSE NewFile(data)]

Readable(data) == data \in {"v1", "v2"}

\* The verdict quotes twelve characters of a marker that differs.
CheckArchive(c, w) ==
    IF Source(c, w) = "none"
    THEN Ends(IF c.source = "remote" THEN "unsatisfied" ELSE "error", w)
    ELSE AskOr(w, IsFile(w.fs, Marker),
        LAMBDA u : IF Contents(u.fs, Marker) = "cut" THEN Ends("panic", u)
                   ELSE Verdict(Contents(u.fs, Marker) = Source(c, w), u),
        LAMBDA u : Verdict(FALSE, u))

\* The marker names the archive there is.
Marked(c, w) == Source(c, w) # "none" /\ Contents(w.fs, Marker) = Source(c, w)

\* tar on the target; the archive is removed whatever the tool returns.
RunTool(w, data) ==
    LET Left(S) == WithFiles(w, Extracted(w.fs, data, S))
    IN (UNION {Lost(Left(S)) : S \in SUBSET Members(data)})
       \cup (IF Readable(data) THEN Returns(Left(Members(data))) ELSE Ends("error", w))

ExtractWithTool(w, data) ==
    Then(WriteFile(w, Archive, data), LAMBDA u :
        Deferred(RunTool(u, data), LAMBDA v : TryRemove(v, Archive)))

\* Entry by entry through the file calls; a directory that could not be made
\* is passed over.
ExtractWithGo(w, data) ==
    LET Second(u) == IF More \in Members(data) THEN WriteFile(u, More, data) ELSE Returns(u)
        Files(u)  == Then(WriteFile(u, Main, data), Second)
    IN IF ~Readable(data) THEN Ends("error", w)
       ELSE Try(w, WithFiles(w, WithMode(AllMade(w.fs, Lib), Lib, "0755")), Files)

BugMarkerFirst(c, w) ==
    LET data == Source(c, w)
        Extract(u) == AskOr(u, u.tool,
            LAMBDA v : Then(ExtractWithTool(v, data), Done),
            LAMBDA v : Then(ExtractWithGo(v, data), Done))
    IN IF data = "none" THEN Ends("error", w)
       ELSE IF Contents(w.fs, Marker) = data THEN Ends("unchanged", w)
       ELSE Then(Mkdir(w, Dest, "0755"), LAMBDA u :
            Then(Mkdir(u, StateDir, "0755"), LAMBDA v :
            Then(WriteFile(v, Marker, data), Extract)))

ExecuteArchive(c, w) ==
    LET data == Source(c, w)
        Mark(u)    == Then(WriteFile(u, Marker, data), Done)
        Extract(u) == AskOr(u, u.tool,
            LAMBDA v : Then(ExtractWithTool(v, data), Mark),
            LAMBDA v : Then(ExtractWithGo(v, data), Mark))
    IN IF data = "none" THEN Ends("error", w)
       ELSE AskOr(w, Contents(w.fs, Marker) = data,
            LAMBDA u : Ends("unchanged", u),
            LAMBDA u : Then(Mkdir(u, Dest, "0755"), LAMBDA v :
                       Then(Mkdir(v, StateDir, "0755"), Extract)))

-----------------------------------------------------------------------------
(***************************************************************************)
(* The declarations and the worlds there are.                              *)
(***************************************************************************)

FileConfig ==
    LET Of(kinds, sources, modes, owners) ==
            [kind: kinds, source: sources, mode: modes, owner: owners, checksum: Value,
             verify: {"none", "command", "malformed"}, backup: BOOLEAN]
    IN Of({"dir"}, {"none"}, Value, Value)
       \cup Of({"symlink"}, {"none"}, {"none"}, {"none"})
       \cup Of({"copy", "template"}, {"local", "remote", "target"}, Value, Value)
       \cup Of({"unarchive"}, {"local", "remote"}, Value, Value)

NodeRecord ==
    [kind: {"file", "dir", "link"}, data: Value, mode: Value, owner: Value, to: {<<>>, Other}]

\* What is there is in a directory that is there.  The one link is that of the
\* step symlink, or one in its place.
IsTree(f) ==
    /\ f \in [DOMAIN f -> NodeRecord]
    /\ \A q \in DOMAIN f :
          /\ q # <<>>
          /\ \A p \in Prefixes(q) \ {q} : Exists(f, p) /\ f[p].kind = "dir"
          /\ f[q].kind = "link" => q = Dest /\ f[q].to = Other

\* The tree of an archive has files where the archive has them, and the marker
\* is scampi's own.
IsUnpacked(f) ==
    /\ ~IsLink(f, Dest)
    /\ \A q \in {Main, More, Marker} : Exists(f, q) => f[q].kind = "file"
    /\ Contents(f, Marker) \in {"none", "cut", "v1", "v2"}

IsFileWorld(c, w) ==
    /\ w \in [fault: BOOLEAN, fs: {w.fs}, users: SUBSET Value, tool: BOOLEAN, clock: 0 .. 2,
              source: Value, remote: Value \ {"none"}, cache: Value, meta: Value]
    /\ IsTree(w.fs)
    /\ c.kind = "unarchive" => IsUnpacked(w.fs)

-----------------------------------------------------------------------------
(***************************************************************************)
(* The ops of a step and their order.                                      *)
(***************************************************************************)

MainOp(c) == CASE c.kind = "dir" -> "dir"
               [] c.kind = "symlink" -> "link"
               [] c.kind \in {"copy", "template"} -> "content"
               [] c.kind = "unarchive" -> "archive"

FileOps(c) ==
    {MainOp(c)} \cup
    (IF c.source = "remote" THEN {"download"} ELSE {}) \cup
    (IF c.mode # "none" THEN {"mode"} ELSE {}) \cup
    (IF c.owner # "none" THEN {"owner"} ELSE {})

FileDeps(c, o) == CASE o \in {"mode", "owner"} -> {MainOp(c)}
                    [] o = MainOp(c) -> FileOps(c) \cap {"download"}
                    [] o = "download" -> {}

Deep(c) == c.kind = "unarchive"

FileCheck(c, o, w) ==
    CASE o = "dir"      -> CheckDir(w)
      [] o = "link"     -> CheckLink(w)
      [] o = "content"  -> IF c.kind = "copy" THEN CheckCopy(c, w) ELSE CheckTemplate(c, w)
      [] o = "archive"  -> CheckArchive(c, w)
      [] o = "download" -> CheckDownload(c, w)
      [] o = "mode"     -> CheckMode(w, Dest, c.mode, Deep(c))
      [] o = "owner"    -> CheckOwner(w, Dest, c.owner, Deep(c))

FileExecute(c, o, w) ==
    CASE o = "dir"      -> ExecuteDir(w)
      [] o = "link"     -> ExecuteLink(w)
      [] o = "content"  -> IF c.kind = "copy" THEN ExecuteCopy(c, w) ELSE ExecuteTemplate(c, w)
      [] o = "archive"  -> ExecuteArchive(c, w)
      [] o = "download" -> ExecuteDownload(c, w)
      [] o = "mode"     -> ExecuteMode(w, Dest, c.mode, Deep(c))
      [] o = "owner"    -> ExecuteOwner(w, Dest, c.owner, Deep(c))

-----------------------------------------------------------------------------
(***************************************************************************)
(* What the declaration says the target is to look like, without a word of *)
(* how the ops find out.                                                   *)
(***************************************************************************)

\* The version the declaration names now.
Declared(c, w) == CASE c.source = "remote" -> IF c.checksum # "none" THEN c.checksum
                                                                     ELSE w.remote
                    [] c.source = "local"  -> w.source
                    [] c.source = "target" -> Contents(w.fs, Other)
                    [] c.source = "none"   -> "none"

\* The directory is left out: an error in making it is dropped.
Unpacked(f, data) ==
    \A q \in Members(data) \ {Lib} : Contents(f, q) = data

Managed(c, w) == IF Deep(c) THEN Tree(w.fs, Dest) ELSE {Follow(w.fs, Dest)}

OwnerAndMode(c, w) ==
    LET AllHave(field, value) ==
            \A q \in Managed(c, w) : Exists(w.fs, q) /\ w.fs[q][field] = value
    IN /\ c.mode # "none" => AllHave("mode", c.mode)
       /\ c.owner # "none" => AllHave("owner", c.owner)

FileDesired(c, w) ==
    /\ c.kind = "dir" => IsDir(w.fs, Dest)
    /\ c.kind = "symlink" => IsLink(w.fs, Dest) /\ w.fs[Dest].to = Other
    /\ c.kind \in {"copy", "template"} => Contents(w.fs, Dest) = Declared(c, w)
    /\ c.kind = "unarchive" => Unpacked(w.fs, Declared(c, w))
    /\ OwnerAndMode(c, w)

\* The declaration can be met: there is something to write and a place for it.
FileFeasible(c, w) ==
    LET data == Declared(c, w)
    IN /\ IsDir(w.fs, Parent(Dest))
       /\ c.owner \in w.users \cup {"none"}
       /\ c.kind \in {"copy", "template", "unarchive"} => data # "none"
       /\ c.checksum \in {"none", w.remote, w.cache}
       /\ c.kind \in {"copy", "template"} => ~IsDir(w.fs, Dest)
       /\ c.kind = "template" => data # "bad"
       /\ c.kind = "unarchive" => Readable(data) /\ ~IsFile(w.fs, Dest)
       /\ c.verify # "malformed" /\ ~Rejects(c.verify, data)

\* What only a hand on the target or in the cache can mend: a step that fails
\* in its checks, before it comes to what would put it right, a download taken
\* for another version, and a marker that vouches for an extraction which a
\* later one, broken off, has spoilt.
FileStuck(c, w) ==
    LET told == Contents(w.fs, Marker)
    IN \/ c.source = "remote" /\ Mislabelled(c, w)
       \/ c.kind = "template" /\ c.source = "remote" /\ w.cache \in {"bad", "cut"}
       \/ c.kind = "unarchive" /\ told = "cut"
       \/ c.kind = "unarchive" /\ Readable(told) /\ ~Unpacked(w.fs, told)

\* What no check of the step looks at: whether the tree the marker vouches for
\* is still whole, and whether the copy is what its ETag says.
FileUnseen(c, w) ==
    /\ OwnerAndMode(c, w)
    /\ \/ /\ c.kind = "unarchive" /\ Contents(w.fs, Marker) = Declared(c, w)
          /\ ~Unpacked(w.fs, Declared(c, w))
       \/ /\ c.source = "remote" /\ Mislabelled(c, w)
          /\ IF c.kind = "unarchive" THEN Marked(c, w) ELSE HasContent(c, w)

\* The part of the world that belongs to the target, scampi's own marks aside.
FileTarget(w) == [q \in DOMAIN w.fs \ {StateDir, Marker} |-> w.fs[q]]
=============================================================================

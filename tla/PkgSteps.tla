------------------------------- MODULE PkgSteps -------------------------------
(***************************************************************************)
(* The step kind pkg: the packages of a step are installed, removed or     *)
(* brought up to date, after the key and the configuration of a third      *)
(* party's repository where the step names one.                            *)
(*                                                                         *)
(* World: have, the version of each package, "no" without it; mirror, the  *)
(* version the repository offers; index, the one the package index knows,  *)
(* "none" if it knows none; fresh, the index is less than a second old;    *)
(* key and repo, the files of a third party's repository; remote, cache    *)
(* and meta for the download of the key.                                   *)
(***************************************************************************)
EXTENDS Downloads

\* The package manager trusts a repository with the key that signs it.
Usable(c, w) == c.third => w.repo = "good" /\ w.key = w.remote

Updated(c, w) == [w EXCEPT !.index = IF Usable(c, w) THEN w.mirror ELSE "none", !.fresh = TRUE]

\* A repository that is configured and cannot be used fails the update.
UpdateCache(c, w) ==
    IF c.third /\ w.repo # "none" /\ ~Usable(c, w)
    THEN Ends("error", w)
    ELSE Call(w, Updated(c, w), Returns)

\* The packages of T are brought to the version v.
Having(w, T, v) ==
    [w EXCEPT !.have = [p \in DOMAIN @ |-> IF p \in T THEN v ELSE @[p]]]

\* An installation fails when the index names what the repository no longer
\* has, and leaves some of the packages when it breaks off.
InstallPkgs(w, S) ==
    (UNION {Lost(Having(w, T, w.index)) : T \in SUBSET S})
    \cup (IF w.index = w.mirror THEN Returns(Having(w, S, w.index)) ELSE Ends("error", w))

RemovePkgs(w, S) ==
    (UNION {Lost(Having(w, T, "no")) : T \in SUBSET S}) \cup Done(Having(w, S, "no"))

-----------------------------------------------------------------------------
(***************************************************************************)
(* The packages: present, absent or latest.                                *)
(***************************************************************************)

Missing(w) == {p \in DOMAIN w.have : w.have[p] = "no"}
Upgradable(w) == {p \in DOMAIN w.have \ Missing(w) : w.index \notin {"none", w.have[p]}}

Actionable(c, w) == CASE c.state = "present" -> Missing(w)
                      [] c.state = "absent"  -> DOMAIN w.have \ Missing(w)
                      [] c.state = "latest"  -> Missing(w) \cup Upgradable(w)

\* The index is taken as it is.
CheckPkgs(c, w) == Ask(w, LAMBDA u : Verdict(Actionable(c, u) = {}, u))

Fails(w) == Ends("error", w)

BugNoRetry(c, w, S) == Fails(w)

\* One more try with a new index, unless this one is new.
RetryInstall(c, w, S) ==
    AskOr(w, w.fresh, Fails, LAMBDA u :
        Then(UpdateCache(c, u), LAMBDA v : Then(InstallPkgs(v, S), Done)))

\* latest refreshes the index before it looks again.
ExecuteLatest(c, w) ==
    Then(UpdateCache(c, w), LAMBDA u : Ask(u, LAMBDA v :
        IF Actionable(c, v) = {} THEN Ends("unchanged", v)
        ELSE Then(InstallPkgs(v, Actionable(c, v)), Done)))

ExecutePkgs(c, w) ==
    LET todo == Actionable(c, w)
    IN IF c.state = "latest" THEN ExecuteLatest(c, w)
       ELSE Unless(todo = {}, w, LAMBDA u :
                IF c.state = "absent" THEN RemovePkgs(u, todo)
                ELSE ThenOr(InstallPkgs(u, todo), Done, LAMBDA v : RetryInstall(c, v, todo)))

-----------------------------------------------------------------------------
(***************************************************************************)
(* The repository: whatever is in the file of its key or its configuration *)
(* is taken for what should be there.                                      *)
(***************************************************************************)

CheckKey(w)  == Ask(w, LAMBDA u : Verdict(u.key # "none", u))
CheckRepo(w) == Ask(w, LAMBDA u : Verdict(u.repo # "none", u))

ExecuteKey(w) ==
    IF w.cache = "none" THEN Fails(w)
    ELSE Lost([w EXCEPT !.key = "cut"]) \cup Call(w, [w EXCEPT !.key = w.cache], Done)

ExecuteRepo(c, w) ==
    Lost([w EXCEPT !.repo = "cut"])
    \cup Call(w, [w EXCEPT !.repo = "good"], LAMBDA u : Then(UpdateCache(c, u), Done))

-----------------------------------------------------------------------------
(***************************************************************************)
(* The declarations and the worlds there are.                              *)
(***************************************************************************)

PkgConfig ==
    [kind: {"pkg"}, state: {"present", "absent", "latest"}, third: BOOLEAN, checksum: Value]

IsPkgWorld(w) ==
    w \in [fault: BOOLEAN, have: [DOMAIN w.have -> Value], mirror: Value \ {"no", "none"},
           index: Value \ {"no"}, fresh: BOOLEAN, key: Value, repo: {"none", "good", "cut"},
           remote: Value \ {"none"}, cache: Value, meta: Value]

-----------------------------------------------------------------------------
(***************************************************************************)
(* The ops of a step, and what its declaration asks for.                   *)
(***************************************************************************)

PkgOps(c) == {"pkgs"} \cup (IF c.third THEN {"download", "key", "repo"} ELSE {})

PkgDeps(c, o) == PkgOps(c) \cap CASE o = "pkgs" -> {"repo"}
                                  [] o = "repo" -> {"key"}
                                  [] o = "key"  -> {"download"}
                                  [] o = "download" -> {}

PkgCheck(c, o, w) == CASE o = "pkgs" -> CheckPkgs(c, w)
                       [] o = "repo" -> CheckRepo(w)
                       [] o = "key"  -> CheckKey(w)
                       [] o = "download" -> CheckDownload(c, w)

PkgExecute(c, o, w) == CASE o = "pkgs" -> ExecutePkgs(c, w)
                         [] o = "repo" -> ExecuteRepo(c, w)
                         [] o = "key"  -> ExecuteKey(w)
                         [] o = "download" -> ExecuteDownload(c, w)

PkgDesired(c, w) ==
    /\ Usable(c, w)
    /\ \A p \in DOMAIN w.have : CASE c.state = "present" -> w.have[p] # "no"
                                  [] c.state = "absent"  -> w.have[p] = "no"
                                  [] c.state = "latest"  -> w.have[p] = w.mirror

\* A key that was replaced or cut short, a configuration cut short.
RepoSpoilt(w) == w.key \notin {"none", w.remote} \/ w.repo = "cut"

\* An index less than a second old that is out of date all the same is not
\* made anew, and a mislabelled download gives a wrong key.
PkgStuck(c, w) ==
    \/ c.third /\ (RepoSpoilt(w) \/ Mislabelled(c, w))
    \/ c.state = "present" /\ w.fresh /\ w.index # w.mirror

\* Where the packages are there, or not there, nobody looks into the files of
\* the repository; an index that knows of nothing newer is taken at its word.
PkgUnseen(c, w) ==
    /\ Actionable(c, w) = {}
    /\ \/ c.third /\ RepoSpoilt(w)
       \/ c.state = "latest" /\ w.index # w.mirror
=============================================================================

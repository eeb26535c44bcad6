------------------------------ MODULE FileSystem ------------------------------
(***************************************************************************)
(* The files of a target, with the calls of internal/target/ssh/target.go  *)
(* on them.  A path is the sequence of its names, a file system maps the   *)
(* paths that exist to what is there.  The account scampi uses is root, or *)
(* may escalate without being asked, so no call is refused for lack of     *)
(* permission.  The contents of a file are one of a few values; "cut" is   *)
(* what a write that broke off leaves.                                     *)
(*                                                                         *)
(* A world w has the file system in w.fs and the fault flag of Calls.      *)
(***************************************************************************)
EXTENDS Naturals, Sequences, Calls

\* "to" is where a symbolic link points.
Node(kind, data, mode, owner) ==
    [kind |-> kind, data |-> data, mode |-> mode, owner |-> owner, to |-> <<>>]

NewLink(to) == [Node("link", "", "0777", "root") EXCEPT !.to = to]

NewFile(data) == Node("file", data, "0644", "root")
NewDir(mode)  == Node("dir", "", mode, "root")

Parent(p) == [i \in 1 .. Len(p) - 1 |-> p[i]]
Prefixes(p) == {SubSeq(p, 1, n) : n \in 1..Len(p)}
Below(f, p) == {q \in DOMAIN f : p \in Prefixes(q) \ {q}}

Exists(f, p) == p \in DOMAIN f
Put(f, p, node) == [q \in DOMAIN f \cup {p} |-> IF q = p THEN node ELSE f[q]]

\* Open, Stat, Chmod and Chown follow a symbolic link.
Follow(f, p) == IF Exists(f, p) /\ f[p].kind = "link" THEN f[p].to ELSE p

IsDir(f, p)  == p = <<>> \/ LET q == Follow(f, p)
                            IN Exists(f, q) /\ f[q].kind = "dir"
IsFile(f, p) == LET q == Follow(f, p) IN Exists(f, q) /\ f[q].kind = "file"
IsLink(f, p) == Exists(f, p) /\ f[p].kind = "link"
Stats(f, p)  == IsDir(f, p) \/ IsFile(f, p)

\* What ReadFile returns, "none" for an error.
Contents(f, p) == IF IsFile(f, p) THEN f[Follow(f, p)].data ELSE "none"

WithMode(f, p, mode)   == [f EXCEPT ![Follow(f, p)].mode = mode]
WithOwner(f, p, owner) == [f EXCEPT ![Follow(f, p)].owner = owner]

-----------------------------------------------------------------------------
(***************************************************************************)
(* The calls that change something, with what is left when they break off. *)
(***************************************************************************)

WithFiles(w, f) == [w EXCEPT !.fs = f]

\* Create truncates a file that is there, which keeps its mode and owner.
Holding(f, p, data) ==
    Put(f, p, IF Exists(f, p) THEN [f[p] EXCEPT !.data = data] ELSE NewFile(data))

WriteFile(w, p, data) ==
    LET q == Follow(w.fs, p)
    IN IF ~IsDir(w.fs, Parent(q)) \/ IsDir(w.fs, q)
       THEN Ends("error", w)
       ELSE Lost(WithFiles(w, Holding(w.fs, q, "cut")))
            \cup Call(w, WithFiles(w, Holding(w.fs, q, data)), Returns)

\* MkdirAll: the path and the parents it lacks, unless something else is there.
Blocked(f, p) == \E q \in Prefixes(p) : Exists(f, q) /\ ~IsDir(f, q)
AllMade(f, p) ==
    [q \in DOMAIN f \cup Prefixes(p) |-> IF Exists(f, q) THEN f[q] ELSE NewDir("0755")]

\* MkdirAll and Chmod, which also changes a directory that was there.
Mkdir(w, p, mode) ==
    IF Blocked(w.fs, p)
    THEN Ends("error", w)
    ELSE Call(w, WithFiles(w, AllMade(w.fs, p)), LAMBDA u :
         Call(u, WithFiles(u, WithMode(u.fs, p, mode)), Returns))

\* The entry itself, a link not followed; a directory only when empty.
Removable(f, p) == Exists(f, p) /\ (f[p].kind = "dir" => Below(f, p) = {})
Without(f, p) == [q \in DOMAIN f \ {p} |-> f[q]]

Remove(w, p) ==
    IF Removable(w.fs, p)
    THEN Call(w, WithFiles(w, Without(w.fs, p)), Returns)
    ELSE Ends("error", w)

\* The worlds a removal whose error is ignored may leave.
TryRemove(w, p) ==
    {Faulty(w)} \cup {IF Removable(w.fs, p) THEN WithFiles(w, Without(w.fs, p)) ELSE w}

Symlink(w, to, p) ==
    IF Exists(w.fs, p) \/ ~IsDir(w.fs, Parent(p))
    THEN Ends("error", w)
    ELSE Call(w, WithFiles(w, Put(w.fs, p, NewLink(to))), Returns)

Chmod(w, p, mode) ==
    Call(w, WithFiles(w, WithMode(w.fs, p, mode)), Returns)

\* resolveUser and resolveGroup come first.
Chown(w, p, owner) ==
    IF owner \notin w.users
    THEN Ends("error", w)
    ELSE Call(w, WithFiles(w, WithOwner(w.fs, p, owner)), Returns)

\* chmod -R and chown -R, cut short after the directory itself.
Tree(f, p) == {p} \cup Below(f, p)

AllWith(f, S, field, value) ==
    [q \in DOMAIN f |-> IF q \in S THEN [f[q] EXCEPT ![field] = value] ELSE f[q]]

SetRecursive(w, p, field, value) ==
    IF ~Exists(w.fs, p) THEN Ends("error", w)
    ELSE Lost(WithFiles(w, AllWith(w.fs, {p}, field, value)))
         \cup Call(w, WithFiles(w, AllWith(w.fs, Tree(w.fs, p), field, value)), Returns)

ChmodRecursive(w, p, mode) == SetRecursive(w, p, "mode", mode)

ChownRecursive(w, p, owner) ==
    IF owner \notin w.users THEN Ends("error", w) ELSE SetRecursive(w, p, "owner", owner)
=============================================================================

------------------------------ MODULE Downloads ------------------------------
(***************************************************************************)
(* DownloadOp: a file from a web server is fetched to a cache on the       *)
(* controller, for the steps that need it there.                           *)
(*                                                                         *)
(* World: remote, what the server offers; cache, the downloaded copy;      *)
(* meta, the version the ETag on record names, "none" without one.         *)
(***************************************************************************)
EXTENDS Calls

\* With a checksum a cached file is judged without asking the server; an
\* unreachable server leaves the verdict unsatisfied.
CheckDownload(c, w) ==
    IF c.checksum # "none" /\ w.cache # "none"
    THEN Verdict(w.cache = c.checksum, w)
    ELSE AskOr(w, w.meta = w.remote /\ w.cache # "none",
               LAMBDA u : Verdict(TRUE, u), LAMBDA u : Verdict(FALSE, u))

\* The ETag is written last, and an error of that is dropped.
Label(w) == Try(w, [w EXCEPT !.meta = w.remote], Done)

\* The copy is written in place.
Fetch(w) == Lost([w EXCEPT !.cache = "cut"]) \cup Call(w, [w EXCEPT !.cache = w.remote], Label)

BugCachesUnverified(c, w) ==
    IF c.checksum # "none" /\ w.cache = c.checksum
    THEN Ends("unchanged", w)
    ELSE Ask(w, Fetch)

\* Nothing is cached that fails its checksum.
ExecuteDownload(c, w) ==
    IF c.checksum # "none" /\ w.cache = c.checksum
    THEN Ends("unchanged", w)
    ELSE Ask(w, LAMBDA u :
        IF c.checksum \notin {"none", u.remote}
        THEN Ends("error", u)
        ELSE Fetch(u))

\* The ETag on record is that of what the server offers now, and the copy
\* beside it is another one: a fetch broke off between the two, or in the first.
Mislabelled(c, w) ==
    c.checksum = "none" /\ w.meta = w.remote /\ w.cache \notin {"none", w.remote}
=============================================================================

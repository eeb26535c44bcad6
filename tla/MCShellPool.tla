---------------------------- MODULE MCShellPool ----------------------------
(* Small instances of ShellPool for TLC. *)
EXTENDS ShellPool

\* internal/target/ssh/shell_session.go:127: a session marked unsafe "must not
\* be reused".  A watcher whose op is cancelled as the command ends marks the
\* session after it was released, and acquire does not ask.
UnsafeNotReused ==
    [][\A c \in Caller : pc[c] # "held" /\ pc'[c] = "held" => sess'[c] \notin unsafe']_vars
=============================================================================

----------------------------- MODULE MCStepClaims -----------------------------
(***************************************************************************)
(* Apply of a whole configuration, a mount, packages, a file and a         *)
(* firewall rule, one step after the other, each on its own part of the    *)
(* target.  What about.md says of apply the code does not keep for any of  *)
(* the four, on a target as it is met every day: the file system is not    *)
(* mounted yet, the index of packages is older than the mirror, a file was *)
(* updated on its server, a port was denied before.                        *)
(***************************************************************************)
EXTENDS MCStepKinds

Plan == <<[kind |-> "mount", state |-> "mounted", opts |-> "rw"],
          [kind |-> "pkg", state |-> "latest", third |-> FALSE, checksum |-> "none"],
          FileCfg("copy", "remote", "none", "none"),
          [kind |-> "firewall", action |-> "allow"]>>

PlanConfigs == {Plan[i] : i \in DOMAIN Plan}

EverydayWorlds(c) ==
    {x \in KindWorlds(c) :
        CASE c.kind = "mount"    -> x.mounted = "none"
          [] c.kind = "pkg"      -> x.index # x.mirror /\ \A p \in DOMAIN x.have : x.have[p] = x.index
          [] c.kind = "copy"     -> /\ IsFile(x.fs, Dest) /\ ~IsLink(x.fs, Dest)
                                    /\ Contents(x.fs, Dest) = x.cache
                                    /\ x.cache = x.meta /\ x.meta # x.remote
          [] c.kind = "firewall" -> /\ x.firewalld /\ ~x.ufw
                                    /\ x.permanent = {"deny"} /\ x.runtime = {"deny"}}

VARIABLE applied    \* the steps applied so far, and what each left

ApplyInit == Init /\ cfg = Plan[1] /\ applied = <<>>

\* The step has been applied, and no call of it failed.
Applied ==
    /\ CleanRun /\ result = "ok"
    /\ applied' = Append(applied, [cfg |-> cfg, w |-> w])

NextStep ==
    /\ Applied /\ Len(applied') < Len(Plan)
    /\ cfg' = Plan[Len(applied') + 1]
    /\ w' \in Worlds(cfg') /\ before' = w'
    /\ verdict' = [o \in Ops(cfg') |-> "none"]
    /\ phase' = "idle" /\ left' = {} /\ changed' = FALSE /\ result' = "none"
    /\ streak' = 0 /\ runs' = 0
    /\ UNCHANGED <<edited, edits>>

LastStep == Applied /\ Len(applied') = Len(Plan) /\ UNCHANGED vars

ApplyNext ==
    \/ Len(applied) < Len(Plan) /\ (NextStep \/ LastStep)
    \/ Next /\ UNCHANGED applied

ApplySpec == ApplyInit /\ [][ApplyNext]_<<vars, applied>>

\* site/content/about.md:141-142: "When `scampi apply` finishes, the target is in
\* the declared state."
ImmediateConvergence ==
    Len(applied) = Len(Plan) => \A i \in DOMAIN applied : Desired(applied[i].cfg, applied[i].w)
=============================================================================

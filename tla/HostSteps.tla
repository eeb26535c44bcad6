------------------------------ MODULE HostSteps ------------------------------
(***************************************************************************)
(* The step kinds that manage a host's accounts, services, kernel          *)
(* parameters, mounts and firewall rules, each with its Check and its      *)
(* Execute.  Where the code asks a tool of the host, the tool's answer is  *)
(* what the tool gives on a Linux host.                                    *)
(***************************************************************************)
EXTENDS Naturals, FiniteSets, Calls

-----------------------------------------------------------------------------
(***************************************************************************)
(* group.  World: gid, the group's number, "none" without the group.       *)
(***************************************************************************)

\* Only the name is looked at, not the number.
CheckGroup(w)   == Ask(w, LAMBDA u : Verdict(u.gid # "none", u))
CheckNoGroup(w) == Ask(w, LAMBDA u : Verdict(u.gid = "none", u))

ExecuteGroup(c, w) ==
    Unless(w.gid # "none", w, LAMBDA u : Call(u, [u EXCEPT !.gid = c.gid], Done))

RemoveGroup(w) ==
    Unless(w.gid = "none", w, LAMBDA u : Call(u, [u EXCEPT !.gid = "none"], Done))

GroupDesired(c, w) == w.gid = IF c.state = "present" THEN c.gid ELSE "none"

-----------------------------------------------------------------------------
(***************************************************************************)
(* user.  World: there, shell, homedir (the path in the account), groups,  *)
(* password, and home, whose the declared home directory is ("none" when   *)
(* it does not exist).                                                     *)
(***************************************************************************)

\* GetUser: when id fails, the supplementary groups are taken to be none, or
\* to include the primary group.
GetUser(w) ==
    {[w |-> w, groups |-> w.groups],
     [w |-> Faulty(w), groups |-> {}],
     [w |-> Faulty(w), groups |-> w.groups \cup {"app"}]}

\* {"any"} are groups that are not declared.
AccountDrifts(c, w, groups) ==
    \/ c.shell \notin {"none", w.shell}
    \/ c.home /\ w.homedir # "declared"
    \/ c.groups # {"any"} /\ groups # c.groups

\* Whoever the owner is: a home that does not exist is no drift.
HomeDrifts(c, w) == c.home /\ w.home \notin {"none", "own"}

CheckUser(c, w) ==
    LET Judge(v, groups) ==
            LET account == AccountDrifts(c, v, groups)
            IN IF ~c.home THEN Verdict(~account, v)
               ELSE Ask(v, LAMBDA x : Verdict(~account /\ ~HomeDrifts(c, x), x))
    IN Ask(w, LAMBDA u :
        IF ~u.there THEN Verdict(FALSE, u)
        ELSE Ask(u, LAMBDA v : UNION {Judge(a.w, a.groups) : a \in GetUser(v)}))

CheckNoUser(w) == Ask(w, LAMBDA u : Verdict(~u.there, u))

Account(c, w) ==
    [w EXCEPT !.there = TRUE,
              !.shell = IF c.shell = "none" THEN @ ELSE c.shell,
              !.homedir = IF c.home THEN "declared" ELSE @,
              !.password = IF c.password = "none" THEN @ ELSE c.password,
              !.groups = IF c.groups = {"any"} THEN @ ELSE c.groups]

NoAccount(w) == [w EXCEPT !.there = FALSE, !.shell = "sh", !.homedir = "default",
                          !.password = "locked", !.groups = {}]

BugHomeUnreported(c, w, changed) ==
    LET was == IF changed THEN "changed" ELSE "unchanged"
    IN IF ~c.home THEN Ends(was, w)
       ELSE Ask(w, LAMBDA u : IF ~HomeDrifts(c, u) THEN Ends(was, u)
                              ELSE Call(u, [u EXCEPT !.home = "own"], LAMBDA v : Ends(was, v)))

\* reconcileHomeOwnership
ReconcileHome(c, w, changed) ==
    LET was == IF changed THEN "changed" ELSE "unchanged"
    IN IF ~c.home THEN Ends(was, w)
       ELSE Ask(w, LAMBDA u : IF ~HomeDrifts(c, u) THEN Ends(was, u)
                              ELSE Call(u, [u EXCEPT !.home = "own"], Done))

Housed(c, w) == [w EXCEPT !.home = IF c.home /\ @ = "none" THEN "own" ELSE @]

\* useradd makes the account before the home directory, and leaves one alone
\* that is there; usermod does not make one.
ExecuteUser(c, w) ==
    LET Add(u) ==
            Lost(Account(c, u))
            \cup Call(u, Housed(c, Account(c, u)), LAMBDA v : ReconcileHome(c, v, TRUE))
        Modify(u, groups) ==
            IF AccountDrifts(c, u, groups) \/ c.password # "none"
            THEN Call(u, Account(c, u), LAMBDA v : ReconcileHome(c, v, TRUE))
            ELSE ReconcileHome(c, u, FALSE)
    IN Ask(w, LAMBDA u : IF ~u.there THEN Add(u)
                         ELSE Ask(u, LAMBDA v : UNION {Modify(a.w, a.groups) : a \in GetUser(v)}))

RemoveUser(w) == Unless(~w.there, w, LAMBDA u : Call(u, NoAccount(u), Done))

UserDesired(c, w) ==
    /\ w.there = (c.state = "present")
    /\ w.there => /\ ~AccountDrifts(c, w, w.groups)
                  /\ c.home => w.home = "own"
                  /\ c.password \in {"none", w.password}

\* Neither the password of an account that is there nor a home directory
\* that was lost is looked at again.
UserUnseen(c, w) ==
    /\ c.state = "present" /\ w.there /\ ~AccountDrifts(c, w, w.groups)
    /\ c.home => w.home \in {"none", "own"}
    /\ c.password \notin {"none", w.password} \/ (c.home /\ w.home = "none")

-----------------------------------------------------------------------------
(***************************************************************************)
(* service.  World: unit, the version of the unit file; loaded, the one    *)
(* the service manager knows; running, the one the service was started     *)
(* with, "no" when it is stopped; enabled.                                 *)
(***************************************************************************)

ServiceOps(c) == IF c.state \in {"running", "stopped"} THEN {"active", "enabled"}
                                                       ELSE {c.state}

DaemonReload(w) == Call(w, [w EXCEPT !.loaded = w.unit], Returns)

\* Restart starts a stopped service, Reload fails on one.
StartService(w)   == Call(w, [w EXCEPT !.running = w.loaded], Done)
StopService(w)    == Call(w, [w EXCEPT !.running = "no"], Done)
RestartService(w) == Lost([w EXCEPT !.running = "no"]) \cup StartService(w)
ReloadService(w)  == IF w.running = "no" THEN Ends("error", w) ELSE StartService(w)

CheckActive(c, w) ==
    Ask(w, LAMBDA u : Verdict((u.running # "no") = (c.state = "running"), u))

CheckEnabled(c, w) == Ask(w, LAMBDA u : Verdict(u.enabled = c.enabled, u))

BugStartsUnreloaded(c, w) ==
    Unless((w.running # "no") = (c.state = "running"), w, LAMBDA u :
        IF c.state = "running" THEN StartService(u) ELSE StopService(u))

ExecuteActive(c, w) ==
    Unless((w.running # "no") = (c.state = "running"), w, LAMBDA u :
        IF c.state = "running" THEN Then(DaemonReload(u), StartService) ELSE StopService(u))

ExecuteEnabled(c, w) ==
    Unless(w.enabled = c.enabled, w, LAMBDA u :
        Call(u, [u EXCEPT !.enabled = c.enabled], Done))

\* Always unsatisfied; without support for it a reload is a restart.
ExecuteRestart(c, w) ==
    Then(DaemonReload(w), LAMBDA u :
        IF c.state = "reloaded" /\ c.reloads THEN ReloadService(u) ELSE RestartService(u))

ServiceDesired(c, w) ==
    /\ c.state = "running" => w.running # "no"
    /\ c.state = "stopped" => w.running = "no"
    /\ c.state \in {"running", "stopped"} => w.enabled = c.enabled
    /\ c.state \in {"restarted", "reloaded"} => w.running = w.unit

-----------------------------------------------------------------------------
(***************************************************************************)
(* sysctl.  World: live, the kernel's value; dropin, the value in the file *)
(* of the key, "none" without the file.                                    *)
(***************************************************************************)

SysctlOps(c) == {"set", IF c.persist THEN "persist" ELSE "cleanup"}

CheckSet(c, w)     == Ask(w, LAMBDA u : Verdict(u.live = c.value, u))
CheckPersist(c, w) == Ask(w, LAMBDA u : Verdict(u.dropin = c.value, u))
CheckCleanup(w)    == Ask(w, LAMBDA u : Verdict(u.dropin = "none", u))

ExecuteSet(c, w) == Call(w, [w EXCEPT !.live = c.value], Done)

ExecutePersist(c, w) ==
    Lost([w EXCEPT !.dropin = "cut"]) \cup Call(w, [w EXCEPT !.dropin = c.value], Done)

ExecuteCleanup(w) ==
    IF w.dropin = "none" THEN Ask(w, LAMBDA u : Ends("unchanged", u))
                         ELSE Call(w, [w EXCEPT !.dropin = "none"], Done)

SysctlDesired(c, w) == /\ w.live = c.value
                       /\ w.dropin = IF c.persist THEN c.value ELSE "none"

-----------------------------------------------------------------------------
(***************************************************************************)
(* mount.  World: fstab, the options in its line for the mount point,      *)
(* "none" without one; others, the rest of the file is whole; dir, the     *)
(* mount point exists; mounted, the options it is mounted with; helper,    *)
(* the mount helper is installed.                                          *)
(***************************************************************************)

\* findmnt --target names the file system a path is on, whatever that is.
FindmntTarget(w) == w.mounted # "none" \/ w.dir

FstabCut(w) == [w EXCEPT !.fstab = "none", !.others = FALSE]

BugFstabLineKept(c, w) ==
    Ask(w, LAMBDA u : Lost(FstabCut(u))
                      \cup Call(u, [u EXCEPT !.fstab = IF @ = "none" THEN c.opts ELSE @], Returns))

\* The whole file is written again; a write that breaks off loses what is in it.
EnsureFstab(c, w) ==
    Ask(w, LAMBDA u : Lost(FstabCut(u))
                      \cup Call(u, [u EXCEPT !.fstab = c.opts], Returns))

RemoveFstab(w) ==
    Ask(w, LAMBDA u : Lost(FstabCut(u))
                      \cup Call(u, [u EXCEPT !.fstab = "none"], Done))

\* An unreadable fstab has no entry, an unanswered findmnt found no mount.
CheckMount(c, w) ==
    LET Judge(v, fstab, mounted) ==
            CASE c.state = "mounted"   -> Verdict(fstab = c.opts /\ mounted, v)
              [] c.state = "unmounted" -> Verdict(fstab = c.opts /\ ~mounted, v)
              [] c.state = "absent"    -> Verdict(fstab = "none" /\ ~mounted, v)
        Mounted(v, fstab) == AskOr(v, FindmntTarget(v),
            LAMBDA x : Judge(x, fstab, TRUE), LAMBDA x : Judge(x, fstab, FALSE))
        Look(u) == Mounted(u, u.fstab) \cup Mounted(Faulty(u), "none")
    IN IF c.state = "absent" THEN Look(w)
       ELSE IF ~w.helper THEN Ends("error", w)
       ELSE Ask(w, Look)

\* mount reads the options from fstab and fails on what is mounted, umount on
\* what is not.
DoMount(w) == IF ~w.dir \/ w.mounted # "none" THEN Ends("error", w)
              ELSE Call(w, [w EXCEPT !.mounted = w.fstab], Done)
DoUnmount(w) == IF w.mounted = "none" THEN Ends("error", w)
                         ELSE Call(w, [w EXCEPT !.mounted = "none"], Returns)

Unmount(w) == AskOr(w, FindmntTarget(w), DoUnmount, Returns)

MountIfNot(w) == AskOr(w, FindmntTarget(w), Done, DoMount)
Point(w) == Try(w, [w EXCEPT !.dir = TRUE], MountIfNot)

ExecuteMount(c, w) ==
    CASE c.state = "mounted"   -> Then(EnsureFstab(c, w), Point)
      [] c.state = "unmounted" -> Then(EnsureFstab(c, w), LAMBDA u : Then(Unmount(u), Done))
      [] c.state = "absent"    -> Then(Unmount(w), RemoveFstab)

MountDesired(c, w) ==
    /\ w.fstab = IF c.state = "absent" THEN "none" ELSE c.opts
    /\ w.mounted = IF c.state = "mounted" THEN c.opts ELSE "none"

\* The mount point lies on some file system whether or not it is mounted: what
\* is not mounted passes for mounted, and umount is tried on it, and fails.
MountUnseen(c, w) ==
    c.state = "mounted" /\ w.fstab = c.opts /\ w.dir /\ w.mounted # c.opts
MountStuck(c, w) == c.state # "mounted" /\ w.dir /\ w.mounted = "none"

-----------------------------------------------------------------------------
(***************************************************************************)
(* firewall.  World: ufw and firewalld are installed; added, what ufw does *)
(* with the port, "none" without a rule; permanent and runtime, what       *)
(* firewalld's two configurations have on it, the open port ("allow") and  *)
(* the rich rules that drop ("deny") and reject; guest, somebody's rule    *)
(* that firewalld holds in its runtime configuration alone.                *)
(***************************************************************************)

Actions == {"allow", "deny", "reject"}

\* An unanswered probe is a back-end that is not there.
DetectBackend(w) ==
    AskOr(w, w.ufw, LAMBDA u : Ends("ufw", u), LAMBDA u :
        AskOr(u, u.firewalld, LAMBDA v : Ends("firewalld", v), LAMBDA v : Ends("error", v)))

CheckRule(c, w) ==
    LET With(b, u) == CASE b = "ufw"       -> Ask(u, LAMBDA v : Verdict(v.added = c.action, v))
                        [] b = "firewalld" -> Ask(u, LAMBDA v : Verdict(c.action \in v.runtime, v))
                        [] b = "error"     -> Ends("error", u)
    IN UNION {With(d.res, d.w) : d \in DetectBackend(w)}

BugNoReload(c, w) ==
    LET With(b, u) ==
            CASE b = "ufw"       -> Call(u, [u EXCEPT !.added = c.action], Done)
              [] b = "firewalld" -> Call(u, [u EXCEPT !.permanent = @ \cup {c.action}], Done)
              [] b = "error"     -> Ends("error", u)
    IN UNION {With(d.res, d.w) : d \in DetectBackend(w)}

\* The reload makes the permanent configuration the one in force.
Reloaded(w) == [w EXCEPT !.runtime = w.permanent, !.guest = FALSE]
ReloadFirewall(w) == Call(w, Reloaded(w), Done)

\* ufw has one rule for a port and puts the new action in its place; to
\* firewalld the port or the rich rule is added, beside what is there.
ExecuteRule(c, w) ==
    LET With(b, u) ==
            CASE b = "ufw"       -> Call(u, [u EXCEPT !.added = c.action], Done)
              [] b = "firewalld" -> Call(u, [u EXCEPT !.permanent = @ \cup {c.action}], ReloadFirewall)
              [] b = "error"     -> Ends("error", u)
    IN UNION {With(d.res, d.w) : d \in DetectBackend(w)}

\* A rich rule of another action comes before the port and beside the rule; an
\* open port comes after any of them.
Others(c) == {"deny", "reject"} \ {c.action}

RuleDesired(c, w) ==
    IF w.ufw THEN w.added = c.action
    ELSE \A rules \in {w.permanent, w.runtime} :
            c.action \in rules /\ Others(c) \cap rules = {}

\* A rule in force that was never made permanent is taken for the real thing,
\* and the rule of an earlier action is not looked for.
RuleUnseen(c, w) ==
    /\ ~w.ufw /\ c.action \in w.runtime
    /\ c.action \notin w.permanent \/ Others(c) \cap (w.permanent \cup w.runtime) # {}

-----------------------------------------------------------------------------
(***************************************************************************)
(* The declarations and the worlds there are.                              *)
(***************************************************************************)

HostConfig ==
    [kind: {"group"}, state: {"present", "absent"}, gid: Value \ {"none"}] \cup
    [kind: {"user"}, state: {"present", "absent"}, shell: Value, home: BOOLEAN,
     groups: SUBSET Value, password: Value] \cup
    [kind: {"service"}, state: {"running", "stopped", "restarted", "reloaded"},
     enabled: BOOLEAN, reloads: BOOLEAN] \cup
    [kind: {"sysctl"}, value: Value \ {"none"}, persist: BOOLEAN] \cup
    [kind: {"mount"}, state: {"mounted", "unmounted", "absent"}, opts: Value \ {"none"}] \cup
    [kind: {"firewall"}, action: Actions]

GroupWorld == [fault: BOOLEAN, gid: Value]
UserWorld ==
    [fault: BOOLEAN, there: BOOLEAN, shell: Value, homedir: Value, groups: SUBSET Value,
     password: Value, home: Value]
ServiceWorld ==
    [fault: BOOLEAN, unit: Value \ {"no"}, loaded: Value \ {"no"}, running: Value, enabled: BOOLEAN]
SysctlWorld == [fault: BOOLEAN, live: Value, dropin: Value]
MountWorld ==
    [fault: BOOLEAN, fstab: Value, others: BOOLEAN, dir: BOOLEAN, mounted: Value, helper: BOOLEAN]
FirewallWorld ==
    [fault: BOOLEAN, ufw: BOOLEAN, firewalld: BOOLEAN, added: Actions \cup {"none"},
     permanent: SUBSET Actions, runtime: SUBSET Actions, guest: BOOLEAN]

IsHostWorld(c, w) ==
    CASE c.kind = "group"    -> w \in GroupWorld
      [] c.kind = "user"     -> w \in UserWorld
      [] c.kind = "service"  -> w \in ServiceWorld
      [] c.kind = "sysctl"   -> w \in SysctlWorld
      [] c.kind = "mount"    -> w \in MountWorld /\ (w.mounted # "none" => w.dir)
      [] c.kind = "firewall" -> w \in FirewallWorld

-----------------------------------------------------------------------------
(***************************************************************************)
(* The ops of a step, and what its declaration asks of the host.           *)
(***************************************************************************)

GroupOps(c) == IF c.state = "present" THEN {"group"} ELSE {"no group"}
UserOps(c)  == IF c.state = "present" THEN {"user"} ELSE {"no user"}

HostOps(c) == CASE c.kind = "group"   -> GroupOps(c)
                [] c.kind = "user"    -> UserOps(c)
                [] c.kind = "service" -> ServiceOps(c)
                [] c.kind = "sysctl"  -> SysctlOps(c)
                [] OTHER -> {"main"}

HostDeps(c, o) == IF o \in {"persist", "cleanup"} THEN {"set"} ELSE {}

HostCheck(c, o, w) ==
    CASE o = "group"    -> CheckGroup(w)
      [] o = "no group" -> CheckNoGroup(w)
      [] o = "user"     -> CheckUser(c, w)
      [] o = "no user"  -> CheckNoUser(w)
      [] c.kind = "mount"    -> CheckMount(c, w)
      [] c.kind = "firewall" -> CheckRule(c, w)
      [] o = "active"  -> CheckActive(c, w)
      [] o = "enabled" -> CheckEnabled(c, w)
      [] o \in {"restarted", "reloaded"} -> Verdict(FALSE, w)
      [] o = "set"     -> CheckSet(c, w)
      [] o = "persist" -> CheckPersist(c, w)
      [] o = "cleanup" -> CheckCleanup(w)

HostExecute(c, o, w) ==
    CASE o = "group"    -> ExecuteGroup(c, w)
      [] o = "no group" -> RemoveGroup(w)
      [] o = "user"     -> ExecuteUser(c, w)
      [] o = "no user"  -> RemoveUser(w)
      [] c.kind = "mount"    -> ExecuteMount(c, w)
      [] c.kind = "firewall" -> ExecuteRule(c, w)
      [] o = "active"  -> ExecuteActive(c, w)
      [] o = "enabled" -> ExecuteEnabled(c, w)
      [] o \in {"restarted", "reloaded"} -> ExecuteRestart(c, w)
      [] o = "set"     -> ExecuteSet(c, w)
      [] o = "persist" -> ExecutePersist(c, w)
      [] o = "cleanup" -> ExecuteCleanup(w)

HostDesired(c, w) ==
    CASE c.kind = "group"    -> GroupDesired(c, w)
      [] c.kind = "user"     -> UserDesired(c, w)
      [] c.kind = "service"  -> ServiceDesired(c, w)
      [] c.kind = "sysctl"   -> SysctlDesired(c, w)
      [] c.kind = "mount"    -> MountDesired(c, w)
      [] c.kind = "firewall" -> RuleDesired(c, w)

HostFeasible(c, w) ==
    /\ c.kind = "service" /\ c.state = "reloaded" /\ c.reloads => w.running # "no"
    /\ c.kind = "mount" /\ c.state # "absent" => w.helper
    /\ c.kind = "firewall" => w.ufw \/ w.firewalld

HostStuck(c, w) == c.kind = "mount" /\ MountStuck(c, w)

\* A group that is there keeps its number.
HostUnseen(c, w) ==
    CASE c.kind = "group"    -> c.state = "present" /\ w.gid \notin {"none", c.gid}
      [] c.kind = "user"     -> UserUnseen(c, w)
      [] c.kind = "mount"    -> MountUnseen(c, w)
      [] c.kind = "firewall" -> RuleUnseen(c, w)
      [] OTHER -> FALSE
=============================================================================

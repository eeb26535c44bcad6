------------------------------ MODULE StepRunsProofs ------------------------------
(***************************************************************************)
(* Why the runs of a step converge, whatever it declares, whatever worlds  *)
(* it meets, whatever others edit and whichever calls fail.                *)
(*                                                                         *)
(* Three facts about the kinds carry the argument.  CheckIsSound: a check  *)
(* says what is so.  ExecuteIsSound: an op that succeeds has done what it  *)
(* is there for (SeesTo), and can have undone only what an op waiting for  *)
(* it is there for.  SettledIsDesired: ops that have all done that have    *)
(* reached what the step declares.  The first two are proved kind by kind, *)
(* along the calls of their ops, and the ops of a step form chains         *)
(* (Ranks), so every clean run settles at least one more op of each chain. *)
(* SettleInv says which are settled.                                       *)
(*                                                                         *)
(* Two more show that the runs come to rest.  CheckRests: on a target that *)
(* is as declared a check finds nothing to do, but for the ops that always *)
(* find something (Standing), of which a step has at most one.             *)
(* ExecuteRests: what such an op does there does not show.                 *)
(*                                                                         *)
(* And FailuresHaveReasons shows, for the kinds that keep neither files    *)
(* nor packages, that a run succeeds where it can.                         *)
(***************************************************************************)
EXTENDS StepContracts, TLAPS

----
\* Worlds but for their fault.

\* The words the model uses are values.
LEMMA Words ==
    /\ "none" \in Value /\ "no" \in Value /\ "cut" \in Value /\ "own" \in Value /\ "sh" \in Value
    /\ "default" \in Value /\ "locked" \in Value /\ "declared" \in Value /\ "starting" \in Value
    /\ "healthy" \in Value /\ "unhealthy" \in Value /\ "PATH" \in Value /\ "v1" \in Value
    /\ "v2" \in Value /\ "bad" \in Value /\ "0644" \in Value /\ "0700" \in Value
    /\ "0755" \in Value /\ "0777" \in Value /\ "root" \in Value /\ "" \in Value
BY ValueAssumption

\* The word for nothing is a value.
LEMMA NoneIsValue == "none" \in Value
BY Words

\* The last setting of the fault counts.
LEMMA FaultTwice ==
  ASSUME NEW u, NEW a, NEW b
  PROVE  WithFault(WithFault(u, a), b) = WithFault(u, b)
BY DEF WithFault

\* Setting the fault of the world of a group step leaves the rest of it alone.
LEMMA GroupFault ==
  ASSUME NEW u \in GroupWorld, NEW b \in BOOLEAN
  PROVE LET v == WithFault(u, b) IN v \in GroupWorld /\ v.fault = b /\ v.gid = u.gid
BY DEF WithFault, GroupWorld

\* Setting the fault of the world of a user step leaves the rest of it alone.
LEMMA UserFault ==
  ASSUME NEW u \in UserWorld, NEW b \in BOOLEAN
  PROVE LET v == WithFault(u, b)
        IN /\ v \in UserWorld /\ v.fault = b /\ v.there = u.there /\ v.shell = u.shell
           /\ v.homedir = u.homedir /\ v.groups = u.groups /\ v.password = u.password /\ v.home = u.home
BY DEF WithFault, UserWorld

\* Setting the fault of the world of a service step leaves the rest of it
\* alone.
LEMMA ServiceFault ==
  ASSUME NEW u \in ServiceWorld, NEW b \in BOOLEAN
  PROVE LET v == WithFault(u, b)
        IN /\ v \in ServiceWorld /\ v.fault = b /\ v.unit = u.unit /\ v.loaded = u.loaded
           /\ v.running = u.running /\ v.enabled = u.enabled
BY DEF WithFault, ServiceWorld

\* Setting the fault of the world of a sysctl step leaves the rest of it
\* alone.
LEMMA SysctlFault ==
  ASSUME NEW u \in SysctlWorld, NEW b \in BOOLEAN
  PROVE LET v == WithFault(u, b)
        IN v \in SysctlWorld /\ v.fault = b /\ v.live = u.live /\ v.dropin = u.dropin
BY DEF WithFault, SysctlWorld

\* Setting the fault of the world of a mount step leaves the rest of it alone.
LEMMA MountFault ==
  ASSUME NEW u \in MountWorld, NEW b \in BOOLEAN
  PROVE LET v == WithFault(u, b)
        IN /\ v \in MountWorld /\ v.fault = b /\ v.fstab = u.fstab /\ v.others = u.others
           /\ v.dir = u.dir /\ v.mounted = u.mounted /\ v.helper = u.helper
BY DEF WithFault, MountWorld

\* Setting the fault of the world of a firewall step leaves the rest of it
\* alone.
LEMMA FirewallFault ==
  ASSUME NEW u \in FirewallWorld, NEW b \in BOOLEAN
  PROVE LET v == WithFault(u, b)
        IN /\ v \in FirewallWorld /\ v.fault = b /\ v.ufw = u.ufw /\ v.firewalld = u.firewalld
           /\ v.added = u.added /\ v.permanent = u.permanent /\ v.runtime = u.runtime
           /\ v.guest = u.guest
BY DEF WithFault, FirewallWorld

\* Setting the fault of the world of a package step leaves the rest of it
\* alone.
LEMMA PkgFault ==
  ASSUME NEW u, IsPkgWorld(u), NEW b \in BOOLEAN
  PROVE LET v == WithFault(u, b)
        IN /\ IsPkgWorld(v) /\ v.fault = b /\ v.have = u.have /\ v.mirror = u.mirror
           /\ v.index = u.index /\ v.fresh = u.fresh /\ v.key = u.key /\ v.repo = u.repo
           /\ v.remote = u.remote /\ v.cache = u.cache /\ v.meta = u.meta
BY DEF WithFault, IsPkgWorld

\* Setting the fault of the world of a run step leaves the rest of it alone.
LEMMA RunFault ==
  ASSUME NEW u \in RunWorld, NEW b \in BOOLEAN
  PROVE LET v == WithFault(u, b) IN v \in RunWorld /\ v.fault = b /\ v.holds = u.holds
BY DEF WithFault, RunWorld

\* Setting the fault of the world of a run_set step leaves the rest of it
\* alone.
LEMMA RunSetFault ==
  ASSUME NEW u \in RunSetWorld, NEW b \in BOOLEAN
  PROVE LET v == WithFault(u, b)
        IN /\ v \in RunSetWorld /\ v.fault = b /\ v.listed = u.listed /\ v.live = u.live
           /\ v.adds = u.adds /\ v.removes = u.removes
BY DEF WithFault, RunSetWorld

\* Setting the fault of the world of a container step leaves the rest of it
\* alone.
LEMMA ContainerFault ==
  ASSUME NEW u \in ContainerWorld, NEW b \in BOOLEAN
  PROVE LET v == WithFault(u, b)
        IN /\ v \in ContainerWorld /\ v.fault = b /\ v.daemon = u.daemon /\ v.there = u.there
           /\ v.image = u.image /\ v.env = u.env /\ v.running = u.running /\ v.health = u.health
           /\ v.namesake = u.namesake /\ v.born = u.born /\ v.source = u.source /\ v.sound = u.sound
BY DEF WithFault, ContainerWorld

\* Setting the fault of the world of a file step leaves the rest of it alone.
LEMMA FileFault ==
  ASSUME NEW c, NEW u, IsFileWorld(c, u), NEW b \in BOOLEAN
  PROVE LET v == WithFault(u, b)
        IN /\ IsFileWorld(c, v) /\ v.fault = b /\ v.fs = u.fs /\ v.users = u.users /\ v.tool = u.tool
           /\ v.clock = u.clock /\ v.source = u.source /\ v.remote = u.remote /\ v.cache = u.cache
           /\ v.meta = u.meta
BY DEF WithFault, IsFileWorld

----
\* The kinds of declarations.

\* The kind of a declaration tells which records it is one of.
LEMMA ConfigCases ==
  ASSUME NEW c \in Config
  PROVE  /\ c.kind \in FileKinds <=> c \in FileConfig
         /\ c.kind \in HostKinds <=> c \in HostConfig
         /\ c.kind = "pkg" <=> c \in PkgConfig
         /\ c.kind \in CommandKinds <=> c \in CommandConfig
         /\ c.kind = "container" <=> c \in ContainerConfig
         /\ c.kind \in FileKinds \cup HostKinds \cup CommandKinds \cup {"pkg", "container"}
BY DEF Config, FileConfig, HostConfig, PkgConfig, CommandConfig, ContainerConfig, FileKinds,
   HostKinds, CommandKinds

\* A second failure changes nothing.
LEMMA FaultyTwice == ASSUME NEW u PROVE Faulty(Faulty(u)) = Faulty(u)
BY FaultTwice DEF Faulty

----
\* The kinds that touch no files.

\* The declarations of the kinds that touch no files, by kind.
LEMMA HostConfigs ==
  ASSUME NEW c \in HostConfig
  PROVE  /\ c.kind = "group" => c \in [kind: {"group"}, state: {"present", "absent"}, gid: Value \ {"none"}]
         /\ c.kind = "user" => c \in [kind: {"user"}, state: {"present", "absent"}, shell: Value,
                                      home: BOOLEAN, groups: SUBSET Value, password: Value]
         /\ c.kind = "service" => c \in [kind: {"service"},
                                         state: {"running", "stopped", "restarted", "reloaded"},
                                         enabled: BOOLEAN, reloads: BOOLEAN]
         /\ c.kind = "sysctl" => c \in [kind: {"sysctl"}, value: Value \ {"none"}, persist: BOOLEAN]
         /\ c.kind = "mount" => c \in [kind: {"mount"}, state: {"mounted", "unmounted", "absent"},
                                       opts: Value \ {"none"}]
         /\ c.kind = "firewall" => c.action \in Actions
         /\ c.kind \in HostKinds
BY DEF HostConfig, HostKinds

\* An op that is alone in its step.
LEMMA AloneIsExecuted ==
  ASSUME NEW c \in Config, NEW o, Ops(c) = {o}, NEW u, NEW out,
         IsWorld(c, out.w), out.res \in {"changed", "unchanged", "error", "panic"},
         ~out.w.fault => ~u.fault,
         ~out.w.fault /\ out.res \in {"changed", "unchanged"} /\ PlanStands(c, u)
            => SeesTo(c, o, out.w),
         ~out.w.fault /\ out.res = "unchanged" => Target(c, out.w) = Target(c, u)
  PROVE  Executed(c, o, u, out)
BY DEF Executed

\* A group, by its ops and its worlds.
LEMMA GroupIs ==
  ASSUME NEW c \in HostConfig, c.kind = "group"
  PROVE  /\ Ops(c) = GroupOps(c)
         /\ \A o \in Ops(c) : Deps(c, o) = {} /\ ~Leads(c, o)
         /\ \A u : /\ IsWorld(c, u) <=> u \in GroupWorld
                   /\ Desired(c, u) <=> GroupDesired(c, u)
                   /\ Unseen(c, u) <=> c.state = "present" /\ u.gid \notin {"none", c.gid}
                   /\ ~Stuck(c, u)
                   /\ Target(c, u) = WithFault(u, FALSE)
         /\ \A u : /\ Check(c, "group", u) = CheckGroup(u)
                   /\ Check(c, "no group", u) = CheckNoGroup(u)
                   /\ Execute(c, "group", u) = ExecuteGroup(c, u)
                   /\ Execute(c, "no group", u) = RemoveGroup(u)
BY DEF HostKinds, FileKinds, CommandKinds, GroupOps, Ops, HostOps, Deps, HostDeps, Leads, IsWorld,
   IsHostWorld, Desired, HostDesired, Unseen, HostUnseen, Stuck, HostStuck, Target, Check,
   HostCheck, Execute, HostExecute

\* The checks of a group step only look, and tell what is so.
LEMMA GroupLooked ==
  ASSUME NEW c \in HostConfig, c.kind = "group", NEW o \in Ops(c), NEW u \in GroupWorld,
         NEW out \in Check(c, o, u)
  PROVE  Looked(c, o, u, out)
<1>1. c.state \in {"present", "absent"} /\ c.gid # "none" BY HostConfigs
<1>3. o \in {"group", "no group"} /\ (o = "group" <=> c.state = "present")
  BY <1>1, GroupIs DEF GroupOps
<1>4. SeesTo(c, o, u) <=> Desired(c, u) \/ Unseen(c, u) BY <1>3 DEF SeesTo
<1>5. CASE o = "group"
  <2>1. out \in CheckGroup(u) BY <1>5, GroupIs
  <2>2. SeesTo(c, o, u) <=> u.gid # "none" BY <1>1, <1>3, <1>4, <1>5, GroupIs DEF GroupDesired
  <2>3. ~Leads(c, o) BY GroupIs
  <2> QED BY <2>1, <2>2, <2>3 DEF Looked, CheckGroup, Ask, Lost, Ends, Verdict
<1>6. CASE o = "no group"
  <2>1. out \in CheckNoGroup(u) BY <1>6, GroupIs
  <2>2. SeesTo(c, o, u) <=> u.gid = "none" BY <1>1, <1>3, <1>4, <1>6, GroupIs DEF GroupDesired
  <2>3. ~Leads(c, o) BY GroupIs
  <2> QED BY <2>1, <2>2, <2>3 DEF Looked, CheckNoGroup, Ask, Lost, Ends, Verdict
<1> QED BY <1>3, <1>5, <1>6

\* The group op, and its removal: when no call failed, the group is as
\* declared (ensure_group_op.go, remove_group_op.go).
LEMMA GroupExecuted ==
  ASSUME NEW c \in HostConfig, c.kind = "group", NEW o \in Ops(c), NEW u \in GroupWorld,
         NEW out \in Execute(c, o, u)
  PROVE  /\ out.w \in GroupWorld
         /\ out.res \in {"changed", "unchanged", "error"}
         /\ ~out.w.fault => ~u.fault /\ (Desired(c, out.w) \/ Unseen(c, out.w))
         /\ ~out.w.fault /\ out.res = "unchanged" => out.w = u
<1>2. c.state \in {"present", "absent"} /\ c.gid \in Value \ {"none"} BY HostConfigs
<1>3. o \in {"group", "no group"} /\ (o = "group" <=> c.state = "present")
  BY <1>2, GroupIs DEF GroupOps
<1>4. \A x \in GroupWorld : Faulty(x) \in GroupWorld /\ Faulty(x).fault = TRUE /\ Faulty(x).gid = x.gid
  BY GroupFault DEF Faulty
<1>5. CASE o = "group"
  <2>1. out \in ExecuteGroup(c, u) BY <1>5, GroupIs
  <2>2. \A x : Desired(c, x) \/ Unseen(c, x) <=> x.gid # "none"
    BY <1>2, <1>3, <1>5, GroupIs DEF GroupDesired
  <2>3. /\ out.w \in GroupWorld
        /\ out.res \in {"changed", "unchanged", "error"}
        /\ ~out.w.fault => ~u.fault /\ out.w.gid # "none"
        /\ ~out.w.fault /\ out.res = "unchanged" => out.w = u
    BY <1>2, <1>4, <2>1 DEF GroupWorld, ExecuteGroup, Unless, Ask, Lost, Ends, Done, Call
  <2> QED BY <2>2, <2>3
<1>6. CASE o = "no group"
  <2>1. out \in RemoveGroup(u) BY <1>6, GroupIs
  <2>2. \A x : Desired(c, x) \/ Unseen(c, x) <=> x.gid = "none"
    BY <1>2, <1>3, <1>6, GroupIs DEF GroupDesired
  <2>3. /\ out.w \in GroupWorld
        /\ out.res \in {"changed", "unchanged", "error"}
        /\ ~out.w.fault => ~u.fault /\ out.w.gid = "none"
        /\ ~out.w.fault /\ out.res = "unchanged" => out.w = u
    BY <1>4, <2>1, NoneIsValue DEF GroupWorld, RemoveGroup, Unless, Ask, Lost, Ends, Done, Call
  <2> QED BY <2>2, <2>3
<1> QED BY <1>3, <1>5, <1>6

\* The ops of a group step do what they are there for.
LEMMA GroupDone ==
  ASSUME NEW c \in Config, c \in HostConfig, c.kind = "group", NEW o \in Ops(c), NEW u \in GroupWorld,
         NEW out \in Execute(c, o, u)
  PROVE  Executed(c, o, u, out)
<1>1. Ops(c) = {o} /\ o \in {"group", "no group"} BY GroupIs DEF GroupOps
<1>2. SeesTo(c, o, out.w) <=> Desired(c, out.w) \/ Unseen(c, out.w) BY <1>1 DEF SeesTo
<1> QED
  <2>1. /\ out.w \in GroupWorld /\ out.res \in {"changed", "unchanged", "error"}
        /\ ~out.w.fault => ~u.fault /\ SeesTo(c, o, out.w)
        /\ ~out.w.fault /\ out.res = "unchanged" => out.w = u
    BY <1>2, GroupExecuted
  <2>2. IsWorld(c, out.w) BY <2>1, GroupIs
  <2> QED BY <1>1, <2>1, <2>2, AloneIsExecuted

\* A group step has reached what it declares when each of its ops has seen to
\* its part.
LEMMA GroupSettled ==
  ASSUME NEW c \in HostConfig, c.kind = "group", NEW u, \A o \in Ops(c) : SeesTo(c, o, u)
  PROVE  Desired(c, u) \/ Unseen(c, u)
BY GroupIs DEF GroupOps, SeesTo

\* A user step, by its ops and its worlds.
LEMMA UserIs ==
  ASSUME NEW c \in HostConfig, c.kind = "user"
  PROVE  /\ Ops(c) = UserOps(c)
         /\ \A o \in Ops(c) : Deps(c, o) = {} /\ ~Leads(c, o)
         /\ \A u : /\ IsWorld(c, u) <=> u \in UserWorld
                   /\ Desired(c, u) <=> UserDesired(c, u)
                   /\ Unseen(c, u) <=> UserUnseen(c, u)
                   /\ ~Stuck(c, u)
                   /\ Target(c, u) = WithFault(u, FALSE)
         /\ \A u : /\ Check(c, "user", u) = CheckUser(c, u)
                   /\ Check(c, "no user", u) = CheckNoUser(u)
                   /\ Execute(c, "user", u) = ExecuteUser(c, u)
                   /\ Execute(c, "no user", u) = RemoveUser(u)
BY DEF HostKinds, FileKinds, CommandKinds, UserOps, Ops, HostOps, Deps, HostDeps, Leads, IsWorld,
   IsHostWorld, Desired, HostDesired, Unseen, HostUnseen, Stuck, HostStuck, Target, Check,
   HostCheck, Execute, HostExecute

\* What GetUser answers is so, unless it could not ask.
LEMMA GetUserTells ==
  ASSUME NEW u, NEW a \in GetUser(u)
  PROVE  a.w \in {u, Faulty(u)} /\ (a.w # Faulty(u) => a.groups = u.groups)
BY DEF GetUser

\* The checks of a user step only look, and tell what is so.
LEMMA UserLooked ==
  ASSUME NEW c \in HostConfig, c.kind = "user", NEW o \in Ops(c), NEW u \in UserWorld,
         NEW out \in Check(c, o, u)
  PROVE  Looked(c, o, u, out)
<1>1. c.state \in {"present", "absent"} /\ c.home \in BOOLEAN BY HostConfigs
<1>2. o \in {"user", "no user"} /\ (o = "user" <=> c.state = "present") BY <1>1, UserIs DEF UserOps
<1>3. (SeesTo(c, o, u) <=> UserDesired(c, u) \/ UserUnseen(c, u)) /\ ~Leads(c, o)
  BY <1>2, UserIs DEF SeesTo
<1>4. Faulty(u).fault = TRUE /\ Faulty(Faulty(u)) = Faulty(u) BY UserFault, FaultyTwice DEF Faulty
<1>5. CASE o = "user"
  <2>1. out \in CheckUser(c, u) BY <1>5, UserIs
  <2>2. out.w \in {u, Faulty(u)} /\ out.res \in {"satisfied", "unsatisfied", "error"}
    BY <1>4, <2>1 DEF CheckUser, GetUser, Ask, Lost, Ends, Verdict
  <2>3. ASSUME ~u.fault, out.w = u, out.res = "satisfied"
        PROVE  u.there /\ ~AccountDrifts(c, u, u.groups) /\ ~HomeDrifts(c, u)
    BY <1>1, <1>4, <2>1, <2>3 DEF CheckUser, GetUser, Ask, Lost, Ends, Verdict, HomeDrifts
  <2>4. ASSUME u.there, ~AccountDrifts(c, u, u.groups), ~HomeDrifts(c, u)
        PROVE  UserDesired(c, u) \/ UserUnseen(c, u)
    BY <1>1, <1>2, <1>5, <2>4 DEF UserDesired, UserUnseen, HomeDrifts, UserWorld
  <2> QED BY <1>3, <2>2, <2>3, <2>4 DEF Looked
<1>6. CASE o = "no user"
  <2>1. out \in CheckNoUser(u) BY <1>6, UserIs
  <2>2. ~u.there => UserDesired(c, u) BY <1>1, <1>2, <1>6 DEF UserDesired, UserWorld
  <2> QED BY <1>3, <1>4, <2>1, <2>2 DEF Looked, CheckNoUser, Ask, Lost, Ends, Verdict
<1> QED BY <1>2, <1>5, <1>6

\* An account that was just created or modified does not drift from the
\* declaration.
LEMMA AccountMade ==
  ASSUME NEW c \in HostConfig, c.kind = "user", NEW u \in UserWorld
  PROVE  LET v == Account(c, u)
         IN /\ v \in UserWorld /\ v.there = TRUE /\ v.home = u.home /\ v.fault = u.fault
            /\ ~AccountDrifts(c, v, v.groups) /\ c.password \in {"none", v.password}
<1>1. /\ c.shell \in Value /\ c.home \in BOOLEAN /\ c.groups \in SUBSET Value /\ c.password \in Value
  BY HostConfigs
<1> DEFINE v == Account(c, u)
<1>2. v \in UserWorld BY <1>1, Words DEF Account, UserWorld
<1>3. v.there = TRUE /\ v.home = u.home /\ v.fault = u.fault BY DEF Account, UserWorld
<1>4. v.shell = (IF c.shell = "none" THEN u.shell ELSE c.shell) BY DEF Account, UserWorld
<1>5. c.home => v.homedir = "declared" BY DEF Account, UserWorld
<1>6. c.groups # {"any"} => v.groups = c.groups BY DEF Account, UserWorld
<1>7. c.password # "none" => v.password = c.password BY DEF Account, UserWorld
<1> HIDE DEF v
<1>8. ~AccountDrifts(c, v, v.groups) BY <1>1, <1>4, <1>5, <1>6 DEF AccountDrifts
<1> QED BY <1>2, <1>3, <1>7, <1>8 DEF v

\* Making the home directory touches nothing else of the account.
LEMMA HouseMade ==
  ASSUME NEW c, NEW u \in UserWorld
  PROVE  LET v == Housed(c, u)
         IN /\ v \in UserWorld /\ v.there = u.there /\ v.shell = u.shell /\ v.homedir = u.homedir
            /\ v.groups = u.groups /\ v.password = u.password /\ v.fault = u.fault
BY Words DEF Housed, UserWorld

\* The home directory is made where it is declared and missing, and the op
\* says so.
LEMMA HomeReconciled ==
  ASSUME NEW c, c.home \in BOOLEAN, NEW u \in UserWorld, NEW so \in BOOLEAN,
         NEW out \in ReconcileHome(c, u, so)
  PROVE  /\ out.w \in UserWorld /\ out.res \in {"changed", "unchanged", "error"}
         /\ ~out.w.fault => ~u.fault
         /\ out.res = "unchanged" => ~so /\ (~out.w.fault => out.w = u)
         /\ out.res # "error" =>
               /\ out.w.there = u.there /\ out.w.shell = u.shell /\ out.w.homedir = u.homedir
               /\ out.w.groups = u.groups /\ out.w.password = u.password
               /\ c.home => out.w.home \in {"none", "own"}
<1>1. Faulty(u) \in UserWorld /\ Faulty(u).fault = TRUE BY UserFault DEF Faulty
<1> DEFINE v == [u EXCEPT !.home = "own"]
<1>2. /\ v \in UserWorld /\ v.fault = u.fault /\ v.there = u.there /\ v.shell = u.shell
      /\ v.homedir = u.homedir /\ v.groups = u.groups /\ v.password = u.password /\ v.home = "own"
  BY Words DEF UserWorld
<1>3. out \in (IF ~c.home THEN Ends(IF so THEN "changed" ELSE "unchanged", u)
               ELSE Lost(u) \cup IF ~HomeDrifts(c, u)
                                 THEN Ends(IF so THEN "changed" ELSE "unchanged", u)
                                 ELSE Lost(u) \cup Lost(v) \cup Done(v))
  BY DEF ReconcileHome, Ask, Call
<1> HIDE DEF v
<1>4. Faulty(v) \in UserWorld /\ Faulty(v).fault = TRUE BY <1>2, UserFault DEF Faulty
<1>5. u.fault \in BOOLEAN BY DEF UserWorld
<1> QED BY <1>1, <1>2, <1>3, <1>4, <1>5 DEF Lost, Ends, Done, HomeDrifts

\* The user op: when no call failed and the op succeeds, the account is as
\* declared and its home is there, and Unchanged is the truth
\* (ensure_user_op.go).
LEMMA UserExecuted ==
  ASSUME NEW c \in HostConfig, c.kind = "user", NEW u \in UserWorld, NEW out \in ExecuteUser(c, u)
  PROVE  /\ out.w \in UserWorld /\ out.res \in {"changed", "unchanged", "error"}
         /\ ~out.w.fault => ~u.fault
         /\ ~out.w.fault /\ out.res = "unchanged" => out.w = u
         /\ ~out.w.fault /\ out.res # "error" =>
               /\ out.w.there = TRUE /\ ~AccountDrifts(c, out.w, out.w.groups)
               /\ c.home => out.w.home \in {"none", "own"}
<1> DEFINE Good(x) ==
      /\ x.w \in UserWorld /\ x.res \in {"changed", "unchanged", "error"}
      /\ ~x.w.fault => ~u.fault
      /\ ~x.w.fault /\ x.res = "unchanged" => x.w = u
      /\ ~x.w.fault /\ x.res # "error" =>
            /\ x.w.there = TRUE /\ ~AccountDrifts(c, x.w, x.w.groups)
            /\ c.home => x.w.home \in {"none", "own"}
<1>0. c.home \in BOOLEAN BY HostConfigs
<1>1. \A x \in UserWorld : Faulty(x) \in UserWorld /\ Faulty(x).fault = TRUE /\ x.fault \in BOOLEAN
  BY UserFault DEF Faulty, UserWorld
<1>2. ASSUME NEW x \in UserWorld, out \in Lost(x) PROVE Good(out) BY <1>1, <1>2 DEF Lost, Ends
<1>3. ASSUME NEW x \in UserWorld, NEW ch \in BOOLEAN, out \in ReconcileHome(c, x, ch),
             u.fault => x.fault, x.there = TRUE,
             ~x.fault => ~AccountDrifts(c, x, x.groups) /\ (ch \/ x = u)
      PROVE  Good(out)
  <2>1. /\ out.w \in UserWorld /\ out.res \in {"changed", "unchanged", "error"}
        /\ ~out.w.fault => ~x.fault
        /\ out.res = "unchanged" => ~ch /\ (~out.w.fault => out.w = x)
        /\ out.res # "error" =>
               /\ out.w.there = x.there /\ out.w.shell = x.shell /\ out.w.homedir = x.homedir
               /\ out.w.groups = x.groups
               /\ c.home => out.w.home \in {"none", "own"}
    BY <1>0, <1>3, HomeReconciled
  <2>2. out.res # "error" /\ ~AccountDrifts(c, x, x.groups) => ~AccountDrifts(c, out.w, out.w.groups)
    BY <2>1 DEF AccountDrifts
  <2> QED BY <1>1, <1>3, <2>1, <2>2
<1> DEFINE Made(x) == Account(c, x)
           House == Housed(c, Made(u))
<1>4. \/ out \in Lost(u) \cup Lost(Made(u)) \cup Lost(House) \cup ReconcileHome(c, House, TRUE)
      \/ /\ u.there
         /\ \E a \in GetUser(u) :
              \/ out \in Lost(a.w) \cup Lost(Made(a.w)) \cup ReconcileHome(c, Made(a.w), TRUE)
              \/ ~AccountDrifts(c, a.w, a.groups) /\ out \in ReconcileHome(c, a.w, FALSE)
  BY DEF ExecuteUser, Ask, Call
<1>5. \A x \in UserWorld :
         /\ Made(x) \in UserWorld /\ Made(x).there = TRUE /\ Made(x).fault = x.fault
         /\ ~AccountDrifts(c, Made(x), Made(x).groups)
  BY AccountMade
<1>6. /\ House \in UserWorld /\ House.there = TRUE /\ House.fault = u.fault
      /\ ~AccountDrifts(c, House, House.groups)
  BY <1>5, HouseMade DEF AccountDrifts
<1>7. ASSUME NEW a \in GetUser(u)
      PROVE  /\ a.w \in UserWorld /\ (u.fault => a.w.fault) /\ a.w.there = u.there
             /\ ~a.w.fault => a.w = u /\ a.groups = a.w.groups
  <2>1. /\ Faulty(u) \in UserWorld /\ Faulty(u).fault = TRUE /\ Faulty(u).there = u.there
    BY UserFault DEF Faulty
  <2> QED BY <2>1, GetUserTells
<1>8. u.there \in BOOLEAN BY DEF UserWorld
<1> HIDE DEF Good, Made, House
<1>9. Good(out)
  <2>1. CASE out \in Lost(u) \cup Lost(Made(u)) \cup Lost(House) \cup ReconcileHome(c, House, TRUE)
    BY <1>2, <1>3, <1>5, <1>6, <2>1
  <2>2. ASSUME u.there, NEW a \in GetUser(u),
               out \in Lost(a.w) \cup Lost(Made(a.w)) \cup ReconcileHome(c, Made(a.w), TRUE)
        PROVE  Good(out)
    BY <1>2, <1>3, <1>5, <1>7, <2>2
  <2>3. ASSUME u.there, NEW a \in GetUser(u), ~AccountDrifts(c, a.w, a.groups),
               out \in ReconcileHome(c, a.w, FALSE)
        PROVE  Good(out)
    BY <1>3, <1>7, <1>8, <2>3
  <2> QED BY <1>4, <2>1, <2>2, <2>3
<1> QED BY <1>9 DEF Good

\* The removal of a user: gone when no call failed.
LEMMA UserRemoved ==
  ASSUME NEW u \in UserWorld, NEW out \in RemoveUser(u)
  PROVE  /\ out.w \in UserWorld /\ out.res \in {"changed", "unchanged", "error"}
         /\ ~out.w.fault => ~u.fault /\ out.w.there = FALSE
         /\ ~out.w.fault /\ out.res = "unchanged" => out.w = u
<1>1. \A x \in UserWorld : Faulty(x) \in UserWorld /\ Faulty(x).fault = TRUE
                           /\ x.fault \in BOOLEAN /\ x.there \in BOOLEAN
  BY UserFault DEF Faulty, UserWorld
<1> DEFINE v == NoAccount(u)
<1>2. v \in UserWorld BY Words DEF NoAccount, UserWorld
<1>3. v.there = FALSE /\ v.fault = u.fault BY DEF NoAccount, UserWorld
<1>4. out \in Lost(u) \cup IF ~u.there THEN Ends("unchanged", u) ELSE Lost(u) \cup Lost(v) \cup Done(v)
  BY DEF RemoveUser, Unless, Ask, Call
<1> HIDE DEF v
<1> QED BY <1>1, <1>2, <1>3, <1>4 DEF Lost, Ends, Done

\* The ops of a user step do what they are there for.
LEMMA UserDone ==
  ASSUME NEW c \in Config, c \in HostConfig, c.kind = "user", NEW o \in Ops(c), NEW u \in UserWorld,
         NEW out \in Execute(c, o, u)
  PROVE  Executed(c, o, u, out)
<1>0. c.state \in {"present", "absent"} BY HostConfigs
<1>1. /\ Ops(c) = {o} /\ o \in {"user", "no user"}
      /\ o = "user" <=> c.state = "present"
  BY <1>0, UserIs DEF UserOps
<1>2. SeesTo(c, o, out.w) <=> UserDesired(c, out.w) \/ UserUnseen(c, out.w)
  BY <1>1, UserIs DEF SeesTo
<1>3. CASE o = "user"
  <2>1. out \in ExecuteUser(c, u) BY <1>3, UserIs
  <2>2. /\ out.w \in UserWorld /\ out.res \in {"changed", "unchanged", "error"}
        /\ ~out.w.fault => ~u.fault
        /\ ~out.w.fault /\ out.res = "unchanged" => out.w = u
        /\ ~out.w.fault /\ out.res # "error" =>
              /\ out.w.there = TRUE /\ ~AccountDrifts(c, out.w, out.w.groups)
              /\ c.home => out.w.home \in {"none", "own"}
    BY <2>1, UserExecuted
  <2>3. ASSUME ~out.w.fault, out.res # "error" PROVE SeesTo(c, o, out.w)
    BY <1>1, <1>2, <1>3, <2>2, <2>3 DEF UserDesired, UserUnseen
  <2> QED BY <1>1, <2>2, <2>3, UserIs, AloneIsExecuted
<1>4. CASE o = "no user"
  <2>1. out \in RemoveUser(u) BY <1>4, UserIs
  <2>2. /\ out.w \in UserWorld /\ out.res \in {"changed", "unchanged", "error"}
        /\ ~out.w.fault => ~u.fault /\ out.w.there = FALSE
        /\ ~out.w.fault /\ out.res = "unchanged" => out.w = u
    BY <2>1, UserRemoved
  <2>3. ASSUME ~out.w.fault PROVE SeesTo(c, o, out.w)
    BY <1>1, <1>2, <1>4, <2>2, <2>3 DEF UserDesired
  <2> QED BY <1>1, <2>2, <2>3, UserIs, AloneIsExecuted
<1> QED BY <1>1, <1>3, <1>4

\* A user step has reached what it declares when each of its ops has seen to
\* its part.
LEMMA UserSettled ==
  ASSUME NEW c \in HostConfig, c.kind = "user", NEW u, \A o \in Ops(c) : SeesTo(c, o, u)
  PROVE  Desired(c, u) \/ Unseen(c, u)
BY UserIs DEF UserOps, SeesTo

\* A service step, by its ops and its worlds.
LEMMA ServiceIs ==
  ASSUME NEW c \in HostConfig, c.kind = "service"
  PROVE  /\ Ops(c) = ServiceOps(c)
         /\ \A o \in Ops(c) : Deps(c, o) = {} /\ ~Leads(c, o)
         /\ \A u : /\ IsWorld(c, u) <=> u \in ServiceWorld
                   /\ Desired(c, u) <=> ServiceDesired(c, u)
                   /\ Target(c, u) = WithFault(u, FALSE)
         /\ \A u : /\ Check(c, "active", u) = CheckActive(c, u)
                   /\ Check(c, "enabled", u) = CheckEnabled(c, u)
                   /\ Execute(c, "active", u) = ExecuteActive(c, u)
                   /\ Execute(c, "enabled", u) = ExecuteEnabled(c, u)
                   /\ \A o \in {"restarted", "reloaded"} :
                         Check(c, o, u) = Verdict(FALSE, u) /\ Execute(c, o, u) = ExecuteRestart(c, u)
<1> USE DEF HostKinds, FileKinds, CommandKinds
<1>1. Ops(c) = ServiceOps(c) BY DEF Ops, HostOps
<1>2. \A o \in Ops(c) : Deps(c, o) = {} /\ ~Leads(c, o)
  <2>1. c.state \in {"running", "stopped", "restarted", "reloaded"} BY HostConfigs
  <2> QED BY <1>1, <2>1 DEF ServiceOps, Deps, HostDeps, Leads
<1>3. \A u : /\ IsWorld(c, u) <=> u \in ServiceWorld
             /\ Desired(c, u) <=> ServiceDesired(c, u)
             /\ Target(c, u) = WithFault(u, FALSE)
  BY DEF IsWorld, IsHostWorld, Desired, HostDesired, Target
<1>4. \A u : /\ Check(c, "active", u) = CheckActive(c, u)
             /\ Check(c, "enabled", u) = CheckEnabled(c, u)
             /\ Execute(c, "active", u) = ExecuteActive(c, u)
             /\ Execute(c, "enabled", u) = ExecuteEnabled(c, u)
  BY DEF Check, HostCheck, Execute, HostExecute
<1>5. ASSUME NEW u, NEW o \in {"restarted", "reloaded"}
      PROVE  Check(c, o, u) = Verdict(FALSE, u) /\ Execute(c, o, u) = ExecuteRestart(c, u)
  <2>1. Check(c, o, u) = HostCheck(c, o, u) /\ Execute(c, o, u) = HostExecute(c, o, u)
    BY DEF Check, Execute
  <2>2. HostCheck(c, o, u) = Verdict(FALSE, u) BY DEF HostCheck
  <2>3. HostExecute(c, o, u) = ExecuteRestart(c, u) BY DEF HostExecute
  <2> QED BY <2>1, <2>2, <2>3
<1> QED BY <1>1, <1>2, <1>3, <1>4, <1>5

\* The ops of a service step: one for restarted and reloaded, two that do not
\* know of each other otherwise.
LEMMA ServiceOpsAre ==
  ASSUME NEW c \in HostConfig, c.kind = "service", NEW o \in Ops(c)
  PROVE  /\ o \in {"active", "enabled", "restarted", "reloaded"}
         /\ o \in {"active", "enabled"} <=> c.state \in {"running", "stopped"}
         /\ o \in {"restarted", "reloaded"} => Ops(c) = {o}
         /\ c.state \in {"running", "stopped"} => Ops(c) = {"active", "enabled"}
         /\ c.enabled \in BOOLEAN
<1>1. c.state \in {"running", "stopped", "restarted", "reloaded"} /\ c.enabled \in BOOLEAN
  BY HostConfigs
<1> QED BY <1>1, ServiceIs DEF ServiceOps

\* The checks of a service step only look, and tell what is so.
LEMMA ServiceLooked ==
  ASSUME NEW c \in HostConfig, c.kind = "service", NEW o \in Ops(c), NEW u \in ServiceWorld,
         NEW out \in Check(c, o, u)
  PROVE  Looked(c, o, u, out)
<1>1. ~Leads(c, o) /\ o \in {"active", "enabled", "restarted", "reloaded"}
  BY ServiceIs, ServiceOpsAre
<1>4. Faulty(u).fault = TRUE BY ServiceFault DEF Faulty
<1>5. CASE o = "active"
  <2>1. out \in CheckActive(c, u) /\ (SeesTo(c, o, u) <=> (u.running # "no") = (c.state = "running"))
    BY <1>5, ServiceIs DEF SeesTo
  <2> QED BY <1>1, <1>4, <2>1 DEF Looked, CheckActive, Ask, Lost, Ends, Verdict
<1>6. CASE o = "enabled"
  <2>1. out \in CheckEnabled(c, u) /\ (SeesTo(c, o, u) <=> u.enabled = c.enabled)
    BY <1>6, ServiceIs DEF SeesTo
  <2> QED BY <1>1, <1>4, <2>1 DEF Looked, CheckEnabled, Ask, Lost, Ends, Verdict
<1>7. CASE o \in {"restarted", "reloaded"}
  <2>1. out \in Verdict(FALSE, u) BY <1>7, ServiceIs
  <2> QED BY <1>1, <2>1 DEF Looked, Ends, Verdict
<1> QED BY <1>1, <1>5, <1>6, <1>7

\* The calls on a service.
LEMMA ServiceFaulty ==
  \A x \in ServiceWorld : /\ Faulty(x) \in ServiceWorld /\ Faulty(x).fault = TRUE /\ x.fault \in BOOLEAN
                          /\ Faulty(x).running = x.running /\ Faulty(x).unit = x.unit
                          /\ Faulty(x).loaded = x.loaded /\ Faulty(x).enabled = x.enabled
BY ServiceFault DEF Faulty, ServiceWorld

\* After a daemon-reload that came back, the service manager knows the unit
\* file that is on the disk; nothing else has changed.
LEMMA DaemonReloaded ==
  ASSUME NEW u \in ServiceWorld, NEW out \in DaemonReload(u)
  PROVE  /\ out.w \in ServiceWorld /\ out.res \in {"returned", "error"}
         /\ ~out.w.fault => ~u.fault
         /\ out.w.running = u.running /\ out.w.enabled = u.enabled /\ out.w.unit = u.unit
         /\ out.res = "returned" => out.w.loaded = u.unit
<1> DEFINE v == [u EXCEPT !.loaded = u.unit]
<1>1. /\ v \in ServiceWorld /\ v.fault = u.fault /\ v.running = u.running
      /\ v.enabled = u.enabled /\ v.unit = u.unit /\ v.loaded = u.unit
  BY DEF ServiceWorld
<1>2. out \in Lost(u) \cup Lost(v) \cup Returns(v) BY DEF DaemonReload, Call
<1> HIDE DEF v
<1> QED BY <1>1, <1>2, ServiceFaulty DEF Lost, Ends, Returns

\* What StartService leaves, StopService or RestartService, in a world u.
LEMMA ServiceRuns ==
  ASSUME NEW u \in ServiceWorld,
         NEW out \in StartService(u) \cup RestartService(u) \cup ReloadService(u)
  PROVE  /\ out.w \in ServiceWorld /\ out.res \in {"changed", "error"}
         /\ ~out.w.fault => ~u.fault
         /\ out.w.enabled = u.enabled /\ out.w.unit = u.unit /\ out.w.loaded = u.loaded
         /\ out.w.running \in {u.running, u.loaded, "no"}
         /\ out.res = "changed" => out.w.running = u.loaded
<1> DEFINE x == [u EXCEPT !.running = u.loaded]
           y == [u EXCEPT !.running = "no"]
<1>1. /\ x \in ServiceWorld /\ x.fault = u.fault /\ x.running = u.loaded
      /\ x.enabled = u.enabled /\ x.unit = u.unit /\ x.loaded = u.loaded
  BY DEF ServiceWorld
<1>2. /\ y \in ServiceWorld /\ y.fault = u.fault /\ y.running = "no"
      /\ y.enabled = u.enabled /\ y.unit = u.unit /\ y.loaded = u.loaded
  BY Words DEF ServiceWorld
<1>3. (out \in Ends("error", u) /\ u.running = "no") \/ out \in Lost(y) \cup Lost(u) \cup Lost(x) \cup Done(x)
  BY DEF StartService, RestartService, ReloadService, Call
<1> HIDE DEF x, y
<1> QED BY <1>1, <1>2, <1>3, ServiceFaulty DEF Lost, Ends, Done

\* A stop that was not cut off leaves the service stopped.
LEMMA ServiceStops ==
  ASSUME NEW u \in ServiceWorld, NEW out \in StopService(u)
  PROVE  /\ out.w \in ServiceWorld /\ out.res \in {"changed", "error"}
         /\ ~out.w.fault => ~u.fault /\ out.w.running = "no"
         /\ out.w.enabled = u.enabled /\ out.w.running \in {u.running, "no"}
<1> DEFINE y == [u EXCEPT !.running = "no"]
<1>2. /\ y \in ServiceWorld /\ y.fault = u.fault /\ y.running = "no" /\ y.enabled = u.enabled
  BY Words DEF ServiceWorld
<1>3. out \in Lost(u) \cup Lost(y) \cup Done(y) BY DEF StopService, Call
<1> HIDE DEF y
<1> QED BY <1>2, <1>3, ServiceFaulty DEF Lost, Ends, Done

\* The active op: the service runs or not as declared, and a service that was
\* started runs the unit on the disk.
LEMMA ActiveExecuted ==
  ASSUME NEW c \in HostConfig, c.kind = "service", c.state \in {"running", "stopped"},
         NEW u \in ServiceWorld, NEW out \in ExecuteActive(c, u)
  PROVE  /\ out.w \in ServiceWorld /\ out.res \in {"changed", "unchanged", "error"}
         /\ ~out.w.fault => ~u.fault
         /\ ~out.w.fault /\ out.res # "error" => ((out.w.running # "no") = (c.state = "running"))
         /\ out.res = "unchanged" => out.w = u
         /\ out.w.enabled = u.enabled
         /\ u.running = "no" /\ out.w.running # "no" => out.w.running = out.w.unit
<1> DEFINE so == (u.running # "no") = (c.state = "running")
<1>1. \/ out \in Lost(u)
      \/ so /\ out \in Ends("unchanged", u)
      \/ ~so /\ c.state = "running" /\ out \in Then(DaemonReload(u), StartService)
      \/ ~so /\ c.state = "stopped" /\ out \in StopService(u)
  BY DEF ExecuteActive, Unless, Ask
<1>2. CASE out \in Lost(u) BY <1>2, ServiceFaulty DEF Lost, Ends
<1>3. CASE so /\ out \in Ends("unchanged", u) BY <1>3 DEF Ends
<1>4. CASE ~so /\ c.state = "running" /\ out \in Then(DaemonReload(u), StartService)
  <2>1. u.running = "no" BY <1>4
  <2>2. \/ out \in DaemonReload(u) /\ out.res # "returned"
        \/ \E d \in DaemonReload(u) : d.res = "returned" /\ out \in StartService(d.w)
    BY <1>4 DEF Then
  <2>3. ASSUME NEW d \in DaemonReload(u), d.res = "returned", out \in StartService(d.w)
        PROVE  /\ out.w \in ServiceWorld /\ out.res \in {"changed", "error"}
               /\ ~out.w.fault => ~u.fault
               /\ out.w.enabled = u.enabled /\ out.w.unit = u.unit
               /\ out.w.running \in {"no", u.unit}
               /\ out.res = "changed" => out.w.running = u.unit
    <3>1. /\ d.w \in ServiceWorld /\ (~d.w.fault => ~u.fault) /\ d.w.running = "no"
          /\ d.w.enabled = u.enabled /\ d.w.unit = u.unit /\ d.w.loaded = u.unit
      BY <2>1, <2>3, DaemonReloaded
    <3> QED BY <2>3, <3>1, ServiceRuns
  <2>4. u.unit # "no" BY DEF ServiceWorld
  <2>5. CASE out \in DaemonReload(u) /\ out.res # "returned" BY <2>1, <2>5, DaemonReloaded
  <2> QED BY <1>4, <2>2, <2>3, <2>4, <2>5
<1>5. CASE ~so /\ c.state = "stopped" /\ out \in StopService(u) BY <1>5, ServiceStops
<1> QED BY <1>1, <1>2, <1>3, <1>4, <1>5

\* The enabled op: the service starts at boot or not as declared, and it runs
\* as before.
LEMMA EnabledExecuted ==
  ASSUME NEW c \in HostConfig, c.kind = "service", NEW u \in ServiceWorld,
         NEW out \in ExecuteEnabled(c, u)
  PROVE  /\ out.w \in ServiceWorld /\ out.res \in {"changed", "unchanged", "error"}
         /\ ~out.w.fault => ~u.fault
         /\ ~out.w.fault /\ out.res # "error" => out.w.enabled = c.enabled
         /\ out.res = "unchanged" => out.w = u
         /\ out.w.running = u.running
<1> DEFINE y == [u EXCEPT !.enabled = c.enabled]
<1>1. c.enabled \in BOOLEAN BY HostConfigs
<1>2. /\ y \in ServiceWorld /\ y.fault = u.fault /\ y.running = u.running /\ y.enabled = c.enabled
  BY <1>1 DEF ServiceWorld
<1>3. \/ out \in Lost(u) \cup Lost(y) \cup Done(y)
      \/ u.enabled = c.enabled /\ out \in Ends("unchanged", u)
  BY DEF ExecuteEnabled, Unless, Ask, Call
<1> HIDE DEF y
<1> QED BY <1>2, <1>3, ServiceFaulty DEF Lost, Ends, Done

\* A restart or reload that came back leaves a service that runs the unit on
\* the disk, which is also the one the service manager knows.
LEMMA RestartExecuted ==
  ASSUME NEW c, NEW u \in ServiceWorld, NEW out \in ExecuteRestart(c, u)
  PROVE  /\ out.w \in ServiceWorld /\ out.res \in {"changed", "error"}
         /\ ~out.w.fault => ~u.fault
         /\ out.w.unit = u.unit /\ out.w.enabled = u.enabled
         /\ out.res # "error" => out.w.running = out.w.unit /\ out.w.loaded = out.w.unit
         /\ u.running = "no" /\ out.w.running # "no" => out.w.running = out.w.unit
<1>1. \/ out \in DaemonReload(u) /\ out.res # "returned"
      \/ \E d \in DaemonReload(u) :
            d.res = "returned" /\ out \in RestartService(d.w) \cup ReloadService(d.w)
  BY DEF ExecuteRestart, Then
<1>2. ASSUME NEW d \in DaemonReload(u), d.res = "returned",
             out \in RestartService(d.w) \cup ReloadService(d.w)
      PROVE  /\ out.w \in ServiceWorld /\ out.res \in {"changed", "error"}
             /\ ~out.w.fault => ~u.fault
             /\ out.w.unit = u.unit /\ out.w.running \in {u.running, "no", u.unit}
             /\ out.w.enabled = u.enabled /\ out.w.loaded = u.unit
             /\ out.res = "changed" => out.w.running = u.unit
  <2>1. /\ d.w \in ServiceWorld /\ (~d.w.fault => ~u.fault) /\ d.w.running = u.running
        /\ d.w.unit = u.unit /\ d.w.loaded = u.unit /\ d.w.enabled = u.enabled
    BY <1>2, DaemonReloaded
  <2> QED BY <1>2, <2>1, ServiceRuns
<1>3. CASE out \in DaemonReload(u) /\ out.res # "returned" BY <1>3, DaemonReloaded
<1> QED BY <1>1, <1>2, <1>3

\* The ops of a service step do what they are there for, and leave each
\* other's work alone.
LEMMA ServiceExecuted ==
  ASSUME NEW c \in HostConfig, c.kind = "service", NEW o \in Ops(c), NEW u \in ServiceWorld,
         NEW out \in Execute(c, o, u)
  PROVE  Executed(c, o, u, out)
<1>1. /\ o \in {"active", "enabled", "restarted", "reloaded"}
      /\ o \in {"active", "enabled"} => Ops(c) = {"active", "enabled"}
      /\ o \in {"restarted", "reloaded"} => Ops(c) = {o}
      /\ o \in {"active", "enabled"} <=> c.state \in {"running", "stopped"}
  BY ServiceOpsAre
<1>2. /\ IsWorld(c, out.w) <=> out.w \in ServiceWorld
      /\ \A x : /\ SeesTo(c, "active", x) <=> (x.running # "no") = (c.state = "running")
                /\ SeesTo(c, "enabled", x) <=> x.enabled = c.enabled
  BY ServiceIs DEF SeesTo
<1>3. CASE o = "active"
  <2>1. out \in ExecuteActive(c, u) BY <1>3, ServiceIs
  <2> QED BY <1>1, <1>2, <1>3, <2>1, ActiveExecuted DEF Executed
<1>4. CASE o = "enabled"
  <2>1. out \in ExecuteEnabled(c, u) BY <1>4, ServiceIs
  <2> QED BY <1>1, <1>2, <1>4, <2>1, EnabledExecuted DEF Executed
<1>5. CASE o \in {"restarted", "reloaded"}
  <2>1. out \in ExecuteRestart(c, u) BY <1>5, ServiceIs
  <2>2. out.w.running = out.w.unit /\ out.w.loaded = out.w.unit => SeesTo(c, o, out.w)
    BY <1>5 DEF SeesTo
  <2> QED BY <1>1, <1>2, <1>5, <2>1, <2>2, RestartExecuted DEF Executed
<1> QED BY <1>1, <1>3, <1>4, <1>5

\* A service step has reached what it declares when each of its ops has seen
\* to its part.
LEMMA ServiceSettled ==
  ASSUME NEW c \in HostConfig, c.kind = "service", NEW u \in ServiceWorld,
         \A o \in Ops(c) : SeesTo(c, o, u)
  PROVE  Desired(c, u) \/ Unseen(c, u)
<1>1. c.state \in {"running", "stopped", "restarted", "reloaded"} BY HostConfigs
<1>2. CASE c.state \in {"running", "stopped"}
  <2>1. SeesTo(c, "active", u) /\ SeesTo(c, "enabled", u) BY <1>2, ServiceIs DEF ServiceOps
  <2>2. ((u.running # "no") = (c.state = "running")) /\ u.enabled = c.enabled BY <2>1 DEF SeesTo
  <2> QED BY <1>2, <2>2, ServiceIs DEF ServiceDesired
<1>3. CASE c.state \in {"restarted", "reloaded"}
  <2>1. SeesTo(c, c.state, u) BY <1>3, ServiceIs DEF ServiceOps
  <2>2. u.running = u.unit BY <1>3, <2>1 DEF SeesTo
  <2> QED BY <1>3, <2>2, ServiceIs DEF ServiceDesired
<1> QED BY <1>1, <1>2, <1>3

\* A sysctl step, by its ops and its worlds.
LEMMA SysctlIs ==
  ASSUME NEW c \in HostConfig, c.kind = "sysctl"
  PROVE  /\ Ops(c) = SysctlOps(c)
         /\ \A o \in Ops(c) : Deps(c, o) = IF o = "set" THEN {} ELSE {"set"}
         /\ \A u : /\ IsWorld(c, u) <=> u \in SysctlWorld
                   /\ Desired(c, u) <=> SysctlDesired(c, u)
                   /\ Target(c, u) = WithFault(u, FALSE)
         /\ \A u : /\ Check(c, "set", u) = CheckSet(c, u)
                   /\ Check(c, "persist", u) = CheckPersist(c, u)
                   /\ Check(c, "cleanup", u) = CheckCleanup(u)
                   /\ Execute(c, "set", u) = ExecuteSet(c, u)
                   /\ Execute(c, "persist", u) = ExecutePersist(c, u)
                   /\ Execute(c, "cleanup", u) = ExecuteCleanup(u)
BY DEF HostKinds, FileKinds, CommandKinds, SysctlOps, Ops, HostOps, Deps, HostDeps, Leads,
   IsWorld, IsHostWorld, Desired, HostDesired, Unseen, HostUnseen, Target, Check, HostCheck,
   Execute, HostExecute

\* The checks of a sysctl step only look, and tell what is so.
LEMMA SysctlLooked ==
  ASSUME NEW c \in HostConfig, c.kind = "sysctl", NEW o \in Ops(c), NEW u \in SysctlWorld,
         NEW out \in Check(c, o, u)
  PROVE  Looked(c, o, u, out)
<1>4. Faulty(u).fault = TRUE BY SysctlFault DEF Faulty
<1>3. o \in {"set", "persist", "cleanup"} BY SysctlIs DEF SysctlOps
<1>5. CASE o = "set"
  <2>1. out \in CheckSet(c, u) /\ (SeesTo(c, o, u) <=> u.live = c.value)
    BY <1>5, SysctlIs DEF SeesTo
  <2> QED BY <1>4, <2>1 DEF Looked, CheckSet, Ask, Lost, Ends, Verdict
<1>6. CASE o = "persist"
  <2>1. out \in CheckPersist(c, u) /\ (SeesTo(c, o, u) <=> u.dropin = c.value)
    BY <1>6, SysctlIs DEF SeesTo
  <2> QED BY <1>4, <2>1 DEF Looked, CheckPersist, Ask, Lost, Ends, Verdict
<1>7. CASE o = "cleanup"
  <2>1. out \in CheckCleanup(u) /\ (SeesTo(c, o, u) <=> u.dropin = "none")
    BY <1>7, SysctlIs DEF SeesTo
  <2> QED BY <1>4, <2>1 DEF Looked, CheckCleanup, Ask, Lost, Ends, Verdict
<1> QED BY <1>3, <1>5, <1>6, <1>7

\* A failed call changes nothing else in the world of a sysctl step.
LEMMA SysctlFaulty ==
  \A x \in SysctlWorld : Faulty(x) \in SysctlWorld /\ Faulty(x).fault = TRUE /\ x.fault \in BOOLEAN
BY SysctlFault DEF Faulty, SysctlWorld

\* The ops of a sysctl step do what they are there for; persist and cleanup
\* leave the live value alone, and both wait for set.
LEMMA SysctlExecuted ==
  ASSUME NEW c \in HostConfig, c.kind = "sysctl", NEW o \in Ops(c), NEW u \in SysctlWorld,
         NEW out \in Execute(c, o, u)
  PROVE  Executed(c, o, u, out)
<1> DEFINE live == [u EXCEPT !.live = c.value]
           cut  == [u EXCEPT !.dropin = "cut"]
           kept == [u EXCEPT !.dropin = c.value]
           gone == [u EXCEPT !.dropin = "none"]
<1>1. c.value \in Value BY HostConfigs
<1>2. live \in SysctlWorld /\ live.fault = u.fault /\ live.live = c.value BY <1>1 DEF SysctlWorld
<1>3. cut \in SysctlWorld /\ cut.fault = u.fault BY Words DEF SysctlWorld
<1>4. kept \in SysctlWorld /\ kept.fault = u.fault /\ kept.live = u.live /\ kept.dropin = c.value
  BY <1>1 DEF SysctlWorld
<1>5. gone \in SysctlWorld /\ gone.fault = u.fault /\ gone.live = u.live /\ gone.dropin = "none"
  BY Words DEF SysctlWorld
<1>6. Ops(c) = {"set", "persist"} \/ Ops(c) = {"set", "cleanup"} BY SysctlIs DEF SysctlOps
<1>s. \A x : /\ SeesTo(c, "set", x) <=> x.live = c.value
             /\ SeesTo(c, "persist", x) <=> x.dropin = c.value
             /\ SeesTo(c, "cleanup", x) <=> x.dropin = "none"
  BY DEF SeesTo
<1>t. IsWorld(c, out.w) <=> out.w \in SysctlWorld BY SysctlIs
<1> HIDE DEF live, cut, kept, gone
<1>7. CASE o = "set"
  <2>1. out \in Lost(u) \cup Lost(live) \cup Done(live) BY <1>7, SysctlIs DEF ExecuteSet, Call, live
  <2>2. /\ out.w \in SysctlWorld /\ out.res \in {"changed", "error"} /\ (~out.w.fault => ~u.fault)
        /\ ~out.w.fault => out.w.live = c.value
    BY <1>2, <2>1, SysctlFaulty DEF Lost, Ends, Done
  <2>3. \A p \in Ops(c) \ {o} : o \in Deps(c, p) BY <1>6, <1>7, SysctlIs
  <2> QED BY <1>s, <1>t, <1>7, <2>2, <2>3 DEF Executed
<1>8. CASE o = "persist"
  <2>1. out \in Lost(cut) \cup Lost(u) \cup Lost(kept) \cup Done(kept)
    BY <1>8, SysctlIs DEF ExecutePersist, Call, kept, cut
  <2>2. CASE out \in Lost(cut) \cup Lost(u) \cup Lost(kept)
    <3>1. out.res = "error" /\ \E x \in {cut, u, kept} : out.w = Faulty(x) BY <2>2 DEF Lost, Ends
    <3>2. out.w \in SysctlWorld /\ out.w.fault = TRUE BY <1>3, <1>4, <3>1, SysctlFaulty
    <3> QED BY <1>s, <1>t, <3>1, <3>2 DEF Executed
  <2>3. CASE out \in Done(kept)
    <3>1. out.res = "changed" /\ out.w = kept BY <2>3 DEF Done, Ends
    <3> QED BY <1>4, <1>6, <1>s, <1>t, <1>8, <3>1 DEF Executed
  <2> QED BY <2>1, <2>2, <2>3
<1>9. CASE o = "cleanup"
  <2>1. \/ out \in Lost(u) \cup Lost(gone) \cup Done(gone)
        \/ u.dropin = "none" /\ out \in Ends("unchanged", u)
    BY <1>9, SysctlIs DEF ExecuteCleanup, Ask, Call, gone
  <2>2. /\ out.w \in SysctlWorld /\ out.res \in {"changed", "unchanged", "error"}
        /\ ~out.w.fault => ~u.fault /\ out.w.dropin = "none" /\ out.w.live = u.live
        /\ out.res = "unchanged" => out.w = u
    BY <1>5, <2>1, SysctlFaulty DEF Lost, Ends, Done
  <2> QED BY <1>6, <1>s, <1>t, <1>9, <2>2 DEF Executed
<1> QED BY <1>6, <1>7, <1>8, <1>9

\* A sysctl step has reached what it declares when each of its ops has seen to
\* its part.
LEMMA SysctlSettled ==
  ASSUME NEW c \in HostConfig, c.kind = "sysctl", NEW u, \A o \in Ops(c) : SeesTo(c, o, u)
  PROVE  Desired(c, u) \/ Unseen(c, u)
BY SysctlIs DEF SysctlOps, SeesTo, SysctlDesired

----

\* A mount step, by its ops and its worlds.
LEMMA MountIs ==
  ASSUME NEW c \in HostConfig, c.kind = "mount"
  PROVE  /\ Ops(c) = {"main"} /\ ~Leads(c, "main") /\ Deps(c, "main") = {}
         /\ \A u : /\ IsWorld(c, u) <=> u \in MountWorld /\ (u.mounted # "none" => u.dir)
                   /\ Desired(c, u) <=> MountDesired(c, u)
                   /\ Unseen(c, u) <=> MountUnseen(c, u)
                   /\ Stuck(c, u) <=> MountStuck(c, u)
                   /\ Target(c, u) = WithFault(u, FALSE)
         /\ \A u : /\ Check(c, "main", u) = CheckMount(c, u)
                   /\ Execute(c, "main", u) = ExecuteMount(c, u)
BY DEF HostKinds, FileKinds, CommandKinds, Ops, HostOps, Deps, HostDeps, Leads, IsWorld,
   IsHostWorld, Desired, HostDesired, Unseen, HostUnseen, Stuck, HostStuck, Target, Check,
   HostCheck, Execute, HostExecute

\* The checks of a mount step only look, and tell what is so.
LEMMA MountLooked ==
  ASSUME NEW c \in HostConfig, c.kind = "mount", NEW u \in MountWorld, u.mounted # "none" => u.dir,
         NEW out \in Check(c, "main", u)
  PROVE  Looked(c, "main", u, out)
<1>1. c.state \in {"mounted", "unmounted", "absent"} /\ c.opts # "none" BY HostConfigs
<1>2. (SeesTo(c, "main", u) <=> MountDesired(c, u) \/ MountUnseen(c, u)) /\ ~Leads(c, "main")
  BY MountIs DEF SeesTo
<1>3. Faulty(u).fault = TRUE /\ Faulty(Faulty(u)) = Faulty(u) BY MountFault, FaultyTwice DEF Faulty
<1>4. out \in CheckMount(c, u) BY MountIs
<1>5. out.w \in {u, Faulty(u)} /\ out.res \in {"satisfied", "unsatisfied", "error"}
  BY <1>1, <1>3, <1>4 DEF CheckMount, AskOr, Ask, Lost, Ends, Verdict
<1>6. ASSUME ~u.fault, out.w = u, out.res = "satisfied"
      PROVE  /\ c.state = "mounted" => u.fstab = c.opts /\ FindmntTarget(u)
             /\ c.state = "unmounted" => u.fstab = c.opts /\ ~FindmntTarget(u)
             /\ c.state = "absent" => u.fstab = "none" /\ ~FindmntTarget(u)
  BY <1>1, <1>3, <1>4, <1>6 DEF CheckMount, AskOr, Ask, Lost, Ends, Verdict
<1>7. ASSUME ~u.fault, out.w = u, out.res = "satisfied"
      PROVE  MountDesired(c, u) \/ MountUnseen(c, u)
  BY <1>1, <1>6, <1>7 DEF MountDesired, MountUnseen, FindmntTarget
<1> QED BY <1>2, <1>5, <1>7 DEF Looked

\* The calls of a mount.
LEMMA MountFaulty ==
  \A x \in MountWorld : /\ Faulty(x) \in MountWorld /\ Faulty(x).fault = TRUE /\ x.fault \in BOOLEAN
                        /\ Faulty(x).dir = x.dir /\ Faulty(x).mounted = x.mounted
                        /\ Faulty(x).fstab = x.fstab
BY MountFault DEF Faulty, MountWorld

\* An fstab edit that came back has left the line that is declared, or none;
\* mounts and directories are untouched.
LEMMA FstabEnsured ==
  ASSUME NEW c, c.opts \in Value, NEW u \in MountWorld, NEW out \in EnsureFstab(c, u) \cup RemoveFstab(u)
  PROVE  /\ out.w \in MountWorld /\ (~out.w.fault => ~u.fault)
         /\ out.w.dir = u.dir /\ out.w.mounted = u.mounted
         /\ out \in EnsureFstab(c, u) => /\ out.res \in {"returned", "error"}
                                         /\ out.res = "returned" => out.w.fstab = c.opts
         /\ out \in RemoveFstab(u) => /\ out.res \in {"changed", "error"}
                                      /\ out.res = "changed" => out.w.fstab = "none"
<1> DEFINE cut  == FstabCut(u)
           kept == [u EXCEPT !.fstab = c.opts]
           gone == [u EXCEPT !.fstab = "none"]
<1>1. cut \in MountWorld BY Words DEF FstabCut, MountWorld
<1>2. cut.fault = u.fault /\ cut.dir = u.dir /\ cut.mounted = u.mounted BY DEF FstabCut, MountWorld
<1>3. /\ kept \in MountWorld /\ kept.fault = u.fault /\ kept.dir = u.dir
      /\ kept.mounted = u.mounted /\ kept.fstab = c.opts
  BY DEF MountWorld
<1>4. /\ gone \in MountWorld /\ gone.fault = u.fault /\ gone.dir = u.dir
      /\ gone.mounted = u.mounted /\ gone.fstab = "none"
  BY Words DEF MountWorld
<1>5. /\ EnsureFstab(c, u) = Lost(u) \cup (Lost(cut) \cup (Lost(u) \cup Lost(kept) \cup Returns(kept)))
      /\ RemoveFstab(u) = Lost(u) \cup (Lost(cut) \cup (Lost(u) \cup Lost(gone) \cup Done(gone)))
  BY DEF EnsureFstab, RemoveFstab, Ask, Call
<1> HIDE DEF cut, kept, gone
<1>6. ASSUME out \in EnsureFstab(c, u)
      PROVE  /\ out.w \in MountWorld /\ (~out.w.fault => ~u.fault)
             /\ out.w.dir = u.dir /\ out.w.mounted = u.mounted
             /\ out.res \in {"returned", "error"}
             /\ out.res = "returned" => out.w.fstab = c.opts
  BY <1>1, <1>2, <1>3, <1>5, <1>6, MountFaulty DEF Lost, Ends, Returns
<1>7. ASSUME out \in RemoveFstab(u)
      PROVE  /\ out.w \in MountWorld /\ (~out.w.fault => ~u.fault)
             /\ out.w.dir = u.dir /\ out.w.mounted = u.mounted
             /\ out.res \in {"changed", "error"}
             /\ out.res = "changed" => out.w.fstab = "none"
  BY <1>1, <1>2, <1>4, <1>5, <1>7, MountFaulty DEF Lost, Ends, Done
<1> QED BY <1>6, <1>7

\* Mounting: when no call failed there is a mount point, and fstab is
\* untouched.
LEMMA PointMounted ==
  ASSUME NEW u \in MountWorld, u.mounted # "none" => u.dir, NEW out \in Point(u)
  PROVE  /\ out.w \in MountWorld /\ (out.w.mounted # "none" => out.w.dir)
         /\ out.res \in {"changed", "error"}
         /\ ~out.w.fault => ~u.fault /\ out.w.dir /\ out.w.fstab = u.fstab
<1> DEFINE dir == [u EXCEPT !.dir = TRUE]
<1>1. /\ dir \in MountWorld /\ dir.fault = u.fault /\ dir.dir = TRUE /\ dir.fstab = u.fstab
      /\ dir.mounted = u.mounted
  BY DEF MountWorld
<1>2. ASSUME NEW x \in MountWorld, x.mounted # "none" => x.dir, out \in DoMount(x)
      PROVE  /\ out.w \in MountWorld /\ (out.w.mounted # "none" => out.w.dir)
             /\ out.res \in {"changed", "error"} /\ (~out.w.fault => ~x.fault)
  <2> DEFINE on == [x EXCEPT !.mounted = x.fstab]
  <2>1. on \in MountWorld /\ on.fault = x.fault /\ on.dir = x.dir BY DEF MountWorld
  <2>2. \/ out \in Ends("error", x)
        \/ x.dir /\ out \in Lost(x) \cup Lost(on) \cup Done(on)
    BY <1>2 DEF DoMount, Call
  <2> HIDE DEF on
  <2> QED BY <1>2, <2>1, <2>2, MountFaulty DEF Lost, Ends, Done
<1>3. \/ out \in MountIfNot(Faulty(u))
      \/ out \in MountIfNot(dir)
  BY DEF Point, Try
<1> HIDE DEF dir
<1>4. ASSUME NEW x \in MountWorld, x.mounted # "none" => x.dir, out \in MountIfNot(x)
      PROVE  out \in DoMount(Faulty(x)) \/ (FindmntTarget(x) /\ out \in Done(x)) \/ (~FindmntTarget(x) /\ out \in DoMount(x))
  BY <1>4 DEF MountIfNot, AskOr
<1>5. CASE out \in MountIfNot(Faulty(u))
  <2>1. Faulty(u) \in MountWorld /\ Faulty(u).fault = TRUE /\ (Faulty(u).mounted # "none" => Faulty(u).dir)
        /\ Faulty(Faulty(u)) = Faulty(u)
    BY MountFaulty, FaultyTwice
  <2>2. out \in DoMount(Faulty(u)) \/ out \in Done(Faulty(u)) BY <1>4, <1>5, <2>1
  <2>3. CASE out \in DoMount(Faulty(u)) BY <1>2, <2>1, <2>3
  <2>4. CASE out \in Done(Faulty(u)) BY <2>1, <2>4 DEF Done, Ends
  <2> QED BY <2>2, <2>3, <2>4
<1>6. CASE out \in MountIfNot(dir)
  <2>1. /\ Faulty(dir) \in MountWorld /\ Faulty(dir).fault = TRUE
        /\ Faulty(dir).mounted # "none" => Faulty(dir).dir
    BY <1>1, MountFaulty
  <2>2. FindmntTarget(dir) = TRUE BY <1>1 DEF FindmntTarget
  <2>3. out \in DoMount(Faulty(dir)) \/ out \in Done(dir) BY <1>1, <1>4, <1>6, <2>2
  <2>4. CASE out \in DoMount(Faulty(dir)) BY <1>2, <2>1, <2>4
  <2>5. CASE out \in Done(dir) BY <1>1, <2>5 DEF Done, Ends
  <2> QED BY <2>3, <2>4, <2>5
<1> QED BY <1>3, <1>5, <1>6

\* Unmounting: when no call failed and it came back, nothing is mounted.
LEMMA Unmounted ==
  ASSUME NEW u \in MountWorld, u.mounted # "none" => u.dir, NEW out \in Unmount(u)
  PROVE  /\ out.w \in MountWorld /\ (out.w.mounted # "none" => out.w.dir)
         /\ out.res \in {"returned", "error"}
         /\ ~out.w.fault => ~u.fault
         /\ ~out.w.fault /\ out.res = "returned" => out.w.mounted = "none" /\ out.w.fstab = u.fstab
<1> DEFINE off == [u EXCEPT !.mounted = "none"]
<1>1. off \in MountWorld /\ off.fault = u.fault /\ off.fstab = u.fstab /\ off.mounted = "none"
  BY Words DEF MountWorld
<1>2. \/ out \in Returns(Faulty(u)) \cup Ends("error", u) \cup Lost(u) \cup Lost(off) \cup Returns(off)
      \/ ~FindmntTarget(u) /\ out \in Returns(u)
  BY DEF Unmount, AskOr, DoUnmount, Call
<1>3. ~FindmntTarget(u) => u.mounted = "none" BY DEF FindmntTarget
<1> HIDE DEF off
<1> QED BY <1>1, <1>2, <1>3, MountFaulty DEF Lost, Ends, Returns

\* The mount op does what it is there for, in each of its states: mounted,
\* unmounted, absent.
LEMMA MountExecuted ==
  ASSUME NEW c \in Config, c \in HostConfig, c.kind = "mount", NEW u \in MountWorld,
         u.mounted # "none" => u.dir, NEW out \in Execute(c, "main", u)
  PROVE  Executed(c, "main", u, out)
<1>1. c.state \in {"mounted", "unmounted", "absent"} /\ c.opts \in Value BY HostConfigs
<1>2. SeesTo(c, "main", out.w) <=> MountDesired(c, out.w) \/ MountUnseen(c, out.w)
  BY MountIs DEF SeesTo
<1>3. out \in ExecuteMount(c, u) BY MountIs
<1> SUFFICES /\ out.w \in MountWorld /\ (out.w.mounted # "none" => out.w.dir)
             /\ out.res \in {"changed", "error"} /\ (~out.w.fault => ~u.fault)
             /\ ~out.w.fault /\ out.res = "changed" => SeesTo(c, "main", out.w)
  BY MountIs, AloneIsExecuted
<1>4. CASE c.state = "mounted"
  <2>1. \/ out \in EnsureFstab(c, u) /\ out.res # "returned"
        \/ \E d \in EnsureFstab(c, u) : d.res = "returned" /\ out \in Point(d.w)
    BY <1>3, <1>4 DEF ExecuteMount, Then
  <2>2. CASE out \in EnsureFstab(c, u) /\ out.res # "returned" BY <1>1, <2>2, FstabEnsured
  <2>3. ASSUME NEW d \in EnsureFstab(c, u), d.res = "returned", out \in Point(d.w)
        PROVE  /\ out.w \in MountWorld /\ (out.w.mounted # "none" => out.w.dir)
               /\ out.res \in {"changed", "error"} /\ (~out.w.fault => ~u.fault)
               /\ ~out.w.fault => out.w.dir /\ out.w.fstab = c.opts
    <3>1. /\ d.w \in MountWorld /\ (~d.w.fault => ~u.fault) /\ (d.w.mounted # "none" => d.w.dir)
          /\ d.w.fstab = c.opts
      BY <1>1, <2>3, FstabEnsured
    <3> QED BY <2>3, <3>1, PointMounted
  <2>4. out.w.dir /\ out.w.fstab = c.opts => SeesTo(c, "main", out.w)
    BY <1>2, <1>4 DEF MountDesired, MountUnseen
  <2> QED BY <2>1, <2>2, <2>3, <2>4
<1>5. CASE c.state = "unmounted"
  <2>1. \/ out \in EnsureFstab(c, u) /\ out.res # "returned"
        \/ \E d \in EnsureFstab(c, u) : d.res = "returned" /\ out \in Then(Unmount(d.w), Done)
    BY <1>3, <1>5 DEF ExecuteMount, Then
  <2>2. CASE out \in EnsureFstab(c, u) /\ out.res # "returned" BY <1>1, <2>2, FstabEnsured
  <2>3. ASSUME NEW d \in EnsureFstab(c, u), d.res = "returned", out \in Then(Unmount(d.w), Done)
        PROVE  /\ out.w \in MountWorld /\ (out.w.mounted # "none" => out.w.dir)
               /\ out.res \in {"changed", "error"} /\ (~out.w.fault => ~u.fault)
               /\ ~out.w.fault /\ out.res = "changed" => out.w.mounted = "none" /\ out.w.fstab = c.opts
    <3>1. /\ d.w \in MountWorld /\ (~d.w.fault => ~u.fault) /\ (d.w.mounted # "none" => d.w.dir)
          /\ d.w.fstab = c.opts
      BY <1>1, <2>3, FstabEnsured
    <3>2. \/ out \in Unmount(d.w) /\ out.res # "returned"
          \/ \E e \in Unmount(d.w) : e.res = "returned" /\ out \in Done(e.w)
      BY <2>3 DEF Then
    <3>3. CASE out \in Unmount(d.w) /\ out.res # "returned" BY <3>1, <3>3, Unmounted
    <3>4. ASSUME NEW e \in Unmount(d.w), e.res = "returned", out \in Done(e.w)
          PROVE  /\ out.w \in MountWorld /\ (out.w.mounted # "none" => out.w.dir)
                 /\ out.res = "changed" /\ (~out.w.fault => ~u.fault)
                 /\ ~out.w.fault => out.w.mounted = "none" /\ out.w.fstab = c.opts
      <4>1. out.w = e.w /\ out.res = "changed" BY <3>4 DEF Done, Ends
      <4> QED BY <3>1, <3>4, <4>1, Unmounted
    <3> QED BY <3>2, <3>3, <3>4
  <2>4. out.w.mounted = "none" /\ out.w.fstab = c.opts => SeesTo(c, "main", out.w)
    BY <1>2, <1>5 DEF MountDesired
  <2> QED BY <2>1, <2>2, <2>3, <2>4
<1>6. CASE c.state = "absent"
  <2>1. \/ out \in Unmount(u) /\ out.res # "returned"
        \/ \E d \in Unmount(u) : d.res = "returned" /\ out \in RemoveFstab(d.w)
    BY <1>3, <1>6 DEF ExecuteMount, Then
  <2>2. CASE out \in Unmount(u) /\ out.res # "returned" BY <2>2, Unmounted
  <2>3. ASSUME NEW d \in Unmount(u), d.res = "returned", out \in RemoveFstab(d.w)
        PROVE  /\ out.w \in MountWorld /\ (out.w.mounted # "none" => out.w.dir)
               /\ out.res \in {"changed", "error"} /\ (~out.w.fault => ~u.fault)
               /\ ~out.w.fault /\ out.res = "changed" => out.w.mounted = "none" /\ out.w.fstab = "none"
    <3>1. /\ d.w \in MountWorld /\ (~d.w.fault => ~u.fault) /\ (d.w.mounted # "none" => d.w.dir)
          /\ ~d.w.fault => d.w.mounted = "none"
      BY <2>3, Unmounted
    <3> QED BY <1>1, <2>3, <3>1, FstabEnsured
  <2>4. out.w.mounted = "none" /\ out.w.fstab = "none" => SeesTo(c, "main", out.w)
    BY <1>2, <1>6 DEF MountDesired
  <2> QED BY <2>1, <2>2, <2>3, <2>4
<1> QED BY <1>1, <1>4, <1>5, <1>6

\* A mount step has reached what it declares when each of its ops has seen to
\* its part.
LEMMA MountSettled ==
  ASSUME NEW c \in HostConfig, c.kind = "mount", NEW u, \A o \in Ops(c) : SeesTo(c, o, u)
  PROVE  Desired(c, u) \/ Unseen(c, u)
BY MountIs DEF SeesTo

\* A firewall step, by its ops and its worlds.
LEMMA FirewallIs ==
  ASSUME NEW c \in HostConfig, c.kind = "firewall"
  PROVE  /\ Ops(c) = {"main"} /\ ~Leads(c, "main") /\ Deps(c, "main") = {}
         /\ \A u : /\ IsWorld(c, u) <=> u \in FirewallWorld
                   /\ Desired(c, u) <=> RuleDesired(c, u)
                   /\ Unseen(c, u) <=> RuleUnseen(c, u)
                   /\ ~Stuck(c, u)
                   /\ Target(c, u) = WithFault(u, FALSE)
         /\ \A u : /\ Check(c, "main", u) = CheckRule(c, u)
                   /\ Execute(c, "main", u) = ExecuteRule(c, u)
BY DEF HostKinds, FileKinds, CommandKinds, Ops, HostOps, Deps, HostDeps, Leads, IsWorld,
   IsHostWorld, Desired, HostDesired, Unseen, HostUnseen, Stuck, HostStuck, Target, Check,
   HostCheck, Execute, HostExecute

\* A failed call changes nothing else in the world of a firewall step.
LEMMA FirewallFaulty ==
  \A x \in FirewallWorld : /\ Faulty(x) \in FirewallWorld /\ Faulty(x).fault = TRUE
                           /\ x.fault \in BOOLEAN /\ Faulty(Faulty(x)) = Faulty(x)
<1> TAKE x \in FirewallWorld
<1>1. x.fault \in BOOLEAN BY DEF FirewallWorld
<1>2. Faulty(x) \in FirewallWorld /\ Faulty(x).fault = TRUE BY FirewallFault DEF Faulty
<1> QED BY <1>1, <1>2, FaultyTwice

\* The firewall back-end that is found is ufw where there is ufw, unless a
\* call failed.
LEMMA BackendDetected ==
  ASSUME NEW u \in FirewallWorld, NEW d \in DetectBackend(u)
  PROVE  /\ d.res \in {"ufw", "firewalld", "error"} /\ d.w \in {u, Faulty(u)}
         /\ d.w # Faulty(u) /\ d.res # "error" => (d.res = "ufw" <=> u.ufw)
BY FirewallFaulty DEF DetectBackend, AskOr, Ends

\* The checks of a firewall step only look, and tell what is so.
LEMMA FirewallLooked ==
  ASSUME NEW c \in HostConfig, c.kind = "firewall", NEW u \in FirewallWorld,
         NEW out \in Check(c, "main", u)
  PROVE  Looked(c, "main", u, out)
<1>1. (SeesTo(c, "main", u) <=> RuleDesired(c, u) \/ RuleUnseen(c, u)) /\ ~Leads(c, "main")
  BY FirewallIs DEF SeesTo
<1>2. PICK d \in DetectBackend(u) :
            \/ d.res = "ufw" /\ out \in Lost(d.w) \cup Verdict(d.w.added = c.action, d.w)
            \/ d.res = "firewalld" /\ out \in Lost(d.w) \cup Verdict(c.action \in d.w.runtime, d.w)
            \/ d.res = "error" /\ out \in Ends("error", d.w)
  <2>1. out \in CheckRule(c, u) BY FirewallIs
  <2> QED BY <2>1, BackendDetected DEF CheckRule, Ask
<1>3. /\ d.res \in {"ufw", "firewalld", "error"} /\ d.w \in {u, Faulty(u)}
      /\ d.w # Faulty(u) /\ d.res # "error" => (d.res = "ufw" <=> u.ufw)
  BY BackendDetected
<1>4. Faulty(u).fault = TRUE /\ Faulty(Faulty(u)) = Faulty(u) BY FirewallFaulty
<1>5. out.w \in {u, Faulty(u)} /\ out.res \in {"satisfied", "unsatisfied", "error"}
  BY <1>2, <1>3, <1>4 DEF Lost, Ends, Verdict
<1>6. ASSUME ~u.fault, out.w = u, out.res = "satisfied"
      PROVE  IF u.ufw THEN u.added = c.action ELSE c.action \in u.runtime
  BY <1>2, <1>3, <1>4, <1>6 DEF Lost, Ends, Verdict
<1>7. (IF u.ufw THEN u.added = c.action ELSE c.action \in u.runtime) =>
         RuleDesired(c, u) \/ RuleUnseen(c, u)
  BY DEF RuleDesired, RuleUnseen
<1> QED BY <1>1, <1>5, <1>6, <1>7 DEF Looked

\* The firewall op does what it is there for: the rule is where ufw, or
\* firewalld at run time and for good, looks for it.
LEMMA FirewallExecuted ==
  ASSUME NEW c \in Config, c \in HostConfig, c.kind = "firewall", NEW u \in FirewallWorld,
         NEW out \in Execute(c, "main", u)
  PROVE  Executed(c, "main", u, out)
<1>0. c.action \in Actions BY HostConfigs
<1>1. (IF out.w.ufw THEN out.w.added = c.action ELSE c.action \in out.w.runtime) =>
         SeesTo(c, "main", out.w)
  BY FirewallIs DEF SeesTo, RuleDesired, RuleUnseen
<1> DEFINE Added(x) == [x EXCEPT !.added = c.action]
           Made(x)  == [x EXCEPT !.permanent = @ \cup {c.action}]
<1>2. PICK d \in DetectBackend(u) :
            \/ d.res = "ufw" /\ out \in Lost(d.w) \cup Lost(Added(d.w)) \cup Done(Added(d.w))
            \/ /\ d.res = "firewalld"
               /\ \/ out \in Lost(d.w) \cup Lost(Made(d.w))
                  \/ out \in Lost(Made(d.w)) \cup Lost(Reloaded(Made(d.w))) \cup Done(Reloaded(Made(d.w)))
            \/ d.res = "error" /\ out \in Ends("error", d.w)
  <2>1. out \in ExecuteRule(c, u) BY FirewallIs
  <2> QED BY <2>1, BackendDetected DEF ExecuteRule, Call, ReloadFirewall
<1>3. /\ d.res \in {"ufw", "firewalld", "error"} /\ d.w \in FirewallWorld
      /\ ~d.w.fault => ~u.fault /\ d.w = u
      /\ ~d.w.fault /\ d.res # "error" => (d.res = "ufw" <=> u.ufw)
  BY BackendDetected, FirewallFaulty
<1>4. \A x \in FirewallWorld :
         /\ Added(x) \in FirewallWorld /\ Added(x).fault = x.fault /\ Added(x).added = c.action
         /\ Added(x).ufw = x.ufw
  BY <1>0 DEF FirewallWorld
<1>5. \A x \in FirewallWorld :
         Made(x) \in FirewallWorld /\ Made(x).fault = x.fault /\ c.action \in Made(x).permanent
         /\ Made(x).ufw = x.ufw
  BY <1>0 DEF FirewallWorld
<1>6. \A x \in FirewallWorld : Reloaded(x) \in FirewallWorld BY DEF FirewallWorld, Reloaded
<1>7. \A x \in FirewallWorld : Reloaded(x).fault = x.fault /\ Reloaded(x).permanent = x.permanent
                               /\ Reloaded(x).ufw = x.ufw /\ Reloaded(x).runtime = x.permanent
  BY DEF FirewallWorld, Reloaded
<1> HIDE DEF Added, Made
<1> SUFFICES /\ out.w \in FirewallWorld /\ out.res \in {"changed", "error"}
             /\ ~out.w.fault => ~u.fault
             /\ ~out.w.fault /\ out.res = "changed" =>
                   IF out.w.ufw THEN out.w.added = c.action ELSE c.action \in out.w.runtime
  BY <1>1, FirewallIs, AloneIsExecuted
<1>8. CASE d.res = "ufw" BY <1>2, <1>3, <1>4, <1>8, FirewallFaulty DEF Lost, Ends, Done
<1>9. CASE d.res = "firewalld"
  BY <1>2, <1>3, <1>5, <1>6, <1>7, <1>9, FirewallFaulty DEF Lost, Ends, Done
<1>10. CASE d.res = "error" BY <1>2, <1>3, <1>10 DEF Ends
<1> QED BY <1>3, <1>8, <1>9, <1>10

\* A firewall step has reached what it declares when each of its ops has seen
\* to its part.
LEMMA FirewallSettled ==
  ASSUME NEW c \in HostConfig, c.kind = "firewall", NEW u, \A o \in Ops(c) : SeesTo(c, o, u)
  PROVE  Desired(c, u) \/ Unseen(c, u)
BY FirewallIs DEF SeesTo

\* A run step, by its ops and its worlds.
LEMMA RunIs ==
  ASSUME NEW c \in CommandConfig, c.kind = "run"
  PROVE  /\ Ops(c) = {"main"} /\ ~Leads(c, "main") /\ Deps(c, "main") = {}
         /\ c.always \in BOOLEAN /\ c.apply \in {"works", "fails", "idle"}
         /\ \A u : /\ IsWorld(c, u) <=> u \in RunWorld
                   /\ Desired(c, u) <=> u.holds
                   /\ Unseen(c, u) <=> c.always /\ c.apply = "idle"
                   /\ ~Stuck(c, u)
                   /\ Target(c, u) = WithFault(u, FALSE)
         /\ \A u : /\ Check(c, "main", u) = CheckRun(c, u)
                   /\ Execute(c, "main", u) = ExecuteRun(c, u)
BY DEF HostKinds, FileKinds, CommandKinds, CommandConfig, Ops, Deps, Leads, IsWorld,
   IsCommandWorld, Desired, CommandDesired, Unseen, CommandUnseen, Stuck, Target, Check, CommandCheck,
   Execute, CommandExecute

\* The checks of a run step only look, and tell what is so.
LEMMA RunLooked ==
  ASSUME NEW c \in CommandConfig, c.kind = "run", NEW u \in RunWorld, NEW out \in Check(c, "main", u)
  PROVE  Looked(c, "main", u, out)
<1>1. out \in CheckRun(c, u) /\ ~Leads(c, "main") /\ (u.holds => SeesTo(c, "main", u))
  BY RunIs DEF SeesTo
<1>2. Faulty(u).fault = TRUE BY RunFault DEF Faulty
<1>3. out \in Verdict(FALSE, u) \cup Lost(u) \cup Verdict(u.holds, u) BY <1>1 DEF CheckRun, Ask
<1> QED BY <1>1, <1>2, <1>3 DEF Looked, Lost, Ends, Verdict

\* The run op does what it is there for.
LEMMA RunExecuted ==
  ASSUME NEW c \in Config, c \in CommandConfig, c.kind = "run", NEW u \in RunWorld,
         NEW out \in Execute(c, "main", u)
  PROVE  Executed(c, "main", u, out)
<1> DEFINE v == [u EXCEPT !.holds = @ \/ c.apply = "works"]
<1>1. v \in RunWorld /\ v.fault = u.fault /\ v.holds = (u.holds \/ c.apply = "works")
  BY DEF RunWorld
<1>2. out \in ExecuteRun(c, u) /\ c.always \in BOOLEAN /\ c.apply \in {"works", "fails", "idle"}
  BY RunIs
<1>3. \/ c.apply = "fails" /\ out \in Lost(u) \cup Ends("error", u)
      \/ out \in Lost(u) \cup Lost(v)
      \/ c.apply # "fails" /\ c.always /\ out \in Done(v)
      \/ ~c.always /\ v.holds /\ out \in Done(v)
      \/ ~c.always /\ out \in Ends("error", v)
  BY <1>2 DEF ExecuteRun, Call, Ask
<1>4. \A x \in RunWorld : Faulty(x) \in RunWorld /\ Faulty(x).fault = TRUE /\ x.fault \in BOOLEAN
  BY RunFault DEF Faulty, RunWorld
<1> HIDE DEF v
<1>5. /\ out.w \in RunWorld /\ out.res \in {"changed", "error"} /\ (~out.w.fault => ~u.fault)
      /\ out.res = "changed" => out.w.holds \/ (c.always /\ c.apply = "idle")
  BY <1>1, <1>2, <1>3, <1>4 DEF Lost, Ends, Done
<1>6. SeesTo(c, "main", out.w) <=> out.w.holds \/ (c.always /\ c.apply = "idle") BY RunIs DEF SeesTo
<1> QED BY <1>5, <1>6, RunIs, AloneIsExecuted

\* A run step has reached what it declares when each of its ops has seen to
\* its part.
LEMMA RunSettled ==
  ASSUME NEW c \in CommandConfig, c.kind = "run", NEW u, \A o \in Ops(c) : SeesTo(c, o, u)
  PROVE  Desired(c, u) \/ Unseen(c, u)
BY RunIs DEF SeesTo

----

\* A run_set step, by its ops and its worlds.
LEMMA RunSetIs ==
  ASSUME NEW c \in CommandConfig, c.kind = "run_set"
  PROVE  /\ Ops(c) = {"main"} /\ ~Leads(c, "main") /\ Deps(c, "main") = {}
         /\ c.add \in BOOLEAN /\ c.remove \in BOOLEAN /\ c.init \in BOOLEAN
         /\ c.desired \in SUBSET Value
         /\ \A u : /\ IsWorld(c, u) <=> u \in RunSetWorld
                   /\ Desired(c, u) <=> /\ u.listed
                                        /\ c.add => c.desired \subseteq u.live
                                        /\ c.remove => u.live \subseteq c.desired
                   /\ ~Unseen(c, u) /\ ~Stuck(c, u)
                   /\ Target(c, u) = u.live
                   /\ SeesTo(c, "main", u) <=> Desired(c, u)
         /\ \A u : /\ Check(c, "main", u) = CheckRunSet(c, u)
                   /\ Execute(c, "main", u) = ExecuteRunSet(c, u)
BY DEF HostKinds, FileKinds, CommandKinds, CommandConfig, Ops, Deps, Leads, IsWorld,
   IsCommandWorld, Desired, CommandDesired, Unseen, CommandUnseen, Stuck, Target, Check, CommandCheck,
   Execute, CommandExecute, SeesTo

\* A failed call changes nothing else in the world of a run_set step.
LEMMA RunSetFaulty ==
  \A x \in RunSetWorld : /\ Faulty(x) \in RunSetWorld /\ Faulty(x).fault = TRUE /\ x.fault \in BOOLEAN
                         /\ Faulty(x).live = x.live
BY RunSetFault DEF Faulty, RunSetWorld

\* A run_set lists what is there and changes nothing of it.
LEMMA LiveListed ==
  ASSUME NEW c, NEW u \in RunSetWorld, NEW d \in ListLive(c, u)
  PROVE  /\ d.w \in RunSetWorld /\ d.res \in {"returned", "error"} /\ (~d.w.fault => ~u.fault)
         /\ d.w.live = u.live
         /\ u.listed => d.w.listed
         /\ d.res = "returned" => d.w.listed
<1> DEFINE v == [u EXCEPT !.listed = TRUE]
<1>1. v \in RunSetWorld /\ v.fault = u.fault /\ v.live = u.live /\ v.listed = TRUE
  BY DEF RunSetWorld
<1>2. \/ d \in Lost(u) \cup Lost(v) \cup Returns(v)
      \/ u.listed /\ d \in Returns(u)
      \/ d \in Ends("error", u)
  BY DEF ListLive, Call, Ask
<1>3. Faulty(u).listed = u.listed /\ Faulty(v).listed = TRUE BY <1>1, RunSetFault DEF Faulty
<1> HIDE DEF v
<1> QED BY <1>1, <1>2, <1>3, RunSetFaulty DEF Lost, Ends, Returns

\* The plan of a run_set is what its list leaves to add and to remove.
LEMMA PlanMade ==
  ASSUME NEW c \in CommandConfig, c.kind = "run_set", NEW u \in RunSetWorld
  PROVE  LET v == Planned(c, u)
         IN /\ v \in RunSetWorld /\ v.fault = u.fault /\ v.live = u.live /\ v.listed = u.listed
            /\ v.adds = ToAdd(c, v) /\ v.removes = ToRemove(c, v)
BY RunSetIs DEF ToAdd, ToRemove, RunSetWorld, Planned

\* The check of a run_set says what is so, and when it says "unsatisfied" the
\* plan stands for the op.
LEMMA RunSetChecked ==
  ASSUME NEW c \in Config, c \in CommandConfig, c.kind = "run_set", NEW u \in RunSetWorld,
         NEW out \in Check(c, "main", u)
  PROVE  Checked(c, "main", u, out)
<1>1. out \in CheckRunSet(c, u) BY RunSetIs
<1>2. \/ out \in ListLive(c, u) /\ out.res # "returned"
      \/ \E d \in ListLive(c, u) :
            /\ d.res = "returned"
            /\ out \in Verdict(ToAdd(c, d.w) \cup ToRemove(c, d.w) = {}, Planned(c, d.w))
  BY <1>1 DEF CheckRunSet, Then
<1>3. \A x, y : x.live = y.live /\ (x.listed => y.listed) /\ SeesTo(c, "main", x) => SeesTo(c, "main", y)
  BY RunSetIs
<1>4. CASE out \in ListLive(c, u) /\ out.res # "returned"
  <2>1. /\ out.w \in RunSetWorld /\ out.res = "error" /\ (~out.w.fault => ~u.fault)
        /\ out.w.live = u.live /\ (u.listed => out.w.listed)
    BY <1>4, LiveListed
  <2> QED BY <1>3, <2>1, RunSetIs DEF Checked
<1>5. ASSUME NEW d \in ListLive(c, u), d.res = "returned",
             out \in Verdict(ToAdd(c, d.w) \cup ToRemove(c, d.w) = {}, Planned(c, d.w))
      PROVE  Checked(c, "main", u, out)
  <2>1. /\ d.w \in RunSetWorld /\ (~d.w.fault => ~u.fault) /\ d.w.live = u.live /\ d.w.listed
    BY <1>5, LiveListed
  <2>2. out.w = Planned(c, d.w) /\ out.res \in {"satisfied", "unsatisfied"}
        /\ (out.res = "satisfied" => ToAdd(c, d.w) \cup ToRemove(c, d.w) = {})
    BY <1>5 DEF Verdict, Ends
  <2>3. /\ out.w \in RunSetWorld /\ out.w.fault = d.w.fault /\ out.w.live = u.live /\ out.w.listed
        /\ out.w.adds = ToAdd(c, out.w) /\ out.w.removes = ToRemove(c, out.w)
    BY <2>1, <2>2, PlanMade
  <2>4. out.res = "satisfied" => SeesTo(c, "main", out.w)
    <3>1. ASSUME ToAdd(c, d.w) = {}, ToRemove(c, d.w) = {}
          PROVE  (c.add => c.desired \subseteq d.w.live) /\ (c.remove => d.w.live \subseteq c.desired)
      BY <3>1 DEF ToAdd, ToRemove
    <3> QED BY <2>1, <2>2, <2>3, <3>1, RunSetIs
  <2> QED BY <1>3, <2>1, <2>2, <2>3, <2>4, RunSetIs DEF Checked, PlanStands
<1> QED BY <1>2, <1>4, <1>5

\* The run_set op, when its plan still stands, adds what is missing and
\* removes what is not wanted.
LEMMA RunSetExecuted ==
  ASSUME NEW c \in Config, c \in CommandConfig, c.kind = "run_set", NEW u \in RunSetWorld,
         NEW out \in Execute(c, "main", u)
  PROVE  Executed(c, "main", u, out)
<1> DEFINE v == WithoutItems(u, u.removes)
<1>1. \A T \in SUBSET u.removes :
         WithoutItems(u, T) \in RunSetWorld /\ WithoutItems(u, T).fault = u.fault
  BY DEF RunSetWorld, WithoutItems
<1>2. /\ v \in RunSetWorld /\ v.fault = u.fault /\ v.live = u.live \ u.removes
      /\ v.listed = u.listed /\ v.adds = u.adds /\ v.removes = u.removes
  BY DEF RunSetWorld, WithoutItems
<1> HIDE DEF v
<1>3. \A T \in SUBSET v.adds :
         /\ WithItems(v, T) \in RunSetWorld /\ WithItems(v, T).fault = v.fault
         /\ WithItems(v, T).listed = v.listed /\ WithItems(v, T).live = v.live \cup T
  BY <1>2 DEF RunSetWorld, WithItems
<1>4. \/ \E T \in SUBSET u.removes : out \in Lost(WithoutItems(u, T))
      \/ \E T \in SUBSET v.adds : out \in Lost(WithItems(v, T))
      \/ out \in Ends(IF v.adds \cup v.removes = {} THEN "unchanged" ELSE "changed",
                      WithItems(v, v.adds))
  <2>1. out \in ExecuteRunSet(c, u) BY RunSetIs
  <2>2. out \in UNION {Lost(WithoutItems(u, T)) : T \in SUBSET u.removes} \/ out \in AddItems(v)
    BY <2>1 DEF ExecuteRunSet, v
  <2>3. out \in AddItems(v) =>
           \/ out \in UNION {Lost(WithItems(v, T)) : T \in SUBSET v.adds}
           \/ out \in Ends(IF v.adds \cup v.removes = {} THEN "unchanged" ELSE "changed",
                           WithItems(v, v.adds))
    BY DEF AddItems
  <2> QED BY <2>2, <2>3
<1>5. CASE \E T \in SUBSET u.removes : out \in Lost(WithoutItems(u, T))
  <2>1. out.w \in RunSetWorld /\ out.w.fault = TRUE /\ out.res = "error"
    BY <1>1, <1>5, RunSetFaulty DEF Lost, Ends
  <2> QED BY <2>1, RunSetIs, AloneIsExecuted
<1>6. CASE \E T \in SUBSET v.adds : out \in Lost(WithItems(v, T))
  <2>1. out.w \in RunSetWorld /\ out.w.fault = TRUE /\ out.res = "error"
    BY <1>3, <1>6, RunSetFaulty DEF Lost, Ends
  <2> QED BY <2>1, RunSetIs, AloneIsExecuted
<1>7. CASE out \in Ends(IF v.adds \cup v.removes = {} THEN "unchanged" ELSE "changed", WithItems(v, v.adds))
  <2>1. /\ out.w \in RunSetWorld /\ out.w.fault = u.fault /\ out.w.listed = u.listed
        /\ out.w.live = (u.live \ u.removes) \cup u.adds
        /\ out.res \in {"unchanged", "changed"}
        /\ out.res = "unchanged" => u.adds = {} /\ u.removes = {}
    BY <1>2, <1>3, <1>7 DEF Ends
  <2>2. ASSUME PlanStands(c, u) PROVE SeesTo(c, "main", out.w)
    <3>1. u.listed /\ u.adds = ToAdd(c, u) /\ u.removes = ToRemove(c, u) BY <2>2 DEF PlanStands
    <3>2. c.add => c.desired \subseteq out.w.live BY <2>1, <3>1 DEF ToAdd, ToRemove
    <3>3. c.remove => out.w.live \subseteq c.desired BY <2>1, <3>1 DEF ToAdd, ToRemove
    <3> QED BY <2>1, <3>1, <3>2, <3>3, RunSetIs
  <2>3. out.res = "unchanged" => out.w.live = u.live BY <2>1
  <2> QED BY <2>1, <2>2, <2>3, RunSetIs, AloneIsExecuted
<1> QED BY <1>4, <1>5, <1>6, <1>7

\* A run_set step has reached what it declares when each of its ops has seen
\* to its part.
LEMMA RunSetSettled ==
  ASSUME NEW c \in CommandConfig, c.kind = "run_set", NEW u, \A o \in Ops(c) : SeesTo(c, o, u)
  PROVE  Desired(c, u) \/ Unseen(c, u)
BY RunSetIs

\* A container step, by its ops and its worlds.
LEMMA ContainerIs ==
  ASSUME NEW c \in ContainerConfig
  PROVE  /\ Ops(c) = {"main"} /\ ~Leads(c, "main") /\ Deps(c, "main") = {}
         /\ c.kind = "container" /\ c.state \in {"running", "stopped", "absent"}
         /\ c.image \in Value /\ c.env \in SUBSET Value /\ c.namesake \in BOOLEAN
         /\ c.interval \in Nat /\ c.retries \in Nat /\ c.start \in Nat
         /\ \A u : /\ IsWorld(c, u) <=> u \in ContainerWorld
                   /\ Desired(c, u) <=> ContainerDesired(c, u)
                   /\ Unseen(c, u) <=> ContainerUnseen(c, u)
                   /\ Stuck(c, u) <=> ContainerStuck(c, u)
                   /\ Target(c, u) = WithFault(u, FALSE)
                   /\ SeesTo(c, "main", u) <=> ContainerDesired(c, u) \/ ContainerUnseen(c, u)
         /\ \A u : /\ Check(c, "main", u) = CheckContainer(c, u)
                   /\ Execute(c, "main", u) = ExecuteContainer(c, u)
BY DEF HostKinds, FileKinds, CommandKinds, ContainerConfig, Ops, Deps, Leads, IsWorld, Desired,
   Unseen, Stuck, Target, Check, Execute, SeesTo

\* A failed call changes nothing else in the world of a container step.
LEMMA ContainerFaulty ==
  \A x \in ContainerWorld : /\ Faulty(x) \in ContainerWorld /\ Faulty(x).fault = TRUE
                            /\ x.fault \in BOOLEAN
BY ContainerFault DEF Faulty, ContainerWorld

\* The checks of a container step only look, and tell what is so.
LEMMA ContainerLooked ==
  ASSUME NEW c \in ContainerConfig, NEW u \in ContainerWorld, NEW out \in Check(c, "main", u)
  PROVE  Looked(c, "main", u, out)
<1> DEFINE Fine(v) == IF c.state = "absent" THEN ~Seen(v)
                      ELSE Seen(v) /\ ~ConfigDrift(c, v) /\ v.running = (c.state = "running")
<1>1. \/ out \in Lost(u) \cup Ends("error", u) 
      \/ out \in Verdict(Fine(u), u)
  <2>1. out \in CheckContainer(c, u) BY ContainerIs
  <2>2. \/ out \in Lost(u)
        \/ out \in CheckSources(c, u) /\ out.res # "returned"
        \/ \E d \in CheckSources(c, u) : d.res = "returned" /\ out \in Verdict(Fine(d.w), d.w)
    BY <2>1 DEF CheckContainer, Ask, Then
  <2>3. \A d \in CheckSources(c, u) : d \in Lost(u) \cup Ends("error", u) \cup Returns(u)
    BY DEF CheckSources, Ask
  <2>4. \A d \in Returns(u) : d.res = "returned" /\ d.w = u BY DEF Returns, Ends
  <2>5. \A d \in Lost(u) \cup Ends("error", u) : d.res # "returned" BY DEF Lost, Ends
  <2> HIDE DEF Fine
  <2> QED BY <2>2, <2>3, <2>4, <2>5
<1>2. Fine(u) => ContainerDesired(c, u) \/ ContainerUnseen(c, u)
  BY ContainerIs DEF Seen, ConfigDrift, ContainerDesired, ContainerUnseen, ContainerWorld
<1>3. Faulty(u).fault = TRUE BY ContainerFaulty
<1>4. ~Leads(c, "main") /\ (SeesTo(c, "main", u) <=> ContainerDesired(c, u) \/ ContainerUnseen(c, u))
  BY ContainerIs
<1> HIDE DEF Fine
<1> QED BY <1>1, <1>2, <1>3, <1>4 DEF Looked, Lost, Ends, Verdict

\* A container that was stopped is what it was, and does not run.
LEMMA ContainerStopped ==
  ASSUME NEW u \in ContainerWorld, NEW d \in StopContainer(u)
  PROVE  /\ d.w \in ContainerWorld /\ d.res \in {"returned", "error"} /\ (~d.w.fault => ~u.fault)
         /\ d.res = "returned" =>
               /\ d.w.there = u.there /\ d.w.image = u.image /\ d.w.env = u.env
               /\ u.there => ~d.w.running
<1> DEFINE v == [u EXCEPT !.running = FALSE]
<1>1. v \in ContainerWorld BY DEF ContainerWorld
<1>2. /\ v.fault = u.fault /\ v.there = u.there /\ v.image = u.image /\ v.env = u.env
      /\ v.running = FALSE
  BY DEF ContainerWorld
<1>3. \/ d \in Lost(u) \cup Lost(v) \cup Returns(v)
      \/ ~(u.there /\ u.running) /\ d \in Returns(u)
  BY DEF StopContainer, Call
<1> HIDE DEF v
<1> QED BY <1>1, <1>2, <1>3, ContainerFaulty DEF Lost, Ends, Returns

\* A container that was removed is not there.
LEMMA ContainerRemoved ==
  ASSUME NEW u \in ContainerWorld, NEW d \in RemoveContainer(u)
  PROVE  /\ d.w \in ContainerWorld /\ d.res \in {"returned", "error"} /\ (~d.w.fault => ~u.fault)
         /\ d.res = "returned" => ~d.w.there
<1> DEFINE v == [u EXCEPT !.there = FALSE]
<1>1. v \in ContainerWorld BY DEF ContainerWorld
<1>2. v.fault = u.fault /\ v.there = FALSE BY DEF ContainerWorld
<1>3. d \in Lost(u) \cup Lost(v) \cup Returns(v) \cup Ends("error", u) BY DEF RemoveContainer, Call
<1> HIDE DEF v
<1> QED BY <1>1, <1>2, <1>3, ContainerFaulty DEF Lost, Ends, Returns

\* What is there is stopped and removed.
LEMMA ContainerGone ==
  ASSUME NEW u \in ContainerWorld, NEW d \in Then(StopContainer(u), RemoveContainer)
  PROVE  /\ d.w \in ContainerWorld /\ d.res \in {"returned", "error"} /\ (~d.w.fault => ~u.fault)
         /\ d.res = "returned" => ~d.w.there
<1>1. \/ d \in StopContainer(u) /\ d.res # "returned"
      \/ \E e \in StopContainer(u) : e.res = "returned" /\ d \in RemoveContainer(e.w)
  BY DEF Then
<1> QED BY <1>1, ContainerStopped, ContainerRemoved

\* A container that was created is as declared and does not run yet.
LEMMA ContainerCreated ==
  ASSUME NEW c \in ContainerConfig, NEW u \in ContainerWorld, NEW d \in CreateContainer(c, u)
  PROVE  /\ d.w \in ContainerWorld /\ d.res \in {"returned", "error"} /\ (~d.w.fault => ~u.fault)
         /\ d.res = "returned" => AsDeclared(c, d.w) /\ d.w.running = FALSE
<1> DEFINE v == Created(c, u)
<1> DEFINE env == c.env \cup {"PATH"}
<1>0. c.env \in SUBSET Value /\ c.image \in Value /\ c.namesake \in BOOLEAN BY DEF ContainerConfig
<1>a. env \in SUBSET Value /\ "none" \in Value BY <1>0, Words
<1>b. u.born + 1 \in Nat BY DEF ContainerWorld
<1>1. v \in ContainerWorld BY <1>0, <1>a, <1>b DEF ContainerWorld, Created
<1>2. /\ v.fault = u.fault /\ v.there = TRUE /\ v.image = c.image /\ v.env = c.env \cup {"PATH"}
      /\ v.running = FALSE
  BY DEF ContainerWorld, Created
<1>3. d \in Lost(u) \cup Lost(v) \cup Returns(v) \cup Ends("error", u) BY DEF CreateContainer, Call
<1> HIDE DEF v
<1> QED BY <1>1, <1>2, <1>3, ContainerFaulty DEF Lost, Ends, Returns, AsDeclared

\* It is started, and waited for.
LEMMA ContainerStarted ==
  ASSUME NEW c \in ContainerConfig, NEW u \in ContainerWorld, AsDeclared(c, u),
         c.state = "running", NEW out \in StartContainer(c, u)
  PROVE  /\ out.w \in ContainerWorld /\ out.res \in {"changed", "error"} /\ (~out.w.fault => ~u.fault)
         /\ out.res = "changed" => ContainerDesired(c, out.w)
<1> DEFINE v == Starting(c, u)
           At(h) == [v EXCEPT !.health = h]
<1>1. v \in ContainerWorld BY Words DEF ContainerWorld, Starting
<1>2. /\ v.fault = u.fault /\ v.there = u.there /\ v.image = u.image /\ v.env = u.env
      /\ v.running = TRUE
  BY DEF ContainerWorld, Starting
<1>3. \/ out \in Lost(u) \cup Lost(v)
      \/ c.interval = 0 /\ out \in Done(v)
      \/ out \in Done(At("healthy")) \cup Ends("error", At("starting")) \cup Ends("error", At("unhealthy"))
  BY DEF StartContainer, Call, WaitHealthy
<1> HIDE DEF v
<1>4. \A h \in {"healthy", "starting", "unhealthy"} : At(h) \in ContainerWorld
  BY <1>1, Words DEF ContainerWorld
<1>5. \A h \in {"healthy", "starting", "unhealthy"} :
         /\ At(h).fault = v.fault /\ At(h).there = v.there /\ At(h).image = v.image
         /\ At(h).env = v.env /\ At(h).running = v.running /\ At(h).health = h
  BY <1>1 DEF ContainerWorld
<1> HIDE DEF At
<1>a. AsDeclared(c, v) /\ \A h \in {"healthy", "starting", "unhealthy"} : AsDeclared(c, At(h))
  BY <1>2, <1>5 DEF AsDeclared
<1>6. \A x \in ContainerWorld : AsDeclared(c, x) /\ x.running = TRUE
            /\ (c.interval = 0 \/ x.health = "healthy") => ContainerDesired(c, x)
  BY DEF AsDeclared, ContainerDesired, ContainerConfig, ContainerWorld
<1>7. CASE out \in Lost(u) \cup Lost(v) BY <1>1, <1>2, <1>7, ContainerFaulty DEF Lost, Ends
<1>8. CASE c.interval = 0 /\ out \in Done(v)
  <2>1. out.w = v /\ out.res = "changed" BY <1>8 DEF Done, Ends
  <2> QED BY <1>1, <1>2, <1>6, <1>8, <1>a, <2>1
<1>9. CASE out \in Done(At("healthy"))
  <2>1. out.w = At("healthy") /\ out.res = "changed" BY <1>9 DEF Done, Ends
  <2> QED BY <1>1, <1>2, <1>4, <1>5, <1>6, <1>a, <2>1
<1>10. CASE out \in Ends("error", At("starting")) \cup Ends("error", At("unhealthy"))
  BY <1>2, <1>4, <1>5, <1>10 DEF Ends
<1> QED BY <1>3, <1>7, <1>8, <1>9, <1>10

\* A container that was made is as declared, running if it is to run.
LEMMA ContainerMade ==
  ASSUME NEW c \in ContainerConfig, NEW u \in ContainerWorld, c.state # "absent",
         NEW out \in MadeContainer(c, u)
  PROVE  /\ out.w \in ContainerWorld /\ out.res \in {"changed", "error"} /\ (~out.w.fault => ~u.fault)
         /\ out.res = "changed" => ContainerDesired(c, out.w)
<1>1. \/ out \in CreateContainer(c, u) /\ out.res # "returned"
      \/ \E d \in CreateContainer(c, u) :
            /\ d.res = "returned"
            /\ \/ c.state = "running" /\ out \in StartContainer(c, d.w)
               \/ c.state # "running" /\ out \in Done(d.w)
  BY DEF MadeContainer, Then
<1>2. \A d \in CreateContainer(c, u) :
         /\ d.w \in ContainerWorld /\ d.res \in {"returned", "error"} /\ (~d.w.fault => ~u.fault)
         /\ d.res = "returned" => AsDeclared(c, d.w) /\ d.w.running = FALSE
  BY ContainerCreated
<1>3. CASE out \in CreateContainer(c, u) /\ out.res # "returned" BY <1>2, <1>3
<1>4. ASSUME NEW d \in CreateContainer(c, u), d.res = "returned",
             c.state = "running", out \in StartContainer(c, d.w)
      PROVE  /\ out.w \in ContainerWorld /\ out.res \in {"changed", "error"} /\ (~out.w.fault => ~u.fault)
             /\ out.res = "changed" => ContainerDesired(c, out.w)
  BY <1>2, <1>4, ContainerStarted
<1>5. ASSUME NEW d \in CreateContainer(c, u), d.res = "returned",
             c.state # "running", out \in Done(d.w)
      PROVE  /\ out.w \in ContainerWorld /\ out.res \in {"changed", "error"} /\ (~out.w.fault => ~u.fault)
             /\ out.res = "changed" => ContainerDesired(c, out.w)
  <2>1. out.w = d.w /\ out.res = "changed" BY <1>5 DEF Done, Ends
  <2>2. ContainerDesired(c, d.w) BY <1>2, <1>5 DEF AsDeclared, ContainerDesired
  <2> QED BY <1>2, <2>1, <2>2
<1> QED BY <1>1, <1>3, <1>4, <1>5

\* The container op does what it is there for: what drifted is removed and
\* made anew, what is only stopped is started.
LEMMA ContainerExecuted ==
  ASSUME NEW c \in Config, c \in ContainerConfig, NEW u \in ContainerWorld,
         NEW out \in Execute(c, "main", u)
  PROVE  Executed(c, "main", u, out)
<1> DEFINE Gone(x)  == Then(StopContainer(x), RemoveContainer)
           Make(x)  == MadeContainer(c, x)
           Fine == /\ out.w \in ContainerWorld /\ out.res \in {"changed", "unchanged", "error"}
                   /\ ~out.w.fault => ~u.fault
                   /\ out.res \in {"changed", "unchanged"} =>
                         ContainerDesired(c, out.w) \/ ContainerUnseen(c, out.w)
                   /\ out.res = "unchanged" => out.w = u
<1>0. SUFFICES Fine BY ContainerIs, AloneIsExecuted
<1>1. \/ out \in Lost(u)
      \/ c.state = "absent" /\ Seen(u) /\ out \in Then(Gone(u), Done)
      \/ c.state = "absent" /\ ~Seen(u) /\ out \in Ends("unchanged", u)
      \/ c.state # "absent" /\ out \in Make(u)
      \/ c.state # "absent" /\ out \in Then(Gone(u), Make)
      \/ /\ c.state # "absent" /\ Seen(u) /\ ~ConfigDrift(c, u)
         /\ \/ u.running = (c.state = "running") /\ out \in Ends("unchanged", u)
            \/ u.running # (c.state = "running") /\ u.running /\ out \in Then(StopContainer(u), Done)
            \/ u.running # (c.state = "running") /\ ~u.running /\ out \in StartContainer(c, u)
  <2>1. out \in ExecuteContainer(c, u) BY ContainerIs
  <2> QED BY <2>1 DEF ExecuteContainer, Ask, MadeContainer
<1>2. CASE out \in Lost(u) BY <1>2, ContainerFaulty DEF Lost, Ends
<1>3. CASE c.state = "absent" /\ Seen(u) /\ out \in Then(Gone(u), Done)
  <2>1. \/ out \in Gone(u) /\ out.res # "returned"
        \/ \E d \in Gone(u) : d.res = "returned" /\ out \in Done(d.w)
    BY <1>3 DEF Then
  <2>2. \A d \in Gone(u) : /\ d.w \in ContainerWorld /\ d.res \in {"returned", "error"}
                           /\ (~d.w.fault => ~u.fault) /\ (d.res = "returned" => ~d.w.there)
    BY ContainerGone
  <2>3. \A x : out \in Done(x) => out.w = x /\ out.res = "changed" BY DEF Done, Ends
  <2>4. c.state = "absent" BY <1>3
  <2> HIDE DEF Gone
  <2> QED BY <2>1, <2>2, <2>3, <2>4 DEF ContainerDesired
<1>4. CASE c.state = "absent" /\ ~Seen(u) /\ out \in Ends("unchanged", u)
  BY <1>4 DEF Seen, Ends, ContainerDesired, ContainerUnseen
<1>5. \A x \in ContainerWorld : \A y : c.state # "absent" /\ y \in Make(x) =>
         /\ y.w \in ContainerWorld /\ y.res \in {"changed", "error"} /\ (~y.w.fault => ~x.fault)
         /\ y.res = "changed" => ContainerDesired(c, y.w)
  BY ContainerMade
<1>6. CASE c.state # "absent" /\ out \in Make(u)
  <2> HIDE DEF Make
  <2> QED BY <1>5, <1>6
<1>7. CASE c.state # "absent" /\ out \in Then(Gone(u), Make)
  <2>1. \/ out \in Gone(u) /\ out.res # "returned"
        \/ \E d \in Gone(u) : d.res = "returned" /\ out \in Make(d.w)
    BY <1>7 DEF Then
  <2>2. \A d \in Gone(u) : /\ d.w \in ContainerWorld /\ d.res \in {"returned", "error"}
                           /\ (~d.w.fault => ~u.fault)
    BY ContainerGone
  <2> HIDE DEF Gone, Make
  <2> QED BY <1>5, <1>7, <2>1, <2>2
<1>8. ASSUME c.state # "absent", Seen(u), ~ConfigDrift(c, u)
      PROVE  AsDeclared(c, u)
  BY <1>8 DEF ConfigDrift, AsDeclared
<1>9. CASE /\ c.state # "absent" /\ Seen(u) /\ ~ConfigDrift(c, u)
           /\ u.running = (c.state = "running") /\ out \in Ends("unchanged", u)
  <2>1. c.state # "absent" /\ u.running = (c.state = "running") /\ AsDeclared(c, u) BY <1>8, <1>9
  <2>2. ContainerDesired(c, u) \/ ContainerUnseen(c, u)
    BY <2>1 DEF AsDeclared, ContainerDesired, ContainerUnseen
  <2>3. out.w = u /\ out.res = "unchanged" BY <1>9 DEF Ends
  <2> QED BY <2>2, <2>3
<1>10. CASE /\ c.state # "absent" /\ Seen(u) /\ ~ConfigDrift(c, u)
            /\ u.running # (c.state = "running") /\ u.running /\ out \in Then(StopContainer(u), Done)
  <2>1. \/ out \in StopContainer(u) /\ out.res # "returned"
        \/ \E d \in StopContainer(u) : d.res = "returned" /\ out \in Done(d.w)
    BY <1>10 DEF Then
  <2>2. c.state # "running" BY <1>10 DEF ContainerWorld
  <2>3. \A d \in StopContainer(u) :
           /\ d.w \in ContainerWorld /\ d.res \in {"returned", "error"} /\ (~d.w.fault => ~u.fault)
           /\ d.res = "returned" => AsDeclared(c, d.w) /\ ~d.w.running
    BY <1>8, <1>10, ContainerStopped DEF AsDeclared
  <2>4. \A x \in ContainerWorld : AsDeclared(c, x) /\ ~x.running => ContainerDesired(c, x)
    BY <1>10, <2>2 DEF AsDeclared, ContainerDesired, ContainerWorld
  <2> QED BY <2>1, <2>3, <2>4 DEF Done, Ends
<1>11. CASE /\ c.state # "absent" /\ Seen(u) /\ ~ConfigDrift(c, u)
            /\ u.running # (c.state = "running") /\ ~u.running /\ out \in StartContainer(c, u)
  <2>1. c.state = "running" BY <1>11, ContainerIs DEF ContainerWorld
  <2> QED BY <1>8, <1>11, <2>1, ContainerStarted
<1> HIDE DEF Fine, Make, Gone
<1> QED BY <1>1, <1>2, <1>3, <1>4, <1>6, <1>7, <1>9, <1>10, <1>11

\* A container step has reached what it declares when each of its ops has seen
\* to its part.
LEMMA ContainerSettled ==
  ASSUME NEW c \in ContainerConfig, NEW u, \A o \in Ops(c) : SeesTo(c, o, u)
  PROVE  Desired(c, u) \/ Unseen(c, u)
BY ContainerIs

----
\* Downloads.

\* The check of a download looks at the cache and tells what it holds.
LEMMA DownloadLooked ==
  ASSUME NEW c, NEW u, NEW out \in CheckDownload(c, u)
  PROVE  /\ out.w \in {u, Faulty(u)}
         /\ out.res \in {"satisfied", "unsatisfied"}
         /\ out.w # Faulty(u) => (out.res = "satisfied" <=> HasCache(c, u))
BY DEF CheckDownload, AskOr, Verdict, Ends, HasCache

\* A download that succeeds has the declared checksum, or found the cache to
\* have it (download_op.go).
LEMMA DownloadExecuted ==
  ASSUME NEW c, NEW u, NEW out \in ExecuteDownload(c, u)
  PROVE  \/ out.res = "unchanged" /\ out.w = u /\ c.checksum # "none" /\ u.cache = c.checksum
         \/ out.res = "error" /\ out.w \in {u, Faulty(u)}
         \/ Downloaded(u, out) /\ c.checksum \in {"none", u.remote}
BY DEF ExecuteDownload, Fetch, Label, Downloaded, CutCopy, Copied, Labelled, Call, Try, Ask, Lost,
   Ends, Done

----
\* Package steps.

\* A package step, by its ops and its worlds.
LEMMA PkgIs ==
  ASSUME NEW c \in PkgConfig
  PROVE  /\ c.kind = "pkg" /\ c.state \in {"present", "absent", "latest"} /\ c.third \in BOOLEAN
         /\ Ops(c) = PkgOps(c)
         /\ \A o : Deps(c, o) = PkgDeps(c, o)
         /\ \A u : /\ IsWorld(c, u) <=> IsPkgWorld(u)
                   /\ Desired(c, u) <=> PkgDesired(c, u)
                   /\ Unseen(c, u) <=> PkgUnseen(c, u)
                   /\ Stuck(c, u) <=> PkgStuck(c, u)
                   /\ Target(c, u) = <<u.have, u.key, u.repo>>
                   /\ PlanStands(c, u)
         /\ \A o, u : /\ Check(c, o, u) = PkgCheck(c, o, u)
                      /\ Execute(c, o, u) = PkgExecute(c, o, u)
BY DEF HostKinds, FileKinds, CommandKinds, PkgConfig, Ops, Deps, IsWorld, Desired, Unseen, Stuck, Target,
   PlanStands, Check, Execute

\* The ops of a package step and what may come between them.
LEMMA PkgOpsAre ==
  ASSUME NEW c \in PkgConfig, NEW o \in Ops(c)
  PROVE  /\ o \in {"pkgs", "repo", "key", "download"}
         /\ ~Leads(c, "pkgs")
         /\ o = "repo" => \A p \in Ops(c) \ {o} : o \notin Deps(c, p) => p \in {"key", "download"}
         /\ o = "key" => \A p \in Ops(c) \ {o} : o \notin Deps(c, p) => p \in {"pkgs", "download"}
         /\ o = "download" => \A p \in Ops(c) \ {o} : o \notin Deps(c, p) => p \in {"pkgs", "repo"}
         /\ o = "pkgs" => \A p \in Ops(c) \ {o} : p \in {"key", "repo", "download"}
<1>1. Ops(c) = PkgOps(c) /\ (\A p : Deps(c, p) = PkgDeps(c, p)) /\ c.third \in BOOLEAN BY PkgIs
<1> QED BY <1>1 DEF Leads, PkgOps, PkgDeps

\* What the ops of a package step are there for.
LEMMA PkgSees ==
  ASSUME NEW c \in PkgConfig
  PROVE  \A u : /\ SeesTo(c, "pkgs", u) <=> Actionable(c, u) = {}
                /\ SeesTo(c, "repo", u) <=> u.repo # "none"
                /\ SeesTo(c, "key", u) <=> u.key # "none"
                /\ SeesTo(c, "download", u) <=> HasCache(c, u)
BY DEF SeesTo, HasCache

\* A failed call changes nothing else in the world of a package step.
LEMMA PkgFaulty ==
  ASSUME NEW u, IsPkgWorld(u)
  PROVE  LET v == Faulty(u)
         IN /\ IsPkgWorld(v) /\ v.fault = TRUE /\ v.have = u.have /\ v.mirror = u.mirror
            /\ v.index = u.index /\ v.fresh = u.fresh /\ v.key = u.key /\ v.repo = u.repo
            /\ v.remote = u.remote /\ v.cache = u.cache /\ v.meta = u.meta
            /\ u.fault \in BOOLEAN
<1>1. u.fault \in BOOLEAN BY DEF IsPkgWorld
<1> QED BY <1>1, PkgFault DEF Faulty

\* The checks of a package step tell what is so.
LEMMA PkgTells ==
  ASSUME NEW c \in PkgConfig, NEW o \in Ops(c), NEW u, NEW out \in Check(c, o, u)
  PROVE  /\ out.w \in {u, Faulty(u)} /\ out.res \in {"satisfied", "unsatisfied", "error"}
         /\ out.w # Faulty(u) => /\ out.res = "satisfied" => SeesTo(c, o, u)
                                 /\ out.res = "unsatisfied" => ~SeesTo(c, o, u)
<1>0. out \in PkgCheck(c, o, u) /\ o \in {"pkgs", "repo", "key", "download"} BY PkgIs, PkgOpsAre
<1>1. CASE o = "pkgs"
  <2>1. out \in CheckPkgs(c, u) /\ (SeesTo(c, o, u) <=> Actionable(c, u) = {})
    BY <1>0, <1>1, PkgSees DEF PkgCheck
  <2> QED BY <2>1 DEF CheckPkgs, Ask, Lost, Ends, Verdict
<1>2. CASE o = "repo"
  <2>1. out \in CheckRepo(u) /\ (SeesTo(c, o, u) <=> u.repo # "none")
    BY <1>0, <1>2, PkgSees DEF PkgCheck
  <2> QED BY <2>1 DEF CheckRepo, Ask, Lost, Ends, Verdict
<1>3. CASE o = "key"
  <2>1. out \in CheckKey(u) /\ (SeesTo(c, o, u) <=> u.key # "none")
    BY <1>0, <1>3, PkgSees DEF PkgCheck
  <2> QED BY <2>1 DEF CheckKey, Ask, Lost, Ends, Verdict
<1>4. CASE o = "download"
  <2>1. out \in CheckDownload(c, u) /\ (SeesTo(c, o, u) <=> HasCache(c, u))
    BY <1>0, <1>4, PkgSees DEF PkgCheck
  <2> QED BY <2>1, DownloadLooked
<1> QED BY <1>0, <1>1, <1>2, <1>3, <1>4

\* So they only look.
LEMMA PkgLooked ==
  ASSUME NEW c \in Config, c \in PkgConfig, NEW o \in Ops(c), NEW u, IsPkgWorld(u),
         NEW out \in Check(c, o, u)
  PROVE  Looked(c, o, u, out)
<1>1. Faulty(u).fault = TRUE BY PkgFaulty
<1> QED BY <1>1, PkgTells DEF Looked

\* Updating the index touches nothing but the index.
LEMMA CacheUpdated ==
  ASSUME NEW c \in PkgConfig, NEW u, IsPkgWorld(u), NEW d \in UpdateCache(c, u)
  PROVE  /\ IsPkgWorld(d.w) /\ d.res \in {"returned", "error"} /\ (~d.w.fault => ~u.fault)
         /\ SameButIndex(u, d.w)
<1> DEFINE v == Updated(c, u)
<1>1. IsPkgWorld(v) BY Words DEF IsPkgWorld, Updated
<1>2. v.fault = u.fault /\ SameButIndex(u, v) BY DEF IsPkgWorld, Updated, SameButIndex
<1>3. d \in Lost(u) \cup Lost(v) \cup Returns(v) \cup Ends("error", u) BY DEF UpdateCache, Call
<1>4. IsPkgWorld(Faulty(v)) /\ Faulty(v).fault = TRUE /\ SameButIndex(u, Faulty(v))
  BY <1>1, <1>2, PkgFaulty DEF SameButIndex
<1>5. IsPkgWorld(Faulty(u)) /\ Faulty(u).fault = TRUE /\ SameButIndex(u, Faulty(u)) /\ SameButIndex(u, u)
  BY PkgFaulty DEF SameButIndex
<1> HIDE DEF v
<1> QED BY <1>1, <1>2, <1>3, <1>4, <1>5 DEF Lost, Ends, Returns

\* A world in which the packages of T have the version x.
LEMMA PkgsHad ==
  ASSUME NEW u, IsPkgWorld(u), NEW T, NEW x \in Value
  PROVE  LET v == Having(u, T, x)
         IN /\ IsPkgWorld(v) /\ v.fault = u.fault /\ DOMAIN v.have = DOMAIN u.have
            /\ \A p \in DOMAIN u.have : v.have[p] = IF p \in T THEN x ELSE u.have[p]
            /\ v.index = u.index /\ v.mirror = u.mirror /\ v.key = u.key /\ v.repo = u.repo
            /\ v.remote = u.remote /\ v.cache = u.cache /\ v.meta = u.meta
<1> DEFINE h == [p \in DOMAIN u.have |-> IF p \in T THEN x ELSE u.have[p]]
           v == [u EXCEPT !.have = h]
<1>0. Having(u, T, x) = v BY DEF Having
<1>1. /\ h \in [DOMAIN u.have -> Value] /\ DOMAIN h = DOMAIN u.have
      /\ \A p \in DOMAIN u.have : h[p] = IF p \in T THEN x ELSE u.have[p]
  BY DEF IsPkgWorld
<1> HIDE DEF h
<1>2. /\ v.fault = u.fault /\ v.have = h
      /\ v.index = u.index /\ v.mirror = u.mirror /\ v.key = u.key /\ v.repo = u.repo
      /\ v.remote = u.remote /\ v.cache = u.cache /\ v.meta = u.meta
  BY DEF IsPkgWorld
<1> DEFINE PkgRecord(D) ==
               [fault: BOOLEAN, have: [D -> Value], mirror: Value \ {"no", "none"},
                index: Value \ {"no"}, fresh: BOOLEAN, key: Value, repo: {"none", "good", "cut"},
                remote: Value \ {"none"}, cache: Value, meta: Value]
<1>3. u \in PkgRecord(DOMAIN u.have) BY DEF IsPkgWorld
<1>4. v \in PkgRecord(DOMAIN u.have) BY <1>1, <1>3
<1>5. IsPkgWorld(v) BY <1>1, <1>2, <1>4 DEF IsPkgWorld
<1> QED BY <1>0, <1>1, <1>2, <1>5

\* An installation that came back has brought all its packages to the mirror's
\* version.
LEMMA PkgsInstalled ==
  ASSUME NEW u, IsPkgWorld(u), NEW S, NEW d \in InstallPkgs(u, S)
  PROVE  Installs(u, S, d)
<1>0. u.index \in Value BY DEF IsPkgWorld
<1>1. \A T : LET v == Having(u, T, u.index)
            IN /\ IsPkgWorld(v) /\ v.fault = u.fault
               /\ v.index = u.index /\ v.mirror = u.mirror /\ v.key = u.key /\ v.repo = u.repo
               /\ v.remote = u.remote /\ v.cache = u.cache /\ v.meta = u.meta
  BY <1>0, PkgsHad
<1>2. \/ \E T \in SUBSET S : d \in Lost(Having(u, T, u.index))
      \/ u.index = u.mirror /\ d \in Returns(Having(u, S, u.index))
      \/ d \in Ends("error", u)
  BY DEF InstallPkgs
<1>3. CASE \E T \in SUBSET S : d \in Lost(Having(u, T, u.index))
  <2>1. PICK T : d \in Lost(Having(u, T, u.index)) BY <1>3
  <2> DEFINE v == Having(u, T, u.index)
  <2>2. /\ IsPkgWorld(v) /\ v.key = u.key /\ v.repo = u.repo
        /\ v.remote = u.remote /\ v.cache = u.cache /\ v.meta = u.meta
    BY <1>1
  <2>3. d.w = Faulty(v) /\ d.res = "error" BY <2>1 DEF Lost, Ends
  <2> HIDE DEF v
  <2>4. LET x == Faulty(v)
        IN /\ IsPkgWorld(x) /\ x.fault = TRUE /\ x.key = v.key /\ x.repo = v.repo
           /\ x.remote = v.remote /\ x.cache = v.cache /\ x.meta = v.meta
    BY <2>2, PkgFaulty
  <2> QED BY <2>2, <2>3, <2>4 DEF Installs
<1>4. CASE u.index = u.mirror /\ d \in Returns(Having(u, S, u.index))
  BY <1>1, <1>4 DEF Returns, Ends, Installs
<1>5. CASE d \in Ends("error", u) BY <1>5 DEF Ends, Installs
<1> QED BY <1>2, <1>3, <1>4, <1>5

\* A removal that came back has left none of its packages.
LEMMA PkgsRemoved ==
  ASSUME NEW u, IsPkgWorld(u), NEW S, NEW d \in RemovePkgs(u, S)
  PROVE  /\ IsPkgWorld(d.w) /\ d.res \in {"changed", "error"} /\ (~d.w.fault => ~u.fault)
         /\ d.w.key = u.key /\ d.w.repo = u.repo
         /\ d.w.remote = u.remote /\ d.w.cache = u.cache /\ d.w.meta = u.meta
         /\ d.res = "changed" => d.w = Having(u, S, "no")
<1>0. "no" \in Value BY Words
<1>1. \A T : LET v == Having(u, T, "no")
            IN /\ IsPkgWorld(v) /\ v.fault = u.fault
               /\ v.index = u.index /\ v.mirror = u.mirror /\ v.key = u.key /\ v.repo = u.repo
               /\ v.remote = u.remote /\ v.cache = u.cache /\ v.meta = u.meta
  BY <1>0, PkgsHad
<1>2. \/ \E T \in SUBSET S : d \in Lost(Having(u, T, "no"))
      \/ d \in Done(Having(u, S, "no"))
  <2>1. \/ d \in UNION {Lost(Having(u, T, "no")) : T \in SUBSET S}
        \/ d \in Done(Having(u, S, "no"))
    BY DEF RemovePkgs
  <2> QED BY <2>1
<1>3. CASE \E T \in SUBSET S : d \in Lost(Having(u, T, "no"))
  <2>1. PICK T : d \in Lost(Having(u, T, "no")) BY <1>3
  <2> DEFINE v == Having(u, T, "no")
  <2>2. /\ IsPkgWorld(v) /\ v.key = u.key /\ v.repo = u.repo
        /\ v.remote = u.remote /\ v.cache = u.cache /\ v.meta = u.meta
    BY <1>1
  <2>3. d.w = Faulty(v) /\ d.res = "error" BY <2>1 DEF Lost, Ends
  <2> HIDE DEF v
  <2>4. LET x == Faulty(v)
        IN /\ IsPkgWorld(x) /\ x.fault = TRUE /\ x.key = v.key /\ x.repo = v.repo
           /\ x.remote = v.remote /\ x.cache = v.cache /\ x.meta = v.meta
    BY <2>2, PkgFaulty
  <2> QED BY <2>2, <2>3, <2>4
<1>4. CASE d \in Done(Having(u, S, "no")) BY <1>1, <1>4 DEF Done, Ends
<1> QED BY <1>2, <1>3, <1>4

\* Nothing is left to do where what there was to do has been done.
LEMMA NothingLeft ==
  ASSUME NEW c \in PkgConfig, NEW u, NEW v
  PROVE  /\ c.state = "absent" /\ AllHave(u, v, Actionable(c, u), "no") => Actionable(c, v) = {}
         /\ /\ c.state # "absent" /\ v.index = u.index /\ u.index \notin {"no", "none"}
            /\ AllHave(u, v, Actionable(c, u), u.index)
            => Actionable(c, v) = {}
<1>0. c.state \in {"present", "absent", "latest"} BY PkgIs
<1>2. ASSUME c.state = "absent", AllHave(u, v, Actionable(c, u), "no")
      PROVE  Actionable(c, v) = {}
  BY <1>2 DEF Actionable, Missing, AllHave
<1>3. ASSUME c.state = "present", u.index # "no", AllHave(u, v, Actionable(c, u), u.index)
      PROVE  Actionable(c, v) = {}
  BY <1>3 DEF Actionable, Missing, AllHave
<1>4. ASSUME c.state = "latest", v.index = u.index, u.index \notin {"no", "none"},
             AllHave(u, v, Actionable(c, u), u.index)
      PROVE  Actionable(c, v) = {}
  <2>1. Actionable(c, u) = Missing(u) \cup Upgradable(u) /\ Actionable(c, v) = Missing(v) \cup Upgradable(v)
    BY <1>4 DEF Actionable
  <2>2. Missing(v) = {} BY <1>4, <2>1 DEF Missing, AllHave
  <2>3. Upgradable(v) = {} BY <1>4, <2>1 DEF Missing, Upgradable, AllHave
  <2> QED BY <2>1, <2>2, <2>3
<1> QED BY <1>0, <1>2, <1>3, <1>4

\* A failed call changes nothing else in the world of a package step.
LEMMA PkgFaultySame ==
  ASSUME NEW u, IsPkgWorld(u)
  PROVE  /\ IsPkgWorld(Faulty(u)) /\ Faulty(u).fault = TRUE
         /\ SameRepo(u, Faulty(u)) /\ SameDownload(u, Faulty(u))
         /\ Faulty(u).have = u.have /\ Faulty(u).index = u.index
BY PkgFaulty DEF SameRepo, SameDownload

\* Every world has the repository and the download it has.
LEMMA SameIsSame ==
  ASSUME NEW u PROVE SameRepo(u, u) /\ SameDownload(u, u)
BY DEF SameRepo, SameDownload

\* The packages are brought to the version of an index that is known to be right.
LEMMA PkgsBrought ==
  ASSUME NEW c \in PkgConfig, c.state # "absent", NEW u, IsPkgWorld(u), NEW S,
         NEW d \in InstallPkgs(u, S)
  PROVE  /\ IsPkgWorld(d.w) /\ d.res \in {"returned", "error"} /\ (~d.w.fault => ~u.fault)
         /\ SameRepo(u, d.w) /\ SameDownload(u, d.w)
         /\ d.res = "returned" => /\ d.w.index = u.index /\ u.index \notin {"no", "none"}
                                  /\ AllHave(u, d.w, S, u.index)
<1>1. u.index \in Value /\ u.mirror \notin {"no", "none"} BY DEF IsPkgWorld
<1>2. /\ IsPkgWorld(d.w) /\ d.res \in {"returned", "error"} /\ (~d.w.fault => ~u.fault)
      /\ SameRepo(u, d.w) /\ SameDownload(u, d.w)
      /\ d.res = "returned" => /\ u.index = u.mirror /\ d.w.index = u.index
                               /\ d.w = Having(u, S, u.index)
  <2>1. Installs(u, S, d) BY PkgsInstalled
  <2> QED BY <2>1 DEF Installs, SameRepo, SameDownload
<1>3. AllHave(u, Having(u, S, u.index), S, u.index) BY <1>1, PkgsHad DEF AllHave
<1> QED BY <1>1, <1>2, <1>3

\* Packages at their latest version: after a success nothing is left to do,
\* and Unchanged is the truth.
LEMMA LatestExecuted ==
  ASSUME NEW c \in PkgConfig, c.state = "latest", NEW u, IsPkgWorld(u), NEW out \in ExecuteLatest(c, u)
  PROVE  /\ IsPkgWorld(out.w) /\ out.res \in {"changed", "unchanged", "error"}
         /\ (~out.w.fault => ~u.fault)
         /\ SameRepo(u, out.w) /\ SameDownload(u, out.w)
         /\ out.res \in {"changed", "unchanged"} => Actionable(c, out.w) = {}
         /\ out.res = "unchanged" => out.w.have = u.have
<1> DEFINE Up(v) == IF Actionable(c, v) = {} THEN Ends("unchanged", v)
                      ELSE Then(InstallPkgs(v, Actionable(c, v)), Done)
<1>1. \/ out \in UpdateCache(c, u) /\ out.res # "returned"
      \/ \E d \in UpdateCache(c, u) : d.res = "returned" /\ out \in Lost(d.w) \cup Up(d.w)
  BY DEF ExecuteLatest, Then, Ask
<1>2. \A d \in UpdateCache(c, u) :
         /\ IsPkgWorld(d.w) /\ d.res \in {"returned", "error"} /\ (~d.w.fault => ~u.fault)
         /\ SameRepo(u, d.w) /\ SameDownload(u, d.w) /\ d.w.have = u.have
  BY CacheUpdated DEF SameButIndex, SameRepo, SameDownload
<1>3. CASE out \in UpdateCache(c, u) /\ out.res # "returned" BY <1>2, <1>3
<1>4. ASSUME NEW d \in UpdateCache(c, u), d.res = "returned", out \in Lost(d.w) \cup Up(d.w)
      PROVE  /\ IsPkgWorld(out.w) /\ out.res \in {"changed", "unchanged", "error"}
             /\ (~out.w.fault => ~u.fault)
             /\ SameRepo(u, out.w) /\ SameDownload(u, out.w)
             /\ out.res \in {"changed", "unchanged"} => Actionable(c, out.w) = {}
             /\ out.res = "unchanged" => out.w.have = u.have
  <2> DEFINE x == d.w
  <2>1. \/ out \in Lost(x)
        \/ Actionable(c, x) = {} /\ out \in Ends("unchanged", x)
        \/ out \in InstallPkgs(x, Actionable(c, x)) /\ out.res # "returned"
        \/ \E e \in InstallPkgs(x, Actionable(c, x)) : e.res = "returned" /\ out \in Done(e.w)
    BY <1>4 DEF Then
  <2>2. IsPkgWorld(x) /\ (~x.fault => ~u.fault) /\ SameRepo(u, x) /\ SameDownload(u, x) /\ x.have = u.have
    BY <1>2, <1>4
  <2> HIDE DEF x
  <2>3. CASE out \in Lost(x)
    <3>1. out.w = Faulty(x) /\ out.res = "error" BY <2>3 DEF Lost, Ends
    <3>2. /\ IsPkgWorld(Faulty(x)) /\ Faulty(x).fault = TRUE
          /\ SameRepo(x, Faulty(x)) /\ SameDownload(x, Faulty(x))
      BY <2>2, PkgFaultySame
    <3>3. SameRepo(u, Faulty(x)) /\ SameDownload(u, Faulty(x))
      BY <2>2, <3>2 DEF SameRepo, SameDownload
    <3> QED BY <3>1, <3>2, <3>3
  <2>4. CASE Actionable(c, x) = {} /\ out \in Ends("unchanged", x) BY <2>2, <2>4 DEF Ends
  <2>5. \A e \in InstallPkgs(x, Actionable(c, x)) :
           /\ IsPkgWorld(e.w) /\ e.res \in {"returned", "error"} /\ (~e.w.fault => ~u.fault)
           /\ SameRepo(u, e.w) /\ SameDownload(u, e.w)
           /\ e.res = "returned" => Actionable(c, e.w) = {}
    <3>1. \A e \in InstallPkgs(x, Actionable(c, x)) :
             /\ IsPkgWorld(e.w) /\ e.res \in {"returned", "error"} /\ (~e.w.fault => ~x.fault)
             /\ SameRepo(x, e.w) /\ SameDownload(x, e.w)
             /\ e.res = "returned" => /\ e.w.index = x.index /\ x.index \notin {"no", "none"}
                                      /\ AllHave(x, e.w, Actionable(c, x), x.index)
      BY <2>2, PkgsBrought
    <3> QED BY <2>2, <3>1, NothingLeft DEF SameRepo, SameDownload
  <2> QED BY <2>1, <2>3, <2>4, <2>5 DEF Done, Ends
<1> QED BY <1>1, <1>3, <1>4

\* An installation that is tried again with a fresh index: after a success
\* nothing is left to do.
LEMMA RetryExecuted ==
  ASSUME NEW c \in PkgConfig, c.state = "present", NEW u, IsPkgWorld(u), NEW S,
         NEW out \in RetryInstall(c, u, S)
  PROVE  /\ IsPkgWorld(out.w) /\ out.res \in {"changed", "error"}
         /\ (~out.w.fault => ~u.fault)
         /\ SameRepo(u, out.w) /\ SameDownload(u, out.w)
         /\ out.res = "changed" /\ S = Actionable(c, u) => Actionable(c, out.w) = {}
<1> DEFINE Good(x) == /\ IsPkgWorld(x) /\ (~x.fault => ~u.fault)
                      /\ SameRepo(u, x) /\ SameDownload(u, x)
           Installed(x) == Then(InstallPkgs(x, S), Done)
<1>1. PICK x \in {u, Faulty(u)} :
            \/ out \in Ends("error", x)
            \/ out \in UpdateCache(c, x) /\ out.res # "returned"
            \/ \E d \in UpdateCache(c, x) :
                  /\ d.res = "returned"
                  /\ \/ out \in InstallPkgs(d.w, S) /\ out.res # "returned"
                     \/ \E e \in InstallPkgs(d.w, S) : e.res = "returned" /\ out \in Done(e.w)
  <2>1. PICK x \in {u, Faulty(u)} :
            \/ out \in Ends("error", x)
            \/ out \in Then(UpdateCache(c, x), Installed)
    BY DEF RetryInstall, AskOr, Fails
  <2>2. \/ out \in Ends("error", x)
        \/ out \in UpdateCache(c, x) /\ out.res # "returned"
        \/ \E d \in UpdateCache(c, x) : d.res = "returned" /\ out \in Installed(d.w)
    BY <2>1 DEF Then
  <2>3. \A y : out \in Installed(y) =>
           \/ out \in InstallPkgs(y, S) /\ out.res # "returned"
           \/ \E e \in InstallPkgs(y, S) : e.res = "returned" /\ out \in Done(e.w)
    BY DEF Then
  <2> HIDE DEF Installed
  <2> QED BY <2>2, <2>3
<1>2. Good(x) /\ x.have = u.have BY PkgFaultySame, SameIsSame
<1>3. \A d \in UpdateCache(c, x) :
         Good(d.w) /\ d.w.have = u.have /\ d.res \in {"returned", "error"}
  BY <1>2, CacheUpdated DEF SameButIndex, SameRepo, SameDownload
<1>4. \A d \in UpdateCache(c, x) : \A e \in InstallPkgs(d.w, S) :
         /\ Good(e.w) /\ e.res \in {"returned", "error"}
         /\ e.res = "returned" /\ S = Actionable(c, u) => Actionable(c, e.w) = {}
  <2> SUFFICES ASSUME NEW d \in UpdateCache(c, x), NEW e \in InstallPkgs(d.w, S)
               PROVE  /\ Good(e.w) /\ e.res \in {"returned", "error"}
                      /\ e.res = "returned" /\ S = Actionable(c, u) => Actionable(c, e.w) = {}
    OBVIOUS
  <2> DEFINE y == d.w
  <2>1. Good(y) /\ y.have = u.have BY <1>3
  <2>2. Actionable(c, y) = Actionable(c, u) BY <2>1 DEF Actionable, Missing
  <2>3. /\ IsPkgWorld(e.w) /\ e.res \in {"returned", "error"} /\ (~e.w.fault => ~y.fault)
        /\ SameRepo(y, e.w) /\ SameDownload(y, e.w)
        /\ e.res = "returned" => /\ e.w.index = y.index /\ y.index \notin {"no", "none"}
                                 /\ AllHave(y, e.w, S, y.index)
    BY <2>1, PkgsBrought
  <2> HIDE DEF y
  <2>4. Good(e.w) BY <2>1, <2>3 DEF SameRepo, SameDownload
  <2> QED BY <2>2, <2>3, <2>4, NothingLeft
<1> HIDE DEF Good
<1>5. /\ Good(out.w) /\ out.res \in {"changed", "error"}
      /\ out.res = "changed" /\ S = Actionable(c, u) => Actionable(c, out.w) = {}
  BY <1>1, <1>2, <1>3, <1>4 DEF Ends, Done
<1> QED BY <1>5 DEF Good

\* The package op in each of its states: after a success without a failed call
\* nothing is left to do.
LEMMA PkgsExecuted ==
  ASSUME NEW c \in PkgConfig, NEW u, IsPkgWorld(u), NEW out \in ExecutePkgs(c, u)
  PROVE  /\ IsPkgWorld(out.w) /\ out.res \in {"changed", "unchanged", "error"}
         /\ (~out.w.fault => ~u.fault)
         /\ SameRepo(u, out.w) /\ SameDownload(u, out.w)
         /\ ~out.w.fault /\ out.res \in {"changed", "unchanged"} => Actionable(c, out.w) = {}
         /\ out.res = "unchanged" => out.w.have = u.have
<1> DEFINE todo == Actionable(c, u)
<1>1. SameRepo(u, u) /\ SameDownload(u, u) /\ SameRepo(u, Faulty(u)) /\ SameDownload(u, Faulty(u))
      /\ IsPkgWorld(Faulty(u)) /\ Faulty(u).fault = TRUE
  BY PkgFaulty DEF SameRepo, SameDownload
<1>2. CASE c.state = "latest"
  <2>1. out \in ExecuteLatest(c, u) BY <1>2 DEF ExecutePkgs
  <2> QED BY <1>2, <2>1, LatestExecuted
<1>3. CASE c.state = "absent"
  <2>1. \/ out \in Lost(u)
        \/ todo = {} /\ out \in Ends("unchanged", u)
        \/ out \in RemovePkgs(u, todo)
    BY <1>3 DEF ExecutePkgs, Unless, Ask
  <2>2. CASE out \in RemovePkgs(u, todo)
    <3>1. /\ IsPkgWorld(out.w) /\ out.res \in {"changed", "error"} /\ (~out.w.fault => ~u.fault)
          /\ SameRepo(u, out.w) /\ SameDownload(u, out.w)
          /\ out.res = "changed" => out.w = Having(u, todo, "no")
      BY <2>2, PkgsRemoved DEF SameRepo, SameDownload
    <3>2. "no" \in Value BY Words
    <3>3. AllHave(u, Having(u, todo, "no"), todo, "no") BY <3>2, PkgsHad DEF AllHave
    <3> HIDE DEF todo
    <3>4. out.res = "changed" => AllHave(u, out.w, todo, "no") BY <3>1, <3>3
    <3> QED BY <1>3, <3>1, <3>4, NothingLeft DEF todo
  <2>3. CASE out \in Lost(u) BY <1>1, <2>3 DEF Lost, Ends
  <2>4. CASE todo = {} /\ out \in Ends("unchanged", u) BY <1>1, <2>4 DEF Ends
  <2> QED BY <2>1, <2>2, <2>3, <2>4
<1>4. CASE c.state = "present"
  <2>1. \/ out \in Lost(u)
        \/ todo = {} /\ out \in Ends("unchanged", u)
        \/ \E d \in InstallPkgs(u, todo) : \/ d.res = "returned" /\ out \in Done(d.w)
                                           \/ d.res # "returned" /\ out \in RetryInstall(c, d.w, todo)
    <3> DEFINE Retry(v) == RetryInstall(c, v, todo)
    <3>1. \/ out \in Lost(u)
          \/ todo = {} /\ out \in Ends("unchanged", u)
          \/ out \in ThenOr(InstallPkgs(u, todo), Done, Retry)
      BY <1>4 DEF ExecutePkgs, Unless, Ask
    <3> HIDE DEF todo
    <3> QED BY <3>1 DEF ThenOr
  <2>2. \A d \in InstallPkgs(u, todo) :
           /\ IsPkgWorld(d.w) /\ d.res \in {"returned", "error"} /\ (~d.w.fault => ~u.fault)
           /\ SameRepo(u, d.w) /\ SameDownload(u, d.w)
           /\ d.res = "returned" => Actionable(c, d.w) = {}
           /\ d.res = "error" => d.w = u \/ d.w.fault = TRUE
    <3>1. \A d \in InstallPkgs(u, todo) :
             /\ IsPkgWorld(d.w) /\ d.res \in {"returned", "error"} /\ (~d.w.fault => ~u.fault)
             /\ SameRepo(u, d.w) /\ SameDownload(u, d.w)
             /\ d.res = "returned" => /\ d.w.index = u.index /\ u.index \notin {"no", "none"}
                                      /\ AllHave(u, d.w, todo, u.index)
      BY <1>4, PkgsBrought
    <3>2. \A d \in InstallPkgs(u, todo) : d.res = "error" => d.w = u \/ d.w.fault = TRUE
      BY PkgsInstalled DEF Installs
    <3> QED BY <1>4, <3>1, <3>2, NothingLeft
  <2>3. CASE out \in Lost(u) BY <1>1, <2>3 DEF Lost, Ends
  <2>4. CASE todo = {} /\ out \in Ends("unchanged", u) BY <1>1, <2>4 DEF Ends
  <2>5. ASSUME NEW d \in InstallPkgs(u, todo), d.res = "returned", out \in Done(d.w)
        PROVE  out.w = d.w /\ out.res = "changed"
    BY <2>5 DEF Done, Ends
  <2>6. ASSUME NEW d \in InstallPkgs(u, todo), d.res # "returned", out \in RetryInstall(c, d.w, todo)
        PROVE  /\ IsPkgWorld(out.w) /\ out.res \in {"changed", "error"}
               /\ (~out.w.fault => ~u.fault)
               /\ SameRepo(u, out.w) /\ SameDownload(u, out.w)
               /\ ~out.w.fault /\ out.res = "changed" => Actionable(c, out.w) = {}
    <3> DEFINE x == d.w
    <3>1. /\ IsPkgWorld(x) /\ (~x.fault => ~u.fault) /\ SameRepo(u, x) /\ SameDownload(u, x)
          /\ x = u \/ x.fault = TRUE
      BY <2>2, <2>6
    <3>2. out \in RetryInstall(c, x, todo) BY <2>6
    <3> HIDE DEF x, todo
    <3>3. /\ IsPkgWorld(out.w) /\ out.res \in {"changed", "error"}
          /\ (~out.w.fault => ~x.fault)
          /\ SameRepo(x, out.w) /\ SameDownload(x, out.w)
          /\ out.res = "changed" /\ todo = Actionable(c, x) => Actionable(c, out.w) = {}
      BY <1>4, <3>1, <3>2, RetryExecuted
    <3>4. SameRepo(u, out.w) /\ SameDownload(u, out.w) BY <3>1, <3>3 DEF SameRepo, SameDownload
    <3> QED BY <3>1, <3>3, <3>4 DEF todo
  <2> HIDE DEF todo
  <2> QED BY <2>1, <2>2, <2>3, <2>4, <2>5, <2>6
<1> QED BY <1>2, <1>3, <1>4, PkgIs

\* The repository op: after a success the repository is there and good, and
\* the key is the one there was.
LEMMA RepoExecuted ==
  ASSUME NEW c \in PkgConfig, NEW u, IsPkgWorld(u), NEW out \in ExecuteRepo(c, u)
  PROVE  /\ IsPkgWorld(out.w) /\ out.res \in {"changed", "error"} /\ (~out.w.fault => ~u.fault)
         /\ out.w.key = u.key /\ SameDownload(u, out.w)
         /\ out.res = "changed" => out.w.repo = "good"
<1> DEFINE cut == [u EXCEPT !.repo = "cut"]
           v   == [u EXCEPT !.repo = "good"]
<1>1. IsPkgWorld(cut) /\ cut.key = u.key /\ SameDownload(u, cut) BY DEF IsPkgWorld, SameDownload
<1>2. IsPkgWorld(v) /\ v.fault = u.fault /\ v.key = u.key /\ SameDownload(u, v) /\ v.repo = "good"
  BY DEF IsPkgWorld, SameDownload
<1>3. \/ out \in Lost(cut) \cup Lost(u) \cup Lost(v)
      \/ out \in UpdateCache(c, v) /\ out.res # "returned"
      \/ \E d \in UpdateCache(c, v) : d.res = "returned" /\ out \in Done(d.w)
  BY DEF ExecuteRepo, Call, Then
<1> HIDE DEF cut, v
<1>4. \A d \in UpdateCache(c, v) :
         /\ IsPkgWorld(d.w) /\ d.res \in {"returned", "error"} /\ (~d.w.fault => ~u.fault)
         /\ d.w.key = u.key /\ SameDownload(u, d.w) /\ d.w.repo = "good"
  BY <1>2, CacheUpdated DEF SameButIndex, SameDownload
<1>5. ASSUME NEW x \in {cut, u, v}
      PROVE  /\ IsPkgWorld(Faulty(x)) /\ Faulty(x).fault = TRUE
             /\ Faulty(x).key = u.key /\ SameDownload(u, Faulty(x))
  <2>1. IsPkgWorld(x) /\ x.key = u.key /\ SameDownload(u, x) BY <1>1, <1>2, SameIsSame
  <2>2. /\ IsPkgWorld(Faulty(x)) /\ Faulty(x).fault = TRUE
        /\ SameRepo(x, Faulty(x)) /\ SameDownload(x, Faulty(x))
    BY <2>1, PkgFaultySame
  <2> QED BY <2>1, <2>2 DEF SameRepo, SameDownload
<1>6. CASE out \in Lost(cut) \cup Lost(u) \cup Lost(v)
  <2>1. PICK x \in {cut, u, v} : out.w = Faulty(x) /\ out.res = "error" BY <1>6 DEF Lost, Ends
  <2> QED BY <1>5, <2>1
<1>7. CASE \E d \in UpdateCache(c, v) : d.res = "returned" /\ out \in Done(d.w)
  BY <1>4, <1>7 DEF Ends, Done
<1> QED BY <1>3, <1>4, <1>6, <1>7

\* The key op: after a success there is a key; packages and index are as
\* before.
LEMMA KeyExecuted ==
  ASSUME NEW c \in PkgConfig, NEW u, IsPkgWorld(u), NEW out \in ExecuteKey(u)
  PROVE  /\ IsPkgWorld(out.w) /\ out.res \in {"changed", "error"} /\ (~out.w.fault => ~u.fault)
         /\ out.w.have = u.have /\ out.w.index = u.index /\ SameDownload(u, out.w)
         /\ out.res = "changed" => out.w.key # "none"
<1> DEFINE cut == [u EXCEPT !.key = "cut"]
           v   == [u EXCEPT !.key = u.cache]
<1>0. "cut" \in Value BY Words
<1>1. IsPkgWorld(cut) /\ cut.have = u.have /\ cut.index = u.index /\ SameDownload(u, cut)
  BY <1>0 DEF IsPkgWorld, SameDownload
<1>2. IsPkgWorld(v) BY DEF IsPkgWorld
<1>3. /\ v.fault = u.fault /\ v.have = u.have /\ v.index = u.index /\ SameDownload(u, v)
      /\ v.key = u.cache
  BY DEF IsPkgWorld, SameDownload
<1>4. \/ out \in Ends("error", u) \cup Lost(cut) \cup Lost(u) \cup Lost(v)
      \/ u.cache # "none" /\ out \in Done(v)
  BY DEF ExecuteKey, Call, Fails
<1> HIDE DEF cut, v
<1>5. ASSUME NEW x \in {cut, u, v}
      PROVE  /\ IsPkgWorld(Faulty(x)) /\ Faulty(x).fault = TRUE
             /\ Faulty(x).have = u.have /\ Faulty(x).index = u.index /\ SameDownload(u, Faulty(x))
  <2>1. IsPkgWorld(x) /\ x.have = u.have /\ x.index = u.index /\ SameDownload(u, x)
    BY <1>1, <1>2, <1>3, SameIsSame
  <2>2. /\ IsPkgWorld(Faulty(x)) /\ Faulty(x).fault = TRUE /\ SameDownload(x, Faulty(x))
        /\ Faulty(x).have = x.have /\ Faulty(x).index = x.index
    BY <2>1, PkgFaultySame
  <2> QED BY <2>1, <2>2 DEF SameDownload
<1>6. SameDownload(u, u) BY SameIsSame
<1>7. CASE out \in Lost(cut) \cup Lost(u) \cup Lost(v)
  <2>1. PICK x \in {cut, u, v} : out.w = Faulty(x) /\ out.res = "error" BY <1>7 DEF Lost, Ends
  <2> QED BY <1>5, <2>1
<1>8. CASE out \in Ends("error", u) BY <1>6, <1>8 DEF Ends
<1>9. CASE u.cache # "none" /\ out \in Done(v) BY <1>2, <1>3, <1>9 DEF Done, Ends
<1> QED BY <1>4, <1>7, <1>8, <1>9

\* The ops of a package step do what they are there for, and undo nothing that
\* does not wait for them.
LEMMA PkgExecuted ==
  ASSUME NEW c \in PkgConfig, NEW o \in Ops(c), NEW u, IsPkgWorld(u), NEW out \in Execute(c, o, u)
  PROVE  Executed(c, o, u, out)
<1>1. out \in PkgExecute(c, o, u) /\ o \in {"pkgs", "repo", "key", "download"} BY PkgIs, PkgOpsAre
<1>2. /\ u.fault \in BOOLEAN /\ IsPkgWorld(Faulty(u)) /\ Faulty(u).fault = TRUE
      /\ SameDownload(u, Faulty(u))
  BY PkgFaultySame DEF IsPkgWorld
<1>3. CASE o = "pkgs"
  <2>1. out \in ExecutePkgs(c, u) BY <1>1, <1>3 DEF PkgExecute
  <2>2. /\ IsPkgWorld(out.w) /\ out.res \in {"changed", "unchanged", "error"}
        /\ (~out.w.fault => ~u.fault)
        /\ SameRepo(u, out.w) /\ SameDownload(u, out.w)
        /\ ~out.w.fault /\ out.res \in {"changed", "unchanged"} => Actionable(c, out.w) = {}
        /\ out.res = "unchanged" => out.w.have = u.have
    BY <2>1, PkgsExecuted
  <2>3. ASSUME NEW p \in Ops(c) \ {o}, SeesTo(c, p, u) PROVE SeesTo(c, p, out.w)
    <3>1. p \in {"key", "repo", "download"} BY <1>3, PkgOpsAre
    <3> QED BY <2>2, <2>3, <3>1, PkgSees DEF SameRepo, SameDownload, HasCache
  <2>4. SeesTo(c, o, out.w) <=> Actionable(c, out.w) = {} BY <1>3, PkgSees
  <2>5. out.res = "unchanged" => Target(c, out.w) = Target(c, u) BY <2>2, PkgIs DEF SameRepo
  <2>6. IsWorld(c, out.w) BY <2>2, PkgIs
  <2> QED BY <1>2, <2>2, <2>3, <2>4, <2>5, <2>6 DEF Executed
<1>4. CASE o = "repo"
  <2>1. out \in ExecuteRepo(c, u) BY <1>1, <1>4 DEF PkgExecute
  <2>2. /\ IsPkgWorld(out.w) /\ out.res \in {"changed", "error"} /\ (~out.w.fault => ~u.fault)
        /\ out.w.key = u.key /\ SameDownload(u, out.w)
        /\ out.res = "changed" => out.w.repo = "good"
    BY <2>1, RepoExecuted
  <2>3. ASSUME NEW p \in Ops(c) \ {o}, o \notin Deps(c, p), SeesTo(c, p, u) PROVE SeesTo(c, p, out.w)
    <3>1. p \in {"key", "download"} BY <1>4, <2>3, PkgOpsAre
    <3> QED BY <2>2, <2>3, <3>1, PkgSees DEF SameDownload, HasCache
  <2>4. out.res = "changed" => SeesTo(c, o, out.w) BY <1>4, <2>2, PkgSees
  <2>5. IsWorld(c, out.w) BY <2>2, PkgIs
  <2> QED BY <1>2, <2>2, <2>3, <2>4, <2>5 DEF Executed
<1>5. CASE o = "key"
  <2>1. out \in ExecuteKey(u) BY <1>1, <1>5 DEF PkgExecute
  <2>2. /\ IsPkgWorld(out.w) /\ out.res \in {"changed", "error"} /\ (~out.w.fault => ~u.fault)
        /\ out.w.have = u.have /\ out.w.index = u.index /\ SameDownload(u, out.w)
        /\ out.res = "changed" => out.w.key # "none"
    BY <2>1, KeyExecuted
  <2>3. Actionable(c, out.w) = Actionable(c, u) BY <2>2 DEF Actionable, Missing, Upgradable
  <2>4. ASSUME NEW p \in Ops(c) \ {o}, o \notin Deps(c, p), SeesTo(c, p, u) PROVE SeesTo(c, p, out.w)
    <3>1. p \in {"pkgs", "download"} BY <1>5, <2>4, PkgOpsAre
    <3> QED BY <2>2, <2>3, <2>4, <3>1, PkgSees DEF SameDownload, HasCache
  <2>5. out.res = "changed" => SeesTo(c, o, out.w) BY <1>5, <2>2, PkgSees
  <2>6. IsWorld(c, out.w) BY <2>2, PkgIs
  <2> QED BY <1>2, <2>2, <2>4, <2>5, <2>6 DEF Executed
<1>6. CASE o = "download"
  <2>1. out \in ExecuteDownload(c, u) BY <1>1, <1>6 DEF PkgExecute
  <2> DEFINE v == Labelled(u)
  <2>2. IsPkgWorld(v) BY DEF IsPkgWorld, Labelled, Copied
  <2>3. /\ v.fault = u.fault /\ v.have = u.have /\ v.index = u.index /\ v.key = u.key
        /\ v.repo = u.repo /\ v.remote = u.remote /\ v.cache = u.remote /\ v.meta = u.remote
    BY DEF IsPkgWorld, Labelled, Copied
  <2>a. \A x \in {Faulty(CutCopy(u)), Faulty(Copied(u))} : IsWorld(c, x) /\ x.fault = TRUE
    <3>1. IsPkgWorld(CutCopy(u)) /\ IsPkgWorld(Copied(u))
      BY Words DEF IsPkgWorld, CutCopy, Copied
    <3>2. \A x : IsPkgWorld(x) => IsPkgWorld(Faulty(x)) /\ Faulty(x).fault = TRUE BY PkgFaulty
    <3> QED BY <3>1, <3>2, PkgIs
  <2>4. Actionable(c, v) = Actionable(c, u) BY <2>3 DEF Actionable, Missing, Upgradable
  <2>5. c.checksum \in {"none", u.remote} => HasCache(c, v)
    <3>1. u.remote # "none" BY DEF IsPkgWorld
    <3> QED BY <2>3, <3>1 DEF HasCache
  <2>6. \/ out.res = "unchanged" /\ out.w = u /\ HasCache(c, u)
        \/ out.res = "error" /\ out.w \in {u, Faulty(u)}
        \/ out.res = "changed" /\ out.w = v /\ HasCache(c, v)
        \/ /\ out.res \in {"error", "changed"}
           /\ out.w \in {Faulty(CutCopy(u)), Faulty(Copied(u))}
    <3>1. \/ out.res = "unchanged" /\ out.w = u /\ c.checksum # "none" /\ u.cache = c.checksum
          \/ out.res = "error" /\ out.w \in {u, Faulty(u)}
          \/ Downloaded(u, out) /\ c.checksum \in {"none", u.remote}
      BY <2>1, DownloadExecuted
    <3>2. c.checksum # "none" /\ u.cache = c.checksum => HasCache(c, u) BY DEF HasCache
    <3> QED BY <2>5, <3>1, <3>2 DEF Downloaded
  <2> HIDE DEF v
  <2>7. ASSUME NEW p \in Ops(c) \ {o}, o \notin Deps(c, p), SeesTo(c, p, u) PROVE SeesTo(c, p, v)
    <3>1. p \in {"pkgs", "repo"} BY <1>6, <2>7, PkgOpsAre
    <3> QED BY <2>3, <2>4, <2>7, <3>1, PkgSees
  <2>8. IsWorld(c, u) /\ IsWorld(c, v) /\ IsWorld(c, Faulty(u)) BY <1>2, <2>2, PkgIs
  <2>9. \A x : HasCache(c, x) => SeesTo(c, o, x) BY <1>6, PkgSees
  <2> QED BY <1>2, <2>3, <2>a, <2>6, <2>7, <2>8, <2>9 DEF Executed
<1> QED BY <1>1, <1>3, <1>4, <1>5, <1>6

\* A package step has reached what it declares when each of its ops has seen
\* to its part.
LEMMA PkgSettled ==
  ASSUME NEW c \in PkgConfig, NEW u, IsPkgWorld(u), \A o \in Ops(c) : SeesTo(c, o, u)
  PROVE  Desired(c, u) \/ Unseen(c, u)
<1>1. c.state \in {"present", "absent", "latest"} /\ Ops(c) = PkgOps(c) BY PkgIs
<1>2. Actionable(c, u) = {} BY <1>1, PkgSees DEF PkgOps
<1>3. c.third => u.repo # "none" /\ u.key # "none" BY <1>1, PkgSees DEF PkgOps
<1>4. Usable(c, u) \/ PkgUnseen(c, u)
  BY <1>2, <1>3 DEF Usable, PkgUnseen, RepoSpoilt, IsPkgWorld
<1>5. c.state = "latest" /\ ~PkgUnseen(c, u) => \A p \in DOMAIN u.have : u.have[p] = u.mirror
  BY <1>2 DEF PkgUnseen, Actionable, Missing, Upgradable, IsPkgWorld
<1>6. c.state = "present" => \A p \in DOMAIN u.have : u.have[p] # "no"
  BY <1>2 DEF Actionable, Missing
<1>7. c.state = "absent" => \A p \in DOMAIN u.have : u.have[p] = "no"
  BY <1>2 DEF Actionable, Missing
<1>8. PkgDesired(c, u) \/ PkgUnseen(c, u) BY <1>1, <1>4, <1>5, <1>6, <1>7 DEF PkgDesired
<1> QED BY <1>8, PkgIs

----
\* Paths.

\* The paths of the model are different paths.
LEMMA PathsDiffer ==
  /\ Dest \notin {Other, TempDir, TempFile, Archive, StateDir, Marker, Lib, Main, More, Srv, Var, <<>>} \cup Backups
  /\ Other \notin {TempDir, TempFile, Archive, StateDir, Marker, Lib, Main, More, Srv, Var, <<>>} \cup Backups
  /\ TempDir \notin {TempFile, Archive, StateDir, Marker, Lib, Main, More, Srv, Var, <<>>} \cup Backups
  /\ TempFile \notin {Archive, StateDir, Marker, Lib, Main, More, Srv, Var, <<>>} \cup Backups
  /\ Archive \notin {StateDir, Marker, Lib, Main, More, Srv, Var, <<>>} \cup Backups
  /\ StateDir \notin {Marker, Lib, Main, More, Srv, Var, <<>>} \cup Backups
  /\ Marker \notin {Lib, Main, More, Srv, Var, <<>>} \cup Backups
  /\ Lib \notin {Main, More, Srv, Var, <<>>} \cup Backups
  /\ Main \notin {More, Srv, Var, <<>>} \cup Backups
  /\ More \notin {Srv, Var, <<>>} \cup Backups
  /\ Srv # Var /\ Srv # <<>> /\ Var # <<>>
  /\ Srv \notin Backups /\ Var \notin Backups /\ <<>> \notin Backups
BY DEF Dest, Other, TempDir, TempFile, Archive, StateDir, Marker, Lib, Main, More, Srv, Var, Backups

\* The backups of Dest are among the paths of backups.
LEMMA BackupsAre ==
  ASSUME NEW k \in 0 .. 2
  PROVE  BackupOf(Dest, k) \in Backups
BY DEF BackupOf, Dest, Backups

\* The directories the paths are in.
LEMMA Parents ==
  /\ Parent(Dest) = Srv /\ Parent(Other) = Srv /\ \A b \in Backups : Parent(b) = Srv
  /\ Parent(TempFile) = TempDir /\ Parent(Archive) = <<>> /\ Parent(Marker) = StateDir
  /\ Parent(Main) = Dest /\ Parent(More) = Dest
BY DEF Parent, Dest, Other, Srv, Backups, TempFile, TempDir, Archive, Marker, StateDir, Main, More

\* The directories above each path, and the path.
LEMMA PrefixesAre ==
  /\ Prefixes(Srv) = {Srv} /\ Prefixes(Var) = {Var}
  /\ Prefixes(Dest) = {Srv, Dest} /\ Prefixes(Other) = {Srv, Other}
  /\ \A b \in Backups : Prefixes(b) = {Srv, b}
  /\ Prefixes(TempDir) = {TempDir} /\ Prefixes(TempFile) = {TempDir, TempFile}
  /\ Prefixes(Archive) = {Archive}
  /\ Prefixes(StateDir) = {Var, StateDir} /\ Prefixes(Marker) = {Var, StateDir, Marker}
  /\ Prefixes(Lib) = {Srv, Dest, Lib} /\ Prefixes(Main) = {Srv, Dest, Main}
  /\ Prefixes(More) = {Srv, Dest, More}
BY DEF Prefixes, Dest, Other, Srv, Backups, TempDir, TempFile, Archive, StateDir, Var, Marker,
   Lib, Main, More

----
\* Trees of files.

\* In a tree of files every node is a file, a directory or the one link there
\* may be, and what is above a node are directories.
LEMMA NodesAre ==
  ASSUME NEW f, IsTree(f), NEW q \in DOMAIN f
  PROVE  /\ f[q] \in NodeRecord /\ f[q].kind \in {"file", "dir", "link"} /\ f[q].data \in Value
         /\ q # <<>>
         /\ \A p \in Prefixes(q) \ {q} : p \in DOMAIN f /\ f[p].kind = "dir"
         /\ f[q].kind = "link" => q = Dest /\ f[q].to = Other
BY DEF IsTree, NodeRecord, Exists

\* The one link there may be leads to a path that is none.
LEMMA Following ==
  ASSUME NEW f, IsTree(f), NEW p
  PROVE  /\ Follow(f, p) = IF IsLink(f, p) THEN Other ELSE p
         /\ IsLink(f, p) => p = Dest
         /\ ~IsLink(f, Other) /\ Follow(f, Other) = Other
         /\ ~IsLink(f, Follow(f, p)) /\ Follow(f, Follow(f, p)) = Follow(f, p)
<1>1. \A q \in DOMAIN f : f[q].kind = "link" => q = Dest /\ f[q].to = Other BY NodesAre
<1>2. Other # Dest BY PathsDiffer
<1> QED BY <1>1, <1>2 DEF Follow, IsLink, Exists

\* What is at a path that is no link.
LEMMA PlainPath ==
  ASSUME NEW f, NEW p, Follow(f, p) = p
  PROVE  /\ IsDir(f, p) <=> p = <<>> \/ (p \in DOMAIN f /\ f[p].kind = "dir")
         /\ IsFile(f, p) <=> p \in DOMAIN f /\ f[p].kind = "file"
         /\ Contents(f, p) = IF p \in DOMAIN f /\ f[p].kind = "file" THEN f[p].data ELSE "none"
         /\ Stats(f, p) <=> p = <<>> \/ (p \in DOMAIN f /\ f[p].kind \in {"dir", "file"})
BY DEF IsDir, IsFile, Contents, Stats, Exists

\* Where the directory of a path is there, all directories above it are.
LEMMA PathReady ==
  ASSUME NEW f, IsTree(f), NEW p \in Written, IsDir(f, Parent(p)),
         p \in {Main, More} => ~IsLink(f, Dest)
  PROVE  p # <<>> /\ \A x \in Prefixes(p) \ {p} : x \in DOMAIN f /\ f[x].kind = "dir"
<1>1. \A x : x # Dest => Follow(f, x) = x BY Following
<1>2. \A x : x # Dest /\ x # <<>> /\ IsDir(f, x) => x \in DOMAIN f /\ f[x].kind = "dir"
  BY <1>1, PlainPath
<1>3. \A x \in DOMAIN f : \A y \in Prefixes(x) \ {x} : y \in DOMAIN f /\ f[y].kind = "dir"
  BY NodesAre
<1>4. CASE p \in {Dest, Other} \cup Backups
  <2>1. Parent(p) = Srv /\ Prefixes(p) = {Srv, p} BY <1>4, Parents, PrefixesAre
  <2>2. Srv \in DOMAIN f /\ f[Srv].kind = "dir" BY <1>2, <2>1, PathsDiffer
  <2>3. p # <<>> BY <1>4, PathsDiffer
  <2> QED BY <2>1, <2>2, <2>3
<1>5. CASE p = TempFile BY <1>2, <1>5, Parents, PrefixesAre, PathsDiffer
<1>6. CASE p = Archive BY <1>6, PrefixesAre, PathsDiffer
<1>7. CASE p = Marker
  <2>1. StateDir \in DOMAIN f /\ f[StateDir].kind = "dir" BY <1>2, <1>7, Parents, PathsDiffer
  <2>2. Var \in DOMAIN f /\ f[Var].kind = "dir" BY <1>3, <2>1, PrefixesAre, PathsDiffer
  <2> QED BY <1>7, <2>1, <2>2, PrefixesAre, PathsDiffer
<1>8. CASE p \in {Main, More}
  <2>1. Parent(p) = Dest /\ Prefixes(p) = {Srv, Dest, p} /\ p # <<>>
    BY <1>8, Parents, PrefixesAre, PathsDiffer
  <2>2. Follow(f, Dest) = Dest BY <1>8, Following
  <2>3. Dest \in DOMAIN f /\ f[Dest].kind = "dir" BY <2>1, <2>2, PlainPath, PathsDiffer
  <2>4. Srv \in DOMAIN f /\ f[Srv].kind = "dir" BY <1>3, <2>3, PrefixesAre, PathsDiffer
  <2> QED BY <2>1, <2>3, <2>4
<1> QED BY <1>4, <1>5, <1>6, <1>7, <1>8 DEF Written

\* A tree stays one when a node is put where its directory is.
LEMMA TreePut ==
  ASSUME NEW f, IsTree(f), NEW p, p # <<>>, NEW node \in NodeRecord,
         \A x \in Prefixes(p) \ {p} : x \in DOMAIN f /\ f[x].kind = "dir",
         p \in DOMAIN f /\ f[p].kind = "dir" => node.kind = "dir",
         node.kind = "link" => p = Dest /\ node.to = Other
  PROVE  IsTree(Put(f, p, node))
<1> DEFINE g == Put(f, p, node)
<1>1. /\ DOMAIN g = DOMAIN f \cup {p} /\ g[p] = node
      /\ \A q \in DOMAIN f : q # p => g[q] = f[q]
      /\ g = [q \in DOMAIN g |-> g[q]]
  BY DEF Put
<1> HIDE DEF g
<1>2. g \in [DOMAIN g -> NodeRecord]
  <2>1. \A q \in DOMAIN g : g[q] \in NodeRecord BY <1>1, NodesAre
  <2> QED BY <1>1, <2>1
<1>3. ASSUME NEW q \in DOMAIN g
      PROVE  /\ q # <<>>
             /\ \A x \in Prefixes(q) \ {q} : Exists(g, x) /\ g[x].kind = "dir"
             /\ g[q].kind = "link" => q = Dest /\ g[q].to = Other
  <2>1. CASE q = p BY <1>1, <2>1 DEF Exists
  <2>2. CASE q # p
    <3>1. /\ q \in DOMAIN f /\ q # <<>>
          /\ \A x \in Prefixes(q) \ {q} : x \in DOMAIN f /\ f[x].kind = "dir"
          /\ f[q].kind = "link" => q = Dest /\ f[q].to = Other
      BY <1>1, <2>2, NodesAre
    <3> QED BY <1>1, <2>2, <3>1 DEF Exists
  <2> QED BY <2>1, <2>2
<1> QED BY <1>2, <1>3 DEF IsTree, g

\* A tree stays one without an entry that may be removed.
LEMMA TreeWithout ==
  ASSUME NEW f, IsTree(f), NEW p, Removable(f, p)
  PROVE  IsTree(Without(f, p))
<1> DEFINE g == Without(f, p)
<1>1. /\ DOMAIN g = DOMAIN f \ {p} /\ \A q \in DOMAIN g : g[q] = f[q]
      /\ g = [q \in DOMAIN g |-> g[q]]
  BY DEF Without
<1> HIDE DEF g
<1>2. g \in [DOMAIN g -> NodeRecord]
  <2>1. \A q \in DOMAIN g : g[q] \in NodeRecord BY <1>1, NodesAre
  <2> QED BY <1>1, <2>1
<1>3. ASSUME NEW q \in DOMAIN g
      PROVE  /\ q # <<>>
             /\ \A x \in Prefixes(q) \ {q} : Exists(g, x) /\ g[x].kind = "dir"
             /\ g[q].kind = "link" => q = Dest /\ g[q].to = Other
  <2>1. /\ q \in DOMAIN f /\ q # <<>>
        /\ \A x \in Prefixes(q) \ {q} : x \in DOMAIN f /\ f[x].kind = "dir"
        /\ f[q].kind = "link" => q = Dest /\ f[q].to = Other
    BY <1>1, NodesAre
  <2>2. p \notin Prefixes(q) \ {q} BY <2>1 DEF Removable, Below, Exists
  <2> QED BY <1>1, <2>1, <2>2 DEF Exists
<1> QED BY <1>2, <1>3 DEF IsTree, g

\* A tree stays one when the directories above a path are made (mkdir -p).
LEMMA TreeMade ==
  ASSUME NEW f, IsTree(f), NEW p, \A q \in Prefixes(p) : q # <<>> /\ \A x \in Prefixes(q) \ {q} :
             x \in Prefixes(p) /\ (x \in DOMAIN f => f[x].kind = "dir")
  PROVE  IsTree(AllMade(f, p))
<1> DEFINE g == AllMade(f, p)
<1>1. /\ DOMAIN g = DOMAIN f \cup Prefixes(p)
      /\ \A q \in DOMAIN f : g[q] = f[q]
      /\ \A q \in Prefixes(p) : q \notin DOMAIN f => g[q] = NewDir("0755")
      /\ g = [q \in DOMAIN g |-> g[q]]
  BY DEF AllMade, Exists
<1>2. NewDir("0755") \in NodeRecord /\ NewDir("0755").kind = "dir"
  <2>1. "" \in Value /\ "0755" \in Value /\ "root" \in Value BY Words
  <2> QED BY <2>1 DEF NewDir, Node, NodeRecord
<1> HIDE DEF g
<1>3. g \in [DOMAIN g -> NodeRecord]
  <2>1. \A q \in DOMAIN g : g[q] \in NodeRecord BY <1>1, <1>2, NodesAre
  <2> QED BY <1>1, <2>1
<1>4. ASSUME NEW q \in DOMAIN g
      PROVE  /\ q # <<>>
             /\ \A x \in Prefixes(q) \ {q} : Exists(g, x) /\ g[x].kind = "dir"
             /\ g[q].kind = "link" => q = Dest /\ g[q].to = Other
  <2>1. CASE q \in DOMAIN f
    <3>1. /\ q # <<>>
          /\ \A x \in Prefixes(q) \ {q} : x \in DOMAIN f /\ f[x].kind = "dir"
          /\ f[q].kind = "link" => q = Dest /\ f[q].to = Other
      BY <2>1, NodesAre
    <3> QED BY <1>1, <2>1, <3>1 DEF Exists
  <2>2. CASE q \notin DOMAIN f BY <1>1, <1>2, <2>2 DEF Exists
  <2> QED BY <2>1, <2>2
<1> QED BY <1>3, <1>4 DEF IsTree, g

----
\* Modes and owners.

\* A tree with other modes and owners is a tree.
LEMMA SameShapeIsTree ==
  ASSUME NEW f, IsTree(f), NEW g, SameShape(f, g)
  PROVE  IsTree(g)
<1>1. /\ DOMAIN g = DOMAIN f /\ g \in [DOMAIN g -> NodeRecord]
      /\ \A q \in DOMAIN f : g[q].kind = f[q].kind /\ g[q].to = f[q].to
  BY DEF SameShape
<1>2. ASSUME NEW q \in DOMAIN g
      PROVE  /\ q # <<>>
             /\ \A x \in Prefixes(q) \ {q} : Exists(g, x) /\ g[x].kind = "dir"
             /\ g[q].kind = "link" => q = Dest /\ g[q].to = Other
  BY <1>1, NodesAre DEF Exists
<1> QED BY <1>1, <1>2 DEF IsTree

\* What is where, and what it holds, does not depend on modes and owners.
LEMMA SameShapeIsSame ==
  ASSUME NEW f, NEW g, SameShape(f, g), NEW p
  PROVE  /\ DOMAIN g = DOMAIN f
         /\ Follow(g, p) = Follow(f, p)
         /\ IsLink(g, p) <=> IsLink(f, p)
         /\ IsDir(g, p) <=> IsDir(f, p)
         /\ IsFile(g, p) <=> IsFile(f, p)
         /\ Stats(g, p) <=> Stats(f, p)
         /\ Contents(g, p) = Contents(f, p)
         /\ Below(g, p) = Below(f, p)
BY DEF SameShape, Follow, Exists, IsLink, Below, IsDir, IsFile, Stats, Contents

\* Nor does what an archive was unpacked to.
LEMMA SameShapeIsUnpacked ==
  ASSUME NEW f, NEW g, SameShape(f, g), IsUnpacked(f)
  PROVE  IsUnpacked(g)
<1>1. DOMAIN g = DOMAIN f /\ \A q \in DOMAIN f : g[q].kind = f[q].kind BY DEF SameShape
<1>2. (IsLink(g, Dest) <=> IsLink(f, Dest)) /\ Contents(g, Marker) = Contents(f, Marker)
  BY SameShapeIsSame
<1> QED BY <1>1, <1>2 DEF IsUnpacked, Exists

----
\* Worlds with files.

\* The worlds of a file step: what every kind keeps, and what an unarchive
\* keeps besides.
LEMMA FileWorldIs ==
  ASSUME NEW c, NEW u
  PROVE  IsFileWorld(c, u) <=> FilesOK(u) /\ (c.kind = "unarchive" => IsUnpacked(u.fs))
BY DEF IsFileWorld, FilesOK

\* Where nothing has happened, nothing but the files of A has been touched.
LEMMA KeepsSelf ==
  ASSUME NEW u, FilesOK(u), NEW A
  PROVE  Keeps(u, u, A)
<1>1. u.fault \in BOOLEAN BY DEF FilesOK
<1> QED BY <1>1 DEF Keeps, SameHost, Beside

\* Nor by a failed call that did nothing.
LEMMA KeepsFaulty ==
  ASSUME NEW u, FilesOK(u), NEW A
  PROVE  Keeps(u, Faulty(u), A) /\ Faulty(u).fault = TRUE /\ Faulty(u).fs = u.fs
         /\ FilesOK(Faulty(u)) /\ SameHost(u, Faulty(u))
<1> DEFINE v == Faulty(u)
<1>1. v.fault = TRUE /\ v.fs = u.fs /\ SameHost(u, v) BY DEF FilesOK, SameHost, Faulty, WithFault
<1>2. v \in [fault: BOOLEAN, fs: {u.fs}, users: SUBSET Value, tool: BOOLEAN, clock: 0 .. 2,
              source: Value, remote: Value \ {"none"}, cache: Value, meta: Value]
  BY DEF FilesOK, Faulty, WithFault
<1>3. IsTree(u.fs) BY DEF FilesOK
<1> HIDE DEF v
<1>4. FilesOK(v) BY <1>1, <1>2, <1>3 DEF FilesOK, SameHost
<1>5. Keeps(u, v, A) BY <1>1, <1>4 DEF Keeps, Beside
<1> QED BY <1>1, <1>4, <1>5 DEF v

\* A world with another tree of files is a world, and its host is the same.
LEMMA KeepsPut ==
  ASSUME NEW u, FilesOK(u), NEW g, IsTree(g)
  PROVE  LET v == WithFiles(u, g)
         IN  v.fs = g /\ v.fault = u.fault /\ FilesOK(v) /\ SameHost(u, v)
<1> DEFINE v == WithFiles(u, g)
<1>1. v.fault = u.fault /\ v.fs = g /\ SameHost(u, v) BY DEF FilesOK, SameHost, WithFiles
<1>2. v \in [fault: BOOLEAN, fs: {g}, users: SUBSET Value, tool: BOOLEAN, clock: 0 .. 2,
              source: Value, remote: Value \ {"none"}, cache: Value, meta: Value]
  BY DEF FilesOK, WithFiles
<1> HIDE DEF v
<1>4. FilesOK(v) BY <1>1, <1>2 DEF FilesOK
<1> QED BY <1>1, <1>4 DEF v

\* What two parts of an op leave alone, both leave alone.
LEMMA KeepsTrans ==
  ASSUME NEW u, NEW v, NEW x, NEW A, Keeps(u, v, A), Keeps(v, x, A)
  PROVE  Keeps(u, x, A)
<1>1. SameHost(u, x) BY DEF Keeps, SameHost
<1>2. Beside(u.fs, x.fs, A) BY DEF Keeps, Beside
<1> QED BY <1>1, <1>2 DEF Keeps

\* Who touches the files of A alone touches those of a larger set alone.
LEMMA KeepsMore ==
  ASSUME NEW u, NEW v, NEW A, NEW B, Keeps(u, v, A), A \subseteq B
  PROVE  Keeps(u, v, B)
<1>1. Beside(u.fs, v.fs, B) BY DEF Keeps, Beside
<1> QED BY <1>1 DEF Keeps

\* The parts of Keeps, put together.
LEMMA KeepsIs ==
  ASSUME NEW u, FilesOK(u), NEW v, FilesOK(v), NEW A, (u.fault => v.fault), SameHost(u, v),
         Beside(u.fs, v.fs, A)
  PROVE  Keeps(u, v, A)
<1>1. v.fault \in BOOLEAN BY DEF FilesOK
<1> QED BY <1>1 DEF Keeps

----
\* The calls.

\* Files that differ at one path.
LEMMA PutIs ==
  ASSUME NEW f, NEW p, NEW node
  PROVE  LET g == Put(f, p, node)
         IN  /\ Beside(f, g, {p}) /\ p \in DOMAIN g /\ g[p] = node
BY DEF Put, Beside

\* A tree stays one when a file is written where its directory is; the rest is
\* as it was.
LEMMA HoldingIs ==
  ASSUME NEW f, IsTree(f), NEW p, p # <<>>, NEW data \in Value,
         \A x \in Prefixes(p) \ {p} : x \in DOMAIN f /\ f[x].kind = "dir",
         p \in DOMAIN f => f[p].kind = "file"
  PROVE  LET g == Holding(f, p, data)
         IN  /\ IsTree(g) /\ Beside(f, g, {p})
             /\ p \in DOMAIN g /\ g[p].kind = "file" /\ g[p].data = data
<1> DEFINE node == IF Exists(f, p) THEN [f[p] EXCEPT !.data = data] ELSE NewFile(data)
<1>1. node \in NodeRecord /\ node.kind = "file" /\ node.data = data
  <2>1. CASE p \in DOMAIN f
    <3>1. f[p] \in NodeRecord BY <2>1, NodesAre
    <3> QED BY <2>1, <3>1 DEF Exists, NodeRecord
  <2>2. CASE p \notin DOMAIN f
    <3>1. "0644" \in Value /\ "root" \in Value BY Words
    <3> QED BY <2>2, <3>1 DEF Exists, NodeRecord, NewFile, Node
  <2> QED BY <2>1, <2>2
<1>2. Holding(f, p, data) = Put(f, p, node) BY DEF Holding
<1> HIDE DEF node
<1>3. IsTree(Put(f, p, node)) BY <1>1, TreePut
<1> QED BY <1>1, <1>2, <1>3, PutIs

\* A write leaves the data in the file, or what a broken write leaves of it,
\* and tells which.
LEMMA FileWritten ==
  ASSUME NEW u, FilesOK(u), NEW p \in Written, NEW data \in Value,
         p \in {Main, More} => ~IsLink(u.fs, Dest), NEW d \in WriteFile(u, p, data)
  PROVE  Writes(u, p, data, d)
<1> DEFINE q == Follow(u.fs, p)
<1>1. IsTree(u.fs) BY DEF FilesOK
<1>2. /\ Follow(u.fs, q) = q /\ q \in {p, Other} /\ (IsLink(u.fs, p) => p = Dest /\ q = Other)
      /\ ~IsLink(u.fs, p) => q = p
  BY <1>1, Following
<1>3. q \in Written /\ (q \in {Main, More} => ~IsLink(u.fs, Dest)) BY <1>2, PathsDiffer DEF Written
<1>4. Keeps(u, u, {q}) BY KeepsSelf
<1>5. CASE ~IsDir(u.fs, Parent(q)) \/ IsDir(u.fs, q)
  <2>1. d.w = u /\ d.res = "error" BY <1>5 DEF WriteFile, Ends
  <2> QED BY <1>4, <2>1 DEF Writes
<1>6. CASE IsDir(u.fs, Parent(q)) /\ ~IsDir(u.fs, q)
  <2> DEFINE a == WithFiles(u, Holding(u.fs, q, "cut"))
             b == WithFiles(u, Holding(u.fs, q, data))
  <2>1. d \in Lost(a) \cup Lost(u) \cup Lost(b) \cup Returns(b) BY <1>6 DEF WriteFile, Call
  <2>2. q # <<>> /\ \A x \in Prefixes(q) \ {q} : x \in DOMAIN u.fs /\ u.fs[x].kind = "dir"
    BY <1>1, <1>3, <1>6, PathReady
  <2>3. q \in DOMAIN u.fs => u.fs[q].kind = "file"
    <3>1. q \in DOMAIN u.fs => u.fs[q].kind \in {"file", "dir", "link"} /\ u.fs[q].kind # "dir"
      BY <1>1, <1>2, <1>6, NodesAre, PlainPath
    <3>2. ~IsLink(u.fs, q) BY <1>1, Following
    <3> QED BY <3>1, <3>2 DEF IsLink, Exists
  <2> DEFINE Held(x, data2) ==
               /\ Keeps(u, x, {q}) /\ x.fault \in BOOLEAN
               /\ Follow(x.fs, p) = q /\ q \in DOMAIN x.fs /\ x.fs[q].kind = "file"
               /\ x.fs[q].data = data2 /\ (IsLink(x.fs, Dest) <=> IsLink(u.fs, Dest))
  <2>4. ASSUME NEW y \in Value
        PROVE  LET x == WithFiles(u, Holding(u.fs, q, y))
               IN Held(x, y) /\ Held(Faulty(x), y) /\ x.fault = u.fault /\ Faulty(x).fault = TRUE
    <3> DEFINE g == Holding(u.fs, q, y)
               x == WithFiles(u, g)
    <3>1. IsTree(g) /\ Beside(u.fs, g, {q}) /\ q \in DOMAIN g /\ g[q].kind = "file" /\ g[q].data = y
      BY <1>1, <2>2, <2>3, HoldingIs
    <3> HIDE DEF g
    <3>2. x.fs = g /\ x.fault = u.fault /\ FilesOK(x) /\ SameHost(u, x) BY <3>1, KeepsPut
    <3> HIDE DEF x
    <3>3. Follow(g, p) = q
      <4>1. CASE IsLink(u.fs, p)
        <5>1. p # q /\ p \in DOMAIN g /\ g[p] = u.fs[p]
          BY <1>2, <3>1, <4>1, PathsDiffer DEF Beside, IsLink, Exists
        <5> QED BY <4>1, <5>1 DEF Follow, IsLink, Exists
      <4>2. CASE ~IsLink(u.fs, p) BY <1>2, <3>1, <4>2 DEF Follow, Exists
      <4> QED BY <4>1, <4>2
    <3>4. IsLink(g, Dest) <=> IsLink(u.fs, Dest)
      <4>1. CASE q = Dest
        <5>1. ~IsLink(u.fs, Dest) BY <2>3, <4>1 DEF IsLink, Exists
        <5> QED BY <3>1, <4>1, <5>1 DEF IsLink, Exists
      <4>2. CASE q # Dest BY <3>1, <4>2 DEF IsLink, Exists, Beside
      <4> QED BY <4>1, <4>2
    <3>5. Keeps(u, x, {q}) /\ x.fault \in BOOLEAN BY <3>1, <3>2, KeepsIs DEF Keeps
    <3>6. /\ Keeps(x, Faulty(x), {q}) /\ Faulty(x).fault = TRUE /\ Faulty(x).fs = x.fs
      BY <3>2, KeepsFaulty
    <3>7. Keeps(u, Faulty(x), {q}) BY <3>5, <3>6, KeepsTrans
    <3>8. Held(x, y) /\ Held(Faulty(x), y) BY <3>1, <3>2, <3>3, <3>4, <3>5, <3>6, <3>7
    <3> HIDE DEF Held
    <3> QED BY <3>2, <3>6, <3>8 DEF x, g
  <2>5. "cut" \in Value BY Words
  <2>6. /\ Held(Faulty(a), "cut") /\ Held(b, data) /\ Held(Faulty(b), data)
        /\ Faulty(a).fault = TRUE /\ Faulty(b).fault = TRUE /\ b.fault = u.fault
    BY <2>4, <2>5
  <2>7. Keeps(u, Faulty(u), {q}) /\ Faulty(u).fault = TRUE /\ Faulty(u).fs = u.fs BY KeepsFaulty
  <2> HIDE DEF a, b
  <2>8. CASE d \in Lost(u)
    <3>1. d.w = Faulty(u) /\ d.res = "error" BY <2>8 DEF Lost, Ends
    <3> QED BY <2>7, <3>1 DEF Writes
  <2>9. CASE d \in Lost(a)
    <3>1. d.w = Faulty(a) /\ d.res = "error" BY <2>9 DEF Lost, Ends
    <3> QED BY <2>3, <2>6, <3>1 DEF Writes
  <2>10. CASE d \in Lost(b)
    <3>1. d.w = Faulty(b) /\ d.res = "error" BY <2>10 DEF Lost, Ends
    <3> QED BY <2>3, <2>6, <3>1 DEF Writes
  <2>11. CASE d \in Returns(b)
    <3>1. d.w = b /\ d.res = "returned" BY <2>11 DEF Returns, Ends
    <3> QED BY <2>3, <2>6, <3>1 DEF Writes
  <2> QED BY <2>1, <2>8, <2>9, <2>10, <2>11
<1> QED BY <1>5, <1>6

\* chmod sets the mode of what a path leads to and nothing else.
LEMMA ModeSet ==
  ASSUME NEW f, IsTree(f), NEW p, NEW mode \in Value
  PROVE  LET g == WithMode(f, p, mode)
         IN  /\ SameShape(f, g) /\ Alike(f, g, "owner") /\ Beside(f, g, {Follow(f, p)})
             /\ Follow(f, p) \in DOMAIN f => g[Follow(f, p)].mode = mode
<1> DEFINE g == WithMode(f, p, mode)
           q == Follow(f, p)
<1>1. g = [f EXCEPT ![q].mode = mode] BY DEF WithMode
<1> HIDE DEF q
<1>2. f \in [DOMAIN f -> NodeRecord] BY DEF IsTree
<1>3. /\ g \in [DOMAIN f -> NodeRecord] /\ DOMAIN g = DOMAIN f
      /\ \A x \in DOMAIN f : x # q => g[x] = f[x]
      /\ q \in DOMAIN f => g[q] = [f[q] EXCEPT !.mode = mode]
  <2>1. g = [x \in DOMAIN f |-> IF x = q THEN [f[q] EXCEPT !.mode = mode] ELSE f[x]] BY <1>1
  <2>2. \A x \in DOMAIN f : f[x] \in NodeRecord BY <1>2
  <2>3. q \in DOMAIN f => [f[q] EXCEPT !.mode = mode] \in NodeRecord BY <2>2 DEF NodeRecord
  <2> QED BY <2>1, <2>2, <2>3
<1> HIDE DEF g
<1>4. \A x \in DOMAIN f : /\ g[x].kind = f[x].kind /\ g[x].data = f[x].data
                          /\ g[x].to = f[x].to /\ g[x]["owner"] = f[x]["owner"]
  <2> TAKE x \in DOMAIN f
  <2>1. f[x] \in NodeRecord BY <1>2
  <2>2. CASE x = q BY <1>3, <2>1, <2>2 DEF NodeRecord
  <2>3. CASE x # q BY <1>3, <2>3
  <2> QED BY <2>2, <2>3
<1>5. SameShape(f, g) BY <1>3, <1>4 DEF SameShape
<1>6. Alike(f, g, "owner") BY <1>4, <1>5 DEF Alike
<1>7. Beside(f, g, {q}) BY <1>3 DEF Beside
<1>8. q \in DOMAIN f => g[q].mode = mode
  <2> HAVE q \in DOMAIN f
  <2>1. f[q] \in NodeRecord BY <1>2
  <2> QED BY <1>3, <2>1 DEF NodeRecord
<1> QED BY <1>5, <1>6, <1>7, <1>8 DEF q, g

\* chown sets the owner of what a path leads to and nothing else.
LEMMA OwnerSet ==
  ASSUME NEW f, IsTree(f), NEW p, NEW owner \in Value
  PROVE  LET g == WithOwner(f, p, owner)
         IN  /\ SameShape(f, g) /\ Alike(f, g, "mode") /\ Beside(f, g, {Follow(f, p)})
             /\ Follow(f, p) \in DOMAIN f => g[Follow(f, p)].owner = owner
<1> DEFINE g == WithOwner(f, p, owner)
           q == Follow(f, p)
<1>1. g = [f EXCEPT ![q].owner = owner] BY DEF WithOwner
<1> HIDE DEF q
<1>2. f \in [DOMAIN f -> NodeRecord] BY DEF IsTree
<1>3. /\ g \in [DOMAIN f -> NodeRecord] /\ DOMAIN g = DOMAIN f
      /\ \A x \in DOMAIN f : x # q => g[x] = f[x]
      /\ q \in DOMAIN f => g[q] = [f[q] EXCEPT !.owner = owner]
  <2>1. g = [x \in DOMAIN f |-> IF x = q THEN [f[q] EXCEPT !.owner = owner] ELSE f[x]] BY <1>1
  <2>2. \A x \in DOMAIN f : f[x] \in NodeRecord BY <1>2
  <2>3. q \in DOMAIN f => [f[q] EXCEPT !.owner = owner] \in NodeRecord BY <2>2 DEF NodeRecord
  <2> QED BY <2>1, <2>2, <2>3
<1> HIDE DEF g
<1>4. \A x \in DOMAIN f : /\ g[x].kind = f[x].kind /\ g[x].data = f[x].data
                          /\ g[x].to = f[x].to /\ g[x]["mode"] = f[x]["mode"]
  <2> TAKE x \in DOMAIN f
  <2>1. f[x] \in NodeRecord BY <1>2
  <2>2. CASE x = q BY <1>3, <2>1, <2>2 DEF NodeRecord
  <2>3. CASE x # q BY <1>3, <2>3
  <2> QED BY <2>2, <2>3
<1>5. SameShape(f, g) BY <1>3, <1>4 DEF SameShape
<1>6. Alike(f, g, "mode") BY <1>4, <1>5 DEF Alike
<1>7. Beside(f, g, {q}) BY <1>3 DEF Beside
<1>8. q \in DOMAIN f => g[q].owner = owner
  <2> HAVE q \in DOMAIN f
  <2>1. f[q] \in NodeRecord BY <1>2
  <2> QED BY <1>3, <2>1 DEF NodeRecord
<1> QED BY <1>5, <1>6, <1>7, <1>8 DEF q, g

\* New directories change neither files nor links.
LEMMA GrownIsSame ==
  ASSUME NEW f, IsTree(f), NEW g, NEW S, Grown(f, g, S), Other \notin S, NEW p
  PROVE  /\ IsLink(g, p) <=> IsLink(f, p)
         /\ IsDir(f, p) => IsDir(g, p)
         /\ IsFile(g, p) <=> IsFile(f, p)
         /\ Contents(g, p) = Contents(f, p)
<1>1. IsLink(g, p) <=> IsLink(f, p) BY DEF Grown, IsLink, Exists
<1>2. \/ Follow(g, p) = Follow(f, p) /\ (Follow(f, p) \in DOMAIN f \/ Follow(f, p) \notin DOMAIN g \/ Follow(f, p) \in S)
  <2>1. CASE IsLink(f, p)
    <3>1. Follow(f, p) = f[p].to /\ Follow(g, p) = g[p].to /\ p \in DOMAIN f
      BY <1>1, <2>1 DEF Follow, IsLink, Exists
    <3> QED BY <3>1 DEF Grown
  <2>2. CASE ~IsLink(f, p)
    <3>1. Follow(f, p) = p /\ Follow(g, p) = p BY <1>1, <2>2 DEF Follow, IsLink, Exists
    <3> QED BY <3>1 DEF Grown
  <2> QED BY <2>1, <2>2
<1>3. IsDir(f, p) => IsDir(g, p) BY <1>2 DEF IsDir, Exists, Grown
<1>4. IsFile(g, p) <=> IsFile(f, p) BY <1>2 DEF IsFile, Exists, Grown
<1>5. Contents(g, p) = Contents(f, p) BY <1>2, <1>4 DEF Contents, IsFile, Exists, Grown
<1> QED BY <1>1, <1>3, <1>4, <1>5

\* Where nothing is in the way of a directory, what is above it are
\* directories.
LEMMA DirReady ==
  ASSUME NEW f, IsTree(f), NEW p \in Founded, ~Blocked(f, p), p = Lib => ~IsLink(f, Dest)
  PROVE  \A q \in Prefixes(p) : q # <<>> /\ \A x \in Prefixes(q) \ {q} :
             x \in Prefixes(p) /\ (x \in DOMAIN f => f[x].kind = "dir")
<1>1. \A x \in Prefixes(p) : x \in DOMAIN f => IsDir(f, x) BY DEF Blocked, Exists
<1>3. ASSUME NEW x, x \in Prefixes(p), x \in DOMAIN f, x # Dest \/ ~IsLink(f, Dest)
      PROVE  f[x].kind = "dir"
  <2>0. ~IsLink(f, x)
    <3>1. IsLink(f, x) => x = Dest BY Following
    <3> QED BY <1>3, <3>1
  <2>1. Follow(f, x) = x /\ x # <<>> BY <1>3, <2>0, NodesAre DEF Follow, IsLink
  <2>2. IsDir(f, x) BY <1>1, <1>3
  <2> QED BY <2>1, <2>2 DEF IsDir
<1>4. CASE p = Dest
  <2>1. Prefixes(Srv) = {Srv} /\ Prefixes(Dest) = {Srv, Dest} /\ Srv # Dest /\ Srv # <<>> /\ Dest # <<>>
    BY PrefixesAre, PathsDiffer
  <2> QED BY <1>3, <1>4, <2>1
<1>5. CASE p = TempDir BY <1>5, PrefixesAre, PathsDiffer
<1>6. CASE p = StateDir BY <1>3, <1>6, PrefixesAre, PathsDiffer
<1>7. CASE p = Lib
  <2>1. /\ Prefixes(Srv) = {Srv} /\ Prefixes(Dest) = {Srv, Dest} /\ Prefixes(Lib) = {Srv, Dest, Lib}
        /\ Srv # Dest /\ Srv # <<>> /\ Dest # <<>> /\ Lib # <<>> /\ ~IsLink(f, Dest)
    BY <1>7, PrefixesAre, PathsDiffer
  <2> QED BY <1>3, <1>7, <2>1
<1> QED BY <1>4, <1>5, <1>6, <1>7 DEF Founded

\* mkdir -p adds the missing directories and leaves what is there.
LEMMA AllMadeIs ==
  ASSUME NEW f, NEW p
  PROVE  LET g == AllMade(f, p)
         IN  /\ Beside(f, g, Prefixes(p)) /\ Grown(f, g, Prefixes(p))
             /\ \A q \in DOMAIN f : g[q] = f[q]
             /\ DOMAIN g = DOMAIN f \cup Prefixes(p)
<1> DEFINE g == AllMade(f, p)
<1>1. /\ DOMAIN g = DOMAIN f \cup Prefixes(p) /\ \A q \in DOMAIN f : g[q] = f[q]
      /\ \A q \in Prefixes(p) : q \notin DOMAIN f => g[q] = NewDir("0755")
  BY DEF AllMade, Exists
<1>2. NewDir("0755").kind = "dir" /\ NewDir("0755").data = "" BY DEF NewDir, Node
<1> HIDE DEF g
<1>3. Beside(f, g, Prefixes(p)) /\ Grown(f, g, Prefixes(p)) BY <1>1, <1>2 DEF Beside, Grown
<1> QED BY <1>1, <1>3 DEF g

\* The path itself is among its prefixes.
LEMMA OwnPrefix ==
  ASSUME NEW p \in Founded
  PROVE  p \in Prefixes(p) /\ p # <<>> /\ Other \notin Prefixes(p)
BY PrefixesAre, PathsDiffer DEF Founded

\* The files AllMade and then WithMode leave.
LEMMA DirMade ==
  ASSUME NEW f, IsTree(f), NEW p \in Founded, ~Blocked(f, p), NEW mode \in Value,
         p = Lib => ~IsLink(f, Dest)
  PROVE  LET g == AllMade(f, p)
             h == WithMode(g, p, mode)
             A == Prefixes(p) \cup {Follow(f, p)}
         IN  /\ IsTree(g) /\ Beside(f, g, A) /\ Grown(f, g, Prefixes(p)) /\ IsDir(g, p)
             /\ IsTree(h) /\ Beside(f, h, A) /\ Grown(f, h, Prefixes(p)) /\ IsDir(h, p)
<1> DEFINE g == AllMade(f, p)
           h == WithMode(g, p, mode)
           A == Prefixes(p) \cup {Follow(f, p)}
<1>1. /\ IsTree(g) /\ Beside(f, g, Prefixes(p)) /\ Grown(f, g, Prefixes(p))
      /\ \A q \in DOMAIN f : g[q] = f[q]
      /\ DOMAIN g = DOMAIN f \cup Prefixes(p)
  BY DirReady, TreeMade, AllMadeIs
<1>0. p \in Prefixes(p) /\ p # <<>> /\ Other \notin Prefixes(p) BY OwnPrefix
<1> HIDE DEF g
<1>2. Follow(g, p) = Follow(f, p) BY <1>0, <1>1 DEF Follow, Exists, Grown
<1>3. IsDir(g, p)
  <2>1. CASE p \in DOMAIN f
    <3>1. IsDir(f, p) BY <1>0, <2>1 DEF Blocked, Exists
    <3> QED BY <1>0, <1>1, <3>1, GrownIsSame
  <2>2. CASE p \notin DOMAIN f
    <3>1. p \in DOMAIN g /\ g[p].kind = "dir" BY <1>0, <1>1, <2>2 DEF Grown
    <3> QED BY <3>1 DEF IsDir, Follow, Exists
  <2> QED BY <2>1, <2>2
<1>4. SameShape(g, h) /\ Beside(g, h, {Follow(g, p)}) BY <1>1, ModeSet
<1>5. IsTree(h) /\ IsDir(h, p) BY <1>1, <1>3, <1>4, SameShapeIsTree, SameShapeIsSame
<1> HIDE DEF h
<1>6. Grown(f, h, Prefixes(p))
  <2>1. DOMAIN h = DOMAIN g /\ \A q \in DOMAIN g : h[q].kind = g[q].kind /\ h[q].data = g[q].data
                                                   /\ h[q].to = g[q].to
    BY <1>4 DEF SameShape
  <2> QED BY <1>1, <2>1 DEF Grown
<1>7. Beside(f, g, A) /\ Beside(f, h, A) BY <1>1, <1>2, <1>4 DEF Beside
<1> QED BY <1>1, <1>3, <1>5, <1>6, <1>7 DEF g, h

\* A tree has grown by nothing out of itself.
LEMMA GrownSelf == ASSUME NEW f, NEW S PROVE Grown(f, f, S)
BY DEF Grown

\* Making a directory, with its parents: it is there after a success; if a
\* failure left some of them, a call has failed.
LEMMA DirectoryMade ==
  ASSUME NEW u, FilesOK(u), NEW p \in {Dest, TempDir, StateDir}, NEW mode \in Value,
         NEW d \in Mkdir(u, p, mode)
  PROVE  Makes(u, p, d)
<1> DEFINE A == Prefixes(p) \cup {Follow(u.fs, p)}
           g == AllMade(u.fs, p)
           a == WithFiles(u, g)
           b == WithFiles(a, WithMode(a.fs, p, mode))
<1>1. Keeps(u, u, A) /\ Keeps(u, Faulty(u), A) /\ Faulty(u).fault = TRUE /\ Faulty(u).fs = u.fs
      /\ Grown(u.fs, u.fs, Prefixes(p)) /\ IsTree(u.fs)
  BY KeepsSelf, KeepsFaulty, GrownSelf DEF FilesOK
<1>2. CASE Blocked(u.fs, p)
  <2>1. d.w = u /\ d.res = "error" BY <1>2 DEF Mkdir, Ends
  <2> QED BY <1>1, <2>1 DEF Makes
<1>3. CASE ~Blocked(u.fs, p)
  <2>1. d \in Lost(u) \cup Lost(a) \cup Lost(b) \cup Returns(b) BY <1>3 DEF Mkdir, Call
  <2>2. p \in Founded /\ p # Lib BY PathsDiffer DEF Founded
  <2>3. /\ IsTree(g) /\ Beside(u.fs, g, A) /\ Grown(u.fs, g, Prefixes(p))
        /\ IsTree(WithMode(g, p, mode)) /\ Beside(u.fs, WithMode(g, p, mode), A)
        /\ Grown(u.fs, WithMode(g, p, mode), Prefixes(p)) /\ IsDir(WithMode(g, p, mode), p)
    BY <1>1, <1>3, <2>2, DirMade
  <2> HIDE DEF g
  <2>4. a.fs = g /\ a.fault = u.fault /\ FilesOK(a) /\ SameHost(u, a) BY <2>3, KeepsPut
  <2> HIDE DEF a
  <2>5. b.fs = WithMode(g, p, mode) /\ b.fault = u.fault /\ FilesOK(b) /\ SameHost(a, b)
    BY <2>3, <2>4, KeepsPut
  <2>6. Keeps(u, a, A) BY <2>3, <2>4, KeepsIs
  <2>7. SameHost(u, b) BY <2>4, <2>5 DEF SameHost
  <2> HIDE DEF b
  <2>8. Keeps(u, b, A) BY <2>3, <2>5, <2>7, KeepsIs
  <2>9. /\ Keeps(u, Faulty(a), A) /\ Faulty(a).fault = TRUE /\ Faulty(a).fs = a.fs
        /\ Keeps(u, Faulty(b), A) /\ Faulty(b).fault = TRUE /\ Faulty(b).fs = b.fs
    <3>1. Faulty(a).fault = TRUE /\ Faulty(a).fs = a.fs /\ Keeps(a, Faulty(a), A)
      BY <2>4, KeepsFaulty
    <3>2. Faulty(b).fault = TRUE /\ Faulty(b).fs = b.fs /\ Keeps(b, Faulty(b), A)
      BY <2>5, KeepsFaulty
    <3>3. Keeps(u, Faulty(a), A) BY <2>6, <3>1, KeepsTrans
    <3>4. Keeps(u, Faulty(b), A) BY <2>8, <3>2, KeepsTrans
    <3> QED BY <3>1, <3>2, <3>3, <3>4
  <2>10. CASE d \in Lost(u)
    <3>1. d.w = Faulty(u) /\ d.res = "error" BY <2>10 DEF Lost, Ends
    <3> QED BY <1>1, <3>1 DEF Makes
  <2>11. CASE d \in Lost(a)
    <3>1. d.w = Faulty(a) /\ d.res = "error" BY <2>11 DEF Lost, Ends
    <3> QED BY <2>3, <2>4, <2>9, <3>1 DEF Makes
  <2>12. CASE d \in Lost(b)
    <3>1. d.w = Faulty(b) /\ d.res = "error" BY <2>12 DEF Lost, Ends
    <3> QED BY <2>3, <2>5, <2>9, <3>1 DEF Makes
  <2>13. CASE d \in Returns(b)
    <3>1. d.w = b /\ d.res = "returned" BY <2>13 DEF Returns, Ends
    <3> QED BY <2>3, <2>5, <2>8, <3>1 DEF Makes
  <2> QED BY <2>1, <2>10, <2>11, <2>12, <2>13
<1> QED BY <1>2, <1>3

\* Removing an entry touches that entry alone.
LEMMA WithoutIs ==
  ASSUME NEW f, NEW p
  PROVE  LET g == Without(f, p)
         IN  /\ Beside(f, g, {p}) /\ DOMAIN g = DOMAIN f \ {p}
BY DEF Without, Beside

\* A removal that came back has left no entry; one that is refused leaves all.
LEMMA EntryRemoved ==
  ASSUME NEW u, FilesOK(u), NEW p, NEW d \in Remove(u, p)
  PROVE  Removes(u, p, d)
<1> DEFINE g == Without(u.fs, p)
           a == WithFiles(u, g)
<1>1. Keeps(u, u, {p}) /\ Keeps(u, Faulty(u), {p}) /\ Faulty(u).fault = TRUE /\ Faulty(u).fs = u.fs
      /\ IsTree(u.fs)
  BY KeepsSelf, KeepsFaulty DEF FilesOK
<1>2. CASE ~Removable(u.fs, p)
  <2>1. d.w = u /\ d.res = "error" BY <1>2 DEF Remove, Ends
  <2> QED BY <1>1, <2>1 DEF Removes
<1>3. CASE Removable(u.fs, p)
  <2>1. d \in Lost(u) \cup Lost(a) \cup Returns(a) BY <1>3 DEF Remove, Call
  <2>2. IsTree(g) /\ Beside(u.fs, g, {p}) BY <1>1, <1>3, TreeWithout, WithoutIs
  <2> HIDE DEF g
  <2>3. a.fs = g /\ a.fault = u.fault /\ FilesOK(a) /\ SameHost(u, a) BY <2>2, KeepsPut
  <2> HIDE DEF a
  <2>4. Keeps(u, a, {p}) BY <2>2, <2>3, KeepsIs
  <2>5. Keeps(u, Faulty(a), {p}) /\ Faulty(a).fault = TRUE /\ Faulty(a).fs = a.fs
    BY <2>3, <2>4, KeepsFaulty, KeepsTrans
  <2>6. CASE d \in Lost(u)
    <3>1. d.w = Faulty(u) /\ d.res = "error" BY <2>6 DEF Lost, Ends
    <3> QED BY <1>1, <3>1 DEF Removes
  <2>7. CASE d \in Lost(a)
    <3>1. d.w = Faulty(a) /\ d.res = "error" BY <2>7 DEF Lost, Ends
    <3> QED BY <2>3, <2>5, <3>1 DEF Removes, g
  <2>8. CASE d \in Returns(a)
    <3>1. d.w = a /\ d.res = "returned" BY <2>8 DEF Returns, Ends
    <3> QED BY <2>3, <2>4, <3>1 DEF Removes, g
  <2> QED BY <2>1, <2>6, <2>7, <2>8
<1> QED BY <1>2, <1>3

\* A removal that nobody waits for.
LEMMA EntryTried ==
  ASSUME NEW u, FilesOK(u), NEW p, NEW v \in TryRemove(u, p)
  PROVE  /\ Keeps(u, v, {p})
         /\ v.fs \in {u.fs, Without(u.fs, p)}
         /\ ~v.fault /\ Removable(u.fs, p) => v.fs = Without(u.fs, p)
<1> DEFINE g == Without(u.fs, p)
           a == WithFiles(u, g)
<1>1. Keeps(u, u, {p}) /\ Keeps(u, Faulty(u), {p}) /\ Faulty(u).fault = TRUE /\ Faulty(u).fs = u.fs
      /\ IsTree(u.fs)
  BY KeepsSelf, KeepsFaulty DEF FilesOK
<1>2. \/ v = Faulty(u)
      \/ ~Removable(u.fs, p) /\ v = u
      \/ Removable(u.fs, p) /\ v = a
  BY DEF TryRemove
<1>3. CASE Removable(u.fs, p) /\ v = a
  <2>2. IsTree(g) /\ Beside(u.fs, g, {p}) BY <1>1, <1>3, TreeWithout, WithoutIs
  <2> HIDE DEF g
  <2>3. a.fs = g /\ a.fault = u.fault /\ FilesOK(a) /\ SameHost(u, a) BY <2>2, KeepsPut
  <2> HIDE DEF a
  <2>4. Keeps(u, a, {p}) BY <2>2, <2>3, KeepsIs
  <2> QED BY <1>3, <2>3, <2>4 DEF g
<1>4. CASE v = Faulty(u) BY <1>1, <1>4
<1>5. CASE ~Removable(u.fs, p) /\ v = u BY <1>1, <1>5
<1> QED BY <1>2, <1>3, <1>4, <1>5

----

\* A tree is like itself.
LEMMA AlikeSelf ==
  ASSUME NEW f, IsTree(f), NEW kept
  PROVE  Alike(f, f, kept)
BY DEF Alike, SameShape, IsTree

\* Where nothing has happened, nothing but modes or owners has been touched.
LEMMA ReshapesSelf ==
  ASSUME NEW u, FilesOK(u), NEW kept
  PROVE  /\ Reshapes(u, u, kept)
         /\ Reshapes(u, Faulty(u), kept) /\ Faulty(u).fault = TRUE /\ Faulty(u).fs = u.fs
<1>1. u.fault \in BOOLEAN /\ Alike(u.fs, u.fs, kept) /\ SameHost(u, u)
  BY AlikeSelf DEF FilesOK, SameHost
<1>2. Faulty(u).fault = TRUE /\ Faulty(u).fs = u.fs /\ FilesOK(Faulty(u)) /\ SameHost(u, Faulty(u))
  BY KeepsFaulty
<1> QED BY <1>1, <1>2 DEF Reshapes

\* Nor where a tree took its place that differs in them alone.
LEMMA ReshapesPut ==
  ASSUME NEW u, FilesOK(u), NEW kept, NEW g, Alike(u.fs, g, kept)
  PROVE  LET v == WithFiles(u, g)
         IN  /\ Reshapes(u, v, kept) /\ v.fs = g /\ v.fault = u.fault
             /\ Reshapes(u, Faulty(v), kept) /\ Faulty(v).fault = TRUE /\ Faulty(v).fs = g
<1> DEFINE v == WithFiles(u, g)
<1>1. IsTree(g)
  <2>1. IsTree(u.fs) /\ SameShape(u.fs, g) BY DEF FilesOK, Alike
  <2> QED BY <2>1, SameShapeIsTree
<1>2. v.fs = g /\ v.fault = u.fault /\ FilesOK(v) /\ SameHost(u, v) BY <1>1, KeepsPut
<1> HIDE DEF v
<1>3. Faulty(v).fault = TRUE /\ Faulty(v).fs = v.fs /\ FilesOK(Faulty(v)) /\ SameHost(v, Faulty(v))
  BY <1>2, KeepsFaulty
<1>4. SameHost(u, Faulty(v)) /\ v.fault \in BOOLEAN BY <1>2, <1>3 DEF SameHost, FilesOK
<1>5. Reshapes(u, v, kept) BY <1>2, <1>4 DEF Reshapes
<1>6. Reshapes(u, Faulty(v), kept) BY <1>2, <1>3, <1>4 DEF Reshapes
<1> QED BY <1>2, <1>3, <1>5, <1>6 DEF v

\* chmod -R and chown -R give every file of a set the value, and leave all
\* else.
LEMMA AllWithIs ==
  ASSUME NEW f, IsTree(f), NEW S, NEW value \in Value,
         NEW field \in {"mode", "owner"}, NEW kept \in {"mode", "owner"}, field # kept
  PROVE  LET g == AllWith(f, S, field, value)
         IN  /\ Alike(f, g, kept)
             /\ \A q \in DOMAIN f \cap S : g[q][field] = value
<1> DEFINE g == AllWith(f, S, field, value)
<1>1. /\ g = [q \in DOMAIN f |-> g[q]] /\ DOMAIN g = DOMAIN f
      /\ \A q \in DOMAIN f \cap S : g[q] = [f[q] EXCEPT ![field] = value]
      /\ \A q \in DOMAIN f \ S : g[q] = f[q]
  BY DEF AllWith
<1> HIDE DEF g
<1>2. ASSUME NEW q \in DOMAIN f
      PROVE  /\ g[q] \in NodeRecord /\ g[q].kind = f[q].kind /\ g[q].data = f[q].data
             /\ g[q].to = f[q].to /\ g[q][kept] = f[q][kept]
             /\ q \in S => g[q][field] = value
  <2>1. f[q] \in NodeRecord BY NodesAre
  <2>2. CASE q \notin S BY <1>1, <2>1, <2>2
  <2>3. CASE q \in S /\ field = "mode"
    <3>1. g[q] = [f[q] EXCEPT !.mode = value] /\ kept = "owner" BY <1>1, <2>3
    <3> QED BY <2>1, <2>3, <3>1 DEF NodeRecord
  <2>4. CASE q \in S /\ field = "owner"
    <3>1. g[q] = [f[q] EXCEPT !.owner = value] /\ kept = "mode" BY <1>1, <2>4
    <3> QED BY <2>1, <2>4, <3>1 DEF NodeRecord
  <2> QED BY <2>2, <2>3, <2>4
<1>3. g \in [DOMAIN f -> NodeRecord] BY <1>1, <1>2
<1>4. SameShape(f, g) BY <1>2, <1>3 DEF SameShape
<1> QED BY <1>2, <1>4 DEF Alike, g

\* chmod -R and chown -R
LEMMA TreeSet ==
  ASSUME NEW u, FilesOK(u), NEW p, NEW value \in Value,
         NEW field \in {"mode", "owner"}, NEW kept \in {"mode", "owner"}, field # kept,
         NEW d \in SetRecursive(u, p, field, value)
  PROVE  /\ Reshapes(u, d.w, kept) /\ d.res \in {"returned", "error"}
         /\ d.res = "returned" => /\ p \in DOMAIN u.fs
                                  /\ \A q \in Tree(u.fs, p) : d.w.fs[q][field] = value
<1> DEFINE g == AllWith(u.fs, {p}, field, value)
           h == AllWith(u.fs, Tree(u.fs, p), field, value)
           a == WithFiles(u, g)
           b == WithFiles(u, h)
<1>1. Reshapes(u, u, kept) /\ Reshapes(u, Faulty(u), kept) /\ IsTree(u.fs)
  BY ReshapesSelf DEF FilesOK
<1>2. CASE ~Exists(u.fs, p) BY <1>1, <1>2 DEF SetRecursive, Ends
<1>3. CASE Exists(u.fs, p)
  <2>1. d \in Lost(a) \cup Lost(u) \cup Lost(b) \cup Returns(b) BY <1>3 DEF SetRecursive, Call
  <2>2. Alike(u.fs, g, kept) /\ Alike(u.fs, h, kept) BY <1>1, AllWithIs
  <2>6. \A q \in DOMAIN u.fs \cap Tree(u.fs, p) : h[q][field] = value BY <1>1, AllWithIs
  <2> HIDE DEF g, h
  <2>3. Reshapes(u, Faulty(a), kept) /\ Reshapes(u, b, kept) /\ Reshapes(u, Faulty(b), kept)
        /\ b.fs = h
    <3>1. Reshapes(u, Faulty(a), kept) BY <2>2, ReshapesPut
    <3>0. Alike(u.fs, h, kept) BY <2>2
    <3>2. Reshapes(u, b, kept) BY <3>0, ReshapesPut
    <3>3. Reshapes(u, Faulty(b), kept) BY <3>0, ReshapesPut
    <3>4. b.fs = h BY DEF FilesOK, WithFiles
    <3> QED BY <3>1, <3>2, <3>3, <3>4
  <2> HIDE DEF a, b
  <2>4. CASE d \in Lost(u) \cup Lost(a) \cup Lost(b)
    <3>1. d.w \in {Faulty(u), Faulty(a), Faulty(b)} /\ d.res = "error" BY <2>4 DEF Lost, Ends
    <3> QED BY <1>1, <2>3, <3>1
  <2>5. CASE d \in Returns(b)
    <3>1. d.w = b /\ d.res = "returned" BY <2>5 DEF Returns, Ends
    <3>2. Tree(u.fs, p) \subseteq DOMAIN u.fs BY <1>3 DEF Tree, Below, Exists
    <3>3. d.w.fs = h /\ Reshapes(u, d.w, kept) BY <2>3, <3>1
    <3>4. \A q \in Tree(u.fs, p) : d.w.fs[q][field] = value BY <2>6, <3>2, <3>3
    <3> QED BY <1>3, <3>1, <3>3, <3>4 DEF Exists
  <2> QED BY <2>1, <2>4, <2>5
<1> QED BY <1>2, <1>3

\* The entries below a path are no links.
LEMMA BelowIs ==
  ASSUME NEW f, IsTree(f), NEW q \in Below(f, Dest)
  PROVE  /\ q \in DOMAIN f /\ q # Dest /\ ~IsLink(f, q) /\ Follow(f, q) = q
         /\ Stats(f, q)
BY Following, NodesAre, PlainPath DEF Below, IsLink, Exists

\* The fields of the declaration of a file step, by kind.
LEMMA FileIs ==
  ASSUME NEW c \in FileConfig
  PROVE  /\ c.kind \in FileKinds /\ c.mode \in Value /\ c.owner \in Value /\ c.checksum \in Value
         /\ c.source \in {"none", "local", "remote", "target"}
         /\ c.verify \in {"none", "command", "malformed"} /\ c.backup \in BOOLEAN
         /\ c.kind \in {"dir", "symlink"} => c.source = "none"
         /\ c.kind = "symlink" => c.mode = "none" /\ c.owner = "none"
         /\ c.kind \in {"copy", "template"} => c.source # "none"
         /\ c.kind = "unarchive" => c.source \in {"local", "remote"}
BY NoneIsValue DEF FileConfig, FileKinds

\* A file step, by its ops and its worlds.
LEMMA FilesAre ==
  ASSUME NEW c \in FileConfig
  PROVE  /\ Ops(c) = FileOps(c)
         /\ \A o : Deps(c, o) = FileDeps(c, o)
         /\ \A u : /\ IsWorld(c, u) <=> IsFileWorld(c, u)
                   /\ Desired(c, u) <=> FileDesired(c, u)
                   /\ Unseen(c, u) <=> FileUnseen(c, u)
                   /\ Stuck(c, u) <=> FileStuck(c, u)
                   /\ Target(c, u) = FileTarget(u)
                   /\ PlanStands(c, u)
         /\ \A o, u : /\ Check(c, o, u) = FileCheck(c, o, u)
                      /\ Execute(c, o, u) = FileExecute(c, o, u)
BY FileIs DEF Ops, Deps, IsWorld, Desired, Unseen, Stuck, Target, PlanStands, FileKinds, Check, Execute,
   HostKinds, CommandKinds

\* The ops of a file step: a download, the op that makes the file, and then
\* mode and owner.
LEMMA FileOpsAre ==
  ASSUME NEW c \in FileConfig
  PROVE  /\ MainOp(c) \in {"dir", "link", "content", "archive"}
         /\ MainOp(c) = "dir" <=> c.kind = "dir"
         /\ MainOp(c) = "link" <=> c.kind = "symlink"
         /\ MainOp(c) = "content" <=> c.kind \in {"copy", "template"}
         /\ MainOp(c) = "archive" <=> c.kind = "unarchive"
         /\ MainOp(c) \in Ops(c)
         /\ Ops(c) \subseteq {MainOp(c), "download", "mode", "owner"}
         /\ "download" \in Ops(c) <=> c.source = "remote"
         /\ "mode" \in Ops(c) <=> c.mode # "none"
         /\ "owner" \in Ops(c) <=> c.owner # "none"
         /\ ~Leads(c, "mode") /\ ~Leads(c, "owner")
         /\ Deps(c, "mode") = {MainOp(c)} /\ Deps(c, "owner") = {MainOp(c)}
         /\ Deps(c, "download") = {}
         /\ Deps(c, MainOp(c)) = Ops(c) \cap {"download"}
BY FilesAre, FileIs DEF MainOp, FileKinds, FileDeps, FileOps, Leads

\* What the ops of a file step are there for.
LEMMA FileSees ==
  ASSUME NEW c \in FileConfig
  PROVE  \A u : /\ SeesTo(c, "dir", u) <=> IsDir(u.fs, Dest)
                /\ SeesTo(c, "link", u) <=> LinkInPlace(u.fs)
                /\ SeesTo(c, "content", u) <=> HasContent(c, u)
                /\ SeesTo(c, "archive", u) <=> Marked(c, u)
                /\ SeesTo(c, "mode", u) <=> TreeHas(u.fs, Dest, Deep(c), "mode", c.mode)
                /\ SeesTo(c, "owner", u) <=> TreeHas(u.fs, Dest, Deep(c), "owner", c.owner)
                /\ SeesTo(c, "download", u) <=> HasCache(c, u)
BY DEF SeesTo, HasCache

----
\* The checks.

\* The check of the content of a file compares it with the source it can read.
LEMMA ContentLooked ==
  ASSUME NEW c \in FileConfig, c.kind \in {"copy", "template"}, NEW u,
         NEW out \in FileCheck(c, "content", u)
  PROVE  Tells(u, HasContent(c, u), out)
<1> DEFINE source == Source(c, u)
           content == IF c.kind = "copy" THEN source ELSE Rendered(source)
<1>1. out \in IF c.kind = "copy" THEN CheckCopy(c, u) ELSE CheckTemplate(c, u) BY DEF FileCheck
<1>2. \/ out \in Lost(u)
      \/ source = "none" /\ out \in SourceMissing(c, u)
      \/ source # "none" /\ out \in CheckDest(u, content)
  <2>1. CASE c.kind = "copy" BY <1>1, <2>1 DEF CheckCopy, Ask
  <2>2. CASE c.kind # "copy" BY <1>1, <2>2 DEF CheckTemplate, Ask
  <2> QED BY <2>1, <2>2
<1>3. source = "none" => content = "none" BY DEF Rendered
<1>4. HasContent(c, u) <=> content # "none" /\ Contents(u.fs, Dest) = content BY DEF HasContent
<1> HIDE DEF content, source
<1>5. CASE out \in Lost(u) BY <1>5 DEF Lost, Ends, Tells
<1>6. CASE source = "none" /\ out \in SourceMissing(c, u)
  <2>1. out.w = u /\ out.res \in {"unsatisfied", "error"} /\ ~HasContent(c, u)
    BY <1>3, <1>4, <1>6 DEF SourceMissing, Ends
  <2> QED BY <2>1 DEF Tells
<1>7. CASE source # "none" /\ out \in CheckDest(u, content)
  <2>1. \/ out \in Ends("error", u)
        \/ content # "none" /\ out \in Verdict(FALSE, Faulty(u))
        \/ content # "none" /\ Contents(u.fs, Dest) = content /\ out \in Verdict(TRUE, u)
        \/ content # "none" /\ Contents(u.fs, Dest) # content /\ out \in Verdict(FALSE, u)
    BY <1>7 DEF CheckDest, AskOr
  <2>2. \/ out.w = u /\ out.res = "error"
        \/ out.w = Faulty(u) /\ out.res = "unsatisfied"
        \/ content # "none" /\ Contents(u.fs, Dest) = content /\ out.w = u /\ out.res = "satisfied"
        \/ Contents(u.fs, Dest) # content /\ out.w = u /\ out.res = "unsatisfied"
    BY <2>1 DEF Verdict, Ends
  <2> QED BY <1>4, <2>2 DEF Tells
<1> QED BY <1>2, <1>5, <1>6, <1>7

\* The check of an unarchive looks for the marker of the archive.
LEMMA ArchiveLooked ==
  ASSUME NEW c \in FileConfig, NEW u, FilesOK(u), NEW out \in CheckArchive(c, u)
  PROVE  Tells(u, Marked(c, u), out)
<1>1. \/ Source(c, u) = "none" /\ out \in Ends("unsatisfied", u) \cup Ends("error", u)
      \/ /\ Source(c, u) # "none"
         /\ \/ out \in Verdict(FALSE, Faulty(u))
            \/ ~IsFile(u.fs, Marker) /\ out \in Verdict(FALSE, u)
            \/ out \in Ends("panic", u)
            \/ out \in Verdict(Contents(u.fs, Marker) = Source(c, u), u)
  BY DEF CheckArchive, AskOr
<1>2. CASE Source(c, u) = "none" /\ out \in Ends("unsatisfied", u) \cup Ends("error", u)
  <2>1. out.w = u /\ out.res \in {"unsatisfied", "error"} /\ ~Marked(c, u) BY <1>2 DEF Ends, Marked
  <2> QED BY <2>1 DEF Tells
<1>3. CASE Source(c, u) # "none"
  <2>2. ~IsFile(u.fs, Marker) => Contents(u.fs, Marker) = "none" BY DEF Contents
  <2>4. \/ out.w = Faulty(u) /\ out.res = "unsatisfied"
        \/ out.w = u /\ out.res = "unsatisfied" /\ Contents(u.fs, Marker) # Source(c, u)
        \/ out.w = u /\ out.res = "panic"
        \/ out.w = u /\ out.res = "satisfied" /\ Contents(u.fs, Marker) = Source(c, u)
    BY <1>1, <1>3, <2>2 DEF Verdict, Ends
  <2> QED BY <1>3, <2>4 DEF Tells, Marked
<1> QED BY <1>1, <1>2, <1>3

\* The checks of a file step tell what is so.
LEMMA FileTells ==
  ASSUME NEW c \in Config, c \in FileConfig, NEW o \in Ops(c), NEW u, IsWorld(c, u),
         NEW out \in Check(c, o, u)
  PROVE  Tells(u, SeesTo(c, o, u), out)
<1>a. FilesOK(u) BY FilesAre, FileWorldIs
<1>b. out \in FileCheck(c, o, u) /\ o \in {"dir", "link", "content", "archive", "download", "mode", "owner"}
      /\ (o = "content" => c.kind \in {"copy", "template"})
  BY FilesAre, FileOpsAre
<1>1. CASE o = "dir"
  <2>1. out \in CheckDir(u) /\ (SeesTo(c, o, u) <=> IsDir(u.fs, Dest))
    BY <1>b, <1>1, FileSees DEF FileCheck
  <2>2. out \in Lost(u) \/ out \in Verdict(IsDir(u.fs, Dest), u) BY <2>1 DEF CheckDir, Ask
  <2> QED BY <2>1, <2>2 DEF Lost, Ends, Verdict, Tells
<1>2. CASE o = "link"
  <2>1. out \in CheckLink(u) /\ (SeesTo(c, o, u) <=> LinkInPlace(u.fs))
    BY <1>b, <1>2, FileSees DEF FileCheck
  <2>2. out \in Lost(u) \/ out \in Ends("error", u) \/ out \in Verdict(LinkInPlace(u.fs), u)
    BY <2>1 DEF CheckLink, Ask
  <2> QED BY <2>1, <2>2 DEF Lost, Ends, Verdict, Tells
<1>3. CASE o = "content"
  <2>1. SeesTo(c, o, u) <=> HasContent(c, u) BY <1>3, FileSees
  <2>2. Tells(u, HasContent(c, u), out) BY <1>b, <1>3, ContentLooked
  <2> QED BY <2>1, <2>2 DEF Tells
<1>4. CASE o = "archive"
  <2>1. out \in CheckArchive(c, u) /\ (SeesTo(c, o, u) <=> Marked(c, u))
    BY <1>b, <1>4, FileSees DEF FileCheck
  <2>2. Tells(u, Marked(c, u), out) BY <1>a, <2>1, ArchiveLooked
  <2> QED BY <2>1, <2>2 DEF Tells
<1>5. CASE o = "download"
  <2>1. out \in CheckDownload(c, u) /\ (SeesTo(c, o, u) <=> HasCache(c, u))
    BY <1>b, <1>5, FileSees DEF FileCheck
  <2> QED BY <2>1, DownloadLooked DEF Tells
<1>6. CASE o = "mode"
  <2> DEFINE so == TreeHas(u.fs, Dest, Deep(c), "mode", c.mode)
  <2>1. out \in CheckMode(u, Dest, c.mode, Deep(c)) /\ (SeesTo(c, o, u) <=> so)
    BY <1>b, <1>6, FileSees DEF FileCheck
  <2>2. out \in Lost(u) \/ out \in Verdict(so, u) BY <2>1 DEF CheckMode, Ask
  <2> HIDE DEF so
  <2> QED BY <2>1, <2>2 DEF Lost, Ends, Verdict, Tells
<1>7. CASE o = "owner"
  <2> DEFINE so == TreeHas(u.fs, Dest, Deep(c), "owner", c.owner)
  <2>1. out \in CheckOwner(u, Dest, c.owner, Deep(c)) /\ (SeesTo(c, o, u) <=> so)
    BY <1>b, <1>7, FileSees DEF FileCheck
  <2>2. out \in Lost(u) \/ out \in Ends("error", u) \/ out \in Verdict(so, u)
    BY <2>1 DEF CheckOwner, Ask
  <2> HIDE DEF so
  <2> QED BY <2>1, <2>2 DEF Lost, Ends, Verdict, Tells
<1> QED BY <1>b, <1>1, <1>2, <1>3, <1>4, <1>5, <1>6, <1>7

\* So they only look.
LEMMA FileLooked ==
  ASSUME NEW c \in Config, c \in FileConfig, NEW o \in Ops(c), NEW u, IsWorld(c, u),
         NEW out \in Check(c, o, u)
  PROVE  Looked(c, o, u, out)
<1>1. Faulty(u).fault = TRUE BY FilesAre, FileWorldIs, KeepsFaulty
<1> QED BY <1>1, FileTells DEF Looked, Tells

\* Setting the mode or the owner that is there changes nothing.
LEMMA SameModeSet ==
  ASSUME NEW f, IsTree(f), NEW p, Follow(f, p) \in DOMAIN f
  PROVE  /\ WithMode(f, p, f[Follow(f, p)].mode) = f
         /\ WithOwner(f, p, f[Follow(f, p)].owner) = f
<1> DEFINE q == Follow(f, p)
<1>1. f[q] \in NodeRecord /\ f = [x \in DOMAIN f |-> f[x]] BY NodesAre DEF IsTree
<1>2. [f[q] EXCEPT !.mode = f[q].mode] = f[q] /\ [f[q] EXCEPT !.owner = f[q].owner] = f[q]
  BY <1>1 DEF NodeRecord
<1> HIDE DEF q
<1>3. [f EXCEPT ![q].mode = f[q].mode] = f /\ [f EXCEPT ![q].owner = f[q].owner] = f BY <1>1, <1>2
<1> QED BY <1>3 DEF WithMode, WithOwner, q

\* Where stat answers, there is something at the end of the link.
LEMMA DestStats ==
  ASSUME NEW f, IsTree(f), Stats(f, Dest)
  PROVE  Follow(f, Dest) \in DOMAIN f
<1>1. Dest # <<>> BY PathsDiffer
<1> QED BY <1>1 DEF Stats, IsDir, IsFile, Exists

\* The whole tree, or the file itself, when the recursive call has come back.
LEMMA TreeIsSet ==
  ASSUME NEW f, IsTree(f), NEW g, SameShape(f, g), ~IsLink(f, Dest), Dest \in DOMAIN f,
         NEW field \in {"mode", "owner"}, NEW value, \A q \in Tree(f, Dest) : g[q][field] = value
  PROVE  TreeHas(g, Dest, TRUE, field, value)
<1>1. IsTree(g) /\ Below(g, Dest) = Below(f, Dest) /\ ~IsLink(g, Dest) /\ DOMAIN g = DOMAIN f
  BY SameShapeIsTree, SameShapeIsSame
<1>2. Follow(g, Dest) = Dest /\ g[Dest].kind \in {"file", "dir"}
  BY <1>1, NodesAre DEF IsLink, Follow, Exists
<1>3. Stats(g, Dest) /\ g[Follow(g, Dest)][field] = value
  <2>1. Stats(g, Dest) BY <1>1, <1>2, PlainPath
  <2>2. g[Dest][field] = value BY DEF Tree
  <2> QED BY <1>2, <2>1, <2>2
<1>4. ASSUME NEW q \in Below(g, Dest)
      PROVE  Stats(g, q) /\ g[Follow(g, q)][field] = value
  <2>1. Follow(g, q) = q /\ Stats(g, q) BY <1>1, BelowIs
  <2>2. g[q][field] = value BY <1>1 DEF Tree
  <2> QED BY <2>1, <2>2
<1> QED BY <1>3, <1>4 DEF TreeHas

\* A recursive chmod or chown that came back has set the whole tree.
LEMMA TreeSets ==
  ASSUME NEW u, FilesOK(u), ~IsLink(u.fs, Dest), NEW value \in Value,
         NEW field \in {"mode", "owner"}, NEW kept \in {"mode", "owner"}, field # kept,
         NEW out \in SetTree(u, field, value)
  PROVE  Sets(u, field, kept, value, TRUE, out)
<1>1. PICK d \in SetRecursive(u, Dest, field, value) :
         \/ out = d /\ d.res # "returned"
         \/ d.res = "returned" /\ out \in Done(d.w)
  BY DEF SetTree, Then
<1>2. /\ Reshapes(u, d.w, kept) /\ d.res \in {"returned", "error"}
      /\ d.res = "returned" => /\ Dest \in DOMAIN u.fs
                               /\ \A q \in Tree(u.fs, Dest) : d.w.fs[q][field] = value
  BY TreeSet
<1>3. CASE d.res = "returned"
  <2>1. out.w = d.w /\ out.res = "changed" BY <1>1, <1>3 DEF Done, Ends
  <2>2. IsTree(u.fs) /\ SameShape(u.fs, d.w.fs) BY <1>2 DEF FilesOK, Reshapes, Alike
  <2>3. TreeHas(d.w.fs, Dest, TRUE, field, value) BY <1>2, <1>3, <2>2, TreeIsSet
  <2> QED BY <1>2, <2>1, <2>3 DEF Sets
<1>4. CASE d.res # "returned"
  <2>1. out = d /\ d.res = "error" BY <1>1, <1>2, <1>4
  <2> QED BY <1>2, <2>1 DEF Sets
<1> QED BY <1>3, <1>4

\* The mode op: after a success the mode is as declared, of the whole tree for
\* a recursive one, and Unchanged is the truth (ensure_mode_op.go).
LEMMA ModeExecuted ==
  ASSUME NEW u, FilesOK(u), NEW mode \in Value, NEW deep \in BOOLEAN, deep => ~IsLink(u.fs, Dest),
         NEW out \in ExecuteMode(u, Dest, mode, deep)
  PROVE  Sets(u, "mode", "owner", mode, deep, out)
<1>1. CASE deep
  <2>1. out \in SetTree(u, "mode", mode) BY <1>1 DEF ExecuteMode, ChmodRecursive, SetTree
  <2> QED BY <1>1, <2>1, TreeSets
<1>2. CASE ~deep
  <2> DEFINE q == Follow(u.fs, Dest)
             g == WithMode(u.fs, Dest, mode)
             v == WithFiles(u, g)
             how == IF u.fs[q].mode # mode THEN "changed" ELSE "unchanged"
  <2>1. IsTree(u.fs) BY DEF FilesOK
  <2>2. \/ ~Stats(u.fs, Dest) /\ out \in Ends("panic", u)
        \/ Stats(u.fs, Dest) /\ out \in Lost(u) \cup Lost(v) \cup Ends(how, v)
    BY <1>2 DEF ExecuteMode, Ask, Chmod, Call, Then, Returns, Lost, Ends
  <2>3. /\ Reshapes(u, u, "owner") /\ Reshapes(u, Faulty(u), "owner") BY ReshapesSelf
  <2>4. CASE ~Stats(u.fs, Dest) /\ out \in Ends("panic", u)
    <3>1. out.w = u /\ out.res = "panic" BY <2>4 DEF Ends
    <3> QED BY <2>3, <3>1 DEF Sets
  <2>5. CASE Stats(u.fs, Dest) /\ out \in Lost(u) \cup Lost(v) \cup Ends(how, v)
    <3>1. q \in DOMAIN u.fs BY <2>1, <2>5, DestStats
    <3>2. Alike(u.fs, g, "owner") /\ SameShape(u.fs, g) /\ g[q].mode = mode BY <2>1, <3>1, ModeSet
    <3>3. how \in {"changed", "unchanged"} /\ (how = "unchanged" => g = u.fs)
      BY <2>1, <3>1, SameModeSet
    <3>4. Stats(g, Dest) /\ Follow(g, Dest) = q BY <2>5, <3>2, SameShapeIsSame
    <3> HIDE DEF q, g, how
    <3>5. Reshapes(u, v, "owner") /\ v.fs = g /\ Reshapes(u, Faulty(v), "owner")
      <4>1. v.fs = g BY DEF FilesOK, WithFiles
      <4>2. Reshapes(u, v, "owner") BY <3>2, ReshapesPut
      <4>3. Reshapes(u, Faulty(v), "owner") BY <3>2, ReshapesPut
      <4> QED BY <4>1, <4>2, <4>3
    <3> HIDE DEF v
    <3>6. TreeHas(g, Dest, deep, "mode", mode) BY <1>2, <3>2, <3>4 DEF TreeHas
    <3>7. \/ out.w \in {Faulty(u), Faulty(v)} /\ out.res = "error"
          \/ out.w = v /\ out.res = how
      BY <2>5 DEF Lost, Ends
    <3> QED BY <2>3, <3>3, <3>5, <3>6, <3>7 DEF Sets
  <2> QED BY <2>2, <2>4, <2>5
<1> QED BY <1>1, <1>2

\* The owner op: after a success the owner is as declared, and Unchanged is
\* the truth (ensure_owner_op.go).
LEMMA OwnerExecuted ==
  ASSUME NEW u, FilesOK(u), NEW owner \in Value, NEW deep \in BOOLEAN, deep => ~IsLink(u.fs, Dest),
         NEW out \in ExecuteOwner(u, Dest, owner, deep)
  PROVE  Sets(u, "owner", "mode", owner, deep, out)
<1>0. /\ Reshapes(u, u, "mode") /\ Reshapes(u, Faulty(u), "mode") BY ReshapesSelf
<1>1. CASE deep
  <2>1. \/ out \in Then(Ends("error", u), Done)
        \/ out \in SetTree(u, "owner", owner)
    BY <1>1 DEF ExecuteOwner, ChownRecursive, SetTree
  <2>2. CASE out \in Then(Ends("error", u), Done)
    <3>1. out.w = u /\ out.res = "error" BY <2>2 DEF Then, Ends
    <3> QED BY <1>0, <3>1 DEF Sets
  <2> QED BY <1>1, <2>1, <2>2, TreeSets
<1>2. CASE ~deep
  <2> DEFINE q == Follow(u.fs, Dest)
             g == WithOwner(u.fs, Dest, owner)
             v == WithFiles(u, g)
             how == IF u.fs[q].owner # owner THEN "changed" ELSE "unchanged"
  <2>1. IsTree(u.fs) BY DEF FilesOK
  <2>2. \/ ~Stats(u.fs, Dest) /\ out \in Ends("panic", u)
        \/ out \in Ends("error", u)
        \/ Stats(u.fs, Dest) /\ out \in Lost(u) \cup Lost(v) \cup Ends(how, v)
    BY <1>2 DEF ExecuteOwner, Ask, Chown, Call, Then, Returns, Lost, Ends
  <2>4. CASE out \in Ends("panic", u) \cup Ends("error", u)
    <3>1. out.w = u /\ out.res \in {"panic", "error"} BY <2>4 DEF Ends
    <3> QED BY <1>0, <3>1 DEF Sets
  <2>5. CASE Stats(u.fs, Dest) /\ out \in Lost(u) \cup Lost(v) \cup Ends(how, v)
    <3>1. q \in DOMAIN u.fs BY <2>1, <2>5, DestStats
    <3>2. Alike(u.fs, g, "mode") /\ SameShape(u.fs, g) /\ g[q].owner = owner BY <2>1, <3>1, OwnerSet
    <3>3. how \in {"changed", "unchanged"} /\ (how = "unchanged" => g = u.fs)
      BY <2>1, <3>1, SameModeSet
    <3>4. Stats(g, Dest) /\ Follow(g, Dest) = q BY <2>5, <3>2, SameShapeIsSame
    <3> HIDE DEF q, g, how
    <3>5. Reshapes(u, v, "mode") /\ v.fs = g /\ Reshapes(u, Faulty(v), "mode")
      <4>1. v.fs = g BY DEF FilesOK, WithFiles
      <4>2. Reshapes(u, v, "mode") BY <3>2, ReshapesPut
      <4>3. Reshapes(u, Faulty(v), "mode") BY <3>2, ReshapesPut
      <4> QED BY <4>1, <4>2, <4>3
    <3> HIDE DEF v
    <3>6. TreeHas(g, Dest, deep, "owner", owner) BY <1>2, <3>2, <3>4 DEF TreeHas
    <3>7. \/ out.w \in {Faulty(u), Faulty(v)} /\ out.res = "error"
          \/ out.w = v /\ out.res = how
      BY <2>5 DEF Lost, Ends
    <3> QED BY <1>0, <3>3, <3>5, <3>6, <3>7 DEF Sets
  <2> QED BY <2>2, <2>4, <2>5
<1> QED BY <1>1, <1>2

\* What the ops see to does not depend on what others set.
LEMMA ReshapedSees ==
  ASSUME NEW c \in FileConfig, NEW u, NEW v, NEW kept, Reshapes(u, v, kept), FilesOK(u),
         c.kind = "unarchive" => IsUnpacked(u.fs)
  PROVE  /\ IsWorld(c, v)
         /\ SeesTo(c, "dir", v) <=> SeesTo(c, "dir", u)
         /\ SeesTo(c, "link", v) <=> SeesTo(c, "link", u)
         /\ SeesTo(c, "content", v) <=> SeesTo(c, "content", u)
         /\ SeesTo(c, "archive", v) <=> SeesTo(c, "archive", u)
         /\ SeesTo(c, "download", v) <=> SeesTo(c, "download", u)
         /\ kept = "mode" => (SeesTo(c, "mode", v) <=> SeesTo(c, "mode", u))
         /\ kept = "owner" => (SeesTo(c, "owner", v) <=> SeesTo(c, "owner", u))
<1> DEFINE f == u.fs
           g == v.fs
<1>1. SameShape(f, g) /\ SameHost(u, v) /\ FilesOK(v) /\ IsTree(f) /\ Alike(f, g, kept)
  BY DEF Reshapes, Alike, FilesOK
<1>2. IsUnpacked(f) => IsUnpacked(g) BY <1>1, SameShapeIsUnpacked
<1>3. IsWorld(c, v) BY <1>1, <1>2, FilesAre, FileWorldIs
<1>4. \A p : /\ DOMAIN g = DOMAIN f /\ Follow(g, p) = Follow(f, p) /\ Contents(g, p) = Contents(f, p)
             /\ (IsDir(g, p) <=> IsDir(f, p)) /\ (IsLink(g, p) <=> IsLink(f, p))
             /\ (Stats(g, p) <=> Stats(f, p)) /\ Below(g, p) = Below(f, p)
  BY <1>1, SameShapeIsSame
<1>5. LinkInPlace(g) <=> LinkInPlace(f) BY <1>1, <1>4 DEF LinkInPlace, SameShape, IsLink, Exists
<1>6. Source(c, v) = Source(c, u) BY <1>1, <1>4 DEF Source, SameHost
<1>7. (HasContent(c, v) <=> HasContent(c, u)) /\ (Marked(c, v) <=> Marked(c, u))
  BY <1>4, <1>6 DEF HasContent, Marked
<1>8. HasCache(c, v) <=> HasCache(c, u) BY <1>1 DEF HasCache, SameHost
<1>9. ASSUME NEW deep, NEW value
      PROVE  TreeHas(g, Dest, deep, kept, value) <=> TreeHas(f, Dest, deep, kept, value)
  <2>1. Follow(f, Dest) \in DOMAIN f => g[Follow(f, Dest)][kept] = f[Follow(f, Dest)][kept]
    BY <1>1 DEF Alike
  <2>2. Stats(f, Dest) => Follow(f, Dest) \in DOMAIN f BY <1>1, DestStats
  <2>3. \A q \in Below(f, Dest) : Follow(f, q) = q /\ g[q][kept] = f[q][kept]
    BY <1>1, BelowIs DEF Alike
  <2> QED BY <1>4, <2>1, <2>2, <2>3 DEF TreeHas
<1> HIDE DEF f, g
<1>10. kept = "mode" => (SeesTo(c, "mode", v) <=> SeesTo(c, "mode", u)) BY <1>9, FileSees DEF f, g
<1>11. kept = "owner" => (SeesTo(c, "owner", v) <=> SeesTo(c, "owner", u))
  BY <1>9, FileSees DEF f, g
<1> QED BY <1>3, <1>4, <1>5, <1>7, <1>8, <1>10, <1>11, FileSees DEF f, g

\* Making Dest a directory: it is there after a success.
LEMMA DirMakes ==
  ASSUME NEW u, FilesOK(u), NEW out \in MadeDir(u)
  PROVE  Lands(u, out) /\ out.res \in {"changed", "error"}
         /\ (out.res = "changed" => IsDir(out.w.fs, Dest))
<1>1. PICK d \in Mkdir(u, Dest, "0755") :
         \/ out = d /\ d.res # "returned"
         \/ d.res = "returned" /\ out \in Done(d.w)
  BY DEF MadeDir, Then
<1>2. "0755" \in Value BY Words
<1>3. Makes(u, Dest, d) BY <1>2, DirectoryMade
<1>4. /\ FilesOK(d.w) /\ (u.fault => d.w.fault) /\ SameHost(u, d.w)
      /\ d.res \in {"returned", "error"}
      /\ d.res = "returned" => IsDir(d.w.fs, Dest)
  BY <1>3 DEF Makes, Keeps
<1>5. CASE d.res = "returned"
  <2>1. out.w = d.w /\ out.res = "changed" BY <1>1, <1>5 DEF Done, Ends
  <2> QED BY <1>4, <1>5, <2>1 DEF Lands
<1>6. CASE d.res # "returned" BY <1>1, <1>4, <1>6 DEF Lands
<1> QED BY <1>5, <1>6

\* An op that ends at once keeps all.
LEMMA LandsSelf ==
  ASSUME NEW u, FilesOK(u), NEW out, out.w \in {u, Faulty(u)},
         out.res \in {"changed", "unchanged", "error", "panic"}
  PROVE  Lands(u, out)
<1>1. /\ FilesOK(Faulty(u)) /\ SameHost(u, Faulty(u)) /\ SameHost(u, u) /\ Faulty(u).fault = TRUE
      /\ Faulty(u).fs = u.fs
  BY KeepsFaulty DEF SameHost
<1>2. CASE out.w = u BY <1>1, <1>2 DEF Lands
<1>3. CASE out.w = Faulty(u) BY <1>1, <1>3 DEF Lands
<1> QED BY <1>2, <1>3

\* An op that goes on after its first part.
LEMMA LandsThen ==
  ASSUME NEW u, NEW v, NEW A, Keeps(u, v, A), NEW out, Lands(v, out), out.res # "unchanged"
  PROVE  Lands(u, out)
<1>1. SameHost(u, out.w) BY DEF Keeps, Lands, SameHost
<1> QED BY <1>1 DEF Keeps, Lands

\* The dir op: after a success Dest is a directory (ensure_dir_op.go).
LEMMA DirExecuted ==
  ASSUME NEW u, FilesOK(u), NEW out \in ExecuteDir(u)
  PROVE  /\ Lands(u, out)
         /\ out.res \in {"changed", "unchanged"} => IsDir(out.w.fs, Dest)
<1>1. \/ out \in Lost(u)
      \/ IsDir(u.fs, Dest) /\ out \in Ends("unchanged", u)
      \/ out \in Then(Remove(u, Dest), MadeDir)
      \/ out \in MadeDir(u)
  BY DEF ExecuteDir, Unless, Ask, MadeDir
<1>2. CASE out \in Lost(u)
  <2>1. out.w = Faulty(u) /\ out.res = "error" BY <1>2 DEF Lost, Ends
  <2> QED BY <2>1, LandsSelf
<1>3. CASE IsDir(u.fs, Dest) /\ out \in Ends("unchanged", u)
  <2>1. out.w = u /\ out.res = "unchanged" BY <1>3 DEF Ends
  <2> QED BY <1>3, <2>1, LandsSelf
<1>4. CASE out \in Then(Remove(u, Dest), MadeDir)
  <2>1. PICK d \in Remove(u, Dest) :
           \/ out = d /\ d.res # "returned"
           \/ d.res = "returned" /\ out \in MadeDir(d.w)
    BY <1>4 DEF Then
  <2>2. Keeps(u, d.w, {Dest}) /\ d.res \in {"returned", "error"} BY EntryRemoved DEF Removes
  <2>3. FilesOK(d.w) /\ (u.fault => d.w.fault) /\ SameHost(u, d.w) BY <2>2 DEF Keeps
  <2>4. CASE d.res = "returned"
    <3>1. Lands(d.w, out) /\ out.res \in {"changed", "error"}
          /\ (out.res = "changed" => IsDir(out.w.fs, Dest))
      BY <2>1, <2>3, <2>4, DirMakes
    <3>2. Lands(u, out) BY <2>2, <3>1, LandsThen
    <3> QED BY <3>1, <3>2
  <2>5. CASE d.res # "returned" BY <2>1, <2>2, <2>3, <2>5 DEF Lands
  <2> QED BY <2>4, <2>5
<1>5. CASE out \in MadeDir(u) BY <1>5, DirMakes
<1> QED BY <1>1, <1>2, <1>3, <1>4, <1>5

----

\* Where the way is free, the link can be put there.
LEMMA LinkPut ==
  ASSUME NEW f, IsTree(f), ~Exists(f, Dest), IsDir(f, Parent(Dest))
  PROVE  LET g == Put(f, Dest, NewLink(Other)) IN IsTree(g) /\ LinkInPlace(g)
<1>1. NewLink(Other) \in NodeRecord /\ NewLink(Other).kind = "link" /\ NewLink(Other).to = Other
  <2>1. "" \in Value /\ "0777" \in Value /\ "root" \in Value BY Words
  <2> QED BY <2>1 DEF NewLink, Node, NodeRecord
<1>2. Dest \in Written /\ Dest \notin {Main, More} BY PathsDiffer DEF Written
<1>3. Dest # <<>> /\ \A x \in Prefixes(Dest) \ {Dest} : x \in DOMAIN f /\ f[x].kind = "dir"
  BY <1>2, PathReady
<1>4. IsTree(Put(f, Dest, NewLink(Other))) BY <1>1, <1>3, TreePut DEF Exists
<1>5. LinkInPlace(Put(f, Dest, NewLink(Other)))
  <2> DEFINE g == Put(f, Dest, NewLink(Other))
  <2>1. Dest \in DOMAIN g /\ g[Dest] = NewLink(Other) BY DEF Put
  <2> HIDE DEF g
  <2>2. LinkInPlace(g) BY <1>1, <2>1 DEF LinkInPlace, IsLink, Exists
  <2> QED BY <2>2 DEF g
<1> QED BY <1>4, <1>5

\* Making the link: it is in place after a success.
LEMMA LinkMakes ==
  ASSUME NEW u, FilesOK(u), NEW out \in MadeLink(u)
  PROVE  Lands(u, out) /\ out.res \in {"changed", "error"}
         /\ (out.res = "changed" => LinkInPlace(out.w.fs))
<1> DEFINE g == Put(u.fs, Dest, NewLink(Other))
           v == WithFiles(u, g)
<1>1. PICK d \in Symlink(u, Other, Dest) :
         \/ out = d /\ d.res # "returned"
         \/ d.res = "returned" /\ out \in Done(d.w)
  BY DEF MadeLink, Then
<1>2. \/ d \in Ends("error", u)
      \/ ~Exists(u.fs, Dest) /\ IsDir(u.fs, Parent(Dest)) /\ d \in Lost(u) \cup Lost(v) \cup Returns(v)
  BY DEF Symlink, Call
<1>3. CASE d \in Ends("error", u) \cup Lost(u)
  <2>1. d.w \in {u, Faulty(u)} /\ d.res = "error" BY <1>3 DEF Ends, Lost
  <2>2. out = d BY <1>1, <2>1
  <2> QED BY <2>1, <2>2, LandsSelf
<1>4. CASE ~Exists(u.fs, Dest) /\ IsDir(u.fs, Parent(Dest)) /\ d \in Lost(v) \cup Returns(v)
  <2>1. IsTree(g) /\ LinkInPlace(g) BY <1>4, LinkPut DEF FilesOK
  <2> HIDE DEF g
  <2>2. v.fs = g /\ v.fault = u.fault /\ FilesOK(v) /\ SameHost(u, v) BY <2>1, KeepsPut
  <2> HIDE DEF v
  <2>3. Faulty(v).fault = TRUE /\ FilesOK(Faulty(v)) /\ SameHost(v, Faulty(v)) BY <2>2, KeepsFaulty
  <2>4. SameHost(u, Faulty(v)) BY <2>2, <2>3 DEF SameHost
  <2>5. \/ d.w = Faulty(v) /\ d.res = "error"
        \/ d.w = v /\ d.res = "returned"
    BY <1>4 DEF Lost, Ends, Returns
  <2>6. \/ out.w = Faulty(v) /\ out.res = "error"
        \/ out.w = v /\ out.res = "changed"
    BY <1>1, <2>5 DEF Done, Ends
  <2> QED BY <2>1, <2>2, <2>3, <2>4, <2>6 DEF Lands
<1> QED BY <1>2, <1>3, <1>4

\* The symlink op: after a success without a failed call the link is in place
\* (ensure_symlink_op.go).
LEMMA LinkExecuted ==
  ASSUME NEW u, FilesOK(u), NEW out \in ExecuteLink(u)
  PROVE  /\ Lands(u, out)
         /\ out.res \in {"changed", "unchanged"} /\ ~out.w.fault => LinkInPlace(out.w.fs)
<1>1. \/ out \in MadeLink(Faulty(u))
      \/ LinkInPlace(u.fs) /\ out \in Ends("unchanged", u)
      \/ out \in Then(Remove(u, Dest), MadeLink)
      \/ out \in MadeLink(u)
  BY DEF ExecuteLink, AskOr, MadeLink
<1>2. CASE out \in MadeLink(Faulty(u))
  <2>1. Keeps(u, Faulty(u), {}) /\ FilesOK(Faulty(u)) BY KeepsFaulty
  <2>2. Lands(Faulty(u), out) /\ out.res \in {"changed", "error"}
        /\ (out.res = "changed" => LinkInPlace(out.w.fs))
    BY <1>2, <2>1, LinkMakes
  <2> QED BY <2>1, <2>2, LandsThen
<1>3. CASE LinkInPlace(u.fs) /\ out \in Ends("unchanged", u)
  <2>1. out.w = u /\ out.res = "unchanged" BY <1>3 DEF Ends
  <2> QED BY <1>3, <2>1, LandsSelf
<1>4. CASE out \in Then(Remove(u, Dest), MadeLink)
  <2>1. PICK d \in Remove(u, Dest) :
           \/ out = d /\ d.res # "returned"
           \/ d.res = "returned" /\ out \in MadeLink(d.w)
    BY <1>4 DEF Then
  <2>2. Keeps(u, d.w, {Dest}) /\ d.res \in {"returned", "error"} BY EntryRemoved DEF Removes
  <2>3. FilesOK(d.w) /\ (u.fault => d.w.fault) /\ SameHost(u, d.w) BY <2>2 DEF Keeps
  <2>4. CASE d.res = "returned"
    <3>1. Lands(d.w, out) /\ out.res \in {"changed", "error"}
          /\ (out.res = "changed" => LinkInPlace(out.w.fs))
      BY <2>1, <2>3, <2>4, LinkMakes
    <3>2. Lands(u, out) BY <2>2, <3>1, LandsThen
    <3> QED BY <3>1, <3>2
  <2>5. CASE d.res # "returned" BY <2>1, <2>2, <2>3, <2>5 DEF Lands
  <2> QED BY <2>4, <2>5
<1>5. CASE out \in MadeLink(u) BY <1>5, LinkMakes
<1> QED BY <1>1, <1>2, <1>3, <1>4, <1>5

\* A download touches the cache and its ETag alone.
LEMMA CopiedIs ==
  ASSUME NEW u, FilesOK(u), NEW v \in {CutCopy(u), Copied(u), Labelled(u)}
  PROVE  FilesOK(v) /\ v.fs = u.fs /\ v.fault = u.fault /\ v.clock = u.clock
         /\ v.cache \in {"cut", u.remote}
<1>1. /\ v.fs = u.fs /\ v.fault = u.fault /\ v.clock = u.clock /\ v.cache \in {"cut", u.remote}
  <2>1. CASE v = CutCopy(u) BY <2>1 DEF FilesOK, CutCopy
  <2>2. CASE v = Copied(u) BY <2>2 DEF FilesOK, Copied
  <2>3. CASE v = Labelled(u) BY <2>3 DEF FilesOK, Copied, Labelled
  <2> QED BY <2>1, <2>2, <2>3
<1>2. v \in [fault: BOOLEAN, fs: {u.fs}, users: SUBSET Value, tool: BOOLEAN, clock: 0 .. 2,
              source: Value, remote: Value \ {"none"}, cache: Value, meta: Value]
  BY Words DEF FilesOK, CutCopy, Copied, Labelled
<1>3. FilesOK(v) BY <1>1, <1>2 DEF FilesOK
<1> QED BY <1>1, <1>3

\* A download of a copy touches the cache alone, and what enters the cache has
\* the declared checksum, as far as it gets.
LEMMA CopyFetched ==
  ASSUME NEW c \in FileConfig, NEW u, FilesOK(u), NEW out \in ExecuteDownload(c, u)
  PROVE  Fetches(c, u, out)
<1>1. \/ out.res = "unchanged" /\ out.w = u /\ c.checksum # "none" /\ u.cache = c.checksum
      \/ out.res = "error" /\ out.w \in {u, Faulty(u)}
      \/ Downloaded(u, out) /\ c.checksum \in {"none", u.remote}
  BY DownloadExecuted
<1>2. \A x : FilesOK(x) => /\ FilesOK(Faulty(x)) /\ Faulty(x).fs = x.fs
                           /\ Faulty(x).cache = x.cache /\ Faulty(x).fault = TRUE
                           /\ Faulty(x).clock = x.clock
  BY KeepsFaulty DEF SameHost
<1>3. CASE out.res = "unchanged" /\ out.w = u /\ c.checksum # "none" /\ u.cache = c.checksum
  BY <1>3 DEF Fetches, HasCache
<1>4. CASE out.res = "error" /\ out.w \in {u, Faulty(u)} BY <1>2, <1>4 DEF Fetches
<1>5. CASE Downloaded(u, out) /\ c.checksum \in {"none", u.remote}
  <2>1. \A x \in {Faulty(CutCopy(u)), Faulty(Copied(u))} :
           /\ FilesOK(x) /\ x.fs = u.fs /\ x.fault = TRUE /\ x.clock = u.clock
           /\ x.cache \in {"cut", u.remote}
    <3>1. \A x \in {CutCopy(u), Copied(u)} :
             FilesOK(x) /\ x.fs = u.fs /\ x.clock = u.clock /\ x.cache \in {"cut", u.remote}
      BY CopiedIs
    <3> QED BY <1>2, <3>1
  <2>2. CASE out.w \in {Faulty(CutCopy(u)), Faulty(Copied(u))}
    BY <1>5, <2>1, <2>2 DEF Fetches, Downloaded
  <2>3. CASE out.w = Labelled(u)
    <3>1. FilesOK(out.w) /\ out.w.fs = u.fs /\ out.w.fault = u.fault /\ out.w.clock = u.clock
      BY <2>3, CopiedIs
    <3>2. /\ out.w.cache = u.remote /\ out.w.meta = u.remote /\ out.w.remote = u.remote
          /\ u.remote # "none"
      BY <2>3 DEF Labelled, Copied, FilesOK
    <3>3. HasCache(c, out.w) BY <1>5, <3>1, <3>2 DEF HasCache
    <3> QED BY <1>5, <3>1, <3>2, <3>3 DEF Fetches, Downloaded
  <2> QED BY <1>5, <2>2, <2>3 DEF Downloaded
<1> QED BY <1>1, <1>3, <1>4, <1>5

\* Paths that were not touched lead where they led.
LEMMA BesideIsSame ==
  ASSUME NEW f, NEW g, NEW A, Beside(f, g, A), NEW p, p \notin A
  PROVE  /\ Follow(g, p) = Follow(f, p)
         /\ IsLink(g, p) <=> IsLink(f, p)
         /\ Follow(f, p) \notin A => /\ Contents(g, p) = Contents(f, p)
                                     /\ IsFile(g, p) <=> IsFile(f, p)
                                     /\ IsDir(g, p) <=> IsDir(f, p)
<1>1. Follow(g, p) = Follow(f, p) /\ (IsLink(g, p) <=> IsLink(f, p))
  BY DEF Beside, Follow, IsLink, Exists
<1>2. ASSUME Follow(f, p) \notin A
      PROVE  /\ Contents(g, p) = Contents(f, p)
             /\ IsFile(g, p) <=> IsFile(f, p)
             /\ IsDir(g, p) <=> IsDir(f, p)
  <2> DEFINE q == Follow(f, p)
  <2>1. (q \in DOMAIN g <=> q \in DOMAIN f) /\ (q \in DOMAIN f => g[q] = f[q]) BY <1>2 DEF Beside
  <2>2. (IsFile(g, p) <=> IsFile(f, p)) /\ (IsDir(g, p) <=> IsDir(f, p))
    BY <1>1, <2>1 DEF IsFile, IsDir, Exists
  <2>3. Contents(g, p) = Contents(f, p) BY <1>1, <2>1, <2>2 DEF Contents, IsFile, Exists
  <2> QED BY <2>2, <2>3
<1> QED BY <1>1, <1>2

\* Dest leads to itself or to the file it may be a link to, never to what an
\* op uses for itself.
LEMMA DestLeads ==
  ASSUME NEW f, IsTree(f)
  PROVE  /\ Follow(f, Dest) \in {Dest, Other}
         /\ Follow(f, Dest) \notin {TempDir, TempFile, Archive, Marker, StateDir, Var} \cup Backups
BY Following, PathsDiffer

\* What an end of an op is.
LEMMA EndsIsOutcome ==
  ASSUME NEW r, NEW v, NEW d \in Ends(r, v)
  PROVE  IsOutcome(d) /\ d.res = r /\ d.w = v
BY DEF Ends, IsOutcome

\* A write ends in an outcome.
LEMMA WriteIsOutcome ==
  ASSUME NEW u, NEW p, NEW data, NEW d \in WriteFile(u, p, data)
  PROVE  IsOutcome(d)
BY DEF WriteFile, Call, Lost, Ends, Returns, IsOutcome

----

\* The content is written to Dest, through a link where there is one.
LEMMA ItIsWritten ==
  ASSUME NEW u, FilesOK(u), NEW data \in Value, NEW out \in WriteIt(u, data)
  PROVE  Replaces(u, data, out)
<1> DEFINE q == Follow(u.fs, Dest)
<1>1. PICK d \in WriteFile(u, Dest, data) :
         \/ out = d /\ d.res # "returned"
         \/ d.res = "returned" /\ out \in Done(d.w)
  BY DEF WriteIt, Then
<1>2. Writes(u, Dest, data, d) /\ IsOutcome(d)
  <2>1. Dest \in Written /\ Dest \notin {Main, More} BY PathsDiffer DEF Written
  <2> QED BY <2>1, FileWritten, WriteIsOutcome
<1>3. /\ Keeps(u, d.w, {q}) /\ d.res \in {"returned", "error"}
      /\ \/ d.w.fs = u.fs /\ d.res = "error"
         \/ Contents(d.w.fs, Dest) \in {"cut", data}
      /\ d.res = "returned" => Contents(d.w.fs, Dest) = data
  <2>1. Follow(d.w.fs, Dest) = q /\ q \in DOMAIN d.w.fs /\ d.w.fs[q].kind = "file"
           => Contents(d.w.fs, Dest) = d.w.fs[q].data
    BY DEF Contents, IsFile, Exists
  <2> QED BY <1>2, <2>1 DEF Writes
<1>4. CASE d.res = "returned"
  <2>1. out.w = d.w /\ out.res = "changed" /\ IsOutcome(out) BY <1>1, <1>4, EndsIsOutcome DEF Done
  <2> QED BY <1>3, <1>4, <2>1 DEF Replaces
<1>5. CASE d.res # "returned" BY <1>1, <1>2, <1>3, <1>5 DEF Replaces
<1> QED BY <1>4, <1>5

\* Where the verify command says no, or cannot be run, Dest is not touched.
LEMMA ItIsVerified ==
  ASSUME NEW u, FilesOK(u), NEW data \in Value, NEW verify, NEW out \in Verifying(u, data, verify)
  PROVE  Verifies(u, data, verify, out)
<1> DEFINE q == Follow(u.fs, Dest)
           A == {TempFile, q}
<1>0. TempFile # q /\ Dest # TempFile /\ IsTree(u.fs) BY DestLeads, PathsDiffer DEF FilesOK
<1>1. PICK d \in WriteFile(u, TempFile, data) :
         \/ out = d /\ d.res # "returned"
         \/ /\ d.res = "returned"
            /\ \/ out \in Lost(d.w)
               \/ Rejects(verify, data) /\ out \in Ends("error", d.w)
               \/ ~Rejects(verify, data) /\ out \in WriteIt(d.w, data)
  BY DEF Verifying, Then, Ask, WriteIt
<1>2. Writes(u, TempFile, data, d) /\ IsOutcome(d)
  <2>1. TempFile \in Written /\ TempFile \notin {Main, More} BY PathsDiffer DEF Written
  <2> QED BY <2>1, FileWritten, WriteIsOutcome
<1>3. Follow(u.fs, TempFile) = TempFile BY <1>0, Following, PathsDiffer
<1>4. /\ Keeps(u, d.w, {TempFile}) /\ d.res \in {"returned", "error"}
      /\ TempFile \in DOMAIN d.w.fs => TempFile \in DOMAIN u.fs \/ d.w.fs[TempFile].kind = "file"
  BY <1>2, <1>3 DEF Writes
<1>5. Keeps(u, d.w, A) /\ FilesOK(d.w) BY <1>4, KeepsMore DEF Keeps
<1>6. CASE d.res # "returned" BY <1>1, <1>2, <1>4, <1>5, <1>6 DEF Verifies
<1>7. CASE d.res = "returned" /\ out \in Lost(d.w)
  <2>1. out.w = Faulty(d.w) /\ out.res = "error" /\ IsOutcome(out) BY <1>7, EndsIsOutcome DEF Lost
  <2>2. /\ Keeps(d.w, out.w, {TempFile}) /\ Keeps(d.w, out.w, A) /\ out.w.fs = d.w.fs
    BY <1>5, <2>1, KeepsFaulty
  <2>3. Keeps(u, out.w, {TempFile}) /\ Keeps(u, out.w, A) BY <1>4, <1>5, <2>2, KeepsTrans
  <2> QED BY <1>4, <2>1, <2>2, <2>3 DEF Verifies
<1>8. CASE d.res = "returned" /\ Rejects(verify, data) /\ out \in Ends("error", d.w)
  <2>1. out.w = d.w /\ out.res = "error" /\ IsOutcome(out) BY <1>8, EndsIsOutcome
  <2> QED BY <1>4, <1>5, <2>1 DEF Verifies
<1>9. CASE d.res = "returned" /\ ~Rejects(verify, data) /\ out \in WriteIt(d.w, data)
  <2>1. Replaces(d.w, data, out) BY <1>5, <1>9, ItIsWritten
  <2>2. Follow(d.w.fs, Dest) = q
    <3>1. Beside(u.fs, d.w.fs, {TempFile}) BY <1>4 DEF Keeps
    <3> QED BY <1>0, <3>1, BesideIsSame
  <2>3. Keeps(d.w, out.w, {q}) BY <2>1, <2>2 DEF Replaces
  <2>4. Keeps(u, out.w, A)
    <3>1. Keeps(d.w, out.w, A) BY <2>3, KeepsMore
    <3> QED BY <1>5, <3>1, KeepsTrans
  <2>5. out.w.fs = d.w.fs => Keeps(u, out.w, {TempFile}) BY <1>4, <2>4 DEF Keeps
  <2>6. TempFile \in DOMAIN out.w.fs => TempFile \in DOMAIN d.w.fs /\ out.w.fs[TempFile] = d.w.fs[TempFile]
    BY <1>0, <2>3 DEF Keeps, Beside
  <2> QED BY <1>4, <1>9, <2>1, <2>4, <2>5, <2>6 DEF Verifies, Replaces
<1> QED BY <1>1, <1>6, <1>7, <1>8, <1>9

\* The cleanup takes away the temporary file and its directory, unless a call
\* fails or they were not the op's own.
LEMMA TempsRemoved ==
  ASSUME NEW u, FilesOK(u), NEW v \in RemoveTemp(u)
  PROVE  /\ Keeps(u, v, Temps)
         /\ ~v.fault =>
              /\ TempFile \in DOMAIN v.fs => u.fs[TempFile].kind = "dir"
              /\ TempDir \in DOMAIN v.fs => \E q \in DOMAIN v.fs : TempDir \in Prefixes(q) \ {q}
<1>1. PICK x \in TryRemove(u, TempFile) : v \in TryRemove(x, TempDir) BY DEF RemoveTemp
<1>2. /\ Keeps(u, x, {TempFile})
      /\ x.fs \in {u.fs, Without(u.fs, TempFile)}
      /\ ~x.fault /\ Removable(u.fs, TempFile) => x.fs = Without(u.fs, TempFile)
  BY <1>1, EntryTried
<1>3. FilesOK(x) BY <1>2 DEF Keeps
<1>4. /\ Keeps(x, v, {TempDir})
      /\ v.fs \in {x.fs, Without(x.fs, TempDir)}
      /\ ~v.fault /\ Removable(x.fs, TempDir) => v.fs = Without(x.fs, TempDir)
  BY <1>1, <1>3, EntryTried
<1>5. Keeps(u, v, Temps)
  <2>1. Keeps(u, x, Temps) /\ Keeps(x, v, Temps) BY <1>2, <1>4, KeepsMore DEF Temps
  <2> QED BY <2>1, KeepsTrans
<1>6. ASSUME ~v.fault
      PROVE  /\ TempFile \in DOMAIN v.fs => u.fs[TempFile].kind = "dir"
             /\ TempDir \in DOMAIN v.fs => \E q \in DOMAIN v.fs : TempDir \in Prefixes(q) \ {q}
  <2>1. ~x.fault BY <1>4, <1>6 DEF Keeps
  <2>2. DOMAIN Without(u.fs, TempFile) = DOMAIN u.fs \ {TempFile}
        /\ DOMAIN Without(x.fs, TempDir) = DOMAIN x.fs \ {TempDir}
    BY WithoutIs
  <2>3. TempFile \in DOMAIN v.fs => u.fs[TempFile].kind = "dir"
    <3> HAVE TempFile \in DOMAIN v.fs
    <3>1. TempFile \in DOMAIN x.fs BY <1>4, <2>2
    <3>2. ~Removable(u.fs, TempFile) /\ TempFile \in DOMAIN u.fs BY <1>2, <2>1, <2>2, <3>1
    <3> QED BY <3>2 DEF Removable, Exists
  <2>4. TempDir \in DOMAIN v.fs => \E q \in DOMAIN v.fs : TempDir \in Prefixes(q) \ {q}
    <3> HAVE TempDir \in DOMAIN v.fs
    <3>1. ~Removable(x.fs, TempDir) /\ v.fs = x.fs BY <1>4, <1>6, <2>2
    <3>2. Below(x.fs, TempDir) # {} BY <3>1 DEF Removable, Exists
    <3> QED BY <3>1, <3>2 DEF Below
  <2> QED BY <2>3, <2>4
<1> QED BY <1>5, <1>6

\* A write with a verify command: only content the command accepts replaces
\* the file, and nothing of the op's own is left behind.
LEMMA ItIsVerifiedWritten ==
  ASSUME NEW u, FilesOK(u), NEW data \in Value, NEW verify,
         NEW out \in VerifiedWrite(u, Dest, data, verify)
  PROVE  VerifiedIs(u, data, verify, out)
<1> DEFINE q == Follow(u.fs, Dest)
           A == Temps \cup {q}
<1>0. /\ Keeps(u, u, A) /\ Keeps(u, u, Temps) /\ IsTree(u.fs) /\ Tidy(u, u)
  BY KeepsSelf DEF FilesOK, Tidy
<1>p. /\ q \notin Temps /\ q \in {Dest, Other} /\ Dest \notin Temps /\ Other \notin Temps
      /\ TempDir # TempFile
  BY <1>0, DestLeads, PathsDiffer DEF Temps
<1>1. \/ out \in Ends("error", u)
      \/ \E d \in Mkdir(u, TempDir, "0700") :
            \/ out = d /\ d.res # "returned"
            \/ d.res = "returned" /\ out \in Deferred(Verifying(d.w, data, verify), RemoveTemp)
  BY DEF VerifiedWrite, Then, Verifying
<1>2. CASE out \in Ends("error", u)
  <2>1. out.w = u /\ out.res = "error" BY <1>2, EndsIsOutcome
  <2> QED BY <1>0, <2>1 DEF VerifiedIs
<1>3. ASSUME NEW d \in Mkdir(u, TempDir, "0700"),
             \/ out = d /\ d.res # "returned"
             \/ d.res = "returned" /\ out \in Deferred(Verifying(d.w, data, verify), RemoveTemp)
      PROVE  VerifiedIs(u, data, verify, out)
  <2>1. "0700" \in Value BY Words
  <2>2. Makes(u, TempDir, d) BY <2>1, DirectoryMade
  <2>3. Prefixes(TempDir) = {TempDir} /\ Follow(u.fs, TempDir) = TempDir
    BY <1>0, PrefixesAre, Following, PathsDiffer
  <2>4. /\ Keeps(u, d.w, {TempDir}) /\ d.res \in {"returned", "error"}
        /\ d.res = "error" => d.w = u \/ d.w.fault = TRUE
    BY <2>2, <2>3 DEF Makes
  <2>5. Keeps(u, d.w, Temps) /\ Keeps(u, d.w, A) /\ FilesOK(d.w)
    <3>1. Keeps(u, d.w, Temps) /\ Keeps(u, d.w, A) BY <2>4, KeepsMore DEF Temps
    <3> QED BY <3>1 DEF Keeps
  <2>6. CASE d.res # "returned"
    <3>1. out = d /\ d.res = "error" /\ Tidy(u, d.w) BY <1>3, <2>4, <2>6 DEF Tidy
    <3> QED BY <2>5, <3>1 DEF VerifiedIs
  <2>7. CASE d.res = "returned"
    <3>1. PICK o \in Verifying(d.w, data, verify) : \E x \in RemoveTemp(o.w) : out = [o EXCEPT !.w = x]
      BY <1>3, <2>7 DEF Deferred
    <3>2. PICK x \in RemoveTemp(o.w) : out = [o EXCEPT !.w = x] BY <3>1
    <3>3. Verifies(d.w, data, verify, o) BY <2>5, ItIsVerified
    <3>4. out.res = o.res /\ out.w = x BY <3>2, <3>3 DEF Verifies, IsOutcome
    <3>5. Follow(d.w.fs, Dest) = q
      <4>1. Beside(u.fs, d.w.fs, Temps) /\ Dest \notin Temps BY <1>p, <2>5 DEF Keeps
      <4> QED BY <4>1, BesideIsSame
    <3>6. Keeps(d.w, o.w, {TempFile, q}) /\ FilesOK(o.w) BY <3>3, <3>5 DEF Verifies, Keeps
    <3>7. /\ Keeps(o.w, x, Temps)
          /\ ~x.fault =>
              /\ TempFile \in DOMAIN x.fs => o.w.fs[TempFile].kind = "dir"
              /\ TempDir \in DOMAIN x.fs => \E y \in DOMAIN x.fs : TempDir \in Prefixes(y) \ {y}
      BY <3>2, <3>6, TempsRemoved
    <3>8. Keeps(u, x, A)
      <4>1. Keeps(d.w, o.w, A) /\ Keeps(o.w, x, A) BY <3>6, <3>7, KeepsMore DEF Temps
      <4>2. Keeps(u, o.w, A) BY <2>5, <4>1, KeepsTrans
      <4> QED BY <4>1, <4>2, KeepsTrans
    <3>9. Keeps(d.w, o.w, {TempFile}) => Keeps(u, x, Temps)
      <4> HAVE Keeps(d.w, o.w, {TempFile})
      <4>1. Keeps(d.w, o.w, Temps) BY KeepsMore DEF Temps
      <4>2. Keeps(u, o.w, Temps) BY <2>5, <4>1, KeepsTrans
      <4> QED BY <3>7, <4>2, KeepsTrans
    <3>10. Contents(x.fs, Dest) = Contents(o.w.fs, Dest)
      <4>1. Beside(o.w.fs, x.fs, Temps) BY <3>7 DEF Keeps
      <4>2. Follow(o.w.fs, Dest) \notin Temps BY <3>6, DestLeads DEF FilesOK, Temps
      <4> QED BY <1>p, <4>1, <4>2, BesideIsSame
    <3>11. Tidy(u, x)
      <4> SUFFICES ASSUME ~x.fault PROVE Temps \cap DOMAIN x.fs \subseteq DOMAIN u.fs BY DEF Tidy
      <4>1. TempFile \in DOMAIN x.fs => TempFile \in DOMAIN u.fs
        <5> HAVE TempFile \in DOMAIN x.fs
        <5>1. o.w.fs[TempFile].kind = "dir" /\ TempFile \in DOMAIN o.w.fs
          <6>1. x.fs = o.w.fs \/ DOMAIN x.fs \subseteq DOMAIN o.w.fs
            <7>1. PICK y \in TryRemove(o.w, TempFile) : x \in TryRemove(y, TempDir)
              BY <3>2 DEF RemoveTemp
            <7>2. y.fs \in {o.w.fs, Without(o.w.fs, TempFile)} /\ FilesOK(y)
              BY <3>6, <7>1, EntryTried DEF Keeps
            <7>3. x.fs \in {y.fs, Without(y.fs, TempDir)} BY <7>1, <7>2, EntryTried
            <7>4. /\ DOMAIN Without(y.fs, TempDir) \subseteq DOMAIN y.fs
                  /\ DOMAIN Without(o.w.fs, TempFile) \subseteq DOMAIN o.w.fs
              BY WithoutIs
            <7> QED BY <7>2, <7>3, <7>4
          <6> QED BY <3>7, <6>1
        <5>2. TempFile \in DOMAIN d.w.fs BY <3>3, <5>1 DEF Verifies
        <5>3. TempFile \notin {TempDir} BY <1>p
        <5> QED BY <2>4, <5>2, <5>3 DEF Keeps, Beside
      <4>2. TempDir \in DOMAIN x.fs => TempDir \in DOMAIN u.fs
        <5> HAVE TempDir \in DOMAIN x.fs
        <5>1. PICK y \in DOMAIN x.fs : TempDir \in Prefixes(y) \ {y} BY <3>7
        <5>2. y # Dest /\ y # Other /\ y # TempDir
          <6>1. TempDir \notin Prefixes(Dest) /\ TempDir \notin Prefixes(Other)
            BY PrefixesAre, PathsDiffer
          <6> QED BY <5>1, <6>1
        <5>3. y \in DOMAIN u.fs
          <6>1. CASE y = TempFile BY <4>1, <6>1
          <6>2. CASE y # TempFile
            <7>1. y \notin A BY <1>p, <5>2, <6>2 DEF Temps
            <7> QED BY <3>8, <7>1 DEF Keeps, Beside
          <6> QED BY <6>1, <6>2
        <5> QED BY <1>0, <5>1, <5>3, NodesAre
      <4> QED BY <4>1, <4>2 DEF Temps
    <3> QED BY <3>3, <3>4, <3>8, <3>9, <3>10, <3>11 DEF VerifiedIs, Verifies
  <2> QED BY <2>6, <2>7, <2>4
<1> QED BY <1>1, <1>2, <1>3

\* What a file holds is a value.
LEMMA ContentsIsValue ==
  ASSUME NEW f, IsTree(f), NEW p
  PROVE  Contents(f, p) \in Value
<1>1. "none" \in Value BY Words
<1>2. \A q \in DOMAIN f : f[q].data \in Value BY NodesAre
<1> QED BY <1>1, <1>2 DEF Contents, IsFile, Exists

\* A backup that came back holds what the file held, and the file is
\* untouched.
LEMMA ItIsBackedUp ==
  ASSUME NEW u, FilesOK(u), NEW d \in Backup(u, Dest)
  PROVE  BacksUp(u, d)
<1> DEFINE b == BackupOf(Dest, u.clock)
           data == Contents(u.fs, Dest)
<1>1. \/ d \in Returns(Faulty(u))
      \/ ~IsFile(u.fs, Dest) /\ d \in Returns(u)
      \/ d \in WriteFile(u, b, data)
  BY DEF Backup, AskOr
<1>2. b \in Backups /\ b \in Written /\ b \notin {Main, More} /\ b # Dest
  <2>1. b \in Backups BY BackupsAre DEF FilesOK
  <2> QED BY <2>1, PathsDiffer DEF Written
<1>3. data \in Value /\ IsTree(u.fs) BY ContentsIsValue DEF FilesOK
<1>4. CASE d \in Returns(Faulty(u))
  <2>1. d.w = Faulty(u) /\ d.res = "returned" BY <1>4 DEF Returns, Ends
  <2> QED BY <2>1, KeepsFaulty DEF BacksUp
<1>5. CASE ~IsFile(u.fs, Dest) /\ d \in Returns(u)
  <2>1. d.w = u /\ d.res = "returned" BY <1>5 DEF Returns, Ends
  <2> QED BY <1>5, <2>1, KeepsSelf DEF BacksUp
<1>6. CASE d \in WriteFile(u, b, data)
  <2> HIDE DEF b, data
  <2>1. Writes(u, b, data, d) BY <1>2, <1>3, <1>6, FileWritten
  <2>2. Follow(u.fs, b) = b BY <1>2, <1>3, Following
  <2>3. Keeps(u, d.w, Backups) /\ d.res \in {"returned", "error"}
    <3>1. Keeps(u, d.w, {b}) /\ d.res \in {"returned", "error"} BY <2>1, <2>2 DEF Writes
    <3> QED BY <1>2, <3>1, KeepsMore
  <2>4. d.res = "returned" => Contents(d.w.fs, b) = data
    <3> HAVE d.res = "returned"
    <3>1. Follow(d.w.fs, b) = b /\ b \in DOMAIN d.w.fs /\ d.w.fs[b].kind = "file" /\ d.w.fs[b].data = data
      BY <2>1, <2>2 DEF Writes
    <3> QED BY <3>1 DEF Contents, IsFile, Exists
  <2> QED BY <2>3, <2>4 DEF BacksUp, b, data
<1> QED BY <1>1, <1>4, <1>5, <1>6

----

\* The write of a content op, with or without a verify command.
LEMMA DestIsWritten ==
  ASSUME NEW c \in FileConfig, NEW u, FilesOK(u), NEW content \in Value,
         NEW out \in WriteDest(c, u, content)
  PROVE  DestIs(c, u, content, out)
<1> DEFINE q == Follow(u.fs, Dest)
<1>0. q \notin Temps /\ Dest \notin Temps /\ IsTree(u.fs)
  BY DestLeads, PathsDiffer DEF Temps, FilesOK
<1>1. CASE c.verify # "none"
  <2>1. VerifiedIs(u, content, c.verify, out) BY <1>1, ItIsVerifiedWritten DEF WriteDest
  <2>2. Keeps(u, out.w, Temps) => Contents(out.w.fs, Dest) = Contents(u.fs, Dest)
    BY <1>0, BesideIsSame DEF Keeps
  <2> QED BY <2>1, <2>2 DEF VerifiedIs, DestIs
<1>2. CASE c.verify = "none"
  <2>1. out \in WriteIt(u, content) BY <1>2 DEF WriteDest, WriteIt
  <2>2. Replaces(u, content, out) BY <2>1, ItIsWritten
  <2>3. Keeps(u, out.w, {q}) BY <2>2 DEF Replaces
  <2>4. Keeps(u, out.w, Temps \cup {q}) BY <2>3, KeepsMore
  <2>5. Tidy(u, out.w) BY <1>0, <2>3 DEF Tidy, Keeps, Beside
  <2>6. ~Rejects(c.verify, content) BY <1>2 DEF Rejects
  <2> QED BY <2>2, <2>4, <2>5, <2>6 DEF Replaces, DestIs
<1> QED BY <1>1, <1>2

\* The file is replaced after its backup, if one is declared.
LEMMA DestIsReplaced ==
  ASSUME NEW c \in FileConfig, NEW u, FilesOK(u), NEW content \in Value,
         NEW out \in Replacing(c, u, content)
  PROVE  Replaced(c, u, content, out)
<1> DEFINE q == Follow(u.fs, Dest)
           b == BackupOf(Dest, u.clock)
<1>0. /\ q \notin Temps /\ q \notin Backups /\ Dest \notin Temps /\ Dest \notin Backups
      /\ IsTree(u.fs)
  BY DestLeads, PathsDiffer DEF Temps, FilesOK
<1>b. b \in Backups /\ b \notin Temps /\ b # q /\ b # Dest
  <2>1. b \in Backups BY BackupsAre DEF FilesOK
  <2> QED BY <1>0, <2>1, PathsDiffer DEF Temps
<1>1. CASE ~c.backup
  <2>1. DestIs(c, u, content, out) BY <1>1, DestIsWritten DEF Replacing
  <2>2. Keeps(u, out.w, Temps \cup {q}) BY <2>1 DEF DestIs
  <2>3. Keeps(u, out.w, Touched(u)) BY <2>2, KeepsMore DEF Touched
  <2> QED BY <1>1, <2>1, <2>3 DEF DestIs, Replaced
<1>2. CASE c.backup
  <2>1. PICK d \in Backup(u, Dest) :
           \/ out = d /\ d.res # "returned"
           \/ d.res = "returned" /\ out \in WriteDest(c, d.w, content)
    BY <1>2 DEF Replacing, Then
  <2>2. BacksUp(u, d) BY ItIsBackedUp
  <2>3. /\ Keeps(u, d.w, Backups) /\ d.res \in {"returned", "error"} /\ FilesOK(d.w)
        /\ Beside(u.fs, d.w.fs, Backups)
    BY <2>2 DEF BacksUp, Keeps
  <2>4. /\ Follow(d.w.fs, Dest) = q /\ Contents(d.w.fs, Dest) = Contents(u.fs, Dest)
        /\ Temps \cap DOMAIN d.w.fs \subseteq DOMAIN u.fs
    <3>1. Temps \cap Backups = {} BY PathsDiffer DEF Temps
    <3> QED BY <1>0, <2>3, <3>1, BesideIsSame DEF Beside
  <2>5. Keeps(u, d.w, Touched(u)) BY <2>3, KeepsMore DEF Touched
  <2>6. CASE d.res # "returned"
    <3>1. out = d /\ d.res = "error" BY <2>1, <2>3, <2>6
    <3> QED BY <2>4, <2>5, <3>1 DEF Replaced, Tidy
  <2>7. CASE d.res = "returned"
    <3>1. DestIs(c, d.w, content, out) BY <2>1, <2>3, <2>7, DestIsWritten
    <3>2. Keeps(d.w, out.w, Temps \cup {q}) BY <2>4, <3>1 DEF DestIs
    <3>3. Keeps(u, out.w, Touched(u))
      <4>1. Keeps(d.w, out.w, Touched(u)) BY <3>2, KeepsMore DEF Touched
      <4> QED BY <2>5, <4>1, KeepsTrans
    <3>4. Tidy(u, out.w) BY <2>4, <3>1 DEF DestIs, Tidy
    <3>5. c.backup /\ ~out.w.fault /\ IsFile(u.fs, Dest)
             => Contents(out.w.fs, b) = Contents(u.fs, Dest)
      <4> SUFFICES ASSUME ~out.w.fault, IsFile(u.fs, Dest)
                   PROVE  Contents(out.w.fs, b) = Contents(u.fs, Dest)
        OBVIOUS
      <4>1. ~d.w.fault BY <3>2 DEF Keeps
      <4>2. Contents(d.w.fs, b) = Contents(u.fs, Dest) BY <2>2, <2>7, <4>1 DEF BacksUp
      <4>3. Follow(d.w.fs, b) = b BY <1>b, <2>3, Following DEF FilesOK
      <4>4. Contents(out.w.fs, b) = Contents(d.w.fs, b) BY <1>b, <3>2, <4>3, BesideIsSame DEF Keeps
      <4> QED BY <4>2, <4>4
    <3> QED BY <2>4, <3>1, <3>3, <3>4, <3>5 DEF DestIs, Replaced
  <2> QED BY <2>6, <2>7
<1> QED BY <1>1, <1>2

\* What the source holds, and what a step writes from it, are values.
LEMMA SourceIsValue ==
  ASSUME NEW c \in FileConfig, c.source # "none", NEW u, FilesOK(u)
  PROVE  Source(c, u) \in Value /\ Content(c, u) \in Value
<1>1. u.source \in Value /\ u.cache \in Value /\ Contents(u.fs, Other) \in Value /\ "none" \in Value
  BY ContentsIsValue, Words DEF FilesOK
<1>2. c.source \in {"local", "remote", "target"} BY FileIs
<1> QED BY <1>1, <1>2 DEF Source, Content, Rendered

\* A content op that ends with an error at once has done nothing.
LEMMA CopiesOr ==
  ASSUME NEW c \in FileConfig, NEW u, FilesOK(u), NEW out, out.w \in {u, Faulty(u)}, out.res = "error"
  PROVE  Copies(c, u, out)
<1>1. Keeps(u, out.w, Touched(u)) /\ out.w.fs = u.fs BY KeepsSelf, KeepsFaulty
<1> QED BY <1>1 DEF Copies, Tidy

\* The content op of copy and template, whole: after a success Dest has the
\* content, rejected content never takes the place of what is there, the
\* backup is made before, and nothing is left behind.
LEMMA ContentExecuted ==
  ASSUME NEW c \in FileConfig, c.kind \in {"copy", "template"}, NEW u, FilesOK(u),
         NEW out \in FileExecute(c, "content", u)
  PROVE  Copies(c, u, out)
<1> DEFINE content == Content(c, u)
<1>0. content \in Value BY FileIs, SourceIsValue
<1>1. out \in Lost(u) \/ out \in ReplaceDest(c, u, content)
  <2>1. CASE c.kind = "copy" BY <2>1 DEF FileExecute, ExecuteCopy, Ask, Content
  <2>2. CASE c.kind = "template" BY <2>2 DEF FileExecute, ExecuteTemplate, Ask, Content
  <2> QED BY <2>1, <2>2
<1>2. out \in ReplaceDest(c, u, content) =>
        \/ out \in Ends("error", u)
        \/ /\ content # "none"
           /\ \/ out \in Replacing(c, Faulty(u), content)
              \/ Contents(u.fs, Dest) = content /\ out \in Ends("unchanged", u)
              \/ out \in Replacing(c, u, content)
  BY DEF ReplaceDest, AskOr, Replacing, WriteDest
<1> HIDE DEF content
<1>3. CASE out \in Lost(u) \cup Ends("error", u)
  <2>1. out.w \in {u, Faulty(u)} /\ out.res = "error" BY <1>3 DEF Lost, Ends
  <2> QED BY <2>1, CopiesOr
<1>4. CASE content # "none" /\ Contents(u.fs, Dest) = content /\ out \in Ends("unchanged", u)
  <2>1. out.w = u /\ out.res = "unchanged" BY <1>4 DEF Ends
  <2>2. Keeps(u, u, Touched(u)) BY KeepsSelf
  <2> QED BY <1>4, <2>1, <2>2 DEF Copies, Tidy, content
<1>5. CASE content # "none" /\ out \in Replacing(c, u, content)
  <2>1. Replaced(c, u, content, out) BY <1>0, <1>5, DestIsReplaced
  <2> QED BY <1>5, <2>1 DEF Replaced, Copies, content
<1>6. CASE content # "none" /\ out \in Replacing(c, Faulty(u), content)
  <2> DEFINE v == Faulty(u)
  <2>1. Keeps(u, v, Touched(u)) /\ v.fs = u.fs /\ v.fault = TRUE /\ FilesOK(v) BY KeepsFaulty
  <2> HIDE DEF v
  <2>2. Replaced(c, v, content, out) BY <1>0, <1>6, <2>1, DestIsReplaced DEF v
  <2>3. Touched(v) = Touched(u) BY <2>1 DEF Touched
  <2>4. Keeps(u, out.w, Touched(u)) /\ out.w.fault
    BY <2>1, <2>2, <2>3, KeepsTrans DEF Replaced, Keeps
  <2>5. out.res # "unchanged"
    <3>1. out \in Replacing(c, v, content) BY <1>6 DEF v
    <3>2. ASSUME NEW x, FilesOK(x), out \in WriteDest(c, x, content)
          PROVE  out.res # "unchanged"
      BY <1>0, <3>2, DestIsWritten DEF DestIs
    <3>3. CASE c.backup
      <4>1. PICK d \in Backup(v, Dest) :
               \/ out = d /\ d.res # "returned"
               \/ d.res = "returned" /\ out \in WriteDest(c, d.w, content)
        BY <3>1, <3>3 DEF Replacing, Then
      <4>2. BacksUp(v, d) BY <2>1, ItIsBackedUp
      <4> QED BY <3>2, <4>1, <4>2 DEF BacksUp, Keeps
    <3>4. CASE ~c.backup BY <2>1, <3>1, <3>2, <3>4 DEF Replacing
    <3> QED BY <3>3, <3>4
  <2> QED BY <1>6, <2>1, <2>2, <2>4, <2>5 DEF Replaced, Copies, Tidy, content
<1> QED BY <1>1, <1>2, <1>3, <1>4, <1>5, <1>6

\* A copy of the source has the content of the source.
LEMMA CopiedHasContent ==
  ASSUME NEW c \in FileConfig, c.source # "none", NEW u, FilesOK(u), NEW v, Keeps(u, v, Touched(u)),
         Content(c, u) # "none", Contents(v.fs, Dest) = Content(c, u)
  PROVE  HasContent(c, v)
<1>0. /\ Other \notin Temps \cup Backups /\ Dest \notin Temps \cup Backups /\ Other # Dest
      /\ Follow(u.fs, Dest) \in {Dest, Other} /\ Follow(u.fs, Other) = Other
      /\ Follow(v.fs, Other) = Other
  BY DestLeads, Following, PathsDiffer DEF FilesOK, Temps, Keeps
<1>1. c.source \in {"local", "remote", "target"} BY FileIs
<1>2. SameHost(u, v) /\ Beside(u.fs, v.fs, Touched(u)) BY DEF Keeps
<1>3. HasContent(c, v) <=> Content(c, v) # "none" /\ Contents(v.fs, Dest) = Content(c, v)
  BY DEF HasContent, Content
<1>4. CASE Source(c, v) = Source(c, u) BY <1>3, <1>4 DEF Content
<1>5. CASE Source(c, v) # Source(c, u)
  <2>1. c.source = "target" BY <1>1, <1>2, <1>5 DEF Source, SameHost
  <2>2. Contents(v.fs, Other) # Contents(u.fs, Other) BY <1>5, <2>1 DEF Source
  <2>3. Follow(u.fs, Dest) = Other
    <3> SUFFICES ASSUME Follow(u.fs, Dest) = Dest PROVE FALSE BY <1>0
    <3>1. Other \notin Touched(u) BY <1>0 DEF Touched
    <3> QED BY <1>0, <1>2, <2>2, <3>1, BesideIsSame
  <2>4. Follow(v.fs, Dest) = Other
    <3>1. Dest \notin Touched(u) BY <1>0, <2>3 DEF Touched
    <3> QED BY <1>2, <2>3, <3>1, BesideIsSame
  <2>5. Contents(v.fs, Other) = Contents(v.fs, Dest) BY <1>0, <2>4 DEF Contents, IsFile
  <2>6. Source(c, v) = Content(c, u) BY <2>1, <2>5 DEF Source
  <2>7. Content(c, v) = Content(c, u) BY <2>6 DEF Content, Rendered
  <2> QED BY <1>3, <2>7
<1> QED BY <1>4, <1>5

----
\* Unarchive.

\* The paths an unarchive uses are different paths.
LEMMA EntriesDiffer ==
  /\ Marker \notin Entries \cup {Archive, Srv, Dest, Var, StateDir, Other}
  /\ Dest \notin Entries \cup {Archive, Marker} /\ Srv \notin Entries \cup {Archive, Marker, Dest}
  /\ Archive \notin Entries /\ Lib # Main /\ Lib # More /\ Main # More
  /\ Main \in Written /\ More \in Written /\ Archive \in Written /\ Marker \in Written
  /\ Temps \cap (Entries \cup {Archive, Marker, Srv, Dest, Var, StateDir}) = {}
  /\ {Srv, Dest, Var, StateDir} \cap (Entries \cup {Archive, Marker, Other}) = {}
BY PathsDiffer DEF Entries, Written, Temps

\* What stays a tree an archive was unpacked to.
LEMMA BesideIsUnpacked ==
  ASSUME NEW f, IsTree(f), IsUnpacked(f), NEW g, IsTree(g), NEW A, Beside(f, g, A),
         Dest \notin A, Marker \notin A,
         \A q \in A \cap {Main, More} : q \in DOMAIN g => g[q].kind = "file"
  PROVE  IsUnpacked(g) /\ Contents(g, Marker) = Contents(f, Marker)
<1>1. IsLink(g, Dest) <=> IsLink(f, Dest) BY BesideIsSame
<1>2. Follow(f, Marker) = Marker BY Following, PathsDiffer
<1>3. Contents(g, Marker) = Contents(f, Marker) BY <1>2, BesideIsSame
<1>4. \A q \in {Main, More, Marker} : Exists(g, q) => g[q].kind = "file"
  BY DEF Beside, IsUnpacked, Exists
<1> QED BY <1>1, <1>3, <1>4 DEF IsUnpacked

\* New directories do not change what an archive was unpacked to.
LEMMA GrownIsUnpacked ==
  ASSUME NEW f, IsTree(f), IsUnpacked(f), NEW g, NEW S, Grown(f, g, S),
         S \cap {Main, More, Marker, Other} = {}
  PROVE  IsUnpacked(g) /\ Contents(g, Marker) = Contents(f, Marker)
<1>1. (IsLink(g, Dest) <=> IsLink(f, Dest)) /\ Contents(g, Marker) = Contents(f, Marker)
  BY GrownIsSame
<1>2. \A q \in {Main, More, Marker} : Exists(g, q) => g[q].kind = "file"
  BY DEF Grown, IsUnpacked, Exists
<1> QED BY <1>1, <1>2 DEF IsUnpacked

\* A file that is no link holds what it was given.
LEMMA HoldsData ==
  ASSUME NEW f, IsTree(f), NEW p, p # Dest
  PROVE  /\ Follow(f, p) = p
         /\ p \in DOMAIN f /\ f[p].kind = "file" => Contents(f, p) = f[p].data
<1>1. Follow(f, p) = p BY Following
<1> QED BY <1>1, PlainPath

\* Writing a file of the archive, or the archive itself, where that is
\* possible.
LEMMA PathPut ==
  ASSUME NEW u, FilesOK(u), IsUnpacked(u.fs), NEW p \in {Main, More, Archive}, NEW data \in Value,
         NEW d \in WriteFile(u, p, data)
  PROVE  Puts(u, p, data, d)
<1>0. p \in Written /\ p # Dest /\ p # Marker /\ IsTree(u.fs) /\ ~IsLink(u.fs, Dest)
  BY EntriesDiffer DEF Entries, FilesOK, IsUnpacked
<1>1. Writes(u, p, data, d) /\ IsOutcome(d) BY <1>0, FileWritten, WriteIsOutcome
<1>2. Follow(u.fs, p) = p BY <1>0, Following
<1>3. Keeps(u, d.w, {p}) /\ d.res \in {"returned", "error"} /\ (d.res = "error" => d.w = u \/ d.w.fault = TRUE)
  BY <1>1, <1>2 DEF Writes
<1>4. IsTree(d.w.fs) /\ Beside(u.fs, d.w.fs, {p}) BY <1>3 DEF Keeps, FilesOK
<1>5. p \in DOMAIN d.w.fs /\ d.w.fs # u.fs => d.w.fs[p].kind = "file" BY <1>1, <1>2 DEF Writes
<1>6. IsUnpacked(d.w.fs)
  <2>1. CASE d.w.fs = u.fs BY <2>1
  <2>2. CASE d.w.fs # u.fs
    <3>1. \A q \in {p} \cap {Main, More} : q \in DOMAIN d.w.fs => d.w.fs[q].kind = "file"
      BY <1>5, <2>2
    <3> QED BY <1>0, <1>4, <3>1, BesideIsUnpacked
  <2> QED BY <2>1, <2>2
<1>7. d.res = "returned" => /\ p \in DOMAIN d.w.fs /\ d.w.fs[p].kind = "file"
                             /\ Contents(d.w.fs, p) = data
  <2> HAVE d.res = "returned"
  <2>1. p \in DOMAIN d.w.fs /\ d.w.fs[p].kind = "file" /\ d.w.fs[p].data = data
    BY <1>1, <1>2 DEF Writes
  <2> QED BY <1>0, <1>4, <2>1, HoldsData
<1> QED BY <1>1, <1>3, <1>6, <1>7 DEF Puts

\* What the extraction of an archive leaves.
LEMMA ExtractedIs ==
  ASSUME NEW f, IsTree(f), IsUnpacked(f), IsDir(f, Dest), NEW data \in Value, NEW S \in SUBSET Entries
  PROVE  LET g == Extracted(f, data, S)
         IN  /\ IsTree(g) /\ Beside(f, g, Entries) /\ IsUnpacked(g)
             /\ \A q \in S \ {Lib} : Contents(g, q) = data
<1> DEFINE g == Extracted(f, data, S)
<1>1. /\ DOMAIN g = DOMAIN f \cup S /\ g = [q \in DOMAIN g |-> g[q]]
      /\ \A q \in DOMAIN g : q \notin S => g[q] = f[q]
      /\ \A q \in S : q # Lib => g[q] = NewFile(data)
      /\ Lib \in S => g[Lib] = NewDir("0755")
  BY DEF Extracted
<1>2. /\ NewFile(data) \in NodeRecord /\ NewFile(data).kind = "file" /\ NewFile(data).data = data
      /\ NewDir("0755") \in NodeRecord /\ NewDir("0755").kind = "dir"
  <2>1. "" \in Value /\ "0644" \in Value /\ "0755" \in Value /\ "root" \in Value BY Words
  <2> QED BY <2>1 DEF NewFile, NewDir, Node, NodeRecord
<1> HIDE DEF g
<1>3. /\ Srv \in DOMAIN f /\ f[Srv].kind = "dir" /\ Dest \in DOMAIN f /\ f[Dest].kind = "dir"
  <2>1. Follow(f, Dest) = Dest /\ Dest # <<>> BY Following, PathsDiffer DEF IsUnpacked
  <2>2. Dest \in DOMAIN f /\ f[Dest].kind = "dir" BY <2>1, PlainPath
  <2>3. Srv \in Prefixes(Dest) \ {Dest} BY PrefixesAre, PathsDiffer
  <2> QED BY <2>2, <2>3, NodesAre
<1>4. g \in [DOMAIN g -> NodeRecord]
  <2>1. \A q \in DOMAIN g : g[q] \in NodeRecord BY <1>1, <1>2, NodesAre DEF Entries
  <2> QED BY <1>1, <2>1
<1>5. \A q \in {Srv, Dest} : q \in DOMAIN g /\ g[q].kind = "dir" BY <1>1, <1>3, EntriesDiffer
<1>6. ASSUME NEW q \in DOMAIN g
      PROVE  /\ q # <<>>
             /\ \A x \in Prefixes(q) \ {q} : Exists(g, x) /\ g[x].kind = "dir"
             /\ g[q].kind = "link" => q = Dest /\ g[q].to = Other
  <2>1. CASE q \in S
    <3>1. Prefixes(q) = {Srv, Dest, q} /\ q # <<>> BY <2>1, PrefixesAre, PathsDiffer DEF Entries
    <3>2. g[q].kind # "link" BY <1>1, <1>2, <2>1 DEF Entries
    <3> QED BY <1>5, <3>1, <3>2 DEF Exists
  <2>2. CASE q \notin S
    <3>1. /\ q \in DOMAIN f /\ q # <<>> /\ g[q] = f[q]
          /\ \A x \in Prefixes(q) \ {q} : x \in DOMAIN f /\ f[x].kind = "dir"
          /\ f[q].kind = "link" => q = Dest /\ f[q].to = Other
      BY <1>1, <2>2, NodesAre
    <3>2. ASSUME NEW x \in Prefixes(q) \ {q} PROVE Exists(g, x) /\ g[x].kind = "dir"
      <4>1. x \in DOMAIN f /\ f[x].kind = "dir" BY <3>1
      <4>2. x \notin {Main, More} BY <4>1 DEF IsUnpacked, Exists
      <4> QED BY <1>1, <1>2, <4>1, <4>2 DEF Exists, Entries
    <3> QED BY <3>1, <3>2
  <2> QED BY <2>1, <2>2
<1>7. IsTree(g) BY <1>4, <1>6 DEF IsTree
<1>8. Beside(f, g, Entries) BY <1>1 DEF Beside
<1>9. IsUnpacked(g)
  <2>1. \A q \in Entries \cap {Main, More} : q \in DOMAIN g => g[q].kind = "file"
    BY <1>1, <1>2, EntriesDiffer DEF IsUnpacked, Exists
  <2> QED BY <1>7, <1>8, <2>1, BesideIsUnpacked, EntriesDiffer
<1>10. \A q \in S \ {Lib} : Contents(g, q) = data
  <2> TAKE q \in S \ {Lib}
  <2>1. q \in DOMAIN g /\ g[q].kind = "file" /\ g[q].data = data /\ q # Dest
    BY <1>1, <1>2, EntriesDiffer
  <2> QED BY <1>7, <2>1, HoldsData
<1> QED BY <1>7, <1>8, <1>9, <1>10 DEF g

\* tar or unzip, when it comes back with success, has unpacked all of a
\* readable archive.
LEMMA ToolRun ==
  ASSUME NEW u, FilesOK(u), IsUnpacked(u.fs), IsDir(u.fs, Dest), NEW data \in Value,
         NEW d \in RunTool(u, data)
  PROVE  /\ Keeps(u, d.w, Entries) /\ IsUnpacked(d.w.fs) /\ IsOutcome(d)
         /\ d.res \in {"returned", "error"}
         /\ d.res = "returned" => Readable(data) /\ Unpacked(d.w.fs, data)
<1> DEFINE Left(S) == WithFiles(u, Extracted(u.fs, data, S))
<1>0. IsTree(u.fs) /\ Members(data) \in SUBSET Entries BY DEF FilesOK, Members, Entries
<1>1. ASSUME NEW S \in SUBSET Members(data)
      PROVE  /\ Keeps(u, Left(S), Entries) /\ Left(S).fs = Extracted(u.fs, data, S)
             /\ Keeps(u, Faulty(Left(S)), Entries) /\ Faulty(Left(S)).fs = Extracted(u.fs, data, S)
             /\ IsUnpacked(Extracted(u.fs, data, S))
             /\ \A q \in S \ {Lib} : Contents(Extracted(u.fs, data, S), q) = data
  <2> DEFINE g == Extracted(u.fs, data, S)
             v == WithFiles(u, g)
  <2>1. IsTree(g) /\ Beside(u.fs, g, Entries) /\ IsUnpacked(g) /\ \A q \in S \ {Lib} : Contents(g, q) = data
    BY <1>0, ExtractedIs
  <2> HIDE DEF g
  <2>2. v.fs = g /\ v.fault = u.fault /\ FilesOK(v) /\ SameHost(u, v) BY <2>1, KeepsPut
  <2> HIDE DEF v
  <2>3. Keeps(u, v, Entries) BY <2>1, <2>2, KeepsIs
  <2>4. Keeps(u, Faulty(v), Entries) /\ Faulty(v).fs = g BY <2>2, <2>3, KeepsFaulty, KeepsTrans
  <2> QED BY <2>1, <2>2, <2>3, <2>4 DEF v, g
<1>2. \/ \E S \in SUBSET Members(data) : d \in Lost(Left(S))
      \/ Readable(data) /\ d \in Returns(Left(Members(data)))
      \/ d \in Ends("error", u)
  BY DEF RunTool
<1> HIDE DEF Left
<1>3. ASSUME NEW S \in SUBSET Members(data), d \in Lost(Left(S))
      PROVE  Keeps(u, d.w, Entries) /\ IsUnpacked(d.w.fs) /\ IsOutcome(d) /\ d.res = "error"
  <2>1. d.w = Faulty(Left(S)) /\ d.res = "error" /\ IsOutcome(d) BY <1>3, EndsIsOutcome DEF Lost
  <2> QED BY <1>1, <2>1
<1>4. CASE Readable(data) /\ d \in Returns(Left(Members(data)))
  <2>1. d.w = Left(Members(data)) /\ d.res = "returned" /\ IsOutcome(d)
    BY <1>4, EndsIsOutcome DEF Returns
  <2>2. Unpacked(d.w.fs, data) BY <1>1, <2>1 DEF Unpacked
  <2> QED BY <1>1, <1>4, <2>1, <2>2
<1>5. CASE d \in Ends("error", u)
  <2>1. d.w = u /\ d.res = "error" /\ IsOutcome(d) BY <1>5, EndsIsOutcome
  <2> QED BY <2>1, KeepsSelf
<1> QED BY <1>2, <1>3, <1>4, <1>5

\* What does not touch the files of the archive leaves it unpacked.
LEMMA UnpackedKept ==
  ASSUME NEW f, IsTree(f), NEW g, NEW A, Beside(f, g, A), A \cap {Main, More} = {}, NEW data
  PROVE  Unpacked(f, data) => Unpacked(g, data)
<1>1. \A q \in {Main, More} : Contents(g, q) = Contents(f, q)
  <2>1. \A q \in {Main, More} : q \notin A /\ Follow(f, q) = q
    BY Following, EntriesDiffer DEF Entries
  <2> QED BY <2>1, BesideIsSame
<1>2. Members(data) \ {Lib} \subseteq {Main, More} BY DEF Members
<1> QED BY <1>1, <1>2 DEF Unpacked

\* The extraction with the tool: the marker is untouched, and after a success
\* all is unpacked.
LEMMA ToolExtracts ==
  ASSUME NEW u, FilesOK(u), IsUnpacked(u.fs), IsDir(u.fs, Dest), NEW data \in Value,
         NEW out \in ExtractWithTool(u, data)
  PROVE  Extracts(u, data, out)
<1> DEFINE A == Entries \cup {Archive}
<1>1. PICK d \in WriteFile(u, Archive, data) :
         \/ out = d /\ d.res # "returned"
         \/ d.res = "returned" /\ out \in Deferred(RunTool(d.w, data), LAMBDA v : TryRemove(v, Archive))
  BY DEF ExtractWithTool, Then
<1>2. Puts(u, Archive, data, d) BY PathPut
<1>3. Keeps(u, d.w, {Archive}) /\ IsUnpacked(d.w.fs) /\ FilesOK(d.w) /\ IsTree(d.w.fs)
      /\ Beside(u.fs, d.w.fs, {Archive})
  BY <1>2 DEF Puts, Keeps, FilesOK
<1>4. Keeps(u, d.w, A) BY <1>3, KeepsMore
<1>5. CASE d.res # "returned"
  <2>1. out = d /\ d.res = "error" /\ (d.w = u \/ d.w.fault = TRUE) BY <1>1, <1>2, <1>5 DEF Puts
  <2> QED BY <1>3, <1>4, <2>1 DEF Extracts
<1>6. CASE d.res = "returned"
  <2>1. PICK o \in RunTool(d.w, data) : \E x \in TryRemove(o.w, Archive) : out = [o EXCEPT !.w = x]
    BY <1>1, <1>6 DEF Deferred
  <2>2. PICK x \in TryRemove(o.w, Archive) : out = [o EXCEPT !.w = x] BY <2>1
  <2>3. IsDir(d.w.fs, Dest)
    <3>1. Follow(u.fs, Dest) = Dest /\ Dest # Archive
      BY Following, EntriesDiffer DEF FilesOK, IsUnpacked
    <3> QED BY <1>3, <3>1, BesideIsSame
  <2>4. /\ Keeps(d.w, o.w, Entries) /\ IsUnpacked(o.w.fs) /\ IsOutcome(o)
        /\ o.res \in {"returned", "error"}
        /\ o.res = "returned" => Readable(data) /\ Unpacked(o.w.fs, data)
    BY <1>3, <2>3, ToolRun
  <2>5. out.res = o.res /\ out.w = x BY <2>2, <2>4 DEF IsOutcome
  <2>6. FilesOK(o.w) /\ IsTree(o.w.fs) /\ Beside(d.w.fs, o.w.fs, Entries) BY <2>4 DEF Keeps, FilesOK
  <2>7. /\ Keeps(o.w, x, {Archive}) /\ x.fs \in {o.w.fs, Without(o.w.fs, Archive)}
        /\ ~x.fault /\ Removable(o.w.fs, Archive) => x.fs = Without(o.w.fs, Archive)
    BY <2>2, <2>6, EntryTried
  <2>8. IsTree(x.fs) /\ Beside(o.w.fs, x.fs, {Archive}) BY <2>7 DEF Keeps, FilesOK
  <2>9. Keeps(u, x, A)
    <3>1. Keeps(d.w, o.w, A) /\ Keeps(o.w, x, A) BY <2>4, <2>7, KeepsMore
    <3>2. Keeps(u, o.w, A) BY <1>4, <3>1, KeepsTrans
    <3> QED BY <3>1, <3>2, KeepsTrans
  <2>10. IsUnpacked(x.fs)
    <3>1. Dest \notin {Archive} /\ Marker \notin {Archive} /\ {Archive} \cap {Main, More} = {}
      BY EntriesDiffer DEF Entries
    <3> QED BY <2>4, <2>6, <2>8, <3>1, BesideIsUnpacked
  <2>11. Unpacked(o.w.fs, data) => Unpacked(x.fs, data)
    <3>1. {Archive} \cap {Main, More} = {} BY EntriesDiffer DEF Entries
    <3> QED BY <2>6, <2>8, <3>1, UnpackedKept
  <2>12. ~x.fault => Archive \notin DOMAIN x.fs
    <3> HAVE ~x.fault
    <3>1. Archive \in DOMAIN d.w.fs /\ d.w.fs[Archive].kind = "file" BY <1>2, <1>6 DEF Puts
    <3>2. Archive \in DOMAIN o.w.fs /\ o.w.fs[Archive].kind = "file"
      BY <2>6, <3>1, EntriesDiffer DEF Beside
    <3>3. Removable(o.w.fs, Archive) BY <3>2 DEF Removable, Exists
    <3> QED BY <2>7, <3>3, WithoutIs
  <2> QED BY <2>4, <2>5, <2>9, <2>10, <2>11, <2>12 DEF Extracts
<1> QED BY <1>5, <1>6

\* The directory of the archive is made inside Dest.
LEMMA LibMade ==
  ASSUME NEW f, IsTree(f), IsUnpacked(f), IsDir(f, Dest)
  PROVE  LET g == WithMode(AllMade(f, Lib), Lib, "0755")
         IN  IsTree(g) /\ Beside(f, g, {Lib}) /\ IsUnpacked(g)
<1> DEFINE a == AllMade(f, Lib)
           g == WithMode(a, Lib, "0755")
<1>1. /\ Prefixes(Srv) = {Srv} /\ Prefixes(Dest) = {Srv, Dest} /\ Prefixes(Lib) = {Srv, Dest, Lib}
      /\ Srv # Dest /\ Srv # <<>> /\ Dest # <<>> /\ Lib # <<>> /\ Lib # Dest
  BY PrefixesAre, PathsDiffer
<1>2. Srv \in DOMAIN f /\ f[Srv].kind = "dir" /\ Dest \in DOMAIN f /\ f[Dest].kind = "dir"
  <2>1. Follow(f, Dest) = Dest BY Following DEF IsUnpacked
  <2>2. Dest \in DOMAIN f /\ f[Dest].kind = "dir" BY <1>1, <2>1, PlainPath
  <2>3. Srv \in Prefixes(Dest) \ {Dest} BY <1>1
  <2> QED BY <2>2, <2>3, NodesAre
<1>3. \A q \in Prefixes(Lib) : q # <<>> /\ \A x \in Prefixes(q) \ {q} :
         x \in Prefixes(Lib) /\ (x \in DOMAIN f => f[x].kind = "dir")
  BY <1>1, <1>2
<1>4. IsTree(a) BY <1>3, TreeMade
<1>5. Beside(f, a, {Lib})
  <2>1. (\A q \in DOMAIN f : a[q] = f[q]) /\ DOMAIN a = DOMAIN f \cup {Srv, Dest, Lib}
    BY <1>1, AllMadeIs
  <2> QED BY <1>2, <2>1 DEF Beside
<1> HIDE DEF a
<1>6. Dest \notin {Lib} /\ Marker \notin {Lib} /\ {Lib} \cap {Main, More} = {}
  BY EntriesDiffer DEF Entries
<1>7. IsUnpacked(a) BY <1>4, <1>5, <1>6, BesideIsUnpacked
<1>8. "0755" \in Value BY Words
<1>9. SameShape(a, g) /\ Beside(a, g, {Lib})
  <2>1. Follow(a, Lib) = Lib BY <1>1, <1>4, Following
  <2> QED BY <1>4, <1>8, <2>1, ModeSet
<1>10. IsTree(g) BY <1>4, <1>9, SameShapeIsTree
<1> HIDE DEF g
<1>11. IsUnpacked(g) BY <1>4, <1>6, <1>7, <1>9, <1>10, BesideIsUnpacked
<1>12. Beside(f, g, {Lib}) BY <1>5, <1>9 DEF Beside
<1> QED BY <1>10, <1>11, <1>12 DEF g, a

\* The files of the archive are written one after the other; after a success
\* all are there.
LEMMA FilesPut ==
  ASSUME NEW u, FilesOK(u), IsUnpacked(u.fs), NEW data \in Value, NEW out \in PutFiles(u, data)
  PROVE  Fills(u, data, out)
<1>1. PICK d \in WriteFile(u, Main, data) :
         \/ out = d /\ d.res # "returned"
         \/ d.res = "returned" /\ out \in PutMore(d.w, data)
  BY DEF PutFiles, Then
<1>2. Puts(u, Main, data, d) BY PathPut
<1>3. /\ Keeps(u, d.w, {Main}) /\ IsUnpacked(d.w.fs) /\ FilesOK(d.w) /\ IsTree(d.w.fs)
      /\ d.res \in {"returned", "error"}
  BY <1>2 DEF Puts, Keeps, FilesOK
<1>4. Keeps(u, d.w, {Main, More}) BY <1>3, KeepsMore
<1>5. CASE d.res # "returned" BY <1>1, <1>3, <1>4, <1>5 DEF Fills
<1>6. CASE d.res = "returned"
  <2>1. Contents(d.w.fs, Main) = data BY <1>2, <1>6 DEF Puts
  <2>2. CASE More \in Members(data)
    <3>1. out \in WriteFile(d.w, More, data) BY <1>1, <1>6, <2>2 DEF PutMore
    <3>2. Puts(d.w, More, data, out) BY <1>3, <3>1, PathPut
    <3>3. /\ Keeps(d.w, out.w, {More}) /\ IsUnpacked(out.w.fs) /\ out.res \in {"returned", "error"}
          /\ Beside(d.w.fs, out.w.fs, {More})
      BY <3>2 DEF Puts, Keeps
    <3>4. Keeps(u, out.w, {Main, More})
      <4>1. Keeps(d.w, out.w, {Main, More}) BY <3>3, KeepsMore
      <4> QED BY <1>4, <4>1, KeepsTrans
    <3>5. Contents(out.w.fs, Main) = data
      <4>1. Main \notin {More} /\ Follow(d.w.fs, Main) = Main
        BY <1>3, EntriesDiffer, Following DEF Entries
      <4> QED BY <2>1, <3>3, <4>1, BesideIsSame
    <3>6. out.res = "returned" => Unpacked(out.w.fs, data)
      <4> HAVE out.res = "returned"
      <4>1. Contents(out.w.fs, More) = data BY <3>2 DEF Puts
      <4> QED BY <3>5, <4>1 DEF Unpacked, Members
    <3> QED BY <3>3, <3>4, <3>6 DEF Fills
  <2>3. CASE More \notin Members(data)
    <3>1. out \in Returns(d.w) BY <1>1, <1>6, <2>3 DEF PutMore
    <3>2. out.w = d.w /\ out.res = "returned" BY <3>1 DEF Returns, Ends
    <3>3. Unpacked(out.w.fs, data)
      <4>1. Members(data) \ {Lib} \subseteq {Main} BY <2>3 DEF Members
      <4> QED BY <2>1, <3>2, <4>1 DEF Unpacked
    <3> QED BY <1>3, <1>4, <3>2, <3>3 DEF Fills
  <2> QED BY <2>2, <2>3
<1> QED BY <1>5, <1>6

\* The extraction by the program itself, where the target has no tool.
LEMMA GoExtracts ==
  ASSUME NEW u, FilesOK(u), IsUnpacked(u.fs), IsDir(u.fs, Dest), NEW data \in Value,
         NEW out \in ExtractWithGo(u, data)
  PROVE  Extracts(u, data, out)
<1> DEFINE A == Entries \cup {Archive}
           g == WithMode(AllMade(u.fs, Lib), Lib, "0755")
           v == WithFiles(u, g)
<1>1. \/ ~Readable(data) /\ out \in Ends("error", u)
      \/ Readable(data) /\ (out \in PutFiles(Faulty(u), data) \/ out \in PutFiles(v, data))
  BY DEF ExtractWithGo, Try, PutFiles, PutMore
<1>2. CASE ~Readable(data) /\ out \in Ends("error", u)
  <2>1. out.w = u /\ out.res = "error" BY <1>2 DEF Ends
  <2>2. Keeps(u, u, A) BY KeepsSelf
  <2> QED BY <2>1, <2>2 DEF Extracts
<1>3. ASSUME NEW x, Keeps(u, x, A), IsUnpacked(x.fs), Archive \in DOMAIN x.fs => Archive \in DOMAIN u.fs,
             Readable(data), out \in PutFiles(x, data)
      PROVE  Extracts(u, data, out)
  <2>1. FilesOK(x) BY <1>3 DEF Keeps
  <2>2. Fills(x, data, out) BY <1>3, <2>1, FilesPut
  <2>3. Keeps(x, out.w, {Main, More}) /\ Beside(x.fs, out.w.fs, {Main, More})
    BY <2>2 DEF Fills, Keeps
  <2>4. Keeps(u, out.w, A)
    <3>1. Keeps(x, out.w, A) BY <2>3, KeepsMore DEF Entries
    <3> QED BY <1>3, <3>1, KeepsTrans
  <2>5. Archive \in DOMAIN out.w.fs => Archive \in DOMAIN u.fs
    <3>1. Archive \notin {Main, More} BY EntriesDiffer DEF Entries
    <3> QED BY <1>3, <2>3, <3>1 DEF Beside
  <2> QED BY <1>3, <2>2, <2>4, <2>5 DEF Extracts, Fills
<1>4. Keeps(u, Faulty(u), A) /\ Faulty(u).fs = u.fs BY KeepsFaulty
<1>5. /\ Keeps(u, v, A) /\ IsUnpacked(v.fs) /\ (Archive \in DOMAIN v.fs => Archive \in DOMAIN u.fs)
  <2>1. IsTree(g) /\ Beside(u.fs, g, {Lib}) /\ IsUnpacked(g) BY LibMade DEF FilesOK
  <2> HIDE DEF g
  <2>2. v.fs = g /\ v.fault = u.fault /\ FilesOK(v) /\ SameHost(u, v) BY <2>1, KeepsPut
  <2> HIDE DEF v
  <2>3. Keeps(u, v, {Lib}) BY <2>1, <2>2, KeepsIs
  <2>4. Keeps(u, v, A) BY <2>3, KeepsMore DEF Entries
  <2>5. Archive \in DOMAIN v.fs => Archive \in DOMAIN u.fs
    BY <2>1, <2>2, EntriesDiffer DEF Beside, Entries
  <2> QED BY <2>1, <2>2, <2>4, <2>5
<1> HIDE DEF v, A, g
<1> QED BY <1>1, <1>2, <1>3, <1>4, <1>5

\* What two parts of an unarchive keep up, both keep up.
LEMMA CarriesThen ==
  ASSUME NEW u, NEW v, NEW x, Carries(u, v), Carries(v, x)
  PROVE  Carries(u, x)
<1>1. SameHost(u, x) BY DEF Carries, SameHost
<1>2. ~x.fault => OwnFiles \cap DOMAIN x.fs \subseteq DOMAIN u.fs BY DEF Carries
<1> QED BY <1>1, <1>2 DEF Carries

\* An extraction after a part that left the marker alone.
LEMMA UnpacksThen ==
  ASSUME NEW u, NEW v, NEW data, NEW out, Carries(u, v), Unpacks(v, data, out),
         Contents(v.fs, Marker) = Contents(u.fs, Marker)
  PROVE  Unpacks(u, data, out)
BY CarriesThen DEF Unpacks

\* A failure that left the marker alone has marked nothing.
LEMMA UnpacksNot ==
  ASSUME NEW u, NEW data, NEW out, Carries(u, out.w), out.res = "error",
         Contents(out.w.fs, Marker) = Contents(u.fs, Marker)
  PROVE  Unpacks(u, data, out)
BY DEF Unpacks

\* Making a directory leaves marker and archive alone.
LEMMA MakesCarries ==
  ASSUME NEW u, FilesOK(u), IsUnpacked(u.fs), NEW p \in {Dest, StateDir}, NEW d \in Mkdir(u, p, "0755")
  PROVE  /\ Carries(u, d.w) /\ Contents(d.w.fs, Marker) = Contents(u.fs, Marker)
         /\ d.res \in {"returned", "error"}
         /\ d.res = "returned" => IsDir(d.w.fs, p)
         /\ IsDir(u.fs, Dest) => IsDir(d.w.fs, Dest)
<1>1. Makes(u, p, d)
  <2>1. "0755" \in Value BY Words
  <2> QED BY <2>1, DirectoryMade
<1>2. IsTree(u.fs) /\ Prefixes(p) \cap ({Main, More, Marker, Other} \cup OwnFiles) = {}
  <2>1. Prefixes(p) \subseteq {Srv, Dest, Var, StateDir} BY PrefixesAre
  <2>2. {Srv, Dest, Var, StateDir} \cap ({Main, More, Marker, Other} \cup OwnFiles) = {}
    BY PathsDiffer DEF OwnFiles
  <2> QED BY <2>1, <2>2 DEF FilesOK
<1>3. Grown(u.fs, d.w.fs, Prefixes(p)) BY <1>1 DEF Makes
<1>4. IsUnpacked(d.w.fs) /\ Contents(d.w.fs, Marker) = Contents(u.fs, Marker)
  BY <1>2, <1>3, GrownIsUnpacked
<1>5. OwnFiles \cap DOMAIN d.w.fs \subseteq DOMAIN u.fs BY <1>2, <1>3 DEF Grown
<1>6. IsDir(u.fs, Dest) => IsDir(d.w.fs, Dest) BY <1>2, <1>3, GrownIsSame
<1> QED BY <1>1, <1>4, <1>5, <1>6 DEF Makes, Keeps, Carries

----

\* The marker is written where all is unpacked, and nowhere else.
LEMMA ItIsMarked ==
  ASSUME NEW u, FilesOK(u), IsUnpacked(u.fs), NEW data \in Value, Readable(data), Unpacked(u.fs, data),
         NEW out \in MarkIt(u, data)
  PROVE  Unpacks(u, data, out)
<1>1. PICK d \in WriteFile(u, Marker, data) :
         \/ out = d /\ d.res # "returned"
         \/ d.res = "returned" /\ out \in Done(d.w)
  BY DEF MarkIt, Then
<1>0. /\ IsTree(u.fs) /\ Marker \in Written /\ Marker \notin {Main, More, Dest}
      /\ Follow(u.fs, Marker) = Marker /\ Marker \notin OwnFiles
  BY EntriesDiffer, PathsDiffer, Following DEF Entries, FilesOK, OwnFiles
<1>2. Writes(u, Marker, data, d) BY <1>0, FileWritten
<1>3. /\ Keeps(u, d.w, {Marker}) /\ d.res \in {"returned", "error"}
      /\ \/ d.w.fs = u.fs /\ d.res = "error"
         \/ /\ Marker \in DOMAIN d.w.fs /\ d.w.fs[Marker].kind = "file" /\ d.w.fs[Marker].data \in {"cut", data}
            /\ IsLink(d.w.fs, Dest) <=> IsLink(u.fs, Dest)
      /\ d.res = "returned" => d.w.fs[Marker].data = data
  BY <1>0, <1>2 DEF Writes
<1>4. FilesOK(d.w) /\ Beside(u.fs, d.w.fs, {Marker}) /\ IsTree(d.w.fs) BY <1>3 DEF Keeps, FilesOK
<1>5. Unpacked(d.w.fs, data)
  <2>1. {Marker} \cap {Main, More} = {} BY <1>0
  <2> QED BY <1>0, <1>4, <2>1, UnpackedKept
<1>6. d.w.fs = u.fs \/ /\ Marker \in DOMAIN d.w.fs /\ d.w.fs[Marker].kind = "file"
                       /\ Contents(d.w.fs, Marker) \in {"cut", data}
                       /\ Contents(d.w.fs, Marker) = d.w.fs[Marker].data
                       /\ IsLink(d.w.fs, Dest) <=> IsLink(u.fs, Dest)
  BY <1>0, <1>3, <1>4, HoldsData
<1>7. IsUnpacked(d.w.fs)
  <2>1. \A q \in {Main, More} : Exists(d.w.fs, q) => d.w.fs[q].kind = "file"
    BY <1>0, <1>4 DEF Beside, Exists, IsUnpacked
  <2> QED BY <1>6, <2>1 DEF IsUnpacked, Readable
<1>8. OwnFiles \cap DOMAIN d.w.fs \subseteq DOMAIN u.fs BY <1>0, <1>4 DEF Beside
<1>9. Carries(u, d.w) BY <1>3, <1>4, <1>7, <1>8 DEF Carries, Keeps
<1>10. \/ Contents(d.w.fs, Marker) \in {Contents(u.fs, Marker), "cut"}
       \/ Unpacked(d.w.fs, Contents(d.w.fs, Marker))
  BY <1>5, <1>6
<1>11. d.res = "returned" => Contents(d.w.fs, Marker) = data BY <1>0, <1>3, <1>4, HoldsData
<1>12. out.w = d.w /\ ((out.res = "changed" /\ d.res = "returned") \/ out.res = "error")
  BY <1>1, <1>3 DEF Done, Ends
<1> QED BY <1>9, <1>10, <1>11, <1>12 DEF Unpacks

\* The marker comes after the extraction.
LEMMA ExtractedIsMarked ==
  ASSUME NEW u, FilesOK(u), IsUnpacked(u.fs), IsDir(u.fs, Dest), NEW data \in Value,
         NEW out \in ToolThenMark(u, data) \cup GoThenMark(u, data)
  PROVE  Unpacks(u, data, out)
<1>1. PICK d \in ExtractWithTool(u, data) \cup ExtractWithGo(u, data) :
         \/ out = d /\ d.res # "returned"
         \/ d.res = "returned" /\ out \in MarkIt(d.w, data)
  BY DEF ToolThenMark, GoThenMark, Then
<1>2. Extracts(u, data, d) BY ToolExtracts, GoExtracts
<1>3. /\ Keeps(u, d.w, Entries \cup {Archive}) /\ IsUnpacked(d.w.fs) /\ d.res \in {"returned", "error"}
      /\ FilesOK(d.w) /\ Beside(u.fs, d.w.fs, Entries \cup {Archive}) /\ IsTree(u.fs)
  BY <1>2 DEF Extracts, Keeps, FilesOK
<1>4. Contents(d.w.fs, Marker) = Contents(u.fs, Marker)
  <2>1. Marker \notin Entries \cup {Archive} /\ Follow(u.fs, Marker) = Marker
    BY <1>3, EntriesDiffer, Following
  <2> QED BY <1>3, <2>1, BesideIsSame
<1>5. Carries(u, d.w)
  <2>1. ~d.w.fault => OwnFiles \cap DOMAIN d.w.fs \subseteq DOMAIN u.fs
    <3>1. {TempFile, TempDir} \cap (Entries \cup {Archive}) = {} BY EntriesDiffer DEF Temps
    <3>2. ~d.w.fault /\ Archive \in DOMAIN d.w.fs => Archive \in DOMAIN u.fs BY <1>2 DEF Extracts
    <3> QED BY <1>3, <3>1, <3>2 DEF OwnFiles, Beside
  <2> QED BY <1>3, <2>1 DEF Carries, Keeps
<1>6. CASE d.res # "returned" BY <1>1, <1>3, <1>4, <1>5, <1>6, UnpacksNot
<1>7. CASE d.res = "returned"
  <2>1. Readable(data) /\ Unpacked(d.w.fs, data) BY <1>2, <1>7 DEF Extracts
  <2>2. Unpacks(d.w, data, out) BY <1>1, <1>3, <1>7, <2>1, ItIsMarked
  <2> QED BY <1>4, <1>5, <2>2, UnpacksThen
<1> QED BY <1>6, <1>7

\* A failed call that did nothing keeps up all an unarchive keeps up.
LEMMA FaultCarries ==
  ASSUME NEW u, FilesOK(u), IsUnpacked(u.fs)
  PROVE  /\ Carries(u, u) /\ Carries(u, Faulty(u)) /\ Faulty(u).fs = u.fs
         /\ FilesOK(Faulty(u)) /\ Faulty(u).fault = TRUE
<1>1. FilesOK(Faulty(u)) /\ Faulty(u).fs = u.fs /\ Faulty(u).fault = TRUE /\ SameHost(u, Faulty(u))
  BY KeepsFaulty
<1>2. SameHost(u, u) BY DEF SameHost
<1> QED BY <1>1, <1>2 DEF Carries

\* The archive is put on the target, unpacked, marked and taken away again.
LEMMA ItIsExtracted ==
  ASSUME NEW u, FilesOK(u), IsUnpacked(u.fs), IsDir(u.fs, Dest), NEW data \in Value,
         NEW out \in ExtractIt(u, data)
  PROVE  Unpacks(u, data, out)
<1>1. \/ out \in GoThenMark(Faulty(u), data)
      \/ out \in ToolThenMark(u, data) \cup GoThenMark(u, data)
  BY DEF ExtractIt, AskOr
<1>2. CASE out \in GoThenMark(Faulty(u), data)
  <2>1. Carries(u, Faulty(u)) /\ FilesOK(Faulty(u)) /\ Faulty(u).fs = u.fs BY FaultCarries
  <2>2. Unpacks(Faulty(u), data, out) BY <1>2, <2>1, ExtractedIsMarked
  <2> QED BY <2>1, <2>2, UnpacksThen
<1> QED BY <1>1, <1>2, ExtractedIsMarked

\* The extraction from the directory of the markers on.
LEMMA FromStateIs ==
  ASSUME NEW u, FilesOK(u), IsUnpacked(u.fs), IsDir(u.fs, Dest), NEW data \in Value,
         NEW out \in FromState(u, data)
  PROVE  Unpacks(u, data, out)
<1>1. PICK d \in Mkdir(u, StateDir, "0755") :
         \/ out = d /\ d.res # "returned"
         \/ d.res = "returned" /\ out \in ExtractIt(d.w, data)
  BY DEF FromState, Then
<1>2. /\ Carries(u, d.w) /\ Contents(d.w.fs, Marker) = Contents(u.fs, Marker)
      /\ d.res \in {"returned", "error"} /\ IsDir(d.w.fs, Dest)
  BY MakesCarries
<1>3. CASE d.res # "returned" BY <1>1, <1>2, <1>3, UnpacksNot
<1>4. CASE d.res = "returned"
  <2>1. Unpacks(d.w, data, out) BY <1>1, <1>2, <1>4, ItIsExtracted DEF Carries
  <2> QED BY <1>2, <2>1, UnpacksThen
<1> QED BY <1>3, <1>4

\* The extraction from Dest on.
LEMMA FromDestIs ==
  ASSUME NEW u, FilesOK(u), IsUnpacked(u.fs), NEW data \in Value, NEW out \in FromDest(u, data)
  PROVE  Unpacks(u, data, out)
<1>1. PICK d \in Mkdir(u, Dest, "0755") :
         \/ out = d /\ d.res # "returned"
         \/ d.res = "returned" /\ out \in FromState(d.w, data)
  BY DEF FromDest, Then
<1>2. /\ Carries(u, d.w) /\ Contents(d.w.fs, Marker) = Contents(u.fs, Marker)
      /\ d.res \in {"returned", "error"}
      /\ d.res = "returned" => IsDir(d.w.fs, Dest)
  BY MakesCarries
<1>3. CASE d.res # "returned" BY <1>1, <1>2, <1>3, UnpacksNot
<1>4. CASE d.res = "returned"
  <2>1. Unpacks(d.w, data, out) BY <1>1, <1>2, <1>4, FromStateIs DEF Carries
  <2> QED BY <1>2, <2>1, UnpacksThen
<1> QED BY <1>3, <1>4

\* The unarchive op, whole: after a success the archive is unpacked and
\* marked; the marker never stands for an archive that is not unpacked.
LEMMA ArchiveExecuted ==
  ASSUME NEW c \in FileConfig, c.kind = "unarchive", NEW u, FilesOK(u), IsUnpacked(u.fs),
         NEW out \in ExecuteArchive(c, u)
  PROVE  Archived(c, u, out)
<1> DEFINE data == Source(c, u)
<1>0. data \in Value /\ c.source \in {"local", "remote"} BY FileIs, SourceIsValue
<1>1. \/ out \in Ends("error", u)
      \/ /\ data # "none"
         /\ \/ Contents(u.fs, Marker) = data /\ out \in Ends("unchanged", u)
            \/ out \in FromDest(Faulty(u), data)
            \/ out \in FromDest(u, data)
  BY DEF ExecuteArchive, AskOr, FromDest, FromState, ExtractIt, ToolThenMark, GoThenMark, MarkIt
<1> HIDE DEF data
<1>2. Carries(u, u) /\ Carries(u, Faulty(u)) /\ Faulty(u).fs = u.fs /\ FilesOK(Faulty(u))
  BY FaultCarries
<1>3. CASE out \in Ends("error", u)
  <2>1. out.w = u /\ out.res = "error" BY <1>3 DEF Ends
  <2> QED BY <1>2, <2>1 DEF Archived
<1>4. CASE data # "none" /\ Contents(u.fs, Marker) = data /\ out \in Ends("unchanged", u)
  <2>1. out.w = u /\ out.res = "unchanged" BY <1>4 DEF Ends
  <2> QED BY <1>2, <1>4, <2>1 DEF Archived, Marked, data
<1>5. ASSUME data # "none", Unpacks(u, data, out) PROVE Archived(c, u, out)
  <2>1. Source(c, out.w) = data BY <1>0, <1>5 DEF Unpacks, Carries, SameHost, Source, data
  <2> QED BY <1>5, <2>1 DEF Unpacks, Archived, Marked
<1>6. CASE data # "none" /\ out \in FromDest(Faulty(u), data)
  <2>1. Unpacks(Faulty(u), data, out) BY <1>0, <1>2, <1>6, FromDestIs
  <2>2. Unpacks(u, data, out) BY <1>2, <2>1, UnpacksThen
  <2> QED BY <1>5, <1>6, <2>2
<1>7. CASE data # "none" /\ out \in FromDest(u, data) BY <1>0, <1>5, <1>7, FromDestIs
<1> QED BY <1>1, <1>3, <1>4, <1>6, <1>7

\* The target of a file step is its files.
LEMMA FilesAreTarget ==
  ASSUME NEW c \in FileConfig, NEW u, NEW v, v.fs = u.fs
  PROVE  Target(c, v) = Target(c, u)
<1>1. FileTarget(v) = FileTarget(u) BY DEF FileTarget
<1>2. Target(c, v) = FileTarget(v) /\ Target(c, u) = FileTarget(u) BY FilesAre
<1> QED BY <1>1, <1>2

\* An op before which nothing but a download comes, and that keeps the host.
LEMMA MainIsExecuted ==
  ASSUME NEW c \in FileConfig, NEW u, NEW out, FilesOK(out.w), SameHost(u, out.w),
         u.fault => out.w.fault,
         c.kind = "unarchive" => IsUnpacked(out.w.fs),
         out.res \in {"changed", "unchanged", "error", "panic"},
         ~out.w.fault /\ out.res \in {"changed", "unchanged"} => SeesTo(c, MainOp(c), out.w),
         out.res = "unchanged" => out.w.fs = u.fs
  PROVE  Executed(c, MainOp(c), u, out)
<1>1. IsWorld(c, out.w) BY FilesAre, FileWorldIs
<1>2. SeesTo(c, "download", u) => SeesTo(c, "download", out.w)
  <2>1. HasCache(c, u) <=> HasCache(c, out.w) BY DEF HasCache, SameHost
  <2> QED BY <2>1, FileSees
<1>3. \A p \in Ops(c) \ {MainOp(c)} : MainOp(c) \notin Deps(c, p) => p = "download" BY FileOpsAre
<1>4. out.w.fs = u.fs => Target(c, out.w) = Target(c, u) BY FilesAreTarget
<1>5. \A p \in Ops(c) \ {MainOp(c)} :
         MainOp(c) \notin Deps(c, p) /\ SeesTo(c, p, u) => SeesTo(c, p, out.w)
  BY <1>2, <1>3
<1> DEFINE main == MainOp(c)
<1>6. out.res \in {"changed", "unchanged"} /\ ~out.w.fault =>
         /\ SeesTo(c, main, out.w)
         /\ out.res = "unchanged" => Target(c, out.w) = Target(c, u)
  BY <1>4
<1> HIDE DEF main
<1>7. Executed(c, main, u, out) BY <1>1, <1>5, <1>6 DEF Executed, main
<1> QED BY <1>7 DEF main

\* The ops of a file step do what they are there for; the mode, the owner and
\* the file do not undo each other.
LEMMA FileExecuted ==
  ASSUME NEW c \in Config, c \in FileConfig, NEW o \in Ops(c), NEW u, IsWorld(c, u),
         NEW out \in Execute(c, o, u)
  PROVE  Executed(c, o, u, out)
<1>0. FilesOK(u) /\ (c.kind = "unarchive" => IsUnpacked(u.fs)) BY FilesAre, FileWorldIs
<1>1. out \in FileExecute(c, o, u) /\ o \in {MainOp(c), "download", "mode", "owner"}
  BY FilesAre, FileOpsAre
<1>2. /\ c.mode \in Value /\ c.owner \in Value /\ Deep(c) \in BOOLEAN
      /\ Deep(c) => ~IsLink(u.fs, Dest)
  BY <1>0, FileIs DEF Deep, IsUnpacked
<1>t. \A v : v.fs = u.fs => Target(c, v) = Target(c, u) BY FilesAreTarget
<1>3. CASE o = "mode"
  <2>1. out \in ExecuteMode(u, Dest, c.mode, Deep(c)) BY <1>1, <1>3 DEF FileExecute
  <2>2. Sets(u, "mode", "owner", c.mode, Deep(c), out) BY <1>0, <1>2, <2>1, ModeExecuted
  <2>3. Reshapes(u, out.w, "owner") /\ (u.fault => out.w.fault) BY <2>2 DEF Sets, Reshapes
  <2>4. /\ IsWorld(c, out.w)
        /\ \A p \in {"dir", "link", "content", "archive", "download", "owner"} :
              SeesTo(c, p, u) => SeesTo(c, p, out.w)
    BY <1>0, <2>3, ReshapedSees
  <2>5. out.res \in {"changed", "unchanged"} => SeesTo(c, "mode", out.w) BY <2>2, FileSees DEF Sets
  <2>6. Ops(c) \ {o} \subseteq {"dir", "link", "content", "archive", "download", "owner"}
    BY <1>3, FileOpsAre
  <2>7. out.res = "unchanged" => Target(c, out.w) = Target(c, u) BY <1>t, <2>2 DEF Sets
  <2>8. out.res \in {"changed", "unchanged", "error", "panic"} BY <2>2 DEF Sets
  <2> QED BY <1>3, <2>3, <2>4, <2>5, <2>6, <2>7, <2>8 DEF Executed
<1>4. CASE o = "owner"
  <2>1. out \in ExecuteOwner(u, Dest, c.owner, Deep(c)) BY <1>1, <1>4 DEF FileExecute
  <2>2. Sets(u, "owner", "mode", c.owner, Deep(c), out) BY <1>0, <1>2, <2>1, OwnerExecuted
  <2>3. Reshapes(u, out.w, "mode") /\ (u.fault => out.w.fault) BY <2>2 DEF Sets, Reshapes
  <2>4. /\ IsWorld(c, out.w)
        /\ \A p \in {"dir", "link", "content", "archive", "download", "mode"} :
              SeesTo(c, p, u) => SeesTo(c, p, out.w)
    BY <1>0, <2>3, ReshapedSees
  <2>5. out.res \in {"changed", "unchanged"} => SeesTo(c, "owner", out.w) BY <2>2, FileSees DEF Sets
  <2>6. Ops(c) \ {o} \subseteq {"dir", "link", "content", "archive", "download", "mode"}
    BY <1>4, FileOpsAre
  <2>7. out.res = "unchanged" => Target(c, out.w) = Target(c, u) BY <1>t, <2>2 DEF Sets
  <2>8. out.res \in {"changed", "unchanged", "error", "panic"} BY <2>2 DEF Sets
  <2> QED BY <1>4, <2>3, <2>4, <2>5, <2>6, <2>7, <2>8 DEF Executed
<1>5. CASE o = "download"
  <2>1. out \in ExecuteDownload(c, u) BY <1>1, <1>5 DEF FileExecute
  <2>2. Fetches(c, u, out) BY <1>0, <2>1, CopyFetched
  <2>3. IsWorld(c, out.w) /\ (u.fault => out.w.fault) /\ out.w.fs = u.fs
        /\ out.res \in {"changed", "unchanged", "error", "panic"}
    BY <1>0, <2>2, FilesAre, FileWorldIs DEF Fetches
  <2>4. \A p \in Ops(c) \ {o} : o \notin Deps(c, p) => p \in {"mode", "owner"} BY <1>5, FileOpsAre
  <2>5. \A p \in {"mode", "owner"} : SeesTo(c, p, u) => SeesTo(c, p, out.w) BY <2>3, FileSees
  <2>6. out.res \in {"changed", "unchanged"} /\ ~out.w.fault => SeesTo(c, o, out.w)
    BY <1>5, <2>2, FileSees DEF Fetches
  <2> QED BY <1>t, <2>3, <2>4, <2>5, <2>6 DEF Executed
<1>6. CASE o = MainOp(c)
  <2>1. CASE o = "dir"
    <3>1. out \in ExecuteDir(u) BY <1>1, <2>1 DEF FileExecute
    <3>2. Lands(u, out) /\ (out.res \in {"changed", "unchanged"} => IsDir(out.w.fs, Dest))
      BY <1>0, <3>1, DirExecuted
    <3>3. c.kind # "unarchive" BY <1>6, <2>1, FileOpsAre
    <3>4. out.res \in {"changed", "unchanged"} => SeesTo(c, MainOp(c), out.w)
      BY <1>6, <2>1, <3>2, FileSees
    <3> QED BY <1>6, <3>2, <3>3, <3>4, MainIsExecuted DEF Lands
  <2>2. CASE o = "link"
    <3>1. out \in ExecuteLink(u) BY <1>1, <2>2 DEF FileExecute
    <3>2. Lands(u, out) /\ (out.res \in {"changed", "unchanged"} /\ ~out.w.fault => LinkInPlace(out.w.fs))
      BY <1>0, <3>1, LinkExecuted
    <3>3. c.kind # "unarchive" BY <1>6, <2>2, FileOpsAre
    <3>4. ~out.w.fault /\ out.res \in {"changed", "unchanged"} => SeesTo(c, MainOp(c), out.w)
      BY <1>6, <2>2, <3>2, FileSees
    <3> QED BY <1>6, <3>2, <3>3, <3>4, MainIsExecuted DEF Lands
  <2>3. CASE o = "content"
    <3>1. c.kind \in {"copy", "template"} /\ c.source # "none" BY <1>6, <2>3, FileOpsAre, FileIs
    <3>2. Copies(c, u, out) BY <1>0, <1>1, <2>3, <3>1, ContentExecuted
    <3>3. Keeps(u, out.w, Touched(u)) BY <3>2 DEF Copies
    <3>4. FilesOK(out.w) /\ SameHost(u, out.w) /\ (u.fault => out.w.fault) BY <3>3 DEF Keeps
    <3>5. out.res \in {"changed", "unchanged"} => SeesTo(c, MainOp(c), out.w)
      <4> HAVE out.res \in {"changed", "unchanged"}
      <4>1. Content(c, u) # "none" /\ Contents(out.w.fs, Dest) = Content(c, u) BY <3>2 DEF Copies
      <4>2. HasContent(c, out.w) BY <1>0, <3>1, <3>3, <4>1, CopiedHasContent
      <4> QED BY <1>6, <2>3, <4>2, FileSees
    <3>6. out.res \in {"changed", "unchanged", "error", "panic"} /\ (out.res = "unchanged" => out.w.fs = u.fs)
      BY <3>2 DEF Copies
    <3> QED BY <1>6, <3>1, <3>4, <3>5, <3>6, MainIsExecuted
  <2>4. CASE o = "archive"
    <3>1. c.kind = "unarchive" BY <1>6, <2>4, FileOpsAre
    <3>2. out \in ExecuteArchive(c, u) BY <1>1, <2>4 DEF FileExecute
    <3>3. Archived(c, u, out) BY <1>0, <3>1, <3>2, ArchiveExecuted
    <3>4. FilesOK(out.w) /\ SameHost(u, out.w) /\ (u.fault => out.w.fault) /\ IsUnpacked(out.w.fs)
      BY <3>3 DEF Archived, Carries
    <3>5. out.res \in {"changed", "unchanged"} => SeesTo(c, MainOp(c), out.w)
      BY <1>6, <2>4, <3>3, FileSees DEF Archived
    <3>6. out.res \in {"changed", "unchanged", "error", "panic"} /\ (out.res = "unchanged" => out.w.fs = u.fs)
      BY <3>3 DEF Archived
    <3> QED BY <1>6, <3>4, <3>5, <3>6, MainIsExecuted
  <2> QED BY <1>6, <2>1, <2>2, <2>3, <2>4, FileOpsAre
<1> QED BY <1>1, <1>3, <1>4, <1>5, <1>6

----
\* What is in the cache is what was declared, unless its ETag is another copy's.
LEMMA CacheIsDeclared ==
  ASSUME NEW c \in FileConfig, NEW u, FilesOK(u), c.source \in {"local", "remote", "target"},
         c.source = "remote" => HasCache(c, u) /\ ~Mislabelled(c, u)
  PROVE  Source(c, u) = Declared(c, u)
<1>1. CASE c.source = "remote" BY <1>1 DEF Source, Declared, HasCache, Mislabelled
<1>2. CASE c.source # "remote" BY <1>2 DEF Source, Declared
<1> QED BY <1>1, <1>2

\* What is seen to in the whole tree is so of every path the step manages.
LEMMA TreeIsManaged ==
  ASSUME NEW c \in FileConfig, NEW u, FilesOK(u), c.kind = "unarchive" => IsUnpacked(u.fs),
         NEW field, NEW value, TreeHas(u.fs, Dest, Deep(c), field, value)
  PROVE  \A q \in Managed(c, u) : Exists(u.fs, q) /\ u.fs[q][field] = value
<1>1. IsTree(u.fs) BY DEF FilesOK
<1>2. CASE Deep(c)
  <2>1. Follow(u.fs, Dest) = Dest BY <1>1, <1>2, Following DEF Deep, IsUnpacked
  <2>2. \A q \in Below(u.fs, Dest) : Follow(u.fs, q) = q BY <1>1, BelowIs
  <2>3. Dest \in DOMAIN u.fs BY <1>1, <2>1, DestStats DEF TreeHas
  <2> QED BY <1>2, <2>1, <2>2, <2>3 DEF TreeHas, Managed, Tree, Below, Exists
<1>3. CASE ~Deep(c) BY <1>1, <1>3, DestStats DEF TreeHas, Managed, Exists
<1> QED BY <1>2, <1>3

\* A file step has reached what it declares when each of its ops has seen to
\* its part.
LEMMA FileSettled ==
  ASSUME NEW c \in Config, c \in FileConfig, NEW u, IsWorld(c, u), \A o \in Ops(c) : SeesTo(c, o, u)
  PROVE  Desired(c, u) \/ Unseen(c, u)
<1>0. FilesOK(u) /\ (c.kind = "unarchive" => IsUnpacked(u.fs)) BY FilesAre, FileWorldIs
<1> SUFFICES ASSUME ~FileUnseen(c, u) PROVE FileDesired(c, u) BY FilesAre
<1>1. \A op \in {"mode", "owner"} :
         op \in Ops(c) => \A q \in Managed(c, u) : Exists(u.fs, q) /\ u.fs[q][op] = c[op]
  BY <1>0, FileSees, TreeIsManaged
<1>2. OwnerAndMode(c, u) BY <1>1, FileOpsAre DEF OwnerAndMode
<1>3. SeesTo(c, MainOp(c), u) /\ (c.source = "remote" => HasCache(c, u)) BY FileOpsAre, FileSees
<1>4. c.kind = "dir" => IsDir(u.fs, Dest) BY <1>3, FileOpsAre, FileSees
<1>5. c.kind = "symlink" => IsLink(u.fs, Dest) /\ u.fs[Dest].to = Other
  BY <1>3, FileOpsAre, FileSees DEF LinkInPlace
<1>m. c.kind \in {"copy", "template", "unarchive"} => Source(c, u) = Declared(c, u)
  <2> HAVE c.kind \in {"copy", "template", "unarchive"}
  <2>1. IF c.kind = "unarchive" THEN Marked(c, u) ELSE HasContent(c, u)
    BY <1>3, FileOpsAre, FileSees
  <2>2. c.source = "remote" => ~Mislabelled(c, u) BY <1>2, <2>1 DEF FileUnseen
  <2> QED BY <1>0, <1>3, <2>2, FileIs, CacheIsDeclared
<1>6. c.kind \in {"copy", "template"} => Contents(u.fs, Dest) = Declared(c, u)
  BY <1>3, <1>m, FileOpsAre, FileSees DEF HasContent, Rendered
<1>7. c.kind = "unarchive" => Unpacked(u.fs, Declared(c, u))
  <2> HAVE c.kind = "unarchive"
  <2>1. Marked(c, u) BY <1>3, FileOpsAre, FileSees
  <2>2. Contents(u.fs, Marker) = Declared(c, u) BY <1>m, <2>1 DEF Marked
  <2> QED BY <1>2, <2>2 DEF FileUnseen
<1> QED BY <1>2, <1>4, <1>5, <1>6, <1>7 DEF FileDesired

----
\* A world and the same world with another fault flag.

\* A group step does not see the fault flag.
LEMMA GroupAside ==
  ASSUME NEW c \in HostConfig, c.kind = "group", NEW u, IsWorld(c, u), NEW b \in BOOLEAN
  PROVE  Aside(c, u, b)
<1> DEFINE v == WithFault(u, b)
<1>1. u \in GroupWorld BY GroupIs
<1>2. v \in GroupWorld /\ v.fault = b /\ v.gid = u.gid /\ u.fault \in BOOLEAN
  BY <1>1, GroupFault DEF GroupWorld
<1>3. WithFault(v, FALSE) = WithFault(u, FALSE) BY FaultTwice
<1> HIDE DEF v
<1>4. \A o \in Ops(c) : SeesTo(c, o, u) => SeesTo(c, o, v)
  <2>1. Desired(c, u) \/ Unseen(c, u) => Desired(c, v) \/ Unseen(c, v)
    BY <1>2, GroupIs DEF GroupDesired
  <2>2. Ops(c) \subseteq {"group", "no group"} BY GroupIs DEF GroupOps
  <2> QED BY <2>1, <2>2 DEF SeesTo
<1>5. IsWorld(c, v) /\ Target(c, v) = Target(c, u) BY <1>2, <1>3, GroupIs
<1> QED BY <1>2, <1>4, <1>5 DEF Aside, Same, v

\* A user step does not see the fault flag.
LEMMA UserAside ==
  ASSUME NEW c \in HostConfig, c.kind = "user", NEW u, IsWorld(c, u), NEW b \in BOOLEAN
  PROVE  Aside(c, u, b)
<1> DEFINE v == WithFault(u, b)
<1>1. u \in UserWorld BY UserIs
<1>2. /\ v \in UserWorld /\ v.fault = b /\ v.there = u.there /\ v.shell = u.shell
      /\ v.homedir = u.homedir /\ v.groups = u.groups /\ v.password = u.password /\ v.home = u.home
  BY <1>1, UserFault
<1>3. WithFault(v, FALSE) = WithFault(u, FALSE) /\ u.fault \in BOOLEAN
  <2>1. u.fault \in BOOLEAN BY <1>1 DEF UserWorld
  <2> QED BY <2>1, FaultTwice
<1> HIDE DEF v
<1>4. \A o \in Ops(c) : SeesTo(c, o, u) => SeesTo(c, o, v)
  <2>0. AccountDrifts(c, v, v.groups) <=> AccountDrifts(c, u, u.groups) BY <1>2 DEF AccountDrifts
  <2>1. Desired(c, u) => Desired(c, v)
    <3>1. UserDesired(c, u) => UserDesired(c, v) BY <1>2, <2>0 DEF UserDesired
    <3> QED BY <3>1, UserIs
  <2>2. Unseen(c, u) => Unseen(c, v)
    <3>1. UserUnseen(c, u) => UserUnseen(c, v) BY <1>2, <2>0 DEF UserUnseen
    <3> QED BY <3>1, UserIs
  <2>3. Ops(c) \subseteq {"user", "no user"} BY UserIs DEF UserOps
  <2> QED BY <2>1, <2>2, <2>3 DEF SeesTo
<1>5. IsWorld(c, v) /\ Target(c, v) = Target(c, u) BY <1>2, <1>3, UserIs
<1> QED BY <1>2, <1>3, <1>4, <1>5 DEF Aside, Same, v

\* A service step does not see the fault flag.
LEMMA ServiceAside ==
  ASSUME NEW c \in HostConfig, c.kind = "service", NEW u, IsWorld(c, u), NEW b \in BOOLEAN
  PROVE  Aside(c, u, b)
<1> DEFINE v == WithFault(u, b)
<1>1. u \in ServiceWorld BY ServiceIs
<1>2. /\ v \in ServiceWorld /\ v.fault = b /\ v.unit = u.unit /\ v.loaded = u.loaded
      /\ v.running = u.running /\ v.enabled = u.enabled
  BY <1>1, ServiceFault
<1>3. WithFault(v, FALSE) = WithFault(u, FALSE) /\ u.fault \in BOOLEAN
  <2>1. u.fault \in BOOLEAN BY <1>1 DEF ServiceWorld
  <2> QED BY <2>1, FaultTwice
<1> HIDE DEF v
<1>4. \A o \in Ops(c) : SeesTo(c, o, u) => SeesTo(c, o, v)
  <2>1. Desired(c, u) => Desired(c, v) BY <1>2, ServiceIs DEF ServiceDesired
  <2>2. ~Unseen(c, u) BY HostConfigs DEF Unseen, HostUnseen, HostKinds, FileKinds, CommandKinds
  <2>3. Ops(c) \subseteq {"active", "enabled", "restarted", "reloaded"} BY ServiceOpsAre
  <2> QED BY <1>2, <2>1, <2>2, <2>3 DEF SeesTo
<1>5. IsWorld(c, v) /\ Target(c, v) = Target(c, u) BY <1>2, <1>3, ServiceIs
<1> QED BY <1>2, <1>3, <1>4, <1>5 DEF Aside, Same, v

\* A sysctl step does not see the fault flag.
LEMMA SysctlAside ==
  ASSUME NEW c \in HostConfig, c.kind = "sysctl", NEW u, IsWorld(c, u), NEW b \in BOOLEAN
  PROVE  Aside(c, u, b)
<1> DEFINE v == WithFault(u, b)
<1>1. u \in SysctlWorld BY SysctlIs
<1>2. v \in SysctlWorld /\ v.fault = b /\ v.live = u.live /\ v.dropin = u.dropin
  BY <1>1, SysctlFault
<1>3. WithFault(v, FALSE) = WithFault(u, FALSE) /\ u.fault \in BOOLEAN
  <2>1. u.fault \in BOOLEAN BY <1>1 DEF SysctlWorld
  <2> QED BY <2>1, FaultTwice
<1> HIDE DEF v
<1>4. \A o \in Ops(c) : SeesTo(c, o, u) => SeesTo(c, o, v)
  <2>3. Ops(c) \subseteq {"set", "persist", "cleanup"} BY SysctlIs DEF SysctlOps
  <2> QED BY <1>2, <2>3 DEF SeesTo
<1>5. IsWorld(c, v) /\ Target(c, v) = Target(c, u) BY <1>2, <1>3, SysctlIs
<1> QED BY <1>2, <1>3, <1>4, <1>5 DEF Aside, Same, v

\* A mount step does not see the fault flag.
LEMMA MountAside ==
  ASSUME NEW c \in HostConfig, c.kind = "mount", NEW u, IsWorld(c, u), NEW b \in BOOLEAN
  PROVE  Aside(c, u, b)
<1> DEFINE v == WithFault(u, b)
<1>1. u \in MountWorld /\ (u.mounted # "none" => u.dir) BY MountIs
<1>2. /\ v \in MountWorld /\ v.fault = b /\ v.fstab = u.fstab /\ v.others = u.others
      /\ v.dir = u.dir /\ v.mounted = u.mounted /\ v.helper = u.helper
  BY <1>1, MountFault
<1>3. WithFault(v, FALSE) = WithFault(u, FALSE) /\ u.fault \in BOOLEAN
  <2>1. u.fault \in BOOLEAN BY <1>1 DEF MountWorld
  <2> QED BY <2>1, FaultTwice
<1> HIDE DEF v
<1>4. \A o \in Ops(c) : SeesTo(c, o, u) => SeesTo(c, o, v)
  <2>1. Desired(c, u) => Desired(c, v) BY <1>2, MountIs DEF MountDesired
  <2>2. Unseen(c, u) => Unseen(c, v) BY <1>2, MountIs DEF MountUnseen
  <2>3. Ops(c) \subseteq {"main"} BY MountIs
  <2> QED BY <2>1, <2>2, <2>3 DEF SeesTo
<1>5. IsWorld(c, v) /\ Target(c, v) = Target(c, u) BY <1>1, <1>2, <1>3, MountIs
<1> QED BY <1>2, <1>3, <1>4, <1>5 DEF Aside, Same, v

\* A firewall step does not see the fault flag.
LEMMA FirewallAside ==
  ASSUME NEW c \in HostConfig, c.kind = "firewall", NEW u, IsWorld(c, u), NEW b \in BOOLEAN
  PROVE  Aside(c, u, b)
<1> DEFINE v == WithFault(u, b)
<1>1. u \in FirewallWorld BY FirewallIs
<1>2. /\ v \in FirewallWorld /\ v.fault = b /\ v.ufw = u.ufw /\ v.firewalld = u.firewalld
      /\ v.added = u.added /\ v.permanent = u.permanent /\ v.runtime = u.runtime
      /\ v.guest = u.guest
  BY <1>1, FirewallFault
<1>3. WithFault(v, FALSE) = WithFault(u, FALSE) /\ u.fault \in BOOLEAN
  <2>1. u.fault \in BOOLEAN BY <1>1 DEF FirewallWorld
  <2> QED BY <2>1, FaultTwice
<1> HIDE DEF v
<1>4. \A o \in Ops(c) : SeesTo(c, o, u) => SeesTo(c, o, v)
  <2>1. Desired(c, u) => Desired(c, v) BY <1>2, FirewallIs DEF RuleDesired
  <2>2. Unseen(c, u) => Unseen(c, v) BY <1>2, FirewallIs DEF RuleUnseen
  <2>3. Ops(c) \subseteq {"main"} BY FirewallIs
  <2> QED BY <2>1, <2>2, <2>3 DEF SeesTo
<1>5. IsWorld(c, v) /\ Target(c, v) = Target(c, u) BY <1>2, <1>3, FirewallIs
<1> QED BY <1>2, <1>3, <1>4, <1>5 DEF Aside, Same, v

\* A package step does not see the fault flag.
LEMMA PkgAside ==
  ASSUME NEW c \in PkgConfig, NEW u, IsWorld(c, u), NEW b \in BOOLEAN
  PROVE  Aside(c, u, b)
<1> DEFINE v == WithFault(u, b)
<1>1. IsPkgWorld(u) BY PkgIs
<1>2. /\ IsPkgWorld(v) /\ v.fault = b /\ v.have = u.have /\ v.mirror = u.mirror
      /\ v.index = u.index /\ v.fresh = u.fresh /\ v.key = u.key /\ v.repo = u.repo
      /\ v.remote = u.remote /\ v.cache = u.cache /\ v.meta = u.meta
  BY <1>1, PkgFault
<1>3. u.fault \in BOOLEAN BY <1>1, PkgFaulty
<1> HIDE DEF v
<1>4. \A o \in Ops(c) : SeesTo(c, o, u) => SeesTo(c, o, v)
  <2>1. Actionable(c, v) = Actionable(c, u) BY <1>2 DEF Actionable, Missing, Upgradable
  <2>2. HasCache(c, u) => HasCache(c, v) BY <1>2 DEF HasCache
  <2>3. Ops(c) \subseteq {"pkgs", "repo", "key", "download"} BY PkgOpsAre
  <2> QED BY <1>2, <2>1, <2>2, <2>3, PkgSees
<1>5. IsWorld(c, v) /\ Target(c, v) = Target(c, u) BY <1>2, PkgIs
<1> QED BY <1>2, <1>3, <1>4, <1>5 DEF Aside, Same, v

\* A run step does not see the fault flag.
LEMMA RunAside ==
  ASSUME NEW c \in CommandConfig, c.kind = "run", NEW u, IsWorld(c, u), NEW b \in BOOLEAN
  PROVE  Aside(c, u, b)
<1> DEFINE v == WithFault(u, b)
<1>1. u \in RunWorld BY RunIs
<1>2. v \in RunWorld /\ v.fault = b /\ v.holds = u.holds BY <1>1, RunFault
<1>3. WithFault(v, FALSE) = WithFault(u, FALSE) /\ u.fault \in BOOLEAN
  <2>1. u.fault \in BOOLEAN BY <1>1 DEF RunWorld
  <2> QED BY <2>1, FaultTwice
<1> HIDE DEF v
<1>4. \A o \in Ops(c) : SeesTo(c, o, u) => SeesTo(c, o, v) BY <1>2, RunIs DEF SeesTo
<1>5. IsWorld(c, v) /\ Target(c, v) = Target(c, u) BY <1>2, <1>3, RunIs
<1> QED BY <1>2, <1>3, <1>4, <1>5 DEF Aside, Same, v

\* A run_set step does not see the fault flag.
LEMMA RunSetAside ==
  ASSUME NEW c \in CommandConfig, c.kind = "run_set", NEW u, IsWorld(c, u), NEW b \in BOOLEAN
  PROVE  Aside(c, u, b)
<1> DEFINE v == WithFault(u, b)
<1>1. u \in RunSetWorld BY RunSetIs
<1>2. /\ v \in RunSetWorld /\ v.fault = b /\ v.listed = u.listed /\ v.live = u.live
      /\ v.adds = u.adds /\ v.removes = u.removes
  BY <1>1, RunSetFault
<1>3. u.fault \in BOOLEAN BY <1>1 DEF RunSetWorld
<1> HIDE DEF v
<1>4. \A o \in Ops(c) : SeesTo(c, o, u) => SeesTo(c, o, v) BY <1>2, RunSetIs
<1>5. IsWorld(c, v) /\ Target(c, v) = Target(c, u) BY <1>2, RunSetIs
<1> QED BY <1>2, <1>3, <1>4, <1>5 DEF Aside, Same, v

\* A container step does not see the fault flag.
LEMMA ContainerAside ==
  ASSUME NEW c \in ContainerConfig, NEW u, IsWorld(c, u), NEW b \in BOOLEAN
  PROVE  Aside(c, u, b)
<1> DEFINE v == WithFault(u, b)
<1>1. u \in ContainerWorld BY ContainerIs
<1>2. /\ v \in ContainerWorld /\ v.fault = b /\ v.daemon = u.daemon /\ v.there = u.there
      /\ v.image = u.image /\ v.env = u.env /\ v.running = u.running /\ v.health = u.health
      /\ v.namesake = u.namesake /\ v.born = u.born /\ v.source = u.source /\ v.sound = u.sound
  BY <1>1, ContainerFault
<1>3. WithFault(v, FALSE) = WithFault(u, FALSE) /\ u.fault \in BOOLEAN
  <2>1. u.fault \in BOOLEAN BY <1>1 DEF ContainerWorld
  <2> QED BY <2>1, FaultTwice
<1> HIDE DEF v
<1>4. \A o \in Ops(c) : SeesTo(c, o, u) => SeesTo(c, o, v)
  <2>1. ContainerDesired(c, u) => ContainerDesired(c, v) BY <1>2 DEF ContainerDesired
  <2>2. ContainerUnseen(c, u) => ContainerUnseen(c, v) BY <1>2 DEF ContainerUnseen
  <2> QED BY <2>1, <2>2, ContainerIs
<1>5. IsWorld(c, v) /\ Target(c, v) = Target(c, u) BY <1>2, <1>3, ContainerIs
<1> QED BY <1>2, <1>3, <1>4, <1>5 DEF Aside, Same, v

\* A file step does not see the fault flag.
LEMMA FileAside ==
  ASSUME NEW c \in FileConfig, NEW u, IsWorld(c, u), NEW b \in BOOLEAN
  PROVE  Aside(c, u, b)
<1> DEFINE v == WithFault(u, b)
<1>1. IsFileWorld(c, u) BY FilesAre
<1>2. /\ IsFileWorld(c, v) /\ v.fault = b /\ v.fs = u.fs /\ v.users = u.users /\ v.tool = u.tool
      /\ v.clock = u.clock /\ v.source = u.source /\ v.remote = u.remote /\ v.cache = u.cache
      /\ v.meta = u.meta
  BY <1>1, FileFault
<1>3. u.fault \in BOOLEAN BY <1>1 DEF IsFileWorld
<1> HIDE DEF v
<1>4. \A o \in Ops(c) : SeesTo(c, o, u) => SeesTo(c, o, v)
  <2>1. HasCache(c, u) => HasCache(c, v) BY <1>2 DEF HasCache
  <2>2. c.source # "none" => Source(c, v) = Source(c, u) BY <1>2, FileIs DEF Source
  <2>3. c.kind \in {"copy", "template"} /\ HasContent(c, u) => HasContent(c, v)
    BY <1>2, <2>2, FileIs DEF HasContent
  <2>4. c.kind = "unarchive" /\ Marked(c, u) => Marked(c, v) BY <1>2, <2>2, FileIs DEF Marked
  <2>5. Ops(c) \subseteq {MainOp(c), "download", "mode", "owner"} BY FileOpsAre
  <2>6. SeesTo(c, "download", u) => SeesTo(c, "download", v) BY <2>1, FileSees
  <2>7. /\ SeesTo(c, "mode", u) => SeesTo(c, "mode", v)
        /\ SeesTo(c, "owner", u) => SeesTo(c, "owner", v)
    BY <1>2, FileSees
  <2>8. SeesTo(c, MainOp(c), u) => SeesTo(c, MainOp(c), v) BY <1>2, <2>3, <2>4, FileOpsAre, FileSees
  <2> QED BY <2>5, <2>6, <2>7, <2>8
<1>5. IsWorld(c, v) /\ Target(c, v) = Target(c, u) BY <1>2, FilesAre, FilesAreTarget
<1> QED BY <1>2, <1>3, <1>4, <1>5 DEF Aside, Same, v

\* The cases of a declaration.
LEMMA KindCases ==
  ASSUME NEW c \in Config
  PROVE  \/ c \in FileConfig
         \/ c \in PkgConfig
         \/ c \in ContainerConfig
         \/ c \in CommandConfig /\ c.kind \in {"run", "run_set"}
         \/ c \in HostConfig /\ c.kind \in {"group", "user", "service", "sysctl", "mount", "firewall"}
BY ConfigCases DEF HostKinds, CommandKinds

\* No step sees the fault flag.
LEMMA SameAside ==
  ASSUME NEW c \in Config, NEW u, IsWorld(c, u), NEW b \in BOOLEAN
  PROVE  Aside(c, u, b)
BY KindCases, FileAside, PkgAside, ContainerAside, RunAside, RunSetAside, GroupAside, UserAside,
   ServiceAside, SysctlAside, MountAside, FirewallAside

\* A new run, which clears the flag, begins with what the last one saw to.
LEMMA FaultAside ==
  ASSUME NEW c \in Config, NEW u, IsWorld(c, u), NEW b \in BOOLEAN
  PROVE  LET v == WithFault(u, b)
         IN  /\ IsWorld(c, v) /\ v.fault = b /\ Target(c, v) = Target(c, u)
             /\ \A o \in Ops(c) : SeesTo(c, o, u) => SeesTo(c, o, v)
BY SameAside DEF Aside, Same

\* Every world says whether a call of the run failed.
LEMMA WorldHasFault ==
  ASSUME NEW c \in Config, NEW u, IsWorld(c, u) PROVE u.fault \in BOOLEAN
BY SameAside DEF Aside

\* A check that only looks, and tells what is so, is sound; a failed call it
\* took for an answer is a fault.
LEMMA LookedIsChecked ==
  ASSUME NEW c \in Config, NEW o \in Ops(c), NEW u, IsWorld(c, u), NEW out,
         c.kind # "run_set", Looked(c, o, u, out)
  PROVE  Checked(c, o, u, out)
<1>1. IsWorld(c, Faulty(u)) /\ Faulty(u).fault = TRUE BY FaultAside DEF Faulty
<1>2. out.w \in {u, Faulty(u)} BY DEF Looked
<1>3. CASE out.w = u BY <1>3 DEF Looked, Checked, PlanStands
<1>4. CASE out.w = Faulty(u) BY <1>1, <1>4 DEF Looked, Checked
<1> QED BY <1>2, <1>3, <1>4

----
\* The chains of the ops.

\* Where the ops form chains Rank is what its definition says: the recursive
\* function exists.
LEMMA RankIs ==
  ASSUME NEW c, Chained(c), NEW depth, Counts(c, depth)
  PROVE  \A o \in Ops(c) : IF Deps(c, o) = {} THEN Rank(c)[o] = 1
                           ELSE \A d \in Deps(c, o) : Rank(c)[o] = 1 + Rank(c)[d]
<1> DEFINE Of(r) == [o \in Ops(c) |-> IF Deps(c, o) = {} THEN 1
                                      ELSE 1 + r[CHOOSE d \in Deps(c, o) : TRUE]]
           rank == CHOOSE r : r = Of(r)
<1>1. depth = Of(depth)
  <2>1. \A o \in Ops(c) : depth[o] = IF Deps(c, o) = {} THEN 1
                                     ELSE 1 + depth[CHOOSE d \in Deps(c, o) : TRUE]
    BY DEF Counts, Chained
  <2>2. depth = [o \in Ops(c) |-> depth[o]] BY DEF Counts
  <2> QED BY <2>1, <2>2
<1>2. rank = Of(rank) BY <1>1
<1>3. Rank(c) = rank BY DEF Rank
<1>4. \A o \in Ops(c) : Rank(c)[o] = IF Deps(c, o) = {} THEN 1
                                     ELSE 1 + Rank(c)[CHOOSE d \in Deps(c, o) : TRUE]
  <2> HIDE DEF rank
  <2>1. \A o \in Ops(c) : rank[o] = IF Deps(c, o) = {} THEN 1
                                     ELSE 1 + rank[CHOOSE d \in Deps(c, o) : TRUE]
    BY <1>2
  <2> QED BY <1>3, <2>1
<1>5. \A o \in Ops(c) : \A d \in Deps(c, o) : d = CHOOSE e \in Deps(c, o) : TRUE BY DEF Chained
<1> QED BY <1>4, <1>5

\* Ops of at most four levels form chains.
LEMMA LevelsAreRanked ==
  ASSUME NEW c, Chained(c), NEW A, NEW B, NEW C, NEW D, Levels(c, A, B, C, D),
         NEW depth, Counts(c, depth)
  PROVE  Ranked(c)
<1> USE DEF Levels
<1>1. \A o \in Ops(c) : IF Deps(c, o) = {} THEN Rank(c)[o] = 1
                        ELSE \A d \in Deps(c, o) : Rank(c)[o] = 1 + Rank(c)[d]
  BY RankIs
<1>2. \A o \in Ops(c) : Deps(c, o) = {} \/ \E d \in Ops(c) \ {o} : Deps(c, o) = {d} BY DEF Chained
<1>3. \A o \in A : Rank(c)[o] \in Nat \ {0} BY <1>1
<1>4. \A o \in B : Rank(c)[o] \in Nat \ {0}
  <2> TAKE o \in B
  <2>1. CASE Deps(c, o) = {} BY <1>1, <2>1
  <2>2. CASE Deps(c, o) # {}
    <3>1. PICK d \in A : d \in Deps(c, o) BY <2>2
    <3> QED BY <1>1, <1>3, <2>2, <3>1
  <2> QED BY <2>1, <2>2
<1>5. \A o \in C : Rank(c)[o] \in Nat \ {0}
  <2> TAKE o \in C
  <2>1. CASE Deps(c, o) = {} BY <1>1, <2>1
  <2>2. CASE Deps(c, o) # {}
    <3>1. PICK d \in A \cup B : d \in Deps(c, o) BY <2>2
    <3> QED BY <1>1, <1>3, <1>4, <2>2, <3>1
  <2> QED BY <2>1, <2>2
<1>6. \A o \in D : Rank(c)[o] \in Nat \ {0}
  <2> TAKE o \in D
  <2>1. CASE Deps(c, o) = {} BY <1>1, <2>1
  <2>2. CASE Deps(c, o) # {}
    <3>1. PICK d \in A \cup B \cup C : d \in Deps(c, o) BY <2>2
    <3> QED BY <1>1, <1>3, <1>4, <1>5, <2>2, <3>1
  <2> QED BY <2>1, <2>2
<1>7. \A o \in Ops(c) : Rank(c)[o] \in Nat \ {0} BY <1>3, <1>4, <1>5, <1>6
<1>8. \A o \in Ops(c) : Deps(c, o) \subseteq Ops(c) \ {o} BY <1>2
<1> SUFFICES ASSUME NEW o \in Ops(c), NEW d \in Deps(c, o) PROVE Rank(c)[d] + 1 = Rank(c)[o]
  BY <1>1, <1>7, <1>8 DEF Ranked
<1>9. Rank(c)[o] = 1 + Rank(c)[d] /\ d \in Ops(c) BY <1>1, <1>8
<1> QED BY <1>7, <1>9

\* So do ops that do not wait for each other.
LEMMA FreeIsRanked ==
  ASSUME NEW c, \A o \in Ops(c) : Deps(c, o) = {}
  PROVE  Ranked(c)
<1> DEFINE depth == [o \in Ops(c) |-> 1]
<1>1. Counts(c, depth) /\ Chained(c) BY DEF Counts, Chained
<1> HIDE DEF depth
<1> DEFINE A == Ops(c)
<1>2. Levels(c, A, {}, {}, {}) BY DEF Levels
<1> HIDE DEF A
<1> QED BY <1>1, <1>2, LevelsAreRanked

\* The ops of a sysctl step form chains.
LEMMA SysctlIsRanked ==
  ASSUME NEW c \in HostConfig, c.kind = "sysctl"
  PROVE  Ranked(c)
<1>1. \E p \in {"persist", "cleanup"} : Ops(c) = {"set", p} BY SysctlIs DEF SysctlOps
<1>2. \A o \in Ops(c) : Deps(c, o) = IF o = "set" THEN {} ELSE {"set"} BY SysctlIs
<1> DEFINE depth == [o \in Ops(c) |-> IF o = "set" THEN 1 ELSE 2]
           A == {"set"}
           B == Ops(c) \ {"set"}
<1>3. Counts(c, depth) /\ Chained(c) BY <1>1, <1>2 DEF Counts, Chained
<1>4. Levels(c, A, B, {}, {}) BY <1>1, <1>2 DEF Levels
<1> HIDE DEF depth, A, B
<1> QED BY <1>3, <1>4, LevelsAreRanked

\* The ops of a package step form chains: download, key, repo, pkgs.
LEMMA PkgIsRanked ==
  ASSUME NEW c \in PkgConfig
  PROVE  Ranked(c)
<1>1. CASE ~c.third
  <2>1. Ops(c) = {"pkgs"} BY <1>1, PkgIs DEF PkgOps
  <2>2. Deps(c, "pkgs") = {} BY <1>1, PkgIs DEF PkgOps, PkgDeps
  <2> QED BY <2>1, <2>2, FreeIsRanked
<1>2. CASE c.third
  <2>1. Ops(c) = {"pkgs", "download", "key", "repo"} BY <1>2, PkgIs DEF PkgOps
  <2>2. /\ Deps(c, "download") = {} /\ Deps(c, "key") = {"download"}
        /\ Deps(c, "repo") = {"key"} /\ Deps(c, "pkgs") = {"repo"}
    BY <1>2, PkgIs DEF PkgOps, PkgDeps
  <2> DEFINE depth == [o \in Ops(c) |-> CASE o = "download" -> 1 [] o = "key" -> 2
                                          [] o = "repo" -> 3 [] OTHER -> 4]
             A == {"download"}
             B == {"key"}
             C == {"repo"}
             D == {"pkgs"}
  <2>3. Counts(c, depth) BY <2>1, <2>2 DEF Counts
  <2>4. Chained(c) BY <2>1, <2>2 DEF Chained
  <2>5. Levels(c, A, B, C, D) BY <2>1, <2>2 DEF Levels
  <2> HIDE DEF depth, A, B, C, D
  <2> QED BY <2>3, <2>4, <2>5, LevelsAreRanked
<1> QED BY <1>1, <1>2, PkgIs

\* The ops of a file step form chains.
LEMMA FileIsRanked ==
  ASSUME NEW c \in FileConfig
  PROVE  Ranked(c)
<1>1. /\ MainOp(c) \in {"dir", "link", "content", "archive"} /\ MainOp(c) \in Ops(c)
      /\ Ops(c) \subseteq {MainOp(c), "download", "mode", "owner"}
      /\ Deps(c, "mode") = {MainOp(c)} /\ Deps(c, "owner") = {MainOp(c)}
      /\ Deps(c, "download") = {}
      /\ Deps(c, MainOp(c)) = Ops(c) \cap {"download"}
  BY FileOpsAre
<1> DEFINE first == IF "download" \in Ops(c) THEN 2 ELSE 1
           depth == [o \in Ops(c) |-> CASE o = "download" -> 1 [] o = MainOp(c) -> first
                                        [] OTHER -> first + 1]
           A == Ops(c) \cap {"download"}
           B == {MainOp(c)}
           C == Ops(c) \cap {"mode", "owner"}
<1>2. Chained(c) BY <1>1 DEF Chained
<1>3. Counts(c, depth)
  <2>1. depth \in [Ops(c) -> Nat \ {0}] OBVIOUS
  <2>2. ASSUME NEW o \in Ops(c)
        PROVE IF Deps(c, o) = {} THEN depth[o] = 1 ELSE \A d \in Deps(c, o) : depth[o] = 1 + depth[d]
    <3>1. CASE o = "download" BY <1>1, <3>1
    <3>2. CASE o = MainOp(c) BY <1>1, <3>2
    <3>3. CASE o \in {"mode", "owner"} BY <1>1, <3>3
    <3> QED BY <1>1, <3>1, <3>2, <3>3
  <2> QED BY <2>1, <2>2 DEF Counts
<1>4. Levels(c, A, B, C, {}) BY <1>1 DEF Levels
<1> HIDE DEF depth, A, B, C
<1> QED BY <1>2, <1>3, <1>4, LevelsAreRanked

\* The ops of every step form chains.
LEMMA AllAreRanked == ASSUME NEW c \in Config PROVE Ranked(c)
<1>1. CASE c \in FileConfig BY <1>1, FileIsRanked
<1>2. CASE c \in PkgConfig BY <1>2, PkgIsRanked
<1>3. CASE c \in HostConfig /\ c.kind = "sysctl" BY <1>3, SysctlIsRanked
<1>4. CASE c \in HostConfig /\ c.kind \in {"group", "user", "service", "mount", "firewall"}
  <2>1. \A o \in Ops(c) : Deps(c, o) = {}
    <3>1. CASE c.kind = "group" BY <1>4, <3>1, GroupIs
    <3>2. CASE c.kind = "user" BY <1>4, <3>2, UserIs
    <3>3. CASE c.kind = "service" BY <1>4, <3>3, ServiceIs
    <3>4. CASE c.kind = "mount" BY <1>4, <3>4, MountIs
    <3>5. CASE c.kind = "firewall" BY <1>4, <3>5, FirewallIs
    <3> QED BY <1>4, <3>1, <3>2, <3>3, <3>4, <3>5
  <2> QED BY <2>1, FreeIsRanked
<1>5. CASE c \in CommandConfig /\ c.kind \in {"run", "run_set"}
  <2>1. \A o \in Ops(c) : Deps(c, o) = {} BY <1>5, RunIs, RunSetIs
  <2> QED BY <2>1, FreeIsRanked
<1>6. CASE c \in ContainerConfig
  <2>1. \A o \in Ops(c) : Deps(c, o) = {} BY <1>6, ContainerIs
  <2> QED BY <2>1, FreeIsRanked
<1> QED BY <1>1, <1>2, <1>3, <1>4, <1>5, <1>6, KindCases

\* The rank of an op is one more than that of the op it waits for.
LEMMA Ranks ==
  ASSUME NEW c \in Config, NEW o \in Ops(c)
  PROVE  /\ Rank(c)[o] \in Nat \ {0}
         /\ Deps(c, o) \subseteq Ops(c) \ {o}
         /\ Deps(c, o) = {} => Rank(c)[o] = 1
         /\ \A d \in Deps(c, o) : Rank(c)[d] + 1 = Rank(c)[o]
BY AllAreRanked DEF Ranked

\* A run_set has one op.
LEMMA PlanIsOneOps ==
  ASSUME NEW c \in Config, NEW o \in Ops(c), NEW p \in Ops(c), c.kind = "run_set"
  PROVE  p = o
<1>1. c \in CommandConfig BY ConfigCases DEF CommandKinds
<1> QED BY <1>1, RunSetIs

----
\* Check and Execute of every kind.

\* The checks of the kinds that touch no files only look.
LEMMA HostIsChecked ==
  ASSUME NEW c \in Config, c \in HostConfig, NEW o \in Ops(c), NEW u, IsWorld(c, u),
         NEW out \in Check(c, o, u)
  PROVE  Looked(c, o, u, out)
<1>1. c.kind \in {"group", "user", "service", "sysctl", "mount", "firewall"}
  BY KindCases, HostConfigs DEF HostKinds
<1>2. CASE c.kind = "group" BY <1>2, GroupIs, GroupLooked
<1>3. CASE c.kind = "user" BY <1>3, UserIs, UserLooked
<1>4. CASE c.kind = "service" BY <1>4, ServiceIs, ServiceLooked
<1>5. CASE c.kind = "sysctl" BY <1>5, SysctlIs, SysctlLooked
<1>6. CASE c.kind = "mount"
  <2>1. u \in MountWorld /\ (u.mounted # "none" => u.dir) /\ o = "main" BY <1>6, MountIs
  <2> QED BY <1>6, <2>1, MountLooked
<1>7. CASE c.kind = "firewall" BY <1>7, FirewallIs, FirewallLooked
<1> QED BY <1>1, <1>2, <1>3, <1>4, <1>5, <1>6, <1>7

\* The ops of the kinds that touch no files do what they are there for.
LEMMA HostIsExecuted ==
  ASSUME NEW c \in Config, c \in HostConfig, NEW o \in Ops(c), NEW u, IsWorld(c, u),
         NEW out \in Execute(c, o, u)
  PROVE  Executed(c, o, u, out)
<1>1. c.kind \in {"group", "user", "service", "sysctl", "mount", "firewall"}
  BY KindCases, HostConfigs DEF HostKinds
<1>2. CASE c.kind = "group" BY <1>2, GroupIs, GroupDone
<1>3. CASE c.kind = "user" BY <1>3, UserIs, UserDone
<1>4. CASE c.kind = "service" BY <1>4, ServiceIs, ServiceExecuted
<1>5. CASE c.kind = "sysctl" BY <1>5, SysctlIs, SysctlExecuted
<1>6. CASE c.kind = "mount"
  <2>1. u \in MountWorld /\ (u.mounted # "none" => u.dir) /\ o = "main" BY <1>6, MountIs
  <2> QED BY <1>6, <2>1, MountExecuted
<1>7. CASE c.kind = "firewall" BY <1>7, FirewallIs, FirewallExecuted
<1> QED BY <1>1, <1>2, <1>3, <1>4, <1>5, <1>6, <1>7

\* The steps of those kinds have reached what they declare when their ops have
\* seen to it.
LEMMA HostIsSettled ==
  ASSUME NEW c \in Config, c \in HostConfig, NEW u, IsWorld(c, u), \A o \in Ops(c) : SeesTo(c, o, u)
  PROVE  Desired(c, u) \/ Unseen(c, u)
<1>1. c.kind \in {"group", "user", "service", "sysctl", "mount", "firewall"}
  BY KindCases, HostConfigs DEF HostKinds
<1>2. CASE c.kind = "group" BY <1>2, GroupSettled
<1>3. CASE c.kind = "user" BY <1>3, UserSettled
<1>4. CASE c.kind = "service" BY <1>4, ServiceIs, ServiceSettled
<1>5. CASE c.kind = "sysctl" BY <1>5, SysctlSettled
<1>6. CASE c.kind = "mount" BY <1>6, MountSettled
<1>7. CASE c.kind = "firewall" BY <1>7, FirewallSettled
<1> QED BY <1>1, <1>2, <1>3, <1>4, <1>5, <1>6, <1>7

\* The contract of Check, for every kind of step: it says what is so and
\* disturbs nothing that has been seen to.
LEMMA CheckIsSound ==
  ASSUME NEW c \in Config, NEW o \in Ops(c), NEW u, IsWorld(c, u), NEW out \in Check(c, o, u)
  PROVE  Checked(c, o, u, out)
<1>1. CASE c \in CommandConfig /\ c.kind = "run_set"
  <2>1. u \in RunSetWorld /\ o = "main" BY <1>1, RunSetIs
  <2> QED BY <1>1, <2>1, RunSetChecked
<1>2. CASE ~(c \in CommandConfig /\ c.kind = "run_set")
  <2>0. c.kind # "run_set" BY <1>2, ConfigCases DEF CommandKinds
  <2>1. CASE c \in FileConfig BY <2>1, <2>0, FileLooked, LookedIsChecked
  <2>2. CASE c \in PkgConfig BY <2>2, <2>0, PkgIs, PkgLooked, LookedIsChecked
  <2>3. CASE c \in ContainerConfig
    <3>1. u \in ContainerWorld /\ o = "main" BY <2>3, ContainerIs
    <3> QED BY <2>3, <2>0, <3>1, ContainerLooked, LookedIsChecked
  <2>4. CASE c \in CommandConfig /\ c.kind = "run"
    <3>1. u \in RunWorld /\ o = "main" BY <2>4, RunIs
    <3> QED BY <2>4, <2>0, <3>1, RunLooked, LookedIsChecked
  <2>5. CASE c \in HostConfig BY <2>5, <2>0, HostIsChecked, LookedIsChecked
  <2> QED BY <2>0, <2>1, <2>2, <2>3, <2>4, <2>5, KindCases
<1> QED BY <1>1, <1>2

\* The contract of Execute, for every kind of step: an op that succeeds has
\* seen to its part, and undoes nothing that does not wait for it.
LEMMA ExecuteIsSound ==
  ASSUME NEW c \in Config, NEW o \in Ops(c), NEW u, IsWorld(c, u), NEW out \in Execute(c, o, u)
  PROVE  Executed(c, o, u, out)
<1>1. CASE c \in FileConfig BY <1>1, FileExecuted
<1>2. CASE c \in PkgConfig BY <1>2, PkgIs, PkgExecuted
<1>3. CASE c \in ContainerConfig
  <2>1. u \in ContainerWorld /\ o = "main" BY <1>3, ContainerIs
  <2> QED BY <1>3, <2>1, ContainerExecuted
<1>4. CASE c \in CommandConfig /\ c.kind = "run"
  <2>1. u \in RunWorld /\ o = "main" BY <1>4, RunIs
  <2> QED BY <1>4, <2>1, RunExecuted
<1>5. CASE c \in CommandConfig /\ c.kind = "run_set"
  <2>1. u \in RunSetWorld /\ o = "main" BY <1>5, RunSetIs
  <2> QED BY <1>5, <2>1, RunSetExecuted
<1>6. CASE c \in HostConfig BY <1>6, HostIsExecuted
<1> QED BY <1>1, <1>2, <1>3, <1>4, <1>5, <1>6, KindCases

\* The ops of a step are complete: a step whose ops have all seen to their
\* part has reached what it declares, or is in a world known to be beyond it.
LEMMA SettledIsDesired ==
  ASSUME NEW c \in Config, NEW u, IsWorld(c, u), \A o \in Ops(c) : SeesTo(c, o, u)
  PROVE  Desired(c, u) \/ Unseen(c, u)
<1>1. CASE c \in FileConfig BY <1>1, FileSettled
<1>2. CASE c \in PkgConfig BY <1>2, PkgIs, PkgSettled
<1>3. CASE c \in ContainerConfig BY <1>3, ContainerSettled
<1>4. CASE c \in CommandConfig /\ c.kind = "run" BY <1>4, RunSettled
<1>5. CASE c \in CommandConfig /\ c.kind = "run_set" BY <1>5, RunSetSettled
<1>6. CASE c \in HostConfig BY <1>6, HostIsSettled
<1> QED BY <1>1, <1>2, <1>3, <1>4, <1>5, <1>6, KindCases

----
\* The invariant holds before the first run.
LEMMA InitInv == Init => SettleInv
<1> SUFFICES ASSUME Init PROVE SettleInv OBVIOUS
<1>1. cfg \in Config /\ IsWorld(cfg, w) /\ before = w /\ cfg \in Configs
  BY ConfigsAssumption DEF Init
<1>2. TypeOK
  <2>1. /\ verdict \in [Ops(cfg) -> {"none", "satisfied", "unsatisfied"}] /\ left = {}
        /\ changed = FALSE /\ edited = FALSE /\ result = "none" /\ phase = "idle"
    BY DEF Init
  <2>2. runs \in 0..MaxRuns /\ streak \in 0..runs /\ edits \in 0..MaxEdits
    BY BoundsAssumption DEF Init
  <2> QED BY <1>1, <2>1, <2>2 DEF TypeOK
<1>3. PhaseInv BY DEF Init, PhaseInv
<1>4. RunInv BY DEF Init, RunInv
<1>5. RestInv
  <2> SUFFICES ASSUME NEW o \in Ops(cfg) PROVE ~(Rank(cfg)[o] <= streak) /\ result # "ok"
    BY DEF RestInv
  <2>1. Rank(cfg)[o] \in Nat \ {0} BY <1>1, Ranks
  <2> QED BY <2>1 DEF Init
<1>6. ReportInv BY DEF Init, ReportInv
<1> QED BY <1>2, <1>3, <1>4, <1>5, <1>6 DEF SettleInv

\* What every step of a run keeps of the types.
LEMMA TypeNext ==
  ASSUME TypeOK, cfg' = cfg, IsWorld(cfg, w'), before' = before, runs' = runs, edits' = edits,
         edited' = edited, phase' \in {"idle", "checks", "exec"}, changed' \in BOOLEAN,
         verdict' \in [Ops(cfg) -> {"none", "satisfied", "unsatisfied"}],
         left' \subseteq {o \in Ops(cfg) : verdict'[o] = "unsatisfied"},
         result' \in {"none", "ok", "error", "panic"}, streak' \in 0 .. runs
  PROVE  TypeOK'
BY DEF TypeOK

\* A run that begins keeps the invariant: what was settled stays settled.
LEMMA StartInv == SettleInv /\ Start => SettleInv'
<1> SUFFICES ASSUME SettleInv, Start PROVE SettleInv' OBVIOUS
<1> USE DEF SettleInv
<1>c. cfg \in Config /\ cfg' = cfg /\ IsWorld(cfg, w) /\ w' = WithFault(w, FALSE) /\ before' = w'
  BY ConfigsAssumption DEF TypeOK, Start
<1>1. /\ IsWorld(cfg, w') /\ ~w'.fault
      /\ \A o \in Ops(cfg) : SeesTo(cfg, o, w) => SeesTo(cfg, o, w')
  BY <1>c, FaultAside
<1>v. /\ streak' = streak /\ verdict' = [o \in Ops(cfg) |-> "none"] /\ left' = {} /\ ~changed'
      /\ result' = "none" /\ ~edited' /\ phase = "idle" /\ phase' = "checks"
      /\ edited' \in BOOLEAN /\ changed' \in BOOLEAN
  BY DEF Start
<1>2. TypeOK'
  <2>1. runs' \in 0..MaxRuns /\ streak' \in 0..runs' /\ edits' \in 0..MaxEdits
    BY <1>v, BoundsAssumption DEF Start, TypeOK
  <2>2. cfg' \in Configs /\ verdict' \in [Ops(cfg) -> {"none", "satisfied", "unsatisfied"}]
    BY <1>c, <1>v DEF TypeOK
  <2> QED BY <1>c, <1>1, <1>v, <2>1, <2>2 DEF TypeOK
<1>3. PhaseInv'
  <2>1. streak' < runs' BY <1>v, BoundsAssumption DEF Start, TypeOK
  <2> QED BY <1>v, <2>1 DEF PhaseInv
<1>4. RunInv'
  <2>1. \A o \in Ops(cfg) : Rank(cfg)[o] <= streak => SeesTo(cfg, o, w) BY <1>v DEF RestInv
  <2> QED BY <1>c, <1>1, <1>v, <2>1 DEF RunInv
<1>5. RestInv' BY <1>v DEF RestInv
<1>6. ReportInv' BY <1>c DEF ReportInv
<1> QED BY <1>2, <1>3, <1>4, <1>5, <1>6

\* A check keeps the invariant.
LEMMA CheckInv == ASSUME NEW o \in Ops(cfg) PROVE SettleInv /\ CheckOp(o) => SettleInv'
<1> SUFFICES ASSUME SettleInv, CheckOp(o) PROVE SettleInv' OBVIOUS
<1> USE DEF SettleInv
<1>c. cfg \in Config /\ cfg' = cfg /\ IsWorld(cfg, w) /\ Ops(cfg)' = Ops(cfg)
  BY ConfigsAssumption DEF TypeOK, CheckOp
<1> PICK out \in Check(cfg, o, w) :
          /\ w' = out.w
          /\ IF out.res \in {"satisfied", "unsatisfied"}
             THEN /\ verdict' = [verdict EXCEPT ![o] = out.res]
                  /\ UNCHANGED <<phase, result, streak>>
             ELSE Over(out.res) /\ UNCHANGED verdict
  BY DEF CheckOp
<1>1. Checked(cfg, o, w, out) BY <1>c, CheckIsSound
<1>w. /\ IsWorld(cfg, w') /\ w.fault \in BOOLEAN /\ w'.fault \in BOOLEAN /\ (w.fault => w'.fault)
      /\ out.res \in {"satisfied", "unsatisfied", "error", "panic"}
  BY <1>c, <1>1, WorldHasFault DEF Checked
<1>u. /\ phase = "checks" /\ verdict[o] = "none" /\ left' = left /\ changed' = changed
      /\ before' = before /\ edited' = edited /\ runs' = runs /\ edits' = edits
      /\ left = {} /\ ~changed /\ result = "none"
  BY DEF CheckOp, PhaseInv
<1>d. CASE out.res \in {"satisfied", "unsatisfied"}
  <2>u. verdict' = [verdict EXCEPT ![o] = out.res] /\ phase' = phase /\ result' = result
        /\ streak' = streak
    BY <1>d
  <2>v. /\ verdict \in [Ops(cfg) -> {"none", "satisfied", "unsatisfied"}]
        /\ verdict' \in [Ops(cfg) -> {"none", "satisfied", "unsatisfied"}]
        /\ verdict'[o] = out.res
        /\ \A p \in Ops(cfg) \ {o} : verdict'[p] = verdict[p]
    BY <2>u, <1>d DEF TypeOK
  <2>2. TypeOK' BY <1>c, <1>w, <1>u, <2>u, <2>v, TypeNext DEF TypeOK
  <2>3. PhaseInv' BY <1>u, <2>u DEF PhaseInv
  <2>4. RunInv'
    <3> SUFFICES ASSUME Quiet', NEW p \in Ops(cfg)
                 PROVE  /\ Rank(cfg)[p] <= streak =>
                              SeesTo(cfg, p, w') /\ (Leads(cfg, p) => verdict'[p] # "unsatisfied")
                        /\ verdict'[p] = "satisfied" => SeesTo(cfg, p, w')
                        /\ verdict'[p] = "unsatisfied" => PlanStands(cfg, w')
      BY <1>c, <1>u, <2>u DEF RunInv
    <3>1. Quiet /\ ~w'.fault BY <1>w, <1>u DEF Quiet
    <3>2. \A q \in Ops(cfg) : SeesTo(cfg, q, w) => SeesTo(cfg, q, w') BY <1>1, <3>1 DEF Checked
    <3>3. /\ out.res = "satisfied" => SeesTo(cfg, o, w')
          /\ out.res = "unsatisfied" => PlanStands(cfg, w') /\ ~(Leads(cfg, o) /\ SeesTo(cfg, o, w))
      BY <1>1, <3>1 DEF Checked
    <3>4. \A q \in Ops(cfg) :
             /\ Rank(cfg)[q] <= streak =>
                   SeesTo(cfg, q, w) /\ (Leads(cfg, q) => verdict[q] # "unsatisfied")
             /\ verdict[q] = "satisfied" => SeesTo(cfg, q, w)
             /\ verdict[q] = "unsatisfied" => PlanStands(cfg, w)
      BY <3>1, <1>u DEF RunInv
    <3>5. CASE p = o BY <2>v, <3>2, <3>3, <3>4, <3>5
    <3>6. CASE p # o
      <4>1. verdict'[p] = "unsatisfied" => PlanStands(cfg, w')
        <5> SUFFICES ASSUME cfg.kind = "run_set" PROVE FALSE BY <3>4, <2>v, <3>6 DEF PlanStands
        <5> QED BY PlanIsOneOps, <1>c, <3>6
      <4> QED BY <2>v, <3>2, <3>4, <3>6, <4>1
    <3> QED BY <3>5, <3>6
  <2>5. RestInv' BY <1>u, <2>u DEF RestInv
  <2>6. ReportInv' BY <1>c, <1>u, <1>w, <1>1, <2>u DEF ReportInv, Checked, Quiet
  <2> QED BY <2>2, <2>3, <2>4, <2>5, <2>6
<1>e. CASE out.res \notin {"satisfied", "unsatisfied"}
  <2>u. verdict' = verdict /\ phase' = "idle" /\ result' = out.res /\ streak' = 0
        /\ result' \in {"error", "panic"}
    BY <1>e, <1>w DEF Over
  <2>2. TypeOK'
    <3>1. /\ 0 \in 0 .. runs /\ changed \in BOOLEAN
          /\ verdict \in [Ops(cfg) -> {"none", "satisfied", "unsatisfied"}]
      BY BoundsAssumption DEF TypeOK
    <3> QED BY <1>c, <1>w, <1>u, <2>u, <3>1, TypeNext
  <2>3. PhaseInv' BY <1>u, <2>u DEF PhaseInv
  <2>4. RunInv' BY <2>u DEF RunInv
  <2>5. RestInv' BY <1>c, <2>u, Ranks DEF RestInv
  <2>6. ReportInv' BY <2>u DEF ReportInv
  <2> QED BY <2>2, <2>3, <2>4, <2>5, <2>6
<1> QED BY <1>d, <1>e

\* The end of the checks keeps the invariant (initPending).
LEMMA StartExecInv == SettleInv /\ StartExec => SettleInv'
<1> SUFFICES ASSUME SettleInv, StartExec PROVE SettleInv' OBVIOUS
<1> USE DEF SettleInv
<1>c. cfg \in Config /\ cfg' = cfg /\ w' = w /\ IsWorld(cfg, w)
  BY ConfigsAssumption DEF TypeOK, StartExec
<1>u. /\ phase = "checks" /\ phase' = "exec" /\ verdict' = verdict /\ changed' = changed
      /\ before' = before /\ edited' = edited /\ runs' = runs /\ edits' = edits
      /\ left' = {o \in Ops(cfg) : verdict[o] = "unsatisfied"} /\ result' = result /\ streak' = streak
      /\ \A o \in Ops(cfg) : verdict[o] # "none"
  BY DEF StartExec
<1>2. TypeOK' BY <1>c, <1>u, TypeNext DEF TypeOK
<1>3. PhaseInv' BY <1>c, <1>u DEF PhaseInv
<1>4. RunInv'
  <2> SUFFICES ASSUME Quiet, NEW p \in Ops(cfg)
               PROVE  /\ Rank(cfg)[p] <= streak =>
                            SeesTo(cfg, p, w) /\ (Leads(cfg, p) => verdict[p] # "unsatisfied")
                      /\ verdict[p] = "satisfied" => SeesTo(cfg, p, w)
                      /\ verdict[p] = "unsatisfied" => PlanStands(cfg, w) /\ p \in left'
    BY <1>c, <1>u DEF RunInv, Quiet
  <2> QED BY <1>u DEF RunInv
<1>5. RestInv' BY <1>u DEF RestInv
<1>6. ReportInv' BY <1>c, <1>u DEF ReportInv, Quiet
<1> QED BY <1>2, <1>3, <1>4, <1>5, <1>6

\* An op that waits for another comes after it.
LEMMA WaitersRank ==
  ASSUME NEW c \in Config, NEW o \in Ops(c), NEW p \in Ops(c), o \in Deps(c, p)
  PROVE  Rank(c)[o] \in Nat /\ Rank(c)[p] = Rank(c)[o] + 1 /\ Leads(c, o)
BY Ranks DEF Leads

\* An op keeps the invariant: it can undo only what waits for it.
LEMMA ExecuteInv == ASSUME NEW o \in Ops(cfg) PROVE SettleInv /\ ExecuteOp(o) => SettleInv'
<1> SUFFICES ASSUME SettleInv, ExecuteOp(o) PROVE SettleInv' OBVIOUS
<1> USE DEF SettleInv
<1>c. cfg \in Config /\ cfg' = cfg /\ IsWorld(cfg, w) /\ Ops(cfg)' = Ops(cfg)
  BY ConfigsAssumption DEF TypeOK, ExecuteOp
<1> PICK out \in Execute(cfg, o, w) :
          /\ w' = out.w
          /\ IF out.res \in {"changed", "unchanged"}
             THEN /\ left' = left \ {o}
                  /\ changed' = (changed \/ out.res = "changed")
                  /\ UNCHANGED <<phase, result, streak>>
             ELSE Over(out.res) /\ UNCHANGED <<left, changed>>
  BY DEF ExecuteOp
<1>1. Executed(cfg, o, w, out) BY <1>c, ExecuteIsSound
<1>w. /\ IsWorld(cfg, w') /\ w.fault \in BOOLEAN /\ w'.fault \in BOOLEAN /\ (w.fault => w'.fault)
      /\ out.res \in {"changed", "unchanged", "error", "panic"}
  BY <1>c, <1>1, WorldHasFault DEF Executed
<1>u. /\ phase = "exec" /\ o \in left /\ Deps(cfg, o) \cap left = {}
      /\ verdict' = verdict /\ before' = before /\ edited' = edited /\ runs' = runs /\ edits' = edits
      /\ \A p \in Ops(cfg) : verdict[p] # "none"
      /\ result = "none"
      /\ left \subseteq {p \in Ops(cfg) : verdict[p] = "unsatisfied"}
      /\ verdict \in [Ops(cfg) -> {"none", "satisfied", "unsatisfied"}] /\ changed \in BOOLEAN
  BY DEF ExecuteOp, PhaseInv, TypeOK
<1>d. CASE out.res \in {"changed", "unchanged"}
  <2>u. /\ left' = left \ {o} /\ changed' = (changed \/ out.res = "changed")
        /\ phase' = phase /\ result' = result /\ streak' = streak
    BY <1>d
  <2>2. TypeOK'
    <3>1. left' \subseteq {p \in Ops(cfg) : verdict'[p] = "unsatisfied"} /\ changed' \in BOOLEAN
      BY <1>u, <2>u
    <3>2. phase \in {"idle", "checks", "exec"} /\ streak \in 0 .. runs BY DEF TypeOK
    <3> QED BY <1>c, <1>w, <1>u, <2>u, <3>1, <3>2, TypeNext
  <2>3. PhaseInv' BY <1>c, <1>u, <2>u DEF PhaseInv
  <2>4. RunInv'
    <3> DEFINE Firm(q) == \/ Rank(cfg)[q] <= streak + 1
                          \/ \A d \in Deps(cfg, q) : verdict[d] = "satisfied"
    <3> SUFFICES ASSUME Quiet', NEW p \in Ops(cfg)
                 PROVE  /\ Rank(cfg)[p] <= streak =>
                              SeesTo(cfg, p, w') /\ (Leads(cfg, p) => verdict[p] # "unsatisfied")
                        /\ verdict[p] = "satisfied" /\ Firm(p) => SeesTo(cfg, p, w')
                        /\ verdict[p] = "satisfied" =>
                              left' # {q \in Ops(cfg) : verdict[q] = "unsatisfied"}
                        /\ verdict[p] = "unsatisfied" =>
                              IF p \in left' THEN PlanStands(cfg, w') ELSE SeesTo(cfg, p, w')
      BY <1>c, <1>u, <2>u DEF RunInv
    <3>1. Quiet /\ ~w'.fault BY <1>w, <1>u DEF Quiet
    <3>2. /\ PlanStands(cfg, w) => SeesTo(cfg, o, w')
          /\ \A q \in Ops(cfg) \ {o} : o \notin Deps(cfg, q) /\ SeesTo(cfg, q, w) => SeesTo(cfg, q, w')
      BY <1>1, <1>d, <3>1 DEF Executed
    <3>3. \A q \in Ops(cfg) :
             /\ Rank(cfg)[q] <= streak =>
                   SeesTo(cfg, q, w) /\ (Leads(cfg, q) => verdict[q] # "unsatisfied")
             /\ verdict[q] = "satisfied" /\ Firm(q) => SeesTo(cfg, q, w)
             /\ verdict[q] = "unsatisfied" =>
                   IF q \in left THEN PlanStands(cfg, w) ELSE SeesTo(cfg, q, w)
      BY <3>1, <1>u DEF RunInv
    <3>4. verdict[o] = "unsatisfied" /\ SeesTo(cfg, o, w') BY <1>u, <3>2, <3>3
    <3>5. streak \in Nat BY BoundsAssumption DEF TypeOK
    <3>6. \A q \in Ops(cfg) : o \in Deps(cfg, q) => ~(Rank(cfg)[q] <= streak + 1)
      <4> SUFFICES ASSUME NEW q \in Ops(cfg), o \in Deps(cfg, q), Rank(cfg)[q] <= streak + 1
                   PROVE  FALSE
        OBVIOUS
      <4>1. Rank(cfg)[o] <= streak /\ Leads(cfg, o) BY <1>c, <3>5, WaitersRank
      <4> QED BY <3>3, <3>4, <4>1
    <3>7. left' # {q \in Ops(cfg) : verdict[q] = "unsatisfied"} BY <2>u, <3>4
    <3>8. \A q \in Ops(cfg) : o \in Deps(cfg, q) /\ verdict[q] = "unsatisfied" => q \in left
      BY <1>u DEF PhaseInv
    <3>9. CASE p = o BY <2>u, <3>3, <3>4, <3>7, <3>9
    <3>10. CASE p # o
      <4>1. verdict[p] = "unsatisfied" => cfg.kind # "run_set" BY <1>c, <3>10, PlanIsOneOps
      <4>2. CASE o \in Deps(cfg, p)
        <5>1. ~Firm(p) /\ ~(Rank(cfg)[p] <= streak) BY <1>c, <3>4, <3>5, <3>6, <4>2, Ranks
        <5> QED BY <2>u, <3>7, <3>8, <3>10, <4>1, <4>2, <5>1 DEF PlanStands
      <4>3. CASE o \notin Deps(cfg, p) BY <2>u, <3>2, <3>3, <3>7, <3>10, <4>1, <4>3 DEF PlanStands
      <4> QED BY <4>2, <4>3
    <3> QED BY <3>9, <3>10
  <2>5. RestInv' BY <1>u, <2>u DEF RestInv
  <2>6. ReportInv' BY <1>c, <1>u, <1>w, <1>1, <2>u, <1>d DEF ReportInv, Executed, Quiet
  <2> QED BY <2>2, <2>3, <2>4, <2>5, <2>6
<1>e. CASE out.res \notin {"changed", "unchanged"}
  <2>u. /\ phase' = "idle" /\ result' = out.res /\ streak' = 0
        /\ left' = left /\ changed' = changed /\ result' \in {"error", "panic"}
    BY <1>e, <1>w DEF Over
  <2>2. TypeOK'
    <3>1. 0 \in 0 .. runs BY BoundsAssumption DEF TypeOK
    <3> QED BY <1>c, <1>w, <1>u, <2>u, <3>1, TypeNext
  <2>3. PhaseInv' BY <1>u, <2>u DEF PhaseInv
  <2>4. RunInv' BY <2>u DEF RunInv
  <2>5. RestInv' BY <1>c, <2>u, Ranks DEF RestInv
  <2>6. ReportInv' BY <2>u DEF ReportInv
  <2> QED BY <2>2, <2>3, <2>4, <2>5, <2>6
<1> QED BY <1>d, <1>e

\* The end of a run keeps the invariant: one more level of the chains is
\* settled.
LEMMA FinishInv == SettleInv /\ Finish => SettleInv'
<1> SUFFICES ASSUME SettleInv, Finish PROVE SettleInv' OBVIOUS
<1> USE DEF SettleInv
<1>c. cfg \in Config /\ cfg' = cfg /\ w' = w /\ IsWorld(cfg, w)
  BY ConfigsAssumption DEF TypeOK, Finish
<1>u. /\ phase = "exec" /\ left = {} /\ left' = left /\ phase' = "idle" /\ result' = "ok"
      /\ streak' = IF ~w.fault /\ ~edited THEN streak + 1 ELSE 0
      /\ verdict' = verdict /\ changed' = changed /\ before' = before /\ edited' = edited
      /\ runs' = runs /\ edits' = edits
      /\ \A p \in Ops(cfg) : verdict[p] # "none"
  BY DEF Finish, Over, PhaseInv
<1>n. streak \in Nat /\ streak <= runs BY BoundsAssumption DEF TypeOK
<1>2. TypeOK'
  <2>1. streak' \in 0 .. runs BY <1>u, <1>n, BoundsAssumption DEF TypeOK, PhaseInv
  <2> QED BY <1>c, <1>u, <2>1, TypeNext DEF TypeOK
<1>3. PhaseInv' BY <1>c, <1>u DEF PhaseInv
<1>4. RunInv' BY <1>u DEF RunInv
<1>5. RestInv'
  <2> SUFFICES ASSUME NEW p \in Ops(cfg),
                      \/ Rank(cfg)[p] <= streak'
                      \/ /\ Quiet
                         /\ \/ verdict[p] = "unsatisfied"
                            \/ \A d \in Deps(cfg, p) : verdict[d] = "satisfied"
               PROVE  SeesTo(cfg, p, w)
    BY <1>c, <1>u DEF RestInv, Quiet
  <2>1. Quiet
    <3>1. Rank(cfg)[p] \in Nat \ {0} BY <1>c, Ranks
    <3> QED BY <3>1, <1>u DEF Quiet
  <2>2. /\ verdict[p] = "unsatisfied" => SeesTo(cfg, p, w)
        /\ verdict[p] = "satisfied"
              /\ (Rank(cfg)[p] <= streak + 1 \/ \A d \in Deps(cfg, p) : verdict[d] = "satisfied")
           => SeesTo(cfg, p, w)
    BY <1>u, <2>1 DEF RunInv
  <2>3. verdict[p] \in {"satisfied", "unsatisfied"} BY <1>u DEF TypeOK
  <2>4. streak' = streak + 1 BY <1>u, <2>1 DEF Quiet
  <2> QED BY <2>2, <2>3, <2>4
<1>6. ReportInv' BY <1>c, <1>u DEF ReportInv, Quiet
<1> QED BY <1>2, <1>3, <1>4, <1>5, <1>6

\* An edit by others keeps the invariant: nothing is settled any more.
LEMMA EditInv == SettleInv /\ Edit => SettleInv'
<1> SUFFICES ASSUME SettleInv, Edit PROVE SettleInv' OBVIOUS
<1> USE DEF SettleInv
<1>c. cfg \in Config /\ cfg' = cfg /\ w.fault \in BOOLEAN
  BY ConfigsAssumption, WorldHasFault DEF TypeOK, Edit
<1>1. IsWorld(cfg, w')
  <2> PICK u \in Edits(cfg, w) : IsWorld(cfg, u) /\ w' = WithFault(u, w.fault) BY DEF Edit
  <2> QED BY <1>c, FaultAside
<1>u. /\ edited' = TRUE /\ streak' = 0 /\ edits' = edits + 1 /\ edits < MaxEdits
      /\ phase' = phase /\ verdict' = verdict /\ left' = left /\ changed' = changed
      /\ result' = result /\ before' = before /\ runs' = runs
  BY DEF Edit
<1>2. TypeOK'
  <2>1. streak' \in 0 .. runs /\ edits' \in 0 .. MaxEdits BY <1>u, BoundsAssumption DEF TypeOK
  <2> QED BY <1>c, <1>1, <1>u, <2>1 DEF TypeOK
<1>3. PhaseInv'
  <2>1. phase # "idle" => streak' < runs' BY <1>u, BoundsAssumption DEF TypeOK, PhaseInv
  <2> QED BY <1>c, <1>u, <2>1 DEF PhaseInv
<1>4. RunInv' BY <1>u DEF RunInv, Quiet
<1>5. RestInv'
  <2> SUFFICES ASSUME NEW p \in Ops(cfg) PROVE ~(Rank(cfg)[p] <= streak')
    BY <1>c, <1>u DEF RestInv, Quiet
  <2> QED BY <1>c, <1>u, Ranks
<1>6. ReportInv' BY <1>u DEF ReportInv, Quiet
<1> QED BY <1>2, <1>3, <1>4, <1>5, <1>6

\* It is inductive.
LEMMA StepInv == SettleInv /\ [Next]_vars => SettleInv'
<1> SUFFICES ASSUME SettleInv, [Next]_vars PROVE SettleInv' OBVIOUS
<1>1. CASE Start BY <1>1, StartInv
<1>2. ASSUME NEW o \in Ops(cfg), CheckOp(o) PROVE SettleInv' BY <1>2, CheckInv
<1>3. ASSUME NEW o \in Ops(cfg), ExecuteOp(o) PROVE SettleInv' BY <1>3, ExecuteInv
<1>4. CASE StartExec BY <1>4, StartExecInv
<1>5. CASE Finish BY <1>5, FinishInv
<1>6. CASE Edit BY <1>6, EditInv
<1>7. CASE UNCHANGED vars
  BY <1>7 DEF vars, SettleInv, TypeOK, PhaseInv, RunInv, RestInv, ReportInv, Quiet
<1> QED BY <1>1, <1>2, <1>3, <1>4, <1>5, <1>6, <1>7 DEF Next, Rest

\* What clean runs have settled stays settled, for every declaration, every
\* choice of edits and all bounds: until an op one waits for, a fault or an
\* edit undoes it (runStep, initPending, executeOps).
THEOREM Settling == Spec => []SettleInv
<1>1. Init => SettleInv BY InitInv
<1>2. SettleInv /\ [Next]_vars => SettleInv' BY StepInv
<1> QED BY <1>1, <1>2, PTL DEF Spec

----

\* A verdict that the op would give again tells what is so.
LEMMA FreshIsSound ==
  ASSUME NEW c \in Config, NEW o \in Ops(c), NEW u, IsWorld(c, u), ~u.fault,
         [res |-> "satisfied", w |-> u] \in Check(c, o, u)
  PROVE  SeesTo(c, o, u)
<1> DEFINE out == [res |-> "satisfied", w |-> u]
<1>1. Checked(c, o, u, out) BY CheckIsSound
<1> QED BY <1>1 DEF Checked

\* The invariant says more than Converges.
LEMMA ConvergesNow == SettleInv => Converges
<1> SUFFICES ASSUME SettleInv PROVE Converges OBVIOUS
<1> USE DEF SettleInv
<1>c. cfg \in Config /\ IsWorld(cfg, w) BY ConfigsAssumption DEF TypeOK
<1>d. (\A o \in Ops(cfg) : SeesTo(cfg, o, w)) => Desired(cfg, w) \/ Unseen(cfg, w)
  BY <1>c, SettledIsDesired
<1>v. \A o \in Ops(cfg) : verdict[o] \in {"none", "satisfied", "unsatisfied"} BY DEF TypeOK
<1>1. Converged
  <2> SUFFICES ASSUME CleanRun, result = "ok", ~Overtaken, NEW o \in Ops(cfg)
               PROVE  SeesTo(cfg, o, w)
    BY <1>d DEF Converged
  <2>1. CASE verdict[o] = "unsatisfied" BY <2>1 DEF RestInv, CleanRun, Quiet
  <2>2. CASE verdict[o] = "satisfied" /\ \A d \in Deps(cfg, o) : verdict[d] = "satisfied"
    BY <2>2 DEF RestInv, CleanRun, Quiet
  <2>3. CASE verdict[o] = "satisfied" /\ \E d \in Deps(cfg, o) : verdict[d] # "satisfied"
    <3>1. Deps(cfg, o) \subseteq Ops(cfg) BY <1>c, Ranks
    <3>2. \E d \in Deps(cfg, o) : verdict[d] = "unsatisfied" BY <1>v, <2>3, <3>1 DEF PhaseInv
    <3>3. [res |-> "satisfied", w |-> w] \in Check(cfg, o, w) BY <2>3, <3>2 DEF Overtaken
    <3> QED BY <1>c, <3>3, FreshIsSound DEF CleanRun
  <2> QED BY <1>v, <2>1, <2>2, <2>3 DEF PhaseInv
<1>2. SatisfiedMeansDesired
  <2> SUFFICES ASSUME phase = "exec", left = {}, ~w.fault, ~edited,
                      \A o \in Ops(cfg) : verdict[o] = "satisfied", NEW o \in Ops(cfg)
               PROVE  SeesTo(cfg, o, w)
    BY <1>d DEF SatisfiedMeansDesired
  <2>1. left = {p \in Ops(cfg) : verdict[p] = "unsatisfied"} OBVIOUS
  <2> QED BY <2>1 DEF RunInv, Quiet
<1>3. RepeatedRunsConverge
  <2> SUFFICES ASSUME CleanRun, \A o \in Ops(cfg) : streak >= Rank(cfg)[o], NEW o \in Ops(cfg)
               PROVE  SeesTo(cfg, o, w)
    BY <1>d DEF RepeatedRunsConverge
  <2>1. Rank(cfg)[o] \in Nat /\ streak \in Nat BY <1>c, Ranks, BoundsAssumption DEF TypeOK
  <2> QED BY <2>1 DEF RestInv, CleanRun
<1> QED BY <1>1, <1>2, <1>3 DEF Converges

\* A step reaches what it declares, but for what none of its checks looks at: at
\* once unless an op was overtaken, after as many clean runs as its longest chain
\* has ops in any case, and where it finds all of its ops satisfied (runStep).
THEOREM Convergence == Spec => []Converges
BY Settling, ConvergesNow, PTL

\* The runs keep to their types, whatever the worlds and edits are.
THEOREM TypeCorrect == Spec => []TypeOK
BY Settling, PTL DEF SettleInv

\* A run that changed the target has reported a change, so that the hooks of
\* the step are notified (opNode.changed).
THEOREM Reporting == Spec => []ChangeIsReported
<1>1. SettleInv => ChangeIsReported BY DEF SettleInv, ReportInv, ChangeIsReported, CleanRun, Quiet
<1> QED BY <1>1, Settling, PTL

----
\* Runs on a target that is as declared.

\* A group that is as declared is found so.
LEMMA GroupRests ==
  ASSUME NEW c \in HostConfig, c.kind = "group", NEW o \in Ops(c), NEW u, AtRest(c, u),
         NEW out \in Check(c, o, u), ~out.w.fault
  PROVE  out.res # "unsatisfied"
<1>0. c.state \in {"present", "absent"} /\ c.gid # "none" BY HostConfigs
<1>1. u \in GroupWorld /\ GroupDesired(c, u) BY GroupIs DEF AtRest
<1>2. Faulty(u).fault = TRUE BY <1>1, GroupFault DEF Faulty
<1>3. \/ c.state = "present" /\ out \in CheckGroup(u)
      \/ c.state = "absent" /\ out \in CheckNoGroup(u)
  <2>1. o = IF c.state = "present" THEN "group" ELSE "no group" BY GroupIs DEF GroupOps
  <2> QED BY <1>0, <2>1, GroupIs
<1> QED
  BY <1>0, <1>1, <1>2, <1>3 DEF CheckGroup, CheckNoGroup, Ask, Lost, Ends, Verdict, GroupDesired

\* So is an account.
LEMMA UserRests ==
  ASSUME NEW c \in HostConfig, c.kind = "user", NEW o \in Ops(c), NEW u, AtRest(c, u),
         NEW out \in Check(c, o, u), ~out.w.fault
  PROVE  out.res # "unsatisfied"
<1>0. c.state \in {"present", "absent"} /\ c.home \in BOOLEAN BY HostConfigs
<1>1. u \in UserWorld /\ UserDesired(c, u) BY UserIs DEF AtRest
<1>o. o = IF c.state = "present" THEN "user" ELSE "no user" BY UserIs DEF UserOps
<1>2. Faulty(u).fault = TRUE /\ Faulty(Faulty(u)) = Faulty(u)
  BY <1>1, UserFault, FaultyTwice DEF Faulty
<1>3. CASE c.state = "present"
  <2>1. out \in CheckUser(c, u) BY <1>3, <1>o, UserIs
  <2>2. u.there /\ ~AccountDrifts(c, u, u.groups) /\ ~HomeDrifts(c, u)
    BY <1>0, <1>1, <1>3 DEF UserDesired, HomeDrifts
  <2> QED
    BY <1>0, <1>1, <1>2, <2>1, <2>2 DEF CheckUser, GetUser, Ask, Lost, Ends, Verdict, HomeDrifts
<1>4. CASE c.state = "absent"
  <2>1. out \in CheckNoUser(u) BY <1>4, <1>o, UserIs
  <2>2. ~u.there BY <1>1, <1>4 DEF UserDesired, UserWorld
  <2> QED BY <1>2, <2>1, <2>2 DEF CheckNoUser, Ask, Lost, Ends, Verdict
<1> QED BY <1>0, <1>3, <1>4

\* So is a service; a restart is asked for each time.
LEMMA ServiceRests ==
  ASSUME NEW c \in HostConfig, c.kind = "service", NEW o \in Ops(c), NEW u, AtRest(c, u),
         NEW out \in Check(c, o, u), ~out.w.fault
  PROVE  out.res = "unsatisfied" => o \in {"restarted", "reloaded"}
<1>1. u \in ServiceWorld /\ ServiceDesired(c, u) BY ServiceIs DEF AtRest
<1>2. Faulty(u).fault = TRUE BY <1>1, ServiceFault DEF Faulty
<1>3. /\ o \in {"active", "enabled", "restarted", "reloaded"}
      /\ o \in {"active", "enabled"} <=> c.state \in {"running", "stopped"}
  BY ServiceOpsAre
<1>4. CASE o = "active"
  <2>1. out \in CheckActive(c, u) /\ ((u.running # "no") = (c.state = "running"))
    BY <1>1, <1>3, <1>4, ServiceIs DEF ServiceDesired
  <2> QED BY <1>2, <2>1 DEF CheckActive, Ask, Lost, Ends, Verdict
<1>5. CASE o = "enabled"
  <2>1. out \in CheckEnabled(c, u) /\ u.enabled = c.enabled
    BY <1>1, <1>3, <1>5, ServiceIs DEF ServiceDesired
  <2> QED BY <1>2, <2>1 DEF CheckEnabled, Ask, Lost, Ends, Verdict
<1> QED BY <1>3, <1>4, <1>5

\* So is a kernel parameter.
LEMMA SysctlRests ==
  ASSUME NEW c \in HostConfig, c.kind = "sysctl", NEW o \in Ops(c), NEW u, AtRest(c, u),
         NEW out \in Check(c, o, u), ~out.w.fault
  PROVE  out.res # "unsatisfied"
<1>1. c.persist \in BOOLEAN /\ u \in SysctlWorld /\ SysctlDesired(c, u)
  BY HostConfigs, SysctlIs DEF AtRest
<1>2. Faulty(u).fault = TRUE BY <1>1, SysctlFault DEF Faulty
<1>3. \/ out \in CheckSet(c, u)
      \/ c.persist /\ out \in CheckPersist(c, u)
      \/ ~c.persist /\ out \in CheckCleanup(u)
  BY <1>1, SysctlIs DEF SysctlOps
<1> QED
  BY <1>1, <1>2, <1>3 DEF CheckSet, CheckPersist, CheckCleanup, Ask, Lost, Ends, Verdict,
     SysctlDesired

\* So is a mount, where the mount point is not taken for one.
LEMMA MountRests ==
  ASSUME NEW c \in HostConfig, c.kind = "mount", NEW o \in Ops(c), NEW u, AtRest(c, u),
         NEW out \in Check(c, o, u), ~out.w.fault
  PROVE  out.res # "unsatisfied"
<1>1. /\ c.state \in {"mounted", "unmounted", "absent"} /\ c.opts # "none" /\ u \in MountWorld
      /\ MountDesired(c, u) /\ ~MountStuck(c, u)
  BY HostConfigs, MountIs DEF AtRest
<1>2. Faulty(u).fault = TRUE /\ Faulty(Faulty(u)) = Faulty(u)
  BY <1>1, MountFault, FaultyTwice DEF Faulty
<1>3. out \in CheckMount(c, u) BY MountIs
<1>4. /\ c.state = "mounted" => u.fstab = c.opts /\ FindmntTarget(u)
      /\ c.state = "unmounted" => u.fstab = c.opts /\ ~FindmntTarget(u)
      /\ c.state = "absent" => u.fstab = "none" /\ ~FindmntTarget(u)
  BY <1>1 DEF MountDesired, MountStuck, FindmntTarget
<1> QED BY <1>1, <1>2, <1>3, <1>4 DEF CheckMount, AskOr, Ask, Lost, Ends, Verdict

\* So is a firewall rule.
LEMMA FirewallRests ==
  ASSUME NEW c \in HostConfig, c.kind = "firewall", NEW o \in Ops(c), NEW u, AtRest(c, u),
         NEW out \in Check(c, o, u), ~out.w.fault
  PROVE  out.res # "unsatisfied"
<1>1. u \in FirewallWorld /\ RuleDesired(c, u) /\ out \in CheckRule(c, u) BY FirewallIs DEF AtRest
<1>2. PICK d \in DetectBackend(u) :
            \/ d.res = "ufw" /\ out \in Lost(d.w) \cup Verdict(d.w.added = c.action, d.w)
            \/ d.res = "firewalld" /\ out \in Lost(d.w) \cup Verdict(c.action \in d.w.runtime, d.w)
            \/ d.res = "error" /\ out \in Ends("error", d.w)
  BY <1>1, BackendDetected DEF CheckRule, Ask
<1>3. /\ d.res \in {"ufw", "firewalld", "error"} /\ d.w \in {u, Faulty(u)}
      /\ d.w # Faulty(u) /\ d.res # "error" => (d.res = "ufw" <=> u.ufw)
  BY <1>1, BackendDetected
<1>4. Faulty(u).fault = TRUE /\ Faulty(Faulty(u)) = Faulty(u) BY <1>1, FirewallFaulty
<1> QED BY <1>1, <1>2, <1>3, <1>4 DEF Lost, Ends, Verdict, RuleDesired

\* So is what a command sees to; one without a check is run each time.
LEMMA RunRests ==
  ASSUME NEW c \in CommandConfig, c.kind = "run", NEW o \in Ops(c), NEW u, AtRest(c, u),
         NEW out \in Check(c, o, u), ~out.w.fault
  PROVE  out.res = "unsatisfied" => c.always
<1>1. u \in RunWorld /\ u.holds /\ out \in CheckRun(c, u) BY RunIs DEF AtRest
<1>2. Faulty(u).fault = TRUE BY <1>1, RunFault DEF Faulty
<1> QED BY <1>1, <1>2 DEF CheckRun, Ask, Lost, Ends, Verdict

\* So is a set of items, and a check leaves it so.
LEMMA RunSetRests ==
  ASSUME NEW c \in CommandConfig, c.kind = "run_set", NEW o \in Ops(c), NEW u, AtRest(c, u),
         NEW out \in Check(c, o, u), ~out.w.fault
  PROVE  out.res # "unsatisfied" /\ Desired(c, out.w) /\ ~Stuck(c, out.w)
<1>1. /\ u \in RunSetWorld /\ out \in CheckRunSet(c, u) /\ ~Stuck(c, out.w)
      /\ u.listed /\ (c.add => c.desired \subseteq u.live) /\ (c.remove => u.live \subseteq c.desired)
      /\ c.add \in BOOLEAN /\ c.remove \in BOOLEAN
  BY RunSetIs DEF AtRest
<1>2. /\ Planned(c, u) \in RunSetWorld /\ Planned(c, u).live = u.live /\ Planned(c, u).listed = u.listed
  BY <1>1, PlanMade
<1>3. ToAdd(c, u) = {} /\ ToRemove(c, u) = {} BY <1>1 DEF ToAdd, ToRemove
<1>4. Faulty(u).fault = TRUE BY <1>1, RunSetFaulty
<1>5. out \in Lost(u) \cup Verdict(ToAdd(c, u) \cup ToRemove(c, u) = {}, Planned(c, u))
  <2>1. \A d \in ListLive(c, u) : d \in Lost(u) \cup Returns(u) BY <1>1 DEF ListLive, Ask
  <2> QED BY <1>1, <2>1 DEF CheckRunSet, Then, Lost, Returns, Ends
<1>6. out.w = Planned(c, u) /\ out.res = "satisfied" BY <1>3, <1>4, <1>5 DEF Lost, Ends, Verdict
<1>7. Desired(c, out.w) BY <1>1, <1>2, <1>6, RunSetIs
<1> QED BY <1>1, <1>6, <1>7

\* So is a container.
LEMMA ContainerRests ==
  ASSUME NEW c \in ContainerConfig, NEW o \in Ops(c), NEW u, AtRest(c, u),
         NEW out \in Check(c, o, u), ~out.w.fault
  PROVE  out.res # "unsatisfied"
<1> DEFINE Fine == IF c.state = "absent" THEN ~Seen(u)
                   ELSE Seen(u) /\ ~ConfigDrift(c, u) /\ u.running = (c.state = "running")
<1>1. /\ u \in ContainerWorld /\ ContainerDesired(c, u) /\ ~ContainerStuck(c, u)
      /\ out \in CheckContainer(c, u)
  BY ContainerIs DEF AtRest
<1>2. Fine /\ CheckSources(c, u) = Returns(u)
  <2>1. Fine BY <1>1 DEF ContainerDesired, ContainerStuck, Seen, ConfigDrift
  <2> QED BY <2>1 DEF CheckSources
<1>3. out \in Lost(u) \cup Verdict(Fine, u)
  BY <1>1, <1>2 DEF CheckContainer, Ask, Then, Returns, Ends
<1>4. Faulty(u).fault = TRUE BY <1>1, ContainerFaulty
<1> HIDE DEF Fine
<1> QED BY <1>2, <1>3, <1>4 DEF Lost, Ends, Verdict

\* The steps of the kinds that touch no files find what is as declared to be so.
LEMMA HostRests ==
  ASSUME NEW c \in Config, c \in HostConfig, NEW o \in Ops(c), NEW u, AtRest(c, u),
         NEW out \in Check(c, o, u), ~out.w.fault
  PROVE  out.res = "unsatisfied" => o \in {"restarted", "reloaded"}
<1>1. c.kind \in {"group", "user", "service", "sysctl", "mount", "firewall"}
  BY HostConfigs DEF HostKinds
<1> QED BY <1>1, GroupRests, UserRests, ServiceRests, SysctlRests, MountRests, FirewallRests

\* The packages are found as declared, and so are the files of the repository;
\* where the latest versions are asked for, the index has to tell.
LEMMA PkgRests ==
  ASSUME NEW c \in PkgConfig, NEW o \in Ops(c), NEW u, AtRest(c, u),
         NEW out \in Check(c, o, u), ~out.w.fault
  PROVE  out.res = "unsatisfied" => o = "pkgs" /\ c.state = "latest"
<1>1. /\ IsPkgWorld(u) /\ PkgDesired(c, u) /\ c.state \in {"present", "absent", "latest"}
      /\ o \in {"pkgs", "repo", "key", "download"}
  BY PkgIs, PkgOpsAre DEF AtRest
<1>2. out.res = "unsatisfied" => ~SeesTo(c, o, u)
  <2>1. Faulty(u).fault = TRUE BY <1>1, PkgFaulty
  <2> QED BY <2>1, PkgTells
<1>3. CASE o = "pkgs" /\ c.state # "latest"
  <2>1. Actionable(c, u) = {} BY <1>1, <1>3 DEF PkgDesired, Actionable, Missing
  <2> QED BY <1>2, <1>3, <2>1, PkgSees
<1>4. CASE o \in {"repo", "key"}
  <2>1. c.third BY <1>4, PkgIs DEF PkgOps
  <2>2. u.repo = "good" /\ u.key = u.remote /\ u.remote # "none"
    BY <1>1, <2>1 DEF PkgDesired, Usable, IsPkgWorld
  <2> QED BY <1>2, <1>4, <2>2, PkgSees
<1>5. CASE o = "download"
  <2>1. Deps(c, o) = {} BY <1>5, PkgIs DEF PkgDeps
  <2> QED BY <1>2, <2>1 DEF AtRest
<1> QED BY <1>1, <1>3, <1>4, <1>5

\* What is so of every path the step manages is seen to in the whole tree.
LEMMA ManagedIsTree ==
  ASSUME NEW c \in FileConfig, NEW u, FilesOK(u), c.kind = "unarchive" => IsUnpacked(u.fs),
         Stats(u.fs, Dest), NEW field, NEW value, \A q \in Managed(c, u) : u.fs[q][field] = value
  PROVE  TreeHas(u.fs, Dest, Deep(c), field, value)
<1>1. IsTree(u.fs) BY DEF FilesOK
<1>2. CASE Deep(c)
  <2>1. Follow(u.fs, Dest) = Dest BY <1>1, <1>2, Following DEF Deep, IsUnpacked
  <2>2. \A q \in Below(u.fs, Dest) : Follow(u.fs, q) = q /\ Stats(u.fs, q) BY <1>1, BelowIs
  <2> QED BY <1>2, <2>1, <2>2 DEF TreeHas, Managed, Tree
<1>3. CASE ~Deep(c) BY <1>3 DEF TreeHas, Managed
<1> QED BY <1>2, <1>3

\* The archive that is unpacked is the one the marker names: "v1" and "v2"
\* hold different things under the same name.
LEMMA UnpackedIsMarked ==
  ASSUME NEW c \in FileConfig, c.kind = "unarchive", NEW u, FilesOK(u), IsUnpacked(u.fs),
         FileDesired(c, u), ~FileStuck(c, u), Contents(u.fs, Marker) # "none",
         Source(c, u) = Declared(c, u)
  PROVE  Marked(c, u) /\ Stats(u.fs, Dest)
<1> DEFINE told == Contents(u.fs, Marker)
<1>1. told \in {"v1", "v2"} BY DEF IsUnpacked, FileStuck
<1>2. Contents(u.fs, Main) = told /\ Contents(u.fs, Main) = Declared(c, u)
  <2>1. \A data : Main \in Members(data) \ {Lib} BY EntriesDiffer DEF Members
  <2>2. Unpacked(u.fs, told) /\ Unpacked(u.fs, Declared(c, u))
    BY <1>1 DEF FileStuck, FileDesired, Readable
  <2> QED BY <2>1, <2>2 DEF Unpacked
<1>3. IsTree(u.fs) BY DEF FilesOK
<1>4. Main \in DOMAIN u.fs
  <2>0. Main # Dest BY PathsDiffer
  <2>1. Follow(u.fs, Main) = Main BY <1>3, <2>0, HoldsData
  <2> QED BY <1>1, <1>2, <2>1, PlainPath
<1>5. Dest \in DOMAIN u.fs /\ u.fs[Dest].kind = "dir"
  <2>1. Dest \in Prefixes(Main) \ {Main} BY PrefixesAre, PathsDiffer
  <2> QED BY <1>3, <1>4, <2>1 DEF IsTree, Exists
<1>6. Stats(u.fs, Dest) BY <1>5 DEF Stats, IsDir, Follow, Exists
<1> QED BY <1>1, <1>2, <1>6 DEF Marked

\* Every op of a file step has done what it is there for, if the target is as
\* declared.
LEMMA FilesRest ==
  ASSUME NEW c \in FileConfig, NEW u, AtRest(c, u), NEW o \in Ops(c)
  PROVE  SeesTo(c, o, u)
<1>0. FilesOK(u) /\ (c.kind = "unarchive" => IsUnpacked(u.fs)) /\ IsTree(u.fs)
  BY FilesAre, FileWorldIs DEF AtRest, FilesOK
<1>1. FileDesired(c, u) /\ ~FileStuck(c, u) BY FilesAre DEF AtRest
<1>2. "download" \in Ops(c) => SeesTo(c, "download", u) BY FileOpsAre DEF AtRest
<1>3. c.source = "remote" => HasCache(c, u) BY <1>2, FileOpsAre, FileSees
<1>4. c.source \in {"local", "remote", "target"} => Source(c, u) = Declared(c, u)
  BY <1>0, <1>1, <1>3, CacheIsDeclared DEF FileStuck
<1>5. c.source # "remote" => SeesTo(c, MainOp(c), u) BY FileOpsAre DEF AtRest
<1>6. c.source = "remote" => Source(c, u) # "none" BY <1>3 DEF Source, HasCache
<1>7. SeesTo(c, MainOp(c), u) /\ (c.kind # "symlink" => Stats(u.fs, Dest))
  <2>1. CASE c.kind = "dir" BY <1>1, <2>1, FileOpsAre, FileSees DEF FileDesired, Stats
  <2>2. CASE c.kind = "symlink" BY <1>1, <2>2, FileOpsAre, FileSees DEF FileDesired, LinkInPlace
  <2>3. CASE c.kind \in {"copy", "template"}
    <3>1. c.source \in {"local", "remote", "target"} /\ Contents(u.fs, Dest) = Source(c, u)
      BY <1>1, <1>4, <2>3, FileIs DEF FileDesired
    <3>2. HasContent(c, u)
      <4>1. CASE c.source # "remote" BY <1>5, <2>3, <4>1, FileOpsAre, FileSees
      <4>2. CASE c.source = "remote"
        <5>1. c.kind = "template" => Source(c, u) \notin {"bad", "cut"}
            BY <1>1, <4>2 DEF FileStuck, Source
        <5> QED BY <1>6, <2>3, <3>1, <4>2, <5>1 DEF HasContent, Rendered
      <4> QED BY <4>1, <4>2
    <3>3. Contents(u.fs, Dest) # "none" BY <3>2 DEF HasContent
    <3>4. Stats(u.fs, Dest) BY <3>3 DEF Contents, Stats
    <3> QED BY <2>3, <3>2, <3>4, FileOpsAre, FileSees
  <2>4. CASE c.kind = "unarchive"
    <3>1. Source(c, u) = Declared(c, u) BY <1>4, <2>4, FileIs
    <3>2. Contents(u.fs, Marker) # "none" BY <2>4 DEF AtRest
    <3> QED BY <1>0, <1>1, <2>4, <3>1, <3>2, UnpackedIsMarked, FileOpsAre, FileSees
  <2> QED BY <2>1, <2>2, <2>3, <2>4, FileIs DEF FileKinds
<1>8. CASE o \in {"mode", "owner"}
  <2>1. c.kind # "symlink" BY <1>8, FileIs, FileOpsAre
  <2>2. CASE o = "mode"
    <3>1. \A q \in Managed(c, u) : u.fs[q]["mode"] = c.mode
      BY <1>1, <2>2, FileOpsAre DEF FileDesired, OwnerAndMode
    <3> QED BY <1>0, <1>7, <2>1, <2>2, <3>1, ManagedIsTree, FileSees
  <2>3. CASE o = "owner"
    <3>1. \A q \in Managed(c, u) : u.fs[q]["owner"] = c.owner
      BY <1>1, <2>3, FileOpsAre DEF FileDesired, OwnerAndMode
    <3> QED BY <1>0, <1>7, <2>1, <2>3, <3>1, ManagedIsTree, FileSees
  <2> QED BY <1>8, <2>2, <2>3
<1> QED BY <1>2, <1>7, <1>8, FileOpsAre

\* The checks of a run on a target that is as declared find nothing to do but
\* for the ops that always have, and leave the target so.
LEMMA CheckRests ==
  ASSUME NEW c \in Config, NEW o \in Ops(c), NEW u, AtRest(c, u),
         NEW out \in Check(c, o, u), ~out.w.fault
  PROVE  /\ out.res = "unsatisfied" => Standing(c, o)
         /\ Desired(c, out.w) /\ ~Stuck(c, out.w)
<1>0. IsWorld(c, u) BY DEF AtRest
<1>1. Faulty(u).fault = TRUE BY <1>0, FaultAside DEF Faulty
<1>2. out.w = u => Desired(c, out.w) /\ ~Stuck(c, out.w) BY DEF AtRest
<1>3. CASE c \in FileConfig
  <2>1. Tells(u, SeesTo(c, o, u), out) /\ SeesTo(c, o, u) BY <1>0, <1>3, FileTells, FilesRest
  <2> QED BY <1>1, <1>2, <2>1 DEF Tells
<1>4. CASE c \in PkgConfig
  <2>1. out.w \in {u, Faulty(u)} BY <1>4, PkgTells
  <2> QED BY <1>1, <1>2, <1>4, <2>1, PkgRests DEF Standing
<1>5. CASE c \in ContainerConfig
  <2>1. o = "main" /\ u \in ContainerWorld BY <1>0, <1>5, ContainerIs
  <2>2. out.w \in {u, Faulty(u)} BY <1>5, <2>1, ContainerLooked DEF Looked
  <2> QED BY <1>1, <1>2, <1>5, <2>2, ContainerRests
<1>6. CASE c \in CommandConfig /\ c.kind = "run"
  <2>1. o = "main" /\ u \in RunWorld BY <1>0, <1>6, RunIs
  <2>2. out.w \in {u, Faulty(u)} BY <1>6, <2>1, RunLooked DEF Looked
  <2> QED BY <1>1, <1>2, <1>6, <2>2, RunRests DEF Standing
<1>7. CASE c \in CommandConfig /\ c.kind = "run_set" BY <1>7, RunSetRests
<1>8. CASE c \in HostConfig
  <2>1. out.w \in {u, Faulty(u)} BY <1>0, <1>8, HostIsChecked DEF Looked
  <2> QED BY <1>1, <1>2, <1>8, <2>1, HostRests DEF Standing
<1> QED BY <1>3, <1>4, <1>5, <1>6, <1>7, <1>8, KindCases

\* A restart or reload of a service that runs the unit on the disk leaves it
\* running that unit.
LEMMA RestartRests ==
  ASSUME NEW c \in HostConfig, c.kind = "service", NEW o \in {"restarted", "reloaded"},
         NEW u, IsWorld(c, u), SeesTo(c, o, u), NEW out \in Execute(c, o, u), out.res # "error"
  PROVE  Target(c, out.w) = Target(c, u)
<1>1. u \in ServiceWorld /\ out \in ExecuteRestart(c, u) /\ u.running = u.unit /\ u.loaded = u.unit
  BY ServiceIs DEF SeesTo
<1>2. /\ out.w \in ServiceWorld /\ out.w.unit = u.unit /\ out.w.enabled = u.enabled
      /\ out.w.running = u.running /\ out.w.loaded = u.loaded
  BY <1>1, RestartExecuted
<1>3. WithFault(out.w, FALSE) = WithFault(u, FALSE) BY <1>1, <1>2 DEF ServiceWorld, WithFault
<1> QED BY <1>3, ServiceIs

\* A command that is always run cannot spoil what it is there for.
LEMMA RunStays ==
  ASSUME NEW c \in CommandConfig, c.kind = "run", NEW u \in RunWorld, u.holds,
         NEW out \in Execute(c, "main", u)
  PROVE  Target(c, out.w) = Target(c, u)
<1> DEFINE v == [u EXCEPT !.holds = @ \/ c.apply = "works"]
<1>1. v = u BY DEF RunWorld
<1>2. out \in ExecuteRun(c, u) BY RunIs
<1>3. out \in Lost(u) \cup Ends("error", u) \cup Lost(v) \cup Done(v) \cup Ends("error", v)
  BY <1>2 DEF ExecuteRun, Call, Ask
<1>4. out.w \in {u, Faulty(u)} BY <1>1, <1>3 DEF Lost, Ends, Done
<1>5. WithFault(Faulty(u), FALSE) = WithFault(u, FALSE) BY FaultTwice DEF Faulty
<1>6. WithFault(out.w, FALSE) = WithFault(u, FALSE) BY <1>4, <1>5
<1> QED BY <1>6, RunIs

\* Packages that have the latest version are not installed again, whatever
\* the index said before it was updated.
LEMMA LatestRests ==
  ASSUME NEW c \in PkgConfig, c.state = "latest", NEW u, IsPkgWorld(u), PkgDesired(c, u),
         NEW out \in ExecuteLatest(c, u), out.res # "error"
  PROVE  out.w.have = u.have /\ SameRepo(u, out.w)
<1> DEFINE x == Updated(c, u)
           Up(v) == IF Actionable(c, v) = {} THEN Ends("unchanged", v)
                    ELSE Then(InstallPkgs(v, Actionable(c, v)), Done)
<1>1. \/ out \in UpdateCache(c, u) /\ out.res # "returned"
      \/ \E d \in UpdateCache(c, u) : d.res = "returned" /\ out \in Lost(d.w) \cup Up(d.w)
  BY DEF ExecuteLatest, Then, Ask
<1>2. Usable(c, u) /\ \A p \in DOMAIN u.have : u.have[p] = u.mirror BY DEF PkgDesired
<1>3. UpdateCache(c, u) = Lost(u) \cup Lost(x) \cup Returns(x) BY <1>2 DEF UpdateCache, Call
<1>4. \A d \in UpdateCache(c, u) : d.res = "error" \/ d.w = x BY <1>3 DEF Lost, Ends, Returns
<1>5. x.have = u.have /\ x.index = u.mirror /\ x.key = u.key /\ x.repo = u.repo /\ u.mirror # "no"
  BY <1>2 DEF Updated, IsPkgWorld
<1>6. Actionable(c, x) = {} BY <1>2, <1>5 DEF Actionable, Missing, Upgradable
<1>7. out \in Lost(x) \cup Ends("unchanged", x)
  <2>1. PICK d \in UpdateCache(c, u) : d.res = "returned" /\ out \in Lost(d.w) \cup Up(d.w)
    BY <1>1, <1>4, <1>3 DEF Lost, Ends, Returns
  <2>2. d.w = x BY <1>4, <2>1
  <2> HIDE DEF x
  <2> QED BY <1>6, <2>1, <2>2
<1> HIDE DEF x
<1>8. out.w = x BY <1>7 DEF Lost, Ends
<1> QED BY <1>5, <1>8 DEF SameRepo

\* Which steps have the ops that always find something to do; such an op is
\* the only one of its step, or that of the packages.
LEMMA StandingIs ==
  ASSUME NEW c \in Config, NEW o \in Ops(c), Standing(c, o)
  PROVE  \/ c \in HostConfig /\ c.kind = "service" /\ o \in {"restarted", "reloaded"} /\ Ops(c) = {o}
         \/ c \in CommandConfig /\ c.kind = "run" /\ c.always /\ o = "main" /\ Ops(c) = {"main"}
         \/ c \in PkgConfig /\ c.state = "latest" /\ o = "pkgs"
<1>1. CASE c \in FileConfig BY <1>1, FileOpsAre, FileIs DEF Standing, FileKinds
<1>2. CASE c \in PkgConfig BY <1>2, PkgIs, PkgOpsAre DEF Standing
<1>3. CASE c \in ContainerConfig BY <1>3, ContainerIs DEF Standing
<1>4. CASE c \in CommandConfig /\ c.kind = "run" BY <1>4, RunIs DEF Standing
<1>5. CASE c \in CommandConfig /\ c.kind = "run_set" BY <1>5, RunSetIs DEF Standing
<1>6. CASE c \in HostConfig /\ c.kind = "service" BY <1>6, ServiceOpsAre DEF Standing
<1>7. CASE c \in HostConfig /\ c.kind \in {"group", "user", "sysctl", "mount", "firewall"}
  <2>1. o \in {"group", "no group", "user", "no user", "set", "persist", "cleanup", "main"}
    <3>1. c.kind = "group" => o \in {"group", "no group"} BY <1>7, GroupIs DEF GroupOps
    <3>2. c.kind = "user" => o \in {"user", "no user"} BY <1>7, UserIs DEF UserOps
    <3>3. c.kind = "sysctl" => o \in {"set", "persist", "cleanup"} BY <1>7, SysctlIs DEF SysctlOps
    <3>4. c.kind \in {"mount", "firewall"} => o = "main" BY <1>7, MountIs, FirewallIs
    <3> QED BY <1>7, <3>1, <3>2, <3>3, <3>4
  <2> QED BY <1>7, <2>1 DEF Standing
<1> QED BY <1>1, <1>2, <1>3, <1>4, <1>5, <1>6, <1>7, KindCases

\* No step has two of them.
LEMMA StandsAlone ==
  ASSUME NEW c \in Config, NEW o \in Ops(c), NEW p \in Ops(c), Standing(c, o), Standing(c, p)
  PROVE  o = p
<1>1. CASE Ops(c) = {o} BY <1>1
<1>2. CASE Ops(c) # {o}
  <2>1. c \in PkgConfig /\ o = "pkgs" BY <1>2, StandingIs
  <2>2. c.kind = "pkg" BY <2>1, PkgIs
  <2>3. p = "pkgs" \/ Ops(c) = {p} BY <2>2, StandingIs
  <2> QED BY <2>1, <2>3
<1> QED BY <1>1, <1>2

\* What they do to a target that is as declared does not show.
LEMMA ExecuteRests ==
  ASSUME NEW c \in Config, NEW o \in Ops(c), NEW u, AtRest(c, u), Standing(c, o),
         NEW out \in Execute(c, o, u), out.res # "error"
  PROVE  Target(c, out.w) = Target(c, u)
<1>1. CASE c \in HostConfig /\ c.kind = "service" /\ o \in {"restarted", "reloaded"} /\ Ops(c) = {o}
  <2>1. IsWorld(c, u) /\ SeesTo(c, o, u) BY <1>1, ServiceIs DEF AtRest
  <2> QED BY <1>1, <2>1, RestartRests
<1>2. CASE c \in CommandConfig /\ c.kind = "run" /\ c.always /\ o = "main"
  <2>1. u \in RunWorld /\ u.holds BY <1>2, RunIs DEF AtRest
  <2> QED BY <1>2, <2>1, RunStays
<1>3. CASE c \in PkgConfig /\ c.state = "latest" /\ o = "pkgs"
  <2>1. IsPkgWorld(u) /\ PkgDesired(c, u) BY <1>3, PkgIs DEF AtRest
  <2>2. out \in ExecuteLatest(c, u) BY <1>3, PkgIs DEF PkgExecute, ExecutePkgs
  <2>3. out.w.have = u.have /\ SameRepo(u, out.w) BY <1>3, <2>1, <2>2, LatestRests
  <2> QED BY <1>3, <2>3, PkgIs DEF SameRepo
<1> QED BY <1>1, <1>2, <1>3, StandingIs

\* The ops that set mode and owner leave names and contents as they are.
LEMMA ModesKeepShape ==
  ASSUME NEW c \in FileConfig, c.kind \in {"copy", "unarchive"}, NEW o \in {"mode", "owner"},
         NEW u, IsWorld(c, u), NEW out \in Execute(c, o, u)
  PROVE  SameShape(u.fs, out.w.fs) /\ out.w.cache = u.cache
<1>0. FilesOK(u) /\ (c.kind = "unarchive" => IsUnpacked(u.fs)) BY FilesAre, FileWorldIs
<1>1. out \in FileExecute(c, o, u) BY FilesAre
<1>2. /\ c.mode \in Value /\ c.owner \in Value /\ Deep(c) \in BOOLEAN
      /\ Deep(c) => ~IsLink(u.fs, Dest)
  BY <1>0, FileIs DEF Deep, IsUnpacked
<1>3. \E kept : Reshapes(u, out.w, kept)
  <2>1. CASE o = "mode"
    <3>1. out \in ExecuteMode(u, Dest, c.mode, Deep(c)) BY <1>1, <2>1 DEF FileExecute
    <3>2. Sets(u, "mode", "owner", c.mode, Deep(c), out) BY <1>0, <1>2, <3>1, ModeExecuted
    <3> QED BY <3>2 DEF Sets
  <2>2. CASE o = "owner"
    <3>1. out \in ExecuteOwner(u, Dest, c.owner, Deep(c)) BY <1>1, <2>2 DEF FileExecute
    <3>2. Sets(u, "owner", "mode", c.owner, Deep(c), out) BY <1>0, <1>2, <3>1, OwnerExecuted
    <3> QED BY <3>2 DEF Sets
  <2> QED BY <2>1, <2>2
<1> QED BY <1>3 DEF Reshapes, Alike, SameHost

\* An archive that a check finds extracted has a marker; no check removes one.
LEMMA CheckMarks ==
  ASSUME NEW c \in Config, c.kind = "unarchive", NEW o \in Ops(c), NEW u, IsWorld(c, u),
         NEW out \in Check(c, o, u), ~out.w.fault
  PROVE  /\ Contents(u.fs, Marker) # "none" => Contents(out.w.fs, Marker) # "none"
         /\ o = "archive" /\ out.res = "satisfied" => Contents(out.w.fs, Marker) # "none"
<1>1. c \in FileConfig BY ConfigCases DEF FileKinds
<1>2. out.w.fs = u.fs
  <2>1. Looked(c, o, u, out) /\ IsFileWorld(c, u) BY <1>1, FileLooked, FilesAre
  <2>2. Faulty(u).fs = u.fs BY <2>1, FileWorldIs, KeepsFaulty DEF SameHost
  <2> QED BY <2>1, <2>2 DEF Looked
<1>3. o = "archive" /\ out.res = "satisfied" => Marked(c, out.w)
  BY <1>1, CheckIsSound, FileSees DEF Checked
<1> QED BY <1>2, <1>3 DEF Marked

\* No op that succeeds removes the marker, and the archive op sets it.
LEMMA ExecuteMarks ==
  ASSUME NEW c \in Config, c.kind = "unarchive", NEW o \in Ops(c), NEW u, IsWorld(c, u),
         NEW out \in Execute(c, o, u), out.res \in {"changed", "unchanged"},
         o = "archive" \/ Contents(u.fs, Marker) # "none"
  PROVE  Contents(out.w.fs, Marker) # "none"
<1>1. c \in FileConfig BY ConfigCases DEF FileKinds
<1>2. FilesOK(u) /\ IsUnpacked(u.fs) /\ out \in FileExecute(c, o, u) BY <1>1, FilesAre, FileWorldIs
<1>3. CASE o = "archive"
  <2>1. Archived(c, u, out) BY <1>1, <1>2, <1>3, ArchiveExecuted DEF FileExecute
  <2> QED BY <2>1 DEF Archived, Marked
<1>4. CASE o \in {"mode", "owner"} BY <1>1, <1>4, ModesKeepShape, SameShapeIsSame
<1>5. CASE o = "download"
  <2>1. out \in ExecuteDownload(c, u) BY <1>2, <1>5 DEF FileExecute
  <2>2. out.w.fs = u.fs BY <1>1, <1>2, <2>1, CopyFetched DEF Fetches
  <2> QED BY <1>5, <2>2
<1> QED BY <1>1, <1>3, <1>4, <1>5, FileOpsAre

----
\* The run as a whole, on a target that is as declared.

\* A run that begins keeps them: the marker lasts, and the target is as found.
LEMMA StartRests == SettleInv /\ MarkerInv /\ Start => MarkerInv' /\ StillInv'
<1> SUFFICES ASSUME SettleInv, MarkerInv, Start PROVE MarkerInv' /\ StillInv' OBVIOUS
<1>c. cfg \in Config /\ cfg' = cfg /\ IsWorld(cfg, w)
  BY ConfigsAssumption DEF SettleInv, TypeOK, Start
<1>u. /\ w' = WithFault(w, FALSE) /\ before' = w' /\ streak' = streak /\ phase = "idle"
      /\ phase' = "checks" /\ verdict' = [o \in Ops(cfg) |-> "none"]
  BY DEF Start
<1>1. MarkerInv'
  <2> SUFFICES ASSUME Marking' PROVE Contents(w'.fs, Marker) # "none" BY DEF MarkerInv
  <2>1. cfg.kind = "unarchive" /\ cfg \in FileConfig BY <1>c, ConfigCases DEF Marking, FileKinds
  <2>2. "archive" \in Ops(cfg) BY <2>1, FileOpsAre
  <2>3. Marking BY <1>c, <1>u, <2>2 DEF Marking
  <2>4. WithFault(w, FALSE).fs = w.fs
    <3> DEFINE u == WithFault(w, FALSE)
    <3>1. IsFileWorld(cfg, w) BY <1>c, <2>1, FilesAre
    <3> SUFFICES u.fs = w.fs OBVIOUS
    <3> QED BY <3>1, FileFault
  <2> QED BY <1>u, <2>3, <2>4 DEF MarkerInv
<1>2. StillInv' BY <1>c, <1>u DEF StillInv, Calm
<1> QED BY <1>1, <1>2

\* A run on a target that is as declared, after a clean one, finds it at rest.
LEMMA CalmIsAtRest ==
  SettleInv /\ MarkerInv /\ Calm /\ Desired(cfg, w) /\ ~Stuck(cfg, w) => AtRest(cfg, w)
<1> SUFFICES ASSUME SettleInv, MarkerInv, Calm, Desired(cfg, w), ~Stuck(cfg, w) PROVE AtRest(cfg, w)
  OBVIOUS
<1>c. cfg \in Config /\ IsWorld(cfg, w) /\ phase # "idle" /\ Quiet /\ streak >= 1
  BY ConfigsAssumption DEF SettleInv, TypeOK, Calm
<1>1. ASSUME NEW o \in Ops(cfg), Deps(cfg, o) = {} PROVE SeesTo(cfg, o, w)
  <2>1. Rank(cfg)[o] <= streak BY <1>c, <1>1, Ranks
  <2> QED BY <1>c, <2>1 DEF SettleInv, RunInv
<1>2. cfg.kind = "unarchive" => Contents(w.fs, Marker) # "none" BY <1>c DEF MarkerInv, Marking
<1> QED BY <1>c, <1>1, <1>2 DEF AtRest, Quiet

\* A check keeps them: it finds the archive marked, and nothing to do but for
\* the ops that always have.
LEMMA CheckKeepsRest ==
  ASSUME NEW o \in Ops(cfg) PROVE IInv /\ CheckOp(o) => MarkerInv' /\ StillInv'
<1> SUFFICES ASSUME IInv, CheckOp(o) PROVE MarkerInv' /\ StillInv' OBVIOUS
<1> USE DEF IInv
<1>c. cfg \in Config /\ cfg' = cfg /\ IsWorld(cfg, w)
  BY ConfigsAssumption DEF SettleInv, TypeOK, CheckOp
<1> PICK out \in Check(cfg, o, w) :
          /\ w' = out.w
          /\ IF out.res \in {"satisfied", "unsatisfied"}
             THEN /\ verdict' = [verdict EXCEPT ![o] = out.res]
                  /\ UNCHANGED <<phase, result, streak>>
             ELSE Over(out.res) /\ UNCHANGED verdict
  BY DEF CheckOp
<1>1. Checked(cfg, o, w, out) BY <1>c, CheckIsSound
<1>u. phase = "checks" /\ left' = left /\ before' = before /\ edited' = edited BY DEF CheckOp
<1>e. CASE out.res \notin {"satisfied", "unsatisfied"}
  <2>1. phase' = "idle" /\ streak' = 0 BY <1>1, <1>e DEF Over, Checked
  <2> QED BY <2>1 DEF MarkerInv, Marking, StillInv, Calm
<1>d. CASE out.res \in {"satisfied", "unsatisfied"}
  <2>u. verdict' = [verdict EXCEPT ![o] = out.res] /\ phase' = phase /\ streak' = streak BY <1>d
  <2>v. verdict'[o] = out.res /\ \A p \in Ops(cfg) \ {o} : verdict'[p] = verdict[p]
    BY <2>u DEF SettleInv, TypeOK
  <2>q. Quiet' => Quiet /\ ~out.w.fault BY <1>c, <1>1, <1>u, WorldHasFault DEF Quiet, Checked
  <2>2. MarkerInv'
    <3> SUFFICES ASSUME Marking' PROVE Contents(out.w.fs, Marker) # "none" BY DEF MarkerInv
    <3>1. cfg.kind = "unarchive" /\ cfg \in FileConfig /\ Quiet /\ ~out.w.fault
      BY <1>c, <1>u, <2>u, <2>q, ConfigCases DEF Marking, FileKinds
    <3>2. "archive" \in Ops(cfg) BY <3>1, FileOpsAre
    <3>3. streak >= 1 \/ verdict'["archive"] = "satisfied" BY <1>u, <2>u DEF Marking
    <3>4. \/ o = "archive" /\ out.res = "satisfied"
          \/ Marking
      BY <1>u, <2>v, <3>1, <3>2, <3>3 DEF Marking
    <3> QED BY <1>c, <3>1, <3>4, CheckMarks DEF MarkerInv
  <2>3. StillInv'
    <3> SUFFICES ASSUME Calm' PROVE StillInv' BY DEF StillInv
    <3>1. Calm /\ ~out.w.fault BY <1>c, <1>u, <2>u, <2>q DEF Calm
    <3>2. AtRest(cfg, w) BY <1>u, <3>1, CalmIsAtRest DEF StillInv
    <3>3. /\ out.res = "unsatisfied" => Standing(cfg, o)
          /\ Desired(cfg, out.w) /\ ~Stuck(cfg, out.w)
      BY <1>c, <3>1, <3>2, CheckRests
    <3>4. Target(cfg, out.w) = Target(cfg, w) BY <1>1, <3>1 DEF Checked
    <3> QED BY <1>c, <1>u, <2>v, <3>1, <3>3, <3>4 DEF StillInv
  <2> QED BY <2>2, <2>3
<1> QED BY <1>d, <1>e

\* The end of the checks keeps them.
LEMMA StartExecKeepsRest == IInv /\ StartExec => MarkerInv' /\ StillInv'
<1> SUFFICES ASSUME IInv, StartExec PROVE MarkerInv' /\ StillInv' OBVIOUS
<1> USE DEF IInv
<1>c. cfg \in Config BY ConfigsAssumption DEF SettleInv, TypeOK
<1>u. /\ cfg' = cfg /\ w' = w /\ phase = "checks" /\ phase' = "exec" /\ verdict' = verdict
      /\ before' = before /\ edited' = edited /\ streak' = streak
      /\ left' = {o \in Ops(cfg) : verdict[o] = "unsatisfied"}
      /\ \A o \in Ops(cfg) : verdict[o] # "none"
  BY DEF StartExec
<1>1. MarkerInv'
  <2> SUFFICES ASSUME Marking' PROVE Contents(w.fs, Marker) # "none" BY <1>u DEF MarkerInv
  <2>1. cfg.kind = "unarchive" /\ "archive" \in Ops(cfg)
    BY <1>c, <1>u, ConfigCases, FileOpsAre DEF Marking, FileKinds
  <2>2. verdict["archive"] \in {"satisfied", "unsatisfied"} BY <1>u, <2>1 DEF SettleInv, TypeOK
  <2>3. Marking BY <1>u, <2>1, <2>2 DEF Marking, Quiet
  <2> QED BY <2>3 DEF MarkerInv
<1>2. StillInv' BY <1>u DEF StillInv, Calm, Quiet
<1> QED BY <1>1, <1>2

\* An op that succeeds keeps them: it is the only one that had anything to do,
\* and what it does does not show.
LEMMA ExecuteKeepsRest ==
  ASSUME NEW o \in Ops(cfg) PROVE IInv /\ ExecuteOp(o) => MarkerInv' /\ StillInv'
<1> SUFFICES ASSUME IInv, ExecuteOp(o) PROVE MarkerInv' /\ StillInv' OBVIOUS
<1> USE DEF IInv
<1>c. cfg \in Config /\ cfg' = cfg /\ IsWorld(cfg, w)
  BY ConfigsAssumption DEF SettleInv, TypeOK, ExecuteOp
<1> PICK out \in Execute(cfg, o, w) :
          /\ w' = out.w
          /\ IF out.res \in {"changed", "unchanged"}
             THEN /\ left' = left \ {o}
                  /\ changed' = (changed \/ out.res = "changed")
                  /\ UNCHANGED <<phase, result, streak>>
             ELSE Over(out.res) /\ UNCHANGED <<left, changed>>
  BY DEF ExecuteOp
<1>1. Executed(cfg, o, w, out) BY <1>c, ExecuteIsSound
<1>u. /\ phase = "exec" /\ o \in left /\ verdict' = verdict /\ before' = before /\ edited' = edited
      /\ left \subseteq {p \in Ops(cfg) : verdict[p] = "unsatisfied"}
  BY DEF ExecuteOp, SettleInv, TypeOK
<1>e. CASE out.res \notin {"changed", "unchanged"}
  <2>1. phase' = "idle" /\ streak' = 0 BY <1>1, <1>e DEF Over, Executed
  <2> QED BY <2>1 DEF MarkerInv, Marking, StillInv, Calm
<1>d. CASE out.res \in {"changed", "unchanged"}
  <2>u. left' = left \ {o} /\ phase' = phase /\ streak' = streak BY <1>d
  <2>q. Quiet' => Quiet BY <1>c, <1>1, <1>u, WorldHasFault DEF Quiet, Executed
  <2>2. MarkerInv'
    <3> SUFFICES ASSUME Marking' PROVE Contents(out.w.fs, Marker) # "none" BY DEF MarkerInv
    <3>1. cfg.kind = "unarchive" BY <1>c DEF Marking
    <3>2. o = "archive" \/ Marking BY <1>c, <1>u, <2>u, <2>q DEF Marking
    <3> QED BY <1>c, <1>d, <3>1, <3>2, ExecuteMarks DEF MarkerInv
  <2>3. StillInv'
    <3> SUFFICES ASSUME Calm' PROVE StillInv' BY DEF StillInv
    <3>1. Calm BY <1>c, <1>u, <2>u, <2>q DEF Calm
    <3>2. AtRest(cfg, w) BY <1>u, <3>1, CalmIsAtRest DEF StillInv
    <3>3. \A p \in left : Standing(cfg, p) BY <1>u, <3>1 DEF StillInv
    <3>4. Target(cfg, out.w) = Target(cfg, w) BY <1>c, <1>d, <1>u, <3>2, <3>3, ExecuteRests
    <3>5. left' = {}
      <4> SUFFICES ASSUME NEW p \in left, p # o PROVE FALSE BY <2>u
      <4> QED BY <1>c, <1>u, <3>3, StandsAlone
    <3> QED BY <1>c, <1>u, <2>u, <3>1, <3>4, <3>5 DEF StillInv
  <2> QED BY <2>2, <2>3
<1> QED BY <1>d, <1>e

\* So does the end of the run: a clean one leaves the archive marked.
LEMMA FinishKeepsRest == IInv /\ Finish => MarkerInv' /\ StillInv'
<1> SUFFICES ASSUME IInv, Finish PROVE MarkerInv' /\ StillInv' OBVIOUS
<1>u. /\ cfg' = cfg /\ w' = w /\ phase = "exec" /\ left = {} /\ phase' = "idle"
      /\ streak' = IF ~w.fault /\ ~edited THEN streak + 1 ELSE 0
  BY DEF Finish, Over
<1>1. Marking' => Marking BY <1>u DEF Marking, Quiet
<1> QED BY <1>u, <1>1 DEF IInv, MarkerInv, StillInv, Calm

\* After an edit by others nothing is claimed.
LEMMA EditKeepsRest == IInv /\ Edit => MarkerInv' /\ StillInv'
<1> SUFFICES ASSUME IInv, Edit PROVE MarkerInv' /\ StillInv' OBVIOUS
<1>u. edited' = TRUE /\ streak' = 0 BY DEF Edit
<1> QED BY <1>u DEF MarkerInv, Marking, StillInv, Calm, Quiet

\* The whole invariant is inductive.
LEMMA WholeStepInv == IInv /\ [Next]_vars => IInv'
<1> SUFFICES ASSUME IInv, [Next]_vars PROVE MarkerInv' /\ StillInv' BY StepInv DEF IInv
<1>1. CASE Start BY <1>1, StartRests DEF IInv
<1>2. ASSUME NEW o \in Ops(cfg), CheckOp(o) PROVE MarkerInv' /\ StillInv' BY <1>2, CheckKeepsRest
<1>3. ASSUME NEW o \in Ops(cfg), ExecuteOp(o) PROVE MarkerInv' /\ StillInv'
  BY <1>3, ExecuteKeepsRest
<1>4. CASE StartExec BY <1>4, StartExecKeepsRest
<1>5. CASE Finish BY <1>5, FinishKeepsRest
<1>6. CASE Edit BY <1>6, EditKeepsRest
<1>7. CASE UNCHANGED vars BY <1>7 DEF vars, IInv, MarkerInv, Marking, StillInv, Calm, Quiet
<1> QED BY <1>1, <1>2, <1>3, <1>4, <1>5, <1>6, <1>7 DEF Next, Rest

\* What clean runs have settled stays settled, and a run on a settled target
\* leaves it as it is: for every declaration, every choice of edits and all
\* bounds (runStep, initPending, executeOps).
THEOREM Invariance == Spec => []IInv
<1>1. Init => IInv
  <2>1. Init => MarkerInv /\ StillInv BY DEF Init, MarkerInv, Marking, StillInv, Calm
  <2> QED BY <2>1, InitInv DEF IInv
<1>2. IInv /\ [Next]_vars => IInv' BY WholeStepInv
<1> QED BY <1>1, <1>2, PTL DEF Spec

\* A run that ends has changed nothing, if it followed a clean one and the
\* target was as declared; no other step ends a clean run.
LEMMA IdempotentNext == IInv /\ Idempotent /\ [Next]_vars => Idempotent'
<1> SUFFICES ASSUME IInv, Idempotent, [Next]_vars, CleanRun', streak' >= 2,
                    Desired(cfg, before)', ~Stuck(cfg, before)'
             PROVE  Target(cfg, w)' = Target(cfg, before)'
  BY DEF Idempotent
<1>q. phase' = "idle" /\ ~w'.fault /\ ~edited' /\ streak' # 0 BY DEF CleanRun
<1>1. CASE Finish
  <2>1. /\ cfg' = cfg /\ w' = w /\ before' = before /\ edited' = edited /\ phase = "exec"
        /\ streak' = IF ~w.fault /\ ~edited THEN streak + 1 ELSE 0
    BY <1>1 DEF Finish, Over
  <2>2. streak >= 1 BY <1>q, <2>1, BoundsAssumption DEF IInv, SettleInv, TypeOK
  <2>3. Calm BY <1>q, <2>1, <2>2 DEF Calm, Quiet
  <2> QED BY <2>1, <2>3 DEF IInv, StillInv
<1>c. cfg \in Config /\ IsWorld(cfg, w) BY ConfigsAssumption DEF IInv, SettleInv, TypeOK
<1>2. ASSUME NEW o \in Ops(cfg), CheckOp(o) PROVE FALSE
  <2>1. \A out \in Check(cfg, o, w) : out.res # "ok" BY <1>c, CheckIsSound DEF Checked
  <2>2. phase = "checks" /\ (phase' = phase \/ streak' = 0) BY <1>2, <2>1 DEF CheckOp, Over
  <2> QED BY <1>q, <2>2
<1>3. ASSUME NEW o \in Ops(cfg), ExecuteOp(o) PROVE FALSE
  <2>1. \A out \in Execute(cfg, o, w) : out.res # "ok" BY <1>c, ExecuteIsSound DEF Executed
  <2>2. phase = "exec" /\ (phase' = phase \/ streak' = 0) BY <1>3, <2>1 DEF ExecuteOp, Over
  <2> QED BY <1>q, <2>2
<1>4. CASE UNCHANGED vars BY <1>4 DEF vars, Idempotent, CleanRun
<1> QED BY <1>q, <1>1, <1>2, <1>3, <1>4 DEF Next, Rest, Start, StartExec, Edit

\* A run changes what it reports as changed, and a run that follows a clean one
\* on a target that is as declared changes nothing: whatever the declaration,
\* the faults of earlier runs and the edits of others (opNode.changed, runStep).
THEOREM Changes == Spec => []ChangesAreReal
<1>1. Init => Idempotent BY DEF Init, Idempotent, CleanRun
<1>2. Spec => []Idempotent BY <1>1, Invariance, IdempotentNext, PTL DEF Spec
<1> QED BY <1>2, Reporting, PTL DEF ChangesAreReal

----
\* Why an undisturbed op fails, for the kinds that keep no files.

\* Every end of an op but a plain error is excused.
LEMMA EndsExcused ==
  /\ \A u, x : x \in Done(u) => Excused(x)
  /\ \A u, x : x \in Ends("unchanged", u) => Excused(x)
  /\ \A u, x : x \in Ends("changed", u) => Excused(x)
  /\ \A so, u, x : x \in Verdict(so, u) => Excused(x)
  /\ \A u, x : Faulty(u).fault = TRUE /\ x \in Lost(u) => Excused(x)
BY DEF Excused, Done, Ends, Verdict, Lost

\* An excused end blames nobody.
LEMMA ExcusedBlames ==
  ASSUME NEW c, NEW u, NEW out, Excused(out)
  PROVE  Blames(c, u, out)
BY DEF Excused, Blames

\* What the steps of hosts and commands need of the world.
LEMMA FeasibleIs ==
  ASSUME NEW c
  PROVE  /\ c.kind \in HostKinds => \A u : Feasible(c, u) <=> HostFeasible(c, u)
         /\ c.kind \in CommandKinds => \A u : Feasible(c, u) <=> CommandFeasible(c, u)
         /\ c.kind = "container" => \A u : Feasible(c, u) <=> ContainerFeasible(c, u)
BY DEF Feasible, HostFeasible, CommandFeasible, ContainerFeasible, HostKinds, FileKinds,
   CommandKinds

\* An op of a group fails when a call does.
LEMMA GroupBlames ==
  ASSUME NEW c \in HostConfig, c.kind = "group", NEW o \in Ops(c), NEW u, IsWorld(c, u),
         NEW out \in Check(c, o, u) \cup Execute(c, o, u)
  PROVE  Blames(c, u, out)
<1>1. u \in GroupWorld /\ c.gid \in Value BY GroupIs, HostConfigs
<1> DEFINE made == [u EXCEPT !.gid = c.gid]
           gone == [u EXCEPT !.gid = "none"]
<1>2. made \in GroupWorld /\ gone \in GroupWorld BY <1>1, Words DEF GroupWorld
<1>3. \A x \in GroupWorld : Faulty(x).fault = TRUE BY GroupFault DEF Faulty
<1>4. o \in {"group", "no group"} BY GroupIs DEF GroupOps
<1>5. \/ out \in CheckGroup(u) \cup CheckNoGroup(u)
      \/ out \in ExecuteGroup(c, u) \cup RemoveGroup(u)
  BY <1>4, GroupIs
<1>6. \/ out \in Verdict(u.gid # "none", u) \cup Verdict(u.gid = "none", u)
      \/ out \in Lost(u) \cup Ends("unchanged", u) \cup Lost(made) \cup Lost(gone)
      \/ out \in Done(made) \cup Done(gone)
  BY <1>5 DEF CheckGroup, CheckNoGroup, ExecuteGroup, RemoveGroup, Unless, Ask, Call
<1> HIDE DEF made, gone
<1> QED BY <1>1, <1>2, <1>3, <1>6 DEF Blames, Lost, Ends, Done, Verdict

\* So does an op of an account.
LEMMA UserBlames ==
  ASSUME NEW c \in HostConfig, c.kind = "user", NEW o \in Ops(c), NEW u, IsWorld(c, u),
         NEW out \in Check(c, o, u) \cup Execute(c, o, u)
  PROVE  Blames(c, u, out)
<1>1. u \in UserWorld /\ o \in {"user", "no user"} BY UserIs DEF UserOps
<1>2. \A x \in UserWorld : Faulty(x) \in UserWorld /\ Faulty(x).fault = TRUE BY UserFault DEF Faulty
<1>3. \A x \in UserWorld : \A y \in Lost(x) : Excused(y) BY <1>2, EndsExcused
<1>4. \A a \in GetUser(u) : a.w \in UserWorld BY <1>1, <1>2, GetUserTells
<1>5. ASSUME out \in CheckUser(c, u) \cup CheckNoUser(u) PROVE Excused(out)
  <2>1. \/ out \in Lost(u)
        \/ \E so : out \in Verdict(so, u)
        \/ \E a \in GetUser(u) : \/ out \in Lost(a.w)
                                 \/ \E so : out \in Verdict(so, a.w)
    BY <1>5 DEF CheckUser, CheckNoUser, Ask
  <2> QED BY <1>1, <1>3, <1>4, <2>1, EndsExcused
<1>6. ASSUME out \in RemoveUser(u) PROVE Excused(out)
  <2>1. NoAccount(u) \in UserWorld BY <1>1, Words DEF NoAccount, UserWorld
  <2>2. out \in Lost(u) \cup Lost(NoAccount(u)) \cup Ends("unchanged", u) \cup Done(NoAccount(u))
    BY <1>6 DEF RemoveUser, Unless, Ask, Call
  <2> QED BY <1>1, <1>3, <2>1, <2>2, EndsExcused
<1>7. ASSUME out \in ExecuteUser(c, u) PROVE Excused(out)
  <2>1. \A x \in UserWorld : Account(c, x) \in UserWorld /\ Housed(c, Account(c, x)) \in UserWorld
    BY AccountMade, HouseMade
  <2>2. ASSUME NEW x \in UserWorld, NEW ch, NEW y \in ReconcileHome(c, x, ch) PROVE Excused(y)
    <3> DEFINE own == [x EXCEPT !.home = "own"]
    <3>1. own \in UserWorld BY Words DEF UserWorld
    <3>2. \/ y \in Ends("changed", x) \cup Ends("unchanged", x) \cup Lost(x)
          \/ y \in Lost(own) \cup Done(own)
      BY DEF ReconcileHome, Ask, Call
    <3> HIDE DEF own
    <3> QED BY <1>3, <3>1, <3>2, EndsExcused
  <2>3. \/ out \in Lost(u) \cup Lost(Account(c, u)) \cup Lost(Housed(c, Account(c, u)))
        \/ out \in ReconcileHome(c, Housed(c, Account(c, u)), TRUE)
        \/ \E a \in GetUser(u) :
              \/ out \in Lost(a.w) \cup Lost(Account(c, a.w))
              \/ out \in ReconcileHome(c, Account(c, a.w), TRUE)
              \/ out \in ReconcileHome(c, a.w, FALSE)
    BY <1>7 DEF ExecuteUser, Ask, Call
  <2> QED BY <1>1, <1>3, <1>4, <2>1, <2>2, <2>3
<1>8. Excused(out) BY <1>1, <1>5, <1>6, <1>7, UserIs
<1> QED BY <1>8, ExcusedBlames

\* An op of a service fails when a call does, or the reload of one that does
\* not run.
LEMMA ServiceBlames ==
  ASSUME NEW c \in HostConfig, c.kind = "service", NEW o \in Ops(c), NEW u, IsWorld(c, u),
         NEW out \in Check(c, o, u) \cup Execute(c, o, u)
  PROVE  Blames(c, u, out)
<1> DEFINE told  == [u EXCEPT !.loaded = u.unit]
           on(x) == [x EXCEPT !.running = x.loaded]
           off(x) == [x EXCEPT !.running = "no"]
           able  == [u EXCEPT !.enabled = c.enabled]
<1>1. u \in ServiceWorld BY ServiceIs
<1>2. \A x \in ServiceWorld : Faulty(x).fault = TRUE BY ServiceFault DEF Faulty
<1>3. told \in ServiceWorld /\ off(u) \in ServiceWorld /\ off(told) \in ServiceWorld /\ on(told) \in ServiceWorld
  BY <1>1, Words DEF ServiceWorld
<1>4. able \in ServiceWorld BY <1>1, ServiceOpsAre DEF ServiceWorld
<1>5. ~Feasible(c, told) \/ ~(c.state = "reloaded" /\ c.reloads /\ told.running = "no")
  <2>1. Feasible(c, told) => HostFeasible(c, told) BY FeasibleIs DEF HostKinds
  <2> HIDE DEF told
  <2> QED BY <2>1 DEF HostFeasible
<1>6. \/ out \in Verdict(FALSE, u) \cup Verdict((u.running # "no") = (c.state = "running"), u)
      \/ out \in Verdict(u.enabled = c.enabled, u)
      \/ out \in Lost(u) \cup Lost(told) \cup Lost(on(told)) \cup Lost(off(u)) \cup Lost(off(told)) \cup Lost(able)
      \/ out \in Ends("unchanged", u) \cup Done(on(told)) \cup Done(off(u)) \cup Done(able)
      \/ out \in Ends("error", told) /\ c.state = "reloaded" /\ c.reloads /\ told.running = "no"
  <2>1. CASE o = "active"
    <3>1. out \in CheckActive(c, u) \cup ExecuteActive(c, u) BY <2>1, ServiceIs
    <3>2. \/ out \in Lost(u) \cup Ends("unchanged", u)
          \/ out \in Verdict((u.running # "no") = (c.state = "running"), u)
          \/ out \in Then(DaemonReload(u), StartService) \cup StopService(u)
      BY <3>1 DEF CheckActive, ExecuteActive, Unless, Ask
    <3>3. \A x \in Lost(u) \cup Lost(told) : x.res # "returned" BY DEF Lost, Ends
    <3>4. \A x \in Returns(told) : x.w = told BY DEF Returns, Ends
    <3>5. DaemonReload(u) = Lost(u) \cup Lost(told) \cup Returns(told) BY DEF DaemonReload, Call
    <3>6. StartService(told) = Lost(told) \cup Lost(on(told)) \cup Done(on(told))
      BY DEF StartService, Call
    <3>7. StopService(u) = Lost(u) \cup Lost(off(u)) \cup Done(off(u)) BY DEF StopService, Call
    <3>8. out \in Then(DaemonReload(u), StartService) =>
             out \in Lost(u) \cup Lost(told) \/ out \in StartService(told)
      <4> HIDE DEF told
      <4> QED BY <3>3, <3>4, <3>5 DEF Then, Returns, Ends
    <3> HIDE DEF told, on, off, able
    <3> QED BY <3>2, <3>6, <3>7, <3>8
  <2>2. CASE o = "enabled"
    <3>1. out \in CheckEnabled(c, u) \cup ExecuteEnabled(c, u) BY <2>2, ServiceIs
    <3> QED BY <3>1 DEF CheckEnabled, ExecuteEnabled, Unless, Ask, Call
  <2>3. CASE o \in {"restarted", "reloaded"}
    <3>1. out \in Verdict(FALSE, u) \cup ExecuteRestart(c, u) BY <2>3, ServiceIs
    <3>2. \A x \in Lost(u) \cup Lost(told) : x.res # "returned" BY DEF Lost, Ends
    <3>3. \A x \in Returns(told) : x.w = told BY DEF Returns, Ends
    <3>4. DaemonReload(u) = Lost(u) \cup Lost(told) \cup Returns(told) BY DEF DaemonReload, Call
    <3>5. StartService(told) = Lost(told) \cup Lost(on(told)) \cup Done(on(told))
      BY DEF StartService, Call
    <3>6. RestartService(told) = Lost(off(told)) \cup StartService(told) BY DEF RestartService
    <3>7. \/ out \in Verdict(FALSE, u) \cup Lost(u) \cup Lost(told)
          \/ out \in RestartService(told)
          \/ c.state = "reloaded" /\ c.reloads /\ out \in ReloadService(told)
      <4>1. \A x \in DaemonReload(u) : x.res = "returned" => x.w = told BY <3>2, <3>3, <3>4
      <4>2. \A x \in DaemonReload(u) : x.res # "returned" => x \in Lost(u) \cup Lost(told)
        <5>1. \A x \in Returns(told) : x.res = "returned" BY DEF Returns, Ends
        <5> QED BY <3>4, <5>1
      <4>3. CASE out \in ExecuteRestart(c, u)
        <5>1. \/ out \in DaemonReload(u) /\ out.res # "returned"
              \/ \E x \in DaemonReload(u) :
                    /\ x.res = "returned"
                    /\ out \in IF c.state = "reloaded" /\ c.reloads THEN ReloadService(x.w)
                                                                    ELSE RestartService(x.w)
          BY <4>3 DEF ExecuteRestart, Then
        <5> HIDE DEF told
        <5> QED BY <4>1, <4>2, <5>1
      <4> QED BY <3>1, <4>3
    <3>8. ReloadService(told) = IF told.running = "no" THEN Ends("error", told) ELSE StartService(told)
      BY DEF ReloadService
    <3> HIDE DEF told, on, off, able
    <3> QED BY <3>5, <3>6, <3>7, <3>8
  <2> QED BY <2>1, <2>2, <2>3, ServiceOpsAre
<1> HIDE DEF told, on, off, able
<1> QED BY <1>1, <1>2, <1>3, <1>4, <1>5, <1>6 DEF Blames, Lost, Ends, Done, Verdict

\* An op of a kernel parameter fails when a call does.
LEMMA SysctlBlames ==
  ASSUME NEW c \in HostConfig, c.kind = "sysctl", NEW o \in Ops(c), NEW u, IsWorld(c, u),
         NEW out \in Check(c, o, u) \cup Execute(c, o, u)
  PROVE  Blames(c, u, out)
<1> DEFINE live == [u EXCEPT !.live = c.value]
           file(v) == [u EXCEPT !.dropin = v]
<1>1. u \in SysctlWorld /\ c.value \in Value BY SysctlIs, HostConfigs
<1>2. \A x \in SysctlWorld : Faulty(x).fault = TRUE BY SysctlFault DEF Faulty
<1>3. live \in SysctlWorld /\ \A v \in Value : file(v) \in SysctlWorld BY <1>1 DEF SysctlWorld
<1>4. "none" \in Value /\ "cut" \in Value BY Words
<1>5. \/ out \in CheckSet(c, u) \cup CheckPersist(c, u) \cup CheckCleanup(u)
      \/ out \in ExecuteSet(c, u) \cup ExecutePersist(c, u) \cup ExecuteCleanup(u)
  <2>1. o \in {"set", "persist", "cleanup"} BY SysctlIs DEF SysctlOps
  <2> QED BY <2>1, SysctlIs
<1>6. \/ \E so \in BOOLEAN : out \in Verdict(so, u)
      \/ out \in Lost(u) \cup Lost(live) \cup Done(live) \cup Ends("unchanged", u)
      \/ \E v \in {"none", "cut", c.value} : out \in Lost(file(v)) \cup Done(file(v))
  BY <1>5 DEF CheckSet, CheckPersist, CheckCleanup, ExecuteSet, ExecutePersist, ExecuteCleanup, Ask,
     Call
<1> HIDE DEF live, file
<1> QED BY <1>1, <1>2, <1>3, <1>4, <1>6 DEF Blames, Lost, Ends, Done, Verdict

\* An op of a firewall rule fails when a call does, or there is no back-end.
LEMMA FirewallBlames ==
  ASSUME NEW c \in HostConfig, c.kind = "firewall", NEW o \in Ops(c), NEW u, IsWorld(c, u),
         NEW out \in Check(c, o, u) \cup Execute(c, o, u)
  PROVE  Blames(c, u, out)
<1> DEFINE Added(x) == [x EXCEPT !.added = c.action]
           Made(x)  == [x EXCEPT !.permanent = @ \cup {c.action}]
<1>0. u \in FirewallWorld BY FirewallIs
<1>1. out \in CheckRule(c, u) \cup ExecuteRule(c, u) BY FirewallIs
<1>2. \A d \in DetectBackend(u) : /\ d.res \in {"ufw", "firewalld", "error"} /\ d.w \in FirewallWorld
                                  /\ d.res = "error" /\ ~d.w.fault => ~Feasible(c, d.w)
  <2>2. ~u.ufw /\ ~u.firewalld => ~Feasible(c, u)
    <3>1. Feasible(c, u) => HostFeasible(c, u) BY FeasibleIs DEF HostKinds
    <3> QED BY <3>1 DEF HostFeasible
  <2>3. \A d \in DetectBackend(u) : d.res = "error" => d.w = Faulty(u) \/ d.w = Faulty(Faulty(u))
                                       \/ (d.w = u /\ ~u.ufw /\ ~u.firewalld)
    BY DEF DetectBackend, AskOr, Ends
  <2> QED BY <1>0, <2>2, <2>3, BackendDetected, FirewallFaulty
<1>3. \A x \in FirewallWorld : /\ Added(x) \in FirewallWorld /\ Made(x) \in FirewallWorld
                               /\ Reloaded(x) \in FirewallWorld
  BY HostConfigs DEF FirewallWorld, Reloaded
<1>4. \A x \in FirewallWorld : \A y \in Lost(x) : Excused(y) BY FirewallFaulty, EndsExcused
<1>5. \E d \in DetectBackend(u) : Excused(out) \/ (d.res = "error" /\ out \in Ends("error", d.w))
  <2>1. CASE out \in CheckRule(c, u)
    <3>1. PICK d \in DetectBackend(u) :
            \/ d.res = "ufw" /\ out \in Lost(d.w) \cup Verdict(d.w.added = c.action, d.w)
            \/ d.res = "firewalld" /\ out \in Lost(d.w) \cup Verdict(c.action \in d.w.runtime, d.w)
            \/ d.res = "error" /\ out \in Ends("error", d.w)
      BY <1>0, <2>1, BackendDetected DEF CheckRule, Ask
    <3> QED BY <1>2, <1>4, <3>1, EndsExcused
  <2>2. CASE out \in ExecuteRule(c, u)
    <3>1. PICK d \in DetectBackend(u) :
            out \in CASE d.res = "ufw"       -> Call(d.w, Added(d.w), Done)
                      [] d.res = "firewalld" -> Call(d.w, Made(d.w), ReloadFirewall)
                      [] d.res = "error"     -> Ends("error", d.w)
      BY <2>2 DEF ExecuteRule
    <3>2. d.res \in {"ufw", "firewalld", "error"} BY <1>2
    <3>3. \/ out \in Lost(d.w) \cup Lost(Added(d.w)) \cup Done(Added(d.w))
          \/ out \in Lost(Made(d.w)) \cup Lost(Reloaded(Made(d.w))) \cup Done(Reloaded(Made(d.w)))
          \/ d.res = "error" /\ out \in Ends("error", d.w)
      <4> HIDE DEF Added, Made
      <4> QED BY <3>1, <3>2 DEF Call, ReloadFirewall
    <3> HIDE DEF Added, Made
    <3> QED BY <1>2, <1>3, <1>4, <3>3, EndsExcused
  <2> QED BY <1>1, <2>1, <2>2
<1>6. CASE Excused(out) BY <1>6, ExcusedBlames
<1>7. CASE \E d \in DetectBackend(u) : d.res = "error" /\ out \in Ends("error", d.w)
  BY <1>2, <1>7 DEF Blames, Ends
<1> QED BY <1>5, <1>6, <1>7

\* The fstab edits fail when a call does.
LEMMA FstabExcused ==
  ASSUME NEW c, c.opts \in Value, NEW u \in MountWorld, NEW out \in EnsureFstab(c, u) \cup RemoveFstab(u)
  PROVE  out.res = "returned" \/ Excused(out)
<1> DEFINE cut  == FstabCut(u)
           kept == [u EXCEPT !.fstab = c.opts]
           gone == [u EXCEPT !.fstab = "none"]
<1>1. cut \in MountWorld /\ kept \in MountWorld /\ gone \in MountWorld
  BY Words DEF FstabCut, MountWorld
<1>2. out \in Lost(u) \cup Lost(cut) \cup Lost(kept) \cup Lost(gone) \cup Returns(kept) \cup Done(gone)
  BY DEF EnsureFstab, RemoveFstab, Ask, Call
<1>3. out \in Returns(kept) => out.res = "returned" BY DEF Returns, Ends
<1> HIDE DEF cut, kept, gone
<1> QED BY <1>1, <1>2, <1>3, MountFaulty, EndsExcused

\* Mounting fails when a call does: a mount point that was just made is taken
\* for a mount.
LEMMA PointExcused ==
  ASSUME NEW u \in MountWorld, NEW out \in Point(u)
  PROVE  Excused(out)
<1> DEFINE dir == [u EXCEPT !.dir = TRUE]
<1>1. dir \in MountWorld /\ FindmntTarget(dir) BY DEF MountWorld, FindmntTarget
<1>2. ASSUME NEW x \in MountWorld, x.fault = TRUE, out \in DoMount(x) PROVE Excused(out)
  <2> DEFINE on == [x EXCEPT !.mounted = x.fstab]
  <2>1. on \in MountWorld BY DEF MountWorld
  <2>2. out \in Ends("error", x) \cup Lost(x) \cup Lost(on) \cup Done(on) BY <1>2 DEF DoMount, Call
  <2>3. out \in Ends("error", x) => Excused(out) BY <1>2 DEF Excused, Ends
  <2> HIDE DEF on
  <2> QED BY <2>1, <2>2, <2>3, MountFaulty, EndsExcused
<1>3. ASSUME NEW x \in MountWorld, x.fault = TRUE \/ FindmntTarget(x), out \in MountIfNot(x)
      PROVE  Excused(out)
  <2>1. \/ out \in DoMount(Faulty(x)) \cup Done(x)
        \/ ~FindmntTarget(x) /\ out \in DoMount(x)
    BY <1>3 DEF MountIfNot, AskOr
  <2> QED BY <1>2, <1>3, <2>1, MountFaulty, EndsExcused
<1>4. out \in MountIfNot(Faulty(u)) \cup MountIfNot(dir) BY DEF Point, Try
<1> HIDE DEF dir
<1> QED BY <1>1, <1>3, <1>4, MountFaulty

\* Unmounting fails when a call does, and where nothing is mounted.
LEMMA UnmountExcused ==
  ASSUME NEW u \in MountWorld, NEW out \in Unmount(u)
  PROVE  out.res = "returned" \/ Excused(out) \/ (out \in Ends("error", u) /\ u.dir /\ u.mounted = "none")
<1> DEFINE off == [u EXCEPT !.mounted = "none"]
<1>1. off \in MountWorld BY Words DEF MountWorld
<1>2. \/ out \in Returns(Faulty(u)) \cup Lost(u) \cup Lost(off) \cup Returns(off) \cup Returns(u)
      \/ FindmntTarget(u) /\ u.mounted = "none" /\ out \in Ends("error", u)
  BY DEF Unmount, AskOr, DoUnmount, Call
<1>3. \A x : out \in Returns(x) => out.res = "returned" BY DEF Returns, Ends
<1>4. u.dir \in BOOLEAN /\ (FindmntTarget(u) /\ u.mounted = "none" => u.dir)
  BY DEF MountWorld, FindmntTarget
<1> HIDE DEF off
<1> QED BY <1>1, <1>2, <1>3, <1>4, MountFaulty, EndsExcused

\* An op of a mount fails when a call does, without the mount helper, and when
\* it is to unmount what is not mounted.
LEMMA MountBlames ==
  ASSUME NEW c \in HostConfig, c.kind = "mount", NEW o \in Ops(c), NEW u, IsWorld(c, u),
         NEW out \in Check(c, o, u) \cup Execute(c, o, u)
  PROVE  Blames(c, u, out)
<1>1. c.state \in {"mounted", "unmounted", "absent"} /\ c.opts \in Value BY HostConfigs
<1>2. u \in MountWorld /\ (u.mounted # "none" => u.dir) BY MountIs
<1>3. CASE out \in CheckMount(c, u)
  <2>1. \/ out \in Lost(u) \/ \E so, x : out \in Verdict(so, x)
        \/ c.state # "absent" /\ ~u.helper /\ out \in Ends("error", u)
    BY <1>1, <1>3 DEF CheckMount, AskOr, Ask
  <2>2. c.state # "absent" /\ ~u.helper => ~Feasible(c, u)
    <3>1. Feasible(c, u) => HostFeasible(c, u) BY FeasibleIs DEF HostKinds
    <3> QED BY <3>1 DEF HostFeasible
  <2>3. CASE out \in Ends("error", u) /\ ~Feasible(c, u) BY <2>3 DEF Ends, Blames
  <2>4. CASE out \in Lost(u) \/ \E so, x : out \in Verdict(so, x)
    BY <1>2, <2>4, MountFaulty, EndsExcused, ExcusedBlames
  <2> QED BY <2>1, <2>2, <2>3, <2>4
<1>4. CASE out \in ExecuteMount(c, u)
  <2>1. CASE c.state = "mounted"
    <3>1. \/ out \in EnsureFstab(c, u) /\ out.res # "returned"
          \/ \E d \in EnsureFstab(c, u) : out \in Point(d.w)
      BY <1>4, <2>1 DEF ExecuteMount, Then
    <3>2. Excused(out) BY <1>1, <1>2, <3>1, FstabEnsured, FstabExcused, PointExcused
    <3> QED BY <3>2, ExcusedBlames
  <2>2. CASE c.state = "unmounted"
    <3>1. \/ out \in EnsureFstab(c, u) /\ out.res # "returned"
          \/ \E d \in EnsureFstab(c, u) : d.res = "returned" /\ out \in Then(Unmount(d.w), Done)
      BY <1>4, <2>2 DEF ExecuteMount, Then
    <3>2. CASE out \in EnsureFstab(c, u) /\ out.res # "returned"
      BY <1>1, <1>2, <3>2, FstabExcused, ExcusedBlames
    <3>3. ASSUME NEW d \in EnsureFstab(c, u), out \in Then(Unmount(d.w), Done)
          PROVE  Blames(c, u, out)
      <4>1. d.w \in MountWorld /\ d.w.dir = u.dir /\ d.w.mounted = u.mounted
        BY <1>1, <1>2, FstabEnsured
      <4>2. \/ out \in Unmount(d.w) /\ out.res # "returned"
            \/ \E e \in Unmount(d.w) : out \in Done(e.w)
        BY <3>3 DEF Then
      <4>3. Excused(out) \/ (out \in Ends("error", d.w) /\ u.dir /\ u.mounted = "none")
        BY <4>1, <4>2, UnmountExcused, EndsExcused
      <4>4. u.dir /\ u.mounted = "none" => Stuck(c, u) BY <2>2, MountIs DEF MountStuck
      <4>5. CASE out \in Ends("error", d.w) /\ u.dir /\ u.mounted = "none"
        BY <4>4, <4>5 DEF Blames, Ends
      <4> QED BY <4>3, <4>5, ExcusedBlames
    <3> QED BY <3>1, <3>2, <3>3
  <2>3. CASE c.state = "absent"
    <3>1. \/ out \in Unmount(u) /\ out.res # "returned"
          \/ \E d \in Unmount(u) : d.res = "returned" /\ out \in RemoveFstab(d.w)
      BY <1>4, <2>3 DEF ExecuteMount, Then
    <3>2. CASE out \in Unmount(u) /\ out.res # "returned"
      <4>1. u.dir /\ u.mounted = "none" => Stuck(c, u) BY <2>3, MountIs DEF MountStuck
      <4>2. CASE out \in Ends("error", u) /\ u.dir /\ u.mounted = "none"
        BY <4>1, <4>2 DEF Blames, Ends
      <4> QED BY <1>2, <3>2, <4>2, UnmountExcused, ExcusedBlames
    <3>3. ASSUME NEW d \in Unmount(u), out \in RemoveFstab(d.w) PROVE Blames(c, u, out)
      <4>1. d.w \in MountWorld BY <1>2, Unmounted
      <4>2. out.res # "returned" BY <1>1, <3>3, <4>1, FstabEnsured
      <4> QED BY <1>1, <3>3, <4>1, <4>2, FstabExcused, ExcusedBlames
    <3> QED BY <3>1, <3>2, <3>3
  <2> QED BY <1>1, <2>1, <2>2, <2>3
<1>5. out \in CheckMount(c, u) \cup ExecuteMount(c, u) BY MountIs
<1> QED BY <1>3, <1>4, <1>5

\* An op of a command fails when a call does, and where the command does not
\* bring about what the check asks.
LEMMA RunBlames ==
  ASSUME NEW c \in CommandConfig, c.kind = "run", NEW o \in Ops(c), NEW u, IsWorld(c, u),
         NEW out \in Check(c, o, u) \cup Execute(c, o, u)
  PROVE  Blames(c, u, out)
<1> DEFINE v == [u EXCEPT !.holds = @ \/ c.apply = "works"]
<1>1. u \in RunWorld /\ out \in CheckRun(c, u) \cup ExecuteRun(c, u) BY RunIs
<1>2. v \in RunWorld /\ (c.apply = "works" => v.holds) BY <1>1 DEF RunWorld
<1>4. \/ out \in Lost(u) \cup Lost(v) \cup Done(v) \cup Done(u)
      \/ \E so : out \in Verdict(so, u)
      \/ c.apply # "works" /\ out \in Ends("error", u)
      \/ ~v.holds /\ out \in Ends("error", v)
  <2> HIDE DEF v
  <2>1. CASE out \in CheckRun(c, u) BY <2>1 DEF CheckRun, Ask
  <2>2. CASE out \in ExecuteRun(c, u) BY <2>2 DEF ExecuteRun, Ask, Call, v
  <2> QED BY <1>1, <2>1, <2>2
<1>5. \A x : c.apply # "works" => ~Feasible(c, x) BY FeasibleIs DEF CommandKinds, CommandFeasible
<1>6. \A x \in RunWorld : Faulty(x).fault = TRUE BY RunFault DEF Faulty
<1>7. \A x : c.apply # "works" /\ out \in Ends("error", x) => Blames(c, u, out)
  BY <1>5 DEF Blames, Ends
<1> HIDE DEF v
<1> QED BY <1>1, <1>2, <1>4, <1>6, <1>7, EndsExcused, ExcusedBlames

\* An op of a set of commands fails when a call does, and where there is no
\* list to be had.
LEMMA RunSetBlames ==
  ASSUME NEW c \in CommandConfig, c.kind = "run_set", NEW o \in Ops(c), NEW u, IsWorld(c, u),
         NEW out \in Check(c, o, u) \cup Execute(c, o, u)
  PROVE  Blames(c, u, out)
<1>1. u \in RunSetWorld /\ out \in CheckRunSet(c, u) \cup ExecuteRunSet(c, u) BY RunSetIs
<1>2. \A x \in RunSetWorld : \A y \in Lost(x) : Excused(y) BY RunSetFaulty, EndsExcused
<1>3. CASE out \in CheckRunSet(c, u)
  <2> DEFINE v == [u EXCEPT !.listed = TRUE]
  <2>1. v \in RunSetWorld BY <1>1 DEF RunSetWorld
  <2>2. \/ out \in ListLive(c, u) /\ out.res # "returned"
        \/ \E so, x : out \in Verdict(so, x)
    BY <1>3 DEF CheckRunSet, Then
  <2>3. \/ out \in Lost(u) \cup Lost(v) \cup Returns(v) \cup Returns(u)
        \/ ~u.listed /\ ~c.init /\ out \in Ends("error", u)
        \/ \E so, x : out \in Verdict(so, x)
    BY <2>2 DEF ListLive, Call, Ask
  <2>4. \A x : out \in Returns(x) => out.res = "returned" BY DEF Returns, Ends
  <2>5. ~u.listed /\ ~c.init => ~Feasible(c, u) BY FeasibleIs DEF CommandKinds, CommandFeasible
  <2>6. CASE ~u.listed /\ ~c.init /\ out \in Ends("error", u) BY <2>5, <2>6 DEF Blames, Ends
  <2>7. CASE \E so, x : out \in Verdict(so, x) BY <2>7, EndsExcused, ExcusedBlames
  <2> HIDE DEF v
  <2> QED BY <1>1, <1>2, <2>1, <2>2, <2>3, <2>4, <2>6, <2>7, ExcusedBlames
<1>4. CASE out \in ExecuteRunSet(c, u)
  <2> DEFINE v == WithoutItems(u, u.removes)
  <2>1. \A T \in SUBSET u.removes : WithoutItems(u, T) \in RunSetWorld
    BY <1>1 DEF RunSetWorld, WithoutItems
  <2>2. v \in RunSetWorld BY <2>1
  <2>3. \A T \in SUBSET v.adds : WithItems(v, T) \in RunSetWorld
    <3> HIDE DEF v
    <3> QED BY <2>2 DEF RunSetWorld, WithItems
  <2>4. \/ \E T \in SUBSET u.removes : out \in Lost(WithoutItems(u, T))
        \/ out \in AddItems(v)
    BY <1>4 DEF ExecuteRunSet
  <2> HIDE DEF v
  <2>5. out \in AddItems(v) =>
           \/ \E T \in SUBSET v.adds : out \in Lost(WithItems(v, T))
           \/ \E x : out \in Ends("unchanged", x) \cup Ends("changed", x)
    BY DEF AddItems
  <2> QED BY <1>2, <2>1, <2>3, <2>4, <2>5, EndsExcused, ExcusedBlames
<1> QED BY <1>1, <1>3, <1>4

\* What it takes to stop a container, to remove it and to make one.
LEMMA ContainerCallsExcused ==
  ASSUME NEW c \in ContainerConfig, NEW u \in ContainerWorld
  PROVE  /\ \A d \in StopContainer(u) : IF d.res = "returned"
                                        THEN d.w.there = u.there /\ d.w.daemon = u.daemon
                                        ELSE Excused(d)
         /\ \A d \in RemoveContainer(u) : IF d.res = "returned" THEN d.w.daemon = u.daemon
                                          ELSE Excused(d) \/ (d \in Ends("error", u) /\ ~u.there)
         /\ \A d \in CreateContainer(c, u) :
               d.res = "returned" \/ Excused(d) \/ (d \in Ends("error", u) /\ ~u.daemon)
<1> DEFINE still == [u EXCEPT !.running = FALSE]
           gone  == [u EXCEPT !.there = FALSE]
           made  == Created(c, u)
<1>1. /\ still \in ContainerWorld /\ still.there = u.there /\ still.daemon = u.daemon
      /\ gone \in ContainerWorld /\ gone.daemon = u.daemon
  BY DEF ContainerWorld
<1>2. Faulty(made).fault = TRUE BY DEF ContainerWorld, Created, Faulty, WithFault
<1>3. \A x, d : d \in Returns(x) => d.res = "returned" /\ d.w = x BY DEF Returns, Ends
<1>4. \A x, d : d \in Lost(x) \cup Ends("error", x) => d.res # "returned" BY DEF Lost, Ends
<1>5. \A d \in StopContainer(u) : d \in Lost(u) \cup Lost(still) \cup Returns(still) \cup Returns(u)
  BY DEF StopContainer, Call
<1>6. \A d \in RemoveContainer(u) : \/ d \in Lost(u) \cup Lost(gone) \cup Returns(gone)
                                    \/ ~u.there /\ d \in Ends("error", u)
  BY DEF RemoveContainer, Call
<1>7. \A d \in CreateContainer(c, u) : \/ d \in Lost(u) \cup Lost(made) \cup Returns(made)
                                       \/ ~u.daemon /\ d \in Ends("error", u)
  BY DEF CreateContainer, Call
<1> HIDE DEF still, gone, made
<1>8. \A d \in StopContainer(u) : IF d.res = "returned"
                                  THEN d.w.there = u.there /\ d.w.daemon = u.daemon
                                  ELSE Excused(d)
  BY <1>1, <1>3, <1>4, <1>5, ContainerFaulty, EndsExcused
<1>9. \A d \in RemoveContainer(u) : IF d.res = "returned" THEN d.w.daemon = u.daemon
                                    ELSE Excused(d) \/ (d \in Ends("error", u) /\ ~u.there)
  BY <1>1, <1>3, <1>4, <1>6, ContainerFaulty, EndsExcused
<1>10. \A d \in CreateContainer(c, u) :
          d.res = "returned" \/ Excused(d) \/ (d \in Ends("error", u) /\ ~u.daemon)
  BY <1>2, <1>3, <1>7, ContainerFaulty, EndsExcused
<1> QED BY <1>8, <1>9, <1>10

\* The op's timeout is the shorter one.
LEMMA WaitIsLong ==
  ASSUME NEW c \in ContainerConfig
  PROVE  Least(WaitDeadline(c), OpTimeout) = OpTimeout
<1> DEFINE tries == Least(c.interval, PollCeil) * (c.retries + 1)
<1>0. c.interval \in Nat /\ c.retries \in Nat /\ c.start \in Nat BY ContainerIs
<1>1. Least(c.interval, PollCeil) \in {0, 1, 2} /\ c.retries + 1 \in Nat /\ c.start \in Nat
  <2>1. \A n \in Nat : Least(n, PollCeil) \in {0, 1, 2} BY DEF Least, PollCeil
  <2> QED BY <1>0, <2>1
<1>2. tries \in Nat
  <2>1. \A k \in {0, 1, 2}, n \in Nat : k * n \in Nat
    <3>1. \A n \in Nat : 0 * n = 0 /\ 1 * n = n /\ 2 * n = n + n OBVIOUS
    <3> QED BY <3>1
  <2> QED BY <1>1, <2>1
<1> HIDE DEF tries
<1>3. c.start + tries \in Nat BY <1>1, <1>2
<1>4. WaitDeadline(c) = Greatest(c.start + tries, 60) BY DEF WaitDeadline, tries
<1> QED BY <1>3, <1>4 DEF Greatest, Least, OpTimeout

\* A container that is started is healthy in time, unless its program is not
\* sound or its health is asked for too seldom.
LEMMA StartExcused ==
  ASSUME NEW c \in ContainerConfig, NEW u \in ContainerWorld, NEW out \in StartContainer(c, u),
         ~(c.interval > OpTimeout)
  PROVE  Excused(out) \/ (out.res = "error" /\ ~Feasible(c, out.w))
<1> DEFINE v == Starting(c, u)
           At(h) == [v EXCEPT !.health = h]
<1>1. v \in ContainerWorld /\ v.sound = u.sound BY Words DEF ContainerWorld, Starting
<1>2. c.interval \in Nat /\ c.kind = "container" BY ContainerIs
<1>3. v.sound => ~((IF v.sound THEN c.interval ELSE c.start + c.interval * c.retries) > OpTimeout)
  OBVIOUS
<1> HIDE DEF v
<1>4. \/ out \in Lost(u) \cup Lost(v) \cup Done(v) \cup Done(At("healthy"))
      \/ /\ c.interval # 0 /\ ~v.sound
         /\ out \in Ends("error", At("starting")) \cup Ends("error", At("unhealthy"))
  <2>1. out \in Lost(u) \cup Lost(v) \cup WaitHealthy(c, v) BY DEF StartContainer, Call, v
  <2>2. out \in WaitHealthy(c, v) =>
           \/ out \in Done(v) \cup Done(At("healthy"))
           \/ /\ c.interval # 0 /\ ~v.sound
              /\ out \in Ends("error", At("starting")) \cup Ends("error", At("unhealthy"))
    BY <1>3, WaitIsLong DEF WaitHealthy
  <2> QED BY <2>1, <2>2
<1>5. \A h : At(h).sound = v.sound BY <1>1 DEF ContainerWorld
<1>6. ASSUME NEW h, c.interval # 0, ~v.sound, out \in Ends("error", At(h))
      PROVE  out.res = "error" /\ ~Feasible(c, out.w)
  <2>1. out.res = "error" /\ out.w = At(h) BY <1>6 DEF Ends
  <2>2. ~ContainerFeasible(c, At(h)) BY <1>2, <1>5, <1>6 DEF ContainerFeasible
  <2> QED BY <1>2, <2>1, <2>2, FeasibleIs
<1> HIDE DEF At
<1> QED BY <1>1, <1>4, <1>6, ContainerFaulty, EndsExcused

\* An op of a container fails when a call does; where the engine does not
\* answer, or takes something else for the container; where the source of the
\* mount is missing; and when the container does not get healthy in time.
LEMMA ContainerBlames ==
  ASSUME NEW c \in ContainerConfig, NEW o \in Ops(c), NEW u, IsWorld(c, u),
         NEW out \in Check(c, o, u) \cup Execute(c, o, u)
  PROVE  Blames(c, u, out)
<1> DEFINE Fair(x) == Excused(x) \/ (x.res = "error" /\ ~Feasible(c, x.w))
<1>1. u \in ContainerWorld /\ c.kind = "container" BY ContainerIs
<1>2. Fair(out) => Blames(c, u, out) BY DEF Excused, Blames
<1>3. CASE out \in CheckContainer(c, u)
  <2>1. \/ out \in Lost(u)
        \/ out \in CheckSources(c, u) /\ out.res # "returned"
        \/ \E so, x : out \in Verdict(so, x)
    BY <1>3 DEF CheckContainer, Ask, Then
  <2>2. out \in CheckSources(c, u) =>
           \/ out \in Lost(u) \cup Returns(u)
           \/ c.mount /\ u.source # "dir" /\ out \in Ends("error", u)
    BY DEF CheckSources, Ask
  <2>3. out \in Returns(u) => out.res = "returned" BY DEF Returns, Ends
  <2>4. c.mount /\ u.source # "dir" => ~Feasible(c, u) BY <1>1, FeasibleIs DEF ContainerFeasible
  <2>5. CASE c.mount /\ u.source # "dir" /\ out \in Ends("error", u) BY <2>4, <2>5 DEF Blames, Ends
  <2> QED BY <1>1, <2>1, <2>2, <2>3, <2>5, ContainerFaulty, EndsExcused, ExcusedBlames
<1> DEFINE Gone(x) == Then(StopContainer(x), RemoveContainer)
           Make(x) == MadeContainer(c, x)
<1>a. out \in ExecuteContainer(c, u) =>
         \/ out \in Lost(u) \cup Ends("unchanged", u)
         \/ c.state = "running" /\ out \in StartContainer(c, u)
         \/ out \in Then(StopContainer(u), Done)
         \/ Seen(u) /\ out \in Then(Gone(u), Done)
         \/ c.state # "absent" /\ out \in Make(u)
         \/ c.state # "absent" /\ Seen(u) /\ out \in Then(Gone(u), Make)
  BY <1>1, ContainerIs DEF ExecuteContainer, Ask, MadeContainer, ContainerWorld
<1>4. ASSUME out \in ExecuteContainer(c, u), ~Stuck(c, u) PROVE Fair(out)
  <2>0. u.daemon /\ (Seen(u) => u.there) /\ (c.state = "running" => ~(c.interval > OpTimeout))
    BY <1>4, ContainerIs DEF ContainerStuck, Seen
  <2>1. \/ out \in Lost(u) \cup Ends("unchanged", u) \cup Make(u)
        \/ c.state = "running" /\ out \in StartContainer(c, u)
        \/ out \in Then(StopContainer(u), Done)
        \/ Seen(u) /\ out \in Then(Gone(u), Done) \cup Then(Gone(u), Make)
    BY <1>4, <1>a
  <2>2. ASSUME c.state = "running", NEW x \in ContainerWorld, NEW y \in StartContainer(c, x) PROVE Fair(y)
    BY <2>0, <2>2, StartExcused
  <2>3. ASSUME NEW x \in ContainerWorld, x.daemon, NEW y \in Make(x) PROVE Fair(y)
    <3>1. \/ y \in CreateContainer(c, x) /\ y.res # "returned"
          \/ \E d \in CreateContainer(c, x) :
                y \in IF c.state = "running" THEN StartContainer(c, d.w) ELSE Done(d.w)
      BY <2>3 DEF MadeContainer, Then
    <3> HIDE DEF Fair
    <3>2. \A z : Excused(z) => Fair(z) BY DEF Fair
    <3> QED BY <2>2, <2>3, <3>1, <3>2, ContainerCreated, ContainerCallsExcused, EndsExcused
  <2>4. ASSUME u.there, NEW d \in Gone(u)
        PROVE  IF d.res = "returned" THEN d.w \in ContainerWorld /\ d.w.daemon ELSE Excused(d)
    <3>1. \/ d \in StopContainer(u) /\ d.res # "returned"
          \/ \E e \in StopContainer(u) : e.res = "returned" /\ d \in RemoveContainer(e.w)
      BY <2>4 DEF Then
    <3>2. CASE d \in StopContainer(u) /\ d.res # "returned" BY <1>1, <3>2, ContainerCallsExcused
    <3>3. ASSUME NEW e \in StopContainer(u), e.res = "returned", d \in RemoveContainer(e.w)
          PROVE  IF d.res = "returned" THEN d.w \in ContainerWorld /\ d.w.daemon ELSE Excused(d)
      <4>1. e.w \in ContainerWorld BY <1>1, ContainerStopped
      <4>2. e.w.there /\ e.w.daemon BY <1>1, <2>0, <2>4, <3>3, ContainerCallsExcused
      <4>3. d.w \in ContainerWorld BY <3>3, <4>1, ContainerRemoved
      <4>4. IF d.res = "returned" THEN d.w.daemon = e.w.daemon
            ELSE Excused(d) \/ (d \in Ends("error", e.w) /\ ~e.w.there)
        BY <3>3, <4>1, ContainerCallsExcused
      <4> QED BY <4>2, <4>3, <4>4
    <3> QED BY <3>1, <3>2, <3>3
  <2>5. \A z : Excused(z) => Fair(z) OBVIOUS
  <2>6. \A x : out \in Then(Gone(u), Done) \cup Then(Gone(u), Make) =>
           \/ out \in Gone(u) /\ out.res # "returned"
           \/ \E d \in Gone(u) : d.res = "returned" /\ out \in Done(d.w) \cup Make(d.w)
    BY DEF Then
  <2>7. out \in Then(StopContainer(u), Done) =>
           \/ out \in StopContainer(u) /\ out.res # "returned"
           \/ \E d \in StopContainer(u) : out \in Done(d.w)
    BY DEF Then
  <2> HIDE DEF Fair, Gone, Make
  <2>8. CASE Seen(u) /\ out \in Then(Gone(u), Done) \cup Then(Gone(u), Make)
    BY <2>0, <2>3, <2>4, <2>5, <2>6, <2>8, EndsExcused
  <2>9. CASE out \in Then(StopContainer(u), Done)
    BY <1>1, <2>5, <2>7, <2>9, ContainerCallsExcused, EndsExcused
  <2> QED BY <1>1, <2>0, <2>1, <2>2, <2>3, <2>5, <2>8, <2>9, ContainerFaulty, EndsExcused
<1>5. ASSUME out \in ExecuteContainer(c, u) PROVE out.res # "panic"
  <2>1. \A x : out \in StartContainer(c, x) => out.res \in {"changed", "error"}
    BY DEF StartContainer, WaitHealthy, Call, Lost, Ends, Done
  <2>2. \A x \in ContainerWorld : c.state # "absent" /\ out \in Make(x) => out.res \in {"changed", "error"}
    BY ContainerMade
  <2>3. \A d \in Gone(u) : d.w \in ContainerWorld /\ d.res \in {"returned", "error"}
    BY <1>1, ContainerGone
  <2>4. \A d \in StopContainer(u) : d.res \in {"returned", "error"} BY <1>1, ContainerStopped
  <2>5. \A x : out \in Lost(x) \cup Ends("unchanged", x) \cup Done(x) => out.res # "panic"
    BY DEF Lost, Ends, Done
  <2>6. CASE out \in Then(StopContainer(u), Done)
    <3>1. out \in StopContainer(u) \/ \E d \in StopContainer(u) : out \in Done(d.w) BY <2>6 DEF Then
    <3> QED BY <2>4, <2>5, <3>1
  <2>7. CASE out \in Then(Gone(u), Done)
    <3>1. out \in Gone(u) \/ \E d \in Gone(u) : out \in Done(d.w) BY <2>7 DEF Then
    <3> HIDE DEF Gone
    <3> QED BY <2>3, <2>5, <3>1
  <2>8. CASE c.state # "absent" /\ out \in Then(Gone(u), Make)
    <3>1. out \in Gone(u) \/ \E d \in Gone(u) : out \in Make(d.w) BY <2>8 DEF Then
    <3> HIDE DEF Gone, Make
    <3> QED BY <2>2, <2>3, <2>8, <3>1
  <2> HIDE DEF Gone, Make
  <2> QED BY <1>1, <1>5, <1>a, <2>1, <2>2, <2>5, <2>6, <2>7, <2>8
<1>6. out \in CheckContainer(c, u) \cup ExecuteContainer(c, u) BY ContainerIs
<1>7. CASE out \in ExecuteContainer(c, u) /\ Stuck(c, u) BY <1>5, <1>7 DEF Blames
<1> HIDE DEF Fair
<1> QED BY <1>2, <1>3, <1>4, <1>6, <1>7

\* Such an op that fails has a reason.
LEMMA FailuresHaveReasons ==
  ASSUME NEW c \in Config, c.kind \in Fileless, NEW o \in Ops(c), NEW u, IsWorld(c, u),
         NEW out \in Check(c, o, u) \cup Execute(c, o, u)
  PROVE  Blames(c, u, out)
<1>1. CASE c \in HostConfig
  <2>1. c.kind \in {"group", "user", "service", "sysctl", "mount", "firewall"}
    BY <1>1, ConfigCases DEF HostKinds
  <2>2. CASE c.kind \in {"group", "user", "service"}
    BY <1>1, <2>2, GroupBlames, UserBlames, ServiceBlames
  <2>3. CASE c.kind \in {"sysctl", "mount", "firewall"}
    BY <1>1, <2>3, SysctlBlames, MountBlames, FirewallBlames
  <2> QED BY <2>1, <2>2, <2>3
<1>2. CASE c \in CommandConfig
  <2>1. c.kind \in {"run", "run_set"} BY <1>2 DEF CommandConfig
  <2> QED BY <1>2, <2>1, RunBlames, RunSetBlames
<1>3. CASE c \in ContainerConfig BY <1>3, ContainerBlames
<1> QED BY <1>1, <1>2, <1>3, ConfigCases DEF Fileless, HostKinds, CommandKinds

\* What is beyond such a step is beyond it until something changes, and the
\* step has one op.
LEMMA StuckLasts ==
  ASSUME NEW c \in Config, c.kind \in Fileless, NEW u, IsWorld(c, u), Stuck(c, u)
  PROVE  /\ \A o, p \in Ops(c) : o = p
         /\ \A v : IsWorld(c, v) /\ Target(c, v) = Target(c, u) => Stuck(c, v)
<1>1. CASE c \in HostConfig
  <2>1. c.kind = "mount"
    BY <1>1, GroupIs, UserIs, FirewallIs, ConfigCases DEF Stuck, HostStuck, HostKinds, FileKinds
  <2> DEFINE Off(v) == WithFault(v, FALSE)
  <2>2. \A v \in MountWorld : Off(v).dir = v.dir /\ Off(v).mounted = v.mounted BY MountFault
  <2>3. \A v : (IsWorld(c, v) => v \in MountWorld) /\ Target(c, v) = Off(v)
               /\ (Stuck(c, v) <=> MountStuck(c, v))
    BY <1>1, <2>1, MountIs
  <2>4. \A o, p \in Ops(c) : o = p BY <1>1, <2>1, MountIs
  <2> HIDE DEF Off
  <2> QED BY <2>2, <2>3, <2>4 DEF MountStuck
<1>2. CASE c \in CommandConfig
  BY <1>2 DEF CommandConfig, Stuck, HostKinds, FileKinds, CommandKinds
<1>3. CASE c \in ContainerConfig
  <2> DEFINE Off(v) == WithFault(v, FALSE)
  <2>1. \A v \in ContainerWorld : /\ Off(v).daemon = v.daemon /\ Off(v).namesake = v.namesake
                                  /\ Off(v).there = v.there
    BY ContainerFault
  <2>2. \A v : (IsWorld(c, v) => v \in ContainerWorld) /\ Target(c, v) = Off(v)
               /\ (Stuck(c, v) <=> ContainerStuck(c, v))
    BY <1>3, ContainerIs
  <2>3. \A o, p \in Ops(c) : o = p BY <1>3, ContainerIs
  <2> HIDE DEF Off
  <2> QED BY <2>1, <2>2, <2>3 DEF ContainerStuck
<1> QED BY <1>1, <1>2, <1>3, ConfigCases DEF Fileless, HostKinds, CommandKinds

\* Nothing is reported before the first op.
LEMMA FreshNext == IInv /\ FreshInv /\ [Next]_vars => FreshInv'
<1> SUFFICES ASSUME IInv, FreshInv, [Next]_vars PROVE FreshInv' OBVIOUS
<1>1. CASE Start \/ Finish BY <1>1 DEF Start, Finish, Over, FreshInv
<1>2. ASSUME NEW o \in Ops(cfg), CheckOp(o) PROVE FreshInv' BY <1>2 DEF CheckOp, Over, FreshInv
<1>3. ASSUME NEW o \in Ops(cfg), ExecuteOp(o) PROVE FreshInv'
  <2>1. cfg' = cfg /\ verdict' = verdict /\ o \in left /\ verdict[o] = "unsatisfied"
    BY <1>3 DEF ExecuteOp, IInv, SettleInv, TypeOK
  <2>2. left' = left \ {o} \/ phase' = "idle" BY <1>3 DEF ExecuteOp, Over
  <2> QED BY <2>1, <2>2 DEF FreshInv
<1>4. CASE StartExec BY <1>4 DEF StartExec, FreshInv, IInv, SettleInv, PhaseInv
<1>5. CASE Edit \/ UNCHANGED vars BY <1>5 DEF Edit, vars, FreshInv
<1> QED BY <1>1, <1>2, <1>3, <1>4, <1>5 DEF Next, Rest

\* A run that fails has a reason: the op that failed has one, and the target is
\* still as it was when the run began, for the step has no other op.
LEMMA ReasonNext == IInv /\ FreshInv /\ ReasonInv /\ [Next]_vars => ReasonInv'
<1> SUFFICES ASSUME IInv, FreshInv, ReasonInv, [Next]_vars, cfg'.kind \in Fileless PROVE ReasonInv'
  BY DEF ReasonInv
<1>c. cfg \in Config /\ IsWorld(cfg, w) /\ IsWorld(cfg, before)
  BY ConfigsAssumption DEF IInv, SettleInv, TypeOK
<1>1. CASE Start \/ Finish BY <1>1 DEF Start, Finish, Over, ReasonInv
<1>2. ASSUME NEW o \in Ops(cfg), NEW out \in Check(cfg, o, w) \cup Execute(cfg, o, w),
             w' = out.w, cfg' = cfg, before' = before, edited' = edited,
             phase # "idle", Over(out.res), out.res \notin {"ok", "none"},
             ~out.w.fault => ~w.fault, changed => ~ \A p \in Ops(cfg) : p = o
      PROVE  ReasonInv'
  <2>1. cfg.kind \in Fileless BY <1>2
  <2>2. Blames(cfg, w, out) BY <1>2, <1>c, <2>1, FailuresHaveReasons
  <2>3. result' = out.res /\ phase' = "idle" BY <1>2 DEF Over
  <2>4. ASSUME Quiet', Stuck(cfg, w) PROVE Stuck(cfg, before)
    <3>1. Quiet BY <1>2, <2>4 DEF Quiet
    <3>2. ~changed BY <1>2, <1>c, <2>1, <2>4, StuckLasts
    <3>3. Target(cfg, before) = Target(cfg, w) BY <1>2, <3>1, <3>2 DEF IInv, SettleInv, ReportInv
    <3> QED BY <1>c, <2>1, <2>4, <3>3, StuckLasts
  <2> QED BY <1>2, <2>2, <2>3, <2>4 DEF ReasonInv, Blames, Quiet
<1>3. ASSUME NEW o \in Ops(cfg), CheckOp(o) PROVE ReasonInv'
  <2>1. PICK out \in Check(cfg, o, w) :
          /\ w' = out.w
          /\ IF out.res \in {"satisfied", "unsatisfied"} THEN UNCHANGED <<phase, result, streak>>
                                                         ELSE Over(out.res)
    BY <1>3 DEF CheckOp
  <2>2. phase = "checks" /\ cfg' = cfg /\ before' = before /\ edited' = edited /\ ~changed
    BY <1>3 DEF CheckOp, IInv, SettleInv, PhaseInv
  <2>3. Checked(cfg, o, w, out) BY <1>c, CheckIsSound
  <2>4. CASE UNCHANGED <<phase, result, streak>> BY <2>2, <2>4 DEF ReasonInv
  <2>5. CASE Over(out.res) /\ out.res \notin {"satisfied", "unsatisfied"}
    <3>1. out.res \notin {"ok", "none"} /\ (~out.w.fault => ~w.fault) BY <2>3 DEF Checked
    <3> QED BY <1>2, <2>1, <2>2, <2>5, <3>1
  <2> QED BY <2>1, <2>4, <2>5
<1>4. ASSUME NEW o \in Ops(cfg), ExecuteOp(o) PROVE ReasonInv'
  <2>1. PICK out \in Execute(cfg, o, w) :
          /\ w' = out.w
          /\ IF out.res \in {"changed", "unchanged"} THEN UNCHANGED <<phase, result, streak>>
                                                     ELSE Over(out.res)
    BY <1>4 DEF ExecuteOp
  <2>2. phase = "exec" /\ cfg' = cfg /\ before' = before /\ edited' = edited /\ o \in left
    BY <1>4 DEF ExecuteOp
  <2>3. Executed(cfg, o, w, out) BY <1>c, ExecuteIsSound
  <2>4. ASSUME \A p \in Ops(cfg) : p = o PROVE ~changed
    <3>1. left = {p \in Ops(cfg) : verdict[p] = "unsatisfied"}
      BY <2>2, <2>4 DEF IInv, SettleInv, TypeOK
    <3> QED BY <2>2, <3>1 DEF FreshInv
  <2>5. CASE UNCHANGED <<phase, result, streak>> BY <2>2, <2>5 DEF ReasonInv
  <2>6. CASE Over(out.res) /\ out.res \notin {"changed", "unchanged"}
    <3>1. out.res \notin {"ok", "none"} /\ (~out.w.fault => ~w.fault) BY <2>3 DEF Executed
    <3> QED BY <1>2, <2>1, <2>2, <2>4, <2>6, <3>1
  <2> QED BY <2>1, <2>5, <2>6
<1>5. CASE StartExec \/ UNCHANGED vars BY <1>5 DEF StartExec, vars, ReasonInv, Quiet
<1>6. CASE Edit BY <1>6 DEF Edit, ReasonInv, Quiet
<1> QED BY <1>1, <1>3, <1>4, <1>5, <1>6 DEF Next, Rest

\* Whatever broken runs and others have left, an undisturbed run of a step that
\* keeps neither files nor packages succeeds where its declaration can be met,
\* but for the worlds known to be beyond it, and none of its ops panics
\* (runStep, and the Check and Execute of those ops).
THEOREM Healing == Spec => [](cfg.kind \in Fileless => HealsUnlessStuck)
<1>1. Init => FreshInv /\ ReasonInv BY DEF Init, FreshInv, ReasonInv
<1>2. IInv /\ FreshInv /\ ReasonInv => (cfg.kind \in Fileless => HealsUnlessStuck)
  BY DEF IInv, SettleInv, TypeOK, ReasonInv, HealsUnlessStuck, CleanRun, Quiet
<1> QED BY <1>1, <1>2, Invariance, FreshNext, ReasonNext, PTL DEF Spec

----
\* What the ops take care of.

\* A step that leaves the world alone is careful.
LEMMA SelfIsCareful ==
  ASSUME NEW c, NEW u PROVE Careful(c, u, u)
BY DEF Careful

\* A failed call that did nothing is careful.
LEMMA FaultIsCareful ==
  ASSUME NEW c \in Config, NEW u, IsWorld(c, u), NEW b \in BOOLEAN
  PROVE  Careful(c, u, WithFault(u, b))
<1> DEFINE v == WithFault(u, b)
<1>1. CASE c.kind \in {"copy", "unarchive"}
  <2>1. IsFileWorld(c, u) BY <1>1, ConfigCases, FilesAre DEF FileKinds
  <2>2. v.fs = u.fs /\ v.cache = u.cache BY <2>1, FileFault
  <2> HIDE DEF v
  <2>3. Careful(c, u, v) BY <1>1, <2>2 DEF Careful
  <2> QED BY <2>3 DEF v
<1>2. CASE c.kind = "service"
  <2>1. u \in ServiceWorld BY <1>2, ConfigCases, ServiceIs DEF HostKinds
  <2>2. v.running = u.running BY <2>1, ServiceFault
  <2> HIDE DEF v
  <2>3. Careful(c, u, v) BY <1>2, <2>2 DEF Careful
  <2> QED BY <2>3 DEF v
<1>3. CASE c.kind \notin {"copy", "unarchive", "service"} BY <1>3 DEF Careful
<1> QED BY <1>1, <1>2, <1>3

\* A check is careful.
LEMMA CheckIsCareful ==
  ASSUME NEW c \in Config, NEW o \in Ops(c), NEW u, IsWorld(c, u), NEW out \in Check(c, o, u)
  PROVE  Careful(c, u, out.w)
<1>1. CASE c.kind \in {"copy", "unarchive", "service"}
  <2>1. Looked(c, o, u, out)
    <3>1. CASE c.kind = "service" BY <3>1, ConfigCases, HostIsChecked DEF HostKinds
    <3>2. CASE c.kind # "service" BY <1>1, <3>2, ConfigCases, FileLooked DEF FileKinds
    <3> QED BY <3>1, <3>2
  <2>2. Careful(c, u, Faulty(u)) /\ Careful(c, u, u) BY FaultIsCareful, SelfIsCareful DEF Faulty
  <2> QED BY <2>1, <2>2 DEF Looked
<1>2. CASE c.kind \notin {"copy", "unarchive", "service"} BY <1>2 DEF Careful
<1> QED BY <1>1, <1>2

\* An op that leaves the files' names and contents alone, and the cache.
LEMMA ShapeIsCareful ==
  ASSUME NEW c, c.kind \in {"copy", "unarchive"}, NEW u, NEW v, SameShape(u.fs, v.fs), v.cache = u.cache
  PROVE  Careful(c, u, v)
<1>1. /\ DOMAIN v.fs = DOMAIN u.fs
      /\ Contents(v.fs, Dest) = Contents(u.fs, Dest)
      /\ Contents(v.fs, Marker) = Contents(u.fs, Marker)
  BY SameShapeIsSame
<1> QED BY <1>1 DEF Careful

\* The ops that set mode and owner are careful.
LEMMA ModesAreCareful ==
  ASSUME NEW c \in FileConfig, c.kind \in {"copy", "unarchive"}, NEW o \in {"mode", "owner"},
         NEW u, IsWorld(c, u), NEW out \in Execute(c, o, u)
  PROVE  Careful(c, u, out.w)
BY ModesKeepShape, ShapeIsCareful

\* A download is careful: it verifies before it caches.
LEMMA DownloadIsCareful ==
  ASSUME NEW c \in FileConfig, c.kind \in {"copy", "unarchive"}, NEW u, IsWorld(c, u),
         NEW out \in Execute(c, "download", u)
  PROVE  Careful(c, u, out.w)
BY FilesAre, FileWorldIs, CopyFetched DEF FileExecute, Fetches, Careful

\* A content op is careful: it verifies and backs up before it writes.
LEMMA ContentIsCareful ==
  ASSUME NEW c \in FileConfig, c.kind = "copy", NEW u, IsWorld(c, u),
         NEW out \in Execute(c, "content", u)
  PROVE  Careful(c, u, out.w)
<1>1. out \in FileExecute(c, "content", u) /\ FilesOK(u) BY FilesAre, FileWorldIs
<1>2. Copies(c, u, out) BY <1>1, ContentExecuted
<1>3. out.w.cache = u.cache BY <1>2 DEF Copies, Keeps, SameHost
<1>4. ~out.w.fault => {TempFile, TempDir, Archive} \cap DOMAIN out.w.fs \subseteq DOMAIN u.fs
  <2>1. ~out.w.fault => Temps \cap DOMAIN out.w.fs \subseteq DOMAIN u.fs BY <1>2 DEF Copies, Tidy
  <2>2. Beside(u.fs, out.w.fs, Touched(u)) BY <1>2 DEF Copies, Keeps
  <2>3. Archive \notin Touched(u)
    <3>1. Follow(u.fs, Dest) \in {Dest, Other} BY <1>1, Following DEF FilesOK
    <3> QED BY <3>1, PathsDiffer DEF Touched, Temps, Backups
  <2>4. Archive \in DOMAIN out.w.fs <=> Archive \in DOMAIN u.fs BY <2>2, <2>3 DEF Beside
  <2> QED BY <2>1, <2>4 DEF Temps
<1>5. c.verify = "command" /\ Contents(out.w.fs, Dest) = "bad" => Contents(u.fs, Dest) = "bad"
  BY <1>2 DEF Copies, Rejects
<1>6. c.backup /\ ~out.w.fault /\ IsFile(u.fs, Dest)
             /\ Contents(out.w.fs, Dest) # Contents(u.fs, Dest)
          => Contents(out.w.fs, BackupOf(Dest, u.clock)) = Contents(u.fs, Dest)
  BY <1>2 DEF Copies
<1> QED BY <1>3, <1>4, <1>5, <1>6 DEF Careful

\* An unarchive is careful: it marks after it has unpacked.
LEMMA ArchiveIsCareful ==
  ASSUME NEW c \in FileConfig, c.kind = "unarchive", NEW u, IsWorld(c, u),
         NEW out \in Execute(c, "archive", u)
  PROVE  Careful(c, u, out.w)
BY FilesAre, FileWorldIs, ArchiveExecuted DEF FileExecute, Archived, Carries, OwnFiles, Readable,
   Careful

\* A service op is careful: it reloads before it starts.
LEMMA ServiceIsCareful ==
  ASSUME NEW c \in HostConfig, c.kind = "service", NEW o \in Ops(c), NEW u, IsWorld(c, u),
         NEW out \in Execute(c, o, u)
  PROVE  Careful(c, u, out.w)
<1>1. u \in ServiceWorld BY ServiceIs
<1>2. u.running = "no" /\ out.w.running # "no" => out.w.running = out.w.unit
  <2>1. CASE o = "active"
    <3>1. out \in ExecuteActive(c, u) BY <2>1, ServiceIs
    <3> QED BY <1>1, <2>1, <3>1, ServiceOpsAre, ActiveExecuted
  <2>2. CASE o = "enabled"
    <3>1. out \in ExecuteEnabled(c, u) BY <2>2, ServiceIs
    <3> QED BY <1>1, <3>1, EnabledExecuted
  <2>3. CASE o \in {"restarted", "reloaded"}
    <3>1. out \in ExecuteRestart(c, u) BY <2>3, ServiceIs
    <3> QED BY <1>1, <3>1, RestartExecuted
  <2> QED BY <2>1, <2>2, <2>3, ServiceOpsAre
<1> QED BY <1>2 DEF Careful

\* Every op of every kind is careful, whatever call fails.
LEMMA ExecuteIsCareful ==
  ASSUME NEW c \in Config, NEW o \in Ops(c), NEW u, IsWorld(c, u), NEW out \in Execute(c, o, u)
  PROVE  Careful(c, u, out.w)
<1>1. CASE c.kind = "copy"
  <2>1. c \in FileConfig BY <1>1, ConfigCases DEF FileKinds
  <2>2. o \in {"content", "download", "mode", "owner"} BY <1>1, <2>1, FileOpsAre
  <2> QED BY <1>1, <2>1, <2>2, ModesAreCareful, DownloadIsCareful, ContentIsCareful
<1>2. CASE c.kind = "unarchive"
  <2>1. c \in FileConfig BY <1>2, ConfigCases DEF FileKinds
  <2>2. o \in {"archive", "download", "mode", "owner"} BY <1>2, <2>1, FileOpsAre
  <2> QED BY <1>2, <2>1, <2>2, ModesAreCareful, DownloadIsCareful, ArchiveIsCareful
<1>3. CASE c.kind = "service" BY <1>3, ConfigCases, ServiceIsCareful DEF HostKinds
<1>4. CASE c.kind \notin {"copy", "unarchive", "service"} BY <1>4 DEF Careful
<1> QED BY <1>1, <1>2, <1>3, <1>4

\* So is every step of apply.
LEMMA StepIsCareful ==
  ASSUME TypeOK, Next
  PROVE  edits' = edits => Careful(cfg, w, w')
<1>c. cfg \in Config /\ IsWorld(cfg, w) BY ConfigsAssumption DEF TypeOK
<1>1. CASE Start BY <1>c, <1>1, FaultIsCareful DEF Start
<1>2. ASSUME NEW o \in Ops(cfg), CheckOp(o) PROVE Careful(cfg, w, w')
  <2>1. PICK out \in Check(cfg, o, w) : w' = out.w BY <1>2 DEF CheckOp
  <2> QED BY <1>c, <2>1, CheckIsCareful
<1>3. ASSUME NEW o \in Ops(cfg), ExecuteOp(o) PROVE Careful(cfg, w, w')
  <2>1. PICK out \in Execute(cfg, o, w) : w' = out.w BY <1>3 DEF ExecuteOp
  <2> QED BY <1>c, <2>1, ExecuteIsCareful
<1>4. CASE StartExec \/ Finish \/ Rest
  <2>1. w' = w BY <1>4 DEF StartExec, Finish, Rest, vars
  <2> QED BY <2>1, SelfIsCareful
<1>5. CASE Edit
  <2>1. edits' = edits + 1 /\ edits \in Nat BY <1>5, BoundsAssumption DEF Edit, TypeOK
  <2> QED BY <2>1
<1> QED BY <1>1, <1>2, <1>3, <1>4, <1>5 DEF Next

\* That is what StepsTakeCare asks of a step.
LEMMA CarefulIsCare ==
  ASSUME Careful(cfg, w, w')
  PROVE  VerifiedOnly /\ NoTempLeft /\ BackedUp /\ MarkerLast /\ CacheIsVerified /\ StartsCurrentUnit
BY DEF Careful, VerifiedOnly, NoTempLeft, BackedUp, MarkerLast, CacheIsVerified, StartsCurrentUnit

\* Whatever call fails and wherever an op breaks off: content is verified and
\* backed up before it is written, an archive unpacked before it is marked, a
\* download verified before it is cached, a unit reloaded before it is
\* started.
THEOREM Care == Spec => StepsTakeCare
<1>1. SettleInv /\ [Next]_vars => [edits' = edits =>
          /\ VerifiedOnly /\ NoTempLeft /\ BackedUp
          /\ MarkerLast /\ CacheIsVerified /\ StartsCurrentUnit]_vars
  BY StepIsCareful, CarefulIsCare DEF SettleInv
<1> QED BY <1>1, Settling, PTL DEF Spec, StepsTakeCare
=============================================================================

---------------------------- MODULE ContainerSteps ----------------------------
(***************************************************************************)
(* The step kind container.instance.                                       *)
(*                                                                         *)
(* World: daemon, the container engine answers; there, the container       *)
(* exists, with image and env, running or not, and health; born, how often *)
(* it was made; namesake, an image or a network has the container's name;  *)
(* source, what is at the source of its mount; sound, the program in it    *)
(* passes the health check.                                                *)
(* Declaration: state; image, for all that is compared for equality; env,  *)
(* for the variables and labels, which a container may have more of;       *)
(* mount; namesake, it is named like its image; interval, retries and      *)
(* start of the health check, in seconds, interval 0 without one.          *)
(***************************************************************************)
EXTENDS Naturals, Calls

OpTimeout == 30     \* defaultOpTimeout, of an op that names none
PollCeil  == 2      \* healthPollCeil

Least(a, b)    == IF a < b THEN a ELSE b
Greatest(a, b) == IF a < b THEN b ELSE a

\* inspect finds an image or a network where there is no container; an
\* engine that does not answer has none.
Seen(w) == w.daemon /\ (w.there \/ w.namesake)

BugEnvExact(c, w) == ~w.there \/ w.image # c.image \/ c.env # w.env

\* What is no container differs in every respect.
ConfigDrift(c, w) == ~w.there \/ w.image # c.image \/ ~(c.env \subseteq w.env)

\* The mounts' sources are looked at when the container is to be made.
CheckSources(c, w) ==
    IF c.mount /\ c.state # "absent" /\ (~Seen(w) \/ ConfigDrift(c, w))
    THEN Ask(w, LAMBDA u : IF u.source = "dir" THEN Returns(u) ELSE Ends("error", u))
    ELSE Returns(w)

CheckContainer(c, w) ==
    Ask(w, LAMBDA u : Then(CheckSources(c, u), LAMBDA v :
        Verdict(IF c.state = "absent" THEN ~Seen(v)
                ELSE Seen(v) /\ ~ConfigDrift(c, v) /\ v.running = (c.state = "running"), v)))

StopContainer(w) ==
    IF w.there /\ w.running THEN Call(w, [w EXCEPT !.running = FALSE], Returns) ELSE Returns(w)

RemoveContainer(w) ==
    IF w.there THEN Call(w, [w EXCEPT !.there = FALSE], Returns) ELSE Ends("error", w)

\* create pulls the image, whose own variables the container has too.
Created(c, w) ==
    [w EXCEPT !.there = TRUE, !.running = FALSE, !.image = c.image,
              !.env = c.env \cup {"PATH"}, !.namesake = @ \/ c.namesake,
              !.health = "none", !.born = @ + 1]

CreateContainer(c, w) ==
    IF ~w.daemon THEN Ends("error", w) ELSE Call(w, Created(c, w), Returns)

\* waitHealthy: the engine first checks after an interval, and gives up after
\* all the tries.
WaitDeadline(c) == Greatest(c.start + Least(c.interval, PollCeil) * (c.retries + 1), 60)

WaitHealthy(c, w) ==
    LET limit == Least(WaitDeadline(c), OpTimeout)
        after == IF w.sound THEN c.interval ELSE c.start + c.interval * c.retries
    IN IF c.interval = 0 THEN Done(w)
       ELSE IF after > limit THEN Ends("error", [w EXCEPT !.health = "starting"])
       ELSE IF w.sound THEN Done([w EXCEPT !.health = "healthy"])
       ELSE Ends("error", [w EXCEPT !.health = "unhealthy"])

Starting(c, w) ==
    [w EXCEPT !.running = TRUE, !.health = IF c.interval = 0 THEN "none" ELSE "starting"]

StartContainer(c, w) == Call(w, Starting(c, w), LAMBDA u : WaitHealthy(c, u))

\* A container that differs is replaced.
ExecuteContainer(c, w) ==
    LET Gone(u)  == Then(StopContainer(u), RemoveContainer)
        Ready(u) == IF c.state = "running" THEN StartContainer(c, u) ELSE Done(u)
        Make(u)  == Then(CreateContainer(c, u), Ready)
    IN Ask(w, LAMBDA u :
        CASE c.state = "absent" -> IF Seen(u) THEN Then(Gone(u), Done) ELSE Ends("unchanged", u)
          [] c.state # "absent" /\ ~Seen(u) -> Make(u)
          [] c.state # "absent" /\ Seen(u) /\ ConfigDrift(c, u) -> Then(Gone(u), Make)
          [] OTHER -> IF u.running = (c.state = "running") THEN Ends("unchanged", u)
                      ELSE IF u.running THEN Then(StopContainer(u), Done)
                      ELSE StartContainer(c, u))

ContainerConfig ==
    [kind: {"container"}, state: {"running", "stopped", "absent"}, image: Value,
     env: SUBSET Value, mount: BOOLEAN, namesake: BOOLEAN, interval: Nat, retries: Nat, start: Nat]

ContainerWorld ==
    [fault: BOOLEAN, daemon: BOOLEAN, there: BOOLEAN, image: Value, env: SUBSET Value,
     running: BOOLEAN, health: Value, namesake: BOOLEAN, born: Nat, source: Value, sound: BOOLEAN]

ContainerDesired(c, w) ==
    IF c.state = "absent" THEN ~w.there
    ELSE /\ w.there /\ w.image = c.image /\ c.env \subseteq w.env
         /\ w.running = (c.state = "running")
         /\ w.running /\ c.interval > 0 => w.health = "healthy"

ContainerFeasible(c, w) ==
    w.daemon /\ (c.interval > 0 => w.sound) /\ (c.mount => w.source = "dir")

\* An engine that does not answer; something else of the container's name; a
\* health check slower than the op's timeout.
ContainerStuck(c, w) ==
    \/ ~w.daemon
    \/ w.namesake /\ ~w.there
    \/ c.state = "running" /\ c.interval > OpTimeout

\* An engine that does not answer has no container; the health of one that runs
\* is not asked for again.
ContainerUnseen(c, w) ==
    IF c.state = "absent" THEN w.there /\ ~w.daemon
    ELSE /\ c.state = "running" /\ w.there /\ w.running
         /\ w.image = c.image /\ c.env \subseteq w.env
         /\ c.interval > 0 /\ w.health # "healthy"
=============================================================================

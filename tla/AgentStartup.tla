---------------------------- MODULE AgentStartup ----------------------------
(***************************************************************************)
(* Who runs the Agent of a data root.  Launchers (the desktop shell, the   *)
(* older console launcher) find a running Agent, start one, stop it, or    *)
(* hold its lifetime lock during a desktop update; a user may also start   *)
(* an Agent by hand.  Two files of the data root arbitrate between the     *)
(* processes: agent.lock, owned by the Agent for its lifetime, and         *)
(* agent-bootstrap.lock, owned by the Launcher that is starting one.       *)
(*                                                                         *)
(* Every Agent is an instance with a port of its own, so a probe reaches   *)
(* the instance whose discovery record is published and that still         *)
(* listens.  A request that is not answered in time is a mishap.           *)
(***************************************************************************)
EXTENDS Integers, FiniteSets

CONSTANTS
    None,       \* no holder, no instance
    Launchers,  \* Launcher processes
    Callers,    \* requests in flight in Launchers
    Home,       \* the Launcher of a caller
    Builds,     \* generations of the Agent program
    Build,      \* the generation installed with a Launcher
    MaxAgents,  \* bound: Agent processes
    MaxCalls,   \* bound: requests
    MaxMishaps  \* bound: crashes, timeouts, exits of a Launcher, stops by hand

ASSUME StartupAssumptions ==
    /\ Home \in [Callers -> Launchers] /\ Build \in [Launchers -> Builds]
    /\ MaxAgents \in Nat /\ MaxCalls \in Nat /\ MaxMishaps \in Nat
    /\ Callers \cap Launchers = {}
    /\ (Callers \cup Launchers) \cap Int = {}
    /\ None \notin Int \cup Callers \cup Launchers

VARIABLES
    agent,      \* the Agent processes
    lock,       \* holder of agent.lock
    bootstrap,  \* holder of agent-bootstrap.lock
    credential, \* the instance agent-credential.json is for
    operation,  \* per Launcher, holder of its operation mutex
    child,      \* per Launcher, the Agent it spawned and still owns
    call,       \* per caller, where its request is, and the last answer
    calls, mishaps

locks == <<lock, bootstrap, operation>>
vars == <<agent, lock, bootstrap, credential, operation, child, call, calls, mishaps>>

Agents == 1 .. MaxAgents
\* What a process that owns the data root is doing.
Owning == {"locked", "starting", "serving", "draining"}
Processes == [at : {"unborn", "boot", "gone"} \cup Owning, build : Builds \cup {None}]
Wants == {"start", "stop", "restart", "update"}
Places == {"idle", "first", "startLock", "second", "bootstrap", "third", "waitLock", "holdLock",
           "fourth", "spawn", "await", "awaitChild", "stopLock", "stopProbe", "post", "poll",
           "updateProbe", "updatePost", "updateWait", "updateHold"}
Answers == {"none", "failed", "running", "started", "stopped", "ready"}
Calls == [at : Places, want : Wants, seen : Agents \cup {None}, owned : Agents \cup {None},
          mine : Agents \cup {None}, answer : Answers, with : Agents \cup {None}]

Alive(a) == agent[a].at \notin {"unborn", "gone"}
Serving(a) == agent[a].at = "serving"
ChildAlive(l) == child[l] # None /\ Alive(child[l])
Fresh(c, a) == agent[a].build = Build[Home[c]]

Resting == [at |-> "idle", want |-> "start", seen |-> None, owned |-> None, mine |-> None,
            answer |-> "none", with |-> None]

Init ==
    /\ agent = [a \in Agents |-> [at |-> "unborn", build |-> None]]
    /\ lock = None /\ bootstrap = None /\ credential = None
    /\ operation = [l \in Launchers |-> None]
    /\ child = [l \in Launchers |-> None]
    /\ call = [c \in Callers |-> Resting]
    /\ calls = 0 /\ mishaps = 0

Mishap == mishaps < MaxMishaps /\ mishaps' = mishaps + 1
\* A probe that finds no Agent: none serves, or the one that does is too slow.
NoAnswer == ((~\E a \in Agents : Serving(a)) /\ UNCHANGED mishaps) \/ Mishap

Born(build) ==
    \E a \in Agents :
        /\ agent[a].at = "unborn" /\ \A b \in 1 .. (a - 1) : agent[b].at # "unborn"
        /\ agent' = [agent EXCEPT ![a] = [at |-> "boot", build |-> build]]

\* A process ends: the operating system drops its lock.
Ends(a) ==
    /\ agent' = [agent EXCEPT ![a].at = "gone"]
    /\ lock' = IF lock = a THEN None ELSE lock
-----------------------------------------------------------------------------
(* The Agent process: run_with_instance_id. *)

UserStarts ==
    /\ \E b \in Builds : Born(b)
    /\ UNCHANGED <<locks, credential, child, call, calls, mishaps>>

\* Mutant of AgentDrains: the lock is dropped with the listener, before the Harness is stopped.
AgentDrainsUnlocked(a) ==
    /\ agent[a].at = "draining" /\ lock = a
    /\ lock' = None
    /\ UNCHANGED <<agent, bootstrap, credential, operation, child, call, calls, mishaps>>

\* Mutant of AgentLocks: the credential is published before the lock is tried.
AgentLocksLate(a) ==
    /\ agent[a].at = "boot"
    /\ \/ lock = None /\ lock' = a /\ agent' = [agent EXCEPT ![a].at = "locked"]
       \/ lock # None /\ Ends(a)
    /\ credential' = a
    /\ UNCHANGED <<bootstrap, operation, child, call, calls, mishaps>>

\* acquire_runtime_lock: the process that finds the lock taken exits.
AgentLocks(a) ==
    /\ agent[a].at = "boot"
    /\ \/ /\ lock = None
          /\ lock' = a /\ agent' = [agent EXCEPT ![a].at = "locked"]
       \/ /\ lock # None
          /\ Ends(a)
    /\ UNCHANGED <<bootstrap, credential, operation, child, call, calls, mishaps>>

AgentPublishes(a) ==
    /\ agent[a].at = "locked"
    /\ credential' = a
    /\ agent' = [agent EXCEPT ![a].at = "starting"]
    /\ UNCHANGED <<locks, child, call, calls, mishaps>>

\* Stores recover or the Agent becomes read-only; then it listens and publishes its port.
AgentServes(a) ==
    /\ agent[a].at = "starting"
    /\ agent' = [agent EXCEPT ![a].at = "serving"]
    /\ UNCHANGED <<locks, credential, child, call, calls, mishaps>>

\* After the last request the supervisor stops the Harness; the lock is held until then.
AgentDrains(a) ==
    /\ agent[a].at = "draining"
    /\ Ends(a)
    /\ UNCHANGED <<bootstrap, credential, operation, child, call, calls, mishaps>>

AgentFails(a) ==
    /\ Alive(a) /\ Ends(a) /\ Mishap
    /\ UNCHANGED <<bootstrap, credential, operation, child, call, calls>>

UserStops(a) ==
    /\ Serving(a) /\ Mishap
    /\ agent' = [agent EXCEPT ![a].at = "draining"]
    /\ UNCHANGED <<locks, credential, child, call, calls>>
-----------------------------------------------------------------------------
(* Requests of a Launcher. *)

Goto(c, place) == call' = [call EXCEPT ![c].at = place]

Ask(c, want) ==
    /\ call[c].at = "idle" /\ calls < MaxCalls
    /\ calls' = calls + 1
    /\ call' = [call EXCEPT ![c] = [Resting EXCEPT !.want = want,
                   !.at = CASE want = "start" -> "first"
                            [] want = "update" -> "updateProbe"
                            [] OTHER -> "stopLock"]]
    /\ UNCHANGED <<agent, locks, credential, child, mishaps>>

\* The request returns, and its guards drop.
Leaves(c) ==
    /\ operation' = [l \in Launchers |-> IF operation[l] = c THEN None ELSE operation[l]]
    /\ bootstrap' = IF bootstrap = c THEN None ELSE bootstrap
Answer(c, what, who) ==
    /\ call' = [call EXCEPT ![c] = [Resting EXCEPT !.answer = what, !.with = who]]
    /\ Leaves(c)

\* start: the probe before the operation mutex.  Another generation is stopped first.
FirstProbe(c) ==
    /\ call[c].at = "first"
    /\ \/ \E a \in Agents : Serving(a) /\ Fresh(c, a) /\ Answer(c, "running", a) /\ UNCHANGED mishaps
       \/ /\ \E a \in Agents : Serving(a) /\ ~Fresh(c, a)
          /\ Goto(c, "stopLock") /\ UNCHANGED <<operation, bootstrap, mishaps>>
       \/ NoAnswer /\ Goto(c, "startLock") /\ UNCHANGED <<operation, bootstrap>>
    /\ UNCHANGED <<agent, lock, credential, child, calls>>

TakeOperation(c) ==
    /\ call[c].at \in {"startLock", "stopLock"}
    /\ operation[Home[c]] = None
    /\ operation' = [operation EXCEPT ![Home[c]] = c]
    /\ Goto(c, IF call[c].at = "startLock" THEN "second" ELSE "stopProbe")
    /\ UNCHANGED <<agent, lock, bootstrap, credential, child, calls, mishaps>>

\* The probes after the mutex, after the bootstrap lock, and after the lifetime lock was free.
ProbeAgain(c) ==
    /\ call[c].at \in {"second", "third", "fourth"}
    /\ \/ \E a \in Agents :
             /\ Serving(a)
             /\ IF Fresh(c, a) THEN Answer(c, "running", a) ELSE Answer(c, "failed", None)
             /\ UNCHANGED mishaps
       \/ /\ NoAnswer
          /\ Goto(c, CASE call[c].at = "second" -> "bootstrap"
                       [] call[c].at = "third" /\ ChildAlive(Home[c]) -> "awaitChild"
                       [] call[c].at = "third" /\ ~ChildAlive(Home[c]) -> "waitLock"
                       [] OTHER -> "spawn")
          /\ UNCHANGED <<operation, bootstrap>>
    /\ UNCHANGED <<agent, lock, credential, child, calls>>

TakeBootstrap(c) ==
    /\ call[c].at = "bootstrap"
    /\ \/ /\ bootstrap = None
          /\ bootstrap' = c /\ Goto(c, "third") /\ UNCHANGED operation
       \/ bootstrap # None /\ Answer(c, "failed", None)
    /\ UNCHANGED <<agent, lock, credential, child, calls, mishaps>>

\* ensure_runtime_lock_available takes the lock and drops it; it gives up at its deadline.
ProbeLock(c) ==
    /\ call[c].at = "waitLock"
    /\ \/ lock = None /\ lock' = c /\ Goto(c, "holdLock") /\ UNCHANGED <<operation, bootstrap>>
       \/ lock # None /\ Answer(c, "failed", None) /\ UNCHANGED lock
    /\ UNCHANGED <<agent, credential, child, calls, mishaps>>

DropLock(c) ==
    /\ call[c].at = "holdLock"
    /\ lock' = None /\ Goto(c, "fourth")
    /\ UNCHANGED <<agent, bootstrap, credential, operation, child, calls, mishaps>>

Spawn(c) ==
    /\ call[c].at = "spawn"
    /\ \/ /\ Born(Build[Home[c]])
          /\ \E a \in Agents :
                /\ agent'[a] # agent[a]
                /\ child' = [child EXCEPT ![Home[c]] = a]
                /\ call' = [call EXCEPT ![c] = [call[c] EXCEPT !.at = "await", !.mine = a]]
          /\ UNCHANGED <<operation, bootstrap>>
       \/ Answer(c, "failed", None) /\ UNCHANGED <<agent, child>>
    /\ UNCHANGED <<lock, credential, calls, mishaps>>

\* terminate_owned_child
KillChild(l) ==
    child' = [child EXCEPT ![l] = None] /\ Ends(child[l])

\* Mutant of Await: any healthy instance is taken for the spawned one.
AwaitAnybody(c) ==
    /\ call[c].at = "await"
    /\ \/ /\ \E a \in Agents : Serving(a) /\ Fresh(c, a) /\ Answer(c, "started", a)
          /\ UNCHANGED <<agent, lock, child>>
       \/ KillChild(Home[c]) /\ Answer(c, "failed", None)
    /\ UNCHANGED <<credential, calls, mishaps>>

\* wait_for_health_with_instance: the spawned instance answers, or the deadline passes.
Await(c) ==
    /\ call[c].at = "await"
    /\ \/ /\ \E a \in Agents : Serving(a) /\ a = call[c].mine /\ Fresh(c, a)
                               /\ Answer(c, "started", a)
          /\ UNCHANGED <<agent, lock, child>>
       \/ KillChild(Home[c]) /\ Answer(c, "failed", None)
    /\ UNCHANGED <<credential, calls, mishaps>>

\* A child of an earlier request is still alive: any instance will do, nothing is killed.
AwaitChild(c) ==
    /\ call[c].at = "awaitChild"
    /\ \/ \E a \in Agents : Serving(a) /\ Fresh(c, a) /\ Answer(c, "started", a)
       \/ Answer(c, "failed", None)
    /\ UNCHANGED <<agent, lock, credential, child, calls, mishaps>>

\* stop returns Ok: the request ends, or goes on to start.
Stopped(c) ==
    IF call[c].want = "stop" THEN Answer(c, "stopped", None)
    ELSE /\ call' = [call EXCEPT ![c] = [Resting EXCEPT !.want = call[c].want,
                        !.at = IF call[c].want = "restart" THEN "first" ELSE "startLock"]]
         /\ Leaves(c)

\* owned_child, read before the probe
Owned(c) == IF ChildAlive(Home[c]) THEN child[Home[c]] ELSE None

StopProbe(c) ==
    /\ call[c].at = "stopProbe"
    /\ \/ /\ \E a \in Agents :
                /\ Serving(a)
                /\ call' = [call EXCEPT ![c] = [call[c] EXCEPT !.at = "post", !.seen = a, !.owned = Owned(c)]]
          /\ UNCHANGED <<operation, bootstrap, mishaps>>
       \/ NoAnswer /\ IF ChildAlive(Home[c]) THEN Answer(c, "failed", None) ELSE Stopped(c)
    /\ UNCHANGED <<agent, lock, credential, child, calls>>

\* The request names the instance; an Agent of another one, or without the credential, refuses.
Accepts(a, instance) == Serving(a) /\ a = instance /\ credential = instance
Drains(a) == agent' = [agent EXCEPT ![a].at = "draining"]

\* /v1/shutdown, or shutdown_if_idle, which a busy Agent refuses.  The reply may be late.
Post(c) ==
    /\ call[c].at \in {"post", "updatePost"}
    /\ \/ /\ \E a \in Agents : Accepts(a, call[c].seen) /\ Drains(a)
          /\ Goto(c, IF call[c].at = "post" THEN "poll" ELSE "updateWait")
          /\ UNCHANGED <<operation, bootstrap, mishaps>>
       \/ /\ (\E a \in Agents : Accepts(a, call[c].seen)) => call[c].at = "updatePost"
          /\ Answer(c, "failed", None) /\ UNCHANGED <<agent, mishaps>>
       \/ /\ Mishap
          /\ UNCHANGED agent \/ \E a \in Agents : Accepts(a, call[c].seen) /\ Drains(a)
          /\ Answer(c, "failed", None)
    /\ UNCHANGED <<lock, credential, child, calls>>

\* Mutant of Poll: an Agent that answers no more counts as stopped, a child as well.
PollListenerOnly(c) ==
    /\ call[c].at = "poll"
    /\ \/ ~Serving(call[c].seen) /\ Stopped(c) /\ UNCHANGED <<agent, lock, child>>
       \/ /\ call[c].owned # None
          /\ KillChild(Home[c]) /\ Answer(c, "failed", None)
    /\ UNCHANGED <<credential, calls, mishaps>>

\* A child of this Launcher must exit; of another Agent it is enough that it answers no more.
Poll(c) ==
    /\ call[c].at = "poll"
    /\ \/ /\ IF call[c].owned # None THEN ~Alive(call[c].owned) ELSE ~Serving(call[c].seen)
          /\ Stopped(c) /\ UNCHANGED <<agent, lock, child>>
       \/ /\ \E a \in Agents : Serving(a) /\ a # call[c].seen
          /\ Answer(c, "failed", None) /\ UNCHANGED <<agent, lock, child>>
       \/ /\ call[c].owned # None
          /\ KillChild(Home[c]) /\ Answer(c, "failed", None)
    /\ UNCHANGED <<credential, calls, mishaps>>

\* prepare_update
UpdateProbe(c) ==
    /\ call[c].at = "updateProbe"
    /\ \/ \E a \in Agents :
             /\ Serving(a) /\ UNCHANGED mishaps
             /\ IF Fresh(c, a) THEN /\ call' = [call EXCEPT ![c] = [call[c] EXCEPT !.at = "updatePost", !.seen = a]]
                                    /\ UNCHANGED <<operation, bootstrap>>
                ELSE Answer(c, "failed", None)
       \/ NoAnswer /\ Goto(c, "updateWait") /\ UNCHANGED <<operation, bootstrap>>
    /\ UNCHANGED <<agent, lock, credential, child, calls>>

UpdateWait(c) ==
    /\ call[c].at = "updateWait"
    /\ \/ /\ NoAnswer /\ lock = None
          /\ lock' = Home[c] /\ Goto(c, "updateHold") /\ UNCHANGED <<operation, bootstrap>>
       \/ Answer(c, "failed", None) /\ UNCHANGED <<lock, mishaps>>
    /\ UNCHANGED <<agent, credential, child, calls>>

\* The lock is kept for the installer only when the own child is gone as well.
UpdateHold(c) ==
    /\ call[c].at = "updateHold"
    /\ IF ChildAlive(Home[c])
       THEN lock' = None /\ Goto(c, "updateWait") /\ UNCHANGED <<operation, bootstrap>>
       ELSE Answer(c, "ready", None) /\ UNCHANGED lock
    /\ UNCHANGED <<agent, credential, child, calls, mishaps>>

CancelUpdate(l) ==
    /\ lock = l /\ \A c \in Callers : Home[c] = l => call[c].at # "updateHold"
    /\ lock' = None
    /\ UNCHANGED <<agent, bootstrap, credential, operation, child, call, calls, mishaps>>

\* A Launcher process ends; the Agent it spawned does not.
LauncherExits(l) ==
    LET own == {c \in Callers : Home[c] = l}
        dropped(h) == IF h \in own \cup {l} THEN None ELSE h
    IN /\ Mishap
       /\ call' = [c \in Callers |-> IF c \in own THEN Resting ELSE call[c]]
       /\ operation' = [operation EXCEPT ![l] = None]
       /\ bootstrap' = dropped(bootstrap) /\ lock' = dropped(lock)
       /\ child' = [child EXCEPT ![l] = None]
       /\ UNCHANGED <<agent, credential, calls>>
-----------------------------------------------------------------------------
AgentNext ==
    \/ UserStarts
    \/ \E a \in Agents : \/ AgentLocks(a) \/ AgentPublishes(a) \/ AgentServes(a)
                         \/ AgentDrains(a) \/ AgentFails(a) \/ UserStops(a)

CallerNext(c) ==
    \/ \E want \in Wants : Ask(c, want)
    \/ FirstProbe(c) \/ TakeOperation(c) \/ ProbeAgain(c) \/ TakeBootstrap(c)
    \/ ProbeLock(c) \/ DropLock(c) \/ Spawn(c) \/ Await(c) \/ AwaitChild(c)
    \/ StopProbe(c) \/ Post(c) \/ Poll(c)
    \/ UpdateProbe(c) \/ UpdateWait(c) \/ UpdateHold(c)

Next ==
    \/ AgentNext
    \/ \E c \in Callers : CallerNext(c)
    \/ \E l \in Launchers : CancelUpdate(l) \/ LauncherExits(l)

Spec == Init /\ [][Next]_vars
-----------------------------------------------------------------------------
TypeOK ==
    /\ agent \in [Agents -> Processes]
    /\ lock \in Agents \cup Callers \cup Launchers \cup {None}
    /\ bootstrap \in Callers \cup {None}
    /\ credential \in Agents \cup {None}
    /\ operation \in [Launchers -> Callers \cup {None}]
    /\ child \in [Launchers -> Agents \cup {None}]
    /\ call \in [Callers -> Calls]
    /\ calls \in 0 .. MaxCalls /\ mishaps \in 0 .. MaxMishaps

\* One process at a time owns the data root, for as long as it drains its Harness; while a
\* desktop update holds the root, none does.
OneOwner ==
    /\ \A a, b \in Agents : agent[a].at \in Owning /\ agent[b].at \in Owning => a = b
    /\ lock \in Launchers => \A a \in Agents : agent[a].at \notin Owning

\* A client can authorise itself to the Agent that serves: the credential file is that
\* instance's, whatever other processes were started and refused meanwhile.
ServerIsAuthorised == \A a \in Agents : Serving(a) => credential = a

\* While a Launcher waits for the Agent it spawned, no other start takes the lifetime lock to
\* look whether it is free: the child cannot lose its root to a probe.
BootIsUndisturbed == (\E c \in Callers : call[c].at = "await") => lock \notin Callers

Returns(c) == call[c].at # "idle" /\ call'[c].at = "idle"

\* start answers with an Agent of the installed generation that serves, and, when it spawned
\* one, with that one and no other.
StartAnswersHonestly ==
    [][\A c \in Callers : Returns(c) /\ call'[c].answer \in {"running", "started"} =>
          LET a == call'[c].with IN
          /\ Serving(a) /\ Fresh(c, a)
          /\ call[c].mine # None => a = call[c].mine]_vars

\* stop counts an Agent as stopped, or goes on to start another, only when the Launcher has no
\* live child: an Agent that stopped listening may still be stopping its Harness.
StopLeavesNoChild ==
    [][\A c \in Callers :
          /\ call[c].at \in {"stopProbe", "poll"}
          /\ \/ call'[c].at \in {"first", "startLock"}
             \/ Returns(c) /\ call'[c].answer = "stopped"
          => ~ChildAlive(Home[c])]_vars

\* A start that finds an Agent of another generation stops that one, and never an Agent of
\* its own generation that somebody started meanwhile.
FreshAgentIsKept ==
    [][\A a \in Agents, c \in Callers :
          /\ Serving(a) /\ agent'[a].at = "draining"
          /\ call[c].at = "post" /\ call'[c].at = "poll" /\ call[c].want = "start"
          => ~Fresh(c, a)]_vars
=============================================================================

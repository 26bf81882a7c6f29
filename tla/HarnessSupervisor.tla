--------------------------- MODULE HarnessSupervisor ---------------------------
(***************************************************************************)
(* The Harness process supervisor of the Nexus Agent                       *)
(* (crates/nexus-agent/src/supervisor.rs).                                 *)
(*                                                                         *)
(* One Agent at a time owns at most one Harness launch.  The Agent keeps   *)
(* its view in SupervisorInner, guarded by one mutex: every action below   *)
(* is one critical section of that mutex, so the awaits between two        *)
(* sections are where the other actions interleave.  Detached tokio tasks  *)
(* (the start owner, process monitor, recovery task, readiness monitors,   *)
(* stop and start-failure owners) outlive the request that spawned them;   *)
(* each re-validates generation and epoch tokens when it takes the lock.   *)
(*                                                                         *)
(* inner.generation always equals log_session.generation and the durable   *)
(* marker is written before the copy in memory under the same lock, so     *)
(* `session' stands for all three.  Deadlines are choices: a task with a   *)
(* deadline may always find that it has passed.                            *)
(***************************************************************************)
EXTENDS Integers, FiniteSets

CONSTANTS
    Windows,        \* TRUE: Job objects; FALSE: Unix process groups
    ReadinessKinds, \* readiness contracts the configuration may hold
    Mishaps,        \* kinds of failure the environment may inject
    MaxLaunches,    \* bound on process launches
    MaxMishaps      \* bound on injected failures, gaps and crashes together

AllReadiness == {"off", "plain", "token"}

MishapKinds ==
    {"crash", "cancel", "gap", "persist", "clear", "rotate", "kill",
     "drain", "terminate", "poll", "spawn", "prepare", "context"}

ASSUME ConstantsAssumption ==
    /\ Windows \in BOOLEAN
    /\ ReadinessKinds \subseteq AllReadiness
    /\ ReadinessKinds # {}
    /\ Mishaps \subseteq MishapKinds
    /\ MaxLaunches \in Nat \ {0}
    /\ MaxMishaps \in Nat

Launches == 1..MaxLaunches

VARIABLES
    leader,    \* leader[l]: the process spawned by launch l
    desc,      \* desc[l]: launch l has a live descendant in its Job or group
    launches,  \* number of processes spawned so far
    token,     \* generation current when the newest UI token was logged
    session,   \* durable HarnessLogSession: generation, launch_pending, log owner
    saved,     \* durable harness state of RuntimeMetadataStore
    up,        \* the Agent process is alive
    inner,     \* SupervisorInner
    starter,   \* task of spawn_start_readiness
    reapers,   \* tasks finish_stop and fail_start that own a taken child
    monitor,   \* generation of the live spawn_monitor task, or 0
    recoverer, \* task of spawn_recovery
    attMon,    \* generation of the live attached readiness monitor, or 0
    unMon,     \* generation of the live unattached monitor, or 0
    dirty,     \* a persist_if_current of the current observation is due
    request,   \* lifecycle request that holds the lifecycle mutex
    mishaps    \* number of injected mishaps so far

osVars   == <<leader, desc, launches, token>>
diskVars == <<session, saved>>
memVars  == <<up, inner>>
taskVars == <<starter, reapers, monitor, recoverer, attMon, unMon, dirty, request>>
vars     == <<osVars, diskVars, memVars, taskVars, mishaps>>

-------------------------------------------------------------------------------
States == {"Detached", "Starting", "Running", "Stopped", "Failed"}

NoOwner    == [kind |-> "none", gen |-> 0, epoch |-> 0]
NoAttached == [gen |-> 0, epoch |-> 0, recovering |-> FALSE]
NoTask     == [gen |-> 0, epoch |-> 0]
NoStarter  == [pc |-> "none", gen |-> 0, epoch |-> 0]

Owner(k, g, e) == [kind |-> k, gen |-> g, epoch |-> e]

\* SupervisorInner as with_graceful_wait builds it around a runtime state.
FreshInner(st) ==
    [child |-> 0, job |-> 0, st |-> st, pid |-> 0, epoch |-> 0,
     stop_pending |-> FALSE, start_ownership_pending |-> FALSE,
     readiness |-> "off", recovery |-> 0, owner |-> NoOwner,
     attached |-> NoAttached, unattached_monitor_started |-> FALSE]

Alive(l) == leader[l] = "live" \/ desc[l]

Gen == session.gen

\* A mishap consumes the shared budget; every other step leaves it alone.
Mishap(k) == k \in Mishaps /\ mishaps < MaxMishaps /\ mishaps' = mishaps + 1
Smooth == UNCHANGED mishaps

-------------------------------------------------------------------------------
(* Effects shared by several critical sections.                            *)

\* failed_runtime keeps the pid of the previous observation.
Failed(i) == [i EXCEPT !.st = "Failed"]
FailedNoPid(i) == [i EXCEPT !.st = "Failed", !.pid = 0]

\* rotate_unattached_session: a new durable log boundary, launch_pending set.
Rotate == session' = [session EXCEPT !.gen = @ + 1, !.pending = TRUE]

\* clear_launch_pending, and the callers that carry on when it fails
ClearPending == session' = [session EXCEPT !.pending = FALSE]
TryClearPending ==
    \/ ClearPending /\ Smooth
    \/ Mishap("clear") /\ UNCHANGED session

\* recovery_runtime, RecoveryState and the task pending_recovery arms for it.
\* Every caller runs pending_recovery in the same critical section, and never
\* with a Start owner of the same generation.
BeginRecovery(i, g) ==
    [i EXCEPT !.st = "Starting", !.pid = 0, !.recovery = g,
              !.epoch = @ + 1, !.owner = Owner("recovery", g, i.epoch + 1)]

ArmRecovererStale(i, g) ==   \* mutant: the epoch is read before it advances
    recoverer' = [gen |-> g, epoch |-> i.epoch]

ArmRecoverer(i, g) == recoverer' = [gen |-> g, epoch |-> i.epoch + 1]

\* try_wait sees the exit: Unix signals the whole group before it reaps the
\* leader, Windows leaves descendants to the Job.
LeaderSignalled(l) == desc   \* mutant: the group is not signalled

GroupSignalled(l) == IF Windows THEN desc ELSE [desc EXCEPT ![l] = FALSE]

Reap(l) == leader[l] = "exited" /\ leader' = [leader EXCEPT ![l] = "reaped"]

\* mutant: only the leader is killed
KillLeader(l) ==
    /\ leader' = [leader EXCEPT ![l] = "reaped"]
    /\ UNCHANGED <<desc, launches, token>>

\* kill and wait, then (on Windows) terminate and drain the Job.
KillTree(l) ==
    /\ leader' = [leader EXCEPT ![l] = "reaped"]
    /\ desc' = [desc EXCEPT ![l] = FALSE]
    /\ UNCHANGED <<launches, token>>

Sessions == [gen: Nat, pending: BOOLEAN, log: 0..MaxLaunches]
Epochs == [gen: Nat, epoch: Nat]
Starters == [pc: {"none", "gate", "go", "abort", "wait"}, gen: Nat, epoch: Nat]
AttachedStates == [gen: Nat, epoch: Nat, recovering: BOOLEAN]
Owners == [kind: {"none", "start", "recovery"}, gen: Nat, epoch: Nat]

SupervisorInner ==
    [child: 0..MaxLaunches, job: 0..MaxLaunches, st: States, pid: 0..MaxLaunches,
     epoch: Nat, stop_pending: BOOLEAN, start_ownership_pending: BOOLEAN,
     readiness: AllReadiness, recovery: Nat, owner: Owners,
     attached: AttachedStates, unattached_monitor_started: BOOLEAN]

Reapers ==
    [kind: {"stop", "fail"}, launch: 0..MaxLaunches, gen: Nat, epoch: Nat,
     readiness: AllReadiness, attached: AttachedStates]

TypeOK ==
    /\ leader \in [Launches -> {"none", "live", "exited", "reaped"}]
    /\ desc \in [Launches -> BOOLEAN]
    /\ launches \in 0..MaxLaunches
    /\ token \in Nat
    /\ session \in Sessions
    /\ saved \in States
    /\ up \in BOOLEAN
    /\ inner \in SupervisorInner
    /\ starter \in Starters
    /\ reapers \subseteq Reapers
    /\ monitor \in Nat
    /\ recoverer \in Epochs
    /\ attMon \in Nat
    /\ unMon \in Nat
    /\ dirty \in BOOLEAN
    /\ request \in {"none", "starting", "aborting", "stopping"}
    /\ mishaps \in Nat

Init ==
    /\ leader = [l \in Launches |-> "none"]
    /\ desc = [l \in Launches |-> FALSE]
    /\ launches = 0
    /\ token = 0
    /\ session = [gen |-> 0, pending |-> FALSE, log |-> 0]
    /\ saved = "Detached"
    /\ up = FALSE
    /\ inner = FreshInner("Detached")
    /\ starter = NoStarter
    /\ reapers = {}
    /\ monitor = 0
    /\ recoverer = NoTask
    /\ attMon = 0
    /\ unMon = 0
    /\ dirty = FALSE
    /\ request = "none"
    /\ mishaps = 0

-------------------------------------------------------------------------------
(* Processes and the log they write.                                       *)

LeaderExits(l) ==
    /\ leader[l] = "live"
    /\ leader' = [leader EXCEPT ![l] = "exited"]
    /\ UNCHANGED <<desc, launches, token, diskVars, memVars, taskVars>>
    /\ Smooth

\* The bootstrap parent hands the listener to a long-lived descendant.
LeaderForks(l) ==
    /\ leader[l] = "live" /\ ~desc[l]
    /\ desc' = [desc EXCEPT ![l] = TRUE]
    /\ UNCHANGED <<leader, launches, token, diskVars, memVars, taskVars>>
    /\ Smooth

DescExits(l) ==
    /\ desc[l]
    /\ desc' = [desc EXCEPT ![l] = FALSE]
    /\ UNCHANGED <<leader, launches, token, diskVars, memVars, taskVars>>
    /\ Smooth

\* A process prints its UI address and token to the log of its own launch.
\* Only the launch whose files the session names is read back.
EmitToken ==
    /\ "token" \in ReadinessKinds
    /\ session.log # 0 /\ Alive(session.log) /\ token # Gen
    /\ token' = Gen
    /\ UNCHANGED <<leader, desc, launches, diskVars, memVars, taskVars>>
    /\ Smooth

\* readiness_evidence_matches_owner: a token logged after the boundary.
AnyEvidence(rd) == rd = "token" => token # 0   \* mutant: any token in the log

Evidence(rd) == rd = "token" => token = Gen

-------------------------------------------------------------------------------
(* Agent start: with_graceful_wait, then recover_unattached.  Requests are *)
(* served only afterwards, so nothing interleaves but a crash.             *)

\* The marker without a terminal proof turns any stale snapshot to Starting.
BootState ==
    IF session.pending /\ saved \notin {"Starting", "Running"}
    THEN "Starting" ELSE saved

BootTerminal ==
    /\ BootState \in {"Detached", "Stopped"}
    /\ inner' = FreshInner(BootState)
    /\ UNCHANGED <<session, recoverer, unMon>>

\* Token-bound readiness fails closed: no process identity survives the Agent.
BootTokenBound ==
    /\ inner' = [FreshInner("Failed") EXCEPT !.readiness = "token"]
    /\ TryClearPending
    /\ UNCHANGED <<recoverer, unMon>>

BootReattach ==
    /\ Rotate
    /\ inner' = [FreshInner("Running") EXCEPT
                   !.readiness = "plain", !.unattached_monitor_started = TRUE]
    /\ unMon' = Gen + 1
    /\ UNCHANGED recoverer

BootReattachFails ==
    /\ inner' = [FreshInner("Failed") EXCEPT !.readiness = "plain"]
    /\ UNCHANGED <<session, recoverer, unMon>>

BootRecovering ==
    /\ session.pending
    /\ inner' = BeginRecovery([FreshInner("Starting") EXCEPT !.readiness = "plain"], Gen)
    /\ ArmRecoverer(FreshInner("Starting"), Gen)
    /\ UNCHANGED <<session, unMon>>

BootAbandoned ==
    /\ session.pending
    /\ inner' = FreshInner("Failed")
    /\ TryClearPending
    /\ UNCHANGED <<recoverer, unMon>>

BootUnattached(rd) ==
    /\ ~session.pending
    /\ inner' = [FreshInner(IF BootState = "Failed" THEN "Failed" ELSE "Stopped")
                   EXCEPT !.readiness = rd]
    /\ UNCHANGED <<session, recoverer, unMon>>

\* The readiness contract is read again, so it may differ from the launch's.
\* The closing write_snapshot makes the observation durable before requests.
Boot ==
    /\ ~up
    /\ up' = TRUE
    /\ \/ BootTerminal /\ Smooth
       \/ /\ BootState \in {"Starting", "Running", "Failed"}
          /\ \E rd \in ReadinessKinds :
               \/ rd = "token" /\ BootTokenBound
               \/ rd = "plain" /\ BootReattach /\ Smooth
               \/ rd = "plain" /\ BootReattachFails /\ Mishap("rotate")
               \/ rd = "plain" /\ BootRecovering /\ Smooth
               \/ rd = "off" /\ BootAbandoned
               \/ rd # "token" /\ BootUnattached(rd) /\ Smooth
    /\ saved' = inner'.st
    /\ UNCHANGED <<osVars, starter, reapers, monitor, attMon, dirty, request>>

\* What the operating system does when the Agent dies: Windows closes the Job
\* handles, which terminates every process in them; Unix processes live on.
AgentDies ==
    /\ up' = FALSE
    /\ inner' = FreshInner("Detached")
    /\ starter' = NoStarter /\ reapers' = {} /\ monitor' = 0
    /\ recoverer' = NoTask /\ attMon' = 0 /\ unMon' = 0
    /\ dirty' = FALSE /\ request' = "none"

JobsLinger(ld) ==   \* mutant: Jobs without kill-on-close
    leader' = ld /\ desc' = desc

JobsClose(ld) ==
    /\ leader' = IF Windows
                 THEN [l \in Launches |-> IF ld[l] = "none" THEN "none" ELSE "reaped"]
                 ELSE ld
    /\ desc' = IF Windows THEN [l \in Launches |-> FALSE] ELSE desc

Crash ==
    /\ up /\ Mishap("crash")
    /\ AgentDies
    /\ JobsClose(leader)
    /\ UNCHANGED <<launches, token, diskVars>>

-------------------------------------------------------------------------------
(* start_with_profile_inner                                                *)

\* The refusals of the spawning section.  A live child keeps launch_pending
\* set, so the branch that polls an existing child is never taken.
MayStart ==
    /\ up /\ request = "none" /\ launches < MaxLaunches
    /\ ~inner.stop_pending /\ ~session.pending
    /\ inner.child = 0 /\ inner.recovery = 0
    /\ inner.st \notin {"Starting", "Running"}

ReservedBackwards(l) ==  \* mutant: the generation moves the wrong way
    [gen |-> Gen - 1, pending |-> TRUE, log |-> l]

Reserved(l) == [gen |-> Gen + 1, pending |-> TRUE, log |-> l]

PreviousJobKept == desc   \* mutant: the previous Job is not ended

\* finish_owned_job: descendants of the previous launch are ended first.
PreviousJobEnded == IF inner.job = 0 THEN desc ELSE [desc EXCEPT ![inner.job] = FALSE]

PreparedInner(rd) ==
    [FreshInner("Starting") EXCEPT !.epoch = inner.epoch, !.readiness = rd]

\* Reserve the launch durably, persist Starting, spawn, take ownership.
Start(rd) ==
    LET l == launches + 1
        e == inner.epoch + 1
    IN  /\ MayStart
        /\ session' = Reserved(l)
        /\ saved' = "Starting"
        /\ launches' = l
        /\ leader' = [leader EXCEPT ![l] = "live"]
        /\ desc' = PreviousJobEnded
        /\ inner' = [PreparedInner(rd) EXCEPT
                       !.child = l, !.pid = l, !.job = IF Windows THEN l ELSE 0,
                       !.epoch = e, !.start_ownership_pending = TRUE,
                       !.owner = Owner("start", Gen + 1, e)]
        /\ starter' = [pc |-> "gate", gen |-> Gen + 1, epoch |-> e]
        /\ request' = "starting"
        /\ dirty' = FALSE
        /\ UNCHANGED <<token, up, reapers, monitor, recoverer, attMon, unMon>>
        /\ Smooth

\* The prepared state cannot be written: the reservation is released, or kept
\* (fail closed) when releasing it fails as well.
StartPrepareFails(rd) ==
    /\ MayStart /\ Mishap("prepare")
    /\ desc' = PreviousJobEnded
    /\ \E kept \in BOOLEAN :
         /\ session' = [Reserved(0) EXCEPT !.pending = kept]
         /\ inner' = IF kept THEN PreparedInner(rd)
                     ELSE Failed([PreparedInner(rd) EXCEPT !.readiness = "off"])
    /\ dirty' = FALSE
    /\ UNCHANGED <<leader, launches, token, saved, up, starter, reapers, monitor,
                   recoverer, attMon, unMon, request>>

StartSpawnFails(rd) ==
    /\ MayStart /\ Mishap("spawn")
    /\ desc' = PreviousJobEnded
    /\ \E kept \in BOOLEAN : session' = [Reserved(0) EXCEPT !.pending = kept]
    /\ inner' = Failed(PreparedInner(rd))
    /\ saved' \in {"Starting", "Failed"}
    /\ dirty' = FALSE
    /\ UNCHANGED <<leader, launches, token, up, starter, reapers, monitor,
                   recoverer, attMon, unMon, request>>

\* desktop_plugins::context fails: the `?' leaves the section with the
\* reservation and the prepared state in place.
StartContextFails(rd) ==
    /\ MayStart /\ Mishap("context")
    /\ desc' = PreviousJobEnded
    /\ session' = Reserved(0)
    /\ inner' = PreparedInner(rd)
    /\ saved' = "Starting"
    /\ dirty' = FALSE
    /\ UNCHANGED <<leader, launches, token, up, starter, reapers, monitor,
                   recoverer, attMon, unMon, request>>

\* The Agent dies inside the section: after the reservation, after the
\* prepared state, or after the process exists.
StartCrashes ==
    LET l == launches + 1
    IN  /\ MayStart /\ Mishap("crash")
        /\ AgentDies
        /\ \/ /\ session' = Reserved(0)
              /\ saved' \in {saved, "Starting"}
              /\ JobsClose(leader)
              /\ UNCHANGED launches
           \/ /\ session' = Reserved(l)
              /\ saved' = "Starting"
              /\ launches' = l
              /\ JobsClose([leader EXCEPT ![l] = "live"])
        /\ UNCHANGED token

\* persist_if_current of the request that spawned the process, then Persisted.
StartPersisted ==
    /\ request = "starting"
    /\ saved' = inner.st
    /\ starter' = [starter EXCEPT !.pc = "go"]
    /\ request' = "none"
    /\ UNCHANGED <<osVars, session, memVars, reapers, monitor, recoverer, attMon,
                   unMon, dirty>>
    /\ Smooth

\* The write fails and the request waits for the Abort it sends, or the caller
\* drops the request and with it the sender.
StartAborted ==
    /\ request = "starting"
    /\ starter' = [starter EXCEPT !.pc = "abort"]
    /\ \/ Mishap("persist") /\ request' = "aborting"
       \/ Mishap("cancel") /\ request' = "none"
    /\ UNCHANGED <<osVars, diskVars, memVars, reapers, monitor, recoverer, attMon,
                   unMon, dirty>>

AbortReturns ==
    /\ request = "aborting"
    /\ starter.pc # "abort" /\ ~\E r \in reapers : r.kind = "fail"
    /\ request' = "none"
    /\ UNCHANGED <<osVars, diskVars, memVars, starter, reapers, monitor, recoverer,
                   attMon, unMon, dirty>>
    /\ Smooth

-------------------------------------------------------------------------------
(* The detached start owner: spawn_start_readiness                         *)

StarterOwner == Owner("start", starter.gen, starter.epoch)

OwnsGeneration == Gen = starter.gen   \* mutant: the owner token is not compared

OwnsStart == Gen = starter.gen /\ inner.owner = StarterOwner

StarterAcceptUnwatched ==   \* mutant: no process monitor is spawned
    /\ starter.pc = "go"
    /\ inner' = [inner EXCEPT !.start_ownership_pending = FALSE]
    /\ starter' = [starter EXCEPT !.pc = "wait"]
    /\ UNCHANGED <<osVars, diskVars, up, reapers, monitor, recoverer, attMon, unMon,
                   dirty, request, mishaps>>

StarterAccept ==
    /\ starter.pc = "go"
    /\ IF OwnsStart /\ inner.start_ownership_pending /\ inner.child # 0
       THEN /\ inner' = [inner EXCEPT !.start_ownership_pending = FALSE]
            /\ monitor' = Gen
            /\ starter' = [starter EXCEPT !.pc = "wait"]
       ELSE /\ starter' = NoStarter
            /\ UNCHANGED <<inner, monitor>>
    /\ UNCHANGED <<osVars, diskVars, up, reapers, recoverer, attMon, unMon, dirty,
                   request>>
    /\ Smooth

StarterStale ==
    /\ starter.pc = "wait" /\ ~OwnsStart
    /\ starter' = NoStarter
    /\ UNCHANGED <<osVars, diskVars, memVars, reapers, monitor, recoverer, attMon,
                   unMon, dirty, request>>
    /\ Smooth

\* The endpoint answers with current evidence: mark_running.
MarkRunning ==
    /\ starter.pc = "wait" /\ OwnsStart /\ Evidence(inner.readiness)
    /\ starter' = NoStarter
    /\ IF inner.child = 0
       THEN UNCHANGED <<inner, attMon, dirty>>
       ELSE /\ dirty' = TRUE
            /\ IF inner.readiness = "off"
               THEN /\ inner' = [inner EXCEPT !.owner = NoOwner, !.st = "Running",
                                              !.attached = NoAttached]
                    /\ UNCHANGED attMon
               ELSE /\ inner' = [inner EXCEPT
                                   !.owner = NoOwner, !.st = "Running",
                                   !.epoch = @ + 1,
                                   !.attached = [gen |-> Gen, epoch |-> inner.epoch + 1,
                                                 recovering |-> FALSE]]
                    /\ attMon' = Gen
    /\ UNCHANGED <<osVars, diskVars, up, reapers, monitor, recoverer, unMon, request>>
    /\ Smooth

\* fail_start, first section: take the child and close every other owner out.
FailStart ==
    /\ \/ starter.pc = "abort"
       \/ starter.pc = "wait" /\ OwnsStart /\ inner.readiness # "off"
    /\ starter' = NoStarter
    /\ IF OwnsStart
       THEN /\ inner' = [inner EXCEPT
                           !.child = 0, !.epoch = @ + 1, !.stop_pending = TRUE,
                           !.start_ownership_pending = FALSE, !.recovery = 0,
                           !.owner = NoOwner, !.attached = NoAttached,
                           !.readiness = "off"]
            /\ reapers' = reapers \cup
                 {[kind |-> "fail", launch |-> inner.child, gen |-> Gen,
                   epoch |-> inner.epoch + 1, readiness |-> inner.readiness,
                   attached |-> NoAttached]}
       ELSE UNCHANGED <<inner, reapers>>
    /\ UNCHANGED <<osVars, diskVars, up, monitor, recoverer, attMon, unMon, dirty,
                   request>>
    /\ Smooth

-------------------------------------------------------------------------------
(* Owners of a taken child: fail_start and finish_stop                     *)

HoldsEarlierEpoch(r) ==   \* mutant: the epoch is captured before it advances
    inner.stop_pending /\ Gen = r.gen /\ inner.epoch = r.epoch - 1

\* The tokens a finishing owner re-validates under the lock.
Holds(r) == inner.stop_pending /\ Gen = r.gen /\ inner.epoch = r.epoch

FailReapers == {r \in reapers : r.kind = "fail" /\ Holds(r)}
StopReapers == {r \in reapers : r.kind = "stop" /\ Holds(r)}

StillStopping(i) == [i EXCEPT !.start_ownership_pending = FALSE]   \* mutant

Released(i) == [i EXCEPT !.stop_pending = FALSE, !.start_ownership_pending = FALSE]

\* The child exited on its own while its start was failing: probe for a
\* process it handed the listener to.  The log boundary is not rotated here.
FailSawExit(r) ==
    /\ r.launch # 0 /\ r.readiness # "off"
    /\ Reap(r.launch) /\ desc' = GroupSignalled(r.launch)
    /\ inner' = BeginRecovery([inner EXCEPT !.stop_pending = FALSE,
                                            !.readiness = r.readiness], Gen)
    /\ ArmRecoverer(inner, Gen)
    /\ reapers' = reapers \ {r}
    /\ dirty' = TRUE
    /\ UNCHANGED <<launches, token, diskVars, up, starter, monitor, attMon, unMon,
                   request>>
    /\ Smooth

\* The tree a finishing owner brings down; a stop whose child is gone still
\* ends the Job.
TreeOf(r) == IF r.launch # 0 THEN r.launch ELSE inner.job

TreeEnds(r) == IF TreeOf(r) = 0 THEN UNCHANGED osVars ELSE KillTree(TreeOf(r))

\* The tree is down: publish the outcome and release the reservation.
ReaperFinishes(r, st) ==
    /\ TreeEnds(r)
    /\ inner' = [Released(inner) EXCEPT !.st = st, !.pid = 0, !.job = 0]
    /\ \/ ClearPending /\ dirty' = TRUE /\ Smooth
       \/ Mishap("clear") /\ dirty' = FALSE /\ UNCHANGED session
    /\ reapers' = reapers \ {r}
    /\ request' = IF r.kind = "stop" /\ request = "stopping" THEN "none" ELSE request
    /\ UNCHANGED <<saved, up, starter, monitor, recoverer, attMon, unMon>>

\* Windows: the Job was terminated but its members outlive the drain deadline;
\* or the terminate call itself fails after the Job was taken.
ReaperDrainFails(r) ==
    /\ Windows /\ TreeOf(r) # 0
    /\ leader' = [leader EXCEPT ![TreeOf(r)] = "reaped"]
    /\ \/ /\ Mishap("drain")
          /\ inner' = [inner EXCEPT !.stop_pending = FALSE, !.job = 0]
          /\ UNCHANGED desc
       \/ /\ Mishap("terminate")
          /\ inner' = [inner EXCEPT !.job = 0]
          /\ desc' = [desc EXCEPT ![TreeOf(r)] = FALSE]
    /\ reapers' = reapers \ {r}
    /\ request' = IF r.kind = "stop" /\ request = "stopping" THEN "none" ELSE request
    /\ UNCHANGED <<launches, token, diskVars, up, starter, monitor, recoverer, attMon,
                   unMon, dirty>>

\* Killing or waiting fails: restore_stop_child hands the child back.
RestoreStopChild(r) ==
    LET e == inner.epoch + 1
        back == [inner EXCEPT !.child = r.launch, !.stop_pending = FALSE,
                              !.readiness = r.readiness]
    IN  /\ r.launch # 0 /\ leader[r.launch] # "reaped" /\ Mishap("kill")
        /\ reapers' = reapers \ {r}
        /\ monitor' = r.gen
        /\ request' = IF r.kind = "stop" /\ request = "stopping" THEN "none" ELSE request
        /\ \/ /\ r.attached # NoAttached /\ r.readiness # "off"
              /\ inner' = [back EXCEPT
                             !.epoch = e,
                             !.attached = [gen |-> r.gen, epoch |-> e,
                                           recovering |-> r.attached.recovering]]
              /\ attMon' = r.gen
              /\ UNCHANGED starter
           \/ /\ r.attached = NoAttached \/ r.readiness = "off"
              /\ IF inner.st = "Starting"
                 THEN /\ inner' = [back EXCEPT
                                     !.epoch = e, !.attached = NoAttached,
                                     !.start_ownership_pending = TRUE,
                                     !.owner = Owner("start", r.gen, e)]
                      /\ starter' = [pc |-> "go", gen |-> r.gen, epoch |-> e]
                 ELSE /\ inner' = [back EXCEPT !.attached = NoAttached]
                      /\ UNCHANGED starter
              /\ UNCHANGED attMon
        /\ UNCHANGED <<osVars, diskVars, up, recoverer, unMon, dirty>>

FinishFail ==
    \E r \in FailReapers :
        FailSawExit(r) \/ ReaperFinishes(r, "Failed")

FinishStop == \E r \in StopReapers : ReaperFinishes(r, "Stopped")

ReaperFaults ==
    \E r \in FailReapers \cup StopReapers : ReaperDrainFails(r) \/ RestoreStopChild(r)

-------------------------------------------------------------------------------
(* stop_inner                                                              *)

StopRequest ==
    /\ up /\ request = "none" /\ inner.child # 0
    /\ inner' = [inner EXCEPT
                    !.child = 0, !.epoch = @ + 1, !.stop_pending = TRUE,
                    !.start_ownership_pending = FALSE, !.recovery = 0,
                    !.owner = NoOwner, !.readiness = "off", !.attached = NoAttached]
    /\ reapers' = reapers \cup
         {[kind |-> "stop", launch |-> inner.child, gen |-> Gen,
           epoch |-> inner.epoch + 1, readiness |-> inner.readiness,
           attached |-> inner.attached]}
    /\ request' = "stopping"
    /\ UNCHANGED <<osVars, diskVars, up, starter, monitor, recoverer, attMon, unMon,
                   dirty>>
    /\ Smooth

\* Windows: descendants of a bootstrap parent that has exited are still in the
\* Job.  Any other stop without a child changes nothing.
StopDescendants ==
    /\ up /\ request = "none"
    /\ inner.child = 0 /\ inner.job # 0 /\ ~inner.stop_pending
    /\ desc' = [desc EXCEPT ![inner.job] = FALSE]
    /\ inner' = [inner EXCEPT
                    !.job = 0, !.epoch = @ + 1, !.start_ownership_pending = FALSE,
                    !.recovery = 0, !.owner = NoOwner, !.readiness = "off",
                    !.attached = NoAttached, !.unattached_monitor_started = FALSE,
                    !.st = "Stopped", !.pid = 0]
    /\ dirty' = FALSE
    /\ \/ ClearPending /\ saved' = "Stopped" /\ Smooth
       \/ ClearPending /\ UNCHANGED saved /\ Mishap("persist")
       \/ UNCHANGED <<session, saved>> /\ Mishap("clear")
    /\ UNCHANGED <<leader, launches, token, up, starter, reapers, monitor, recoverer,
                   attMon, unMon, request>>

\* The caller drops a stop request; its detached owner carries on.
StopCancelled ==
    /\ request = "stopping" /\ Mishap("cancel")
    /\ request' = "none"
    /\ UNCHANGED <<osVars, diskVars, memVars, starter, reapers, monitor, recoverer,
                   attMon, unMon, dirty>>

-------------------------------------------------------------------------------
(* Observing the child: poll_child, called by the process monitor, by status *)
(* requests and by the readiness wait.                                       *)

\* A parent that had a readiness contract may have handed its listener over:
\* rotate the boundary, then probe.  A status request saves what it saw; the
\* process monitor and the readiness wait hand persist_if_current the generation
\* they watched, which is not the current one any more: nothing is written.
ExitedWithReadiness ==
    /\ inner.readiness # "off"
    /\ \/ /\ Rotate /\ Smooth
          /\ dirty' \in BOOLEAN
          /\ inner' = BeginRecovery([inner EXCEPT !.child = 0, !.attached = NoAttached],
                                    Gen + 1)
          /\ ArmRecoverer(inner, Gen + 1)
       \/ /\ Mishap("rotate")
          /\ inner' = FailedNoPid([inner EXCEPT !.child = 0, !.attached = NoAttached,
                                     !.recovery = 0, !.unattached_monitor_started = FALSE])
          /\ dirty' = TRUE
          /\ UNCHANGED <<session, recoverer>>

\* Without one the run is over.  When the release fails poll_child returns
\* early and its caller publishes Failed with the pid of the dead process.
ExitedWithoutReadiness ==
    /\ inner.readiness = "off"
    /\ LET gone == [inner EXCEPT !.child = 0, !.attached = NoAttached]
       IN  \/ ClearPending /\ inner' = FailedNoPid(gone) /\ Smooth
           \/ Mishap("clear") /\ inner' = Failed(gone) /\ UNCHANGED session
    /\ dirty' = TRUE
    /\ UNCHANGED recoverer

ObserveExit ==
    LET l == inner.child
    IN  /\ up /\ l # 0 /\ ~inner.start_ownership_pending
        /\ Reap(l)
        /\ desc' = IF inner.readiness = "off" THEN [desc EXCEPT ![l] = FALSE]
                   ELSE GroupSignalled(l)
        /\ ExitedWithReadiness \/ ExitedWithoutReadiness
        /\ UNCHANGED <<launches, token, saved, up, starter, reapers, monitor, attMon,
                       unMon, request>>

MonitorObservesExit == monitor = Gen /\ ObserveExit

\* try_wait itself fails; the child stays owned.
ObserveError ==
    /\ up /\ inner.child # 0 /\ ~inner.start_ownership_pending
    /\ Mishap("poll")
    /\ inner' = Failed([inner EXCEPT !.recovery = 0, !.attached = NoAttached])
    /\ dirty' = TRUE
    /\ UNCHANGED <<osVars, diskVars, up, starter, reapers, monitor, recoverer, attMon,
                   unMon, request>>

MonitorEnds ==
    /\ monitor # 0 /\ (monitor # Gen \/ inner.child = 0)
    /\ monitor' = 0
    /\ UNCHANGED <<osVars, diskVars, memVars, starter, reapers, recoverer, attMon, unMon,
                   dirty, request>>
    /\ Smooth

-------------------------------------------------------------------------------
(* spawn_recovery: a PID-less descendant is probed until the deadline      *)

RecoveryIsCurrent ==
    /\ recoverer # NoTask
    /\ inner.owner = Owner("recovery", recoverer.gen, recoverer.epoch)
    /\ Gen = recoverer.gen /\ inner.recovery = recoverer.gen /\ inner.child = 0

RecoverySucceeds ==
    /\ RecoveryIsCurrent /\ Evidence(inner.readiness)
    /\ recoverer' = NoTask
    /\ inner' = [inner EXCEPT !.st = "Running", !.pid = 0, !.recovery = 0,
                             !.owner = NoOwner, !.unattached_monitor_started = TRUE]
    /\ unMon' = IF inner.unattached_monitor_started THEN unMon ELSE Gen
    /\ dirty' = TRUE
    /\ UNCHANGED <<osVars, diskVars, up, starter, reapers, monitor, attMon, request>>
    /\ Smooth

RecoveryExpires ==
    /\ RecoveryIsCurrent
    /\ recoverer' = NoTask
    /\ inner' = FailedNoPid([inner EXCEPT !.recovery = 0, !.owner = NoOwner,
                                         !.unattached_monitor_started = FALSE])
    /\ TryClearPending
    /\ dirty' = TRUE
    /\ UNCHANGED <<osVars, saved, up, starter, reapers, monitor, attMon, unMon, request>>

RecoveryStale ==
    /\ recoverer # NoTask /\ ~RecoveryIsCurrent
    /\ recoverer' = NoTask
    /\ UNCHANGED <<osVars, diskVars, memVars, starter, reapers, monitor, attMon, unMon,
                   dirty, request>>
    /\ Smooth

-------------------------------------------------------------------------------
(* spawn_attached_readiness_monitor: the service inside a live child restarts *)

AttachedIsCurrent ==
    /\ attMon # 0 /\ Gen = attMon /\ inner.attached.gen = attMon
    /\ inner.child # 0 /\ ~inner.stop_pending
    /\ inner.st = IF inner.attached.recovering THEN "Starting" ELSE "Running"

\* The first failed probe advances the boundary (advance_attached_session) and
\* hands child observation to a monitor of the new generation.
AttachedGap ==
    /\ AttachedIsCurrent /\ ~inner.attached.recovering
    /\ \/ /\ Mishap("gap")
          /\ Rotate
          /\ inner' = [inner EXCEPT
                          !.st = "Starting", !.recovery = 0, !.owner = NoOwner,
                          !.unattached_monitor_started = FALSE, !.epoch = @ + 1,
                          !.attached = [gen |-> Gen + 1, epoch |-> inner.epoch + 1,
                                        recovering |-> TRUE]]
          /\ attMon' = Gen + 1
          /\ monitor' = Gen + 1
       \/ /\ Mishap("rotate")
          /\ inner' = Failed([inner EXCEPT !.attached = NoAttached])
          /\ attMon' = 0
          /\ UNCHANGED <<session, monitor>>
    /\ dirty' = TRUE
    /\ UNCHANGED <<osVars, saved, up, starter, reapers, recoverer, unMon, request>>

AttachedBackUnpublished ==   \* mutant: the new state is not persisted
    /\ AttachedIsCurrent /\ inner.attached.recovering /\ Evidence(inner.readiness)
    /\ inner' = [inner EXCEPT !.st = "Running", !.attached.recovering = FALSE]
    /\ UNCHANGED <<osVars, diskVars, up, taskVars, mishaps>>

AttachedBack ==
    /\ AttachedIsCurrent /\ inner.attached.recovering /\ Evidence(inner.readiness)
    /\ inner' = [inner EXCEPT !.st = "Running", !.attached.recovering = FALSE]
    /\ dirty' = TRUE
    /\ UNCHANGED <<osVars, diskVars, up, starter, reapers, monitor, recoverer, attMon,
                   unMon, request>>
    /\ Smooth

AttachedExpires ==
    /\ AttachedIsCurrent /\ inner.attached.recovering
    /\ inner' = Failed([inner EXCEPT !.attached = NoAttached])
    /\ attMon' = 0
    /\ dirty' = TRUE
    /\ UNCHANGED <<osVars, diskVars, up, starter, reapers, monitor, recoverer, unMon,
                   request>>
    /\ Smooth

AttachedStale ==
    /\ attMon # 0 /\ ~AttachedIsCurrent
    /\ attMon' = 0
    /\ UNCHANGED <<osVars, diskVars, memVars, starter, reapers, monitor, recoverer, unMon,
                   dirty, request>>
    /\ Smooth

-------------------------------------------------------------------------------
(* spawn_unattached_monitor: liveness of a PID-less Running                *)

UnattachedIsCurrent ==
    /\ unMon # 0 /\ Gen = unMon
    /\ inner.child = 0 /\ inner.recovery = 0 /\ inner.st = "Running"
    /\ inner.unattached_monitor_started

UnattachedGap ==
    LET unclaimed == [inner EXCEPT !.unattached_monitor_started = FALSE]
    IN  /\ UnattachedIsCurrent
        /\ \/ /\ Mishap("gap")
              /\ Rotate
              /\ inner' = BeginRecovery(unclaimed, Gen + 1)
              /\ ArmRecoverer(inner, Gen + 1)
           \/ /\ Mishap("rotate")
              /\ inner' = Failed(unclaimed)
              /\ UNCHANGED <<session, recoverer>>
        /\ unMon' = 0
        /\ dirty' = TRUE
        /\ UNCHANGED <<osVars, saved, up, starter, reapers, monitor, attMon, request>>

UnattachedStale ==
    /\ unMon # 0 /\ ~UnattachedIsCurrent
    /\ unMon' = 0
    /\ UNCHANGED <<osVars, diskVars, memVars, starter, reapers, monitor, recoverer, attMon,
                   dirty, request>>
    /\ Smooth

-------------------------------------------------------------------------------
\* persist_if_current drops an observation that is no longer the current one, or
\* that names an older generation: the write that lands is of the state in memory.
Persist ==
    /\ up /\ dirty
    /\ dirty' = FALSE
    /\ \/ saved' = inner.st /\ Smooth
       \/ UNCHANGED saved /\ Mishap("persist")
    /\ UNCHANGED <<osVars, session, memVars, starter, reapers, monitor, recoverer, attMon,
                   unMon, request>>

Processes ==
    \/ EmitToken
    \/ \E l \in Launches : LeaderExits(l) \/ LeaderForks(l) \/ DescExits(l)

Starting ==
    \/ \E rd \in ReadinessKinds : \/ Start(rd) \/ StartPrepareFails(rd)
                                 \/ StartContextFails(rd) \/ StartSpawnFails(rd)
    \/ StartPersisted \/ StartAborted \/ AbortReturns
    \/ StarterAccept \/ StarterStale \/ MarkRunning \/ FailStart

Stopping ==
    \/ StopRequest \/ StopDescendants \/ StopCancelled
    \/ FinishStop \/ FinishFail \/ ReaperFaults

Observing == ObserveExit \/ ObserveError \/ MonitorEnds \/ Persist

Recovering == RecoverySucceeds \/ RecoveryExpires \/ RecoveryStale

Attached == AttachedGap \/ AttachedBack \/ AttachedExpires \/ AttachedStale

Unattached == UnattachedGap \/ UnattachedStale

Next ==
    \/ Boot \/ Crash \/ StartCrashes
    \/ Processes \/ Starting \/ Stopping \/ Observing
    \/ Recovering \/ Attached \/ Unattached

\* Detached tokio tasks keep running, and an Agent that died is started again.
\* Requests, process behaviour and failures are left to chance.
StarterStep == StarterAccept \/ StarterStale \/ MarkRunning \/ FailStart

Fairness ==
    /\ WF_vars(Boot)
    /\ WF_vars(StartPersisted) /\ WF_vars(AbortReturns)
    /\ WF_vars(StarterStep)
    /\ WF_vars(FinishStop \/ FinishFail)
    /\ WF_vars(MonitorObservesExit) /\ WF_vars(MonitorEnds)
    /\ WF_vars(RecoverySucceeds \/ RecoveryExpires \/ RecoveryStale)
    /\ WF_vars(AttachedBack \/ AttachedExpires \/ AttachedStale)
    /\ WF_vars(UnattachedStale)
    /\ WF_vars(Persist)

Spec == Init /\ [][Next]_vars

FairSpec == Spec /\ Fairness

-------------------------------------------------------------------------------
(* Safety                                                                  *)

\* Write-ahead ownership (start_with_profile_inner): a child this Agent holds is
\* always named by the durable marker, so an Agent that dies knows of it.  It is
\* also why the spawning section never polls an existing child.
ChildIsReserved ==
    inner.child # 0 => session.pending /\ session.log = inner.child

\* Every live process of ours, descendants included, is covered by the durable
\* reservation or by the Job the Agent still holds: nothing may be spawned
\* beside it without ending it first.
LiveProcessIsCovered ==
    \A l \in Launches : Alive(l) =>
        \/ session.pending /\ session.log = l
        \/ inner.job = l

\* The purpose of the supervisor: never two Harness launches at once.
NoDuplicateHarness ==
    \A l, m \in Launches : Alive(l) /\ Alive(m) => l = m

\* A taken child has exactly one finishing owner, whose tokens stay valid until
\* it publishes: no start, late monitor or second stop gets in between.
ReaperIsSoleOwner ==
    \A r \in reapers :
        /\ Holds(r) /\ inner.child = 0 /\ inner.owner = NoOwner
        /\ \A q \in reapers : q = r

\* stop_inner answers Busy because a stop `is already finishing': whenever
\* stop_pending is set some owner is there to clear it.
StopPendingHasReaper == inner.stop_pending => reapers # {}

\* A child outside the start gate has a process monitor of the current
\* generation, which will see it exit; inside the gate it has its start owner.
ChildIsWatched == inner.child # 0 => inner.start_ownership_pending \/ monitor = Gen

\* A start, a recovery or an attached restart that is not decided has a task that
\* will decide it, or a stop that supersedes it.
StartingIsOwned ==
    inner.st = "Starting" =>
        \/ starter.pc # "none" /\ OwnsStart /\ inner.child # 0
        \/ RecoveryIsCurrent
        \/ AttachedIsCurrent
        \/ inner.stop_pending /\ reapers # {}

\* A Running service that should answer is probed, inside its child ...
RunningChildIsProbed ==
    inner.st = "Running" /\ inner.child # 0 /\ inner.readiness # "off" => AttachedIsCurrent

\* ... and without one.
UnattachedIsProbed ==
    inner.st = "Running" /\ inner.child = 0 /\ ~inner.stop_pending => UnattachedIsCurrent

\* selection_change_is_quiescent, with the Windows Job test.
Quiescent ==
    /\ up
    /\ inner.job # 0 => ~Alive(inner.job)
    /\ inner.child = 0 /\ ~inner.stop_pending /\ ~inner.start_ownership_pending
    /\ inner.recovery = 0 /\ inner.owner = NoOwner /\ inner.attached = NoAttached
    /\ ~inner.unattached_monitor_started /\ ~session.pending /\ inner.pid = 0
    /\ inner.st \in {"Detached", "Stopped", "Failed"}

\* Selection metadata changes only when there is `positively no live or
\* recovering Harness owner': neither a process nor a task that acts on one.
QuiescentMeansNoOwner ==
    Quiescent =>
        /\ \A l \in Launches : ~Alive(l)
        /\ reapers = {} /\ ~RecoveryIsCurrent /\ ~AttachedIsCurrent
        /\ ~UnattachedIsCurrent

\* A launch that is starting or running is never left to the next Agent as one
\* that ended: with_graceful_wait reads snapshot and marker together.
LiveLaunchIsKnown ==
    up /\ inner.st \in {"Starting", "Running"} => BootState \in {"Starting", "Running"}

\* A decided state, once its write is not due any more, is the one on disk.
DecidedStateIsSaved == up /\ ~dirty /\ inner.st # "Starting" => saved = inner.st

\* The snapshot may stay behind while a recovery is under way, for the write of
\* its beginning may be dropped (ExitedWithReadiness).  Even then the disk tells
\* the next Agent of the launch, and every owner publishes what it decides.
DurableStateIsCurrent == LiveLaunchIsKnown /\ DecidedStateIsSaved

(* Inductive strengthenings of the ownership properties (used by the proofs)  *)

StarterHoldsGate == starter.pc \in {"gate", "go", "abort"}

StopTakesAll ==
    inner.stop_pending =>
        /\ inner.child = 0 /\ inner.owner = NoOwner
        /\ ~inner.start_ownership_pending /\ ~inner.unattached_monitor_started

UnattachedIsAlone ==
    inner.child # 0 \/ inner.owner.kind = "start" => ~inner.unattached_monitor_started

ReapersAreReserved ==
    \A r \in reapers : session.pending /\ (r.launch # 0 => session.log = r.launch)

GateGuardsChild ==
    /\ inner.start_ownership_pending =>
          /\ inner.child # 0 /\ inner.attached = NoAttached
          /\ OwnsStart /\ StarterHoldsGate
    /\ StarterHoldsGate /\ inner.owner = StarterOwner => inner.start_ownership_pending
    /\ request = "starting" => starter.pc = "gate" /\ inner.start_ownership_pending

LostStartIsReserved ==
    inner.owner.kind = "start" /\ inner.child = 0 =>
        inner.readiness = "off" \/ session.pending

DeadAgentOwnsNothing ==
    ~up => /\ inner = FreshInner("Detached") /\ reapers = {}
           /\ starter = NoStarter /\ request = "none"

GenerationsBegin == session.pending \/ inner.owner.kind = "recovery" => Gen # 0

\* Owners are there until the run is decided.
OwnedIsUndecided ==
    /\ inner.owner # NoOwner => inner.st # "Running"
    /\ inner.owner.kind = "recovery" => ~inner.unattached_monitor_started

\* An attached state always belongs to the monitor that is alive.
AttachedHasMonitor ==
    inner.attached # NoAttached =>
        AttachedIsCurrent /\ inner.readiness # "off" /\ inner.owner = NoOwner

\* What a finishing owner took is what restore_stop_child needs to resume it.
ReapersRemember ==
    \A r \in reapers :
        /\ r.attached # NoAttached =>
              /\ r.readiness # "off"
              /\ inner.st = IF r.attached.recovering THEN "Starting" ELSE "Running"
        /\ r.attached = NoAttached => r.readiness = "off" \/ inner.st # "Running"

TasksAreAttended ==
    /\ GenerationsBegin /\ OwnedIsUndecided /\ AttachedHasMonitor /\ ReapersRemember
    /\ RunningChildIsProbed

\* Who may own what: the tokens in SupervisorInner, the tasks and the durable
\* marker fit together.
OwnersAreConsistent ==
    /\ ChildIsReserved /\ ReaperIsSoleOwner
    /\ StopTakesAll /\ UnattachedIsAlone /\ ReapersAreReserved
    /\ GateGuardsChild /\ LostStartIsReserved /\ DeadAgentOwnsNothing

\* The launch some part of the Agent can still act on.
Held(l) == inner.child = l \/ \E r \in reapers : r.launch = l

\* A Job that did not drain: its processes live on behind the reservation, which
\* nothing but a new Agent can release.
Wedged ==
    /\ Windows /\ session.pending /\ inner.owner = NoOwner
    /\ inner.child = 0 /\ reapers = {} /\ ~inner.unattached_monitor_started

ProcessesAreHeld ==
    /\ inner.job # 0 => Windows /\ inner.job = session.log
    /\ Windows => \A l \in Launches : Held(l) => inner.job = l
    /\ \A l \in Launches : leader[l] = "live" => Held(l)
    /\ \A l \in Launches : Alive(l) =>
          session.log = l /\ (inner.job = l \/ Held(l) \/ Wedged)
    /\ ~up => \A l \in Launches : ~Alive(l)

(* Action properties                                                       *)

\* HarnessLogSession: launch_pending `is cleared only after Nexus proves the run
\* terminated'.
ReservationOutlivesRun ==
    [][\A l \in Launches :
          session.pending /\ session.log = l /\ ~session'.pending => ~Alive(l)']_vars

\* While an owner finishes a stop or a failed start, no late result of another
\* task changes the supervised state (the owner itself takes the Job).
StoppingIsUndisturbed ==
    [][inner.stop_pending /\ inner'.stop_pending
         => inner' = [inner EXCEPT !.job = inner'.job]]_vars

(* Liveness                                                                *)

\* A stop or a start-failure cleanup that was accepted releases the supervisor.
StopCompletes == inner.stop_pending ~> ~inner.stop_pending

\* A start, a recovery or an attached restart is decided within its deadlines.
StartingSettles == inner.st = "Starting" ~> inner.st # "Starting"

\* A child that exited is noticed and let go by the task of the Agent that has it.
ExitIsObserved ==
    \A l \in Launches :
        (Held(l) /\ leader[l] = "exited") ~> ~(Held(l) /\ leader[l] = "exited")

==============================================================================

---------------------------- MODULE RequestReceipts ----------------------------
(***************************************************************************)
(* Durable admission of requests whose accidental retry changes data       *)
(* (crates/nexus-agent/src/request_receipts.rs).                           *)
(*                                                                         *)
(* The middleware `enforce' records a receipt before it runs the operation *)
(* and finalizes it afterwards.  One async lock (`active') is held across  *)
(* the blocking load and the blocking save of the receipt document; the    *)
(* operation itself runs in a detached owner, outside the lock.  A client  *)
(* that disconnects drops its handler at any await, and with it the lock,  *)
(* but not a write that is already in the blocking pool.                   *)
(***************************************************************************)
EXTENDS Integers, FiniteSets

CONSTANTS
    Clients,     \* connections; each sends one request at a time, and retries
    Ids,         \* request ids (timestamp-random)
    Params,      \* fingerprints: what a request id is used with
    Issued,      \* the time in each request id
    Lifetime,    \* LIFETIME: retry window of an id
    Skew,        \* how far in the future an id may have been issued
    Limit,       \* LIMIT: capacity of the document
    Mishaps,     \* kinds of failure the environment may inject
    MaxMishaps,  \* bound on injected failures
    MaxClock     \* bound on time

MishapKinds == {"crash", "drop", "io", "wait"}

ASSUME ConstantsAssumption ==
    /\ Clients # {} /\ IsFiniteSet(Ids) /\ IsFiniteSet(Clients)
    /\ "none" \notin Params /\ "nobody" \notin Clients
    /\ Issued \in [Ids -> Nat]
    /\ Lifetime \in Nat /\ Skew \in Nat /\ Limit \in Nat
    /\ Mishaps \subseteq MishapKinds
    /\ MaxMishaps \in Nat /\ MaxClock \in Nat

VARIABLES
    disk,     \* request-receipts.json: a receipt for each id, or NoReceipt
    active,   \* Receipts.active: ids whose owner is running
    clients,  \* handler of each connection
    tasks,    \* detached owners of admitted operations
    lock,     \* who holds the lock of `active'
    writing,  \* document the lock holder is saving
    orphans,  \* saves whose handler was dropped, still in the blocking pool
    runs,     \* history: how often the operation of an id was started
    done,     \* history: outcomes of the operation of an id, with its parameters
    now,      \* unix_time_seconds
    mishaps   \* number of injected failures so far

vars == <<disk, active, clients, tasks, lock, writing, orphans, runs, done, now, mishaps>>

-------------------------------------------------------------------------------
Outcomes == {"completed", "failed", "interrupted"}

NoReceipt == [state |-> "absent", params |-> "none"]
Receipts ==
    {NoReceipt} \cup [state: {"running"} \cup Outcomes, params: Params]
Documents == [Ids -> Receipts]

Idle(told) == [pc |-> "idle", id |-> "none", params |-> "none", asked |-> 0, told |-> told]

\* What a client was answered, and about what.
NoAnswer == [about |-> "none", params |-> "none", says |-> "nothing"]
Answer(c, says) ==
    [about |-> clients[c].id, params |-> clients[c].params, says |-> says]

Mishap(k) == k \in Mishaps /\ mishaps < MaxMishaps /\ mishaps' = mishaps + 1
Smooth == UNCHANGED mishaps

\* An id is usable and its receipt is kept inside its retry window.
Window(id, t) == Issued[id] <= t + Skew /\ t - Issued[id] <= Lifetime

\* load: prune what left its window, and turn a receipt that nobody in this
\* process owns into an interrupted one.
LoadedInterruptsAll(docs) ==   \* mutant: the state of the receipt is not looked at
    [id \in Ids |->
        IF id \in active \/ ~Window(id, now)
        THEN IF id \in active THEN docs[id] ELSE NoReceipt
        ELSE IF docs[id] = NoReceipt THEN NoReceipt
             ELSE [docs[id] EXCEPT !.state = "interrupted"]]

LoadedPrunes(docs) ==   \* mutant: prunes by age although the owner still runs
    [id \in Ids |->
        IF ~Window(id, now) THEN NoReceipt
        ELSE IF id \notin active /\ docs[id].state = "running"
             THEN [docs[id] EXCEPT !.state = "interrupted"] ELSE docs[id]]

Loaded(docs) ==
    [id \in Ids |->
        IF id \in active \/ ~Window(id, now)
        THEN IF id \in active THEN docs[id] ELSE NoReceipt
        ELSE IF docs[id].state = "running" THEN [docs[id] EXCEPT !.state = "interrupted"]
             ELSE docs[id]]

Size(docs) == Cardinality({id \in Ids : docs[id] # NoReceipt})

Init ==
    /\ disk = [id \in Ids |-> NoReceipt]
    /\ active = {}
    /\ clients = [c \in Clients |-> Idle(NoAnswer)]
    /\ tasks = {}
    /\ lock = "free"
    /\ writing = [id \in Ids |-> NoReceipt]
    /\ orphans = {}
    /\ runs = [id \in Ids |-> 0]
    /\ done = [id \in Ids |-> {}]
    /\ now = 0
    /\ mishaps = 0

-------------------------------------------------------------------------------
(* enforce: admission                                                      *)

\* The time of the request is read before its handler waits for the lock.
Arrive(c, id, p) ==
    /\ clients[c].pc = "idle"
    /\ clients' = [clients EXCEPT ![c] =
                     [pc |-> "waiting", id |-> id, params |-> p, asked |-> now,
                      told |-> NoAnswer]]
    /\ UNCHANGED <<disk, active, tasks, lock, writing, orphans, runs, done, now>>
    /\ Smooth

Waiting(c) == lock = "free" /\ clients[c].pc = "waiting"

Reply(c, says) ==
    /\ clients' = [clients EXCEPT ![c] = Idle(Answer(c, says))]
    /\ UNCHANGED <<disk, active, tasks, lock, writing, orphans, runs, done, now>>

\* The document is unreadable or holds more than it may.
RefuseUnreadable(c) ==
    /\ Waiting(c)
    /\ \/ Mishap("io") /\ Reply(c, "unavailable")
       \/ Size(Loaded(disk)) > Limit /\ Reply(c, "unavailable") /\ Smooth

RefuseKnownAnyParams(c) ==   \* mutant: the fingerprint is not compared
    LET r == Loaded(disk)[clients[c].id]
    IN  /\ Waiting(c) /\ Size(Loaded(disk)) <= Limit /\ r # NoReceipt
        /\ Reply(c, r.state) /\ Smooth

\* A receipt exists: the request is a retry, and is answered from it.
RefuseKnown(c) ==
    LET r == Loaded(disk)[clients[c].id]
    IN  /\ Waiting(c) /\ Size(Loaded(disk)) <= Limit /\ r # NoReceipt
        /\ Reply(c, IF r.params # clients[c].params THEN "conflict" ELSE r.state)
        /\ Smooth

RefuseNew(c) ==
    /\ Waiting(c) /\ Size(Loaded(disk)) <= Limit
    /\ Loaded(disk)[clients[c].id] = NoReceipt
    /\ \/ ~Window(clients[c].id, clients[c].asked) /\ Reply(c, "expired")
       \/ /\ Window(clients[c].id, clients[c].asked)
          /\ Size(Loaded(disk)) >= Limit /\ Reply(c, "full")
    /\ Smooth

RecordBeyond(c) ==   \* mutant: the capacity is not checked
    LET id == clients[c].id
    IN  /\ Waiting(c)
        /\ Loaded(disk)[id] = NoReceipt /\ Size(Loaded(disk)) <= Limit
        /\ Window(id, clients[c].asked)
        /\ lock' = "admit"
        /\ writing' = [Loaded(disk) EXCEPT ![id] =
                         [state |-> "running", params |-> clients[c].params]]
        /\ clients' = [clients EXCEPT ![c].pc = "saving"]
        /\ UNCHANGED <<disk, active, tasks, orphans, runs, done, now, mishaps>>

\* The receipt is pushed and the save handed to the blocking pool.
Record(c) ==
    LET id == clients[c].id
    IN  /\ Waiting(c)
        /\ Loaded(disk)[id] = NoReceipt /\ Size(Loaded(disk)) < Limit
        /\ Window(id, clients[c].asked)
        /\ lock' = "admit"
        /\ writing' = [Loaded(disk) EXCEPT ![id] =
                         [state |-> "running", params |-> clients[c].params]]
        /\ clients' = [clients EXCEPT ![c].pc = "saving"]
        /\ UNCHANGED <<disk, active, tasks, orphans, runs, done, now>>
        /\ Smooth

\* The save returned: the id is active and its owner is spawned.
AdmitUnrecorded(c) ==   \* mutant: the receipt is not saved
    LET id == clients[c].id
    IN  /\ clients[c].pc = "saving"
        /\ active' = active \cup {id}
        /\ tasks' = tasks \cup {[id |-> id, params |-> clients[c].params, client |-> c,
                                 pc |-> "running", outcome |-> "none"]}
        /\ runs' = [runs EXCEPT ![id] = @ + 1]
        /\ clients' = [clients EXCEPT ![c].pc = "attached"]
        /\ lock' = "free"
        /\ UNCHANGED <<disk, writing, orphans, done, now, mishaps>>

AdmitKeepsLock(c) ==   \* mutant: the lock is not dropped before the operation
    LET id == clients[c].id
    IN  /\ clients[c].pc = "saving"
        /\ disk' = writing
        /\ active' = active \cup {id}
        /\ tasks' = tasks \cup {[id |-> id, params |-> clients[c].params, client |-> c,
                                 pc |-> "running", outcome |-> "none"]}
        /\ runs' = [runs EXCEPT ![id] = @ + 1]
        /\ clients' = [clients EXCEPT ![c].pc = "attached"]
        /\ UNCHANGED <<lock, writing, orphans, done, now, mishaps>>

Admit(c) ==
    LET id == clients[c].id
    IN  /\ clients[c].pc = "saving"
        /\ disk' = writing
        /\ active' = active \cup {id}
        /\ tasks' = tasks \cup {[id |-> id, params |-> clients[c].params, client |-> c,
                                 pc |-> "running", outcome |-> "none"]}
        /\ runs' = [runs EXCEPT ![id] = @ + 1]
        /\ clients' = [clients EXCEPT ![c].pc = "attached"]
        /\ lock' = "free"
        /\ UNCHANGED <<writing, orphans, done, now>>
        /\ Smooth

\* The save fails, before or after it replaced the file: nothing is run.
AdmitFails(c) ==
    /\ clients[c].pc = "saving" /\ Mishap("io")
    /\ disk' \in {disk, writing}
    /\ clients' = [clients EXCEPT ![c] = Idle(Answer(c, "unavailable"))]
    /\ lock' = "free"
    /\ UNCHANGED <<active, tasks, writing, orphans, runs, done, now>>

\* The connection closes: the handler and its lock are dropped, a save in the
\* blocking pool and an admitted owner are not.
Disconnect(c) ==
    /\ clients[c].pc \in {"waiting", "attached"}
    /\ clients' = [clients EXCEPT ![c] = Idle(NoAnswer)]
    /\ tasks' = {IF t.client = c THEN [t EXCEPT !.client = "nobody"] ELSE t : t \in tasks}
    /\ UNCHANGED <<disk, active, lock, writing, orphans, runs, done, now>>
    /\ Smooth

DisconnectSaving(c) ==
    /\ clients[c].pc = "saving" /\ Mishap("drop")
    /\ clients' = [clients EXCEPT ![c] = Idle(NoAnswer)]
    /\ orphans' = orphans \cup {writing}
    /\ lock' = "free"
    /\ UNCHANGED <<disk, active, tasks, writing, runs, done, now>>

OrphanLands ==
    \E docs \in orphans :
        /\ disk' = docs
        /\ orphans' = orphans \ {docs}
        /\ UNCHANGED <<active, clients, tasks, lock, writing, runs, done, now>>
        /\ Smooth

-------------------------------------------------------------------------------
(* The detached owner                                                      *)

\* The operation ends; interrupted stands for a panic or an unreadable answer.
Operate(t) ==
    /\ t.pc = "running"
    /\ \E o \in Outcomes :
         /\ tasks' = (tasks \ {t}) \cup {[t EXCEPT !.pc = "finishing", !.outcome = o]}
         /\ done' = [done EXCEPT ![t.id] = @ \cup {[params |-> t.params, outcome |-> o]}]
    /\ UNCHANGED <<disk, active, clients, lock, writing, orphans, runs, now>>
    /\ Smooth

\* Ends the owner and answers the client that still waits for it.
OwnerEnds(t, says) ==
    /\ active' = active \ {t.id}
    /\ tasks' = tasks \ {t}
    /\ clients' = IF t.client = "nobody" THEN clients
                  ELSE [clients EXCEPT ![t.client] = Idle(Answer(t.client, says))]

FinalizeUnfinished(t) ==   \* mutant: does not wait for the operation to end
    /\ lock = "free" /\ t.pc # "finalizing"
    /\ Size(Loaded(disk)) <= Limit /\ Loaded(disk)[t.id] # NoReceipt
    /\ lock' = "finalize"
    /\ writing' = [Loaded(disk) EXCEPT ![t.id].state = t.outcome]
    /\ tasks' = (tasks \ {t}) \cup {[t EXCEPT !.pc = "finalizing"]}
    /\ UNCHANGED <<disk, active, clients, orphans, runs, done, now, mishaps>>

FinalizeBegins(t) ==
    /\ lock = "free" /\ t.pc = "finishing"
    /\ Size(Loaded(disk)) <= Limit /\ Loaded(disk)[t.id] # NoReceipt
    /\ lock' = "finalize"
    /\ writing' = [Loaded(disk) EXCEPT ![t.id].state = t.outcome]
    /\ tasks' = (tasks \ {t}) \cup {[t EXCEPT !.pc = "finalizing"]}
    /\ UNCHANGED <<disk, active, clients, orphans, runs, done, now>>
    /\ Smooth

FinalizeEnds(t) ==
    /\ t.pc = "finalizing"
    /\ disk' = writing
    /\ OwnerEnds(t, t.outcome)
    /\ lock' = "free"
    /\ UNCHANGED <<writing, orphans, runs, done, now>>
    /\ Smooth

\* The document cannot be loaded, the receipt disappeared, or the save fails.
FinalizeFails(t) ==
    /\ \/ /\ lock = "free" /\ t.pc = "finishing" /\ UNCHANGED disk
          /\ \/ Mishap("io")
             \/ Smooth /\ (Size(Loaded(disk)) > Limit \/ Loaded(disk)[t.id] = NoReceipt)
       \/ /\ t.pc = "finalizing" /\ Mishap("io")
          /\ disk' \in {disk, writing}
    /\ OwnerEnds(t, "unavailable")
    /\ lock' = "free"
    /\ UNCHANGED <<writing, orphans, runs, done, now>>

-------------------------------------------------------------------------------
\* The Agent dies and is started again; writes in flight may have landed.
Crash ==
    /\ Mishap("crash")
    /\ disk' \in {disk} \cup orphans \cup (IF lock = "free" THEN {} ELSE {writing})
    /\ active' = {}
    /\ clients' = [c \in Clients |-> Idle(NoAnswer)]
    /\ tasks' = {}
    /\ lock' = "free"
    /\ orphans' = {}
    /\ UNCHANGED <<writing, runs, done, now>>

\* The clock moves while a handler waits for the lock only as a mishap.
Tick ==
    /\ now < MaxClock
    /\ now' = now + 1
    /\ \/ Smooth /\ \A c \in Clients : clients[c].pc # "waiting"
       \/ Mishap("wait")
    /\ UNCHANGED <<disk, active, clients, tasks, lock, writing, orphans, runs, done>>

Enforce(c) ==
    \/ RefuseUnreadable(c) \/ RefuseKnown(c) \/ RefuseNew(c) \/ Record(c)

Owner(t) == Operate(t) \/ FinalizeBegins(t) \/ FinalizeEnds(t) \/ FinalizeFails(t)

Next ==
    \/ \E c \in Clients :
         \/ \E id \in Ids, p \in Params : Arrive(c, id, p)
         \/ Enforce(c) \/ Admit(c) \/ AdmitFails(c)
         \/ Disconnect(c) \/ DisconnectSaving(c)
    \/ \E t \in tasks : Owner(t)
    \/ OrphanLands \/ Crash \/ Tick

Spec == Init /\ [][Next]_vars

\* The lock is a FIFO tokio mutex, so no waiter is overtaken for ever; blocking
\* saves return and operations end.
Fairness ==
    /\ \A c \in Clients : SF_vars(Enforce(c)) /\ WF_vars(Admit(c))
    /\ SF_vars(\E t \in tasks : FinalizeBegins(t))
    /\ WF_vars(\E t \in tasks : Operate(t) \/ FinalizeEnds(t) \/ FinalizeFails(t))

FairSpec == Spec /\ Fairness

-------------------------------------------------------------------------------
Says == {"nothing", "unavailable", "conflict", "expired", "full", "running"} \cup Outcomes

ClientStates ==
    [pc: {"idle", "waiting", "saving", "attached"}, id: Ids \cup {"none"},
     params: Params \cup {"none"}, asked: Nat,
     told: [about: Ids \cup {"none"}, params: Params \cup {"none"}, says: Says]]

Owners ==
    [id: Ids, params: Params, client: Clients \cup {"nobody"},
     pc: {"running", "finishing", "finalizing"}, outcome: Outcomes \cup {"none"}]

TypeOK ==
    /\ disk \in Documents /\ writing \in Documents /\ orphans \subseteq Documents
    /\ active \subseteq Ids
    /\ clients \in [Clients -> ClientStates]
    /\ \A c \in Clients :
         clients[c].pc # "idle" => clients[c].id \in Ids /\ clients[c].params \in Params
    /\ tasks \subseteq Owners
    /\ \A t \in tasks : t.pc # "running" => t.outcome \in Outcomes
    /\ lock \in {"free", "admit", "finalize"}
    /\ runs \in [Ids -> Nat]
    /\ done \in [Ids -> SUBSET [params: Params, outcome: Outcomes]]
    /\ now \in Nat /\ mishaps \in Nat

\* The reason the receipts exist: however often a request is sent, and whatever
\* happens to the Agent, its operation is started at most once.
AtMostOnce == \A id \in Ids : runs[id] <= 1

(* Inductive strengthening of AtMostOnce (used by the proof)                *)

\* Whoever saves holds the lock, alone.
SaversHoldLock ==
    /\ \A c \in Clients : clients[c].pc = "saving" => lock = "admit"
    /\ \A t \in tasks : t.pc = "finalizing" => lock = "finalize"
    /\ \A c, e \in Clients : clients[c].pc = "saving" /\ clients[e].pc = "saving" => c = e
    /\ \A t, u \in tasks : t.pc = "finalizing" /\ u.pc = "finalizing" => t = u

\* What was started stays in the document until its window is over.
StartedIsIn(docs) ==
    \A id \in Ids : runs[id] # 0 =>
        /\ Issued[id] <= now + Skew
        /\ docs[id] # NoReceipt \/ now - Issued[id] > Lifetime

StartsAreRecorded ==
    /\ StartedIsIn(disk)
    /\ lock # "free" => StartedIsIn(writing)

\* What is being admitted was never started.
SavedIsNew ==
    \A c \in Clients : clients[c].pc = "saving" =>
        /\ runs[clients[c].id] = 0
        /\ Issued[clients[c].id] <= now + Skew
        /\ writing[clients[c].id] # NoReceipt

\* Without the drop of a saving handler and without a clock that moves while a
\* handler waits.
Undisturbed ==
    /\ orphans = {}
    /\ \A c \in Clients : clients[c].pc = "waiting" => clients[c].asked = now

StartsOnce ==
    /\ AtMostOnce /\ SaversHoldLock /\ StartsAreRecorded /\ SavedIsNew /\ Undisturbed

\* What a retry is told about the original is true of it: completed and failed
\* are outcomes of an operation with the same parameters, and whoever is told
\* anything final is not racing an owner that still works.
AnswersAreHonest ==
    \A c \in Clients :
        LET told == clients[c].told
        IN  /\ told.says \in {"completed", "failed"} =>
                  [params |-> told.params, outcome |-> told.says] \in done[told.about]
            /\ told.says \in Outcomes => \A t \in tasks : t.id # told.about

\* The history never grows beyond what load accepts, so admission never locks
\* itself out.
HistoryLoads == Size(Loaded(disk)) <= Limit

\* Every request is answered (or its connection closes).
RequestsAreAnswered ==
    \A c \in Clients : clients[c].pc # "idle" ~> clients[c].pc = "idle"

==============================================================================

--------------------------- MODULE ColdPublication ---------------------------
(***************************************************************************)
(* Installing a release in the background, importing an offline package,   *)
(* and the first selection of a release: the cold operations of the Agent. *)
(* An operation works in a candidate directory with child processes, then  *)
(* publishes a slot, the configuration and the release pointers together.  *)
(* Its publication intent is written first; the committed flag of the      *)
(* intent is the only decision, and whoever finds an intent completes or   *)
(* undoes it by reconcile_publication.                                     *)
(*                                                                         *)
(* Actors: the task of each operation, the cancel and recovery handlers,   *)
(* and the startup of the Agent.  The lifecycle lock, the update gate and  *)
(* the gate of the cold coordinator are variables that name their holder.  *)
(* One save of the configuration, and one change of the pointers, is one   *)
(* step here: ConfigTransaction and ReleaseSlots model what they are.      *)
(***************************************************************************)
EXTENDS Integers, FiniteSets

CONSTANTS
    None,           \* no record, no holder, no release
    Kinds,          \* which operations are asked for: "switch", "import", "select"
    MaxOps,         \* bound: cold operations
    MaxCommands,    \* bound: saves, retries and preservations
    MaxMishaps      \* bound: crashes, failures and edits

ASSUME ColdAssumptions ==
    /\ Kinds \subseteq {"switch", "import", "select"}
    /\ MaxOps \in Nat /\ MaxCommands \in Nat /\ MaxMishaps \in Nat
    /\ None \notin Int

VARIABLES
    op,         \* cold-operation.json
    intent,     \* cold-publication.json
    config,     \* the configuration: its version, and the runtime it launches with
    pointers,   \* the selected release and the last known good one
    slots,      \* the slot directories
    owned,      \* operations whose runtime or environment directory is in place
    candidates, \* operations whose candidate directory exists
    child,      \* per operation, its child process: none, running, or lost
    task,       \* per operation, where its task is
    quiet,      \* per operation, whether its failure proved that no child is left
    active,     \* owner_active
    token,      \* the cancellation token, and the operation it is for
    lifecycle,  \* holder of the lifecycle lock
    updater,    \* holder of the update gate
    gate,       \* holder of the cold gate
    fix,        \* the reconciliation under way
    decided,    \* history: the configuration and pointers of the last decision
    edited,     \* history: an edit met a reconciliation of this intent
    told,       \* history: operations whose cancellation was accepted
    ops, commands, mishaps

disk == <<op, intent, config, pointers, slots, owned, candidates>>
locks == <<lifecycle, updater, gate>>
history == <<decided, edited, told>>
bounds == <<ops, commands, mishaps>>
vars == <<op, intent, config, pointers, slots, owned, candidates, child, task, quiet,
          active, token, lifecycle, updater, gate, fix, decided, edited, told,
          ops, commands, mishaps>>

-------------------------------------------------------------------------------
(* Records                                                                 *)

Ids == 1 .. MaxOps              \* operations; also the slots they make
Base == 0                       \* a release that is installed and verified before
Bundled == 0                    \* the runtime that comes with Nexus
User == -1                      \* holders of locks that are no operations
Recoverer == -2
Other == -3
Slots == Ids \cup {Base}
Runtimes == Ids \cup {None, Bundled}        \* None: Harness is not configured yet
Versions == [n : 0 .. (MaxOps + MaxCommands + MaxMishaps), runtime : Runtimes]
Pointers == [current : Slots \cup {None}, lkg : Slots \cup {None}]
Tuples == [config : Versions, pointers : Pointers]
Running == {"queued", "working", "verifying", "registering", "cancelling"}
Ended == {"prepared", "succeeded", "failed", "cancelled"}
Operations == [id : Ids, kind : Kinds, phase : Running \cup Ended,
               quiescent : BOOLEAN, cleanup : BOOLEAN]
Intents == [id : Ids, kind : Kinds, only : BOOLEAN, committed : BOOLEAN, preserve : BOOLEAN,
            previous : Tuples, target : Tuples, new : BOOLEAN]
Tokens == [id : Ids, cancelled : BOOLEAN]
ASSUME NoRecordIsMissing == None \notin Operations \cup Intents \cup Tokens
Places == {"none", "begin", "start", "child", "verify", "commit", "publish", "intent", "placed",
           "config", "promoted", "finish", "settle", "settling", "close", "clean",
           "release", "done"}
Working == {"begin", "start", "child", "verify", "commit", "publish", "intent", "placed",
            "config", "promoted", "finish"}
Fixes == {"none", "children", "check", "config", "pointers", "residue", "candidate",
          "record", "intent", "operation", "clean"}
Holders == Ids \cup {None, User, Recoverer, Other}
Idle == [by |-> None, at |-> "none"]

Terminal == op # None /\ op.phase \in Ended
Mine(i) == op # None /\ op.id = i
Tuple == [config |-> config, pointers |-> pointers]
Cancelled(i) == token # None /\ token.id = i /\ token.cancelled

\* verified_fallback for another release than this one.
Fallback(s) == IF s # Base /\ Base \in slots THEN Base ELSE None

\* cleanup_pending: what blocks other mutations, maintenance and new operations
Unsettled == op # None /\ (op.cleanup \/ ~op.quiescent \/ ~Terminal)

Goto(i, place) == task' = [task EXCEPT ![i] = place]
Holds(i) == lifecycle = i /\ updater = i /\ gate = i
Drop(h, i) == IF h = i THEN None ELSE h
Release(i) == lifecycle' = Drop(lifecycle, i) /\ updater' = Drop(updater, i)
              /\ gate' = Drop(gate, i)

Smooth == UNCHANGED bounds
Mishap == mishaps < MaxMishaps /\ mishaps' = mishaps + 1 /\ UNCHANGED <<ops, commands>>
Command == commands < MaxCommands /\ commands' = commands + 1 /\ UNCHANGED <<ops, mishaps>>
Saved == [config EXCEPT !.n = MaxOps + commands + 1]
Edited == [config EXCEPT !.n = MaxOps + MaxCommands + mishaps + 1]

Init ==
    /\ op = None /\ intent = None /\ config = [n |-> 0, runtime |-> None]
    /\ pointers \in {[current |-> None, lkg |-> None], [current |-> Base, lkg |-> None]}
    /\ slots = {Base} /\ owned = {} /\ candidates = {}
    /\ child = [i \in Ids |-> "none"] /\ task = [i \in Ids |-> "none"]
    /\ quiet = [i \in Ids |-> TRUE]
    /\ active = FALSE /\ token = None
    /\ lifecycle = None /\ updater = None /\ gate = None
    /\ fix = Idle
    /\ decided = Tuple /\ edited = FALSE /\ told = {}
    /\ ops = 0 /\ commands = 0 /\ mishaps = 0

-------------------------------------------------------------------------------
(* Beginning and working                                                   *)

\* begin_with_details, and the task it is for.  The first selection of a
\* release is the work of its handler, which holds the lifecycle lock and the
\* update gate until it answers.
Begin(kind) ==
    /\ ops < MaxOps /\ gate = None /\ intent = None /\ ~active
    /\ op = None \/ (Terminal /\ ~op.cleanup)
    /\ LET i == ops + 1
       IN /\ op' = [id |-> i, kind |-> kind, phase |-> "queued",
                    quiescent |-> FALSE, cleanup |-> FALSE]
          /\ token' = [id |-> i, cancelled |-> FALSE]
          /\ Goto(i, IF kind = "import" THEN "begin" ELSE "start")
          /\ IF kind = "select"
             THEN /\ lifecycle = None /\ updater = None /\ config.runtime = None
                  /\ lifecycle' = i /\ updater' = i
             ELSE UNCHANGED <<lifecycle, updater>>
    /\ active' = TRUE
    /\ ops' = ops + 1
    /\ UNCHANGED <<intent, config, pointers, slots, owned, candidates, child, quiet,
                   gate, fix, history, commands, mishaps>>

\* update: no phase after the end of an operation or after its cancellation.
Updatable(i) == Mine(i) /\ op.phase \in Running \ {"cancelling"}
Phase(p) == op' = [op EXCEPT !.phase = p]

\* offline::begin writes the record of an import once more, without the gate:
\* a cancellation recorded in between is written over, but not its token.  If
\* this write fails, the operation stays queued and no task is there for it.
BeginAgain(i) ==
    /\ task[i] = "begin"
    /\ \/ Smooth /\ Phase("queued") /\ Goto(i, "start")
       \/ Mishap /\ UNCHANGED op /\ Goto(i, "done")
    /\ UNCHANGED <<intent, config, pointers, slots, owned, candidates, child, quiet,
                   active, token, locks, fix, history>>

\* A task fails: its guards go, and it will settle the failure.  The handler
\* of a selection settles as well, while its own guards live on.
Fails(i, proved) ==
    /\ Goto(i, "settle")
    /\ quiet' = [quiet EXCEPT ![i] = proved]
    /\ IF Mine(i) /\ op.kind = "select"
       THEN gate' = Drop(gate, i) /\ UNCHANGED <<lifecycle, updater>>
       ELSE Release(i)

\* The lifecycle lock is fair: a task that waits to settle is in line already.
NextInLine == lifecycle = None /\ \A j \in Ids : task[j] # "settle"

\* prepare_inner and offline::run, up to their first child process.  An import
\* takes the lifecycle lock and the update gate here.
Start(i) ==
    /\ task[i] = "start" /\ op.kind # "select" /\ Smooth
    /\ gate = None /\ (op.kind = "import" => NextInLine)
    /\ IF Updatable(i) /\ ~Cancelled(i) /\ (op.kind = "import" => updater = None)
       THEN /\ Phase(IF op.kind = "import" THEN "verifying" ELSE "working")
            /\ candidates' = candidates \cup {i}
            /\ child' = [child EXCEPT ![i] = "running"]
            /\ Goto(i, "child")
            /\ IF op.kind = "import"
               THEN lifecycle' = i /\ updater' = i
               ELSE UNCHANGED <<lifecycle, updater>>
            /\ UNCHANGED <<quiet, gate>>
       ELSE Fails(i, TRUE) /\ UNCHANGED <<op, candidates, child>>
    /\ UNCHANGED <<intent, config, pointers, slots, owned, active, token, fix, history>>

\* The clone, install and build commands, or the import helper.  A switch then
\* enters its verifying phase; an import has had it since its start.
ChildEnds(i) ==
    /\ task[i] = "child" /\ Smooth
    /\ op.kind = "switch" => gate = None
    /\ child' = [child EXCEPT ![i] = "none"]
    /\ IF ~Cancelled(i) /\ (op.kind = "switch" => Updatable(i))
       THEN /\ IF op.kind = "switch" THEN Phase("verifying") ELSE UNCHANGED op
            /\ Goto(i, "verify") /\ UNCHANGED <<quiet, locks>>
       ELSE Fails(i, TRUE) /\ UNCHANGED op
    /\ UNCHANGED <<intent, config, pointers, slots, owned, candidates, active, token,
                   fix, history>>

\* publish_verified_import writes its phase without the gate and without a
\* look at the record.
ImportRegisters(i) ==
    /\ task[i] = "verify" /\ op.kind = "import" /\ Smooth
    /\ Phase("registering") /\ Goto(i, "commit")
    /\ UNCHANGED <<intent, config, pointers, slots, owned, candidates, child, quiet,
                   active, token, locks, fix, history>>

\* A command fails, or the finalizing helper of an import; and its owner may be
\* unable to prove that it is gone.
ChildFails(i) ==
    /\ task[i] \in {"child", "placed"} /\ child[i] = "running" /\ Mishap
    /\ \E proved \in BOOLEAN :
          /\ child' = [child EXCEPT ![i] = IF proved THEN "none" ELSE "lost"]
          /\ Fails(i, proved)
    /\ UNCHANGED <<disk, active, token, fix, history>>

\* A child that nobody waits for ends.
ChildGoes(i) ==
    /\ child[i] = "lost" /\ Smooth
    /\ child' = [child EXCEPT ![i] = "none"]
    /\ UNCHANGED <<disk, task, quiet, active, token, locks, fix, history>>

-------------------------------------------------------------------------------
(* Publishing                                                              *)

NotAskedAgain(i) == TRUE   \* mutant: the token is not looked at under the gate
NotCancelled(i) == ~Cancelled(i)

\* The guards of the publication and the checks under them.  A switch to a tag
\* that is installed already comes here directly (reuse_prepared_release).
PublishBegins(i) ==
    /\ \/ task[i] = "verify" /\ op.kind = "switch" /\ NextInLine
       \/ task[i] = "start" /\ op.kind = "switch" /\ NextInLine
       \/ task[i] = "commit"
       \/ task[i] = "start" /\ op.kind = "select"
    /\ gate = None /\ Smooth
    /\ IF /\ NotCancelled(i) /\ updater \in {None, i}
          /\ task[i] = "verify" => (op.phase = "verifying" /\ ~op.cleanup)
       THEN /\ Goto(i, "publish")
            /\ lifecycle' = i /\ updater' = i /\ gate' = i
            /\ IF task[i] = "verify" THEN Phase("registering") ELSE UNCHANGED op
            /\ UNCHANGED quiet
       ELSE Fails(i, TRUE) /\ UNCHANGED op
    /\ UNCHANGED <<intent, config, pointers, slots, owned, candidates, child, active,
                   token, fix, history>>

\* prepare_publication.  A switch only prepares a slot; a selection publishes a
\* release that is there, and an import the slot and runtime it brings.
Intend(i) ==
    /\ task[i] = "publish" /\ Smooth
    /\ \E s \in IF op.kind = "select" THEN slots ELSE {i} :
          intent' = [id |-> i, kind |-> op.kind, only |-> op.kind = "switch", committed |-> FALSE,
                     preserve |-> FALSE, previous |-> Tuple,
                     target |->
                        IF op.kind = "switch" THEN Tuple
                        ELSE [config |-> [n |-> i, runtime |-> IF op.kind = "import" THEN i
                                                               ELSE Bundled],
                              pointers |-> [current |-> s, lkg |-> Fallback(s)]],
                     new |-> i \in candidates]
    /\ Goto(i, "intent")
    /\ decided' = Tuple /\ edited' = FALSE
    /\ UNCHANGED <<op, config, pointers, slots, owned, candidates, child, quiet, active,
                   token, locks, fix, told>>

\* register_prepared: the candidate becomes the slot.  An import also moves its
\* runtime into place, and a helper finalizes both.
Place(i) ==
    /\ task[i] = "intent" /\ intent.new /\ Smooth
    /\ slots' = slots \cup {i}
    /\ Goto(i, "placed")
    /\ IF op.kind = "import"
       THEN /\ owned' = owned \cup {i} /\ UNCHANGED candidates
            /\ child' = [child EXCEPT ![i] = "running"]
       ELSE candidates' = candidates \ {i} /\ UNCHANGED <<owned, child>>
    /\ UNCHANGED <<op, intent, config, pointers, quiet, active, token, locks, fix, history>>

\* write_if_current, once the helper has finished.
ImportConfig(i) ==
    /\ task[i] = "placed" /\ op.kind = "import" /\ Smooth
    /\ child' = [child EXCEPT ![i] = "none"]
    /\ IF ~Cancelled(i) /\ config = intent.previous.config
       THEN config' = intent.target.config /\ Goto(i, "config") /\ UNCHANGED <<quiet, locks>>
       ELSE Fails(i, TRUE) /\ UNCHANGED config
    /\ UNCHANGED <<op, intent, pointers, slots, owned, candidates, active, token, fix,
                   history>>

\* promote_with_rollback of an import, promote_confirmed of a selection.
Promote(i) ==
    /\ task[i] = "config" \/ (task[i] = "intent" /\ op.kind = "select")
    /\ Smooth
    /\ pointers' = intent.target.pointers
    /\ Goto(i, "promoted")
    /\ UNCHANGED <<op, intent, config, slots, owned, candidates, child, quiet, active,
                   token, locks, fix, history>>

\* The one decision.  The task then reconciles, like everybody who finds it.
Commit(i) ==
    /\ \/ task[i] = "promoted"
       \/ task[i] = "placed" /\ op.kind = "switch"
       \/ task[i] = "intent" /\ op.kind = "switch" /\ ~intent.new
    /\ Smooth
    /\ intent' = [intent EXCEPT !.committed = TRUE]
    /\ decided' = IF intent.only THEN decided ELSE intent.target
    /\ Goto(i, "finish")
    /\ fix' = [by |-> i, at |-> "check"]
    /\ UNCHANGED <<op, config, pointers, slots, owned, candidates, child, quiet, active,
                   token, locks, edited, told>>

\* A step of the publication fails, before or after its intent is durable.
StepFails(i) ==
    /\ task[i] \in {"publish", "intent", "placed", "config", "promoted"}
    /\ child[i] = "none" /\ Mishap
    /\ Fails(i, TRUE)
    /\ UNCHANGED <<disk, child, active, token, fix, history>>

-------------------------------------------------------------------------------
(* Reconciling: by a task, by its settlement, by a user, or by a recovery  *)

FixAt(place) == fix' = [fix EXCEPT !.at = place]
Fixing(place) == fix.at = place

ResidueFirst ==   \* mutant: the files go before the selection is taken back
    IF intent.preserve THEN "record"
    ELSE IF ~intent.committed THEN "residue"
    ELSE IF intent.only THEN "candidate" ELSE "config"

\* Where a reconciliation goes first: files under preservation stay; what
\* neither the previous nor the target configuration is stays as well.
FirstStep ==
    IF intent.preserve THEN "record"
    ELSE IF intent.only THEN (IF intent.committed THEN "candidate" ELSE "residue")
    ELSE "config"
ConflictOfUncommitted ==   \* mutant: a committed intent is published in any case
    ~intent.preserve /\ ~intent.only /\ ~intent.committed
    /\ config \notin {intent.previous.config, intent.target.config}
Conflict ==
    ~intent.preserve /\ ~intent.only
    /\ config \notin {intent.previous.config, intent.target.config}

FixBegins ==
    /\ Fixing("check") /\ ~Conflict /\ Smooth
    /\ FixAt(FirstStep)
    /\ UNCHANGED <<disk, child, task, quiet, active, token, locks, history>>

WantedForward ==   \* mutant: what was published halfway is completed
    IF intent.committed \/ config = intent.target.config THEN intent.target ELSE intent.previous
Wanted == IF intent.committed THEN intent.target ELSE intent.previous

FixConfig ==
    /\ Fixing("config") /\ Smooth
    /\ config' = Wanted.config
    /\ FixAt("pointers")
    /\ UNCHANGED <<op, intent, pointers, slots, owned, candidates, child, task, quiet,
                   active, token, locks, history>>

FixPointers ==
    /\ Fixing("pointers") /\ Smooth
    /\ pointers' = Wanted.pointers
    /\ FixAt(IF intent.committed THEN "candidate" ELSE "residue")
    /\ UNCHANGED <<op, intent, config, slots, owned, candidates, child, task, quiet,
                   active, token, locks, history>>

FixResidue ==
    /\ Fixing("residue") /\ Smooth
    /\ slots' = slots \ (IF intent.new THEN {intent.id} ELSE {})
    /\ owned' = owned \ {intent.id}
    /\ FixAt("candidate")
    /\ UNCHANGED <<op, intent, config, pointers, candidates, child, task, quiet,
                   active, token, locks, history>>

FixCandidate ==
    /\ Fixing("candidate") /\ Smooth
    /\ candidates' = candidates \ {intent.id}
    /\ FixAt("record")
    /\ UNCHANGED <<op, intent, config, pointers, slots, owned, child, task, quiet,
                   active, token, locks, history>>

OutcomePreserved ==   \* mutant: a phase that nobody takes for an end
    IF intent.preserve THEN "preserved"
    ELSE IF ~intent.committed THEN "failed"
    ELSE IF intent.only THEN "prepared" ELSE "succeeded"
Outcome ==
    IF intent.preserve THEN "cancelled"
    ELSE IF ~intent.committed THEN "failed"
    ELSE IF intent.only THEN "prepared" ELSE "succeeded"

\* finish_publication: the record of the operation, and then the intent goes.
FixRecord ==
    /\ Fixing("record") /\ Smooth
    /\ op' = [id |-> intent.id, kind |-> intent.kind, phase |-> Outcome,
              quiescent |-> TRUE, cleanup |-> FALSE]
    /\ FixAt("intent")
    /\ UNCHANGED <<intent, config, pointers, slots, owned, candidates, child, task, quiet,
                   active, token, locks, history>>

\* What goes on when the reconciliation is through.
FixEnds ==
    /\ Fixing("intent") /\ Smooth
    /\ intent' = None
    /\ decided' = IF intent.preserve THEN Tuple ELSE decided
    /\ edited' = (edited /\ ~intent.preserve)
    /\ CASE fix.by \in Ids ->
              LET i == fix.by
              IN /\ fix' = Idle
                 /\ IF task[i] = "settling" /\ Outcome \notin {"succeeded", "prepared"}
                    THEN Goto(i, "close") /\ UNCHANGED locks
                    ELSE /\ Goto(i, "release")
                         /\ IF op.kind = "select"
                            THEN gate' = None /\ UNCHANGED <<lifecycle, updater>>
                            ELSE Release(i)
         [] fix.by = Recoverer -> FixAt("operation") /\ UNCHANGED <<task, locks>>
         [] fix.by = User -> fix' = Idle /\ Release(User) /\ UNCHANGED task
    /\ UNCHANGED <<op, config, pointers, slots, owned, candidates, child, quiet, active,
                   token, told>>

\* write_failure_pending: what is left will be settled by a cancellation, a
\* retry or a restart.
Pending(i) ==
    op' = IF Mine(i)
          THEN [op EXCEPT !.phase = IF @ = "cancelling" THEN "cancelled" ELSE "failed",
                          !.quiescent = quiet[i], !.cleanup = TRUE]
          ELSE op

\* The reconciliation fails: the task goes on to settle, or gives up; anybody
\* else leaves everything to the next one.
FixFails ==
    /\ fix.at \in {"check", "config", "pointers", "residue", "candidate", "record", "intent"}
    /\ Mishap \/ (Fixing("check") /\ Conflict /\ Smooth)
    /\ fix' = Idle
    /\ IF fix.by \in Ids
       THEN IF task[fix.by] = "finish"
            THEN Fails(fix.by, TRUE) /\ UNCHANGED op
            ELSE /\ Pending(fix.by) /\ Goto(fix.by, "release") /\ Release(fix.by)
                 /\ UNCHANGED quiet
       ELSE Release(fix.by) /\ UNCHANGED <<op, task, quiet>>
    /\ UNCHANGED <<intent, config, pointers, slots, owned, candidates, child, active,
                   token, history>>

-------------------------------------------------------------------------------
(* Settling a failed task                                                  *)

SettleUnproved(i) == TRUE   \* mutant: a failed command is taken to be gone
Proved(i) == quiet[i]

\* settle_failure under its three locks: nothing is touched while a child may
\* be alive, or while another update runs.
Settle(i) ==
    /\ task[i] = "settle" /\ Smooth
    /\ lifecycle = None /\ gate = None
    /\ IF updater # None \/ ~Proved(i)
       THEN /\ Pending(i) /\ Goto(i, "release")
            /\ UNCHANGED <<locks, fix>>
       ELSE /\ lifecycle' = i /\ updater' = i /\ gate' = i
            /\ IF intent # None
               THEN Goto(i, "settling") /\ fix' = [by |-> i, at |-> "check"]
               ELSE Goto(i, "close") /\ UNCHANGED fix
            /\ UNCHANGED op
    /\ UNCHANGED <<intent, config, pointers, slots, owned, candidates, child, quiet, active,
                   token, history>>

\* The end of the operation is recorded before its candidate is removed.
Close(i) ==
    /\ task[i] = "close" /\ Smooth
    /\ Pending(i)
    /\ Goto(i, "clean")
    /\ UNCHANGED <<intent, config, pointers, slots, owned, candidates, child, quiet,
                   active, token, locks, fix, history>>

Clean(i) ==
    /\ task[i] = "clean"
    /\ \/ /\ Smooth
          /\ candidates' = candidates \ {i}
          /\ op' = IF Mine(i) THEN [op EXCEPT !.cleanup = FALSE] ELSE op
       \/ Mishap /\ UNCHANGED <<candidates, op>>
    /\ Goto(i, "release") /\ Release(i)
    /\ UNCHANGED <<intent, config, pointers, slots, owned, child, quiet, active, token,
                   fix, history>>

ReleasableAlways(i) == TRUE   \* mutant: the end of a task releases the owner
Releasable(i) == Mine(i) /\ Terminal /\ op.quiescent

\* release_settled_owner; the handler of a selection answers.
ReleaseOwner(i) ==
    /\ task[i] = "release" /\ gate = None /\ Smooth
    /\ active' = (active /\ ~Releasable(i))
    /\ Goto(i, "done") /\ Release(i)
    /\ UNCHANGED <<disk, child, quiet, token, fix, history>>

-------------------------------------------------------------------------------
(* Requests                                                                *)

\* cancel: the token first, without the gate.
CancelToken ==
    /\ token # None /\ ~token.cancelled /\ Smooth
    /\ op # None /\ op.id = token.id
    /\ token' = [token EXCEPT !.cancelled = TRUE]
    /\ UNCHANGED <<disk, child, task, quiet, active, locks, fix, history>>

ChildrenGone == \A i \in Ids : child[i] # "lost"

\* cancel, under the gate: a running operation is told to stop; the residue of
\* one that has ended is removed once its children are known to be gone.
CancelRecord ==
    /\ op # None /\ gate = None
    /\ token # None /\ token.id = op.id => token.cancelled
    /\ \/ /\ ~Terminal /\ Smooth
          /\ Phase("cancelling") /\ told' = told \cup {op.id}
          /\ UNCHANGED <<candidates, active>>
       \/ /\ Terminal /\ op.cleanup /\ (op.quiescent \/ ChildrenGone)
          /\ \/ Smooth /\ candidates' = candidates \ {op.id}
                /\ op' = [op EXCEPT !.quiescent = TRUE, !.cleanup = FALSE]
             \/ Mishap /\ op' = [op EXCEPT !.quiescent = TRUE] /\ UNCHANGED candidates
          /\ active' = FALSE /\ UNCHANGED told
       \/ /\ Terminal /\ ~op.cleanup /\ op.quiescent /\ Smooth
          /\ active' = FALSE /\ UNCHANGED <<op, candidates, told>>
    /\ UNCHANGED <<intent, config, pointers, slots, owned, child, task, quiet, token,
                   locks, fix, decided, edited>>

\* clear_finished
ClearFinished ==
    /\ Terminal /\ ~op.cleanup /\ ~active /\ intent = None /\ gate = None /\ Smooth
    /\ op' = None
    /\ UNCHANGED <<intent, config, pointers, slots, owned, candidates, child, task, quiet,
                   active, token, locks, fix, history>>

\* Another operation of the updater takes and frees the update gate.
OtherUpdate ==
    /\ Smooth
    /\ \/ updater = None /\ intent = None /\ ~Unsettled /\ updater' = Other
       \/ updater = Other /\ updater' = None
    /\ UNCHANGED <<disk, child, task, quiet, active, token, lifecycle, gate, fix, history>>

\* A handler that saves the configuration: only when nothing is unsettled.
ManualSave ==
    /\ Command
    /\ lifecycle = None /\ updater = None /\ gate = None /\ intent = None /\ ~Unsettled
    /\ config' = Saved
    /\ decided' = [decided EXCEPT !.config = Saved]
    /\ UNCHANGED <<op, intent, pointers, slots, owned, candidates, child, task, quiet,
                   active, token, locks, fix, edited, told>>

\* recover_explicit: a user retries the publication, or keeps what is there.
\* The durable decision to keep it is the first step.
RecoverExplicit(preserve) ==
    /\ intent # None /\ ~active
    /\ lifecycle = None /\ updater = None /\ gate = None
    /\ IF preserve THEN Command ELSE Smooth
    /\ lifecycle' = User /\ updater' = User /\ gate' = User
    /\ intent' = [intent EXCEPT !.preserve = @ \/ preserve]
    /\ fix' = [by |-> User, at |-> "check"]
    /\ UNCHANGED <<op, config, pointers, slots, owned, candidates, child, task, quiet,
                   active, token, history>>

\* Somebody edits the configuration.
Edit ==
    /\ Mishap
    /\ config' = Edited
    /\ decided' = IF intent = None \/ intent.only
                  THEN [decided EXCEPT !.config = Edited] ELSE decided
    /\ edited' = (edited \/ (intent # None /\ fix # Idle))
    /\ UNCHANGED <<op, intent, pointers, slots, owned, candidates, child, task, quiet,
                   active, token, locks, fix, told>>

-------------------------------------------------------------------------------
(* Crashes and the recovery after them                                     *)

\* The Agent dies; its children may outlive it.  The new Agent recovers before
\* it serves anybody, which the locks stand for.
Crash ==
    /\ Mishap
    /\ child' = [i \in Ids |-> IF child[i] = "running" THEN "lost" ELSE child[i]]
    /\ task' = [i \in Ids |-> IF task[i] = "none" THEN "none" ELSE "done"]
    /\ quiet' = [i \in Ids |-> TRUE]
    /\ active' = FALSE /\ token' = None
    /\ lifecycle' = Recoverer /\ updater' = Recoverer /\ gate' = Recoverer
    /\ fix' = [by |-> Recoverer, at |-> "children"]
    /\ UNCHANGED <<disk, history>>

\* try_acquire_maintenance: a caller that finds something unsettled recovers it.
Maintain ==
    /\ lifecycle = None /\ updater = None /\ gate = None /\ ~active
    /\ op # None /\ (op.cleanup \/ ~op.quiescent) /\ Smooth
    /\ lifecycle' = Recoverer /\ updater' = Recoverer /\ gate' = Recoverer
    /\ fix' = [by |-> Recoverer, at |-> "children"]
    /\ UNCHANGED <<disk, child, task, quiet, active, token, history>>

\* prune_uninstalled_history
Obsolete ==
    /\ intent = None /\ Terminal /\ ~op.cleanup /\ op.quiescent
    /\ op.id \notin candidates \cup slots /\ op.kind # "select"

\* recover: with a child left, everything stays, and the Agent is available.
RecoverChildren ==
    /\ Fixing("children") /\ Smooth
    /\ op' = IF Obsolete THEN None ELSE op
    /\ IF ChildrenGone
       THEN FixAt(IF intent # None THEN "check" ELSE "operation") /\ UNCHANGED locks
       ELSE fix' = Idle /\ Release(Recoverer)
    /\ UNCHANGED <<intent, config, pointers, slots, owned, candidates, child, task, quiet,
                   active, token, history>>

RecoverOperation ==
    /\ Fixing("operation") /\ Smooth
    /\ IF op # None /\ (op.cleanup \/ ~Terminal)
       THEN /\ FixAt("clean") /\ UNCHANGED locks
            /\ op' = [op EXCEPT !.phase = IF Terminal THEN @ ELSE "failed",
                                !.quiescent = TRUE, !.cleanup = TRUE]
       ELSE fix' = Idle /\ Release(Recoverer) /\ UNCHANGED op
    /\ UNCHANGED <<intent, config, pointers, slots, owned, candidates, child, task, quiet,
                   active, token, history>>

RecoverCandidate ==
    /\ Fixing("clean")
    /\ \/ /\ Smooth
          /\ candidates' = candidates \ {op.id}
          /\ op' = [op EXCEPT !.cleanup = FALSE]
       \/ Mishap /\ UNCHANGED <<candidates, op>>
    /\ fix' = Idle /\ Release(Recoverer)
    /\ UNCHANGED <<intent, config, pointers, slots, owned, child, task, quiet, active,
                   token, history>>

-------------------------------------------------------------------------------
(* Specification                                                           *)

Work(i) ==
    \/ BeginAgain(i) \/ Start(i) \/ ChildEnds(i) \/ ImportRegisters(i) \/ ChildFails(i)
    \/ PublishBegins(i) \/ Intend(i) \/ Place(i) \/ ImportConfig(i) \/ Promote(i)
    \/ Commit(i) \/ StepFails(i)
    \/ Settle(i) \/ Close(i) \/ Clean(i) \/ ReleaseOwner(i)
Reconcile ==
    \/ FixBegins \/ FixConfig \/ FixPointers \/ FixResidue \/ FixCandidate
    \/ FixRecord \/ FixEnds \/ FixFails
Recovery == RecoverChildren \/ RecoverOperation \/ RecoverCandidate
Request ==
    \/ \E kind \in Kinds : Begin(kind)
    \/ CancelToken \/ CancelRecord \/ ClearFinished \/ OtherUpdate \/ ManualSave
    \/ \E preserve \in BOOLEAN : RecoverExplicit(preserve)
    \/ Maintain
Environment == Edit \/ Crash \/ \E i \in Ids : ChildGoes(i)
Next == (\E i \in Ids : Work(i)) \/ Reconcile \/ Recovery \/ Request \/ Environment
Spec == Init /\ [][Next]_vars

\* The tasks, the reconciliations and the recoveries go on running, other
\* updates end, and children end.  Nobody has to ask for anything, and nothing
\* has to go wrong.
Fairness ==
    /\ \A i \in Ids : WF_vars(Work(i)) /\ SF_vars(Settle(i)) /\ SF_vars(ReleaseOwner(i))
    /\ WF_vars(Reconcile) /\ WF_vars(Recovery)
    /\ WF_vars(updater = Other /\ OtherUpdate)
FairSpec == Spec /\ Fairness

-------------------------------------------------------------------------------
(* Properties                                                              *)

\* The variables keep their types.
TypeOK ==
    /\ op \in Operations \cup {None} /\ intent \in Intents \cup {None}
    /\ config \in Versions /\ pointers \in Pointers
    /\ slots \subseteq Slots /\ owned \subseteq Ids /\ candidates \subseteq Ids
    /\ child \in [Ids -> {"none", "running", "lost"}]
    /\ task \in [Ids -> Places] /\ quiet \in [Ids -> BOOLEAN]
    /\ active \in BOOLEAN
    /\ token \in Tokens \cup {None}
    /\ lifecycle \in Holders /\ updater \in Holders /\ gate \in Holders
    /\ fix \in [by : Holders, at : Fixes]
    /\ decided \in Tuples /\ edited \in BOOLEAN /\ told \subseteq Ids
    /\ ops \in 0 .. MaxOps /\ commands \in 0 .. MaxCommands /\ mishaps \in 0 .. MaxMishaps

\* Once no intent is left, the configuration and the pointers are together
\* what the last decision made them: before a commit the old tuple, from the
\* commit on the new one, whoever reconciled and wherever it was interrupted;
\* unless somebody edited the configuration while it was reconciled.
\* (recover_publication, "the commit record is the only decision")
TupleIsWhole == intent = None /\ ~edited => Tuple = decided

\* What the pointers and the configuration name is there: a slot, a runtime.
\* An interrupted publication takes the selection back before it removes the
\* files, and a committed one keeps them.  (reconcile_publication)
SelectionExists ==
    /\ pointers.current \in slots \cup {None} /\ pointers.lkg \in slots \cup {None}
    /\ config.runtime \in owned \cup {None, Bundled}

\* No task works on an operation that is not the recorded one, or whose owner
\* has been released: a late end of one operation never frees the next one.
\* (release_settled_owner, begin_with_details)
WorkIsOwned ==
    \A i \in Ids :
        task[i] \in Working => active /\ Mine(i)

\* A cancellation that was accepted while the operation ran is never followed
\* by a commit of that operation.  (cancel, ensure_not_cancelled under the gate)
CancelIsHonoured ==
    [][\A i \in told : (intent' # None /\ intent'.id = i /\ intent'.committed)
                           => (intent # None /\ intent.committed)]_vars

Removed == (candidates \ candidates') \cup (owned \ owned')
ByUser == fix.by = User

\* A task, a cancellation and a recovery remove a candidate or a runtime only
\* when no child process of that operation can still be working in it.
\* (settle_failure, cancel, recover)
CleanupFollowsChildren == [][ByUser \/ \A i \in Removed : child[i] = "none"]_vars

\* An edit that neither the previous nor the target configuration explains is
\* not overwritten, unless it comes while the reconciliation is under way.
\* (the conflict of reconcile_publication, write_if_current)
EditsSurvive ==
    [][(intent # None /\ ~intent.only /\ ~edited
          /\ config \notin {intent.previous.config, intent.target.config})
        => (config' = config \/ Edit)]_vars

\* "Recovery proves quiescence before deleting their working files", also when
\* a user asks for it.  (recover_explicit)
RecoveryFollowsChildren == [][ByUser => \A i \in Removed : child[i] = "none"]_vars

\* Every operation that was begun comes to an end.
OperationEnds == \A i \in Ids : (task[i] = "start") ~> (task[i] = "done")
=============================================================================

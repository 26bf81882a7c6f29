--------------------------- MODULE CheckpointRestore ---------------------------
(***************************************************************************)
(* Restoring a checkpoint (crates/nexus-agent/src/checkpoint_api.rs,       *)
(* startup recovery in lib.rs, the journal in crates/nexus-core).          *)
(*                                                                         *)
(* A checkpoint names a release, a profile and, unless it is a legacy one, *)
(* a content snapshot.  An outer journal (Prepared, Committed) covers the  *)
(* transaction of the engine (ContentRestore) and the change of the        *)
(* selection: the release pointers, the active profile, and what the Agent *)
(* holds in memory.  Requests, their detached owners and startup recovery  *)
(* are serialised by the lifecycle mutex: one owner at a time; the Agent   *)
(* may die under it at every step.                                         *)
(***************************************************************************)
EXTENDS ContentRestore

CONSTANTS
    Releases,     \* installed release slots
    Profiles,     \* profiles of the catalog
    Legacy,       \* whether checkpoints without a snapshot are requested too
    StaleAllowed, \* whether a stored fallback may lack matching health evidence
    MaxRestores,  \* bound on restore requests
    Mishaps,      \* kinds of failure the environment may inject
    MaxMishaps    \* bound on injected failures

MishapKinds == {"crash", "io", "rollback", "edit"}

ASSUME ProtocolAssumption ==
    /\ Releases # {} /\ Profiles # {}
    /\ "none" \notin Releases
    /\ Legacy \in BOOLEAN /\ StaleAllowed \in BOOLEAN
    /\ MaxRestores \in Nat /\ MaxMishaps \in Nat
    /\ Mishaps \subseteq MishapKinds
    /\ 1..(MaxRestores + 1) \subseteq Versions

VARIABLES
    pointers,  \* release pointers on disk: current and last known good
    verified,  \* releases whose health evidence matches
    profile,   \* active profile on disk
    selected,  \* profile and release in the Agent's state
    journal,   \* phase of checkpoint-restore.json
    intent,    \* its intent; what it last held when there is no journal
    owner,     \* the owner of the lifecycle mutex, and where it stands
    decided,   \* history: the journal of the last restore was Committed
    restores,  \* number of restore requests so far
    mishaps    \* number of injected failures so far

outer == <<pointers, verified, profile, selected, journal, intent, owner, decided, restores>>
vars == <<engine, outer, mishaps>>

-------------------------------------------------------------------------------
Pairs == [current: Releases \cup {"none"}, good: Releases \cup {"none"}]
Selections == [pointers: Pairs, profile: Profiles]

\* load_unlocked hides a last known good without matching evidence.
Visible(pair) == [pair EXCEPT !.good = IF @ \in verified THEN @ ELSE "none"]

\* plan_checkpoint_release
Planned(release) ==
    IF Visible(pointers).current = release THEN {Visible(pointers)}
    ELSE LET fallbacks == verified \ {release}
         IN IF fallbacks = {} THEN {[current |-> release, good |-> "none"]}
            ELSE {[current |-> release, good |-> r] : r \in fallbacks}

Kinds == {"idle", "dead", "restore", "undo", "unprepare", "abort", "boot", "settle"}
Steps == {"begin", "apply", "materialize", "mark", "pointers", "profile", "agent",
          "decide", "rollback", "commit", "clear"}
Owners == [kind: Kinds, at: Steps \cup {"none"}, failed: BOOLEAN]

At(kind, at) == [kind |-> kind, at |-> at, failed |-> FALSE]
Nobody == At("idle", "none")
Dead == At("dead", "none")

Stands(at) == owner.at = at
Goes(at) == owner' = [owner EXCEPT !.at = at]
Hands(kind, at) == owner' = At(kind, at)
FailsTo(at) == owner' = [kind |-> owner.kind, at |-> at, failed |-> TRUE]
Done == owner' = Nobody

Alive == owner.kind # "dead"
Free == owner = Nobody
EngineSteps == {"apply", "mark", "rollback", "commit"}

Mishap(k) == k \in Mishaps /\ mishaps < MaxMishaps /\ mishaps' = mishaps + 1
Smooth == UNCHANGED mishaps

Init ==
    /\ EngineInit
    /\ verified \in SUBSET Releases
    /\ pointers \in {p \in Pairs : p.current # "none" /\ p.current # p.good}
    /\ StaleAllowed \/ Visible(pointers) = pointers
    /\ profile \in Profiles
    /\ selected = [profile |-> profile, release |-> pointers.current]
    /\ journal = "none"
    /\ intent = [content |-> FALSE,
                 previous |-> [pointers |-> pointers, profile |-> profile],
                 target |-> [pointers |-> pointers, profile |-> profile]]
    /\ owner = Nobody
    /\ decided = FALSE
    /\ restores = 0
    /\ mishaps = 0

-------------------------------------------------------------------------------
(* Requests                                                                *)

\* checkpoint_restore: a mutation is refused while a content restore is
\* pending (a legacy one is settled first); with a snapshot the engine
\* prepares its transaction, and then the journal is begun.
RequestRestore(release, to, content, changes) ==
    /\ Free /\ journal = "none" /\ restores < MaxRestores
    /\ restores' = restores + 1
    /\ \E target_pair \in Planned(release) :
          intent' = [content |-> content,
                     previous |-> [pointers |-> Visible(pointers), profile |-> profile],
                     target |-> [pointers |-> target_pair, profile |-> to]]
    /\ IF content THEN Prepare(changes, restores + 2) ELSE UNCHANGED engine
    /\ Hands("restore", "begin")
    /\ decided' = FALSE
    /\ UNCHANGED <<pointers, verified, profile, selected, journal>>
    /\ Smooth

\* validate_committed_checkpoint_restore
CommittedMatches ==
    /\ pointers = intent.target.pointers
    /\ profile = intent.target.profile

\* checkpoint_restore_retry
RequestRetry ==
    /\ Free /\ journal # "none" /\ intent.content
    /\ \/ journal = "prepared" /\ Hands("restore", "apply") /\ Begin("apply")
       \/ journal = "committed" /\ CommittedMatches
          /\ Hands("restore", "commit") /\ Begin("commit")
    /\ UNCHANGED <<target, backup, discard, txn>>
    /\ UNCHANGED <<pointers, verified, profile, selected, journal, intent, decided, restores>>
    /\ Smooth

RequestAbortCommitted ==   \* mutant: the phase of the journal is not looked at
    /\ Free /\ journal # "none" /\ intent.content
    /\ Hands("abort", "rollback") /\ Begin("rollback")
    /\ UNCHANGED <<target, backup, discard, txn>>
    /\ UNCHANGED <<pointers, verified, profile, selected, journal, intent, decided, restores>>
    /\ Smooth

\* checkpoint_restore_abort
RequestAbort ==
    /\ Free /\ journal = "prepared" /\ intent.content
    /\ Hands("abort", "rollback") /\ Begin("rollback")
    /\ UNCHANGED <<target, backup, discard, txn>>
    /\ UNCHANGED <<pointers, verified, profile, selected, journal, intent, decided, restores>>
    /\ Smooth

\* settle_checkpoint_restore, at the beginning of every mutation.
RequestSettle ==
    /\ Free /\ journal # "none" /\ ~intent.content
    /\ \/ journal = "prepared" /\ Hands("settle", "pointers")
       \/ journal = "committed" /\ CommittedMatches /\ Hands("settle", "agent")
    /\ UNCHANGED engine
    /\ UNCHANGED <<pointers, verified, profile, selected, journal, intent, decided, restores>>
    /\ Smooth

Request ==
    \/ \E release \in Releases, to \in Profiles :
          \/ \E changes \in [Files -> Changes] : RequestRestore(release, to, TRUE, changes)
          \/ Legacy /\ RequestRestore(release, to, FALSE, <<>>)
    \/ RequestRetry \/ RequestAbort \/ RequestSettle

-------------------------------------------------------------------------------
(* The owner                                                               *)

JournalBeginsLate ==   \* mutant: the journal is not written before the files change
    /\ Stands("begin")
    /\ journal' = IF intent.content THEN journal ELSE "prepared"
    /\ IF intent.content THEN Goes("apply") /\ Begin("apply")
       ELSE Goes("pointers") /\ UNCHANGED call
    /\ UNCHANGED <<target, backup, discard, txn>>
    /\ UNCHANGED <<pointers, verified, profile, selected, intent, decided, restores>>
    /\ Smooth

JournalBegins ==
    /\ Stands("begin")
    /\ journal' = "prepared"
    /\ IF intent.content THEN Goes("apply") /\ Begin("apply")
       ELSE Goes("pointers") /\ UNCHANGED call
    /\ UNCHANGED <<target, backup, discard, txn>>
    /\ UNCHANGED <<pointers, verified, profile, selected, intent, decided, restores>>
    /\ Smooth

\* The engine works inside a call of the owner.
CallRuns ==
    /\ owner.at \in EngineSteps /\ Busy
    /\ EngineStep
    /\ UNCHANGED outer
    /\ Smooth

\* Where a successful call leads.
CallReturns ==
    /\ owner.at \in EngineSteps /\ call.at = "ok"
    /\ call' = Quiescent
    /\ CASE Stands("apply") -> Goes(IF txn.materialize THEN "materialize" ELSE "pointers")
         [] Stands("mark") -> Goes("pointers")
         [] Stands("commit") -> Goes("clear")
         [] Stands("rollback") ->
               IF owner.kind = "unprepare" THEN Done ELSE Goes("pointers")
    /\ UNCHANGED <<target, backup, discard, txn>>
    /\ UNCHANGED <<pointers, verified, profile, selected, journal, intent, decided, restores>>
    /\ Smooth

\* What a starting Agent reads from the stores.
Stored == [profile |-> profile, release |-> Visible(pointers).current]

\* A failed rollback does not keep an undo from restoring the selection; any
\* other failed call leaves the journal to an explicit retry or abort.
CallFailed ==
    /\ owner.at \in EngineSteps /\ call.at = "failed"
    /\ call' = Quiescent
    /\ IF owner.kind = "undo" THEN FailsTo("pointers") ELSE Done
    /\ selected' = IF owner.kind = "boot" THEN Stored ELSE selected
    /\ UNCHANGED <<target, backup, discard, txn>>
    /\ UNCHANGED <<pointers, verified, profile, journal, intent, decided, restores>>
    /\ Smooth

\* pnpm install in the restored profile
Materialize ==
    /\ Stands("materialize")
    /\ Goes("mark") /\ Begin("mark")
    /\ UNCHANGED <<target, backup, discard, txn>>
    /\ UNCHANGED <<pointers, verified, profile, selected, journal, intent, decided, restores>>
    /\ Smooth

\* The selection an owner publishes.
Chosen ==
    IF owner.kind = "restore" \/ journal = "committed" THEN intent.target ELSE intent.previous

WritePointersCurrentOnly ==   \* mutant: the last known good is not compared
    /\ Stands("pointers")
    /\ pointers' = IF Visible(pointers).current = Chosen.pointers.current THEN pointers
                   ELSE [Chosen.pointers EXCEPT !.good = pointers.good]
    /\ Goes("profile")
    /\ UNCHANGED engine
    /\ UNCHANGED <<verified, profile, selected, journal, intent, decided, restores>>
    /\ Smooth

\* restore_release_pointers compares with what load shows.
WritePointers ==
    /\ Stands("pointers")
    /\ pointers' = IF Visible(pointers) = Chosen.pointers THEN pointers ELSE Chosen.pointers
    /\ Goes("profile")
    /\ UNCHANGED engine
    /\ UNCHANGED <<verified, profile, selected, journal, intent, decided, restores>>
    /\ Smooth

WriteProfile ==
    /\ Stands("profile")
    /\ profile' = Chosen.profile
    /\ Goes(IF owner.kind = "boot" THEN "clear" ELSE "agent")
    /\ UNCHANGED engine
    /\ UNCHANGED <<pointers, verified, selected, journal, intent, decided, restores>>
    /\ Smooth

ChosenSelection == [profile |-> Chosen.profile, release |-> Chosen.pointers.current]

AfterSelectionClears ==   \* mutant: a failed rollback is forgotten
    IF owner.kind = "restore" THEN Goes("decide") ELSE Goes("clear")

\* Where the owner goes once the selection is published, or could not be.
AfterSelection ==
    IF owner.kind = "restore" THEN Goes("decide")
    ELSE IF owner.failed THEN Done
    ELSE Goes("clear")

WriteAgent ==
    /\ Stands("agent")
    /\ selected' = ChosenSelection
    /\ AfterSelection
    /\ UNCHANGED engine
    /\ UNCHANGED <<pointers, verified, profile, journal, intent, decided, restores>>
    /\ Smooth

\* mark_checkpoint_committed
Decide ==
    /\ Stands("decide")
    /\ journal' = "committed" /\ decided' = TRUE
    /\ IF intent.content THEN Goes("commit") /\ Begin("commit")
       ELSE Goes("clear") /\ UNCHANGED call
    /\ UNCHANGED <<target, backup, discard, txn>>
    /\ UNCHANGED <<pointers, verified, profile, selected, intent, restores>>
    /\ Smooth

JournalClears ==
    /\ Stands("clear")
    /\ journal' = "none"
    /\ Done
    /\ selected' = IF owner.kind = "boot" THEN Stored ELSE selected
    /\ UNCHANGED engine
    /\ UNCHANGED <<pointers, verified, profile, intent, decided, restores>>
    /\ Smooth

Owner ==
    \/ JournalBegins \/ CallRuns \/ CallReturns \/ CallFailed \/ Materialize
    \/ WritePointers \/ WriteProfile \/ WriteAgent \/ Decide \/ JournalClears

-------------------------------------------------------------------------------
(* Failures and startup recovery                                           *)

\* A step of an engine call fails; a failing rollback is a kind of its own.
CallBreaks ==
    /\ owner.at \in EngineSteps
    /\ CallFails
    /\ UNCHANGED outer
    /\ Mishap(IF call.op = "rollback" THEN "rollback" ELSE "io")

\* Publishing the selection failed: a restore is undone, an undo or an abort
\* goes on with the next part, recovery stops.  The write may have been made.
Undo == IF intent.content THEN Hands("undo", "rollback") /\ Begin("rollback")
        ELSE Hands("undo", "pointers") /\ UNCHANGED call

SelectionBreaks ==
    /\ owner.at \in {"pointers", "profile", "agent"}
    /\ pointers' \in {pointers, IF Stands("pointers") THEN Chosen.pointers ELSE pointers}
    /\ profile' \in {profile, IF Stands("profile") THEN Chosen.profile ELSE profile}
    /\ selected' = IF Stands("agent") THEN ChosenSelection ELSE selected
    /\ \/ owner.kind = "restore" /\ Undo
       \/ /\ owner.kind \in {"undo", "abort"} /\ UNCHANGED call
          /\ IF Stands("agent") THEN Done
             ELSE FailsTo(IF Stands("pointers") THEN "profile" ELSE "agent")
       \/ owner.kind = "settle" /\ Done /\ UNCHANGED call
    /\ UNCHANGED <<target, backup, discard, txn>>
    /\ UNCHANGED <<verified, journal, intent, decided, restores>>
    /\ Mishap("io")

\* begin: the prepared content is rolled back, whether or not the failed
\* write reached the disk.
BeginBreaks ==
    /\ Stands("begin")
    /\ journal' \in {"none", "prepared"}
    /\ IF intent.content THEN Hands("unprepare", "rollback") /\ Begin("rollback")
       ELSE Done /\ UNCHANGED call
    /\ UNCHANGED <<target, backup, discard, txn>>
    /\ UNCHANGED <<pointers, verified, profile, selected, intent, decided, restores>>
    /\ Mishap("io")

\* The outcome of the commit is read again: Committed goes on, Prepared is
\* undone; when it cannot be read everything is left to recovery.
DecideBreaks ==
    /\ Stands("decide")
    /\ \/ journal' = journal /\ decided' = decided /\ Undo
       \/ /\ \/ journal' = journal /\ decided' = decided
             \/ journal' = "committed" /\ decided' = TRUE
          /\ Done /\ UNCHANGED call
    /\ UNCHANGED <<target, backup, discard, txn>>
    /\ UNCHANGED <<pointers, verified, profile, selected, intent, restores>>
    /\ Mishap("io")

\* Materialization or the clearing of the journal fails.
OwnerGivesUp ==
    /\ owner.at \in {"materialize", "clear"} /\ owner.kind # "boot"
    /\ journal' \in {journal, IF Stands("clear") THEN "none" ELSE journal}
    /\ Done
    /\ UNCHANGED engine
    /\ UNCHANGED <<pointers, verified, profile, selected, intent, decided, restores>>
    /\ Mishap("io")

Crash ==
    /\ Alive
    /\ owner' = Dead /\ call' = Quiescent
    /\ UNCHANGED <<target, backup, discard, txn>>
    /\ UNCHANGED <<pointers, verified, profile, selected, journal, intent, decided, restores>>
    /\ Mishap("crash")

\* recover_checkpoint_restore_startup; without work the Agent is up at once.
Boot ==
    /\ ~Alive
    /\ \/ /\ journal = "prepared"
          /\ IF intent.content THEN Hands("boot", "rollback") /\ Begin("rollback")
             ELSE Hands("boot", "pointers") /\ UNCHANGED call
          /\ UNCHANGED selected
       \/ /\ journal = "committed" /\ CommittedMatches
          /\ IF intent.content THEN Hands("boot", "commit") /\ Begin("commit")
             ELSE Hands("boot", "clear") /\ UNCHANGED call
          /\ UNCHANGED selected
       \/ /\ journal = "none" \/ (journal = "committed" /\ ~CommittedMatches)
          /\ Done /\ UNCHANGED call
          /\ selected' = Stored
    /\ UNCHANGED <<target, backup, discard, txn>>
    /\ UNCHANGED <<pointers, verified, profile, journal, intent, decided, restores>>
    /\ Smooth

\* A failing recovery leaves the journal, and the Agent comes up.
BootBreaks ==
    /\ owner.kind = "boot"
    /\ owner.at \in {"pointers", "profile", "clear"}
    /\ pointers' \in {pointers, IF Stands("pointers") THEN Chosen.pointers ELSE pointers}
    /\ profile' \in {profile, IF Stands("profile") THEN Chosen.profile ELSE profile}
    /\ journal' \in {journal, IF Stands("clear") THEN "none" ELSE journal}
    /\ Done
    /\ selected' = [profile |-> profile', release |-> pointers'.current]
    /\ UNCHANGED engine
    /\ UNCHANGED <<verified, intent, decided, restores>>
    /\ Mishap("io")

\* Somebody edits a file of the profile while its restore is under way.
FileEdited ==
    /\ journal = "prepared"
    /\ \E f \in Files : Edit(f)
    /\ UNCHANGED outer
    /\ Mishap("edit")

Failure ==
    \/ CallBreaks \/ SelectionBreaks \/ BeginBreaks \/ DecideBreaks \/ OwnerGivesUp
    \/ Crash \/ BootBreaks \/ FileEdited

Next == Request \/ Owner \/ Boot \/ Failure

Spec == Init /\ [][Next]_vars
-------------------------------------------------------------------------------
(* Properties                                                              *)

\* The state has its type: what the stores, the engine's record and the journal
\* can hold after any handler, recovery or failure.
TypeOK ==
    /\ EngineTypeOK
    /\ pointers \in Pairs /\ verified \subseteq Releases /\ profile \in Profiles
    /\ selected \in [profile: Profiles, release: Releases \cup {"none"}]
    /\ journal \in {"none", "prepared", "committed"}
    /\ intent \in [content: BOOLEAN, previous: Selections, target: Selections]
    /\ owner \in Owners
    /\ decided \in BOOLEAN /\ restores \in 0..MaxRestores /\ mishaps \in 0..MaxMishaps

Settled == Free /\ journal = "none"

Outcome == IF decided THEN intent.target ELSE intent.previous
FileOutcome(op) == IF decided THEN Restored(op) ELSE op.original

\* A settled restore happened entirely or not at all: every file, the stored
\* selection and the Agent's view of it belong to the same side, whichever of
\* complete_content_checkpoint_restore, retry, abort and recovery settled it.
AllOrNothing ==
    Settled =>
        /\ intent.content =>
              \A f \in Files : target[f] \in {FileOutcome(txn.ops[f]), Edited}
        /\ Visible(pointers) = Visible(Outcome.pointers)
        /\ profile = Outcome.profile
        /\ selected = [profile |-> profile, release |-> pointers.current]

\* Until the journal is Committed every original that apply_restore or
\* rollback_restore moves is in its place, or in the undo directory.
OriginalsSurvive ==
    (~decided /\ txn.status \notin Terminal) =>
        \A f \in Files :
            LET original == txn.ops[f].original IN
            original # Absent => original \in {target[f], backup[f]} \/ target[f] = Edited

\* No undo copy (it holds secrets) is left behind a transaction that commit_restore
\* or rollback_restore has finished.
NoUndoCopiesLeft == (txn.status \in Terminal /\ ~Busy) => Left = {}

\* apply_restore touches files under a journal only, so that a new Agent finds out
\* in recover_checkpoint_restore_startup.
ChangesAreJournaled ==
    txn.status \in {"applying", "applied", "committing"} => journal # "none"

\* After mark_checkpoint_committed no step of an owner, of recovery or of a
\* failure changes a file until the next restore.
DecisionIsFinal == [][decided /\ decided' => target' = target]_vars

\* Owners are detached tasks, the Launcher starts the Agent again, and somebody
\* ends a restore that is shown as pending.
Fairness ==
    /\ WF_vars(Owner) /\ WF_vars(Boot)
    /\ SF_vars(RequestAbort) /\ SF_vars(journal = "committed" /\ RequestRetry)
    /\ SF_vars(RequestSettle)

FairSpec == Spec /\ Fairness

(* Inductive strengthenings (used by the proofs)                           *)

Settling == txn.status \in Terminal \cup {"prepared"}

\* The call that runs is the one the owner waits for.
CallIsOwned ==
    /\ owner.at \in EngineSteps => call.op = owner.at
    /\ Busy => owner.at \in EngineSteps
    /\ owner.at \in {"begin", "apply", "materialize", "mark", "decide"} => owner.kind = "restore"
    /\ ~Alive => owner.at = "none"

\* Whoever may still undo the restore knows that it is not decided.
OwnerKnowsDecision ==
    /\ journal = "prepared" => ~decided
    /\ journal = "committed" => decided
    /\ owner.at \in {"begin", "apply", "materialize", "mark", "rollback", "decide"} => ~decided
    /\ owner.kind = "restore" /\ owner.at \in {"pointers", "profile", "agent"} => ~decided

\* What a call knows of the record: what it read, and what it leaves.
CallKnowsRecord ==
    /\ Running("apply", "files") => txn.status = "applying"
    /\ Running("rollback", "files") => txn.status \in {"applying", "applied"}
    /\ Running("rollback", "ok") => txn.status = "rolled_back"
    /\ Running("commit", "ok") => txn.status = "committed"

\* The undo directory of a transaction is in use only while its record is active.
UndoCopiesAreNamed == Settling => Left = {}

\* The journal is cleared by an owner that finished the transaction.
RecordIsJournaled ==
    /\ ~Settling => journal # "none" /\ intent.content
    /\ owner.at = "apply" => journal # "none" /\ intent.content
    /\ owner.at \in {"begin", "clear"} => Settling
    /\ owner.at \in {"pointers", "profile", "agent"} =>
          owner.kind = "restore" \/ owner.failed \/ Settling
    /\ owner.failed => owner.kind \in {"undo", "abort"}

\* The inductive invariant: call, owner, record and journal agree, so that every
\* handler finds the transaction the one before it left.
ProtocolIsConsistent ==
    /\ CallIsOwned /\ OwnerKnowsDecision /\ CallKnowsRecord
    /\ UndoCopiesAreNamed /\ RecordIsJournaled

\* Whether an undo has nothing left to do for a file.
Untouched(f) == txn.ops[f].status \in {"pending", "rolled_back"}

\* Copies of originals belong to operations under way: a rollback removes undo
\* copies only after it has moved every original back.
CopiesFollowRecord ==
    /\ \A f \in Files : Untouched(f) => backup[f] = Absent
    /\ txn.status = "prepared" => \A f \in Files : target[f] \in {txn.ops[f].original, Edited}
    /\ Running("rollback", "files") =>
          \A f \in Files : /\ f > call.file => Untouched(f)
                           /\ f = call.file /\ call.moved => backup[f] = Absent
    /\ call.at = "cleanup" =>
          \/ call.op = "commit"
          \/ call.op = "rollback" /\ (Settling \/ \A f \in Files : Untouched(f))
    /\ owner.at = "commit" => decided

\* Which owner may stand where, under which journal.
OwnerFollowsJournal ==
    /\ owner.kind \in {"idle", "dead"} => owner.at = "none"
    /\ owner.kind = "restore" =>
          /\ owner.at \in Steps \ {"rollback"}
          /\ journal = IF Stands("begin") THEN "none"
                       ELSE IF owner.at \in {"commit", "clear"} THEN "committed" ELSE "prepared"
    /\ owner.kind \in {"undo", "abort"} =>
          journal = "prepared" /\ owner.at \in {"rollback", "pointers", "profile", "agent", "clear"}
    /\ owner.kind = "settle" =>
          journal # "none" /\ owner.at \in {"pointers", "profile", "agent", "clear"}
    /\ owner.kind = "boot" =>
          journal # "none" /\ owner.at \in {"rollback", "commit", "pointers", "profile", "clear"}
    /\ owner.kind = "unprepare" => Stands("rollback")
    /\ owner.at \in EngineSteps \cup {"materialize"} => intent.content
    /\ Stands("commit") => journal = "committed"
    /\ owner.failed =>
          owner.kind \in {"undo", "abort"} /\ owner.at \in {"pointers", "profile", "agent"}

\* Nobody else writes the files, no rollback fails, and a stored fallback has its
\* evidence: what the whole-or-nothing properties need.
Undisturbed == Mishaps \cap {"rollback", "edit"} = {} /\ ~StaleAllowed

\* load_unlocked shows every pair that is stored or planned as it is.
NothingIsStale ==
    /\ Visible(pointers) = pointers
    /\ Visible(intent.previous.pointers) = intent.previous.pointers
    /\ Visible(intent.target.pointers) = intent.target.pointers

\* How far an owner has published the selection, and what the Agent holds of it.
SelectionFollowsOwner ==
    /\ journal # "prepared" => pointers = Outcome.pointers /\ profile = Outcome.profile
    /\ Stands("profile") /\ ~owner.failed => pointers = Chosen.pointers
    /\ owner.at \in {"agent", "decide", "clear"} /\ ~owner.failed =>
          pointers = Chosen.pointers /\ profile = Chosen.profile
    /\ /\ Alive /\ owner.kind # "boot"
       /\ journal # "prepared" \/ owner.at \in {"decide", "clear"}
       => selected = [profile |-> profile, release |-> pointers.current]

\* A file in its place; moved aside; written over, with its original aside.
Kept(op, now, copy) == now = op.original /\ copy = Absent
SetAside(op, now, copy) == now = Absent /\ copy = op.original
Replaced(op, now, copy) == op.desired # Omitted /\ now = op.desired /\ copy = op.original

\* How far an apply has come with a file of each status.
Forward(op, now, copy, aside) ==
    /\ aside = Absent
    /\ \/ op.status = "pending" /\ Kept(op, now, copy)
       \/ /\ op.status = "applying" /\ op.desired # Omitted
          /\ Kept(op, now, copy) \/ SetAside(op, now, copy)
       \/ /\ op.status = "backed_up" /\ op.desired # Omitted
          /\ SetAside(op, now, copy) \/ Replaced(op, now, copy)
       \/ /\ op.status = "applied"
          /\ IF op.desired = Omitted THEN Kept(op, now, copy) ELSE Replaced(op, now, copy)

\* A rollback has brought the file back, whether or not the record says so.
Back(op, now, copy, aside) ==
    /\ Kept(op, now, copy)
    /\ \/ op.status \in {"pending", "rolled_back"}
       \/ /\ op.original # Absent \/ op.status = "applying"
          /\ aside = Absent
       \/ op.status = "backed_up" /\ op.desired # Omitted /\ aside \in {Absent, op.desired}
       \/ op.status = "applied" /\ aside = IF op.desired = Omitted THEN Absent ELSE op.desired

IsForward(f) == Forward(txn.ops[f], target[f], backup[f], discard[f])
IsBack(f) == Back(txn.ops[f], target[f], backup[f], discard[f])

\* A rollback runs, or a new Agent will run one.
Undoing == Stands("rollback") \/ (~Alive /\ journal = "prepared")

\* The files are what the record says, and only a rollback goes backwards.
FilesFollowRecord ==
    /\ txn.status \in {"prepared", "rolled_back"} => \A f \in Files : target[f] = txn.ops[f].original
    /\ txn.status \in {"committing", "committed"} =>
          \A f \in Files : target[f] = Restored(txn.ops[f])
    /\ txn.status = "prepared" => \A f \in Files : txn.ops[f].status = "pending"
    /\ txn.status \in {"applying", "applied"} =>
          \A f \in Files : IsForward(f) \/ (Undoing /\ IsBack(f))
    /\ txn.status = "applied" /\ ~Undoing => \A f \in Files : txn.ops[f].status = "applied"

\* What a running call has done, and that a rollback gets to its end.
CallFollowsFiles ==
    /\ Running("apply", "files") =>
          \A f \in Files :
             /\ f < call.file => txn.ops[f].status = "applied"
             /\ f = call.file /\ call.moved =>
                   txn.ops[f].status = "backed_up" /\ target[f] = txn.ops[f].desired
    /\ Running("apply", "ok") => txn.status = "applied"
    /\ Running("rollback", "files") /\ call.moved =>
          \A f \in Files : f = call.file => IsBack(f)
    /\ Running("commit", "cleanup") => txn.status \in {"committing", "committed"}
    /\ ~Running("rollback", "failed")

\* The record is on the side the journal has decided for.
RecordFollowsDecision ==
    intent.content =>
       /\ txn.status \in IF decided THEN {"applied", "committing", "committed"}
                         ELSE {"prepared", "applying", "applied", "rolled_back"}
       /\ owner.kind = "restore" /\ Stands("begin") => txn.status = "prepared"
       /\ owner.kind = "restore"
             /\ owner.at \in {"materialize", "mark", "pointers", "profile", "agent", "decide"}
          => txn.status = "applied"

-------------------------------------------------------------------------------
(* The contract: the world changes in one step, when the journal becomes   *)
(* Committed.                                                              *)

UnderWay == journal # "none" \/ owner.kind \notin {"idle", "dead"}

World(files, selection) ==
    [files |-> files, pointers |-> Visible(selection.pointers), profile |-> selection.profile]

FilesIf(done) ==
    IF ~intent.content THEN target
    ELSE [f \in Files |-> IF done THEN Restored(txn.ops[f]) ELSE txn.ops[f].original]

SeenWorld ==
    IF UnderWay THEN World(FilesIf(decided), Outcome)
    ELSE World(target, [pointers |-> pointers, profile |-> profile])

Contract == INSTANCE AtomicRestore WITH
    Worlds <- [files: [Files -> Contents \cup {Absent}], pointers: Pairs, profile: Profiles],
    world <- SeenWorld,
    planned <- World(FilesIf(TRUE), intent.target),
    open <- UnderWay

\* Although apply_restore changes files and apply_checkpoint_target_selection
\* selections one by one, a reader who waits for the restore to settle sees one
\* change, or none.
ReplacesInOneStep == Contract!Spec

\* Every restore is settled in the end, by its owner, startup recovery, a retry,
\* an abort or the settlement before the next mutation.
RestoresSettle == Contract!Ends

\* The protocol implements the contract: mark_checkpoint_committed is the one step
\* in which the world changes, and every restore that was opened is closed again.
ImplementsAtomicRestore == ReplacesInOneStep /\ RestoresSettle
===============================================================================

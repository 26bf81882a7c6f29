---------------------------- MODULE ReleaseSlots ----------------------------
(***************************************************************************)
(* The release store of nexus-core with its cleanup store, as the Agent's  *)
(* handlers use them.  A slot is a directory: its manifest (missing, still *)
(* the marker of a publication under way, or published) and the content of *)
(* its entry file.  The health fingerprint covers these two and no other   *)
(* file, so its other files are left out; a removal does with each of them *)
(* what it does with the entry file.  The selection (current, last known   *)
(* good) and the health evidence are one document.  A removal writes an    *)
(* ownership record outside the slot, deletes the files, then the          *)
(* directory, then the record; it may stop after any of these.             *)
(*                                                                         *)
(* The handlers that change slots hold the lifecycle lock and the update   *)
(* gate until their work is done: `job' is the one piece of work that is   *)
(* in several steps.  The scan of a cleanup preview takes no lock.         *)
(***************************************************************************)
EXTENDS Integers, FiniteSets

CONSTANTS
    Slots,          \* release ids
    None,           \* no release, no record
    MaxContent,     \* versions of a slot's content
    MaxSlots,       \* DEFAULT_MAX_RELEASE_SLOTS
    MaxPreviews,    \* bound: cleanup previews
    MaxCommands,    \* bound: requests that start something
    MaxMishaps,     \* bound: crashes, edits and losses
    Mishaps         \* which of "crash", "edit", "lose", "fail" may happen

ASSUME ReleaseAssumptions ==
    /\ None \notin Slots
    /\ MaxContent \in Nat \ {0} /\ MaxSlots \in Nat
    /\ MaxPreviews \in Nat /\ MaxCommands \in Nat /\ MaxMishaps \in Nat

VARIABLES
    disk,       \* per slot, what its directory holds
    owned,      \* per slot, the entries of its ownership record, or None
    doc,        \* release-pointers.json
    journal,    \* the releases an unfinished checkpoint restore refers to, or None
    running,    \* the launch under observation: its fingerprint, and whether it is ready
    consent,    \* the confirmation a client holds for an unprotected switch
    scan,       \* candidates of the preview being computed, or None
    preview,    \* cleanup-preview.json
    result,     \* cleanup-result.json
    job,        \* the work that holds the gates
    ready,      \* history: the fingerprints of launches that became ready
    late,       \* history: the file to be unlinked was edited after its last comparison
    lost,       \* history: slots whose directory somebody deleted
    commands,   \* requests so far: the clock of the evidence, and a bound
    mishaps

store == <<disk, owned, doc>>
cleanup == <<scan, preview, result>>
bounds == <<commands, mishaps>>
vars == <<disk, owned, doc, journal, running, consent, scan, preview, result, job,
          ready, late, lost, commands, mishaps>>

-------------------------------------------------------------------------------
(* Records                                                                 *)

Contents == 0 .. MaxContent
Trees == [dir : BOOLEAN, manifest : {"none", "marker", "published"}, entry : Contents]
Absent == [dir |-> FALSE, manifest |-> "none", entry |-> 0]
ASSUME NoRecordIsNone == None \notin Trees
Fingerprints == [id : Slots, fp : Contents]
Launches == [id : Slots, fp : Contents, ready : BOOLEAN]
Choices == Slots \cup {None}
Observations == [id : Slots, fp : Contents, at : Nat]
Documents == [current : Choices, lkg : Choices, healthy : SUBSET Observations]
EmptyDocument == [current |-> None, lkg |-> None, healthy |-> {}]
Pairs == [current : Choices, lkg : Choices]
Inventory == [Slots -> Trees \cup {None}]
Nothing == [s \in Slots |-> None]
ItemStates == {"none", "pending", "deleting", "removed", "failed"}
Results == [preview : Nat, state : {"none", "running", "completed"},
            items : [Slots -> ItemStates]]
Deleting == {"compare", "unlink", "manifest", "directory", "record"}
Jobs == [kind : {"none", "publish", "remove", "cleanup"},
         at : {"none", "marker", "item"} \cup Deleting,
         slot : Choices, left : SUBSET Slots, shown : Inventory]
Idle == [kind |-> "none", at |-> "none", slot |-> None, left |-> {}, shown |-> Nothing]

-------------------------------------------------------------------------------
(* What the store reads                                                    *)

Pending(s) == owned[s] # None \/ disk[s].manifest = "marker"

RegisteredByManifest ==   \* mutant: an interrupted removal is not looked at
    {s \in Slots : disk[s].dir /\ disk[s].manifest = "published"}

\* load_unlocked: a slot counts when it has a manifest, no marker and no
\* ownership record.
Registered ==
    {s \in Slots : disk[s].dir /\ disk[s].manifest = "published" /\ owned[s] = None}

\* health_fingerprint: the manifest and the entry file, nothing else.
Healthy(launch) ==
    disk[launch.id].manifest = "published" /\ disk[launch.id].entry = launch.fp

Evidence == {h \in doc.healthy : Healthy(h)}

\* verified_fallback: the newest evidence that still matches, for another slot.
VerifiedFallback(selected) ==
    LET fits == {h \in Evidence : h.id # selected}
        newest == {h \in fits : \A other \in fits : other.at <= h.at}
    IN IF newest = {} THEN None ELSE (CHOOSE h \in newest : TRUE).id

\* The selection as load_unlocked shows it.
Current == IF doc.current \in Registered THEN doc.current ELSE None
LastKnownGood ==
    IF doc.lkg \in Registered /\ \E h \in Evidence : h.id = doc.lkg
    THEN doc.lkg ELSE None

Selection(p) == doc' = [doc EXCEPT !.current = p.current, !.lkg = p.lkg]

\* normalize: no pointer to an unknown slot, and two different ones.
Loads(p) ==
    /\ {p.current, p.lkg} \subseteq Registered \cup {None}
    /\ p.current = None \/ p.current # p.lkg

JournalRefs ==
    IF journal = None THEN {}
    ELSE {journal.previous.current, journal.previous.lkg,
          journal.target.current, journal.target.lkg} \ {None}

\* acquire_lifecycle, try_acquire_gate; ensure_checkpoint_mutation_ready
Gates == job = Idle
MutationReady == journal = None
\* ensure_harness_selection_quiescent
Quiescent == running = None
MayMutate == Gates /\ MutationReady

Mishap(k) == k \in Mishaps /\ mishaps < MaxMishaps /\ mishaps' = mishaps + 1
Smooth == UNCHANGED bounds
Command == commands < MaxCommands /\ commands' = commands + 1 /\ UNCHANGED mishaps

Init ==
    /\ disk \in [Slots -> {Absent, [dir |-> TRUE, manifest |-> "published", entry |-> 1]}]
    /\ owned = Nothing
    /\ doc = EmptyDocument
    /\ journal = None /\ running = None /\ consent = None /\ scan = None
    /\ preview = [id |-> 0, items |-> Nothing]
    /\ result = [preview |-> 0, state |-> "none", items |-> [s \in Slots |-> "none"]]
    /\ job = Idle
    /\ ready = {} /\ late = FALSE /\ lost = {}
    /\ commands = 0 /\ mishaps = 0

-------------------------------------------------------------------------------
(* Registration and publication                                            *)

HasRoom == Cardinality(Registered) < MaxSlots

\* register: the manifest alone, on whatever the directory holds.
Register(s) ==
    /\ MayMutate /\ ~Pending(s) /\ s \notin Registered /\ HasRoom
    /\ disk' = [disk EXCEPT ![s].dir = TRUE, ![s].manifest = "published"]
    /\ UNCHANGED <<owned, doc, journal, running, consent, cleanup, job, ready, late, lost>>
    /\ Command

\* register_prepared up to the rename into releases/: the slot carries the
\* marker, not the manifest.
PublishBegins(s) ==
    /\ MayMutate /\ ~Pending(s) /\ s \notin Registered /\ HasRoom
    /\ ~disk[s].dir
    /\ \E c \in Contents \ {0} :
          disk' = [disk EXCEPT ![s] = [dir |-> TRUE, manifest |-> "marker", entry |-> c]]
    /\ job' = [Idle EXCEPT !.kind = "publish", !.at = "marker", !.slot = s]
    /\ UNCHANGED <<owned, doc, journal, running, consent, cleanup, ready, late, lost>>
    /\ Command

\* publish_prepared_manifest, after the links of the slot are repaired.
PublishEnds ==
    /\ job.at = "marker" /\ disk[job.slot].manifest = "marker"
    /\ disk' = [disk EXCEPT ![job.slot].manifest = "published"]
    /\ job' = Idle
    /\ UNCHANGED <<owned, doc, journal, running, consent, cleanup, ready, late, lost>>
    /\ Smooth

\* A link cannot be repaired: the slot stays behind with its marker.
PublishFails ==
    /\ job.at = "marker"
    /\ IF disk[job.slot].manifest = "marker" THEN Mishap("fail") ELSE UNCHANGED mishaps
    /\ job' = Idle
    /\ UNCHANGED <<store, journal, running, consent, cleanup, ready, late, lost, commands>>

-------------------------------------------------------------------------------
(* Selection                                                               *)

\* ensure_rollback_protection_unlocked
Protected(s) ==
    \/ doc.current = s
    \/ doc.current = None /\ doc.lkg = None
    \/ VerifiedFallback(s) # None

\* promotion_risk_confirmation: the token is a digest of the id and of the
\* documents the client was shown.
Inspect(s) ==
    /\ MayMutate /\ Quiescent /\ s \in Registered /\ ~Protected(s)
    /\ consent' = [id |-> s, seen |-> doc]
    /\ UNCHANGED <<store, journal, running, cleanup, job, ready, late, lost>>
    /\ Command

Confirmed(s) == consent = [id |-> s, seen |-> doc]

\* promote_inner with require_rollback
Promote(s) ==
    /\ MayMutate /\ Quiescent /\ s \in Registered /\ Current # s
    /\ Protected(s) \/ Confirmed(s)
    /\ LET p == [current |-> s, lkg |-> VerifiedFallback(s)]
       IN Loads(p) /\ Selection(p)
    /\ UNCHANGED <<disk, owned, journal, running, consent, cleanup, job, ready, late, lost>>
    /\ Command

\* rollback: the pair is written as it is, without normalize.
Rollback ==
    /\ MayMutate /\ Quiescent /\ LastKnownGood # None
    /\ Selection([current |-> LastKnownGood, lkg |-> VerifiedFallback(LastKnownGood)])
    /\ UNCHANGED <<disk, owned, journal, running, consent, cleanup, job, ready, late, lost>>
    /\ Command

\* maintenance_control reset with scope "slots": the document goes, with its
\* evidence; the slots stay.
ResetSlots ==
    /\ MayMutate /\ Quiescent
    /\ doc' = EmptyDocument
    /\ UNCHANGED <<disk, owned, journal, running, consent, cleanup, job, ready, late, lost>>
    /\ Command

\* healthy_launch_candidate, while the start of the selected release is prepared.
Launch ==
    /\ MayMutate /\ Quiescent /\ Current # None /\ disk[Current].entry # 0
    /\ running' = [id |-> Current, fp |-> disk[Current].entry, ready |-> FALSE]
    /\ UNCHANGED <<store, journal, consent, cleanup, job, ready, late, lost>>
    /\ Command

WithEvidence(launch) ==
    [current |-> Current, lkg |-> LastKnownGood,
     healthy |-> {h \in doc.healthy : h.id # launch.id /\ h.id \in Registered}
                    \cup {[id |-> launch.id, fp |-> launch.fp, at |-> commands']}]

RecordHealthyNow ==   \* mutant: the fingerprint is taken when the Harness is ready
    IF Current = running.id
    THEN doc' = WithEvidence([running EXCEPT !.fp = disk[Current].entry])
    ELSE UNCHANGED doc

\* record_healthy_release: evidence only when the slot still has the
\* fingerprint of the launch, and is still selected.
RecordHealthy ==
    IF Healthy(running) /\ Current = running.id
    THEN doc' = WithEvidence(running)
    ELSE UNCHANGED doc

\* The Harness becomes ready: mark_running takes the candidate, once.
HarnessReady ==
    /\ running # None /\ ~running.ready
    /\ Command
    /\ running' = [running EXCEPT !.ready = TRUE]
    /\ ready' = ready \cup {[id |-> running.id, fp |-> running.fp]}
    /\ RecordHealthy
    /\ UNCHANGED <<disk, owned, journal, consent, cleanup, job, late, lost>>

\* The Harness ends.
Stop ==
    /\ running # None
    /\ running' = None
    /\ UNCHANGED <<store, journal, consent, cleanup, job, ready, late, lost>>
    /\ Smooth

-------------------------------------------------------------------------------
(* Checkpoint restore, as far as it moves the selection                    *)

Planned(c) ==
    IF Current = c THEN [current |-> c, lkg |-> LastKnownGood]
    ELSE [current |-> c, lkg |-> VerifiedFallback(c)]

\* plan_checkpoint_release and the journal's begin
RestoreBegins(c) ==
    /\ MayMutate /\ Quiescent
    /\ c \in Registered \cup {None} /\ Loads(Planned(c))
    /\ journal' = [previous |-> [current |-> Current, lkg |-> LastKnownGood],
                   target |-> Planned(c)]
    /\ UNCHANGED <<store, running, consent, cleanup, job, ready, late, lost>>
    /\ Command

\* restore_release_pointers: both are registered; nothing is written when the
\* catalog shows this pair.
RestorePointers(p) ==
    /\ Loads(p)
    /\ IF p = [current |-> Current, lkg |-> LastKnownGood] THEN UNCHANGED doc ELSE Selection(p)

\* apply_checkpoint_target_selection: the pair of the journal, as it was planned
RestorePublishes ==
    /\ Gates /\ journal # None
    /\ RestorePointers(journal.target)
    /\ UNCHANGED <<disk, owned, journal, running, consent, cleanup, job, ready, late, lost>>
    /\ Smooth

\* rollback_checkpoint_selection
RestoreReverts ==
    /\ Gates /\ journal # None
    /\ RestorePointers(journal.previous)
    /\ UNCHANGED <<disk, owned, journal, running, consent, cleanup, job, ready, late, lost>>
    /\ Smooth

RestoreEnds ==
    /\ Gates /\ journal # None
    /\ journal' = None
    /\ UNCHANGED <<store, running, consent, cleanup, job, ready, late, lost>>
    /\ Smooth

-------------------------------------------------------------------------------
(* Removal                                                                 *)

\* remaining: nothing in the slot but what the ownership record lists.
Remaining(s) ==
    \/ ~disk[s].dir
    \/ /\ disk[s].manifest \in {"none", owned[s].manifest}
       /\ disk[s].entry \in {0, owned[s].entry}

\* Whether the slot's fingerprint can be taken: resumed from the record, or
\* from the directory.
Measurable(s) == IF owned[s] # None THEN Remaining(s) ELSE disk[s].dir

Removable(s) ==
    /\ s \in Registered \/ Pending(s)
    /\ s \notin {Current, LastKnownGood} \cup JournalRefs

ClaimWithoutRecord(s) == UNCHANGED owned   \* mutant: the files go without an ownership record

\* remove_with_digest up to the ownership record: its checks, then the record
\* of what the slot holds, unless an earlier removal left one.
Claim(s) == owned' = IF owned[s] # None THEN owned ELSE [owned EXCEPT ![s] = disk[s]]

\* release_control_inner Remove
RemoveBegins(s) ==
    /\ MayMutate /\ Quiescent
    /\ Removable(s) /\ Measurable(s)
    /\ Claim(s)
    /\ job' = [Idle EXCEPT !.kind = "remove", !.at = "compare", !.slot = s]
    /\ UNCHANGED <<disk, doc, journal, running, consent, cleanup, ready, late, lost>>
    /\ Command

\* An item of a cleanup is over; the worker saves its state and takes the next.
ItemEnds(state) ==
    IF job.kind = "cleanup"
    THEN /\ result' = [result EXCEPT !.items[job.slot] = state]
         /\ job' = [job EXCEPT !.at = "item", !.slot = None]
    ELSE job' = Idle /\ UNCHANGED result

Goes(to) == job' = [job EXCEPT !.at = to]

DeleteUncompared ==   \* mutant: the files are not compared again before they go
    LET s == job.slot IN
    /\ job.at = "compare"
    /\ Goes(IF ~disk[s].dir THEN "record" ELSE IF disk[s].entry # 0 THEN "unlink" ELSE "manifest")
    /\ late' = FALSE
    /\ UNCHANGED <<disk, owned, result>>

\* delete: what is left must be what the record lists, and each file is compared
\* again when its turn comes, the deepest first.
DeleteCompares ==
    LET s == job.slot IN
    /\ job.at = "compare" /\ Remaining(s)
    /\ Goes(IF ~disk[s].dir THEN "record" ELSE IF disk[s].entry # 0 THEN "unlink" ELSE "manifest")
    /\ late' = FALSE
    /\ UNCHANGED <<disk, owned, result>>

\* remove_file, by name, of the file that was compared before
DeleteEntry ==
    LET s == job.slot IN
    /\ job.at = "unlink" /\ disk[s].entry # 0
    /\ disk' = [disk EXCEPT ![s].entry = 0]
    /\ Goes("manifest")
    /\ UNCHANGED <<owned, result, late>>

DeleteManifest ==
    LET s == job.slot IN
    /\ job.at = "manifest" /\ disk[s].dir
    /\ disk' = [disk EXCEPT ![s].manifest = "none"]
    /\ Goes("directory")
    /\ UNCHANGED <<owned, result, late>>

DeleteDirectory ==
    LET s == job.slot IN
    /\ job.at = "directory" /\ disk[s].dir /\ disk[s].entry = 0
    /\ disk' = [disk EXCEPT ![s] = Absent]
    /\ Goes("record")
    /\ UNCHANGED <<owned, result, late>>

DeleteRecord ==
    /\ job.at = "record"
    /\ owned' = [owned EXCEPT ![job.slot] = None]
    /\ ItemEnds("removed")
    /\ UNCHANGED <<disk, late>>

\* Somebody changed a file, or took one away after it was compared.
Disturbed(s) ==
    \/ job.at = "compare" /\ ~Remaining(s)
    \/ job.at = "unlink" /\ disk[s].entry = 0
    \/ job.at = "manifest" /\ ~disk[s].dir
    \/ job.at = "directory" /\ (~disk[s].dir \/ disk[s].entry # 0)

DeleteFailsReportedRemoved ==   \* mutant: the error of the deletion is dropped
    /\ Disturbed(job.slot)
    /\ ItemEnds("removed")
    /\ UNCHANGED <<disk, owned, late>>

\* The removal ends with what is left, and with its ownership record.
DeleteFails ==
    /\ Disturbed(job.slot)
    /\ ItemEnds("failed")
    /\ UNCHANGED <<disk, owned, late>>

Delete ==
    /\ job.at \in Deleting
    /\ \/ DeleteCompares \/ DeleteEntry \/ DeleteManifest \/ DeleteDirectory
       \/ DeleteRecord \/ DeleteFails
    /\ UNCHANGED <<doc, journal, running, consent, scan, preview, ready, lost>>
    /\ Smooth

-------------------------------------------------------------------------------
(* Cleanup                                                                 *)

\* inspect, without any gate: first the catalog and what it protects ...
ScanBegins ==
    /\ scan = None /\ preview.id < MaxPreviews
    /\ scan' = {s \in Slots : s \in Registered \/ Pending(s)} \ {Current, LastKnownGood}
    /\ UNCHANGED <<store, journal, running, consent, preview, result, job, ready, late, lost>>
    /\ Command

\* ... then the journal and the fingerprints; preview saves the inventory.
ScanEnds ==
    /\ scan # None
    /\ preview' = [id |-> preview.id + 1,
                   items |-> [s \in Slots |->
                      IF s \in scan \ JournalRefs /\ Measurable(s) THEN disk[s] ELSE None]]
    /\ scan' = None
    /\ UNCHANGED <<store, journal, running, consent, result, job, ready, late, lost>>
    /\ Smooth

Unused(id) == result.preview # id

\* cleanup: one use per preview, a fresh inspection, unchanged fingerprints,
\* then the result is saved before anything goes.
CleanupBegins(chosen) ==
    /\ MayMutate /\ Quiescent
    /\ chosen # {} /\ preview.id > 0 /\ Unused(preview.id)
    /\ \A s \in chosen : /\ preview.items[s] # None
                         /\ Removable(s) /\ Measurable(s) /\ disk[s] = preview.items[s]
    /\ result' = [preview |-> preview.id, state |-> "running",
                  items |-> [s \in Slots |-> IF s \in chosen THEN "pending" ELSE "none"]]
    /\ job' = [Idle EXCEPT !.kind = "cleanup", !.at = "item", !.left = chosen,
                           !.shown = preview.items]
    /\ UNCHANGED <<store, journal, running, consent, scan, preview, ready, late, lost>>
    /\ Command

\* The item is compared again, and the digest goes on to remove_with_digest.
CleanupClaim(s) == Removable(s) /\ Measurable(s) /\ disk[s] = job.shown[s]

CleanupItem(s) ==
    /\ job.kind = "cleanup" /\ job.at = "item" /\ s \in job.left
    /\ IF CleanupClaim(s)
       THEN /\ Claim(s)
            /\ job' = [job EXCEPT !.at = "compare", !.slot = s, !.left = @ \ {s}]
            /\ result' = [result EXCEPT !.items[s] = "deleting"]
       ELSE /\ job' = [job EXCEPT !.left = @ \ {s}]
            /\ result' = [result EXCEPT !.items[s] = "failed"]
            /\ UNCHANGED owned
    /\ UNCHANGED <<disk, doc, journal, running, consent, scan, preview, ready, late, lost>>
    /\ Smooth

CleanupEnds ==
    /\ job.kind = "cleanup" /\ job.at = "item" /\ job.left = {}
    /\ result' = [result EXCEPT !.state = "completed"]
    /\ job' = Idle
    /\ UNCHANGED <<store, journal, running, consent, scan, preview, ready, late, lost>>
    /\ Smooth

-------------------------------------------------------------------------------
(* Mishaps                                                                 *)

\* The Agent dies and starts again: gates, observation and scan are gone.
Crash ==
    /\ Mishap("crash")
    /\ job' = Idle /\ running' = None /\ scan' = None
    /\ UNCHANGED <<store, journal, consent, preview, result, ready, late, lost, commands>>

\* The records also hold a file's identity and time: one that is written again
\* is none of those they describe.
Recorded(s) == {r.entry : r \in {owned[s], preview.items[s], job.shown[s]} \ {None}}

\* Somebody edits a file of a slot.
Edit(s) ==
    /\ disk[s].dir /\ Mishap("edit")
    /\ \E c \in Contents \ ({0, disk[s].entry} \cup Recorded(s)) :
          disk' = [disk EXCEPT ![s].entry = c]
    /\ late' = (late \/ (job.at = "unlink" /\ job.slot = s))
    /\ UNCHANGED <<owned, doc, journal, running, consent, cleanup, job, ready, lost, commands>>

\* Somebody deletes a slot's directory.
Lose(s) ==
    /\ disk[s].dir /\ Mishap("lose")
    /\ disk' = [disk EXCEPT ![s] = Absent]
    /\ lost' = lost \cup {s}
    /\ UNCHANGED <<owned, doc, journal, running, consent, cleanup, job, ready, late, commands>>

-------------------------------------------------------------------------------
Publishing ==
    \/ \E s \in Slots : Register(s) \/ PublishBegins(s)
    \/ PublishEnds \/ PublishFails
Selecting ==
    \/ \E s \in Slots : Inspect(s) \/ Promote(s)
    \/ Rollback \/ ResetSlots
Observing == Launch \/ HarnessReady \/ Stop
Restoring ==
    \/ \E c \in Choices : RestoreBegins(c)
    \/ RestorePublishes \/ RestoreReverts \/ RestoreEnds
Removing ==
    \/ \E s \in Slots : RemoveBegins(s) \/ CleanupItem(s)
    \/ Delete
    \/ ScanBegins \/ ScanEnds
    \/ \E chosen \in SUBSET Slots : CleanupBegins(chosen)
    \/ CleanupEnds
Outside == Crash \/ \E s \in Slots : Edit(s) \/ Lose(s)

Next == Publishing \/ Selecting \/ Observing \/ Restoring \/ Removing \/ Outside

Spec == Init /\ [][Next]_vars

-------------------------------------------------------------------------------
(* Properties                                                              *)

\* Every variable keeps its type; and what the gates promise: a removal runs
\* under its ownership record, beside no Harness and no checkpoint restore.
TypeOK ==
    /\ disk \in [Slots -> Trees] /\ owned \in Inventory
    /\ doc \in Documents
    /\ journal \in [previous : Pairs, target : Pairs] \cup {None}
    /\ running \in Launches \cup {None}
    /\ consent \in [id : Slots, seen : Documents] \cup {None}
    /\ scan \in (SUBSET Slots) \cup {None}
    /\ preview \in [id : Nat, items : Inventory]
    /\ result \in Results /\ job \in Jobs
    /\ ready \subseteq Fingerprints /\ late \in BOOLEAN /\ lost \subseteq Slots
    /\ commands \in Nat /\ mishaps \in Nat
    /\ job.at \in Deleting => job.slot # None /\ owned[job.slot] # None
    /\ job.kind \in {"remove", "cleanup"} => running = None /\ journal = None

Whole(s) == disk[s].dir /\ disk[s].manifest = "published" /\ owned[s] = None

\* The release that is selected, and every release an unfinished checkpoint
\* restore may go back or forward to, is a whole slot: published, and not
\* under removal, however far a removal, a publication or a cleanup got before
\* it was interrupted (load_unlocked, remove_with_digest, register_prepared).
\* Only somebody who deletes the directory can take it away.
SelectionIsWhole ==
    \A s \in ({doc.current} \cup JournalRefs) \ {None} : s \in lost \/ Whole(s)

\* The release offered as last known good has the entry file, and the manifest,
\* that a launch of it was prepared with, and that very launch became ready
\* (healthy_launch_candidate, mark_running, record_healthy_release,
\* health_fingerprint, verified_fallback).
FallbackBecameReady ==
    LastKnownGood # None =>
        [id |-> LastKnownGood, fp |-> disk[LastKnownGood].entry] \in ready

Vanishes(s) == disk[s].entry # 0 /\ disk'[s].entry = 0 /\ mishaps' = mishaps

\* Nexus removes a file only when it was, at its last comparison, the one its
\* ownership record lists, and in a cleanup the one the user saw in the preview
\* that was confirmed, whatever was edited, removed or interrupted since
\* (begin_bound, delete_inner, cleanup).  An edit between the comparison and the
\* unlink that follows it is lost: `late' excepts it.
OnlyConfirmedContentIsDeleted ==
    [][\A s \in Slots : Vanishes(s) =>
          /\ job.slot = s /\ owned[s] # None
          /\ late \/ owned[s].entry = disk[s].entry
          /\ job.kind = "cleanup" => job.shown[s] # None /\ job.shown[s].entry = owned[s].entry]_vars

\* What the saved result says about a slot is what happened to it: its first
\* file goes after the result names it, a slot reported as removed is gone with
\* its record, and the results of a used preview are never started over.
ResultIsHonest ==
    [][/\ \A s \in Slots :
             /\ Vanishes(s) /\ job.kind = "cleanup" => result.items[s] = "deleting"
             /\ result'.items[s] = "removed" /\ result.items[s] # "removed"
                   => ~disk'[s].dir /\ owned'[s] = None
       /\ result'.preview = result.preview => 
             \A s \in Slots : result.items[s] \in {"removed", "failed"}
                                 => result'.items[s] = result.items[s]]_vars

\* "Partial cleanup is unavailable, but must not poison the healthy slots or
\* current selection in this catalog" (load_unlocked): a healthy slot can be
\* selected, whatever removal of another one was interrupted.
PartialCleanupPoisonsNothing ==
    Gates => \A s \in Registered : Loads([current |-> s, lkg |-> VerifiedFallback(s)])
=============================================================================

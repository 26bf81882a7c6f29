------------------------- MODULE ReleaseSlotsProofs -------------------------
(***************************************************************************)
(* What holds of ReleaseSlots for every set of releases and every number   *)
(* of previews, requests and mishaps.                                      *)
(***************************************************************************)
EXTENDS ReleaseSlots, TLAPS

USE DEF Deleting

-------------------------------------------------------------------------------
(* Types                                                                   *)

\* What the store reads from well-typed documents is well typed.
LEMMA ReadsTyped ==
    ASSUME TypeOK
    PROVE  /\ Registered \subseteq Slots
           /\ Current \in Choices /\ LastKnownGood \in Choices
           /\ \A s \in Choices : VerifiedFallback(s) \in Choices
           /\ Nothing \in Inventory /\ Idle \in Jobs
           /\ EmptyDocument \in Documents
<1>1. Registered \subseteq Slots
  BY DEF Registered
<1>2. Current \in Choices /\ LastKnownGood \in Choices
  BY <1>1 DEF Current, LastKnownGood, Choices
<1>3. ASSUME NEW s \in Choices
      PROVE  VerifiedFallback(s) \in Choices
  <2> DEFINE fits == {h \in Evidence : h.id # s}
  <2> DEFINE newest == {h \in fits : \A other \in fits : other.at <= h.at}
  <2>1. VerifiedFallback(s) = IF newest = {} THEN None ELSE (CHOOSE h \in newest : TRUE).id
    BY DEF VerifiedFallback
  <2>2. \A h \in newest : h.id \in Slots
    BY DEF Evidence, TypeOK, Documents, Observations
  <2>3. newest # {} => (CHOOSE h \in newest : TRUE) \in newest
    OBVIOUS
  <2> HIDE DEF newest
  <2> QED
    BY <2>1, <2>2, <2>3 DEF Choices
<1>4. Nothing \in Inventory
  BY DEF Nothing, Inventory
<1>5. Idle \in Jobs
  BY <1>4 DEF Idle, Jobs, Choices
<1>6. EmptyDocument \in Documents
  BY DEF EmptyDocument, Documents, Choices
<1> QED
  BY <1>1, <1>2, <1>3, <1>4, <1>5, <1>6

\* A document keeps its type when its pointers are replaced by other ones.
LEMMA SelectionTyped ==
    ASSUME TypeOK, NEW p \in Pairs, Selection(p)
    PROVE  doc' \in Documents /\ doc'.current = p.current /\ doc'.healthy = doc.healthy
BY DEF TypeOK, Selection, Documents, Pairs

\* A pair of choices is what a restore plans.
LEMMA PlannedTyped ==
    ASSUME TypeOK, NEW c \in Choices
    PROVE  Planned(c) \in Pairs
BY ReadsTyped DEF Planned, Pairs

\* The counters stay natural numbers.
LEMMA CountersTyped ==
    ASSUME TypeOK
    PROVE  /\ Command => commands' \in Nat /\ mishaps' \in Nat
           /\ Smooth => commands' \in Nat /\ mishaps' \in Nat
           /\ \A k \in {"crash", "edit", "lose", "fail"} : Mishap(k) => mishaps' \in Nat
BY DEF TypeOK, Command, Smooth, bounds, Mishap

LEMMA PublishingTyped == ASSUME TypeOK, Publishing PROVE TypeOK'
<1> USE DEF TypeOK
<1>1. ASSUME NEW s \in Slots, Register(s) PROVE TypeOK'
  <2>1. disk' \in [Slots -> Trees]
    BY <1>1 DEF Register, Trees
  <2> QED
    BY <1>1, <2>1, CountersTyped DEF Register, cleanup
<1>2. ASSUME NEW s \in Slots, PublishBegins(s) PROVE TypeOK'
  <2>1. disk' \in [Slots -> Trees]
    BY <1>2 DEF PublishBegins, Trees
  <2>2. job' \in Jobs /\ job'.at = "marker" /\ job'.kind = "publish"
    BY <1>2, ReadsTyped DEF PublishBegins, Jobs, Idle, Choices
  <2>3. UNCHANGED <<owned, doc, journal, running, consent, cleanup, ready, late, lost>>
    BY <1>2 DEF PublishBegins
  <2>4. commands' \in Nat /\ mishaps' \in Nat
    BY <1>2, CountersTyped DEF PublishBegins
  <2> QED
    BY <2>1, <2>2, <2>3, <2>4 DEF cleanup
<1>3. CASE PublishEnds
  <2>1. disk' \in [Slots -> Trees]
    BY <1>3 DEF PublishEnds, Trees
  <2>2. job' \in Jobs /\ job'.at = "none" /\ job'.kind = "none"
    BY <1>3, ReadsTyped DEF PublishEnds, Idle
  <2> QED
    BY <1>3, <2>1, <2>2, CountersTyped DEF PublishEnds, cleanup
<1>4. CASE PublishFails
  <2>1. job' \in Jobs /\ job'.at = "none" /\ job'.kind = "none"
    BY <1>4, ReadsTyped DEF PublishFails, Idle
  <2>2. mishaps' \in Nat
    BY <1>4, CountersTyped DEF PublishFails
  <2> QED
    BY <1>4, <2>1, <2>2 DEF PublishFails, cleanup, store
<1> QED
  BY <1>1, <1>2, <1>3, <1>4 DEF Publishing

LEMMA SelectingTyped == ASSUME TypeOK, Selecting PROVE TypeOK'
<1>1. ASSUME NEW s \in Slots, Inspect(s) PROVE TypeOK'
  <2>1. consent' \in [id : Slots, seen : Documents]
    BY <1>1 DEF Inspect, TypeOK
  <2> QED
    BY <1>1, <2>1, CountersTyped DEF Inspect, TypeOK, cleanup, store
<1>2. ASSUME NEW s \in Slots, Promote(s) PROVE TypeOK'
  <2>1. [current |-> s, lkg |-> VerifiedFallback(s)] \in Pairs
    BY ReadsTyped DEF Pairs, Choices
  <2>2. doc' \in Documents
    BY <1>2, <2>1, SelectionTyped DEF Promote
  <2> QED
    BY <1>2, <2>2, CountersTyped DEF Promote, TypeOK, cleanup
<1>3. CASE Rollback
  <2>1. [current |-> LastKnownGood, lkg |-> VerifiedFallback(LastKnownGood)] \in Pairs
    BY ReadsTyped DEF Pairs
  <2>2. doc' \in Documents
    BY <1>3, <2>1, SelectionTyped DEF Rollback
  <2> QED
    BY <1>3, <2>2, CountersTyped DEF Rollback, TypeOK, cleanup
<1>4. CASE ResetSlots
  <2>1. doc' \in Documents
    BY <1>4, ReadsTyped DEF ResetSlots
  <2> QED
    BY <1>4, <2>1, CountersTyped DEF ResetSlots, TypeOK, cleanup
<1> QED
  BY <1>1, <1>2, <1>3, <1>4 DEF Selecting

\* The evidence of a launch keeps the document well typed.
LEMMA EvidenceTyped ==
    ASSUME TypeOK, NEW launch \in Launches, commands' \in Nat
    PROVE  WithEvidence(launch) \in Documents
<1>1. [id |-> launch.id, fp |-> launch.fp, at |-> commands'] \in Observations
  BY DEF Launches, Observations
<1>2. {h \in doc.healthy : h.id # launch.id /\ h.id \in Registered} \subseteq Observations
  BY DEF TypeOK, Documents
<1> QED
  BY <1>1, <1>2, ReadsTyped DEF WithEvidence, Documents

LEMMA ObservingTyped == ASSUME TypeOK, Observing PROVE TypeOK'
<1>1. CASE Launch
  <2>1. Current \in Slots /\ disk[Current] \in Trees
    BY <1>1, ReadsTyped DEF Launch, TypeOK, Choices
  <2>2. running' \in Launches
    BY <1>1, <2>1 DEF Launch, Launches, Trees
  <2>3. job.kind = "none"
    BY <1>1 DEF Launch, MayMutate, Gates, Idle
  <2> QED
    BY <1>1, <2>2, <2>3, CountersTyped DEF Launch, TypeOK, cleanup, store
<1>2. CASE HarnessReady
  <2>1. running \in Launches /\ commands' \in Nat /\ mishaps' \in Nat
    BY <1>2, CountersTyped DEF HarnessReady, TypeOK
  <2>2. doc' \in Documents
    BY <1>2, <2>1, EvidenceTyped DEF HarnessReady, RecordHealthy, TypeOK
  <2>3. running' \in Launches /\ ready' \subseteq Fingerprints
    <3>1. /\ running' = [running EXCEPT !.ready = TRUE]
          /\ ready' = ready \cup {[id |-> running.id, fp |-> running.fp]}
      BY <1>2, Zenon DEF HarnessReady
    <3>2. [running EXCEPT !.ready = TRUE] \in Launches
      BY <2>1 DEF Launches
    <3>3. [id |-> running.id, fp |-> running.fp] \in Fingerprints
      BY <2>1 DEF Launches, Fingerprints
    <3> QED
      BY <3>1, <3>2, <3>3 DEF TypeOK
  <2>4. job.kind \notin {"remove", "cleanup"}
    BY <1>2 DEF HarnessReady, TypeOK
  <2> QED
    BY <1>2, <2>1, <2>2, <2>3, <2>4 DEF HarnessReady, TypeOK, cleanup
<1>3. CASE Stop
  BY <1>3, CountersTyped DEF Stop, TypeOK, cleanup, store
<1> QED
  BY <1>1, <1>2, <1>3 DEF Observing

LEMMA RestoringTyped == ASSUME TypeOK, Restoring PROVE TypeOK'
<1>1. ASSUME NEW c \in Choices, RestoreBegins(c) PROVE TypeOK'
  <2>1. journal' \in [previous : Pairs, target : Pairs]
    BY <1>1, ReadsTyped, PlannedTyped DEF RestoreBegins, Pairs
  <2>2. job.kind = "none"
    BY <1>1 DEF RestoreBegins, MayMutate, Gates, Idle
  <2> QED
    BY <1>1, <2>1, <2>2, CountersTyped DEF RestoreBegins, TypeOK, cleanup, store
<1>2. CASE RestorePublishes
  <2>1. journal.target.current \in Choices
    BY <1>2 DEF RestorePublishes, TypeOK, Pairs
  <2>2. doc' \in Documents
    BY <1>2, <2>1, SelectionTyped DEF RestorePublishes, RestorePointers, TypeOK
  <2> QED
    BY <1>2, <2>2, CountersTyped DEF RestorePublishes, TypeOK, cleanup
<1>3. CASE RestoreReverts
  <2>1. doc' \in Documents
    BY <1>3, SelectionTyped DEF RestoreReverts, RestorePointers, TypeOK
  <2> QED
    BY <1>3, <2>1, CountersTyped DEF RestoreReverts, TypeOK, cleanup
<1>4. CASE RestoreEnds
  BY <1>4, CountersTyped DEF RestoreEnds, TypeOK, cleanup, store
<1> QED
  BY <1>1, <1>2, <1>3, <1>4 DEF Restoring

\* A slot that is claimed has an ownership record.
LEMMA ClaimTyped ==
    ASSUME TypeOK, NEW s \in Slots, Claim(s)
    PROVE  owned' \in Inventory /\ owned'[s] # None
BY NoRecordIsNone DEF Claim, TypeOK, Inventory

\* An item that ends leaves no deletion under way.
LEMMA ItemEndsTyped ==
    ASSUME TypeOK, NEW state \in ItemStates, ItemEnds(state), job.slot \in Slots
    PROVE  /\ result' \in Results /\ job' \in Jobs
           /\ job'.at \in {"none", "item"} /\ job'.kind \in {"none", job.kind}
<1>1. CASE job.kind = "cleanup"
  <2>1. result' \in Results
    BY <1>1 DEF ItemEnds, TypeOK, Results
  <2>2. job' \in Jobs /\ job'.at = "item" /\ job'.kind = job.kind
    BY <1>1 DEF ItemEnds, TypeOK, Jobs, Choices
  <2> QED
    BY <2>1, <2>2
<1>2. CASE job.kind # "cleanup"
  BY <1>2, ReadsTyped DEF ItemEnds, TypeOK, Idle
<1> QED
  BY <1>1, <1>2

\* A step within a deletion leaves the rest of the job alone.
LEMMA GoesTyped ==
    ASSUME TypeOK, NEW to \in Deleting, Goes(to)
    PROVE  /\ job' \in Jobs /\ job'.at = to /\ job'.slot = job.slot
           /\ job'.kind = job.kind /\ job'.left = job.left /\ job'.shown = job.shown
BY DEF TypeOK, Goes, Jobs

LEMMA DeleteTyped == ASSUME TypeOK, Delete PROVE TypeOK'
<1>1. job.slot \in Slots /\ owned[job.slot] \in Trees /\ owned[job.slot] # None
  BY DEF Delete, TypeOK, Jobs, Choices, Inventory
<1>2. UNCHANGED <<doc, journal, running, consent, scan, preview, ready, lost>>
      /\ commands' \in Nat /\ mishaps' \in Nat
  BY CountersTyped DEF Delete
<1>3. ASSUME NEW to \in Deleting, Goes(to), disk' \in [Slots -> Trees], late' \in BOOLEAN,
             UNCHANGED <<owned, result>>
      PROVE  TypeOK'
  <2>1. /\ job' \in Jobs /\ job'.at = to /\ job'.slot = job.slot /\ job'.kind = job.kind
    BY <1>3, GoesTyped
  <2>2. /\ owned' = owned /\ result' = result /\ running' = running /\ journal' = journal
        /\ UNCHANGED <<doc, consent, scan, preview, ready, lost>>
    BY <1>2, <1>3
  <2>3. /\ job'.slot # None /\ owned'[job'.slot] # None
    BY <1>1, <2>1, <2>2, ReleaseAssumptions
  <2> QED
    BY <1>2, <1>3, <2>1, <2>2, <2>3 DEF TypeOK
<1>4. CASE DeleteCompares
  <2>1. PICK to \in {"record", "unlink", "manifest"} : Goes(to)
    BY <1>4, Zenon DEF DeleteCompares
  <2> QED
    BY <1>3, <1>4, <2>1 DEF DeleteCompares, Deleting, TypeOK
<1>5. CASE DeleteEntry
  <2>1. disk' \in [Slots -> Trees]
    BY <1>1, <1>5, ReleaseAssumptions DEF DeleteEntry, TypeOK, Trees, Contents
  <2> QED
    BY <1>3, <1>5, <2>1 DEF DeleteEntry, Deleting, TypeOK
<1>6. CASE DeleteManifest
  <2>1. disk' \in [Slots -> Trees]
    BY <1>1, <1>6 DEF DeleteManifest, TypeOK, Trees
  <2> QED
    BY <1>3, <1>6, <2>1 DEF DeleteManifest, Deleting, TypeOK
<1>7. CASE DeleteDirectory
  <2>1. disk' \in [Slots -> Trees]
    BY <1>1, <1>7, ReleaseAssumptions DEF DeleteDirectory, TypeOK, Trees, Absent, Contents
  <2> QED
    BY <1>3, <1>7, <2>1 DEF DeleteDirectory, Deleting, TypeOK
<1>8. ASSUME NEW state \in {"removed", "failed"}, ItemEnds(state), owned' \in Inventory,
             UNCHANGED <<disk, late>>
      PROVE  TypeOK'
  <2>1. /\ result' \in Results /\ job' \in Jobs
        /\ job'.at \in {"none", "item"} /\ job'.kind \in {"none", job.kind}
    BY <1>1, <1>8, ItemEndsTyped DEF ItemStates
  <2> QED
    BY <1>2, <1>8, <2>1 DEF TypeOK, Deleting
<1>9. CASE DeleteRecord
  <2>1. owned' \in Inventory
    BY <1>9 DEF DeleteRecord, TypeOK, Inventory
  <2> QED
    BY <1>8, <1>9, <2>1 DEF DeleteRecord
<1>10. CASE DeleteFails
  <2>1. owned' \in Inventory
    BY <1>10 DEF DeleteFails, TypeOK
  <2> QED
    BY <1>8, <1>10, <2>1 DEF DeleteFails
<1> QED
  BY <1>4, <1>5, <1>6, <1>7, <1>9, <1>10 DEF Delete

LEMMA RemovingTyped == ASSUME TypeOK, Removing PROVE TypeOK'
<1>1. ASSUME NEW s \in Slots, RemoveBegins(s) PROVE TypeOK'
  <2>1. owned' \in Inventory /\ owned'[s] # None
    BY <1>1, ClaimTyped DEF RemoveBegins
  <2>2. job' \in Jobs /\ job'.slot = s /\ s # None
    BY <1>1, ReadsTyped, ReleaseAssumptions DEF RemoveBegins, Jobs, Idle, Choices
  <2>3. running = None /\ journal = None
    BY <1>1 DEF RemoveBegins, MayMutate, MutationReady, Quiescent
  <2> QED
    BY <1>1, <2>1, <2>2, <2>3, CountersTyped DEF RemoveBegins, TypeOK, cleanup
<1>2. ASSUME NEW s \in Slots, CleanupItem(s) PROVE TypeOK'
  <2>1. running = None /\ journal = None /\ job \in Jobs /\ result \in Results
    BY <1>2 DEF CleanupItem, TypeOK
  <2>2. CASE CleanupClaim(s)
    <3>1. owned' \in Inventory /\ owned'[s] # None
      BY <1>2, <2>2, ClaimTyped DEF CleanupItem
    <3>2. job' \in Jobs /\ job'.slot = s /\ s # None
      <4>1. job' = [job EXCEPT !.at = "compare", !.slot = s, !.left = @ \ {s}]
        BY <1>2, <2>2 DEF CleanupItem
      <4> QED
        BY <2>1, <4>1, ReleaseAssumptions DEF Jobs, Choices
    <3>3. result' \in Results
      BY <1>2, <2>1, <2>2 DEF CleanupItem, Results, ItemStates
    <3> QED
      BY <1>2, <2>1, <3>1, <3>2, <3>3, CountersTyped DEF CleanupItem, TypeOK
  <2>3. CASE ~CleanupClaim(s)
    <3>1. job' \in Jobs /\ job'.at = "item"
      BY <1>2, <2>1, <2>3 DEF CleanupItem, Jobs
    <3>2. result' \in Results
      BY <1>2, <2>1, <2>3 DEF CleanupItem, Results, ItemStates
    <3> QED
      BY <1>2, <2>1, <2>3, <3>1, <3>2, CountersTyped DEF CleanupItem, TypeOK
  <2> QED
    BY <2>2, <2>3
<1>3. CASE Delete
  BY <1>3, DeleteTyped
<1>4. CASE ScanBegins
  <2>1. scan' \in SUBSET Slots
    BY <1>4 DEF ScanBegins
  <2> QED
    BY <1>4, <2>1, CountersTyped DEF ScanBegins, TypeOK, store
<1>5. CASE ScanEnds
  <2>1. preview' \in [id : Nat, items : Inventory]
    BY <1>5 DEF ScanEnds, TypeOK, Inventory
  <2> QED
    BY <1>5, <2>1, CountersTyped DEF ScanEnds, TypeOK, store
<1>6. ASSUME NEW chosen \in SUBSET Slots, CleanupBegins(chosen) PROVE TypeOK'
  <2>1. result' \in Results
    BY <1>6 DEF CleanupBegins, Results, ItemStates, TypeOK
  <2>2. job' \in Jobs /\ job'.at = "item"
    BY <1>6, ReadsTyped DEF CleanupBegins, Idle, Jobs, TypeOK
  <2>3. running = None /\ journal = None
    BY <1>6 DEF CleanupBegins, MayMutate, MutationReady, Quiescent
  <2> QED
    BY <1>6, <2>1, <2>2, <2>3, CountersTyped DEF CleanupBegins, TypeOK, store
<1>7. CASE CleanupEnds
  <2>1. result' \in Results
    BY <1>7 DEF CleanupEnds, Results, TypeOK
  <2>2. job' \in Jobs /\ job'.at = "none" /\ job'.kind = "none"
    BY <1>7, ReadsTyped DEF CleanupEnds, Idle
  <2> QED
    BY <1>7, <2>1, <2>2, CountersTyped DEF CleanupEnds, TypeOK, store
<1> QED
  BY <1>1, <1>2, <1>3, <1>4, <1>5, <1>6, <1>7 DEF Removing

LEMMA OutsideTyped == ASSUME TypeOK, Outside PROVE TypeOK'
<1>1. CASE Crash
  <2>1. job' \in Jobs /\ job'.at = "none" /\ job'.kind = "none"
    BY <1>1, ReadsTyped DEF Crash, Idle
  <2> QED
    BY <1>1, <2>1, CountersTyped DEF Crash, TypeOK, store
<1>2. ASSUME NEW s \in Slots, Edit(s) PROVE TypeOK'
  <2>1. disk' \in [Slots -> Trees]
    BY <1>2 DEF Edit, TypeOK, Trees
  <2> QED
    BY <1>2, <2>1, CountersTyped DEF Edit, TypeOK, cleanup
<1>3. ASSUME NEW s \in Slots, Lose(s) PROVE TypeOK'
  <2>1. disk' \in [Slots -> Trees] /\ lost' \subseteq Slots
    BY <1>3, ReleaseAssumptions DEF Lose, TypeOK, Trees, Absent, Contents
  <2> QED
    BY <1>3, <2>1, CountersTyped DEF Lose, TypeOK, cleanup
<1> QED
  BY <1>1, <1>2, <1>3 DEF Outside

LEMMA InitTyped == ASSUME Init PROVE TypeOK
<1>1. {Absent, [dir |-> TRUE, manifest |-> "published", entry |-> 1]} \subseteq Trees
  BY ReleaseAssumptions DEF Trees, Absent, Contents
<1>2. disk \in [Slots -> Trees]
  BY <1>1 DEF Init
<1>3. Nothing \in Inventory /\ Idle \in Jobs /\ EmptyDocument \in Documents
  BY DEF Nothing, Inventory, Idle, Jobs, Choices, EmptyDocument, Documents
<1>4. result \in Results
  BY DEF Init, Results, ItemStates
<1>5. job.at = "none" /\ job.kind = "none" /\ job \in Jobs
  BY <1>3 DEF Init, Idle
<1>6. preview \in [id : Nat, items : Inventory]
  BY <1>3 DEF Init
<1> QED
  BY <1>2, <1>3, <1>4, <1>5, <1>6 DEF Init, TypeOK

\* No step of anybody leaves the types.
LEMMA StepTyped == ASSUME TypeOK, [Next]_vars PROVE TypeOK'
<1>1. CASE UNCHANGED vars
  BY <1>1 DEF vars, TypeOK
<1>2. CASE Next
  BY <1>2, PublishingTyped, SelectingTyped, ObservingTyped, RestoringTyped, RemovingTyped,
     OutsideTyped DEF Next
<1> QED
  BY <1>1, <1>2

\* Every reachable state of the store, its records and the work on them is well
\* typed, and a removal runs under its ownership record, beside no Harness and
\* no checkpoint restore (release_control_inner, remove_with_digest, cleanup).
THEOREM TypeCorrect == Spec => []TypeOK
<1>1. Init => TypeOK
  BY InitTyped
<1>2. TypeOK /\ [Next]_vars => TypeOK'
  BY StepTyped
<1> QED
  BY <1>1, <1>2, PTL DEF Spec

-------------------------------------------------------------------------------
(* The selection is whole                                                  *)

\* What the selection and an unfinished restore refer to.
References == ({doc.current} \cup JournalRefs) \ {None}

LEMMA RegisteredIsWhole == \A s \in Registered : Whole(s)
BY DEF Registered, Whole

\* Steps that leave references and slots alone, or only add whole ones.
LEMMA WholeStays ==
    ASSUME TypeOK, SelectionIsWhole,
           lost \subseteq lost',
           References' \subseteq References \cup Registered,
           \A s \in Slots : Whole(s) => Whole(s)' \/ s \in lost'
    PROVE  SelectionIsWhole'
<1>1. SUFFICES ASSUME NEW s \in References'
               PROVE  s \in lost' \/ Whole(s)'
  BY DEF SelectionIsWhole, References
<1>2. s \in lost \/ Whole(s)
  BY <1>1, RegisteredIsWhole DEF SelectionIsWhole, References
<1>3. s \in Slots
  BY <1>1, ReadsTyped DEF References, JournalRefs, TypeOK, Documents, Pairs, Choices
<1> QED
  BY <1>2, <1>3

\* The releases of a planned restore are registered.
LEMMA ReferencesFollow ==
    ASSUME TypeOK
    PROVE  /\ (doc'.current = doc.current /\ journal' = journal) => References' = References
           /\ (doc'.current \in Registered \cup {None} /\ journal' = journal)
                 => References' \subseteq References \cup Registered
           /\ (doc' = doc /\ journal' = None) => References' \subseteq References
BY DEF References, JournalRefs

LEMMA PublishingWhole ==
    ASSUME TypeOK, SelectionIsWhole, Publishing PROVE SelectionIsWhole'
<1>1. lost' = lost /\ References' = References
  BY ReferencesFollow DEF Publishing, Register, PublishBegins, PublishEnds, PublishFails, store
<1>2. ASSUME NEW s \in Slots, Whole(s) PROVE Whole(s)'
  <2>1. owned' = owned
    BY DEF Publishing, Register, PublishBegins, PublishEnds, PublishFails, store
  <2>2. disk'[s].dir /\ disk'[s].manifest = "published"
    <3>1. disk \in [Slots -> Trees] /\ disk[s].dir /\ disk[s].manifest = "published"
      BY <1>2 DEF TypeOK, Whole
    <3>2. ASSUME NEW t \in Slots, Register(t) PROVE disk'[s].dir /\ disk'[s].manifest = "published"
      BY <3>1, <3>2 DEF Register, Trees
    <3>3. ASSUME NEW t \in Slots, PublishBegins(t) PROVE disk'[s] = disk[s]
      BY <3>1, <3>3 DEF PublishBegins
    <3>4. CASE PublishEnds
      BY <3>1, <3>4 DEF PublishEnds, Trees
    <3>5. CASE PublishFails
      BY <3>1, <3>5 DEF PublishFails, store
    <3> QED
      BY <3>2, <3>3, <3>4, <3>5, <3>1 DEF Publishing
  <2> QED
    BY <1>2, <2>1, <2>2 DEF Whole
<1> QED
  BY <1>1, <1>2, WholeStays

LEMMA SelectingWhole ==
    ASSUME TypeOK, SelectionIsWhole, Selecting PROVE SelectionIsWhole'
<1>1. UNCHANGED <<disk, owned, lost, journal>>
  BY DEF Selecting, Inspect, Promote, Rollback, ResetSlots, store
<1>2. doc'.current \in Registered \cup {None} \/ doc' = doc
  <2>1. ASSUME NEW s \in Slots, Inspect(s) PROVE doc' = doc
    BY <2>1 DEF Inspect, store
  <2>2. ASSUME NEW s \in Slots, Promote(s) PROVE doc'.current \in Registered
    BY <2>2 DEF Promote, Selection, TypeOK, Documents
  <2>3. CASE Rollback
    BY <2>3 DEF Rollback, Selection, TypeOK, Documents, LastKnownGood
  <2>4. CASE ResetSlots
    BY <2>4 DEF ResetSlots, EmptyDocument
  <2> QED
    BY <2>1, <2>2, <2>3, <2>4 DEF Selecting
<1>3. References' \subseteq References \cup Registered
  BY <1>1, <1>2, ReferencesFollow
<1> QED
  BY <1>1, <1>3, WholeStays DEF Whole

LEMMA ObservingWhole ==
    ASSUME TypeOK, SelectionIsWhole, Observing PROVE SelectionIsWhole'
<1>1. UNCHANGED <<disk, owned, lost, journal>>
  BY DEF Observing, Launch, HarnessReady, Stop, store
<1>2. doc'.current \in Registered \cup {None} \/ doc' = doc
  BY DEF Observing, Launch, HarnessReady, RecordHealthy, Stop, store, WithEvidence, Current
<1>3. References' \subseteq References \cup Registered
  BY <1>1, <1>2, ReferencesFollow
<1> QED
  BY <1>1, <1>3, WholeStays DEF Whole

LEMMA RestoringWhole ==
    ASSUME TypeOK, SelectionIsWhole, Restoring PROVE SelectionIsWhole'
<1>1. UNCHANGED <<disk, owned, lost>>
  BY DEF Restoring, RestoreBegins, RestorePublishes, RestoreReverts, RestoreEnds, store
<1>2. References' \subseteq References \cup Registered
  <2>1. ASSUME NEW c \in Choices, RestoreBegins(c)
        PROVE  References' \subseteq References \cup Registered
    <3>1. /\ doc' = doc /\ Loads(Planned(c))
          /\ journal' = [previous |-> [current |-> Current, lkg |-> LastKnownGood],
                         target |-> Planned(c)]
      BY <2>1 DEF RestoreBegins, store
    <3>2. {Current, LastKnownGood} \subseteq Registered \cup {None}
      BY DEF Current, LastKnownGood
    <3>3. {Planned(c).current, Planned(c).lkg} \subseteq Registered \cup {None}
      BY <3>1 DEF Loads
    <3> QED
      BY <3>1, <3>2, <3>3 DEF References, JournalRefs
  <2>2. CASE RestorePublishes
    <3>1. doc' = doc \/ doc'.current \in Registered \cup {None}
      BY <2>2 DEF RestorePublishes, RestorePointers, Loads, Selection, TypeOK, Documents
    <3>2. journal' = journal
      BY <2>2 DEF RestorePublishes
    <3> QED
      BY <3>1, <3>2, ReferencesFollow
  <2>3. CASE RestoreReverts
    <3>1. doc' = doc \/ doc'.current \in Registered \cup {None}
      BY <2>3 DEF RestoreReverts, RestorePointers, Loads, Selection, TypeOK, Documents
    <3>2. journal' = journal
      BY <2>3 DEF RestoreReverts
    <3> QED
      BY <3>1, <3>2, ReferencesFollow
  <2>4. CASE RestoreEnds
    BY <2>4, ReferencesFollow DEF RestoreEnds, store
  <2> QED
    BY <2>1, <2>2, <2>3, <2>4 DEF Restoring
<1> QED
  BY <1>1, <1>2, WholeStays DEF Whole

\* A slot with an ownership record is not whole: a removal takes none that is.
LEMMA ClaimSpares ==
    ASSUME TypeOK, SelectionIsWhole, NEW s \in Slots, Removable(s), Claim(s),
           UNCHANGED <<disk, doc, journal, lost>>
    PROVE  SelectionIsWhole'
<1>1. References' = References
  BY ReferencesFollow
<1>2. SUFFICES ASSUME NEW t \in References PROVE t \in lost \/ Whole(t)'
  BY <1>1 DEF SelectionIsWhole, References
<1>3. t \in lost \/ Whole(t)
  BY <1>2 DEF SelectionIsWhole, References
<1>4. CASE t = s
  <2>1. s \notin JournalRefs /\ s # Current
    BY DEF Removable
  <2>2. s = doc.current
    BY <1>2, <1>4, <2>1 DEF References
  <2>3. s \notin Registered
    BY <2>1, <2>2 DEF Current
  <2>4. ~Whole(s)
    BY <2>3 DEF Whole, Registered
  <2> QED
    BY <1>3, <1>4, <2>4
<1>5. CASE t # s
  <2>1. owned'[t] = owned[t] /\ disk' = disk
    BY <1>5 DEF Claim, TypeOK, Inventory
  <2> QED
    BY <1>3, <2>1 DEF Whole
<1> QED
  BY <1>4, <1>5

LEMMA RemovingWhole ==
    ASSUME TypeOK, SelectionIsWhole, Removing PROVE SelectionIsWhole'
<1>1. ASSUME NEW s \in Slots, RemoveBegins(s) PROVE SelectionIsWhole'
  BY <1>1, ClaimSpares DEF RemoveBegins
<1>2. ASSUME NEW s \in Slots, CleanupItem(s) PROVE SelectionIsWhole'
  <2>1. CASE CleanupClaim(s)
    BY <1>2, <2>1, ClaimSpares DEF CleanupItem, CleanupClaim
  <2>2. CASE ~CleanupClaim(s)
    <3>1. UNCHANGED <<disk, owned, doc, journal, lost>>
      BY <1>2, <2>2 DEF CleanupItem
    <3> QED
      BY <3>1, ReferencesFollow, WholeStays DEF Whole
  <2> QED
    BY <2>1, <2>2
<1>3. CASE Delete
  <2>1. job.slot \in Slots /\ owned[job.slot] # None /\ UNCHANGED <<doc, journal, lost>>
    BY <1>3 DEF Delete, TypeOK, Jobs, Choices
  <2>2. ~Whole(job.slot)
    BY <2>1 DEF Whole
  <2>3. ASSUME NEW s \in Slots, s # job.slot
        PROVE  disk'[s] = disk[s] /\ owned'[s] = owned[s]
    BY <1>3, <2>3 DEF Delete, DeleteCompares, DeleteEntry, DeleteManifest, DeleteDirectory,
                      DeleteRecord, DeleteFails, TypeOK, Inventory
  <2>4. ASSUME NEW s \in Slots, Whole(s) PROVE Whole(s)'
    BY <2>2, <2>3, <2>4 DEF Whole
  <2> QED
    BY <2>1, <2>4, ReferencesFollow, WholeStays
<1>4. ASSUME UNCHANGED <<disk, owned, doc, journal, lost>> PROVE SelectionIsWhole'
  BY <1>4, ReferencesFollow, WholeStays DEF Whole
<1>5. CASE ScanBegins \/ ScanEnds \/ CleanupEnds
  BY <1>4, <1>5 DEF ScanBegins, ScanEnds, CleanupEnds, store
<1>6. ASSUME NEW chosen \in SUBSET Slots, CleanupBegins(chosen) PROVE SelectionIsWhole'
  BY <1>4, <1>6 DEF CleanupBegins, store
<1> QED
  BY <1>1, <1>2, <1>3, <1>5, <1>6 DEF Removing

LEMMA OutsideWhole ==
    ASSUME TypeOK, SelectionIsWhole, Outside PROVE SelectionIsWhole'
<1>1. References' = References /\ owned' = owned /\ lost \subseteq lost'
  BY ReferencesFollow DEF Outside, Crash, Edit, Lose, store
<1>2. ASSUME NEW s \in Slots, Whole(s) PROVE Whole(s)' \/ s \in lost'
  <2>1. CASE Crash
    BY <1>2, <2>1 DEF Crash, store, Whole
  <2>2. ASSUME NEW t \in Slots, Edit(t) PROVE Whole(s)'
    BY <1>1, <1>2, <2>2 DEF Edit, Whole, TypeOK
  <2>3. ASSUME NEW t \in Slots, Lose(t) PROVE Whole(s)' \/ s \in lost'
    BY <1>1, <1>2, <2>3 DEF Lose, Whole, TypeOK
  <2> QED
    BY <2>1, <2>2, <2>3 DEF Outside
<1> QED
  BY <1>1, <1>2, WholeStays

\* The selected release, and every release that an unfinished checkpoint restore
\* may go to, is a whole slot unless somebody deleted its directory, whatever
\* removals, cleanups and publications are interrupted (load_unlocked,
\* remove_with_digest).
THEOREM SelectionStaysWhole == Spec => []SelectionIsWhole
<1>1. Init => TypeOK /\ SelectionIsWhole
  <2>1. Init => SelectionIsWhole
    BY DEF Init, SelectionIsWhole, JournalRefs, EmptyDocument
  <2> QED
    BY <2>1, InitTyped
<1>2. TypeOK /\ SelectionIsWhole /\ [Next]_vars => (TypeOK /\ SelectionIsWhole)'
  <2> SUFFICES ASSUME TypeOK, SelectionIsWhole, [Next]_vars
               PROVE  SelectionIsWhole'
    BY StepTyped
  <2>1. CASE UNCHANGED vars
    BY <2>1 DEF vars, SelectionIsWhole, JournalRefs, Whole
  <2>2. CASE Next
    BY <2>2, PublishingWhole, SelectingWhole, ObservingWhole, RestoringWhole, RemovingWhole,
       OutsideWhole DEF Next
  <2> QED
    BY <2>1, <2>2
<1> QED
  BY <1>1, <1>2, PTL DEF Spec

-------------------------------------------------------------------------------
(* The fallback became ready                                               *)

\* Health evidence names the fingerprint of a launch that became ready.
EvidenceBecameReady == \A h \in doc.healthy : [id |-> h.id, fp |-> h.fp] \in ready

LEMMA EvidenceStays ==
    ASSUME TypeOK, EvidenceBecameReady, [Next]_vars
    PROVE  EvidenceBecameReady'
<1>1. ASSUME doc'.healthy \subseteq doc.healthy, ready \subseteq ready'
      PROVE  EvidenceBecameReady'
  BY <1>1 DEF EvidenceBecameReady
<1>2. CASE UNCHANGED vars
  BY <1>1, <1>2 DEF vars
<1>3. CASE Publishing
  BY <1>1, <1>3 DEF Publishing, Register, PublishBegins, PublishEnds, PublishFails, store
<1>4. CASE Selecting
  <2>1. ready' = ready
    BY <1>4 DEF Selecting, Inspect, Promote, Rollback, ResetSlots, store
  <2>2. doc'.healthy \subseteq doc.healthy
    <3>1. ASSUME NEW p, Selection(p) PROVE doc'.healthy = doc.healthy
      BY <3>1 DEF Selection, TypeOK, Documents
    <3>2. ASSUME NEW s \in Slots, Inspect(s) PROVE doc' = doc
      BY <3>2 DEF Inspect, store
    <3>3. ASSUME NEW s \in Slots, Promote(s) PROVE doc'.healthy = doc.healthy
      BY <3>1, <3>3 DEF Promote
    <3>4. Rollback => doc'.healthy = doc.healthy
      BY <3>1 DEF Rollback
    <3>5. ResetSlots => doc'.healthy = {}
      BY DEF ResetSlots, EmptyDocument
    <3> QED
      BY <1>4, <3>2, <3>3, <3>4, <3>5 DEF Selecting
  <2> QED
    BY <1>1, <2>1, <2>2
<1>5. CASE Launch
  BY <1>1, <1>5 DEF Launch, store
<1>6. CASE HarnessReady
  <2>1. ready' = ready \cup {[id |-> running.id, fp |-> running.fp]} /\ RecordHealthy
    BY <1>6 DEF HarnessReady
  <2>2. CASE doc' = doc
    BY <1>1, <2>1, <2>2
  <2>3. CASE doc' = WithEvidence(running)
    <3>1. ASSUME NEW h \in doc'.healthy PROVE [id |-> h.id, fp |-> h.fp] \in ready'
      BY <2>1, <2>3, <3>1 DEF WithEvidence, EvidenceBecameReady
    <3> QED
      BY <3>1 DEF EvidenceBecameReady
  <2> QED
    BY <2>1, <2>2, <2>3 DEF RecordHealthy
<1>7. CASE Stop
  BY <1>1, <1>7 DEF Stop, store
<1>8. CASE Restoring
  <2>1. ready' = ready
    BY <1>8 DEF Restoring, RestoreBegins, RestorePublishes, RestoreReverts, RestoreEnds, store
  <2>2. doc'.healthy = doc.healthy
    BY <1>8 DEF Restoring, RestoreBegins, RestorePublishes, RestoreReverts, RestorePointers,
                RestoreEnds, store, Selection, TypeOK, Documents
  <2> QED
    BY <1>1, <2>1, <2>2
<1>9. CASE Removing
  BY <1>1, <1>9 DEF Removing, RemoveBegins, CleanupItem, Delete, ScanBegins, ScanEnds,
                    CleanupBegins, CleanupEnds, store
<1>10. CASE Outside
  BY <1>1, <1>10 DEF Outside, Crash, Edit, Lose, store
<1> QED
  BY <1>2, <1>3, <1>4, <1>5, <1>6, <1>7, <1>8, <1>9, <1>10 DEF Next, Observing

\* The release that is offered as last known good has the entry file and the
\* manifest that a launch of it was prepared with, and that launch became ready,
\* whatever happened to its slot since (record_healthy_release,
\* health_fingerprint, verified_fallback).
THEOREM FallbackIsWhatBecameReady == Spec => []FallbackBecameReady
<1>1. Init => TypeOK /\ EvidenceBecameReady
  <2>1. Init => EvidenceBecameReady
    BY DEF Init, EvidenceBecameReady, EmptyDocument
  <2> QED
    BY <2>1, InitTyped
<1>2. TypeOK /\ EvidenceBecameReady /\ [Next]_vars => (TypeOK /\ EvidenceBecameReady)'
  BY StepTyped, EvidenceStays
<1>3. EvidenceBecameReady => FallbackBecameReady
  BY DEF EvidenceBecameReady, FallbackBecameReady, LastKnownGood, Evidence, Healthy
<1> QED
  BY <1>1, <1>2, <1>3, PTL DEF Spec

-------------------------------------------------------------------------------
(* What is deleted was confirmed                                           *)

\* While a cleanup deletes a slot, the content it may still delete is the one
\* the preview showed; and a file whose turn has come is the recorded one, unless
\* it was edited since.
DeletionIsConfirmed ==
    LET s == job.slot IN
    /\ job.at \in Deleting /\ job.kind = "cleanup" => job.shown[s] # None
    /\ job.at = "compare" /\ job.kind = "cleanup" /\ disk[s].entry # 0
          /\ disk[s].entry = owned[s].entry => disk[s].entry = job.shown[s].entry
    /\ job.at = "unlink" /\ job.kind = "cleanup" => owned[s].entry = job.shown[s].entry
    /\ job.at = "unlink" /\ ~late => disk[s].entry \in {0, owned[s].entry}

LEMMA ConfirmedStays ==
    ASSUME TypeOK, DeletionIsConfirmed, [Next]_vars
    PROVE  DeletionIsConfirmed'
<1>1. ASSUME job'.at \notin Deleting PROVE DeletionIsConfirmed'
  BY <1>1 DEF DeletionIsConfirmed
<1>2. ASSUME UNCHANGED <<job, disk, owned, late>> PROVE DeletionIsConfirmed'
  BY <1>2 DEF DeletionIsConfirmed
<1>3. CASE UNCHANGED vars
  BY <1>2, <1>3 DEF vars
<1>4. CASE Publishing
  <2>1. ASSUME NEW s \in Slots, Register(s) PROVE job'.at = "none"
    BY <2>1 DEF Register, MayMutate, Gates, Idle
  <2>2. ASSUME NEW s \in Slots, PublishBegins(s) PROVE job'.at = "marker"
    BY <2>2 DEF PublishBegins, Idle
  <2>3. PublishEnds \/ PublishFails => job'.at = "none"
    BY DEF PublishEnds, PublishFails, Idle
  <2> QED
    BY <1>1, <1>4, <2>1, <2>2, <2>3 DEF Publishing
<1>5. CASE Selecting
  BY <1>2, <1>5 DEF Selecting, Inspect, Promote, Rollback, ResetSlots, store
<1>6. CASE Observing
  BY <1>2, <1>6 DEF Observing, Launch, HarnessReady, Stop, store
<1>7. CASE Restoring
  BY <1>2, <1>7 DEF Restoring, RestoreBegins, RestorePublishes, RestoreReverts, RestoreEnds,
                    store
<1>8. ASSUME NEW s \in Slots, RemoveBegins(s) PROVE DeletionIsConfirmed'
  <2>1. job'.at = "compare" /\ job'.kind = "remove"
    BY <1>8 DEF RemoveBegins, Idle
  <2> QED
    BY <2>1 DEF DeletionIsConfirmed
<1>9. ASSUME NEW s \in Slots, CleanupItem(s) PROVE DeletionIsConfirmed'
  <2>1. CASE CleanupClaim(s)
    <3>1. job' = [job EXCEPT !.at = "compare", !.slot = s, !.left = @ \ {s}]
          /\ disk' = disk /\ Claim(s)
      BY <1>9, <2>1 DEF CleanupItem
    <3>2. job'.slot = s /\ job'.shown = job.shown /\ job'.at = "compare"
      BY <3>1 DEF TypeOK, Jobs
    <3>3. disk[s] = job.shown[s] /\ disk[s] \in Trees
      BY <2>1 DEF CleanupClaim, TypeOK
    <3>4. disk[s] # None
      BY <3>3, NoRecordIsNone
    <3> QED
      BY <3>1, <3>2, <3>3, <3>4 DEF DeletionIsConfirmed
  <2>2. CASE ~CleanupClaim(s)
    <3>1. job'.at = "item"
      BY <1>9, <2>2 DEF CleanupItem, TypeOK, Jobs
    <3> QED
      BY <1>1, <3>1
  <2> QED
    BY <2>1, <2>2
<1>10. CASE Delete
  <2>1. /\ job.slot \in Slots /\ owned[job.slot] # None /\ disk[job.slot] \in Trees
        /\ job.at \in Deleting
    BY <1>10 DEF Delete, TypeOK, Jobs, Choices
  <2>2. CASE DeleteCompares
    <3>1. PICK to \in {"record", "unlink", "manifest"} :
             Goes(to) /\ (to = "unlink" => disk[job.slot].dir /\ disk[job.slot].entry # 0)
      BY <2>2, Zenon DEF DeleteCompares
    <3>2. /\ job'.at = to /\ job'.slot = job.slot /\ job'.kind = job.kind /\ job'.shown = job.shown
      BY <3>1, GoesTyped
    <3>3. /\ disk' = disk /\ owned' = owned /\ job.at = "compare" /\ Remaining(job.slot)
      BY <2>2 DEF DeleteCompares
    <3>4. to = "unlink" => disk[job.slot].entry = owned[job.slot].entry
      BY <3>1, <3>3 DEF Remaining
    <3> QED
      BY <3>1, <3>2, <3>3, <3>4 DEF DeletionIsConfirmed
  <2>3. ASSUME NEW to \in {"manifest", "directory", "record"}, Goes(to)
        PROVE  DeletionIsConfirmed'
    <3>1. /\ job'.at = to /\ job'.slot = job.slot /\ job'.kind = job.kind /\ job'.shown = job.shown
      BY <2>3, GoesTyped
    <3> QED
      BY <2>1, <3>1 DEF DeletionIsConfirmed
  <2>4. CASE DeleteEntry \/ DeleteManifest \/ DeleteDirectory
    BY <2>3, <2>4 DEF DeleteEntry, DeleteManifest, DeleteDirectory
  <2>5. CASE DeleteRecord \/ DeleteFails
    <3>1. ItemEnds("removed") \/ ItemEnds("failed")
      BY <2>5 DEF DeleteRecord, DeleteFails
    <3>2. job'.at \in {"none", "item"}
      BY <2>1, <3>1, ItemEndsTyped DEF ItemStates
    <3> QED
      BY <1>1, <3>2
  <2> QED
    BY <1>10, <2>2, <2>4, <2>5 DEF Delete
<1>11. CASE ScanBegins \/ ScanEnds
  BY <1>2, <1>11 DEF ScanBegins, ScanEnds, store
<1>12. ASSUME NEW chosen \in SUBSET Slots, CleanupBegins(chosen) PROVE DeletionIsConfirmed'
  BY <1>1, <1>12 DEF CleanupBegins, Idle
<1>13. CASE CleanupEnds
  BY <1>1, <1>13 DEF CleanupEnds, Idle
<1>14. CASE Crash
  BY <1>1, <1>14 DEF Crash, Idle
<1>15. ASSUME NEW s \in Slots, Edit(s) PROVE DeletionIsConfirmed'
  <2>1. PICK c \in Contents \ ({0, disk[s].entry} \cup Recorded(s)) :
           disk' = [disk EXCEPT ![s].entry = c]
    BY <1>15 DEF Edit
  <2>2. disk'[s].entry = c /\ \A t \in Slots \ {s} : disk'[t] = disk[t]
    BY <2>1 DEF TypeOK, Trees
  <2>3. owned[s] # None => c # owned[s].entry
    BY <2>1 DEF Recorded
  <2>4. /\ owned' = owned /\ job' = job
        /\ late' = (late \/ (job.at = "unlink" /\ job.slot = s))
    BY <1>15 DEF Edit
  <2>5. job.at \in Deleting => job.slot \in Slots /\ owned[job.slot] # None
    BY DEF TypeOK, Jobs, Choices
  <2>6. CASE job.slot = s
    BY <2>2, <2>3, <2>4, <2>5, <2>6 DEF DeletionIsConfirmed
  <2>7. CASE job.slot # s
    <3>1. job.at \in Deleting => disk'[job.slot] = disk[job.slot]
      BY <2>2, <2>5, <2>7
    <3>2. late' = late
      BY <2>4, <2>7 DEF TypeOK
    <3> QED
      BY <2>4, <3>1, <3>2 DEF DeletionIsConfirmed
  <2> QED
    BY <2>6, <2>7
<1>16. ASSUME NEW s \in Slots, Lose(s) PROVE DeletionIsConfirmed'
  <2>1. disk'[s].entry = 0 /\ \A t \in Slots \ {s} : disk'[t] = disk[t]
    BY <1>16 DEF Lose, TypeOK, Absent
  <2>2. owned' = owned /\ job' = job /\ late' = late
    BY <1>16 DEF Lose
  <2>3. job.at \in Deleting => job.slot \in Slots
    BY DEF TypeOK, Jobs, Choices
  <2> QED
    BY <2>1, <2>2, <2>3 DEF DeletionIsConfirmed
<1> QED
  BY <1>3, <1>4, <1>5, <1>6, <1>7, <1>8, <1>9, <1>10, <1>11, <1>12, <1>13, <1>14, <1>15, <1>16
     DEF Next, Removing, Outside

\* The only step by which Nexus itself takes a file away is a deletion.
LEMMA OnlyDeletionsDelete ==
    ASSUME TypeOK, [Next]_vars, NEW s \in Slots, Vanishes(s)
    PROVE  job.at = "unlink" /\ job.slot = s
<1>1. disk[s].entry # 0 /\ disk'[s].entry = 0 /\ mishaps' = mishaps
  BY DEF Vanishes
<1>2. disk' # disk /\ ~Outside
  <2>1. mishaps \in Nat
    BY DEF TypeOK
  <2> QED
    BY <1>1, <2>1 DEF Outside, Crash, Edit, Lose, Mishap
<1>3. ~UNCHANGED vars
  BY <1>2 DEF vars
<1>4. ~Selecting /\ ~Observing /\ ~Restoring
  BY <1>2 DEF Selecting, Inspect, Promote, Rollback, ResetSlots, Observing, Launch, HarnessReady,
     Stop, Restoring, RestoreBegins, RestorePublishes, RestoreReverts, RestoreEnds, store
<1>5. ~Publishing
  <2>1. ASSUME NEW t \in Slots, Register(t) PROVE FALSE
    BY <1>1, <2>1 DEF Register, TypeOK, Trees
  <2>2. ASSUME NEW t \in Slots, PublishBegins(t) PROVE FALSE
    BY <1>1, <2>2 DEF PublishBegins, TypeOK
  <2>3. ~PublishEnds
    BY <1>1 DEF PublishEnds, TypeOK, Trees
  <2>4. ~PublishFails
    BY <1>2 DEF PublishFails, store
  <2> QED
    BY <2>1, <2>2, <2>3, <2>4 DEF Publishing
<1>6. Delete
  BY <1>2, <1>3, <1>4, <1>5 DEF Next, Removing, RemoveBegins, CleanupItem, ScanBegins, ScanEnds,
     CleanupBegins, CleanupEnds, store
<1>7. job.slot \in Slots
  BY <1>6 DEF Delete, TypeOK, Jobs, Choices
<1>8. CASE DeleteEntry
  BY <1>1, <1>7, <1>8 DEF DeleteEntry, TypeOK
<1>9. CASE DeleteManifest
  BY <1>1, <1>7, <1>9 DEF DeleteManifest, TypeOK, Trees
<1>10. CASE DeleteDirectory
  BY <1>1, <1>7, <1>10 DEF DeleteDirectory, TypeOK
<1>11. CASE DeleteCompares \/ DeleteRecord \/ DeleteFails
  BY <1>2, <1>11 DEF DeleteCompares, DeleteRecord, DeleteFails
<1> QED
  BY <1>6, <1>8, <1>9, <1>10, <1>11 DEF Delete

\* Nexus removes a file of a slot only when it was, at its last comparison, the
\* one its ownership record lists, and in a cleanup the one the confirmed preview
\* showed, whatever was selected, restored, edited or interrupted since
\* (begin_bound, delete_inner).
THEOREM DeletedContentWasConfirmed == Spec => OnlyConfirmedContentIsDeleted
<1> DEFINE Confirmation ==
      \A s \in Slots : Vanishes(s) =>
          /\ job.slot = s /\ owned[s] # None
          /\ late \/ owned[s].entry = disk[s].entry
          /\ job.kind = "cleanup" => job.shown[s] # None /\ job.shown[s].entry = owned[s].entry
<1>1. Init => TypeOK /\ DeletionIsConfirmed
  <2>1. Init => DeletionIsConfirmed
    BY DEF Init, DeletionIsConfirmed, Idle
  <2> QED
    BY <2>1, InitTyped
<1>2. TypeOK /\ DeletionIsConfirmed /\ [Next]_vars => (TypeOK /\ DeletionIsConfirmed)'
  BY StepTyped, ConfirmedStays
<1>3. TypeOK /\ DeletionIsConfirmed /\ [Next]_vars => Confirmation
  <2> SUFFICES ASSUME TypeOK, DeletionIsConfirmed, [Next]_vars, NEW s \in Slots, Vanishes(s)
               PROVE  /\ job.slot = s /\ owned[s] # None
                      /\ late \/ owned[s].entry = disk[s].entry
                      /\ job.kind = "cleanup"
                            => job.shown[s] # None /\ job.shown[s].entry = owned[s].entry
    OBVIOUS
  <2>1. job.at = "unlink" /\ job.slot = s
    BY OnlyDeletionsDelete
  <2>2. disk[s].entry # 0 /\ owned[s] # None
    BY <2>1 DEF Vanishes, TypeOK
  <2> QED
    BY <2>1, <2>2 DEF DeletionIsConfirmed
<1> QED
  BY <1>1, <1>2, <1>3, PTL DEF Spec, OnlyConfirmedContentIsDeleted

-------------------------------------------------------------------------------
(* The saved result                                                        *)

\* While a cleanup runs its result names what is left, and what is going.
ResultFollowsJob ==
    /\ job.kind = "cleanup" => job.at \in {"item"} \cup Deleting
    /\ \A s \in Slots : job.kind = "cleanup" /\ s \in job.left => result.items[s] = "pending"
    /\ job.kind = "cleanup" /\ job.at \in Deleting => result.items[job.slot] = "deleting"
    /\ job.at \in Deleting => job.kind \in {"remove", "cleanup"}

\* The ownership record goes after the directory, which nobody makes again.
RecordGoesLast == job.at = "record" => ~disk[job.slot].dir

LEMMA RecordGoesLastStays ==
    ASSUME TypeOK, RecordGoesLast, [Next]_vars
    PROVE  RecordGoesLast'
<1>1. ASSUME job' = job, \A s \in Slots : disk'[s].dir => disk[s].dir PROVE RecordGoesLast'
  <2>1. job.at = "record" => job.slot \in Slots
    BY DEF TypeOK, Jobs, Choices
  <2> QED
    BY <1>1, <2>1 DEF RecordGoesLast
<1>2. ASSUME job'.at # "record" PROVE RecordGoesLast'
  BY <1>2 DEF RecordGoesLast
<1>3. CASE UNCHANGED vars
  BY <1>1, <1>3 DEF vars
<1>4. CASE Publishing
  <2>1. ASSUME NEW s \in Slots, Register(s) PROVE job'.at = "none"
    BY <2>1 DEF Register, MayMutate, Gates, Idle
  <2>2. ASSUME NEW s \in Slots, PublishBegins(s) PROVE job'.at = "marker"
    BY <2>2 DEF PublishBegins, Idle
  <2>3. PublishEnds \/ PublishFails => job'.at = "none"
    BY DEF PublishEnds, PublishFails, Idle
  <2> QED
    BY <1>2, <1>4, <2>1, <2>2, <2>3 DEF Publishing
<1>5. CASE Selecting \/ Observing \/ Restoring
  BY <1>1, <1>5 DEF Selecting, Inspect, Promote, Rollback, ResetSlots, Observing, Launch,
                    HarnessReady, Stop, Restoring, RestoreBegins, RestorePublishes,
                    RestoreReverts, RestoreEnds, store
<1>6. ASSUME NEW s \in Slots, RemoveBegins(s) PROVE RecordGoesLast'
  BY <1>2, <1>6 DEF RemoveBegins, Idle
<1>7. ASSUME NEW s \in Slots, CleanupItem(s) PROVE RecordGoesLast'
  <2>1. job'.at \in {"compare", "item"}
    BY <1>7 DEF CleanupItem, TypeOK, Jobs
  <2> QED
    BY <1>2, <2>1
<1>8. CASE ScanBegins \/ ScanEnds
  BY <1>1, <1>8 DEF ScanBegins, ScanEnds, store
<1>9. ASSUME NEW chosen \in SUBSET Slots, CleanupBegins(chosen) PROVE RecordGoesLast'
  BY <1>2, <1>9 DEF CleanupBegins, Idle
<1>10. CASE CleanupEnds \/ Crash
  BY <1>2, <1>10 DEF CleanupEnds, Crash, Idle
<1>11. ASSUME NEW s \in Slots, Edit(s) PROVE RecordGoesLast'
  BY <1>1, <1>11 DEF Edit, TypeOK, Trees
<1>12. ASSUME NEW s \in Slots, Lose(s) PROVE RecordGoesLast'
  BY <1>1, <1>12 DEF Lose, TypeOK, Absent
<1>13. CASE Delete
  <2>1. job.slot \in Slots /\ disk[job.slot] \in Trees
    BY <1>13 DEF Delete, TypeOK, Jobs, Choices
  <2>2. CASE DeleteCompares
    <3>1. PICK to \in {"record", "unlink", "manifest"} :
             Goes(to) /\ (to = "record" => ~disk[job.slot].dir)
      BY <2>2, Zenon DEF DeleteCompares
    <3>2. job'.at = to /\ job'.slot = job.slot
      BY <3>1, GoesTyped
    <3>3. disk' = disk
      BY <2>2 DEF DeleteCompares
    <3> QED
      BY <3>1, <3>2, <3>3 DEF RecordGoesLast
  <2>3. CASE DeleteEntry \/ DeleteManifest
    <3>1. Goes("manifest") \/ Goes("directory")
      BY <2>3 DEF DeleteEntry, DeleteManifest
    <3>2. job'.at # "record"
      BY <3>1, GoesTyped
    <3> QED
      BY <1>2, <3>2
  <2>4. CASE DeleteDirectory
    <3>1. job'.slot = job.slot
      BY <2>4, GoesTyped DEF DeleteDirectory
    <3>2. ~disk'[job.slot].dir
      BY <2>1, <2>4 DEF DeleteDirectory, TypeOK, Absent
    <3> QED
      BY <3>1, <3>2 DEF RecordGoesLast
  <2>5. CASE DeleteRecord \/ DeleteFails
    <3>1. ItemEnds("removed") \/ ItemEnds("failed")
      BY <2>5 DEF DeleteRecord, DeleteFails
    <3>2. job'.at \in {"none", "item"}
      BY <2>1, <3>1, ItemEndsTyped DEF ItemStates
    <3> QED
      BY <1>2, <3>2
  <2> QED
    BY <1>13, <2>2, <2>3, <2>4, <2>5 DEF Delete
<1> QED
  BY <1>3, <1>4, <1>5, <1>6, <1>7, <1>8, <1>9, <1>10, <1>11, <1>12, <1>13 DEF Next, Removing, Outside

\* Only a cleanup touches the result, and only a deletion the record of a slot
\* that goes.
LEMMA ResultStays ==
    ASSUME TypeOK, Publishing \/ Selecting \/ Observing \/ Restoring \/ Outside
    PROVE  /\ result' = result /\ (job' = job \/ job'.kind \in {"none", "publish"})
           /\ job' = job \/ job'.at \notin Deleting
<1>1. /\ Idle.kind = "none" /\ Idle.at = "none"
      /\ \A s \in Slots : LET j == [Idle EXCEPT !.kind = "publish", !.at = "marker", !.slot = s]
                          IN  j.kind = "publish" /\ j.at = "marker"
  BY DEF Idle
<1>2. CASE Publishing
  BY <1>1, <1>2, Zenon DEF Publishing, Register, PublishBegins, PublishEnds, PublishFails, cleanup
<1>3. CASE Selecting
  BY <1>3, Zenon DEF Selecting, Inspect, Promote, Rollback, ResetSlots, cleanup
<1>4. CASE Observing
  BY <1>4, Zenon DEF Observing, Launch, HarnessReady, Stop, cleanup
<1>5. CASE Restoring
  BY <1>5, Zenon DEF Restoring, RestoreBegins, RestorePublishes, RestoreReverts, RestoreEnds, cleanup
<1>6. CASE Outside
  BY <1>1, <1>6, Zenon DEF Outside, Crash, Edit, Lose, cleanup
<1> QED
  BY <1>2, <1>3, <1>4, <1>5, <1>6

Reports ==
    /\ \A s \in Slots :
          /\ Vanishes(s) /\ job.kind = "cleanup" => result.items[s] = "deleting"
          /\ result'.items[s] = "removed" /\ result.items[s] # "removed"
                => ~disk'[s].dir /\ owned'[s] = None
    /\ result'.preview = result.preview =>
          \A s \in Slots : result.items[s] \in {"removed", "failed"}
                              => result'.items[s] = result.items[s]

\* A result that stays as it is says what it said.
LEMMA QuietReports ==
    ASSUME TypeOK, ResultFollowsJob, [Next]_vars, result' = result
    PROVE  Reports
<1>1. ASSUME NEW s \in Slots, Vanishes(s), job.kind = "cleanup"
      PROVE  result.items[s] = "deleting"
  <2>1. job.at = "unlink" /\ job.slot = s
    BY <1>1, OnlyDeletionsDelete
  <2> QED
    BY <1>1, <2>1 DEF ResultFollowsJob
<1> QED
  BY <1>1 DEF Reports

LEMMA ReportsStep ==
    ASSUME TypeOK, TypeOK', ResultFollowsJob, RecordGoesLast, [Next]_vars
    PROVE  ResultFollowsJob' /\ Reports
<1> USE DEF ResultFollowsJob
<1>0. /\ job \in Jobs /\ result \in Results /\ job' \in Jobs
      /\ result.items \in [Slots -> ItemStates]
  BY DEF TypeOK, Results
<1>1. ASSUME result' = result, job' = job \/ (job'.kind \in {"none", "publish"} /\ job'.at \notin Deleting)
      PROVE  ResultFollowsJob' /\ Reports
  BY <1>1, QuietReports
<1>2. CASE UNCHANGED vars
  BY <1>1, <1>2 DEF vars
<1>3. CASE Publishing \/ Selecting \/ Observing \/ Restoring \/ Outside
  <2>1. /\ result' = result /\ (job' = job \/ job'.kind \in {"none", "publish"})
        /\ job' = job \/ job'.at \notin Deleting
    BY <1>3, ResultStays
  <2> QED
    BY <1>1, <2>1
<1>4. CASE ScanBegins \/ ScanEnds
  BY <1>1, <1>4 DEF ScanBegins, ScanEnds
<1>5. ASSUME NEW s \in Slots, RemoveBegins(s)
      PROVE  ResultFollowsJob' /\ Reports
  <2>1. result' = result
    BY <1>5 DEF RemoveBegins, cleanup
  <2>2. job'.kind = "remove"
    BY <1>5 DEF RemoveBegins, Idle
  <2> QED
    BY <2>1, <2>2, QuietReports
<1>6. ASSUME NEW chosen \in SUBSET Slots, CleanupBegins(chosen)
      PROVE  ResultFollowsJob' /\ Reports
  <2>1. /\ job'.kind = "cleanup" /\ job'.at = "item" /\ job'.left = chosen
        /\ result'.items = [s \in Slots |-> IF s \in chosen THEN "pending" ELSE "none"]
        /\ result'.preview = preview.id /\ result.preview # preview.id
        /\ disk' = disk
    BY <1>6 DEF CleanupBegins, Idle, Unused, store
  <2> QED
    BY <2>1 DEF Reports, Vanishes
<1>7. ASSUME NEW s \in Slots, CleanupItem(s)
      PROVE  ResultFollowsJob' /\ Reports
  <2>1. /\ job.kind = "cleanup" /\ job.at = "item" /\ s \in job.left /\ disk' = disk
        /\ result.items[s] = "pending"
    BY <1>7 DEF CleanupItem
  <2>2. CASE CleanupClaim(s)
    <3>1. /\ job' = [job EXCEPT !.at = "compare", !.slot = s, !.left = job.left \ {s}]
          /\ result' = [result EXCEPT !.items[s] = "deleting"]
      BY <1>7, <2>2 DEF CleanupItem
    <3>2. /\ job'.kind = "cleanup" /\ job'.at = "compare" /\ job'.slot = s
          /\ job'.left = job.left \ {s}
      BY <1>0, <2>1, <3>1 DEF Jobs
    <3>3. /\ result'.items = [result.items EXCEPT ![s] = "deleting"]
          /\ result'.preview = result.preview
      BY <1>0, <3>1 DEF Results
    <3> QED
      BY <1>0, <2>1, <3>2, <3>3 DEF Reports, Vanishes
  <2>3. CASE ~CleanupClaim(s)
    <3>1. /\ job' = [job EXCEPT !.left = job.left \ {s}]
          /\ result' = [result EXCEPT !.items[s] = "failed"]
      BY <1>7, <2>3 DEF CleanupItem
    <3>2. /\ job'.kind = "cleanup" /\ job'.at = "item" /\ job'.left = job.left \ {s}
      BY <1>0, <2>1, <3>1 DEF Jobs
    <3>3. /\ result'.items = [result.items EXCEPT ![s] = "failed"]
          /\ result'.preview = result.preview
      BY <1>0, <3>1 DEF Results
    <3> QED
      BY <1>0, <2>1, <3>2, <3>3 DEF Reports, Vanishes
  <2> QED
    BY <2>2, <2>3
<1>8. CASE CleanupEnds
  <2>1. /\ job' = Idle /\ result' = [result EXCEPT !.state = "completed"] /\ disk' = disk
    BY <1>8 DEF CleanupEnds, store
  <2>2. result'.items = result.items /\ result'.preview = result.preview
    BY <1>0, <2>1 DEF Results
  <2>3. job'.kind = "none" /\ job'.at = "none"
    BY <2>1 DEF Idle
  <2> QED
    BY <2>1, <2>2, <2>3 DEF Reports, Vanishes
<1>9. CASE Delete
  <2>1. job.at \in Deleting /\ job.slot \in Slots
    BY <1>9 DEF Delete, TypeOK, Jobs, Choices
  \* An item that is over was being deleted, and the others are left alone.
  <2>2. ASSUME NEW state \in {"removed", "failed"}, ItemEnds(state), disk' = disk,
               state = "removed" => ~disk[job.slot].dir /\ owned'[job.slot] = None
        PROVE  ResultFollowsJob' /\ Reports
    <3>1. CASE job.kind = "cleanup"
      <4>1. /\ result' = [result EXCEPT !.items[job.slot] = state]
            /\ job' = [job EXCEPT !.at = "item", !.slot = None]
        BY <2>2, <3>1 DEF ItemEnds
      <4>2. /\ job'.kind = "cleanup" /\ job'.at = "item" /\ job'.left = job.left
        BY <1>0, <3>1, <4>1 DEF Jobs
      <4>3. /\ result'.items = [result.items EXCEPT ![job.slot] = state]
            /\ result'.preview = result.preview
        BY <1>0, <4>1 DEF Results
      <4>4. result.items[job.slot] = "deleting"
        BY <2>1, <3>1
      <4>5. ResultFollowsJob'
        BY <1>0, <2>1, <3>1, <4>2, <4>3, <4>4
      <4>6. Reports
        BY <1>0, <2>1, <2>2, <4>3, <4>4 DEF Reports, Vanishes
      <4> QED
        BY <4>5, <4>6
    <3>2. CASE job.kind # "cleanup"
      <4>1. job' = Idle /\ result' = result
        BY <2>2, <3>2 DEF ItemEnds
      <4>2. job'.kind = "none" /\ job'.at = "none"
        BY <4>1 DEF Idle
      <4> QED
        BY <1>1, <4>1, <4>2
    <3> QED
      BY <3>1, <3>2
  <2>3. CASE DeleteCompares \/ DeleteEntry \/ DeleteManifest \/ DeleteDirectory
    <3>1. PICK to \in Deleting : Goes(to)
      <4>1. CASE DeleteCompares
        BY <4>1, Zenon DEF DeleteCompares
      <4>2. CASE DeleteEntry
        BY <4>2, Zenon DEF DeleteEntry
      <4>3. CASE DeleteManifest
        BY <4>3, Zenon DEF DeleteManifest
      <4>4. CASE DeleteDirectory
        BY <4>4, Zenon DEF DeleteDirectory
      <4> QED
        BY <2>3, <4>1, <4>2, <4>3, <4>4
    <3>2. /\ job'.at = to /\ job'.slot = job.slot /\ job'.kind = job.kind
          /\ job'.left = job.left
      BY <3>1, GoesTyped
    <3>3. result' = result
      BY <2>3 DEF DeleteCompares, DeleteEntry, DeleteManifest, DeleteDirectory
    <3>4. ResultFollowsJob'
      BY <2>1, <3>2, <3>3
    <3>5. Reports
      BY <3>3, QuietReports
    <3> QED
      BY <3>4, <3>5
  <2>4. CASE DeleteRecord
    <3>1. owned'[job.slot] = None
      BY <2>1, <2>4 DEF DeleteRecord, TypeOK, Inventory
    <3>2. ~disk[job.slot].dir
      BY <2>4 DEF DeleteRecord, RecordGoesLast
    <3> QED
      BY <2>2, <2>4, <3>1, <3>2 DEF DeleteRecord
  <2>5. CASE DeleteFails
    BY <2>2, <2>5 DEF DeleteFails
  <2> QED
    BY <1>9, <2>3, <2>4, <2>5 DEF Delete
<1> QED
  BY <1>2, <1>3, <1>4, <1>5, <1>6, <1>7, <1>8, <1>9 DEF Next, Removing

\* What a cleanup reports about a slot is what happened to it, whatever was
\* interrupted, edited or started again in between (cleanup, remove_with_digest).
THEOREM ResultsAreHonest == Spec => ResultIsHonest
<1> DEFINE Inv == TypeOK /\ ResultFollowsJob /\ RecordGoesLast
<1>1. Init => Inv
  <2>1. Init => ResultFollowsJob /\ RecordGoesLast
    BY DEF Init, ResultFollowsJob, RecordGoesLast, Idle
  <2> QED
    BY <2>1, InitTyped
<1>2. Inv /\ [Next]_vars => Inv' /\ [Reports]_vars
  BY StepTyped, ReportsStep, RecordGoesLastStays
<1> QED
  BY <1>1, <1>2, PTL DEF Spec, ResultIsHonest, Reports
=============================================================================

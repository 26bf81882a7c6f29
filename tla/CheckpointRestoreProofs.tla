------------------------ MODULE CheckpointRestoreProofs ------------------------
(***************************************************************************)
(* What holds of CheckpointRestore for every number of files, releases,    *)
(* profiles, restores and failures, edits by others included.              *)
(***************************************************************************)
EXTENDS CheckpointRestore, TLAPS

\* Writing a status keeps the record well typed.
LEMMA RecordWritten ==
    ASSUME txn \in Records, NEW s \in Statuses, Write(s)
    PROVE  txn' \in Records
BY DEF Write, Records

\* Writing the status of an operation keeps the record well typed.
LEMMA OperationWritten ==
    ASSUME txn \in Records, NEW f \in Files, NEW s \in OpStatuses, WriteOp(f, s)
    PROVE  txn' \in Records
<1>1. [txn.ops[f] EXCEPT !.status = s] \in Operations
  BY DEF Records, Operations
<1>2. txn' = [txn EXCEPT !.ops = [txn.ops EXCEPT ![f] = [txn.ops[f] EXCEPT !.status = s]]]
  BY DEF WriteOp, Records
<1>3. [txn.ops EXCEPT ![f] = [txn.ops[f] EXCEPT !.status = s]] \in [Files -> Operations]
  BY <1>1 DEF Records
<1> QED
  BY <1>2, <1>3 DEF Records

\* A record that is given up is a record.
LEMMA RecordAbandoned ==
    ASSUME txn \in Records
    PROVE  Abandoned \in Records /\ Abandoned.status = "rolled_back"
BY DEF Abandoned, Records, Statuses

\* However a call goes on, it is a call.
LEMMA CallGoesOn ==
    ASSUME EngineTypeOK
    PROVE  /\ \A how \in {"ok", "failed"} : Return(how) => call' \in Calls
           /\ \A f \in 0..(N + 1) : GoTo(f) => call' \in Calls
           /\ Moved => call' \in Calls
           /\ CleanUp => call' \in Calls
           /\ UNCHANGED call => call' \in Calls
           /\ \A op \in {"apply", "rollback", "commit", "mark"} : Begin(op) => call' \in Calls
           /\ Quiescent \in Calls
<1>1. N \in Nat /\ 0 \in 0..(N + 1)
  BY EngineAssumption
<1>2. call \in Calls /\ call.op \in {"none", "apply", "rollback", "commit", "mark"}
      /\ call.file \in 0..(N + 1) /\ call.at \in {"entry", "files", "cleanup", "ok", "failed"}
  BY DEF EngineTypeOK, Calls
<1>3. ASSUME NEW how \in {"ok", "failed"}, Return(how)
      PROVE  call' \in Calls
  BY <1>1, <1>2, <1>3 DEF Return, Calls
<1>4. ASSUME NEW f \in 0..(N + 1), GoTo(f)
      PROVE  call' \in Calls
  BY <1>2, <1>4 DEF GoTo, Calls
<1>5. Moved => call' \in Calls
  BY <1>2 DEF Moved, Calls
<1>6. CleanUp => call' \in Calls
  BY <1>1, <1>2 DEF CleanUp, Calls
<1>7. UNCHANGED call => call' \in Calls
  BY <1>2
<1>8. ASSUME NEW op \in {"apply", "rollback", "commit", "mark"}, Begin(op)
      PROVE  call' \in Calls
  BY <1>1, <1>8 DEF Begin, Calls
<1>9. Quiescent \in Calls
  BY <1>1 DEF Quiescent, Calls
<1> QED
  BY <1>3, <1>4, <1>5, <1>6, <1>7, <1>8, <1>9

\* Every step of an apply is well typed.
LEMMA ApplyTyped ==
    ASSUME EngineTypeOK, Apply
    PROVE  EngineTypeOK'
<1>1. N \in Nat /\ Files = 1..N
  BY EngineAssumption DEF Files
<1>2. {"applying", "applied"} \subseteq Statuses /\ OpStatuses \subseteq OpStatuses
      /\ {"applied", "applying", "backed_up"} \subseteq OpStatuses
  BY DEF Statuses, OpStatuses
<1>3. CASE ApplyBegins
  <2>1. txn' \in Records
    BY <1>2, <1>3, RecordWritten DEF ApplyBegins, EngineTypeOK
  <2>2. 1 \in 0..(N + 1)
    BY <1>1
  <2>3. call' \in Calls
    BY <1>3, <2>2, CallGoesOn DEF ApplyBegins
  <2> QED
    BY <1>3, <2>1, <2>3 DEF ApplyBegins, EngineTypeOK
<1>4. CASE ApplyEnds
  <2>1. txn' \in Records /\ call' \in Calls
    BY <1>2, <1>4, RecordWritten, CallGoesOn DEF ApplyEnds, EngineTypeOK
  <2> QED
    BY <1>4, <2>1 DEF ApplyEnds, EngineTypeOK
<1>5. ASSUME NEW f \in Files,
             \/ ApplyVerify(f) \/ ApplyOmitted(f) \/ ApplyRecord(f) \/ ApplyBackUp(f)
             \/ ApplyBackedUp(f) \/ ApplyWrite(f) \/ ApplyWritten(f)
      PROVE  EngineTypeOK'
  <2>1. f + 1 \in 0..(N + 1)
    BY <1>1
  <2>2. /\ target[f] \in Contents \cup {Absent}
        /\ txn \in Records /\ txn.ops[f] \in Operations
    BY DEF EngineTypeOK, Records
  <2>3. CASE ApplyVerify(f)
    <3>1. call' \in Calls
      BY <2>1, <2>3, CallGoesOn DEF ApplyVerify
    <3> QED
      BY <2>3, <3>1 DEF ApplyVerify, EngineTypeOK
  <2>4. CASE ApplyOmitted(f)
    <3>1. txn' \in Records /\ call' \in Calls
      BY <1>2, <2>1, <2>2, <2>4, OperationWritten, CallGoesOn DEF ApplyOmitted
    <3> QED
      BY <2>4, <3>1 DEF ApplyOmitted, EngineTypeOK
  <2>5. CASE ApplyRecord(f)
    <3>1. txn' \in Records /\ call' \in Calls
      BY <1>2, <2>2, <2>5, OperationWritten, CallGoesOn DEF ApplyRecord
    <3> QED
      BY <2>5, <3>1 DEF ApplyRecord, EngineTypeOK
  <2>6. CASE ApplyBackUp(f)
    <3>1. call' \in Calls
      BY <2>6, CallGoesOn DEF ApplyBackUp
    <3>2. target' \in [Files -> Contents \cup {Absent}]
          /\ backup' \in [Files -> Contents \cup {Absent}]
      BY <2>2, <2>6 DEF ApplyBackUp, EngineTypeOK
    <3> QED
      BY <2>6, <3>1, <3>2 DEF ApplyBackUp, EngineTypeOK
  <2>7. CASE ApplyBackedUp(f)
    <3>1. txn' \in Records /\ call' \in Calls
      BY <1>2, <2>2, <2>7, OperationWritten, CallGoesOn DEF ApplyBackedUp
    <3> QED
      BY <2>7, <3>1 DEF ApplyBackedUp, EngineTypeOK
  <2>8. CASE ApplyWrite(f)
    <3>1. call' \in Calls
      BY <2>8, CallGoesOn DEF ApplyWrite
    <3>2. txn.ops[f].desired \in Contents \cup {Absent}
      BY <2>2, <2>8 DEF ApplyWrite, Operations
    <3>3. target' \in [Files -> Contents \cup {Absent}]
      BY <2>8, <3>2 DEF ApplyWrite, EngineTypeOK
    <3> QED
      BY <2>8, <3>1, <3>3 DEF ApplyWrite, EngineTypeOK
  <2>9. CASE ApplyWritten(f)
    <3>1. txn' \in Records /\ call' \in Calls
      BY <1>2, <2>1, <2>2, <2>9, OperationWritten, CallGoesOn DEF ApplyWritten
    <3> QED
      BY <2>9, <3>1 DEF ApplyWritten, EngineTypeOK
  <2> QED
    BY <1>5, <2>3, <2>4, <2>5, <2>6, <2>7, <2>8, <2>9
<1> QED
  BY <1>3, <1>4, <1>5 DEF Apply

\* Every step of a rollback is well typed.
LEMMA RollbackTyped ==
    ASSUME EngineTypeOK, Rollback
    PROVE  EngineTypeOK'
<1>1. N \in Nat /\ Files = 1..N
  BY EngineAssumption DEF Files
<1>2. CASE RollbackBegins
  <2>1. N \in 0..(N + 1)
    BY <1>1
  <2>2. txn' \in Records
    BY <1>2, RecordAbandoned DEF RollbackBegins, EngineTypeOK
  <2>3. call' \in Calls
    BY <1>2, <2>1, CallGoesOn DEF RollbackBegins
  <2> QED
    BY <1>2, <2>2, <2>3 DEF RollbackBegins, EngineTypeOK
<1>3. CASE RollbackFiles
  <2>1. call' \in Calls
    BY <1>3, CallGoesOn DEF RollbackFiles
  <2> QED
    BY <1>3, <2>1 DEF RollbackFiles, EngineTypeOK
<1>4. ASSUME NEW f \in Files,
             \/ RollbackSkip(f) \/ RollbackReplace(f) \/ RollbackUntouched(f)
             \/ RollbackDiscard(f) \/ RollbackRecord(f)
      PROVE  EngineTypeOK'
  <2>1. f - 1 \in 0..(N + 1)
    BY <1>1
  <2>2. /\ target[f] \in Contents \cup {Absent} /\ backup[f] \in Contents \cup {Absent}
        /\ discard[f] \in Contents \cup {Absent} /\ Absent \in Contents \cup {Absent}
    BY DEF EngineTypeOK
  <2>3. CASE RollbackSkip(f)
    <3>1. call' \in Calls
      BY <2>1, <2>3, CallGoesOn DEF RollbackSkip
    <3> QED
      BY <2>3, <3>1 DEF RollbackSkip, EngineTypeOK
  <2>4. CASE RollbackReplace(f)
    <3>1. call' \in Calls
      BY <2>4, CallGoesOn DEF RollbackReplace
    <3>2. target' \in [Files -> Contents \cup {Absent}]
          /\ backup' \in [Files -> Contents \cup {Absent}]
      BY <2>2, <2>4 DEF RollbackReplace, EngineTypeOK
    <3> QED
      BY <2>4, <3>1, <3>2 DEF RollbackReplace, EngineTypeOK
  <2>5. CASE RollbackUntouched(f)
    <3>1. call' \in Calls
      BY <2>5, CallGoesOn DEF RollbackUntouched
    <3> QED
      BY <2>5, <3>1 DEF RollbackUntouched, EngineTypeOK
  <2>6. CASE RollbackDiscard(f)
    <3>1. call' \in Calls
      BY <2>6, CallGoesOn DEF RollbackDiscard
    <3>2. target' \in [Files -> Contents \cup {Absent}]
          /\ discard' \in [Files -> Contents \cup {Absent}]
      BY <2>2, <2>6 DEF RollbackDiscard, EngineTypeOK
    <3> QED
      BY <2>6, <3>1, <3>2 DEF RollbackDiscard, EngineTypeOK
  <2>7. CASE RollbackRecord(f)
    <3>1. txn' \in Records /\ call' \in Calls
      BY <2>1, <2>7, OperationWritten, CallGoesOn DEF RollbackRecord, EngineTypeOK, OpStatuses
    <3> QED
      BY <2>7, <3>1 DEF RollbackRecord, EngineTypeOK
  <2> QED
    BY <1>4, <2>3, <2>4, <2>5, <2>6, <2>7
<1> QED
  BY <1>2, <1>3, <1>4 DEF Rollback

\* Every step of a call of the engine is well typed.
LEMMA EngineTyped ==
    ASSUME EngineTypeOK, EngineStep
    PROVE  EngineTypeOK'
<1>1. Absent \in Contents \cup {Absent}
  OBVIOUS
<1>2. CASE CommitBegins
  <2>1. txn' \in Records
    BY <1>2, RecordWritten DEF CommitBegins, EngineTypeOK, Statuses
  <2>2. call' \in Calls
    BY <1>2, CallGoesOn DEF CommitBegins
  <2> QED
    BY <1>2, <2>1, <2>2 DEF CommitBegins, EngineTypeOK
<1>3. CASE MarkMaterialized
  <2>1. txn' \in Records
    BY <1>3 DEF MarkMaterialized, EngineTypeOK, Records
  <2>2. call' \in Calls
    BY <1>3, CallGoesOn DEF MarkMaterialized
  <2> QED
    BY <1>3, <2>1, <2>2 DEF MarkMaterialized, EngineTypeOK
<1>4. CASE RemoveUndoCopy
  <2>1. backup' \in [Files -> Contents \cup {Absent}]
        /\ discard' \in [Files -> Contents \cup {Absent}]
    BY <1>1, <1>4 DEF RemoveUndoCopy, EngineTypeOK, Left
  <2> QED
    BY <1>4, <2>1 DEF RemoveUndoCopy, EngineTypeOK
<1>5. CASE UndoCopiesRemoved
  <2>1. [txn EXCEPT !.status = "committed"] \in Records
    BY DEF EngineTypeOK, Records, Statuses
  <2>2. txn' \in Records
    BY <1>5, <2>1, RecordAbandoned DEF UndoCopiesRemoved, EngineTypeOK
  <2>3. call' \in Calls
    BY <1>5, CallGoesOn DEF UndoCopiesRemoved
  <2> QED
    BY <1>5, <2>2, <2>3 DEF UndoCopiesRemoved, EngineTypeOK
<1> QED
  BY <1>2, <1>3, <1>4, <1>5, ApplyTyped, RollbackTyped DEF EngineStep

\* What prepare_restore writes is a record.
LEMMA PrepareTyped ==
    ASSUME EngineTypeOK, NEW changes \in [Files -> Changes], NEW v \in Versions,
           Prepare(changes, v)
    PROVE  EngineTypeOK'
<1> DEFINE desired == [f \in Files |-> Desired(changes[f], target[f], v)]
           ops == [f \in Files |-> [status |-> "pending", original |-> target[f],
                                    desired |-> desired[f]]]
<1>1. ASSUME NEW f \in Files
      PROVE  ops[f] \in Operations
  <2>1. changes[f] \in ChangeKinds
    BY EngineAssumption
  <2>2. target[f] \in Contents \cup {Absent} /\ v \in Contents
    BY DEF EngineTypeOK, Contents
  <2>3. Desired(changes[f], target[f], v) \in Contents \cup {Absent, Omitted}
    BY <2>1, <2>2 DEF Desired, ChangeKinds
  <2>4. ops[f] = [status |-> "pending", original |-> target[f],
                  desired |-> Desired(changes[f], target[f], v)]
    OBVIOUS
  <2> QED
    BY <2>2, <2>3, <2>4 DEF Operations, OpStatuses
<1>2. ops \in [Files -> Operations]
  BY <1>1
<1>3. txn' = [status |-> "prepared",
              materialize |-> \E f \in PackageFiles : desired[f] \notin {Omitted, target[f]},
              ops |-> ops]
  BY DEF Prepare
<1> HIDE DEF ops, desired
<1>4. txn' \in Records
  BY <1>2, <1>3 DEF Records, Statuses
<1>5. call' \in Calls
  BY CallGoesOn DEF Prepare
<1> QED
  BY <1>4, <1>5 DEF Prepare, EngineTypeOK

-------------------------------------------------------------------------------
(* Types                                                                   *)

\* What the stores show, and what a restore plans, are pointers.
LEMMA PointersTyped ==
    /\ \A pair \in Pairs : Visible(pair) \in Pairs /\ Visible(pair).current = pair.current
    /\ pointers \in Pairs /\ verified \subseteq Releases =>
          \A r \in Releases : Planned(r) \subseteq Pairs
BY DEF Visible, Pairs, Planned

\* The selection an owner publishes is one.
LEMMA ChoiceTyped ==
    ASSUME TypeOK
    PROVE  /\ Chosen \in Selections /\ Chosen.pointers \in Pairs /\ Chosen.profile \in Profiles
           /\ ChosenSelection \in [profile: Profiles, release: Releases \cup {"none"}]
           /\ Stored \in [profile: Profiles, release: Releases \cup {"none"}]
<1>1. intent.target \in Selections /\ intent.previous \in Selections
  BY DEF TypeOK
<1>2. Chosen \in Selections
  BY <1>1 DEF Chosen
<1>3. Chosen.pointers \in Pairs /\ Chosen.profile \in Profiles
  BY <1>2 DEF Selections
<1>4. Chosen.pointers.current \in Releases \cup {"none"}
  BY <1>3 DEF Pairs
<1>5. ChosenSelection \in [profile: Profiles, release: Releases \cup {"none"}]
  BY <1>3, <1>4 DEF ChosenSelection
<1>6. pointers \in Pairs /\ profile \in Profiles
  BY DEF TypeOK
<1>7. Visible(pointers).current \in Releases \cup {"none"}
  BY <1>6, PointersTyped DEF Pairs
<1>8. Stored \in [profile: Profiles, release: Releases \cup {"none"}]
  BY <1>6, <1>7 DEF Stored
<1> QED
  BY <1>2, <1>3, <1>5, <1>8

\* Wherever an owner goes, it is an owner, and failures are counted.
LEMMA OwnerGoesOn ==
    ASSUME TypeOK
    PROVE  /\ \A at \in Steps : Goes(at) => owner' \in Owners
           /\ \A kind \in Kinds, at \in Steps : Hands(kind, at) => owner' \in Owners
           /\ Done => owner' \in Owners
           /\ Nobody \in Owners /\ Dead \in Owners
           /\ \A at \in Steps : FailsTo(at) => owner' \in Owners
           /\ Smooth => mishaps' \in 0..MaxMishaps
           /\ \A k \in MishapKinds : Mishap(k) => mishaps' \in 0..MaxMishaps
<1>1. owner \in Owners /\ mishaps \in 0..MaxMishaps /\ MaxMishaps \in Nat
  BY ProtocolAssumption DEF TypeOK
<1>2. ASSUME NEW at \in Steps, Goes(at)
      PROVE  owner' \in Owners
  BY <1>1, <1>2 DEF Goes, Owners
<1>3. ASSUME NEW kind \in Kinds, NEW at \in Steps
      PROVE  Hands(kind, at) => owner' \in Owners
  BY DEF Hands, At, Owners
<1>4. Nobody \in Owners /\ Dead \in Owners
  BY DEF Nobody, Dead, At, Owners, Kinds
<1>5. Done => owner' \in Owners
  BY <1>4 DEF Done
<1>6. ASSUME NEW at \in Steps, FailsTo(at)
      PROVE  owner' \in Owners
  BY <1>1, <1>6 DEF FailsTo, Owners
<1>7. Smooth => mishaps' \in 0..MaxMishaps
  BY <1>1 DEF Smooth
<1>8. ASSUME NEW k \in MishapKinds, Mishap(k)
      PROVE  mishaps' \in 0..MaxMishaps
  BY <1>1, <1>8 DEF Mishap
<1> QED
  BY <1>2, <1>3, <1>4, <1>5, <1>6, <1>7, <1>8

\* A request leaves the state well typed.
LEMMA RequestTyped ==
    ASSUME TypeOK, Request
    PROVE  TypeOK'
<1>1. {"restore", "abort", "settle"} \subseteq Kinds
      /\ {"begin", "apply", "commit", "rollback", "pointers", "agent"} \subseteq Steps
  BY DEF Kinds, Steps
<1>2. ASSUME NEW release \in Releases, NEW to \in Profiles, NEW content \in BOOLEAN, NEW changes,
             content => changes \in [Files -> Changes],
             RequestRestore(release, to, content, changes)
      PROVE  TypeOK'
  <2>1. restores \in Nat /\ restores' \in 0..MaxRestores /\ restores + 2 \in Versions
    BY <1>2, ProtocolAssumption DEF RequestRestore, TypeOK
  <2>2. EngineTypeOK'
    <3>1. CASE content
      BY <1>2, <2>1, <3>1, PrepareTyped DEF RequestRestore, TypeOK
    <3>2. CASE ~content
      BY <1>2, <3>2 DEF RequestRestore, TypeOK, engine, EngineTypeOK
    <3> QED
      BY <3>1, <3>2
  <2>3. PICK pair \in Planned(release) :
            intent' = [content |-> content,
                       previous |-> [pointers |-> Visible(pointers), profile |-> profile],
                       target |-> [pointers |-> pair, profile |-> to]]
    BY <1>2 DEF RequestRestore
  <2>4. pair \in Pairs /\ Visible(pointers) \in Pairs /\ profile \in Profiles
    BY <2>3, PointersTyped DEF TypeOK
  <2>5. intent' \in [content: BOOLEAN, previous: Selections, target: Selections]
    BY <2>3, <2>4 DEF Selections
  <2>6. owner' \in Owners /\ mishaps' \in 0..MaxMishaps
    BY <1>1, <1>2, OwnerGoesOn DEF RequestRestore
  <2> QED
    BY <1>2, <2>1, <2>2, <2>5, <2>6 DEF RequestRestore, TypeOK
<1>3. CASE RequestRetry \/ RequestAbort
  <2>1. owner' \in Owners /\ call' \in Calls /\ mishaps' \in 0..MaxMishaps
    BY <1>1, <1>3, OwnerGoesOn, CallGoesOn DEF RequestRetry, RequestAbort, TypeOK
  <2> QED
    BY <1>3, <2>1 DEF RequestRetry, RequestAbort, TypeOK, EngineTypeOK
<1>4. CASE RequestSettle
  <2>1. owner' \in Owners /\ mishaps' \in 0..MaxMishaps
    BY <1>1, <1>4, OwnerGoesOn DEF RequestSettle
  <2> QED
    BY <1>4, <2>1 DEF RequestSettle, TypeOK, engine, EngineTypeOK
<1> QED
  BY <1>2, <1>3, <1>4 DEF Request

\* A step of an owner leaves the state well typed.
LEMMA OwnerTyped ==
    ASSUME TypeOK, Owner
    PROVE  TypeOK'
<1>1. {"apply", "materialize", "mark", "pointers", "profile", "agent", "decide", "rollback",
       "commit", "clear"} \subseteq Steps
  BY DEF Steps
<1>2. CASE JournalBegins \/ CallReturns \/ CallFailed \/ Materialize \/ Decide
  <2>1. owner' \in Owners
    BY <1>1, <1>2, OwnerGoesOn
    DEF JournalBegins, CallReturns, CallFailed, Materialize, Decide, EngineSteps, Stands
  <2>2. call' \in Calls
    BY <1>2, CallGoesOn
    DEF JournalBegins, CallReturns, CallFailed, Materialize, Decide, TypeOK
  <2>3. selected' \in [profile: Profiles, release: Releases \cup {"none"}]
    BY <1>2, ChoiceTyped
    DEF JournalBegins, CallReturns, CallFailed, Materialize, Decide, TypeOK
  <2>4. mishaps' \in 0..MaxMishaps
    BY <1>2, OwnerGoesOn DEF JournalBegins, CallReturns, CallFailed, Materialize, Decide
  <2>5. journal' \in {"none", "prepared", "committed"} /\ decided' \in BOOLEAN
    BY <1>2 DEF JournalBegins, CallReturns, CallFailed, Materialize, Decide, TypeOK
  <2> QED
    BY <1>2, <2>1, <2>2, <2>3, <2>4, <2>5
    DEF JournalBegins, CallReturns, CallFailed, Materialize, Decide, TypeOK, EngineTypeOK
<1>3. CASE CallRuns
  <2>1. EngineTypeOK' /\ mishaps' \in 0..MaxMishaps
    BY <1>3, EngineTyped, OwnerGoesOn DEF CallRuns, TypeOK
  <2> QED
    BY <1>3, <2>1 DEF CallRuns, TypeOK, outer
<1>4. CASE WritePointers \/ WriteProfile \/ WriteAgent \/ JournalClears
  <2>1. owner' \in Owners
    BY <1>1, <1>4, OwnerGoesOn
    DEF WritePointers, WriteProfile, WriteAgent, JournalClears, AfterSelection
  <2>2. pointers' \in Pairs /\ profile' \in Profiles
    BY <1>4, ChoiceTyped DEF WritePointers, WriteProfile, WriteAgent, JournalClears, TypeOK
  <2>3. selected' \in [profile: Profiles, release: Releases \cup {"none"}]
    BY <1>4, ChoiceTyped DEF WritePointers, WriteProfile, WriteAgent, JournalClears, TypeOK
  <2>4. mishaps' \in 0..MaxMishaps
    BY <1>4, OwnerGoesOn DEF WritePointers, WriteProfile, WriteAgent, JournalClears
  <2> QED
    BY <1>4, <2>1, <2>2, <2>3, <2>4
    DEF WritePointers, WriteProfile, WriteAgent, JournalClears, TypeOK, engine, EngineTypeOK
<1> QED
  BY <1>2, <1>3, <1>4 DEF Owner

\* Failures and startup recovery leave the state well typed.
LEMMA FailureTyped ==
    ASSUME TypeOK, Failure \/ Boot
    PROVE  TypeOK'
<1>1. {"idle", "dead", "restore", "undo", "unprepare", "abort", "boot", "settle"} \subseteq Kinds
      /\ {"pointers", "profile", "agent", "rollback", "commit", "clear"} \subseteq Steps
      /\ {"crash", "io", "rollback", "edit"} \subseteq MishapKinds
  BY DEF Kinds, Steps, MishapKinds
<1>2. CASE CallBreaks
  <2>1. call' \in Calls /\ mishaps' \in 0..MaxMishaps
    BY <1>1, <1>2, CallGoesOn, OwnerGoesOn DEF CallBreaks, CallFails, TypeOK
  <2> QED
    BY <1>2, <2>1 DEF CallBreaks, CallFails, TypeOK, EngineTypeOK, outer
<1>3. CASE SelectionBreaks
  <2>1. call' \in Calls /\ mishaps' \in 0..MaxMishaps
    BY <1>1, <1>3, CallGoesOn, OwnerGoesOn DEF SelectionBreaks, Undo, TypeOK
  <2>2. owner' \in Owners
    <3>1. CASE owner.kind = "restore" /\ Undo
      BY <1>1, <3>1, OwnerGoesOn DEF Undo
    <3>2. CASE IF Stands("agent") THEN Done
               ELSE FailsTo(IF Stands("pointers") THEN "profile" ELSE "agent")
      BY <1>1, <3>2, OwnerGoesOn
    <3> QED
      BY <1>3, <3>1, <3>2, OwnerGoesOn DEF SelectionBreaks
  <2>3. pointers' \in Pairs /\ profile' \in Profiles
    BY <1>3, ChoiceTyped DEF SelectionBreaks, TypeOK
  <2>4. selected' \in [profile: Profiles, release: Releases \cup {"none"}]
    BY <1>3, ChoiceTyped DEF SelectionBreaks, TypeOK
  <2> QED
    BY <1>3, <2>1, <2>2, <2>3, <2>4 DEF SelectionBreaks, TypeOK, EngineTypeOK
<1>4. CASE BeginBreaks \/ DecideBreaks \/ Crash
  <2>1. call' \in Calls /\ owner' \in Owners /\ mishaps' \in 0..MaxMishaps
    BY <1>1, <1>4, CallGoesOn, OwnerGoesOn DEF BeginBreaks, DecideBreaks, Crash, Undo, TypeOK
  <2>2. journal' \in {"none", "prepared", "committed"} /\ decided' \in BOOLEAN
    BY <1>4 DEF BeginBreaks, DecideBreaks, Crash, TypeOK
  <2> QED
    BY <1>4, <2>1, <2>2 DEF BeginBreaks, DecideBreaks, Crash, TypeOK, EngineTypeOK
<1>5. CASE OwnerGivesUp
  <2>1. owner' \in Owners /\ mishaps' \in 0..MaxMishaps
    BY <1>1, <1>5, OwnerGoesOn DEF OwnerGivesUp
  <2> QED
    BY <1>5, <2>1 DEF OwnerGivesUp, TypeOK, engine, EngineTypeOK
<1>6. CASE BootBreaks
  <2>1. owner' \in Owners /\ mishaps' \in 0..MaxMishaps
    BY <1>1, <1>6, OwnerGoesOn DEF BootBreaks
  <2>2. pointers' \in Pairs /\ profile' \in Profiles
    BY <1>6, ChoiceTyped DEF BootBreaks, TypeOK
  <2>3. selected' \in [profile: Profiles, release: Releases \cup {"none"}]
    BY <1>6, <2>2 DEF BootBreaks, Pairs
  <2> QED
    BY <1>6, <2>1, <2>2, <2>3 DEF BootBreaks, TypeOK, engine, EngineTypeOK
<1>7. CASE FileEdited
  <2>1. target' \in [Files -> Contents \cup {Absent}]
    BY <1>7 DEF FileEdited, Edit, TypeOK, EngineTypeOK, Contents
  <2>2. mishaps' \in 0..MaxMishaps
    BY <1>1, <1>7, OwnerGoesOn DEF FileEdited
  <2> QED
    BY <1>7, <2>1, <2>2 DEF FileEdited, Edit, TypeOK, EngineTypeOK, outer
<1>8. CASE Boot
  <2>1. call' \in Calls /\ owner' \in Owners /\ mishaps' \in 0..MaxMishaps
    BY <1>1, <1>8, CallGoesOn, OwnerGoesOn DEF Boot, TypeOK
  <2>2. selected' \in [profile: Profiles, release: Releases \cup {"none"}]
    BY <1>8, ChoiceTyped DEF Boot, TypeOK
  <2> QED
    BY <1>8, <2>1, <2>2 DEF Boot, TypeOK, EngineTypeOK
<1> QED
  BY <1>2, <1>3, <1>4, <1>5, <1>6, <1>7, <1>8 DEF Failure

\* The stores are empty of restores when they are first opened.
LEMMA InitTyped == Init => TypeOK
<1> SUFFICES ASSUME Init PROVE TypeOK
  OBVIOUS
<1>1. N \in Nat /\ MaxRestores \in Nat /\ MaxMishaps \in Nat /\ 1 \in Versions
  BY EngineAssumption, ProtocolAssumption
<1>2. target \in [Files -> Contents \cup {Absent}]
  BY <1>1 DEF Init, EngineInit, Contents
<1>3. backup \in [Files -> Contents \cup {Absent}] /\ discard \in [Files -> Contents \cup {Absent}]
  BY DEF Init, EngineInit
<1>4. [status |-> "pending", original |-> Absent, desired |-> Omitted] \in Operations
  BY DEF Operations, OpStatuses
<1>5. txn \in Records
  BY <1>4 DEF Init, EngineInit, Records, Statuses
<1>6. call \in Calls
  BY <1>1 DEF Init, EngineInit, Quiescent, Calls
<1>7. EngineTypeOK
  BY <1>2, <1>3, <1>5, <1>6 DEF EngineTypeOK
<1>8. pointers \in Pairs /\ profile \in Profiles /\ pointers.current \in Releases \cup {"none"}
  BY DEF Init, Pairs
<1>9. intent \in [content: BOOLEAN, previous: Selections, target: Selections]
  BY <1>8 DEF Init, Selections
<1>10. owner \in Owners
  BY DEF Init, Nobody, At, Owners, Kinds
<1>11. selected \in [profile: Profiles, release: Releases \cup {"none"}]
  BY <1>8 DEF Init
<1>12. 0 \in 0..MaxRestores /\ 0 \in 0..MaxMishaps
  BY <1>1
<1> QED
  BY <1>7, <1>8, <1>9, <1>10, <1>11, <1>12 DEF Init, TypeOK

\* The state of the engine and of the protocol has its type: every step of the
\* handlers, of recovery and of the failures writes what the stores can hold.
THEOREM TypeCorrect == Spec => []TypeOK
<1>1. TypeOK /\ [Next]_vars => TypeOK'
  <2> SUFFICES ASSUME TypeOK, [Next]_vars PROVE TypeOK'
    OBVIOUS
  <2>1. CASE UNCHANGED vars
    BY <2>1 DEF vars, engine, outer, TypeOK, EngineTypeOK
  <2> QED
    BY <2>1, RequestTyped, OwnerTyped, FailureTyped DEF Next
<1> QED
  BY <1>1, InitTyped, PTL DEF Spec

-------------------------------------------------------------------------------
(* Record, journal and owner                                               *)

\* How a call goes on, and which call it remains.
LEMMA CallFields ==
    ASSUME call \in Calls
    PROVE  /\ \A how : Return(how) => call'.op = call.op /\ call'.at = how
           /\ \A f : GoTo(f) => call'.op = call.op /\ call'.at = "files"
           /\ Moved => call'.op = call.op /\ call'.at = call.at
           /\ CleanUp => call'.op = call.op /\ call'.at = "cleanup"
           /\ \A op : Begin(op) => call'.op = op /\ call'.at = "entry"
           /\ Quiescent.op = "none" /\ Quiescent.at = "ok"
<1>1. \A how : Return(how) => call'.op = call.op /\ call'.at = how
  BY DEF Calls, Return
<1>2. \A f : GoTo(f) => call'.op = call.op /\ call'.at = "files"
  BY DEF Calls, GoTo
<1>3. Moved => call'.op = call.op /\ call'.at = call.at
  BY DEF Calls, Moved
<1>4. CleanUp => call'.op = call.op /\ call'.at = "cleanup"
  BY DEF Calls, CleanUp
<1>5. \A op : Begin(op) => call'.op = op /\ call'.at = "entry"
  BY DEF Begin
<1>6. Quiescent.op = "none" /\ Quiescent.at = "ok"
  BY DEF Quiescent
<1> QED
  BY <1>1, <1>2, <1>3, <1>4, <1>5, <1>6

\* What a write does to the status of the record.
LEMMA RecordFields ==
    ASSUME txn \in Records
    PROVE  /\ \A s : Write(s) => txn'.status = s
           /\ \A f, s : WriteOp(f, s) => txn'.status = txn.status
           /\ Abandoned.status = "rolled_back"
           /\ [txn EXCEPT !.status = "committed"].status = "committed"
           /\ [txn EXCEPT !.materialize = FALSE].status = txn.status
<1>1. \A s : Write(s) => txn'.status = s
  BY DEF Records, Write
<1>2. ASSUME NEW f, NEW s, WriteOp(f, s)
      PROVE  txn'.status = txn.status
  <2>1. txn' = [txn EXCEPT !.ops = [txn.ops EXCEPT ![f] = [txn.ops[f] EXCEPT !.status = s]]]
    BY <1>2 DEF WriteOp, Records
  <2> QED
    BY <2>1 DEF Records
<1>3. Abandoned.status = "rolled_back"
  BY DEF Records, Abandoned
<1>4. [txn EXCEPT !.status = "committed"].status = "committed"
  BY DEF Records
<1>5. [txn EXCEPT !.materialize = FALSE].status = txn.status
  BY DEF Records
<1> QED
  BY <1>1, <1>2, <1>3, <1>4, <1>5

\* What a step of the engine keeps: what its call knows of the record, undo
\* copies only under an active record, and only an apply activates one.
EngineKeepsBooks ==
    /\ CallKnowsRecord' /\ UndoCopiesAreNamed'
    /\ call'.op = call.op
    /\ call.op # "apply" => (Settling => Settling')

\* An apply works on an Applying record from its first step to its last.
LEMMA ApplyKeepsBooks ==
    ASSUME EngineTypeOK, CallKnowsRecord, UndoCopiesAreNamed, Apply
    PROVE  EngineKeepsBooks
<1>1. call \in Calls /\ txn \in Records
  BY DEF EngineTypeOK
<1>2. call.op = "apply"
  BY DEF Apply, ApplyBegins, ApplyEnds, ApplyVerify, ApplyOmitted, ApplyRecord, ApplyBackUp,
         ApplyBackedUp, ApplyWrite, ApplyWritten, Applying, Running
<1>3. call'.op = call.op
  BY <1>1, CallFields
  DEF Apply, ApplyBegins, ApplyEnds, ApplyVerify, ApplyOmitted, ApplyRecord, ApplyBackUp,
      ApplyBackedUp, ApplyWrite, ApplyWritten
<1>4. CASE ApplyBegins
  <2>1. Running("apply", "files")' => txn'.status = "applying"
    BY <1>1, <1>4, CallFields, RecordFields DEF ApplyBegins, Running
  <2>2. Settling' => Left' = {}
    BY <1>1, <1>4, RecordFields
    DEF ApplyBegins, Settling, Terminal, UndoCopiesAreNamed, Left
  <2> QED
    BY <1>2, <1>3, <2>1, <2>2 DEF EngineKeepsBooks, CallKnowsRecord, UndoCopiesAreNamed, Running
<1>5. CASE ApplyEnds
  <2>1. txn'.status = "applied" /\ call'.at = "ok"
    BY <1>1, <1>5, CallFields, RecordFields DEF ApplyEnds
  <2> QED
    BY <1>2, <1>3, <2>1
    DEF EngineKeepsBooks, CallKnowsRecord, UndoCopiesAreNamed, Running, Settling, Terminal
<1>6. ASSUME NEW f \in Files,
             \/ ApplyVerify(f) \/ ApplyOmitted(f) \/ ApplyRecord(f) \/ ApplyBackUp(f)
             \/ ApplyBackedUp(f) \/ ApplyWrite(f) \/ ApplyWritten(f)
      PROVE  EngineKeepsBooks
  <2>1. txn.status = "applying"
    BY <1>6
    DEF ApplyVerify, ApplyOmitted, ApplyRecord, ApplyBackUp, ApplyBackedUp, ApplyWrite,
        ApplyWritten, Applying, CallKnowsRecord
  <2>2. txn'.status = "applying"
    BY <1>1, <1>6, <2>1, RecordFields
    DEF ApplyVerify, ApplyOmitted, ApplyRecord, ApplyBackUp, ApplyBackedUp, ApplyWrite,
        ApplyWritten
  <2> QED
    BY <1>2, <1>3, <2>2
    DEF EngineKeepsBooks, CallKnowsRecord, UndoCopiesAreNamed, Running, Settling, Terminal
<1> QED
  BY <1>4, <1>5, <1>6 DEF Apply

\* A rollback moves files of an active record only, and ends with RolledBack.
LEMMA RollbackKeepsBooks ==
    ASSUME EngineTypeOK, CallKnowsRecord, UndoCopiesAreNamed, Rollback
    PROVE  EngineKeepsBooks
<1>1. call \in Calls /\ txn \in Records
  BY DEF EngineTypeOK
<1>2. call.op = "rollback"
  BY DEF Rollback, RollbackBegins, RollbackFiles, RollbackSkip, RollbackReplace,
         RollbackUntouched, RollbackDiscard, RollbackRecord, Undoable, RollingBack, Running
<1>3. call'.op = call.op
  BY <1>1, CallFields
  DEF Rollback, RollbackBegins, RollbackFiles, RollbackSkip, RollbackReplace,
      RollbackUntouched, RollbackDiscard, RollbackRecord
<1>4. CASE RollbackBegins
  <2>1. (Running("rollback", "files")' => txn'.status \in {"applying", "applied"})
        /\ (Running("rollback", "ok")' => txn'.status = "rolled_back")
    BY <1>1, <1>4, CallFields, RecordFields DEF RollbackBegins, Running
  <2>2. Settling => Settling'
    BY <1>1, <1>4, RecordFields DEF RollbackBegins, Settling, Terminal
  <2>3. Settling' => Left' = {}
    BY <1>1, <1>4, RecordFields
    DEF RollbackBegins, Settling, Terminal, UndoCopiesAreNamed, Left
  <2> QED
    BY <1>2, <1>3, <2>1, <2>2, <2>3
    DEF EngineKeepsBooks, CallKnowsRecord, UndoCopiesAreNamed, Running
<1>5. CASE RollbackFiles
  <2>1. call'.at = "cleanup" /\ txn' = txn /\ Left' = Left /\ Settling' = Settling
    BY <1>1, <1>5, CallFields DEF RollbackFiles, Left, Settling
  <2> QED
    BY <1>2, <1>3, <2>1 DEF EngineKeepsBooks, CallKnowsRecord, UndoCopiesAreNamed, Running
<1>6. ASSUME NEW f \in Files,
             \/ RollbackSkip(f) \/ RollbackReplace(f) \/ RollbackUntouched(f)
             \/ RollbackDiscard(f) \/ RollbackRecord(f)
      PROVE  EngineKeepsBooks
  <2>1. txn.status \in {"applying", "applied"} /\ call.at = "files"
    BY <1>6
    DEF RollbackSkip, RollbackReplace, RollbackUntouched, RollbackDiscard, RollbackRecord,
        Undoable, RollingBack, CallKnowsRecord, Running
  <2>2. txn'.status = txn.status
    BY <1>1, <1>6, RecordFields
    DEF RollbackSkip, RollbackReplace, RollbackUntouched, RollbackDiscard, RollbackRecord
  <2>3. call'.at \in {"files", "failed"}
    BY <1>1, <1>6, <2>1, CallFields
    DEF RollbackSkip, RollbackReplace, RollbackUntouched, RollbackDiscard, RollbackRecord
  <2> QED
    BY <1>2, <1>3, <2>1, <2>2, <2>3
    DEF EngineKeepsBooks, CallKnowsRecord, UndoCopiesAreNamed, Running, Settling, Terminal
<1> QED
  BY <1>4, <1>5, <1>6 DEF Rollback

\* So does every step of the engine.
LEMMA EngineKeepsBooksAlways ==
    ASSUME EngineTypeOK, CallKnowsRecord, UndoCopiesAreNamed, EngineStep
    PROVE  EngineKeepsBooks
<1>1. call \in Calls /\ txn \in Records
  BY DEF EngineTypeOK
<1>2. CASE CommitBegins
  <2>1. call.op = "commit" /\ call'.op = "commit" /\ call'.at \in {"cleanup", "failed"}
    BY <1>1, <1>2, CallFields DEF CommitBegins, Running
  <2>2. txn' = txn \/ (txn.status = "applied" /\ txn'.status = "committing")
    BY <1>1, <1>2, RecordFields DEF CommitBegins
  <2>3. Left' = Left
    BY <1>2 DEF CommitBegins, Left
  <2> QED
    BY <2>1, <2>2, <2>3
    DEF EngineKeepsBooks, CallKnowsRecord, UndoCopiesAreNamed, Running, Settling, Terminal
<1>3. CASE MarkMaterialized
  <2>1. call.op = "mark" /\ call'.op = "mark"
    BY <1>1, <1>3, CallFields DEF MarkMaterialized, Running
  <2>2. txn'.status = txn.status /\ Left' = Left
    BY <1>1, <1>3, RecordFields DEF MarkMaterialized, Left
  <2> QED
    BY <2>1, <2>2
    DEF EngineKeepsBooks, CallKnowsRecord, UndoCopiesAreNamed, Running, Settling, Terminal
<1>4. CASE RemoveUndoCopy
  <2>1. ~Settling
    BY <1>4 DEF RemoveUndoCopy, UndoCopiesAreNamed
  <2> QED
    BY <1>4, <2>1
    DEF RemoveUndoCopy, EngineKeepsBooks, CallKnowsRecord, UndoCopiesAreNamed, Running, Settling
<1>5. CASE UndoCopiesRemoved
  <2>1. call'.op = call.op /\ call'.at = "ok"
    BY <1>1, <1>5, CallFields DEF UndoCopiesRemoved
  <2>2. txn'.status = IF call.op = "commit" THEN "committed" ELSE "rolled_back"
    BY <1>1, <1>5, RecordFields DEF UndoCopiesRemoved
  <2>3. Left' = {}
    BY <1>5 DEF UndoCopiesRemoved, Left
  <2> QED
    BY <2>1, <2>2, <2>3
    DEF EngineKeepsBooks, CallKnowsRecord, UndoCopiesAreNamed, Running, Settling, Terminal
<1> QED
  BY <1>2, <1>3, <1>4, <1>5, ApplyKeepsBooks, RollbackKeepsBooks DEF EngineStep

\* Where an owner stands after a step.
LEMMA OwnerFields ==
    ASSUME owner \in Owners
    PROVE  /\ \A at : Goes(at) => owner' = [kind |-> owner.kind, at |-> at, failed |-> owner.failed]
           /\ \A kind, at : Hands(kind, at) => owner' = [kind |-> kind, at |-> at, failed |-> FALSE]
           /\ Done => owner' = [kind |-> "idle", at |-> "none", failed |-> FALSE]
           /\ Nobody = [kind |-> "idle", at |-> "none", failed |-> FALSE]
           /\ Dead = [kind |-> "dead", at |-> "none", failed |-> FALSE]
<1>1. \A at : Goes(at) => owner' = [kind |-> owner.kind, at |-> at, failed |-> owner.failed]
  BY DEF Owners, Goes
<1>2. \A kind, at : Hands(kind, at) => owner' = [kind |-> kind, at |-> at, failed |-> FALSE]
  BY DEF Hands, At
<1>3. Nobody = [kind |-> "idle", at |-> "none", failed |-> FALSE]
      /\ Dead = [kind |-> "dead", at |-> "none", failed |-> FALSE]
  BY DEF Nobody, Dead, At
<1> QED
  BY <1>1, <1>2, <1>3 DEF Done

\* A step that leaves the record and the files alone, and begins a call or
\* forgets one, disturbs nothing the engine knows.
LEMMA RecordsUntouched ==
    ASSUME CallKnowsRecord, UndoCopiesAreNamed, call \in Calls,
           UNCHANGED <<backup, discard, txn>>,
           \/ UNCHANGED call \/ call' = Quiescent \/ Return("failed") \/ \E op : Begin(op)
    PROVE  CallKnowsRecord' /\ UndoCopiesAreNamed' /\ Settling' = Settling
<1>1. Settling' = Settling /\ Left' = Left
  BY DEF Settling, Left
<1>2. UNCHANGED call => CallKnowsRecord'
  BY DEF CallKnowsRecord, Running
<1>3. ~UNCHANGED call => call'.at \in {"entry", "failed"} \/ call'.op = "none"
  BY CallFields
<1>4. CallKnowsRecord'
  BY <1>2, <1>3 DEF CallKnowsRecord, Running
<1> QED
  BY <1>1, <1>4 DEF UndoCopiesAreNamed

\* A request finds a settled record, or the journal that names it.
LEMMA RequestConsistent ==
    ASSUME TypeOK, ProtocolIsConsistent, Request
    PROVE  ProtocolIsConsistent'
<1>1. call \in Calls /\ owner \in Owners /\ txn \in Records
  BY DEF TypeOK, EngineTypeOK
<1>2. owner = [kind |-> "idle", at |-> "none", failed |-> FALSE] /\ ~Busy
  BY <1>1, OwnerFields
  DEF Request, RequestRestore, RequestRetry, RequestAbort, RequestSettle, Free,
      ProtocolIsConsistent, CallIsOwned, EngineSteps
<1>3. ASSUME NEW release \in Releases, NEW to \in Profiles, NEW content \in BOOLEAN, NEW changes,
             RequestRestore(release, to, content, changes)
      PROVE  ProtocolIsConsistent'
  <2>1. owner' = [kind |-> "restore", at |-> "begin", failed |-> FALSE]
    BY <1>1, <1>3, OwnerFields DEF RequestRestore
  <2>2. Settling /\ journal' = "none" /\ ~decided'
    BY <1>3 DEF RequestRestore, ProtocolIsConsistent, RecordIsJournaled
  <2>3. Settling' /\ UndoCopiesAreNamed' /\ CallKnowsRecord' /\ ~Busy'
    <3>1. CASE content
      <4>1. call'.at = "ok" /\ call'.op = "none" /\ txn'.status = "prepared" /\ Left' = Left
        BY <1>1, <1>3, <3>1, CallFields DEF RequestRestore, Prepare, Left
      <4> QED
        BY <2>2, <4>1
        DEF Settling, UndoCopiesAreNamed, CallKnowsRecord, Running, Busy, ProtocolIsConsistent
    <3>2. CASE ~content
      <4>1. UNCHANGED <<backup, discard, txn, call>>
        BY <1>3, <3>2 DEF RequestRestore, engine
      <4> QED
        BY <1>1, <1>2, <2>2, <4>1, RecordsUntouched DEF ProtocolIsConsistent, Busy
    <3> QED
      BY <3>1, <3>2
  <2> QED
    BY <2>1, <2>2, <2>3
    DEF ProtocolIsConsistent, CallIsOwned, Alive, OwnerKnowsDecision, RecordIsJournaled, EngineSteps
<1>4. CASE RequestRetry \/ RequestAbort
  <2>1. /\ CallKnowsRecord' /\ UndoCopiesAreNamed' /\ Settling' = Settling
        /\ call'.at = "entry"
    BY <1>1, <1>4, CallFields, RecordsUntouched
    DEF RequestRetry, RequestAbort, ProtocolIsConsistent
  <2>2. \/ journal = "prepared" /\ owner'.kind = "restore" /\ owner'.at = "apply" /\ call'.op = "apply"
        \/ journal = "committed" /\ owner'.kind = "restore" /\ owner'.at = "commit" /\ call'.op = "commit"
        \/ journal = "prepared" /\ owner'.kind = "abort" /\ owner'.at = "rollback" /\ call'.op = "rollback"
    BY <1>1, <1>4, OwnerFields, CallFields DEF RequestRetry, RequestAbort
  <2>3. ~owner'.failed /\ journal # "none" /\ intent.content
    BY <1>1, <1>4, OwnerFields DEF RequestRetry, RequestAbort
  <2>4. UNCHANGED <<journal, intent, decided>>
    BY <1>4 DEF RequestRetry, RequestAbort
  <2> QED
    BY <2>1, <2>2, <2>3, <2>4
    DEF ProtocolIsConsistent, CallIsOwned, Alive, OwnerKnowsDecision, RecordIsJournaled, EngineSteps
<1>5. CASE RequestSettle
  <2>1. UNCHANGED <<backup, discard, txn, call>> /\ UNCHANGED <<journal, intent, decided>>
    BY <1>5 DEF RequestSettle, engine
  <2>2. CallKnowsRecord' /\ UndoCopiesAreNamed' /\ Settling' = Settling /\ ~Busy'
    BY <1>1, <1>2, <2>1, RecordsUntouched DEF ProtocolIsConsistent, Busy
  <2>3. owner'.kind = "settle" /\ owner'.at \in {"pointers", "agent"} /\ ~owner'.failed
    BY <1>1, <1>5, OwnerFields DEF RequestSettle
  <2>4. Settling
    BY <1>5 DEF RequestSettle, ProtocolIsConsistent, RecordIsJournaled
  <2> QED
    BY <2>1, <2>2, <2>3, <2>4
    DEF ProtocolIsConsistent, CallIsOwned, Alive, OwnerKnowsDecision, RecordIsJournaled, EngineSteps
<1> QED
  BY <1>3, <1>4, <1>5 DEF Request

\* Where the engine does not run, no call is under way.
LEMMA IdleEngine ==
    ASSUME CallIsOwned, owner.at \notin EngineSteps
    PROVE  ~Busy
BY DEF CallIsOwned

\* A call of the engine works for the owner that waits for it.
LEMMA CallConsistent ==
    ASSUME TypeOK, ProtocolIsConsistent, CallRuns \/ CallReturns \/ CallFailed \/ CallBreaks
    PROVE  ProtocolIsConsistent'
<1>1. call \in Calls /\ owner \in Owners /\ txn \in Records
  BY DEF TypeOK, EngineTypeOK
<1>2. owner.at \in EngineSteps /\ call.op = owner.at
  BY DEF CallRuns, CallReturns, CallFailed, CallBreaks, ProtocolIsConsistent, CallIsOwned
<1>3. CASE CallRuns
  <2>1. EngineKeepsBooks
    BY <1>3, EngineKeepsBooksAlways DEF CallRuns, ProtocolIsConsistent, TypeOK
  <2>2. UNCHANGED <<owner, journal, intent, decided>>
    BY <1>3 DEF CallRuns, outer
  <2>3. CallIsOwned' /\ OwnerKnowsDecision'
    BY <1>2, <2>1, <2>2
    DEF EngineKeepsBooks, ProtocolIsConsistent, CallIsOwned, Alive, OwnerKnowsDecision
  <2>4. owner.at \notin {"begin", "clear", "pointers", "profile", "agent"}
    BY <1>2 DEF EngineSteps
  <2>5. ~Settling' => journal # "none" /\ intent.content
    BY <1>2, <2>1 DEF EngineKeepsBooks, ProtocolIsConsistent, RecordIsJournaled
  <2>6. RecordIsJournaled'
    BY <2>2, <2>4, <2>5 DEF ProtocolIsConsistent, RecordIsJournaled
  <2> QED
    BY <2>1, <2>3, <2>6 DEF EngineKeepsBooks, ProtocolIsConsistent
<1>4. CASE CallReturns
  <2>1. CallKnowsRecord' /\ UndoCopiesAreNamed' /\ Settling' = Settling
    BY <1>1, <1>4, RecordsUntouched DEF CallReturns, ProtocolIsConsistent
  <2>2. ~Busy' /\ UNCHANGED <<journal, intent, decided>>
    BY <1>1, <1>4, CallFields DEF CallReturns, Busy
  <2>3. \/ owner'.at = "materialize" /\ owner.at = "apply" /\ owner'.kind = owner.kind
           /\ owner'.failed = owner.failed
        \/ owner'.at = "pointers" /\ owner.at \in {"apply", "mark", "rollback"}
           /\ owner'.kind = owner.kind /\ owner'.failed = owner.failed
        \/ owner'.at = "clear" /\ owner.at = "commit" /\ owner'.kind = owner.kind
           /\ owner'.failed = owner.failed
        \/ owner'.at = "none" /\ ~owner'.failed /\ owner'.kind = "idle"
    <3>1. /\ owner.at = "apply" => Goes(IF txn.materialize THEN "materialize" ELSE "pointers")
          /\ owner.at = "mark" => Goes("pointers")
          /\ owner.at = "commit" => Goes("clear")
          /\ owner.at = "rollback" => IF owner.kind = "unprepare" THEN Done ELSE Goes("pointers")
      BY <1>4 DEF CallReturns, Stands
    <3>2. CASE owner.at = "apply"
      BY <1>1, <3>1, <3>2, OwnerFields
    <3>3. CASE owner.at = "mark"
      BY <1>1, <3>1, <3>3, OwnerFields
    <3>4. CASE owner.at = "commit"
      BY <1>1, <3>1, <3>4, OwnerFields
    <3>5. CASE owner.at = "rollback"
      BY <1>1, <3>1, <3>5, OwnerFields
    <3> QED
      BY <1>2, <3>2, <3>3, <3>4, <3>5 DEF EngineSteps
  <2>4. owner.at \in {"rollback", "commit"} => Settling
    BY <1>2, <1>4
    DEF CallReturns, ProtocolIsConsistent, CallKnowsRecord, Running, Settling, Terminal
  <2>5. owner'.failed => owner'.kind \in {"undo", "abort"}
    BY <2>3 DEF ProtocolIsConsistent, RecordIsJournaled
  <2>6. CallIsOwned' /\ OwnerKnowsDecision'
    BY <2>2, <2>3
    DEF ProtocolIsConsistent, CallIsOwned, Alive, OwnerKnowsDecision, EngineSteps
  <2>7. RecordIsJournaled'
    BY <2>1, <2>2, <2>3, <2>4, <2>5 DEF ProtocolIsConsistent, RecordIsJournaled, CallIsOwned
  <2> QED
    BY <2>1, <2>6, <2>7 DEF ProtocolIsConsistent
<1>5. CASE CallFailed
  <2>1. CallKnowsRecord' /\ UndoCopiesAreNamed' /\ Settling' = Settling
    BY <1>1, <1>5, RecordsUntouched DEF CallFailed, ProtocolIsConsistent
  <2>2. ~Busy' /\ UNCHANGED <<journal, intent, decided>>
    BY <1>1, <1>5, CallFields DEF CallFailed, Busy
  <2>3. \/ owner'.at = "pointers" /\ owner'.kind = "undo" /\ owner'.failed
        \/ owner'.at = "none" /\ ~owner'.failed /\ owner'.kind = "idle"
    <3>1. CASE owner.kind = "undo"
      BY <1>5, <3>1 DEF CallFailed, FailsTo
    <3>2. CASE owner.kind # "undo"
      BY <1>1, <1>5, <3>2, OwnerFields DEF CallFailed
    <3> QED
      BY <3>1, <3>2
  <2> QED
    BY <2>1, <2>2, <2>3
    DEF ProtocolIsConsistent, CallIsOwned, Alive, OwnerKnowsDecision, RecordIsJournaled, EngineSteps
<1>6. CASE CallBreaks
  <2>1. CallKnowsRecord' /\ UndoCopiesAreNamed' /\ Settling' = Settling
    BY <1>1, <1>6, RecordsUntouched DEF CallBreaks, CallFails, ProtocolIsConsistent
  <2>2. call'.op = call.op /\ UNCHANGED <<owner, journal, intent, decided>>
    BY <1>1, <1>6, CallFields DEF CallBreaks, CallFails, outer
  <2> QED
    BY <1>2, <2>1, <2>2
    DEF ProtocolIsConsistent, CallIsOwned, Alive, OwnerKnowsDecision, RecordIsJournaled
<1> QED
  BY <1>3, <1>4, <1>5, <1>6

\* An owner clears the journal only of a record that is settled.
LEMMA OwnerConsistent ==
    ASSUME TypeOK, ProtocolIsConsistent,
           \/ JournalBegins \/ Materialize \/ WritePointers \/ WriteProfile \/ WriteAgent
           \/ Decide \/ JournalClears
    PROVE  ProtocolIsConsistent'
<1>1. call \in Calls /\ owner \in Owners /\ txn \in Records
  BY DEF TypeOK, EngineTypeOK
<1>2. ~Busy
  BY IdleEngine
  DEF JournalBegins, Materialize, WritePointers, WriteProfile, WriteAgent, Decide,
      JournalClears, Stands, EngineSteps, ProtocolIsConsistent
<1>3. CallKnowsRecord' /\ UndoCopiesAreNamed' /\ Settling' = Settling
  BY <1>1, RecordsUntouched
  DEF JournalBegins, Materialize, WritePointers, WriteProfile, WriteAgent, Decide,
      JournalClears, engine, ProtocolIsConsistent
<1>4. CASE JournalBegins
  <2>1. owner.at = "begin" /\ owner'.kind = owner.kind /\ owner'.failed = owner.failed
        /\ journal' = "prepared" /\ UNCHANGED <<intent, decided>>
    BY <1>1, <1>4, OwnerFields DEF JournalBegins, Stands
  <2>2. \/ intent.content /\ owner'.at = "apply" /\ call'.op = "apply"
        \/ ~intent.content /\ owner'.at = "pointers" /\ call' = call
    BY <1>1, <1>4, OwnerFields, CallFields DEF JournalBegins
  <2>3. call' = call => ~Busy'
    BY <1>2 DEF Busy
  <2> QED
    BY <1>3, <2>1, <2>2, <2>3
    DEF ProtocolIsConsistent, CallIsOwned, Alive, OwnerKnowsDecision, RecordIsJournaled, EngineSteps
<1>5. CASE Materialize
  <2>1. owner.at = "materialize" /\ owner'.at = "mark" /\ call'.op = "mark"
        /\ owner'.kind = owner.kind /\ owner'.failed = owner.failed
        /\ UNCHANGED <<journal, intent, decided>>
    BY <1>1, <1>5, OwnerFields, CallFields DEF Materialize, Stands
  <2> QED
    BY <1>3, <2>1
    DEF ProtocolIsConsistent, CallIsOwned, Alive, OwnerKnowsDecision, RecordIsJournaled, EngineSteps
<1>6. CASE WritePointers \/ WriteProfile \/ WriteAgent
  <2>1. UNCHANGED <<journal, intent, decided, call>> /\ ~Busy'
    BY <1>2, <1>6 DEF WritePointers, WriteProfile, WriteAgent, engine, Busy
  <2>2. owner.at \in {"pointers", "profile", "agent"}
    BY <1>6 DEF WritePointers, WriteProfile, WriteAgent, Stands
  <2>3. \/ owner'.at \in {"profile", "agent"}
           /\ owner'.kind = owner.kind /\ owner'.failed = owner.failed
        \/ owner'.at = "decide" /\ owner.kind = "restore"
           /\ owner'.kind = owner.kind /\ owner'.failed = owner.failed
        \/ owner'.at = "clear" /\ owner.kind # "restore" /\ ~owner.failed
           /\ owner'.kind = owner.kind /\ owner'.failed = owner.failed
        \/ owner'.at = "none" /\ ~owner'.failed
    <3>1. CASE WritePointers
      BY <1>1, <3>1, OwnerFields DEF WritePointers
    <3>2. CASE WriteProfile
      BY <1>1, <3>2, OwnerFields DEF WriteProfile, ProtocolIsConsistent, RecordIsJournaled
    <3>3. CASE WriteAgent
      BY <1>1, <3>3, OwnerFields DEF WriteAgent, AfterSelection
    <3> QED
      BY <1>6, <3>1, <3>2, <3>3
  <2> QED
    BY <1>3, <2>1, <2>2, <2>3
    DEF ProtocolIsConsistent, CallIsOwned, Alive, OwnerKnowsDecision, RecordIsJournaled, EngineSteps
<1>7. CASE Decide
  <2>1. owner.at = "decide" /\ owner'.kind = owner.kind /\ owner'.failed = owner.failed
        /\ journal' = "committed" /\ decided' /\ UNCHANGED intent
    BY <1>1, <1>7, OwnerFields DEF Decide, Stands
  <2>2. \/ intent.content /\ owner'.at = "commit" /\ call'.op = "commit"
        \/ ~intent.content /\ owner'.at = "clear" /\ call' = call
    BY <1>1, <1>7, OwnerFields, CallFields DEF Decide
  <2>3. call' = call => ~Busy'
    BY <1>2 DEF Busy
  <2> QED
    BY <1>3, <2>1, <2>2, <2>3
    DEF ProtocolIsConsistent, CallIsOwned, Alive, OwnerKnowsDecision, RecordIsJournaled, EngineSteps
<1>8. CASE JournalClears
  <2>1. Settling /\ journal' = "none" /\ owner'.at = "none" /\ ~owner'.failed
        /\ owner'.kind = "idle" /\ UNCHANGED <<intent, decided, call>> /\ ~Busy'
    BY <1>1, <1>2, <1>8, OwnerFields
    DEF JournalClears, Stands, ProtocolIsConsistent, RecordIsJournaled, engine, Busy
  <2> QED
    BY <1>3, <2>1
    DEF ProtocolIsConsistent, CallIsOwned, Alive, OwnerKnowsDecision, RecordIsJournaled, EngineSteps
<1> QED
  BY <1>4, <1>5, <1>6, <1>7, <1>8

\* Whatever fails, the journal still names what has been begun.
LEMMA FailureConsistent ==
    ASSUME TypeOK, ProtocolIsConsistent,
           \/ SelectionBreaks \/ BeginBreaks \/ DecideBreaks \/ OwnerGivesUp
           \/ Crash \/ Boot \/ BootBreaks \/ FileEdited
    PROVE  ProtocolIsConsistent'
<1>1. call \in Calls /\ owner \in Owners /\ txn \in Records
  BY DEF TypeOK, EngineTypeOK
<1>2. CallKnowsRecord' /\ UndoCopiesAreNamed' /\ Settling' = Settling
  BY <1>1, RecordsUntouched
  DEF SelectionBreaks, Undo, BeginBreaks, DecideBreaks, OwnerGivesUp, Crash, Boot, BootBreaks,
      FileEdited, Edit, engine, ProtocolIsConsistent
<1>3. CASE SelectionBreaks \/ DecideBreaks
  <2>1. owner.at \in {"pointers", "profile", "agent", "decide"} /\ ~Busy
        /\ UNCHANGED intent
    BY <1>3, IdleEngine
    DEF SelectionBreaks, DecideBreaks, Stands, EngineSteps, ProtocolIsConsistent
  <2>2. \/ /\ UNCHANGED <<journal, decided>> /\ ~decided /\ ~owner'.failed
           /\ owner'.kind = "undo"
           /\ \/ intent.content /\ owner'.at = "rollback" /\ call'.op = "rollback"
              \/ ~intent.content /\ owner'.at = "pointers" /\ call' = call
        \/ /\ UNCHANGED <<journal, decided, call>>
           /\ owner'.kind \in {"undo", "abort"} /\ owner'.failed
           /\ owner'.at \in {"profile", "agent"}
        \/ /\ UNCHANGED call /\ owner'.at = "none" /\ ~owner'.failed
           /\ \/ UNCHANGED <<journal, decided>>
              \/ journal' = "committed" /\ decided'
    <3>1. CASE Undo /\ UNCHANGED <<journal, decided>>
               /\ (owner.at = "decide" \/ owner.kind = "restore")
      BY <1>1, <2>1, <3>1, OwnerFields, CallFields
      DEF Undo, ProtocolIsConsistent, OwnerKnowsDecision
    <3>2. CASE DecideBreaks
      <4>1. CASE UNCHANGED <<journal, decided>> /\ Undo
        BY <3>1, <3>2, <4>1 DEF DecideBreaks, Stands
      <4>2. CASE /\ \/ UNCHANGED <<journal, decided>>
                    \/ journal' = "committed" /\ decided' = TRUE
                 /\ Done /\ UNCHANGED call
        BY <1>1, <4>2, OwnerFields
      <4> QED
        BY <3>2, <4>1, <4>2 DEF DecideBreaks
    <3>3. CASE SelectionBreaks /\ owner.kind \in {"undo", "abort"}
      BY <1>1, <3>3, OwnerFields DEF SelectionBreaks, FailsTo
    <3>4. CASE SelectionBreaks /\ owner.kind = "settle"
      BY <1>1, <3>4, OwnerFields DEF SelectionBreaks
    <3>5. CASE SelectionBreaks /\ owner.kind = "restore"
      BY <3>1, <3>5 DEF SelectionBreaks
    <3> QED
      BY <1>3, <3>2, <3>3, <3>4, <3>5 DEF SelectionBreaks
  <2>3. call' = call => ~Busy'
    BY <2>1 DEF Busy
  <2>4. CallIsOwned' /\ OwnerKnowsDecision'
    BY <2>1, <2>2, <2>3
    DEF ProtocolIsConsistent, CallIsOwned, Alive, OwnerKnowsDecision, EngineSteps
  <2>5. journal' = "none" => Settling
    BY <2>1, <2>2 DEF ProtocolIsConsistent, RecordIsJournaled
  <2>6. RecordIsJournaled'
    BY <1>2, <2>1, <2>2, <2>5 DEF ProtocolIsConsistent, RecordIsJournaled
  <2> QED
    BY <1>2, <2>4, <2>6 DEF ProtocolIsConsistent
<1>4. CASE BeginBreaks
  <2>1. owner.at = "begin" /\ ~Busy /\ Settling /\ ~decided /\ journal' \in {"none", "prepared"}
        /\ UNCHANGED <<intent, decided>>
    BY <1>4, IdleEngine
    DEF BeginBreaks, Stands, EngineSteps, ProtocolIsConsistent, RecordIsJournaled,
        OwnerKnowsDecision
  <2>2. ~owner'.failed
        /\ \/ owner'.at = "rollback" /\ call'.op = "rollback" /\ owner'.kind = "unprepare"
           \/ owner'.at = "none" /\ call' = call
    BY <1>1, <1>4, OwnerFields, CallFields DEF BeginBreaks
  <2>3. call' = call => ~Busy'
    BY <2>1 DEF Busy
  <2> QED
    BY <1>2, <2>1, <2>2, <2>3
    DEF ProtocolIsConsistent, CallIsOwned, Alive, OwnerKnowsDecision, RecordIsJournaled, EngineSteps
<1>5. CASE OwnerGivesUp \/ BootBreaks
  <2>1. owner.at \in {"materialize", "pointers", "profile", "clear"}
    BY <1>5 DEF OwnerGivesUp, BootBreaks
  <2>2. UNCHANGED <<intent, decided, call>> /\ ~Busy /\ ~Busy'
    BY <1>5, <2>1, IdleEngine
    DEF OwnerGivesUp, BootBreaks, engine, EngineSteps, ProtocolIsConsistent, Busy
  <2>3. owner'.at = "none" /\ ~owner'.failed
    BY <1>1, <1>5, OwnerFields DEF OwnerGivesUp, BootBreaks
  <2>4. journal' = journal \/ (owner.at = "clear" /\ journal' = "none")
    BY <1>5 DEF OwnerGivesUp, BootBreaks, Stands
  <2> QED
    BY <1>2, <2>2, <2>3, <2>4
    DEF ProtocolIsConsistent, CallIsOwned, Alive, OwnerKnowsDecision, RecordIsJournaled, EngineSteps
<1>6. CASE Crash
  <2>1. owner'.at = "none" /\ ~owner'.failed /\ ~Busy' /\ UNCHANGED <<journal, intent, decided>>
    BY <1>1, <1>6, OwnerFields, CallFields DEF Crash, Busy
  <2> QED
    BY <1>2, <2>1
    DEF ProtocolIsConsistent, CallIsOwned, Alive, OwnerKnowsDecision, RecordIsJournaled, EngineSteps
<1>7. CASE Boot
  <2>1. UNCHANGED <<journal, intent, decided>> /\ ~owner'.failed
    BY <1>1, <1>7, OwnerFields DEF Boot
  <2>2. ~Busy
    BY <1>7, IdleEngine DEF Boot, ProtocolIsConsistent, CallIsOwned, EngineSteps
  <2>3. \/ /\ journal = "prepared" /\ owner'.kind = "boot"
           /\ \/ owner'.at = "rollback" /\ call'.op = "rollback"
              \/ ~intent.content /\ owner'.at = "pointers" /\ call' = call
        \/ /\ journal = "committed" /\ owner'.kind = "boot"
           /\ \/ owner'.at = "commit" /\ call'.op = "commit"
              \/ ~intent.content /\ owner'.at = "clear" /\ call' = call
        \/ owner'.at = "none" /\ call' = call
    BY <1>1, <1>7, OwnerFields, CallFields DEF Boot
  <2>4. call' = call => ~Busy'
    BY <2>2 DEF Busy
  <2>5. CallIsOwned' /\ OwnerKnowsDecision'
    BY <2>1, <2>3, <2>4
    DEF ProtocolIsConsistent, CallIsOwned, Alive, OwnerKnowsDecision, EngineSteps
  <2>6. RecordIsJournaled'
    BY <1>2, <2>1, <2>3 DEF ProtocolIsConsistent, RecordIsJournaled
  <2> QED
    BY <1>2, <2>5, <2>6 DEF ProtocolIsConsistent
<1>8. CASE FileEdited
  <2>1. UNCHANGED <<owner, journal, intent, decided, call>>
    BY <1>8 DEF FileEdited, Edit, outer
  <2> QED
    BY <1>2, <2>1
    DEF ProtocolIsConsistent, CallIsOwned, Alive, OwnerKnowsDecision, RecordIsJournaled, Busy
<1> QED
  BY <1>3, <1>4, <1>5, <1>6, <1>7, <1>8

\* The record, the journal, the running call and its owner agree: the journal
\* names every transaction that has begun, and every undo copy is under one.
THEOREM Consistent == Spec => []ProtocolIsConsistent
<1>1. Init => ProtocolIsConsistent
  <2> SUFFICES ASSUME Init PROVE ProtocolIsConsistent
    OBVIOUS
  <2>1. owner = [kind |-> "idle", at |-> "none", failed |-> FALSE]
        /\ call.op = "none" /\ call.at = "ok" /\ txn.status = "none" /\ journal = "none"
    BY DEF Init, EngineInit, Nobody, At, Quiescent
  <2>2. Left = {} /\ Settling /\ ~Busy
    BY <2>1 DEF Init, EngineInit, Left, Settling, Terminal, Busy
  <2> QED
    BY <2>1, <2>2
    DEF ProtocolIsConsistent, CallIsOwned, Alive, OwnerKnowsDecision, CallKnowsRecord, Running,
        UndoCopiesAreNamed, RecordIsJournaled, EngineSteps
<1>2. TypeOK /\ ProtocolIsConsistent /\ [Next]_vars => ProtocolIsConsistent'
  <2> SUFFICES ASSUME TypeOK, ProtocolIsConsistent, [Next]_vars PROVE ProtocolIsConsistent'
    OBVIOUS
  <2>1. CASE UNCHANGED vars
    BY <2>1
    DEF vars, engine, outer, ProtocolIsConsistent, CallIsOwned, Alive, OwnerKnowsDecision,
        CallKnowsRecord, Running, Busy, UndoCopiesAreNamed, Left, RecordIsJournaled, Settling
  <2>2. CASE Request
    BY <2>2, RequestConsistent
  <2>3. CASE Owner
    BY <2>3, CallConsistent, OwnerConsistent DEF Owner
  <2>4. CASE Boot \/ Failure
    BY <2>4, CallConsistent, FailureConsistent DEF Failure
  <2> QED
    BY <2>1, <2>2, <2>3, <2>4 DEF Next
<1> QED
  BY <1>1, <1>2, TypeCorrect, PTL DEF Spec

\* No undo copy, which may hold secrets, outlives its transaction: commit and
\* rollback remove all of them before they make the record terminal.
THEOREM UndoCopiesGone == Spec => []NoUndoCopiesLeft
<1>1. ProtocolIsConsistent => NoUndoCopiesLeft
  BY DEF ProtocolIsConsistent, UndoCopiesAreNamed, Settling, NoUndoCopiesLeft
<1> QED
  BY <1>1, Consistent, PTL

\* A transaction that has touched files is named by the journal, through all
\* failures, so that startup recovery or an abort finds it.
THEOREM Journaled == Spec => []ChangesAreJournaled
<1>1. ProtocolIsConsistent => ChangesAreJournaled
  BY DEF ProtocolIsConsistent, RecordIsJournaled, Settling, Terminal, ChangesAreJournaled
<1> QED
  BY <1>1, Consistent, PTL

\* Once mark_checkpoint_committed has made the journal Committed, no step of
\* any owner, of recovery or of a failure changes a file until the next restore.
THEOREM Final == Spec => DecisionIsFinal
<1>1. ProtocolIsConsistent /\ [Next]_vars => [decided /\ decided' => target' = target]_vars
  <2> SUFFICES ASSUME ProtocolIsConsistent, Next, decided
               PROVE  target' = target
    BY DEF vars, engine
  <2>1. CASE Request
    BY <2>1
    DEF Request, RequestRestore, RequestRetry, RequestAbort, RequestSettle, Prepare, engine
  <2>2. CASE CallRuns
    <3>1. call.op \notin {"apply", "rollback"}
      BY <2>2 DEF CallRuns, ProtocolIsConsistent, CallIsOwned, OwnerKnowsDecision
    <3>2. ~Apply
      BY <3>1
      DEF Apply, ApplyBegins, ApplyEnds, ApplyVerify, ApplyOmitted, ApplyRecord, ApplyBackUp,
          ApplyBackedUp, ApplyWrite, ApplyWritten, Applying, Running
    <3>3. ~Rollback
      BY <3>1
      DEF Rollback, RollbackBegins, RollbackFiles, RollbackSkip, RollbackReplace,
          RollbackUntouched, RollbackDiscard, RollbackRecord, Undoable, RollingBack, Running
    <3> QED
      BY <2>2, <3>2, <3>3
      DEF CallRuns, EngineStep, CommitBegins, MarkMaterialized, RemoveUndoCopy, UndoCopiesRemoved
  <2>3. CASE FileEdited
    BY <2>3 DEF FileEdited, ProtocolIsConsistent, OwnerKnowsDecision
  <2>4. CASE Owner /\ ~CallRuns
    BY <2>4
    DEF Owner, JournalBegins, CallReturns, CallFailed, Materialize, WritePointers, WriteProfile,
        WriteAgent, Decide, JournalClears, engine
  <2>5. CASE Boot \/ (Failure /\ ~FileEdited)
    BY <2>5
    DEF Boot, Failure, CallBreaks, CallFails, SelectionBreaks, BeginBreaks, DecideBreaks,
        OwnerGivesUp, Crash, BootBreaks, engine
  <2> QED
    BY <2>1, <2>2, <2>3, <2>4, <2>5 DEF Next
<1> QED
  BY <1>1, Consistent, PTL DEF Spec, DecisionIsFinal

-------------------------------------------------------------------------------
(* Originals                                                               *)

\* Writing the status of one operation leaves everything else in the record.
LEMMA OperationFields ==
    ASSUME txn \in Records, NEW f \in Files, NEW s, WriteOp(f, s)
    PROVE  /\ txn'.status = txn.status
           /\ \A g \in Files : /\ txn'.ops[g].original = txn.ops[g].original
                               /\ txn'.ops[g].status = IF g = f THEN s ELSE txn.ops[g].status
<1>1. txn' = [txn EXCEPT !.ops = [txn.ops EXCEPT ![f] = [txn.ops[f] EXCEPT !.status = s]]]
  BY DEF WriteOp, Records
<1>2. txn'.status = txn.status
      /\ txn'.ops = [txn.ops EXCEPT ![f] = [txn.ops[f] EXCEPT !.status = s]]
  BY <1>1 DEF Records
<1>3. txn.ops \in [Files -> Operations]
  BY DEF Records
<1>4. ASSUME NEW g \in Files
      PROVE  /\ txn'.ops[g].original = txn.ops[g].original
             /\ txn'.ops[g].status = IF g = f THEN s ELSE txn.ops[g].status
  <2>1. CASE g = f
    <3>1. txn'.ops[g] = [txn.ops[g] EXCEPT !.status = s] /\ txn.ops[g] \in Operations
      BY <1>2, <1>3, <2>1
    <3> QED
      BY <2>1, <3>1 DEF Operations
  <2>2. CASE g # f
    BY <1>2, <1>3, <2>2
  <2> QED
    BY <2>1, <2>2
<1> QED
  BY <1>2, <1>4

\* The same for the whole record.
LEMMA StatusFields ==
    ASSUME txn \in Records
    PROVE  /\ \A s : Write(s) => txn'.ops = txn.ops /\ txn'.status = s
           /\ txn' = Abandoned => txn'.ops = txn.ops /\ txn'.status = "rolled_back"
           /\ txn' = [txn EXCEPT !.status = "committed"] => txn'.ops = txn.ops
           /\ txn' = [txn EXCEPT !.materialize = FALSE] =>
                 txn'.ops = txn.ops /\ txn'.status = txn.status
<1>1. \A s : Write(s) => txn'.ops = txn.ops /\ txn'.status = s
  BY DEF Records, Write
<1>2. txn' = Abandoned => txn'.ops = txn.ops /\ txn'.status = "rolled_back"
  BY DEF Records, Abandoned
<1>3. txn' = [txn EXCEPT !.status = "committed"] => txn'.ops = txn.ops
  BY DEF Records
<1>4. txn' = [txn EXCEPT !.materialize = FALSE] =>
          txn'.ops = txn.ops /\ txn'.status = txn.status
  BY DEF Records
<1> QED
  BY <1>1, <1>2, <1>3, <1>4

\* An apply moves an original aside before it writes, and never over a copy.
LEMMA ApplyKeepsOriginals ==
    ASSUME EngineTypeOK, CallKnowsRecord, CopiesFollowRecord, OriginalsSurvive, Apply,
           UNCHANGED <<decided, owner>>
    PROVE  CopiesFollowRecord' /\ OriginalsSurvive'
<1>1. call \in Calls /\ txn \in Records
  BY DEF EngineTypeOK
<1>2. call'.op = "apply" /\ call'.at # "cleanup"
  <2>1. call.op = "apply" /\ call.at \in {"entry", "files"}
    BY DEF Apply, ApplyBegins, ApplyEnds, ApplyVerify, ApplyOmitted, ApplyRecord, ApplyBackUp,
           ApplyBackedUp, ApplyWrite, ApplyWritten, Applying, Running
  <2> QED
    BY <1>1, <2>1, CallFields
    DEF Apply, ApplyBegins, ApplyEnds, ApplyVerify, ApplyOmitted, ApplyRecord, ApplyBackUp,
        ApplyBackedUp, ApplyWrite, ApplyWritten
<1>3. CASE ApplyBegins \/ ApplyEnds
  <2>1. UNCHANGED <<target, backup>> /\ txn'.ops = txn.ops
        /\ (txn' = txn \/ (txn.status \in {"prepared", "applying"} /\ txn'.status # "prepared"))
    BY <1>1, <1>3, StatusFields DEF ApplyBegins, ApplyEnds, CallKnowsRecord
  <2>2. OriginalsSurvive'
    BY <2>1 DEF OriginalsSurvive, Terminal
  <2> QED
    BY <1>2, <2>1, <2>2 DEF CopiesFollowRecord, Untouched, Running
<1>4. ASSUME NEW f \in Files,
             \/ ApplyVerify(f) \/ ApplyOmitted(f) \/ ApplyRecord(f) \/ ApplyBackUp(f)
             \/ ApplyBackedUp(f) \/ ApplyWrite(f) \/ ApplyWritten(f)
      PROVE  CopiesFollowRecord' /\ OriginalsSurvive'
  <2>1. txn.status = "applying"
    BY <1>4
    DEF ApplyVerify, ApplyOmitted, ApplyRecord, ApplyBackUp, ApplyBackedUp, ApplyWrite,
        ApplyWritten, Applying, CallKnowsRecord
  <2>2. CASE UNCHANGED <<target, backup, txn>>
    BY <1>2, <2>1, <2>2
    DEF CopiesFollowRecord, OriginalsSurvive, Untouched, Running, Terminal
  <2>3. CASE UNCHANGED <<target, backup>> /\ \E s \in {"applying", "backed_up", "applied"} : WriteOp(f, s)
    <3>1. /\ txn'.status = txn.status
          /\ \A g \in Files : /\ txn'.ops[g].original = txn.ops[g].original
                              /\ Untouched(g)' => Untouched(g)
      BY <1>1, <2>3, OperationFields DEF Untouched
    <3> QED
      BY <1>2, <2>1, <2>3, <3>1
      DEF CopiesFollowRecord, OriginalsSurvive, Running, Terminal
  <2>4. CASE ApplyBackUp(f) /\ target[f] = txn.ops[f].original
    <3>1. /\ target' = [target EXCEPT ![f] = Absent] /\ backup' = [backup EXCEPT ![f] = target[f]]
          /\ UNCHANGED txn /\ ~Untouched(f)
      BY <2>4 DEF ApplyBackUp, Applying, Untouched
    <3>2. \A g \in Files : Untouched(g)' => backup'[g] = Absent
      BY <3>1 DEF CopiesFollowRecord, Untouched, EngineTypeOK
    <3>3. OriginalsSurvive'
      BY <2>1, <2>4, <3>1 DEF OriginalsSurvive, Terminal, EngineTypeOK
    <3> QED
      BY <1>2, <2>1, <3>1, <3>2, <3>3 DEF CopiesFollowRecord, Running
  <2>5. CASE ApplyWrite(f) /\ ~UNCHANGED target
    <3>1. /\ target' = [target EXCEPT ![f] = txn.ops[f].desired] /\ UNCHANGED <<backup, txn>>
          /\ target[f] \in {txn.ops[f].desired, Absent}
      BY <2>5 DEF ApplyWrite
    <3>2. OriginalsSurvive'
      BY <2>1, <3>1 DEF OriginalsSurvive, Terminal, EngineTypeOK, Absent, Edited
    <3> QED
      BY <1>2, <2>1, <3>1, <3>2 DEF CopiesFollowRecord, Untouched, Running
  <2> QED
    BY <1>4, <2>2, <2>3, <2>4, <2>5
    DEF ApplyVerify, ApplyOmitted, ApplyRecord, ApplyBackUp, ApplyBackedUp, ApplyWrite,
        ApplyWritten
<1> QED
  BY <1>3, <1>4 DEF Apply

\* A rollback moves every original back before it removes undo copies.
LEMMA RollbackKeepsOriginals ==
    ASSUME EngineTypeOK, CallKnowsRecord, CopiesFollowRecord, OriginalsSurvive, Rollback,
           UNCHANGED <<decided, owner>>
    PROVE  CopiesFollowRecord' /\ OriginalsSurvive'
<1>1. call \in Calls /\ txn \in Records /\ N \in Nat /\ Files = 1..N
  BY EngineAssumption DEF EngineTypeOK, Files
<1>2. call.op = "rollback" /\ call'.op = "rollback"
  <2>1. call.op = "rollback"
    BY DEF Rollback, RollbackBegins, RollbackFiles, RollbackSkip, RollbackReplace,
           RollbackUntouched, RollbackDiscard, RollbackRecord, Undoable, RollingBack, Running
  <2> QED
    BY <1>1, <2>1, CallFields
    DEF Rollback, RollbackBegins, RollbackFiles, RollbackSkip, RollbackReplace,
        RollbackUntouched, RollbackDiscard, RollbackRecord
<1>3. ASSUME NEW g, GoTo(g)
      PROVE  call'.at = "files" /\ call'.file = g /\ call'.moved = FALSE
  BY <1>1, <1>3 DEF GoTo, Calls
<1>4. CASE RollbackBegins
  <2>1. UNCHANGED <<target, backup>> /\ txn'.ops = txn.ops
        /\ (txn' = txn \/ txn'.status = "rolled_back")
    BY <1>1, <1>4, StatusFields DEF RollbackBegins
  <2>2. OriginalsSurvive'
    BY <2>1 DEF OriginalsSurvive, Terminal
  <2>3. \/ call'.at = "files" /\ call'.file = N /\ call'.moved = FALSE
        \/ call'.at = "cleanup" /\ Settling'
        \/ call'.at \in {"ok", "failed"}
    BY <1>1, <1>3, <1>4, CallFields DEF RollbackBegins, Settling, Terminal
  <2>4. \A f \in Files : ~(f > N)
    BY <1>1
  <2> QED
    BY <1>2, <2>1, <2>2, <2>3, <2>4 DEF CopiesFollowRecord, Untouched, Running
<1>5. CASE RollbackFiles
  <2>1. call'.at = "cleanup" /\ UNCHANGED <<target, backup, txn>>
    BY <1>1, <1>5, CallFields DEF RollbackFiles
  <2>2. \A f \in Files : f > 0
    BY <1>1
  <2>3. \A f \in Files : Untouched(f)
    BY <1>5, <2>2 DEF RollbackFiles, CopiesFollowRecord
  <2> QED
    BY <1>2, <2>1, <2>3 DEF CopiesFollowRecord, OriginalsSurvive, Untouched, Running
<1>6. ASSUME NEW f \in Files,
             \/ RollbackSkip(f) \/ RollbackReplace(f) \/ RollbackUntouched(f)
             \/ RollbackDiscard(f) \/ RollbackRecord(f)
      PROVE  CopiesFollowRecord' /\ OriginalsSurvive'
  <2>1. txn.status \in {"applying", "applied"} /\ call.at = "files" /\ call.file = f
        /\ \A g \in Files : g > f => Untouched(g)
    BY <1>6
    DEF RollbackSkip, RollbackReplace, RollbackUntouched, RollbackDiscard, RollbackRecord,
        Undoable, RollingBack, CallKnowsRecord, CopiesFollowRecord, Running
  <2>2. \A g \in Files : g > f - 1 => g > f \/ g = f
    BY <1>1
  <2>3. CASE RollbackSkip(f)
    <3>1. UNCHANGED <<target, backup, txn>> /\ Untouched(f)
          /\ call'.at = "files" /\ call'.file = f - 1 /\ call'.moved = FALSE
      BY <1>3, <2>3 DEF RollbackSkip, Untouched
    <3> QED
      BY <1>2, <2>1, <2>2, <3>1 DEF CopiesFollowRecord, OriginalsSurvive, Untouched, Running
  <2>4. CASE RollbackRecord(f)
    <3>1. UNCHANGED <<target, backup>> /\ WriteOp(f, "rolled_back") /\ backup[f] = Absent
          /\ call'.at = "files" /\ call'.file = f - 1 /\ call'.moved = FALSE
      BY <1>3, <2>4 DEF RollbackRecord, RollingBack, CopiesFollowRecord
    <3>2. txn'.status = txn.status
          /\ \A g \in Files : /\ txn'.ops[g].original = txn.ops[g].original
                              /\ Untouched(g)' = (g = f \/ Untouched(g))
      BY <1>1, <3>1, OperationFields DEF Untouched
    <3>3. OriginalsSurvive'
      BY <3>1, <3>2 DEF OriginalsSurvive
    <3> QED
      BY <1>2, <2>1, <2>2, <3>1, <3>2, <3>3 DEF CopiesFollowRecord, Running
  <2>5. CASE \/ RollbackReplace(f) \/ RollbackUntouched(f) \/ RollbackDiscard(f)
    <3>1. UNCHANGED txn /\ call'.at \in {"files", "failed"} /\ ~Untouched(f)
      BY <1>1, <2>1, <2>5, CallFields
      DEF RollbackReplace, RollbackUntouched, RollbackDiscard, Undoable, Untouched
    <3>2. call'.at = "files" => call'.file = call.file /\ backup'[f] = Absent
      <4>1. Moved => call'.file = call.file
        BY <1>1 DEF Moved, Calls
      <4>2. Return("failed") => call'.at = "failed"
        BY <1>1, CallFields
      <4> QED
        BY <2>5, <4>1, <4>2
        DEF RollbackReplace, RollbackUntouched, RollbackDiscard, EngineTypeOK
    <3>3. \A g \in Files : backup'[g] \in {backup[g], Absent}
      BY <2>5 DEF RollbackReplace, RollbackUntouched, RollbackDiscard, EngineTypeOK
    <3>4. OriginalsSurvive'
      <4>1. CASE RollbackReplace(f)
        BY <2>1, <4>1 DEF RollbackReplace, OriginalsSurvive, Terminal, EngineTypeOK
      <4>2. CASE RollbackUntouched(f)
        BY <4>2 DEF RollbackUntouched, OriginalsSurvive
      <4>3. CASE RollbackDiscard(f)
        BY <2>1, <4>3 DEF RollbackDiscard, OriginalsSurvive, Terminal, EngineTypeOK
      <4> QED
        BY <2>5, <4>1, <4>2, <4>3
    <3> QED
      BY <1>2, <2>1, <3>1, <3>2, <3>3, <3>4
      DEF CopiesFollowRecord, Untouched, Running
  <2> QED
    BY <1>6, <2>3, <2>4, <2>5
<1> QED
  BY <1>4, <1>5, <1>6 DEF Rollback

\* Undo copies go when the restore is decided, or the originals are back.
LEMMA EngineKeepsOriginals ==
    ASSUME TypeOK, ProtocolIsConsistent, CopiesFollowRecord, OriginalsSurvive, CallRuns
    PROVE  CopiesFollowRecord' /\ OriginalsSurvive'
<1>1. call \in Calls /\ txn \in Records /\ EngineTypeOK /\ CallKnowsRecord /\ UndoCopiesAreNamed
  BY DEF TypeOK, EngineTypeOK, ProtocolIsConsistent
<1>2. UNCHANGED <<decided, owner>> /\ EngineStep /\ owner.at \in EngineSteps /\ call.op = owner.at
  BY DEF CallRuns, outer, ProtocolIsConsistent, CallIsOwned
<1>3. CASE CommitBegins
  <2>1. call'.op = "commit" /\ UNCHANGED <<target, backup>> /\ txn'.ops = txn.ops
        /\ decided /\ (txn' = txn \/ txn'.status = "committing")
    BY <1>1, <1>2, <1>3, CallFields, StatusFields DEF CommitBegins, Running, CopiesFollowRecord
  <2> QED
    BY <1>2, <2>1 DEF CopiesFollowRecord, OriginalsSurvive, Untouched, Running
<1>4. CASE MarkMaterialized
  <2>1. call'.op = "mark" /\ call'.at # "cleanup" /\ UNCHANGED <<target, backup>>
        /\ txn'.ops = txn.ops /\ txn'.status = txn.status
    BY <1>1, <1>4, CallFields, StatusFields DEF MarkMaterialized, Running
  <2> QED
    BY <1>2, <2>1 DEF CopiesFollowRecord, OriginalsSurvive, Untouched, Running
<1>5. CASE RemoveUndoCopy
  <2>1. ~Settling /\ UNCHANGED <<target, txn, call>> /\ call.at = "cleanup"
        /\ \A g \in Files : backup'[g] \in {backup[g], Absent}
    BY <1>1, <1>5 DEF RemoveUndoCopy, UndoCopiesAreNamed, EngineTypeOK
  <2>2. CopiesFollowRecord'
    BY <1>2, <2>1 DEF CopiesFollowRecord, Untouched, Running, Settling
  <2>3. OriginalsSurvive'
    <3>1. CASE decided
      BY <1>2, <3>1 DEF OriginalsSurvive
    <3>2. CASE ~decided
      <4>1. \A g \in Files : backup[g] = Absent
        BY <1>2, <2>1, <3>2 DEF CopiesFollowRecord
      <4>2. \A g \in Files : backup'[g] = backup[g]
        BY <2>1, <4>1
      <4> QED
        BY <1>2, <2>1, <4>2 DEF OriginalsSurvive
    <3> QED
      BY <3>1, <3>2
  <2> QED
    BY <2>2, <2>3
<1>6. CASE UndoCopiesRemoved
  <2>1. call'.at = "ok" /\ UNCHANGED <<target, backup>> /\ txn'.ops = txn.ops
        /\ txn'.status \in {"committed", "rolled_back"}
    BY <1>1, <1>6, CallFields, StatusFields, RecordFields DEF UndoCopiesRemoved
  <2> QED
    BY <1>2, <2>1 DEF CopiesFollowRecord, OriginalsSurvive, Untouched, Running, Terminal
<1> QED
  BY <1>1, <1>2, <1>3, <1>4, <1>5, <1>6, ApplyKeepsOriginals, RollbackKeepsOriginals DEF EngineStep

\* A request starts from a record whose originals are in place.
LEMMA RequestKeepsOriginals ==
    ASSUME TypeOK, ProtocolIsConsistent, CopiesFollowRecord, OriginalsSurvive, Request
    PROVE  CopiesFollowRecord' /\ OriginalsSurvive'
<1>1. call \in Calls /\ owner \in Owners /\ ~Busy
  BY OwnerFields
  DEF TypeOK, EngineTypeOK, Request, RequestRestore, RequestRetry, RequestAbort, RequestSettle,
      Free, ProtocolIsConsistent, CallIsOwned, EngineSteps
<1>2. ASSUME NEW release \in Releases, NEW to \in Profiles, NEW content \in BOOLEAN, NEW changes,
             RequestRestore(release, to, content, changes)
      PROVE  CopiesFollowRecord' /\ OriginalsSurvive'
  <2>1. owner'.at = "begin" /\ Settling
    BY <1>1, <1>2, OwnerFields DEF RequestRestore, ProtocolIsConsistent, RecordIsJournaled
  <2>2. CASE content
    <3>1. /\ call'.at = "ok" /\ call'.op = "none" /\ UNCHANGED <<target, backup>>
          /\ \A f \in Files : txn'.ops[f].original = target[f]
          /\ \A f \in Files : backup[f] = Absent
      BY <1>1, <1>2, <2>1, <2>2, CallFields
      DEF RequestRestore, Prepare, ProtocolIsConsistent, UndoCopiesAreNamed, Left
    <3> QED
      BY <2>1, <3>1 DEF CopiesFollowRecord, OriginalsSurvive, Running
  <2>3. CASE ~content
    <3>1. UNCHANGED <<target, backup, txn, call>>
      BY <1>2, <2>3 DEF RequestRestore, engine
    <3>2. txn.status \in Terminal \/ \A f \in Files : target[f] \in {txn.ops[f].original, Edited}
      BY <2>1 DEF Settling, CopiesFollowRecord
    <3>3. OriginalsSurvive'
      BY <3>1, <3>2 DEF OriginalsSurvive
    <3> QED
      BY <1>1, <2>1, <3>1, <3>3 DEF CopiesFollowRecord, Untouched, Running, Busy, Settling
  <2> QED
    BY <2>2, <2>3
<1>3. CASE RequestRetry \/ RequestAbort \/ RequestSettle
  <2>1. UNCHANGED <<target, backup, txn, decided>>
        /\ (call' = call \/ call'.at = "entry")
        /\ (owner'.at = "commit" => decided)
    BY <1>1, <1>3, OwnerFields, CallFields
    DEF RequestRetry, RequestAbort, RequestSettle, engine, ProtocolIsConsistent,
        OwnerKnowsDecision
  <2> QED
    BY <1>1, <2>1 DEF CopiesFollowRecord, OriginalsSurvive, Untouched, Running, Busy, Settling
<1> QED
  BY <1>2, <1>3 DEF Request

\* The other steps leave record, files and copies alone, but for an edit.
LEMMA OthersKeepOriginals ==
    ASSUME TypeOK, ProtocolIsConsistent, CopiesFollowRecord, OriginalsSurvive,
           (Owner /\ ~CallRuns) \/ Boot \/ Failure
    PROVE  CopiesFollowRecord' /\ OriginalsSurvive'
<1>1. call \in Calls /\ owner \in Owners
  BY DEF TypeOK, EngineTypeOK
<1>2. CASE FileEdited
  <2>1. UNCHANGED <<backup, txn, call, owner, decided>>
        /\ \A f \in Files : target'[f] \in {target[f], Edited}
    BY <1>2 DEF FileEdited, Edit, outer, TypeOK, EngineTypeOK
  <2> QED
    BY <2>1 DEF CopiesFollowRecord, OriginalsSurvive, Untouched, Running, Settling
<1>3. ASSUME /\ UNCHANGED <<target, backup, txn>> /\ (decided => decided')
             /\ call' = call \/ call'.at \in {"entry", "failed"} \/ call' = Quiescent
             /\ owner'.at = "commit" => decided'
      PROVE  CopiesFollowRecord' /\ OriginalsSurvive'
  <2>1. Quiescent.op = "none" /\ Quiescent.at = "ok"
    BY DEF Quiescent
  <2>2. CASE call' = Quiescent
    <3>1. call'.op = "none" /\ call'.at = "ok"
      BY <2>1, <2>2
    <3> QED
      BY <1>3, <3>1 DEF CopiesFollowRecord, OriginalsSurvive, Untouched, Running, Settling
  <2>3. CASE call' = call \/ call'.at \in {"entry", "failed"}
    BY <1>3, <2>3 DEF CopiesFollowRecord, OriginalsSurvive, Untouched, Running, Settling
  <2> QED
    BY <1>3, <2>2, <2>3
<1>4. CASE JournalBegins \/ Materialize \/ Decide
  <2>1. UNCHANGED <<target, backup, txn>> /\ (decided => decided')
    BY <1>4 DEF JournalBegins, Materialize, Decide
  <2>2. call' = call \/ call'.at = "entry"
    BY <1>1, <1>4, CallFields DEF JournalBegins, Materialize, Decide
  <2>3. owner'.at = "commit" => decided'
    BY <1>1, <1>4, OwnerFields DEF JournalBegins, Materialize, Decide
  <2> QED
    BY <1>3, <2>1, <2>2, <2>3
<1>5. CASE CallReturns
  <2>1. UNCHANGED <<target, backup, txn, decided>> /\ call' = Quiescent
    BY <1>5 DEF CallReturns
  <2>2. /\ owner.at = "apply" => Goes(IF txn.materialize THEN "materialize" ELSE "pointers")
        /\ owner.at = "mark" => Goes("pointers")
        /\ owner.at = "commit" => Goes("clear")
        /\ owner.at = "rollback" => IF owner.kind = "unprepare" THEN Done ELSE Goes("pointers")
        /\ owner.at \in {"apply", "mark", "rollback", "commit"}
    BY <1>5 DEF CallReturns, Stands, EngineSteps
  <2>3. owner'.at # "commit"
    BY <1>1, <2>2, OwnerFields
  <2> QED
    BY <1>3, <2>1, <2>3
<1>6. CASE CallFailed
  <2>1. UNCHANGED <<target, backup, txn, decided>> /\ call' = Quiescent
    BY <1>6 DEF CallFailed
  <2>2. owner'.at # "commit"
    BY <1>1, <1>6, OwnerFields DEF CallFailed, FailsTo
  <2> QED
    BY <1>3, <2>1, <2>2
<1>7. CASE WritePointers \/ WriteProfile \/ WriteAgent \/ JournalClears
  <2>1. UNCHANGED <<target, backup, txn, decided, call>>
    BY <1>7 DEF WritePointers, WriteProfile, WriteAgent, JournalClears, engine
  <2>2. owner'.at # "commit"
    BY <1>1, <1>7, OwnerFields
    DEF WritePointers, WriteProfile, WriteAgent, JournalClears, AfterSelection
  <2> QED
    BY <1>3, <2>1, <2>2
<1>8. CASE Boot
  <2>1. UNCHANGED <<target, backup, txn, decided>>
    BY <1>8 DEF Boot
  <2>2. call' = call \/ call'.at = "entry"
    BY <1>1, <1>8, CallFields DEF Boot
  <2>3. owner'.at = "commit" => decided'
    BY <1>1, <1>8, OwnerFields DEF Boot, ProtocolIsConsistent, OwnerKnowsDecision
  <2> QED
    BY <1>3, <2>1, <2>2, <2>3
<1>9. CASE CallBreaks
  <2>1. UNCHANGED <<target, backup, txn, decided, owner>> /\ call'.at = "failed"
    BY <1>1, <1>9, CallFields DEF CallBreaks, CallFails, outer
  <2> QED
    BY <1>3, <2>1 DEF CopiesFollowRecord
<1>10. CASE SelectionBreaks
  <2>1. UNCHANGED <<target, backup, txn, decided>>
    BY <1>10 DEF SelectionBreaks
  <2>2. call' = call \/ call'.at = "entry"
    BY <1>1, <1>10, CallFields DEF SelectionBreaks, Undo
  <2>3. owner'.at # "commit"
    BY <1>1, <1>10, OwnerFields DEF SelectionBreaks, Undo, FailsTo
  <2> QED
    BY <1>3, <2>1, <2>2, <2>3
<1>11. CASE BeginBreaks \/ DecideBreaks
  <2>1. UNCHANGED <<target, backup, txn>> /\ (decided => decided')
    BY <1>11 DEF BeginBreaks, DecideBreaks
  <2>2. call' = call \/ call'.at = "entry"
    BY <1>1, <1>11, CallFields DEF BeginBreaks, DecideBreaks, Undo
  <2>3. owner'.at # "commit"
    BY <1>1, <1>11, OwnerFields DEF BeginBreaks, DecideBreaks, Undo
  <2> QED
    BY <1>3, <2>1, <2>2, <2>3
<1>12. CASE OwnerGivesUp \/ Crash \/ BootBreaks
  <2>1. UNCHANGED <<target, backup, txn, decided>> /\ (call' = call \/ call' = Quiescent)
    BY <1>12 DEF OwnerGivesUp, Crash, BootBreaks, engine
  <2>2. owner'.at # "commit"
    BY <1>1, <1>12, OwnerFields DEF OwnerGivesUp, Crash, BootBreaks
  <2> QED
    BY <1>3, <2>1, <2>2
<1> QED
  BY <1>2, <1>4, <1>5, <1>6, <1>7, <1>8, <1>9, <1>10, <1>11, <1>12 DEF Owner, Failure

\* Copies of originals are there as long as operations are under way.
LEMMA CopiesKept == Spec => [](CopiesFollowRecord /\ OriginalsSurvive)
<1>1. Init => CopiesFollowRecord /\ OriginalsSurvive
  <2> SUFFICES ASSUME Init PROVE CopiesFollowRecord /\ OriginalsSurvive
    OBVIOUS
  <2>1. owner.at = "none" /\ call.op = "none" /\ call.at = "ok" /\ txn.status = "none"
        /\ \A f \in Files : backup[f] = Absent
    BY DEF Init, EngineInit, Nobody, At, Quiescent
  <2> QED
    BY <2>1 DEF CopiesFollowRecord, OriginalsSurvive, Running, Terminal
<1>2. /\ TypeOK /\ ProtocolIsConsistent /\ CopiesFollowRecord /\ OriginalsSurvive
      /\ [Next]_vars
      => (CopiesFollowRecord /\ OriginalsSurvive)'
  <2> SUFFICES ASSUME TypeOK, ProtocolIsConsistent, CopiesFollowRecord, OriginalsSurvive,
                      [Next]_vars
               PROVE  (CopiesFollowRecord /\ OriginalsSurvive)'
    OBVIOUS
  <2>1. CASE UNCHANGED vars
    BY <2>1
    DEF vars, engine, outer, CopiesFollowRecord, OriginalsSurvive, Untouched, Running, Settling
  <2> QED
    BY <2>1, EngineKeepsOriginals, RequestKeepsOriginals, OthersKeepOriginals DEF Next, Owner
<1> QED
  BY <1>1, <1>2, TypeCorrect, Consistent, PTL DEF Spec

\* No original is lost before the restore is decided: however calls, failures
\* and deaths follow one another, every file the record names is in its place,
\* in the undo directory, or was overwritten by its own editor.
THEOREM OriginalsKept == Spec => []OriginalsSurvive
BY CopiesKept, PTL

-------------------------------------------------------------------------------
(* All or nothing                                                          *)

\* A request is admitted under the journal its owner expects.
LEMMA RequestFollowsJournal ==
    ASSUME TypeOK, OwnerFollowsJournal, Request
    PROVE  OwnerFollowsJournal'
<1>1. owner \in Owners
  BY DEF TypeOK
<1>2. ASSUME NEW release \in Releases, NEW to \in Profiles, NEW content \in BOOLEAN, NEW changes,
             RequestRestore(release, to, content, changes)
      PROVE  OwnerFollowsJournal'
  <2>1. owner' = [kind |-> "restore", at |-> "begin", failed |-> FALSE] /\ journal' = "none"
    BY <1>1, <1>2, OwnerFields DEF RequestRestore
  <2> QED
    BY <2>1 DEF OwnerFollowsJournal, Stands, Steps, EngineSteps
<1>3. CASE RequestRetry \/ RequestAbort
  <2>1. UNCHANGED <<journal, intent>> /\ intent.content
    BY <1>3 DEF RequestRetry, RequestAbort
  <2>2. \/ journal = "prepared" /\ owner' = [kind |-> "restore", at |-> "apply", failed |-> FALSE]
        \/ journal = "committed" /\ owner' = [kind |-> "restore", at |-> "commit", failed |-> FALSE]
        \/ journal = "prepared" /\ owner' = [kind |-> "abort", at |-> "rollback", failed |-> FALSE]
    BY <1>1, <1>3, OwnerFields DEF RequestRetry, RequestAbort
  <2> QED
    BY <2>1, <2>2 DEF OwnerFollowsJournal, Stands, Steps
<1>4. CASE RequestSettle
  <2>1. UNCHANGED journal /\ journal # "none"
    BY <1>4 DEF RequestSettle
  <2>2. \E at \in {"pointers", "agent"} :
           owner' = [kind |-> "settle", at |-> at, failed |-> FALSE]
    BY <1>1, <1>4, OwnerFields DEF RequestSettle
  <2> QED
    BY <2>1, <2>2 DEF OwnerFollowsJournal, Stands, EngineSteps
<1> QED
  BY <1>2, <1>3, <1>4 DEF Request

\* An owner goes on under its journal.
LEMMA OwnerGoesUnderJournal ==
    ASSUME TypeOK, OwnerFollowsJournal, Owner
    PROVE  OwnerFollowsJournal'
<1>1. owner \in Owners /\ journal \in {"none", "prepared", "committed"}
  BY DEF TypeOK
<1>2. CASE JournalBegins
  <2>1. owner.kind = "restore" /\ Stands("begin") /\ ~owner.failed /\ journal' = "prepared"
        /\ UNCHANGED intent
    BY <1>1, <1>2 DEF JournalBegins, OwnerFollowsJournal, Stands, Owners, Kinds
  <2>2. owner' = [kind |-> "restore", at |-> IF intent.content THEN "apply" ELSE "pointers",
                  failed |-> FALSE]
    BY <1>1, <1>2, <2>1, OwnerFields DEF JournalBegins, Owners
  <2> QED
    BY <2>1, <2>2 DEF OwnerFollowsJournal, Stands, Steps, EngineSteps
<1>3. CASE CallRuns
  BY <1>3 DEF CallRuns, outer, OwnerFollowsJournal, Stands
<1>4. CASE CallReturns
  <2>1. UNCHANGED <<journal, intent>> /\ ~owner.failed /\ owner.at \in EngineSteps
    BY <1>4 DEF CallReturns, OwnerFollowsJournal, EngineSteps
  <2>2. /\ Stands("apply") => Goes(IF txn.materialize THEN "materialize" ELSE "pointers")
        /\ Stands("mark") => Goes("pointers")
        /\ Stands("commit") => Goes("clear")
        /\ Stands("rollback") => IF owner.kind = "unprepare" THEN Done ELSE Goes("pointers")
    BY <1>4 DEF CallReturns, Stands
  <2>3. CASE Stands("apply") \/ Stands("mark")
    <3>1. owner.kind = "restore"
      BY <1>1, <2>3 DEF OwnerFollowsJournal, Stands, Owners, Kinds
    <3>2. \E at \in {"materialize", "pointers"} :
             owner' = [kind |-> "restore", at |-> at, failed |-> owner.failed]
      BY <1>1, <2>2, <2>3, <3>1, OwnerFields DEF Stands
    <3> QED
      BY <2>1, <2>3, <3>1, <3>2 DEF OwnerFollowsJournal, Stands, Steps, EngineSteps
  <2>4. CASE Stands("commit")
    <3>1. owner' = [kind |-> owner.kind, at |-> "clear", failed |-> owner.failed]
      BY <1>1, <2>2, <2>4, OwnerFields
    <3> QED
      BY <2>1, <2>4, <3>1 DEF OwnerFollowsJournal, Stands, Steps, EngineSteps
  <2>5. CASE Stands("rollback")
    <3>1. \/ owner' = [kind |-> "idle", at |-> "none", failed |-> FALSE]
          \/ owner' = [kind |-> owner.kind, at |-> "pointers", failed |-> owner.failed]
             /\ owner.kind # "unprepare"
      BY <1>1, <2>2, <2>5, OwnerFields
    <3> QED
      BY <2>1, <2>5, <3>1 DEF OwnerFollowsJournal, Stands, Steps, EngineSteps
  <2> QED
    BY <2>1, <2>3, <2>4, <2>5 DEF EngineSteps, Stands
<1>5. CASE CallFailed
  <2>1. UNCHANGED <<journal, intent>>
    BY <1>5 DEF CallFailed
  <2>2. \/ owner' = [kind |-> "idle", at |-> "none", failed |-> FALSE]
        \/ owner' = [kind |-> "undo", at |-> "pointers", failed |-> TRUE] /\ owner.kind = "undo"
    BY <1>1, <1>5, OwnerFields DEF CallFailed, FailsTo
  <2> QED
    BY <2>1, <2>2 DEF OwnerFollowsJournal, Stands, EngineSteps
<1>6. CASE Materialize
  <2>1. owner.kind = "restore" /\ owner' = [kind |-> "restore", at |-> "mark", failed |-> owner.failed]
        /\ UNCHANGED <<journal, intent>>
    BY <1>1, <1>6, OwnerFields DEF Materialize, OwnerFollowsJournal, Stands, Owners, Kinds
  <2>2. intent.content
    BY <1>6 DEF Materialize, OwnerFollowsJournal, Stands
  <2> QED
    BY <1>6, <2>1, <2>2 DEF Materialize, OwnerFollowsJournal, Stands, Steps, EngineSteps
<1>7. CASE WritePointers
  <2>1. owner' = [kind |-> owner.kind, at |-> "profile", failed |-> owner.failed]
        /\ UNCHANGED <<journal, intent>> /\ Stands("pointers")
    BY <1>1, <1>7, OwnerFields DEF WritePointers
  <2> QED
    BY <2>1 DEF OwnerFollowsJournal, Stands, Steps, EngineSteps
<1>8. CASE WriteProfile
  <2>1. owner' = [kind |-> owner.kind, at |-> IF owner.kind = "boot" THEN "clear" ELSE "agent",
                  failed |-> owner.failed]
        /\ UNCHANGED <<journal, intent>> /\ Stands("profile")
    BY <1>1, <1>8, OwnerFields DEF WriteProfile
  <2>2. owner.kind = "boot" => ~owner.failed
    BY DEF OwnerFollowsJournal
  <2> QED
    BY <2>1, <2>2 DEF OwnerFollowsJournal, Stands, Steps, EngineSteps
<1>9. CASE WriteAgent
  <2>1. UNCHANGED <<journal, intent>> /\ Stands("agent")
    BY <1>9 DEF WriteAgent
  <2>2. \/ /\ owner' = [kind |-> owner.kind, at |-> "decide", failed |-> owner.failed]
           /\ owner.kind = "restore"
        \/ /\ owner' = [kind |-> owner.kind, at |-> "clear", failed |-> FALSE]
           /\ owner.kind # "restore"
        \/ owner' = [kind |-> "idle", at |-> "none", failed |-> FALSE]
    BY <1>1, <1>9, OwnerFields DEF WriteAgent, AfterSelection, Owners
  <2> QED
    BY <2>1, <2>2 DEF OwnerFollowsJournal, Stands, Steps, EngineSteps
<1>10. CASE Decide
  <2>1. owner.kind = "restore" /\ Stands("decide") /\ ~owner.failed /\ journal' = "committed"
        /\ UNCHANGED intent
    BY <1>1, <1>10 DEF Decide, OwnerFollowsJournal, Stands, Owners, Kinds
  <2>2. owner' = [kind |-> "restore", at |-> IF intent.content THEN "commit" ELSE "clear",
                  failed |-> FALSE]
    BY <1>1, <1>10, <2>1, OwnerFields DEF Decide, Owners
  <2> QED
    BY <2>1, <2>2 DEF OwnerFollowsJournal, Stands, Steps, EngineSteps
<1>11. CASE JournalClears
  <2>1. owner' = [kind |-> "idle", at |-> "none", failed |-> FALSE]
    BY <1>1, <1>11, OwnerFields DEF JournalClears
  <2> QED
    BY <2>1 DEF OwnerFollowsJournal, Stands, EngineSteps
<1> QED
  BY <1>2, <1>3, <1>4, <1>5, <1>6, <1>7, <1>8, <1>9, <1>10, <1>11 DEF Owner

\* An error path hands the journal to an owner that may have it.
LEMMA FailureFollowsJournal ==
    ASSUME TypeOK, OwnerFollowsJournal, Boot \/ Failure
    PROVE  OwnerFollowsJournal'
<1>1. owner \in Owners /\ journal \in {"none", "prepared", "committed"}
  BY DEF TypeOK
<1>2. ASSUME owner' = [kind |-> "idle", at |-> "none", failed |-> FALSE]
      PROVE  OwnerFollowsJournal'
  BY <1>2 DEF OwnerFollowsJournal, Stands, EngineSteps
<1>3. CASE Boot
  <2>1. UNCHANGED <<journal, intent>>
    BY <1>3 DEF Boot
  <2>2. \/ /\ owner' = [kind |-> "boot", at |-> "rollback", failed |-> FALSE]
           /\ journal = "prepared" /\ intent.content
        \/ /\ owner' = [kind |-> "boot", at |-> "pointers", failed |-> FALSE]
           /\ journal = "prepared" /\ ~intent.content
        \/ /\ owner' = [kind |-> "boot", at |-> "commit", failed |-> FALSE]
           /\ journal = "committed" /\ intent.content
        \/ /\ owner' = [kind |-> "boot", at |-> "clear", failed |-> FALSE]
           /\ journal = "committed" /\ ~intent.content
        \/ owner' = [kind |-> "idle", at |-> "none", failed |-> FALSE]
    BY <1>1, <1>3, OwnerFields DEF Boot
  <2> QED
    BY <1>2, <2>1, <2>2 DEF OwnerFollowsJournal, Stands, EngineSteps
<1>4. CASE CallBreaks \/ FileEdited
  BY <1>4 DEF CallBreaks, FileEdited, outer, OwnerFollowsJournal, Stands
<1>5. CASE SelectionBreaks
  <2>1. UNCHANGED <<journal, intent>> /\ owner.at \in {"pointers", "profile", "agent"}
    BY <1>5 DEF SelectionBreaks
  <2>2. \/ /\ owner.kind = "restore"
           /\ owner' = [kind |-> "undo", at |-> IF intent.content THEN "rollback" ELSE "pointers",
                        failed |-> FALSE]
        \/ /\ owner.kind \in {"undo", "abort"}
           /\ owner' = [kind |-> owner.kind, at |-> IF Stands("pointers") THEN "profile" ELSE "agent",
                        failed |-> TRUE]
        \/ owner' = [kind |-> "idle", at |-> "none", failed |-> FALSE]
    BY <1>1, <1>5, OwnerFields DEF SelectionBreaks, Undo, FailsTo
  <2> QED
    BY <1>2, <2>1, <2>2 DEF OwnerFollowsJournal, Stands, EngineSteps
<1>6. CASE BeginBreaks
  <2>1. UNCHANGED intent
    BY <1>6 DEF BeginBreaks
  <2>2. \/ /\ owner' = [kind |-> "unprepare", at |-> "rollback", failed |-> FALSE]
           /\ intent.content
        \/ owner' = [kind |-> "idle", at |-> "none", failed |-> FALSE]
    BY <1>1, <1>6, OwnerFields DEF BeginBreaks
  <2> QED
    BY <1>2, <2>1, <2>2 DEF OwnerFollowsJournal, Stands, EngineSteps
<1>7. CASE DecideBreaks
  <2>1. owner.kind = "restore" /\ Stands("decide") /\ UNCHANGED intent
    BY <1>1, <1>7 DEF DecideBreaks, OwnerFollowsJournal, Stands, Owners, Kinds
  <2>2. \/ /\ UNCHANGED journal
           /\ owner' = [kind |-> "undo", at |-> IF intent.content THEN "rollback" ELSE "pointers",
                        failed |-> FALSE]
        \/ owner' = [kind |-> "idle", at |-> "none", failed |-> FALSE]
    BY <1>1, <1>7, OwnerFields DEF DecideBreaks, Undo
  <2> QED
    BY <1>2, <2>1, <2>2 DEF OwnerFollowsJournal, Stands, EngineSteps
<1>8. CASE OwnerGivesUp \/ BootBreaks
  BY <1>1, <1>2, <1>8, OwnerFields DEF OwnerGivesUp, BootBreaks
<1>9. CASE Crash
  <2>1. owner' = [kind |-> "dead", at |-> "none", failed |-> FALSE]
    BY <1>1, <1>9, OwnerFields DEF Crash
  <2> QED
    BY <2>1 DEF OwnerFollowsJournal, Stands, EngineSteps
<1> QED
  BY <1>3, <1>4, <1>5, <1>6, <1>7, <1>8, <1>9 DEF Failure

\* Every owner of checkpoint_api.rs and of startup recovery works under a journal
\* it may work under, whatever fails.
THEOREM OwnersFollowJournal == Spec => []OwnerFollowsJournal
<1>1. Init => OwnerFollowsJournal
  BY DEF Init, Nobody, At, OwnerFollowsJournal, Stands, EngineSteps
<1>2. TypeOK /\ OwnerFollowsJournal /\ [Next]_vars => OwnerFollowsJournal'
  <2> SUFFICES ASSUME TypeOK, OwnerFollowsJournal, [Next]_vars PROVE OwnerFollowsJournal'
    OBVIOUS
  <2>1. CASE UNCHANGED vars
    BY <2>1 DEF vars, outer, OwnerFollowsJournal, Stands
  <2> QED
    BY <2>1, RequestFollowsJournal, OwnerGoesUnderJournal, FailureFollowsJournal DEF Next
<1> QED
  BY <1>1, <1>2, TypeCorrect, PTL DEF Spec

-------------------------------------------------------------------------------
\* Where every stored fallback has its evidence, load_unlocked hides nothing.
THEOREM StoredIsShown == ASSUME Undisturbed PROVE Spec => []NothingIsStale
<1> USE DEF Visible
<1>1. Init => NothingIsStale
  BY DEF Init, Undisturbed, NothingIsStale
<1>2. TypeOK /\ NothingIsStale /\ [Next]_vars => NothingIsStale'
  <2> SUFFICES ASSUME TypeOK, NothingIsStale, [Next]_vars PROVE NothingIsStale'
    OBVIOUS
  <2>1. UNCHANGED verified
    BY DEF Next, Request, RequestRestore, RequestRetry, RequestAbort, RequestSettle,
           Owner, JournalBegins, CallRuns, CallReturns, CallFailed, Materialize, WritePointers,
           WriteProfile, WriteAgent, Decide, JournalClears, Boot, Failure, CallBreaks,
           SelectionBreaks, BeginBreaks, DecideBreaks, OwnerGivesUp, Crash, BootBreaks,
           FileEdited, outer, vars
  <2>2. ASSUME NEW release \in Releases, NEW to \in Profiles, NEW content \in BOOLEAN, NEW changes,
               RequestRestore(release, to, content, changes)
        PROVE  NothingIsStale'
    <3>1. PICK pair \in Planned(release) :
             intent' = [content |-> content,
                        previous |-> [pointers |-> Visible(pointers), profile |-> profile],
                        target |-> [pointers |-> pair, profile |-> to]]
      BY <2>2 DEF RequestRestore
    <3>2. Visible(pair) = pair
      <4>1. \/ pair = Visible(pointers)
            \/ pair = [current |-> release, good |-> "none"]
            \/ \E r \in verified : pair = [current |-> release, good |-> r]
        BY DEF Planned
      <4> QED
        BY <4>1 DEF NothingIsStale
    <3> QED
      BY <2>1, <2>2, <3>1, <3>2 DEF RequestRestore, NothingIsStale
  <2>3. CASE UNCHANGED intent /\ pointers' \in {pointers, Chosen.pointers}
    BY <2>1, <2>3 DEF Chosen, NothingIsStale
  <2>4. CASE RequestRetry \/ RequestAbort \/ RequestSettle
    BY <2>3, <2>4 DEF RequestRetry, RequestAbort, RequestSettle
  <2>5. CASE Owner
    BY <2>3, <2>5
    DEF Owner, JournalBegins, CallRuns, CallReturns, CallFailed, Materialize, WritePointers,
        WriteProfile, WriteAgent, Decide, JournalClears, outer
  <2>6. CASE Boot \/ Failure
    BY <2>3, <2>6
    DEF Boot, Failure, CallBreaks, SelectionBreaks, BeginBreaks, DecideBreaks, OwnerGivesUp,
        Crash, BootBreaks, FileEdited, outer
  <2>7. CASE UNCHANGED vars
    BY <2>3, <2>7 DEF vars, outer
  <2> QED
    BY <2>2, <2>4, <2>5, <2>6, <2>7 DEF Next, Request
<1> QED
  BY <1>1, <1>2, TypeCorrect, PTL DEF Spec

\* The selection an owner publishes is the decided one once the journal says so.
LEMMA ChosenIsOutcome ==
    ASSUME TypeOK, ProtocolIsConsistent, OwnerFollowsJournal
    PROVE  /\ owner.at \in {"pointers", "profile", "agent", "decide", "clear"} => journal # "none"
           /\ journal = "committed" => Chosen = Outcome
           /\ owner.at = "clear" => Chosen = Outcome
<1>1. /\ journal \in {"none", "prepared", "committed"}
      /\ journal = "prepared" => ~decided
      /\ journal = "committed" => decided
  BY DEF TypeOK, ProtocolIsConsistent, OwnerKnowsDecision
<1>2. owner.at \in {"pointers", "profile", "agent", "decide", "clear"} => journal # "none"
  BY DEF OwnerFollowsJournal, Stands, TypeOK, Owners, Kinds
<1>3. owner.kind = "restore" /\ owner.at = "clear" => journal = "committed"
  BY DEF OwnerFollowsJournal, Stands
<1>4. ASSUME owner.at = "clear"
      PROVE  Chosen = Outcome
  <2>1. CASE journal = "committed"
    BY <1>1, <2>1 DEF Chosen, Outcome
  <2>2. CASE journal = "prepared"
    BY <1>1, <1>3, <1>4, <2>2 DEF Chosen, Outcome
  <2> QED
    BY <1>1, <1>2, <1>4, <2>1, <2>2
<1> QED
  BY <1>1, <1>2, <1>4 DEF Chosen, Outcome

\* A request starts from a published selection, and plans from it.
LEMMA RequestKeepsSelection ==
    ASSUME TypeOK, ProtocolIsConsistent, OwnerFollowsJournal, NothingIsStale,
           SelectionFollowsOwner, Request
    PROVE  SelectionFollowsOwner'
<1>1. owner \in Owners /\ owner = [kind |-> "idle", at |-> "none", failed |-> FALSE]
  BY OwnerFields
  DEF TypeOK, Request, RequestRestore, RequestRetry, RequestAbort, RequestSettle, Free
<1>2. Alive /\ ~Stands("decide") /\ ~Stands("clear") /\ owner.kind # "boot"
  BY <1>1 DEF Alive, Stands
<1>3. ASSUME NEW release \in Releases, NEW to \in Profiles, NEW content \in BOOLEAN, NEW changes,
             RequestRestore(release, to, content, changes)
      PROVE  SelectionFollowsOwner'
  <2>1. /\ owner' = [kind |-> "restore", at |-> "begin", failed |-> FALSE]
        /\ UNCHANGED <<pointers, profile, selected, journal>> /\ journal = "none" /\ ~decided'
    BY <1>1, <1>3, OwnerFields DEF RequestRestore
  <2>2. intent'.previous = [pointers |-> pointers, profile |-> profile]
    BY <1>3 DEF RequestRestore, NothingIsStale
  <2>3. Outcome' = [pointers |-> pointers, profile |-> profile]
    BY <2>1, <2>2 DEF Outcome
  <2>4. selected = [profile |-> profile, release |-> pointers.current]
    BY <1>2, <2>1 DEF SelectionFollowsOwner
  <2> QED
    BY <2>1, <2>3, <2>4 DEF SelectionFollowsOwner, Stands
<1>4. CASE RequestRetry \/ RequestAbort
  <2>1. /\ \E k \in {"restore", "abort"}, at \in {"apply", "commit", "rollback"} :
              owner' = [kind |-> k, at |-> at, failed |-> FALSE]
        /\ UNCHANGED <<pointers, profile, selected, journal, intent, decided>>
    BY <1>1, <1>4, OwnerFields DEF RequestRetry, RequestAbort
  <2> QED
    BY <1>2, <2>1 DEF SelectionFollowsOwner, Outcome, Stands
<1>5. CASE RequestSettle
  <2>1. UNCHANGED <<pointers, profile, selected, journal, intent, decided>>
    BY <1>5 DEF RequestSettle
  <2>2. \/ owner' = [kind |-> "settle", at |-> "pointers", failed |-> FALSE]
        \/ /\ owner' = [kind |-> "settle", at |-> "agent", failed |-> FALSE]
           /\ journal = "committed" /\ CommittedMatches
    BY <1>1, <1>5, OwnerFields DEF RequestSettle
  <2> QED
    BY <1>2, <2>1, <2>2
    DEF SelectionFollowsOwner, Outcome, Chosen, CommittedMatches, Stands
<1> QED
  BY <1>3, <1>4, <1>5 DEF Request

\* An owner publishes one part after the other.
LEMMA OwnerPublishes ==
    ASSUME TypeOK, ProtocolIsConsistent, OwnerFollowsJournal, NothingIsStale,
           SelectionFollowsOwner, Owner
    PROVE  SelectionFollowsOwner'
<1>1. owner \in Owners /\ journal \in {"none", "prepared", "committed"}
  BY DEF TypeOK
<1>2. /\ owner.at \in {"pointers", "profile", "agent", "decide", "clear"} => journal # "none"
      /\ journal = "committed" => Chosen = Outcome
      /\ owner.at = "clear" => Chosen = Outcome
  BY ChosenIsOutcome
<1>3. Stored = [profile |-> profile, release |-> pointers.current]
  BY DEF Stored, NothingIsStale
<1>4. CASE JournalBegins
  <2>1. /\ owner.kind = "restore" /\ journal' = "prepared"
        /\ \E at \in {"apply", "pointers"} :
              owner' = [kind |-> "restore", at |-> at, failed |-> owner.failed]
    BY <1>1, <1>4, OwnerFields
    DEF JournalBegins, OwnerFollowsJournal, Stands, Owners, Kinds
  <2> QED
    BY <2>1 DEF SelectionFollowsOwner, Stands
<1>5. CASE CallRuns
  BY <1>5 DEF CallRuns, outer, SelectionFollowsOwner, Outcome, Chosen, Alive, Stands
<1>6. CASE CallReturns
  <2>1. UNCHANGED <<pointers, profile, selected, journal, intent, decided>> /\ ~owner.failed
        /\ owner.at \in EngineSteps
    BY <1>6 DEF CallReturns, OwnerFollowsJournal, EngineSteps
  <2>2. /\ Stands("apply") => Goes(IF txn.materialize THEN "materialize" ELSE "pointers")
        /\ Stands("mark") => Goes("pointers")
        /\ Stands("commit") => Goes("clear")
        /\ Stands("rollback") => IF owner.kind = "unprepare" THEN Done ELSE Goes("pointers")
    BY <1>6 DEF CallReturns, Stands
  <2>3. CASE Stands("commit")
    <3>1. journal = "committed" /\ owner' = [kind |-> owner.kind, at |-> "clear", failed |-> FALSE]
      BY <1>1, <2>1, <2>2, <2>3, OwnerFields DEF OwnerFollowsJournal, Owners
    <3>2. Chosen' = Outcome /\ Outcome' = Outcome
      BY <1>2, <2>1, <3>1 DEF Chosen, Outcome
    <3> QED
      BY <2>1, <3>1, <3>2 DEF SelectionFollowsOwner, Alive, Stands
  <2>4. CASE ~Stands("commit")
    <3>1. \/ \E at \in {"materialize", "pointers"} :
                owner' = [kind |-> owner.kind, at |-> at, failed |-> FALSE]
          \/ /\ owner' = [kind |-> "idle", at |-> "none", failed |-> FALSE]
             /\ owner.kind = "unprepare"
      BY <1>1, <2>1, <2>2, <2>4, OwnerFields DEF EngineSteps, Stands, Owners
    <3> QED
      BY <2>1, <3>1 DEF SelectionFollowsOwner, Outcome, Alive, Stands
  <2> QED
    BY <2>3, <2>4
<1>7. CASE CallFailed
  <2>1. /\ UNCHANGED <<pointers, profile, journal, intent, decided>>
        /\ selected' = IF owner.kind = "boot" THEN Stored ELSE selected
        /\ owner.at \in EngineSteps
    BY <1>7 DEF CallFailed
  <2>2. \/ owner' = [kind |-> "idle", at |-> "none", failed |-> FALSE]
        \/ owner' = [kind |-> "undo", at |-> "pointers", failed |-> TRUE] /\ owner.kind = "undo"
    BY <1>1, <1>7, OwnerFields DEF CallFailed, FailsTo
  <2>3. owner.kind # "dead"
    BY <2>1 DEF OwnerFollowsJournal, EngineSteps
  <2> QED
    BY <1>3, <2>1, <2>2, <2>3 DEF SelectionFollowsOwner, Outcome, Alive, Stands
<1>8. CASE Materialize
  <2>1. UNCHANGED <<pointers, profile, selected, journal, intent, decided>>
        /\ owner' = [kind |-> owner.kind, at |-> "mark", failed |-> owner.failed]
    BY <1>1, <1>8, OwnerFields DEF Materialize
  <2> QED
    BY <2>1 DEF SelectionFollowsOwner, Outcome, Alive, Stands
<1>9. CASE WritePointers
  <2>1. /\ UNCHANGED <<profile, selected, journal, intent, decided>> /\ pointers' = Chosen.pointers
        /\ owner' = [kind |-> owner.kind, at |-> "profile", failed |-> owner.failed]
        /\ Stands("pointers")
    BY <1>1, <1>9, OwnerFields DEF WritePointers, NothingIsStale
  <2>2. Chosen' = Chosen /\ Outcome' = Outcome
    BY <2>1 DEF Chosen, Outcome
  <2>3. journal = "committed" => pointers' = pointers
    BY <1>2, <2>1 DEF SelectionFollowsOwner
  <2>4. journal \in {"prepared", "committed"}
    BY <1>1, <1>2, <2>1 DEF Stands
  <2> QED
    BY <2>1, <2>2, <2>3, <2>4 DEF SelectionFollowsOwner, Alive, Stands
<1>10. CASE WriteProfile
  <2>1. /\ UNCHANGED <<pointers, selected, journal, intent, decided>> /\ profile' = Chosen.profile
        /\ \/ /\ owner' = [kind |-> owner.kind, at |-> "clear", failed |-> owner.failed]
              /\ owner.kind = "boot"
           \/ owner' = [kind |-> owner.kind, at |-> "agent", failed |-> owner.failed]
        /\ Stands("profile")
    BY <1>1, <1>10, OwnerFields DEF WriteProfile
  <2>2. Chosen' = Chosen /\ Outcome' = Outcome
    BY <2>1 DEF Chosen, Outcome
  <2>3. journal = "committed" => profile' = profile
    BY <1>2, <2>1 DEF SelectionFollowsOwner
  <2>4. journal \in {"prepared", "committed"}
    BY <1>1, <1>2, <2>1 DEF Stands
  <2> QED
    BY <2>1, <2>2, <2>3, <2>4 DEF SelectionFollowsOwner, Alive, Stands
<1>11. CASE WriteAgent
  <2>1. /\ UNCHANGED <<pointers, profile, journal, intent, decided>> /\ Stands("agent")
        /\ selected' = [profile |-> Chosen.profile, release |-> Chosen.pointers.current]
    BY <1>11 DEF WriteAgent, ChosenSelection
  <2>2. \/ /\ owner' = [kind |-> owner.kind, at |-> "decide", failed |-> owner.failed]
           /\ owner.kind = "restore"
        \/ /\ owner' = [kind |-> owner.kind, at |-> "clear", failed |-> FALSE]
           /\ owner.kind # "restore" /\ ~owner.failed
        \/ /\ owner' = [kind |-> "idle", at |-> "none", failed |-> FALSE]
           /\ owner.failed
    BY <1>1, <1>11, OwnerFields DEF WriteAgent, AfterSelection, Owners
  <2>3. owner.failed => journal = "prepared" /\ owner.kind # "restore"
    BY DEF OwnerFollowsJournal
  <2>4. ~owner.failed => pointers = Chosen.pointers /\ profile = Chosen.profile
    BY <2>1 DEF SelectionFollowsOwner, Stands
  <2>5. owner'.at # "none" => Chosen' = Chosen
    BY <2>1, <2>2 DEF Chosen
  <2> QED
    BY <2>1, <2>2, <2>3, <2>4, <2>5 DEF SelectionFollowsOwner, Outcome, Alive, Stands
<1>12. CASE Decide
  <2>1. /\ UNCHANGED <<pointers, profile, selected, intent>> /\ Stands("decide")
        /\ journal' = "committed" /\ decided'
    BY <1>12 DEF Decide
  <2>2. owner.kind = "restore" /\ ~owner.failed
    BY <1>1, <2>1 DEF OwnerFollowsJournal, Stands, Owners, Kinds
  <2>3. \E at \in {"commit", "clear"} : owner' = [kind |-> "restore", at |-> at, failed |-> FALSE]
    BY <1>1, <1>12, <2>2, OwnerFields DEF Decide, Owners
  <2>4. /\ pointers = intent.target.pointers /\ profile = intent.target.profile
        /\ selected = [profile |-> profile, release |-> pointers.current]
    BY <2>1, <2>2 DEF SelectionFollowsOwner, Chosen, Stands, Alive
  <2>5. Outcome' = intent.target /\ Chosen' = intent.target
    BY <2>1, <2>3 DEF Outcome, Chosen
  <2> QED
    BY <2>1, <2>3, <2>4, <2>5 DEF SelectionFollowsOwner, Stands
<1>13. CASE JournalClears
  <2>1. /\ UNCHANGED <<pointers, profile, intent, decided>> /\ Stands("clear") /\ journal' = "none"
        /\ selected' = IF owner.kind = "boot" THEN Stored ELSE selected
        /\ owner' = [kind |-> "idle", at |-> "none", failed |-> FALSE]
    BY <1>1, <1>13, OwnerFields DEF JournalClears
  <2>2. ~owner.failed /\ owner.kind # "dead"
    BY <2>1 DEF OwnerFollowsJournal, Stands
  <2> QED
    BY <1>2, <1>3, <2>1, <2>2 DEF SelectionFollowsOwner, Outcome, Alive, Stands
<1> QED
  BY <1>4, <1>5, <1>6, <1>7, <1>8, <1>9, <1>10, <1>11, <1>12, <1>13 DEF Owner

\* What fails while the selection is published leaves it to an undo, or has
\* published the decided one.
LEMMA FailureKeepsSelection ==
    ASSUME TypeOK, ProtocolIsConsistent, OwnerFollowsJournal, NothingIsStale,
           SelectionFollowsOwner, Boot \/ Failure
    PROVE  SelectionFollowsOwner'
<1>1. owner \in Owners /\ journal \in {"none", "prepared", "committed"}
  BY DEF TypeOK
<1>2. /\ owner.at \in {"pointers", "profile", "agent", "decide", "clear"} => journal # "none"
      /\ journal = "committed" => Chosen = Outcome
      /\ owner.at = "clear" => Chosen = Outcome
  BY ChosenIsOutcome
<1>3. Stored = [profile |-> profile, release |-> pointers.current]
  BY DEF Stored, NothingIsStale
<1>4. CASE Boot
  <2>1. UNCHANGED <<pointers, profile, journal, intent, decided>>
    BY <1>4 DEF Boot
  <2>2. \/ \E at \in {"rollback", "commit", "pointers"} :
              owner' = [kind |-> "boot", at |-> at, failed |-> FALSE]
        \/ /\ owner' = [kind |-> "boot", at |-> "clear", failed |-> FALSE]
           /\ journal = "committed"
        \/ /\ owner' = [kind |-> "idle", at |-> "none", failed |-> FALSE]
           /\ selected' = Stored
    BY <1>1, <1>4, OwnerFields DEF Boot
  <2>3. journal = "committed" => Chosen' = Outcome
    BY <1>2, <2>1 DEF Chosen, Outcome
  <2> QED
    BY <1>3, <2>1, <2>2, <2>3 DEF SelectionFollowsOwner, Outcome, Alive, Stands
<1>5. CASE CallBreaks \/ FileEdited
  BY <1>5 DEF CallBreaks, FileEdited, outer, SelectionFollowsOwner, Outcome, Chosen, Alive, Stands
<1>6. CASE SelectionBreaks
  <2>1. /\ UNCHANGED <<journal, intent, decided>> /\ owner.at \in {"pointers", "profile", "agent"}
        /\ pointers' \in {pointers, Chosen.pointers} /\ profile' \in {profile, Chosen.profile}
        /\ selected' = IF Stands("agent") THEN ChosenSelection ELSE selected
    BY <1>6 DEF SelectionBreaks
  <2>2. \/ /\ owner.kind \in {"restore", "undo", "abort"}
           /\ owner'.kind \in {"undo", "abort"}
           /\ \/ owner'.at \in {"rollback", "pointers"}
              \/ owner'.at \in {"profile", "agent"} /\ owner'.failed
              \/ owner'.at = "none"
        \/ /\ owner' = [kind |-> "idle", at |-> "none", failed |-> FALSE]
    BY <1>1, <1>6, OwnerFields DEF SelectionBreaks, Undo, FailsTo
  <2>3. CASE journal = "prepared"
    BY <2>1, <2>2, <2>3 DEF SelectionFollowsOwner, Alive, Stands
  <2>4. CASE journal = "committed"
    <3>1. owner.kind \notin {"restore", "undo", "abort", "boot", "dead"}
      BY <1>6, <2>1, <2>4 DEF SelectionBreaks, OwnerFollowsJournal, Stands
    <3>2. pointers' = pointers /\ profile' = profile
          /\ pointers = Chosen.pointers /\ profile = Chosen.profile
      BY <1>2, <2>1, <2>4 DEF SelectionFollowsOwner
    <3>3. selected' = [profile |-> profile, release |-> pointers.current]
      BY <2>1, <2>4, <3>1, <3>2 DEF SelectionFollowsOwner, ChosenSelection, Alive
    <3> QED
      BY <2>1, <2>2, <2>4, <3>1, <3>2, <3>3
      DEF SelectionFollowsOwner, Outcome, Alive, Stands
  <2> QED
    BY <1>1, <1>2, <2>1, <2>3, <2>4
<1>7. CASE BeginBreaks
  <2>1. /\ UNCHANGED <<pointers, profile, selected, intent, decided>> /\ Stands("begin")
        /\ journal' \in {"none", "prepared"}
    BY <1>7 DEF BeginBreaks
  <2>2. owner.kind = "restore" /\ journal = "none"
    BY <1>1, <2>1 DEF OwnerFollowsJournal, Stands, Owners, Kinds
  <2>3. owner' \in {[kind |-> "unprepare", at |-> "rollback", failed |-> FALSE],
                    [kind |-> "idle", at |-> "none", failed |-> FALSE]}
    BY <1>1, <1>7, OwnerFields DEF BeginBreaks
  <2> QED
    BY <2>1, <2>2, <2>3 DEF SelectionFollowsOwner, Outcome, Alive, Stands
<1>8. CASE DecideBreaks
  <2>1. /\ UNCHANGED <<pointers, profile, selected, intent>> /\ Stands("decide")
    BY <1>8 DEF DecideBreaks
  <2>2. owner.kind = "restore" /\ ~owner.failed /\ journal = "prepared"
    BY <1>1, <2>1 DEF OwnerFollowsJournal, Stands, Owners, Kinds
  <2>3. \/ /\ \E at \in {"rollback", "pointers"} :
                 owner' = [kind |-> "undo", at |-> at, failed |-> FALSE]
           /\ journal' = journal
        \/ /\ owner' = [kind |-> "idle", at |-> "none", failed |-> FALSE]
           /\ \/ journal' = journal
              \/ journal' = "committed" /\ decided'
    BY <1>1, <1>8, OwnerFields DEF DecideBreaks, Undo
  <2>4. /\ pointers = intent.target.pointers /\ profile = intent.target.profile
        /\ selected = [profile |-> profile, release |-> pointers.current]
    BY <2>1, <2>2 DEF SelectionFollowsOwner, Chosen, Stands, Alive
  <2> QED
    BY <2>1, <2>2, <2>3, <2>4 DEF SelectionFollowsOwner, Outcome, Stands
<1>9. CASE OwnerGivesUp
  <2>1. /\ UNCHANGED <<pointers, profile, selected, intent, decided>>
        /\ owner.at \in {"materialize", "clear"} /\ owner.kind # "boot"
        /\ journal' = journal \/ (Stands("clear") /\ journal' = "none")
        /\ owner' = [kind |-> "idle", at |-> "none", failed |-> FALSE]
    BY <1>1, <1>9, OwnerFields DEF OwnerGivesUp
  <2>2. ~owner.failed /\ owner.kind # "dead"
    BY <2>1 DEF OwnerFollowsJournal
  <2> QED
    BY <1>2, <2>1, <2>2 DEF SelectionFollowsOwner, Outcome, Alive, Stands
<1>10. CASE Crash
  <2>1. UNCHANGED <<pointers, profile, selected, journal, intent, decided>>
        /\ owner' = [kind |-> "dead", at |-> "none", failed |-> FALSE]
    BY <1>1, <1>10, OwnerFields DEF Crash
  <2> QED
    BY <2>1 DEF SelectionFollowsOwner, Outcome, Alive, Stands
<1>11. CASE BootBreaks
  <2>1. /\ UNCHANGED <<intent, decided>> /\ owner.kind = "boot"
        /\ owner.at \in {"pointers", "profile", "clear"}
        /\ pointers' \in {pointers, IF Stands("pointers") THEN Chosen.pointers ELSE pointers}
        /\ profile' \in {profile, IF Stands("profile") THEN Chosen.profile ELSE profile}
        /\ journal' = journal \/ (Stands("clear") /\ journal' = "none")
        /\ owner' = [kind |-> "idle", at |-> "none", failed |-> FALSE]
        /\ selected' = [profile |-> profile', release |-> pointers'.current]
    BY <1>1, <1>11, OwnerFields DEF BootBreaks
  <2>2. ~owner.failed /\ journal # "none"
    BY <2>1 DEF OwnerFollowsJournal
  <2>3. journal' # "prepared" => pointers' = Outcome.pointers /\ profile' = Outcome.profile
    <3>1. CASE Stands("clear")
      BY <1>2, <2>1, <2>2, <3>1 DEF SelectionFollowsOwner, Stands
    <3>2. CASE ~Stands("clear")
      BY <1>1, <1>2, <2>1, <2>2, <3>2 DEF SelectionFollowsOwner
    <3> QED
      BY <3>1, <3>2
  <2> QED
    BY <2>1, <2>3 DEF SelectionFollowsOwner, Outcome, Alive, Stands
<1> QED
  BY <1>4, <1>5, <1>6, <1>7, <1>8, <1>9, <1>10, <1>11 DEF Failure

\* Pointers, profile and the Agent's view of them are on the side the journal is on,
\* or an owner is about to bring them there (apply_checkpoint_target_selection,
\* rollback_checkpoint_selection, recover_checkpoint_restore_startup).
THEOREM SelectionFollows == ASSUME Undisturbed PROVE Spec => []SelectionFollowsOwner
<1>1. Init => SelectionFollowsOwner
  <2> SUFFICES ASSUME Init PROVE SelectionFollowsOwner
    OBVIOUS
  <2>1. Outcome = [pointers |-> pointers, profile |-> profile]
    BY DEF Init, Outcome
  <2>2. owner.at = "none" /\ selected = [profile |-> profile, release |-> pointers.current]
    BY DEF Init, Nobody, At
  <2> QED
    BY <2>1, <2>2 DEF SelectionFollowsOwner, Stands
<1>2. /\ TypeOK /\ ProtocolIsConsistent /\ OwnerFollowsJournal /\ NothingIsStale
      /\ SelectionFollowsOwner /\ [Next]_vars
      => SelectionFollowsOwner'
  <2> SUFFICES ASSUME TypeOK, ProtocolIsConsistent, OwnerFollowsJournal, NothingIsStale,
                      SelectionFollowsOwner, [Next]_vars
               PROVE  SelectionFollowsOwner'
    OBVIOUS
  <2>1. CASE UNCHANGED vars
    BY <2>1 DEF vars, outer, SelectionFollowsOwner, Outcome, Chosen, Alive, Stands
  <2> QED
    BY <2>1, RequestKeepsSelection, OwnerPublishes, FailureKeepsSelection DEF Next
<1> QED
  BY <1>1, <1>2, TypeCorrect, Consistent, OwnersFollowJournal, StoredIsShown, PTL DEF Spec

\* Writing the status of one operation, seen from every operation.
LEMMA OneOperation ==
    ASSUME txn \in Records, NEW f \in Files, NEW s, WriteOp(f, s)
    PROVE  /\ txn'.status = txn.status
           /\ \A g \in Files : g # f => txn'.ops[g] = txn.ops[g]
           /\ txn'.ops[f].status = s
           /\ txn'.ops[f].original = txn.ops[f].original
           /\ txn'.ops[f].desired = txn.ops[f].desired
<1>1. txn' = [txn EXCEPT !.ops = [txn.ops EXCEPT ![f] = [txn.ops[f] EXCEPT !.status = s]]]
  BY DEF WriteOp, Records
<1>2. txn'.status = txn.status
      /\ txn'.ops = [txn.ops EXCEPT ![f] = [txn.ops[f] EXCEPT !.status = s]]
  BY <1>1 DEF Records
<1>3. txn.ops \in [Files -> Operations]
  BY DEF Records
<1>4. txn'.ops[f] = [txn.ops[f] EXCEPT !.status = s] /\ txn.ops[f] \in Operations
  BY <1>2, <1>3
<1> QED
  BY <1>2, <1>3, <1>4 DEF Operations

\* A step of a call that concerns one file: the others are where they were.
LEMMA OneFile ==
    ASSUME NEW f \in Files, FilesFollowRecord, txn.status \in {"applying", "applied"},
           Undoing => Undoing',
           \A g \in Files : g # f =>
              /\ txn'.ops[g] = txn.ops[g] /\ target'[g] = target[g]
              /\ backup'[g] = backup[g] /\ discard'[g] = discard[g],
           IsForward(f)' \/ (Undoing' /\ IsBack(f)')
    PROVE  \A g \in Files : IsForward(g)' \/ (Undoing' /\ IsBack(g)')
<1> SUFFICES ASSUME NEW g \in Files, g # f
             PROVE  IsForward(g)' \/ (Undoing' /\ IsBack(g)')
  OBVIOUS
<1>1. IsForward(g) \/ (Undoing /\ IsBack(g))
  BY DEF FilesFollowRecord
<1>2. IsForward(g)' = IsForward(g) /\ IsBack(g)' = IsBack(g)
  BY DEF IsForward, IsBack
<1> QED
  BY <1>1, <1>2

\* An apply takes one file after the other forward, and reports how far it is.
LEMMA ApplyFollowsFile ==
    ASSUME EngineTypeOK, FilesFollowRecord, CallFollowsFiles, ~Undoing, ~Undoing',
           txn.status = "applying", NEW f \in Files,
           \/ ApplyVerify(f) \/ ApplyOmitted(f) \/ ApplyRecord(f) \/ ApplyBackUp(f)
           \/ ApplyBackedUp(f) \/ ApplyWrite(f) \/ ApplyWritten(f)
    PROVE  FilesFollowRecord' /\ CallFollowsFiles' /\ txn'.status = "applying"
<1> DEFINE op == txn.ops[f]
           Onward == /\ call'.op = "apply" /\ call'.at = "files" /\ call'.file = f + 1
                     /\ call'.moved = FALSE /\ txn'.ops[f].status = "applied"
           Fails == call'.op = "apply" /\ call'.at = "failed"
<1>1. call \in Calls /\ txn \in Records /\ txn.ops \in [Files -> Operations]
  BY DEF EngineTypeOK, Records
<1>2. call.op = "apply" /\ call.at = "files" /\ call.file = f
  BY DEF ApplyVerify, ApplyOmitted, ApplyRecord, ApplyBackUp, ApplyBackedUp, ApplyWrite,
         ApplyWritten, Applying, Running
<1>3. IsForward(f) /\ \A g \in Files : g < f => txn.ops[g].status = "applied"
  BY <1>2 DEF FilesFollowRecord, CallFollowsFiles, Running
<1>4. call.moved => op.status = "backed_up" /\ target[f] = op.desired
  BY <1>2 DEF CallFollowsFiles, Running
<1>5. ASSUME NEW g, GoTo(g)
      PROVE  call'.op = call.op /\ call'.at = "files" /\ call'.file = g /\ call'.moved = FALSE
  BY <1>1, <1>5 DEF GoTo, Calls
<1>6. ASSUME Return("failed") PROVE Fails
  BY <1>1, <1>2, <1>6, CallFields
<1>7. \A g \in Files : g < f + 1 => g < f \/ g = f
  BY EngineAssumption DEF Files
<1>8. ASSUME /\ txn'.status = "applying" /\ IsForward(f)'
             /\ \A g \in Files : g # f =>
                   /\ txn'.ops[g] = txn.ops[g] /\ target'[g] = target[g]
                   /\ backup'[g] = backup[g] /\ discard'[g] = discard[g]
             /\ \/ Onward \/ Fails
                \/ /\ call'.op = "apply" /\ call'.at = "files" /\ call'.file = f
                   /\ call'.moved =>
                         txn'.ops[f].status = "backed_up" /\ target'[f] = txn'.ops[f].desired
      PROVE  FilesFollowRecord' /\ CallFollowsFiles' /\ txn'.status = "applying"
  <2>1. \A g \in Files : IsForward(g)' \/ (Undoing' /\ IsBack(g)')
    BY <1>8, OneFile
  <2>2. FilesFollowRecord'
    BY <1>8, <2>1 DEF FilesFollowRecord
  <2>3. \A g \in Files : g < f => txn'.ops[g].status = "applied"
    <3>1. \A g \in Files : g < f => g # f
      BY EngineAssumption DEF Files
    <3> QED
      BY <1>3, <1>8, <3>1
  <2>4. CASE Onward
    <3>1. \A g \in Files : g < f + 1 => txn'.ops[g].status = "applied"
      BY <1>7, <2>3, <2>4
    <3> QED
      BY <1>8, <2>2, <2>4, <3>1 DEF CallFollowsFiles, Running
  <2>5. CASE Fails
    BY <1>8, <2>2, <2>5 DEF CallFollowsFiles, Running
  <2>6. CASE /\ call'.op = "apply" /\ call'.at = "files" /\ call'.file = f
             /\ call'.moved =>
                   txn'.ops[f].status = "backed_up" /\ target'[f] = txn'.ops[f].desired
    <3>1. CallFollowsFiles'
      BY <2>3, <2>6 DEF CallFollowsFiles, Running
    <3> QED
      BY <1>8, <2>2, <3>1
  <2> QED
    BY <1>8, <2>4, <2>5, <2>6
<1>9. ASSUME UNCHANGED <<target, backup, discard, txn>>, Fails
      PROVE  FilesFollowRecord' /\ CallFollowsFiles' /\ txn'.status = "applying"
  <2>1. IsForward(f)'
    BY <1>3, <1>9 DEF IsForward
  <2> QED
    BY <1>8, <1>9, <2>1
<1>10. CASE ApplyVerify(f)
  <2>1. UNCHANGED <<target, backup, discard, txn>> /\ op.status = "applied"
    BY <1>10 DEF ApplyVerify, Applying
  <2>2. Onward \/ Fails
    BY <1>2, <1>5, <1>6, <1>10, <2>1 DEF ApplyVerify
  <2>3. IsForward(f)'
    BY <1>3, <2>1 DEF IsForward
  <2> QED
    BY <1>8, <2>1, <2>2, <2>3
<1>11. CASE ApplyOmitted(f)
  <2>1. UNCHANGED <<target, backup, discard>> /\ WriteOp(f, "applied") /\ GoTo(f + 1)
        /\ op.desired = Omitted
    BY <1>11 DEF ApplyOmitted
  <2>2. op.status \in {"pending", "applied"}
    BY <1>3, <2>1 DEF IsForward, Forward, Replaced
  <2>3. IsForward(f)'
    BY <1>1, <1>3, <2>1, <2>2, OneOperation DEF IsForward, Forward, Kept, Replaced
  <2>4. Onward
    BY <1>1, <1>2, <1>5, <2>1, OneOperation
  <2> QED
    BY <1>1, <1>8, <2>1, <2>3, <2>4, OneOperation
<1>12. CASE ApplyRecord(f)
  <2>1. CASE target[f] = op.original
    <3>1. UNCHANGED <<target, backup, discard, call>> /\ WriteOp(f, "applying")
          /\ op.desired # Omitted /\ op.status = "pending"
      BY <1>12, <2>1 DEF ApplyRecord, Applying
    <3>2. IsForward(f)'
      BY <1>1, <1>3, <3>1, OneOperation DEF IsForward, Forward, Kept
    <3>3. ~call'.moved
      BY <1>4, <3>1
    <3> QED
      BY <1>1, <1>2, <1>8, <3>1, <3>2, <3>3, OneOperation
  <2>2. CASE target[f] # op.original
    BY <1>6, <1>9, <1>12, <2>2 DEF ApplyRecord
  <2> QED
    BY <2>1, <2>2
<1>13. CASE ApplyBackUp(f)
  <2>1. CASE target[f] = op.original
    <3>1. /\ backup' = [backup EXCEPT ![f] = target[f]]
          /\ target' = [target EXCEPT ![f] = Absent]
          /\ UNCHANGED <<discard, txn, call>> /\ op.desired # Omitted /\ op.status = "applying"
      BY <1>13, <2>1 DEF ApplyBackUp, Applying
    <3>2. backup'[f] = op.original /\ target'[f] = Absent
      BY <2>1, <3>1 DEF EngineTypeOK
    <3>3. IsForward(f)'
      BY <1>3, <3>1, <3>2 DEF IsForward, Forward, SetAside
    <3>4. ~call'.moved
      BY <1>4, <3>1
    <3> QED
      BY <1>2, <1>8, <3>1, <3>3, <3>4 DEF EngineTypeOK
  <2>2. CASE target[f] # op.original
    BY <1>6, <1>9, <1>13, <2>2 DEF ApplyBackUp
  <2> QED
    BY <2>1, <2>2
<1>14. CASE ApplyBackedUp(f)
  <2>1. CASE backup[f] = op.original
    <3>1. UNCHANGED <<target, backup, discard, call>> /\ WriteOp(f, "backed_up")
          /\ op.desired # Omitted /\ op.status = "applying"
          /\ (op.original = Absent \/ backup[f] # Absent)
      BY <1>14, <2>1 DEF ApplyBackedUp, Applying
    <3>2. SetAside(op, target[f], backup[f]) /\ discard[f] = Absent
      BY <1>3, <2>1, <3>1 DEF IsForward, Forward, SetAside, Kept
    <3>3. IsForward(f)'
      BY <1>1, <3>1, <3>2, OneOperation DEF IsForward, Forward, SetAside
    <3>4. ~call'.moved
      BY <1>4, <3>1
    <3> QED
      BY <1>1, <1>2, <1>8, <3>1, <3>3, <3>4, OneOperation
  <2>2. CASE backup[f] # op.original
    BY <1>6, <1>9, <1>14, <2>2 DEF ApplyBackedUp
  <2> QED
    BY <2>1, <2>2
<1>15. CASE ApplyWrite(f)
  <2>1. CASE Return("failed") /\ UNCHANGED target
    BY <1>6, <1>9, <1>15, <2>1 DEF ApplyWrite
  <2>2. CASE target' = [target EXCEPT ![f] = op.desired] /\ Moved
    <3>1. UNCHANGED <<backup, discard, txn>> /\ op.desired # Omitted
          /\ op.status \in {"backed_up", "rolled_back"}
      BY <1>15 DEF ApplyWrite, Applying
    <3>2. op.status = "backed_up" /\ backup[f] = op.original /\ discard[f] = Absent
      BY <1>3, <3>1 DEF IsForward, Forward, SetAside, Replaced
    <3>3. target'[f] = op.desired
      BY <2>2 DEF EngineTypeOK
    <3>4. IsForward(f)'
      BY <3>1, <3>2, <3>3 DEF IsForward, Forward, Replaced
    <3>5. call'.op = "apply" /\ call'.at = "files" /\ call'.file = f
      BY <1>1, <1>2, <2>2 DEF Moved, Calls
    <3> QED
      BY <1>8, <2>2, <3>1, <3>2, <3>3, <3>4, <3>5 DEF EngineTypeOK
  <2> QED
    BY <1>15, <2>1, <2>2 DEF ApplyWrite
<1>16. CASE ApplyWritten(f)
  <2>1. UNCHANGED <<target, backup, discard>> /\ WriteOp(f, "applied") /\ GoTo(f + 1)
        /\ op.desired # Omitted /\ call.moved
    BY <1>16 DEF ApplyWritten
  <2>2. Replaced(op, target[f], backup[f]) /\ discard[f] = Absent
    BY <1>3, <1>4, <2>1 DEF IsForward, Forward, SetAside, Replaced
  <2>3. IsForward(f)'
    BY <1>1, <2>1, <2>2, OneOperation DEF IsForward, Forward, Replaced
  <2>4. Onward
    BY <1>1, <1>2, <1>5, <2>1, OneOperation
  <2> QED
    BY <1>1, <1>8, <2>1, <2>3, <2>4, OneOperation
<1> QED
  BY <1>10, <1>11, <1>12, <1>13, <1>14, <1>15, <1>16

\* An apply brings every file forward before it records Applied.
LEMMA ApplyFollows ==
    ASSUME EngineTypeOK, CallKnowsRecord, UndoCopiesAreNamed, FilesFollowRecord,
           CallFollowsFiles, ~Undoing, ~Undoing', Apply
    PROVE  /\ FilesFollowRecord' /\ CallFollowsFiles'
           /\ txn'.status = txn.status
              \/ (txn.status = "prepared" /\ txn'.status = "applying")
              \/ (txn.status = "applying" /\ txn'.status = "applied")
<1>1. call \in Calls /\ txn \in Records
  BY DEF EngineTypeOK
<1>2. ASSUME NEW g, GoTo(g)
      PROVE  call'.op = call.op /\ call'.at = "files" /\ call'.file = g /\ call'.moved = FALSE
  BY <1>1, <1>2 DEF GoTo, Calls
<1>3. \A g \in Files : ~(g < 1) /\ g < N + 1
  BY EngineAssumption DEF Files
<1>4. CASE ApplyBegins
  <2>1. call.op = "apply" /\ UNCHANGED <<target, backup, discard>>
    BY <1>4 DEF ApplyBegins, Running
  <2>2. CASE txn' = txn
    <3>1. FilesFollowRecord'
      BY <2>1, <2>2 DEF FilesFollowRecord, IsForward, IsBack
    <3>2. \/ call'.at = "failed" /\ call'.op = "apply"
          \/ call'.at = "ok" /\ call'.op = "apply" /\ txn.status = "applied"
          \/ call'.at = "files" /\ call'.op = "apply" /\ call'.file = 1 /\ call'.moved = FALSE
      BY <1>1, <1>2, <1>4, <2>1, CallFields DEF ApplyBegins
    <3>3. CallFollowsFiles'
      BY <1>3, <2>1, <2>2, <3>2 DEF CallFollowsFiles, Running
    <3> QED
      BY <2>2, <3>1, <3>3
  <2>3. CASE /\ txn.status = "prepared" /\ \A f \in Files : target[f] = txn.ops[f].original
             /\ Write("applying") /\ GoTo(1)
    <3>1. txn'.ops = txn.ops /\ txn'.status = "applying"
      BY <1>1, <2>3, StatusFields
    <3>2. \A f \in Files : /\ txn.ops[f].status = "pending"
                           /\ backup[f] = Absent /\ discard[f] = Absent
      BY <2>3 DEF UndoCopiesAreNamed, Settling, Left, FilesFollowRecord
    <3>3. \A f \in Files : IsForward(f)'
      BY <2>1, <2>3, <3>1, <3>2 DEF IsForward, Forward, Kept
    <3>4. FilesFollowRecord'
      BY <3>1, <3>3 DEF FilesFollowRecord
    <3>5. call'.at = "files" /\ call'.op = "apply" /\ call'.file = 1 /\ call'.moved = FALSE
      BY <1>2, <2>1, <2>3
    <3>6. CallFollowsFiles'
      BY <1>3, <3>5 DEF CallFollowsFiles, Running
    <3> QED
      BY <2>3, <3>1, <3>4, <3>6
  <2> QED
    BY <1>4, <2>2, <2>3 DEF ApplyBegins
<1>5. CASE ApplyEnds
  <2>1. Running("apply", "files") /\ call.file = N + 1 /\ Write("applied") /\ Return("ok")
        /\ UNCHANGED <<target, backup, discard>>
    BY <1>5 DEF ApplyEnds
  <2>2. txn'.ops = txn.ops /\ txn'.status = "applied" /\ txn.status = "applying"
        /\ call'.op = "apply" /\ call'.at = "ok"
    BY <1>1, <2>1, StatusFields, CallFields DEF CallKnowsRecord, Running
  <2>3. \A f \in Files : txn.ops[f].status = "applied"
    BY <1>3, <2>1 DEF CallFollowsFiles
  <2>4. \A f \in Files : IsForward(f)
    BY <2>2 DEF FilesFollowRecord
  <2>5. \A f \in Files : IsForward(f)'
    BY <2>1, <2>2, <2>4 DEF IsForward
  <2>6. FilesFollowRecord'
    BY <2>2, <2>3, <2>5 DEF FilesFollowRecord
  <2>7. CallFollowsFiles'
    BY <2>2 DEF CallFollowsFiles, Running
  <2> QED
    BY <2>2, <2>6, <2>7
<1>6. ASSUME NEW f \in Files,
             \/ ApplyVerify(f) \/ ApplyOmitted(f) \/ ApplyRecord(f) \/ ApplyBackUp(f)
             \/ ApplyBackedUp(f) \/ ApplyWrite(f) \/ ApplyWritten(f)
      PROVE  FilesFollowRecord' /\ CallFollowsFiles' /\ txn'.status = txn.status
  <2>1. txn.status = "applying"
    BY <1>6
    DEF ApplyVerify, ApplyOmitted, ApplyRecord, ApplyBackUp, ApplyBackedUp, ApplyWrite,
        ApplyWritten, Applying, CallKnowsRecord
  <2> QED
    BY <1>6, <2>1, ApplyFollowsFile
<1> QED
  BY <1>4, <1>5, <1>6 DEF Apply

\* Whatever an apply has done to a file, a rollback can take it back.
LEMMA RollbackFollowsFile ==
    ASSUME EngineTypeOK, FilesFollowRecord, CallFollowsFiles, Undoing, Undoing',
           txn.status \in {"applying", "applied"}, NEW f \in Files,
           \/ RollbackSkip(f) \/ RollbackReplace(f) \/ RollbackUntouched(f)
           \/ RollbackDiscard(f) \/ RollbackRecord(f)
    PROVE  FilesFollowRecord' /\ CallFollowsFiles' /\ txn'.status = txn.status
<1> DEFINE op == txn.ops[f]
<1>1. call \in Calls /\ txn \in Records
  BY DEF EngineTypeOK
<1>2. call.op = "rollback" /\ call.at = "files" /\ call.file = f
  BY DEF RollbackSkip, RollbackReplace, RollbackUntouched, RollbackDiscard, RollbackRecord,
         Undoable, RollingBack, Running
<1>3. IsForward(f) \/ IsBack(f)
  BY DEF FilesFollowRecord
<1>4. call.moved => IsBack(f)
  BY <1>2 DEF CallFollowsFiles, Running
<1>5. ASSUME NEW g, GoTo(g)
      PROVE  call'.op = "rollback" /\ call'.at = "files" /\ call'.moved = FALSE
  BY <1>1, <1>2, <1>5 DEF GoTo, Calls
<1>6. ASSUME Moved
      PROVE  call'.op = "rollback" /\ call'.at = "files" /\ call'.file = f
  BY <1>1, <1>2, <1>6 DEF Moved, Calls
<1>7. ASSUME /\ txn'.status = txn.status
             /\ \A g \in Files : g # f =>
                   /\ txn'.ops[g] = txn.ops[g] /\ target'[g] = target[g]
                   /\ backup'[g] = backup[g] /\ discard'[g] = discard[g]
             /\ \/ IsBack(f)' /\ (Moved \/ \E g : GoTo(g))
                \/ IsForward(f)' /\ \E g : GoTo(g)
      PROVE  FilesFollowRecord' /\ CallFollowsFiles' /\ txn'.status = txn.status
  <2>1. \A g \in Files : IsForward(g)' \/ (Undoing' /\ IsBack(g)')
    BY <1>7, OneFile
  <2>2. FilesFollowRecord'
    BY <1>7, <2>1 DEF FilesFollowRecord
  <2>3. /\ call'.op = "rollback" /\ call'.at = "files"
        /\ call'.moved => call'.file = f /\ IsBack(f)'
    BY <1>5, <1>6, <1>7
  <2>4. CallFollowsFiles'
    BY <2>3 DEF CallFollowsFiles, Running
  <2> QED
    BY <1>7, <2>2, <2>4
<1>8. CASE RollbackSkip(f)
  <2>1. UNCHANGED <<target, backup, discard, txn>> /\ GoTo(f - 1)
    BY <1>8 DEF RollbackSkip
  <2>2. IsForward(f)' \/ IsBack(f)'
    BY <1>3, <2>1 DEF IsForward, IsBack
  <2> QED
    BY <1>7, <2>1, <2>2
<1>9. CASE RollbackReplace(f)
  <2>1. UNCHANGED <<discard, txn>> /\ backup[f] # Absent
    BY <1>9 DEF RollbackReplace
  <2>2. backup[f] = op.original /\ discard[f] = Absent
    BY <1>3, <2>1 DEF IsForward, IsBack, Forward, Back, Kept, SetAside, Replaced
  <2>3. target' = [target EXCEPT ![f] = backup[f]] /\ backup' = [backup EXCEPT ![f] = Absent]
        /\ Moved
    BY <1>9, <2>2 DEF RollbackReplace
  <2>4. target'[f] = op.original /\ backup'[f] = Absent
    BY <2>2, <2>3 DEF EngineTypeOK
  <2>5. IsBack(f)'
    BY <2>1, <2>2, <2>4 DEF IsBack, Back, Kept
  <2> QED
    BY <1>7, <2>1, <2>3, <2>5 DEF EngineTypeOK
<1>10. CASE RollbackUntouched(f)
  <2>1. UNCHANGED <<target, backup, discard, txn>> /\ backup[f] = Absent /\ op.original # Absent
        /\ op.status \notin {"pending", "rolled_back"}
    BY <1>10 DEF RollbackUntouched, Undoable
  <2>2. IsBack(f)
    BY <1>3, <2>1 DEF IsForward, IsBack, Forward, Back, Kept, SetAside, Replaced
  <2>3. Moved
    BY <1>10, <2>2 DEF RollbackUntouched, IsBack, Back, Kept
  <2>4. IsBack(f)'
    BY <2>1, <2>2 DEF IsBack
  <2> QED
    BY <1>7, <2>1, <2>3, <2>4
<1>11. CASE RollbackDiscard(f)
  <2> DEFINE expected == IF op.status # "backed_up" THEN AppliedContent(op)
                         ELSE IF op.desired = Omitted THEN Absent ELSE op.desired
  <2>1. UNCHANGED <<backup, txn>> /\ backup[f] = Absent /\ op.original = Absent
        /\ op.status \notin {"pending", "rolled_back"}
    BY <1>11 DEF RollbackDiscard, Undoable
  <2>2. \/ target[f] = Absent /\ discard[f] = Absent /\ UNCHANGED <<target, discard>>
           /\ IF op.status = "applied" /\ expected # Absent THEN Return("failed") ELSE Moved
        \/ target[f] = Absent /\ discard[f] # Absent /\ UNCHANGED <<target, discard>>
           /\ IF discard[f] = expected THEN Moved ELSE Return("failed")
        \/ target[f] # Absent
           /\ IF discard[f] = Absent /\ target[f] = expected
              THEN /\ discard' = [discard EXCEPT ![f] = target[f]]
                   /\ target' = [target EXCEPT ![f] = Absent]
                   /\ Moved
              ELSE Return("failed") /\ UNCHANGED <<target, discard>>
    BY <1>11 DEF RollbackDiscard
  <2>3. CASE target[f] = Absent /\ discard[f] = Absent
    <3>1. IsBack(f)
      BY <1>3, <2>1, <2>3 DEF IsForward, IsBack, Forward, Back, Kept, SetAside, Replaced
    <3>2. op.status = "applied" => expected = Absent
      BY <2>1, <2>3, <3>1 DEF IsBack, Back, AppliedContent
    <3>3. Moved /\ UNCHANGED <<target, discard>>
      BY <2>2, <2>3, <3>2
    <3>4. IsBack(f)'
      BY <2>1, <3>1, <3>3 DEF IsBack
    <3> QED
      BY <1>7, <2>1, <3>3, <3>4
  <2>4. CASE target[f] = Absent /\ discard[f] # Absent
    <3>1. IsBack(f) /\ discard[f] = expected
      BY <1>3, <2>1, <2>4 DEF IsForward, IsBack, Forward, Back, AppliedContent
    <3>2. Moved /\ UNCHANGED <<target, discard>>
      BY <2>2, <2>4, <3>1
    <3>3. IsBack(f)'
      BY <2>1, <3>1, <3>2 DEF IsBack
    <3> QED
      BY <1>7, <2>1, <3>2, <3>3
  <2>5. CASE target[f] # Absent
    <3>1. /\ discard[f] = Absent /\ op.status \in {"backed_up", "applied"}
          /\ op.desired # Omitted /\ target[f] = op.desired
      BY <1>3, <2>1, <2>5 DEF IsForward, IsBack, Forward, Back, Kept, SetAside, Replaced
    <3>2. expected = op.desired
      BY <3>1 DEF AppliedContent
    <3>3. /\ discard' = [discard EXCEPT ![f] = target[f]]
          /\ target' = [target EXCEPT ![f] = Absent]
          /\ Moved
      BY <2>2, <2>5, <3>1, <3>2
    <3>4. discard'[f] = op.desired /\ target'[f] = Absent
      BY <3>1, <3>3 DEF EngineTypeOK
    <3>5. IsBack(f)'
      BY <2>1, <3>1, <3>4 DEF IsBack, Back, Kept
    <3> QED
      BY <1>7, <2>1, <3>3, <3>5 DEF EngineTypeOK
  <2> QED
    BY <2>3, <2>4, <2>5
<1>12. CASE RollbackRecord(f)
  <2>1. UNCHANGED <<target, backup, discard>> /\ WriteOp(f, "rolled_back") /\ GoTo(f - 1)
        /\ call.moved
    BY <1>12 DEF RollbackRecord
  <2>2. IsBack(f)'
    BY <1>1, <1>4, <2>1, OneOperation DEF IsBack, Back, Kept
  <2> QED
    BY <1>1, <1>7, <2>1, <2>2, OneOperation
<1> QED
  BY <1>8, <1>9, <1>10, <1>11, <1>12

\* A rollback takes every file back, and never stops on the way.
LEMMA RollbackFollows ==
    ASSUME EngineTypeOK, CallKnowsRecord, FilesFollowRecord, CallFollowsFiles,
           Undoing, Undoing',
           txn.status \in {"prepared", "applying", "applied", "rolled_back"}, Rollback
    PROVE  /\ FilesFollowRecord' /\ CallFollowsFiles'
           /\ txn'.status \in {txn.status, "rolled_back"}
<1>1. call \in Calls /\ txn \in Records
  BY DEF EngineTypeOK
<1>2. CASE RollbackBegins
  <2>1. call.op = "rollback" /\ UNCHANGED <<target, backup, discard>>
    BY <1>2 DEF RollbackBegins, Running
  <2>2. CASE UNCHANGED txn /\ \E g : GoTo(g)
    <3>1. call'.op = "rollback" /\ call'.at = "files" /\ call'.moved = FALSE
      BY <1>1, <2>1, <2>2 DEF GoTo, Calls
    <3>2. FilesFollowRecord'
      BY <2>1, <2>2 DEF FilesFollowRecord, IsForward, IsBack
    <3> QED
      BY <2>2, <3>1, <3>2 DEF CallFollowsFiles, Running
  <2>3. CASE UNCHANGED txn /\ CleanUp
    <3>1. call'.op = "rollback" /\ call'.at = "cleanup"
      BY <1>1, <2>1, <2>3, CallFields
    <3>2. FilesFollowRecord'
      BY <2>1, <2>3 DEF FilesFollowRecord, IsForward, IsBack
    <3> QED
      BY <2>3, <3>1, <3>2 DEF CallFollowsFiles, Running
  <2>4. CASE txn.status = "prepared" /\ txn' = Abandoned /\ Return("ok")
    <3>1. txn'.ops = txn.ops /\ txn'.status = "rolled_back"
      BY <1>1, <2>4, StatusFields
    <3>2. FilesFollowRecord'
      BY <2>1, <2>4, <3>1 DEF FilesFollowRecord
    <3>3. call'.op = "rollback" /\ call'.at = "ok"
      BY <1>1, <2>1, <2>4, CallFields
    <3> QED
      BY <3>1, <3>2, <3>3 DEF CallFollowsFiles, Running
  <2> QED
    BY <1>2, <2>2, <2>3, <2>4 DEF RollbackBegins
<1>3. CASE RollbackFiles
  <2>1. UNCHANGED <<target, backup, discard, txn>> /\ CleanUp /\ call.op = "rollback"
    BY <1>3 DEF RollbackFiles, Running
  <2>2. call'.op = "rollback" /\ call'.at = "cleanup"
    BY <1>1, <2>1, CallFields
  <2>3. FilesFollowRecord'
    BY <2>1 DEF FilesFollowRecord, IsForward, IsBack
  <2> QED
    BY <2>1, <2>2, <2>3 DEF CallFollowsFiles, Running
<1>4. ASSUME NEW f \in Files,
             \/ RollbackSkip(f) \/ RollbackReplace(f) \/ RollbackUntouched(f)
             \/ RollbackDiscard(f) \/ RollbackRecord(f)
      PROVE  FilesFollowRecord' /\ CallFollowsFiles' /\ txn'.status = txn.status
  <2>1. txn.status \in {"applying", "applied"}
    BY <1>4
    DEF RollbackSkip, RollbackReplace, RollbackUntouched, RollbackDiscard, RollbackRecord,
        Undoable, RollingBack, CallKnowsRecord, Running
  <2> QED
    BY <1>4, <2>1, RollbackFollowsFile
<1> QED
  BY <1>2, <1>3, <1>4 DEF Rollback

\* Undo copies go, and the record ends, when all files are where they belong.
LEMMA CleanupFollows ==
    ASSUME EngineTypeOK, UndoCopiesAreNamed, CopiesFollowRecord, FilesFollowRecord,
           CallFollowsFiles,
           \/ call.op = "rollback" /\ Undoing /\ Undoing'
              /\ txn.status \in {"prepared", "applying", "applied", "rolled_back"}
           \/ call.op = "commit",
           RemoveUndoCopy \/ UndoCopiesRemoved
    PROVE  /\ FilesFollowRecord' /\ CallFollowsFiles'
           /\ txn'.status = txn.status
              \/ (call.op = "rollback" /\ txn'.status = "rolled_back")
              \/ (call.op = "commit" /\ txn'.status = "committed")
<1>1. call \in Calls /\ txn \in Records /\ call.at = "cleanup"
  BY DEF EngineTypeOK, RemoveUndoCopy, UndoCopiesRemoved
<1>2. call.op = "commit" => txn.status \in {"committing", "committed"}
  BY <1>1 DEF CallFollowsFiles, Running
<1>3. ASSUME call.op = "rollback", NEW f \in Files
      PROVE  target[f] = txn.ops[f].original
             /\ (txn.status \in {"applying", "applied"} => IsBack(f) /\ Untouched(f))
  <2>1. CASE txn.status \in {"prepared", "rolled_back"}
    BY <1>3, <2>1 DEF FilesFollowRecord
  <2>2. CASE txn.status \in {"applying", "applied"}
    <3>1. Untouched(f)
      BY <1>1, <1>3, <2>2 DEF CopiesFollowRecord, Settling, Terminal
    <3>2. IsForward(f) \/ IsBack(f)
      BY <2>2 DEF FilesFollowRecord
    <3>3. IsBack(f)
      BY <3>1, <3>2 DEF Untouched, IsForward, IsBack, Forward, Back
    <3> QED
      BY <3>1, <3>3 DEF IsBack, Back, Kept
  <2> QED
    BY <1>3, <2>1, <2>2
<1>4. CASE RemoveUndoCopy
  <2>1. ~Settling /\ UNCHANGED <<target, txn, call>>
        /\ \A g \in Files : backup'[g] \in {backup[g], Absent}
    BY <1>4 DEF RemoveUndoCopy, UndoCopiesAreNamed, EngineTypeOK
  <2>2. CASE call.op = "rollback"
    <3>1. txn.status \in {"applying", "applied"}
      BY <2>1, <2>2 DEF Settling, Terminal
    <3>2. ASSUME NEW f \in Files PROVE IsBack(f)'
      <4>1. IsBack(f) /\ txn.ops[f].status \in {"pending", "rolled_back"}
        BY <1>3, <2>2, <3>1 DEF Untouched
      <4>2. backup'[f] = Absent
        BY <2>1, <4>1 DEF IsBack, Back, Kept
      <4> QED
        BY <2>1, <4>1, <4>2 DEF IsBack, Back, Kept
    <3>3. FilesFollowRecord'
      BY <2>1, <2>2, <3>1, <3>2 DEF FilesFollowRecord
    <3> QED
      BY <1>1, <2>1, <2>2, <3>3 DEF CallFollowsFiles, Running
  <2>3. CASE call.op = "commit"
    BY <1>1, <1>2, <2>1, <2>3 DEF FilesFollowRecord, CallFollowsFiles, Running
  <2> QED
    BY <2>2, <2>3
<1>5. CASE UndoCopiesRemoved
  <2>1. UNCHANGED target /\ call'.op = call.op /\ call'.at = "ok"
    BY <1>1, <1>5, CallFields DEF UndoCopiesRemoved
  <2>2. CASE call.op = "rollback"
    <3>1. txn'.ops = txn.ops /\ txn'.status = "rolled_back"
      BY <1>1, <1>5, <2>2, StatusFields DEF UndoCopiesRemoved
    <3>2. FilesFollowRecord'
      BY <1>3, <2>1, <2>2, <3>1 DEF FilesFollowRecord
    <3> QED
      BY <2>1, <2>2, <3>1, <3>2 DEF CallFollowsFiles, Running
  <2>3. CASE call.op = "commit"
    <3>1. txn'.ops = txn.ops /\ txn'.status = "committed"
      BY <1>1, <1>5, <2>3, StatusFields, RecordFields DEF UndoCopiesRemoved
    <3>2. FilesFollowRecord'
      BY <1>2, <2>1, <2>3, <3>1 DEF FilesFollowRecord
    <3> QED
      BY <2>1, <2>3, <3>1, <3>2 DEF CallFollowsFiles, Running
  <2> QED
    BY <2>2, <2>3
<1> QED
  BY <1>4, <1>5

\* The invariant on files, record and decision.
FilesAgree == FilesFollowRecord /\ CallFollowsFiles /\ RecordFollowsDecision

\* Every step of a call leaves files and record on the side of the journal.
LEMMA CallFollows ==
    ASSUME TypeOK, ProtocolIsConsistent, CopiesFollowRecord, OwnerFollowsJournal, FilesAgree,
           CallRuns
    PROVE  FilesAgree'
<1>1. call \in Calls /\ txn \in Records /\ EngineTypeOK /\ CallKnowsRecord /\ UndoCopiesAreNamed
      /\ FilesFollowRecord /\ CallFollowsFiles
  BY DEF TypeOK, EngineTypeOK, ProtocolIsConsistent, FilesAgree
<1>2. /\ UNCHANGED <<owner, journal, intent, decided>> /\ EngineStep
      /\ owner.at \in EngineSteps /\ call.op = owner.at /\ intent.content
  BY DEF CallRuns, outer, ProtocolIsConsistent, CallIsOwned, OwnerFollowsJournal
<1>3. Undoing = (owner.at = "rollback") /\ Undoing' = Undoing
  BY <1>2 DEF Undoing, Stands, ProtocolIsConsistent, CallIsOwned, Alive, EngineSteps
<1>4. txn.status \in IF decided THEN {"applied", "committing", "committed"}
                     ELSE {"prepared", "applying", "applied", "rolled_back"}
  BY <1>2 DEF FilesAgree, RecordFollowsDecision
<1>5. owner.at \in {"apply", "mark", "rollback"} => ~decided
  BY DEF ProtocolIsConsistent, OwnerKnowsDecision
<1>6. owner.at = "commit" => decided
  BY DEF CopiesFollowRecord
<1>7. CASE Apply
  <2>1. call.op = "apply"
    BY <1>7 DEF Apply, ApplyBegins, ApplyEnds, ApplyVerify, ApplyOmitted, ApplyRecord, ApplyBackUp,
         ApplyBackedUp, ApplyWrite, ApplyWritten, Applying, Running
  <2>2. /\ FilesFollowRecord' /\ CallFollowsFiles'
        /\ txn'.status = txn.status
           \/ (txn.status = "prepared" /\ txn'.status = "applying")
           \/ (txn.status = "applying" /\ txn'.status = "applied")
    BY <1>1, <1>2, <1>3, <1>7, <2>1, ApplyFollows
  <2>3. RecordFollowsDecision'
    BY <1>2, <1>4, <1>5, <2>1, <2>2 DEF RecordFollowsDecision, Stands
  <2> QED
    BY <2>2, <2>3 DEF FilesAgree
<1>8. CASE Rollback
  <2>1. call.op = "rollback"
    BY <1>8 DEF Rollback, RollbackBegins, RollbackFiles, RollbackSkip, RollbackReplace,
           RollbackUntouched, RollbackDiscard, RollbackRecord, Undoable, RollingBack, Running
  <2>2. Undoing /\ Undoing' /\ ~decided
    BY <1>2, <1>3, <1>5, <2>1
  <2>3. txn.status \in {"prepared", "applying", "applied", "rolled_back"}
    BY <1>4, <2>2
  <2>4. /\ FilesFollowRecord' /\ CallFollowsFiles'
        /\ txn'.status \in {txn.status, "rolled_back"}
    BY <1>1, <1>8, <2>2, <2>3, RollbackFollows
  <2>5. RecordFollowsDecision'
    BY <1>2, <2>1, <2>2, <2>3, <2>4 DEF RecordFollowsDecision, Stands
  <2> QED
    BY <2>4, <2>5 DEF FilesAgree
<1>9. CASE CommitBegins
  <2>1. call.op = "commit" /\ UNCHANGED <<target, backup, discard>> /\ decided /\ ~Undoing
    BY <1>2, <1>3, <1>6, <1>9 DEF CommitBegins, Running
  <2>2. CASE UNCHANGED txn
    <3>1. ~(txn.status = "applied" /\ Write("committing"))
      BY <1>1, <2>2, RecordFields
    <3>2. /\ call'.op = "commit"
          /\ \/ call'.at = "failed"
             \/ call'.at = "cleanup" /\ txn.status \in {"committing", "committed"}
      BY <1>1, <1>9, <2>1, <3>1, CallFields DEF CommitBegins
    <3>3. FilesFollowRecord'
      BY <1>1, <1>3, <2>1, <2>2 DEF FilesFollowRecord, IsForward, IsBack
    <3>4. CallFollowsFiles'
      BY <2>2, <3>2 DEF CallFollowsFiles, Running
    <3>5. RecordFollowsDecision'
      BY <1>2, <2>2 DEF FilesAgree, RecordFollowsDecision, Stands
    <3> QED
      BY <3>3, <3>4, <3>5 DEF FilesAgree
  <2>3. CASE txn.status = "applied" /\ Write("committing") /\ CleanUp
    <3>1. txn'.ops = txn.ops /\ txn'.status = "committing"
          /\ call'.op = "commit" /\ call'.at = "cleanup"
      BY <1>1, <2>1, <2>3, StatusFields, CallFields
    <3>2. ASSUME NEW f \in Files PROVE target[f] = Restored(txn.ops[f])
      <4>1. IsForward(f) /\ txn.ops[f].status = "applied"
        BY <1>1, <2>1, <2>3 DEF FilesFollowRecord
      <4> QED
        BY <4>1 DEF IsForward, Forward, Kept, Replaced, Restored
    <3>3. FilesFollowRecord'
      BY <2>1, <3>1, <3>2 DEF FilesFollowRecord
    <3>4. CallFollowsFiles'
      BY <3>1 DEF CallFollowsFiles, Running
    <3>5. RecordFollowsDecision'
      BY <1>2, <2>1, <3>1 DEF RecordFollowsDecision, Stands
    <3> QED
      BY <3>3, <3>4, <3>5 DEF FilesAgree
  <2> QED
    BY <1>9, <2>2, <2>3 DEF CommitBegins
<1>10. CASE MarkMaterialized
  <2>1. call.op = "mark" /\ call'.op = "mark" /\ UNCHANGED <<target, backup, discard>>
        /\ txn'.ops = txn.ops /\ txn'.status = txn.status
    BY <1>1, <1>10, CallFields, StatusFields DEF MarkMaterialized, Running
  <2>2. FilesFollowRecord'
    BY <1>1, <1>3, <2>1 DEF FilesFollowRecord, IsForward, IsBack
  <2>3. CallFollowsFiles'
    BY <2>1 DEF CallFollowsFiles, Running
  <2>4. RecordFollowsDecision'
    BY <1>2, <2>1 DEF FilesAgree, RecordFollowsDecision, Stands
  <2> QED
    BY <2>2, <2>3, <2>4 DEF FilesAgree
<1>11. CASE RemoveUndoCopy \/ UndoCopiesRemoved
  <2>1. call.at = "cleanup" /\ call.op \in {"commit", "rollback"}
    BY <1>11 DEF RemoveUndoCopy, UndoCopiesRemoved, CopiesFollowRecord
  <2>2. call.op = "rollback" => Undoing /\ Undoing' /\ ~decided
    BY <1>2, <1>3, <1>5
  <2>3. /\ FilesFollowRecord' /\ CallFollowsFiles'
        /\ txn'.status = txn.status
           \/ (call.op = "rollback" /\ txn'.status = "rolled_back")
           \/ (call.op = "commit" /\ txn'.status = "committed")
    BY <1>1, <1>4, <1>11, <2>1, <2>2, CleanupFollows
  <2>4. RecordFollowsDecision'
    BY <1>2, <1>4, <1>6, <2>1, <2>2, <2>3 DEF RecordFollowsDecision, Stands
  <2> QED
    BY <2>3, <2>4 DEF FilesAgree
<1> QED
  BY <1>2, <1>7, <1>8, <1>9, <1>10, <1>11 DEF EngineStep

\* Steps outside a call touch neither files nor record.
LEMMA OthersFollow ==
    ASSUME FilesFollowRecord, CallFollowsFiles, UNCHANGED <<target, backup, discard, txn>>,
           txn.status \in {"applying", "applied"} /\ Undoing => Undoing',
           \/ call' = call \/ call' = Quiescent \/ call'.at = "entry"
           \/ call'.at = "failed" /\ call'.op # "rollback"
    PROVE  FilesFollowRecord' /\ CallFollowsFiles'
<1>1. Quiescent.op = "none"
  BY DEF Quiescent
<1>2. FilesFollowRecord'
  BY DEF FilesFollowRecord, IsForward, IsBack
<1>3. CASE call' = call
  BY <1>2, <1>3 DEF CallFollowsFiles, Running, IsBack
<1>4. CASE call' = Quiescent
  <2>1. call'.op = "none"
    BY <1>1, <1>4
  <2> QED
    BY <1>2, <2>1 DEF CallFollowsFiles, Running
<1>5. CASE call'.at = "entry" \/ (call'.at = "failed" /\ call'.op # "rollback")
  BY <1>2, <1>5 DEF CallFollowsFiles, Running
<1> QED
  BY <1>2, <1>3, <1>4, <1>5

\* Where a restore has the record Applied.
AppliedSteps == {"materialize", "mark", "pointers", "profile", "agent", "decide"}

\* The record is where it was when the owner has moved on.
LEMMA RecordStillFollows ==
    ASSUME RecordFollowsDecision, UNCHANGED <<txn, intent>>,
           decided' = decided \/ (decided' /\ txn.status = "applied"),
           intent.content /\ owner'.kind = "restore" =>
              owner'.at # "begin"
              /\ (owner'.at \in AppliedSteps =>
                     txn.status = "applied" \/ (owner.kind = "restore" /\ owner.at \in AppliedSteps))
    PROVE  RecordFollowsDecision'
BY DEF RecordFollowsDecision, AppliedSteps, Stands

\* A new restore begins with a record of what is there; other requests find one.
LEMMA RequestFollows ==
    ASSUME TypeOK, ProtocolIsConsistent, FilesAgree, Request
    PROVE  FilesAgree'
<1>1. call \in Calls /\ owner \in Owners /\ FilesFollowRecord /\ CallFollowsFiles
      /\ RecordFollowsDecision
  BY DEF TypeOK, EngineTypeOK, FilesAgree
<1>2. owner = [kind |-> "idle", at |-> "none", failed |-> FALSE]
  BY <1>1, OwnerFields
  DEF Request, RequestRestore, RequestRetry, RequestAbort, RequestSettle, Free
<1>3. ~Undoing
  BY <1>2 DEF Undoing, Alive, Stands
<1>4. ASSUME NEW release \in Releases, NEW to \in Profiles, NEW content \in BOOLEAN, NEW changes,
             RequestRestore(release, to, content, changes)
      PROVE  FilesAgree'
  <2>1. owner' = [kind |-> "restore", at |-> "begin", failed |-> FALSE]
        /\ intent'.content = content /\ ~decided'
    BY <1>1, <1>4, OwnerFields DEF RequestRestore
  <2>2. CASE content
    <3>1. /\ txn'.status = "prepared" /\ UNCHANGED <<target, backup, discard>>
          /\ \A f \in Files : txn'.ops[f].original = target[f] /\ txn'.ops[f].status = "pending"
          /\ call' = Quiescent
      BY <1>4, <2>2 DEF RequestRestore, Prepare
    <3>2. FilesFollowRecord'
      BY <3>1 DEF FilesFollowRecord
    <3>3. call'.op = "none"
      BY <3>1 DEF Quiescent
    <3>4. CallFollowsFiles'
      BY <3>3 DEF CallFollowsFiles, Running
    <3>5. RecordFollowsDecision'
      BY <2>1, <3>1 DEF RecordFollowsDecision, Stands
    <3> QED
      BY <3>2, <3>4, <3>5 DEF FilesAgree
  <2>3. CASE ~content
    <3>1. UNCHANGED <<target, backup, discard, txn, call>>
      BY <1>4, <2>3 DEF RequestRestore, engine
    <3>2. FilesFollowRecord' /\ CallFollowsFiles'
      BY <1>1, <1>3, <3>1, OthersFollow
    <3>3. RecordFollowsDecision'
      BY <2>1, <2>3 DEF RecordFollowsDecision
    <3> QED
      BY <3>2, <3>3 DEF FilesAgree
  <2> QED
    BY <2>2, <2>3
<1>5. CASE RequestRetry \/ RequestAbort \/ RequestSettle
  <2>1. UNCHANGED <<target, backup, discard, txn, intent, decided>>
    BY <1>5 DEF RequestRetry, RequestAbort, RequestSettle, engine
  <2>2. call' = call \/ call'.at = "entry"
    BY <1>1, <1>5, CallFields DEF RequestRetry, RequestAbort, RequestSettle, engine
  <2>3. \/ owner'.kind = "restore" /\ owner'.at \in {"apply", "commit"}
        \/ owner'.kind # "restore"
    BY <1>1, <1>5, OwnerFields DEF RequestRetry, RequestAbort, RequestSettle
  <2>4. FilesFollowRecord' /\ CallFollowsFiles'
    BY <1>1, <1>3, <2>1, <2>2, OthersFollow
  <2>5. RecordFollowsDecision'
    BY <1>1, <2>1, <2>3, RecordStillFollows DEF AppliedSteps
  <2> QED
    BY <2>4, <2>5 DEF FilesAgree
<1> QED
  BY <1>4, <1>5 DEF Request

\* So do the owner's other steps, recovery, and the failures that are admitted.
LEMMA OwnerFollows ==
    ASSUME TypeOK, ProtocolIsConsistent, OwnerFollowsJournal, FilesAgree,
           Owner, ~CallRuns
    PROVE  FilesAgree'
<1>1. call \in Calls /\ owner \in Owners /\ FilesFollowRecord /\ CallFollowsFiles
      /\ RecordFollowsDecision
  BY DEF TypeOK, EngineTypeOK, FilesAgree
<1>2. UNCHANGED <<target, backup, discard, txn, intent>>
  BY DEF Owner, JournalBegins, CallReturns, CallFailed, Materialize, WritePointers, WriteProfile,
         WriteAgent, Decide, JournalClears, engine
<1>3. Undoing => owner.at = "rollback"
  BY DEF Undoing, Stands, Alive, ProtocolIsConsistent, CallIsOwned, Owner, JournalBegins,
         CallReturns, CallFailed, Materialize, WritePointers, WriteProfile, WriteAgent, Decide,
         JournalClears, EngineSteps
<1>4. CASE CallReturns \/ CallFailed
  <2>1. /\ call' = Quiescent /\ decided' = decided
        /\ owner.at \in EngineSteps /\ call.op = owner.at
        /\ call.at = IF CallReturns THEN "ok" ELSE "failed"
    BY <1>4 DEF CallReturns, CallFailed, ProtocolIsConsistent, CallIsOwned
  <2>2. owner.at = "rollback" => txn.status = "rolled_back"
    <3>1. ~Running("rollback", "failed") /\ (Running("rollback", "ok") => txn.status = "rolled_back")
      BY DEF ProtocolIsConsistent, CallKnowsRecord, FilesAgree, CallFollowsFiles
    <3> QED
      BY <2>1, <3>1 DEF Running
  <2>3. FilesFollowRecord' /\ CallFollowsFiles'
    BY <1>1, <1>2, <1>3, <2>1, <2>2, OthersFollow
  <2>4. CASE CallReturns
    <3>1. /\ owner.at = "apply" => Goes(IF txn.materialize THEN "materialize" ELSE "pointers")
          /\ owner.at = "mark" => Goes("pointers")
          /\ owner.at = "commit" => Goes("clear")
          /\ owner.at = "rollback" =>
                IF owner.kind = "unprepare" THEN Done ELSE Goes("pointers")
      BY <2>4 DEF CallReturns, Stands
    <3>2. owner.at = "apply" => txn.status = "applied"
      BY <2>1, <2>4 DEF FilesAgree, CallFollowsFiles, Running
    <3>3. owner'.kind = "restore" => owner.kind = "restore" /\ owner.at # "rollback"
      BY <1>1, <2>1, <3>1, OwnerFields DEF EngineSteps, OwnerFollowsJournal
    <3>4. owner'.at # "begin" /\ (owner.at = "commit" => owner'.at = "clear")
      BY <1>1, <2>1, <3>1, OwnerFields DEF EngineSteps
    <3>5. RecordFollowsDecision'
      BY <1>1, <1>2, <2>1, <3>2, <3>3, <3>4, RecordStillFollows DEF AppliedSteps, EngineSteps
    <3> QED
      BY <2>3, <3>5 DEF FilesAgree
  <2>5. CASE CallFailed
    <3>1. owner'.kind # "restore"
      BY <1>1, <2>5, OwnerFields DEF CallFailed, FailsTo
    <3>2. RecordFollowsDecision'
      BY <1>1, <1>2, <2>1, <3>1, RecordStillFollows
    <3> QED
      BY <2>3, <3>2 DEF FilesAgree
  <2> QED
    BY <1>4, <2>4, <2>5
<1>5. CASE \/ JournalBegins \/ Materialize \/ WritePointers \/ WriteProfile \/ WriteAgent
           \/ Decide \/ JournalClears
  <2>1. owner.at \notin EngineSteps
    BY <1>5 DEF JournalBegins, Materialize, WritePointers, WriteProfile, WriteAgent, Decide,
                JournalClears, Stands, EngineSteps
  <2>2. call' = call \/ call'.at = "entry"
    BY <1>1, <1>5, CallFields DEF JournalBegins, Materialize, WritePointers, WriteProfile,
                WriteAgent, Decide, JournalClears, engine
  <2>3. FilesFollowRecord' /\ CallFollowsFiles'
    BY <1>1, <1>2, <1>3, <2>1, <2>2, OthersFollow DEF EngineSteps
  <2>4. \/ decided' = decided
        \/ decided' /\ (intent.content => txn.status = "applied")
    BY <1>5 DEF JournalBegins, Materialize, WritePointers, WriteProfile, WriteAgent, Decide,
                JournalClears, Stands, ProtocolIsConsistent, CallIsOwned, FilesAgree,
                RecordFollowsDecision
  <2>5. intent.content /\ owner'.kind = "restore" =>
           owner'.at # "begin"
           /\ (owner'.at \in AppliedSteps => owner.kind = "restore" /\ owner.at \in AppliedSteps)
    <3>1. CASE JournalBegins
      BY <1>1, <3>1, OwnerFields DEF JournalBegins, AppliedSteps
    <3>2. CASE Materialize \/ WritePointers \/ WriteProfile
      BY <1>1, <3>2, OwnerFields DEF Materialize, WritePointers, WriteProfile, Stands, AppliedSteps
    <3>3. CASE WriteAgent
      BY <1>1, <3>3, OwnerFields DEF WriteAgent, AfterSelection, Stands, AppliedSteps
    <3>4. CASE Decide \/ JournalClears
      BY <1>1, <3>4, OwnerFields DEF Decide, JournalClears, AppliedSteps
    <3> QED
      BY <1>5, <3>1, <3>2, <3>3, <3>4
  <2>6. RecordFollowsDecision'
    <3>1. CASE intent.content
      BY <1>1, <1>2, <2>4, <2>5, <3>1, RecordStillFollows
    <3>2. CASE ~intent.content
      BY <1>2, <3>2 DEF RecordFollowsDecision
    <3> QED
      BY <3>1, <3>2 DEF TypeOK
  <2> QED
    BY <2>3, <2>6 DEF FilesAgree
<1> QED
  BY <1>4, <1>5 DEF Owner

\* Failures that are admitted, deaths and recovery leave files and record alone.
LEMMA FailureFollows ==
    ASSUME TypeOK, ProtocolIsConsistent, OwnerFollowsJournal, FilesAgree, Undisturbed,
           Boot \/ Failure
    PROVE  FilesAgree'
<1>1. call \in Calls /\ owner \in Owners /\ FilesFollowRecord /\ CallFollowsFiles
      /\ RecordFollowsDecision
  BY DEF TypeOK, EngineTypeOK, FilesAgree
<1>2. ~FileEdited /\ (CallBreaks => call.op # "rollback")
  BY DEF FileEdited, CallBreaks, Mishap, Undisturbed
<1>3. UNCHANGED <<target, backup, discard, txn, intent>>
  BY <1>2 DEF Boot, Failure, CallBreaks, CallFails, outer, SelectionBreaks, BeginBreaks,
         DecideBreaks, OwnerGivesUp, Crash, BootBreaks, engine
<1>4. txn.status \in {"applying", "applied"} => journal # "none" /\ intent.content
  BY DEF ProtocolIsConsistent, RecordIsJournaled, Settling, Terminal
<1>5. CASE CallBreaks
  <2>1. UNCHANGED <<owner, journal, decided>> /\ call'.at = "failed" /\ call'.op # "rollback"
    BY <1>1, <1>2, <1>5, CallFields DEF CallBreaks, CallFails, outer
  <2>2. Undoing' = Undoing
    BY <2>1 DEF Undoing, Stands, Alive
  <2>3. FilesFollowRecord' /\ CallFollowsFiles'
    BY <1>1, <1>3, <2>1, <2>2, OthersFollow
  <2>4. RecordFollowsDecision'
    BY <1>1, <1>3, <2>1 DEF RecordFollowsDecision, Stands
  <2> QED
    BY <2>3, <2>4 DEF FilesAgree
<1>6. CASE Crash
  <2>1. UNCHANGED <<journal, decided>> /\ call' = Quiescent
        /\ owner' = [kind |-> "dead", at |-> "none", failed |-> FALSE]
    BY <1>1, <1>6, OwnerFields DEF Crash
  <2>2. txn.status \in {"applying", "applied"} /\ Undoing => Undoing'
    <3>1. SUFFICES ASSUME txn.status \in {"applying", "applied"}, Undoing PROVE Undoing'
      OBVIOUS
    <3>2. owner.at = "rollback"
      BY <1>6, <3>1 DEF Crash, Undoing, Stands
    <3>3. ~decided
      BY <3>2 DEF ProtocolIsConsistent, OwnerKnowsDecision
    <3>4. journal = "prepared"
      BY <1>4, <3>1, <3>3 DEF ProtocolIsConsistent, OwnerKnowsDecision, TypeOK
    <3> QED
      BY <2>1, <3>4 DEF Undoing, Alive
  <2>3. FilesFollowRecord' /\ CallFollowsFiles'
    BY <1>1, <1>3, <2>1, <2>2, OthersFollow
  <2>4. RecordFollowsDecision'
    BY <1>1, <1>3, <2>1, RecordStillFollows
  <2> QED
    BY <2>3, <2>4 DEF FilesAgree
<1>7. CASE Boot
  <2>1. /\ UNCHANGED <<journal, decided>> /\ ~Alive /\ owner.at # "rollback"
        /\ call' = call \/ call'.at = "entry"
        /\ owner'.kind \in {"boot", "idle"}
    BY <1>1, <1>7, CallFields, OwnerFields
    DEF Boot, ProtocolIsConsistent, CallIsOwned
  <2>2. txn.status \in {"applying", "applied"} /\ Undoing => Undoing'
    <3>1. SUFFICES ASSUME txn.status \in {"applying", "applied"}, Undoing PROVE Undoing'
      OBVIOUS
    <3>2. journal = "prepared" /\ intent.content
      BY <1>4, <2>1, <3>1 DEF Undoing, Stands
    <3>3. owner'.at = "rollback"
      BY <1>1, <1>7, <3>2, OwnerFields DEF Boot
    <3> QED
      BY <3>3 DEF Undoing, Stands
  <2>3. FilesFollowRecord' /\ CallFollowsFiles'
    BY <1>1, <1>3, <2>1, <2>2, OthersFollow
  <2>4. RecordFollowsDecision'
    BY <1>1, <1>3, <2>1, RecordStillFollows
  <2> QED
    BY <2>3, <2>4 DEF FilesAgree
<1>8. CASE SelectionBreaks \/ BeginBreaks \/ DecideBreaks \/ OwnerGivesUp \/ BootBreaks
  <2>1. owner.at \in {"begin", "materialize", "pointers", "profile", "agent", "decide", "clear"}
    BY <1>8 DEF SelectionBreaks, BeginBreaks, DecideBreaks, OwnerGivesUp, BootBreaks, Stands
  <2>2. ~Undoing
    BY <2>1 DEF Undoing, Stands, ProtocolIsConsistent, CallIsOwned
  <2>3. call' = call \/ call'.at = "entry"
    BY <1>1, <1>8, CallFields
    DEF SelectionBreaks, BeginBreaks, DecideBreaks, OwnerGivesUp, BootBreaks, Undo, engine
  <2>4. owner'.kind # "restore"
    BY <1>1, <1>8, OwnerFields
    DEF SelectionBreaks, BeginBreaks, DecideBreaks, OwnerGivesUp, BootBreaks, Undo, FailsTo
  <2>5. \/ decided' = decided
        \/ decided' /\ (intent.content => txn.status = "applied")
    BY <1>8
    DEF SelectionBreaks, BeginBreaks, DecideBreaks, OwnerGivesUp, BootBreaks, Stands,
        ProtocolIsConsistent, CallIsOwned, FilesAgree, RecordFollowsDecision
  <2>6. FilesFollowRecord' /\ CallFollowsFiles'
    BY <1>1, <1>3, <2>2, <2>3, OthersFollow
  <2>7. RecordFollowsDecision'
    <3>1. CASE intent.content
      BY <1>1, <1>3, <2>4, <2>5, <3>1, RecordStillFollows
    <3>2. CASE ~intent.content
      BY <1>3, <3>2 DEF RecordFollowsDecision
    <3> QED
      BY <3>1, <3>2 DEF TypeOK
  <2> QED
    BY <2>6, <2>7 DEF FilesAgree
<1> QED
  BY <1>2, <1>5, <1>6, <1>7, <1>8 DEF Failure

\* The files are what record and journal say: applied from the beginning, undone from
\* the end, and wholly on the side that is decided once nobody works on them.
THEOREM FilesFollow == ASSUME Undisturbed PROVE Spec => []FilesAgree
<1>1. Init => FilesAgree
  <2> SUFFICES ASSUME Init PROVE FilesAgree
    OBVIOUS
  <2>1. txn.status = "none" /\ call.op = "none" /\ ~intent.content
    BY DEF Init, EngineInit, Quiescent
  <2> QED
    BY <2>1
    DEF FilesAgree, FilesFollowRecord, CallFollowsFiles, RecordFollowsDecision, Running
<1>2. /\ TypeOK /\ ProtocolIsConsistent /\ CopiesFollowRecord /\ OwnerFollowsJournal
      /\ FilesAgree /\ [Next]_vars
      => FilesAgree'
  <2> SUFFICES ASSUME TypeOK, ProtocolIsConsistent, CopiesFollowRecord, OwnerFollowsJournal,
                      FilesAgree, [Next]_vars
               PROVE  FilesAgree'
    OBVIOUS
  <2>1. CASE UNCHANGED vars
    <3>1. UNCHANGED <<target, backup, discard, txn, call, owner, journal, intent, decided>>
      BY <2>1 DEF vars, engine, outer
    <3>2. Undoing' = Undoing /\ FilesFollowRecord /\ CallFollowsFiles /\ RecordFollowsDecision
      BY <3>1 DEF Undoing, Stands, Alive, FilesAgree
    <3>3. FilesFollowRecord' /\ CallFollowsFiles'
      BY <3>1, <3>2, OthersFollow
    <3> QED
      BY <3>1, <3>2, <3>3 DEF FilesAgree, RecordFollowsDecision, Stands
  <2> QED
    BY <2>1, RequestFollows, CallFollows, OwnerFollows, FailureFollows DEF Next
<1> QED
  BY <1>1, <1>2, TypeCorrect, Consistent, CopiesKept, OwnersFollowJournal, PTL DEF Spec

\* The only state in which nobody works on a restore.
LEMMA SettledFiles ==
    ASSUME TypeOK, ProtocolIsConsistent, FilesAgree, journal = "none", intent.content
    PROVE  \A f \in Files : target[f] = FileOutcome(txn.ops[f])
<1>1. Settling
  BY DEF ProtocolIsConsistent, RecordIsJournaled
<1>2. CASE decided
  BY <1>1, <1>2 DEF FilesAgree, RecordFollowsDecision, FilesFollowRecord, Settling, Terminal,
      FileOutcome
<1>3. CASE ~decided
  BY <1>1, <1>3 DEF FilesAgree, RecordFollowsDecision, FilesFollowRecord, Settling, Terminal,
      FileOutcome
<1> QED
  BY <1>2, <1>3

\* However complete_content_checkpoint_restore, retry, abort, settlement, recovery,
\* failures and deaths follow one another: a restore that is settled has taken place
\* in every file, in the stored selection and in the Agent, or in none of them.
THEOREM RestoreIsAllOrNothing == ASSUME Undisturbed PROVE Spec => []AllOrNothing
<1>1. TypeOK /\ ProtocolIsConsistent /\ FilesAgree /\ NothingIsStale /\ SelectionFollowsOwner
      => AllOrNothing
  <2> SUFFICES ASSUME TypeOK, ProtocolIsConsistent, FilesAgree, NothingIsStale,
                      SelectionFollowsOwner, Settled
               PROVE  /\ intent.content =>
                            \A f \in Files : target[f] \in {FileOutcome(txn.ops[f]), Edited}
                      /\ Visible(pointers) = Visible(Outcome.pointers)
                      /\ profile = Outcome.profile
                      /\ selected = [profile |-> profile, release |-> pointers.current]
    BY DEF AllOrNothing
  <2>1. journal = "none" /\ owner = [kind |-> "idle", at |-> "none", failed |-> FALSE]
    BY OwnerFields DEF Settled, Free, TypeOK
  <2>2. intent.content => \A f \in Files : target[f] = FileOutcome(txn.ops[f])
    BY <2>1, SettledFiles
  <2>3. pointers = Outcome.pointers /\ profile = Outcome.profile
        /\ selected = [profile |-> profile, release |-> pointers.current]
    BY <2>1 DEF SelectionFollowsOwner, Alive
  <2> QED
    BY <2>2, <2>3
<1> QED
  BY <1>1, TypeCorrect, Consistent, FilesFollow, StoredIsShown, SelectionFollows, PTL

-------------------------------------------------------------------------------
(* The contract                                                            *)

\* Where every operation is to lead, and where it came from, is not written again.
SamePlan == \A f \in Files : /\ txn'.ops[f].original = txn.ops[f].original
                             /\ txn'.ops[f].desired = txn.ops[f].desired

\* No step of a call changes the plan.
LEMMA CallKeepsPlan ==
    ASSUME EngineTypeOK, EngineStep
    PROVE  SamePlan
<1>1. txn \in Records
  BY DEF EngineTypeOK
<1>2. CASE txn'.ops = txn.ops
  BY <1>2 DEF SamePlan
<1>3. ASSUME NEW f \in Files, NEW s, WriteOp(f, s)
      PROVE  SamePlan
  BY <1>1, <1>3, OneOperation DEF SamePlan
<1>4. CASE Apply
  BY <1>1, <1>2, <1>3, <1>4, StatusFields
  DEF Apply, ApplyBegins, ApplyEnds, ApplyVerify, ApplyOmitted, ApplyRecord, ApplyBackUp,
      ApplyBackedUp, ApplyWrite, ApplyWritten
<1>5. CASE Rollback
  BY <1>1, <1>2, <1>3, <1>5, StatusFields
  DEF Rollback, RollbackBegins, RollbackFiles, RollbackSkip, RollbackReplace,
      RollbackUntouched, RollbackDiscard, RollbackRecord
<1>6. CASE CommitBegins \/ MarkMaterialized \/ RemoveUndoCopy \/ UndoCopiesRemoved
  BY <1>1, <1>2, <1>6, StatusFields
  DEF CommitBegins, MarkMaterialized, RemoveUndoCopy, UndoCopiesRemoved
<1> QED
  BY <1>4, <1>5, <1>6 DEF EngineStep

\* What is seen and what is planned, in the contract's terms.
AllWorlds == [files: [Files -> Contents \cup {Absent}], pointers: Pairs, profile: Profiles]
WorldIsDecided == SeenWorld = World(FilesIf(decided), Outcome)
PlanIsWorld == World(FilesIf(TRUE), intent.target) \in AllWorlds

\* What the contract speaks of is well formed.
LEMMA WorldsTyped ==
    ASSUME TypeOK, NEW selection \in Selections
    PROVE  World(FilesIf(TRUE), selection) \in AllWorlds /\ World(target, selection) \in AllWorlds
<1>1. target \in [Files -> Contents \cup {Absent}] /\ txn.ops \in [Files -> Operations]
  BY DEF TypeOK, EngineTypeOK, Records
<1>2. ASSUME NEW f \in Files
      PROVE  Restored(txn.ops[f]) \in Contents \cup {Absent}
  <2>1. txn.ops[f] \in Operations
    BY <1>1
  <2>2. /\ txn.ops[f].original \in Contents \cup {Absent}
        /\ txn.ops[f].desired \in Contents \cup {Absent, Omitted}
    BY <2>1 DEF Operations
  <2> QED
    BY <2>2 DEF Restored
<1>3. FilesIf(TRUE) \in [Files -> Contents \cup {Absent}]
  BY <1>1, <1>2 DEF FilesIf
<1>4. selection.pointers \in Pairs /\ selection.profile \in Profiles
  BY DEF Selections
<1>5. Visible(selection.pointers) \in Pairs
  BY <1>4 DEF Visible, Pairs
<1> QED
  BY <1>1, <1>3, <1>4, <1>5 DEF World, AllWorlds

\* A reader who waits for the restore sees what the journal has decided.
LEMMA SeenIsDecided ==
    ASSUME TypeOK, ProtocolIsConsistent, FilesAgree, SelectionFollowsOwner
    PROVE  WorldIsDecided
<1>1. CASE UnderWay
  BY <1>1 DEF SeenWorld, WorldIsDecided
<1>2. CASE ~UnderWay
  <2>1. journal = "none"
    BY <1>2 DEF UnderWay
  <2>2. pointers = Outcome.pointers /\ profile = Outcome.profile
    BY <2>1 DEF SelectionFollowsOwner
  <2>3. target = FilesIf(decided)
    <3>1. CASE ~intent.content
      BY <3>1 DEF FilesIf
    <3>2. CASE intent.content
      <4>1. \A f \in Files : target[f] = FileOutcome(txn.ops[f])
        BY <2>1, <3>2, SettledFiles
      <4>2. target \in [Files -> Contents \cup {Absent}]
        BY DEF TypeOK, EngineTypeOK
      <4>3. target = [f \in Files |-> target[f]]
        BY <4>2
      <4>4. target = [f \in Files |-> FileOutcome(txn.ops[f])]
        BY <4>1, <4>3
      <4>5. FilesIf(decided) =
               [f \in Files |-> IF decided THEN Restored(txn.ops[f]) ELSE txn.ops[f].original]
        BY <3>2 DEF FilesIf
      <4> QED
        BY <4>4, <4>5 DEF FileOutcome
    <3> QED
      BY <3>1, <3>2 DEF TypeOK
  <2> QED
    BY <1>2, <2>2, <2>3 DEF SeenWorld, World, WorldIsDecided
<1> QED
  BY <1>1, <1>2

\* What the proof of the refinement knows of a state.
Agrees == /\ TypeOK /\ ProtocolIsConsistent /\ OwnerFollowsJournal /\ NothingIsStale
          /\ WorldIsDecided /\ PlanIsWorld

\* A request of a restore opens one, and what is seen stays.
LEMMA RequestOpens ==
    ASSUME Agrees, Agrees', NEW release \in Releases, NEW to \in Profiles,
           NEW content \in BOOLEAN, NEW changes, RequestRestore(release, to, content, changes)
    PROVE  Contract!Open
<1>1. owner \in Owners /\ owner = [kind |-> "idle", at |-> "none", failed |-> FALSE]
      /\ journal = "none"
  BY OwnerFields DEF Agrees, TypeOK, RequestRestore, Free
<1>2. /\ owner' = [kind |-> "restore", at |-> "begin", failed |-> FALSE] /\ decided' = FALSE
      /\ UNCHANGED <<target, verified, pointers, profile>> /\ intent'.content = content
      /\ intent'.previous = [pointers |-> pointers, profile |-> profile]
  BY <1>1, OwnerFields
  DEF RequestRestore, Prepare, engine, Agrees, NothingIsStale
<1>3. ~UnderWay /\ UnderWay'
  BY <1>1, <1>2 DEF UnderWay
<1>4. SeenWorld = World(target, [pointers |-> pointers, profile |-> profile])
  BY <1>3 DEF SeenWorld
<1>5. FilesIf(decided)' = target
  <2>1. CASE ~content
    BY <1>2, <2>1 DEF FilesIf
  <2>2. CASE content
    <3>1. \A f \in Files : txn'.ops[f].original = target[f]
      BY <1>2, <2>2 DEF RequestRestore, Prepare
    <3>2. target = [f \in Files |-> target[f]]
      BY DEF Agrees, TypeOK, EngineTypeOK
    <3>3. FilesIf(decided)' = [f \in Files |-> txn'.ops[f].original]
      BY <1>2, <2>2 DEF FilesIf
    <3> QED
      BY <3>1, <3>2, <3>3
  <2> QED
    BY <2>1, <2>2
<1>6. Outcome' = [pointers |-> pointers, profile |-> profile]
  BY <1>2 DEF Outcome
<1>7. SeenWorld' = World(target, [pointers |-> pointers, profile |-> profile])
  BY <1>2, <1>5, <1>6 DEF Agrees, WorldIsDecided, World, Visible
<1> QED
  BY <1>3, <1>4, <1>7 DEF Contract!Open, Agrees, PlanIsWorld, AllWorlds

\* The plan of a restore stays, and so do the evidence and the files no plan is about.
LEMMA PlanStays ==
    ASSUME UNCHANGED <<intent, verified>>, SamePlan,
           ~intent.content => target' = target
    PROVE  /\ FilesIf(TRUE)' = FilesIf(TRUE) /\ FilesIf(FALSE)' = FilesIf(FALSE)
           /\ World(FilesIf(TRUE), intent.target)' = World(FilesIf(TRUE), intent.target)
           /\ World(FilesIf(FALSE), intent.previous)' = World(FilesIf(FALSE), intent.previous)
<1>1. ASSUME NEW f \in Files
      PROVE  Restored(txn.ops[f])' = Restored(txn.ops[f])
  BY <1>1 DEF SamePlan, Restored
<1>2. FilesIf(TRUE)' = FilesIf(TRUE) /\ FilesIf(FALSE)' = FilesIf(FALSE)
  BY <1>1 DEF FilesIf, SamePlan
<1> QED
  BY <1>2 DEF World, Visible

\* A step that leaves the decision alone does not change what is seen.
LEMMA SeenStays ==
    ASSUME Agrees, Agrees', UNCHANGED <<intent, verified, decided>>, SamePlan,
           ~intent.content => target' = target
    PROVE  SeenWorld' = SeenWorld
           /\ World(FilesIf(TRUE), intent.target)' = World(FilesIf(TRUE), intent.target)
<1>1. SeenWorld = World(FilesIf(decided), Outcome) /\ SeenWorld' = World(FilesIf(decided), Outcome)'
  BY DEF Agrees, WorldIsDecided
<1>2. decided \in BOOLEAN
  BY DEF Agrees, TypeOK
<1>3. CASE decided = TRUE
  <2>1. SeenWorld = World(FilesIf(TRUE), intent.target)
        /\ SeenWorld' = World(FilesIf(TRUE), intent.target)'
    BY <1>1, <1>3 DEF Outcome, World, FilesIf, Visible
  <2> QED
    BY <2>1, PlanStays
<1>4. CASE decided = FALSE
  <2>1. SeenWorld = World(FilesIf(FALSE), intent.previous)
        /\ SeenWorld' = World(FilesIf(FALSE), intent.previous)'
    BY <1>1, <1>4 DEF Outcome, World, FilesIf, Visible
  <2> QED
    BY <2>1, PlanStays
<1> QED
  BY <1>2, <1>3, <1>4

\* The decision takes the restore as it was planned.
LEMMA DecisionTakes ==
    ASSUME Agrees, Agrees', UNCHANGED <<intent, verified, target, txn>>, decided' = TRUE,
           UnderWay, UnderWay'
    PROVE  Contract!Take
<1>1. SamePlan
  BY DEF SamePlan
<1>2. World(FilesIf(TRUE), intent.target)' = World(FilesIf(TRUE), intent.target)
  BY <1>1, PlanStays
<1>3. SeenWorld' = World(FilesIf(TRUE), intent.target)'
  BY DEF Agrees, WorldIsDecided, Outcome, World, FilesIf, Visible
<1>4. UnderWay' = UnderWay
  BY DEF UnderWay
<1> QED
  BY <1>2, <1>3, <1>4 DEF Contract!Take

\* The other steps are not seen, or close the restore.
LEMMA StepIsUnseen ==
    ASSUME Agrees, Agrees', UNCHANGED <<intent, verified, decided>>, SamePlan,
           ~intent.content => target' = target, UnderWay' => UnderWay
    PROVE  Contract!Close \/ UNCHANGED Contract!restore
<1>1. SeenWorld' = SeenWorld
      /\ World(FilesIf(TRUE), intent.target)' = World(FilesIf(TRUE), intent.target)
  BY SeenStays
<1>2. UnderWay' = UnderWay \/ (UnderWay /\ UnderWay' = FALSE)
  BY DEF UnderWay
<1> QED
  BY <1>1, <1>2 DEF Contract!Close, Contract!restore

\* Only a request puts a restore under way.
LEMMA OnlyRequestsOpen ==
    ASSUME TypeOK, ProtocolIsConsistent, OwnerFollowsJournal, Undisturbed,
           RequestRetry \/ RequestAbort \/ RequestSettle \/ Owner \/ Boot \/ Failure
    PROVE  UnderWay' => UnderWay
<1>1. owner \in Owners
  BY DEF TypeOK
<1>2. SUFFICES ASSUME ~UnderWay PROVE ~UnderWay'
  OBVIOUS
<1>3. journal = "none" /\ owner.kind \in {"idle", "dead"} /\ owner.at = "none"
  BY <1>2 DEF UnderWay, OwnerFollowsJournal
<1>4. Boot \/ Crash
  BY <1>3
  DEF RequestRetry, RequestAbort, RequestSettle, Owner, JournalBegins, CallRuns, CallReturns,
      CallFailed, Materialize, WritePointers, WriteProfile, WriteAgent, Decide, JournalClears,
      Failure, CallBreaks, SelectionBreaks, BeginBreaks, DecideBreaks, OwnerGivesUp, BootBreaks,
      FileEdited, Stands, EngineSteps
<1>5. journal' = "none" /\ owner'.kind \in {"idle", "dead"}
  BY <1>1, <1>3, <1>4, OwnerFields DEF Boot, Crash
<1> QED
  BY <1>5 DEF UnderWay

\* Every step of the protocol is a step of the contract, or cannot be seen.
LEMMA StepIsAtomic ==
    ASSUME Agrees, Agrees', Undisturbed, Next
    PROVE  [Contract!Next]_(Contract!restore)
<1>1. owner \in Owners /\ TypeOK /\ ProtocolIsConsistent /\ OwnerFollowsJournal /\ EngineTypeOK
  BY DEF Agrees, TypeOK
<1>2. ASSUME NEW release \in Releases, NEW to \in Profiles, NEW content \in BOOLEAN, NEW changes,
             RequestRestore(release, to, content, changes)
      PROVE  Contract!Open
  BY <1>2, RequestOpens
<1>3. CASE RequestRetry \/ RequestAbort \/ RequestSettle
  <2>1. UNCHANGED <<target, txn, intent, verified, decided>>
    BY <1>3 DEF RequestRetry, RequestAbort, RequestSettle, engine
  <2>2. SamePlan
    BY <2>1 DEF SamePlan
  <2> QED
    BY <1>1, <1>3, <2>1, <2>2, StepIsUnseen, OnlyRequestsOpen DEF Contract!Next
<1>4. CASE CallRuns
  <2>1. UNCHANGED <<intent, verified, decided>> /\ intent.content
    BY <1>1, <1>4 DEF CallRuns, outer, OwnerFollowsJournal
  <2>2. SamePlan
    BY <1>1, <1>4, CallKeepsPlan DEF CallRuns
  <2>3. UnderWay' => UnderWay
    BY <1>1, <1>4, OnlyRequestsOpen DEF Owner
  <2> QED
    BY <2>1, <2>2, <2>3, StepIsUnseen DEF Contract!Next
<1>5. CASE /\ UNCHANGED <<target, txn, intent, verified, decided>>
           /\ Owner \/ Boot \/ Failure
  <2>1. SamePlan
    BY <1>5 DEF SamePlan
  <2>2. UnderWay' => UnderWay
    BY <1>1, <1>5, OnlyRequestsOpen
  <2> QED
    BY <1>5, <2>1, <2>2, StepIsUnseen DEF Contract!Next
<1>6. CASE Decide \/ (DecideBreaks /\ decided' # decided)
  <2>1. UNCHANGED <<target, txn, intent, verified>> /\ decided' = TRUE /\ journal' = "committed"
        /\ Stands("decide")
    BY <1>6 DEF Decide, DecideBreaks
  <2>2. UnderWay /\ UnderWay'
    BY <1>1, <2>1 DEF UnderWay, Stands, ProtocolIsConsistent, CallIsOwned
  <2>3. Contract!Take
    BY <2>1, <2>2, DecisionTakes
  <2> QED
    BY <2>3 DEF Contract!Next
<1>7. CASE /\ (Owner /\ ~CallRuns /\ ~Decide) \/ Boot \/ Failure
           /\ ~(DecideBreaks /\ decided' # decided)
  <2>1. ~FileEdited
    BY DEF FileEdited, Mishap, Undisturbed
  <2>2. CASE (Owner /\ ~CallRuns /\ ~Decide) \/ Boot
    <3>1. UNCHANGED <<target, txn, intent, verified, decided>>
      BY <2>2
      DEF Owner, JournalBegins, CallReturns, CallFailed, Materialize, WritePointers, WriteProfile,
          WriteAgent, JournalClears, Boot, engine
    <3> QED
      BY <1>5, <2>2, <3>1
  <2>3. CASE Failure /\ ~DecideBreaks
    <3>1. UNCHANGED <<target, txn, intent, verified, decided>>
      BY <2>1, <2>3
      DEF Failure, CallBreaks, CallFails, outer, SelectionBreaks, BeginBreaks, OwnerGivesUp, Crash,
          BootBreaks, engine
    <3> QED
      BY <1>5, <2>3, <3>1
  <2>4. CASE DecideBreaks /\ decided' = decided
    <3>1. UNCHANGED <<target, txn, intent, verified, decided>>
      BY <2>4 DEF DecideBreaks
    <3> QED
      BY <1>5, <2>4, <3>1 DEF Failure
  <2> QED
    BY <1>7, <2>2, <2>3, <2>4
<1> QED
  BY <1>2, <1>3, <1>4, <1>6, <1>7 DEF Next, Request, Contract!Next, Contract!restore

\* The protocol implements the contract, but for its liveness: whoever waits until a
\* restore is settled sees the files, the pointers and the profile replaced in one step
\* (mark_checkpoint_committed), or not at all, whichever failures and deaths of the Agent
\* come between.
THEOREM RestoreIsAtomic == ASSUME Undisturbed PROVE Spec => ReplacesInOneStep
<1>1. Init => Contract!Init
  <2> SUFFICES ASSUME Init PROVE Contract!Init
    OBVIOUS
  <2>1. TypeOK
    BY InitTyped
  <2>2. ~UnderWay /\ UnderWay = FALSE
    BY DEF Init, Nobody, At, UnderWay
  <2>3. SeenWorld = World(target, [pointers |-> pointers, profile |-> profile])
    BY <2>2 DEF SeenWorld
  <2>4. [pointers |-> pointers, profile |-> profile] \in Selections /\ intent.target \in Selections
    BY <2>1 DEF TypeOK, Selections
  <2> QED
    BY <2>1, <2>2, <2>3, <2>4, WorldsTyped DEF Contract!Init, AllWorlds
<1>2. TypeOK /\ ProtocolIsConsistent /\ OwnerFollowsJournal /\ NothingIsStale
      /\ SelectionFollowsOwner /\ FilesAgree
      => Agrees
  <2> SUFFICES ASSUME TypeOK, ProtocolIsConsistent, OwnerFollowsJournal, NothingIsStale,
                      SelectionFollowsOwner, FilesAgree
               PROVE  Agrees
    OBVIOUS
  <2>1. intent.target \in Selections
    BY DEF TypeOK
  <2> QED
    BY <2>1, SeenIsDecided, WorldsTyped DEF Agrees, PlanIsWorld
<1>3. Agrees /\ Agrees' /\ [Next]_vars => [Contract!Next]_(Contract!restore)
  <2> SUFFICES ASSUME Agrees, Agrees', [Next]_vars
               PROVE  [Contract!Next]_(Contract!restore)
    OBVIOUS
  <2>1. CASE UNCHANGED vars
    BY <2>1
    DEF vars, engine, outer, Contract!restore, SeenWorld, UnderWay, World, FilesIf, Outcome, Visible
  <2> QED
    BY <2>1, StepIsAtomic
<1> QED
  BY <1>1, <1>2, <1>3, TypeCorrect, Consistent, OwnersFollowJournal, StoredIsShown,
     SelectionFollows, FilesFollow, PTL
  DEF Spec, ReplacesInOneStep, Contract!Spec

================================================================================

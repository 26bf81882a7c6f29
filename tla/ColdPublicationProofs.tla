----------------------- MODULE ColdPublicationProofs -----------------------
(***************************************************************************)
(* The tuple of configuration and slot pointers stays whole, what it names *)
(* stays there, the work of an update keeps its owner, a cancellation that *)
(* was answered is honoured, edits survive and no cleanup meets a child,   *)
(* for any number of updates and any interleaving of crashes and failures. *)
(***************************************************************************)
EXTENDS ColdPublication, TLAPS

\* Where a task has its intent on disk, and where it works under the gate.
Publishing == {"intent", "placed", "config", "promoted", "finish"}
Guarded == Publishing \cup {"publish", "settling", "close", "clean"}
Reconciling == {"check", "config", "pointers", "residue", "candidate", "record", "intent"}

GateIsHeld == \A i \in Ids : task[i] \in Guarded => gate = i

FixIsHeld ==
    /\ fix.at = "none" <=> fix.by = None
    /\ fix.at # "none" => gate = fix.by
    /\ \A i \in Ids : fix.by = i <=> task[i] \in {"finish", "settling"}
    /\ fix.at \in Reconciling => intent # None
    /\ fix.at \in {"children", "operation", "clean"} => fix.by = Recoverer
    /\ fix.at = "clean" => op # None
    /\ fix.by \in {User, Recoverer} => ~active
    /\ fix.by # Other

WorkIsRecorded ==
    \A i \in Ids : task[i] \in Working =>
        /\ active /\ Mine(i) /\ token # None /\ token.id = i
        /\ task[i] # "finish" => op.phase \in Running
        /\ IF task[i] \in Publishing
           THEN intent # None /\ intent.id = i /\ intent.kind = op.kind
           ELSE intent = None

Ownership == TypeOK /\ GateIsHeld /\ FixIsHeld /\ WorkIsRecorded
-----------------------------------------------------------------------------
LEMMA HoldersDiffer ==
    /\ Ids \subseteq Nat
    /\ \A i \in Ids : i # None /\ i # User /\ i # Recoverer /\ i # Other
    /\ None # User /\ None # Recoverer /\ None # Other
    /\ User # Recoverer /\ User # Other /\ Recoverer # Other
BY ColdAssumptions DEF Ids, User, Recoverer, Other

LEMMA OwnedInit == Init => Ownership
<1> SUFFICES ASSUME Init PROVE Ownership
    OBVIOUS
<1> USE ColdAssumptions, HoldersDiffer
<1>0. config \in Versions /\ pointers \in Pointers /\ decided \in Tuples
    BY DEF Init, Tuple, Tuples, Versions, Pointers, Slots, Base, Runtimes
<1>1. child \in [Ids -> {"none", "running", "lost"}] /\ task \in [Ids -> Places] /\ quiet \in [Ids -> BOOLEAN]
    BY DEF Init, Places
<1>2. fix \in [by : Holders, at : Fixes]
    BY DEF Init, Idle, Fixes, Holders
<1>3. slots \subseteq Slots /\ ops \in 0 .. MaxOps /\ commands \in 0 .. MaxCommands
      /\ mishaps \in 0 .. MaxMishaps
    BY DEF Init, Slots
<1>4. lifecycle \in Holders /\ updater \in Holders /\ gate \in Holders
    BY DEF Init, Holders
<1>5. TypeOK
    BY <1>0, <1>1, <1>2, <1>3, <1>4 DEF Init, TypeOK
<1>6. GateIsHeld /\ FixIsHeld /\ WorkIsRecorded
    BY DEF Init, GateIsHeld, FixIsHeld, WorkIsRecorded, Idle, Guarded, Publishing, Working, Reconciling
<1> QED BY <1>5, <1>6 DEF Ownership

LEMMA BeginOwned ==
    ASSUME Ownership, NEW kind \in Kinds, Begin(kind)
    PROVE  Ownership'
<1> DEFINE i == ops + 1
<1> USE ColdAssumptions, NoRecordIsMissing, HoldersDiffer DEF Ownership
<1>1. i \in Ids
    BY DEF Begin, TypeOK, Ids
<1>2. op' \in Operations
    BY <1>1 DEF Begin, Operations, Running, ColdAssumptions
<1>3. task' \in [Ids -> Places] /\ token' \in Tokens
    BY <1>1 DEF Begin, TypeOK, Goto, Places, Tokens
<1>4. lifecycle' \in Holders /\ updater' \in Holders
    BY <1>1 DEF Begin, TypeOK, Holders
<1>5. TypeOK'
    BY <1>2, <1>3, <1>4 DEF Begin, TypeOK, history
<1>6. GateIsHeld' /\ FixIsHeld'
    BY <1>1 DEF Begin, TypeOK, GateIsHeld, FixIsHeld, Goto, Guarded, Publishing
<1>7. WorkIsRecorded'
    BY <1>1, <1>2, <1>3 DEF Begin, TypeOK, WorkIsRecorded, Goto, Mine, Running, Publishing
<1> QED BY <1>5, <1>6, <1>7
-----------------------------------------------------------------------------
LEMMA PhaseTyped ==
    ASSUME TypeOK, op # None, NEW p \in Running, Phase(p)
    PROVE  op' \in Operations /\ op' # None /\ op'.id = op.id /\ op'.kind = op.kind /\ op'.phase = p
BY NoRecordIsMissing DEF TypeOK, Phase, Operations

LEMMA GotoTyped ==
    ASSUME TypeOK, NEW i \in Ids, NEW place \in Places, Goto(i, place)
    PROVE  /\ task' \in [Ids -> Places] /\ task'[i] = place
           /\ \A j \in Ids : j # i => task'[j] = task[j]
BY DEF TypeOK, Goto

LEMMA ReleaseTyped ==
    ASSUME TypeOK, NEW h \in Holders, Release(h)
    PROVE  /\ lifecycle' \in Holders /\ updater' \in Holders /\ gate' \in Holders
           /\ IF gate = h THEN gate' = None ELSE gate' = gate
BY DEF TypeOK, Release, Drop, Holders

LEMMA FailsTyped ==
    ASSUME TypeOK, NEW i \in Ids, NEW proved \in BOOLEAN, Fails(i, proved)
    PROVE  /\ task' \in [Ids -> Places] /\ quiet' \in [Ids -> BOOLEAN]
           /\ lifecycle' \in Holders /\ updater' \in Holders /\ gate' \in Holders
           /\ task'[i] = "settle" /\ \A j \in Ids : j # i => task'[j] = task[j]
           /\ IF gate = i THEN gate' = None ELSE gate' = gate
<1>1. task' \in [Ids -> Places] /\ task'[i] = "settle" /\ \A j \in Ids : j # i => task'[j] = task[j]
    BY GotoTyped DEF Fails, Places
<1>2. quiet' \in [Ids -> BOOLEAN]
    BY DEF Fails, TypeOK
<1>3. i \in Holders
    BY DEF Holders
<1>4. /\ lifecycle' \in Holders /\ updater' \in Holders /\ gate' \in Holders
      /\ IF gate = i THEN gate' = None ELSE gate' = gate
    BY <1>3, ReleaseTyped DEF Fails, TypeOK, Drop, Holders
<1> QED BY <1>1, <1>2, <1>4

\* A task that fails has nothing any more: the gate is free, the rest is as it was.
LEMMA FailsOwned ==
    ASSUME Ownership, NEW i \in Ids, NEW proved \in BOOLEAN, Fails(i, proved),
           task[i] \notin {"finish", "settling"}, UNCHANGED <<op, intent, active, token, fix>>
    PROVE  GateIsHeld' /\ FixIsHeld' /\ WorkIsRecorded'
<1> USE FailsTyped, HoldersDiffer DEF Ownership
<1>1. GateIsHeld'
    BY DEF GateIsHeld, Guarded, Publishing
<1>2. FixIsHeld'
    <2>1. fix.by # i
        BY DEF FixIsHeld
    <2>2. fix.at # "none" => gate' = fix.by
        BY <2>1 DEF FixIsHeld
    <2> QED BY <2>1, <2>2 DEF FixIsHeld
<1>3. WorkIsRecorded'
    BY DEF WorkIsRecorded, Working, Mine
<1> QED BY <1>1, <1>2, <1>3

\* So has a task that moves on in its work, from before its intent or after it.
LEMMA StepOwned ==
    ASSUME Ownership, NEW i \in Ids, NEW place \in Working, Goto(i, place),
           task[i] \in Working \ {"finish"}, place # "finish",
           place \in Publishing <=> task[i] \in Publishing,
           place \in Guarded => gate' = i, gate' = gate \/ gate = None,
           UNCHANGED <<intent, active, token, fix>>,
           op' = op \/ \E p \in Running : Phase(p)
    PROVE  GateIsHeld' /\ FixIsHeld' /\ WorkIsRecorded'
<1> USE HoldersDiffer DEF Ownership
<1>1. task' \in [Ids -> Places] /\ task'[i] = place /\ \A j \in Ids : j # i => task'[j] = task[j]
    BY GotoTyped DEF Working, Places
<1>2. op # None /\ op' # None /\ op'.id = op.id /\ op'.kind = op.kind /\ (op' = op \/ op'.phase \in Running)
    BY PhaseTyped DEF WorkIsRecorded, Mine
<1>3. GateIsHeld'
    BY <1>1 DEF GateIsHeld, Guarded, Publishing
<1>4. FixIsHeld'
    BY <1>1, <1>2 DEF FixIsHeld, Working, TypeOK
<1>5. WorkIsRecorded'
    BY <1>1, <1>2 DEF WorkIsRecorded, Mine
<1> QED BY <1>3, <1>4, <1>5
-----------------------------------------------------------------------------
\* Every action of a task keeps the ownership.
LEMMA BeginAgainOwned ==
    ASSUME Ownership, NEW i \in Ids, BeginAgain(i)
    PROVE  Ownership'
<1> USE HoldersDiffer DEF Ownership
<1>1. task[i] = "begin" /\ op # None /\ "queued" \in Running
    BY DEF BeginAgain, WorkIsRecorded, Working, Mine, Running
<1>0. /\ ops' \in 0 .. MaxOps /\ commands' \in 0 .. MaxCommands /\ mishaps' \in 0 .. MaxMishaps
      /\ UNCHANGED <<intent, config, pointers, slots, owned, candidates, child, quiet, active,
                     token, lifecycle, updater, gate, fix, decided, edited, told>>
    BY ColdAssumptions DEF BeginAgain, TypeOK, Smooth, Mishap, bounds, locks, history
<1>2. CASE Phase("queued") /\ Goto(i, "start")
    <2>1. op' \in Operations /\ task' \in [Ids -> Places]
        BY <1>1, <1>2, PhaseTyped, GotoTyped DEF Places
    <2>2. TypeOK'
        BY <1>0, <2>1 DEF TypeOK
    <2>3. GateIsHeld' /\ FixIsHeld' /\ WorkIsRecorded'
        BY <1>1, <1>2, StepOwned DEF BeginAgain, Working, Publishing, Guarded, locks
    <2> QED BY <2>2, <2>3
<1>3. CASE UNCHANGED op /\ Goto(i, "done")
    <2>1. task' \in [Ids -> Places] /\ task'[i] = "done" /\ \A j \in Ids : j # i => task'[j] = task[j]
        BY <1>3, GotoTyped DEF Places
    <2>2. TypeOK'
        BY <1>0, <1>3, <2>1 DEF TypeOK
    <2>3. GateIsHeld' /\ FixIsHeld'
        <3>1. fix.by # i /\ GateIsHeld'
            BY <1>0, <1>1, <2>1 DEF GateIsHeld, FixIsHeld, Guarded, Publishing
        <3>2. \A j \in Ids : task'[j] \in {"finish", "settling"} <=> task[j] \in {"finish", "settling"}
            BY <1>1, <2>1
        <3>3. UNCHANGED <<fix, gate, intent, active, op>>
            BY <1>0, <1>3
        <3> QED BY <3>1, <3>2, <3>3 DEF FixIsHeld
    <2>4. WorkIsRecorded'
        BY <1>0, <1>3, <2>1 DEF WorkIsRecorded, Working, Mine
    <2> QED BY <2>2, <2>3, <2>4
<1> QED BY <1>2, <1>3 DEF BeginAgain

LEMMA StartOwned ==
    ASSUME Ownership, NEW i \in Ids, Start(i)
    PROVE  Ownership'
<1> USE HoldersDiffer DEF Ownership
<1>1. CASE Updatable(i) /\ ~Cancelled(i) /\ (op.kind = "import" => updater = None)
    <2>1. \E p \in Running : Phase(p)
        BY <1>1 DEF Start, Running
    <2>2. op' \in Operations
        BY <2>1, <1>1, PhaseTyped DEF Updatable, Mine
    <2>3. task' \in [Ids -> Places]
        BY <1>1, GotoTyped DEF Start, Places
    <2>4. child' \in [Ids -> {"none", "running", "lost"}] /\ candidates' \subseteq Ids
        BY <1>1 DEF Start, TypeOK
    <2>5. TypeOK'
        BY <1>1, <2>2, <2>3, <2>4 DEF Start, TypeOK, Smooth, bounds, history, Holders
    <2>6. GateIsHeld' /\ FixIsHeld' /\ WorkIsRecorded'
        BY <1>1, <2>1, StepOwned DEF Start, Working, Publishing, Guarded
    <2> QED BY <2>5, <2>6
<1>2. CASE ~(Updatable(i) /\ ~Cancelled(i) /\ (op.kind = "import" => updater = None))
    <2>1. TypeOK'
        BY <1>2, FailsTyped DEF Start, TypeOK, Smooth, bounds, history
    <2> QED BY <1>2, <2>1, FailsOwned DEF Start
<1> QED BY <1>1, <1>2

LEMMA ChildEndsOwned ==
    ASSUME Ownership, NEW i \in Ids, ChildEnds(i)
    PROVE  Ownership'
<1> USE HoldersDiffer DEF Ownership
<1>1. child' \in [Ids -> {"none", "running", "lost"}]
    BY DEF ChildEnds, TypeOK
<1>2. CASE ~Cancelled(i) /\ (op.kind = "switch" => Updatable(i))
    <2>1. op # None
        BY DEF ChildEnds, WorkIsRecorded, Working, Mine
    <2>2. op' = op \/ \E p \in Running : Phase(p)
        BY <1>2 DEF ChildEnds, Running
    <2>3. op' \in Operations \cup {None}
        BY <2>1, <2>2, PhaseTyped DEF TypeOK
    <2>4. task' \in [Ids -> Places]
        BY <1>2, GotoTyped DEF ChildEnds, Places
    <2>5. TypeOK'
        BY <1>1, <1>2, <2>3, <2>4 DEF ChildEnds, TypeOK, Smooth, bounds, locks, history
    <2>6. GateIsHeld' /\ FixIsHeld' /\ WorkIsRecorded'
        BY <1>2, <2>2, StepOwned DEF ChildEnds, Working, Publishing, Guarded, locks
    <2> QED BY <2>5, <2>6
<1>3. CASE ~(~Cancelled(i) /\ (op.kind = "switch" => Updatable(i)))
    <2>1. TypeOK'
        BY <1>1, <1>3, FailsTyped DEF ChildEnds, TypeOK, Smooth, bounds, history
    <2> QED BY <1>3, <2>1, FailsOwned DEF ChildEnds
<1> QED BY <1>2, <1>3

LEMMA ImportRegistersOwned ==
    ASSUME Ownership, NEW i \in Ids, ImportRegisters(i)
    PROVE  Ownership'
<1> USE HoldersDiffer DEF Ownership
<1>1. op # None /\ \E p \in Running : Phase(p)
    BY DEF ImportRegisters, WorkIsRecorded, Working, Mine, Running
<1>2. op' \in Operations /\ task' \in [Ids -> Places]
    BY <1>1, PhaseTyped, GotoTyped DEF ImportRegisters, Places
<1>3. TypeOK'
    BY <1>2 DEF ImportRegisters, TypeOK, Smooth, bounds, locks, history
<1>4. GateIsHeld' /\ FixIsHeld' /\ WorkIsRecorded'
    BY <1>1, StepOwned DEF ImportRegisters, Working, Publishing, Guarded, locks
<1> QED BY <1>3, <1>4

LEMMA ChildFailsOwned ==
    ASSUME Ownership, NEW i \in Ids, ChildFails(i)
    PROVE  Ownership'
<1> USE ColdAssumptions, HoldersDiffer DEF Ownership
<1> PICK proved \in BOOLEAN :
        child' = [child EXCEPT ![i] = IF proved THEN "none" ELSE "lost"] /\ Fails(i, proved)
    BY DEF ChildFails
<1>1. child' \in [Ids -> {"none", "running", "lost"}]
    BY DEF TypeOK
<1>2. mishaps' \in 0 .. MaxMishaps
    BY DEF ChildFails, Mishap, TypeOK
<1>3. TypeOK'
    BY <1>1, <1>2, FailsTyped DEF ChildFails, TypeOK, Mishap, disk, history
<1> QED BY <1>3, FailsOwned DEF ChildFails, disk

LEMMA ChildGoesOwned ==
    ASSUME Ownership, NEW i \in Ids, ChildGoes(i)
    PROVE  Ownership'
<1> USE DEF Ownership
<1>1. child' \in [Ids -> {"none", "running", "lost"}]
    BY DEF ChildGoes, TypeOK
<1>2. TypeOK'
    BY <1>1 DEF ChildGoes, TypeOK, Smooth, bounds, disk, locks, history
<1>3. GateIsHeld' /\ FixIsHeld' /\ WorkIsRecorded'
    BY DEF ChildGoes, disk, locks, GateIsHeld, FixIsHeld, WorkIsRecorded, Mine
<1> QED BY <1>2, <1>3

LEMMA PublishBeginsOwned ==
    ASSUME Ownership, NEW i \in Ids, PublishBegins(i)
    PROVE  Ownership'
<1> USE HoldersDiffer DEF Ownership
<1> DEFINE Allowed == /\ NotCancelled(i) /\ updater \in {None, i}
                      /\ task[i] = "verify" => (op.phase = "verifying" /\ ~op.cleanup)
<1>1. CASE Allowed
    <2>1. op # None
        BY DEF PublishBegins, WorkIsRecorded, Working, Mine
    <2>2. op' = op \/ \E p \in Running : Phase(p)
        BY <1>1 DEF PublishBegins, Running
    <2>3. op' \in Operations \cup {None}
        BY <2>1, <2>2, PhaseTyped DEF TypeOK
    <2>4. task' \in [Ids -> Places]
        BY <1>1, GotoTyped DEF PublishBegins, Places
    <2>5. TypeOK'
        BY <1>1, <2>3, <2>4 DEF PublishBegins, TypeOK, Smooth, bounds, history, Holders
    <2>6. GateIsHeld' /\ FixIsHeld' /\ WorkIsRecorded'
        BY <1>1, <2>2, StepOwned DEF PublishBegins, Working, Publishing, Guarded
    <2> QED BY <2>5, <2>6
<1>2. CASE ~Allowed
    <2>1. Fails(i, TRUE) /\ UNCHANGED op
        BY <1>2 DEF PublishBegins
    <2>2. TypeOK'
        BY <2>1, FailsTyped DEF PublishBegins, TypeOK, Smooth, bounds, history
    <2> QED BY <2>1, <2>2, FailsOwned DEF PublishBegins
<1> QED BY <1>1, <1>2

\* The intent of a task that publishes is its own.
LEMMA PublisherKnows ==
    ASSUME Ownership, NEW i \in Ids, task[i] \in Publishing
    PROVE  /\ op \in Operations /\ op # None /\ op.id = i /\ intent \in Intents /\ intent # None
           /\ intent.id = i /\ intent.kind = op.kind /\ gate = i /\ i \in Holders
BY DEF Ownership, WorkIsRecorded, Publishing, Working, Mine, TypeOK, GateIsHeld, Guarded, Holders

LEMMA TupleTyped == TypeOK => Tuple \in Tuples
BY DEF TypeOK, Tuple, Tuples

LEMMA IntendOwned ==
    ASSUME Ownership, NEW i \in Ids, Intend(i)
    PROVE  Ownership'
<1> USE HoldersDiffer DEF Ownership
<1> DEFINE Target(s) == [config |-> [n |-> i, runtime |-> IF op.kind = "import" THEN i ELSE Bundled],
                         pointers |-> [current |-> s, lkg |-> Fallback(s)]]
<1>1. op # None /\ op \in Operations /\ op.id = i
    BY DEF Intend, WorkIsRecorded, Working, Mine, TypeOK
<1>2. PICK s \in IF op.kind = "select" THEN slots ELSE {i} :
          intent' = [id |-> i, kind |-> op.kind, only |-> op.kind = "switch", committed |-> FALSE,
                     preserve |-> FALSE, previous |-> Tuple,
                     target |-> IF op.kind = "switch" THEN Tuple ELSE Target(s),
                     new |-> i \in candidates]
    BY DEF Intend
<1>3. s \in Slots
    BY DEF TypeOK, Slots
<1>4. [n |-> i, runtime |-> IF op.kind = "import" THEN i ELSE Bundled] \in Versions
    BY ColdAssumptions DEF Versions, Runtimes, Bundled, Ids
<1>5. [current |-> s, lkg |-> Fallback(s)] \in Pointers
    BY <1>3 DEF Pointers, Fallback, Slots
<1>6. Target(s) \in Tuples
    BY <1>4, <1>5 DEF Tuples
<1>7. intent' \in Intents
    BY <1>1, <1>2, <1>6, TupleTyped DEF Intents, Operations
<1>8. intent' # None /\ intent'.id = i /\ intent'.kind = op.kind
    BY <1>2, <1>7, NoRecordIsMissing
<1>9. task' \in [Ids -> Places] /\ task'[i] = "intent" /\ \A j \in Ids : j # i => task'[j] = task[j]
    BY GotoTyped DEF Intend, Places
<1>10. TypeOK'
    BY <1>7, <1>9, TupleTyped DEF Intend, TypeOK, Smooth, bounds, locks
<1>11. GateIsHeld'
    BY <1>9 DEF Intend, GateIsHeld, Guarded, Publishing, locks
<1>12. FixIsHeld'
    BY <1>8, <1>9 DEF Intend, FixIsHeld, locks
<1>13. WorkIsRecorded'
    <2>1. \A j \in Ids : task'[j] \in Working => j = i
        BY <1>1, <1>9 DEF WorkIsRecorded, Mine
    <2> QED BY <1>8, <1>9, <2>1 DEF Intend, WorkIsRecorded, Working, Publishing, Mine, locks
<1> QED BY <1>10, <1>11, <1>12, <1>13

LEMMA PlaceOwned ==
    ASSUME Ownership, NEW i \in Ids, Place(i)
    PROVE  Ownership'
<1> USE HoldersDiffer DEF Ownership
<1>1. slots' \subseteq Slots /\ owned' \subseteq Ids /\ candidates' \subseteq Ids
    BY DEF Place, TypeOK, Slots
<1>2. child' \in [Ids -> {"none", "running", "lost"}]
    BY DEF Place, TypeOK
<1>3. task' \in [Ids -> Places]
    BY GotoTyped DEF Place, Places
<1>4. TypeOK'
    BY <1>1, <1>2, <1>3 DEF Place, TypeOK, Smooth, bounds, locks, history
<1>5. gate = i
    BY PublisherKnows DEF Place, Publishing
<1>6. GateIsHeld' /\ FixIsHeld' /\ WorkIsRecorded'
    BY <1>5, StepOwned DEF Place, Working, Publishing, Guarded, locks
<1> QED BY <1>4, <1>6

LEMMA ImportConfigOwned ==
    ASSUME Ownership, NEW i \in Ids, ImportConfig(i)
    PROVE  Ownership'
<1> USE HoldersDiffer DEF Ownership
<1>1. child' \in [Ids -> {"none", "running", "lost"}]
    BY DEF ImportConfig, TypeOK
<1>2. gate = i /\ intent \in Intents
    BY PublisherKnows DEF ImportConfig, Publishing
<1>3. CASE ~Cancelled(i) /\ config = intent.previous.config
    <2>1. config' \in Versions
        BY <1>2, <1>3 DEF ImportConfig, Intents, Tuples
    <2>2. task' \in [Ids -> Places]
        BY <1>3, GotoTyped DEF ImportConfig, Places
    <2>3. TypeOK'
        BY <1>1, <1>3, <2>1, <2>2 DEF ImportConfig, TypeOK, Smooth, bounds, locks, history
    <2>4. GateIsHeld' /\ FixIsHeld' /\ WorkIsRecorded'
        BY <1>2, <1>3, StepOwned DEF ImportConfig, Working, Publishing, Guarded, locks
    <2> QED BY <2>3, <2>4
<1>4. CASE ~(~Cancelled(i) /\ config = intent.previous.config)
    <2>1. TypeOK'
        BY <1>1, <1>4, FailsTyped DEF ImportConfig, TypeOK, Smooth, bounds, history
    <2> QED BY <1>4, <2>1, FailsOwned DEF ImportConfig
<1> QED BY <1>3, <1>4

LEMMA PromoteOwned ==
    ASSUME Ownership, NEW i \in Ids, Promote(i)
    PROVE  Ownership'
<1> USE HoldersDiffer DEF Ownership
<1>1. gate = i /\ intent \in Intents
    BY PublisherKnows DEF Promote, Publishing
<1>2. pointers' \in Pointers
    BY <1>1 DEF Promote, Intents, Tuples
<1>3. task' \in [Ids -> Places]
    BY GotoTyped DEF Promote, Places
<1>4. TypeOK'
    BY <1>2, <1>3 DEF Promote, TypeOK, Smooth, bounds, locks, history
<1>5. GateIsHeld' /\ FixIsHeld' /\ WorkIsRecorded'
    BY <1>1, StepOwned DEF Promote, Working, Publishing, Guarded, locks
<1> QED BY <1>4, <1>5

LEMMA CommitOwned ==
    ASSUME Ownership, NEW i \in Ids, Commit(i)
    PROVE  Ownership'
<1> USE HoldersDiffer DEF Ownership
<1>1. /\ gate = i /\ intent \in Intents /\ intent # None /\ intent.id = i /\ intent.kind = op.kind
      /\ op # None /\ op.id = i /\ i \in Holders
    BY PublisherKnows DEF Commit, Publishing
<1>2. intent' \in Intents /\ intent'.id = i /\ intent'.kind = op.kind /\ decided' \in Tuples
    BY <1>1 DEF Commit, Intents, TypeOK
<1>3. intent' # None
    BY <1>2, NoRecordIsMissing
<1>4. task' \in [Ids -> Places] /\ task'[i] = "finish" /\ \A j \in Ids : j # i => task'[j] = task[j]
    BY GotoTyped DEF Commit, Places
<1>5. fix' \in [by : Holders, at : Fixes] /\ fix'.by = i /\ fix'.at = "check"
    BY <1>1 DEF Commit, Fixes
<1>6. TypeOK'
    BY <1>2, <1>4, <1>5 DEF Commit, TypeOK, Smooth, bounds, locks
<1>7. GateIsHeld'
    BY <1>1, <1>4 DEF Commit, GateIsHeld, locks
<1>8. FixIsHeld'
    <2>1. \A j \in Ids : fix'.by = j <=> task'[j] \in {"finish", "settling"}
        BY <1>1, <1>4, <1>5 DEF GateIsHeld, Guarded, Publishing
    <2> QED BY <1>1, <1>3, <1>5, <2>1 DEF Commit, FixIsHeld, locks
<1>9. WorkIsRecorded'
    BY <1>1, <1>2, <1>3, <1>4 DEF Commit, WorkIsRecorded, Working, Publishing, Mine, locks
<1> QED BY <1>6, <1>7, <1>8, <1>9

LEMMA StepFailsOwned ==
    ASSUME Ownership, NEW i \in Ids, StepFails(i)
    PROVE  Ownership'
<1> USE ColdAssumptions, HoldersDiffer DEF Ownership
<1>1. mishaps' \in 0 .. MaxMishaps
    BY DEF StepFails, Mishap, TypeOK
<1>2. TypeOK'
    BY <1>1, FailsTyped DEF StepFails, TypeOK, Mishap, disk, history
<1> QED BY <1>2, FailsOwned DEF StepFails, disk
-----------------------------------------------------------------------------
LEMMA PendingTyped ==
    ASSUME TypeOK, NEW i \in Ids, Pending(i)
    PROVE  /\ op' \in Operations \cup {None}
           /\ op = None => op' = None
           /\ op # None => op' # None /\ op'.id = op.id /\ op'.kind = op.kind
           /\ ~Mine(i) => op' = op
<1>1. CASE Mine(i)
    <2>1. op' \in Operations /\ op'.id = op.id /\ op'.kind = op.kind
        BY <1>1 DEF Pending, TypeOK, Mine, Operations, Running, Ended
    <2> QED BY <1>1, <2>1, NoRecordIsMissing DEF Mine
<1>2. CASE ~Mine(i)
    BY <1>2 DEF Pending, TypeOK
<1> QED BY <1>1, <1>2

\* A task that settles works on nothing: what it records disturbs no other.
LEMMA SettlingOwned ==
    ASSUME Ownership, NEW i \in Ids, task[i] \in {"settle", "settling", "close", "clean"},
           NEW place \in {"close", "clean", "release"}, Goto(i, place),
           Pending(i) \/ UNCHANGED op, UNCHANGED <<intent, active, token>>,
           IF task[i] = "settling" THEN fix' = Idle ELSE fix' = fix,
           IF place = "release" THEN gate' = Drop(gate, i) ELSE gate' = i,
           gate \in {i, None}
    PROVE  GateIsHeld' /\ FixIsHeld' /\ WorkIsRecorded'
<1> USE HoldersDiffer DEF Ownership
<1>1. task' \in [Ids -> Places] /\ task'[i] = place /\ \A j \in Ids : j # i => task'[j] = task[j]
    BY GotoTyped DEF Places
<1>2. /\ op' = None <=> op = None
      /\ op # None => op'.id = op.id /\ op'.kind = op.kind
      /\ ~Mine(i) => op' = op
    BY PendingTyped
<1>3. GateIsHeld'
    BY <1>1 DEF GateIsHeld, Guarded, Publishing, Drop
<1>4. FixIsHeld'
    <2>1. CASE task[i] = "settling"
        <3>1. \A j \in Ids : task'[j] \notin {"finish", "settling"}
            BY <1>1, <2>1 DEF GateIsHeld, Guarded, Publishing
        <3> QED BY <2>1, <3>1 DEF FixIsHeld, Idle, Reconciling
    <2>2. CASE task[i] # "settling"
        <3>1. fix.by # i
            BY <2>2 DEF FixIsHeld
        <3>2. fix.at # "none" => gate' = fix.by
            BY <2>2, <3>1 DEF FixIsHeld, Drop
        <3> QED BY <1>1, <1>2, <2>2, <3>1, <3>2 DEF FixIsHeld
    <2> QED BY <2>1, <2>2
<1>5. WorkIsRecorded'
    <2> SUFFICES ASSUME NEW j \in Ids, task'[j] \in Working
                 PROVE  WorkIsRecorded!(j)'
        BY DEF WorkIsRecorded
    <2>1. j # i /\ task[j] \in Working
        BY <1>1 DEF Working
    <2>2. ~Mine(i) /\ op' = op
        BY <1>2, <2>1 DEF WorkIsRecorded, Mine
    <2> QED BY <1>1, <2>1, <2>2 DEF WorkIsRecorded, Mine
<1> QED BY <1>3, <1>4, <1>5

LEMMA SettleOwned ==
    ASSUME Ownership, NEW i \in Ids, Settle(i)
    PROVE  Ownership'
<1> USE HoldersDiffer DEF Ownership
<1>1. op' \in Operations \cup {None}
    BY PendingTyped DEF Settle, TypeOK
<1>2. task' \in [Ids -> Places]
    BY GotoTyped DEF Settle, Places
<1>3. fix' \in [by : Holders, at : Fixes]
    BY DEF Settle, TypeOK, Holders, Fixes
<1>4. TypeOK'
    BY <1>1, <1>2, <1>3 DEF Settle, TypeOK, Smooth, bounds, locks, history, Holders
<1>5. CASE updater # None \/ ~Proved(i)
    BY <1>4, <1>5, SettlingOwned DEF Settle, locks, Drop
<1>6. CASE ~(updater # None \/ ~Proved(i)) /\ intent = None
    BY <1>4, <1>6, SettlingOwned DEF Settle
<1>7. CASE ~(updater # None \/ ~Proved(i)) /\ intent # None
    <2>1. task'[i] = "settling" /\ \A j \in Ids : j # i => task'[j] = task[j]
        BY <1>7, GotoTyped DEF Settle, Places
    <2>2. fix'.by = i /\ fix'.at = "check" /\ gate' = i /\ gate = None
        BY <1>7 DEF Settle
    <2>3. GateIsHeld'
        BY <2>1, <2>2 DEF GateIsHeld
    <2>4. \A j \in Ids : fix'.by = j <=> task'[j] \in {"finish", "settling"}
        BY <2>1, <2>2 DEF GateIsHeld, Guarded, Publishing
    <2>5. FixIsHeld'
        BY <1>7, <2>2, <2>4 DEF Settle, FixIsHeld
    <2>6. WorkIsRecorded'
        BY <1>7, <2>1 DEF Settle, WorkIsRecorded, Working, Mine
    <2> QED BY <1>4, <2>3, <2>5, <2>6
<1> QED BY <1>5, <1>6, <1>7

LEMMA CloseOwned ==
    ASSUME Ownership, NEW i \in Ids, Close(i)
    PROVE  Ownership'
<1> USE HoldersDiffer DEF Ownership
<1>1. op' \in Operations \cup {None}
    BY PendingTyped DEF Close
<1>2. task' \in [Ids -> Places]
    BY GotoTyped DEF Close, Places
<1>3. TypeOK'
    BY <1>1, <1>2 DEF Close, TypeOK, Smooth, bounds, locks, history
<1>4. gate = i
    BY DEF Close, GateIsHeld, Guarded
<1> QED BY <1>3, <1>4, SettlingOwned DEF Close, locks

LEMMA CleanOwned ==
    ASSUME Ownership, NEW i \in Ids, Clean(i)
    PROVE  Ownership'
<1> USE ColdAssumptions, HoldersDiffer DEF Ownership
<1>1. /\ op' \in Operations \cup {None}
      /\ op' = None <=> op = None
      /\ op # None => op'.id = op.id /\ op'.kind = op.kind
      /\ ~Mine(i) => op' = op
    <2>1. CASE UNCHANGED op
        BY <2>1 DEF TypeOK
    <2>2. CASE ~UNCHANGED op
        <3>1. Mine(i) /\ op' = [op EXCEPT !.cleanup = FALSE]
            BY <2>2 DEF Clean
        <3>2. op' \in Operations /\ op'.id = op.id /\ op'.kind = op.kind
            BY <3>1 DEF TypeOK, Operations, Mine
        <3> QED BY <3>1, <3>2, NoRecordIsMissing DEF Mine
    <2> QED BY <2>1, <2>2
<1>2. task' \in [Ids -> Places] /\ task'[i] = "release" /\ \A j \in Ids : j # i => task'[j] = task[j]
    BY GotoTyped DEF Clean, Places
<1>3. /\ lifecycle' \in Holders /\ updater' \in Holders /\ gate' \in Holders
      /\ gate = i /\ gate' = None
    BY ReleaseTyped DEF Clean, Holders, GateIsHeld, Guarded
<1>4. candidates' \subseteq Ids /\ mishaps' \in 0 .. MaxMishaps /\ commands' = commands /\ ops' = ops
    BY DEF Clean, TypeOK, Smooth, Mishap, bounds
<1>5. TypeOK'
    BY <1>1, <1>2, <1>3, <1>4 DEF Clean, TypeOK, history
<1>6. GateIsHeld'
    BY <1>2, <1>3 DEF GateIsHeld, Guarded, Publishing
<1>7. FixIsHeld'
    <2>1. fix.by = None /\ fix.at = "none"
        BY <1>3 DEF Clean, FixIsHeld
    <2> QED BY <1>2, <2>1 DEF Clean, FixIsHeld, Reconciling
<1>8. WorkIsRecorded'
    <2> SUFFICES ASSUME NEW j \in Ids, task'[j] \in Working
                 PROVE  WorkIsRecorded!(j)'
        BY DEF WorkIsRecorded
    <2>1. j # i /\ task[j] \in Working
        BY <1>2 DEF Working
    <2>2. ~Mine(i) /\ op' = op
        BY <1>1, <2>1 DEF WorkIsRecorded, Mine
    <2> QED BY <1>2, <2>1, <2>2 DEF Clean, WorkIsRecorded, Mine
<1> QED BY <1>5, <1>6, <1>7, <1>8

LEMMA ReleaseOwnerOwned ==
    ASSUME Ownership, NEW i \in Ids, ReleaseOwner(i)
    PROVE  Ownership'
<1> USE HoldersDiffer DEF Ownership
<1>1. task' \in [Ids -> Places] /\ task'[i] = "done" /\ \A j \in Ids : j # i => task'[j] = task[j]
    BY GotoTyped DEF ReleaseOwner, Places
<1>2. lifecycle' \in Holders /\ updater' \in Holders /\ gate' \in Holders /\ gate' = gate
    BY ReleaseTyped DEF ReleaseOwner, Holders
<1>3. TypeOK'
    BY <1>1, <1>2 DEF ReleaseOwner, TypeOK, Smooth, bounds, disk, history
<1>4. GateIsHeld'
    BY <1>1, <1>2 DEF GateIsHeld, Guarded, Publishing
<1>5. FixIsHeld'
    BY <1>1, <1>2 DEF ReleaseOwner, FixIsHeld, disk
<1>6. WorkIsRecorded'
    <2> SUFFICES ASSUME NEW j \in Ids, task'[j] \in Working
                 PROVE  WorkIsRecorded!(j)'
        BY DEF WorkIsRecorded
    <2>1. j # i /\ task[j] \in Working
        BY <1>1 DEF Working
    <2>2. ~Mine(i)
        BY <2>1 DEF WorkIsRecorded, Mine
    <2> QED BY <1>1, <2>1, <2>2 DEF ReleaseOwner, Releasable, WorkIsRecorded, Mine, disk
<1> QED BY <1>3, <1>4, <1>5, <1>6
-----------------------------------------------------------------------------
\* While an intent is reconciled, no task works but the one that reconciles it.
LEMMA WorkerReconciles ==
    ASSUME Ownership, fix.at \in Reconciling, NEW j \in Ids, task[j] \in Working
    PROVE  task[j] = "finish" /\ fix.by = j /\ intent.id = j /\ intent.kind = op.kind
BY HoldersDiffer DEF Ownership, FixIsHeld, WorkIsRecorded, GateIsHeld, Guarded, Publishing, Reconciling

LEMMA FixAtTyped ==
    ASSUME TypeOK, NEW place \in Fixes, FixAt(place)
    PROVE  fix' \in [by : Holders, at : Fixes] /\ fix'.by = fix.by /\ fix'.at = place
BY DEF TypeOK, FixAt

LEMMA FixStepOwned ==
    ASSUME Ownership, fix.at \in Reconciling, NEW place \in Reconciling, FixAt(place),
           UNCHANGED <<op, intent, task, active, token, gate>>
    PROVE  GateIsHeld' /\ FixIsHeld' /\ WorkIsRecorded'
<1> USE HoldersDiffer DEF Ownership
<1>1. fix'.by = fix.by /\ fix'.at = place
    BY FixAtTyped DEF Reconciling, Fixes
<1>2. GateIsHeld' /\ WorkIsRecorded'
    BY DEF GateIsHeld, WorkIsRecorded, Mine
<1>3. FixIsHeld'
    BY <1>1 DEF FixIsHeld, Reconciling
<1> QED BY <1>2, <1>3

LEMMA IntentTyped ==
    ASSUME Ownership, fix.at \in Reconciling
    PROVE  /\ intent # None /\ intent \in Intents /\ intent.id \in Ids
           /\ intent.previous \in Tuples /\ intent.target \in Tuples /\ Wanted \in Tuples
           /\ Wanted.config \in Versions /\ Wanted.pointers \in Pointers
<1>1. intent # None /\ intent \in Intents
    BY DEF Ownership, FixIsHeld, TypeOK
<1>2. intent.id \in Ids /\ intent.previous \in Tuples /\ intent.target \in Tuples
    BY <1>1 DEF Intents
<1> QED BY <1>1, <1>2 DEF Wanted, Tuples

LEMMA FixBeginsOwned ==
    ASSUME Ownership, FixBegins
    PROVE  Ownership'
<1> USE DEF Ownership
<1>1. fix.at \in Reconciling /\ FirstStep \in Reconciling /\ FixAt(FirstStep)
    BY DEF FixBegins, Fixing, Reconciling, FirstStep
<1>2. fix' \in [by : Holders, at : Fixes]
    BY <1>1, FixAtTyped DEF Reconciling, Fixes
<1>3. TypeOK'
    BY <1>2 DEF FixBegins, TypeOK, Smooth, bounds, disk, locks, history
<1> QED BY <1>1, <1>3, FixStepOwned DEF FixBegins, disk, locks

LEMMA FixConfigOwned ==
    ASSUME Ownership, FixConfig
    PROVE  Ownership'
<1> USE DEF Ownership
<1>1. fix.at \in Reconciling /\ FixAt("pointers")
    BY DEF FixConfig, Fixing, Reconciling
<1>2. config' \in Versions
    BY <1>1, IntentTyped DEF FixConfig
<1>3. fix' \in [by : Holders, at : Fixes]
    BY <1>1, FixAtTyped DEF Fixes
<1>4. TypeOK'
    BY <1>2, <1>3 DEF FixConfig, TypeOK, Smooth, bounds, locks, history
<1> QED BY <1>1, <1>4, FixStepOwned DEF FixConfig, locks, Reconciling

LEMMA FixPointersOwned ==
    ASSUME Ownership, FixPointers
    PROVE  Ownership'
<1> USE DEF Ownership
<1> DEFINE next == IF intent.committed THEN "candidate" ELSE "residue"
<1>1. fix.at \in Reconciling /\ FixAt(next) /\ next \in Reconciling /\ next \in Fixes
    BY DEF FixPointers, Fixing, Reconciling, Fixes
<1>2. pointers' \in Pointers
    BY <1>1, IntentTyped DEF FixPointers
<1>3. fix' \in [by : Holders, at : Fixes]
    BY <1>1, FixAtTyped
<1>4. TypeOK'
    BY <1>2, <1>3 DEF FixPointers, TypeOK, Smooth, bounds, locks, history
<1> QED BY <1>1, <1>4, FixStepOwned DEF FixPointers, locks

LEMMA FixResidueOwned ==
    ASSUME Ownership, FixResidue
    PROVE  Ownership'
<1> USE DEF Ownership
<1>1. fix.at \in Reconciling /\ FixAt("candidate")
    BY DEF FixResidue, Fixing, Reconciling
<1>2. slots' \subseteq Slots /\ owned' \subseteq Ids
    BY DEF FixResidue, TypeOK
<1>3. fix' \in [by : Holders, at : Fixes]
    BY <1>1, FixAtTyped DEF Fixes
<1>4. TypeOK'
    BY <1>2, <1>3 DEF FixResidue, TypeOK, Smooth, bounds, locks, history
<1> QED BY <1>1, <1>4, FixStepOwned DEF FixResidue, locks, Reconciling

LEMMA FixCandidateOwned ==
    ASSUME Ownership, FixCandidate
    PROVE  Ownership'
<1> USE DEF Ownership
<1>1. fix.at \in Reconciling /\ FixAt("record")
    BY DEF FixCandidate, Fixing, Reconciling
<1>2. candidates' \subseteq Ids
    BY DEF FixCandidate, TypeOK
<1>3. fix' \in [by : Holders, at : Fixes]
    BY <1>1, FixAtTyped DEF Fixes
<1>4. TypeOK'
    BY <1>2, <1>3 DEF FixCandidate, TypeOK, Smooth, bounds, locks, history
<1> QED BY <1>1, <1>4, FixStepOwned DEF FixCandidate, locks, Reconciling

LEMMA FixRecordOwned ==
    ASSUME Ownership, FixRecord
    PROVE  Ownership'
<1> USE HoldersDiffer DEF Ownership
<1>1. fix.at \in Reconciling /\ FixAt("intent")
    BY DEF FixRecord, Fixing, Reconciling
<1>2. op' \in Operations /\ op'.id = intent.id /\ op'.kind = intent.kind
    BY <1>1, IntentTyped DEF FixRecord, Operations, Outcome, Ended, Intents
<1>3. op' # None
    BY <1>2, NoRecordIsMissing
<1>4. fix' \in [by : Holders, at : Fixes] /\ fix'.by = fix.by /\ fix'.at = "intent"
    BY <1>1, FixAtTyped DEF Fixes
<1>5. TypeOK'
    BY <1>2, <1>4 DEF FixRecord, TypeOK, Smooth, bounds, locks, history
<1>6. GateIsHeld'
    BY DEF FixRecord, GateIsHeld, locks
<1>7. FixIsHeld'
    BY <1>1, <1>3, <1>4 DEF FixRecord, FixIsHeld, Reconciling, locks
<1>8. WorkIsRecorded'
    <2> SUFFICES ASSUME NEW j \in Ids, task'[j] \in Working
                 PROVE  WorkIsRecorded!(j)'
        BY DEF WorkIsRecorded
    <2>1. task[j] \in Working /\ task'[j] = task[j]
        BY DEF FixRecord
    <2>2. task[j] = "finish" /\ intent.id = j
        BY <1>1, <2>1, WorkerReconciles
    <2>3. active' /\ token' # None /\ token'.id = j
        BY <2>1 DEF FixRecord, WorkIsRecorded
    <2> QED BY <1>1, <1>2, <1>3, <2>1, <2>2, <2>3, IntentTyped DEF FixRecord, Mine, Publishing
<1> QED BY <1>5, <1>6, <1>7, <1>8

\* Whoever reconciled or recovered lets go of everything, and its task, if it is
\* one, works no more: nobody works.
LEMMA FixLeavesOwned ==
    ASSUME Ownership, fix.at # "none", fix' = Idle, gate' = None,
           \A j \in Ids : task'[j] = task[j] \/ (j = fix.by /\ task'[j] \in {"settle", "release"}),
           fix.by \in Ids => task'[fix.by] \in {"settle", "release"}
    PROVE  GateIsHeld' /\ FixIsHeld' /\ WorkIsRecorded'
<1> USE HoldersDiffer DEF Ownership
<1>1. \A j \in Ids : task'[j] \notin Guarded
    BY DEF GateIsHeld, FixIsHeld, Guarded, Publishing
<1>2. FixIsHeld'
    BY <1>1 DEF FixIsHeld, Idle, Guarded, Publishing, Reconciling
<1>3. \A j \in Ids : task'[j] \notin Working
    <2> SUFFICES ASSUME NEW j \in Ids, task'[j] \in Working PROVE FALSE
        OBVIOUS
    <2>1. task[j] \in Working /\ j # fix.by
        BY DEF Working
    <2>2. CASE fix.at \in Reconciling
        BY <2>1, <2>2, WorkerReconciles
    <2>3. CASE fix.at \notin Reconciling
        <3>1. fix.by = Recoverer
            BY <2>3 DEF FixIsHeld, TypeOK, Fixes, Reconciling
        <3> QED BY <2>1, <3>1 DEF FixIsHeld, WorkIsRecorded
    <2> QED BY <2>2, <2>3
<1> QED BY <1>1, <1>2, <1>3 DEF GateIsHeld, WorkIsRecorded

LEMMA FixerIsHolder ==
    ASSUME Ownership, fix.at # "none"
    PROVE  fix.by \in Ids \cup {User, Recoverer} /\ fix.by \in Holders /\ gate = fix.by
BY DEF Ownership, TypeOK, FixIsHeld, Holders

LEMMA FixEndsOwned ==
    ASSUME Ownership, FixEnds
    PROVE  Ownership'
<1> USE HoldersDiffer DEF Ownership
<1>1. fix.at = "intent" /\ fix.at \in Reconciling
    BY DEF FixEnds, Fixing, Reconciling
<1>2. fix.by \in Ids \cup {User, Recoverer} /\ fix.by \in Holders /\ gate = fix.by
    BY <1>1, FixerIsHolder
<1>3. decided' \in Tuples /\ edited' \in BOOLEAN /\ intent' = None
    BY TupleTyped DEF FixEnds, TypeOK
<1> DEFINE i == fix.by
           Settles == task[i] = "settling" /\ Outcome \notin {"succeeded", "prepared"}
<1>4. CASE fix.by \in Ids /\ Settles
    <2>1. fix' = Idle /\ Goto(i, "close") /\ UNCHANGED locks
        BY <1>4 DEF FixEnds
    <2>2. task' \in [Ids -> Places] /\ task'[i] = "close" /\ \A j \in Ids : j # i => task'[j] = task[j]
        BY <1>4, <2>1, GotoTyped DEF Places
    <2>3. TypeOK'
        BY <1>3, <2>1, <2>2 DEF FixEnds, TypeOK, Smooth, bounds, locks, Idle, Fixes, Holders
    <2>4. \A j \in Ids : task'[j] \notin Working
        BY <1>1, <1>4, <2>2, WorkerReconciles DEF Working
    <2>5. FixIsHeld'
        <3>1. \A j \in Ids : task'[j] \notin {"finish", "settling"}
            BY <1>2, <2>2 DEF FixIsHeld
        <3> QED BY <2>1, <3>1 DEF FixIsHeld, Idle, Reconciling
    <2>6. GateIsHeld'
        BY <1>2, <2>1, <2>2 DEF GateIsHeld, locks
    <2> QED BY <2>3, <2>4, <2>5, <2>6 DEF WorkIsRecorded
<1>5. CASE fix.by \in Ids /\ ~Settles
    <2>1. /\ fix' = Idle /\ Goto(i, "release")
          /\ IF op.kind = "select" THEN gate' = None /\ UNCHANGED <<lifecycle, updater>> ELSE Release(i)
        BY <1>5 DEF FixEnds
    <2>2. task' \in [Ids -> Places] /\ task'[i] = "release" /\ \A j \in Ids : j # i => task'[j] = task[j]
        BY <1>5, <2>1, GotoTyped DEF Places
    <2>3. lifecycle' \in Holders /\ updater' \in Holders /\ gate' = None
        BY <1>2, <2>1, ReleaseTyped DEF TypeOK
    <2>4. TypeOK'
        BY <1>3, <2>1, <2>2, <2>3 DEF FixEnds, TypeOK, Smooth, bounds, Idle, Fixes, Holders
    <2> QED BY <1>1, <2>1, <2>2, <2>3, <2>4, FixLeavesOwned
<1>6. CASE fix.by = Recoverer
    <2>1. FixAt("operation") /\ UNCHANGED <<task, locks>>
        BY <1>6 DEF FixEnds
    <2>2. fix' \in [by : Holders, at : Fixes] /\ fix'.by = fix.by /\ fix'.at = "operation"
        BY <2>1, FixAtTyped DEF Fixes
    <2>3. TypeOK'
        BY <1>3, <2>1, <2>2 DEF FixEnds, TypeOK, Smooth, bounds, locks
    <2>4. \A j \in Ids : task[j] \notin Working
        BY <1>6 DEF FixIsHeld, WorkIsRecorded
    <2>5. FixIsHeld'
        BY <1>1, <1>6, <2>1, <2>2 DEF FixEnds, FixIsHeld, locks, Reconciling
    <2> QED BY <2>1, <2>3, <2>4, <2>5 DEF GateIsHeld, WorkIsRecorded, locks
<1>7. CASE fix.by = User
    <2>1. fix' = Idle /\ Release(User) /\ UNCHANGED task
        BY <1>7 DEF FixEnds
    <2>2. lifecycle' \in Holders /\ updater' \in Holders /\ gate' = None
        BY <1>2, <1>7, <2>1, ReleaseTyped
    <2>3. TypeOK'
        BY <1>3, <2>1, <2>2 DEF FixEnds, TypeOK, Smooth, bounds, Idle, Fixes, Holders
    <2> QED BY <1>1, <1>7, <2>1, <2>2, <2>3, FixLeavesOwned
<1> QED BY <1>2, <1>4, <1>5, <1>6, <1>7

LEMMA FixFailsOwned ==
    ASSUME Ownership, FixFails
    PROVE  Ownership'
<1> USE ColdAssumptions, HoldersDiffer DEF Ownership
<1>1. fix.at # "none"
    BY DEF FixFails
<1>2. fix.by \in Ids \cup {User, Recoverer} /\ fix.by \in Holders /\ gate = fix.by
    BY <1>1, FixerIsHolder
<1>3. mishaps' \in 0 .. MaxMishaps /\ ops' = ops /\ commands' = commands /\ fix' = Idle
    BY DEF FixFails, Mishap, Smooth, bounds, TypeOK
<1>4. CASE fix.by \in Ids /\ task[fix.by] = "finish"
    <2>1. Fails(fix.by, TRUE) /\ UNCHANGED op
        BY <1>4 DEF FixFails
    <2>2. /\ task' \in [Ids -> Places] /\ quiet' \in [Ids -> BOOLEAN]
          /\ lifecycle' \in Holders /\ updater' \in Holders /\ gate' = None
          /\ task'[fix.by] = "settle" /\ \A j \in Ids : j # fix.by => task'[j] = task[j]
        BY <1>2, <1>4, <2>1, FailsTyped
    <2>3. TypeOK'
        BY <1>3, <2>1, <2>2 DEF FixFails, TypeOK, history, Idle, Fixes, Holders
    <2> QED BY <1>1, <1>3, <2>2, <2>3, FixLeavesOwned
<1>5. CASE fix.by \in Ids /\ task[fix.by] # "finish"
    <2>1. Pending(fix.by) /\ Goto(fix.by, "release") /\ Release(fix.by) /\ UNCHANGED quiet
        BY <1>5 DEF FixFails
    <2>2. task' \in [Ids -> Places] /\ task'[fix.by] = "release"
          /\ \A j \in Ids : j # fix.by => task'[j] = task[j]
        BY <1>5, <2>1, GotoTyped DEF Places
    <2>3. lifecycle' \in Holders /\ updater' \in Holders /\ gate' = None
        BY <1>2, <2>1, ReleaseTyped
    <2>4. op' \in Operations \cup {None}
        BY <1>5, <2>1, PendingTyped
    <2>5. TypeOK'
        BY <1>3, <2>1, <2>2, <2>3, <2>4 DEF FixFails, TypeOK, history, Idle, Fixes, Holders
    <2> QED BY <1>1, <1>3, <2>2, <2>3, <2>5, FixLeavesOwned
<1>6. CASE fix.by \notin Ids
    <2>1. Release(fix.by) /\ UNCHANGED <<op, task, quiet>>
        BY <1>6 DEF FixFails
    <2>2. lifecycle' \in Holders /\ updater' \in Holders /\ gate' = None
        BY <1>2, <2>1, ReleaseTyped
    <2>3. TypeOK'
        BY <1>3, <2>1, <2>2 DEF FixFails, TypeOK, history, Idle, Fixes, Holders
    <2> QED BY <1>1, <1>3, <1>6, <2>1, <2>2, <2>3, FixLeavesOwned
<1> QED BY <1>4, <1>5, <1>6
-----------------------------------------------------------------------------
LEMMA RecoverChildrenOwned ==
    ASSUME Ownership, RecoverChildren
    PROVE  Ownership'
<1> USE HoldersDiffer DEF Ownership
<1>1. fix.at = "children" /\ fix.by = Recoverer /\ gate = Recoverer /\ Recoverer \in Holders
    BY DEF RecoverChildren, Fixing, FixIsHeld, Holders
<1>2. op' \in Operations \cup {None}
    BY DEF RecoverChildren, TypeOK
<1>3. \A j \in Ids : task[j] \notin Working
    BY <1>1 DEF FixIsHeld, WorkIsRecorded
<1>4. CASE ChildrenGone
    <2> DEFINE next == IF intent # None THEN "check" ELSE "operation"
    <2>1. FixAt(next) /\ UNCHANGED locks /\ next \in Fixes
        BY <1>4 DEF RecoverChildren, Fixes
    <2>2. fix' \in [by : Holders, at : Fixes] /\ fix'.by = fix.by /\ fix'.at = next
        BY <2>1, FixAtTyped
    <2>3. TypeOK'
        BY <1>2, <2>1, <2>2 DEF RecoverChildren, TypeOK, Smooth, bounds, locks, history
    <2>4. FixIsHeld'
        BY <1>1, <2>1, <2>2 DEF RecoverChildren, FixIsHeld, locks, Reconciling
    <2>5. GateIsHeld' /\ WorkIsRecorded'
        BY <1>3, <2>1 DEF RecoverChildren, GateIsHeld, WorkIsRecorded, locks
    <2> QED BY <2>3, <2>4, <2>5
<1>5. CASE ~ChildrenGone
    <2>1. fix' = Idle /\ Release(Recoverer)
        BY <1>5 DEF RecoverChildren
    <2>2. lifecycle' \in Holders /\ updater' \in Holders /\ gate' = None
        BY <1>1, <2>1, ReleaseTyped
    <2>3. TypeOK'
        BY <1>2, <2>1, <2>2 DEF RecoverChildren, TypeOK, Smooth, bounds, history, Idle, Fixes, Holders
    <2> QED BY <1>1, <2>1, <2>2, <2>3, FixLeavesOwned DEF RecoverChildren
<1> QED BY <1>4, <1>5

LEMMA RecoverOperationOwned ==
    ASSUME Ownership, RecoverOperation
    PROVE  Ownership'
<1> USE HoldersDiffer DEF Ownership
<1>1. fix.at = "operation" /\ fix.by = Recoverer /\ gate = Recoverer /\ Recoverer \in Holders
    BY DEF RecoverOperation, Fixing, FixIsHeld, Holders
<1>2. \A j \in Ids : task[j] \notin Working
    BY <1>1 DEF FixIsHeld, WorkIsRecorded
<1>3. CASE op # None /\ (op.cleanup \/ ~Terminal)
    <2>1. /\ FixAt("clean") /\ UNCHANGED locks
          /\ op' = [op EXCEPT !.phase = IF Terminal THEN @ ELSE "failed",
                              !.quiescent = TRUE, !.cleanup = TRUE]
        BY <1>3 DEF RecoverOperation
    <2>2. op' \in Operations
        BY <1>3, <2>1 DEF TypeOK, Operations, Ended
    <2>3. op' # None
        BY <2>2, NoRecordIsMissing
    <2>4. fix' \in [by : Holders, at : Fixes] /\ fix'.by = fix.by /\ fix'.at = "clean"
        BY <2>1, FixAtTyped DEF Fixes
    <2>5. TypeOK'
        BY <2>1, <2>2, <2>4 DEF RecoverOperation, TypeOK, Smooth, bounds, locks, history
    <2>6. FixIsHeld'
        BY <1>1, <2>1, <2>3, <2>4 DEF RecoverOperation, FixIsHeld, locks, Reconciling
    <2>7. GateIsHeld' /\ WorkIsRecorded'
        BY <1>2, <2>1 DEF RecoverOperation, GateIsHeld, WorkIsRecorded, locks
    <2> QED BY <2>5, <2>6, <2>7
<1>4. CASE ~(op # None /\ (op.cleanup \/ ~Terminal))
    <2>1. fix' = Idle /\ Release(Recoverer) /\ UNCHANGED op
        BY <1>4 DEF RecoverOperation
    <2>2. lifecycle' \in Holders /\ updater' \in Holders /\ gate' = None
        BY <1>1, <2>1, ReleaseTyped
    <2>3. TypeOK'
        BY <2>1, <2>2 DEF RecoverOperation, TypeOK, Smooth, bounds, history, Idle, Fixes, Holders
    <2> QED BY <1>1, <2>1, <2>2, <2>3, FixLeavesOwned DEF RecoverOperation
<1> QED BY <1>3, <1>4

LEMMA RecoverCandidateOwned ==
    ASSUME Ownership, RecoverCandidate
    PROVE  Ownership'
<1> USE ColdAssumptions, HoldersDiffer DEF Ownership
<1>1. /\ fix.at = "clean" /\ fix.by = Recoverer /\ gate = Recoverer /\ Recoverer \in Holders
      /\ op # None /\ op \in Operations
    BY DEF RecoverCandidate, Fixing, FixIsHeld, Holders, TypeOK
<1>2. op' \in Operations /\ candidates' \subseteq Ids
    <2>1. op' = op \/ op' = [op EXCEPT !.cleanup = FALSE]
        BY DEF RecoverCandidate
    <2>2. op' \in Operations
        BY <1>1, <2>1 DEF Operations
    <2>3. candidates' \subseteq Ids
        BY DEF RecoverCandidate, TypeOK
    <2> QED BY <2>2, <2>3
<1>3. mishaps' \in 0 .. MaxMishaps /\ ops' = ops /\ commands' = commands
    BY DEF RecoverCandidate, Mishap, Smooth, bounds, TypeOK
<1>4. fix' = Idle /\ Release(Recoverer) /\ UNCHANGED task
    BY DEF RecoverCandidate
<1>5. lifecycle' \in Holders /\ updater' \in Holders /\ gate' = None
    BY <1>1, <1>4, ReleaseTyped
<1>6. TypeOK'
    BY <1>2, <1>3, <1>4, <1>5 DEF RecoverCandidate, TypeOK, history, Idle, Fixes, Holders
<1> QED BY <1>1, <1>4, <1>5, <1>6, FixLeavesOwned
-----------------------------------------------------------------------------
\* Nobody holds the gate, so nobody reconciles, and no task is at a guarded place.
LEMMA FreeGate ==
    ASSUME Ownership, gate = None
    PROVE  fix.at = "none" /\ fix.by = None /\ \A j \in Ids : task[j] \notin Guarded
BY HoldersDiffer DEF Ownership, GateIsHeld, FixIsHeld

LEMMA CancelTokenOwned == ASSUME Ownership, CancelToken PROVE Ownership'
<1> USE HoldersDiffer DEF Ownership
<1>1. token' \in Tokens /\ token'.id = token.id
    BY DEF CancelToken, TypeOK, Tokens
<1>2. token' # None
    BY <1>1, NoRecordIsMissing
<1>3. TypeOK'
    BY <1>1 DEF CancelToken, TypeOK, Smooth, bounds, disk, locks, history
<1>4. GateIsHeld' /\ FixIsHeld' /\ WorkIsRecorded'
    BY <1>1, <1>2 DEF CancelToken, GateIsHeld, FixIsHeld, WorkIsRecorded, Mine, disk, locks
<1> QED BY <1>3, <1>4

LEMMA CancelRecordOwned == ASSUME Ownership, CancelRecord PROVE Ownership'
<1> USE ColdAssumptions, HoldersDiffer DEF Ownership
<1>1. op # None /\ op \in Operations /\ gate = None
    BY DEF CancelRecord, TypeOK
<1>2. op' \in Operations /\ op'.id = op.id /\ op'.kind = op.kind
    BY <1>1 DEF CancelRecord, Phase, Operations, Running
<1>3. op' # None
    BY <1>2, NoRecordIsMissing
<1>4. told' \subseteq Ids /\ candidates' \subseteq Ids /\ active' \in BOOLEAN
    BY <1>1 DEF CancelRecord, TypeOK, Operations
<1>5. mishaps' \in 0 .. MaxMishaps /\ ops' = ops /\ commands' = commands
    BY DEF CancelRecord, Mishap, Smooth, bounds, TypeOK
<1>6. TypeOK'
    BY <1>2, <1>4, <1>5 DEF CancelRecord, TypeOK, locks
<1>7. GateIsHeld' /\ FixIsHeld'
    BY <1>1, FreeGate DEF CancelRecord, GateIsHeld, FixIsHeld, Reconciling, locks
<1>8. WorkIsRecorded'
    <2> SUFFICES ASSUME NEW j \in Ids, task'[j] \in Working
                 PROVE  WorkIsRecorded!(j)'
        BY DEF WorkIsRecorded
    <2>1. task[j] \in Working /\ task[j] # "finish" /\ task[j] \notin Publishing
        BY <1>1, FreeGate DEF CancelRecord, Guarded, Publishing
    <2>2. active /\ op.id = j /\ op.phase \in Running /\ intent = None /\ token # None /\ token.id = j
        BY <2>1 DEF WorkIsRecorded, Mine
    <2>3. ~Terminal
        BY <2>2 DEF Terminal, Running, Ended
    <2>4. op'.phase = "cancelling" /\ active'
        BY <1>1, <2>2, <2>3 DEF CancelRecord, Phase, Operations
    <2> QED BY <1>2, <1>3, <2>1, <2>2, <2>4 DEF CancelRecord, Running, Mine
<1> QED BY <1>6, <1>7, <1>8

LEMMA QuietRequestOwned ==
    ASSUME Ownership, ClearFinished \/ OtherUpdate \/ ManualSave
    PROVE  Ownership'
<1> USE ColdAssumptions, HoldersDiffer DEF Ownership
<1>1. CASE ClearFinished
    <2>1. TypeOK'
        BY <1>1 DEF ClearFinished, TypeOK, Smooth, bounds, locks, history
    <2>2. FixIsHeld'
        BY <1>1, FreeGate DEF ClearFinished, FixIsHeld, Reconciling, locks
    <2> QED BY <1>1, <2>1, <2>2 DEF ClearFinished, GateIsHeld, WorkIsRecorded, locks
<1>2. CASE OtherUpdate
    <2>1. TypeOK'
        BY <1>2 DEF OtherUpdate, TypeOK, Smooth, bounds, disk, history, Holders
    <2> QED BY <1>2, <2>1 DEF OtherUpdate, GateIsHeld, FixIsHeld, WorkIsRecorded, Mine, disk
<1>3. CASE ManualSave
    <2>1. Saved \in Versions /\ commands' \in 0 .. MaxCommands
        BY <1>3 DEF ManualSave, Command, Saved, Versions, TypeOK
    <2>2. [decided EXCEPT !.config = Saved] \in Tuples
        BY <2>1 DEF TypeOK, Tuples
    <2>3. TypeOK'
        BY <1>3, <2>1, <2>2 DEF ManualSave, Command, TypeOK, locks
    <2> QED BY <1>3, <2>3 DEF ManualSave, GateIsHeld, FixIsHeld, WorkIsRecorded, Mine, locks
<1> QED BY <1>1, <1>2, <1>3

LEMMA RecoverExplicitOwned ==
    ASSUME Ownership, NEW preserve \in BOOLEAN, RecoverExplicit(preserve)
    PROVE  Ownership'
<1> USE ColdAssumptions, HoldersDiffer DEF Ownership
<1>1. intent' \in Intents
    BY DEF RecoverExplicit, TypeOK, Intents
<1>2. intent' # None
    BY <1>1, NoRecordIsMissing
<1>3. fix' \in [by : Holders, at : Fixes] /\ fix'.by = User /\ fix'.at = "check"
    BY DEF RecoverExplicit, Holders, Fixes
<1>4. commands' \in 0 .. MaxCommands /\ ops' = ops /\ mishaps' = mishaps
    BY DEF RecoverExplicit, Command, Smooth, bounds, TypeOK
<1>5. TypeOK'
    BY <1>1, <1>3, <1>4 DEF RecoverExplicit, TypeOK, history, Holders
<1>6. gate = None /\ UNCHANGED task
    BY DEF RecoverExplicit
<1>7. GateIsHeld' /\ WorkIsRecorded'
    BY <1>6, FreeGate DEF RecoverExplicit, GateIsHeld, WorkIsRecorded
<1>8. \A i \in Ids : task'[i] \notin {"finish", "settling"}
    BY <1>6, FreeGate DEF Guarded, Publishing
<1>9. FixIsHeld'
    BY <1>2, <1>3, <1>8 DEF RecoverExplicit, FixIsHeld
<1> QED BY <1>5, <1>7, <1>9

LEMMA MaintainOwned == ASSUME Ownership, Maintain PROVE Ownership'
<1> USE HoldersDiffer DEF Ownership
<1>1. fix' \in [by : Holders, at : Fixes] /\ fix'.by = Recoverer /\ fix'.at = "children"
    BY DEF Maintain, Holders, Fixes
<1>2. TypeOK'
    BY <1>1 DEF Maintain, TypeOK, Smooth, bounds, disk, history, Holders
<1>3. gate = None /\ UNCHANGED task
    BY DEF Maintain
<1>4. GateIsHeld' /\ WorkIsRecorded'
    BY <1>3, FreeGate DEF Maintain, GateIsHeld, WorkIsRecorded
<1>5. \A i \in Ids : task'[i] \notin {"finish", "settling"}
    BY <1>3, FreeGate DEF Guarded, Publishing
<1>6. FixIsHeld'
    BY <1>1, <1>5 DEF Maintain, FixIsHeld, Reconciling
<1> QED BY <1>2, <1>4, <1>6

LEMMA EditOwned == ASSUME Ownership, Edit PROVE Ownership'
<1> USE ColdAssumptions DEF Ownership
<1>1. Edited \in Versions /\ mishaps' \in 0 .. MaxMishaps
    BY DEF Edit, Mishap, Edited, Versions, TypeOK
<1>2. [decided EXCEPT !.config = Edited] \in Tuples
    BY <1>1 DEF TypeOK, Tuples
<1>3. TypeOK'
    BY <1>1, <1>2 DEF Edit, Mishap, TypeOK, locks
<1> QED BY <1>3 DEF Edit, GateIsHeld, FixIsHeld, WorkIsRecorded, Mine, locks

LEMMA CrashOwned == ASSUME Ownership, Crash PROVE Ownership'
<1> USE ColdAssumptions, HoldersDiffer DEF Ownership
<1>1. fix' \in [by : Holders, at : Fixes] /\ fix'.by = Recoverer /\ fix'.at = "children"
    BY DEF Crash, Holders, Fixes
<1>2. child' \in [Ids -> {"none", "running", "lost"}]
    BY DEF Crash, TypeOK
<1>3. task' \in [Ids -> Places] /\ \A i \in Ids : task'[i] \in {"none", "done"}
    BY DEF Crash, Places
<1>4. quiet' \in [Ids -> BOOLEAN] /\ mishaps' \in 0 .. MaxMishaps
    BY DEF Crash, Mishap, TypeOK
<1>5. TypeOK'
    BY <1>1, <1>2, <1>3, <1>4 DEF Crash, Mishap, TypeOK, disk, history, Holders
<1>6. GateIsHeld' /\ WorkIsRecorded'
    BY <1>3 DEF GateIsHeld, WorkIsRecorded, Guarded, Publishing, Working
<1>7. FixIsHeld'
    BY <1>1, <1>3 DEF Crash, FixIsHeld, Reconciling
<1> QED BY <1>5, <1>6, <1>7
-----------------------------------------------------------------------------
LEMMA OwnedStep == Ownership /\ [Next]_vars => Ownership'
<1> SUFFICES ASSUME Ownership, [Next]_vars PROVE Ownership'
    OBVIOUS
<1>1. ASSUME NEW i \in Ids, Work(i) PROVE Ownership'
    BY <1>1, BeginAgainOwned, StartOwned, ChildEndsOwned, ImportRegistersOwned, ChildFailsOwned, PublishBeginsOwned,
       IntendOwned, PlaceOwned, ImportConfigOwned, PromoteOwned, CommitOwned, StepFailsOwned,
       SettleOwned, CloseOwned, CleanOwned, ReleaseOwnerOwned DEF Work
<1>2. CASE Reconcile
    BY <1>2, FixBeginsOwned, FixConfigOwned, FixPointersOwned, FixResidueOwned, FixCandidateOwned,
       FixRecordOwned, FixEndsOwned, FixFailsOwned DEF Reconcile
<1>3. CASE Recovery
    BY <1>3, RecoverChildrenOwned, RecoverOperationOwned, RecoverCandidateOwned DEF Recovery
<1>4. CASE Request
    BY <1>4, BeginOwned, CancelTokenOwned, CancelRecordOwned, QuietRequestOwned, RecoverExplicitOwned,
       MaintainOwned DEF Request
<1>5. CASE Environment
    BY <1>5, EditOwned, CrashOwned, ChildGoesOwned DEF Environment
<1>6. CASE UNCHANGED vars
    <2>1. TypeOK'
        BY <1>6 DEF Ownership, TypeOK, vars
    <2> QED BY <1>6, <2>1 DEF Ownership, GateIsHeld, FixIsHeld, WorkIsRecorded, Mine, vars
<1> QED BY <1>1, <1>2, <1>3, <1>4, <1>5, <1>6 DEF Next

\* Who holds the gate, who reconciles and which operation a task works on are
\* always consistent, between the tasks, the handlers and the recovery.
THEOREM OwnersConsistent == Spec => []Ownership
BY OwnedInit, OwnedStep, PTL DEF Spec

\* The variables keep their types.
THEOREM TypeCorrect == Spec => []TypeOK
BY OwnersConsistent, PTL DEF Ownership

\* No task works on an operation that is not the recorded one, or whose owner
\* has been released.  (release_settled_owner, begin_with_details)
THEOREM WorkStaysOwned == Spec => []WorkIsOwned
<1>1. Ownership => WorkIsOwned
    BY DEF Ownership, WorkIsRecorded, WorkIsOwned
<1> QED BY <1>1, OwnersConsistent, PTL
-----------------------------------------------------------------------------
\* Operations are numbered as they begin; a cancellation that was accepted has
\* cancelled the token of a task at work, and meets no task that has the gate.
Begun ==
    /\ told \subseteq 1 .. ops
    /\ op # None => op.id <= ops
    /\ intent # None => intent.id <= ops
    /\ \A i \in Ids : i > ops => task[i] = "none"
Committing == {"publish", "intent", "placed", "config", "promoted"}
ToldAreCancelled ==
    \A i \in told : (task[i] \in Working => Cancelled(i)) /\ task[i] \notin Committing
Cancellation == Begun /\ ToldAreCancelled

\* A task comes to the gate uncancelled, and changes neither token nor number.
UncancelledStep(i) ==
    /\ UNCHANGED <<token, told, ops>>
    /\ \A j \in Ids : j # i => task'[j] = task[j]
    /\ task[i] # "none"
    /\ task'[i] \in Working => task[i] \in Working
    /\ task'[i] \in Committing => task[i] \in Committing \/ (task[i] \in Working /\ ~Cancelled(i))
    /\ op' # None => op # None /\ op'.id = op.id
    /\ intent' # None => \/ intent # None /\ intent'.id = intent.id
                         \/ op # None /\ intent'.id = op.id

LEMMA SettlingUncancelled ==
    ASSUME Ownership, NEW i \in Ids,
           Settle(i) \/ Close(i) \/ Clean(i) \/ ReleaseOwner(i)
    PROVE  UncancelledStep(i)
<1> USE DEF Ownership
<1>1. op' # None => op # None /\ op'.id = op.id
    <2>1. CASE Settle(i) \/ Close(i)
        BY <2>1, PendingTyped DEF Settle, Close
    <2>2. CASE Clean(i)
        BY <2>2 DEF Clean, Mine, TypeOK, Operations
    <2>3. CASE ReleaseOwner(i)
        BY <2>3 DEF ReleaseOwner, disk
    <2> QED BY <2>1, <2>2, <2>3
<1>2. \E place \in {"release", "settling", "close", "clean", "done"} : Goto(i, place)
    BY DEF Settle, Close, Clean, ReleaseOwner
<1>3. task'[i] \notin Working \cup Committing /\ \A j \in Ids : j # i => task'[j] = task[j]
    BY <1>2, GotoTyped DEF Working, Committing, Places
<1>4. UNCHANGED <<token, told, ops, intent>> /\ task[i] # "none"
    BY DEF Settle, Close, Clean, ReleaseOwner, Smooth, Mishap, bounds, history, disk
<1> QED BY <1>1, <1>3, <1>4 DEF UncancelledStep

LEMMA WorkUncancelled ==
    ASSUME Ownership, NEW i \in Ids, Work(i)
    PROVE  UncancelledStep(i)
<1> USE DEF Ownership
<1>1. task[i] # "none" /\ UNCHANGED <<token, told, ops>>
    BY DEF Work, BeginAgain, Start, ChildEnds, ImportRegisters, ChildFails, PublishBegins, Intend, Place,
       ImportConfig, Promote, Commit, StepFails, Settle, Close, Clean, ReleaseOwner,
       Smooth, Mishap, bounds, history, disk
<1>2. \E place \in Places : task' = [task EXCEPT ![i] = place]
    BY DEF Work, BeginAgain, Start, ChildEnds, ImportRegisters, ChildFails, PublishBegins, Intend, Place,
       ImportConfig, Promote, Commit, StepFails, Settle, Close, Clean, ReleaseOwner, Fails, Goto, Places
<1>3. \A j \in Ids : j # i => task'[j] = task[j]
    BY <1>2 DEF TypeOK
<1>4. CASE BeginAgain(i) \/ Start(i) \/ ChildEnds(i) \/ ImportRegisters(i) \/ PublishBegins(i)
    <2>1. op # None
        BY <1>4 DEF BeginAgain, Start, ChildEnds, ImportRegisters, PublishBegins, WorkIsRecorded, Working, Mine
    <2>2. op' = op \/ \E p \in Running : Phase(p)
        BY <1>4 DEF BeginAgain, Start, ChildEnds, ImportRegisters, PublishBegins, Running
    <2>3. op'.id = op.id /\ intent' = intent
        BY <1>4, <2>1, <2>2, PhaseTyped DEF BeginAgain, Start, ChildEnds, ImportRegisters, PublishBegins
    <2>4. task[i] \in Working
        BY <1>4 DEF BeginAgain, Start, ChildEnds, ImportRegisters, PublishBegins, Working
    <2>5. task'[i] \in Committing => ~Cancelled(i)
        BY <1>4 DEF BeginAgain, Start, ChildEnds, ImportRegisters, PublishBegins, Committing, NotCancelled,
           Fails, Goto, TypeOK
    <2> QED BY <1>1, <1>3, <2>1, <2>3, <2>4, <2>5 DEF UncancelledStep
<1>5. CASE Intend(i) \/ Place(i) \/ ImportConfig(i) \/ Promote(i) \/ Commit(i) \/ StepFails(i)
    <2>1. op # None /\ op.id = i /\ op' = op
        BY <1>5 DEF Intend, Place, ImportConfig, Promote, Commit, StepFails, WorkIsRecorded,
           Working, Mine, disk
    <2>2. task[i] \in Working /\ task[i] \in Committing
        BY <1>5 DEF Intend, Place, ImportConfig, Promote, Commit, StepFails, Working, Committing
    <2>3. intent' # None => intent'.id = i \/ (intent # None /\ intent'.id = intent.id)
        <3>1. CASE Intend(i)
            BY <3>1 DEF Intend
        <3>2. CASE Commit(i)
            BY <3>2, PublisherKnows DEF Commit, Publishing, Intents
        <3>3. CASE Place(i) \/ ImportConfig(i) \/ Promote(i) \/ StepFails(i)
            BY <3>3 DEF Place, ImportConfig, Promote, StepFails, disk
        <3> QED BY <1>5, <3>1, <3>2, <3>3
    <2> QED BY <1>1, <1>3, <2>1, <2>2, <2>3 DEF UncancelledStep
<1>6. CASE ChildFails(i)
    <2>1. task'[i] = "settle"
        BY <1>6 DEF ChildFails, Fails, Goto, TypeOK
    <2> QED BY <1>1, <1>3, <1>6, <2>1 DEF UncancelledStep, ChildFails, disk, Working, Committing
<1> QED BY <1>4, <1>5, <1>6, SettlingUncancelled DEF Work

LEMMA ReconcileUncancelled ==
    ASSUME Ownership, Reconcile \/ Recovery
    PROVE  /\ UNCHANGED <<token, told, ops>>
           /\ \A i \in Ids : task'[i] = task[i] \/ (task[i] # "none" /\ task'[i] \in {"settle", "close", "release"})
           /\ op' # None => \/ op # None /\ op'.id = op.id
                            \/ intent # None /\ op'.id = intent.id
           /\ intent' = intent \/ intent' = None
<1> USE HoldersDiffer DEF Ownership
<1>1. UNCHANGED <<token, told, ops>>
    BY DEF Reconcile, FixBegins, FixConfig, FixPointers, FixResidue, FixCandidate, FixRecord, FixEnds,
       FixFails, Recovery, RecoverChildren, RecoverOperation, RecoverCandidate, Smooth, Mishap, bounds,
       history
<1>2. intent' = intent \/ intent' = None
    BY DEF Reconcile, FixBegins, FixConfig, FixPointers, FixResidue, FixCandidate, FixRecord, FixEnds,
       FixFails, Recovery, RecoverChildren, RecoverOperation, RecoverCandidate, disk
<1>3. op' # None => \/ op # None /\ op'.id = op.id
                    \/ intent # None /\ op'.id = intent.id
    <2>1. CASE FixBegins \/ FixConfig \/ FixPointers \/ FixResidue \/ FixCandidate \/ FixEnds
        BY <2>1 DEF FixBegins, FixConfig, FixPointers, FixResidue, FixCandidate, FixEnds, disk
    <2>2. CASE FixRecord
        BY <2>2, IntentTyped DEF FixRecord, Fixing, Reconciling
    <2>3. CASE FixFails
        BY <2>3, PendingTyped DEF FixFails
    <2>4. CASE Recovery
        <3>1. \/ op' = op \/ op' = None
              \/ op # None /\ op' = [op EXCEPT !.phase = IF Terminal THEN @ ELSE "failed",
                                             !.quiescent = TRUE, !.cleanup = TRUE]
              \/ op # None /\ op' = [op EXCEPT !.cleanup = FALSE]
            BY <2>4 DEF Recovery, RecoverChildren, RecoverOperation, RecoverCandidate, Fixing, FixIsHeld
        <3>2. op \in Operations \cup {None}
            BY DEF TypeOK
        <3> QED BY <3>1, <3>2 DEF Operations
    <2> QED BY <2>1, <2>2, <2>3, <2>4 DEF Reconcile
<1>4. \A i \in Ids : task'[i] = task[i] \/ (task[i] # "none" /\ task'[i] \in {"settle", "close", "release"})
    <2>1. CASE FixEnds \/ FixFails
        <3>1. fix.by \in Ids => task[fix.by] # "none"
            BY DEF FixIsHeld
        <3>2. \/ UNCHANGED task
              \/ fix.by \in Ids /\ \E place \in {"settle", "close", "release"} : Goto(fix.by, place)
            BY <2>1, FixerIsHolder DEF FixEnds, FixFails, Fails, locks, Fixing
        <3> QED BY <3>1, <3>2 DEF Goto, TypeOK
    <2>2. CASE ~(FixEnds \/ FixFails)
        BY <2>2 DEF Reconcile, FixBegins, FixConfig, FixPointers, FixResidue, FixCandidate, FixRecord,
           Recovery, RecoverChildren, RecoverOperation, RecoverCandidate
    <2> QED BY <2>1, <2>2
<1> QED BY <1>1, <1>2, <1>3, <1>4

LEMMA CancellationInit == Init => Cancellation
BY DEF Init, Cancellation, Begun, ToldAreCancelled

LEMMA CancellationStep == Ownership /\ Cancellation /\ [Next]_vars => Cancellation'
<1> SUFFICES ASSUME Ownership, Cancellation, [Next]_vars PROVE Cancellation'
    OBVIOUS
<1> USE ColdAssumptions, HoldersDiffer DEF Cancellation
<1>0. TypeOK /\ ops \in Nat
    BY DEF Ownership, TypeOK
<1>1. ASSUME NEW i \in Ids, Work(i) PROVE Cancellation'
    <2>1. UncancelledStep(i)
        BY <1>1, WorkUncancelled
    <2>2. Begun'
        BY <2>1, <1>0 DEF Begun, UncancelledStep, Ids
    <2>3. ToldAreCancelled'
        BY <2>1, <1>0 DEF ToldAreCancelled, UncancelledStep, Cancelled, TypeOK
    <2> QED BY <2>2, <2>3
<1>2. CASE Reconcile \/ Recovery
    <2>1. Begun'
        BY <1>2, <1>0, ReconcileUncancelled DEF Begun
    <2>2. ToldAreCancelled'
        BY <1>2, <1>0, ReconcileUncancelled DEF ToldAreCancelled, Cancelled, TypeOK, Working, Committing
    <2> QED BY <2>1, <2>2
<1>3. ASSUME NEW kind \in Kinds, Begin(kind) PROVE Cancellation'
    <2>1. /\ ops' = ops + 1 /\ told' = told /\ intent' = None /\ op'.id = ops + 1
          /\ (\E place \in {"begin", "start"} : Goto(ops + 1, place)) /\ ops + 1 \in Ids
        BY <1>0, <1>3 DEF Begin, history, TypeOK, Ids
    <2>2. Begun'
        BY <1>0, <2>1 DEF Begun, Goto, TypeOK
    <2>3. \A j \in Ids : task[j] \notin Working
        BY <1>3 DEF Begin, Ownership, WorkIsRecorded
    <2>4. ToldAreCancelled'
        BY <1>0, <2>1, <2>3 DEF Begun, ToldAreCancelled, Goto, TypeOK, Working, Committing
    <2> QED BY <2>2, <2>4
<1>4. CASE CancelToken
    <2>1. token' = [token EXCEPT !.cancelled = TRUE] /\ token \in Tokens
        BY <1>0, <1>4 DEF CancelToken, TypeOK
    <2>2. token' # None /\ token'.id = token.id /\ token'.cancelled
        BY <2>1, NoRecordIsMissing DEF Tokens
    <2>3. UNCHANGED <<told, ops, op, intent, task>>
        BY <1>4 DEF CancelToken, Smooth, bounds, disk, history
    <2> QED BY <2>2, <2>3 DEF Begun, ToldAreCancelled, Cancelled
<1>5. CASE CancelRecord
    <2>1. /\ op # None
          /\ op'.id = op.id
          /\ told' = told \/ told' = told \cup {op.id}
          /\ op.id \in Ids
          /\ UNCHANGED <<token, ops, intent, task>>
        <3>1. op # None /\ op \in Operations /\ op.id \in Ids
            BY <1>0, <1>5 DEF CancelRecord, TypeOK, Operations
        <3>2. op'.id = op.id
            BY <1>5, <3>1 DEF CancelRecord, Phase, Operations
        <3> QED BY <1>5, <3>1, <3>2 DEF CancelRecord, Smooth, Mishap, bounds
    <2>2. op.id \in 1 .. ops
        BY <1>0, <2>1 DEF Begun, Ids
    <2>3. told' \subseteq 1 .. ops'
        BY <2>1, <2>2 DEF Begun
    <2>4. Begun'
        BY <1>0, <2>1, <2>2, <2>3 DEF Begun
    <2>5. task[op.id] \in Working => Cancelled(op.id)
        BY <1>5, <2>1 DEF CancelRecord, Ownership, WorkIsRecorded, Mine, Cancelled
    <2>6. task[op.id] \notin Committing
        BY <1>5, <2>1, FreeGate DEF CancelRecord, Guarded, Publishing, Committing
    <2> QED BY <2>1, <2>4, <2>5, <2>6 DEF ToldAreCancelled, Cancelled
<1>6. CASE ClearFinished \/ OtherUpdate \/ ManualSave \/ Maintain \/ Edit \/ UNCHANGED vars
           \/ \E i \in Ids : ChildGoes(i)
    BY <1>6 DEF ClearFinished, OtherUpdate, ManualSave, Maintain, Edit, ChildGoes, vars, Smooth, Mishap,
       Command, bounds, disk, history, Begun, ToldAreCancelled, Cancelled
<1>7. ASSUME NEW preserve \in BOOLEAN, RecoverExplicit(preserve) PROVE Cancellation'
    BY <1>0, <1>7 DEF RecoverExplicit, Smooth, Command, bounds, history, Begun, ToldAreCancelled,
       Cancelled, TypeOK, Intents
<1>8. CASE Crash
    <2>1. UNCHANGED <<told, ops, op, intent>>
        BY <1>8 DEF Crash, Mishap, disk, history
    <2>2. \A i \in Ids : task'[i] = IF task[i] = "none" THEN "none" ELSE "done"
        BY <1>8 DEF Crash
    <2> QED BY <1>0, <2>1, <2>2 DEF Begun, ToldAreCancelled, TypeOK, Working, Committing
<1> QED BY <1>1, <1>2, <1>3, <1>4, <1>5, <1>6, <1>7, <1>8 DEF Next, Request, Environment

\* A cancellation that was accepted while the operation ran is never followed by
\* a commit of that operation.  (cancel, ensure_not_cancelled under the gate)
THEOREM CancelStaysHonoured == Spec => CancelIsHonoured
<1> DEFINE Honours == \A i \in told : (intent' # None /\ intent'.id = i /\ intent'.committed)
                                          => (intent # None /\ intent.committed)
<1>1. Init => Ownership /\ Cancellation
    BY OwnedInit, CancellationInit
<1>2. Ownership /\ Cancellation /\ [Next]_vars => (Ownership /\ Cancellation)'
    BY OwnedStep, CancellationStep
<1>3. Ownership /\ Cancellation /\ [Next]_vars => Honours
    <2> SUFFICES ASSUME Ownership, Cancellation, [Next]_vars, NEW i \in told,
                        intent' # None, intent'.id = i, intent'.committed
                 PROVE  intent # None /\ intent.committed
        OBVIOUS
    <2>1. ASSUME NEW j \in Ids, Work(j) PROVE intent # None /\ intent.committed
        <3>1. CASE Intend(j)
            BY <3>1 DEF Intend
        <3>2. CASE Commit(j)
            <4>1. task[j] \in Committing /\ task[j] \in Publishing /\ intent' = [intent EXCEPT !.committed = TRUE]
                BY <3>2 DEF Commit, Committing, Publishing
            <4>2. intent \in Intents /\ intent.id = j
                BY <4>1, PublisherKnows
            <4>3. intent'.id = j
                BY <4>1, <4>2 DEF Intents
            <4> QED BY <4>1, <4>3 DEF Cancellation, ToldAreCancelled
        <3>3. CASE ~Intend(j) /\ ~Commit(j)
            BY <2>1, <3>3 DEF Work, BeginAgain, Start, ChildEnds, ImportRegisters, ChildFails, PublishBegins, Place,
               ImportConfig, Promote, StepFails, Settle, Close, Clean, ReleaseOwner, disk
        <3> QED BY <3>1, <3>2, <3>3
    <2>2. CASE Reconcile \/ Recovery
        BY <2>2, ReconcileUncancelled
    <2>3. ASSUME NEW preserve \in BOOLEAN, RecoverExplicit(preserve)
          PROVE  intent # None /\ intent.committed
        BY <2>3 DEF RecoverExplicit, Ownership, TypeOK, Intents
    <2>4. ASSUME NEW kind \in Kinds, Begin(kind) PROVE FALSE
        BY <2>4 DEF Begin
    <2>5. CASE CancelToken \/ CancelRecord \/ ClearFinished \/ OtherUpdate \/ ManualSave \/ Maintain
               \/ Environment \/ UNCHANGED vars
        BY <2>5 DEF CancelToken, CancelRecord, ClearFinished, OtherUpdate, ManualSave, Maintain,
           Environment, Edit, Crash, ChildGoes, vars, disk
    <2> QED BY <2>1, <2>2, <2>3, <2>4, <2>5 DEF Next, Request
<1> QED BY <1>1, <1>2, <1>3, PTL DEF Spec, CancelIsHonoured
-----------------------------------------------------------------------------
\* What an intent says, what the steps of a task and of a reconciliation know of
\* it, and what the last decision amounts to at each of them.
IntentIsFormed ==
    intent # None => /\ intent.only <=> intent.kind = "switch"
                     /\ intent.only => intent.target = intent.previous
StepsKnowIntent ==
    \A i \in Ids : /\ task[i] = "config" => op.kind = "import"
                   /\ task[i] = "promoted" => op.kind # "switch"
                   /\ task[i] = "finish" => intent.committed
FixKnowsIntent ==
    /\ fix.at \in {"config", "pointers"} => ~intent.only /\ ~intent.preserve
    /\ fix.at = "residue" => ~intent.committed
    /\ fix.at = "config" /\ ~edited => config \in {intent.previous.config, intent.target.config}
Late == {"residue", "candidate", "record", "intent"}
DecisionIsKept ==
    /\ intent = None /\ ~edited => Tuple = decided
    /\ intent # None => decided = IF intent.only THEN Tuple ELSE Wanted
    /\ fix.at = "pointers" /\ ~edited => config = Wanted.config
    /\ fix.at \in Late /\ ~intent.only /\ ~intent.preserve
           => pointers = Wanted.pointers /\ (~edited => config = Wanted.config)
Deciding == IntentIsFormed /\ StepsKnowIntent /\ FixKnowsIntent /\ DecisionIsKept

LEMMA DecidingInit == Init => Deciding
BY DEF Init, Idle, Deciding, IntentIsFormed, StepsKnowIntent, FixKnowsIntent, DecisionIsKept, Late

\* Most steps touch neither the stores nor the intent, and leave every task that
\* goes on publishing where it is.
Undisturbed ==
    /\ UNCHANGED <<intent, config, pointers, slots, owned, decided, edited>>
    /\ fix'.at = fix.at \/ fix'.at \notin Late \cup {"config", "pointers"}
    /\ \A i \in Ids : task'[i] \in Publishing => task'[i] = task[i] /\ op'.kind = op.kind

LEMMA DecidingKept == Deciding /\ Undisturbed => Deciding'
<1> SUFFICES ASSUME Deciding, Undisturbed PROVE Deciding'
    OBVIOUS
<1> USE DEF Deciding, Undisturbed
<1>1. StepsKnowIntent'
    BY DEF StepsKnowIntent, Publishing
<1> QED BY <1>1 DEF IntentIsFormed, FixKnowsIntent, DecisionIsKept, Tuple, Wanted, Late

\* A task that works on its own publication meets no reconciliation.
LEMMA PublisherAlone ==
    ASSUME Ownership, NEW i \in Ids, task[i] \in Committing
    PROVE  /\ fix.at = "none" /\ \A j \in Ids : task[j] \in Publishing => j = i
           /\ op # None
BY HoldersDiffer DEF Ownership, FixIsHeld, GateIsHeld, Guarded, Publishing, Committing, WorkIsRecorded,
   Working, Mine

\* Once the reconciler has gone on, no task publishes.
LEMMA OnlyFixerPublishes ==
    ASSUME Ownership, fix.at \in Reconciling,
           \/ fix.by \in Ids /\ \E place \in {"close", "settle", "release"} : Goto(fix.by, place)
           \/ fix.by \in {User, Recoverer} /\ UNCHANGED task
    PROVE  \A j \in Ids : task'[j] \notin Publishing
<1>1. \A j \in Ids : task[j] \in Publishing => fix.by = j
    BY WorkerReconciles DEF Publishing, Working
<1>2. CASE fix.by \in {User, Recoverer} /\ UNCHANGED task
    BY <1>1, <1>2, HoldersDiffer
<1>3. ASSUME fix.by \in Ids, NEW place \in {"close", "settle", "release"}, Goto(fix.by, place)
      PROVE  \A j \in Ids : task'[j] \notin Publishing
    <2>1. place \in Places /\ place \notin Publishing
        BY DEF Places, Publishing
    <2> QED BY <1>1, <1>3, <2>1, GotoTyped DEF Ownership
<1> QED BY <1>2, <1>3

LEMMA WorkElsewhere ==
    ASSUME Ownership, NEW i \in Ids, Work(i),
           ~(Intend(i) \/ Place(i) \/ ImportConfig(i) \/ Promote(i) \/ Commit(i))
    PROVE  Undisturbed
<1> USE DEF Ownership
<1>1. CASE BeginAgain(i) \/ Start(i) \/ ChildEnds(i) \/ ImportRegisters(i) \/ PublishBegins(i)
    <2>1. op # None
        BY <1>1 DEF BeginAgain, Start, ChildEnds, ImportRegisters, PublishBegins, WorkIsRecorded, Working, Mine
    <2>2. op' = op \/ \E p \in Running : Phase(p)
        BY <1>1 DEF BeginAgain, Start, ChildEnds, ImportRegisters, PublishBegins, Running
    <2>3. op'.kind = op.kind
        BY <2>1, <2>2, PhaseTyped
    <2>4. \E place \in {"start", "done", "child", "verify", "commit", "publish", "settle"} : Goto(i, place)
        BY <1>1 DEF BeginAgain, Start, ChildEnds, ImportRegisters, PublishBegins, Fails
    <2>5. \A j \in Ids : task'[j] \in Publishing => task'[j] = task[j]
        BY <2>4, GotoTyped DEF Publishing, Places
    <2>6. UNCHANGED <<intent, config, pointers, slots, owned, decided, edited, fix>>
        BY <1>1 DEF BeginAgain, Start, ChildEnds, ImportRegisters, PublishBegins, history
    <2> QED BY <2>3, <2>5, <2>6 DEF Undisturbed
<1>2. CASE ChildFails(i) \/ StepFails(i)
    <2>1. \A j \in Ids : task'[j] \in Publishing => task'[j] = task[j]
        BY <1>2, FailsTyped DEF ChildFails, StepFails, Publishing
    <2>2. UNCHANGED <<op, intent, config, pointers, slots, owned, decided, edited, fix>>
        BY <1>2 DEF ChildFails, StepFails, disk, history
    <2> QED BY <2>1, <2>2 DEF Undisturbed
<1>3. CASE Settle(i) \/ Close(i) \/ Clean(i) \/ ReleaseOwner(i)
    <2>1. \E place \in {"release", "settling", "close", "clean", "done"} : Goto(i, place)
        BY <1>3 DEF Settle, Close, Clean, ReleaseOwner
    <2>2. \A j \in Ids : task'[j] \in Publishing => j # i /\ task'[j] = task[j]
        BY <2>1, GotoTyped DEF Publishing, Places
    <2>3. UNCHANGED <<intent, config, pointers, slots, owned, decided, edited>>
        BY <1>3 DEF Settle, Close, Clean, ReleaseOwner, disk, history
    <2>4. fix' = fix \/ fix' = [by |-> i, at |-> "check"]
        BY <1>3 DEF Settle, Close, Clean, ReleaseOwner
    <2>5. Mine(i) => \A j \in Ids : j # i => task[j] \notin Publishing
        BY DEF WorkIsRecorded, Working, Publishing, Mine
    <2>6. ~Mine(i) => op' = op
        BY <1>3, PendingTyped DEF Settle, Close, Clean, ReleaseOwner, disk
    <2>7. \A j \in Ids : task'[j] \in Publishing => op'.kind = op.kind
        BY <2>2, <2>5, <2>6
    <2>8. fix'.at = fix.at \/ fix'.at \notin Late \cup {"config", "pointers"}
        BY <2>4 DEF Late
    <2> QED BY <2>2, <2>3, <2>7, <2>8 DEF Undisturbed
<1> QED BY <1>1, <1>2, <1>3 DEF Work

LEMMA OthersElsewhere ==
    ASSUME Ownership,
           \/ FixFails \/ Recovery \/ Crash \/ (\E i \in Ids : ChildGoes(i)) \/ UNCHANGED vars
           \/ (\E kind \in Kinds : Begin(kind)) \/ CancelToken \/ CancelRecord \/ ClearFinished
           \/ OtherUpdate \/ Maintain
    PROVE  Undisturbed
<1> USE HoldersDiffer DEF Ownership
<1>1. CASE FixFails
    <2>1. UNCHANGED <<intent, config, pointers, slots, owned, decided, edited>> /\ fix' = Idle
        BY <1>1 DEF FixFails, history
    <2>2. fix.at \in Reconciling /\ fix.at # "none"
        BY <1>1 DEF FixFails, Reconciling
    <2>3. \/ fix.by \in Ids /\ \E place \in {"settle", "release"} : Goto(fix.by, place)
          \/ fix.by \in {User, Recoverer} /\ UNCHANGED task
        BY <1>1, <2>2, FixerIsHolder DEF FixFails, Fails
    <2>4. \A j \in Ids : task'[j] \notin Publishing
        BY <2>2, <2>3, OnlyFixerPublishes
    <2> QED BY <2>1, <2>4 DEF Undisturbed, Idle, Late
<1>2. CASE Recovery
    <2>1. UNCHANGED <<intent, config, pointers, slots, owned, decided, edited, task>>
        BY <1>2 DEF Recovery, RecoverChildren, RecoverOperation, RecoverCandidate, history
    <2>2. fix'.at \in {"none", "check", "operation", "clean"}
        BY <1>2, FixAtTyped DEF Recovery, RecoverChildren, RecoverOperation, RecoverCandidate, Idle, Fixes
    <2>3. fix.by = Recoverer
        BY <1>2 DEF Recovery, RecoverChildren, RecoverOperation, RecoverCandidate, Fixing, FixIsHeld
    <2>4. \A j \in Ids : task[j] \notin Publishing
        BY <2>3 DEF FixIsHeld, WorkIsRecorded, Publishing, Working
    <2> QED BY <2>1, <2>2, <2>4 DEF Undisturbed, Late
<1>3. CASE Crash
    <2>1. UNCHANGED <<intent, config, pointers, slots, owned, decided, edited>> /\ fix'.at = "children"
        BY <1>3 DEF Crash, disk, history
    <2>2. \A j \in Ids : task'[j] \notin Publishing
        BY <1>3 DEF Crash, Publishing
    <2> QED BY <2>1, <2>2 DEF Undisturbed, Late
<1>4. CASE (\E i \in Ids : ChildGoes(i)) \/ CancelToken \/ OtherUpdate \/ UNCHANGED vars
    BY <1>4 DEF ChildGoes, CancelToken, OtherUpdate, vars, disk, history, Undisturbed
<1>5. ASSUME NEW kind \in Kinds, Begin(kind) PROVE Undisturbed
    <2>1. UNCHANGED <<intent, config, pointers, slots, owned, decided, edited, fix>>
        BY <1>5 DEF Begin, history
    <2>2. \A j \in Ids : task[j] \notin Publishing
        BY <1>5, FreeGate DEF Begin, Guarded
    <2>3. \A j \in Ids : task'[j] \notin Publishing
        BY <1>5, <2>2 DEF Begin, Goto, TypeOK, Publishing
    <2> QED BY <2>1, <2>3 DEF Undisturbed
<1>6. CASE CancelRecord \/ ClearFinished
    <2>1. UNCHANGED <<intent, config, pointers, slots, owned, decided, edited, fix, task>>
        BY <1>6 DEF CancelRecord, ClearFinished, history
    <2>2. \A j \in Ids : task[j] \notin Publishing
        BY <1>6, FreeGate DEF CancelRecord, ClearFinished, Guarded
    <2> QED BY <2>1, <2>2 DEF Undisturbed
<1>7. CASE Maintain
    <2>1. UNCHANGED <<op, intent, config, pointers, slots, owned, task, decided, edited>>
          /\ fix'.at = "children"
        BY <1>7 DEF Maintain, disk, history
    <2> QED BY <2>1 DEF Undisturbed, Late
<1> QED BY <1>1, <1>2, <1>3, <1>4, <1>5, <1>6, <1>7

LEMMA WorkDecides ==
    ASSUME Ownership, Deciding, NEW i \in Ids, Work(i)
    PROVE  Deciding'
<1> USE DEF Ownership
<1>1. CASE Intend(i)
    <2>1. /\ fix.at = "none" /\ \A j \in Ids : task[j] \in Publishing => j = i
          /\ op # None
        BY <1>1, PublisherAlone DEF Intend, Committing
    <2>2. PICK s :
              intent' = [id |-> i, kind |-> op.kind, only |-> op.kind = "switch", committed |-> FALSE,
                         preserve |-> FALSE, previous |-> Tuple,
                         target |->
                            IF op.kind = "switch" THEN Tuple
                            ELSE [config |-> [n |-> i, runtime |-> IF op.kind = "import" THEN i
                                                                   ELSE Bundled],
                                  pointers |-> [current |-> s, lkg |-> Fallback(s)]],
                         new |-> i \in candidates]
        BY <1>1 DEF Intend
    <2>3. /\ intent'.only <=> intent'.kind = "switch"
          /\ intent'.only => intent'.target = intent'.previous
          /\ ~intent'.committed /\ intent'.previous = Tuple
        BY <2>2
    <2>4. decided' = Tuple /\ Tuple' = Tuple /\ fix' = fix
        BY <1>1 DEF Intend, Tuple
    <2>5. \A j \in Ids : task'[j] \notin {"config", "promoted", "finish"}
        BY <1>1, <2>1, GotoTyped DEF Intend, Places, Publishing
    <2>6. intent' # None
        <3>1. task'[i] = "intent"
            BY <1>1, GotoTyped DEF Intend, Places
        <3> QED BY <1>1, <3>1, IntendOwned DEF WorkIsRecorded, Working, Publishing
    <2> QED BY <2>1, <2>3, <2>4, <2>5, <2>6
            DEF Deciding, IntentIsFormed, StepsKnowIntent, FixKnowsIntent, DecisionIsKept, Wanted, Late
<1>2. CASE ImportConfig(i)
    <2>1. /\ fix.at = "none" /\ \A j \in Ids : task[j] \in Publishing => j = i
          /\ op # None /\ intent # None /\ intent.kind = "import"
        BY <1>2, PublisherAlone, PublisherKnows DEF ImportConfig, Committing, Publishing
    <2>2. UNCHANGED <<op, intent, pointers, decided, edited, fix>>
        BY <1>2 DEF ImportConfig, history
    <2>3. \A j \in Ids : task'[j] \in Publishing => j = i /\ task'[j] = "config"
        BY <1>2, <2>1, GotoTyped, FailsTyped DEF ImportConfig, Places, Publishing
    <2>4. ~intent.only
        BY <2>1 DEF Deciding, IntentIsFormed
    <2> QED BY <1>2, <2>1, <2>2, <2>3, <2>4
            DEF ImportConfig, Deciding, IntentIsFormed, StepsKnowIntent, FixKnowsIntent, DecisionIsKept,
                Wanted, Late, Publishing
<1>3. CASE Promote(i)
    <2>1. /\ fix.at = "none" /\ \A j \in Ids : task[j] \in Publishing => j = i
          /\ op # None /\ intent # None /\ intent.kind = op.kind
        BY <1>3, PublisherAlone, PublisherKnows DEF Promote, Committing, Publishing
    <2>2. UNCHANGED <<op, intent, config, decided, edited, fix>>
        BY <1>3 DEF Promote, history
    <2>3. \A j \in Ids : task'[j] \in Publishing => j = i /\ task'[j] = "promoted"
        BY <1>3, <2>1, GotoTyped DEF Promote, Places, Publishing
    <2>4. op.kind # "switch"
        BY <1>3 DEF Promote, Deciding, StepsKnowIntent
    <2>5. ~intent.only
        BY <2>1, <2>4 DEF Deciding, IntentIsFormed
    <2> QED BY <2>1, <2>2, <2>3, <2>4, <2>5
            DEF Deciding, IntentIsFormed, StepsKnowIntent, FixKnowsIntent, DecisionIsKept,
                Wanted, Late, Publishing
<1>4. CASE Commit(i)
    <2>1. /\ \A j \in Ids : task[j] \in Publishing => j = i
          /\ op # None /\ intent # None /\ intent.kind = op.kind /\ intent \in Intents
        BY <1>4, PublisherAlone, PublisherKnows DEF Commit, Committing, Publishing
    <2>2. /\ intent' # None /\ intent'.only = intent.only /\ intent'.kind = intent.kind
          /\ intent'.previous = intent.previous /\ intent'.target = intent.target /\ intent'.committed
        BY <1>4, <2>1, CommitOwned DEF Commit, Intents, WorkIsRecorded, Goto, TypeOK, Working, Publishing
    <2>3. UNCHANGED <<op, config, pointers, edited>> /\ fix'.at = "check"
        BY <1>4 DEF Commit
    <2>4. \A j \in Ids : task'[j] \in Publishing => j = i /\ task'[j] = "finish"
        BY <1>4, <2>1, GotoTyped DEF Commit, Places, Publishing
    <2>5. decided' = IF intent.only THEN decided ELSE intent.target
        BY <1>4 DEF Commit
    <2> QED BY <2>1, <2>2, <2>3, <2>4, <2>5
            DEF Deciding, IntentIsFormed, StepsKnowIntent, FixKnowsIntent, DecisionIsKept,
                Wanted, Late, Publishing, Tuple
<1>5. CASE Place(i)
    <2>1. UNCHANGED <<op, intent, config, pointers, decided, edited, fix>>
        BY <1>5 DEF Place, history
    <2>2. \A j \in Ids : j # i => task'[j] = task[j]
        BY <1>5, GotoTyped DEF Place, Places
    <2>3. task'[i] = "placed"
        BY <1>5, GotoTyped DEF Place, Places
    <2> QED BY <2>1, <2>2, <2>3
            DEF Deciding, IntentIsFormed, StepsKnowIntent, FixKnowsIntent, DecisionIsKept, Tuple, Wanted
<1>6. CASE ~(Intend(i) \/ Place(i) \/ ImportConfig(i) \/ Promote(i) \/ Commit(i))
    BY <1>6, WorkElsewhere, DecidingKept
<1> QED BY <1>1, <1>2, <1>3, <1>4, <1>5, <1>6

LEMMA FixDecides ==
    ASSUME Ownership, Deciding, Reconcile
    PROVE  Deciding'
<1> USE HoldersDiffer DEF Ownership
<1>1. fix.at \in Reconciling /\ fix.at # "none"
    BY DEF Reconcile, FixBegins, FixConfig, FixPointers, FixResidue, FixCandidate, FixRecord, FixEnds,
       FixFails, Fixing, Reconciling
<1>2. intent # None /\ intent \in Intents /\ Wanted \in Tuples
    BY <1>1, IntentTyped
<1>3. \A j \in Ids : task[j] \in Publishing => task[j] = "finish" /\ intent.kind = op.kind
    BY <1>1, WorkerReconciles DEF Publishing, Working
<1>4. CASE FixBegins
    <2>1. UNCHANGED <<op, intent, config, pointers, decided, edited, task>> /\ fix'.at = FirstStep
        BY <1>4, FixAtTyped DEF FixBegins, FixAt, disk, history, FirstStep, Fixes
    <2>2. ~Conflict
        BY <1>4 DEF FixBegins
    <2> QED BY <1>2, <2>1, <2>2
            DEF FirstStep, Conflict, Deciding, IntentIsFormed, StepsKnowIntent, FixKnowsIntent,
                DecisionIsKept, Tuple, Wanted, Late
<1>5. CASE FixConfig
    <2>1. UNCHANGED <<op, intent, pointers, decided, edited, task>>
        BY <1>5 DEF FixConfig, history
    <2>2. fix.at = "config" /\ fix'.at = "pointers" /\ config' = Wanted.config
        BY <1>5, FixAtTyped DEF FixConfig, Fixing, Fixes
    <2> QED BY <1>2, <2>1, <2>2
            DEF Deciding, IntentIsFormed, StepsKnowIntent, FixKnowsIntent, DecisionIsKept, Wanted, Late
<1>6. CASE FixPointers
    <2> DEFINE next == IF intent.committed THEN "candidate" ELSE "residue"
    <2>1. UNCHANGED <<op, intent, config, decided, edited, task>>
        BY <1>6 DEF FixPointers, history
    <2>2. fix.at = "pointers" /\ fix'.at = next /\ pointers' = Wanted.pointers
        BY <1>6, FixAtTyped DEF FixPointers, Fixing, Fixes
    <2> QED BY <1>2, <2>1, <2>2
            DEF Deciding, IntentIsFormed, StepsKnowIntent, FixKnowsIntent, DecisionIsKept, Wanted, Late
<1>7. CASE FixResidue \/ FixCandidate
    <2>1. UNCHANGED <<op, intent, config, pointers, decided, edited, task>>
        BY <1>7 DEF FixResidue, FixCandidate, history
    <2>2. fix.at \in {"residue", "candidate"} /\ fix'.at \in {"candidate", "record"}
        BY <1>7, FixAtTyped DEF FixResidue, FixCandidate, Fixing, Fixes
    <2> QED BY <1>2, <2>1, <2>2
            DEF Deciding, IntentIsFormed, StepsKnowIntent, FixKnowsIntent, DecisionIsKept, Tuple, Wanted, Late
<1>8. CASE FixRecord
    <2>1. UNCHANGED <<intent, config, pointers, decided, edited, task>>
        BY <1>8 DEF FixRecord, history
    <2>2. fix.at = "record" /\ fix'.at = "intent"
        BY <1>8, FixAtTyped DEF FixRecord, Fixing, Fixes
    <2>3. StepsKnowIntent'
        BY <1>3, <2>1 DEF Deciding, StepsKnowIntent, Publishing
    <2> QED BY <1>2, <2>1, <2>2, <2>3
            DEF Deciding, IntentIsFormed, FixKnowsIntent, DecisionIsKept, Tuple, Wanted, Late
<1>9. CASE FixEnds
    <2>1. /\ intent' = None /\ fix.at = "intent" /\ UNCHANGED <<config, pointers>>
          /\ decided' = (IF intent.preserve THEN Tuple ELSE decided)
          /\ edited' = (edited /\ ~intent.preserve)
        BY <1>9 DEF FixEnds, Fixing
    <2>2. fix'.at \in {"none", "operation"}
        <3>1. fix' = Idle \/ FixAt("operation")
            BY <1>1, <1>9, FixerIsHolder DEF FixEnds
        <3> QED BY <3>1, FixAtTyped DEF Idle, Fixes
    <2>3. \A j \in Ids : task'[j] \notin Publishing
        <3>1. \/ fix.by \in Ids /\ \E place \in {"close", "release"} : Goto(fix.by, place)
              \/ fix.by \in {User, Recoverer} /\ UNCHANGED task
            BY <1>1, <1>9, FixerIsHolder DEF FixEnds
        <3> QED BY <1>1, <3>1, OnlyFixerPublishes
    <2>4. ~edited /\ ~intent.preserve => Tuple = decided
        <3>1. CASE intent.only
            BY <1>2, <3>1 DEF Deciding, DecisionIsKept
        <3>2. CASE ~intent.only /\ ~edited /\ ~intent.preserve
            <4>1. pointers = Wanted.pointers /\ config = Wanted.config /\ decided = Wanted
                BY <1>2, <2>1, <3>2 DEF Deciding, DecisionIsKept, Late
            <4> QED BY <1>2, <4>1 DEF Tuple, Tuples
        <3> QED BY <3>1, <3>2
    <2>5. ~edited' => Tuple' = decided'
        BY <2>1, <2>4 DEF Tuple
    <2> QED BY <2>1, <2>2, <2>3, <2>5
            DEF Deciding, IntentIsFormed, StepsKnowIntent, FixKnowsIntent, DecisionIsKept, Late, Publishing
<1>10. CASE FixFails
    BY <1>10, OthersElsewhere, DecidingKept
<1> QED BY <1>4, <1>5, <1>6, <1>7, <1>8, <1>9, <1>10 DEF Reconcile

LEMMA RequestDecides ==
    ASSUME Ownership, Deciding, Request
    PROVE  Deciding'
<1> USE HoldersDiffer DEF Ownership
<1>1. CASE ManualSave
    <2>1. /\ UNCHANGED <<op, intent, pointers, task, fix, edited>> /\ intent = None /\ fix.at = "none"
          /\ config' = Saved /\ decided' = [decided EXCEPT !.config = Saved]
        BY <1>1, FreeGate DEF ManualSave
    <2>2. ~edited => Tuple' = decided'
        BY <2>1 DEF Deciding, DecisionIsKept, Tuple
    <2> QED BY <2>1, <2>2
            DEF Deciding, IntentIsFormed, StepsKnowIntent, FixKnowsIntent, DecisionIsKept, Late
<1>2. ASSUME NEW preserve \in BOOLEAN, RecoverExplicit(preserve) PROVE Deciding'
    <2>1. UNCHANGED <<op, config, pointers, task, decided, edited>> /\ fix'.at = "check"
        BY <1>2 DEF RecoverExplicit, history
    <2>2. /\ intent' # None /\ intent # None
          /\ intent'.only = intent.only /\ intent'.kind = intent.kind /\ intent'.committed = intent.committed
          /\ intent'.previous = intent.previous /\ intent'.target = intent.target
        <3>1. intent \in Intents /\ intent # None /\ intent' = [intent EXCEPT !.preserve = @ \/ preserve]
            BY <1>2 DEF RecoverExplicit, TypeOK
        <3>2. intent' \in Intents
            BY <3>1 DEF Intents
        <3> QED BY <3>1, <3>2, NoRecordIsMissing DEF Intents
    <2> QED BY <2>1, <2>2
            DEF Deciding, IntentIsFormed, StepsKnowIntent, FixKnowsIntent, DecisionIsKept, Tuple, Wanted, Late
<1>3. CASE ~ManualSave /\ ~\E preserve \in BOOLEAN : RecoverExplicit(preserve)
    BY <1>3, OthersElsewhere, DecidingKept DEF Request
<1> QED BY <1>1, <1>2, <1>3 DEF Request

LEMMA EnvironmentDecides ==
    ASSUME Ownership, Deciding, Environment
    PROVE  Deciding'
<1> USE HoldersDiffer DEF Ownership
<1>1. CASE Edit
    <2>1. UNCHANGED <<op, intent, pointers, task, fix>>
        BY <1>1 DEF Edit
    <2>2. /\ config' = Edited
          /\ decided' = (IF intent = None \/ intent.only THEN [decided EXCEPT !.config = Edited] ELSE decided)
          /\ edited' = (edited \/ (intent # None /\ fix # Idle))
        BY <1>1 DEF Edit
    <2>3. intent # None /\ fix.at # "none" => edited'
        <3>1. fix.at # "none" => fix # Idle
            BY DEF Idle
        <3> QED BY <2>2, <3>1
    <2>4. Tuple = decided /\ (intent = None \/ intent.only) => Tuple' = decided'
        BY <2>1, <2>2 DEF Tuple
    <2>5. DecisionIsKept'
        BY <2>1, <2>2, <2>3, <2>4 DEF Deciding, DecisionIsKept, Wanted, Late, FixIsHeld, Reconciling
    <2> QED BY <2>1, <2>3, <2>5
            DEF Deciding, IntentIsFormed, StepsKnowIntent, FixKnowsIntent, FixIsHeld, Reconciling
<1>2. CASE ~Edit
    BY <1>2, OthersElsewhere, DecidingKept DEF Environment
<1> QED BY <1>1, <1>2

LEMMA DecidingStep == Ownership /\ Deciding /\ [Next]_vars => Deciding'
BY WorkDecides, FixDecides, RequestDecides, EnvironmentDecides, OthersElsewhere, DecidingKept DEF Next

\* Once no intent is left, the configuration and the pointers are together what
\* the last decision made them.  (recover_publication, reconcile_publication)
THEOREM TupleStaysWhole == Spec => []TupleIsWhole
<1>1. Init => Ownership /\ Deciding
    BY OwnedInit, DecidingInit
<1>2. Ownership /\ Deciding /\ [Next]_vars => (Ownership /\ Deciding)'
    BY OwnedStep, DecidingStep
<1>3. Deciding => TupleIsWhole
    BY DEF Deciding, DecisionIsKept, TupleIsWhole
<1> QED BY <1>1, <1>2, <1>3, PTL DEF Spec

\* An edit that neither the previous nor the target configuration explains is
\* not overwritten, unless it comes while the reconciliation is under way.
\* (the conflict of reconcile_publication, write_if_current)
THEOREM EditsAreKept == Spec => EditsSurvive
<1> DEFINE Keeps == (intent # None /\ ~intent.only /\ ~edited
                       /\ config \notin {intent.previous.config, intent.target.config})
                          => (config' = config \/ Edit)
<1>1. Init => Ownership /\ Deciding
    BY OwnedInit, DecidingInit
<1>2. Ownership /\ Deciding /\ [Next]_vars => (Ownership /\ Deciding)'
    BY OwnedStep, DecidingStep
<1>3. Ownership /\ Deciding /\ [Next]_vars => Keeps
    <2> SUFFICES ASSUME Ownership, Deciding, [Next]_vars, intent # None, ~intent.only, ~edited,
                        config \notin {intent.previous.config, intent.target.config}
                 PROVE  config' = config \/ Edit
        OBVIOUS
    <2>1. ASSUME NEW i \in Ids, Work(i) PROVE config' = config
        BY <2>1 DEF Work, BeginAgain, Start, ChildEnds, ImportRegisters, ChildFails, PublishBegins, Intend, Place,
           ImportConfig, Promote, Commit, StepFails, Settle, Close, Clean, ReleaseOwner, disk
    <2>2. ~FixConfig
        BY DEF FixConfig, Fixing, Deciding, FixKnowsIntent
    <2>3. CASE Reconcile \/ Recovery
        BY <2>2, <2>3 DEF Reconcile, FixBegins, FixPointers, FixResidue, FixCandidate, FixRecord, FixEnds,
           FixFails, Recovery, RecoverChildren, RecoverOperation, RecoverCandidate, disk
    <2>4. CASE Request
        BY <2>4 DEF Request, Begin, CancelToken, CancelRecord, ClearFinished, OtherUpdate, ManualSave,
           RecoverExplicit, Maintain, disk
    <2>5. CASE Environment \/ UNCHANGED vars
        BY <2>5 DEF Environment, Crash, ChildGoes, disk, vars
    <2> QED BY <2>1, <2>3, <2>4, <2>5 DEF Next
<1> QED BY <1>1, <1>2, <1>3, PTL DEF Spec, EditsSurvive
-----------------------------------------------------------------------------
\* What an operation will bring is not there before it publishes.
Early == {"begin", "start", "child", "verify", "commit", "publish"}
Unplaced ==
    /\ slots \subseteq 0 .. ops /\ owned \subseteq 1 .. ops
    /\ \A i \in Ids : task[i] \in Early => i \notin slots /\ i \notin owned

\* The releases and the runtime that pointers and a configuration name are
\* there; what an intent takes back to is there without what it has brought.
Within(p, c, s, o) ==
    /\ p.current \in s \cup {None} /\ p.lkg \in s \cup {None}
    /\ c.runtime \in o \cup {None, Bundled}
Present(tuple) == Within(tuple.pointers, tuple.config, slots, owned)
OtherSlots == slots \ (IF intent.new THEN {intent.id} ELSE {})
OtherOwned == owned \ {intent.id}
IntentNames ==
    intent # None =>
        /\ Within(intent.previous.pointers, intent.previous.config, OtherSlots, OtherOwned)
        /\ intent.committed => Present(intent.target)
        /\ intent.only => Within(pointers, config, OtherSlots, OtherOwned)
StepsName ==
    \A i \in Ids :
        /\ task[i] = "intent" =>
             IF op.kind = "import"
             THEN Within(intent.target.pointers, intent.target.config, slots \cup {i}, owned \cup {i})
             ELSE Present(intent.target)
        /\ task[i] \in {"placed", "config", "promoted"} => Present(intent.target)
FixNames ==
    /\ fix.at = "residue" => ~intent.preserve /\ Within(pointers, config, OtherSlots, OtherOwned)
    /\ fix.at = "pointers" /\ ~intent.committed => config.runtime \in OtherOwned \cup {None, Bundled}
Names == Within(pointers, config, slots, owned) /\ IntentNames /\ StepsName /\ FixNames

LEMMA NamingInit == Init => Unplaced /\ Names
BY DEF Init, Idle, Base, Bundled, Tuple, Names, Unplaced, Within, IntentNames, StepsName, FixNames, Early

LEMMA EarlyStays ==
    ASSUME Ownership, NEW i \in Ids, Work(i), NEW j \in Ids, task'[j] \in Early
    PROVE  task[j] \in Early /\ (j = i => ~Place(i))
<1> USE DEF Ownership
<1>1. CASE BeginAgain(i) \/ Start(i) \/ ChildEnds(i) \/ ImportRegisters(i) \/ PublishBegins(i)
    <2>1. task[i] \in Early /\ ~Place(i)
        BY <1>1 DEF BeginAgain, Start, ChildEnds, ImportRegisters, PublishBegins, Early, Place
    <2> QED BY <2>1, WorkUncancelled DEF UncancelledStep
<1>2. CASE ~(BeginAgain(i) \/ Start(i) \/ ChildEnds(i) \/ ImportRegisters(i) \/ PublishBegins(i))
    <2>1. \E place \in Places \ Early : Goto(i, place)
        BY <1>2 DEF Work, ChildFails, Intend, Place, ImportConfig, Promote, Commit, StepFails, Settle,
           Close, Clean, ReleaseOwner, Fails, Places, Early
    <2>2. j # i
        BY <2>1, GotoTyped
    <2> QED BY <2>2, WorkUncancelled DEF UncancelledStep
<1> QED BY <1>1, <1>2

LEMMA UnplacedStep == Ownership /\ Begun /\ Unplaced /\ [Next]_vars => Unplaced'
<1> SUFFICES ASSUME Ownership, Begun, Unplaced, [Next]_vars PROVE Unplaced'
    OBVIOUS
<1>0. TypeOK /\ ops \in Nat
    BY DEF Ownership, TypeOK
<1>1. ASSUME NEW i \in Ids, Work(i) PROVE Unplaced'
    <2>1. ops' = ops /\ task[i] # "none"
        BY <1>1, WorkUncancelled DEF UncancelledStep
    <2>2. i \in 1 .. ops
        BY <1>0, <2>1 DEF Begun, Ids
    <2>3. CASE Place(i)
        <3>1. slots' = slots \cup {i} /\ owned' \subseteq owned \cup {i}
            BY <2>3 DEF Place
        <3>2. slots' \subseteq 0 .. ops /\ owned' \subseteq 1 .. ops
            BY <1>0, <2>2, <3>1 DEF Unplaced
        <3> QED BY <1>1, <2>1, <2>3, <3>1, <3>2, EarlyStays DEF Unplaced
    <2>4. CASE ~Place(i)
        <3>1. UNCHANGED <<slots, owned>>
            BY <1>1, <2>4 DEF Work, BeginAgain, Start, ChildEnds, ImportRegisters, ChildFails, PublishBegins, Intend,
               ImportConfig, Promote, Commit, StepFails, Settle, Close, Clean, ReleaseOwner, disk
        <3> QED BY <1>1, <2>1, <3>1, EarlyStays DEF Unplaced
    <2> QED BY <2>3, <2>4
<1>2. CASE Reconcile \/ Recovery
    <2>1. slots' \subseteq slots /\ owned' \subseteq owned
        BY <1>2 DEF Reconcile, FixBegins, FixConfig, FixPointers, FixResidue, FixCandidate, FixRecord,
           FixEnds, FixFails, Recovery, RecoverChildren, RecoverOperation, RecoverCandidate, disk
    <2> QED BY <1>2, <2>1, ReconcileUncancelled DEF Unplaced, Early
<1>3. ASSUME NEW kind \in Kinds, Begin(kind) PROVE Unplaced'
    <2>1. ops' = ops + 1 /\ (\E place \in Places : Goto(ops + 1, place))
         /\ UNCHANGED <<slots, owned>>
        BY <1>3 DEF Begin, Places
    <2> QED BY <1>0, <2>1 DEF Unplaced, Goto, TypeOK
<1>4. CASE Crash
    BY <1>4 DEF Crash, Mishap, disk, Unplaced, Early
<1>5. ASSUME CancelToken \/ CancelRecord \/ ClearFinished \/ OtherUpdate \/ ManualSave \/ Maintain \/ Edit
             \/ UNCHANGED vars \/ (\E i \in Ids : ChildGoes(i))
             \/ (\E preserve \in BOOLEAN : RecoverExplicit(preserve))
      PROVE  Unplaced'
    BY <1>5 DEF CancelToken, CancelRecord, ClearFinished, OtherUpdate, ManualSave, Maintain, Edit,
       ChildGoes, RecoverExplicit, vars, Smooth, Mishap, Command, bounds, disk, Unplaced
<1> QED BY <1>1, <1>2, <1>3, <1>4, <1>5 DEF Next, Request, Environment

LEMMA NamesKept == Names /\ Undisturbed => Names'
<1> SUFFICES ASSUME Names, Undisturbed PROVE Names'
    OBVIOUS
<1> USE DEF Names, Undisturbed
<1>1. StepsName'
    BY DEF StepsName, Publishing, Present
<1> QED BY <1>1 DEF IntentNames, FixNames, Present, OtherSlots, OtherOwned, Late

LEMMA WithinGrows ==
    ASSUME NEW p, NEW c, NEW s, NEW o, NEW t, NEW u, Within(p, c, s, o), s \subseteq t, o \subseteq u
    PROVE  Within(p, c, t, u)
BY DEF Within

LEMMA IntendNames ==
    ASSUME Ownership, Unplaced, Names, NEW i \in Ids, Intend(i)
    PROVE  Names'
<1> USE DEF Ownership
<1>1. /\ fix.at = "none" /\ fix' = fix /\ \A j \in Ids : task[j] \in Publishing => j = i
      /\ op # None /\ op' = op /\ UNCHANGED <<config, pointers, slots, owned>>
    BY PublisherAlone DEF Intend, Committing
<1>2. PICK s \in IF op.kind = "select" THEN slots ELSE {i} :
          intent' = [id |-> i, kind |-> op.kind, only |-> op.kind = "switch", committed |-> FALSE,
                     preserve |-> FALSE, previous |-> Tuple,
                     target |->
                        IF op.kind = "switch" THEN Tuple
                        ELSE [config |-> [n |-> i, runtime |-> IF op.kind = "import" THEN i
                                                               ELSE Bundled],
                              pointers |-> [current |-> s, lkg |-> Fallback(s)]],
                     new |-> i \in candidates]
    BY DEF Intend
<1>3. i \notin slots /\ i \notin owned
    BY DEF Intend, Unplaced, Early
<1>4. intent'.id = i /\ ~intent'.committed /\ intent'.previous = Tuple
    BY <1>2
<1>5. OtherSlots' = slots /\ OtherOwned' = owned
    BY <1>1, <1>3, <1>4 DEF OtherSlots, OtherOwned
<1>6. IntentNames'
    BY <1>1, <1>4, <1>5 DEF IntentNames, Names, Tuple
<1>7. \A j \in Ids : task'[j] \in Publishing => j = i /\ task'[j] = "intent"
    BY <1>1, GotoTyped DEF Intend, Places, Publishing
<1>8. CASE op.kind = "import"
    <2>1. intent'.target = [config |-> [n |-> i, runtime |-> i],
                            pointers |-> [current |-> i, lkg |-> Fallback(i)]]
        BY <1>2, <1>8
    <2>2. Within(intent'.target.pointers, intent'.target.config, slots \cup {i}, owned \cup {i})
        BY <2>1 DEF Within, Fallback
    <2> QED BY <1>1, <1>6, <1>7, <1>8, <2>2 DEF Names, StepsName, FixNames, Publishing
<1>9. CASE op.kind = "select"
    <2>1. intent'.target = [config |-> [n |-> i, runtime |-> Bundled],
                            pointers |-> [current |-> s, lkg |-> Fallback(s)]] /\ s \in slots
        BY <1>2, <1>9
    <2>2. Within(intent'.target.pointers, intent'.target.config, slots, owned)
        BY <2>1 DEF Within, Fallback
    <2> QED BY <1>1, <1>6, <1>7, <1>9, <2>2 DEF Names, StepsName, FixNames, Publishing, Present
<1>10. CASE op.kind \notin {"import", "select"}
    <2>1. op.kind = "switch"
        BY <1>1, <1>10, ColdAssumptions DEF TypeOK, Operations
    <2>2. intent'.target = Tuple
        BY <1>2, <2>1
    <2>3. Within(intent'.target.pointers, intent'.target.config, slots, owned)
        BY <2>2 DEF Names, Tuple
    <2> QED BY <1>1, <1>6, <1>7, <1>10, <2>3 DEF Names, StepsName, FixNames, Publishing, Present
<1> QED BY <1>8, <1>9, <1>10

LEMMA PlaceNames ==
    ASSUME Ownership, Names, NEW i \in Ids, Place(i)
    PROVE  Names'
<1> USE DEF Ownership
<1>1. /\ fix.at = "none" /\ \A j \in Ids : task[j] \in Publishing => j = i
      /\ op # None /\ intent # None /\ intent.id = i /\ intent.new
    BY PublisherAlone, PublisherKnows DEF Place, Committing, Publishing
<1>2. UNCHANGED <<op, intent, config, pointers, fix>>
    BY DEF Place
<1>3. slots' = slots \cup {i} /\ owned' = IF op.kind = "import" THEN owned \cup {i} ELSE owned
    BY DEF Place
<1>4. OtherSlots' = OtherSlots /\ OtherOwned' = OtherOwned
    BY <1>1, <1>2, <1>3 DEF OtherSlots, OtherOwned
<1>5. Present(intent.target)'
    <2>1. CASE op.kind = "import"
        BY <1>2, <1>3, <2>1 DEF Names, StepsName, Present, Place
    <2>2. CASE op.kind # "import"
        BY <1>2, <1>3, <2>2, WithinGrows DEF Names, StepsName, Present, Place
    <2> QED BY <2>1, <2>2
<1>6. \A j \in Ids : task'[j] \in Publishing => j = i /\ task'[j] = "placed"
    BY <1>1, GotoTyped DEF Place, Places, Publishing
<1>7. StepsName'
    BY <1>2, <1>5, <1>6 DEF StepsName, Publishing
<1>8. IntentNames' /\ FixNames'
    BY <1>1, <1>2, <1>4, <1>5 DEF Names, IntentNames, FixNames
<1>9. Within(pointers, config, slots, owned)'
    BY <1>2, <1>3, WithinGrows DEF Names
<1> QED BY <1>7, <1>8, <1>9 DEF Names

LEMMA PublishNames ==
    ASSUME Ownership, Deciding, Names, NEW i \in Ids, ImportConfig(i) \/ Promote(i) \/ Commit(i)
    PROVE  Names'
<1> USE DEF Ownership
<1>1. /\ fix.at = "none" /\ \A j \in Ids : task[j] \in Publishing => j = i
      /\ op # None /\ intent # None /\ intent.id = i /\ intent \in Intents /\ intent.kind = op.kind
    BY PublisherAlone, PublisherKnows DEF ImportConfig, Promote, Commit, Committing, Publishing
<1>2. UNCHANGED <<op, slots, owned>>
    BY DEF ImportConfig, Promote, Commit
<1>3. Within(intent.target.pointers, intent.target.config, slots, owned)
    <2>1. task[i] = "intent" => op.kind # "import"
        BY DEF ImportConfig, Promote, Commit
    <2>2. task[i] \in {"intent", "placed", "config", "promoted"}
        BY DEF ImportConfig, Promote, Commit
    <2> QED BY <2>1, <2>2 DEF Names, StepsName, Present
<1>4. CASE ImportConfig(i)
    <2>1. UNCHANGED <<intent, pointers, fix>> /\ config' \in {config, intent.target.config}
        BY <1>4 DEF ImportConfig
    <2>2. ~intent.only
        BY <1>1, <1>4 DEF ImportConfig, Deciding, IntentIsFormed
    <2>3. \A j \in Ids : task'[j] \in Publishing => j = i /\ task'[j] = "config"
        BY <1>1, <1>4, GotoTyped, FailsTyped DEF ImportConfig, Places, Publishing
    <2>4. Within(pointers, config, slots, owned)'
        BY <1>2, <1>3, <2>1 DEF Names, Within
    <2>5. StepsName'
        BY <1>2, <1>3, <2>1, <2>3 DEF StepsName, Publishing, Present
    <2>6. IntentNames' /\ FixNames'
        BY <1>1, <1>2, <2>1, <2>2 DEF Names, IntentNames, FixNames, OtherSlots, OtherOwned, Present
    <2> QED BY <2>4, <2>5, <2>6 DEF Names
<1>5. CASE Promote(i)
    <2>1. UNCHANGED <<intent, config, fix>> /\ pointers' = intent.target.pointers
        BY <1>5 DEF Promote
    <2>2. ~intent.only
        BY <1>1, <1>5 DEF Promote, Deciding, IntentIsFormed, StepsKnowIntent
    <2>3. \A j \in Ids : task'[j] \in Publishing => j = i /\ task'[j] = "promoted"
        BY <1>1, <1>5, GotoTyped DEF Promote, Places, Publishing
    <2>4. Within(pointers, config, slots, owned)'
        BY <1>2, <1>3, <2>1 DEF Names, Within
    <2>5. StepsName'
        BY <1>2, <1>3, <2>1, <2>3 DEF StepsName, Publishing, Present
    <2>6. IntentNames' /\ FixNames'
        BY <1>1, <1>2, <2>1, <2>2 DEF Names, IntentNames, FixNames, OtherSlots, OtherOwned, Present
    <2> QED BY <2>4, <2>5, <2>6 DEF Names
<1>6. CASE Commit(i)
    <2>1. UNCHANGED <<config, pointers>> /\ fix'.at = "check" /\ intent' = [intent EXCEPT !.committed = TRUE]
        BY <1>6 DEF Commit
    <2>2. /\ intent'.only = intent.only /\ intent'.new = intent.new /\ intent'.id = intent.id
          /\ intent'.previous = intent.previous /\ intent'.target = intent.target
        BY <1>1, <2>1 DEF Intents
    <2>3. \A j \in Ids : task'[j] \in Publishing => j = i /\ task'[j] = "finish"
        BY <1>1, <1>6, GotoTyped DEF Commit, Places, Publishing
    <2>4. IntentNames'
        BY <1>1, <1>2, <1>3, <2>1, <2>2 DEF Names, IntentNames, OtherSlots, OtherOwned, Present
    <2>5. StepsName' /\ FixNames'
        BY <2>1, <2>3 DEF StepsName, FixNames, Publishing
    <2> QED BY <1>2, <2>1, <2>4, <2>5 DEF Names
<1> QED BY <1>4, <1>5, <1>6

LEMMA ReconcileNames ==
    ASSUME Ownership, Deciding, Names, Reconcile, ~FixFails
    PROVE  Names'
<1> USE HoldersDiffer DEF Ownership
<1>1. fix.at \in Reconciling /\ fix.at # "none"
    BY DEF Reconcile, FixBegins, FixConfig, FixPointers, FixResidue, FixCandidate, FixRecord, FixEnds,
       Fixing, Reconciling
<1>2. intent # None /\ intent \in Intents
    BY <1>1, IntentTyped
<1>3. \A j \in Ids : task'[j] \notin {"intent", "placed", "config", "promoted"}
    <2>1. \A j \in Ids : task[j] \notin {"intent", "placed", "config", "promoted"}
        BY <1>1, PublisherAlone DEF Committing
    <2> QED BY <2>1, ReconcileUncancelled
<1>4. StepsName'
    BY <1>3 DEF StepsName
<1>5. CASE FixBegins
    <2>1. UNCHANGED <<intent, config, pointers, slots, owned>> /\ fix'.at = FirstStep
        BY <1>5, FixAtTyped DEF FixBegins, FixAt, disk, FirstStep, Fixes
    <2>2. FixNames'
        BY <1>2, <2>1 DEF FirstStep, FixNames, Names, IntentNames, OtherSlots, OtherOwned
    <2> QED BY <1>4, <2>1, <2>2 DEF Names, IntentNames, OtherSlots, OtherOwned, Present
<1>6. CASE FixConfig
    <2>1. UNCHANGED <<intent, pointers, slots, owned>> /\ config' = Wanted.config /\ fix'.at = "pointers"
        BY <1>6, FixAtTyped DEF FixConfig, Fixes
    <2>2. ~intent.only
        BY <1>6 DEF FixConfig, Fixing, Deciding, FixKnowsIntent
    <2>3. Within(pointers, config, slots, owned)' /\ FixNames'
        BY <1>2, <2>1 DEF Names, IntentNames, FixNames, Within, Wanted, Present, OtherSlots, OtherOwned
    <2> QED BY <1>4, <2>1, <2>2, <2>3 DEF Names, IntentNames, OtherSlots, OtherOwned, Present
<1>7. CASE FixPointers
    <2> DEFINE next == IF intent.committed THEN "candidate" ELSE "residue"
    <2>1. UNCHANGED <<intent, config, slots, owned>> /\ pointers' = Wanted.pointers
          /\ fix.at = "pointers" /\ fix'.at = next
        BY <1>7, FixAtTyped DEF FixPointers, Fixing, Fixes
    <2>2. ~intent.only /\ ~intent.preserve
        BY <2>1 DEF Deciding, FixKnowsIntent
    <2>3. Within(pointers, config, slots, owned)' /\ FixNames'
        BY <1>2, <2>1, <2>2 DEF Names, IntentNames, FixNames, Within, Wanted, Present, OtherSlots, OtherOwned
    <2> QED BY <1>4, <2>1, <2>2, <2>3 DEF Names, IntentNames, OtherSlots, OtherOwned, Present
<1>8. CASE FixResidue
    <2>1. /\ UNCHANGED <<intent, config, pointers>> /\ fix.at = "residue" /\ fix'.at = "candidate"
          /\ slots' = OtherSlots /\ owned' = OtherOwned
        BY <1>8, FixAtTyped DEF FixResidue, Fixing, Fixes, OtherSlots, OtherOwned
    <2>2. OtherSlots' = OtherSlots /\ OtherOwned' = OtherOwned
        BY <2>1 DEF OtherSlots, OtherOwned
    <2>3. ~intent.committed
        BY <2>1 DEF Deciding, FixKnowsIntent
    <2> QED BY <1>4, <2>1, <2>2, <2>3 DEF Names, IntentNames, FixNames
<1>9. CASE FixCandidate \/ FixRecord
    <2>1. UNCHANGED <<intent, config, pointers, slots, owned>> /\ fix'.at \in {"record", "intent"}
        BY <1>9, FixAtTyped DEF FixCandidate, FixRecord, Fixes
    <2> QED BY <1>4, <2>1 DEF Names, IntentNames, FixNames, OtherSlots, OtherOwned, Present
<1>10. CASE FixEnds
    <2>1. UNCHANGED <<config, pointers, slots, owned>> /\ intent' = None
        BY <1>10 DEF FixEnds
    <2>2. fix' = Idle \/ FixAt("operation")
        BY <1>1, <1>10, FixerIsHolder DEF FixEnds
    <2>3. fix'.at \in {"none", "operation"}
        BY <2>2, FixAtTyped DEF Idle, Fixes
    <2> QED BY <1>4, <2>1, <2>3 DEF Names, IntentNames, FixNames
<1> QED BY <1>5, <1>6, <1>7, <1>8, <1>9, <1>10 DEF Reconcile

LEMMA OtherNames ==
    ASSUME Ownership, Deciding, Names,
           ManualSave \/ Edit \/ \E preserve \in BOOLEAN : RecoverExplicit(preserve)
    PROVE  Names'
<1> USE DEF Ownership
<1>1. CASE ManualSave \/ Edit
    <2>1. UNCHANGED <<op, intent, pointers, slots, owned, task, fix>> /\ config'.runtime = config.runtime
        BY <1>1 DEF ManualSave, Edit, Saved, Edited, TypeOK, Versions
    <2> QED BY <2>1 DEF Names, IntentNames, StepsName, FixNames, Within, Present, OtherSlots, OtherOwned
<1>2. ASSUME NEW preserve \in BOOLEAN, RecoverExplicit(preserve) PROVE Names'
    <2>1. UNCHANGED <<op, config, pointers, slots, owned, task>> /\ fix'.at = "check" /\ intent # None
        BY <1>2 DEF RecoverExplicit
    <2>2. /\ intent'.only = intent.only /\ intent'.new = intent.new /\ intent'.id = intent.id
          /\ intent'.committed = intent.committed
          /\ intent'.previous = intent.previous /\ intent'.target = intent.target
        BY <1>2 DEF RecoverExplicit, TypeOK, Intents
    <2> QED BY <2>1, <2>2 DEF Names, IntentNames, StepsName, FixNames, Present, OtherSlots, OtherOwned
<1> QED BY <1>1, <1>2

LEMMA NamesStep == Ownership /\ Unplaced /\ Deciding /\ Names /\ [Next]_vars => Names'
<1> SUFFICES ASSUME Ownership, Unplaced, Deciding, Names, [Next]_vars PROVE Names'
    OBVIOUS
<1>1. ASSUME NEW i \in Ids, Work(i) PROVE Names'
    BY <1>1, WorkElsewhere, NamesKept, IntendNames, PlaceNames, PublishNames
<1>2. CASE Reconcile
    BY <1>2, ReconcileNames, OthersElsewhere, NamesKept
<1>3. CASE Recovery \/ Request \/ Environment \/ UNCHANGED vars
    BY <1>3, OthersElsewhere, NamesKept, OtherNames DEF Request, Environment
<1> QED BY <1>1, <1>2, <1>3 DEF Next

\* What the pointers and the configuration name is there: an interrupted
\* publication takes the selection back before it removes the files, and a
\* committed one keeps them.  (reconcile_publication)
THEOREM SelectionStaysThere == Spec => []SelectionExists
<1> DEFINE Inv == Ownership /\ Cancellation /\ Deciding /\ Unplaced /\ Names
<1>1. Init => Inv
    BY OwnedInit, CancellationInit, DecidingInit, NamingInit
<1>2. Inv /\ [Next]_vars => Inv'
    BY OwnedStep, CancellationStep, DecidingStep, UnplacedStep, NamesStep DEF Cancellation
<1>3. Inv => SelectionExists
    BY DEF Names, Within, SelectionExists
<1> QED BY <1>1, <1>2, <1>3, PTL DEF Spec
-----------------------------------------------------------------------------
\* Where the child process of an operation may run, and where it may be lost:
\* only once its task has failed without a proof, or is over.
ChildrenFollowTasks ==
    \A i \in Ids :
        /\ child[i] = "running" => task[i] = "child" \/ (task[i] = "placed" /\ op.kind = "import")
        /\ child[i] = "lost" => (task[i] = "settle" /\ ~quiet[i]) \/ task[i] \in {"release", "done"}

\* Only the intent of an import has one, and nobody but its own task settles
\* it: an import takes its turn at the lifecycle lock before it begins.
IntentsFollowImports ==
    /\ intent # None /\ child[intent.id] # "none" => intent.kind = "import"
    /\ intent # None /\ intent.kind = "import" =>
          \A k \in Ids : task[k] \in {"settle", "settling"} => k = intent.id
    /\ \A i \in Ids : task[i] \in Working \ {"begin", "start"} /\ op.kind = "import" =>
          \A k \in Ids : task[k] \notin {"settle", "settling"}

\* A record that asks for the removal of a candidate knows that no child is left.
RecordsKnowChildren ==
    /\ op # None /\ op.quiescent /\ op.cleanup => child[op.id] = "none"
    /\ \A i \in Ids : task[i] \in Working => ~op.cleanup

\* A recovery that went on has found none.
RecoveryKnowsChildren ==
    fix.by = Recoverer /\ fix.at # "children" => \A i \in Ids : child[i] = "none"

Children == ChildrenFollowTasks /\ IntentsFollowImports /\ RecordsKnowChildren
            /\ RecoveryKnowsChildren

LEMMA ChildrenInit == Init => Children
BY DEF Init, Idle, Children, ChildrenFollowTasks, IntentsFollowImports, RecordsKnowChildren,
   RecoveryKnowsChildren, Working

\* One task works at a time; while it does nobody recovers.
LEMMA WorkerAlone ==
    ASSUME Ownership, NEW i \in Ids, task[i] \in Working
    PROVE  /\ \A j \in Ids : j # i => task[j] \notin Working
           /\ active /\ op # None /\ op.id = i /\ op \in Operations
           /\ fix.by \notin {User, Recoverer}
           /\ intent # None => task[i] \in Publishing /\ intent.id = i /\ intent.kind = op.kind
BY DEF Ownership, WorkIsRecorded, FixIsHeld, TypeOK, Mine

\* A task at work that fails, with a child that it knows to be gone or not.
LEMMA FailsChildren ==
    ASSUME Ownership, Children, NEW i \in Ids, NEW proved \in BOOLEAN, Fails(i, proved),
           task[i] \in Working,
           child'[i] \in {"none", "lost"}, child'[i] = "lost" => ~proved /\ task[i] \in {"child", "placed"}
                             /\ (task[i] = "placed" => op.kind = "import"),
           \A j \in Ids : j # i => child'[j] = child[j],
           UNCHANGED <<op, intent>>, fix' = fix \/ fix' = Idle
    PROVE  Children'
<1> USE FailsTyped, WorkerAlone, HoldersDiffer DEF Children, Ownership
<1>0. quiet'[i] = proved /\ \A j \in Ids : j # i => quiet'[j] = quiet[j]
    BY DEF Fails, TypeOK
<1>1. ChildrenFollowTasks'
    BY <1>0 DEF ChildrenFollowTasks
<1>2. IntentsFollowImports'
    BY <1>0 DEF IntentsFollowImports, Publishing, Working
<1>3. RecordsKnowChildren'
    BY <1>0 DEF RecordsKnowChildren, Working
<1>4. RecoveryKnowsChildren'
    BY DEF RecoveryKnowsChildren, Idle
<1> QED BY <1>1, <1>2, <1>3, <1>4

\* A task that goes on in its work.
LEMMA GoesOnChildren ==
    ASSUME Ownership, Children, NEW i \in Ids, task[i] \in Working, NEW place \in Working, Goto(i, place),
           place = "start" => intent' = None, place \notin {"child", "placed"} => child'[i] = "none",
           child'[i] \in {"none", "running"},
           child'[i] = "running" => \/ place = "child" /\ intent' = None
                                    \/ place = "placed" /\ op.kind = "import",
           \A j \in Ids : j # i => child'[j] = child[j],
           place # "start" /\ op.kind = "import" => \A k \in Ids : task[k] \notin {"settle", "settling"},
           op' = op \/ \E p \in Running : Phase(p),
           UNCHANGED quiet, fix' = fix \/ fix' = [by |-> i, at |-> "check"],
           intent' = None => intent = None,
           intent' # None => intent'.id = i /\ intent'.kind = op.kind
    PROVE  Children'
<1> USE WorkerAlone, HoldersDiffer DEF Children, Ownership
<1>0. /\ op'.id = op.id /\ op'.kind = op.kind /\ op'.quiescent = op.quiescent /\ op'.cleanup = op.cleanup
      /\ op' # None
    <2>1. CASE op' = op
        BY <2>1
    <2>2. ASSUME NEW p \in Running, Phase(p) PROVE <1>0!:
        BY <2>2, PhaseTyped DEF Phase, Operations
    <2> QED BY <2>1, <2>2
<1>1. /\ task'[i] = place /\ \A j \in Ids : j # i => task'[j] = task[j]
    BY GotoTyped DEF Working, Places
<1>2. ChildrenFollowTasks'
    BY <1>0, <1>1 DEF ChildrenFollowTasks, Working
<1>3. IntentsFollowImports'
    BY <1>0, <1>1 DEF IntentsFollowImports, Working
<1>4. RecordsKnowChildren'
    BY <1>0, <1>1 DEF RecordsKnowChildren, Working
<1>5. RecoveryKnowsChildren'
    BY <1>0, <1>1 DEF RecoveryKnowsChildren
<1> QED BY <1>2, <1>3, <1>4, <1>5

LEMMA BeginAgainChildren == ASSUME Ownership, Children, NEW i \in Ids, BeginAgain(i) PROVE Children'
<1>0. /\ task[i] = "begin" /\ task[i] \in Working /\ intent = None
      /\ UNCHANGED <<intent, fix, child, quiet>> /\ "queued" \in Running
    BY DEF BeginAgain, Ownership, WorkIsRecorded, Working, Publishing, Running
<1>1. child[i] = "none"
    BY <1>0 DEF Children, ChildrenFollowTasks, Ownership, TypeOK
<1>2. CASE Phase("queued") /\ Goto(i, "start")
    BY <1>0, <1>1, <1>2, GoesOnChildren DEF Working, Children, IntentsFollowImports
<1>3. CASE UNCHANGED op /\ Goto(i, "done")
    <2>1. task'[i] = "done" /\ \A j \in Ids : j # i => task'[j] = task[j]
        BY <1>3, GotoTyped DEF Places, Ownership
    <2>2. UNCHANGED <<op, intent, child, quiet, fix>>
        BY <1>0, <1>3
    <2>3. ChildrenFollowTasks'
        BY <1>0, <1>1, <2>1, <2>2 DEF Children, ChildrenFollowTasks
    <2>4. IntentsFollowImports'
        BY <2>1, <2>2 DEF Children, IntentsFollowImports, Working
    <2>5. RecordsKnowChildren' /\ RecoveryKnowsChildren'
        BY <2>1, <2>2 DEF Children, RecordsKnowChildren, RecoveryKnowsChildren, Working
    <2> QED BY <2>3, <2>4, <2>5 DEF Children
<1> QED BY <1>2, <1>3 DEF BeginAgain

LEMMA StartChildren == ASSUME Ownership, Children, NEW i \in Ids, Start(i) PROVE Children'
<1>0. task[i] = "start" /\ task[i] \in Working /\ intent = None /\ UNCHANGED <<intent, fix>> /\ gate = None
    BY DEF Start, Ownership, WorkIsRecorded, Working, Publishing
<1>1. CASE Fails(i, TRUE) /\ UNCHANGED <<op, candidates, child>>
    <2>1. child[i] = "none"
        BY <1>0 DEF Children, ChildrenFollowTasks, Ownership, TypeOK
    <2> QED BY <1>0, <1>1, <2>1, FailsChildren
<1>2. CASE ~(Fails(i, TRUE) /\ UNCHANGED <<op, candidates, child>>)
    <2>1. /\ Phase("working") \/ Phase("verifying")
          /\ child' = [child EXCEPT ![i] = "running"] /\ Goto(i, "child") /\ UNCHANGED quiet
          /\ op.kind = "import" => NextInLine
        BY <1>2 DEF Start
    <2>2. op.kind = "import" => \A k \in Ids : task[k] \notin {"settle", "settling"}
        BY <1>0, <2>1, FreeGate DEF NextInLine, Guarded
    <2>3. op' = op \/ \E p \in Running : Phase(p)
        BY <2>1 DEF Running
    <2>4. child'[i] = "running" /\ \A j \in Ids : j # i => child'[j] = child[j]
        BY <2>1 DEF Ownership, TypeOK
    <2> QED BY <1>0, <2>1, <2>2, <2>3, <2>4, GoesOnChildren DEF Working
<1> QED BY <1>1, <1>2

LEMMA ChildEndsChildren == ASSUME Ownership, Children, NEW i \in Ids, ChildEnds(i) PROVE Children'
<1>0. /\ task[i] = "child" /\ task[i] \in Working /\ intent = None /\ UNCHANGED <<intent, fix>>
      /\ child'[i] = "none" /\ \A j \in Ids : j # i => child'[j] = child[j]
    BY DEF ChildEnds, Ownership, WorkIsRecorded, Working, Publishing, TypeOK
<1>1. CASE Fails(i, TRUE) /\ UNCHANGED op
    BY <1>0, <1>1, FailsChildren
<1>2. CASE ~(Fails(i, TRUE) /\ UNCHANGED op)
    <2>1. (op' = op \/ Phase("verifying")) /\ Goto(i, "verify") /\ UNCHANGED quiet
        BY <1>2 DEF ChildEnds
    <2>2. op' = op \/ \E p \in Running : Phase(p)
        BY <2>1 DEF Running
    <2> QED BY <1>0, <2>1, <2>2, GoesOnChildren DEF Working, Children, IntentsFollowImports
<1> QED BY <1>1, <1>2

LEMMA ImportRegistersChildren ==
    ASSUME Ownership, Children, NEW i \in Ids, ImportRegisters(i) PROVE Children'
<1>0. /\ task[i] = "verify" /\ task[i] \in Working /\ intent = None /\ UNCHANGED <<intent, fix, child, quiet>>
      /\ Phase("registering") /\ Goto(i, "commit") /\ "registering" \in Running
    BY DEF ImportRegisters, Ownership, WorkIsRecorded, Working, Publishing, Running
<1>1. child[i] = "none"
    BY <1>0 DEF Children, ChildrenFollowTasks, Ownership, TypeOK
<1> QED BY <1>0, <1>1, GoesOnChildren DEF Working, Children, IntentsFollowImports

LEMMA ChildFailsChildren == ASSUME Ownership, Children, NEW i \in Ids, ChildFails(i) PROVE Children'
<1>0. /\ task[i] \in {"child", "placed"} /\ task[i] \in Working /\ child[i] = "running"
      /\ UNCHANGED <<op, intent, fix>>
    BY DEF ChildFails, disk, Working
<1>1. PICK proved \in BOOLEAN :
          child' = [child EXCEPT ![i] = IF proved THEN "none" ELSE "lost"] /\ Fails(i, proved)
    BY DEF ChildFails
<1>2. child'[i] = (IF proved THEN "none" ELSE "lost") /\ \A j \in Ids : j # i => child'[j] = child[j]
    BY <1>1 DEF Ownership, TypeOK
<1>3. task[i] = "placed" => op.kind = "import"
    BY <1>0 DEF Children, ChildrenFollowTasks
<1> QED BY <1>0, <1>1, <1>2, <1>3, FailsChildren

LEMMA PublishBeginsChildren ==
    ASSUME Ownership, Children, NEW i \in Ids, PublishBegins(i) PROVE Children'
<1>0. /\ task[i] \in {"start", "verify", "commit"} /\ task[i] \in Working /\ intent = None
      /\ UNCHANGED <<intent, fix, child>>
      /\ task[i] = "start" => op.kind # "import"
    BY DEF PublishBegins, Ownership, WorkIsRecorded, Working, Publishing
<1>1. child[i] = "none"
    BY <1>0 DEF Children, ChildrenFollowTasks, Ownership, TypeOK
<1>2. CASE Fails(i, TRUE) /\ UNCHANGED op
    BY <1>0, <1>1, <1>2, FailsChildren
<1>3. CASE ~(Fails(i, TRUE) /\ UNCHANGED op)
    <2>1. (op' = op \/ Phase("registering")) /\ Goto(i, "publish") /\ UNCHANGED quiet
        BY <1>3 DEF PublishBegins
    <2>2. op' = op \/ \E p \in Running : Phase(p)
        BY <2>1 DEF Running
    <2>3. op.kind = "import" => \A k \in Ids : task[k] \notin {"settle", "settling"}
        BY <1>0 DEF Working, Children, IntentsFollowImports
    <2> QED BY <1>0, <1>1, <2>1, <2>2, <2>3, GoesOnChildren DEF Working
<1> QED BY <1>2, <1>3

LEMMA IntendChildren == ASSUME Ownership, Children, NEW i \in Ids, Intend(i) PROVE Children'
<1>0. /\ task[i] = "publish" /\ task[i] \in Working /\ UNCHANGED <<op, fix, child, quiet>>
      /\ Goto(i, "intent")
    BY DEF Intend, Working
<1>1. child[i] = "none"
    BY <1>0 DEF Children, ChildrenFollowTasks, Ownership, TypeOK
<1>2. intent'.id = i /\ intent'.kind = op.kind /\ intent' # None
    BY <1>0, IntendOwned, GotoTyped DEF Intend, Ownership, WorkIsRecorded, Working, Publishing, Places
<1> QED BY <1>0, <1>1, <1>2, GoesOnChildren DEF Working, Children, IntentsFollowImports

\* A task that has its intent, and does a step of the publication.
LEMMA PublisherChildren ==
    ASSUME Ownership, Children, NEW i \in Ids, task[i] \in Publishing, NEW place \in Publishing, Goto(i, place),
           child'[i] = "none" \/ (child'[i] = "running" /\ place = "placed" /\ op.kind = "import"),
           \A j \in Ids : j # i => child'[j] = child[j],
           UNCHANGED <<op, quiet>>, fix' = fix \/ fix' = [by |-> i, at |-> "check"],
           intent' = intent \/ intent' = [intent EXCEPT !.committed = TRUE]
    PROVE  Children'
<1>1. intent' # None /\ intent'.id = i /\ intent'.kind = op.kind
    <2>1. intent \in Intents /\ intent # None /\ intent.id = i /\ intent.kind = op.kind
        BY PublisherKnows
    <2>2. intent' \in Intents /\ intent'.id = intent.id /\ intent'.kind = intent.kind
        BY <2>1 DEF Intents
    <2> QED BY <2>1, <2>2, NoRecordIsMissing
<1>2. task[i] \in Working \ {"begin", "start"} /\ place \in Working
    BY DEF Publishing, Working
<1>3. op.kind = "import" => \A k \in Ids : task[k] \notin {"settle", "settling"}
    BY <1>2 DEF Children, IntentsFollowImports
<1> QED BY <1>1, <1>2, <1>3, GoesOnChildren DEF Publishing

LEMMA PublishingChildless ==
    ASSUME Ownership, Children, NEW i \in Ids, task[i] \in Publishing, task[i] = "placed" => op.kind # "import"
    PROVE  child[i] = "none"
BY DEF Children, ChildrenFollowTasks, Ownership, TypeOK, Publishing

LEMMA PlaceChildren == ASSUME Ownership, Children, NEW i \in Ids, Place(i) PROVE Children'
<1>0. /\ task[i] = "intent" /\ task[i] \in Publishing /\ UNCHANGED <<op, intent, fix, quiet>>
      /\ Goto(i, "placed")
    BY DEF Place, Publishing
<1>1. child[i] = "none"
    BY <1>0, PublishingChildless
<1>2. CASE op.kind = "import"
    <2>1. child'[i] = "running" /\ \A j \in Ids : j # i => child'[j] = child[j]
        BY <1>2 DEF Place, Ownership, TypeOK
    <2> QED BY <1>0, <1>2, <2>1, PublisherChildren DEF Publishing
<1>3. CASE op.kind # "import"
    <2>1. child' = child
        BY <1>3 DEF Place
    <2> QED BY <1>0, <1>1, <2>1, PublisherChildren DEF Publishing
<1> QED BY <1>2, <1>3

LEMMA ImportConfigChildren == ASSUME Ownership, Children, NEW i \in Ids, ImportConfig(i) PROVE Children'
<1>0. /\ task[i] = "placed" /\ task[i] \in Publishing /\ task[i] \in Working /\ UNCHANGED <<op, intent, fix>>
      /\ child'[i] = "none" /\ \A j \in Ids : j # i => child'[j] = child[j]
    BY DEF ImportConfig, Publishing, Working, Ownership, TypeOK
<1>1. CASE Goto(i, "config") /\ UNCHANGED <<quiet, locks>>
    BY <1>0, <1>1, PublisherChildren DEF Publishing
<1>2. CASE Fails(i, TRUE)
    BY <1>0, <1>2, FailsChildren
<1> QED BY <1>1, <1>2 DEF ImportConfig

LEMMA PromoteChildren == ASSUME Ownership, Children, NEW i \in Ids, Promote(i) PROVE Children'
<1>0. /\ task[i] \in Publishing /\ task[i] # "placed" /\ UNCHANGED <<op, intent, fix, quiet, child>>
      /\ Goto(i, "promoted")
    BY DEF Promote, Publishing
<1>1. child[i] = "none"
    BY <1>0, PublishingChildless
<1> QED BY <1>0, <1>1, PublisherChildren DEF Publishing

LEMMA CommitChildren == ASSUME Ownership, Children, NEW i \in Ids, Commit(i) PROVE Children'
<1>0. /\ task[i] \in Publishing /\ (task[i] = "placed" => op.kind # "import") /\ UNCHANGED <<op, quiet, child>>
      /\ Goto(i, "finish") /\ intent' = [intent EXCEPT !.committed = TRUE] /\ fix' = [by |-> i, at |-> "check"]
    BY DEF Commit, Publishing
<1>1. child[i] = "none"
    BY <1>0, PublishingChildless
<1> QED BY <1>0, <1>1, PublisherChildren DEF Publishing

LEMMA StepFailsChildren == ASSUME Ownership, Children, NEW i \in Ids, StepFails(i) PROVE Children'
<1>0. /\ task[i] \in Working /\ UNCHANGED <<op, intent, fix, child>> /\ Fails(i, TRUE) /\ child[i] = "none"
    BY DEF StepFails, Working, disk
<1> QED BY <1>0, FailsChildren

\* A task that settles its failure, or is over: it asks for a removal only when
\* it knows that its child is gone.
LEMMA SettlingChildren ==
    ASSUME Ownership, Children, NEW i \in Ids, task[i] \in {"settle", "settling", "close", "clean", "release"},
           NEW place \in {"settling", "close", "clean", "release", "done"}, Goto(i, place),
           child[i] = "none" \/ place \in {"release", "done"},
           place = "settling" => task[i] = "settle",
           \/ op' = op
           \/ Pending(i) /\ (quiet[i] => child[i] = "none")
           \/ Mine(i) /\ op' = [op EXCEPT !.cleanup = FALSE],
           UNCHANGED <<intent, child, quiet>>,
           fix' \in {fix, Idle, [by |-> i, at |-> "check"]}
    PROVE  Children'
<1> USE WorkerAlone, HoldersDiffer DEF Children, Ownership
<1>1. task'[i] = place /\ \A j \in Ids : j # i => task'[j] = task[j]
    BY GotoTyped DEF Places
<1>2. \A j \in Ids : task'[j] \in Working => j # i /\ task[j] \in Working /\ ~Mine(i)
    BY <1>1 DEF Working, Mine
<1>3. ~Mine(i) => op' = op
    BY PendingTyped
<1>4. ChildrenFollowTasks'
    BY <1>1, <1>2, <1>3 DEF ChildrenFollowTasks, Working
<1>5. IntentsFollowImports'
    BY <1>1, <1>2, <1>3 DEF IntentsFollowImports
<1>6. RecordsKnowChildren'
    <2>1. op' # None /\ op'.quiescent /\ op'.cleanup => child[op'.id] = "none"
        <3>1. CASE op' = op
            BY <3>1 DEF RecordsKnowChildren
        <3>2. CASE Mine(i) /\ op' = [op EXCEPT !.cleanup = FALSE]
            BY <3>2 DEF TypeOK, Operations, Mine
        <3>3. CASE Mine(i) /\ Pending(i) /\ (quiet[i] => child[i] = "none")
            BY <3>3 DEF Pending, TypeOK, Operations, Mine
        <3> QED BY <1>3, <3>1, <3>2, <3>3
    <2> QED BY <1>2, <1>3, <2>1 DEF RecordsKnowChildren
<1>7. RecoveryKnowsChildren'
    BY DEF RecoveryKnowsChildren, Idle
<1> QED BY <1>4, <1>5, <1>6, <1>7

LEMMA SettleChildren == ASSUME Ownership, Children, NEW i \in Ids, Settle(i) PROVE Children'
<1>0. task[i] = "settle" /\ UNCHANGED <<intent, child, quiet>> /\ (quiet[i] => child[i] = "none")
    BY DEF Settle, Children, ChildrenFollowTasks, Ownership, TypeOK
<1>1. CASE Pending(i) /\ Goto(i, "release") /\ UNCHANGED <<locks, fix>>
    BY <1>0, <1>1, SettlingChildren
<1>2. CASE ~(Pending(i) /\ Goto(i, "release") /\ UNCHANGED <<locks, fix>>)
    <2>1. /\ quiet[i] /\ UNCHANGED op
          /\ \/ Goto(i, "settling") /\ fix' = [by |-> i, at |-> "check"]
             \/ Goto(i, "close") /\ UNCHANGED fix
        BY <1>2 DEF Settle, Proved
    <2> QED BY <1>0, <2>1, SettlingChildren
<1> QED BY <1>1, <1>2

LEMMA CloseChildren == ASSUME Ownership, Children, NEW i \in Ids, Close(i) PROVE Children'
<1>0. /\ task[i] = "close" /\ UNCHANGED <<intent, child, quiet, fix>> /\ child[i] = "none"
      /\ Pending(i) /\ Goto(i, "clean")
    BY DEF Close, Children, ChildrenFollowTasks, Ownership, TypeOK
<1> QED BY <1>0, SettlingChildren

LEMMA CleanChildren == ASSUME Ownership, Children, NEW i \in Ids, Clean(i) PROVE Children'
<1>0. /\ task[i] = "clean" /\ UNCHANGED <<intent, child, quiet, fix>> /\ child[i] = "none"
      /\ Goto(i, "release") /\ (op' = op \/ (Mine(i) /\ op' = [op EXCEPT !.cleanup = FALSE]))
    BY DEF Clean, Children, ChildrenFollowTasks, Ownership, TypeOK
<1> QED BY <1>0, SettlingChildren

LEMMA ReleaseOwnerChildren == ASSUME Ownership, Children, NEW i \in Ids, ReleaseOwner(i) PROVE Children'
<1>0. /\ task[i] = "release" /\ UNCHANGED <<op, intent, child, quiet, fix>> /\ Goto(i, "done")
    BY DEF ReleaseOwner, disk
<1> QED BY <1>0, SettlingChildren

\* A step of a reconciliation leaves children and tasks alone; it may write the
\* record, which then asks for no removal.
LEMMA FixStepChildren ==
    ASSUME Ownership, Children, fix.at \in Reconciling, NEW place \in Reconciling, FixAt(place),
           UNCHANGED <<intent, task, child, quiet>>,
           op' = op \/ (op' # None /\ op'.kind = intent.kind /\ op'.cleanup = FALSE)
    PROVE  Children'
<1> USE HoldersDiffer DEF Children, Ownership
<1>1. fix'.by = fix.by /\ fix.at # "children" /\ fix'.at # "children"
    BY FixAtTyped DEF Reconciling, Fixes
<1>2. \A i \in Ids : task[i] \in Working => task[i] = "finish" /\ op.kind = op'.kind
    BY WorkerReconciles
<1>3. ChildrenFollowTasks'
    BY <1>2 DEF ChildrenFollowTasks, Working
<1>4. IntentsFollowImports'
    BY <1>2 DEF IntentsFollowImports
<1>5. RecordsKnowChildren'
    BY <1>2 DEF RecordsKnowChildren
<1>6. RecoveryKnowsChildren'
    BY <1>1 DEF RecoveryKnowsChildren
<1> QED BY <1>3, <1>4, <1>5, <1>6

LEMMA ReconcileStepsChildren ==
    ASSUME Ownership, Children,
           FixBegins \/ FixConfig \/ FixPointers \/ FixResidue \/ FixCandidate \/ FixRecord
    PROVE  Children'
<1>1. CASE FixBegins
    BY <1>1, FixStepChildren DEF FixBegins, Fixing, FirstStep, Reconciling, disk
<1>2. CASE FixConfig
    BY <1>2, FixStepChildren DEF FixConfig, Fixing, Reconciling
<1>3. CASE FixPointers
    BY <1>3, FixStepChildren DEF FixPointers, Fixing, Reconciling
<1>4. CASE FixResidue
    BY <1>4, FixStepChildren DEF FixResidue, Fixing, Reconciling
<1>5. CASE FixCandidate
    BY <1>5, FixStepChildren DEF FixCandidate, Fixing, Reconciling
<1>6. CASE FixRecord
    <2>1. fix.at \in Reconciling /\ FixAt("intent") /\ UNCHANGED <<intent, task, child, quiet>>
        BY <1>6 DEF FixRecord, Fixing, Reconciling
    <2>2. intent # None /\ intent \in Intents
        BY <2>1, IntentTyped
    <2>3. op' = [id |-> intent.id, kind |-> intent.kind, phase |-> Outcome,
                 quiescent |-> TRUE, cleanup |-> FALSE]
        BY <1>6 DEF FixRecord
    <2>4. op' \in Operations
        BY <2>2, <2>3 DEF Operations, Intents, Outcome, Ended
    <2> QED BY <2>1, <2>3, <2>4, NoRecordIsMissing, FixStepChildren DEF Reconciling
<1> QED BY <1>1, <1>2, <1>3, <1>4, <1>5, <1>6

\* A reconciliation that is over frees its task, whose child is gone.
LEMMA FixLeavesChildren ==
    ASSUME Ownership, Children, NEW i \in Ids, fix.by = i, fix.at \in Reconciling,
           NEW place \in {"close", "release"}, Goto(i, place),
           UNCHANGED <<child, quiet>>, intent' = intent \/ intent' = None, fix' = Idle,
           op' = op \/ Pending(i)
    PROVE  Children'
<1> USE HoldersDiffer DEF Children, Ownership
<1>1. task'[i] = place /\ \A j \in Ids : j # i => task'[j] = task[j]
    BY GotoTyped DEF Places
<1>2. \A j \in Ids : task'[j] \notin Working
    BY <1>1, WorkerReconciles DEF Working
<1>3. task[i] \in {"finish", "settling"}
    BY DEF FixIsHeld
<1>4. child[i] = "none"
    BY <1>3 DEF ChildrenFollowTasks, TypeOK
<1>5. \A j \in Ids : j # i => child[j] # "running"
    <2> SUFFICES ASSUME NEW j \in Ids, j # i, child[j] = "running" PROVE FALSE
        OBVIOUS
    <2>1. task[j] \in {"child", "placed"}
        BY DEF ChildrenFollowTasks
    <2> QED BY <2>1, WorkerReconciles DEF Working
<1>6. ChildrenFollowTasks'
    BY <1>1, <1>4, <1>5 DEF ChildrenFollowTasks
<1>7. IntentsFollowImports'
    BY <1>1, <1>2, <1>3 DEF IntentsFollowImports
<1>8. op' # None /\ op'.quiescent /\ op'.cleanup => child[op'.id] = "none"
    <2>1. CASE op' = op
        BY <2>1 DEF RecordsKnowChildren
    <2>2. CASE Pending(i)
        BY <1>4, <2>2, PendingTyped DEF Mine, RecordsKnowChildren
    <2> QED BY <2>1, <2>2
<1>9. RecordsKnowChildren' /\ RecoveryKnowsChildren'
    BY <1>2, <1>8 DEF RecordsKnowChildren, RecoveryKnowsChildren, Idle
<1> QED BY <1>6, <1>7, <1>9

\* What leaves tasks, children and records alone.
LEMMA ChildrenKept ==
    ASSUME Children, UNCHANGED <<op, child, task, quiet>>,
           \/ intent' = intent \/ intent' = None
           \/ intent # None /\ intent' # None /\ intent'.id = intent.id /\ intent'.kind = intent.kind,
           \/ fix' = fix \/ fix'.by # Recoverer \/ fix'.at = "children"
           \/ fix.by = Recoverer /\ fix.at # "children"
           \/ \A i \in Ids : child[i] = "none"
    PROVE  Children'
BY DEF Children, ChildrenFollowTasks, IntentsFollowImports, RecordsKnowChildren, RecoveryKnowsChildren

LEMMA FixEndsChildren == ASSUME Ownership, Children, FixEnds PROVE Children'
<1> USE HoldersDiffer
<1>1. fix.at = "intent" /\ fix.at \in Reconciling /\ intent' = None /\ UNCHANGED <<op, child, quiet>>
    BY DEF FixEnds, Fixing, Reconciling
<1>2. fix.by \in Ids \cup {User, Recoverer}
    BY <1>1, FixerIsHolder
<1>3. ASSUME NEW i \in Ids, fix.by = i PROVE Children'
    <2>1. fix' = Idle /\ (Goto(i, "close") \/ Goto(i, "release"))
        BY <1>3 DEF FixEnds
    <2> QED BY <1>1, <1>3, <2>1, FixLeavesChildren
<1>4. CASE fix.by = Recoverer
    <2>1. UNCHANGED task
        BY <1>4 DEF FixEnds
    <2> QED BY <1>1, <1>4, <2>1, ChildrenKept
<1>5. CASE fix.by = User
    <2>1. UNCHANGED task /\ fix' = Idle
        BY <1>5 DEF FixEnds
    <2> QED BY <1>1, <2>1, ChildrenKept DEF Idle
<1> QED BY <1>2, <1>3, <1>4, <1>5

LEMMA FixFailsChildren == ASSUME Ownership, Children, FixFails PROVE Children'
<1> USE HoldersDiffer
<1>1. fix.at \in Reconciling /\ fix' = Idle /\ UNCHANGED <<intent, child>>
    BY DEF FixFails, Reconciling
<1>2. ASSUME NEW i \in Ids, fix.by = i PROVE Children'
    <2>1. CASE task[i] = "finish"
        <3>1. Fails(i, TRUE) /\ UNCHANGED op
            BY <1>2, <2>1 DEF FixFails
        <3>2. child[i] = "none"
            BY <2>1 DEF Children, ChildrenFollowTasks, Ownership, TypeOK
        <3> QED BY <1>1, <2>1, <3>1, <3>2, FailsChildren DEF Working
    <2>2. CASE task[i] # "finish"
        BY <1>1, <1>2, <2>2, FixLeavesChildren DEF FixFails
    <2> QED BY <2>1, <2>2
<1>3. CASE fix.by \notin Ids
    BY <1>1, <1>3, ChildrenKept DEF FixFails, Idle
<1> QED BY <1>2, <1>3

\* While a recovery is under way nobody works.
LEMMA RecoveryAlone ==
    ASSUME Ownership, Children, fix.by = Recoverer
    PROVE  /\ \A j \in Ids : task[j] \notin Working
           /\ \A j \in Ids : child[j] # "running"
<1>1. \A j \in Ids : task[j] \notin Working
    BY DEF Ownership, FixIsHeld, WorkIsRecorded
<1> QED BY <1>1 DEF Children, ChildrenFollowTasks, Working

\* What writes the record while nobody works, and asks for no more than is known.
LEMMA RecordChildren ==
    ASSUME Ownership, Children, fix.by = Recoverer, UNCHANGED <<intent, child, task, quiet>>,
           op' # None /\ op'.quiescent /\ op'.cleanup => child[op'.id] = "none",
           fix'.by = Recoverer /\ fix'.at # "children" => \A i \in Ids : child[i] = "none"
    PROVE  Children'
<1>1. \A j \in Ids : task[j] \notin Working /\ child[j] # "running"
    BY RecoveryAlone
<1> QED BY <1>1 DEF Children, ChildrenFollowTasks, IntentsFollowImports, RecordsKnowChildren, RecoveryKnowsChildren

LEMMA RecoverChildrenChildren == ASSUME Ownership, Children, RecoverChildren PROVE Children'
<1> USE HoldersDiffer
<1>1. fix.at = "children" /\ fix.by = Recoverer
    BY DEF RecoverChildren, Fixing, Ownership, FixIsHeld
<1>2. UNCHANGED <<intent, child, task, quiet>> /\ (op' = op \/ op' = None)
    BY DEF RecoverChildren
<1>3. fix'.by = Recoverer => \A i \in Ids : child[i] = "none"
    <2> SUFFICES ASSUME fix'.by = Recoverer, NEW i \in Ids PROVE child[i] = "none"
        OBVIOUS
    <2>1. ChildrenGone
        BY DEF RecoverChildren, Idle
    <2>2. child[i] # "running" /\ child[i] # "lost"
        BY <1>1, <2>1, RecoveryAlone DEF ChildrenGone
    <2> QED BY <2>2 DEF Ownership, TypeOK
<1>4. op' # None /\ op'.quiescent /\ op'.cleanup => child[op'.id] = "none"
    BY <1>2 DEF Children, RecordsKnowChildren
<1> QED BY <1>1, <1>2, <1>3, <1>4, RecordChildren

LEMMA RecoverOperationChildren == ASSUME Ownership, Children, RecoverOperation PROVE Children'
<1> USE HoldersDiffer
<1>1. fix.at = "operation" /\ fix.by = Recoverer
    BY DEF RecoverOperation, Fixing, Ownership, FixIsHeld
<1>2. UNCHANGED <<intent, child, task, quiet>> /\ (op = None => op' = None)
    BY DEF RecoverOperation
<1>3. \A i \in Ids : child[i] = "none"
    BY <1>1 DEF Children, RecoveryKnowsChildren
<1>4. op' # None => op'.id \in Ids
    <2> SUFFICES ASSUME op' # None PROVE op'.id \in Ids
        OBVIOUS
    <2>1. op \in Operations
        BY <1>2 DEF Ownership, TypeOK
    <2> QED BY <2>1 DEF RecoverOperation, Operations
<1> QED BY <1>1, <1>2, <1>3, <1>4, RecordChildren

LEMMA RecoverCandidateChildren == ASSUME Ownership, Children, RecoverCandidate PROVE Children'
<1> USE HoldersDiffer
<1>1. fix.at = "clean" /\ fix.by = Recoverer /\ op \in Operations
    BY DEF RecoverCandidate, Fixing, Ownership, FixIsHeld, TypeOK
<1>2. UNCHANGED <<intent, child, task, quiet>> /\ fix' = Idle /\ (op' = op \/ ~op'.cleanup)
    BY <1>1 DEF RecoverCandidate, Operations
<1>3. \A i \in Ids : child[i] = "none"
    BY <1>1 DEF Children, RecoveryKnowsChildren
<1>4. op' # None /\ op'.quiescent /\ op'.cleanup => child[op'.id] = "none"
    BY <1>2 DEF Children, RecordsKnowChildren
<1> QED BY <1>1, <1>2, <1>3, <1>4, RecordChildren

LEMMA BeginChildren ==
    ASSUME Ownership, Begun, Children, NEW kind \in Kinds, Begin(kind) PROVE Children'
<1> USE ColdAssumptions, HoldersDiffer DEF Children
<1> DEFINE i == ops + 1
<1>1. i \in Ids /\ task[i] = "none" /\ UNCHANGED <<child, quiet, intent, fix>> /\ intent = None
    BY DEF Begin, Ownership, TypeOK, Ids, Begun
<1>2. /\ task'[i] = IF kind = "import" THEN "begin" ELSE "start"
      /\ \A j \in Ids : j # i => task'[j] = task[j]
    BY <1>1, GotoTyped DEF Begin, Ownership, Places
<1>3. \A j \in Ids : task[j] \notin Working
    BY DEF Begin, Ownership, WorkIsRecorded
<1>4. op' = [id |-> i, kind |-> kind, phase |-> "queued", quiescent |-> FALSE, cleanup |-> FALSE]
    BY DEF Begin
<1>5. ChildrenFollowTasks'
    BY <1>1, <1>2, <1>3 DEF ChildrenFollowTasks, Working
<1>6. IntentsFollowImports'
    BY <1>1, <1>2, <1>3 DEF IntentsFollowImports
<1>7. RecordsKnowChildren'
    BY <1>4 DEF RecordsKnowChildren
<1>8. RecoveryKnowsChildren'
    BY <1>1 DEF RecoveryKnowsChildren
<1> QED BY <1>5, <1>6, <1>7, <1>8

LEMMA CancelRecordChildren == ASSUME Ownership, Children, CancelRecord PROVE Children'
<1> USE HoldersDiffer DEF Children, Ownership
<1>1. op # None /\ op \in Operations /\ gate = None /\ op.id \in Ids
    BY DEF CancelRecord, TypeOK, Operations
<1>2. UNCHANGED <<intent, child, task, quiet, fix>>
    BY DEF CancelRecord
<1>3. op'.id = op.id /\ op'.kind = op.kind /\ op' # None
    <2>1. op' \in Operations /\ op'.id = op.id /\ op'.kind = op.kind
        BY <1>1 DEF CancelRecord, Phase, Operations, Running
    <2> QED BY <2>1, NoRecordIsMissing
<1>4. op'.cleanup => op.cleanup
    BY <1>1 DEF CancelRecord, Phase, Operations
<1>5. op'.quiescent /\ op'.cleanup => child[op.id] = "none"
    <2>1. CASE ~Terminal
        <3>1. op' = [op EXCEPT !.phase = "cancelling"]
            BY <2>1 DEF CancelRecord, Phase
        <3> QED BY <1>1, <3>1 DEF Operations, RecordsKnowChildren
    <2>2. CASE Terminal /\ op.cleanup
        <3>1. child[op.id] # "running"
            BY <1>1, <2>2 DEF ChildrenFollowTasks, RecordsKnowChildren, Working
        <3>2. op.quiescent \/ child[op.id] # "lost"
            BY <1>1, <2>2 DEF CancelRecord, ChildrenGone
        <3> QED BY <1>1, <2>2, <3>1, <3>2 DEF TypeOK, RecordsKnowChildren
    <2>3. CASE Terminal /\ ~op.cleanup
        BY <1>4, <2>3
    <2> QED BY <2>1, <2>2, <2>3
<1>6. ChildrenFollowTasks'
    BY <1>2, <1>3 DEF ChildrenFollowTasks
<1>7. IntentsFollowImports'
    BY <1>2, <1>3 DEF IntentsFollowImports
<1>8. RecordsKnowChildren'
    BY <1>2, <1>3, <1>4, <1>5 DEF RecordsKnowChildren
<1>9. RecoveryKnowsChildren'
    BY <1>2 DEF RecoveryKnowsChildren
<1> QED BY <1>6, <1>7, <1>8, <1>9

LEMMA ClearFinishedChildren == ASSUME Ownership, Children, ClearFinished PROVE Children'
<1>1. op' = None /\ ~active /\ UNCHANGED <<intent, child, task, quiet, fix>>
    BY DEF ClearFinished
<1>2. \A j \in Ids : task[j] \notin Working
    BY <1>1 DEF Ownership, WorkIsRecorded
<1> QED BY <1>1, <1>2 DEF Children, ChildrenFollowTasks, IntentsFollowImports, RecordsKnowChildren,
        RecoveryKnowsChildren, Working

LEMMA RecoverExplicitChildren ==
    ASSUME Ownership, Children, NEW preserve \in BOOLEAN, RecoverExplicit(preserve) PROVE Children'
<1>1. intent # None /\ intent \in Intents
    BY DEF RecoverExplicit, Ownership, TypeOK
<1>2. intent' \in Intents /\ intent'.id = intent.id /\ intent'.kind = intent.kind
    BY <1>1 DEF RecoverExplicit, Intents
<1>3. UNCHANGED <<op, child, task, quiet>> /\ fix'.by # Recoverer
    BY HoldersDiffer DEF RecoverExplicit
<1> QED BY <1>1, <1>2, <1>3, ChildrenKept, NoRecordIsMissing

LEMMA OtherRequestsChildren ==
    ASSUME Ownership, Children,
           CancelToken \/ OtherUpdate \/ ManualSave \/ Maintain \/ Edit \/ UNCHANGED vars
    PROVE  Children'
<1>1. /\ UNCHANGED <<op, intent, child, task, quiet>>
      /\ fix' = fix \/ fix'.at = "children"
    BY DEF CancelToken, OtherUpdate, ManualSave, Maintain, Edit, vars, disk
<1> QED BY <1>1, ChildrenKept

LEMMA ChildGoesChildren == ASSUME Ownership, Children, NEW i \in Ids, ChildGoes(i) PROVE Children'
<1>1. /\ UNCHANGED <<op, intent, task, quiet, fix>> /\ child'[i] = "none"
      /\ \A j \in Ids : j # i => child'[j] = child[j]
    BY DEF ChildGoes, disk, Ownership, TypeOK
<1> QED BY <1>1 DEF Children, ChildrenFollowTasks, IntentsFollowImports, RecordsKnowChildren,
       RecoveryKnowsChildren, Ownership, TypeOK, Operations, Intents

LEMMA CrashChildren == ASSUME Ownership, Children, Crash PROVE Children'
<1> USE HoldersDiffer DEF Children, Ownership
<1>1. /\ UNCHANGED <<op, intent>> /\ fix'.at = "children"
      /\ \A i \in Ids : task'[i] = IF task[i] = "none" THEN "none" ELSE "done"
      /\ \A i \in Ids : child'[i] = IF child[i] = "running" THEN "lost" ELSE child[i]
    BY DEF Crash, disk
<1>2. ChildrenFollowTasks'
    BY <1>1 DEF ChildrenFollowTasks, TypeOK
<1>3. IntentsFollowImports'
    BY <1>1 DEF IntentsFollowImports, TypeOK, Intents, Working
<1>4. RecordsKnowChildren'
    BY <1>1 DEF RecordsKnowChildren, TypeOK, Operations, Working
<1>5. RecoveryKnowsChildren'
    BY <1>1 DEF RecoveryKnowsChildren
<1> QED BY <1>2, <1>3, <1>4, <1>5

LEMMA ChildrenStep == Ownership /\ Begun /\ Children /\ [Next]_vars => Children'
<1> SUFFICES ASSUME Ownership, Begun, Children, [Next]_vars PROVE Children'
    OBVIOUS
<1>1. ASSUME NEW i \in Ids, Work(i) PROVE Children'
    BY <1>1, BeginAgainChildren, StartChildren, ChildEndsChildren, ImportRegistersChildren, ChildFailsChildren,
       PublishBeginsChildren, IntendChildren, PlaceChildren, ImportConfigChildren, PromoteChildren,
       CommitChildren, StepFailsChildren, SettleChildren, CloseChildren, CleanChildren,
       ReleaseOwnerChildren DEF Work
<1>2. CASE Reconcile
    BY <1>2, ReconcileStepsChildren, FixEndsChildren, FixFailsChildren DEF Reconcile
<1>3. CASE Recovery
    BY <1>3, RecoverChildrenChildren, RecoverOperationChildren, RecoverCandidateChildren DEF Recovery
<1>4. CASE Request
    BY <1>4, BeginChildren, CancelRecordChildren, ClearFinishedChildren, RecoverExplicitChildren,
       OtherRequestsChildren DEF Request
<1>5. CASE Environment \/ UNCHANGED vars
    BY <1>5, OtherRequestsChildren, CrashChildren, ChildGoesChildren DEF Environment
<1> QED BY <1>1, <1>2, <1>3, <1>4, <1>5 DEF Next

\* A reconciliation that is no user's removes nothing of an operation that has
\* a child: the recovery has found none, and a task reconciles its own intent
\* once its child is gone, or one that had no child.
LEMMA FixerKnowsChildren ==
    ASSUME Ownership, Children, fix.at \in Reconciling, ~ByUser
    PROVE  intent # None /\ child[intent.id] = "none"
<1> USE HoldersDiffer DEF Children, Ownership
<1>1. intent # None /\ intent.id \in Ids /\ fix.by \in Ids \cup {User, Recoverer}
    BY IntentTyped, FixerIsHolder DEF Reconciling
<1>2. CASE fix.by = Recoverer
    BY <1>1, <1>2 DEF RecoveryKnowsChildren, Reconciling
<1>3. ASSUME NEW i \in Ids, fix.by = i PROVE child[intent.id] = "none"
    <2>1. task[i] \in {"finish", "settling"}
        BY <1>3 DEF FixIsHeld
    <2>2. child[i] = "none"
        BY <2>1 DEF ChildrenFollowTasks, TypeOK
    <2>3. CASE task[i] = "finish"
        BY <2>2, <2>3, WorkerReconciles DEF Working
    <2>4. CASE task[i] = "settling"
        BY <1>1, <2>2, <2>4 DEF IntentsFollowImports
    <2> QED BY <2>1, <2>3, <2>4
<1> QED BY <1>1, <1>2, <1>3 DEF ByUser

LEMMA RemovalFollowsChildren ==
    ASSUME Ownership, Children, [Next]_vars
    PROVE  ByUser \/ \A i \in Removed : child[i] = "none"
<1> SUFFICES ASSUME ~ByUser, NEW i \in Removed PROVE child[i] = "none"
    OBVIOUS
<1> USE HoldersDiffer DEF Removed
<1>1. ASSUME NEW j \in Ids, Work(j) PROVE child[i] = "none"
    <2>1. CASE Place(j)
        <3>1. i = j /\ op.kind # "import" /\ task[j] = "intent"
            BY <2>1 DEF Place
        <3> QED BY <3>1, PublishingChildless DEF Publishing
    <2>2. CASE Clean(j)
        <3>1. i = j /\ task[j] = "clean"
            BY <2>2 DEF Clean
        <3> QED BY <3>1 DEF Children, ChildrenFollowTasks, Ownership, TypeOK
    <2>3. CASE ~Place(j) /\ ~Clean(j)
        BY <1>1, <2>3 DEF Work, BeginAgain, Start, ChildEnds, ImportRegisters, ChildFails, PublishBegins, Intend,
           ImportConfig, Promote, Commit, StepFails, Settle, Close, ReleaseOwner, disk
    <2> QED BY <2>1, <2>2, <2>3
<1>2. CASE Reconcile
    <2>1. CASE FixResidue \/ FixCandidate
        <3>1. i = intent.id /\ fix.at \in Reconciling
            BY <2>1 DEF FixResidue, FixCandidate, Fixing, Reconciling
        <3> QED BY <3>1, FixerKnowsChildren
    <2>2. CASE ~(FixResidue \/ FixCandidate)
        BY <1>2, <2>2 DEF Reconcile, FixBegins, FixConfig, FixPointers, FixRecord, FixEnds, FixFails, disk
    <2> QED BY <2>1, <2>2
<1>3. CASE Recovery
    <2>1. CASE RecoverCandidate
        <3>1. fix.by = Recoverer /\ fix.at = "clean" /\ i \in candidates
            BY <2>1 DEF RecoverCandidate, Fixing, Ownership, FixIsHeld
        <3> QED BY <3>1 DEF Children, RecoveryKnowsChildren, Ownership, TypeOK
    <2>2. CASE ~RecoverCandidate
        BY <1>3, <2>2 DEF Recovery, RecoverChildren, RecoverOperation
    <2> QED BY <2>1, <2>2
<1>4. CASE Request
    <2>1. CASE CancelRecord
        <3>1. i = op.id /\ Terminal /\ op.cleanup /\ (op.quiescent \/ ChildrenGone) /\ i \in Ids
            BY <2>1 DEF CancelRecord, Ownership, TypeOK
        <3>2. op # None /\ child[i] # "running"
            BY <3>1 DEF Terminal, Children, ChildrenFollowTasks, RecordsKnowChildren, Working
        <3>3. op.quiescent \/ child[i] # "lost"
            BY <3>1 DEF ChildrenGone
        <3> QED BY <3>1, <3>2, <3>3 DEF Children, RecordsKnowChildren, Ownership, TypeOK
    <2>2. CASE ~CancelRecord
        BY <1>4, <2>2 DEF Request, Begin, CancelToken, ClearFinished, OtherUpdate, ManualSave,
           RecoverExplicit, Maintain, disk
    <2> QED BY <2>1, <2>2
<1>5. CASE Environment \/ UNCHANGED vars
    BY <1>5 DEF Environment, Edit, Crash, ChildGoes, disk, vars
<1> QED BY <1>1, <1>2, <1>3, <1>4, <1>5 DEF Next

\* A child process runs only while the task of its operation waits for it, is
\* lost only once that task is over or has failed without a proof, and nobody
\* has the record, the intent or a recovery of an operation ask for a removal
\* that its child could meet.  (settle_failure, cleanup_pending, recover)
THEOREM ChildrenAreKnown == Spec => []Children
<1>1. Init => Ownership /\ Cancellation /\ Children
    BY OwnedInit, CancellationInit, ChildrenInit
<1>2. Ownership /\ Cancellation /\ Children /\ [Next]_vars => (Ownership /\ Cancellation /\ Children)'
    BY OwnedStep, CancellationStep, ChildrenStep DEF Cancellation
<1> QED BY <1>1, <1>2, PTL DEF Spec

\* A task, a cancellation and a recovery remove a candidate or a runtime only
\* when no child process of that operation can still be working in it.
\* (settle_failure, cancel, recover)
THEOREM CleanupWaitsForChildren == Spec => CleanupFollowsChildren
<1> DEFINE Waits == ByUser \/ \A i \in Removed : child[i] = "none"
<1>1. Ownership /\ Children /\ [Next]_vars => Waits
    BY RemovalFollowsChildren
<1>2. Init => Ownership /\ Cancellation /\ Children
    BY OwnedInit, CancellationInit, ChildrenInit
<1>3. Ownership /\ Cancellation /\ Children /\ [Next]_vars => (Ownership /\ Cancellation /\ Children)'
    BY OwnedStep, CancellationStep, ChildrenStep DEF Cancellation
<1> QED BY <1>1, <1>2, <1>3, PTL DEF Spec, CleanupFollowsChildren
=============================================================================

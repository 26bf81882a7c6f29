---------------------------- MODULE ContentRestore ----------------------------
(***************************************************************************)
(* The restore engine of crates/nexus-snapshots/src/restore.rs: a          *)
(* write-ahead record drives every file of a profile from its original to  *)
(* the content of a snapshot, through rename backups kept in the DSH home, *)
(* and back.                                                               *)
(*                                                                         *)
(* A call (apply, rollback, commit, mark) reads the record again when it   *)
(* begins; each action below is one durable effect of a call: a write of   *)
(* the record, or one change of the file namespace.  A process can end, or *)
(* an effect fail, between any two of them.  Which call is made when is    *)
(* decided by the checkpoint protocol (CheckpointRestore).                 *)
(***************************************************************************)
EXTENDS Integers, FiniteSets

CONSTANTS
    N,             \* FILE_POLICY.len(): files of a profile, in policy order
    PackageFiles,  \* the files whose change needs new dependencies
    Versions,      \* contents a file or a snapshot may have
    Changes        \* what a snapshot may ask of a file

ChangeKinds == {"replace", "keep", "remove", "omit"}

ASSUME EngineAssumption ==
    /\ N \in Nat \ {0}
    /\ PackageFiles \subseteq 1..N
    /\ Versions \subseteq Nat \ {0}
    /\ Changes \subseteq ChangeKinds

VARIABLES
    target,   \* the files of the profile
    backup,   \* <i>.original in the undo directory
    discard,  \* <i>.discarded in the undo directory
    txn,      \* the last transaction record on disk
    call      \* the running call of the engine, or how the last one ended

engine == <<target, backup, discard, txn, call>>

Files == 1..N
Absent == 0     \* no such file
Edited == -1    \* content written by somebody else
Omitted == -2   \* the snapshot says nothing about this file

Contents == Versions \cup {Edited}

OpStatuses == {"pending", "applying", "backed_up", "applied", "rolled_back"}
Operations ==
    [status: OpStatuses, original: Contents \cup {Absent},
     desired: Contents \cup {Absent, Omitted}]

Statuses ==
    {"none", "prepared", "applying", "applied", "committing", "committed", "rolled_back"}
Records == [status: Statuses, materialize: BOOLEAN, ops: [Files -> Operations]]

Terminal == {"none", "committed", "rolled_back"}

Calls ==
    [op: {"none", "apply", "rollback", "commit", "mark"},
     at: {"entry", "files", "cleanup", "ok", "failed"}, file: 0..(N + 1), moved: BOOLEAN]

\* The files, the undo directory, the record and the running call have their types.
EngineTypeOK ==
    /\ target \in [Files -> Contents \cup {Absent}]
    /\ backup \in [Files -> Contents \cup {Absent}]
    /\ discard \in [Files -> Contents \cup {Absent}]
    /\ txn \in Records
    /\ call \in Calls

\* The hash in applied_sha256: written together with status Applied.
AppliedContent(op) ==
    IF op.status = "applied" /\ op.desired # Omitted THEN op.desired ELSE Absent

\* What the file holds when the restore is complete.
Restored(op) == IF op.desired = Omitted THEN op.original ELSE op.desired

Quiescent == [op |-> "none", at |-> "ok", file |-> 0, moved |-> FALSE]

EngineInit ==
    /\ target \in [Files -> {Absent, 1}]
    /\ backup = [f \in Files |-> Absent]
    /\ discard = [f \in Files |-> Absent]
    /\ txn = [status |-> "none", materialize |-> FALSE,
              ops |-> [f \in Files |->
                  [status |-> "pending", original |-> Absent, desired |-> Omitted]]]
    /\ call = Quiescent

-------------------------------------------------------------------------------
Running(op, at) == call.op = op /\ call.at = at
Busy == call.at \in {"entry", "files", "cleanup"}

Begin(op) == call' = [op |-> op, at |-> "entry", file |-> 0, moved |-> FALSE]
Return(how) == call' = [call EXCEPT !.at = how, !.file = 0, !.moved = FALSE]
GoTo(f) == call' = [call EXCEPT !.at = "files", !.file = f, !.moved = FALSE]
Moved == call' = [call EXCEPT !.moved = TRUE]
CleanUp == call' = [call EXCEPT !.at = "cleanup", !.file = 0, !.moved = FALSE]

Write(status) == txn' = [txn EXCEPT !.status = status]
WriteOp(f, status) == txn' = [txn EXCEPT !.ops[f].status = status]
Abandoned == [txn EXCEPT !.status = "rolled_back", !.materialize = FALSE]

DesiredNext(change, current, version) ==   \* mutant: the snapshot after the requested one
    CASE change = "replace" -> version + 1
      [] change = "keep" -> current
      [] change = "remove" -> Absent
      [] change = "omit" -> Omitted

\* prepare_restore: refused while a transaction of the profile is active.
Desired(change, current, version) ==
    CASE change = "replace" -> version
      [] change = "keep" -> current
      [] change = "remove" -> Absent
      [] change = "omit" -> Omitted

Prepare(changes, version) ==
    /\ txn.status \in Terminal
    /\ LET desired == [f \in Files |-> Desired(changes[f], target[f], version)]
       IN txn' = [status |-> "prepared",
                  materialize |-> \E f \in PackageFiles :
                                      desired[f] \notin {Omitted, target[f]},
                  ops |-> [f \in Files |->
                      [status |-> "pending", original |-> target[f],
                       desired |-> desired[f]]]]
    /\ call' = Quiescent
    /\ UNCHANGED <<target, backup, discard>>

-------------------------------------------------------------------------------
(* apply_restore                                                           *)

ApplyBegins ==
    /\ Running("apply", "entry")
    /\ \/ txn.status = "applied" /\ Return("ok") /\ UNCHANGED txn
       \/ txn.status \notin {"prepared", "applying", "applied"}
          /\ Return("failed") /\ UNCHANGED txn
       \/ txn.status = "applying" /\ GoTo(1) /\ UNCHANGED txn
       \/ /\ txn.status = "prepared"
          /\ \/ /\ \A f \in Files : target[f] = txn.ops[f].original
                /\ Write("applying") /\ GoTo(1)
             \/ /\ \E f \in Files : target[f] # txn.ops[f].original
                /\ Return("failed") /\ UNCHANGED txn
    /\ UNCHANGED <<target, backup, discard>>

\* The file at which the apply loop stands.
Applying(f, status) ==
    /\ Running("apply", "files") /\ call.file = f
    /\ txn.ops[f].status \in status

\* verify_applied_operation, for files completed before this call.
ApplyVerify(f) ==
    LET op == txn.ops[f] IN
    /\ Applying(f, {"applied"})
    /\ IF op.desired = Omitted \/ target[f] = AppliedContent(op)
       THEN GoTo(f + 1) ELSE Return("failed")
    /\ UNCHANGED <<target, backup, discard, txn>>

ApplyOmitted(f) ==
    /\ Applying(f, OpStatuses \ {"applied"})
    /\ txn.ops[f].desired = Omitted
    /\ WriteOp(f, "applied") /\ GoTo(f + 1)
    /\ UNCHANGED <<target, backup, discard>>

ApplyRecord(f) ==
    LET op == txn.ops[f] IN
    /\ Applying(f, {"pending"}) /\ op.desired # Omitted
    /\ IF target[f] = op.original
       THEN WriteOp(f, "applying") /\ UNCHANGED call
       ELSE Return("failed") /\ UNCHANGED txn
    /\ UNCHANGED <<target, backup, discard>>

ApplyBackUpUnchecked(f) ==   \* mutant: the backup of an earlier attempt is not looked at
    LET op == txn.ops[f] IN
    /\ Applying(f, {"applying"}) /\ op.desired # Omitted
    /\ op.original # Absent
    /\ backup' = [backup EXCEPT ![f] = target[f]]
    /\ target' = [target EXCEPT ![f] = Absent]
    /\ UNCHANGED <<discard, txn, call>>

\* The original is renamed into the undo directory before BackedUp is recorded.
ApplyBackUp(f) ==
    LET op == txn.ops[f] IN
    /\ Applying(f, {"applying"}) /\ op.desired # Omitted
    /\ op.original # Absent /\ backup[f] = Absent
    /\ IF target[f] = op.original
       THEN /\ backup' = [backup EXCEPT ![f] = target[f]]
            /\ target' = [target EXCEPT ![f] = Absent]
            /\ UNCHANGED call
       ELSE Return("failed") /\ UNCHANGED <<target, backup>>
    /\ UNCHANGED <<discard, txn>>

ApplyBackedUp(f) ==
    LET op == txn.ops[f] IN
    /\ Applying(f, {"applying"}) /\ op.desired # Omitted
    /\ op.original = Absent \/ backup[f] # Absent
    /\ IF backup[f] = op.original
       THEN WriteOp(f, "backed_up") /\ UNCHANGED call
       ELSE Return("failed") /\ UNCHANGED txn
    /\ UNCHANGED <<target, backup, discard>>

\* An operation that was rolled back falls through to this point of the loop.
ApplyWrite(f) ==
    LET op == txn.ops[f]
        lost == op.original # Absent /\ backup[f] = Absent
    IN
    /\ Applying(f, {"backed_up", "rolled_back"}) /\ op.desired # Omitted
    /\ ~call.moved
    /\ IF lost \/ target[f] \notin {op.desired, Absent}
       THEN Return("failed") /\ UNCHANGED target
       ELSE target' = [target EXCEPT ![f] = op.desired] /\ Moved
    /\ UNCHANGED <<backup, discard, txn>>

ApplyWritten(f) ==
    /\ Applying(f, {"backed_up", "rolled_back"}) /\ txn.ops[f].desired # Omitted
    /\ call.moved
    /\ WriteOp(f, "applied") /\ GoTo(f + 1)
    /\ UNCHANGED <<target, backup, discard>>

ApplyEnds ==
    /\ Running("apply", "files") /\ call.file = N + 1
    /\ Write("applied") /\ Return("ok")
    /\ UNCHANGED <<target, backup, discard>>

Apply ==
    \/ ApplyBegins \/ ApplyEnds
    \/ \E f \in Files :
          \/ ApplyVerify(f) \/ ApplyOmitted(f) \/ ApplyRecord(f) \/ ApplyBackUp(f)
          \/ ApplyBackedUp(f) \/ ApplyWrite(f) \/ ApplyWritten(f)

-------------------------------------------------------------------------------
(* rollback_restore                                                        *)

RollbackBeginsOnce ==   \* mutant: a transaction that is rolled back is refused
    /\ Running("rollback", "entry")
    /\ \/ txn.status \in {"none", "committing", "committed", "rolled_back"}
          /\ Return("failed") /\ UNCHANGED txn
       \/ txn.status = "prepared" /\ txn' = Abandoned /\ Return("ok")
       \/ txn.status \in {"applying", "applied"} /\ GoTo(N) /\ UNCHANGED txn
    /\ UNCHANGED <<target, backup, discard>>

RollbackBegins ==
    /\ Running("rollback", "entry")
    /\ \/ txn.status = "rolled_back" /\ CleanUp /\ UNCHANGED txn
       \/ txn.status \in {"none", "committing", "committed"}
          /\ Return("failed") /\ UNCHANGED txn
       \/ txn.status = "prepared" /\ txn' = Abandoned /\ Return("ok")
       \/ txn.status \in {"applying", "applied"} /\ GoTo(N) /\ UNCHANGED txn
    /\ UNCHANGED <<target, backup, discard>>

RollingBack(f) == Running("rollback", "files") /\ call.file = f

Undoable(f) ==
    /\ RollingBack(f) /\ ~call.moved
    /\ txn.ops[f].status \notin {"pending", "rolled_back"}

RollbackSkip(f) ==
    /\ RollingBack(f)
    /\ txn.ops[f].status \in {"pending", "rolled_back"}
    /\ GoTo(f - 1)
    /\ UNCHANGED <<target, backup, discard, txn>>

\* replace_durable: the backup is moved over whatever is there.
RollbackReplace(f) ==
    /\ Undoable(f)
    /\ backup[f] # Absent
    /\ IF backup[f] = txn.ops[f].original
       THEN /\ target' = [target EXCEPT ![f] = backup[f]]
            /\ backup' = [backup EXCEPT ![f] = Absent]
            /\ Moved
       ELSE Return("failed") /\ UNCHANGED <<target, backup>>
    /\ UNCHANGED <<discard, txn>>

RollbackUntouched(f) ==
    LET op == txn.ops[f] IN
    /\ Undoable(f)
    /\ backup[f] = Absent /\ op.original # Absent
    /\ IF target[f] = op.original THEN Moved ELSE Return("failed")
    /\ UNCHANGED <<target, backup, discard, txn>>

\* move_rollback_discard: a file that did not exist before is put aside.
RollbackDiscard(f) ==
    LET op == txn.ops[f]
        expected == IF op.status # "backed_up" THEN AppliedContent(op)
                    ELSE IF op.desired = Omitted THEN Absent ELSE op.desired
        missing == target[f] = Absent /\ discard[f] = Absent
    IN
    /\ Undoable(f)
    /\ backup[f] = Absent /\ op.original = Absent
    /\ \/ /\ missing
          /\ IF op.status = "applied" /\ expected # Absent THEN Return("failed") ELSE Moved
          /\ UNCHANGED <<target, discard>>
       \/ /\ ~missing /\ target[f] = Absent
          /\ IF discard[f] = expected THEN Moved ELSE Return("failed")
          /\ UNCHANGED <<target, discard>>
       \/ /\ target[f] # Absent
          /\ IF discard[f] = Absent /\ target[f] = expected
             THEN /\ discard' = [discard EXCEPT ![f] = target[f]]
                  /\ target' = [target EXCEPT ![f] = Absent]
                  /\ Moved
             ELSE Return("failed") /\ UNCHANGED <<target, discard>>
    /\ UNCHANGED <<backup, txn>>

RollbackRecord(f) ==
    /\ RollingBack(f) /\ call.moved
    /\ WriteOp(f, "rolled_back") /\ GoTo(f - 1)
    /\ UNCHANGED <<target, backup, discard>>

RollbackFiles ==
    /\ Running("rollback", "files") /\ call.file = 0
    /\ CleanUp
    /\ UNCHANGED <<target, backup, discard, txn>>

Rollback ==
    \/ RollbackBegins \/ RollbackFiles
    \/ \E f \in Files :
          \/ RollbackSkip(f) \/ RollbackReplace(f) \/ RollbackUntouched(f)
          \/ RollbackDiscard(f) \/ RollbackRecord(f)

-------------------------------------------------------------------------------
(* commit_restore, mark_materialized, remove_backup_directory              *)

CommitBegins ==
    /\ Running("commit", "entry")
    /\ \/ txn.status \in {"committing", "committed"} /\ CleanUp /\ UNCHANGED txn
       \/ txn.status = "applied" /\ ~txn.materialize /\ Write("committing") /\ CleanUp
       \/ /\ txn.status \notin {"applied", "committing", "committed"}
             \/ (txn.status = "applied" /\ txn.materialize)
          /\ Return("failed") /\ UNCHANGED txn
    /\ UNCHANGED <<target, backup, discard>>

MarkMaterialized ==
    /\ Running("mark", "entry")
    /\ \/ txn.status = "applied"
          /\ txn' = [txn EXCEPT !.materialize = FALSE] /\ Return("ok")
       \/ txn.status = "committed" /\ ~txn.materialize /\ Return("ok") /\ UNCHANGED txn
       \/ /\ txn.status # "applied" /\ (txn.status = "committed" => txn.materialize)
          /\ Return("failed") /\ UNCHANGED txn
    /\ UNCHANGED <<target, backup, discard>>

Left == {f \in Files : backup[f] # Absent \/ discard[f] # Absent}

\* Undo copies are removed one by one, and then the record becomes terminal.
RemoveUndoCopy ==
    /\ call.at = "cleanup"
    /\ \E f \in Left :
          /\ \A g \in Left : f <= g
          /\ backup' = [backup EXCEPT ![f] = Absent]
          /\ discard' = IF backup[f] # Absent THEN discard
                        ELSE [discard EXCEPT ![f] = Absent]
    /\ UNCHANGED <<target, txn, call>>

UndoCopiesRemoved ==
    /\ call.at = "cleanup" /\ Left = {}
    /\ txn' = IF call.op = "commit" THEN [txn EXCEPT !.status = "committed"] ELSE Abandoned
    /\ Return("ok")
    /\ UNCHANGED <<target, backup, discard>>

EngineStep ==
    \/ Apply \/ Rollback \/ CommitBegins \/ MarkMaterialized
    \/ RemoveUndoCopy \/ UndoCopiesRemoved

\* A system call, a read or a write of the call fails; the write that fails may
\* have reached the disk, the last one of the call too.
CallFails ==
    /\ Busy \/ call.at = "ok"
    /\ Return("failed")
    /\ UNCHANGED <<target, backup, discard, txn>>

\* Somebody else changes a file of the profile.
Edit(f) ==
    /\ target[f] # Edited
    /\ target' = [target EXCEPT ![f] = Edited]
    /\ UNCHANGED <<backup, discard, txn, call>>
===============================================================================

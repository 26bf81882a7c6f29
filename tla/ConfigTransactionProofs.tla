----------------------- MODULE ConfigTransactionProofs -----------------------
(***************************************************************************)
(* What holds of ConfigTransaction for every set of documents and every    *)
(* number of operations and mishaps.                                       *)
(***************************************************************************)
EXTENDS ConfigTransaction, TLAPS

-------------------------------------------------------------------------------
(* Types                                                                   *)

\* Whoever works in the store works on a record, or is about to write one for
\* a document.
Begun(j) == j.at \in {"protect", "publish"}
HasWork(j) ==
    /\ j.kind # "none" /\ ~Begun(j) => j.rec \in Records
    /\ Begun(j) => j.config \in Docs
WorkIsOnRecords == \A p \in Procs : HasWork(job[p])
Typed == TypeOK /\ WorkIsOnRecords

\* What the operations read is well typed.
LEMMA ReadsTyped ==
    ASSUME TypeOK
    PROVE  /\ Default \in Docs /\ Idle \in Jobs /\ HasWork(Idle)
           /\ Readable(config) => config \in Docs
           /\ Readable(previous) => previous \in Docs
           /\ record # Missing => record \in Records
           /\ decision # Missing => decision \in Decisions
<1>1. Default \in Docs
  BY ConfigAssumptions DEF Default
<1>2. Idle \in Jobs /\ HasWork(Idle)
  BY DEF Idle, Jobs, Kinds, Steps, Files, HasWork, Begun
<1>3. /\ Readable(config) => config \in Docs
      /\ Readable(previous) => previous \in Docs
  BY DEF TypeOK, Readable, Files
<1> QED
  BY <1>1, <1>2, <1>3 DEF TypeOK

\* The counters stay below their bounds.
LEMMA CountersTyped ==
    ASSUME TypeOK
    PROVE  /\ Command => commands' \in 0 .. MaxCommands /\ mishaps' \in 0 .. MaxMishaps
           /\ Smooth => commands' \in 0 .. MaxCommands /\ mishaps' \in 0 .. MaxMishaps
           /\ Mishap => commands' \in 0 .. MaxCommands /\ mishaps' \in 0 .. MaxMishaps
BY ConfigAssumptions DEF TypeOK, Command, Smooth, Mishap

\* One process goes to a job that is well typed; the others stay where they are.
LEMMA JobTyped ==
    ASSUME Typed, NEW p \in Procs, NEW j \in Jobs, HasWork(j),
           job' = [job EXCEPT ![p] = j]
    PROVE  job' \in [Procs -> Jobs] /\ WorkIsOnRecords'
BY DEF Typed, TypeOK, WorkIsOnRecords

\* Going to another step keeps the record and the document.
LEMMA GotoTyped ==
    ASSUME Typed, NEW p \in Procs, NEW step \in Steps, Goto(p, step), job[p].kind # "none",
           Begun(job[p]) <=> step \in {"protect", "publish"}
    PROVE  job' \in [Procs -> Jobs] /\ WorkIsOnRecords'
<1> DEFINE j == [job[p] EXCEPT !.at = step]
<1>1. j \in Jobs /\ j.rec = job[p].rec /\ j.config = job[p].config /\ j.at = step
  BY DEF Typed, TypeOK, Jobs
<1>2. job' = [job EXCEPT ![p] = j]
  BY DEF Goto
<1>3. HasWork(job[p])
  BY DEF Typed, WorkIsOnRecords
<1>4. HasWork(j)
  BY <1>1, <1>3 DEF HasWork, Begun
<1> HIDE DEF j
<1> QED
  BY <1>1, <1>2, <1>4, JobTyped

\* Ending leaves nothing to work on.
LEMMA EndTyped ==
    ASSUME Typed, NEW p \in Procs, End(p)
    PROVE  job' \in [Procs -> Jobs] /\ WorkIsOnRecords'
<1>1. Idle \in Jobs /\ HasWork(Idle)
  BY ReadsTyped DEF Typed
<1> QED
  BY <1>1, JobTyped DEF End

\* A settlement starts from what it reads.
LEMMA SettleJobTyped ==
    ASSUME Typed, NEW kind \in Kinds
    PROVE  SettleJob(kind) \in Jobs /\ HasWork(SettleJob(kind))
<1>1. CASE SettleJob(kind) = Idle
  BY <1>1, ReadsTyped DEF Typed
<1>2. CASE SettleJob(kind) # Idle
  <2>1. record \in Records
    BY <1>2, ReadsTyped DEF Typed, SettleJob
  <2>2. SettleJob(kind) = [kind |-> kind, at |-> IF record.committed THEN "remove" ELSE "config",
                           rec |-> record, config |-> config, previous |-> previous]
    BY <1>2 DEF SettleJob
  <2> QED
    BY <2>1, <2>2 DEF Typed, TypeOK, Jobs, Steps, HasWork, Begun
<1> QED
  BY <1>1, <1>2

LEMMA PreservePendingTyped ==
    ASSUME Typed, NEW p \in Procs, NEW d \in Decisions \cup {Missing}, PreservePending(p, d)
    PROVE  /\ decision' \in Decisions \cup {Missing}
           /\ job' \in [Procs -> Jobs] /\ WorkIsOnRecords'
<1>1. CASE Readable(config) /\ record # Missing /\ decision' = [rec |-> record, current |-> config]
           /\ job' = [job EXCEPT ![p] = [Idle EXCEPT !.kind = "preserve", !.at = "archive",
                                         !.rec = record, !.config = config]]
  <2> DEFINE j == [Idle EXCEPT !.kind = "preserve", !.at = "archive",
                               !.rec = record, !.config = config]
  <2>1. record \in Records /\ config \in Docs /\ config \in Files
    BY <1>1, ReadsTyped DEF Typed, TypeOK
  <2>2. j \in Jobs /\ HasWork(j)
    BY <2>1 DEF Jobs, Idle, Kinds, Steps, Files, HasWork, Begun
  <2>3. job' \in [Procs -> Jobs] /\ WorkIsOnRecords'
    BY <1>1, <2>1, <2>2, JobTyped
  <2> QED
    BY <1>1, <2>1, <2>3 DEF Decisions
<1>2. CASE End(p) /\ decision' \in {Missing, d}
  BY <1>2, EndTyped
<1> QED
  BY <1>1, <1>2 DEF PreservePending

LEMMA SettlesTyped ==
    ASSUME Typed, NEW p \in Procs, NEW kind \in Kinds, Settles(p, kind)
    PROVE  /\ decision' \in Decisions \cup {Missing}
           /\ job' \in [Procs -> Jobs] /\ WorkIsOnRecords'
<1>1. decision \in Decisions \cup {Missing}
  BY DEF Typed, TypeOK
<1>2. CASE decision # Missing \/ OuterPreserves
  BY <1>1, <1>2, PreservePendingTyped DEF Settles
<1>3. CASE ~(decision # Missing \/ OuterPreserves)
  BY <1>1, <1>3, SettleJobTyped, JobTyped DEF Settles
<1> QED
  BY <1>2, <1>3

\* A save that begins, up to its record.
LEMMA BeginningTyped ==
    ASSUME Typed, Save \/ SaveProtects \/ SavePrepares \/ SaveStops
    PROVE  Typed'
<1> USE ConfigAssumptions
<1>1. ASSUME NEW step \in {"protect", "publish"}, Saving(step)
      PROVE  job["agent"].kind # "none" /\ job["agent"].config \in Docs
             /\ Begun(job["agent"])
  BY <1>1 DEF Saving, Typed, WorkIsOnRecords, HasWork, Begun
<1>2. CASE Save
  <2>1. PICK doc \in Docs :
           job' = [job EXCEPT !["agent"] = [Idle EXCEPT !.kind = "save", !.at = "protect",
                                            !.config = doc]]
    BY <1>2 DEF Save
  <2> DEFINE j == [Idle EXCEPT !.kind = "save", !.at = "protect", !.config = doc]
  <2>2. j \in Jobs /\ HasWork(j)
    BY DEF Jobs, Idle, Kinds, Steps, Files, HasWork, Begun
  <2> HIDE DEF j
  <2>3. job' \in [Procs -> Jobs] /\ WorkIsOnRecords'
    BY <2>1, <2>2, JobTyped DEF j
  <2> QED
    BY <1>2, <2>3, CountersTyped DEF Save, Typed, TypeOK, files, durable, history
<1>3. CASE SaveProtects
  <2>1. job["agent"].kind # "none" /\ job["agent"].config \in Docs /\ Begun(job["agent"])
    BY <1>1, <1>3 DEF SaveProtects
  <2>2. job' \in [Procs -> Jobs] /\ WorkIsOnRecords'
    BY <1>3, <2>1, EndTyped, GotoTyped DEF SaveProtects, Steps
  <2>3. protected' \subseteq Docs
    <3>1. Protect(job["agent"].config) /\ config \in Docs \cup {Missing}
      BY <1>3 DEF SaveProtects, Loads, Typed, TypeOK, Files
    <3> QED
      BY <2>1, <3>1 DEF Protect, Typed, TypeOK
  <2>4. unseen' \in Files
    BY <1>3 DEF SaveProtects, Files
  <2> QED
    BY <1>3, <2>2, <2>3, <2>4, CountersTyped DEF SaveProtects, Typed, TypeOK, files
<1>4. CASE SavePrepares
  <2> DEFINE rec == [committed |-> FALSE, oldC |-> config, oldP |-> previous,
                     target |-> job["agent"].config,
                     nextP |-> IF config = Missing THEN previous ELSE config]
  <2> DEFINE j == [Idle EXCEPT !.kind = "save", !.at = "config", !.rec = rec]
  <2>1. rec \in Records
    BY <1>1, <1>4 DEF SavePrepares, Records, Typed, TypeOK
  <2>2. record' = rec /\ job' = [job EXCEPT !["agent"] = j]
    BY <1>4 DEF SavePrepares
  <2>3. pair' = <<config, previous>> /\ edited' = FALSE /\ foreign' = {}
    BY <1>4 DEF SavePrepares, Decided
  <2> HIDE DEF rec
  <2>4. j \in Jobs /\ HasWork(j)
    BY <2>1 DEF Jobs, Idle, Kinds, Steps, Files, HasWork, Begun
  <2> HIDE DEF j
  <2>5. job' \in [Procs -> Jobs] /\ WorkIsOnRecords'
    BY <2>2, <2>4, JobTyped
  <2>6. pair' \in Pairs
    BY <2>3 DEF Pairs, Typed, TypeOK
  <2> QED
    BY <1>4, <2>1, <2>2, <2>3, <2>5, <2>6, CountersTyped
       DEF SavePrepares, Typed, TypeOK, files
<1>5. CASE SaveStops
  <2>1. job' \in [Procs -> Jobs] /\ WorkIsOnRecords'
    BY <1>5, EndTyped DEF SaveStops
  <2>2. commands' \in 0 .. MaxCommands /\ mishaps' \in 0 .. MaxMishaps
    BY <1>5, CountersTyped DEF SaveStops, Typed
  <2> QED
    BY <1>5, <2>1, <2>2 DEF SaveStops, Typed, TypeOK, files, durable, history
<1> QED
  BY <1>2, <1>3, <1>4, <1>5

LEMMA SavingTyped ==
    ASSUME Typed, SaveConfig \/ SavePrevious \/ SaveCommits \/ SaveEnds \/ Accepted \/ SaveFails
    PROVE  Typed'
<1> USE ConfigAssumptions
<1>1. ASSUME NEW step \in Steps \ {"protect", "publish"}, Saving(step)
      PROVE  /\ job["agent"].kind # "none" /\ ~Begun(job["agent"])
             /\ Rec("agent") \in Records
             /\ Rec("agent").target \in Files /\ Rec("agent").nextP \in Files
  <2>1. job["agent"].kind # "none" /\ ~Begun(job["agent"])
    BY <1>1 DEF Saving, Begun
  <2>2. Rec("agent") \in Records
    BY <2>1 DEF Rec, Typed, WorkIsOnRecords, HasWork
  <2> QED
    BY <2>1, <2>2 DEF Records, Files
<1>2. CASE SaveConfig
  <2>0. Saving("config") /\ "config" \in Steps \ {"protect", "publish"}
    BY <1>2 DEF SaveConfig, Steps
  <2>1. config' \in Files
    BY <1>1, <1>2, <2>0 DEF SaveConfig, Replaced, Typed, TypeOK
  <2>2. job' \in [Procs -> Jobs] /\ WorkIsOnRecords'
    BY <1>1, <1>2, <2>0, GotoTyped DEF SaveConfig, Steps
  <2> QED
    BY <1>2, <2>1, <2>2, CountersTyped DEF SaveConfig, Typed, TypeOK, durable, history
<1>3. CASE SavePrevious
  <2>0. Saving("previous") /\ "previous" \in Steps \ {"protect", "publish"}
    BY <1>3 DEF SavePrevious, Steps
  <2>1. previous' \in Files
    BY <1>1, <1>3, <2>0 DEF SavePrevious, Replaced, Typed, TypeOK
  <2>2. job' \in [Procs -> Jobs] /\ WorkIsOnRecords'
    BY <1>1, <1>3, <2>0, GotoTyped DEF SavePrevious, Steps
  <2> QED
    BY <1>3, <2>1, <2>2, CountersTyped DEF SavePrevious, Typed, TypeOK, durable, history
<1>4. CASE SaveCommits
  <2>0. Saving("commit") /\ "commit" \in Steps \ {"protect", "publish"}
    BY <1>4 DEF SaveCommits, Steps
  <2>1. record' \in Records /\ pair' \in Pairs
    BY <1>1, <1>4, <2>0 DEF SaveCommits, Committed, Records, Pairs, Files
  <2>2. job' \in [Procs -> Jobs] /\ WorkIsOnRecords'
    BY <1>1, <1>4, <2>0, GotoTyped DEF SaveCommits, Steps
  <2>3. commands' \in 0 .. MaxCommands /\ mishaps' \in 0 .. MaxMishaps
    BY <1>4, CountersTyped DEF SaveCommits, Typed
  <2> QED
    BY <1>4, <2>1, <2>2, <2>3 DEF SaveCommits, Typed, TypeOK, files
<1>5. CASE SaveEnds
  <2>1. job' \in [Procs -> Jobs] /\ WorkIsOnRecords'
    BY <1>5, EndTyped DEF SaveEnds
  <2>2. commands' \in 0 .. MaxCommands /\ mishaps' \in 0 .. MaxMishaps
    BY <1>5, CountersTyped DEF SaveEnds, Typed
  <2> QED
    BY <1>5, <2>1, <2>2 DEF SaveEnds, Typed, TypeOK, files, history
<1>6. CASE Accepted
  <2>1. job' \in [Procs -> Jobs] /\ WorkIsOnRecords'
    BY <1>6, EndTyped DEF Accepted
  <2> QED
    BY <1>6, <2>1, CountersTyped DEF Accepted, Typed, TypeOK, files, history
<1>7. CASE SaveFails
  <2>1. /\ decision' \in Decisions \cup {Missing}
        /\ job' \in [Procs -> Jobs] /\ WorkIsOnRecords'
    BY <1>7, SettlesTyped DEF SaveFails, Kinds
  <2>2. commands' \in 0 .. MaxCommands /\ mishaps' \in 0 .. MaxMishaps
    BY <1>7, CountersTyped DEF SaveFails, Typed
  <2> QED
    BY <1>7, <2>1, <2>2 DEF SaveFails, Typed, TypeOK, files, history
<1> QED
  BY <1>2, <1>3, <1>4, <1>5, <1>6, <1>7

LEMMA StepsTyped == ASSUME Typed, NEW p \in Procs, Step(p) PROVE Typed'
<1>1. job[p].kind # "none" /\ ~Begun(job[p]) => Rec(p) \in Records
  BY DEF Rec, Typed, WorkIsOnRecords, HasWork
<1>2. CASE Settle(p)
  <2>1. /\ decision' \in Decisions \cup {Missing}
        /\ job' \in [Procs -> Jobs] /\ WorkIsOnRecords'
    BY <1>2, SettlesTyped DEF Settle, Kinds
  <2> QED
    BY <1>2, <2>1, CountersTyped DEF Settle, Typed, TypeOK, files, history
<1>3. CASE Restore(p)
  <2>0. job[p].kind # "none" /\ ~Begun(job[p])
    BY <1>3 DEF Restore, Settling, Begun
  <2>1. Rec(p).oldC \in Files /\ Rec(p).oldP \in Files
    BY <1>1, <2>0 DEF Records
  <2>2. job' \in [Procs -> Jobs] /\ WorkIsOnRecords'
    BY <1>3, <2>0, GotoTyped DEF Restore, Steps
  <2>3. config' \in Files /\ previous' \in Files
    BY <1>3, <2>1 DEF Restore, Replaced, Typed, TypeOK
  <2> QED
    BY <1>3, <2>2, <2>3, CountersTyped DEF Restore, Typed, TypeOK, durable, history
<1>4. CASE SettleEnds(p)
  <2>1. job' \in [Procs -> Jobs] /\ WorkIsOnRecords'
    BY <1>4, EndTyped DEF SettleEnds
  <2> QED
    BY <1>4, <2>1, CountersTyped DEF SettleEnds, Typed, TypeOK, files, history
<1>5. CASE GivesUp(p)
  <2>1. job' \in [Procs -> Jobs] /\ WorkIsOnRecords'
    BY <1>5, EndTyped DEF GivesUp
  <2>2. commands' \in 0 .. MaxCommands /\ mishaps' \in 0 .. MaxMishaps
    BY <1>5, CountersTyped DEF GivesUp, Typed
  <2> QED
    BY <1>5, <2>1, <2>2 DEF GivesUp, Typed, TypeOK, files, durable, history
<1>6. CASE Archive(p)
  <2>1. job[p].kind # "none" /\ ~Begun(job[p])
    BY <1>6 DEF Archive, Preserving, Begun
  <2>2. job' \in [Procs -> Jobs] /\ WorkIsOnRecords'
    BY <1>6, <2>1, GotoTyped DEF Archive, Steps
  <2> QED
    BY <1>1, <1>6, <2>1, <2>2, CountersTyped DEF Archive, Typed, TypeOK, files, history
<1>7. CASE Drop(p)
  <2>1. job[p].kind # "none" /\ ~Begun(job[p])
    BY <1>7 DEF Drop, Preserving, Begun
  <2>2. job' \in [Procs -> Jobs] /\ WorkIsOnRecords'
    BY <1>7, <2>1, GotoTyped DEF Drop, Steps
  <2> QED
    BY <1>7, <2>2, CountersTyped DEF Drop, Decided, Typed, TypeOK, Pairs, files
<1>8. CASE PreserveEnds(p)
  <2>1. job' \in [Procs -> Jobs] /\ WorkIsOnRecords'
    BY <1>8, EndTyped DEF PreserveEnds
  <2> QED
    BY <1>8, <2>1, CountersTyped DEF PreserveEnds, Typed, TypeOK, files, history
<1> QED
  BY <1>2, <1>3, <1>4, <1>5, <1>6, <1>7, <1>8 DEF Step

LEMMA DecidingTyped ==
    ASSUME Typed, Status \/ Preserve \/ OuterOpens \/ OuterDecides \/ OuterEnds
    PROVE  Typed'
<1> USE ConfigAssumptions
<1>1. CASE Status
  <2>1. shown' \in Records
    BY <1>1, ReadsTyped DEF Status, Identity, Typed, Decisions
  <2> QED
    BY <1>1, <2>1, CountersTyped DEF Status, Typed, TypeOK, WorkIsOnRecords, files, durable,
       history
<1>2. CASE Preserve
  <2> DEFINE d == IF decision = Missing THEN Missing ELSE [decision EXCEPT !.current = config]
  <2>1. d \in Decisions \cup {Missing}
    BY <1>2, ReadsTyped DEF Preserve, Typed, Decisions
  <2>2. PreservePending("agent", d)
    BY <1>2 DEF Preserve
  <2>3. /\ decision' \in Decisions \cup {Missing}
        /\ job' \in [Procs -> Jobs] /\ WorkIsOnRecords'
    BY <2>1, <2>2, PreservePendingTyped
  <2> QED
    BY <1>2, <2>3, CountersTyped DEF Preserve, Typed, TypeOK, files, history
<1>3. CASE OuterOpens
  BY <1>3, CountersTyped DEF OuterOpens, Typed, TypeOK, WorkIsOnRecords, files, history
<1>4. CASE OuterDecides
  <2>1. decision \in Decisions \cup {Missing} /\ PreservePending("agent", decision)
    BY <1>4 DEF OuterDecides, Typed, TypeOK
  <2>2. /\ decision' \in Decisions \cup {Missing}
        /\ job' \in [Procs -> Jobs] /\ WorkIsOnRecords'
    BY <2>1, PreservePendingTyped
  <2> QED
    BY <1>4, <2>2, CountersTyped DEF OuterDecides, Typed, TypeOK, files, history
<1>5. CASE OuterEnds
  BY <1>5, CountersTyped DEF OuterEnds, Typed, TypeOK, WorkIsOnRecords, files, history
<1> QED
  BY <1>1, <1>2, <1>3, <1>4, <1>5

LEMMA EditTyped == ASSUME Typed, Edit PROVE Typed'
<1>1. config' \in Files /\ previous' \in Files /\ unseen' \in Files
  BY DEF Edit, Typed, TypeOK, Files
<1>2. foreign' \subseteq {"config", "previous"}
  BY DEF Edit, Typed, TypeOK
<1>3. pair' \in Pairs /\ edited' \in BOOLEAN
  <2>1. <<config', previous'>> \in Pairs
    BY <1>1 DEF Pairs
  <2>2. \/ pair' = <<config', previous'>> /\ edited' = FALSE
        \/ pair' = pair /\ edited' = TRUE
    BY DEF Edit
  <2> QED
    BY <2>1, <2>2 DEF Typed, TypeOK
<1>4. UNCHANGED <<durable, shown, job>> /\ Mishap
  BY DEF Edit
<1> QED
  BY <1>1, <1>2, <1>3, <1>4, CountersTyped DEF Typed, TypeOK, WorkIsOnRecords, durable

LEMMA CrashTyped == ASSUME Typed, Crash PROVE Typed'
<1>1. job' \in [Procs -> Jobs] /\ WorkIsOnRecords'
  BY EndTyped, ConfigAssumptions DEF Crash
<1> QED
  BY <1>1, CountersTyped DEF Crash, Typed, TypeOK, files, durable, history

LEMMA InitTyped == ASSUME Init PROVE Typed
<1>1. Default \in Docs /\ Idle \in Jobs /\ HasWork(Idle)
  BY ConfigAssumptions DEF Default, Idle, Jobs, Kinds, Steps, Files, HasWork, Begun
<1>2. config \in Files /\ previous \in Files
  BY <1>1 DEF Init, Files
<1>3. job \in [Procs -> Jobs] /\ WorkIsOnRecords
  BY <1>1 DEF Init, WorkIsOnRecords
<1>4. pair \in Pairs
  BY <1>2 DEF Init, Pairs
<1>5. /\ record \in Records \cup {Missing} /\ decision \in Decisions \cup {Missing}
      /\ shown \in Records \cup {Missing} /\ unseen \in Files
  BY DEF Init, Files
<1>6. archive \subseteq Records /\ protected \subseteq Docs /\ foreign \subseteq {"config", "previous"}
  BY DEF Init
<1>7. commands \in 0 .. MaxCommands /\ mishaps \in 0 .. MaxMishaps
  BY ConfigAssumptions DEF Init
<1>8. outer \in {"none", "open", "preserve"} /\ edited \in BOOLEAN
  BY DEF Init
<1> QED
  BY <1>2, <1>3, <1>4, <1>5, <1>6, <1>7, <1>8 DEF Typed, TypeOK

\* No step of anybody leaves the types.
LEMMA StepTyped == ASSUME Typed, [Next]_vars PROVE Typed'
<1>1. CASE UNCHANGED vars
  BY <1>1 DEF vars, Typed, TypeOK, WorkIsOnRecords
<1>2. CASE Next
  BY <1>2, BeginningTyped, SavingTyped, StepsTyped, DecidingTyped, EditTyped, CrashTyped
     DEF Next, AgentStep
<1> QED
  BY <1>1, <1>2

\* The files, the records about them and the work on them are well typed in
\* every reachable state, whoever shares the store (publish_config_pair,
\* settle_pending_inner, preserve_pending_inner).
THEOREM TypeCorrect == Spec => []TypeOK
<1>1. Init => Typed
  BY InitTyped
<1>2. Typed /\ [Next]_vars => Typed'
  BY StepTyped
<1>3. Typed => TypeOK
  BY DEF Typed
<1> QED
  BY <1>1, <1>2, <1>3, PTL DEF Spec

-------------------------------------------------------------------------------
(* The work under the gate fits the record, and the pair is whole          *)

\* The Agent alone works in the store; the Launcher, which shares no gate with
\* it, does not read the configuration.
AgentAlone == Procs = {"agent"}

\* A save that begins finds no record; then it works on the one it wrote:
\* prepared until the commit, committed from then on.  Unless somebody edits a file, what it has replaced so far is
\* what its step says.
SaveFollowsRecord ==
    LET j == job["agent"] IN
    j.kind = "save" =>
        /\ j.at \in {"protect", "publish", "config", "previous", "commit", "remove", "accept"}
        /\ decision = Missing
        /\ Begun(j) => record = Missing
        /\ j.at \in {"config", "previous", "commit"} => record = j.rec /\ ~record.committed
        /\ j.at \in {"remove", "accept"} => record = Committed(j.rec)
        /\ ~edited =>
              /\ (j.at = "previous" => config = j.rec.target)
              /\ (j.at \in {"commit", "remove", "accept"} => Published(j.rec))

\* A settlement works on the record it found, and takes the files back in the
\* order they were replaced.
SettleFollowsRecord ==
    LET j == job["agent"] IN
    j.kind \in {"settle", "rollback"} =>
        /\ j.at \in {"config", "previous", "remove"}
        /\ decision = Missing /\ record = j.rec
        /\ j.at \in {"config", "previous"} \/ j.kind = "rollback" => ~record.committed
        /\ ~edited /\ ~record.committed =>
              /\ config = (IF j.at = "config" THEN j.config ELSE j.rec.oldC)
              /\ previous = (IF j.at = "remove" THEN j.rec.oldP ELSE j.previous)

\* A preservation drops the record it has archived.
PreserveFollowsRecord ==
    LET j == job["agent"] IN
    j.kind = "preserve" =>
        /\ j.at \in {"archive", "drop", "undecide"}
        /\ j.at \in {"archive", "drop"} => record = j.rec
        /\ j.at = "drop" => j.rec \in archive

WorkFollowsRecord == SaveFollowsRecord /\ SettleFollowsRecord /\ PreserveFollowsRecord
Sound == Typed /\ WorkFollowsRecord /\ PairIsWhole

\* A record is a record, also when its commit is written.
LEMMA RecordsAre ==
    /\ Missing \notin Records
    /\ \A r \in Records : Committed(r) \in Records /\ Committed(r).committed
                          /\ Committed(r).target = r.target /\ Committed(r).nextP = r.nextP
                          /\ Committed(r).oldC = r.oldC /\ Committed(r).oldP = r.oldP
<1>1. ASSUME NEW r \in Records
      PROVE  Committed(r) \in Records /\ Committed(r).committed
             /\ Committed(r).target = r.target /\ Committed(r).nextP = r.nextP
             /\ Committed(r).oldC = r.oldC /\ Committed(r).oldP = r.oldP
  BY <1>1 DEF Records, Committed
<1> QED
  BY <1>1, NoRecordIsMissing

\* An idle Agent follows whatever there is.
LEMMA IdleFollows ==
    ASSUME job["agent"].kind = "none"
    PROVE  WorkFollowsRecord
BY DEF WorkFollowsRecord, SaveFollowsRecord, SettleFollowsRecord, PreserveFollowsRecord

\* The Agent's job is the one it was given.
LEMMA AgentsJob ==
    ASSUME Typed
    PROVE  /\ \A j : job' = [job EXCEPT !["agent"] = j] => job'["agent"] = j
           /\ End("agent") => job'["agent"].kind = "none"
           /\ \A step : Goto("agent", step) =>
                 /\ job'["agent"].kind = job["agent"].kind /\ job'["agent"].at = step
                 /\ job'["agent"].rec = job["agent"].rec
                 /\ job'["agent"].config = job["agent"].config
                 /\ job'["agent"].previous = job["agent"].previous
           /\ Free("agent") => job["agent"].kind = "none"
<1>1. "agent" \in Procs /\ job \in [Procs -> Jobs]
  BY ConfigAssumptions DEF Typed, TypeOK
<1>2. \A j : job' = [job EXCEPT !["agent"] = j] => job'["agent"] = j
  BY <1>1
<1>3. End("agent") => job'["agent"].kind = "none"
  BY <1>1 DEF End, Idle
<1>4. ASSUME NEW step, Goto("agent", step)
      PROVE  /\ job'["agent"].kind = job["agent"].kind /\ job'["agent"].at = step
             /\ job'["agent"].rec = job["agent"].rec
             /\ job'["agent"].config = job["agent"].config
             /\ job'["agent"].previous = job["agent"].previous
  <2>1. job'["agent"] = [job["agent"] EXCEPT !.at = step]
    BY <1>1, <1>4 DEF Goto
  <2> QED
    BY <1>1, <2>1 DEF Jobs
<1>5. Free("agent") => job["agent"].kind = "none"
  BY DEF Free, Idle
<1> QED
  BY <1>2, <1>3, <1>4, <1>5

\* What touches neither the files nor the records about them changes nothing.
LEMMA QuietStays ==
    ASSUME Sound, UNCHANGED <<files, record, decision, archive, job, pair, edited>>
    PROVE  (WorkFollowsRecord /\ PairIsWhole)'
BY DEF Sound, WorkFollowsRecord, SaveFollowsRecord, SettleFollowsRecord, PreserveFollowsRecord,
       PairIsWhole, Consistent, Published, files

LEMMA PreservePendingStays ==
    ASSUME Sound, NEW d, PreservePending("agent", d),
           UNCHANGED <<files, record, archive, pair, edited>>
    PROVE  (WorkFollowsRecord /\ PairIsWhole)'
<1>1. PairIsWhole'
  BY DEF Sound, PairIsWhole, Consistent, files
<1>2. CASE job' = [job EXCEPT !["agent"] = [Idle EXCEPT !.kind = "preserve", !.at = "archive",
                                            !.rec = record, !.config = config]]
  <2>1. job'["agent"] = [Idle EXCEPT !.kind = "preserve", !.at = "archive",
                                     !.rec = record, !.config = config]
    BY <1>2, AgentsJob DEF Sound
  <2>2. job'["agent"].kind = "preserve" /\ job'["agent"].at = "archive" /\ job'["agent"].rec = record
    BY <2>1 DEF Idle
  <2> QED
    BY <1>1, <2>2 DEF WorkFollowsRecord, SaveFollowsRecord, SettleFollowsRecord,
       PreserveFollowsRecord
<1>3. CASE End("agent")
  <2>1. job'["agent"].kind = "none"
    BY <1>3, AgentsJob DEF Sound
  <2> QED
    BY <1>1, <2>1 DEF WorkFollowsRecord, SaveFollowsRecord, SettleFollowsRecord,
       PreserveFollowsRecord
<1> QED
  BY <1>2, <1>3 DEF PreservePending

\* A settlement that begins may rely on what its check saw; one that follows a
\* failed save finds the prepared record of that save.
LEMMA SettlesStays ==
    ASSUME Sound, NEW kind \in {"settle", "rollback"}, Settles("agent", kind),
           kind = "rollback" => record \in Records /\ ~record.committed,
           UNCHANGED <<files, record, archive, pair, edited>>
    PROVE  (WorkFollowsRecord /\ PairIsWhole)'
<1>1. CASE decision # Missing \/ OuterPreserves
  BY <1>1, PreservePendingStays DEF Settles
<1>2. CASE ~(decision # Missing \/ OuterPreserves)
  <2>1. PairIsWhole'
    BY DEF Sound, PairIsWhole, Consistent, files
  <2>2. job'["agent"] = SettleJob(kind) /\ decision' = Missing
    BY <1>2, AgentsJob DEF Settles, Sound
  <2>3. CASE SettleJob(kind) = Idle
    <3>1. job'["agent"].kind = "none"
      BY <2>2, <2>3 DEF Idle
    <3> QED
      BY <2>1, <3>1 DEF WorkFollowsRecord, SaveFollowsRecord, SettleFollowsRecord,
         PreserveFollowsRecord
  <2>4. CASE SettleJob(kind) # Idle
    <3>1. job'["agent"] = [kind |-> kind, at |-> IF record.committed THEN "remove" ELSE "config",
                           rec |-> record, config |-> config, previous |-> previous]
      BY <2>2, <2>4 DEF SettleJob
    <3> QED
      BY <2>1, <2>2, <3>1 DEF WorkFollowsRecord, SaveFollowsRecord, SettleFollowsRecord,
         PreserveFollowsRecord, files
  <2> QED
    BY <2>3, <2>4
<1> QED
  BY <1>1, <1>2

LEMMA SavingStays ==
    ASSUME Sound, SaveConfig \/ SavePrevious \/ SaveCommits \/ SaveEnds \/ Accepted \/ SaveFails
    PROVE  (WorkFollowsRecord /\ PairIsWhole)'
<1> DEFINE j == job["agent"]
<1>1. ASSUME NEW step, Saving(step), step \in {"config", "previous", "commit", "remove", "accept"}
      PROVE  /\ j.rec \in Records /\ j.kind = "save" /\ j.at = step
             /\ decision = Missing
             /\ step \in {"config", "previous", "commit"} => record = j.rec /\ ~record.committed
             /\ step \in {"remove", "accept"} => record = Committed(j.rec)
             /\ ~edited =>
                   /\ (step = "previous" => config = j.rec.target)
                   /\ (step \in {"commit", "remove", "accept"} => Published(j.rec))
  <2>1. j.kind = "save" /\ j.at = step /\ ~Begun(j)
    BY <1>1 DEF Saving, Begun
  <2>2. j.rec \in Records
    BY <2>1, ConfigAssumptions DEF Sound, Typed, WorkIsOnRecords, HasWork
  <2> QED
    BY <2>1, <2>2 DEF Sound, WorkFollowsRecord, SaveFollowsRecord
<1>2. CASE SaveConfig
  <2>1. Saving("config") /\ Goto("agent", "previous")
        /\ (config = j.rec.oldC \/ j.rec.oldC = j.rec.target)
        /\ (config' = j.rec.target \/ (j.rec.oldC = j.rec.target /\ config' = config))
        /\ UNCHANGED <<previous, record, decision, archive, pair, edited>>
    BY <1>2 DEF SaveConfig, Replaceable, Replaced, Rec, durable, history
  <2>2. record = j.rec /\ ~record.committed /\ record # Missing /\ decision = Missing
    BY <1>1, <2>1, RecordsAre
  <2>3. j'.kind = j.kind /\ j'.at = "previous" /\ j'.rec = j.rec
    BY <2>1, AgentsJob DEF Sound
  <2>4. ~edited => config \in {j.rec.oldC, j.rec.target} /\ previous \in {j.rec.oldP, j.rec.nextP}
                  /\ pair = <<j.rec.oldC, j.rec.oldP>>
    BY <2>2 DEF Sound, PairIsWhole, Consistent
  <2>5. ~edited => config' = j.rec.target
    BY <2>1, <2>4
  <2>6. PairIsWhole'
    BY <2>1, <2>2, <2>4, <2>5 DEF PairIsWhole, Consistent
  <2>7. WorkFollowsRecord'
    BY <1>1, <2>1, <2>2, <2>3, <2>5 DEF WorkFollowsRecord, SaveFollowsRecord,
       SettleFollowsRecord, PreserveFollowsRecord, Begun
  <2> QED
    BY <2>6, <2>7
<1>3. CASE SavePrevious
  <2>1. Saving("previous") /\ Goto("agent", "commit")
        /\ (previous = j.rec.oldP \/ j.rec.oldP = j.rec.nextP)
        /\ (previous' = j.rec.nextP \/ (j.rec.oldP = j.rec.nextP /\ previous' = previous))
        /\ UNCHANGED <<config, record, decision, archive, pair, edited>>
    BY <1>3 DEF SavePrevious, Replaceable, Replaced, Rec, durable, history
  <2>2. record = j.rec /\ ~record.committed /\ record # Missing /\ decision = Missing
    BY <1>1, <2>1, RecordsAre
  <2>3. j'.kind = j.kind /\ j'.at = "commit" /\ j'.rec = j.rec
    BY <2>1, AgentsJob DEF Sound
  <2>4. ~edited => config = j.rec.target /\ previous \in {j.rec.oldP, j.rec.nextP}
                  /\ pair = <<j.rec.oldC, j.rec.oldP>>
    BY <1>1, <2>1, <2>2 DEF Sound, PairIsWhole, Consistent
  <2>5. ~edited => previous' = j.rec.nextP
    BY <2>1, <2>4
  <2>6. PairIsWhole'
    BY <2>1, <2>2, <2>4, <2>5 DEF PairIsWhole, Consistent
  <2>7. WorkFollowsRecord'
    BY <1>1, <2>1, <2>2, <2>3, <2>4, <2>5 DEF WorkFollowsRecord, SaveFollowsRecord,
       SettleFollowsRecord, PreserveFollowsRecord, Published, Begun
  <2> QED
    BY <2>6, <2>7
<1>4. CASE SaveCommits
  <2>1. Saving("commit") /\ record' = Committed(j.rec) /\ pair' = <<j.rec.target, j.rec.nextP>>
        /\ UNCHANGED <<config, previous, decision, archive, edited>>
    BY <1>4 DEF SaveCommits, Rec, files
  <2>2. PICK step \in {"remove", "accept"} : Goto("agent", step)
    BY <1>4 DEF SaveCommits
  <2>3. j'.kind = j.kind /\ j'.at = step /\ j'.rec = j.rec
    BY <2>2, AgentsJob DEF Sound
  <2>4. ~edited => config = j.rec.target /\ previous = j.rec.nextP
    BY <1>1, <2>1 DEF Published
  <2>5. j.rec \in Records /\ record'.committed
    BY <1>1, <2>1, RecordsAre
  <2>6. PairIsWhole'
    BY <2>1, <2>4, <2>5 DEF PairIsWhole
  <2>7. WorkFollowsRecord'
    BY <1>1, <2>1, <2>3, <2>4 DEF WorkFollowsRecord, SaveFollowsRecord, SettleFollowsRecord,
       PreserveFollowsRecord, Published, Committed, Begun
  <2> QED
    BY <2>6, <2>7
<1>5. CASE SaveEnds \/ Accepted
  <2>1. PICK step \in {"remove", "accept"} : Saving(step)
    BY <1>5 DEF SaveEnds, Accepted
  <2>2. End("agent") /\ record' \in {Missing, record}
        /\ UNCHANGED <<config, previous, decision, archive, pair, edited>>
    BY <1>5 DEF SaveEnds, Accepted, files, history
  <2>3. record = Committed(j.rec) /\ record.committed
    BY <1>1, <2>1, RecordsAre
  <2>4. PairIsWhole'
    BY <2>2, <2>3 DEF Sound, PairIsWhole
  <2>5. j'.kind = "none"
    BY <2>2, AgentsJob DEF Sound
  <2>6. WorkFollowsRecord'
    BY <2>5 DEF WorkFollowsRecord, SaveFollowsRecord, SettleFollowsRecord, PreserveFollowsRecord
  <2> QED
    BY <2>4, <2>6
<1>6. CASE SaveFails
  <2>1. PICK step \in {"config", "previous", "commit"} : Saving(step)
    BY <1>6 DEF SaveFails
  <2>2. record \in Records /\ ~record.committed
    BY <1>1, <2>1
  <2>3. Settles("agent", "rollback") /\ UNCHANGED <<files, record, archive, pair, edited>>
    BY <1>6 DEF SaveFails, history
  <2> QED
    BY <2>2, <2>3, SettlesStays
<1> QED
  BY <1>2, <1>3, <1>4, <1>5, <1>6

LEMMA SettlingStays ==
    ASSUME Sound, Settle("agent") \/ Restore("agent") \/ SettleEnds("agent") \/ GivesUp("agent")
    PROVE  (WorkFollowsRecord /\ PairIsWhole)'
<1> DEFINE j == job["agent"]
<1>1. ASSUME NEW step, Settling("agent", step)
      PROVE  /\ j.rec \in Records /\ j.kind \in {"settle", "rollback"} /\ j.at = step
             /\ decision = Missing /\ record = j.rec /\ record # Missing
             /\ step \in {"config", "previous"} \/ j.kind = "rollback" => ~record.committed
             /\ ~edited /\ ~record.committed =>
                   /\ config = (IF step = "config" THEN j.config ELSE j.rec.oldC)
                   /\ previous = (IF step = "remove" THEN j.rec.oldP ELSE j.previous)
  <2>1. j.kind \in {"settle", "rollback"} /\ j.at = step
    BY <1>1 DEF Settling
  <2>2. j.rec \in Records
    BY <2>1, ConfigAssumptions DEF Sound, Typed, WorkIsOnRecords, HasWork, Begun,
       WorkFollowsRecord, SettleFollowsRecord
  <2> QED
    BY <2>1, <2>2, RecordsAre DEF Sound, WorkFollowsRecord, SettleFollowsRecord
<1>2. CASE Settle("agent")
  BY <1>2, SettlesStays DEF Settle, history
<1>3. CASE Restore("agent")
  <2>1. CASE /\ Settling("agent", "config") /\ Goto("agent", "previous")
             /\ config' = j.rec.oldC \/ (j.config = j.rec.oldC /\ config' = config)
             /\ UNCHANGED <<previous, record, decision, archive, pair, edited>>
    <3>1. j'.kind = j.kind /\ j'.at = "previous" /\ j'.rec = j.rec /\ j'.previous = j.previous
      BY <2>1, AgentsJob DEF Sound
    <3>2. PairIsWhole'
      BY <1>1, <2>1 DEF Sound, PairIsWhole, Consistent
    <3>3. WorkFollowsRecord'
      BY <1>1, <2>1, <3>1 DEF WorkFollowsRecord, SaveFollowsRecord, SettleFollowsRecord,
         PreserveFollowsRecord
    <3> QED
      BY <3>2, <3>3
  <2>2. CASE /\ Settling("agent", "previous") /\ Goto("agent", "remove")
             /\ previous' = j.rec.oldP \/ (j.previous = j.rec.oldP /\ previous' = previous)
             /\ UNCHANGED <<config, record, decision, archive, pair, edited>>
    <3>1. j'.kind = j.kind /\ j'.at = "remove" /\ j'.rec = j.rec
      BY <2>2, AgentsJob DEF Sound
    <3>2. PairIsWhole'
      BY <1>1, <2>2 DEF Sound, PairIsWhole, Consistent
    <3>3. WorkFollowsRecord'
      BY <1>1, <2>2, <3>1 DEF WorkFollowsRecord, SaveFollowsRecord, SettleFollowsRecord,
         PreserveFollowsRecord
    <3> QED
      BY <3>2, <3>3
  <2> QED
    BY <1>3, <2>1, <2>2 DEF Restore, Replaced, Rec, durable, history
<1>4. CASE SettleEnds("agent")
  <2>1. Settling("agent", "remove") /\ End("agent") /\ record' = Missing
        /\ UNCHANGED <<config, previous, decision, archive, pair, edited>>
    BY <1>4 DEF SettleEnds, files, history
  <2>2. j'.kind = "none"
    BY <2>1, AgentsJob DEF Sound
  <2>3. PairIsWhole'
    BY <1>1, <2>1 DEF Sound, PairIsWhole
  <2>4. WorkFollowsRecord'
    BY <2>2 DEF WorkFollowsRecord, SaveFollowsRecord, SettleFollowsRecord, PreserveFollowsRecord
  <2> QED
    BY <2>3, <2>4
<1>5. CASE GivesUp("agent")
  <2>1. End("agent") /\ UNCHANGED <<config, previous, record, pair, edited>>
    BY <1>5 DEF GivesUp, files, durable, history
  <2>2. j'.kind = "none"
    BY <2>1, AgentsJob DEF Sound
  <2>3. PairIsWhole'
    BY <2>1 DEF Sound, PairIsWhole, Consistent
  <2>4. WorkFollowsRecord'
    BY <2>2 DEF WorkFollowsRecord, SaveFollowsRecord, SettleFollowsRecord, PreserveFollowsRecord
  <2> QED
    BY <2>3, <2>4
<1> QED
  BY <1>2, <1>3, <1>4, <1>5

LEMMA PreservingStays ==
    ASSUME Sound, Archive("agent") \/ Drop("agent") \/ PreserveEnds("agent")
    PROVE  (WorkFollowsRecord /\ PairIsWhole)'
<1> DEFINE j == job["agent"]
<1>1. CASE Archive("agent")
  <2>1. j.kind = "preserve" /\ j.at = "archive" /\ archive' = archive \cup {j.rec}
        /\ Goto("agent", "drop") /\ UNCHANGED <<config, previous, record, decision, pair, edited>>
    BY <1>1 DEF Archive, Preserving, Rec, files, history
  <2>2. j'.kind = "preserve" /\ j'.at = "drop" /\ j'.rec = j.rec
    BY <2>1, AgentsJob DEF Sound
  <2>3. record = j.rec
    BY <2>1 DEF Sound, WorkFollowsRecord, PreserveFollowsRecord
  <2>4. PairIsWhole'
    BY <2>1 DEF Sound, PairIsWhole, Consistent
  <2>5. WorkFollowsRecord'
    BY <2>1, <2>2, <2>3 DEF WorkFollowsRecord, SaveFollowsRecord, SettleFollowsRecord,
       PreserveFollowsRecord
  <2> QED
    BY <2>4, <2>5
<1>2. CASE Drop("agent")
  <2>1. j.kind = "preserve" /\ record' = Missing /\ pair' = <<config, previous>>
        /\ Goto("agent", "undecide") /\ UNCHANGED <<config, previous>>
    BY <1>2 DEF Drop, Preserving, Decided, files
  <2>2. j'.kind = "preserve" /\ j'.at = "undecide"
    BY <2>1, AgentsJob DEF Sound
  <2>3. PairIsWhole'
    BY <2>1 DEF PairIsWhole
  <2>4. WorkFollowsRecord'
    BY <2>2 DEF WorkFollowsRecord, SaveFollowsRecord, SettleFollowsRecord, PreserveFollowsRecord
  <2> QED
    BY <2>3, <2>4
<1>3. CASE PreserveEnds("agent")
  <2>1. End("agent") /\ UNCHANGED <<config, previous, record, pair, edited>>
    BY <1>3 DEF PreserveEnds, files, history
  <2>2. j'.kind = "none"
    BY <2>1, AgentsJob DEF Sound
  <2>3. PairIsWhole'
    BY <2>1 DEF Sound, PairIsWhole, Consistent
  <2>4. WorkFollowsRecord'
    BY <2>2 DEF WorkFollowsRecord, SaveFollowsRecord, SettleFollowsRecord, PreserveFollowsRecord
  <2> QED
    BY <2>3, <2>4
<1> QED
  BY <1>1, <1>2, <1>3

LEMMA BeginningStays ==
    ASSUME Sound, Save \/ SaveProtects \/ SavePrepares \/ SaveStops
    PROVE  (WorkFollowsRecord /\ PairIsWhole)'
<1> DEFINE j == job["agent"]
<1>1. ASSUME NEW step \in {"protect", "publish"}, Saving(step)
      PROVE  j.kind = "save" /\ record = Missing /\ decision = Missing
  BY <1>1 DEF Saving, Sound, WorkFollowsRecord, SaveFollowsRecord, Begun
<1>2. CASE Save
  <2>1. PICK doc \in Docs :
           job' = [job EXCEPT !["agent"] = [Idle EXCEPT !.kind = "save", !.at = "protect",
                                            !.config = doc]]
    BY <1>2 DEF Save
  <2>2. j' = [Idle EXCEPT !.kind = "save", !.at = "protect", !.config = doc]
    BY <2>1, AgentsJob DEF Sound
  <2>3. j'.kind = "save" /\ j'.at = "protect"
    BY <2>2 DEF Idle
  <2>4. record' = Missing /\ decision' = Missing
        /\ UNCHANGED <<config, previous, record, pair, edited>>
    BY <1>2 DEF Save, Settled, files, durable, history
  <2>5. PairIsWhole'
    BY <2>4 DEF Sound, PairIsWhole, Consistent
  <2>6. WorkFollowsRecord'
    BY <2>3, <2>4 DEF WorkFollowsRecord, SaveFollowsRecord, SettleFollowsRecord,
       PreserveFollowsRecord
  <2> QED
    BY <2>5, <2>6
<1>3. CASE SaveProtects
  <2>1. Saving("protect") /\ UNCHANGED <<config, previous, record, decision, pair, edited>>
    BY <1>3 DEF SaveProtects, files
  <2>2. j.kind = "save" /\ record = Missing /\ decision = Missing
    BY <1>1, <2>1
  <2>3. PairIsWhole'
    BY <2>1 DEF Sound, PairIsWhole, Consistent
  <2>4. j'.kind = "none" \/ (j'.kind = j.kind /\ j'.at = "publish")
    BY <1>3, AgentsJob DEF SaveProtects, Sound
  <2>5. WorkFollowsRecord'
    BY <2>1, <2>2, <2>4 DEF WorkFollowsRecord, SaveFollowsRecord, SettleFollowsRecord,
       PreserveFollowsRecord
  <2> QED
    BY <2>3, <2>5
<1>4. CASE SavePrepares
  <2> DEFINE rec == [committed |-> FALSE, oldC |-> config, oldP |-> previous,
                     target |-> j.config,
                     nextP |-> IF config = Missing THEN previous ELSE config]
  <2>1. record' = rec /\ ~rec.committed /\ rec.oldC = config /\ rec.oldP = previous
    BY <1>4 DEF SavePrepares
  <2>2. j' = [Idle EXCEPT !.kind = "save", !.at = "config", !.rec = rec]
    BY <1>4, AgentsJob DEF SavePrepares, Sound
  <2>3. j'.kind = "save" /\ j'.at = "config" /\ j'.rec = rec
    BY <2>2 DEF Idle
  <2>4. decision' = Missing /\ config' = config /\ previous' = previous
        /\ pair' = <<config, previous>>
    BY <1>1, <1>4 DEF SavePrepares, Decided, files
  <2> HIDE DEF rec
  <2>5. WorkFollowsRecord'
    BY <2>1, <2>3, <2>4 DEF WorkFollowsRecord, SaveFollowsRecord, SettleFollowsRecord,
       PreserveFollowsRecord, Begun
  <2>6. PairIsWhole'
    BY <2>1, <2>4 DEF PairIsWhole, Consistent
  <2> QED
    BY <2>5, <2>6
<1>5. CASE SaveStops
  <2>1. End("agent") /\ UNCHANGED <<config, previous, record, pair, edited>>
    BY <1>5 DEF SaveStops, files, durable, history
  <2>2. j'.kind = "none"
    BY <2>1, AgentsJob DEF Sound
  <2>3. PairIsWhole'
    BY <2>1 DEF Sound, PairIsWhole, Consistent
  <2>4. WorkFollowsRecord'
    BY <2>2 DEF WorkFollowsRecord, SaveFollowsRecord, SettleFollowsRecord, PreserveFollowsRecord
  <2> QED
    BY <2>3, <2>4
<1> QED
  BY <1>2, <1>3, <1>4, <1>5

LEMMA DecidingStays ==
    ASSUME Sound, Status \/ Preserve \/ OuterOpens \/ OuterDecides \/ OuterEnds
    PROVE  (WorkFollowsRecord /\ PairIsWhole)'
<1>1. CASE Status
  BY <1>1, QuietStays DEF Status, durable, history
<1>2. CASE Preserve
  BY <1>2, PreservePendingStays DEF Preserve, history
<1>3. CASE OuterOpens \/ OuterEnds
  BY <1>3, QuietStays DEF OuterOpens, OuterEnds, history
<1>4. CASE OuterDecides
  BY <1>4, PreservePendingStays DEF OuterDecides, history
<1> QED
  BY <1>1, <1>2, <1>3, <1>4

\* An edit beside a record excuses the pair until the next decision; without a
\* record a save is only about to begin, and no settlement is under way.
LEMMA EditStays == ASSUME Sound, Edit PROVE (WorkFollowsRecord /\ PairIsWhole)'
<1> DEFINE j == job["agent"]
<1>1. UNCHANGED <<record, decision, archive, job>>
  BY DEF Edit, durable
<1>2. CASE record = Missing
  <2>1. pair' = <<config', previous'>>
    BY <1>2 DEF Edit
  <2>2. j.kind # "none" /\ ~Begun(j) => j.rec \in Records
    BY ConfigAssumptions DEF Sound, Typed, WorkIsOnRecords, HasWork
  <2>3. j.kind \notin {"settle", "rollback"}
    BY <1>2, <2>2, RecordsAre DEF Sound, WorkFollowsRecord, SettleFollowsRecord, Begun
  <2>4. j.kind = "save" => Begun(j)
    BY <1>2, <2>2, RecordsAre DEF Sound, WorkFollowsRecord, SaveFollowsRecord, Begun
  <2>5. WorkFollowsRecord'
    BY <1>1, <2>3, <2>4 DEF Sound, WorkFollowsRecord, SaveFollowsRecord, SettleFollowsRecord,
       PreserveFollowsRecord, Begun
  <2>6. PairIsWhole'
    BY <1>1, <1>2, <2>1 DEF PairIsWhole
  <2> QED
    BY <2>5, <2>6
<1>3. CASE record # Missing
  <2>1. edited' = TRUE
    BY <1>3 DEF Edit
  <2> QED
    BY <1>1, <2>1 DEF Sound, WorkFollowsRecord, SaveFollowsRecord, SettleFollowsRecord,
       PreserveFollowsRecord, PairIsWhole
<1> QED
  BY <1>2, <1>3

LEMMA CrashStays == ASSUME Sound, Crash PROVE (WorkFollowsRecord /\ PairIsWhole)'
<1>1. End("agent") /\ UNCHANGED <<config, previous, record, pair, edited>>
  BY DEF Crash, End, files, durable, history
<1>2. job'["agent"].kind = "none"
  BY <1>1, AgentsJob DEF Sound
<1>3. PairIsWhole'
  BY <1>1 DEF Sound, PairIsWhole, Consistent
<1>4. WorkFollowsRecord'
  BY <1>2 DEF WorkFollowsRecord, SaveFollowsRecord, SettleFollowsRecord, PreserveFollowsRecord
<1> QED
  BY <1>3, <1>4

LEMMA SoundStays == ASSUME AgentAlone, Sound, [Next]_vars PROVE Sound'
<1>1. Typed'
  BY StepTyped DEF Sound
<1>2. CASE UNCHANGED vars
  BY <1>1, <1>2, QuietStays DEF vars, files, Sound
<1>3. CASE AgentStep
  BY <1>1, <1>3, BeginningStays, SavingStays, DecidingStays, CrashStays DEF AgentStep, Sound
<1>4. ASSUME NEW p \in Procs, Step(p) PROVE Sound'
  <2>1. p = "agent"
    BY DEF AgentAlone
  <2> QED
    BY <1>1, <1>4, <2>1, SettlingStays, PreservingStays DEF Step, Sound
<1>5. CASE Edit
  BY <1>1, <1>5, EditStays DEF Sound
<1> QED
  BY <1>2, <1>3, <1>4, <1>5 DEF Next

LEMMA InitSound == ASSUME Init PROVE Sound
<1>1. job["agent"].kind = "none"
  BY ConfigAssumptions DEF Init, Idle
<1>2. PairIsWhole
  BY DEF Init, PairIsWhole
<1> QED
  BY <1>1, <1>2, InitTyped, IdleFollows DEF Sound

\* As long as only the Agent works in the store, the configuration and its undo
\* copy are the pair before a save or the pair after it, whatever crashed or
\* failed in between (publish_config_pair, settle_pending_inner).
THEOREM PairStaysWhole == ASSUME AgentAlone PROVE Spec => []PairIsWhole
<1>1. Init => Sound
  BY InitSound
<1>2. Sound /\ [Next]_vars => Sound'
  BY SoundStays
<1>3. Sound => PairIsWhole
  BY DEF Sound
<1> QED
  BY <1>1, <1>2, <1>3, PTL DEF Spec

\* What a save answers is what the files hold: its pair after a success, also
\* one whose commit reported a failure, and the pair before it after an error
\* that left no record (publish_config_pair, accept_committed).
THEOREM SavesAnswerHonestly == ASSUME AgentAlone PROVE Spec => SaveAnswersHonestly
<1> DEFINE Honest ==
      (job["agent"].at \in {"remove", "accept"} /\ record' = Missing /\ ~edited
            /\ job'["agent"] = Idle)
         => /\ Saving(job["agent"].at) => Published(Rec("agent"))
            /\ job["agent"].kind = "rollback"
                  => files = <<Rec("agent").oldC, Rec("agent").oldP>>
<1>1. Init => Sound
  BY InitSound
<1>2. Sound /\ [Next]_vars => Sound'
  BY SoundStays
<1>3. Sound => Honest
  <2> SUFFICES ASSUME Sound, job["agent"].at \in {"remove", "accept"}, ~edited
               PROVE  /\ Saving(job["agent"].at) => Published(Rec("agent"))
                      /\ job["agent"].kind = "rollback"
                            => files = <<Rec("agent").oldC, Rec("agent").oldP>>
    OBVIOUS
  <2>1. Saving(job["agent"].at) => Published(Rec("agent"))
    <3>1. Saving(job["agent"].at) => Published(job["agent"].rec)
      BY DEF Sound, WorkFollowsRecord, SaveFollowsRecord, Saving
    <3> QED
      BY <3>1 DEF Rec
  <2>2. job["agent"].kind = "rollback" => files = <<Rec("agent").oldC, Rec("agent").oldP>>
    BY DEF Sound, WorkFollowsRecord, SettleFollowsRecord, Rec, files
  <2> QED
    BY <2>1, <2>2
<1> QED
  BY <1>1, <1>2, <1>3, PTL DEF Spec, SaveAnswersHonestly

\* A decision to keep the current file binds every later step: the files stay,
\* and the record goes only once it is in the archive (preserve_pending_inner,
\* settle_pending_inner, recover_explicit).
THEOREM DecisionsStand == ASSUME AgentAlone PROVE Spec => DecisionStands
<1> DEFINE Stands ==
      (record # Missing /\ (decision # Missing \/ (OuterPreserves /\ Free("agent")))) =>
          /\ files' = files \/ Edit
          /\ record' = record \/ (record' = Missing /\ record \in archive)
<1>1. Init => Sound
  BY InitSound
<1>2. Sound /\ [Next]_vars => Sound'
  BY SoundStays
<1>3. Sound /\ [Next]_vars => Stands
  <2> SUFFICES ASSUME Sound, [Next]_vars, record # Missing,
                      decision # Missing \/ (OuterPreserves /\ Free("agent"))
               PROVE  /\ files' = files \/ Edit
                      /\ record' = record \/ (record' = Missing /\ record \in archive)
    OBVIOUS
  <2>1. job["agent"].kind \notin {"save", "settle", "rollback"}
    BY AgentsJob DEF Sound, WorkFollowsRecord, SaveFollowsRecord, SettleFollowsRecord
  <2>2. ~Settled
    BY DEF Settled
  <2>5. CASE UNCHANGED vars
    BY <2>5 DEF vars, files
  <2>6. CASE AgentStep
    <3>1. ~Save
      BY <2>2 DEF Save
    <3>3. \A step : ~Saving(step)
      BY <2>1 DEF Saving
    <3>2. ~SaveProtects /\ ~SavePrepares /\ ~SaveStops
      BY <3>3 DEF SaveProtects, SavePrepares, SaveStops
    <3>4. ~SaveConfig /\ ~SavePrevious /\ ~SaveCommits /\ ~SaveEnds /\ ~Accepted /\ ~SaveFails
      BY <3>3 DEF SaveConfig, SavePrevious, SaveCommits, SaveEnds, Accepted, SaveFails
    <3>5. Status \/ Preserve \/ OuterOpens \/ OuterDecides \/ OuterEnds \/ Crash
             => files' = files /\ record' = record
      BY DEF Status, Preserve, OuterOpens, OuterDecides, OuterEnds, Crash, durable
    <3> QED
      BY <2>6, <3>1, <3>2, <3>4, <3>5 DEF AgentStep
  <2>7. ASSUME NEW p \in Procs, Step(p)
        PROVE  files' = files /\ (record' = record \/ (record' = Missing /\ record \in archive))
    <3>1. p = "agent"
      BY DEF AgentAlone
    <3>2. \A step : ~Settling("agent", step)
      BY <2>1 DEF Settling
    <3>3. ~Restore("agent") /\ ~SettleEnds("agent")
      BY <3>2 DEF Restore, SettleEnds
    <3>4. Settle("agent") \/ GivesUp("agent") \/ Archive("agent") \/ PreserveEnds("agent")
             => files' = files /\ record' = record
      BY DEF Settle, GivesUp, Archive, PreserveEnds, durable
    <3>5. Drop("agent") => files' = files /\ record' = Missing /\ record \in archive
      BY DEF Drop, Preserving, Rec, Sound, WorkFollowsRecord, PreserveFollowsRecord
    <3> QED
      BY <2>7, <3>1, <3>3, <3>4, <3>5 DEF Step
  <2>8. CASE Edit
    BY <2>8 DEF Edit, durable
  <2> QED
    BY <2>5, <2>6, <2>7, <2>8 DEF Next
<1> QED
  BY <1>1, <1>2, <1>3, PTL DEF Spec, DecisionStands

-------------------------------------------------------------------------------
(* What a save may count on: homes and edits                               *)

\* A Harness home that a record takes out of the configuration, or that its
\* rollback takes out again, is protected; and so is one that a save which is
\* about to write its record will take out.
HomeIsSafe(f) == Readable(f) => f \in protected \/ f = unseen
HomesFit ==
    LET j == job["agent"] IN
    /\ record # Missing => HomeIsSafe(record.oldC) /\ record.target \in protected
    /\ Saving("publish") => HomeIsSafe(config) /\ j.config \in protected

\* A rollback has seen files that its record explains.
ObservedFits ==
    LET j == job["agent"] IN
    j.kind \in {"settle", "rollback"} /\ j.at \in {"config", "previous"} =>
        j.config \in {j.rec.oldC, j.rec.target} /\ j.previous \in {j.rec.oldP, j.rec.nextP}

\* A file of somebody else is none that the record explains.
ForeignFits ==
    record # Missing =>
        /\ "config" \in foreign => config \notin {record.oldC, record.target}
        /\ "previous" \in foreign => previous \notin {record.oldP, record.nextP}

Careful == HomesFit /\ ObservedFits /\ ForeignFits

\* A record that is there goes on, or goes away, and replaces a file only by
\* what it explains; the Agent's job goes on, ends, or begins to settle.
FileFits(now, next, old, new) ==
    next = now \/ (record # Missing /\ record' = record /\ {now, next} \subseteq {old, new})
Continues ==
    LET j == job["agent"] IN
    \/ j'.kind = "none"
    \/ j'.kind = j.kind /\ j'.rec = j.rec /\ j'.config = j.config /\ j'.previous = j.previous
       /\ j'.at # "publish"
       /\ (j'.at \in {"config", "previous"} => j.at \in {"config", "previous"})
    \/ j'.kind = "preserve"
    \/ j'.kind \in {"settle", "rollback"} /\ record # Missing
       /\ (j'.at \in {"config", "previous"} =>
              /\ j'.config \in {j'.rec.oldC, j'.rec.target}
              /\ j'.previous \in {j'.rec.oldP, j'.rec.nextP})
Proceeds ==
    /\ record' \in {Missing, record} \/ (record # Missing /\ record' = Committed(record))
    /\ FileFits(config, config', record.oldC, record.target)
    /\ FileFits(previous, previous', record.oldP, record.nextP)
    /\ protected \subseteq protected' /\ unseen' = unseen /\ foreign' \in {foreign, {}}
    /\ Continues

\* Steps of an idle Agent that touch neither the pair nor its record.
LEMMA QuietProceeds ==
    ASSUME Typed, Free("agent"),
           UNCHANGED <<config, previous, record, job, protected, unseen, foreign>>
    PROVE  Proceeds
<1>1. job'["agent"].kind = "none"
  BY AgentsJob
<1> QED
  BY <1>1 DEF Proceeds, FileFits, Continues

LEMMA PreservePendingContinues ==
    ASSUME Typed, NEW d, PreservePending("agent", d)
    PROVE  Continues
<1> DEFINE new == [Idle EXCEPT !.kind = "preserve", !.at = "archive",
                               !.rec = record, !.config = config]
<1>1. new.kind = "preserve"
  BY DEF Idle
<1>2. CASE job' = [job EXCEPT !["agent"] = new]
  <2>1. job'["agent"] = new
    BY <1>2, AgentsJob
  <2> QED
    BY <1>1, <2>1 DEF Continues
<1>3. CASE End("agent")
  BY <1>3, AgentsJob DEF Continues
<1> QED
  BY <1>2, <1>3 DEF PreservePending

LEMMA SettlesContinues ==
    ASSUME Typed, NEW kind \in {"settle", "rollback"}, Settles("agent", kind)
    PROVE  Continues
<1>1. CASE decision # Missing \/ OuterPreserves
  BY <1>1, PreservePendingContinues DEF Settles
<1>2. CASE ~(decision # Missing \/ OuterPreserves)
  <2>1. job'["agent"] = SettleJob(kind)
    BY <1>2, AgentsJob DEF Settles
  <2>2. CASE SettleJob(kind) = Idle
    BY <2>1, <2>2 DEF Continues, Idle
  <2>3. CASE SettleJob(kind) # Idle
    <3>1. /\ record # Missing
          /\ IF record.committed THEN Published(record) ELSE Consistent(record)
          /\ job'["agent"] = [kind |-> kind, at |-> IF record.committed THEN "remove" ELSE "config",
                              rec |-> record, config |-> config, previous |-> previous]
      BY <2>1, <2>3 DEF SettleJob
    <3> QED
      BY <3>1 DEF Continues, Consistent
  <2> QED
    BY <2>2, <2>3
<1> QED
  BY <1>1, <1>2

LEMMA WorkProceeds ==
    ASSUME Sound, ObservedFits,
           \/ SaveStops \/ SaveConfig \/ SavePrevious \/ SaveCommits \/ SaveEnds
           \/ Accepted \/ SaveFails \/ Step("agent")
    PROVE  Proceeds
<1> DEFINE j == job["agent"]
<1>1. ASSUME NEW step, Saving(step) \/ Settling("agent", step),
             step \in {"config", "previous", "commit", "remove", "accept"}
      PROVE  /\ j.rec \in Records /\ j.at = step /\ record # Missing
             /\ step \in {"config", "previous", "commit"} => record = j.rec
             /\ step \in {"remove", "accept"} /\ Saving(step) => record = Committed(j.rec)
  <2>1. j.kind \in {"save", "settle", "rollback"} /\ j.at = step /\ ~Begun(j)
        /\ (Saving(step) => j.kind = "save")
    BY <1>1 DEF Saving, Settling, Begun
  <2>2. j.rec \in Records
    BY <2>1, ConfigAssumptions DEF Sound, Typed, WorkIsOnRecords, HasWork
  <2> QED
    BY <1>1, <2>1, <2>2, RecordsAre DEF Sound, WorkFollowsRecord, SaveFollowsRecord,
       SettleFollowsRecord
<1>2. Typed
  BY DEF Sound
<1>3. ASSUME NEW step, Goto("agent", step), step # "publish",
             step \in {"config", "previous"} => j.at \in {"config", "previous"}
      PROVE  Continues
  BY <1>2, <1>3, AgentsJob DEF Continues
<1>4. ASSUME End("agent") PROVE Continues
  BY <1>2, <1>4, AgentsJob DEF Continues
<1>5. ASSUME Continues, UNCHANGED <<protected, unseen>>,
             record' \in {Missing, record} \/ (record # Missing /\ record' = Committed(record)),
             FileFits(config, config', record.oldC, record.target),
             FileFits(previous, previous', record.oldP, record.nextP),
             foreign' \in {foreign, {}}
      PROVE  Proceeds
  BY <1>5 DEF Proceeds
<1>6. CASE SaveConfig
  <2>1. Saving("config") /\ Goto("agent", "previous")
    BY <1>6 DEF SaveConfig
  <2>2. Continues /\ record = j.rec /\ record # Missing
    BY <1>1, <1>3, <2>1
  <2> QED
    BY <1>5, <1>6, <2>2 DEF SaveConfig, Replaceable, Replaced, Rec, FileFits, durable, history
<1>7. CASE SavePrevious
  <2>1. Saving("previous") /\ Goto("agent", "commit")
    BY <1>7 DEF SavePrevious
  <2>2. Continues /\ record = j.rec /\ record # Missing
    BY <1>1, <1>3, <2>1
  <2> QED
    BY <1>5, <1>7, <2>2 DEF SavePrevious, Replaceable, Replaced, Rec, FileFits, durable, history
<1>8. CASE SaveCommits
  <2>1. PICK step \in {"remove", "accept"} : Saving("commit") /\ Goto("agent", step)
    BY <1>8 DEF SaveCommits
  <2>2. Continues /\ record = j.rec /\ record # Missing
    BY <1>1, <1>3, <2>1
  <2> QED
    BY <1>5, <1>8, <2>2 DEF SaveCommits, Rec, FileFits, files
<1>9. CASE SaveEnds \/ Accepted
  <2>1. Continues
    BY <1>4, <1>9 DEF SaveEnds, Accepted
  <2> QED
    BY <1>5, <1>9, <2>1 DEF SaveEnds, Accepted, FileFits, files, history
<1>10. CASE SaveFails \/ Settle("agent")
  <2>1. Continues
    BY <1>2, <1>10, SettlesContinues DEF SaveFails, Settle
  <2> QED
    BY <1>5, <1>10, <2>1 DEF SaveFails, Settle, FileFits, files, history
<1>11. CASE Restore("agent")
  <2>1. PICK step \in {"config", "previous"} : Settling("agent", step)
    BY <1>11 DEF Restore
  <2>2. record = j.rec /\ record # Missing /\ j.at = step /\ j.kind \in {"settle", "rollback"}
    BY <1>1, <2>1 DEF Settling
  <2>3. Continues
    BY <1>3, <1>11, <2>2 DEF Restore
  <2>4. j.config \in {record.oldC, record.target} /\ j.previous \in {record.oldP, record.nextP}
    BY <2>2 DEF ObservedFits
  <2>5. FileFits(config, config', record.oldC, record.target)
        /\ FileFits(previous, previous', record.oldP, record.nextP)
    BY <1>11, <2>2, <2>4 DEF Restore, Replaceable, Replaced, Rec, FileFits, durable
  <2> QED
    BY <1>5, <1>11, <2>3, <2>5 DEF Restore, durable, history
<1>12. CASE SaveStops \/ SettleEnds("agent") \/ GivesUp("agent") \/ PreserveEnds("agent")
  <2>1. Continues
    BY <1>4, <1>12 DEF SaveStops, SettleEnds, GivesUp, PreserveEnds
  <2> QED
    BY <1>5, <1>12, <2>1 DEF SaveStops, SettleEnds, GivesUp, PreserveEnds, FileFits, files,
       durable, history
<1>13. CASE Archive("agent") \/ Drop("agent")
  <2>1. Continues
    BY <1>3, <1>13 DEF Archive, Drop
  <2> QED
    BY <1>5, <1>13, <2>1 DEF Archive, Drop, Decided, FileFits, files, history
<1> QED
  BY <1>6, <1>7, <1>8, <1>9, <1>10, <1>11, <1>12, <1>13 DEF Step

LEMMA DecidingProceeds ==
    ASSUME Sound, \/ Status \/ Preserve \/ OuterOpens \/ OuterDecides \/ OuterEnds
                  \/ Crash
    PROVE  Proceeds
<1>1. Typed
  BY DEF Sound
<1>2. CASE Status \/ OuterOpens \/ OuterEnds
  BY <1>1, <1>2, QuietProceeds DEF Status, OuterOpens, OuterEnds, files, durable, history
<1>3. CASE Preserve \/ OuterDecides \/ Crash
  <2>1. Continues
    BY <1>1, <1>3, PreservePendingContinues, AgentsJob
       DEF Preserve, OuterDecides, Crash, End, Continues
  <2> QED
    BY <1>3, <2>1 DEF Preserve, OuterDecides, Crash, Proceeds, FileFits, files, durable, history
<1> QED
  BY <1>2, <1>3

LEMMA ProceedsIsCareful == ASSUME Sound, Careful, Proceeds PROVE Careful'
<1> DEFINE j == job["agent"]
<1>1. /\ record # Missing => record \in Records /\ record.oldC \in Files /\ record.oldP \in Files
                            /\ record.target \in Files /\ record.nextP \in Files
      /\ config \in Files /\ previous \in Files
  BY DEF Sound, Typed, TypeOK, Records, Files
<1>2. record' # Missing => /\ record # Missing
                           /\ record'.oldC = record.oldC /\ record'.oldP = record.oldP
                           /\ record'.target = record.target /\ record'.nextP = record.nextP
  BY <1>1, RecordsAre DEF Proceeds
<1>3. HomesFit'
  <2>1. protected \subseteq protected' /\ unseen' = unseen
    BY DEF Proceeds
  <2>2. ~Saving("publish")'
    BY DEF Proceeds, Continues, Saving
  <2> QED
    BY <1>2, <2>1, <2>2 DEF Careful, HomesFit, HomeIsSafe, Readable
<1>4. ObservedFits'
  BY DEF Careful, ObservedFits, Proceeds, Continues
<1>5. ForeignFits'
  <2>1. foreign' \in {foreign, {}}
        /\ FileFits(config, config', record.oldC, record.target)
        /\ FileFits(previous, previous', record.oldP, record.nextP)
    BY DEF Proceeds
  <2> QED
    BY <1>2, <2>1 DEF Careful, ForeignFits, FileFits
<1> QED
  BY <1>3, <1>4, <1>5 DEF Careful

\* A save that begins protects the homes of the document it sees and of the one
\* it brings, and takes out of the configuration only what it saw.
LEMMA SaveIsCareful ==
    ASSUME Sound, Careful, Save \/ SaveProtects \/ SavePrepares
    PROVE  Careful'
<1> DEFINE j == job["agent"]
<1>1. CASE Save
  <2>1. PICK doc \in Docs :
           job' = [job EXCEPT !["agent"] = [Idle EXCEPT !.kind = "save", !.at = "protect",
                                            !.config = doc]]
    BY <1>1 DEF Save
  <2>2. j' = [Idle EXCEPT !.kind = "save", !.at = "protect", !.config = doc]
    BY <2>1, AgentsJob DEF Sound
  <2>3. j'.kind = "save" /\ j'.at = "protect"
    BY <2>2 DEF Idle
  <2>4. record = Missing /\ record' = Missing
    BY <1>1 DEF Save, Settled, durable
  <2> QED
    BY <2>3, <2>4 DEF Careful, HomesFit, ObservedFits, ForeignFits, Saving
<1>2. CASE SaveProtects
  <2>1. Saving("protect") /\ UNCHANGED <<config, record>>
    BY <1>2 DEF SaveProtects, files
  <2>2. j.kind = "save" /\ record' = Missing
    BY <2>1 DEF Saving, Sound, WorkFollowsRecord, SaveFollowsRecord, Begun
  <2>3. j'.kind = "none" \/ (j'.kind = "save" /\ j'.at = "publish" /\ j'.config = j.config)
    BY <1>2, <2>2, AgentsJob DEF SaveProtects, Sound
  <2>4. j.config \in Docs
    BY <2>1, ConfigAssumptions DEF Saving, Sound, Typed, WorkIsOnRecords, HasWork, Begun
  <2>5. j.config \in protected' /\ (config # Missing => config \in protected')
    BY <1>2, <2>4, NoRecordIsMissing DEF SaveProtects, Protect
  <2>6. HomesFit'
    BY <2>1, <2>2, <2>3, <2>5 DEF HomesFit, HomeIsSafe, Readable, Saving
  <2> QED
    BY <2>2, <2>3, <2>6 DEF Careful, ObservedFits, ForeignFits
<1>3. CASE SavePrepares
  <2> DEFINE rec == [committed |-> FALSE, oldC |-> config, oldP |-> previous,
                     target |-> j.config,
                     nextP |-> IF config = Missing THEN previous ELSE config]
  <2>1. record' = rec /\ rec.oldC = config /\ rec.target = j.config
    BY <1>3 DEF SavePrepares
  <2>2. j' = [Idle EXCEPT !.kind = "save", !.at = "config", !.rec = rec]
    BY <1>3, AgentsJob DEF SavePrepares, Sound
  <2>3. j'.kind = "save" /\ j'.at = "config"
    BY <2>2 DEF Idle
  <2>4. foreign' = {} /\ UNCHANGED <<protected, unseen>> /\ Saving("publish")
    BY <1>3 DEF SavePrepares, Decided
  <2> HIDE DEF rec
  <2>5. HomesFit'
    BY <2>1, <2>3, <2>4 DEF Careful, HomesFit, HomeIsSafe, Readable, Saving
  <2> QED
    BY <2>3, <2>4, <2>5 DEF Careful, ObservedFits, ForeignFits
<1> QED
  BY <1>1, <1>2, <1>3

LEMMA EditIsCareful == ASSUME Sound, Careful, Edit PROVE Careful'
<1>1. UNCHANGED <<record, job, protected>>
  BY DEF Edit, durable
<1>2. HomesFit'
  <2>1. Saving("publish") => record = Missing
    BY DEF Saving, Sound, WorkFollowsRecord, SaveFollowsRecord, Begun
  <2>2. CASE Saving("publish")
    <3>1. unseen' = config' \/ (config' = config /\ unseen' = unseen)
      BY <2>2 DEF Edit
    <3> QED
      BY <1>1, <2>1, <2>2, <3>1 DEF Careful, HomesFit, HomeIsSafe, Readable, Saving
  <2>3. CASE ~Saving("publish")
    <3>1. unseen' = unseen
      BY <2>3 DEF Edit
    <3> QED
      BY <1>1, <2>3, <3>1 DEF Careful, HomesFit, HomeIsSafe, Readable, Saving
  <2> QED
    BY <2>2, <2>3
<1>3. ForeignFits'
  <2>1. CASE record # Missing /\ previous' = previous
             /\ foreign' = (IF config' \in {record.oldC, record.target}
                            THEN foreign \ {"config"} ELSE foreign \cup {"config"})
    BY <1>1, <2>1 DEF Careful, ForeignFits
  <2>2. CASE record # Missing /\ config' = config
             /\ foreign' = (IF previous' \in {record.oldP, record.nextP}
                            THEN foreign \ {"previous"} ELSE foreign \cup {"previous"})
    BY <1>1, <2>2 DEF Careful, ForeignFits
  <2>3. CASE record = Missing
    BY <1>1, <2>3 DEF ForeignFits
  <2> QED
    BY <2>1, <2>2, <2>3 DEF Edit
<1>4. ObservedFits'
  BY <1>1 DEF Careful, ObservedFits
<1> QED
  BY <1>2, <1>3, <1>4 DEF Careful

LEMMA CarefulStays == ASSUME AgentAlone, Sound, Careful, [Next]_vars PROVE Careful'
<1>1. Typed /\ ObservedFits
  BY DEF Sound, Careful
<1>2. CASE UNCHANGED vars
  BY <1>2 DEF vars, Careful, HomesFit, HomeIsSafe, ObservedFits, ForeignFits, Readable, Saving
<1>3. CASE AgentStep
  BY <1>1, <1>3, SaveIsCareful, WorkProceeds, DecidingProceeds, ProceedsIsCareful DEF AgentStep
<1>4. ASSUME NEW p \in Procs, Step(p) PROVE Careful'
  <2>1. p = "agent"
    BY DEF AgentAlone
  <2> QED
    BY <1>1, <1>4, <2>1, WorkProceeds, ProceedsIsCareful
<1>5. CASE Edit
  BY <1>5, EditIsCareful
<1> QED
  BY <1>2, <1>3, <1>4, <1>5 DEF Next

LEMMA StepKinds ==
    ASSUME AgentAlone, Sound, Careful, [Next]_vars
    PROVE  Edit \/ Proceeds \/ files' = files
<1>1. ObservedFits
  BY DEF Careful
<1>2. CASE UNCHANGED vars
  BY <1>2 DEF vars, files
<1>3. CASE AgentStep
  <2>1. Save \/ SaveProtects \/ SavePrepares => files' = files
    BY DEF Save, SaveProtects, SavePrepares
  <2> QED
    BY <1>1, <1>3, <2>1, WorkProceeds, DecidingProceeds DEF AgentStep
<1>4. ASSUME NEW p \in Procs, Step(p) PROVE Proceeds
  <2>1. p = "agent"
    BY DEF AgentAlone
  <2> QED
    BY <1>1, <1>4, <2>1, WorkProceeds
<1> QED
  BY <1>2, <1>3, <1>4 DEF Next

LEMMA InitCareful == ASSUME Init PROVE Sound /\ Careful
<1>1. Sound
  BY InitSound
<1>2. job["agent"].kind = "none"
  BY ConfigAssumptions DEF Init, Idle
<1>3. record = Missing
  BY DEF Init
<1> QED
  BY <1>1, <1>2, <1>3 DEF Careful, HomesFit, ObservedFits, ForeignFits, Saving

\* A file that somebody edited into something the record does not explain is
\* not replaced by a save, its rollback or a settlement (restore_bytes,
\* settle_pending_inner).
THEOREM EditsAreKept == ASSUME AgentAlone PROVE Spec => EditsSurvive
<1> DEFINE Kept ==
      /\ "config" \in foreign /\ "config" \in foreign' => Edit \/ config' = config
      /\ "previous" \in foreign /\ "previous" \in foreign' => Edit \/ previous' = previous
<1>1. Init => Sound /\ Careful
  BY InitCareful
<1>2. Sound /\ Careful /\ [Next]_vars => (Sound /\ Careful)'
  BY SoundStays, CarefulStays
<1>3. Sound /\ Careful /\ [Next]_vars => Kept
  <2>1. ASSUME Sound, Careful, Proceeds PROVE Kept
    BY <2>1 DEF Careful, ForeignFits, Proceeds, FileFits
  <2>2. files' = files => Kept
    BY DEF files
  <2> QED
    BY <2>1, <2>2, StepKinds
<1> QED
  BY <1>1, <1>2, <1>3, PTL DEF Spec, EditsSurvive

\* The home that a step of Nexus takes out of the configuration is protected
\* from deletion by then (write_unlocked, protect_harness_homes).
THEOREM HomesAreProtected == ASSUME AgentAlone PROVE Spec => HomesStayProtected
<1> DEFINE Kept ==
      (Readable(config) /\ ~Edit /\ config' # config) => config \in protected \/ config = unseen
<1>1. Init => Sound /\ Careful
  BY InitCareful
<1>2. Sound /\ Careful /\ [Next]_vars => (Sound /\ Careful)'
  BY SoundStays, CarefulStays
<1>3. Sound /\ Careful /\ [Next]_vars => Kept
  <2>1. ASSUME Sound, Careful, Proceeds, Readable(config), config' # config
        PROVE  config \in protected \/ config = unseen
    <3>1. record # Missing /\ config \in {record.oldC, record.target}
      BY <2>1 DEF Proceeds, FileFits
    <3>2. HomeIsSafe(record.oldC) /\ record.target \in protected
      BY <2>1, <3>1 DEF Careful, HomesFit
    <3> QED
      BY <2>1, <3>1, <3>2 DEF HomeIsSafe
  <2>2. files' = files => Kept
    BY DEF files
  <2> QED
    BY <2>1, <2>2, StepKinds
<1> QED
  BY <1>1, <1>2, <1>3, PTL DEF Spec, HomesStayProtected
=============================================================================

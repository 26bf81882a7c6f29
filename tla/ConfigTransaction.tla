-------------------------- MODULE ConfigTransaction --------------------------
(***************************************************************************)
(* The configuration store of nexus-core: config.json and its undo copy    *)
(* config.previous.json are published as one pair.  A save writes a        *)
(* prepared record, then the two files, then the record again as           *)
(* committed, then removes it; every read of the configuration first       *)
(* settles a record that is left.  A user may instead decide to preserve   *)
(* the current file: the record is then archived and dropped.              *)
(*                                                                         *)
(* CONFIG_WRITE_GATE makes the operations of one process follow one        *)
(* another, so each process has one `job'; between two of its file         *)
(* operations, and between its reads and its record, it may crash, fail,   *)
(* or see a file that somebody edited.                                     *)
(* The Launcher is a process of its own and reads the configuration too.   *)
(***************************************************************************)
EXTENDS Integers

CONSTANTS
    Docs,           \* the documents that decode, told apart by their Harness home
    Missing,        \* no file, no record
    Bad,            \* a file that does not decode
    Procs,          \* "agent", and "launcher" when it reads too
    MaxCommands,    \* bound: operations that start something
    MaxMishaps      \* bound: crashes, failures and edits

ASSUME ConfigAssumptions ==
    /\ "agent" \in Procs /\ Procs \subseteq {"agent", "launcher"}
    /\ Missing # Bad /\ Docs # {}
    /\ MaxCommands \in Nat /\ MaxMishaps \in Nat

VARIABLES
    config,     \* config.json
    previous,   \* config.previous.json
    record,     \* config-write.pending.json
    decision,   \* config-preserve.pending.json
    archive,    \* the config-preserved-*.json files
    outer,      \* cold-publication.json: none, open, or told to preserve
    protected,  \* protected-harness-homes.json: the documents whose home is in it
    shown,      \* the record a client has seen in the pending status
    job,        \* per process, the operation that holds its gate
    pair,       \* history: the pair the last decision left
    edited,     \* history: somebody edited a file that a record is about
    foreign,    \* history: the files whose edit no record explains
    unseen,     \* history: config.json as edited after a save protected the homes
    commands,
    mishaps

files == <<config, previous>>
durable == <<record, decision, archive, outer, protected>>
history == <<pair, edited, foreign, unseen>>
vars == <<config, previous, record, decision, archive, outer, protected,
          shown, job, pair, edited, foreign, unseen, commands, mishaps>>

-------------------------------------------------------------------------------
(* Records                                                                 *)

Files == Docs \cup {Missing, Bad}
Pairs == Files \X Files
Records == [committed : BOOLEAN, oldC : Files, oldP : Files, target : Docs, nextP : Files]
Decisions == [rec : Records, current : Docs]

ASSUME NoRecordIsMissing ==
    Missing \notin Docs \cup Records \cup Decisions /\ Bad \notin Docs

Steps == {"none", "protect", "publish", "config", "previous", "commit", "accept",
          "remove", "archive", "drop", "undecide"}
Kinds == {"none", "save", "rollback", "settle", "preserve"}
Jobs == [kind : Kinds, at : Steps, rec : Records \cup {Missing},
         config : Files, previous : Files]
Idle == [kind |-> "none", at |-> "none", rec |-> Missing,
         config |-> Missing, previous |-> Missing]

Default == CHOOSE d \in Docs : TRUE
Readable(f) == f \notin {Missing, Bad}

Consistent(rec) ==   \* each file is as before the save or as after it
    /\ config \in {rec.oldC, rec.target}
    /\ previous \in {rec.oldP, rec.nextP}
Published(rec) == config = rec.target /\ previous = rec.nextP

OuterPreserves == outer = "preserve"
Settled == record = Missing /\ decision = Missing
Free(p) == job[p] = Idle

Mishap == mishaps < MaxMishaps /\ mishaps' = mishaps + 1 /\ UNCHANGED commands
Command == commands < MaxCommands /\ commands' = commands + 1 /\ UNCHANGED mishaps
Smooth == UNCHANGED <<commands, mishaps>>

Init ==
    /\ config \in {Missing, Default} /\ previous = Missing
    /\ record = Missing /\ decision = Missing /\ archive = {}
    /\ outer = "none" /\ protected = {}
    /\ shown = Missing
    /\ job = [p \in Procs |-> Idle]
    /\ pair = <<config, previous>> /\ edited = FALSE /\ foreign = {} /\ unseen = Missing
    /\ commands = 0 /\ mishaps = 0

-------------------------------------------------------------------------------
(* Saving                                                                  *)

Saving(step) == job["agent"].kind = "save" /\ job["agent"].at = step
Rec(p) == job[p].rec
Goto(p, step) == job' = [job EXCEPT ![p].at = step]
End(p) == job' = [job EXCEPT ![p] = Idle]
Decided(c, p) == pair' = <<c, p>> /\ edited' = FALSE /\ foreign' = {}

\* What settle_pending_unlocked and load_unlocked let pass when no record is left.
Loads == config # Bad /\ (OuterPreserves => Readable(config))

\* transaction, write, restore_previous: the document is made of what is loaded
\* now, or comes from the client.
Save ==
    /\ Command
    /\ Free("agent") /\ Settled /\ Loads
    /\ \E doc \in Docs :
          job' = [job EXCEPT !["agent"] = [Idle EXCEPT !.kind = "save", !.at = "protect",
                                           !.config = doc]]
    /\ UNCHANGED <<files, durable, shown, history>>

ProtectNew(doc) ==   \* mutant: the home that is replaced is not protected
    protected' = protected \cup {doc}

\* The home of the new document, and that of the old one if there is a file.
Protect(doc) == protected' = protected \cup ({doc, config} \ {Missing})

\* write_unlocked up to the publication.  It loads again and protects the homes
\* before anything is replaced; a save that changes nothing publishes nothing.
SaveProtects ==
    /\ Saving("protect") /\ Loads /\ previous # Bad
    /\ LET doc == job["agent"].config
       IN /\ Protect(doc)
          /\ IF doc = config THEN End("agent") ELSE Goto("agent", "publish")
    /\ unseen' = Missing /\ Smooth
    /\ UNCHANGED <<files, record, decision, archive, outer, shown, pair, edited, foreign>>

\* publish_config_pair up to the prepared record.  The files are read once more:
\* what they hold now is what this save may replace.
SavePrepares ==
    /\ Saving("publish") /\ config # Bad /\ previous # Bad
    /\ LET rec == [committed |-> FALSE, oldC |-> config, oldP |-> previous,
                   target |-> job["agent"].config,
                   nextP |-> IF config = Missing THEN previous ELSE config]
       IN /\ record' = rec
          /\ job' = [job EXCEPT !["agent"] = [Idle EXCEPT !.kind = "save", !.at = "config",
                                              !.rec = rec]]
    /\ Decided(config, previous) /\ Smooth
    /\ UNCHANGED <<files, decision, archive, outer, protected, shown, unseen>>

\* The save stops before its record: a file does not decode, or a step failed.
SaveStops ==
    /\ \/ Mishap /\ (Saving("protect") \/ Saving("publish"))
       \/ /\ Smooth
          /\ \/ Saving("protect") /\ ~(Loads /\ previous # Bad)
             \/ Saving("publish") /\ ~(config # Bad /\ previous # Bad)
    /\ End("agent")
    /\ UNCHANGED <<files, durable, shown, history>>

-------------------------------------------------------------------------------
(* The steps of a publication                                              *)

\* restore_bytes: a file is replaced only if it still holds what was observed;
\* when that is already the target the file is not even read.
Replaceable(file, observed, target) == observed = target \/ file = observed
Replaced(file, observed, target) == IF observed = target THEN file ELSE target

SaveConfig ==
    /\ Saving("config") /\ Replaceable(config, Rec("agent").oldC, Rec("agent").target)
    /\ config' = Replaced(config, Rec("agent").oldC, Rec("agent").target)
    /\ Goto("agent", "previous") /\ Smooth
    /\ UNCHANGED <<previous, durable, shown, history>>

SavePrevious ==
    /\ Saving("previous") /\ Replaceable(previous, Rec("agent").oldP, Rec("agent").nextP)
    /\ previous' = Replaced(previous, Rec("agent").oldP, Rec("agent").nextP)
    /\ Goto("agent", "commit") /\ Smooth
    /\ UNCHANGED <<config, durable, shown, history>>

SavedByReport ==   \* mutant: the report of the write decides, not the record
    /\ Saving("commit")
    /\ record' = [Rec("agent") EXCEPT !.committed = TRUE]
    /\ pair' = <<Rec("agent").target, Rec("agent").nextP>>
    /\ \/ Goto("agent", "remove") /\ Smooth
       \/ /\ Mishap
          /\ job' = [job EXCEPT !["agent"].kind = "rollback", !["agent"].at = "remove"]
    /\ UNCHANGED <<files, decision, archive, outer, protected, shown, edited, foreign, unseen>>

Committed(rec) == [rec EXCEPT !.committed = TRUE]

\* The durable decision.  Its write may report a failure all the same.
SaveCommits ==
    /\ Saving("commit")
    /\ record' = Committed(Rec("agent"))
    /\ pair' = <<Rec("agent").target, Rec("agent").nextP>>
    /\ \/ Goto("agent", "remove") /\ Smooth
       \/ Goto("agent", "accept") /\ Mishap
    /\ UNCHANGED <<files, decision, archive, outer, protected, shown, edited, foreign, unseen>>

\* The save answers that it succeeded, also when the record stays behind.
SaveEnds ==
    /\ Saving("remove")
    /\ \/ record' = Missing /\ Smooth
       \/ record' = record /\ Mishap
    /\ End("agent")
    /\ UNCHANGED <<files, decision, archive, outer, protected, shown, history>>

\* accept_committed, after a commit that reported a failure.
Accepted ==
    /\ Saving("accept")
    /\ record' = IF Published(record) THEN Missing ELSE record
    /\ End("agent") /\ Smooth
    /\ UNCHANGED <<files, decision, archive, outer, protected, shown, history>>

-------------------------------------------------------------------------------
(* Settling what a crash or a failure left                                 *)

SettleJobUnchecked(kind) ==   \* mutant: a prepared record is always rolled back
    IF record = Missing THEN Idle
    ELSE [kind |-> kind, at |-> IF record.committed THEN "remove" ELSE "config",
          rec |-> record, config |-> config, previous |-> previous]

\* settle_pending_inner, as far as it only reads: a record that the files do
\* not fit stays, and what asked for the settlement fails.
SettleJob(kind) ==
    IF record # Missing
       /\ IF record.committed THEN Published(record) ELSE Consistent(record)
    THEN [kind |-> kind, at |-> IF record.committed THEN "remove" ELSE "config",
          rec |-> record, config |-> config, previous |-> previous]
    ELSE Idle

\* preserve_pending_inner up to its decision file, for a saved decision d.
PreservePending(p, d) ==
    \/ /\ Readable(config) /\ record # Missing
       /\ d = Missing \/ d = [rec |-> record, current |-> config]
       /\ decision' = [rec |-> record, current |-> config]
       /\ job' = [job EXCEPT ![p] = [Idle EXCEPT !.kind = "preserve", !.at = "archive",
                                     !.rec = record, !.config = config]]
    \/ /\ Readable(config) /\ record = Missing
       /\ decision' = IF d # Missing /\ d.current = config THEN Missing ELSE d
       /\ End(p)
    \/ /\ \/ ~Readable(config)
          \/ record # Missing /\ d \notin {Missing, [rec |-> record, current |-> config]}
       /\ decision' = d
       /\ End(p)

SettlesAnyway(p, kind) ==   \* mutant: a decision to preserve is not looked at
    /\ job' = [job EXCEPT ![p] = SettleJob(kind)]
    /\ UNCHANGED decision

Settles(p, kind) ==
    IF decision # Missing \/ OuterPreserves
    THEN PreservePending(p, decision)
    ELSE /\ job' = [job EXCEPT ![p] = SettleJob(kind)]
         /\ UNCHANGED decision

\* load, snapshot, retry_configuration, and the first step of every save.
Settle(p) ==
    /\ Free(p) /\ ~Settled
    /\ Settles(p, "settle") /\ Smooth
    /\ UNCHANGED <<files, record, archive, outer, protected, shown, history>>

\* publish_config_pair: a step failed, or found a file changed.  A commit that
\* is durable is accepted; anything else is settled and reported.
SaveFails ==
    /\ \/ Mishap /\ \E step \in {"config", "previous", "commit"} : Saving(step)
       \/ /\ Smooth
          /\ \/ /\ Saving("config")
                /\ ~Replaceable(config, Rec("agent").oldC, Rec("agent").target)
             \/ /\ Saving("previous")
                /\ ~Replaceable(previous, Rec("agent").oldP, Rec("agent").nextP)
    /\ Settles("agent", "rollback")
    /\ UNCHANGED <<files, record, archive, outer, protected, shown, history>>

Settling(p, step) == job[p].kind \in {"settle", "rollback"} /\ job[p].at = step

RestoreConfig(p) ==   \* mutant: the undo copy is not rolled back
    /\ Settling(p, "config") /\ config = job[p].config
    /\ config' = Rec(p).oldC /\ Goto(p, "remove") /\ Smooth
    /\ UNCHANGED <<previous, durable, shown, history>>

\* restore_bytes of a rollback: the file must still be what was observed.
Restore(p) ==
    /\ \/ /\ Settling(p, "config") /\ Replaceable(config, job[p].config, Rec(p).oldC)
          /\ config' = Replaced(config, job[p].config, Rec(p).oldC)
          /\ Goto(p, "previous") /\ UNCHANGED previous
       \/ /\ Settling(p, "previous") /\ Replaceable(previous, job[p].previous, Rec(p).oldP)
          /\ previous' = Replaced(previous, job[p].previous, Rec(p).oldP)
          /\ Goto(p, "remove") /\ UNCHANGED config
    /\ Smooth
    /\ UNCHANGED <<durable, shown, history>>

SettleEnds(p) ==
    /\ Settling(p, "remove")
    /\ record' = Missing
    /\ End(p) /\ Smooth
    /\ UNCHANGED <<files, decision, archive, outer, protected, shown, history>>

\* A settlement or a preservation stops where it is: a file operation fails,
\* a file is not what was observed, or the process dies.
GivesUp(p) ==
    /\ job[p].kind \in {"settle", "rollback", "preserve"}
    /\ \/ Mishap
       \/ /\ Smooth
          /\ \/ Settling(p, "config") /\ ~Replaceable(config, job[p].config, Rec(p).oldC)
             \/ Settling(p, "previous") /\ ~Replaceable(previous, job[p].previous, Rec(p).oldP)
             \/ job[p].at = "drop" /\ (config # job[p].config \/ record # Rec(p))
    /\ End(p)
    /\ UNCHANGED <<files, durable, shown, history>>

-------------------------------------------------------------------------------
(* Preserving the current file                                             *)

Identity == IF record # Missing THEN record
            ELSE IF decision # Missing THEN decision.rec ELSE Missing

\* pending_configuration_status: what a client may name when it decides.
Status ==
    /\ Free("agent") /\ Identity \notin {Missing, shown}
    /\ shown' = Identity /\ Smooth
    /\ UNCHANGED <<files, durable, job, history>>

\* preserve_current_configuration: only the record the client saw; a decision
\* that is already there follows the file the user decided for this time.
Preserve ==
    /\ Command /\ Free("agent")
    /\ Identity # Missing /\ shown = Identity /\ Readable(config)
    /\ PreservePending("agent", IF decision = Missing THEN Missing
                                ELSE [decision EXCEPT !.current = config])
    /\ UNCHANGED <<files, record, archive, outer, protected, shown, history>>

Preserving(p, step) == job[p].kind = "preserve" /\ job[p].at = step

Archive(p) ==
    /\ Preserving(p, "archive")
    /\ archive' = archive \cup {Rec(p)}
    /\ Goto(p, "drop") /\ Smooth
    /\ UNCHANGED <<files, record, decision, outer, protected, shown, history>>

\* The files stay as they are: this is the pair from now on.
Drop(p) ==
    /\ Preserving(p, "drop") /\ config = job[p].config /\ record = Rec(p)
    /\ record' = Missing
    /\ Decided(config, previous)
    /\ Goto(p, "undecide") /\ Smooth
    /\ UNCHANGED <<files, decision, archive, outer, protected, shown, unseen>>

PreserveEnds(p) ==
    /\ Preserving(p, "undecide")
    /\ decision' = Missing
    /\ End(p) /\ Smooth
    /\ UNCHANGED <<files, record, archive, outer, protected, shown, history>>

-------------------------------------------------------------------------------
(* The cold publication, the editor, and the end of the process            *)

OuterOpens ==
    /\ Command /\ outer = "none" /\ Free("agent") /\ Settled
    /\ outer' = "open"
    /\ UNCHANGED <<files, record, decision, archive, protected, shown, job, history>>

\* recover_explicit with preserve_current_after: the outer decision is durable
\* first, and stands when the preservation that follows it stops.
OuterDecides ==
    /\ outer # "none" /\ Free("agent") /\ Readable(config)
    /\ outer' = "preserve" /\ Smooth
    /\ PreservePending("agent", decision)
    /\ UNCHANGED <<files, record, archive, protected, shown, history>>

OuterEnds ==
    /\ outer # "none" /\ Free("agent") /\ Settled
    /\ outer' = "none" /\ Smooth
    /\ UNCHANGED <<files, record, decision, archive, protected, shown, job, history>>

\* Somebody edits, breaks or deletes one of the two files.
Edit ==
    /\ Mishap
    /\ \/ \E f \in Files \ {config} :
             /\ config' = f /\ UNCHANGED previous
             /\ unseen' = IF Saving("publish") THEN f ELSE unseen
             /\ foreign' = IF record = Missing THEN {}
                           ELSE IF f \in {record.oldC, record.target}
                           THEN foreign \ {"config"} ELSE foreign \cup {"config"}
       \/ \E f \in {Bad, Missing} \ {previous} :
             /\ previous' = f /\ UNCHANGED <<config, unseen>>
             /\ foreign' = IF record = Missing THEN {}
                           ELSE IF f \in {record.oldP, record.nextP}
                           THEN foreign \ {"previous"} ELSE foreign \cup {"previous"}
    /\ IF record = Missing
       THEN pair' = <<config', previous'>> /\ edited' = FALSE
       ELSE edited' = TRUE /\ UNCHANGED pair
    /\ UNCHANGED <<durable, shown, job>>

Crash ==
    /\ Mishap
    /\ End("agent")
    /\ UNCHANGED <<files, durable, shown, history>>

-------------------------------------------------------------------------------
(* Specification                                                           *)

AgentStep ==
    \/ Save \/ SaveProtects \/ SavePrepares \/ SaveStops
    \/ SaveConfig \/ SavePrevious \/ SaveCommits \/ SaveEnds \/ Accepted \/ SaveFails
    \/ Status \/ Preserve \/ OuterOpens \/ OuterDecides \/ OuterEnds \/ Crash
Step(p) ==
    \/ Settle(p) \/ Restore(p) \/ SettleEnds(p) \/ GivesUp(p)
    \/ Archive(p) \/ Drop(p) \/ PreserveEnds(p)
Next == AgentStep \/ (\E p \in Procs : Step(p)) \/ Edit
Spec == Init /\ [][Next]_vars

-------------------------------------------------------------------------------
(* Properties                                                              *)

\* The variables keep their types.
TypeOK ==
    /\ config \in Files /\ previous \in Files
    /\ record \in Records \cup {Missing}
    /\ decision \in Decisions \cup {Missing}
    /\ archive \subseteq Records
    /\ outer \in {"none", "open", "preserve"}
    /\ protected \subseteq Docs
    /\ shown \in Records \cup {Missing}
    /\ job \in [Procs -> Jobs]
    /\ pair \in Pairs /\ edited \in BOOLEAN
    /\ foreign \subseteq {"config", "previous"} /\ unseen \in Files
    /\ commands \in 0 .. MaxCommands /\ mishaps \in 0 .. MaxMishaps

\* The configuration and its undo copy are always a pair that was decided
\* together: the pair before the save while a prepared record is there (once
\* it is rolled back), the pair after it from the commit on, whatever crashed
\* or failed in between and in which order; unless somebody edited the files
\* while the record was there.  (publish_config_pair, settle_pending_inner)
PairIsWhole ==
    ~edited =>
        IF record = Missing \/ record.committed
        THEN <<config, previous>> = pair
        ELSE Consistent(record) /\ pair = <<record.oldC, record.oldP>>

\* A save that answers without an error has left its pair, and one that
\* answers with an error and leaves no record has left the pair before it,
\* unless somebody edited the files meanwhile; also when the write of the
\* commit reported a failure after it had become durable.
\* (publish_config_pair, accept_committed)
SaveAnswersHonestly ==
    [][(job["agent"].at \in {"remove", "accept"} /\ record' = Missing /\ ~edited
            /\ job'["agent"] = Idle)
         => /\ Saving(job["agent"].at) => Published(Rec("agent"))
            /\ job["agent"].kind = "rollback"
                  => files = <<Rec("agent").oldC, Rec("agent").oldP>>]_vars

\* A file that somebody edited into something neither the save nor its record
\* knows is never replaced by that save, its rollback, or a later settlement.
\* ("committed records never overwrite external edits", and restore_bytes)
EditsSurvive ==
    [][/\ "config" \in foreign /\ "config" \in foreign' => Edit \/ config' = config
       /\ "previous" \in foreign /\ "previous" \in foreign' => Edit \/ previous' = previous]_vars

\* From the moment somebody decided to keep the current file, for the record
\* or for the cold publication around it, no step of Nexus changes the files
\* while the record is there; and the record is dropped only once a copy of it
\* is in the archive.  (preserve_pending_inner, settle_pending_inner)
DecisionStands ==
    [][(record # Missing /\ (decision # Missing \/ (OuterPreserves /\ Free("agent")))) =>
          /\ files' = files \/ Edit
          /\ record' = record \/ (record' = Missing /\ record \in archive)]_vars

\* A Harness home that a step of Nexus takes out of the configuration, by a
\* save, by its rollback after a crash or by a later settlement, has been
\* protected from deletion before; but for the document that somebody put
\* there after the save in progress had protected the homes it saw.
\* (write_unlocked, protect_harness_homes)
HomesStayProtected ==
    [][(Readable(config) /\ ~Edit /\ config' # config)
          => config \in protected \/ config = unseen]_vars
=============================================================================

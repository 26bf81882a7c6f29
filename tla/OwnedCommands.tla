---------------------------- MODULE OwnedCommands ----------------------------
(***************************************************************************)
(* The commands the Agent runs (clone, build, list of tags) on Unix, and   *)
(* the proof that a command is gone before its working files are removed.  *)
(* Every command has an owner in the Agent, three files in the directory   *)
(* of owned processes (a lock file, the process group, a record) and a     *)
(* guardian process, which kills the group when the owner is gone.         *)
(* reconcile reads the directory: a lease that is held or a group with     *)
(* members means that a command is not over.                               *)
(*                                                                         *)
(* The clients: an installation, which runs commands one after another in  *)
(* one candidate directory, and the refresh of the tag list, which runs    *)
(* beside it without the gate of updates.                                  *)
(***************************************************************************)
EXTENDS Integers, FiniteSets

CONSTANTS
    None,          \* no command, nobody
    Reconcilers,   \* requests that reconcile the directory
    Mishaps,       \* what may go wrong
    MaxCommands,   \* bound: commands
    MaxMishaps     \* bound: mishaps

Job == "job"
ASSUME CommandAssumptions ==
    /\ MaxCommands \in Nat /\ MaxMishaps \in Nat
    /\ Mishaps \subseteq {"crash", "io", "kill", "race"}
    /\ None \notin Int /\ None \notin Reconcilers /\ Job \notin Reconcilers /\ None # Job

VARIABLES
    up,         \* the Agent runs
    gate,       \* holder of the gate of updates: a request, the installation
    job,        \* where the installation is
    op,         \* its record: clean, open (owner not proved gone), unclean
    candidate,  \* its working directory is there
    begun,      \* number of commands begun
    kind,       \* what a command is for
    owner,      \* where the owner of a command is
    file,       \* the files of a command: lock file, process group, record
    proc,       \* the processes of a command
    recon,      \* where a request is in the directory
    mishaps

agent == <<gate, job, op, candidate, begun, kind>>
vars == <<up, agent, owner, file, proc, recon, mishaps>>

Commands == 1 .. MaxCommands
\* The owner holds the lease from try_lock until it drops it.
Holding == {"leased", "marked", "recorded", "spawning", "watching", "draining", "killing",
            "proved", "erased"}
\* An owner that is gone: it finished, it gave up without a proof, its Agent died.
Gone == {"done", "unproved", "lost"}
Owners == {"none", "opened", "released"} \cup Holding \cup Gone
\* A child of the Agent that has not replaced its program yet has its descriptors.
PreExec == {"forked", "grouped", "guarded"}
Files == [lock : BOOLEAN, pid : {"none", "zero", "group"}, rec : BOOLEAN]
Processes == [leader : {"none", "running", "ended"} \cup PreExec,
              guardian : {"none", "watching", "killed", "ended"},
              others : BOOLEAN, doomed : BOOLEAN]
Scans == [at : {"idle", "scan", "locked", "unrecorded", "freed", "clear"},
          cmd : Commands \cup {None}, left : SUBSET Commands, gated : BOOLEAN]

LeaderLives(c) == proc[c].leader \in PreExec \cup {"running"}
\* The process group of a command has a member that runs.
Live(c) == LeaderLives(c) \/ proc[c].guardian = "watching" \/ proc[c].others
\* The lease is one open file: of the owner, of the child until it replaces
\* its program, and of the guardian.
Leased(c) == owner[c] \in Holding \/ proc[c].leader \in PreExec \/ proc[c].guardian = "watching"
Holds(r, c) == recon[r].cmd = c /\ recon[r].at \in {"locked", "unrecorded"}
WatchedByItself(c) ==   \* mutant: the guardian keeps the other end open itself
    owner[c] \in {"spawning", "watching"} \/ proc[c].guardian = "watching"
\* The guardian reads from a socket whose other end the owner has.
Watched(c) == owner[c] \in {"spawning", "watching"}

Away == [at |-> "idle", cmd |-> None, left |-> {}, gated |-> FALSE]

Init ==
    /\ up = TRUE /\ gate = None /\ job = "none" /\ op = "clean" /\ candidate = FALSE
    /\ begun = 0
    /\ kind = [c \in Commands |-> "none"]
    /\ owner = [c \in Commands |-> "none"]
    /\ file = [c \in Commands |-> [lock |-> FALSE, pid |-> "none", rec |-> FALSE]]
    /\ proc = [c \in Commands |-> [leader |-> "none", guardian |-> "none",
                                   others |-> FALSE, doomed |-> FALSE]]
    /\ recon = [r \in Reconcilers |-> Away]
    /\ mishaps = 0

Mishap(m) == m \in Mishaps /\ mishaps < MaxMishaps /\ mishaps' = mishaps + 1
Smooth == UNCHANGED mishaps
Goto(c, place) == owner' = [owner EXCEPT ![c] = place]

-------------------------------------------------------------------------------
(* Owner::create                                                           *)

\* The lock file gets a new random name.
Open(c, what) ==
    /\ c = begun + 1 /\ c \in Commands /\ begun' = c
    /\ kind' = [kind EXCEPT ![c] = what]
    /\ \/ Smooth /\ Goto(c, "opened") /\ file' = [file EXCEPT ![c].lock = TRUE]
       \/ Mishap("io") /\ Goto(c, "done") /\ UNCHANGED file

TryLock(c) ==
    /\ owner[c] = "opened" /\ Smooth
    /\ Goto(c, IF \E r \in Reconcilers : Holds(r, c) THEN "done" ELSE "leased")
    /\ UNCHANGED <<up, agent, file, proc, recon>>

\* The next steps of the owner write a file each; one that fails ends it.
Write(c, from, to, written) ==
    /\ owner[c] = from
    /\ \/ Smooth /\ Goto(c, to) /\ file' = [file EXCEPT ![c] = written]
       \/ Mishap("io") /\ Goto(c, "done") /\ UNCHANGED file
    /\ UNCHANGED <<up, agent, proc, recon>>

WriteGroup(c) == Write(c, "leased", "marked", [file[c] EXCEPT !.pid = "zero"])
WriteRecord(c) == Write(c, "marked", "recorded", [file[c] EXCEPT !.rec = TRUE])

-------------------------------------------------------------------------------
(* run_recoverable_process                                                 *)

\* The fork; spawn returns when the child replaced its program or failed.
Spawn(c) ==
    /\ owner[c] = "recorded"
    /\ \/ Smooth /\ Goto(c, "spawning") /\ proc' = [proc EXCEPT ![c].leader = "forked"]
       \/ Mishap("io") /\ Goto(c, "draining") /\ UNCHANGED proc
    /\ UNCHANGED <<up, agent, file, recon>>

SpawnReturns(c) ==
    /\ owner[c] = "spawning" /\ proc[c].leader \in {"running", "ended"} /\ Smooth
    /\ Goto(c, IF proc[c].leader = "running" THEN "watching" ELSE "draining")
    /\ UNCHANGED <<up, agent, file, proc, recon>>

\* The command ended, was cancelled or is late: the owner closes its end of
\* the socket and kills the group.
StopWatching(c) ==
    /\ owner[c] = "watching" /\ Smooth
    /\ Goto(c, "killing")
    /\ proc' = [proc EXCEPT ![c].doomed = TRUE]
    /\ UNCHANGED <<up, agent, file, recon>>

\* What the owner asks after a kill (the group of its child) and after a
\* failed spawn (the group in the file).
LeaderIsGone(c) == ~LeaderLives(c)   \* mutant: only the command itself is waited for
Quiescent(c) == ~Live(c)
GroupIsEmpty(c) == file[c].pid = "zero" \/ Quiescent(c)

Prove(c) ==
    /\ \/ owner[c] = "killing" /\ Quiescent(c)
       \/ owner[c] = "draining" /\ GroupIsEmpty(c)
    /\ Smooth /\ Goto(c, "proved")
    /\ UNCHANGED <<up, agent, file, proc, recon>>

\* Ten seconds pass, or the group cannot be inspected.
GiveUp(c) ==
    /\ owner[c] \in {"killing", "draining"}
    /\ Smooth /\ Goto(c, "unproved")
    /\ UNCHANGED <<up, agent, file, proc, recon>>

\* finish: the record, the group, the lease, the lock file.
Erase(c) == Write(c, "proved", "erased", [file[c] EXCEPT !.rec = FALSE])
ErasePid(c) == Write(c, "erased", "released", [file[c] EXCEPT !.pid = "none"])
Unlink(c) == Write(c, "released", "done", [file[c] EXCEPT !.lock = FALSE])

-------------------------------------------------------------------------------
(* The processes of a command.                                             *)

Child(c, from, next) ==
    /\ proc[c].leader = from
    /\ proc' = [proc EXCEPT ![c] = next]
    /\ UNCHANGED <<up, agent, owner, recon>>

\* Before it replaces its program, the child writes its group and forks the
\* guardian; each step may fail, and so may exec, after the guardian is there.
JoinGroup(c) ==
    \/ /\ Child(c, "forked", [proc[c] EXCEPT !.leader = "grouped"])
       /\ file' = [file EXCEPT ![c].pid = "group"] /\ Smooth
    \/ Child(c, "forked", [proc[c] EXCEPT !.leader = "ended"]) /\ Mishap("io") /\ UNCHANGED file
ForkGuardian(c) ==
    /\ \/ Child(c, "grouped", [proc[c] EXCEPT !.leader = "guarded", !.guardian = "watching"]) /\ Smooth
       \/ Child(c, "grouped", [proc[c] EXCEPT !.leader = "ended"]) /\ Mishap("io")
    /\ UNCHANGED file
Exec(c) ==
    /\ ~proc[c].doomed
    /\ \/ Child(c, "guarded", [proc[c] EXCEPT !.leader = "running"]) /\ Smooth
       \/ Child(c, "guarded", [proc[c] EXCEPT !.leader = "ended"]) /\ Mishap("io")
    /\ UNCHANGED file

\* The guardian sees the end of the socket and kills the group, itself included.
GuardianKills(c) ==
    /\ proc[c].guardian = "watching" /\ ~Watched(c) /\ ~proc[c].doomed /\ Smooth
    /\ proc' = [proc EXCEPT ![c].doomed = TRUE]
    /\ UNCHANGED <<up, agent, owner, file, recon>>

\* A process of the group ends: killed, or at the end of its work.
ProcessEnds(c) ==
    /\ \/ /\ proc[c].leader = "running" \/ (proc[c].doomed /\ LeaderLives(c))
          /\ proc' = [proc EXCEPT ![c].leader = "ended"]
       \/ proc[c].others /\ proc' = [proc EXCEPT ![c].others = FALSE]
       \/ /\ proc[c].doomed /\ proc[c].guardian = "watching"
          /\ proc' = [proc EXCEPT ![c].guardian = "ended"]
    /\ Smooth /\ UNCHANGED <<up, agent, owner, file, recon>>

\* The command works: it forks, and a command of the installation writes to
\* the candidate.
CommandWorks(c) ==
    /\ proc[c].leader = "running" \/ proc[c].others
    /\ ~proc[c].doomed
    /\ \/ proc' = [proc EXCEPT ![c].others = TRUE] /\ UNCHANGED candidate
       \/ kind[c] = "install" /\ candidate' = TRUE /\ UNCHANGED proc
    /\ Smooth /\ UNCHANGED <<up, gate, job, op, begun, kind, owner, file, recon>>

\* Somebody else kills the guardian.
GuardianKilled(c) ==
    /\ proc[c].guardian = "watching" /\ Mishap("kill")
    /\ proc' = [proc EXCEPT ![c].guardian = "killed"]
    /\ UNCHANGED <<up, agent, owner, file, recon>>

-------------------------------------------------------------------------------
(* reconcile_run_directory                                                 *)

\* A request reconciles before any mutation, and again with the gate.
BeginScan(r, gated) ==
    /\ up /\ recon[r].at = "idle" /\ Smooth
    /\ recon' = [recon EXCEPT ![r] = [at |-> "scan", cmd |-> None, gated |-> gated,
                                      left |-> {c \in Commands : file[c].lock}]]
    /\ IF gated THEN gate = None /\ gate' = r ELSE UNCHANGED gate
    /\ UNCHANGED <<up, job, op, candidate, begun, kind, owner, file, proc>>

\* It ends with an error.
Busy(r) ==
    /\ recon' = [recon EXCEPT ![r] = Away]
    /\ gate' = IF recon[r].gated THEN None ELSE gate
At(r, place) == recon' = [recon EXCEPT ![r].at = place] /\ UNCHANGED gate

\* The next entry: its lease is free, is held, or the entry has vanished.
Lease(r) ==
    /\ recon[r].at = "scan"
    /\ \E c \in recon[r].left :
          IF ~file[c].lock
          THEN \/ recon' = [recon EXCEPT ![r].left = @ \ {c}] /\ UNCHANGED gate
               \/ Busy(r)
          ELSE IF Leased(c) \/ \E s \in Reconcilers : Holds(s, c)
          THEN Busy(r)
          ELSE /\ recon' = [recon EXCEPT ![r].at = "locked", ![r].cmd = c]
               /\ UNCHANGED gate
    /\ LET racing == \E c \in recon[r].left : recon'[r].cmd = c /\ owner[c] = "opened"
       IN  IF racing THEN Mishap("race") ELSE Smooth
    /\ UNCHANGED <<up, job, op, candidate, begun, kind, owner, file, proc>>

CheckLeaseOnly(r) ==   \* mutant: a free lease is taken for the proof
    /\ recon[r].at = "locked"
    /\ file' = [file EXCEPT ![recon[r].cmd].rec = FALSE] /\ At(r, "unrecorded") /\ Smooth
    /\ UNCHANGED <<up, job, op, candidate, begun, kind, owner, proc>>

\* With the lease: a record whose group has members is kept.
Check(r) ==
    LET c == recon[r].cmd IN
    /\ recon[r].at = "locked"
    /\ IF file[c].rec
       THEN \/ /\ file[c].pid # "none" /\ GroupIsEmpty(c)
               /\ file' = [file EXCEPT ![c].rec = FALSE] /\ At(r, "unrecorded") /\ Smooth
            \/ /\ file[c].pid = "none" \/ ~GroupIsEmpty(c)
               /\ Busy(r) /\ Smooth /\ UNCHANGED file
            \/ Busy(r) /\ Mishap("io") /\ UNCHANGED file
       ELSE At(r, "unrecorded") /\ Smooth /\ UNCHANGED file
    /\ UNCHANGED <<up, job, op, candidate, begun, kind, owner, proc>>

DropPid(r) ==
    LET c == recon[r].cmd IN
    /\ recon[r].at = "unrecorded"
    /\ \/ file' = [file EXCEPT ![c].pid = "none"] /\ At(r, "freed") /\ Smooth
       \/ Busy(r) /\ Mishap("io") /\ UNCHANGED file
    /\ UNCHANGED <<up, job, op, candidate, begun, kind, owner, proc>>

DropLock(r) ==
    LET c == recon[r].cmd IN
    /\ recon[r].at = "freed"
    /\ \/ /\ file' = [file EXCEPT ![c].lock = FALSE] /\ Smooth /\ UNCHANGED gate
          /\ recon' = [recon EXCEPT ![r].at = "scan", ![r].cmd = None, ![r].left = @ \ {c}]
       \/ Busy(r) /\ Mishap("io") /\ UNCHANGED file
    /\ UNCHANGED <<up, job, op, candidate, begun, kind, owner, proc>>

ScanEnds(r) ==
    /\ recon[r].at = "scan" /\ recon[r].left = {} /\ Smooth
    /\ IF recon[r].gated THEN At(r, "clear")
       ELSE recon' = [recon EXCEPT ![r] = Away] /\ UNCHANGED gate
    /\ UNCHANGED <<up, job, op, candidate, begun, kind, owner, file, proc>>

-------------------------------------------------------------------------------
(* The installation and the list of tags.                                  *)

\* Nothing is left of earlier commands: the candidate of an installation that
\* did not end is removed (recover_install_unattached, cancel_install).
Settle(r) ==
    /\ recon[r].at = "clear" /\ op # "clean"
    /\ \/ candidate' = FALSE /\ op' = "clean" /\ Smooth /\ UNCHANGED <<gate, recon>>
       \/ UNCHANGED candidate /\ op' = "unclean" /\ Mishap("io") /\ Busy(r)
       \/ UNCHANGED <<candidate, op>> /\ Mishap("io") /\ Busy(r)
    /\ UNCHANGED <<up, job, begun, kind, owner, file, proc>>

\* cancel_install of an installation whose owner is proved gone: it only waits
\* for the gate.
CleanUp ==
    /\ up /\ gate = None /\ op = "unclean" /\ Smooth
    /\ candidate' = FALSE /\ op' = "clean"
    /\ UNCHANGED <<up, gate, job, begun, kind, owner, file, proc, recon>>

\* The request had the gate for something else.
LeaveGate(r) ==
    /\ recon[r].at = "clear" /\ op = "clean" /\ Busy(r) /\ Smooth
    /\ UNCHANGED <<up, job, op, candidate, begun, kind, owner, file, proc>>

\* An installation writes its record and goes on with the gate.
BeginInstall(r) ==
    /\ recon[r].at = "clear" /\ op = "clean"
    /\ recon' = [recon EXCEPT ![r] = Away]
    /\ \/ gate' = Job /\ job' = "next" /\ op' = "open" /\ Smooth
       \/ gate' = None /\ UNCHANGED <<job, op>> /\ Mishap("io")
    /\ UNCHANGED <<up, candidate, begun, kind, owner, file, proc>>

Latest == CHOOSE c \in Commands :
              kind[c] = "install" /\ \A d \in Commands : kind[d] = "install" => d <= c

\* The next command: a clone that is tried again begins with an empty candidate,
\* the next phase goes on in what the last one left.
NextCommand ==
    /\ job = "next"
    /\ candidate' \in {candidate, FALSE} /\ job' = "await"
    /\ \E c \in Commands : Open(c, "install")
    /\ UNCHANGED <<up, gate, op, proc, recon>>

CommandReturnsAnyway ==   \* mutant: a command that did not end is tried again
    /\ job = "await" /\ Smooth
    /\ owner[Latest] \in {"done", "unproved"} /\ job' \in {"next", "ended"} /\ UNCHANGED gate
    /\ UNCHANGED <<up, op, candidate, begun, kind, owner, file, proc, recon>>

\* Only a command whose end is proved is followed by another; a command that is
\* not over leaves the candidate to a later recovery.
CommandReturns ==
    /\ job = "await" /\ Smooth
    /\ \/ owner[Latest] = "done" /\ job' \in {"next", "ended"} /\ UNCHANGED gate
       \/ owner[Latest] = "unproved" /\ job' = "none" /\ gate' = None
    /\ UNCHANGED <<up, op, candidate, begun, kind, owner, file, proc, recon>>

\* The candidate was published, or is removed; or the record or the removal fails.
EndInstall ==
    /\ job \in {"next", "ended"} /\ job' = "none" /\ gate' = None
    /\ \/ candidate' = FALSE /\ op' = "clean" /\ Smooth
       \/ candidate' \in {candidate, FALSE} /\ op' \in {"open", "unclean"} /\ Mishap("io")
    /\ UNCHANGED <<up, begun, kind, owner, file, proc, recon>>

\* One refresh of the tag list at a time, beside everything.
ListTags ==
    /\ up /\ \A c \in Commands : kind[c] = "tags" => owner[c] \in Gone
    /\ \E c \in Commands : Open(c, "tags")
    /\ UNCHANGED <<up, gate, job, op, candidate, proc, recon>>

Crash ==
    /\ up /\ Mishap("crash") /\ up' = FALSE
    /\ gate' = None /\ job' = "none"
    /\ owner' = [c \in Commands |-> IF owner[c] \in Gone \cup {"none"} THEN owner[c] ELSE "lost"]
    /\ recon' = [r \in Reconcilers |-> Away]
    /\ UNCHANGED <<op, candidate, begun, kind, file, proc>>
Boot ==
    /\ ~up /\ up' = TRUE /\ Smooth
    /\ UNCHANGED <<agent, owner, file, proc, recon>>

-------------------------------------------------------------------------------
Own(c) ==
    \/ TryLock(c) \/ WriteGroup(c) \/ WriteRecord(c) \/ Spawn(c) \/ SpawnReturns(c)
    \/ StopWatching(c) \/ Prove(c) \/ GiveUp(c) \/ Erase(c) \/ ErasePid(c) \/ Unlink(c)
Run(c) ==
    \/ JoinGroup(c) \/ ForkGuardian(c) \/ Exec(c) \/ GuardianKills(c) \/ ProcessEnds(c)
Reconcile(r) ==
    \/ \E gated \in BOOLEAN : BeginScan(r, gated)
    \/ Lease(r) \/ Check(r) \/ DropPid(r) \/ DropLock(r) \/ ScanEnds(r)
    \/ Settle(r) \/ LeaveGate(r) \/ BeginInstall(r)
Next ==
    \/ \E c \in Commands : Own(c) \/ Run(c) \/ CommandWorks(c) \/ GuardianKilled(c)
    \/ \E r \in Reconcilers : Reconcile(r)
    \/ CleanUp \/ NextCommand \/ CommandReturns \/ EndInstall \/ ListTags \/ Crash \/ Boot
Spec == Init /\ [][Next]_vars

\* The operating system runs every process: a child gets to its program, a
\* guardian that sees the end of its socket kills, what is killed ends.
Fairness ==
    \A c \in Commands :
        /\ WF_vars(JoinGroup(c)) /\ WF_vars(ForkGuardian(c)) /\ WF_vars(Exec(c))
        /\ WF_vars(GuardianKills(c))
        /\ WF_vars(proc[c].doomed /\ ProcessEnds(c))
FairSpec == Spec /\ Fairness
-------------------------------------------------------------------------------
(* Properties                                                              *)

TypeOK ==
    /\ up \in BOOLEAN /\ gate \in Reconcilers \cup {None, Job}
    /\ job \in {"none", "next", "await", "ended"} /\ op \in {"clean", "open", "unclean"}
    /\ candidate \in BOOLEAN /\ begun \in 0 .. MaxCommands
    /\ kind \in [Commands -> {"none", "install", "tags"}]
    /\ owner \in [Commands -> Owners] /\ file \in [Commands -> Files]
    /\ proc \in [Commands -> Processes] /\ recon \in [Reconcilers -> Scans]
    /\ mishaps \in 0 .. MaxMishaps

\* Whoever runs for a command can be found: its lock file is there, and the
\* lease is held or the record names the group.
LiveIsFound ==
    \A c \in Commands : Live(c) =>
        file[c].lock /\ (Leased(c) \/ (file[c].rec /\ file[c].pid = "group"))

\* The working directory is removed, published or given to the next command
\* only when no process of an earlier command is left.
FilesFollowProcesses ==
    [][candidate /\ ~candidate' => \A c \in Commands : kind[c] = "install" => ~Live(c)]_vars

\* Never two commands in one working directory.
OneWriter ==
    \A c, d \in Commands : /\ kind[c] = "install" /\ kind[d] = "install" /\ Live(c) /\ Live(d)
                           => c = d

\* A record can always be settled some day: it never lacks its group.
RecordsNameGroups == \A c \in Commands : file[c].rec => file[c].pid # "none"

(* Why these hold: what an owner's place says of its files and processes,   *)
(* what a request in the directory knows, who may have a command at all.    *)

Unspawned == {"none", "opened", "leased", "marked", "recorded"}
Proved == {"proved", "erased", "released", "done"}

CommandFits(c) ==
    /\ c > begun => owner[c] = "none"
    /\ owner[c] = "none" => kind[c] = "none" /\ ~file[c].lock
    /\ owner[c] \in Unspawned \cup Proved => ~Live(c)
    /\ Live(c) =>
         /\ file[c].lock /\ file[c].rec
         /\ \/ file[c].pid = "group"
            \/ /\ proc[c].leader = "forked" /\ file[c].pid = "zero"
               /\ proc[c].guardian # "watching" /\ ~proc[c].others
    /\ owner[c] = "draining" => proc[c].leader # "forked"
    /\ owner[c] \in Holding \cup {"opened"} => file[c].lock
    /\ owner[c] \in {"marked", "recorded"} => file[c].pid = "zero"
    /\ owner[c] = "recorded" => file[c].rec
    /\ owner[c] \in {"erased", "released"} => ~file[c].rec

\* A request only ever has the lease of a command that has no owner any more.
ScanFits(r) ==
    LET c == recon[r].cmd IN
    /\ recon[r].gated => gate = r
    /\ recon[r].at = "clear" => recon[r].gated
    /\ recon[r].at \in {"locked", "unrecorded", "freed"} =>
          c \in Commands /\ owner[c] \in {"released"} \cup Gone
    /\ recon[r].at \in {"locked", "unrecorded"} => ~Leased(c)
    /\ recon[r].at \in {"unrecorded", "freed"} => ~Live(c) /\ ~file[c].rec

\* No process of an installation is left.
Quiet == \A c \in Commands : kind[c] = "install" => ~Live(c)
LatestStarted ==
    /\ Latest \in Commands /\ kind[Latest] = "install"
    /\ \A c \in Commands : kind[c] = "install" => c <= Latest

InstallFits ==
    /\ job # "none" => gate = Job /\ op = "open"
    /\ \A c \in Commands :
          kind[c] = "install" /\ owner[c] \notin Gone => job = "await" /\ c = Latest
    /\ job = "await" =>
          /\ LatestStarted
          /\ \A c \in Commands : kind[c] = "install" /\ c # Latest => ~Live(c)
    /\ job \in {"next", "ended"} \/ op # "open" => Quiet
    /\ \A r \in Reconcilers :
          /\ recon[r].at = "clear" => Quiet
          /\ recon[r].gated => \A c \in Commands :
                kind[c] = "install" /\ Live(c) => c \in recon[r].left

Founded ==
    /\ \A c \in Commands : CommandFits(c)
    /\ \A r \in Reconcilers : ScanFits(r)
    /\ InstallFits /\ RecordsNameGroups /\ OneWriter

\* What an owner left behind ends, unless somebody killed the guardian.
Abandoned(c) == owner[c] \in {"lost", "unproved"} /\ proc[c].guardian # "killed"
AbandonedEnds == \A c \in Commands : (Abandoned(c) /\ Live(c)) ~> (~Live(c) \/ ~Abandoned(c))
===============================================================================

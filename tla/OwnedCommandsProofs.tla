------------------------- MODULE OwnedCommandsProofs -------------------------
(***************************************************************************)
(* Theorems about OwnedCommands, for every number of commands, requests    *)
(* and mishaps: types first, then Founded, which ties the place of an      *)
(* owner to its files and processes (CommandFits), a request's place to    *)
(* the lease it has and to the gate (ScanFits), and the installation to    *)
(* the one command that may write its working directory (InstallFits).     *)
(* The theorems that matter follow from it.                                *)
(***************************************************************************)
EXTENDS OwnedCommands, TLAPS

-------------------------------------------------------------------------------
(* Types.                                                                  *)

LEMMA Kinds ==
    /\ Mishaps \subseteq {"crash", "io", "kill", "race"}
    /\ MaxCommands \in Nat /\ MaxMishaps \in Nat
    /\ None \notin Int /\ None \notin Commands /\ None \notin Reconcilers
    /\ Job \notin Reconcilers /\ None # Job
  BY CommandAssumptions, SMT DEF CommandAssumptions, Commands

LEMMA MishapCounts ==
  ASSUME TypeOK, NEW m, Mishap(m) \/ Smooth PROVE mishaps' \in 0 .. MaxMishaps
  BY Kinds, SMT DEF TypeOK, Mishap, Smooth

\* A field of one record is replaced by a value of its type.
LEMMA FileFields ==
  ASSUME NEW w \in Files
  PROVE  /\ \A b \in BOOLEAN : [w EXCEPT !.lock = b] \in Files /\ [w EXCEPT !.rec = b] \in Files
         /\ \A g \in {"none", "zero", "group"} : [w EXCEPT !.pid = g] \in Files
  BY DEF Files
LEMMA ProcessFields ==
  ASSUME NEW w \in Processes
  PROVE  /\ \A l \in {"none", "running", "ended"} \cup PreExec : [w EXCEPT !.leader = l] \in Processes
         /\ \A g \in {"none", "watching", "killed", "ended"} : [w EXCEPT !.guardian = g] \in Processes
         /\ \A b \in BOOLEAN : [w EXCEPT !.others = b] \in Processes /\ [w EXCEPT !.doomed = b] \in Processes
  BY DEF Processes
LEMMA ScanFields ==
  ASSUME NEW w \in Scans
  PROVE  /\ \A p \in {"idle", "scan", "locked", "unrecorded", "freed", "clear"} :
               [w EXCEPT !.at = p] \in Scans
         /\ \A c \in Commands \cup {None} : [w EXCEPT !.cmd = c] \in Scans
         /\ \A s \in SUBSET Commands : [w EXCEPT !.left = s] \in Scans
  BY DEF Scans
LEMMA Replaced ==
  ASSUME NEW S, NEW T, NEW f \in [S -> T], NEW a \in S, NEW w \in T
  PROVE  [f EXCEPT ![a] = w] \in [S -> T]
  OBVIOUS
LEMMA FileReplaced ==
  ASSUME NEW f \in [Commands -> Files], NEW c
  PROVE  /\ \A b \in BOOLEAN : [f EXCEPT ![c].lock = b] \in [Commands -> Files]
         /\ \A b \in BOOLEAN : [f EXCEPT ![c].rec = b] \in [Commands -> Files]
         /\ \A g \in {"none", "zero", "group"} : [f EXCEPT ![c].pid = g] \in [Commands -> Files]
<1>1. CASE c \in Commands
  <2>1. f[c] \in Files
    BY <1>1
  <2> QED BY <1>1, <2>1, FileFields, Zenon
<1>2. CASE c \notin Commands
  <2>1. \A w : [f EXCEPT ![c] = w] = f
    BY <1>2
  <2> QED BY <2>1, Zenon
<1> QED BY <1>1, <1>2
LEMMA ProcessReplaced ==
  ASSUME NEW p \in [Commands -> Processes], NEW c \in Commands
  PROVE  /\ \A l \in {"none", "running", "ended"} \cup PreExec :
               [p EXCEPT ![c].leader = l] \in [Commands -> Processes]
         /\ \A g \in {"none", "watching", "killed", "ended"} :
               [p EXCEPT ![c].guardian = g] \in [Commands -> Processes]
         /\ \A b \in BOOLEAN : [p EXCEPT ![c].others = b] \in [Commands -> Processes]
         /\ \A b \in BOOLEAN : [p EXCEPT ![c].doomed = b] \in [Commands -> Processes]
<1>1. p[c] \in Processes
  OBVIOUS
<1> QED BY <1>1, ProcessFields, Zenon
LEMMA InitTypes == Init => TypeOK
<1> SUFFICES ASSUME Init PROVE TypeOK
  OBVIOUS
<1>1. [lock |-> FALSE, pid |-> "none", rec |-> FALSE] \in Files
  BY DEF Files
<1>2. [leader |-> "none", guardian |-> "none", others |-> FALSE, doomed |-> FALSE] \in Processes
  BY DEF Processes
<1>3. Away \in Scans
  BY DEF Away, Scans
<1>4. "none" \in Owners
  BY DEF Owners
<1>5. begun \in 0 .. MaxCommands /\ mishaps \in 0 .. MaxMishaps
  BY Kinds, SMT DEF Init
<1> QED BY <1>1, <1>2, <1>3, <1>4, <1>5, Zenon DEF Init, TypeOK

\* A step of an owner that writes a file.
LEMMA WriteTypes ==
  ASSUME TypeOK, NEW c \in Commands, NEW from, NEW to \in Owners, NEW written \in Files,
         Write(c, from, to, written)
  PROVE  TypeOK'
<1>1. mishaps' \in 0 .. MaxMishaps
  BY MishapCounts, Zenon DEF Write
<1>2. owner' \in [Commands -> Owners]
  <2>1. "done" \in Owners
    BY DEF Owners, Gone
  <2> QED BY <2>1, Replaced, Zenon DEF Write, Goto, TypeOK
<1>3. file' \in [Commands -> Files]
  BY Replaced, Zenon DEF Write, TypeOK
<1> QED BY <1>1, <1>2, <1>3, Zenon DEF Write, TypeOK, agent

LEMMA OwnTypes == ASSUME TypeOK, NEW c \in Commands, Own(c) PROVE TypeOK'
<1>1. file[c] \in Files /\ proc[c] \in Processes
  BY DEF TypeOK
<1>2. Holding \subseteq Owners /\ Gone \subseteq Owners /\ "released" \in Owners
  BY DEF Owners
<1>3. /\ {"leased", "marked", "recorded", "spawning", "watching", "draining", "killing",
         "proved", "erased"} \subseteq Owners
      /\ {"done", "unproved"} \subseteq Owners
  BY <1>2, Zenon DEF Holding, Gone
<1>4. CASE WriteGroup(c) \/ WriteRecord(c) \/ Erase(c) \/ ErasePid(c) \/ Unlink(c)
  <2>1. /\ [file[c] EXCEPT !.pid = "zero"] \in Files /\ [file[c] EXCEPT !.rec = TRUE] \in Files
        /\ [file[c] EXCEPT !.rec = FALSE] \in Files /\ [file[c] EXCEPT !.pid = "none"] \in Files
        /\ [file[c] EXCEPT !.lock = FALSE] \in Files
    BY <1>1, FileFields, Zenon
  <2> QED
    BY <1>2, <1>3, <1>4, <2>1, WriteTypes, Zenon
    DEF WriteGroup, WriteRecord, Erase, ErasePid, Unlink
<1>5. CASE TryLock(c) \/ Spawn(c) \/ SpawnReturns(c) \/ StopWatching(c) \/ Prove(c) \/ GiveUp(c)
  <2>1. mishaps' \in 0 .. MaxMishaps
    BY <1>5, MishapCounts, Zenon DEF TryLock, Spawn, SpawnReturns, StopWatching, Prove, GiveUp
  <2>2. owner' \in [Commands -> Owners]
    <3>1. \A w \in Owners : [owner EXCEPT ![c] = w] \in [Commands -> Owners]
      BY DEF TypeOK
    <3>2. \A w \in {"done", "unproved", "leased", "spawning", "watching", "draining", "killing", "proved"} :
             Goto(c, w) => owner' \in [Commands -> Owners]
      BY <1>3, <3>1 DEF Goto
    <3> QED
      BY <1>5, <3>2, Zenon DEF TryLock, Spawn, SpawnReturns, StopWatching, Prove, GiveUp
  <2>3. proc' \in [Commands -> Processes]
    <3>1. /\ [proc EXCEPT ![c].leader = "forked"] \in [Commands -> Processes]
          /\ [proc EXCEPT ![c].doomed = TRUE] \in [Commands -> Processes]
      BY ProcessReplaced, Zenon DEF TypeOK, PreExec
    <3> QED
      BY <1>5, <3>1, Zenon DEF TryLock, Spawn, SpawnReturns, StopWatching, Prove, GiveUp, TypeOK
  <2>4. UNCHANGED <<up, agent, file, recon>>
    BY <1>5, Zenon DEF TryLock, Spawn, SpawnReturns, StopWatching, Prove, GiveUp
  <2> QED BY <2>1, <2>2, <2>3, <2>4, Zenon DEF TypeOK, agent
<1> QED BY <1>4, <1>5, Zenon DEF Own

LEMMA ProcessTypes ==
  ASSUME TypeOK, NEW c \in Commands, Run(c) \/ CommandWorks(c) \/ GuardianKilled(c)
  PROVE  TypeOK'
<1>1. mishaps' \in 0 .. MaxMishaps
  BY MishapCounts, Zenon
  DEF Run, JoinGroup, ForkGuardian, Exec, GuardianKills, ProcessEnds, CommandWorks, GuardianKilled
<1>2. proc[c] \in Processes /\ file[c] \in Files
  BY DEF TypeOK
<1>3. \A w \in Processes : [proc EXCEPT ![c] = w] \in [Commands -> Processes]
  BY Replaced, Zenon DEF TypeOK
<1>4. proc' \in [Commands -> Processes]
  <2>1. CASE JoinGroup(c) \/ ForkGuardian(c) \/ Exec(c)
    <3>1. /\ [proc[c] EXCEPT !.leader = "grouped"] \in Processes
          /\ [proc[c] EXCEPT !.leader = "ended"] \in Processes
          /\ [proc[c] EXCEPT !.leader = "running"] \in Processes
      BY <1>2, ProcessFields, Zenon DEF PreExec
    <3>2. [proc[c] EXCEPT !.leader = "guarded", !.guardian = "watching"] \in Processes
      BY <1>2 DEF Processes, PreExec
    <3> QED BY <2>1, <1>3, <3>1, <3>2, Zenon DEF JoinGroup, ForkGuardian, Exec, Child
  <2>2. CASE GuardianKills(c) \/ ProcessEnds(c) \/ CommandWorks(c) \/ GuardianKilled(c)
    <3>1. /\ [proc EXCEPT ![c].doomed = TRUE] \in [Commands -> Processes]
          /\ [proc EXCEPT ![c].leader = "ended"] \in [Commands -> Processes]
          /\ [proc EXCEPT ![c].others = TRUE] \in [Commands -> Processes]
          /\ [proc EXCEPT ![c].others = FALSE] \in [Commands -> Processes]
          /\ [proc EXCEPT ![c].guardian = "ended"] \in [Commands -> Processes]
          /\ [proc EXCEPT ![c].guardian = "killed"] \in [Commands -> Processes]
      BY ProcessReplaced, Zenon DEF TypeOK
    <3> QED
      BY <2>2, <3>1, Zenon DEF GuardianKills, ProcessEnds, CommandWorks, GuardianKilled, TypeOK
  <2> QED BY <2>1, <2>2, Zenon DEF Run
<1>5. file' \in [Commands -> Files]
  <2>1. [file EXCEPT ![c].pid = "group"] \in [Commands -> Files]
    BY FileReplaced, Zenon DEF TypeOK
  <2> QED
    BY <2>1, Zenon
    DEF Run, JoinGroup, ForkGuardian, Exec, GuardianKills, ProcessEnds, CommandWorks, GuardianKilled, TypeOK
<1>6. UNCHANGED <<up, gate, job, op, begun, kind, owner, recon>> /\ candidate' \in BOOLEAN
  BY Zenon
  DEF Run, JoinGroup, ForkGuardian, Exec, GuardianKills, ProcessEnds, CommandWorks, GuardianKilled,
      Child, agent, TypeOK
<1> QED BY <1>1, <1>4, <1>5, <1>6, Zenon DEF TypeOK

\* What a request in the directory may become.
LEMMA ScanReplaced ==
  ASSUME TypeOK, NEW r \in Reconcilers
  PROVE  /\ \A w \in Scans : [recon EXCEPT ![r] = w] \in [Reconcilers -> Scans]
         /\ \A p \in {"idle", "scan", "locked", "unrecorded", "freed", "clear"} :
               [recon EXCEPT ![r].at = p] \in [Reconcilers -> Scans]
         /\ Away \in Scans
         /\ \A c :
               /\ [recon EXCEPT ![r].left = @ \ {c}] \in [Reconcilers -> Scans]
               /\ [recon EXCEPT ![r].at = "scan", ![r].cmd = None, ![r].left = @ \ {c}]
                     \in [Reconcilers -> Scans]
         /\ \A c \in Commands :
               [recon EXCEPT ![r].at = "locked", ![r].cmd = c] \in [Reconcilers -> Scans]
<1>1. recon[r] \in Scans /\ recon \in [Reconcilers -> Scans]
  BY DEF TypeOK
<1>2. Away \in Scans
  BY DEF Away, Scans
<1>3. \A w \in Scans : [recon EXCEPT ![r] = w] \in [Reconcilers -> Scans]
  BY <1>1, Replaced, Zenon
<1>4. ASSUME NEW c
      PROVE  /\ [recon EXCEPT ![r].left = @ \ {c}] \in [Reconcilers -> Scans]
             /\ [recon EXCEPT ![r].at = "scan", ![r].cmd = None, ![r].left = @ \ {c}]
                   \in [Reconcilers -> Scans]
  <2>1. recon[r].left \ {c} \in SUBSET Commands
    BY <1>1 DEF Scans
  <2>2. [recon[r] EXCEPT !.left = recon[r].left \ {c}] \in Scans
    BY <1>1, <2>1, ScanFields, Zenon
  <2>3. [recon[r] EXCEPT !.at = "scan", !.cmd = None, !.left = recon[r].left \ {c}] \in Scans
    BY <1>1, <2>1 DEF Scans
  <2>4. [recon EXCEPT ![r].left = @ \ {c}]
          = [recon EXCEPT ![r] = [recon[r] EXCEPT !.left = recon[r].left \ {c}]]
    BY <1>1
  <2>5. [recon EXCEPT ![r].at = "scan", ![r].cmd = None, ![r].left = @ \ {c}]
          = [recon EXCEPT ![r] = [recon[r] EXCEPT !.at = "scan", !.cmd = None,
                                                  !.left = recon[r].left \ {c}]]
    BY <1>1
  <2> QED BY <1>3, <2>2, <2>3, <2>4, <2>5, Zenon
<1>6. ASSUME NEW c \in Commands
      PROVE  [recon EXCEPT ![r].at = "locked", ![r].cmd = c] \in [Reconcilers -> Scans]
  <2>1. [recon[r] EXCEPT !.at = "locked", !.cmd = c] \in Scans
    BY <1>1 DEF Scans
  <2>2. [recon EXCEPT ![r].at = "locked", ![r].cmd = c]
          = [recon EXCEPT ![r] = [recon[r] EXCEPT !.at = "locked", !.cmd = c]]
    BY <1>1
  <2> QED BY <1>3, <2>1, <2>2, Zenon
<1>5. \A p \in {"idle", "scan", "locked", "unrecorded", "freed", "clear"} :
         [recon EXCEPT ![r].at = p] \in [Reconcilers -> Scans]
  BY <1>1, <1>3, ScanFields, Zenon
<1> QED BY <1>2, <1>3, <1>4, <1>5, <1>6

LEMMA ScanTypes == ASSUME TypeOK, NEW r \in Reconcilers, Reconcile(r) PROVE TypeOK'
<1>1. ASSUME Busy(r) PROVE recon' \in [Reconcilers -> Scans] /\ gate' \in Reconcilers \cup {None, Job}
  BY <1>1, ScanReplaced, Zenon DEF Busy, TypeOK
<1>2. ASSUME At(r, "unrecorded") \/ At(r, "freed") \/ At(r, "clear")
      PROVE  recon' \in [Reconcilers -> Scans] /\ gate' \in Reconcilers \cup {None, Job}
  <2>1. /\ [recon EXCEPT ![r].at = "unrecorded"] \in [Reconcilers -> Scans]
        /\ [recon EXCEPT ![r].at = "freed"] \in [Reconcilers -> Scans]
        /\ [recon EXCEPT ![r].at = "clear"] \in [Reconcilers -> Scans]
    BY ScanReplaced, Zenon
  <2> QED BY <1>2, <2>1, Zenon DEF At, TypeOK
<1>3. ASSUME NEW gated \in BOOLEAN, BeginScan(r, gated) PROVE TypeOK'
  <2>1. [at |-> "scan", cmd |-> None, gated |-> gated, left |-> {c \in Commands : file[c].lock}] \in Scans
    BY DEF Scans
  <2>2. recon' \in [Reconcilers -> Scans] /\ gate' \in Reconcilers \cup {None, Job}
    BY <1>3, <2>1, ScanReplaced, Zenon DEF BeginScan, TypeOK
  <2> QED BY <1>3, <2>2, MishapCounts, Zenon DEF BeginScan, TypeOK
<1>4. CASE Lease(r)
  <2>1. mishaps' \in 0 .. MaxMishaps
    BY <1>4, MishapCounts, Zenon DEF Lease
  <2>2. recon[r].left \subseteq Commands
    BY DEF TypeOK, Scans
  <2>3. recon' \in [Reconcilers -> Scans] /\ gate' \in Reconcilers \cup {None, Job}
    <3>1. \A c : [recon EXCEPT ![r].left = @ \ {c}] \in [Reconcilers -> Scans]
      BY ScanReplaced, Zenon
    <3>2. \A c \in Commands : [recon EXCEPT ![r].at = "locked", ![r].cmd = c] \in [Reconcilers -> Scans]
      BY ScanReplaced, Zenon
    <3>3. gate \in Reconcilers \cup {None, Job}
      BY DEF TypeOK
    <3>4. PICK c \in recon[r].left :
             \/ recon' = [recon EXCEPT ![r].left = @ \ {c}] /\ UNCHANGED gate
             \/ Busy(r)
             \/ recon' = [recon EXCEPT ![r].at = "locked", ![r].cmd = c] /\ UNCHANGED gate
      BY <1>4, Zenon DEF Lease
    <3>5. c \in Commands
      BY <2>2, <3>4
    <3>6. /\ [recon EXCEPT ![r].left = @ \ {c}] \in [Reconcilers -> Scans]
          /\ [recon EXCEPT ![r].at = "locked", ![r].cmd = c] \in [Reconcilers -> Scans]
      BY <3>1, <3>2, <3>5, Zenon
    <3> QED BY <1>1, <3>3, <3>4, <3>6, Zenon
  <2> QED BY <1>4, <2>1, <2>3, Zenon DEF Lease, TypeOK
<1>5. CASE Check(r) \/ DropPid(r) \/ DropLock(r)
  <2> DEFINE c == recon[r].cmd
  <2>1. mishaps' \in 0 .. MaxMishaps
    BY <1>5, MishapCounts, Zenon DEF Check, DropPid, DropLock
  <2>2. file' \in [Commands -> Files]
    <3>1. /\ [file EXCEPT ![c].rec = FALSE] \in [Commands -> Files]
          /\ [file EXCEPT ![c].pid = "none"] \in [Commands -> Files]
          /\ [file EXCEPT ![c].lock = FALSE] \in [Commands -> Files]
      BY FileReplaced, Zenon DEF TypeOK
    <3>2. \/ file' = file
          \/ file' = [file EXCEPT ![c].rec = FALSE]
          \/ file' = [file EXCEPT ![c].pid = "none"]
          \/ file' = [file EXCEPT ![c].lock = FALSE]
      <4>1. CASE Check(r)
        BY <4>1, Zenon DEF Check
      <4>2. CASE DropPid(r) \/ DropLock(r)
        BY <4>2, Zenon DEF DropPid, DropLock
      <4> QED BY <1>5, <4>1, <4>2
    <3>3. file \in [Commands -> Files]
      BY DEF TypeOK
    <3> HIDE DEF c
    <3> QED BY <3>1, <3>2, <3>3, Zenon
  <2>3. recon' \in [Reconcilers -> Scans] /\ gate' \in Reconcilers \cup {None, Job}
    <3>1. [recon EXCEPT ![r].at = "scan", ![r].cmd = None, ![r].left = @ \ {c}]
             \in [Reconcilers -> Scans]
      BY ScanReplaced, Zenon
    <3>2. \/ Busy(r) \/ At(r, "unrecorded") \/ At(r, "freed")
          \/ /\ gate' = gate
             /\ recon' = [recon EXCEPT ![r].at = "scan", ![r].cmd = None, ![r].left = @ \ {c}]
      BY <1>5, Zenon DEF Check, DropPid, DropLock
    <3>3. gate \in Reconcilers \cup {None, Job}
      BY DEF TypeOK
    <3> HIDE DEF c
    <3> QED BY <1>1, <1>2, <3>1, <3>2, <3>3, Zenon
  <2> QED BY <1>5, <2>1, <2>2, <2>3, Zenon DEF Check, DropPid, DropLock, TypeOK
<1>6. CASE ScanEnds(r)
  <2>1. recon' \in [Reconcilers -> Scans] /\ gate' \in Reconcilers \cup {None, Job}
    <3>1. Away \in Scans
      BY DEF Away, Scans
    <3>2. [recon EXCEPT ![r] = Away] \in [Reconcilers -> Scans]
      BY <3>1, ScanReplaced, Zenon
    <3>3. gate \in Reconcilers \cup {None, Job}
      BY DEF TypeOK
    <3>4. At(r, "clear") \/ (recon' = [recon EXCEPT ![r] = Away] /\ UNCHANGED gate)
      BY <1>6, Zenon DEF ScanEnds
    <3> QED BY <1>2, <3>2, <3>3, <3>4, Zenon
  <2> QED BY <1>6, <2>1, MishapCounts, Zenon DEF ScanEnds, TypeOK
<1>7. CASE Settle(r) \/ LeaveGate(r) \/ BeginInstall(r)
  <2>1. mishaps' \in 0 .. MaxMishaps
    BY <1>7, MishapCounts, Zenon DEF Settle, LeaveGate, BeginInstall
  <2>2. recon' \in [Reconcilers -> Scans] /\ gate' \in Reconcilers \cup {None, Job}
    <3>1. Away \in Scans
      BY DEF Away, Scans
    <3>2. [recon EXCEPT ![r] = Away] \in [Reconcilers -> Scans]
      BY <3>1, ScanReplaced, Zenon
    <3>3. \/ Busy(r) \/ UNCHANGED <<gate, recon>>
          \/ recon' = [recon EXCEPT ![r] = Away] /\ (gate' = Job \/ gate' = None)
      BY <1>7, Zenon DEF Settle, LeaveGate, BeginInstall
    <3>4. recon \in [Reconcilers -> Scans] /\ gate \in Reconcilers \cup {None, Job}
      BY DEF TypeOK
    <3>5. Job \in Reconcilers \cup {None, Job} /\ None \in Reconcilers \cup {None, Job}
      OBVIOUS
    <3> QED BY <1>1, <3>2, <3>3, <3>4, <3>5, Zenon
  <2>3. /\ UNCHANGED <<up, begun, kind, owner, file, proc>> /\ candidate' \in BOOLEAN
        /\ job' \in {"none", "next", "await", "ended"} /\ op' \in {"clean", "open", "unclean"}
    BY <1>7, Zenon DEF Settle, LeaveGate, BeginInstall, TypeOK
  <2> QED BY <2>1, <2>2, <2>3, Zenon DEF TypeOK
<1> QED BY <1>3, <1>4, <1>5, <1>6, <1>7, Zenon DEF Reconcile

LEMMA InstallTypes ==
  ASSUME TypeOK, CleanUp \/ NextCommand \/ CommandReturns \/ EndInstall \/ ListTags \/ Crash \/ Boot
  PROVE  TypeOK'
<1>1. {"opened", "done", "lost"} \subseteq Owners
  BY DEF Owners, Gone
<1>2. ASSUME NEW c \in Commands, NEW what \in {"install", "tags"}, Open(c, what)
      PROVE  /\ begun' \in 0 .. MaxCommands /\ kind' \in [Commands -> {"none", "install", "tags"}]
             /\ owner' \in [Commands -> Owners] /\ file' \in [Commands -> Files]
             /\ mishaps' \in 0 .. MaxMishaps
  <2>1. begun' \in 0 .. MaxCommands
    BY <1>2, Kinds, SMT DEF Open, Commands
  <2>2. kind' \in [Commands -> {"none", "install", "tags"}]
    BY <1>2, Zenon DEF Open, TypeOK
  <2>3. owner' \in [Commands -> Owners]
    BY <1>1, <1>2, Replaced, Zenon DEF Open, Goto, TypeOK
  <2>4. file' \in [Commands -> Files]
    <3>1. [file EXCEPT ![c].lock = TRUE] \in [Commands -> Files]
      BY FileReplaced, Zenon DEF TypeOK
    <3> QED BY <1>2, <3>1, Zenon DEF Open, TypeOK
  <2>5. mishaps' \in 0 .. MaxMishaps
    BY <1>2, MishapCounts, Zenon DEF Open
  <2> QED BY <2>1, <2>2, <2>3, <2>4, <2>5
<1>3. CASE NextCommand
  <2>1. candidate' \in BOOLEAN
    BY <1>3 DEF NextCommand, TypeOK
  <2> QED BY <1>2, <1>3, <2>1, Zenon DEF NextCommand, TypeOK
<1>4. CASE ListTags
  BY <1>2, <1>4, Zenon DEF ListTags, TypeOK
<1>5. CASE CleanUp \/ CommandReturns \/ EndInstall
  <2>1. mishaps' \in 0 .. MaxMishaps
    BY <1>5, MishapCounts, Zenon DEF CleanUp, CommandReturns, EndInstall
  <2>2. /\ candidate' \in BOOLEAN /\ gate' \in Reconcilers \cup {None, Job}
        /\ job' \in {"none", "next", "await", "ended"} /\ op' \in {"clean", "open", "unclean"}
    BY <1>5 DEF CleanUp, CommandReturns, EndInstall, TypeOK
  <2>3. UNCHANGED <<up, begun, kind, owner, file, proc, recon>>
    BY <1>5, Zenon DEF CleanUp, CommandReturns, EndInstall
  <2> QED BY <2>1, <2>2, <2>3, Zenon DEF TypeOK
<1>6. CASE Crash
  <2>1. mishaps' \in 0 .. MaxMishaps
    BY <1>6, MishapCounts, Zenon DEF Crash
  <2>2. owner' \in [Commands -> Owners]
    BY <1>1, <1>6 DEF Crash, TypeOK
  <2>3. Away \in Scans
    BY DEF Away, Scans
  <2>4. recon' \in [Reconcilers -> Scans]
    BY <1>6, <2>3 DEF Crash
  <2> QED BY <1>6, <2>1, <2>2, <2>4, Zenon DEF Crash, TypeOK
<1>7. CASE Boot
  BY <1>7, Zenon DEF Boot, Smooth, TypeOK, agent
<1> QED BY <1>3, <1>4, <1>5, <1>6, <1>7

\* The owners of commands, the files in the directory of owned processes, the
\* processes themselves, the requests that reconcile them and the installation
\* are always in one of their places.
THEOREM TypeCorrect == Spec => []TypeOK
<1>1. TypeOK /\ [Next]_vars => TypeOK'
  <2>1. TypeOK /\ UNCHANGED vars => TypeOK'
    BY DEF TypeOK, vars, agent
  <2>2. ASSUME TypeOK, Next PROVE TypeOK'
    BY <2>2, OwnTypes, ProcessTypes, ScanTypes, InstallTypes, Zenon DEF Next
  <2> QED BY <2>1, <2>2
<1> QED BY <1>1, InitTypes, PTL DEF Spec

-------------------------------------------------------------------------------
(* What is founded stays founded: initially, and by a step of an owner or  *)
(* of a process.                                                           *)

\* The last command of an installation is the one no other comes after.
LEMMA LatestOf ==
  ASSUME NEW k, NEW c \in Commands, k[c] = "install",
         \A d \in Commands : k[d] = "install" => d <= c
  PROVE  (CHOOSE e \in Commands :
             k[e] = "install" /\ \A d \in Commands : k[d] = "install" => d <= e) = c
<1> DEFINE P(e) == k[e] = "install" /\ \A d \in Commands : k[d] = "install" => d <= e
<1>1. P(c)
  OBVIOUS
<1>2. \A e \in Commands : P(e) => e = c
  BY Kinds, SMT DEF Commands
<1> HIDE DEF P
<1>3. (CHOOSE e \in Commands : P(e)) = c
  BY <1>1, <1>2, Zenon
<1> QED BY <1>3, Zenon DEF P

\* What is not touched stays as it is.
LEMMA Apart ==
  ASSUME NEW d \in Commands, owner'[d] = owner[d], proc'[d] = proc[d], file'[d] = file[d],
         kind' = kind, begun' = begun
  PROVE  /\ Live(d)' = Live(d) /\ Leased(d)' = Leased(d)
         /\ CommandFits(d)' = CommandFits(d)
  BY DEF Live, LeaderLives, Leased, CommandFits

LEMMA InitFounded == Init => Founded
<1> SUFFICES ASSUME Init PROVE Founded
  OBVIOUS
<1>1. \A c \in Commands : ~Live(c)
  BY DEF Init, Live, LeaderLives, PreExec
<1>2. \A c \in Commands : CommandFits(c)
  BY <1>1, SMT DEF Init, CommandFits, Unspawned, Proved, Holding
<1>3. \A r \in Reconcilers : ScanFits(r)
  BY SMT DEF Init, ScanFits, Away
<1>4. InstallFits /\ RecordsNameGroups /\ OneWriter
  BY <1>1, SMT DEF Init, InstallFits, RecordsNameGroups, OneWriter, Quiet, Away
<1> QED BY <1>2, <1>3, <1>4, Zenon DEF Founded

\* A step of the owner or of a process of a command: what it must keep of that
\* command. A process appears only while the command has its owner.
LEMMA StepOf ==
  ASSUME TypeOK, Founded, NEW c \in Commands,
         UNCHANGED <<gate, job, op, begun, kind, recon>>,
         \A d \in Commands \ {c} :
            owner'[d] = owner[d] /\ file'[d] = file[d] /\ proc'[d] = proc[d],
         CommandFits(c)', file'[c].rec => file'[c].pid # "none",
         owner'[c] \notin Gone => owner[c] \notin Gone,
         Live(c)' => Live(c) \/ owner[c] \notin Gone,
         owner[c] \in {"released"} \cup Gone =>
            /\ owner'[c] \in {"released"} \cup Gone
            /\ file'[c].rec => file[c].rec
            /\ Live(c)' => Live(c)
            /\ Leased(c)' => Leased(c)
  PROVE  Founded'
<1>1. \A d \in Commands : CommandFits(d)'
  BY Apart, Zenon DEF Founded
<1>2. \A d \in Commands \ {c} : Live(d)' = Live(d) /\ Leased(d)' = Leased(d)
  BY Apart, Zenon
<1>3. RecordsNameGroups'
  BY DEF Founded, RecordsNameGroups
<1>4. Latest' = Latest
  BY DEF Latest
<1>5. Job \notin Reconcilers
  BY Kinds
<1>6. ASSUME kind[c] = "install", Live(c)', ~Live(c)
      PROVE  job = "await" /\ c = Latest /\ gate = Job /\ op = "open"
  BY <1>6, Zenon DEF Founded, InstallFits
<1>7. OneWriter'
  BY <1>2, <1>6, SMT DEF Founded, OneWriter, InstallFits
<1>8. ASSUME NEW r \in Reconcilers PROVE ScanFits(r)'
  <2>1. ScanFits(r)
    BY Zenon DEF Founded
  <2>2. CASE recon[r].cmd = c
    BY <1>8, <2>1, <2>2, SMT DEF ScanFits
  <2>3. CASE recon[r].cmd # c
    BY <1>2, <2>1, <2>3, SMT DEF ScanFits
  <2> QED BY <2>2, <2>3
<1>9. InstallFits'
  <2>1. LatestStarted' = LatestStarted
    BY <1>4 DEF LatestStarted
  <2>2. \A r \in Reconcilers : ScanFits(r)
    BY Zenon DEF Founded
  <2>3. Quiet /\ ~(kind[c] = "install" /\ Live(c)' /\ ~Live(c)) => Quiet'
    BY <1>2, SMT DEF Quiet
  <2> QED
    BY <1>2, <1>4, <1>5, <1>6, <2>1, <2>2, <2>3, SMT DEF Founded, InstallFits, ScanFits
<1> QED BY <1>1, <1>3, <1>7, <1>8, <1>9, Zenon DEF Founded

\* A step of an owner that writes a file.
LEMMA WriteKeeps ==
  ASSUME TypeOK, Founded, NEW c \in Commands, NEW from, NEW to, NEW written \in Files,
         Write(c, from, to, written), from \notin Gone,
         owner[c] = from /\ owner'[c] = to /\ file'[c] = written /\ proc'[c] = proc[c] =>
            /\ CommandFits(c)' /\ (written.rec => written.pid # "none")
            /\ from = "released" => to \in {"released"} \cup Gone /\ (written.rec => file[c].rec),
         owner[c] = from /\ owner'[c] = "done" /\ file'[c] = file[c] /\ proc'[c] = proc[c] =>
            CommandFits(c)'
  PROVE  Founded'
<1>1. owner \in [Commands -> Owners] /\ file \in [Commands -> Files]
  BY DEF TypeOK
<1>2. UNCHANGED <<gate, job, op, begun, kind, recon, proc>> /\ owner[c] = from
  BY Zenon DEF Write, agent
<1>3. Live(c)' = Live(c)
  BY <1>2 DEF Live, LeaderLives
<1>4. \/ owner' = [owner EXCEPT ![c] = to] /\ file' = [file EXCEPT ![c] = written]
      \/ owner' = [owner EXCEPT ![c] = "done"] /\ file' = file
  BY Zenon DEF Write, Goto
<1>5. \A d \in Commands \ {c} :
         owner'[d] = owner[d] /\ file'[d] = file[d] /\ proc'[d] = proc[d]
  BY <1>1, <1>2, <1>4
<1>6. \/ owner'[c] = to /\ file'[c] = written
      \/ owner'[c] = "done" /\ file'[c] = file[c]
  BY <1>1, <1>4
<1>7. "done" \in Gone /\ ("done" \notin Holding)
  BY DEF Gone, Holding
<1>8. CommandFits(c)' /\ (file'[c].rec => file'[c].pid # "none")
  BY <1>2, <1>6 DEF Founded, RecordsNameGroups
<1>9. from = "released" => (Leased(c)' => Leased(c))
  BY <1>2, <1>6, <1>7, SMT DEF Leased, Holding, Gone
<1>10. from = "released" =>
          owner'[c] \in {"released"} \cup Gone /\ (file'[c].rec => file[c].rec)
  BY <1>2, <1>6, <1>7
<1> QED
  BY <1>2, <1>3, <1>5, <1>8, <1>9, <1>10, StepOf, Zenon

LEMMA OwnKeeps ==
  ASSUME TypeOK, Founded, NEW c \in Commands, Own(c) PROVE Founded'
<1>1. /\ owner \in [Commands -> Owners] /\ file[c] \in Files /\ proc[c] \in Processes
      /\ proc \in [Commands -> Processes]
  BY DEF TypeOK
<1>2. CommandFits(c) /\ (file[c].rec => file[c].pid # "none")
  BY Zenon DEF Founded, RecordsNameGroups
<1>3. begun' = begun /\ kind' = kind /\ (proc'[c] = proc[c] => Live(c)' = Live(c))
  <2>1. UNCHANGED <<begun, kind>>
    BY Zenon
    DEF Own, TryLock, WriteGroup, WriteRecord, Spawn, SpawnReturns, StopWatching, Prove, GiveUp,
        Erase, ErasePid, Unlink, Write, agent
  <2> QED BY <2>1 DEF Live, LeaderLives
<1> DEFINE
      group == [file[c] EXCEPT !.pid = "zero"]
      recorded == [file[c] EXCEPT !.rec = TRUE]
      unrecorded == [file[c] EXCEPT !.rec = FALSE]
      nameless == [file[c] EXCEPT !.pid = "none"]
      unlocked == [file[c] EXCEPT !.lock = FALSE]
<1>4. group \in Files /\ recorded \in Files /\ unrecorded \in Files /\ nameless \in Files /\ unlocked \in Files
  BY <1>1, FileFields, Zenon
<1>5. CASE WriteGroup(c)
  BY <1>1, <1>2, <1>3, <1>4, <1>5, WriteKeeps, SMT
  DEF WriteGroup, CommandFits, Unspawned, Proved, Holding, Gone, Files
<1>6. CASE WriteRecord(c)
  BY <1>1, <1>2, <1>3, <1>4, <1>6, WriteKeeps, SMT
  DEF WriteRecord, CommandFits, Unspawned, Proved, Holding, Gone, Files
<1>7. CASE Erase(c)
  BY <1>1, <1>2, <1>3, <1>4, <1>7, WriteKeeps, SMT
  DEF Erase, CommandFits, Unspawned, Proved, Holding, Gone, Files
<1>8. CASE ErasePid(c)
  BY <1>1, <1>2, <1>3, <1>4, <1>8, WriteKeeps, SMT
  DEF ErasePid, CommandFits, Unspawned, Proved, Holding, Gone, Files
<1>9. CASE Unlink(c)
  BY <1>1, <1>2, <1>3, <1>4, <1>9, WriteKeeps, SMT
  DEF Unlink, CommandFits, Unspawned, Proved, Holding, Gone, Files
<1>10. CASE TryLock(c) \/ SpawnReturns(c) \/ Prove(c) \/ GiveUp(c)
  <2>1. UNCHANGED <<gate, job, op, recon, file, proc>>
    BY <1>10, Zenon DEF TryLock, SpawnReturns, Prove, GiveUp, agent
  <2>2. \E w : owner' = [owner EXCEPT ![c] = w]
    BY <1>10, Zenon DEF TryLock, SpawnReturns, Prove, GiveUp, Goto
  <2>3. \A d \in Commands \ {c} :
           owner'[d] = owner[d] /\ file'[d] = file[d] /\ proc'[d] = proc[d]
    BY <1>1, <2>1, <2>2
  <2>4. owner[c] \notin Gone \cup {"released"}
    BY <1>10 DEF TryLock, SpawnReturns, Prove, GiveUp, Gone
  <2>5. CASE TryLock(c)
    <3>1. \A r \in Reconcilers : ~Holds(r, c)
      BY <2>5 DEF Founded, ScanFits, Holds, TryLock, Gone
    <3>2. owner[c] = "opened" /\ owner'[c] = "leased"
      BY <1>1, <2>5, <3>1 DEF TryLock, Goto
    <3>3. CommandFits(c)'
      BY <1>2, <1>3, <2>1, <3>2, SMT DEF CommandFits, Unspawned, Proved, Holding
    <3> QED BY <1>2, <1>3, <2>1, <2>3, <2>4, <3>3, StepOf, Zenon
  <2>6. CASE SpawnReturns(c)
    <3>1. \/ owner'[c] = "watching"
          \/ owner'[c] = "draining" /\ proc[c].leader = "ended"
      BY <1>1, <2>6 DEF SpawnReturns, Goto
    <3>2. owner[c] = "spawning"
      BY <2>6 DEF SpawnReturns
    <3>3. CommandFits(c)'
      BY <1>2, <1>3, <2>1, <3>1, <3>2, SMT DEF CommandFits, Unspawned, Proved, Holding
    <3> QED BY <1>2, <1>3, <2>1, <2>3, <2>4, <3>3, StepOf, Zenon
  <2>7. CASE Prove(c)
    <3>1. owner'[c] = "proved" /\ owner[c] \in {"killing", "draining"}
      BY <1>1, <2>7 DEF Prove, Goto
    <3>2. ~Live(c)
      BY <1>2, <2>7 DEF Prove, Quiescent, GroupIsEmpty, CommandFits
    <3>3. CommandFits(c)'
      BY <1>2, <1>3, <2>1, <3>1, <3>2, SMT DEF CommandFits, Unspawned, Proved, Holding
    <3> QED BY <1>2, <1>3, <2>1, <2>3, <2>4, <3>3, StepOf, Zenon
  <2>8. CASE GiveUp(c)
    <3>1. owner'[c] = "unproved" /\ owner[c] \in {"killing", "draining"}
      BY <1>1, <2>8 DEF GiveUp, Goto
    <3>2. CommandFits(c)'
      BY <1>2, <1>3, <2>1, <3>1, SMT DEF CommandFits, Unspawned, Proved, Holding
    <3> QED BY <1>2, <1>3, <2>1, <2>3, <2>4, <3>2, StepOf, Zenon
  <2> QED BY <1>10, <2>5, <2>6, <2>7, <2>8
<1>11. CASE Spawn(c)
  <2>1. UNCHANGED <<gate, job, op, recon, file>>
    BY <1>11, Zenon DEF Spawn, agent
  <2>2. owner[c] = "recorded" /\ ~Live(c) /\ owner[c] \notin Gone \cup {"released"}
    BY <1>2, <1>11 DEF Spawn, CommandFits, Unspawned, Gone
  <2>3. \/ owner' = [owner EXCEPT ![c] = "spawning"] /\ proc' = [proc EXCEPT ![c].leader = "forked"]
        \/ owner' = [owner EXCEPT ![c] = "draining"] /\ proc' = proc
    BY <1>11, Zenon DEF Spawn, Goto
  <2>4. \A d \in Commands \ {c} :
           owner'[d] = owner[d] /\ file'[d] = file[d] /\ proc'[d] = proc[d]
    BY <1>1, <2>1, <2>3
  <2>5. \/ /\ owner'[c] = "spawning" /\ proc'[c].leader = "forked"
           /\ proc'[c].guardian = proc[c].guardian /\ proc'[c].others = proc[c].others
        \/ owner'[c] = "draining" /\ proc'[c] = proc[c]
    BY <1>1, <2>3 DEF Processes
  <2>6. CommandFits(c)'
    BY <1>2, <1>3, <2>1, <2>2, <2>5, SMT
    DEF CommandFits, Unspawned, Proved, Holding, Live, LeaderLives, PreExec
  <2> QED BY <1>2, <1>3, <2>1, <2>2, <2>4, <2>6, StepOf, Zenon
<1>12. CASE StopWatching(c)
  <2>1. UNCHANGED <<gate, job, op, recon, file>>
    BY <1>12, Zenon DEF StopWatching, agent
  <2>2. owner[c] = "watching" /\ owner[c] \notin Gone \cup {"released"}
    BY <1>12 DEF StopWatching, Gone
  <2>3. owner' = [owner EXCEPT ![c] = "killing"] /\ proc' = [proc EXCEPT ![c].doomed = TRUE]
    BY <1>12, Zenon DEF StopWatching, Goto
  <2>4. \A d \in Commands \ {c} :
           owner'[d] = owner[d] /\ file'[d] = file[d] /\ proc'[d] = proc[d]
    BY <1>1, <2>1, <2>3
  <2>5. /\ owner'[c] = "killing" /\ proc'[c].leader = proc[c].leader
        /\ proc'[c].guardian = proc[c].guardian /\ proc'[c].others = proc[c].others
    BY <1>1, <2>3 DEF Processes
  <2>6. Live(c)' = Live(c)
    BY <2>5 DEF Live, LeaderLives
  <2>7. CommandFits(c)'
    BY <1>2, <1>3, <2>1, <2>2, <2>5, <2>6, SMT DEF CommandFits, Unspawned, Proved, Holding
  <2> QED BY <1>2, <1>3, <2>1, <2>2, <2>4, <2>6, <2>7, StepOf, Zenon
<1> QED BY <1>5, <1>6, <1>7, <1>8, <1>9, <1>10, <1>11, <1>12, Zenon DEF Own

LEMMA RunKeeps ==
  ASSUME TypeOK, Founded, NEW c \in Commands, Run(c) \/ CommandWorks(c) \/ GuardianKilled(c)
  PROVE  Founded'
<1>1. /\ owner \in [Commands -> Owners] /\ file[c] \in Files /\ proc[c] \in Processes
      /\ proc \in [Commands -> Processes] /\ file \in [Commands -> Files]
  BY DEF TypeOK
<1>2. CommandFits(c) /\ (file[c].rec => file[c].pid # "none")
  BY Zenon DEF Founded, RecordsNameGroups
<1>3. UNCHANGED <<gate, job, op, begun, kind, recon, owner>>
  BY Zenon
  DEF Run, JoinGroup, ForkGuardian, Exec, GuardianKills, ProcessEnds, CommandWorks, GuardianKilled,
      Child, agent
\* What becomes of the process group and of its file.
<1>4. /\ \A d \in Commands \ {c} :
            owner'[d] = owner[d] /\ file'[d] = file[d] /\ proc'[d] = proc[d]
      /\ Live(c)' => Live(c)
      /\ Leased(c)' => Leased(c)
      /\ file'[c].rec = file[c].rec /\ file'[c].lock = file[c].lock
      /\ \/ file'[c] = file[c]
         \/ Live(c) /\ file'[c].pid = "group"
      /\ Live(c)' => file'[c].pid = "group" \/ (file'[c].pid = file[c].pid /\ proc'[c].leader = "forked"
             /\ proc'[c].guardian # "watching" /\ ~proc'[c].others)
      /\ proc'[c].leader = "forked" => proc[c].leader = "forked"
  <2>1. CASE JoinGroup(c)
    <3>1. /\ proc[c].leader = "forked"
          /\ \/ /\ proc' = [proc EXCEPT ![c] = [proc[c] EXCEPT !.leader = "grouped"]]
                /\ file' = [file EXCEPT ![c].pid = "group"]
             \/ /\ proc' = [proc EXCEPT ![c] = [proc[c] EXCEPT !.leader = "ended"]]
                /\ file' = file
      BY <2>1, Zenon DEF JoinGroup, Child
    <3> QED
      BY <1>1, <1>2, <1>3, <3>1, SMT
      DEF Live, LeaderLives, Leased, CommandFits, PreExec, Processes, Files
  <2>2. CASE ForkGuardian(c) \/ Exec(c)
    <3>1. /\ proc[c].leader \in {"grouped", "guarded"} /\ file' = file
          /\ \/ /\ proc[c].leader = "grouped"
                /\ proc' = [proc EXCEPT ![c] = [proc[c] EXCEPT !.leader = "guarded", !.guardian = "watching"]]
             \/ proc' = [proc EXCEPT ![c] = [proc[c] EXCEPT !.leader = "ended"]]
             \/ /\ proc[c].leader = "guarded"
                /\ proc' = [proc EXCEPT ![c] = [proc[c] EXCEPT !.leader = "running"]]
      BY <2>2, Zenon DEF ForkGuardian, Exec, Child
    <3>2. /\ \A d \in Commands \ {c} : proc'[d] = proc[d]
          /\ proc'[c].leader \in {"guarded", "ended", "running"} /\ proc'[c].others = proc[c].others
          /\ proc'[c].guardian = proc[c].guardian \/ proc[c].leader = "grouped"
      <4>1. \A d \in Commands \ {c} : proc'[d] = proc[d]
        BY <1>1, <3>1
      <4>2. \/ /\ proc[c].leader = "grouped"
               /\ proc'[c] = [proc[c] EXCEPT !.leader = "guarded", !.guardian = "watching"]
            \/ proc'[c] = [proc[c] EXCEPT !.leader = "ended"]
            \/ proc'[c] = [proc[c] EXCEPT !.leader = "running"]
        BY <1>1, <3>1
      <4> HIDE <1>2, <3>1
      <4> QED BY <1>1, <4>1, <4>2 DEF Processes
    <3>3. Live(c) /\ Leased(c) /\ file[c].pid = "group"
      BY <1>2, <3>1 DEF Live, LeaderLives, Leased, PreExec, CommandFits
    <3> QED BY <1>3, <3>1, <3>2, <3>3
  <2>3. CASE GuardianKills(c) \/ ProcessEnds(c) \/ CommandWorks(c) \/ GuardianKilled(c)
    <3>1. /\ file' = file
          /\ \/ proc' = proc
             \/ proc' = [proc EXCEPT ![c].doomed = TRUE]
             \/ proc' = [proc EXCEPT ![c].leader = "ended"]
             \/ proc' = [proc EXCEPT ![c].others = FALSE]
             \/ /\ proc[c].leader = "running" \/ proc[c].others
                /\ proc' = [proc EXCEPT ![c].others = TRUE]
             \/ proc' = [proc EXCEPT ![c].guardian = "ended"]
             \/ proc' = [proc EXCEPT ![c].guardian = "killed"]
      BY <2>3, Zenon DEF GuardianKills, ProcessEnds, CommandWorks, GuardianKilled
    <3> QED
      BY <1>1, <1>2, <1>3, <3>1, SMT
      DEF Live, LeaderLives, Leased, CommandFits, PreExec, Processes, Files
  <2> QED BY <2>1, <2>2, <2>3, Zenon DEF Run
<1>5. CommandFits(c)'
  BY <1>2, <1>3, <1>4, SMT DEF CommandFits, Unspawned
<1>6. file'[c].rec => file'[c].pid # "none"
  BY <1>2, <1>4
<1> QED BY <1>3, <1>4, <1>5, <1>6, StepOf, Zenon

-------------------------------------------------------------------------------
(* Requests in the directory.                                              *)

\* A request loses its way, or goes on: what it and the others are afterwards.
LEMMA BusyFields ==
  ASSUME TypeOK, NEW r \in Reconcilers, Busy(r)
  PROVE  /\ recon'[r] = Away /\ \A s \in Reconcilers \ {r} : recon'[s] = recon[s]
         /\ gate' = IF recon[r].gated THEN None ELSE gate
  BY DEF Busy, TypeOK
LEMMA AtFields ==
  ASSUME TypeOK, NEW r \in Reconcilers, NEW p, At(r, p)
  PROVE  /\ recon'[r].at = p /\ recon'[r].cmd = recon[r].cmd
         /\ recon'[r].left = recon[r].left /\ recon'[r].gated = recon[r].gated
         /\ \A s \in Reconcilers \ {r} : recon'[s] = recon[s]
         /\ gate' = gate
  BY DEF At, TypeOK, Scans

\* What a request does in the directory touches the files of a command only
\* that is over.
LEMMA FilesOfDead ==
  ASSUME TypeOK, Founded, UNCHANGED <<begun, kind, owner, proc>>,
         \A c \in Commands :
            \/ file'[c] = file[c]
            \/ /\ owner[c] \in {"released"} \cup Gone /\ ~Live(c)
               /\ file'[c].rec => file[c].rec /\ file'[c].pid # "none"
  PROVE  /\ \A c \in Commands : Live(c)' = Live(c) /\ Leased(c)' = Leased(c)
         /\ \A c \in Commands : file'[c].rec => file[c].rec
         /\ \A c \in Commands : CommandFits(c)'
         /\ RecordsNameGroups' /\ OneWriter'
         /\ Latest' = Latest /\ LatestStarted' = LatestStarted /\ Quiet' = Quiet
<1>1. \A c \in Commands : Live(c)' = Live(c) /\ Leased(c)' = Leased(c)
  BY DEF Live, LeaderLives, Leased
<1>2. ASSUME NEW c \in Commands PROVE CommandFits(c)'
  <2>1. CommandFits(c)
    BY Zenon DEF Founded
  <2>2. CASE file'[c] = file[c]
    BY <2>1, <2>2, Apart, Zenon
  <2>3. CASE file'[c] # file[c]
    BY <1>1, <2>1, <2>3, SMT DEF CommandFits, Unspawned, Proved, Holding, Gone
  <2> QED BY <2>2, <2>3
<1>3. RecordsNameGroups'
  BY DEF Founded, RecordsNameGroups
<1>4. OneWriter'
  BY <1>1 DEF Founded, OneWriter
<1>5. Latest' = Latest
  BY DEF Latest
<1>6. LatestStarted' = LatestStarted /\ Quiet' = Quiet
  BY <1>1, <1>5 DEF LatestStarted, Quiet
<1> QED BY <1>1, <1>2, <1>3, <1>4, <1>5, <1>6

\* A step in which nobody opens, leaves or starts a command.
LEMMA ScanKeeps ==
  ASSUME TypeOK, Founded, UNCHANGED <<begun, kind, owner, proc>>,
         \A c \in Commands :
            \/ file'[c] = file[c]
            \/ /\ owner[c] \in {"released"} \cup Gone /\ ~Live(c)
               /\ file'[c].rec => file[c].rec /\ file'[c].pid # "none",
         NEW r \in Reconcilers \cup {None},
         \A s \in Reconcilers \ {r} : recon'[s] = recon[s],
         gate' = gate \/ gate \notin Reconcilers \ {r},
         r \in Reconcilers =>
            /\ ScanFits(r)'
            /\ recon'[r].at = "clear" => Quiet
            /\ recon'[r].gated => \A c \in Commands :
                  kind[c] = "install" /\ Live(c) => c \in recon'[r].left,
         \/ UNCHANGED <<job, op>> /\ (gate' = gate \/ gate # Job)
         \/ /\ \A c \in Commands : kind[c] = "install" => owner[c] \in Gone
            /\ job' # "await" /\ (job' # "none" => gate' = Job /\ op' = "open")
            /\ job' \in {"next", "ended"} \/ op' # "open" => Quiet
  PROVE  Founded'
<1>1. /\ \A c \in Commands : Live(c)' = Live(c) /\ Leased(c)' = Leased(c)
      /\ \A c \in Commands : file'[c].rec => file[c].rec
      /\ \A c \in Commands : CommandFits(c)'
      /\ RecordsNameGroups' /\ OneWriter'
      /\ Latest' = Latest /\ LatestStarted' = LatestStarted /\ Quiet' = Quiet
  BY FilesOfDead, Zenon
<1>2. ASSUME NEW s \in Reconcilers PROVE ScanFits(s)'
  <2>1. ScanFits(s)
    BY Zenon DEF Founded
  <2>2. CASE s # r
    BY <1>1, <2>1, <2>2, SMT DEF ScanFits
  <2> QED BY <2>2
<1>3. \A s \in Reconcilers :
         /\ recon'[s].at = "clear" => Quiet
         /\ recon'[s].gated => \A c \in Commands :
               kind[c] = "install" /\ Live(c) => c \in recon'[s].left
  BY Zenon DEF Founded, InstallFits
<1>4. InstallFits'
  <2>1. CASE UNCHANGED <<job, op>> /\ (gate' = gate \/ gate # Job)
    BY <1>1, <1>3, <2>1, SMT DEF Founded, InstallFits
  <2>2. CASE /\ \A c \in Commands : kind[c] = "install" => owner[c] \in Gone
             /\ job' # "await" /\ (job' # "none" => gate' = Job /\ op' = "open")
             /\ job' \in {"next", "ended"} \/ op' # "open" => Quiet
    BY <1>1, <1>3, <2>2, SMT DEF InstallFits
  <2> QED BY <2>1, <2>2
<1> QED BY <1>1, <1>2, <1>4, Zenon DEF Founded

\* A request that gives up leaves the directory and the gate.
LEMMA BusyKeeps ==
  ASSUME TypeOK, Founded, NEW r \in Reconcilers, Busy(r),
         UNCHANGED <<job, begun, kind, owner, file, proc>>,
         op' = op \/ (recon[r].at = "clear" /\ op' = "unclean")
  PROVE  Founded'
<1>1. /\ recon'[r] = Away /\ \A s \in Reconcilers \ {r} : recon'[s] = recon[s]
      /\ gate' = IF recon[r].gated THEN None ELSE gate
  BY BusyFields
<1>2. ScanFits(r) /\ InstallFits
  BY Zenon DEF Founded
<1>3. Job \notin Reconcilers
  BY Kinds
<1>4. ScanFits(r)' /\ recon'[r].at # "clear" /\ ~recon'[r].gated
  BY <1>1, SMT DEF ScanFits, Away
<1>5. gate' = gate \/ gate = r
  BY <1>1, <1>2 DEF ScanFits
<1>6. recon[r].at = "clear" => Quiet /\ job = "none"
  BY <1>2, <1>3 DEF ScanFits, InstallFits
<1>7. \/ UNCHANGED <<job, op>> /\ (gate' = gate \/ gate # Job)
      \/ /\ \A c \in Commands : kind[c] = "install" => owner[c] \in Gone
         /\ job' # "await" /\ (job' # "none" => gate' = Job /\ op' = "open")
         /\ job' \in {"next", "ended"} \/ op' # "open" => Quiet
  BY <1>2, <1>3, <1>5, <1>6 DEF InstallFits
<1> QED BY <1>1, <1>4, <1>5, <1>7, ScanKeeps, Zenon

\* A request that goes on with the command whose lease it has.
LEMMA LeaseholderKeeps ==
  ASSUME TypeOK, Founded, NEW r \in Reconcilers, Check(r) \/ DropPid(r) \/ DropLock(r)
  PROVE  Founded'
<1>0. PICK c \in Commands : c = recon[r].cmd
  BY Zenon DEF Founded, ScanFits, Check, DropPid, DropLock
<1>1. /\ owner[c] \in {"released"} \cup Gone
      /\ ScanFits(r) /\ CommandFits(c) /\ InstallFits
      /\ file[c].rec => file[c].pid # "none"
  BY <1>0, Zenon DEF Founded, ScanFits, Check, DropPid, DropLock, RecordsNameGroups
<1>2. UNCHANGED <<job, op, begun, kind, owner, proc>>
  BY Zenon DEF Check, DropPid, DropLock
<1>3. file \in [Commands -> Files] /\ recon \in [Reconcilers -> Scans] /\ file[c] \in Files
  BY <1>1 DEF TypeOK
<1>4. CASE Busy(r) /\ UNCHANGED file
  BY <1>2, <1>4, BusyKeeps, Zenon
<1>5. ASSUME At(r, "unrecorded"), recon[r].at = "locked",
             \/ ~file[c].rec /\ file' = file
             \/ GroupIsEmpty(c) /\ file' = [file EXCEPT ![c].rec = FALSE]
      PROVE  Founded'
  <2>1. /\ recon'[r].at = "unrecorded" /\ recon'[r].cmd = c /\ recon'[r].left = recon[r].left
        /\ recon'[r].gated = recon[r].gated /\ gate' = gate
        /\ \A s \in Reconcilers \ {r} : recon'[s] = recon[s]
    BY <1>0, <1>5, AtFields, Zenon
  <2>2. ~Leased(c) /\ ~Live(c)
    BY <1>0, <1>1, <1>5 DEF ScanFits, Leased, CommandFits, GroupIsEmpty, Quiescent, PreExec
  <2>3. ~file'[c].rec /\ \A d \in Commands \ {c} : file'[d] = file[d]
    BY <1>3, <1>5 DEF Files
  <2>4. ~Leased(c)' /\ ~Live(c)'
    <3>1. Leased(c)' = Leased(c) /\ Live(c)' = Live(c)
      BY <1>2 DEF Leased, Live, LeaderLives
    <3> QED BY <2>2, <3>1
  <2>5. ScanFits(r)'
    BY <1>0, <1>1, <1>2, <2>1, <2>3, <2>4, SMT DEF ScanFits
  <2>6. recon'[r].gated => \A d \in Commands :
           kind[d] = "install" /\ Live(d) => d \in recon'[r].left
    BY <1>1, <2>1, Zenon DEF InstallFits
  <2> QED BY <1>1, <1>2, <2>1, <2>2, <2>3, <2>5, <2>6, ScanKeeps, Zenon
<1>6. ASSUME At(r, "freed"), recon[r].at = "unrecorded", file' = [file EXCEPT ![c].pid = "none"]
      PROVE  Founded'
  <2>1. /\ recon'[r].at = "freed" /\ recon'[r].cmd = c /\ recon'[r].left = recon[r].left
        /\ recon'[r].gated = recon[r].gated /\ gate' = gate
        /\ \A s \in Reconcilers \ {r} : recon'[s] = recon[s]
    BY <1>0, <1>6, AtFields, Zenon
  <2>2. ~Live(c) /\ ~file[c].rec
    BY <1>0, <1>1, <1>6 DEF ScanFits
  <2>3. ~file'[c].rec /\ \A d \in Commands \ {c} : file'[d] = file[d]
    BY <1>1, <1>3, <1>6, <2>2 DEF Files
  <2>4. ~Live(c)'
    BY <1>2, <2>2 DEF Live, LeaderLives
  <2>5. ScanFits(r)'
    BY <1>0, <1>1, <1>2, <2>1, <2>3, <2>4, SMT DEF ScanFits
  <2>6. recon'[r].gated => \A d \in Commands :
           kind[d] = "install" /\ Live(d) => d \in recon'[r].left
    BY <1>1, <2>1, Zenon DEF InstallFits
  <2> QED BY <1>1, <1>2, <2>1, <2>2, <2>3, <2>5, <2>6, ScanKeeps, Zenon
<1>7. ASSUME recon[r].at = "freed", file' = [file EXCEPT ![c].lock = FALSE], UNCHANGED gate,
             recon' = [recon EXCEPT ![r].at = "scan", ![r].cmd = None, ![r].left = @ \ {c}]
      PROVE  Founded'
  <2>1. /\ recon'[r].at = "scan" /\ recon'[r].left = recon[r].left \ {c}
        /\ recon'[r].gated = recon[r].gated /\ gate' = gate
        /\ \A s \in Reconcilers \ {r} : recon'[s] = recon[s]
    BY <1>3, <1>7 DEF Scans
  <2>2. ~Live(c) /\ ~file[c].rec
    BY <1>0, <1>1, <1>7 DEF ScanFits
  <2>3. ~file'[c].rec /\ \A d \in Commands \ {c} : file'[d] = file[d]
    BY <1>1, <1>3, <1>7, <2>2 DEF Files
  <2>4. ScanFits(r)'
    BY <1>1, <2>1, SMT DEF ScanFits
  <2>5. recon'[r].gated => \A d \in Commands :
           kind[d] = "install" /\ Live(d) => d \in recon'[r].left
    BY <1>1, <2>1, <2>2 DEF InstallFits
  <2> QED BY <1>1, <1>2, <2>1, <2>2, <2>3, <2>4, <2>5, ScanKeeps, Zenon
<1> QED BY <1>0, <1>4, <1>5, <1>6, <1>7, Zenon DEF Check, DropPid, DropLock

LEMMA ReconcileKeeps ==
  ASSUME TypeOK, Founded, "race" \notin Mishaps, NEW r \in Reconcilers, Reconcile(r)
  PROVE  Founded'
<1>1. ScanFits(r) /\ InstallFits /\ \A c \in Commands : CommandFits(c)
  BY Zenon DEF Founded
<1>2. /\ file \in [Commands -> Files] /\ owner \in [Commands -> Owners]
      /\ recon \in [Reconcilers -> Scans]
  BY DEF TypeOK
<1>3. None \notin Reconcilers /\ Job \notin Reconcilers /\ None # Job
  BY Kinds
<1>4. ASSUME NEW gated \in BOOLEAN, BeginScan(r, gated) PROVE Founded'
  <2>1. UNCHANGED <<job, op, begun, kind, owner, file, proc>>
    BY <1>4, Zenon DEF BeginScan
  <2>2. /\ recon'[r].at = "scan" /\ recon'[r].gated = gated
        /\ recon'[r].left = {c \in Commands : file[c].lock}
        /\ \A s \in Reconcilers \ {r} : recon'[s] = recon[s]
    <3> DEFINE files == {c \in Commands : file[c].lock}
    <3>1. recon' = [recon EXCEPT ![r] = [at |-> "scan", cmd |-> None, gated |-> gated, left |-> files]]
      BY <1>4, Zenon DEF BeginScan
    <3> HIDE DEF files
    <3>2. /\ recon'[r].at = "scan" /\ recon'[r].gated = gated /\ recon'[r].left = files
          /\ \A s \in Reconcilers \ {r} : recon'[s] = recon[s]
      BY <1>2, <3>1
    <3> QED BY <3>2 DEF files
  <2>3. (gate' = gate /\ ~gated) \/ (gate = None /\ gate' = r)
    BY <1>4 DEF BeginScan
  <2>4. ScanFits(r)'
    BY <2>2, <2>3, SMT DEF ScanFits
  <2>5. \A c \in Commands : Live(c) => c \in recon'[r].left
    BY <1>1, <2>2 DEF CommandFits
  <2>6. (gate' = gate \/ gate # Job) /\ (gate' = gate \/ gate \notin Reconcilers \ {r})
    BY <1>3, <2>3
  <2> QED BY <2>1, <2>2, <2>4, <2>5, <2>6, ScanKeeps, Zenon
<1>5. CASE Lease(r)
  <2>1. UNCHANGED <<job, op, begun, kind, owner, file, proc>>
    BY <1>5, Zenon DEF Lease
  <2>2. CASE Busy(r)
    BY <2>1, <2>2, BusyKeeps, Zenon
  <2>3. ASSUME NEW c \in recon[r].left, ~file[c].lock, gate' = gate,
               recon' = [recon EXCEPT ![r].left = @ \ {c}]
        PROVE  Founded'
    <3>1. /\ recon'[r].at = recon[r].at /\ recon'[r].gated = recon[r].gated
          /\ recon'[r].cmd = recon[r].cmd /\ recon'[r].left = recon[r].left \ {c}
          /\ \A s \in Reconcilers \ {r} : recon'[s] = recon[s]
      BY <1>2, <2>3 DEF Scans
    <3>2. recon[r].at = "scan"
      BY <1>5 DEF Lease
    <3>3. ScanFits(r)'
      BY <1>1, <2>3, <3>1, <3>2, SMT DEF ScanFits
    <3>4. c \in Commands /\ ~Live(c)
      BY <1>1, <1>2, <2>3 DEF CommandFits, Scans
    <3>5. recon'[r].gated => \A d \in Commands :
             kind[d] = "install" /\ Live(d) => d \in recon'[r].left
      BY <1>1, <3>1, <3>4 DEF InstallFits
    <3> QED BY <2>1, <2>3, <3>1, <3>2, <3>3, <3>5, ScanKeeps, Zenon
  <2>4. ASSUME NEW c \in recon[r].left, file[c].lock, ~Leased(c), gate' = gate,
               recon' = [recon EXCEPT ![r].at = "locked", ![r].cmd = c]
        PROVE  Founded'
    <3>1. /\ recon'[r].at = "locked" /\ recon'[r].gated = recon[r].gated
          /\ recon'[r].cmd = c /\ recon'[r].left = recon[r].left
          /\ \A s \in Reconcilers \ {r} : recon'[s] = recon[s]
      BY <1>2, <2>4 DEF Scans
    <3>2. c \in Commands /\ owner[c] # "none" /\ owner[c] \notin Holding
      BY <1>1, <1>2, <2>4 DEF CommandFits, Scans, Leased
    <3>3. owner[c] # "opened"
      BY <1>5, <2>4, <3>1 DEF Lease, Mishap
    <3>4. owner[c] \in {"released"} \cup Gone
      BY <1>2, <3>2, <3>3 DEF Owners
    <3>5. ~Leased(c)'
      BY <2>1, <2>4 DEF Leased
    <3>6. ScanFits(r)'
      BY <1>1, <2>1, <2>4, <3>1, <3>2, <3>4, <3>5, SMT DEF ScanFits
    <3>7. recon'[r].gated => \A d \in Commands :
             kind[d] = "install" /\ Live(d) => d \in recon'[r].left
      BY <1>1, <3>1, Zenon DEF InstallFits
    <3> QED BY <2>1, <2>4, <3>1, <3>6, <3>7, ScanKeeps, Zenon
  <2> QED BY <1>5, <2>2, <2>3, <2>4, Zenon DEF Lease
<1>6. CASE Check(r) \/ DropPid(r) \/ DropLock(r)
  BY <1>6, LeaseholderKeeps
<1>7. CASE ScanEnds(r)
  <2>1. UNCHANGED <<job, op, begun, kind, owner, file, proc>>
    BY <1>7, Zenon DEF ScanEnds
  <2>2. CASE recon[r].gated
    <3>1. At(r, "clear") /\ recon[r].left = {}
      BY <1>7, <2>2, Zenon DEF ScanEnds
    <3>2. /\ recon'[r].at = "clear" /\ recon'[r].gated = recon[r].gated
          /\ \A s \in Reconcilers \ {r} : recon'[s] = recon[s]
          /\ recon'[r].left = recon[r].left /\ gate' = gate
      BY <3>1, AtFields
    <3>3. Quiet
      BY <1>1, <2>2, <3>1, Zenon DEF InstallFits, Quiet
    <3>4. ScanFits(r)'
      BY <1>1, <2>2, <3>2, SMT DEF ScanFits
    <3>5. \A d \in Commands : kind[d] = "install" /\ Live(d) => d \in recon'[r].left
      BY <3>3, Zenon DEF Quiet
    <3> QED BY <2>1, <3>2, <3>3, <3>4, <3>5, ScanKeeps, Zenon
  <2>3. CASE ~recon[r].gated
    <3>1. Busy(r)
      BY <1>7, <2>3 DEF ScanEnds, Busy
    <3> QED BY <2>1, <3>1, BusyKeeps, Zenon
  <2> QED BY <2>2, <2>3
<1>8. CASE Settle(r) \/ LeaveGate(r) \/ BeginInstall(r)
  <2>1. UNCHANGED <<begun, kind, owner, file, proc>> /\ recon[r].at = "clear"
    BY <1>8, Zenon DEF Settle, LeaveGate, BeginInstall
  <2>2. recon[r].gated /\ gate = r /\ Quiet /\ job = "none"
    BY <1>1, <1>3, <2>1, SMT DEF ScanFits, InstallFits
  <2>3. \A c \in Commands : kind[c] = "install" => owner[c] \in Gone
    BY <1>1, <2>2 DEF InstallFits
  <2>4. CASE job' = job /\ Busy(r) /\ (op' = op \/ op' = "unclean")
    BY <2>1, <2>4, BusyKeeps, Zenon
  <2>5. CASE job' = job /\ op' = "clean" /\ gate' = gate /\ recon' = recon
    BY <1>1, <2>1, <2>2, <2>3, <2>5, ScanKeeps, SMT DEF InstallFits, ScanFits
  <2>6. CASE gate' = Job /\ job' = "next" /\ op' = "open" /\ recon' = [recon EXCEPT ![r] = Away]
    <3>1. recon'[r] = Away /\ \A s \in Reconcilers \ {r} : recon'[s] = recon[s]
      BY <1>2, <2>6
    <3>2. ScanFits(r)' /\ recon'[r].at # "clear" /\ ~recon'[r].gated
      BY <3>1, SMT DEF ScanFits, Away
    <3>3. gate \notin Reconcilers \ {r} /\ job' # "await"
      BY <2>2, <2>6
    <3> QED BY <2>1, <2>2, <2>3, <2>6, <3>1, <3>2, <3>3, ScanKeeps, Zenon
  <2>7. CASE gate' = None /\ UNCHANGED <<job, op>> /\ recon' = [recon EXCEPT ![r] = Away]
    <3>1. Busy(r)
      BY <2>2, <2>7 DEF Busy
    <3> QED BY <2>1, <2>7, <3>1, BusyKeeps, Zenon
  <2> QED
    BY <1>8, <2>4, <2>5, <2>6, <2>7, Zenon DEF Settle, LeaveGate, BeginInstall
<1> QED BY <1>4, <1>5, <1>6, <1>7, <1>8, Zenon DEF Reconcile

-------------------------------------------------------------------------------
(* The clients.                                                            *)

\* A command that is opened has no past: what it is for and its owner are new.
LEMMA OpenFields ==
  ASSUME TypeOK, Founded, NEW c \in Commands, NEW what \in {"install", "tags"}, Open(c, what),
         UNCHANGED proc
  PROVE  /\ c = begun + 1 /\ begun' = c
         /\ kind[c] = "none" /\ owner[c] = "none" /\ ~Live(c)
         /\ kind'[c] = what /\ owner'[c] \in {"opened", "done"}
         /\ \A d \in Commands \ {c} : kind'[d] = kind[d] /\ owner'[d] = owner[d] /\ file'[d] = file[d]
         /\ file'[c].rec = file[c].rec /\ file'[c].pid = file[c].pid
         /\ owner'[c] = "opened" => file'[c].lock
         /\ \A d \in Commands : Live(d)' = Live(d)
         /\ \A d \in Commands \ {c} : Leased(d)' = Leased(d)
         /\ \A d \in Commands : kind[d] # "none" => d <= begun
<1>1. /\ owner \in [Commands -> Owners] /\ file \in [Commands -> Files] /\ begun \in Nat
      /\ kind \in [Commands -> {"none", "install", "tags"}]
  BY DEF TypeOK
<1>2. c = begun + 1 /\ begun' = c /\ kind' = [kind EXCEPT ![c] = what]
  BY Zenon DEF Open
<1>3. \/ owner' = [owner EXCEPT ![c] = "opened"] /\ file' = [file EXCEPT ![c].lock = TRUE]
      \/ owner' = [owner EXCEPT ![c] = "done"] /\ file' = file
  BY Zenon DEF Open, Goto
<1>4. CommandFits(c) /\ \A d \in Commands : CommandFits(d)
  BY Zenon DEF Founded
<1>5. owner[c] = "none" /\ kind[c] = "none" /\ ~Live(c)
  BY <1>1, <1>2, <1>4, SMT DEF CommandFits, Unspawned
<1>6. \A d \in Commands : kind[d] # "none" => d <= begun
  BY <1>1, <1>4, SMT DEF CommandFits, Commands
<1>7. \A d \in Commands \ {c} : kind'[d] = kind[d] /\ owner'[d] = owner[d] /\ file'[d] = file[d]
  BY <1>1, <1>2, <1>3
<1>8. /\ kind'[c] = what
      /\ file'[c].rec = file[c].rec /\ file'[c].pid = file[c].pid
      /\ (owner'[c] = "opened" /\ file'[c].lock) \/ owner'[c] = "done"
  BY <1>1, <1>2, <1>3 DEF Files
<1>9. \A d \in Commands : Live(d)' = Live(d)
  BY DEF Live, LeaderLives
<1>10. \A d \in Commands \ {c} : Leased(d)' = Leased(d)
  BY <1>7 DEF Leased
<1> QED BY <1>2, <1>5, <1>6, <1>7, <1>8, <1>9, <1>10

\* What it is opened for does not matter to the commands and the requests.
LEMMA OpenKeeps ==
  ASSUME TypeOK, Founded, NEW c \in Commands, NEW what \in {"install", "tags"}, Open(c, what),
         UNCHANGED <<proc, gate, recon>>
  PROVE  /\ \A d \in Commands : CommandFits(d)'
         /\ \A r \in Reconcilers : ScanFits(r)'
         /\ RecordsNameGroups' /\ OneWriter'
<1>1. /\ c = begun + 1 /\ begun' = c
      /\ kind[c] = "none" /\ owner[c] = "none" /\ ~Live(c)
      /\ kind'[c] = what /\ owner'[c] \in {"opened", "done"}
      /\ \A d \in Commands \ {c} : kind'[d] = kind[d] /\ owner'[d] = owner[d] /\ file'[d] = file[d]
      /\ file'[c].rec = file[c].rec /\ file'[c].pid = file[c].pid
      /\ owner'[c] = "opened" => file'[c].lock
      /\ \A d \in Commands : Live(d)' = Live(d)
      /\ \A d \in Commands \ {c} : Leased(d)' = Leased(d)
  BY OpenFields
<1>2. ASSUME NEW d \in Commands PROVE CommandFits(d)'
  <2>0. CommandFits(d)
    BY Zenon DEF Founded
  <2>1. CommandFits(d) /\ begun \in Nat /\ d \in Nat
    BY <2>0, Kinds DEF TypeOK, Commands
  <2>2. CASE d = c
    BY <1>1, <2>1, <2>2, SMT DEF CommandFits, Unspawned, Proved, Holding
  <2>3. CASE d # c
    BY <1>1, <2>1, <2>3, SMT DEF CommandFits
  <2> QED BY <2>2, <2>3
<1>3. ASSUME NEW r \in Reconcilers PROVE ScanFits(r)'
  <2>1. ScanFits(r)
    BY Zenon DEF Founded
  <2>2. "none" \notin {"released"} \cup Gone
    BY DEF Gone
  <2>3. CASE recon[r].at \in {"locked", "unrecorded", "freed"}
    <3>1. PICK e \in Commands \ {c} : e = recon[r].cmd
      BY <1>1, <2>1, <2>2, <2>3, Zenon DEF ScanFits
    <3>2. owner'[e] = owner[e] /\ file'[e] = file[e] /\ Live(e)' = Live(e) /\ Leased(e)' = Leased(e)
      BY <1>1
    <3> QED BY <2>1, <3>1, <3>2, SMT DEF ScanFits
  <2>4. CASE recon[r].at \notin {"locked", "unrecorded", "freed"}
    BY <2>1, <2>4, SMT DEF ScanFits
  <2> QED BY <2>3, <2>4
<1>4. RecordsNameGroups'
  BY <1>1 DEF Founded, RecordsNameGroups
<1>5. OneWriter'
  BY <1>1 DEF Founded, OneWriter
<1> QED BY <1>2, <1>3, <1>4, <1>5

LEMMA NextCommandKeeps == ASSUME TypeOK, Founded, NextCommand PROVE Founded'
<1>1. PICK c \in Commands : Open(c, "install")
  BY Zenon DEF NextCommand
<1>2. UNCHANGED <<gate, op, proc, recon>> /\ job = "next" /\ job' = "await"
  BY Zenon DEF NextCommand
<1>3. /\ c = begun + 1 /\ kind'[c] = "install" /\ owner[c] = "none" /\ ~Live(c)
      /\ \A d \in Commands \ {c} : kind'[d] = kind[d] /\ owner'[d] = owner[d]
      /\ \A d \in Commands : Live(d)' = Live(d)
      /\ \A d \in Commands : kind[d] # "none" => d <= begun
  BY <1>1, <1>2, OpenFields
<1>4. \A d \in Commands : kind'[d] = "install" => d <= c
  <2>1. begun \in Nat
    BY DEF TypeOK
  <2> QED BY <1>3, <2>1, Kinds, SMT DEF Commands
<1>5. Latest' = c
  BY <1>3, <1>4, LatestOf, Zenon DEF Latest
<1>6. InstallFits /\ Job \notin Reconcilers /\ \A r \in Reconcilers : ScanFits(r)
  BY Kinds, Zenon DEF Founded
<1>7. gate = Job /\ op = "open" /\ Quiet
      /\ \A d \in Commands : kind[d] = "install" => owner[d] \in Gone
  BY <1>2, <1>6 DEF InstallFits
<1>8. \A r \in Reconcilers : ~recon'[r].gated /\ recon'[r].at # "clear"
  BY <1>2, <1>6, <1>7 DEF ScanFits
<1>9. InstallFits'
  <2>1. LatestStarted'
    BY <1>3, <1>4, <1>5 DEF LatestStarted
  <2>2. \A d \in Commands : kind'[d] = "install" /\ owner'[d] \notin Gone => d = c
    BY <1>3, <1>7
  <2>3. \A d \in Commands : kind'[d] = "install" => ~Live(d)'
    BY <1>3, <1>7 DEF Quiet
  <2> QED BY <1>2, <1>5, <1>7, <1>8, <2>1, <2>2, <2>3, SMT DEF InstallFits
<1>10. /\ \A d \in Commands : CommandFits(d)'
       /\ \A r \in Reconcilers : ScanFits(r)'
       /\ RecordsNameGroups' /\ OneWriter'
  BY <1>1, <1>2, OpenKeeps, Zenon
<1> QED BY <1>9, <1>10, Zenon DEF Founded

LEMMA ListTagsKeeps == ASSUME TypeOK, Founded, ListTags PROVE Founded'
<1>1. PICK c \in Commands : Open(c, "tags")
  BY Zenon DEF ListTags
<1>2. UNCHANGED <<gate, job, op, proc, recon>>
  BY Zenon DEF ListTags
<1>3. /\ kind[c] = "none" /\ kind'[c] = "tags"
      /\ \A d \in Commands \ {c} : kind'[d] = kind[d] /\ owner'[d] = owner[d]
      /\ \A d \in Commands : Live(d)' = Live(d)
  BY <1>1, <1>2, OpenFields
<1>4. \A d \in Commands : (kind'[d] = "install") <=> (kind[d] = "install")
  BY <1>3
<1>5. InstallFits
  BY Zenon DEF Founded
<1>6. ASSUME job = "await" PROVE Latest' = Latest /\ LatestStarted'
  <2>1. LatestStarted
    BY <1>5, <1>6 DEF InstallFits
  <2>2. PICK e \in Commands : e = Latest
    BY <2>1 DEF LatestStarted
  <2>3. kind'[e] = "install" /\ \A d \in Commands : kind'[d] = "install" => d <= e
    BY <1>4, <2>1, <2>2 DEF LatestStarted
  <2>4. Latest' = e
    BY <2>3, LatestOf, Zenon DEF Latest
  <2> QED BY <2>2, <2>3, <2>4 DEF LatestStarted
<1>7. Quiet' = Quiet
  BY <1>3, <1>4 DEF Quiet
<1>8. \A d \in Commands : kind'[d] = "install" => owner'[d] = owner[d]
  BY <1>3
<1>9. InstallFits'
  BY <1>2, <1>3, <1>4, <1>5, <1>6, <1>7, <1>8, SMT DEF InstallFits
<1>10. /\ \A d \in Commands : CommandFits(d)'
       /\ \A r \in Reconcilers : ScanFits(r)'
       /\ RecordsNameGroups' /\ OneWriter'
  BY <1>1, <1>2, OpenKeeps, Zenon
<1> QED BY <1>9, <1>10, Zenon DEF Founded

\* The steps of the installation between its commands, and the removal of what
\* an installation left.
LEMMA InstallKeeps ==
  ASSUME TypeOK, Founded, CleanUp \/ CommandReturns \/ EndInstall PROVE Founded'
<1>1. UNCHANGED <<begun, kind, owner, file, proc, recon>>
  BY Zenon DEF CleanUp, CommandReturns, EndInstall
<1>2. InstallFits /\ \A c \in Commands : CommandFits(c)
  BY Zenon DEF Founded
<1>3. None \notin Reconcilers /\ Job \notin Reconcilers /\ None # Job
  BY Kinds
<1>4. gate' = gate \/ gate \notin Reconcilers \ {None}
  BY <1>2, <1>3 DEF CleanUp, CommandReturns, EndInstall, InstallFits
<1>5. ASSUME NEW c \in Commands, kind[c] = "install" PROVE owner[c] \in Gone
  <2>1. CASE CleanUp \/ EndInstall
    BY <1>2, <1>3, <1>5, <2>1 DEF CleanUp, EndInstall, InstallFits
  <2>2. CASE CommandReturns
    BY <1>2, <1>5, <2>2 DEF CommandReturns, InstallFits, Gone
  <2> QED BY <2>1, <2>2
<1>6. job' # "await" /\ (job' # "none" => gate' = Job /\ op' = "open")
  BY <1>2, <1>3 DEF CleanUp, CommandReturns, EndInstall, InstallFits
<1>7. ASSUME job' \in {"next", "ended"} \/ op' # "open" PROVE Quiet
  <2>1. CASE CleanUp \/ EndInstall
    BY <1>2, <2>1 DEF CleanUp, EndInstall, InstallFits
  <2>2. CASE CommandReturns
    <3>1. job = "await" /\ owner[Latest] = "done" /\ Latest \in Commands
      BY <1>2, <1>7, <2>2 DEF CommandReturns, InstallFits, LatestStarted
    <3>2. ~Live(Latest)
      BY <1>2, <3>1 DEF CommandFits, Proved
    <3> QED BY <1>2, <3>1, <3>2, Zenon DEF InstallFits, Quiet
  <2> QED BY <2>1, <2>2
<1> QED BY <1>1, <1>3, <1>4, <1>5, <1>6, <1>7, ScanKeeps, Zenon

LEMMA CrashKeeps == ASSUME TypeOK, Founded, Crash PROVE Founded'
<1>1. UNCHANGED <<op, begun, kind, file, proc>> /\ gate' = None /\ job' = "none"
  BY Zenon DEF Crash
<1>2. /\ \A r \in Reconcilers : recon'[r] = Away
      /\ \A c \in Commands : owner'[c] = IF owner[c] \in Gone \cup {"none"} THEN owner[c] ELSE "lost"
  BY DEF Crash
<1>3. InstallFits /\ \A c \in Commands : CommandFits(c)
  BY Zenon DEF Founded
<1>4. \A c \in Commands : Live(c)' = Live(c)
  BY <1>1 DEF Live, LeaderLives
<1>5. ASSUME NEW c \in Commands PROVE CommandFits(c)'
  <2>1. CommandFits(c)
    BY <1>3
  <2>2. owner'[c] = owner[c] \/ (owner[c] # "none" /\ owner'[c] = "lost")
    BY <1>2
  <2>3. owner'[c] \in {"none"} \cup Gone
    BY <1>2 DEF Gone
  <2> QED
    BY <1>1, <1>4, <2>1, <2>2, <2>3, SMT DEF CommandFits, Unspawned, Proved, Holding, Gone
<1>6. ASSUME NEW r \in Reconcilers
      PROVE  ScanFits(r)' /\ recon'[r].at # "clear" /\ ~recon'[r].gated
  BY <1>2, SMT DEF ScanFits, Away
<1>7. InstallFits'
  <2>1. \A c \in Commands : kind[c] = "install" => owner'[c] \in Gone
    BY <1>2, <1>3 DEF CommandFits, Gone
  <2>2. op # "open" => Quiet'
    BY <1>1, <1>3, <1>4 DEF InstallFits, Quiet
  <2> QED BY <1>1, <1>6, <2>1, <2>2, SMT DEF InstallFits
<1>8. RecordsNameGroups' /\ OneWriter'
  BY <1>1, <1>4 DEF Founded, RecordsNameGroups, OneWriter
<1> QED BY <1>5, <1>6, <1>7, <1>8, Zenon DEF Founded

\* What nobody's step touches.
LEMMA IdleKeeps ==
  ASSUME Founded, UNCHANGED <<gate, job, op, begun, kind, owner, file, proc, recon>>
  PROVE  Founded'
<1>1. \A c \in Commands : Live(c)' = Live(c) /\ Leased(c)' = Leased(c)
  BY DEF Live, LeaderLives, Leased
<1>2. Latest' = Latest
  BY DEF Latest
<1>3. \A c \in Commands : CommandFits(c)'
  BY Apart, Zenon DEF Founded
<1>4. ASSUME NEW r \in Reconcilers PROVE ScanFits(r)'
  <2>1. ScanFits(r)
    BY Zenon DEF Founded
  <2> QED BY <1>1, <2>1, SMT DEF ScanFits
<1>5. Quiet' = Quiet /\ LatestStarted' = LatestStarted
  BY <1>1, <1>2 DEF Quiet, LatestStarted
<1>6. InstallFits'
  BY <1>1, <1>2, <1>5, SMT DEF Founded, InstallFits
<1>7. RecordsNameGroups' /\ OneWriter'
  BY <1>1 DEF Founded, RecordsNameGroups, OneWriter
<1> QED BY <1>3, <1>4, <1>6, <1>7, Zenon DEF Founded

LEMMA StepKeeps ==
  ASSUME TypeOK, Founded, "race" \notin Mishaps, [Next]_vars PROVE Founded'
<1>1. CASE \E c \in Commands : Own(c) \/ Run(c) \/ CommandWorks(c) \/ GuardianKilled(c)
  BY <1>1, OwnKeeps, RunKeeps, Zenon
<1>2. CASE \E r \in Reconcilers : Reconcile(r)
  BY <1>2, ReconcileKeeps, Zenon
<1>3. CASE CleanUp \/ CommandReturns \/ EndInstall
  BY <1>3, InstallKeeps, Zenon
<1>4. CASE NextCommand
  BY <1>4, NextCommandKeeps
<1>5. CASE ListTags
  BY <1>5, ListTagsKeeps
<1>6. CASE Crash
  BY <1>6, CrashKeeps
<1>7. CASE Boot \/ UNCHANGED vars
  <2>1. UNCHANGED <<gate, job, op, begun, kind, owner, file, proc, recon>>
    BY <1>7, Zenon DEF Boot, vars, agent
  <2> QED BY <2>1, IdleKeeps
<1> QED BY <1>1, <1>2, <1>3, <1>4, <1>5, <1>6, <1>7, Zenon DEF Next

-------------------------------------------------------------------------------
(* Theorems.                                                               *)

\* What is known of owners, files, processes and requests at any time holds of
\* every number of commands and requests, after any number of crashes, failing
\* writes and killed guardians. Only the race of Owner::create with a request
\* that reconciles without the gate is excluded: MCOwnedRace shows it is needed.
THEOREM FoundedAlways ==
  ASSUME "race" \notin Mishaps PROVE Spec => []Founded
<1>1. TypeOK /\ Founded /\ [Next]_vars => Founded'
  BY StepKeeps, Zenon
<1> QED BY <1>1, InitFounded, TypeCorrect, PTL DEF Spec

\* reconcile_run_directory finds whatever runs for a command: the lease is held,
\* or the record names its process group.
THEOREM LiveStaysFound ==
  ASSUME "race" \notin Mishaps PROVE Spec => []LiveIsFound
<1>1. Founded => LiveIsFound
  BY DEF Founded, LiveIsFound, CommandFits, Leased, PreExec
<1> QED BY <1>1, FoundedAlways, PTL

\* run_recoverable_process never runs two commands in one candidate directory,
\* however its owner ended before.
THEOREM OneWriterAtATime ==
  ASSUME "race" \notin Mishaps PROVE Spec => []OneWriter
<1>1. Founded => OneWriter
  BY DEF Founded
<1> QED BY <1>1, FoundedAlways, PTL

\* A record that is kept for a later reconcile_run_directory always has the file
\* of its process group beside it: it can be settled some day.
THEOREM RecordsStayNamed ==
  ASSUME "race" \notin Mishaps PROVE Spec => []RecordsNameGroups
<1>1. Founded => RecordsNameGroups
  BY DEF Founded
<1> QED BY <1>1, FoundedAlways, PTL

\* Nobody removes the working directory of an installation, or empties it for
\* the next attempt, while a process of one of its commands is left.
THEOREM FilesAreKept ==
  ASSUME "race" \notin Mishaps PROVE Spec => FilesFollowProcesses
<1>1. ASSUME TypeOK, Founded, [Next]_vars, candidate, ~candidate' PROVE Quiet
  <2>1. InstallFits
    BY <1>1, Zenon DEF Founded
  <2>2. CASE \E r \in Reconcilers : Settle(r)
    BY <2>1, <2>2, Zenon DEF InstallFits, Settle
  <2>3. CASE CleanUp \/ NextCommand \/ EndInstall
    <3>1. op = "unclean" \/ job = "next" \/ job \in {"next", "ended"}
      BY <2>3, Zenon DEF CleanUp, NextCommand, EndInstall
    <3>2. job \in {"next", "ended"} \/ op # "open"
      BY <3>1
    <3> QED BY <2>1, <3>2, Zenon DEF InstallFits
  <2>4. CASE \E c \in Commands : CommandWorks(c)
    BY <1>1, <2>4, Zenon DEF CommandWorks
  <2>5. ASSUME UNCHANGED candidate PROVE FALSE
    BY <1>1, <2>5
  <2>6. CASE \E c \in Commands : Own(c) \/ Run(c) \/ GuardianKilled(c)
    BY <2>5, <2>6, Zenon
    DEF Own, Run, TryLock, WriteGroup, WriteRecord, Spawn, SpawnReturns, StopWatching, Prove, GiveUp,
        Erase, ErasePid, Unlink, Write, JoinGroup, ForkGuardian, Exec, GuardianKills, ProcessEnds,
        GuardianKilled, Child, agent
  <2>7. CASE \E r \in Reconcilers : Reconcile(r)
    BY <2>2, <2>5, <2>7, Zenon
    DEF Reconcile, BeginScan, Lease, Check, DropPid, DropLock, ScanEnds, Settle, LeaveGate, BeginInstall
  <2>8. CASE CommandReturns \/ ListTags \/ Crash \/ Boot \/ UNCHANGED vars
    BY <2>5, <2>8, Zenon DEF CommandReturns, ListTags, Crash, Boot, vars, agent
  <2> QED BY <1>1, <2>3, <2>4, <2>6, <2>7, <2>8, Zenon DEF Next
<1>2. TypeOK /\ Founded /\ [Next]_vars =>
         [candidate /\ ~candidate' => \A c \in Commands : kind[c] = "install" => ~Live(c)]_vars
  BY <1>1, Zenon DEF Quiet
<1> QED BY <1>2, FoundedAlways, TypeCorrect, PTL DEF Spec, FilesFollowProcesses
===============================================================================

------------------------- MODULE AgentStartupProofs -------------------------
(***************************************************************************)
(* One Agent owns a data root, it can be authorised, its birth is not      *)
(* disturbed and Launchers answer honestly, for any number of Launchers,   *)
(* requests in flight, program generations and processes.                  *)
(***************************************************************************)
EXTENDS AgentStartup, TLAPS

\* The lifetime lock is held by the process that owns the root, and by nothing that ended.
LockFollowsOwner == \A a \in Agents : agent[a].at \in Owning <=> lock = a
\* The probe of a start and the hold of an update are the other ways to hold it.
LockFollowsCall ==
    /\ \A c \in Callers : lock = c <=> call[c].at = "holdLock"
    /\ \A c \in Callers : call[c].at = "updateHold" => lock = Home[c]
    /\ \A c, d \in Callers : /\ call[c].at = "updateHold" /\ call[d].at = "updateHold"
                             /\ Home[c] = Home[d]
                             => c = d
\* A start works under the bootstrap lock from its third probe on.
Bootstrapping == {"third", "waitLock", "holdLock", "fourth", "spawn", "await", "awaitChild"}
BootstrapIsHeld == \A c \in Callers : call[c].at \in Bootstrapping => bootstrap = c
CredentialFollowsOwner ==
    \A a \in Agents : agent[a].at \in {"starting", "serving", "draining"} => credential = a
MineIsAwaited == \A c \in Callers : call[c].mine # None => call[c].at = "await"

\* One request of a Launcher at a time starts or stops: nobody else changes its child.
Operating == {"second", "bootstrap", "stopProbe", "post", "poll"} \cup Bootstrapping
OperationIsHeld == \A c \in Callers : call[c].at \in Operating => operation[Home[c]] = c
ChildIsBorn == \A l \in Launchers : child[l] # None => agent[child[l]].at # "unborn"
OwnedIsChild ==
    \A c \in Callers : call[c].at \in {"post", "poll"} =>
        IF call[c].owned # None THEN call[c].owned = child[Home[c]] ELSE ~ChildAlive(Home[c])
Stopping == OperationIsHeld /\ ChildIsBorn /\ OwnedIsChild

Ownership == /\ TypeOK /\ LockFollowsOwner /\ LockFollowsCall /\ BootstrapIsHeld
             /\ CredentialFollowsOwner /\ MineIsAwaited
-----------------------------------------------------------------------------
\* A process may be born, move on or end, and the table stays one of processes.
LEMMA ProcessMoves ==
    ASSUME TypeOK, NEW a, NEW place \in {"boot", "gone"} \cup Owning,
           agent' = [agent EXCEPT ![a].at = place]
    PROVE  agent' \in [Agents -> Processes]
BY DEF TypeOK, Processes

LEMMA ProcessIsBorn ==
    ASSUME TypeOK, NEW b \in Builds, Born(b)
    PROVE  agent' \in [Agents -> Processes]
BY DEF TypeOK, Processes, Born

\* Ending a process frees no lock but its own.
LEMMA EndTyped ==
    ASSUME TypeOK, NEW a, Ends(a)
    PROVE  /\ agent' \in [Agents -> Processes]
           /\ lock' \in Agents \cup Callers \cup Launchers \cup {None}
<1>1. agent' \in [Agents -> Processes]
    BY ProcessMoves DEF Ends
<1> QED BY <1>1 DEF Ends, TypeOK

LEMMA CallMoves ==
    ASSUME TypeOK, NEW c \in Callers, NEW place \in Places, Goto(c, place)
    PROVE  call' \in [Callers -> Calls]
BY DEF TypeOK, Calls, Goto

LEMMA CallUpdated ==
    ASSUME NEW r \in Calls, NEW place \in Places, NEW a \in Agents, NEW o \in Agents \cup {None}
    PROVE  /\ [r EXCEPT !.at = place, !.mine = a] \in Calls
           /\ [r EXCEPT !.at = place, !.seen = a] \in Calls
           /\ [r EXCEPT !.at = place, !.seen = a, !.owned = o] \in Calls
BY DEF Calls

LEMMA LeavesTyped ==
    ASSUME TypeOK, NEW c \in Callers, Leaves(c)
    PROVE  operation' \in [Launchers -> Callers \cup {None}] /\ bootstrap' \in Callers \cup {None}
BY DEF TypeOK, Leaves

LEMMA RestingTyped == Resting \in Calls
BY DEF Resting, Calls, Places, Wants, Answers

LEMMA AnswerTyped ==
    ASSUME TypeOK, NEW c \in Callers, NEW what \in Answers, NEW who \in Agents \cup {None},
           Answer(c, what, who)
    PROVE  /\ call' \in [Callers -> Calls]
           /\ operation' \in [Launchers -> Callers \cup {None}] /\ bootstrap' \in Callers \cup {None}
<1>1. [Resting EXCEPT !.answer = what, !.with = who] \in Calls
    BY RestingTyped DEF Calls
<1>2. call' \in [Callers -> Calls]
    BY <1>1 DEF TypeOK, Answer
<1> QED BY <1>2, LeavesTyped DEF Answer

LEMMA StoppedTyped ==
    ASSUME TypeOK, NEW c \in Callers, Stopped(c)
    PROVE  /\ call' \in [Callers -> Calls]
           /\ operation' \in [Launchers -> Callers \cup {None}] /\ bootstrap' \in Callers \cup {None}
<1>1. CASE call[c].want = "stop"
    BY <1>1, AnswerTyped DEF Stopped, Answers
<1>2. CASE call[c].want # "stop"
    <2>1. [Resting EXCEPT !.want = call[c].want,
              !.at = IF call[c].want = "restart" THEN "first" ELSE "startLock"] \in Calls
        BY RestingTyped DEF Calls, TypeOK, Places
    <2>2. call' \in [Callers -> Calls]
        BY <1>2, <2>1 DEF TypeOK, Stopped
    <2> QED BY <1>2, <2>2, LeavesTyped DEF Stopped
<1> QED BY <1>1, <1>2
-----------------------------------------------------------------------------

CallTyped == /\ call' \in [Callers -> Calls]
             /\ operation' \in [Launchers -> Callers \cup {None}] /\ bootstrap' \in Callers \cup {None}
RootTyped == /\ agent' \in [Agents -> Processes]
             /\ lock' \in Agents \cup Callers \cup Launchers \cup {None}

LEMMA AgentTyped == TypeOK /\ AgentNext => TypeOK'
<1> SUFFICES ASSUME TypeOK, AgentNext PROVE TypeOK'
    OBVIOUS
<1> USE StartupAssumptions
<1>1. CASE UserStarts
    <2>1. agent' \in [Agents -> Processes]
        BY <1>1, ProcessIsBorn DEF UserStarts
    <2> QED BY <1>1, <2>1 DEF UserStarts, TypeOK, locks
<1> SUFFICES ASSUME NEW a \in Agents,
                    \/ AgentLocks(a) \/ AgentPublishes(a) \/ AgentServes(a)
                    \/ AgentDrains(a) \/ AgentFails(a) \/ UserStops(a)
             PROVE  TypeOK'
    BY <1>1 DEF AgentNext
<1>2. RootTyped
    BY ProcessMoves, EndTyped DEF RootTyped, Owning, TypeOK, AgentLocks, AgentPublishes, AgentServes,
       AgentDrains, AgentFails, UserStops, locks
<1>3. mishaps' \in 0 .. MaxMishaps
    BY DEF Mishap, TypeOK, AgentLocks, AgentPublishes, AgentServes, AgentDrains, AgentFails, UserStops
<1> QED BY <1>2, <1>3 DEF RootTyped, TypeOK, AgentLocks, AgentPublishes, AgentServes, AgentDrains,
           AgentFails, UserStops, locks

LEMMA NoAnswerTyped == TypeOK /\ NoAnswer => mishaps' \in 0 .. MaxMishaps
BY StartupAssumptions DEF TypeOK, NoAnswer, Mishap

LEMMA StartTyped ==
    ASSUME TypeOK, NEW c \in Callers,
           \/ FirstProbe(c) \/ TakeOperation(c) \/ ProbeAgain(c) \/ TakeBootstrap(c)
           \/ ProbeLock(c) \/ DropLock(c)
    PROVE  TypeOK'
<1> USE StartupAssumptions DEF Answers
<1>1. CASE FirstProbe(c)
    <2>1. CallTyped
        BY <1>1, AnswerTyped, CallMoves DEF FirstProbe, CallTyped, Places, TypeOK
    <2>2. mishaps' \in 0 .. MaxMishaps
        BY <1>1, NoAnswerTyped DEF FirstProbe, TypeOK
    <2> QED BY <1>1, <2>1, <2>2 DEF FirstProbe, TypeOK, CallTyped
<1>2. CASE TakeOperation(c)
    <2>1. call' \in [Callers -> Calls]
        BY <1>2, CallMoves DEF TakeOperation, Places
    <2> QED BY <1>2, <2>1 DEF TakeOperation, TypeOK
<1>3. CASE ProbeAgain(c)
    <2>1. CallTyped
        BY <1>3, AnswerTyped, CallMoves DEF ProbeAgain, CallTyped, Places, TypeOK
    <2>2. mishaps' \in 0 .. MaxMishaps
        BY <1>3, NoAnswerTyped DEF ProbeAgain, TypeOK
    <2> QED BY <1>3, <2>1, <2>2 DEF ProbeAgain, TypeOK, CallTyped
<1>4. CASE TakeBootstrap(c)
    <2>1. CallTyped
        BY <1>4, AnswerTyped, CallMoves DEF TakeBootstrap, CallTyped, Places, TypeOK
    <2> QED BY <1>4, <2>1 DEF TakeBootstrap, TypeOK, CallTyped
<1>5. CASE ProbeLock(c)
    <2>1. CallTyped
        BY <1>5, AnswerTyped, CallMoves DEF ProbeLock, CallTyped, Places, TypeOK
    <2> QED BY <1>5, <2>1 DEF ProbeLock, TypeOK, CallTyped
<1>6. CASE DropLock(c)
    <2>1. call' \in [Callers -> Calls]
        BY <1>6, CallMoves DEF DropLock, Places
    <2> QED BY <1>6, <2>1 DEF DropLock, TypeOK
<1> QED BY <1>1, <1>2, <1>3, <1>4, <1>5, <1>6

LEMMA SpawnTyped ==
    ASSUME TypeOK, NEW c \in Callers, Spawn(c) \/ Await(c) \/ AwaitChild(c)
    PROVE  TypeOK'
<1> USE StartupAssumptions DEF Answers
<1>1. CASE Spawn(c)
    <2>1. CASE Born(Build[Home[c]])
        <3>1. agent' \in [Agents -> Processes]
            BY <2>1, ProcessIsBorn
        <3>2. CASE \E a \in Agents :
                      /\ child' = [child EXCEPT ![Home[c]] = a]
                      /\ call' = [call EXCEPT ![c] = [call[c] EXCEPT !.at = "await", !.mine = a]]
            <4> PICK a \in Agents :
                    /\ child' = [child EXCEPT ![Home[c]] = a]
                    /\ call' = [call EXCEPT ![c] = [call[c] EXCEPT !.at = "await", !.mine = a]]
                BY <3>2 DEF TypeOK
            <4>0. [call[c] EXCEPT !.at = "await", !.mine = a] \in Calls
                BY CallUpdated DEF TypeOK, Places
            <4>1. child' \in [Launchers -> Agents \cup {None}]
                BY DEF TypeOK
            <4>2. call' \in [Callers -> Calls]
                BY <4>0 DEF TypeOK
            <4>3. CASE UNCHANGED <<operation, bootstrap>>
                BY <1>1, <3>1, <4>1, <4>2, <4>3 DEF Spawn, TypeOK
            <4>4. CASE Answer(c, "failed", None)
                BY <1>1, <3>1, <4>1, <4>4, AnswerTyped DEF Spawn, TypeOK
            <4> QED BY <1>1, <4>3, <4>4 DEF Spawn
        <3>3. CASE Answer(c, "failed", None) /\ UNCHANGED <<agent, child>>
            BY <1>1, <3>3, AnswerTyped DEF Spawn, TypeOK
        <3> QED BY <1>1, <3>2, <3>3 DEF Spawn
    <2>2. CASE Answer(c, "failed", None) /\ UNCHANGED <<agent, child>>
        BY <1>1, <2>2, AnswerTyped DEF Spawn, TypeOK
    <2> QED BY <1>1, <2>1, <2>2 DEF Spawn
<1>2. CASE Await(c)
    <2>1. CallTyped
        BY <1>2, AnswerTyped DEF Await, CallTyped
    <2>2. RootTyped
        BY <1>2, EndTyped DEF Await, RootTyped, KillChild, TypeOK
    <2>3. child' \in [Launchers -> Agents \cup {None}]
        BY <1>2 DEF Await, KillChild, TypeOK
    <2> QED BY <1>2, <2>1, <2>2, <2>3 DEF Await, TypeOK, CallTyped, RootTyped
<1>3. CASE AwaitChild(c)
    <2>1. CallTyped
        BY <1>3, AnswerTyped DEF AwaitChild, CallTyped
    <2> QED BY <1>3, <2>1 DEF AwaitChild, TypeOK, CallTyped
<1> QED BY <1>1, <1>2, <1>3

LEMMA StopTyped ==
    ASSUME TypeOK, NEW c \in Callers, StopProbe(c) \/ Post(c) \/ Poll(c)
    PROVE  TypeOK'
<1> USE StartupAssumptions DEF Answers
<1>1. CASE StopProbe(c)
    <2>1. ASSUME NEW a \in Agents
          PROVE  [call[c] EXCEPT !.at = "post", !.seen = a, !.owned = Owned(c)] \in Calls
        <3>1. Owned(c) \in Agents \cup {None} /\ call[c] \in Calls /\ "post" \in Places
            BY DEF TypeOK, Owned, Places
        <3> QED BY <3>1, CallUpdated
    <2>2. ASSUME NEW a \in Agents, call' = [call EXCEPT ![c] =
                         [call[c] EXCEPT !.at = "post", !.seen = a, !.owned = Owned(c)]]
          PROVE  call' \in [Callers -> Calls]
        BY <2>1, <2>2 DEF TypeOK
    <2>4. CallTyped
        BY <1>1, <2>2, AnswerTyped, StoppedTyped DEF StopProbe, CallTyped, TypeOK
    <2>3. mishaps' \in 0 .. MaxMishaps
        BY <1>1, NoAnswerTyped DEF StopProbe, TypeOK
    <2> QED BY <1>1, <2>3, <2>4 DEF StopProbe, TypeOK, CallTyped
<1>2. CASE Post(c)
    <2>1. CallTyped
        BY <1>2, AnswerTyped, CallMoves DEF Post, CallTyped, Places, TypeOK
    <2>2. agent' \in [Agents -> Processes]
        BY <1>2, ProcessMoves DEF Post, Drains, Owning, TypeOK
    <2>3. mishaps' \in 0 .. MaxMishaps
        BY <1>2 DEF Post, Mishap, TypeOK
    <2> QED BY <1>2, <2>1, <2>2, <2>3 DEF Post, TypeOK, CallTyped
<1>3. CASE Poll(c)
    <2>1. CallTyped
        BY <1>3, AnswerTyped, StoppedTyped DEF Poll, CallTyped
    <2>2. RootTyped
        BY <1>3, EndTyped DEF Poll, RootTyped, KillChild, TypeOK
    <2>3. child' \in [Launchers -> Agents \cup {None}]
        BY <1>3 DEF Poll, KillChild, TypeOK
    <2> QED BY <1>3, <2>1, <2>2, <2>3 DEF Poll, TypeOK, CallTyped, RootTyped
<1> QED BY <1>1, <1>2, <1>3

LEMMA UpdateTyped ==
    ASSUME TypeOK, NEW c \in Callers, UpdateProbe(c) \/ UpdateWait(c) \/ UpdateHold(c)
    PROVE  TypeOK'
<1> USE StartupAssumptions DEF Answers
<1>1. CASE UpdateProbe(c)
    <2>1. ASSUME NEW a \in Agents
          PROVE  [call[c] EXCEPT !.at = "updatePost", !.seen = a] \in Calls
        BY CallUpdated DEF TypeOK, Places
    <2>2. ASSUME NEW a \in Agents,
                 call' = [call EXCEPT ![c] = [call[c] EXCEPT !.at = "updatePost", !.seen = a]]
          PROVE  call' \in [Callers -> Calls]
        BY <2>1, <2>2 DEF TypeOK
    <2>4. CallTyped
        BY <1>1, <2>2, AnswerTyped, CallMoves DEF UpdateProbe, CallTyped, Places, TypeOK
    <2>3. mishaps' \in 0 .. MaxMishaps
        BY <1>1, NoAnswerTyped DEF UpdateProbe, TypeOK
    <2> QED BY <1>1, <2>3, <2>4 DEF UpdateProbe, TypeOK, CallTyped
<1>2. CASE UpdateWait(c)
    <2>1. CallTyped
        BY <1>2, AnswerTyped, CallMoves DEF UpdateWait, CallTyped, Places, TypeOK
    <2>2. mishaps' \in 0 .. MaxMishaps
        BY <1>2, NoAnswerTyped DEF UpdateWait, TypeOK
    <2> QED BY <1>2, <2>1, <2>2 DEF UpdateWait, TypeOK, CallTyped
<1>3. CASE UpdateHold(c)
    <2>1. CallTyped
        BY <1>3, AnswerTyped, CallMoves DEF UpdateHold, CallTyped, Places, TypeOK
    <2> QED BY <1>3, <2>1 DEF UpdateHold, TypeOK, CallTyped
<1> QED BY <1>1, <1>2, <1>3

LEMMA LauncherTyped ==
    ASSUME TypeOK, \/ \E c \in Callers, want \in Wants : Ask(c, want)
                   \/ \E l \in Launchers : CancelUpdate(l) \/ LauncherExits(l)
    PROVE  TypeOK'
<1> USE StartupAssumptions
<1>1. ASSUME NEW c \in Callers, NEW want \in Wants, Ask(c, want) PROVE TypeOK'
    <2>1. call' \in [Callers -> Calls]
        BY <1>1, RestingTyped DEF Ask, TypeOK, Calls, Places, Wants
    <2>2. calls' \in 0 .. MaxCalls
        <3>1. calls \in 0 .. MaxCalls /\ calls < MaxCalls /\ calls' = calls + 1
            BY <1>1 DEF Ask, TypeOK
        <3> QED BY <3>1
    <2> QED BY <1>1, <2>1, <2>2 DEF Ask, TypeOK, locks
<1>2. ASSUME NEW l \in Launchers, CancelUpdate(l) PROVE TypeOK'
    BY <1>2 DEF CancelUpdate, TypeOK
<1>3. ASSUME NEW l \in Launchers, LauncherExits(l) PROVE TypeOK'
    <2>1. call' \in [Callers -> Calls]
        BY <1>3, RestingTyped DEF LauncherExits, TypeOK
    <2>2. mishaps' \in 0 .. MaxMishaps
        BY <1>3 DEF LauncherExits, Mishap, TypeOK
    <2> QED BY <1>3, <2>1, <2>2 DEF LauncherExits, TypeOK
<1> QED BY <1>1, <1>2, <1>3

LEMMA TypeStep == TypeOK /\ [Next]_vars => TypeOK'
<1> SUFFICES ASSUME TypeOK, [Next]_vars PROVE TypeOK'
    OBVIOUS
<1>1. CASE UNCHANGED vars
    BY <1>1 DEF vars, TypeOK
<1>2. ASSUME NEW c \in Callers, CallerNext(c) PROVE TypeOK'
    BY <1>2, StartTyped, SpawnTyped, StopTyped, UpdateTyped, LauncherTyped DEF CallerNext
<1> QED BY <1>1, <1>2, AgentTyped, LauncherTyped DEF Next

LEMMA TypeInit == Init => TypeOK
BY StartupAssumptions, RestingTyped DEF Init, TypeOK, Processes

\* Every variable keeps its type: the processes, the three files, and the requests of Launchers.
THEOREM TypeCorrect == Spec => []TypeOK
BY TypeInit, TypeStep, PTL DEF Spec
-----------------------------------------------------------------------------
Safe == LockFollowsOwner /\ LockFollowsCall /\ BootstrapIsHeld /\ CredentialFollowsOwner /\ MineIsAwaited

\* A step that leaves the requests alone and ends, or does not touch, the processes that own.
LEMMA AgentSafe == Ownership /\ AgentNext => Safe'
<1> SUFFICES ASSUME Ownership, AgentNext PROVE Safe'
    OBVIOUS
<1> USE StartupAssumptions DEF Ownership, Owning, Agents
<1>0. UNCHANGED <<call, bootstrap>>
    BY DEF AgentNext, UserStarts, AgentLocks, AgentPublishes, AgentServes, AgentDrains, AgentFails,
       UserStops, locks
<1>1. BootstrapIsHeld' /\ MineIsAwaited'
    BY <1>0 DEF BootstrapIsHeld, MineIsAwaited
<1>2. LockFollowsOwner' /\ CredentialFollowsOwner'
    <2>1. CASE UserStarts
        BY <2>1 DEF UserStarts, Born, LockFollowsOwner, CredentialFollowsOwner, TypeOK, Processes, locks
    <2>2. ASSUME NEW a \in Agents, AgentLocks(a) PROVE LockFollowsOwner' /\ CredentialFollowsOwner'
        <3>1. CASE lock = None
            BY <2>2, <3>1 DEF AgentLocks, LockFollowsOwner, CredentialFollowsOwner, TypeOK, Processes
        <3>2. CASE lock # None
            <4>1. agent' = [agent EXCEPT ![a].at = "gone"] /\ lock' = lock /\ UNCHANGED credential
                BY <2>2, <3>2 DEF AgentLocks, Ends, LockFollowsOwner
            <4> QED BY <2>2, <3>2, <4>1 DEF AgentLocks, LockFollowsOwner, CredentialFollowsOwner, TypeOK,
                       Processes
        <3> QED BY <3>1, <3>2
    <2>3. ASSUME NEW a \in Agents, AgentPublishes(a) PROVE LockFollowsOwner' /\ CredentialFollowsOwner'
        BY <2>3 DEF AgentPublishes, LockFollowsOwner, CredentialFollowsOwner, TypeOK, Processes, locks
    <2>4. ASSUME NEW a \in Agents, AgentServes(a) PROVE LockFollowsOwner' /\ CredentialFollowsOwner'
        BY <2>4 DEF AgentServes, LockFollowsOwner, CredentialFollowsOwner, TypeOK, Processes, locks
    <2>5. ASSUME NEW a \in Agents, AgentDrains(a) PROVE LockFollowsOwner' /\ CredentialFollowsOwner'
        BY <2>5 DEF AgentDrains, Ends, LockFollowsOwner, CredentialFollowsOwner, TypeOK, Processes
    <2>6. ASSUME NEW a \in Agents, AgentFails(a) PROVE LockFollowsOwner' /\ CredentialFollowsOwner'
        BY <2>6 DEF AgentFails, Ends, LockFollowsOwner, CredentialFollowsOwner, TypeOK, Processes
    <2>7. ASSUME NEW a \in Agents, UserStops(a) PROVE LockFollowsOwner' /\ CredentialFollowsOwner'
        BY <2>7 DEF UserStops, Serving, LockFollowsOwner, CredentialFollowsOwner, TypeOK, Processes, locks
    <2> QED BY <2>1, <2>2, <2>3, <2>4, <2>5, <2>6, <2>7 DEF AgentNext
<1>3. LockFollowsCall'
    <2>1. CASE lock' = lock
        BY <1>0, <2>1 DEF LockFollowsCall
    <2>2. ASSUME NEW a \in Agents, lock \in {None, a}, lock' \in {None, a} PROVE LockFollowsCall'
        <3>1. a \notin Callers /\ a \notin Launchers
            OBVIOUS
        <3>2. \A c \in Callers : call[c].at \notin {"holdLock", "updateHold"}
            BY <2>2, <3>1 DEF LockFollowsCall
        <3> QED BY <1>0, <2>2, <3>1, <3>2 DEF LockFollowsCall
    <2>3. lock' = lock \/ \E a \in Agents : lock \in {None, a} /\ lock' \in {None, a}
        BY DEF AgentNext, UserStarts, AgentLocks, AgentPublishes, AgentServes, AgentDrains, AgentFails,
           UserStops, Ends, locks
    <2> QED BY <2>1, <2>2, <2>3
<1> QED BY <1>1, <1>2, <1>3 DEF Safe

\* A request goes to a place, with the instance it waits for; the other requests stay.
Moves(c, place, instance) ==
    /\ \A d \in Callers : d # c => call'[d] = call[d]
    /\ call'[c].at = place /\ call'[c].mine = instance

LEMMA GotoMoves ==
    ASSUME TypeOK, NEW c \in Callers, NEW place, Goto(c, place)
    PROVE  Moves(c, place, call[c].mine)
BY DEF TypeOK, Calls, Goto, Moves

LEMMA RecordMoves ==
    ASSUME TypeOK, NEW c \in Callers, NEW r, call' = [call EXCEPT ![c] = r]
    PROVE  Moves(c, r.at, r.mine)
BY DEF TypeOK, Moves

LEMMA RecordFields ==
    ASSUME NEW r \in Calls, NEW place, NEW a, NEW o
    PROVE  /\ [r EXCEPT !.at = place, !.mine = a].at = place /\ [r EXCEPT !.at = place, !.mine = a].mine = a
           /\ [r EXCEPT !.at = place, !.seen = a].at = place
           /\ [r EXCEPT !.at = place, !.seen = a].mine = r.mine
           /\ [r EXCEPT !.at = place, !.seen = a, !.owned = o].at = place
           /\ [r EXCEPT !.at = place, !.seen = a, !.owned = o].mine = r.mine
BY DEF Calls

LEMMA AnswerMoves ==
    ASSUME TypeOK, NEW c \in Callers, NEW what, NEW who, Answer(c, what, who)
    PROVE  Moves(c, "idle", None) /\ bootstrap' = (IF bootstrap = c THEN None ELSE bootstrap)
BY DEF TypeOK, Answer, Moves, Resting, Leaves

LEMMA StoppedMoves ==
    ASSUME TypeOK, NEW c \in Callers, Stopped(c)
    PROVE  /\ \E place \in {"idle", "first", "startLock"} : Moves(c, place, None)
           /\ bootstrap' = (IF bootstrap = c THEN None ELSE bootstrap)
<1>1. CASE call[c].want = "stop"
    BY <1>1, AnswerMoves DEF Stopped
<1>2. CASE call[c].want # "stop"
    BY <1>2 DEF Stopped, TypeOK, Moves, Resting, Leaves
<1> QED BY <1>1, <1>2

LEMMA MoveSafe ==
    ASSUME Ownership, NEW c \in Callers, NEW place, NEW instance, Moves(c, place, instance),
           place \in Bootstrapping => bootstrap' = c,
           \/ bootstrap' = bootstrap
           \/ bootstrap = None
           \/ bootstrap' = IF bootstrap = c THEN None ELSE bootstrap,
           instance # None => place = "await"
    PROVE  BootstrapIsHeld' /\ MineIsAwaited'
BY StartupAssumptions DEF Ownership, BootstrapIsHeld, MineIsAwaited, Moves

\* A request that moves between places where no request holds the lifetime lock.
LEMMA LockStays ==
    ASSUME Ownership, NEW c \in Callers, NEW place, NEW instance, Moves(c, place, instance),
           call[c].at \notin {"holdLock", "updateHold"}, place \notin {"holdLock", "updateHold"},
           lock' = lock
    PROVE  LockFollowsCall'
BY DEF Ownership, LockFollowsCall, Moves

Lockless == {"idle", "first", "startLock", "second", "bootstrap", "third", "waitLock", "fourth", "spawn",
             "await", "awaitChild", "stopLock", "stopProbe", "post", "poll", "updateProbe",
             "updatePost", "updateWait"}

LEMMA StartSafe ==
    ASSUME Ownership, NEW c \in Callers,
           FirstProbe(c) \/ TakeOperation(c) \/ ProbeAgain(c) \/ TakeBootstrap(c)
    PROVE  Safe'
<1> USE StartupAssumptions DEF Ownership
<1>1. LockFollowsOwner' /\ CredentialFollowsOwner'
    BY DEF FirstProbe, TakeOperation, ProbeAgain, TakeBootstrap, LockFollowsOwner, CredentialFollowsOwner
<1>2. ASSUME NEW place, NEW instance, Moves(c, place, instance), place \notin {"holdLock", "updateHold"},
             call[c].at \notin {"holdLock", "updateHold"}, UNCHANGED lock
      PROVE  LockFollowsCall'
    BY <1>2, LockStays
<1>3. call[c].mine = None
    BY DEF MineIsAwaited, FirstProbe, TakeOperation, ProbeAgain, TakeBootstrap
<1>4. CASE FirstProbe(c)
    <2>1. \/ Moves(c, "stopLock", None) /\ UNCHANGED bootstrap
          \/ Moves(c, "startLock", None) /\ UNCHANGED bootstrap
          \/ Moves(c, "idle", None) /\ bootstrap' = (IF bootstrap = c THEN None ELSE bootstrap)
        BY <1>3, <1>4, GotoMoves, AnswerMoves DEF FirstProbe
    <2>2. BootstrapIsHeld' /\ MineIsAwaited'
        BY <2>1, MoveSafe DEF Bootstrapping
    <2>3. LockFollowsCall'
        BY <1>2, <1>4, <2>1 DEF FirstProbe
    <2> QED BY <1>1, <2>2, <2>3 DEF Safe
<1>5. CASE TakeOperation(c)
    <2>1. \/ Moves(c, "second", None) /\ UNCHANGED bootstrap
          \/ Moves(c, "stopProbe", None) /\ UNCHANGED bootstrap
        BY <1>3, <1>5, GotoMoves DEF TakeOperation
    <2>2. BootstrapIsHeld' /\ MineIsAwaited'
        BY <2>1, MoveSafe DEF Bootstrapping
    <2>3. LockFollowsCall'
        BY <1>2, <1>5, <2>1 DEF TakeOperation
    <2> QED BY <1>1, <2>2, <2>3 DEF Safe
<1>6. CASE ProbeAgain(c)
    <2>1. \/ \E place \in {"awaitChild", "waitLock", "spawn"} : Moves(c, place, None) /\ UNCHANGED bootstrap
                                                               /\ call[c].at \in Bootstrapping
          \/ Moves(c, "bootstrap", None) /\ UNCHANGED bootstrap
          \/ Moves(c, "idle", None) /\ bootstrap' = (IF bootstrap = c THEN None ELSE bootstrap)
        BY <1>3, <1>6, GotoMoves, AnswerMoves DEF ProbeAgain, Bootstrapping
    <2>2. BootstrapIsHeld' /\ MineIsAwaited'
        BY <2>1, MoveSafe DEF Bootstrapping, BootstrapIsHeld
    <2>3. LockFollowsCall'
        BY <1>2, <1>6, <2>1 DEF ProbeAgain
    <2> QED BY <1>1, <2>2, <2>3 DEF Safe
<1>7. CASE TakeBootstrap(c)
    <2>1. \/ Moves(c, "third", None) /\ bootstrap = None /\ bootstrap' = c
          \/ Moves(c, "idle", None) /\ bootstrap' = (IF bootstrap = c THEN None ELSE bootstrap)
        BY <1>3, <1>7, GotoMoves, AnswerMoves DEF TakeBootstrap
    <2>2. BootstrapIsHeld' /\ MineIsAwaited'
        BY <2>1, MoveSafe DEF Bootstrapping
    <2>3. LockFollowsCall'
        BY <1>2, <1>7, <2>1 DEF TakeBootstrap
    <2> QED BY <1>1, <2>2, <2>3 DEF Safe
<1> QED BY <1>4, <1>5, <1>6, <1>7

\* A process that ends gives up the root, and every request but one stays.
LEMMA EndSafe ==
    ASSUME Ownership, NEW a \in Agents, Ends(a), UNCHANGED credential
    PROVE  /\ LockFollowsOwner' /\ CredentialFollowsOwner'
           /\ lock' = lock \/ (lock = a /\ lock' = None)
BY StartupAssumptions DEF Ownership, Ends, LockFollowsOwner, CredentialFollowsOwner, TypeOK, Processes,
   Owning, Agents

LEMMA LockSafe ==
    ASSUME Ownership, NEW c \in Callers, ProbeLock(c) \/ DropLock(c)
    PROVE  Safe'
<1> USE StartupAssumptions DEF Ownership
<1>1. call[c].mine = None
    BY DEF MineIsAwaited, ProbeLock, DropLock
<1>2. CASE ProbeLock(c) /\ lock # None
    <2>1. Moves(c, "idle", None) /\ bootstrap' = (IF bootstrap = c THEN None ELSE bootstrap)
        BY <1>2, AnswerMoves DEF ProbeLock
    <2>2. BootstrapIsHeld' /\ MineIsAwaited'
        BY <2>1, MoveSafe DEF Bootstrapping
    <2>3. LockFollowsCall'
        BY <1>2, <2>1, LockStays DEF ProbeLock
    <2> QED BY <1>2, <2>2, <2>3 DEF Safe, ProbeLock, LockFollowsOwner, CredentialFollowsOwner
<1>3. CASE ProbeLock(c) /\ lock = None
    <2>1. Moves(c, "holdLock", None) /\ UNCHANGED bootstrap /\ lock' = c
        BY <1>1, <1>3, GotoMoves DEF ProbeLock
    <2>2. BootstrapIsHeld' /\ MineIsAwaited'
        BY <1>3, <2>1, MoveSafe DEF Bootstrapping, BootstrapIsHeld, ProbeLock
    <2>3. LockFollowsCall'
        BY <1>3, <2>1 DEF LockFollowsCall, Moves, TypeOK
    <2>4. LockFollowsOwner' /\ CredentialFollowsOwner'
        BY <1>3, <2>1 DEF ProbeLock, LockFollowsOwner, CredentialFollowsOwner, Agents
    <2> QED BY <2>2, <2>3, <2>4 DEF Safe
<1>4. CASE DropLock(c)
    <2>1. Moves(c, "fourth", None) /\ UNCHANGED bootstrap /\ lock = c /\ lock' = None
        BY <1>1, <1>4, GotoMoves DEF DropLock, LockFollowsCall
    <2>2. BootstrapIsHeld' /\ MineIsAwaited'
        BY <1>4, <2>1, MoveSafe DEF Bootstrapping, BootstrapIsHeld, DropLock
    <2>3. LockFollowsCall'
        BY <2>1 DEF LockFollowsCall, Moves, TypeOK
    <2>4. LockFollowsOwner' /\ CredentialFollowsOwner'
        BY <1>4, <2>1 DEF DropLock, LockFollowsOwner, CredentialFollowsOwner, Agents
    <2> QED BY <2>2, <2>3, <2>4 DEF Safe
<1> QED BY <1>2, <1>3, <1>4

LEMMA BornSafe ==
    ASSUME Ownership, NEW b \in Builds, Born(b), UNCHANGED <<lock, credential>>
    PROVE  LockFollowsOwner' /\ CredentialFollowsOwner'
<1> PICK a \in Agents : agent[a].at = "unborn" /\ agent' = [agent EXCEPT ![a] = [at |-> "boot", build |-> b]]
    BY DEF Born
<1> QED BY DEF Ownership, LockFollowsOwner, CredentialFollowsOwner, TypeOK, Owning

LEMMA SpawnSafe ==
    ASSUME Ownership, NEW c \in Callers, Spawn(c) \/ AwaitChild(c)
    PROVE  Safe'
<1> USE StartupAssumptions DEF Ownership
<1>1. CASE Spawn(c) /\ Born(Build[Home[c]])
    <2>1. LockFollowsOwner' /\ CredentialFollowsOwner'
        BY <1>1, BornSafe DEF Spawn
    <2>2. \/ \E a \in Agents : Moves(c, "await", a) /\ UNCHANGED bootstrap
          \/ Moves(c, "idle", None) /\ bootstrap' = (IF bootstrap = c THEN None ELSE bootstrap)
        <3>1. ASSUME NEW a \in Agents,
                     call' = [call EXCEPT ![c] = [call[c] EXCEPT !.at = "await", !.mine = a]]
              PROVE  Moves(c, "await", a)
            BY <3>1, RecordMoves, RecordFields DEF TypeOK, Moves
        <3> QED BY <1>1, <3>1, AnswerMoves DEF Spawn, TypeOK
    <2>3. BootstrapIsHeld' /\ MineIsAwaited'
        BY <1>1, <2>2, MoveSafe DEF Bootstrapping, BootstrapIsHeld, Spawn
    <2>4. LockFollowsCall'
        BY <1>1, <2>2, LockStays DEF Spawn
    <2> QED BY <2>1, <2>3, <2>4 DEF Safe
<1>2. CASE AwaitChild(c) \/ (Spawn(c) /\ UNCHANGED agent)
    <2>1. LockFollowsOwner' /\ CredentialFollowsOwner'
        BY <1>2 DEF Spawn, AwaitChild, LockFollowsOwner, CredentialFollowsOwner
    <2>2. Moves(c, "idle", None) /\ bootstrap' = (IF bootstrap = c THEN None ELSE bootstrap)
        BY <1>2, AnswerMoves DEF Spawn, AwaitChild
    <2>3. BootstrapIsHeld' /\ MineIsAwaited'
        BY <2>2, MoveSafe DEF Bootstrapping
    <2>4. LockFollowsCall'
        BY <1>2, <2>2, LockStays DEF Spawn, AwaitChild
    <2> QED BY <2>1, <2>3, <2>4 DEF Safe
<1> QED BY <1>1, <1>2 DEF Spawn

\* Ending the owned child, or nothing, frees at most that process's lock.
LEMMA KillSafe ==
    ASSUME Ownership, NEW l \in Launchers, KillChild(l), UNCHANGED credential
    PROVE  /\ LockFollowsOwner' /\ CredentialFollowsOwner'
           /\ lock' = lock \/ (lock \in Agents /\ lock' = None)
<1>1. CASE child[l] \in Agents
    BY <1>1, EndSafe DEF KillChild
<1>2. CASE child[l] = None
    <2>1. UNCHANGED <<agent, lock>>
        BY <1>2, StartupAssumptions DEF KillChild, Ends, Ownership, TypeOK, Agents
    <2> QED BY <2>1 DEF Ownership, LockFollowsOwner, CredentialFollowsOwner
<1> QED BY <1>1, <1>2 DEF Ownership, TypeOK

LEMMA FreedSafe ==
    ASSUME Ownership, NEW c \in Callers, NEW place, NEW instance, Moves(c, place, instance),
           call[c].at \notin {"holdLock", "updateHold"}, place \notin {"holdLock", "updateHold"},
           lock \in Agents, lock' = None
    PROVE  LockFollowsCall'
<1>1. lock \notin Callers /\ lock \notin Launchers
    BY StartupAssumptions DEF Agents
<1>2. \A d \in Callers : call[d].at \notin {"holdLock", "updateHold"}
    BY <1>1, StartupAssumptions DEF Ownership, LockFollowsCall
<1>3. \A d \in Callers : call'[d].at \notin {"holdLock", "updateHold"}
    BY <1>2 DEF Moves
<1> QED BY <1>3, StartupAssumptions DEF LockFollowsCall

LEMMA AwaitSafe ==
    ASSUME Ownership, NEW c \in Callers, Await(c) \/ Poll(c)
    PROVE  Safe'
<1> USE StartupAssumptions DEF Ownership
<1>1. /\ LockFollowsOwner' /\ CredentialFollowsOwner'
      /\ lock' = lock \/ (lock \in Agents /\ lock' = None)
    BY KillSafe DEF Await, Poll, LockFollowsOwner, CredentialFollowsOwner, TypeOK
<1>2. /\ \E place \in {"idle", "first", "startLock"} : Moves(c, place, None)
      /\ bootstrap' = (IF bootstrap = c THEN None ELSE bootstrap)
    BY AnswerMoves, StoppedMoves DEF Await, Poll
<1>3. BootstrapIsHeld' /\ MineIsAwaited'
    BY <1>2, MoveSafe DEF Bootstrapping
<1>4. LockFollowsCall'
    BY <1>1, <1>2, LockStays, FreedSafe DEF Await, Poll
<1> QED BY <1>1, <1>3, <1>4 DEF Safe

LEMMA StopSafe ==
    ASSUME Ownership, NEW c \in Callers,
           StopProbe(c) \/ Post(c) \/ UpdateProbe(c) \/ (\E want \in Wants : Ask(c, want))
    PROVE  Safe'
<1> USE StartupAssumptions DEF Ownership
<1>1. LockFollowsOwner' /\ CredentialFollowsOwner' /\ UNCHANGED lock
    <2>1. CASE Post(c)
        BY <2>1 DEF Post, Drains, Accepts, Serving, LockFollowsOwner, CredentialFollowsOwner, TypeOK,
           Processes, Owning
    <2> QED BY <2>1 DEF StopProbe, UpdateProbe, Ask, locks, LockFollowsOwner, CredentialFollowsOwner
<1>2. call[c].mine = None
    BY DEF MineIsAwaited, StopProbe, Post, UpdateProbe, Ask
<1>3. /\ call[c].at \notin {"holdLock", "updateHold"}
      /\ \E place \in Lockless \ Bootstrapping : Moves(c, place, None)
      /\ bootstrap' = bootstrap \/ bootstrap' = (IF bootstrap = c THEN None ELSE bootstrap)
    <2>1. CASE StopProbe(c)
        <3>1. ASSUME NEW a \in Agents, call' = [call EXCEPT ![c] =
                         [call[c] EXCEPT !.at = "post", !.seen = a, !.owned = Owned(c)]]
              PROVE  Moves(c, "post", None)
            BY <1>2, <3>1, RecordMoves, RecordFields DEF TypeOK, Moves
        <3> QED BY <2>1, <3>1, AnswerMoves, StoppedMoves DEF StopProbe, Lockless, Bootstrapping
    <2>2. CASE Post(c)
        BY <1>2, <2>2, AnswerMoves, GotoMoves DEF Post, Lockless, Bootstrapping
    <2>3. CASE UpdateProbe(c)
        <3>1. ASSUME NEW a \in Agents,
                     call' = [call EXCEPT ![c] = [call[c] EXCEPT !.at = "updatePost", !.seen = a]]
              PROVE  Moves(c, "updatePost", None)
            BY <1>2, <3>1, RecordMoves, RecordFields DEF TypeOK, Moves
        <3> QED BY <1>2, <2>3, <3>1, AnswerMoves, GotoMoves DEF UpdateProbe, Lockless, Bootstrapping
    <2>4. CASE \E want \in Wants : Ask(c, want)
        <3> PICK want \in Wants : Ask(c, want)
            BY <2>4
        <3> DEFINE place == CASE want = "start" -> "first"
                              [] want = "update" -> "updateProbe"
                              [] OTHER -> "stopLock"
        <3>1. [Resting EXCEPT !.want = want, !.at = place].at = place
              /\ [Resting EXCEPT !.want = want, !.at = place].mine = None
            BY DEF Resting
        <3>2. Moves(c, place, None)
            BY <3>1, RecordMoves DEF Ask, Moves
        <3>3. place \in Lockless \ Bootstrapping
            BY DEF Lockless, Bootstrapping
        <3> HIDE DEF place
        <3> QED BY <3>2, <3>3 DEF Ask, locks
    <2> QED BY <2>1, <2>2, <2>3, <2>4
<1>4. BootstrapIsHeld' /\ MineIsAwaited'
    BY <1>3, MoveSafe
<1>5. LockFollowsCall'
    BY <1>1, <1>3, LockStays DEF Lockless
<1> QED BY <1>1, <1>4, <1>5 DEF Safe

LEMMA UpdateSafe ==
    ASSUME Ownership, NEW c \in Callers, UpdateWait(c) \/ UpdateHold(c)
    PROVE  Safe'
<1> USE StartupAssumptions DEF Ownership
<1>1. call[c].mine = None
    BY DEF MineIsAwaited, UpdateWait, UpdateHold
<1>2. UNCHANGED <<agent, credential>>
    BY DEF UpdateWait, UpdateHold
<1>3. CASE UpdateWait(c)
    <2>1. \/ Moves(c, "updateHold", None) /\ UNCHANGED bootstrap /\ lock = None /\ lock' = Home[c]
          \/ /\ Moves(c, "idle", None) /\ bootstrap' = (IF bootstrap = c THEN None ELSE bootstrap)
             /\ UNCHANGED lock
        BY <1>1, <1>3, AnswerMoves, GotoMoves DEF UpdateWait
    <2>2. BootstrapIsHeld' /\ MineIsAwaited'
        BY <2>1, MoveSafe DEF Bootstrapping
    <2>3. LockFollowsOwner' /\ CredentialFollowsOwner'
        BY <1>2, <2>1 DEF LockFollowsOwner, CredentialFollowsOwner, Agents
    <2>4. LockFollowsCall'
        <3>1. CASE Moves(c, "updateHold", None) /\ lock = None /\ lock' = Home[c]
            <4>1. \A d \in Callers : call[d].at \notin {"holdLock", "updateHold"}
                BY <3>1 DEF LockFollowsCall
            <4>2. \A d \in Callers : d # c => call'[d].at \notin {"holdLock", "updateHold"}
                BY <3>1, <4>1 DEF Moves
            <4> QED BY <3>1, <4>2 DEF LockFollowsCall, Moves
        <3>2. CASE Moves(c, "idle", None) /\ UNCHANGED lock
            BY <1>3, <3>2, LockStays DEF UpdateWait
        <3> QED BY <2>1, <3>1, <3>2
    <2> QED BY <2>2, <2>3, <2>4 DEF Safe
<1>4. CASE UpdateHold(c)
    <2>1. lock = Home[c]
        BY <1>4 DEF UpdateHold, LockFollowsCall
    <2>2. \/ Moves(c, "updateWait", None) /\ UNCHANGED bootstrap /\ lock' = None
          \/ /\ Moves(c, "idle", None) /\ bootstrap' = (IF bootstrap = c THEN None ELSE bootstrap)
             /\ UNCHANGED lock
        BY <1>1, <1>4, AnswerMoves, GotoMoves DEF UpdateHold
    <2>3. BootstrapIsHeld' /\ MineIsAwaited'
        BY <2>2, MoveSafe DEF Bootstrapping
    <2>4. LockFollowsOwner' /\ CredentialFollowsOwner'
        BY <1>2, <2>1, <2>2 DEF LockFollowsOwner, CredentialFollowsOwner, Agents
    <2>5. LockFollowsCall'
        <3>1. \A d \in Callers : call[d].at # "holdLock"
            BY <2>1 DEF LockFollowsCall
        <3>2. \A d \in Callers : d # c => call[d].at # "updateHold"
            BY <1>4, <2>1 DEF LockFollowsCall, UpdateHold
        <3>3. \A d \in Callers : call'[d].at \notin {"holdLock", "updateHold"} /\ lock' # d
            BY <2>1, <2>2, <3>1, <3>2 DEF Moves
        <3> QED BY <3>3 DEF LockFollowsCall
    <2> QED BY <2>3, <2>4, <2>5 DEF Safe
<1> QED BY <1>3, <1>4

LEMMA LauncherSafe ==
    ASSUME Ownership, NEW l \in Launchers, CancelUpdate(l) \/ LauncherExits(l)
    PROVE  Safe'
<1> USE StartupAssumptions DEF Ownership
<1>1. CASE CancelUpdate(l)
    <2>1. lock = l /\ lock' = None /\ UNCHANGED <<agent, credential, call, bootstrap>>
        BY <1>1 DEF CancelUpdate
    <2>2. \A c \in Callers : call[c].at \notin {"holdLock", "updateHold"}
        BY <1>1, <2>1 DEF CancelUpdate, LockFollowsCall
    <2> QED BY <2>1, <2>2 DEF Safe, LockFollowsOwner, LockFollowsCall, BootstrapIsHeld,
               CredentialFollowsOwner, MineIsAwaited, Agents
<1>2. CASE LauncherExits(l)
    <2> DEFINE own == {c \in Callers : Home[c] = l}
    <2>1. /\ UNCHANGED <<agent, credential>>
          /\ bootstrap' = IF bootstrap \in own \cup {l} THEN None ELSE bootstrap
          /\ lock' = IF lock \in own \cup {l} THEN None ELSE lock
          /\ \A c \in Callers : call'[c] = IF c \in own THEN Resting ELSE call[c]
        BY <1>2 DEF LauncherExits
    <2>2. \A c \in own : call'[c].at = "idle" /\ call'[c].mine = None
        BY <2>1 DEF Resting
    <2>3. \A c \in Callers \ own : call'[c] = call[c] /\ c # l /\ Home[c] # l
        BY <2>1
    <2>4. LockFollowsOwner' /\ CredentialFollowsOwner'
        BY <2>1 DEF LockFollowsOwner, CredentialFollowsOwner, Agents
    <2>5. BootstrapIsHeld' /\ MineIsAwaited'
        BY <2>1, <2>2, <2>3 DEF BootstrapIsHeld, MineIsAwaited, Bootstrapping
    <2>6. LockFollowsCall'
        <3>1. \A c \in Callers : lock' = c <=> call'[c].at = "holdLock"
            BY <2>1, <2>2, <2>3 DEF LockFollowsCall
        <3>2. \A c \in Callers : call'[c].at = "updateHold" => lock' = Home[c]
            BY <2>1, <2>2, <2>3 DEF LockFollowsCall
        <3>3. \A c, d \in Callers : /\ call'[c].at = "updateHold" /\ call'[d].at = "updateHold"
                                    /\ Home[c] = Home[d]
                                    => c = d
            BY <2>2, <2>3 DEF LockFollowsCall
        <3> QED BY <3>1, <3>2, <3>3 DEF LockFollowsCall
    <2> QED BY <2>4, <2>5, <2>6 DEF Safe
<1> QED BY <1>1, <1>2

LEMMA OwnershipStep == Ownership /\ [Next]_vars => Ownership'
<1> SUFFICES ASSUME Ownership, [Next]_vars PROVE Ownership'
    OBVIOUS
<1>1. TypeOK'
    BY TypeStep DEF Ownership
<1>2. CASE UNCHANGED vars
    BY <1>1, <1>2 DEF vars, Ownership, LockFollowsOwner, LockFollowsCall, BootstrapIsHeld,
       CredentialFollowsOwner, MineIsAwaited
<1>3. ASSUME NEW c \in Callers, CallerNext(c) PROVE Safe'
    BY <1>3, StartSafe, LockSafe, SpawnSafe, AwaitSafe, StopSafe, UpdateSafe DEF CallerNext
<1>4. CASE Next
    BY <1>1, <1>3, <1>4, AgentSafe, LauncherSafe DEF Next, Ownership, Safe
<1> QED BY <1>2, <1>4

LEMMA OwnershipInit == Init => Ownership
<1> SUFFICES ASSUME Init PROVE Ownership
    OBVIOUS
<1>1. TypeOK
    BY TypeInit
<1>2. LockFollowsOwner /\ CredentialFollowsOwner
    BY StartupAssumptions DEF Init, LockFollowsOwner, CredentialFollowsOwner, Owning, Agents
<1>3. LockFollowsCall /\ BootstrapIsHeld /\ MineIsAwaited
    BY StartupAssumptions DEF Init, LockFollowsCall, BootstrapIsHeld, Bootstrapping, MineIsAwaited, Resting
<1> QED BY <1>1, <1>2, <1>3 DEF Ownership

LEMMA OwnershipHolds == Spec => []Ownership
BY OwnershipInit, OwnershipStep, PTL DEF Spec
-----------------------------------------------------------------------------
\* At most one process owns the data root, and none does while an update holds it.
THEOREM OneAgentOwns == Spec => []OneOwner
<1>1. Ownership => OneOwner
    BY StartupAssumptions DEF Ownership, LockFollowsOwner, OneOwner, Agents
<1> QED BY <1>1, OwnershipHolds, PTL

\* The credential on disk is the one of the Agent that serves.
THEOREM ServerStaysAuthorised == Spec => []ServerIsAuthorised
<1>1. Ownership => ServerIsAuthorised
    BY DEF Ownership, CredentialFollowsOwner, ServerIsAuthorised, Serving
<1> QED BY <1>1, OwnershipHolds, PTL

\* A spawned Agent does not lose its root to the lock probe of another start.
THEOREM BootStaysUndisturbed == Spec => []BootIsUndisturbed
<1>1. Ownership => BootIsUndisturbed
    <2> SUFFICES ASSUME Ownership, NEW c \in Callers, call[c].at = "await", NEW d \in Callers, lock = d
                 PROVE  FALSE
        BY DEF BootIsUndisturbed
    <2>1. bootstrap = c /\ call[d].at = "holdLock"
        BY DEF Ownership, BootstrapIsHeld, LockFollowsCall, Bootstrapping
    <2>2. bootstrap = d
        BY <2>1 DEF Ownership, BootstrapIsHeld, Bootstrapping
    <2> QED BY <2>1, <2>2
<1> QED BY <1>1, OwnershipHolds, PTL
-----------------------------------------------------------------------------
\* What a request that answers has seen.
Honest(c) ==
    Returns(c) /\ call'[c].answer \in {"running", "started"} =>
        LET a == call'[c].with IN
        /\ Serving(a) /\ Fresh(c, a)
        /\ call[c].mine # None => a = call[c].mine

\* A stop that counts as done leaves its Launcher without a live child.
Patient(c) ==
    /\ call[c].at \in {"stopProbe", "poll"}
    /\ \/ call'[c].at \in {"first", "startLock"}
       \/ Returns(c) /\ call'[c].answer = "stopped"
    => ~ChildAlive(Home[c])

LEMMA AnswerRecord ==
    ASSUME TypeOK, NEW c \in Callers, NEW what, NEW who, Answer(c, what, who)
    PROVE  call'[c].at = "idle" /\ call'[c].answer = what /\ call'[c].with = who
<1>1. call'[c] = [Resting EXCEPT !.answer = what, !.with = who]
    BY DEF Answer, TypeOK
<1> QED BY <1>1 DEF Resting

\* A request that does not return yet, and is not a stop, is honest and patient.
LEMMA GotoIsHonest ==
    ASSUME TypeOK, NEW c \in Callers, NEW place, Moves(c, place, call[c].mine) \/ Goto(c, place),
           place # "idle"
    PROVE  Honest(c)
BY DEF Honest, Returns, Moves, Goto, TypeOK, Calls

LEMMA FailureIsHonest ==
    ASSUME TypeOK, NEW c \in Callers, Answer(c, "failed", None) \/ Answer(c, "ready", None)
                                      \/ Answer(c, "stopped", None)
    PROVE  Honest(c)
BY AnswerRecord DEF Honest

LEMMA StoppedIsHonest ==
    ASSUME TypeOK, NEW c \in Callers, Stopped(c)
    PROVE  Honest(c)
<1>1. CASE call[c].want = "stop"
    BY <1>1, FailureIsHonest DEF Stopped
<1>2. CASE call[c].want # "stop"
    <2> DEFINE place == IF call[c].want = "restart" THEN "first" ELSE "startLock"
    <2>1. call'[c] = [Resting EXCEPT !.want = call[c].want, !.at = place]
        BY <1>2 DEF Stopped, TypeOK
    <2>2. call'[c].at = place
        BY <2>1 DEF Resting
    <2> QED BY <2>2 DEF Honest, Returns
<1> QED BY <1>1, <1>2

\* An answer that names an Agent that serves, of the installed generation.
LEMMA ServedIsHonest ==
    ASSUME TypeOK, NEW c \in Callers, NEW a \in Agents, NEW what, Answer(c, what, a),
           Serving(a), Fresh(c, a), call[c].mine # None => a = call[c].mine
    PROVE  Honest(c)
BY AnswerRecord DEF Honest

LEMMA OwnStepIsHonest ==
    ASSUME Ownership, NEW c \in Callers, CallerNext(c)
    PROVE  Honest(c)
<1> USE DEF Ownership
<1>1. CASE \E want \in Wants : Ask(c, want)
    BY <1>1 DEF Ask, Honest, Returns
<1>2. CASE FirstProbe(c)
    BY <1>2, GotoIsHonest, ServedIsHonest DEF FirstProbe, MineIsAwaited
<1>3. CASE TakeOperation(c)
    BY <1>3, GotoIsHonest DEF TakeOperation
<1>4. CASE ProbeAgain(c)
    BY <1>4, GotoIsHonest, ServedIsHonest, FailureIsHonest DEF ProbeAgain, MineIsAwaited
<1>5. CASE TakeBootstrap(c) \/ ProbeLock(c) \/ DropLock(c)
    BY <1>5, GotoIsHonest, FailureIsHonest DEF TakeBootstrap, ProbeLock, DropLock
<1>6. CASE Spawn(c)
    <2>1. ASSUME NEW a \in Agents,
                 call' = [call EXCEPT ![c] = [call[c] EXCEPT !.at = "await", !.mine = a]]
          PROVE  Honest(c)
        BY <2>1, RecordMoves, RecordFields DEF TypeOK, Moves, Honest, Returns
    <2> QED BY <1>6, <2>1, FailureIsHonest DEF Spawn
<1>7. CASE Await(c)
    BY <1>7, ServedIsHonest, FailureIsHonest DEF Await
<1>8. CASE AwaitChild(c)
    BY <1>8, ServedIsHonest, FailureIsHonest DEF AwaitChild, MineIsAwaited
<1>9. CASE StopProbe(c)
    <2>1. ASSUME NEW a \in Agents, call' = [call EXCEPT ![c] =
                     [call[c] EXCEPT !.at = "post", !.seen = a, !.owned = Owned(c)]]
          PROVE  Honest(c)
        BY <2>1, RecordMoves, RecordFields DEF TypeOK, Moves, Honest, Returns
    <2> QED BY <1>9, <2>1, FailureIsHonest, StoppedIsHonest DEF StopProbe
<1>10. CASE Post(c) \/ UpdateWait(c) \/ UpdateHold(c)
    BY <1>10, GotoIsHonest, FailureIsHonest DEF Post, UpdateWait, UpdateHold
<1>11. CASE Poll(c)
    BY <1>11, StoppedIsHonest, FailureIsHonest DEF Poll
<1>12. CASE UpdateProbe(c)
    <2>1. ASSUME NEW a \in Agents,
                 call' = [call EXCEPT ![c] = [call[c] EXCEPT !.at = "updatePost", !.seen = a]]
          PROVE  Honest(c)
        BY <2>1, RecordMoves, RecordFields DEF TypeOK, Moves, Honest, Returns
    <2> QED BY <1>12, <2>1, GotoIsHonest, FailureIsHonest DEF UpdateProbe
<1> QED BY <1>1, <1>2, <1>3, <1>4, <1>5, <1>6, <1>7, <1>8, <1>9, <1>10, <1>11, <1>12 DEF CallerNext

LEMMA OwnStepIsPatient ==
    ASSUME Ownership, Stopping, NEW c \in Callers, CallerNext(c)
    PROVE  Patient(c)
<1> USE DEF Ownership
<1> SUFFICES ASSUME call[c].at \in {"stopProbe", "poll"},
                    \/ call'[c].at \in {"first", "startLock"}
                    \/ Returns(c) /\ call'[c].answer = "stopped"
             PROVE  ~ChildAlive(Home[c])
    BY DEF Patient
<1>1. StopProbe(c) \/ Poll(c)
    BY DEF CallerNext, Ask, FirstProbe, TakeOperation, ProbeAgain, TakeBootstrap, ProbeLock, DropLock,
       Spawn, Await, AwaitChild, Post, UpdateProbe, UpdateWait, UpdateHold
<1>2. ~Answer(c, "failed", None)
    BY AnswerRecord
<1>3. CASE StopProbe(c)
    <2>1. ASSUME NEW a \in Agents, call' = [call EXCEPT ![c] =
                     [call[c] EXCEPT !.at = "post", !.seen = a, !.owned = Owned(c)]]
          PROVE  FALSE
        BY <2>1, RecordMoves, RecordFields DEF TypeOK, Moves, Returns
    <2> QED BY <1>2, <1>3, <2>1 DEF StopProbe
<1>4. CASE Poll(c)
    <2>1. IF call[c].owned # None THEN ~Alive(call[c].owned) ELSE TRUE
        BY <1>2, <1>4 DEF Poll
    <2> QED BY <1>4, <2>1 DEF Poll, Stopping, OwnedIsChild, ChildAlive
<1> QED BY <1>1, <1>3, <1>4

\* The other requests stay as they are, or lose their Launcher.
LEMMA OthersRest ==
    ASSUME Ownership, [Next]_vars, NEW c \in Callers, ~CallerNext(c)
    PROVE  call'[c] = call[c] \/ call'[c] = Resting
<1>1. ASSUME NEW d \in Callers, d # c, CallerNext(d) PROVE call'[c] = call[c]
    <2> USE DEF Ownership
    <2>1. ASSUME NEW r, call' = [call EXCEPT ![d] = r] PROVE call'[c] = call[c]
        BY <1>1, <2>1
    <2>2. ASSUME NEW place, Goto(d, place) PROVE call'[c] = call[c]
        BY <1>1, <2>2 DEF Goto
    <2>3. ASSUME NEW what, NEW who, Answer(d, what, who) PROVE call'[c] = call[c]
        BY <1>1, <2>3 DEF Answer
    <2>4. ASSUME Stopped(d) PROVE call'[c] = call[c]
        <3>1. CASE call[d].want = "stop"
            BY <2>3, <2>4, <3>1 DEF Stopped
        <3>2. CASE call[d].want # "stop"
            BY <2>1, <2>4, <3>2 DEF Stopped
        <3> QED BY <3>1, <3>2
    <2>5. CASE \E want \in Wants : Ask(d, want)
        BY <2>1, <2>5 DEF Ask
    <2>6. CASE FirstProbe(d) \/ TakeOperation(d) \/ ProbeAgain(d) \/ TakeBootstrap(d) \/ ProbeLock(d)
               \/ DropLock(d)
        BY <2>2, <2>3, <2>6 DEF FirstProbe, TakeOperation, ProbeAgain, TakeBootstrap, ProbeLock, DropLock
    <2>7. CASE Spawn(d) \/ Await(d) \/ AwaitChild(d)
        BY <2>1, <2>3, <2>7 DEF Spawn, Await, AwaitChild
    <2>8. CASE StopProbe(d) \/ Post(d) \/ Poll(d)
        BY <2>1, <2>2, <2>3, <2>4, <2>8 DEF StopProbe, Post, Poll
    <2>9. CASE UpdateProbe(d) \/ UpdateWait(d) \/ UpdateHold(d)
        BY <2>1, <2>2, <2>3, <2>9 DEF UpdateProbe, UpdateWait, UpdateHold
    <2> QED BY <1>1, <2>5, <2>6, <2>7, <2>8, <2>9 DEF CallerNext
<1>2. CASE UNCHANGED call
    BY <1>2
<1>3. CASE \E l \in Launchers : LauncherExits(l)
    BY <1>3 DEF LauncherExits
<1>4. ASSUME \/ AgentNext \/ (\E l \in Launchers : CancelUpdate(l)) \/ UNCHANGED vars
      PROVE  UNCHANGED call
    BY <1>4 DEF AgentNext, UserStarts, AgentLocks, AgentPublishes, AgentServes, AgentDrains, AgentFails,
       UserStops, CancelUpdate, vars
<1> QED BY <1>1, <1>2, <1>3, <1>4 DEF Next

LEMMA StepIsHonest ==
    ASSUME Ownership, [Next]_vars, NEW c \in Callers
    PROVE  Honest(c) /\ (Stopping => Patient(c))
<1>1. CASE CallerNext(c)
    BY <1>1, OwnStepIsHonest, OwnStepIsPatient
<1>2. CASE ~CallerNext(c)
    <2>1. call'[c] = call[c] \/ call'[c] = Resting
        BY <1>2, OthersRest
    <2>2. call'[c] = call[c] => Honest(c) /\ Patient(c)
        BY DEF Honest, Patient, Returns
    <2>3. call'[c] = Resting => Honest(c) /\ Patient(c)
        BY DEF Honest, Patient, Resting
    <2> QED BY <2>1, <2>2, <2>3
<1> QED BY <1>1, <1>2
-----------------------------------------------------------------------------
\* Processes are not born again, and do not come back.
Onwards == \A a \in Agents : /\ agent[a].at # "unborn" => agent'[a].at # "unborn"
                             /\ agent[a].at = "gone" => agent'[a].at = "gone"

LEMMA PlaceOnwards ==
    ASSUME TypeOK, NEW b, NEW place, agent' = [agent EXCEPT ![b].at = place],
           place # "unborn", place # "gone" => agent[b].at # "gone"
    PROVE  Onwards
BY DEF TypeOK, Processes, Onwards

LEMMA BornOnwards ==
    ASSUME TypeOK, NEW b \in Builds, Born(b)
    PROVE  Onwards
BY DEF TypeOK, Born, Onwards

LEMMA StepOnwards == TypeOK /\ [Next]_vars => Onwards
<1> SUFFICES ASSUME TypeOK, [Next]_vars PROVE Onwards
    OBVIOUS
<1> USE StartupAssumptions
<1>1. UNCHANGED agent => Onwards
    BY DEF Onwards
<1>2. ASSUME NEW b, Ends(b) PROVE Onwards
    BY <1>2, PlaceOnwards DEF Ends
<1>3. CASE AgentNext
    BY <1>2, <1>3, PlaceOnwards, BornOnwards DEF AgentNext, UserStarts, AgentLocks, AgentPublishes,
       AgentServes, AgentDrains, AgentFails, UserStops, Serving
<1>4. ASSUME NEW c \in Callers, CallerNext(c) PROVE Onwards
    <2>1. CASE Spawn(c)
        BY <1>1, <2>1, BornOnwards DEF Spawn
    <2>2. CASE Await(c) \/ Poll(c)
        BY <1>1, <1>2, <2>2 DEF Await, Poll, KillChild
    <2>3. CASE Post(c)
        BY <1>1, <2>3, PlaceOnwards DEF Post, Drains, Accepts, Serving
    <2> QED BY <1>1, <1>4, <2>1, <2>2, <2>3 DEF CallerNext, Ask, FirstProbe, TakeOperation, ProbeAgain,
            TakeBootstrap, ProbeLock, DropLock, AwaitChild, StopProbe, UpdateProbe, UpdateWait, UpdateHold
<1>5. CASE UNCHANGED agent
    BY <1>1, <1>5
<1> QED BY <1>3, <1>4, <1>5 DEF Next, CancelUpdate, LauncherExits, vars

\* A Launcher's child changes only under its operation mutex, or with the Launcher.
LEMMA ChildChanges ==
    ASSUME TypeOK, [Next]_vars, NEW l \in Launchers
    PROVE  \/ child'[l] = child[l]
           \/ /\ \E c \in Callers : Home[c] = l /\ CallerNext(c) /\ call[c].at \in {"spawn", "await", "poll"}
              /\ child'[l] # None => agent'[child'[l]].at # "unborn"
           \/ LauncherExits(l) /\ child'[l] = None
<1> USE StartupAssumptions
<1>1. ASSUME NEW c \in Callers, Spawn(c), child' # child
      PROVE  /\ child'[l] # child[l] => Home[c] = l
             /\ child'[l] # child[l] /\ child'[l] # None => agent'[child'[l]].at # "unborn"
    <2>1. PICK b \in Agents : /\ agent[b].at = "unborn"
                              /\ agent' = [agent EXCEPT ![b] = [at |-> "boot", build |-> Build[Home[c]]]]
        BY <1>1 DEF Spawn, Born
    <2>2. PICK a \in Agents : agent'[a] # agent[a] /\ child' = [child EXCEPT ![Home[c]] = a]
        BY <1>1 DEF Spawn
    <2>3. a = b
        BY <2>1, <2>2 DEF TypeOK
    <2> QED BY <2>1, <2>2, <2>3 DEF TypeOK
<1>2. ASSUME NEW c \in Callers, CallerNext(c) PROVE
          \/ child'[l] = child[l]
          \/ /\ Home[c] = l /\ call[c].at \in {"spawn", "await", "poll"}
             /\ child'[l] # None => agent'[child'[l]].at # "unborn"
    <2>1. CASE Spawn(c)
        BY <1>1, <2>1 DEF Spawn
    <2>2. CASE Await(c) \/ Poll(c)
        BY <2>2 DEF Await, Poll, KillChild, TypeOK
    <2> QED BY <1>2, <2>1, <2>2 DEF CallerNext, Ask, FirstProbe, TakeOperation, ProbeAgain, TakeBootstrap,
            ProbeLock, DropLock, AwaitChild, StopProbe, Post, UpdateProbe, UpdateWait, UpdateHold
<1>3. ASSUME NEW k \in Launchers, LauncherExits(k) PROVE
          child'[l] = child[l] \/ (LauncherExits(l) /\ child'[l] = None)
    BY <1>3 DEF LauncherExits, TypeOK
<1>4. CASE UNCHANGED child
    BY <1>4
<1> QED BY <1>2, <1>3, <1>4 DEF Next, AgentNext, UserStarts, AgentLocks, AgentPublishes, AgentServes,
        AgentDrains, AgentFails, UserStops, CancelUpdate, vars

\* The mutex of a Launcher is given up only by the request that holds it.
LEMMA OperationChanges ==
    ASSUME TypeOK, OperationIsHeld, [Next]_vars
    PROVE  OperationIsHeld'
<1> USE StartupAssumptions DEF OperationIsHeld
<1>1. ASSUME NEW c \in Callers, NEW place, NEW instance, Moves(c, place, instance), Leaves(c),
             place \notin Operating
      PROVE  OperationIsHeld'
    BY <1>1 DEF Moves, Leaves, TypeOK
<1>2. ASSUME NEW c \in Callers, NEW place, NEW instance, Moves(c, place, instance), UNCHANGED operation,
             place \in Operating => call[c].at \in Operating
      PROVE  OperationIsHeld'
    BY <1>2 DEF Moves
<1>3. ASSUME NEW c \in Callers, NEW what, NEW who, Answer(c, what, who) PROVE OperationIsHeld'
    BY <1>1, <1>3, AnswerMoves DEF Answer, Operating, Bootstrapping
<1>4. ASSUME NEW c \in Callers, Stopped(c) PROVE OperationIsHeld'
    BY <1>1, <1>4, StoppedMoves DEF Stopped, Answer, Operating, Bootstrapping
<1>5. ASSUME NEW c \in Callers, NEW place, Goto(c, place), UNCHANGED operation,
             place \in Operating => call[c].at \in Operating
      PROVE  OperationIsHeld'
    BY <1>2, <1>5, GotoMoves
<1>6. ASSUME NEW c \in Callers, CallerNext(c) PROVE OperationIsHeld'
    <2> USE DEF Operating, Bootstrapping
    <2>1. CASE \E want \in Wants : Ask(c, want)
        <3> PICK want \in Wants : Ask(c, want)
            BY <2>1
        <3> DEFINE place == CASE want = "start" -> "first"
                              [] want = "update" -> "updateProbe"
                              [] OTHER -> "stopLock"
        <3>1. [Resting EXCEPT !.want = want, !.at = place].at = place
              /\ [Resting EXCEPT !.want = want, !.at = place].mine = None
            BY DEF Resting
        <3>2. Moves(c, [Resting EXCEPT !.want = want, !.at = place].at,
                    [Resting EXCEPT !.want = want, !.at = place].mine)
            BY RecordMoves DEF Ask
        <3>3. Moves(c, place, None)
            BY <3>1, <3>2 DEF Moves
        <3>4. place \notin Operating
            OBVIOUS
        <3>5. UNCHANGED operation
            BY DEF Ask, locks
        <3> HIDE DEF place, Operating
        <3> QED BY <1>2, <3>3, <3>4, <3>5
    <2>2. CASE FirstProbe(c) \/ ProbeAgain(c) \/ TakeBootstrap(c) \/ ProbeLock(c) \/ DropLock(c)
        BY <1>3, <1>5, <2>2 DEF FirstProbe, ProbeAgain, TakeBootstrap, ProbeLock, DropLock
    <2>3. CASE TakeOperation(c)
        BY <2>3, GotoMoves DEF TakeOperation, Moves, TypeOK
    <2>4. CASE Spawn(c)
        <3>1. ASSUME NEW a \in Agents,
                     call' = [call EXCEPT ![c] = [call[c] EXCEPT !.at = "await", !.mine = a]]
              PROVE  Moves(c, "await", a)
            BY <3>1, RecordMoves, RecordFields DEF TypeOK, Moves
        <3> QED BY <1>2, <1>3, <2>4, <3>1 DEF Spawn
    <2>5. CASE Await(c) \/ AwaitChild(c)
        BY <1>3, <2>5 DEF Await, AwaitChild
    <2>6. CASE StopProbe(c)
        <3>1. ASSUME NEW a \in Agents, call' = [call EXCEPT ![c] =
                         [call[c] EXCEPT !.at = "post", !.seen = a, !.owned = Owned(c)]]
              PROVE  Moves(c, "post", call[c].mine)
            BY <3>1, RecordMoves, RecordFields DEF TypeOK, Moves
        <3> QED BY <1>2, <1>3, <1>4, <2>6, <3>1 DEF StopProbe
    <2>7. CASE Post(c) \/ Poll(c)
        BY <1>3, <1>4, <1>5, <2>7 DEF Post, Poll
    <2>8. CASE UpdateProbe(c)
        <3>1. ASSUME NEW a \in Agents,
                     call' = [call EXCEPT ![c] = [call[c] EXCEPT !.at = "updatePost", !.seen = a]]
              PROVE  Moves(c, "updatePost", call[c].mine)
            BY <3>1, RecordMoves, RecordFields DEF TypeOK, Moves
        <3> QED BY <1>2, <1>3, <1>5, <2>8, <3>1 DEF UpdateProbe
    <2>9. CASE UpdateWait(c) \/ UpdateHold(c)
        BY <1>3, <1>5, <2>9 DEF UpdateWait, UpdateHold
    <2> QED BY <1>6, <2>1, <2>2, <2>3, <2>4, <2>5, <2>6, <2>7, <2>8, <2>9 DEF CallerNext
<1>7. ASSUME NEW l \in Launchers, LauncherExits(l) PROVE OperationIsHeld'
    BY <1>7 DEF LauncherExits, Resting, Operating, Bootstrapping, TypeOK
<1>8. CASE UNCHANGED <<call, operation>>
    BY <1>8
<1> QED BY <1>6, <1>7, <1>8 DEF Next, AgentNext, UserStarts, AgentLocks, AgentPublishes, AgentServes,
        AgentDrains, AgentFails, UserStops, CancelUpdate, vars, locks

\* A request gets to its shutdown from the probe that noted the child, and then waits.
LEMMA StopIsEntered ==
    ASSUME TypeOK, NEW c \in Callers, CallerNext(c), call'[c].at \in {"post", "poll"}
    PROVE  /\ UNCHANGED child
           /\ \/ call'[c].owned = Owned(c) /\ UNCHANGED agent
              \/ call[c].at = "post" /\ call'[c].owned = call[c].owned
<1>1. ASSUME NEW place, Goto(c, place)
      PROVE  call'[c].at = place /\ call'[c].owned = call[c].owned
    BY <1>1 DEF TypeOK, Calls, Goto
<1>2. ASSUME NEW what, NEW who, Answer(c, what, who) PROVE FALSE
    BY <1>2, AnswerMoves DEF Moves
<1>3. ~Stopped(c)
    BY StoppedMoves DEF Moves
<1>4. ASSUME NEW r, call' = [call EXCEPT ![c] = r] PROVE call'[c] = r
    BY <1>4 DEF TypeOK
<1>5. CASE \E want \in Wants : Ask(c, want)
    BY <1>4, <1>5 DEF Ask, Resting
<1>6. ~(FirstProbe(c) \/ TakeOperation(c) \/ ProbeAgain(c) \/ TakeBootstrap(c) \/ ProbeLock(c)
        \/ DropLock(c))
    BY <1>1, <1>2 DEF FirstProbe, TakeOperation, ProbeAgain, TakeBootstrap, ProbeLock, DropLock
<1>7. CASE Spawn(c)
    <2>1. ASSUME NEW a \in Agents,
                 call' = [call EXCEPT ![c] = [call[c] EXCEPT !.at = "await", !.mine = a]]
          PROVE  FALSE
        BY <2>1, RecordMoves, RecordFields DEF TypeOK, Moves
    <2> QED BY <1>2, <1>7, <2>1 DEF Spawn
<1>8. ~(Await(c) \/ AwaitChild(c) \/ Poll(c) \/ UpdateWait(c) \/ UpdateHold(c))
    BY <1>1, <1>2, <1>3 DEF Await, AwaitChild, Poll, UpdateWait, UpdateHold
<1>9. CASE StopProbe(c)
    <2>1. UNCHANGED <<child, agent>>
        BY <1>9 DEF StopProbe
    <2>2. PICK a \in Agents :
              call' = [call EXCEPT ![c] = [call[c] EXCEPT !.at = "post", !.seen = a, !.owned = Owned(c)]]
        BY <1>2, <1>3, <1>9 DEF StopProbe
    <2>3. call'[c] = [call[c] EXCEPT !.at = "post", !.seen = a, !.owned = Owned(c)]
        BY <1>4, <2>2
    <2>4. call'[c].owned = Owned(c)
        BY <2>3 DEF TypeOK, Calls
    <2> QED BY <2>1, <2>4
<1>10. CASE Post(c)
    BY <1>1, <1>2, <1>10 DEF Post
<1>11. CASE UpdateProbe(c)
    <2>1. ASSUME NEW a \in Agents,
                 call' = [call EXCEPT ![c] = [call[c] EXCEPT !.at = "updatePost", !.seen = a]]
          PROVE  FALSE
        BY <2>1, RecordMoves, RecordFields DEF TypeOK, Moves
    <2> QED BY <1>1, <1>2, <1>11, <2>1 DEF UpdateProbe
<1> QED BY <1>5, <1>6, <1>7, <1>8, <1>9, <1>10, <1>11 DEF CallerNext

LEMMA StoppingStep == Ownership /\ Stopping /\ [Next]_vars => Stopping'
<1> SUFFICES ASSUME Ownership, Stopping, [Next]_vars PROVE Stopping'
    OBVIOUS
<1> USE StartupAssumptions DEF Ownership
<1>1. Onwards
    BY StepOnwards
<1>2. OperationIsHeld'
    BY OperationChanges DEF Stopping
<1>3. ChildIsBorn'
    <2> SUFFICES ASSUME NEW l \in Launchers, child'[l] # None PROVE agent'[child'[l]].at # "unborn"
        BY DEF ChildIsBorn
    <2>1. CASE child'[l] = child[l]
        BY <1>1, <2>1 DEF Onwards, Stopping, ChildIsBorn, TypeOK
    <2> QED BY <2>1, ChildChanges
<1>4. ASSUME NEW l \in Launchers, child'[l] = child[l], ~ChildAlive(l) PROVE ~ChildAlive(l)'
    BY <1>1, <1>4 DEF ChildAlive, Alive, Onwards, Stopping, ChildIsBorn, TypeOK
<1>5. OwnedIsChild'
    <2> SUFFICES ASSUME NEW c \in Callers, call'[c].at \in {"post", "poll"}
                 PROVE  IF call'[c].owned # None THEN call'[c].owned = child'[Home[c]]
                        ELSE ~ChildAlive(Home[c])'
        BY DEF OwnedIsChild
    <2>1. CASE call'[c] = call[c]
        <3>1. operation[Home[c]] = c
            BY <2>1 DEF Stopping, OperationIsHeld, Operating
        <3>2. ~\E d \in Callers : /\ Home[d] = Home[c] /\ CallerNext(d) /\ call[d].at \in {"spawn", "await", "poll"}
                                  /\ d # c
            BY <3>1 DEF Stopping, OperationIsHeld, Operating, Bootstrapping
        <3>3. CASE child'[Home[c]] = child[Home[c]]
            BY <1>4, <2>1, <3>3 DEF Stopping, OwnedIsChild
        <3>4. CASE CallerNext(c) /\ call[c].at \in {"spawn", "await", "poll"}
            <4>1. Poll(c)
                BY <2>1, <3>4 DEF CallerNext, Ask, FirstProbe, TakeOperation, ProbeAgain, TakeBootstrap,
                   ProbeLock, DropLock, Spawn, Await, AwaitChild, StopProbe, Post, UpdateProbe, UpdateWait,
                   UpdateHold
            <4>2. \E place \in {"idle", "first", "startLock"} : Moves(c, place, None)
                BY <4>1, AnswerMoves, StoppedMoves DEF Poll
            <4> QED BY <4>2 DEF Moves
        <3>5. ~LauncherExits(Home[c])
            BY <2>1 DEF LauncherExits, Resting
        <3> QED BY <3>2, <3>3, <3>4, <3>5, ChildChanges
    <2>2. CASE call'[c] # call[c] /\ ~CallerNext(c)
        BY <2>2, OthersRest DEF Resting
    <2>3. CASE CallerNext(c)
        <3>1. UNCHANGED child
            BY <2>3, StopIsEntered
        <3>2. CASE call'[c].owned = Owned(c) /\ UNCHANGED agent
            BY <3>1, <3>2 DEF Owned, ChildAlive, Alive
        <3>3. CASE call[c].at = "post" /\ call'[c].owned = call[c].owned
            BY <1>4, <3>1, <3>3 DEF Stopping, OwnedIsChild
        <3> QED BY <2>3, <3>2, <3>3, StopIsEntered
    <2> QED BY <2>1, <2>2, <2>3
<1> QED BY <1>2, <1>3, <1>5 DEF Stopping

LEMMA StoppingHolds == Spec => []Stopping
<1>1. Init => Stopping
    BY StartupAssumptions DEF Init, Stopping, OperationIsHeld, Operating, Bootstrapping, ChildIsBorn,
       OwnedIsChild, Resting
<1> QED BY <1>1, StoppingStep, OwnershipHolds, PTL DEF Spec
-----------------------------------------------------------------------------
\* start answers with an Agent that serves, of the installed generation, and its own child if it
\* spawned one.
THEOREM StartsAnswerHonestly == Spec => StartAnswersHonestly
<1>1. Ownership /\ [Next]_vars => [\A c \in Callers : Honest(c)]_vars
    BY StepIsHonest
<1>2. [\A c \in Callers : Honest(c)]_vars =>
        [\A c \in Callers : Returns(c) /\ call'[c].answer \in {"running", "started"} =>
            LET a == call'[c].with IN
            /\ Serving(a) /\ Fresh(c, a)
            /\ call[c].mine # None => a = call[c].mine]_vars
    BY DEF Honest
<1> QED BY <1>1, <1>2, OwnershipHolds, PTL DEF Spec, StartAnswersHonestly

\* stop answers that the Agent stopped only when the Launcher has no live child.
THEOREM StopsLeaveNoChild == Spec => StopLeavesNoChild
<1>1. Ownership /\ Stopping /\ [Next]_vars => [\A c \in Callers : Patient(c)]_vars
    BY StepIsHonest
<1>2. [\A c \in Callers : Patient(c)]_vars =>
        [\A c \in Callers :
            /\ call[c].at \in {"stopProbe", "poll"}
            /\ \/ call'[c].at \in {"first", "startLock"}
               \/ Returns(c) /\ call'[c].answer = "stopped"
            => ~ChildAlive(Home[c])]_vars
    BY DEF Patient
<1> QED BY <1>1, <1>2, OwnershipHolds, StoppingHolds, PTL DEF Spec, StopLeavesNoChild
=============================================================================

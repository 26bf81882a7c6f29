------------------------- MODULE RequestReceiptsProofs -------------------------
(***************************************************************************)
(* A request is executed at most once, retries are told the truth, and the *)
(* history stays loadable, for every number of clients, ids and failures   *)
(* (RequestReceipts).                                                      *)
(***************************************************************************)
EXTENDS RequestReceipts, FiniteSetTheorems, TLAPS

\* Loading turns documents into documents.
LEMMA LoadedType ==
    ASSUME TypeOK
    PROVE  Loaded(disk) \in Documents
<1> SUFFICES ASSUME NEW id \in Ids PROVE Loaded(disk)[id] \in Receipts
  BY DEF Documents, Loaded
<1>1. disk[id] \in Receipts /\ NoReceipt \in Receipts
  BY DEF TypeOK, Documents, Receipts
<1>2. disk[id].state = "running" => [disk[id] EXCEPT !.state = "interrupted"] \in Receipts
  BY <1>1 DEF Receipts, NoReceipt, Outcomes
<1> QED
  BY <1>1, <1>2 DEF Loaded

\* Answering a client leaves every handler well typed.
LEMMA ReplyType ==
    ASSUME TypeOK, NEW c \in Clients, NEW says \in Says,
           clients' = [clients EXCEPT ![c] = Idle(Answer(c, says))]
    PROVE  /\ clients' \in [Clients -> ClientStates]
           /\ \A d \in Clients : clients'[d].pc # "idle" =>
                clients'[d].id \in Ids /\ clients'[d].params \in Params
<1>1. Idle(Answer(c, says)) \in ClientStates /\ Idle(Answer(c, says)).pc = "idle"
  BY DEF TypeOK, ClientStates, Idle, Answer
<1> QED
  BY <1>1 DEF TypeOK

\* The end of an owner leaves owners and handlers well typed.
LEMMA OwnerEndsType ==
    ASSUME TypeOK, NEW t \in tasks, NEW says \in Says, OwnerEnds(t, says)
    PROVE  /\ active' \subseteq Ids /\ tasks' \subseteq Owners
           /\ \A u \in tasks' : u.pc # "running" => u.outcome \in Outcomes
           /\ clients' \in [Clients -> ClientStates]
           /\ \A d \in Clients : clients'[d].pc # "idle" =>
                clients'[d].id \in Ids /\ clients'[d].params \in Params
<1>1. CASE t.client = "nobody"
  BY <1>1 DEF OwnerEnds, TypeOK
<1>2. CASE t.client # "nobody"
  <2>1. t.client \in Clients
    BY <1>2 DEF TypeOK, Owners
  <2>2. clients' = [clients EXCEPT ![t.client] = Idle(Answer(t.client, says))]
    BY <1>2 DEF OwnerEnds
  <2> QED
    BY <1>2, <2>1, <2>2, ReplyType DEF OwnerEnds, TypeOK
<1> QED
  BY <1>1, <1>2

\* Recording a receipt in a loaded document yields a document.
LEMMA RecordedType ==
    ASSUME TypeOK, NEW id \in Ids, NEW r \in Receipts
    PROVE  [Loaded(disk) EXCEPT ![id] = r] \in Documents
BY LoadedType DEF Documents

\* Every reachable state is well typed.
THEOREM TypeCorrect == Spec => []TypeOK
<1>1. Init => TypeOK
  BY ConstantsAssumption
     DEF Init, TypeOK, Documents, Receipts, ClientStates, Idle, NoAnswer, Says
<1>2. TypeOK /\ [Next]_vars => TypeOK'
  <2> SUFFICES ASSUME TypeOK, [Next]_vars PROVE TypeOK'
    OBVIOUS
  <2>1. CASE UNCHANGED vars
    BY <2>1 DEF vars, TypeOK
  <2>2. ASSUME NEW c \in Clients, NEW id \in Ids, NEW p \in Params, Arrive(c, id, p)
        PROVE  TypeOK'
    <3>1. [pc |-> "waiting", id |-> id, params |-> p, asked |-> now, told |-> NoAnswer]
            \in ClientStates
      BY DEF TypeOK, ClientStates, NoAnswer, Says
    <3> QED
      BY <2>2, <3>1 DEF Arrive, TypeOK, Smooth
  <2>3. ASSUME NEW c \in Clients, Enforce(c)
        PROVE  TypeOK'
    <3>1. mishaps' \in Nat
      BY <2>3 DEF Enforce, RefuseUnreadable, RefuseKnown, RefuseNew, Record, Smooth, Mishap,
                  TypeOK
    <3>2. ASSUME NEW says \in Says, Reply(c, says)
          PROVE  TypeOK'
      BY <3>1, <3>2, ReplyType DEF Reply, TypeOK
    <3>3. CASE RefuseUnreadable(c)
      BY <3>2, <3>3 DEF RefuseUnreadable, Says
    <3>4. CASE RefuseKnown(c)
      <4>1. Loaded(disk)[clients[c].id] \in Receipts
        BY <3>4, LoadedType DEF RefuseKnown, Waiting, TypeOK, Documents
      <4>2. Loaded(disk)[clients[c].id].state \in Says
        BY <3>4, <4>1 DEF RefuseKnown, Receipts, Says
      <4> QED
        BY <3>2, <3>4, <4>2 DEF RefuseKnown, Says
    <3>5. CASE RefuseNew(c)
      BY <3>2, <3>5 DEF RefuseNew, Says
    <3>6. CASE Record(c)
      <4>1. clients[c].id \in Ids /\ clients[c].params \in Params
        BY <3>6 DEF Record, Waiting, TypeOK
      <4>2. writing' \in Documents
        BY <3>6, <4>1, RecordedType DEF Record, Receipts
      <4>3. clients' \in [Clients -> ClientStates]
        BY <3>6 DEF Record, TypeOK, ClientStates
      <4> QED
        BY <3>1, <3>6, <4>1, <4>2, <4>3 DEF Record, TypeOK
    <3> QED
      BY <2>3, <3>3, <3>4, <3>5, <3>6 DEF Enforce
  <2>4. ASSUME NEW c \in Clients, Admit(c)
        PROVE  TypeOK'
    <3>1. clients[c].id \in Ids /\ clients[c].params \in Params
      BY <2>4 DEF Admit, TypeOK
    <3>2. clients' \in [Clients -> ClientStates]
      BY <2>4 DEF Admit, TypeOK, ClientStates
    <3>3. [id |-> clients[c].id, params |-> clients[c].params, client |-> c,
           pc |-> "running", outcome |-> "none"] \in Owners
      BY <3>1 DEF Owners
    <3> QED
      BY <2>4, <3>1, <3>2, <3>3 DEF Admit, TypeOK, Smooth
  <2>5. ASSUME NEW c \in Clients, AdmitFails(c)
        PROVE  TypeOK'
    <3>1. "unavailable" \in Says
      BY DEF Says
    <3>2. /\ clients' \in [Clients -> ClientStates]
          /\ \A d \in Clients : clients'[d].pc # "idle" =>
               clients'[d].id \in Ids /\ clients'[d].params \in Params
      BY <2>5, <3>1, ReplyType DEF AdmitFails
    <3> QED
      BY <2>5, <3>2 DEF AdmitFails, TypeOK, Mishap
  <2>6. ASSUME NEW c \in Clients, Disconnect(c) \/ DisconnectSaving(c)
        PROVE  TypeOK'
    <3>1. Idle(NoAnswer) \in ClientStates /\ Idle(NoAnswer).pc = "idle"
      BY DEF Idle, NoAnswer, ClientStates, Says
    <3>2. CASE Disconnect(c)
      <4>1. /\ tasks' \subseteq Owners
            /\ \A t \in tasks' : t.pc # "running" => t.outcome \in Outcomes
        BY <3>2 DEF Disconnect, TypeOK, Owners
      <4> QED
        BY <3>1, <3>2, <4>1 DEF Disconnect, TypeOK, Smooth
    <3>3. CASE DisconnectSaving(c)
      BY <3>1, <3>3 DEF DisconnectSaving, TypeOK, Mishap
    <3> QED
      BY <2>6, <3>2, <3>3
  <2>7. ASSUME NEW t \in tasks, Owner(t)
        PROVE  TypeOK'
    <3>1. t \in Owners /\ t.id \in Ids
      BY DEF TypeOK, Owners
    <3>2. CASE Operate(t)
      <4>1. PICK o \in Outcomes :
              /\ tasks' = (tasks \ {t}) \cup {[t EXCEPT !.pc = "finishing", !.outcome = o]}
              /\ done' = [done EXCEPT ![t.id] = @ \cup {[params |-> t.params, outcome |-> o]}]
        BY <3>2 DEF Operate
      <4>2. [t EXCEPT !.pc = "finishing", !.outcome = o] \in Owners
        BY <3>1, <4>1 DEF Owners
      <4>3. done' \in [Ids -> SUBSET [params: Params, outcome: Outcomes]]
        BY <3>1, <4>1 DEF TypeOK, Owners
      <4>4. \A u \in tasks' : u.pc # "running" => u.outcome \in Outcomes
        BY <3>1, <4>1 DEF TypeOK, Owners
      <4> QED
        BY <3>2, <4>1, <4>2, <4>3, <4>4 DEF Operate, TypeOK, Smooth
    <3>3. CASE FinalizeBegins(t)
      <4>1. Loaded(disk)[t.id] \in Receipts
        BY <3>1, LoadedType DEF Documents
      <4>2. [Loaded(disk)[t.id] EXCEPT !.state = t.outcome] \in Receipts
        BY <3>3, <4>1 DEF FinalizeBegins, TypeOK, Receipts
      <4>3. writing' = [Loaded(disk) EXCEPT ![t.id] = [Loaded(disk)[t.id] EXCEPT !.state = t.outcome]]
        BY <3>3 DEF FinalizeBegins
      <4>4. writing' \in Documents
        BY <3>1, <4>2, <4>3, RecordedType
      <4>5. [t EXCEPT !.pc = "finalizing"] \in Owners
        BY <3>1 DEF Owners
      <4>6. \A u \in tasks' : u.pc # "running" => u.outcome \in Outcomes
        BY <3>1, <3>3 DEF FinalizeBegins, TypeOK, Owners
      <4> QED
        BY <3>3, <4>4, <4>5, <4>6 DEF FinalizeBegins, TypeOK, Smooth
    <3>4. CASE FinalizeEnds(t)
      <4>1. t.outcome \in Says
        BY <3>4 DEF FinalizeEnds, TypeOK, Says
      <4> QED
        BY <3>4, <4>1, OwnerEndsType DEF FinalizeEnds, TypeOK, Smooth
    <3>5. CASE FinalizeFails(t)
      BY <3>5, OwnerEndsType DEF FinalizeFails, TypeOK, Smooth, Mishap, Says
    <3> QED
      BY <2>7, <3>2, <3>3, <3>4, <3>5 DEF Owner
  <2>8. CASE OrphanLands
    BY <2>8 DEF OrphanLands, TypeOK, Smooth
  <2>9. CASE Crash
    <3>1. Idle(NoAnswer) \in ClientStates /\ Idle(NoAnswer).pc = "idle"
      BY DEF Idle, NoAnswer, ClientStates, Says
    <3> QED
      BY <2>9, <3>1 DEF Crash, TypeOK, Mishap
  <2>10. CASE Tick
    BY <2>10 DEF Tick, TypeOK, Mishap, Smooth
  <2> QED
    BY <2>1, <2>2, <2>3, <2>4, <2>5, <2>6, <2>7, <2>8, <2>9, <2>10 DEF Next
<1> QED
  BY <1>1, <1>2, PTL DEF Spec

-------------------------------------------------------------------------------
\* No handler is dropped while it saves, and the clock does not move while one
\* waits for the lock: what the code takes for granted.
Undropped == "drop" \notin Mishaps /\ "wait" \notin Mishaps

\* Loading keeps everything that may still be retried.
LEMMA LoadedKeeps ==
    ASSUME TypeOK, StartedIsIn(disk)
    PROVE  StartedIsIn(Loaded(disk))
<1> SUFFICES ASSUME NEW id \in Ids, runs[id] # 0
             PROVE  Loaded(disk)[id] # NoReceipt \/ now - Issued[id] > Lifetime
  BY DEF StartedIsIn
<1>1. Issued[id] <= now + Skew /\ (disk[id] # NoReceipt \/ now - Issued[id] > Lifetime)
  BY DEF StartedIsIn
<1>2. CASE now - Issued[id] > Lifetime
  BY <1>2
<1>3. CASE ~(now - Issued[id] > Lifetime)
  <2>1. Window(id, now)
    BY <1>1, <1>3, ConstantsAssumption DEF Window, TypeOK
  <2>2. disk[id] \in Receipts /\ disk[id] # NoReceipt
    BY <1>1, <1>3 DEF TypeOK, Documents
  <2>3. [disk[id] EXCEPT !.state = "interrupted"] # NoReceipt
    BY <2>2 DEF Receipts, NoReceipt
  <2> QED
    BY <2>1, <2>2, <2>3 DEF Loaded
<1> QED
  BY <1>2, <1>3

\* The inductive invariant of at-most-once execution.
THEOREM Once == ASSUME Undropped PROVE Spec => []StartsOnce
<1>1. Init => StartsOnce
  BY ConstantsAssumption
     DEF Init, StartsOnce, AtMostOnce, SaversHoldLock, StartsAreRecorded, StartedIsIn,
         SavedIsNew, Undisturbed, Idle
<1>2. TypeOK /\ TypeOK' /\ StartsOnce /\ [Next]_vars => StartsOnce'
  <2> SUFFICES ASSUME TypeOK, TypeOK', StartsOnce, [Next]_vars PROVE StartsOnce'
    OBVIOUS
  <2> USE ConstantsAssumption
  <2>0. /\ AtMostOnce /\ SaversHoldLock /\ StartsAreRecorded /\ SavedIsNew /\ Undisturbed
        /\ StartedIsIn(disk) /\ (lock # "free" => StartedIsIn(writing))
        /\ StartedIsIn(Loaded(disk))
    BY LoadedKeeps DEF StartsOnce, StartsAreRecorded
  <2>1. CASE UNCHANGED vars
    BY <2>0, <2>1 DEF vars, StartsOnce, AtMostOnce, SaversHoldLock, StartsAreRecorded,
       StartedIsIn, SavedIsNew, Undisturbed
  <2>2. ASSUME NEW c \in Clients, NEW id \in Ids, NEW p \in Params, Arrive(c, id, p)
        PROVE  StartsOnce'
    BY <2>0, <2>2 DEF Arrive, TypeOK, ClientStates, StartsOnce, AtMostOnce, SaversHoldLock,
       StartsAreRecorded, StartedIsIn, SavedIsNew, Undisturbed
  \* An answer only makes its client idle.
  <2>3. ASSUME NEW c \in Clients, NEW says, Reply(c, says)
        PROVE  StartsOnce'
    BY <2>0, <2>3 DEF Reply, Idle, TypeOK, StartsOnce, AtMostOnce, SaversHoldLock,
       StartsAreRecorded, StartedIsIn, SavedIsNew, Undisturbed
  <2>4. ASSUME NEW c \in Clients, Record(c)
        PROVE  StartsOnce'
    <3> DEFINE id == clients[c].id
    <3>1. id \in Ids /\ clients[c].asked = now /\ Window(id, now) /\ lock = "free"
      BY <2>0, <2>4 DEF Record, Waiting, TypeOK, Undisturbed
    <3>2. runs[id] = 0
      BY <2>0, <2>4, <3>1 DEF Record, StartedIsIn, Window, TypeOK
    <3>3. StartedIsIn(writing)'
      <4>1. \A i \in Ids : i # id => writing'[i] = Loaded(disk)[i]
        BY <2>4 DEF Record, Loaded
      <4> QED
        BY <2>0, <2>4, <3>2, <4>1 DEF Record, StartedIsIn
    <3>4. writing'[id] # NoReceipt
      BY <2>4, <3>1 DEF Record, Loaded, NoReceipt
    <3>5. \A d \in Clients : clients'[d].pc = "saving" => d = c
      BY <2>0, <2>4, <3>1 DEF Record, TypeOK, ClientStates, SaversHoldLock
    <3>6. clients'[c].id = id /\ clients'[c].pc = "saving"
      BY <2>4 DEF Record, TypeOK, ClientStates
    <3>7. \A t \in tasks' : t.pc # "finalizing"
      BY <2>0, <2>4, <3>1 DEF Record, SaversHoldLock
    <3>8. SaversHoldLock'
      BY <2>4, <3>5, <3>7 DEF Record, SaversHoldLock
    <3>9. SavedIsNew'
      BY <2>4, <3>1, <3>2, <3>4, <3>5, <3>6 DEF Record, SavedIsNew, Window
    <3>10. Undisturbed'
      BY <2>0, <2>4 DEF Record, Undisturbed, TypeOK, ClientStates
    <3>11. AtMostOnce' /\ StartedIsIn(disk)'
      BY <2>0, <2>4 DEF Record, AtMostOnce, StartedIsIn
    <3> QED
      BY <3>3, <3>8, <3>9, <3>10, <3>11 DEF StartsOnce, StartsAreRecorded
  <2>5. ASSUME NEW c \in Clients, Admit(c)
        PROVE  StartsOnce'
    <3> DEFINE id == clients[c].id
    <3>1. /\ id \in Ids /\ runs[id] = 0 /\ Issued[id] <= now + Skew
          /\ writing[id] # NoReceipt /\ lock = "admit"
      BY <2>0, <2>5 DEF Admit, TypeOK, SavedIsNew, SaversHoldLock
    <3>2. runs' = [runs EXCEPT ![id] = 1]
      BY <2>5, <3>1 DEF Admit
    <3>3. AtMostOnce' /\ StartedIsIn(disk)'
      BY <2>0, <2>5, <3>1, <3>2 DEF Admit, AtMostOnce, StartedIsIn, TypeOK
    <3>4. \A d \in Clients : clients'[d].pc # "saving"
      BY <2>0, <2>5 DEF Admit, TypeOK, ClientStates, SaversHoldLock
    <3>5. Undisturbed'
      BY <2>0, <2>5 DEF Admit, Undisturbed, TypeOK, ClientStates
    <3>6. \A t \in tasks' : t.pc # "finalizing"
      BY <2>0, <2>5, <3>1 DEF Admit, SaversHoldLock
    <3> QED
      BY <2>5, <3>3, <3>4, <3>5, <3>6
         DEF Admit, StartsOnce, StartsAreRecorded, SaversHoldLock, SavedIsNew
  <2>6. ASSUME NEW c \in Clients, AdmitFails(c)
        PROVE  StartsOnce'
    <3>1. StartedIsIn(disk)'
      BY <2>0, <2>6 DEF AdmitFails, StartedIsIn, SaversHoldLock
    <3>2. \A d \in Clients : clients'[d].pc # "saving"
      BY <2>0, <2>6 DEF AdmitFails, Idle, TypeOK, SaversHoldLock
    <3> QED
      BY <2>0, <2>6, <3>1, <3>2 DEF AdmitFails, Idle, TypeOK, StartsOnce, AtMostOnce,
         StartsAreRecorded, SaversHoldLock, SavedIsNew, Undisturbed
  <2>7. ASSUME NEW c \in Clients, Disconnect(c)
        PROVE  StartsOnce'
    <3>1. \A e \in Clients : clients'[e].pc \in {"saving", "waiting"} =>
            clients'[e] = clients[e]
      BY <2>7 DEF Disconnect, Idle, TypeOK
    <3>2. \A t \in tasks' : t.pc = "finalizing" => \E u \in tasks :
            /\ u.pc = "finalizing"
            /\ t = IF u.client = c THEN [u EXCEPT !.client = "nobody"] ELSE u
      BY <2>7 DEF Disconnect, TypeOK, Owners
    <3>3. SaversHoldLock'
      BY <2>0, <2>7, <3>1, <3>2 DEF Disconnect, SaversHoldLock
    <3>4. SavedIsNew' /\ Undisturbed'
      BY <2>0, <2>7, <3>1 DEF Disconnect, SavedIsNew, Undisturbed
    <3> QED
      BY <2>0, <2>7, <3>3, <3>4
         DEF Disconnect, StartsOnce, AtMostOnce, StartsAreRecorded, StartedIsIn
  <2>8. ASSUME NEW c \in Clients PROVE ~DisconnectSaving(c)
    BY Undropped DEF Undropped, DisconnectSaving, Mishap
  <2>9. ASSUME NEW t \in tasks, Owner(t)
        PROVE  StartsOnce'
    <3>1. CASE Operate(t)
      <4>1. \A u \in tasks' : u.pc = "finalizing" => u \in tasks
        BY <3>1 DEF Operate, TypeOK, Owners
      <4> QED
        BY <2>0, <3>1, <4>1 DEF Operate, StartsOnce, AtMostOnce, SaversHoldLock,
           StartsAreRecorded, StartedIsIn, SavedIsNew, Undisturbed
    <3>2. CASE FinalizeBegins(t)
      <4>1. \A i \in Ids : Loaded(disk)[i] # NoReceipt => writing'[i] # NoReceipt
        <5>1. t.outcome \in Outcomes /\ t.id \in Ids
          BY <3>2 DEF FinalizeBegins, TypeOK, Owners
        <5>2. Loaded(disk)[t.id] \in Receipts
          BY <5>1, LoadedType DEF Documents
        <5>3. [Loaded(disk)[t.id] EXCEPT !.state = t.outcome] # NoReceipt
          BY <5>1, <5>2 DEF Receipts, NoReceipt, Outcomes
        <5> QED
          BY <3>2, <5>1, <5>3 DEF FinalizeBegins, Loaded
      <4>2. StartedIsIn(writing)'
        BY <2>0, <3>2, <4>1 DEF FinalizeBegins, StartedIsIn
      <4>3. \A d \in Clients : clients[d].pc # "saving"
        BY <2>0, <3>2 DEF FinalizeBegins, SaversHoldLock
      <4>4. \A u \in tasks : u.pc # "finalizing"
        BY <2>0, <3>2 DEF FinalizeBegins, SaversHoldLock
      <4>5. \A u \in tasks' : u.pc = "finalizing" => u = [t EXCEPT !.pc = "finalizing"]
        BY <3>2, <4>4 DEF FinalizeBegins
      <4> QED
        BY <2>0, <3>2, <4>2, <4>3, <4>5 DEF FinalizeBegins, StartsOnce, AtMostOnce,
           SaversHoldLock, StartsAreRecorded, StartedIsIn, SavedIsNew, Undisturbed
    <3>3. CASE FinalizeEnds(t) \/ FinalizeFails(t)
      <4>1. \A e \in Clients : clients'[e].pc \in {"saving", "waiting"} =>
              clients'[e] = clients[e]
        BY <3>3 DEF FinalizeEnds, FinalizeFails, OwnerEnds, Idle, TypeOK
      <4>2. \A e \in Clients : clients'[e].pc # "saving"
        BY <2>0, <3>3, <4>1 DEF FinalizeEnds, FinalizeFails, SaversHoldLock
      <4>3. StartedIsIn(disk)'
        BY <2>0, <3>3 DEF FinalizeEnds, FinalizeFails, SaversHoldLock, StartedIsIn
      <4>4. \A u \in tasks' : u.pc # "finalizing"
        BY <2>0, <3>3 DEF FinalizeEnds, FinalizeFails, OwnerEnds, SaversHoldLock
      <4>5. lock' = "free" /\ runs' = runs /\ orphans' = orphans /\ now' = now
        BY <3>3 DEF FinalizeEnds, FinalizeFails
      <4>6. SaversHoldLock' /\ SavedIsNew' /\ Undisturbed'
        BY <2>0, <4>1, <4>2, <4>4, <4>5 DEF SaversHoldLock, SavedIsNew, Undisturbed
      <4> QED
        BY <2>0, <4>3, <4>5, <4>6 DEF StartsOnce, StartsAreRecorded, AtMostOnce
    <3> QED
      BY <2>9, <3>1, <3>2, <3>3 DEF Owner
  <2>10. CASE OrphanLands
    BY <2>0, <2>10 DEF OrphanLands, Undisturbed
  <2>11. CASE Crash
    BY <2>0, <2>11 DEF Crash, Idle, StartsOnce, AtMostOnce, SaversHoldLock,
       StartsAreRecorded, StartedIsIn, SavedIsNew, Undisturbed
  <2>12. CASE Tick
    <3>1. now' = now + 1 /\ \A c \in Clients : clients[c].pc # "waiting"
      BY <2>12, Undropped DEF Tick, Undropped, Mishap
    <3>2. StartedIsIn(disk)' /\ (lock # "free" => StartedIsIn(writing)')
      BY <2>0, <2>12, <3>1 DEF Tick, StartedIsIn, TypeOK
    <3>3. SavedIsNew'
      BY <2>0, <2>12, <3>1 DEF Tick, SavedIsNew, TypeOK
    <3> QED
      BY <2>0, <2>12, <3>1, <3>2, <3>3 DEF Tick, StartsOnce, AtMostOnce, SaversHoldLock,
         StartsAreRecorded, Undisturbed
  <2>13. ASSUME NEW c \in Clients, Enforce(c)
         PROVE  StartsOnce'
    BY <2>3, <2>4, <2>13 DEF Enforce, RefuseUnreadable, RefuseKnown, RefuseNew
  <2> QED
    BY <2>1, <2>2, <2>5, <2>6, <2>7, <2>8, <2>9, <2>10, <2>11, <2>12, <2>13 DEF Next
<1> QED
  BY <1>1, <1>2, TypeCorrect, PTL DEF Spec

\* However often a request is sent, its operation is started at most once.
THEOREM ExecutedAtMostOnce == ASSUME Undropped PROVE Spec => []AtMostOnce
<1>1. StartsOnce => AtMostOnce
  BY DEF StartsOnce
<1> QED
  BY <1>1, Once, PTL

-------------------------------------------------------------------------------
(* The capacity of the history                                             *)

\* Every document within reach of the next load holds no more than it accepts.
Fits(docs) == Size(docs) <= Limit
HistoryFits == Fits(disk) /\ Fits(writing) /\ \A docs \in orphans : Fits(docs)

\* A document that has receipts only where another one has them is no larger.
LEMMA SizeShrinks ==
    ASSUME NEW docs \in Documents, NEW less \in Documents,
           \A id \in Ids : less[id] # NoReceipt => docs[id] # NoReceipt
    PROVE  /\ Size(less) \in Nat /\ Size(docs) \in Nat
           /\ Size(less) <= Size(docs)
<1> DEFINE S == {id \in Ids : less[id] # NoReceipt}
<1> DEFINE T == {id \in Ids : docs[id] # NoReceipt}
<1>1. IsFiniteSet(T) /\ S \subseteq T
  BY ConstantsAssumption, FS_Subset, T \subseteq Ids
<1>2. IsFiniteSet(S) /\ Cardinality(S) <= Cardinality(T)
  BY <1>1, FS_Subset
<1>3. Cardinality(S) \in Nat /\ Cardinality(T) \in Nat
  BY <1>1, <1>2, FS_CardinalityType
<1> QED
  BY <1>2, <1>3 DEF Size

\* A new receipt adds one to the size.
LEMMA SizeGrows ==
    ASSUME NEW docs \in Documents, NEW id \in Ids, NEW r \in Receipts
    PROVE  Size([docs EXCEPT ![id] = r]) <= Size(docs) + 1
<1> DEFINE more == [docs EXCEPT ![id] = r]
<1> DEFINE S == {i \in Ids : more[i] # NoReceipt}
<1> DEFINE T == {i \in Ids : docs[i] # NoReceipt}
<1>1. IsFiniteSet(T)
  BY ConstantsAssumption, FS_Subset, T \subseteq Ids
<1>2. S \subseteq T \cup {id}
  BY DEF Documents
<1>3. /\ IsFiniteSet(T \cup {id}) /\ Cardinality(T \cup {id}) <= Cardinality(T) + 1
      /\ Cardinality(T) \in Nat
  <2> HIDE DEF T
  <2>1. /\ IsFiniteSet(T \cup {id}) 
        /\ id \in T => Cardinality(T \cup {id}) = Cardinality(T)
        /\ id \notin T => Cardinality(T \cup {id}) = Cardinality(T) + 1
    <3>1. id \in T => T \cup {id} = T
      OBVIOUS
    <3> QED
      BY <1>1, <3>1, FS_AddElement
  <2>2. Cardinality(T) \in Nat
    BY <1>1, FS_CardinalityType
  <2> QED
    BY <2>1, <2>2
<1>4. /\ IsFiniteSet(S) /\ Cardinality(S) <= Cardinality(T \cup {id})
      /\ Cardinality(S) \in Nat /\ Cardinality(T \cup {id}) \in Nat
  BY <1>2, <1>3, FS_Subset, FS_CardinalityType
<1>5. Size(more) = Cardinality(S) /\ Size(docs) = Cardinality(T)
  BY DEF Size
<1> QED
  <2> HIDE DEF S, T, more
  <2>1. Size(more) <= Size(docs) + 1
    BY <1>3, <1>4, <1>5
  <2> QED
    BY <2>1 DEF more

\* Loading adds no receipt.
LEMMA LoadedFits ==
    ASSUME TypeOK, Fits(disk)
    PROVE  Fits(Loaded(disk)) /\ Size(Loaded(disk)) \in Nat
<1>1. \A id \in Ids : Loaded(disk)[id] # NoReceipt => disk[id] # NoReceipt
  <2> SUFFICES ASSUME NEW id \in Ids, disk[id] = NoReceipt
               PROVE  Loaded(disk)[id] = NoReceipt
    OBVIOUS
  <2> QED
    BY DEF Loaded, NoReceipt
<1>2. disk \in Documents /\ Loaded(disk) \in Documents
  BY LoadedType DEF TypeOK
<1> QED
  BY <1>1, <1>2, SizeShrinks, ConstantsAssumption DEF Fits

\* The history never grows beyond what load accepts, however saves and
\* failures interleave: admission never locks itself out (request_receipts.rs,
\* load and the capacity test of enforce).
THEOREM HistoryAlwaysLoads == Spec => []HistoryLoads
<1>1. Init => HistoryFits
  <2> SUFFICES ASSUME Init PROVE Size([id \in Ids |-> NoReceipt]) <= Limit
    BY DEF Init, HistoryFits, Fits
  <2>1. {i \in Ids : [id \in Ids |-> NoReceipt][i] # NoReceipt} = {}
    OBVIOUS
  <2> QED
    BY <2>1, FS_EmptySet, ConstantsAssumption DEF Size
<1>2. TypeOK /\ HistoryFits /\ [Next]_vars => HistoryFits'
  <2> SUFFICES ASSUME TypeOK, HistoryFits, [Next]_vars PROVE HistoryFits'
    OBVIOUS
  <2>1. Fits(Loaded(disk)) /\ Loaded(disk) \in Documents /\ Size(Loaded(disk)) \in Nat
    BY LoadedFits, LoadedType DEF HistoryFits
  <2>2. ASSUME NEW c \in Clients, Record(c)
        PROVE  HistoryFits'
    <3> DEFINE r == [state |-> "running", params |-> clients[c].params]
    <3>1. clients[c].id \in Ids /\ clients[c].params \in Params
      BY <2>2 DEF Record, Waiting, TypeOK
    <3>2. r \in Receipts
      BY <3>1 DEF Receipts
    <3>3. Size(writing') <= Size(Loaded(disk)) + 1 /\ Size(Loaded(disk)) < Limit
      BY <2>1, <2>2, <3>1, <3>2, SizeGrows DEF Record
    <3>4. writing' \in Documents
      BY <2>2, <3>1, <3>2, RecordedType DEF Record
    <3>5. Size(writing') \in Nat
      BY <3>4, SizeShrinks
    <3>6. Fits(writing)'
      BY <2>1, <3>3, <3>5, ConstantsAssumption DEF Fits
    <3> QED
      BY <2>2, <3>6 DEF Record, HistoryFits, Fits
  <2>3. ASSUME NEW t \in tasks, FinalizeBegins(t)
        PROVE  HistoryFits'
    <3>1. t.id \in Ids /\ t.outcome \in Outcomes
      BY <2>3 DEF FinalizeBegins, TypeOK, Owners
    <3>2. [Loaded(disk)[t.id] EXCEPT !.state = t.outcome] \in Receipts
      BY <2>1, <2>3, <3>1 DEF FinalizeBegins, Documents, Receipts
    <3>3. writing' = [Loaded(disk) EXCEPT ![t.id] = [Loaded(disk)[t.id] EXCEPT !.state = t.outcome]]
      BY <2>3 DEF FinalizeBegins
    <3>4. writing' \in Documents
      BY <3>1, <3>2, <3>3, RecordedType
    <3>5. \A id \in Ids : writing'[id] # NoReceipt => Loaded(disk)[id] # NoReceipt
      BY <2>1, <2>3, <3>1, <3>3 DEF FinalizeBegins, Documents
    <3>6. Size(writing') <= Size(Loaded(disk)) /\ Size(writing') \in Nat
      BY <2>1, <3>4, <3>5, SizeShrinks
    <3>7. Fits(writing)'
      BY <2>1, <3>6, ConstantsAssumption DEF Fits
    <3> QED
      BY <2>3, <3>7 DEF FinalizeBegins, HistoryFits, Fits
  \* Every other step keeps the documents, or puts one of them in another place.
  <2>4. ASSUME /\ disk' \in {disk, writing} \cup orphans
               /\ writing' = writing
               /\ orphans' \subseteq orphans \cup {writing}
        PROVE  HistoryFits'
    BY <2>4 DEF HistoryFits, Fits
  <2>5. CASE UNCHANGED vars
    BY <2>4, <2>5 DEF vars
  <2>6. ASSUME NEW c \in Clients, NEW id \in Ids, NEW p \in Params, Arrive(c, id, p)
        PROVE  HistoryFits'
    BY <2>4, <2>6 DEF Arrive
  <2>7. ASSUME NEW c \in Clients, Enforce(c)
        PROVE  HistoryFits'
    BY <2>2, <2>4, <2>7 DEF Enforce, RefuseUnreadable, RefuseKnown, RefuseNew, Reply
  <2>8. ASSUME NEW c \in Clients, Admit(c) \/ AdmitFails(c) \/ Disconnect(c) \/ DisconnectSaving(c)
        PROVE  HistoryFits'
    BY <2>4, <2>8 DEF Admit, AdmitFails, Disconnect, DisconnectSaving
  <2>9. ASSUME NEW t \in tasks, Owner(t)
        PROVE  HistoryFits'
    BY <2>3, <2>4, <2>9 DEF Owner, Operate, FinalizeEnds, FinalizeFails
  <2>10. CASE OrphanLands
    BY <2>4, <2>10 DEF OrphanLands
  <2>11. CASE Crash \/ Tick
    BY <2>4, <2>11 DEF Crash, Tick
  <2> QED
    BY <2>5, <2>6, <2>7, <2>8, <2>9, <2>10, <2>11 DEF Next
<1>3. TypeOK /\ HistoryFits => HistoryLoads
  BY LoadedFits DEF HistoryFits, HistoryLoads, Fits
<1> QED
  BY <1>1, <1>2, <1>3, TypeCorrect, PTL DEF Spec

-------------------------------------------------------------------------------
(* Honest answers                                                          *)

\* The client was told an outcome.
Final(c) == clients[c].told.says \in Outcomes

\* Each id has one owner, which is active; what it reports is what its operation
\* did, and the client that waits for it asked for just that.
OwnersAlone ==
    /\ \A t \in tasks :
         /\ t.id \in active
         /\ t.pc # "running" => [params |-> t.params, outcome |-> t.outcome] \in done[t.id]
         /\ runs[t.id] # 0
         /\ t.client # "nobody" => /\ clients[t.client].pc = "attached"
                                   /\ clients[t.client].id = t.id
                                   /\ clients[t.client].params = t.params
    /\ \A t, u \in tasks : t.id = u.id => t = u

\* A receipt with an outcome tells what its operation did.
TrueOfOperation(docs) ==
    \A id \in Ids :
        /\ docs[id] # NoReceipt => Issued[id] <= now + Skew
        /\ docs[id].state \in {"completed", "failed"} =>
              [params |-> docs[id].params, outcome |-> docs[id].state] \in done[id]

\* While an owner works its receipt says so.
KeepsOwners(docs, owners) ==
    \A t \in owners : docs[t.id] = [state |-> "running", params |-> t.params]

\* An id about which somebody was told an outcome is not admitted again.
KeepsAnswers(docs) ==
    \A c \in Clients : Final(c) =>
        LET id == clients[c].told.about
        IN  /\ id \in Ids /\ Issued[id] <= now + Skew
            /\ docs[id] # NoReceipt \/ now - Issued[id] > Lifetime

Unfinalized == {t \in tasks : t.pc # "finalizing"}

ReceiptsAreTrue ==
    /\ TrueOfOperation(disk) /\ KeepsOwners(disk, tasks) /\ KeepsAnswers(disk)
    /\ TrueOfOperation(writing)
    /\ lock # "free" => KeepsOwners(writing, Unfinalized) /\ KeepsAnswers(writing)
    /\ \A t \in tasks : t.pc = "finalizing" =>
          writing[t.id] = [state |-> t.outcome, params |-> t.params]

\* What is being admitted was answered to nobody.
SavedIsUnanswered ==
    \A c \in Clients : clients[c].pc = "saving" =>
        /\ writing[clients[c].id] = [state |-> "running", params |-> clients[c].params]
        /\ \A d \in Clients : Final(d) => clients[d].told.about # clients[c].id

AnswersHold == OwnersAlone /\ ReceiptsAreTrue /\ SavedIsUnanswered /\ AnswersAreHonest

\* Loading keeps what the receipts say of operations, owners and answers.
LEMMA LoadedIsTrue ==
    ASSUME TypeOK, AnswersHold
    PROVE  /\ TrueOfOperation(Loaded(disk)) /\ KeepsAnswers(Loaded(disk))
           /\ KeepsOwners(Loaded(disk), tasks)
<1>1. /\ TrueOfOperation(disk) /\ KeepsAnswers(disk) /\ KeepsOwners(disk, tasks)
      /\ \A t \in tasks : t.id \in active /\ t.id \in Ids
  BY DEF AnswersHold, ReceiptsAreTrue, OwnersAlone, TypeOK, Owners
<1>2. ASSUME NEW id \in Ids
      PROVE  \/ Loaded(disk)[id] = disk[id]
             \/ Loaded(disk)[id] = NoReceipt /\ ~Window(id, now)
             \/ /\ disk[id].state = "running" /\ Loaded(disk)[id].state = "interrupted"
                /\ disk[id] # NoReceipt /\ Loaded(disk)[id] # NoReceipt
  <2>1. disk[id] \in Receipts
    BY DEF TypeOK, Documents
  <2>2. disk[id].state = "running" =>
          /\ [disk[id] EXCEPT !.state = "interrupted"].state = "interrupted"
          /\ [disk[id] EXCEPT !.state = "interrupted"] # NoReceipt
    BY <2>1 DEF Receipts, NoReceipt
  <2> QED
    BY <2>2 DEF Loaded, NoReceipt
<1>3. \A id \in Ids : id \in active => Loaded(disk)[id] = disk[id]
  BY DEF Loaded
<1>4. TrueOfOperation(Loaded(disk))
  <2> SUFFICES ASSUME NEW id \in Ids
               PROVE  /\ Loaded(disk)[id] # NoReceipt => Issued[id] <= now + Skew
                      /\ Loaded(disk)[id].state \in {"completed", "failed"} =>
                            [params |-> Loaded(disk)[id].params,
                             outcome |-> Loaded(disk)[id].state] \in done[id]
    BY DEF TrueOfOperation
  <2>1. CASE Loaded(disk)[id] = disk[id]
    BY <1>1, <2>1 DEF TrueOfOperation
  <2>2. CASE Loaded(disk)[id] = NoReceipt
    BY <2>2 DEF NoReceipt
  <2>3. CASE disk[id] # NoReceipt /\ Loaded(disk)[id].state = "interrupted"
    BY <1>1, <2>3 DEF TrueOfOperation
  <2> QED
    BY <1>2, <2>1, <2>2, <2>3
<1>5. KeepsAnswers(Loaded(disk))
  <2> SUFFICES ASSUME NEW c \in Clients, Final(c)
               PROVE  LET id == clients[c].told.about
                      IN  /\ id \in Ids /\ Issued[id] <= now + Skew
                          /\ Loaded(disk)[id] # NoReceipt \/ now - Issued[id] > Lifetime
    BY DEF KeepsAnswers
  <2> DEFINE id == clients[c].told.about
  <2>1. /\ id \in Ids /\ Issued[id] <= now + Skew
        /\ disk[id] # NoReceipt \/ now - Issued[id] > Lifetime
    BY <1>1 DEF KeepsAnswers
  <2>2. ~Window(id, now) => now - Issued[id] > Lifetime
    BY <2>1, ConstantsAssumption DEF Window, TypeOK
  <2> QED
    BY <1>2, <2>1, <2>2
<1> QED
  BY <1>1, <1>3, <1>4, <1>5 DEF KeepsOwners

\* An answer that is true of the receipts and races no owner keeps them true.
LEMMA ReplyHolds ==
    ASSUME TypeOK, AnswersHold, StartsOnce, lock = "free",
           NEW c \in Clients, NEW says, clients[c].pc = "waiting", Reply(c, says),
           says \in Outcomes =>
               /\ Loaded(disk)[clients[c].id] # NoReceipt
               /\ Loaded(disk)[clients[c].id].state = says
               /\ Loaded(disk)[clients[c].id].params = clients[c].params
    PROVE  AnswersHold'
<1> DEFINE id == clients[c].id
<1>1. /\ OwnersAlone /\ ReceiptsAreTrue /\ SavedIsUnanswered /\ AnswersAreHonest
      /\ TrueOfOperation(disk) /\ KeepsAnswers(disk) /\ id \in Ids
  BY DEF AnswersHold, ReceiptsAreTrue, TypeOK
<1>2. TrueOfOperation(Loaded(disk)) /\ KeepsOwners(Loaded(disk), tasks)
  BY LoadedIsTrue
<1>3. /\ \A d \in Clients : d # c => clients'[d] = clients[d]
      /\ clients'[c].pc = "idle"
      /\ clients'[c].told.says = says /\ clients'[c].told.about = id
      /\ clients'[c].told.params = clients[c].params
      /\ UNCHANGED <<disk, active, tasks, lock, writing, orphans, runs, done, now>>
  BY DEF Reply, Idle, Answer, TypeOK
<1>4. says \in Outcomes =>
        /\ Issued[id] <= now + Skew /\ disk[id] # NoReceipt
        /\ says \in {"completed", "failed"} =>
              [params |-> clients[c].params, outcome |-> says] \in done[id]
        /\ \A t \in tasks : t.id # id
  <2>1. disk[id] = NoReceipt => Loaded(disk)[id] = NoReceipt
    BY <1>1 DEF Loaded, NoReceipt
  <2>2. says \in Outcomes => Issued[id] <= now + Skew /\ disk[id] # NoReceipt
    BY <1>1, <2>1 DEF TrueOfOperation
  <2>3. says \in Outcomes /\ says \in {"completed", "failed"} =>
          [params |-> clients[c].params, outcome |-> says] \in done[id]
    BY <1>1, <1>2 DEF TrueOfOperation
  <2>4. ASSUME says \in Outcomes, NEW t \in tasks, t.id = id
        PROVE  FALSE
    <3>1. Loaded(disk)[t.id] = [state |-> "running", params |-> t.params]
      BY <1>2 DEF KeepsOwners
    <3>2. Loaded(disk)[id].state = "running"
      BY <2>4, <3>1
    <3> QED
      BY <2>4, <3>2 DEF Outcomes
  <2> QED
    BY <2>2, <2>3, <2>4
<1>5. OwnersAlone'
  <2>1. \A t \in tasks : t.client # c
    BY <1>1, ConstantsAssumption DEF OwnersAlone
  <2>2. \A t \in tasks : t.client # "nobody" => t.client \in Clients
    BY DEF TypeOK, Owners
  <2> QED
    BY <1>1, <1>3, <2>1, <2>2 DEF OwnersAlone
<1>6. KeepsAnswers(disk)'
  BY <1>1, <1>3, <1>4 DEF KeepsAnswers, Final
<1>7. ReceiptsAreTrue'
  BY <1>1, <1>3, <1>6 DEF ReceiptsAreTrue, TrueOfOperation, KeepsOwners
<1>8. SavedIsUnanswered'
  BY <1>3 DEF SavedIsUnanswered, StartsOnce, SaversHoldLock
<1>9. AnswersAreHonest'
  <2> SUFFICES ASSUME NEW d \in Clients
               PROVE  /\ clients'[d].told.says \in {"completed", "failed"} =>
                            [params |-> clients'[d].told.params, outcome |-> clients'[d].told.says]
                              \in done[clients'[d].told.about]
                      /\ clients'[d].told.says \in Outcomes =>
                            \A t \in tasks : t.id # clients'[d].told.about
    BY <1>3 DEF AnswersAreHonest
  <2>1. CASE d = c
    BY <1>3, <1>4, <2>1 DEF Outcomes
  <2>2. CASE d # c
    BY <1>1, <1>3, <2>2 DEF AnswersAreHonest
  <2> QED
    BY <2>1, <2>2
<1> QED
  BY <1>5, <1>7, <1>8, <1>9 DEF AnswersHold

\* The inductive invariant of honest answers.
THEOREM Honest == ASSUME Undropped PROVE Spec => []AnswersHold
<1>1. Init => AnswersHold
  BY ConstantsAssumption
     DEF Init, AnswersHold, OwnersAlone, ReceiptsAreTrue, TrueOfOperation, KeepsOwners,
         KeepsAnswers, SavedIsUnanswered, AnswersAreHonest, Final, Idle, NoAnswer, NoReceipt,
         Outcomes
<1>2. TypeOK /\ TypeOK' /\ StartsOnce /\ StartsOnce' /\ AnswersHold /\ [Next]_vars => AnswersHold'
  <2> SUFFICES ASSUME TypeOK, TypeOK', StartsOnce, StartsOnce', AnswersHold, [Next]_vars
               PROVE  AnswersHold'
    OBVIOUS
  <2>0. /\ OwnersAlone /\ ReceiptsAreTrue /\ SavedIsUnanswered /\ AnswersAreHonest
        /\ TrueOfOperation(disk) /\ KeepsOwners(disk, tasks) /\ KeepsAnswers(disk)
        /\ TrueOfOperation(writing)
        /\ lock # "free" => KeepsOwners(writing, Unfinalized) /\ KeepsAnswers(writing)
        /\ TrueOfOperation(Loaded(disk)) /\ KeepsAnswers(Loaded(disk))
        /\ KeepsOwners(Loaded(disk), tasks)
        /\ SaversHoldLock
    BY LoadedIsTrue DEF AnswersHold, ReceiptsAreTrue, StartsOnce
  <2>1. CASE UNCHANGED vars
    BY <2>0, <2>1 DEF vars, AnswersHold, OwnersAlone, ReceiptsAreTrue, TrueOfOperation,
       KeepsOwners, KeepsAnswers, Unfinalized, SavedIsUnanswered, AnswersAreHonest, Final
  <2>2. ASSUME NEW c \in Clients, NEW id \in Ids, NEW p \in Params, Arrive(c, id, p)
        PROVE  AnswersHold'
    <3>1. /\ \A d \in Clients : d # c => clients'[d] = clients[d]
          /\ clients'[c].pc = "waiting" /\ clients'[c].told = NoAnswer /\ clients[c].pc = "idle"
          /\ UNCHANGED <<disk, active, tasks, lock, writing, orphans, runs, done, now>>
      BY <2>2 DEF Arrive, TypeOK
    <3>2. \A d \in Clients : clients'[d].told.says \in {"completed", "failed"} \cup Outcomes => d # c
      BY <3>1 DEF NoAnswer, Outcomes
    <3>3. OwnersAlone'
      <4>1. \A t \in tasks : t.client # "nobody" => t.client \in Clients /\ t.client # c
        BY <2>0, <3>1 DEF OwnersAlone, TypeOK, Owners
      <4> QED
        BY <2>0, <3>1, <4>1 DEF OwnersAlone
    <3>4. ReceiptsAreTrue'
      BY <2>0, <3>1, <3>2 DEF ReceiptsAreTrue, TrueOfOperation, KeepsOwners, KeepsAnswers,
         Unfinalized, Final
    <3>5. SavedIsUnanswered'
      BY <2>0, <3>1, <3>2 DEF SavedIsUnanswered, Final
    <3>6. AnswersAreHonest'
      BY <2>0, <3>1, <3>2 DEF AnswersAreHonest
    <3> QED
      BY <3>3, <3>4, <3>5, <3>6 DEF AnswersHold
  <2>3. ASSUME NEW c \in Clients, RefuseUnreadable(c) \/ RefuseKnown(c) \/ RefuseNew(c)
        PROVE  AnswersHold'
    <3>1. lock = "free" /\ clients[c].pc = "waiting"
      BY <2>3 DEF RefuseUnreadable, RefuseKnown, RefuseNew, Waiting
    <3>2. CASE RefuseKnown(c)
      <4> DEFINE r == Loaded(disk)[clients[c].id]
      <4> DEFINE says == IF r.params # clients[c].params THEN "conflict" ELSE r.state
      <4>1. Reply(c, says) /\ r # NoReceipt
        BY <3>2 DEF RefuseKnown
      <4>2. says \in Outcomes => r.state = says /\ r.params = clients[c].params
        BY DEF Outcomes
      <4> HIDE DEF says
      <4> QED
        BY <3>1, <4>1, <4>2, ReplyHolds
    <3>3. CASE RefuseUnreadable(c) \/ RefuseNew(c)
      <4>1. PICK says \in {"unavailable", "expired", "full"} : Reply(c, says)
        BY <3>3 DEF RefuseUnreadable, RefuseNew
      <4>2. says \notin Outcomes
        BY DEF Outcomes
      <4> QED
        BY <3>1, <4>1, <4>2, ReplyHolds
    <3> QED
      BY <2>3, <3>2, <3>3
  <2>4. ASSUME NEW c \in Clients, Record(c)
        PROVE  AnswersHold'
    <3> DEFINE id == clients[c].id
    <3> DEFINE r == [state |-> "running", params |-> clients[c].params]
    <3>1. /\ id \in Ids /\ Window(id, now) /\ lock = "free" /\ clients[c].pc = "waiting"
          /\ Loaded(disk)[id] = NoReceipt
      BY <2>4 DEF Record, Waiting, TypeOK, StartsOnce, Undisturbed
    <3>2. /\ \A d \in Clients : d # c => clients'[d] = clients[d]
          /\ clients'[c].pc = "saving" /\ clients'[c].told = clients[c].told
          /\ clients'[c].id = id /\ clients'[c].params = clients[c].params
          /\ lock' = "admit"
          /\ UNCHANGED <<disk, active, tasks, orphans, runs, done, now>>
      BY <2>4 DEF Record, TypeOK, ClientStates
    <3>3. /\ writing'[id] = r
          /\ \A i \in Ids : i # id => writing'[i] = Loaded(disk)[i]
      BY <2>4, <3>1 DEF Record, Loaded
    <3>4. \A d \in Clients : clients'[d].told = clients[d].told
      BY <3>2
    <3>5. \A t \in tasks : t.id \in Ids /\ t.id # id
      <4>1. \A t \in tasks : t.id \in Ids /\ Loaded(disk)[t.id].state = "running"
        <5> SUFFICES ASSUME NEW t \in tasks
                     PROVE  t.id \in Ids /\ Loaded(disk)[t.id].state = "running"
          OBVIOUS
        <5>1. Loaded(disk)[t.id] = [state |-> "running", params |-> t.params]
          BY <2>0 DEF KeepsOwners
        <5>2. t.id \in Ids
          BY DEF TypeOK, Owners
        <5> QED
          BY <5>1, <5>2
      <4>2. Loaded(disk)[id].state # "running"
        BY <3>1 DEF NoReceipt
      <4> QED
        BY <4>1, <4>2
    <3>6. \A d \in Clients : Final(d) => clients[d].told.about # id
      <4>1. ~(now - Issued[id] > Lifetime)
        BY <3>1, ConstantsAssumption DEF Window, TypeOK
      <4> QED
        BY <2>0, <3>1, <4>1 DEF KeepsAnswers
    <3>7. OwnersAlone'
      <4>1. \A t \in tasks : t.client # "nobody" => t.client \in Clients /\ t.client # c
        BY <2>0, <3>1 DEF OwnersAlone, TypeOK, Owners
      <4> QED
        BY <2>0, <3>2, <4>1 DEF OwnersAlone
    <3>8. TrueOfOperation(writing)'
      <4> SUFFICES ASSUME NEW i \in Ids
                   PROVE  /\ writing'[i] # NoReceipt => Issued[i] <= now + Skew
                          /\ writing'[i].state \in {"completed", "failed"} =>
                               [params |-> writing'[i].params, outcome |-> writing'[i].state] \in done[i]
        BY <3>2 DEF TrueOfOperation
      <4>1. CASE i = id
        BY <3>1, <3>3, <4>1 DEF Window
      <4>2. CASE i # id
        BY <2>0, <3>3, <4>2 DEF TrueOfOperation
      <4> QED
        BY <4>1, <4>2
    <3>9. KeepsOwners(writing', tasks) /\ \A t \in tasks : t.pc # "finalizing"
      BY <2>0, <3>1, <3>3, <3>5 DEF KeepsOwners, SaversHoldLock
    <3>10. KeepsAnswers(writing)' /\ KeepsAnswers(disk)'
      BY <2>0, <3>2, <3>3, <3>4, <3>6 DEF KeepsAnswers, Final
    <3>11. ReceiptsAreTrue'
      BY <2>0, <3>2, <3>8, <3>9, <3>10
         DEF ReceiptsAreTrue, TrueOfOperation, KeepsOwners, Unfinalized
    <3>12. \A d \in Clients : clients'[d].pc = "saving" => d = c
      BY <2>0, <3>1, <3>2 DEF SaversHoldLock
    <3>13. SavedIsUnanswered'
      BY <3>2, <3>3, <3>4, <3>6, <3>12 DEF SavedIsUnanswered, Final
    <3>14. AnswersAreHonest'
      BY <2>0, <3>2, <3>4 DEF AnswersAreHonest
    <3> QED
      BY <3>7, <3>11, <3>13, <3>14 DEF AnswersHold
  <2>5. ASSUME NEW c \in Clients, Admit(c)
        PROVE  AnswersHold'
    <3> DEFINE id == clients[c].id
    <3> DEFINE new == [id |-> id, params |-> clients[c].params, client |-> c,
                       pc |-> "running", outcome |-> "none"]
    <3>1. /\ id \in Ids /\ clients[c].pc = "saving" /\ lock = "admit" /\ runs[id] = 0
          /\ writing[id] = [state |-> "running", params |-> clients[c].params]
          /\ \A d \in Clients : Final(d) => clients[d].told.about # id
      BY <2>0, <2>5 DEF Admit, TypeOK, SaversHoldLock, SavedIsUnanswered, StartsOnce, SavedIsNew
    <3>2. /\ \A d \in Clients : d # c => clients'[d] = clients[d]
          /\ clients'[c].pc = "attached" /\ clients'[c].told = clients[c].told
          /\ clients'[c].id = id /\ clients'[c].params = clients[c].params
          /\ disk' = writing /\ active' = active \cup {id} /\ tasks' = tasks \cup {new}
          /\ lock' = "free"
          /\ UNCHANGED <<writing, done, now>>
      BY <2>5 DEF Admit, TypeOK, ClientStates
    <3>3. \A i \in Ids : runs'[i] = IF i = id THEN 1 ELSE runs[i]
      BY <2>5, <3>1 DEF Admit, TypeOK
    <3>4. \A t \in tasks : /\ t.id \in Ids /\ t.id # id /\ t.pc # "finalizing"
                           /\ t.client # "nobody" => t.client \in Clients /\ t.client # c
      BY <2>0, <3>1 DEF OwnersAlone, SaversHoldLock, TypeOK, Owners
    <3>5. \A d \in Clients : clients'[d].told = clients[d].told
      BY <3>2
    <3>6. OwnersAlone'
      <4>1. ASSUME NEW t \in tasks'
            PROVE  /\ t.id \in active'
                   /\ t.pc # "running" => [params |-> t.params, outcome |-> t.outcome] \in done'[t.id]
                   /\ runs'[t.id] # 0
                   /\ t.client # "nobody" => /\ clients'[t.client].pc = "attached"
                                             /\ clients'[t.client].id = t.id
                                             /\ clients'[t.client].params = t.params
        <5>1. CASE t = new
          BY <3>1, <3>2, <3>3, <5>1
        <5>2. CASE t \in tasks
          BY <2>0, <3>2, <3>3, <3>4, <5>2 DEF OwnersAlone
        <5> QED
          BY <3>2, <5>1, <5>2
      <4>2. \A t, u \in tasks' : t.id = u.id => t = u
        BY <2>0, <3>2, <3>4 DEF OwnersAlone
      <4> QED
        BY <4>1, <4>2 DEF OwnersAlone
    <3>7. KeepsOwners(writing, tasks')
      <4>1. \A t \in tasks : writing[t.id] = [state |-> "running", params |-> t.params]
        BY <2>0, <3>1, <3>4 DEF KeepsOwners, Unfinalized
      <4>2. writing[new.id] = [state |-> "running", params |-> new.params]
        BY <3>1
      <4> QED
        BY <3>2, <4>1, <4>2 DEF KeepsOwners
    <3>8. KeepsAnswers(disk)' /\ TrueOfOperation(writing)'
      BY <2>0, <3>1, <3>2, <3>5 DEF KeepsAnswers, Final, TrueOfOperation
    <3>9. \A t \in tasks' : t.pc # "finalizing"
      BY <3>2, <3>4
    <3>10. ReceiptsAreTrue'
      BY <3>2, <3>7, <3>8, <3>9 DEF ReceiptsAreTrue, KeepsOwners, TrueOfOperation
    <3>11. SavedIsUnanswered'
      BY <2>0, <3>1, <3>2 DEF SavedIsUnanswered, SaversHoldLock
    <3>12. AnswersAreHonest'
      <4>1. \A d \in Clients : clients[d].told.says \in Outcomes => clients[d].told.about # id
        BY <3>1 DEF Final
      <4> QED
        BY <2>0, <3>2, <3>5, <4>1 DEF AnswersAreHonest
    <3> QED
      BY <3>6, <3>10, <3>11, <3>12 DEF AnswersHold
  <2>6. ASSUME NEW c \in Clients, AdmitFails(c)
        PROVE  AnswersHold'
    <3>1. /\ clients[c].pc = "saving" /\ lock = "admit" /\ lock' = "free"
          /\ disk' \in {disk, writing}
          /\ \A d \in Clients : d # c => clients'[d] = clients[d]
          /\ clients'[c].pc = "idle" /\ clients'[c].told.says = "unavailable"
          /\ UNCHANGED <<active, tasks, writing, orphans, runs, done, now>>
      BY <2>0, <2>6 DEF AdmitFails, SaversHoldLock, Idle, Answer, TypeOK
    <3>2. \A d \in Clients : clients'[d].told.says \in {"completed", "failed"} \cup Outcomes => d # c
      BY <3>1 DEF Outcomes
    <3>3. \A t \in tasks : /\ t.pc # "finalizing"
                           /\ t.client # "nobody" => t.client \in Clients /\ t.client # c
      BY <2>0, <3>1 DEF OwnersAlone, SaversHoldLock, TypeOK, Owners
    <3>4. OwnersAlone'
      BY <2>0, <3>1, <3>3 DEF OwnersAlone
    <3>5. KeepsOwners(writing, tasks)
      BY <2>0, <3>1, <3>3 DEF KeepsOwners, Unfinalized
    <3>6. KeepsOwners(disk, tasks)' /\ TrueOfOperation(disk)' /\ TrueOfOperation(writing)'
      BY <2>0, <3>1, <3>5 DEF KeepsOwners, TrueOfOperation
    <3>7. KeepsAnswers(disk)'
      BY <2>0, <3>1, <3>2 DEF KeepsAnswers, Final
    <3>8. ReceiptsAreTrue'
      BY <3>1, <3>3, <3>6, <3>7 DEF ReceiptsAreTrue
    <3>9. SavedIsUnanswered'
      BY <2>0, <3>1 DEF SavedIsUnanswered, SaversHoldLock
    <3>10. AnswersAreHonest'
      BY <2>0, <3>1, <3>2 DEF AnswersAreHonest
    <3> QED
      BY <3>4, <3>8, <3>9, <3>10 DEF AnswersHold
  <2>7. ASSUME NEW c \in Clients, Disconnect(c)
        PROVE  AnswersHold'
    <3> DEFINE Left(t) == IF t.client = c THEN [t EXCEPT !.client = "nobody"] ELSE t
    <3>1. /\ \A d \in Clients : d # c => clients'[d] = clients[d]
          /\ clients'[c].pc = "idle" /\ clients'[c].told = NoAnswer
          /\ tasks' = {Left(t) : t \in tasks}
          /\ UNCHANGED <<disk, active, lock, writing, orphans, runs, done, now>>
      BY <2>7 DEF Disconnect, Idle, TypeOK
    <3>2. \A d \in Clients : clients'[d].told.says \in {"completed", "failed"} \cup Outcomes => d # c
      BY <3>1 DEF NoAnswer, Outcomes
    <3>3. \A t \in tasks : /\ Left(t).id = t.id /\ Left(t).params = t.params
                           /\ Left(t).pc = t.pc /\ Left(t).outcome = t.outcome
                           /\ Left(t).client = (IF t.client = c THEN "nobody" ELSE t.client)
                           /\ t.client # "nobody" => t.client \in Clients
      BY DEF TypeOK, Owners
    <3> HIDE DEF Left
    <3>4. OwnersAlone'
      BY <2>0, <3>1, <3>3 DEF OwnersAlone
    <3>5. KeepsAnswers(disk)' /\ (lock # "free" => KeepsAnswers(writing)')
      BY <2>0, <3>1, <3>2 DEF KeepsAnswers, Final
    <3>6. KeepsOwners(disk, tasks)' /\ (lock # "free" => KeepsOwners(writing, Unfinalized)')
      BY <2>0, <3>1, <3>3 DEF KeepsOwners, Unfinalized
    <3>7. ReceiptsAreTrue'
      BY <2>0, <3>1, <3>3, <3>5, <3>6 DEF ReceiptsAreTrue, TrueOfOperation
    <3>8. SavedIsUnanswered'
      BY <2>0, <3>1, <3>2 DEF SavedIsUnanswered, Final
    <3>9. AnswersAreHonest'
      BY <2>0, <3>1, <3>2, <3>3 DEF AnswersAreHonest
    <3> QED
      BY <3>4, <3>7, <3>8, <3>9 DEF AnswersHold
  <2>8. ASSUME NEW c \in Clients PROVE ~DisconnectSaving(c)
    BY Undropped DEF Undropped, DisconnectSaving, Mishap
  <2>9. ASSUME NEW t \in tasks, Operate(t)
        PROVE  AnswersHold'
    <3>1. t \in Owners /\ t.pc = "running"
      BY <2>9 DEF Operate, TypeOK
    <3>2. PICK o \in Outcomes :
            /\ tasks' = (tasks \ {t}) \cup {[t EXCEPT !.pc = "finishing", !.outcome = o]}
            /\ done' = [done EXCEPT ![t.id] = @ \cup {[params |-> t.params, outcome |-> o]}]
      BY <2>9 DEF Operate
    <3> DEFINE new == [t EXCEPT !.pc = "finishing", !.outcome = o]
    <3>3. /\ new.id = t.id /\ new.params = t.params /\ new.client = t.client
          /\ new.pc = "finishing" /\ new.outcome = o /\ t.id \in Ids
      BY <3>1 DEF Owners
    <3>4. /\ \A i \in Ids : done[i] \subseteq done'[i]
          /\ [params |-> t.params, outcome |-> o] \in done'[t.id]
      BY <3>2, <3>3 DEF TypeOK
    <3>5. /\ tasks' = (tasks \ {t}) \cup {new}
          /\ UNCHANGED <<disk, active, clients, lock, writing, orphans, runs, now>>
      BY <2>9, <3>2 DEF Operate
    <3> HIDE DEF new
    <3>6. \A u \in tasks : u.id \in Ids
      BY DEF TypeOK, Owners
    <3>7. OwnersAlone'
      <4>1. ASSUME NEW u \in tasks'
            PROVE  /\ u.id \in active
                   /\ u.pc # "running" => [params |-> u.params, outcome |-> u.outcome] \in done'[u.id]
                   /\ runs[u.id] # 0
                   /\ u.client # "nobody" => /\ clients[u.client].pc = "attached"
                                             /\ clients[u.client].id = u.id
                                             /\ clients[u.client].params = u.params
        <5>1. CASE u = new
          BY <2>0, <3>3, <3>4, <5>1 DEF OwnersAlone
        <5>2. CASE u \in tasks
          BY <2>0, <3>4, <3>6, <5>2 DEF OwnersAlone
        <5> QED
          BY <3>5, <5>1, <5>2
      <4>2. \A u, v \in tasks' : u.id = v.id => u = v
        BY <2>0, <3>3, <3>5 DEF OwnersAlone
      <4> QED
        BY <3>5, <4>1, <4>2 DEF OwnersAlone
    <3>8. ReceiptsAreTrue'
      BY <2>0, <3>1, <3>3, <3>4, <3>5 DEF ReceiptsAreTrue, TrueOfOperation, KeepsOwners,
         KeepsAnswers, Unfinalized, Final
    <3>9. SavedIsUnanswered'
      BY <2>0, <3>5 DEF SavedIsUnanswered, Final
    <3>10. AnswersAreHonest'
      <4>1. \A d \in Clients : clients[d].told.says \in Outcomes => clients[d].told.about \in Ids
        BY <2>0 DEF KeepsAnswers, Final
      <4> QED
        BY <2>0, <3>3, <3>4, <3>5, <4>1 DEF AnswersAreHonest, Outcomes
    <3> QED
      BY <3>7, <3>8, <3>9, <3>10 DEF AnswersHold
  <2>10. ASSUME NEW t \in tasks, FinalizeBegins(t)
         PROVE  AnswersHold'
    <3>1. /\ t \in Owners /\ t.id \in Ids /\ t.pc = "finishing" /\ lock = "free"
          /\ t.outcome \in Outcomes
          /\ [params |-> t.params, outcome |-> t.outcome] \in done[t.id]
      BY <2>0, <2>10 DEF FinalizeBegins, TypeOK, Owners, OwnersAlone
    <3> DEFINE new == [t EXCEPT !.pc = "finalizing"]
    <3>2. /\ new.id = t.id /\ new.params = t.params /\ new.client = t.client
          /\ new.pc = "finalizing" /\ new.outcome = t.outcome
      BY <3>1 DEF Owners
    <3>3. /\ tasks' = (tasks \ {t}) \cup {new} /\ lock' = "finalize"
          /\ UNCHANGED <<disk, active, clients, orphans, runs, done, now>>
      BY <2>10 DEF FinalizeBegins
    <3> HIDE DEF new
    <3>4. Loaded(disk)[t.id] = [state |-> "running", params |-> t.params]
      BY <2>0 DEF KeepsOwners
    <3>5. /\ writing'[t.id] = [state |-> t.outcome, params |-> t.params]
          /\ \A i \in Ids : i # t.id => writing'[i] = Loaded(disk)[i]
      BY <2>10, <3>1, <3>4 DEF FinalizeBegins, Loaded
    <3>6. \A u \in tasks : /\ u.id \in Ids /\ u.pc # "finalizing"
                           /\ u # t => u.id # t.id
      BY <2>0, <3>1 DEF OwnersAlone, SaversHoldLock, TypeOK, Owners
    <3>7. OwnersAlone'
      <4>1. ASSUME NEW u \in tasks'
            PROVE  /\ u.id \in active
                   /\ u.pc # "running" => [params |-> u.params, outcome |-> u.outcome] \in done[u.id]
                   /\ runs[u.id] # 0
                   /\ u.client # "nobody" => /\ clients[u.client].pc = "attached"
                                             /\ clients[u.client].id = u.id
                                             /\ clients[u.client].params = u.params
        <5>1. CASE u = new
          BY <2>0, <3>1, <3>2, <5>1 DEF OwnersAlone
        <5>2. CASE u \in tasks
          BY <2>0, <5>2 DEF OwnersAlone
        <5> QED
          BY <3>3, <5>1, <5>2
      <4>2. \A u, v \in tasks' : u.id = v.id => u = v
        BY <2>0, <3>2, <3>3 DEF OwnersAlone
      <4> QED
        BY <3>3, <4>1, <4>2 DEF OwnersAlone
    <3>8. KeepsOwners(disk, tasks)' /\ TrueOfOperation(disk)' /\ KeepsAnswers(disk)'
      BY <2>0, <3>2, <3>3 DEF KeepsOwners, TrueOfOperation, KeepsAnswers, Final
    <3>9. KeepsOwners(writing, Unfinalized)'
      <4>1. \A u \in Unfinalized' : u \in tasks /\ u # t
        BY <3>2, <3>3 DEF Unfinalized
      <4> QED
        BY <2>0, <3>5, <3>6, <4>1 DEF KeepsOwners
    <3>10. TrueOfOperation(writing)'
      <4> SUFFICES ASSUME NEW i \in Ids
                   PROVE  /\ writing'[i] # NoReceipt => Issued[i] <= now + Skew
                          /\ writing'[i].state \in {"completed", "failed"} =>
                               [params |-> writing'[i].params, outcome |-> writing'[i].state] \in done[i]
        BY <3>3 DEF TrueOfOperation
      <4>1. CASE i = t.id
        <5>1. Loaded(disk)[i].state # NoReceipt.state
          BY <3>4, <4>1 DEF NoReceipt
        <5>2. Issued[i] <= now + Skew
          BY <2>0, <5>1 DEF TrueOfOperation
        <5> QED
          BY <3>1, <3>5, <4>1, <5>2
      <4>2. CASE i # t.id
        BY <2>0, <3>5, <4>2 DEF TrueOfOperation
      <4> QED
        BY <4>1, <4>2
    <3>11. KeepsAnswers(writing)'
      <4>1. writing'[t.id] # NoReceipt
        <5>1. writing'[t.id].state = t.outcome
          BY <3>5
        <5> QED
          BY <3>1, <5>1 DEF NoReceipt, Outcomes
      <4>2. \A i \in Ids : Loaded(disk)[i] # NoReceipt => writing'[i] # NoReceipt
        BY <3>5, <4>1
      <4> QED
        BY <2>0, <3>3, <4>2 DEF KeepsAnswers, Final
    <3>12. \A u \in tasks' : u.pc = "finalizing" =>
              writing'[u.id] = [state |-> u.outcome, params |-> u.params]
      BY <3>2, <3>3, <3>5, <3>6
    <3>13. ReceiptsAreTrue'
      BY <3>8, <3>9, <3>10, <3>11, <3>12 DEF ReceiptsAreTrue
    <3>14. SavedIsUnanswered'
      BY <2>0, <3>1, <3>3 DEF SavedIsUnanswered, SaversHoldLock
    <3>15. AnswersAreHonest'
      BY <2>0, <3>2, <3>3 DEF AnswersAreHonest
    <3> QED
      BY <3>7, <3>13, <3>14, <3>15 DEF AnswersHold
  <2>11. ASSUME NEW t \in tasks, FinalizeEnds(t) \/ FinalizeFails(t)
         PROVE  AnswersHold'
    <3>1. /\ lock' = "free" /\ UNCHANGED <<writing, orphans, runs, done, now>>
          /\ lock = "free" \/ t.pc = "finalizing"
          /\ disk' = disk \/ (disk' = writing /\ t.pc = "finalizing")
      BY <2>11 DEF FinalizeEnds, FinalizeFails
    <3>2. PICK says : /\ OwnerEnds(t, says)
                      /\ \/ says = t.outcome /\ disk' = writing /\ t.pc = "finalizing"
                         \/ says = "unavailable"
      BY <2>11 DEF FinalizeEnds, FinalizeFails
    <3>3. /\ t \in Owners /\ t.id \in Ids /\ t.client \in Clients \cup {"nobody"}
          /\ active' = active \ {t.id} /\ tasks' = tasks \ {t}
          /\ t.pc = "finalizing" => t.outcome \in Outcomes
      BY <3>2 DEF OwnerEnds, TypeOK, Owners
    <3>4. \A u \in tasks' : u \in tasks /\ u.id \in Ids /\ u.id # t.id /\ u.pc # "finalizing"
      <4>1. \A u \in tasks' : u \in tasks /\ u # t /\ u.id # t.id
        BY <2>0, <3>3 DEF OwnersAlone
      <4>2. \A u \in tasks' : u.pc # "finalizing"
        BY <2>0, <3>1, <4>1 DEF SaversHoldLock
      <4> QED
        BY <4>1, <4>2 DEF TypeOK, Owners
    <3>5. t.pc = "finalizing" =>
            /\ KeepsOwners(writing, tasks') /\ KeepsAnswers(writing)
            /\ writing[t.id] = [state |-> t.outcome, params |-> t.params]
            /\ Issued[t.id] <= now + Skew /\ writing[t.id] # NoReceipt
            /\ [params |-> t.params, outcome |-> t.outcome] \in done[t.id]
      <4> SUFFICES ASSUME t.pc = "finalizing"
                   PROVE  /\ KeepsOwners(writing, tasks') /\ KeepsAnswers(writing)
                          /\ writing[t.id] = [state |-> t.outcome, params |-> t.params]
                          /\ Issued[t.id] <= now + Skew /\ writing[t.id] # NoReceipt
                          /\ [params |-> t.params, outcome |-> t.outcome] \in done[t.id]
        OBVIOUS
      <4>1. lock # "free"
        BY <2>0 DEF SaversHoldLock
      <4>2. KeepsOwners(writing, tasks') /\ KeepsAnswers(writing)
        BY <2>0, <3>4, <4>1 DEF KeepsOwners, Unfinalized
      <4>3. writing[t.id] = [state |-> t.outcome, params |-> t.params]
        BY <2>0 DEF ReceiptsAreTrue
      <4>4. writing[t.id] # NoReceipt
        <5>1. writing[t.id].state = t.outcome
          BY <4>3
        <5> QED
          BY <3>3, <5>1 DEF NoReceipt, Outcomes
      <4>5. Issued[t.id] <= now + Skew
        BY <2>0, <3>3, <4>4 DEF TrueOfOperation
      <4>6. [params |-> t.params, outcome |-> t.outcome] \in done[t.id]
        BY <2>0 DEF OwnersAlone
      <4> QED
        BY <4>2, <4>3, <4>4, <4>5, <4>6
    \* What each client was told: what it was told before, or the outcome.
    <3>6. \A d \in Clients :
            \/ clients'[d] = clients[d] /\ d # t.client
            \/ /\ d = t.client /\ clients'[d].pc = "idle"
               /\ clients'[d].told = [about |-> t.id, params |-> t.params, says |-> says]
      <4>1. t.client # "nobody" => /\ clients[t.client].id = t.id
                                   /\ clients[t.client].params = t.params
        BY <2>0 DEF OwnersAlone
      <4> QED
        BY <3>2, <3>3, <4>1, ConstantsAssumption DEF OwnerEnds, Answer, Idle, TypeOK
    <3>7. OwnersAlone'
      <4>1. \A u \in tasks' : u.client # "nobody" => u.client \in Clients /\ u.client # t.client
        <5> SUFFICES ASSUME NEW u \in tasks', u.client # "nobody"
                     PROVE  u.client \in Clients /\ u.client # t.client
          OBVIOUS
        <5>1. u \in tasks /\ u.id # t.id
          BY <3>4
        <5>2. clients[u.client].id = u.id
          BY <2>0, <5>1 DEF OwnersAlone
        <5>3. t.client # "nobody" => clients[t.client].id = t.id
          BY <2>0 DEF OwnersAlone
        <5>4. u.client \in Clients
          BY <5>1 DEF TypeOK, Owners
        <5> QED
          BY <5>1, <5>2, <5>3, <5>4
      <4> QED
        BY <2>0, <3>1, <3>3, <3>4, <3>6, <4>1 DEF OwnersAlone
    <3>8. KeepsOwners(disk, tasks)' /\ TrueOfOperation(disk)' /\ TrueOfOperation(writing)'
      BY <2>0, <3>1, <3>4, <3>5 DEF KeepsOwners, TrueOfOperation
    <3>9. KeepsAnswers(disk)'
      <4> SUFFICES ASSUME NEW d \in Clients, clients'[d].told.says \in Outcomes
                   PROVE  LET id == clients'[d].told.about
                          IN  /\ id \in Ids /\ Issued[id] <= now + Skew
                              /\ disk'[id] # NoReceipt \/ now - Issued[id] > Lifetime
        BY <3>1 DEF KeepsAnswers, Final
      <4>1. CASE clients'[d] = clients[d]
        BY <2>0, <3>1, <3>5, <4>1 DEF KeepsAnswers, Final
      <4>2. CASE clients'[d].told = [about |-> t.id, params |-> t.params, says |-> says]
        <5>1. says \in Outcomes /\ clients'[d].told.about = t.id
          BY <4>2
        <5>2. disk' = writing /\ t.pc = "finalizing"
          BY <3>2, <5>1 DEF Outcomes
        <5> QED
          BY <3>3, <3>5, <5>1, <5>2
      <4> QED
        BY <3>6, <4>1, <4>2
    <3>10. ReceiptsAreTrue'
      BY <3>1, <3>4, <3>8, <3>9 DEF ReceiptsAreTrue
    <3>11. SavedIsUnanswered'
      <4>1. \A d \in Clients : clients'[d].pc # "saving"
        BY <2>0, <3>1, <3>6 DEF SaversHoldLock
      <4> QED
        BY <4>1 DEF SavedIsUnanswered
    <3>12. AnswersAreHonest'
      <4> SUFFICES ASSUME NEW d \in Clients
                   PROVE  /\ clients'[d].told.says \in {"completed", "failed"} =>
                               [params |-> clients'[d].told.params, outcome |-> clients'[d].told.says]
                                 \in done[clients'[d].told.about]
                          /\ clients'[d].told.says \in Outcomes =>
                               \A u \in tasks' : u.id # clients'[d].told.about
        BY <3>1 DEF AnswersAreHonest
      <4>1. CASE clients'[d] = clients[d]
        BY <2>0, <3>4, <4>1 DEF AnswersAreHonest
      <4>2. CASE clients'[d].told = [about |-> t.id, params |-> t.params, says |-> says]
        <5>1. /\ clients'[d].told.about = t.id /\ clients'[d].told.says = says
              /\ clients'[d].told.params = t.params
          BY <4>2
        <5>2. says \in {"completed", "failed"} => says = t.outcome /\ t.pc = "finalizing"
          BY <3>2
        <5> QED
          BY <3>4, <3>5, <5>1, <5>2
      <4> QED
        BY <3>6, <4>1, <4>2
    <3> QED
      BY <3>7, <3>10, <3>11, <3>12 DEF AnswersHold
  <2>12. ASSUME OrphanLands PROVE FALSE
    BY <2>12 DEF OrphanLands, StartsOnce, Undisturbed
  <2>13. CASE Crash
    <3>1. /\ \A c \in Clients : clients'[c].pc = "idle" /\ clients'[c].told = NoAnswer
          /\ tasks' = {} /\ lock' = "free" /\ disk' \in {disk, writing}
          /\ UNCHANGED <<writing, runs, done, now>>
      BY <2>13 DEF Crash, Idle, StartsOnce, Undisturbed
    <3>2. \A c \in Clients : clients'[c].told.says \notin {"completed", "failed"} \cup Outcomes
      BY <3>1 DEF NoAnswer, Outcomes
    <3>3. ReceiptsAreTrue'
      BY <2>0, <3>1, <3>2 DEF ReceiptsAreTrue, TrueOfOperation, KeepsOwners, KeepsAnswers, Final
    <3> QED
      BY <3>1, <3>2, <3>3 DEF AnswersHold, OwnersAlone, SavedIsUnanswered, AnswersAreHonest
  <2>14. CASE Tick
    <3>1. /\ now' = now + 1 /\ now \in Nat
          /\ UNCHANGED <<disk, active, clients, tasks, lock, writing, orphans, runs, done>>
      BY <2>14 DEF Tick, TypeOK
    <3>2. \A i \in Ids : Issued[i] \in Nat
      BY ConstantsAssumption
    <3>3. ASSUME NEW docs, TrueOfOperation(docs)
          PROVE  \A i \in Ids : docs[i] # NoReceipt => Issued[i] <= now' + Skew
      <4> SUFFICES ASSUME NEW i \in Ids, docs[i] # NoReceipt
                   PROVE  Issued[i] <= now' + Skew
        OBVIOUS
      <4>1. Issued[i] <= now + Skew /\ Issued[i] \in Nat /\ Skew \in Nat
        BY <3>2, <3>3, ConstantsAssumption DEF TrueOfOperation
      <4> QED
        BY <3>1, <4>1
    <3>4. ASSUME NEW docs, KeepsAnswers(docs)
          PROVE  \A c \in Clients : Final(c) =>
                    LET id == clients[c].told.about
                    IN  /\ id \in Ids /\ Issued[id] <= now' + Skew
                        /\ docs[id] # NoReceipt \/ now' - Issued[id] > Lifetime
      BY <3>1, <3>2, <3>4, ConstantsAssumption DEF KeepsAnswers
    <3>5. TrueOfOperation(disk)' /\ TrueOfOperation(writing)'
      BY <2>0, <3>1, <3>3 DEF TrueOfOperation
    <3>6. KeepsAnswers(disk)' /\ (lock # "free" => KeepsAnswers(writing)')
      BY <2>0, <3>1, <3>4 DEF KeepsAnswers, Final
    <3>7. ReceiptsAreTrue'
      BY <2>0, <3>1, <3>5, <3>6 DEF ReceiptsAreTrue, KeepsOwners, Unfinalized
    <3> QED
      BY <2>0, <3>1, <3>7 DEF AnswersHold, OwnersAlone, SavedIsUnanswered, AnswersAreHonest, Final
  <2> QED
    BY <2>1, <2>2, <2>3, <2>4, <2>5, <2>6, <2>7, <2>8, <2>9, <2>10, <2>11, <2>12, <2>13, <2>14
       DEF Next, Enforce, Owner
<1> QED
  BY <1>1, <1>2, TypeCorrect, Once, PTL DEF Spec

\* What a retry is told about the original is true of it, however requests,
\* failures and deaths of the Agent interleave (enforce, load, finalize).
THEOREM RetriesAreToldTheTruth == ASSUME Undropped PROVE Spec => []AnswersAreHonest
<1>1. AnswersHold => AnswersAreHonest
  BY DEF AnswersHold
<1> QED
  BY <1>1, Honest, PTL
================================================================================

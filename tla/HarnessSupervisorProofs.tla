------------------------ MODULE HarnessSupervisorProofs ------------------------
(***************************************************************************)
(* Proofs about HarnessSupervisor for every number of launches, every set  *)
(* of readiness contracts and every budget of mishaps.                     *)
(***************************************************************************)
EXTENDS HarnessSupervisor, TLAPS

-------------------------------------------------------------------------------
(* Updates of SupervisorInner, one field at a time.                        *)

LEMMA Constructors ==
    /\ NoOwner \in Owners /\ NoAttached \in AttachedStates /\ NoTask \in Epochs
    /\ \A k \in {"none", "start", "recovery"}, g \in Nat, e \in Nat : Owner(k, g, e) \in Owners
    /\ \A st \in States : FreshInner(st) \in SupervisorInner
<1>1. NoOwner \in Owners /\ NoAttached \in AttachedStates /\ NoTask \in Epochs
  BY SMT DEF NoOwner, Owners, NoAttached, AttachedStates, NoTask, Epochs
<1>2. \A k \in {"none", "start", "recovery"}, g \in Nat, e \in Nat : Owner(k, g, e) \in Owners
  BY SMT DEF Owner, Owners
<1>3. \A st \in States : FreshInner(st) \in SupervisorInner
  BY <1>1, ConstantsAssumption, SMT
  DEF FreshInner, SupervisorInner, AllReadiness, ConstantsAssumption
<1> QED BY <1>1, <1>2, <1>3

LEMMA LaunchFields ==
  ASSUME NEW i \in SupervisorInner
  PROVE  /\ \A v \in 0..MaxLaunches : [i EXCEPT !.child = v] \in SupervisorInner
         /\ \A v \in 0..MaxLaunches : [i EXCEPT !.job = v] \in SupervisorInner
         /\ \A v \in 0..MaxLaunches : [i EXCEPT !.pid = v] \in SupervisorInner
         /\ \A v \in States : [i EXCEPT !.st = v] \in SupervisorInner
         /\ \A v \in Nat : [i EXCEPT !.epoch = v] \in SupervisorInner
         /\ \A v \in Nat : [i EXCEPT !.recovery = v] \in SupervisorInner
<1>1. \A v \in 0..MaxLaunches : [i EXCEPT !.child = v] \in SupervisorInner
  BY SMT DEF SupervisorInner
<1>2. \A v \in 0..MaxLaunches : [i EXCEPT !.job = v] \in SupervisorInner
  BY SMT DEF SupervisorInner
<1>3. \A v \in 0..MaxLaunches : [i EXCEPT !.pid = v] \in SupervisorInner
  BY SMT DEF SupervisorInner
<1>4. \A v \in States : [i EXCEPT !.st = v] \in SupervisorInner
  BY SMT DEF SupervisorInner
<1>5. \A v \in Nat : [i EXCEPT !.epoch = v] \in SupervisorInner
  BY SMT DEF SupervisorInner
<1>6. \A v \in Nat : [i EXCEPT !.recovery = v] \in SupervisorInner
  BY SMT DEF SupervisorInner
<1> QED BY <1>1, <1>2, <1>3, <1>4, <1>5, <1>6

LEMMA OwnershipFields ==
  ASSUME NEW i \in SupervisorInner
  PROVE  /\ \A v \in BOOLEAN : [i EXCEPT !.stop_pending = v] \in SupervisorInner
         /\ \A v \in BOOLEAN : [i EXCEPT !.start_ownership_pending = v] \in SupervisorInner
         /\ \A v \in BOOLEAN : [i EXCEPT !.unattached_monitor_started = v] \in SupervisorInner
         /\ \A v \in AllReadiness : [i EXCEPT !.readiness = v] \in SupervisorInner
         /\ \A v \in Owners : [i EXCEPT !.owner = v] \in SupervisorInner
         /\ \A v \in AttachedStates : [i EXCEPT !.attached = v] \in SupervisorInner
<1>1. \A v \in BOOLEAN : [i EXCEPT !.stop_pending = v] \in SupervisorInner
  BY SMT DEF SupervisorInner
<1>2. \A v \in BOOLEAN : [i EXCEPT !.start_ownership_pending = v] \in SupervisorInner
  BY SMT DEF SupervisorInner
<1>3. \A v \in BOOLEAN : [i EXCEPT !.unattached_monitor_started = v] \in SupervisorInner
  BY SMT DEF SupervisorInner
<1>4. \A v \in AllReadiness : [i EXCEPT !.readiness = v] \in SupervisorInner
  BY SMT DEF SupervisorInner
<1>5. \A v \in Owners : [i EXCEPT !.owner = v] \in SupervisorInner
  BY SMT DEF SupervisorInner
<1>6. \A v \in AttachedStates : [i EXCEPT !.attached = v] \in SupervisorInner
  BY SMT DEF SupervisorInner
<1> QED BY <1>1, <1>2, <1>3, <1>4, <1>5, <1>6

LEMMA AttachedField ==
  \A a \in AttachedStates : \A v \in BOOLEAN : [a EXCEPT !.recovering = v] \in AttachedStates
  BY SMT DEF AttachedStates

\* The fields of a typed SupervisorInner.
LEMMA FieldTypes ==
  ASSUME NEW i \in SupervisorInner
  PROVE  /\ i.child \in 0..MaxLaunches /\ i.job \in 0..MaxLaunches /\ i.pid \in 0..MaxLaunches
         /\ i.st \in States /\ i.epoch \in Nat /\ i.epoch + 1 \in Nat /\ i.recovery \in Nat
         /\ i.stop_pending \in BOOLEAN /\ i.start_ownership_pending \in BOOLEAN
         /\ i.unattached_monitor_started \in BOOLEAN /\ i.readiness \in AllReadiness
         /\ i.owner \in Owners /\ i.attached \in AttachedStates
  BY SMT DEF SupervisorInner

\* Values the updates use.
LEMMA Values ==
    /\ 0 \in 0..MaxLaunches /\ 0 \in Nat
    /\ "Starting" \in States /\ "Running" \in States /\ "Stopped" \in States
    /\ "Failed" \in States /\ "Detached" \in States
    /\ "off" \in AllReadiness /\ TRUE \in BOOLEAN /\ FALSE \in BOOLEAN
  BY ConstantsAssumption, SMT DEF ConstantsAssumption, States, AllReadiness

LEMMA BeginRecoveryType ==
  ASSUME NEW i \in SupervisorInner, NEW g \in Nat
  PROVE  BeginRecovery(i, g) \in SupervisorInner
<1>1. Owner("recovery", g, i.epoch + 1) \in Owners
  BY Constructors, FieldTypes, Zenon
<1> QED
  BY <1>1, FieldTypes, Values, LaunchFields, OwnershipFields, Zenon DEF BeginRecovery

LEMMA FailedType ==
  ASSUME NEW i \in SupervisorInner
  PROVE  Failed(i) \in SupervisorInner /\ FailedNoPid(i) \in SupervisorInner
  BY Values, LaunchFields, Zenon DEF Failed, FailedNoPid

\* Every action that updates `inner' keeps its type.  The actions that leave it
\* alone need nothing.
LEMMA BootInner ==
  ASSUME TypeOK, Boot PROVE inner' \in SupervisorInner
<1>1. session.gen \in Nat /\ \A st \in States : FreshInner(st) \in SupervisorInner
  BY Constructors, SMT DEF TypeOK, Sessions
<1>2. CASE BootTerminal
  BY <1>1, <1>2, Values, SMT DEF BootTerminal, BootState, TypeOK, States
<1>3. ASSUME NEW rd \in AllReadiness
      PROVE  /\ BootTokenBound => inner' \in SupervisorInner
             /\ BootReattach => inner' \in SupervisorInner
             /\ BootReattachFails => inner' \in SupervisorInner
             /\ BootRecovering => inner' \in SupervisorInner
             /\ BootAbandoned => inner' \in SupervisorInner
             /\ BootUnattached(rd) => inner' \in SupervisorInner
  <2>1. "token" \in AllReadiness /\ "plain" \in AllReadiness
    BY SMT DEF AllReadiness
  <2>a. /\ FreshInner("Failed") \in SupervisorInner /\ FreshInner("Running") \in SupervisorInner
        /\ FreshInner("Stopped") \in SupervisorInner
        /\ FreshInner("Starting") \in SupervisorInner
    BY <1>1, Values
  <2>b. \A st \in States, v \in AllReadiness :
           [FreshInner(st) EXCEPT !.readiness = v] \in SupervisorInner
    BY Constructors, OwnershipFields, <1>1, Zenon
  <2>2. BootTokenBound => inner' \in SupervisorInner
    <3>1. [FreshInner("Failed") EXCEPT !.readiness = "token"] \in SupervisorInner
      BY <2>b, <2>1, Values, Zenon
    <3> QED BY <3>1, Zenon DEF BootTokenBound
  <2>3. BootReattach => inner' \in SupervisorInner
    BY <2>a, <2>1, Values, OwnershipFields, Zenon DEF BootReattach
  <2>4. BootReattachFails => inner' \in SupervisorInner
    <3>1. [FreshInner("Failed") EXCEPT !.readiness = "plain"] \in SupervisorInner
      BY <2>b, <2>1, Values, Zenon
    <3> QED BY <3>1, Zenon DEF BootReattachFails
  <2>5. BootRecovering => inner' \in SupervisorInner
    <3>1. [FreshInner("Starting") EXCEPT !.readiness = "plain"] \in SupervisorInner
      BY <2>a, <2>1, OwnershipFields, Zenon
    <3> QED BY <1>1, <3>1, BeginRecoveryType, Zenon DEF BootRecovering, Gen
  <2>6. BootAbandoned => inner' \in SupervisorInner
    BY <2>a, Zenon DEF BootAbandoned
  <2>7. BootUnattached(rd) => inner' \in SupervisorInner
    <3> DEFINE st == IF BootState = "Failed" THEN "Failed" ELSE "Stopped"
    <3>1. st \in States
      BY Values, Zenon
    <3> HIDE DEF st
    <3>2. [FreshInner(st) EXCEPT !.readiness = rd] \in SupervisorInner
      BY <3>1, <2>b, Zenon
    <3> USE DEF st
    <3> QED BY <3>2, Zenon DEF BootUnattached
  <2> QED BY <2>2, <2>3, <2>4, <2>5, <2>6, <2>7
<1> QED
  BY <1>2, <1>3, ConstantsAssumption, Zenon DEF Boot, ConstantsAssumption

LEMMA DeathInner ==
  ASSUME AgentDies PROVE inner' \in SupervisorInner
  BY Constructors, Values, Zenon DEF AgentDies

LEMMA StartInner ==
  ASSUME TypeOK, NEW rd \in ReadinessKinds,
         \/ Start(rd) \/ StartPrepareFails(rd) \/ StartContextFails(rd) \/ StartSpawnFails(rd)
  PROVE  inner' \in SupervisorInner
<1>1. rd \in AllReadiness
  BY ConstantsAssumption, Zenon DEF ConstantsAssumption
<1>2. PreparedInner(rd) \in SupervisorInner
  BY <1>1, Constructors, FieldTypes, Values, LaunchFields, OwnershipFields, Zenon
  DEF PreparedInner, TypeOK
<1>3. CASE Start(rd)
  <2>1. launches + 1 \in 0..MaxLaunches /\ session.gen + 1 \in Nat
    BY <1>3, ConstantsAssumption, SMT
    DEF Start, MayStart, TypeOK, ConstantsAssumption, Sessions
  <2>2. Owner("start", Gen + 1, inner.epoch + 1) \in Owners
    BY <2>1, Constructors, FieldTypes, Zenon DEF Gen, TypeOK
  <2> QED
    BY <1>2, <1>3, <2>1, <2>2, FieldTypes, Values, LaunchFields, OwnershipFields, Zenon
    DEF Start, TypeOK
<1>4. CASE StartPrepareFails(rd)
  BY <1>2, <1>4, Values, OwnershipFields, FailedType, Zenon DEF StartPrepareFails
<1>5. CASE StartContextFails(rd)
  BY <1>2, <1>5, Zenon DEF StartContextFails
<1>6. CASE StartSpawnFails(rd)
  BY <1>2, <1>6, FailedType, Zenon DEF StartSpawnFails
<1> QED BY <1>3, <1>4, <1>5, <1>6

LEMMA StarterInner ==
  ASSUME TypeOK, StarterAccept \/ MarkRunning \/ FailStart
  PROVE  inner' \in SupervisorInner
<1> USE Constructors, FieldTypes, Values, LaunchFields, OwnershipFields
<1>1. CASE StarterAccept
  BY <1>1, Zenon DEF StarterAccept, TypeOK
<1>2. CASE MarkRunning
  <2>1. [gen |-> Gen, epoch |-> inner.epoch + 1, recovering |-> FALSE] \in AttachedStates
    BY SMT DEF AttachedStates, TypeOK, Gen, Sessions, SupervisorInner
  <2>2. inner \in SupervisorInner
    BY Zenon DEF TypeOK
  <2>3. [inner EXCEPT !.owner = NoOwner, !.st = "Running", !.attached = NoAttached]
          \in SupervisorInner
    BY <2>2, Zenon
  <2>4. [inner EXCEPT !.owner = NoOwner, !.st = "Running", !.epoch = inner.epoch + 1,
                      !.attached = [gen |-> Gen, epoch |-> inner.epoch + 1,
                                    recovering |-> FALSE]] \in SupervisorInner
    BY <2>1, <2>2, Zenon
  <2> HIDE Constructors, FieldTypes, Values, LaunchFields, OwnershipFields
  <2> QED BY <1>2, <2>2, <2>3, <2>4, Zenon DEF MarkRunning
<1>3. CASE FailStart
  <2>1. inner \in SupervisorInner
    BY Zenon DEF TypeOK
  <2>2. [inner EXCEPT !.child = 0, !.epoch = inner.epoch + 1, !.stop_pending = TRUE,
                      !.start_ownership_pending = FALSE, !.recovery = 0,
                      !.owner = NoOwner, !.attached = NoAttached, !.readiness = "off"]
          \in SupervisorInner
    BY <2>1, Zenon
  <2> HIDE Constructors, FieldTypes, Values, LaunchFields, OwnershipFields
  <2> QED BY <1>3, <2>1, <2>2, Zenon DEF FailStart
<1> QED BY <1>1, <1>2, <1>3

LEMMA StopInner ==
  ASSUME TypeOK, StopRequest \/ StopDescendants PROVE inner' \in SupervisorInner
<1> USE Constructors, FieldTypes, Values, LaunchFields, OwnershipFields
<1>0. inner \in SupervisorInner
  BY Zenon DEF TypeOK
<1>1. CASE StopRequest
  BY <1>1, Zenon DEF StopRequest, TypeOK
<1>2. CASE StopDescendants
  <2>1. [inner EXCEPT !.job = 0, !.epoch = inner.epoch + 1,
                      !.start_ownership_pending = FALSE, !.recovery = 0,
                      !.owner = NoOwner, !.readiness = "off"] \in SupervisorInner
    BY <1>0, Zenon
  <2> DEFINE half == [inner EXCEPT !.job = 0, !.epoch = inner.epoch + 1,
                        !.start_ownership_pending = FALSE, !.recovery = 0,
                        !.owner = NoOwner, !.readiness = "off"]
  <2> HIDE DEF half
  <2>2. half \in SupervisorInner
    BY <2>1 DEF half
  <2>3. [half EXCEPT !.attached = NoAttached, !.unattached_monitor_started = FALSE,
                     !.st = "Stopped", !.pid = 0] \in SupervisorInner
    BY <2>2, Zenon
  <2> HIDE Constructors, FieldTypes, Values, LaunchFields, OwnershipFields
  <2> QED BY <1>2, <2>3, Zenon DEF StopDescendants, half
<1> QED BY <1>1, <1>2

LEMMA ReaperInner ==
  ASSUME TypeOK, NEW r \in Reapers,
         \/ FailSawExit(r) \/ ReaperFinishes(r, "Failed") \/ ReaperFinishes(r, "Stopped")
         \/ ReaperDrainFails(r) \/ RestoreStopChild(r)
  PROVE  inner' \in SupervisorInner
<1> USE Constructors, FieldTypes, Values, LaunchFields, OwnershipFields
<1>1. /\ r.readiness \in AllReadiness /\ r.launch \in 0..MaxLaunches /\ r.gen \in Nat
      /\ r.attached \in AttachedStates /\ session.gen \in Nat /\ inner \in SupervisorInner
  BY SMT DEF Reapers, TypeOK, Sessions
<1>2. CASE FailSawExit(r)
  BY <1>1, <1>2, BeginRecoveryType, Zenon DEF FailSawExit, Gen
<1>3. ASSUME NEW st \in {"Failed", "Stopped"}, ReaperFinishes(r, st)
      PROVE  inner' \in SupervisorInner
  BY <1>1, <1>3, Zenon DEF ReaperFinishes, Released
<1>4. CASE ReaperDrainFails(r)
  <2>1. /\ [inner EXCEPT !.stop_pending = FALSE, !.job = 0] \in SupervisorInner
        /\ [inner EXCEPT !.job = 0] \in SupervisorInner
    BY <1>1, Zenon
  <2> HIDE Constructors, FieldTypes, Values, LaunchFields, OwnershipFields
  <2> QED BY <1>4, <2>1, Zenon DEF ReaperDrainFails
<1>5. CASE RestoreStopChild(r)
  <2>1. [gen |-> r.gen, epoch |-> inner.epoch + 1, recovering |-> r.attached.recovering]
          \in AttachedStates
    BY <1>1, SMT DEF AttachedStates
  <2>2. Owner("start", r.gen, inner.epoch + 1) \in Owners
    BY <1>1, Zenon
  <2> DEFINE back == [inner EXCEPT !.child = r.launch, !.stop_pending = FALSE,
                                   !.readiness = r.readiness]
  <2>3. back \in SupervisorInner
    BY <1>1, Zenon
  <2>4. inner.epoch + 1 \in Nat
    BY <1>1
  <2> HIDE DEF back
  <2>5. /\ [back EXCEPT !.epoch = inner.epoch + 1,
                        !.attached = [gen |-> r.gen, epoch |-> inner.epoch + 1,
                                      recovering |-> r.attached.recovering]]
             \in SupervisorInner
        /\ [back EXCEPT !.epoch = inner.epoch + 1, !.attached = NoAttached,
                        !.start_ownership_pending = TRUE,
                        !.owner = Owner("start", r.gen, inner.epoch + 1)]
             \in SupervisorInner
        /\ [back EXCEPT !.attached = NoAttached] \in SupervisorInner
    BY <2>1, <2>2, <2>3, <2>4, Zenon
  <2> HIDE Constructors, FieldTypes, Values, LaunchFields, OwnershipFields
  <2> USE DEF back
  <2> QED BY <1>5, <2>5, Zenon DEF RestoreStopChild
<1> QED BY <1>2, <1>3, <1>4, <1>5

LEMMA ObserveInner ==
  ASSUME TypeOK, ObserveExit \/ ObserveError PROVE inner' \in SupervisorInner
<1> USE Constructors, FieldTypes, Values, LaunchFields, OwnershipFields
<1>1. inner \in SupervisorInner /\ session.gen + 1 \in Nat
  BY SMT DEF TypeOK, Sessions
<1>2. CASE ObserveExit
  <2> DEFINE gone == [inner EXCEPT !.child = 0, !.attached = NoAttached]
             kept == [inner EXCEPT !.child = 0, !.attached = NoAttached, !.recovery = 0,
                                   !.unattached_monitor_started = FALSE]
  <2>0. gone \in SupervisorInner /\ kept \in SupervisorInner
    BY <1>1, Zenon
  <2>1. ExitedWithReadiness => inner' \in SupervisorInner
    <3>1. BeginRecovery(gone, Gen + 1) \in SupervisorInner /\ FailedNoPid(kept) \in SupervisorInner
      BY <1>1, <2>0, BeginRecoveryType, FailedType DEF Gen
    <3> HIDE Constructors, FieldTypes, Values, LaunchFields, OwnershipFields
    <3> QED BY <3>1, Zenon DEF ExitedWithReadiness
  <2>2. ExitedWithoutReadiness => inner' \in SupervisorInner
    BY <1>1, FailedType, Zenon DEF ExitedWithoutReadiness
  <2> QED BY <1>2, <2>1, <2>2, Zenon DEF ObserveExit
<1>3. CASE ObserveError
  BY <1>1, <1>3, FailedType, Zenon DEF ObserveError
<1> QED BY <1>2, <1>3

LEMMA MonitorInner ==
  ASSUME TypeOK, 
         \/ RecoverySucceeds \/ RecoveryExpires \/ AttachedGap \/ AttachedBack
         \/ AttachedExpires \/ UnattachedGap
  PROVE  inner' \in SupervisorInner
<1> USE Constructors, FieldTypes, Values, LaunchFields, OwnershipFields
<1>1. inner \in SupervisorInner /\ session.gen + 1 \in Nat
  BY SMT DEF TypeOK, Sessions
<1>2. CASE RecoverySucceeds
  BY <1>1, <1>2, Zenon DEF RecoverySucceeds
<1>3. CASE RecoveryExpires
  BY <1>1, <1>3, FailedType, Zenon DEF RecoveryExpires
<1>4. CASE AttachedGap
  <2>1. [gen |-> Gen + 1, epoch |-> inner.epoch + 1, recovering |-> TRUE] \in AttachedStates
    BY <1>1, SMT DEF AttachedStates, Gen
  <2>2. [inner EXCEPT !.st = "Starting", !.recovery = 0, !.owner = NoOwner,
                      !.unattached_monitor_started = FALSE, !.epoch = inner.epoch + 1,
                      !.attached = [gen |-> Gen + 1, epoch |-> inner.epoch + 1,
                                    recovering |-> TRUE]] \in SupervisorInner
    BY <1>1, <2>1, Zenon
  <2>3. Failed([inner EXCEPT !.attached = NoAttached]) \in SupervisorInner
    BY <1>1, FailedType, Zenon
  <2> HIDE Constructors, FieldTypes, Values, LaunchFields, OwnershipFields
  <2> QED BY <1>4, <2>2, <2>3, Zenon DEF AttachedGap
<1>5. CASE AttachedBack
  BY <1>1, <1>5, AttachedField, Zenon DEF AttachedBack
<1>6. CASE AttachedExpires
  BY <1>1, <1>6, FailedType, Zenon DEF AttachedExpires
<1>7. CASE UnattachedGap
  <2> DEFINE unclaimed == [inner EXCEPT !.unattached_monitor_started = FALSE]
  <2>1. unclaimed \in SupervisorInner
    BY <1>1, Zenon
  <2>2. BeginRecovery(unclaimed, Gen + 1) \in SupervisorInner /\ Failed(unclaimed) \in SupervisorInner
    BY <1>1, <2>1, BeginRecoveryType, FailedType DEF Gen
  <2> HIDE Constructors, FieldTypes, Values, LaunchFields, OwnershipFields
  <2> QED BY <1>7, <2>2, Zenon DEF UnattachedGap
<1> QED BY <1>2, <1>3, <1>4, <1>5, <1>6, <1>7

\* The same for the durable session.
LEMMA SessionUpdates ==
  ASSUME TypeOK
  PROVE  /\ session.gen \in Nat /\ session.pending \in BOOLEAN
         /\ session.log \in 0..MaxLaunches
         /\ Rotate => session' \in Sessions
         /\ ClearPending => session' \in Sessions
         /\ \A l \in 0..MaxLaunches : Reserved(l) \in Sessions
         /\ \A l \in 0..MaxLaunches, kept \in BOOLEAN :
               [Reserved(l) EXCEPT !.pending = kept] \in Sessions
<1>1. /\ session \in Sessions /\ session.gen \in Nat /\ session.gen + 1 \in Nat
      /\ session.pending \in BOOLEAN /\ session.log \in 0..MaxLaunches
  BY SMT DEF TypeOK, Sessions
<1>2. \A s \in Sessions :
          /\ \A v \in Nat : [s EXCEPT !.gen = v] \in Sessions
          /\ \A v \in BOOLEAN : [s EXCEPT !.pending = v] \in Sessions
  BY SMT DEF Sessions
<1>3. Rotate => session' \in Sessions
  BY <1>1, <1>2, Zenon DEF Rotate
<1>4. ClearPending => session' \in Sessions
  BY <1>1, <1>2, Zenon DEF ClearPending
<1>5. \A l \in 0..MaxLaunches : Reserved(l) \in Sessions
  BY <1>1, SMT DEF Reserved, Sessions, Gen
<1>6. \A l \in 0..MaxLaunches, kept \in BOOLEAN :
         [Reserved(l) EXCEPT !.pending = kept] \in Sessions
  BY <1>2, <1>5, Zenon
<1> QED BY <1>1, <1>3, <1>4, <1>5, <1>6

-------------------------------------------------------------------------------
(* The other variables, action by action.                                  *)

\* One process changes.
LEMMA OsUpdates ==
    /\ \A d \in [Launches -> BOOLEAN], l \in Launches :
          /\ [d EXCEPT ![l] = TRUE] \in [Launches -> BOOLEAN]
          /\ [d EXCEPT ![l] = FALSE] \in [Launches -> BOOLEAN]
    /\ \A ld \in [Launches -> {"none", "live", "exited", "reaped"}], l \in Launches :
          \A v \in {"none", "live", "exited", "reaped"} :
             [ld EXCEPT ![l] = v] \in [Launches -> {"none", "live", "exited", "reaped"}]
<1>1. \A d \in [Launches -> BOOLEAN], l \in Launches : \A v \in BOOLEAN :
         [d EXCEPT ![l] = v] \in [Launches -> BOOLEAN]
  BY SMT
<1>2. \A ld \in [Launches -> {"none", "live", "exited", "reaped"}], l \in Launches :
         \A v \in {"none", "live", "exited", "reaped"} :
             [ld EXCEPT ![l] = v] \in [Launches -> {"none", "live", "exited", "reaped"}]
  BY SMT
<1> QED BY <1>1, <1>2, Values, Zenon

LEMMA ProcessesType == ASSUME TypeOK, Processes PROVE TypeOK'
<1>1. CASE EmitToken
  BY <1>1, SMT DEF TypeOK, EmitToken, Smooth, Gen, diskVars, memVars, taskVars, Sessions
<1>2. ASSUME NEW l \in Launches, LeaderExits(l) PROVE TypeOK'
  BY <1>2, SMT DEF TypeOK, LeaderExits, Smooth, diskVars, memVars, taskVars
<1>3. ASSUME NEW l \in Launches, LeaderForks(l) \/ DescExits(l) PROVE TypeOK'
  <2>1. desc' \in [Launches -> BOOLEAN]
    BY <1>3, OsUpdates, Zenon DEF TypeOK, LeaderForks, DescExits
  <2> QED
    BY <1>3, <2>1, SMT DEF TypeOK, LeaderForks, DescExits, Smooth, diskVars, memVars, taskVars
<1> QED BY <1>1, <1>2, <1>3 DEF Processes

LEMMA BootType == ASSUME TypeOK, Boot PROVE TypeOK'
<1>1. inner' \in SupervisorInner
  BY BootInner
<1>2. session' \in Sessions
  BY SessionUpdates, Zenon
  DEF Boot, BootTerminal, BootTokenBound, BootReattach, BootReattachFails, BootRecovering,
      BootAbandoned, BootUnattached, TryClearPending, TypeOK
<1>3. recoverer' \in Epochs
  BY SMT
  DEF Boot, BootTerminal, BootTokenBound, BootReattach, BootReattachFails, BootRecovering,
      BootAbandoned, BootUnattached, ArmRecoverer, FreshInner, TypeOK, Epochs, Gen, Sessions
<1>4. unMon' \in Nat /\ mishaps' \in Nat
  BY SMT
  DEF Boot, BootTerminal, BootTokenBound, BootReattach, BootReattachFails, BootRecovering,
      BootAbandoned, BootUnattached, TryClearPending, TypeOK, Gen, Sessions, Mishap, Smooth
<1>5. saved' \in States
  BY <1>1, FieldTypes, Zenon DEF Boot
<1> QED BY <1>1, <1>2, <1>3, <1>4, <1>5, SMT DEF TypeOK, Boot, osVars

LEMMA DeathType ==
  ASSUME TypeOK, Crash \/ StartCrashes PROVE TypeOK'
<1>1. AgentDies /\ inner' \in SupervisorInner
  BY DeathInner DEF Crash, StartCrashes
<1>2. \A ld \in [Launches -> {"none", "live", "exited", "reaped"}] :
         JobsClose(ld) => /\ leader' \in [Launches -> {"none", "live", "exited", "reaped"}]
                          /\ desc' \in [Launches -> BOOLEAN]
  BY SMT DEF JobsClose, TypeOK
<1>a. NoStarter \in Starters /\ NoTask \in Epochs
  BY SMT DEF NoStarter, NoTask, Starters, Epochs
<1>3. /\ starter' \in Starters /\ reapers' \subseteq Reapers /\ monitor' \in Nat
      /\ recoverer' \in Epochs /\ attMon' \in Nat /\ unMon' \in Nat /\ dirty' \in BOOLEAN
      /\ up' \in BOOLEAN /\ request' \in {"none", "starting", "aborting", "stopping"}
  BY <1>1, <1>a, Values, Zenon DEF AgentDies
<1>4. CASE Crash
  BY <1>1, <1>2, <1>3, <1>4, SMT DEF Crash, TypeOK, Mishap, diskVars, Gen, Sessions
<1>5. CASE StartCrashes
  <2>1. launches + 1 \in Launches /\ launches + 1 \in 0..MaxLaunches
    BY <1>5, ConstantsAssumption, SMT
    DEF StartCrashes, MayStart, TypeOK, Launches, ConstantsAssumption
  <2>2. [leader EXCEPT ![launches + 1] = "live"]
          \in [Launches -> {"none", "live", "exited", "reaped"}]
    BY <2>1, SMT DEF TypeOK
  <2>3. session' \in Sessions
    BY <1>5, <2>1, SessionUpdates, Values, Zenon DEF StartCrashes
  <2>4. leader' \in [Launches -> {"none", "live", "exited", "reaped"}]
        /\ desc' \in [Launches -> BOOLEAN]
    BY <1>2, <1>5, <2>2, Zenon DEF StartCrashes, TypeOK
  <2>5. saved' \in States
    BY <1>5, Values, Zenon DEF StartCrashes, TypeOK
  <2> QED
    BY <1>1, <1>3, <1>5, <2>1, <2>3, <2>4, <2>5, SMT
    DEF StartCrashes, TypeOK, Mishap, Gen, Sessions
<1> QED BY <1>4, <1>5

LEMMA StartingType ==
  ASSUME TypeOK, Starting PROVE TypeOK'
<1>0. /\ session.gen \in Nat /\ session.gen + 1 \in Nat /\ inner.epoch + 1 \in Nat
      /\ inner.job \in 0..MaxLaunches /\ inner \in SupervisorInner /\ mishaps + 1 \in Nat
  BY FieldTypes, SMT DEF TypeOK, Sessions
<1>1. desc' = PreviousJobEnded => desc' \in [Launches -> BOOLEAN]
  <2>1. inner.job # 0 => inner.job \in Launches
    BY <1>0, ConstantsAssumption, SMT DEF Launches, ConstantsAssumption
  <2>2. desc \in [Launches -> BOOLEAN]
    BY Zenon DEF TypeOK
  <2>3. CASE inner.job = 0
    BY <2>2, <2>3, Zenon DEF PreviousJobEnded
  <2>4. CASE inner.job # 0
    <3>1. [desc EXCEPT ![inner.job] = FALSE] \in [Launches -> BOOLEAN]
      BY <2>1, <2>2, <2>4, SMT
    <3> QED BY <3>1, <2>4, Zenon DEF PreviousJobEnded
  <2> QED BY <2>3, <2>4
<1>2. ASSUME NEW rd \in ReadinessKinds, Start(rd) PROVE TypeOK'
  <2>1. inner' \in SupervisorInner
    BY <1>2, StartInner
  <2>2. launches + 1 \in Launches /\ launches + 1 \in 0..MaxLaunches
    BY <1>2, ConstantsAssumption, SMT
    DEF Start, MayStart, TypeOK, Launches, ConstantsAssumption
  <2>3. leader' \in [Launches -> {"none", "live", "exited", "reaped"}]
    BY <1>2, <2>2, OsUpdates, Zenon DEF Start, TypeOK
  <2>4. session' \in Sessions
    BY <1>2, <2>2, SessionUpdates, Zenon DEF Start
  <2>5. starter' \in Starters
    BY <1>0, <1>2, SMT DEF Start, Starters, Gen
  <2>6. saved' \in States
    BY <1>2, Values, Zenon DEF Start
  <2>7. request' \in {"none", "starting", "aborting", "stopping"} /\ dirty' \in BOOLEAN
    <3>1. request' = "starting" /\ dirty' = FALSE
      BY <1>2, Zenon DEF Start
    <3>2. request' \in {"none", "starting", "aborting", "stopping"}
      BY <3>1, Zenon
    <3> QED BY <3>1, <3>2, Values, Zenon
  <2>8. desc' \in [Launches -> BOOLEAN] /\ launches' \in 0..MaxLaunches
    BY <1>1, <1>2, <2>2, Zenon DEF Start
  <2> QED
    BY <1>2, <2>1, <2>3, <2>4, <2>5, <2>6, <2>7, <2>8, Zenon DEF Start, TypeOK, Smooth
<1>3. ASSUME NEW rd \in ReadinessKinds,
             StartPrepareFails(rd) \/ StartContextFails(rd) \/ StartSpawnFails(rd)
      PROVE  TypeOK'
  <2>1. inner' \in SupervisorInner
    BY <1>3, StartInner
  <2>2. session' \in Sessions
    BY <1>3, SessionUpdates, Values, Zenon
    DEF StartPrepareFails, StartContextFails, StartSpawnFails
  <2>3. saved' \in States
    BY <1>3, Values, Zenon DEF StartPrepareFails, StartContextFails, StartSpawnFails, TypeOK
  <2> QED
    BY <1>0, <1>1, <1>3, <2>1, <2>2, <2>3, Values, Zenon
    DEF StartPrepareFails, StartContextFails, StartSpawnFails, TypeOK, Mishap
<1>4. \A p \in {"none", "gate", "go", "abort", "wait"} : [starter EXCEPT !.pc = p] \in Starters
  BY SMT DEF TypeOK, Starters
<1>a. NoStarter \in Starters
  BY SMT DEF NoStarter, Starters
<1>5. CASE StartPersisted \/ StartAborted \/ AbortReturns
  <2>1. starter' \in Starters
    BY <1>4, <1>5, Zenon DEF StartPersisted, StartAborted, AbortReturns, TypeOK
  <2>2. saved' \in States
    BY <1>0, <1>5, FieldTypes, Zenon
    DEF StartPersisted, StartAborted, AbortReturns, TypeOK, diskVars
  <2>3. mishaps' \in Nat
    BY <1>0, <1>5, SMT
    DEF StartPersisted, StartAborted, AbortReturns, Mishap, Smooth, TypeOK
  <2>4. request' \in {"none", "starting", "aborting", "stopping"}
    BY <1>5, SMT DEF StartPersisted, StartAborted, AbortReturns
  <2> QED
    BY <1>5, <2>1, <2>2, <2>3, <2>4, Zenon
    DEF StartPersisted, StartAborted, AbortReturns, TypeOK, osVars, diskVars, memVars
<1>6. CASE StarterAccept \/ StarterStale
  <2>1. inner' \in SupervisorInner
    BY <1>0, <1>6, StarterInner, Zenon DEF StarterStale, memVars
  <2>2. starter' \in Starters
    BY <1>4, <1>6, <1>a, Zenon DEF StarterAccept, StarterStale
  <2> QED
    BY <1>0, <1>6, <2>1, <2>2, Zenon
    DEF StarterAccept, StarterStale, TypeOK, osVars, diskVars, memVars, Smooth, Gen
<1>7. CASE MarkRunning
  <2>1. inner' \in SupervisorInner
    BY <1>7, StarterInner
  <2> QED
    BY <1>0, <1>7, <1>a, <2>1, Values, Zenon
    DEF MarkRunning, TypeOK, osVars, diskVars, Smooth, Gen
<1>8. CASE FailStart
  <2>1. inner' \in SupervisorInner
    BY <1>8, StarterInner
  <2>2. [kind |-> "fail", launch |-> inner.child, gen |-> Gen, epoch |-> inner.epoch + 1,
         readiness |-> inner.readiness, attached |-> NoAttached] \in Reapers
    BY <1>0, FieldTypes, Constructors, SMT DEF Reapers, Gen
  <2>3. reapers' \subseteq Reapers
    BY <1>8, <2>2, Zenon DEF FailStart, TypeOK
  <2> QED
    BY <1>0, <1>8, <1>a, <2>1, <2>3, Zenon DEF FailStart, TypeOK, osVars, diskVars, Smooth
<1> QED BY <1>2, <1>3, <1>5, <1>6, <1>7, <1>8, Zenon DEF Starting

LEMMA StoppingType ==
  ASSUME TypeOK, Stopping PROVE TypeOK'
<1>0. /\ session.gen \in Nat /\ inner.epoch + 1 \in Nat /\ inner \in SupervisorInner
      /\ inner.job \in 0..MaxLaunches /\ mishaps + 1 \in Nat /\ session \in Sessions
  BY FieldTypes, SMT DEF TypeOK, Sessions
<1>1. \A l \in 0..MaxLaunches : l # 0 => l \in Launches
  BY ConstantsAssumption, SMT DEF Launches, ConstantsAssumption
<1>2. CASE StopRequest
  <2>1. inner' \in SupervisorInner
    BY <1>2, StopInner
  <2>2. [kind |-> "stop", launch |-> inner.child, gen |-> Gen, epoch |-> inner.epoch + 1,
         readiness |-> inner.readiness, attached |-> inner.attached] \in Reapers
    BY <1>0, FieldTypes, SMT DEF Reapers, Gen
  <2>3. reapers' \subseteq Reapers
    BY <1>2, <2>2, Zenon DEF StopRequest, TypeOK
  <2>4. request' \in {"none", "starting", "aborting", "stopping"}
    BY <1>2, SMT DEF StopRequest
  <2> QED
    BY <1>2, <2>1, <2>3, <2>4, Zenon DEF StopRequest, TypeOK, osVars, diskVars, Smooth
<1>3. CASE StopDescendants
  <2>1. inner' \in SupervisorInner
    BY <1>3, StopInner
  <2>2. desc' \in [Launches -> BOOLEAN]
    BY <1>0, <1>1, <1>3, OsUpdates, Zenon DEF StopDescendants, TypeOK
  <2>3. session' \in Sessions /\ saved' \in States
    BY <1>0, <1>3, SessionUpdates, Values, Zenon DEF StopDescendants, TypeOK
  <2> QED
    BY <1>0, <1>3, <2>1, <2>2, <2>3, Values, Zenon
    DEF StopDescendants, TypeOK, Mishap, Smooth
<1>4. CASE StopCancelled
  BY <1>0, <1>4, SMT DEF StopCancelled, TypeOK, osVars, diskVars, memVars, Mishap
<1>5. ASSUME NEW r \in Reapers,
             \/ FailSawExit(r) \/ ReaperFinishes(r, "Failed") \/ ReaperFinishes(r, "Stopped")
             \/ ReaperDrainFails(r) \/ RestoreStopChild(r)
      PROVE  TypeOK'
  <2>1. inner' \in SupervisorInner
    BY <1>5, ReaperInner
  <2>2. /\ r.launch \in 0..MaxLaunches /\ r.gen \in Nat /\ TreeOf(r) \in 0..MaxLaunches
    BY <1>0, SMT DEF Reapers, TreeOf
  <2>3. /\ leader' \in [Launches -> {"none", "live", "exited", "reaped"}]
        /\ desc' \in [Launches -> BOOLEAN]
    <3>1. \A l \in Launches :
            /\ [leader EXCEPT ![l] = "reaped"]
                 \in [Launches -> {"none", "live", "exited", "reaped"}]
            /\ [desc EXCEPT ![l] = FALSE] \in [Launches -> BOOLEAN]
      BY OsUpdates DEF TypeOK
    <3>2. CASE FailSawExit(r)
      BY <1>1, <2>2, <3>1, <3>2, Zenon DEF FailSawExit, Reap, GroupSignalled, TypeOK
    <3>3. CASE ReaperFinishes(r, "Failed") \/ ReaperFinishes(r, "Stopped")
      BY <1>1, <2>2, <3>1, <3>3, Zenon DEF ReaperFinishes, TreeEnds, KillTree, osVars, TypeOK
    <3>4. CASE ReaperDrainFails(r)
      BY <1>1, <2>2, <3>1, <3>4, Zenon DEF ReaperDrainFails, TypeOK
    <3>5. CASE RestoreStopChild(r)
      BY <3>5, Zenon DEF RestoreStopChild, osVars, TypeOK
    <3> QED BY <1>5, <3>2, <3>3, <3>4, <3>5
  <2>4. session' \in Sessions
    BY <1>0, <1>5, SessionUpdates, Zenon
    DEF FailSawExit, ReaperFinishes, ReaperDrainFails, RestoreStopChild, diskVars
  <2>5. /\ starter' \in Starters /\ recoverer' \in Epochs
    BY <1>0, <1>5, <2>2, SMT
    DEF FailSawExit, ReaperFinishes, ReaperDrainFails, RestoreStopChild, TypeOK,
        ArmRecoverer, Epochs, Starters, Gen
  <2>6. mishaps' \in Nat /\ monitor' \in Nat /\ attMon' \in Nat
    BY <1>0, <1>5, <2>2, SMT
    DEF FailSawExit, ReaperFinishes, ReaperDrainFails, RestoreStopChild, TypeOK, Gen,
        Smooth, Mishap
  <2>7. /\ reapers' \subseteq Reapers /\ dirty' \in BOOLEAN
        /\ request' \in {"none", "starting", "aborting", "stopping"}
    BY <1>5, Values, Zenon
    DEF FailSawExit, ReaperFinishes, ReaperDrainFails, RestoreStopChild, TypeOK
  <2>8. launches' = launches /\ token' = token /\ saved' = saved /\ up' = up /\ unMon' = unMon
    BY <1>5, Zenon
    DEF FailSawExit, ReaperFinishes, ReaperDrainFails, RestoreStopChild, TreeEnds,
        KillTree, osVars, diskVars
  <2> QED BY <2>1, <2>3, <2>4, <2>5, <2>6, <2>7, <2>8, Zenon DEF TypeOK
<1>6. FailReapers \subseteq Reapers /\ StopReapers \subseteq Reapers
  BY Zenon DEF FailReapers, StopReapers, TypeOK
<1> QED
  BY <1>2, <1>3, <1>4, <1>5, <1>6, Zenon DEF Stopping, FinishStop, FinishFail, ReaperFaults

LEMMA ObservingType ==
  ASSUME TypeOK, Observing PROVE TypeOK'
<1>0. /\ session.gen \in Nat /\ session.gen + 1 \in Nat /\ inner.epoch + 1 \in Nat
      /\ inner \in SupervisorInner /\ mishaps + 1 \in Nat /\ session \in Sessions
  BY FieldTypes, SMT DEF TypeOK, Sessions
<1>1. CASE ObserveExit
  <2>1. inner' \in SupervisorInner
    BY <1>1, ObserveInner
  <2>2. inner.child \in Launches
    BY <1>0, <1>1, FieldTypes, ConstantsAssumption, SMT
    DEF ObserveExit, Launches, ConstantsAssumption
  <2>3. leader' \in [Launches -> {"none", "live", "exited", "reaped"}]
    BY <1>1, <2>2, OsUpdates, Zenon DEF ObserveExit, Reap, TypeOK
  <2>4. desc' \in [Launches -> BOOLEAN]
    BY <1>1, <2>2, OsUpdates, Zenon DEF ObserveExit, GroupSignalled, TypeOK
  <2>5. session' \in Sessions
    BY <1>0, <1>1, SessionUpdates, Zenon
    DEF ObserveExit, ExitedWithReadiness, ExitedWithoutReadiness
  <2>6. recoverer' \in Epochs
    BY <1>0, <1>1, SMT
    DEF ObserveExit, ExitedWithReadiness, ExitedWithoutReadiness, ArmRecoverer, Epochs, Gen,
        TypeOK
  <2>7. mishaps' \in Nat
    BY <1>0, <1>1, SMT
    DEF ObserveExit, ExitedWithReadiness, ExitedWithoutReadiness, Mishap, Smooth, TypeOK
  <2>8. dirty' \in BOOLEAN
    BY <1>1 DEF ObserveExit, ExitedWithReadiness, ExitedWithoutReadiness
  <2> QED
    BY <1>0, <1>1, <2>1, <2>3, <2>4, <2>5, <2>6, <2>7, <2>8, Values, Zenon
    DEF ObserveExit, TypeOK, Gen
<1>2. CASE ObserveError
  <2>1. inner' \in SupervisorInner
    BY <1>2, ObserveInner
  <2> QED
    BY <1>0, <1>2, <2>1, Values, Zenon
    DEF ObserveError, TypeOK, osVars, diskVars, Mishap
<1>3. CASE MonitorEnds
  BY <1>3, Values, Zenon DEF MonitorEnds, TypeOK, osVars, diskVars, memVars, Smooth
<1>4. CASE Persist
  <2>1. saved' \in States /\ mishaps' \in Nat
    BY <1>0, <1>4, FieldTypes, Zenon DEF Persist, TypeOK, Smooth, Mishap
  <2> QED BY <1>4, <2>1, Values, Zenon DEF Persist, TypeOK, osVars, memVars
<1> QED BY <1>1, <1>2, <1>3, <1>4 DEF Observing

LEMMA RecoveringType ==
  ASSUME TypeOK, Recovering PROVE TypeOK'
<1>0. /\ session.gen \in Nat /\ mishaps + 1 \in Nat /\ session \in Sessions
  BY SMT DEF TypeOK, Sessions
<1>1. NoTask \in Epochs
  BY Constructors
<1>2. CASE RecoverySucceeds
  <2>1. inner' \in SupervisorInner
    BY <1>2, MonitorInner
  <2> QED
    BY <1>0, <1>1, <1>2, <2>1, Values, Zenon
    DEF RecoverySucceeds, TypeOK, osVars, diskVars, Smooth, Gen
<1>3. CASE RecoveryExpires
  <2>1. inner' \in SupervisorInner
    BY <1>3, MonitorInner
  <2>2. session' \in Sessions /\ mishaps' \in Nat
    BY <1>0, <1>3, SessionUpdates, Zenon
    DEF RecoveryExpires, TryClearPending, Mishap, Smooth, TypeOK
  <2> QED
    BY <1>1, <1>3, <2>1, <2>2, Values, Zenon DEF RecoveryExpires, TypeOK, osVars
<1>4. CASE RecoveryStale
  BY <1>1, <1>4, Zenon DEF RecoveryStale, TypeOK, osVars, diskVars, memVars, Smooth
<1> QED BY <1>2, <1>3, <1>4 DEF Recovering

LEMMA MonitoringType ==
  ASSUME TypeOK, Attached \/ Unattached PROVE TypeOK'
<1>0. /\ session.gen \in Nat /\ session.gen + 1 \in Nat /\ inner.epoch + 1 \in Nat
      /\ mishaps + 1 \in Nat /\ session \in Sessions
  BY FieldTypes, SMT DEF TypeOK, Sessions
<1>1. CASE AttachedGap
  <2>1. inner' \in SupervisorInner
    BY <1>1, MonitorInner
  <2>2. session' \in Sessions
    BY <1>0, <1>1, SessionUpdates, Zenon DEF AttachedGap
  <2>3. attMon' \in Nat /\ monitor' \in Nat /\ mishaps' \in Nat
    BY <1>0, <1>1, Values, Zenon DEF AttachedGap, Mishap, TypeOK, Gen
  <2> QED BY <1>1, <2>1, <2>2, <2>3, Values, Zenon DEF AttachedGap, TypeOK, osVars
<1>2. CASE AttachedBack \/ AttachedExpires
  <2>1. inner' \in SupervisorInner
    BY <1>2, MonitorInner
  <2> QED
    BY <1>2, <2>1, Values, Zenon
    DEF AttachedBack, AttachedExpires, TypeOK, osVars, diskVars, Smooth
<1>3. CASE AttachedStale \/ UnattachedStale
  BY <1>3, Values, Zenon
  DEF AttachedStale, UnattachedStale, TypeOK, osVars, diskVars, memVars, Smooth
<1>4. CASE UnattachedGap
  <2>1. inner' \in SupervisorInner
    BY <1>4, MonitorInner
  <2>2. session' \in Sessions
    BY <1>0, <1>4, SessionUpdates, Zenon DEF UnattachedGap
  <2>3. recoverer' \in Epochs
    BY <1>0, <1>4, SMT DEF UnattachedGap, ArmRecoverer, Epochs, Gen, TypeOK
  <2>4. mishaps' \in Nat
    BY <1>0, <1>4, Zenon DEF UnattachedGap, Mishap, TypeOK
  <2> QED
    BY <1>4, <2>1, <2>2, <2>3, <2>4, Values, Zenon DEF UnattachedGap, TypeOK, osVars
<1> QED BY <1>1, <1>2, <1>3, <1>4 DEF Attached, Unattached

-------------------------------------------------------------------------------
(* Type correctness                                                        *)

\* Every reachable state of the supervisor, its tasks and its durable records is
\* well-formed, whatever the number of launches and the failures injected.
THEOREM TypeCorrect == Spec => []TypeOK
<1>1. Init => TypeOK
  <2> SUFFICES ASSUME Init PROVE TypeOK
    OBVIOUS
  <2>1. session \in Sessions /\ starter \in Starters
    BY Values, SMT DEF Init, Sessions, Starters, NoStarter
  <2>2. inner \in SupervisorInner /\ recoverer \in Epochs
    BY Constructors, Values, Zenon DEF Init
  <2>3. /\ leader \in [Launches -> {"none", "live", "exited", "reaped"}]
        /\ desc \in [Launches -> BOOLEAN]
    BY SMT DEF Init
  <2> QED BY <2>1, <2>2, <2>3, Values, Zenon DEF Init, TypeOK
<1>2. TypeOK /\ [Next]_vars => TypeOK'
  <2> SUFFICES ASSUME TypeOK, [Next]_vars PROVE TypeOK'
    OBVIOUS
  <2>1. CASE UNCHANGED vars
    BY <2>1, Zenon DEF TypeOK, vars, osVars, diskVars, memVars, taskVars
  <2> QED
    BY <2>1, BootType, DeathType, ProcessesType, StartingType, StoppingType, ObservingType,
       RecoveringType, MonitoringType DEF Next
<1> QED BY <1>1, <1>2, PTL DEF Spec

-------------------------------------------------------------------------------
(* Ownership: one child, one finishing owner, one start owner              *)

LEMMA FreshFields ==
  \A st \in States :
    /\ FreshInner(st).child = 0 /\ FreshInner(st).job = 0 /\ FreshInner(st).owner = NoOwner
    /\ ~FreshInner(st).stop_pending /\ ~FreshInner(st).start_ownership_pending
    /\ ~FreshInner(st).unattached_monitor_started
    /\ FreshInner(st).attached = NoAttached
  BY SMT DEF FreshInner

LEMMA OwnerKinds ==
    /\ NoOwner.kind = "none"
    /\ \A k, g, e : Owner(k, g, e).kind = k
    /\ StarterOwner.kind = "start" /\ StarterOwner # NoOwner
  BY SMT DEF NoOwner, Owner, StarterOwner

Unowned(i) ==
    /\ i.child = 0 /\ i.stop_pending = FALSE /\ i.start_ownership_pending = FALSE
    /\ i.owner.kind # "start"

LEMMA UnownedUpdates ==
  ASSUME NEW i \in SupervisorInner, Unowned(i)
  PROVE  /\ \A v : Unowned([i EXCEPT !.readiness = v])
         /\ \A v : Unowned([i EXCEPT !.unattached_monitor_started = v])
         /\ \A v : Unowned([i EXCEPT !.epoch = v])
         /\ Unowned(Failed(i)) /\ Unowned(FailedNoPid(i))
         /\ \A g : Unowned(BeginRecovery(i, g))
<1>1. /\ \A v : Unowned([i EXCEPT !.readiness = v])
      /\ \A v : Unowned([i EXCEPT !.unattached_monitor_started = v])
      /\ \A v : Unowned([i EXCEPT !.epoch = v])
  BY SMT DEF SupervisorInner, Unowned
<1>2. Unowned(Failed(i)) /\ Unowned(FailedNoPid(i))
  BY SMT DEF SupervisorInner, Unowned, Failed, FailedNoPid
<1>3. \A g : Unowned(BeginRecovery(i, g))
  BY SMT DEF SupervisorInner, Unowned, BeginRecovery, Owner
<1> QED BY <1>1, <1>2, <1>3

\* A supervisor that owns no process and starts none is consistent.
LEMMA IdleIsConsistent ==
  ASSUME Unowned(inner'), reapers' = {}, up', request' # "starting"
  PROVE  OwnersAreConsistent'
<1>1. inner'.owner # StarterOwner'
  BY SMT DEF StarterOwner, Owner, Unowned
<1> QED
  BY <1>1, Zenon
  DEF Unowned, OwnersAreConsistent, ChildIsReserved, ReaperIsSoleOwner, StopTakesAll,
      UnattachedIsAlone, ReapersAreReserved, GateGuardsChild, LostStartIsReserved,
      DeadAgentOwnsNothing

\* Steps that move no ownership.
LEMMA UnmovedIsConsistent ==
  ASSUME OwnersAreConsistent,
         inner' = inner, session' = session, reapers' = reapers, starter' = starter,
         up' = up, request' = request \/ (up /\ request' # "starting")
  PROVE  OwnersAreConsistent'
<1>1. (ChildIsReserved /\ ReaperIsSoleOwner /\ ReapersAreReserved)'
  BY Zenon
  DEF OwnersAreConsistent, ChildIsReserved, ReaperIsSoleOwner, Holds, Gen, ReapersAreReserved
<1>2. (StopTakesAll /\ UnattachedIsAlone /\ LostStartIsReserved)'
  BY Zenon DEF OwnersAreConsistent, StopTakesAll, UnattachedIsAlone, LostStartIsReserved
<1>3. GateGuardsChild'
  BY Zenon
  DEF OwnersAreConsistent, GateGuardsChild, OwnsStart, Gen, StarterOwner, StarterHoldsGate
<1>4. DeadAgentOwnsNothing'
  BY SMT DEF OwnersAreConsistent, DeadAgentOwnsNothing, GateGuardsChild, NoStarter
<1> QED BY <1>1, <1>2, <1>3, <1>4 DEF OwnersAreConsistent

\* What consistency says in the situations the actions start from.
LEMMA Situations ==
  ASSUME OwnersAreConsistent
  PROVE  /\ ~inner.stop_pending => reapers = {}
         /\ inner.child # 0 \/ inner.owner # NoOwner => ~inner.stop_pending /\ reapers = {}
         /\ inner.child # 0 \/ inner.owner # NoOwner \/ inner.stop_pending => up
         /\ inner.child = 0 \/ inner.stop_pending => ~inner.start_ownership_pending
         /\ ~inner.start_ownership_pending => request # "starting"
         /\ \A r \in reapers : reapers \ {r} = {}
<1>1. ~inner.stop_pending => reapers = {}
  BY DEF OwnersAreConsistent, ReaperIsSoleOwner, Holds
<1>2. inner.child # 0 \/ inner.owner # NoOwner => ~inner.stop_pending
  BY DEF OwnersAreConsistent, StopTakesAll
<1>3. inner.child # 0 \/ inner.owner # NoOwner \/ inner.stop_pending => up
  BY FreshFields, Values DEF OwnersAreConsistent, DeadAgentOwnsNothing
<1>4. inner.child = 0 \/ inner.stop_pending => ~inner.start_ownership_pending
  BY DEF OwnersAreConsistent, StopTakesAll, GateGuardsChild
<1>5. ~inner.start_ownership_pending => request # "starting"
  BY DEF OwnersAreConsistent, GateGuardsChild
<1>6. \A r \in reapers : reapers \ {r} = {}
  BY DEF OwnersAreConsistent, ReaperIsSoleOwner
<1> QED BY <1>1, <1>2, <1>3, <1>4, <1>5, <1>6

LEMMA BootIsUnowned ==
  ASSUME TypeOK, Boot PROVE Unowned(inner')
<1>1. \A st \in States :
        /\ FreshInner(st) \in SupervisorInner
        /\ Unowned(FreshInner(st))
  BY Constructors, FreshFields, OwnerKinds, SMT DEF Unowned
<1>2. BootState \in States /\ "token" \in AllReadiness /\ "plain" \in AllReadiness
  BY SMT DEF BootState, TypeOK, States, AllReadiness
<1>3. CASE BootTerminal
  BY <1>1, <1>2, <1>3, Zenon DEF BootTerminal
<1>4. CASE BootTokenBound \/ BootReattachFails \/ BootAbandoned
  <2>1. FreshInner("Failed") \in SupervisorInner /\ Unowned(FreshInner("Failed"))
    BY <1>1, Values, Zenon
  <2>2. \A v : Unowned([FreshInner("Failed") EXCEPT !.readiness = v])
    BY <2>1, UnownedUpdates, Zenon
  <2> QED BY <1>4, <2>1, <2>2, Zenon DEF BootTokenBound, BootReattachFails, BootAbandoned
<1>5. CASE BootReattach
  BY <1>1, <1>2, <1>5, UnownedUpdates, OwnershipFields, Values, Zenon DEF BootReattach
<1>6. CASE BootRecovering
  BY <1>1, <1>2, <1>6, UnownedUpdates, OwnershipFields, Values, Zenon DEF BootRecovering
<1>7. ASSUME NEW rd \in AllReadiness, BootUnattached(rd) PROVE Unowned(inner')
  <2>1. (IF BootState = "Failed" THEN "Failed" ELSE "Stopped") \in States
    BY Values, Zenon
  <2> QED BY <1>1, <1>7, <2>1, UnownedUpdates, Zenon DEF BootUnattached
<1> QED
  BY <1>3, <1>4, <1>5, <1>6, <1>7, ConstantsAssumption, Zenon DEF Boot, ConstantsAssumption

LEMMA BootOwners ==
  ASSUME TypeOK, OwnersAreConsistent, Boot PROVE OwnersAreConsistent'
<1>1. reapers' = {} /\ request' = "none" /\ up'
  BY Zenon DEF Boot, OwnersAreConsistent, DeadAgentOwnsNothing
<1> QED BY <1>1, BootIsUnowned, IdleIsConsistent

LEMMA DeathOwners ==
  ASSUME Crash \/ StartCrashes PROVE OwnersAreConsistent'
<1>1. AgentDies
  BY DEF Crash, StartCrashes
<1>2. /\ inner'.child = 0 /\ ~inner'.stop_pending /\ ~inner'.start_ownership_pending
      /\ inner'.owner = NoOwner /\ ~inner'.unattached_monitor_started
      /\ inner' = FreshInner("Detached")
      /\ starter' = NoStarter /\ reapers' = {} /\ request' = "none" /\ ~up'
  BY <1>1, FreshFields, Values DEF AgentDies
<1> QED
  BY <1>2, OwnerKinds, SMT
  DEF OwnersAreConsistent, ChildIsReserved, ReaperIsSoleOwner, StarterOwner, Owner, NoOwner,
      StarterHoldsGate, NoStarter, StopTakesAll, UnattachedIsAlone, ReapersAreReserved,
      GateGuardsChild, LostStartIsReserved, DeadAgentOwnsNothing

LEMMA ProcessesOwners ==
  ASSUME OwnersAreConsistent, Processes PROVE OwnersAreConsistent'
<1>1. /\ inner' = inner /\ session' = session /\ reapers' = reapers
      /\ starter' = starter /\ up' = up /\ request' = request
  BY DEF Processes, EmitToken, LeaderExits, LeaderForks, DescExits, diskVars, memVars, taskVars
<1> QED BY <1>1, UnmovedIsConsistent, Zenon

LEMMA StartOwners ==
  ASSUME TypeOK, OwnersAreConsistent, NEW rd \in ReadinessKinds,
         \/ Start(rd) \/ StartPrepareFails(rd) \/ StartContextFails(rd) \/ StartSpawnFails(rd)
  PROVE  OwnersAreConsistent'
<1>1. /\ MayStart /\ up' = up /\ reapers' = reapers
  BY DEF Start, StartPrepareFails, StartContextFails, StartSpawnFails
<1>2. up /\ reapers = {} /\ request = "none"
  BY <1>1, Situations DEF MayStart
<1>3. rd \in AllReadiness
  BY ConstantsAssumption, Zenon DEF ConstantsAssumption
<1>4. PreparedInner(rd) \in SupervisorInner /\ Unowned(PreparedInner(rd))
  <2>1. /\ FreshInner("Starting") \in SupervisorInner /\ Unowned(FreshInner("Starting"))
    BY Constructors, FreshFields, OwnerKinds, Values, SMT DEF Unowned
  <2>2. inner.epoch \in Nat
    BY FieldTypes DEF TypeOK
  <2> QED
    BY <1>3, <2>1, <2>2, UnownedUpdates, LaunchFields, OwnershipFields, Zenon
    DEF PreparedInner
<1>5. CASE StartPrepareFails(rd) \/ StartContextFails(rd) \/ StartSpawnFails(rd)
  <2>1. request' = request
    BY <1>5 DEF StartPrepareFails, StartContextFails, StartSpawnFails
  <2>2. Unowned(inner')
    BY <1>4, <1>5, UnownedUpdates, OwnershipFields, Values, Zenon
    DEF StartPrepareFails, StartContextFails, StartSpawnFails
  <2> QED BY <1>1, <1>2, <2>1, <2>2, IdleIsConsistent, SMT
<1>6. CASE Start(rd)
  <2>1. launches + 1 # 0
    BY SMT DEF TypeOK
  <2>2. /\ inner'.child = launches + 1 /\ inner'.stop_pending = FALSE
        /\ inner'.start_ownership_pending = TRUE
        /\ inner'.owner = Owner("start", Gen + 1, inner.epoch + 1)
        /\ inner'.unattached_monitor_started = FALSE /\ inner'.attached = NoAttached
    BY <1>6, SMT DEF Start, PreparedInner, FreshInner
  <2>3. /\ session'.pending = TRUE /\ session'.log = launches + 1
    BY <1>6, SMT DEF Start, Reserved
  <2>4. /\ starter'.pc = "gate" /\ inner'.owner = StarterOwner' /\ Gen' = starter'.gen
    BY <1>6, <2>2, SMT DEF Start, StarterOwner, Gen, Reserved
  <2> QED
    BY <1>1, <1>2, <2>1, <2>2, <2>3, <2>4, Zenon
    DEF OwnsStart, OwnersAreConsistent, ChildIsReserved, ReaperIsSoleOwner, StopTakesAll,
        UnattachedIsAlone, ReapersAreReserved, GateGuardsChild, LostStartIsReserved,
        DeadAgentOwnsNothing, StarterHoldsGate
<1> QED BY <1>5, <1>6

\* A child without a start owner, and a child that a finishing owner took.
LEMMA ChildIsConsistent ==
  ASSUME inner'.child # 0, session'.pending, session'.log = inner'.child,
         ~inner'.stop_pending, ~inner'.start_ownership_pending,
         ~inner'.unattached_monitor_started,
         inner'.owner # StarterOwner' \/ ~StarterHoldsGate',
         reapers' = {}, up', request' # "starting"
  PROVE  OwnersAreConsistent'
  BY Zenon
  DEF OwnersAreConsistent, ChildIsReserved, ReaperIsSoleOwner, StopTakesAll,
      UnattachedIsAlone, ReapersAreReserved, GateGuardsChild, LostStartIsReserved,
      DeadAgentOwnsNothing

LEMMA TakenIsConsistent ==
  ASSUME NEW r, reapers' = {r}, r.gen = session'.gen, r.epoch = inner'.epoch,
         session'.pending, r.launch # 0 => session'.log = r.launch,
         inner'.child = 0, inner'.stop_pending, ~inner'.start_ownership_pending,
         inner'.owner = NoOwner, ~inner'.unattached_monitor_started,
         up', request' # "starting"
  PROVE  OwnersAreConsistent'
<1>1. NoOwner # StarterOwner' /\ NoOwner.kind # "start"
  BY SMT DEF StarterOwner, Owner, NoOwner
<1>2. ReaperIsSoleOwner' /\ ReapersAreReserved'
  BY SMT DEF ReaperIsSoleOwner, ReapersAreReserved, Holds, Gen
<1> QED
  BY <1>1, <1>2, Zenon
  DEF OwnersAreConsistent, ChildIsReserved, StopTakesAll, UnattachedIsAlone,
      GateGuardsChild, LostStartIsReserved, DeadAgentOwnsNothing

\* Ownership fields that stay, while a start owner moves on.
LEMMA StarterMoves ==
  ASSUME OwnersAreConsistent,
         inner'.child = inner.child, inner'.owner = inner.owner,
         inner'.stop_pending = inner.stop_pending, inner'.epoch = inner.epoch,
         inner'.unattached_monitor_started = inner.unattached_monitor_started,
         inner'.readiness = inner.readiness,
         session' = session, reapers' = reapers, up, up',
         ~inner.start_ownership_pending => ~inner'.start_ownership_pending,
         GateGuardsChild'
  PROVE  OwnersAreConsistent'
<1>1. (ChildIsReserved /\ ReaperIsSoleOwner /\ ReapersAreReserved)'
  BY Zenon
  DEF OwnersAreConsistent, ChildIsReserved, ReaperIsSoleOwner, Holds, Gen, ReapersAreReserved
<1>2. (StopTakesAll /\ UnattachedIsAlone /\ LostStartIsReserved)'
  BY Zenon DEF OwnersAreConsistent, StopTakesAll, UnattachedIsAlone, LostStartIsReserved
<1> QED BY <1>1, <1>2 DEF OwnersAreConsistent, DeadAgentOwnsNothing

LEMMA StarterOwners ==
  ASSUME TypeOK, OwnersAreConsistent,
         \/ StartPersisted \/ StartAborted \/ AbortReturns
         \/ StarterAccept \/ StarterStale \/ MarkRunning \/ FailStart
  PROVE  OwnersAreConsistent'
<1>0. inner \in SupervisorInner /\ starter \in Starters
  BY DEF TypeOK
<1>a. starter.pc # "none" \/ request # "none" => up
  BY SMT DEF OwnersAreConsistent, DeadAgentOwnsNothing, NoStarter
<1>1. CASE StartPersisted \/ StartAborted
  <2>1. /\ inner' = inner /\ session' = session /\ reapers' = reapers /\ up' = up
        /\ request = "starting" /\ request' # "starting"
    BY <1>1, SMT DEF StartPersisted, StartAborted, diskVars, memVars
  <2>2. /\ starter'.pc \in {"go", "abort"} /\ StarterOwner' = StarterOwner
        /\ starter'.gen = starter.gen
    BY <1>0, <1>1, SMT DEF StartPersisted, StartAborted, Starters, StarterOwner
  <2>3. inner.start_ownership_pending
    BY <2>1 DEF OwnersAreConsistent, GateGuardsChild
  <2>4. OwnsStart' /\ StarterHoldsGate'
    BY <2>1, <2>2, <2>3, Zenon
    DEF OwnersAreConsistent, GateGuardsChild, OwnsStart, StarterHoldsGate, Gen, Starters
  <2>5. GateGuardsChild'
    BY <2>1, <2>3, <2>4, Zenon DEF OwnersAreConsistent, GateGuardsChild
  <2> QED BY <1>a, <2>1, <2>5, StarterMoves, Zenon
<1>2. CASE AbortReturns
  <2>1. /\ inner' = inner /\ session' = session /\ reapers' = reapers /\ up' = up
        /\ starter' = starter /\ request = "aborting" /\ request' = "none"
    BY <1>2 DEF AbortReturns, diskVars, memVars
  <2> QED BY <1>a, <2>1, UnmovedIsConsistent
<1>3. CASE StarterAccept
  <2>1. /\ session' = session /\ reapers' = reapers /\ up' = up /\ request' = request
        /\ starter.pc = "go"
    BY <1>3 DEF StarterAccept, diskVars
  <2>2. request # "starting"
    BY <2>1 DEF OwnersAreConsistent, GateGuardsChild
  <2>3. CASE OwnsStart /\ inner.start_ownership_pending /\ inner.child # 0
    <3>1. /\ inner'.child = inner.child /\ inner'.owner = inner.owner
          /\ inner'.stop_pending = inner.stop_pending /\ inner'.epoch = inner.epoch
          /\ inner'.unattached_monitor_started = inner.unattached_monitor_started
          /\ inner'.attached = inner.attached /\ inner'.readiness = inner.readiness
          /\ ~inner'.start_ownership_pending
      BY <1>0, <1>3, <2>3, SMT DEF StarterAccept, SupervisorInner
    <3>2. starter'.pc = "wait"
      BY <1>0, <1>3, <2>3, SMT DEF StarterAccept, Starters
    <3>3. GateGuardsChild'
      BY <2>1, <2>2, <3>1, <3>2, Zenon DEF GateGuardsChild, StarterHoldsGate
    <3> QED BY <1>a, <2>1, <3>1, <3>3, StarterMoves, Zenon
  <2>4. CASE ~(OwnsStart /\ inner.start_ownership_pending /\ inner.child # 0)
    <3>1. inner' = inner /\ starter' = NoStarter
      BY <1>3, <2>4, Zenon DEF StarterAccept
    <3>2. ~inner.start_ownership_pending
      BY <2>4, Zenon DEF OwnersAreConsistent, GateGuardsChild
    <3>3. GateGuardsChild'
      BY <2>1, <2>2, <3>1, <3>2, SMT DEF GateGuardsChild, StarterHoldsGate, NoStarter
    <3> QED BY <1>a, <2>1, <3>1, <3>3, StarterMoves, Zenon
  <2> QED BY <2>3, <2>4
<1>4. CASE StarterStale
  <2>1. /\ inner' = inner /\ session' = session /\ reapers' = reapers /\ up' = up
        /\ request' = request /\ starter.pc = "wait" /\ starter' = NoStarter
    BY <1>4 DEF StarterStale, diskVars, memVars
  <2>2. ~inner.start_ownership_pending /\ request # "starting"
    BY <2>1 DEF OwnersAreConsistent, GateGuardsChild, StarterHoldsGate
  <2>3. GateGuardsChild'
    BY <2>1, <2>2, SMT DEF GateGuardsChild, StarterHoldsGate, NoStarter
  <2> QED BY <1>a, <2>1, <2>3, StarterMoves, Zenon

<1>5. CASE MarkRunning
  <2>1. /\ session' = session /\ reapers' = reapers /\ up' = up /\ request' = request
        /\ starter.pc = "wait" /\ starter' = NoStarter /\ inner.owner = StarterOwner
    BY <1>5 DEF MarkRunning, diskVars, OwnsStart
  <2>2. ~inner.start_ownership_pending /\ request # "starting"
    BY <2>1 DEF OwnersAreConsistent, GateGuardsChild, StarterHoldsGate
  <2>3. up /\ reapers = {} /\ ~inner.stop_pending /\ ~inner.unattached_monitor_started
    BY <2>1, OwnerKinds, Situations DEF OwnersAreConsistent, UnattachedIsAlone
  <2>4. ~StarterHoldsGate'
    BY <2>1, SMT DEF StarterHoldsGate, NoStarter
  <2>5. CASE inner.child = 0
    <3>1. inner' = inner
      BY <1>5, <2>5 DEF MarkRunning
    <3>2. GateGuardsChild'
      BY <2>1, <2>2, <2>4, <3>1 DEF GateGuardsChild
    <3> QED BY <1>a, <2>1, <3>1, <3>2, StarterMoves, Zenon
  <2>6. CASE inner.child # 0
    <3>1. /\ inner'.child = inner.child /\ inner'.stop_pending = inner.stop_pending
          /\ inner'.start_ownership_pending = inner.start_ownership_pending
          /\ inner'.unattached_monitor_started = inner.unattached_monitor_started
      <4>1. \/ inner' = [inner EXCEPT !.owner = NoOwner, !.st = "Running",
                                       !.attached = NoAttached]
            \/ inner' = [inner EXCEPT !.owner = NoOwner, !.st = "Running",
                                       !.epoch = inner.epoch + 1,
                                       !.attached = [gen |-> Gen, epoch |-> inner.epoch + 1,
                                                     recovering |-> FALSE]]
        BY <1>5, <2>6, Zenon DEF MarkRunning
      <4>2. CASE inner' = [inner EXCEPT !.owner = NoOwner, !.st = "Running",
                                       !.attached = NoAttached]
        BY <1>0, <4>2, SMT DEF SupervisorInner
      <4>3. CASE inner' = [inner EXCEPT !.owner = NoOwner, !.st = "Running",
                                       !.epoch = inner.epoch + 1,
                                       !.attached = [gen |-> Gen, epoch |-> inner.epoch + 1,
                                                     recovering |-> FALSE]]
        BY <1>0, <4>3, SMT DEF SupervisorInner
      <4> QED BY <4>1, <4>2, <4>3
    <3> QED
      BY <2>1, <2>2, <2>3, <2>4, <2>6, <3>1, ChildIsConsistent
      DEF OwnersAreConsistent, ChildIsReserved
  <2> QED BY <2>5, <2>6
<1>6. CASE FailStart
  <2>1. /\ session' = session /\ up' = up /\ request' = request
        /\ starter.pc \in {"abort", "wait"} /\ starter' = NoStarter
    BY <1>6 DEF FailStart, diskVars
  <2>2. up /\ request # "starting" /\ ~StarterHoldsGate'
    BY <1>a, <2>1, SMT
    DEF OwnersAreConsistent, GateGuardsChild, StarterHoldsGate, NoStarter
  <2>3. CASE ~OwnsStart
    <3>1. inner' = inner /\ reapers' = reapers
      BY <1>6, <2>3 DEF FailStart
    <3>2. ~inner.start_ownership_pending
      BY <2>3 DEF OwnersAreConsistent, GateGuardsChild
    <3>3. GateGuardsChild'
      BY <2>1, <2>2, <3>1, <3>2 DEF GateGuardsChild
    <3> QED BY <2>1, <2>2, <3>1, <3>3, StarterMoves, Zenon
  <2>4. CASE OwnsStart
    <3> DEFINE r == [kind |-> "fail", launch |-> inner.child, gen |-> Gen,
                     epoch |-> inner.epoch + 1, readiness |-> inner.readiness,
                     attached |-> NoAttached]
    <3>1. /\ inner.owner = StarterOwner /\ inner.owner # NoOwner
          /\ inner.owner.kind = "start"
      BY <2>4, OwnerKinds DEF OwnsStart
    <3>2. reapers = {} /\ ~inner.unattached_monitor_started
      BY <3>1, Situations DEF OwnersAreConsistent, UnattachedIsAlone
    <3>3. reapers' = {r}
      BY <1>6, <2>4, <3>2, Zenon DEF FailStart
    <3>4. r.gen = session'.gen /\ r.launch = inner.child /\ r.epoch = inner.epoch + 1
      BY <2>1, SMT DEF Gen
    <3>5. /\ inner'.child = 0 /\ inner'.epoch = inner.epoch + 1 /\ inner'.stop_pending
          /\ ~inner'.start_ownership_pending /\ inner'.owner = NoOwner
          /\ inner'.unattached_monitor_started = inner.unattached_monitor_started
      <4>1. inner' = [inner EXCEPT !.child = 0, !.epoch = inner.epoch + 1,
                         !.stop_pending = TRUE, !.start_ownership_pending = FALSE,
                         !.recovery = 0, !.owner = NoOwner, !.attached = NoAttached,
                         !.readiness = "off"]
        BY <1>6, <2>4, Zenon DEF FailStart
      <4> QED BY <1>0, <4>1, SMT DEF SupervisorInner
    <3>6. session.pending
      <4>1. CASE inner.child # 0
        BY <4>1 DEF OwnersAreConsistent, ChildIsReserved
      <4>2. CASE inner.child = 0
        <5>1. ~inner.start_ownership_pending
          BY <4>2, Situations
        <5>2. starter.pc # "abort"
          BY <3>1, <5>1 DEF OwnersAreConsistent, GateGuardsChild, StarterHoldsGate
        <5>3. inner.readiness # "off"
          BY <1>6, <5>2 DEF FailStart
        <5> QED BY <3>1, <4>2, <5>3 DEF OwnersAreConsistent, LostStartIsReserved
      <4> QED BY <4>1, <4>2
    <3>7. r.launch # 0 => session'.log = r.launch
      BY <2>1, <3>4 DEF OwnersAreConsistent, ChildIsReserved
    <3> HIDE DEF r
    <3> QED
      BY <2>1, <2>2, <3>2, <3>3, <3>4, <3>5, <3>6, <3>7, TakenIsConsistent, Zenon
  <2> QED BY <2>3, <2>4
<1> QED BY <1>1, <1>2, <1>3, <1>4, <1>5, <1>6

LEMMA GateStaysOpen ==
  ASSUME OwnersAreConsistent, ~inner.start_ownership_pending,
         ~inner'.start_ownership_pending, inner'.owner = inner.owner,
         starter' = starter, request' = request
  PROVE  GateGuardsChild'
  BY Zenon DEF OwnersAreConsistent, GateGuardsChild, StarterHoldsGate, StarterOwner

LEMMA StopOwners ==
  ASSUME TypeOK, OwnersAreConsistent, StopRequest \/ StopDescendants \/ StopCancelled
  PROVE  OwnersAreConsistent'
<1>0. inner \in SupervisorInner
  BY DEF TypeOK
<1>1. CASE StopRequest
  <2> DEFINE r == [kind |-> "stop", launch |-> inner.child, gen |-> Gen,
                   epoch |-> inner.epoch + 1, readiness |-> inner.readiness,
                   attached |-> inner.attached]
  <2>1. /\ session' = session /\ up' = up /\ up /\ inner.child # 0 /\ request' = "stopping"
    BY <1>1 DEF StopRequest, diskVars
  <2>2. reapers = {} /\ ~inner.unattached_monitor_started
    BY <2>1, Situations DEF OwnersAreConsistent, UnattachedIsAlone
  <2>3. reapers' = {r}
    BY <1>1, <2>2, Zenon DEF StopRequest
  <2>4. r.gen = session'.gen /\ r.launch = inner.child /\ r.epoch = inner.epoch + 1
    BY <2>1, SMT DEF Gen
  <2>5. /\ inner'.child = 0 /\ inner'.epoch = inner.epoch + 1 /\ inner'.stop_pending
        /\ ~inner'.start_ownership_pending /\ inner'.owner = NoOwner
        /\ inner'.unattached_monitor_started = inner.unattached_monitor_started
    BY <1>0, <1>1, SMT DEF StopRequest, SupervisorInner
  <2>6. session'.pending /\ session'.log = r.launch
    BY <2>1, <2>4 DEF OwnersAreConsistent, ChildIsReserved
  <2>7. request' # "starting"
    BY <2>1
  <2> HIDE DEF r
  <2> QED BY <2>1, <2>2, <2>3, <2>4, <2>5, <2>6, <2>7, TakenIsConsistent, Zenon
<1>2. CASE StopDescendants
  <2>1. /\ up /\ up' = up /\ request' = request /\ request = "none" /\ reapers' = reapers
        /\ inner.child = 0 /\ ~inner.stop_pending
    BY <1>2 DEF StopDescendants
  <2>2. /\ inner'.child = inner.child /\ inner'.stop_pending = inner.stop_pending
        /\ inner'.start_ownership_pending = FALSE /\ inner'.owner = NoOwner
    BY <1>0, <1>2, SMT DEF StopDescendants, SupervisorInner
  <2>3. Unowned(inner')
    BY <1>0, <2>1, <2>2, OwnerKinds, FieldTypes DEF Unowned
  <2> QED BY <2>1, <2>3, Situations, IdleIsConsistent
<1>3. CASE StopCancelled
  <2>1. /\ inner' = inner /\ session' = session /\ reapers' = reapers /\ starter' = starter
        /\ up' = up /\ request = "stopping" /\ request' = "none"
    BY <1>3 DEF StopCancelled, diskVars, memVars
  <2>2. up
    BY <2>1 DEF OwnersAreConsistent, DeadAgentOwnsNothing
  <2> QED BY <2>1, <2>2, UnmovedIsConsistent, Zenon
<1> QED BY <1>1, <1>2, <1>3

LEMMA ReaperOwners ==
  ASSUME TypeOK, OwnersAreConsistent, NEW r \in reapers, Holds(r),
         \/ FailSawExit(r) \/ ReaperFinishes(r, "Failed") \/ ReaperFinishes(r, "Stopped")
         \/ ReaperDrainFails(r) \/ RestoreStopChild(r)
  PROVE  OwnersAreConsistent'
<1>0. inner \in SupervisorInner
  BY DEF TypeOK
<1>1. /\ reapers \ {r} = {} /\ inner.stop_pending /\ inner.child = 0 /\ inner.owner = NoOwner
      /\ inner.start_ownership_pending = FALSE /\ ~inner.unattached_monitor_started
      /\ up /\ request # "starting" /\ session.pending
      /\ (r.launch # 0 => session.log = r.launch) /\ r.gen = Gen
  BY <1>0, FieldTypes, Situations
  DEF Holds, OwnersAreConsistent, StopTakesAll, ReapersAreReserved
<1>2. reapers' = {} /\ up'
  BY <1>1 DEF FailSawExit, ReaperFinishes, ReaperDrainFails, RestoreStopChild
<1>3. request' # "starting"
  BY <1>1, Zenon DEF FailSawExit, ReaperFinishes, ReaperDrainFails, RestoreStopChild
<1>4. CASE FailSawExit(r)
  <2> DEFINE i == [inner EXCEPT !.stop_pending = FALSE, !.readiness = r.readiness]
  <2>1. r.readiness \in AllReadiness
    BY SMT DEF TypeOK, Reapers
  <2>2. i \in SupervisorInner
    BY <1>0, <2>1, OwnershipFields, Values, Zenon
  <2>3. i.child = inner.child /\ i.stop_pending = FALSE /\ i.owner = inner.owner
        /\ i.start_ownership_pending = inner.start_ownership_pending
    BY <1>0, SMT DEF SupervisorInner
  <2> HIDE DEF i
  <2>4. Unowned(i)
    BY <1>1, <2>3, OwnerKinds DEF Unowned
  <2>5. Unowned(BeginRecovery(i, Gen))
    BY <2>2, <2>4, UnownedUpdates, Zenon
  <2>6. inner' = BeginRecovery(i, Gen)
    BY <1>4 DEF FailSawExit, i
  <2> QED BY <1>2, <1>3, <2>5, <2>6, IdleIsConsistent
<1>5. ASSUME NEW st \in {"Failed", "Stopped"}, ReaperFinishes(r, st)
      PROVE  OwnersAreConsistent'
  <2>1. /\ inner'.child = inner.child /\ inner'.stop_pending = FALSE
        /\ inner'.start_ownership_pending = FALSE /\ inner'.owner = inner.owner
    BY <1>0, <1>5, SMT DEF ReaperFinishes, Released, SupervisorInner
  <2>2. Unowned(inner')
    BY <1>1, <2>1, OwnerKinds DEF Unowned
  <2> QED BY <1>2, <1>3, <2>2, IdleIsConsistent
<1>6. CASE ReaperDrainFails(r)
  <2>1. CASE inner' = [inner EXCEPT !.stop_pending = FALSE, !.job = 0]
    <3>1. /\ inner'.child = inner.child /\ inner'.stop_pending = FALSE
          /\ inner'.start_ownership_pending = inner.start_ownership_pending
          /\ inner'.owner = inner.owner
      BY <1>0, <2>1, SMT DEF SupervisorInner
    <3>2. Unowned(inner')
      BY <1>1, <3>1, OwnerKinds DEF Unowned
    <3> QED BY <1>2, <1>3, <3>2, IdleIsConsistent
  <2>2. CASE inner' = [inner EXCEPT !.job = 0]
    <3>1. /\ inner'.child = inner.child
          /\ inner'.start_ownership_pending = inner.start_ownership_pending
          /\ inner'.owner = inner.owner
          /\ inner'.unattached_monitor_started = inner.unattached_monitor_started
      BY <1>0, <2>2, SMT DEF SupervisorInner
    <3>2. NoOwner # StarterOwner' /\ NoOwner.kind # "start"
      BY SMT DEF NoOwner, StarterOwner, Owner
    <3> QED
      BY <1>1, <1>2, <1>3, <3>1, <3>2, Zenon
      DEF OwnersAreConsistent, ChildIsReserved, ReaperIsSoleOwner, StopTakesAll,
          UnattachedIsAlone, ReapersAreReserved, GateGuardsChild, LostStartIsReserved,
          DeadAgentOwnsNothing
  <2> QED BY <1>6, <2>1, <2>2, Zenon DEF ReaperDrainFails
<1>7. CASE RestoreStopChild(r)
  <2> DEFINE e == inner.epoch + 1
             back == [inner EXCEPT !.child = r.launch, !.stop_pending = FALSE,
                                   !.readiness = r.readiness]
             again == [gen |-> r.gen, epoch |-> e, recovering |-> r.attached.recovering]
  <2>1. session' = session /\ r.launch # 0
    BY <1>7 DEF RestoreStopChild, diskVars
  <2>2. \/ inner' = [back EXCEPT !.epoch = e, !.attached = again]
        \/ inner' = [back EXCEPT !.attached = NoAttached]
        \/ /\ inner' = [back EXCEPT !.epoch = e, !.attached = NoAttached,
                                    !.start_ownership_pending = TRUE,
                                    !.owner = Owner("start", r.gen, e)]
           /\ starter' = [pc |-> "go", gen |-> r.gen, epoch |-> e]
    BY <1>7, Zenon DEF RestoreStopChild
  <2>3. CASE \/ inner' = [back EXCEPT !.epoch = e, !.attached = again]
             \/ inner' = [back EXCEPT !.attached = NoAttached]
    <3>1. /\ inner'.child = r.launch /\ ~inner'.stop_pending
          /\ inner'.start_ownership_pending = inner.start_ownership_pending
          /\ inner'.unattached_monitor_started = inner.unattached_monitor_started
          /\ inner'.owner = inner.owner
      <4>1. CASE inner' = [back EXCEPT !.epoch = e, !.attached = again]
        BY <1>0, <4>1, SMT DEF SupervisorInner
      <4>2. CASE inner' = [back EXCEPT !.attached = NoAttached]
        BY <1>0, <4>2, SMT DEF SupervisorInner
      <4> QED BY <2>3, <4>1, <4>2
    <3>2. inner'.owner # StarterOwner'
      BY <1>1, <3>1, SMT DEF NoOwner, StarterOwner, Owner
    <3> QED BY <1>1, <1>2, <1>3, <2>1, <3>1, <3>2, ChildIsConsistent
  <2>4. CASE /\ inner' = [back EXCEPT !.epoch = e, !.attached = NoAttached,
                                      !.start_ownership_pending = TRUE,
                                      !.owner = Owner("start", r.gen, e)]
             /\ starter' = [pc |-> "go", gen |-> r.gen, epoch |-> e]
    <3>1. /\ inner'.child = r.launch /\ ~inner'.stop_pending
          /\ inner'.start_ownership_pending /\ inner'.attached = NoAttached
          /\ inner'.unattached_monitor_started = inner.unattached_monitor_started
          /\ inner'.owner = Owner("start", r.gen, e)
      BY <1>0, <2>4, SMT DEF SupervisorInner
    <3>2. StarterHoldsGate' /\ inner'.owner = StarterOwner' /\ Gen' = starter'.gen
      BY <1>1, <2>1, <2>4, <3>1, SMT DEF StarterHoldsGate, StarterOwner, Gen
    <3> QED
      BY <1>1, <1>2, <1>3, <2>1, <3>1, <3>2, Zenon
      DEF OwnersAreConsistent, ChildIsReserved, ReaperIsSoleOwner, StopTakesAll,
          UnattachedIsAlone, ReapersAreReserved, GateGuardsChild, LostStartIsReserved,
          DeadAgentOwnsNothing, OwnsStart
  <2> QED BY <2>2, <2>3, <2>4
<1> QED BY <1>4, <1>5, <1>6, <1>7

LEMMA ObservingOwners ==
  ASSUME TypeOK, OwnersAreConsistent, Observing PROVE OwnersAreConsistent'
<1>0. inner \in SupervisorInner
  BY DEF TypeOK
<1>1. CASE ObserveExit
  <2> DEFINE gone == [inner EXCEPT !.child = 0, !.attached = NoAttached]
             kept == [inner EXCEPT !.child = 0, !.attached = NoAttached, !.recovery = 0,
                                   !.unattached_monitor_started = FALSE]
  <2>1. /\ up /\ up' = up /\ reapers' = reapers /\ starter' = starter /\ request' = request
        /\ inner.child # 0 /\ ~inner.start_ownership_pending
    BY <1>1 DEF ObserveExit
  <2>2. /\ reapers = {} /\ ~inner.stop_pending /\ ~inner.unattached_monitor_started
        /\ request # "starting" /\ session.pending
    BY <2>1, Situations DEF OwnersAreConsistent, UnattachedIsAlone, ChildIsReserved
  <2>3. gone \in SupervisorInner /\ kept \in SupervisorInner
    BY <1>0, LaunchFields, OwnershipFields, Constructors, Values, Zenon
  <2>4. ASSUME NEW i \in {gone, kept}
        PROVE  /\ i.child = 0 /\ i.stop_pending = inner.stop_pending
               /\ i.start_ownership_pending = inner.start_ownership_pending
               /\ i.owner = inner.owner /\ i.readiness = inner.readiness
               /\ ~i.unattached_monitor_started
    <3>1. /\ gone.child = 0 /\ gone.stop_pending = inner.stop_pending
          /\ gone.start_ownership_pending = inner.start_ownership_pending
          /\ gone.owner = inner.owner /\ gone.readiness = inner.readiness
          /\ gone.unattached_monitor_started = inner.unattached_monitor_started
      BY <1>0, SMT DEF SupervisorInner
    <3>2. /\ kept.child = 0 /\ kept.stop_pending = inner.stop_pending
          /\ kept.start_ownership_pending = inner.start_ownership_pending
          /\ kept.owner = inner.owner /\ kept.readiness = inner.readiness
          /\ kept.unattached_monitor_started = FALSE
      BY <1>0, SMT DEF SupervisorInner
    <3> HIDE DEF gone, kept
    <3> QED BY <2>2, <2>4, <3>1, <3>2
  <2>5. \/ inner' = BeginRecovery(gone, Gen + 1)
        \/ /\ inner' = FailedNoPid(kept) /\ session' = session
        \/ /\ inner' \in {Failed(gone), FailedNoPid(gone)} /\ inner.readiness = "off"
    BY <1>1, Zenon DEF ObserveExit, ExitedWithReadiness, ExitedWithoutReadiness
  <2> HIDE DEF gone, kept
  <2>6. CASE inner' = BeginRecovery(gone, Gen + 1)
    <3>1. /\ inner'.child = 0 /\ inner'.stop_pending = gone.stop_pending
          /\ inner'.start_ownership_pending = gone.start_ownership_pending
          /\ inner'.owner.kind = "recovery"
      BY <2>3, <2>4, <2>6, SMT DEF SupervisorInner, BeginRecovery, Owner
    <3>2. Unowned(inner')
      BY <1>0, <2>1, <2>2, <2>4, <3>1, FieldTypes DEF Unowned
    <3> QED BY <2>1, <2>2, <3>2, IdleIsConsistent
  <2>7. CASE \/ inner' = FailedNoPid(kept) /\ session' = session
             \/ inner' \in {Failed(gone), FailedNoPid(gone)} /\ inner.readiness = "off"
    <3>1. /\ inner'.child = 0 /\ ~inner'.stop_pending /\ ~inner'.start_ownership_pending
          /\ inner'.owner = inner.owner /\ ~inner'.unattached_monitor_started
          /\ inner'.readiness = inner.readiness
      <4>1. ASSUME NEW i \in SupervisorInner, NEW j,
                   j = Failed(i) \/ j = FailedNoPid(i)
            PROVE  /\ j.child = i.child /\ j.stop_pending = i.stop_pending
                   /\ j.start_ownership_pending = i.start_ownership_pending
                   /\ j.owner = i.owner /\ j.readiness = i.readiness
                   /\ j.unattached_monitor_started = i.unattached_monitor_started
        <5>1. CASE j = Failed(i)
          BY <5>1, SMT DEF SupervisorInner, Failed
        <5>2. CASE j = FailedNoPid(i)
          BY <5>2, SMT DEF SupervisorInner, FailedNoPid
        <5> QED BY <4>1, <5>1, <5>2
      <4>2. PICK i \in {gone, kept} : inner' \in {Failed(i), FailedNoPid(i)}
        BY <2>7
      <4> QED BY <2>1, <2>2, <2>3, <2>4, <4>1, <4>2
    <3>2. inner'.readiness = "off" \/ session'.pending
      BY <2>2, <2>7, <3>1
    <3>3. GateGuardsChild'
      BY <2>1, <3>1, GateStaysOpen
    <3> QED
      BY <2>1, <2>2, <3>1, <3>2, <3>3, Zenon
      DEF OwnersAreConsistent, ChildIsReserved, ReaperIsSoleOwner, StopTakesAll,
          UnattachedIsAlone, ReapersAreReserved, LostStartIsReserved, DeadAgentOwnsNothing
  <2> QED BY <2>5, <2>6, <2>7
<1>2. CASE ObserveError
  <2>1. /\ up /\ up' = up /\ reapers' = reapers /\ starter' = starter /\ request' = request
        /\ session' = session /\ ~inner.start_ownership_pending
    BY <1>2 DEF ObserveError, diskVars
  <2>2. /\ inner'.child = inner.child /\ inner'.owner = inner.owner
        /\ inner'.stop_pending = inner.stop_pending /\ inner'.epoch = inner.epoch
        /\ inner'.unattached_monitor_started = inner.unattached_monitor_started
        /\ inner'.readiness = inner.readiness
        /\ inner'.start_ownership_pending = inner.start_ownership_pending
    BY <1>0, <1>2, SMT DEF ObserveError, Failed, SupervisorInner
  <2>3. GateGuardsChild'
    BY <2>1, <2>2, GateStaysOpen
  <2> QED BY <2>1, <2>2, <2>3, StarterMoves, Zenon
<1>3. CASE MonitorEnds \/ Persist
  <2>1. /\ inner' = inner /\ session' = session /\ reapers' = reapers /\ starter' = starter
        /\ up' = up /\ request' = request
    BY <1>3 DEF MonitorEnds, Persist, diskVars, memVars
  <2> QED BY <2>1, UnmovedIsConsistent, Zenon
<1> QED BY <1>1, <1>2, <1>3 DEF Observing

LEMMA RecoveringOwners ==
  ASSUME TypeOK, OwnersAreConsistent, Recovering PROVE OwnersAreConsistent'
<1>0. inner \in SupervisorInner
  BY DEF TypeOK
<1>1. CASE RecoverySucceeds \/ RecoveryExpires
  <2>1. /\ reapers' = reapers /\ up' = up /\ request' = request
        /\ inner.owner.kind = "recovery" /\ inner.child = 0
    <3>1. RecoveryIsCurrent
      BY <1>1, Zenon DEF RecoverySucceeds, RecoveryExpires
    <3>2. inner.owner.kind = "recovery" /\ inner.child = 0
      BY <3>1, SMT DEF RecoveryIsCurrent, Owner
    <3> QED BY <1>1, <3>2, Zenon DEF RecoverySucceeds, RecoveryExpires
  <2>2. /\ reapers = {} /\ up /\ request # "starting"
        /\ ~inner.stop_pending /\ ~inner.start_ownership_pending
    BY <2>1, OwnerKinds, Situations
  <2>3. Unowned(inner)
    BY <1>0, <2>1, <2>2, FieldTypes DEF Unowned
  <2>4. Unowned(inner')
    <3>1. CASE RecoverySucceeds
      <4>1. /\ inner'.child = inner.child /\ inner'.stop_pending = inner.stop_pending
            /\ inner'.start_ownership_pending = inner.start_ownership_pending
            /\ inner'.owner = NoOwner
        BY <1>0, <3>1, SMT DEF RecoverySucceeds, SupervisorInner
      <4> QED BY <2>3, <4>1, OwnerKinds DEF Unowned
    <3>2. CASE RecoveryExpires
      <4>1. /\ inner'.child = inner.child /\ inner'.stop_pending = inner.stop_pending
            /\ inner'.start_ownership_pending = inner.start_ownership_pending
            /\ inner'.owner = NoOwner
        BY <1>0, <3>2, SMT DEF RecoveryExpires, FailedNoPid, SupervisorInner
      <4> QED BY <2>3, <4>1, OwnerKinds DEF Unowned
    <3> QED BY <1>1, <3>1, <3>2
  <2> QED BY <2>1, <2>2, <2>4, IdleIsConsistent
<1>2. CASE RecoveryStale
  <2>1. /\ inner' = inner /\ session' = session /\ reapers' = reapers /\ starter' = starter
        /\ up' = up /\ request' = request
    BY <1>2 DEF RecoveryStale, diskVars, memVars
  <2> QED BY <2>1, UnmovedIsConsistent, Zenon
<1> QED BY <1>1, <1>2 DEF Recovering

LEMMA AttachedOwners ==
  ASSUME TypeOK, OwnersAreConsistent, Attached PROVE OwnersAreConsistent'
<1>0. inner \in SupervisorInner
  BY DEF TypeOK
<1>1. CASE AttachedGap \/ AttachedBack \/ AttachedExpires
  <2>1. /\ AttachedIsCurrent /\ reapers' = reapers /\ up' = up /\ request' = request
        /\ starter' = starter
    BY <1>1 DEF AttachedGap, AttachedBack, AttachedExpires
  <2>2. /\ inner.child # 0 /\ inner.attached # NoAttached
    BY <2>1, SMT DEF AttachedIsCurrent, NoAttached
  <2>3. /\ up /\ reapers = {} /\ ~inner.stop_pending /\ ~inner.start_ownership_pending
        /\ request # "starting" /\ ~inner.unattached_monitor_started
        /\ session.pending /\ session.log = inner.child
    BY <2>2, Situations
    DEF OwnersAreConsistent, GateGuardsChild, UnattachedIsAlone, ChildIsReserved
  <2> DEFINE again == [gen |-> Gen + 1, epoch |-> inner.epoch + 1, recovering |-> TRUE]
             back == [inner EXCEPT !.st = "Running", !.attached.recovering = FALSE]
             over == [inner EXCEPT !.attached = NoAttached]
             moved == [inner EXCEPT !.st = "Starting", !.recovery = 0, !.owner = NoOwner,
                                    !.unattached_monitor_started = FALSE,
                                    !.epoch = inner.epoch + 1, !.attached = again]
  <2>4. \/ Rotate /\ inner' = moved
        \/ session' = session /\ inner' \in {back, Failed(over)}
    BY <1>1, Zenon DEF AttachedGap, AttachedBack, AttachedExpires, diskVars
  <2>5. CASE Rotate /\ inner' = moved
    <3>1. /\ inner'.child = inner.child /\ inner'.stop_pending = inner.stop_pending
          /\ inner'.start_ownership_pending = inner.start_ownership_pending
          /\ inner'.unattached_monitor_started = FALSE /\ inner'.owner = NoOwner
      BY <1>0, <2>5, SMT DEF SupervisorInner
    <3>2. session'.pending = TRUE /\ session'.log = session.log
      BY <2>5, SMT DEF Rotate, TypeOK, Sessions
    <3>3. inner'.owner # StarterOwner'
      BY <3>1, SMT DEF NoOwner, StarterOwner, Owner
    <3> QED BY <2>1, <2>2, <2>3, <3>1, <3>2, <3>3, ChildIsConsistent
  <2>6. CASE session' = session /\ inner' \in {back, Failed(over)}
    <3>1. /\ inner'.child = inner.child /\ inner'.owner = inner.owner
          /\ inner'.stop_pending = inner.stop_pending /\ inner'.epoch = inner.epoch
          /\ inner'.unattached_monitor_started = inner.unattached_monitor_started
          /\ inner'.readiness = inner.readiness
          /\ inner'.start_ownership_pending = inner.start_ownership_pending
      <4>1. CASE inner' = back
        BY <1>0, <4>1, SMT DEF SupervisorInner
      <4>2. CASE inner' = Failed(over)
        BY <1>0, <4>2, SMT DEF SupervisorInner, Failed
      <4> QED BY <2>6, <4>1, <4>2
    <3>2. GateGuardsChild'
      BY <2>1, <2>3, <3>1, GateStaysOpen
    <3> QED BY <2>1, <2>3, <2>6, <3>1, <3>2, StarterMoves, Zenon
  <2> QED BY <2>4, <2>5, <2>6
<1>2. CASE AttachedStale
  <2>1. /\ inner' = inner /\ session' = session /\ reapers' = reapers /\ starter' = starter
        /\ up' = up /\ request' = request
    BY <1>2 DEF AttachedStale, diskVars, memVars
  <2> QED BY <2>1, UnmovedIsConsistent, Zenon
<1> QED BY <1>1, <1>2 DEF Attached

LEMMA UnattachedOwners ==
  ASSUME TypeOK, OwnersAreConsistent, Unattached PROVE OwnersAreConsistent'
<1>0. inner \in SupervisorInner
  BY DEF TypeOK
<1>1. CASE UnattachedGap
  <2> DEFINE unclaimed == [inner EXCEPT !.unattached_monitor_started = FALSE]
  <2>1. /\ reapers' = reapers /\ up' = up /\ request' = request
        /\ inner.child = 0 /\ inner.unattached_monitor_started
    BY <1>1 DEF UnattachedGap, UnattachedIsCurrent
  <2>2. /\ ~inner.stop_pending /\ inner.owner.kind # "start" /\ up
    BY <2>1, FreshFields, Values
    DEF OwnersAreConsistent, StopTakesAll, UnattachedIsAlone, DeadAgentOwnsNothing
  <2>3. /\ reapers = {} /\ ~inner.start_ownership_pending /\ request # "starting"
    BY <2>1, <2>2, Situations
  <2>4. Unowned(inner)
    BY <1>0, <2>1, <2>2, <2>3, FieldTypes DEF Unowned
  <2>5. unclaimed \in SupervisorInner /\ Unowned(unclaimed)
    BY <1>0, <2>4, OwnershipFields, UnownedUpdates, Values, Zenon
  <2>6. inner' \in {BeginRecovery(unclaimed, Gen + 1), Failed(unclaimed)}
    BY <1>1, Zenon DEF UnattachedGap
  <2> HIDE DEF unclaimed
  <2>7. Unowned(inner')
    BY <2>5, <2>6, UnownedUpdates, Zenon
  <2> QED BY <2>1, <2>2, <2>3, <2>7, IdleIsConsistent
<1>2. CASE UnattachedStale
  <2>1. /\ inner' = inner /\ session' = session /\ reapers' = reapers /\ starter' = starter
        /\ up' = up /\ request' = request
    BY <1>2 DEF UnattachedStale, diskVars, memVars
  <2> QED BY <2>1, UnmovedIsConsistent, Zenon
<1> QED BY <1>1, <1>2 DEF Unattached

\* The inductive invariant: tokens, tasks and the durable marker agree on who owns
\* the child, whatever fails and whenever the Agent dies.
THEOREM OwnersConsistent == Spec => []OwnersAreConsistent
<1>1. Init => OwnersAreConsistent
  <2> SUFFICES ASSUME Init PROVE OwnersAreConsistent
    OBVIOUS
  <2>1. /\ inner = FreshInner("Detached") /\ reapers = {} /\ ~up /\ starter = NoStarter
        /\ request = "none"
    BY DEF Init
  <2>2. /\ inner.child = 0 /\ inner.owner = NoOwner /\ ~inner.stop_pending
        /\ ~inner.start_ownership_pending /\ ~inner.unattached_monitor_started
    BY <2>1, FreshFields, Values
  <2>3. ~StarterHoldsGate /\ NoOwner.kind # "start"
    BY <2>1, SMT DEF StarterHoldsGate, NoStarter, NoOwner
  <2> QED
    BY <2>1, <2>2, <2>3
    DEF OwnersAreConsistent, ChildIsReserved, ReaperIsSoleOwner, StopTakesAll,
        UnattachedIsAlone, ReapersAreReserved, GateGuardsChild, LostStartIsReserved,
        DeadAgentOwnsNothing
<1>2. TypeOK /\ OwnersAreConsistent /\ [Next]_vars => OwnersAreConsistent'
  <2> SUFFICES ASSUME TypeOK, OwnersAreConsistent, [Next]_vars PROVE OwnersAreConsistent'
    OBVIOUS
  <2>1. CASE UNCHANGED vars
    <3>1. /\ inner' = inner /\ session' = session /\ reapers' = reapers
          /\ starter' = starter /\ up' = up /\ request' = request
      BY <2>1 DEF vars, diskVars, memVars, taskVars
    <3> QED BY <3>1, UnmovedIsConsistent, Zenon
  <2>2. CASE Starting
    BY <2>2, StartOwners, StarterOwners DEF Starting
  <2>3. CASE Stopping
    BY <2>3, StopOwners, ReaperOwners
    DEF Stopping, FinishStop, FinishFail, ReaperFaults, FailReapers, StopReapers
  <2> QED
    BY <2>1, <2>2, <2>3, BootOwners, DeathOwners, ProcessesOwners, ObservingOwners,
       RecoveringOwners, AttachedOwners, UnattachedOwners DEF Next
<1> QED BY <1>1, <1>2, TypeCorrect, PTL DEF Spec

\* start_with_profile_inner and every later section: a child in memory is always
\* named by the durable marker.
THEOREM ChildReserved == Spec => []ChildIsReserved
  BY OwnersConsistent, PTL DEF OwnersAreConsistent

\* stop_inner, fail_start and their finishing owners: a taken child has one owner
\* and nothing gets in between.
THEOREM SoleReaper == Spec => []ReaperIsSoleOwner
  BY OwnersConsistent, PTL DEF OwnersAreConsistent

-------------------------------------------------------------------------------
(* The processes: no two Harness launches are ever alive together, on       *)
(* Windows whatever happens and elsewhere as long as the Agent itself is    *)
(* not killed.                                                              *)

\* Where the Job does not end the processes, the Agent has to outlive them.
AgentEndsWithItsProcesses == Windows \/ "crash" \notin Mishaps

\* Nothing is alive and nothing is held.
LEMMA NoProcessIsHeld ==
  ASSUME \A l \in Launches : ~Alive(l)', inner'.job = 0, inner'.child = 0, reapers' = {}
  PROVE  ProcessesAreHeld'
<1>1. \A l \in Launches : ~Held(l)'
  BY SMT DEF Held, Launches
<1> QED BY <1>1, Zenon DEF ProcessesAreHeld, Alive

\* Only descendants are left, and the Job holds them.
LEMMA JobHoldsDescendants ==
  ASSUME ProcessesAreHeld, inner'.job = inner.job, inner'.child = 0, reapers' = {},
         session'.log = session.log, up',
         \A l \in Launches : leader'[l] # "live" /\ (desc'[l] => inner.job = l)
  PROVE  ProcessesAreHeld'
<1>1. \A l \in Launches : ~Held(l)'
  BY SMT DEF Held, Launches
<1>2. \A l \in Launches : Alive(l)' => inner'.job = l /\ session'.log = l
  BY SMT DEF Alive, ProcessesAreHeld, Launches
<1> QED BY <1>1, <1>2, Zenon DEF ProcessesAreHeld, Alive

\* The holders stay; processes may only end.
LEMMA HoldersStay ==
  ASSUME ProcessesAreHeld, inner'.job = inner.job, session'.log = session.log,
         \A l \in Launches :
            /\ Held(l)' <=> Held(l)
            /\ leader'[l] = "live" => leader[l] = "live"
            /\ Alive(l)' => Alive(l),
         Wedged => Wedged', up'
  PROVE  ProcessesAreHeld'
  BY Zenon DEF ProcessesAreHeld

\* The steps that leave the child, its finishing owner and the Job alone.
QuietInner ==
    /\ inner'.job = inner.job /\ inner'.child = inner.child
    /\ (inner.child # 0 \/ inner.owner # NoOwner \/ inner.unattached_monitor_started)
       \/ (/\ inner'.owner = inner.owner
           /\ inner'.unattached_monitor_started = inner.unattached_monitor_started
           /\ session' = session)

LEMMA QuietSteps ==
  ASSUME ProcessesAreHeld, QuietInner, session'.log = session.log, reapers' = reapers,
         leader' = leader, desc' = desc, up'
  PROVE  ProcessesAreHeld'
<1>1. \A l \in Launches :
        /\ Held(l)' <=> Held(l)
        /\ leader'[l] = "live" => leader[l] = "live"
        /\ Alive(l)' => Alive(l)
  BY Zenon DEF Held, Alive, QuietInner
<1>2. Wedged => Wedged'
  BY Zenon DEF Wedged, QuietInner
<1> QED BY <1>1, <1>2, HoldersStay DEF QuietInner

LEMMA LogStays ==
  ASSUME session \in Sessions, Rotate \/ ClearPending \/ session' = session
  PROVE  session'.log = session.log
<1>1. CASE Rotate
  BY <1>1, SMT DEF Rotate, Sessions
<1>2. CASE ClearPending
  BY <1>2, SMT DEF ClearPending, Sessions
<1> QED BY <1>1, <1>2

LEMMA IdleSteps ==
  ASSUME ProcessesAreHeld, inner' = inner, session' = session, reapers' = reapers,
         leader' = leader, desc' = desc, up' = up
  PROVE  ProcessesAreHeld'
<1>1. \A l \in Launches : /\ Held(l)' <=> Held(l)
                          /\ Alive(l)' <=> Alive(l)
  BY Zenon DEF Held, Alive
<1>2. Wedged' <=> Wedged
  BY Zenon DEF Wedged
<1> QED BY <1>1, <1>2, Zenon DEF ProcessesAreHeld

-------------------------------------------------------------------------------
LEMMA ProcessesHold ==
  ASSUME TypeOK, OwnersAreConsistent, ProcessesAreHeld, Processes
  PROVE  ProcessesAreHeld'
<1>1. /\ inner' = inner /\ session' = session /\ reapers' = reapers /\ up' = up
  BY DEF Processes, EmitToken, LeaderExits, LeaderForks, DescExits, diskVars, memVars, taskVars
<1>2. CASE EmitToken
  BY <1>1, <1>2, IdleSteps, Zenon DEF EmitToken
<1>3. ASSUME NEW l \in Launches, LeaderExits(l) \/ LeaderForks(l) \/ DescExits(l)
      PROVE  ProcessesAreHeld'
  <2>1. leader \in [Launches -> {"none", "live", "exited", "reaped"}]
        /\ desc \in [Launches -> BOOLEAN]
    BY DEF TypeOK
  <2>2. \A m \in Launches :
          /\ leader'[m] = "live" => leader[m] = "live"
          /\ Alive(m)' => Alive(m)
    <3>1. CASE LeaderExits(l)
      BY <2>1, <3>1, SMT DEF LeaderExits, Alive
    <3>2. CASE LeaderForks(l) \/ DescExits(l)
      <4>1. leader' = leader /\ \E v \in BOOLEAN : desc' = [desc EXCEPT ![l] = v] /\
                                   (v => leader[l] = "live")
        BY <3>2, Values, Zenon DEF LeaderForks, DescExits
      <4> QED BY <2>1, <4>1, SMT DEF Alive
    <3> QED BY <1>3, <3>1, <3>2
  <2>3. \A m \in Launches : Held(m)' <=> Held(m)
    BY <1>1, Zenon DEF Held
  <2>4. Wedged' <=> Wedged
    BY <1>1, Zenon DEF Wedged
  <2> QED BY <1>1, <2>2, <2>3, <2>4, Zenon DEF ProcessesAreHeld
<1> QED BY <1>2, <1>3 DEF Processes

LEMMA BootHolds ==
  ASSUME TypeOK, OwnersAreConsistent, ProcessesAreHeld, Boot PROVE ProcessesAreHeld'
<1>1. reapers' = {} /\ leader' = leader /\ desc' = desc /\ ~up
  BY Zenon DEF Boot, OwnersAreConsistent, DeadAgentOwnsNothing, osVars
<1>2. \A l \in Launches : ~Alive(l)'
  BY <1>1, Zenon DEF ProcessesAreHeld, Alive
<1>3. inner'.child = 0 /\ inner'.job = 0
  <2>1. \A st \in States : \A v, w :
           /\ FreshInner(st).child = 0 /\ FreshInner(st).job = 0
           /\ [FreshInner(st) EXCEPT !.readiness = v].child = 0
           /\ [FreshInner(st) EXCEPT !.readiness = v].job = 0
           /\ [FreshInner(st) EXCEPT !.readiness = v, !.unattached_monitor_started = w].child = 0
           /\ [FreshInner(st) EXCEPT !.readiness = v, !.unattached_monitor_started = w].job = 0
    BY SMT DEF FreshInner
  <2>2. BootState \in States
        /\ (IF BootState = "Failed" THEN "Failed" ELSE "Stopped") \in States
    BY SMT DEF BootState, TypeOK, States
  <2>3. CASE BootTerminal \/ BootTokenBound \/ BootReattachFails \/ BootAbandoned
    <3>1. CASE BootTerminal
      BY <2>1, <2>2, <3>1, Zenon DEF BootTerminal
    <3>2. CASE BootTokenBound
      BY <2>1, <3>2, Values, Zenon DEF BootTokenBound
    <3>3. CASE BootReattachFails
      BY <2>1, <3>3, Values, Zenon DEF BootReattachFails
    <3>4. CASE BootAbandoned
      BY <2>1, <3>4, Values, Zenon DEF BootAbandoned
    <3> QED BY <2>3, <3>1, <3>2, <3>3, <3>4
  <2>a. CASE BootReattach
    <3>1. inner' = [FreshInner("Running") EXCEPT !.readiness = "plain",
                                                 !.unattached_monitor_started = TRUE]
      BY <2>a, Zenon DEF BootReattach
    <3> QED BY <3>1, SMT DEF FreshInner
  <2>b. ASSUME NEW rd \in ReadinessKinds, BootUnattached(rd)
        PROVE  inner'.child = 0 /\ inner'.job = 0
    BY <2>1, <2>2, <2>b, Zenon DEF BootUnattached
  <2>4. CASE BootRecovering
    BY <2>4, SMT DEF BootRecovering, BeginRecovery, FreshInner
  <2> QED BY <2>3, <2>4, <2>a, <2>b, Zenon DEF Boot
<1> QED BY <1>1, <1>2, <1>3, NoProcessIsHeld

LEMMA DeathHolds ==
  ASSUME TypeOK, AgentEndsWithItsProcesses, Crash \/ StartCrashes PROVE ProcessesAreHeld'
<1>1. Windows /\ AgentDies /\ \E ld : JobsClose(ld)
  BY Zenon DEF Crash, StartCrashes, Mishap, AgentEndsWithItsProcesses
<1>2. \A l \in Launches : ~Alive(l)'
  BY <1>1, SMT DEF JobsClose, Alive
<1>3. inner'.job = 0 /\ inner'.child = 0 /\ reapers' = {}
  BY <1>1, FreshFields, Values DEF AgentDies
<1> QED BY <1>2, <1>3, NoProcessIsHeld

LEMMA StartHolds ==
  ASSUME TypeOK, OwnersAreConsistent, ProcessesAreHeld, NEW rd \in ReadinessKinds,
         \/ Start(rd) \/ StartPrepareFails(rd) \/ StartContextFails(rd) \/ StartSpawnFails(rd)
  PROVE  ProcessesAreHeld'
<1>0. leader \in [Launches -> {"none", "live", "exited", "reaped"}]
      /\ desc \in [Launches -> BOOLEAN]
  BY DEF TypeOK
<1>1. MayStart /\ up' = up /\ reapers' = reapers /\ desc' = PreviousJobEnded
  BY DEF Start, StartPrepareFails, StartContextFails, StartSpawnFails
<1>2. reapers = {} /\ inner.child = 0 /\ ~session.pending
  BY <1>1, Situations DEF MayStart
<1>3. \A m \in Launches : ~Held(m) /\ leader[m] # "live"
  BY <1>2, SMT DEF Held, Launches, ProcessesAreHeld
<1>4. \A m \in Launches : desc[m] => inner.job = m
  BY <1>2, <1>3, Zenon DEF ProcessesAreHeld, Alive, Wedged
<1>5. \A m \in Launches : ~desc'[m]
  BY <1>0, <1>1, <1>4, SMT DEF PreviousJobEnded, Launches
<1>6. CASE StartPrepareFails(rd) \/ StartContextFails(rd) \/ StartSpawnFails(rd)
  <2>1. leader' = leader
    BY <1>6 DEF StartPrepareFails, StartContextFails, StartSpawnFails
  <2>2. \A m \in Launches : ~Alive(m)'
    BY <1>3, <1>5, <2>1, Zenon DEF Alive
  <2>3. inner'.job = 0 /\ inner'.child = 0
    <3>1. \A v : LET p == PreparedInner(rd)
                     q == [PreparedInner(rd) EXCEPT !.readiness = v]
                 IN  /\ p.job = 0 /\ p.child = 0
                     /\ Failed(p).job = 0 /\ Failed(p).child = 0
                     /\ Failed(q).job = 0 /\ Failed(q).child = 0
      BY SMT DEF PreparedInner, FreshInner, Failed
    <3> QED
      BY <1>6, <3>1, Zenon DEF StartPrepareFails, StartContextFails, StartSpawnFails
  <2> QED BY <1>1, <1>2, <2>2, <2>3, NoProcessIsHeld
<1>7. CASE Start(rd)
  <2> DEFINE l == launches + 1
  <2>1. l \in Launches
    BY <1>7, ConstantsAssumption, SMT
    DEF Start, MayStart, TypeOK, Launches, ConstantsAssumption
  <2>2. /\ inner'.child = l /\ inner'.job = IF Windows THEN l ELSE 0
    BY <1>7, SMT DEF Start, PreparedInner, FreshInner
  <2>3. session'.log = l
    BY <1>7, SMT DEF Start, Reserved
  <2>4. leader' = [leader EXCEPT ![l] = "live"]
    BY <1>7, Zenon DEF Start
  <2> HIDE DEF l
  <2>5. \A m \in Launches : m # l => leader'[m] # "live"
    BY <1>0, <1>3, <2>4, SMT
  <2>6. \A m \in Launches : Held(m)' <=> m = l
    BY <1>1, <1>2, <2>2, SMT DEF Held
  <2>7. \A m \in Launches : Alive(m)' => m = l
    BY <1>5, <2>5, Zenon DEF Alive
  <2>8. up
    BY <1>1 DEF MayStart
  <2> QED
    BY <1>1, <2>1, <2>2, <2>3, <2>5, <2>6, <2>7, <2>8, Zenon DEF ProcessesAreHeld
<1> QED BY <1>6, <1>7

LEMMA StarterHolds ==
  ASSUME TypeOK, OwnersAreConsistent, ProcessesAreHeld,
         \/ StartPersisted \/ StartAborted \/ AbortReturns
         \/ StarterAccept \/ StarterStale \/ MarkRunning \/ FailStart
  PROVE  ProcessesAreHeld'
<1>0. inner \in SupervisorInner
  BY DEF TypeOK
<1>1. /\ leader' = leader /\ desc' = desc /\ session' = session /\ up' = up
  BY DEF StartPersisted, StartAborted, AbortReturns, StarterAccept, StarterStale,
         MarkRunning, FailStart, osVars, diskVars, memVars
<1>2. CASE StartPersisted \/ StartAborted \/ AbortReturns \/ StarterStale
  <2>1. inner' = inner /\ reapers' = reapers
    BY <1>2 DEF StartPersisted, StartAborted, AbortReturns, StarterStale, memVars
  <2> QED BY <1>1, <2>1, IdleSteps
<1>3. CASE StarterAccept
  <2>1. reapers' = reapers
    BY <1>3 DEF StarterAccept
  <2>2. CASE inner' = inner
    BY <1>1, <2>1, <2>2, IdleSteps
  <2>3. CASE inner' = [inner EXCEPT !.start_ownership_pending = FALSE]
    <3>1. /\ inner'.job = inner.job /\ inner'.child = inner.child
          /\ inner'.owner = inner.owner
          /\ inner'.unattached_monitor_started = inner.unattached_monitor_started
      BY <1>0, <2>3, SMT DEF SupervisorInner
    <3>2. \A l \in Launches : /\ Held(l)' <=> Held(l)
                              /\ Alive(l)' <=> Alive(l)
      BY <1>1, <2>1, <3>1, Zenon DEF Held, Alive
    <3>3. Wedged' <=> Wedged
      BY <1>1, <2>1, <3>1, Zenon DEF Wedged
    <3> QED BY <1>1, <3>1, <3>2, <3>3, Zenon DEF ProcessesAreHeld
  <2> QED BY <1>3, <2>2, <2>3, Zenon DEF StarterAccept
<1>4. CASE MarkRunning
  <2>1. reapers' = reapers /\ inner.owner = StarterOwner
    BY <1>4 DEF MarkRunning, OwnsStart
  <2>2. inner.owner # NoOwner /\ up
    BY <2>1, OwnerKinds, Situations
  <2>3. inner'.job = inner.job /\ inner'.child = inner.child
    <3>1. \/ inner' = inner
          \/ inner' = [inner EXCEPT !.owner = NoOwner, !.st = "Running",
                                    !.attached = NoAttached]
          \/ inner' = [inner EXCEPT !.owner = NoOwner, !.st = "Running",
                                    !.epoch = inner.epoch + 1,
                                    !.attached = [gen |-> Gen, epoch |-> inner.epoch + 1,
                                                  recovering |-> FALSE]]
      BY <1>4, Zenon DEF MarkRunning
    <3>2. CASE inner' = [inner EXCEPT !.owner = NoOwner, !.st = "Running",
                                      !.attached = NoAttached]
      BY <1>0, <3>2, SMT DEF SupervisorInner
    <3>3. CASE inner' = [inner EXCEPT !.owner = NoOwner, !.st = "Running",
                                      !.epoch = inner.epoch + 1,
                                      !.attached = [gen |-> Gen, epoch |-> inner.epoch + 1,
                                                    recovering |-> FALSE]]
      BY <1>0, <3>3, SMT DEF SupervisorInner
    <3> QED BY <3>1, <3>2, <3>3
  <2>4. QuietInner
    BY <2>2, <2>3 DEF QuietInner
  <2> QED BY <1>1, <2>1, <2>2, <2>4, QuietSteps
<1>5. CASE FailStart
  <2>1. CASE ~OwnsStart
    BY <1>1, <1>5, <2>1, IdleSteps, Zenon DEF FailStart
  <2>2. CASE OwnsStart
    <3> DEFINE r == [kind |-> "fail", launch |-> inner.child, gen |-> Gen,
                     epoch |-> inner.epoch + 1, readiness |-> inner.readiness,
                     attached |-> NoAttached]
    <3>1. inner.owner # NoOwner
      BY <2>2, OwnerKinds DEF OwnsStart
    <3>2. reapers = {} /\ up
      BY <3>1, Situations
    <3>3. reapers' = {r}
      BY <1>5, <2>2, <3>2, Zenon DEF FailStart
    <3>4. r.launch = inner.child
      BY SMT
    <3>5. inner'.child = 0 /\ inner'.job = inner.job
      <4>1. inner' = [inner EXCEPT !.child = 0, !.epoch = inner.epoch + 1,
                         !.stop_pending = TRUE, !.start_ownership_pending = FALSE,
                         !.recovery = 0, !.owner = NoOwner, !.attached = NoAttached,
                         !.readiness = "off"]
        BY <1>5, <2>2, Zenon DEF FailStart
      <4> QED BY <1>0, <4>1, SMT DEF SupervisorInner
    <3> HIDE DEF r
    <3>6. \A l \in Launches : /\ Held(l)' <=> Held(l)
                              /\ Alive(l)' <=> Alive(l)
      BY <1>1, <3>2, <3>3, <3>4, <3>5, SMT DEF Held, Alive, Launches
    <3> QED BY <1>1, <3>1, <3>2, <3>5, <3>6, HoldersStay DEF Wedged
  <2> QED BY <2>1, <2>2
<1> QED BY <1>2, <1>3, <1>4, <1>5

LEMMA StopHolds ==
  ASSUME TypeOK, OwnersAreConsistent, ProcessesAreHeld,
         StopRequest \/ StopDescendants \/ StopCancelled
  PROVE  ProcessesAreHeld'
<1>0. inner \in SupervisorInner /\ desc \in [Launches -> BOOLEAN]
  BY DEF TypeOK
<1>1. CASE StopRequest
  <2> DEFINE r == [kind |-> "stop", launch |-> inner.child, gen |-> Gen,
                   epoch |-> inner.epoch + 1, readiness |-> inner.readiness,
                   attached |-> inner.attached]
  <2>1. /\ leader' = leader /\ desc' = desc /\ session' = session /\ up' = up /\ up
        /\ inner.child # 0
    BY <1>1 DEF StopRequest, osVars, diskVars
  <2>2. reapers = {}
    BY <2>1, Situations
  <2>3. reapers' = {r}
    BY <1>1, <2>2, Zenon DEF StopRequest
  <2>4. r.launch = inner.child
    BY SMT
  <2>5. inner'.child = 0 /\ inner'.job = inner.job
    BY <1>0, <1>1, SMT DEF StopRequest, SupervisorInner
  <2> HIDE DEF r
  <2>6. \A l \in Launches : /\ Held(l)' <=> Held(l)
                            /\ Alive(l)' <=> Alive(l)
    BY <2>1, <2>2, <2>3, <2>4, <2>5, SMT DEF Held, Alive, Launches
  <2> QED BY <2>1, <2>5, <2>6, HoldersStay DEF Wedged
<1>2. CASE StopDescendants
  <2>1. /\ leader' = leader /\ desc' = [desc EXCEPT ![inner.job] = FALSE]
        /\ inner.child = 0 /\ inner.job # 0 /\ ~inner.stop_pending /\ reapers' = reapers
    BY <1>2 DEF StopDescendants
  <2>2. reapers = {}
    BY <2>1, Situations
  <2>3. \A l \in Launches : leader[l] # "live"
    BY <2>1, <2>2, SMT DEF Held, Launches, ProcessesAreHeld
  <2>4. \A l \in Launches : desc[l] => inner.job = l
    BY <2>1, Zenon DEF ProcessesAreHeld, Alive
  <2>5. \A l \in Launches : ~Alive(l)'
    BY <1>0, <2>1, <2>3, <2>4, SMT DEF Alive
  <2>6. inner'.child = 0 /\ inner'.job = 0
    BY <1>0, <1>2, <2>1, SMT DEF StopDescendants, SupervisorInner
  <2> QED BY <2>1, <2>2, <2>5, <2>6, NoProcessIsHeld
<1>3. CASE StopCancelled
  BY <1>3, IdleSteps DEF StopCancelled, osVars, diskVars, memVars
<1> QED BY <1>1, <1>2, <1>3

LEMMA ReaperHolds ==
  ASSUME TypeOK, OwnersAreConsistent, ProcessesAreHeld, NEW r \in reapers, Holds(r),
         \/ FailSawExit(r) \/ ReaperFinishes(r, "Failed") \/ ReaperFinishes(r, "Stopped")
         \/ ReaperDrainFails(r) \/ RestoreStopChild(r)
  PROVE  ProcessesAreHeld'
<1>0. /\ inner \in SupervisorInner /\ desc \in [Launches -> BOOLEAN]
      /\ leader \in [Launches -> {"none", "live", "exited", "reaped"}]
  BY DEF TypeOK
<1>1. /\ reapers \ {r} = {} /\ inner.stop_pending /\ inner.child = 0 /\ inner.owner = NoOwner
      /\ ~inner.unattached_monitor_started /\ up /\ session.pending
      /\ \A q \in reapers : q = r
  BY Situations DEF Holds, OwnersAreConsistent, StopTakesAll, ReapersAreReserved,
                    ReaperIsSoleOwner
<1>2. reapers' = {} /\ up'
  BY <1>1 DEF FailSawExit, ReaperFinishes, ReaperDrainFails, RestoreStopChild
<1>3. \A l \in Launches : Held(l) <=> r.launch = l
  BY <1>1, SMT DEF Held, Launches
<1>4. TreeOf(r) \in 0..MaxLaunches /\ r.launch \in 0..MaxLaunches
  BY SMT DEF TreeOf, TypeOK, Reapers, SupervisorInner
<1>5. \A l \in Launches : Alive(l) => l = TreeOf(r)
  <2>1. \A l \in Launches : Alive(l) => inner.job = l \/ r.launch = l
    BY <1>3, Zenon DEF ProcessesAreHeld, Wedged
  <2>2. r.launch # 0 /\ inner.job # 0 => inner.job = r.launch
    <3>1. r.launch # 0 => r.launch \in Launches
      BY <1>4, ConstantsAssumption, SMT DEF Launches, ConstantsAssumption
    <3> QED BY <1>3, <3>1, Zenon DEF ProcessesAreHeld
  <2> QED BY <2>1, <2>2, SMT DEF TreeOf, Launches
<1>6. CASE FailSawExit(r)
  <2>1. /\ leader[r.launch] = "exited" /\ leader' = [leader EXCEPT ![r.launch] = "reaped"]
        /\ desc' = GroupSignalled(r.launch) /\ session' = session /\ r.launch # 0
    BY <1>6 DEF FailSawExit, Reap, diskVars
  <2>2. \A l \in Launches : leader[l] # "live"
    BY <1>3, <2>1, Zenon DEF ProcessesAreHeld
  <2>3. \A l \in Launches : leader'[l] # "live"
    BY <1>0, <2>1, <2>2, SMT
  <2>4. \A l \in Launches : desc[l] => l = r.launch
    BY <1>5, <2>1, Zenon DEF Alive, TreeOf
  <2>5. \A l \in Launches : desc'[l] => inner.job = l
    <3>1. CASE Windows
      BY <1>3, <2>1, <2>4, <3>1, Zenon DEF GroupSignalled, ProcessesAreHeld
    <3>2. CASE ~Windows
      BY <1>0, <2>1, <2>4, <3>2, SMT DEF GroupSignalled
    <3> QED BY <3>1, <3>2
  <2>6. inner'.child = 0 /\ inner'.job = inner.job
    BY <1>0, <1>1, <1>6, SMT DEF FailSawExit, BeginRecovery, SupervisorInner
  <2> QED BY <1>2, <2>1, <2>3, <2>5, <2>6, JobHoldsDescendants
<1>7. ASSUME NEW st \in {"Failed", "Stopped"}, ReaperFinishes(r, st)
      PROVE  ProcessesAreHeld'
  <2>1. inner'.child = 0 /\ inner'.job = 0
    BY <1>0, <1>1, <1>7, SMT DEF ReaperFinishes, Released, SupervisorInner
  <2>2. \A l \in Launches : ~Alive(l)'
    <3>1. CASE TreeOf(r) = 0
      <4>1. \A l \in Launches : ~Alive(l)
        BY <1>5, <3>1, SMT DEF Launches
      <4>2. leader' = leader /\ desc' = desc
        BY <1>7, <3>1, Zenon DEF ReaperFinishes, TreeEnds, osVars
      <4> QED BY <4>1, <4>2, Zenon DEF Alive
    <3>2. CASE TreeOf(r) # 0
      <4>1. /\ leader' = [leader EXCEPT ![TreeOf(r)] = "reaped"]
            /\ desc' = [desc EXCEPT ![TreeOf(r)] = FALSE]
        BY <1>7, <3>2, Zenon DEF ReaperFinishes, TreeEnds, KillTree
      <4> QED BY <1>0, <1>5, <4>1, SMT DEF Alive
    <3> QED BY <3>1, <3>2
  <2> QED BY <1>2, <2>1, <2>2, NoProcessIsHeld
<1>8. CASE ReaperDrainFails(r)
  <2>1. /\ Windows /\ TreeOf(r) # 0 /\ session' = session
        /\ leader' = [leader EXCEPT ![TreeOf(r)] = "reaped"]
    BY <1>8 DEF ReaperDrainFails, diskVars
  <2>2. /\ inner'.child = 0 /\ inner'.job = 0 /\ inner'.owner = NoOwner
        /\ ~inner'.unattached_monitor_started
    <3>1. CASE inner' = [inner EXCEPT !.stop_pending = FALSE, !.job = 0]
      BY <1>0, <1>1, <3>1, SMT DEF SupervisorInner
    <3>2. CASE inner' = [inner EXCEPT !.job = 0]
      BY <1>0, <1>1, <3>2, SMT DEF SupervisorInner
    <3> QED BY <1>8, <3>1, <3>2, Zenon DEF ReaperDrainFails
  <2>3. \A l \in Launches : leader'[l] # "live" /\ (desc'[l] => desc[l])
    <3>1. \A l \in Launches : leader'[l] # "live"
      BY <1>0, <1>5, <2>1, SMT DEF Alive
    <3>2. \A l \in Launches : desc'[l] => desc[l]
      BY <1>0, <1>8, SMT DEF ReaperDrainFails
    <3> QED BY <3>1, <3>2
  <2>4. \A l \in Launches : Alive(l)' => session'.log = l
    BY <2>1, <2>3, Zenon DEF Alive, ProcessesAreHeld
  <2>5. \A l \in Launches : ~Held(l)'
    BY <1>2, <2>2, SMT DEF Held, Launches
  <2>6. Wedged'
    BY <1>1, <1>2, <2>1, <2>2 DEF Wedged
  <2> QED BY <1>2, <2>2, <2>3, <2>4, <2>5, <2>6, Zenon DEF ProcessesAreHeld
<1>9. CASE RestoreStopChild(r)
  <2> DEFINE e == inner.epoch + 1
             back == [inner EXCEPT !.child = r.launch, !.stop_pending = FALSE,
                                   !.readiness = r.readiness]
             again == [gen |-> r.gen, epoch |-> e, recovering |-> r.attached.recovering]
  <2>1. /\ session' = session /\ leader' = leader /\ desc' = desc
    BY <1>9 DEF RestoreStopChild, diskVars, osVars
  <2>2. \/ inner' = [back EXCEPT !.epoch = e, !.attached = again]
        \/ inner' = [back EXCEPT !.attached = NoAttached]
        \/ inner' = [back EXCEPT !.epoch = e, !.attached = NoAttached,
                                 !.start_ownership_pending = TRUE,
                                 !.owner = Owner("start", r.gen, e)]
    BY <1>9, Zenon DEF RestoreStopChild
  <2>3. inner'.child = r.launch /\ inner'.job = inner.job
    <3>1. CASE inner' = [back EXCEPT !.epoch = e, !.attached = again]
      BY <1>0, <3>1, SMT DEF SupervisorInner
    <3>2. CASE inner' = [back EXCEPT !.attached = NoAttached]
      BY <1>0, <3>2, SMT DEF SupervisorInner
    <3>3. CASE inner' = [back EXCEPT !.epoch = e, !.attached = NoAttached,
                                     !.start_ownership_pending = TRUE,
                                     !.owner = Owner("start", r.gen, e)]
      BY <1>0, <3>3, SMT DEF SupervisorInner
    <3> QED BY <2>2, <3>1, <3>2, <3>3
  <2>4. \A l \in Launches : /\ Held(l)' <=> Held(l)
                            /\ Alive(l)' <=> Alive(l)
    BY <1>2, <1>3, <2>1, <2>3, Zenon DEF Held, Alive
  <2>5. ~Wedged
    BY DEF Wedged
  <2> QED BY <1>2, <2>1, <2>3, <2>4, <2>5, HoldersStay
<1> QED BY <1>6, <1>7, <1>8, <1>9

LEMMA ObservingHolds ==
  ASSUME TypeOK, OwnersAreConsistent, ProcessesAreHeld, Observing PROVE ProcessesAreHeld'
<1>0. /\ inner \in SupervisorInner /\ desc \in [Launches -> BOOLEAN]
      /\ leader \in [Launches -> {"none", "live", "exited", "reaped"}]
  BY DEF TypeOK
<1>1. CASE ObserveExit
  <2> DEFINE l == inner.child
             gone == [inner EXCEPT !.child = 0, !.attached = NoAttached]
             kept == [inner EXCEPT !.child = 0, !.attached = NoAttached, !.recovery = 0,
                                   !.unattached_monitor_started = FALSE]
  <2>1. /\ up' = up /\ up /\ reapers' = reapers /\ l # 0 /\ leader[l] = "exited"
        /\ leader' = [leader EXCEPT ![l] = "reaped"]
        /\ desc' = IF inner.readiness = "off" THEN [desc EXCEPT ![l] = FALSE]
                   ELSE GroupSignalled(l)
    BY <1>1 DEF ObserveExit, Reap
  <2>2. reapers = {}
    BY <2>1, Situations
  <2>3. \A m \in Launches : Held(m) <=> m = l
    BY <2>2, Zenon DEF Held
  <2>4. \A m \in Launches : leader'[m] # "live"
    <3>1. \A m \in Launches : leader[m] # "live"
      BY <2>1, <2>3, Zenon DEF ProcessesAreHeld
    <3> QED BY <1>0, <2>1, <3>1, SMT
  <2>5. \A m \in Launches : desc'[m] => inner.job = m
    <3>1. \A m \in Launches : desc[m] => inner.job = m \/ m = l
      BY <2>1, <2>3, Zenon DEF ProcessesAreHeld, Alive, Wedged
    <3>2. CASE Windows
      <4>1. \A m \in Launches : desc[m] => inner.job = m
        BY <2>3, <3>1, <3>2, Zenon DEF ProcessesAreHeld
      <4>2. \A m \in Launches : desc'[m] => desc[m]
        BY <1>0, <2>1, SMT DEF GroupSignalled
      <4> QED BY <4>1, <4>2
    <3>3. CASE ~Windows
      <4>1. desc' = [desc EXCEPT ![l] = FALSE]
        BY <2>1, <3>3, Zenon DEF GroupSignalled
      <4> QED BY <1>0, <3>1, <4>1, SMT
    <3> QED BY <3>2, <3>3
  <2>6. session'.log = session.log
    <3>1. Rotate \/ ClearPending \/ session' = session
      BY <1>1, Zenon DEF ObserveExit, ExitedWithReadiness, ExitedWithoutReadiness
    <3> QED BY <3>1, LogStays DEF TypeOK
  <2>7. inner'.child = 0 /\ inner'.job = inner.job
    <3>1. \/ inner' = BeginRecovery(gone, Gen + 1) \/ inner' = FailedNoPid(kept)
          \/ inner' = Failed(gone) \/ inner' = FailedNoPid(gone)
      BY <1>1, Zenon DEF ObserveExit, ExitedWithReadiness, ExitedWithoutReadiness
    <3>2. CASE inner' = BeginRecovery(gone, Gen + 1)
      BY <1>0, <3>2, SMT DEF BeginRecovery, SupervisorInner
    <3>3. CASE inner' = FailedNoPid(kept)
      BY <1>0, <3>3, SMT DEF FailedNoPid, SupervisorInner
    <3>4. CASE inner' = Failed(gone)
      BY <1>0, <3>4, SMT DEF Failed, SupervisorInner
    <3>5. CASE inner' = FailedNoPid(gone)
      BY <1>0, <3>5, SMT DEF FailedNoPid, SupervisorInner
    <3> QED BY <3>1, <3>2, <3>3, <3>4, <3>5
  <2> QED BY <2>1, <2>2, <2>4, <2>5, <2>6, <2>7, JobHoldsDescendants
<1>2. CASE ObserveError
  <2>1. /\ leader' = leader /\ desc' = desc /\ session' = session /\ up' = up /\ up
        /\ reapers' = reapers /\ inner.child # 0
    BY <1>2 DEF ObserveError, osVars, diskVars
  <2>2. inner'.job = inner.job /\ inner'.child = inner.child
    BY <1>0, <1>2, SMT DEF ObserveError, Failed, SupervisorInner
  <2> QED BY <2>1, <2>2, QuietSteps DEF QuietInner
<1>3. CASE MonitorEnds \/ Persist
  BY <1>3, IdleSteps, Zenon DEF MonitorEnds, Persist, osVars, diskVars, memVars
<1> QED BY <1>1, <1>2, <1>3 DEF Observing

LEMMA MonitorsHold ==
  ASSUME TypeOK, OwnersAreConsistent, ProcessesAreHeld,
         Recovering \/ Attached \/ Unattached
  PROVE  ProcessesAreHeld'
<1>0. inner \in SupervisorInner /\ session \in Sessions
  BY DEF TypeOK
<1>1. CASE RecoveryStale \/ AttachedStale \/ UnattachedStale
  BY <1>1, IdleSteps, Zenon
  DEF RecoveryStale, AttachedStale, UnattachedStale, osVars, diskVars, memVars
<1>2. CASE \/ RecoverySucceeds \/ RecoveryExpires \/ AttachedGap \/ AttachedBack
           \/ AttachedExpires \/ UnattachedGap
  <2>1. /\ leader' = leader /\ desc' = desc /\ reapers' = reapers /\ up' = up
    BY <1>2 DEF RecoverySucceeds, RecoveryExpires, AttachedGap, AttachedBack,
                AttachedExpires, UnattachedGap, osVars
  <2>2. inner.child # 0 \/ inner.owner # NoOwner \/ inner.unattached_monitor_started
    <3>1. RecoveryIsCurrent \/ AttachedIsCurrent \/ UnattachedIsCurrent
      BY <1>2, Zenon
      DEF RecoverySucceeds, RecoveryExpires, AttachedGap, AttachedBack, AttachedExpires,
          UnattachedGap
    <3>2. RecoveryIsCurrent => inner.owner # NoOwner
      BY SMT DEF RecoveryIsCurrent, NoOwner, Owner
    <3> QED BY <3>1, <3>2 DEF AttachedIsCurrent, UnattachedIsCurrent
  <2>3. up
    BY <2>2, FreshFields, Values, OwnerKinds DEF OwnersAreConsistent, DeadAgentOwnsNothing
  <2>4. session'.log = session.log
    <3>1. Rotate \/ ClearPending \/ session' = session
      BY <1>2, Zenon
      DEF RecoverySucceeds, RecoveryExpires, AttachedGap, AttachedBack, AttachedExpires,
          UnattachedGap, TryClearPending, diskVars
    <3> QED BY <1>0, <3>1, LogStays
  <2>5. inner'.job = inner.job /\ inner'.child = inner.child
    <3>1. CASE RecoverySucceeds
      BY <1>0, <3>1, SMT DEF RecoverySucceeds, SupervisorInner
    <3>2. CASE RecoveryExpires
      BY <1>0, <3>2, SMT DEF RecoveryExpires, FailedNoPid, SupervisorInner
    <3>3. CASE AttachedGap
      <4> DEFINE again == [gen |-> Gen + 1, epoch |-> inner.epoch + 1, recovering |-> TRUE]
                 moved == [inner EXCEPT !.st = "Starting", !.recovery = 0,
                                        !.owner = NoOwner,
                                        !.unattached_monitor_started = FALSE,
                                        !.epoch = inner.epoch + 1, !.attached = again]
                 over == [inner EXCEPT !.attached = NoAttached]
      <4>1. inner' = moved \/ inner' = Failed(over)
        BY <3>3, Zenon DEF AttachedGap
      <4>2. CASE inner' = moved
        BY <1>0, <4>2, SMT DEF SupervisorInner
      <4>3. CASE inner' = Failed(over)
        BY <1>0, <4>3, SMT DEF Failed, SupervisorInner
      <4> QED BY <4>1, <4>2, <4>3
    <3>4. CASE AttachedBack
      BY <1>0, <3>4, SMT DEF AttachedBack, SupervisorInner
    <3>5. CASE AttachedExpires
      BY <1>0, <3>5, SMT DEF AttachedExpires, Failed, SupervisorInner
    <3>6. CASE UnattachedGap
      <4> DEFINE unclaimed == [inner EXCEPT !.unattached_monitor_started = FALSE]
      <4>1. inner' = BeginRecovery(unclaimed, Gen + 1) \/ inner' = Failed(unclaimed)
        BY <3>6, Zenon DEF UnattachedGap
      <4>2. CASE inner' = BeginRecovery(unclaimed, Gen + 1)
        BY <1>0, <4>2, SMT DEF BeginRecovery, SupervisorInner
      <4>3. CASE inner' = Failed(unclaimed)
        BY <1>0, <4>3, SMT DEF Failed, SupervisorInner
      <4> QED BY <4>1, <4>2, <4>3
    <3> QED BY <1>2, <3>1, <3>2, <3>3, <3>4, <3>5, <3>6
  <2> QED BY <2>1, <2>2, <2>3, <2>4, <2>5, QuietSteps DEF QuietInner
<1> QED BY <1>1, <1>2 DEF Recovering, Attached, Unattached

-------------------------------------------------------------------------------
\* Every live process belongs to a launch that the Agent holds, that the Job holds
\* or that the reservation still blocks.
THEOREM ProcessesHeld ==
  ASSUME AgentEndsWithItsProcesses PROVE Spec => []ProcessesAreHeld
<1>1. Init => ProcessesAreHeld
  <2> SUFFICES ASSUME Init PROVE ProcessesAreHeld
    OBVIOUS
  <2>1. \A l \in Launches : ~Alive(l)
    BY SMT DEF Init, Alive
  <2>2. inner.job = 0 /\ inner.child = 0 /\ reapers = {}
    BY FreshFields, Values DEF Init
  <2>3. \A l \in Launches : ~Held(l)
    BY <2>2, SMT DEF Held, Launches
  <2> QED BY <2>1, <2>2, <2>3, Zenon DEF ProcessesAreHeld, Alive
<1>2. TypeOK /\ OwnersAreConsistent /\ ProcessesAreHeld /\ [Next]_vars => ProcessesAreHeld'
  <2> SUFFICES ASSUME TypeOK, OwnersAreConsistent, ProcessesAreHeld, [Next]_vars
               PROVE  ProcessesAreHeld'
    OBVIOUS
  <2>1. CASE UNCHANGED vars
    BY <2>1, IdleSteps DEF vars, osVars, diskVars, memVars, taskVars
  <2>2. CASE Starting
    BY <2>2, StartHolds, StarterHolds DEF Starting
  <2>3. CASE Stopping
    BY <2>3, StopHolds, ReaperHolds
    DEF Stopping, FinishStop, FinishFail, ReaperFaults, FailReapers, StopReapers
  <2> QED
    BY <2>1, <2>2, <2>3, BootHolds, DeathHolds, ProcessesHold, ObservingHolds,
       MonitorsHold DEF Next
<1> QED BY <1>1, <1>2, TypeCorrect, OwnersConsistent, PTL DEF Spec

\* The purpose of the supervisor: whatever is started, stopped, lost or recovered,
\* two launches never have live processes at the same time.
THEOREM OneHarness ==
  ASSUME AgentEndsWithItsProcesses PROVE Spec => []NoDuplicateHarness
<1>1. ProcessesAreHeld => NoDuplicateHarness
  BY Zenon DEF ProcessesAreHeld, NoDuplicateHarness
<1> QED BY <1>1, ProcessesHeld, PTL

\* ... and a live process is always covered by the reservation or by the Job.
THEOREM ProcessesCovered ==
  ASSUME AgentEndsWithItsProcesses PROVE Spec => []LiveProcessIsCovered
<1>1. OwnersAreConsistent /\ ProcessesAreHeld => LiveProcessIsCovered
  <2> SUFFICES ASSUME OwnersAreConsistent, ProcessesAreHeld, NEW l \in Launches, Alive(l)
               PROVE  (session.pending /\ session.log = l) \/ inner.job = l
    BY DEF LiveProcessIsCovered
  <2>1. session.log = l /\ (inner.job = l \/ Held(l) \/ Wedged)
    BY DEF ProcessesAreHeld
  <2>2. Held(l) => session.pending
    BY SMT DEF Held, Launches, OwnersAreConsistent, ChildIsReserved, ReapersAreReserved
  <2> QED BY <2>1, <2>2 DEF Wedged
<1> QED BY <1>1, ProcessesHeld, OwnersConsistent, PTL

\* A reservation that is released leaves no process behind.  Elsewhere than on
\* Windows nothing but the reservation keeps a second Harness away, so nothing may
\* be left of the launch it names.
THEOREM ReservationKept ==
  ASSUME AgentEndsWithItsProcesses, ~Windows PROVE Spec => ReservationOutlivesRun
<1>1. OwnersAreConsistent /\ ProcessesAreHeld
        => \A l \in Launches : Alive(l) => session.pending
  <2> SUFFICES ASSUME OwnersAreConsistent, ProcessesAreHeld, NEW l \in Launches, Alive(l)
               PROVE  session.pending
    OBVIOUS
  <2>1. inner.job = 0 /\ ~Wedged
    BY DEF ProcessesAreHeld, Wedged
  <2>2. Held(l)
    BY <2>1, SMT DEF ProcessesAreHeld, Launches
  <2> QED
    BY <2>2, SMT DEF Held, Launches, OwnersAreConsistent, ChildIsReserved, ReapersAreReserved
<1>2. (\A l \in Launches : Alive(l) => session.pending)'
        => [\A l \in Launches :
               session.pending /\ session.log = l /\ ~session'.pending => ~Alive(l)']_vars
  OBVIOUS
<1> QED BY <1>1, <1>2, OwnersConsistent, ProcessesHeld, PTL DEF ReservationOutlivesRun

\* selection_change_is_quiescent: when it allows a change of the selection, no
\* process of ours lives and no task can still act on one.
THEOREM QuiescenceMeansNoOwner ==
  ASSUME AgentEndsWithItsProcesses PROVE Spec => []QuiescentMeansNoOwner
<1>1. OwnersAreConsistent /\ ProcessesAreHeld => QuiescentMeansNoOwner
  <2> SUFFICES ASSUME OwnersAreConsistent, ProcessesAreHeld, Quiescent
               PROVE  /\ \A l \in Launches : ~Alive(l)
                      /\ reapers = {} /\ ~RecoveryIsCurrent /\ ~AttachedIsCurrent
                      /\ ~UnattachedIsCurrent
    BY DEF QuiescentMeansNoOwner
  <2>1. /\ ~session.pending /\ inner.child = 0 /\ inner.owner = NoOwner
        /\ ~inner.unattached_monitor_started /\ (inner.job # 0 => ~Alive(inner.job))
    BY DEF Quiescent
  <2>2. reapers = {}
    BY <2>1 DEF OwnersAreConsistent, ReapersAreReserved
  <2>3. ASSUME NEW l \in Launches, Alive(l) PROVE FALSE
    <3>1. inner.job = l \/ Held(l) \/ Wedged
      BY <2>3 DEF ProcessesAreHeld
    <3>2. ~Held(l) /\ ~Wedged
      BY <2>1, <2>2, SMT DEF Held, Wedged, Launches
    <3>3. l # 0
      BY SMT DEF Launches
    <3> QED BY <2>1, <2>3, <3>1, <3>2, <3>3, Zenon
  <2>4. ~RecoveryIsCurrent
    BY <2>1, SMT DEF RecoveryIsCurrent, Owner, NoOwner
  <2> QED
    BY <2>1, <2>2, <2>3, <2>4, Zenon DEF AttachedIsCurrent, UnattachedIsCurrent
<1> QED BY <1>1, ProcessesHeld, OwnersConsistent, PTL

\* While a stop is pending, nobody but its finishing owner has a way in.
LEMMA OthersStayOut ==
  ASSUME TypeOK, OwnersAreConsistent, inner.stop_pending
  PROVE  /\ up /\ inner.child = 0 /\ ~OwnsStart /\ ~RecoveryIsCurrent /\ ~AttachedIsCurrent
         /\ ~UnattachedIsCurrent /\ ~MayStart
<1>1. /\ inner.child = 0 /\ inner.owner = NoOwner /\ ~inner.unattached_monitor_started
  BY DEF OwnersAreConsistent, StopTakesAll
<1>2. up
  <2>1. ~up => inner = FreshInner("Detached")
    BY DEF OwnersAreConsistent, DeadAgentOwnsNothing
  <2> QED BY <2>1, FreshFields, Values
<1>3. ~OwnsStart /\ ~RecoveryIsCurrent
  BY <1>1, SMT DEF OwnsStart, StarterOwner, RecoveryIsCurrent, Owner, NoOwner
<1> QED
  BY <1>1, <1>2, <1>3, Zenon DEF AttachedIsCurrent, UnattachedIsCurrent, MayStart

\* While an owner finishes a stop or a failed start, no late start owner, monitor,
\* recovery or poll changes what it is about to publish (finish_stop, fail_start).
THEOREM StopsUndisturbed == Spec => StoppingIsUndisturbed
<1>1. TypeOK /\ OwnersAreConsistent /\ [Next]_vars =>
        [inner.stop_pending /\ inner'.stop_pending
           => inner' = [inner EXCEPT !.job = inner'.job]]_vars
  <2> SUFFICES ASSUME TypeOK, OwnersAreConsistent, Next, inner.stop_pending,
                      inner'.stop_pending
               PROVE  inner' = [inner EXCEPT !.job = inner'.job]
    OBVIOUS
  <2>0. /\ up /\ inner.child = 0 /\ ~OwnsStart /\ ~RecoveryIsCurrent /\ ~AttachedIsCurrent
        /\ ~UnattachedIsCurrent /\ ~MayStart /\ inner \in SupervisorInner
    BY OthersStayOut DEF TypeOK
  <2>1. ASSUME inner' = inner
        PROVE  inner' = [inner EXCEPT !.job = inner'.job]
    BY <2>0, <2>1, SMT DEF SupervisorInner
  <2>2. CASE Boot \/ Crash \/ StartCrashes
    <3>1. ~Boot
      BY <2>0 DEF Boot
    <3>2. ~MayStart => ~StartCrashes
      BY DEF StartCrashes
    <3>3. inner' = FreshInner("Detached")
      BY <2>0, <2>2, <3>1, <3>2 DEF Crash, AgentDies
    <3> QED BY <3>3, FreshFields, Values
  <2>3. CASE Processes
    BY <2>1, <2>3, Zenon DEF Processes, EmitToken, LeaderExits, LeaderForks, DescExits, memVars
  <2>4. CASE Starting
    BY <2>0, <2>1, <2>4, Zenon
    DEF Starting, Start, StartPrepareFails, StartContextFails, StartSpawnFails, StartPersisted,
        StartAborted, AbortReturns, StarterAccept, StarterStale, MarkRunning, FailStart, memVars
  <2>5. CASE StopRequest \/ StopDescendants \/ StopCancelled
    BY <2>0, <2>1, <2>5, Zenon DEF StopRequest, StopDescendants, StopCancelled, memVars
  <2>6. ASSUME NEW r \in reapers, NEW st, ReaperFinishes(r, st) PROVE FALSE
    <3>1. inner'.stop_pending = FALSE
      BY <2>0, <2>6, SMT DEF ReaperFinishes, Released, SupervisorInner
    <3> QED BY <3>1
  <2>7. ASSUME NEW r \in reapers, FailSawExit(r) PROVE FALSE
    <3>1. inner'.stop_pending = FALSE
      BY <2>0, <2>7, SMT DEF FailSawExit, BeginRecovery, SupervisorInner
    <3> QED BY <3>1
  <2>8. ASSUME NEW r \in reapers, ReaperDrainFails(r)
        PROVE  inner' = [inner EXCEPT !.job = inner'.job]
    <3>1. inner' = [inner EXCEPT !.job = 0] \/ inner' = [inner EXCEPT !.stop_pending = FALSE, !.job = 0]
      BY <2>8, Zenon DEF ReaperDrainFails
    <3>2. CASE inner' = [inner EXCEPT !.job = 0]
      <4>1. inner'.job = 0
        BY <2>0, <3>2, SMT DEF SupervisorInner
      <4> QED BY <3>2, <4>1
    <3>3. CASE inner' = [inner EXCEPT !.stop_pending = FALSE, !.job = 0]
      <4>1. inner'.stop_pending = FALSE
        BY <2>0, <3>3, SMT DEF SupervisorInner
      <4> QED BY <4>1
    <3> QED BY <3>1, <3>2, <3>3
  <2>9. ASSUME NEW r \in reapers, RestoreStopChild(r) PROVE FALSE
    <3> DEFINE e == inner.epoch + 1
               back == [inner EXCEPT !.child = r.launch, !.stop_pending = FALSE,
                                     !.readiness = r.readiness]
               again == [gen |-> r.gen, epoch |-> e, recovering |-> r.attached.recovering]
    <3>1. \/ inner' = [back EXCEPT !.epoch = e, !.attached = again]
          \/ inner' = [back EXCEPT !.attached = NoAttached]
          \/ inner' = [back EXCEPT !.epoch = e, !.attached = NoAttached,
                                   !.start_ownership_pending = TRUE,
                                   !.owner = Owner("start", r.gen, e)]
      BY <2>9, Zenon DEF RestoreStopChild
    <3>2. CASE inner' = [back EXCEPT !.epoch = e, !.attached = again]
      BY <2>0, <3>2, SMT DEF SupervisorInner
    <3>3. CASE inner' = [back EXCEPT !.attached = NoAttached]
      BY <2>0, <3>3, SMT DEF SupervisorInner
    <3>4. CASE inner' = [back EXCEPT !.epoch = e, !.attached = NoAttached,
                                     !.start_ownership_pending = TRUE,
                                     !.owner = Owner("start", r.gen, e)]
      BY <2>0, <3>4, SMT DEF SupervisorInner
    <3> QED BY <3>1, <3>2, <3>3, <3>4
  <2>10. CASE FinishStop \/ FinishFail \/ ReaperFaults
    BY <2>6, <2>7, <2>8, <2>9, <2>10, Zenon
    DEF FinishStop, FinishFail, ReaperFaults, FailReapers, StopReapers
  <2>11. CASE Observing
    BY <2>0, <2>1, <2>11, Zenon DEF Observing, ObserveExit, ObserveError, MonitorEnds, Persist, memVars
  <2>12. CASE Recovering
    BY <2>0, <2>1, <2>12, Zenon DEF Recovering, RecoverySucceeds, RecoveryExpires, RecoveryStale, memVars
  <2>13. CASE Attached
    BY <2>0, <2>1, <2>13, Zenon DEF Attached, AttachedGap, AttachedBack, AttachedExpires, AttachedStale, memVars
  <2>14. CASE Unattached
    BY <2>0, <2>1, <2>14, Zenon DEF Unattached, UnattachedGap, UnattachedStale, memVars
  <2> QED
    BY <2>2, <2>3, <2>4, <2>5, <2>10, <2>11, <2>12, <2>13, <2>14, Zenon DEF Next, Stopping
<1> QED BY <1>1, TypeCorrect, OwnersConsistent, PTL DEF Spec, StoppingIsUndisturbed

-------------------------------------------------------------------------------
(* The durable snapshot.                                                    *)

\* Every save of the state or of the marker reaches the disk: what the tasks do
\* otherwise, or fail to do, is theirs.
SavesSucceed == Mishaps \cap {"persist", "clear", "prepare", "spawn"} = {}

\* A step that neither settles an observation nor changes the observed state.
LEMMA SnapshotKept ==
  ASSUME DecidedStateIsSaved, up' => up, saved' = saved, inner'.st = inner.st, dirty' = dirty
  PROVE  DecidedStateIsSaved'
  BY DEF DecidedStateIsSaved

LEMMA SnapshotOfStarting ==
  ASSUME TypeOK, SavesSucceed, DecidedStateIsSaved, Starting
  PROVE  DecidedStateIsSaved'
<1>0. inner \in SupervisorInner
  BY DEF TypeOK
<1>1. ASSUME NEW rd \in ReadinessKinds,
             Start(rd) \/ StartPrepareFails(rd) \/ StartContextFails(rd) \/ StartSpawnFails(rd)
      PROVE  DecidedStateIsSaved'
  <2>1. PreparedInner(rd).st = "Starting"
    BY SMT DEF PreparedInner, FreshInner
  <2>2. CASE Start(rd)
    <3>1. saved' = "Starting" /\ inner'.st = "Starting"
      BY <2>2, SMT DEF Start, PreparedInner, FreshInner
    <3> QED BY <3>1 DEF DecidedStateIsSaved
  <2>3. CASE StartContextFails(rd)
    BY <2>1, <2>3 DEF StartContextFails, DecidedStateIsSaved
  <2>4. ~StartPrepareFails(rd) /\ ~StartSpawnFails(rd)
    BY DEF SavesSucceed, StartPrepareFails, StartSpawnFails, Mishap
  <2> QED BY <1>1, <2>2, <2>3, <2>4
<1>2. CASE StartPersisted
  BY <1>2 DEF StartPersisted, memVars, DecidedStateIsSaved
<1>3. CASE StartAborted \/ AbortReturns \/ StarterStale
  BY <1>3, SnapshotKept DEF StartAborted, AbortReturns, StarterStale, diskVars, memVars
<1>4. CASE StarterAccept
  <2>1. inner' = inner \/ inner' = [inner EXCEPT !.start_ownership_pending = FALSE]
    BY <1>4, Zenon DEF StarterAccept
  <2>2. inner'.st = inner.st
    BY <1>0, <2>1, SMT DEF SupervisorInner
  <2> QED BY <1>4, <2>2, SnapshotKept DEF StarterAccept, diskVars
<1>5. CASE MarkRunning
  <2>1. dirty' \/ UNCHANGED <<inner, dirty>>
    BY <1>5 DEF MarkRunning
  <2> QED BY <1>5, <2>1 DEF MarkRunning, diskVars, DecidedStateIsSaved
<1>6. CASE FailStart
  <2> DEFINE taken == [inner EXCEPT
                         !.child = 0, !.epoch = @ + 1, !.stop_pending = TRUE,
                         !.start_ownership_pending = FALSE, !.recovery = 0,
                         !.owner = NoOwner, !.attached = NoAttached, !.readiness = "off"]
  <2>1. inner' = inner \/ inner' = taken
    BY <1>6, Zenon DEF FailStart
  <2>2. inner'.st = inner.st
    <3>1. taken.st = inner.st
      BY <1>0, SMT DEF SupervisorInner
    <3> QED BY <2>1, <3>1
  <2>3. UNCHANGED <<up, saved, dirty>>
    BY <1>6, Zenon DEF FailStart, diskVars
  <2> QED BY <2>2, <2>3, SnapshotKept
<1> QED BY <1>1, <1>2, <1>3, <1>4, <1>5, <1>6 DEF Starting

LEMMA SnapshotOfStopping ==
  ASSUME TypeOK, SavesSucceed, DecidedStateIsSaved, Stopping
  PROVE  DecidedStateIsSaved'
<1>0. inner \in SupervisorInner
  BY DEF TypeOK
<1>1. CASE StopRequest
  <2>1. inner' = [inner EXCEPT
                    !.child = 0, !.epoch = @ + 1, !.stop_pending = TRUE,
                    !.start_ownership_pending = FALSE, !.recovery = 0,
                    !.owner = NoOwner, !.readiness = "off", !.attached = NoAttached]
    BY <1>1, Zenon DEF StopRequest
  <2>2. inner'.st = inner.st
    BY <1>0, <2>1, SMT DEF SupervisorInner
  <2> QED BY <1>1, <2>2, SnapshotKept DEF StopRequest, diskVars
<1>2. CASE StopDescendants
  <2>1. saved' = "Stopped"
    BY <1>2 DEF StopDescendants, SavesSucceed, Mishap
  <2>2. inner'.st = "Stopped"
    <3>1. inner' = [inner EXCEPT
                    !.job = 0, !.epoch = @ + 1, !.start_ownership_pending = FALSE,
                    !.recovery = 0, !.owner = NoOwner, !.readiness = "off",
                    !.attached = NoAttached, !.unattached_monitor_started = FALSE,
                    !.st = "Stopped", !.pid = 0]
      BY <1>2, Zenon DEF StopDescendants
    <3> QED BY <1>0, <3>1, SMT DEF SupervisorInner
  <2> QED BY <2>1, <2>2 DEF DecidedStateIsSaved
<1>3. CASE StopCancelled
  BY <1>3, SnapshotKept DEF StopCancelled, diskVars, memVars
<1>4. ASSUME NEW r \in reapers, NEW st, ReaperFinishes(r, st) PROVE dirty'
  BY <1>4 DEF ReaperFinishes, SavesSucceed, Mishap
<1>5. ASSUME NEW r \in reapers, FailSawExit(r) PROVE dirty'
  BY <1>5 DEF FailSawExit
<1>6. ASSUME NEW r \in reapers, ReaperDrainFails(r) PROVE DecidedStateIsSaved'
  <2>1. inner' = [inner EXCEPT !.stop_pending = FALSE, !.job = 0] \/ inner' = [inner EXCEPT !.job = 0]
    BY <1>6, Zenon DEF ReaperDrainFails
  <2>2. inner'.st = inner.st
    <3>1. CASE inner' = [inner EXCEPT !.stop_pending = FALSE, !.job = 0]
      BY <1>0, <3>1, SMT DEF SupervisorInner
    <3>2. CASE inner' = [inner EXCEPT !.job = 0]
      BY <1>0, <3>2, SMT DEF SupervisorInner
    <3> QED BY <2>1, <3>1, <3>2
  <2>3. UNCHANGED <<up, saved, dirty>>
    BY <1>6, Zenon DEF ReaperDrainFails, diskVars
  <2> QED BY <2>2, <2>3, SnapshotKept
<1>7. ASSUME NEW r \in reapers, RestoreStopChild(r) PROVE DecidedStateIsSaved'
  <2> DEFINE e == inner.epoch + 1
             back == [inner EXCEPT !.child = r.launch, !.stop_pending = FALSE,
                                   !.readiness = r.readiness]
             again == [gen |-> r.gen, epoch |-> e, recovering |-> r.attached.recovering]
  <2>1. \/ inner' = [back EXCEPT !.epoch = e, !.attached = again]
        \/ inner' = [back EXCEPT !.attached = NoAttached]
        \/ inner' = [back EXCEPT !.epoch = e, !.attached = NoAttached,
                                 !.start_ownership_pending = TRUE,
                                 !.owner = Owner("start", r.gen, e)]
    BY <1>7, Zenon DEF RestoreStopChild
  <2>2. inner'.st = inner.st
    <3>1. CASE inner' = [back EXCEPT !.epoch = e, !.attached = again]
      BY <1>0, <3>1, SMT DEF SupervisorInner
    <3>2. CASE inner' = [back EXCEPT !.attached = NoAttached]
      BY <1>0, <3>2, SMT DEF SupervisorInner
    <3>3. CASE inner' = [back EXCEPT !.epoch = e, !.attached = NoAttached,
                                     !.start_ownership_pending = TRUE,
                                     !.owner = Owner("start", r.gen, e)]
      BY <1>0, <3>3, SMT DEF SupervisorInner
    <3> QED BY <2>1, <3>1, <3>2, <3>3
  <2>3. UNCHANGED <<up, saved, dirty>>
    BY <1>7, Zenon DEF RestoreStopChild, diskVars
  <2> QED BY <2>2, <2>3, SnapshotKept
<1> QED
  BY <1>1, <1>2, <1>3, <1>4, <1>5, <1>6, <1>7
  DEF Stopping, FinishStop, FinishFail, ReaperFaults, FailReapers, StopReapers, DecidedStateIsSaved

\* What an observation settles, or unsettles.
LEMMA SettledFields ==
  ASSUME NEW i \in SupervisorInner
  PROVE  /\ Failed(i).st = "Failed" /\ Failed(i).owner = i.owner
         /\ FailedNoPid(i).st = "Failed" /\ FailedNoPid(i).owner = i.owner
         /\ \A g : BeginRecovery(i, g).st = "Starting" /\ BeginRecovery(i, g).child = i.child
<1>1. Failed(i).st = "Failed" /\ Failed(i).owner = i.owner
  BY SMT DEF Failed, SupervisorInner
<1>2. FailedNoPid(i).st = "Failed" /\ FailedNoPid(i).owner = i.owner
  BY SMT DEF FailedNoPid, SupervisorInner
<1>3. \A g : BeginRecovery(i, g).st = "Starting" /\ BeginRecovery(i, g).child = i.child
  BY SMT DEF BeginRecovery, SupervisorInner
<1> QED BY <1>1, <1>2, <1>3

LEMMA SnapshotStep ==
  ASSUME TypeOK, SavesSucceed, DecidedStateIsSaved, [Next]_vars
  PROVE  DecidedStateIsSaved'
<1>0. inner \in SupervisorInner
  BY DEF TypeOK
<1>1. CASE Boot
  BY <1>1 DEF Boot, DecidedStateIsSaved
<1>2. CASE Crash \/ StartCrashes
  BY <1>2 DEF Crash, StartCrashes, AgentDies, DecidedStateIsSaved
<1>3. CASE Processes \/ UNCHANGED vars
  BY <1>3, SnapshotKept DEF Processes, EmitToken, LeaderExits, LeaderForks, DescExits, vars, diskVars,
     memVars, taskVars
<1>4. CASE ObserveExit
  <2>1. CASE dirty'
    BY <2>1 DEF DecidedStateIsSaved
  <2>2. CASE ~dirty'
    <3> DEFINE gone == [inner EXCEPT !.child = 0, !.attached = NoAttached]
    <3>1. inner' = BeginRecovery(gone, Gen + 1)
      BY <1>4, <2>2, Zenon DEF ObserveExit, ExitedWithReadiness, ExitedWithoutReadiness
    <3>2. gone \in SupervisorInner
      BY <1>0, LaunchFields, OwnershipFields, Constructors, Values, Zenon
    <3>3. inner'.st = "Starting"
      <4> HIDE DEF gone
      <4> QED BY <3>1, <3>2, SettledFields, Zenon
    <3> QED BY <3>3 DEF DecidedStateIsSaved
  <2> QED BY <2>1, <2>2
<1>6. CASE ObserveError \/ MonitorEnds \/ Persist
  BY <1>6 DEF ObserveError, MonitorEnds, Persist, SavesSucceed, Mishap,
     DecidedStateIsSaved, diskVars, memVars
<1>5. CASE Recovering \/ Attached \/ Unattached
  BY <1>5 DEF Recovering, RecoverySucceeds, RecoveryExpires, RecoveryStale, Attached, AttachedGap,
     AttachedBack, AttachedExpires, AttachedStale, Unattached, UnattachedGap, UnattachedStale,
     DecidedStateIsSaved, diskVars, memVars
<1> QED
  BY <1>1, <1>2, <1>3, <1>4, <1>5, <1>6, SnapshotOfStarting, SnapshotOfStopping
  DEF Next, Observing

\* A launch that is starting or running holds the reservation, and so does the
\* recovery that may yet find it running.
Live(i) == i.st \in {"Starting", "Running"}
Recovers(i) == i.owner.kind = "recovery"

LiveIsReserved ==
    /\ Live(inner) => session.pending
    /\ Recovers(inner) => inner.child = 0 /\ session.pending

\* A step that keeps what is observed and owned, one that decides that nothing
\* runs, and one that keeps or takes the reservation.
LEMMA ReservationStays ==
  ASSUME LiveIsReserved,
         \/ inner'.st = inner.st /\ session'.pending = session.pending
         \/ ~Live(inner')
         \/ session'.pending,
         \/ ~Recovers(inner')
         \/ inner'.owner = inner.owner /\ inner'.child = inner.child
              /\ session'.pending = session.pending
         \/ inner'.child = 0 /\ session'.pending
  PROVE  LiveIsReserved'
  BY DEF LiveIsReserved, Live, Recovers

LEMMA DecidedIsReserved ==
  ASSUME inner'.st \notin {"Starting", "Running"}, ~Recovers(inner')
  PROVE  LiveIsReserved'
  BY DEF LiveIsReserved, Live

LEMMA NoRecovery ==
    /\ \A i : i.owner = NoOwner => ~Recovers(i)
    /\ \A i, g, e : i.owner = Owner("start", g, e) => ~Recovers(i)
  BY OwnerKinds DEF Recovers

LEMMA ReservationOfStarting ==
  ASSUME TypeOK, OwnersAreConsistent, LiveIsReserved, Starting
  PROVE  LiveIsReserved'
<1>0. inner \in SupervisorInner
  BY DEF TypeOK
<1>1. ASSUME NEW rd \in ReadinessKinds,
             Start(rd) \/ StartPrepareFails(rd) \/ StartContextFails(rd) \/ StartSpawnFails(rd)
      PROVE  LiveIsReserved'
  <2> DEFINE prepared == PreparedInner(rd)
             silent == [prepared EXCEPT !.readiness = "off"]
  <2>1. /\ prepared.owner = NoOwner
        /\ Failed(prepared).owner = NoOwner /\ Failed(prepared).st = "Failed"
        /\ Failed(silent).owner = NoOwner /\ Failed(silent).st = "Failed"
    BY SMT DEF PreparedInner, FreshInner, Failed
  <2>2. \A l : Reserved(l).pending = TRUE
    BY SMT DEF Reserved
  <2>3. CASE Start(rd)
    <3>1. inner'.owner = Owner("start", Gen + 1, inner.epoch + 1)
      BY <2>3, SMT DEF Start, PreparedInner, FreshInner
    <3>2. session'.pending
      BY <2>2, <2>3 DEF Start
    <3> QED BY <3>1, <3>2, NoRecovery, ReservationStays
  <2> HIDE DEF prepared, silent
  <2>4. CASE StartContextFails(rd)
    <3>1. inner' = prepared /\ session'.pending
      BY <2>2, <2>4 DEF StartContextFails, prepared
    <3> QED BY <2>1, <3>1, NoRecovery, ReservationStays
  <2>5. CASE StartSpawnFails(rd)
    <3>1. inner' = Failed(prepared)
      BY <2>5, Zenon DEF StartSpawnFails, prepared
    <3> QED BY <2>1, <3>1, NoRecovery, DecidedIsReserved
  <2>6. CASE StartPrepareFails(rd)
    <3>1. PICK kept \in BOOLEAN :
             /\ session' = [Reserved(0) EXCEPT !.pending = kept]
             /\ inner' = IF kept THEN prepared ELSE Failed(silent)
      BY <2>6, Zenon DEF StartPrepareFails, prepared, silent
    <3>2. CASE kept
      <4>1. session'.pending
        BY <3>1, <3>2, SMT DEF Reserved
      <4> QED BY <2>1, <3>1, <3>2, <4>1, NoRecovery, ReservationStays
    <3>3. CASE ~kept
      BY <2>1, <3>1, <3>3, NoRecovery, DecidedIsReserved
    <3> QED BY <3>2, <3>3
  <2> QED BY <1>1, <2>3, <2>4, <2>5, <2>6
<1>2. CASE StartPersisted \/ StartAborted \/ AbortReturns \/ StarterStale
  BY <1>2, ReservationStays
  DEF StartPersisted, StartAborted, AbortReturns, StarterStale, diskVars, memVars
<1>3. CASE StarterAccept
  <2>1. inner' = inner \/ inner' = [inner EXCEPT !.start_ownership_pending = FALSE]
    BY <1>3, Zenon DEF StarterAccept
  <2>2. inner'.st = inner.st /\ inner'.owner = inner.owner /\ inner'.child = inner.child
    BY <1>0, <2>1, SMT DEF SupervisorInner
  <2> QED BY <1>3, <2>2, ReservationStays DEF StarterAccept, diskVars
<1>4. CASE MarkRunning
  <2> DEFINE quiet == [inner EXCEPT !.owner = NoOwner, !.st = "Running",
                                    !.attached = NoAttached]
             served == [inner EXCEPT !.owner = NoOwner, !.st = "Running", !.epoch = @ + 1,
                                     !.attached = [gen |-> Gen, epoch |-> inner.epoch + 1,
                                                   recovering |-> FALSE]]
  <2>1. inner' = inner \/ (inner.child # 0 /\ inner' \in {quiet, served})
    BY <1>4, Zenon DEF MarkRunning
  <2>2. quiet.owner = NoOwner /\ served.owner = NoOwner
    BY <1>0, SMT DEF SupervisorInner
  <2>3. session' = session
    BY <1>4 DEF MarkRunning, diskVars
  <2> HIDE DEF quiet, served
  <2> QED
    BY <2>1, <2>2, <2>3, NoRecovery, ReservationStays DEF OwnersAreConsistent, ChildIsReserved
<1>5. CASE FailStart
  <2> DEFINE taken == [inner EXCEPT
                         !.child = 0, !.epoch = @ + 1, !.stop_pending = TRUE,
                         !.start_ownership_pending = FALSE, !.recovery = 0,
                         !.owner = NoOwner, !.attached = NoAttached, !.readiness = "off"]
  <2>1. inner' = inner \/ inner' = taken
    BY <1>5, Zenon DEF FailStart
  <2>2. taken.st = inner.st /\ taken.owner = NoOwner
    BY <1>0, SMT DEF SupervisorInner
  <2>3. session' = session
    BY <1>5, Zenon DEF FailStart, diskVars
  <2> QED BY <2>1, <2>2, <2>3, NoRecovery, ReservationStays
<1> QED BY <1>1, <1>2, <1>3, <1>4, <1>5 DEF Starting

LEMMA ReservationOfStopping ==
  ASSUME TypeOK, OwnersAreConsistent, LiveIsReserved, Stopping
  PROVE  LiveIsReserved'
<1>0. inner \in SupervisorInner
  BY DEF TypeOK
<1>1. CASE StopRequest
  <2>1. inner' = [inner EXCEPT
                    !.child = 0, !.epoch = @ + 1, !.stop_pending = TRUE,
                    !.start_ownership_pending = FALSE, !.recovery = 0,
                    !.owner = NoOwner, !.readiness = "off", !.attached = NoAttached]
    BY <1>1, Zenon DEF StopRequest
  <2>2. inner'.st = inner.st /\ inner'.owner = NoOwner
    BY <1>0, <2>1, SMT DEF SupervisorInner
  <2> QED BY <1>1, <2>2, NoRecovery, ReservationStays DEF StopRequest, diskVars
<1>2. CASE StopDescendants
  <2>1. inner' = [inner EXCEPT
                    !.job = 0, !.epoch = @ + 1, !.start_ownership_pending = FALSE,
                    !.recovery = 0, !.owner = NoOwner, !.readiness = "off",
                    !.attached = NoAttached, !.unattached_monitor_started = FALSE,
                    !.st = "Stopped", !.pid = 0]
    BY <1>2, Zenon DEF StopDescendants
  <2>2. inner'.st = "Stopped" /\ inner'.owner = NoOwner
    BY <1>0, <2>1, SMT DEF SupervisorInner
  <2> QED BY <2>2, NoRecovery, DecidedIsReserved
<1>3. CASE StopCancelled
  BY <1>3, ReservationStays DEF StopCancelled, diskVars, memVars
<1>4. ASSUME NEW r \in reapers PROVE session.pending /\ inner.child = 0 /\ inner.owner = NoOwner
  BY DEF OwnersAreConsistent, ReapersAreReserved, ReaperIsSoleOwner
<1>5. ASSUME NEW r \in reapers, NEW st \in {"Failed", "Stopped"}, ReaperFinishes(r, st)
      PROVE  LiveIsReserved'
  <2>1. inner' = [Released(inner) EXCEPT !.st = st, !.pid = 0, !.job = 0]
    BY <1>5, Zenon DEF ReaperFinishes
  <2>2. inner'.st = st /\ inner'.owner = inner.owner
    BY <1>0, <2>1, SMT DEF Released, SupervisorInner
  <2> QED BY <1>4, <2>2, NoRecovery, DecidedIsReserved
<1>6. ASSUME NEW r \in reapers, FailSawExit(r) PROVE LiveIsReserved'
  <2> DEFINE freed == [inner EXCEPT !.stop_pending = FALSE, !.readiness = r.readiness]
  <2>1. inner' = BeginRecovery(freed, Gen) /\ session' = session
    BY <1>6, Zenon DEF FailSawExit, diskVars
  <2>2. inner'.child = inner.child
    BY <1>0, <2>1, SMT DEF BeginRecovery, SupervisorInner
  <2> HIDE DEF freed
  <2> QED BY <1>4, <2>1, <2>2, ReservationStays
<1>7. ASSUME NEW r \in reapers, ReaperDrainFails(r) PROVE LiveIsReserved'
  <2>1. \/ inner' = [inner EXCEPT !.stop_pending = FALSE, !.job = 0]
        \/ inner' = [inner EXCEPT !.job = 0]
    BY <1>7, Zenon DEF ReaperDrainFails
  <2>2. inner'.owner = inner.owner
    <3>1. CASE inner' = [inner EXCEPT !.stop_pending = FALSE, !.job = 0]
      BY <1>0, <3>1, SMT DEF SupervisorInner
    <3>2. CASE inner' = [inner EXCEPT !.job = 0]
      BY <1>0, <3>2, SMT DEF SupervisorInner
    <3> QED BY <2>1, <3>1, <3>2
  <2>3. session' = session
    BY <1>7, Zenon DEF ReaperDrainFails, diskVars
  <2> QED BY <1>4, <2>2, <2>3, NoRecovery, ReservationStays
<1>8. ASSUME NEW r \in reapers, RestoreStopChild(r) PROVE LiveIsReserved'
  <2> DEFINE e == inner.epoch + 1
             back == [inner EXCEPT !.child = r.launch, !.stop_pending = FALSE,
                                   !.readiness = r.readiness]
             attached == [back EXCEPT !.epoch = e,
                                      !.attached = [gen |-> r.gen, epoch |-> e,
                                                    recovering |-> r.attached.recovering]]
             owned == [back EXCEPT !.epoch = e, !.attached = NoAttached,
                                   !.start_ownership_pending = TRUE,
                                   !.owner = Owner("start", r.gen, e)]
             silent == [back EXCEPT !.attached = NoAttached]
  <2>1. inner' \in {attached, owned, silent} /\ session' = session
    BY <1>8, Zenon DEF RestoreStopChild, diskVars
  <2>2. /\ attached.owner = inner.owner /\ silent.owner = inner.owner
        /\ owned.owner = Owner("start", r.gen, e)
    BY <1>0, SMT DEF SupervisorInner
  <2> HIDE DEF attached, owned, silent
  <2> QED BY <1>4, <2>1, <2>2, NoRecovery, ReservationStays
<1> QED
  BY <1>1, <1>2, <1>3, <1>5, <1>6, <1>7, <1>8
  DEF Stopping, FinishStop, FinishFail, ReaperFaults, FailReapers, StopReapers

\* What a task sees of a launch: its end, a gap, and the end of the gap.
LEMMA ReservationOfMonitors ==
  ASSUME TypeOK, OwnersAreConsistent, LiveIsReserved,
         Observing \/ Recovering \/ Attached \/ Unattached
  PROVE  LiveIsReserved'
<1>0. inner \in SupervisorInner /\ session \in Sessions
  BY DEF TypeOK
<1>1. Rotate => session'.pending
  BY <1>0, SMT DEF Rotate, Sessions
<1>2. CASE ObserveExit
  <2> DEFINE gone == [inner EXCEPT !.child = 0, !.attached = NoAttached]
             kept == [inner EXCEPT !.child = 0, !.attached = NoAttached, !.recovery = 0,
                                   !.unattached_monitor_started = FALSE]
  <2>1. \/ session'.pending /\ inner' = BeginRecovery(gone, Gen + 1)
        \/ inner' = FailedNoPid(kept) \/ inner' = FailedNoPid(gone) \/ inner' = Failed(gone)
    BY <1>1, <1>2, Zenon DEF ObserveExit, ExitedWithReadiness, ExitedWithoutReadiness
  <2>2. gone \in SupervisorInner /\ kept \in SupervisorInner
    BY <1>0, LaunchFields, OwnershipFields, Constructors, Values, Zenon
  <2>3. gone.child = 0 /\ gone.owner = inner.owner /\ kept.owner = inner.owner
    BY <1>0, SMT DEF SupervisorInner
  <2>4. ~Recovers(inner)
    BY <1>2 DEF ObserveExit, LiveIsReserved
  <2> HIDE DEF gone, kept
  <2>5. CASE session'.pending /\ inner' = BeginRecovery(gone, Gen + 1)
    BY <2>2, <2>3, <2>5, SettledFields, ReservationStays
  <2>6. CASE inner' = FailedNoPid(kept) \/ inner' = FailedNoPid(gone) \/ inner' = Failed(gone)
    <3>1. inner'.st = "Failed" /\ inner'.owner = inner.owner
      BY <2>2, <2>3, <2>6, SettledFields
    <3> QED BY <2>4, <3>1, DecidedIsReserved DEF Recovers
  <2> QED BY <2>1, <2>5, <2>6
<1>3. CASE ObserveError
  <2> DEFINE seen == [inner EXCEPT !.recovery = 0, !.attached = NoAttached]
  <2>1. inner' = Failed(seen) /\ inner.child # 0
    BY <1>3, Zenon DEF ObserveError
  <2>2. seen \in SupervisorInner
    BY <1>0, LaunchFields, OwnershipFields, Constructors, Values, Zenon
  <2>3. seen.owner = inner.owner
    BY <1>0, SMT DEF SupervisorInner
  <2> HIDE DEF seen
  <2>4. inner'.st = "Failed" /\ inner'.owner = inner.owner
    BY <2>1, <2>2, <2>3, SettledFields
  <2> QED BY <2>1, <2>4, DecidedIsReserved DEF Recovers, LiveIsReserved
<1>4. CASE MonitorEnds \/ Persist \/ RecoveryStale \/ AttachedStale \/ UnattachedStale
  BY <1>4, ReservationStays
  DEF MonitorEnds, Persist, RecoveryStale, AttachedStale, UnattachedStale, diskVars, memVars
<1>5. CASE RecoverySucceeds
  <2>1. Recovers(inner) /\ session' = session
    BY <1>5, OwnerKinds DEF RecoverySucceeds, RecoveryIsCurrent, Recovers, diskVars
  <2>2. inner' = [inner EXCEPT !.st = "Running", !.pid = 0, !.recovery = 0, !.owner = NoOwner,
                               !.unattached_monitor_started = TRUE]
    BY <1>5, Zenon DEF RecoverySucceeds
  <2>3. inner'.owner = NoOwner
    BY <1>0, <2>2, SMT DEF SupervisorInner
  <2> QED BY <2>1, <2>3, NoRecovery, ReservationStays DEF LiveIsReserved
<1>6. CASE RecoveryExpires
  <2> DEFINE over == [inner EXCEPT !.recovery = 0, !.owner = NoOwner,
                                   !.unattached_monitor_started = FALSE]
  <2>1. inner' = FailedNoPid(over)
    BY <1>6, Zenon DEF RecoveryExpires
  <2>2. over \in SupervisorInner
    BY <1>0, LaunchFields, OwnershipFields, Constructors, Values, Zenon
  <2>3. over.owner = NoOwner
    BY <1>0, SMT DEF SupervisorInner
  <2> HIDE DEF over
  <2> QED BY <2>1, <2>2, <2>3, SettledFields, NoRecovery, DecidedIsReserved
<1>7. CASE AttachedGap \/ AttachedBack \/ AttachedExpires
  <2>1. /\ session.pending /\ (session' = session \/ session'.pending)
        /\ ~Recovers(inner)
    BY <1>1, <1>7 DEF AttachedGap, AttachedBack, AttachedExpires, AttachedIsCurrent, diskVars,
       OwnersAreConsistent, ChildIsReserved, LiveIsReserved
  <2>2. inner'.owner \in {inner.owner, NoOwner}
    <3> DEFINE gap == [inner EXCEPT
                          !.st = "Starting", !.recovery = 0, !.owner = NoOwner,
                          !.unattached_monitor_started = FALSE, !.epoch = @ + 1,
                          !.attached = [gen |-> Gen + 1, epoch |-> inner.epoch + 1,
                                        recovering |-> TRUE]]
               back == [inner EXCEPT !.st = "Running", !.attached.recovering = FALSE]
               lost == Failed([inner EXCEPT !.attached = NoAttached])
    <3>1. inner' \in {gap, back, lost}
      BY <1>7, Zenon DEF AttachedGap, AttachedBack, AttachedExpires
    <3>2. gap.owner = NoOwner
      BY <1>0, SMT DEF SupervisorInner
    <3>3. back.owner = inner.owner
      BY <1>0, SMT DEF SupervisorInner
    <3>4. lost.owner = inner.owner
      BY <1>0, SMT DEF SupervisorInner, Failed
    <3> HIDE DEF gap, back, lost
    <3> QED BY <3>1, <3>2, <3>3, <3>4
  <2>3. ~Recovers(inner')
    BY <2>1, <2>2, NoRecovery DEF Recovers
  <2> QED BY <2>1, <2>3, ReservationStays
<1>8. CASE UnattachedGap
  <2> DEFINE unclaimed == [inner EXCEPT !.unattached_monitor_started = FALSE]
  <2>1. /\ session.pending /\ (session' = session \/ session'.pending)
        /\ inner.child = 0
        /\ inner' = BeginRecovery(unclaimed, Gen + 1) \/ inner' = Failed(unclaimed)
    BY <1>1, <1>8 DEF UnattachedGap, UnattachedIsCurrent, LiveIsReserved, Live
  <2>2. unclaimed \in SupervisorInner
    BY <1>0, OwnershipFields, Constructors, Values, Zenon
  <2>3. unclaimed.child = inner.child /\ Failed(unclaimed).child = inner.child
    BY <1>0, SMT DEF SupervisorInner, Failed
  <2> HIDE DEF unclaimed
  <2>4. inner'.child = 0 /\ session'.pending
    BY <2>1, <2>2, <2>3, SettledFields
  <2> QED BY <2>4, ReservationStays
<1> QED
  BY <1>2, <1>3, <1>4, <1>5, <1>6, <1>7, <1>8 DEF Observing, Recovering, Attached, Unattached

LEMMA ReservationStep ==
  ASSUME TypeOK, OwnersAreConsistent, LiveIsReserved, [Next]_vars
  PROVE  LiveIsReserved'
<1>0. session \in Sessions
  BY DEF TypeOK
<1>1. CASE Boot
  <2>0. inner'.child = 0
    BY <1>1, BootIsUnowned DEF Unowned
  <2>1. CASE session'.pending
    BY <2>0, <2>1, ReservationStays
  <2>2. CASE ~session'.pending
    <3>1. inner'.st \in {"Detached", "Stopped", "Failed"} /\ inner'.owner = NoOwner
      <4>1. Rotate => session'.pending
        BY <1>0, SMT DEF Rotate, Sessions
      <4>2. BootTerminal =>
              inner'.st \in {"Detached", "Stopped", "Failed"} /\ inner'.owner = NoOwner
        BY SMT DEF BootTerminal, FreshInner
      <4>3. BootTokenBound => inner'.st = "Failed" /\ inner'.owner = NoOwner
        BY SMT DEF BootTokenBound, FreshInner
      <4>4. BootReattachFails => inner'.st = "Failed" /\ inner'.owner = NoOwner
        BY SMT DEF BootReattachFails, FreshInner
      <4>5. BootAbandoned => inner'.st = "Failed" /\ inner'.owner = NoOwner
        BY SMT DEF BootAbandoned, FreshInner
      <4>6. ASSUME NEW rd, BootUnattached(rd)
            PROVE  inner'.st \in {"Failed", "Stopped"} /\ inner'.owner = NoOwner
        BY <4>6, SMT DEF BootUnattached, FreshInner
      <4>7. ~BootReattach /\ ~BootRecovering
        BY <2>2, <4>1 DEF BootReattach, BootRecovering
      <4> QED BY <1>1, <4>2, <4>3, <4>4, <4>5, <4>6, <4>7, Zenon DEF Boot
    <3> QED BY <3>1, NoRecovery, DecidedIsReserved
  <2> QED BY <2>1, <2>2
<1>2. CASE Crash \/ StartCrashes
  <2>1. inner'.st = "Detached" /\ inner'.owner = NoOwner
    BY <1>2, SMT DEF Crash, StartCrashes, AgentDies, FreshInner
  <2> QED BY <2>1, NoRecovery, DecidedIsReserved
<1>3. CASE Processes \/ UNCHANGED vars
  BY <1>3, ReservationStays DEF Processes, EmitToken, LeaderExits, LeaderForks, DescExits, vars,
     diskVars, memVars, taskVars
<1> QED
  BY <1>1, <1>2, <1>3, ReservationOfStarting, ReservationOfStopping, ReservationOfMonitors
  DEF Next

\* A launch that is starting or running is never left to the next Agent as one
\* that ended, whatever fails, also when a write of the snapshot fails or is
\* dropped.  (with_graceful_wait, persist_if_current, rotate_unattached_session)
THEOREM LiveLaunchStaysKnown == Spec => []LiveLaunchIsKnown
<1>1. Init => LiveIsReserved
  BY SMT DEF Init, LiveIsReserved, Live, Recovers, FreshInner, NoOwner
<1>2. TypeOK /\ OwnersAreConsistent /\ LiveIsReserved /\ [Next]_vars => LiveIsReserved'
  BY ReservationStep
<1>3. LiveIsReserved => LiveLaunchIsKnown
  BY DEF LiveIsReserved, Live, LiveLaunchIsKnown, BootState
<1> QED BY <1>1, <1>2, <1>3, TypeCorrect, OwnersConsistent, PTL DEF Spec

\* When saves succeed, a decided state whose write is not due is the one on disk,
\* whatever else fails: processes, kills, drains, polls, rotations, the Agent.
\* (persist_if_current and its callers)
THEOREM SnapshotStaysCurrent ==
  ASSUME SavesSucceed PROVE Spec => []DurableStateIsCurrent
<1>1. Init => DecidedStateIsSaved
  BY DEF Init, DecidedStateIsSaved
<1>2. TypeOK /\ DecidedStateIsSaved /\ [Next]_vars => DecidedStateIsSaved'
  BY SnapshotStep
<1> QED BY <1>1, <1>2, TypeCorrect, LiveLaunchStaysKnown, PTL DEF Spec, DurableStateIsCurrent

-------------------------------------------------------------------------------
(* Who watches: no child without a monitor, no stop without an owner.       *)

\* The one failure that takes the owner of a stop away and leaves the flag.
JobsEndWhenAsked == Windows => "terminate" \notin Mishaps

StopIsOwned == JobsEndWhenAsked => StopPendingHasReaper

LEMMA NothingToWatch ==
  ASSUME inner'.child = 0 PROVE ChildIsWatched'
  BY DEF ChildIsWatched

LEMMA WatchStays ==
  ASSUME ChildIsWatched, inner'.child = inner.child, session'.gen = session.gen,
         inner'.start_ownership_pending = inner.start_ownership_pending, monitor' = monitor
  PROVE  ChildIsWatched'
  BY DEF ChildIsWatched, Gen

LEMMA StopStays ==
  ASSUME StopIsOwned, inner'.stop_pending => inner.stop_pending, reapers' = reapers
  PROVE  StopIsOwned'
  BY DEF StopIsOwned, StopPendingHasReaper

LEMMA NothingToStop ==
  ASSUME ~inner'.stop_pending PROVE StopIsOwned'
  BY DEF StopIsOwned, StopPendingHasReaper

\* Ending or unsettling a run disturbs neither the child nor a pending stop.
LEMMA ObservedFields ==
  ASSUME NEW i \in SupervisorInner
  PROVE  /\ \A g : /\ BeginRecovery(i, g).child = i.child
                   /\ BeginRecovery(i, g).stop_pending = i.stop_pending
         /\ Failed(i).child = i.child /\ Failed(i).stop_pending = i.stop_pending
         /\ Failed(i).start_ownership_pending = i.start_ownership_pending
         /\ FailedNoPid(i).child = i.child /\ FailedNoPid(i).stop_pending = i.stop_pending
         /\ FailedNoPid(i).start_ownership_pending = i.start_ownership_pending
<1>1. \A g : /\ BeginRecovery(i, g).child = i.child
             /\ BeginRecovery(i, g).stop_pending = i.stop_pending
  BY SMT DEF BeginRecovery, SupervisorInner
<1>2. /\ Failed(i).child = i.child /\ Failed(i).stop_pending = i.stop_pending
      /\ Failed(i).start_ownership_pending = i.start_ownership_pending
  BY SMT DEF Failed, SupervisorInner
<1>3. /\ FailedNoPid(i).child = i.child /\ FailedNoPid(i).stop_pending = i.stop_pending
      /\ FailedNoPid(i).start_ownership_pending = i.start_ownership_pending
  BY SMT DEF FailedNoPid, SupervisorInner
<1> QED BY <1>1, <1>2, <1>3

\* Starting a launch, and the owner that sees it through.
LEMMA StartingIsWatched ==
  ASSUME TypeOK, OwnersAreConsistent, ChildIsWatched, StopIsOwned, Starting
  PROVE  ChildIsWatched' /\ StopIsOwned'
<1>0. inner \in SupervisorInner
  BY DEF TypeOK
<1>1. ASSUME NEW rd \in ReadinessKinds,
             Start(rd) \/ StartPrepareFails(rd) \/ StartContextFails(rd) \/ StartSpawnFails(rd)
      PROVE  ChildIsWatched' /\ StopIsOwned'
  <2> DEFINE prepared == PreparedInner(rd)
             silent == [prepared EXCEPT !.readiness = "off"]
  <2>1. /\ ~prepared.stop_pending /\ prepared.child = 0
        /\ ~silent.stop_pending /\ silent.child = 0
        /\ ~Failed(prepared).stop_pending /\ Failed(prepared).child = 0
        /\ ~Failed(silent).stop_pending /\ Failed(silent).child = 0
    BY SMT DEF PreparedInner, FreshInner, Failed
  <2>2. CASE Start(rd)
    <3>1. inner'.start_ownership_pending /\ ~inner'.stop_pending
      BY <2>2, SMT DEF Start, PreparedInner, FreshInner
    <3> QED BY <3>1, NothingToStop DEF ChildIsWatched
  <2>3. CASE StartPrepareFails(rd) \/ StartContextFails(rd) \/ StartSpawnFails(rd)
    <3>1. inner' \in {prepared, Failed(prepared), Failed(silent)}
      BY <2>3, Zenon DEF StartPrepareFails, StartContextFails, StartSpawnFails
    <3> QED BY <2>1, <3>1, NothingToStop, NothingToWatch
  <2> QED BY <1>1, <2>2, <2>3
<1>2. CASE StartPersisted \/ StartAborted \/ AbortReturns \/ StarterStale
  <2>1. UNCHANGED <<inner, session, monitor, reapers>>
    BY <1>2 DEF StartPersisted, StartAborted, AbortReturns, StarterStale, diskVars, memVars
  <2> QED BY <2>1, WatchStays, StopStays
<1>3. CASE StarterAccept
  <2>1. /\ session' = session /\ reapers' = reapers
        /\ \/ inner' = inner /\ monitor' = monitor
           \/ monitor' = Gen /\ inner' = [inner EXCEPT !.start_ownership_pending = FALSE]
    BY <1>3, Zenon DEF StarterAccept, diskVars
  <2>2. CASE inner' = inner /\ monitor' = monitor
    BY <2>1, <2>2, WatchStays, StopStays
  <2>3. CASE monitor' = Gen /\ inner' = [inner EXCEPT !.start_ownership_pending = FALSE]
    <3>1. inner'.stop_pending = inner.stop_pending
      BY <1>0, <2>3, SMT DEF SupervisorInner
    <3> QED BY <2>1, <2>3, <3>1, StopStays DEF ChildIsWatched, Gen
  <2> QED BY <2>1, <2>2, <2>3
<1>4. CASE MarkRunning
  <2> DEFINE silent == [inner EXCEPT !.owner = NoOwner, !.st = "Running",
                                     !.attached = NoAttached]
             served == [inner EXCEPT !.owner = NoOwner, !.st = "Running", !.epoch = @ + 1,
                                     !.attached = [gen |-> Gen, epoch |-> inner.epoch + 1,
                                                   recovering |-> FALSE]]
  <2>1. /\ session' = session /\ reapers' = reapers /\ monitor' = monitor
        /\ inner' \in {inner, silent, served}
    BY <1>4, Zenon DEF MarkRunning, diskVars
  <2>2. /\ inner'.child = inner.child /\ inner'.stop_pending = inner.stop_pending
        /\ inner'.start_ownership_pending = inner.start_ownership_pending
    <3>1. CASE inner' = silent
      BY <1>0, <3>1, SMT DEF SupervisorInner
    <3>2. CASE inner' = served
      BY <1>0, <3>2, SMT DEF SupervisorInner
    <3> QED BY <2>1, <3>1, <3>2
  <2> QED BY <2>1, <2>2, WatchStays, StopStays
<1>5. CASE FailStart
  <2> DEFINE taken == [inner EXCEPT
                         !.child = 0, !.epoch = @ + 1, !.stop_pending = TRUE,
                         !.start_ownership_pending = FALSE, !.recovery = 0,
                         !.owner = NoOwner, !.attached = NoAttached, !.readiness = "off"]
  <2>1. session' = session /\ monitor' = monitor
    BY <1>5, Zenon DEF FailStart, diskVars
  <2>2. \/ inner' = inner /\ reapers' = reapers
        \/ inner' = taken /\ reapers' # {}
    <3>1. \/ inner' = inner /\ reapers' = reapers
          \/ inner' = taken /\ \E q : reapers' = reapers \cup {q}
      BY <1>5, Zenon DEF FailStart
    <3>2. \A q : reapers \cup {q} # {}
      OBVIOUS
    <3> HIDE DEF taken
    <3> QED BY <3>1, <3>2
  <2>3. taken.child = 0
    BY <1>0, SMT DEF SupervisorInner
  <2>4. CASE inner' = inner /\ reapers' = reapers
    BY <2>1, <2>4, WatchStays, StopStays
  <2>5. CASE inner' = taken /\ reapers' # {}
    BY <2>3, <2>5, NothingToWatch DEF StopIsOwned, StopPendingHasReaper
  <2> QED BY <2>2, <2>4, <2>5
<1> QED BY <1>1, <1>2, <1>3, <1>4, <1>5 DEF Starting

\* A stop takes the child with its monitor's business, and is its own owner.
LEMMA StoppingIsWatched ==
  ASSUME TypeOK, OwnersAreConsistent, ChildIsWatched, StopIsOwned, Stopping
  PROVE  ChildIsWatched' /\ StopIsOwned'
<1>0. inner \in SupervisorInner
  BY DEF TypeOK
<1>1. CASE StopRequest
  <2>1. inner'.child = 0
    BY <1>0, <1>1, SMT DEF StopRequest, SupervisorInner
  <2>2. reapers' # {}
    BY <1>1, Zenon DEF StopRequest
  <2> QED BY <2>1, <2>2, NothingToWatch DEF StopIsOwned, StopPendingHasReaper
<1>2. CASE StopDescendants
  <2>1. inner'.child = inner.child /\ inner'.stop_pending = inner.stop_pending
    <3>1. inner' = [inner EXCEPT
                    !.job = 0, !.epoch = @ + 1, !.start_ownership_pending = FALSE,
                    !.recovery = 0, !.owner = NoOwner, !.readiness = "off",
                    !.attached = NoAttached, !.unattached_monitor_started = FALSE,
                    !.st = "Stopped", !.pid = 0]
      BY <1>2, Zenon DEF StopDescendants
    <3> QED BY <1>0, <3>1, SMT DEF SupervisorInner
  <2>2. inner.child = 0 /\ ~inner.stop_pending
    BY <1>2, Zenon DEF StopDescendants
  <2> QED BY <2>1, <2>2, NothingToWatch, NothingToStop
<1>3. CASE StopCancelled
  BY <1>3, WatchStays, StopStays DEF StopCancelled, diskVars, memVars
<1>4. ASSUME NEW r \in reapers, Holds(r),
             \/ FailSawExit(r) \/ ReaperFinishes(r, "Failed") \/ ReaperFinishes(r, "Stopped")
             \/ ReaperDrainFails(r) \/ RestoreStopChild(r)
      PROVE  ChildIsWatched' /\ StopIsOwned'
  <2>0. inner.child = 0
    BY DEF OwnersAreConsistent, ReaperIsSoleOwner
  <2>1. CASE FailSawExit(r)
    <3> DEFINE freed == [inner EXCEPT !.stop_pending = FALSE, !.readiness = r.readiness]
    <3>1. inner' = BeginRecovery(freed, Gen)
      BY <2>1, Zenon DEF FailSawExit
    <3>2. inner'.child = 0 /\ ~inner'.stop_pending
      BY <1>0, <2>0, <3>1, SMT DEF BeginRecovery, SupervisorInner
    <3> QED BY <3>2, NothingToWatch, NothingToStop
  <2>2. ASSUME NEW st, ReaperFinishes(r, st) PROVE ChildIsWatched' /\ StopIsOwned'
    <3>1. inner'.child = 0 /\ ~inner'.stop_pending
      BY <1>0, <2>0, <2>2, SMT DEF ReaperFinishes, Released, SupervisorInner
    <3> QED BY <3>1, NothingToWatch, NothingToStop
  <2>3. CASE ReaperDrainFails(r)
    <3>1. \/ inner' = [inner EXCEPT !.stop_pending = FALSE, !.job = 0]
          \/ inner' = [inner EXCEPT !.job = 0] /\ ~JobsEndWhenAsked
      BY <2>3, Zenon DEF ReaperDrainFails, JobsEndWhenAsked, Mishap
    <3>2. CASE inner' = [inner EXCEPT !.stop_pending = FALSE, !.job = 0]
      <4>1. inner'.child = 0 /\ ~inner'.stop_pending
        BY <1>0, <2>0, <3>2, SMT DEF SupervisorInner
      <4> QED BY <4>1, NothingToWatch, NothingToStop
    <3>3. CASE inner' = [inner EXCEPT !.job = 0] /\ ~JobsEndWhenAsked
      <4>1. inner'.child = 0
        BY <1>0, <2>0, <3>3, SMT DEF SupervisorInner
      <4> QED BY <3>3, <4>1, NothingToWatch DEF StopIsOwned
    <3> QED BY <3>1, <3>2, <3>3
  <2>4. CASE RestoreStopChild(r)
    <3> DEFINE e == inner.epoch + 1
               back == [inner EXCEPT !.child = r.launch, !.stop_pending = FALSE,
                                     !.readiness = r.readiness]
               again == [gen |-> r.gen, epoch |-> e, recovering |-> r.attached.recovering]
    <3>1. \/ inner' = [back EXCEPT !.epoch = e, !.attached = again]
          \/ inner' = [back EXCEPT !.attached = NoAttached]
          \/ inner' = [back EXCEPT !.epoch = e, !.attached = NoAttached,
                                   !.start_ownership_pending = TRUE,
                                   !.owner = Owner("start", r.gen, e)]
      BY <2>4, Zenon DEF RestoreStopChild
    <3>2. ~inner'.stop_pending
      <4>1. CASE inner' = [back EXCEPT !.epoch = e, !.attached = again]
        BY <1>0, <4>1, SMT DEF SupervisorInner
      <4>2. CASE inner' = [back EXCEPT !.attached = NoAttached]
        BY <1>0, <4>2, SMT DEF SupervisorInner
      <4>3. CASE inner' = [back EXCEPT !.epoch = e, !.attached = NoAttached,
                                       !.start_ownership_pending = TRUE,
                                       !.owner = Owner("start", r.gen, e)]
        BY <1>0, <4>3, SMT DEF SupervisorInner
      <4> QED BY <3>1, <4>1, <4>2, <4>3
    <3>3. monitor' = Gen'
      BY <1>4, <2>4 DEF RestoreStopChild, Holds, Gen, diskVars
    <3> QED BY <3>2, <3>3, NothingToStop DEF ChildIsWatched
  <2> QED BY <1>4, <2>1, <2>2, <2>3, <2>4
<1> QED
  BY <1>1, <1>2, <1>3, <1>4
  DEF Stopping, FinishStop, FinishFail, ReaperFaults, FailReapers, StopReapers

\* The monitors themselves: one ends only when another has taken its place.
LEMMA MonitorsWatch ==
  ASSUME TypeOK, OwnersAreConsistent, ChildIsWatched, StopIsOwned,
         Observing \/ Recovering \/ Attached \/ Unattached
  PROVE  ChildIsWatched' /\ StopIsOwned'
<1>0. inner \in SupervisorInner
  BY DEF TypeOK
<1>1. reapers' = reapers
  BY DEF Observing, ObserveExit, ObserveError, MonitorEnds, Persist, Recovering, RecoverySucceeds,
         RecoveryExpires, RecoveryStale, Attached, AttachedGap, AttachedBack, AttachedExpires,
         AttachedStale, Unattached, UnattachedGap, UnattachedStale
<1>2. CASE Persist \/ RecoveryStale \/ AttachedStale \/ UnattachedStale
  <2>1. UNCHANGED <<inner, session.gen, monitor>>
    BY <1>2 DEF Persist, RecoveryStale, AttachedStale, UnattachedStale, diskVars, memVars
  <2> QED BY <1>1, <2>1, WatchStays, StopStays
<1>3. CASE MonitorEnds
  <2>1. inner' = inner /\ session' = session /\ (monitor # Gen \/ inner.child = 0)
    BY <1>3 DEF MonitorEnds, diskVars, memVars
  <2> QED BY <1>1, <2>1, StopStays DEF ChildIsWatched, Gen
<1>4. CASE ObserveExit
  <2> DEFINE gone == [inner EXCEPT !.child = 0, !.attached = NoAttached]
             kept == [inner EXCEPT !.child = 0, !.attached = NoAttached, !.recovery = 0,
                                   !.unattached_monitor_started = FALSE]
  <2>1. inner' \in {BeginRecovery(gone, Gen + 1), FailedNoPid(kept), Failed(gone),
                    FailedNoPid(gone)}
    BY <1>4, Zenon DEF ObserveExit, ExitedWithReadiness, ExitedWithoutReadiness
  <2>2. /\ gone \in SupervisorInner /\ kept \in SupervisorInner
    BY <1>0, LaunchFields, OwnershipFields, Constructors, Values, Zenon
  <2>3. /\ gone.child = 0 /\ gone.stop_pending = inner.stop_pending
        /\ kept.child = 0 /\ kept.stop_pending = inner.stop_pending
    BY <1>0, SMT DEF SupervisorInner
  <2> HIDE DEF gone, kept
  <2>4. inner'.child = 0 /\ inner'.stop_pending = inner.stop_pending
    BY <2>1, <2>2, <2>3, ObservedFields
  <2> QED BY <1>1, <2>4, NothingToWatch, StopStays
<1>5. CASE ObserveError
  <2> DEFINE lost == [inner EXCEPT !.recovery = 0, !.attached = NoAttached]
  <2>1. inner' = Failed(lost) /\ session' = session /\ monitor' = monitor
    BY <1>5, Zenon DEF ObserveError, diskVars
  <2>2. /\ inner'.child = inner.child /\ inner'.stop_pending = inner.stop_pending
        /\ inner'.start_ownership_pending = inner.start_ownership_pending
    BY <1>0, <2>1, SMT DEF SupervisorInner, Failed
  <2> QED BY <1>1, <2>1, <2>2, WatchStays, StopStays
<1>6. CASE RecoverySucceeds \/ RecoveryExpires
  <2>1. inner.child = 0
    BY <1>6, Zenon DEF RecoverySucceeds, RecoveryExpires, RecoveryIsCurrent
  <2>2. inner'.child = inner.child /\ inner'.stop_pending = inner.stop_pending
    <3>1. CASE RecoverySucceeds
      BY <1>0, <3>1, SMT DEF RecoverySucceeds, SupervisorInner
    <3>2. CASE RecoveryExpires
      BY <1>0, <3>2, SMT DEF RecoveryExpires, FailedNoPid, SupervisorInner
    <3> QED BY <1>6, <3>1, <3>2
  <2> QED BY <1>1, <2>1, <2>2, NothingToWatch, StopStays
<1>7. CASE AttachedGap
  <2> DEFINE again == [gen |-> Gen + 1, epoch |-> inner.epoch + 1, recovering |-> TRUE]
             moved == [inner EXCEPT !.st = "Starting", !.recovery = 0,
                                    !.owner = NoOwner,
                                    !.unattached_monitor_started = FALSE,
                                    !.epoch = inner.epoch + 1, !.attached = again]
             over == [inner EXCEPT !.attached = NoAttached]
  <2>1. \/ inner' = moved /\ Rotate /\ monitor' = Gen + 1
        \/ inner' = Failed(over) /\ session' = session /\ monitor' = monitor
    BY <1>7, Zenon DEF AttachedGap
  <2>2. CASE inner' = moved /\ Rotate /\ monitor' = Gen + 1
    <3>1. inner'.stop_pending = inner.stop_pending
      BY <1>0, <2>2, SMT DEF SupervisorInner
    <3>2. session'.gen = session.gen + 1
      BY <2>2, SMT DEF Rotate, TypeOK, Sessions
    <3> QED BY <1>1, <2>2, <3>1, <3>2, StopStays DEF ChildIsWatched, Gen
  <2>3. CASE inner' = Failed(over) /\ session' = session /\ monitor' = monitor
    <3>1. /\ inner'.child = inner.child /\ inner'.stop_pending = inner.stop_pending
          /\ inner'.start_ownership_pending = inner.start_ownership_pending
      BY <1>0, <2>3, SMT DEF SupervisorInner, Failed
    <3> QED BY <1>1, <2>3, <3>1, WatchStays, StopStays
  <2> QED BY <2>1, <2>2, <2>3
<1>8. CASE AttachedBack \/ AttachedExpires
  <2>1. session' = session /\ monitor' = monitor
    BY <1>8 DEF AttachedBack, AttachedExpires, diskVars
  <2>2. /\ inner'.child = inner.child /\ inner'.stop_pending = inner.stop_pending
        /\ inner'.start_ownership_pending = inner.start_ownership_pending
    <3>1. CASE AttachedBack
      BY <1>0, <3>1, SMT DEF AttachedBack, SupervisorInner
    <3>2. CASE AttachedExpires
      BY <1>0, <3>2, SMT DEF AttachedExpires, Failed, SupervisorInner
    <3> QED BY <1>8, <3>1, <3>2
  <2> QED BY <1>1, <2>1, <2>2, WatchStays, StopStays
<1>9. CASE UnattachedGap
  <2> DEFINE unclaimed == [inner EXCEPT !.unattached_monitor_started = FALSE]
  <2>1. /\ inner.child = 0
        /\ \/ inner' = BeginRecovery(unclaimed, Gen + 1)
           \/ inner' = Failed(unclaimed)
    BY <1>9, Zenon DEF UnattachedGap, UnattachedIsCurrent
  <2>2. unclaimed \in SupervisorInner
    BY <1>0, OwnershipFields, Values, Zenon
  <2>3. unclaimed.child = inner.child /\ unclaimed.stop_pending = inner.stop_pending
    BY <1>0, SMT DEF SupervisorInner
  <2> HIDE DEF unclaimed
  <2>4. inner'.child = 0 /\ inner'.stop_pending = inner.stop_pending
    BY <2>1, <2>2, <2>3, ObservedFields
  <2> QED BY <1>1, <2>4, NothingToWatch, StopStays
<1> QED
  BY <1>2, <1>3, <1>4, <1>5, <1>6, <1>7, <1>8, <1>9
  DEF Observing, Recovering, Attached, Unattached

LEMMA WatchStep ==
  ASSUME TypeOK, OwnersAreConsistent, ChildIsWatched, StopIsOwned, [Next]_vars
  PROVE  ChildIsWatched' /\ StopIsOwned'
<1>1. CASE Boot
  <2>1. inner'.child = 0 /\ ~inner'.stop_pending
    BY <1>1, BootIsUnowned DEF Unowned
  <2> QED BY <2>1, NothingToWatch, NothingToStop
<1>2. CASE Crash \/ StartCrashes
  <2>1. inner' = FreshInner("Detached")
    BY <1>2 DEF Crash, StartCrashes, AgentDies
  <2>2. inner'.child = 0 /\ ~inner'.stop_pending
    BY <2>1, FreshFields, Values
  <2> QED BY <2>2, NothingToWatch, NothingToStop
<1>3. CASE Processes \/ UNCHANGED vars
  <2>1. UNCHANGED <<inner, session, monitor, reapers>>
    BY <1>3 DEF Processes, EmitToken, LeaderExits, LeaderForks, DescExits, vars, diskVars,
                memVars, taskVars
  <2> QED BY <2>1, WatchStays, StopStays
<1> QED
  BY <1>1, <1>2, <1>3, StartingIsWatched, StoppingIsWatched, MonitorsWatch DEF Next

LEMMA Watched == Spec => [](ChildIsWatched /\ StopIsOwned)
<1>1. Init => ChildIsWatched /\ StopIsOwned
  <2>1. Init => inner.child = 0 /\ ~inner.stop_pending
    BY FreshFields, Values DEF Init
  <2> QED BY <2>1 DEF ChildIsWatched, StopIsOwned, StopPendingHasReaper
<1>2. /\ TypeOK /\ OwnersAreConsistent /\ ChildIsWatched /\ StopIsOwned
      /\ [Next]_vars
      => ChildIsWatched' /\ StopIsOwned'
  BY WatchStep
<1> QED BY <1>1, <1>2, TypeCorrect, OwnersConsistent, PTL DEF Spec

\* No child goes unwatched: when it exits, the start owner or a process monitor of
\* the current generation is there to see it, whatever fails and whoever gives the
\* child back.  (start_with_profile_inner, spawn_monitor, restore_stop_child)
THEOREM ChildStaysWatched == Spec => []ChildIsWatched
  BY Watched, PTL

\* A stop that is pending has the owner that will end it, as stop_inner tells a
\* second caller, unless terminating a Windows Job fails: that is the only way.
\* (stop_inner, fail_start, terminate_and_drain_job)
THEOREM StopsHaveReaper ==
  ASSUME JobsEndWhenAsked PROVE Spec => []StopPendingHasReaper
<1>1. StopIsOwned => StopPendingHasReaper
  BY DEF StopIsOwned
<1> QED BY <1>1, Watched, PTL

-------------------------------------------------------------------------------
(* Who decides: every Starting has an owner, every Running is probed.       *)

\* A Windows Job drains when it is terminated, and the section that spawns leaves
\* nothing behind without an owner.
JobsDrain == Windows => Mishaps \cap {"drain", "terminate"} = {}
StartsAreComplete == Mishaps \cap {"prepare", "context"} = {}

\* The inductive invariant, with the two conditions on the failures at its edges.
Attended ==
    /\ TasksAreAttended
    /\ JobsDrain => UnattachedIsProbed
    /\ JobsDrain /\ StartsAreComplete => StartingIsOwned

LEMMA NoGeneration ==
    /\ NoAttached.gen = 0
    /\ \A g, e : g # 0 => [gen |-> g, epoch |-> e] # NoTask
    /\ \A g, e : Owner("recovery", g, e).kind = "recovery" /\ Owner("start", g, e).kind = "start"
  BY SMT DEF NoAttached, NoTask, Owner

\* The four shapes a run may be left in: decided, under recovery, attached to its
\* monitor, or as it was.
LEMMA DecidedIsAttended ==
  ASSUME inner'.st \notin {"Starting", "Running"}, inner'.attached = NoAttached, reapers' = {},
         inner'.owner.kind = "recovery" => ~inner'.unattached_monitor_started,
         GenerationsBegin'
  PROVE  Attended'
  BY DEF Attended, TasksAreAttended, OwnedIsUndecided, AttachedHasMonitor, ReapersRemember,
         RunningChildIsProbed, UnattachedIsProbed, StartingIsOwned

LEMMA RecoveryIsAttended ==
  ASSUME NEW g, NEW e, g # 0, session'.gen = g,
         inner'.st = "Starting", inner'.child = 0, inner'.attached = NoAttached,
         inner'.owner = Owner("recovery", g, e), inner'.recovery = g,
         recoverer' = [gen |-> g, epoch |-> e],
         ~inner'.unattached_monitor_started, reapers' = {}
  PROVE  Attended'
<1>1. recoverer'.gen = g /\ recoverer'.epoch = e /\ recoverer' # NoTask
  BY NoGeneration, SMT
<1>2. RecoveryIsCurrent'
  BY <1>1 DEF RecoveryIsCurrent, Gen
<1> QED
  BY <1>2
  DEF Attended, TasksAreAttended, GenerationsBegin, OwnedIsUndecided, AttachedHasMonitor,
      ReapersRemember, RunningChildIsProbed, UnattachedIsProbed, StartingIsOwned, Gen

LEMMA AttachedIsAttended ==
  ASSUME NEW g, g # 0, session'.gen = g, attMon' = g, inner'.attached.gen = g,
         inner'.child # 0, ~inner'.stop_pending,
         inner'.st = IF inner'.attached.recovering THEN "Starting" ELSE "Running",
         inner'.readiness # "off", inner'.owner = NoOwner, reapers' = {}
  PROVE  Attended'
<1>1. AttachedIsCurrent'
  BY DEF AttachedIsCurrent, Gen
<1>2. inner'.owner.kind # "recovery"
  BY OwnerKinds
<1> QED
  BY <1>1, <1>2
  DEF Attended, TasksAreAttended, GenerationsBegin, OwnedIsUndecided, AttachedHasMonitor,
      ReapersRemember, RunningChildIsProbed, UnattachedIsProbed, StartingIsOwned, Gen

LEMMA UnmovedIsAttended ==
  ASSUME Attended, session' = session, reapers' = reapers,
         inner'.st = inner.st, inner'.child = inner.child, inner'.owner = inner.owner,
         inner'.stop_pending = inner.stop_pending, inner'.readiness = inner.readiness,
         inner'.attached = inner.attached,
         inner'.unattached_monitor_started = inner.unattached_monitor_started,
         RecoveryIsCurrent => RecoveryIsCurrent',
         AttachedIsCurrent => AttachedIsCurrent',
         UnattachedIsCurrent => UnattachedIsCurrent',
         starter.pc # "none" /\ OwnsStart /\ inner.child # 0 => starter'.pc # "none" /\ OwnsStart'
  PROVE  Attended'
<1>1. (GenerationsBegin /\ OwnedIsUndecided /\ RunningChildIsProbed)'
  BY DEF Attended, TasksAreAttended, GenerationsBegin, OwnedIsUndecided, RunningChildIsProbed, Gen
<1>2. (AttachedHasMonitor /\ ReapersRemember)'
  BY DEF Attended, TasksAreAttended, AttachedHasMonitor, ReapersRemember
<1>3. JobsDrain => UnattachedIsProbed'
  BY DEF Attended, UnattachedIsProbed
<1>4. JobsDrain /\ StartsAreComplete => StartingIsOwned'
  BY DEF Attended, StartingIsOwned
<1> QED BY <1>1, <1>2, <1>3, <1>4 DEF Attended, TasksAreAttended

\* The generation only grows, and a reservation begins one.
LEMMA GenerationMoves ==
  ASSUME TypeOK, GenerationsBegin
  PROVE  /\ Rotate => session'.gen = Gen + 1 /\ session'.gen # 0
         /\ ClearPending => session'.gen = Gen /\ ~session'.pending
         /\ \A l : Reserved(l).gen = Gen + 1 /\ Reserved(l).gen # 0
         /\ \A l, v : [Reserved(l) EXCEPT !.pending = v].gen = Gen + 1
<1>1. session \in Sessions /\ Gen \in Nat
  BY SessionUpdates DEF TypeOK, Gen
<1>2. Rotate => session'.gen = Gen + 1 /\ session'.gen # 0
  BY <1>1, SMT DEF Rotate, Sessions, Gen
<1>3. ClearPending => session'.gen = Gen /\ ~session'.pending
  BY <1>1, SMT DEF ClearPending, Sessions, Gen
<1>4. /\ \A l : Reserved(l).gen = Gen + 1 /\ Reserved(l).gen # 0
      /\ \A l, v : [Reserved(l) EXCEPT !.pending = v].gen = Gen + 1
  BY <1>1, SMT DEF Reserved
<1> QED BY <1>2, <1>3, <1>4

LEMMA BootIsAttended ==
  ASSUME TypeOK, OwnersAreConsistent, Attended, Boot PROVE Attended'
<1>0. Gen \in Nat /\ GenerationsBegin
  BY SessionUpdates DEF TypeOK, Gen, Attended, TasksAreAttended
<1>1. reapers' = {} /\ BootState \in States
  BY Zenon DEF Boot, OwnersAreConsistent, DeadAgentOwnsNothing, BootState, TypeOK, States
<1>2. ASSUME NEW st \in States \ {"Starting", "Running"}, NEW rd,
             inner' \in {FreshInner(st), [FreshInner(st) EXCEPT !.readiness = rd]},
             session' = session \/ ClearPending
      PROVE  Attended'
  <2>1. /\ inner'.st = st /\ inner'.attached = NoAttached /\ inner'.owner = NoOwner
    <3>1. CASE inner' = FreshInner(st)
      BY <3>1, SMT DEF FreshInner
    <3>2. CASE inner' = [FreshInner(st) EXCEPT !.readiness = rd]
      BY <3>2, SMT DEF FreshInner
    <3> QED BY <1>2, <3>1, <3>2
  <2>2. GenerationsBegin'
    BY <1>0, <1>2, <2>1, OwnerKinds, GenerationMoves DEF GenerationsBegin, Gen
  <2> QED BY <1>1, <2>1, <2>2, OwnerKinds, DecidedIsAttended
<1>3. CASE BootTerminal
  BY <1>1, <1>2, <1>3, Zenon DEF BootTerminal
<1>4. CASE BootTokenBound \/ BootReattachFails \/ BootAbandoned
  <2>1. "Failed" \in States \ {"Starting", "Running"}
    BY DEF States
  <2>2. session' = session \/ ClearPending
    BY <1>4, Zenon DEF BootTokenBound, BootReattachFails, BootAbandoned, TryClearPending
  <2>3. \E rd : inner' \in {FreshInner("Failed"), [FreshInner("Failed") EXCEPT !.readiness = rd]}
    BY <1>4, Zenon DEF BootTokenBound, BootReattachFails, BootAbandoned
  <2> QED BY <1>2, <2>1, <2>2, <2>3
<1>5. ASSUME NEW rd \in ReadinessKinds, BootUnattached(rd) PROVE Attended'
  <2> DEFINE st == IF BootState = "Failed" THEN "Failed" ELSE "Stopped"
  <2>1. st \in States \ {"Starting", "Running"}
    BY DEF States
  <2>2. inner' = [FreshInner(st) EXCEPT !.readiness = rd] /\ session' = session
    BY <1>5, Zenon DEF BootUnattached
  <2> HIDE DEF st
  <2> QED BY <1>2, <2>1, <2>2
<1>6. CASE BootReattach
  <2>1. /\ inner'.st = "Running" /\ inner'.child = 0 /\ inner'.recovery = 0
        /\ inner'.attached = NoAttached /\ inner'.owner = NoOwner
        /\ inner'.unattached_monitor_started
    BY <1>6, SMT DEF BootReattach, FreshInner
  <2>2. session'.gen = Gen + 1 /\ unMon' = Gen + 1 /\ Gen + 1 # 0
    BY <1>0, <1>6, GenerationMoves, SMT DEF BootReattach
  <2>3. UnattachedIsCurrent'
    BY <2>1, <2>2 DEF UnattachedIsCurrent, Gen
  <2> QED
    BY <1>1, <2>1, <2>2, <2>3, OwnerKinds
    DEF Attended, TasksAreAttended, GenerationsBegin, OwnedIsUndecided, AttachedHasMonitor,
        ReapersRemember, RunningChildIsProbed, UnattachedIsProbed, StartingIsOwned, Gen
<1>7. CASE BootRecovering
  <2>1. /\ inner'.st = "Starting" /\ inner'.child = 0 /\ inner'.recovery = Gen
        /\ inner'.attached = NoAttached /\ inner'.owner = Owner("recovery", Gen, 1)
        /\ ~inner'.unattached_monitor_started
    BY <1>7, SMT DEF BootRecovering, BeginRecovery, FreshInner
  <2>2. recoverer' = [gen |-> Gen, epoch |-> 1] /\ session' = session /\ Gen # 0
    <3>1. FreshInner("Starting").epoch + 1 = 1
      BY SMT DEF FreshInner
    <3> QED BY <1>0, <1>7, <3>1 DEF BootRecovering, ArmRecoverer, GenerationsBegin
  <2> QED BY <1>1, <2>1, <2>2, RecoveryIsAttended DEF Gen
<1> QED BY <1>3, <1>4, <1>5, <1>6, <1>7, Zenon DEF Boot

LEMMA DeathIsAttended ==
  ASSUME TypeOK, Attended, Crash \/ StartCrashes PROVE Attended'
<1>0. GenerationsBegin
  BY DEF Attended, TasksAreAttended
<1>1. inner' = FreshInner("Detached") /\ reapers' = {}
  BY DEF Crash, StartCrashes, AgentDies
<1>2. inner'.st = "Detached" /\ inner'.attached = NoAttached /\ inner'.owner = NoOwner
  BY <1>1, SMT DEF FreshInner
<1>3. GenerationsBegin'
  <2>1. session' = session \/ \E l : session' = Reserved(l)
    BY DEF Crash, StartCrashes, diskVars
  <2> QED BY <1>0, <1>2, <2>1, OwnerKinds, GenerationMoves DEF GenerationsBegin, Gen
<1> QED BY <1>1, <1>2, <1>3, OwnerKinds, DecidedIsAttended

LEMMA StartIsAttended ==
  ASSUME TypeOK, OwnersAreConsistent, Attended, NEW rd \in ReadinessKinds,
         Start(rd) \/ StartPrepareFails(rd) \/ StartContextFails(rd) \/ StartSpawnFails(rd)
  PROVE  Attended'
<1>0. GenerationsBegin /\ Gen \in Nat /\ launches \in Nat
  BY SessionUpdates, SMT DEF Attended, TasksAreAttended, TypeOK, Gen
<1>1. reapers' = {} /\ MayStart
  <2>1. MayStart /\ reapers' = reapers
    BY Zenon DEF Start, StartPrepareFails, StartContextFails, StartSpawnFails
  <2> QED BY <2>1, Situations DEF MayStart
<1>2. CASE Start(rd)
  <2> DEFINE e == inner.epoch + 1
  <2>1. /\ inner'.st = "Starting" /\ inner'.child = launches + 1 /\ ~inner'.stop_pending
        /\ inner'.attached = NoAttached /\ inner'.owner = Owner("start", Gen + 1, e)
        /\ ~inner'.unattached_monitor_started
    BY <1>2, SMT DEF Start, PreparedInner, FreshInner
  <2>2. /\ session'.gen = Gen + 1 /\ Gen + 1 # 0 /\ launches + 1 # 0
        /\ starter'.pc = "gate" /\ starter'.gen = Gen + 1 /\ starter'.epoch = e
    BY <1>0, <1>2, SMT DEF Start, Reserved
  <2>3. starter'.pc # "none" /\ OwnsStart' /\ inner'.child # 0
    BY <2>1, <2>2 DEF OwnsStart, StarterOwner, Gen
  <2> QED
    BY <1>1, <2>1, <2>2, <2>3, NoGeneration
    DEF Attended, TasksAreAttended, GenerationsBegin, OwnedIsUndecided, AttachedHasMonitor,
        ReapersRemember, RunningChildIsProbed, UnattachedIsProbed, StartingIsOwned, Gen
<1>3. CASE StartPrepareFails(rd) \/ StartContextFails(rd) \/ StartSpawnFails(rd)
  <2> DEFINE prepared == PreparedInner(rd)
             silent == [prepared EXCEPT !.readiness = "off"]
  <2>1. ASSUME NEW i \in {prepared, Failed(prepared), Failed(silent)}
        PROVE  /\ i.attached = NoAttached /\ i.owner = NoOwner
               /\ i.st \in {"Starting", "Failed"} /\ ~i.unattached_monitor_started
               /\ i # prepared => i.st = "Failed"
    <3>1. CASE i = prepared
      BY <3>1, SMT DEF PreparedInner, FreshInner
    <3>2. CASE i = Failed(prepared)
      BY <3>2, SMT DEF PreparedInner, FreshInner, Failed
    <3>3. CASE i = Failed(silent)
      BY <3>3, SMT DEF PreparedInner, FreshInner, Failed
    <3> QED BY <2>1, <3>1, <3>2, <3>3
  <2>2. inner' \in {prepared, Failed(prepared), Failed(silent)}
    BY <1>3, Zenon DEF StartPrepareFails, StartContextFails, StartSpawnFails
  <2>3. inner' = prepared => ~StartsAreComplete \/ inner'.st = "Failed"
    <3>1. CASE StartPrepareFails(rd) \/ StartContextFails(rd)
      BY <3>1 DEF StartPrepareFails, StartContextFails, StartsAreComplete, Mishap
    <3>2. CASE StartSpawnFails(rd)
      <4>1. inner' = Failed(prepared)
        BY <3>2, Zenon DEF StartSpawnFails
      <4> QED BY <4>1, SMT DEF PreparedInner, FreshInner, Failed
    <3> QED BY <1>3, <3>1, <3>2
  <2>4. session'.gen = Gen + 1 /\ session'.gen # 0
    <3>1. \/ session' = Reserved(0)
          \/ \E kept \in BOOLEAN : session' = [Reserved(0) EXCEPT !.pending = kept]
      BY <1>3, Zenon DEF StartPrepareFails, StartContextFails, StartSpawnFails
    <3>2. session'.gen = Gen + 1
      BY <1>0, <3>1, GenerationMoves, Zenon
    <3> QED BY <1>0, <3>2, SMT
  <2> HIDE DEF prepared, silent
  <2>5. /\ inner'.attached = NoAttached /\ inner'.owner = NoOwner
        /\ inner'.st \in {"Starting", "Failed"} /\ ~inner'.unattached_monitor_started
        /\ inner'.st = "Failed" \/ ~StartsAreComplete
    BY <2>1, <2>2, <2>3
  <2> QED
    BY <1>1, <2>4, <2>5, OwnerKinds
    DEF Attended, TasksAreAttended, GenerationsBegin, OwnedIsUndecided, AttachedHasMonitor,
        ReapersRemember, RunningChildIsProbed, UnattachedIsProbed, StartingIsOwned, Gen
<1> QED BY <1>2, <1>3

LEMMA StarterIsAttended ==
  ASSUME TypeOK, OwnersAreConsistent, Attended,
         \/ StartPersisted \/ StartAborted \/ AbortReturns
         \/ StarterAccept \/ StarterStale \/ MarkRunning \/ FailStart
  PROVE  Attended'
<1>0. inner \in SupervisorInner /\ starter \in Starters
  BY DEF TypeOK
<1>a. /\ GenerationsBegin /\ OwnedIsUndecided /\ AttachedHasMonitor /\ ReapersRemember
      /\ RunningChildIsProbed
  BY DEF Attended, TasksAreAttended
<1>1. /\ session' = session /\ unMon' = unMon /\ recoverer' = recoverer
  BY DEF StartPersisted, StartAborted, AbortReturns, StarterAccept, StarterStale, MarkRunning,
         FailStart, diskVars
<1>2. UnattachedIsCurrent /\ inner' = inner => UnattachedIsCurrent'
  BY <1>1 DEF UnattachedIsCurrent, Gen
<1>3. RecoveryIsCurrent /\ inner' = inner => RecoveryIsCurrent'
  BY <1>1 DEF RecoveryIsCurrent, Gen
<1>4. AttachedIsCurrent /\ inner' = inner /\ attMon' = attMon => AttachedIsCurrent'
  BY <1>1 DEF AttachedIsCurrent, Gen
\* The starter keeps its tokens while it moves, and goes only when it owns nothing.
<1>5. ASSUME inner' = inner, reapers' = reapers, attMon' = attMon,
             OwnsStart /\ inner.child # 0 /\ starter.pc # "none" =>
                starter'.pc # "none" /\ starter'.gen = starter.gen
                /\ starter'.epoch = starter.epoch
      PROVE  Attended'
  <2>1. OwnsStart /\ starter'.gen = starter.gen /\ starter'.epoch = starter.epoch => OwnsStart'
    BY <1>1, <1>5 DEF OwnsStart, StarterOwner, Gen
  <2> QED BY <1>1, <1>2, <1>3, <1>4, <1>5, <2>1, UnmovedIsAttended
<1>6. CASE StartPersisted \/ StartAborted
  <2>1. /\ inner' = inner /\ reapers' = reapers /\ attMon' = attMon
        /\ \/ starter' = [starter EXCEPT !.pc = "go"]
           \/ starter' = [starter EXCEPT !.pc = "abort"]
    BY <1>6, Zenon DEF StartPersisted, StartAborted, memVars
  <2>2. /\ starter'.pc # "none" /\ starter'.gen = starter.gen
        /\ starter'.epoch = starter.epoch
    <3>1. CASE starter' = [starter EXCEPT !.pc = "go"]
      BY <1>0, <3>1, SMT DEF Starters
    <3>2. CASE starter' = [starter EXCEPT !.pc = "abort"]
      BY <1>0, <3>2, SMT DEF Starters
    <3> QED BY <2>1, <3>1, <3>2
  <2> QED BY <1>5, <2>1, <2>2
<1>7. CASE AbortReturns \/ StarterStale
  <2>1. /\ inner' = inner /\ reapers' = reapers /\ attMon' = attMon
        /\ starter' = starter \/ ~OwnsStart
    BY <1>7 DEF AbortReturns, StarterStale, memVars
  <2> QED BY <1>5, <2>1
<1>8. CASE StarterAccept
  <2>1. /\ reapers' = reapers /\ attMon' = attMon /\ starter.pc = "go"
    BY <1>8, Zenon DEF StarterAccept
  <2>2. CASE OwnsStart /\ inner.start_ownership_pending /\ inner.child # 0
    <3>1. /\ inner' = [inner EXCEPT !.start_ownership_pending = FALSE]
          /\ starter' = [starter EXCEPT !.pc = "wait"]
      BY <1>8, <2>2, Zenon DEF StarterAccept
    <3>2. /\ inner'.st = inner.st /\ inner'.child = inner.child /\ inner'.owner = inner.owner
          /\ inner'.stop_pending = inner.stop_pending /\ inner'.readiness = inner.readiness
          /\ inner'.attached = inner.attached /\ inner'.recovery = inner.recovery
          /\ inner'.unattached_monitor_started = inner.unattached_monitor_started
      BY <1>0, <3>1, SMT DEF SupervisorInner
    <3>3. starter'.pc = "wait" /\ starter'.gen = starter.gen /\ starter'.epoch = starter.epoch
      BY <1>0, <3>1, SMT DEF Starters
    <3>4. OwnsStart'
      BY <1>1, <2>2, <3>2, <3>3 DEF OwnsStart, StarterOwner, Gen
    <3>5. /\ RecoveryIsCurrent => RecoveryIsCurrent'
          /\ AttachedIsCurrent => AttachedIsCurrent'
          /\ UnattachedIsCurrent => UnattachedIsCurrent'
      BY <1>1, <2>1, <3>2 DEF RecoveryIsCurrent, AttachedIsCurrent, UnattachedIsCurrent, Gen
    <3> QED BY <1>1, <2>1, <3>2, <3>3, <3>4, <3>5, UnmovedIsAttended
  <2>3. CASE ~(OwnsStart /\ inner.start_ownership_pending /\ inner.child # 0)
    <3>1. inner' = inner
      BY <1>8, <2>3, Zenon DEF StarterAccept
    <3>2. OwnsStart => inner.start_ownership_pending
      BY <2>1 DEF OwnersAreConsistent, GateGuardsChild, StarterHoldsGate, OwnsStart
    <3> QED BY <1>5, <2>1, <2>3, <3>1, <3>2
  <2> QED BY <2>2, <2>3
<1>9. CASE MarkRunning
  <2> DEFINE silent == [inner EXCEPT !.owner = NoOwner, !.st = "Running",
                                     !.attached = NoAttached]
             served == [inner EXCEPT !.owner = NoOwner, !.st = "Running", !.epoch = @ + 1,
                                     !.attached = [gen |-> Gen, epoch |-> inner.epoch + 1,
                                                   recovering |-> FALSE]]
  <2>1. reapers' = reapers /\ OwnsStart
    BY <1>9, Zenon DEF MarkRunning
  <2>2. CASE inner.child = 0
    <3>1. inner' = inner /\ attMon' = attMon
      BY <1>9, <2>2, Zenon DEF MarkRunning
    <3> QED BY <1>5, <2>1, <2>2, <3>1
  <2>3. CASE inner.child # 0 /\ inner.readiness = "off"
    <3>1. inner' = silent
      BY <1>9, <2>3, Zenon DEF MarkRunning
    <3>2. /\ inner'.st = "Running" /\ inner'.child = inner.child /\ inner'.owner = NoOwner
          /\ inner'.readiness = "off" /\ inner'.attached = NoAttached
      BY <1>0, <2>3, <3>1, SMT DEF SupervisorInner
    <3>3. reapers = {}
      BY <2>3, Situations
    <3> QED
      BY <1>1, <1>a, <2>1, <2>3, <3>2, <3>3, OwnerKinds
      DEF Attended, TasksAreAttended, GenerationsBegin, OwnedIsUndecided, AttachedHasMonitor,
          ReapersRemember, RunningChildIsProbed, UnattachedIsProbed, StartingIsOwned, Gen
  <2>4. CASE inner.child # 0 /\ inner.readiness # "off"
    <3>1. inner' = served /\ attMon' = Gen
      BY <1>9, <2>4, Zenon DEF MarkRunning
    <3>2. /\ inner'.st = "Running" /\ inner'.child = inner.child /\ inner'.owner = NoOwner
          /\ inner'.readiness = inner.readiness /\ inner'.stop_pending = inner.stop_pending
          /\ inner'.attached.gen = Gen /\ inner'.attached.recovering = FALSE
      BY <1>0, <3>1, SMT DEF SupervisorInner
    <3>3. reapers = {} /\ ~inner.stop_pending /\ Gen # 0
      BY <1>a, <2>4, Situations DEF GenerationsBegin, OwnersAreConsistent, ChildIsReserved
    <3>4. Gen = session'.gen
      BY <1>1 DEF Gen
    <3> HIDE DEF served
    <3> QED BY <2>1, <2>4, <3>1, <3>2, <3>3, <3>4, AttachedIsAttended
  <2> QED BY <2>2, <2>3, <2>4
<1>10. CASE FailStart
  <2>1. attMon' = attMon
    BY <1>10, Zenon DEF FailStart
  <2>2. CASE ~OwnsStart
    <3>1. inner' = inner /\ reapers' = reapers
      BY <1>10, <2>2, Zenon DEF FailStart
    <3> QED BY <1>5, <2>1, <2>2, <3>1
  <2>3. CASE OwnsStart
    <3> DEFINE taken == [inner EXCEPT
                           !.child = 0, !.epoch = @ + 1, !.stop_pending = TRUE,
                           !.start_ownership_pending = FALSE, !.recovery = 0,
                           !.owner = NoOwner, !.attached = NoAttached, !.readiness = "off"]
               r == [kind |-> "fail", launch |-> inner.child, gen |-> Gen,
                     epoch |-> inner.epoch + 1, readiness |-> inner.readiness,
                     attached |-> NoAttached]
    <3>1. inner' = taken /\ reapers' = reapers \cup {r}
      BY <1>10, <2>3, Zenon DEF FailStart
    <3>2. /\ inner'.st = inner.st /\ inner'.child = 0 /\ inner'.owner = NoOwner
          /\ inner'.attached = NoAttached /\ inner'.stop_pending
      BY <1>0, <3>1, SMT DEF SupervisorInner
    <3>3. inner.owner # NoOwner /\ reapers = {}
      BY <2>3, OwnerKinds, Situations DEF OwnsStart
    <3>4. inner.st # "Running"
      BY <1>a, <3>3 DEF OwnedIsUndecided
    <3>5. r.attached = NoAttached
      BY SMT
    <3> HIDE DEF taken, r
    <3>6. ReapersRemember'
      BY <3>1, <3>2, <3>3, <3>4, <3>5 DEF ReapersRemember
    <3>7. reapers' # {}
      BY <3>1
    <3> QED
      BY <1>1, <1>a, <3>2, <3>4, <3>6, <3>7, OwnerKinds
      DEF Attended, TasksAreAttended, GenerationsBegin, OwnedIsUndecided, AttachedHasMonitor,
          RunningChildIsProbed, UnattachedIsProbed, StartingIsOwned, Gen
  <2> QED BY <2>2, <2>3
<1> QED BY <1>6, <1>7, <1>8, <1>9, <1>10

LEMMA StopIsAttended ==
  ASSUME TypeOK, OwnersAreConsistent, Attended, StopRequest \/ StopDescendants \/ StopCancelled
  PROVE  Attended'
<1>0. inner \in SupervisorInner
  BY DEF TypeOK
<1>1. /\ GenerationsBegin /\ OwnedIsUndecided /\ AttachedHasMonitor /\ ReapersRemember
      /\ RunningChildIsProbed
  BY DEF Attended, TasksAreAttended
<1>2. CASE StopRequest
  <2> DEFINE r == [kind |-> "stop", launch |-> inner.child, gen |-> Gen,
                   epoch |-> inner.epoch + 1, readiness |-> inner.readiness,
                   attached |-> inner.attached]
  <2>1. /\ session' = session /\ reapers' = reapers \cup {r} /\ inner.child # 0
    BY <1>2, Zenon DEF StopRequest, diskVars
  <2>2. inner' = [inner EXCEPT
                    !.child = 0, !.epoch = @ + 1, !.stop_pending = TRUE,
                    !.start_ownership_pending = FALSE, !.recovery = 0,
                    !.owner = NoOwner, !.readiness = "off", !.attached = NoAttached]
    BY <1>2, Zenon DEF StopRequest
  <2>3. /\ inner'.st = inner.st /\ inner'.child = 0 /\ inner'.owner = NoOwner
        /\ inner'.attached = NoAttached /\ inner'.stop_pending /\ inner'.readiness = "off"
    BY <1>0, <2>2, SMT DEF SupervisorInner
  <2>4. reapers = {}
    BY <2>1, Situations
  <2>5. r.attached = inner.attached /\ r.readiness = inner.readiness
    BY SMT
  <2>6. AttachedIsCurrent => inner.attached # NoAttached
    BY NoGeneration DEF AttachedIsCurrent
  <2> HIDE DEF r
  <2>7. ReapersRemember'
    <3>1. \A q \in reapers' : q = r
      BY <2>1, <2>4
    <3>2. r.attached # NoAttached =>
             /\ r.readiness # "off"
             /\ inner.st = IF r.attached.recovering THEN "Starting" ELSE "Running"
      BY <1>1, <2>5 DEF AttachedHasMonitor, AttachedIsCurrent
    <3>3. r.attached = NoAttached => r.readiness = "off" \/ inner.st # "Running"
      BY <1>1, <2>1, <2>5, <2>6 DEF RunningChildIsProbed
    <3> QED BY <2>3, <3>1, <3>2, <3>3 DEF ReapersRemember
  <2>8. reapers' # {}
    BY <2>1
  <2> QED
    BY <1>1, <2>1, <2>3, <2>7, <2>8, OwnerKinds
    DEF Attended, TasksAreAttended, GenerationsBegin, OwnedIsUndecided, AttachedHasMonitor,
        RunningChildIsProbed, UnattachedIsProbed, StartingIsOwned, Gen
<1>3. CASE StopDescendants
  <2>1. inner' = [inner EXCEPT
                    !.job = 0, !.epoch = @ + 1, !.start_ownership_pending = FALSE,
                    !.recovery = 0, !.owner = NoOwner, !.readiness = "off",
                    !.attached = NoAttached, !.unattached_monitor_started = FALSE,
                    !.st = "Stopped", !.pid = 0]
    BY <1>3, Zenon DEF StopDescendants
  <2>2. inner'.st = "Stopped" /\ inner'.attached = NoAttached /\ inner'.owner = NoOwner
    BY <1>0, <2>1, SMT DEF SupervisorInner
  <2>3. reapers' = {} /\ (session' = session \/ ClearPending)
    BY <1>3, Situations DEF StopDescendants
  <2>4. GenerationsBegin'
    BY <1>1, <2>2, <2>3, OwnerKinds, GenerationMoves DEF GenerationsBegin, Gen
  <2> QED BY <2>2, <2>3, <2>4, OwnerKinds, DecidedIsAttended
<1>4. CASE StopCancelled
  <2>1. UNCHANGED <<inner, session, reapers, starter, recoverer, attMon, unMon>>
    BY <1>4 DEF StopCancelled, diskVars, memVars
  <2> QED
    BY <2>1, UnmovedIsAttended
    DEF RecoveryIsCurrent, AttachedIsCurrent, UnattachedIsCurrent, OwnsStart, StarterOwner, Gen
<1> QED BY <1>2, <1>3, <1>4

LEMMA ReaperIsAttended ==
  ASSUME TypeOK, OwnersAreConsistent, Attended, NEW r \in reapers, Holds(r),
         \/ FailSawExit(r) \/ ReaperFinishes(r, "Failed") \/ ReaperFinishes(r, "Stopped")
         \/ ReaperDrainFails(r) \/ RestoreStopChild(r)
  PROVE  Attended'
<1>0. inner \in SupervisorInner
  BY DEF TypeOK
<1>1. /\ GenerationsBegin /\ OwnedIsUndecided /\ AttachedHasMonitor /\ ReapersRemember
      /\ RunningChildIsProbed
  BY DEF Attended, TasksAreAttended
<1>2. /\ inner.stop_pending /\ inner.child = 0 /\ inner.owner = NoOwner
      /\ ~inner.unattached_monitor_started /\ session.pending /\ reapers \ {r} = {}
      /\ r.gen = Gen
  BY Situations DEF Holds, OwnersAreConsistent, StopTakesAll, ReapersAreReserved
<1>3. reapers' = {}
  BY <1>2 DEF FailSawExit, ReaperFinishes, ReaperDrainFails, RestoreStopChild
<1>4. Gen # 0 /\ inner.attached = NoAttached
  BY <1>1, <1>2 DEF GenerationsBegin, AttachedHasMonitor, AttachedIsCurrent
<1>5. CASE FailSawExit(r)
  <2> DEFINE freed == [inner EXCEPT !.stop_pending = FALSE, !.readiness = r.readiness]
             e == inner.epoch + 1
  <2>1. /\ inner' = BeginRecovery(freed, Gen) /\ session' = session
        /\ recoverer' = [gen |-> Gen, epoch |-> e]
    BY <1>5, Zenon DEF FailSawExit, ArmRecoverer, diskVars
  <2>2. /\ inner'.st = "Starting" /\ inner'.child = inner.child
        /\ inner'.attached = inner.attached /\ inner'.recovery = Gen
        /\ inner'.owner = Owner("recovery", Gen, e)
        /\ inner'.unattached_monitor_started = inner.unattached_monitor_started
    BY <1>0, <2>1, SMT DEF BeginRecovery, SupervisorInner
  <2> HIDE DEF freed, e
  <2> QED BY <1>2, <1>3, <1>4, <2>1, <2>2, RecoveryIsAttended DEF Gen
<1>6. ASSUME NEW st \in {"Failed", "Stopped"}, ReaperFinishes(r, st) PROVE Attended'
  <2>1. inner' = [Released(inner) EXCEPT !.st = st, !.pid = 0, !.job = 0]
    BY <1>6, Zenon DEF ReaperFinishes
  <2>2. /\ inner'.st = st /\ inner'.attached = inner.attached /\ inner'.owner = inner.owner
    BY <1>0, <2>1, SMT DEF Released, SupervisorInner
  <2>3. session' = session \/ ClearPending
    BY <1>6 DEF ReaperFinishes
  <2>4. GenerationsBegin'
    BY <1>1, <2>2, <2>3, GenerationMoves DEF GenerationsBegin, Gen
  <2> QED BY <1>2, <1>3, <1>4, <1>6, <2>2, <2>4, OwnerKinds, DecidedIsAttended
<1>7. CASE ReaperDrainFails(r)
  <2>1. session' = session /\ ~JobsDrain
    BY <1>7 DEF ReaperDrainFails, JobsDrain, Mishap, diskVars
  <2>2. inner'.child = 0 /\ inner'.owner = NoOwner /\ inner'.attached = NoAttached
    <3>1. CASE inner' = [inner EXCEPT !.stop_pending = FALSE, !.job = 0]
      BY <1>0, <1>2, <1>4, <3>1, SMT DEF SupervisorInner
    <3>2. CASE inner' = [inner EXCEPT !.job = 0]
      BY <1>0, <1>2, <1>4, <3>2, SMT DEF SupervisorInner
    <3> QED BY <1>7, <3>1, <3>2, Zenon DEF ReaperDrainFails
  <2> QED
    BY <1>1, <1>3, <1>4, <2>1, <2>2, OwnerKinds
    DEF Attended, TasksAreAttended, GenerationsBegin, OwnedIsUndecided, AttachedHasMonitor,
        ReapersRemember, RunningChildIsProbed, Gen
<1>8. CASE RestoreStopChild(r)
  <2> DEFINE e == inner.epoch + 1
             back == [inner EXCEPT !.child = r.launch, !.stop_pending = FALSE,
                                   !.readiness = r.readiness]
             again == [gen |-> r.gen, epoch |-> e, recovering |-> r.attached.recovering]
             attached == [back EXCEPT !.epoch = e, !.attached = again]
             silent == [back EXCEPT !.attached = NoAttached]
             owned == [back EXCEPT !.epoch = e, !.attached = NoAttached,
                                   !.start_ownership_pending = TRUE,
                                   !.owner = Owner("start", r.gen, e)]
  <2>1. session' = session /\ r.launch # 0
    BY <1>8 DEF RestoreStopChild, diskVars
  <2>2. \/ /\ r.attached # NoAttached /\ r.readiness # "off"
           /\ inner' = attached /\ attMon' = r.gen
        \/ /\ r.attached = NoAttached \/ r.readiness = "off"
           /\ inner.st = "Starting" /\ inner' = owned
           /\ starter' = [pc |-> "go", gen |-> r.gen, epoch |-> e]
        \/ /\ r.attached = NoAttached \/ r.readiness = "off"
           /\ inner.st # "Starting" /\ inner' = silent
    BY <1>8, Zenon DEF RestoreStopChild
  <2>3. CASE /\ r.attached # NoAttached /\ r.readiness # "off"
             /\ inner' = attached /\ attMon' = r.gen
    <3>1. /\ inner'.st = inner.st /\ inner'.child = r.launch /\ inner'.stop_pending = FALSE
          /\ inner'.readiness = r.readiness /\ inner'.owner = inner.owner
          /\ inner'.attached.gen = r.gen
          /\ inner'.attached.recovering = r.attached.recovering
      BY <1>0, <2>3, SMT DEF SupervisorInner
    <3>2. inner.st = IF r.attached.recovering THEN "Starting" ELSE "Running"
      BY <1>1, <2>3 DEF ReapersRemember
    <3> HIDE DEF attached
    <3> QED BY <1>2, <1>3, <1>4, <2>1, <2>3, <3>1, <3>2, AttachedIsAttended DEF Gen
  <2>4. CASE /\ inner.st = "Starting" /\ inner' = owned
             /\ starter' = [pc |-> "go", gen |-> r.gen, epoch |-> e]
    <3>1. /\ inner'.st = inner.st /\ inner'.child = r.launch /\ inner'.stop_pending = FALSE
          /\ inner'.owner = Owner("start", r.gen, e) /\ inner'.attached = NoAttached
      BY <1>0, <2>4, SMT DEF SupervisorInner
    <3>2. starter'.pc = "go" /\ starter'.gen = r.gen /\ starter'.epoch = e
      BY <2>4, SMT
    <3>3. OwnsStart'
      BY <1>2, <2>1, <3>1, <3>2 DEF OwnsStart, StarterOwner, Gen
    <3> HIDE DEF owned, e
    <3> QED
      BY <1>1, <1>3, <1>4, <2>1, <2>4, <3>1, <3>2, <3>3, NoGeneration
      DEF Attended, TasksAreAttended, GenerationsBegin, OwnedIsUndecided, AttachedHasMonitor,
          ReapersRemember, RunningChildIsProbed, UnattachedIsProbed, StartingIsOwned, Gen
  <2>5. CASE /\ r.attached = NoAttached \/ r.readiness = "off"
             /\ inner.st # "Starting" /\ inner' = silent
    <3>1. /\ inner'.st = inner.st /\ inner'.child = r.launch /\ inner'.owner = inner.owner
          /\ inner'.readiness = r.readiness /\ inner'.attached = NoAttached
      BY <1>0, <2>5, SMT DEF SupervisorInner
    <3>2. r.readiness = "off" \/ inner.st # "Running"
      BY <1>1, <2>5 DEF ReapersRemember
    <3> HIDE DEF silent
    <3> QED
      BY <1>1, <1>2, <1>3, <1>4, <2>1, <2>5, <3>1, <3>2, OwnerKinds
      DEF Attended, TasksAreAttended, GenerationsBegin, OwnedIsUndecided, AttachedHasMonitor,
          ReapersRemember, RunningChildIsProbed, UnattachedIsProbed, StartingIsOwned, Gen
  <2> QED BY <2>2, <2>3, <2>4, <2>5
<1> QED BY <1>5, <1>6, <1>7, <1>8

LEMMA ObservingIsAttended ==
  ASSUME TypeOK, OwnersAreConsistent, Attended, Observing PROVE Attended'
<1>0. inner \in SupervisorInner
  BY DEF TypeOK
<1>1. GenerationsBegin /\ OwnedIsUndecided
  BY DEF Attended, TasksAreAttended
<1>2. CASE ObserveExit
  <2> DEFINE gone == [inner EXCEPT !.child = 0, !.attached = NoAttached]
             kept == [inner EXCEPT !.child = 0, !.attached = NoAttached, !.recovery = 0,
                                   !.unattached_monitor_started = FALSE]
             e == inner.epoch + 1
  <2>1. inner.child # 0 /\ reapers' = reapers
    BY <1>2, Zenon DEF ObserveExit
  <2>2. reapers' = {} /\ ~inner.unattached_monitor_started
    BY <2>1, Situations DEF OwnersAreConsistent, UnattachedIsAlone
  <2>3. \/ /\ inner' = BeginRecovery(gone, Gen + 1) /\ Rotate
           /\ recoverer' = [gen |-> Gen + 1, epoch |-> e]
        \/ inner' = FailedNoPid(kept) /\ session' = session
        \/ inner' = Failed(gone) /\ session' = session
        \/ inner' = FailedNoPid(gone) /\ ClearPending
    BY <1>2, Zenon DEF ObserveExit, ExitedWithReadiness, ExitedWithoutReadiness, ArmRecoverer
  <2>4. CASE /\ inner' = BeginRecovery(gone, Gen + 1) /\ Rotate
             /\ recoverer' = [gen |-> Gen + 1, epoch |-> e]
    <3>1. /\ inner'.st = "Starting" /\ inner'.child = 0 /\ inner'.attached = NoAttached
          /\ inner'.recovery = Gen + 1 /\ inner'.owner = Owner("recovery", Gen + 1, e)
          /\ inner'.unattached_monitor_started = inner.unattached_monitor_started
      BY <1>0, <2>4, SMT DEF BeginRecovery, SupervisorInner
    <3> HIDE DEF gone, e
    <3>2. session'.gen = Gen + 1 /\ Gen + 1 # 0
      BY <1>1, <2>4, GenerationMoves
    <3> QED BY <2>2, <2>4, <3>1, <3>2, RecoveryIsAttended
  <2>5. CASE \/ inner' = FailedNoPid(kept) /\ session' = session
             \/ inner' = Failed(gone) /\ session' = session
             \/ inner' = FailedNoPid(gone) /\ ClearPending
    <3>1. /\ inner'.st = "Failed" /\ inner'.attached = NoAttached /\ inner'.owner = inner.owner
          /\ ~inner'.unattached_monitor_started
      <4>1. CASE inner' = FailedNoPid(kept)
        BY <1>0, <4>1, SMT DEF FailedNoPid, SupervisorInner
      <4>2. CASE inner' = Failed(gone)
        BY <1>0, <2>2, <4>2, SMT DEF Failed, SupervisorInner
      <4>3. CASE inner' = FailedNoPid(gone)
        BY <1>0, <2>2, <4>3, SMT DEF FailedNoPid, SupervisorInner
      <4> QED BY <2>5, <4>1, <4>2, <4>3
    <3>2. session' = session \/ ClearPending
      BY <2>5
    <3>3. GenerationsBegin'
      BY <1>1, <3>1, <3>2, GenerationMoves DEF GenerationsBegin, Gen
    <3> QED BY <2>2, <3>1, <3>3, DecidedIsAttended
  <2> QED BY <2>3, <2>4, <2>5
<1>3. CASE ObserveError
  <2> DEFINE lost == [inner EXCEPT !.recovery = 0, !.attached = NoAttached]
  <2>1. /\ inner' = Failed(lost) /\ session' = session /\ reapers' = reapers
        /\ inner.child # 0
    BY <1>3, Zenon DEF ObserveError, diskVars
  <2>2. /\ inner'.st = "Failed" /\ inner'.attached = NoAttached /\ inner'.owner = inner.owner
        /\ inner'.unattached_monitor_started = inner.unattached_monitor_started
    BY <1>0, <2>1, SMT DEF SupervisorInner, Failed
  <2>3. reapers' = {} /\ GenerationsBegin'
    BY <1>1, <2>1, <2>2, Situations DEF GenerationsBegin, Gen
  <2> QED BY <1>1, <2>2, <2>3, DecidedIsAttended DEF OwnedIsUndecided
<1>4. CASE MonitorEnds \/ Persist
  <2>1. UNCHANGED <<inner, session, reapers, starter, recoverer, attMon, unMon>>
    BY <1>4 DEF MonitorEnds, Persist, diskVars, memVars
  <2> QED
    BY <2>1, UnmovedIsAttended
    DEF RecoveryIsCurrent, AttachedIsCurrent, UnattachedIsCurrent, OwnsStart, StarterOwner, Gen
<1> QED BY <1>2, <1>3, <1>4 DEF Observing

LEMMA RecoveringIsAttended ==
  ASSUME TypeOK, OwnersAreConsistent, Attended, Recovering PROVE Attended'
<1>0. inner \in SupervisorInner
  BY DEF TypeOK
<1>1. GenerationsBegin /\ OwnedIsUndecided /\ AttachedHasMonitor
  BY DEF Attended, TasksAreAttended
<1>2. CASE RecoverySucceeds \/ RecoveryExpires
  <2>1. reapers' = reapers /\ RecoveryIsCurrent
    BY <1>2, Zenon DEF RecoverySucceeds, RecoveryExpires
  <2>2. inner.owner.kind = "recovery" /\ inner.child = 0
    BY <2>1, SMT DEF RecoveryIsCurrent, Owner
  <2>3. /\ reapers' = {} /\ inner.attached = NoAttached /\ Gen # 0
        /\ ~inner.unattached_monitor_started
    BY <1>1, <2>1, <2>2, OwnerKinds, Situations
    DEF GenerationsBegin, OwnedIsUndecided, AttachedHasMonitor
  <2>4. CASE RecoverySucceeds
    <3>1. /\ inner'.st = "Running" /\ inner'.child = inner.child /\ inner'.recovery = 0
          /\ inner'.owner = NoOwner /\ inner'.attached = inner.attached
          /\ inner'.unattached_monitor_started = TRUE
      BY <1>0, <2>4, SMT DEF RecoverySucceeds, SupervisorInner
    <3>2. session' = session /\ unMon' = Gen
      BY <2>3, <2>4, Zenon DEF RecoverySucceeds, diskVars
    <3>3. UnattachedIsCurrent'
      BY <2>2, <2>3, <3>1, <3>2 DEF UnattachedIsCurrent, Gen
    <3> QED
      BY <1>1, <2>2, <2>3, <3>1, <3>2, <3>3, OwnerKinds
      DEF Attended, TasksAreAttended, GenerationsBegin, OwnedIsUndecided, AttachedHasMonitor,
          ReapersRemember, RunningChildIsProbed, UnattachedIsProbed, StartingIsOwned, Gen
  <2>5. CASE RecoveryExpires
    <3>1. /\ inner'.st = "Failed" /\ inner'.owner = NoOwner
          /\ inner'.attached = inner.attached
      BY <1>0, <2>5, SMT DEF RecoveryExpires, FailedNoPid, SupervisorInner
    <3>2. session' = session \/ ClearPending
      BY <2>5 DEF RecoveryExpires, TryClearPending
    <3>3. GenerationsBegin'
      BY <1>1, <3>1, <3>2, OwnerKinds, GenerationMoves DEF GenerationsBegin, Gen
    <3> QED BY <2>3, <3>1, <3>3, OwnerKinds, DecidedIsAttended
  <2> QED BY <1>2, <2>4, <2>5
<1>3. CASE RecoveryStale
  <2>1. UNCHANGED <<inner, session, reapers, starter, attMon, unMon>> /\ ~RecoveryIsCurrent
    BY <1>3 DEF RecoveryStale, diskVars, memVars
  <2> QED
    BY <2>1, UnmovedIsAttended
    DEF AttachedIsCurrent, UnattachedIsCurrent, OwnsStart, StarterOwner, Gen
<1> QED BY <1>2, <1>3 DEF Recovering

LEMMA AttachedStepIsAttended ==
  ASSUME TypeOK, OwnersAreConsistent, Attended, Attached PROVE Attended'
<1>0. inner \in SupervisorInner /\ inner.attached \in AttachedStates
  BY SMT DEF TypeOK, SupervisorInner
<1>1. GenerationsBegin /\ AttachedHasMonitor
  BY DEF Attended, TasksAreAttended
<1>2. CASE AttachedGap \/ AttachedBack \/ AttachedExpires
  <2>1. reapers' = reapers /\ AttachedIsCurrent
    BY <1>2, Zenon DEF AttachedGap, AttachedBack, AttachedExpires
  <2>2. inner.attached # NoAttached
    BY <2>1, NoGeneration DEF AttachedIsCurrent
  <2>3. /\ inner.child # 0 /\ ~inner.stop_pending /\ inner.readiness # "off"
        /\ inner.owner = NoOwner /\ Gen # 0 /\ attMon = Gen /\ inner.attached.gen = Gen
        /\ reapers' = {}
    BY <1>1, <2>1, <2>2, Situations DEF AttachedHasMonitor, AttachedIsCurrent
  <2> DEFINE again == [gen |-> Gen + 1, epoch |-> inner.epoch + 1, recovering |-> TRUE]
             moved == [inner EXCEPT !.st = "Starting", !.recovery = 0, !.owner = NoOwner,
                                    !.unattached_monitor_started = FALSE,
                                    !.epoch = inner.epoch + 1, !.attached = again]
             back == [inner EXCEPT !.st = "Running", !.attached.recovering = FALSE]
             over == [inner EXCEPT !.attached = NoAttached]
  <2>4. \/ inner' = moved /\ Rotate /\ attMon' = Gen + 1
        \/ inner' = back /\ session' = session /\ attMon' = attMon
        \/ inner' = Failed(over) /\ session' = session
    BY <1>2, Zenon DEF AttachedGap, AttachedBack, AttachedExpires, diskVars
  <2>5. CASE inner' = moved /\ Rotate /\ attMon' = Gen + 1
    <3>1. /\ inner'.st = "Starting" /\ inner'.child = inner.child
          /\ inner'.stop_pending = inner.stop_pending /\ inner'.readiness = inner.readiness
          /\ inner'.owner = NoOwner /\ inner'.attached.gen = Gen + 1
          /\ inner'.attached.recovering = TRUE
      BY <1>0, <2>5, SMT DEF SupervisorInner
    <3> HIDE DEF moved
    <3>2. session'.gen = Gen + 1 /\ Gen + 1 # 0
      BY <1>1, <2>5, GenerationMoves
    <3> QED BY <2>3, <2>5, <3>1, <3>2, AttachedIsAttended
  <2>6. CASE inner' = back /\ session' = session /\ attMon' = attMon
    <3>1. /\ inner'.st = "Running" /\ inner'.child = inner.child
          /\ inner'.stop_pending = inner.stop_pending /\ inner'.readiness = inner.readiness
          /\ inner'.owner = inner.owner
          /\ inner'.attached = [inner.attached EXCEPT !.recovering = FALSE]
      BY <1>0, <2>6, SMT DEF SupervisorInner
    <3>2. inner'.attached.gen = Gen /\ inner'.attached.recovering = FALSE
      BY <1>0, <2>3, <3>1, SMT DEF AttachedStates
    <3> HIDE DEF back
    <3> QED BY <2>3, <2>6, <3>1, <3>2, AttachedIsAttended DEF Gen
  <2>7. CASE inner' = Failed(over) /\ session' = session
    <3>1. /\ inner'.st = "Failed" /\ inner'.attached = NoAttached
          /\ inner'.owner = inner.owner
      BY <1>0, <2>7, SMT DEF SupervisorInner, Failed
    <3>2. GenerationsBegin'
      BY <1>1, <2>7, <3>1 DEF GenerationsBegin, Gen
    <3> QED BY <2>3, <3>1, <3>2, OwnerKinds, DecidedIsAttended
  <2> QED BY <2>4, <2>5, <2>6, <2>7
<1>3. CASE AttachedStale
  <2>1. UNCHANGED <<inner, session, reapers, starter, recoverer, unMon>> /\ ~AttachedIsCurrent
    BY <1>3 DEF AttachedStale, diskVars, memVars
  <2> QED
    BY <2>1, UnmovedIsAttended
    DEF RecoveryIsCurrent, UnattachedIsCurrent, OwnsStart, StarterOwner, Gen
<1> QED BY <1>2, <1>3 DEF Attached

LEMMA UnattachedStepIsAttended ==
  ASSUME TypeOK, OwnersAreConsistent, Attended, Unattached PROVE Attended'
<1>0. inner \in SupervisorInner
  BY DEF TypeOK
<1>1. GenerationsBegin /\ OwnedIsUndecided /\ AttachedHasMonitor
  BY DEF Attended, TasksAreAttended
<1>2. CASE UnattachedGap
  <2> DEFINE unclaimed == [inner EXCEPT !.unattached_monitor_started = FALSE]
             e == inner.epoch + 1
  <2>1. /\ reapers' = reapers /\ inner.child = 0 /\ inner.st = "Running"
        /\ inner.unattached_monitor_started
    BY <1>2, Zenon DEF UnattachedGap, UnattachedIsCurrent
  <2>2. /\ reapers' = {} /\ inner.attached = NoAttached /\ inner.owner = NoOwner
    BY <1>1, <2>1, Situations
    DEF OwnersAreConsistent, StopTakesAll, OwnedIsUndecided, AttachedHasMonitor,
        AttachedIsCurrent
  <2>3. \/ /\ inner' = BeginRecovery(unclaimed, Gen + 1) /\ Rotate
           /\ recoverer' = [gen |-> Gen + 1, epoch |-> e]
        \/ inner' = Failed(unclaimed) /\ session' = session
    BY <1>2, Zenon DEF UnattachedGap, ArmRecoverer
  <2>4. CASE /\ inner' = BeginRecovery(unclaimed, Gen + 1) /\ Rotate
             /\ recoverer' = [gen |-> Gen + 1, epoch |-> e]
    <3>1. /\ inner'.st = "Starting" /\ inner'.child = inner.child
          /\ inner'.attached = inner.attached /\ inner'.recovery = Gen + 1
          /\ inner'.owner = Owner("recovery", Gen + 1, e)
          /\ inner'.unattached_monitor_started = FALSE
      BY <1>0, <2>4, SMT DEF BeginRecovery, SupervisorInner
    <3> HIDE DEF unclaimed, e
    <3>2. session'.gen = Gen + 1 /\ Gen + 1 # 0
      BY <1>1, <2>4, GenerationMoves
    <3> QED BY <2>1, <2>2, <2>4, <3>1, <3>2, RecoveryIsAttended
  <2>5. CASE inner' = Failed(unclaimed) /\ session' = session
    <3>1. /\ inner'.st = "Failed" /\ inner'.attached = inner.attached
          /\ inner'.owner = inner.owner
      BY <1>0, <2>5, SMT DEF Failed, SupervisorInner
    <3>2. GenerationsBegin'
      BY <1>1, <2>5, <3>1 DEF GenerationsBegin, Gen
    <3> QED BY <2>2, <3>1, <3>2, OwnerKinds, DecidedIsAttended
  <2> QED BY <2>3, <2>4, <2>5
<1>3. CASE UnattachedStale
  <2>1. UNCHANGED <<inner, session, reapers, starter, recoverer, attMon>> /\ ~UnattachedIsCurrent
    BY <1>3 DEF UnattachedStale, diskVars, memVars
  <2> QED
    BY <2>1, UnmovedIsAttended
    DEF RecoveryIsCurrent, AttachedIsCurrent, OwnsStart, StarterOwner, Gen
<1> QED BY <1>2, <1>3 DEF Unattached

LEMMA AttendedStep ==
  ASSUME TypeOK, OwnersAreConsistent, Attended, [Next]_vars PROVE Attended'
<1>1. CASE Starting
  BY <1>1, StartIsAttended, StarterIsAttended DEF Starting
<1>2. CASE Stopping
  BY <1>2, StopIsAttended, ReaperIsAttended
  DEF Stopping, FinishStop, FinishFail, ReaperFaults, FailReapers, StopReapers
<1>3. CASE Processes \/ UNCHANGED vars
  <2>1. UNCHANGED <<inner, session, reapers, starter, recoverer, attMon, unMon>>
    BY <1>3 DEF Processes, EmitToken, LeaderExits, LeaderForks, DescExits, vars, diskVars,
                memVars, taskVars
  <2> QED
    BY <2>1, UnmovedIsAttended
    DEF RecoveryIsCurrent, AttachedIsCurrent, UnattachedIsCurrent, OwnsStart, StarterOwner, Gen
<1> QED
  BY <1>1, <1>2, <1>3, BootIsAttended, DeathIsAttended, ObservingIsAttended,
     RecoveringIsAttended, AttachedStepIsAttended, UnattachedStepIsAttended DEF Next

LEMMA StaysAttended == Spec => []Attended
<1>1. Init => Attended
  <2>1. Init => /\ inner.st = "Detached" /\ inner.attached = NoAttached /\ reapers = {}
                /\ inner.owner = NoOwner /\ ~session.pending
    BY SMT DEF Init, FreshInner
  <2> QED
    BY <2>1, OwnerKinds
    DEF Attended, TasksAreAttended, GenerationsBegin, OwnedIsUndecided, AttachedHasMonitor,
        ReapersRemember, RunningChildIsProbed, UnattachedIsProbed, StartingIsOwned
<1>2. TypeOK /\ OwnersAreConsistent /\ Attended /\ [Next]_vars => Attended'
  BY AttendedStep
<1> QED BY <1>1, <1>2, TypeCorrect, OwnersConsistent, PTL DEF Spec

\* A child that is Running and has a readiness contract is probed by the attached
\* monitor of its own generation, whatever fails: after a start, after a service
\* gap, and after a stop that could not kill it.  (mark_running,
\* spawn_attached_readiness_monitor, restore_stop_child)
THEOREM RunningChildStaysProbed == Spec => []RunningChildIsProbed
<1>1. Attended => RunningChildIsProbed
  BY DEF Attended, TasksAreAttended
<1> QED BY <1>1, StaysAttended, PTL

\* A Running without a child is probed by the unattached monitor, so that a service
\* which goes away is noticed.  (spawn_recovery, spawn_unattached_monitor)
THEOREM UnattachedStaysProbed ==
  ASSUME JobsDrain PROVE Spec => []UnattachedIsProbed
<1>1. Attended => UnattachedIsProbed
  BY DEF Attended
<1> QED BY <1>1, StaysAttended, PTL

\* Every Starting has somebody who will decide it: the start owner, the recovery
\* task, the attached monitor or the finishing owner that took the child.  What
\* the code must get right for it is that each token a task holds is replaced
\* together with the one in SupervisorInner.
\* (spawn_start_readiness, spawn_recovery, advance_attached_session)
THEOREM StartsHaveOwner ==
  ASSUME JobsDrain, StartsAreComplete PROVE Spec => []StartingIsOwned
<1>1. Attended => StartingIsOwned
  BY DEF Attended
<1> QED BY <1>1, StaysAttended, PTL

================================================================================

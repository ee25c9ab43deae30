------------------------ MODULE PlatformSync_proofs ------------------------
(***************************************************************************)
(* Proofs about PlatformSync, for every set of processes, versions and     *)
(* releases and every number of starts, faults and choices.                *)
(***************************************************************************)
EXTENDS PlatformSync, TLAPS

\* Nobody builds while its startup has not yet decided, and what is built was
\* recorded before.
BuildsRecorded ==
    \A p \in Processes :
        build[p] # "none" => pc[p] \in {"unlocking", "done"} /\ target[p] \in versions

\* What is about to be promoted has been uploaded.
BuiltIsUploaded ==
    \A p \in Processes : build[p] \in {"built", "promoting"} => target[p] \in artifacts

\* The version that a sync or a build expects passed the guard.
ExpectedIsLower ==
    \A p \in Processes :
        (pc[p] = "syncing" \/ build[p] # "none") /\ expected[p] # None
            => expected[p] <= target[p]

\* Whoever leads has the lock, on the connection of its session.
LeaderHolds ==
    ~moved => \A p \in Processes :
        pc[p] \in {"leading", "trying", "syncing", "unlocking"} => lock = p /\ holds[p]

\* After a choice that is pinned nobody syncs, and what is built is current.
PinnedIsQuiet ==
    pinned =>
        /\ current # None
        /\ \A p \in Processes :
              /\ target[p] \in versions
              /\ pc[p] \notin {"trying", "syncing"}
              /\ build[p] # "none" => target[p] = current

\* The parts of TypeOK: what is true or false, and the rest.
Flags ==
    /\ holds \in [Processes -> BOOLEAN]
    /\ moved \in BOOLEAN
    /\ isFresh \in [Processes -> BOOLEAN]
    /\ promote \in [Processes -> BOOLEAN]
    /\ pinned \in BOOLEAN

Tables ==
    /\ target \in [Processes -> Releases]
    /\ versions \subseteq Versions /\ artifacts \subseteq Versions
    /\ current \in versions \cup {None} /\ fresh \in versions \cup {None}
    /\ lock \in Processes \cup {None}
    /\ pc \in [Processes -> {"off", "leading", "trying", "syncing", "unlocking", "done"}]
    /\ attempt \in [Processes -> 0 .. MaxSyncRetries]
    /\ expected \in [Processes -> Versions \cup {None}]
    /\ build \in [Processes -> {"none", "building", "built", "promoting"}]
    /\ starts \in 0 .. MaxStarts /\ faults \in 0 .. MaxFaults /\ choices \in 0 .. MaxChoices

IInv ==
    /\ Flags
    /\ Tables
    /\ BuildsRecorded
    /\ BuiltIsUploaded
    /\ ExpectedIsLower
    /\ LeaderHolds
    /\ CurrentHasArtifact
    /\ PinnedIsQuiet

-----------------------------------------------------------------------------
\* The initial states satisfy the invariant.
LEMMA InitInv == Init => IInv
<1> SUFFICES ASSUME Init PROVE IInv
    OBVIOUS
<1>1. Tables
    BY SyncConstants DEF Init, Tables, MaxSyncRetries
<1>f. Flags
    BY DEF Init, Flags
<1>2. BuildsRecorded /\ BuiltIsUploaded /\ ExpectedIsLower /\ LeaderHolds /\ PinnedIsQuiet
    BY DEF Init, BuildsRecorded, BuiltIsUploaded, ExpectedIsLower, LeaderHolds, PinnedIsQuiet
<1>3. CurrentHasArtifact
    BY DEF Init, CurrentHasArtifact
<1> QED
    BY <1>1, <1>f, <1>2, <1>3 DEF IInv

\* Start (the election): a new leader finds the lock free.
LEMMA StartKeeps ==
    ASSUME IInv, NEW p \in Processes, Start(p)
    PROVE  IInv'
<1> USE DEF Start, MayLead, Goto, NoFault, db, leader, task
<1>1. Tables'
    BY SyncConstants DEF IInv, Tables
<1>f. Flags'
    BY DEF IInv, Flags
<1>2. BuildsRecorded' /\ BuiltIsUploaded' /\ ExpectedIsLower'
    BY DEF IInv, Tables, BuildsRecorded, BuiltIsUploaded, ExpectedIsLower
<1>3. LeaderHolds'
    BY SyncConstants DEF IInv, Tables, Flags, LeaderHolds
<1>4. CurrentHasArtifact' /\ PinnedIsQuiet'
    BY DEF IInv, Tables, CurrentHasArtifact, PinnedIsQuiet
<1> QED
    BY <1>1, <1>f, <1>2, <1>3, <1>4 DEF IInv

\* Decide: what is scheduled at once is the current version, or there is none.
LEMMA DecideKeeps ==
    ASSUME IInv, NEW p \in Processes, Decide(p)
    PROVE  IInv'
<1> USE DEF Decide, Committed, Schedule, Selected, Goto, NoFault, db, task
<1>1. Tables'
    BY SyncConstants DEF IInv, Tables, MaxSyncRetries
<1>f. Flags'
    BY DEF IInv, Flags
<1>2. BuildsRecorded' /\ BuiltIsUploaded'
    BY DEF IInv, Tables, BuildsRecorded, BuiltIsUploaded
<1>3. ExpectedIsLower'
    BY SyncConstants DEF IInv, Tables, BuildsRecorded, ExpectedIsLower
<1>4. LeaderHolds'
    BY DEF IInv, Tables, Flags, LeaderHolds
<1>5. CurrentHasArtifact' /\ PinnedIsQuiet'
    BY DEF IInv, Tables, CurrentHasArtifact, PinnedIsQuiet
<1> QED
    BY <1>1, <1>f, <1>2, <1>3, <1>4, <1>5 DEF IInv

\* Try: the guard is looked at in the step that notes the expected version.
LEMMA TryKeeps ==
    ASSUME IInv, NEW p \in Processes, Try(p)
    PROVE  IInv'
<1> USE DEF Try, Goto, NoFault, db, leader, task
<1>1. Tables'
    BY SyncConstants DEF IInv, Tables
<1>f. Flags'
    BY DEF IInv, Flags
<1>2. BuildsRecorded' /\ BuiltIsUploaded'
    BY DEF IInv, Tables, BuildsRecorded, BuiltIsUploaded
<1>3. ExpectedIsLower'
    <2>1. target[p] \in Nat /\ versions \subseteq Nat /\ current \in versions \cup {None}
        BY SyncConstants DEF IInv, Tables
    <2>2. ASSUME ~IsDowngrade(p), current # None
          PROVE  current <= target[p]
        <3>1. current \in Nat /\ ~(target[p] < current)
            BY <2>1, <2>2 DEF IsDowngrade
        <3> QED
            BY <2>1, <3>1
    <2>3. build[p] = "none"
        BY DEF IInv, Tables, BuildsRecorded
    <2> QED
        BY <2>2, <2>3 DEF IInv, Tables, ExpectedIsLower
<1>4. LeaderHolds'
    BY DEF IInv, Tables, Flags, LeaderHolds
<1>5. CurrentHasArtifact' /\ PinnedIsQuiet'
    BY DEF IInv, Tables, CurrentHasArtifact, PinnedIsQuiet
<1> QED
    BY <1>1, <1>f, <1>2, <1>3, <1>4, <1>5 DEF IInv

\* Sync: the version is recorded, and nobody has pinned another one.
LEMMA SyncKeeps ==
    ASSUME IInv, NEW p \in Processes, Sync(p)
    PROVE  IInv'
<1> USE DEF Sync, Record, Committed, Schedule, Goto, NoFault
<1>0. ~pinned
    BY DEF IInv, PinnedIsQuiet
<1>1. Tables'
    BY SyncConstants DEF IInv, Tables
<1>f. Flags'
    BY DEF IInv, Flags
<1>2. BuildsRecorded' /\ BuiltIsUploaded'
    BY DEF IInv, Tables, BuildsRecorded, BuiltIsUploaded
<1>3. ExpectedIsLower'
    BY DEF IInv, Tables, ExpectedIsLower
<1>4. LeaderHolds'
    BY DEF IInv, Tables, Flags, LeaderHolds
<1>5. CurrentHasArtifact'
    BY DEF IInv, Tables, CurrentHasArtifact
<1>6. PinnedIsQuiet'
    BY <1>0 DEF PinnedIsQuiet
<1> QED
    BY <1>1, <1>f, <1>2, <1>3, <1>4, <1>5, <1>6 DEF IInv

\* A failed attempt changes neither versions nor builds.
LEMMA SyncFailsKeeps ==
    ASSUME IInv, NEW p \in Processes, SyncFails(p)
    PROVE  IInv'
<1> USE DEF SyncFails, Committed, Goto, Fault, db, task
<1>1. Tables'
    BY SyncConstants DEF IInv, Tables, LastAttempt, MaxSyncRetries
<1>f. Flags'
    BY DEF IInv, Flags
<1>2. BuildsRecorded' /\ BuiltIsUploaded' /\ ExpectedIsLower'
    BY DEF IInv, Tables, BuildsRecorded, BuiltIsUploaded, ExpectedIsLower
<1>3. LeaderHolds'
    BY DEF IInv, Tables, Flags, LeaderHolds
<1>4. CurrentHasArtifact' /\ PinnedIsQuiet'
    BY DEF IInv, Tables, CurrentHasArtifact, PinnedIsQuiet
<1> QED
    BY <1>1, <1>f, <1>2, <1>3, <1>4 DEF IInv

\* Unlock: whoever releases the lock was the only leader.
LEMMA UnlockKeeps ==
    ASSUME IInv, NEW p \in Processes, Unlock(p)
    PROVE  IInv'
<1> USE DEF Unlock, Goto, NoFault, db, task
<1>1. Tables'
    BY SyncConstants DEF IInv, Tables
<1>f. Flags'
    BY DEF IInv, Flags
<1>2. BuildsRecorded' /\ BuiltIsUploaded' /\ ExpectedIsLower'
    BY DEF IInv, Tables, BuildsRecorded, BuiltIsUploaded, ExpectedIsLower
<1>3. LeaderHolds'
    BY DEF IInv, Tables, Flags, LeaderHolds
<1>4. CurrentHasArtifact' /\ PinnedIsQuiet'
    BY DEF IInv, Tables, CurrentHasArtifact, PinnedIsQuiet
<1> QED
    BY <1>1, <1>f, <1>2, <1>3, <1>4 DEF IInv

\* A connection that is closed is not that of a leader.
LEMMA RecycleKeeps ==
    ASSUME IInv, NEW p \in Processes, Recycle(p)
    PROVE  IInv'
<1> USE DEF Recycle, NoFault, db, sync, task
<1>1. Tables'
    BY SyncConstants DEF IInv, Tables
<1>2. Flags'
    BY DEF IInv, Flags
<1>3. BuildsRecorded'
    BY DEF IInv, Tables, BuildsRecorded
<1>4. BuiltIsUploaded'
    BY DEF IInv, Tables, BuiltIsUploaded
<1>5. ExpectedIsLower'
    BY DEF IInv, Tables, ExpectedIsLower
<1>6. LeaderHolds'
    BY DEF IInv, Tables, Flags, LeaderHolds
<1>7. CurrentHasArtifact'
    BY DEF IInv, Tables, CurrentHasArtifact
<1>8. PinnedIsQuiet'
    BY DEF IInv, Tables, PinnedIsQuiet
<1> QED
    BY <1>1, <1>2, <1>3, <1>4, <1>5, <1>6, <1>7, <1>8 DEF IInv

\* Build: the artifact is there before the task goes on to promote.
LEMMA BuildKeeps ==
    ASSUME IInv, NEW p \in Processes, Build(p)
    PROVE  IInv'
<1> USE DEF Build, Uploaded, Step, Fault, NoFault, leader, sync
<1>1. Tables'
    <2>1. target[p] \in Versions
        BY SyncConstants DEF IInv, Tables
    <2>2. faults' \in 0 .. MaxFaults
        BY SyncConstants DEF IInv, Tables
    <2>3. build' \in [Processes -> {"none", "building", "built", "promoting"}]
        BY DEF IInv, Tables
    <2> QED
        BY <2>1, <2>2, <2>3 DEF IInv, Tables
<1>2. Flags'
    BY DEF IInv, Flags
<1>3. BuildsRecorded'
    BY DEF IInv, Tables, BuildsRecorded
<1>4. BuiltIsUploaded'
    BY DEF IInv, Tables, BuiltIsUploaded
<1>5. ExpectedIsLower'
    BY DEF IInv, Tables, ExpectedIsLower
<1>6. LeaderHolds'
    BY DEF IInv, Tables, Flags, LeaderHolds
<1>7. CurrentHasArtifact'
    BY DEF IInv, Tables, CurrentHasArtifact
<1>8. PinnedIsQuiet'
    BY DEF IInv, Tables, PinnedIsQuiet
<1> QED
    BY <1>1, <1>2, <1>3, <1>4, <1>5, <1>6, <1>7, <1>8 DEF IInv

\* Check changes only where the task is.
LEMMA CheckKeeps ==
    ASSUME IInv, NEW p \in Processes, Check(p)
    PROVE  IInv'
<1> USE DEF Check, Step, NoFault, db, leader, sync
<1>1. Tables'
    BY SyncConstants DEF IInv, Tables
<1>2. Flags'
    BY DEF IInv, Flags
<1>3. BuildsRecorded'
    BY DEF IInv, Tables, BuildsRecorded
<1>4. BuiltIsUploaded'
    BY DEF IInv, Tables, BuiltIsUploaded
<1>5. ExpectedIsLower'
    BY DEF IInv, Tables, ExpectedIsLower
<1>6. LeaderHolds'
    BY DEF IInv, Tables, Flags, LeaderHolds
<1>7. CurrentHasArtifact'
    BY DEF IInv, Tables, CurrentHasArtifact
<1>8. PinnedIsQuiet'
    BY DEF IInv, Tables, PinnedIsQuiet
<1> QED
    BY <1>1, <1>2, <1>3, <1>4, <1>5, <1>6, <1>7, <1>8 DEF IInv

\* Promote: the version is recorded and built; a pinned one is replaced by itself.
LEMMA PromoteKeeps ==
    ASSUME IInv, NEW p \in Processes, Promote(p)
    PROVE  IInv'
<1> USE DEF Promote, Step, NoFault, leader, sync
<1>1. Tables'
    BY SyncConstants DEF IInv, Tables, BuildsRecorded
<1>2. Flags'
    BY DEF IInv, Flags
<1>3. BuildsRecorded'
    BY DEF IInv, Tables, BuildsRecorded
<1>4. BuiltIsUploaded'
    BY DEF IInv, Tables, BuiltIsUploaded
<1>5. ExpectedIsLower'
    BY DEF IInv, Tables, ExpectedIsLower
<1>6. LeaderHolds'
    BY DEF IInv, Tables, Flags, LeaderHolds
<1>7. CurrentHasArtifact'
    BY DEF IInv, Tables, BuiltIsUploaded, CurrentHasArtifact
<1>8. PinnedIsQuiet'
    BY DEF IInv, Tables, PinnedIsQuiet
<1> QED
    BY <1>1, <1>2, <1>3, <1>4, <1>5, <1>6, <1>7, <1>8 DEF IInv

\* Choose: the selected version has its artifact.
LEMMA ChooseKeeps ==
    ASSUME IInv, NEW v \in Versions, Choose(v)
    PROVE  IInv'
<1> USE DEF Choose, NoFault, leader, sync, task
<1>1. Tables'
    BY SyncConstants DEF IInv, Tables
<1>2. Flags'
    BY DEF IInv, Flags
<1>3. BuildsRecorded'
    BY DEF IInv, Tables, BuildsRecorded
<1>4. BuiltIsUploaded'
    BY DEF IInv, Tables, BuiltIsUploaded
<1>5. ExpectedIsLower'
    BY DEF IInv, Tables, ExpectedIsLower
<1>6. LeaderHolds'
    BY DEF IInv, Tables, Flags, LeaderHolds
<1>7. CurrentHasArtifact'
    BY DEF IInv, Tables, CurrentHasArtifact
<1>8. PinnedIsQuiet'
    BY SyncConstants DEF IInv, Tables, PinnedIsQuiet, Active
<1> QED
    BY <1>1, <1>2, <1>3, <1>4, <1>5, <1>6, <1>7, <1>8 DEF IInv

\* A process that ends takes its lock and its task with it.
LEMMA StopKeeps ==
    ASSUME IInv, NEW p \in Processes, Stop(p)
    PROVE  IInv'
<1> USE DEF Stop, Goto, Step, Fault, NoFault, db
<1>1. Tables'
    BY SyncConstants DEF IInv, Tables
<1>2. Flags'
    BY DEF IInv, Flags
<1>3. BuildsRecorded'
    BY DEF IInv, Tables, BuildsRecorded
<1>4. BuiltIsUploaded'
    BY DEF IInv, Tables, BuiltIsUploaded
<1>5. ExpectedIsLower'
    BY DEF IInv, Tables, ExpectedIsLower
<1>6. LeaderHolds'
    BY DEF IInv, Tables, Flags, LeaderHolds
<1>7. CurrentHasArtifact'
    BY DEF IInv, Tables, CurrentHasArtifact
<1>8. PinnedIsQuiet'
    BY DEF IInv, Tables, PinnedIsQuiet
<1> QED
    BY <1>1, <1>2, <1>3, <1>4, <1>5, <1>6, <1>7, <1>8 DEF IInv

\* Stuttering keeps the invariant.
LEMMA StutterKeeps ==
    ASSUME IInv, UNCHANGED vars
    PROVE  IInv'
<1> USE DEF vars, db, leader, sync, task
<1>1. Tables'
    BY SyncConstants DEF IInv, Tables
<1>2. Flags'
    BY DEF IInv, Flags
<1>3. BuildsRecorded'
    BY DEF IInv, Tables, BuildsRecorded
<1>4. BuiltIsUploaded'
    BY DEF IInv, Tables, BuiltIsUploaded
<1>5. ExpectedIsLower'
    BY DEF IInv, Tables, ExpectedIsLower
<1>6. LeaderHolds'
    BY DEF IInv, Tables, Flags, LeaderHolds
<1>7. CurrentHasArtifact'
    BY DEF IInv, Tables, CurrentHasArtifact
<1>8. PinnedIsQuiet'
    BY DEF IInv, Tables, PinnedIsQuiet
<1> QED
    BY <1>1, <1>2, <1>3, <1>4, <1>5, <1>6, <1>7, <1>8 DEF IInv

\* Every step keeps the invariant.
LEMMA NextKeeps == IInv /\ [Next]_vars => IInv'
<1> SUFFICES ASSUME IInv, [Next]_vars PROVE IInv'
    OBVIOUS
<1>1. CASE UNCHANGED vars
    BY <1>1, StutterKeeps
<1>2. CASE AllQuiet
    BY <1>2, StutterKeeps DEF AllQuiet
<1>3. CASE \E v \in Versions : Choose(v)
    BY <1>3, ChooseKeeps
<1>4. ASSUME NEW p \in Processes,
             Start(p) \/ Running(p) \/ SyncFails(p) \/ Recycle(p) \/ Stop(p)
      PROVE  IInv'
    <2>1. CASE Running(p)
        BY <2>1, DecideKeeps, TryKeeps, SyncKeeps, UnlockKeeps, BuildKeeps, CheckKeeps,
           PromoteKeeps DEF Running
    <2> QED
        BY <1>4, <2>1, StartKeeps, SyncFailsKeeps, RecycleKeeps, StopKeeps
<1> QED
    BY <1>1, <1>2, <1>3, <1>4 DEF Next

-----------------------------------------------------------------------------
(* The theorems.                                                           *)

\* The inductive invariant holds in every reachable state: builds follow a
\* recorded version, expected versions passed the guard, a leader holds the
\* lock (sync_platform_registry_on_startup, _sync_as_leader).
THEOREM Invariance == Spec => []IInv
<1>1. Init => IInv
    BY InitInv
<1>2. IInv /\ [Next]_vars => IInv'
    BY NextKeeps
<1> QED
    BY <1>1, <1>2, PTL DEF Spec

\* The state of the registry and of its synchronization is well formed
\* (PlatformRegistryRepository, _sync_as_leader).
THEOREM SyncTyped == Spec => []TypeOK
<1>1. IInv => TypeOK
    BY DEF IInv, Tables, Flags, TypeOK
<1> QED
    BY <1>1, Invariance, PTL

\* At most one startup is between the election and the release of the lock,
\* as long as sessions keep their connection (try_pg_advisory_lock).
THEOREM LeaderIsOne == Spec => []OneLeader
<1>1. IInv => OneLeader
    BY DEF IInv, LeaderHolds, OneLeader, Leading
<1> QED
    BY <1>1, Invariance, PTL

\* The current version has its artifact, or is that of a fresh install
\* (_build_platform_registry_artifact).
THEOREM CurrentIsBuilt == Spec => []CurrentHasArtifact
<1>1. IInv => CurrentHasArtifact
    BY DEF IInv
<1> QED
    BY <1>1, Invariance, PTL

\* The guard against downgrades holds at the moment of promotion
\* (_is_downgrade, _promote_platform_registry_version_after_artifact_build).
THEOREM PromotionIsUpwards == Spec => []NoDowngrade
<1>1. IInv => NoDowngrade
    BY DEF IInv, ExpectedIsLower, NoDowngrade
<1> QED
    BY <1>1, Invariance, PTL

\* A version selected by an administrator while nothing is under way stays
\* selected until the next selection (_sync_as_leader).
THEOREM RollbackIsKept == Spec => RollbackKept
<1>1. ASSUME IInv, [Next]_vars
      PROVE  [pinned /\ choices' = choices => current' = current]_vars
    <2> SUFFICES ASSUME Next, pinned, choices' = choices
                 PROVE  current' = current
        BY <1>1
    <2>1. \A p \in Processes : pc[p] # "syncing" /\ (build[p] # "none" => target[p] = current)
        BY <1>1 DEF IInv, PinnedIsQuiet
    <2>2. choices \in Nat
        BY <1>1, SyncConstants DEF IInv, Tables
    <2>3. ASSUME NEW p \in Processes, Running(p)
          PROVE  current' = current
        BY <2>1, <2>3
           DEF Running, Decide, Try, Sync, Unlock, Build, Check, Promote, db
    <2>4. ASSUME NEW p \in Processes, Start(p) \/ SyncFails(p) \/ Recycle(p) \/ Stop(p)
          PROVE  current' = current
        BY <2>4 DEF Start, SyncFails, Recycle, Stop, db
    <2>5. ASSUME NEW v \in Versions, Choose(v)
          PROVE  FALSE
        BY <2>2, <2>5 DEF Choose
    <2>6. CASE AllQuiet
        BY <2>6 DEF AllQuiet, vars, db
    <2> QED
        BY <2>3, <2>4, <2>5, <2>6 DEF Next
<1> QED
    BY <1>1, Invariance, PTL DEF Spec, RollbackKept

=============================================================================

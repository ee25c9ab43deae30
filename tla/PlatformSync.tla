---------------------------- MODULE PlatformSync ----------------------------
(***************************************************************************)
(* Synchronization of the platform registry when API processes start       *)
(* (registry/sync/jobs.py): a leader elected by a PostgreSQL advisory lock *)
(* (db/locks.py) records the version it was shipped with                   *)
(* (registry/sync/base_service.py); a background task then builds the      *)
(* artifact and makes the version current.  Administrators may select      *)
(* another version at any time (admin/registry/service.py).                *)
(*                                                                         *)
(* Versions are numbers in their order.  A commit gives the session's      *)
(* connection back to the pool; the session may go on with another one,    *)
(* and an advisory lock belongs to the connection it was taken on.  A      *)
(* version with the same name has the same manifest.                       *)
(*                                                                         *)
(* Definitions with "_" and a number are variants of the one that follows  *)
(* them, each with a slip the properties must notice; nothing uses them.   *)
(***************************************************************************)
EXTENDS Integers, FiniteSets

CONSTANTS
    Processes,     \* API processes
    Versions,      \* versions, in their order
    Old,           \* versions that may be there before
    Releases,      \* versions that processes may bring
    None,
    MaxStarts,     \* bound on starts of processes
    MaxFaults,     \* bound on failed syncs, builds and crashes
    MaxChoices     \* bound on versions selected by administrators

ASSUME SyncConstants ==
    /\ Versions \subseteq Nat /\ Old \subseteq Versions /\ Releases \subseteq Versions
    /\ None \notin Versions /\ None \notin Processes
    /\ MaxStarts \in Nat /\ MaxFaults \in Nat /\ MaxChoices \in Nat

MaxSyncRetries == 3

VARIABLES
    target,     \* process -> tracecat_registry.__version__; never changes
    versions,   \* recorded versions
    current,    \* current_version_id of the repository
    artifacts,  \* versions whose artifact is in the object store
    fresh,      \* the version a fresh install was given, None before
    lock,       \* the process one of whose connections has the lock
    holds,      \* process -> its session still has that connection
    moved,      \* whether a session has changed its connection
    pc,         \* process -> where its startup sync is
    isFresh,    \* process -> is_fresh_install
    attempt,    \* process -> attempt
    expected,   \* process -> expected_current_version_id
    build,      \* process -> where its background task is
    promote,    \* process -> whether the task is to promote the version
    pinned,     \* selected while no startup was under way, all targets recorded
    starts, faults, choices

db == <<versions, current, artifacts, fresh>>
leader == <<lock, holds, moved>>
sync == <<pc, isFresh, attempt, expected>>
task == <<build, promote>>
vars == <<target, db, leader, sync, task, pinned, starts, faults, choices>>

Init ==
    /\ target \in [Processes -> Releases]
    /\ versions \in SUBSET Old /\ artifacts = versions
    /\ current \in versions \cup {None}
    /\ fresh = None
    /\ lock = None /\ holds = [p \in Processes |-> FALSE] /\ moved = FALSE
    /\ pc = [p \in Processes |-> "off"]
    /\ isFresh = [p \in Processes |-> FALSE]
    /\ attempt = [p \in Processes |-> 0]
    /\ expected = [p \in Processes |-> None]
    /\ build = [p \in Processes |-> "none"]
    /\ promote = [p \in Processes |-> FALSE]
    /\ pinned = FALSE
    /\ starts = 0 /\ faults = 0 /\ choices = 0

Goto(p, to) == pc' = [pc EXCEPT ![p] = to]
Fault == faults < MaxFaults /\ faults' = faults + 1 /\ UNCHANGED target
NoFault == UNCHANGED <<faults, target>>

-----------------------------------------------------------------------------
(* sync_platform_registry_on_startup and _sync_as_leader.                  *)

\* pg_try_advisory_lock
MayLead(p) == lock = None

Start(p) ==
    /\ pc[p] = "off" /\ starts < MaxStarts /\ starts' = starts + 1
    /\ \/ MayLead(p) /\ lock' = p /\ holds' = [holds EXCEPT ![p] = TRUE]
          /\ Goto(p, "leading") /\ UNCHANGED moved
       \/ ~MayLead(p) /\ Goto(p, "done") /\ UNCHANGED leader
    /\ NoFault
    /\ UNCHANGED <<db, isFresh, attempt, expected, task, pinned, choices>>

\* A commit: the session may come back with another connection.
Committed(p) ==
    \/ UNCHANGED <<holds, moved>>
    \/ holds' = [holds EXCEPT ![p] = FALSE] /\ moved' = TRUE

\* _schedule_platform_registry_artifact_build
Schedule(p, promoted, exp) ==
    /\ build' = [build EXCEPT ![p] = "building"]
    /\ promote' = [promote EXCEPT ![p] = promoted]
    /\ expected' = [expected EXCEPT ![p] = exp]

\* What is selected is brought up to date.
Selected_1(p) == {current}
\* "already at target version", or "no current selection"
Selected(p) == {target[p], None}

\* The versions compared the wrong way.
IsDowngrade_1(p) == current # None /\ current < target[p]
\* _is_downgrade
IsDowngrade(p) == current # None /\ target[p] < current

\* The decision; without versions get_or_create_repository may have committed
\* the repository.
Decide(p) ==
    /\ pc[p] = "leading"
    /\ IF versions = {} THEN Committed(p) ELSE UNCHANGED <<holds, moved>>
    /\ \/ /\ target[p] \in versions /\ current \in Selected(p)
          /\ Schedule(p, TRUE, current)
          /\ Goto(p, "unlocking")
          /\ UNCHANGED <<isFresh, attempt>>
       \/ /\ \/ target[p] \in versions /\ current \notin Selected(p)
             \/ target[p] \notin versions /\ IsDowngrade(p)
          /\ Goto(p, "unlocking")
          /\ UNCHANGED <<isFresh, attempt, expected, task>>
       \/ /\ target[p] \notin versions /\ ~IsDowngrade(p)
          /\ isFresh' = [isFresh EXCEPT ![p] = versions = {}]
          /\ attempt' = [attempt EXCEPT ![p] = 1]
          /\ Goto(p, "trying")
          /\ UNCHANGED <<expected, task>>
    /\ NoFault
    /\ UNCHANGED <<db, lock, pinned, starts, choices>>

\* An attempt: the guard once more, then sync_repository_v2 begins.
Try(p) ==
    /\ pc[p] = "trying"
    /\ expected' = [expected EXCEPT ![p] = current]
    /\ Goto(p, IF IsDowngrade(p) THEN "unlocking" ELSE "syncing")
    /\ NoFault
    /\ UNCHANGED <<db, leader, isFresh, attempt, task, pinned, starts, choices>>

\* sync_repository_v2: the version is recorded, and made current at once on a
\* fresh install; an existing one is returned (_resolve_sync_version).
Record(p) ==
    \/ target[p] \in versions /\ UNCHANGED <<versions, current, fresh>>
    \/ /\ target[p] \notin versions
       /\ versions' = versions \cup {target[p]}
       /\ IF isFresh[p] THEN current' = target[p] /\ fresh' = target[p]
                        ELSE UNCHANGED <<current, fresh>>

Sync(p) ==
    /\ pc[p] = "syncing"
    /\ Record(p)
    /\ Committed(p)
    /\ Schedule(p, ~isFresh[p], expected[p])
    /\ Goto(p, "unlocking")
    /\ NoFault
    /\ UNCHANGED <<artifacts, lock, isFresh, attempt, pinned, starts, choices>>

LastAttempt(p) == attempt[p] = MaxSyncRetries

\* "Platform registry sync attempt failed": rollback, and another attempt.
SyncFails(p) ==
    /\ pc[p] = "syncing" /\ Fault
    /\ Committed(p)
    /\ \/ LastAttempt(p) /\ Goto(p, "unlocking") /\ UNCHANGED attempt
       \/ ~LastAttempt(p) /\ Goto(p, "trying") /\ attempt' = [attempt EXCEPT ![p] = @ + 1]
    /\ UNCHANGED <<db, lock, isFresh, expected, task, pinned, starts, choices>>

\* pg_advisory_unlock on a connection without the lock releases nothing.
Unlock(p) ==
    /\ pc[p] = "unlocking"
    /\ lock' = IF holds[p] THEN None ELSE lock
    /\ holds' = [holds EXCEPT ![p] = FALSE]
    /\ Goto(p, "done")
    /\ NoFault
    /\ UNCHANGED <<moved, db, isFresh, attempt, expected, task, pinned, starts, choices>>

\* The pool closes the connection that has the lock (pool_recycle).
Recycle(p) ==
    /\ lock = p /\ ~holds[p]
    /\ lock' = None
    /\ NoFault
    /\ UNCHANGED <<db, holds, moved, sync, task, pinned, starts, choices>>

-----------------------------------------------------------------------------
(* _build_platform_registry_artifact                                       *)

Step(p, to) == build' = [build EXCEPT ![p] = to]

\* The upload is not waited for.
Uploaded_1(p) == artifacts
\* _build_and_upload_artifacts
Uploaded(p) == artifacts \cup {target[p]}

Build(p) ==
    /\ build[p] = "building"
    /\ \/ artifacts' = Uploaded(p) /\ Step(p, IF promote[p] THEN "built" ELSE "none") /\ NoFault
       \/ UNCHANGED artifacts /\ Step(p, "none") /\ Fault
    /\ UNCHANGED <<versions, current, fresh, leader, sync, promote, pinned, starts, choices>>

\* The repository is read: "current version changed"?
Check(p) ==
    /\ build[p] = "built"
    /\ Step(p, IF current = expected[p] THEN "promoting" ELSE "none")
    /\ NoFault
    /\ UNCHANGED <<db, leader, sync, promote, pinned, starts, choices>>

\* promote_version
Promote(p) ==
    /\ build[p] = "promoting"
    /\ current' = target[p]
    /\ Step(p, "none")
    /\ NoFault
    /\ UNCHANGED <<versions, artifacts, fresh, leader, sync, promote, pinned, starts, choices>>

-----------------------------------------------------------------------------
(* The environment.                                                        *)

Active(p) == pc[p] \notin {"off", "done"} \/ build[p] # "none"

\* promote_version of the admin service: the artifact must be ready.
Choose(v) ==
    /\ choices < MaxChoices /\ choices' = choices + 1
    /\ v \in versions \cap artifacts
    /\ current' = v
    /\ pinned' = \A p \in Processes : ~Active(p) /\ target[p] \in versions
    /\ NoFault
    /\ UNCHANGED <<versions, artifacts, fresh, leader, sync, task, starts>>

\* A process ends, at any time, and its connections with it.
Stop(p) ==
    /\ pc[p] # "off"
    /\ Goto(p, "off")
    /\ lock' = IF lock = p THEN None ELSE lock
    /\ holds' = [holds EXCEPT ![p] = FALSE]
    /\ Step(p, "none")
    /\ IF Active(p) THEN Fault ELSE NoFault
    /\ UNCHANGED <<moved, db, isFresh, attempt, expected, promote, pinned, starts, choices>>

Running(p) ==
    \/ Decide(p) \/ Try(p) \/ Sync(p) \/ Unlock(p) \/ Build(p) \/ Check(p) \/ Promote(p)

AllQuiet ==
    /\ \A p \in Processes : ~Active(p) /\ (pc[p] = "off" => starts = MaxStarts)
    /\ UNCHANGED vars

Next ==
    \/ \E p \in Processes : Start(p) \/ Running(p) \/ SyncFails(p) \/ Recycle(p) \/ Stop(p)
    \/ \E v \in Versions : Choose(v)
    \/ AllQuiet

Spec == Init /\ [][Next]_vars

\* Processes are started, and the event loop runs their tasks.
FairSpec == Spec /\ \A p \in Processes : WF_vars(Start(p)) /\ WF_vars(Running(p))

-----------------------------------------------------------------------------
(* Properties.                                                             *)

\* Types of the variables (PlatformRegistryRepository, _sync_as_leader).
TypeOK ==
    /\ target \in [Processes -> Releases]
    /\ versions \subseteq Versions /\ artifacts \subseteq Versions
    /\ current \in versions \cup {None} /\ fresh \in versions \cup {None}
    /\ lock \in Processes \cup {None}
    /\ holds \in [Processes -> BOOLEAN] /\ moved \in BOOLEAN
    /\ pc \in [Processes -> {"off", "leading", "trying", "syncing", "unlocking", "done"}]
    /\ isFresh \in [Processes -> BOOLEAN]
    /\ attempt \in [Processes -> 0 .. MaxSyncRetries]
    /\ expected \in [Processes -> Versions \cup {None}]
    /\ build \in [Processes -> {"none", "building", "built", "promoting"}]
    /\ promote \in [Processes -> BOOLEAN]
    /\ pinned \in BOOLEAN
    /\ starts \in 0 .. MaxStarts /\ faults \in 0 .. MaxFaults /\ choices \in 0 .. MaxChoices

\* "elect a single leader": two startups never record versions at once, as
\* long as a session keeps its connection (try_pg_advisory_lock).
Leading(p) == pc[p] \in {"leading", "trying", "syncing"}
OneLeader == ~moved => \A p, q \in Processes : Leading(p) /\ Leading(q) => p = q

\* The current version has its artifact in the object store: executors find
\* it whenever they are told to use it.  Only the version of a fresh install
\* is current before its artifact is built (defer_artifact_build, promote).
CurrentHasArtifact == current \in artifacts \cup {fresh, None}

\* "preserve rollback": what an administrator selected while no startup was
\* under way, among versions that include all that processes bring, stays
\* selected, however often they start, fail and stop (_sync_as_leader).
RollbackKept == [][pinned /\ choices' = choices => current' = current]_vars

\* "No-downgrade guard": a task that is about to promote its version replaces
\* none that is higher, whatever was selected, recorded or promoted between
\* the guard and now, as long as the version it has just compared with is
\* still the current one (_is_downgrade, _build_platform_registry_artifact).
NoDowngrade ==
    \A p \in Processes :
        build[p] = "promoting" /\ current = expected[p] /\ current # None => current <= target[p]

\* "automatic synchronization of the platform registry": if all processes
\* bring the same version it becomes the current one, unless a sync, a build
\* or a process fails, or an administrator selects another (_sync_as_leader).
TargetPromoted ==
    <>( \/ \E p, q \in Processes : target[p] # target[q]
        \/ faults > 0 \/ choices > 0
        \/ \A p \in Processes : current = target[p] )

=============================================================================

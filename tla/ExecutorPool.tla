---------------------------- MODULE ExecutorPool ----------------------------
(***************************************************************************)
(* The pool of warm workers of an executor                                 *)
(* (executor/backends/pool/pool.py).                                       *)
(*                                                                         *)
(* Everything runs on one event loop.  The pool's lock is never held       *)
(* across an await, so each locked section is one step; the steps below    *)
(* are the stretches between awaits.  A WorkerInfo is identified with the  *)
(* process it was made for.  Metrics, the order of the round robin and the *)
(* protocol on the socket are left out: a task on a worker ends with a     *)
(* result, an error, a timeout or a cancellation, and releases its slot.   *)
(*                                                                         *)
(* Definitions with "_" and a number are variants of the one that follows  *)
(* them, each with a slip the properties must notice; nothing uses them.   *)
(***************************************************************************)
EXTENDS Integers, FiniteSets, Sequences

CONSTANTS
    Tasks,         \* calls of execute()
    WorkerIds,     \* range(size)
    MaxPids,       \* bound on the processes ever spawned
    MaxConcurrent, \* max_concurrent_per_worker
    MaxTasks,      \* max_tasks_per_worker
    MaxCrashes,    \* bound on worker processes that die by themselves
    MaxCancels     \* bound on cancellations of tasks

ASSUME PoolConstants ==
    /\ IsFiniteSet(Tasks) /\ IsFiniteSet(WorkerIds)
    /\ WorkerIds \subseteq Nat /\ WorkerIds # {}
    /\ MaxPids \in Nat /\ MaxPids >= Cardinality(WorkerIds)
    /\ MaxConcurrent \in Nat \ {0} /\ MaxTasks \in Nat \ {0}
    /\ MaxCrashes \in Nat /\ MaxCancels \in Nat

Pids == 1 .. MaxPids    \* processes, in the order they are spawned
NoPid == 0              \* no process

VARIABLES
    workers,    \* _workers, a list of processes
    started,    \* _started
    stopping,   \* where shutdown() is: 0, or the index of the next worker
    spawned,    \* number of processes so far
    alive,      \* processes that run
    id,         \* process -> worker_id
    active,     \* process -> active_tasks
    completed,  \* process -> tasks_completed
    recycling,  \* process -> recycling
    pc,         \* task -> where it is in execute()
    worker,     \* task -> the worker it holds, or recycles
    fresh,      \* task -> the replacement it is starting
    crashes, cancels

info == <<id, active, completed, recycling>>
task == <<pc, worker, fresh>>
bounds == <<crashes, cancels>>
vars == <<workers, started, stopping, spawned, alive, info, task, bounds>>

\* "terminating", "spawning" and "starting" are the awaits of _recycle_worker:
\* for the old process, for the new process, for its socket.
Steps == {"new", "acquiring", "executing", "terminating", "spawning", "starting", "ended"}
Recycles(t) == pc[t] \in {"terminating", "spawning", "starting"}

InPool == {workers[i] : i \in DOMAIN workers}

Init ==
    /\ workers = <<>> /\ started = FALSE /\ stopping = 0
    /\ spawned = 0 /\ alive = {}
    /\ id = [p \in Pids |-> CHOOSE i \in WorkerIds : TRUE]
    /\ active = [p \in Pids |-> 0]
    /\ completed = [p \in Pids |-> 0]
    /\ recycling = [p \in Pids |-> FALSE]
    /\ pc = [t \in Tasks |-> "new"]
    /\ worker = [t \in Tasks |-> NoPid]
    /\ fresh = [t \in Tasks |-> NoPid]
    /\ crashes = 0 /\ cancels = 0

-----------------------------------------------------------------------------
(* start()                                                                 *)

\* Some of the first workers may fail to start, but not all; the others are
\* listed in the order of their ids.
Start ==
    /\ ~started /\ spawned = 0
    /\ \E n \in 1 .. Cardinality(WorkerIds), is \in [Pids -> WorkerIds] :
        /\ \A p \in Pids : p > n => is[p] = id[p]
        /\ \A p, q \in 1 .. n : p < q => is[p] < is[q]
        /\ workers' = [i \in 1 .. n |-> i]
        /\ spawned' = n
        /\ alive' = 1 .. n
        /\ id' = is
    /\ started' = TRUE
    /\ UNCHANGED <<stopping, active, completed, recycling, task, bounds>>

-----------------------------------------------------------------------------
(* _get_available_worker()                                                 *)

HasCapacity(p) == active[p] < MaxConcurrent

Available == {p \in InPool : p \in alive /\ ~recycling[p] /\ HasCapacity(p)}

Candidates == {p \in Available : \A q \in Available : active[p] <= active[q]}

\* execute() with a pool that is not started raises at once.
Enter(t) ==
    /\ pc[t] = "new"
    /\ pc' = [pc EXCEPT ![t] = IF started THEN "acquiring" ELSE "ended"]
    /\ UNCHANGED <<workers, started, stopping, spawned, alive, info, worker, fresh, bounds>>

Acquire(t) ==
    /\ pc[t] = "acquiring"
    /\ \E p \in Candidates :
        /\ active' = [active EXCEPT ![p] = @ + 1]
        /\ worker' = [worker EXCEPT ![t] = p]
    /\ pc' = [pc EXCEPT ![t] = "executing"]
    /\ UNCHANGED <<workers, started, stopping, spawned, alive, id, completed, recycling, fresh, bounds>>

\* The wait for a slot has no time limit.
GiveUp_1(t) == pc[t] = "acquiring" /\ Available = {} /\ UNCHANGED vars
\* "No available worker (all at capacity)"
GiveUp(t) ==
    /\ pc[t] = "acquiring" /\ Available = {}
    /\ pc' = [pc EXCEPT ![t] = "ended"]
    /\ UNCHANGED <<workers, started, stopping, spawned, alive, info, worker, fresh, bounds>>

-----------------------------------------------------------------------------
(* _release_worker() and _recycle_worker()                                 *)

MustRecycle(p) == completed[p] + 1 >= MaxTasks /\ active[p] <= 1 /\ ~recycling[p]

\* The slot is not given back.
Decremented_2(n) == n
\* max(0, n - 1)
Decremented(n) == IF n = 0 THEN 0 ELSE n - 1

\* The task ends in any way; the slot is given back and, if the worker is to
\* be recycled, its process is told to terminate.  That raises if the process
\* is gone already, and the worker stays marked.
Release(t) ==
    LET p == worker[t]
    IN  /\ pc[t] = "executing"
        /\ active' = [active EXCEPT ![p] = Decremented(@)]
        /\ completed' = [completed EXCEPT ![p] = @ + 1]
        /\ recycling' = [recycling EXCEPT ![p] = @ \/ MustRecycle(p)]
        /\ \/ MustRecycle(p) /\ pc' = [pc EXCEPT ![t] = "terminating"]
           \/ /\ ~MustRecycle(p) \/ p \notin alive
              /\ pc' = [pc EXCEPT ![t] = "ended"]
        /\ UNCHANGED <<workers, started, stopping, spawned, alive, id, worker, fresh, bounds>>

\* The replacement is spawned without waiting for the old process to exit.
Terminated_1(t) ==
    /\ pc[t] = "terminating"
    /\ pc' = [pc EXCEPT ![t] = "spawning"]
    /\ UNCHANGED <<workers, started, stopping, spawned, alive, info, worker, fresh, bounds>>
\* The old process has exited, on SIGTERM or on SIGKILL.
Terminated(t) ==
    /\ pc[t] = "terminating"
    /\ alive' = alive \ {worker[t]}
    /\ pc' = [pc EXCEPT ![t] = "spawning"]
    /\ UNCHANGED <<workers, started, stopping, spawned, info, worker, fresh, bounds>>

\* The replacement is created with the new process' WorkerInfo to follow.
Spawn(t) ==
    /\ pc[t] = "spawning"
    /\ \E p \in Pids :
        /\ p = spawned + 1 /\ spawned' = p
        /\ alive' = alive \cup {p}
        /\ id' = [id EXCEPT ![p] = id[worker[t]]]
        /\ fresh' = [fresh EXCEPT ![t] = p]
    /\ pc' = [pc EXCEPT ![t] = "starting"]
    /\ UNCHANGED <<workers, started, stopping, active, completed, recycling, worker, bounds>>

\* _workers[idx] = new_worker; nothing if the worker is no longer listed
PutInPlace(old, new) ==
    [i \in DOMAIN workers |-> IF workers[i] = old THEN new ELSE workers[i]]

\* The socket of the replacement exists.
Ready(t) ==
    /\ pc[t] = "starting" /\ fresh[t] \in alive
    /\ workers' = PutInPlace(worker[t], fresh[t])
    /\ pc' = [pc EXCEPT ![t] = "ended"]
    /\ UNCHANGED <<started, stopping, spawned, alive, info, worker, fresh, bounds>>

\* A worker that could not be replaced stays in the list.
Without_1(p) == workers
\* _workers.pop(idx); nothing if the worker is no longer listed
Without(p) ==
    IF p \notin InPool THEN workers
    ELSE LET idx == CHOOSE i \in DOMAIN workers : workers[i] = p
         IN  [i \in 1 .. Len(workers) - 1 |-> workers[IF i < idx THEN i ELSE i + 1]]

\* The replacement could not be created, died, or was killed because its
\* socket did not appear in time.
SpawnFails(t) ==
    /\ pc[t] \in {"spawning", "starting"}
    /\ alive' = IF pc[t] = "starting" THEN alive \ {fresh[t]} ELSE alive
    /\ workers' = Without(worker[t])
    /\ pc' = [pc EXCEPT ![t] = "ended"]
    /\ UNCHANGED <<started, stopping, spawned, info, worker, fresh, bounds>>

-----------------------------------------------------------------------------
(* Cancellation, crashes, shutdown.                                        *)

\* A task that waits for a slot gives up; one that executes goes on with
\* Release; one that recycles a worker is thrown out of _recycle_worker, and
\* execute() then "forces the release".
Cancel(t) ==
    /\ cancels < MaxCancels /\ cancels' = cancels + 1
    /\ pc[t] = "acquiring" \/ Recycles(t)
    /\ pc' = [pc EXCEPT ![t] = "ended"]
    /\ IF Recycles(t)
       THEN /\ active' = [active EXCEPT ![worker[t]] = Decremented(@)]
            /\ completed' = [completed EXCEPT ![worker[t]] = @ + 1]
       ELSE UNCHANGED <<active, completed>>
    /\ UNCHANGED <<workers, started, stopping, spawned, alive, id, recycling, worker, fresh, crashes>>

\* A worker process dies by itself.
Die(p) ==
    /\ crashes < MaxCrashes /\ crashes' = crashes + 1
    /\ p \in alive
    /\ alive' = alive \ {p}
    /\ UNCHANGED <<workers, started, stopping, spawned, info, task, cancels>>

\* shutdown() walks the list by index while recycling tasks may change it.
Shutdown ==
    /\ started /\ stopping = 0
    /\ stopping' = 1
    /\ UNCHANGED <<workers, started, spawned, alive, info, task, bounds>>

StopWorker ==
    /\ stopping \in DOMAIN workers
    /\ alive' = alive \ {workers[stopping]}
    /\ stopping' = stopping + 1
    /\ UNCHANGED <<workers, started, spawned, info, task, bounds>>

FinishShutdown ==
    /\ started /\ stopping > Len(workers)
    /\ workers' = <<>>
    /\ started' = FALSE
    /\ UNCHANGED <<stopping, spawned, alive, info, task, bounds>>

\* Everything has ended.
Stopped == stopping > 0 /\ ~started
Done ==
    /\ Stopped /\ \A t \in Tasks : pc[t] = "ended"
    /\ UNCHANGED vars

RecycleStep(t) == Terminated(t) \/ Spawn(t) \/ Ready(t) \/ SpawnFails(t)

Next ==
    \/ Start \/ Shutdown \/ StopWorker \/ FinishShutdown
    \/ \E t \in Tasks :
        Enter(t) \/ Acquire(t) \/ GiveUp(t) \/ Release(t) \/ RecycleStep(t) \/ Cancel(t)
    \/ \E p \in Pids : Die(p)
    \/ Done

Spec == Init /\ [][Next]_vars

\* The waits have time limits: 30 s for a slot, 300 s on the worker, 5 s for
\* SIGTERM, startup_timeout for a socket.
Fairness ==
    \A t \in Tasks : WF_vars(Acquire(t) \/ GiveUp(t)) /\ WF_vars(Release(t)) /\ WF_vars(RecycleStep(t))

FairSpec == Spec /\ Fairness

-----------------------------------------------------------------------------
(* Properties.                                                             *)

\* Types of the variables (WorkerInfo, WorkerPool).
TypeOK ==
    /\ workers \in Seq(Pids) /\ started \in BOOLEAN /\ stopping \in Nat
    /\ spawned \in 0 .. MaxPids /\ alive \subseteq 1 .. spawned
    /\ id \in [Pids -> WorkerIds]
    /\ active \in [Pids -> Nat] /\ completed \in [Pids -> Nat]
    /\ recycling \in [Pids -> BOOLEAN]
    /\ pc \in [Tasks -> Steps]
    /\ worker \in [Tasks -> Pids \cup {NoPid}]
    /\ fresh \in [Tasks -> Pids \cup {NoPid}]
    /\ crashes \in 0 .. MaxCrashes /\ cancels \in 0 .. MaxCancels

On(p) == {t \in Tasks : pc[t] = "executing" /\ worker[t] = p}

\* active_tasks of a worker is the number of tasks that execute on it, and at
\* most max_concurrent_per_worker: no slot leaks and none is given back twice,
\* although a cancelled recycle decrements the counter a second time
\* (_get_available_worker, _release_worker, execute).
SlotsExact ==
    \A p \in Pids : active[p] = Cardinality(On(p)) /\ active[p] <= MaxConcurrent

\* Nobody executes on a worker whose process was told to terminate because it
\* is being recycled (_release_worker decides, another task may be assigned
\* before _recycle_worker is through).
NoTaskOnRecycled == \A p \in Pids : recycling[p] => On(p) = {}

\* A worker has one process and one entry in the list, whatever was cancelled,
\* crashed or shut down in the middle of a recycle: the socket in its work
\* directory belongs to the process the pool knows, and the pool does not
\* outgrow its size (_recycle_worker, _spawn_worker).
OneProcessPerWorker ==
    /\ \A p, q \in alive : id[p] = id[q] => p = q
    /\ \A i, j \in DOMAIN workers : id[workers[i]] = id[workers[j]] => i = j

\* Every call of execute() ends, also when all workers have died and nobody
\* replaces them (_get_available_worker, "all at capacity").
EveryTaskEnds == \A t \in Tasks : pc[t] = "acquiring" ~> pc[t] = "ended"

\* "True when worker is being recycled": a worker that is marked is being
\* replaced by a task (WorkerInfo.recycling).
RecyclingHasOwner ==
    \A p \in InPool : recycling[p] => \E t \in Tasks : Recycles(t) /\ worker[t] = p

\* A worker that is marked leaves the list, replaced or removed, as long as
\* nothing is cancelled, crashes or is shut down (_recycle_worker).
UndisturbedRecycle == cancels = 0 /\ crashes = 0 /\ stopping = 0 => RecyclingHasOwner

=============================================================================

------------------------ MODULE ExecutorPool_proofs ------------------------
(***************************************************************************)
(* Proofs about ExecutorPool, for every number of tasks and workers, every *)
(* capacity, and every number of crashes and cancellations.                *)
(***************************************************************************)
EXTENDS ExecutorPool, TLAPS, FiniteSetTheorems

\* The parts of TypeOK: what is true or false, and the rest.
Flags == started \in BOOLEAN /\ recycling \in [Pids -> BOOLEAN]

Tables ==
    /\ workers \in Seq(Pids) /\ stopping \in Nat
    /\ spawned \in 0 .. MaxPids /\ alive \subseteq 1 .. spawned
    /\ id \in [Pids -> WorkerIds]
    /\ active \in [Pids -> Nat] /\ completed \in [Pids -> Nat]
    /\ pc \in [Tasks -> Steps]
    /\ worker \in [Tasks -> Pids \cup {NoPid}]
    /\ fresh \in [Tasks -> Pids \cup {NoPid}]
    /\ crashes \in 0 .. MaxCrashes /\ cancels \in 0 .. MaxCancels

\* A task that executes or recycles has a worker that was spawned; a worker
\* that is recycled by a task is marked, and by no other task.
Holding ==
    /\ \A t \in Tasks : pc[t] = "executing" => worker[t] \in 1 .. spawned
    /\ \A t \in Tasks : Recycles(t) => worker[t] \in 1 .. spawned /\ recycling[worker[t]]
    /\ \A t, u \in Tasks : Recycles(t) /\ Recycles(u) /\ worker[t] = worker[u] => t = u

\* Of the processes of a worker all but the last were recycled, and are gone.
OldAreGone ==
    \A p, q \in 1 .. spawned : p < q /\ id[p] = id[q] => recycling[p] /\ p \notin alive

\* Until the replacement is spawned, the process that is recycled is the last
\* one of its worker; when it is spawned, that process has exited.
LastIsRecycled ==
    \A t \in Tasks :
        /\ pc[t] \in {"terminating", "spawning"} =>
               \A q \in 1 .. spawned : id[q] = id[worker[t]] => q <= worker[t]
        /\ pc[t] = "spawning" => worker[t] \notin alive
        /\ pc[t] = "starting" => fresh[t] \in 1 .. spawned /\ id[fresh[t]] = id[worker[t]]

\* The list holds processes that were spawned, one per worker.
Listed ==
    /\ \A i \in DOMAIN workers : workers[i] \in 1 .. spawned
    /\ \A i, j \in DOMAIN workers : id[workers[i]] = id[workers[j]] => i = j

IInv ==
    /\ Flags
    /\ Tables
    /\ Holding
    /\ OldAreGone
    /\ LastIsRecycled
    /\ Listed
    /\ SlotsExact
    /\ NoTaskOnRecycled

-----------------------------------------------------------------------------
(* Counting the tasks on a worker.                                         *)

\* The tasks on a worker are finitely many.
LEMMA OnFinite ==
    ASSUME NEW p
    PROVE  IsFiniteSet(On(p)) /\ Cardinality(On(p)) \in Nat
           /\ (Cardinality(On(p)) = 0 <=> On(p) = {})
<1>1. On(p) \subseteq Tasks
    BY DEF On
<1> QED
    BY <1>1, FS_Subset, FS_CardinalityType, FS_EmptySet, PoolConstants

\* What was spawned is a process.
LEMMA SpawnedIsPid ==
    ASSUME Tables, NEW p \in 1 .. spawned
    PROVE  p \in Pids
BY PoolConstants DEF Tables, Pids

\* As long as nobody begins or ends to execute, the counters stay exact.
LEMMA SlotsKept ==
    ASSUME IInv, pc' \in [Tasks -> Steps], UNCHANGED <<active, recycling>>,
           \A t \in Tasks : pc'[t] = "executing" <=> pc[t] = "executing",
           \A t \in Tasks : pc[t] = "executing" => worker'[t] = worker[t]
    PROVE  SlotsExact' /\ NoTaskOnRecycled'
<1>1. \A p \in Pids : On(p)' = On(p)
    BY DEF On
<1> QED
    BY <1>1 DEF IInv, SlotsExact, NoTaskOnRecycled

-----------------------------------------------------------------------------
(* The actions.                                                            *)

\* The initial states satisfy the invariant.
LEMMA InitInv == Init => IInv
<1> SUFFICES ASSUME Init PROVE IInv
    OBVIOUS
<1>1. Tables
    <2>1. (CHOOSE i \in WorkerIds : TRUE) \in WorkerIds
        BY PoolConstants
    <2> QED
        BY <2>1, PoolConstants DEF Init, Tables, Steps, NoPid
<1>2. Flags
    BY DEF Init, Flags
<1>3. Holding /\ OldAreGone /\ LastIsRecycled /\ Listed
    BY DEF Init, Holding, OldAreGone, LastIsRecycled, Listed, Recycles
<1>4. \A p \in Pids : On(p) = {}
    BY DEF Init, On
<1>5. SlotsExact
    <2>1. \A p \in Pids : active[p] = 0 /\ Cardinality(On(p)) = 0
        BY <1>4, OnFinite DEF Init
    <2> QED
        BY <2>1, PoolConstants DEF SlotsExact
<1>6. NoTaskOnRecycled
    BY <1>4 DEF NoTaskOnRecycled
<1> QED
    BY <1>1, <1>2, <1>3, <1>5, <1>6 DEF IInv

\* Start: the first processes have different ids.
LEMMA StartKeeps ==
    ASSUME IInv, Start
    PROVE  IInv'
<1> USE DEF Start, task, bounds
<1>0. PICK n \in 1 .. Cardinality(WorkerIds), is \in [Pids -> WorkerIds] :
          /\ \A p, q \in 1 .. n : p < q => is[p] < is[q]
          /\ workers' = [i \in 1 .. n |-> i]
          /\ spawned' = n
          /\ alive' = 1 .. n
          /\ id' = is
    OBVIOUS
<1>1. n \in 1 .. MaxPids /\ 1 .. n \subseteq Pids
    BY PoolConstants, FS_CardinalityType DEF Pids
<1>2. \A p, q \in 1 .. n : id'[p] = id'[q] => p = q
    <2> SUFFICES ASSUME NEW p \in 1 .. n, NEW q \in 1 .. n, is[p] = is[q], p # q
                 PROVE  FALSE
        BY <1>0
    <2>1. is[p] \in Nat /\ is[q] \in Nat
        BY <1>1, PoolConstants
    <2> QED
        BY <1>0, <2>1
<1>3. Tables'
    BY <1>0, <1>1, PoolConstants DEF IInv, Tables
<1>4. Flags'
    BY DEF IInv, Flags
<1>5. \A t \in Tasks : pc[t] # "executing" /\ ~Recycles(t)
    BY DEF IInv, Holding
<1>6. Holding' /\ LastIsRecycled'
    BY <1>5 DEF Holding, LastIsRecycled, Recycles
<1>7. OldAreGone'
    BY <1>0, <1>2 DEF OldAreGone
<1>8. Listed'
    BY <1>0, <1>2 DEF Listed
<1>9. SlotsExact' /\ NoTaskOnRecycled'
    BY SlotsKept DEF IInv, Tables
<1> QED
    BY <1>3, <1>4, <1>6, <1>7, <1>8, <1>9 DEF IInv

\* A step that leaves the processes and the list alone, and after which a
\* task is either where it was or neither executes nor recycles.
LEMMA EndedKeeps ==
    ASSUME IInv, NEW t \in Tasks,
           pc' \in [Tasks -> Steps],
           pc'[t] \in {"acquiring", "ended"},
           \A u \in Tasks \ {t} : pc'[u] = pc[u],
           spawned' = spawned, alive' \subseteq alive,
           UNCHANGED <<id, recycling, worker, fresh>>
    PROVE  Holding' /\ OldAreGone' /\ LastIsRecycled'
<1>1. Holding'
    BY DEF IInv, Holding, Recycles
<1>2. OldAreGone'
    BY DEF IInv, OldAreGone
<1>3. LastIsRecycled'
    <2> SUFFICES ASSUME NEW u \in Tasks,
                        pc'[u] \in {"terminating", "spawning", "starting"}
                 PROVE  /\ pc'[u] \in {"terminating", "spawning"} =>
                              \A q \in 1 .. spawned : id[q] = id[worker[u]] => q <= worker[u]
                        /\ pc'[u] = "spawning" => worker[u] \notin alive
                        /\ pc'[u] = "starting" => fresh[u] \in 1 .. spawned /\ id[fresh[u]] = id[worker[u]]
        BY DEF LastIsRecycled
    <2>1. u # t /\ pc'[u] = pc[u]
        OBVIOUS
    <2> QED
        BY <2>1 DEF IInv, LastIsRecycled
<1> QED
    BY <1>1, <1>2, <1>3

\* Enter and GiveUp change only where the task is.
LEMMA WaitKeeps ==
    ASSUME IInv, NEW t \in Tasks, Enter(t) \/ GiveUp(t)
    PROVE  IInv'
<1> USE DEF Enter, GiveUp, info, bounds
<1>1. Tables'
    BY DEF IInv, Tables, Steps
<1>2. Flags' /\ Listed'
    BY DEF IInv, Flags, Listed
<1>3. Holding' /\ OldAreGone' /\ LastIsRecycled'
    <2>1. /\ pc' \in [Tasks -> Steps]
          /\ pc'[t] \in {"acquiring", "ended"}
          /\ \A u \in Tasks \ {t} : pc'[u] = pc[u]
        BY DEF IInv, Tables, Steps
    <2> QED
        BY <2>1, EndedKeeps
<1>4. SlotsExact' /\ NoTaskOnRecycled'
    BY <1>1, SlotsKept DEF IInv, Tables
<1> QED
    BY <1>1, <1>2, <1>3, <1>4 DEF IInv

\* Acquire: the worker has room and is not marked.
LEMMA AcquireKeeps ==
    ASSUME IInv, NEW t \in Tasks, Acquire(t)
    PROVE  IInv'
<1> USE DEF Acquire, bounds
<1>0. PICK p \in Candidates :
          /\ active' = [active EXCEPT ![p] = @ + 1]
          /\ worker' = [worker EXCEPT ![t] = p]
    OBVIOUS
<1>1. p \in 1 .. spawned /\ p \in Pids /\ ~recycling[p] /\ active[p] < MaxConcurrent
    <2>1. p \in InPool /\ ~recycling[p] /\ active[p] < MaxConcurrent
        BY DEF Candidates, Available, HasCapacity
    <2>2. p \in 1 .. spawned
        BY <2>1 DEF InPool, IInv, Listed
    <2> QED
        BY <2>1, <2>2, SpawnedIsPid DEF IInv
<1>a. /\ pc'[t] = "executing" /\ worker'[t] = p
      /\ \A u \in Tasks \ {t} : pc'[u] = pc[u] /\ worker'[u] = worker[u]
    BY <1>0, <1>1 DEF IInv, Tables
<1>2. Tables'
    BY <1>0, <1>1 DEF IInv, Tables, Steps
<1>3. Flags' /\ OldAreGone' /\ Listed'
    BY DEF IInv, Flags, OldAreGone, Listed
<1>4. Holding'
    BY <1>a, <1>1 DEF IInv, Holding, Recycles
<1>b. LastIsRecycled'
    BY <1>a, <1>1 DEF IInv, LastIsRecycled
<1>5. On(p)' = On(p) \cup {t} /\ t \notin On(p)
    BY <1>a, <1>1 DEF On
<1>6. \A q \in Pids \ {p} : On(q)' = On(q)
    BY <1>a, <1>1 DEF On
<1>7. Cardinality(On(p)') = Cardinality(On(p)) + 1
    BY <1>5, OnFinite, FS_AddElement
<1>8. SlotsExact'
    <2>1. active'[p] = active[p] + 1 /\ \A q \in Pids \ {p} : active'[q] = active[q]
        BY <1>0, <1>1 DEF IInv, Tables
    <2>2. active[p] \in Nat
        BY <1>1 DEF IInv, Tables
    <2> QED
        BY <1>1, <1>6, <1>7, <2>1, <2>2, PoolConstants DEF IInv, SlotsExact
<1>9. NoTaskOnRecycled'
    BY <1>1, <1>6 DEF IInv, NoTaskOnRecycled
<1> QED
    BY <1>2, <1>3, <1>4, <1>b, <1>8, <1>9 DEF IInv

\* Release: the slot was counted; a worker that is marked has no other task.
LEMMA ReleaseKeeps ==
    ASSUME IInv, NEW t \in Tasks, Release(t)
    PROVE  IInv'
<1>0. PICK p : p = worker[t]
    OBVIOUS
<1>r. /\ pc[t] = "executing"
      /\ active' = [active EXCEPT ![p] = Decremented(@)]
      /\ completed' = [completed EXCEPT ![p] = @ + 1]
      /\ recycling' = [recycling EXCEPT ![p] = @ \/ MustRecycle(p)]
      /\ \/ MustRecycle(p) /\ pc' = [pc EXCEPT ![t] = "terminating"]
         \/ pc' = [pc EXCEPT ![t] = "ended"]
      /\ UNCHANGED <<workers, started, stopping, spawned, alive, id, worker, fresh, bounds>>
    BY <1>0 DEF Release
<1>1. p \in 1 .. spawned /\ p \in Pids
    <2>1. p \in 1 .. spawned
        BY <1>0, <1>r DEF IInv, Holding
    <2> QED
        BY <2>1, SpawnedIsPid DEF IInv
<1>2. t \in On(p) /\ active[p] = Cardinality(On(p)) /\ ~recycling[p]
    BY <1>0, <1>r, <1>1 DEF On, IInv, SlotsExact, NoTaskOnRecycled
<1>a. /\ pc'[t] \in {"terminating", "ended"}
      /\ pc'[t] = "terminating" => MustRecycle(p)
      /\ \A u \in Tasks \ {t} : pc'[u] = pc[u]
    BY <1>r DEF IInv, Tables
<1>3. On(p)' = On(p) \ {t} /\ \A q \in Pids \ {p} : On(q)' = On(q)
    BY <1>0, <1>1, <1>a, <1>r DEF On
<1>4. Cardinality(On(p)') = Cardinality(On(p)) - 1 /\ Cardinality(On(p)) \in Nat \ {0}
    <2>1. Cardinality(On(p) \ {t}) = Cardinality(On(p)) - 1
        BY <1>2, OnFinite, FS_RemoveElement
    <2>2. On(p) # {}
        BY <1>2
    <2> QED
        BY <1>3, <2>1, <2>2, OnFinite
<1>5. active'[p] = active[p] - 1 /\ \A q \in Pids \ {p} : active'[q] = active[q]
    BY <1>1, <1>2, <1>4, <1>r DEF Decremented, IInv, Tables
<1>6. (recycling'[p] <=> MustRecycle(p)) /\ \A q \in Pids \ {p} : recycling'[q] = recycling[q]
    <2>1. recycling'[p] = (recycling[p] \/ MustRecycle(p))
        BY <1>1, <1>r DEF IInv, Flags
    <2>2. \A q \in Pids \ {p} : recycling'[q] = recycling[q]
        BY <1>1, <1>r DEF IInv, Flags
    <2> QED
        BY <1>2, <2>1, <2>2, Zenon
<1>7. Tables'
    <2>1. active' \in [Pids -> Nat] /\ completed' \in [Pids -> Nat]
        BY <1>1, <1>2, <1>4, <1>r DEF IInv, Tables, Decremented
    <2>2. pc' \in [Tasks -> Steps]
        BY <1>r DEF IInv, Tables, Steps
    <2> QED
        BY <2>1, <2>2, <1>r DEF IInv, Tables, bounds
<1>8. Flags'
    <2>1. (recycling[p] \/ MustRecycle(p)) \in BOOLEAN
        BY Zenon
    <2> QED
        BY <2>1, <1>r DEF IInv, Flags
<1>9. OldAreGone'
    BY <1>1, <1>2, <1>6, <1>r, SpawnedIsPid DEF IInv, OldAreGone
<1>10. Listed'
    BY <1>r DEF IInv, Listed
<1>11. Holding'
    <2>1. \A u \in Tasks : pc'[u] = "executing" => worker'[u] \in 1 .. spawned'
        BY <1>a, <1>r DEF IInv, Holding
    <2>2. ASSUME NEW u \in Tasks, Recycles(u)'
          PROVE  worker'[u] \in 1 .. spawned' /\ recycling'[worker'[u]]
        <3>1. CASE u = t
            BY <3>1, <2>2, <1>0, <1>1, <1>a, <1>6, <1>r DEF Recycles
        <3>2. CASE u # t
            <4>1. Recycles(u)
                BY <3>2, <2>2, <1>a DEF Recycles
            <4>2. worker[u] \in 1 .. spawned /\ recycling[worker[u]]
                BY <4>1 DEF IInv, Holding
            <4>3. worker[u] \in Pids \ {p}
                BY <4>2, <1>2, SpawnedIsPid DEF IInv
            <4> QED
                BY <4>2, <4>3, <1>6, <1>r
        <3> QED
            BY <3>1, <3>2
    <2>3. ASSUME NEW u \in Tasks, NEW v \in Tasks, Recycles(u)', Recycles(v)', worker'[u] = worker'[v]
          PROVE  u = v
        <3>1. \A x \in Tasks \ {t} : Recycles(x)' => Recycles(x) /\ worker[x] # p
            BY <1>a, <1>2 DEF IInv, Holding, Recycles
        <3> QED
            BY <2>3, <3>1, <1>0, <1>r DEF IInv, Holding
    <2> QED
        BY <2>1, <2>2, <2>3 DEF Holding
<1>12. LastIsRecycled'
    <2>1. \A q \in 1 .. spawned : id[q] = id[p] => q <= p
        BY <1>1, <1>2 DEF IInv, Tables, OldAreGone
    <2> QED
        BY <2>1, <1>0, <1>a, <1>r DEF IInv, LastIsRecycled
<1>13. SlotsExact'
    <2>1. active'[p] = Cardinality(On(p)') /\ active'[p] <= MaxConcurrent
        BY <1>1, <1>2, <1>4, <1>5, PoolConstants DEF IInv, SlotsExact
    <2>2. \A q \in Pids \ {p} : active'[q] = Cardinality(On(q)') /\ active'[q] <= MaxConcurrent
        BY <1>3, <1>5 DEF IInv, SlotsExact
    <2> QED
        BY <2>1, <2>2 DEF SlotsExact
<1>14. NoTaskOnRecycled'
    <2>1. MustRecycle(p) => Cardinality(On(p) \ {t}) = 0
        BY <1>2, <1>3, <1>4 DEF MustRecycle
    <2>2. IsFiniteSet(On(p) \ {t})
        BY OnFinite, FS_Subset
    <2>3. MustRecycle(p) => On(p)' = {}
        BY <2>1, <2>2, <1>3, FS_EmptySet
    <2> QED
        BY <1>1, <1>3, <1>6, <2>3 DEF IInv, NoTaskOnRecycled
<1> QED
    BY <1>7, <1>8, <1>9, <1>10, <1>11, <1>12, <1>13, <1>14 DEF IInv

\* Terminated: the old process is gone.
LEMMA TerminatedKeeps ==
    ASSUME IInv, NEW t \in Tasks, Terminated(t)
    PROVE  IInv'
<1> USE DEF Terminated
<1>a. pc[t] = "terminating" /\ pc'[t] = "spawning" /\ \A u \in Tasks \ {t} : pc'[u] = pc[u]
    BY DEF IInv, Tables
<1>1. Tables'
    BY DEF IInv, Tables, Steps, info, bounds
<1>2. Flags' /\ Listed' /\ OldAreGone'
    BY DEF IInv, Flags, Listed, OldAreGone, info
<1>3. Holding'
    BY <1>a DEF IInv, Holding, Recycles, info
<1>4. LastIsRecycled'
    BY <1>a DEF IInv, LastIsRecycled, info
<1>5. SlotsExact' /\ NoTaskOnRecycled'
    BY <1>1, <1>a, SlotsKept DEF Tables, info
<1> QED
    BY <1>1, <1>2, <1>3, <1>4, <1>5 DEF IInv

\* Spawn: all earlier processes of the worker are gone, and no other task
\* recycles the worker.
LEMMA SpawnKeeps ==
    ASSUME IInv, NEW t \in Tasks, Spawn(t)
    PROVE  IInv'
<1>0. PICK p \in Pids :
          /\ p = spawned + 1 /\ spawned' = p
          /\ alive' = alive \cup {p}
          /\ id' = [id EXCEPT ![p] = id[worker[t]]]
          /\ fresh' = [fresh EXCEPT ![t] = p]
    BY DEF Spawn
<1>r. pc[t] = "spawning" /\ pc' = [pc EXCEPT ![t] = "starting"]
      /\ UNCHANGED <<workers, started, stopping, active, completed, recycling, worker, bounds>>
    BY DEF Spawn
<1>n. spawned \in Nat /\ p \notin 1 .. spawned /\ 1 .. spawned' = (1 .. spawned) \cup {p}
    BY <1>0 DEF IInv, Tables
<1>w. worker[t] \in 1 .. spawned /\ recycling[worker[t]] /\ worker[t] \notin alive
    BY <1>r DEF IInv, Holding, LastIsRecycled, Recycles
<1>a. pc'[t] = "starting" /\ \A u \in Tasks \ {t} : pc'[u] = pc[u]
    BY <1>r DEF IInv, Tables
<1>f. fresh'[t] = p /\ \A u \in Tasks \ {t} : fresh'[u] = fresh[u]
    BY <1>0 DEF IInv, Tables
<1>i. id'[p] = id[worker[t]] /\ \A q \in 1 .. spawned : id'[q] = id[q]
    BY <1>0, <1>n, SpawnedIsPid DEF IInv, Tables
<1>l. \A q \in 1 .. spawned : id[q] = id[worker[t]] => q <= worker[t]
    BY <1>r DEF IInv, LastIsRecycled
<1>1. Tables'
    <2>1. id' \in [Pids -> WorkerIds]
        BY <1>0, <1>w, SpawnedIsPid DEF IInv, Tables
    <2>2. spawned' \in 0 .. MaxPids /\ alive' \subseteq 1 .. spawned'
        BY <1>0, <1>n, PoolConstants DEF IInv, Tables, Pids
    <2>3. pc' \in [Tasks -> Steps] /\ fresh' \in [Tasks -> Pids \cup {NoPid}]
        BY <1>0, <1>r DEF IInv, Tables, Steps
    <2> QED
        BY <2>1, <2>2, <2>3, <1>r DEF IInv, Tables, bounds
<1>2. Flags'
    BY <1>r DEF IInv, Flags
<1>3. Listed'
    <2>1. \A i \in DOMAIN workers : workers[i] \in 1 .. spawned
        BY DEF IInv, Listed
    <2> QED
        BY <2>1, <1>r, <1>n, <1>i DEF IInv, Listed
<1>4. OldAreGone'
    <2> SUFFICES ASSUME NEW q \in 1 .. spawned', NEW s \in 1 .. spawned', q < s, id'[q] = id'[s]
                 PROVE  recycling[q] /\ q \notin alive'
        BY <1>r DEF OldAreGone
    <2>1. q \in 1 .. spawned
        BY <1>0, <1>n
    <2>2. CASE s \in 1 .. spawned
        <3>1. recycling[q] /\ q \notin alive
            BY <2>1, <2>2, <1>i DEF IInv, OldAreGone
        <3> QED
            BY <3>1, <2>1, <1>0, <1>n
    <2>3. CASE s = p
        <3>1. id[q] = id[worker[t]]
            BY <2>1, <2>3, <1>i
        <3>2. q <= worker[t]
            BY <3>1, <2>1, <1>l
        <3>3. CASE q = worker[t]
            BY <3>3, <2>1, <1>w, <1>0, <1>n
        <3>4. CASE q < worker[t]
            <4>1. recycling[q] /\ q \notin alive
                BY <3>1, <3>4, <2>1, <1>w DEF IInv, OldAreGone
            <4> QED
                BY <4>1, <2>1, <1>0, <1>n
        <3> QED
            BY <3>2, <3>3, <3>4, <2>1, <1>w
    <2> QED
        BY <2>2, <2>3, <1>n
<1>5. Holding'
    <2>1. \A u \in Tasks : (Recycles(u)' <=> Recycles(u))
        BY <1>a, <1>r DEF Recycles
    <2>2. \A u \in Tasks : pc'[u] = "executing" => pc[u] = "executing"
        BY <1>a, <1>r
    <2> QED
        BY <2>1, <2>2, <1>r, <1>n DEF IInv, Holding
<1>6. LastIsRecycled'
    <2> SUFFICES ASSUME NEW u \in Tasks
                 PROVE  /\ pc'[u] \in {"terminating", "spawning"} =>
                              \A q \in 1 .. spawned' : id'[q] = id'[worker[u]] => q <= worker[u]
                        /\ pc'[u] = "spawning" => worker[u] \notin alive'
                        /\ pc'[u] = "starting" =>
                              fresh'[u] \in 1 .. spawned' /\ id'[fresh'[u]] = id'[worker[u]]
        BY <1>r DEF LastIsRecycled
    <2>1. CASE u = t
        BY <2>1, <1>a, <1>f, <1>n, <1>i, <1>w
    <2>2. CASE u # t /\ Recycles(u)
        <3>1. worker[u] \in 1 .. spawned /\ worker[u] # worker[t]
            BY <2>2, <1>r DEF IInv, Holding, Recycles
        <3>2. pc[u] \in {"terminating", "spawning"} => id[worker[u]] # id[worker[t]]
            <4> SUFFICES ASSUME pc[u] \in {"terminating", "spawning"}, id[worker[u]] = id[worker[t]]
                         PROVE  FALSE
                OBVIOUS
            <4>1. worker[t] <= worker[u]
                BY <1>w DEF IInv, LastIsRecycled
            <4>2. worker[u] <= worker[t]
                BY <3>1, <1>l
            <4> QED
                BY <3>1, <4>1, <4>2, <1>w
        <3>3. pc'[u] \in {"terminating", "spawning"} =>
                  \A q \in 1 .. spawned' : id'[q] = id'[worker[u]] => q <= worker[u]
            BY <2>2, <3>1, <3>2, <1>a, <1>n, <1>i DEF IInv, LastIsRecycled
        <3>4. pc'[u] = "spawning" => worker[u] \notin alive'
            BY <2>2, <3>1, <1>a, <1>0, <1>n DEF IInv, LastIsRecycled
        <3>5. pc'[u] = "starting" => fresh'[u] \in 1 .. spawned' /\ id'[fresh'[u]] = id'[worker[u]]
            BY <2>2, <3>1, <1>a, <1>f, <1>n, <1>i DEF IInv, LastIsRecycled
        <3> QED
            BY <3>3, <3>4, <3>5
    <2>3. CASE u # t /\ ~Recycles(u)
        BY <2>3, <1>a DEF Recycles
    <2> QED
        BY <2>1, <2>2, <2>3
<1>7. SlotsExact' /\ NoTaskOnRecycled'
    BY <1>1, <1>a, <1>r, SlotsKept DEF Tables
<1> QED
    BY <1>1, <1>2, <1>3, <1>4, <1>5, <1>6, <1>7 DEF IInv

\* Ready: the replacement has the id of the process it stands in for.
LEMMA ReadyKeeps ==
    ASSUME IInv, NEW t \in Tasks, Ready(t)
    PROVE  IInv'
<1>r. /\ pc[t] = "starting" /\ workers' = PutInPlace(worker[t], fresh[t])
      /\ pc' = [pc EXCEPT ![t] = "ended"]
      /\ UNCHANGED <<started, stopping, spawned, alive, info, worker, fresh, bounds>>
    BY DEF Ready
<1>a. pc' \in [Tasks -> Steps] /\ pc'[t] = "ended" /\ \A u \in Tasks \ {t} : pc'[u] = pc[u]
    BY <1>r DEF IInv, Tables, Steps
<1>f. fresh[t] \in 1 .. spawned /\ id[fresh[t]] = id[worker[t]]
    BY <1>r DEF IInv, LastIsRecycled
<1>w. /\ workers' \in Seq(Pids) /\ DOMAIN workers' = DOMAIN workers
      /\ \A i \in DOMAIN workers : workers'[i] \in {workers[i], fresh[t]}
      /\ \A i \in DOMAIN workers : id[workers'[i]] = id[workers[i]]
    <2>1. fresh[t] \in Pids /\ workers \in Seq(Pids)
        BY <1>f, SpawnedIsPid DEF IInv, Tables
    <2>2. workers' = [i \in DOMAIN workers |-> IF workers[i] = worker[t] THEN fresh[t] ELSE workers[i]]
        BY <1>r DEF PutInPlace
    <2> QED
        BY <1>f, <2>1, <2>2
<1>1. Tables'
    BY <1>a, <1>r, <1>w DEF IInv, Tables, info, bounds
<1>2. Flags'
    BY <1>r DEF IInv, Flags, info
<1>3. Listed'
    BY <1>r, <1>w, <1>f DEF IInv, Listed, info
<1>4. Holding' /\ OldAreGone' /\ LastIsRecycled'
    BY <1>a, <1>r, EndedKeeps DEF info
<1>5. SlotsExact' /\ NoTaskOnRecycled'
    BY <1>a, <1>r, SlotsKept DEF info
<1> QED
    BY <1>1, <1>2, <1>3, <1>4, <1>5 DEF IInv

\* SpawnFails: an entry leaves the list.
LEMMA SpawnFailsKeeps ==
    ASSUME IInv, NEW t \in Tasks, SpawnFails(t)
    PROVE  IInv'
<1>r. /\ pc[t] \in {"spawning", "starting"} /\ alive' \subseteq alive
      /\ workers' = Without(worker[t])
      /\ pc' = [pc EXCEPT ![t] = "ended"]
      /\ UNCHANGED <<started, stopping, spawned, info, worker, fresh, bounds>>
    BY DEF SpawnFails
<1>a. pc' \in [Tasks -> Steps] /\ pc'[t] = "ended" /\ \A u \in Tasks \ {t} : pc'[u] = pc[u]
    BY <1>r DEF IInv, Tables, Steps
<1>w. workers' \in Seq(Pids) /\ Listed'
    <2>1. CASE worker[t] \notin InPool
        BY <2>1, <1>r DEF Without, IInv, Tables, Listed, info
    <2>2. CASE worker[t] \in InPool
        <3>1. PICK k \in DOMAIN workers :
                  workers' = [i \in 1 .. Len(workers) - 1 |-> workers[IF i < k THEN i ELSE i + 1]]
            BY <2>2, <1>r DEF Without, InPool
        <3>2. Len(workers) \in Nat /\ DOMAIN workers = 1 .. Len(workers)
            BY DEF IInv, Tables
        <3>3. \A i \in 1 .. Len(workers) - 1 : (IF i < k THEN i ELSE i + 1) \in DOMAIN workers
            BY <3>2
        <3>4. workers' \in Seq(Pids) /\ DOMAIN workers' = 1 .. Len(workers) - 1
            BY <3>1, <3>2, <3>3 DEF IInv, Tables
        <3>5. \A i \in DOMAIN workers' : workers'[i] = workers[IF i < k THEN i ELSE i + 1]
            BY <3>1, <3>4
        <3>6. \A i \in DOMAIN workers' : workers'[i] \in 1 .. spawned
            BY <3>3, <3>4, <3>5 DEF IInv, Listed
        <3>7. ASSUME NEW i \in DOMAIN workers', NEW j \in DOMAIN workers', id[workers'[i]] = id[workers'[j]]
              PROVE  i = j
            <4> DEFINE old(n) == IF n < k THEN n ELSE n + 1
            <4>1. old(i) = old(j)
                <5>1. old(i) \in DOMAIN workers /\ old(j) \in DOMAIN workers
                    BY <3>3, <3>4
                <5>2. id[workers[old(i)]] = id[workers[old(j)]]
                    BY <3>5, <3>7
                <5> HIDE DEF old
                <5> QED
                    BY <5>1, <5>2 DEF IInv, Listed
            <4> QED
                BY <3>2, <3>4, <4>1
        <3> QED
            BY <3>4, <3>6, <3>7, <1>r DEF Listed, info
    <2> QED
        BY <2>1, <2>2
<1>1. Tables'
    BY <1>a, <1>r, <1>w DEF IInv, Tables, info, bounds
<1>2. Flags'
    BY <1>r DEF IInv, Flags, info
<1>4. Holding' /\ OldAreGone' /\ LastIsRecycled'
    BY <1>a, <1>r, EndedKeeps DEF info
<1>5. SlotsExact' /\ NoTaskOnRecycled'
    BY <1>a, <1>r, SlotsKept DEF info
<1> QED
    BY <1>1, <1>2, <1>w, <1>4, <1>5 DEF IInv

\* Cancel: the second decrement finds the counter at zero already.
LEMMA CancelKeeps ==
    ASSUME IInv, NEW t \in Tasks, Cancel(t)
    PROVE  IInv'
<1>r. /\ cancels < MaxCancels /\ cancels' = cancels + 1
      /\ pc[t] = "acquiring" \/ Recycles(t)
      /\ pc' = [pc EXCEPT ![t] = "ended"]
      /\ UNCHANGED <<workers, started, stopping, spawned, alive, id, recycling, worker, fresh, crashes>>
    BY DEF Cancel
<1>a. pc' \in [Tasks -> Steps] /\ pc'[t] = "ended" /\ \A u \in Tasks \ {t} : pc'[u] = pc[u]
    BY <1>r DEF IInv, Tables, Steps
<1>1. active' = active /\ completed' \in [Pids -> Nat]
    <2>1. CASE ~Recycles(t)
        BY <2>1 DEF Cancel, IInv, Tables
    <2>2. CASE Recycles(t)
        <3>1. worker[t] \in Pids /\ recycling[worker[t]]
            BY <2>2, SpawnedIsPid DEF IInv, Holding
        <3>2. On(worker[t]) = {}
            BY <3>1 DEF IInv, NoTaskOnRecycled
        <3>3. active[worker[t]] = 0
            BY <3>1, <3>2, OnFinite DEF IInv, SlotsExact
        <3>4. active' = active
            BY <2>2, <3>1, <3>3 DEF Cancel, Decremented, IInv, Tables
        <3>5. completed' \in [Pids -> Nat]
            BY <2>2, <3>1 DEF Cancel, IInv, Tables
        <3> QED
            BY <3>4, <3>5
    <2> QED
        BY <2>1, <2>2
<1>2. cancels' \in 0 .. MaxCancels
    BY <1>r, PoolConstants DEF IInv, Tables
<1>3. Tables'
    BY <1>1, <1>2, <1>a, <1>r DEF IInv, Tables
<1>4. Flags' /\ Listed'
    BY <1>r DEF IInv, Flags, Listed
<1>5. Holding' /\ OldAreGone' /\ LastIsRecycled'
    BY <1>a, <1>r, EndedKeeps
<1>6. SlotsExact' /\ NoTaskOnRecycled'
    BY <1>1, <1>a, <1>r, SlotsKept DEF Recycles
<1> QED
    BY <1>3, <1>4, <1>5, <1>6 DEF IInv

\* Die, Shutdown, StopWorker and FinishShutdown: processes exit and the list
\* is emptied; no task moves.
LEMMA ExitKeeps ==
    ASSUME IInv, Shutdown \/ StopWorker \/ FinishShutdown \/ \E p \in Pids : Die(p)
    PROVE  IInv'
<1> USE DEF Shutdown, StopWorker, FinishShutdown, Die, info, task, bounds
<1>r. alive' \subseteq alive /\ UNCHANGED <<spawned, id, active, completed, recycling, pc, worker, fresh, cancels>>
    OBVIOUS
<1>1. crashes' \in 0 .. MaxCrashes
    BY PoolConstants DEF IInv, Tables
<1>2. workers' \in Seq(Pids) /\ stopping' \in Nat
    <2>1. workers \in Seq(Pids) /\ stopping \in Nat
        BY DEF IInv, Tables
    <2>2. workers' = workers \/ workers' = <<>>
        OBVIOUS
    <2>3. stopping' = stopping \/ stopping' = 1 \/ stopping' = stopping + 1
        OBVIOUS
    <2>4. <<>> \in Seq(Pids)
        OBVIOUS
    <2>5. workers' \in Seq(Pids)
        BY <2>1, <2>2, <2>4
    <2>6. stopping' \in Nat
        BY <2>1, <2>3
    <2> QED
        BY <2>5, <2>6
<1>3. Tables'
    BY <1>r, <1>1, <1>2 DEF IInv, Tables
<1>4. Flags'
    BY <1>r DEF IInv, Flags
<1>5. Listed'
    BY <1>r DEF IInv, Listed
<1>6. Holding'
    BY <1>r DEF IInv, Holding, Recycles
<1>7. OldAreGone' /\ LastIsRecycled'
    BY <1>r DEF IInv, OldAreGone, LastIsRecycled
<1>8. SlotsExact' /\ NoTaskOnRecycled'
    BY <1>3, <1>r, SlotsKept DEF Tables
<1> QED
    BY <1>3, <1>4, <1>5, <1>6, <1>7, <1>8 DEF IInv

\* Every step preserves the invariant.
LEMMA NextKeeps == IInv /\ [Next]_vars => IInv'
<1> SUFFICES ASSUME IInv, [Next]_vars PROVE IInv'
    OBVIOUS
<1>1. CASE Start
    BY <1>1, StartKeeps
<1>2. CASE Shutdown \/ StopWorker \/ FinishShutdown \/ \E p \in Pids : Die(p)
    BY <1>2, ExitKeeps
<1>3. ASSUME NEW t \in Tasks,
             Enter(t) \/ Acquire(t) \/ GiveUp(t) \/ Release(t) \/ RecycleStep(t) \/ Cancel(t)
      PROVE  IInv'
    BY <1>3, WaitKeeps, AcquireKeeps, ReleaseKeeps, TerminatedKeeps, SpawnKeeps, ReadyKeeps,
       SpawnFailsKeeps, CancelKeeps DEF RecycleStep
<1>4. CASE UNCHANGED vars
    <2> USE <1>4 DEF vars, info, task, bounds
    <2>1. Flags' /\ Listed'
        BY DEF IInv, Flags, Listed
    <2>2. Tables'
        BY DEF IInv, Tables
    <2>3. Holding' /\ OldAreGone'
        BY DEF IInv, Holding, Recycles, OldAreGone
    <2>4. LastIsRecycled'
        BY DEF IInv, LastIsRecycled
    <2>5. SlotsExact' /\ NoTaskOnRecycled'
        BY <2>2, SlotsKept DEF Tables
    <2> QED
        BY <2>1, <2>2, <2>3, <2>4, <2>5 DEF IInv
<1> QED
    BY <1>1, <1>2, <1>3, <1>4 DEF Next, Done

-----------------------------------------------------------------------------
(* The theorems.                                                           *)

\* The inductive invariant holds in every reachable state of the pool.
THEOREM Invariance == Spec => []IInv
<1> QED
    BY InitInv, NextKeeps, PTL DEF Spec

\* The tables of the pool (WorkerInfo, _workers) keep their types.
THEOREM PoolTyped == Spec => []TypeOK
<1>1. IInv => TypeOK
    BY DEF IInv, Flags, Tables, TypeOK
<1> QED
    BY <1>1, Invariance, PTL

\* _release_worker and the "forced" release of execute() neither leak a slot
\* nor give one back twice, for any number of tasks, workers and crashes.
THEOREM SlotsAreExact == Spec => []SlotsExact
<1>1. IInv => SlotsExact
    BY DEF IInv
<1> QED
    BY <1>1, Invariance, PTL

\* _recycle_worker never terminates a process some task executes on.
THEOREM RecycledIsIdle == Spec => []NoTaskOnRecycled
<1>1. IInv => NoTaskOnRecycled
    BY DEF IInv
<1> QED
    BY <1>1, Invariance, PTL

\* _recycle_worker and _spawn_worker leave a worker id one process and one
\* entry, whatever is cancelled, crashes or is shut down in between.
THEOREM ProcessIsUnique == Spec => []OneProcessPerWorker
<1>1. IInv => OneProcessPerWorker
    <2> SUFFICES ASSUME IInv PROVE OneProcessPerWorker
        OBVIOUS
    <2>1. ASSUME NEW p \in alive, NEW q \in alive, id[p] = id[q] PROVE p = q
        <3>1. p \in 1 .. spawned /\ q \in 1 .. spawned
            BY DEF IInv, Tables
        <3>2. ~(p < q) /\ ~(q < p)
            BY <2>1, <3>1 DEF IInv, OldAreGone
        <3> QED
            BY <3>1, <3>2
    <2> QED
        BY <2>1 DEF IInv, Listed, OneProcessPerWorker
<1> QED
    BY <1>1, Invariance, PTL

-----------------------------------------------------------------------------
(* A recycle nothing disturbs.                                             *)

Undisturbed == cancels = 0 /\ crashes = 0 /\ stopping = 0

\* A process that is not spawned yet is not marked.
Unmarked == \A p \in Pids : p > spawned => ~recycling[p]

\* Tasks execute on, and recycle, workers of the list; what is listed lives
\* until it is marked; a replacement is not marked before it is listed.
Calm ==
    /\ \A p \in InPool : recycling[p] \/ p \in alive
    /\ \A t \in Tasks : pc[t] = "executing" \/ Recycles(t) => worker[t] \in InPool
    /\ \A t \in Tasks : pc[t] = "starting" => fresh[t] # worker[t] /\ ~recycling[fresh[t]]
    /\ RecyclingHasOwner

RInv == Unmarked /\ (Undisturbed => Calm)

\* Of the workers of the list no other has the id of a given one.
LEMMA ListedOnce ==
    ASSUME IInv, NEW p \in InPool, NEW q \in InPool, id[p] = id[q]
    PROVE  p = q
    BY DEF IInv, Listed, InPool

\* A replacement that is being started is not in the list.
LEMMA FreshIsUnlisted ==
    ASSUME IInv, Calm, NEW t \in Tasks, pc[t] = "starting"
    PROVE  fresh[t] \notin InPool
<1>1. worker[t] \in InPool /\ fresh[t] # worker[t]
    BY DEF Calm, Recycles
<1>2. id[fresh[t]] = id[worker[t]]
    BY DEF IInv, LastIsRecycled
<1> QED
    BY <1>1, <1>2, ListedOnce

\* Ready and SpawnFails: the recycled worker leaves the list, the others stay
\* with their owners.
LEMMA ListChangeKeepsCalm ==
    ASSUME IInv, Calm, NEW t \in Tasks, Recycles(t),
           pc' = [pc EXCEPT ![t] = "ended"],
           UNCHANGED <<recycling, worker, fresh>>,
           \A p \in InPool' : (p \in InPool /\ p # worker[t]) \/ (~recycling[p] /\ p \in alive'),
           \A p \in InPool : p # worker[t] => p \in InPool',
           \A p \in InPool : p \in alive => p \in alive'
    PROVE  Calm'
<1>a. pc'[t] = "ended" /\ \A u \in Tasks \ {t} : pc'[u] = pc[u]
    BY DEF IInv, Tables
<1>1. (\A p \in InPool : recycling[p] \/ p \in alive)'
    BY DEF Calm
<1>2. ASSUME NEW u \in Tasks, (pc[u] = "executing" \/ Recycles(u))'
      PROVE  (worker[u] \in InPool)'
    <2>1. u # t /\ (pc[u] = "executing" \/ Recycles(u))
        BY <1>2, <1>a DEF Recycles
    <2>2. worker[u] \in InPool
        BY <2>1 DEF Calm
    <2>3. worker[t] \in Pids /\ recycling[worker[t]]
        BY SpawnedIsPid DEF IInv, Holding
    <2>4. pc[u] = "executing" => worker[u] # worker[t]
        BY <2>3 DEF IInv, NoTaskOnRecycled, On
    <2>5. Recycles(u) => worker[u] # worker[t]
        BY <2>1 DEF IInv, Holding
    <2> QED
        BY <2>1, <2>2, <2>4, <2>5
<1>3. (\A u \in Tasks : pc[u] = "starting" => fresh[u] # worker[u] /\ ~recycling[fresh[u]])'
    BY <1>a DEF Calm
<1>4. ASSUME NEW p \in InPool', recycling[p]
      PROVE  \E u \in Tasks : Recycles(u)' /\ worker[u]' = p
    <2>1. p \in InPool /\ p # worker[t]
        BY <1>4
    <2>2. PICK u \in Tasks : Recycles(u) /\ worker[u] = p
        BY <1>4, <2>1 DEF Calm, RecyclingHasOwner
    <2>3. Recycles(u)' /\ worker[u]' = p
        BY <1>a, <2>1, <2>2 DEF Recycles
    <2> QED
        BY <2>3
<1>5. RecyclingHasOwner'
    BY <1>4 DEF RecyclingHasOwner
<1> QED
    BY <1>1, <1>2, <1>3, <1>5 DEF Calm

\* Steps that leave list, marks and workers alone: Enter, GiveUp, Acquire.
LEMMA WaitKeepsCalm ==
    ASSUME IInv, Calm, NEW t \in Tasks, Enter(t) \/ Acquire(t) \/ GiveUp(t)
    PROVE  Calm'
<1>r. /\ UNCHANGED <<workers, alive, recycling, fresh>>
      /\ ~Recycles(t)
      /\ \A u \in Tasks \ {t} : pc'[u] = pc[u] /\ worker'[u] = worker[u]
      /\ \/ pc'[t] \in {"acquiring", "ended"}
         \/ pc'[t] = "executing" /\ worker'[t] \in InPool
    BY DEF Enter, Acquire, GiveUp, Recycles, info, Candidates, Available, IInv, Tables
<1>i. InPool' = InPool
    BY <1>r DEF InPool
<1>1. (\A p \in InPool : recycling[p] \/ p \in alive)'
    BY <1>r, <1>i DEF Calm
<1>2. (\A u \in Tasks : pc[u] = "executing" \/ Recycles(u) => worker[u] \in InPool)'
    BY <1>r, <1>i DEF Calm, Recycles
<1>3. (\A u \in Tasks : pc[u] = "starting" => fresh[u] # worker[u] /\ ~recycling[fresh[u]])'
    BY <1>r DEF Calm
<1>4. ASSUME NEW p \in InPool, recycling[p]
      PROVE  \E u \in Tasks : Recycles(u)' /\ worker[u]' = p
    <2>1. PICK u \in Tasks : Recycles(u) /\ worker[u] = p
        BY <1>4 DEF Calm, RecyclingHasOwner
    <2>2. Recycles(u)' /\ worker[u]' = p
        BY <1>r, <2>1 DEF Recycles
    <2> QED
        BY <2>2
<1>5. RecyclingHasOwner'
    BY <1>r, <1>i, <1>4 DEF RecyclingHasOwner
<1> QED
    BY <1>1, <1>2, <1>3, <1>5 DEF Calm

\* Release: a worker that is marked is listed and alive, so that its process
\* can be told to terminate and the task goes on to recycle it.
LEMMA ReleaseKeepsCalm ==
    ASSUME IInv, Calm, NEW t \in Tasks, Release(t)
    PROVE  Calm'
<1> DEFINE p == worker[t]
<1>r. /\ pc[t] = "executing" /\ UNCHANGED <<workers, alive, worker, fresh>>
      /\ recycling' = [recycling EXCEPT ![p] = @ \/ MustRecycle(p)]
      /\ \/ MustRecycle(p) /\ pc' = [pc EXCEPT ![t] = "terminating"]
         \/ (~MustRecycle(p) \/ p \notin alive) /\ pc' = [pc EXCEPT ![t] = "ended"]
    BY DEF Release
<1>i. InPool' = InPool
    BY <1>r DEF InPool
<1>p. p \in InPool /\ p \in Pids /\ ~recycling[p] /\ p \in alive
    <2>1. p \in InPool /\ p \in Pids
        BY <1>r, SpawnedIsPid DEF Calm, IInv, Holding
    <2>2. t \in On(p)
        BY <1>r DEF On
    <2>3. ~recycling[p]
        BY <2>1, <2>2 DEF IInv, NoTaskOnRecycled
    <2> QED
        BY <2>1, <2>3 DEF Calm
<1>a. /\ \A u \in Tasks \ {t} : pc'[u] = pc[u]
      /\ pc'[t] \in {"terminating", "ended"}
      /\ MustRecycle(p) => pc'[t] = "terminating"
    BY <1>r, <1>p DEF IInv, Tables
<1>m. /\ \A q \in Pids \ {p} : recycling'[q] = recycling[q]
      /\ recycling'[p] => MustRecycle(p)
      /\ recycling' \in [Pids -> BOOLEAN]
    BY <1>r, <1>p, Zenon DEF IInv, Flags, MustRecycle
<1>d. \A q \in InPool : q \in Pids
    BY DEF InPool, IInv, Tables
<1>1. (\A q \in InPool : recycling[q] \/ q \in alive)'
    BY <1>r, <1>i, <1>p, <1>m, <1>d DEF Calm
<1>2. (\A u \in Tasks : pc[u] = "executing" \/ Recycles(u) => worker[u] \in InPool)'
    BY <1>r, <1>i, <1>p, <1>a DEF Calm, Recycles
<1>3. ASSUME NEW u \in Tasks, pc'[u] = "starting"
      PROVE  fresh[u] # worker[u] /\ ~recycling'[fresh[u]]
    <2>1. pc[u] = "starting"
        BY <1>3, <1>a
    <2>2. fresh[u] \in Pids /\ fresh[u] # p
        BY <2>1, <1>p, FreshIsUnlisted, SpawnedIsPid DEF IInv, LastIsRecycled
    <2> QED
        BY <2>1, <2>2, <1>m DEF Calm
<1>4. ASSUME NEW q \in InPool, recycling'[q]
      PROVE  \E u \in Tasks : Recycles(u)' /\ worker[u]' = q
    <2>1. CASE q = p
        BY <2>1, <1>4, <1>m, <1>a, <1>r DEF Recycles
    <2>2. CASE q # p
        <3>1. PICK u \in Tasks : Recycles(u) /\ worker[u] = q
            BY <1>4, <2>2, <1>m, <1>d DEF Calm, RecyclingHasOwner
        <3>2. Recycles(u)' /\ worker[u]' = q
            BY <3>1, <2>2, <1>a, <1>r DEF Recycles
        <3> QED
            BY <3>2
    <2> QED
        BY <2>1, <2>2
<1>5. RecyclingHasOwner'
    BY <1>i, <1>4 DEF RecyclingHasOwner
<1> QED
    BY <1>1, <1>2, <1>3, <1>5, <1>r DEF Calm

\* Terminated and Spawn: the recycle goes on, with a process that is not
\* marked.
LEMMA RespawnKeepsCalm ==
    ASSUME IInv, Unmarked, Calm, NEW t \in Tasks, Terminated(t) \/ Spawn(t)
    PROVE  Calm'
<1>r. /\ UNCHANGED <<workers, worker, recycling>>
      /\ Recycles(t) /\ Recycles(t)' /\ alive \ {worker[t]} \subseteq alive'
      /\ \A u \in Tasks \ {t} : pc'[u] = pc[u] /\ fresh'[u] = fresh[u]
    BY DEF Terminated, Spawn, Recycles, info, IInv, Tables
<1>i. InPool' = InPool
    BY <1>r DEF InPool
<1>w. worker[t] \in 1 .. spawned /\ recycling[worker[t]]
    BY <1>r DEF IInv, Holding
<1>1. (\A p \in InPool : recycling[p] \/ p \in alive)'
    BY <1>r, <1>i, <1>w DEF Calm
<1>2. (\A u \in Tasks : pc[u] = "executing" \/ Recycles(u) => worker[u] \in InPool)'
    BY <1>r, <1>i DEF Calm, Recycles
<1>3. ASSUME NEW u \in Tasks, pc'[u] = "starting"
      PROVE  fresh'[u] # worker[u] /\ ~recycling[fresh'[u]]
    <2>1. CASE u # t
        BY <1>3, <2>1, <1>r DEF Calm
    <2>2. CASE u = t
        <3>1. Spawn(t)
            BY <1>3, <2>2 DEF Terminated, IInv, Tables
        <3>2. fresh'[t] = spawned + 1 /\ spawned + 1 \in Pids
            BY <3>1 DEF Spawn, IInv, Tables
        <3>3. spawned \in Nat
            BY DEF IInv, Tables
        <3> QED
            BY <2>2, <3>2, <3>3, <1>w DEF Unmarked
    <2> QED
        BY <2>1, <2>2
<1>4. RecyclingHasOwner'
    BY <1>r, <1>i DEF Calm, RecyclingHasOwner, Recycles
<1> QED
    BY <1>1, <1>2, <1>3, <1>4, <1>r DEF Calm

\* Ready: the replacement takes the place of the worker.
LEMMA ReadyKeepsCalm ==
    ASSUME IInv, Calm, NEW t \in Tasks, Ready(t)
    PROVE  Calm'
<1>r. /\ pc[t] = "starting" /\ fresh[t] \in alive
      /\ workers' = [i \in DOMAIN workers |-> IF workers[i] = worker[t] THEN fresh[t] ELSE workers[i]]
      /\ pc' = [pc EXCEPT ![t] = "ended"]
      /\ UNCHANGED <<alive, recycling, worker, fresh>>
    BY DEF Ready, PutInPlace, info
<1>1. Recycles(t) /\ ~recycling[fresh[t]]
    BY <1>r DEF Calm, Recycles
<1>2. \A p \in InPool' : (p \in InPool /\ p # worker[t]) \/ p = fresh[t]
    BY <1>r DEF InPool
<1>3. \A p \in InPool : p # worker[t] => p \in InPool'
    BY <1>r DEF InPool
<1>4. \A p \in InPool' : (p \in InPool /\ p # worker[t]) \/ (~recycling[p] /\ p \in alive')
    BY <1>r, <1>1, <1>2
<1>5. \A p \in InPool : p \in alive => p \in alive'
    BY <1>r
<1> QED
    BY <1>r, <1>1, <1>3, <1>4, <1>5, ListChangeKeepsCalm

\* SpawnFails: the worker's only entry is removed, and the process that was to
\* replace it was not listed.
LEMMA SpawnFailsKeepsCalm ==
    ASSUME IInv, Calm, NEW t \in Tasks, SpawnFails(t)
    PROVE  Calm'
<1>r. /\ pc[t] \in {"spawning", "starting"}
      /\ alive' = IF pc[t] = "starting" THEN alive \ {fresh[t]} ELSE alive
      /\ workers' = Without(worker[t])
      /\ pc' = [pc EXCEPT ![t] = "ended"]
      /\ UNCHANGED <<recycling, worker, fresh>>
    BY DEF SpawnFails, info
<1>1. Recycles(t) /\ worker[t] \in InPool
    BY <1>r DEF Calm, Recycles
<1>2. \A p \in InPool : p \in alive => p \in alive'
    BY <1>r, FreshIsUnlisted
<1>k. PICK k \in DOMAIN workers :
          /\ workers[k] = worker[t]
          /\ workers' = [i \in 1 .. Len(workers) - 1 |-> workers[IF i < k THEN i ELSE i + 1]]
    BY <1>1, <1>r DEF Without, InPool
<1>l. Len(workers) \in Nat /\ DOMAIN workers = 1 .. Len(workers)
    BY DEF IInv, Tables
<1>3. ASSUME NEW p \in InPool' PROVE p \in InPool /\ p # worker[t]
    <2>1. PICK i \in 1 .. Len(workers) - 1 : p = workers[IF i < k THEN i ELSE i + 1]
        BY <1>k, <1>3 DEF InPool
    <2>2. PICK j \in DOMAIN workers : j # k /\ p = workers[j]
        BY <2>1, <1>l
    <2>3. p # worker[t]
        BY <2>2, <1>k DEF IInv, Listed
    <2> QED
        BY <2>2, <2>3 DEF InPool
<1>4. ASSUME NEW p \in InPool, p # worker[t] PROVE p \in InPool'
    <2>1. PICK j \in DOMAIN workers : p = workers[j]
        BY DEF InPool
    <2>2. j # k
        BY <2>1, <1>4, <1>k
    <2> DEFINE i == IF j < k THEN j ELSE j - 1
    <2>3. i \in 1 .. Len(workers) - 1 /\ (IF i < k THEN i ELSE i + 1) = j
        BY <2>2, <1>l
    <2>4. i \in DOMAIN workers' /\ workers'[i] = p
        BY <2>1, <2>3, <1>k
    <2> QED
        BY <2>4 DEF InPool
<1> QED
    BY <1>r, <1>1, <1>2, <1>3, <1>4, ListChangeKeepsCalm

\* Start: nobody works yet, and every listed process lives.
LEMMA StartKeepsCalm ==
    ASSUME IInv, Unmarked, Start
    PROVE  Calm'
<1>r. PICK n \in 1 .. Cardinality(WorkerIds) :
          /\ spawned = 0 /\ workers' = [i \in 1 .. n |-> i] /\ alive' = 1 .. n
          /\ UNCHANGED <<pc, worker, fresh, recycling>>
    BY DEF Start, task
<1>1. \A t \in Tasks : pc[t] # "executing" /\ ~Recycles(t)
    BY <1>r DEF IInv, Holding
<1>2. InPool' = 1 .. n
    BY <1>r DEF InPool
<1>3. n <= MaxPids /\ n \in Nat
    BY PoolConstants, FS_CardinalityType
<1>4. \A p \in 1 .. n : ~recycling[p]
    BY <1>r, <1>3, PoolConstants DEF Unmarked, Pids
<1>5. (\A p \in InPool : recycling[p] \/ p \in alive)' /\ RecyclingHasOwner'
    BY <1>r, <1>2, <1>4 DEF RecyclingHasOwner
<1>6. \A t \in Tasks : pc'[t] # "executing" /\ ~Recycles(t)' /\ pc'[t] # "starting"
    BY <1>r, <1>1 DEF Recycles
<1> QED
    BY <1>5, <1>6 DEF Calm

\* Only _release_worker marks, and only the process of a task.
LEMMA UnmarkedKept ==
    ASSUME IInv, Unmarked, [Next]_vars
    PROVE  Unmarked'
<1>1. spawned \in Nat /\ spawned' \in Nat /\ spawned' >= spawned
    <2>1. spawned \in Nat
        BY DEF IInv, Tables
    <2>2. CASE Start
        BY <2>2, PoolConstants, FS_CardinalityType DEF Start
    <2>3. CASE \E t \in Tasks : Spawn(t)
        BY <2>1, <2>3 DEF Spawn
    <2>4. CASE ~Start /\ ~\E t \in Tasks : Spawn(t)
        <3>1. spawned' = spawned
            BY <2>4 DEF Next, vars, Done, Shutdown, StopWorker, FinishShutdown, Enter, Acquire, GiveUp,
               Release, RecycleStep, Terminated, Ready, SpawnFails, Cancel, Die
        <3> QED
            BY <2>1, <3>1
    <2> QED
        BY <2>1, <2>2, <2>3, <2>4
<1>2. CASE \E t \in Tasks : Release(t)
    <2>1. PICK t \in Tasks : Release(t)
        BY <1>2
    <2>2. worker[t] \in 1 .. spawned
        BY <2>1 DEF Release, IInv, Holding
    <2>3. \A p \in Pids \ {worker[t]} : recycling'[p] = recycling[p]
        BY <2>1 DEF Release, IInv, Flags
    <2>4. \A p \in Pids : p > spawned => p # worker[t]
        BY <1>1, <2>2
    <2>5. \A p \in Pids : p > spawned' => p > spawned
        BY <1>1, PoolConstants DEF Pids
    <2> QED
        BY <2>3, <2>4, <2>5 DEF Unmarked
<1>3. CASE ~\E t \in Tasks : Release(t)
    <2>1. recycling' = recycling
        BY <1>3 DEF Next, vars, info, Done, Start, Shutdown, StopWorker, FinishShutdown, Enter, Acquire,
           GiveUp, RecycleStep, Terminated, Spawn, Ready, SpawnFails, Cancel, Die
    <2>2. \A p \in Pids : p > spawned' => p > spawned
        BY <1>1, PoolConstants DEF Pids
    <2> QED
        BY <2>1, <2>2 DEF Unmarked
<1> QED
    BY <1>2, <1>3

\* Every step preserves RInv; the steps that disturb make it hold by itself.
LEMMA NextKeepsCalm ==
    ASSUME IInv, RInv, [Next]_vars
    PROVE  RInv'
<1>1. Unmarked'
    BY UnmarkedKept DEF RInv
<1>2. ASSUME Undisturbed' PROVE Calm'
    <2>t. cancels \in Nat /\ crashes \in Nat /\ stopping \in Nat /\ Len(workers) \in Nat
        BY DEF IInv, Tables
    <2>1. CASE Start
        BY <2>1, StartKeepsCalm DEF RInv
    <2>2. CASE Shutdown \/ StopWorker \/ FinishShutdown \/ \E p \in Pids : Die(p)
        BY <1>2, <2>t, <2>2 DEF Undisturbed, Shutdown, StopWorker, FinishShutdown, Die
    <2>3. ASSUME NEW t \in Tasks, Cancel(t) PROVE FALSE
        BY <1>2, <2>t, <2>3 DEF Undisturbed, Cancel
    <2>4. ASSUME NEW t \in Tasks,
                 Enter(t) \/ Acquire(t) \/ GiveUp(t) \/ Release(t) \/ RecycleStep(t)
          PROVE  Calm'
        <3>1. UNCHANGED <<cancels, crashes, stopping>>
            BY <2>4 DEF Enter, Acquire, GiveUp, Release, RecycleStep, Terminated, Spawn, Ready, SpawnFails,
               bounds
        <3>2. Calm /\ Unmarked
            BY <3>1, <1>2 DEF Undisturbed, RInv
        <3> QED
            BY <2>4, <3>2, WaitKeepsCalm, ReleaseKeepsCalm, RespawnKeepsCalm, ReadyKeepsCalm,
               SpawnFailsKeepsCalm DEF RecycleStep
    <2>5. CASE UNCHANGED vars
        <3>1. Calm
            BY <1>2, <2>5 DEF RInv, Undisturbed, vars, bounds
        <3> QED
            BY <2>5, <3>1 DEF Calm, RecyclingHasOwner, Recycles, InPool, vars, info, task
    <2> QED
        BY <2>1, <2>2, <2>3, <2>4, <2>5 DEF Next, Done
<1> QED
    BY <1>1, <1>2 DEF RInv

\* A worker that _release_worker marks has a task that replaces it or takes
\* it off the list, as long as nothing is cancelled, crashes or is shut down.
THEOREM MarkedIsRecycled == Spec => []UndisturbedRecycle
<1>1. Init => RInv
    <2> SUFFICES ASSUME Init PROVE RInv
        OBVIOUS
    <2>1. InPool = {}
        BY DEF Init, InPool
    <2> QED
        BY <2>1 DEF Init, RInv, Unmarked, Calm, RecyclingHasOwner, Recycles
<1>2. IInv /\ RInv /\ [Next]_vars => RInv'
    BY NextKeepsCalm
<1>3. RInv => UndisturbedRecycle
    BY DEF RInv, Undisturbed, Calm, UndisturbedRecycle
<1> QED
    BY <1>1, <1>2, <1>3, Invariance, PTL DEF Spec

=============================================================================

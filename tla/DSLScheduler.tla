---------------------------- MODULE DSLScheduler ----------------------------
(***************************************************************************)
(* The workflow scheduler of tracecat/dsl/scheduler.py.                    *)
(*                                                                         *)
(* DSLScheduler.start() spawns one asyncio task per queued Task, at most   *)
(* MaxPending at a time.  Coroutines run one at a time and interleave only *)
(* at their awaits, so an action below is what one coroutine does between  *)
(* two awaits.  An await of an activity is an entry of `inflight`.         *)
(* Temporal delivers the outcomes of activities, any the constants allow,  *)
(* in activations: it hands a set of them to the workflow and lets it run  *)
(* until every coroutine waits again.  Within an activation coroutines may *)
(* run in any order.  A timer (task.delay) only prolongs the await that    *)
(* follows it.                                                             *)
(*                                                                         *)
(* Definitions with "_" and a number are variants of the one that follows  *)
(* them, each with a slip the properties must notice; nothing uses them.   *)
(*                                                                         *)
(* Results of actions are data.  Only the lists that gathers assemble are  *)
(* kept, each element abstracted to                                        *)
(*   "unset"  Sentinel.GATHER_UNSET      "item"   the value of a stream    *)
(*   "error"  the error of a stream      "old"    a value of an earlier    *)
(*                                                iteration of the loop    *)
(*                                                around the gather        *)
(***************************************************************************)
EXTENDS DSLGraph

CONSTANTS
    MaxPending,      \* max_pending_tasks
    SpawnYieldEvery, \* _SCHEDULER_TASK_SPAWN_YIELD_EVERY (16 in the code)
    MaxIterations,   \* [Refs -> Nat], LoopEndArgs.max_iterations
    Sizes,           \* [Refs -> SUBSET Nat], sizes a scattered collection may have
    ErrorStrategy,   \* [Refs -> Strategies], GatherArgs.error_strategy
    Externalize,     \* TRACECAT__RESULT_EXTERNALIZATION_ENABLED
    ActionLimit,     \* max_action_executions_per_workflow, NoLimit for None
    Fallible,        \* refs whose activities and expressions may fail
    Subflows         \* actions whose platform work may fail (PlatformExecutionError)

NoLimit == -1
Strategies == {"partition", "include", "drop", "raise"}

ASSUME SchedulerConstants ==
    /\ MaxPending \in Nat \ {0}
    /\ SpawnYieldEvery \in Nat \ {0}
    /\ MaxIterations \in [Refs -> Nat \ {0}]
    /\ Sizes \in [Refs -> SUBSET Nat]
    /\ ErrorStrategy \in [Refs -> Strategies]
    /\ Externalize \in BOOLEAN
    /\ ActionLimit \in Nat \cup {NoLimit}
    /\ Fallible \subseteq Refs
    /\ Subflows \subseteq Refs

VARIABLES
    main,              \* where start() is
    queue,             \* asyncio.Queue of ready tasks
    inflight,          \* the spawned, unfinished coroutines and their awaits
    delivered,         \* the coroutines whose activity ended in this activation
    completed,         \* completed_tasks
    indegrees,
    visited, skipped,  \* edges whose marker is VISITED, SKIPPED (else PENDING)
    task_exceptions,   \* refs with an exception that fails the workflow
    stream_exceptions, \* streams with an exception
    streams,           \* keys of streams and of stream_hierarchy
    task_streams,      \* number of streams a scatter has created
    open_streams,      \* number of streams of a scatter not yet closed
    loop_indices,
    loop_start_skips,
    results,           \* <<gather ref, parent stream>> -> gathered list
    executions         \* _action_execution_count

control == <<main, inflight, delivered, completed>>
marks   == <<queue, indegrees, visited, skipped>>
errors  == <<task_exceptions, stream_exceptions>>
scopes  == <<streams, task_streams, open_streams>>
loops   == <<loop_indices, loop_start_skips>>
vars    == <<control, marks, errors, scopes, loops, results, executions>>

-----------------------------------------------------------------------------
(* Stream ids: 'scatter_1:2/scatter_2:0' is <<<<"scatter_1",2>>,...>>.     *)

SkipToken == -1
Stream == Seq(Refs \X (Nat \cup {SkipToken}))
Root == <<>>
NewStream_1(scope, index, base) == << <<scope, index>> >>   \* base is dropped
NewStream(scope, index, base) == Append(base, <<scope, index>>)
Leaf(sid) == sid[Len(sid)]
Parent(sid) == SubSeq(sid, 1, Len(sid) - 1)
Within(sid, base) == Len(base) <= Len(sid) /\ SubSeq(sid, 1, Len(base)) = base

Task == [ref : Refs, sid : Stream]
T(ref, sid) == [ref |-> ref, sid |-> sid]

\* The scatter task whose stream sid is.
ScatterOf(sid) == T(Leaf(sid)[1], Parent(sid))

Edge == [src : Refs, dst : Refs, type : EdgeTypes, sid : Stream]
OutEdges(t) == {[src |-> t.ref, dst |-> e[1], type |-> e[2], sid |-> t.sid] : e \in Adj(t.ref)}
InEdges(t) == {[src |-> d[1], dst |-> t.ref, type |-> d[2], sid |-> t.sid] : d \in DependsOn[t.ref]}

\* A coroutine's await; `made` and `left` count the streams a scatter has
\* created and still has to create.
Awaits == {"new", "run_if", "execute", "loop_start", "condition", "collection",
           "scattering", "items", "finalize", "finalize_empty"}
Await == [at : Awaits, made : Nat, left : Nat]
Awaiting(a) == [at |-> a, made |-> 0, left |-> 0]
At(t, a) == t \in DOMAIN inflight /\ inflight[t].at = a

EmptyFcn == [x \in {} |-> 0]
Without(f, S) == [x \in DOMAIN f \ S |-> f[x]]
With(f, k, v) == [x \in DOMAIN f \cup {k} |-> IF x = k THEN v ELSE f[x]]

\* A set of tasks as a sequence, in the (alphabetical) order of adj.
InAdjOrder(tasks) ==
    {q \in [1..Cardinality(tasks) -> tasks] :
        \A i, j \in DOMAIN q : i < j => Rank[q[i].ref] < Rank[q[j].ref]}

-----------------------------------------------------------------------------
Init ==
    /\ main = "ready"
    /\ \E w \in Workflows :
           /\ indegrees = [t \in {T(r, Root) : r \in w} |-> Cardinality(DependsOn[t.ref])]
           /\ queue \in InAdjOrder({T(r, Root) : r \in {x \in w : DependsOn[x] = {}}})
    /\ inflight = EmptyFcn
    /\ delivered = {}
    /\ completed = {}
    /\ visited = {} /\ skipped = {}
    /\ task_exceptions = {} /\ stream_exceptions = {}
    /\ streams = {Root}
    /\ task_streams = EmptyFcn /\ open_streams = EmptyFcn
    /\ loop_indices = EmptyFcn /\ loop_start_skips = {}
    /\ results = EmptyFcn
    /\ executions = 0

-----------------------------------------------------------------------------
(* Marking edges and queueing the tasks they make ready.                   *)

\* Error edges are marked but not counted.
Decremented_1(t) ==
    [n \in {T(e.dst, e.sid) : e \in OutEdges(t)} |->
        (IF n \in DOMAIN indegrees THEN indegrees[n] ELSE Cardinality(DependsOn[n.ref]))
            - Cardinality({e \in OutEdges(t) : e.dst = n.ref /\ e.type = "success"})]

\* The new indegree of every task an edge of t leads to.
Decremented(t) ==
    [n \in {T(e.dst, e.sid) : e \in OutEdges(t)} |->
        (IF n \in DOMAIN indegrees THEN indegrees[n] ELSE Cardinality(DependsOn[n.ref]))
            - Cardinality({e \in OutEdges(t) : e.dst = n.ref})]

\* An "any" join becomes ready with each of its dependencies.
Ready_1(next) == {n \in DOMAIN next : next[n] = 0 \/ JoinStrategy[n.ref] = "any"}

Ready(next) == {n \in DOMAIN next : next[n] = 0}

\* _queue_tasks(t, unreachable)
QueueTasks(t, unreachable) ==
    \E next \in {Decremented(t)} :
        /\ visited' = (visited \cup OutEdges(t)) \ unreachable
        /\ skipped' = (skipped \ OutEdges(t)) \cup unreachable
        /\ indegrees' = [n \in DOMAIN indegrees \cup DOMAIN next |->
                            IF n \in DOMAIN next THEN next[n] ELSE indegrees[n]]
        /\ \E q \in InAdjOrder(Ready(next)) : queue' = queue \o q

\* The coroutine of t ends; start() wakes if it was waiting for one to end.
Complete(t) ==
    /\ inflight' = Without(inflight, {t})
    /\ delivered' = delivered \ {t}
    /\ completed' = completed \cup {t}
    /\ main' = IF main = "waiting" THEN "ready" ELSE main

AwaitNext(t, a) ==
    /\ inflight' = [inflight EXCEPT ![t] = Awaiting(a)]
    /\ delivered' = delivered \ {t}
    /\ UNCHANGED <<main, completed, marks, errors>>

\* The coroutine of t queues the successors of src and ends.
Finish(t, src, unreachable) ==
    QueueTasks(src, unreachable) /\ Complete(t) /\ UNCHANGED errors

FinishSilently(t) == Complete(t) /\ UNCHANGED <<marks, errors>>

\* The other edges are left as visited.
Succeed_1(t) == Finish(t, t, {})

\* _handle_success_path
Succeed(t) == Finish(t, t, {e \in OutEdges(t) : e.type # "success"})

\* _handle_error_path: an error edge takes over unless the platform failed;
\* otherwise the exception fails the workflow, or the stream it occurred in,
\* which is "thrown" as a skip.  `registered` is what the handler has put
\* into task_exceptions before it raised.
Fail(t, fail_workflow, registered) ==
    LET error_edges == {e \in OutEdges(t) : e.type = "error"}
        handled == error_edges # {} /\ ~fail_workflow
        fatal == ~handled /\ (t.sid = Root \/ fail_workflow)
    IN  /\ Complete(t)
        /\ task_exceptions' = task_exceptions \cup registered
                                  \cup (IF fatal THEN {t.ref} ELSE {})
        /\ stream_exceptions' = stream_exceptions
                                  \cup (IF handled \/ fatal THEN {} ELSE {t.sid})
        /\ IF fatal THEN UNCHANGED marks
           ELSE QueueTasks(t, IF handled THEN OutEdges(t) \ error_edges ELSE OutEdges(t))

FailTask(t) == Fail(t, FALSE, {})

-----------------------------------------------------------------------------
(* Gathered lists.                                                         *)

Values == {"unset", "item", "error", "old"}
Gathered == [final : BOOLEAN, items : Seq(Values)]

ResultKey(t) == <<t.ref, Parent(t.sid)>>


\* The list a gather writes into: the one already in the parent's action
\* context, else a new one with an unset element per stream of the scatter.
CurrentList(t) ==
    IF ResultKey(t) \in DOMAIN results THEN results[ResultKey(t)]
    ELSE [final |-> FALSE,
          items |-> [i \in 1..task_streams[ScatterOf(t.sid)] |-> "unset"]]

\* `parent_action_context[gather_ref].get_data()[stream_idx] = ...` raises when
\* the result is externalized (get_data) or has too few elements.
Writable(list, index) ==
    /\ ~(list.final /\ Externalize)
    /\ index + 1 \in DOMAIN list.items

Write(list, index, value) == [list EXCEPT !.items[index + 1] = value]

\* Reading back the list raises when it is externalized, and an element of an
\* already finalized list is a plain value, not a StoredObject.
Readable(list) ==
    list.final => ~Externalize /\ \A i \in DOMAIN list.items : list.items[i] # "old"

\* finalize_gather_activity
Finalized(list, strategy) ==
    LET Kept(value) == value # "unset" /\ (value = "error" => strategy = "include")
    IN  [final |-> TRUE, items |-> SelectSeq(list.items, Kept)]

\* Only when every stream failed.
HasErrors_1(list) == \A i \in DOMAIN list.items : list.items[i] = "error"

HasErrors(list) == \E i \in DOMAIN list.items : list.items[i] = "error"

\* One stream too early.
IsLast_1(scatter) == open_streams[scatter] <= 2

\* The stream being closed is the last open one.
IsLast(scatter) == open_streams[scatter] = 1

\* The error of the stream around is looked up.
SkippedValue_1(t) == IF Parent(t.sid) \in stream_exceptions THEN "error" ELSE "unset"

\* What a skipped gather records: the error its stream ended with, if any.
SkippedValue(t) == IF t.sid \in stream_exceptions THEN "error" ELSE "unset"

\* The part of _handle_gather (and _handle_gather_skip_stream) after the last
\* await: close the stream of t, record `value`, or nothing for a plain skip,
\* and go on to finalize the gather when it was the last open stream.
CloseStream(t, value) ==
    LET scatter == ScatterOf(t.sid)
        index == Leaf(t.sid)[2]
        key == ResultKey(t)
        old == IF value # "unset" THEN CurrentList(t)
               ELSE IF key \in DOMAIN results THEN results[key]
               ELSE [final |-> FALSE, items |-> << >>]
        new == IF value = "unset" THEN old ELSE Write(old, index, value)
        last == IsLast(scatter)
    IN  /\ UNCHANGED <<streams, task_streams, loops, executions>>
        /\ \/ /\ scatter \notin DOMAIN open_streams        \* KeyError
              /\ FailTask(t)
              /\ UNCHANGED <<open_streams, results>>
           \/ /\ scatter \in DOMAIN open_streams
              /\ open_streams' = [open_streams EXCEPT ![scatter] = @ - 1]
              /\ \/ /\ value # "unset" /\ ~Writable(old, index)
                    /\ FailTask(t)
                    /\ UNCHANGED results
                 \/ /\ value = "unset" \/ Writable(old, index)
                    /\ results' = IF value = "unset" /\ ~last THEN results
                                  ELSE With(results, key, new)
                    /\ CASE ~last -> FinishSilently(t)
                         [] last /\ Readable(new) -> AwaitNext(t, "finalize")
                         [] OTHER -> FailTask(t)

-----------------------------------------------------------------------------
(* Scatter.                                                                *)

CreateStream(t, index) ==
    LET sid == NewStream(t.ref, index, t.sid)
    IN  /\ streams' = streams \cup {sid}
        /\ QueueTasks(T(t.ref, sid), {})

\* _handle_scatter_skip_stream
SkipStream(t) ==
    LET sid == NewStream(t.ref, SkipToken, t.sid)
        skip_task == T(t.ref, sid)
    IN  /\ streams' = streams \cup {sid}
        /\ Finish(t, skip_task, OutEdges(skip_task))

-----------------------------------------------------------------------------
(* Skipping a task, by its kind.                                           *)

InSkipStream(t) == t.sid # Root /\ Leaf(t.sid)[2] = SkipToken

\* _handle_gather up to its first await
HandleGather(t, is_skipping) ==
    CASE t.sid = Root ->                    \* RuntimeError
           FailTask(t) /\ UNCHANGED <<scopes, loops, results, executions>>
      [] InSkipStream(t) ->
           /\ IF ScatterOf(t.sid) \in DOMAIN open_streams
              THEN AwaitNext(t, "finalize_empty")
              ELSE Finish(t, t, OutEdges(t))
           /\ UNCHANGED <<scopes, loops, results, executions>>
      [] ~is_skipping /\ t.sid # Root /\ ~InSkipStream(t) ->
           AwaitNext(t, "items") /\ UNCHANGED <<scopes, loops, results, executions>>
      [] OTHER -> CloseStream(t, SkippedValue(t))

\* loop_key of a loop_end: the loop_start it closes, in the same stream.
LoopKey(t) == T(ClosedScope(t.ref), t.sid)

\* _handle_loop_end when it is skipping
SkipLoopEnd(t) ==
    /\ loop_start_skips' = loop_start_skips \ {LoopKey(t)}
    /\ loop_indices' = Without(loop_indices, {LoopKey(t)})
    /\ IF LoopKey(t) \in loop_start_skips THEN Finish(t, t, OutEdges(t)) ELSE Succeed(t)

\* _handle_skip_path
SkipPath(t) ==
    CASE Action[t.ref] = "loop_start" ->
           /\ loop_start_skips' = loop_start_skips \cup {t}
           /\ Finish(t, t, OutEdges(t))
           /\ UNCHANGED <<scopes, loop_indices, results, executions>>
      [] Action[t.ref] = "loop_end" ->
           SkipLoopEnd(t) /\ UNCHANGED <<scopes, results, executions>>
      [] Action[t.ref] = "scatter" ->
           /\ SkipStream(t)
           /\ UNCHANGED <<task_streams, open_streams, loops, results, executions>>
      [] Action[t.ref] = "gather" -> HandleGather(t, TRUE)
      [] OTHER ->
           Finish(t, t, OutEdges(t)) /\ UNCHANGED <<scopes, loops, results, executions>>

-----------------------------------------------------------------------------
(* _schedule_task, from one await to the next.                             *)

\* _skip_should_propagate
SkipPropagates(t) == InEdges(t) # {} /\ InEdges(t) \subseteq skipped

\* _is_reachable
Reachable(t) ==
    LET n_deps == Cardinality(InEdges(t))
        n_success == Cardinality(InEdges(t) \cap visited)
    IN  \/ n_deps = 0
        \/ n_deps = 1 /\ n_success = 1
        \/ n_deps > 1 /\ JoinStrategy[t.ref] = "any" /\ n_success > 0
        \/ n_deps > 1 /\ JoinStrategy[t.ref] = "all" /\ n_success = n_deps

\* _execute of an ordinary action: execute_task checks the execution limit of
\* the workflow's tier before its first await.
StartExecution(t) ==
    /\ executions' = IF ActionLimit = NoLimit THEN executions ELSE executions + 1
    /\ IF ActionLimit # NoLimit /\ executions + 1 > ActionLimit
       THEN FailTask(t)
       ELSE AwaitNext(t, "execute")

\* Steps 3) and 4) of _schedule_task: a task that was not skipped runs if its
\* join is satisfied, and fails as TaskUnreachable if not.
Dispatch(t) ==
    \/ /\ ~Reachable(t)
       /\ FailTask(t)
       /\ UNCHANGED <<scopes, loops, results, executions>>
    \/ /\ Reachable(t)
       /\ CASE Action[t.ref] = "loop_start" ->
                 /\ loop_start_skips' = loop_start_skips \ {t}
                 /\ AwaitNext(t, "loop_start")
                 /\ UNCHANGED <<scopes, loop_indices, results, executions>>
            [] Action[t.ref] = "loop_end" ->
                 AwaitNext(t, "condition") /\ UNCHANGED <<scopes, loops, results, executions>>
            [] Action[t.ref] = "scatter" ->
                 AwaitNext(t, "collection") /\ UNCHANGED <<scopes, loops, results, executions>>
            [] Action[t.ref] = "gather" -> HandleGather(t, FALSE)
            [] OTHER -> StartExecution(t) /\ UNCHANGED <<scopes, loops, results>>

Running == main \in {"ready", "waiting"}

\* The activity the coroutine of t awaits has ended in this activation.
CanEnd(t, a) == Running /\ At(t, a) /\ t \in delivered

Begin(t) ==
    /\ Running
    /\ At(t, "new")
    /\ \/ SkipPropagates(t) /\ SkipPath(t)
       \/ /\ ~SkipPropagates(t) /\ t.ref \in HasRunIf
          /\ AwaitNext(t, "run_if")
          /\ UNCHANGED <<scopes, loops, results, executions>>
       \/ ~SkipPropagates(t) /\ t.ref \notin HasRunIf /\ Dispatch(t)

\* The run_if expression is false, true, or raises; its error is deferred
\* past the reachability check and ends in the same error path.
EvaluateRunIf(t) ==
    /\ CanEnd(t, "run_if")
    /\ \/ SkipPath(t)
       \/ Dispatch(t)
       \/ /\ t.ref \in Fallible
          /\ FailTask(t)
          /\ UNCHANGED <<scopes, loops, results, executions>>

ExecuteDone(t) ==
    /\ CanEnd(t, "execute")
    /\ \/ Succeed(t)
       \/ t.ref \in Fallible /\ FailTask(t)
       \/ t.ref \in Subflows /\ Fail(t, TRUE, {})
    /\ UNCHANGED <<scopes, loops, results, executions>>

LoopStartDone(t) ==
    /\ CanEnd(t, "loop_start")
    /\ Succeed(t) \/ (t.ref \in Fallible /\ FailTask(t))
    /\ UNCHANGED <<scopes, loops, results, executions>>

-----------------------------------------------------------------------------
(* The end of a loop iteration.                                            *)


\* The streams _cleanup_loop_descendant_streams removes: those listed in
\* task_streams for a scatter of the region, and the streams below them.
LoopStreams(members, sid) ==
    {s \in streams : \E k \in DOMAIN task_streams :
        /\ k.ref \in members /\ Within(k.sid, sid)
        /\ \E i \in 0..task_streams[k] - 1 : Within(s, NewStream(k.ref, i, k.sid))}

\* What a gathered list of the region holds once a new iteration starts.
Aged(list) == [list EXCEPT !.items = [i \in DOMAIN list.items |-> "old"]]

\* The index is forgotten between iterations.
LoopIndex_1(t) == 0

LoopIndex(t) == IF LoopKey(t) \in DOMAIN loop_indices THEN loop_indices[LoopKey(t)] ELSE 0

\* What the reset forgets: everything in the streams `gone`, and the tasks and
\* edges of the region in the stream sid of the loop.
ForgottenTask(k, members, sid, gone) ==
    k.sid \in gone \/ (k.sid = sid /\ k.ref \in members)

ForgottenEdge(e, members, sid, gone) ==
    e.sid \in gone \/ (e.sid = sid /\ {e.src, e.dst} \subseteq members)

\* _cleanup_loop_descendant_streams and _reset_loop_iteration_state
Reset(t, members, gone) ==
    LET Kept(tasks) == {k \in tasks : ~ForgottenTask(k, members, t.sid, gone)}
        KeptEdges(edges) == {e \in edges : ~ForgottenEdge(e, members, t.sid, gone)}
        here == {T(r, t.sid) : r \in members}
    IN  /\ streams' = streams \ gone
        /\ stream_exceptions' = stream_exceptions \ gone
        /\ completed' = Kept(completed) \cup {t}
        /\ visited' = KeptEdges(visited)
        /\ skipped' = KeptEdges(skipped)
        /\ task_streams' = [k \in Kept(DOMAIN task_streams) |-> task_streams[k]]
        /\ open_streams' = [k \in Kept(DOMAIN open_streams) |-> open_streams[k]]
        /\ indegrees' = [n \in {x \in DOMAIN indegrees : x.sid \notin gone} \cup here |->
                            IF n \in here THEN Cardinality(InternalDeps(n.ref, members))
                            ELSE indegrees[n]]
        /\ results' = [k \in {x \in DOMAIN results : x[2] \notin gone} |->
                          IF k[1] \in members /\ k[2] = t.sid
                          THEN Aged(results[k]) ELSE results[k]]

\* The nested loops of the region start again from 0; the loop itself goes on.
NextIndices(t, members) ==
    [k \in {x \in DOMAIN loop_indices : ~(x.ref \in members /\ Within(x.sid, t.sid))}
             \cup {LoopKey(t)} |->
        IF k = LoopKey(t) THEN LoopIndex(t) + 1 ELSE loop_indices[k]]

\* The region is reset and loop_start is queued again.
NextIteration(t) ==
    /\ Reset(t, LoopMembers[t.ref], LoopStreams(LoopMembers[t.ref], t.sid))
    /\ loop_indices' = NextIndices(t, LoopMembers[t.ref])
    /\ queue' = Append(queue, LoopKey(t))
    /\ inflight' = Without(inflight, {t})
    /\ delivered' = delivered \ {t}
    /\ main' = IF main = "waiting" THEN "ready" ELSE main
    /\ UNCHANGED <<task_exceptions, loop_start_skips, executions>>

\* One iteration too many.
MayContinue_1(end, index) == index < MaxIterations[end]

MayContinue(end, index) == index + 1 < MaxIterations[end]

\* _handle_loop_end once its condition is evaluated
LoopEndDone(t) ==
    /\ CanEnd(t, "condition")
    /\ \/ MayContinue(t.ref, LoopIndex(t)) /\ NextIteration(t)
       \/ /\ ~MayContinue(t.ref, LoopIndex(t)) \/ t.ref \in Fallible
          /\ FailTask(t)
          /\ UNCHANGED <<scopes, loops, results, executions>>
       \/ /\ Succeed(t)
          /\ loop_indices' = Without(loop_indices, {LoopKey(t)})
          /\ UNCHANGED <<scopes, loop_start_skips, results, executions>>

-----------------------------------------------------------------------------
(* Scatter: one step per item, the code yields after each.                 *)

\* handle_scatter_input_activity returned a collection (or failed).
ScatterCollection(t) ==
    /\ CanEnd(t, "collection")
    /\ UNCHANGED <<loops, results, executions>>
    /\ \/ /\ t.ref \in Fallible
          /\ FailTask(t)
          /\ UNCHANGED scopes
       \/ /\ 0 \in Sizes[t.ref]
          /\ task_streams' = With(task_streams, t, 0)
          /\ open_streams' = With(open_streams, t, 0)
          /\ SkipStream(t)
       \/ \E n \in Sizes[t.ref] \ {0} :
          /\ task_streams' = With(task_streams, t, 1)
          /\ CreateStream(t, 0)
          /\ inflight' = [inflight EXCEPT ![t] = [at |-> "scattering", made |-> 1, left |-> n - 1]]
          /\ delivered' = delivered \ {t}
          /\ UNCHANGED <<main, completed, errors, open_streams>>

ScatterItem(t) ==
    /\ Running
    /\ At(t, "scattering") /\ inflight[t].left > 0
    /\ CreateStream(t, inflight[t].made)
    /\ task_streams' = [task_streams EXCEPT ![t] = @ + 1]
    /\ inflight' = [inflight EXCEPT
                       ![t] = [at |-> "scattering", made |-> @.made + 1, left |-> @.left - 1]]
    /\ UNCHANGED <<main, delivered, completed, errors, open_streams, loops, results, executions>>

\* The index of the last stream instead of the number of streams.
ScatterDone_1(t) ==
    /\ Running
    /\ At(t, "scattering") /\ inflight[t].left = 0
    /\ open_streams' = With(open_streams, t, inflight[t].made - 1)
    /\ FinishSilently(t)
    /\ UNCHANGED <<streams, task_streams, loops, results, executions>>

ScatterDone(t) ==
    /\ Running
    /\ At(t, "scattering") /\ inflight[t].left = 0
    /\ open_streams' = With(open_streams, t, inflight[t].made)
    /\ FinishSilently(t)
    /\ UNCHANGED <<streams, task_streams, loops, results, executions>>

-----------------------------------------------------------------------------
(* Gather.                                                                 *)

\* The items expression of the gather is evaluated in its stream.
GatherItem(t) ==
    /\ CanEnd(t, "items")
    /\ \/ CloseStream(t, "item")
       \/ /\ t.ref \in Fallible
          /\ FailTask(t)
          /\ UNCHANGED <<scopes, loops, results, executions>>

\* After the gather the workflow goes on in the parent stream.
Continuation(t) == T(t.ref, Parent(t.sid))

\* _handle_gather_result: the list is filtered and stored, errors are raised
\* under the "raise" strategy, and the gather continues in the parent stream.
\* Both activities it awaits (finalize, then the no-op of the gather) may fail.
GatherFinalized(t) ==
    LET key == ResultKey(t)
        list == results[key]
        final == Finalized(list, ErrorStrategy[t.ref])
        raises == ErrorStrategy[t.ref] = "raise" /\ HasErrors(list)
    IN  /\ CanEnd(t, "finalize")
        /\ UNCHANGED <<scopes, loops, executions>>
        /\ \/ /\ t.ref \in Fallible
              /\ FailTask(t)
              /\ results' \in {results, [results EXCEPT ![key] = final]}
           \/ /\ raises
              /\ Fail(t, FALSE, {t.ref})
              /\ UNCHANGED results
           \/ /\ ~raises
              /\ results' = [results EXCEPT ![key] = final]
              /\ Finish(t, Continuation(t), {})

\* The gather of an empty collection
EmptyGatherFinalized(t) ==
    /\ CanEnd(t, "finalize_empty")
    /\ UNCHANGED <<scopes, loops, executions>>
    /\ \/ /\ t.ref \in Fallible
          /\ FailTask(t)
          /\ UNCHANGED results
       \/ /\ results' = With(results, ResultKey(t), [final |-> TRUE, items |-> << >>])
          /\ Finish(t, Continuation(t), {})

-----------------------------------------------------------------------------
(* start(): spawn, wait for the first task to end, stop on an exception.   *)

Smaller(a, b) == IF a < b THEN a ELSE b

\* Room for one coroutine too many.
Room_1 == MaxPending + 1 - Cardinality(DOMAIN inflight)

Room == MaxPending - Cardinality(DOMAIN inflight)

\* Spawn until the queue is empty, the cap is reached, or a batch is full and
\* start() yields.
Spawn ==
    LET n == Smaller(Len(queue), Smaller(Room, SpawnYieldEvery))
        batch == {queue[i] : i \in 1..n}
    IN  /\ main = "ready" /\ task_exceptions = {}
        /\ n > 0
        /\ inflight' = [t \in DOMAIN inflight \cup batch |->
                           IF t \in batch THEN Awaiting("new") ELSE inflight[t]]
        /\ queue' = SubSeq(queue, n + 1, Len(queue))
        /\ main' = IF n = SpawnYieldEvery THEN "ready" ELSE "waiting"
        /\ UNCHANGED <<delivered, completed, indegrees, visited, skipped, errors, scopes, loops, results, executions>>

\* Nothing can be spawned: workflow.wait(pending_tasks, FIRST_COMPLETED)
Wait ==
    /\ main = "ready" /\ task_exceptions = {}
    /\ DOMAIN inflight # {}
    /\ queue = << >> \/ Room <= 0
    /\ main' = "waiting"
    /\ UNCHANGED <<inflight, delivered, completed, marks, errors, scopes, loops, results, executions>>

\* The exceptions are not looked at once there is nothing left to do.
AllCompleted_1 ==
    /\ main = "ready"
    /\ queue = << >> /\ DOMAIN inflight = {}
    /\ main' = "done"
    /\ UNCHANGED <<inflight, delivered, completed, marks, errors, scopes, loops, results, executions>>

\* The loop of start() ends: no exception and nothing left to do.
AllCompleted ==
    /\ main = "ready" /\ task_exceptions = {}
    /\ queue = << >> /\ DOMAIN inflight = {}
    /\ main' = "done"
    /\ UNCHANGED <<inflight, delivered, completed, marks, errors, scopes, loops, results, executions>>

\* An exception was recorded: cancel the pending coroutines.
Stop ==
    /\ main = "ready" /\ task_exceptions # {}
    /\ main' = "stopping"
    /\ UNCHANGED <<inflight, delivered, completed, marks, errors, scopes, loops, results, executions>>

\* Cancelling a coroutine that waits for an activity raises ActivityError
\* there, which takes the error path; any other is cancelled outright.
Cancelled(t) ==
    /\ main = "stopping" /\ t \in DOMAIN inflight
    /\ \/ FinishSilently(t)
       \/ inflight[t].at \notin {"new", "scattering"} /\ FailTask(t)
    /\ UNCHANGED <<scopes, loops, results, executions>>

ReturnExceptions ==
    /\ main = "stopping" /\ DOMAIN inflight = {}
    /\ main' = "failed"
    /\ UNCHANGED <<inflight, delivered, completed, marks, errors, scopes, loops, results, executions>>

\* Temporal: once every coroutine waits, a new activation delivers the
\* outcomes of some of the activities.
Activate ==
    /\ main = "waiting" /\ delivered = {}
    /\ \A t \in DOMAIN inflight : inflight[t].at \notin {"new", "scattering"}
    /\ delivered' \in SUBSET (DOMAIN inflight) \ {{}}
    /\ UNCHANGED <<main, inflight, completed, marks, errors, scopes, loops, results, executions>>

TaskStep(t) ==
    \/ Begin(t)
    \/ EvaluateRunIf(t)
    \/ ExecuteDone(t)
    \/ LoopStartDone(t)
    \/ LoopEndDone(t)
    \/ ScatterCollection(t)
    \/ ScatterItem(t)
    \/ ScatterDone(t)
    \/ GatherItem(t)
    \/ GatherFinalized(t)
    \/ EmptyGatherFinalized(t)
    \/ Cancelled(t)

Ended == main \in {"done", "failed"}

Next ==
    \/ Spawn \/ Wait \/ AllCompleted \/ Stop \/ ReturnExceptions \/ Activate
    \/ \E t \in DOMAIN inflight : TaskStep(t)
    \/ Ended /\ UNCHANGED vars

Spec == Init /\ [][Next]_vars

\* Temporal delivers every completion (activities have timeouts) and keeps
\* running a workflow that can make progress.
FairSpec == Spec /\ WF_vars(Next)

-----------------------------------------------------------------------------
(* Properties.                                                             *)

Queued == {queue[i] : i \in DOMAIN queue}
Active == Queued \cup DOMAIN inflight

\* The state of the scheduler is well formed: every task, edge and stream in
\* its tables belongs to the graph it was built for.
TypeOK ==
    /\ main \in {"ready", "waiting", "stopping", "done", "failed"}
    /\ queue \in Seq(Task)
    /\ DOMAIN inflight \subseteq Task /\ inflight \in [DOMAIN inflight -> Await]
    /\ delivered \subseteq Task /\ completed \subseteq Task
    /\ DOMAIN indegrees \subseteq Task /\ indegrees \in [DOMAIN indegrees -> Int]
    /\ visited \subseteq Edge /\ skipped \subseteq Edge
    /\ task_exceptions \subseteq Refs
    /\ stream_exceptions \subseteq Stream
    /\ streams \subseteq Stream
    /\ DOMAIN task_streams \subseteq Task /\ task_streams \in [DOMAIN task_streams -> Nat]
    /\ DOMAIN open_streams \subseteq Task /\ open_streams \in [DOMAIN open_streams -> Int]
    /\ DOMAIN loop_indices \subseteq Task /\ loop_indices \in [DOMAIN loop_indices -> Nat]
    /\ loop_start_skips \subseteq Task
    /\ DOMAIN results \subseteq Refs \X Stream
    /\ executions \in Nat

\* start() never has more than max_pending_tasks coroutines in flight, however
\* many tasks its yields and wake-ups let it spawn.
PendingBounded == Cardinality(DOMAIN inflight) <= MaxPending

\* A task is scheduled once: never twice in the queue, and never queued while
\* its coroutine is still in flight.
ScheduledOnce ==
    /\ \A i, j \in DOMAIN queue : queue[i] = queue[j] => i = j
    /\ Queued \cap DOMAIN inflight = {}

\* The counters in indegrees agree with the edge markers (the dicts are
\* updated separately, and reset separately by loops): the indegree of a task
\* is the number of its dependencies still pending, and whatever is queued or
\* running has none.
IndegreesMatchEdges ==
    /\ \A t \in DOMAIN indegrees :
           indegrees[t] = Cardinality(InEdges(t) \ (visited \cup skipped))
    /\ \A t \in Active : InEdges(t) \subseteq visited \cup skipped

\* One outcome per task, whatever joins, skips and loops do with the markers: a
\* task never opens both a success and an error path.  Scatters and gathers are
\* left out: they open all their edges at once, against the documentation
\* (docs/automations/actions.mdx, "Success and error paths").
ExclusivePaths ==
    \A e1, e2 \in visited :
        e1.src = e2.src /\ e1.sid = e2.sid /\ Action[e1.src] \notin {"scatter", "gather"} =>
            e1.type = e2.type

\* The gather is a barrier: while it is being finalized, nothing is queued or
\* running in any other stream of its scatter.
GatherBarrier ==
    \A g \in DOMAIN inflight : inflight[g].at = "finalize" =>
        \A t \in Active \ {g} :
            ~(Len(t.sid) >= Len(g.sid) /\ Within(t.sid, Parent(g.sid))
                /\ t.sid[Len(g.sid)][1] = Leaf(g.sid)[1])

\* The gather tasks of a scatter's streams that have closed their stream.
Closed(scatter) ==
    {i \in 0..task_streams[scatter] - 1 :
        \E g \in Refs :
            LET t == T(g, NewStream(scatter.ref, i, scatter.sid))
            IN  Action[g] = "gather" /\ (t \in completed \/ At(t, "finalize"))}

\* open_streams counts exactly the streams no gather has closed yet.
OpenStreamsExact ==
    Running => \A s \in DOMAIN open_streams :
        open_streams[s] = task_streams[s] - Cardinality(Closed(s))

\* No error is lost: when a gather is finalized, its list holds, at the index
\* of every stream that failed, the error of that stream.
ErrorsGathered ==
    \A g \in DOMAIN inflight : inflight[g].at = "finalize" =>
        LET items == results[ResultKey(g)].items
            scatter == ScatterOf(g.sid)
        IN  \A i \in 0..task_streams[scatter] - 1 :
               NewStream(scatter.ref, i, scatter.sid) \in stream_exceptions =>
                   i + 1 \in DOMAIN items /\ items[i + 1] = "error"

\* A loop has one iteration at a time: when loop_start is about to run again,
\* nothing of the region is left from the iteration before.
LoopBarrier ==
    \A end \in LoopEnds : \A t \in Active :
        t.ref = ClosedScope(end) =>
            \A u \in Active \ {t} : ~(u.ref \in LoopMembers[end] /\ Within(u.sid, t.sid))

\* A loop body runs at most max_iterations times: "execution fails when
\* continuing would produce index >= max_iterations" (schemas.py, LoopEndArgs).
IterationsBounded ==
    \A k \in DOMAIN loop_indices :
        \A end \in LoopEnds : ClosedScope(end) = k.ref => loop_indices[k] < MaxIterations[end]

\* The stream of a task is one of the streams of the scatters around it.
InScope(t) == {t.sid[i][1] : i \in DOMAIN t.sid} = ScatterScopes[t.ref]

\* An action only ever executes in a stream of its own scope: it neither leaks
\* out of a scatter nor runs in a stream its gather should have closed.
ExecutesInScope == \A t \in DOMAIN inflight : inflight[t].at = "execute" => InScope(t)

\* The scheduler does not report success with work left behind or an error
\* dropped: every action was executed or skipped in its own scope, every
\* scatter's streams are closed, and no stream has failed whose gather has the
\* "raise" strategy (start, _handle_gather_result).
SuccessIsComplete ==
    main = "done" =>
        /\ \A r \in Refs : T(r, Root) \in DOMAIN indegrees =>
               \E t \in completed : t.ref = r /\ InScope(t)
        /\ \A s \in DOMAIN open_streams : open_streams[s] = 0
        /\ \A sid \in stream_exceptions : \A g \in Refs :
               Action[g] = "gather" /\ ClosedScope(g) = Leaf(sid)[1] => ErrorStrategy[g] # "raise"

\* start() always returns.
Terminates == <>Ended

\* A failure is reported: once the error path of any coroutine has recorded an
\* exception, start() is woken, ends all the others, whose cancellation may
\* queue tasks or record exceptions too, and returns the exceptions.  It never
\* waits for ever, nor reports success because the coroutine that failed was
\* the last, or ended in the same activation as the last (start).
FailureIsReported == task_exceptions # {} ~> main = "failed"

-----------------------------------------------------------------------------
(* What a comment says of the scheduler, checked on a workflow that        *)
(* contradicts it.                                                         *)

\* "Close the execution stream regardless of whether we skipped our way to
\* this point." (_handle_gather): on success no stream is left open.
StreamsClosedOnSuccess ==
    main = "done" => \A s \in DOMAIN open_streams : open_streams[s] = 0
=============================================================================

------------------------ MODULE DSLScheduler_proofs ------------------------
(***************************************************************************)
(* What holds of the scheduler for every workflow that passes validation,  *)
(* every limit and every outcome of the activities.                        *)
(*                                                                         *)
(* The state is typed in six groups.  Each building block of an action     *)
(* (queueing, failing, closing a stream, ...) has a lemma that says which  *)
(* groups it keeps typed; the lemma of an action cites those of its parts. *)
(***************************************************************************)
EXTENDS DSLScheduler, TLAPS, FiniteSetTheorems, SequenceTheorems

\* Only tasks of the right kind make these awaits.
AwaitFits(t, a) ==
    /\ a = "loop_start" => Action[t.ref] = "loop_start"
    /\ a = "condition" => Action[t.ref] = "loop_end"
    /\ a \in {"collection", "scattering"} => Action[t.ref] = "scatter"
    /\ a \in {"items", "finalize", "finalize_empty"} => Action[t.ref] = "gather"
    /\ a = "execute" => Action[t.ref] \notin {"loop_start", "loop_end", "scatter", "gather"}

ControlOK ==
    /\ main \in {"ready", "waiting", "stopping", "done", "failed"}
    /\ DOMAIN inflight \subseteq Task /\ inflight \in [DOMAIN inflight -> Await]
    /\ delivered \subseteq Task /\ completed \subseteq Task
    /\ \A t \in DOMAIN inflight : AwaitFits(t, inflight[t].at)

\* The edges of a task that have been visited are edges of the graph and were
\* opened by one outcome of the task.
PathsOK ==
    /\ \A e \in visited : e \in OutEdges(T(e.src, e.sid))
    /\ ExclusivePaths

MarksOK ==
    /\ queue \in Seq(Task)
    /\ DOMAIN indegrees \subseteq Task /\ indegrees \in [DOMAIN indegrees -> Int]
    /\ visited \subseteq Edge /\ skipped \subseteq Edge
    /\ PathsOK

ErrorsOK == task_exceptions \subseteq Refs /\ stream_exceptions \subseteq Stream

ScopesOK ==
    /\ streams \subseteq Stream
    /\ DOMAIN task_streams \subseteq Task /\ task_streams \in [DOMAIN task_streams -> Nat]
    /\ DOMAIN open_streams \subseteq Task /\ open_streams \in [DOMAIN open_streams -> Int]

\* The bound on iterations is kept with the type of the indices.
LoopsOK ==
    /\ DOMAIN loop_indices \subseteq Task /\ loop_indices \in [DOMAIN loop_indices -> Nat]
    /\ loop_start_skips \subseteq Task
    /\ IterationsBounded

RestOK == DOMAIN results \subseteq Refs \X Stream /\ executions \in Nat

Typed == ControlOK /\ MarksOK /\ ErrorsOK /\ ScopesOK /\ LoopsOK /\ RestOK

\* What is true once start() has left its loop without an exception.
DrainedOnSuccess ==
    main = "done" => queue = << >> /\ DOMAIN inflight = {} /\ task_exceptions = {}

\* The inductive invariant.
IInv ==
    /\ Typed
    /\ IsFiniteSet(DOMAIN inflight)
    /\ PendingBounded
    /\ DrainedOnSuccess

\* What a step of a coroutine does to the control state: it starts no
\* coroutine and does not make start() return.
Settles == ControlOK' /\ DOMAIN inflight' \subseteq DOMAIN inflight /\ main' # "done"

-----------------------------------------------------------------------------
(* Tasks, streams and edges.                                               *)

\* A task is a ref in a stream.
LEMMA TaskType ==
    /\ \A r \in Refs, sid \in Stream : T(r, sid) \in Task
    /\ \A t \in Task : t.ref \in Refs /\ t.sid \in Stream
BY DEF T, Task

\* The root stream is a stream.
LEMMA RootType == Root \in Stream
BY DEF Root, Stream

\* StreamID.new yields a stream below its base.
LEMMA NewStreamType ==
    ASSUME NEW r \in Refs, NEW i \in Nat \cup {SkipToken}, NEW base \in Stream
    PROVE  NewStream(r, i, base) \in Stream
BY DEF NewStream, Stream

\* The parent of a stream is a stream.
LEMMA ParentType ==
    ASSUME NEW sid \in Stream
    PROVE  Parent(sid) \in Stream
<1> DEFINE E == Refs \X (Nat \cup {SkipToken})
<1>1. sid \in Seq(E) BY DEF Stream
<1> HIDE DEF E
<1>2. Len(sid) \in Nat BY <1>1
<1>3. SubSeq(sid, 1, Len(sid) - 1) \in Seq(E)
  <2>1. CASE Len(sid) = 0
    <3>1. SubSeq(sid, 1, Len(sid) - 1) = << >> BY <2>1, <1>1
    <3> QED BY <3>1
  <2>2. CASE Len(sid) > 0
    BY <2>2, <1>1
  <2> QED BY <2>1, <2>2, <1>2
<1> QED BY <1>3 DEF Parent, Stream, E

\* The image of a finite set is finite and not larger.
LEMMA ImageFinite ==
    ASSUME NEW S, IsFiniteSet(S), NEW f, DOMAIN f = S, f = [x \in S |-> f[x]]
    PROVE  /\ IsFiniteSet({f[x] : x \in S})
           /\ Cardinality({f[x] : x \in S}) <= Cardinality(S)
<1>1. f \in Surjection(S, {f[x] : x \in S}) BY DEF Surjection
<1> QED BY <1>1, FS_Surjection

\* The edges that leave a task are edges, and finitely many.
LEMMA OutEdgesType ==
    ASSUME NEW t \in Task
    PROVE  OutEdges(t) \subseteq Edge /\ IsFiniteSet(OutEdges(t))
<1>1. IsFiniteSet(EdgeTypes)
  <2>1. IsFiniteSet({"success"}) BY FS_Singleton
  <2>2. IsFiniteSet({"success"} \cup {"error"}) BY <2>1, FS_AddElement
  <2> QED BY <2>2 DEF EdgeTypes
<1>2. IsFiniteSet(Refs \X EdgeTypes) BY <1>1, FS_Product, GraphType
<1>3. IsFiniteSet(Adj(t.ref)) BY <1>2, FS_Subset DEF Adj
<1> DEFINE f == [e \in Adj(t.ref) |-> [src |-> t.ref, dst |-> e[1], type |-> e[2], sid |-> t.sid]]
<1>4. OutEdges(t) = {f[e] : e \in Adj(t.ref)} BY DEF OutEdges
<1>5. IsFiniteSet({f[e] : e \in Adj(t.ref)}) BY <1>3, ImageFinite
<1>6. OutEdges(t) \subseteq Edge
  <2>1. ASSUME NEW e \in Adj(t.ref) PROVE e[1] \in Refs /\ e[2] \in EdgeTypes
    BY DEF Adj
  <2>2. t.ref \in Refs /\ t.sid \in Stream BY TaskType
  <2> QED BY <2>1, <2>2 DEF OutEdges, Edge
<1> QED BY <1>4, <1>5, <1>6

\* The number of dependencies of an action is a natural number.
LEMMA DependsOnFinite ==
    ASSUME NEW r \in Refs
    PROVE  /\ IsFiniteSet(DependsOn[r])
           /\ Cardinality(DependsOn[r]) \in Nat
           /\ \A members : Cardinality(InternalDeps(r, members)) \in Nat
<1>1. IsFiniteSet(EdgeTypes)
  <2>1. IsFiniteSet({"success"}) BY FS_Singleton
  <2>2. IsFiniteSet({"success"} \cup {"error"}) BY <2>1, FS_AddElement
  <2> QED BY <2>2 DEF EdgeTypes
<1>2. IsFiniteSet(Refs \X EdgeTypes) BY <1>1, FS_Product, GraphType
<1>3. DependsOn[r] \in SUBSET (Refs \X EdgeTypes) BY GraphType
<1>4. IsFiniteSet(DependsOn[r]) BY <1>2, <1>3, FS_Subset
<1>5. ASSUME NEW members PROVE IsFiniteSet(InternalDeps(r, members))
  BY <1>4, FS_Subset DEF InternalDeps
<1> QED BY <1>4, <1>5, FS_CardinalityType

\* Tasks put in the order of adj form a sequence of tasks.
LEMMA InAdjOrderType ==
    ASSUME NEW tasks \in SUBSET Task, IsFiniteSet(tasks), NEW q \in InAdjOrder(tasks)
    PROVE  q \in Seq(Task)
<1>1. Cardinality(tasks) \in Nat BY FS_CardinalityType
<1>2. q \in [1..Cardinality(tasks) -> tasks] BY DEF InAdjOrder
<1>3. q \in Seq(tasks) BY <1>1, <1>2
<1> QED BY <1>3, SeqMonotonic

\* Decrementing counts integers, for finitely many tasks.
LEMMA DecrementedType ==
    ASSUME MarksOK, NEW t \in Task
    PROVE  /\ DOMAIN Decremented(t) \in SUBSET Task
           /\ IsFiniteSet(DOMAIN Decremented(t))
           /\ Decremented(t) \in [DOMAIN Decremented(t) -> Int]
<1> DEFINE f == [e \in OutEdges(t) |-> T(e.dst, e.sid)]
<1> DEFINE D == {T(e.dst, e.sid) : e \in OutEdges(t)}
<1>1. D \in SUBSET Task BY OutEdgesType, TaskType DEF Edge
<1>2. IsFiniteSet(D)
  <2>1. D = {f[e] : e \in OutEdges(t)} OBVIOUS
  <2>2. IsFiniteSet({f[e] : e \in OutEdges(t)}) BY OutEdgesType, ImageFinite
  <2> QED BY <2>1, <2>2
<1>3. ASSUME NEW n \in D
      PROVE  /\ (IF n \in DOMAIN indegrees THEN indegrees[n] ELSE Cardinality(DependsOn[n.ref])) \in Int
             /\ Cardinality({e \in OutEdges(t) : e.dst = n.ref}) \in Nat
  <2>1. Cardinality(DependsOn[n.ref]) \in Nat BY <1>1, TaskType, DependsOnFinite
  <2>2. IsFiniteSet({e \in OutEdges(t) : e.dst = n.ref}) BY OutEdgesType, FS_Subset
  <2>3. Cardinality({e \in OutEdges(t) : e.dst = n.ref}) \in Nat BY <2>2, FS_CardinalityType
  <2> QED BY <2>1, <2>3 DEF MarksOK
<1>4. DOMAIN Decremented(t) = D BY DEF Decremented
<1>5. Decremented(t) \in [D -> Int] BY <1>3 DEF Decremented
<1> QED BY <1>1, <1>2, <1>4, <1>5

\* What is unreachable after an outcome of t: all edges, those of the other
\* type, or none after a scatter or a gather.
Outcome(t, unreachable) ==
    \/ unreachable = OutEdges(t)
    \/ \E type \in EdgeTypes : unreachable = {e \in OutEdges(t) : e.type # type}
    \/ unreachable = {} /\ Action[t.ref] \in {"scatter", "gather"}

\* Forgetting edges opens no path.
LEMMA PathsKept ==
    ASSUME PathsOK, visited' \subseteq visited
    PROVE  PathsOK'
BY DEF PathsOK, ExclusivePaths

-----------------------------------------------------------------------------
(* The building blocks of actions.                                         *)

\* _queue_tasks opens the paths of one outcome.
LEMMA QueueTasksPaths ==
    ASSUME MarksOK, NEW t \in Task, NEW unreachable, Outcome(t, unreachable),
           visited' = (visited \cup OutEdges(t)) \ unreachable
    PROVE  PathsOK'
<1>1. \A e \in OutEdges(t) : e.src = t.ref /\ e.sid = t.sid BY DEF OutEdges
<1>2. T(t.ref, t.sid) = t BY DEF T, Task
<1>3. \A e \in visited : e \in OutEdges(T(e.src, e.sid)) BY DEF MarksOK, PathsOK
<1>4. \A e \in visited' : e \in OutEdges(T(e.src, e.sid)) BY <1>1, <1>2, <1>3
<1>5. ASSUME NEW e1 \in visited', NEW e2 \in visited', e1.src = e2.src, e1.sid = e2.sid,
             Action[e1.src] \notin {"scatter", "gather"}
      PROVE  e1.type = e2.type
  <2>1. CASE e1.src = t.ref /\ e1.sid = t.sid
    <3>1. e1 \in OutEdges(t) \ unreachable /\ e2 \in OutEdges(t) \ unreachable
      BY <1>2, <1>4, <1>5, <2>1
    <3>2. Action[t.ref] \notin {"scatter", "gather"} BY <1>5, <2>1
    <3> QED BY <3>1, <3>2 DEF Outcome
  <2>2. CASE ~(e1.src = t.ref /\ e1.sid = t.sid)
    <3>1. e1 \in visited /\ e2 \in visited BY <1>1, <1>5, <2>2
    <3> QED BY <1>5, <3>1 DEF MarksOK, PathsOK, ExclusivePaths
  <2> QED BY <2>1, <2>2
<1> QED BY <1>4, <1>5 DEF PathsOK, ExclusivePaths

\* _queue_tasks keeps the markers, the counters and the queue typed.
LEMMA QueueTasksType ==
    ASSUME MarksOK, NEW t \in Task, NEW unreachable \in SUBSET Edge, Outcome(t, unreachable),
           QueueTasks(t, unreachable)
    PROVE  MarksOK'
<1> DEFINE next == Decremented(t)
<1>1. visited' \subseteq Edge /\ skipped' \subseteq Edge
  BY OutEdgesType DEF QueueTasks, MarksOK
<1>2. DOMAIN next \in SUBSET Task /\ IsFiniteSet(DOMAIN next) /\ next \in [DOMAIN next -> Int]
  BY DecrementedType
<1>3. /\ indegrees' = [n \in DOMAIN indegrees \cup DOMAIN next |->
                          IF n \in DOMAIN next THEN next[n] ELSE indegrees[n]]
      /\ \E q \in InAdjOrder(Ready(next)) : queue' = queue \o q
  BY DEF QueueTasks
<1> HIDE DEF next
<1>4. DOMAIN indegrees' \subseteq Task /\ indegrees' \in [DOMAIN indegrees' -> Int]
  BY <1>2, <1>3 DEF MarksOK
<1>5. queue' \in Seq(Task)
  <2>1. Ready(next) \in SUBSET Task /\ IsFiniteSet(Ready(next))
    BY <1>2, FS_Subset DEF Ready
  <2>2. PICK q \in InAdjOrder(Ready(next)) : queue' = queue \o q BY <1>3
  <2>3. q \in Seq(Task) BY <2>1, InAdjOrderType
  <2> QED BY <2>2, <2>3 DEF MarksOK
<1>6. PathsOK'
  <2>1. visited' = (visited \cup OutEdges(t)) \ unreachable BY DEF QueueTasks
  <2> QED BY <2>1, QueueTasksPaths
<1> QED BY <1>1, <1>4, <1>5, <1>6 DEF MarksOK

\* A coroutine that ends leaves the control state typed.
LEMMA CompleteType ==
    ASSUME ControlOK, main # "done", NEW t \in Task, Complete(t)
    PROVE  Settles
BY DEF ControlOK, Complete, Without, Settles

\* So does one that awaits something else.
LEMMA AwaitNextType ==
    ASSUME Typed, main # "done", NEW t \in DOMAIN inflight,
           NEW a \in Awaits, AwaitFits(t, a), AwaitNext(t, a)
    PROVE  Settles /\ MarksOK' /\ ErrorsOK'
<1> USE DEF Typed
<1>1. Awaiting(a) \in Await /\ Awaiting(a).at = a BY DEF Await, Awaiting
<1>2. Settles BY <1>1 DEF ControlOK, AwaitNext, Settles
<1>3. MarksOK'
  <2>1. PathsOK' BY PathsKept DEF AwaitNext, marks, MarksOK
  <2> QED BY <2>1 DEF AwaitNext, marks, MarksOK
<1> QED BY <1>2, <1>3 DEF AwaitNext, errors, ErrorsOK

\* A task in flight is a task.
LEMMA InflightType ==
    ASSUME Typed, NEW t \in DOMAIN inflight
    PROVE  t \in Task /\ t.ref \in Refs /\ t.sid \in Stream
BY TaskType DEF Typed, ControlOK

\* Ending a coroutine and queueing the successors of src.
LEMMA FinishType ==
    ASSUME Typed, main # "done", NEW t \in Task, NEW src \in Task,
           NEW unreachable \in SUBSET Edge, Outcome(src, unreachable),
           Finish(t, src, unreachable)
    PROVE  Settles /\ MarksOK' /\ ErrorsOK'
<1>1. Settles BY CompleteType DEF Finish, Typed
<1>2. MarksOK' BY QueueTasksType DEF Finish, Typed
<1>3. ErrorsOK' BY DEF Finish, errors, Typed, ErrorsOK
<1> QED BY <1>1, <1>2, <1>3

\* Finishing as skipped: every edge of src is unreachable.
LEMMA FinishSkippedType ==
    ASSUME Typed, main # "done", NEW t \in Task, NEW src \in Task,
           Finish(t, src, OutEdges(src))
    PROVE  Settles /\ MarksOK' /\ ErrorsOK'
<1>1. OutEdges(src) \in SUBSET Edge /\ Outcome(src, OutEdges(src)) BY OutEdgesType DEF Outcome
<1> QED BY <1>1, FinishType

\* Ending a coroutine without queueing anything.
LEMMA FinishSilentlyType ==
    ASSUME Typed, main # "done", NEW t \in Task, FinishSilently(t)
    PROVE  Settles /\ MarksOK' /\ ErrorsOK'
<1>1. Settles BY CompleteType DEF FinishSilently, Typed
<1>2. MarksOK'
  <2>1. PathsOK' BY PathsKept DEF FinishSilently, marks, Typed, MarksOK
  <2> QED BY <2>1 DEF FinishSilently, marks, Typed, MarksOK
<1>3. ErrorsOK' BY DEF FinishSilently, errors, Typed, ErrorsOK
<1> QED BY <1>1, <1>2, <1>3

\* The success path.
LEMMA SucceedType ==
    ASSUME Typed, main # "done", NEW t \in Task, Succeed(t)
    PROVE  Settles /\ MarksOK' /\ ErrorsOK'
<1>1. {e \in OutEdges(t) : e.type # "success"} \in SUBSET Edge BY OutEdgesType
<1>2. Outcome(t, {e \in OutEdges(t) : e.type # "success"}) BY DEF Outcome, EdgeTypes
<1> QED BY <1>1, <1>2, FinishType DEF Succeed

\* The error path, whether an error edge handles the error or not.
LEMMA FailType ==
    ASSUME Typed, main # "done", NEW t \in Task, NEW fail_workflow,
           NEW registered \in SUBSET Refs, Fail(t, fail_workflow, registered)
    PROVE  Settles /\ MarksOK' /\ ErrorsOK'
<1> DEFINE error_edges == {e \in OutEdges(t) : e.type = "error"}
           handled == error_edges # {} /\ ~fail_workflow
           fatal == ~handled /\ (t.sid = Root \/ fail_workflow)
<1>1. Settles BY CompleteType DEF Fail, Typed
<1>2. ErrorsOK' BY TaskType DEF Fail, Typed, ErrorsOK
<1>3. MarksOK'
  <2>1. \/ UNCHANGED marks
        \/ QueueTasks(t, OutEdges(t) \ error_edges)
        \/ QueueTasks(t, OutEdges(t))
    BY DEF Fail
  <2>2. OutEdges(t) \ error_edges \in SUBSET Edge /\ OutEdges(t) \in SUBSET Edge
    BY OutEdgesType
  <2>3. CASE UNCHANGED marks
    <3>1. PathsOK' BY <2>3, PathsKept DEF marks, Typed, MarksOK
    <3> QED BY <2>3, <3>1 DEF marks, Typed, MarksOK
  <2>4. CASE QueueTasks(t, OutEdges(t) \ error_edges)
    <3>1. OutEdges(t) \ error_edges = {e \in OutEdges(t) : e.type # "error"} OBVIOUS
    <3>2. Outcome(t, OutEdges(t) \ error_edges) BY <3>1 DEF Outcome, EdgeTypes
    <3> QED BY <2>2, <2>4, <3>2, QueueTasksType DEF Typed
  <2>5. CASE QueueTasks(t, OutEdges(t))
    <3>1. Outcome(t, OutEdges(t)) BY DEF Outcome
    <3> QED BY <2>2, <2>5, <3>1, QueueTasksType DEF Typed
  <2> QED BY <2>1, <2>3, <2>4, <2>5
<1> QED BY <1>1, <1>2, <1>3

\* The error path of an ordinary failure.
LEMMA FailTaskType ==
    ASSUME Typed, main # "done", NEW t \in Task, FailTask(t)
    PROVE  Settles /\ MarksOK' /\ ErrorsOK'
BY FailType DEF FailTask

\* What a step of a coroutine has to establish.
Step == Settles /\ MarksOK' /\ ErrorsOK' /\ ScopesOK' /\ LoopsOK' /\ RestOK'

\* Variables a step leaves alone stay typed.
LEMMA UnchangedType ==
    ASSUME Typed
    PROVE  /\ (UNCHANGED scopes => ScopesOK')
           /\ (UNCHANGED loops => LoopsOK')
           /\ (UNCHANGED <<results, executions>> => RestOK')
BY DEF Typed, scopes, loops, ScopesOK, LoopsOK, RestOK, IterationsBounded

\* The key of a gathered list names the gather and the parent of its stream.
LEMMA ResultKeyType ==
    ASSUME NEW t \in Task
    PROVE  ResultKey(t) \in Refs \X Stream
BY TaskType, ParentType DEF ResultKey

\* Closing a stream.
LEMMA CloseStreamType ==
    ASSUME Typed, main # "done", NEW t \in DOMAIN inflight, Action[t.ref] = "gather",
           NEW value, CloseStream(t, value)
    PROVE  Step
<1> DEFINE scatter == ScatterOf(t.sid)
           key == ResultKey(t)
<1>t. t \in Task BY InflightType
<1>1. LoopsOK'
  <2>1. UNCHANGED loops BY DEF CloseStream, loops
  <2> QED BY <2>1, UnchangedType
<1>2. ScopesOK'
  <2>1. \/ UNCHANGED open_streams
        \/ open_streams' = [open_streams EXCEPT ![scatter] = @ - 1]
    BY DEF CloseStream
  <2>2. UNCHANGED <<streams, task_streams>> BY DEF CloseStream
  <2>3. CASE UNCHANGED open_streams BY <2>2, <2>3 DEF Typed, ScopesOK
  <2>4. CASE open_streams' = [open_streams EXCEPT ![scatter] = @ - 1]
    <3> DEFINE D == DOMAIN open_streams
    <3>1. open_streams \in [D -> Int] /\ D \subseteq Task BY DEF Typed, ScopesOK
    <3> HIDE DEF D, scatter
    <3>2. DOMAIN open_streams' = D BY <2>4 DEF D
    <3>3. ASSUME NEW x \in D PROVE open_streams'[x] \in Int
      BY <2>4, <3>1, <3>3
    <3>4. open_streams' = [x \in D |-> open_streams'[x]] BY <2>4 DEF D
    <3> QED BY <2>2, <3>1, <3>2, <3>3, <3>4 DEF Typed, ScopesOK
  <2> QED BY <2>1, <2>3, <2>4
<1>3. RestOK'
  <2>1. UNCHANGED executions BY DEF CloseStream
  <2>2. UNCHANGED results \/ \E new : results' = With(results, key, new)
    BY DEF CloseStream
  <2>3. key \in Refs \X Stream BY <1>t, ResultKeyType
  <2> HIDE DEF key
  <2>4. ASSUME NEW new, results' = With(results, key, new)
        PROVE  DOMAIN results' \subseteq Refs \X Stream
    BY <2>3, <2>4 DEF With, Typed, RestOK
  <2> QED BY <2>1, <2>2, <2>4 DEF Typed, RestOK
<1>4. Settles /\ MarksOK' /\ ErrorsOK'
  <2>1. \/ FailTask(t)
        \/ FinishSilently(t)
        \/ AwaitNext(t, "finalize")
    BY DEF CloseStream
  <2>2. CASE FailTask(t) BY <1>t, <2>2, FailTaskType
  <2>3. CASE FinishSilently(t) BY <1>t, <2>3, FinishSilentlyType
  <2>4. CASE AwaitNext(t, "finalize")
    <3>1. "finalize" \in Awaits /\ AwaitFits(t, "finalize") BY DEF Awaits, AwaitFits
    <3> QED BY <3>1, <2>4, AwaitNextType
  <2> QED BY <2>1, <2>2, <2>3, <2>4
<1> QED BY <1>1, <1>2, <1>3, <1>4 DEF Step

\* The groups a coroutine leaves alone while it only ends or awaits.
LEMMA StepIntro ==
    ASSUME Typed, Settles, MarksOK', ErrorsOK', UNCHANGED <<scopes, loops, results, executions>>
    PROVE  Step
<1>1. UNCHANGED scopes /\ UNCHANGED loops /\ UNCHANGED <<results, executions>> OBVIOUS
<1> QED BY <1>1, UnchangedType DEF Step

\* A coroutine that awaits something else and changes nothing but its await.
LEMMA AwaitStep ==
    ASSUME Typed, main # "done", NEW t \in DOMAIN inflight, NEW a \in Awaits,
           AwaitFits(t, a), AwaitNext(t, a), UNCHANGED <<scopes, loops, results, executions>>
    PROVE  Step
<1>2. Settles /\ MarksOK' /\ ErrorsOK' BY AwaitNextType
<1> QED BY <1>2, StepIntro

\* A scatter whose streams are skipped: the skip stream is a stream.
LEMMA SkipStreamType ==
    ASSUME Typed, main # "done", NEW t \in DOMAIN inflight, SkipStream(t)
    PROVE  Settles /\ MarksOK' /\ ErrorsOK' /\ streams' \subseteq Stream
<1> DEFINE sid == NewStream(t.ref, SkipToken, t.sid)
           skip_task == T(t.ref, sid)
<1>t. t \in Task /\ t.ref \in Refs /\ t.sid \in Stream BY InflightType
<1>1. sid \in Stream
  <2>1. SkipToken \in Nat \cup {SkipToken} OBVIOUS
  <2> QED BY <1>t, <2>1, NewStreamType
<1>2. skip_task \in Task BY <1>t, <1>1, TaskType
<1>3. streams' = streams \cup {sid} /\ Finish(t, skip_task, OutEdges(skip_task))
  BY DEF SkipStream
<1> HIDE DEF sid, skip_task
<1>4. streams' \subseteq Stream BY <1>1, <1>3 DEF Typed, ScopesOK
<1>5. Settles /\ MarksOK' /\ ErrorsOK' BY <1>t, <1>2, <1>3, FinishSkippedType
<1> QED BY <1>4, <1>5

\* _handle_gather up to its first await.
LEMMA HandleGatherType ==
    ASSUME Typed, main # "done", NEW t \in DOMAIN inflight, Action[t.ref] = "gather",
           NEW is_skipping, HandleGather(t, is_skipping)
    PROVE  Step
<1>t. t \in Task BY InflightType
<1>a. /\ "finalize_empty" \in Awaits /\ "items" \in Awaits
      /\ AwaitFits(t, "finalize_empty") /\ AwaitFits(t, "items")
  BY DEF Awaits, AwaitFits
<1>1. CASE t.sid = Root
  <2>1. FailTask(t) /\ UNCHANGED <<scopes, loops, results, executions>>
    BY <1>1 DEF HandleGather, InSkipStream
  <2> QED BY <1>t, <2>1, FailTaskType, StepIntro
<1>2. CASE InSkipStream(t)
  <2>1. /\ AwaitNext(t, "finalize_empty") \/ Finish(t, t, OutEdges(t))
        /\ UNCHANGED <<scopes, loops, results, executions>>
    BY <1>2 DEF HandleGather, InSkipStream
  <2>2. CASE AwaitNext(t, "finalize_empty") BY <1>a, <2>1, <2>2, AwaitStep
  <2>3. CASE Finish(t, t, OutEdges(t)) BY <1>t, <2>1, <2>3, FinishSkippedType, StepIntro
  <2> QED BY <2>1, <2>2, <2>3
<1>3. CASE t.sid # Root /\ ~InSkipStream(t) /\ ~is_skipping
  <2>1. AwaitNext(t, "items") /\ UNCHANGED <<scopes, loops, results, executions>>
    BY <1>3 DEF HandleGather
  <2> QED BY <1>a, <2>1, AwaitStep
<1>4. CASE t.sid # Root /\ ~InSkipStream(t) /\ is_skipping
  <2>1. CloseStream(t, SkippedValue(t)) BY <1>4 DEF HandleGather
  <2> QED BY <2>1, CloseStreamType
<1> QED BY <1>1, <1>2, <1>3, <1>4

\* The indices of the loops other than the one that ends stay bounded.
LEMMA FewerIndices ==
    ASSUME Typed, NEW S, loop_indices' = Without(loop_indices, S), loop_start_skips' \subseteq Task
    PROVE  LoopsOK'
BY DEF Typed, LoopsOK, Without, IterationsBounded

\* A skipped loop_end drops the index of its loop.
LEMMA SkipLoopEndType ==
    ASSUME Typed, main # "done", NEW t \in DOMAIN inflight, SkipLoopEnd(t)
    PROVE  Settles /\ MarksOK' /\ ErrorsOK' /\ LoopsOK'
<1>t. t \in Task BY InflightType
<1>1. LoopsOK'
  <2>1. loop_indices' = Without(loop_indices, {LoopKey(t)}) BY DEF SkipLoopEnd
  <2>2. loop_start_skips' \subseteq Task BY DEF SkipLoopEnd, Typed, LoopsOK
  <2> QED BY <2>1, <2>2, FewerIndices
<1>2. Finish(t, t, OutEdges(t)) \/ Succeed(t) BY DEF SkipLoopEnd
<1>3. Settles /\ MarksOK' /\ ErrorsOK' BY <1>t, <1>2, FinishSkippedType, SucceedType
<1> QED BY <1>1, <1>3

\* Skipping a task, whatever its kind.
LEMMA SkipPathType ==
    ASSUME Typed, main # "done", NEW t \in DOMAIN inflight, SkipPath(t)
    PROVE  Step
<1>t. t \in Task BY InflightType
<1>1. CASE Action[t.ref] = "loop_start"
  <2>1. /\ loop_start_skips' = loop_start_skips \cup {t}
        /\ Finish(t, t, OutEdges(t))
        /\ UNCHANGED <<scopes, loop_indices, results, executions>>
    BY <1>1 DEF SkipPath
  <2>2. Settles /\ MarksOK' /\ ErrorsOK' BY <1>t, <2>1, FinishSkippedType
  <2>3. LoopsOK' BY <1>t, <2>1 DEF Typed, LoopsOK, IterationsBounded
  <2> QED BY <2>1, <2>2, <2>3, UnchangedType DEF Step
<1>2. CASE Action[t.ref] = "loop_end"
  <2>1. SkipLoopEnd(t) /\ UNCHANGED <<scopes, results, executions>>
    BY <1>2 DEF SkipPath
  <2> QED BY <2>1, SkipLoopEndType, UnchangedType DEF Step
<1>3. CASE Action[t.ref] = "scatter"
  <2>1. SkipStream(t) /\ UNCHANGED <<task_streams, open_streams, loops, results, executions>>
    BY <1>3 DEF SkipPath
  <2>2. Settles /\ MarksOK' /\ ErrorsOK' /\ streams' \subseteq Stream
    BY <2>1, SkipStreamType
  <2>3. ScopesOK' BY <2>1, <2>2 DEF Typed, ScopesOK
  <2> QED BY <2>1, <2>2, <2>3, UnchangedType DEF Step
<1>4. CASE Action[t.ref] = "gather"
  <2>1. HandleGather(t, TRUE) BY <1>4 DEF SkipPath
  <2> QED BY <1>4, <2>1, HandleGatherType
<1>5. CASE Action[t.ref] \notin {"loop_start", "loop_end", "scatter", "gather"}
  <2>1. Finish(t, t, OutEdges(t)) /\ UNCHANGED <<scopes, loops, results, executions>>
    BY <1>5 DEF SkipPath
  <2> QED BY <1>t, <2>1, FinishSkippedType, StepIntro
<1> QED BY <1>1, <1>2, <1>3, <1>4, <1>5

\* Starting the execution of an ordinary action.
LEMMA StartExecutionType ==
    ASSUME Typed, main # "done", NEW t \in DOMAIN inflight, StartExecution(t),
           UNCHANGED <<scopes, loops, results>>,
           Action[t.ref] \notin {"loop_start", "loop_end", "scatter", "gather"}
    PROVE  Step
<1>t. t \in Task BY InflightType
<1>1. FailTask(t) \/ AwaitNext(t, "execute") BY DEF StartExecution
<1>2. "execute" \in Awaits /\ AwaitFits(t, "execute") BY DEF Awaits, AwaitFits
<1>3. Settles /\ MarksOK' /\ ErrorsOK' BY <1>t, <1>1, <1>2, FailTaskType, AwaitNextType
<1>4. RestOK' BY DEF StartExecution, Typed, RestOK
<1> QED BY <1>3, <1>4, UnchangedType DEF Step

\* Steps 3) and 4) of _schedule_task.
LEMMA DispatchType ==
    ASSUME Typed, main # "done", NEW t \in DOMAIN inflight, Dispatch(t)
    PROVE  Step
<1>t. t \in Task BY InflightType
<1>a. {"loop_start", "condition", "collection"} \subseteq Awaits BY DEF Awaits
<1>1. CASE ~Reachable(t)
  <2>1. FailTask(t) /\ UNCHANGED <<scopes, loops, results, executions>>
    BY <1>1 DEF Dispatch
  <2> QED BY <1>t, <2>1, FailTaskType, StepIntro
<1>2. CASE Reachable(t) /\ Action[t.ref] = "loop_start"
  <2>1. /\ loop_start_skips' = loop_start_skips \ {t}
        /\ AwaitNext(t, "loop_start")
        /\ UNCHANGED <<scopes, loop_indices, results, executions>>
    BY <1>2 DEF Dispatch
  <2>2. AwaitFits(t, "loop_start") BY <1>2 DEF AwaitFits
  <2>3. Settles /\ MarksOK' /\ ErrorsOK' BY <1>a, <2>1, <2>2, AwaitNextType
  <2>4. LoopsOK' BY <2>1 DEF Typed, LoopsOK, IterationsBounded
  <2> QED BY <2>1, <2>3, <2>4, UnchangedType DEF Step
<1>3. CASE Reachable(t) /\ Action[t.ref] = "loop_end"
  <2>1. AwaitNext(t, "condition") /\ UNCHANGED <<scopes, loops, results, executions>>
    BY <1>3 DEF Dispatch
  <2>2. AwaitFits(t, "condition") BY <1>3 DEF AwaitFits
  <2> QED BY <1>a, <2>1, <2>2, AwaitStep
<1>4. CASE Reachable(t) /\ Action[t.ref] = "scatter"
  <2>1. AwaitNext(t, "collection") /\ UNCHANGED <<scopes, loops, results, executions>>
    BY <1>4 DEF Dispatch
  <2>2. AwaitFits(t, "collection") BY <1>4 DEF AwaitFits
  <2> QED BY <1>a, <2>1, <2>2, AwaitStep
<1>5. CASE Reachable(t) /\ Action[t.ref] = "gather"
  <2>1. HandleGather(t, FALSE) BY <1>5 DEF Dispatch
  <2> QED BY <1>5, <2>1, HandleGatherType
<1>6. CASE Reachable(t) /\ Action[t.ref] \notin {"loop_start", "loop_end", "scatter", "gather"}
  <2>1. StartExecution(t) /\ UNCHANGED <<scopes, loops, results>>
    BY <1>6 DEF Dispatch
  <2> QED BY <1>6, <2>1, StartExecutionType
<1> QED BY <1>1, <1>2, <1>3, <1>4, <1>5, <1>6

-----------------------------------------------------------------------------
(* The actions of a coroutine.                                             *)

\* _schedule_task up to its first await.
LEMMA BeginStep ==
    ASSUME Typed, NEW t \in DOMAIN inflight, Begin(t)
    PROVE  Step
<1>d. main # "done" BY DEF Begin, Running
<1>1. CASE SkipPath(t) BY <1>d, <1>1, SkipPathType
<1>2. CASE AwaitNext(t, "run_if") /\ UNCHANGED <<scopes, loops, results, executions>>
  <2>1. "run_if" \in Awaits /\ AwaitFits(t, "run_if") BY DEF Awaits, AwaitFits
  <2> QED BY <1>d, <1>2, <2>1, AwaitStep
<1>3. CASE Dispatch(t) BY <1>d, <1>3, DispatchType
<1> QED BY <1>1, <1>2, <1>3 DEF Begin

\* The run_if condition has been evaluated.
LEMMA EvaluateRunIfStep ==
    ASSUME Typed, NEW t \in DOMAIN inflight, EvaluateRunIf(t)
    PROVE  Step
<1>d. main # "done" /\ t \in Task BY InflightType DEF EvaluateRunIf, CanEnd, Running
<1>1. CASE SkipPath(t) BY <1>d, <1>1, SkipPathType
<1>2. CASE Dispatch(t) BY <1>d, <1>2, DispatchType
<1>3. CASE FailTask(t) /\ UNCHANGED <<scopes, loops, results, executions>>
  BY <1>d, <1>3, FailTaskType, StepIntro
<1> QED BY <1>1, <1>2, <1>3 DEF EvaluateRunIf

\* An ordinary action has been executed.
LEMMA ExecuteDoneStep ==
    ASSUME Typed, NEW t \in DOMAIN inflight, ExecuteDone(t)
    PROVE  Step
<1>d. main # "done" /\ t \in Task BY InflightType DEF ExecuteDone, CanEnd, Running
<1>1. CASE Succeed(t) BY <1>d, <1>1, SucceedType, StepIntro DEF ExecuteDone
<1>2. CASE FailTask(t) BY <1>d, <1>2, FailTaskType, StepIntro DEF ExecuteDone
<1>3. CASE Fail(t, TRUE, {}) BY <1>d, <1>3, FailType, StepIntro DEF ExecuteDone
<1> QED BY <1>1, <1>2, <1>3 DEF ExecuteDone

\* loop_start has run.
LEMMA LoopStartDoneStep ==
    ASSUME Typed, NEW t \in DOMAIN inflight, LoopStartDone(t)
    PROVE  Step
<1>d. main # "done" /\ t \in Task BY InflightType DEF LoopStartDone, CanEnd, Running
<1>1. CASE Succeed(t) BY <1>d, <1>1, SucceedType, StepIntro DEF LoopStartDone
<1>2. CASE FailTask(t) BY <1>d, <1>2, FailTaskType, StepIntro DEF LoopStartDone
<1> QED BY <1>1, <1>2 DEF LoopStartDone

\* A validated loop_end closes the scope of a loop_start, and no other
\* loop_end closes the same one.
LEMMA LoopEndCloses ==
    ASSUME NEW end \in Refs, Action[end] = "loop_end"
    PROVE  /\ end \in LoopEnds
           /\ ClosedScope(end) \in Refs
           /\ \A e \in LoopEnds : ClosedScope(e) = ClosedScope(end) => e = end
<1>1. end \in LoopEnds BY DEF LoopEnds
<1>2. end \in Closers BY DEF Closers
<1>3. ClosersMatchOpeners /\ LoopScopesSynchronize BY ValidDSL DEF ValidStructure
<1>4. ClosedScope(end) \in Refs BY <1>2, <1>3 DEF ClosersMatchOpeners
<1>5. \A e \in LoopEnds : ClosedScope(e) = ClosedScope(end) => e = end
  BY <1>1, <1>3 DEF LoopScopesSynchronize
<1> QED BY <1>1, <1>4, <1>5

\* The index of a loop, present or not, is a number.
LEMMA LoopIndexType ==
    ASSUME Typed, NEW t
    PROVE  LoopIndex(t) \in Nat
BY DEF LoopIndex, Typed, LoopsOK

\* The reset between two iterations forgets, and recounts indegrees.
LEMMA ResetType ==
    ASSUME Typed, NEW t \in Task, NEW members, members \subseteq Refs, NEW gone,
           Reset(t, members, gone)
    PROVE  /\ completed' \subseteq Task
           /\ visited' \subseteq Edge /\ skipped' \subseteq Edge /\ PathsOK'
           /\ DOMAIN indegrees' \subseteq Task /\ indegrees' \in [DOMAIN indegrees' -> Int]
           /\ stream_exceptions' \subseteq Stream
           /\ ScopesOK'
           /\ DOMAIN results' \subseteq DOMAIN results
<1> DEFINE here == {T(r, t.sid) : r \in members}
           D == {x \in DOMAIN indegrees : x.sid \notin gone} \cup here
<1>1. completed' \subseteq Task BY DEF Reset, Typed, ControlOK
<1>2. visited' \subseteq Edge /\ skipped' \subseteq Edge /\ PathsOK'
  <2>1. visited' \subseteq visited /\ skipped' \subseteq skipped BY DEF Reset
  <2> QED BY <2>1, PathsKept DEF Typed, MarksOK
<1>3. DOMAIN indegrees' \subseteq Task /\ indegrees' \in [DOMAIN indegrees' -> Int]
  <2>1. indegrees' = [n \in D |-> IF n \in here THEN Cardinality(InternalDeps(n.ref, members))
                                  ELSE indegrees[n]]
    BY DEF Reset
  <2>h. here \subseteq Task BY TaskType
  <2>2. D \subseteq Task BY <2>h DEF Typed, MarksOK
  <2>3. ASSUME NEW n \in here PROVE Cardinality(InternalDeps(n.ref, members)) \in Int
    BY <2>h, TaskType, DependsOnFinite
  <2>4. ASSUME NEW n \in D, n \notin here PROVE indegrees[n] \in Int
    BY <2>4 DEF Typed, MarksOK
  <2> HIDE DEF D, here
  <2> QED BY <2>1, <2>2, <2>3, <2>4
<1>4. stream_exceptions' \subseteq Stream BY DEF Reset, Typed, ErrorsOK
<1>5. ScopesOK'
  <2>1. streams' \subseteq streams BY DEF Reset
  <2>2. /\ DOMAIN task_streams' \subseteq DOMAIN task_streams
        /\ task_streams' = [k \in DOMAIN task_streams' |-> task_streams[k]]
    BY DEF Reset
  <2>3. /\ DOMAIN open_streams' \subseteq DOMAIN open_streams
        /\ open_streams' = [k \in DOMAIN open_streams' |-> open_streams[k]]
    BY DEF Reset
  <2> QED BY <2>1, <2>2, <2>3 DEF Typed, ScopesOK
<1>6. DOMAIN results' \subseteq DOMAIN results BY DEF Reset
<1> QED BY <1>1, <1>2, <1>3, <1>4, <1>5, <1>6

\* A new iteration of a loop.
LEMMA NextIterationStep ==
    ASSUME Typed, main # "done", NEW t \in DOMAIN inflight, Action[t.ref] = "loop_end",
           MayContinue(t.ref, LoopIndex(t)), NextIteration(t)
    PROVE  Step
<1> DEFINE key == LoopKey(t)
           members == LoopMembers[t.ref]
           kept == {x \in DOMAIN loop_indices : ~(x.ref \in members /\ Within(x.sid, t.sid))}
<1>t. t \in Task /\ t.ref \in Refs /\ t.sid \in Stream BY InflightType
<1>k. /\ key \in Task
      /\ key.ref = ClosedScope(t.ref)
      /\ \A end \in LoopEnds : ClosedScope(end) = key.ref => end = t.ref
  BY <1>t, LoopEndCloses, TaskType DEF LoopKey, T
<1>m. members \subseteq Refs BY <1>t, LoopEndCloses DEF LoopMembers
<1>r. /\ completed' \subseteq Task
      /\ visited' \subseteq Edge /\ skipped' \subseteq Edge /\ PathsOK'
      /\ DOMAIN indegrees' \subseteq Task /\ indegrees' \in [DOMAIN indegrees' -> Int]
      /\ stream_exceptions' \subseteq Stream
      /\ ScopesOK'
      /\ DOMAIN results' \subseteq DOMAIN results
  <2>1. Reset(t, members, LoopStreams(members, t.sid)) BY DEF NextIteration
  <2> HIDE DEF members
  <2> QED BY <1>t, <1>m, <2>1, ResetType
<1>1. Settles
  <2>1. /\ inflight' = Without(inflight, {t})
        /\ delivered' = delivered \ {t}
        /\ main' = IF main = "waiting" THEN "ready" ELSE main
    BY DEF NextIteration
  <2> QED BY <1>r, <2>1 DEF Settles, Typed, ControlOK, Without
<1>2. MarksOK'
  <2>1. queue' = Append(queue, key) BY DEF NextIteration
  <2> HIDE DEF key
  <2>2. queue' \in Seq(Task) BY <1>k, <2>1 DEF Typed, MarksOK
  <2> QED BY <1>r, <2>2 DEF MarksOK
<1>3. ErrorsOK' BY <1>r DEF NextIteration, Typed, ErrorsOK
<1>5. LoopsOK'
  <2>1. /\ loop_indices' = [k \in kept \cup {key} |->
                              IF k = key THEN LoopIndex(t) + 1 ELSE loop_indices[k]]
        /\ UNCHANGED loop_start_skips
    BY DEF NextIteration, NextIndices
  <2>2. LoopIndex(t) + 1 < MaxIterations[t.ref] /\ LoopIndex(t) \in Nat
    BY LoopIndexType DEF MayContinue
  <2>3. kept \subseteq DOMAIN loop_indices OBVIOUS
  <2> HIDE DEF key, kept
  <2>4. DOMAIN loop_indices' \subseteq Task /\ loop_indices' \in [DOMAIN loop_indices' -> Nat]
    BY <1>k, <2>1, <2>2, <2>3 DEF Typed, LoopsOK
  <2>5. IterationsBounded'
    BY <1>k, <2>1, <2>2, <2>3 DEF Typed, LoopsOK, IterationsBounded
  <2> QED BY <2>1, <2>4, <2>5 DEF Typed, LoopsOK
<1>6. RestOK'
  <2>1. UNCHANGED executions BY DEF NextIteration
  <2> QED BY <1>r, <2>1 DEF Typed, RestOK
<1> QED BY <1>r, <1>1, <1>2, <1>3, <1>5, <1>6 DEF Step

\* The condition of a loop_end has been evaluated.
LEMMA LoopEndDoneStep ==
    ASSUME Typed, NEW t \in DOMAIN inflight, LoopEndDone(t)
    PROVE  Step
<1>d. main # "done" /\ t \in Task BY InflightType DEF LoopEndDone, CanEnd, Running
<1>e. Action[t.ref] = "loop_end" BY DEF LoopEndDone, CanEnd, At, Typed, ControlOK, AwaitFits
<1>1. \/ MayContinue(t.ref, LoopIndex(t)) /\ NextIteration(t)
      \/ FailTask(t) /\ UNCHANGED <<scopes, loops, results, executions>>
      \/ /\ Succeed(t)
         /\ loop_indices' = Without(loop_indices, {LoopKey(t)})
         /\ UNCHANGED <<scopes, loop_start_skips, results, executions>>
  BY DEF LoopEndDone
<1>2. CASE MayContinue(t.ref, LoopIndex(t)) /\ NextIteration(t)
  BY <1>d, <1>e, <1>2, NextIterationStep
<1>3. CASE FailTask(t) /\ UNCHANGED <<scopes, loops, results, executions>>
  BY <1>d, <1>3, FailTaskType, StepIntro
<1>4. CASE /\ Succeed(t)
           /\ loop_indices' = Without(loop_indices, {LoopKey(t)})
           /\ UNCHANGED <<scopes, loop_start_skips, results, executions>>
  <2>1. Settles /\ MarksOK' /\ ErrorsOK' BY <1>d, <1>4, SucceedType
  <2>2. loop_start_skips' \subseteq Task BY <1>4 DEF Typed, LoopsOK
  <2>3. LoopsOK' BY <1>4, <2>2, FewerIndices
  <2> QED BY <1>4, <2>1, <2>3, UnchangedType DEF Step
<1> QED BY <1>1, <1>2, <1>3, <1>4

\* A stream of a scatter is created and its first tasks are queued.
LEMMA CreateStreamType ==
    ASSUME Typed, NEW t \in DOMAIN inflight, Action[t.ref] = "scatter", NEW i \in Nat,
           CreateStream(t, i)
    PROVE  MarksOK' /\ streams' \subseteq Stream
<1> DEFINE sid == NewStream(t.ref, i, t.sid)
           task == T(t.ref, sid)
<1>t. t.ref \in Refs /\ t.sid \in Stream BY InflightType
<1>1. sid \in Stream BY <1>t, NewStreamType
<1>2. task \in Task BY <1>t, <1>1, TaskType
<1>3. streams' = streams \cup {sid} /\ QueueTasks(task, {}) BY DEF CreateStream
<1>4. Outcome(task, {}) BY DEF Outcome, T
<1> HIDE DEF sid, task
<1>5. MarksOK' BY <1>2, <1>3, <1>4, QueueTasksType DEF Typed
<1> QED BY <1>1, <1>3, <1>5 DEF Typed, ScopesOK

\* The collection of a scatter has been evaluated.
LEMMA ScatterCollectionStep ==
    ASSUME Typed, NEW t \in DOMAIN inflight, ScatterCollection(t)
    PROVE  Step
<1>d. main # "done" /\ t \in Task /\ t.ref \in Refs
  BY InflightType DEF ScatterCollection, CanEnd, Running
<1>s. Action[t.ref] = "scatter" BY DEF ScatterCollection, CanEnd, At, Typed, ControlOK, AwaitFits
<1>u. UNCHANGED loops /\ UNCHANGED <<results, executions>> BY DEF ScatterCollection
<1>1. CASE FailTask(t) /\ UNCHANGED scopes
  BY <1>d, <1>u, <1>1, FailTaskType, UnchangedType DEF Step
<1>2. CASE /\ task_streams' = With(task_streams, t, 0)
           /\ open_streams' = With(open_streams, t, 0)
           /\ SkipStream(t)
  <2>1. Settles /\ MarksOK' /\ ErrorsOK' /\ streams' \subseteq Stream
    BY <1>d, <1>2, SkipStreamType
  <2>2. ScopesOK' BY <1>d, <1>2, <2>1 DEF With, Typed, ScopesOK
  <2> QED BY <1>u, <2>1, <2>2, UnchangedType DEF Step
<1>3. ASSUME NEW n \in Sizes[t.ref] \ {0},
             task_streams' = With(task_streams, t, 1),
             CreateStream(t, 0),
             inflight' = [inflight EXCEPT ![t] = [at |-> "scattering", made |-> 1, left |-> n - 1]],
             delivered' = delivered \ {t},
             UNCHANGED <<main, completed, errors, open_streams>>
      PROVE  Step
  <2>1. MarksOK' /\ streams' \subseteq Stream BY <1>3, <1>s, CreateStreamType
  <2>2. n - 1 \in Nat BY <1>d, SchedulerConstants
  <2>3. [at |-> "scattering", made |-> 1, left |-> n - 1] \in Await BY <2>2 DEF Await, Awaits
  <2>4. Settles BY <1>d, <1>3, <1>s, <2>3 DEF Settles, Typed, ControlOK, AwaitFits
  <2>5. ScopesOK' BY <1>d, <1>3, <2>1 DEF With, Typed, ScopesOK
  <2>6. ErrorsOK' BY <1>3 DEF errors, Typed, ErrorsOK
  <2> QED BY <1>u, <2>1, <2>4, <2>5, <2>6, UnchangedType DEF Step
<1> QED BY <1>1, <1>2, <1>3 DEF ScatterCollection

\* A further stream of a scatter is created.
LEMMA ScatterItemStep ==
    ASSUME Typed, NEW t \in DOMAIN inflight, ScatterItem(t)
    PROVE  Step
<1>d. main # "done" /\ t \in Task BY InflightType DEF ScatterItem, Running
<1>a. /\ inflight[t] \in Await /\ inflight[t].made \in Nat /\ inflight[t].left \in Nat
      /\ inflight[t].left > 0 /\ inflight[t].at = "scattering"
  BY DEF ScatterItem, At, Typed, ControlOK, Await
<1>s. Action[t.ref] = "scatter" BY <1>a DEF Typed, ControlOK, AwaitFits
<1>1. MarksOK' /\ streams' \subseteq Stream BY <1>a, <1>s, CreateStreamType DEF ScatterItem
<1>2. Settles
  <2> DEFINE new == [at |-> "scattering", made |-> inflight[t].made + 1, left |-> inflight[t].left - 1]
  <2>1. inflight' = [inflight EXCEPT ![t] = new] BY DEF ScatterItem
  <2>2. new \in Await BY <1>a DEF Await, Awaits
  <2>3. AwaitFits(t, new.at) BY <1>s DEF AwaitFits
  <2>4. UNCHANGED <<main, delivered, completed>> BY DEF ScatterItem
  <2> HIDE DEF new
  <2> QED BY <1>d, <2>1, <2>2, <2>3, <2>4 DEF Settles, Typed, ControlOK
<1>3. ErrorsOK' BY DEF ScatterItem, errors, Typed, ErrorsOK
<1>4. ScopesOK'
  <2> DEFINE D == DOMAIN task_streams
  <2>1. task_streams' = [task_streams EXCEPT ![t] = @ + 1] /\ UNCHANGED open_streams
    BY DEF ScatterItem
  <2>2. DOMAIN task_streams' = D BY <2>1
  <2>3. ASSUME NEW x \in D PROVE task_streams'[x] \in Nat
    BY <2>1, <2>3 DEF Typed, ScopesOK
  <2>4. task_streams' = [x \in D |-> task_streams'[x]] BY <2>1
  <2> QED BY <1>1, <2>1, <2>2, <2>3, <2>4 DEF Typed, ScopesOK
<1>5. UNCHANGED loops /\ UNCHANGED <<results, executions>> BY DEF ScatterItem
<1> QED BY <1>1, <1>2, <1>3, <1>4, <1>5, UnchangedType DEF Step

\* All the streams of a scatter are created.
LEMMA ScatterDoneStep ==
    ASSUME Typed, NEW t \in DOMAIN inflight, ScatterDone(t)
    PROVE  Step
<1>d. main # "done" /\ t \in Task BY InflightType DEF ScatterDone, Running
<1>1. Settles /\ MarksOK' /\ ErrorsOK' BY <1>d, FinishSilentlyType DEF ScatterDone
<1>2. inflight[t].made \in Int BY DEF Typed, ControlOK, Await
<1>3. ScopesOK' BY <1>d, <1>2 DEF ScatterDone, With, Typed, ScopesOK
<1>4. UNCHANGED loops /\ UNCHANGED <<results, executions>> BY DEF ScatterDone
<1> QED BY <1>1, <1>3, <1>4, UnchangedType DEF Step

\* The items expression of a gather has been evaluated.
LEMMA GatherItemStep ==
    ASSUME Typed, NEW t \in DOMAIN inflight, GatherItem(t)
    PROVE  Step
<1>d. main # "done" /\ t \in Task BY InflightType DEF GatherItem, CanEnd, Running
<1>g. Action[t.ref] = "gather" BY DEF GatherItem, CanEnd, At, Typed, ControlOK, AwaitFits
<1>1. CASE CloseStream(t, "item") BY <1>d, <1>g, <1>1, CloseStreamType
<1>2. CASE FailTask(t) /\ UNCHANGED <<scopes, loops, results, executions>>
  BY <1>d, <1>2, FailTaskType, StepIntro
<1> QED BY <1>1, <1>2 DEF GatherItem

\* A gather continues in the parent of the stream it closed.
LEMMA ContinuationType ==
    ASSUME NEW t \in Task, Action[t.ref] = "gather"
    PROVE  Continuation(t) \in Task /\ Outcome(Continuation(t), {})
<1>1. Continuation(t) \in Task BY TaskType, ParentType DEF Continuation
<1> QED BY <1>1 DEF Continuation, Outcome, T

\* A gathered list has been finalized.
LEMMA GatherFinalizedStep ==
    ASSUME Typed, NEW t \in DOMAIN inflight, GatherFinalized(t)
    PROVE  Step
<1>d. main # "done" /\ t \in Task /\ t.ref \in Refs
  BY InflightType DEF GatherFinalized, CanEnd, Running
<1>g. Action[t.ref] = "gather" BY DEF GatherFinalized, CanEnd, At, Typed, ControlOK, AwaitFits
<1>1. \/ FailTask(t)
      \/ Fail(t, FALSE, {t.ref})
      \/ Finish(t, Continuation(t), {})
  BY DEF GatherFinalized
<1>2. Settles /\ MarksOK' /\ ErrorsOK'
  <2>1. /\ {t.ref} \in SUBSET Refs /\ {} \in SUBSET Edge
        /\ Continuation(t) \in Task /\ Outcome(Continuation(t), {})
    BY <1>d, <1>g, ContinuationType
  <2>2. CASE FailTask(t) BY <1>d, <2>2, FailTaskType
  <2>3. CASE Fail(t, FALSE, {t.ref}) BY <1>d, <2>1, <2>3, FailType
  <2>4. CASE Finish(t, Continuation(t), {}) BY <1>d, <2>1, <2>4, FinishType
  <2> QED BY <1>1, <2>2, <2>3, <2>4
<1>3. RestOK'
  <2>1. DOMAIN results' = DOMAIN results BY DEF GatherFinalized
  <2> QED BY <2>1 DEF GatherFinalized, Typed, RestOK
<1>4. UNCHANGED scopes /\ UNCHANGED loops BY DEF GatherFinalized
<1> QED BY <1>2, <1>3, <1>4, UnchangedType DEF Step

\* The empty list of an empty collection has been stored.
LEMMA EmptyGatherFinalizedStep ==
    ASSUME Typed, NEW t \in DOMAIN inflight, EmptyGatherFinalized(t)
    PROVE  Step
<1>d. main # "done" /\ t \in Task BY InflightType DEF EmptyGatherFinalized, CanEnd, Running
<1>g. Action[t.ref] = "gather" BY DEF EmptyGatherFinalized, CanEnd, At, Typed, ControlOK, AwaitFits
<1>1. FailTask(t) \/ Finish(t, Continuation(t), {}) BY DEF EmptyGatherFinalized
<1>2. Settles /\ MarksOK' /\ ErrorsOK'
  <2>1. {} \in SUBSET Edge /\ Continuation(t) \in Task /\ Outcome(Continuation(t), {})
    BY <1>d, <1>g, ContinuationType
  <2> QED BY <1>d, <1>1, <2>1, FailTaskType, FinishType
<1>3. RestOK'
  <2>1. ResultKey(t) \in Refs \X Stream BY <1>d, ResultKeyType
  <2> QED BY <2>1 DEF EmptyGatherFinalized, With, Typed, RestOK
<1>4. UNCHANGED scopes /\ UNCHANGED loops BY DEF EmptyGatherFinalized
<1> QED BY <1>2, <1>3, <1>4, UnchangedType DEF Step

\* A coroutine is cancelled.
LEMMA CancelledStep ==
    ASSUME Typed, NEW t \in DOMAIN inflight, Cancelled(t)
    PROVE  Step
<1>d. main # "done" /\ t \in Task BY InflightType DEF Cancelled
<1>1. FinishSilently(t) \/ FailTask(t) BY DEF Cancelled
<1>2. Settles /\ MarksOK' /\ ErrorsOK' BY <1>d, <1>1, FinishSilentlyType, FailTaskType
<1> QED BY <1>2, StepIntro DEF Cancelled

\* Every step of a coroutine.
LEMMA TaskStepType ==
    ASSUME Typed, NEW t \in DOMAIN inflight, TaskStep(t)
    PROVE  Step
BY BeginStep, EvaluateRunIfStep, ExecuteDoneStep, LoopStartDoneStep, LoopEndDoneStep,
   ScatterCollectionStep, ScatterItemStep, ScatterDoneStep, GatherItemStep,
   GatherFinalizedStep, EmptyGatherFinalizedStep, CancelledStep DEF TaskStep

-----------------------------------------------------------------------------
(* The steps of start() and of Temporal.                                   *)

\* Spawning a batch stays within the cap.
LEMMA SpawnStep ==
    ASSUME IInv, Spawn
    PROVE  IInv'
<1> DEFINE n == Smaller(Len(queue), Smaller(Room, SpawnYieldEvery))
           batch == {queue[i] : i \in 1..n}
           f == [i \in 1..n |-> queue[i]]
<1>0. Typed /\ IsFiniteSet(DOMAIN inflight) /\ PendingBounded BY DEF IInv
<1>1. /\ main' \in {"ready", "waiting"}
      /\ inflight' = [t \in DOMAIN inflight \cup batch |->
                         IF t \in batch THEN Awaiting("new") ELSE inflight[t]]
      /\ queue' = SubSeq(queue, n + 1, Len(queue))
      /\ UNCHANGED <<delivered, completed, indegrees, visited, skipped, errors, scopes,
                     loops, results, executions>>
  BY DEF Spawn
<1>2. Cardinality(DOMAIN inflight) \in Nat BY <1>0, FS_CardinalityType
<1>3. queue \in Seq(Task) /\ Len(queue) \in Nat BY <1>0 DEF Typed, MarksOK
<1>4. n \in Nat /\ n <= Len(queue) /\ n <= MaxPending - Cardinality(DOMAIN inflight)
  <2>1. Room \in Nat /\ SpawnYieldEvery \in Nat
    BY <1>0, <1>2, SchedulerConstants DEF Room, PendingBounded
  <2> QED BY <1>3, <2>1 DEF Smaller, Room
<1> HIDE DEF n
<1>5. batch \subseteq Task BY <1>3, <1>4
<1>6. IsFiniteSet(batch) /\ Cardinality(batch) <= n
  <2>1. IsFiniteSet(1..n) /\ Cardinality(1..n) = n BY <1>4, FS_Interval
  <2>2. /\ IsFiniteSet({f[i] : i \in 1..n})
        /\ Cardinality({f[i] : i \in 1..n}) <= Cardinality(1..n)
    BY <2>1, ImageFinite
  <2>3. batch = {f[i] : i \in 1..n} OBVIOUS
  <2> QED BY <2>1, <2>2, <2>3
<1>7. ControlOK'
  <2>1. Awaiting("new") \in Await /\ \A t \in Task : AwaitFits(t, Awaiting("new").at)
    BY DEF Await, Awaits, Awaiting, AwaitFits
  <2> HIDE DEF batch
  <2> QED BY <1>0, <1>1, <1>5, <2>1 DEF Typed, ControlOK
<1>8. MarksOK'
  <2>1. SubSeq(queue, n + 1, Len(queue)) \in Seq(Task)
    <3>1. \A i \in n + 1..Len(queue) : queue[i] \in Task BY <1>3, <1>4
    <3>2. n + 1 \in Int /\ Len(queue) \in Int BY <1>3, <1>4
    <3> QED BY <3>1, <3>2, SubSeqProperties
  <2>2. PathsOK' BY <1>0, <1>1, PathsKept DEF Typed, MarksOK
  <2> QED BY <1>0, <1>1, <2>1, <2>2 DEF Typed, MarksOK
<1>9. ErrorsOK' /\ ScopesOK' /\ LoopsOK' /\ RestOK'
  <2>1. ErrorsOK' BY <1>0, <1>1 DEF errors, Typed, ErrorsOK
  <2> QED BY <1>0, <1>1, <2>1, UnchangedType
<1>10. IsFiniteSet(DOMAIN inflight') /\ PendingBounded'
  <2>1. DOMAIN inflight' = DOMAIN inflight \cup batch BY <1>1
  <2>2. IsFiniteSet(DOMAIN inflight \cup batch) BY <1>0, <1>6, FS_Union
  <2>3. Cardinality(DOMAIN inflight \cup batch)
            = Cardinality(DOMAIN inflight) + Cardinality(batch)
                - Cardinality(DOMAIN inflight \cap batch)
    BY <1>0, <1>6, FS_Union
  <2>4. Cardinality(DOMAIN inflight \cap batch) \in Nat /\ Cardinality(batch) \in Nat
    <3>1. IsFiniteSet(DOMAIN inflight \cap batch) BY <1>0, FS_Subset
    <3> QED BY <1>6, <3>1, FS_CardinalityType
  <2> HIDE DEF batch
  <2> QED BY <1>2, <1>4, <1>6, <2>1, <2>2, <2>3, <2>4, SchedulerConstants DEF PendingBounded
<1>11. DrainedOnSuccess' BY <1>1 DEF DrainedOnSuccess
<1> QED BY <1>7, <1>8, <1>9, <1>10, <1>11 DEF IInv, Typed

\* Steps that change only where start() is, or what has been delivered.
LEMMA ControlStep ==
    ASSUME IInv, main' \in {"ready", "waiting", "stopping", "done", "failed"},
           delivered' \subseteq Task,
           UNCHANGED <<inflight, completed, marks, errors, scopes, loops, results, executions>>
    PROVE  /\ Typed' /\ IsFiniteSet(DOMAIN inflight') /\ PendingBounded'
           /\ (main' # "done" => DrainedOnSuccess')
<1>0. Typed /\ IsFiniteSet(DOMAIN inflight) /\ PendingBounded BY DEF IInv
<1>1. ControlOK' BY <1>0 DEF Typed, ControlOK
<1>2. MarksOK' /\ ErrorsOK'
  <2>1. PathsOK' BY <1>0, PathsKept DEF marks, Typed, MarksOK
  <2> QED BY <1>0, <2>1 DEF marks, errors, Typed, MarksOK, ErrorsOK
<1>3. ScopesOK' /\ LoopsOK' /\ RestOK' BY <1>0, UnchangedType
<1>4. IsFiniteSet(DOMAIN inflight') /\ PendingBounded' BY <1>0 DEF PendingBounded
<1>5. main' # "done" => DrainedOnSuccess' BY DEF DrainedOnSuccess
<1> QED BY <1>1, <1>2, <1>3, <1>4, <1>5 DEF Typed

-----------------------------------------------------------------------------
(* The theorems.                                                           *)

\* The initial states of every workflow.
LEMMA InitIInv == Init => IInv
<1> SUFFICES ASSUME Init PROVE IInv OBVIOUS
<1>1. PICK w \in Workflows :
         /\ indegrees = [t \in {T(r, Root) : r \in w} |-> Cardinality(DependsOn[t.ref])]
         /\ queue \in InAdjOrder({T(r, Root) : r \in {x \in w : DependsOn[x] = {}}})
  BY DEF Init
<1>2. w \subseteq Refs BY GraphType
<1>3. DOMAIN EmptyFcn = {} /\ \A S : EmptyFcn \in [{} -> S] BY DEF EmptyFcn
<1>4. ControlOK BY <1>3 DEF Init, ControlOK
<1>5. MarksOK
  <2>1. {T(r, Root) : r \in w} \subseteq Task BY <1>2, RootType, TaskType
  <2>2. DOMAIN indegrees \subseteq Task /\ indegrees \in [DOMAIN indegrees -> Int]
    <3>1. \A t \in Task : Cardinality(DependsOn[t.ref]) \in Int BY TaskType, DependsOnFinite
    <3> QED BY <1>1, <2>1, <3>1
  <2>3. queue \in Seq(Task)
    <3> DEFINE roots == {x \in w : DependsOn[x] = {}}
               f == [r \in roots |-> T(r, Root)]
    <3>1. IsFiniteSet(roots) BY <1>2, GraphType, FS_Subset
    <3>2. IsFiniteSet({f[r] : r \in roots})
      <4> HIDE DEF roots
      <4> QED BY <3>1, ImageFinite
    <3>3. {T(r, Root) : r \in roots} = {f[r] : r \in roots} OBVIOUS
    <3>4. {T(r, Root) : r \in roots} \in SUBSET Task BY <2>1
    <3> HIDE DEF roots, f
    <3> QED BY <1>1, <3>2, <3>3, <3>4, InAdjOrderType DEF roots
  <2>4. visited \subseteq Edge /\ skipped \subseteq Edge BY DEF Init
  <2>5. PathsOK BY DEF Init, PathsOK, ExclusivePaths
  <2> QED BY <2>2, <2>3, <2>4, <2>5 DEF MarksOK
<1>6. ErrorsOK BY DEF Init, ErrorsOK
<1>7. ScopesOK BY <1>3, RootType DEF Init, ScopesOK
<1>8. LoopsOK BY <1>3 DEF Init, LoopsOK, IterationsBounded
<1>9. RestOK BY <1>3 DEF Init, RestOK
<1>10. IsFiniteSet(DOMAIN inflight) /\ PendingBounded
  BY <1>3, FS_EmptySet, SchedulerConstants DEF Init, PendingBounded
<1>11. DrainedOnSuccess BY DEF Init, DrainedOnSuccess
<1> QED BY <1>4, <1>5, <1>6, <1>7, <1>8, <1>9, <1>10, <1>11 DEF IInv, Typed

\* Every step keeps the invariant.
LEMMA NextIInv == IInv /\ [Next]_vars => IInv'
<1> SUFFICES ASSUME IInv, [Next]_vars PROVE IInv' OBVIOUS
<1>0. Typed /\ ControlOK /\ IsFiniteSet(DOMAIN inflight) /\ PendingBounded
  BY DEF IInv, Typed
<1>1. CASE Spawn BY <1>1, SpawnStep
<1>2. CASE Wait
  <2>1. /\ main' = "waiting"
        /\ UNCHANGED <<inflight, delivered, completed, marks, errors, scopes, loops, results, executions>>
    BY <1>2 DEF Wait
  <2>2. delivered' \subseteq Task BY <1>0, <2>1 DEF ControlOK
  <2> QED BY <2>1, <2>2, ControlStep DEF IInv
<1>3. CASE AllCompleted
  <2>1. /\ main' = "done" /\ task_exceptions = {} /\ queue = << >> /\ DOMAIN inflight = {}
        /\ UNCHANGED <<inflight, delivered, completed, marks, errors, scopes, loops, results, executions>>
    BY <1>3 DEF AllCompleted
  <2>2. delivered' \subseteq Task BY <1>0, <2>1 DEF ControlOK
  <2>3. DrainedOnSuccess' BY <2>1 DEF DrainedOnSuccess, marks, errors
  <2> QED BY <2>1, <2>2, <2>3, ControlStep DEF IInv
<1>4. CASE Stop
  <2>1. /\ main' = "stopping"
        /\ UNCHANGED <<inflight, delivered, completed, marks, errors, scopes, loops, results, executions>>
    BY <1>4 DEF Stop
  <2>2. delivered' \subseteq Task BY <1>0, <2>1 DEF ControlOK
  <2> QED BY <2>1, <2>2, ControlStep DEF IInv
<1>5. CASE ReturnExceptions
  <2>1. /\ main' = "failed"
        /\ UNCHANGED <<inflight, delivered, completed, marks, errors, scopes, loops, results, executions>>
    BY <1>5 DEF ReturnExceptions
  <2>2. delivered' \subseteq Task BY <1>0, <2>1 DEF ControlOK
  <2> QED BY <2>1, <2>2, ControlStep DEF IInv
<1>6. CASE Activate
  <2>1. /\ main' = "waiting" /\ delivered' \subseteq DOMAIN inflight
        /\ UNCHANGED <<inflight, completed, marks, errors, scopes, loops, results, executions>>
    BY <1>6 DEF Activate
  <2>2. delivered' \subseteq Task BY <1>0, <2>1 DEF ControlOK
  <2> QED BY <2>1, <2>2, ControlStep DEF IInv
<1>7. ASSUME NEW t \in DOMAIN inflight, TaskStep(t) PROVE IInv'
  <2>1. Step BY <1>0, <1>7, TaskStepType
  <2>2. Typed' /\ DOMAIN inflight' \subseteq DOMAIN inflight /\ main' # "done"
    BY <2>1 DEF Step, Settles, Typed
  <2>3. /\ IsFiniteSet(DOMAIN inflight')
        /\ Cardinality(DOMAIN inflight') <= Cardinality(DOMAIN inflight)
    BY <1>0, <2>2, FS_Subset
  <2>4. PendingBounded'
    <3>1. Cardinality(DOMAIN inflight') \in Nat /\ Cardinality(DOMAIN inflight) \in Nat
      BY <1>0, <2>3, FS_CardinalityType
    <3> QED BY <1>0, <2>3, <3>1, SchedulerConstants DEF PendingBounded
  <2>5. DrainedOnSuccess' BY <2>2 DEF DrainedOnSuccess
  <2> QED BY <2>2, <2>3, <2>4, <2>5 DEF IInv
<1>8. CASE UNCHANGED vars
  <2>1. /\ UNCHANGED <<main, inflight, delivered, completed, marks, errors, scopes, loops,
                       results, executions>>
        /\ main \in {"ready", "waiting", "stopping", "done", "failed"} /\ delivered \subseteq Task
    BY <1>0, <1>8 DEF vars, control, ControlOK
  <2>2. DrainedOnSuccess' BY <2>1 DEF IInv, DrainedOnSuccess, marks, errors
  <2> QED BY <2>1, <2>2, ControlStep DEF IInv
<1> QED BY <1>1, <1>2, <1>3, <1>4, <1>5, <1>6, <1>7, <1>8 DEF Next

\* The invariant holds in every reachable state.
THEOREM Invariance == Spec => []IInv
BY InitIInv, NextIInv, PTL DEF Spec

\* Whatever the workflow and its outcomes, the tables of the scheduler hold
\* only tasks, edges and streams of its graph, and every counter is a number.
THEOREM TypeCorrect == Spec => []TypeOK
<1>1. IInv => TypeOK
  BY DEF IInv, Typed, ControlOK, MarksOK, ErrorsOK, ScopesOK, LoopsOK, RestOK, TypeOK
<1> QED BY <1>1, Invariance, PTL

\* start() never exceeds max_pending_tasks, whatever it spawns between two
\* yields and however many coroutines a wake-up finds ended.
THEOREM PendingIsBounded == Spec => []PendingBounded
<1>1. IInv => PendingBounded BY DEF IInv
<1> QED BY <1>1, Invariance, PTL

\* No loop, however nested, repeats beyond the max_iterations of its loop_end.
THEOREM LoopsAreBounded == Spec => []IterationsBounded
<1>1. IInv => IterationsBounded BY DEF IInv, Typed, LoopsOK
<1> QED BY <1>1, Invariance, PTL

\* No task but a scatter or a gather opens both its success and its error path,
\* in any stream and any iteration of a loop (_handle_success_path,
\* _handle_error_path, _handle_skip_path).
THEOREM PathsAreExclusive == Spec => []ExclusivePaths
<1>1. IInv => ExclusivePaths BY DEF IInv, Typed, MarksOK, PathsOK
<1> QED BY <1>1, Invariance, PTL

-----------------------------------------------------------------------------
(* Workflows of ordinary actions and loops: any graph of dependencies,     *)
(* joins, run_if conditions and error paths, with loops in loops, but no   *)
(* scatter.  There a task runs once in an iteration of the loops around    *)
(* it, its indegree is the number of its pending edges, and an iteration   *)
(* begins when nothing is left of the one before.                          *)

Unscattered == \A r \in Refs : Action[r] \notin {"scatter", "gather"}

\* Edges that carry a marker.
Marked == visited \cup skipped

Begun == Active \cup completed

\* The tasks that have ended in the iteration the loops around them are in.
\* A loop_end that goes on to a new iteration stays in completed_tasks with its
\* edges pending, and is not among them.
Over == {t \in completed \ Active : InEdges(t) \subseteq Marked}

\* The tasks counted are those of one workflow, and tasks begin among them.
OneWorkflow ==
    /\ \E w \in Workflows : DOMAIN indegrees = {T(r, Root) : r \in w}
    /\ Begun \subseteq DOMAIN indegrees

NoStreams == DOMAIN task_streams = {} /\ DOMAIN open_streams = {}

\* The edges of a task are marked when it ends, and those into it before it
\* begins.
MarkedInOrder ==
    /\ \A e \in Marked : T(e.src, e.sid) \in Over /\ e \in OutEdges(T(e.src, e.sid))
    /\ \A t \in Active : InEdges(t) \subseteq Marked

UInv ==
    /\ OneWorkflow
    /\ NoStreams
    /\ MarkedInOrder
    /\ IndegreesMatchEdges
    /\ ScheduledOnce

-----------------------------------------------------------------------------
(* Loop regions.                                                           *)

\* One enters the region of a loop by its loop_start and leaves it by its
\* loop_end only.
LEMMA LoopRegion ==
    ASSUME Unscattered, NEW end \in LoopEnds
    PROVE  LET start == ClosedScope(end)
               members == LoopMembers[end]
           IN  /\ members \subseteq Refs /\ end \in members /\ start \in members /\ start # end
               /\ \A r \in members \ {start} : DependsOn[r] # {} /\ DepRefs(r) \subseteq members
               /\ \A r \in members \ {end} : \A s \in Refs : r \in DepRefs(s) => s \in members
<1> DEFINE start == ClosedScope(end)
           members == LoopMembers[end]
           In(scope) == start \in EnclosingScopes[scope]
<1>e. end \in Refs /\ Action[end] = "loop_end" BY DEF LoopEnds
<1>v. /\ ClosersMatchOpeners /\ ScopeDependenciesValid /\ LoopScopesSynchronize
      /\ \A r \in Closers : DependsOn[r] # {}
  BY ValidDSL DEF ValidStructure
<1>s. start \in Refs /\ Action[start] = "loop_start" /\ start \in Openers
  <2>1. end \in Closers BY <1>e DEF Closers
  <2>2. start \in Refs /\ Action[start] = OpenerOf(end) BY <1>v, <2>1 DEF ClosersMatchOpeners
  <2> QED BY <1>e, <2>2 DEF OpenerOf, Openers
<1>m. members = {r \in Refs : In(ActionScope[r])} \cup {end}
  BY DEF LoopMembers, ScopeIsDescendant
<1>a. \A r \in Refs : \A d \in DepRefs(r) : d \in Refs
  BY GraphType DEF DepRefs
<1>o. ~In(RootScope)
  <2>1. ParentScope(RootScope) = NoScope BY RefsAreSlugs DEF ParentScope, ReachedIn
  <2>2. EnclosingScopes[RootScope] = {RootScope} BY <2>1, ScopesDefined
  <2> QED BY <1>s, <2>2, RefsAreSlugs
\* Scopes, by the kind of the action.
<1>k. \A r \in Refs : Action[r] \in {"action", "loop_start", "loop_end"}
  BY GraphType DEF Unscattered, ActionKinds
<1>1. ASSUME NEW r \in Refs, Action[r] = "action"
      PROVE  /\ DependsOn[r] = {} => ~In(ActionScope[r])
             /\ \A d \in DepRefs(r) : ActionScope[d] = ActionScope[r]
  <2>1. r \notin Openers /\ r \notin Closers BY <1>1 DEF Openers, Closers
  <2>2. DependsOn[r] = {} => ActionScope[r] = RootScope
    BY <2>1, ScopesDefined DEF AssignedScope, ReachedIn
  <2>3. \A d \in DepRefs(r) : ActionScope[d] = ActionScope[r]
    BY <1>1, <1>v, <2>1 DEF ScopeDependenciesValid
  <2> QED BY <1>o, <2>2, <2>3
<1>2. ASSUME NEW r \in Refs, Action[r] = "loop_start"
      PROVE  /\ ActionScope[r] = r
             /\ In(r) <=> r = start \/ In(ParentScope(r))
             /\ DependsOn[r] = {} => ~In(ParentScope(r))
             /\ \A d \in DepRefs(r) : ActionScope[d] = ParentScope(r)
  <2>1. r \in Openers /\ r \notin Closers BY <1>2 DEF Openers, Closers
  <2>2. ActionScope[r] = r BY <2>1, ScopesDefined DEF AssignedScope
  <2>3. EnclosingScopes[r] = {r} \cup EnclosingScopes[ParentScope(r)] BY ScopesDefined
  <2>4. DependsOn[r] = {} => ParentScope(r) = RootScope BY DEF ParentScope, ReachedIn
  <2>5. \A d \in DepRefs(r) : ActionScope[d] = ParentScope(r)
    BY <1>2, <1>v, <2>1 DEF ScopeDependenciesValid
  <2> QED BY <1>o, <2>2, <2>3, <2>4, <2>5
<1>3. ASSUME NEW r \in Refs, Action[r] = "loop_end"
      PROVE  /\ DependsOn[r] # {}
             /\ \A d \in DepRefs(r) : ActionScope[d] = ClosedScope(r)
             /\ In(ClosedScope(r)) <=> ClosedScope(r) = start \/ In(ActionScope[r])
             /\ ClosedScope(r) = start => r = end
  <2>1. r \in Closers /\ r \notin Openers /\ r \in LoopEnds BY <1>3 DEF Closers, Openers, LoopEnds
  <2>2. DependsOn[r] # {} /\ ClosedScope(r) \in Refs BY <1>v, <2>1 DEF ClosersMatchOpeners
  <2>3. \A d \in DepRefs(r) : ActionScope[d] = ClosedScope(r)
    BY <1>3, <1>v, <2>1 DEF ScopeDependenciesValid
  <2>4. ActionScope[r] = ParentScope(ClosedScope(r))
    <3>1. ReachedIn(r, ActionScope) = ClosedScope(r) BY <2>2 DEF ReachedIn, ClosedScope
    <3>2. ActionScope[r] = ReachedIn(ReachedIn(r, ActionScope), ActionScope)
      BY <2>1, ScopesDefined DEF AssignedScope
    <3> QED BY <3>1, <3>2 DEF ParentScope
  <2>5. EnclosingScopes[ClosedScope(r)] = {ClosedScope(r)} \cup EnclosingScopes[ActionScope[r]]
    BY <2>2, <2>4, ScopesDefined
  <2>6. ClosedScope(r) = start => r = end BY <1>v, <2>1 DEF LoopScopesSynchronize
  <2> QED BY <2>2, <2>3, <2>5, <2>6
<1>4. In(ActionScope[start]) BY <1>s, <1>2
<1> HIDE DEF In, start, members
<1>5. ASSUME NEW r \in members, r # start
      PROVE  DependsOn[r] # {} /\ DepRefs(r) \subseteq members
  <2>0. r \in Refs BY <1>m, <1>e
  <2>1. CASE r = end
    <3>1. \A d \in DepRefs(r) : ActionScope[d] = start BY <1>e, <1>3, <2>1 DEF start
    <3>2. In(start) BY <1>s, <1>2
    <3> QED BY <1>e, <1>3, <1>a, <1>m, <2>0, <2>1, <3>1, <3>2
  <2>2. CASE r # end /\ Action[r] = "action"
    BY <1>1, <1>5, <1>a, <1>m, <2>0, <2>2
  <2>3. CASE r # end /\ Action[r] = "loop_start"
    BY <1>2, <1>5, <1>a, <1>m, <2>0, <2>3
  <2>4. CASE r # end /\ Action[r] = "loop_end"
    BY <1>3, <1>5, <1>a, <1>m, <2>0, <2>4
  <2> QED BY <1>k, <2>0, <2>1, <2>2, <2>3, <2>4
<1>6. ASSUME NEW r \in members, r # end, NEW s \in Refs, r \in DepRefs(s)
      PROVE  s \in members
  <2>0. In(ActionScope[r]) BY <1>m, <1>6
  <2>1. CASE Action[s] = "action" BY <1>1, <1>6, <1>m, <2>0, <2>1
  <2>2. CASE Action[s] = "loop_start"
    <3>1. In(ActionScope[s]) BY <1>2, <1>6, <2>0, <2>2
    <3> QED BY <1>m, <3>1
  <2>3. CASE Action[s] = "loop_end"
    <3>1. s = end \/ In(ActionScope[s]) BY <1>3, <1>6, <2>0, <2>3
    <3> QED BY <1>m, <3>1
  <2> QED BY <1>k, <2>1, <2>2, <2>3
<1>7. start # end BY <1>e, <1>s
<1> QED BY <1>4, <1>5, <1>6, <1>7, <1>m, <1>e, <1>s DEF start, members

\* The region belongs to the workflow of its loop_end, and its loop_start
\* depends on nothing in it.
LEMMA LoopRegionIn ==
    ASSUME Unscattered, NEW w \in Workflows, NEW end \in LoopEnds, end \in w
    PROVE  /\ LoopMembers[end] \subseteq w
           /\ DepRefs(ClosedScope(end)) \cap LoopMembers[end] = {}
<1> DEFINE start == ClosedScope(end)
           members == LoopMembers[end]
           here == members \cap w
<1>1. /\ members \subseteq Refs /\ end \in members /\ start \in members
      /\ \A r \in members \ {start} : DependsOn[r] # {} /\ DepRefs(r) \subseteq members
  BY LoopRegion
<1>2. \A q, r \in Refs : \A type \in EdgeTypes : <<r, type>> \in DependsOn[q] => (r \in w <=> q \in w)
  BY GraphType
<1> HIDE DEF members, start
<1>3. members \subseteq w
  <2>1. \A q \in here : \A r \in members : <<r, "success">> \in DependsOn[q] => r \in here
    BY <1>1, <1>2 DEF EdgeTypes
  <2>2. here \in {m \in SUBSET members : end \in m} BY <1>1
  <2> HIDE DEF here
  <2>3. here = members BY <2>1, <2>2, SynchronizedDSL DEF members
  <2> QED BY <2>3 DEF here
<1>4. PICK r \in members : DepRefs(r) \cap members = {} BY <1>1, <1>3, AcyclicDSL
<1>5. r = start
  <2> SUFFICES ASSUME r # start PROVE FALSE OBVIOUS
  <2>1. DependsOn[r] # {} /\ DepRefs(r) \subseteq members BY <1>1
  <2> QED BY <1>4, <2>1 DEF DepRefs
<1> QED BY <1>3, <1>4, <1>5 DEF members, start

-----------------------------------------------------------------------------
(* What _queue_tasks does in such a workflow.                              *)

\* The edges into a task are finitely many, and those that come from t are the
\* edges of t that lead to it.
LEMMA InEdgesAre ==
    ASSUME NEW n \in Task
    PROVE  /\ IsFiniteSet(InEdges(n))
           /\ Cardinality(InEdges(n)) = Cardinality(DependsOn[n.ref])
           /\ \A e \in InEdges(n) : e.dst = n.ref /\ e.sid = n.sid
           /\ \A t \in Task : n.sid = t.sid =>
                  InEdges(n) \cap OutEdges(t) = {e \in OutEdges(t) : e.dst = n.ref}
<1> DEFINE D == DependsOn[n.ref]
           f == [d \in D |-> [src |-> d[1], dst |-> n.ref, type |-> d[2], sid |-> n.sid]]
<1>0. n.ref \in Refs /\ D \subseteq Refs \X EdgeTypes /\ IsFiniteSet(D)
  BY TaskType, GraphType, DependsOnFinite
<1>1. InEdges(n) = {f[d] : d \in D} BY DEF InEdges
<1>2. f \in Bijection(D, InEdges(n))
  <2>1. f \in Surjection(D, InEdges(n)) BY <1>1 DEF Surjection
  <2>2. ASSUME NEW d1 \in D, NEW d2 \in D, f[d1] = f[d2] PROVE d1 = d2
    <3>1. d1[1] = d2[1] /\ d1[2] = d2[2] BY <2>2
    <3> QED BY <1>0, <3>1
  <2> QED BY <2>1, <2>2 DEF Bijection, Injection, IsInjective, Surjection
<1>3. IsFiniteSet(InEdges(n)) /\ Cardinality(InEdges(n)) = Cardinality(D)
  BY <1>0, <1>2, FS_Bijection DEF ExistsBijection
<1>4. \A e \in InEdges(n) : e.dst = n.ref /\ e.sid = n.sid BY DEF InEdges
<1>5. ASSUME NEW t \in Task, n.sid = t.sid, NEW e \in OutEdges(t), e.dst = n.ref
      PROVE  e \in InEdges(n)
  <2>1. PICK a \in Adj(t.ref) : e = [src |-> t.ref, dst |-> a[1], type |-> a[2], sid |-> t.sid]
    BY DEF OutEdges
  <2>2. <<t.ref, a[2]>> \in D BY <1>5, <2>1 DEF Adj
  <2>3. f[<<t.ref, a[2]>>] = e BY <1>5, <2>1, <2>2
  <2> QED BY <1>1, <2>2, <2>3
<1> QED BY <1>3, <1>4, <1>5

\* Tasks in the order of adj are each there once.
LEMMA InAdjOrderOnce ==
    ASSUME NEW tasks \in SUBSET Task, IsFiniteSet(tasks), NEW q \in InAdjOrder(tasks)
    PROVE  /\ \A i \in DOMAIN q : q[i] \in tasks
           /\ \A i, j \in DOMAIN q : q[i] = q[j] => i = j
<1>1. Cardinality(tasks) \in Nat BY FS_CardinalityType
<1>2. q \in [1..Cardinality(tasks) -> tasks] BY DEF InAdjOrder
<1>3. \A i, j \in DOMAIN q : i < j => Rank[q[i].ref] < Rank[q[j].ref] BY DEF InAdjOrder
<1>4. \A i \in DOMAIN q : Rank[q[i].ref] \in Nat BY <1>2, TaskType, GraphType
<1>5. DOMAIN q \subseteq Nat BY <1>1, <1>2
<1> QED BY <1>2, <1>3, <1>4, <1>5

\* The queue after tasks have been put at its end.
LEMMA QueuedAfter ==
    ASSUME NEW s \in Seq(Task), NEW q \in Seq(Task),
           \A i, j \in DOMAIN s : s[i] = s[j] => i = j,
           \A i, j \in DOMAIN q : q[i] = q[j] => i = j,
           \A i \in DOMAIN s, j \in DOMAIN q : s[i] # q[j]
    PROVE  /\ \A i \in DOMAIN (s \o q) :
                  \/ \E j \in DOMAIN s : (s \o q)[i] = s[j]
                  \/ \E j \in DOMAIN q : (s \o q)[i] = q[j]
           /\ \A i, j \in DOMAIN (s \o q) : (s \o q)[i] = (s \o q)[j] => i = j
<1>1. /\ Len(s) \in Nat /\ Len(q) \in Nat
      /\ DOMAIN s = 1..Len(s) /\ DOMAIN q = 1..Len(q)
      /\ DOMAIN (s \o q) = 1..(Len(s) + Len(q))
  OBVIOUS
<1>2. \A i \in DOMAIN (s \o q) :
          (s \o q)[i] = IF i <= Len(s) THEN s[i] ELSE q[i - Len(s)]
  BY <1>1
<1>3. \A i \in DOMAIN (s \o q) : i \in DOMAIN s \/ i - Len(s) \in DOMAIN q
  BY <1>1
<1> QED BY <1>1, <1>2, <1>3

\* A step of a coroutine in such a workflow: it ends and marks its edges, it
\* goes on, or it begins a new iteration.  Without marking its edges it ends
\* only once the workflow has failed.
Ends(t) ==
    /\ Complete(t) /\ task_exceptions \subseteq task_exceptions'
    /\ \/ UNCHANGED marks /\ (task_exceptions' # {} \/ main = "stopping")
       \/ \E unreachable \in SUBSET OutEdges(t) : QueueTasks(t, unreachable)

GoesOn == DOMAIN inflight' = DOMAIN inflight /\ UNCHANGED <<completed, marks>>

Stays == GoesOn /\ UNCHANGED <<main, errors>>

LEMMA FailEnds ==
    ASSUME NEW t, NEW fail_workflow, NEW registered, Fail(t, fail_workflow, registered)
    PROVE  Ends(t)
<1> DEFINE error_edges == {e \in OutEdges(t) : e.type = "error"}
<1>1. /\ task_exceptions \subseteq task_exceptions'
      /\ \/ UNCHANGED marks /\ t.ref \in task_exceptions'
         \/ QueueTasks(t, OutEdges(t) \ error_edges)
         \/ QueueTasks(t, OutEdges(t))
  BY DEF Fail
<1>2. OutEdges(t) \ error_edges \in SUBSET OutEdges(t) /\ OutEdges(t) \in SUBSET OutEdges(t)
  OBVIOUS
<1>3. Complete(t) BY DEF Fail
<1> HIDE DEF error_edges
<1> QED BY <1>1, <1>2, <1>3 DEF Ends

LEMMA SucceedEnds ==
    ASSUME NEW t, Succeed(t)
    PROVE  Ends(t)
<1>1. {e \in OutEdges(t) : e.type # "success"} \in SUBSET OutEdges(t) OBVIOUS
<1> QED BY <1>1 DEF Succeed, Finish, Ends, errors

LEMMA SkippedEnds ==
    ASSUME NEW t, Finish(t, t, OutEdges(t))
    PROVE  Ends(t)
<1>1. OutEdges(t) \in SUBSET OutEdges(t) OBVIOUS
<1> QED BY <1>1 DEF Finish, Ends, errors

LEMMA DispatchUnscattered ==
    ASSUME Unscattered, Typed, NEW t \in DOMAIN inflight, Dispatch(t)
    PROVE  (Ends(t) \/ Stays) /\ UNCHANGED <<task_streams, open_streams>>
<1>1. Action[t.ref] \notin {"scatter", "gather"} BY InflightType DEF Unscattered
<1>2. /\ FailTask(t) \/ \E a \in {"execute", "loop_start", "condition"} : AwaitNext(t, a)
      /\ UNCHANGED <<task_streams, open_streams>>
  <2>1. CASE ~Reachable(t) BY <2>1 DEF Dispatch, scopes
  <2>2. CASE Reachable(t) /\ Action[t.ref] = "loop_start" BY <2>2 DEF Dispatch, scopes
  <2>3. CASE Reachable(t) /\ Action[t.ref] = "loop_end" BY <2>3 DEF Dispatch, scopes
  <2>4. CASE Reachable(t) /\ Action[t.ref] \notin {"loop_start", "loop_end"}
    BY <1>1, <2>4 DEF Dispatch, StartExecution, scopes
  <2> QED BY <2>1, <2>2, <2>3, <2>4
<1>3. CASE FailTask(t) BY <1>2, <1>3, FailEnds DEF FailTask
<1>4. ASSUME NEW a, AwaitNext(t, a) PROVE Stays BY <1>4 DEF AwaitNext, GoesOn, Stays
<1> QED BY <1>2, <1>3, <1>4

LEMMA SkipPathUnscattered ==
    ASSUME Unscattered, Typed, NEW t \in DOMAIN inflight, SkipPath(t)
    PROVE  Ends(t) /\ UNCHANGED <<task_streams, open_streams>>
<1>1. Action[t.ref] \notin {"scatter", "gather"} BY InflightType DEF Unscattered
<1>2. /\ Finish(t, t, OutEdges(t)) \/ Succeed(t)
      /\ UNCHANGED <<task_streams, open_streams>>
  <2>1. CASE Action[t.ref] = "loop_start" BY <2>1 DEF SkipPath, scopes
  <2>2. CASE Action[t.ref] = "loop_end" BY <2>2 DEF SkipPath, SkipLoopEnd, scopes
  <2>3. CASE Action[t.ref] \notin {"loop_start", "loop_end"}
    BY <1>1, <2>3 DEF SkipPath, scopes
  <2> QED BY <2>1, <2>2, <2>3
<1> QED BY <1>2, SkippedEnds, SucceedEnds

LEMMA TaskStepUnscattered ==
    ASSUME Unscattered, Typed, NEW t \in DOMAIN inflight, TaskStep(t)
    PROVE  \/ (Ends(t) \/ Stays) /\ UNCHANGED <<task_streams, open_streams>>
           \/ Action[t.ref] = "loop_end" /\ NextIteration(t)
<1>1. Action[t.ref] \notin {"scatter", "gather"} /\ AwaitFits(t, inflight[t].at)
  BY InflightType DEF Unscattered, Typed, ControlOK
<1>2. inflight[t].at \notin {"collection", "scattering", "items", "finalize", "finalize_empty"}
  BY <1>1 DEF AwaitFits
<1>3. FailTask(t) => Ends(t) BY FailEnds DEF FailTask
<1>4. CASE Begin(t)
  <2>1. \/ SkipPath(t)
        \/ AwaitNext(t, "run_if") /\ UNCHANGED <<task_streams, open_streams>>
        \/ Dispatch(t)
    BY <1>4 DEF Begin, scopes
  <2>2. AwaitNext(t, "run_if") => Stays BY DEF AwaitNext, GoesOn, Stays
  <2> QED BY <2>1, <2>2, SkipPathUnscattered, DispatchUnscattered
<1>5. CASE EvaluateRunIf(t)
  <2>1. \/ SkipPath(t)
        \/ Dispatch(t)
        \/ FailTask(t) /\ UNCHANGED <<task_streams, open_streams>>
    BY <1>5 DEF EvaluateRunIf, scopes
  <2> QED BY <1>3, <2>1, SkipPathUnscattered, DispatchUnscattered
<1>6. CASE ExecuteDone(t)
  <2>1. \/ Succeed(t)
        \/ Fail(t, FALSE, {})
        \/ Fail(t, TRUE, {})
    BY <1>6 DEF ExecuteDone, FailTask
  <2>2. UNCHANGED <<task_streams, open_streams>> BY <1>6 DEF ExecuteDone, scopes
  <2> QED BY <2>1, <2>2, SucceedEnds, FailEnds
<1>7. CASE LoopStartDone(t)
  <2>1. Succeed(t) \/ FailTask(t) BY <1>7 DEF LoopStartDone
  <2>2. UNCHANGED <<task_streams, open_streams>> BY <1>7 DEF LoopStartDone, scopes
  <2> QED BY <1>3, <2>1, <2>2, SucceedEnds
<1>8. CASE LoopEndDone(t)
  <2>1. \/ NextIteration(t)
        \/ (FailTask(t) \/ Succeed(t)) /\ UNCHANGED <<task_streams, open_streams>>
    BY <1>8 DEF LoopEndDone, scopes
  <2>2. Action[t.ref] = "loop_end" BY <1>1, <1>8 DEF LoopEndDone, CanEnd, At, AwaitFits
  <2> QED BY <1>3, <2>1, <2>2, SucceedEnds
<1>9. CASE Cancelled(t)
  <2>1. FinishSilently(t) \/ FailTask(t) BY <1>9 DEF Cancelled
  <2>2. main = "stopping" /\ UNCHANGED <<task_streams, open_streams>> BY <1>9 DEF Cancelled, scopes
  <2>3. FinishSilently(t) => Ends(t) BY <2>2 DEF FinishSilently, Ends, errors
  <2> QED BY <1>3, <2>1, <2>2, <2>3
<1>10. ~(\/ ScatterCollection(t) \/ ScatterItem(t) \/ ScatterDone(t)
         \/ GatherItem(t) \/ GatherFinalized(t) \/ EmptyGatherFinalized(t))
  BY <1>2 DEF ScatterCollection, ScatterItem, ScatterDone,
              GatherItem, GatherFinalized, EmptyGatherFinalized, CanEnd, At
<1> QED BY <1>4, <1>5, <1>6, <1>7, <1>8, <1>9, <1>10 DEF TaskStep

\* Tasks that have begun are tasks.
LEMMA BegunAreTasks ==
    ASSUME Typed, UInv
    PROVE  Begun \subseteq Task /\ DOMAIN indegrees \subseteq Task
BY DEF UInv, OneWorkflow, Typed, MarksOK

\* A coroutine that ends without marking anything.
LEMMA EndsSilently ==
    ASSUME Typed, UInv, NEW t \in DOMAIN inflight, Complete(t),
           UNCHANGED <<marks, task_streams, open_streams>>
    PROVE  UInv' /\ Active' = Active \ {t} /\ Over' = Over \cup {t}
<1>1. /\ DOMAIN inflight' = DOMAIN inflight \ {t} /\ completed' = completed \cup {t}
      /\ queue' = queue /\ indegrees' = indegrees /\ visited' = visited /\ skipped' = skipped
  BY DEF Complete, Without, marks
<1>2. Queued' = Queued /\ Marked' = Marked BY <1>1 DEF Queued, Marked
<1>3. t \notin Queued BY DEF UInv, ScheduledOnce
<1>4. Active' = Active \ {t} /\ Begun' = Begun BY <1>1, <1>2, <1>3 DEF Active, Begun
<1>5. Over' = Over \cup {t}
  <2>1. t \in Active /\ InEdges(t) \subseteq Marked BY DEF Active, UInv, MarkedInOrder
  <2> QED BY <1>1, <1>2, <1>4, <2>1 DEF Over
<1>6. OneWorkflow' BY <1>1, <1>4 DEF UInv, OneWorkflow
<1>7. MarkedInOrder' BY <1>2, <1>4, <1>5 DEF UInv, MarkedInOrder
<1>8. IndegreesMatchEdges' BY <1>1, <1>4 DEF UInv, IndegreesMatchEdges
<1>9. ScheduledOnce' BY <1>1, <1>2 DEF UInv, ScheduledOnce
<1>10. NoStreams' BY DEF UInv, NoStreams
<1> QED BY <1>4, <1>5, <1>6, <1>7, <1>8, <1>9, <1>10 DEF UInv

\* What _queue_tasks finds and does when t ends: its edges had no marker, all of
\* them get one, and every indegree still counts the pending edges.
LEMMA QueueTasksCounts ==
    ASSUME Typed, UInv, NEW t \in DOMAIN inflight, NEW unreachable \in SUBSET OutEdges(t),
           QueueTasks(t, unreachable)
    PROVE  /\ OutEdges(t) \cap Marked = {}
           /\ Marked' = Marked \cup OutEdges(t)
           /\ DOMAIN Decremented(t) \subseteq DOMAIN indegrees
           /\ DOMAIN indegrees' = DOMAIN indegrees
           /\ \A n \in DOMAIN indegrees : indegrees'[n] = Cardinality(InEdges(n) \ Marked')
           /\ \A n \in DOMAIN Decremented(t) :
                  indegrees'[n] = Decremented(t)[n] /\ InEdges(n) \cap OutEdges(t) # {}
<1> DEFINE next == Decremented(t)
<1>t. t \in Task /\ t \in Active /\ t \in DOMAIN indegrees
  BY InflightType DEF Active, UInv, OneWorkflow, Begun
<1>1. \A e \in OutEdges(t) : T(e.src, e.sid) = t
  <2>1. \A e \in OutEdges(t) : e.src = t.ref /\ e.sid = t.sid BY DEF OutEdges
  <2>2. T(t.ref, t.sid) = t BY <1>t DEF T, Task
  <2> QED BY <2>1, <2>2
<1>2. OutEdges(t) \cap Marked = {}
  BY <1>t, <1>1 DEF UInv, MarkedInOrder, Over
<1>3. Marked' = Marked \cup OutEdges(t)
  <2>1. /\ visited' = (visited \cup OutEdges(t)) \ unreachable
        /\ skipped' = (skipped \ OutEdges(t)) \cup unreachable
    BY DEF QueueTasks
  <2>2. visited \cap OutEdges(t) = {} BY <1>2 DEF Marked
  <2> QED BY <2>1, <2>2 DEF Marked
<1>4. DOMAIN next = {T(e.dst, e.sid) : e \in OutEdges(t)} BY DEF Decremented
<1>5. ASSUME NEW e \in OutEdges(t)
      PROVE  T(e.dst, e.sid) \in DOMAIN indegrees
  <2>1. PICK w \in Workflows : DOMAIN indegrees = {T(r, Root) : r \in w}
    BY DEF UInv, OneWorkflow
  <2>2. PICK a \in Adj(t.ref) : e = [src |-> t.ref, dst |-> a[1], type |-> a[2], sid |-> t.sid]
    BY DEF OutEdges
  <2>3. t.sid = Root /\ t.ref \in w BY <1>t, <2>1 DEF T
  <2>4. a[1] \in Refs /\ a[2] \in EdgeTypes /\ <<t.ref, a[2]>> \in DependsOn[a[1]]
    BY DEF Adj
  <2>5. a[1] \in w BY <1>t, <2>3, <2>4, GraphType, TaskType
  <2> QED BY <2>1, <2>2, <2>3, <2>5
<1>6. DOMAIN next \subseteq DOMAIN indegrees BY <1>4, <1>5
<1>7. /\ DOMAIN indegrees' = DOMAIN indegrees
      /\ \A n \in DOMAIN indegrees :
             indegrees'[n] = IF n \in DOMAIN next THEN next[n] ELSE indegrees[n]
  <2>1. indegrees' = [n \in DOMAIN indegrees \cup DOMAIN next |->
                         IF n \in DOMAIN next THEN next[n] ELSE indegrees[n]]
    BY DEF QueueTasks
  <2> HIDE DEF next
  <2> QED BY <1>6, <2>1
<1>8. ASSUME NEW n \in DOMAIN indegrees
      PROVE  /\ indegrees'[n] = Cardinality(InEdges(n) \ Marked')
             /\ n \in DOMAIN next => InEdges(n) \cap OutEdges(t) # {}
  <2>0. n \in Task BY BegunAreTasks
  <2>1. indegrees[n] = Cardinality(InEdges(n) \ Marked)
    BY DEF UInv, IndegreesMatchEdges, Marked
  <2>2. IsFiniteSet(InEdges(n) \ Marked) BY <2>0, InEdgesAre, FS_Subset
  <2>3. InEdges(n) \ Marked' = (InEdges(n) \ Marked) \ OutEdges(t) BY <1>3
  <2>4. (InEdges(n) \ Marked) \cap OutEdges(t) = InEdges(n) \cap OutEdges(t) BY <1>2
  <2>5. Cardinality(InEdges(n) \ Marked')
            = Cardinality(InEdges(n) \ Marked) - Cardinality(InEdges(n) \cap OutEdges(t))
    BY <2>2, <2>3, <2>4, FS_Difference
  <2>6. CASE n \in DOMAIN next
    <3>1. PICK e \in OutEdges(t) : n = T(e.dst, e.sid) BY <1>4, <2>6
    <3>2. e.sid = t.sid /\ n.sid = t.sid /\ e.dst = n.ref BY <3>1 DEF OutEdges, T
    <3>3. InEdges(n) \cap OutEdges(t) = {x \in OutEdges(t) : x.dst = n.ref}
      BY <1>t, <2>0, <3>2, InEdgesAre
    <3>4. next[n] = indegrees[n] - Cardinality({x \in OutEdges(t) : x.dst = n.ref})
      BY <1>4, <2>6 DEF Decremented
    <3>5. e \in InEdges(n) \cap OutEdges(t) BY <3>2, <3>3
    <3> HIDE DEF next
    <3> QED BY <1>7, <2>1, <2>5, <2>6, <3>3, <3>4, <3>5
  <2>7. CASE n \notin DOMAIN next
    <3>1. InEdges(n) \cap OutEdges(t) = {}
      <4> SUFFICES ASSUME NEW e \in InEdges(n), e \in OutEdges(t) PROVE FALSE OBVIOUS
      <4>1. e.dst = n.ref /\ e.sid = n.sid BY <2>0, InEdgesAre
      <4>2. T(e.dst, e.sid) = n BY <2>0, <4>1 DEF T, Task
      <4> QED BY <1>4, <2>7, <4>2
    <3>2. Cardinality(InEdges(n) \cap OutEdges(t)) = 0 BY <3>1, FS_EmptySet
    <3>3. Cardinality(InEdges(n) \ Marked) \in Nat BY <2>2, FS_CardinalityType
    <3> HIDE DEF next
    <3> QED BY <1>7, <2>1, <2>5, <2>7, <3>2, <3>3
  <2> QED BY <2>6, <2>7
<1> HIDE DEF next
<1>9. \A n \in DOMAIN next : indegrees'[n] = next[n] /\ InEdges(n) \cap OutEdges(t) # {}
  BY <1>6, <1>7, <1>8
<1> QED BY <1>2, <1>3, <1>6, <1>7, <1>8, <1>9 DEF next

\* A coroutine that ends and queues its successors.
LEMMA EndsQueueing ==
    ASSUME Typed, UInv, NEW t \in DOMAIN inflight, Complete(t),
           NEW unreachable \in SUBSET OutEdges(t), QueueTasks(t, unreachable),
           UNCHANGED <<task_streams, open_streams>>
    PROVE  UInv' /\ Over \cup {t} \subseteq Over'
<1> DEFINE next == Decremented(t)
<1>t. t \in Task /\ t \in Active /\ InEdges(t) \subseteq Marked
  BY InflightType DEF Active, UInv, MarkedInOrder
<1>1. DOMAIN inflight' = DOMAIN inflight \ {t} /\ completed' = completed \cup {t}
  BY DEF Complete, Without
<1>2. /\ OutEdges(t) \cap Marked = {} /\ Marked' = Marked \cup OutEdges(t)
      /\ DOMAIN next \subseteq DOMAIN indegrees /\ DOMAIN indegrees' = DOMAIN indegrees
      /\ \A n \in DOMAIN indegrees : indegrees'[n] = Cardinality(InEdges(n) \ Marked')
      /\ \A n \in DOMAIN next : indegrees'[n] = next[n] /\ InEdges(n) \cap OutEdges(t) # {}
  BY QueueTasksCounts
<1>3. PICK q \in InAdjOrder(Ready(next)) : queue' = queue \o q BY DEF QueueTasks
<1>4. Ready(next) \in SUBSET Task /\ IsFiniteSet(Ready(next)) /\ Ready(next) \subseteq DOMAIN next
  <2>1. DOMAIN next \in SUBSET Task /\ IsFiniteSet(DOMAIN next) BY <1>t, DecrementedType DEF Typed
  <2> QED BY <2>1, FS_Subset DEF Ready
<1>5. \A n \in Ready(next) : next[n] = 0 BY DEF Ready
<1> HIDE DEF next
<1>6. ASSUME NEW n \in Ready(next)
      PROVE  n \in DOMAIN indegrees /\ n \notin Active \cup Over /\ InEdges(n) \subseteq Marked'
  <2>1. n \in DOMAIN indegrees /\ n \in Task /\ n \in DOMAIN next BY <1>2, <1>4
  <2>2. Cardinality(InEdges(n) \ Marked') = 0 BY <1>2, <1>5, <2>1
  <2>3. IsFiniteSet(InEdges(n) \ Marked') BY <2>1, InEdgesAre, FS_Subset
  <2>4. InEdges(n) \ Marked' = {} BY <2>2, <2>3, FS_EmptySet
  <2>5. n \notin Active \cup Over BY <1>2, <2>1 DEF UInv, MarkedInOrder, Over
  <2> QED BY <2>1, <2>4, <2>5
<1>7. /\ q \in Seq(Task)
      /\ \A i \in DOMAIN q : q[i] \in Ready(next)
      /\ \A i, j \in DOMAIN q : q[i] = q[j] => i = j
  BY <1>4, InAdjOrderType, InAdjOrderOnce
<1>8. /\ queue \in Seq(Task)
      /\ \A i, j \in DOMAIN queue : queue[i] = queue[j] => i = j
      /\ Queued \cap DOMAIN inflight = {}
  BY DEF Typed, MarksOK, UInv, ScheduledOnce
<1>9. \A i \in DOMAIN queue, j \in DOMAIN q : queue[i] # q[j]
  BY <1>6, <1>7 DEF Active, Queued
<1>10. /\ Queued' \subseteq Queued \cup Ready(next)
       /\ \A i, j \in DOMAIN queue' : queue'[i] = queue'[j] => i = j
  <2>1. /\ \A i \in DOMAIN (queue \o q) :
               \/ \E j \in DOMAIN queue : (queue \o q)[i] = queue[j]
               \/ \E j \in DOMAIN q : (queue \o q)[i] = q[j]
        /\ \A i, j \in DOMAIN (queue \o q) : (queue \o q)[i] = (queue \o q)[j] => i = j
    BY <1>7, <1>8, <1>9, QueuedAfter
  <2> QED BY <1>3, <1>7, <2>1 DEF Queued
<1>11. /\ Active' \subseteq (Active \ {t}) \cup Ready(next)
       /\ Begun' \subseteq Begun \cup Ready(next)
  <2>1. t \notin Queued BY <1>8
  <2>2. t \notin Ready(next) BY <1>t, <1>6
  <2> QED BY <1>1, <1>t, <1>10, <2>1, <2>2 DEF Active, Begun
<1>12. OneWorkflow' BY <1>2, <1>6, <1>11 DEF UInv, OneWorkflow
<1>o. Over \cup {t} \subseteq Over'
  <2>1. t \notin Ready(next) BY <1>t, <1>6
  <2> QED BY <1>1, <1>2, <1>6, <1>11, <1>t, <2>1 DEF Over
<1>13. MarkedInOrder'
  <2>1. \A e \in OutEdges(t) : T(e.src, e.sid) = t
    <3>1. \A e \in OutEdges(t) : e.src = t.ref /\ e.sid = t.sid BY DEF OutEdges
    <3>2. T(t.ref, t.sid) = t BY <1>t DEF T, Task
    <3> QED BY <3>1, <3>2
  <2>2. \A e \in Marked' : T(e.src, e.sid) \in Over' /\ e \in OutEdges(T(e.src, e.sid))
    BY <1>2, <1>o, <2>1 DEF UInv, MarkedInOrder
  <2>3. \A n \in Active' : InEdges(n) \subseteq Marked'
    BY <1>2, <1>6, <1>11 DEF UInv, MarkedInOrder
  <2> QED BY <2>2, <2>3 DEF MarkedInOrder
<1>14. IndegreesMatchEdges'
  <2>1. \A n \in Active' : InEdges(n) \subseteq Marked'
    BY <1>13 DEF MarkedInOrder
  <2> QED BY <1>2, <2>1 DEF IndegreesMatchEdges, Marked
<1>15. ScheduledOnce'
  BY <1>1, <1>6, <1>8, <1>10 DEF ScheduledOnce, Active
<1>16. NoStreams' BY DEF UInv, NoStreams
<1> QED BY <1>o, <1>12, <1>13, <1>14, <1>15, <1>16 DEF UInv

\* Steps after which the same tasks are queued or running.
LEMMA SameActive ==
    ASSUME UInv, Active' = Active, ScheduledOnce',
           UNCHANGED <<completed, indegrees, visited, skipped, task_streams, open_streams>>
    PROVE  UInv' /\ Over' = Over
<1>1. Begun' = Begun /\ Marked' = Marked /\ Over' = Over BY DEF Begun, Marked, Over
<1>2. OneWorkflow' BY <1>1 DEF UInv, OneWorkflow
<1>3. MarkedInOrder' BY <1>1 DEF UInv, MarkedInOrder
<1>4. IndegreesMatchEdges' BY DEF UInv, IndegreesMatchEdges
<1>5. NoStreams' BY DEF UInv, NoStreams
<1> QED BY <1>1, <1>2, <1>3, <1>4, <1>5 DEF UInv

LEMMA GoesOnKeeps ==
    ASSUME UInv, GoesOn, UNCHANGED <<task_streams, open_streams>>
    PROVE  UInv' /\ Active' = Active /\ Over' = Over
<1>1. Queued' = Queued /\ Active' = Active BY DEF GoesOn, marks, Queued, Active
<1>2. ScheduledOnce' BY <1>1 DEF UInv, ScheduledOnce, GoesOn, marks
<1> QED BY <1>1, <1>2, SameActive DEF GoesOn, marks

\* Spawning moves tasks from the queue to the coroutines.
LEMMA SpawnMoves ==
    ASSUME IInv, ScheduledOnce, Spawn
    PROVE  /\ ScheduledOnce' /\ Active' = Active /\ DOMAIN inflight \subseteq DOMAIN inflight'
           /\ \A t \in DOMAIN inflight' :
                  IF t \in DOMAIN inflight THEN inflight'[t] = inflight[t]
                  ELSE inflight'[t] = Awaiting("new")
<1> DEFINE n == Smaller(Len(queue), Smaller(Room, SpawnYieldEvery))
           batch == {queue[i] : i \in 1..n}
<1>0. Typed /\ IsFiniteSet(DOMAIN inflight) BY DEF IInv
<1>1. /\ DOMAIN inflight' = DOMAIN inflight \cup batch
      /\ queue' = SubSeq(queue, n + 1, Len(queue)) /\ n > 0
      /\ \A t \in DOMAIN inflight' :
             inflight'[t] = IF t \in batch THEN Awaiting("new") ELSE inflight[t]
  BY DEF Spawn
<1>2. queue \in Seq(Task) /\ Len(queue) \in Nat /\ DOMAIN queue = 1..Len(queue)
  BY <1>0 DEF Typed, MarksOK
<1>3. n \in Nat /\ n <= Len(queue)
  <2>1. Cardinality(DOMAIN inflight) \in Nat BY <1>0, FS_CardinalityType
  <2>2. Room \in Int /\ SpawnYieldEvery \in Nat BY <2>1, SchedulerConstants DEF Room
  <2> QED BY <1>1, <1>2, <2>2 DEF Smaller
<1> HIDE DEF n
<1>4. /\ DOMAIN queue' = 1..(Len(queue) - n)
      /\ \A i \in 1..(Len(queue) - n) : queue'[i] = queue[n + i]
  BY <1>1, <1>2, <1>3
<1>5. \A i, j \in 1..Len(queue) : queue[i] = queue[j] => i = j
  BY <1>2 DEF ScheduledOnce
<1>6. \A i \in DOMAIN queue' : n + i \in 1..Len(queue) /\ n + i \notin 1..n
  BY <1>2, <1>3, <1>4
<1>7. 1..n \subseteq 1..Len(queue) BY <1>2, <1>3
<1>8. Queued' \cap batch = {} /\ Queued' \cup batch = Queued
  <2>1. ASSUME NEW i \in 1..Len(queue) PROVE queue[i] \in Queued' \cup batch
    <3>1. CASE i <= n BY <1>3, <3>1
    <3>2. CASE i > n
      <4>1. i - n \in DOMAIN queue' /\ queue'[i - n] = queue[i] BY <1>2, <1>3, <1>4, <3>2
      <4> QED BY <4>1 DEF Queued
    <3> QED BY <1>3, <3>1, <3>2
  <2>2. ASSUME NEW i \in DOMAIN queue' PROVE queue'[i] \in Queued /\ queue'[i] \notin batch
    BY <1>2, <1>4, <1>5, <1>6, <1>7 DEF Queued
  <2>3. batch \subseteq Queued BY <1>2, <1>7 DEF Queued
  <2> QED BY <1>2, <2>1, <2>2, <2>3 DEF Queued
<1> HIDE DEF batch
<1>9. Active' = Active BY <1>1, <1>8 DEF Active
<1>10. ScheduledOnce'
  <2>1. \A i, j \in DOMAIN queue' : queue'[i] = queue'[j] => i = j
    BY <1>2, <1>3, <1>4, <1>5, <1>6
  <2>2. Queued' \cap DOMAIN inflight' = {} BY <1>1, <1>8 DEF ScheduledOnce
  <2> QED BY <2>1, <2>2 DEF ScheduledOnce
<1>11. batch \cap DOMAIN inflight = {} BY <1>8 DEF ScheduledOnce
<1> QED BY <1>1, <1>9, <1>10, <1>11

LEMMA SpawnKeeps ==
    ASSUME IInv, UInv, Spawn
    PROVE  UInv' /\ Active' = Active /\ Over' = Over
<1>1. ScheduledOnce' /\ Active' = Active BY SpawnMoves DEF UInv
<1>2. UNCHANGED <<completed, indegrees, visited, skipped, task_streams, open_streams>>
  BY DEF Spawn, scopes
<1> QED BY <1>1, <1>2, SameActive

-----------------------------------------------------------------------------
(* A new iteration.                                                        *)

\* The tasks counted are in the root stream.
LEMMA InRoot ==
    ASSUME Typed, UInv
    PROVE  \E w \in Workflows :
               /\ w \subseteq Refs
               /\ DOMAIN indegrees = {T(r, Root) : r \in w}
               /\ \A t \in DOMAIN indegrees : t.sid = Root /\ t.ref \in w /\ t = T(t.ref, Root)
               /\ \A e \in Marked : e.sid = Root /\ e.src \in w
<1>1. PICK w \in Workflows : DOMAIN indegrees = {T(r, Root) : r \in w} BY DEF UInv, OneWorkflow
<1>2. \A t \in DOMAIN indegrees : t.sid = Root /\ t.ref \in w /\ t = T(t.ref, Root)
  BY <1>1 DEF T
<1>3. ASSUME NEW e \in Marked PROVE e.sid = Root /\ e.src \in w
  <2>1. T(e.src, e.sid) \in DOMAIN indegrees
    BY DEF UInv, MarkedInOrder, OneWorkflow, Over, Begun
  <2>2. T(e.src, e.sid).sid = e.sid /\ T(e.src, e.sid).ref = e.src BY DEF T
  <2> QED BY <1>2, <2>1, <2>2
<1> QED BY <1>1, <1>2, <1>3, GraphType

\* What a task depends on is over once the edges into it are marked.
LEMMA DepsOver ==
    ASSUME UInv, NEW r \in Refs, InEdges(T(r, Root)) \subseteq Marked, NEW d \in DepRefs(r)
    PROVE  T(d, Root) \in Over
<1>1. PICK dep \in DependsOn[r] : dep[1] = d BY DEF DepRefs
<1> DEFINE e == [src |-> dep[1], dst |-> r, type |-> dep[2], sid |-> Root]
<1>2. e \in InEdges(T(r, Root)) BY DEF InEdges, T
<1>3. T(e.src, e.sid) \in Over BY <1>2 DEF UInv, MarkedInOrder
<1> QED BY <1>1, <1>3

\* When the loop_end of a region runs, everything else in the region is over:
\* there is a path from every member to it.
LEMMA RegionOver ==
    ASSUME Unscattered, Typed, UInv, NEW t \in Active, t.ref \in Refs, Action[t.ref] = "loop_end"
    PROVE  \A r \in LoopMembers[t.ref] \ {t.ref} : T(r, Root) \in Over
<1> DEFINE end == t.ref
           members == LoopMembers[end]
           some == {r \in members : r = end \/ T(r, Root) \in Over}
<1>1. end \in LoopEnds BY DEF LoopEnds
<1>2. members \subseteq Refs /\ end \in members BY <1>1, LoopRegion
<1>3. t = T(end, Root)
  <2>1. t \in DOMAIN indegrees BY DEF UInv, OneWorkflow, Begun
  <2> QED BY <2>1, InRoot
<1>4. ASSUME NEW q \in some PROVE InEdges(T(q, Root)) \subseteq Marked
  <2>1. CASE q = end BY <1>3, <2>1 DEF UInv, MarkedInOrder
  <2>2. CASE T(q, Root) \in Over BY <2>2 DEF Over
  <2> QED BY <2>1, <2>2
<1>5. ASSUME NEW q \in some, NEW r \in members, <<r, "success">> \in DependsOn[q]
      PROVE  r \in some
  <2>1. r \in DepRefs(q)
    <3>1. <<r, "success">>[1] = r OBVIOUS
    <3> QED BY <1>5, <3>1 DEF DepRefs
  <2> QED BY <1>2, <1>4, <2>1, DepsOver
<1>6. some \in {m \in SUBSET members : end \in m} BY <1>2
<1> HIDE DEF some, members
<1>7. some = members BY <1>1, <1>5, <1>6, SynchronizedDSL DEF members
<1> QED BY <1>7 DEF some, members

\* What the step from one iteration to the next changes.
LEMMA IterationIs ==
    ASSUME Unscattered, Typed, UInv, NEW t \in DOMAIN inflight, Action[t.ref] = "loop_end",
           NextIteration(t)
    PROVE  LET members == LoopMembers[t.ref]
               start == T(ClosedScope(t.ref), Root)
           IN  /\ DOMAIN inflight' = DOMAIN inflight \ {t}
               /\ queue' = Append(queue, start)
               /\ Marked' = {e \in Marked : ~(e.src \in members /\ e.dst \in members)}
               /\ completed' = {k \in completed : k.ref \notin members} \cup {t}
               /\ DOMAIN indegrees' = DOMAIN indegrees
               /\ \A n \in DOMAIN indegrees :
                      indegrees'[n] = IF n.ref \in members
                                      THEN Cardinality(InternalDeps(n.ref, members))
                                      ELSE indegrees[n]
               /\ NoStreams'
<1> DEFINE members == LoopMembers[t.ref]
           gone == LoopStreams(members, t.sid)
           here == {T(r, t.sid) : r \in members}
           start == T(ClosedScope(t.ref), Root)
<1>0. /\ t \in DOMAIN indegrees /\ t.ref \in Refs /\ t.ref \in LoopEnds
  BY InflightType DEF UInv, OneWorkflow, Begun, Active, LoopEnds
<1>1. PICK w \in Workflows :
          /\ DOMAIN indegrees = {T(r, Root) : r \in w}
          /\ \A k \in DOMAIN indegrees : k.sid = Root /\ k.ref \in w /\ k = T(k.ref, Root)
          /\ \A e \in Marked : e.sid = Root /\ e.src \in w
  BY InRoot
<1>2. t.sid = Root /\ t.ref \in w BY <1>0, <1>1
<1>3. gone = {} BY DEF LoopStreams, UInv, NoStreams
<1>4. members \subseteq w BY <1>0, <1>2, LoopRegionIn
<1>5. Reset(t, members, gone) BY DEF NextIteration
<1>6. /\ DOMAIN inflight' = DOMAIN inflight \ {t} /\ queue' = Append(queue, start)
  BY <1>2 DEF NextIteration, Without, LoopKey
<1> HIDE DEF members, gone
<1>7. /\ visited' = {e \in visited : ~ForgottenEdge(e, members, t.sid, gone)}
      /\ skipped' = {e \in skipped : ~ForgottenEdge(e, members, t.sid, gone)}
      /\ completed' = {k \in completed : ~ForgottenTask(k, members, t.sid, gone)} \cup {t}
      /\ DOMAIN task_streams' \subseteq DOMAIN task_streams
      /\ DOMAIN open_streams' \subseteq DOMAIN open_streams
      /\ indegrees' = [n \in {x \in DOMAIN indegrees : x.sid \notin gone} \cup here |->
                          IF n \in here THEN Cardinality(InternalDeps(n.ref, members))
                          ELSE indegrees[n]]
  BY <1>5 DEF Reset
<1>8. Marked' = {e \in Marked : ~(e.src \in members /\ e.dst \in members)}
  <2>1. \A e \in Marked : ForgottenEdge(e, members, t.sid, gone) <=> e.src \in members /\ e.dst \in members
    BY <1>1, <1>2, <1>3 DEF ForgottenEdge
  <2> QED BY <1>7, <2>1 DEF Marked
<1>9. completed' = {k \in completed : k.ref \notin members} \cup {t}
  <2>1. \A k \in completed : k.sid = Root BY <1>1 DEF UInv, OneWorkflow, Begun
  <2>2. \A k \in completed : ForgottenTask(k, members, t.sid, gone) <=> k.ref \in members
    BY <1>2, <1>3, <2>1 DEF ForgottenTask
  <2> QED BY <1>7, <2>2
<1>10. ASSUME NEW n \in DOMAIN indegrees PROVE n \in here <=> n.ref \in members
  <2>1. n = T(n.ref, Root) BY <1>1
  <2>2. \A r : T(r, Root).ref = r BY DEF T
  <2> QED BY <1>2, <2>1, <2>2
<1>11. {x \in DOMAIN indegrees : x.sid \notin gone} \cup here = DOMAIN indegrees
  BY <1>1, <1>2, <1>3, <1>4
<1>12. NoStreams' BY <1>7 DEF UInv, NoStreams
<1> HIDE DEF here
<1>13. /\ DOMAIN indegrees' = DOMAIN indegrees
       /\ \A n \in DOMAIN indegrees :
              indegrees'[n] = IF n.ref \in members THEN Cardinality(InternalDeps(n.ref, members))
                              ELSE indegrees[n]
  BY <1>7, <1>10, <1>11
<1> QED BY <1>6, <1>8, <1>9, <1>12, <1>13 DEF members

\* A loop_end that goes on to the next iteration leaves the region as it was
\* before the first one, with its loop_start queued.
LEMMA IterationKeeps ==
    ASSUME Unscattered, Typed, UInv, NEW t \in DOMAIN inflight, Action[t.ref] = "loop_end",
           NextIteration(t)
    PROVE  /\ UInv'
           /\ \A n \in Over' : n.ref \notin LoopMembers[t.ref] /\ n \in Over
           /\ \A n \in (Active \cup Over) \ {t} : n.ref \notin LoopMembers[t.ref] => n \in Active' \cup Over'
           /\ T(ClosedScope(t.ref), Root) \in Active'
           /\ \A n \in DOMAIN indegrees : n.ref \in LoopMembers[t.ref] /\ InEdges(n) \subseteq Marked' =>
                  n = T(ClosedScope(t.ref), Root)
<1> DEFINE end == t.ref
           members == LoopMembers[end]
           first == ClosedScope(end)
           start == T(first, Root)
<1>0. /\ t \in Active /\ t \in DOMAIN indegrees /\ end \in Refs /\ end \in LoopEnds
  BY InflightType DEF UInv, OneWorkflow, Begun, Active, LoopEnds
<1>1. PICK w \in Workflows :
          /\ w \subseteq Refs
          /\ DOMAIN indegrees = {T(r, Root) : r \in w}
          /\ \A k \in DOMAIN indegrees : k.sid = Root /\ k.ref \in w /\ k = T(k.ref, Root)
          /\ \A e \in Marked : e.sid = Root /\ e.src \in w
  BY InRoot
<1>2. end \in w /\ t = T(end, Root) BY <1>0, <1>1
<1>3. /\ end \in members /\ first \in members /\ first # end
      /\ \A r \in members \ {first} : DependsOn[r] # {} /\ DepRefs(r) \subseteq members
      /\ \A r \in members \ {end} : \A s \in Refs : r \in DepRefs(s) => s \in members
      /\ members \subseteq w /\ DepRefs(first) \cap members = {}
  BY <1>0, <1>2, LoopRegion, LoopRegionIn
<1>4. \A r \in members \ {end} : T(r, Root) \in Over BY <1>0, RegionOver
<1>5. /\ DOMAIN inflight' = DOMAIN inflight \ {t}
      /\ queue' = Append(queue, start)
      /\ Marked' = {e \in Marked : ~(e.src \in members /\ e.dst \in members)}
      /\ completed' = {k \in completed : k.ref \notin members} \cup {t}
      /\ DOMAIN indegrees' = DOMAIN indegrees
      /\ \A n \in DOMAIN indegrees :
             indegrees'[n] = IF n.ref \in members THEN Cardinality(InternalDeps(n.ref, members))
                             ELSE indegrees[n]
      /\ NoStreams'
  BY IterationIs
<1> HIDE DEF members, first
<1>6. /\ start \in Task /\ start \in DOMAIN indegrees /\ start \in Over /\ start \notin Active
      /\ start.ref = first /\ start.sid = Root
  <2>1. start \in Over BY <1>3, <1>4
  <2>2. start \in DOMAIN indegrees BY <1>1, <1>3
  <2> QED BY <2>1, <2>2, BegunAreTasks DEF Over, T
<1> HIDE DEF start
\* No member is queued or running but the loop_end itself.
<1>7. \A n \in Active \ {t} : n \in DOMAIN indegrees /\ n.ref \notin members
  <2> SUFFICES ASSUME NEW n \in Active, n # t, n.ref \in members PROVE FALSE
    BY DEF UInv, OneWorkflow, Begun
  <2>1. n \in DOMAIN indegrees BY DEF UInv, OneWorkflow, Begun
  <2>2. n = T(n.ref, Root) BY <1>1, <2>1
  <2>3. n.ref # end BY <1>2, <2>2
  <2> QED BY <1>4, <2>2, <2>3 DEF Over
<1>8. /\ queue \in Seq(Task)
      /\ \A i, j \in DOMAIN queue : queue[i] = queue[j] => i = j
      /\ Queued \cap DOMAIN inflight = {}
  BY DEF Typed, MarksOK, UInv, ScheduledOnce
<1>9. /\ DOMAIN queue' = 1..(Len(queue) + 1) /\ DOMAIN queue = 1..Len(queue) /\ Len(queue) \in Nat
      /\ \A i \in DOMAIN queue : queue'[i] = queue[i]
      /\ queue'[Len(queue) + 1] = start
  BY <1>5, <1>6, <1>8
<1>10. Queued' = Queued \cup {start}
  <2>1. \A i \in DOMAIN queue' : i \in DOMAIN queue \/ i = Len(queue) + 1 BY <1>9
  <2>2. \A i \in DOMAIN queue : i \in DOMAIN queue' BY <1>9
  <2>3. Len(queue) + 1 \in DOMAIN queue' BY <1>9
  <2> QED BY <1>9, <2>1, <2>2, <2>3 DEF Queued
<1>11. Active' = (Active \ {t}) \cup {start}
  <2>1. t \notin Queued BY <1>8
  <2> QED BY <1>5, <1>10, <2>1 DEF Active
<1>12. ScheduledOnce'
  <2>1. start \notin Queued /\ start \notin DOMAIN inflight BY <1>6 DEF Active
  <2>2. ASSUME NEW i \in DOMAIN queue', NEW j \in DOMAIN queue', queue'[i] = queue'[j]
        PROVE  i = j
    <3>1. \A k \in DOMAIN queue : queue[k] # start BY <2>1 DEF Queued
    <3>2. \A k \in DOMAIN queue' : k \in DOMAIN queue \/ k = Len(queue) + 1 BY <1>9
    <3> QED BY <1>8, <1>9, <2>2, <3>1, <3>2
  <2>3. Queued' \cap DOMAIN inflight' = {} BY <1>5, <1>8, <1>10, <2>1
  <2> QED BY <2>2, <2>3 DEF ScheduledOnce
\* Edges into a task, by where it is.
<1>13. ASSUME NEW n \in DOMAIN indegrees, n.ref \notin members
       PROVE  InEdges(n) \ Marked' = InEdges(n) \ Marked
  <2>1. n \in Task BY BegunAreTasks
  <2>2. \A e \in InEdges(n) : e.dst \notin members BY <1>13, <2>1, InEdgesAre
  <2> QED BY <1>5, <2>2
<1>14. ASSUME NEW n \in DOMAIN indegrees, n.ref \in members, n.ref # first
       PROVE  InEdges(n) \cap Marked' = {} /\ InEdges(n) # {} /\ InternalDeps(n.ref, members) = DependsOn[n.ref]
  <2>1. DependsOn[n.ref] # {} /\ \A d \in DependsOn[n.ref] : d[1] \in members
    BY <1>3, <1>14 DEF DepRefs
  <2>2. \A e \in InEdges(n) : e.src \in members /\ e.dst \in members
    BY <1>14, <2>1 DEF InEdges
  <2>3. InEdges(n) # {} BY <2>1 DEF InEdges
  <2> QED BY <1>5, <2>1, <2>2, <2>3 DEF InternalDeps
<1>15. InEdges(start) \subseteq Marked' /\ InternalDeps(first, members) = {}
  <2>1. InEdges(start) \subseteq Marked BY <1>6 DEF Over
  <2>2. \A d \in DependsOn[first] : d[1] \notin members BY <1>3 DEF DepRefs
  <2>3. \A e \in InEdges(start) : e.src \notin members BY <1>6, <2>2 DEF InEdges
  <2> QED BY <1>5, <2>1, <2>2, <2>3 DEF InternalDeps
<1>16. ASSUME NEW n \in DOMAIN indegrees, n.ref = first PROVE n = start
  BY <1>1, <1>16 DEF start
<1>17. OneWorkflow'
  <2>1. Begun' \subseteq DOMAIN indegrees
    BY <1>0, <1>5, <1>6, <1>11 DEF UInv, OneWorkflow, Begun
  <2> QED BY <1>1, <1>5, <2>1 DEF OneWorkflow
<1>18. ASSUME NEW n \in Over, n.ref \notin members PROVE n \in Over'
  <2>1. n \in DOMAIN indegrees BY DEF Over, UInv, OneWorkflow, Begun
  <2>2. n # start BY <1>3, <1>6, <1>18
  <2>3. n \in completed' /\ n \notin Active' BY <1>5, <1>11, <1>18, <2>2 DEF Over
  <2> QED BY <1>13, <1>18, <2>1, <2>3 DEF Over
<1>19. MarkedInOrder'
  <2>1. ASSUME NEW e \in Marked' PROVE T(e.src, e.sid) \in Over' /\ e \in OutEdges(T(e.src, e.sid))
    <3>1. e \in Marked /\ ~(e.src \in members /\ e.dst \in members) BY <1>5
    <3>2. T(e.src, e.sid) \in Over /\ T(e.src, e.sid).ref = e.src BY <3>1 DEF UInv, MarkedInOrder, T
    <3>3. e.src \notin members
      <4> SUFFICES ASSUME e.src \in members PROVE FALSE OBVIOUS
      <4>1. e.sid = Root BY <1>1, <3>1
      <4>2. e.src # end
        <5>1. t \notin Over BY <1>0 DEF Over
        <5> QED BY <1>2, <3>2, <4>1, <5>1
      <4>3. PICK a \in Adj(e.src) : e = [src |-> e.src, dst |-> a[1], type |-> a[2], sid |-> e.sid]
        BY <3>1 DEF UInv, MarkedInOrder, OutEdges, T
      <4>4. e.dst \in Refs /\ <<e.src, a[2]>> \in DependsOn[e.dst] BY <4>3 DEF Adj
      <4>5. e.src \in DepRefs(e.dst)
        <5>1. <<e.src, a[2]>>[1] = e.src OBVIOUS
        <5> QED BY <4>4, <5>1 DEF DepRefs
      <4> QED BY <1>3, <3>1, <4>2, <4>4, <4>5
    <3> QED BY <1>18, <3>1, <3>2, <3>3 DEF UInv, MarkedInOrder
  <2>2. ASSUME NEW n \in Active' PROVE InEdges(n) \subseteq Marked'
    <3>1. CASE n = start BY <1>15, <3>1
    <3>2. CASE n # start
      <4>1. n \in Active \ {t} BY <1>11, <3>2
      <4>2. InEdges(n) \subseteq Marked BY <4>1 DEF UInv, MarkedInOrder
      <4> QED BY <1>7, <1>13, <4>1, <4>2
    <3> QED BY <3>1, <3>2
  <2> QED BY <2>1, <2>2 DEF MarkedInOrder
<1>20. IndegreesMatchEdges'
  <2>1. ASSUME NEW n \in DOMAIN indegrees PROVE indegrees'[n] = Cardinality(InEdges(n) \ Marked')
    <3>0. n \in Task BY BegunAreTasks
    <3>1. CASE n.ref \notin members
      <4>1. indegrees[n] = Cardinality(InEdges(n) \ Marked) BY DEF UInv, IndegreesMatchEdges, Marked
      <4> QED BY <1>5, <1>13, <3>1, <4>1
    <3>2. CASE n.ref \in members /\ n.ref # first
      <4>1. InEdges(n) \ Marked' = InEdges(n) BY <1>14, <3>2
      <4>2. indegrees'[n] = Cardinality(DependsOn[n.ref]) BY <1>5, <1>14, <3>2
      <4> QED BY <3>0, <4>1, <4>2, InEdgesAre
    <3>3. CASE n.ref = first
      <4>1. n = start BY <1>16, <3>3
      <4>2. InEdges(n) \ Marked' = {} BY <1>15, <4>1
      <4>3. indegrees'[n] = Cardinality({}) BY <1>3, <1>5, <1>15, <3>3
      <4> QED BY <4>2, <4>3
    <3> QED BY <3>1, <3>2, <3>3
  <2>2. \A n \in Active' : InEdges(n) \subseteq Marked' BY <1>19 DEF MarkedInOrder
  <2> QED BY <1>5, <2>1, <2>2 DEF IndegreesMatchEdges, Marked
<1>21. ASSUME NEW n \in Over' PROVE n.ref \notin members /\ n \in Over
  <2>0. n \in DOMAIN indegrees BY <1>5, <1>17 DEF Over, OneWorkflow, Begun
  <2>1. n \in completed' /\ n \notin Active' /\ InEdges(n) \subseteq Marked' BY DEF Over
  <2>2. n.ref # first BY <1>11, <1>16, <2>0, <2>1
  <2>3. n.ref \notin members BY <1>14, <2>0, <2>1, <2>2
  <2>4. n # t BY <1>3, <2>3
  <2>5. InEdges(n) \subseteq Marked BY <1>5, <2>1
  <2> QED BY <1>5, <1>11, <2>1, <2>3, <2>4, <2>5 DEF Over
<1>22. \A n \in (Active \cup Over) \ {t} : n.ref \notin members => n \in Active' \cup Over'
  BY <1>11, <1>18
<1>23. ASSUME NEW n \in DOMAIN indegrees, n.ref \in members, InEdges(n) \subseteq Marked'
       PROVE  n = start
  BY <1>14, <1>16, <1>23
<1>24. UInv' BY <1>5, <1>12, <1>17, <1>19, <1>20 DEF UInv
<1> QED BY <1>11, <1>21, <1>22, <1>23, <1>24 DEF members, first, start

-----------------------------------------------------------------------------
(* The invariant of such a workflow.                                       *)

\* The tasks a workflow begins with.
LEMMA FirstTasks ==
    ASSUME NEW w \in Workflows
    PROVE  LET first == {T(r, Root) : r \in {x \in w : DependsOn[x] = {}}}
           IN  first \in SUBSET Task /\ IsFiniteSet(first)
<1> DEFINE roots == {x \in w : DependsOn[x] = {}}
           first == {T(r, Root) : r \in roots}
           f == [r \in roots |-> T(r, Root)]
<1>1. w \subseteq Refs /\ \A r \in w : T(r, Root) \in Task BY GraphType, RootType, TaskType
<1>2. IsFiniteSet(roots) BY <1>1, GraphType, FS_Subset
<1>3. IsFiniteSet({f[r] : r \in roots})
  <2> HIDE DEF roots
  <2> QED BY <1>2, ImageFinite
<1>4. first = {f[r] : r \in roots} OBVIOUS
<1>5. first \in SUBSET Task BY <1>1
<1> QED BY <1>3, <1>4, <1>5

LEMMA InitUInv == Init => UInv
<1> SUFFICES ASSUME Init PROVE UInv OBVIOUS
<1> DEFINE roots(w) == {x \in w : DependsOn[x] = {}}
           first(w) == {T(r, Root) : r \in roots(w)}
<1>1. PICK w \in Workflows :
         /\ indegrees = [t \in {T(r, Root) : r \in w} |-> Cardinality(DependsOn[t.ref])]
         /\ queue \in InAdjOrder(first(w))
  BY DEF Init
<1>2. /\ w \subseteq Refs /\ \A r \in w : T(r, Root) \in Task
      /\ visited = {} /\ skipped = {} /\ completed = {} /\ DOMAIN inflight = {} /\ NoStreams
  BY GraphType, RootType, TaskType DEF Init, EmptyFcn, NoStreams
<1>3. first(w) \in SUBSET Task /\ IsFiniteSet(first(w)) BY FirstTasks
<1>4. /\ \A i \in DOMAIN queue : queue[i] \in first(w)
      /\ \A i, j \in DOMAIN queue : queue[i] = queue[j] => i = j
  <2> HIDE DEF first
  <2> QED BY <1>1, <1>3, InAdjOrderOnce
<1>5. Begun \subseteq first(w) /\ Active \subseteq first(w) /\ Marked = {}
  BY <1>2, <1>4 DEF Begun, Active, Queued, Marked
<1>6. \A t \in first(w) : t \in {T(r, Root) : r \in w} /\ InEdges(t) = {}
  <2>1. ASSUME NEW r \in roots(w) PROVE InEdges(T(r, Root)) = {} BY DEF InEdges, T
  <2> QED BY <2>1
<1>7. DOMAIN indegrees = {T(r, Root) : r \in w} BY <1>1
<1>8. OneWorkflow BY <1>5, <1>6, <1>7 DEF OneWorkflow
<1>9. MarkedInOrder BY <1>2, <1>5, <1>6 DEF MarkedInOrder
<1>10. IndegreesMatchEdges
  <2>1. ASSUME NEW t \in DOMAIN indegrees
        PROVE  indegrees[t] = Cardinality(InEdges(t) \ (visited \cup skipped))
    <3>1. t \in Task BY <1>2, <1>7
    <3>2. indegrees[t] = Cardinality(DependsOn[t.ref]) BY <1>1, <1>7
    <3>3. InEdges(t) \ (visited \cup skipped) = InEdges(t) BY <1>2
    <3> QED BY <3>1, <3>2, <3>3, InEdgesAre
  <2> QED BY <1>5, <1>6, <2>1 DEF IndegreesMatchEdges
<1>11. ScheduledOnce BY <1>2, <1>4 DEF ScheduledOnce
<1> QED BY <1>2, <1>8, <1>9, <1>10, <1>11 DEF UInv

LEMMA NextUInv ==
    ASSUME Unscattered, IInv, UInv, [Next]_vars
    PROVE  UInv'
<1>0. Typed BY DEF IInv
<1>1. ASSUME NEW t \in DOMAIN inflight, TaskStep(t) PROVE UInv'
  <2>1. CASE Stays /\ UNCHANGED <<task_streams, open_streams>> BY <2>1, GoesOnKeeps DEF Stays
  <2>2. CASE Ends(t) /\ UNCHANGED <<task_streams, open_streams>>
    BY <1>0, <2>2, EndsSilently, EndsQueueing DEF Ends
  <2>3. CASE Action[t.ref] = "loop_end" /\ NextIteration(t) BY <1>0, <2>3, IterationKeeps
  <2> QED BY <1>0, <1>1, <2>1, <2>2, <2>3, TaskStepUnscattered
<1>2. CASE Spawn BY <1>2, SpawnKeeps
<1>3. CASE Wait \/ AllCompleted \/ Stop \/ ReturnExceptions \/ Activate
  <2>1. GoesOn /\ UNCHANGED <<task_streams, open_streams>>
    BY <1>3 DEF Wait, AllCompleted, Stop, ReturnExceptions, Activate, GoesOn, scopes
  <2> QED BY <2>1, GoesOnKeeps
<1>4. CASE UNCHANGED vars
  <2>1. GoesOn /\ UNCHANGED <<task_streams, open_streams>> BY <1>4 DEF vars, control, scopes, GoesOn
  <2> QED BY <2>1, GoesOnKeeps
<1> QED BY <1>1, <1>2, <1>3, <1>4 DEF Next

\* Without scatters the invariant holds in every state.
LEMMA UnscatteredInvariance == Unscattered => (Spec => []UInv)
<1> SUFFICES ASSUME Unscattered PROVE Spec => []UInv OBVIOUS
<1>1. IInv /\ UInv /\ [Next]_vars => UInv' BY NextUInv
<1> QED BY <1>1, InitUInv, Invariance, PTL DEF Spec

\* In every workflow without scatters, however its branches fork, join, fail,
\* are skipped or repeat, a task is queued at most once and never while it runs
\* (_queue_tasks, _handle_loop_end, start).
THEOREM UnscatteredScheduledOnce == Unscattered => (Spec => []ScheduledOnce)
<1> SUFFICES ASSUME Unscattered PROVE Spec => []ScheduledOnce OBVIOUS
<1>1. UInv => ScheduledOnce BY DEF UInv
<1> QED BY <1>1, UnscatteredInvariance, PTL

\* There the counters in indegrees and the markers of the edges, which
\* _queue_tasks updates and _reset_loop_iteration_state resets one by one, never
\* disagree.
THEOREM UnscatteredIndegreesMatch == Unscattered => (Spec => []IndegreesMatchEdges)
<1> SUFFICES ASSUME Unscattered PROVE Spec => []IndegreesMatchEdges OBVIOUS
<1>1. UInv => IndegreesMatchEdges BY DEF UInv
<1> QED BY <1>1, UnscatteredInvariance, PTL

\* While the loop_start of a region is queued or running, nothing else of the
\* region is: of the members that have begun, one would depend on none of the
\* others, hence on the loop_start alone, which would be over.
LEMMA RegionEmpty ==
    ASSUME Unscattered, Typed, UInv
    PROVE  LoopBarrier
<1> SUFFICES ASSUME NEW end \in LoopEnds, NEW t \in Active, t.ref = ClosedScope(end),
                    NEW u \in Active, u # t, u.ref \in LoopMembers[end]
             PROVE  FALSE
  BY DEF LoopBarrier
<1> DEFINE first == ClosedScope(end)
           members == LoopMembers[end]
<1>1. PICK w \in Workflows :
          /\ w \subseteq Refs
          /\ \A k \in DOMAIN indegrees : k.sid = Root /\ k.ref \in w /\ k = T(k.ref, Root)
  BY InRoot
<1>2. t = T(first, Root) /\ u = T(u.ref, Root) /\ u.ref \in w
  BY <1>1 DEF UInv, OneWorkflow, Begun
<1>3. \A r \in members \ {first} : DependsOn[r] # {} /\ DepRefs(r) \subseteq members
  BY LoopRegion
<1>4. \A q, r \in Refs : \A type \in EdgeTypes : <<r, type>> \in DependsOn[q] => (r \in w <=> q \in w)
  BY GraphType
<1> HIDE DEF members, first
<1> DEFINE begun == {r \in w : /\ r \in members /\ r # first
                              /\ InEdges(T(r, Root)) \subseteq Marked}
<1>5. u.ref \in begun
  <2>1. u.ref # first BY <1>2
  <2>2. InEdges(u) \subseteq Marked BY DEF UInv, MarkedInOrder
  <2> QED BY <1>2, <2>1, <2>2 DEF members
<1>6. PICK r \in begun : DepRefs(r) \cap begun = {}
  <2>1. begun \in (SUBSET w) \ {{}} BY <1>5
  <2> HIDE DEF begun
  <2> QED BY <2>1, AcyclicDSL
<1>7. PICK dep \in DependsOn[r] : TRUE BY <1>3
<1>8. dep \in Refs \X EdgeTypes /\ r \in Refs BY <1>1, GraphType
<1>9. dep[1] \in DepRefs(r) /\ dep[1] \in members BY <1>3 DEF DepRefs
<1>10. dep[1] \in w
  <2>1. dep = <<dep[1], dep[2]>> /\ dep[1] \in Refs /\ dep[2] \in EdgeTypes BY <1>8
  <2> QED BY <1>4, <1>8, <2>1
<1>11. T(dep[1], Root) \in Over BY <1>8, <1>9, DepsOver
<1>12. dep[1] # first BY <1>2, <1>11 DEF Over
<1>13. dep[1] \in begun BY <1>9, <1>10, <1>11, <1>12 DEF Over
<1> QED BY <1>6, <1>9, <1>13

\* In every workflow without scatters, loops nested in any way, a loop has one
\* iteration at a time: when its loop_start is queued again, nothing of the
\* region is left from the iteration before, whichever branches of its body
\* ended last, failed or were skipped (_handle_loop_end,
\* _reset_loop_iteration_state).
THEOREM UnscatteredLoopBarrier == Unscattered => (Spec => []LoopBarrier)
<1> SUFFICES ASSUME Unscattered PROVE Spec => []LoopBarrier OBVIOUS
<1>1. IInv /\ UInv => LoopBarrier BY RegionEmpty DEF IInv
<1> QED BY <1>1, UnscatteredInvariance, Invariance, PTL

-----------------------------------------------------------------------------
(* Success of such a workflow: nothing is left behind.                     *)

\* Until the workflow fails, a task that has ended has decided its edges, and
\* a task whose edges are decided is queued at once.
NothingWaits ==
    /\ main \in {"stopping", "failed"} => task_exceptions # {}
    /\ task_exceptions = {} => \A t \in Over : OutEdges(t) \subseteq Marked
    /\ \A n \in DOMAIN indegrees : InEdges(n) \subseteq Marked => n \in Active \cup Over

\* Tasks in the order of adj are all there.
LEMMA InAdjOrderAll ==
    ASSUME NEW tasks \in SUBSET Task, IsFiniteSet(tasks), NEW q \in InAdjOrder(tasks)
    PROVE  \A n \in tasks : \E i \in DOMAIN q : q[i] = n
<1> DEFINE k == Cardinality(tasks)
<1>1. k \in Nat /\ Cardinality(1..k) = k BY FS_CardinalityType, FS_Interval
<1>2. q \in [1..k -> tasks] BY DEF InAdjOrder
<1>3. \A i, j \in DOMAIN q : q[i] = q[j] => i = j BY InAdjOrderOnce
<1> HIDE DEF k
<1>4. q \in Injection(1..k, tasks) BY <1>2, <1>3 DEF Injection, IsInjective
<1>5. q \in Surjection(1..k, tasks) BY <1>1, <1>4, FS_Injection DEF k
<1> QED BY <1>2, <1>5 DEF Surjection

\* A coroutine that ends once the workflow has failed.
LEMMA NothingWaitsSilently ==
    ASSUME Typed, UInv, NothingWaits, NEW t \in DOMAIN inflight, Complete(t),
           UNCHANGED <<marks, task_streams, open_streams>>,
           task_exceptions \subseteq task_exceptions', task_exceptions' # {} \/ main = "stopping"
    PROVE  NothingWaits'
<1>1. Active' = Active \ {t} /\ Over' = Over \cup {t} BY EndsSilently
<1>2. UNCHANGED <<indegrees, visited, skipped>> BY DEF marks
<1>3. Marked' = Marked BY <1>2 DEF Marked
<1>4. task_exceptions' # {} BY DEF NothingWaits
<1> QED BY <1>1, <1>2, <1>3, <1>4 DEF NothingWaits

\* A coroutine that ends and queues its successors: whoever waited for its
\* edges only is among them.
LEMMA NothingWaitsQueueing ==
    ASSUME Typed, UInv, NothingWaits, NEW t \in DOMAIN inflight, Complete(t),
           UNCHANGED <<task_streams, open_streams>>,
           task_exceptions \subseteq task_exceptions',
           NEW unreachable \in SUBSET OutEdges(t), QueueTasks(t, unreachable)
    PROVE  NothingWaits'
<1> DEFINE next == Decremented(t)
<1>1. DOMAIN inflight' = DOMAIN inflight \ {t} /\ completed' = completed \cup {t}
  BY DEF Complete, Without
<1>o. Over \cup {t} \subseteq Over' /\ UInv' BY EndsQueueing
<1>2. /\ Marked' = Marked \cup OutEdges(t)
      /\ DOMAIN indegrees' = DOMAIN indegrees
      /\ \A n \in DOMAIN indegrees : indegrees'[n] = Cardinality(InEdges(n) \ Marked')
      /\ \A n \in DOMAIN next : indegrees'[n] = next[n]
  BY QueueTasksCounts
<1>3. PICK q \in InAdjOrder(Ready(next)) : queue' = queue \o q BY DEF QueueTasks
<1>4. Ready(next) \in SUBSET Task /\ IsFiniteSet(Ready(next))
  <2>1. t \in Task BY InflightType
  <2>2. DOMAIN next \in SUBSET Task /\ IsFiniteSet(DOMAIN next) BY <2>1, DecrementedType DEF Typed
  <2> QED BY <2>2, FS_Subset DEF Ready
<1>5. DOMAIN next = {T(e.dst, e.sid) : e \in OutEdges(t)} BY DEF Decremented
<1> HIDE DEF next
<1>6. /\ \A n \in Ready(next) : n \in Queued'
      /\ Queued \subseteq Queued'
  <2>1. q \in Seq(Task) /\ queue \in Seq(Task) BY <1>4, InAdjOrderType DEF Typed, MarksOK
  <2>2. ASSUME NEW i \in DOMAIN queue PROVE queue[i] \in Queued'
    <3>1. i \in DOMAIN queue' /\ queue'[i] = queue[i] BY <1>3, <2>1
    <3> QED BY <3>1 DEF Queued
  <2>3. ASSUME NEW i \in DOMAIN q PROVE q[i] \in Queued'
    <3>1. Len(queue) + i \in DOMAIN queue' /\ queue'[Len(queue) + i] = q[i] BY <1>3, <2>1
    <3> QED BY <3>1 DEF Queued
  <2>4. \A n \in Ready(next) : \E i \in DOMAIN q : q[i] = n BY <1>4, InAdjOrderAll
  <2> QED BY <2>2, <2>3, <2>4 DEF Queued
<1>7. Active \cup Over \subseteq Active' \cup Over' /\ Ready(next) \subseteq Active'
  BY <1>1, <1>6, <1>o DEF Active
<1>8. ASSUME NEW n \in DOMAIN indegrees', InEdges(n) \subseteq Marked' PROVE n \in Active' \cup Over'
  <2>0. n \in DOMAIN indegrees /\ n \in Task BY <1>2, BegunAreTasks
  <2>1. CASE InEdges(n) \subseteq Marked BY <2>0, <2>1, <1>7 DEF NothingWaits
  <2>2. CASE ~(InEdges(n) \subseteq Marked)
    <3>1. PICK e \in InEdges(n) : e \in OutEdges(t) BY <1>2, <1>8, <2>2
    <3>2. e.dst = n.ref /\ e.sid = n.sid BY <2>0, <3>1, InEdgesAre
    <3>3. T(e.dst, e.sid) = n BY <2>0, <3>2 DEF T, Task
    <3>4. n \in DOMAIN next BY <1>5, <3>1, <3>3
    <3>5. InEdges(n) \ Marked' = {} BY <1>8
    <3>6. next[n] = 0 BY <1>2, <2>0, <3>4, <3>5, FS_EmptySet
    <3> QED BY <1>7, <3>4, <3>6 DEF Ready
  <2> QED BY <2>1, <2>2
<1>9. ASSUME task_exceptions' = {}, NEW u \in Over' PROVE OutEdges(u) \subseteq Marked'
  <2>1. u \in completed' /\ u \notin Active' /\ InEdges(u) \subseteq Marked' BY DEF Over
  <2>2. CASE u = t BY <1>2, <2>2
  <2>3. CASE u \in Over BY <1>2, <1>9, <2>3 DEF NothingWaits
  <2>4. CASE u # t /\ u \notin Over
    <3>1. u \in DOMAIN indegrees /\ u \in completed
      BY <1>1, <2>1, <2>4 DEF UInv, OneWorkflow, Begun
    <3>2. u \notin Active BY <1>1, <1>6, <2>1, <2>4 DEF Active
    <3>3. ~(InEdges(u) \subseteq Marked) BY <2>4, <3>1, <3>2 DEF Over
    <3>4. u \in Task BY <3>1, BegunAreTasks
    <3>5. PICK e \in InEdges(u) : e \in OutEdges(t) BY <1>2, <2>1, <3>3
    <3>6. e.dst = u.ref /\ e.sid = u.sid BY <3>4, <3>5, InEdgesAre
    <3>7. T(e.dst, e.sid) = u BY <3>4, <3>6 DEF T, Task
    <3>8. u \in DOMAIN next BY <1>5, <3>5, <3>7
    <3>9. InEdges(u) \ Marked' = {} BY <2>1
    <3>10. next[u] = 0 BY <1>2, <3>1, <3>8, <3>9, FS_EmptySet
    <3> QED BY <1>7, <2>1, <3>8, <3>10 DEF Ready
  <2> QED BY <2>2, <2>3, <2>4
<1>10. main' \in {"stopping", "failed"} => task_exceptions' # {}
  BY DEF NothingWaits, Complete
<1> QED BY <1>8, <1>9, <1>10 DEF NothingWaits

\* A new iteration: outside the region nothing changes, and of its members
\* only the loop_start has no edge pending.
LEMMA NothingWaitsIterating ==
    ASSUME Unscattered, Typed, UInv, NothingWaits, NEW t \in DOMAIN inflight,
           Action[t.ref] = "loop_end", NextIteration(t)
    PROVE  NothingWaits'
<1> DEFINE members == LoopMembers[t.ref]
           start == T(ClosedScope(t.ref), Root)
<1>1. /\ \A n \in Over' : n.ref \notin members /\ n \in Over
      /\ \A n \in (Active \cup Over) \ {t} : n.ref \notin members => n \in Active' \cup Over'
      /\ start \in Active'
      /\ \A n \in DOMAIN indegrees : n.ref \in members /\ InEdges(n) \subseteq Marked' => n = start
  BY IterationKeeps
<1>2. /\ Marked' = {e \in Marked : ~(e.src \in members /\ e.dst \in members)}
      /\ DOMAIN indegrees' = DOMAIN indegrees
  BY IterationIs
<1>3. UNCHANGED task_exceptions /\ (main' \in {"stopping", "failed"} => main \in {"stopping", "failed"})
  BY DEF NextIteration
<1>4. t.ref \in members
  <2>1. t.ref \in LoopEnds BY InflightType DEF LoopEnds
  <2> QED BY <2>1, LoopRegion
<1> HIDE DEF members, start
<1>5. ASSUME task_exceptions' = {}, NEW u \in Over' PROVE OutEdges(u) \subseteq Marked'
  <2>1. u \in Over /\ u.ref \notin members BY <1>1
  <2>2. OutEdges(u) \subseteq Marked BY <1>3, <1>5, <2>1 DEF NothingWaits
  <2>3. \A e \in OutEdges(u) : e.src = u.ref BY DEF OutEdges
  <2> QED BY <1>2, <2>1, <2>2, <2>3
<1>6. ASSUME NEW n \in DOMAIN indegrees', InEdges(n) \subseteq Marked' PROVE n \in Active' \cup Over'
  <2>1. CASE n.ref \in members BY <1>1, <1>2, <1>6, <2>1
  <2>2. CASE n.ref \notin members
    <3>1. InEdges(n) \subseteq Marked BY <1>2, <1>6
    <3>2. n \in Active \cup Over BY <1>2, <3>1 DEF NothingWaits
    <3>3. n # t BY <1>4, <2>2
    <3> QED BY <1>1, <2>2, <3>2, <3>3
  <2> QED BY <2>1, <2>2
<1> QED BY <1>3, <1>5, <1>6 DEF NothingWaits

\* Steps after which the same tasks are queued, running and completed.
LEMMA NothingWaitsSame ==
    ASSUME NothingWaits, Active' = Active,
           UNCHANGED <<completed, indegrees, visited, skipped, task_exceptions>>,
           main' \in {"stopping", "failed"} => main \in {"stopping", "failed"} \/ task_exceptions # {}
    PROVE  NothingWaits'
<1>1. Over' = Over /\ Marked' = Marked BY DEF Over, Marked
<1> QED BY <1>1 DEF NothingWaits

LEMMA InitNothingWaits == Init => NothingWaits
<1> SUFFICES ASSUME Init PROVE NothingWaits OBVIOUS
<1> DEFINE roots(w) == {x \in w : DependsOn[x] = {}}
           first(w) == {T(r, Root) : r \in roots(w)}
<1>1. PICK w \in Workflows :
         /\ indegrees = [t \in {T(r, Root) : r \in w} |-> Cardinality(DependsOn[t.ref])]
         /\ queue \in InAdjOrder(first(w))
  BY DEF Init
<1>2. /\ w \subseteq Refs /\ \A r \in w : T(r, Root) \in Task
      /\ visited = {} /\ skipped = {} /\ completed = {} /\ main = "ready"
  BY GraphType, RootType, TaskType DEF Init, EmptyFcn
<1>3. first(w) \in SUBSET Task /\ IsFiniteSet(first(w)) BY FirstTasks
<1>4. \A n \in first(w) : n \in Active
  <2>1. \A n \in first(w) : \E i \in DOMAIN queue : queue[i] = n
    <3> HIDE DEF first
    <3> QED BY <1>1, <1>3, InAdjOrderAll
  <2> HIDE DEF first
  <2> QED BY <2>1 DEF Active, Queued
<1>5. ASSUME NEW n \in DOMAIN indegrees, InEdges(n) \subseteq Marked PROVE n \in first(w)
  <2>1. PICK r \in w : n = T(r, Root) BY <1>1
  <2>2. InEdges(n) = {} BY <1>2, <1>5 DEF Marked
  <2>3. DependsOn[r] = {} BY <2>1, <2>2 DEF InEdges, T
  <2> QED BY <2>1, <2>3
<1> HIDE DEF first
<1>6. Over = {} BY <1>2 DEF Over
<1> QED BY <1>2, <1>4, <1>5, <1>6 DEF NothingWaits

LEMMA NextNothingWaits ==
    ASSUME Unscattered, IInv, UInv, NothingWaits, [Next]_vars
    PROVE  NothingWaits'
<1>0. Typed BY DEF IInv
<1>1. ASSUME NEW t \in DOMAIN inflight, TaskStep(t) PROVE NothingWaits'
  <2>1. CASE Stays
    <3>1. Active' = Active BY <2>1 DEF Stays, GoesOn, marks, Active, Queued
    <3> QED BY <2>1, <3>1, NothingWaitsSame DEF Stays, GoesOn, marks, errors
  <2>2. CASE Ends(t) /\ UNCHANGED <<task_streams, open_streams>>
    BY <1>0, <2>2, NothingWaitsSilently, NothingWaitsQueueing DEF Ends
  <2>3. CASE Action[t.ref] = "loop_end" /\ NextIteration(t)
    BY <1>0, <2>3, NothingWaitsIterating
  <2> QED BY <1>0, <1>1, <2>1, <2>2, <2>3, TaskStepUnscattered
<1>2. CASE Spawn
  <2>1. Active' = Active BY <1>2, SpawnKeeps
  <2> QED BY <1>2, <2>1, NothingWaitsSame DEF Spawn, errors
<1>3. CASE Wait \/ AllCompleted \/ Stop \/ ReturnExceptions \/ Activate
  <2> USE <1>3 DEF Wait, AllCompleted, Stop, ReturnExceptions, Activate
  <2>1. /\ UNCHANGED <<queue, inflight, completed, indegrees, visited, skipped, task_exceptions>>
        /\ main' \in {"stopping", "failed"} => main \in {"stopping", "failed"} \/ task_exceptions # {}
    BY DEF marks, errors
  <2>2. Active' = Active BY <2>1 DEF Active, Queued
  <2> QED BY <2>1, <2>2, NothingWaitsSame
<1>4. CASE UNCHANGED vars
  <2>1. Active' = Active BY <1>4 DEF Active, Queued, vars, control, marks
  <2> QED BY <1>4, <2>1, NothingWaitsSame DEF vars, control, marks, errors
<1> QED BY <1>1, <1>2, <1>3, <1>4 DEF Next

\* When start() reports success, no action of the workflow is left: of those
\* that are, one would depend on none of the others, and would have been queued.
LEMMA NothingLeft ==
    ASSUME Unscattered, IInv, UInv, NothingWaits
    PROVE  SuccessIsComplete
<1> SUFFICES ASSUME main = "done" PROVE SuccessIsComplete BY DEF SuccessIsComplete
<1>1. Active = {} /\ task_exceptions = {} BY DEF IInv, DrainedOnSuccess, Active, Queued
<1>2. PICK w \in Workflows : DOMAIN indegrees = {T(r, Root) : r \in w} BY DEF UInv, OneWorkflow
<1>w. w \subseteq Refs BY GraphType
<1> DEFINE left == {r \in w : T(r, Root) \notin Over}
<1>3. left = {}
  <2> SUFFICES ASSUME left # {} PROVE FALSE OBVIOUS
  <2>1. PICK r \in left : DepRefs(r) \cap left = {} BY AcyclicDSL
  <2> DEFINE n == T(r, Root)
  <2>2. n \in DOMAIN indegrees /\ n \notin Active \cup Over BY <1>1, <1>2
  <2>3. n.ref = r /\ n.sid = Root BY DEF T
  <2>4. ASSUME NEW d \in DependsOn[r]
        PROVE  [src |-> d[1], dst |-> r, type |-> d[2], sid |-> Root] \in Marked
    <3>1. d \in Refs \X EdgeTypes BY <1>w, GraphType
    <3>2. d[1] \in Refs /\ d[2] \in EdgeTypes /\ <<d[1], d[2]>> \in DependsOn[r] BY <3>1
    <3>3. d[1] \in w BY <1>w, <3>2, GraphType
    <3>4. d[1] \in DepRefs(r) BY DEF DepRefs
    <3>5. T(d[1], Root) \in Over BY <2>1, <3>3, <3>4
    <3>6. <<r, d[2]>> \in Adj(d[1]) BY <1>w, <3>2 DEF Adj
    <3>7. [src |-> d[1], dst |-> r, type |-> d[2], sid |-> Root] \in OutEdges(T(d[1], Root))
      BY <3>6 DEF OutEdges, T
    <3> QED BY <1>1, <3>5, <3>7 DEF NothingWaits
  <2>5. InEdges(n) \subseteq Marked BY <2>3, <2>4 DEF InEdges
  <2> QED BY <2>2, <2>5 DEF NothingWaits
<1>4. ASSUME NEW r \in Refs, T(r, Root) \in DOMAIN indegrees
      PROVE  \E t \in completed : t.ref = r /\ InScope(t)
  <2>0. PICK x \in w : T(r, Root) = T(x, Root) BY <1>2, <1>4
  <2>1. r \in w
    <3>1. T(r, Root).ref = r /\ T(x, Root).ref = x BY DEF T
    <3> QED BY <2>0, <3>1
  <2>2. T(r, Root) \in completed BY <1>3, <2>1 DEF Over
  <2>3. ScatterScopes[r] = {} BY DEF ScatterScopes, Unscattered
  <2>4. T(r, Root).ref = r /\ T(r, Root).sid = << >> BY DEF T, Root
  <2>5. InScope(T(r, Root)) BY <2>3, <2>4 DEF InScope
  <2> QED BY <2>2, <2>4, <2>5
<1>5. \A g \in Refs : Action[g] # "gather" BY DEF Unscattered
<1> QED BY <1>4, <1>5 DEF SuccessIsComplete, UInv, NoStreams

\* In every workflow without scatters, however wide its joins, deep its loops
\* and whatever fails, is handled or skipped, start() reports success only when
\* every action has run or was skipped (_queue_tasks, _handle_error_path,
\* _handle_loop_end, start).
THEOREM UnscatteredSuccessIsComplete == Unscattered => (Spec => []SuccessIsComplete)
<1> SUFFICES ASSUME Unscattered PROVE Spec => []SuccessIsComplete OBVIOUS
<1>1. IInv /\ UInv /\ NothingWaits /\ [Next]_vars => NothingWaits' BY NextNothingWaits
<1>2. IInv /\ UInv /\ NothingWaits => SuccessIsComplete BY NothingLeft
<1>3. Spec => []UInv BY UnscatteredInvariance
<1> QED BY <1>1, <1>2, <1>3, InitNothingWaits, Invariance, PTL DEF Spec

-----------------------------------------------------------------------------
(* Workflows with scatters in scatters.  What a gather waits for, what     *)
(* open_streams counts and where actions run is right in every workflow    *)
(* without loops whose scatters and gathers do not themselves fail.        *)

\* The scope whose streams the tasks of an action run in.
Home(r) ==
    CASE Action[r] = "gather" -> ClosedScope(r)
      [] r \in Openers -> ParentScope(r)
      [] OTHER -> ActionScope[r]

Level(s) == {r \in Refs : Home(r) = s}

\* What has run in a stream before the dependency d of an action there is met.
Before(d) == IF Action[d] = "gather" THEN ClosedScope(d) ELSE d

\* Scatters and gathers that do not fail: their expressions and activities do
\* not, one dependency that was not skipped is enough for them, errors of
\* streams are collected, and no limit stops an action before its first await.
Dependable ==
    /\ ActionLimit = NoLimit
    /\ \A r \in Refs : Action[r] \in {"scatter", "gather"} =>
           /\ r \notin Fallible
           /\ JoinStrategy[r] = "any" \/ Cardinality(DependsOn[r]) <= 1
    /\ \A g \in Refs : Action[g] = "gather" => ErrorStrategy[g] # "raise"

\* A gather closes one scatter, which no other one closes, and whatever runs
\* in the streams of the scatter leads to it.
AllGathered ==
    /\ \A g, h \in Refs : Action[g] = "gather" /\ Action[h] = "gather" =>
           (ClosedScope(g) = ClosedScope(h) => g = h)
    /\ \A g \in Refs : Action[g] = "gather" =>
           /\ \A d \in DepRefs(g) : ActionScope[d] = ClosedScope(g)
           /\ \A some \in {m \in SUBSET Level(ClosedScope(g)) : g \in m} :
                  (\A q \in some : \A d \in DepRefs(q) :
                       Before(d) \in Level(ClosedScope(g)) => Before(d) \in some)
                      => some = Level(ClosedScope(g))

Regular ==
    /\ \A r \in Refs : Action[r] \in {"action", "scatter", "gather"}
    /\ Dependable
    /\ AllGathered

HomeOf(sid) == IF sid = Root THEN RootScope ELSE Leaf(sid)[1]
Skips(sid) == sid # Root /\ Leaf(sid)[2] = SkipToken
IsStreamOf(sid, k) == sid # Root /\ ScatterOf(sid) = k
Path(sid) == {sid[i][1] : i \in DOMAIN sid}
Around(scope) == {s \in EnclosingScopes[scope] \cap Refs : Action[s] = "scatter"}

Final(g, sid) == <<g, sid>> \in DOMAIN results /\ results[<<g, sid>>].final

\* A task is in a stream of its own scope, or is skipped with everything
\* behind a scatter that was skipped.
Adrift(sid) == Skips(sid) /\ ScatterOf(sid) \notin DOMAIN open_streams
Placed(t) == Home(t.ref) = HomeOf(t.sid) \/ Adrift(t.sid)

\* The edges of x have been marked.
Opened(x) ==
    CASE Action[x.ref] = "scatter" -> x.sid \in streams /\ x.sid # Root /\ Leaf(x.sid)[1] = x.ref
      [] Action[x.ref] = "gather" -> Final(x.ref, x.sid) \/ (x \in completed /\ Adrift(x.sid))
      [] OTHER -> x \in completed

\* A task is reached unless everything before it was skipped.
Entered(t) == InEdges(t) = {} \/ InEdges(t) \cap visited # {}

\* Tasks begin where they belong.
PlacesOK ==
    /\ \E w \in Workflows : \A t \in Begun : t.ref \in w
    /\ \A t \in Begun : t.sid \in streams /\ Placed(t) /\ (t.sid # Root => InEdges(t) # {})

\* Edges are counted as they are marked, and those into a task are marked
\* before it begins.
CountsOK ==
    /\ \A e \in Marked : e \in OutEdges(T(e.src, e.sid)) /\ T(e.dst, e.sid) \in DOMAIN indegrees
    /\ \A t \in DOMAIN indegrees : indegrees[t] = Cardinality(InEdges(t) \ Marked)
    /\ \A t \in Begun : InEdges(t) \subseteq Marked
    /\ Active \cap completed = {}
    /\ ScheduledOnce

\* Edges are marked once, by the task, stream or gather they leave, and
\* skipped in the streams that skip.
MarkersOK ==
    /\ visited \cap skipped = {}
    /\ \A e \in Marked : Opened(T(e.src, e.sid)) /\ (Skips(e.sid) => e \in skipped)

\* A stream and the scatter it belongs to.
StreamFacts(sid, k) ==
    /\ Action[k.ref] = "scatter"
    /\ k \in completed \/ At(k, "scattering")
    /\ Skips(k.sid) => Skips(sid)
    /\ k \in DOMAIN task_streams =>
           IF Skips(sid) THEN k \in completed /\ task_streams[k] = 0
           ELSE Leaf(sid)[2] \in 0..task_streams[k] - 1
    /\ ~Skips(sid) => k \in DOMAIN task_streams /\ Path(sid) = Around(HomeOf(sid))

StreamsOK ==
    /\ Root \in streams
    /\ \A sid \in streams : \A n \in 0..Len(sid) : SubSeq(sid, 1, n) \in streams
    /\ \A sid \in streams \ {Root} : StreamFacts(sid, ScatterOf(sid))

\* The counters of a scatter.
ScattersOK ==
    /\ \A k \in DOMAIN task_streams :
           /\ Action[k.ref] = "scatter" /\ ~Skips(k.sid) /\ Entered(k)
           /\ k \in DOMAIN open_streams \/ At(k, "scattering")
    /\ \A k \in DOMAIN open_streams : k \in DOMAIN task_streams /\ k \in completed
    /\ \A k \in DOMAIN inflight : inflight[k].at = "scattering" =>
           k \in DOMAIN task_streams /\ task_streams[k] = inflight[k].made

\* Where coroutines wait.
AwaitsOK ==
    /\ delivered \subseteq DOMAIN inflight
    /\ \A t \in DOMAIN inflight :
           /\ Skips(t.sid) => inflight[t].at \in {"new", "finalize_empty"}
           /\ inflight[t].at = "finalize_empty" => Skips(t.sid) /\ ~Adrift(t.sid)
           /\ inflight[t].at \in {"run_if", "execute", "collection", "scattering", "items"} => Entered(t)

\* While a scatter creates its streams, nothing in them gets past its first
\* await.
FreshOK ==
    \A k \in DOMAIN inflight : inflight[k].at = "scattering" =>
        /\ \A e \in Marked : IsStreamOf(e.sid, k) => e \in visited
        /\ \A t \in Begun : IsStreamOf(t.sid, k) =>
               /\ t \in Active /\ t \notin delivered
               /\ t \in DOMAIN inflight =>
                      inflight[t].at \in {"new", "run_if", "execute", "collection", "items"}

\* A gathered list, the scatter it is for and the tasks that are finalizing it.
ListFacts(key, k) ==
    /\ Action[key[1]] = "gather" /\ k \in DOMAIN open_streams
    /\ \E final \in BOOLEAN : results[key] = [final |-> final, items |-> results[key].items]
    /\ Final(key[1], key[2]) =>
           \A sid \in streams : IsStreamOf(sid, k) =>
               T(key[1], sid) \in completed /\ \A t \in Active : ~Within(t.sid, sid)
    /\ ~Final(key[1], key[2]) =>
           \/ DOMAIN results[key].items = 1..task_streams[k]
           \/ \E sid \in streams : IsStreamOf(sid, k) /\ At(T(key[1], sid), "finalize")

\* The last gather of a scatter finalizes the list; then its streams are quiet.
GathersOK ==
    /\ \A k \in DOMAIN open_streams : open_streams[k] = task_streams[k] - Cardinality(Closed(k))
    /\ \A t \in DOMAIN inflight : inflight[t].at = "finalize" =>
           /\ ResultKey(t) \in DOMAIN results /\ ~Final(t.ref, Parent(t.sid))
           /\ \A sid \in streams \ {t.sid} :
                  IsStreamOf(sid, ScatterOf(t.sid)) => T(t.ref, sid) \in completed
    /\ \A key \in DOMAIN results : ListFacts(key, T(ClosedScope(key[1]), key[2]))

RInv ==
    /\ PlacesOK /\ CountsOK /\ MarkersOK
    /\ StreamsOK /\ ScattersOK /\ AwaitsOK /\ FreshOK /\ GathersOK

-----------------------------------------------------------------------------
(* Stream ids.                                                             *)

Index == Nat \cup {SkipToken}

\* A stream below base belongs to the scatter that made it.
LEMMA NewStreamIs ==
    ASSUME NEW r \in Refs, NEW i \in Index, NEW base \in Stream
    PROVE  LET sid == NewStream(r, i, base)
           IN  /\ sid \in Stream /\ sid # Root
               /\ Parent(sid) = base /\ Leaf(sid) = <<r, i>> /\ ScatterOf(sid) = T(r, base)
               /\ HomeOf(sid) = r /\ (Skips(sid) <=> i = SkipToken)
               /\ Path(sid) = Path(base) \cup {r}
               /\ \A n \in 0..Len(sid) : SubSeq(sid, 1, n) = sid \/ \E m \in 0..Len(base) : SubSeq(sid, 1, n) = SubSeq(base, 1, m)
<1> DEFINE E == Refs \X Index
           sid == NewStream(r, i, base)
<1>1. base \in Seq(E) /\ <<r, i>> \in E BY DEF Stream, Index
<1> HIDE DEF E
<1>2. /\ sid = Append(base, <<r, i>>) /\ sid \in Seq(E)
      /\ Len(base) \in Nat /\ Len(sid) = Len(base) + 1
      /\ sid[Len(sid)] = <<r, i>>
      /\ \A j \in 1..Len(base) : sid[j] = base[j]
  BY <1>1 DEF NewStream
<1> HIDE DEF sid
<1>3. sid \in Stream BY <1>2 DEF Stream, E, Index
<1>4. sid # Root BY <1>2 DEF Root
<1>5. \A m \in 0..Len(base) : SubSeq(sid, 1, m) = SubSeq(base, 1, m)
  <2> TAKE m \in 0..Len(base)
  <2>1. m \in Nat /\ m <= Len(base) /\ m <= Len(sid) BY <1>2
  <2>2. SubSeq(sid, 1, m) = [j \in 1..m |-> sid[j]] BY <1>2, <2>1
  <2>3. SubSeq(base, 1, m) = [j \in 1..m |-> base[j]] BY <1>1, <2>1
  <2> QED BY <1>2, <2>1, <2>2, <2>3
<1>6. SubSeq(base, 1, Len(base)) = base BY <1>1, <1>2
<1>7. SubSeq(sid, 1, Len(sid)) = sid BY <1>2
<1>8. Parent(sid) = base BY <1>2, <1>5, <1>6 DEF Parent
<1>9. Leaf(sid) = <<r, i>> BY <1>2 DEF Leaf
<1>10. /\ ScatterOf(sid) = T(r, base) /\ HomeOf(sid) = r /\ (Skips(sid) <=> i = SkipToken)
  BY <1>4, <1>8, <1>9 DEF ScatterOf, HomeOf, Skips
<1>11. Path(sid) = Path(base) \cup {r}
  <2>1. DOMAIN sid = 1..(Len(base) + 1) /\ DOMAIN base = 1..Len(base) BY <1>1, <1>2
  <2>2. 1..(Len(base) + 1) = (1..Len(base)) \cup {Len(base) + 1} BY <1>2
  <2>3. sid[Len(base) + 1][1] = r BY <1>2
  <2> QED BY <1>2, <2>1, <2>2, <2>3 DEF Path
<1>12. \A n \in 0..Len(sid) : SubSeq(sid, 1, n) = sid \/ \E m \in 0..Len(base) : SubSeq(sid, 1, n) = SubSeq(base, 1, m)
  <2> TAKE n \in 0..Len(sid)
  <2>1. n = Len(sid) \/ n \in 0..Len(base) BY <1>2
  <2> QED BY <1>5, <1>7, <2>1, Zenon
<1> QED BY <1>3, <1>4, <1>8, <1>9, <1>10, <1>11, <1>12 DEF sid

LEMMA FrontIs ==
    ASSUME NEW E, NEW sid \in Seq(E), Len(sid) # 0
    PROVE  /\ Parent(sid) \in Seq(E) /\ Len(Parent(sid)) = Len(sid) - 1
           /\ Parent(sid) = [j \in 1..(Len(sid) - 1) |-> sid[j]]
<1>1. PICK m \in Nat : m = Len(sid) - 1 OBVIOUS
<1>2. SubSeq(sid, 1, m) = [j \in 1..m |-> sid[j]] BY <1>1
<1>3. \A j \in 1..m : sid[j] \in E BY <1>1
<1>4. Parent(sid) = [j \in 1..m |-> sid[j]] BY <1>1, <1>2 DEF Parent
<1>5. Parent(sid) \in [1..m -> E] BY <1>3, <1>4
<1>6. Parent(sid) \in Seq(E) /\ Len(Parent(sid)) = m BY <1>5
<1> QED BY <1>1, <1>4, <1>6

\* Every stream but the root is below another.
LEMMA StreamIs ==
    ASSUME NEW sid \in Stream, sid # Root
    PROVE  /\ Leaf(sid)[1] \in Refs /\ Leaf(sid)[2] \in Index /\ Parent(sid) \in Stream
           /\ sid = NewStream(Leaf(sid)[1], Leaf(sid)[2], Parent(sid))
           /\ ScatterOf(sid) \in Task /\ ScatterOf(sid).ref = Leaf(sid)[1] /\ ScatterOf(sid).sid = Parent(sid)
           /\ HomeOf(sid) = Leaf(sid)[1]
<1> DEFINE E == Refs \X Index
<1>1. sid \in Seq(E) BY DEF Stream, Index
<1> HIDE DEF E
<1>2. Len(sid) \in Nat /\ Len(sid) # 0 BY <1>1 DEF Root
<1>3. Leaf(sid) \in E BY <1>1, <1>2 DEF Leaf
<1>4. Leaf(sid)[1] \in Refs /\ Leaf(sid)[2] \in Index /\ Leaf(sid) = <<Leaf(sid)[1], Leaf(sid)[2]>>
  BY <1>3 DEF E
<1>5. Parent(sid) \in Stream BY ParentType
<1>6. sid = Append(Parent(sid), Leaf(sid))
  <2>1. Parent(sid) = [j \in 1..(Len(sid) - 1) |-> sid[j]] /\ Len(Parent(sid)) = Len(sid) - 1
    BY <1>1, <1>2, FrontIs
  <2> QED BY <1>1, <1>2, <1>3, <2>1 DEF Leaf
<1> QED BY <1>4, <1>5, <1>6, TaskType DEF NewStream, ScatterOf, HomeOf, T

\* What is within a stream, or within a stream below it.
LEMMA WithinIs ==
    ASSUME NEW sid \in Stream, NEW base \in Stream
    PROVE  /\ Within(base, base)
           /\ sid # Root => (Within(Parent(sid), base) => Within(sid, base)) /\ ~Within(Parent(sid), sid)
           /\ \A r \in Refs, i \in Index :
                  Within(NewStream(r, i, sid), base) => base = NewStream(r, i, sid) \/ Within(sid, base)
           /\ Within(sid, base) /\ sid # base =>
                  \E p \in Stream : /\ p # Root /\ Parent(p) = base /\ Within(sid, p)
                                    /\ \E n \in 0..Len(sid) : p = SubSeq(sid, 1, n)
<1> DEFINE E == Refs \X Index
<1>1. sid \in Seq(E) /\ base \in Seq(E) BY DEF Stream, Index
<1>s. Stream = Seq(E) BY DEF Stream, Index
<1> HIDE DEF E
<1>2. Len(sid) \in Nat /\ Len(base) \in Nat BY <1>1
<1>3. Within(base, base) BY <1>1, <1>2 DEF Within
<1>4. ASSUME sid # Root
      PROVE  (Within(Parent(sid), base) => Within(sid, base)) /\ ~Within(Parent(sid), sid)
  <2>1. Len(sid) # 0 BY <1>1, <1>4 DEF Root
  <2>2. /\ Len(Parent(sid)) = Len(sid) - 1 /\ Parent(sid) \in Seq(E)
        /\ \A j \in 1..(Len(sid) - 1) : Parent(sid)[j] = sid[j]
    BY <1>1, <2>1, FrontIs
  <2>3. ASSUME Within(Parent(sid), base) PROVE Within(sid, base)
    <3>1. Len(base) <= Len(sid) - 1 /\ SubSeq(Parent(sid), 1, Len(base)) = base BY <2>2, <2>3 DEF Within
    <3>2. SubSeq(Parent(sid), 1, Len(base)) = [j \in 1..Len(base) |-> Parent(sid)[j]]
      BY <1>2, <2>2, <3>1
    <3>3. SubSeq(sid, 1, Len(base)) = [j \in 1..Len(base) |-> sid[j]]
      BY <1>1, <1>2, <3>1
    <3>4. SubSeq(sid, 1, Len(base)) = base BY <1>2, <2>2, <3>1, <3>2, <3>3
    <3> QED BY <1>2, <3>1, <3>4 DEF Within
  <2>4. ~Within(Parent(sid), sid) BY <1>2, <2>2 DEF Within
  <2> QED BY <2>3, <2>4
<1>5. ASSUME NEW r \in Refs, NEW i \in Index, Within(NewStream(r, i, sid), base)
      PROVE  base = NewStream(r, i, sid) \/ Within(sid, base)
  <2> DEFINE new == NewStream(r, i, sid)
  <2>1. new = Append(sid, <<r, i>>) /\ <<r, i>> \in E BY DEF NewStream, E
  <2>2. new \in Seq(E) /\ Len(new) = Len(sid) + 1 /\ \A j \in 1..Len(sid) : new[j] = sid[j]
    BY <1>1, <2>1
  <2>w. Within(new, base) BY <1>5
  <2> HIDE DEF new
  <2>3. Len(base) <= Len(new) /\ SubSeq(new, 1, Len(base)) = base BY <2>w DEF Within
  <2>4. CASE Len(base) = Len(new)
    <3>1. SubSeq(new, 1, Len(new)) = new BY <2>2
    <3> QED BY <2>3, <2>4, <3>1 DEF new
  <2>5. CASE Len(base) # Len(new)
    <3>0. Len(new) = Len(sid) + 1 /\ Len(base) <= Len(new) BY <2>2, <2>3
    <3>1. Len(base) <= Len(sid) BY <1>2, <2>5, <3>0
    <3>2. SubSeq(new, 1, Len(base)) = [j \in 1..Len(base) |-> new[j]] BY <1>2, <2>2, <2>3
    <3>3. SubSeq(sid, 1, Len(base)) = [j \in 1..Len(base) |-> sid[j]] BY <1>1, <1>2, <3>1
    <3>4. SubSeq(sid, 1, Len(base)) = base BY <1>2, <2>2, <2>3, <3>1, <3>2, <3>3
    <3> QED BY <3>1, <3>4 DEF Within
  <2> QED BY <2>4, <2>5
<1>6. ASSUME Within(sid, base), sid # base
      PROVE  \E p \in Stream : /\ p # Root /\ Parent(p) = base /\ Within(sid, p)
                               /\ \E n \in 0..Len(sid) : p = SubSeq(sid, 1, n)
  <2>1. Len(base) <= Len(sid) /\ SubSeq(sid, 1, Len(base)) = base BY <1>6 DEF Within
  <2>2. Len(base) # Len(sid)
    <3>1. SubSeq(sid, 1, Len(sid)) = sid BY <1>1
    <3> QED BY <1>6, <2>1, <3>1
  <2> DEFINE p == SubSeq(sid, 1, Len(base) + 1)
  <2>3. Len(base) + 1 \in 0..Len(sid) BY <1>2, <2>1, <2>2
  <2>4. /\ p \in Seq(E) /\ Len(p) = Len(base) + 1
        /\ \A j \in 1..(Len(base) + 1) : p[j] = sid[j]
    BY <1>1, <1>2, <2>3
  <2>n. \E n \in 0..Len(sid) : p = SubSeq(sid, 1, n) BY <2>3
  <2>p. SubSeq(sid, 1, Len(base) + 1) = p OBVIOUS
  <2> HIDE DEF p
  <2>5. Parent(p) = base
    <3>1. Parent(p) = SubSeq(p, 1, Len(base)) BY <1>2, <2>4 DEF Parent
    <3>2. SubSeq(p, 1, Len(base)) = [j \in 1..Len(base) |-> p[j]] BY <1>2, <2>4
    <3>3. SubSeq(sid, 1, Len(base)) = [j \in 1..Len(base) |-> sid[j]] BY <1>1, <1>2, <2>1
    <3> QED BY <1>2, <2>1, <2>4, <3>1, <3>2, <3>3
  <2>6. p # Root BY <1>2, <2>4 DEF Root
  <2>7. Within(sid, p) BY <1>2, <2>3, <2>4, <2>p DEF Within
  <2> QED BY <1>s, <2>4, <2>5, <2>6, <2>7, <2>n
<1> QED BY <1>3, <1>4, <1>5, <1>6

-----------------------------------------------------------------------------
(* Scopes.                                                                 *)

\* The dependencies of an action lead to the scope its tasks run in.
LEMMA Scoping ==
    ASSUME Regular
    PROVE  /\ \A r \in Refs : \A d \in DepRefs(r) : d \in Refs /\ ActionScope[d] = Home(r)
           /\ \A r \in Refs : DependsOn[r] = {} => Home(r) = RootScope
           /\ \A r \in Refs : Action[r] = "action" => Home(r) = ActionScope[r]
           /\ \A r \in Refs : Action[r] = "scatter" => ActionScope[r] = r
           /\ \A r \in Refs : Action[r] = "gather" =>
                  /\ Home(r) = ClosedScope(r) /\ ClosedScope(r) \in Refs
                  /\ Action[ClosedScope(r)] = "scatter" /\ ActionScope[r] = Home(ClosedScope(r))
<1>v. /\ ClosersMatchOpeners /\ ScopeDependenciesValid
      /\ \A r \in Closers : DependsOn[r] # {}
  BY ValidDSL DEF ValidStructure
<1>a. \A r \in Refs : \A d \in DepRefs(r) : d \in Refs
  BY GraphType DEF DepRefs
<1>k. \A r \in Refs : Action[r] \in {"action", "scatter", "gather"} BY DEF Regular
<1>1. ASSUME NEW r \in Refs, Action[r] = "action"
      PROVE  /\ Home(r) = ActionScope[r]
             /\ DependsOn[r] = {} => Home(r) = RootScope
             /\ \A d \in DepRefs(r) : ActionScope[d] = Home(r)
  <2>1. r \notin Openers /\ r \notin Closers BY <1>1 DEF Openers, Closers
  <2>2. Home(r) = ActionScope[r] BY <1>1, <2>1 DEF Home
  <2>3. DependsOn[r] = {} => ActionScope[r] = RootScope
    BY <2>1, ScopesDefined DEF AssignedScope, ReachedIn
  <2>4. \A d \in DepRefs(r) : ActionScope[d] = ActionScope[r]
    BY <1>1, <1>v, <2>1 DEF ScopeDependenciesValid
  <2> QED BY <2>2, <2>3, <2>4
<1>2. ASSUME NEW r \in Refs, Action[r] = "scatter"
      PROVE  /\ ActionScope[r] = r /\ Home(r) = ParentScope(r)
             /\ DependsOn[r] = {} => Home(r) = RootScope
             /\ \A d \in DepRefs(r) : ActionScope[d] = Home(r)
  <2>1. r \in Openers /\ r \notin Closers BY <1>2 DEF Openers, Closers
  <2>2. ActionScope[r] = r BY <2>1, ScopesDefined DEF AssignedScope
  <2>3. Home(r) = ParentScope(r) BY <1>2, <2>1 DEF Home
  <2>4. DependsOn[r] = {} => ParentScope(r) = RootScope BY DEF ParentScope, ReachedIn
  <2>5. \A d \in DepRefs(r) : ActionScope[d] = ParentScope(r)
    BY <1>2, <1>v, <2>1 DEF ScopeDependenciesValid
  <2> QED BY <2>2, <2>3, <2>4, <2>5
<1>3. ASSUME NEW r \in Refs, Action[r] = "gather"
      PROVE  /\ DependsOn[r] # {} /\ Home(r) = ClosedScope(r) /\ ClosedScope(r) \in Refs
             /\ Action[ClosedScope(r)] = "scatter" /\ ActionScope[r] = Home(ClosedScope(r))
             /\ \A d \in DepRefs(r) : ActionScope[d] = Home(r)
  <2>1. r \in Closers /\ r \notin Openers BY <1>3 DEF Closers, Openers
  <2>2. DependsOn[r] # {} /\ ClosedScope(r) \in Refs /\ Action[ClosedScope(r)] = "scatter"
    BY <1>3, <1>v, <2>1 DEF ClosersMatchOpeners, OpenerOf
  <2>3. Home(r) = ClosedScope(r) BY <1>3, <2>1 DEF Home
  <2>4. ActionScope[r] = ParentScope(ClosedScope(r))
    <3>1. ReachedIn(r, ActionScope) = ClosedScope(r) BY <2>2 DEF ReachedIn, ClosedScope
    <3>2. ActionScope[r] = ReachedIn(ReachedIn(r, ActionScope), ActionScope)
      BY <2>1, ScopesDefined DEF AssignedScope
    <3> QED BY <3>1, <3>2 DEF ParentScope
  <2>5. Home(ClosedScope(r)) = ParentScope(ClosedScope(r)) BY <1>2, <2>2
  <2>6. \A d \in DepRefs(r) : ActionScope[d] = ClosedScope(r) BY <1>3 DEF Regular, AllGathered
  <2> QED BY <2>2, <2>3, <2>4, <2>5, <2>6
<1>4. ASSUME NEW r \in Refs
      PROVE  /\ DependsOn[r] = {} => Home(r) = RootScope
             /\ \A d \in DepRefs(r) : ActionScope[d] = Home(r)
  BY <1>k, <1>1, <1>2, <1>3
<1> QED BY <1>a, <1>1, <1>2, <1>3, <1>4

\* The scatters around a scope.
LEMMA AroundIs ==
    ASSUME Regular
    PROVE  /\ Around(RootScope) = {}
           /\ \A r \in Refs : Action[r] = "scatter" => Around(r) = {r} \cup Around(Home(r))
           /\ \A r \in Refs : ScatterScopes[r] = Around(Home(r))
<1>1. Around(RootScope) = {}
  <2>1. ParentScope(RootScope) = NoScope BY RefsAreSlugs DEF ParentScope, ReachedIn
  <2>2. EnclosingScopes[RootScope] = {RootScope} BY <2>1, ScopesDefined
  <2> QED BY <2>2, RefsAreSlugs DEF Around
<1>2. ASSUME NEW r \in Refs, Action[r] = "scatter" PROVE Around(r) = {r} \cup Around(Home(r))
  <2>1. Home(r) = ParentScope(r) BY <1>2 DEF Home, Openers
  <2>2. EnclosingScopes[r] = {r} \cup EnclosingScopes[ParentScope(r)] BY ScopesDefined
  <2> QED BY <1>2, <2>1, <2>2 DEF Around
<1>3. ASSUME NEW r \in Refs PROVE ScatterScopes[r] = Around(Home(r))
  BY DEF ScatterScopes, Around, Home
<1> QED BY <1>1, <1>2, <1>3

\* A scatter is not in its own scope.
LEMMA HomeIsAround ==
    ASSUME Regular, NEW w \in Workflows, NEW s \in w, Action[s] = "scatter"
    PROVE  Home(s) # s
<1> SUFFICES ASSUME Home(s) = s PROVE FALSE OBVIOUS
<1> DEFINE In(r) == s \in Around(ActionScope[r])
           some == {r \in w : In(r)}
<1>0. w \subseteq Refs BY GraphType
<1>1. ASSUME NEW r \in some PROVE \E d \in DepRefs(r) : In(d)
  <2>1. r \in Refs /\ r \in w /\ s \in Refs BY <1>0
  <2>2. CASE Action[r] = "action"
    <3>1. s \in Around(Home(r)) BY <2>1, <2>2, Scoping
    <3>2. DependsOn[r] # {} BY <2>1, <3>1, Scoping, AroundIs
    <3>3. PICK d \in DepRefs(r) : TRUE BY <3>2 DEF DepRefs
    <3> QED BY <2>1, <3>1, <3>3, Scoping
  <2>3. CASE Action[r] = "scatter"
    <3>1. s \in Around(Home(r))
      <4>1. ActionScope[r] = r /\ Around(r) = {r} \cup Around(Home(r)) BY <2>1, <2>3, Scoping, AroundIs
      <4>2. s \in Around(s) BY <2>1, AroundIs
      <4> QED BY <4>1, <4>2
    <3>2. DependsOn[r] # {} BY <2>1, <3>1, Scoping, AroundIs
    <3>3. PICK d \in DepRefs(r) : TRUE BY <3>2 DEF DepRefs
    <3> QED BY <2>1, <3>1, <3>3, Scoping
  <2>4. CASE Action[r] = "gather"
    <3>1. s \in Around(Home(r))
      <4>1. /\ Home(r) = ClosedScope(r) /\ ClosedScope(r) \in Refs
            /\ Action[ClosedScope(r)] = "scatter" /\ ActionScope[r] = Home(ClosedScope(r))
        BY <2>1, <2>4, Scoping
      <4>2. Around(ClosedScope(r)) = {ClosedScope(r)} \cup Around(Home(ClosedScope(r))) BY <4>1, AroundIs
      <4> QED BY <4>1, <4>2
    <3>2. DependsOn[r] # {} BY <2>1, <3>1, Scoping, AroundIs
    <3>3. PICK d \in DepRefs(r) : TRUE BY <3>2 DEF DepRefs
    <3> QED BY <2>1, <3>1, <3>3, Scoping
  <2> QED BY <2>1, <2>2, <2>3, <2>4 DEF Regular
<1>2. ASSUME NEW r \in w, NEW d \in DepRefs(r) PROVE d \in w
  BY <1>0, GraphType DEF DepRefs
<1>3. s \in some
  <2>1. ActionScope[s] = s /\ Around(s) = {s} \cup Around(Home(s)) BY <1>0, Scoping, AroundIs
  <2> QED BY <2>1
<1>4. some \in (SUBSET w) \ {{}} BY <1>3
<1>5. PICK r \in some : DepRefs(r) \cap some = {} BY <1>4, AcyclicDSL
<1>6. PICK d \in DepRefs(r) : In(d) BY <1>1
<1> QED BY <1>2, <1>5, <1>6

-----------------------------------------------------------------------------
(* What _queue_tasks does to edges that have no marker yet.                *)

\* x.ref leads to n, which has not begun and has no pending edge left.
Follows(n, x) ==
    /\ n \in Task /\ n.sid = x.sid /\ x.ref \in DepRefs(n.ref)
    /\ InEdges(n) \subseteq Marked' /\ InEdges(n) # {} /\ n \notin Begun

LEMMA EdgesLeave ==
    ASSUME NEW x \in Task
    PROVE  \A e \in OutEdges(x) : /\ e.src = x.ref /\ e.sid = x.sid /\ T(e.src, e.sid) = x
                                  /\ T(e.dst, e.sid) \in Task /\ x.ref \in DepRefs(e.dst)
<1> TAKE e \in OutEdges(x)
<1>1. PICK a \in Adj(x.ref) : e = [src |-> x.ref, dst |-> a[1], type |-> a[2], sid |-> x.sid]
  BY DEF OutEdges
<1>2. a[1] \in Refs /\ <<x.ref, a[2]>> \in DependsOn[a[1]] BY DEF Adj
<1>3. x.ref \in DepRefs(a[1]) BY <1>2 DEF DepRefs
<1>4. T(x.ref, x.sid) = x BY DEF T, Task
<1> QED BY <1>1, <1>2, <1>3, <1>4, TaskType

\* All of these edges get a marker, and every indegree still counts the pending
\* edges.
LEMMA MarksOnce ==
    ASSUME Typed, CountsOK, NEW x \in Task, OutEdges(x) \cap Marked = {},
           NEW unreachable \in SUBSET OutEdges(x), QueueTasks(x, unreachable)
    PROVE  /\ Marked' = Marked \cup OutEdges(x)
           /\ visited \subseteq visited' /\ skipped \subseteq skipped'
           /\ unreachable \subseteq skipped'
           /\ unreachable = {} => OutEdges(x) \subseteq visited'
           /\ \A e \in Marked' : e \in OutEdges(T(e.src, e.sid)) /\ T(e.dst, e.sid) \in DOMAIN indegrees'
           /\ \A n \in DOMAIN indegrees' : indegrees'[n] = Cardinality(InEdges(n) \ Marked')
           /\ \A n \in DOMAIN Decremented(x) :
                  /\ n \in DOMAIN indegrees' /\ indegrees'[n] = Decremented(x)[n]
                  /\ InEdges(n) \cap OutEdges(x) # {} /\ n.sid = x.sid /\ x.ref \in DepRefs(n.ref)
<1> DEFINE next == Decremented(x)
<1>1. \A e \in OutEdges(x) : /\ e.src = x.ref /\ e.sid = x.sid /\ T(e.src, e.sid) = x
                             /\ T(e.dst, e.sid) \in Task /\ x.ref \in DepRefs(e.dst)
  BY EdgesLeave
<1>2. /\ visited' = (visited \cup OutEdges(x)) \ unreachable
      /\ skipped' = (skipped \ OutEdges(x)) \cup unreachable
  BY DEF QueueTasks
<1>3. /\ Marked' = Marked \cup OutEdges(x)
      /\ visited \subseteq visited' /\ skipped \subseteq skipped' /\ unreachable \subseteq skipped'
      /\ unreachable = {} => OutEdges(x) \subseteq visited'
  BY <1>2 DEF Marked
<1>4. DOMAIN next = {T(e.dst, e.sid) : e \in OutEdges(x)} BY DEF Decremented
<1>5. DOMAIN next \subseteq Task BY <1>1, <1>4
<1>6. /\ DOMAIN indegrees' = DOMAIN indegrees \cup DOMAIN next
      /\ \A n \in DOMAIN indegrees' :
             indegrees'[n] = IF n \in DOMAIN next THEN next[n] ELSE indegrees[n]
  <2>1. indegrees' = [n \in DOMAIN indegrees \cup DOMAIN next |->
                         IF n \in DOMAIN next THEN next[n] ELSE indegrees[n]]
    BY DEF QueueTasks
  <2> HIDE DEF next
  <2> QED BY <2>1
<1>7. ASSUME NEW n \in DOMAIN indegrees'
      PROVE  /\ indegrees'[n] = Cardinality(InEdges(n) \ Marked')
             /\ n \in DOMAIN next => /\ InEdges(n) \cap OutEdges(x) # {}
                                     /\ n.sid = x.sid /\ x.ref \in DepRefs(n.ref)
  <2>0. n \in Task BY <1>5, <1>6 DEF Typed, MarksOK
  <2> DEFINE old == IF n \in DOMAIN indegrees THEN indegrees[n] ELSE Cardinality(DependsOn[n.ref])
  <2>1. old = Cardinality(InEdges(n) \ Marked)
    <3>1. CASE n \in DOMAIN indegrees BY <3>1 DEF CountsOK
    <3>2. CASE n \notin DOMAIN indegrees
      <4>1. InEdges(n) \cap Marked = {}
        <5> SUFFICES ASSUME NEW e \in InEdges(n), e \in Marked PROVE FALSE OBVIOUS
        <5>1. e.dst = n.ref /\ e.sid = n.sid BY <2>0, InEdgesAre
        <5>2. T(e.dst, e.sid) = n BY <2>0, <5>1 DEF T, Task
        <5> QED BY <3>2, <5>2 DEF CountsOK
      <4>2. InEdges(n) \ Marked = InEdges(n) BY <4>1
      <4> QED BY <2>0, <3>2, <4>2, InEdgesAre
    <3> QED BY <3>1, <3>2
  <2>2. IsFiniteSet(InEdges(n) \ Marked) BY <2>0, InEdgesAre, FS_Subset
  <2>3. InEdges(n) \ Marked' = (InEdges(n) \ Marked) \ OutEdges(x) BY <1>3
  <2>4. (InEdges(n) \ Marked) \cap OutEdges(x) = InEdges(n) \cap OutEdges(x) OBVIOUS
  <2>5. Cardinality(InEdges(n) \ Marked')
            = Cardinality(InEdges(n) \ Marked) - Cardinality(InEdges(n) \cap OutEdges(x))
    BY <2>2, <2>3, <2>4, FS_Difference
  <2>6. CASE n \in DOMAIN next
    <3>1. PICK e \in OutEdges(x) : n = T(e.dst, e.sid) BY <1>4, <2>6
    <3>2. e.sid = x.sid /\ n.sid = x.sid /\ e.dst = n.ref BY <1>1, <3>1 DEF T
    <3>3. InEdges(n) \cap OutEdges(x) = {y \in OutEdges(x) : y.dst = n.ref}
      BY <2>0, <3>2, InEdgesAre
    <3>4. next[n] = old - Cardinality({y \in OutEdges(x) : y.dst = n.ref})
      BY <1>4, <2>6 DEF Decremented
    <3>5. e \in InEdges(n) \cap OutEdges(x) /\ x.ref \in DepRefs(n.ref) BY <1>1, <3>2, <3>3
    <3> HIDE DEF next, old
    <3> QED BY <1>6, <2>1, <2>5, <2>6, <3>2, <3>3, <3>4, <3>5
  <2>7. CASE n \notin DOMAIN next
    <3>1. InEdges(n) \cap OutEdges(x) = {}
      <4> SUFFICES ASSUME NEW e \in InEdges(n), e \in OutEdges(x) PROVE FALSE OBVIOUS
      <4>1. e.dst = n.ref /\ e.sid = n.sid BY <2>0, InEdgesAre
      <4>2. T(e.dst, e.sid) = n BY <2>0, <4>1 DEF T, Task
      <4> QED BY <1>4, <2>7, <4>2
    <3>2. Cardinality(InEdges(n) \cap OutEdges(x)) = 0 BY <3>1, FS_EmptySet
    <3>3. Cardinality(InEdges(n) \ Marked) \in Nat BY <2>2, FS_CardinalityType
    <3>4. indegrees'[n] = old BY <1>6, <2>7
    <3> HIDE DEF next, old
    <3> QED BY <2>1, <2>5, <2>7, <3>2, <3>3, <3>4
  <2> QED BY <2>6, <2>7
<1>8. ASSUME NEW e \in Marked'
      PROVE  e \in OutEdges(T(e.src, e.sid)) /\ T(e.dst, e.sid) \in DOMAIN indegrees'
  <2>1. CASE e \in OutEdges(x) BY <1>1, <1>4, <1>6, <2>1
  <2>2. CASE e \in Marked BY <1>6, <2>2 DEF CountsOK
  <2> QED BY <1>3, <2>1, <2>2
<1> HIDE DEF next
<1>9. \A n \in DOMAIN next : /\ n \in DOMAIN indegrees' /\ indegrees'[n] = next[n]
                             /\ InEdges(n) \cap OutEdges(x) # {} /\ n.sid = x.sid /\ x.ref \in DepRefs(n.ref)
  BY <1>6, <1>7
<1> QED BY <1>3, <1>7, <1>8, <1>9 DEF next

\* The tasks that are queued follow x and are queued once.
LEMMA QueuesOnce ==
    ASSUME Typed, CountsOK, NEW x \in Task, OutEdges(x) \cap Marked = {},
           NEW unreachable \in SUBSET OutEdges(x), QueueTasks(x, unreachable)
    PROVE  /\ Queued \subseteq Queued'
           /\ \A n \in Queued' : n \in Queued \/ Follows(n, x)
           /\ \A i, j \in DOMAIN queue' : queue'[i] = queue'[j] => i = j
<1> DEFINE next == Decremented(x)
<1>1. /\ \A n \in DOMAIN indegrees' : indegrees'[n] = Cardinality(InEdges(n) \ Marked')
      /\ \A n \in DOMAIN next :
             /\ n \in DOMAIN indegrees' /\ indegrees'[n] = next[n]
             /\ InEdges(n) \cap OutEdges(x) # {} /\ n.sid = x.sid /\ x.ref \in DepRefs(n.ref)
  BY MarksOnce
<1>2. PICK q \in InAdjOrder(Ready(next)) : queue' = queue \o q BY DEF QueueTasks
<1>3. Ready(next) \in SUBSET Task /\ IsFiniteSet(Ready(next)) /\ Ready(next) \subseteq DOMAIN next
  <2>1. DOMAIN next \in SUBSET Task /\ IsFiniteSet(DOMAIN next) BY DecrementedType DEF Typed
  <2> QED BY <2>1, FS_Subset DEF Ready
<1>4. \A n \in Ready(next) : next[n] = 0 BY DEF Ready
<1> HIDE DEF next
<1>5. ASSUME NEW n \in Ready(next) PROVE Follows(n, x)
  <2>1. n \in Task /\ n \in DOMAIN next BY <1>3
  <2>2. Cardinality(InEdges(n) \ Marked') = 0 BY <1>1, <1>4, <2>1
  <2>3. IsFiniteSet(InEdges(n) \ Marked') BY <2>1, InEdgesAre, FS_Subset
  <2>4. InEdges(n) \ Marked' = {} BY <2>2, <2>3, FS_EmptySet
  <2>5. n \notin Begun BY <1>1, <2>1 DEF CountsOK
  <2> QED BY <1>1, <2>1, <2>4, <2>5 DEF Follows
<1>6. /\ q \in Seq(Task)
      /\ \A i \in DOMAIN q : q[i] \in Ready(next)
      /\ \A i, j \in DOMAIN q : q[i] = q[j] => i = j
  BY <1>3, InAdjOrderType, InAdjOrderOnce
<1>7. /\ queue \in Seq(Task)
      /\ \A i, j \in DOMAIN queue : queue[i] = queue[j] => i = j
  BY DEF Typed, MarksOK, CountsOK, ScheduledOnce
<1>8. \A i \in DOMAIN queue, j \in DOMAIN q : queue[i] # q[j]
  BY <1>5, <1>6 DEF Follows, Begun, Active, Queued
<1>9. /\ \A i \in DOMAIN (queue \o q) :
             \/ \E j \in DOMAIN queue : (queue \o q)[i] = queue[j]
             \/ \E j \in DOMAIN q : (queue \o q)[i] = q[j]
      /\ \A i, j \in DOMAIN (queue \o q) : (queue \o q)[i] = (queue \o q)[j] => i = j
  BY <1>6, <1>7, <1>8, QueuedAfter
<1>10. \A n \in Queued' : n \in Queued \/ Follows(n, x)
  BY <1>2, <1>5, <1>6, <1>9 DEF Queued
<1>11. Queued \subseteq Queued'
  <2>1. \A i \in DOMAIN queue : i \in DOMAIN (queue \o q) /\ (queue \o q)[i] = queue[i]
    BY <1>6, <1>7
  <2> QED BY <1>2, <2>1 DEF Queued
<1> QED BY <1>2, <1>9, <1>10, <1>11

-----------------------------------------------------------------------------
(* What the invariant says of tasks, edges, streams and gathers.           *)

\* A coroutine in flight is not queued again and has not completed.
LEMMA InflightIs ==
    ASSUME Typed, RInv, NEW t \in DOMAIN inflight
    PROVE  /\ t \in Task /\ t.ref \in Refs /\ t.sid \in Stream /\ T(t.ref, t.sid) = t
           /\ t \in Begun /\ t \in Active /\ t \notin completed /\ t \notin Queued
           /\ t.sid \in streams /\ Placed(t) /\ InEdges(t) \subseteq Marked
           /\ t.sid # Root => InEdges(t) # {}
           /\ t \notin DOMAIN open_streams
<1>1. t \in Task BY DEF Typed, ControlOK
<1>2. t.ref \in Refs /\ t.sid \in Stream /\ T(t.ref, t.sid) = t BY <1>1 DEF Task, T
<1>3. t \in Begun /\ t \in Active BY DEF Begun, Active
<1>4. t \notin completed /\ t \notin Queued BY <1>3 DEF RInv, CountsOK, ScheduledOnce
<1>5. /\ t.sid \in streams /\ Placed(t) /\ InEdges(t) \subseteq Marked
      /\ t.sid # Root => InEdges(t) # {}
  BY <1>3 DEF RInv, PlacesOK, CountsOK
<1>6. t \notin DOMAIN open_streams BY <1>4 DEF RInv, ScattersOK
<1> QED BY <1>1, <1>2, <1>3, <1>4, <1>5, <1>6

LEMMA BegunTasks ==
    ASSUME Typed
    PROVE  Begun \subseteq Task /\ Queued \subseteq Task /\ Active \subseteq Task
<1>1. Queued \subseteq Task BY DEF Typed, MarksOK, Queued
<1> QED BY <1>1 DEF Typed, ControlOK, Begun, Active

\* Markers are those of edges in streams that exist.
LEMMA EdgeStreams ==
    ASSUME Typed, RInv, Regular, NEW e \in Marked
    PROVE  e.sid \in streams
<1> DEFINE x == T(e.src, e.sid)
<1>1. e \in Edge BY DEF Marked, Typed, MarksOK
<1>2. x \in Task /\ x.sid = e.sid /\ x.ref = e.src /\ e.src \in Refs BY <1>1, TaskType DEF T, Edge
<1>3. Opened(x) BY DEF RInv, MarkersOK
<1>4. \A y \in completed : y.sid \in streams BY DEF RInv, PlacesOK, Begun
<1> HIDE DEF x
<1>5. CASE Action[x.ref] = "scatter" BY <1>2, <1>3, <1>5 DEF Opened
<1>6. CASE Action[x.ref] = "gather"
  <2>1. CASE Final(x.ref, x.sid)
    <3>1. <<x.ref, x.sid>> \in DOMAIN results BY <2>1 DEF Final
    <3>2. T(ClosedScope(x.ref), x.sid) \in DOMAIN open_streams
      BY <3>1 DEF RInv, GathersOK, ListFacts
    <3>3. T(ClosedScope(x.ref), x.sid) \in completed BY <3>2 DEF RInv, ScattersOK
    <3>4. T(ClosedScope(x.ref), x.sid).sid = x.sid BY DEF T
    <3> QED BY <1>2, <1>4, <3>3, <3>4
  <2> QED BY <1>2, <1>3, <1>4, <1>6, <2>1 DEF Opened
<1>7. CASE Action[x.ref] \notin {"scatter", "gather"} BY <1>2, <1>3, <1>4, <1>7 DEF Opened
<1> QED BY <1>5, <1>6, <1>7

\* A coroutine has streams only while it creates them.
LEMMA StreamsOfInflight ==
    ASSUME Typed, RInv, NEW t \in DOMAIN inflight, NEW sid \in streams, IsStreamOf(sid, t)
    PROVE  /\ At(t, "scattering") /\ t \in DOMAIN task_streams
           /\ ~Skips(sid) /\ Leaf(sid)[2] \in 0..task_streams[t] - 1
<1>1. sid # Root /\ ScatterOf(sid) = t BY DEF IsStreamOf
<1>2. StreamFacts(sid, t) BY <1>1 DEF RInv, StreamsOK
<1>3. t \notin completed BY InflightIs
<1>4. At(t, "scattering") BY <1>2, <1>3 DEF StreamFacts
<1>5. t \in DOMAIN task_streams BY <1>4 DEF At, RInv, ScattersOK
<1> QED BY <1>2, <1>3, <1>4, <1>5 DEF StreamFacts

\* The scatter around a stream has begun.
LEMMA ScatterBegun ==
    ASSUME Typed, RInv, NEW sid \in streams, sid # Root
    PROVE  LET k == ScatterOf(sid)
           IN  /\ k \in Task /\ k.ref = Leaf(sid)[1] /\ k.sid = Parent(sid) /\ k.ref = HomeOf(sid)
               /\ sid \in Stream /\ Action[k.ref] = "scatter" /\ k \in Begun /\ Placed(k)
               /\ k \in DOMAIN open_streams \/ At(k, "scattering") \/ Adrift(sid)
<1> DEFINE k == ScatterOf(sid)
<1>1. sid \in Stream BY DEF Typed, ScopesOK
<1>2. k \in Task /\ k.ref = Leaf(sid)[1] /\ k.sid = Parent(sid) /\ k.ref = HomeOf(sid) BY <1>1, StreamIs
<1>k. ScatterOf(sid) = k OBVIOUS
<1>3. StreamFacts(sid, k) BY DEF RInv, StreamsOK
<1> HIDE DEF k
<1>4. k \in Begun BY <1>3 DEF StreamFacts, At, Begun, Active
<1>5. Action[k.ref] = "scatter" /\ Placed(k) BY <1>3, <1>4 DEF StreamFacts, RInv, PlacesOK
<1>6. k \in DOMAIN open_streams \/ At(k, "scattering") \/ Adrift(sid)
  BY <1>3, <1>k DEF StreamFacts, RInv, ScattersOK, Adrift
<1> QED BY <1>1, <1>2, <1>4, <1>5, <1>6 DEF k

\* A gather is in a stream of the scatter it closes.
LEMMA GatherIn ==
    ASSUME Typed, RInv, Regular, NEW t \in Begun, Action[t.ref] = "gather"
    PROVE  /\ t.sid # Root
           /\ ~Adrift(t.sid) =>
                  /\ HomeOf(t.sid) = ClosedScope(t.ref)
                  /\ ScatterOf(t.sid) = T(ClosedScope(t.ref), Parent(t.sid))
<1>1. t \in Task /\ t.ref \in Refs /\ t.sid \in Stream BY BegunTasks DEF Task
<1>2. Placed(t) BY DEF RInv, PlacesOK
<1>3. Home(t.ref) = ClosedScope(t.ref) /\ ClosedScope(t.ref) # RootScope
  BY <1>1, Scoping, RefsAreSlugs
<1>4. t.sid # Root BY <1>2, <1>3 DEF Placed, Adrift, Skips, HomeOf
<1>5. ASSUME ~Adrift(t.sid)
      PROVE  /\ HomeOf(t.sid) = ClosedScope(t.ref)
             /\ ScatterOf(t.sid) = T(ClosedScope(t.ref), Parent(t.sid))
  <2>1. HomeOf(t.sid) = ClosedScope(t.ref) BY <1>2, <1>3, <1>5 DEF Placed
  <2>2. Leaf(t.sid)[1] = ClosedScope(t.ref) BY <1>4, <2>1 DEF HomeOf
  <2> QED BY <2>1, <2>2 DEF ScatterOf
<1> QED BY <1>4, <1>5

\* The final list of a gather is that of a scatter that has completed, whose
\* streams are quiet.
LEMMA FinalIs ==
    ASSUME RInv, NEW h, NEW sid, Final(h, sid)
    PROVE  LET k == T(ClosedScope(h), sid)
           IN  /\ Action[h] = "gather" /\ k \in DOMAIN open_streams /\ k \in completed /\ k \in Begun
               /\ \A p \in streams : IsStreamOf(p, k) =>
                      T(h, p) \in completed /\ \A u \in Active : ~Within(u.sid, p)
<1> DEFINE key == <<h, sid>>
           k == T(ClosedScope(h), sid)
<1>1. key \in DOMAIN results BY DEF Final
<1>2. key[1] = h /\ key[2] = sid OBVIOUS
<1>3. ListFacts(key, T(ClosedScope(key[1]), key[2])) BY <1>1 DEF RInv, GathersOK
<1>4. ListFacts(key, k) BY <1>3
<1>5. k \in DOMAIN open_streams /\ Action[h] = "gather" BY <1>4 DEF ListFacts
<1>6. k \in completed /\ k \in Begun BY <1>5 DEF RInv, ScattersOK, Begun
<1>7. \A p \in streams : IsStreamOf(p, k) =>
          T(h, p) \in completed /\ \A u \in Active : ~Within(u.sid, p)
  <2> HIDE DEF k
  <2> QED BY <1>4, <1>2 DEF ListFacts
<1> QED BY <1>5, <1>6, <1>7

\* When the gather of a stream begins, nothing else is left in the stream and
\* in the streams below it.
LEMMA Alone ==
    ASSUME Typed, RInv, Regular, NEW g \in Refs, Action[g] = "gather", NEW sid \in streams,
           T(g, sid) \in Begun, ~Adrift(sid)
    PROVE  \A u \in Active : Within(u.sid, sid) => u = T(g, sid)
<1> DEFINE s == ClosedScope(g)
           Done(r) == \/ Action[r] = "action" /\ T(r, sid) \in completed
                      \/ \E h \in Refs : Action[h] = "gather" /\ ClosedScope(h) = r /\ Final(h, sid)
           X == {r \in Level(s) : r = g \/ Done(r)}
<1>1. sid \in Stream /\ T(g, sid) \in Task /\ T(g, sid).ref = g /\ T(g, sid).sid = sid
  BY TaskType DEF Typed, ScopesOK, T
<1>2. HomeOf(sid) = s /\ s \in Refs /\ Action[s] = "scatter" /\ Home(g) = s
  BY <1>1, GatherIn, Scoping
<1>3. \A r \in Level(s) : r \in Refs /\ Home(r) = s BY DEF Level
<1>4. g \in X BY <1>2 DEF Level
<1>5. ASSUME NEW r \in X PROVE T(r, sid) \in Begun
  <2>1. CASE r = g BY <2>1
  <2>2. CASE Action[r] = "action" /\ T(r, sid) \in completed BY <2>2 DEF Begun
  <2>3. ASSUME NEW h \in Refs, ClosedScope(h) = r, Final(h, sid) PROVE T(r, sid) \in Begun
    BY <2>3, FinalIs
  <2> QED BY <2>1, <2>2, <2>3
<1>6. ASSUME NEW q \in X, NEW d \in DepRefs(q), Before(d) \in Level(s)
      PROVE  Before(d) \in X
  <2>1. q \in Refs /\ T(q, sid) \in Begun BY <1>3, <1>5
  <2>2. d \in Refs BY <2>1, Scoping
  <2>3. Opened(T(d, sid))
    <3>1. PICK dep \in DependsOn[q] : d = dep[1] BY DEF DepRefs
    <3>2. [src |-> d, dst |-> q, type |-> dep[2], sid |-> sid] \in InEdges(T(q, sid))
      BY <3>1 DEF InEdges, T
    <3>3. InEdges(T(q, sid)) \subseteq Marked BY <2>1 DEF RInv, CountsOK
    <3> QED BY <3>2, <3>3 DEF RInv, MarkersOK
  <2>4. T(d, sid).ref = d /\ T(d, sid).sid = sid BY DEF T
  <2>5. CASE Action[d] = "action"
    <3>1. T(d, sid) \in completed BY <2>3, <2>4, <2>5 DEF Opened
    <3>2. Before(d) = d BY <2>5 DEF Before
    <3> QED BY <1>6, <2>5, <3>1, <3>2
  <2>6. CASE Action[d] = "gather"
    <3>1. Final(d, sid) BY <2>3, <2>4, <2>6 DEF Opened
    <3>2. Before(d) = ClosedScope(d) BY <2>6 DEF Before
    <3>3. Done(Before(d)) BY <2>2, <2>6, <3>1, <3>2
    <3> QED BY <1>6, <3>3
  <2>7. CASE Action[d] = "scatter"
    <3>1. Before(d) = d BY <2>7 DEF Before
    <3>2. d = s BY <1>2, <2>3, <2>4, <2>7 DEF Opened, HomeOf
    <3>3. Home(s) = s BY <1>3, <1>6, <3>1, <3>2
    <3>4. PICK w \in Workflows : \A t \in Begun : t.ref \in w BY DEF RInv, PlacesOK
    <3>5. q \in w BY <2>1, <3>4 DEF T
    <3>6. d \in w BY <2>1, <2>2, <3>5, GraphType DEF DepRefs
    <3> QED BY <1>2, <3>2, <3>3, <3>6, HomeIsAround
  <2> QED BY <2>2, <2>5, <2>6, <2>7 DEF Regular
<1>7. X = Level(s)
  <2>1. X \in {m \in SUBSET Level(s) : g \in m} BY <1>4
  <2>2. \A q \in X : \A d \in DepRefs(q) : Before(d) \in Level(s) => Before(d) \in X BY <1>6
  <2> HIDE DEF X
  <2> QED BY <2>1, <2>2 DEF Regular, AllGathered
<1>8. ASSUME NEW u \in Active, Within(u.sid, sid) PROVE u = T(g, sid)
  <2>1. u \in Task /\ u \in Begun /\ u.sid \in streams /\ u.ref \in Refs /\ u.sid \in Stream
    BY BegunTasks DEF Begun, RInv, PlacesOK, Task
  <2>2. u \notin completed BY DEF RInv, CountsOK
  <2>3. CASE u.sid = sid
    <3>1. u = T(u.ref, sid) BY <2>1, <2>3 DEF Task, T
    <3>2. Placed(u) BY <2>1 DEF RInv, PlacesOK
    <3>3. u.ref \in Level(s) BY <1>2, <2>1, <2>3, <3>2 DEF Placed, Level
    <3>4. u.ref = g \/ Done(u.ref) BY <1>7, <3>3
    <3>5. ASSUME NEW h \in Refs, ClosedScope(h) = u.ref, Final(h, sid) PROVE FALSE
      BY <2>2, <3>1, <3>5, FinalIs
    <3> QED BY <2>2, <3>1, <3>4, <3>5
  <2>4. CASE u.sid # sid
    <3>1. PICK p \in Stream : /\ p # Root /\ Parent(p) = sid /\ Within(u.sid, p)
                              /\ \E n \in 0..Len(u.sid) : p = SubSeq(u.sid, 1, n)
      BY <1>1, <1>8, <2>1, <2>4, WithinIs
    <3>2. p \in streams BY <2>1, <3>1 DEF RInv, StreamsOK
    <3> DEFINE k == ScatterOf(p)
    <3>3. /\ k \in Task /\ k.sid = sid /\ Action[k.ref] = "scatter" /\ k \in Begun /\ Placed(k)
      BY <3>1, <3>2, ScatterBegun
    <3>4. IsStreamOf(p, k) BY <3>1 DEF IsStreamOf
    <3> HIDE DEF k
    <3>5. k.ref \in Level(s) /\ k = T(k.ref, sid) BY <1>2, <3>3 DEF Placed, Level, Task, T
    <3>6. PICK h \in Refs : ClosedScope(h) = k.ref /\ Final(h, sid)
      <4>1. k.ref = g \/ Done(k.ref) BY <1>7, <3>5
      <4> QED BY <3>3, <4>1
    <3>7. ~Within(u.sid, p) BY <3>2, <3>4, <3>5, <3>6, FinalIs
    <3> QED BY <3>1, <3>7
  <2> QED BY <2>3, <2>4
<1> QED BY <1>8

-----------------------------------------------------------------------------
(* A step of a coroutine t: what it leaves alone (Keeps), the edges it may *)
(* mark and the tasks it may queue (Grown), and what becomes of t and of   *)
(* its streams (Own).                                                      *)

Keeps(t) ==
    /\ \A u \in DOMAIN inflight \ {t} : u \in DOMAIN inflight' /\ inflight'[u] = inflight[u]
    /\ DOMAIN inflight' \subseteq DOMAIN inflight
    /\ completed' = IF t \in DOMAIN inflight' THEN completed ELSE completed \cup {t}
    /\ delivered' \subseteq delivered /\ delivered' \subseteq DOMAIN inflight'
    /\ streams \subseteq streams'
    /\ DOMAIN task_streams \subseteq DOMAIN task_streams'
    /\ DOMAIN task_streams' \subseteq DOMAIN task_streams \cup {t}
    /\ \A k \in DOMAIN task_streams \ {t} : task_streams'[k] = task_streams[k]
    /\ DOMAIN open_streams \subseteq DOMAIN open_streams'
    /\ DOMAIN open_streams' \subseteq DOMAIN open_streams \cup {t}
    /\ \A g \in Refs, sid \in Stream : Final(g, sid) => Final(g, sid)'

\* The scatter around t is still creating its streams.
Fresh(t) == t.sid # Root /\ At(ScatterOf(t.sid), "scattering")

\* Where the step of t may mark edges: in its stream, in a stream of its own,
\* or in the stream around it.
Near(t, sid) ==
    \/ sid = t.sid /\ ~Fresh(t)
    \/ IsStreamOf(sid, t)
    \/ t.sid # Root /\ sid = Parent(t.sid) /\ T(ClosedScope(t.ref), sid) \in completed

Marking(t, x) ==
    /\ x \in Task /\ x.ref = t.ref
    /\ ~Opened(x) /\ Opened(x)'
    /\ x.sid \in streams' /\ (ActionScope[x.ref] = HomeOf(x.sid) \/ Adrift(x.sid)')
    /\ Near(t, x.sid)
    /\ \E unreachable \in SUBSET OutEdges(x) :
           /\ QueueTasks(x, unreachable)
           /\ Skips(x.sid) => unreachable = OutEdges(x)
           /\ At(t, "scattering")' => unreachable = {}

NewTask(t, n) ==
    /\ n \in Task /\ n \notin Begun /\ t.ref \in DepRefs(n.ref)
    /\ InEdges(n) \subseteq Marked' /\ InEdges(n) # {}
    /\ n.sid \in streams' /\ Placed(n)' /\ Near(t, n.sid)

NewMark(t, e) ==
    /\ Near(t, e.sid) /\ Opened(T(e.src, e.sid))'
    /\ Skips(e.sid) => e \in skipped'
    /\ At(t, "scattering")' => e \in visited'

Grown(t) ==
    /\ Queued \subseteq Queued' /\ Marked \subseteq Marked'
    /\ visited \subseteq visited' /\ skipped \subseteq skipped' /\ visited' \cap skipped' = {}
    /\ \A i, j \in DOMAIN queue' : queue'[i] = queue'[j] => i = j
    /\ \A e \in Marked' : e \in OutEdges(T(e.src, e.sid)) /\ T(e.dst, e.sid) \in DOMAIN indegrees'
    /\ \A n \in DOMAIN indegrees' : indegrees'[n] = Cardinality(InEdges(n) \ Marked')
    /\ \A n \in Queued' : n \in Queued \/ NewTask(t, n)
    /\ \A e \in Marked' : e \in Marked \/ NewMark(t, e)

Own(t) ==
    /\ \A sid \in streams' : sid \in streams \/ \E i \in Index : sid = NewStream(t.ref, i, t.sid)
    /\ \A sid \in streams' : IsStreamOf(sid, t) => StreamFacts(sid, t)'
    /\ t \in DOMAIN task_streams' =>
           /\ Action[t.ref] = "scatter" /\ ~Skips(t.sid) /\ Entered(t)
           /\ t \in DOMAIN open_streams' \/ At(t, "scattering")'
    /\ t \in DOMAIN open_streams' => t \in DOMAIN task_streams' /\ t \in completed'
    /\ At(t, "scattering")' => t \in DOMAIN task_streams' /\ task_streams'[t] = inflight'[t].made
    /\ t \in DOMAIN inflight' =>
           /\ Skips(t.sid) => inflight'[t].at \in {"new", "finalize_empty"}
           /\ inflight'[t].at = "finalize_empty" => Skips(t.sid) /\ ~Adrift(t.sid)
           /\ inflight'[t].at \in {"run_if", "execute", "collection", "scattering", "items"} => Entered(t)
    /\ Fresh(t) => /\ t \in DOMAIN inflight'
                   /\ inflight'[t].at \in {"new", "run_if", "execute", "collection", "items"}

\* Whether a stream is adrift does not change.
LEMMA AdriftKept ==
    ASSUME Typed, RInv, NEW t \in DOMAIN inflight, Keeps(t), NEW sid \in streams
    PROVE  Adrift(sid)' <=> Adrift(sid)
<1>1. DOMAIN open_streams \subseteq DOMAIN open_streams' /\ DOMAIN open_streams' \subseteq DOMAIN open_streams \cup {t}
  BY DEF Keeps
<1>2. Skips(sid) => ScatterOf(sid) # t BY StreamsOfInflight DEF IsStreamOf, Skips
<1> QED BY <1>1, <1>2 DEF Adrift

\* What has begun, is active and is marked afterwards.
LEMMA BegunAfter ==
    ASSUME Typed, RInv, NEW t \in DOMAIN inflight, Keeps(t), Grown(t)
    PROVE  /\ Begun \subseteq Begun' /\ completed \subseteq completed'
           /\ \A n \in Begun' : n \in Begun \/ NewTask(t, n)
           /\ \A n \in Active' : n \in Active \/ NewTask(t, n)
           /\ \A n \in Active \ {t} : n \in Active'
           /\ t \in Active' <=> t \in DOMAIN inflight'
           /\ \A n \in completed' : n \in completed \/ (n = t /\ t \notin DOMAIN inflight')
           /\ \A n \in Begun' : NewTask(t, n) => n \in Active' /\ n \notin DOMAIN inflight' /\ n \notin delivered'
<1>1. t \notin Queued /\ t \notin completed /\ t \in Begun /\ t \in Active BY InflightIs
<1>2. /\ \A u \in DOMAIN inflight \ {t} : u \in DOMAIN inflight'
      /\ DOMAIN inflight' \subseteq DOMAIN inflight
      /\ completed' = IF t \in DOMAIN inflight' THEN completed ELSE completed \cup {t}
      /\ delivered' \subseteq DOMAIN inflight'
  BY DEF Keeps
<1>3. Queued \subseteq Queued' /\ \A n \in Queued' : n \in Queued \/ NewTask(t, n) BY DEF Grown
<1>4. \A n : NewTask(t, n) => n \notin Begun BY DEF NewTask
<1>5. Begun = Queued \cup DOMAIN inflight \cup completed /\ Active = Queued \cup DOMAIN inflight
  BY DEF Begun, Active
<1>6. Begun' = Queued' \cup DOMAIN inflight' \cup completed' /\ Active' = Queued' \cup DOMAIN inflight'
  BY DEF Begun, Active
<1> QED BY <1>1, <1>2, <1>3, <1>4, <1>5, <1>6

LEMMA GrownSame ==
    ASSUME Typed, RInv, NEW t \in DOMAIN inflight, UNCHANGED marks
    PROVE  Grown(t)
<1>1. queue' = queue /\ indegrees' = indegrees /\ visited' = visited /\ skipped' = skipped BY DEF marks
<1>2. Queued' = Queued /\ Marked' = Marked BY <1>1 DEF Queued, Marked
<1> QED BY <1>1, <1>2 DEF Grown, RInv, CountsOK, MarkersOK, ScheduledOnce

LEMMA GrownMarking ==
    ASSUME Typed, RInv, Regular, NEW t \in DOMAIN inflight, Keeps(t), NEW x \in Task, Marking(t, x)
    PROVE  Grown(t)
<1>1. PICK unreachable \in SUBSET OutEdges(x) :
          /\ QueueTasks(x, unreachable)
          /\ Skips(x.sid) => unreachable = OutEdges(x)
          /\ At(t, "scattering")' => unreachable = {}
  BY DEF Marking
<1>2. \A e \in OutEdges(x) : /\ e.src = x.ref /\ e.sid = x.sid /\ T(e.src, e.sid) = x
  BY EdgesLeave
<1>3. OutEdges(x) \cap Marked = {} BY <1>2 DEF Marking, RInv, MarkersOK
<1>c. CountsOK BY DEF RInv
<1>4. /\ Marked' = Marked \cup OutEdges(x)
      /\ visited \subseteq visited' /\ skipped \subseteq skipped'
      /\ unreachable \subseteq skipped'
      /\ unreachable = {} => OutEdges(x) \subseteq visited'
      /\ \A e \in Marked' : e \in OutEdges(T(e.src, e.sid)) /\ T(e.dst, e.sid) \in DOMAIN indegrees'
      /\ \A n \in DOMAIN indegrees' : indegrees'[n] = Cardinality(InEdges(n) \ Marked')
  BY <1>1, <1>3, <1>c, MarksOnce
<1>5. /\ Queued \subseteq Queued'
      /\ \A n \in Queued' : n \in Queued \/ Follows(n, x)
      /\ \A i, j \in DOMAIN queue' : queue'[i] = queue'[j] => i = j
  BY <1>1, <1>3, <1>c, QueuesOnce
<1>6. visited' \cap skipped' = {}
  <2>1. /\ visited' = (visited \cup OutEdges(x)) \ unreachable
        /\ skipped' = (skipped \ OutEdges(x)) \cup unreachable
    BY <1>1 DEF QueueTasks
  <2> QED BY <2>1 DEF RInv, MarkersOK
<1>7. ASSUME NEW n \in Queued', Follows(n, x) PROVE NewTask(t, n)
  <2>1. n \in Task /\ n.sid = x.sid /\ x.ref \in DepRefs(n.ref) BY <1>7 DEF Follows
  <2>2. Home(n.ref) = ActionScope[x.ref] BY <2>1, Scoping, TaskType
  <2>3. Placed(n)' BY <2>1, <2>2 DEF Placed, Marking
  <2> QED BY <1>7, <2>1, <2>3 DEF Follows, NewTask, Marking
<1>8. ASSUME NEW e \in OutEdges(x) PROVE NewMark(t, e)
  BY <1>1, <1>2, <1>4 DEF NewMark, Marking
<1> QED BY <1>4, <1>5, <1>6, <1>7, <1>8 DEF Grown

-----------------------------------------------------------------------------
(* Every part of the invariant but the last holds after such a step.       *)

LEMMA PlacesKept ==
    ASSUME Typed, RInv, NEW t \in DOMAIN inflight, Keeps(t), Grown(t)
    PROVE  PlacesOK'
<1>1. \A n \in Begun' : n \in Begun \/ NewTask(t, n) BY BegunAfter
<1>2. PICK w \in Workflows : \A n \in Begun : n.ref \in w BY DEF RInv, PlacesOK
<1>3. ASSUME NEW n \in Begun', NewTask(t, n) PROVE n.ref \in w
  <2>1. t.ref \in w /\ t.ref \in Refs BY <1>2, InflightIs
  <2>2. n.ref \in Refs /\ t.ref \in DepRefs(n.ref) BY <1>3, TaskType DEF NewTask
  <2> QED BY <2>1, <2>2, GraphType DEF DepRefs
<1>4. ASSUME NEW n \in Begun
      PROVE  n.sid \in streams' /\ Placed(n)' /\ (n.sid # Root => InEdges(n) # {})
  <2>1. n.sid \in streams /\ Placed(n) /\ (n.sid # Root => InEdges(n) # {}) BY DEF RInv, PlacesOK
  <2>2. Adrift(n.sid)' <=> Adrift(n.sid) BY <2>1, AdriftKept
  <2>3. n.sid \in streams' BY <2>1 DEF Keeps
  <2> QED BY <2>1, <2>2, <2>3 DEF Placed
<1>5. ASSUME NEW n \in Begun', NewTask(t, n)
      PROVE  n.sid \in streams' /\ Placed(n)' /\ (n.sid # Root => InEdges(n) # {})
  BY <1>5 DEF NewTask
<1>6. \A n \in Begun' : n.ref \in w BY <1>1, <1>2, <1>3
<1>7. \A n \in Begun' : n.sid \in streams' /\ Placed(n)' /\ (n.sid # Root => InEdges(n) # {})
  BY <1>1, <1>4, <1>5
<1> QED BY <1>6, <1>7 DEF PlacesOK

LEMMA CountsKept ==
    ASSUME Typed, RInv, NEW t \in DOMAIN inflight, Keeps(t), Grown(t)
    PROVE  CountsOK'
<1>1. /\ \A n \in Begun' : n \in Begun \/ NewTask(t, n)
      /\ \A n \in Active' : n \in Active \/ NewTask(t, n)
      /\ t \in Active' <=> t \in DOMAIN inflight'
      /\ \A n \in completed' : n \in completed \/ (n = t /\ t \notin DOMAIN inflight')
  BY BegunAfter
<1>2. \A n : NewTask(t, n) => n \notin Begun /\ InEdges(n) \subseteq Marked' BY DEF NewTask
<1>3. \A n \in Begun : InEdges(n) \subseteq Marked' BY DEF RInv, CountsOK, Grown
<1>4. \A n \in Begun' : InEdges(n) \subseteq Marked' BY <1>1, <1>2, <1>3
<1>5. Active' \cap completed' = {}
  <2>1. Active \cap completed = {} /\ t \in Begun BY InflightIs DEF RInv, CountsOK
  <2>2. completed \subseteq Begun BY DEF Begun
  <2> QED BY <1>1, <1>2, <2>1, <2>2
<1>6. ScheduledOnce'
  <2>1. Queued' \cap DOMAIN inflight' = {}
    <3>1. Queued \cap DOMAIN inflight = {} BY DEF RInv, CountsOK, ScheduledOnce
    <3>2. DOMAIN inflight' \subseteq DOMAIN inflight BY DEF Keeps
    <3>3. DOMAIN inflight \subseteq Begun BY DEF Begun, Active
    <3>4. \A n \in Queued' : n \in Queued \/ NewTask(t, n) BY DEF Grown
    <3> QED BY <1>2, <3>1, <3>2, <3>3, <3>4
  <2> QED BY <2>1 DEF ScheduledOnce, Grown
<1> QED BY <1>4, <1>5, <1>6 DEF CountsOK, Grown

\* What has been opened stays open.
LEMMA OpenedKept ==
    ASSUME Typed, RInv, NEW t \in DOMAIN inflight, Keeps(t), NEW x \in Task, Opened(x)
    PROVE  Opened(x)'
<1>1. streams \subseteq streams' /\ completed \subseteq completed' BY DEF Keeps
<1>2. CASE Action[x.ref] = "scatter" BY <1>1, <1>2 DEF Opened
<1>3. CASE Action[x.ref] = "gather"
  <2>1. CASE Final(x.ref, x.sid)
    <3>1. Final(x.ref, x.sid)' BY <2>1, TaskType DEF Keeps
    <3> QED BY <1>3, <3>1 DEF Opened
  <2>2. CASE x \in completed /\ Adrift(x.sid)
    <3>1. x.sid \in streams BY <2>2 DEF RInv, PlacesOK, Begun
    <3>2. Adrift(x.sid)' BY <2>2, <3>1, AdriftKept
    <3> QED BY <1>1, <1>3, <2>2, <3>2 DEF Opened
  <2> QED BY <1>3, <2>1, <2>2 DEF Opened
<1>4. CASE Action[x.ref] \notin {"scatter", "gather"} BY <1>1, <1>4 DEF Opened
<1> QED BY <1>2, <1>3, <1>4

LEMMA MarkersKept ==
    ASSUME Typed, RInv, NEW t \in DOMAIN inflight, Keeps(t), Grown(t)
    PROVE  MarkersOK'
<1>1. ASSUME NEW e \in Marked PROVE Opened(T(e.src, e.sid))' /\ (Skips(e.sid) => e \in skipped')
  <2>1. Opened(T(e.src, e.sid)) /\ (Skips(e.sid) => e \in skipped) BY DEF RInv, MarkersOK
  <2>2. e \in Edge BY DEF Marked, Typed, MarksOK
  <2>3. T(e.src, e.sid) \in Task BY <2>2, TaskType DEF Edge
  <2> QED BY <2>1, <2>3, OpenedKept DEF Grown
<1>2. \A e \in Marked' : e \in Marked \/ NewMark(t, e) BY DEF Grown
<1>3. \A e : NewMark(t, e) => Opened(T(e.src, e.sid))' /\ (Skips(e.sid) => e \in skipped') BY DEF NewMark
<1>4. visited' \cap skipped' = {} BY DEF Grown
<1>5. \A e \in Marked' : Opened(T(e.src, e.sid))' /\ (Skips(e.sid) => e \in skipped') BY <1>1, <1>2, <1>3
<1> QED BY <1>4, <1>5 DEF MarkersOK

LEMMA StreamsKept ==
    ASSUME Typed, RInv, NEW t \in DOMAIN inflight, Keeps(t), Own(t)
    PROVE  StreamsOK'
<1>1. streams \subseteq streams' /\ completed \subseteq completed' BY DEF Keeps
<1>2. Root \in streams' BY <1>1 DEF RInv, StreamsOK
<1>3. ASSUME NEW sid \in streams', NEW n \in 0..Len(sid) PROVE SubSeq(sid, 1, n) \in streams'
  <2>1. CASE sid \in streams BY <1>1, <2>1 DEF RInv, StreamsOK
  <2>2. ASSUME NEW i \in Index, sid = NewStream(t.ref, i, t.sid) PROVE SubSeq(sid, 1, n) \in streams'
    <3>1. t.ref \in Refs /\ t.sid \in Stream /\ t.sid \in streams BY InflightIs
    <3>2. SubSeq(sid, 1, n) = sid \/ \E m \in 0..Len(t.sid) : SubSeq(sid, 1, n) = SubSeq(t.sid, 1, m)
      BY <2>2, <3>1, NewStreamIs
    <3> QED BY <1>1, <3>1, <3>2 DEF RInv, StreamsOK
  <2> QED BY <2>1, <2>2 DEF Own
<1>4. ASSUME NEW sid \in streams' \ {Root} PROVE StreamFacts(sid, ScatterOf(sid))'
  <2>1. CASE IsStreamOf(sid, t) BY <2>1 DEF Own, IsStreamOf
  <2>2. CASE ~IsStreamOf(sid, t)
    <3> DEFINE k == ScatterOf(sid)
    <3>1. k # t BY <2>2 DEF IsStreamOf
    <3>2. sid \in streams
      <4>1. ASSUME NEW i \in Index, sid = NewStream(t.ref, i, t.sid) PROVE FALSE
        <5>1. t.ref \in Refs /\ t.sid \in Stream /\ T(t.ref, t.sid) = t BY InflightIs
        <5> QED BY <3>1, <4>1, <5>1, NewStreamIs
      <4> QED BY <4>1 DEF Own
    <3>3. StreamFacts(sid, k) BY <3>2 DEF RInv, StreamsOK
    <3> HIDE DEF k
    <3>4. At(k, "scattering") => At(k, "scattering")' BY <3>1 DEF At, Keeps
    <3>5. /\ k \in DOMAIN task_streams' <=> k \in DOMAIN task_streams
          /\ k \in DOMAIN task_streams => task_streams'[k] = task_streams[k]
      BY <3>1 DEF Keeps
    <3>6. StreamFacts(sid, k)' BY <1>1, <3>3, <3>4, <3>5 DEF StreamFacts
    <3> QED BY <3>6 DEF k
  <2> QED BY <2>1, <2>2
<1> QED BY <1>2, <1>3, <1>4 DEF StreamsOK

LEMMA ScattersKept ==
    ASSUME Typed, RInv, NEW t \in DOMAIN inflight, Keeps(t), Grown(t), Own(t)
    PROVE  ScattersOK'
<1>1. completed \subseteq completed' BY DEF Keeps
<1>2. ASSUME NEW k \in DOMAIN task_streams'
      PROVE  /\ Action[k.ref] = "scatter" /\ ~Skips(k.sid) /\ Entered(k)'
             /\ k \in DOMAIN open_streams' \/ At(k, "scattering")'
  <2>1. CASE k = t BY <2>1 DEF Own, Grown, Entered
  <2>2. CASE k # t
    <3>1. k \in DOMAIN task_streams BY <2>2 DEF Keeps
    <3>2. /\ Action[k.ref] = "scatter" /\ ~Skips(k.sid) /\ Entered(k)
          /\ k \in DOMAIN open_streams \/ At(k, "scattering")
      BY <3>1 DEF RInv, ScattersOK
    <3>3. Entered(k)' BY <3>2 DEF Entered, Grown
    <3> QED BY <2>2, <3>2, <3>3 DEF At, Keeps
  <2> QED BY <2>1, <2>2
<1>3. ASSUME NEW k \in DOMAIN open_streams' PROVE k \in DOMAIN task_streams' /\ k \in completed'
  <2>1. CASE k = t BY <2>1 DEF Own
  <2>2. CASE k # t
    <3>1. k \in DOMAIN open_streams BY <2>2 DEF Keeps
    <3>2. k \in DOMAIN task_streams /\ k \in completed BY <3>1 DEF RInv, ScattersOK
    <3> QED BY <1>1, <3>2 DEF Keeps
  <2> QED BY <2>1, <2>2
<1>4. ASSUME NEW k \in DOMAIN inflight', inflight'[k].at = "scattering"
      PROVE  k \in DOMAIN task_streams' /\ task_streams'[k] = inflight'[k].made
  <2>1. CASE k = t BY <1>4, <2>1 DEF Own, At
  <2>2. CASE k # t
    <3>1. k \in DOMAIN inflight /\ inflight'[k] = inflight[k] BY <2>2 DEF Keeps
    <3>2. k \in DOMAIN task_streams /\ task_streams[k] = inflight[k].made
      BY <1>4, <3>1 DEF RInv, ScattersOK
    <3> QED BY <2>2, <3>1, <3>2 DEF Keeps
  <2> QED BY <2>1, <2>2
<1> QED BY <1>2, <1>3, <1>4 DEF ScattersOK

LEMMA AwaitsKept ==
    ASSUME Typed, RInv, NEW t \in DOMAIN inflight, Keeps(t), Grown(t), Own(t)
    PROVE  AwaitsOK'
<1>1. visited \subseteq visited' BY DEF Grown
<1>2. ASSUME NEW u \in DOMAIN inflight'
      PROVE  /\ Skips(u.sid) => inflight'[u].at \in {"new", "finalize_empty"}
             /\ inflight'[u].at = "finalize_empty" => Skips(u.sid) /\ ~Adrift(u.sid)'
             /\ inflight'[u].at \in {"run_if", "execute", "collection", "scattering", "items"} => Entered(u)'
  <2>1. u \in DOMAIN inflight BY DEF Keeps
  <2>2. u.sid \in streams BY <2>1, InflightIs
  <2>3. Adrift(u.sid)' <=> Adrift(u.sid) BY <2>2, AdriftKept
  <2>4. /\ Skips(u.sid) => inflight'[u].at \in {"new", "finalize_empty"}
        /\ inflight'[u].at = "finalize_empty" => Skips(u.sid) /\ ~Adrift(u.sid)
        /\ inflight'[u].at \in {"run_if", "execute", "collection", "scattering", "items"} => Entered(u)
    <3>1. CASE u = t BY <3>1 DEF Own
    <3>2. CASE u # t
      <4>1. inflight'[u] = inflight[u] BY <2>1, <3>2 DEF Keeps
      <4> QED BY <2>1, <4>1 DEF RInv, AwaitsOK
    <3> QED BY <3>1, <3>2
  <2> QED BY <1>1, <2>3, <2>4 DEF Entered
<1>3. delivered' \subseteq DOMAIN inflight' BY DEF Keeps
<1> QED BY <1>2, <1>3 DEF AwaitsOK

LEMMA FreshKept ==
    ASSUME Typed, RInv, Regular, NEW t \in DOMAIN inflight, Keeps(t), Grown(t), Own(t)
    PROVE  FreshOK'
<1>1. ASSUME NEW k \in DOMAIN inflight', inflight'[k].at = "scattering"
      PROVE  /\ \A e \in Marked' : IsStreamOf(e.sid, k) => e \in visited'
             /\ \A n \in Begun' : IsStreamOf(n.sid, k) =>
                    /\ n \in Active' /\ n \notin delivered'
                    /\ n \in DOMAIN inflight' =>
                           inflight'[n].at \in {"new", "run_if", "execute", "collection", "items"}
  <2>1. k \in DOMAIN inflight BY DEF Keeps
  <2>2. visited \subseteq visited' /\ delivered' \subseteq delivered BY DEF Grown, Keeps
  <2>3. ASSUME NEW e \in Marked, IsStreamOf(e.sid, k) PROVE e \in visited'
    <3>1. e.sid \in streams BY EdgeStreams
    <3>2. inflight[k].at = "scattering"
      <4>1. CASE k = t BY <2>1, <2>3, <3>1, <4>1, StreamsOfInflight DEF At
      <4>2. CASE k # t BY <1>1, <2>1, <4>2 DEF Keeps
      <4> QED BY <4>1, <4>2
    <3> QED BY <2>1, <2>2, <2>3, <3>2 DEF RInv, FreshOK
  <2>4. ASSUME NEW n \in Begun, IsStreamOf(n.sid, k)
        PROVE  /\ n \in Active' /\ n \notin delivered'
               /\ n \in DOMAIN inflight' =>
                      inflight'[n].at \in {"new", "run_if", "execute", "collection", "items"}
    <3>1. n.sid \in streams BY DEF RInv, PlacesOK
    <3>2. inflight[k].at = "scattering"
      <4>1. CASE k = t BY <2>1, <2>4, <3>1, <4>1, StreamsOfInflight DEF At
      <4>2. CASE k # t BY <1>1, <2>1, <4>2 DEF Keeps
      <4> QED BY <4>1, <4>2
    <3>3. /\ n \in Active /\ n \notin delivered
          /\ n \in DOMAIN inflight =>
                 inflight[n].at \in {"new", "run_if", "execute", "collection", "items"}
      BY <2>1, <2>4, <3>2 DEF RInv, FreshOK
    <3>4. CASE n = t
      <4>1. Fresh(t) BY <2>1, <2>4, <3>2, <3>4 DEF Fresh, IsStreamOf, At
      <4>2. /\ t \in DOMAIN inflight'
            /\ inflight'[t].at \in {"new", "run_if", "execute", "collection", "items"}
        BY <4>1 DEF Own
      <4>3. t \in Active' BY <4>2 DEF Active
      <4> QED BY <2>2, <3>3, <3>4, <4>2, <4>3
    <3>5. CASE n # t
      <4>1. n \in Active' BY <3>3, <3>5, BegunAfter
      <4>2. n \in DOMAIN inflight' => n \in DOMAIN inflight /\ inflight'[n] = inflight[n]
        BY <3>5 DEF Keeps
      <4> QED BY <2>2, <3>3, <4>1, <4>2
    <3> QED BY <3>4, <3>5
  <2>5. ASSUME NEW sid, Near(t, sid), IsStreamOf(sid, k) PROVE k = t
    <3> SUFFICES ASSUME k # t PROVE FALSE OBVIOUS
    <3>0. inflight[k].at = "scattering" BY <1>1, <2>1 DEF Keeps
    <3>1. CASE sid = t.sid /\ ~Fresh(t) BY <2>1, <2>5, <3>0, <3>1 DEF Fresh, IsStreamOf, At
    <3>2. CASE IsStreamOf(sid, t) BY <2>5, <3>2 DEF IsStreamOf
    <3>3. CASE T(ClosedScope(t.ref), sid) \in completed
      <4> DEFINE c == T(ClosedScope(t.ref), sid)
      <4>1. c \in completed /\ c \in Begun /\ c.sid = sid BY <3>3 DEF Begun, T
      <4> HIDE DEF c
      <4>2. c \in Active BY <2>1, <2>5, <3>0, <4>1 DEF RInv, FreshOK
      <4> QED BY <4>1, <4>2 DEF RInv, CountsOK
    <3> QED BY <2>5, <3>1, <3>2, <3>3 DEF Near
  <2>6. ASSUME NEW e \in Marked', NewMark(t, e), IsStreamOf(e.sid, k) PROVE e \in visited'
    <3>1. k = t BY <2>5, <2>6 DEF NewMark
    <3>2. At(t, "scattering")' BY <1>1, <3>1 DEF At
    <3> QED BY <2>6, <3>2 DEF NewMark
  <2>7. ASSUME NEW n \in Begun', NewTask(t, n)
        PROVE  n \in Active' /\ n \notin delivered' /\ n \notin DOMAIN inflight'
    BY <2>7, BegunAfter
  <2>8. /\ \A e \in Marked' : e \in Marked \/ NewMark(t, e)
        /\ \A n \in Begun' : n \in Begun \/ NewTask(t, n)
    BY BegunAfter DEF Grown
  <2> QED BY <2>3, <2>4, <2>6, <2>7, <2>8
<1> QED BY <1>1 DEF FreshOK

-----------------------------------------------------------------------------
(* Gathers.                                                                *)

\* The step neither closes a stream nor forgets that it is closed.
ClosesNothing(t) ==
    Action[t.ref] = "gather" /\ ~Skips(t.sid) =>
        (t \in completed' \/ At(t, "finalize")' <=> At(t, "finalize"))

\* t is a gather of a stream that is not skipped whenever it is one of those
\* that Closed looks at.
LEMMA ClosedBy ==
    ASSUME NEW k \in Task, NEW i \in Nat, NEW g \in Refs
    PROVE  \A t : t = T(g, NewStream(k.ref, i, k.sid)) =>
               /\ t \in Task /\ t.ref = g /\ t.sid = NewStream(k.ref, i, k.sid) /\ t.sid \in Stream
               /\ t.sid # Root /\ ~Skips(t.sid) /\ ScatterOf(t.sid) = k /\ Leaf(t.sid)[2] = i
<1> DEFINE sid == NewStream(k.ref, i, k.sid)
<1>1. k.ref \in Refs /\ k.sid \in Stream /\ T(k.ref, k.sid) = k BY DEF Task, T
<1>2. i \in Index /\ i # SkipToken BY DEF Index, SkipToken
<1>3. /\ sid \in Stream /\ sid # Root /\ Leaf(sid) = <<k.ref, i>> /\ ScatterOf(sid) = k /\ ~Skips(sid)
  BY <1>1, <1>2, NewStreamIs
<1>4. Leaf(sid)[2] = i BY <1>3
<1> HIDE DEF sid
<1>5. T(g, sid) \in Task /\ T(g, sid).ref = g /\ T(g, sid).sid = sid BY <1>3, TaskType DEF T
<1> QED BY <1>3, <1>4, <1>5 DEF sid

LEMMA ClosedKept ==
    ASSUME Typed, RInv, NEW t \in DOMAIN inflight, Keeps(t), NEW k \in DOMAIN open_streams,
           ScatterOf(t.sid) = k => ClosesNothing(t)
    PROVE  Closed(k)' = Closed(k) /\ task_streams'[k] = task_streams[k]
<1>1. k \in Task /\ k \in DOMAIN task_streams /\ k # t /\ task_streams[k] \in Nat
  BY InflightIs DEF Typed, ScopesOK, RInv, ScattersOK
<1>2. task_streams'[k] = task_streams[k] BY <1>1 DEF Keeps
<1>3. ASSUME NEW u \in Task, Action[u.ref] = "gather", ~Skips(u.sid), ScatterOf(u.sid) = k
      PROVE  (u \in completed' \/ At(u, "finalize")') <=> (u \in completed \/ At(u, "finalize"))
  <2>1. CASE u = t
    <3>1. t \notin completed BY InflightIs
    <3> QED BY <1>3, <2>1, <3>1 DEF ClosesNothing
  <2>2. CASE u # t
    <3>1. u \in completed' <=> u \in completed BY <2>2 DEF Keeps
    <3>2. At(u, "finalize")' <=> At(u, "finalize") BY <2>2 DEF Keeps, At
    <3> QED BY <3>1, <3>2
  <2> QED BY <2>1, <2>2
<1>4. ASSUME NEW i \in 0..task_streams[k] - 1, NEW g \in Refs, Action[g] = "gather"
      PROVE  LET u == T(g, NewStream(k.ref, i, k.sid))
             IN  (u \in completed' \/ At(u, "finalize")') <=> (u \in completed \/ At(u, "finalize"))
  <2> DEFINE u == T(g, NewStream(k.ref, i, k.sid))
  <2>1. k \in Task /\ i \in Nat /\ g \in Refs /\ u = T(g, NewStream(k.ref, i, k.sid)) BY <1>1
  <2> HIDE DEF u
  <2>2. u \in Task /\ u.ref = g /\ ~Skips(u.sid) /\ ScatterOf(u.sid) = k BY ONLY <2>1, ClosedBy
  <2>3. (u \in completed' \/ At(u, "finalize")') <=> (u \in completed \/ At(u, "finalize"))
    BY <1>3, <1>4, <2>2
  <2> QED BY <2>3 DEF u
<1>5. Closed(k)' = {i \in 0..task_streams[k] - 1 :
                       \E g \in Refs :
                           LET u == T(g, NewStream(k.ref, i, k.sid))
                           IN  Action[g] = "gather" /\ (u \in completed' \/ At(u, "finalize")')}
  BY <1>2 DEF Closed
<1> QED BY <1>2, <1>4, <1>5 DEF Closed

\* A gather that finalizes stays the last one to.
LEMMA FinalizingKept ==
    ASSUME Typed, RInv, Regular, NEW t \in DOMAIN inflight, Keeps(t), Own(t),
           NEW u \in DOMAIN inflight, inflight[u].at = "finalize",
           NEW sid \in streams' \ {u.sid}, IsStreamOf(sid, ScatterOf(u.sid))
    PROVE  T(u.ref, sid) \in completed'
<1>1. u \in Task /\ u \in Begun /\ u.sid \in streams /\ u.ref \in Refs BY InflightIs
<1>2. Action[u.ref] = "gather" BY DEF Typed, ControlOK, AwaitFits
<1>3. u.sid # Root BY <1>1, <1>2, GatherIn
<1>4. completed \subseteq completed' BY DEF Keeps
<1>5. CASE sid \in streams
  <2>1. T(u.ref, sid) \in completed BY <1>5 DEF RInv, GathersOK
  <2> QED BY <1>4, <2>1
<1>6. ASSUME NEW i \in Index, sid = NewStream(t.ref, i, t.sid) PROVE FALSE
  <2>1. t.ref \in Refs /\ t.sid \in Stream /\ T(t.ref, t.sid) = t BY InflightIs
  <2>2. ScatterOf(sid) = t BY <1>6, <2>1, NewStreamIs
  <2>3. IsStreamOf(u.sid, t) BY <1>3, <2>2 DEF IsStreamOf
  <2>4. At(t, "scattering") BY <1>1, <2>3, StreamsOfInflight
  <2>5. inflight[u].at \in {"new", "run_if", "execute", "collection", "items"}
    BY <1>1, <2>3, <2>4 DEF RInv, FreshOK, At
  <2> QED BY <2>5
<1> QED BY <1>5, <1>6 DEF Own

\* The final list of a gather that finalizes is not there yet, and nobody else
\* writes it.
LEMMA OneFinalizes ==
    ASSUME Typed, RInv, Regular, NEW t \in DOMAIN inflight, NEW u \in DOMAIN inflight, t # u,
           inflight[u].at = "finalize", Action[t.ref] = "gather", ~Adrift(t.sid)
    PROVE  ResultKey(t) # ResultKey(u)
<1> SUFFICES ASSUME ResultKey(t) = ResultKey(u) PROVE FALSE OBVIOUS
<1>1. /\ u \in Task /\ u \in Begun /\ u.sid \in streams /\ u.ref \in Refs /\ u \notin completed
      /\ t \in Task /\ t \in Begun /\ t.sid \in streams /\ t.ref \in Refs /\ t \notin completed
      /\ T(t.ref, t.sid) = t /\ T(u.ref, u.sid) = u
  BY InflightIs
<1>2. t.ref = u.ref /\ Parent(t.sid) = Parent(u.sid) BY DEF ResultKey
<1>3. ~Adrift(u.sid) BY DEF RInv, AwaitsOK, Adrift
<1>4. t.sid # Root /\ u.sid # Root /\ ScatterOf(t.sid) = ScatterOf(u.sid) BY <1>1, <1>2, <1>3, GatherIn
<1>5. t.sid # u.sid BY <1>1, <1>2
<1>6. T(u.ref, t.sid) \in completed BY <1>1, <1>4, <1>5 DEF RInv, GathersOK, IsStreamOf
<1> QED BY <1>1, <1>2, <1>6

\* Facts about a list that the step does not write.
LEMMA ListKept ==
    ASSUME Typed, RInv, Regular, NEW t \in DOMAIN inflight, Keeps(t), Grown(t), Own(t),
           NEW key \in DOMAIN results, key \in DOMAIN results', results'[key] = results[key],
           At(t, "finalize") => key # ResultKey(t)
    PROVE  ListFacts(key, T(ClosedScope(key[1]), key[2]))'
<1> DEFINE k == T(ClosedScope(key[1]), key[2])
<1>0. key \in Refs \X Stream BY DEF Typed, RestOK
<1>1. ListFacts(key, k) BY DEF RInv, GathersOK
<1>2. k.sid = key[2] BY DEF T
<1>t. /\ t \in Task /\ t.ref \in Refs /\ t.sid \in Stream /\ T(t.ref, t.sid) = t /\ t \in Active
      /\ t \notin DOMAIN open_streams
  BY InflightIs
<1> HIDE DEF k
<1>3. /\ Action[key[1]] = "gather" /\ k \in DOMAIN open_streams
      /\ \E final \in BOOLEAN : results[key] = [final |-> final, items |-> results[key].items]
  BY <1>1 DEF ListFacts
<1>4. k \in DOMAIN open_streams' /\ k # t /\ k \in DOMAIN task_streams BY <1>3, <1>t DEF Keeps, RInv, ScattersOK
<1>5. task_streams'[k] = task_streams[k] BY <1>4 DEF Keeps
<1>6. Final(key[1], key[2])' <=> Final(key[1], key[2])
  <2>1. <<key[1], key[2]>> = key BY <1>0
  <2> QED BY <2>1 DEF Final
<1>7. ASSUME NEW sid \in streams', IsStreamOf(sid, k) PROVE sid \in streams
  <2>1. ASSUME NEW i \in Index, sid = NewStream(t.ref, i, t.sid) PROVE FALSE
    BY <1>4, <1>7, <1>t, <2>1, NewStreamIs DEF IsStreamOf
  <2> QED BY <2>1 DEF Own
<1>8. ASSUME Final(key[1], key[2]), NEW sid \in streams', IsStreamOf(sid, k)
      PROVE  T(key[1], sid) \in completed' /\ \A u \in Active' : ~Within(u.sid, sid)
  <2>1. sid \in streams /\ sid \in Stream BY <1>7, <1>8 DEF Typed, ScopesOK
  <2>2. T(key[1], sid) \in completed /\ \A u \in Active : ~Within(u.sid, sid)
    BY <1>1, <1>8, <2>1 DEF ListFacts
  <2>3. T(key[1], sid) \in completed' BY <2>2 DEF Keeps
  <2>4. ASSUME NEW u \in Active', NewTask(t, u), Within(u.sid, sid) PROVE FALSE
    <3>1. u \in Task /\ u.sid \in Stream /\ Near(t, u.sid) BY <2>4, TaskType DEF NewTask
    <3>2. ~Within(t.sid, sid) BY <1>t, <2>2
    <3>3. CASE u.sid = t.sid BY <2>4, <3>2, <3>3
    <3>4. CASE IsStreamOf(u.sid, t)
      <4>1. u.sid # Root /\ ScatterOf(u.sid) = t BY <3>4 DEF IsStreamOf
      <4>2. /\ Leaf(u.sid)[1] \in Refs /\ Leaf(u.sid)[2] \in Index
            /\ u.sid = NewStream(t.ref, Leaf(u.sid)[2], t.sid)
        BY <3>1, <4>1, StreamIs
      <4>3. sid = u.sid \/ Within(t.sid, sid) BY <1>t, <2>1, <2>4, <4>2, WithinIs
      <4> QED BY <1>4, <1>8, <3>2, <4>1, <4>3 DEF IsStreamOf
    <3>5. CASE t.sid # Root /\ u.sid = Parent(t.sid)
      BY <1>t, <2>1, <2>4, <3>2, <3>5, WithinIs
    <3> QED BY <3>1, <3>3, <3>4, <3>5 DEF Near
  <2>5. \A u \in Active' : u \in Active \/ NewTask(t, u) BY BegunAfter
  <2> QED BY <2>2, <2>3, <2>4, <2>5
<1>9. ASSUME ~Final(key[1], key[2])
      PROVE  \/ DOMAIN results'[key].items = 1..task_streams'[k]
             \/ \E sid \in streams' : IsStreamOf(sid, k) /\ At(T(key[1], sid), "finalize")'
  <2>1. CASE DOMAIN results[key].items = 1..task_streams[k] BY <1>5, <2>1
  <2>2. ASSUME NEW sid \in streams, IsStreamOf(sid, k), At(T(key[1], sid), "finalize")
        PROVE  sid \in streams' /\ At(T(key[1], sid), "finalize")'
    <3> DEFINE u == T(key[1], sid)
    <3>1. u.ref = key[1] /\ u.sid = sid BY DEF T
    <3>2. ResultKey(u) = key
      <4>1. sid \in Stream /\ sid # Root BY <2>2 DEF Typed, ScopesOK, IsStreamOf
      <4>2. Parent(sid) = key[2] BY <1>2, <2>2, <4>1, StreamIs DEF IsStreamOf
      <4> QED BY <1>0, <3>1, <4>2 DEF ResultKey
    <3>u. At(u, "finalize") BY <2>2
    <3> HIDE DEF u
    <3>3. u # t BY <3>2, <3>u
    <3>4. At(u, "finalize")' BY <3>3, <3>u DEF At, Keeps
    <3> QED BY <3>4 DEF u, Keeps
  <2> QED BY <1>1, <1>9, <2>1, <2>2 DEF ListFacts
<1>10. ListFacts(key, k)' BY <1>3, <1>4, <1>6, <1>8, <1>9 DEF ListFacts
<1> QED BY <1>10 DEF k

\* A step that neither closes a stream nor writes a list.
Quiet(t) ==
    /\ ClosesNothing(t) /\ ~At(t, "finalize") /\ ~At(t, "finalize")'
    /\ results' = results
    /\ \A k \in DOMAIN open_streams : open_streams'[k] = open_streams[k]
    /\ t \in DOMAIN open_streams' => open_streams'[t] = task_streams'[t] - Cardinality(Closed(t)')

\* The counters of the scatters, when no stream is closed.
LEMMA OpenKept ==
    ASSUME Typed, RInv, NEW t \in DOMAIN inflight, Keeps(t), ClosesNothing(t),
           \A k \in DOMAIN open_streams : open_streams'[k] = open_streams[k],
           t \in DOMAIN open_streams' => open_streams'[t] = task_streams'[t] - Cardinality(Closed(t)'),
           NEW k \in DOMAIN open_streams'
    PROVE  open_streams'[k] = task_streams'[k] - Cardinality(Closed(k)')
<1>1. CASE k = t BY <1>1
<1>2. CASE k # t
  <2>1. k \in DOMAIN open_streams BY <1>2 DEF Keeps
  <2>2. Closed(k)' = Closed(k) /\ task_streams'[k] = task_streams[k] BY <2>1, ClosedKept
  <2>3. open_streams[k] = task_streams[k] - Cardinality(Closed(k)) BY <2>1 DEF RInv, GathersOK
  <2> QED BY <2>1, <2>2, <2>3
<1> QED BY <1>1, <1>2

\* All parts of the invariant but GathersOK.
LEMMA MostKept ==
    ASSUME Typed, RInv, Regular, NEW t \in DOMAIN inflight, Keeps(t), Grown(t), Own(t), GathersOK'
    PROVE  RInv'
BY PlacesKept, CountsKept, MarkersKept, StreamsKept, ScattersKept, AwaitsKept, FreshKept DEF RInv

LEMMA QuietStep ==
    ASSUME Typed, RInv, Regular, NEW t \in DOMAIN inflight, Keeps(t), Grown(t), Own(t), Quiet(t)
    PROVE  RInv'
<1>1. \A k \in DOMAIN open_streams' : open_streams'[k] = task_streams'[k] - Cardinality(Closed(k)')
  BY OpenKept DEF Quiet
<1>2. ASSUME NEW u \in DOMAIN inflight', inflight'[u].at = "finalize"
      PROVE  /\ ResultKey(u) \in DOMAIN results' /\ ~Final(u.ref, Parent(u.sid))'
             /\ \A sid \in streams' \ {u.sid} :
                    IsStreamOf(sid, ScatterOf(u.sid)) => T(u.ref, sid) \in completed'
  <2>1. u # t BY <1>2 DEF Quiet, At
  <2>2. u \in DOMAIN inflight /\ inflight[u].at = "finalize" BY <1>2, <2>1 DEF Keeps
  <2>3. ResultKey(u) \in DOMAIN results /\ ~Final(u.ref, Parent(u.sid)) BY <2>2 DEF RInv, GathersOK
  <2>4. ~Final(u.ref, Parent(u.sid))' BY <2>3 DEF Final, Quiet
  <2>5. \A sid \in streams' \ {u.sid} :
            IsStreamOf(sid, ScatterOf(u.sid)) => T(u.ref, sid) \in completed'
    BY <2>2, FinalizingKept
  <2> QED BY <2>3, <2>4, <2>5 DEF Quiet
<1>3. ASSUME NEW key \in DOMAIN results' PROVE ListFacts(key, T(ClosedScope(key[1]), key[2]))'
  BY ListKept DEF Quiet
<1>4. GathersOK' BY <1>1, <1>2, <1>3 DEF GathersOK
<1> QED BY <1>4, MostKept

-----------------------------------------------------------------------------
(* What a step does to its stream and to the lists of gathers.             *)

\* An action that was reached has ended.
Ran(t) == Action[t.ref] = "action" /\ ~Skips(t.sid) /\ Entered(t) /\ t \in completed'

\* A gather has stored its final list.
Published(t) ==
    /\ Action[t.ref] = "gather" /\ ~Adrift(t.sid)
    /\ \E items : results' = With(results, ResultKey(t), [final |-> TRUE, items |-> items])

\* The step records an error for the stream of an action that was reached, or
\* visits edges: those for one outcome of such an action, those in a new
\* stream, or those behind a gather.
Upshot(t) ==
    \/ visited' \subseteq visited /\ stream_exceptions' = stream_exceptions
    \/ visited' \subseteq visited /\ stream_exceptions' = stream_exceptions \cup {t.sid} /\ Ran(t)
    \/ /\ stream_exceptions' = stream_exceptions
       /\ \E x \in Task :
              /\ visited' \subseteq visited \cup OutEdges(x)
              /\ \/ x = t /\ Ran(t) /\ \E type : \A e \in visited' \ visited : e.type = type
                 \/ Action[t.ref] = "scatter" /\ x.ref = t.ref /\ x.sid \notin streams
                 \/ Published(t) /\ x = Continuation(t)

\* The value is in the list, at the index of the stream of t, and nothing else
\* in the list is changed.
Records(t, value) ==
    LET key == ResultKey(t)
        n == Leaf(t.sid)[2] + 1
    IN  \/ value = "unset" /\ results' = results
        \/ \E items :
               /\ results' = With(results, key, [final |-> FALSE, items |-> items])
               /\ key \in DOMAIN results =>
                      \A j \in DOMAIN results[key].items \ {n} :
                          j \in DOMAIN items /\ items[j] = results[key].items[j]
               /\ value # "unset" => n \in DOMAIN items /\ items[n] = value

\* A gather that was skipped records the error of its stream, another an item.
Recorded(t) ==
    /\ Action[t.ref] = "gather" /\ ~Skips(t.sid)
    /\ \E value \in Values :
           /\ Records(t, value)
           /\ value = SkippedValue(t) \/ (value = "item" /\ inflight[t].at = "items")

Ordered(t) ==
    /\ Keeps(t) /\ Grown(t) /\ Upshot(t)
    /\ Quiet(t) \/ Recorded(t) \/ Published(t)

-----------------------------------------------------------------------------
(* The steps of actions and scatters.                                      *)

\* A coroutine that is not creating streams has none, and no counters.
LEMMA NotScattering ==
    ASSUME Typed, RInv, NEW t \in DOMAIN inflight, inflight[t].at # "scattering"
    PROVE  /\ t \notin DOMAIN task_streams /\ t \notin DOMAIN open_streams
           /\ \A sid \in streams : ~IsStreamOf(sid, t)
<1>1. t \notin DOMAIN open_streams BY InflightIs
<1>2. t \notin DOMAIN task_streams BY <1>1 DEF RInv, ScattersOK, At
<1>3. \A sid \in streams : ~IsStreamOf(sid, t) BY StreamsOfInflight DEF At
<1> QED BY <1>1, <1>2, <1>3

\* In a stream whose scatter still creates streams, coroutines are at or before
\* their first await.
LEMMA FreshIs ==
    ASSUME Typed, RInv, NEW t \in DOMAIN inflight, Fresh(t)
    PROVE  /\ t \notin delivered /\ ~Skips(t.sid) /\ InEdges(t) \subseteq visited /\ InEdges(t) # {}
           /\ inflight[t].at \in {"new", "run_if", "execute", "collection", "items"}
<1> DEFINE k == ScatterOf(t.sid)
<1>1. t \in Task /\ t \in Begun /\ t.sid \in streams /\ t.sid # Root /\ InEdges(t) \subseteq Marked /\ InEdges(t) # {}
  BY InflightIs DEF Fresh
<1>2. k \in DOMAIN inflight /\ inflight[k].at = "scattering" /\ IsStreamOf(t.sid, k)
  BY <1>1 DEF Fresh, At, IsStreamOf
<1> HIDE DEF k
<1>3. /\ t \notin delivered
      /\ inflight[t].at \in {"new", "run_if", "execute", "collection", "items"}
  BY <1>1, <1>2 DEF RInv, FreshOK
<1>4. ~Skips(t.sid) BY <1>1, <1>2, StreamsOfInflight
<1>5. \A e \in InEdges(t) : e.sid = t.sid BY <1>1, InEdgesAre
<1>6. InEdges(t) \subseteq visited BY <1>1, <1>2, <1>5 DEF RInv, FreshOK
<1> QED BY <1>1, <1>3, <1>4, <1>6

LEMMA CompleteKeeps ==
    ASSUME Typed, RInv, NEW t \in DOMAIN inflight, Complete(t)
    PROVE  /\ \A u \in DOMAIN inflight \ {t} : u \in DOMAIN inflight' /\ inflight'[u] = inflight[u]
           /\ DOMAIN inflight' = DOMAIN inflight \ {t} /\ t \notin DOMAIN inflight'
           /\ completed' = completed \cup {t}
           /\ delivered' \subseteq delivered /\ delivered' \subseteq DOMAIN inflight'
<1>1. inflight' = Without(inflight, {t}) /\ delivered' = delivered \ {t} /\ completed' = completed \cup {t}
  BY DEF Complete
<1>2. /\ DOMAIN inflight' = DOMAIN inflight \ {t}
      /\ \A u \in DOMAIN inflight \ {t} : inflight'[u] = inflight[u]
  BY <1>1 DEF Without
<1>3. delivered \subseteq DOMAIN inflight BY DEF RInv, AwaitsOK
<1> QED BY <1>1, <1>2, <1>3

LEMMA AwaitKeeps ==
    ASSUME Typed, RInv, NEW t \in DOMAIN inflight, NEW a, AwaitNext(t, a)
    PROVE  /\ DOMAIN inflight' = DOMAIN inflight /\ inflight'[t].at = a
           /\ \A u \in DOMAIN inflight \ {t} : inflight'[u] = inflight[u]
           /\ completed' = completed /\ UNCHANGED marks
           /\ delivered' \subseteq delivered /\ delivered' \subseteq DOMAIN inflight'
<1>1. /\ inflight' = [inflight EXCEPT ![t] = Awaiting(a)] /\ delivered' = delivered \ {t}
      /\ completed' = completed /\ UNCHANGED marks
  BY DEF AwaitNext
<1>2. /\ DOMAIN inflight' = DOMAIN inflight /\ inflight'[t] = Awaiting(a)
      /\ \A u \in DOMAIN inflight \ {t} : inflight'[u] = inflight[u]
  BY <1>1
<1>3. delivered \subseteq DOMAIN inflight BY DEF RInv, AwaitsOK
<1>4. inflight'[t].at = a BY <1>2 DEF Awaiting
<1> QED BY <1>1, <1>2, <1>3, <1>4

\* A coroutine goes on to await something.
LEMMA AwaitRegular ==
    ASSUME Typed, RInv, Regular, NEW t \in DOMAIN inflight,
           NEW a \in {"run_if", "execute", "collection", "items", "finalize_empty"},
           AwaitNext(t, a), UNCHANGED <<scopes, results>>,
           inflight[t].at \notin {"scattering", "finalize"},
           a # "finalize_empty" => Entered(t),
           Skips(t.sid) => a = "finalize_empty",
           a = "finalize_empty" => Skips(t.sid) /\ ~Adrift(t.sid)
    PROVE  RInv' /\ Ordered(t)
<1>1. /\ DOMAIN inflight' = DOMAIN inflight /\ inflight'[t].at = a
      /\ \A u \in DOMAIN inflight \ {t} : inflight'[u] = inflight[u]
      /\ completed' = completed /\ UNCHANGED marks
      /\ delivered' \subseteq delivered /\ delivered' \subseteq DOMAIN inflight'
  BY AwaitKeeps
<1>2. /\ streams' = streams /\ task_streams' = task_streams /\ open_streams' = open_streams
      /\ results' = results
  BY DEF scopes
<1>3. /\ t \notin DOMAIN task_streams /\ t \notin DOMAIN open_streams
      /\ \A sid \in streams : ~IsStreamOf(sid, t)
  BY NotScattering
<1>4. Keeps(t) BY <1>1, <1>2 DEF Keeps, Final
<1>5. Grown(t) BY <1>1, GrownSame
<1>6. ~At(t, "scattering")' /\ ~At(t, "finalize")' /\ ~At(t, "finalize") BY <1>1 DEF At
<1>7. Fresh(t) => a # "finalize_empty" BY FreshIs
<1>8. Own(t) BY <1>1, <1>2, <1>3, <1>6, <1>7 DEF Own
<1>9. t \notin completed' BY <1>1, InflightIs
<1>10. ClosesNothing(t) BY <1>6, <1>9 DEF ClosesNothing
<1>11. Quiet(t) BY <1>2, <1>3, <1>6, <1>10 DEF Quiet
<1>12. Upshot(t) BY DEF Upshot, AwaitNext, marks, errors
<1> QED BY <1>4, <1>5, <1>8, <1>11, <1>12, QuietStep DEF Ordered

\* An action ends, or a gather in a stream that is adrift.
EndsHere(t) ==
    /\ Complete(t) /\ UNCHANGED <<scopes, results>> /\ Upshot(t)
    /\ \/ UNCHANGED marks
       \/ \E unreachable \in SUBSET OutEdges(t) :
              QueueTasks(t, unreachable) /\ (Skips(t.sid) => unreachable = OutEdges(t))

LEMMA EndsRegular ==
    ASSUME Typed, RInv, Regular, NEW t \in DOMAIN inflight, EndsHere(t), ~Fresh(t),
           inflight[t].at \notin {"scattering", "finalize"},
           Action[t.ref] = "action" \/ (Action[t.ref] = "gather" /\ Adrift(t.sid))
    PROVE  RInv' /\ Ordered(t)
<1>1. /\ \A u \in DOMAIN inflight \ {t} : u \in DOMAIN inflight' /\ inflight'[u] = inflight[u]
      /\ DOMAIN inflight' = DOMAIN inflight \ {t} /\ t \notin DOMAIN inflight'
      /\ completed' = completed \cup {t}
      /\ delivered' \subseteq delivered /\ delivered' \subseteq DOMAIN inflight'
  BY CompleteKeeps DEF EndsHere
<1>2. /\ streams' = streams /\ task_streams' = task_streams /\ open_streams' = open_streams
      /\ results' = results
  BY DEF EndsHere, scopes
<1>3. /\ t \notin DOMAIN task_streams /\ t \notin DOMAIN open_streams
      /\ \A sid \in streams : ~IsStreamOf(sid, t)
  BY NotScattering
<1>4. Keeps(t) BY <1>1, <1>2 DEF Keeps, Final
<1>5. ~At(t, "scattering")' /\ ~At(t, "finalize")' /\ ~At(t, "finalize") BY <1>1 DEF At
<1>t. /\ t \in Task /\ t.ref \in Refs /\ t.sid \in Stream /\ t.sid \in streams /\ Placed(t)
      /\ t \notin completed
  BY InflightIs
<1>6. Grown(t)
  <2>1. CASE UNCHANGED marks BY <2>1, GrownSame
  <2>2. ASSUME NEW unreachable \in SUBSET OutEdges(t), QueueTasks(t, unreachable),
               Skips(t.sid) => unreachable = OutEdges(t)
        PROVE  Grown(t)
    <3>1. ~Opened(t) /\ Opened(t)' /\ (ActionScope[t.ref] = HomeOf(t.sid) \/ Adrift(t.sid)')
      <4>1. CASE Action[t.ref] = "action"
        <5>1. ActionScope[t.ref] = HomeOf(t.sid) \/ Adrift(t.sid)'
          BY <1>2, <1>t, <4>1, Scoping DEF Placed, Adrift
        <5> QED BY <1>1, <1>t, <4>1, <5>1 DEF Opened
      <4>2. CASE Action[t.ref] = "gather" /\ Adrift(t.sid)
        <5>1. Adrift(t.sid)' BY <1>2, <4>2 DEF Adrift
        <5>2. ~Final(t.ref, t.sid)
          <6> SUFFICES ASSUME Final(t.ref, t.sid) PROVE FALSE OBVIOUS
          <6> DEFINE k == T(ClosedScope(t.ref), t.sid)
          <6>1. k \in DOMAIN open_streams /\ k.sid = t.sid BY FinalIs DEF T
          <6> HIDE DEF k
          <6>2. ~Skips(t.sid) BY <6>1 DEF RInv, ScattersOK
          <6> QED BY <4>2, <6>2 DEF Adrift
        <5> QED BY <1>1, <1>t, <4>2, <5>1, <5>2 DEF Opened
      <4> QED BY <4>1, <4>2
    <3>2. Marking(t, t) BY <1>2, <1>5, <1>t, <2>2, <3>1 DEF Marking, Near
    <3> QED BY <1>4, <1>t, <3>2, GrownMarking
  <2> QED BY <2>1, <2>2 DEF EndsHere
<1>7. Own(t) BY <1>1, <1>2, <1>3, <1>5 DEF Own
<1>8. ClosesNothing(t) BY <1>1, <1>5 DEF ClosesNothing, Adrift
<1>9. Quiet(t) BY <1>2, <1>3, <1>5, <1>8 DEF Quiet
<1>10. Upshot(t) BY DEF EndsHere
<1> QED BY <1>4, <1>6, <1>7, <1>9, <1>10, QuietStep DEF Ordered

\* A scatter is skipped, or has nothing to scatter.
LEMMA SkipRegular ==
    ASSUME Typed, RInv, Regular, NEW t \in DOMAIN inflight, SkipStream(t), results' = results,
           Action[t.ref] = "scatter", ~Fresh(t), inflight[t].at \notin {"scattering", "finalize"},
           \/ UNCHANGED <<task_streams, open_streams>>
           \/ /\ task_streams' = With(task_streams, t, 0) /\ open_streams' = With(open_streams, t, 0)
              /\ ~Skips(t.sid) /\ Entered(t)
    PROVE  RInv' /\ Ordered(t)
<1> DEFINE sid == NewStream(t.ref, SkipToken, t.sid)
           x == T(t.ref, sid)
<1>t. /\ t \in Task /\ t.ref \in Refs /\ t.sid \in Stream /\ t.sid \in streams /\ Placed(t)
      /\ t \notin completed /\ T(t.ref, t.sid) = t
  BY InflightIs
<1>0. SkipToken \in Index BY DEF Index
<1>1. /\ sid \in Stream /\ sid # Root /\ Leaf(sid) = <<t.ref, SkipToken>> /\ ScatterOf(sid) = t
      /\ HomeOf(sid) = t.ref /\ Skips(sid)
  BY <1>0, <1>t, NewStreamIs
<1>2. streams' = streams \cup {sid} /\ Finish(t, x, OutEdges(x)) BY DEF SkipStream
<1>i. \E i \in Index : sid = NewStream(t.ref, i, t.sid) BY <1>0
<1>l. Leaf(sid)[1] = t.ref BY <1>1
<1> HIDE DEF sid
<1>3. x \in Task /\ x.ref = t.ref /\ x.sid = sid BY <1>1, <1>t, TaskType DEF T
<1> HIDE DEF x
<1>4. /\ \A u \in DOMAIN inflight \ {t} : u \in DOMAIN inflight' /\ inflight'[u] = inflight[u]
      /\ DOMAIN inflight' = DOMAIN inflight \ {t} /\ t \notin DOMAIN inflight'
      /\ completed' = completed \cup {t}
      /\ delivered' \subseteq delivered /\ delivered' \subseteq DOMAIN inflight'
  BY <1>2, CompleteKeeps DEF Finish
<1>5. /\ t \notin DOMAIN task_streams /\ t \notin DOMAIN open_streams
      /\ \A p \in streams : ~IsStreamOf(p, t)
  BY NotScattering
<1>6. /\ DOMAIN task_streams \subseteq DOMAIN task_streams'
      /\ DOMAIN task_streams' \subseteq DOMAIN task_streams \cup {t}
      /\ \A k \in DOMAIN task_streams : task_streams'[k] = task_streams[k]
      /\ DOMAIN open_streams \subseteq DOMAIN open_streams'
      /\ DOMAIN open_streams' \subseteq DOMAIN open_streams \cup {t}
      /\ \A k \in DOMAIN open_streams : open_streams'[k] = open_streams[k]
      /\ t \in DOMAIN task_streams' <=> t \in DOMAIN open_streams'
      /\ t \in DOMAIN task_streams' =>
             task_streams'[t] = 0 /\ open_streams'[t] = 0 /\ ~Skips(t.sid) /\ Entered(t)
  BY <1>5 DEF With
<1>7. Keeps(t) BY <1>2, <1>4, <1>6 DEF Keeps, Final
<1>8. ~At(t, "scattering")' /\ ~At(t, "finalize")' /\ ~At(t, "finalize") BY <1>4 DEF At
<1>9. Grown(t)
  <2>1. ~Opened(x) BY <1>1, <1>3, <1>5 DEF Opened, IsStreamOf
  <2>2. Opened(x)' BY <1>1, <1>2, <1>3, <1>l DEF Opened
  <2>3. ActionScope[x.ref] = HomeOf(x.sid) BY <1>1, <1>3, <1>t, Scoping
  <2>4. Near(t, x.sid) BY <1>1, <1>3 DEF Near, IsStreamOf
  <2>5. \E unreachable \in SUBSET OutEdges(x) :
            /\ QueueTasks(x, unreachable)
            /\ Skips(x.sid) => unreachable = OutEdges(x)
            /\ At(t, "scattering")' => unreachable = {}
    <3>1. QueueTasks(x, OutEdges(x)) BY <1>2 DEF Finish
    <3> QED BY <1>8, <3>1
  <2>6. Marking(t, x) BY <1>2, <1>3, <2>1, <2>2, <2>3, <2>4, <2>5 DEF Marking
  <2> QED BY <1>3, <1>7, <2>6, GrownMarking
<1>10. StreamFacts(sid, t)' BY <1>1, <1>4, <1>6 DEF StreamFacts
<1>11. \A p \in streams' : IsStreamOf(p, t) => StreamFacts(p, t)' BY <1>2, <1>5, <1>10
<1>12. \A p \in streams' : p \in streams \/ \E i \in Index : p = NewStream(t.ref, i, t.sid) BY <1>2, <1>i
<1>13. Own(t) BY <1>4, <1>6, <1>8, <1>11, <1>12 DEF Own
<1>14. ClosesNothing(t) BY DEF ClosesNothing
<1>15. t \in DOMAIN open_streams' => open_streams'[t] = task_streams'[t] - Cardinality(Closed(t)')
  <2> SUFFICES ASSUME t \in DOMAIN open_streams' PROVE open_streams'[t] = task_streams'[t] - Cardinality(Closed(t)')
    OBVIOUS
  <2>1. task_streams'[t] = 0 /\ open_streams'[t] = 0 BY <1>6
  <2>2. 0..task_streams'[t] - 1 = {} BY <2>1
  <2>3. Closed(t)' = {} BY <2>2 DEF Closed
  <2> QED BY <2>1, <2>3, FS_EmptySet
<1>16. Quiet(t) BY <1>6, <1>8, <1>14, <1>15 DEF Quiet
<1>17. Upshot(t)
  <2>1. visited' \subseteq visited /\ stream_exceptions' = stream_exceptions
    BY <1>2 DEF Finish, QueueTasks, errors
  <2> QED BY <2>1 DEF Upshot
<1> QED BY <1>7, <1>9, <1>13, <1>16, <1>17, QuietStep DEF Ordered

\* The scatters whose streams a task is in are those around it.
LEMMA PathIs ==
    ASSUME Typed, RInv, Regular, NEW t \in Begun, ~Skips(t.sid)
    PROVE  Home(t.ref) = HomeOf(t.sid) /\ Path(t.sid) = Around(Home(t.ref))
<1>1. t.sid \in streams /\ Placed(t) BY DEF RInv, PlacesOK
<1>2. Home(t.ref) = HomeOf(t.sid) BY <1>1 DEF Placed, Adrift
<1>3. CASE t.sid = Root
  <2>1. Path(t.sid) = {} BY <1>3 DEF Path, Root
  <2> QED BY <1>2, <1>3, <2>1, AroundIs DEF HomeOf
<1>4. CASE t.sid # Root
  <2>1. StreamFacts(t.sid, ScatterOf(t.sid)) BY <1>1, <1>4 DEF RInv, StreamsOK
  <2> QED BY <1>2, <2>1 DEF StreamFacts
<1> QED BY <1>3, <1>4

\* A scatter creates a stream.
LEMMA CreateRegular ==
    ASSUME Typed, RInv, Regular, NEW t \in DOMAIN inflight, NEW i \in Nat, NEW left, CreateStream(t, i),
           Action[t.ref] = "scatter", ~Fresh(t), ~Skips(t.sid), inflight[t].at \in {"collection", "scattering"},
           inflight[t].at = "scattering" => task_streams[t] = i,
           inflight' = [inflight EXCEPT ![t] = [at |-> "scattering", made |-> i + 1, left |-> left]],
           delivered' \subseteq delivered, UNCHANGED <<completed, open_streams, results, errors>>,
           task_streams' = With(task_streams, t, i + 1)
    PROVE  RInv' /\ Ordered(t)
<1> DEFINE sid == NewStream(t.ref, i, t.sid)
           x == T(t.ref, sid)
<1>t. /\ t \in Task /\ t.ref \in Refs /\ t.sid \in Stream /\ t.sid \in streams /\ Placed(t)
      /\ t \notin completed /\ T(t.ref, t.sid) = t /\ t \in Begun /\ t \notin DOMAIN open_streams
  BY InflightIs
<1>0. i \in Index /\ i # SkipToken BY DEF Index, SkipToken
<1>1. /\ sid \in Stream /\ sid # Root /\ Leaf(sid) = <<t.ref, i>> /\ ScatterOf(sid) = t
      /\ HomeOf(sid) = t.ref /\ ~Skips(sid) /\ Path(sid) = Path(t.sid) \cup {t.ref}
  BY <1>0, <1>t, NewStreamIs
<1>2. streams' = streams \cup {sid} /\ QueueTasks(x, {}) BY DEF CreateStream
<1>i. \E j \in Index : sid = NewStream(t.ref, j, t.sid) BY <1>0
<1>l. Leaf(sid)[1] = t.ref /\ Leaf(sid)[2] = i BY <1>1
<1> HIDE DEF sid
<1>3. x \in Task /\ x.ref = t.ref /\ x.sid = sid BY <1>1, <1>t, TaskType DEF T
<1> HIDE DEF x
<1>4. /\ DOMAIN inflight' = DOMAIN inflight
      /\ \A u \in DOMAIN inflight \ {t} : inflight'[u] = inflight[u]
      /\ inflight'[t] = [at |-> "scattering", made |-> i + 1, left |-> left]
      /\ delivered \subseteq DOMAIN inflight
  BY DEF RInv, AwaitsOK
<1>5. At(t, "scattering")' /\ inflight'[t].made = i + 1 /\ inflight'[t].at = "scattering" BY <1>4 DEF At
<1>6. /\ DOMAIN task_streams' = DOMAIN task_streams \cup {t} /\ task_streams'[t] = i + 1
      /\ \A k \in DOMAIN task_streams \ {t} : task_streams'[k] = task_streams[k]
  BY DEF With
<1>7. Keeps(t) BY <1>2, <1>4, <1>6 DEF Keeps, Final
<1>8. \A p \in streams : IsStreamOf(p, t) =>
          t \in DOMAIN task_streams /\ ~Skips(p) /\ Leaf(p)[2] \in 0..i - 1
  BY StreamsOfInflight DEF At
<1>9. sid \notin streams
  <2>1. IsStreamOf(sid, t) BY <1>1 DEF IsStreamOf
  <2>2. i \notin 0..i - 1 OBVIOUS
  <2> QED BY <1>8, <1>l, <2>1, <2>2
<1>10. Grown(t)
  <2>1. ~Opened(x) BY <1>3, <1>9 DEF Opened
  <2>2. Opened(x)' BY <1>1, <1>2, <1>3, <1>l DEF Opened
  <2>3. ActionScope[x.ref] = HomeOf(x.sid) BY <1>1, <1>3, <1>t, Scoping
  <2>4. Near(t, x.sid) BY <1>1, <1>3 DEF Near, IsStreamOf
  <2>5. \E unreachable \in SUBSET OutEdges(x) :
            /\ QueueTasks(x, unreachable)
            /\ Skips(x.sid) => unreachable = OutEdges(x)
            /\ At(t, "scattering")' => unreachable = {}
    BY <1>1, <1>2, <1>3
  <2>6. Marking(t, x) BY <1>2, <1>3, <2>1, <2>2, <2>3, <2>4, <2>5 DEF Marking
  <2> QED BY <1>3, <1>7, <2>6, GrownMarking
<1>11. StreamFacts(sid, t)'
  <2>1. Path(t.sid) = Around(Home(t.ref)) BY <1>t, PathIs
  <2>2. Around(t.ref) = {t.ref} \cup Around(Home(t.ref)) BY <1>t, AroundIs
  <2>3. Path(sid) = Around(HomeOf(sid)) BY <1>1, <2>1, <2>2
  <2>4. i \in 0..(i + 1) - 1 OBVIOUS
  <2> QED BY <1>1, <1>5, <1>6, <1>l, <2>3, <2>4 DEF StreamFacts
<1>12. ASSUME NEW p \in streams, IsStreamOf(p, t) PROVE StreamFacts(p, t)'
  <2>1. ~Skips(p) /\ Leaf(p)[2] \in 0..i - 1 BY <1>8, <1>12
  <2>2. Leaf(p)[2] \in 0..(i + 1) - 1 BY <2>1
  <2>3. StreamFacts(p, t) BY <1>12 DEF RInv, StreamsOK, IsStreamOf
  <2>4. Path(p) = Around(HomeOf(p)) BY <2>1, <2>3 DEF StreamFacts
  <2> QED BY <1>5, <1>6, <2>1, <2>2, <2>4 DEF StreamFacts
<1>13. \A p \in streams' : IsStreamOf(p, t) => StreamFacts(p, t)' BY <1>2, <1>11, <1>12
<1>14. \A p \in streams' : p \in streams \/ \E j \in Index : p = NewStream(t.ref, j, t.sid) BY <1>2, <1>i
<1>e. Entered(t) BY DEF RInv, AwaitsOK
<1>15. Own(t) BY <1>4, <1>5, <1>6, <1>e, <1>t, <1>13, <1>14 DEF Own
<1>16. ClosesNothing(t) BY DEF ClosesNothing
<1>17. ~At(t, "finalize") /\ ~At(t, "finalize")' BY <1>5 DEF At
<1>18. Quiet(t) BY <1>t, <1>16, <1>17 DEF Quiet
<1>19. Upshot(t)
  <2>1. visited' \subseteq visited \cup OutEdges(x) /\ stream_exceptions' = stream_exceptions
    BY <1>2 DEF QueueTasks, errors
  <2> QED BY <1>3, <1>9, <2>1 DEF Upshot
<1> QED BY <1>7, <1>10, <1>15, <1>18, <1>19, QuietStep DEF Ordered

\* A scatter has created its streams.
LEMMA ScatteredRegular ==
    ASSUME Typed, RInv, Regular, NEW t \in DOMAIN inflight, ScatterDone(t)
    PROVE  RInv' /\ Ordered(t)
<1>t. /\ t \in Task /\ t.ref \in Refs /\ t.sid \in Stream /\ t.sid \in streams /\ Placed(t)
      /\ t \notin completed /\ T(t.ref, t.sid) = t /\ t \in Begun /\ t \notin DOMAIN open_streams
  BY InflightIs
<1>1. /\ At(t, "scattering") /\ FinishSilently(t)
      /\ open_streams' = With(open_streams, t, inflight[t].made)
      /\ streams' = streams /\ task_streams' = task_streams /\ results' = results
  BY DEF ScatterDone
<1>2. /\ \A u \in DOMAIN inflight \ {t} : u \in DOMAIN inflight' /\ inflight'[u] = inflight[u]
      /\ DOMAIN inflight' = DOMAIN inflight \ {t} /\ t \notin DOMAIN inflight'
      /\ completed' = completed \cup {t}
      /\ delivered' \subseteq delivered /\ delivered' \subseteq DOMAIN inflight'
  BY <1>1, CompleteKeeps DEF FinishSilently
<1>3. /\ t \in DOMAIN task_streams /\ task_streams[t] = inflight[t].made
      /\ Action[t.ref] = "scatter" /\ ~Skips(t.sid) /\ task_streams[t] \in Nat /\ Entered(t)
  BY <1>1 DEF RInv, ScattersOK, At, Typed, ScopesOK
<1>4. /\ DOMAIN open_streams' = DOMAIN open_streams \cup {t} /\ open_streams'[t] = task_streams[t]
      /\ \A k \in DOMAIN open_streams : open_streams'[k] = open_streams[k]
  BY <1>1, <1>3, <1>t DEF With
<1>5. Keeps(t) BY <1>1, <1>2, <1>4 DEF Keeps, Final
<1>6. Grown(t) BY <1>1, GrownSame DEF FinishSilently
<1>7. ~At(t, "scattering")' /\ ~At(t, "finalize")' /\ ~At(t, "finalize") BY <1>1, <1>2 DEF At
<1>8. ~Fresh(t) BY <1>1, FreshIs DEF At
<1>9. ASSUME NEW p \in streams, IsStreamOf(p, t) PROVE StreamFacts(p, t)'
  <2>1. ~Skips(p) BY <1>9, StreamsOfInflight
  <2>2. StreamFacts(p, t) BY <1>9 DEF RInv, StreamsOK, IsStreamOf
  <2> QED BY <1>1, <1>2, <2>1, <2>2 DEF StreamFacts
<1>10. Own(t) BY <1>1, <1>2, <1>3, <1>4, <1>7, <1>8, <1>9 DEF Own
<1>11. ClosesNothing(t) BY <1>3 DEF ClosesNothing
<1>12. Closed(t)' = {}
  <2>1. ASSUME NEW i \in 0..task_streams'[t] - 1, NEW g \in Refs, Action[g] = "gather"
        PROVE  LET u == T(g, NewStream(t.ref, i, t.sid))
               IN  ~(u \in completed' \/ At(u, "finalize")')
    <3> DEFINE u == T(g, NewStream(t.ref, i, t.sid))
    <3>1. t \in Task /\ i \in Nat /\ g \in Refs /\ u = T(g, NewStream(t.ref, i, t.sid))
      BY <1>1, <1>3, <1>t, <2>1
    <3> HIDE DEF u
    <3>2. u \in Task /\ u.ref = g /\ u.sid # Root /\ ScatterOf(u.sid) = t BY ONLY <3>1, ClosedBy
    <3>3. u # t BY <1>3, <2>1, <3>2
    <3>4. IsStreamOf(u.sid, t) BY <3>2 DEF IsStreamOf
    <3>5. u \notin completed
      <4> SUFFICES ASSUME u \in completed PROVE FALSE OBVIOUS
      <4>1. u \in Begun BY DEF Begun
      <4>2. u \in Active BY <1>1, <3>4, <4>1 DEF RInv, FreshOK, At
      <4> QED BY <4>2 DEF RInv, CountsOK
    <3>6. ~At(u, "finalize")
      <4> SUFFICES ASSUME At(u, "finalize") PROVE FALSE OBVIOUS
      <4>1. u \in DOMAIN inflight /\ u \in Begun BY DEF At, Begun, Active
      <4>2. inflight[u].at \in {"new", "run_if", "execute", "collection", "items"}
        BY <1>1, <3>4, <4>1 DEF RInv, FreshOK, At
      <4> QED BY <4>2 DEF At
    <3>7. u \notin completed' /\ ~At(u, "finalize")' BY <1>2, <3>3, <3>5, <3>6 DEF At
    <3> QED BY <3>7 DEF u
  <2> QED BY <2>1 DEF Closed
<1>13. open_streams'[t] = task_streams'[t] - Cardinality(Closed(t)')
  BY <1>1, <1>3, <1>4, <1>12, FS_EmptySet
<1>14. Quiet(t) BY <1>1, <1>4, <1>7, <1>11, <1>13 DEF Quiet
<1>15. Upshot(t) BY <1>1 DEF Upshot, FinishSilently, marks, errors
<1> QED BY <1>5, <1>6, <1>10, <1>14, <1>15, QuietStep DEF Ordered

-----------------------------------------------------------------------------
(* The steps of gathers.                                                   *)

\* A stream has one gather.
LEMMA OneGather ==
    ASSUME Typed, RInv, Regular, NEW g \in Refs, NEW h \in Refs, NEW sid \in Stream, ~Adrift(sid),
           Action[g] = "gather", Action[h] = "gather", T(g, sid) \in Begun, T(h, sid) \in Begun
    PROVE  g = h
<1>1. T(g, sid).ref = g /\ T(h, sid).ref = h /\ T(g, sid).sid = sid /\ T(h, sid).sid = sid BY DEF T
<1>2. ClosedScope(g) = HomeOf(sid) BY <1>1, GatherIn
<1>3. ClosedScope(h) = HomeOf(sid) BY <1>1, GatherIn
<1> QED BY <1>2, <1>3 DEF Regular, AllGathered

\* Where a gather that may close its stream stands.
LEMMA ClosingIs ==
    ASSUME Typed, RInv, Regular, NEW t \in DOMAIN inflight, Action[t.ref] = "gather",
           ~Skips(t.sid), ~Fresh(t), inflight[t].at # "finalize"
    PROVE  LET k == ScatterOf(t.sid)
           IN  /\ k = T(ClosedScope(t.ref), Parent(t.sid)) /\ k.sid = Parent(t.sid)
               /\ k \in Task /\ k # t /\ IsStreamOf(t.sid, k)
               /\ k \in DOMAIN open_streams /\ k \in DOMAIN task_streams /\ task_streams[k] \in Nat
               /\ Leaf(t.sid)[2] \in 0..task_streams[k] - 1
               /\ t.sid = NewStream(k.ref, Leaf(t.sid)[2], k.sid)
               /\ ~Final(t.ref, Parent(t.sid))
               /\ \A sid \in streams : IsStreamOf(sid, k) => ~At(T(t.ref, sid), "finalize")
               /\ ResultKey(t) \in DOMAIN results =>
                      /\ results[ResultKey(t)] = [final |-> FALSE, items |-> results[ResultKey(t)].items]
                      /\ DOMAIN results[ResultKey(t)].items = 1..task_streams[k]
<1> DEFINE k == ScatterOf(t.sid)
           key == ResultKey(t)
<1>t. /\ t \in Task /\ t.ref \in Refs /\ t.sid \in Stream /\ t.sid \in streams /\ t \in Begun
      /\ t \notin completed /\ T(t.ref, t.sid) = t
  BY InflightIs
<1>0. ~Adrift(t.sid) BY DEF Adrift
<1>1. t.sid # Root /\ k = T(ClosedScope(t.ref), Parent(t.sid)) BY <1>0, <1>t, GatherIn
<1>2. /\ k \in Task /\ k.ref = Leaf(t.sid)[1] /\ k.sid = Parent(t.sid) /\ Action[k.ref] = "scatter"
      /\ k \in DOMAIN open_streams \/ At(k, "scattering")
  BY <1>0, <1>1, <1>t, ScatterBegun
<1>3. k \in DOMAIN open_streams BY <1>1, <1>2 DEF Fresh
<1>4. k \in DOMAIN task_streams /\ task_streams[k] \in Nat BY <1>3 DEF RInv, ScattersOK, Typed, ScopesOK
<1>5. Leaf(t.sid)[2] \in 0..task_streams[k] - 1
  <2>1. StreamFacts(t.sid, k) BY <1>1, <1>t DEF RInv, StreamsOK
  <2> QED BY <1>4, <2>1 DEF StreamFacts
<1>6. t.sid = NewStream(k.ref, Leaf(t.sid)[2], k.sid) BY <1>1, <1>2, <1>t, StreamIs
<1>7. IsStreamOf(t.sid, k) BY <1>1 DEF IsStreamOf
<1>8. k # t BY <1>2
<1>k. key = <<t.ref, Parent(t.sid)>> /\ key[1] = t.ref /\ key[2] = Parent(t.sid) BY DEF ResultKey
<1> HIDE DEF k, key
<1>9. ~Final(t.ref, Parent(t.sid))
  <2> SUFFICES ASSUME Final(t.ref, Parent(t.sid)) PROVE FALSE OBVIOUS
  <2>1. T(t.ref, t.sid) \in completed BY <1>1, <1>7, <1>t, FinalIs
  <2> QED BY <1>t, <2>1
<1>10. ASSUME NEW sid \in streams, IsStreamOf(sid, k), At(T(t.ref, sid), "finalize") PROVE FALSE
  <2> DEFINE u == T(t.ref, sid)
  <2>1. u.ref = t.ref /\ u.sid = sid BY DEF T
  <2>2. u \in DOMAIN inflight /\ inflight[u].at = "finalize" BY <1>10 DEF At
  <2> HIDE DEF u
  <2>3. t.sid # u.sid
    <3> SUFFICES ASSUME t.sid = u.sid PROVE FALSE OBVIOUS
    <3>1. u = t BY <1>t, <2>1 DEF u
    <3> QED BY <2>2, <3>1
  <2>4. ScatterOf(u.sid) = k BY <1>10, <2>1 DEF IsStreamOf
  <2>5. T(u.ref, t.sid) \in completed BY <1>7, <1>t, <2>2, <2>3, <2>4 DEF RInv, GathersOK
  <2> QED BY <1>t, <2>1, <2>5
<1>11. ASSUME key \in DOMAIN results
       PROVE  /\ results[key] = [final |-> FALSE, items |-> results[key].items]
              /\ DOMAIN results[key].items = 1..task_streams[k]
  <2>1. ListFacts(key, T(ClosedScope(key[1]), key[2])) BY <1>11 DEF RInv, GathersOK
  <2>2. ListFacts(key, k) BY <1>1, <1>k, <2>1
  <2>3. PICK final \in BOOLEAN : results[key] = [final |-> final, items |-> results[key].items]
    BY <2>2 DEF ListFacts
  <2>4. results[key].final = final BY <2>3
  <2>5. final = FALSE BY <1>9, <1>11, <1>k, <2>4 DEF Final
  <2>6. ~Final(key[1], key[2]) BY <1>9, <1>k
  <2>7. DOMAIN results[key].items = 1..task_streams[k] BY <1>10, <1>k, <2>2, <2>6 DEF ListFacts
  <2> QED BY <2>3, <2>5, <2>7
<1> QED BY <1>1, <1>2, <1>3, <1>4, <1>5, <1>6, <1>7, <1>8, <1>9, <1>10, <1>11 DEF k, key

\* Closing a stream succeeds: the list has room for its value.
LEMMA CloseIs ==
    ASSUME Typed, RInv, Regular, NEW t \in DOMAIN inflight, Action[t.ref] = "gather",
           ~Skips(t.sid), ~Fresh(t), inflight[t].at # "finalize",
           NEW value \in Values, CloseStream(t, value)
    PROVE  LET k == ScatterOf(t.sid)
           IN  /\ UNCHANGED <<streams, task_streams>>
               /\ open_streams' = [open_streams EXCEPT ![k] = @ - 1]
               /\ \E items :
                      \/ /\ open_streams[k] # 1 /\ FinishSilently(t)
                         /\ \/ results' = results
                            \/ /\ results' = With(results, ResultKey(t), [final |-> FALSE, items |-> items])
                               /\ DOMAIN items = 1..task_streams[k]
                      \/ /\ open_streams[k] = 1 /\ AwaitNext(t, "finalize")
                         /\ results' = With(results, ResultKey(t), [final |-> FALSE, items |-> items])
               /\ Records(t, value)
<1> DEFINE k == ScatterOf(t.sid)
           key == ResultKey(t)
           index == Leaf(t.sid)[2]
           n == task_streams[k]
           old == IF value # "unset" THEN CurrentList(t)
                  ELSE IF key \in DOMAIN results THEN results[key]
                  ELSE [final |-> FALSE, items |-> << >>]
           new == IF value = "unset" THEN old ELSE Write(old, index, value)
<1>1. /\ k \in DOMAIN open_streams /\ n \in Nat /\ index \in 0..n - 1
      /\ key \in DOMAIN results =>
             /\ results[key] = [final |-> FALSE, items |-> results[key].items]
             /\ DOMAIN results[key].items = 1..n
  BY ClosingIs
<1>2. \E items : CurrentList(t) = [final |-> FALSE, items |-> items] /\ DOMAIN items = 1..n
  <2>1. CASE key \in DOMAIN results BY <1>1, <2>1 DEF CurrentList
  <2>2. CASE key \notin DOMAIN results
    <3>1. CurrentList(t) = [final |-> FALSE, items |-> [i \in 1..n |-> "unset"]] BY <2>2 DEF CurrentList
    <3>2. DOMAIN [i \in 1..n |-> "unset"] = 1..n OBVIOUS
    <3> QED BY <3>1, <3>2
  <2> QED BY <2>1, <2>2
<1>3. /\ UNCHANGED <<streams, task_streams>>
      /\ open_streams' = [open_streams EXCEPT ![k] = @ - 1]
      /\ \/ /\ value # "unset" /\ ~Writable(old, index)
            /\ FailTask(t)
            /\ UNCHANGED results
         \/ /\ value = "unset" \/ Writable(old, index)
            /\ results' = IF value = "unset" /\ open_streams[k] # 1 THEN results
                          ELSE With(results, key, new)
            /\ CASE open_streams[k] # 1 -> FinishSilently(t)
                 [] open_streams[k] = 1 /\ Readable(new) -> AwaitNext(t, "finalize")
                 [] OTHER -> FailTask(t)
  BY <1>1 DEF CloseStream, IsLast
<1>c. CASE value = "unset"
  <2>1. PICK items : new = [final |-> FALSE, items |-> items] /\ (key \in DOMAIN results => new = results[key])
    BY <1>1, <1>c
  <2> HIDE DEF new, key, k
  <2>2. Readable(new) BY <2>1 DEF Readable
  <2>3. results' = results \/ results' = With(results, key, [final |-> FALSE, items |-> items])
    BY <1>3, <1>c, <2>1
  <2>4. key \in DOMAIN results => results[key].items = items BY <2>1
  <2>5. Records(t, value) BY <1>c, <2>3, <2>4 DEF Records, key
  <2> QED BY <1>3, <1>c, <2>1, <2>2, <2>5 DEF k, key
<1>d. CASE value # "unset"
  <2>1. PICK items : old = [final |-> FALSE, items |-> items] /\ DOMAIN items = 1..n BY <1>2, <1>d
  <2>2. index + 1 \in 1..n BY <1>1
  <2>n. new = [old EXCEPT !.items[index + 1] = value] BY <1>d DEF Write
  <2> HIDE DEF new, key, k, old, n, index
  <2>3. Writable(old, index) BY <2>1, <2>2 DEF Writable
  <2>4. new = [final |-> FALSE, items |-> [items EXCEPT ![index + 1] = value]] BY <2>1, <2>n
  <2>5. DOMAIN [items EXCEPT ![index + 1] = value] = 1..n BY <2>1
  <2>6. Readable(new) BY <2>4 DEF Readable
  <2>7. results' = With(results, key, new) BY <1>3, <1>d, <2>3
  <2>r. Records(t, value)
    <3> DEFINE more == [items EXCEPT ![index + 1] = value]
    <3>1. results' = With(results, key, [final |-> FALSE, items |-> more]) BY <2>4, <2>7
    <3>2. key \in DOMAIN results => results[key].items = items
      <4> SUFFICES ASSUME key \in DOMAIN results PROVE results[key].items = items OBVIOUS
      <4>1. results[key] = old BY <1>d DEF old, CurrentList, key
      <4> QED BY <2>1, <4>1
    <3>3. index + 1 \in DOMAIN more /\ more[index + 1] = value BY <2>1, <2>2
    <3>4. \A j \in DOMAIN items \ {index + 1} : j \in DOMAIN more /\ more[j] = items[j] OBVIOUS
    <3> HIDE DEF more
    <3> QED BY <3>1, <3>2, <3>3, <3>4 DEF Records, key, index
  <2>8. \/ open_streams[k] # 1 /\ FinishSilently(t)
        \/ open_streams[k] = 1 /\ AwaitNext(t, "finalize")
    BY <1>3, <1>d, <2>3, <2>6
  <2> QED BY <1>3, <2>4, <2>5, <2>7, <2>8, <2>r DEF k, key, n
<1> QED BY <1>c, <1>d

\* The streams that are closed are those that were, and that of t.
LEMMA ClosedMore ==
    ASSUME Typed, RInv, Regular, NEW t \in DOMAIN inflight, Action[t.ref] = "gather",
           ~Skips(t.sid), ~Fresh(t), inflight[t].at # "finalize", Keeps(t),
           t \in completed' \/ At(t, "finalize")'
    PROVE  LET k == ScatterOf(t.sid)
               index == Leaf(t.sid)[2]
           IN  /\ Closed(k)' = Closed(k) \cup {index} /\ index \notin Closed(k)
               /\ IsFiniteSet(Closed(k)) /\ Closed(k) \subseteq 0..task_streams[k] - 1
               /\ task_streams'[k] = task_streams[k]
               /\ \A j \in Closed(k), sid \in streams :
                      IsStreamOf(sid, k) /\ Leaf(sid)[2] = j => T(t.ref, sid) \in completed
<1> DEFINE k == ScatterOf(t.sid)
           index == Leaf(t.sid)[2]
           U(g, i) == T(g, NewStream(k.ref, i, k.sid))
<1>t. /\ t \in Task /\ t.ref \in Refs /\ t.sid \in Stream /\ t.sid \in streams /\ t \in Begun
      /\ t \notin completed /\ T(t.ref, t.sid) = t
  BY InflightIs
<1>1. /\ k = T(ClosedScope(t.ref), Parent(t.sid))
      /\ k \in Task /\ k # t /\ IsStreamOf(t.sid, k)
      /\ k \in DOMAIN open_streams /\ k \in DOMAIN task_streams /\ task_streams[k] \in Nat
      /\ index \in 0..task_streams[k] - 1
      /\ t.sid = NewStream(k.ref, index, k.sid)
      /\ \A sid \in streams : IsStreamOf(sid, k) => ~At(T(t.ref, sid), "finalize")
  BY ClosingIs
<1>2. task_streams'[k] = task_streams[k] BY <1>1 DEF Keeps
<1> HIDE DEF k, index
<1>3. \A i \in 0..task_streams[k] - 1, g \in Refs :
          /\ U(g, i) \in Task /\ U(g, i).ref = g /\ U(g, i).sid = NewStream(k.ref, i, k.sid)
          /\ U(g, i).sid \in Stream /\ ~Skips(U(g, i).sid) /\ Leaf(U(g, i).sid)[2] = i
  <2> TAKE i \in 0..task_streams[k] - 1, g \in Refs
  <2> DEFINE u == U(g, i)
  <2>1. k \in Task /\ i \in Nat /\ g \in Refs /\ u = T(g, NewStream(k.ref, i, k.sid)) BY <1>1
  <2> HIDE DEF u
  <2>2. /\ u \in Task /\ u.ref = g /\ u.sid = NewStream(k.ref, i, k.sid)
        /\ u.sid \in Stream /\ ~Skips(u.sid) /\ Leaf(u.sid)[2] = i
    BY ONLY <2>1, ClosedBy
  <2> QED BY <2>2 DEF u
<1>4. U(t.ref, index) = t BY <1>1, <1>t
<1>5. ASSUME NEW i \in 0..task_streams[k] - 1, NEW g \in Refs, Action[g] = "gather", U(g, i) # t
      PROVE  (U(g, i) \in completed' \/ At(U(g, i), "finalize")') <=> (U(g, i) \in completed \/ At(U(g, i), "finalize"))
  <2> DEFINE u == U(g, i)
  <2> HIDE DEF u
  <2>u. u # t BY <1>5 DEF u
  <2>1. u \in completed' <=> u \in completed BY <2>u DEF Keeps
  <2>2. At(u, "finalize")' <=> At(u, "finalize") BY <2>u DEF Keeps, At
  <2> QED BY <2>1, <2>2 DEF u
<1>6. ~At(t, "finalize") BY DEF At
<1>7. ASSUME NEW g \in Refs, Action[g] = "gather", U(g, index) \in completed \/ At(U(g, index), "finalize")
      PROVE  FALSE
  <2>1. T(g, t.sid) \in Begun BY <1>1, <1>7 DEF Begun, Active, At
  <2>2. ~Adrift(t.sid) BY DEF Adrift
  <2>3. g = t.ref BY <1>7, <1>t, <2>1, <2>2, OneGather
  <2> QED BY <1>4, <1>6, <1>7, <1>t, <2>3
<1>8. Closed(k) = {i \in 0..task_streams[k] - 1 :
                      \E g \in Refs : Action[g] = "gather" /\ (U(g, i) \in completed \/ At(U(g, i), "finalize"))}
  BY DEF Closed
<1>9. Closed(k)' = {i \in 0..task_streams[k] - 1 :
                      \E g \in Refs : Action[g] = "gather" /\ (U(g, i) \in completed' \/ At(U(g, i), "finalize")')}
  <2>1. Closed(k)' = {i \in 0..task_streams'[k] - 1 :
            \E g \in Refs : Action[g] = "gather" /\
                (T(g, NewStream(k.ref, i, k.sid)) \in completed' \/ At(T(g, NewStream(k.ref, i, k.sid)), "finalize")')}
    BY DEF Closed
  <2> QED BY <1>2, <2>1
<1>10. index \notin Closed(k) BY <1>7, <1>8
<1>11. index \in Closed(k)'
  <2>1. U(t.ref, index) \in completed' \/ At(U(t.ref, index), "finalize")' BY <1>4
  <2> HIDE DEF U
  <2> QED BY <1>1, <1>9, <1>t, <2>1
<1>12. \A i \in 0..task_streams[k] - 1 : i # index => \A g \in Refs : U(g, i) # t
  BY <1>3 DEF index
<1>13. \A i \in 0..task_streams[k] - 1 : i # index => (i \in Closed(k)' <=> i \in Closed(k))
  <2> HIDE DEF U
  <2> QED BY <1>5, <1>8, <1>9, <1>12
<1>14. Closed(k)' = Closed(k) \cup {index}
  <2>1. Closed(k) \subseteq 0..task_streams[k] - 1 BY <1>8
  <2>2. Closed(k)' \subseteq 0..task_streams[k] - 1 BY <1>9
  <2> QED BY <1>1, <1>11, <1>13, <2>1, <2>2
<1>15. IsFiniteSet(Closed(k)) /\ Closed(k) \subseteq 0..task_streams[k] - 1
  <2>1. Closed(k) \subseteq 0..task_streams[k] - 1 BY <1>8
  <2>2. 0 \in Int /\ task_streams[k] - 1 \in Int BY <1>1
  <2>3. IsFiniteSet(0..task_streams[k] - 1) BY <2>2, FS_Interval
  <2> QED BY <2>1, <2>3, FS_Subset
<1>16. ASSUME NEW j \in Closed(k), NEW sid \in streams, IsStreamOf(sid, k), Leaf(sid)[2] = j
       PROVE  T(t.ref, sid) \in completed
  <2>1. sid \in Stream /\ sid # Root /\ ScatterOf(sid) = k BY <1>16 DEF Typed, ScopesOK, IsStreamOf
  <2>2. sid = NewStream(k.ref, j, k.sid) BY <1>16, <2>1, StreamIs
  <2>3. PICK g \in Refs : Action[g] = "gather" /\ (T(g, sid) \in completed \/ At(T(g, sid), "finalize"))
    BY <1>8, <2>2
  <2>4. T(g, sid) \in Begun BY <2>3 DEF Begun, Active, At
  <2>5. ~Adrift(sid) BY <1>1, <2>1 DEF Adrift
  <2>6. T(g, sid).ref = g /\ T(g, sid).sid = sid BY DEF T
  <2>7. T(ClosedScope(g), Parent(sid)) = T(ClosedScope(t.ref), Parent(t.sid))
    BY <1>1, <2>1, <2>3, <2>4, <2>5, <2>6, GatherIn
  <2>8. ClosedScope(g) = ClosedScope(t.ref)
    <3>1. T(ClosedScope(g), Parent(sid)).ref = ClosedScope(g)
          /\ T(ClosedScope(t.ref), Parent(t.sid)).ref = ClosedScope(t.ref) BY DEF T
    <3> QED BY <2>7, <3>1
  <2>9. g = t.ref BY <1>t, <2>3, <2>8 DEF Regular, AllGathered
  <2> QED BY <1>1, <1>16, <2>3, <2>9
<1> QED BY <1>2, <1>10, <1>14, <1>15, <1>16 DEF k, index

\* A gather closes its stream, and goes on to finalize the list if it was the
\* last one open.
LEMMA CloseRegular ==
    ASSUME Typed, RInv, Regular, NEW t \in DOMAIN inflight, Action[t.ref] = "gather",
           ~Skips(t.sid), ~Fresh(t), inflight[t].at \notin {"scattering", "finalize"},
           NEW value \in Values, CloseStream(t, value),
           value = SkippedValue(t) \/ (value = "item" /\ inflight[t].at = "items")
    PROVE  RInv' /\ Ordered(t)
<1> DEFINE k == ScatterOf(t.sid)
           key == ResultKey(t)
           index == Leaf(t.sid)[2]
<1>t. /\ t \in Task /\ t.ref \in Refs /\ t.sid \in Stream /\ t.sid \in streams /\ t \in Begun
      /\ t \notin completed /\ T(t.ref, t.sid) = t
  BY InflightIs
<1>1. /\ k = T(ClosedScope(t.ref), Parent(t.sid)) /\ k.sid = Parent(t.sid)
      /\ k \in Task /\ k # t /\ IsStreamOf(t.sid, k)
      /\ k \in DOMAIN open_streams /\ k \in DOMAIN task_streams /\ task_streams[k] \in Nat
      /\ index \in 0..task_streams[k] - 1
      /\ t.sid = NewStream(k.ref, index, k.sid)
      /\ ~Final(t.ref, Parent(t.sid))
  BY ClosingIs
<1>2. /\ streams' = streams /\ task_streams' = task_streams
      /\ open_streams' = [open_streams EXCEPT ![k] = @ - 1]
  BY CloseIs
<1>3. PICK items :
          \/ /\ open_streams[k] # 1 /\ FinishSilently(t)
             /\ \/ results' = results
                \/ /\ results' = With(results, key, [final |-> FALSE, items |-> items])
                   /\ DOMAIN items = 1..task_streams[k]
          \/ /\ open_streams[k] = 1 /\ AwaitNext(t, "finalize")
             /\ results' = With(results, key, [final |-> FALSE, items |-> items])
  BY CloseIs
<1>k. key = <<t.ref, Parent(t.sid)>> /\ key[1] = t.ref /\ key[2] = Parent(t.sid) BY DEF ResultKey
<1>s. ScatterOf(t.sid) = k /\ ResultKey(t) = key OBVIOUS
<1> HIDE DEF k, key, index
<1>4. /\ \A u \in DOMAIN inflight \ {t} : u \in DOMAIN inflight' /\ inflight'[u] = inflight[u]
      /\ DOMAIN inflight' \subseteq DOMAIN inflight
      /\ completed' = IF t \in DOMAIN inflight' THEN completed ELSE completed \cup {t}
      /\ delivered' \subseteq delivered /\ delivered' \subseteq DOMAIN inflight'
      /\ UNCHANGED marks
      /\ t \in DOMAIN inflight' => inflight'[t].at = "finalize" /\ open_streams[k] = 1
      /\ t \in DOMAIN inflight' => results' = With(results, key, [final |-> FALSE, items |-> items])
      /\ t \notin DOMAIN inflight' =>
             \/ results' = results
             \/ /\ results' = With(results, key, [final |-> FALSE, items |-> items])
                /\ DOMAIN items = 1..task_streams[k]
  <2>1. CASE open_streams[k] # 1 /\ FinishSilently(t)
    BY <1>3, <2>1, CompleteKeeps DEF FinishSilently
  <2>2. CASE open_streams[k] = 1 /\ AwaitNext(t, "finalize")
    BY <1>3, <2>2, AwaitKeeps
  <2> QED BY <1>3, <2>1, <2>2
<1>5. /\ DOMAIN results \subseteq DOMAIN results' /\ DOMAIN results' \subseteq DOMAIN results \cup {key}
      /\ \A y \in DOMAIN results \ {key} : results'[y] = results[y]
      /\ ~Final(t.ref, Parent(t.sid))'
  <2>1. CASE results' = results BY <1>1, <2>1 DEF Final
  <2>2. CASE results' = With(results, key, [final |-> FALSE, items |-> items])
    <3>1. /\ DOMAIN results' = DOMAIN results \cup {key}
          /\ \A y \in DOMAIN results \ {key} : results'[y] = results[y]
          /\ results'[key] = [final |-> FALSE, items |-> items]
      BY <2>2 DEF With
    <3> QED BY <1>k, <3>1 DEF Final
  <2> QED BY <1>4, <2>1, <2>2
<1>6. ASSUME NEW g \in Refs, NEW sid \in Stream, Final(g, sid) PROVE Final(g, sid)'
  <2>1. <<g, sid>> # key
    <3> SUFFICES ASSUME <<g, sid>> = key PROVE FALSE OBVIOUS
    <3>1. g = t.ref /\ sid = Parent(t.sid) BY <1>k
    <3> QED BY <1>1, <1>6, <3>1
  <2> QED BY <1>5, <1>6, <2>1 DEF Final
<1>7. /\ DOMAIN open_streams' = DOMAIN open_streams
      /\ \A y \in DOMAIN open_streams \ {k} : open_streams'[y] = open_streams[y]
      /\ open_streams'[k] = open_streams[k] - 1
  BY <1>1, <1>2
<1>8. Keeps(t) BY <1>2, <1>4, <1>6, <1>7 DEF Keeps
<1>9. Grown(t) BY <1>4, GrownSame
<1>10. /\ t \notin DOMAIN task_streams /\ t \notin DOMAIN open_streams
       /\ \A sid \in streams : ~IsStreamOf(sid, t)
  BY NotScattering
<1>11. ~At(t, "scattering")' /\ ~At(t, "finalize") BY <1>4 DEF At
<1>12. Own(t) BY <1>2, <1>4, <1>7, <1>10, <1>11 DEF Own
<1>13. t \in completed' \/ At(t, "finalize")' BY <1>4 DEF At
<1>14. /\ Closed(k)' = Closed(k) \cup {index} /\ index \notin Closed(k)
       /\ IsFiniteSet(Closed(k)) /\ Closed(k) \subseteq 0..task_streams[k] - 1
       /\ \A j \in Closed(k), sid \in streams :
              IsStreamOf(sid, k) /\ Leaf(sid)[2] = j => T(t.ref, sid) \in completed
  BY <1>8, <1>11, <1>13, ClosedMore DEF k, index
<1>15. /\ Cardinality(Closed(k) \cup {index}) = Cardinality(Closed(k)) + 1
       /\ Cardinality(Closed(k)) \in Nat
  BY <1>14, FS_AddElement, FS_CardinalityType
<1>16. /\ open_streams[k] = task_streams[k] - Cardinality(Closed(k))
       /\ open_streams[k] - 1 = task_streams[k] - (Cardinality(Closed(k)) + 1)
       /\ open_streams[k] = 1 => Cardinality(Closed(k)) + 1 = task_streams[k]
  <2>1. open_streams[k] = task_streams[k] - Cardinality(Closed(k)) BY <1>1 DEF RInv, GathersOK
  <2> QED BY <1>1, <1>15, <2>1
<1>17. ASSUME NEW y \in DOMAIN open_streams'
       PROVE  open_streams'[y] = task_streams'[y] - Cardinality(Closed(y)')
  <2>1. CASE y = k
    <3>1. Cardinality(Closed(y)') = Cardinality(Closed(k)) + 1
      <4>1. Closed(y)' = Closed(k)' BY <2>1
      <4>2. Closed(y)' = Closed(k) \cup {index} BY <1>14, <4>1
      <4> QED BY <1>15, <4>2
    <3>2. open_streams'[y] = open_streams[k] - 1 /\ task_streams'[y] = task_streams[k] BY <1>2, <1>7, <2>1
    <3> QED BY <1>16, <3>1, <3>2
  <2>2. CASE y # k
    <3>1. y \in DOMAIN open_streams /\ ScatterOf(t.sid) # y BY <1>7, <1>s, <2>2
    <3>2. Closed(y)' = Closed(y) /\ task_streams'[y] = task_streams[y] BY <1>8, <3>1, ClosedKept
    <3>3. open_streams[y] = task_streams[y] - Cardinality(Closed(y)) BY <3>1 DEF RInv, GathersOK
    <3> QED BY <1>7, <2>2, <3>1, <3>2, <3>3
  <2> QED BY <2>1, <2>2
<1>18. ASSUME t \in DOMAIN inflight', NEW sid \in streams \ {t.sid}, IsStreamOf(sid, k)
       PROVE  T(t.ref, sid) \in completed
  <2> DEFINE n == task_streams[k]
             C == Closed(k) \cup {index}
  <2>1. Cardinality(C) = n BY <1>4, <1>15, <1>16, <1>18
  <2>2. C \subseteq 0..n - 1 BY <1>1, <1>14
  <2>3. IsFiniteSet(0..n - 1) /\ Cardinality(0..n - 1) = n
    <3>1. 0 \in Int /\ n - 1 \in Int BY <1>1
    <3>2. IsFiniteSet(0..n - 1) /\ Cardinality(0..n - 1) = IF 0 > n - 1 THEN 0 ELSE (n - 1) - 0 + 1
      BY <3>1, FS_Interval
    <3> QED BY <1>1, <3>2
  <2> HIDE DEF C
  <2>4. C = 0..n - 1 BY <2>1, <2>2, <2>3, FS_Subset
  <2>5. sid \in Stream /\ sid # Root /\ ScatterOf(sid) = k BY <1>18 DEF Typed, ScopesOK, IsStreamOf
  <2>6. Leaf(sid)[2] \in 0..n - 1
    <3>1. StreamFacts(sid, k) BY <2>5 DEF RInv, StreamsOK
    <3>2. n # 0 BY <1>1
    <3> QED BY <1>1, <3>1, <3>2 DEF StreamFacts
  <2>7. Leaf(sid)[2] # index
    <3>1. sid = NewStream(k.ref, Leaf(sid)[2], k.sid) BY <2>5, StreamIs
    <3> QED BY <1>1, <1>18, <3>1
  <2>8. Leaf(sid)[2] \in Closed(k) BY <2>4, <2>6, <2>7 DEF C
  <2> QED BY <1>14, <1>18, <2>8
<1>19. ASSUME NEW u \in DOMAIN inflight', inflight'[u].at = "finalize"
       PROVE  /\ ResultKey(u) \in DOMAIN results' /\ ~Final(u.ref, Parent(u.sid))'
              /\ \A sid \in streams' \ {u.sid} :
                     IsStreamOf(sid, ScatterOf(u.sid)) => T(u.ref, sid) \in completed'
  <2>1. CASE u = t
    <3>1. key \in DOMAIN results' BY <1>4, <1>19, <2>1 DEF With
    <3>2. completed' = completed BY <1>4, <1>19, <2>1
    <3>3. \A sid \in streams' \ {t.sid} : IsStreamOf(sid, k) => T(t.ref, sid) \in completed'
      BY <1>2, <1>18, <1>19, <2>1, <3>2
    <3> QED BY <1>5, <1>s, <2>1, <3>1, <3>3
  <2>2. CASE u # t
    <3>1. u \in DOMAIN inflight /\ inflight[u].at = "finalize" BY <1>4, <1>19, <2>2
    <3>2. ResultKey(u) \in DOMAIN results /\ ~Final(u.ref, Parent(u.sid)) BY <3>1 DEF RInv, GathersOK
    <3>3. ~Final(u.ref, Parent(u.sid))'
      <4>1. CASE <<u.ref, Parent(u.sid)>> = key
        <5>1. u.ref = t.ref /\ Parent(u.sid) = Parent(t.sid) BY <1>k, <4>1
        <5> QED BY <1>5, <5>1
      <4>2. CASE <<u.ref, Parent(u.sid)>> # key BY <1>5, <3>2, <4>2 DEF Final
      <4> QED BY <4>1, <4>2
    <3>4. \A sid \in streams' \ {u.sid} :
              IsStreamOf(sid, ScatterOf(u.sid)) => T(u.ref, sid) \in completed'
      BY <1>8, <1>12, <3>1, FinalizingKept
    <3> QED BY <1>5, <3>2, <3>3, <3>4
  <2> QED BY <2>1, <2>2
<1>20. ASSUME NEW y \in DOMAIN results' PROVE ListFacts(y, T(ClosedScope(y[1]), y[2]))'
  <2>1. CASE y \in DOMAIN results /\ results'[y] = results[y]
    BY <1>8, <1>9, <1>11, <1>12, <2>1, ListKept
  <2>2. CASE ~(y \in DOMAIN results /\ results'[y] = results[y])
    <3>1. y = key BY <1>5, <2>2
    <3>2. results' = With(results, key, [final |-> FALSE, items |-> items]) BY <1>4, <2>2
    <3>3. results'[key] = [final |-> FALSE, items |-> items] BY <3>2 DEF With
    <3>4. /\ \E final \in BOOLEAN : results'[key] = [final |-> final, items |-> results'[key].items]
          /\ results'[key].items = items
      <4>1. results'[key].items = items BY <3>3
      <4>2. results'[key] = [final |-> FALSE, items |-> results'[key].items] BY <3>3, <4>1
      <4> QED BY <4>1, <4>2
    <3>5. \/ DOMAIN results'[key].items = 1..task_streams'[k]
          \/ \E sid \in streams' : IsStreamOf(sid, k) /\ At(T(key[1], sid), "finalize")'
      <4>1. CASE t \in DOMAIN inflight'
        <5>1. At(T(key[1], t.sid), "finalize")' BY <1>4, <1>k, <1>t, <4>1 DEF At
        <5> QED BY <1>1, <1>2, <1>t, <5>1
      <4>2. CASE t \notin DOMAIN inflight'
        <5>1. DOMAIN items = 1..task_streams[k] BY <1>4, <2>2, <3>1, <4>2
        <5> QED BY <1>2, <3>4, <5>1
      <4> QED BY <4>1, <4>2
    <3>6. Action[key[1]] = "gather" /\ k \in DOMAIN open_streams' /\ ~Final(key[1], key[2])'
      BY <1>1, <1>5, <1>7, <1>k
    <3>7. ListFacts(key, k)' BY <3>4, <3>5, <3>6 DEF ListFacts
    <3>8. T(ClosedScope(y[1]), y[2]) = k BY <1>1, <1>k, <3>1
    <3> QED BY <3>1, <3>7, <3>8
  <2> QED BY <2>1, <2>2
<1>21. GathersOK' BY <1>17, <1>19, <1>20 DEF GathersOK
<1>22. Upshot(t)
  <2>1. visited' = visited /\ stream_exceptions' = stream_exceptions
    BY <1>3 DEF FinishSilently, AwaitNext, marks, errors
  <2> QED BY <2>1 DEF Upshot
<1>23. Recorded(t) BY CloseIs DEF Recorded
<1> QED BY <1>8, <1>9, <1>12, <1>21, <1>22, <1>23, MostKept DEF Ordered

\* The tasks that are queued are in the stream whose edges are marked.
LEMMA QueuedBeside ==
    ASSUME Typed, RInv, NEW t \in DOMAIN inflight, NEW x \in Task, Marking(t, x)
    PROVE  \A n \in Queued' : n \in Queued \/ n.sid = x.sid
<1>1. PICK unreachable \in SUBSET OutEdges(x) : QueueTasks(x, unreachable) BY DEF Marking
<1>2. \A e \in OutEdges(x) : T(e.src, e.sid) = x BY EdgesLeave
<1>3. OutEdges(x) \cap Marked = {} BY <1>2 DEF Marking, RInv, MarkersOK
<1>4. \A n \in Queued' : n \in Queued \/ Follows(n, x) BY <1>1, <1>3, QueuesOnce DEF RInv
<1> QED BY <1>4 DEF Follows

\* A gather stores its final list and the workflow goes on in the stream around.
LEMMA PublishRegular ==
    ASSUME Typed, RInv, Regular, NEW t \in DOMAIN inflight, Action[t.ref] = "gather",
           inflight[t].at \in {"finalize", "finalize_empty"}, NEW items,
           results' = With(results, ResultKey(t), [final |-> TRUE, items |-> items]),
           UNCHANGED scopes, Finish(t, Continuation(t), {})
    PROVE  RInv' /\ Ordered(t)
<1> DEFINE k == ScatterOf(t.sid)
           key == ResultKey(t)
           x == Continuation(t)
<1>t. /\ t \in Task /\ t.ref \in Refs /\ t.sid \in Stream /\ t.sid \in streams /\ t \in Begun
      /\ t \notin completed /\ T(t.ref, t.sid) = t
  BY InflightIs
<1>k. key = <<t.ref, Parent(t.sid)>> /\ key[1] = t.ref /\ key[2] = Parent(t.sid) BY DEF ResultKey
<1>s. ScatterOf(t.sid) = k /\ ResultKey(t) = key OBVIOUS
<1>0. ~Adrift(t.sid) BY DEF RInv, AwaitsOK, Adrift
<1>1. t.sid # Root /\ k = T(ClosedScope(t.ref), Parent(t.sid)) /\ IsStreamOf(t.sid, k)
  BY <1>0, <1>t, GatherIn DEF IsStreamOf
<1>2. /\ k \in Task /\ k.ref = Leaf(t.sid)[1] /\ k.sid = Parent(t.sid) /\ Action[k.ref] = "scatter"
      /\ k.ref \in Refs /\ k \in Begun /\ Placed(k)
  BY <1>1, <1>t, ScatterBegun, TaskType
<1>c. k.ref = ClosedScope(t.ref)
  <2>1. T(ClosedScope(t.ref), Parent(t.sid)).ref = ClosedScope(t.ref) BY DEF T
  <2> QED BY <1>1, <2>1
<1>3. x \in Task /\ x.ref = t.ref /\ x.sid = Parent(t.sid) BY <1>1, <1>2, <1>t, TaskType DEF Continuation, T, Task
<1>f. Complete(t) /\ QueueTasks(x, {}) BY DEF Finish
<1>r. results' = With(results, key, [final |-> TRUE, items |-> items]) OBVIOUS
<1> HIDE DEF k, key, x
<1>4. k \in DOMAIN open_streams
  <2>1. CASE inflight[t].at = "finalize_empty" BY <1>s, <2>1 DEF RInv, AwaitsOK, Adrift
  <2>2. CASE inflight[t].at = "finalize"
    <3>1. key \in DOMAIN results BY <1>s, <2>2 DEF RInv, GathersOK
    <3>2. ListFacts(key, T(ClosedScope(key[1]), key[2])) BY <3>1 DEF RInv, GathersOK
    <3> QED BY <1>1, <1>k, <3>2 DEF ListFacts
  <2> QED BY <2>1, <2>2
<1>5. k \in completed /\ k \in DOMAIN task_streams /\ ~Skips(k.sid) /\ k # t /\ k.sid \in streams
  BY <1>2, <1>4, <1>t DEF RInv, ScattersOK, PlacesOK
<1>6. ASSUME NEW sid \in streams \ {t.sid}, IsStreamOf(sid, k) PROVE T(t.ref, sid) \in completed
  <2>1. CASE inflight[t].at = "finalize_empty"
    <3>1. Skips(t.sid) BY <2>1 DEF RInv, AwaitsOK
    <3>2. StreamFacts(t.sid, k) BY <1>1, <1>t, <1>s DEF RInv, StreamsOK
    <3>3. task_streams[k] = 0 BY <1>5, <3>1, <3>2 DEF StreamFacts
    <3>4. sid \in Stream /\ sid # Root /\ ScatterOf(sid) = k BY <1>6 DEF Typed, ScopesOK, IsStreamOf
    <3>5. StreamFacts(sid, k) BY <3>4 DEF RInv, StreamsOK
    <3>6. Skips(sid) BY <1>5, <3>3, <3>5 DEF StreamFacts
    <3>7. sid = NewStream(k.ref, SkipToken, k.sid) BY <3>4, <3>6, StreamIs DEF Skips
    <3>8. t.sid = NewStream(k.ref, SkipToken, k.sid) BY <1>1, <1>s, <1>t, <3>1, StreamIs DEF Skips
    <3> QED BY <1>6, <3>7, <3>8
  <2>2. CASE inflight[t].at = "finalize" BY <1>6, <1>s, <2>2 DEF RInv, GathersOK
  <2> QED BY <2>1, <2>2
<1>7. ~Final(t.ref, Parent(t.sid))
  <2> SUFFICES ASSUME Final(t.ref, Parent(t.sid)) PROVE FALSE OBVIOUS
  <2>1. T(t.ref, t.sid) \in completed BY <1>1, <1>t, FinalIs
  <2> QED BY <1>t, <2>1
<1>8. /\ \A u \in DOMAIN inflight \ {t} : u \in DOMAIN inflight' /\ inflight'[u] = inflight[u]
      /\ DOMAIN inflight' = DOMAIN inflight \ {t} /\ t \notin DOMAIN inflight'
      /\ completed' = completed \cup {t}
      /\ delivered' \subseteq delivered /\ delivered' \subseteq DOMAIN inflight'
  BY <1>f, CompleteKeeps
<1>9. /\ streams' = streams /\ task_streams' = task_streams /\ open_streams' = open_streams
  BY DEF scopes
<1>10. /\ DOMAIN results' = DOMAIN results \cup {key}
       /\ \A y \in DOMAIN results \ {key} : results'[y] = results[y]
       /\ results'[key] = [final |-> TRUE, items |-> items]
  BY <1>r DEF With
<1>11. Final(t.ref, Parent(t.sid))' BY <1>k, <1>10 DEF Final
<1>12. ASSUME NEW g \in Refs, NEW sid \in Stream, Final(g, sid) PROVE Final(g, sid)'
  <2>1. <<g, sid>> # key
    <3> SUFFICES ASSUME <<g, sid>> = key PROVE FALSE OBVIOUS
    <3>1. g = t.ref /\ sid = Parent(t.sid) BY <1>k
    <3> QED BY <1>7, <1>12, <3>1
  <2> QED BY <1>10, <1>12, <2>1 DEF Final
<1>13. Keeps(t) BY <1>8, <1>9, <1>12 DEF Keeps
<1>14. ~At(t, "scattering")' /\ ~At(t, "finalize")' BY <1>8 DEF At
<1>15. Marking(t, x)
  <2>1. ~Opened(x) BY <1>2, <1>3, <1>5, <1>7 DEF Opened, Adrift
  <2>2. Opened(x)' BY <1>3, <1>11 DEF Opened
  <2>3. ActionScope[x.ref] = HomeOf(x.sid)
    <3>1. ActionScope[t.ref] = Home(ClosedScope(t.ref)) BY <1>t, Scoping
    <3>2. Home(k.ref) = HomeOf(k.sid) BY <1>2, <1>5 DEF Placed, Adrift
    <3> QED BY <1>2, <1>3, <1>c, <3>1, <3>2
  <2>4. Near(t, x.sid) BY <1>1, <1>3, <1>5 DEF Near
  <2>5. ~Skips(x.sid) /\ x.sid \in streams' BY <1>2, <1>3, <1>5, <1>9
  <2>6. \E unreachable \in SUBSET OutEdges(x) :
            /\ QueueTasks(x, unreachable)
            /\ Skips(x.sid) => unreachable = OutEdges(x)
            /\ At(t, "scattering")' => unreachable = {}
    BY <1>f, <2>5
  <2> QED BY <1>3, <2>1, <2>2, <2>3, <2>4, <2>5, <2>6 DEF Marking
<1>16. Grown(t) BY <1>3, <1>13, <1>15, GrownMarking
<1>17. /\ t \notin DOMAIN task_streams /\ t \notin DOMAIN open_streams
       /\ \A sid \in streams : ~IsStreamOf(sid, t)
  BY NotScattering
<1>18. ~Fresh(t) BY <1>4, <1>5, <1>s, InflightIs DEF Fresh, At
<1>19. Own(t) BY <1>8, <1>9, <1>14, <1>17, <1>18 DEF Own
<1>20. ClosesNothing(t)
  <2>1. ~Skips(t.sid) => At(t, "finalize") BY DEF RInv, AwaitsOK, At
  <2> QED BY <1>8, <2>1 DEF ClosesNothing
<1>21. \A y \in DOMAIN open_streams' : open_streams'[y] = task_streams'[y] - Cardinality(Closed(y)')
  BY <1>9, <1>13, <1>17, <1>20, OpenKept
<1>22. ASSUME NEW u \in DOMAIN inflight', inflight'[u].at = "finalize"
       PROVE  /\ ResultKey(u) \in DOMAIN results' /\ ~Final(u.ref, Parent(u.sid))'
              /\ \A sid \in streams' \ {u.sid} :
                     IsStreamOf(sid, ScatterOf(u.sid)) => T(u.ref, sid) \in completed'
  <2>1. u # t /\ u \in DOMAIN inflight /\ inflight[u].at = "finalize" BY <1>8, <1>22
  <2>2. ResultKey(u) \in DOMAIN results /\ ~Final(u.ref, Parent(u.sid)) BY <2>1 DEF RInv, GathersOK
  <2>3. ResultKey(u) # key BY <1>0, <1>s, <2>1, OneFinalizes
  <2>4. ~Final(u.ref, Parent(u.sid))' BY <1>10, <2>2, <2>3 DEF Final, ResultKey
  <2>5. \A sid \in streams' \ {u.sid} :
            IsStreamOf(sid, ScatterOf(u.sid)) => T(u.ref, sid) \in completed'
    BY <1>13, <1>19, <2>1, FinalizingKept
  <2> QED BY <1>10, <2>2, <2>4, <2>5
<1>23. ASSUME NEW sid \in streams', IsStreamOf(sid, k)
       PROVE  T(t.ref, sid) \in completed' /\ \A u \in Active' : ~Within(u.sid, sid)
  <2>1. sid \in streams /\ sid \in Stream /\ sid # Root /\ ScatterOf(sid) = k
    BY <1>9, <1>23 DEF Typed, ScopesOK, IsStreamOf
  <2>2. T(t.ref, sid) \in completed' BY <1>6, <1>8, <1>23, <1>t, <2>1
  <2>3. T(t.ref, sid) \in Begun BY <1>6, <1>23, <1>t, <2>1 DEF Begun
  <2>4. ~Adrift(sid) BY <1>4, <2>1 DEF Adrift
  <2>5. \A u \in Active : Within(u.sid, sid) => u = T(t.ref, sid) BY <1>t, <2>1, <2>3, <2>4, Alone
  <2>6. ASSUME NEW u \in Active', Within(u.sid, sid) PROVE FALSE
    <3>1. CountsOK' BY <1>13, <1>16, CountsKept
    <3>2. u \notin completed' BY <3>1 DEF CountsOK
    <3>3. CASE u \in Active BY <2>2, <2>5, <2>6, <3>2, <3>3
    <3>4. CASE u \notin Active
      <4>1. u \in Queued' /\ u \notin Queued BY <1>8, <3>4 DEF Active
      <4>2. u.sid = x.sid BY <1>3, <1>15, <4>1, QueuedBeside
      <4>3. Parent(sid) = Parent(t.sid) BY <1>2, <2>1, StreamIs
      <4> QED BY <1>3, <2>1, <2>6, <4>2, <4>3, WithinIs
    <3> QED BY <3>3, <3>4
  <2> QED BY <2>2, <2>6
<1>24. ASSUME NEW y \in DOMAIN results' PROVE ListFacts(y, T(ClosedScope(y[1]), y[2]))'
  <2>1. CASE y # key
    <3>1. y \in DOMAIN results /\ results'[y] = results[y] BY <1>10, <2>1
    <3> QED BY <1>13, <1>16, <1>19, <1>s, <2>1, <3>1, ListKept
  <2>2. CASE y = key
    <3>1. \E final \in BOOLEAN : results'[key] = [final |-> final, items |-> results'[key].items]
      <4>1. results'[key].items = items BY <1>10
      <4>2. results'[key] = [final |-> TRUE, items |-> results'[key].items] BY <1>10, <4>1
      <4> QED BY <4>2
    <3>2. Action[key[1]] = "gather" /\ k \in DOMAIN open_streams' /\ Final(key[1], key[2])'
      BY <1>4, <1>9, <1>11, <1>k
    <3>3. \A sid \in streams' : IsStreamOf(sid, k) =>
              T(key[1], sid) \in completed' /\ \A u \in Active' : ~Within(u.sid, sid)
      BY <1>23, <1>k
    <3>4. ListFacts(key, k)' BY <3>1, <3>2, <3>3 DEF ListFacts
    <3>5. T(ClosedScope(y[1]), y[2]) = k BY <1>1, <1>k, <2>2
    <3> QED BY <2>2, <3>4, <3>5
  <2> QED BY <2>1, <2>2
<1>25. GathersOK' BY <1>21, <1>22, <1>24 DEF GathersOK
<1>26. Published(t) BY <1>0, <1>r, <1>s DEF Published
<1>27. Upshot(t)
  <2>1. visited' \subseteq visited \cup OutEdges(x) /\ stream_exceptions' = stream_exceptions
    BY <1>f DEF QueueTasks, Finish, errors
  <2> QED BY <1>3, <1>26, <2>1 DEF Upshot, x
<1> QED BY <1>13, <1>16, <1>19, <1>25, <1>26, <1>27, MostKept DEF Ordered

-----------------------------------------------------------------------------
(* The steps of coroutines.                                                *)

\* A task that is not skipped is not in a stream that skips, and one of the
\* edges into it has been visited.
LEMMA Reached ==
    ASSUME Typed, RInv, NEW t \in DOMAIN inflight,
           (inflight[t].at = "new" /\ ~SkipPropagates(t)) \/ inflight[t].at = "run_if"
    PROVE  ~Skips(t.sid) /\ Entered(t)
<1>t. t \in Task /\ InEdges(t) \subseteq Marked /\ (t.sid # Root => InEdges(t) # {}) BY InflightIs
<1>1. CASE inflight[t].at = "run_if" BY <1>1 DEF RInv, AwaitsOK
<1>2. CASE ~SkipPropagates(t)
  <2>1. \A e \in InEdges(t) : e.sid = t.sid BY <1>t, InEdgesAre
  <2>2. Skips(t.sid) => InEdges(t) # {} /\ InEdges(t) \subseteq skipped
    BY <1>t, <2>1 DEF RInv, MarkersOK, Skips
  <2> QED BY <1>2, <1>t, <2>2 DEF SkipPropagates, Marked, Entered
<1> QED BY <1>1, <1>2

\* The join of a task is satisfied when everything before it was visited, and
\* when it asks for no more than one of several dependencies.
LEMMA JoinSatisfied ==
    ASSUME NEW t \in Task, Entered(t),
           InEdges(t) \subseteq visited \/ JoinStrategy[t.ref] = "any" \/ Cardinality(DependsOn[t.ref]) <= 1
    PROVE  Reachable(t)
<1> DEFINE E == InEdges(t)
           V == InEdges(t) \cap visited
<1>0. E = {} \/ V # {} BY DEF Entered
<1>1. IsFiniteSet(E) /\ Cardinality(E) = Cardinality(DependsOn[t.ref]) BY InEdgesAre
<1>2. /\ IsFiniteSet(V) /\ Cardinality(V) <= Cardinality(E) /\ Cardinality(V) \in Nat
      /\ Cardinality(E) \in Nat
  <2>1. V \in SUBSET E OBVIOUS
  <2> QED BY <1>1, <2>1, FS_Subset, FS_CardinalityType
<1>3. CASE E = {}
  <2>1. Cardinality(E) = 0 BY <1>3, FS_EmptySet
  <2> QED BY <2>1 DEF Reachable
<1>4. CASE V # {}
  <2>1. Cardinality(V) # 0 BY <1>2, <1>4, FS_EmptySet
  <2>2. Cardinality(V) > 0 /\ Cardinality(E) > 0 BY <1>2, <2>1
  <2>3. JoinStrategy[t.ref] \in {"any", "all"} BY GraphType, TaskType
  <2>4. E \subseteq visited => V = E OBVIOUS
  <2>5. E \subseteq visited => Cardinality(V) = Cardinality(E) BY <2>4
  <2>6. Cardinality(E) <= 1 => Cardinality(E) = 1 /\ Cardinality(V) = 1 BY <1>2, <2>2
  <2>7. \/ Cardinality(E) = 1 /\ Cardinality(V) = 1
        \/ Cardinality(E) > 1 /\ (JoinStrategy[t.ref] = "any" \/ Cardinality(V) = Cardinality(E))
    BY <1>1, <1>2, <2>2, <2>5, <2>6
  <2> QED BY <2>2, <2>3, <2>7 DEF Reachable
<1> QED BY <1>0, <1>3, <1>4

\* Scatters and gathers that are not skipped are reachable, and so is whatever
\* is not skipped in a stream whose scatter still creates streams.
LEMMA DependableReachable ==
    ASSUME Typed, RInv, Regular, NEW t \in DOMAIN inflight,
           Entered(t),
           Action[t.ref] \in {"scatter", "gather"} \/ Fresh(t)
    PROVE  Reachable(t)
<1>1. t \in Task /\ t.ref \in Refs BY InflightIs
<1>2. CASE Fresh(t) BY <1>1, <1>2, FreshIs, JoinSatisfied
<1>3. CASE Action[t.ref] \in {"scatter", "gather"}
  <2>1. JoinStrategy[t.ref] = "any" \/ Cardinality(DependsOn[t.ref]) <= 1
    BY <1>1, <1>3 DEF Regular, Dependable
  <2> QED BY <1>1, <2>1, JoinSatisfied
<1> QED BY <1>2, <1>3

\* In such a stream nothing is skipped, and nothing an activity returns has
\* been delivered.
LEMMA NotFresh ==
    ASSUME Typed, RInv, NEW t \in DOMAIN inflight,
           SkipPropagates(t) \/ t \in delivered \/ inflight[t].at = "scattering"
    PROVE  ~Fresh(t)
<1> SUFFICES ASSUME Fresh(t) PROVE FALSE OBVIOUS
<1>1. /\ t \notin delivered /\ InEdges(t) \subseteq visited /\ InEdges(t) # {}
      /\ inflight[t].at # "scattering"
  BY FreshIs
<1> QED BY <1>1 DEF SkipPropagates, RInv, MarkersOK

\* A coroutine that fails, or succeeds, ends and marks its edges in its stream.
LEMMA FailsHere ==
    ASSUME NEW t \in Task, NEW fail_workflow, NEW registered, Fail(t, fail_workflow, registered),
           Action[t.ref] = "action", ~Skips(t.sid), Entered(t), UNCHANGED <<scopes, results>>
    PROVE  EndsHere(t)
<1> DEFINE error_edges == {e \in OutEdges(t) : e.type = "error"}
           handled == error_edges # {} /\ ~fail_workflow
           fatal == ~handled /\ (t.sid = Root \/ fail_workflow)
<1>1. Ends(t) BY FailEnds
<1>2. Complete(t) /\ Ran(t) BY DEF Fail, Ran, Complete
<1>3. /\ stream_exceptions' = stream_exceptions \cup (IF handled \/ fatal THEN {} ELSE {t.sid})
      /\ IF fatal THEN UNCHANGED marks
         ELSE QueueTasks(t, IF handled THEN OutEdges(t) \ error_edges ELSE OutEdges(t))
  BY DEF Fail
<1>4. Upshot(t)
  <2>1. CASE fatal
    <3>1. visited' = visited /\ stream_exceptions' = stream_exceptions BY <1>3, <2>1 DEF marks
    <3> QED BY <3>1 DEF Upshot
  <2>2. CASE handled
    <3>1. QueueTasks(t, OutEdges(t) \ error_edges) /\ stream_exceptions' = stream_exceptions
      BY <1>3, <2>2
    <3>2. /\ visited' \subseteq visited \cup OutEdges(t)
          /\ \A e \in visited' \ visited : e.type = "error"
      BY <3>1 DEF QueueTasks
    <3> QED BY <1>2, <3>1, <3>2 DEF Upshot
  <2>3. CASE ~handled /\ ~fatal
    <3>1. QueueTasks(t, OutEdges(t)) /\ stream_exceptions' = stream_exceptions \cup {t.sid}
      BY <1>3, <2>3
    <3>2. visited' \subseteq visited BY <3>1 DEF QueueTasks
    <3> QED BY <1>2, <3>1, <3>2 DEF Upshot
  <2> QED BY <2>1, <2>2, <2>3
<1> QED BY <1>1, <1>4 DEF Ends, EndsHere

LEMMA SucceedsHere ==
    ASSUME NEW t \in Task, Succeed(t), Action[t.ref] = "action", ~Skips(t.sid), Entered(t),
           UNCHANGED <<scopes, results>>
    PROVE  EndsHere(t)
<1>1. Complete(t) /\ Ran(t) BY DEF Succeed, Finish, Ran, Complete
<1>2. {e \in OutEdges(t) : e.type # "success"} \in SUBSET OutEdges(t) OBVIOUS
<1>3. Upshot(t)
  <2>1. /\ visited' \subseteq visited \cup OutEdges(t) /\ stream_exceptions' = stream_exceptions
        /\ \A e \in visited' \ visited : e.type = "success"
    BY DEF Succeed, Finish, QueueTasks, errors
  <2> QED BY <1>1, <2>1 DEF Upshot
<1> QED BY <1>1, <1>2, <1>3 DEF Succeed, Finish, EndsHere

LEMMA SkippedHere ==
    ASSUME NEW t, Finish(t, t, OutEdges(t)), UNCHANGED <<scopes, results>>
    PROVE  EndsHere(t)
<1>1. OutEdges(t) \in SUBSET OutEdges(t) OBVIOUS
<1>2. Upshot(t) BY DEF Upshot, Finish, QueueTasks, errors
<1> QED BY <1>1, <1>2 DEF Finish, EndsHere

\* _handle_skip_path
LEMMA SkipPathRegular ==
    ASSUME Typed, RInv, Regular, NEW t \in DOMAIN inflight, inflight[t].at \in {"new", "run_if"},
           ~Fresh(t), SkipPath(t)
    PROVE  RInv' /\ Ordered(t)
<1>t. t \in Task /\ t.ref \in Refs /\ t \in Begun /\ t.sid \in streams BY InflightIs
<1>1. Action[t.ref] \in {"action", "scatter", "gather"} BY <1>t DEF Regular
<1>2. CASE Action[t.ref] = "action"
  <2>1. Finish(t, t, OutEdges(t)) /\ UNCHANGED <<scopes, results>> BY <1>2 DEF SkipPath
  <2> QED BY <1>2, <2>1, SkippedHere, EndsRegular
<1>3. CASE Action[t.ref] = "scatter"
  <2>1. SkipStream(t) /\ UNCHANGED <<task_streams, open_streams>> /\ results' = results
    BY <1>3 DEF SkipPath
  <2> QED BY <1>3, <2>1, SkipRegular
<1>4. CASE Action[t.ref] = "gather"
  <2>1. HandleGather(t, TRUE) BY <1>4 DEF SkipPath
  <2>2. t.sid # Root BY <1>4, <1>t, GatherIn
  <2>3. CASE Skips(t.sid)
    <3>1. /\ IF ScatterOf(t.sid) \in DOMAIN open_streams
             THEN AwaitNext(t, "finalize_empty")
             ELSE Finish(t, t, OutEdges(t))
          /\ UNCHANGED <<scopes, loops, results, executions>>
      BY <2>1, <2>2, <2>3 DEF HandleGather, InSkipStream, Skips
    <3>2. UNCHANGED <<scopes, results>> BY <3>1
    <3>3. CASE ScatterOf(t.sid) \in DOMAIN open_streams
      <4>1. AwaitNext(t, "finalize_empty") /\ ~Adrift(t.sid) BY <3>1, <3>3 DEF Adrift
      <4> QED BY <2>3, <3>2, <4>1, AwaitRegular
    <3>4. CASE ScatterOf(t.sid) \notin DOMAIN open_streams
      <4>1. Finish(t, t, OutEdges(t)) /\ Adrift(t.sid) BY <2>3, <3>1, <3>4 DEF Adrift
      <4> QED BY <1>4, <3>2, <4>1, SkippedHere, EndsRegular
    <3> QED BY <3>3, <3>4
  <2>4. CASE ~Skips(t.sid)
    <3>1. CloseStream(t, SkippedValue(t)) BY <2>1, <2>2, <2>4 DEF HandleGather, InSkipStream, Skips
    <3>2. SkippedValue(t) \in Values BY DEF SkippedValue, Values
    <3> QED BY <1>4, <2>4, <3>1, <3>2, CloseRegular
  <2> QED BY <2>3, <2>4
<1> QED BY <1>1, <1>2, <1>3, <1>4

\* Steps 3) and 4) of _schedule_task
LEMMA DispatchRegular ==
    ASSUME Typed, RInv, Regular, NEW t \in DOMAIN inflight,
           (inflight[t].at = "new" /\ ~SkipPropagates(t)) \/ inflight[t].at = "run_if", Dispatch(t)
    PROVE  RInv' /\ Ordered(t)
<1>t. t \in Task /\ t.ref \in Refs /\ t \in Begun /\ t.sid \in streams BY InflightIs
<1>1. Action[t.ref] \in {"action", "scatter", "gather"} /\ ActionLimit = NoLimit
  BY <1>t DEF Regular, Dependable
<1>2. ~Skips(t.sid) /\ Entered(t) BY Reached
<1>3. inflight[t].at \notin {"scattering", "finalize"} OBVIOUS
<1>4. CASE ~Reachable(t)
  <2>1. Action[t.ref] = "action" /\ ~Fresh(t) BY <1>1, <1>2, <1>4, DependableReachable
  <2>2. Fail(t, FALSE, {}) /\ UNCHANGED <<scopes, results>> BY <1>4 DEF Dispatch, FailTask
  <2> QED BY <1>2, <1>3, <1>t, <2>1, <2>2, FailsHere, EndsRegular
<1>5. CASE Reachable(t)
  <2>1. CASE Action[t.ref] = "action"
    <3>1. StartExecution(t) /\ UNCHANGED <<scopes, loops, results>> BY <1>5, <2>1 DEF Dispatch
    <3>2. AwaitNext(t, "execute") /\ UNCHANGED <<scopes, results>> BY <1>1, <3>1 DEF StartExecution
    <3> QED BY <1>2, <1>3, <3>2, AwaitRegular
  <2>2. CASE Action[t.ref] = "scatter"
    <3>1. AwaitNext(t, "collection") /\ UNCHANGED <<scopes, results>> BY <1>5, <2>2 DEF Dispatch
    <3> QED BY <1>2, <1>3, <3>1, AwaitRegular
  <2>3. CASE Action[t.ref] = "gather"
    <3>1. HandleGather(t, FALSE) BY <1>5, <2>3 DEF Dispatch
    <3>2. t.sid # Root BY <1>t, <2>3, GatherIn
    <3>3. AwaitNext(t, "items") /\ UNCHANGED <<scopes, results>>
      BY <1>2, <3>1, <3>2 DEF HandleGather, InSkipStream, Skips
    <3> QED BY <1>2, <1>3, <3>3, AwaitRegular
  <2> QED BY <1>1, <2>1, <2>2, <2>3
<1> QED BY <1>4, <1>5

LEMMA BeginRegular ==
    ASSUME Typed, RInv, Regular, NEW t \in DOMAIN inflight, Begin(t)
    PROVE  RInv' /\ Ordered(t)
<1>1. inflight[t].at = "new" BY DEF Begin, At
<1>2. CASE SkipPropagates(t) /\ SkipPath(t) BY <1>1, <1>2, NotFresh, SkipPathRegular
<1>3. CASE ~SkipPropagates(t) /\ AwaitNext(t, "run_if") /\ UNCHANGED <<scopes, loops, results, executions>>
  <2>1. ~Skips(t.sid) /\ Entered(t) BY <1>1, <1>3, Reached
  <2>2. AwaitNext(t, "run_if") /\ UNCHANGED <<scopes, results>> BY <1>3
  <2> QED BY <1>1, <2>1, <2>2, AwaitRegular
<1>4. CASE ~SkipPropagates(t) /\ Dispatch(t) BY <1>1, <1>4, DispatchRegular
<1> QED BY <1>2, <1>3, <1>4 DEF Begin

\* An ordinary action fails.
LEMMA FailRegular ==
    ASSUME Typed, RInv, Regular, NEW t \in DOMAIN inflight, t \in delivered, ~Skips(t.sid),
           inflight[t].at \in {"run_if", "execute"}, Action[t.ref] = "action",
           NEW fail_workflow, Fail(t, fail_workflow, {}), UNCHANGED <<scopes, results>>
    PROVE  RInv' /\ Ordered(t)
<1>1. ~Fresh(t) BY NotFresh
<1>2. t \in Task /\ Entered(t) BY InflightIs DEF RInv, AwaitsOK
<1>3. EndsHere(t) BY <1>2, FailsHere
<1> QED BY <1>1, <1>3, EndsRegular

LEMMA EvaluateRunIfRegular ==
    ASSUME Typed, RInv, Regular, NEW t \in DOMAIN inflight, EvaluateRunIf(t)
    PROVE  RInv' /\ Ordered(t)
<1>1. inflight[t].at = "run_if" /\ t \in delivered BY DEF EvaluateRunIf, CanEnd, At
<1>2. CASE SkipPath(t) BY <1>1, <1>2, NotFresh, SkipPathRegular
<1>3. CASE Dispatch(t) BY <1>1, <1>3, DispatchRegular
<1>4. CASE t.ref \in Fallible /\ FailTask(t) /\ UNCHANGED <<scopes, loops, results, executions>>
  <2>1. Action[t.ref] = "action" BY <1>4, InflightIs DEF Regular, Dependable
  <2>2. ~Skips(t.sid) BY <1>1, Reached
  <2>3. Fail(t, FALSE, {}) /\ UNCHANGED <<scopes, results>> BY <1>4 DEF FailTask
  <2> QED BY <1>1, <2>1, <2>2, <2>3, FailRegular
<1> QED BY <1>2, <1>3, <1>4 DEF EvaluateRunIf

\* What waits for its activity is not in a stream that skips, and a coroutine
\* makes only the awaits of its kind.
LEMMA AwaitIs ==
    ASSUME Typed, RInv, Regular, NEW t \in DOMAIN inflight
    PROVE  /\ inflight[t].at \notin {"new", "finalize_empty"} => ~Skips(t.sid)
           /\ inflight[t].at \in {"collection", "scattering"} =>
                  Action[t.ref] = "scatter" /\ t.ref \notin Fallible
           /\ inflight[t].at \in {"items", "finalize", "finalize_empty"} =>
                  Action[t.ref] = "gather" /\ t.ref \notin Fallible /\ ErrorStrategy[t.ref] # "raise"
           /\ inflight[t].at = "execute" => Action[t.ref] = "action"
           /\ inflight[t].at \notin {"loop_start", "condition"}
<1>1. t.ref \in Refs BY InflightIs
<1>2. AwaitFits(t, inflight[t].at) BY DEF Typed, ControlOK
<1>3. inflight[t].at \notin {"new", "finalize_empty"} => ~Skips(t.sid) BY DEF RInv, AwaitsOK
<1> QED BY <1>1, <1>2, <1>3 DEF AwaitFits, Regular, Dependable

LEMMA ExecuteDoneRegular ==
    ASSUME Typed, RInv, Regular, NEW t \in DOMAIN inflight, ExecuteDone(t)
    PROVE  RInv' /\ Ordered(t)
<1>1. inflight[t].at = "execute" /\ t \in delivered /\ UNCHANGED <<scopes, results>>
  BY DEF ExecuteDone, CanEnd, At
<1>2. ~Skips(t.sid) /\ ~Fresh(t) /\ Action[t.ref] = "action" BY <1>1, AwaitIs, NotFresh
<1>3. CASE Succeed(t)
  <2>t. t \in Task /\ Entered(t) BY <1>1, InflightIs DEF RInv, AwaitsOK
  <2>1. EndsHere(t) BY <1>1, <1>2, <1>3, <2>t, SucceedsHere
  <2> QED BY <1>1, <1>2, <2>1, EndsRegular
<1>4. CASE FailTask(t)
  <2>1. Fail(t, FALSE, {}) BY <1>4 DEF FailTask
  <2> QED BY <1>1, <1>2, <2>1, FailRegular
<1>5. CASE Fail(t, TRUE, {}) BY <1>1, <1>2, <1>5, FailRegular
<1> QED BY <1>3, <1>4, <1>5 DEF ExecuteDone

LEMMA ScatterCollectionRegular ==
    ASSUME Typed, RInv, Regular, NEW t \in DOMAIN inflight, ScatterCollection(t)
    PROVE  RInv' /\ Ordered(t)
<1>1. inflight[t].at = "collection" /\ t \in delivered /\ results' = results
  BY DEF ScatterCollection, CanEnd, At
<1>2. Action[t.ref] = "scatter" /\ t.ref \notin Fallible /\ ~Skips(t.sid) /\ ~Fresh(t)
  BY <1>1, AwaitIs, NotFresh
<1>3. CASE /\ task_streams' = With(task_streams, t, 0) /\ open_streams' = With(open_streams, t, 0)
           /\ SkipStream(t)
  <2>1. Entered(t) BY <1>1 DEF RInv, AwaitsOK
  <2> QED BY <1>1, <1>2, <1>3, <2>1, SkipRegular
<1>4. ASSUME NEW n \in Sizes[t.ref] \ {0},
             task_streams' = With(task_streams, t, 1), CreateStream(t, 0),
             inflight' = [inflight EXCEPT ![t] = [at |-> "scattering", made |-> 1, left |-> n - 1]],
             delivered' = delivered \ {t}, UNCHANGED <<main, completed, errors, open_streams>>
      PROVE  RInv' /\ Ordered(t)
  <2> DEFINE left == n - 1
  <2>1. 0 \in Nat /\ 0 + 1 = 1 OBVIOUS
  <2>2. inflight' = [inflight EXCEPT ![t] = [at |-> "scattering", made |-> 0 + 1, left |-> left]]
    BY <1>4, <2>1
  <2>3. task_streams' = With(task_streams, t, 0 + 1) BY <1>4, <2>1
  <2>4. delivered' \subseteq delivered /\ UNCHANGED <<completed, open_streams, results, errors>> BY <1>1, <1>4
  <2> HIDE DEF left
  <2> QED BY <1>1, <1>2, <1>4, <2>1, <2>2, <2>3, <2>4, CreateRegular
<1> QED BY <1>2, <1>3, <1>4 DEF ScatterCollection

LEMMA ScatterItemRegular ==
    ASSUME Typed, RInv, Regular, NEW t \in DOMAIN inflight, ScatterItem(t)
    PROVE  RInv' /\ Ordered(t)
<1> DEFINE i == inflight[t].made
           left == inflight[t].left - 1
<1>1. inflight[t].at = "scattering" BY DEF ScatterItem, At
<1>2. Action[t.ref] = "scatter" /\ ~Skips(t.sid) /\ ~Fresh(t) BY <1>1, AwaitIs, NotFresh
<1>3. t \in DOMAIN task_streams /\ task_streams[t] = i BY <1>1 DEF RInv, ScattersOK
<1>4. i \in Nat BY <1>3 DEF Typed, ScopesOK
<1>5. CreateStream(t, i) BY DEF ScatterItem
<1>6. inflight' = [inflight EXCEPT ![t] = [at |-> "scattering", made |-> i + 1, left |-> left]]
  BY DEF ScatterItem
<1>7. task_streams' = With(task_streams, t, i + 1)
  BY <1>3 DEF ScatterItem, With, Typed, ScopesOK
<1>8. delivered' \subseteq delivered /\ UNCHANGED <<completed, open_streams, results, errors>> BY DEF ScatterItem
<1> HIDE DEF i, left
<1> QED BY <1>1, <1>2, <1>3, <1>4, <1>5, <1>6, <1>7, <1>8, CreateRegular

LEMMA GatherItemRegular ==
    ASSUME Typed, RInv, Regular, NEW t \in DOMAIN inflight, GatherItem(t)
    PROVE  RInv' /\ Ordered(t)
<1>1. inflight[t].at = "items" /\ t \in delivered BY DEF GatherItem, CanEnd, At
<1>2. Action[t.ref] = "gather" /\ t.ref \notin Fallible /\ ~Skips(t.sid) /\ ~Fresh(t)
  BY <1>1, AwaitIs, NotFresh
<1>3. CloseStream(t, "item") /\ "item" \in Values BY <1>2 DEF GatherItem, Values
<1> QED BY <1>1, <1>2, <1>3, CloseRegular

LEMMA GatherFinalizedRegular ==
    ASSUME Typed, RInv, Regular, NEW t \in DOMAIN inflight, GatherFinalized(t)
    PROVE  RInv' /\ Ordered(t)
<1> DEFINE key == ResultKey(t)
           final == Finalized(results[key], ErrorStrategy[t.ref])
<1>1. inflight[t].at = "finalize" BY DEF GatherFinalized, CanEnd, At
<1>2. Action[t.ref] = "gather" /\ t.ref \notin Fallible /\ ErrorStrategy[t.ref] # "raise"
  BY <1>1, AwaitIs
<1>3. /\ results' = [results EXCEPT ![key] = final]
      /\ Finish(t, Continuation(t), {}) /\ UNCHANGED scopes
  BY <1>2 DEF GatherFinalized
<1>4. key \in DOMAIN results BY <1>1 DEF RInv, GathersOK
<1>5. PICK items : final = [final |-> TRUE, items |-> items] BY DEF Finalized
<1>6. results' = [x \in DOMAIN results |-> IF x = key THEN final ELSE results[x]] BY <1>3
<1>7. results' = With(results, key, final)
  <2>1. DOMAIN results \cup {key} = DOMAIN results BY <1>4
  <2> QED BY <1>6, <2>1 DEF With
<1> QED BY <1>1, <1>2, <1>3, <1>5, <1>7, PublishRegular

LEMMA EmptyGatherRegular ==
    ASSUME Typed, RInv, Regular, NEW t \in DOMAIN inflight, EmptyGatherFinalized(t)
    PROVE  RInv' /\ Ordered(t)
<1>1. inflight[t].at = "finalize_empty" BY DEF EmptyGatherFinalized, CanEnd, At
<1>2. Action[t.ref] = "gather" /\ t.ref \notin Fallible BY <1>1, AwaitIs
<1>3. /\ results' = With(results, ResultKey(t), [final |-> TRUE, items |-> << >>])
      /\ Finish(t, Continuation(t), {}) /\ UNCHANGED scopes
  BY <1>2 DEF EmptyGatherFinalized
<1> QED BY <1>1, <1>2, <1>3, PublishRegular

\* Until start() stops, every step of a coroutine keeps the invariant.
LEMMA TaskRegular ==
    ASSUME Typed, RInv, Regular, Running, NEW t \in DOMAIN inflight, TaskStep(t)
    PROVE  RInv' /\ Ordered(t)
<1>1. ~Cancelled(t) BY DEF Cancelled, Running
<1>2. ~LoopStartDone(t) /\ ~LoopEndDone(t) BY AwaitIs DEF LoopStartDone, LoopEndDone, CanEnd, At
<1> QED BY <1>1, <1>2, BeginRegular, EvaluateRunIfRegular, ExecuteDoneRegular,
           ScatterCollectionRegular, ScatterItemRegular, ScatteredRegular, GatherItemRegular,
           GatherFinalizedRegular, EmptyGatherRegular
        DEF TaskStep

-----------------------------------------------------------------------------
(* The steps of start() and of Temporal, and the initial states.           *)

\* Tasks are spawned or outcomes delivered; nothing else changes.
Goes ==
    /\ ScheduledOnce' /\ Active' = Active /\ DOMAIN inflight \subseteq DOMAIN inflight'
    /\ \A t \in DOMAIN inflight' :
           IF t \in DOMAIN inflight THEN inflight'[t] = inflight[t]
           ELSE inflight'[t] = Awaiting("new")
    /\ delivered' \subseteq DOMAIN inflight'
    /\ delivered' \subseteq delivered \/ \A t \in DOMAIN inflight : inflight[t].at # "scattering"
    /\ completed' = completed /\ indegrees' = indegrees /\ visited' = visited /\ skipped' = skipped
    /\ streams' = streams /\ task_streams' = task_streams /\ open_streams' = open_streams
    /\ results' = results

LEMMA GoesRegular ==
    ASSUME Typed, RInv, Goes
    PROVE  RInv'
<1>1. Begun' = Begun /\ Marked' = Marked BY DEF Begun, Marked, Goes
<1>2. \A t : /\ (At(t, "scattering")' <=> At(t, "scattering"))
             /\ (At(t, "finalize")' <=> At(t, "finalize"))
  <2>1. Awaiting("new").at = "new" BY DEF Awaiting
  <2> QED BY <2>1 DEF At, Goes
<1>3. ASSUME NEW t \in DOMAIN inflight', inflight'[t].at # "new"
      PROVE  t \in DOMAIN inflight /\ inflight'[t] = inflight[t]
  <2>1. Awaiting("new").at = "new" BY DEF Awaiting
  <2> QED BY <1>3, <2>1 DEF Goes
<1>4. \A sid : Adrift(sid)' <=> Adrift(sid) BY DEF Adrift, Goes
<1>5. \A g, sid : Final(g, sid)' <=> Final(g, sid) BY DEF Final, Goes
<1>6. \A t : Placed(t)' <=> Placed(t) BY <1>4 DEF Placed
<1>7. \A x : Opened(x) => Opened(x)'
  <2> SUFFICES ASSUME NEW x, Opened(x) PROVE Opened(x)' OBVIOUS
  <2>1. Final(x.ref, x.sid)' <=> Final(x.ref, x.sid) BY <1>5
  <2>2. Adrift(x.sid)' <=> Adrift(x.sid) BY <1>4
  <2> QED BY <2>1, <2>2 DEF Opened, Goes
<1>8. PlacesOK' BY <1>1, <1>6 DEF RInv, PlacesOK, Goes
<1>9. CountsOK' BY <1>1 DEF RInv, CountsOK, Goes
<1>10. MarkersOK' BY <1>1, <1>7 DEF RInv, MarkersOK, Goes
<1>11. StreamsOK'
  <2>1. ASSUME NEW sid \in streams \ {Root} PROVE StreamFacts(sid, ScatterOf(sid))'
    <3> DEFINE k == ScatterOf(sid)
    <3>1. StreamFacts(sid, k) BY DEF RInv, StreamsOK
    <3>2. At(k, "scattering")' <=> At(k, "scattering") BY <1>2
    <3> HIDE DEF k
    <3>3. StreamFacts(sid, k)' BY <3>1, <3>2 DEF StreamFacts, Goes
    <3> QED BY <3>3 DEF k
  <2> QED BY <2>1 DEF RInv, StreamsOK, Goes
<1>12. ScattersOK'
  <2>1. \A t \in DOMAIN inflight' : inflight'[t].at = "scattering" =>
            t \in DOMAIN inflight /\ inflight'[t] = inflight[t]
    BY <1>3
  <2>2. \A k : Entered(k)' <=> Entered(k) BY DEF Entered, Goes
  <2> QED BY <1>2, <2>1, <2>2 DEF RInv, ScattersOK, Goes
<1>13. AwaitsOK'
  <2>1. ASSUME NEW t \in DOMAIN inflight'
        PROVE  /\ Skips(t.sid) => inflight'[t].at \in {"new", "finalize_empty"}
               /\ inflight'[t].at = "finalize_empty" => Skips(t.sid) /\ ~Adrift(t.sid)'
               /\ inflight'[t].at \in {"run_if", "execute", "collection", "scattering", "items"} => Entered(t)'
    <3>1. CASE inflight'[t].at = "new" BY <3>1
    <3>2. CASE inflight'[t].at # "new"
      <4>1. t \in DOMAIN inflight /\ inflight'[t] = inflight[t] BY <1>3, <3>2
      <4>2. Adrift(t.sid)' <=> Adrift(t.sid) BY <1>4
      <4>3. Entered(t)' <=> Entered(t) BY DEF Entered, Goes
      <4> QED BY <4>1, <4>2, <4>3 DEF RInv, AwaitsOK, Goes
    <3> QED BY <3>1, <3>2
  <2> QED BY <2>1 DEF AwaitsOK, Goes
<1>14. FreshOK'
  <2> SUFFICES ASSUME NEW k \in DOMAIN inflight', inflight'[k].at = "scattering"
               PROVE  /\ \A e \in Marked : IsStreamOf(e.sid, k) => e \in visited
                      /\ \A t \in Begun : IsStreamOf(t.sid, k) =>
                             /\ t \in Active /\ t \notin delivered'
                             /\ t \in DOMAIN inflight' => inflight'[t].at \in
                                    {"new", "run_if", "execute", "collection", "items"}
    BY <1>1 DEF FreshOK, Goes
  <2>1. k \in DOMAIN inflight /\ inflight[k].at = "scattering" BY <1>3
  <2>2. delivered' \subseteq delivered BY <2>1 DEF Goes
  <2>3. /\ \A e \in Marked : IsStreamOf(e.sid, k) => e \in visited
        /\ \A t \in Begun : IsStreamOf(t.sid, k) =>
               /\ t \in Active /\ t \notin delivered
               /\ t \in DOMAIN inflight => inflight[t].at \in
                      {"new", "run_if", "execute", "collection", "items"}
    BY <2>1 DEF RInv, FreshOK
  <2>4. ASSUME NEW t \in Begun, IsStreamOf(t.sid, k), t \in DOMAIN inflight'
        PROVE  inflight'[t].at \in {"new", "run_if", "execute", "collection", "items"}
    BY <1>3, <2>3, <2>4
  <2> QED BY <2>2, <2>3, <2>4
<1>15. GathersOK'
  <2>1. \A k : Closed(k)' = Closed(k)
    <3> SUFFICES ASSUME NEW k PROVE Closed(k)' = Closed(k) OBVIOUS
    <3>1. \A g, i : LET t == T(g, NewStream(k.ref, i, k.sid))
                    IN  (t \in completed' \/ At(t, "finalize")') <=> (t \in completed \/ At(t, "finalize"))
      BY <1>2 DEF Goes
    <3> QED BY <3>1 DEF Closed, Goes
  <2>2. \A k \in DOMAIN open_streams' :
            open_streams'[k] = task_streams'[k] - Cardinality(Closed(k)')
    <3> SUFFICES ASSUME NEW k \in DOMAIN open_streams'
                 PROVE  open_streams'[k] = task_streams'[k] - Cardinality(Closed(k)')
      OBVIOUS
    <3>1. open_streams[k] = task_streams[k] - Cardinality(Closed(k)) BY DEF RInv, GathersOK, Goes
    <3>2. Closed(k)' = Closed(k) BY <2>1
    <3> QED BY <3>1, <3>2 DEF Goes
  <2>3. ASSUME NEW t \in DOMAIN inflight', inflight'[t].at = "finalize"
        PROVE  /\ ResultKey(t) \in DOMAIN results' /\ ~Final(t.ref, Parent(t.sid))'
               /\ \A sid \in streams' \ {t.sid} :
                      IsStreamOf(sid, ScatterOf(t.sid)) => T(t.ref, sid) \in completed'
    <3>1. t \in DOMAIN inflight /\ inflight[t].at = "finalize" BY <1>3, <2>3
    <3>2. Final(t.ref, Parent(t.sid))' <=> Final(t.ref, Parent(t.sid)) BY <1>5
    <3> QED BY <3>1, <3>2 DEF RInv, GathersOK, Goes
  <2>4. ASSUME NEW key \in DOMAIN results' PROVE ListFacts(key, T(ClosedScope(key[1]), key[2]))'
    <3> DEFINE k == T(ClosedScope(key[1]), key[2])
    <3>1. ListFacts(key, k) BY <2>4 DEF RInv, GathersOK, Goes
    <3>2. Final(key[1], key[2])' <=> Final(key[1], key[2]) BY <1>5
    <3>3. \A sid : At(T(key[1], sid), "finalize")' <=> At(T(key[1], sid), "finalize") BY <1>2
    <3> HIDE DEF k
    <3>4. ListFacts(key, k)' BY <3>1, <3>2, <3>3 DEF ListFacts, Goes
    <3> QED BY <3>4 DEF k
  <2> QED BY <2>2, <2>3, <2>4 DEF GathersOK
<1> QED BY <1>8, <1>9, <1>10, <1>11, <1>12, <1>13, <1>14, <1>15 DEF RInv

\* Every step until start() stops keeps the invariant.
LEMMA NextRegular ==
    ASSUME IInv, RInv, Regular, Running, [Next]_vars
    PROVE  RInv'
<1>0. Typed /\ ScheduledOnce /\ delivered \subseteq DOMAIN inflight
  BY DEF IInv, RInv, CountsOK, AwaitsOK
<1>1. ASSUME NEW t \in DOMAIN inflight, TaskStep(t) PROVE RInv' BY <1>0, <1>1, TaskRegular
<1>2. CASE Spawn
  <2>1. /\ ScheduledOnce' /\ Active' = Active /\ DOMAIN inflight \subseteq DOMAIN inflight'
        /\ \A t \in DOMAIN inflight' :
               IF t \in DOMAIN inflight THEN inflight'[t] = inflight[t]
               ELSE inflight'[t] = Awaiting("new")
    BY <1>0, <1>2, SpawnMoves
  <2>2. UNCHANGED <<delivered, completed, indegrees, visited, skipped, scopes, results>>
    BY <1>2 DEF Spawn
  <2>3. Goes BY <1>0, <2>1, <2>2 DEF Goes, scopes
  <2> QED BY <1>0, <2>3, GoesRegular
<1>3. ASSUME UNCHANGED <<inflight, completed, marks, scopes, results>>,
             delivered' \subseteq DOMAIN inflight,
             delivered' = delivered \/ \A t \in DOMAIN inflight : inflight[t].at # "scattering"
      PROVE  RInv'
  <2>1. ScheduledOnce' /\ Active' = Active BY <1>0, <1>3 DEF ScheduledOnce, Active, Queued, marks
  <2>2. Goes BY <1>3, <2>1 DEF Goes, marks, scopes
  <2> QED BY <1>0, <2>2, GoesRegular
<1>4. CASE Wait \/ AllCompleted \/ Stop
  <2>1. UNCHANGED <<inflight, delivered, completed, marks, scopes, results>>
    BY <1>4 DEF Wait, AllCompleted, Stop
  <2> QED BY <1>0, <1>3, <2>1
<1>5. CASE Activate
  <2>1. /\ UNCHANGED <<inflight, completed, marks, scopes, results>> /\ delivered' \subseteq DOMAIN inflight
        /\ \A t \in DOMAIN inflight : inflight[t].at # "scattering"
    BY <1>5 DEF Activate
  <2> QED BY <1>3, <2>1
<1>6. CASE UNCHANGED vars
  <2>1. UNCHANGED <<inflight, delivered, completed, marks, scopes, results>>
    BY <1>6 DEF vars, control
  <2> QED BY <1>0, <1>3, <2>1
<1>7. ~ReturnExceptions BY DEF ReturnExceptions, Running
<1> QED BY <1>1, <1>2, <1>4, <1>5, <1>6, <1>7 DEF Next

LEMMA InitRegular ==
    ASSUME Regular, Init
    PROVE  RInv
<1> DEFINE roots(w) == {x \in w : DependsOn[x] = {}}
           first(w) == {T(r, Root) : r \in roots(w)}
<1>1. PICK w \in Workflows :
         /\ indegrees = [t \in {T(r, Root) : r \in w} |-> Cardinality(DependsOn[t.ref])]
         /\ queue \in InAdjOrder(first(w))
  BY DEF Init
<1>2. /\ w \subseteq Refs /\ \A r \in w : T(r, Root) \in Task
      /\ visited = {} /\ skipped = {} /\ completed = {} /\ DOMAIN inflight = {} /\ delivered = {}
      /\ streams = {Root} /\ DOMAIN task_streams = {} /\ DOMAIN open_streams = {}
      /\ DOMAIN results = {}
  BY <1>1, GraphType, RootType, TaskType DEF Init, EmptyFcn
<1>3. first(w) \in SUBSET Task /\ IsFiniteSet(first(w)) BY FirstTasks
<1>4. /\ \A i \in DOMAIN queue : queue[i] \in first(w)
      /\ \A i, j \in DOMAIN queue : queue[i] = queue[j] => i = j
  <2> HIDE DEF first
  <2> QED BY <1>1, <1>3, InAdjOrderOnce
<1>5. Begun \subseteq first(w) /\ Active \subseteq first(w) /\ Marked = {}
  BY <1>2, <1>4 DEF Begun, Active, Queued, Marked
<1>6. \A t \in first(w) : /\ t.ref \in w /\ t.ref \in Refs /\ t.sid = Root
                          /\ DependsOn[t.ref] = {} /\ InEdges(t) = {}
  <2>1. ASSUME NEW r \in roots(w) PROVE InEdges(T(r, Root)) = {} BY DEF InEdges, T
  <2>2. \A r \in roots(w) : T(r, Root).ref = r /\ T(r, Root).sid = Root BY DEF T
  <2> QED BY <1>2, <2>1, <2>2
<1>7. DOMAIN indegrees = {T(r, Root) : r \in w} BY <1>1
<1>8. PlacesOK
  <2>1. \A t \in Begun : t.ref \in w BY <1>5, <1>6
  <2>2. \A t \in Begun : t.sid \in streams /\ Placed(t) /\ (t.sid # Root => InEdges(t) # {})
    BY <1>2, <1>5, <1>6, Scoping DEF Placed, HomeOf
  <2> QED BY <2>1, <2>2 DEF PlacesOK
<1>9. CountsOK
  <2>1. ASSUME NEW t \in DOMAIN indegrees PROVE indegrees[t] = Cardinality(InEdges(t) \ Marked)
    <3>1. t \in Task BY <1>2, <1>7
    <3>2. indegrees[t] = Cardinality(DependsOn[t.ref]) BY <1>1, <1>7
    <3>3. InEdges(t) \ Marked = InEdges(t) BY <1>5
    <3> QED BY <3>1, <3>2, <3>3, InEdgesAre
  <2>2. ScheduledOnce BY <1>2, <1>4 DEF ScheduledOnce
  <2> QED BY <1>2, <1>5, <1>6, <2>1, <2>2 DEF CountsOK
<1>10. MarkersOK BY <1>2, <1>5 DEF MarkersOK
<1>11. StreamsOK
  <2>1. \A n \in 0..Len(Root) : SubSeq(Root, 1, n) = Root BY DEF Root
  <2> QED BY <1>2, <2>1 DEF StreamsOK
<1>12. ScattersOK /\ AwaitsOK /\ FreshOK /\ GathersOK
  BY <1>2 DEF ScattersOK, AwaitsOK, FreshOK, GathersOK
<1> QED BY <1>8, <1>9, <1>10, <1>11, <1>12 DEF RInv

-----------------------------------------------------------------------------
(* What the invariant is for.                                              *)

\* A stream beside or below a sibling of base is in a stream of its scatter.
LEMMA SiblingIs ==
    ASSUME NEW sid \in Stream, NEW base \in Stream, base # Root, Len(sid) >= Len(base),
           Within(sid, Parent(base)), sid[Len(base)][1] = Leaf(base)[1]
    PROVE  LET p == SubSeq(sid, 1, Len(base))
           IN  /\ p # Root /\ Within(sid, p) /\ ScatterOf(p) = ScatterOf(base)
               /\ Len(base) \in 0..Len(sid)
<1> DEFINE E == Refs \X Index
           n == Len(base)
           p == SubSeq(sid, 1, n)
<1>1. sid \in Seq(E) /\ base \in Seq(E) BY DEF Stream, Index
<1> HIDE DEF E
<1>2. n \in Nat /\ n # 0 /\ Len(sid) \in Nat /\ n <= Len(sid) BY <1>1 DEF Root
<1>3. p \in Seq(E) /\ Len(p) = n /\ p = [j \in 1..n |-> sid[j]] BY <1>1, <1>2
<1>4. p # Root BY <1>2, <1>3 DEF Root
<1>5. Within(sid, p) BY <1>2, <1>3 DEF Within
<1>6. Leaf(p)[1] = Leaf(base)[1] BY <1>2, <1>3 DEF Leaf
<1>7. Parent(p) = Parent(base)
  <2>1. Len(Parent(base)) = n - 1 BY <1>1, <1>2, FrontIs
  <2>2. SubSeq(sid, 1, n - 1) = Parent(base) BY <2>1 DEF Within
  <2>3. Parent(p) = [j \in 1..(n - 1) |-> p[j]] BY <1>2, <1>3, FrontIs
  <2>4. SubSeq(sid, 1, n - 1) = [j \in 1..(n - 1) |-> sid[j]] BY <1>1, <1>2
  <2>5. \A j \in 1..(n - 1) : p[j] = sid[j] BY <1>2, <1>3
  <2> QED BY <2>2, <2>3, <2>4, <2>5
<1>8. n \in 0..Len(sid) BY <1>2
<1> QED BY <1>4, <1>5, <1>6, <1>7, <1>8 DEF ScatterOf

\* When a gather is being finalized, that of every other stream of the scatter
\* has completed, so nothing is left in any of them.
LEMMA RegularBarrier ==
    ASSUME Typed, RInv, Regular
    PROVE  GatherBarrier
<1> SUFFICES ASSUME NEW g \in DOMAIN inflight, inflight[g].at = "finalize", NEW t \in Active, t # g,
                    Len(t.sid) >= Len(g.sid), Within(t.sid, Parent(g.sid)),
                    t.sid[Len(g.sid)][1] = Leaf(g.sid)[1]
             PROVE  FALSE
  BY DEF GatherBarrier
<1> DEFINE k == ScatterOf(g.sid)
           p == SubSeq(t.sid, 1, Len(g.sid))
<1>g. /\ g \in Task /\ g.ref \in Refs /\ g.sid \in Stream /\ T(g.ref, g.sid) = g /\ g \in Begun
  BY InflightIs
<1>t. t \in Task /\ t.sid \in Stream /\ t.sid \in streams /\ t \notin completed
  BY BegunTasks, TaskType DEF RInv, PlacesOK, CountsOK, Begun
<1>1. Action[g.ref] = "gather" /\ ~Adrift(g.sid) BY AwaitIs DEF Adrift
<1>2. g.sid # Root /\ k = T(ClosedScope(g.ref), Parent(g.sid)) BY <1>1, <1>g, GatherIn
<1>3. k \in DOMAIN open_streams
  <2>1. ResultKey(g) \in DOMAIN results BY DEF RInv, GathersOK
  <2>2. ResultKey(g)[1] = g.ref /\ ResultKey(g)[2] = Parent(g.sid) BY DEF ResultKey
  <2>3. ListFacts(ResultKey(g), T(ClosedScope(ResultKey(g)[1]), ResultKey(g)[2]))
    BY <2>1 DEF RInv, GathersOK
  <2> QED BY <1>2, <2>2, <2>3 DEF ListFacts
<1>4. p # Root /\ Within(t.sid, p) /\ ScatterOf(p) = k /\ Len(g.sid) \in 0..Len(t.sid)
  BY <1>2, <1>g, <1>t, SiblingIs
<1>5. p \in streams BY <1>4, <1>t DEF RInv, StreamsOK
<1>k. ScatterOf(g.sid) = k OBVIOUS
<1> HIDE DEF p, k
<1>6. T(g.ref, p) \in completed \/ p = g.sid
  BY <1>4, <1>5, <1>k DEF RInv, GathersOK, IsStreamOf
<1>7. T(g.ref, p) \in Begun BY <1>6, <1>g DEF Begun
<1>8. ~Adrift(p) BY <1>3, <1>4 DEF Adrift
<1>9. t = T(g.ref, p) BY <1>1, <1>4, <1>5, <1>7, <1>8, <1>g, Alone
<1> QED BY <1>6, <1>9, <1>g, <1>t

LEMMA RegularScope ==
    ASSUME Typed, RInv, Regular
    PROVE  ExecutesInScope
<1> SUFFICES ASSUME NEW t \in DOMAIN inflight, inflight[t].at = "execute" PROVE InScope(t)
  BY DEF ExecutesInScope
<1>1. t \in Begun /\ t.ref \in Refs /\ ~Skips(t.sid) BY InflightIs, AwaitIs
<1>2. Path(t.sid) = Around(Home(t.ref)) BY <1>1, PathIs
<1>3. ScatterScopes[t.ref] = Around(Home(t.ref)) BY <1>1, AroundIs
<1> QED BY <1>2, <1>3 DEF InScope, Path

\* A coroutine that is cancelled queues tasks in its own stream only.
LEMMA CancelledQueues ==
    ASSUME Typed, NEW t \in DOMAIN inflight, Cancelled(t)
    PROVE  /\ DOMAIN inflight' = DOMAIN inflight \ {t}
           /\ \A u \in DOMAIN inflight' : inflight'[u] = inflight[u]
           /\ \A u \in Active' : u \in Active \/ u.sid = t.sid
<1>1. Complete(t) /\ (UNCHANGED marks \/ \E unreachable : QueueTasks(t, unreachable))
  BY DEF Cancelled, FinishSilently, FailTask, Fail
<1>2. /\ DOMAIN inflight' = DOMAIN inflight \ {t}
      /\ \A u \in DOMAIN inflight' : inflight'[u] = inflight[u]
  BY <1>1 DEF Complete, Without
<1>3. CASE UNCHANGED marks
  <2>1. Queued' = Queued BY <1>3 DEF marks, Queued
  <2> QED BY <1>2, <2>1 DEF Active
<1>4. ASSUME NEW unreachable, QueueTasks(t, unreachable)
      PROVE  \A u \in Queued' : u \in Queued \/ u.sid = t.sid
  <2> DEFINE next == Decremented(t)
  <2>1. PICK q \in InAdjOrder(Ready(next)) : queue' = queue \o q BY <1>4 DEF QueueTasks
  <2>2. Ready(next) \in SUBSET Task /\ IsFiniteSet(Ready(next))
    <3>1. t \in Task BY InflightType
    <3>2. DOMAIN next \in SUBSET Task /\ IsFiniteSet(DOMAIN next) BY <3>1, DecrementedType DEF Typed
    <3> QED BY <3>2, FS_Subset DEF Ready
  <2>3. \A n \in Ready(next) : n.sid = t.sid
    <3>1. ASSUME NEW e \in OutEdges(t) PROVE T(e.dst, e.sid).sid = t.sid BY DEF OutEdges, T
    <3>2. DOMAIN next = {T(e.dst, e.sid) : e \in OutEdges(t)} BY DEF Decremented
    <3> QED BY <3>1, <3>2 DEF Ready
  <2>4. q \in Seq(Task) /\ queue \in Seq(Task) /\ \A i \in DOMAIN q : q[i] \in Ready(next)
    BY <2>2, InAdjOrderType, InAdjOrderOnce, <2>1 DEF Typed, MarksOK
  <2> HIDE DEF next
  <2>5. ASSUME NEW i \in DOMAIN queue' PROVE queue'[i] \in Queued \/ queue'[i].sid = t.sid
    <3>1. CASE i <= Len(queue)
      <4>1. i \in DOMAIN queue /\ queue'[i] = queue[i] BY <2>1, <2>4, <3>1
      <4> QED BY <4>1 DEF Queued
    <3>2. CASE i > Len(queue)
      <4>1. i - Len(queue) \in DOMAIN q /\ queue'[i] = q[i - Len(queue)] BY <2>1, <2>4, <3>2
      <4> QED BY <2>3, <2>4, <4>1
    <3>3. i \in Nat /\ Len(queue) \in Nat BY <2>1, <2>4
    <3> QED BY <3>1, <3>2, <3>3
  <2> QED BY <2>5 DEF Queued
<1> QED BY <1>1, <1>2, <1>3, <1>4 DEF Active

\* Stopping: what is cancelled leaves nothing where nothing was.
LEMMA StoppingKeeps ==
    ASSUME IInv, GatherBarrier, ExecutesInScope, ~Running, [Next]_vars
    PROVE  ~Running' /\ GatherBarrier' /\ ExecutesInScope'
<1>0. Typed BY DEF IInv
<1>1. ASSUME NEW t \in DOMAIN inflight, TaskStep(t) PROVE Cancelled(t)
  BY <1>1 DEF TaskStep, Begin, EvaluateRunIf, ExecuteDone, LoopStartDone, LoopEndDone,
              ScatterCollection, ScatterItem, ScatterDone, GatherItem, GatherFinalized,
              EmptyGatherFinalized, CanEnd
<1>2. ASSUME NEW t \in DOMAIN inflight, Cancelled(t)
      PROVE  ~Running' /\ GatherBarrier' /\ ExecutesInScope'
  <2>1. /\ DOMAIN inflight' = DOMAIN inflight \ {t}
        /\ \A u \in DOMAIN inflight' : inflight'[u] = inflight[u]
        /\ \A u \in Active' : u \in Active \/ u.sid = t.sid
    BY <1>0, <1>2, CancelledQueues
  <2>2. t \in Active BY DEF Active
  <2>3. GatherBarrier'
    <3> SUFFICES ASSUME NEW g \in DOMAIN inflight', inflight'[g].at = "finalize",
                        NEW u \in Active', u # g
                 PROVE  ~(Len(u.sid) >= Len(g.sid) /\ Within(u.sid, Parent(g.sid))
                            /\ u.sid[Len(g.sid)][1] = Leaf(g.sid)[1])
      BY DEF GatherBarrier
    <3>1. g \in DOMAIN inflight /\ g # t /\ inflight[g].at = "finalize" BY <2>1
    <3>2. CASE u \in Active BY <3>1, <3>2 DEF GatherBarrier
    <3>3. CASE u.sid = t.sid BY <2>2, <3>1, <3>3 DEF GatherBarrier
    <3> QED BY <2>1, <3>2, <3>3
  <2>4. ExecutesInScope' BY <2>1 DEF ExecutesInScope, InScope
  <2>5. ~Running'
    BY <1>2 DEF Cancelled, FinishSilently, FailTask, Fail, Complete, Running
  <2> QED BY <2>3, <2>4, <2>5
<1>3. ASSUME UNCHANGED <<inflight, queue>> PROVE GatherBarrier' /\ ExecutesInScope'
  BY <1>3 DEF GatherBarrier, ExecutesInScope, Active, Queued
<1>4. CASE ReturnExceptions
  <2>1. UNCHANGED <<inflight, queue>> /\ ~Running' BY <1>4 DEF ReturnExceptions, marks, Running
  <2> QED BY <1>3, <2>1
<1>5. CASE UNCHANGED vars
  <2>1. UNCHANGED <<inflight, queue>> /\ ~Running' BY <1>5 DEF vars, control, marks, Running
  <2> QED BY <1>3, <2>1
<1>6. ~Spawn /\ ~Wait /\ ~AllCompleted /\ ~Stop /\ ~Activate
  BY DEF Spawn, Wait, AllCompleted, Stop, Activate, Running
<1> QED BY <1>1, <1>2, <1>4, <1>5, <1>6 DEF Next

\* The invariant holds until start() stops, and what it is for even then.
Gathers == RInv \/ (~Running /\ GatherBarrier /\ ExecutesInScope)

LEMMA NextGathers ==
    ASSUME Regular, IInv, Gathers, [Next]_vars
    PROVE  Gathers'
<1>1. CASE Running BY <1>1, NextRegular DEF Gathers
<1>2. CASE ~Running
  <2>1. GatherBarrier /\ ExecutesInScope BY RegularBarrier, RegularScope DEF Gathers, IInv
  <2> QED BY <1>2, <2>1, StoppingKeeps DEF Gathers
<1> QED BY <1>1, <1>2

LEMMA RegularInvariance == Regular => (Spec => [](IInv /\ Gathers))
<1> SUFFICES ASSUME Regular PROVE Spec => [](IInv /\ Gathers) OBVIOUS
<1>1. Init => Gathers BY InitRegular DEF Gathers
<1>2. IInv /\ Gathers /\ [Next]_vars => Gathers' BY NextGathers
<1> QED BY <1>1, <1>2, Invariance, PTL DEF Spec

\* In every regular workflow, scatters nested in any way and streams failing,
\* skipped or empty as they may, the gather is a barrier: the last stream to
\* close finalizes the list, and by then nothing is queued or running in any
\* other stream of the scatter or below it (_handle_gather, _handle_scatter,
\* _handle_gather_skip_stream).
THEOREM RegularGatherBarrier == Regular => (Spec => []GatherBarrier)
<1> SUFFICES ASSUME Regular PROVE Spec => []GatherBarrier OBVIOUS
<1>1. IInv /\ Gathers => GatherBarrier BY RegularBarrier DEF Gathers, IInv
<1> QED BY <1>1, RegularInvariance, PTL

\* There open_streams, set once all streams of a scatter have been created and
\* counted down by the gathers, is the number of streams that no gather has
\* closed, so that exactly one of them finds itself the last (_handle_scatter,
\* _handle_gather).
THEOREM RegularOpenStreamsExact == Regular => (Spec => []OpenStreamsExact)
<1> SUFFICES ASSUME Regular PROVE Spec => []OpenStreamsExact OBVIOUS
<1>1. Gathers => OpenStreamsExact BY DEF Gathers, OpenStreamsExact, RInv, GathersOK
<1> QED BY <1>1, RegularInvariance, PTL

\* There an action executes only in a stream of its own scope, whichever of the
\* scatters around it were skipped or had nothing to scatter (_handle_scatter,
\* _handle_scatter_skip_stream, _handle_gather_result).
THEOREM RegularExecutesInScope == Regular => (Spec => []ExecutesInScope)
<1> SUFFICES ASSUME Regular PROVE Spec => []ExecutesInScope OBVIOUS
<1>1. IInv /\ Gathers => ExecutesInScope BY RegularScope DEF Gathers, IInv
<1> QED BY <1>1, RegularInvariance, PTL

\* There, until start() stops on an exception, a task is queued once, never
\* while it runs, and its indegree is the number of edges into it still to be
\* marked, in every stream (_queue_tasks, _handle_scatter).
THEOREM RegularScheduling ==
    Regular => (Spec => [](Running => ScheduledOnce /\ IndegreesMatchEdges))
<1> SUFFICES ASSUME Regular PROVE Spec => [](Running => ScheduledOnce /\ IndegreesMatchEdges)
  OBVIOUS
<1>1. Gathers => (Running => ScheduledOnce /\ IndegreesMatchEdges)
  BY DEF Gathers, RInv, CountsOK, IndegreesMatchEdges, Marked, Begun
<1> QED BY <1>1, RegularInvariance, PTL

-----------------------------------------------------------------------------
(* Errors of streams.                                                      *)

\* The gather t has closed its stream.
HasClosed(t) ==
    Action[t.ref] = "gather" /\ ~Skips(t.sid) /\ (t \in completed \/ At(t, "finalize"))

\* The list of the gather t has the error of its stream, or the item of the
\* stream if t was reached all the same.
ListsError(t) ==
    /\ ResultKey(t) \in DOMAIN results
    /\ LET items == results[ResultKey(t)].items
           n == Leaf(t.sid)[2] + 1
       IN  /\ n \in DOMAIN items
           /\ items[n] = "error" \/ (items[n] = "item" /\ InEdges(t) \cap visited # {})

FailuresOK ==
    /\ stream_exceptions \subseteq streams
    /\ \A t \in Task :
           HasClosed(t) /\ t.sid \in stream_exceptions /\ ~Final(t.ref, Parent(t.sid)) => ListsError(t)

\* A gather that has closed its stream was there before the step of another
\* task, and so was the error of its stream.
LEMMA ClosedBefore ==
    ASSUME Typed, RInv, Regular, NEW t \in DOMAIN inflight, Ordered(t),
           NEW u \in Task, u # t, HasClosed(u)', u.sid \in stream_exceptions'
    PROVE  HasClosed(u) /\ u.sid \in stream_exceptions
<1>1. u \in completed \/ At(u, "finalize") BY DEF HasClosed, At, Ordered, Keeps
<1>2. HasClosed(u) BY <1>1 DEF HasClosed
<1>3. u \in Begun /\ T(u.ref, u.sid) = u /\ u.ref \in Refs /\ u.sid \in Stream
  BY <1>1, TaskType DEF Begun, Active, At, T, Task
<1>4. u.sid \in streams /\ ~Adrift(u.sid) BY <1>2, <1>3 DEF RInv, PlacesOK, HasClosed, Adrift
<1>5. u.sid # t.sid \/ stream_exceptions' = stream_exceptions
  <2> SUFFICES ASSUME u.sid = t.sid, stream_exceptions' # stream_exceptions PROVE FALSE OBVIOUS
  <2>1. t \in Active BY InflightIs
  <2>2. Within(t.sid, u.sid) BY <1>3, WithinIs
  <2> QED BY <1>2, <1>3, <1>4, <2>1, <2>2, Alone DEF HasClosed
<1> QED BY <1>2, <1>5 DEF Ordered, Upshot

\* What is in a list is not overwritten by the gather of another stream.
LEMMA ListedBefore ==
    ASSUME Typed, RInv, Regular, NEW t \in DOMAIN inflight, Ordered(t),
           NEW u \in Task, u # t, HasClosed(u), ~Final(u.ref, Parent(u.sid))', ListsError(u)
    PROVE  ListsError(u)'
<1> DEFINE key == ResultKey(u)
           n == Leaf(u.sid)[2] + 1
<1>0. key \in DOMAIN results /\ n \in DOMAIN results[key].items /\ visited \subseteq visited'
  BY DEF ListsError, Ordered, Grown
<1>1. SUFFICES key \in DOMAIN results' /\ n \in DOMAIN results'[key].items
               /\ results'[key].items[n] = results[key].items[n]
  BY <1>0 DEF ListsError, ResultKey
<1>2. CASE Quiet(t) BY <1>0, <1>2 DEF Quiet
<1>3. CASE Published(t)
  <2>1. PICK items : results' = With(results, ResultKey(t), [final |-> TRUE, items |-> items])
    BY <1>3 DEF Published
  <2>2. CASE key = ResultKey(t)
    <3>1. key \in DOMAIN results' /\ results'[key] = [final |-> TRUE, items |-> items]
      BY <2>1, <2>2 DEF With
    <3>2. results'[key].final = TRUE BY <3>1
    <3> QED BY <3>1, <3>2 DEF Final, ResultKey
  <2>3. CASE key # ResultKey(t)
    <3>1. key \in DOMAIN results' /\ results'[key] = results[key] BY <1>0, <2>1, <2>3 DEF With
    <3> QED BY <1>0, <3>1
  <2> QED BY <2>2, <2>3
<1>4. CASE Recorded(t)
  <2>1. PICK value \in Values : Records(t, value) BY <1>4 DEF Recorded
  <2>2. CASE results' = results BY <1>0, <2>2
  <2>3. ASSUME NEW items, results' = With(results, ResultKey(t), [final |-> FALSE, items |-> items]),
               ResultKey(t) \in DOMAIN results =>
                   \A j \in DOMAIN results[ResultKey(t)].items \ {Leaf(t.sid)[2] + 1} :
                       j \in DOMAIN items /\ items[j] = results[ResultKey(t)].items[j]
        PROVE  key \in DOMAIN results' /\ n \in DOMAIN results'[key].items
               /\ results'[key].items[n] = results[key].items[n]
    <3>1. CASE key # ResultKey(t)
      <4>1. key \in DOMAIN results' /\ results'[key] = results[key] BY <1>0, <2>3, <3>1 DEF With
      <4> QED BY <1>0, <4>1
    <3>2. CASE key = ResultKey(t)
      <4>1. u.ref = t.ref /\ Parent(u.sid) = Parent(t.sid) BY <3>2 DEF ResultKey
      <4>2. t \in Task /\ t \in Begun /\ t.sid \in Stream /\ T(t.ref, t.sid) = t /\ ~Adrift(t.sid)
        BY <1>4, InflightIs DEF Recorded, Adrift
      <4>3. u \in Begun /\ T(u.ref, u.sid) = u /\ u.sid \in Stream /\ ~Adrift(u.sid)
        BY TaskType DEF HasClosed, Begun, Active, At, T, Task, Adrift
      <4>4. t.sid # Root /\ HomeOf(t.sid) = ClosedScope(t.ref) BY <1>4, <4>2, GatherIn DEF Recorded
      <4>5. u.sid # Root /\ HomeOf(u.sid) = ClosedScope(u.ref) BY <4>3, GatherIn DEF HasClosed
      <4>6. /\ t.sid = NewStream(HomeOf(t.sid), Leaf(t.sid)[2], Parent(t.sid)) /\ Leaf(t.sid)[2] \in Index
        BY <4>2, <4>4, StreamIs
      <4>7. /\ u.sid = NewStream(HomeOf(u.sid), Leaf(u.sid)[2], Parent(u.sid)) /\ Leaf(u.sid)[2] \in Index
        BY <4>3, <4>5, StreamIs
      <4>8. Leaf(u.sid)[2] # Leaf(t.sid)[2] BY <4>1, <4>2, <4>3, <4>4, <4>5, <4>6, <4>7
      <4>9. n # Leaf(t.sid)[2] + 1
        <5>1. Leaf(u.sid)[2] \in Int /\ Leaf(t.sid)[2] \in Int BY <4>6, <4>7 DEF Index, SkipToken
        <5> QED BY <4>8, <5>1
      <4>10. n \in DOMAIN items /\ items[n] = results[key].items[n] BY <1>0, <2>3, <3>2, <4>9
      <4>11. key \in DOMAIN results' /\ results'[key] = [final |-> FALSE, items |-> items]
        BY <2>3, <3>2 DEF With
      <4>12. results'[key].items = items BY <4>11
      <4> QED BY <4>10, <4>11, <4>12
    <3> QED BY <3>1, <3>2
  <2> QED BY <2>1, <2>2, <2>3 DEF Records
<1> QED BY <1>2, <1>3, <1>4 DEF Ordered

\* The step of a coroutine keeps the errors of streams in the lists.
LEMMA TaskFailures ==
    ASSUME Typed, RInv, Regular, FailuresOK, NEW t \in DOMAIN inflight, Ordered(t)
    PROVE  FailuresOK'
<1>t. /\ t \in Task /\ t.ref \in Refs /\ t.sid \in Stream /\ t.sid \in streams /\ t \in Begun
      /\ t \notin completed /\ (t.sid # Root => InEdges(t) # {})
  BY InflightIs
<1>1. stream_exceptions' \subseteq streams'
  BY <1>t DEF FailuresOK, Ordered, Upshot, Keeps
<1>2. ASSUME NEW u \in Task, HasClosed(u)', u.sid \in stream_exceptions', ~Final(u.ref, Parent(u.sid))'
      PROVE  ListsError(u)'
  <2>1. CASE u # t
    <3>1. HasClosed(u) /\ u.sid \in stream_exceptions BY <1>2, <2>1, ClosedBefore
    <3>2. u \in Begun BY <3>1 DEF HasClosed, Begun, Active, At
    <3>3. u.sid # Root BY <3>1, <3>2, GatherIn DEF HasClosed
    <3>4. u.ref \in Refs /\ Parent(u.sid) \in Stream BY <3>3, StreamIs, TaskType
    <3>5. ~Final(u.ref, Parent(u.sid)) BY <1>2, <3>4 DEF Ordered, Keeps
    <3>6. ListsError(u) BY <3>1, <3>5 DEF FailuresOK
    <3> QED BY <1>2, <2>1, <3>1, <3>6, ListedBefore
  <2>2. CASE u = t
    <3>0. /\ Action[t.ref] = "gather" /\ ~Skips(t.sid) /\ (t \in completed' \/ At(t, "finalize")')
          /\ t.sid \in stream_exceptions' /\ ~Final(t.ref, Parent(t.sid))'
      BY <1>2, <2>2 DEF HasClosed
    <3>1. ~Quiet(t) BY <3>0 DEF Quiet, ClosesNothing
    <3>2. ~Published(t)
      <4> SUFFICES ASSUME Published(t) PROVE FALSE OBVIOUS
      <4>1. PICK items : results' = With(results, ResultKey(t), [final |-> TRUE, items |-> items])
        BY DEF Published
      <4>2. /\ ResultKey(t) \in DOMAIN results'
            /\ results'[ResultKey(t)] = [final |-> TRUE, items |-> items]
        BY <4>1 DEF With
      <4>3. results'[ResultKey(t)].final = TRUE BY <4>2
      <4> QED BY <3>0, <4>2, <4>3 DEF Final, ResultKey
    <3>3. Recorded(t) BY <3>1, <3>2 DEF Ordered
    <3>4. PICK value \in Values :
              /\ Records(t, value)
              /\ value = SkippedValue(t) \/ (value = "item" /\ inflight[t].at = "items")
      BY <3>3 DEF Recorded
    <3>5. t.sid \in stream_exceptions BY <3>0 DEF Ordered, Upshot, Ran
    <3>6. value = "error" \/ (value = "item" /\ InEdges(t) \cap visited # {})
      <4>1. CASE value = SkippedValue(t) BY <3>5, <4>1 DEF SkippedValue
      <4>2. CASE value = "item" /\ inflight[t].at = "items"
        <5>1. Entered(t) /\ t.sid # Root BY <1>t, <3>0, <4>2, GatherIn DEF RInv, AwaitsOK
        <5> QED BY <1>t, <4>2, <5>1 DEF Entered
      <4> QED BY <3>4, <4>1, <4>2
    <3>7. PICK items :
              /\ results' = With(results, ResultKey(t), [final |-> FALSE, items |-> items])
              /\ Leaf(t.sid)[2] + 1 \in DOMAIN items /\ items[Leaf(t.sid)[2] + 1] = value
      BY <3>4, <3>6 DEF Records
    <3>8. /\ ResultKey(t) \in DOMAIN results'
          /\ results'[ResultKey(t)] = [final |-> FALSE, items |-> items]
      BY <3>7 DEF With
    <3>9. results'[ResultKey(t)].items = items BY <3>8
    <3>10. visited \subseteq visited' BY DEF Ordered, Grown
    <3>11. ResultKey(t)' = ResultKey(t) /\ InEdges(t)' = InEdges(t) BY DEF ResultKey, InEdges
    <3>12. ListsError(t)' BY <3>6, <3>7, <3>8, <3>9, <3>10, <3>11 DEF ListsError
    <3> QED BY <2>2, <3>12
  <2> QED BY <2>1, <2>2
<1> QED BY <1>1, <1>2 DEF FailuresOK

-----------------------------------------------------------------------------
(* Streams on one path.                                                    *)

\* Below scatters, at most one action follows each outcome of an action.
Unforked ==
    \A r \in Refs : \A a, b \in Adj(r) :
        ActionScope[r] # RootScope /\ (Action[r] = "action" => a[2] = b[2]) => a[1] = b[1]

\* The path of the stream has gone on behind x.
Passed(x) ==
    CASE Action[x.ref] = "scatter" ->
           \/ x \in completed /\ x \notin DOMAIN open_streams
           \/ \E h \in Refs : Action[h] = "gather" /\ ClosedScope(h) = x.ref /\ Final(h, x.sid)
      [] Action[x.ref] = "gather" -> FALSE
      [] OTHER -> x \in completed

\* The path of the stream has reached x.
Holds(x) == InEdges(x) \cap visited # {} /\ ~Passed(x)

\* A stream has one path, and that of a stream that failed has ended.
TokensOK ==
    \A x \in Task : x.sid # Root /\ Holds(x) =>
        /\ x.sid \notin stream_exceptions
        /\ \A y \in Task : Holds(y) /\ y.sid = x.sid => y = x

\* What a path has passed, it has passed for good.
LEMMA PassedKept ==
    ASSUME Typed, RInv, NEW t \in DOMAIN inflight, Ordered(t), NEW x \in Task, Passed(x)
    PROVE  Passed(x)'
<1>1. x.ref \in Refs /\ x.sid \in Stream BY TaskType
<1>2. completed \subseteq completed' /\ t \notin completed BY InflightIs DEF Ordered, Keeps
<1>3. \A h \in Refs : Final(h, x.sid) => Final(h, x.sid)' BY <1>1 DEF Ordered, Keeps
<1>4. x \in completed => (x \in DOMAIN open_streams' => x \in DOMAIN open_streams)
  BY <1>2 DEF Ordered, Keeps
<1>5. CASE Action[x.ref] = "scatter" BY <1>2, <1>3, <1>4, <1>5 DEF Passed
<1>6. CASE Action[x.ref] # "scatter" BY <1>2, <1>6 DEF Passed
<1> QED BY <1>5, <1>6

\* Edges are visited that lead to one action: a stream in which all that the
\* path had reached is passed by then stays on one path.
LEMMA OnePath ==
    ASSUME Typed, RInv, TokensOK, NEW t \in DOMAIN inflight, Ordered(t),
           stream_exceptions' = stream_exceptions,
           NEW x \in Task, visited' \subseteq visited \cup OutEdges(x),
           x.sid # Root => /\ \A e, f \in visited' \ visited : e.dst = f.dst
                           /\ \A y \in Task : Holds(y) /\ y.sid = x.sid => Passed(y)'
                           /\ x.sid \notin stream_exceptions
    PROVE  TokensOK'
<1>1. ASSUME NEW y \in Task, Holds(y)', ~Holds(y)
      PROVE  y.sid = x.sid /\ \E e \in visited' \ visited : e.dst = y.ref
  <2>1. ~Passed(y) BY <1>1, PassedKept DEF Holds
  <2>2. InEdges(y)' = InEdges(y) BY DEF InEdges
  <2>3. PICK e \in InEdges(y) : e \in visited' /\ e \notin visited BY <1>1, <2>1, <2>2 DEF Holds
  <2>4. e.dst = y.ref /\ e.sid = y.sid BY <2>3, InEdgesAre
  <2>5. e.sid = x.sid BY <2>3, EdgesLeave
  <2> QED BY <2>3, <2>4, <2>5
<1>2. ASSUME NEW y \in Task, y.sid = x.sid, x.sid # Root, Holds(y)' PROVE ~Holds(y)
  BY <1>2 DEF Holds
<1> SUFFICES ASSUME NEW y \in Task, y.sid # Root, Holds(y)'
             PROVE  /\ y.sid \notin stream_exceptions
                    /\ \A z \in Task : Holds(z)' /\ z.sid = y.sid => z = y
  BY DEF TokensOK
<1>3. CASE y.sid = x.sid
  <2>1. ~Holds(y) BY <1>2, <1>3
  <2>2. ASSUME NEW z \in Task, Holds(z)', z.sid = y.sid PROVE z = y
    <3>1. ~Holds(z) BY <1>2, <1>3, <2>2
    <3>2. PICK e \in visited' \ visited : e.dst = y.ref BY <1>1, <2>1
    <3>3. PICK f \in visited' \ visited : f.dst = z.ref BY <1>1, <2>2, <3>1
    <3>4. z.ref = y.ref BY <1>3, <3>2, <3>3
    <3> QED BY <2>2, <3>4 DEF Task
  <2> QED BY <1>3, <2>2
<1>4. CASE y.sid # x.sid
  <2>1. \A z \in Task : Holds(z)' /\ z.sid = y.sid => Holds(z) BY <1>1, <1>4
  <2> QED BY <2>1 DEF TokensOK
<1> QED BY <1>3, <1>4

\* An action that is running was reached.
LEMMA RanHolds ==
    ASSUME Typed, RInv, TokensOK, NEW t \in DOMAIN inflight, Ordered(t), Ran(t), t.sid # Root
    PROVE  /\ t.sid \notin stream_exceptions /\ Passed(t)'
           /\ \A y \in Task : Holds(y) /\ y.sid = t.sid => y = t
<1>1. t \in Task /\ t \notin completed /\ InEdges(t) # {} BY InflightIs
<1>2. Holds(t) BY <1>1 DEF Holds, Passed, Ran, Entered
<1>3. Passed(t)' BY DEF Ran, Passed
<1> QED BY <1>1, <1>2, <1>3 DEF TokensOK

\* The edges of x that are visited lead to one action.
LEMMA OneEdge ==
    ASSUME Unforked, NEW x \in Task, ActionScope[x.ref] # RootScope, visited' \subseteq visited \cup OutEdges(x),
           Action[x.ref] = "action" => \E type : \A e \in visited' \ visited : e.type = type
    PROVE  \A e, f \in visited' \ visited : e.dst = f.dst
<1> TAKE e, f \in visited' \ visited
<1>1. PICK a \in Adj(x.ref) : e = [src |-> x.ref, dst |-> a[1], type |-> a[2], sid |-> x.sid]
  BY DEF OutEdges
<1>2. PICK b \in Adj(x.ref) : f = [src |-> x.ref, dst |-> b[1], type |-> b[2], sid |-> x.sid]
  BY DEF OutEdges
<1>3. e.dst = a[1] /\ e.type = a[2] /\ f.dst = b[1] /\ f.type = b[2] BY <1>1, <1>2
<1>4. Action[x.ref] = "action" => a[2] = b[2] BY <1>3
<1>5. x.ref \in Refs BY TaskType
<1> QED BY <1>3, <1>4, <1>5 DEF Unforked

\* When the final list of a gather is stored, the scatter was the end of the
\* path in the parent stream, and is passed.
LEMMA PublishedHolds ==
    ASSUME Typed, RInv, RInv', Regular, NEW t \in DOMAIN inflight, Ordered(t), Published(t)
    PROVE  LET k == ScatterOf(t.sid)
           IN  /\ k \in Task /\ k.sid = Parent(t.sid) /\ Passed(k)'
               /\ k.sid # Root => Holds(k) /\ ActionScope[t.ref] # RootScope
<1> DEFINE k == ScatterOf(t.sid)
<1>t. /\ t \in Task /\ t.ref \in Refs /\ t.sid \in Stream /\ T(t.ref, t.sid) = t /\ t \in Begun
      /\ t \notin completed /\ t.sid \in streams
  BY InflightIs
<1>1. t.sid # Root /\ k = T(ClosedScope(t.ref), Parent(t.sid)) /\ k.ref = ClosedScope(t.ref)
      /\ k.sid = Parent(t.sid)
  <2>1. t.sid # Root /\ k = T(ClosedScope(t.ref), Parent(t.sid)) BY <1>t, GatherIn DEF Published
  <2> QED BY <2>1 DEF T
<1>2. k \in Task /\ Action[k.ref] = "scatter" /\ k.ref \in Refs /\ k.sid \in Stream
      /\ ActionScope[t.ref] = Home(k.ref) /\ k # t
  BY <1>1, <1>t, StreamIs, Scoping, TaskType DEF Published
<1>3. Final(t.ref, Parent(t.sid))'
  <2>1. PICK items : results' = With(results, ResultKey(t), [final |-> TRUE, items |-> items])
    BY DEF Published
  <2>2. /\ ResultKey(t) \in DOMAIN results'
        /\ results'[ResultKey(t)] = [final |-> TRUE, items |-> items]
    BY <2>1 DEF With
  <2>3. results'[ResultKey(t)].final = TRUE BY <2>2
  <2> QED BY <2>2, <2>3 DEF Final, ResultKey
<1>4. Passed(k)' BY <1>1, <1>2, <1>3, <1>t DEF Passed, Published
<1>5. k \in DOMAIN open_streams' /\ k \in completed'
  <2>1. LET q == T(ClosedScope(t.ref), Parent(t.sid))
        IN  q \in DOMAIN open_streams' /\ q \in completed'
    BY <1>3 DEF Final, RInv, GathersOK, ListFacts, ScattersOK
  <2> QED BY <1>1, <2>1
<1> HIDE DEF k
<1>6. k \in DOMAIN open_streams /\ k \in completed BY <1>2, <1>5 DEF Ordered, Keeps
<1>7. ASSUME k.sid # Root PROVE Holds(k) /\ ActionScope[t.ref] # RootScope
  <2>1. k \in DOMAIN task_streams /\ Entered(k) /\ ~Skips(k.sid) BY <1>6 DEF RInv, ScattersOK
  <2>2. k \in Begun BY <1>6 DEF Begun
  <2>3. InEdges(k) # {} /\ Placed(k) BY <1>7, <2>2 DEF RInv, PlacesOK
  <2>4. InEdges(k) \cap visited # {} BY <2>1, <2>3 DEF Entered
  <2>5. ASSUME NEW h \in Refs, Action[h] = "gather", ClosedScope(h) = k.ref, Final(h, k.sid) PROVE FALSE
    <3>1. h = t.ref BY <1>1, <1>t, <2>5 DEF Regular, AllGathered, Published
    <3>2. IsStreamOf(t.sid, k) BY <1>1 DEF IsStreamOf, k
    <3>3. T(ClosedScope(h), k.sid) = k BY <1>1, <3>1
    <3>4. T(h, t.sid) \in completed BY <1>t, <2>5, <3>2, <3>3, FinalIs
    <3> QED BY <1>t, <3>1, <3>4
  <2>6. ~Passed(k) BY <1>2, <1>6, <2>5 DEF Passed
  <2>7. Home(k.ref) = HomeOf(k.sid) BY <2>1, <2>3 DEF Placed, Adrift
  <2>8. HomeOf(k.sid) \in Refs BY <1>2, <1>7, StreamIs
  <2> QED BY <1>2, <2>4, <2>6, <2>7, <2>8, RefsAreSlugs DEF Holds
<1> QED BY <1>1, <1>2, <1>4, <1>7 DEF k

\* The step of a coroutine keeps streams on one path.
LEMMA TaskTokens ==
    ASSUME Typed, RInv, RInv', Regular, Unforked, FailuresOK, TokensOK,
           NEW t \in DOMAIN inflight, Ordered(t)
    PROVE  TokensOK'
<1>t. t \in Task /\ t.ref \in Refs /\ t.sid \in Stream /\ Placed(t) BY InflightIs
<1>1. ASSUME visited' \subseteq visited PROVE \A x \in Task : Holds(x)' => Holds(x)
  BY <1>1, PassedKept DEF Holds, InEdges
<1>2. CASE visited' \subseteq visited /\ stream_exceptions' = stream_exceptions
  BY <1>1, <1>2 DEF TokensOK
<1>3. CASE visited' \subseteq visited /\ stream_exceptions' = stream_exceptions \cup {t.sid} /\ Ran(t)
  <2>1. ASSUME NEW x \in Task, x.sid # Root, Holds(x)' PROVE x.sid # t.sid
    <3> SUFFICES ASSUME x.sid = t.sid PROVE FALSE OBVIOUS
    <3>1. x = t /\ Passed(t)' BY <1>1, <1>3, <2>1, RanHolds
    <3> QED BY <2>1, <3>1 DEF Holds
  <2> QED BY <1>1, <1>3, <2>1 DEF TokensOK
<1>4. ASSUME stream_exceptions' = stream_exceptions,
             NEW x \in Task, visited' \subseteq visited \cup OutEdges(x),
             x = t, Ran(t), \E type : \A e \in visited' \ visited : e.type = type
      PROVE  TokensOK'
  <2>1. ASSUME x.sid # Root
        PROVE  /\ \A e, f \in visited' \ visited : e.dst = f.dst
               /\ \A y \in Task : Holds(y) /\ y.sid = x.sid => Passed(y)'
               /\ x.sid \notin stream_exceptions
    <3>1. /\ t.sid \notin stream_exceptions
          /\ \A y \in Task : Holds(y) /\ y.sid = t.sid => Passed(y)'
      BY <1>4, <2>1, RanHolds
    <3>2. ActionScope[t.ref] = HomeOf(t.sid) BY <1>4, <1>t, Scoping DEF Ran, Placed, Adrift
    <3>3. HomeOf(t.sid) \in Refs BY <1>4, <1>t, <2>1, StreamIs
    <3>4. \A e, f \in visited' \ visited : e.dst = f.dst
      BY <1>4, <1>t, <3>2, <3>3, RefsAreSlugs, OneEdge
    <3> QED BY <1>4, <3>1, <3>4
  <2> QED BY <1>4, <2>1, OnePath
<1>5. ASSUME stream_exceptions' = stream_exceptions,
             NEW x \in Task, visited' \subseteq visited \cup OutEdges(x),
             Action[t.ref] = "scatter", x.ref = t.ref, x.sid \notin streams
      PROVE  TokensOK'
  <2>1. x.sid \notin stream_exceptions BY <1>5 DEF FailuresOK
  <2>2. ASSUME NEW y \in Task, Holds(y), y.sid = x.sid PROVE FALSE
    <3>1. PICK e \in InEdges(y) : e \in visited BY <2>2 DEF Holds
    <3>2. e \in Marked /\ e.sid = y.sid BY <3>1, InEdgesAre DEF Marked
    <3> QED BY <1>5, <2>2, <3>2, EdgeStreams
  <2>3. ActionScope[x.ref] # RootScope BY <1>5, <1>t, Scoping, RefsAreSlugs
  <2>4. \A e, f \in visited' \ visited : e.dst = f.dst BY <1>5, <2>3, OneEdge
  <2> QED BY <1>5, <2>1, <2>2, <2>4, OnePath
<1>6. ASSUME stream_exceptions' = stream_exceptions,
             NEW x \in Task, visited' \subseteq visited \cup OutEdges(x),
             Published(t), x = Continuation(t)
      PROVE  TokensOK'
  <2> DEFINE k == ScatterOf(t.sid)
  <2>1. /\ k \in Task /\ k.sid = Parent(t.sid) /\ Passed(k)'
        /\ k.sid # Root => Holds(k) /\ ActionScope[t.ref] # RootScope
    BY <1>6, PublishedHolds
  <2>2. x.ref = t.ref /\ x.sid = k.sid BY <1>6, <2>1 DEF Continuation, T
  <2> HIDE DEF k
  <2>3. ASSUME x.sid # Root
        PROVE  /\ \A e, f \in visited' \ visited : e.dst = f.dst
               /\ \A y \in Task : Holds(y) /\ y.sid = x.sid => Passed(y)'
               /\ x.sid \notin stream_exceptions
    <3>1. /\ k.sid \notin stream_exceptions
          /\ \A y \in Task : Holds(y) /\ y.sid = k.sid => y = k
      BY <2>1, <2>2, <2>3 DEF TokensOK
    <3>2. Action[x.ref] # "action" BY <1>6, <2>2 DEF Published
    <3>3. \A e, f \in visited' \ visited : e.dst = f.dst BY <1>6, <2>1, <2>2, <2>3, <3>2, OneEdge
    <3> QED BY <2>1, <2>2, <3>1, <3>3
  <2> QED BY <1>6, <2>3, OnePath
<1> QED BY <1>2, <1>3, <1>4, <1>5, <1>6 DEF Ordered, Upshot

-----------------------------------------------------------------------------
(* What becomes of the errors.                                             *)

\* The task u is the gather g in some stream of the scatter that g closes, and
\* that stream failed.
FailedBeside(u, g) ==
    u.ref = g.ref /\ IsStreamOf(u.sid, ScatterOf(g.sid)) /\ u.sid \in stream_exceptions

\* When a gather is finalized, its list holds, at the index of every stream that
\* failed, the error of the stream, or the item of the stream where another path
\* through it reached the gather.
ErrorsKept ==
    \A g \in DOMAIN inflight : inflight[g].at = "finalize" =>
        \A u \in Task : FailedBeside(u, g) => ListsError(u)

\* No path of a stream that failed has reached the gather.
NoneReached ==
    \A g \in DOMAIN inflight : inflight[g].at = "finalize" =>
        \A u \in Task : FailedBeside(u, g) => InEdges(u) \cap visited = {}

\* What the two rest on while start() stops.
Finalizing ==
    \A g \in DOMAIN inflight : inflight[g].at = "finalize" =>
        g.sid # Root /\ ScatterOf(g.sid) \in DOMAIN task_streams

LEMMA FinalizingIs ==
    ASSUME Typed, RInv, Regular
    PROVE  Finalizing
<1> SUFFICES ASSUME NEW g \in DOMAIN inflight, inflight[g].at = "finalize"
             PROVE  g.sid # Root /\ ScatterOf(g.sid) \in DOMAIN task_streams
  BY DEF Finalizing
<1>1. g \in Begun /\ Action[g.ref] = "gather" /\ ~Adrift(g.sid) BY InflightIs, AwaitIs DEF Adrift
<1>2. g.sid # Root /\ ScatterOf(g.sid) = T(ClosedScope(g.ref), Parent(g.sid)) BY <1>1, GatherIn
<1>3. ResultKey(g) \in DOMAIN results BY DEF RInv, GathersOK
<1>4. ResultKey(g)[1] = g.ref /\ ResultKey(g)[2] = Parent(g.sid) BY DEF ResultKey
<1>5. ListFacts(ResultKey(g), T(ClosedScope(ResultKey(g)[1]), ResultKey(g)[2]))
  BY <1>3 DEF RInv, GathersOK
<1>6. ScatterOf(g.sid) \in DOMAIN open_streams BY <1>2, <1>4, <1>5 DEF ListFacts
<1> QED BY <1>2, <1>6 DEF RInv, ScattersOK

\* Every stream of the scatter has been closed by its gather, which put the
\* error into the list.
LEMMA FailuresKept ==
    ASSUME Typed, RInv, Regular, FailuresOK
    PROVE  ErrorsKept
<1> SUFFICES ASSUME NEW g \in DOMAIN inflight, inflight[g].at = "finalize",
                    NEW u \in Task, FailedBeside(u, g)
             PROVE  ListsError(u)
  BY DEF ErrorsKept
<1> DEFINE k == ScatterOf(g.sid)
<1>g. /\ g \in Task /\ g.ref \in Refs /\ g.sid \in Stream /\ g.sid \in streams /\ g \in Begun
      /\ T(g.ref, g.sid) = g
  BY InflightIs
<1>1. g.sid # Root /\ k \in DOMAIN task_streams BY FinalizingIs DEF Finalizing
<1>2. /\ Action[g.ref] = "gather" /\ ~Skips(g.sid) BY AwaitIs
<1>3. /\ u.ref = g.ref /\ u.sid # Root /\ ScatterOf(u.sid) = k /\ u.sid \in streams /\ u.sid \in stream_exceptions
      /\ T(u.ref, u.sid) = u /\ u.sid \in Stream
  BY TaskType DEF FailedBeside, IsStreamOf, FailuresOK, T, Task
<1>k. k \in Task /\ task_streams[k] \in Nat BY <1>1 DEF Typed, ScopesOK
<1>4. ~Skips(u.sid)
  <2>1. StreamFacts(u.sid, k) /\ StreamFacts(g.sid, k) BY <1>1, <1>3, <1>g DEF RInv, StreamsOK
  <2> HIDE DEF k
  <2>2. Leaf(g.sid)[2] \in 0..task_streams[k] - 1 BY <1>1, <1>2, <2>1 DEF StreamFacts
  <2>3. task_streams[k] # 0 BY <1>k, <2>2
  <2> QED BY <1>1, <2>1, <2>3 DEF StreamFacts
<1>5. u \in completed \/ At(u, "finalize")
  <2>1. CASE u.sid = g.sid BY <1>3, <1>g, <2>1 DEF At
  <2>2. CASE u.sid # g.sid
    <3>1. IsStreamOf(u.sid, ScatterOf(g.sid)) BY DEF FailedBeside
    <3>2. T(g.ref, u.sid) \in completed BY <1>3, <2>2, <3>1 DEF RInv, GathersOK
    <3> QED BY <1>3, <3>2
  <2> QED BY <2>1, <2>2
<1>6. HasClosed(u) BY <1>2, <1>3, <1>4, <1>5 DEF HasClosed
<1>7. Parent(u.sid) = Parent(g.sid)
  <2>1. ScatterOf(u.sid).sid = Parent(u.sid) BY <1>3, StreamIs
  <2>2. ScatterOf(g.sid).sid = Parent(g.sid) BY <1>1, <1>g, StreamIs
  <2> QED BY <1>3, <2>1, <2>2
<1>8. ~Final(u.ref, Parent(u.sid)) BY <1>3, <1>7 DEF RInv, GathersOK
<1> QED BY <1>3, <1>6, <1>8 DEF FailuresOK

LEMMA TokensReach ==
    ASSUME Typed, RInv, Regular, TokensOK
    PROVE  NoneReached
<1> SUFFICES ASSUME NEW g \in DOMAIN inflight, inflight[g].at = "finalize",
                    NEW u \in Task, FailedBeside(u, g)
             PROVE  InEdges(u) \cap visited = {}
  BY DEF NoneReached
<1>1. Action[u.ref] = "gather" /\ u.sid # Root /\ u.sid \in stream_exceptions
  BY AwaitIs DEF FailedBeside, IsStreamOf
<1>2. ~Passed(u) BY <1>1 DEF Passed
<1> QED BY <1>1, <1>2 DEF TokensOK, Holds

\* Nothing that is cancelled is in a stream whose gather is being finalized.
LEMMA CancelledElsewhere ==
    ASSUME IInv, GatherBarrier, Finalizing, NEW t \in DOMAIN inflight, Cancelled(t),
           NEW g \in DOMAIN inflight, g # t, inflight[g].at = "finalize",
           NEW u \in Task, FailedBeside(u, g)'
    PROVE  /\ FailedBeside(u, g) /\ InEdges(u) \cap visited' = InEdges(u) \cap visited
           /\ results' = results
<1>t. /\ t \in Task /\ t.sid \in Stream /\ g \in Task /\ g.sid \in Stream /\ t \in Active
      /\ u.sid \in Stream
  BY InflightType, TaskType DEF IInv, Active
<1>1. g.sid # Root BY DEF Finalizing
<1>2. u.ref = g.ref /\ u.sid # Root /\ ScatterOf(u.sid) = ScatterOf(g.sid) /\ u.sid \in stream_exceptions'
  BY DEF FailedBeside, IsStreamOf
<1>3. Parent(u.sid) = Parent(g.sid) /\ Leaf(u.sid)[1] = Leaf(g.sid)[1]
  <2>1. ScatterOf(u.sid).ref = Leaf(u.sid)[1] /\ ScatterOf(u.sid).sid = Parent(u.sid)
    BY <1>2, <1>t, StreamIs
  <2>2. ScatterOf(g.sid).ref = Leaf(g.sid)[1] /\ ScatterOf(g.sid).sid = Parent(g.sid)
    BY <1>1, <1>t, StreamIs
  <2> QED BY <1>2, <2>1, <2>2
<1>4. Len(u.sid) = Len(g.sid) /\ Within(u.sid, Parent(g.sid)) /\ u.sid[Len(g.sid)][1] = Leaf(g.sid)[1]
  <2> DEFINE E == Refs \X Index
  <2>1. u.sid \in Seq(E) /\ g.sid \in Seq(E) BY <1>t DEF Stream, Index
  <2> HIDE DEF E
  <2>2. Len(u.sid) # 0 /\ Len(g.sid) # 0 /\ Len(u.sid) \in Nat /\ Len(g.sid) \in Nat
    BY <1>1, <1>2, <2>1 DEF Root
  <2>3. Len(Parent(u.sid)) = Len(u.sid) - 1 /\ Len(Parent(g.sid)) = Len(g.sid) - 1
    BY <2>1, <2>2, FrontIs
  <2>4. Len(u.sid) = Len(g.sid) BY <1>3, <2>2, <2>3
  <2>5. Parent(u.sid) \in Stream BY <1>2, <1>t, StreamIs
  <2>6. Within(u.sid, Parent(u.sid)) BY <1>2, <1>t, <2>5, WithinIs
  <2>7. u.sid[Len(u.sid)][1] = Leaf(u.sid)[1] BY DEF Leaf
  <2> QED BY <1>3, <2>4, <2>6, <2>7
<1>5. u.sid # t.sid
  <2> SUFFICES ASSUME u.sid = t.sid PROVE FALSE OBVIOUS
  <2>1. Len(t.sid) >= Len(g.sid)
    <3>1. Len(t.sid) = Len(g.sid) BY <1>4
    <3>2. Len(g.sid) \in Nat BY <1>t DEF Stream
    <3> QED BY <3>1, <3>2
  <2> QED BY <1>4, <1>t, <2>1 DEF GatherBarrier
<1>6. /\ results' = results
      /\ stream_exceptions' \subseteq stream_exceptions \cup {t.sid}
      /\ UNCHANGED marks \/ \E unreachable \in SUBSET OutEdges(t) : QueueTasks(t, unreachable)
  <2>1. CASE FinishSilently(t) BY <2>1 DEF Cancelled, FinishSilently, errors
  <2>2. CASE FailTask(t)
    <3> DEFINE some == {e \in OutEdges(t) : e.type = "error"}
    <3>1. OutEdges(t) \ some \in SUBSET OutEdges(t) /\ OutEdges(t) \in SUBSET OutEdges(t) OBVIOUS
    <3>2. UNCHANGED marks \/ QueueTasks(t, OutEdges(t) \ some) \/ QueueTasks(t, OutEdges(t))
      BY <2>2 DEF FailTask, Fail
    <3>3. stream_exceptions' \subseteq stream_exceptions \cup {t.sid} BY <2>2 DEF FailTask, Fail
    <3>4. results' = results BY DEF Cancelled
    <3> HIDE DEF some
    <3> QED BY <3>1, <3>2, <3>3, <3>4
  <2> QED BY <2>1, <2>2 DEF Cancelled
<1>7. \A e \in InEdges(u) : e \notin OutEdges(t) BY <1>5, <1>t, InEdgesAre, EdgesLeave
<1>8. InEdges(u) \cap visited' = InEdges(u) \cap visited
  <2>1. CASE UNCHANGED marks BY <2>1 DEF marks
  <2>2. ASSUME NEW unreachable \in SUBSET OutEdges(t), QueueTasks(t, unreachable)
        PROVE  InEdges(u) \cap visited' = InEdges(u) \cap visited
    <3>1. visited' = (visited \cup OutEdges(t)) \ unreachable BY <2>2 DEF QueueTasks
    <3> QED BY <1>7, <3>1
  <2> QED BY <1>6, <2>1, <2>2
<1> QED BY <1>2, <1>5, <1>6, <1>8 DEF FailedBeside, IsStreamOf

\* Stopping loses no error.
LEMMA StoppingErrors ==
    ASSUME IInv, GatherBarrier, Finalizing, ErrorsKept, ~Running, [Next]_vars
    PROVE  ~Running' /\ Finalizing' /\ ErrorsKept' /\ (NoneReached => NoneReached')
<1>0. Typed BY DEF IInv
<1>1. ASSUME NEW t \in DOMAIN inflight, TaskStep(t) PROVE Cancelled(t)
  BY <1>1 DEF TaskStep, Begin, EvaluateRunIf, ExecuteDone, LoopStartDone, LoopEndDone,
              ScatterCollection, ScatterItem, ScatterDone, GatherItem, GatherFinalized,
              EmptyGatherFinalized, CanEnd
<1>2. ASSUME NEW t \in DOMAIN inflight, Cancelled(t)
      PROVE  ~Running' /\ Finalizing' /\ ErrorsKept' /\ (NoneReached => NoneReached')
  <2>1. ~Running' BY <1>2 DEF Cancelled, FinishSilently, FailTask, Fail, Complete, Running
  <2>2. /\ DOMAIN inflight' = DOMAIN inflight \ {t}
        /\ \A u \in DOMAIN inflight' : inflight'[u] = inflight[u]
    BY <1>0, <1>2, CancelledQueues
  <2>3. Finalizing' BY <1>2, <2>2 DEF Finalizing, Cancelled, scopes
  <2>4. ASSUME NEW g \in DOMAIN inflight', inflight'[g].at = "finalize", NEW u \in Task, FailedBeside(u, g)'
        PROVE  ListsError(u)' /\ (NoneReached => InEdges(u) \cap visited' = {})
    <3>1. g \in DOMAIN inflight /\ g # t /\ inflight[g].at = "finalize" BY <2>2, <2>4
    <3>2. /\ FailedBeside(u, g) /\ InEdges(u) \cap visited' = InEdges(u) \cap visited
          /\ results' = results
      BY <1>2, <2>4, <3>1, CancelledElsewhere
    <3>3. ListsError(u) BY <3>1, <3>2 DEF ErrorsKept
    <3>4. ResultKey(u)' = ResultKey(u) /\ InEdges(u)' = InEdges(u) BY DEF ResultKey, InEdges
    <3>5. ListsError(u)' BY <3>2, <3>3, <3>4 DEF ListsError
    <3>6. NoneReached => InEdges(u) \cap visited = {} BY <3>1, <3>2 DEF NoneReached
    <3> QED BY <3>2, <3>5, <3>6
  <2>5. ErrorsKept' BY <2>4 DEF ErrorsKept
  <2>6. NoneReached => NoneReached' BY <2>4 DEF NoneReached, InEdges
  <2> QED BY <2>1, <2>3, <2>5, <2>6
<1>3. ASSUME UNCHANGED <<inflight, marks, errors, scopes, results>>
      PROVE  Finalizing' /\ ErrorsKept' /\ (NoneReached => NoneReached')
  <2>1. /\ inflight' = inflight /\ visited' = visited /\ stream_exceptions' = stream_exceptions
        /\ task_streams' = task_streams /\ results' = results
    BY <1>3 DEF marks, errors, scopes
  <2>2. \A u : ListsError(u)' <=> ListsError(u) BY <2>1 DEF ListsError, ResultKey, InEdges
  <2>3. \A u, g : FailedBeside(u, g)' <=> FailedBeside(u, g) BY <2>1 DEF FailedBeside, IsStreamOf
  <2>4. Finalizing' BY <2>1 DEF Finalizing
  <2>5. ErrorsKept' BY <2>1, <2>2, <2>3 DEF ErrorsKept
  <2>6. NoneReached => NoneReached' BY <2>1, <2>3 DEF NoneReached, InEdges
  <2> QED BY <2>4, <2>5, <2>6
<1>4. CASE ReturnExceptions
  <2>1. UNCHANGED <<inflight, marks, errors, scopes, results>> /\ ~Running'
    BY <1>4 DEF ReturnExceptions, Running
  <2> QED BY <1>3, <2>1
<1>5. CASE UNCHANGED vars
  <2>1. UNCHANGED <<inflight, marks, errors, scopes, results>> /\ ~Running'
    BY <1>5 DEF vars, control, Running
  <2> QED BY <1>3, <2>1
<1>6. ~Spawn /\ ~Wait /\ ~AllCompleted /\ ~Stop /\ ~Activate
  BY DEF Spawn, Wait, AllCompleted, Stop, Activate, Running
<1> QED BY <1>1, <1>2, <1>4, <1>5, <1>6 DEF Next

\* start() and Temporal leave errors, edges and lists alone.
LEMMA NextFailures ==
    ASSUME IInv, RInv, Regular, FailuresOK, Running, [Next]_vars
    PROVE  FailuresOK' /\ (Unforked /\ TokensOK => TokensOK')
<1>0. Typed /\ ScheduledOnce BY DEF IInv, RInv, CountsOK
<1>1. ASSUME NEW t \in DOMAIN inflight, TaskStep(t)
      PROVE  FailuresOK' /\ (Unforked /\ TokensOK => TokensOK')
  <2>1. RInv' /\ Ordered(t) BY <1>0, <1>1, TaskRegular
  <2> QED BY <1>0, <2>1, TaskFailures, TaskTokens
<1>2. ASSUME UNCHANGED <<completed, visited, errors, scopes, results>>,
             \A u : At(u, "finalize")' <=> At(u, "finalize")
      PROVE  FailuresOK' /\ (Unforked /\ TokensOK => TokensOK')
  <2>1. /\ completed' = completed /\ visited' = visited /\ stream_exceptions' = stream_exceptions
        /\ streams' = streams /\ open_streams' = open_streams /\ results' = results
    BY <1>2 DEF errors, scopes
  <2>2. \A u : HasClosed(u)' <=> HasClosed(u) BY <1>2, <2>1 DEF HasClosed
  <2>3. \A u : ListsError(u)' <=> ListsError(u) BY <2>1 DEF ListsError, ResultKey, InEdges
  <2>4. \A g, sid : Final(g, sid)' <=> Final(g, sid) BY <2>1 DEF Final
  <2>5. FailuresOK' BY <2>1, <2>2, <2>3, <2>4 DEF FailuresOK
  <2>6. \A x \in Task : Passed(x)' <=> Passed(x)
    <3> SUFFICES ASSUME NEW x \in Task PROVE Passed(x)' <=> Passed(x) OBVIOUS
    <3>1. CASE Action[x.ref] = "scatter" BY <2>1, <2>4, <3>1 DEF Passed
    <3>2. CASE Action[x.ref] # "scatter" BY <2>1, <3>2 DEF Passed
    <3> QED BY <3>1, <3>2
  <2>7. \A x \in Task : Holds(x)' <=> Holds(x) BY <2>1, <2>6 DEF Holds, InEdges
  <2>8. TokensOK => TokensOK' BY <2>1, <2>7 DEF TokensOK
  <2> QED BY <2>5, <2>8
<1>3. CASE Spawn
  <2>1. /\ DOMAIN inflight \subseteq DOMAIN inflight'
        /\ \A t \in DOMAIN inflight' :
               IF t \in DOMAIN inflight THEN inflight'[t] = inflight[t]
               ELSE inflight'[t] = Awaiting("new")
    BY <1>0, <1>3, SpawnMoves
  <2>2. Awaiting("new").at = "new" BY DEF Awaiting
  <2>3. \A u : At(u, "finalize")' <=> At(u, "finalize") BY <2>1, <2>2 DEF At
  <2>4. UNCHANGED <<completed, visited, errors, scopes, results>> BY <1>3 DEF Spawn
  <2> QED BY <1>2, <2>3, <2>4
<1>4. ASSUME UNCHANGED <<inflight, completed, marks, errors, scopes, results>>
      PROVE  FailuresOK' /\ (Unforked /\ TokensOK => TokensOK')
  <2>1. \A u : At(u, "finalize")' <=> At(u, "finalize") BY <1>4 DEF At
  <2>2. UNCHANGED <<completed, visited, errors, scopes, results>> BY <1>4 DEF marks
  <2> QED BY <1>2, <2>1, <2>2
<1>5. CASE Wait \/ AllCompleted \/ Stop \/ Activate \/ UNCHANGED vars
  <2>1. UNCHANGED <<inflight, completed, marks, errors, scopes, results>>
    BY <1>5 DEF Wait, AllCompleted, Stop, Activate, vars, control
  <2> QED BY <1>4, <2>1
<1>6. ~ReturnExceptions BY DEF ReturnExceptions, Running
<1> QED BY <1>1, <1>3, <1>5, <1>6 DEF Next

LEMMA InitFailures ==
    ASSUME Init
    PROVE  FailuresOK /\ TokensOK
<1>1. stream_exceptions = {} /\ visited = {} BY DEF Init
<1> QED BY <1>1 DEF FailuresOK, TokensOK, Holds

\* The invariants hold until start() stops, and what they are for even then.
Errors == (RInv /\ FailuresOK) \/ (~Running /\ Finalizing /\ ErrorsKept)

Paths == (RInv /\ FailuresOK /\ TokensOK) \/ (~Running /\ Finalizing /\ ErrorsKept /\ NoneReached)

LEMMA NextErrors ==
    ASSUME Regular, IInv, Gathers, [Next]_vars
    PROVE  (Errors => Errors') /\ (Unforked /\ Paths => Paths')
<1>0. Typed BY DEF IInv
<1>1. CASE Running
  <2>1. RInv /\ FailuresOK => RInv' /\ FailuresOK' /\ (Unforked /\ TokensOK => TokensOK')
    BY <1>1, NextRegular, NextFailures
  <2> QED BY <1>1, <2>1 DEF Errors, Paths
<1>2. CASE ~Running
  <2>1. GatherBarrier BY <1>0, RegularBarrier DEF Gathers
  <2>2. Errors => Finalizing /\ ErrorsKept BY <1>0, FinalizingIs, FailuresKept DEF Errors
  <2>3. Paths => Finalizing /\ ErrorsKept /\ NoneReached
    BY <1>0, FinalizingIs, FailuresKept, TokensReach DEF Paths
  <2>4. Finalizing /\ ErrorsKept => ~Running' /\ Finalizing' /\ ErrorsKept' /\ (NoneReached => NoneReached')
    BY <1>2, <2>1, StoppingErrors
  <2> QED BY <2>2, <2>3, <2>4 DEF Errors, Paths
<1> QED BY <1>1, <1>2

\* The list of a gather that no path of a failed stream has reached has the
\* errors of all of them.
LEMMA ErrorsAre ==
    ASSUME Typed, Finalizing, ErrorsKept, NoneReached
    PROVE  ErrorsGathered
<1> SUFFICES ASSUME NEW g \in DOMAIN inflight, inflight[g].at = "finalize",
                    NEW i \in 0..task_streams[ScatterOf(g.sid)] - 1,
                    NewStream(ScatterOf(g.sid).ref, i, ScatterOf(g.sid).sid) \in stream_exceptions
             PROVE  /\ i + 1 \in DOMAIN results[ResultKey(g)].items
                    /\ results[ResultKey(g)].items[i + 1] = "error"
  BY DEF ErrorsGathered
<1> DEFINE k == ScatterOf(g.sid)
           sid == NewStream(k.ref, i, k.sid)
           u == T(g.ref, sid)
<1>g. g \in Task /\ g.ref \in Refs /\ g.sid \in Stream BY InflightType
<1>1. g.sid # Root /\ k \in DOMAIN task_streams BY DEF Finalizing
<1>2. k \in Task /\ k.ref \in Refs /\ k.sid \in Stream /\ task_streams[k] \in Nat /\ k.sid = Parent(g.sid)
  BY <1>1, <1>g, TaskType, StreamIs DEF Typed, ScopesOK
<1>3. i \in Nat /\ i \in Index
  <2>1. i \in Nat BY <1>2
  <2> QED BY <2>1 DEF Index
<1>4. /\ u \in Task /\ u.ref = g.ref /\ u.sid = sid /\ sid # Root /\ ScatterOf(sid) = k
      /\ Leaf(sid)[2] = i /\ Parent(sid) = k.sid
  <2> DEFINE r == g.ref
  <2>1. k \in Task /\ i \in Nat /\ r \in Refs /\ u = T(r, NewStream(k.ref, i, k.sid))
    BY <1>2, <1>3, <1>g
  <2>2. Parent(sid) = k.sid BY <1>2, <1>3, NewStreamIs
  <2>3. sid = NewStream(k.ref, i, k.sid) OBVIOUS
  <2> HIDE DEF k, u, sid, r
  <2>4. /\ u \in Task /\ u.ref = r /\ u.sid = NewStream(k.ref, i, k.sid) /\ u.sid # Root
        /\ ScatterOf(u.sid) = k /\ Leaf(u.sid)[2] = i
    BY ONLY <2>1, ClosedBy
  <2> QED BY <2>2, <2>3, <2>4 DEF r
<1>5. sid \in stream_exceptions OBVIOUS
<1> HIDE DEF u, sid
<1>6. FailedBeside(u, g) BY <1>4, <1>5 DEF FailedBeside, IsStreamOf
<1>7. ListsError(u) /\ InEdges(u) \cap visited = {} BY <1>4, <1>6 DEF ErrorsKept, NoneReached
<1>8. ResultKey(u) = ResultKey(g) BY <1>2, <1>4 DEF ResultKey
<1> QED BY <1>4, <1>7, <1>8 DEF ListsError

\* In every regular workflow the error of a stream is not lost on the way to
\* the gather: when the list is finalized it has, at the index of every stream
\* that failed, the error, or the item of the stream where a path beside the
\* failure reached the gather after all (_handle_error_path, _handle_gather,
\* _handle_gather_skip_stream).
THEOREM RegularErrorsKept == Regular => (Spec => []ErrorsKept)
<1> SUFFICES ASSUME Regular PROVE Spec => []ErrorsKept OBVIOUS
<1>1. Init => Errors BY InitRegular, InitFailures DEF Errors
<1>2. IInv /\ Gathers /\ Errors /\ [Next]_vars => Errors' BY NextErrors
<1>3. IInv /\ Errors => ErrorsKept BY FailuresKept DEF Errors, IInv
<1> QED BY <1>1, <1>2, <1>3, RegularInvariance, PTL DEF Spec

\* Where moreover no stream forks, a stream has one path and a failure ends it,
\* so the list has the error itself of every stream that failed, and an item of
\* none of them (_queue_tasks, _handle_error_path, _handle_gather_skip_stream).
THEOREM UnforkedErrorsGathered == Regular /\ Unforked => (Spec => []ErrorsGathered)
<1> SUFFICES ASSUME Regular, Unforked PROVE Spec => []ErrorsGathered OBVIOUS
<1>1. Init => Paths BY InitRegular, InitFailures DEF Paths
<1>2. IInv /\ Gathers /\ Paths /\ [Next]_vars => Paths' BY NextErrors
<1>3. IInv /\ Paths => ErrorsGathered
  BY FinalizingIs, FailuresKept, TokensReach, ErrorsAre DEF Paths, IInv
<1> QED BY <1>1, <1>2, <1>3, RegularInvariance, PTL DEF Spec
=============================================================================

---------------------------- MODULE CaseTriggers ----------------------------
(***************************************************************************)
(* Case events and the workflows they start: the publisher                 *)
(* (cases/triggers/publisher.py), a Redis stream with one consumer group,  *)
(* and one consumer per API process (cases/triggers/consumer.py).          *)
(*                                                                         *)
(* Every await of a consumer is a step of its own.  Time is abstracted: a  *)
(* lock or a done key expires, and a pending message becomes idle enough   *)
(* to be claimed, at some moment.  In a prompt world a consumer is never   *)
(* slower than the 300 s of lock_ttl and claim_idle_ms: what it is working *)
(* on neither expires nor can be claimed.                                  *)
(*                                                                         *)
(* The Redis client repeats a command whose reply was lost, so a command   *)
(* may be executed twice; a step that meets an error counts in `faults`.   *)
(*                                                                         *)
(* Definitions with "_" and a number are variants of the one that follows  *)
(* them, each with a slip the properties must notice; nothing uses them.   *)
(***************************************************************************)
EXTENDS Integers, FiniteSets

CONSTANTS
    Consumers,     \* API processes, one consumer each
    Events,        \* case events
    Workflows,     \* workflows; each has at most one case trigger
    None,          \* no workflow
    Type,          \* event -> its type
    Tags,          \* event -> tags of its case
    Explicit,      \* event -> the workflow selected in the comment, or None
    Subscriptions, \* workflow -> event types of its trigger
    Filters,       \* workflow -> tag filters of its trigger
    Batch,         \* TRACECAT__CASE_TRIGGERS_BATCH
    MaxFaults,     \* bound on errors, crashes and lost replies
    Worlds         \* what does not change in a behaviour:
                   \*   prompt      consumers keep within lock_ttl and claim_idle_ms
                   \*   definition  workflow -> state of its current definition
                   \*   happen      events that happen
                   \*   order       event -> its place in the order of publication
                   \*   entitled    events of organizations with case add-ons
                   \*   ignored     events that are malformed, deleted, or made
                   \*               by a workflow

Jobs == Events \X Workflows
Messages == Events \X {1, 2}     \* entries of the stream; xadd may run twice

ASSUME CaseTriggerConstants ==
    /\ None \notin Workflows
    /\ Explicit \in [Events -> Workflows \cup {None}]
    /\ Batch \in Nat \ {0}
    /\ MaxFaults \in Nat
    /\ Worlds \subseteq [prompt : BOOLEAN, happen : SUBSET Events, order : [Events -> Nat],
                         entitled : SUBSET Events, ignored : SUBSET Events,
                         definition : [Workflows -> {"valid", "missing", "invalid"}]]
    /\ \A v \in Worlds, e, f \in Events : v.order[e] = v.order[f] => e = f

VARIABLES
    group,    \* whether the consumer group exists
    entry,    \* message -> where it is
    aged,     \* messages whose last delivery is claim_idle_ms ago
    locks,    \* jobs whose lock key exists
    done,     \* jobs whose done key exists
    status,   \* workflow -> whether its trigger is online
    comment,  \* event -> workflow_status of its comment
    runs,     \* executions Temporal has accepted: <<job, number>>
    dispatched, \* job -> executions asked for
    starting, \* consumer process -> starts running in the background
    me,       \* consumer -> its local state
    faults,   \* errors so far
    world     \* member of Worlds, chosen at the beginning

redis == <<group, entry, aged, locks, done>>
database == <<status, comment>>
temporal == <<runs, dispatched>>
vars == <<redis, database, temporal, starting, me, faults, world>>

\* "queued": not yet delivered to the group; "pending": delivered and not
\* acknowledged; "lost": in a stream that vanished, or before the group.
EntryStates == {"absent", "queued", "pending", "acked", "lost"}

\* down: there is no process.  ended: run() has raised, the process goes on.
\* idle: between messages.  The rest is where a message's processing is.
Steps == {"down", "ended", "idle", "begin", "explicit", "configured", "next", "exists",
          "lock", "dispatch", "committing", "done", "unlock", "ack"}

Idle == [pc |-> "idle", batch |-> {}, msg |-> None, wf |-> None, todo |-> {},
         ack |-> TRUE, raised |-> FALSE, offline |-> {}, failed |-> FALSE]

Init ==
    /\ group = TRUE
    /\ entry = [m \in Messages |-> "absent"]
    /\ aged = {}
    /\ locks = {} /\ done = {}
    /\ status = [w \in Workflows |-> TRUE]
    /\ comment = [e \in Events |-> "running"]
    /\ runs = {}
    /\ dispatched = [j \in Jobs |-> 0]
    /\ starting = [c \in Consumers |-> {}]
    /\ me = [c \in Consumers |-> Idle]
    /\ faults = 0
    /\ world \in Worlds

\* A step is a fault or it is not; none changes the world.
Fault == faults < MaxFaults /\ faults' = faults + 1 /\ UNCHANGED world
NoFault == UNCHANGED <<faults, world>>

Event(m) == m[1]

\* Entry ids grow in the order of publication, and with each copy.
Before(m, n) ==
    \/ world.order[Event(m)] < world.order[Event(n)]
    \/ Event(m) = Event(n) /\ m[2] < n[2]

\* The `count` entries of ms with the lowest ids, or all of them.
Oldest(ms, count) == {m \in ms : Cardinality({n \in ms : Before(n, m)}) < count}

Job(c) == <<Event(me[c].msg), me[c].wf>>
IsExplicit(c) == me[c].wf = Explicit[Event(me[c].msg)]

-----------------------------------------------------------------------------
(* Which triggers an event fires.                                          *)

\* A change of the status to closed, or back, has an event type of its own.
MatchingTypes(e) ==
    {Type[e]} \cup
        (IF Type[e] \in {"case_closed", "case_reopened"} THEN {"status_changed"} ELSE {})

\* The event types and the tag filters of w's trigger match e.
Matches(e, w) ==
    /\ Subscriptions[w] \cap MatchingTypes(e) # {}
    /\ Filters[w] = {} \/ Filters[w] \cap Tags[e] # {}

\* _load_triggers and the skips of the loop in _process_message.
LoadTriggers(e) == {w \in Workflows : status[w] /\ Matches(e, w) /\ w # Explicit[e]}

-----------------------------------------------------------------------------
(* The publisher, after the commit of the case change.                     *)

\* publish_case_event_payload: the entries it adds, and whether it returns.
Publish(e) ==
    /\ e \in world.happen /\ entry[<<e, 1>>] = "absent"
    /\ \A f \in world.happen : world.order[f] < world.order[e] => entry[<<f, 1>>] # "absent"
    /\ \E copies \in SUBSET {1, 2}, returned \in BOOLEAN :
        /\ \/ copies = {1} /\ returned /\ NoFault
           \* The reply of the first xadd was lost: the entry is added twice.
           \/ copies = {1, 2} /\ returned /\ Fault
           \* Every attempt failed, as seen by the publisher.
           \/ copies \in {{}, {1}} /\ ~returned /\ Fault
        /\ entry' = [entry EXCEPT
                        ![<<e, 1>>] = IF 1 \in copies THEN "queued" ELSE "lost",
                        ![<<e, 2>>] = IF 2 \in copies THEN "queued" ELSE @]
        \* create_comment marks the workflow as failed.
        /\ comment' = [comment EXCEPT
                        ![e] = IF returned \/ Explicit[e] = None THEN @ ELSE "failed"]
    /\ UNCHANGED <<group, aged, locks, done, status, temporal, starting, me>>

-----------------------------------------------------------------------------
(* Reading the stream.                                                     *)

Queued == {m \in Messages : entry[m] = "queued"}

\* Messages some consumer has in hand.
InHand == UNION {me[c].batch : c \in Consumers}

\* Messages of another consumer that is still at work, too.
Unattended_1(m) == entry[m] = "pending"
\* No prompt consumer is at work on the pending message m.
Unattended(m) == entry[m] = "pending" /\ (world.prompt => m \notin InHand)

\* Time passes: the idle time of m reaches claim_idle_ms.
GrowIdle(m) ==
    /\ m \notin aged /\ Unattended(m)
    /\ aged' = aged \cup {m}
    /\ NoFault
    /\ UNCHANGED <<group, entry, locks, done, database, temporal, starting, me>>

\* What xpending_range lists and xclaim hands over, by their idle filters.
Claimable == {m \in aged : Unattended(m)}

\* One entry at a time.
Offered_1 == Oldest(Claimable, 1)
\* xpending_range with count=self.batch
Offered == Oldest(Claimable, Batch)

\* Entries are acknowledged when they are delivered (NOACK).
Deliver_1(c, ms, seen) ==
    /\ entry' = [m \in Messages |-> IF m \in ms THEN "acked" ELSE entry[m]]
    /\ aged' = aged \ ms
    /\ me' = [me EXCEPT ![c].batch = IF seen THEN ms ELSE {}]
    /\ UNCHANGED <<group, locks, done, database, temporal, starting>>

\* A delivery starts the idle time of its messages anew.
Deliver(c, ms, seen) ==
    /\ entry' = [m \in Messages |-> IF m \in ms THEN "pending" ELSE entry[m]]
    /\ aged' = aged \ ms
    /\ me' = [me EXCEPT ![c].batch = IF seen THEN ms ELSE {}]
    /\ UNCHANGED <<group, locks, done, database, temporal, starting>>

\* If the reply is lost the command is repeated and does not find ms again.
Receive(c, ms) ==
    /\ ms # {}
    /\ \/ Deliver(c, ms, TRUE) /\ NoFault
       \/ Deliver(c, ms, FALSE) /\ Fault

Waiting(c) == me[c].pc = "idle" /\ me[c].batch = {}

\* xreadgroup ">"
Read(c) == Waiting(c) /\ group /\ Receive(c, Oldest(Queued, Batch))

\* _claim_idle_messages, after a read that returned nothing.  Its two commands
\* are one step: what another consumer takes in between has been delivered.
ClaimIdleMessages(c) == Waiting(c) /\ group /\ Queued = {} /\ Receive(c, Offered)

\* The stream key is lost: evicted, or Redis restarted without its data.
Vanish ==
    /\ group /\ Fault
    /\ group' = FALSE
    /\ entry' = [m \in Messages |->
                    IF entry[m] \in {"queued", "pending"} THEN "lost" ELSE entry[m]]
    /\ aged' = {}
    /\ UNCHANGED <<locks, done, database, temporal, starting, me>>

\* _ensure_group with id="$": entries that are already there are skipped.
CreateGroup ==
    /\ group' = TRUE
    /\ entry' = [m \in Messages |->
                    IF ~group /\ entry[m] = "queued" THEN "lost" ELSE entry[m]]

\* run(): NOGROUP
EnsureGroup(c) ==
    /\ Waiting(c) /\ ~group
    /\ CreateGroup
    /\ NoFault
    /\ UNCHANGED <<aged, locks, done, database, temporal, starting, me>>

-----------------------------------------------------------------------------
(* A consumer with a message.  Each step reads or writes one store.        *)

Goto(c, pc) == me' = [me EXCEPT ![c].pc = pc]
\* The message is finished, whatever else happens to it.
Leave(c) == [Idle EXCEPT !.batch = me[c].batch \ {me[c].msg}]

\* _handle_message, up to the point where event and case are loaded
Handle(c) ==
    /\ me[c].pc = "idle"
    /\ \E m \in Oldest(me[c].batch, 1) :
        me' = [me EXCEPT ![c] = [Idle EXCEPT !.batch = me[c].batch, !.msg = m,
                    !.pc = IF Event(m) \in world.ignored THEN "ack" ELSE "begin"]]
    /\ NoFault
    /\ UNCHANGED <<redis, database, temporal, starting>>

Begin(c) ==
    LET e == Event(me[c].msg)
    IN  /\ me[c].pc = "begin"
        /\ me' = [me EXCEPT ![c].pc = IF Explicit[e] = None THEN "configured" ELSE "exists",
                            ![c].wf = Explicit[e]]
        /\ NoFault
        /\ UNCHANGED <<redis, database, temporal, starting>>

\* The entitlement check, then _load_triggers.
LoadConfigured(c) ==
    LET e == Event(me[c].msg)
    IN  /\ me[c].pc = "configured"
        /\ me' = [me EXCEPT ![c].pc = "next",
                            ![c].todo = IF e \in world.entitled THEN LoadTriggers(e) ELSE {}]
        /\ NoFault
        /\ UNCHANGED <<redis, database, temporal, starting>>

NextTrigger(c) ==
    /\ me[c].pc = "next"
    /\ \E w \in me[c].todo :
        me' = [me EXCEPT ![c].pc = "exists", ![c].wf = w, ![c].todo = @ \ {w}]
    /\ NoFault
    /\ UNCHANGED <<redis, database, temporal, starting>>

\* Where a consumer goes when it is through with a job.
After(c) == IF IsExplicit(c) THEN "configured" ELSE "next"

\* client.exists(done_key)
Exists(c) ==
    /\ me[c].pc = "exists"
    /\ Goto(c, IF Job(c) \in done THEN After(c) ELSE "lock")
    /\ NoFault
    /\ UNCHANGED <<redis, database, temporal, starting>>

\* A message whose job is locked by another consumer is acknowledged.
Refused_1(c) == [me[c] EXCEPT !.pc = After(c)]
Refused(c) == [me[c] EXCEPT !.pc = After(c), !.ack = FALSE]

MayLock(c) == Job(c) \notin locks

\* client.set_if_not_exists(lock_key)
Lock(c) ==
    /\ me[c].pc = "lock"
    /\ locks' = locks \cup {Job(c)}
    /\ \/ MayLock(c) /\ Goto(c, "dispatch") /\ NoFault
       \/ ~MayLock(c) /\ me' = [me EXCEPT ![c] = Refused(c)] /\ NoFault
       \* The key was set, the reply was lost, the repeated command sees it.
       \/ me' = [me EXCEPT ![c] = Refused(c)] /\ Fault
    /\ UNCHANGED <<group, entry, aged, done, database, temporal, starting>>

Execution(j, n) == <<j, n>>

\* _dispatch_workflow: a background task starts the execution under a fresh
\* id; a trigger without a usable definition is put offline.
DispatchConfigured(c) ==
    /\ me[c].pc = "dispatch" /\ ~IsExplicit(c)
    /\ IF world.definition[me[c].wf] = "valid"
       THEN /\ dispatched' = [dispatched EXCEPT ![Job(c)] = @ + 1]
            /\ starting' = [starting EXCEPT ![c] = @ \cup {Execution(Job(c), dispatched'[Job(c)])}]
            /\ Goto(c, "done")
       ELSE /\ me' = [me EXCEPT ![c].pc = "done", ![c].offline = @ \cup {me[c].wf}]
            /\ UNCHANGED <<dispatched, starting>>
    /\ NoFault
    /\ UNCHANGED <<redis, database, runs>>

\* _dispatch_workflow raises before anything was started.
DispatchRaises(c) ==
    /\ me[c].pc = "dispatch" /\ ~IsExplicit(c) /\ Fault
    /\ me' = [me EXCEPT ![c].pc = "unlock", ![c].ack = FALSE]
    /\ UNCHANGED <<redis, database, temporal, starting>>

\* _dispatch_selected_workflow: the execution id was fixed by create_comment,
\* and Temporal rejects a second start under the same id.
DispatchExplicit(c) ==
    LET d == world.definition[me[c].wf]
    IN  /\ me[c].pc = "dispatch" /\ IsExplicit(c)
        /\ \/ /\ d = "valid" /\ runs' = runs \cup {<<Job(c), 0>>}
              /\ Goto(c, "committing") /\ NoFault
           \* The start failed, or timed out when Temporal had accepted it.
           \/ /\ d = "valid" /\ \E s \in {{}, {<<Job(c), 0>>}} : runs' = runs \cup s
              /\ me' = [me EXCEPT ![c].pc = "committing", ![c].failed = TRUE] /\ Fault
           \/ /\ d = "missing" /\ UNCHANGED runs
              /\ me' = [me EXCEPT ![c].pc = "committing", ![c].failed = TRUE] /\ NoFault
           \* model_validate is outside the try block.
           \/ /\ d = "invalid" /\ UNCHANGED runs
              /\ me' = [me EXCEPT ![c].pc = "unlock", ![c].raised = TRUE] /\ NoFault
        /\ UNCHANGED <<redis, database, dispatched, starting>>

\* session.commit() of the explicit workflow
CommitExplicit(c) ==
    /\ me[c].pc = "committing"
    /\ \/ /\ comment' = [comment EXCEPT ![Event(me[c].msg)] =
                            IF me[c].failed THEN "failed" ELSE @]
          /\ Goto(c, "done") /\ NoFault
       \/ /\ me' = [me EXCEPT ![c].pc = "unlock", ![c].raised = TRUE]
          /\ UNCHANGED comment /\ Fault
    /\ UNCHANGED <<redis, status, temporal, starting>>

\* client.set(done_key)
SetDone(c) ==
    /\ me[c].pc = "done"
    /\ \/ done' = done \cup {Job(c)} /\ Goto(c, "unlock") /\ NoFault
       \* The error of a configured trigger is caught, that of an explicit
       \* workflow ends the processing once the lock is deleted.
       \/ /\ \E s \in {{}, {Job(c)}} : done' = done \cup s
          /\ me' = [me EXCEPT ![c].pc = "unlock", ![c].ack = FALSE, ![c].raised = IsExplicit(c)]
          /\ Fault
    /\ UNCHANGED <<group, entry, aged, locks, database, temporal, starting>>

\* finally: client.delete(lock_key), whoever holds the lock by now
Unlock(c) ==
    /\ me[c].pc = "unlock"
    /\ locks' = locks \ {Job(c)}
    /\ me' = IF me[c].raised THEN [me EXCEPT ![c] = Leave(c)]
             ELSE [me EXCEPT ![c].pc = After(c)]
    /\ NoFault
    /\ UNCHANGED <<group, entry, aged, done, database, temporal, starting>>

\* The last commit of _process_message; the message is acknowledged or left
\* pending for a later claim.
Commit(c) ==
    /\ me[c].pc = "next" /\ me[c].todo = {}
    /\ status' = [w \in Workflows |-> status[w] /\ w \notin me[c].offline]
    /\ me' = IF me[c].ack THEN [me EXCEPT ![c].pc = "ack"]
             ELSE [me EXCEPT ![c] = Leave(c)]
    /\ NoFault
    /\ UNCHANGED <<redis, comment, temporal, starting>>

\* An error of Redis or of the database outside the try block of a job: the
\* message stays pending and the session is rolled back.
Raise(c) ==
    /\ me[c].pc \in {"begin", "configured", "exists", "lock", "unlock", "next"}
    /\ me' = [me EXCEPT ![c] = Leave(c)]
    /\ Fault
    /\ UNCHANGED <<redis, database, temporal, starting>>

Acked(m) == [entry EXCEPT ![m] = IF @ = "pending" THEN "acked" ELSE @]

\* client.xack
Ack(c) ==
    /\ me[c].pc = "ack"
    /\ entry' = Acked(me[c].msg)
    /\ me' = [me EXCEPT ![c] = Leave(c)]
    /\ NoFault
    /\ UNCHANGED <<group, aged, locks, done, database, temporal, starting>>

\* An error of xack that outlives the retries, executed or not, ends the task
\* of the consumer, but not the process and its background tasks.
AckRaises(c) ==
    /\ me[c].pc = "ack" /\ Fault
    /\ entry' \in {entry, Acked(me[c].msg)}
    /\ me' = [me EXCEPT ![c] = [Idle EXCEPT !.pc = "ended"]]
    /\ UNCHANGED <<group, aged, locks, done, database, temporal, starting>>

\* So does an error of a command that reads, claims or creates the group.
RunRaises(c) ==
    /\ Waiting(c) /\ Fault
    /\ me' = [me EXCEPT ![c] = [Idle EXCEPT !.pc = "ended"]]
    /\ UNCHANGED <<redis, database, temporal, starting>>

-----------------------------------------------------------------------------
(* The process around a consumer, and Redis' expiry.                       *)

\* A background start of create_workflow_execution_nowait succeeds, or fails
\* and is only logged.
Start(c) ==
    \E r \in starting[c] :
        /\ starting' = [starting EXCEPT ![c] = @ \ {r}]
        /\ \/ runs' = runs \cup {r} /\ NoFault
           \/ UNCHANGED runs /\ Fault
        /\ UNCHANGED <<redis, database, dispatched, me>>

\* The API process ends, with everything it had in memory.
Crash(c) ==
    /\ me[c].pc # "down" /\ Fault
    /\ me' = [me EXCEPT ![c] = [Idle EXCEPT !.pc = "down"]]
    /\ starting' = [starting EXCEPT ![c] = {}]
    /\ UNCHANGED <<redis, database, temporal>>

\* A new process: start_case_trigger_consumer.  The deployment replaces a
\* process that is gone; where only the task has ended, nobody need notice.
Restart(c) ==
    /\ me[c].pc \in {"down", "ended"}
    /\ me' = [me EXCEPT ![c] = Idle]
    /\ starting' = [starting EXCEPT ![c] = {}]
    /\ CreateGroup
    /\ NoFault
    /\ UNCHANGED <<aged, locks, done, database, temporal>>

InSection(c) == me[c].pc \in {"dispatch", "committing", "done", "unlock"}

Expirable(j) == world.prompt => \A c \in Consumers : ~(InSection(c) /\ Job(c) = j)

\* The lock is set without a time to live.
ExpireLock_1(j) == FALSE /\ UNCHANGED vars
\* lock_ttl
ExpireLock(j) ==
    /\ j \in locks /\ Expirable(j)
    /\ locks' = locks \ {j}
    /\ NoFault
    /\ UNCHANGED <<group, entry, aged, done, database, temporal, starting, me>>

\* dedup_ttl: six hours after the dispatch
ExpireDone ==
    \E j \in done :
        /\ Fault
        /\ done' = done \ {j}
        /\ UNCHANGED <<group, entry, aged, locks, database, temporal, starting, me>>

\* Every event is published, acknowledged and its workflows are started.
Quiet ==
    /\ \A e \in world.happen : entry[<<e, 1>>] # "absent"
    /\ \A c \in Consumers : Waiting(c) /\ starting[c] = {}
    /\ Queued = {} /\ \A m \in Messages : ~Unattended(m)
    /\ UNCHANGED vars

ConsumerStep(c) ==
    \/ Read(c) \/ ClaimIdleMessages(c) \/ EnsureGroup(c)
    \/ Handle(c) \/ Begin(c) \/ LoadConfigured(c) \/ NextTrigger(c)
    \/ Exists(c) \/ Lock(c)
    \/ DispatchConfigured(c) \/ DispatchExplicit(c) \/ CommitExplicit(c)
    \/ SetDone(c) \/ Unlock(c) \/ Commit(c) \/ Ack(c)

ConsumerFault(c) == DispatchRaises(c) \/ Raise(c) \/ AckRaises(c) \/ RunRaises(c) \/ Crash(c)

Next ==
    \/ \E e \in Events : Publish(e)
    \/ \E c \in Consumers : ConsumerStep(c) \/ ConsumerFault(c) \/ Start(c) \/ Restart(c)
    \/ Vanish \/ ExpireDone \/ \E j \in Jobs : ExpireLock(j)
    \/ \E m \in Messages : GrowIdle(m)
    \/ Quiet

Spec == Init /\ [][Next]_vars

\* Consumers run, time passes for locks and pending messages, and the
\* deployment replaces a process that is gone, not one whose consumer task has
\* ended.  Fairness never forces the outcome of a step that is a fault.
Fairness ==
    /\ \A c \in Consumers :
        WF_vars(ConsumerStep(c) /\ NoFault) /\ WF_vars(me[c].pc = "down" /\ Restart(c))
    /\ \A m \in Messages : WF_vars(GrowIdle(m))
    /\ \A j \in Jobs : WF_vars(ExpireLock(j))

FairSpec == Spec /\ Fairness

-----------------------------------------------------------------------------
(* Properties.                                                             *)

LocalState ==
    [pc : Steps, batch : SUBSET Messages, msg : Messages \cup {None},
     wf : Workflows \cup {None}, todo : SUBSET Workflows, ack : BOOLEAN,
     raised : BOOLEAN, offline : SUBSET Workflows, failed : BOOLEAN]

\* Every variable has its type; a consumer that works on a job has the
\* message in its batch (CaseTriggerConsumer).
TypeOK ==
    /\ group \in BOOLEAN
    /\ entry \in [Messages -> EntryStates]
    /\ aged \subseteq Messages
    /\ locks \subseteq Jobs /\ done \subseteq Jobs
    /\ status \in [Workflows -> BOOLEAN]
    /\ comment \in [Events -> {"running", "failed"}]
    /\ runs \subseteq Jobs \X Nat
    /\ dispatched \in [Jobs -> Nat]
    /\ starting \in [Consumers -> SUBSET (Jobs \X Nat)]
    /\ me \in [Consumers -> LocalState]
    /\ faults \in 0 .. MaxFaults
    /\ world \in Worlds

\* The configured workflows an event must start.
Wanted(e) ==
    IF e \in world.ignored \/ e \notin world.entitled THEN {}
    ELSE {w \in Workflows : /\ Matches(e, w) /\ w # Explicit[e]
                            /\ world.definition[w] = "valid"}

\* The workflow of the comment was started, or the comment says it failed.
ExplicitSettled(e) ==
    \/ e \in world.ignored \/ Explicit[e] = None
    \/ \E r \in runs : r[1] = <<e, Explicit[e]>>
    \/ comment[e] = "failed"

\* Everything e asks for was asked for.
Settled(e) ==
    /\ \A w \in Wanted(e) : dispatched[<<e, w>>] > 0
    /\ ExplicitSettled(e)

\* At-least-once: a message is acknowledged only when every workflow its
\* event has to start was dispatched, by this consumer or by another one
\* (consumer.py, should_ack), whatever failed, expired or was claimed before.
AckedIsSettled == \A m \in Messages : entry[m] = "acked" => Settled(Event(m))

\* Deduplication by prompt consumers: a workflow is dispatched more than once
\* for an event only if something failed for each extra time
\* (case-trigger:done keys).  The check of the done key comes before the
\* lock, so a duplicated entry is enough for a second dispatch; and a failure
\* then counts for both entries, because refused locks on other workflows can
\* leave both pending when a done key expires.
DuplicatesNeedFaults ==
    world.prompt => \A e \in Events, w \in Workflows :
        dispatched[<<e, w>>] <= IF entry[<<e, 2>>] = "absent" THEN 1 + faults ELSE 2 * faults

\* How far the delivery of an event is, in the terms of CaseEventDelivery.
DeliveryState(e) ==
    LET at == {entry[<<e, 1>>], entry[<<e, 2>>]}
    IN  CASE at \cap {"queued", "pending"} # {} -> "owed"
          [] at = {"absent"} -> "new"
          [] "lost" \in at /\ at \cap {"queued", "pending"} = {} -> "void"
          [] OTHER -> "settled"

Delivery ==
    INSTANCE CaseEventDelivery WITH
        wants <- [e \in Events |-> Wanted(e)],
        state <- [e \in Events |-> DeliveryState(e)],
        asked <- dispatched,
        prompt <- world.prompt

\* Stream, consumer group, locks and keys together implement at-least-once
\* delivery: an event is settled only when all it wants was dispatched, and
\* prompt consumers dispatch nothing for it afterwards (run and
\* _process_message, whatever fails, crashes or vanishes).
ImplementsDelivery == Delivery!DeliverySpec

\* An event whose selected workflow has a definition that no longer parses
\* raises each time it is processed (_dispatch_selected_workflow).
Poison ==
    {e \in Events \ world.ignored :
        \E w \in Workflows : Explicit[e] = w /\ world.definition[w] = "invalid"}

\* The entries of poison events in front of m, which are never acknowledged.
PoisonBefore(m) ==
    {n \in Messages :
        Event(n) \in Poison /\ Before(n, m) /\ entry[n] \in {"queued", "pending"}}

\* A message that was published is acknowledged in the end, unless the stream
\* vanished or the consumer task of every process has ended.  Errors, crashes
\* and orphaned locks only delay it, and so does poison in front of it, as long
\* as it does not fill the batch of a claim (_claim_idle_messages).
EveryMessageAcked ==
    \A m \in Messages :
        entry[m] = "queued" /\ Event(m) \notin Poison /\ Cardinality(PoisonBefore(m)) < Batch
            ~> entry[m] \in {"acked", "lost"} \/ \A c \in Consumers : me[c].pc = "ended"

=============================================================================

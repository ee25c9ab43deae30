---------------------------- MODULE TierPermits -----------------------------
(***************************************************************************)
(* The concurrency permits of an organization: a Redis sorted set per      *)
(* scope (tiers/semaphore.py), the activities that use it                  *)
(* (tiers/activities.py, tiers/permits.py) and the workflows and actions   *)
(* that hold permits (dsl/workflow.py).                                    *)
(*                                                                         *)
(* A workflow never talks to Redis itself: it starts an activity, the      *)
(* activity runs one script, and its result comes back or the activity     *)
(* times out.  A timed-out activity is not retried ("fail_fast") and may   *)
(* still reach Redis afterwards.  `ops` holds the operations under way.    *)
(*                                                                         *)
(* The score of a member is kept as its age, so that time needs no bound;  *)
(* one tick is a fixed number of seconds.                                  *)
(*                                                                         *)
(* Definitions with "_" and a number are variants of the one that follows  *)
(* them, each with a slip the properties must notice; nothing uses them.   *)
(***************************************************************************)
EXTENDS Integers, FiniteSets

CONSTANTS
    WorkflowIds,  \* workflow executions, permit scope "workflow"
    ActionIds,    \* action permit ids, permit scope "action"
    TTL,          \* TRACECAT__PERMIT_TTL_SECONDS, in ticks
    Limits,       \* the effective limits the organization may have
    MaxLimit,     \* the largest of them
    HeartbeatsArrive  \* whether every holder is heard of once per TTL

Holders == WorkflowIds \cup ActionIds
PermitScope == {"workflow", "action"}
Scope(h) == IF h \in WorkflowIds THEN "workflow" ELSE "action"

ASSUME PermitConstants ==
    /\ IsFiniteSet(Holders)
    /\ TTL \in Nat \ {0}
    /\ Limits \subseteq Nat \ {0} /\ Limits # {}
    /\ MaxLimit \in Limits /\ \A l \in Limits : l <= MaxLimit
    /\ HeartbeatsArrive \in BOOLEAN
    /\ WorkflowIds \cap ActionIds = {}

VARIABLES
    permits,  \* the members of the sorted sets: holder -> age of its score
    ops,      \* operations sent and not yet executed by Redis
    pc        \* where the workflow, or the task of the action, is

vars == <<permits, ops, pc>>

\* "granted", "refused" and "freed": Redis has answered, the workflow has not
\* seen the answer.  "released": it has seen that its permit was released.
States == {"new", "acquiring", "granted", "refused", "waiting", "running",
           "releasing", "freed", "released", "ended"}
OpKinds == {"acquire", "heartbeat", "release"}
Op == OpKinds \X Holders

Init ==
    /\ permits = [h \in {} |-> 0]
    /\ ops = {}
    /\ pc = [h \in Holders |-> "new"]

-----------------------------------------------------------------------------
(* The scripts, each atomic in Redis.                                      *)

\* Entries are never pruned.
Stale_2(age) == FALSE
\* ZREMRANGEBYSCORE key -inf now-ttl
Stale(age) == age >= TTL

Pruned(scope) ==
    [k \in {m \in DOMAIN permits : ~(Scope(m) = scope /\ Stale(permits[m]))} |-> permits[k]]

InScope(f, scope) == {k \in DOMAIN f : Scope(k) = scope}

\* ZADD key now permit_id
Put(f, h) == [k \in DOMAIN f \cup {h} |-> IF k = h THEN 0 ELSE f[k]]

\* One permit more than the limit.
HasRoom_1(f, scope, l) == Cardinality(InScope(f, scope)) <= l
HasRoom(f, scope, l) == Cardinality(InScope(f, scope)) < l

\* _ACQUIRE_SCRIPT.  The limit l was read before, from a cache that may be
\* stale: any limit of the organization.
RedisAcquire(h, l) ==
    LET kept == Pruned(Scope(h))
        granted == h \in DOMAIN kept \/ HasRoom(kept, Scope(h), l)
    IN  /\ <<"acquire", h>> \in ops
        /\ ops' = ops \ {<<"acquire", h>>}
        /\ permits' = IF granted THEN Put(kept, h) ELSE kept
        /\ pc' = [pc EXCEPT ![h] = IF @ # "acquiring" THEN @
                                   ELSE IF granted THEN "granted" ELSE "refused"]

\* The permit is added again if it is missing.
Refreshed_1(h) == Put(permits, h)
Refreshed(h) == IF h \in DOMAIN permits THEN Put(permits, h) ELSE permits

\* _HEARTBEAT_SCRIPT; the workflow only logs what it returns.
RedisHeartbeat(h) ==
    /\ <<"heartbeat", h>> \in ops
    /\ ops' = ops \ {<<"heartbeat", h>>}
    /\ permits' = Refreshed(h)
    /\ UNCHANGED pc

\* ZREM
RedisRelease(h) ==
    /\ <<"release", h>> \in ops
    /\ ops' = ops \ {<<"release", h>>}
    /\ permits' = [k \in DOMAIN permits \ {h} |-> permits[k]]
    /\ pc' = [pc EXCEPT ![h] = IF @ = "releasing" THEN "freed" ELSE @]

\* get_count
GetCount(scope) == permits' = Pruned(scope) /\ UNCHANGED <<ops, pc>>

\* An activity fails, or its worker dies, before it has reached Redis.
Lose(op) ==
    /\ op \in ops
    /\ ops' = ops \ {op}
    /\ UNCHANGED <<permits, pc>>

-----------------------------------------------------------------------------
(* The workflow.                                                           *)

Send(kind, h) == ops' = ops \cup {<<kind, h>>}

Goto(h, state) == pc' = [pc EXCEPT ![h] = state]

\* One attempt of _acquire_workflow_permit or _acquire_action_permit
SendAcquire(h) ==
    /\ pc[h] \in {"new", "waiting"}
    /\ Send("acquire", h) /\ Goto(h, "acquiring")
    /\ UNCHANGED permits

AcquireReturns(h) ==
    /\ \/ pc[h] = "granted" /\ Goto(h, "running")
       \/ pc[h] = "refused" /\ Goto(h, "waiting")
    /\ UNCHANGED <<permits, ops>>

\* The acquisition raises.  An action has named its permit and releases it in
\* its finally clause; a workflow is not yet inside the try whose finally clause
\* releases.
Abandon(h) ==
    IF h \in ActionIds THEN Send("release", h) /\ Goto(h, "releasing")
    ELSE Goto(h, "ended") /\ UNCHANGED ops

\* The activity timed out or failed, the limit is invalid, the maximum wait is
\* over, or the workflow is cancelled.
AcquireFails(h) ==
    /\ pc[h] \in {"acquiring", "granted", "refused", "waiting"}
    /\ Abandon(h)
    /\ UNCHANGED permits

\* _workflow_permit_heartbeat_loop, _action_permit_heartbeat_loop
SendHeartbeat(h) ==
    /\ pc[h] = "running"
    /\ Send("heartbeat", h)
    /\ UNCHANGED <<permits, pc>>

\* The heartbeat loop is stopped (its activity may still be under way), then
\* the permit is released.
Finish(h) ==
    /\ pc[h] = "running"
    /\ Send("release", h) /\ Goto(h, "releasing")
    /\ UNCHANGED permits

ReleaseReturns(h) ==
    /\ pc[h] = "freed"
    /\ Goto(h, "released")
    /\ UNCHANGED <<permits, ops>>

\* "Log but don't fail - permit will expire via TTL"
ReleaseFails(h) ==
    /\ pc[h] \in {"releasing", "freed"}
    /\ Goto(h, "ended")
    /\ UNCHANGED <<permits, ops>>

\* The workflow is terminated: no finally clause runs.
Terminate(h) ==
    /\ pc[h] \notin {"released", "ended"}
    /\ Goto(h, "ended")
    /\ UNCHANGED <<permits, ops>>

\* An action in a loop runs again under the same permit id.
Again(h) ==
    /\ h \in ActionIds /\ pc[h] \in {"released", "ended"}
    /\ Goto(h, "new")
    /\ UNCHANGED <<permits, ops>>

\* Time passes.  A heartbeat is due every 60 s and the TTL is 300 s; a failed
\* one is only logged.  HeartbeatsArrive says that one in the TTL succeeds, so
\* that a permit in use does not reach its TTL.
InUse(h) == pc[h] \in {"granted", "running"}
Tick ==
    /\ HeartbeatsArrive => \A h \in DOMAIN permits : InUse(h) => permits[h] + 1 < TTL
    /\ permits' = [h \in DOMAIN permits |-> IF permits[h] < TTL THEN permits[h] + 1 ELSE TTL]
    /\ UNCHANGED <<ops, pc>>

HolderStep(h) ==
    \/ SendAcquire(h) \/ AcquireReturns(h) \/ AcquireFails(h)
    \/ SendHeartbeat(h) \/ Finish(h) \/ ReleaseReturns(h) \/ ReleaseFails(h)
    \/ Terminate(h) \/ Again(h)

RedisStep(h) == (\E l \in Limits : RedisAcquire(h, l)) \/ RedisHeartbeat(h) \/ RedisRelease(h)

Next ==
    \/ \E h \in Holders : HolderStep(h) \/ RedisStep(h)
    \/ \E op \in Op : Lose(op)
    \/ \E scope \in PermitScope : GetCount(scope)
    \/ Tick

Spec == Init /\ [][Next]_vars

\* An activity ends, or times out, once its operation is no longer under way;
\* a workflow makes progress and time passes.  Nothing obliges a workflow to
\* give up, to be terminated or to lose an operation.
Stranded(h) ==
    \/ pc[h] = "acquiring" /\ <<"acquire", h>> \notin ops /\ AcquireFails(h)
    \/ pc[h] = "releasing" /\ <<"release", h>> \notin ops /\ ReleaseFails(h)

Fairness ==
    /\ \A h \in Holders :
        /\ WF_vars(SendAcquire(h)) /\ WF_vars(AcquireReturns(h)) /\ WF_vars(Finish(h))
        /\ WF_vars(ReleaseReturns(h)) /\ WF_vars(Stranded(h))
        /\ WF_vars(SendHeartbeat(h)) /\ WF_vars(RedisHeartbeat(h))
        /\ WF_vars(\E l \in Limits : RedisAcquire(h, l)) /\ WF_vars(RedisRelease(h))
    /\ WF_vars(Tick)

FairSpec == Spec /\ Fairness

-----------------------------------------------------------------------------
(* Properties.                                                             *)

\* The permit state is well formed: members of the sorted sets are holders
\* and no score lies in the future or is kept older than the TTL.
TypeOK ==
    /\ DOMAIN permits \subseteq Holders /\ permits \in [DOMAIN permits -> 0..TTL]
    /\ ops \subseteq Op
    /\ pc \in [Holders -> States]

\* However acquisitions, expiries and changes of the limit interleave, a
\* sorted set never holds more members than the largest limit in force.
CountBounded ==
    \A scope \in PermitScope : Cardinality(InScope(permits, scope)) <= MaxLimit

\* A workflow that runs holds its permit: nobody else's acquire has pruned it
\* and no operation still under way removes it.
WorkflowsHoldPermits ==
    \A h \in WorkflowIds : InUse(h) => h \in DOMAIN permits /\ permits[h] < TTL

\* So no more workflows run at once than the limit allows.
WorkflowsWithinLimit ==
    Cardinality({h \in WorkflowIds : pc[h] = "running"}) <= MaxLimit

\* A permit that a workflow knows to be released stays released, although a
\* heartbeat may still be under way when the loop is stopped.
ReleasedStaysReleased == \A h \in WorkflowIds : pc[h] = "released" => h \notin DOMAIN permits

\* A workflow that waits for a permit gets one (or stops waiting), even if
\* those who hold the permits are terminated or fail to release them.
WaitersAreServed ==
    \A h \in WorkflowIds : pc[h] = "waiting" ~> pc[h] \in {"running", "ended"}
=============================================================================

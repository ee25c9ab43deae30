------------------------- MODULE DSLWorkflow_proofs -------------------------
(***************************************************************************)
(* Proofs about what a DSLWorkflow keeps beside its scheduler: the permits *)
(* of its tier (TierPermits), for every set of workflows and actions,      *)
(* every TTL and every set of limits, and its interactions (Interactions), *)
(* for any number of interactions, answers and failed attempts.            *)
(***************************************************************************)
EXTENDS TierPermits, Interactions, TLAPS, FiniteSetTheorems

\* A workflow has at most one acquire or release under way, and only where its
\* control says so; after "ended" either may still reach Redis.
AcquiresMatch ==
    \A h \in WorkflowIds : <<"acquire", h>> \in ops => pc[h] \in {"acquiring", "ended"}
ReleasesMatch ==
    \A h \in WorkflowIds : <<"release", h>> \in ops => pc[h] \in {"releasing", "ended"}

\* Once its release has been executed, a workflow has no permit.
FreedIsGone ==
    \A h \in WorkflowIds : pc[h] \in {"freed", "released"} => h \notin DOMAIN permits

IInv ==
    /\ TypeOK
    /\ CountBounded
    /\ AcquiresMatch
    /\ ReleasesMatch
    /\ FreedIsGone
    /\ HeartbeatsArrive => WorkflowsHoldPermits

-----------------------------------------------------------------------------
(* The operations on the sorted sets.                                      *)

\* Pruning keeps the score of every member it keeps, and keeps every member
\* that is not stale.
LEMMA PrunedKeeps ==
    ASSUME TypeOK, NEW scope
    PROVE  /\ DOMAIN Pruned(scope) \subseteq DOMAIN permits
           /\ \A k \in DOMAIN Pruned(scope) : Pruned(scope)[k] = permits[k]
           /\ Pruned(scope) \in [DOMAIN Pruned(scope) -> 0..TTL]
           /\ \A k \in DOMAIN permits : permits[k] < TTL => k \in DOMAIN Pruned(scope)
<1>1. \A k \in DOMAIN permits : permits[k] \in 0..TTL
    BY DEF TypeOK
<1> QED
    BY <1>1, PermitConstants DEF Pruned, Stale

\* ZADD of one member.
LEMMA PutAdds ==
    ASSUME NEW f, NEW h, f \in [DOMAIN f -> 0..TTL]
    PROVE  /\ DOMAIN Put(f, h) = DOMAIN f \cup {h}
           /\ Put(f, h)[h] = 0
           /\ \A k \in DOMAIN f : k # h => Put(f, h)[k] = f[k]
           /\ Put(f, h) \in [DOMAIN f \cup {h} -> 0..TTL]
BY PermitConstants DEF Put

\* The members of one scope are finitely many.
LEMMA ScopeFinite ==
    ASSUME NEW f, NEW scope, DOMAIN f \subseteq Holders
    PROVE  IsFiniteSet(InScope(f, scope)) /\ Cardinality(InScope(f, scope)) \in Nat
<1>1. InScope(f, scope) \subseteq Holders
    BY DEF InScope
<1> QED
    BY <1>1, FS_Subset, FS_CardinalityType, PermitConstants

\* Fewer members, fewer in every scope.
LEMMA FewerMembers ==
    ASSUME NEW f, NEW g, NEW scope, DOMAIN g \subseteq Holders, DOMAIN f \subseteq DOMAIN g
    PROVE  Cardinality(InScope(f, scope)) <= Cardinality(InScope(g, scope))
<1>1. InScope(f, scope) \subseteq InScope(g, scope)
    BY DEF InScope
<1> QED
    BY <1>1, ScopeFinite, FS_Subset

\* Removing members keeps the bound on the count.
LEMMA CountShrinks ==
    ASSUME IInv, DOMAIN permits' \subseteq DOMAIN permits
    PROVE  CountBounded'
<1>1. DOMAIN permits \subseteq Holders /\ CountBounded
    BY DEF IInv, TypeOK
<1> SUFFICES ASSUME NEW scope \in PermitScope
             PROVE  Cardinality(InScope(permits', scope)) <= MaxLimit
    BY DEF CountBounded, InScope
<1>2. Cardinality(InScope(permits', scope)) <= Cardinality(InScope(permits, scope))
    BY <1>1, FewerMembers
<1>3. /\ Cardinality(InScope(permits', scope)) \in Nat
      /\ Cardinality(InScope(permits, scope)) \in Nat
    BY <1>1, ScopeFinite
<1>4. Cardinality(InScope(permits, scope)) <= MaxLimit
    BY <1>1 DEF CountBounded
<1> QED
    BY <1>2, <1>3, <1>4, PermitConstants

\* An acquire adds a member only if the count allows it.
LEMMA AcquireBounded ==
    ASSUME IInv, NEW h \in Holders, NEW l \in Limits, RedisAcquire(h, l)
    PROVE  CountBounded'
<1> DEFINE kept == Pruned(Scope(h))
<1> HIDE DEF kept
<1>1. DOMAIN permits \subseteq Holders /\ TypeOK /\ CountBounded
    BY DEF IInv, TypeOK
<1>2. DOMAIN kept \subseteq DOMAIN permits /\ kept \in [DOMAIN kept -> 0..TTL]
    BY <1>1, PrunedKeeps DEF kept
<1>3. CASE permits' = kept
    BY <1>2, <1>3, CountShrinks
<1>4. CASE permits' = Put(kept, h) /\ h \in DOMAIN kept
    <2>1. DOMAIN Put(kept, h) = DOMAIN kept \cup {h}
        BY <1>2, PutAdds
    <2>2. DOMAIN permits' = DOMAIN kept
        BY <1>4, <2>1
    <2> QED
        BY <2>2, <1>2, CountShrinks
<1>5. CASE permits' = Put(kept, h) /\ h \notin DOMAIN kept /\ HasRoom(kept, Scope(h), l)
    <2>1. DOMAIN permits' = DOMAIN kept \cup {h}
        BY <1>2, <1>5, PutAdds
    <2> SUFFICES ASSUME NEW scope \in PermitScope
                 PROVE  Cardinality(InScope(permits', scope)) <= MaxLimit
        BY DEF CountBounded, InScope
    <2>2. Cardinality(InScope(kept, scope)) \in Nat /\ IsFiniteSet(InScope(kept, scope))
        BY <1>1, <1>2, ScopeFinite
    <2>3. CASE scope = Scope(h)
        <3>1. InScope(permits', scope) = InScope(kept, scope) \cup {h}
            BY <2>1, <2>3 DEF InScope
        <3>2. h \notin InScope(kept, scope)
            BY <1>5 DEF InScope
        <3>3. Cardinality(InScope(permits', scope)) = Cardinality(InScope(kept, scope)) + 1
            BY <2>2, <3>1, <3>2, FS_AddElement
        <3>4. Cardinality(InScope(kept, scope)) < l
            BY <1>5, <2>3 DEF HasRoom
        <3> QED
            BY <2>2, <3>3, <3>4, PermitConstants
    <2>4. CASE scope # Scope(h)
        <3>1. InScope(permits', scope) = InScope(kept, scope)
            BY <2>1, <2>4 DEF InScope
        <3>2. Cardinality(InScope(kept, scope)) <= Cardinality(InScope(permits, scope))
            BY <1>1, <1>2, FewerMembers
        <3>3. Cardinality(InScope(permits, scope)) \in Nat
            BY <1>1, ScopeFinite
        <3>4. Cardinality(InScope(permits, scope)) <= MaxLimit
            BY <1>1 DEF CountBounded
        <3> QED
            BY <2>2, <3>1, <3>2, <3>3, <3>4, PermitConstants
    <2> QED
        BY <2>3, <2>4
<1> QED
    BY <1>3, <1>4, <1>5 DEF RedisAcquire, kept
-----------------------------------------------------------------------------
(* The invariant.                                                          *)

\* Every step preserves the invariant.
LEMMA StepPreserves ==
    ASSUME IInv, [Next]_vars
    PROVE  IInv'
<1> USE DEF IInv
<1>1. CASE UNCHANGED vars
    BY <1>1 DEF vars, TypeOK, CountBounded, InScope, AcquiresMatch, ReleasesMatch, FreedIsGone,
                WorkflowsHoldPermits, InUse
<1>2. ASSUME NEW h \in Holders, NEW l \in Limits, RedisAcquire(h, l)
      PROVE  IInv'
    <2> DEFINE kept == Pruned(Scope(h))
    <2>1. /\ DOMAIN kept \subseteq DOMAIN permits
          /\ \A k \in DOMAIN kept : kept[k] = permits[k]
          /\ kept \in [DOMAIN kept -> 0..TTL]
          /\ \A k \in DOMAIN permits : permits[k] < TTL => k \in DOMAIN kept
        BY PrunedKeeps
    <2>2. /\ DOMAIN Put(kept, h) = DOMAIN kept \cup {h}
          /\ Put(kept, h)[h] = 0
          /\ \A k \in DOMAIN kept : k # h => Put(kept, h)[k] = kept[k]
          /\ Put(kept, h) \in [DOMAIN kept \cup {h} -> 0..TTL]
        BY <2>1, PutAdds
    <2> HIDE DEF kept
    <2>3. /\ <<"acquire", h>> \in ops /\ ops' = ops \ {<<"acquire", h>>}
          /\ pc' = [pc EXCEPT ![h] = pc'[h]]
          /\ permits' \in {Put(kept, h), kept}
          /\ pc[h] # "acquiring" => pc'[h] = pc[h]
          /\ pc[h] = "acquiring" => \/ pc'[h] = "granted" /\ permits' = Put(kept, h)
                                    \/ pc'[h] = "refused"
        BY <1>2 DEF RedisAcquire, kept, TypeOK
    <2>4. TypeOK'
        <3>1. DOMAIN permits' \subseteq Holders /\ permits' \in [DOMAIN permits' -> 0..TTL]
            BY <2>1, <2>2, <2>3 DEF TypeOK
        <3>2. pc' \in [Holders -> States]
            BY <2>3 DEF TypeOK, States
        <3> QED
            BY <2>3, <3>1, <3>2 DEF TypeOK
    <2>5. CountBounded'
        BY <1>2, AcquireBounded
    <2>6. AcquiresMatch' /\ ReleasesMatch'
        <3>1. \A k \in WorkflowIds : k # h => pc'[k] = pc[k]
            BY <2>3 DEF TypeOK, Holders
        <3>2. AcquiresMatch'
            BY <2>3, <3>1 DEF AcquiresMatch
        <3>3. ReleasesMatch'
            BY <2>3, <3>1 DEF ReleasesMatch
        <3> QED
            BY <3>2, <3>3
    <2>7. FreedIsGone'
        <3> SUFFICES ASSUME NEW k \in WorkflowIds, pc'[k] \in {"freed", "released"}
                     PROVE  k \notin DOMAIN permits'
            BY DEF FreedIsGone
        <3>1. k # h
            BY <2>3 DEF AcquiresMatch
        <3>2. pc'[k] = pc[k]
            BY <2>3, <3>1 DEF TypeOK, Holders
        <3> QED
            BY <2>1, <2>2, <2>3, <3>1, <3>2 DEF FreedIsGone
    <2>8. HeartbeatsArrive => WorkflowsHoldPermits'
        <3> SUFFICES ASSUME HeartbeatsArrive, NEW k \in WorkflowIds, pc'[k] \in {"granted", "running"}
                     PROVE  k \in DOMAIN permits' /\ permits'[k] < TTL
            BY DEF WorkflowsHoldPermits, InUse
        <3>1. CASE k = h
            <4>1. pc[h] \in {"acquiring", "ended"}
                BY <2>3, <3>1 DEF AcquiresMatch
            <4>2. permits' = Put(kept, h)
                BY <2>3, <3>1, <4>1
            <4> QED
                BY <2>2, <3>1, <4>2, PermitConstants
        <3>2. CASE k # h
            <4>1. pc'[k] = pc[k]
                BY <2>3, <3>2 DEF TypeOK, Holders
            <4>2. k \in DOMAIN permits /\ permits[k] < TTL
                BY <4>1 DEF WorkflowsHoldPermits, InUse
            <4>3. k \in DOMAIN kept /\ kept[k] = permits[k]
                BY <2>1, <4>2
            <4> QED
                BY <2>2, <2>3, <3>2, <4>2, <4>3
        <3> QED
            BY <3>1, <3>2
    <2> QED
        BY <2>4, <2>5, <2>6, <2>7, <2>8
<1>3. ASSUME NEW h \in Holders, RedisHeartbeat(h)
      PROVE  IInv'
    <2>1. /\ ops' \subseteq ops /\ pc' = pc
          /\ DOMAIN permits' = DOMAIN permits
          /\ permits' \in [DOMAIN permits -> 0..TTL]
          /\ \A k \in DOMAIN permits : permits'[k] \in {0, permits[k]}
        <3>1. CASE h \in DOMAIN permits
            BY <1>3, <3>1, PermitConstants DEF RedisHeartbeat, Refreshed, Put, TypeOK
        <3>2. CASE h \notin DOMAIN permits
            BY <1>3, <3>2 DEF RedisHeartbeat, Refreshed, TypeOK
        <3> QED
            BY <3>1, <3>2
    <2>2. TypeOK'
        BY <2>1 DEF TypeOK
    <2>3. CountBounded'
        BY <2>1, CountShrinks
    <2>4. AcquiresMatch' /\ ReleasesMatch' /\ FreedIsGone'
        BY <2>1 DEF AcquiresMatch, ReleasesMatch, FreedIsGone
    <2>5. HeartbeatsArrive => WorkflowsHoldPermits'
        BY <2>1, PermitConstants DEF WorkflowsHoldPermits, InUse
    <2> QED
        BY <2>2, <2>3, <2>4, <2>5
<1>4. ASSUME NEW h \in Holders, RedisRelease(h)
      PROVE  IInv'
    <2>1. /\ <<"release", h>> \in ops /\ ops' \subseteq ops
          /\ <<"release", h>> \notin ops'
          /\ pc' \in [Holders -> States]
          /\ \A k \in Holders : k # h => pc'[k] = pc[k]
          /\ pc'[h] = IF pc[h] = "releasing" THEN "freed" ELSE pc[h]
        BY <1>4 DEF RedisRelease, TypeOK, States
    <2>2. /\ DOMAIN permits' = DOMAIN permits \ {h}
          /\ \A k \in DOMAIN permits' : permits'[k] = permits[k]
          /\ permits' \in [DOMAIN permits' -> 0..TTL]
        BY <1>4 DEF RedisRelease, TypeOK
    <2>3. TypeOK'
        BY <2>1, <2>2 DEF TypeOK
    <2>4. CountBounded'
        BY <2>2, CountShrinks
    <2>5. AcquiresMatch' /\ ReleasesMatch' /\ FreedIsGone'
        BY <2>1, <2>2 DEF AcquiresMatch, ReleasesMatch, FreedIsGone, Holders
    <2>6. HeartbeatsArrive => WorkflowsHoldPermits'
        <3> SUFFICES ASSUME HeartbeatsArrive, NEW k \in WorkflowIds, pc'[k] \in {"granted", "running"}
                     PROVE  k \in DOMAIN permits' /\ permits'[k] < TTL
            BY DEF WorkflowsHoldPermits, InUse
        <3>1. k # h
            BY <2>1 DEF ReleasesMatch, Holders
        <3>2. pc'[k] = pc[k]
            BY <2>1, <3>1 DEF Holders
        <3> QED
            BY <2>2, <3>1, <3>2 DEF WorkflowsHoldPermits, InUse
    <2> QED
        BY <2>3, <2>4, <2>5, <2>6
<1>5. ASSUME NEW scope \in PermitScope, GetCount(scope)
      PROVE  IInv'
    <2>1. /\ DOMAIN permits' \subseteq DOMAIN permits
          /\ \A k \in DOMAIN permits' : permits'[k] = permits[k]
          /\ permits' \in [DOMAIN permits' -> 0..TTL]
          /\ \A k \in DOMAIN permits : permits[k] < TTL => k \in DOMAIN permits'
          /\ ops' = ops /\ pc' = pc
        BY <1>5, PrunedKeeps DEF GetCount
    <2>2. CountBounded'
        BY <2>1, CountShrinks
    <2>3. TypeOK' /\ AcquiresMatch' /\ ReleasesMatch' /\ FreedIsGone'
        BY <2>1 DEF TypeOK, AcquiresMatch, ReleasesMatch, FreedIsGone
    <2>4. HeartbeatsArrive => WorkflowsHoldPermits'
        BY <2>1 DEF WorkflowsHoldPermits, InUse
    <2> QED
        BY <2>2, <2>3, <2>4
<1>6. ASSUME Tick
      PROVE  IInv'
    <2>1. /\ DOMAIN permits' = DOMAIN permits
          /\ permits' \in [DOMAIN permits -> 0..TTL]
          /\ ops' = ops /\ pc' = pc
        BY <1>6, PermitConstants DEF Tick, TypeOK
    <2>2. CountBounded'
        BY <2>1, CountShrinks
    <2>3. TypeOK' /\ AcquiresMatch' /\ ReleasesMatch' /\ FreedIsGone'
        BY <2>1 DEF TypeOK, AcquiresMatch, ReleasesMatch, FreedIsGone
    <2>4. HeartbeatsArrive => WorkflowsHoldPermits'
        BY <1>6, <2>1 DEF Tick, WorkflowsHoldPermits, InUse
    <2> QED
        BY <2>2, <2>3, <2>4
<1>7. ASSUME NEW op \in Op, Lose(op)
      PROVE  IInv'
    BY <1>7 DEF Lose, TypeOK, CountBounded, InScope, AcquiresMatch, ReleasesMatch, FreedIsGone,
                WorkflowsHoldPermits, InUse
<1>8. ASSUME NEW h \in Holders, HolderStep(h)
      PROVE  IInv'
    <2>1. /\ permits' = permits
          /\ pc' \in [Holders -> States]
          /\ \A k \in Holders : k # h => pc'[k] = pc[k]
        BY <1>8 DEF HolderStep, SendAcquire, AcquireReturns, AcquireFails, Abandon, SendHeartbeat,
                    Finish, ReleaseReturns, ReleaseFails, Terminate, Again, Goto, TypeOK, States
    <2>2. ops' \subseteq ops \cup ({"acquire", "heartbeat", "release"} \X {h})
        BY <1>8 DEF HolderStep, SendAcquire, AcquireReturns, AcquireFails, Abandon, SendHeartbeat,
                    Finish, ReleaseReturns, ReleaseFails, Terminate, Again, Send
    <2>3. ASSUME h \in WorkflowIds
          PROVE  /\ <<"acquire", h>> \in ops' => pc'[h] \in {"acquiring", "ended"}
                 /\ <<"release", h>> \in ops' => pc'[h] \in {"releasing", "ended"}
                 /\ pc'[h] \in {"freed", "released"} => pc[h] \in {"freed", "released"}
                 /\ pc'[h] \in {"granted", "running"} => pc[h] \in {"granted", "running"}
        BY <1>8, <2>3, PermitConstants
        DEF HolderStep, SendAcquire, AcquireReturns, AcquireFails, Abandon, SendHeartbeat,
            Finish, ReleaseReturns, ReleaseFails, Terminate, Again, Send, Goto, TypeOK,
            AcquiresMatch, ReleasesMatch
    <2>4. TypeOK'
        BY <2>1, <2>2 DEF TypeOK, Op, OpKinds
    <2>5. CountBounded'
        BY <2>1, CountShrinks
    <2>6. AcquiresMatch' /\ ReleasesMatch'
        BY <2>1, <2>2, <2>3 DEF AcquiresMatch, ReleasesMatch, Holders
    <2>7. FreedIsGone'
        BY <2>1, <2>3 DEF FreedIsGone, Holders
    <2>8. HeartbeatsArrive => WorkflowsHoldPermits'
        BY <2>1, <2>3 DEF WorkflowsHoldPermits, InUse, Holders
    <2> QED
        BY <2>4, <2>5, <2>6, <2>7, <2>8
<1> QED
    BY <1>1, <1>2, <1>3, <1>4, <1>5, <1>6, <1>7, <1>8 DEF Next, RedisStep

\* The invariant holds in every reachable state.
THEOREM Invariance == Spec => []IInv
<1>1. Init => IInv
    <2> SUFFICES ASSUME Init
                 PROVE  IInv
        OBVIOUS
    <2>1. DOMAIN permits = {} /\ permits \in [{} -> 0..TTL]
        BY DEF Init
    <2>2. CountBounded
        <3> SUFFICES ASSUME NEW scope \in PermitScope
                     PROVE  Cardinality(InScope(permits, scope)) <= MaxLimit
            BY DEF CountBounded
        <3>1. InScope(permits, scope) = {}
            BY <2>1 DEF InScope
        <3> QED
            BY <3>1, FS_EmptySet, PermitConstants
    <2> QED
        BY <2>1, <2>2 DEF Init, IInv, TypeOK, AcquiresMatch, ReleasesMatch, FreedIsGone,
                          WorkflowsHoldPermits, InUse, Holders, States
<1> QED
    BY <1>1, StepPreserves, PTL DEF Spec

\* Every state is well-typed: no age passes the TTL.
THEOREM PermitsTyped == Spec => []TypeOK
BY Invariance, PTL DEF IInv

\* _ACQUIRE_SCRIPT never lets a sorted set grow past the largest limit, with or
\* without heartbeats.
THEOREM CountIsBounded == Spec => []CountBounded
BY Invariance, PTL DEF IInv

\* A heartbeat under way when the workflow releases its permit does not bring
\* the permit back.
THEOREM ReleaseIsFinal == Spec => []ReleasedStaysReleased
<1>1. IInv => ReleasedStaysReleased
    BY DEF IInv, FreedIsGone, ReleasedStaysReleased
<1> QED
    BY <1>1, Invariance, PTL

\* If heartbeats arrive, a workflow that runs holds its permit.
THEOREM RunningHoldsPermit == HeartbeatsArrive => (Spec => []WorkflowsHoldPermits)
<1> SUFFICES ASSUME HeartbeatsArrive
             PROVE  Spec => []WorkflowsHoldPermits
    OBVIOUS
<1>1. IInv => WorkflowsHoldPermits
    BY DEF IInv
<1> QED
    BY <1>1, Invariance, PTL

\* If heartbeats arrive, no more workflows run at once than the largest limit.
THEOREM RunningWithinLimit == HeartbeatsArrive => (Spec => []WorkflowsWithinLimit)
<1> SUFFICES ASSUME HeartbeatsArrive
             PROVE  Spec => []WorkflowsWithinLimit
    OBVIOUS
<1>1. IInv => WorkflowsWithinLimit
    <2> SUFFICES ASSUME IInv
                 PROVE  WorkflowsWithinLimit
        OBVIOUS
    <2> DEFINE running == {h \in WorkflowIds : pc[h] = "running"}
    <2>1. running \subseteq InScope(permits, "workflow")
        BY DEF IInv, WorkflowsHoldPermits, InUse, InScope, Scope
    <2>2. IsFiniteSet(InScope(permits, "workflow")) /\ Cardinality(InScope(permits, "workflow")) \in Nat
        BY ScopeFinite DEF IInv, TypeOK
    <2>3. Cardinality(running) <= Cardinality(InScope(permits, "workflow")) /\ Cardinality(running) \in Nat
        BY <2>1, <2>2, FS_Subset, FS_CardinalityType
    <2>4. Cardinality(InScope(permits, "workflow")) <= MaxLimit
        BY DEF IInv, CountBounded, PermitScope
    <2> QED
        BY <2>2, <2>3, <2>4, PermitConstants DEF WorkflowsWithinLimit
<1> QED
    BY <1>1, Invariance, PTL

-----------------------------------------------------------------------------
(* Interactions: what the workflow goes on with is what its row says.      *)

\* The answer an undisturbed interaction holds is the only one accepted for
\* it: nothing changes it between the copy that is saved and the read that
\* follows the activity, and no write is left that could undo the row.
AnswerFacts(i) ==
    /\ late[i] = {}
    /\ status[i] = "completed" =>
           data[i] \in Answers /\ Target[data[i]] = i /\ step[data[i]] = "accepted"
    /\ stage[i] = "saving" => status[i] = "completed" /\ saved[i] = data[i]
    /\ stage[i] = "returned" => record[i] = Row("completed", result[i])

AnswerInv ==
    /\ InteractionTypeOK
    /\ \A i \in Interactions \ disturbed : AnswerFacts(i)

\* What is written to a row is a row.
LEMMA ParamsType ==
    ASSUME InteractionTypeOK, NEW i \in Interactions, Writing(i)
    PROVE  Params(i) \in Rows
<1>1. saved[i] \in Answers \cup {None}
    BY DEF InteractionTypeOK
<1>2. stage[i] \in {"marking", "saving", "erroring"}
    BY DEF Writing
<1> QED
    BY <1>1, <1>2 DEF Params, Row, Rows

LEMMA WriteType ==
    ASSUME InteractionTypeOK, NEW i \in Interactions, NEW params \in Rows
    PROVE  /\ Write(i, params) \in [Interactions -> Rows]
           /\ \A j \in Interactions \ {i} : Write(i, params)[j] = record[j]
<1>1. record \in [Interactions -> Rows] /\ record[i] \in Rows
    BY DEF InteractionTypeOK
<1>2. Row(params.status, IF params.payload = None THEN record[i].payload ELSE params.payload) \in Rows
    BY <1>1 DEF Rows, Row
<1> QED
    BY <1>1, <1>2 DEF Write

\* Prepare, Created, RunAction and Answered.
LEMMA ActionKeepsAnswers ==
    ASSUME AnswerInv, NEW i \in Interactions,
           Prepare(i) \/ Created(i) \/ RunAction(i) \/ Answered(i)
    PROVE  AnswerInv'
<1> USE DEF Call, Enter, NoFault
<1>1. CASE Prepare(i)
    <2>1. InteractionTypeOK'
        BY <1>1 DEF Prepare, AnswerInv, InteractionTypeOK, Steps, MaxAttempts
    <2>2. \A j \in Interactions \ disturbed' : AnswerFacts(j)'
        BY <1>1 DEF Prepare, AnswerInv, InteractionTypeOK, AnswerFacts
    <2> QED
        BY <2>1, <2>2 DEF AnswerInv
<1>2. CASE Created(i)
    <2>0. Row("idle", None) \in Rows
        BY DEF Row, Rows
    <2>1. InteractionTypeOK'
        BY <1>2, <2>0 DEF Created, AnswerInv, InteractionTypeOK, Steps
    <2>2. \A j \in Interactions \ disturbed' : AnswerFacts(j)'
        BY <1>2 DEF Created, AnswerInv, InteractionTypeOK, AnswerFacts
    <2> QED
        BY <2>1, <2>2 DEF AnswerInv
<1>3. CASE RunAction(i)
    <2>1. InteractionTypeOK'
        BY <1>3 DEF RunAction, AnswerInv, InteractionTypeOK, Steps, MaxAttempts
    <2>2. \A j \in Interactions \ disturbed' : AnswerFacts(j)'
        BY <1>3 DEF RunAction, AnswerInv, InteractionTypeOK, AnswerFacts
    <2> QED
        BY <2>1, <2>2 DEF AnswerInv
<1>4. CASE Answered(i)
    <2>1. InteractionTypeOK'
        BY <1>4 DEF Answered, AnswerInv, InteractionTypeOK, Steps, MaxAttempts
    <2>2. \A j \in Interactions \ disturbed' : AnswerFacts(j)'
        BY <1>4 DEF Answered, IsActivated, AnswerInv, InteractionTypeOK, AnswerFacts
    <2> QED
        BY <2>1, <2>2 DEF AnswerInv
<1> QED
    BY <1>1, <1>2, <1>3, <1>4

\* Updated: what was saved is what is read again.
LEMMA UpdatedKeepsAnswers ==
    ASSUME AnswerInv, NEW i \in Interactions, Updated(i)
    PROVE  AnswerInv'
<1>1. InteractionTypeOK /\ Writing(i)
    BY DEF AnswerInv, Updated
<1>2. /\ Params(i) \in Rows
      /\ Write(i, Params(i)) \in [Interactions -> Rows]
      /\ \A j \in Interactions \ {i} : Write(i, Params(i))[j] = record[j]
    BY <1>1, ParamsType, WriteType
<1>3. AfterUpdate(i) \in {"waiting", "returned", "failed"}
    BY <1>1 DEF AfterUpdate, Writing
<1>4. /\ record' = Write(i, Params(i))
      /\ result' = [result EXCEPT ![i] = IF stage[i] = "saving" THEN data[i] ELSE @]
      /\ stage' = [stage EXCEPT ![i] = AfterUpdate(i)]
      /\ UNCHANGED <<faults, disturbed, status, data, saved, attempts, late, step>>
    BY DEF Updated, Enter, NoFault
<1>5. InteractionTypeOK'
    BY <1>1, <1>2, <1>3, <1>4 DEF InteractionTypeOK, Steps
<1>6. ASSUME NEW j \in Interactions \ disturbed', j # i PROVE AnswerFacts(j)'
    BY <1>1, <1>2, <1>4, <1>6 DEF AnswerInv, AnswerFacts, InteractionTypeOK
<1>7. ASSUME i \notin disturbed PROVE AnswerFacts(i)'
    <2>1. AnswerFacts(i) /\ stage'[i] = AfterUpdate(i)
        BY <1>1, <1>4, <1>7 DEF AnswerInv, InteractionTypeOK
    <2>2. CASE stage[i] = "saving"
        <3>1. saved[i] = data[i] /\ data[i] \in Answers /\ data[i] # None
            BY <2>1, <2>2, InteractionConstants DEF AnswerFacts
        <3>2. Params(i) = Row("completed", data[i])
            BY <2>2, <3>1 DEF Params
        <3>3. record'[i] = Row("completed", data[i])
            BY <1>1, <1>4, <3>1, <3>2 DEF Write, Row, InteractionTypeOK
        <3>4. result'[i] = data[i]
            BY <1>1, <1>4, <2>2 DEF InteractionTypeOK
        <3> QED
            BY <1>4, <2>1, <2>2, <3>3, <3>4 DEF AnswerFacts, AfterUpdate
    <2>3. CASE stage[i] # "saving"
        <3>1. stage'[i] \notin {"saving", "returned"}
            BY <1>1, <2>1, <2>3 DEF AfterUpdate, Writing
        <3> QED
            BY <1>4, <2>1, <3>1 DEF AnswerFacts
    <2> QED
        BY <2>2, <2>3
<1> QED
    BY <1>4, <1>5, <1>6, <1>7 DEF AnswerInv

\* Failed: a write that outlives its attempt disturbs the interaction.
LEMMA FailedKeepsAnswers ==
    ASSUME AnswerInv, NEW i \in Interactions, Failed(i)
    PROVE  AnswerInv'
<1>1. InteractionTypeOK /\ (Writing(i) \/ stage[i] = "creating") /\ stage[i] # "returned"
    BY DEF AnswerInv, Failed, Writing
<1>2. Writing(i) =>
          /\ Params(i) \in Rows
          /\ Write(i, Params(i)) \in [Interactions -> Rows]
          /\ \A j \in Interactions \ {i} : Write(i, Params(i))[j] = record[j]
    BY <1>1, ParamsType, WriteType
<1>3. /\ disturbed \subseteq disturbed' /\ disturbed' \subseteq Interactions
      /\ record' \in [Interactions -> Rows]
      /\ late' \in [Interactions -> SUBSET Rows]
      /\ \A j \in Interactions \ {i} : record'[j] = record[j] /\ late'[j] = late[j]
      /\ i \notin disturbed' => late' = late
    BY <1>1, <1>2 DEF Failed, Leave, InteractionTypeOK
<1>4. /\ \/ stage' = stage
         \/ stage' = [stage EXCEPT ![i] = "erroring"]
         \/ stage' = [stage EXCEPT ![i] = "failed"]
      /\ UNCHANGED <<status, data, saved, result, step>>
    BY DEF Failed, Call, Enter
<1>5. attempts' \in [Interactions -> 0 .. MaxAttempts - 1] /\ faults' \in 0 .. MaxFaults
    <2>1. attempts[i] \in 0 .. 2 /\ attempts \in [Interactions -> 0 .. 2] /\ faults \in 0 .. MaxFaults
        BY <1>1 DEF InteractionTypeOK, MaxAttempts
    <2>2. MaxFaults \in Nat
        BY InteractionConstants
    <2> QED
        BY <2>1, <2>2 DEF Failed, LastAttempt, MaxAttempts, Call
<1>6. InteractionTypeOK'
    BY <1>1, <1>3, <1>4, <1>5 DEF InteractionTypeOK, Steps
<1>7. ASSUME NEW j \in Interactions \ disturbed' PROVE AnswerFacts(j)'
    BY <1>1, <1>3, <1>4 DEF AnswerInv, AnswerFacts, InteractionTypeOK
<1> QED
    BY <1>6, <1>7 DEF AnswerInv

\* CommitLate: such a write is there only for a disturbed interaction.
LEMMA CommitLateKeepsAnswers ==
    ASSUME AnswerInv, NEW i \in Interactions, CommitLate(i)
    PROVE  AnswerInv'
<1>1. InteractionTypeOK
    BY DEF AnswerInv
<1>2. PICK params \in late[i] :
          /\ record' = Write(i, params)
          /\ late' = [late EXCEPT ![i] = @ \ {params}]
          /\ UNCHANGED <<faults, disturbed, stage, status, data, saved, attempts, result, step>>
    BY DEF CommitLate, NoFault
<1>3. params \in Rows
    BY <1>1 DEF InteractionTypeOK
<1>4. /\ record' \in [Interactions -> Rows]
      /\ \A j \in Interactions \ {i} : record'[j] = record[j] /\ late'[j] = late[j]
    BY <1>1, <1>2, <1>3, WriteType DEF InteractionTypeOK
<1>5. InteractionTypeOK'
    BY <1>1, <1>2, <1>4 DEF InteractionTypeOK
<1>6. i \in disturbed
    BY <1>2 DEF AnswerInv, AnswerFacts
<1> QED
    BY <1>2, <1>4, <1>5, <1>6 DEF AnswerInv, AnswerFacts

\* Accept and Reject: a second answer disturbs the interaction.
LEMMA AnswerKeepsAnswers ==
    ASSUME AnswerInv, NEW a \in Answers, Accept(a) \/ Reject(a)
    PROVE  AnswerInv'
<1> DEFINE i == Target[a]
<1>1. InteractionTypeOK /\ i \in Interactions /\ step[a] = "new"
    BY InteractionConstants DEF AnswerInv, Accept, Reject, May
<1>2. \A b \in Answers : step[b] = "accepted" => b # a
    BY <1>1
<1>3. CASE Reject(a)
    <2>1. InteractionTypeOK'
        BY <1>1, <1>3 DEF Reject, NoFault, InteractionTypeOK
    <2>2. \A j \in Interactions \ disturbed' : AnswerFacts(j)'
        BY <1>1, <1>3 DEF Reject, NoFault, InteractionTypeOK, AnswerInv, AnswerFacts
    <2> QED
        BY <2>1, <2>2 DEF AnswerInv
<1>4. CASE Accept(a)
    <2>1. /\ data' = [data EXCEPT ![i] = a]
          /\ status' = [status EXCEPT ![i] = "completed"]
          /\ step' = [step EXCEPT ![a] = "accepted"]
          /\ disturbed' = IF InTurn(a) THEN disturbed ELSE disturbed \cup {i}
          /\ UNCHANGED <<faults, stage, record, saved, attempts, late, result>>
        BY <1>4 DEF Accept, Complete
    <2>2. InteractionTypeOK'
        BY <1>1, <2>1 DEF InteractionTypeOK
    <2>3. ASSUME NEW j \in Interactions \ disturbed', j # i PROVE AnswerFacts(j)'
        BY <1>1, <2>1, <2>3 DEF AnswerInv, AnswerFacts, InteractionTypeOK
    <2>4. ASSUME i \notin disturbed' PROVE AnswerFacts(i)'
        <3>1. AnswerFacts(i) /\ InTurn(a)
            BY <1>1, <2>1, <2>4 DEF AnswerInv
        <3>2. stage[i] # "saving"
            <4> SUFFICES ASSUME stage[i] = "saving" PROVE FALSE
                OBVIOUS
            <4>1. data[i] \in Answers /\ Target[data[i]] = Target[a] /\ step[data[i]] = "accepted"
                BY <3>1 DEF AnswerFacts
            <4>2. data[i] \in Others(a)
                BY <1>2, <4>1 DEF Others
            <4> QED
                BY <3>1, <4>1, <4>2 DEF InTurn
        <3> QED
            BY <1>1, <2>1, <3>1, <3>2 DEF AnswerFacts, InteractionTypeOK
    <2> QED
        BY <2>2, <2>3, <2>4 DEF AnswerInv
<1> QED
    BY <1>3, <1>4

LEMMA AnswersInvariance == InteractionSpec => []AnswerInv
<1>1. InteractionInit => AnswerInv
    <2> SUFFICES ASSUME InteractionInit PROVE AnswerInv
        OBVIOUS
    <2>1. NoRow \in Rows
        BY DEF NoRow, Row, Rows
    <2>2. InteractionTypeOK
        BY <2>1, InteractionConstants DEF InteractionInit, InteractionTypeOK, Steps, MaxAttempts
    <2>3. \A i \in Interactions : AnswerFacts(i)
        BY InteractionConstants DEF InteractionInit, AnswerFacts
    <2> QED
        BY <2>2, <2>3 DEF AnswerInv
<1>2. AnswerInv /\ [InteractionNext]_ivars => AnswerInv'
    <2> SUFFICES ASSUME AnswerInv, [InteractionNext]_ivars PROVE AnswerInv'
        OBVIOUS
    <2>1. ASSUME NEW i \in Interactions, ActionStep(i) \/ Failed(i) \/ CommitLate(i)
          PROVE  AnswerInv'
        BY <2>1, ActionKeepsAnswers, UpdatedKeepsAnswers, FailedKeepsAnswers, CommitLateKeepsAnswers
           DEF ActionStep
    <2>2. CASE Quiet \/ UNCHANGED ivars
        BY <2>2 DEF Quiet, ivars, AnswerInv, InteractionTypeOK, AnswerFacts
    <2> QED
        BY <2>1, <2>2, AnswerKeepsAnswers DEF InteractionNext
<1> QED
    BY <1>1, <1>2, PTL DEF InteractionSpec

\* The variables of Interactions keep their types (InteractionState,
\* Interaction).
THEOREM InteractionsTyped == InteractionSpec => []InteractionTypeOK
<1>1. AnswerInv => InteractionTypeOK
    BY DEF AnswerInv
<1> QED
    BY <1>1, AnswersInvariance, PTL

\* Whatever attempts fail and however answers interleave with the activities,
\* an undisturbed interaction whose action went on has a row that says
\* COMPLETED and holds the very answer the workflow continues with
\* (wait_for_response, handle_interaction, update_interaction).
THEOREM InteractionsRecorded == InteractionSpec => []ReturnedIsRecorded
<1>1. AnswerInv => ReturnedIsRecorded
    BY DEF AnswerInv, AnswerFacts, ReturnedIsRecorded
<1> QED
    BY <1>1, AnswersInvariance, PTL
=============================================================================

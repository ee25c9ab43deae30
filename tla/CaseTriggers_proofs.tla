------------------------ MODULE CaseTriggers_proofs ------------------------
(***************************************************************************)
(* Proofs about CaseTriggers, for every set of consumers, events and       *)
(* workflows, every kind of world and every number of faults: at-least-    *)
(* once delivery, the bound on duplicates, and the refinement of           *)
(* CaseEventDelivery.                                                      *)
(***************************************************************************)
EXTENDS CaseTriggers, TLAPS

\* c has a message in hand, or one of its jobs.
Working(c) == me[c].pc \notin {"down", "ended", "idle"}
OnJob(c) == me[c].pc \in {"exists", "lock", "dispatch", "committing", "done", "unlock"}

\* c works on a trigger, not on the workflow selected in a comment.
OnTrigger(c) == OnJob(c) /\ ~IsExplicit(c)

\* The workflows whose triggers e fires, whatever their definitions are.
Fired(e) == {w \in Workflows : Matches(e, w) /\ w # Explicit[e] /\ e \in world.entitled}

\* What the local state of c says of its message.
LocalFacts(c) ==
    /\ me[c].pc \in {"down", "ended"} => me[c].batch = {}
    /\ Working(c) => me[c].msg \in me[c].batch
    /\ Working(c) /\ me[c].pc # "ack" => Event(me[c].msg) \notin world.ignored
    /\ OnJob(c) => me[c].wf \in Workflows
    /\ OnTrigger(c) => me[c].wf \in Fired(Event(me[c].msg))
    /\ me[c].pc = "next" \/ OnTrigger(c) => me[c].todo \subseteq Fired(Event(me[c].msg))
    /\ me[c].pc = "committing" => IsExplicit(c)
    /\ \A w \in me[c].offline : world.definition[w] # "valid"

Local == \A c \in Consumers : LocalFacts(c)

\* Only triggers without a usable definition are put offline.
OfflineUnusable == \A w \in Workflows : ~status[w] => world.definition[w] # "valid"

\* A job that needs no further dispatch.
JobSettled(e, w) ==
    IF w = Explicit[e] THEN ExplicitSettled(e)
    ELSE world.definition[w] = "valid" => dispatched[<<e, w>>] > 0

\* Done keys tell the truth.
DoneSettled == \A e \in Events, w \in Workflows : <<e, w>> \in done => JobSettled(e, w)

\* What is settled of the message of c as long as it is to be acknowledged.
ProgressOn(c, e, w) ==
    /\ me[c].ack /\ (me[c].pc \in {"configured", "next"} \/ OnTrigger(c)) => ExplicitSettled(e)
    /\ me[c].ack /\ me[c].pc = "next" =>
           \A v \in Wanted(e) \ me[c].todo : dispatched[<<e, v>>] > 0
    /\ me[c].ack /\ OnTrigger(c) =>
           \A v \in Wanted(e) \ (me[c].todo \cup {w}) : dispatched[<<e, v>>] > 0
    /\ me[c].pc = "committing" /\ ~me[c].failed => \E r \in runs : r[1] = <<e, w>>
    /\ me[c].pc = "done" => JobSettled(e, w)
    /\ me[c].pc = "unlock" /\ me[c].ack /\ ~me[c].raised => JobSettled(e, w)
    /\ me[c].pc = "ack" => Settled(e)

ProgressFacts(c) ==
    \A e \in Events, w \in Workflows \cup {None} :
        Event(me[c].msg) = e /\ me[c].wf = w => ProgressOn(c, e, w)

Progress == \A c \in Consumers : ProgressFacts(c)

\* A message in hand was delivered; prompt consumers share none, and none that
\* they have in hand is acknowledged.
Hands ==
    /\ \A e \in Events : entry[<<e, 1>>] = "absent" => entry[<<e, 2>>] = "absent"
    /\ \A c \in Consumers : \A m \in me[c].batch :
           /\ entry[m] \notin {"absent", "queued"}
           /\ world.prompt => entry[m] # "acked"
    /\ world.prompt => \A c, d \in Consumers : c # d => me[c].batch \cap me[d].batch = {}

\* Prompt consumers that dispatch hold the lock of their job.
Sections ==
    world.prompt =>
        /\ \A c \in Consumers : InSection(c) => Job(c) \in locks
        /\ \A c, d \in Consumers : c # d /\ InSection(c) /\ InSection(d) => Job(c) # Job(d)

\* Copy k of e's message has passed the check of the done key for w, and
\* someone has dispatched w and not yet set it.
Passed(e, w, k) ==
    \E c \in Consumers :
        me[c].pc \in {"lock", "dispatch"} /\ me[c].msg = <<e, k>> /\ me[c].wf = w
Unrecorded(e, w) ==
    \E c \in Consumers :
        me[c].pc = "done" /\ Event(me[c].msg) = e /\ me[c].wf = w

One(b) == IF b THEN 1 ELSE 0

\* Without its done key, all dispatches of a job but the one that is still to
\* be recorded are paid for by faults.  With it, only those that have passed
\* the check can still dispatch it.
BoundFacts(e, w) ==
    IF <<e, w>> \in done
    THEN dispatched[<<e, w>>] + One(Passed(e, w, 1)) + One(Passed(e, w, 2))
            <= IF entry[<<e, 2>>] = "absent" THEN 1 + faults ELSE 2 * faults
    ELSE dispatched[<<e, w>>]
            <= One(Unrecorded(e, w)) +
                  (IF entry[<<e, 2>>] = "absent" THEN faults ELSE 2 * (faults - 1))

Bounds == world.prompt => \A e \in Events, w \in Workflows : BoundFacts(e, w)

IInv ==
    /\ TypeOK
    /\ Local
    /\ OfflineUnusable
    /\ DoneSettled
    /\ Progress
    /\ AckedIsSettled
    /\ Hands
    /\ Sections
    /\ Bounds

-----------------------------------------------------------------------------
(* Facts that every step needs.                                            *)

\* No step takes back a dispatch, a run or the failure of a comment.
Grows ==
    /\ world' = world
    /\ runs \subseteq runs'
    /\ \A e \in Events : comment[e] = "failed" => comment'[e] = "failed"
    /\ \A j \in Jobs : dispatched'[j] >= dispatched[j]

\* Only c moves.
Only(c) == \A d \in Consumers \ {c} : me'[d] = me[d]

\* What is settled stays settled.
LEMMA SettledStays ==
    ASSUME TypeOK, TypeOK', Grows, NEW e \in Events
    PROVE  /\ Wanted(e)' = Wanted(e)
           /\ ExplicitSettled(e) => ExplicitSettled(e)'
           /\ \A w \in Workflows : dispatched[<<e, w>>] > 0 => dispatched'[<<e, w>>] > 0
           /\ \A w \in Workflows : JobSettled(e, w) => JobSettled(e, w)'
           /\ Settled(e) => Settled(e)'
<1>1. Wanted(e)' = Wanted(e)
    BY DEF Grows, Wanted, Matches, MatchingTypes
<1>2. ExplicitSettled(e) => ExplicitSettled(e)'
    BY DEF Grows, ExplicitSettled
<1>3. ASSUME NEW w \in Workflows, dispatched[<<e, w>>] > 0
      PROVE  dispatched'[<<e, w>>] > 0
    <2>1. <<e, w>> \in Jobs
        BY DEF Jobs
    <2>2. dispatched[<<e, w>>] \in Nat /\ dispatched'[<<e, w>>] \in Nat
          /\ dispatched'[<<e, w>>] >= dispatched[<<e, w>>]
        BY <2>1 DEF Grows, TypeOK
    <2> QED
        BY <2>2, <1>3
<1>4. ASSUME NEW w \in Workflows, JobSettled(e, w)
      PROVE  JobSettled(e, w)'
    BY <1>2, <1>3, <1>4 DEF JobSettled, Grows
<1>5. Settled(e) => Settled(e)'
    <2>1. Wanted(e) \subseteq Workflows
        BY DEF Wanted
    <2> QED
        BY <1>1, <1>2, <1>3, <2>1 DEF Settled
<1> QED
    BY <1>1, <1>2, <1>3, <1>4, <1>5

\* A consumer that does not move keeps its facts.
LEMMA OthersKeep ==
    ASSUME TypeOK, TypeOK', Grows, NEW c \in Consumers, me'[c] = me[c],
           LocalFacts(c), ProgressFacts(c)
    PROVE  LocalFacts(c)' /\ ProgressFacts(c)'
<1>0. world' = world
    BY DEF Grows
<1>1. LocalFacts(c)'
    BY <1>0 DEF LocalFacts, Working, OnJob, OnTrigger, IsExplicit, Fired, Matches, MatchingTypes, Event
<1>2. ASSUME NEW e \in Events, NEW w \in Workflows \cup {None},
             (Event(me[c].msg) = e /\ me[c].wf = w)'
      PROVE  ProgressOn(c, e, w)'
    <2>1. ProgressOn(c, e, w) /\ (OnTrigger(c)' <=> OnTrigger(c))
        BY <1>2 DEF ProgressFacts, OnTrigger, OnJob, IsExplicit, Event
    <2>2. OnJob(c) => w \in Workflows
        BY <1>2 DEF LocalFacts
    <2>3. /\ Wanted(e)' = Wanted(e)
          /\ ExplicitSettled(e) => ExplicitSettled(e)'
          /\ \A v \in Workflows : dispatched[<<e, v>>] > 0 => dispatched'[<<e, v>>] > 0
          /\ \A v \in Workflows : JobSettled(e, v) => JobSettled(e, v)'
          /\ Settled(e) => Settled(e)'
        BY SettledStays
    <2>4. Wanted(e) \subseteq Workflows /\ runs \subseteq runs'
        BY DEF Wanted, Grows
    <2> QED
        BY <2>1, <2>2, <2>3, <2>4 DEF ProgressOn, OnJob
<1> QED
    BY <1>1, <1>2 DEF ProgressFacts

\* If only c moves, its own facts are all there is to show.
LEMMA OneMoves ==
    ASSUME IInv, TypeOK', Grows, NEW c \in Consumers, Only(c),
           LocalFacts(c)', ProgressFacts(c)'
    PROVE  Local' /\ Progress'
<1>1. ASSUME NEW d \in Consumers PROVE LocalFacts(d)' /\ ProgressFacts(d)'
    <2>1. CASE d = c
        BY <2>1
    <2>2. CASE d # c
        BY <2>2, OthersKeep DEF IInv, Local, Progress, Only
    <2> QED
        BY <2>1, <2>2
<1> QED
    BY <1>1 DEF Local, Progress

LEMMA NoneMoves ==
    ASSUME IInv, TypeOK', Grows, me' = me
    PROVE  Local' /\ Progress'
BY OthersKeep DEF IInv, Local, Progress

\* Steps that add no done key and acknowledge nothing.
LEMMA KeysKeep ==
    ASSUME IInv, TypeOK', Grows, done' \subseteq done
    PROVE  DoneSettled'
BY SettledStays DEF IInv, DoneSettled

LEMMA AcksKeep ==
    ASSUME IInv, TypeOK', Grows,
           \A m \in Messages : entry'[m] = "acked" => entry[m] = "acked"
    PROVE  AckedIsSettled'
BY SettledStays DEF IInv, AckedIsSettled, Messages, Event

\* Steps that deliver nothing and acknowledge nothing in hand.
LEMMA HandsKeep ==
    ASSUME IInv, TypeOK', entry' = entry, world' = world,
           \A c \in Consumers : me'[c].batch \subseteq me[c].batch
    PROVE  Hands'
BY DEF IInv, Hands

\* Steps in which nobody enters a section.
LEMMA SectionsKeep ==
    ASSUME IInv, world' = world,
           \A c \in Consumers : InSection(c)' => InSection(c) /\ Job(c)' = Job(c) /\ Job(c) \in locks'
    PROVE  Sections'
BY DEF IInv, Sections

\* A bound is kept if nobody passes the check of the done key, or there is
\* none, and what is to be recorded is lost only by a fault.
LEMMA BoundKeeps ==
    ASSUME TypeOK, TypeOK', NEW e \in Events, NEW w \in Workflows, BoundFacts(e, w),
           dispatched'[<<e, w>>] = dispatched[<<e, w>>],
           <<e, w>> \in done' <=> <<e, w>> \in done,
           entry'[<<e, 2>>] = "absent" <=> entry[<<e, 2>>] = "absent",
           faults' >= faults,
           <<e, w>> \in done => /\ Passed(e, w, 1)' => Passed(e, w, 1)
                                /\ Passed(e, w, 2)' => Passed(e, w, 2),
           Unrecorded(e, w) => Unrecorded(e, w)' \/ faults' = faults + 1
    PROVE  BoundFacts(e, w)'
<1>1. dispatched[<<e, w>>] \in Nat /\ faults \in Nat /\ faults' \in Nat
    BY CaseTriggerConstants DEF TypeOK, Jobs
<1>2. CASE <<e, w>> \in done
    <2>1. One(Passed(e, w, 1))' <= One(Passed(e, w, 1)) /\ One(Passed(e, w, 2))' <= One(Passed(e, w, 2))
          /\ One(Passed(e, w, 1)) \in {0, 1} /\ One(Passed(e, w, 2)) \in {0, 1}
          /\ One(Passed(e, w, 1))' \in {0, 1} /\ One(Passed(e, w, 2))' \in {0, 1}
        BY <1>2 DEF One
    <2> QED
        BY <1>1, <1>2, <2>1 DEF BoundFacts
<1>3. CASE <<e, w>> \notin done
    BY <1>1, <1>3 DEF BoundFacts, One
<1> QED
    BY <1>2, <1>3

\* Consumer c moves, and delivers, acknowledges, dispatches and records
\* nothing.
LEMMA QuietMove ==
    ASSUME IInv, TypeOK', NEW c \in Consumers, Only(c), Grows,
           dispatched' = dispatched, entry' = entry, done' = done,
           faults' \in {faults, faults + 1},
           me'[c].batch \subseteq me[c].batch,
           me[c].pc = "done" => faults' = faults + 1,
           me'[c].pc \in {"lock", "dispatch"} =>
               \/ Job(c)' \notin done
               \/ me[c].pc = "lock" /\ me'[c].msg = me[c].msg /\ me'[c].wf = me[c].wf,
           LocalFacts(c)', ProgressFacts(c)', OfflineUnusable', Sections'
    PROVE  IInv'
<1>1. Local' /\ Progress'
    BY OneMoves
<1>2. DoneSettled' /\ AckedIsSettled'
    BY KeysKeep, AcksKeep
<1>3. Hands'
    BY HandsKeep DEF Grows, Only
<1>4. ASSUME world.prompt, NEW e \in Events, NEW w \in Workflows
      PROVE  BoundFacts(e, w)'
    <2>1. BoundFacts(e, w)
        BY <1>4 DEF IInv, Bounds
    <2>2. Unrecorded(e, w) => Unrecorded(e, w)' \/ faults' = faults + 1
        BY DEF Unrecorded, Only, Event
    <2>3. ASSUME <<e, w>> \in done, NEW k \in {1, 2}, Passed(e, w, k)'
          PROVE  Passed(e, w, k)
        BY <2>3 DEF Passed, Only, Job, Event
    <2>4. faults' >= faults
        BY CaseTriggerConstants DEF IInv, TypeOK
    <2> QED
        BY <2>1, <2>2, <2>3, <2>4, BoundKeeps DEF IInv
<1> QED
    BY <1>1, <1>2, <1>3, <1>4 DEF IInv, Bounds, Grows

\* Nobody but c moves, c enters no section and no lock is deleted.
LEMMA SectionsOne ==
    ASSUME IInv, NEW c \in Consumers, Only(c), world' = world, locks \subseteq locks',
           InSection(c)' => InSection(c) /\ Job(c)' = Job(c)
    PROVE  Sections'
<1> SUFFICES ASSUME world.prompt
             PROVE  Sections'
    BY DEF Sections
<1>1. ASSUME NEW d \in Consumers, InSection(d)'
      PROVE  InSection(d) /\ Job(d)' = Job(d) /\ Job(d) \in locks'
    <2>1. CASE d = c
        BY <1>1, <2>1 DEF IInv, Sections
    <2>2. CASE d # c
        BY <1>1, <2>2 DEF IInv, Sections, Only, InSection, Job, Event
    <2> QED
        BY <2>1, <2>2
<1> QED
    BY <1>1, SectionsKeep

\* A message in hand is one of an event.
LEMMA InHandTyped ==
    ASSUME IInv, NEW c \in Consumers, Working(c)
    PROVE  /\ me[c].msg \in Messages /\ Event(me[c].msg) \in Events
           /\ OnJob(c) => Job(c) \in Jobs
BY DEF IInv, Local, LocalFacts, TypeOK, LocalState, Messages, Event, Job, Jobs

-----------------------------------------------------------------------------
(* The steps of a consumer.                                                *)

\* Handle: a message that is ignored wants nothing.
LEMMA HandleKeeps ==
    ASSUME IInv, NEW c \in Consumers, Handle(c)
    PROVE  IInv'
<1> USE DEF Handle, NoFault, redis, database, temporal
<1>0. me' \in [Consumers -> LocalState]
    <2>1. me \in [Consumers -> LocalState] /\ me[c].batch \in SUBSET Messages
        BY DEF IInv, TypeOK, LocalState
    <2>2. PICK m \in Oldest(me[c].batch, 1) :
              me' = [me EXCEPT ![c] = [Idle EXCEPT !.batch = me[c].batch, !.msg = m,
                        !.pc = IF Event(m) \in world.ignored THEN "ack" ELSE "begin"]]
        OBVIOUS
    <2>3. [Idle EXCEPT !.batch = me[c].batch, !.msg = m,
                       !.pc = IF Event(m) \in world.ignored THEN "ack" ELSE "begin"] \in LocalState
        BY <2>1 DEF LocalState, Steps, Idle, Oldest
    <2> QED
        BY <2>1, <2>2, <2>3
<1>1. TypeOK'
    BY <1>0 DEF IInv, TypeOK
<1>2. Only(c) /\ Grows
    BY DEF IInv, TypeOK, Only, Grows
<1>3. LocalFacts(c)'
    BY DEF IInv, TypeOK, LocalState, LocalFacts, Idle, Working, OnJob, OnTrigger, Event, Oldest
<1>4. ProgressFacts(c)'
    <2>1. ASSUME NEW e \in world.ignored PROVE Settled(e)'
        BY DEF Settled, Wanted, ExplicitSettled
    <2> QED
        BY <2>1 DEF IInv, TypeOK, ProgressFacts, ProgressOn, Idle, OnJob, OnTrigger
<1>5. Sections'
    BY <1>2, SectionsOne DEF IInv, TypeOK, Idle, InSection
<1>6. OfflineUnusable'
    BY DEF IInv, OfflineUnusable
<1>7. me'[c].batch \subseteq me[c].batch /\ me'[c].pc \in {"ack", "begin"}
    BY DEF IInv, TypeOK, Idle
<1> QED
    BY <1>1, <1>2, <1>3, <1>4, <1>5, <1>6, <1>7, QuietMove

LEMMA BeginKeeps ==
    ASSUME IInv, NEW c \in Consumers, Begin(c)
    PROVE  IInv'
<1> USE DEF Begin, NoFault, redis, database, temporal
<1>0. Event(me[c].msg) \in Events /\ me[c] \in LocalState /\ LocalFacts(c)
    BY InHandTyped DEF Working, IInv, TypeOK, Local
<1>1. TypeOK'
    BY <1>0, CaseTriggerConstants DEF IInv, TypeOK, LocalState, Steps
<1>2. Only(c) /\ Grows
    BY DEF IInv, TypeOK, Only, Grows
<1>3. LocalFacts(c)'
    BY <1>0, CaseTriggerConstants
       DEF IInv, TypeOK, LocalState, LocalFacts, Working, OnJob, OnTrigger, IsExplicit, Event
<1>4. ProgressFacts(c)'
    BY DEF IInv, TypeOK, ProgressFacts, ProgressOn, OnJob, OnTrigger, IsExplicit, ExplicitSettled, Event
<1>5. Sections'
    BY <1>2, SectionsOne DEF IInv, TypeOK, InSection
<1>6. OfflineUnusable'
    BY DEF IInv, OfflineUnusable
<1>7. me'[c].batch = me[c].batch /\ me'[c].pc \in {"configured", "exists"}
    BY DEF IInv, TypeOK
<1> QED
    BY <1>1, <1>2, <1>3, <1>4, <1>5, <1>6, <1>7, QuietMove

\* LoadConfigured: a trigger that is offline has no usable definition.
LEMMA LoadConfiguredKeeps ==
    ASSUME IInv, NEW c \in Consumers, LoadConfigured(c)
    PROVE  IInv'
<1> USE DEF LoadConfigured, NoFault, redis, database, temporal
<1>0. Event(me[c].msg) \in Events /\ me[c] \in LocalState /\ LocalFacts(c) /\ ProgressFacts(c)
    BY InHandTyped DEF Working, IInv, TypeOK, Local, Progress
<1>1. TypeOK'
    <2>1. me' \in [Consumers -> LocalState]
        BY <1>0 DEF IInv, TypeOK, LocalState, Steps, LoadTriggers
    <2> QED
        BY <2>1 DEF IInv, TypeOK
<1>2. Only(c) /\ Grows
    BY DEF IInv, TypeOK, Only, Grows
<1>3. LocalFacts(c)'
    BY <1>0 DEF IInv, TypeOK, LocalState, LocalFacts, Working, OnJob, OnTrigger, Event,
                Fired, LoadTriggers, Matches, MatchingTypes
<1>4. ProgressFacts(c)'
    <2> SUFFICES ASSUME NEW e \in Events, NEW w \in Workflows \cup {None},
                        (Event(me[c].msg) = e /\ me[c].wf = w)'
                 PROVE  ProgressOn(c, e, w)'
        BY DEF ProgressFacts
    <2>1. Event(me[c].msg) = e /\ me[c].wf = w
        BY DEF IInv, TypeOK, Event
    <2>2. ProgressOn(c, e, w)
        BY <1>0, <2>1 DEF ProgressFacts
    <2>3. ExplicitSettled(e)' <=> ExplicitSettled(e)
        BY DEF ExplicitSettled
    <2>4. me'[c].ack = me[c].ack /\ me'[c].pc = "next"
          /\ me'[c].todo = IF e \in world.entitled THEN LoadTriggers(e) ELSE {}
        BY <2>1 DEF IInv, TypeOK
    <2>5. Wanted(e)' \subseteq me'[c].todo
        BY <2>4 DEF IInv, OfflineUnusable, Wanted, LoadTriggers, Matches, MatchingTypes
    <2> QED
        BY <2>2, <2>3, <2>4, <2>5 DEF ProgressOn, OnTrigger, OnJob
<1>5. Sections'
    BY <1>2, SectionsOne DEF IInv, TypeOK, InSection
<1>6. OfflineUnusable'
    BY DEF IInv, OfflineUnusable
<1>7. me'[c].batch = me[c].batch /\ me'[c].pc = "next"
    BY DEF IInv, TypeOK
<1> QED
    BY <1>1, <1>2, <1>3, <1>4, <1>5, <1>6, <1>7, QuietMove

LEMMA NextTriggerKeeps ==
    ASSUME IInv, NEW c \in Consumers, NextTrigger(c)
    PROVE  IInv'
<1> USE DEF NextTrigger, NoFault, redis, database, temporal
<1>0. Event(me[c].msg) \in Events /\ me[c] \in LocalState /\ LocalFacts(c) /\ ProgressFacts(c)
    BY InHandTyped DEF Working, IInv, TypeOK, Local, Progress
<1>v. PICK v \in me[c].todo :
          me' = [me EXCEPT ![c].pc = "exists", ![c].wf = v, ![c].todo = @ \ {v}]
    OBVIOUS
<1>n. v \in Workflows /\ v # Explicit[Event(me[c].msg)]
    BY <1>0 DEF LocalFacts, Fired
<1>1. TypeOK'
    <2>1. me' \in [Consumers -> LocalState]
        BY <1>0, <1>v DEF IInv, TypeOK, LocalState, Steps
    <2> QED
        BY <2>1 DEF IInv, TypeOK
<1>2. Only(c) /\ Grows
    BY <1>v DEF IInv, TypeOK, Only, Grows
<1>3. LocalFacts(c)'
    BY <1>0, <1>v, <1>n DEF IInv, TypeOK, LocalState, LocalFacts, Working, OnJob, OnTrigger, Event,
                Fired, Matches, MatchingTypes
<1>4. ProgressFacts(c)'
    <2> SUFFICES ASSUME NEW e \in Events, NEW w \in Workflows \cup {None},
                        (Event(me[c].msg) = e /\ me[c].wf = w)'
                 PROVE  ProgressOn(c, e, w)'
        BY DEF ProgressFacts
    <2>1. Event(me[c].msg) = e /\ me[c].wf \in Workflows \cup {None} /\ w = v
        BY <1>0, <1>v DEF IInv, TypeOK, LocalState, Event
    <2>2. ProgressOn(c, e, me[c].wf)
        BY <1>0, <2>1 DEF ProgressFacts
    <2>3. (ExplicitSettled(e)' <=> ExplicitSettled(e)) /\ Wanted(e)' = Wanted(e)
        BY DEF ExplicitSettled, Wanted, Matches, MatchingTypes
    <2>4. me'[c].ack = me[c].ack /\ me'[c].pc = "exists" /\ me'[c].todo = me[c].todo \ {v}
        BY <1>v DEF IInv, TypeOK, LocalState
    <2>5. Wanted(e) \ (me'[c].todo \cup {w}) = Wanted(e) \ (me[c].todo \cup {v})
        BY <2>1, <2>4
    <2>6. me[c].pc = "next" /\ dispatched' = dispatched
        OBVIOUS
    <2> HIDE DEF NextTrigger
    <2> QED
        BY <2>2, <2>3, <2>4, <2>5, <2>6 DEF ProgressOn
<1>5. Sections'
    BY <1>2, <1>v, SectionsOne DEF IInv, TypeOK, InSection
<1>6. OfflineUnusable'
    BY DEF IInv, OfflineUnusable
<1>7. me'[c].batch = me[c].batch /\ me'[c].pc = "exists"
    BY <1>v DEF IInv, TypeOK
<1> QED
    BY <1>1, <1>2, <1>3, <1>4, <1>5, <1>6, <1>7, QuietMove

\* A consumer that is through with a settled job goes on with what it knows.
LEMMA Through ==
    ASSUME IInv, NEW c \in Consumers, NEW e \in Events, NEW w \in Workflows,
           Event(me[c].msg) = e, me[c].wf = w, OnJob(c), me[c].ack, JobSettled(e, w)
    PROVE  /\ ExplicitSettled(e)
           /\ After(c) = "next" => \A v \in Wanted(e) \ me[c].todo : dispatched[<<e, v>>] > 0
<1>1. ProgressOn(c, e, w)
    BY DEF IInv, Progress, ProgressFacts
<1>2. CASE IsExplicit(c)
    <2>1. w = Explicit[e]
        BY <1>2 DEF IsExplicit
    <2> QED
        BY <1>2, <2>1 DEF JobSettled, After
<1>3. CASE ~IsExplicit(c)
    <2>1. OnTrigger(c) /\ w # Explicit[e]
        BY <1>3 DEF OnTrigger, IsExplicit
    <2>2. w \in Wanted(e) => dispatched[<<e, w>>] > 0
        BY <2>1 DEF JobSettled, Wanted
    <2>3. \A v \in Wanted(e) \ (me[c].todo \cup {w}) : dispatched[<<e, v>>] > 0
        BY <1>1, <2>1 DEF ProgressOn
    <2>4. \A v \in Wanted(e) \ me[c].todo : dispatched[<<e, v>>] > 0
        BY <2>2, <2>3
    <2> QED
        BY <1>1, <2>1, <2>4 DEF ProgressOn
<1> QED
    BY <1>2, <1>3

\* Where nothing is dispatched and no outcome is written, nothing is settled
\* or unsettled.
LEMMA SettledSame ==
    ASSUME UNCHANGED <<dispatched, runs, comment, world>>, NEW e \in Events
    PROVE  /\ Wanted(e)' = Wanted(e)
           /\ ExplicitSettled(e)' <=> ExplicitSettled(e)
           /\ \A w \in Workflows : JobSettled(e, w)' <=> JobSettled(e, w)
           /\ Settled(e)' <=> Settled(e)
<1>1. Wanted(e)' = Wanted(e)
    BY DEF Wanted, Matches, MatchingTypes
<1>2. ExplicitSettled(e)' <=> ExplicitSettled(e)
    BY DEF ExplicitSettled
<1> QED
    BY <1>1, <1>2 DEF JobSettled, Settled

\* A step of c from a job: what the proofs below know of it.
LEMMA JobTyped ==
    ASSUME IInv, NEW c \in Consumers, OnJob(c)
    PROVE  \E e \in Events, w \in Workflows :
               /\ Event(me[c].msg) = e /\ me[c].wf = w /\ Job(c) = <<e, w>>
               /\ ProgressOn(c, e, w) /\ LocalFacts(c) /\ me[c] \in LocalState
BY InHandTyped DEF Working, OnJob, IInv, Local, LocalFacts, Progress, ProgressFacts, TypeOK, Job

\* Exists: a done key is right about its job.
LEMMA ExistsKeeps ==
    ASSUME IInv, NEW c \in Consumers, Exists(c)
    PROVE  IInv'
<1> USE DEF Exists, Goto, NoFault, redis, database, temporal
<1>0. PICK e \in Events, w \in Workflows :
          /\ Event(me[c].msg) = e /\ me[c].wf = w /\ Job(c) = <<e, w>>
          /\ ProgressOn(c, e, w) /\ LocalFacts(c) /\ me[c] \in LocalState
    BY JobTyped DEF OnJob
<1>1. TypeOK'
    <2>1. me' \in [Consumers -> LocalState]
        BY <1>0 DEF IInv, TypeOK, LocalState, Steps, After
    <2> QED
        BY <2>1 DEF IInv, TypeOK
<1>2. Only(c) /\ Grows
    BY DEF IInv, TypeOK, Only, Grows
<1>m. /\ me'[c] = [me[c] EXCEPT !.pc = me'[c].pc]
      /\ me'[c].pc = IF <<e, w>> \in done THEN After(c) ELSE "lock"
    BY <1>0 DEF IInv, TypeOK, LocalState
<1>3. LocalFacts(c)'
    BY <1>0, <1>2, <1>m DEF LocalState, LocalFacts, Working, OnJob, OnTrigger, Event, IsExplicit,
             Grows, Fired, Matches, MatchingTypes, After
<1>4. ProgressFacts(c)'
    <2>1. /\ Wanted(e)' = Wanted(e)
          /\ ExplicitSettled(e)' <=> ExplicitSettled(e)
          /\ JobSettled(e, w)' <=> JobSettled(e, w)
        BY SettledSame
    <2>2. ProgressOn(c, e, w)'
        <3>1. CASE <<e, w>> \in done
            <4>1. me[c].ack =>
                    /\ ExplicitSettled(e)
                    /\ After(c) = "next" => \A v \in Wanted(e) \ me[c].todo : dispatched[<<e, v>>] > 0
                BY <1>0, <3>1, Through DEF IInv, DoneSettled, OnJob
            <4> QED
                BY <1>0, <1>m, <2>1, <3>1, <4>1 DEF ProgressOn, LocalState, After, OnTrigger, OnJob
        <3>2. CASE <<e, w>> \notin done
            BY <1>0, <1>m, <2>1, <3>2 DEF ProgressOn, LocalState, OnTrigger, OnJob, IsExplicit, Event
        <3> QED
            BY <3>1, <3>2
    <2> QED
        BY <1>0, <1>m, <2>2 DEF ProgressFacts, LocalState, Event
<1>5. Sections'
    BY <1>2, <1>m, SectionsOne DEF InSection, After
<1>6. OfflineUnusable'
    BY DEF IInv, OfflineUnusable
<1>7. me'[c].batch = me[c].batch /\ (me'[c].pc \in {"lock", "dispatch"} => Job(c)' \notin done)
    BY <1>0, <1>m DEF LocalState, Job, Event, After
<1> QED
    BY <1>1, <1>2, <1>3, <1>4, <1>5, <1>6, <1>7, QuietMove

\* Lock: whoever gets it is alone in the section of its job.
LEMMA LockKeeps ==
    ASSUME IInv, NEW c \in Consumers, Lock(c)
    PROVE  IInv'
<1> USE DEF Lock, Goto, MayLock, Refused, Fault, NoFault, database, temporal
<1>0. PICK e \in Events, w \in Workflows :
          /\ Event(me[c].msg) = e /\ me[c].wf = w /\ Job(c) = <<e, w>>
          /\ ProgressOn(c, e, w) /\ LocalFacts(c) /\ me[c] \in LocalState
    BY JobTyped DEF OnJob
<1>1. TypeOK'
    <2>1. me' \in [Consumers -> LocalState]
        <3>1. [me[c] EXCEPT !.pc = After(c), !.ack = FALSE] \in LocalState
            BY <1>0 DEF LocalState, Steps, After
        <3>2. me' = [me EXCEPT ![c] = [me[c] EXCEPT !.pc = After(c), !.ack = FALSE]]
              \/ me' = [me EXCEPT ![c].pc = "dispatch"]
            OBVIOUS
        <3>3. me \in [Consumers -> LocalState]
            BY DEF IInv, TypeOK
        <3>4. [me EXCEPT ![c].pc = "dispatch"] \in [Consumers -> LocalState]
            BY <3>3 DEF LocalState, Steps
        <3> QED
            BY <3>1, <3>2, <3>3, <3>4
    <2>2. locks' \subseteq Jobs /\ faults' \in 0 .. MaxFaults
        BY <1>0, CaseTriggerConstants DEF IInv, TypeOK, Jobs
    <2> QED
        BY <2>1, <2>2 DEF IInv, TypeOK
<1>2. Only(c) /\ Grows
    BY DEF IInv, TypeOK, Only, Grows
<1>m. \/ <<e, w>> \notin locks /\ me'[c] = [me[c] EXCEPT !.pc = "dispatch"] /\ faults' = faults
      \/ me'[c] = [me[c] EXCEPT !.pc = After(c), !.ack = FALSE] /\ faults' \in {faults, faults + 1}
    <2>1. me \in [Consumers -> LocalState]
        BY DEF IInv, TypeOK
    <2>2. ASSUME me' = [me EXCEPT ![c].pc = "dispatch"]
          PROVE  me'[c] = [me[c] EXCEPT !.pc = "dispatch"]
        BY <2>1, <2>2 DEF LocalState
    <2>3. ASSUME me' = [me EXCEPT ![c] = [me[c] EXCEPT !.pc = After(c), !.ack = FALSE]]
          PROVE  me'[c] = [me[c] EXCEPT !.pc = After(c), !.ack = FALSE]
        BY <2>1, <2>3
    <2> QED
        BY <1>0, <2>2, <2>3
<1>3. LocalFacts(c)'
    <2>1. CASE me'[c] = [me[c] EXCEPT !.pc = "dispatch"]
        BY <1>0, <1>2, <2>1 DEF LocalState, LocalFacts, Working, OnJob, OnTrigger, Event, IsExplicit,
                 Grows, Fired, Matches, MatchingTypes
    <2>2. CASE me'[c] = [me[c] EXCEPT !.pc = After(c), !.ack = FALSE]
        BY <1>0, <1>2, <2>2 DEF LocalState, LocalFacts, Working, OnJob, OnTrigger, Event, IsExplicit,
                 Grows, Fired, Matches, MatchingTypes, After
    <2> QED
        BY <1>m, <2>1, <2>2
<1>4. ProgressFacts(c)'
    <2>1. /\ Wanted(e)' = Wanted(e)
          /\ ExplicitSettled(e)' <=> ExplicitSettled(e)
          /\ JobSettled(e, w)' <=> JobSettled(e, w)
        BY SettledSame
    <2>2. ProgressOn(c, e, w)'
        BY <1>0, <1>m, <2>1 DEF ProgressOn, LocalState, After, OnTrigger, OnJob, IsExplicit, Event
    <2> QED
        BY <1>0, <1>m, <2>2 DEF ProgressFacts, LocalState, Event
<1>5. Sections'
    <2>1. CASE <<e, w>> \notin locks /\ me'[c] = [me[c] EXCEPT !.pc = "dispatch"]
        <3> SUFFICES ASSUME world.prompt
                     PROVE  Sections'
            BY DEF Sections
        <3>1. Job(c)' = <<e, w>> /\ locks' = locks \cup {<<e, w>>}
            BY <1>0, <2>1 DEF Job, Event, LocalState
        <3>2. ASSUME NEW d \in Consumers \ {c}, InSection(d)'
              PROVE  InSection(d) /\ Job(d)' = Job(d) /\ Job(d) \in locks
            BY <1>2, <3>2 DEF IInv, Sections, Only, InSection, Job, Event
        <3>3. \A d \in Consumers : InSection(d)' => Job(d)' \in locks'
            BY <3>1, <3>2
        <3>4. \A d \in Consumers \ {c} : InSection(d)' => Job(d)' # Job(c)'
            BY <2>1, <3>1, <3>2
        <3>5. \A d, f \in Consumers \ {c} : d # f /\ InSection(d)' /\ InSection(f)' => Job(d)' # Job(f)'
            BY <3>2 DEF IInv, Sections
        <3> QED
            BY <3>3, <3>4, <3>5 DEF Sections
    <2>2. CASE me'[c] = [me[c] EXCEPT !.pc = After(c), !.ack = FALSE]
        <3>1. ~InSection(c)'
            BY <1>0, <2>2 DEF InSection, After, LocalState
        <3> QED
            BY <1>2, <3>1, SectionsOne
    <2> QED
        BY <1>m, <2>1, <2>2
<1>6. OfflineUnusable'
    BY DEF IInv, OfflineUnusable
<1>7. /\ me'[c].batch = me[c].batch /\ me'[c].msg = me[c].msg /\ me'[c].wf = me[c].wf
      /\ faults' \in {faults, faults + 1}
    BY <1>0, <1>m DEF LocalState
<1> QED
    BY <1>1, <1>2, <1>3, <1>4, <1>5, <1>6, <1>7, QuietMove

\* The bounds survive a dispatch: it was paid for by a fault, or is the one
\* that is still to be recorded.
LEMMA DispatchBounded ==
    ASSUME IInv, TypeOK', NEW c \in Consumers, NEW e \in Events, NEW w \in Workflows,
           me[c].pc = "dispatch", Job(c) = <<e, w>>, Only(c),
           me'[c] = [me[c] EXCEPT !.pc = "done"], me[c] \in LocalState, LocalFacts(c),
           dispatched' = [dispatched EXCEPT ![<<e, w>>] = @ + 1],
           UNCHANGED <<entry, done, faults, world>>
    PROVE  Bounds'
<1> SUFFICES ASSUME world.prompt, NEW f \in Events, NEW v \in Workflows
             PROVE  BoundFacts(f, v)'
    BY DEF Bounds
<1>1. BoundFacts(f, v) /\ dispatched[<<f, v>>] \in Nat /\ faults \in Nat
    BY CaseTriggerConstants DEF IInv, Bounds, TypeOK, Jobs
<1>2. Unrecorded(f, v) => Unrecorded(f, v)'
    BY DEF Unrecorded, Only, Event
<1>3. ASSUME NEW k \in {1, 2}, Passed(f, v, k)'
      PROVE  Passed(f, v, k)
    BY <1>3 DEF Passed, Only, LocalState
<1>4. CASE <<f, v>> # <<e, w>>
    <2>1. dispatched'[<<f, v>>] = dispatched[<<f, v>>]
        BY <1>4 DEF IInv, TypeOK, Jobs
    <2> QED
        BY <1>1, <1>2, <1>3, <2>1, BoundKeeps DEF IInv
<1>5. CASE <<f, v>> = <<e, w>> /\ <<e, w>> \in done
    <2>1. PICK k \in {1, 2} : me[c].msg = <<e, k>>
        BY DEF LocalFacts, LocalState, Working, Messages, Job, Event
    <2>2. Passed(e, w, k) /\ ~Passed(e, w, k)'
        <3>1. Passed(e, w, k)
            BY <2>1 DEF Passed, Job
        <3>2. \A d \in Consumers \ {c} : me[c].msg \notin me[d].batch
            BY DEF IInv, Hands, LocalFacts, Working
        <3>3. ASSUME NEW d \in Consumers, d # c, me[d].pc \in {"lock", "dispatch"}
              PROVE  me[d].msg # me[c].msg
            BY <3>2, <3>3 DEF IInv, Local, LocalFacts, Working
        <3> QED
            BY <2>1, <3>1, <3>3 DEF Passed, Only, LocalState
    <2>3. dispatched'[<<e, w>>] = dispatched[<<e, w>>] + 1
        BY DEF IInv, TypeOK, Jobs
    <2>4. One(Passed(e, w, k)) = 1 /\ One(Passed(e, w, k))' = 0
        BY <2>2 DEF One
    <2>5. \A i \in {1, 2} : /\ One(Passed(e, w, i)) \in {0, 1} /\ One(Passed(e, w, i))' \in {0, 1}
                            /\ One(Passed(e, w, i))' <= One(Passed(e, w, i))
        BY <1>3, <1>5 DEF One
    <2>6. /\ One(Passed(e, w, 1))' + One(Passed(e, w, 2))' + 1 <= One(Passed(e, w, 1)) + One(Passed(e, w, 2))
          /\ One(Passed(e, w, 1)) \in Nat /\ One(Passed(e, w, 2)) \in Nat
          /\ One(Passed(e, w, 1))' \in Nat /\ One(Passed(e, w, 2))' \in Nat
        BY <2>4, <2>5
    <2>7. f = e /\ v = w
        BY <1>5
    <2> QED
        BY <1>1, <1>5, <2>3, <2>6, <2>7 DEF BoundFacts
<1>6. CASE <<f, v>> = <<e, w>> /\ <<e, w>> \notin done
    <2>1. ~Unrecorded(e, w) /\ Unrecorded(e, w)'
        BY DEF Unrecorded, IInv, Sections, InSection, Job, LocalState, Event
    <2>2. dispatched'[<<e, w>>] = dispatched[<<e, w>>] + 1
        BY DEF IInv, TypeOK, Jobs
    <2>3. f = e /\ v = w
        BY <1>6
    <2> QED
        BY <1>1, <1>6, <2>1, <2>2, <2>3 DEF BoundFacts, One
<1> QED
    BY <1>4, <1>5, <1>6

\* c goes on with the same job, or leaves its section for the message.
LEMMA SameJobLocal ==
    ASSUME NEW c \in Consumers, LocalFacts(c), OnJob(c), world' = world,
           me'[c].batch = me[c].batch, me'[c].msg = me[c].msg, me'[c].wf = me[c].wf,
           me'[c].todo = me[c].todo,
           \A w \in me'[c].offline : w \in me[c].offline \/ world.definition[w] # "valid",
           \/ me'[c].pc \in {"dispatch", "done", "unlock", After(c)}
           \/ me'[c].pc = "committing" /\ IsExplicit(c)
    PROVE  LocalFacts(c)'
BY DEF LocalFacts, Working, OnJob, OnTrigger, IsExplicit, After, Fired, Matches, MatchingTypes, Event

LEMMA SameJobProgress ==
    ASSUME NEW c \in Consumers, NEW e \in Events, NEW w \in Workflows,
           Event(me[c].msg) = e, me[c].wf = w,
           me'[c].msg = me[c].msg, me'[c].wf = me[c].wf, ProgressOn(c, e, w)'
    PROVE  ProgressFacts(c)'
BY DEF ProgressFacts, Event

\* DispatchConfigured: the execution is asked for, or the trigger is unusable.
LEMMA DispatchConfiguredKeeps ==
    ASSUME IInv, NEW c \in Consumers, DispatchConfigured(c)
    PROVE  IInv'
<1>0. PICK e \in Events, w \in Workflows :
          /\ Event(me[c].msg) = e /\ me[c].wf = w /\ Job(c) = <<e, w>>
          /\ ProgressOn(c, e, w) /\ LocalFacts(c) /\ me[c] \in LocalState
    BY JobTyped DEF OnJob, DispatchConfigured
<1>a. /\ me[c].pc = "dispatch" /\ OnJob(c) /\ OnTrigger(c) /\ w # Explicit[e] /\ <<e, w>> \in Jobs
      /\ UNCHANGED <<group, entry, aged, locks, done, status, comment, runs, faults, world>>
      /\ me \in [Consumers -> LocalState]
    BY <1>0 DEF DispatchConfigured, OnJob, OnTrigger, IsExplicit, Jobs, NoFault, redis, database, IInv, TypeOK
<1>b. \/ /\ world.definition[w] = "valid"
         /\ dispatched' = [dispatched EXCEPT ![<<e, w>>] = @ + 1]
         /\ starting' = [starting EXCEPT ![c] = @ \cup {<<<<e, w>>, dispatched'[<<e, w>>]>>}]
         /\ me' = [me EXCEPT ![c].pc = "done"]
      \/ /\ world.definition[w] # "valid" /\ UNCHANGED <<dispatched, starting>>
         /\ me' = [me EXCEPT ![c].pc = "done", ![c].offline = @ \cup {w}]
    BY <1>0 DEF DispatchConfigured, Goto, Execution
<1>1. TypeOK'
    <2>1. me' \in [Consumers -> LocalState]
        BY <1>a, <1>b DEF LocalState, Steps
    <2>2. dispatched' \in [Jobs -> Nat]
        BY <1>a, <1>b DEF IInv, TypeOK
    <2>3. starting' \in [Consumers -> SUBSET (Jobs \X Nat)]
        BY <1>a, <1>b, <2>2 DEF IInv, TypeOK
    <2> QED
        BY <1>a, <2>1, <2>2, <2>3 DEF IInv, TypeOK
<1>2. Only(c) /\ Grows
    <2>1. Only(c)
        BY <1>a, <1>b DEF Only
    <2>2. \A j \in Jobs : dispatched'[j] >= dispatched[j]
        BY <1>a, <1>b DEF IInv, TypeOK
    <2> QED
        BY <1>a, <2>1, <2>2 DEF Grows
<1>m. /\ me'[c].pc = "done" /\ me'[c].batch = me[c].batch /\ me'[c].msg = me[c].msg
      /\ me'[c].wf = me[c].wf /\ me'[c].todo = me[c].todo /\ me'[c].ack = me[c].ack
      /\ me'[c].failed = me[c].failed /\ me'[c].raised = me[c].raised
      /\ \A v \in me'[c].offline : v \in me[c].offline \/ world.definition[v] # "valid"
    BY <1>a, <1>b DEF LocalState
<1>3. LocalFacts(c)'
    BY <1>0, <1>a, <1>m, SameJobLocal
<1>4. JobSettled(e, w)'
    <2>1. world.definition[w] = "valid" => dispatched'[<<e, w>>] > 0
        BY <1>a, <1>b DEF IInv, TypeOK
    <2> QED
        BY <1>a, <2>1 DEF JobSettled
<1>5. ProgressFacts(c)'
    <2>1. /\ Wanted(e)' = Wanted(e) /\ (ExplicitSettled(e) => ExplicitSettled(e)')
          /\ \A v \in Workflows : dispatched[<<e, v>>] > 0 => dispatched'[<<e, v>>] > 0
        BY <1>1, <1>2, SettledStays DEF IInv
    <2>2. Wanted(e) \subseteq Workflows
        BY DEF Wanted
    <2>3. ProgressOn(c, e, w)'
        BY <1>0, <1>a, <1>m, <1>4, <2>1, <2>2 DEF ProgressOn
    <2> QED
        BY <1>0, <1>m, <2>3, SameJobProgress
<1>6. Sections'
    BY <1>a, <1>m, <1>2, SectionsOne DEF InSection, Job, Event
<1>7. OfflineUnusable'
    BY <1>a DEF IInv, OfflineUnusable
<1>8. CASE world.definition[w] # "valid"
    BY <1>1, <1>2, <1>3, <1>5, <1>6, <1>7, <1>8, <1>a, <1>b, <1>m, QuietMove
<1>9. CASE world.definition[w] = "valid"
    <2>1. Local' /\ Progress'
        BY <1>1, <1>2, <1>3, <1>5, OneMoves
    <2>2. DoneSettled' /\ AckedIsSettled'
        BY <1>1, <1>2, <1>a, KeysKeep, AcksKeep
    <2>3. Hands'
        BY <1>1, <1>2, <1>a, <1>m, HandsKeep DEF Only
    <2>4. me'[c] = [me[c] EXCEPT !.pc = "done"]
        BY <1>a, <1>b, <1>9 DEF LocalState
    <2>5. Bounds'
        BY <1>0, <1>1, <1>2, <1>9, <1>a, <1>b, <2>4, DispatchBounded
    <2> QED
        BY <1>1, <1>6, <1>7, <2>1, <2>2, <2>3, <2>5 DEF IInv
<1> QED
    BY <1>8, <1>9

LEMMA DispatchRaisesKeeps ==
    ASSUME IInv, NEW c \in Consumers, DispatchRaises(c)
    PROVE  IInv'
<1>0. PICK e \in Events, w \in Workflows :
          /\ Event(me[c].msg) = e /\ me[c].wf = w /\ Job(c) = <<e, w>>
          /\ ProgressOn(c, e, w) /\ LocalFacts(c) /\ me[c] \in LocalState
    BY JobTyped DEF OnJob, DispatchRaises
<1>a. /\ me[c].pc = "dispatch" /\ OnJob(c)
      /\ UNCHANGED <<group, entry, aged, locks, done, status, comment, runs, dispatched, starting, world>>
      /\ faults < MaxFaults /\ faults' = faults + 1
      /\ me \in [Consumers -> LocalState]
      /\ me' = [me EXCEPT ![c].pc = "unlock", ![c].ack = FALSE]
    BY DEF DispatchRaises, OnJob, Fault, redis, database, temporal, IInv, TypeOK
<1>1. TypeOK'
    <2>1. me' \in [Consumers -> LocalState]
        <3>1. [me[c] EXCEPT !.pc = "unlock", !.ack = FALSE] \in LocalState
            BY <1>0 DEF LocalState, Steps
        <3>2. me' = [me EXCEPT ![c] = [me[c] EXCEPT !.pc = "unlock", !.ack = FALSE]]
            BY <1>a DEF LocalState
        <3> QED
            BY <1>a, <3>1, <3>2
    <2>2. faults' \in 0 .. MaxFaults
        BY <1>a, CaseTriggerConstants DEF IInv, TypeOK
    <2> QED
        BY <1>a, <2>1, <2>2 DEF IInv, TypeOK
<1>2. Only(c) /\ Grows
    BY <1>a DEF Only, Grows, IInv, TypeOK
<1>m. me'[c] = [me[c] EXCEPT !.pc = "unlock", !.ack = FALSE]
    BY <1>a DEF LocalState
<1>3. LocalFacts(c)'
    BY <1>0, <1>a, <1>m, SameJobLocal DEF LocalState
<1>4. ProgressFacts(c)'
    <2>1. ProgressOn(c, e, w)'
        BY <1>0, <1>m DEF ProgressOn, LocalState
    <2> QED
        BY <1>0, <1>m, <2>1, SameJobProgress DEF LocalState
<1>5. Sections'
    BY <1>0, <1>2, <1>a, <1>m, SectionsOne DEF InSection, Job, Event, LocalState
<1>6. OfflineUnusable'
    BY <1>a DEF IInv, OfflineUnusable
<1>7. me'[c].batch = me[c].batch /\ me'[c].pc = "unlock"
    BY <1>0, <1>m DEF LocalState
<1> QED
    BY <1>1, <1>2, <1>3, <1>4, <1>5, <1>6, <1>7, <1>a, QuietMove

\* DispatchExplicit: the run exists, the failure is about to be noted, or the
\* exception keeps the message pending.
LEMMA DispatchExplicitKeeps ==
    ASSUME IInv, NEW c \in Consumers, DispatchExplicit(c)
    PROVE  IInv'
<1>0. PICK e \in Events, w \in Workflows :
          /\ Event(me[c].msg) = e /\ me[c].wf = w /\ Job(c) = <<e, w>>
          /\ ProgressOn(c, e, w) /\ LocalFacts(c) /\ me[c] \in LocalState
    BY JobTyped DEF OnJob, DispatchExplicit
<1>a. /\ me[c].pc = "dispatch" /\ OnJob(c) /\ IsExplicit(c)
      /\ UNCHANGED <<group, entry, aged, locks, done, status, comment, dispatched, starting, world>>
      /\ me \in [Consumers -> LocalState]
      /\ <<<<e, w>>, 0>> \in Jobs \X Nat
    BY DEF DispatchExplicit, OnJob, Fault, NoFault, redis, database, IInv, TypeOK, Jobs
<1>b. /\ \/ faults' = faults
         \/ faults < MaxFaults /\ faults' = faults + 1
      /\ \/ runs' = runs \cup {<<<<e, w>>, 0>>} /\ me' = [me EXCEPT ![c].pc = "committing"]
         \/ /\ runs' = runs \/ runs' = runs \cup {<<<<e, w>>, 0>>}
            /\ me' = [me EXCEPT ![c].pc = "committing", ![c].failed = TRUE]
         \/ runs' = runs /\ me' = [me EXCEPT ![c].pc = "unlock", ![c].raised = TRUE]
    BY <1>0 DEF DispatchExplicit, Goto, Fault, NoFault
<1>1. TypeOK'
    <2>1. me' \in [Consumers -> LocalState]
        BY <1>a, <1>b DEF LocalState, Steps
    <2>2. faults' \in 0 .. MaxFaults
        BY <1>b, CaseTriggerConstants DEF IInv, TypeOK
    <2>3. runs' \subseteq Jobs \X Nat
        BY <1>a, <1>b DEF IInv, TypeOK
    <2> QED
        BY <1>a, <2>1, <2>2, <2>3 DEF IInv, TypeOK
<1>2. Only(c) /\ Grows
    <2>1. runs \subseteq runs'
        BY <1>b
    <2> QED
        BY <1>a, <1>b, <2>1 DEF Only, Grows, IInv, TypeOK
<1>m. /\ me'[c].batch = me[c].batch /\ me'[c].msg = me[c].msg /\ me'[c].wf = me[c].wf
      /\ me'[c].todo = me[c].todo /\ me'[c].offline = me[c].offline
      /\ \/ me'[c].pc = "committing" /\ (me'[c].failed \/ <<<<e, w>>, 0>> \in runs')
         \/ me'[c].pc = "unlock" /\ me'[c].raised
    BY <1>a, <1>b DEF LocalState
<1>3. LocalFacts(c)'
    BY <1>0, <1>a, <1>m, SameJobLocal
<1>4. ProgressFacts(c)'
    <2>1. ~OnTrigger(c)'
        BY <1>a, <1>m DEF OnTrigger, IsExplicit, Event
    <2>2. ProgressOn(c, e, w)'
        BY <1>m, <2>1 DEF ProgressOn
    <2> QED
        BY <1>0, <1>m, <2>2, SameJobProgress
<1>5. Sections'
    BY <1>2, <1>a, <1>m, SectionsOne DEF InSection, Job, Event
<1>6. OfflineUnusable'
    BY <1>a DEF IInv, OfflineUnusable
<1> QED
    BY <1>1, <1>2, <1>3, <1>4, <1>5, <1>6, <1>a, <1>b, <1>m, QuietMove

\* CommitExplicit: the comment says that the start failed, if it did.
LEMMA CommitExplicitKeeps ==
    ASSUME IInv, NEW c \in Consumers, CommitExplicit(c)
    PROVE  IInv'
<1>0. PICK e \in Events, w \in Workflows :
          /\ Event(me[c].msg) = e /\ me[c].wf = w /\ Job(c) = <<e, w>>
          /\ ProgressOn(c, e, w) /\ LocalFacts(c) /\ me[c] \in LocalState
    BY JobTyped DEF OnJob, CommitExplicit
<1>a. /\ me[c].pc = "committing" /\ OnJob(c) /\ IsExplicit(c) /\ w = Explicit[e]
      /\ UNCHANGED <<group, entry, aged, locks, done, status, runs, dispatched, starting, world>>
      /\ me \in [Consumers -> LocalState]
    BY <1>0 DEF CommitExplicit, OnJob, Fault, NoFault, redis, temporal, IInv, TypeOK, LocalFacts, IsExplicit
<1>b. \/ /\ comment' = [comment EXCEPT ![e] = IF me[c].failed THEN "failed" ELSE @]
         /\ me' = [me EXCEPT ![c].pc = "done"] /\ faults' = faults
      \/ /\ me' = [me EXCEPT ![c].pc = "unlock", ![c].raised = TRUE] /\ comment' = comment
         /\ faults < MaxFaults /\ faults' = faults + 1
    BY <1>0 DEF CommitExplicit, Goto, Fault, NoFault
<1>1. TypeOK'
    <2>1. me' \in [Consumers -> LocalState]
        BY <1>a, <1>b DEF LocalState, Steps
    <2>2. faults' \in 0 .. MaxFaults
        BY <1>b, CaseTriggerConstants DEF IInv, TypeOK
    <2>3. comment' \in [Events -> {"running", "failed"}]
        BY <1>b DEF IInv, TypeOK
    <2> QED
        BY <1>a, <2>1, <2>2, <2>3 DEF IInv, TypeOK
<1>2. Only(c) /\ Grows
    <2>1. \A f \in Events : comment[f] = "failed" => comment'[f] = "failed"
        BY <1>b DEF IInv, TypeOK
    <2> QED
        BY <1>a, <1>b, <2>1 DEF Only, Grows, IInv, TypeOK
<1>m. /\ me'[c].batch = me[c].batch /\ me'[c].msg = me[c].msg /\ me'[c].wf = me[c].wf
      /\ me'[c].todo = me[c].todo /\ me'[c].offline = me[c].offline
      /\ \/ me'[c].pc = "done" /\ (me[c].failed => comment'[e] = "failed")
         \/ me'[c].pc = "unlock" /\ me'[c].raised
    <2>1. comment \in [Events -> {"running", "failed"}]
        BY DEF IInv, TypeOK
    <2> QED
        BY <1>a, <1>b, <2>1 DEF LocalState
<1>3. LocalFacts(c)'
    BY <1>0, <1>a, <1>m, SameJobLocal
<1>4. ProgressFacts(c)'
    <2>1. ~OnTrigger(c)'
        BY <1>a, <1>m DEF OnTrigger, IsExplicit, Event
    <2>2. me'[c].pc = "done" => JobSettled(e, w)'
        BY <1>0, <1>a, <1>m DEF ProgressOn, JobSettled, ExplicitSettled
    <2>3. ProgressOn(c, e, w)'
        BY <1>m, <2>1, <2>2 DEF ProgressOn
    <2> QED
        BY <1>0, <1>m, <2>3, SameJobProgress
<1>5. Sections'
    BY <1>2, <1>a, <1>m, SectionsOne DEF InSection, Job, Event
<1>6. OfflineUnusable'
    BY <1>a DEF IInv, OfflineUnusable
<1> QED
    BY <1>1, <1>2, <1>3, <1>4, <1>5, <1>6, <1>a, <1>b, <1>m, QuietMove

\* SetDone: the key is set before the lock goes, or the message stays pending.
\* Another consumer that has passed the check has the other copy in hand.
LEMMA SetDoneBounded ==
    ASSUME IInv, TypeOK', NEW c \in Consumers, NEW e \in Events, NEW w \in Workflows,
           me[c].pc = "done", Event(me[c].msg) = e, me[c].wf = w, LocalFacts(c), Only(c),
           me'[c].pc = "unlock", UNCHANGED <<dispatched, entry, world>>,
           \/ done' = done \cup {<<e, w>>} /\ faults' \in {faults, faults + 1}
           \/ done' = done /\ faults' = faults + 1
    PROVE  Bounds'
<1> SUFFICES ASSUME world.prompt, NEW f \in Events, NEW v \in Workflows
             PROVE  BoundFacts(f, v)'
    BY DEF Bounds
<1>1. BoundFacts(f, v) /\ dispatched[<<f, v>>] \in Nat /\ faults \in Nat /\ faults' >= faults
    BY CaseTriggerConstants DEF IInv, Bounds, TypeOK, Jobs
<1>2. ASSUME NEW k \in {1, 2}, Passed(f, v, k)'
      PROVE  Passed(f, v, k)
    BY <1>2 DEF Passed, Only
<1>3. CASE <<f, v>> # <<e, w>>
    <2>1. Unrecorded(f, v) => Unrecorded(f, v)'
        BY <1>3 DEF Unrecorded, Only, Event
    <2> QED
        BY <1>1, <1>2, <1>3, <2>1, BoundKeeps DEF IInv
<1>4. CASE <<f, v>> = <<e, w>> /\ <<e, w>> \in done
    <2>1. \A i \in {1, 2} : /\ One(Passed(f, v, i)) \in {0, 1} /\ One(Passed(f, v, i))' \in {0, 1}
                            /\ One(Passed(f, v, i))' <= One(Passed(f, v, i))
        BY <1>2 DEF One
    <2>2. <<f, v>> \in done /\ <<f, v>> \in done'
        BY <1>4
    <2>3. /\ One(Passed(f, v, 1))' + One(Passed(f, v, 2))' <= One(Passed(f, v, 1)) + One(Passed(f, v, 2))
          /\ One(Passed(f, v, 1)) \in Nat /\ One(Passed(f, v, 2)) \in Nat
          /\ One(Passed(f, v, 1))' \in Nat /\ One(Passed(f, v, 2))' \in Nat
        BY <2>1
    <2> QED
        BY <1>1, <2>2, <2>3 DEF BoundFacts
<1>5. CASE <<f, v>> = <<e, w>> /\ <<e, w>> \notin done
    <2>0. f = e /\ v = w
        BY <1>5
    <2>1. PICK k \in {1, 2} : me[c].msg = <<e, k>> /\ me[c].msg \in me[c].batch
        BY DEF IInv, TypeOK, LocalFacts, LocalState, Working, Messages, Event
    <2>2. ASSUME NEW d \in Consumers, me'[d].pc \in {"lock", "dispatch"}
          PROVE  /\ me'[d].msg # <<e, k>> /\ d # c
                 /\ entry[me'[d].msg] # "absent"
        <3>1. d # c /\ me'[d] = me[d]
            BY <2>2 DEF Only
        <3>2. me[d].msg \in me[d].batch
            BY <2>2, <3>1 DEF IInv, Local, LocalFacts, Working
        <3> QED
            BY <2>1, <3>1, <3>2 DEF IInv, Hands
    <2>3. ~Passed(e, w, k)'
        BY <2>2 DEF Passed
    <2>4. entry[<<e, 2>>] = "absent" => k = 1 /\ ~Passed(e, w, 2)'
        BY <2>1, <2>2 DEF Passed, IInv, Hands
    <2>5. /\ One(Passed(e, w, 1))' + One(Passed(e, w, 2))' \in {0, 1}
          /\ entry[<<e, 2>>] = "absent" => One(Passed(e, w, 1))' + One(Passed(e, w, 2))' = 0
        BY <2>3, <2>4 DEF One
    <2>6. One(Unrecorded(e, w)) \in {0, 1} /\ One(Unrecorded(e, w))' \in {0, 1}
        BY DEF One
    <2>7. One(Passed(e, w, 1))' \in {0, 1} /\ One(Passed(e, w, 2))' \in {0, 1}
        BY DEF One
    <2>8. CASE done' = done \cup {<<e, w>>}
        BY <1>1, <1>5, <2>0, <2>5, <2>6, <2>7, <2>8 DEF BoundFacts
    <2>9. CASE done' = done /\ faults' = faults + 1
        BY <1>1, <1>5, <2>0, <2>6, <2>9 DEF BoundFacts
    <2> QED
        BY <2>8, <2>9
<1> QED
    BY <1>3, <1>4, <1>5

LEMMA SetDoneKeeps ==
    ASSUME IInv, NEW c \in Consumers, SetDone(c)
    PROVE  IInv'
<1>0. PICK e \in Events, w \in Workflows :
          /\ Event(me[c].msg) = e /\ me[c].wf = w /\ Job(c) = <<e, w>>
          /\ ProgressOn(c, e, w) /\ LocalFacts(c) /\ me[c] \in LocalState
    BY JobTyped DEF OnJob, SetDone
<1>a. /\ me[c].pc = "done" /\ OnJob(c) /\ <<e, w>> \in Jobs
      /\ UNCHANGED <<group, entry, aged, locks, status, comment, runs, dispatched, starting, world>>
      /\ me \in [Consumers -> LocalState]
    BY DEF SetDone, OnJob, Fault, NoFault, database, temporal, IInv, TypeOK, Jobs
<1>b. \/ /\ done' = done \cup {<<e, w>>} /\ faults' = faults
         /\ me' = [me EXCEPT ![c].pc = "unlock"]
      \/ /\ done' = done \/ done' = done \cup {<<e, w>>}
         /\ me' = [me EXCEPT ![c].pc = "unlock", ![c].ack = FALSE, ![c].raised = IsExplicit(c)]
         /\ faults < MaxFaults /\ faults' = faults + 1
    BY <1>0 DEF SetDone, Goto, Fault, NoFault
<1>1. TypeOK'
    <2>1. me' \in [Consumers -> LocalState]
        <3>0. IsExplicit(c) \in BOOLEAN
            BY DEF IsExplicit
        <3>1. [me[c] EXCEPT !.pc = "unlock", !.ack = FALSE, !.raised = IsExplicit(c)] \in LocalState
            BY <1>0, <3>0 DEF LocalState, Steps
        <3>2. CASE me' = [me EXCEPT ![c].pc = "unlock", ![c].ack = FALSE, ![c].raised = IsExplicit(c)]
            <4>1. me' = [me EXCEPT ![c] = [me[c] EXCEPT !.pc = "unlock", !.ack = FALSE, !.raised = IsExplicit(c)]]
                BY <1>a, <3>2 DEF LocalState
            <4> QED
                BY <1>a, <3>1, <4>1
        <3>3. CASE me' = [me EXCEPT ![c].pc = "unlock"]
            BY <1>a, <3>3 DEF LocalState, Steps
        <3> QED
            BY <1>b, <3>2, <3>3
    <2>2. faults' \in 0 .. MaxFaults
        BY <1>b, CaseTriggerConstants DEF IInv, TypeOK
    <2>3. done' \subseteq Jobs
        BY <1>a, <1>b DEF IInv, TypeOK
    <2> QED
        BY <1>a, <2>1, <2>2, <2>3 DEF IInv, TypeOK
<1>2. Only(c) /\ Grows
    BY <1>a, <1>b DEF Only, Grows, IInv, TypeOK
<1>m. /\ me'[c].batch = me[c].batch /\ me'[c].msg = me[c].msg /\ me'[c].wf = me[c].wf
      /\ me'[c].todo = me[c].todo /\ me'[c].offline = me[c].offline
      /\ me'[c].pc = "unlock" /\ (me'[c].ack => me[c].ack)
    BY <1>a, <1>b DEF LocalState
<1>3. LocalFacts(c)'
    BY <1>0, <1>a, <1>m, SameJobLocal
<1>s. /\ Wanted(e)' = Wanted(e)
      /\ ExplicitSettled(e)' <=> ExplicitSettled(e)
      /\ \A v \in Workflows : JobSettled(e, v)' <=> JobSettled(e, v)
    BY <1>a, SettledSame
<1>4. ProgressFacts(c)'
    <2>1. OnTrigger(c)' => OnTrigger(c)
        BY <1>a, <1>m DEF OnTrigger, IsExplicit, Event
    <2>2. ProgressOn(c, e, w)'
        BY <1>0, <1>a, <1>m, <1>s, <2>1 DEF ProgressOn
    <2> QED
        BY <1>0, <1>m, <2>2, SameJobProgress
<1>5. Local' /\ Progress'
    BY <1>1, <1>2, <1>3, <1>4, OneMoves
<1>6. DoneSettled'
    <2>1. JobSettled(e, w)'
        BY <1>0, <1>a, <1>s DEF ProgressOn
    <2>2. ASSUME NEW f \in Events, NEW v \in Workflows, <<f, v>> \in done
          PROVE  JobSettled(f, v)'
        BY <1>1, <1>2, <2>2, SettledStays DEF IInv, DoneSettled
    <2>3. ASSUME NEW f \in Events, NEW v \in Workflows, <<f, v>> \in done'
          PROVE  JobSettled(f, v)'
        <3>1. <<f, v>> \in done \/ (f = e /\ v = w)
            BY <1>b, <2>3
        <3> QED
            BY <2>1, <2>2, <3>1
    <2> QED
        BY <2>3 DEF DoneSettled
<1>7. AckedIsSettled'
    BY <1>1, <1>2, <1>a, AcksKeep
<1>8. Hands'
    BY <1>1, <1>2, <1>a, <1>m, HandsKeep DEF Only
<1>9. Sections'
    BY <1>2, <1>a, <1>m, SectionsOne DEF InSection, Job, Event
<1>10. Bounds'
    BY <1>0, <1>1, <1>2, <1>a, <1>b, <1>m, SetDoneBounded
<1>11. OfflineUnusable'
    BY <1>a DEF IInv, OfflineUnusable
<1> QED
    BY <1>1, <1>5, <1>6, <1>7, <1>8, <1>9, <1>10, <1>11 DEF IInv

\* A consumer between messages, or one that ended, has nothing to show.
LEMMA LeavesMessage ==
    ASSUME IInv, NEW c \in Consumers, me[c] \in LocalState,
           me'[c] \in {Leave(c), Idle, [Idle EXCEPT !.pc = "down"], [Idle EXCEPT !.pc = "ended"]}
    PROVE  /\ LocalFacts(c)' /\ ProgressFacts(c)' /\ ~InSection(c)'
           /\ me'[c].pc \in {"idle", "down", "ended"} /\ me'[c].batch \subseteq me[c].batch
           /\ me'[c] \in LocalState
<1>1. /\ me'[c].pc \in {"idle", "down", "ended"} /\ me'[c].batch \subseteq me[c].batch
      /\ me'[c].pc # "idle" => me'[c].batch = {}
      /\ me'[c].offline = {} /\ me'[c] \in LocalState
    <2> DEFINE At(p, b) == [pc |-> p, batch |-> b, msg |-> None, wf |-> None, todo |-> {},
                            ack |-> TRUE, raised |-> FALSE, offline |-> {}, failed |-> FALSE]
    <2>1. PICK b \in SUBSET me[c].batch, p \in {"idle", "down", "ended"} :
              me'[c] = At(p, b) /\ (p # "idle" => b = {})
        <3>1. CASE me'[c] = Leave(c)
            <4>1. me'[c] = At("idle", me[c].batch \ {me[c].msg})
                BY <3>1 DEF Leave, Idle
            <4>2. me[c].batch \ {me[c].msg} \in SUBSET me[c].batch
                OBVIOUS
            <4> QED
                BY <4>1, <4>2
        <3>2. CASE me'[c] = Idle
            <4>1. me'[c] = At("idle", {})
                BY <3>2 DEF Idle
            <4> QED
                BY <4>1
        <3>3. CASE me'[c] = [Idle EXCEPT !.pc = "down"]
            <4>1. me'[c] = At("down", {})
                BY <3>3 DEF Idle
            <4> QED
                BY <4>1
        <3>4. CASE me'[c] = [Idle EXCEPT !.pc = "ended"]
            <4>1. me'[c] = At("ended", {})
                BY <3>4 DEF Idle
            <4> QED
                BY <4>1
        <3> QED
            BY <3>1, <3>2, <3>3, <3>4
    <2>2. b \subseteq Messages
        BY <2>1 DEF LocalState
    <2>3. me'[c] \in LocalState
        BY <2>1, <2>2 DEF Idle, LocalState, Steps
    <2> QED
        BY <2>1, <2>3 DEF Idle
<1>2. LocalFacts(c)'
    BY <1>1 DEF LocalFacts, Working, OnJob, OnTrigger
<1>3. ProgressFacts(c)'
    BY <1>1 DEF ProgressFacts, ProgressOn, OnJob, OnTrigger
<1>4. ~InSection(c)'
    BY <1>1 DEF InSection
<1> QED
    BY <1>1, <1>2, <1>3, <1>4

\* Unlock: nobody else is in the section that ends.
LEMMA UnlockKeeps ==
    ASSUME IInv, NEW c \in Consumers, Unlock(c)
    PROVE  IInv'
<1>0. PICK e \in Events, w \in Workflows :
          /\ Event(me[c].msg) = e /\ me[c].wf = w /\ Job(c) = <<e, w>>
          /\ ProgressOn(c, e, w) /\ LocalFacts(c) /\ me[c] \in LocalState
    BY JobTyped DEF OnJob, Unlock
<1>a. /\ me[c].pc = "unlock" /\ OnJob(c) /\ locks' = locks \ {Job(c)}
      /\ UNCHANGED <<group, entry, aged, done, status, comment, runs, dispatched, starting, faults, world>>
      /\ me \in [Consumers -> LocalState]
    BY DEF Unlock, OnJob, NoFault, database, temporal, IInv, TypeOK
<1>b. \/ me' = [me EXCEPT ![c] = Leave(c)]
      \/ me' = [me EXCEPT ![c].pc = After(c)] /\ ~me[c].raised
    BY DEF Unlock
<1>c. /\ Leave(c) \in LocalState /\ After(c) \in {"configured", "next"}
      /\ [me[c] EXCEPT !.pc = After(c)] \in LocalState
    BY <1>0 DEF Leave, LocalState, After, Idle, Steps
<1>1. TypeOK'
    <2>1. me' \in [Consumers -> LocalState]
        <3>1. CASE me' = [me EXCEPT ![c] = Leave(c)]
            BY <1>a, <1>c, <3>1
        <3>2. CASE me' = [me EXCEPT ![c].pc = After(c)]
            BY <1>a, <1>c, <3>2 DEF LocalState, Steps
        <3> QED
            BY <1>b, <3>1, <3>2
    <2> QED
        BY <1>a, <2>1 DEF IInv, TypeOK
<1>2. Only(c) /\ Grows
    BY <1>a, <1>b DEF Only, Grows, IInv, TypeOK
<1>m. \/ me'[c] = Leave(c)
      \/ me'[c] = [me[c] EXCEPT !.pc = After(c)] /\ ~me[c].raised
    <2>1. CASE me' = [me EXCEPT ![c] = Leave(c)]
        BY <1>a, <2>1
    <2>2. CASE me' = [me EXCEPT ![c].pc = After(c)]
        BY <1>a, <2>2, <1>b DEF LocalState
    <2> QED
        BY <1>b, <2>1, <2>2
<1>3. /\ LocalFacts(c)' /\ ProgressFacts(c)' /\ ~InSection(c)' /\ me'[c].batch \subseteq me[c].batch
      /\ me'[c].pc \in {"idle", "down", "ended", "configured", "next"}
    <2>1. CASE me'[c] = Leave(c)
        BY <1>0, <2>1, LeavesMessage
    <2>2. CASE me'[c] = [me[c] EXCEPT !.pc = After(c)] /\ ~me[c].raised
        <3>1. /\ me'[c].batch = me[c].batch /\ me'[c].msg = me[c].msg /\ me'[c].wf = me[c].wf
              /\ me'[c].todo = me[c].todo /\ me'[c].offline = me[c].offline
              /\ me'[c].ack = me[c].ack /\ me'[c].pc = After(c)
            BY <1>0, <2>2 DEF LocalState
        <3>2. LocalFacts(c)'
            BY <1>0, <1>a, <3>1, SameJobLocal
        <3>3. me[c].ack => JobSettled(e, w)
            BY <1>0, <1>a, <2>2 DEF ProgressOn
        <3>4. me[c].ack => /\ ExplicitSettled(e)
                           /\ After(c) = "next" => \A v \in Wanted(e) \ me[c].todo : dispatched[<<e, v>>] > 0
            BY <1>0, <1>a, <3>3, Through
        <3>5. Wanted(e)' = Wanted(e) /\ (ExplicitSettled(e)' <=> ExplicitSettled(e))
            BY <1>a, SettledSame
        <3>6. ProgressOn(c, e, w)'
            BY <1>a, <1>c, <3>1, <3>4, <3>5 DEF ProgressOn, OnTrigger, OnJob
        <3>7. ProgressFacts(c)'
            BY <1>0, <3>1, <3>6, SameJobProgress
        <3> QED
            BY <1>c, <3>1, <3>2, <3>7 DEF InSection
    <2> QED
        BY <1>m, <2>1, <2>2
<1>5. Sections'
    <2> SUFFICES ASSUME world.prompt
                 PROVE  Sections'
        BY <1>a DEF Sections
    <2>1. ASSUME NEW d \in Consumers, InSection(d)'
          PROVE  InSection(d) /\ Job(d)' = Job(d) /\ Job(d) \in locks'
        <3>1. d # c /\ me'[d] = me[d]
            BY <1>2, <1>3, <2>1 DEF Only
        <3>2. InSection(c) /\ InSection(d)
            BY <1>a, <2>1, <3>1 DEF InSection
        <3> QED
            BY <1>a, <3>1, <3>2 DEF IInv, Sections, Job, Event
    <2> QED
        BY <1>a, <2>1, SectionsKeep
<1>6. OfflineUnusable'
    BY <1>a DEF IInv, OfflineUnusable
<1> QED
    BY <1>1, <1>2, <1>3, <1>5, <1>6, <1>a, QuietMove

\* Commit: a message with nothing left to do is settled or stays pending.
LEMMA CommitKeeps ==
    ASSUME IInv, NEW c \in Consumers, Commit(c)
    PROVE  IInv'
<1>0. /\ Event(me[c].msg) \in Events /\ me[c] \in LocalState /\ LocalFacts(c) /\ ProgressFacts(c)
      /\ me[c].wf \in Workflows \cup {None}
    BY InHandTyped DEF Commit, Working, IInv, TypeOK, Local, Progress, LocalState
<1>a. /\ me[c].pc = "next" /\ me[c].todo = {}
      /\ status' = [w \in Workflows |-> status[w] /\ w \notin me[c].offline]
      /\ UNCHANGED <<group, entry, aged, locks, done, comment, runs, dispatched, starting, faults, world>>
      /\ me \in [Consumers -> LocalState] /\ status \in [Workflows -> BOOLEAN]
    BY DEF Commit, NoFault, redis, temporal, IInv, TypeOK
<1>b. \/ me' = [me EXCEPT ![c] = Leave(c)]
      \/ me' = [me EXCEPT ![c].pc = "ack"] /\ me[c].ack
    BY DEF Commit
<1>m. \/ me'[c] = Leave(c)
      \/ me'[c] = [me[c] EXCEPT !.pc = "ack"] /\ me[c].ack
    <2>1. CASE me' = [me EXCEPT ![c] = Leave(c)]
        BY <1>a, <2>1
    <2>2. CASE me' = [me EXCEPT ![c].pc = "ack"] /\ me[c].ack
        BY <1>a, <2>2 DEF LocalState
    <2> QED
        BY <1>b, <2>1, <2>2
<1>1. TypeOK'
    <2>1. me' \in [Consumers -> LocalState]
        <3>1. Leave(c) \in LocalState
            BY <1>0 DEF Leave, LocalState, Idle, Steps
        <3>2. CASE me' = [me EXCEPT ![c] = Leave(c)]
            BY <1>a, <3>1, <3>2
        <3>3. CASE me' = [me EXCEPT ![c].pc = "ack"]
            BY <1>a, <3>3 DEF LocalState, Steps
        <3> QED
            BY <1>b, <3>2, <3>3
    <2>2. status' \in [Workflows -> BOOLEAN]
        BY <1>a
    <2> QED
        BY <1>a, <2>1, <2>2 DEF IInv, TypeOK
<1>2. Only(c) /\ Grows
    BY <1>a, <1>b DEF Only, Grows, IInv, TypeOK
<1>3. /\ LocalFacts(c)' /\ ProgressFacts(c)' /\ ~InSection(c)' /\ me'[c].batch \subseteq me[c].batch
      /\ me'[c].pc \in {"idle", "down", "ended", "ack"}
    <2>1. CASE me'[c] = Leave(c)
        BY <1>0, <2>1, LeavesMessage
    <2>2. CASE me'[c] = [me[c] EXCEPT !.pc = "ack"] /\ me[c].ack
        <3>1. /\ me'[c].batch = me[c].batch /\ me'[c].msg = me[c].msg /\ me'[c].wf = me[c].wf
              /\ me'[c].offline = me[c].offline /\ me'[c].pc = "ack"
            BY <1>0, <2>2 DEF LocalState
        <3>2. LocalFacts(c)'
            BY <1>0, <1>a, <3>1 DEF LocalFacts, Working, OnJob, OnTrigger, Event
        <3>3. ASSUME NEW e \in Events, NEW w \in Workflows \cup {None}, Event(me[c].msg) = e, me[c].wf = w
              PROVE  ProgressOn(c, e, w)'
            <4>1. ProgressOn(c, e, w)
                BY <1>0, <3>3 DEF ProgressFacts
            <4>2. Settled(e)
                BY <1>a, <2>2, <4>1 DEF ProgressOn, Settled
            <4>3. Settled(e)'
                BY <1>a, <4>2, SettledSame
            <4> QED
                BY <3>1, <4>3 DEF ProgressOn, OnTrigger, OnJob
        <3>4. ProgressFacts(c)'
            BY <3>1, <3>3 DEF ProgressFacts, Event
        <3> QED
            BY <3>1, <3>2, <3>4 DEF InSection
    <2> QED
        BY <1>m, <2>1, <2>2
<1>5. Sections'
    BY <1>2, <1>3, <1>a, SectionsOne
<1>6. OfflineUnusable'
    BY <1>0, <1>a DEF IInv, OfflineUnusable, LocalFacts
<1> QED
    BY <1>1, <1>2, <1>3, <1>5, <1>6, <1>a, QuietMove

\* Raise, RunRaises and Crash: the message stays pending.
LEMMA RaiseKeeps ==
    ASSUME IInv, NEW c \in Consumers, Raise(c) \/ RunRaises(c) \/ Crash(c)
    PROVE  IInv'
<1>a. /\ UNCHANGED <<group, entry, aged, locks, done, status, comment, runs, dispatched, world>>
      /\ faults < MaxFaults /\ faults' = faults + 1
      /\ me \in [Consumers -> LocalState] /\ starting \in [Consumers -> SUBSET (Jobs \X Nat)]
    BY DEF Raise, RunRaises, Crash, Fault, redis, database, temporal, IInv, TypeOK
<1>b. /\ \/ me' = [me EXCEPT ![c] = Leave(c)]
         \/ me' = [me EXCEPT ![c] = [Idle EXCEPT !.pc = "down"]]
         \/ me' = [me EXCEPT ![c] = [Idle EXCEPT !.pc = "ended"]]
      /\ starting' = starting \/ starting' = [starting EXCEPT ![c] = {}]
    BY DEF Raise, RunRaises, Crash
<1>m. me'[c] \in {Leave(c), Idle, [Idle EXCEPT !.pc = "down"], [Idle EXCEPT !.pc = "ended"]}
    BY <1>a, <1>b
<1>3. /\ LocalFacts(c)' /\ ProgressFacts(c)' /\ ~InSection(c)'
      /\ me'[c].pc \in {"idle", "down", "ended"} /\ me'[c].batch \subseteq me[c].batch
      /\ me'[c] \in LocalState
    BY <1>a, <1>m, LeavesMessage
<1>2. Only(c) /\ Grows
    BY <1>a, <1>b DEF Only, Grows, IInv, TypeOK
<1>1. TypeOK'
    <2>1. me' \in [Consumers -> LocalState]
        BY <1>a, <1>b, <1>m, <1>3
    <2>2. starting' \in [Consumers -> SUBSET (Jobs \X Nat)]
        BY <1>a, <1>b
    <2>3. faults' \in 0 .. MaxFaults
        BY <1>a, CaseTriggerConstants DEF IInv, TypeOK
    <2> QED
        BY <1>a, <2>1, <2>2, <2>3 DEF IInv, TypeOK
<1>5. Sections'
    BY <1>2, <1>3, <1>a, SectionsOne
<1>6. OfflineUnusable'
    BY <1>a DEF IInv, OfflineUnusable
<1> QED
    BY <1>1, <1>2, <1>3, <1>5, <1>6, <1>a, QuietMove

-----------------------------------------------------------------------------
(* The steps of stream, process and clock.                                 *)

\* Nobody takes a step on a job; consumers take messages or drop them.
LEMMA Aside ==
    ASSUME IInv, TypeOK', Grows, UNCHANGED <<dispatched, status>>, done' \subseteq done,
           \A d \in Consumers :
               \/ me'[d] = me[d]
               \/ /\ me[d].pc \in {"idle", "ack", "down", "ended"} /\ me'[d].pc \in {"idle", "down", "ended"}
                  /\ LocalFacts(d)',
           Hands', AckedIsSettled', Bounds',
           \A d \in Consumers : world.prompt /\ InSection(d) => Job(d) \in locks'
    PROVE  IInv'
<1>1. ASSUME NEW d \in Consumers PROVE LocalFacts(d)' /\ ProgressFacts(d)'
    <2>1. CASE me'[d] = me[d]
        BY <2>1, OthersKeep DEF IInv, Local, Progress
    <2>2. CASE me'[d].pc \in {"idle", "down", "ended"} /\ LocalFacts(d)'
        BY <2>2 DEF ProgressFacts, ProgressOn, OnJob, OnTrigger
    <2> QED
        BY <2>1, <2>2
<1>2. DoneSettled'
    BY KeysKeep
<1>3. Sections'
    <2> SUFFICES ASSUME world.prompt
                 PROVE  Sections'
        BY DEF Sections, Grows
    <2>1. ASSUME NEW d \in Consumers, InSection(d)'
          PROVE  InSection(d) /\ Job(d)' = Job(d) /\ Job(d) \in locks'
        BY <2>1 DEF InSection, Job, Event
    <2> QED
        BY <2>1, SectionsKeep DEF Grows
<1>4. OfflineUnusable'
    BY DEF IInv, OfflineUnusable, Grows
<1> QED
    BY <1>1, <1>2, <1>3, <1>4 DEF IInv, Local, Progress

\* And no second copy is added and no done key deleted.
LEMMA AsideBounds ==
    ASSUME IInv, TypeOK', UNCHANGED <<dispatched, done, world>>, faults' \in {faults, faults + 1},
           \A e \in Events : entry'[<<e, 2>>] = "absent" <=> entry[<<e, 2>>] = "absent",
           \A d \in Consumers :
               \/ me'[d] = me[d]
               \/ me[d].pc \in {"idle", "ack", "down", "ended"} /\ me'[d].pc \in {"idle", "down", "ended"}
    PROVE  Bounds'
<1> SUFFICES ASSUME world.prompt, NEW e \in Events, NEW w \in Workflows
             PROVE  BoundFacts(e, w)'
    BY DEF Bounds
<1>1. BoundFacts(e, w) /\ faults' >= faults
    BY CaseTriggerConstants DEF IInv, Bounds, TypeOK
<1>2. ASSUME NEW k \in {1, 2}, Passed(e, w, k)' PROVE Passed(e, w, k)
    BY <1>2 DEF Passed
<1>3. Unrecorded(e, w) => Unrecorded(e, w)'
    BY DEF Unrecorded, Event
<1> QED
    BY <1>1, <1>2, <1>3, BoundKeeps DEF IInv

\* What every step does to the number of faults.
LEMMA FaultsTyped ==
    ASSUME IInv, NoFault \/ Fault
    PROVE  /\ faults' \in {faults, faults + 1} /\ faults' \in 0 .. MaxFaults
           /\ world' = world /\ world' \in Worlds
BY CaseTriggerConstants DEF IInv, TypeOK, NoFault, Fault

\* Deliver: a message that is new, or that nobody at work has in hand.
LEMMA DeliverKeeps ==
    ASSUME IInv, NEW c \in Consumers, Waiting(c), NoFault \/ Fault,
           NEW ms \in SUBSET Messages, NEW seen \in BOOLEAN, Deliver(c, ms, seen),
           \A m \in ms : \/ entry[m] = "queued"
                         \/ entry[m] = "pending" /\ (world.prompt => m \notin InHand)
    PROVE  IInv'
<1>a. /\ UNCHANGED <<group, locks, done, status, comment, runs, dispatched, starting, world>>
      /\ me[c].pc = "idle" /\ me[c].batch = {}
      /\ me \in [Consumers -> LocalState] /\ me[c] \in LocalState
      /\ entry \in [Messages -> EntryStates] /\ aged' \subseteq Messages
    BY DEF Deliver, database, temporal, NoFault, Fault, Waiting, IInv, TypeOK
<1>b. PICK b \in SUBSET ms : me' = [me EXCEPT ![c].batch = b]
    BY DEF Deliver
<1>c. /\ entry' \in [Messages -> EntryStates]
      /\ \A m \in ms : entry'[m] = "pending"
      /\ \A m \in Messages \ ms : entry'[m] = entry[m]
    BY <1>a DEF Deliver, EntryStates
<1>m. /\ me'[c].batch = b /\ me'[c].pc = "idle" /\ me'[c].offline = me[c].offline
      /\ \A d \in Consumers \ {c} : me'[d] = me[d]
    BY <1>a, <1>b DEF LocalState
<1>1. TypeOK'
    <2>1. me' \in [Consumers -> LocalState]
        BY <1>a, <1>b DEF LocalState
    <2> QED
        BY <1>a, <1>c, <2>1, FaultsTyped DEF IInv, TypeOK
<1>2. Grows
    BY <1>a DEF Grows, IInv, TypeOK
<1>3. LocalFacts(c)'
    BY <1>a, <1>m DEF LocalFacts, Working, OnJob, OnTrigger, IInv, Local
<1>4. ASSUME NEW m \in ms, NEW d \in Consumers, m \in me[d].batch
      PROVE  ~world.prompt /\ entry[m] = "pending"
    <2>1. entry[m] # "queued"
        BY <1>4 DEF IInv, Hands
    <2>2. m \in InHand
        BY <1>4 DEF InHand
    <2> QED
        BY <2>1, <2>2
<1>5. Hands'
    <2>1. ASSUME NEW e \in Events, entry'[<<e, 1>>] = "absent"
          PROVE  entry'[<<e, 2>>] = "absent"
        BY <1>c, <2>1 DEF IInv, Hands, Messages
    <2>2. ASSUME NEW d \in Consumers, NEW m \in me'[d].batch
          PROVE  entry'[m] \notin {"absent", "queued"} /\ (world.prompt => entry'[m] # "acked")
        <3>1. CASE d = c
            BY <1>b, <1>c, <1>m, <2>2, <3>1
        <3>2. CASE d # c
            <4>1. m \in me[d].batch /\ m \in Messages
                BY <1>m, <1>a, <2>2, <3>2 DEF LocalState
            <4> QED
                BY <1>c, <4>1 DEF IInv, Hands
        <3> QED
            BY <3>1, <3>2
    <2>3. ASSUME world.prompt, NEW d \in Consumers, NEW f \in Consumers, d # f
          PROVE  me'[d].batch \cap me'[f].batch = {}
        <3>1. CASE d # c /\ f # c
            BY <1>m, <2>3, <3>1 DEF IInv, Hands
        <3>2. CASE d = c
            BY <1>m, <1>4, <1>b, <2>3, <3>2
        <3>3. CASE f = c
            BY <1>m, <1>4, <1>b, <2>3, <3>3
        <3> QED
            BY <3>1, <3>2, <3>3
    <2> QED
        BY <1>a, <2>1, <2>2, <2>3 DEF Hands
<1>6. AckedIsSettled'
    BY <1>1, <1>2, <1>c, AcksKeep
<1>7. \A d \in Consumers :
          \/ me'[d] = me[d]
          \/ /\ me[d].pc \in {"idle", "ack", "down", "ended"} /\ me'[d].pc \in {"idle", "down", "ended"}
             /\ LocalFacts(d)'
    BY <1>3, <1>a, <1>m
<1>8. \A e \in Events : entry'[<<e, 2>>] = "absent" <=> entry[<<e, 2>>] = "absent"
    BY <1>c DEF Messages
<1>9. Bounds'
    BY <1>1, <1>7, <1>8, <1>a, FaultsTyped, AsideBounds
<1>10. \A d \in Consumers : world.prompt /\ InSection(d) => Job(d) \in locks'
    BY <1>a DEF IInv, Sections
<1> QED
    BY <1>1, <1>2, <1>5, <1>6, <1>7, <1>9, <1>10, <1>a, Aside

\* Receive: a reply that is lost leaves the consumer without its messages.
LEMMA ReceiveKeeps ==
    ASSUME IInv, NEW c \in Consumers, NEW ms \in SUBSET Messages, Waiting(c), Receive(c, ms),
           \A m \in ms : \/ entry[m] = "queued"
                         \/ entry[m] = "pending" /\ (world.prompt => m \notin InHand)
    PROVE  IInv'
BY DeliverKeeps DEF Receive

LEMMA ReadKeeps ==
    ASSUME IInv, NEW c \in Consumers, Read(c)
    PROVE  IInv'
<1> DEFINE ms == Oldest(Queued, Batch)
<1>1. ms \in SUBSET Messages /\ \A m \in ms : entry[m] = "queued"
    BY DEF Oldest, Queued
<1>2. Waiting(c) /\ Receive(c, ms)
    BY DEF Read
<1> HIDE DEF ms
<1> QED
    BY <1>1, <1>2, ReceiveKeeps

LEMMA ClaimKeeps ==
    ASSUME IInv, NEW c \in Consumers, ClaimIdleMessages(c)
    PROVE  IInv'
<1>1. /\ Offered \in SUBSET Messages
      /\ \A m \in Offered : entry[m] = "pending" /\ (world.prompt => m \notin InHand)
    BY DEF Offered, Oldest, Claimable, Unattended, IInv, TypeOK
<1>2. Waiting(c) /\ Receive(c, Offered)
    BY DEF ClaimIdleMessages
<1> QED
    BY <1>1, <1>2, ReceiveKeeps

\* Entries are lost, and whoever has one in hand works on.
LEMMA LosesKeep ==
    ASSUME IInv, NoFault \/ Fault, UNCHANGED <<locks, done, status, comment, runs, dispatched>>,
           group' \in BOOLEAN, starting' \in [Consumers -> SUBSET (Jobs \X Nat)],
           aged' \subseteq Messages, entry' \in [Messages -> EntryStates],
           \A m \in Messages : \/ entry'[m] = entry[m]
                               \/ entry[m] \in {"queued", "pending"} /\ entry'[m] = "lost",
           me' \in [Consumers -> LocalState],
           \A d \in Consumers : \/ me'[d] = me[d]
                                \/ me[d].pc \in {"down", "ended"} /\ me'[d] = Idle
    PROVE  IInv'
<1>1. TypeOK'
    BY FaultsTyped DEF IInv, TypeOK
<1>2. Grows
    BY FaultsTyped DEF Grows, IInv, TypeOK
<1>3. \A d \in Consumers :
          \/ me'[d] = me[d]
          \/ /\ me[d].pc \in {"idle", "ack", "down", "ended"} /\ me'[d].pc \in {"idle", "down", "ended"}
             /\ LocalFacts(d)'
    BY DEF Idle, LocalFacts, Working, OnJob, OnTrigger
<1>4. Hands'
    <2>1. ASSUME NEW e \in Events, entry'[<<e, 1>>] = "absent"
          PROVE  entry'[<<e, 2>>] = "absent"
        BY <2>1 DEF IInv, Hands, Messages
    <2>2. \A d \in Consumers : me'[d].batch \subseteq me[d].batch
        BY DEF Idle
    <2>3. ASSUME NEW d \in Consumers, NEW m \in me'[d].batch
          PROVE  entry'[m] \notin {"absent", "queued"} /\ (world.prompt => entry'[m] # "acked")
        <3>1. m \in me[d].batch /\ m \in Messages
            BY <2>2, <2>3 DEF IInv, TypeOK, LocalState
        <3> QED
            BY <3>1 DEF IInv, Hands
    <2> QED
        BY <1>2, <2>1, <2>2, <2>3 DEF Hands, IInv, Grows
<1>5. AckedIsSettled'
    BY <1>1, <1>2, AcksKeep
<1>6. \A e \in Events : entry'[<<e, 2>>] = "absent" <=> entry[<<e, 2>>] = "absent"
    BY DEF Messages
<1>7. Bounds'
    BY <1>1, <1>3, <1>6, FaultsTyped, AsideBounds
<1>8. \A d \in Consumers : world.prompt /\ InSection(d) => Job(d) \in locks'
    BY DEF IInv, Sections
<1> QED
    BY <1>1, <1>2, <1>3, <1>4, <1>5, <1>7, <1>8, Aside

LEMMA VanishKeeps ==
    ASSUME IInv, Vanish
    PROVE  IInv'
<1>1. /\ entry' \in [Messages -> EntryStates] /\ Fault /\ group' \in BOOLEAN /\ aged' \subseteq Messages
      /\ \A m \in Messages : \/ entry'[m] = entry[m]
                             \/ entry[m] \in {"queued", "pending"} /\ entry'[m] = "lost"
      /\ UNCHANGED <<locks, done, status, comment, runs, dispatched, starting, me>>
    BY DEF Vanish, EntryStates, IInv, TypeOK, database, temporal
<1> QED
    BY <1>1, LosesKeep DEF IInv, TypeOK

LEMMA GroupKeeps ==
    ASSUME IInv, NEW c \in Consumers, EnsureGroup(c) \/ Restart(c)
    PROVE  IInv'
<1>1. /\ entry' \in [Messages -> EntryStates] /\ NoFault /\ group' \in BOOLEAN /\ aged' \subseteq Messages
      /\ \A m \in Messages : \/ entry'[m] = entry[m]
                             \/ entry[m] \in {"queued", "pending"} /\ entry'[m] = "lost"
      /\ UNCHANGED <<locks, done, status, comment, runs, dispatched>>
    BY DEF EnsureGroup, Restart, CreateGroup, EntryStates, IInv, TypeOK, database, temporal
<1>2. starting' \in [Consumers -> SUBSET (Jobs \X Nat)]
    BY DEF EnsureGroup, Restart, IInv, TypeOK
<1>3. Idle \in LocalState
    BY DEF Idle, LocalState, Steps
<1>4. me \in [Consumers -> LocalState] /\ (me' = me \/ (me[c].pc \in {"down", "ended"} /\ me' = [me EXCEPT ![c] = Idle]))
    BY DEF EnsureGroup, Restart, IInv, TypeOK
<1>5. /\ me' \in [Consumers -> LocalState]
      /\ \A d \in Consumers : me'[d] = me[d] \/ (me[d].pc \in {"down", "ended"} /\ me'[d] = Idle)
    BY <1>3, <1>4
<1> QED
    BY <1>1, <1>2, <1>5, LosesKeep

\* Ack, and an error of it: what is acknowledged is settled, and no longer in
\* anyone's hands.
LEMMA AckKeeps ==
    ASSUME IInv, NEW c \in Consumers, Ack(c) \/ AckRaises(c)
    PROVE  IInv'
<1>a. /\ me[c].pc = "ack" /\ (NoFault \/ Fault)
      /\ UNCHANGED <<group, aged, locks, done, status, comment, runs, dispatched, starting>>
      /\ me \in [Consumers -> LocalState] /\ me[c] \in LocalState
      /\ entry \in [Messages -> EntryStates]
      /\ entry' = entry \/ entry' = Acked(me[c].msg)
    BY DEF Ack, AckRaises, database, temporal, IInv, TypeOK
<1>b. me' = [me EXCEPT ![c] = Leave(c)] \/ me' = [me EXCEPT ![c] = [Idle EXCEPT !.pc = "ended"]]
    BY DEF Ack, AckRaises
<1>m. me'[c] \in {Leave(c), Idle, [Idle EXCEPT !.pc = "down"], [Idle EXCEPT !.pc = "ended"]}
      /\ \A d \in Consumers \ {c} : me'[d] = me[d]
    BY <1>a, <1>b
<1>l. /\ LocalFacts(c)' /\ me'[c].pc \in {"idle", "down", "ended"}
      /\ me'[c].batch \subseteq me[c].batch \ {me[c].msg} /\ me'[c] \in LocalState
    <2>1. LocalFacts(c)' /\ me'[c].pc \in {"idle", "down", "ended"} /\ me'[c] \in LocalState
        BY <1>a, <1>m, LeavesMessage
    <2>2. me'[c].batch \subseteq me[c].batch \ {me[c].msg}
        BY <1>m DEF Leave, Idle
    <2> QED
        BY <2>1, <2>2
<1>e. me[c].msg \in Messages /\ Event(me[c].msg) \in Events /\ me[c].msg \in me[c].batch
    BY <1>a, InHandTyped DEF Working, IInv, Local, LocalFacts
<1>n. /\ entry' \in [Messages -> EntryStates]
      /\ \A m \in Messages \ {me[c].msg} : entry'[m] = entry[m]
      /\ \/ entry'[me[c].msg] = entry[me[c].msg]
         \/ entry[me[c].msg] = "pending" /\ entry'[me[c].msg] = "acked"
    BY <1>a, <1>e DEF Acked, EntryStates
<1>1. TypeOK'
    <2>1. me' \in [Consumers -> LocalState]
        BY <1>a, <1>b, <1>m, <1>l
    <2> QED
        BY <1>a, <1>n, <2>1, FaultsTyped DEF IInv, TypeOK
<1>2. Grows
    BY <1>a, FaultsTyped DEF Grows, IInv, TypeOK
<1>3. Hands'
    <2>1. ASSUME NEW e \in Events, entry'[<<e, 1>>] = "absent"
          PROVE  entry'[<<e, 2>>] = "absent"
        <3>1. entry[<<e, 2>>] = "absent"
            BY <1>n, <2>1 DEF IInv, Hands, Messages
        <3> QED
            BY <1>n, <3>1 DEF Messages
    <2>2. ASSUME NEW d \in Consumers, NEW m \in me'[d].batch
          PROVE  entry'[m] \notin {"absent", "queued"} /\ (world.prompt => entry'[m] # "acked")
        <3>1. /\ m \in me[d].batch /\ m \in Messages
              /\ d = c => m # me[c].msg
            BY <1>m, <1>l, <2>2 DEF IInv, TypeOK, LocalState
        <3>2. world.prompt => m # me[c].msg
            BY <1>e, <3>1 DEF IInv, Hands
        <3>3. entry[m] \notin {"absent", "queued"} /\ (world.prompt => entry[m] # "acked")
            BY <3>1 DEF IInv, Hands
        <3> QED
            BY <1>n, <3>1, <3>2, <3>3
    <2>3. \A d \in Consumers : me'[d].batch \subseteq me[d].batch
        BY <1>l, <1>m
    <2>4. world' = world
        BY <1>2 DEF Grows
    <2> QED
        BY <2>1, <2>2, <2>3, <2>4 DEF Hands, IInv
<1>4. AckedIsSettled'
    <2>1. Settled(Event(me[c].msg))
        <3>1. me[c].wf \in Workflows \cup {None}
            BY <1>a DEF LocalState
        <3>2. ProgressFacts(c)
            BY DEF IInv, Progress
        <3> QED
            BY <1>a, <1>e, <3>1, <3>2 DEF ProgressFacts, ProgressOn
    <2>2. ASSUME NEW m \in Messages, entry'[m] = "acked"
          PROVE  Settled(Event(m)) /\ Event(m) \in Events
        BY <1>n, <1>e, <2>1, <2>2 DEF IInv, AckedIsSettled, Messages, Event
    <2>3. ASSUME NEW e \in Events, Settled(e)
          PROVE  Settled(e)'
        BY <1>1, <1>2, <2>3, SettledStays DEF IInv
    <2>4. \A m \in Messages : Event(m) \in Events
        BY DEF Messages, Event
    <2> QED
        BY <2>2, <2>3, <2>4 DEF AckedIsSettled
<1>5. \A d \in Consumers :
          \/ me'[d] = me[d]
          \/ /\ me[d].pc \in {"idle", "ack", "down", "ended"} /\ me'[d].pc \in {"idle", "down", "ended"}
             /\ LocalFacts(d)'
    BY <1>a, <1>l, <1>m
<1>6. \A e \in Events : entry'[<<e, 2>>] = "absent" <=> entry[<<e, 2>>] = "absent"
    BY <1>n DEF Messages
<1>7. Bounds'
    BY <1>1, <1>5, <1>6, <1>a, FaultsTyped, AsideBounds
<1>8. \A d \in Consumers : world.prompt /\ InSection(d) => Job(d) \in locks'
    BY <1>a DEF IInv, Sections
<1> QED
    BY <1>1, <1>2, <1>3, <1>4, <1>5, <1>7, <1>8, <1>a, Aside

\* Publish: nobody has a message of an event that is not in the stream.
LEMMA PublishKeeps ==
    ASSUME IInv, NEW e \in Events, Publish(e)
    PROVE  IInv'
<1>a. /\ entry[<<e, 1>>] = "absent" /\ entry[<<e, 2>>] = "absent"
      /\ UNCHANGED <<group, aged, locks, done, status, runs, dispatched, starting, me>>
      /\ entry \in [Messages -> EntryStates] /\ comment \in [Events -> {"running", "failed"}]
      /\ <<e, 1>> \in Messages /\ <<e, 2>> \in Messages
    BY DEF Publish, temporal, IInv, TypeOK, Hands, Messages
<1>b. PICK copies \in SUBSET {1, 2}, returned \in BOOLEAN :
        /\ \/ copies = {1} /\ returned /\ NoFault
           \/ copies = {1, 2} /\ returned /\ Fault
           \/ copies \in {{}, {1}} /\ ~returned /\ Fault
        /\ entry' = [entry EXCEPT
                        ![<<e, 1>>] = IF 1 \in copies THEN "queued" ELSE "lost",
                        ![<<e, 2>>] = IF 2 \in copies THEN "queued" ELSE @]
        /\ comment' = [comment EXCEPT
                        ![e] = IF returned \/ Explicit[e] = None THEN @ ELSE "failed"]
    BY DEF Publish
<1>n. /\ entry' \in [Messages -> EntryStates]
      /\ \A m \in Messages \ {<<e, 1>>, <<e, 2>>} : entry'[m] = entry[m]
      /\ entry'[<<e, 1>>] \in {"queued", "lost"}
      /\ entry'[<<e, 2>>] \in {"queued", "absent"}
      /\ entry'[<<e, 2>>] = "queued" => faults' = faults + 1
    BY <1>a, <1>b DEF EntryStates, Fault
<1>f. NoFault \/ Fault
    BY <1>b
<1>1. TypeOK'
    <2>1. comment' \in [Events -> {"running", "failed"}]
        BY <1>a, <1>b
    <2> QED
        BY <1>a, <1>f, <1>n, <2>1, FaultsTyped DEF IInv, TypeOK
<1>2. Grows
    <2>1. \A f \in Events : comment[f] = "failed" => comment'[f] = "failed"
        BY <1>a, <1>b
    <2> QED
        BY <1>a, <1>f, <2>1, FaultsTyped DEF Grows, IInv, TypeOK
<1>3. ASSUME NEW d \in Consumers, NEW m \in me[d].batch
      PROVE  m \in Messages \ {<<e, 1>>, <<e, 2>>}
    BY <1>a DEF IInv, Hands, TypeOK, LocalState
<1>4. Hands'
    <2>1. ASSUME NEW f \in Events, entry'[<<f, 1>>] = "absent"
          PROVE  entry'[<<f, 2>>] = "absent"
        <3>1. f # e /\ <<f, 1>> \in Messages \ {<<e, 1>>, <<e, 2>>} /\ <<f, 2>> \in Messages \ {<<e, 1>>, <<e, 2>>}
            BY <1>n, <2>1 DEF Messages
        <3> QED
            BY <1>n, <2>1, <3>1 DEF IInv, Hands
    <2> QED
        BY <1>2, <1>3, <1>a, <1>n, <2>1 DEF Hands, IInv, Grows
<1>5. AckedIsSettled'
    <2>1. \A m \in Messages : entry'[m] = "acked" => entry[m] = "acked"
        BY <1>n
    <2> QED
        BY <1>1, <1>2, <2>1, AcksKeep
<1>6. Bounds'
    <2> SUFFICES ASSUME world.prompt, NEW f \in Events, NEW w \in Workflows
                 PROVE  BoundFacts(f, w)'
        BY <1>2 DEF Bounds, Grows
    <2>1. BoundFacts(f, w) /\ dispatched[<<f, w>>] \in Nat /\ faults \in Nat /\ faults' >= faults
          /\ faults' \in Nat
        BY <1>f, FaultsTyped, CaseTriggerConstants DEF IInv, Bounds, TypeOK, Jobs
    <2>2. (Unrecorded(f, w)' <=> Unrecorded(f, w)) /\ \A k \in {1, 2} : Passed(f, w, k)' <=> Passed(f, w, k)
        BY <1>a DEF Unrecorded, Passed, Event
    <2>3. CASE f # e \/ entry'[<<e, 2>>] = "absent"
        <3>1. entry'[<<f, 2>>] = "absent" <=> entry[<<f, 2>>] = "absent"
            BY <1>a, <1>n, <2>3 DEF Messages
        <3> QED
            BY <1>1, <1>a, <2>1, <2>2, <3>1, BoundKeeps DEF IInv
    <2>4. CASE f = e /\ entry'[<<e, 2>>] = "queued"
        <3>1. ~Unrecorded(e, w)
            <4> SUFFICES ASSUME NEW d \in Consumers, me[d].pc = "done", Event(me[d].msg) = e
                         PROVE  FALSE
                BY DEF Unrecorded
            <4>1. me[d].msg \in me[d].batch
                BY DEF IInv, Local, LocalFacts, Working
            <4> QED
                BY <1>3, <4>1 DEF Messages, Event
        <3>2. One(Passed(e, w, 1)) \in {0, 1} /\ One(Passed(e, w, 2)) \in {0, 1}
            BY DEF One
        <3>3. ~Passed(e, w, 1) /\ ~Passed(e, w, 2)
            <4> SUFFICES ASSUME NEW d \in Consumers, NEW k \in {1, 2},
                                me[d].pc \in {"lock", "dispatch"}, me[d].msg = <<e, k>>
                         PROVE  FALSE
                BY DEF Passed
            <4>1. me[d].msg \in me[d].batch
                BY DEF IInv, Local, LocalFacts, Working
            <4> QED
                BY <1>3, <4>1
        <3>4. One(Unrecorded(e, w)) = 0 /\ One(Unrecorded(e, w))' = 0
              /\ One(Passed(e, w, 1))' = 0 /\ One(Passed(e, w, 2))' = 0
              /\ One(Passed(e, w, 1)) = 0 /\ One(Passed(e, w, 2)) = 0
            BY <2>2, <2>4, <3>1, <3>3 DEF One
        <3>5. done' = done /\ dispatched' = dispatched /\ faults' = faults + 1
            BY <1>a, <1>n, <2>4
        <3> QED
            BY <1>a, <2>1, <2>4, <3>4, <3>5 DEF BoundFacts
    <2> QED
        BY <1>n, <2>3, <2>4
<1>8. \A d \in Consumers : world.prompt /\ InSection(d) => Job(d) \in locks'
    BY <1>a DEF IInv, Sections
<1> QED
    BY <1>1, <1>2, <1>4, <1>5, <1>6, <1>8, <1>a, Aside

\* Steps that touch neither the stream nor a consumer.
LEMMA BackgroundKeeps ==
    ASSUME IInv, NoFault \/ Fault, UNCHANGED <<group, entry, done, status, comment, dispatched, me>>,
           aged' \subseteq Messages,
           runs \subseteq runs', runs' \subseteq Jobs \X Nat, locks' \subseteq Jobs,
           starting' \in [Consumers -> SUBSET (Jobs \X Nat)],
           \A d \in Consumers : world.prompt /\ InSection(d) => Job(d) \in locks'
    PROVE  IInv'
<1>1. TypeOK'
    BY FaultsTyped DEF IInv, TypeOK
<1>2. Grows
    BY FaultsTyped DEF Grows, IInv, TypeOK
<1>3. Hands'
    BY <1>1, <1>2, HandsKeep DEF Grows
<1>4. AckedIsSettled'
    BY <1>1, <1>2, AcksKeep
<1>5. Bounds'
    BY <1>1, <1>2, FaultsTyped, AsideBounds DEF Grows
<1> QED
    BY <1>1, <1>2, <1>3, <1>4, <1>5, Aside

LEMMA StartKeeps ==
    ASSUME IInv, NEW c \in Consumers, Start(c)
    PROVE  IInv'
<1>1. PICK r \in starting[c] :
        /\ starting' = [starting EXCEPT ![c] = @ \ {r}]
        /\ \/ runs' = runs \cup {r} /\ NoFault
           \/ UNCHANGED runs /\ Fault
        /\ UNCHANGED <<redis, database, dispatched, me>>
    BY DEF Start
<1>2. /\ starting \in [Consumers -> SUBSET (Jobs \X Nat)] /\ runs \subseteq Jobs \X Nat
      /\ locks \subseteq Jobs /\ aged \subseteq Messages
    BY DEF IInv, TypeOK
<1>3. starting' \in [Consumers -> SUBSET (Jobs \X Nat)] /\ runs \subseteq runs' /\ runs' \subseteq Jobs \X Nat
    BY <1>1, <1>2
<1>4. UNCHANGED <<group, entry, aged, locks, done, status, comment, dispatched, me>> /\ (NoFault \/ Fault)
    BY <1>1 DEF redis, database
<1>5. \A d \in Consumers : world.prompt /\ InSection(d) => Job(d) \in locks'
    BY <1>4 DEF IInv, Sections
<1> QED
    BY <1>2, <1>3, <1>4, <1>5, BackgroundKeeps

LEMMA ExpireLockKeeps ==
    ASSUME IInv, NEW j \in Jobs, ExpireLock(j)
    PROVE  IInv'
<1>1. /\ UNCHANGED <<group, entry, aged, done, status, comment, runs, dispatched, starting, me>> /\ NoFault
      /\ locks' = locks \ {j} /\ Expirable(j)
    BY DEF ExpireLock, database, temporal
<1>2. \A d \in Consumers : world.prompt /\ InSection(d) => Job(d) \in locks'
    BY <1>1 DEF IInv, Sections, Expirable
<1> QED
    BY <1>1, <1>2, BackgroundKeeps DEF IInv, TypeOK

LEMMA GrowIdleKeeps ==
    ASSUME IInv, NEW m \in Messages, GrowIdle(m)
    PROVE  IInv'
<1>1. /\ UNCHANGED <<group, entry, locks, done, status, comment, runs, dispatched, starting, me>>
      /\ NoFault /\ aged' \subseteq Messages
    BY DEF GrowIdle, database, temporal, IInv, TypeOK
<1>2. \A d \in Consumers : world.prompt /\ InSection(d) => Job(d) \in locks'
    BY <1>1 DEF IInv, Sections
<1> QED
    BY <1>1, <1>2, BackgroundKeeps DEF IInv, TypeOK

\* ExpireDone: the fault pays for the dispatches that may follow.
LEMMA ExpireDoneKeeps ==
    ASSUME IInv, ExpireDone
    PROVE  IInv'
<1>a. PICK j \in done : Fault /\ done' = done \ {j}
                        /\ UNCHANGED <<group, entry, aged, locks, status, comment, runs, dispatched, starting, me>>
    BY DEF ExpireDone, database, temporal
<1>1. TypeOK'
    BY <1>a, FaultsTyped DEF IInv, TypeOK
<1>2. Grows
    BY <1>a, FaultsTyped DEF Grows, IInv, TypeOK
<1>3. Hands'
    BY <1>1, <1>2, <1>a, HandsKeep DEF Grows
<1>4. AckedIsSettled'
    BY <1>1, <1>2, <1>a, AcksKeep
<1>5. Bounds'
    <2> SUFFICES ASSUME world.prompt, NEW e \in Events, NEW w \in Workflows
                 PROVE  BoundFacts(e, w)'
        BY <1>2 DEF Bounds, Grows
    <2>1. /\ BoundFacts(e, w) /\ dispatched[<<e, w>>] \in Nat /\ faults \in Nat
          /\ faults' = faults + 1 /\ entry' = entry /\ dispatched' = dispatched
        BY <1>a, CaseTriggerConstants DEF IInv, Bounds, TypeOK, Jobs, Fault
    <2>2. (Unrecorded(e, w)' <=> Unrecorded(e, w)) /\ \A k \in {1, 2} : Passed(e, w, k)' <=> Passed(e, w, k)
        BY <1>a DEF Unrecorded, Passed, Event
    <2>3. CASE <<e, w>> \in done' <=> <<e, w>> \in done
        BY <1>1, <2>1, <2>2, <2>3, BoundKeeps DEF IInv
    <2>4. CASE <<e, w>> \in done /\ <<e, w>> \notin done'
        <3>1. /\ One(Passed(e, w, 1)) \in {0, 1} /\ One(Passed(e, w, 2)) \in {0, 1}
              /\ One(Unrecorded(e, w))' \in {0, 1}
            BY DEF One
        <3> QED
            BY <2>1, <2>4, <3>1 DEF BoundFacts
    <2> QED
        BY <1>a, <2>3, <2>4
<1>6. \A d \in Consumers : world.prompt /\ InSection(d) => Job(d) \in locks'
    BY <1>a DEF IInv, Sections
<1> QED
    BY <1>1, <1>2, <1>3, <1>4, <1>5, <1>6, <1>a, Aside

LEMMA StutterKeeps ==
    ASSUME IInv, UNCHANGED vars
    PROVE  IInv'
<1>1. /\ UNCHANGED <<group, entry, aged, locks, done, status, comment, runs, dispatched, starting, me>>
      /\ NoFault
    BY DEF vars, redis, database, temporal, NoFault
<1>2. \A d \in Consumers : world.prompt /\ InSection(d) => Job(d) \in locks'
    BY <1>1 DEF IInv, Sections
<1> QED
    BY <1>1, <1>2, BackgroundKeeps DEF IInv, TypeOK

-----------------------------------------------------------------------------
(* The invariant holds at the beginning, and every step keeps it.          *)

LEMMA InitInv == Init => IInv
<1> SUFFICES ASSUME Init PROVE IInv
    OBVIOUS
<1> USE DEF Init
<1>1. TypeOK
    <2>1. Idle \in LocalState
        BY DEF Idle, LocalState, Steps
    <2> QED
        BY <2>1, CaseTriggerConstants DEF TypeOK, EntryStates
<1>2. \A c \in Consumers : me[c].pc = "idle" /\ me[c].batch = {} /\ me[c].offline = {}
    BY DEF Idle
<1>3. Local
    BY <1>2 DEF Local, LocalFacts, Working, OnJob, OnTrigger
<1>4. Progress
    BY <1>2 DEF Progress, ProgressFacts, ProgressOn, OnJob, OnTrigger
<1>5. OfflineUnusable /\ DoneSettled /\ AckedIsSettled
    BY DEF OfflineUnusable, DoneSettled, AckedIsSettled
<1>6. Hands
    BY <1>2 DEF Hands, Messages
<1>7. Sections
    BY <1>2 DEF Sections, InSection
<1>8. Bounds
    <2> SUFFICES ASSUME NEW e \in Events, NEW w \in Workflows
                 PROVE  BoundFacts(e, w)
        BY DEF Bounds
    <2>1. dispatched[<<e, w>>] = 0 /\ entry[<<e, 2>>] = "absent" /\ <<e, w>> \notin done
        BY DEF Jobs, Messages
    <2>2. One(Unrecorded(e, w)) \in {0, 1}
        BY DEF One
    <2> QED
        BY <2>1, <2>2 DEF BoundFacts
<1> QED
    BY <1>1, <1>3, <1>4, <1>5, <1>6, <1>7, <1>8 DEF IInv

LEMMA StepKeeps == IInv /\ [Next]_vars => IInv'
<1> SUFFICES ASSUME IInv, [Next]_vars PROVE IInv'
    OBVIOUS
<1>1. CASE \E e \in Events : Publish(e)
    BY <1>1, PublishKeeps
<1>2. ASSUME NEW c \in Consumers, ConsumerStep(c)
      PROVE  IInv'
    BY <1>2, ReadKeeps, GroupKeeps, ClaimKeeps, HandleKeeps, BeginKeeps, LoadConfiguredKeeps,
       NextTriggerKeeps, ExistsKeeps, LockKeeps, DispatchConfiguredKeeps, DispatchExplicitKeeps,
       CommitExplicitKeeps, SetDoneKeeps, UnlockKeeps, CommitKeeps, AckKeeps DEF ConsumerStep
<1>3. ASSUME NEW c \in Consumers, ConsumerFault(c) \/ Start(c) \/ Restart(c)
      PROVE  IInv'
    BY <1>3, DispatchRaisesKeeps, RaiseKeeps, AckKeeps, StartKeeps, GroupKeeps DEF ConsumerFault
<1>4. CASE Vanish \/ ExpireDone \/ \E j \in Jobs : ExpireLock(j)
    BY <1>4, VanishKeeps, ExpireDoneKeeps, ExpireLockKeeps
<1>5. CASE \E m \in Messages : GrowIdle(m)
    BY <1>5, GrowIdleKeeps
<1>6. CASE Quiet \/ UNCHANGED vars
    BY <1>6, StutterKeeps DEF Quiet
<1> QED
    BY <1>1, <1>2, <1>3, <1>4, <1>5, <1>6 DEF Next

\* The inductive invariant holds in every behaviour, whatever fails.
THEOREM Invariance == Spec => []IInv
BY InitInv, StepKeeps, PTL DEF Spec

\* Every variable keeps its type (CaseTriggerConsumer).
THEOREM Typed == Spec => []TypeOK
BY Invariance, PTL DEF IInv

\* At-least-once: whatever fails, crashes, expires or is claimed, a message is
\* acknowledged only when everything its event asks for was asked for.
THEOREM AcknowledgedIsSettled == Spec => []AckedIsSettled
BY Invariance, PTL DEF IInv

\* With prompt consumers every extra dispatch of a workflow for an event is
\* paid for by faults.
THEOREM DuplicatesBounded == Spec => []DuplicatesNeedFaults
<1>1. IInv => DuplicatesNeedFaults
    <2> SUFFICES ASSUME IInv, world.prompt, NEW e \in Events, NEW w \in Workflows
                 PROVE  dispatched[<<e, w>>] <=
                            IF entry[<<e, 2>>] = "absent" THEN 1 + faults ELSE 2 * faults
        BY DEF DuplicatesNeedFaults
    <2>1. BoundFacts(e, w) /\ dispatched[<<e, w>>] \in Nat /\ faults \in Nat
        BY CaseTriggerConstants DEF IInv, Bounds, TypeOK, Jobs
    <2>2. /\ One(Passed(e, w, 1)) \in {0, 1} /\ One(Passed(e, w, 2)) \in {0, 1}
          /\ One(Unrecorded(e, w)) \in {0, 1}
        BY DEF One
    <2> QED
        BY <2>1, <2>2 DEF BoundFacts
<1> QED
    BY <1>1, Invariance, PTL

-----------------------------------------------------------------------------
(* The refinement of CaseEventDelivery.                                    *)

\* The state of an event whose entries are at a and b.
StateOf(a, b) ==
    CASE {a, b} \cap {"queued", "pending"} # {} -> "owed"
      [] {a, b} = {"absent"} -> "new"
      [] "lost" \in {a, b} /\ {a, b} \cap {"queued", "pending"} = {} -> "void"
      [] OTHER -> "settled"

LEMMA StateCases ==
    ASSUME NEW a \in EntryStates, NEW b \in EntryStates
    PROVE  /\ a \in {"queued", "pending"} \/ b \in {"queued", "pending"} => StateOf(a, b) = "owed"
           /\ a = "absent" /\ b = "absent" => StateOf(a, b) = "new"
           /\ a \notin {"queued", "pending"} /\ b \notin {"queued", "pending"} /\ (a = "lost" \/ b = "lost")
                  => StateOf(a, b) = "void"
           /\ a \notin {"queued", "pending", "lost"} /\ b \notin {"queued", "pending", "lost"}
                  /\ (a = "acked" \/ b = "acked") => StateOf(a, b) = "settled"
<1>1. CASE a \in {"queued", "pending"} \/ b \in {"queued", "pending"}
    <2>1. {a, b} \cap {"queued", "pending"} # {} /\ {a, b} # {"absent"}
        BY <1>1
    <2> QED
        BY <1>1, <2>1 DEF StateOf
<1>2. CASE a = "absent" /\ b = "absent"
    <2>1. {a, b} = {"absent"} /\ {a, b} \cap {"queued", "pending"} = {} /\ "lost" \notin {a, b}
        BY <1>2
    <2> QED
        BY <1>2, <2>1 DEF StateOf
<1>3. CASE a \notin {"queued", "pending"} /\ b \notin {"queued", "pending"} /\ (a = "lost" \/ b = "lost")
    <2>1. {a, b} # {"absent"} /\ {a, b} \cap {"queued", "pending"} = {} /\ "lost" \in {a, b}
        BY <1>3
    <2> QED
        BY <1>3, <2>1 DEF StateOf
<1>4. CASE a \notin {"queued", "pending", "lost"} /\ b \notin {"queued", "pending", "lost"}
           /\ (a = "acked" \/ b = "acked")
    <2>1. {a, b} # {"absent"} /\ {a, b} \cap {"queued", "pending"} = {} /\ "lost" \notin {a, b}
        BY <1>4
    <2> QED
        BY <1>4, <2>1 DEF StateOf
<1> QED
    BY <1>1, <1>2, <1>3, <1>4 DEF EntryStates

LEMMA StatesAre ==
    ASSUME IInv, IInv'
    PROVE  /\ \A e \in Events :
                  /\ DeliveryState(e) = StateOf(entry[<<e, 1>>], entry[<<e, 2>>])
                  /\ DeliveryState(e)' = StateOf(entry'[<<e, 1>>], entry'[<<e, 2>>])
                  /\ entry[<<e, 1>>] \in EntryStates /\ entry[<<e, 2>>] \in EntryStates
                  /\ entry'[<<e, 1>>] \in EntryStates /\ entry'[<<e, 2>>] \in EntryStates
                  /\ <<e, 1>> \in Messages /\ <<e, 2>> \in Messages
           /\ entry' = entry => \A e \in Events : DeliveryState(e)' = DeliveryState(e)
BY DEF DeliveryState, StateOf, IInv, TypeOK, Messages

Wants == [e \in Events |-> Wanted(e)]
States == [e \in Events |-> DeliveryState(e)]

\* The world never changes, and with it what events want.
LEMMA WantsSame ==
    ASSUME world' = world
    PROVE  Wants' = Wants /\ world'.prompt = world.prompt
BY DEF Wants, Wanted, Matches, MatchingTypes

\* A step that dispatches nothing and at most forgets events.
LEMMA ForgetStep ==
    ASSUME dispatched' = dispatched, world' = world,
           \A e \in Events : \/ DeliveryState(e)' = DeliveryState(e)
                             \/ DeliveryState(e) = "owed" /\ DeliveryState(e)' = "void"
    PROVE  Delivery!DeliveryNext
<1> DEFINE es == {e \in Events : DeliveryState(e)' # DeliveryState(e)}
<1>1. States' = [e \in Events |-> IF e \in es /\ States[e] = "owed" THEN "void" ELSE States[e]]
    <2>1. States' = [e \in Events |-> DeliveryState(e)']
        BY DEF States
    <2>2. \A e \in Events : DeliveryState(e)' =
                                IF e \in es /\ States[e] = "owed" THEN "void" ELSE States[e]
        BY DEF States
    <2> HIDE DEF es
    <2> QED
        BY <2>1, <2>2
<1>2. Wants' = Wants /\ world'.prompt = world.prompt
    BY WantsSame
<1>3. es \in SUBSET Events
    OBVIOUS
<1>4. Delivery!Forget(es)
    <2> HIDE DEF es
    <2> QED
        BY <1>1, <1>2 DEF Delivery!Forget, States, Wants
<1> QED
    BY <1>3, <1>4 DEF Delivery!DeliveryNext

\* A step that only moves one event to another state.
LEMMA OneState ==
    ASSUME NEW e \in Events, NEW s, DeliveryState(e)' = s, dispatched' = dispatched, world' = world,
           \A f \in Events \ {e} : DeliveryState(f)' = DeliveryState(f)
    PROVE  Delivery!Become(e, s)
<1>1. States' = [States EXCEPT ![e] = s]
    <2>1. States' = [f \in Events |-> DeliveryState(f)']
        BY DEF States
    <2> QED
        BY <2>1 DEF States
<1>2. Wants' = Wants /\ world'.prompt = world.prompt
    BY WantsSame
<1> QED
    BY <1>1, <1>2 DEF Delivery!Become, States, Wants

LEMMA PublishImplements ==
    ASSUME IInv, IInv', NEW e \in Events, Publish(e)
    PROVE  Delivery!DeliveryNext
<1>1. /\ entry[<<e, 1>>] = "absent" /\ entry[<<e, 2>>] = "absent"
      /\ dispatched' = dispatched /\ world' = world
      /\ entry'[<<e, 1>>] \in {"queued", "lost"}
      /\ entry'[<<e, 2>>] \in {"queued", "absent"}
      /\ \A m \in Messages \ {<<e, 1>>, <<e, 2>>} : entry'[m] = entry[m]
    BY DEF Publish, temporal, Fault, NoFault, IInv, TypeOK, Hands, Messages
<1>2. DeliveryState(e) = "new" /\ DeliveryState(e)' \in {"owed", "void"}
    BY <1>1, StatesAre, StateCases
<1>3. ASSUME NEW f \in Events \ {e}
      PROVE  DeliveryState(f)' = DeliveryState(f)
    BY <1>1, <1>3, StatesAre
<1>4. \E s \in {"owed", "void"} : Delivery!Become(e, s)
    BY <1>1, <1>2, <1>3, OneState
<1>5. Delivery!PublishEvent(e)
    BY <1>2, <1>4 DEF Delivery!PublishEvent
<1> QED
    BY <1>5 DEF Delivery!DeliveryNext

LEMMA AckImplements ==
    ASSUME IInv, IInv', NEW c \in Consumers, Ack(c) \/ AckRaises(c)
    PROVE  Delivery!DeliveryNext
<1>a. /\ me[c].pc = "ack" /\ dispatched' = dispatched /\ world' = world
      /\ entry \in [Messages -> EntryStates]
      /\ entry' = entry \/ entry' = Acked(me[c].msg)
    BY DEF Ack, AckRaises, temporal, Fault, NoFault, IInv, TypeOK
<1>e. me[c].msg \in Messages /\ Event(me[c].msg) \in Events
    BY <1>a, InHandTyped DEF Working
<1>1. CASE entry' = entry
    BY <1>a, <1>1, StatesAre, ForgetStep
<1>2. CASE entry' # entry
    <2>0. PICK e \in Events, k \in {1, 2} : me[c].msg = <<e, k>>
        BY <1>e DEF Messages
    <2>1. /\ entry[<<e, k>>] = "pending" /\ entry'[<<e, k>>] = "acked"
          /\ \A m \in Messages \ {<<e, k>>} : entry'[m] = entry[m]
        BY <1>2, <1>a, <1>e, <2>0 DEF Acked
    <2>s. /\ DeliveryState(e) = StateOf(entry[<<e, 1>>], entry[<<e, 2>>])
          /\ DeliveryState(e)' = StateOf(entry'[<<e, 1>>], entry'[<<e, 2>>])
          /\ entry[<<e, 1>>] \in EntryStates /\ entry[<<e, 2>>] \in EntryStates
          /\ entry'[<<e, 1>>] \in EntryStates /\ entry'[<<e, 2>>] \in EntryStates
        BY StatesAre
    <2>t. \/ entry[<<e, 1>>] = "pending" /\ entry'[<<e, 1>>] = "acked"
          \/ entry[<<e, 2>>] = "pending" /\ entry'[<<e, 2>>] = "acked"
        BY <2>0, <2>1
    <2>2. DeliveryState(e) = "owed"
        BY <2>s, <2>t, StateCases
    <2>3. ASSUME NEW f \in Events \ {e}
          PROVE  DeliveryState(f)' = DeliveryState(f)
        BY <2>1, <2>3, StatesAre
    <2>4. DeliveryState(e)' \in {"owed", "void", "settled"}
        BY <2>s, <2>t, StateCases DEF EntryStates
    <2>5. CASE DeliveryState(e)' \in {"owed", "void"}
        BY <1>a, <2>2, <2>3, <2>5, ForgetStep
    <2>6. CASE DeliveryState(e)' = "settled"
        <3>1. \A w \in Wanted(e) : dispatched[<<e, w>>] > 0
            <4>1. ProgressFacts(c) /\ me[c].wf \in Workflows \cup {None} /\ Event(me[c].msg) = e
                BY <2>0 DEF IInv, Progress, TypeOK, LocalState, Event
            <4> QED
                BY <1>a, <4>1 DEF ProgressFacts, ProgressOn, Settled
        <3>2. Delivery!Become(e, "settled")
            BY <1>a, <2>3, <2>6, OneState
        <3>3. Delivery!Settle(e)
            BY <2>2, <3>1, <3>2 DEF Delivery!Settle
        <3> QED
            BY <3>3 DEF Delivery!DeliveryNext
    <2> QED
        BY <2>4, <2>5, <2>6
<1> QED
    BY <1>1, <1>2

\* A dispatch is one of a workflow the event wants, and of an event that is
\* not settled if consumers are prompt.
LEMMA DispatchImplements ==
    ASSUME IInv, IInv', NEW c \in Consumers, DispatchConfigured(c)
    PROVE  Delivery!DeliveryNext
<1>0. PICK e \in Events, w \in Workflows :
          /\ Event(me[c].msg) = e /\ me[c].wf = w /\ Job(c) = <<e, w>>
          /\ ProgressOn(c, e, w) /\ LocalFacts(c) /\ me[c] \in LocalState
    BY JobTyped DEF OnJob, DispatchConfigured
<1>a. /\ me[c].pc = "dispatch" /\ OnTrigger(c) /\ Working(c)
      /\ entry' = entry /\ world' = world
      /\ \/ dispatched' = dispatched
         \/ /\ world.definition[w] = "valid"
            /\ dispatched' = [dispatched EXCEPT ![<<e, w>>] = @ + 1]
    BY <1>0 DEF DispatchConfigured, OnJob, OnTrigger, Working, NoFault, redis
<1>s. \A f \in Events : DeliveryState(f)' = DeliveryState(f)
    BY <1>a, StatesAre
<1>1. CASE dispatched' = dispatched
    BY <1>1, <1>a, <1>s, ForgetStep
<1>2. CASE world.definition[w] = "valid" /\ dispatched' = [dispatched EXCEPT ![<<e, w>>] = @ + 1]
    <2>1. w \in Wanted(e)
        BY <1>0, <1>2, <1>a DEF LocalFacts, Fired, Wanted
    <2>2. PICK k \in {1, 2} : me[c].msg = <<e, k>> /\ <<e, k>> \in me[c].batch
        BY <1>0, <1>a, InHandTyped DEF LocalFacts, Messages, Event
    <2>3. /\ entry[<<e, k>>] \notin {"absent", "queued"} /\ (world.prompt => entry[<<e, k>>] # "acked")
          /\ entry[<<e, 1>>] # "absent"
        BY <2>2 DEF IInv, Hands
    <2>4. DeliveryState(e) # "new" /\ (world.prompt => DeliveryState(e) # "settled")
        <3>1. entry[<<e, 1>>] \in EntryStates /\ entry[<<e, 2>>] \in EntryStates
              /\ DeliveryState(e) = StateOf(entry[<<e, 1>>], entry[<<e, 2>>])
            BY StatesAre
        <3> QED
            BY <2>3, <3>1, StateCases DEF EntryStates
    <2>5. States' = States
        BY <1>s DEF States
    <2>6. Wants' = Wants /\ world'.prompt = world.prompt
        BY <1>a, WantsSame
    <2>7. Delivery!DispatchFor(e, w)
        BY <1>2, <2>1, <2>4, <2>5, <2>6 DEF Delivery!DispatchFor, States, Wants
    <2> QED
        BY <2>7 DEF Delivery!DeliveryNext
<1> QED
    BY <1>1, <1>2, <1>a

\* Deliveries and losses.
LEMMA StreamImplements ==
    ASSUME IInv, IInv', dispatched' = dispatched, world' = world,
           \A m \in Messages :
               \/ entry'[m] = entry[m]
               \/ entry[m] \in {"queued", "pending"} /\ entry'[m] \in {"pending", "lost"}
    PROVE  Delivery!DeliveryNext
<1>1. ASSUME NEW e \in Events
      PROVE  \/ DeliveryState(e)' = DeliveryState(e)
             \/ DeliveryState(e) = "owed" /\ DeliveryState(e)' = "void"
    <2>1. CASE entry'[<<e, 1>>] = entry[<<e, 1>>] /\ entry'[<<e, 2>>] = entry[<<e, 2>>]
        BY <2>1, StatesAre
    <2>2. CASE ~(entry'[<<e, 1>>] = entry[<<e, 1>>] /\ entry'[<<e, 2>>] = entry[<<e, 2>>])
        <3>1. /\ entry[<<e, 1>>] \in {"queued", "pending"} \/ entry[<<e, 2>>] \in {"queued", "pending"}
              /\ \/ entry'[<<e, 1>>] \in {"pending", "lost"}
                 \/ entry'[<<e, 2>>] \in {"pending", "lost"}
            BY <2>2, StatesAre
        <3>2. DeliveryState(e) = "owed"
            BY <3>1, StatesAre, StateCases
        <3>3. DeliveryState(e)' \in {"owed", "void"}
            BY <3>1, StatesAre, StateCases
        <3> QED
            BY <3>2, <3>3
    <2> QED
        BY <2>1, <2>2
<1> QED
    BY <1>1, ForgetStep

LEMMA StepImplements ==
    IInv /\ IInv' /\ [Next]_vars => Delivery!DeliveryNext
<1> SUFFICES ASSUME IInv, IInv', [Next]_vars PROVE Delivery!DeliveryNext
    OBVIOUS
<1>0. ASSUME entry' = entry, dispatched' = dispatched, world' = world
      PROVE  Delivery!DeliveryNext
    BY <1>0, StreamImplements
<1>1. CASE \E e \in Events : Publish(e)
    BY <1>1, PublishImplements
<1>2. ASSUME NEW c \in Consumers, ConsumerStep(c)
      PROVE  Delivery!DeliveryNext
    <2>1. ASSUME NEW ms, Receive(c, ms), \A m \in ms : entry[m] \in {"queued", "pending"}
          PROVE  Delivery!DeliveryNext
        <3>1. /\ dispatched' = dispatched /\ world' = world
              /\ \A m \in Messages :
                   \/ entry'[m] = entry[m]
                   \/ entry[m] \in {"queued", "pending"} /\ entry'[m] \in {"pending", "lost"}
            BY <2>1 DEF Receive, Deliver, temporal, NoFault, Fault
        <3> QED
            BY <3>1, StreamImplements
    <2>2. CASE Read(c)
        <3>1. Receive(c, Oldest(Queued, Batch)) /\ \A m \in Oldest(Queued, Batch) : entry[m] = "queued"
            BY <2>2 DEF Read, Oldest, Queued
        <3> QED
            BY <2>1, <3>1
    <2>3. CASE ClaimIdleMessages(c)
        <3>1. Receive(c, Offered) /\ \A m \in Offered : entry[m] = "pending"
            BY <2>3 DEF ClaimIdleMessages, Offered, Oldest, Claimable, Unattended
        <3> QED
            BY <2>1, <3>1
    <2>4. CASE EnsureGroup(c)
        BY <2>4, StreamImplements DEF EnsureGroup, CreateGroup, temporal, NoFault
    <2>5. CASE Ack(c)
        BY <2>5, AckImplements
    <2>6. CASE DispatchConfigured(c)
        BY <2>6, DispatchImplements
    <2>7. CASE Handle(c) \/ Begin(c) \/ LoadConfigured(c) \/ NextTrigger(c) \/ Exists(c)
        BY <1>0, <2>7 DEF Handle, Begin, LoadConfigured, NextTrigger, Exists, NoFault, redis, temporal
    <2>8. CASE Lock(c) \/ SetDone(c) \/ Unlock(c) \/ Commit(c)
        BY <1>0, <2>8 DEF Lock, SetDone, Unlock, Commit, Fault, NoFault, redis, temporal
    <2>9. CASE DispatchExplicit(c) \/ CommitExplicit(c)
        BY <1>0, <2>9 DEF DispatchExplicit, CommitExplicit, Fault, NoFault, redis, temporal
    <2> QED
        BY <1>2, <2>2, <2>3, <2>4, <2>5, <2>6, <2>7, <2>8, <2>9 DEF ConsumerStep
<1>3. ASSUME NEW c \in Consumers, ConsumerFault(c) \/ Start(c) \/ Restart(c)
      PROVE  Delivery!DeliveryNext
    <2>1. CASE AckRaises(c)
        BY <2>1, AckImplements
    <2>2. CASE DispatchRaises(c) \/ Raise(c) \/ RunRaises(c) \/ Crash(c)
        BY <1>0, <2>2 DEF DispatchRaises, Raise, RunRaises, Crash, Fault, redis, temporal
    <2>3. CASE Start(c)
        BY <1>0, <2>3 DEF Start, Fault, NoFault, redis
    <2>4. CASE Restart(c)
        BY <2>4, StreamImplements DEF Restart, CreateGroup, temporal, NoFault
    <2> QED
        BY <1>3, <2>1, <2>2, <2>3, <2>4 DEF ConsumerFault
<1>4. CASE Vanish
    BY <1>4, StreamImplements DEF Vanish, temporal, Fault
<1>5. CASE ExpireDone
    BY <1>0, <1>5 DEF ExpireDone, temporal, Fault
<1>6. CASE \E j \in Jobs : ExpireLock(j)
    BY <1>0, <1>6 DEF ExpireLock, temporal, NoFault
<1>7. CASE \E m \in Messages : GrowIdle(m)
    BY <1>0, <1>7 DEF GrowIdle, temporal, NoFault
<1>8. CASE Quiet \/ UNCHANGED vars
    BY <1>0, <1>8 DEF Quiet, vars, redis, temporal
<1> QED
    BY <1>1, <1>2, <1>3, <1>4, <1>5, <1>6, <1>7, <1>8 DEF Next

LEMMA InitImplements == Init => Delivery!DeliveryInit
<1> SUFFICES ASSUME Init PROVE Delivery!DeliveryInit
    OBVIOUS
<1>1. ASSUME NEW e \in Events
      PROVE  DeliveryState(e) = "new" /\ Wanted(e) \in SUBSET Workflows
    <2>1. DeliveryState(e) = StateOf("absent", "absent")
        BY DEF Init, Messages, DeliveryState, StateOf
    <2>2. Wanted(e) \in SUBSET Workflows
        BY DEF Wanted
    <2> QED
        BY <2>1, <2>2, StateCases DEF EntryStates
<1>2. States = [e \in Events |-> "new"] /\ Wants \in [Events -> SUBSET Workflows]
    BY <1>1 DEF States, Wants
<1>3. world.prompt \in BOOLEAN /\ dispatched = [j \in Events \X Workflows |-> 0]
    BY CaseTriggerConstants DEF Init, Jobs
<1> QED
    BY <1>2, <1>3 DEF Delivery!DeliveryInit, States, Wants

\* Stream, group, locks and keys implement the delivery that the abstract
\* specification promises, step by step.
THEOREM Implements == Spec => ImplementsDelivery
<1>1. IInv /\ IInv' /\ [Next]_vars => [Delivery!DeliveryNext]_(Delivery!deliveryVars)
    BY StepImplements
<1> QED
    BY <1>1, InitImplements, Invariance, PTL DEF Spec, ImplementsDelivery, Delivery!DeliverySpec

=============================================================================

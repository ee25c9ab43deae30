---------------------- MODULE WorkflowSchedules_proofs ----------------------
(***************************************************************************)
(* Proofs about WorkflowSchedules, for every set of schedules, every set   *)
(* of update bodies and any number of requests and faults: rows and        *)
(* Temporal schedules agree, and no schedule is orphaned.                  *)
(***************************************************************************)
EXTENDS WorkflowSchedules, TLAPS

\* No Temporal schedule has both specifiers.
NoDouble == \A s \in Schedules : temporal[s] # None => ~(temporal[s].cron /\ temporal[s].every)

\* What holds of s while nothing of it is under way.
Agrees(s) ==
    /\ row[s] = None => temporal[s] = None
    /\ row[s] # None /\ s \notin careless => temporal[s] = SpecOf(row[s])

\* What a callback of s still has to do, given its row.
Owes(s, c) ==
    /\ c.op = "create" => row[s] = c.arg
    /\ c.op = "update" => row[s] # None
    /\ c.op = "update" /\ s \notin careless =>
           /\ temporal[s] # None /\ ~c.arg.inputs
           /\ Respec(temporal[s], c.arg) = SpecOf(row[s])
    /\ c.op = "delete" => row[s] = None

\* A schedule whose requests waited has at most one callback, and none while
\* the workflow is being deleted; what is no longer listed is gone by then.
Orderly(s) ==
    /\ Settled(s) => Agrees(s)
    /\ \A c \in callbacks : c.id = s => Owes(s, c) /\ deleting = None
    /\ \A c, d \in callbacks : c.id = s /\ d.id = s => c = d
    /\ deleting # None => s \in deleting \/ temporal[s] = None

IInv ==
    /\ TypeOK
    /\ NoDouble
    /\ \A s \in Schedules \ hasty : Orderly(s)
    /\ ~exists => \A s \in Schedules : row[s] = None
    /\ Rows \subseteq used

-----------------------------------------------------------------------------
(* How the two sides read a body.                                          *)

\* A body's fields.
LEMMA BodyTyped ==
    ASSUME NEW u \in Updates
    PROVE  /\ u.cron \in {TRUE, FALSE, None} /\ u.every \in {TRUE, FALSE, None}
           /\ u.status \in Statuses \cup {None} /\ u.inputs \in BOOLEAN
           /\ None \notin BOOLEAN /\ None \notin Statuses /\ None \notin Row
BY ScheduleConstants DEF UpdateBodies

\* An update of a Temporal schedule never leaves both specifiers.
LEMMA RespecSingle ==
    ASSUME NEW t \in Row, ~(t.cron /\ t.every), NEW u \in Updates
    PROVE  Respec(t, u) \in Row /\ ~(Respec(t, u).cron /\ Respec(t, u).every)
<1>0. t.cron \in BOOLEAN /\ t.every \in BOOLEAN /\ t.status \in Statuses
    BY DEF Row
<1>s. Set(u.status, t.status) \in Statuses
    BY <1>0, BodyTyped DEF Set
<1>1. CASE u.cron = TRUE
    <2>1. Respec(t, u) = [cron |-> TRUE, every |-> FALSE, status |-> Set(u.status, t.status)]
        BY <1>1, BodyTyped DEF Respec, Set
    <2> QED
        BY <1>s, <2>1 DEF Row
<1>2. CASE u.cron # TRUE /\ u.every = TRUE
    <2>1. Respec(t, u) = [cron |-> FALSE, every |-> TRUE, status |-> Set(u.status, t.status)]
        BY <1>2, BodyTyped DEF Respec, Set
    <2> QED
        BY <1>s, <2>1 DEF Row
<1>3. CASE u.cron # TRUE /\ u.every = FALSE
    <2>1. Respec(t, u) = [cron |-> Set(u.cron, t.cron), every |-> FALSE, status |-> Set(u.status, t.status)]
        BY <1>3, BodyTyped DEF Respec, Set
    <2>2. Set(u.cron, t.cron) \in BOOLEAN
        BY <1>0, BodyTyped DEF Set
    <2> QED
        BY <1>s, <2>1, <2>2 DEF Row
<1>4. CASE u.cron = FALSE /\ u.every = None
    <2>1. Respec(t, u) = [cron |-> FALSE, every |-> t.every, status |-> Set(u.status, t.status)]
        BY <1>0, <1>4, BodyTyped DEF Respec, Set
    <2> QED
        BY <1>0, <1>s, <2>1 DEF Row
<1>5. CASE u.cron = None /\ u.every = None
    <2>1. Respec(t, u) = [cron |-> t.cron, every |-> t.every, status |-> Set(u.status, t.status)]
        BY <1>0, <1>5, BodyTyped DEF Respec, Set
    <2> QED
        BY <1>0, <1>s, <2>1 DEF Row
<1> QED
    BY <1>1, <1>2, <1>3, <1>4, <1>5, BodyTyped

\* The row and the schedule made from it, changed by rules of their own,
\* agree if the body is careful.
LEMMA CarefulAgrees ==
    ASSUME NEW r \in Row, NEW u \in Updates, Careful(u)
    PROVE  Respec(SpecOf(r), u) = SpecOf(Changed(r, u))
<1>0. r.cron \in BOOLEAN /\ r.every \in BOOLEAN
    BY DEF Row
<1> DEFINE st == Set(u.status, r.status)
<1>1. CASE u.cron = None /\ u.every = None
    <2>1. SpecOf(Changed(r, u)) = [cron |-> r.cron, every |-> ~r.cron /\ r.every, status |-> st]
        BY <1>1 DEF SpecOf, Changed, Set
    <2>2. Respec(SpecOf(r), u) = [cron |-> r.cron, every |-> ~r.cron /\ r.every, status |-> st]
        BY <1>0, <1>1, BodyTyped DEF SpecOf, Respec, Set
    <2> QED
        BY <2>1, <2>2
<1>2. CASE u.cron = TRUE /\ u.every # None
    <2>1. SpecOf(Changed(r, u)) = [cron |-> TRUE, every |-> FALSE, status |-> st]
        BY <1>2, BodyTyped DEF SpecOf, Changed, Set
    <2>2. Respec(SpecOf(r), u) = [cron |-> TRUE, every |-> FALSE, status |-> st]
        BY <1>2, BodyTyped DEF SpecOf, Respec, Set
    <2> QED
        BY <2>1, <2>2
<1>3. CASE u.cron = FALSE /\ u.every = TRUE
    <2>1. SpecOf(Changed(r, u)) = [cron |-> FALSE, every |-> TRUE, status |-> st]
        BY <1>3, BodyTyped DEF SpecOf, Changed, Set
    <2>2. Respec(SpecOf(r), u) = [cron |-> FALSE, every |-> TRUE, status |-> st]
        BY <1>3, BodyTyped DEF SpecOf, Respec, Set
    <2> QED
        BY <2>1, <2>2
<1>4. CASE u.cron = FALSE /\ u.every = FALSE
    <2>1. SpecOf(Changed(r, u)) = [cron |-> FALSE, every |-> FALSE, status |-> st]
        BY <1>4, BodyTyped DEF SpecOf, Changed, Set
    <2>2. Respec(SpecOf(r), u) = [cron |-> FALSE, every |-> FALSE, status |-> st]
        BY <1>4, BodyTyped DEF SpecOf, Respec, Set
    <2> QED
        BY <2>1, <2>2
<1> QED
    BY <1>1, <1>2, <1>3, <1>4, BodyTyped DEF Careful

LEMMA RowsTyped ==
    ASSUME NEW r \in Row
    PROVE  /\ SpecOf(r) \in Row /\ SpecOf(r) # None /\ ~(SpecOf(r).cron /\ SpecOf(r).every)
           /\ \A u \in Updates : Changed(r, u) \in Row /\ Changed(r, u) # None
<1>0. r.cron \in BOOLEAN /\ r.every \in BOOLEAN /\ r.status \in Statuses
    BY DEF Row
<1>1. SpecOf(r) \in Row /\ ~(SpecOf(r).cron /\ SpecOf(r).every)
    BY <1>0 DEF SpecOf, Row
<1>2. ASSUME NEW u \in Updates PROVE Changed(r, u) \in Row
    <2>1. /\ Set(u.cron, r.cron) \in BOOLEAN /\ Set(u.every, r.every) \in BOOLEAN
          /\ Set(u.status, r.status) \in Statuses
        BY <1>0, BodyTyped DEF Set
    <2> QED
        BY <2>1 DEF Changed, Row
<1> QED
    BY <1>1, <1>2, ScheduleConstants

-----------------------------------------------------------------------------
(* Steps keep the invariant.                                               *)

\* Nothing of s changes.
LEMMA OrderlyKeeps ==
    ASSUME NEW s \in Schedules, Orderly(s), row'[s] = row[s], temporal'[s] = temporal[s],
           s \in careless' <=> s \in careless, deleting' = deleting,
           \A c \in callbacks \cup callbacks' : c.id = s => c \in callbacks /\ c \in callbacks'
    PROVE  Orderly(s)'
<1>1. Settled(s)' <=> Settled(s)
    BY DEF Settled
<1>2. Agrees(s) => Agrees(s)'
    BY DEF Agrees
<1>3. ASSUME NEW c \in callbacks', c.id = s
      PROVE  Owes(s, c)' /\ deleting' = None
    BY <1>3 DEF Orderly, Owes
<1> QED
    BY <1>1, <1>2, <1>3 DEF Orderly

\* A request of s that waited for the callback before it starts the next one.
LEMMA RequestKeeps ==
    ASSUME IInv, NEW s \in Schedules, NEW op, NEW arg, NEW n,
           Request({s}), Start(op, s, arg), requests' = n, UNCHANGED <<temporal, deleting>>,
           \A x \in Schedules \ {s} : row'[x] = row[x] /\ (x \in careless' <=> x \in careless),
           Settled(s) /\ s \notin hasty =>
               Owes(s, [n |-> n, op |-> op, id |-> s, arg |-> arg])'
    PROVE  \A x \in Schedules \ hasty' : Orderly(x)'
<1> DEFINE cb == [n |-> n, op |-> op, id |-> s, arg |-> arg]
<1>1. callbacks' = callbacks \cup {cb} /\ cb.id = s
    BY DEF Start
<1>2. ASSUME NEW x \in Schedules \ hasty' PROVE Orderly(x)'
    <2>1. Orderly(x)
        BY DEF Request, IInv
    <2>2. CASE x # s
        BY <1>1, <2>1, <2>2, OrderlyKeeps
    <2>3. CASE x = s
        <3>1. Settled(s) /\ s \notin hasty
            BY <2>3 DEF Request
        <3>2. deleting' = None /\ \A c \in callbacks : c.id # s
            BY <3>1 DEF Settled
        <3>3. \A c \in callbacks' : c.id = s => c = cb
            BY <1>1, <3>2
        <3>4. Owes(s, cb)'
            BY <3>1
        <3>5. ~Settled(s)'
            BY <1>1 DEF Settled
        <3> HIDE DEF cb
        <3>6. \A c \in callbacks' : c.id = s => Owes(s, c)'
            BY <3>3, <3>4
        <3> QED
            BY <2>3, <3>2, <3>3, <3>5, <3>6 DEF Orderly
    <2> QED
        BY <2>2, <2>3
<1> QED
    BY <1>2

\* The callbacks that requests start.
LEMMA CallbackTyped ==
    ASSUME TypeOK, NEW s \in Schedules, NEW ss, NEW op, NEW arg, Request(ss), Start(op, s, arg),
           \/ op = "create" /\ arg \in Row
           \/ op = "update" /\ arg \in Updates
           \/ op = "delete" /\ arg = None
    PROVE  callbacks' \subseteq Callbacks /\ requests' \in 0 .. MaxRequests /\ faults' = faults
<1>1. requests' \in 1 .. MaxRequests
    BY ScheduleConstants DEF Request, TypeOK
<1> QED
    BY <1>1 DEF Request, Start, TypeOK, Callbacks, Callback

LEMMA CreateKeeps ==
    ASSUME IInv, NEW s \in Schedules, CreateSchedule(s)
    PROVE  IInv'
<1>1. PICK r \in Row : row' = [row EXCEPT ![s] = r] /\ Start("create", s, r)
    BY DEF CreateSchedule, NewRows
<1>2. /\ Request({s}) /\ UNCHANGED <<exists, temporal, deleting, careless>>
      /\ used' = used \cup {s} /\ hasty' \subseteq hasty \cup {s} /\ exists
      /\ row \in [Schedules -> Row \cup {None}]
    BY DEF CreateSchedule, Request, IInv, TypeOK
<1>3. TypeOK'
    BY <1>1, <1>2, CallbackTyped DEF IInv, TypeOK
<1>n. PICK n : requests' = n
    OBVIOUS
<1>4. Owes(s, [n |-> n, op |-> "create", id |-> s, arg |-> r])'
    BY <1>1, <1>2 DEF Owes
<1>5. \A x \in Schedules \ hasty' : Orderly(x)'
    BY <1>1, <1>2, <1>4, <1>n, RequestKeeps
<1>6. Rows' \subseteq used'
    <2>1. \A x \in Schedules : x # s => row'[x] = row[x]
        BY <1>1
    <2> QED
        BY <1>2, <2>1 DEF Rows, IInv
<1> QED
    BY <1>2, <1>3, <1>5, <1>6 DEF IInv, NoDouble

LEMMA UpdateKeeps ==
    ASSUME IInv, NEW s \in Schedules, NEW u \in Updates, UpdateSchedule(s, u)
    PROVE  IInv'
<1>1. /\ Request({s}) /\ UNCHANGED <<exists, temporal, deleting, used>>
      /\ hasty' \subseteq hasty \cup {s} /\ row[s] \in Row
      /\ row' = [row EXCEPT ![s] = Changed(row[s], u)] /\ Start("update", s, u)
      /\ careless' = IF Careful(u) THEN careless ELSE careless \cup {s}
      /\ row \in [Schedules -> Row \cup {None}]
    BY DEF UpdateSchedule, Request, IInv, TypeOK
<1>2. /\ Changed(row[s], u) \in Row /\ Changed(row[s], u) # None
      /\ SpecOf(row[s]) # None
    BY <1>1, RowsTyped
<1>3. TypeOK'
    BY <1>1, <1>2, CallbackTyped DEF IInv, TypeOK
<1>n. PICK n : requests' = n
    OBVIOUS
<1>4. ASSUME Settled(s), s \notin hasty
      PROVE  Owes(s, [n |-> n, op |-> "update", id |-> s, arg |-> u])'
    <2>1. Agrees(s)
        BY <1>4 DEF IInv, Orderly
    <2>2. row'[s] = Changed(row[s], u) /\ row'[s] # None
        BY <1>1, <1>2
    <2>3. ASSUME s \notin careless'
          PROVE  temporal[s] # None /\ ~u.inputs /\ Respec(temporal[s], u) = SpecOf(row'[s])
        <3>1. Careful(u) /\ s \notin careless
            BY <1>1, <2>3
        <3>2. temporal[s] = SpecOf(row[s])
            BY <1>1, <2>1, <3>1, ScheduleConstants DEF Agrees
        <3> QED
            BY <1>1, <1>2, <2>2, <3>1, <3>2, CarefulAgrees DEF Careful
    <2> QED
        BY <1>1, <2>2, <2>3 DEF Owes
<1>5. \A x \in Schedules \ hasty' : Orderly(x)'
    BY <1>1, <1>4, <1>n, RequestKeeps
<1>6. exists
    BY <1>1, ScheduleConstants DEF IInv
<1>7. Rows' \subseteq used'
    <2>1. \A x \in Schedules : x # s => row'[x] = row[x]
        BY <1>1
    <2>2. s \in used
        BY <1>1, ScheduleConstants DEF Rows, IInv
    <2> QED
        BY <1>1, <2>1, <2>2 DEF Rows, IInv
<1> QED
    BY <1>1, <1>3, <1>5, <1>6, <1>7 DEF IInv, NoDouble

LEMMA DeleteKeeps ==
    ASSUME IInv, NEW s \in Schedules, DeleteSchedule(s)
    PROVE  IInv'
<1>1. /\ Request({s}) /\ UNCHANGED <<exists, temporal, used, deleting, careless>>
      /\ hasty' \subseteq hasty \cup {s}
      /\ row' = [row EXCEPT ![s] = None] /\ Start("delete", s, None)
      /\ row \in [Schedules -> Row \cup {None}]
    BY DEF DeleteSchedule, Request, IInv, TypeOK
<1>3. TypeOK'
    BY <1>1, CallbackTyped DEF IInv, TypeOK
<1>n. PICK n : requests' = n
    OBVIOUS
<1>4. Owes(s, [n |-> n, op |-> "delete", id |-> s, arg |-> None])'
    BY <1>1 DEF Owes
<1>5. \A x \in Schedules \ hasty' : Orderly(x)'
    BY <1>1, <1>4, <1>n, RequestKeeps
<1>6. Rows' \subseteq used'
    <2>1. \A x \in Schedules : row'[x] # None => row'[x] = row[x]
        BY <1>1
    <2> QED
        BY <1>1, <2>1 DEF Rows, IInv
<1> QED
    BY <1>1, <1>3, <1>5, <1>6 DEF IInv, NoDouble

\* What an import registers.
LEMMA RegisteredTyped ==
    ASSUME TypeOK, NEW ss \in SUBSET Schedules, NEW r \in [ss -> Remote], Registered(ss, r),
           requests' \in 1 .. MaxRequests
    PROVE  /\ callbacks' \subseteq Callbacks
           /\ \A c \in callbacks' \ callbacks :
                 \/ c.op = "delete" /\ c.id \in Rows
                 \/ c.op = "create" /\ c.id \in ss /\ c.arg = r[c.id]
           /\ \A c, d \in callbacks' \ callbacks : c.id = d.id /\ c.op = d.op => c = d
           /\ \A s \in Rows \cup ss : \E c \in callbacks' : c.id = s
           /\ callbacks \subseteq callbacks'
<1> DEFINE dels == {[n |-> requests', op |-> "delete", id |-> s, arg |-> None] : s \in Rows}
           adds == {[n |-> requests', op |-> "create", id |-> s, arg |-> r[s]] : s \in ss}
<1>1. callbacks' = callbacks \cup dels \cup adds
    BY DEF Registered
<1>2. Rows \subseteq Schedules /\ \A s \in ss : r[s] \in Row
    BY ScheduleConstants DEF Rows, NewRows
<1>3. dels \subseteq Callbacks
    BY <1>2 DEF Callbacks, Callback
<1>4. adds \subseteq Callbacks
    BY <1>2 DEF Callbacks, Callback
<1>5. \A c \in dels : c.op = "delete" /\ c.id \in Rows /\ c.n = requests' /\ c.arg = None
    OBVIOUS
<1>6. \A c \in adds : c.op = "create" /\ c.id \in ss /\ c.arg = r[c.id]
    OBVIOUS
<1>7. \A c, d \in dels : c.id = d.id => c = d
    OBVIOUS
<1>8. \A c, d \in adds : c.id = d.id => c = d
    OBVIOUS
<1>9. /\ \A s \in Rows : \E c \in dels : c.id = s
      /\ \A s \in ss : \E c \in adds : c.id = s
    <2>1. ASSUME NEW s \in Rows PROVE \E c \in dels : c.id = s
        <3>1. [n |-> requests', op |-> "delete", id |-> s, arg |-> None] \in dels
            OBVIOUS
        <3> QED
            BY <3>1
    <2>2. ASSUME NEW s \in ss PROVE \E c \in adds : c.id = s
        <3>1. [n |-> requests', op |-> "create", id |-> s, arg |-> r[s]] \in adds
            OBVIOUS
        <3> QED
            BY <3>1
    <2> QED
        BY <2>1, <2>2
<1> HIDE DEF dels, adds
<1>10. callbacks' \subseteq Callbacks
    BY <1>1, <1>3, <1>4 DEF TypeOK
<1>11. \A c, d \in callbacks' \ callbacks : c.id = d.id /\ c.op = d.op => c = d
    BY <1>1, <1>5, <1>6, <1>7, <1>8
<1> QED
    BY <1>1, <1>5, <1>6, <1>9, <1>10, <1>11

LEMMA ImportKeeps ==
    ASSUME IInv, NEW ss \in SUBSET Schedules, ImportSchedules(ss)
    PROVE  IInv'
<1>1. PICK r \in [ss -> Remote] :
          /\ Registered(ss, r)
          /\ row' = [s \in Schedules |-> IF s \in ss THEN r[s] ELSE None]
    BY DEF ImportSchedules
<1>2. /\ Request(Rows \cup ss) /\ UNCHANGED <<exists, temporal, deleting, careless, faults>>
      /\ used' = used \cup ss /\ exists /\ ss \cap used = {}
      /\ hasty' = hasty \cup {s \in Rows \cup ss : ~Settled(s)}
      /\ requests' \in 1 .. MaxRequests /\ Rows \subseteq Schedules
      /\ \A s \in ss : r[s] \in Row /\ r[s] # None
    BY ScheduleConstants DEF ImportSchedules, Request, Rows, NewRows, IInv, TypeOK
<1>3. Rows \cap ss = {}
    BY <1>2 DEF IInv
<1>4. TypeOK'
    <2>1. row' \in [Schedules -> Row \cup {None}]
        BY <1>1, <1>2
    <2>2. callbacks' \subseteq Callbacks
        BY <1>1, <1>2, RegisteredTyped DEF IInv
    <2> QED
        BY <1>2, <2>1, <2>2 DEF IInv, TypeOK
<1>5. ASSUME NEW x \in Schedules \ hasty' PROVE Orderly(x)'
    <2>1. Orderly(x) /\ x \notin hasty
        BY <1>2 DEF IInv
    <2>2. CASE x \in Rows \cup ss
        <3>1. deleting' = None /\ \A c \in callbacks : c.id # x
            BY <1>2, <2>2 DEF Settled
        <3>2. ~Settled(x)'
            BY <1>1, <1>2, <2>2, RegisteredTyped DEF Settled, IInv
        <3>3. ASSUME NEW c \in callbacks', c.id = x
              PROVE  /\ c \notin callbacks
                     /\ c.op = (IF x \in ss THEN "create" ELSE "delete")
                     /\ Owes(x, c)'
            <4>1. /\ c \notin callbacks
                  /\ \/ c.op = "delete" /\ x \in Rows
                     \/ c.op = "create" /\ x \in ss /\ c.arg = r[x]
                BY <1>1, <1>2, <3>1, <3>3, RegisteredTyped DEF IInv
            <4>2. row'[x] = IF x \in ss THEN r[x] ELSE None
                BY <1>1
            <4> QED
                BY <1>3, <4>1, <4>2 DEF Owes
        <3>4. \A c, d \in callbacks' : c.id = x /\ d.id = x => c = d
            BY <1>1, <1>2, <3>3, RegisteredTyped DEF IInv
        <3> QED
            BY <3>1, <3>2, <3>3, <3>4 DEF Orderly
    <2>3. CASE x \notin Rows \cup ss
        <3>1. \A c \in callbacks \cup callbacks' : c.id = x => c \in callbacks /\ c \in callbacks'
            BY <1>1, <1>2, <2>3, RegisteredTyped DEF IInv
        <3>2. row'[x] = row[x]
            BY <1>1, <2>3 DEF Rows
        <3> QED
            BY <1>2, <2>1, <3>1, <3>2, OrderlyKeeps
    <2> QED
        BY <2>2, <2>3
<1>6. Rows' \subseteq used'
    BY <1>1, <1>2 DEF Rows
<1> QED
    BY <1>2, <1>4, <1>5, <1>6 DEF IInv, NoDouble

\* What an undone import touched is hasty.
LEMMA UndoneKeeps ==
    ASSUME IInv, NEW ss \in SUBSET Schedules, UndoneImport(ss)
    PROVE  IInv'
<1>1. PICK r \in [ss -> Remote] : Registered(ss, r)
    BY DEF UndoneImport
<1>2. /\ UNCHANGED <<exists, row, temporal, deleting, careless>>
      /\ used' = used \cup ss /\ hasty' = hasty \cup Rows \cup ss
      /\ requests' \in 1 .. MaxRequests /\ faults' \in 0 .. MaxFaults
      /\ Rows \subseteq Schedules
    BY ScheduleConstants DEF UndoneImport, Rows, IInv, TypeOK
<1>3. TypeOK'
    <2>1. callbacks' \subseteq Callbacks
        BY <1>1, <1>2, RegisteredTyped DEF IInv
    <2> QED
        BY <1>2, <2>1 DEF IInv, TypeOK
<1>4. ASSUME NEW x \in Schedules \ hasty' PROVE Orderly(x)'
    <2>1. Orderly(x) /\ x \notin Rows \cup ss
        BY <1>2 DEF IInv
    <2>2. \A c \in callbacks \cup callbacks' : c.id = x => c \in callbacks /\ c \in callbacks'
        BY <1>1, <1>2, <2>1, RegisteredTyped DEF IInv
    <2> QED
        BY <1>2, <2>1, <2>2, OrderlyKeeps
<1>5. Rows' \subseteq used'
    BY <1>2 DEF Rows, IInv
<1> QED
    BY <1>2, <1>3, <1>4, <1>5 DEF IInv, NoDouble

\* ListSchedules: whatever is under way is hasty from now on.
LEMMA ListKeeps ==
    ASSUME IInv, ListSchedules
    PROVE  IInv'
<1>1. /\ Request(Schedules) /\ UNCHANGED <<exists, row, temporal, used, callbacks, careless, faults>>
      /\ exists /\ deleting = None /\ deleting' = Rows
    BY DEF ListSchedules, Request
<1>2. /\ hasty' = hasty \cup {s \in Schedules : ~Settled(s)}
      /\ requests' \in 0 .. MaxRequests /\ Rows \subseteq Schedules
    BY <1>1, ScheduleConstants DEF Request, Rows, IInv, TypeOK
<1>3. TypeOK'
    BY <1>1, <1>2 DEF IInv, TypeOK
<1>4. deleting' # None
    BY <1>1, <1>2, ScheduleConstants
<1>5. ASSUME NEW s \in Schedules \ hasty' PROVE Orderly(s)'
    <2>1. Settled(s) /\ Agrees(s)
        BY <1>2 DEF IInv, Orderly
    <2>2. \A c \in callbacks' : c.id # s
        BY <1>1, <2>1 DEF Settled
    <2>3. ~Settled(s)'
        BY <1>4 DEF Settled
    <2>4. s \in deleting' \/ temporal'[s] = None
        BY <1>1, <2>1 DEF Rows, Agrees
    <2> QED
        BY <2>2, <2>3, <2>4 DEF Orderly
<1> QED
    BY <1>1, <1>3, <1>5 DEF Rows, IInv, NoDouble

\* RunCallback: what it owed is there now.
LEMMA RunKeeps ==
    ASSUME IInv, NEW c \in callbacks, RunCallback(c)
    PROVE  IInv'
<1>0. c.id \in Schedules /\ row \in [Schedules -> Row \cup {None}] /\ temporal \in [Schedules -> Row \cup {None}]
    BY DEF IInv, TypeOK, Callbacks, Callback
<1>t. /\ c.op = "create" => c.arg \in Row
      /\ c.op = "update" => c.arg \in Updates
      /\ c.op \in {"create", "update", "delete"}
    BY DEF IInv, TypeOK, Callbacks, Callback
<1>1. /\ UNCHANGED <<exists, row, used, deleting, careless, hasty, requests, faults>>
      /\ callbacks' = callbacks \ {c}
    BY DEF RunCallback, history
<1>2. PICK v \in Row \cup {None} :
          /\ temporal' = [temporal EXCEPT ![c.id] = v]
          /\ v # None => ~(v.cron /\ v.every)
          /\ c.op = "create" => v = SpecOf(c.arg)
          /\ c.op = "update" /\ Applies(c) => v = Respec(temporal[c.id], c.arg)
          /\ c.op = "delete" => v = None
    <2>1. CASE c.op = "create"
        BY <1>t, <2>1, RowsTyped DEF RunCallback
    <2>2. CASE c.op = "update" /\ Applies(c)
        <3>1. temporal[c.id] \in Row /\ ~(temporal[c.id].cron /\ temporal[c.id].every)
            BY <1>0, <2>2 DEF Applies, IInv, NoDouble
        <3>2. Respec(temporal[c.id], c.arg) \in Row
              /\ ~(Respec(temporal[c.id], c.arg).cron /\ Respec(temporal[c.id], c.arg).every)
            BY <1>t, <2>2, <3>1, RespecSingle
        <3>3. temporal' = [temporal EXCEPT ![c.id] = Respec(temporal[c.id], c.arg)]
            BY <2>2 DEF RunCallback
        <3> QED
            BY <2>2, <3>2, <3>3
    <2>3. CASE c.op = "update" /\ ~Applies(c)
        <3>1. temporal' = [temporal EXCEPT ![c.id] = temporal[c.id]]
            BY <1>0, <2>3 DEF RunCallback
        <3> QED
            BY <1>0, <2>3, <3>1 DEF IInv, NoDouble
    <2>4. CASE c.op = "delete"
        BY <2>4 DEF RunCallback, Deleted
    <2> QED
        BY <1>t, <2>1, <2>2, <2>3, <2>4
<1>3. TypeOK'
    BY <1>0, <1>1, <1>2 DEF IInv, TypeOK
<1>4. NoDouble'
    BY <1>0, <1>2 DEF IInv, NoDouble
<1>5. ASSUME NEW s \in Schedules \ hasty' PROVE Orderly(s)'
    <2>1. Orderly(s) /\ s \notin hasty
        BY <1>1 DEF IInv
    <2>2. CASE s # c.id
        BY <1>0, <1>1, <1>2, <2>1, <2>2, OrderlyKeeps
    <2>3. CASE s = c.id
        <3>1. Owes(s, c) /\ deleting = None /\ \A d \in callbacks : d.id = s => d = c
            BY <2>1, <2>3 DEF Orderly
        <3>2. \A d \in callbacks' : d.id # s
            BY <1>1, <3>1
        <3>3. temporal'[s] = v /\ row'[s] = row[s]
            BY <1>0, <1>1, <1>2, <2>3
        <3>4. Agrees(s)'
            <4>1. CASE c.op = "create"
                <5>1. row[s] # None
                    BY <1>t, <3>1, <4>1, ScheduleConstants DEF Owes
                <5> QED
                    BY <1>1, <1>2, <3>1, <3>3, <4>1, <5>1 DEF Owes, Agrees
            <4>2. CASE c.op = "update"
                <5>1. row[s] # None
                    BY <3>1, <4>2 DEF Owes
                <5>2. s \notin careless => v = SpecOf(row[s])
                    BY <1>2, <2>3, <3>1, <4>2 DEF Owes, Applies
                <5> QED
                    BY <1>1, <3>3, <5>1, <5>2 DEF Agrees
            <4>3. CASE c.op = "delete"
                BY <1>2, <3>1, <3>3, <4>3 DEF Owes, Agrees
            <4> QED
                BY <1>t, <4>1, <4>2, <4>3
        <3> QED
            BY <1>1, <3>1, <3>2, <3>4 DEF Orderly
    <2> QED
        BY <2>2, <2>3
<1> QED
    BY <1>1, <1>3, <1>4, <1>5 DEF Rows, IInv

LEMMA LoseKeeps ==
    ASSUME IInv, NEW c \in callbacks, LoseCallback(c)
    PROVE  IInv'
<1>1. /\ UNCHANGED <<exists, row, temporal, used, deleting, careless, requests>>
      /\ callbacks' = callbacks \ {c} /\ hasty' = hasty \cup {c.id}
      /\ faults' \in 0 .. MaxFaults /\ c.id \in Schedules
    BY ScheduleConstants DEF LoseCallback, IInv, TypeOK, Callbacks, Callback
<1>2. TypeOK'
    BY <1>1 DEF IInv, TypeOK
<1>3. ASSUME NEW s \in Schedules \ hasty' PROVE Orderly(s)'
    BY <1>1, OrderlyKeeps DEF IInv
<1> QED
    BY <1>1, <1>2, <1>3 DEF Rows, IInv, NoDouble

LEMMA CleanUpKeeps ==
    ASSUME IInv, NEW s \in Schedules, CleanUp(s)
    PROVE  IInv'
<1>1. /\ UNCHANGED <<exists, row, used, callbacks, careless, requests>>
      /\ deleting # None /\ deleting \subseteq Schedules /\ deleting' = deleting \ {s}
      /\ temporal \in [Schedules -> Row \cup {None}]
      /\ faults' \in 0 .. MaxFaults /\ hasty' \in SUBSET Schedules /\ hasty \subseteq hasty'
    <2>1. deleting \subseteq Schedules
        BY DEF CleanUp, IInv, TypeOK
    <2>2. faults' \in 0 .. MaxFaults
        BY ScheduleConstants DEF CleanUp, IInv, TypeOK
    <2>3. hasty' \in SUBSET Schedules /\ hasty \subseteq hasty'
        BY DEF CleanUp, IInv, TypeOK
    <2> QED
        BY <2>1, <2>2, <2>3 DEF CleanUp, IInv, TypeOK
<1>2. /\ deleting' # None /\ deleting' \in SUBSET Schedules
    BY <1>1, ScheduleConstants
<1>3. \/ temporal' = [temporal EXCEPT ![s] = None]
      \/ temporal' = temporal /\ s \in hasty'
    BY DEF CleanUp, Deleted
<1>4. TypeOK'
    <2>1. temporal' \in [Schedules -> Row \cup {None}]
        BY <1>1, <1>3
    <2> QED
        BY <1>1, <1>2, <2>1 DEF IInv, TypeOK
<1>5. NoDouble'
    BY <1>1, <1>3 DEF IInv, NoDouble
<1>6. ASSUME NEW x \in Schedules \ hasty' PROVE Orderly(x)'
    <2>1. Orderly(x)
        BY <1>1 DEF IInv
    <2>2. \A c \in callbacks' : c.id # x
        BY <1>1, <2>1 DEF Orderly
    <2>3. ~Settled(x)'
        BY <1>2 DEF Settled
    <2>4. x \in deleting' \/ temporal'[x] = None
        BY <1>1, <1>3, <2>1 DEF Orderly
    <2> QED
        BY <2>2, <2>3, <2>4 DEF Orderly
<1> QED
    BY <1>1, <1>4, <1>5, <1>6 DEF Rows, IInv

\* DeleteWorkflow: nothing is listed any more, so nothing is left.
LEMMA WorkflowKeeps ==
    ASSUME IInv, DeleteWorkflow
    PROVE  IInv'
<1>1. /\ UNCHANGED <<temporal, used, callbacks, careless, hasty, requests, faults>>
      /\ deleting = {} /\ deleting' = None /\ exists' = FALSE /\ deleting # None
      /\ row' = [s \in Schedules |-> None]
    BY ScheduleConstants DEF DeleteWorkflow, history
<1>2. TypeOK'
    <2>1. row' \in [Schedules -> Row \cup {None}]
        BY <1>1
    <2>2. exists' \in BOOLEAN /\ deleting' \in (SUBSET Schedules) \cup {None}
        BY <1>1
    <2> QED
        BY <1>1, <2>1, <2>2 DEF IInv, TypeOK
<1>3. ASSUME NEW s \in Schedules \ hasty' PROVE Orderly(s)'
    <2>1. Orderly(s)
        BY <1>1 DEF IInv
    <2>2. temporal'[s] = None /\ row'[s] = None /\ \A c \in callbacks' : c.id # s
        BY <1>1, <2>1 DEF Orderly
    <2> QED
        BY <1>1, <2>2 DEF Orderly, Agrees
<1> QED
    BY <1>1, <1>2, <1>3 DEF Rows, IInv, NoDouble

LEMMA StutterKeeps ==
    ASSUME IInv, UNCHANGED vars
    PROVE  IInv'
<1>1. UNCHANGED <<exists, row, temporal, used, callbacks, deleting, careless, hasty, requests, faults>>
    BY DEF vars, history
<1>2. TypeOK'
    BY <1>1 DEF IInv, TypeOK
<1>3. ASSUME NEW s \in Schedules \ hasty' PROVE Orderly(s)'
    BY <1>1, OrderlyKeeps DEF IInv
<1> QED
    BY <1>1, <1>2, <1>3 DEF Rows, IInv, NoDouble

LEMMA InitInv == Init => IInv
<1> SUFFICES ASSUME Init PROVE IInv
    OBVIOUS
<1>1. TypeOK
    <2>1. exists \in BOOLEAN /\ deleting \in (SUBSET Schedules) \cup {None}
        BY DEF Init
    <2> QED
        BY <2>1, ScheduleConstants DEF Init, TypeOK
<1>2. \A s \in Schedules : Orderly(s)
    BY DEF Init, Orderly, Agrees
<1>3. exists /\ NoDouble
    BY DEF Init, NoDouble
<1> QED
    BY <1>1, <1>2, <1>3 DEF Init, Rows, IInv

LEMMA StepKeeps == IInv /\ [Next]_vars => IInv'
<1> SUFFICES ASSUME IInv, [Next]_vars PROVE IInv'
    OBVIOUS
<1>1. ASSUME NEW s \in Schedules,
             \/ CreateSchedule(s) \/ DeleteSchedule(s) \/ CleanUp(s)
             \/ \E u \in Updates : UpdateSchedule(s, u)
      PROVE  IInv'
    BY <1>1, CreateKeeps, DeleteKeeps, CleanUpKeeps, UpdateKeeps
<1>2. ASSUME NEW c \in callbacks, RunCallback(c) \/ LoseCallback(c)
      PROVE  IInv'
    BY <1>2, RunKeeps, LoseKeeps
<1>3. CASE ListSchedules \/ DeleteWorkflow
    BY <1>3, ListKeeps, WorkflowKeeps
<1>5. ASSUME NEW ss \in SUBSET Schedules, ImportSchedules(ss) \/ UndoneImport(ss)
      PROVE  IInv'
    BY <1>5, ImportKeeps, UndoneKeeps
<1>4. CASE Idle \/ UNCHANGED vars
    BY <1>4, StutterKeeps DEF Idle
<1> QED
    BY <1>1, <1>2, <1>3, <1>4, <1>5 DEF Next

\* The inductive invariant holds in every behaviour.
THEOREM Invariance == Spec => []IInv
BY InitInv, StepKeeps, PTL DEF Spec

\* Every variable keeps its type (Schedule, temporalio's Schedule).
THEOREM Typed == Spec => []TypeOK
BY Invariance, PTL DEF IInv

\* No schedule ever triggers twice, and once its callbacks have run the
\* Temporal schedule is the one create_schedule would make of the row, for any
\* sequence of careful updates in the order of their requests.
THEOREM RowsMirrored == Spec => []Mirrored
<1>1. IInv => Mirrored
    BY DEF IInv, NoDouble, Mirrored, Orderly, Agrees
<1> QED
    BY <1>1, Invariance, PTL

\* A workflow that is deleted leaves no schedule behind that was settled.
THEOREM NothingOrphaned == Spec => []NoOrphans
<1>1. IInv => NoOrphans
    BY DEF IInv, NoOrphans, Orderly, Agrees, Quiet, Settled
<1> QED
    BY <1>1, Invariance, PTL

=============================================================================

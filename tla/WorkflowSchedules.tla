-------------------------- MODULE WorkflowSchedules --------------------------
(***************************************************************************)
(* Schedules of one workflow (workflow/schedules/service.py and bridge.py):*)
(* rows in the database, and the Temporal schedules that callbacks create, *)
(* change and delete after the transaction has committed                   *)
(* (db/session_events.py).  delete_workflow (workflow/management) deletes  *)
(* the Temporal schedules first and the rows with the workflow.            *)
(*                                                                         *)
(* A transaction is one step: it holds the lock on the workflow's row.  An *)
(* import of the workflow replaces its schedules in a transaction of its   *)
(* caller's.                                                               *)
(* Callbacks run in the background.  Cron expressions and intervals are    *)
(* set or not; start, end, offset and timeout are left out.                *)
(*                                                                         *)
(* Definitions with "_" and a number are variants of the one that follows  *)
(* them, each with a slip the properties must notice; nothing uses them.   *)
(***************************************************************************)
EXTENDS Integers, FiniteSets

CONSTANTS
    Schedules,    \* ids of schedules
    Statuses,     \* {"online", "offline"}
    Updates,      \* bodies of update requests: see UpdateBodies
    Remote,       \* schedules that an imported definition may have
    None,
    MaxRequests,  \* bound on requests
    MaxFaults     \* bound on failures of calls to Temporal and of the process

Row == [cron : BOOLEAN, every : BOOLEAN, status : Statuses]

\* ScheduleCreate: a cron expression or an interval.
NewRows == {r \in Row : r.cron \/ r.every}

\* ScheduleUpdate: fields that are not set are None; FALSE sets a field to null.
UpdateBodies ==
    [cron : BOOLEAN \cup {None}, every : BOOLEAN \cup {None},
     status : Statuses \cup {None}, inputs : BOOLEAN]

ASSUME ScheduleConstants ==
    /\ {"online", "offline"} \subseteq Statuses
    /\ None \notin BOOLEAN /\ None \notin Statuses
    /\ None \notin Row /\ \A ss \in SUBSET Schedules : ss # None
    /\ Updates \subseteq UpdateBodies /\ Remote \subseteq NewRows
    /\ MaxRequests \in Nat /\ MaxFaults \in Nat

VARIABLES
    exists,     \* the workflow exists
    row,        \* schedule -> its row, None if it has none
    temporal,   \* schedule -> its Temporal schedule, None if it has none
    used,       \* ids that were given out
    callbacks,  \* callbacks that were started and have not ended
    deleting,   \* schedules that delete_workflow has listed, None if it is not at work
    careless,   \* schedules that had an update the two sides read differently
    hasty,      \* schedules whose requests overtook a callback, lost one or were undone
    requests,   \* requests so far
    faults

history == <<careless, hasty>>
vars == <<exists, row, temporal, used, callbacks, deleting, history, requests, faults>>

Callback(op, args) == [n : 1 .. MaxRequests, op : {op}, id : Schedules, arg : args]
Callbacks == Callback("create", Row) \cup Callback("update", Updates) \cup Callback("delete", {None})

Rows == {s \in Schedules : row[s] # None}

Init ==
    /\ exists = TRUE
    /\ row = [s \in Schedules |-> None]
    /\ temporal = [s \in Schedules |-> None]
    /\ used = {} /\ callbacks = {}
    /\ deleting = None
    /\ careless = {} /\ hasty = {}
    /\ requests = 0 /\ faults = 0

\* Nothing of s is under way.
Settled(s) == deleting = None /\ \A c \in callbacks : c.id # s

\* A request for schedules ss.
Request(ss) ==
    /\ requests < MaxRequests /\ requests' = requests + 1
    /\ hasty' = hasty \cup {s \in ss : ~Settled(s)}
    /\ UNCHANGED faults

\* A body that sets one specifier and leaves the other, or sets the inputs.
Careful(u) == ~u.inputs /\ (u.cron = None <=> u.every = None)

-----------------------------------------------------------------------------
(* Requests: each commits and starts a callback.                           *)

Start(op, s, arg) ==
    callbacks' = callbacks \cup {[n |-> requests', op |-> op, id |-> s, arg |-> arg]}

CreateSchedule(s) ==
    /\ Request({s}) /\ exists /\ s \notin used
    /\ \E r \in NewRows : row' = [row EXCEPT ![s] = r] /\ Start("create", s, r)
    /\ used' = used \cup {s}
    /\ UNCHANGED <<exists, temporal, deleting, careless>>

\* model_dump(exclude_unset=True)
Set(new, old) == IF new = None THEN old ELSE new

\* update_schedule: setattr for the fields that are set.
Changed(r, u) ==
    [cron |-> Set(u.cron, r.cron), every |-> Set(u.every, r.every), status |-> Set(u.status, r.status)]

UpdateSchedule(s, u) ==
    /\ Request({s}) /\ row[s] # None
    /\ row' = [row EXCEPT ![s] = Changed(@, u)]
    /\ Start("update", s, u)
    /\ careless' = IF Careful(u) THEN careless ELSE careless \cup {s}
    /\ UNCHANGED <<exists, temporal, used, deleting>>

DeleteSchedule(s) ==
    /\ Request({s}) /\ row[s] # None
    /\ row' = [row EXCEPT ![s] = None]
    /\ Start("delete", s, None)
    /\ UNCHANGED <<exists, temporal, used, deleting, careless>>

\* The import of a workflow with its schedules (commit=False) registers a
\* delete for every row and a create for every new one, with ids ss.
Registered(ss, r) ==
    callbacks' = callbacks
        \cup {[n |-> requests', op |-> "delete", id |-> s, arg |-> None] : s \in Rows}
        \cup {[n |-> requests', op |-> "create", id |-> s, arg |-> r[s]] : s \in ss}

ImportSchedules(ss) ==
    /\ Request(Rows \cup ss) /\ exists /\ ss \cap used = {}
    /\ \E r \in [ss -> Remote] :
          /\ Registered(ss, r)
          /\ row' = [s \in Schedules |-> IF s \in ss THEN r[s] ELSE None]
    /\ used' = used \cup ss
    /\ UNCHANGED <<exists, temporal, deleting, careless>>

\* The commit after the import's savepoint fails: the savepoint's release has
\* started the callbacks, and the rollback takes none of them back.
UndoneImport(ss) ==
    /\ requests < MaxRequests /\ requests' = requests + 1
    /\ faults < MaxFaults /\ faults' = faults + 1
    /\ exists /\ ss \cap used = {}
    /\ \E r \in [ss -> Remote] : Registered(ss, r)
    /\ used' = used \cup ss /\ hasty' = hasty \cup Rows \cup ss
    /\ UNCHANGED <<exists, row, temporal, deleting, careless>>

\* delete_workflow lists the schedules without a lock.
ListSchedules ==
    /\ Request(Schedules) /\ exists /\ deleting = None
    /\ deleting' = Rows
    /\ UNCHANGED <<exists, row, temporal, used, callbacks, careless>>

-----------------------------------------------------------------------------
(* Calls to Temporal: bridge.py.                                           *)

\* create_schedule: cron before interval.
SpecOf(r) == [cron |-> r.cron, every |-> ~r.cron /\ r.every, status |-> r.status]

\* The cron expressions stay when an interval is set.
Respec_1(t, u) ==
    [cron   |-> Set(u.cron, t.cron),
     every  |-> Set(u.every, t.every),
     status |-> Set(u.status, t.status)]
\* update_schedule: a cron expression clears the interval, an interval clears
\* the cron expression.
Respec(t, u) ==
    LET interval == u.cron # TRUE /\ u.every # None
    IN  [cron   |-> IF interval /\ u.every THEN FALSE ELSE Set(u.cron, t.cron),
         every  |-> u.cron # TRUE /\ Set(u.every, t.every),
         status |-> Set(u.status, t.status)]

\* An update without a schedule fails, and so does one of the inputs: the
\* argument in a described schedule is a payload without the field.
Applies(c) == temporal[c.id] # None /\ ~c.arg.inputs

\* What is there stays there.
Deleted_1(s) == temporal
Deleted(s) == [temporal EXCEPT ![s] = None]

\* A callback of add_after_commit_callback; its exceptions are logged.
RunCallback(c) ==
    /\ callbacks' = callbacks \ {c}
    /\ \/ c.op = "create" /\ temporal' = [temporal EXCEPT ![c.id] = SpecOf(c.arg)]
       \/ /\ c.op = "update" /\ Applies(c)
          /\ temporal' = [temporal EXCEPT ![c.id] = Respec(@, c.arg)]
       \/ c.op = "update" /\ ~Applies(c) /\ UNCHANGED temporal
       \/ c.op = "delete" /\ temporal' = Deleted(c.id)
    /\ UNCHANGED <<exists, row, used, deleting, history, requests, faults>>

\* The call fails, or the process ends before it is made.
LoseCallback(c) ==
    /\ faults < MaxFaults /\ faults' = faults + 1
    /\ callbacks' = callbacks \ {c}
    /\ hasty' = hasty \cup {c.id}
    /\ UNCHANGED <<exists, row, temporal, used, deleting, careless, requests>>

\* delete_workflow: bridge.delete_schedule for the listed schedules ...
CleanUp(s) ==
    /\ deleting # None /\ s \in deleting
    /\ deleting' = deleting \ {s}
    /\ \/ temporal' = Deleted(s) /\ UNCHANGED <<faults, hasty>>
       \/ /\ faults < MaxFaults /\ faults' = faults + 1
          /\ hasty' = hasty \cup {s}
          /\ UNCHANGED temporal
    /\ UNCHANGED <<exists, row, used, callbacks, careless, requests>>

\* ... then the workflow, and its rows with it.
DeleteWorkflow ==
    /\ deleting = {}
    /\ exists' = FALSE /\ deleting' = None
    /\ row' = [s \in Schedules |-> None]
    /\ UNCHANGED <<temporal, used, callbacks, history, requests, faults>>

Quiet == callbacks = {} /\ deleting = None
Idle == Quiet /\ UNCHANGED vars

Next ==
    \/ \E s \in Schedules :
          \/ CreateSchedule(s) \/ DeleteSchedule(s) \/ CleanUp(s)
          \/ \E u \in Updates : UpdateSchedule(s, u)
    \/ \E c \in callbacks : RunCallback(c) \/ LoseCallback(c)
    \/ \E ss \in SUBSET Schedules : ImportSchedules(ss) \/ UndoneImport(ss)
    \/ ListSchedules \/ DeleteWorkflow \/ Idle

Spec == Init /\ [][Next]_vars

-----------------------------------------------------------------------------
(* Properties.                                                             *)

\* Types of the variables (Schedule, temporalio's Schedule).
TypeOK ==
    /\ exists \in BOOLEAN
    /\ row \in [Schedules -> Row \cup {None}]
    /\ temporal \in [Schedules -> Row \cup {None}]
    /\ used \subseteq Schedules /\ callbacks \subseteq Callbacks
    /\ deleting \in (SUBSET Schedules) \cup {None}
    /\ careless \subseteq Schedules /\ hasty \subseteq Schedules
    /\ requests \in 0 .. MaxRequests /\ faults \in 0 .. MaxFaults

\* "to prevent double-triggering": whatever sequence of updates arrives, in
\* whatever order and with whatever losses, no Temporal schedule fires both
\* for a cron expression and for an interval.  And once its callbacks have
\* run, a row has a Temporal schedule that fires the way create_schedule would
\* make it fire, and a schedule without a row has none, although
\* update_schedule changes row and schedule by rules of their own and other
\* schedules are worked on or imported.  It takes requests that wait for the
\* callback before them, lose none, are not undone, and have careful bodies
\* (create_schedule, update_schedule, delete_schedule, _update_schedules).
Mirrored ==
    /\ \A s \in Schedules : temporal[s] # None => ~(temporal[s].cron /\ temporal[s].every)
    /\ \A s \in Schedules \ (careless \cup hasty) :
           Settled(s) => temporal[s] = IF row[s] = None THEN None ELSE SpecOf(row[s])

\* "This prevents orphaned schedules in Temporal": when the workflow is gone
\* none of its schedules is left, whatever the bodies of its updates were; the
\* deletion must not overtake a callback (delete_workflow).
NoOrphans ==
    Quiet /\ ~exists => \A s \in Schedules \ hasty : temporal[s] = None

=============================================================================

--------------------------- MODULE AgentApprovals ---------------------------
(***************************************************************************)
(* Tool approvals of an agent session: chat turns that start a durable     *)
(* workflow and submissions of decisions from several surfaces             *)
(* (agent/session/service.py), the workflow's loop                         *)
(* (tracecat_ee/agent/workflows/durable.py), its ApprovalManager           *)
(* (tracecat_ee/agent/approvals/service.py) and the dismissal of pending   *)
(* approvals (tracecat_ee/agent/approvals/router.py).                      *)
(*                                                                         *)
(* A submission stands for its decisions: approvals, rows and executed     *)
(* hold the submission the decision was taken from.  Workflow code runs    *)
(* between awaits without interruption; activities, the Redis key and the  *)
(* update of a workflow are steps of their own.  An activity is retried    *)
(* until an attempt completes in time, and an attempt that was given up,   *)
(* or that outlives its workflow, may still write its rows.                *)
(*                                                                         *)
(* Definitions with "_" and a number are variants of the one that follows  *)
(* them, each with a slip the properties must notice; nothing uses them.   *)
(***************************************************************************)
EXTENDS Integers, FiniteSets

CONSTANTS
    Runs,         \* chat turns, each a run of DurableAgentWorkflow
    Submissions,  \* requests to continue a run, from Slack or the inbox
    Dismissals,   \* those that deny all that is pending, from the inbox
    None,
    MaxTurns,     \* bound on agent turns that ask for approvals, per run
    Tools,        \* tool calls of a turn
    Asks,         \* <<run, turn>> -> the tool calls that need an approval
    MaxFaults     \* bound on lost replies, outages, expiries and timeouts

Turns == 1 .. MaxTurns
Calls == {c \in Runs \X Turns \X Tools : c[3] \in Asks[<<c[1], c[2]>>]}
CallsOf(r, k) == {c \in Calls : c[1] = r /\ c[2] = k}

ASSUME ApprovalConstants ==
    /\ MaxTurns \in Nat \ {0} /\ MaxFaults \in Nat
    /\ Asks \in [Runs \X Turns -> SUBSET Tools] /\ None \notin Runs \cup Submissions
    /\ {"none", "pending", "deleted"} \cap Submissions = {}
    /\ Dismissals \subseteq Submissions

VARIABLES
    curr,       \* AgentSession.curr_run_id
    rows,       \* call -> its Approval row
    keys,       \* dedup keys in Redis: <<run, tool calls>>
    pc,         \* run -> where its workflow is
    turn,       \* run -> _turn
    expected,   \* run -> _expected_tool_calls
    approvals,  \* run -> _approvals
    ready,      \* run -> status is READY
    snapshot,   \* run -> the decisions handle_decisions is persisting
    todo,       \* run -> rows its activity has still to write
    late,       \* <<call, value>>: what attempts given up may still write
    executed,   \* call -> the decisions it was executed or denied by
    first,      \* <<run, turn>> -> the submission accepted first
    step,       \* submission -> where it is
    covers,     \* submission -> the tool calls it decides
    target,     \* submission -> the run it is sent to
    doomed,     \* dismissal -> the rows it saw that still exist
    faults

manager == <<expected, approvals, ready>>
activity == <<snapshot, todo, late>>
workflow == <<pc, turn, manager, activity, executed, first>>
requests == <<step, covers, target>>
vars == <<curr, rows, keys, workflow, requests, doomed, faults>>

RunSteps == {"new", "validated", "starting", "agent", "recording", "waiting",
             "handling", "executing", "done", "ended"}
SubmissionSteps == {"new", "sent", "loaded", "pending", "update", "undo",
                    "accepted", "noop", "deleting", "failed"}

Init ==
    /\ curr = None
    /\ rows = [c \in Calls |-> "none"]
    /\ keys = {}
    /\ pc = [r \in Runs |-> "new"] /\ turn = [r \in Runs |-> 1]
    /\ expected = [r \in Runs |-> {}]
    /\ approvals = [r \in Runs |-> None]
    /\ ready = [r \in Runs |-> FALSE]
    /\ snapshot = [r \in Runs |-> None]
    /\ todo = [r \in Runs |-> {}] /\ late = {}
    /\ executed = [c \in Calls |-> None]
    /\ first = [k \in Runs \X Turns |-> None]
    /\ step = [s \in Submissions |-> "new"]
    /\ covers = [s \in Submissions |-> {}]
    /\ target = [s \in Submissions |-> None]
    /\ doomed = [s \in Submissions |-> {}]
    /\ faults = 0

Fault == faults < MaxFaults /\ faults' = faults + 1
NoFault == UNCHANGED faults

Pending == {c \in Calls : rows[c] = "pending"}

-----------------------------------------------------------------------------
(* A chat turn: run_turn.                                                  *)

\* validate_turn_request
MayChat == Pending = {}

Validate(r) ==
    /\ pc[r] = "new" /\ MayChat
    /\ pc' = [pc EXCEPT ![r] = "validated"]
    /\ NoFault
    /\ UNCHANGED <<curr, rows, keys, turn, manager, activity, executed, first, requests, doomed>>

\* curr_run_id is committed, then the workflow is started, or that fails.
StartRun(r) ==
    /\ pc[r] = "validated"
    /\ curr' = r
    /\ \/ pc' = [pc EXCEPT ![r] = "starting"] /\ NoFault
       \/ pc' = [pc EXCEPT ![r] = "done"] /\ Fault
    /\ UNCHANGED <<rows, keys, turn, manager, activity, executed, first, requests, doomed>>

\* create_session_activity, called by the workflow, sets curr_run_id again.
CreateSession(r) ==
    /\ pc[r] = "starting"
    /\ curr' = r
    /\ pc' = [pc EXCEPT ![r] = "agent"]
    /\ NoFault
    /\ UNCHANGED <<rows, keys, turn, manager, activity, executed, first, requests, doomed>>

-----------------------------------------------------------------------------
(* The workflow: one agent turn after the other.                           *)

\* run_agent_activity ends the run, or asks for approvals: prepare() clears
\* the manager and starts to record the requests.
AgentTurn(r) ==
    /\ pc[r] = "agent"
    /\ \/ /\ pc' = [pc EXCEPT ![r] = "done"]
          /\ UNCHANGED <<manager, todo>>
       \/ /\ turn[r] \in Turns /\ CallsOf(r, turn[r]) # {}
          /\ approvals' = [approvals EXCEPT ![r] = None]
          /\ ready' = [ready EXCEPT ![r] = FALSE]
          /\ expected' = [expected EXCEPT ![r] = CallsOf(r, turn[r])]
          /\ todo' = [todo EXCEPT ![r] = CallsOf(r, turn[r])]
          /\ pc' = [pc EXCEPT ![r] = "recording"]
    /\ NoFault
    /\ UNCHANGED <<curr, rows, keys, turn, snapshot, late, executed, first, requests, doomed>>

\* What a write of value into row c commits: a decision about a row that does
\* not exist finds a placeholder to be created before.
Stored(c, value) ==
    IF value # "pending" /\ rows[c] \in {"none", "deleted"} THEN "pending" ELSE value

\* An activity of r writes one row and commits.
WriteRow(r, value) ==
    \E c \in todo[r] :
        /\ rows' = [rows EXCEPT ![c] = Stored(c, value)]
        /\ todo' = [todo EXCEPT ![r] = IF Stored(c, value) = value THEN @ \ {c} ELSE @]
        /\ NoFault
        /\ UNCHANGED <<curr, keys, pc, turn, manager, snapshot, late, executed, first, requests, doomed>>

\* record_approval_requests
RecordRequest(r) == pc[r] = "recording" /\ WriteRow(r, "pending")

\* The wait begins while the requests are still being recorded.
Recorded_1(r) ==
    /\ pc[r] = "recording"
    /\ pc' = [pc EXCEPT ![r] = "waiting"]
    /\ NoFault
    /\ UNCHANGED <<curr, rows, keys, turn, manager, activity, executed, first, requests, doomed>>
\* The activity has completed: wait()
Recorded(r) ==
    /\ pc[r] = "recording" /\ todo[r] = {}
    /\ pc' = [pc EXCEPT ![r] = "waiting"]
    /\ NoFault
    /\ UNCHANGED <<curr, rows, keys, turn, manager, activity, executed, first, requests, doomed>>

\* is_ready
IsReady(r) == ready[r]

\* handle_decisions collects the decisions and persists them.
HandleDecisions(r) ==
    /\ pc[r] = "waiting" /\ IsReady(r)
    /\ snapshot' = [snapshot EXCEPT ![r] = approvals[r]]
    /\ todo' = [todo EXCEPT ![r] = IF approvals[r] = None THEN {} ELSE expected[r]]
    /\ pc' = [pc EXCEPT ![r] = "handling"]
    /\ NoFault
    /\ UNCHANGED <<curr, rows, keys, turn, manager, late, executed, first, requests, doomed>>

Decision(r) == snapshot[r]

\* apply_approval_decisions
ApplyDecision(r) ==
    /\ pc[r] = "handling" /\ todo[r] # {}
    /\ WriteRow(r, Decision(r))

\* _build_tool_lists_from_approvals reads the manager again; the tools are
\* executed or denied by what it holds now.
ExecuteTools(r) ==
    /\ pc[r] = "handling" /\ todo[r] = {}
    /\ executed' = [c \in Calls |-> IF c \in CallsOf(r, turn[r]) THEN approvals[r] ELSE executed[c]]
    /\ pc' = [pc EXCEPT ![r] = "executing"]
    /\ NoFault
    /\ UNCHANGED <<curr, rows, keys, turn, manager, activity, first, requests, doomed>>

\* The results are reconciled and the agent goes on.
NextTurn(r) ==
    /\ pc[r] = "executing"
    /\ turn' = [turn EXCEPT ![r] = @ + 1]
    /\ pc' = [pc EXCEPT ![r] = "agent"]
    /\ NoFault
    /\ UNCHANGED <<curr, rows, keys, manager, activity, executed, first, requests, doomed>>

\* What the activity of r writes into its rows.
Written(r) == IF pc[r] = "recording" THEN "pending" ELSE Decision(r)
Abandoned(r) == IF pc[r] \in {"recording", "handling"} THEN todo[r] \X {Written(r)} ELSE {}

\* start_to_close_timeout: the attempt is given up, and the next one begins
\* with the first row again.
AttemptTimesOut(r) ==
    /\ pc[r] \in {"recording", "handling"}
    /\ late' = late \cup Abandoned(r)
    /\ todo' = [todo EXCEPT ![r] = expected[r]]
    /\ Fault
    /\ UNCHANGED <<curr, rows, keys, pc, turn, manager, snapshot, executed, first, requests, doomed>>

\* An attempt that nobody waits for writes a row.
LateWrite ==
    \E w \in late :
        /\ rows' = [rows EXCEPT ![w[1]] = Stored(w[1], w[2])]
        /\ late' = IF Stored(w[1], w[2]) = w[2] THEN late \ {w} ELSE late
        /\ NoFault
        /\ UNCHANGED <<curr, keys, pc, turn, manager, snapshot, todo, executed, first, requests, doomed>>

IsOpen(r) == pc[r] \notin {"new", "validated", "done", "ended"}

\* The execution times out, fails, or is terminated: its memory is gone.
End(r) ==
    /\ IsOpen(r)
    /\ pc' = [pc EXCEPT ![r] = "ended"]
    /\ expected' = [expected EXCEPT ![r] = {}]
    /\ approvals' = [approvals EXCEPT ![r] = None]
    /\ ready' = [ready EXCEPT ![r] = FALSE]
    /\ snapshot' = [snapshot EXCEPT ![r] = None]
    /\ todo' = [todo EXCEPT ![r] = {}]
    /\ late' = late \cup Abandoned(r)
    /\ NoFault
    /\ UNCHANGED <<curr, rows, keys, turn, executed, first, requests, doomed>>

-----------------------------------------------------------------------------
(* A submission: _continue_with_approvals.                                 *)

Goto(s, to) == step' = [step EXCEPT ![s] = to]

\* Someone decides calls they see pending, or dismisses all of them.
Send(s) ==
    /\ step[s] = "new"
    /\ \E calls \in SUBSET Pending \ {{}} :
           /\ s \in Dismissals => calls = Pending
           /\ covers' = [covers EXCEPT ![s] = calls]
           /\ doomed' = [doomed EXCEPT ![s] = IF s \in Dismissals THEN calls ELSE {}]
    /\ Goto(s, "sent")
    /\ NoFault
    /\ UNCHANGED <<curr, rows, keys, workflow, target>>

LoadSession(s) ==
    /\ step[s] = "sent"
    /\ target' = [target EXCEPT ![s] = curr]
    /\ Goto(s, "loaded")
    /\ NoFault
    /\ UNCHANGED <<curr, rows, keys, workflow, covers, doomed>>

\* has_pending_approvals
CheckPending(s) ==
    /\ step[s] = "loaded"
    /\ Goto(s, IF Pending = {} THEN "noop" ELSE "pending")
    /\ NoFault
    /\ UNCHANGED <<curr, rows, keys, workflow, covers, target, doomed>>

Key(s) == <<target[s], covers[s]>>

\* The key is only looked at, nobody sets it.
Mark_1(s) == keys
Mark(s) == keys \cup {Key(s)}

\* set_if_not_exists
Dedup(s) ==
    /\ step[s] = "pending"
    /\ \/ Key(s) \notin keys /\ keys' = Mark(s) /\ Goto(s, "update") /\ NoFault
       \/ Key(s) \in keys /\ UNCHANGED keys /\ Goto(s, "noop") /\ NoFault
       \* The reply was lost and the repeated command finds the key.
       \/ keys' = keys \cup {Key(s)} /\ Goto(s, "noop") /\ Fault
       \* Redis is unavailable: "proceeding best-effort"
       \/ UNCHANGED keys /\ Goto(s, "update") /\ Fault
    /\ UNCHANGED <<curr, rows, workflow, covers, target, doomed>>

\* Decisions for other calls than the expected ones are accepted.
Valid_1(r, calls) == expected[r] # {}
\* validate_responses
Valid(r, calls) == expected[r] # {} /\ calls = expected[r]

\* The waiting workflow is not woken up.
MarkReady_1(r) == ready
MarkReady(r) == [ready EXCEPT ![r] = TRUE]

\* execute_update: validate_set_approvals rejects, or set_approvals replaces
\* the decisions; the reply may be lost.
Update(s) ==
    LET r == target[s]
    IN  /\ step[s] = "update"
        /\ \/ /\ r \in Runs /\ IsOpen(r) /\ Valid(r, covers[s])
              /\ approvals' = [approvals EXCEPT ![r] = s]
              /\ ready' = MarkReady(r)
              /\ first' = [first EXCEPT ![<<r, turn[r]>>] = IF @ = None THEN s ELSE @]
              /\ \/ Goto(s, "accepted") /\ NoFault
                 \/ Goto(s, "undo") /\ Fault
           \/ /\ ~(r \in Runs /\ IsOpen(r) /\ Valid(r, covers[s]))
              /\ Goto(s, "undo") /\ NoFault
              /\ UNCHANGED <<approvals, ready, first>>
        /\ UNCHANGED <<curr, rows, keys, pc, turn, expected, activity, executed, covers, target, doomed>>

\* "Allow retriable failures to be resubmitted by clearing dedup marker."
Undo(s) ==
    /\ step[s] = "undo"
    /\ keys' = keys \ {Key(s)}
    /\ Goto(s, IF s \in Dismissals THEN "deleting" ELSE "failed")
    /\ NoFault
    /\ UNCHANGED <<curr, rows, workflow, covers, target, doomed>>

\* delete_approval: the dismissal could not be delivered, for whatever reason,
\* and deletes the rows it saw, one after the other.
DeleteRow(s) ==
    /\ step[s] = "deleting"
    /\ \/ \E c \in doomed[s] :
              /\ rows' = [rows EXCEPT ![c] = "deleted"]
              /\ doomed' = [t \in Submissions |-> doomed[t] \ {c}]
              /\ UNCHANGED step
       \/ doomed[s] = {} /\ Goto(s, "failed") /\ UNCHANGED <<rows, doomed>>
    /\ NoFault
    /\ UNCHANGED <<curr, keys, workflow, covers, target>>

\* APPROVAL_CONTINUATION_DEDUP_TTL_SECONDS
ExpireKey ==
    \E k \in keys :
        /\ keys' = keys \ {k}
        /\ Fault
        /\ UNCHANGED <<curr, rows, workflow, requests, doomed>>

\* Nobody submits any more, and no workflow has anything to do.
Quiet ==
    /\ \A r \in Runs : pc[r] \in {"new", "done", "ended"} \/ (pc[r] = "waiting" /\ ~ready[r])
    /\ \A s \in Submissions : step[s] \in {"new", "accepted", "noop", "failed"}
    /\ UNCHANGED vars

WorkflowStep(r) ==
    \/ CreateSession(r) \/ AgentTurn(r) \/ RecordRequest(r) \/ Recorded(r)
    \/ HandleDecisions(r) \/ ApplyDecision(r) \/ ExecuteTools(r) \/ NextTurn(r)

SubmissionStep(s) ==
    LoadSession(s) \/ CheckPending(s) \/ Dedup(s) \/ Update(s) \/ Undo(s) \/ DeleteRow(s)

Next ==
    \/ \E r \in Runs : Validate(r) \/ StartRun(r) \/ WorkflowStep(r) \/ AttemptTimesOut(r) \/ End(r)
    \/ LateWrite
    \/ \E s \in Submissions : Send(s) \/ SubmissionStep(s)
    \/ ExpireKey
    \/ Quiet

Spec == Init /\ [][Next]_vars

\* Temporal keeps workflows going and retries their activities; nothing has
\* to end a workflow, and an attempt that was given up need not write.
FairSpec == Spec /\ \A r \in Runs : WF_vars(WorkflowStep(r))

-----------------------------------------------------------------------------
(* Properties.                                                             *)

\* Types of the variables (AgentSession, ApprovalManager, Approval).
TypeOK ==
    /\ curr \in Runs \cup {None}
    /\ rows \in [Calls -> {"none", "pending", "deleted"} \cup Submissions]
    /\ keys \subseteq (Runs \cup {None}) \X SUBSET Calls
    /\ pc \in [Runs -> RunSteps] /\ turn \in [Runs -> 1 .. MaxTurns + 1]
    /\ expected \in [Runs -> SUBSET Calls]
    /\ approvals \in [Runs -> Submissions \cup {None}]
    /\ ready \in [Runs -> BOOLEAN]
    /\ snapshot \in [Runs -> Submissions \cup {None}]
    /\ todo \in [Runs -> SUBSET Calls]
    /\ late \subseteq Calls \X ({"pending"} \cup Submissions)
    /\ executed \in [Calls -> Submissions \cup {None}]
    /\ first \in [Runs \X Turns -> Submissions \cup {None}]
    /\ step \in [Submissions -> SubmissionSteps]
    /\ covers \in [Submissions -> SUBSET Calls]
    /\ target \in [Submissions -> Runs \cup {None}]
    /\ doomed \in [Submissions -> SUBSET Calls] /\ faults \in 0 .. MaxFaults

Executed == {c \in Calls : executed[c] # None}

\* The tool calls of a turn are executed or denied, every one, by decisions of
\* someone who saw them: a submission delayed into a later turn, or into
\* another run, is not applied to what is pending by then (wait, is_ready,
\* validate_responses; the expected calls are never cleared after a turn).
DecidedBySighted ==
    /\ \A r \in Runs : pc[r] = "executing" => CallsOf(r, turn[r]) \subseteq Executed
    /\ \A c \in Executed : c \in covers[executed[c]]

\* "First decision submission wins per (session, run, pending tool-set)":
\* whoever is accepted first decides what is executed, and that is the
\* decision in the database, although it is written from a copy and the
\* manager is read again afterwards; as long as no reply is lost, no attempt
\* of an activity times out, and Redis works and keeps its keys.  A dismissal
\* that was refused may have deleted the row (_continue_with_approvals,
\* handle_decisions, _build_tool_lists_from_approvals, delete_approval).
FirstWins ==
    faults = 0 => \A c \in Executed :
        executed[c] = first[<<c[1], c[2]>>] /\ rows[c] \in {executed[c], "deleted"}

\* Whatever a workflow waits for can be seen and decided: all the requests of
\* the turn have pending rows before the wait begins, and no attempt of an
\* activity that was given up in this turn, in an earlier one or in another
\* run covers them with a decision; only a dismissal takes one away
\* (record_approval_requests, apply_approval_decisions, wait).
WaitingIsVisible ==
    \A r \in Runs : pc[r] = "waiting" =>
        \A c \in CallsOf(r, turn[r]) : rows[c] \in {"pending", "deleted"}

\* Decisions that were accepted lead to the execution of the tool calls,
\* unless the run ends before: set_approvals wakes up the waiting workflow,
\* prepare() does not forget them, and an attempt to write them that times
\* out is repeated.
AcceptedIsExecuted ==
    \A s \in Submissions :
        step[s] = "accepted" ~>
            covers[s] \subseteq Executed \/ \E r \in Runs : target[s] = r /\ pc[r] = "ended"

=============================================================================

---------------------------- MODULE Interactions ----------------------------
(***************************************************************************)
(* Interactive actions of one workflow execution: the wrapper              *)
(* maybe_interactive (tracecat_ee/interactions/decorators.py), the         *)
(* InteractionManager and its activities (interactions/service.py), and    *)
(* the answers that receive_interaction (webhooks/router.py) hands to the  *)
(* workflow as updates.                                                    *)
(*                                                                         *)
(* An answer stands for its data.  Workflow code runs between awaits       *)
(* without interruption; an attempt of an activity is a step.  A row whose *)
(* id was lost with the reply of the creating activity is never referred   *)
(* to again and is left out.                                               *)
(*                                                                         *)
(* Definitions with "_" and a number are variants of the one that follows  *)
(* them, each with a slip the properties must notice; nothing uses them.   *)
(***************************************************************************)
EXTENDS Integers

CONSTANTS
    Interactions,  \* interactive actions of the workflow
    Answers,       \* requests to /interactions/{category}
    Target,        \* Answers -> the interaction it answers
    None,
    MaxFaults      \* bound on failed attempts of activities

ASSUME InteractionConstants ==
    /\ Target \in [Answers -> Interactions]
    /\ MaxFaults \in Nat
    /\ None \notin Answers \cup {"idle", "pending", "completed"}

VARIABLES
    stage,        \* interaction -> where its action is
    status,    \* interaction -> states[id].status, None before it exists
    data,      \* interaction -> states[id].data
    record,    \* interaction -> its row
    saved,     \* interaction -> the payload handed to the activity
    attempts,  \* interaction -> failed attempts of its activity
    late,      \* interaction -> writes of attempts that were given up
    result,    \* interaction -> what wait_for_response returned
    step,      \* answer -> new, accepted or rejected
    disturbed, \* interactions with an early or second answer, or a late write
    faults

ivars == <<stage, status, data, record, saved, attempts, late, result, step, disturbed, faults>>

MaxAttempts == 3
Steps == {"new", "creating", "acting", "marking", "waiting", "saving",
          "erroring", "returned", "failed"}
Ended(i) == stage[i] \in {"returned", "failed"}
Row(s, p) == [status |-> s, payload |-> p]
NoRow == Row("none", None)

InteractionInit ==
    /\ stage = [i \in Interactions |-> "new"]
    /\ status = [i \in Interactions |-> None]
    /\ data = [i \in Interactions |-> None]
    /\ record = [i \in Interactions |-> NoRow]
    /\ saved = [i \in Interactions |-> None]
    /\ attempts = [i \in Interactions |-> 0]
    /\ late = [i \in Interactions |-> {}]
    /\ result = [i \in Interactions |-> None]
    /\ step = [a \in Answers |-> "new"]
    /\ disturbed = {}
    /\ faults = 0

Enter(i, to) == stage' = [stage EXCEPT ![i] = to]
Call(i, to) == Enter(i, to) /\ attempts' = [attempts EXCEPT ![i] = 0]
NoFault == UNCHANGED <<faults, disturbed>>

-----------------------------------------------------------------------------
(* The workflow.                                                           *)

\* The scheduler reaches the action: prepare_interaction.
Prepare(i) ==
    /\ stage[i] = "new"
    /\ Call(i, "creating")
    /\ NoFault
    /\ UNCHANGED <<status, data, record, saved, late, result, step>>

\* create_interaction_activity has returned the id.
Created(i) ==
    /\ stage[i] = "creating"
    /\ record' = [record EXCEPT ![i] = Row("idle", None)]
    /\ status' = [status EXCEPT ![i] = "idle"]
    /\ Enter(i, "acting")
    /\ NoFault
    /\ UNCHANGED <<data, saved, attempts, late, result, step>>

\* The action itself has run: wait_for_response marks the interaction
\* PENDING, whatever it was; or the action has failed.
RunAction(i) ==
    /\ stage[i] = "acting"
    /\ \/ status' = [status EXCEPT ![i] = "pending"] /\ Call(i, "marking")
       \/ Enter(i, "failed") /\ UNCHANGED <<status, attempts>>
    /\ NoFault
    /\ UNCHANGED <<data, record, saved, late, result, step>>

\* is_activated
IsActivated(i) == status[i] = "completed"

\* wait_condition: the wrapper passes no timeout.
Answered(i) ==
    /\ stage[i] = "waiting" /\ IsActivated(i)
    /\ saved' = [saved EXCEPT ![i] = data[i]]
    /\ Call(i, "saving")
    /\ NoFault
    /\ UNCHANGED <<status, data, record, late, result, step>>

-----------------------------------------------------------------------------
(* Activities: create_interaction_activity, update_interaction_activity.   *)

Writing(i) == stage[i] \in {"marking", "saving", "erroring"}

\* The answer is not part of the update.
Params_1(i) == Row(IF stage[i] = "marking" THEN "pending" ELSE "completed", None)
\* InteractionUpdate: a payload of None stands for one that is not set.
Params(i) ==
    CASE stage[i] = "marking"  -> Row("pending", None)
      [] stage[i] = "saving"   -> Row("completed", saved[i])
      [] stage[i] = "erroring" -> Row("error", None)

\* update_interaction: fields that are not set keep their values.
Write(i, params) ==
    [record EXCEPT ![i] = Row(params.status,
                              IF params.payload = None THEN @.payload ELSE params.payload)]

AfterUpdate(i) ==
    CASE stage[i] = "marking"  -> "waiting"
      [] stage[i] = "saving"   -> "returned"
      [] stage[i] = "erroring" -> "failed"

\* The update has returned; after the last one the data is read once more.
Updated(i) ==
    /\ Writing(i)
    /\ record' = Write(i, Params(i))
    /\ result' = [result EXCEPT ![i] = IF stage[i] = "saving" THEN data[i] ELSE @]
    /\ Enter(i, AfterUpdate(i))
    /\ NoFault
    /\ UNCHANGED <<status, data, saved, attempts, late, step>>

\* What a failed attempt leaves: nothing, its write (the reply is lost), or a
\* transaction that outlives it.
Leave(i) ==
    \/ UNCHANGED <<record, late, disturbed>>
    \/ Writing(i) /\ record' = Write(i, Params(i)) /\ UNCHANGED <<late, disturbed>>
    \/ /\ Writing(i)
       /\ late' = [late EXCEPT ![i] = @ \cup {Params(i)}]
       /\ disturbed' = disturbed \cup {i}
       /\ UNCHANGED record

\* RetryPolicy(maximum_attempts=3)
LastAttempt(i) == attempts[i] + 1 = MaxAttempts

\* An attempt fails.  After the third one the activity has failed: the
\* exception ends the action, or wait_for_response records an ERROR first.
Failed(i) ==
    /\ Writing(i) \/ stage[i] = "creating"
    /\ faults < MaxFaults /\ faults' = faults + 1
    /\ Leave(i)
    /\ \/ /\ ~LastAttempt(i)
          /\ attempts' = [attempts EXCEPT ![i] = @ + 1]
          /\ UNCHANGED stage
       \/ /\ LastAttempt(i)
          /\ Call(i, IF stage[i] \in {"marking", "saving"} THEN "erroring" ELSE "failed")
    /\ UNCHANGED <<status, data, saved, result, step>>

\* A transaction of an attempt that was given up commits.
CommitLate(i) ==
    \E params \in late[i] :
        /\ record' = Write(i, params)
        /\ late' = [late EXCEPT ![i] = @ \ {params}]
        /\ NoFault
        /\ UNCHANGED <<stage, status, data, saved, attempts, result, step>>

-----------------------------------------------------------------------------
(* Answers: receive_interaction.                                           *)

Others(a) == {b \in Answers : Target[b] = Target[a]} \ {a}

\* Someone answers who was told the id by the action, or saw the row.
May(a) == step[a] = "new" /\ record[Target[a]] # NoRow

\* The answer is the first one, and the row says PENDING.
InTurn(a) == record[Target[a]].status = "pending" /\ \A b \in Others(a) : step[b] = "new"

\* validate_interaction; a workflow that is done takes no update.
Known(a) ==
    /\ status[Target[a]] # None
    /\ \E i \in Interactions : ~Ended(i)

\* The waiting action is not told.
Complete_1(a) == status
Complete(a) == [status EXCEPT ![Target[a]] = "completed"]

\* handle_interaction
Accept(a) ==
    /\ May(a) /\ Known(a)
    /\ data' = [data EXCEPT ![Target[a]] = a]
    /\ status' = Complete(a)
    /\ step' = [step EXCEPT ![a] = "accepted"]
    /\ disturbed' = IF InTurn(a) THEN disturbed ELSE disturbed \cup {Target[a]}
    /\ UNCHANGED <<faults, stage, record, saved, attempts, late, result>>

Reject(a) ==
    /\ May(a) /\ ~Known(a)
    /\ step' = [step EXCEPT ![a] = "rejected"]
    /\ NoFault
    /\ UNCHANGED <<stage, status, data, record, saved, attempts, late, result>>

\* Nothing is left to do but to wait for answers that nobody gives.
Quiet ==
    /\ \A i \in Interactions : Ended(i) \/ (stage[i] = "waiting" /\ ~IsActivated(i))
    /\ UNCHANGED ivars

ActionStep(i) ==
    Prepare(i) \/ Created(i) \/ RunAction(i) \/ Answered(i) \/ Updated(i)

InteractionNext ==
    \/ \E i \in Interactions : ActionStep(i) \/ Failed(i) \/ CommitLate(i)
    \/ \E a \in Answers : Accept(a) \/ Reject(a)
    \/ Quiet

InteractionSpec == InteractionInit /\ [][InteractionNext]_ivars

\* Temporal keeps the workflow and its activities going; nobody has to answer.
FairInteractionSpec == InteractionSpec /\ \A i \in Interactions : WF_ivars(ActionStep(i))

-----------------------------------------------------------------------------
(* Properties.                                                             *)

Rows == [status : {"none", "idle", "pending", "completed", "error"},
         payload : Answers \cup {None}]

\* Types of the variables (InteractionState, Interaction).
InteractionTypeOK ==
    /\ stage \in [Interactions -> Steps]
    /\ status \in [Interactions -> {None, "idle", "pending", "completed"}]
    /\ data \in [Interactions -> Answers \cup {None}]
    /\ record \in [Interactions -> Rows]
    /\ saved \in [Interactions -> Answers \cup {None}]
    /\ attempts \in [Interactions -> 0 .. MaxAttempts - 1]
    /\ late \in [Interactions -> SUBSET Rows]
    /\ result \in [Interactions -> Answers \cup {None}]
    /\ step \in [Answers -> {"new", "accepted", "rejected"}]
    /\ disturbed \subseteq Interactions /\ faults \in 0 .. MaxFaults

\* "DB interaction states are the source of truth": the row of an interaction
\* whose action went on says COMPLETED and holds the answer that the workflow
\* continues with, although the row is written from a copy and the state is
\* read again afterwards; provided the answer came in its turn and no write
\* outlived its attempt (wait_for_response).
ReturnedIsRecorded ==
    \A i \in Interactions \ disturbed :
        stage[i] = "returned" => record[i] = Row("completed", result[i])

\* An answer for which the caller is told "Interaction processed
\* successfully" ends the wait (receive_interaction, wait_for_response).
AcceptedEnds ==
    \A a \in Answers : step[a] = "accepted" ~> Ended(Target[a])

\* The answer itself is what the action goes on with, unless the activities
\* fail three times, or the interaction is disturbed (handle_interaction).
AcceptedIsReturned ==
    \A a \in Answers :
        step[a] = "accepted" ~>
            \/ result[Target[a]] = a
            \/ stage[Target[a]] = "failed" \/ Target[a] \in disturbed

=============================================================================

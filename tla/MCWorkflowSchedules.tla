------------------------ MODULE MCWorkflowSchedules ------------------------
(* WorkflowSchedules with bodies of updates and schedules to import.       *)
EXTENDS WorkflowSchedules, TLC

Body(cron, every, status, inputs) ==
    [cron |-> cron, every |-> every, status |-> status, inputs |-> inputs]

\* Every way to set the specifiers; the status; the status with the inputs.
MCUpdates ==
    {Body(cron, every, None, FALSE) :
        cron \in BOOLEAN \cup {None}, every \in BOOLEAN \cup {None}}
    \cup {Body(None, None, "online", FALSE), Body(None, None, "offline", FALSE),
          Body(None, None, "offline", TRUE)}

\* Both specifiers; an interval that is offline.
MCRemote == {[cron |-> TRUE, every |-> TRUE, status |-> "online"],
             [cron |-> FALSE, every |-> TRUE, status |-> "offline"]}

Symmetry == Permutations(Schedules)
=============================================================================

--------------------------- MODULE MCCaseTriggers ---------------------------
(***************************************************************************)
(* Instances of CaseTriggers: up to two events, the triggers of two        *)
(* workflows, two consumers.                                               *)
(***************************************************************************)
EXTENDS CaseTriggers

CONSTANTS e1, e2, w1, w2

\* e1 is a comment that selects w1 on a case with a tag; e2 closes a case.
MCType == [e \in Events |-> IF e = e1 THEN "comment_created" ELSE "case_closed"]
MCTags == [e \in Events |-> IF e = e1 THEN {"malware"} ELSE {}]
MCExplicit == [e \in Events |-> IF e = e1 THEN w1 ELSE None]

\* w1's trigger takes changes of the status, w2's tagged comments.
MCSubscriptions ==
    [w \in Workflows |-> IF w = w1 THEN {"status_changed"} ELSE {"comment_created"}]
MCFilters == [w \in Workflows |-> IF w = w1 THEN {} ELSE {"malware"}]

\* e1 is published before e2, or after it.
First == [e \in Events |-> IF e = e1 THEN 1 ELSE 2]
Second == [e \in Events |-> IF e = e1 THEN 2 ELSE 1]

World(prompt, happen, order, entitled, ignored, first) ==
    [prompt |-> prompt, happen |-> happen, order |-> order, entitled |-> entitled,
     ignored |-> ignored,
     definition |-> [w \in Workflows |-> IF w = w1 THEN first ELSE "valid"]]

\* Two events of which the first is ignored; a definition that is missing; one
\* that does not parse, so that e1 is poison in front of e2; slow consumers with
\* a selected workflow, or a trigger.
MCWorlds ==
    {World(TRUE, Events, Second, Events, {e2}, "valid"),
     World(TRUE, {e1}, First, Events, {}, "missing"),
     World(TRUE, Events, First, Events, {}, "invalid"),
     World(FALSE, {e1}, First, {}, {}, "valid"),
     World(FALSE, {e2}, First, Events, {}, "valid")}
=============================================================================

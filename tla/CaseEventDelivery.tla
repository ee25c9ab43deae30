------------------------- MODULE CaseEventDelivery --------------------------
(***************************************************************************)
(* What the case-trigger pipeline promises of the configured triggers,     *)
(* without stream, consumers, locks and keys: an event that was published  *)
(* stays owed until each workflow it wants was dispatched, possibly more   *)
(* than once; afterwards prompt consumers dispatch nothing for it.  Only   *)
(* an event that was never published, or whose stream vanished, is void.   *)
(***************************************************************************)
EXTENDS Naturals

CONSTANTS
    Events,     \* case events
    Workflows   \* workflows with a case trigger

VARIABLES
    state,  \* event -> how far its delivery is
    asked,  \* <<event, workflow>> -> how often it was dispatched
    wants,  \* event -> the workflows its triggers must start; never changes
    prompt  \* whether consumers keep within their times; never changes

deliveryVars == <<state, asked, wants, prompt>>

DeliveryInit ==
    /\ state = [e \in Events |-> "new"]
    /\ asked = [j \in Events \X Workflows |-> 0]
    /\ wants \in [Events -> SUBSET Workflows]
    /\ prompt \in BOOLEAN

Become(e, s) == state' = [state EXCEPT ![e] = s] /\ UNCHANGED <<asked, wants, prompt>>

\* An event is published, or the publisher fails and it is never delivered.
PublishEvent(e) == state[e] = "new" /\ \E s \in {"owed", "void"} : Become(e, s)

DispatchFor(e, w) ==
    /\ state[e] # "new" /\ w \in wants[e]
    /\ prompt => state[e] # "settled"
    /\ asked' = [asked EXCEPT ![<<e, w>>] = @ + 1]
    /\ UNCHANGED <<state, wants, prompt>>

Settle(e) ==
    /\ state[e] = "owed"
    /\ \A w \in wants[e] : asked[<<e, w>>] > 0
    /\ Become(e, "settled")

\* The stream is lost, with everything that is owed in it, or some of it.
Forget(es) ==
    /\ state' = [e \in Events |-> IF e \in es /\ state[e] = "owed" THEN "void" ELSE state[e]]
    /\ UNCHANGED <<asked, wants, prompt>>

DeliveryNext ==
    \/ \E e \in Events : PublishEvent(e) \/ Settle(e) \/ \E w \in Workflows : DispatchFor(e, w)
    \/ \E es \in SUBSET Events : Forget(es)

DeliverySpec == DeliveryInit /\ [][DeliveryNext]_deliveryVars

=============================================================================

-------------------------------- MODULE Billing -------------------------------
(***************************************************************************)
(* The plan of one workspace: checkout, the payment provider's events, the *)
(* customer's own verification, and the monitors that the plan allows.     *)
(*                                                                         *)
(* The provider delivers each event until it is answered with success, so  *)
(* an event may be handled again, by two requests at once, or late.  Every *)
(* await of a handler is a step.                                           *)
(***************************************************************************)
EXTENDS Naturals, FiniteSets

CONSTANTS
    Subs,           \* subscriptions the provider may create
    Ending,         \* those among them that may end
    Verified,       \* those whose payment the customer's browser reports as well
    Requests,       \* requests handled at the same time
    Limit,          \* monitors of a FREE workspace
    MaxMonitors,    \* bound of the model: no monitor is asked for that could pass it
    MaxFaults,      \* bound of the model on failures
    None

ASSUME SubsAssumption == Ending \subseteq Subs /\ Verified \subseteq Subs /\ None \notin Subs
ASSUME RequestsAssumption == IsFiniteSet(Requests) /\ Requests # {}
ASSUME BoundsAssumption == Limit \in Nat \ {0} /\ MaxMonitors \in Nat /\ MaxFaults \in Nat

VARIABLES
    sub,            \* razorpaySubId of the workspace
    plan,           \* planTier of the workspace
    refs,           \* the references in ProcessedPayment
    monitors,       \* how many monitors the workspace has
    req,            \* req[r]: the handler that r is in the middle of
    created,        \* subscriptions the provider has created
    offered,        \* subscriptions whose checkout was answered
    paid,           \* subscriptions the customer has paid for
    delivery,       \* delivery[e]: what the provider does with the event e
    applied,        \* applied[x]: how often the effect of x was written
    lost,           \* references that a failure kept from being applied
    faults

rowVars == <<sub, plan, refs, monitors>>
providerVars == <<created, offered, paid, delivery>>
vars == <<rowVars, req, providerVars, applied, lost, faults>>

\* "charged" stands for the events that upgrade, "cancelled" for those that downgrade.
Events == ({"charged"} \X Subs) \cup ({"cancelled"} \X Ending)

References == Events \cup ({"verify"} \X Verified)

Idle == [op |-> "none", about |-> None]

TypeOK ==
    /\ sub \in Subs \cup {None}
    /\ plan \in {"FREE", "PRO"}
    /\ refs \subseteq References
    /\ monitors \in Nat
    /\ req \in [Requests -> [op : {"none", "save", "record", "apply", "count", "insert"},
                             about : Subs \cup References \cup {None}]]
    /\ paid \subseteq offered /\ offered \subseteq created /\ created \subseteq Subs
    /\ delivery \in [Events -> {"unsent", "sent", "acked"}]
    /\ applied \in [References -> Nat]
    /\ lost \subseteq References
    /\ faults \in 0 .. MaxFaults

Init ==
    /\ sub = None
    /\ plan = "FREE"
    /\ refs = {}
    /\ monitors = 0
    /\ req = [r \in Requests |-> Idle]
    /\ created = {} /\ offered = {} /\ paid = {}
    /\ delivery = [e \in Events |-> "unsent"]
    /\ applied = [x \in References |-> 0]
    /\ lost = {}
    /\ faults = 0

-------------------------------------------------------------------------------
GoesOn(r, op, x) == req' = [req EXCEPT ![r] = [op |-> op, about |-> x]]

Done(r) == req' = [req EXCEPT ![r] = Idle]

\* The handler of x answers with success; only the provider waits for that.
Acks(x) == delivery' = IF x \in Events THEN [delivery EXCEPT ![x] = "acked"] ELSE delivery

Fault == faults < MaxFaults /\ faults' = faults + 1

-------------------------------------------------------------------------------
\* Checkout, and what the customer does at the provider.

Checkout(r, s) ==
    /\ req[r] = Idle
    /\ s \notin created
    /\ created' = created \cup {s}
    /\ GoesOn(r, "save", s)
    /\ UNCHANGED <<rowVars, offered, paid, delivery, applied, lost, faults>>

SavesCheckout(r) ==
    /\ req[r].op = "save"
    /\ sub' = req[r].about
    /\ offered' = offered \cup {req[r].about}
    /\ Done(r)
    /\ UNCHANGED <<plan, refs, monitors, created, paid, delivery, applied, lost, faults>>

Pays(s) ==
    /\ s \in offered \ paid
    /\ paid' = paid \cup {s}
    /\ delivery' = [delivery EXCEPT ![<<"charged", s>>] = "sent"]
    /\ UNCHANGED <<rowVars, req, created, offered, applied, lost, faults>>

Cancels(s) ==
    /\ s \in paid \cap Ending
    /\ delivery[<<"cancelled", s>>] = "unsent"
    /\ delivery' = [delivery EXCEPT ![<<"cancelled", s>>] = "sent"]
    /\ UNCHANGED <<rowVars, req, created, offered, paid, applied, lost, faults>>

\* The answer does not reach the provider, which delivers the event again.
AnswerLost(e) ==
    /\ delivery[e] = "acked"
    /\ Fault
    /\ delivery' = [delivery EXCEPT ![e] = "sent"]
    /\ UNCHANGED <<rowVars, req, created, offered, paid, applied, lost>>

-------------------------------------------------------------------------------
\* An event, or the customer's verification of a payment, is recorded first and
\* applied then.

\* The workspace that x is about; without one the answer is an error.
FindsWorkspace(x) == sub = x[2]

\* A mutant: an event without a workspace is answered with success and forgotten.
ReceivesOrForgets(r, e) ==
    /\ req[r] = Idle
    /\ delivery[e] = "sent"
    /\ IF FindsWorkspace(e)
       THEN GoesOn(r, "record", e) /\ UNCHANGED delivery
       ELSE delivery' = [delivery EXCEPT ![e] = "acked"] /\ UNCHANGED req
    /\ UNCHANGED <<rowVars, created, offered, paid, applied, lost, faults>>

Receives(r, e) ==
    /\ req[r] = Idle
    /\ delivery[e] = "sent"
    /\ FindsWorkspace(e)
    /\ GoesOn(r, "record", e)
    /\ UNCHANGED <<rowVars, providerVars, applied, lost, faults>>

Verifies(r, s) ==
    /\ req[r] = Idle
    /\ s \in paid \cap Verified
    /\ FindsWorkspace(<<"verify", s>>)
    /\ GoesOn(r, "record", <<"verify", s>>)
    /\ UNCHANGED <<rowVars, providerVars, applied, lost, faults>>

\* A mutant: the reference is written whether it is there or not (upsert).
IsNewAlways(x) == TRUE

\* The reference is unique.
IsNew(x) == x \notin refs

Records(r) ==
    /\ req[r].op = "record"
    /\ IsNew(req[r].about)
    /\ refs' = refs \cup {req[r].about}
    /\ GoesOn(r, "apply", req[r].about)
    /\ UNCHANGED <<sub, plan, monitors, providerVars, applied, lost, faults>>

\* A mutant: it is answered with a conflict, as a verification is.
AnswerKnownConflict(x) == UNCHANGED delivery

\* What is recorded already is answered as processed.
AnswerKnown(x) == Acks(x)

FindsRecorded(r) ==
    /\ req[r].op = "record"
    /\ ~IsNew(req[r].about)
    /\ AnswerKnown(req[r].about)
    /\ Done(r)
    /\ UNCHANGED <<rowVars, created, offered, paid, applied, lost, faults>>

\* Any other failure of the insert is taken for the unique violation.
RecordFails(r) ==
    /\ req[r].op = "record"
    /\ Fault
    /\ Acks(req[r].about)
    /\ lost' = lost \cup {req[r].about}
    /\ Done(r)
    /\ UNCHANGED <<rowVars, created, offered, paid, applied>>

PlanAfter(x) == IF x[1] = "cancelled" THEN "FREE" ELSE "PRO"

Applies(r) ==
    /\ req[r].op = "apply"
    /\ plan' = PlanAfter(req[r].about)
    /\ applied' = [applied EXCEPT ![req[r].about] = @ + 1]
    /\ Acks(req[r].about)
    /\ Done(r)
    /\ UNCHANGED <<sub, refs, monitors, created, offered, paid, lost, faults>>

\* A query fails or the process dies: the answer is an error or does not come.
RequestDies(r) ==
    /\ req[r] # Idle
    /\ Fault
    /\ lost' = IF req[r].op = "apply" THEN lost \cup {req[r].about} ELSE lost
    /\ Done(r)
    /\ UNCHANGED <<rowVars, providerVars, applied>>

-------------------------------------------------------------------------------
\* A monitor is created: the plan is read, the monitors are counted, the new one
\* is inserted; nothing holds the three together.

AsksForMonitor(r) ==
    /\ req[r] = Idle
    /\ monitors + Cardinality(Requests) <= MaxMonitors
    /\ GoesOn(r, IF plan = "FREE" THEN "count" ELSE "insert", None)
    /\ UNCHANGED <<rowVars, providerVars, applied, lost, faults>>

\* A mutant: the limit is tested as "more than".
RoomUpToLimit == monitors <= Limit

Room == monitors < Limit

Counts(r) ==
    /\ req[r].op = "count"
    /\ IF Room THEN GoesOn(r, "insert", None) ELSE Done(r)
    /\ UNCHANGED <<rowVars, providerVars, applied, lost, faults>>

Inserts(r) ==
    /\ req[r].op = "insert"
    /\ monitors' = monitors + 1
    /\ Done(r)
    /\ UNCHANGED <<sub, plan, refs, providerVars, applied, lost, faults>>

DeletesMonitor ==
    /\ monitors > 0
    /\ monitors' = monitors - 1
    /\ UNCHANGED <<sub, plan, refs, req, providerVars, applied, lost, faults>>

-------------------------------------------------------------------------------
HandlerSteps(r) ==
    SavesCheckout(r) \/ Records(r) \/ FindsRecorded(r) \/ Applies(r) \/ Counts(r) \/ Inserts(r)

Next ==
    \/ \E r \in Requests, s \in Subs : Checkout(r, s)
    \/ \E r \in Requests : SavesCheckout(r)
    \/ \E s \in Subs : Pays(s)
    \/ \E s \in Subs : Cancels(s)
    \/ \E e \in Events : AnswerLost(e)
    \/ \E r \in Requests, e \in Events : Receives(r, e)
    \/ \E r \in Requests, s \in Subs : Verifies(r, s)
    \/ \E r \in Requests : Records(r)
    \/ \E r \in Requests : FindsRecorded(r)
    \/ \E r \in Requests : RecordFails(r)
    \/ \E r \in Requests : Applies(r)
    \/ \E r \in Requests : RequestDies(r)
    \/ \E r \in Requests : AsksForMonitor(r)
    \/ \E r \in Requests : Counts(r)
    \/ \E r \in Requests : Inserts(r)
    \/ DeletesMonitor

\* Handlers run to their end, and the provider keeps delivering: the server takes
\* any number of requests, so sooner or later one of them is the event's.
Fairness ==
    /\ \A r \in Requests : WF_vars(HandlerSteps(r))
    /\ \A e \in Events : SF_vars(\E r \in Requests : Receives(r, e))

Spec == Init /\ [][Next]_vars

FairSpec == Spec /\ Fairness

-------------------------------------------------------------------------------
\* However often an event or a verification arrives, and by how many requests at
\* once, its effect is written once.
PaidOnce == \A x \in References : applied[x] <= 1

\* The provider is told that an event was processed only if it was, or is just
\* being applied, or its handler failed: nothing else swallows a payment.
AckedOrLost ==
    \A e \in Events : delivery[e] = "acked" =>
        \/ applied[e] = 1
        \/ e \in lost
        \/ \E r \in Requests : req[r] = [op |-> "apply", about |-> e]

\* A workspace that was never upgraded passes the limit of its plan by no more than
\* the requests that count at the same time.
FreeIsLimited ==
    (\A x \in References : PlanAfter(x) = "PRO" => applied[x] = 0) =>
        monitors + 1 <= Limit + Cardinality(Requests)

\* The provider does not deliver an event of the workspace's subscription for ever,
\* also when the first delivery failed after it was recorded.
EventsSettle ==
    \A e \in Events : (delivery[e] = "sent" /\ FindsWorkspace(e)) ~>
                      (delivery[e] = "acked" \/ ~FindsWorkspace(e))

===============================================================================

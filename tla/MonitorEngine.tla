----------------------------- MODULE MonitorEngine -----------------------------
(***************************************************************************)
(* The state machine of one monitor: its Monitor row, its Incident rows    *)
(* and everybody who writes them.  No statement of the engine reads one    *)
(* monitor to write another, so one monitor is the whole story.            *)
(*                                                                         *)
(* Four kinds of process apply results:                                    *)
(*   Consumers  the Kafka metrics consumer, one per partition or replica   *)
(*   Manuals    "check now" requests                                       *)
(*   Beats      heartbeat requests of a push monitor                       *)
(*   Sweepers   the heartbeat sweep looking for missed beats               *)
(* Each reads the row (a snapshot), decides from that snapshot alone, and  *)
(* commits in one database transaction.  Other processes, and the users    *)
(* who pause, resume, edit, delete, acknowledge and resolve, run between   *)
(* those steps: every await of the handlers is a boundary of an action.    *)
(*                                                                         *)
(* Whether an alert is suppressed (mutedUntil, alertCooldownSeconds) is    *)
(* left to chance here: a page may or may not follow an opened incident.   *)
(***************************************************************************)
EXTENDS Naturals, FiniteSets

CONSTANTS
    Consumers, Manuals, Beats, Sweepers,   \* disjoint sets of processes
    Users,              \* people acknowledging and resolving incidents
    Incidents,          \* identities for the incident rows of this monitor
    Grace,              \* the column graceThreshold
    MaxFailures,        \* consecutiveFailures is counted exactly up to here
    UserActions,        \* which of UserActionNames the users perform
    Alerted             \* whether the workspace has a webhook or a channel at all

Appliers == Consumers \cup Manuals \cup Beats
Procs == Appliers \cup Sweepers

UserActionNames == {"pause", "window", "delete"}

ASSUME ProcsAssumption ==
    /\ Beats \cap (Consumers \cup Manuals) = {}
    /\ Sweepers \cap Appliers = {}

\* The engine compares the counter with graceThreshold and with nothing else,
\* so all values above Grace behave alike and the model merges them.
ASSUME GraceAssumption ==
    /\ Grace \in Nat \ {0}
    /\ MaxFailures \in Nat
    /\ Grace < MaxFailures

ASSUME UserActionsAssumption == UserActions \subseteq UserActionNames
ASSUME AlertedAssumption == Alerted \in BOOLEAN

VARIABLES
    monitor,    \* the Monitor row
    incident,   \* incident[i]: status of incident row i, "ABSENT" before it exists
    pc,         \* pc[p]: where process p is in its handler
    snap,       \* snap[p]: the columns of the row p read and decides from
    plan,       \* plan[p]: the transaction p has built
    request,    \* request[u]: the incident update user u's handler is about to make
    outbox,     \* alerts decided on, not yet handed to every webhook and channel
    revived     \* history: incidents an acknowledgement took back from RESOLVED while
                \* their resolution was under way to be announced

procVars == <<pc, snap, plan>>
alertVars == <<outbox, revived>>
vars == <<monitor, incident, procVars, request, alertVars>>

-------------------------------------------------------------------------------

Statuses == {"UP", "DOWN", "DEGRADED", "PAUSED"}
Faulty == {"DOWN", "DEGRADED"}

\* "sslFailing": the probe got its answer but the certificate is invalid or
\* about to expire.
Outcomes == {"up", "sslFailing", "down"}

Failures == 0 .. MaxFailures

View == [status : Statuses, failures : Failures]
NoView == [status |-> "UP", failures |-> 0]

Plan == [target : Statuses, failures : Failures, opens : BOOLEAN,
         found : SUBSET Incidents]
NoPlan == [target |-> "UP", failures |-> 0, opens |-> FALSE, found |-> {}]

\* Whether a handler finds the clock inside the maintenance window of its
\* snapshot.  A window can be edited and the clock can enter or leave it at any
\* moment, and nothing in this module reads it but this test.
SeesWindow == IF "window" \in UserActions THEN BOOLEAN ELSE {FALSE}

\* incident.acknowledged alerts are not followed: they claim nothing that may fail.
Alert == [event : {"opened", "resolved"}, id : Incidents]

NoRequest == [kind |-> "none", id |-> "none"]
Requests == {NoRequest} \cup [kind : {"acknowledge", "resolve"}, id : Incidents]

Timeline == INSTANCE IncidentTimeline

Active(i) == Timeline!IsActive(incident[i])
ActiveIncidents == {i \in Incidents : Active(i)}

TypeOK ==
    /\ monitor \in [exists : BOOLEAN, isActive : BOOLEAN, status : Statuses,
                    failures : Failures, overdue : BOOLEAN]
    /\ Timeline!TypeOK
    /\ pc \in [Procs -> {"idle", "loaded", "pinged", "decided"}]
    /\ snap \in [Procs -> View]
    /\ plan \in [Procs -> Plan]
    /\ request \in [Users -> Requests]
    /\ outbox \subseteq Alert
    /\ revived \subseteq Incidents

\* A monitor as createMonitorService inserts it.
Init ==
    /\ monitor = [exists |-> TRUE, isActive |-> TRUE, status |-> "UP",
                  failures |-> 0, overdue |-> FALSE]
    /\ incident = [i \in Incidents |-> "ABSENT"]
    /\ pc = [p \in Procs |-> "idle"]
    /\ snap = [p \in Procs |-> NoView]
    /\ plan = [p \in Procs |-> NoPlan]
    /\ request = [u \in Users |-> NoRequest]
    /\ outbox = {}
    /\ revived = {}

-------------------------------------------------------------------------------
(* Reading the row.                                                        *)

CurrentView == [status |-> monitor.status, failures |-> monitor.failures]

Load(p) ==
    /\ pc[p] = "idle"
    /\ monitor.exists
    /\ pc' = [pc EXCEPT ![p] = "loaded"]
    /\ snap' = [snap EXCEPT ![p] = CurrentView]
    /\ UNCHANGED <<monitor, incident, plan, request, alertVars>>

\* The consumer re-fetches the monitor and skips the result of a paused or
\* deleted one.
ConsumerLoads(p) == p \in Consumers /\ monitor.isActive /\ Load(p)

\* "Check now" does not look at isActive: a paused monitor is probed too.
CheckNowLoads(p) == p \in Manuals /\ Load(p)

\* A heartbeat for a paused monitor is refused.
HeartbeatLoads(p) == p \in Beats /\ monitor.isActive /\ Load(p)

\* The sweep selects the active monitors that are not DOWN and overdue.
SweepLoads(p) ==
    /\ p \in Sweepers
    /\ monitor.isActive
    /\ monitor.status # "DOWN"
    /\ monitor.overdue
    /\ Load(p)

\* checkMonitor pings before it applies; recordHeartbeat stamps lastHeartbeatAt
\* first, which moves the deadline.  The consumer has nothing to do here.
PingOrStamp(p) ==
    /\ p \in Manuals \cup Beats
    /\ pc[p] = "loaded"
    /\ p \in Beats => monitor.exists
    /\ monitor' = IF p \in Beats THEN [monitor EXCEPT !.overdue = FALSE] ELSE monitor
    /\ pc' = [pc EXCEPT ![p] = "pinged"]
    /\ UNCHANGED <<incident, snap, plan, request, alertVars>>

-------------------------------------------------------------------------------
(* applyCheckResult, first half: the decision.                             *)

CountedFailures(view, o) ==
    IF o = "up" THEN 0
    ELSE IF view.failures < MaxFailures THEN view.failures + 1 ELSE MaxFailures

BreachStatus(o) == IF o = "sslFailing" THEN "DEGRADED" ELSE "DOWN"

\* The status the result calls for, before the maintenance override.
StatusAfter(view, o) ==
    IF o = "up" THEN "UP"
    ELSE IF CountedFailures(view, o) >= Grace THEN BreachStatus(o)
    ELSE view.status

\* Mutant: every failure at or beyond the threshold counts as crossing it.
CrossesThresholdOrBeyond(view, o) ==
    /\ o # "up"
    /\ CountedFailures(view, o) >= Grace
    /\ view.status # BreachStatus(o)

\* Mutant: the incident is tied to the failure after the one that flips the status.
CrossesThresholdLate(view, o) ==
    /\ o # "up"
    /\ CountedFailures(view, o) = Grace + 1
    /\ view.status # BreachStatus(o)

\* A failure opens an incident only in the step that reaches the threshold.
CrossesThreshold(view, o) ==
    /\ o # "up"
    /\ CountedFailures(view, o) = Grace
    /\ view.status # BreachStatus(o)

\* Mutant: the lookup does not depend on the result being UP.
FoundOnAnyResult(view, o) == IF view.status \in Faulty THEN ActiveIncidents ELSE {}

\* Mutant: DEGRADED is forgotten.
FoundWhenDown(view, o) ==
    IF o = "up" /\ view.status = "DOWN" THEN ActiveIncidents ELSE {}

\* Only a monitor last seen faulty has its incidents looked up for resolution.
FoundToResolve(view, o) ==
    IF o = "up" /\ view.status \in Faulty THEN ActiveIncidents ELSE {}

PlanFor(view, o, underMaintenance) ==
    [target   |-> IF underMaintenance THEN "PAUSED" ELSE StatusAfter(view, o),
     failures |-> CountedFailures(view, o),
     opens    |-> CrossesThreshold(view, o) /\ ~underMaintenance,
     found    |-> FoundToResolve(view, o)]

ReadyToDecide(p) == pc[p] = IF p \in Consumers THEN "loaded" ELSE "pinged"

\* A heartbeat is always applied as an UP result.
OutcomesOf(p) == IF p \in Beats THEN {"up"} ELSE Outcomes

Decide(p, o) ==
    /\ p \in Appliers
    /\ ReadyToDecide(p)
    /\ o \in OutcomesOf(p)
    /\ \E w \in SeesWindow : plan' = [plan EXCEPT ![p] = PlanFor(snap[p], o, w)]
    /\ pc' = [pc EXCEPT ![p] = "decided"]
    /\ snap' = [snap EXCEPT ![p] = NoView]
    /\ UNCHANGED <<monitor, incident, request, alertVars>>

-------------------------------------------------------------------------------
(* applyCheckResult, second half: the transaction and the alerts.          *)

Rest(p) ==
    /\ pc' = [pc EXCEPT ![p] = "idle"]
    /\ snap' = [snap EXCEPT ![p] = NoView]
    /\ plan' = [plan EXCEPT ![p] = NoPlan]

\* Mutant: the counter is incremented in the database instead of overwritten.
WriteRowIncrementing(pl) ==
    monitor' = [monitor EXCEPT !.status = pl.target,
                               !.failures = IF pl.failures = 0 THEN 0
                                            ELSE IF @ < MaxFailures THEN @ + 1 ELSE @]

\* The row update writes what the plan says over whatever the row holds now.
WriteRow(pl) ==
    monitor' = [monitor EXCEPT !.status = pl.target, !.failures = pl.failures]

\* Mutant: the partial unique index is missing.
InsertNeverConflicts(pl) == FALSE

\* The insert violates the partial unique index when an incident is active.
InsertConflicts(pl) == pl.opens /\ ActiveIncidents # {}

\* Mutant: acknowledged incidents are left out of the update.
ResolveOpenOnly(pl) ==
    [i \in Incidents |-> IF pl.found # {} /\ incident[i] = "OPEN" THEN "RESOLVED"
                         ELSE incident[i]]

\* updateMany resolves every active row, found earlier or not, and is in the
\* transaction only when the lookup found something.
ResolveAll(pl) ==
    [i \in Incidents |-> IF pl.found # {} /\ Active(i) THEN "RESOLVED" ELSE incident[i]]

\* The alert is on its way, if there is anybody to tell: nothing waits for it, and
\* anybody may write before it is sent.
Sends(event, S) ==
    outbox' = IF Alerted THEN outbox \cup [event : {event}, id : S] ELSE outbox

\* The alerts that may follow the commit: incident.opened for the row this
\* transaction inserted, incident.resolved for every row its lookup had found.
Page(event, S) == \E told \in {{}, S} : Sends(event, told)

Announcing(i) == [event |-> "resolved", id |-> i] \in outbox

\* An incident that is resolved once more is no longer a revived one.
ForgetsResolved == revived' = {i \in revived : incident'[i] # "RESOLVED"}

CommitOpening(p, new) ==
    /\ pc[p] = "decided"
    /\ monitor.exists
    /\ plan[p].opens
    /\ ~InsertConflicts(plan[p])
    /\ incident[new] = "ABSENT"
    /\ WriteRow(plan[p])
    /\ incident' = [incident EXCEPT ![new] = "OPEN"]
    /\ Page("opened", {new})
    /\ Rest(p)
    /\ UNCHANGED <<request, revived>>

Commit(p) ==
    /\ pc[p] = "decided"
    /\ monitor.exists
    /\ ~plan[p].opens
    /\ WriteRow(plan[p])
    /\ incident' = ResolveAll(plan[p])
    /\ Page("resolved", plan[p].found)
    /\ ForgetsResolved
    /\ Rest(p)
    /\ UNCHANGED request

\* Mutant: newlyTriggeredIncident stays true after the conflict, so the loser of
\* the race alerts as well.
CommitConflictAlerting(p) ==
    /\ pc[p] = "decided"
    /\ monitor.exists
    /\ InsertConflicts(plan[p])
    /\ plan' = [plan EXCEPT ![p].opens = FALSE]
    /\ Page("opened", ActiveIncidents)
    /\ UNCHANGED <<monitor, incident, pc, snap, request, revived>>

\* P2002: the transaction is rolled back and will be run again without the
\* incident insert.
CommitConflict(p) ==
    /\ pc[p] = "decided"
    /\ monitor.exists
    /\ InsertConflicts(plan[p])
    /\ plan' = [plan EXCEPT ![p].opens = FALSE]
    /\ UNCHANGED <<monitor, incident, pc, snap, request, alertVars>>

\* The handler throws (database error, deleted monitor, failed ping) or its
\* process dies: whatever was not committed is forgotten.
Abandon(p) ==
    /\ pc[p] # "idle"
    /\ Rest(p)
    /\ UNCHANGED <<monitor, incident, request, alertVars>>

-------------------------------------------------------------------------------
(* applyHeartbeatMiss.                                                     *)

HeartbeatDeadlinePasses ==
    /\ Sweepers # {}
    /\ ~monitor.overdue
    /\ monitor' = [monitor EXCEPT !.overdue = TRUE]
    /\ UNCHANGED <<incident, procVars, request, alertVars>>

\* During maintenance the sweep only holds the monitor PAUSED.
MissHeld(p) ==
    /\ p \in Sweepers
    /\ pc[p] = "loaded"
    /\ monitor.exists
    /\ TRUE \in SeesWindow
    /\ monitor' = IF snap[p].status # "PAUSED"
                  THEN [monitor EXCEPT !.status = "PAUSED"] ELSE monitor
    /\ Rest(p)
    /\ UNCHANGED <<incident, request, alertVars>>

\* Mutant: the sweep flips the status and forgets the incident.
MissCommitStatusOnly(p, new) ==
    /\ p \in Sweepers
    /\ pc[p] = "loaded"
    /\ monitor.exists
    /\ monitor' = [monitor EXCEPT !.status = "DOWN", !.failures = Grace]
    /\ Rest(p)
    /\ UNCHANGED <<incident, request, alertVars>>

\* One transaction marks the monitor DOWN and opens an incident.  Only the
\* legacy webhooks are told, and neither mute nor cooldown holds them back.
MissCommit(p, new) ==
    /\ p \in Sweepers
    /\ pc[p] = "loaded"
    /\ monitor.exists
    /\ ActiveIncidents = {}
    /\ incident[new] = "ABSENT"
    /\ monitor' = [monitor EXCEPT !.status = "DOWN", !.failures = Grace]
    /\ incident' = [incident EXCEPT ![new] = "OPEN"]
    /\ Sends("opened", {new})
    /\ Rest(p)
    /\ UNCHANGED <<request, revived>>

\* The insert hits the unique index: the whole transaction is rolled back and
\* the sweep logs the error.
MissConflict(p) ==
    /\ p \in Sweepers
    /\ pc[p] = "loaded"
    /\ ActiveIncidents # {}
    /\ Rest(p)
    /\ UNCHANGED <<monitor, incident, request, alertVars>>

-------------------------------------------------------------------------------
(* Users.                                                                  *)

Pause ==
    /\ "pause" \in UserActions
    /\ monitor.exists
    /\ monitor' = [monitor EXCEPT !.isActive = FALSE, !.status = "PAUSED"]
    /\ UNCHANGED <<incident, procVars, request, alertVars>>

\* Resuming forgets neither the failure count nor an open incident.
Resume ==
    /\ "pause" \in UserActions
    /\ monitor.exists
    /\ monitor' = [monitor EXCEPT !.isActive = TRUE, !.status = "UP"]
    /\ UNCHANGED <<incident, procVars, request, alertVars>>

\* Deleting the row cascades to its incidents.
Delete ==
    /\ "delete" \in UserActions
    /\ monitor.exists
    /\ monitor' = [monitor EXCEPT !.exists = FALSE]
    /\ incident' = [i \in Incidents |-> "ABSENT"]
    /\ UNCHANGED <<procVars, request, alertVars>>

\* Both handlers read the incident and refuse a resolved one...
ReadIncident(u, kind, i) ==
    /\ request[u] = NoRequest
    /\ Active(i)
    /\ request' = [request EXCEPT ![u] = [kind |-> kind, id |-> i]]
    /\ UNCHANGED <<monitor, incident, procVars, alertVars>>

Answer(u) == request' = [request EXCEPT ![u] = NoRequest]

\* ...and then, after checking the user's role, update it by id alone.
AcknowledgeUnindexed(u) ==    \* Mutant: no unique index on the update
    /\ request[u].kind = "acknowledge"
    /\ incident[request[u].id] # "ABSENT"
    /\ incident' = [incident EXCEPT ![request[u].id] = "ACKNOWLEDGED"]
    /\ Answer(u)
    /\ UNCHANGED <<monitor, pc, snap, plan, alertVars>>

AcknowledgeWrites(u) ==
    /\ request[u].kind = "acknowledge"
    /\ incident[request[u].id] # "ABSENT"
    /\ ActiveIncidents \subseteq {request[u].id}
    /\ incident' = [incident EXCEPT ![request[u].id] = "ACKNOWLEDGED"]
    /\ revived' = revived \cup {i \in {request[u].id} : Announcing(i)}
    /\ Answer(u)
    /\ UNCHANGED <<monitor, procVars, outbox>>

\* The row is gone, or making it active again would break the unique index.
AcknowledgeFails(u) ==
    /\ request[u].kind = "acknowledge"
    /\ \/ incident[request[u].id] = "ABSENT"
       \/ ~(ActiveIncidents \subseteq {request[u].id})
    /\ Answer(u)
    /\ UNCHANGED <<monitor, incident, procVars, alertVars>>

ResolveWrites(u) ==
    /\ request[u].kind = "resolve"
    /\ incident[request[u].id] # "ABSENT"
    /\ incident' = [incident EXCEPT ![request[u].id] = "RESOLVED"]
    /\ Sends("resolved", {request[u].id})
    /\ ForgetsResolved
    /\ Answer(u)
    /\ UNCHANGED <<monitor, procVars>>

ResolveFails(u) ==
    /\ request[u].kind = "resolve"
    /\ incident[request[u].id] = "ABSENT"
    /\ Answer(u)
    /\ UNCHANGED <<monitor, incident, procVars, alertVars>>

\* The webhooks and then the channels have been told, or the process that was telling
\* them is gone; until then they are told at any time.
Told(a) ==
    /\ a \in outbox
    /\ outbox' = outbox \ {a}
    /\ revived' = IF a.event = "resolved" THEN revived \ {a.id} ELSE revived
    /\ UNCHANGED <<monitor, incident, procVars, request>>

-------------------------------------------------------------------------------

Loads(p) == ConsumerLoads(p) \/ CheckNowLoads(p) \/ HeartbeatLoads(p) \/ SweepLoads(p)

Lands(p) == Commit(p) \/ \E new \in Incidents : CommitOpening(p, new)

Misses(p) == MissHeld(p) \/ MissConflict(p) \/ \E new \in Incidents : MissCommit(p, new)

ProcStep(p) ==
    \/ Loads(p)
    \/ PingOrStamp(p)
    \/ \E o \in Outcomes : Decide(p, o)
    \/ Lands(p)
    \/ CommitConflict(p)
    \/ Misses(p)
    \/ Abandon(p)

UserStep(u) ==
    \/ \E kind \in {"acknowledge", "resolve"}, i \in Incidents : ReadIncident(u, kind, i)
    \/ AcknowledgeWrites(u)
    \/ AcknowledgeFails(u)
    \/ ResolveWrites(u)
    \/ ResolveFails(u)

Next ==
    \/ \E p \in Procs : ProcStep(p)
    \/ \E u \in Users : UserStep(u)
    \/ \E a \in Alert : Told(a)
    \/ HeartbeatDeadlinePasses
    \/ Pause
    \/ Resume
    \/ Delete

Spec == Init /\ [][Next]_vars

\* Results keep coming, since the scheduler keeps dispatching; the sweep keeps
\* ticking; beats owe us nothing.  A process that keeps starting its handler is
\* not cut off before the same step every time, and the database does not refuse
\* every one of infinitely many transactions.
Fairness ==
    /\ \A p \in Consumers : SF_vars(ConsumerLoads(p))
    /\ \A p \in Sweepers : SF_vars(SweepLoads(p)) /\ SF_vars(Misses(p))
    /\ \A p \in Appliers : /\ SF_vars(PingOrStamp(p))
                           /\ SF_vars(\E o \in Outcomes : Decide(p, o))
                           /\ SF_vars(CommitConflict(p))
                           /\ SF_vars(Lands(p))

FairSpec == Spec /\ Fairness

\* Bound of the liveness runs, an action constraint: the last incident the model
\* has an identity for is not resolved, since no further outage could be recorded
\* after it.
KeepsAnIdentity ==
    \/ \E i \in Incidents : incident[i] = "ABSENT"
    \/ \A i \in Incidents : incident'[i] = "RESOLVED" => incident[i] = "RESOLVED"

\* Bound of the race run, a state constraint: resolved alerts under way are followed one
\* at a time, opened ones no further than the step that decides on them.  Nobody reads
\* an alert, and every page may be held back, so nothing else is lost by it.
OneAlertUnderWay == Cardinality(outbox) <= 1 /\ \A a \in outbox : a.event = "resolved"

-------------------------------------------------------------------------------
(* Safety.                                                                 *)

\* However results, sweeps, acknowledgements and resolutions interleave, the
\* monitor never has two active incidents: applyCheckResult's P2002 branch,
\* the sweep's rollback and the index together see to it.
AtMostOneActive == Timeline!OneActive

\* A monitor shown DOWN or DEGRADED has at least graceThreshold failures on its
\* counter: although every writer computes both columns from a stale snapshot
\* and overwrites the row, status and counter are never a torn pair.
FaultIsBacked == monitor.status \in Faulty => monitor.failures >= Grace

\* An incident is opened only by the very transaction that marks the monitor
\* faulty at exactly the threshold: never by a result that is below it, beyond
\* it, or held back by a maintenance window.
OpensAtThreshold ==
    [][\A i \in Incidents :
          incident[i] = "ABSENT" /\ incident'[i] = "OPEN" =>
              monitor'.status \in Faulty /\ monitor'.failures = Grace]_vars

\* A result resolves incidents only while it also clears the failure counter
\* and shows the monitor UP (PAUSED inside a window): no failing result, and no
\* sweep, ever closes an incident.
ResolvesOnRecovery ==
    [][\A i \in Incidents :
          /\ Active(i)
          /\ incident'[i] = "RESOLVED"
          /\ request' = request
          => monitor'.status \in {"UP", "PAUSED"} /\ monitor'.failures = 0]_vars

\* An incident.opened alert names an incident that the alerting transaction
\* itself inserted: a result that lost the race to open one (P2002) stays silent.
OpenedPageIsOwn ==
    [][\A i \in Incidents :
          [event |-> "opened", id |-> i] \in outbox' \ outbox =>
              incident[i] = "ABSENT" /\ incident'[i] = "OPEN"]_vars

\* As long as an incident.resolved alert is on its way, its incident is resolved or
\* gone with the monitor, or an acknowledgement that had read it before took it back:
\* the list applyCheckResult announces was read before the transaction, and between
\* commit and announcement, as in resolveIncidentService, anybody may write.
ResolvedPageIsTrue ==
    \A i \in Incidents :
        Announcing(i) => incident[i] = "RESOLVED" \/ i \in revived \/ ~monitor.exists

\* The incident table behaves as IncidentTimeline says.
TimelineSpec == Timeline!Spec

\* With a single consumer and nobody else writing, an incident is active exactly
\* while the monitor is shown faulty: no outage without incident, none left over.
OutageHasIncident == (monitor.status \in Faulty) <=> (ActiveIncidents # {})

-------------------------------------------------------------------------------
(* Liveness.                                                               *)

\* A plan carries a failure exactly when its counter is not zero.
FromSomePointAllFail ==
    <>[](\A p \in Appliers : pc[p] = "decided" => plan[p].failures > 0)
FromSomePointAllSucceed ==
    <>[](\A p \in Appliers : pc[p] = "decided" => plan[p].failures = 0)

\* If from some point on every result fails, applied one at a time, the monitor
\* ends up with an incident open for it.
FailureIsReported == FromSomePointAllFail => <>[](ActiveIncidents # {})

\* If from some point on every result says "up", applied one at a time, no
\* incident stays active.
RecoveryIsReported == FromSomePointAllSucceed => <>[](ActiveIncidents = {})

\* A push monitor that stays overdue, and from some point on is neither paused nor
\* held in a window, has an incident for good in the end, however late beats,
\* sweeps of two replicas, pauses and windows interleaved before.
StaysSilent ==
    <>[](monitor.overdue /\ monitor.isActive /\ monitor.status # "PAUSED")
SilenceHasIncident == StaysSilent => <>[](ActiveIncidents # {})

===============================================================================

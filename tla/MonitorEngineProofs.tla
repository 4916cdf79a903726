------------------------- MODULE MonitorEngineProofs -------------------------
(***************************************************************************)
(* Theorems about MonitorEngine for any number of processes, users and     *)
(* incidents and any threshold.                                            *)
(***************************************************************************)
EXTENDS MonitorEngine, TLAPS

(***************************************************************************)
(* The inductive invariant.  The row alone does not tell why it may not be *)
(* torn: the argument goes through what the processes carry.  A snapshot   *)
(* is an honest copy of some past row; a plan computed from it is sound in *)
(* itself; and a row only ever receives a sound plan's two columns         *)
(* together.                                                               *)
(***************************************************************************)

\* A faulty status comes with a counter at or above the threshold.
Backed(status, failures) == status \in Faulty => failures >= Grace

SnapsBacked == \A p \in Procs : Backed(snap[p].status, snap[p].failures)

SoundPlan(pl) ==
    /\ Backed(pl.target, pl.failures)
    /\ pl.opens => pl.target \in Faulty /\ pl.failures = Grace
    /\ pl.found # {} => pl.target \in {"UP", "PAUSED"} /\ pl.failures = 0

PlansSound == \A p \in Procs : SoundPlan(plan[p])

IInv ==
    /\ TypeOK
    /\ AtMostOneActive
    /\ FaultIsBacked
    /\ SnapsBacked
    /\ PlansSound

-------------------------------------------------------------------------------

\* Tuples of variables are read as their components throughout.
USE DEF procVars, alertVars

\* Every outcome, applied to any well-formed snapshot, gives a well-formed plan.
LEMMA PlanForType ==
    ASSUME NEW view \in View, NEW o \in Outcomes, NEW w \in BOOLEAN
    PROVE  PlanFor(view, o, w) \in Plan
<1>1. CountedFailures(view, o) \in Failures
  BY GraceAssumption DEF CountedFailures, Failures, View
<1>2. StatusAfter(view, o) \in Statuses
  BY DEF StatusAfter, BreachStatus, Statuses, View
<1>3. FoundToResolve(view, o) \in SUBSET Incidents
  BY DEF FoundToResolve, ActiveIncidents
<1>4. (CrossesThreshold(view, o) /\ ~w) \in BOOLEAN
  OBVIOUS
<1> QED
  BY <1>1, <1>2, <1>3, <1>4 DEF PlanFor, Plan, Statuses

\* The plan made from a backed snapshot is sound: it shows a fault only at or
\* above the threshold, opens only at it, and resolves only on recovery.
LEMMA PlanForSound ==
    ASSUME NEW view \in View, NEW o \in Outcomes, NEW w \in BOOLEAN,
           Backed(view.status, view.failures)
    PROVE  SoundPlan(PlanFor(view, o, w))
<1> DEFINE pl == PlanFor(view, o, w)
<1>1. CASE o = "up"
  BY <1>1, GraceAssumption
  DEF PlanFor, SoundPlan, Backed, StatusAfter, CrossesThreshold, CountedFailures, Faulty
<1>2. CASE o # "up"
  <2>1. CountedFailures(view, o) >= Grace \/ view.status \notin Faulty
    BY <1>2, GraceAssumption DEF CountedFailures, Backed, View, Failures
  <2>2. FoundToResolve(view, o) = {}
    BY <1>2 DEF FoundToResolve
  <2>3. CountedFailures(view, o) \in Nat
    BY GraceAssumption DEF CountedFailures, View, Failures
  <2>4. BreachStatus(o) \in Faulty
    BY DEF BreachStatus, Faulty
  <2>5. Backed(pl.target, pl.failures)
    BY <1>2, <2>1, <2>3 DEF PlanFor, Backed, StatusAfter, Faulty
  <2>6. pl.opens => pl.target \in Faulty /\ pl.failures = Grace
    <3> SUFFICES ASSUME pl.opens PROVE pl.target \in Faulty /\ pl.failures = Grace
      OBVIOUS
    <3>1. pl.opens = (CrossesThreshold(view, o) /\ ~w)
      BY DEF PlanFor
    <3>2. CountedFailures(view, o) = Grace /\ ~w
      BY <3>1 DEF CrossesThreshold
    <3>3. StatusAfter(view, o) = BreachStatus(o)
      BY <1>2, <3>2, GraceAssumption DEF StatusAfter
    <3> QED
      BY <2>4, <3>2, <3>3 DEF PlanFor
  <2> QED
    BY <2>2, <2>5, <2>6 DEF SoundPlan, PlanFor
<1> QED
  BY <1>1, <1>2

\* A process that has come to rest carries nothing that needs an argument.
LEMMA RestIsSound == Backed(NoView.status, NoView.failures) /\ SoundPlan(NoPlan)
BY DEF Backed, SoundPlan, NoView, NoPlan, Faulty

LEMMA RestType == NoView \in View /\ NoPlan \in Plan
BY GraceAssumption DEF NoView, NoPlan, View, Plan, Statuses, Failures

-------------------------------------------------------------------------------

LEMMA InitIInv == Init => IInv
<1> SUFFICES ASSUME Init PROVE IInv
  OBVIOUS
<1> USE DEF Init
<1>1. TypeOK
  BY RestType, GraceAssumption
  DEF TypeOK, Alert, Timeline!TypeOK, Timeline!States, Requests, Statuses, Failures
<1>2. AtMostOneActive
  BY DEF AtMostOneActive, Timeline!OneActive, Timeline!IndexHolds, Timeline!IsActive
<1>3. FaultIsBacked
  BY DEF FaultIsBacked, Faulty
<1>4. SnapsBacked /\ PlansSound
  BY RestIsSound DEF SnapsBacked, PlansSound
<1> QED
  BY <1>1, <1>2, <1>3, <1>4 DEF IInv

\* The two index facts every insert and every acknowledgement rests on.
LEMMA OpeningKeepsIndex ==
    ASSUME TypeOK, NEW i \in Incidents, NEW state \in {"OPEN", "ACKNOWLEDGED"},
           ActiveIncidents \subseteq {i},
           incident' = [incident EXCEPT ![i] = state]
    PROVE  AtMostOneActive'
BY DEF TypeOK, Timeline!TypeOK, AtMostOneActive, Timeline!OneActive, Timeline!IndexHolds,
       ActiveIncidents, Active, Timeline!IsActive

LEMMA ClosingKeepsIndex ==
    ASSUME TypeOK, AtMostOneActive,
           incident' \in [Incidents -> Timeline!States],
           \A i \in Incidents : Active(i)' => Active(i)
    PROVE  AtMostOneActive'
BY DEF AtMostOneActive, Timeline!OneActive, Timeline!IndexHolds, Active

\* Coming to rest leaves every other process as it was.
LEMMA RestKeeps ==
    ASSUME TypeOK, SnapsBacked, PlansSound, NEW p \in Procs, Rest(p)
    PROVE  /\ pc' \in [Procs -> {"idle", "loaded", "pinged", "decided"}]
           /\ snap' \in [Procs -> View]
           /\ plan' \in [Procs -> Plan]
           /\ SnapsBacked'
           /\ PlansSound'
<1>1. /\ pc' \in [Procs -> {"idle", "loaded", "pinged", "decided"}]
      /\ snap' \in [Procs -> View]
      /\ plan' \in [Procs -> Plan]
  BY RestType DEF Rest, TypeOK
<1>2. SnapsBacked'
  BY RestIsSound DEF Rest, TypeOK, SnapsBacked
<1>3. PlansSound'
  BY RestIsSound DEF Rest, TypeOK, PlansSound
<1> QED
  BY <1>1, <1>2, <1>3

\* What an action that leaves rows and plans alone has to show.
LEMMA QuietStep ==
    ASSUME IInv, UNCHANGED <<incident, plan, snap>>, TypeOK',
           monitor'.status = monitor.status, monitor'.failures = monitor.failures
    PROVE  IInv'
<1>1. AtMostOneActive' /\ SnapsBacked' /\ PlansSound'
  BY DEF IInv, AtMostOneActive, Timeline!OneActive, Timeline!IndexHolds, SnapsBacked, PlansSound
<1>2. FaultIsBacked'
  BY DEF IInv, FaultIsBacked
<1> QED
  BY <1>1, <1>2 DEF IInv

\* What an action that only rewrites incident rows, closing some, has to show.
LEMMA ClosingStep ==
    ASSUME IInv, UNCHANGED <<plan, snap>>, TypeOK',
           monitor'.status = monitor.status, monitor'.failures = monitor.failures,
           \A i \in Incidents : Active(i)' => Active(i)
    PROVE  IInv'
<1>1. AtMostOneActive'
  BY ClosingKeepsIndex DEF IInv, TypeOK, Timeline!TypeOK
<1>2. SnapsBacked' /\ PlansSound' /\ FaultIsBacked'
  BY DEF IInv, SnapsBacked, PlansSound, FaultIsBacked
<1> QED
  BY <1>1, <1>2 DEF IInv

\* Only alerts of the two kinds that are followed come under way.
LEMMA SendsType ==
    ASSUME TypeOK, NEW event \in {"opened", "resolved"}, NEW S \in SUBSET Incidents,
           \/ Sends(event, S)
           \/ Page(event, S)
    PROVE  outbox' \subseteq Alert
BY DEF TypeOK, Sends, Page, Alert

LEMMA LoadKeeps == ASSUME IInv, NEW p \in Procs, Load(p) PROVE IInv'
<1> USE DEF Load
<1>1. CurrentView \in View /\ Backed(CurrentView.status, CurrentView.failures)
  BY DEF IInv, TypeOK, CurrentView, View, FaultIsBacked, Backed
<1>2. TypeOK'
  BY <1>1 DEF IInv, TypeOK, Timeline!TypeOK
<1>3. SnapsBacked'
  BY <1>1 DEF IInv, TypeOK, SnapsBacked
<1>4. AtMostOneActive' /\ FaultIsBacked' /\ PlansSound'
  BY DEF IInv, AtMostOneActive, Timeline!OneActive, Timeline!IndexHolds, FaultIsBacked, PlansSound
<1> QED
  BY <1>2, <1>3, <1>4 DEF IInv

LEMMA PingOrStampKeeps == ASSUME IInv, NEW p \in Procs, PingOrStamp(p) PROVE IInv'
<1> USE DEF PingOrStamp
<1>1. TypeOK'
  BY DEF IInv, TypeOK, Timeline!TypeOK
<1> QED
  BY <1>1, QuietStep DEF IInv, TypeOK

LEMMA DecideKeeps ==
    ASSUME IInv, NEW p \in Procs, NEW o \in Outcomes, Decide(p, o) PROVE IInv'
<1>1. PICK w \in SeesWindow : plan' = [plan EXCEPT ![p] = PlanFor(snap[p], o, w)]
  BY DEF Decide
<1>2. w \in BOOLEAN
  BY <1>1 DEF SeesWindow
<1>3. snap[p] \in View /\ Backed(snap[p].status, snap[p].failures)
  BY DEF IInv, TypeOK, SnapsBacked
<1>4. PlanFor(snap[p], o, w) \in Plan /\ SoundPlan(PlanFor(snap[p], o, w))
  BY <1>2, <1>3, PlanForType, PlanForSound
<1>5. TypeOK'
  BY <1>1, <1>4, RestType DEF Decide, IInv, TypeOK, Timeline!TypeOK
<1>6. PlansSound'
  BY <1>1, <1>4 DEF IInv, TypeOK, PlansSound
<1>7. SnapsBacked'
  BY RestIsSound DEF Decide, IInv, TypeOK, SnapsBacked
<1>8. AtMostOneActive' /\ FaultIsBacked'
  BY DEF Decide, IInv, AtMostOneActive, Timeline!OneActive, Timeline!IndexHolds, FaultIsBacked
<1> QED
  BY <1>5, <1>6, <1>7, <1>8 DEF IInv

\* Writing a sound plan's columns together leaves the row backed and typed.
LEMMA WriteRowKeeps ==
    ASSUME TypeOK, NEW pl \in Plan, SoundPlan(pl), WriteRow(pl)
    PROVE  /\ FaultIsBacked'
           /\ monitor' \in [exists : BOOLEAN, isActive : BOOLEAN, status : Statuses,
                            failures : Failures, overdue : BOOLEAN]
BY DEF TypeOK, WriteRow, SoundPlan, Backed, FaultIsBacked, Plan

LEMMA CommitOpeningKeeps ==
    ASSUME IInv, NEW p \in Procs, NEW new \in Incidents, CommitOpening(p, new) PROVE IInv'
<1> USE DEF CommitOpening
<1>1. plan[p] \in Plan /\ SoundPlan(plan[p])
  BY DEF IInv, TypeOK, PlansSound
<1>2. ActiveIncidents \subseteq {new}
  BY DEF InsertConflicts
<1>3. AtMostOneActive'
  BY <1>2, OpeningKeepsIndex DEF IInv
<1>4. incident' \in [Incidents -> Timeline!States]
  BY DEF IInv, TypeOK, Timeline!TypeOK, Timeline!States
<1>5. outbox' \subseteq Alert
  BY SendsType DEF IInv
<1>6. TypeOK' /\ FaultIsBacked' /\ SnapsBacked' /\ PlansSound'
  BY <1>1, <1>4, <1>5, WriteRowKeeps, RestKeeps DEF IInv, TypeOK, Timeline!TypeOK
<1> QED
  BY <1>3, <1>6 DEF IInv

LEMMA CommitKeeps == ASSUME IInv, NEW p \in Procs, Commit(p) PROVE IInv'
<1> USE DEF Commit
<1>1. plan[p] \in Plan /\ SoundPlan(plan[p])
  BY DEF IInv, TypeOK, PlansSound
<1>2. incident' \in [Incidents -> Timeline!States]
  BY DEF IInv, TypeOK, Timeline!TypeOK, Timeline!States, ResolveAll
<1>3. \A i \in Incidents : Active(i)' => Active(i)
  BY DEF ResolveAll, Active, Timeline!IsActive
<1>4. AtMostOneActive'
  BY <1>2, <1>3, ClosingKeepsIndex DEF IInv
<1>5. outbox' \subseteq Alert /\ revived' \subseteq Incidents
  BY <1>1, SendsType DEF IInv, TypeOK, Plan, ForgetsResolved
<1>6. TypeOK' /\ FaultIsBacked' /\ SnapsBacked' /\ PlansSound'
  BY <1>1, <1>2, <1>5, WriteRowKeeps, RestKeeps DEF IInv, TypeOK, Timeline!TypeOK
<1> QED
  BY <1>4, <1>6 DEF IInv

LEMMA CommitConflictKeeps == ASSUME IInv, NEW p \in Procs, CommitConflict(p) PROVE IInv'
<1> USE DEF CommitConflict
<1>1. plan[p] \in Plan /\ SoundPlan(plan[p])
  BY DEF IInv, TypeOK, PlansSound
<1>2. [plan[p] EXCEPT !.opens = FALSE] \in Plan
  BY <1>1 DEF Plan
<1>3. SoundPlan([plan[p] EXCEPT !.opens = FALSE])
  BY <1>1 DEF SoundPlan, Plan
<1>4. plan' = [plan EXCEPT ![p] = [plan[p] EXCEPT !.opens = FALSE]]
  OBVIOUS
<1>5. TypeOK'
  BY <1>2, <1>4 DEF IInv, TypeOK, Timeline!TypeOK
<1>6. PlansSound'
  BY <1>3, <1>4 DEF IInv, TypeOK, PlansSound
<1>7. AtMostOneActive' /\ FaultIsBacked' /\ SnapsBacked'
  BY DEF IInv, AtMostOneActive, Timeline!OneActive, Timeline!IndexHolds, FaultIsBacked, SnapsBacked
<1> QED
  BY <1>5, <1>6, <1>7 DEF IInv

LEMMA AbandonKeeps ==
    ASSUME IInv, NEW p \in Procs, Rest(p), UNCHANGED <<monitor, incident, request, alertVars>>
    PROVE  IInv'
<1>1. TypeOK' /\ SnapsBacked' /\ PlansSound'
  BY RestKeeps DEF IInv, TypeOK, Timeline!TypeOK
<1>2. AtMostOneActive' /\ FaultIsBacked'
  BY DEF IInv, AtMostOneActive, Timeline!OneActive, Timeline!IndexHolds, FaultIsBacked
<1> QED
  BY <1>1, <1>2 DEF IInv

LEMMA MissHeldKeeps == ASSUME IInv, NEW p \in Procs, MissHeld(p) PROVE IInv'
<1> USE DEF MissHeld
<1>1. /\ FaultIsBacked'
      /\ monitor' \in [exists : BOOLEAN, isActive : BOOLEAN, status : Statuses,
                       failures : Failures, overdue : BOOLEAN]
  BY DEF IInv, TypeOK, FaultIsBacked, Faulty, Statuses
<1>2. TypeOK' /\ SnapsBacked' /\ PlansSound'
  BY <1>1, RestKeeps DEF IInv, TypeOK, Timeline!TypeOK
<1>3. AtMostOneActive'
  BY DEF IInv, AtMostOneActive, Timeline!OneActive, Timeline!IndexHolds
<1> QED
  BY <1>1, <1>2, <1>3 DEF IInv

LEMMA MissCommitKeeps ==
    ASSUME IInv, NEW p \in Procs, NEW new \in Incidents, MissCommit(p, new) PROVE IInv'
<1> USE DEF MissCommit
<1>1. /\ FaultIsBacked'
      /\ monitor' \in [exists : BOOLEAN, isActive : BOOLEAN, status : Statuses,
                       failures : Failures, overdue : BOOLEAN]
  <2>1. Grace \in Failures /\ Grace >= Grace
    BY GraceAssumption DEF Failures
  <2>2. monitor' = [monitor EXCEPT !.status = "DOWN", !.failures = Grace]
    OBVIOUS
  <2>3. monitor'.failures = Grace
    BY <2>2 DEF IInv, TypeOK
  <2> QED
    BY <2>1, <2>2, <2>3 DEF IInv, TypeOK, FaultIsBacked, Statuses
<1>2. AtMostOneActive'
  BY OpeningKeepsIndex DEF IInv
<1>3. incident' \in [Incidents -> Timeline!States]
  BY DEF IInv, TypeOK, Timeline!TypeOK, Timeline!States
<1>4. outbox' \subseteq Alert
  BY SendsType DEF IInv
<1>5. TypeOK' /\ SnapsBacked' /\ PlansSound'
  BY <1>1, <1>3, <1>4, RestKeeps DEF IInv, TypeOK, Timeline!TypeOK
<1> QED
  BY <1>1, <1>2, <1>5 DEF IInv

LEMMA UserStepKeeps == ASSUME IInv, NEW u \in Users, UserStep(u) PROVE IInv'
<1>1. ASSUME NEW kind \in {"acknowledge", "resolve"}, NEW i \in Incidents,
             ReadIncident(u, kind, i)
      PROVE  IInv'
  <2>1. TypeOK'
    BY <1>1 DEF ReadIncident, IInv, TypeOK, Timeline!TypeOK, Requests
  <2> QED
    BY <1>1, <2>1, QuietStep DEF ReadIncident
<1>2. CASE AcknowledgeWrites(u)
  <2> USE DEF AcknowledgeWrites, Answer
  <2>1. request[u].id \in Incidents
    BY <1>2 DEF IInv, TypeOK, Requests, NoRequest
  <2>2. AtMostOneActive'
    BY <1>2, <2>1, OpeningKeepsIndex DEF IInv
  <2>3. TypeOK'
    BY <1>2, <2>1 DEF IInv, TypeOK, Timeline!TypeOK, Timeline!States, Requests
  <2>4. FaultIsBacked' /\ SnapsBacked' /\ PlansSound'
    BY <1>2 DEF IInv, FaultIsBacked, SnapsBacked, PlansSound
  <2> QED
    BY <2>2, <2>3, <2>4 DEF IInv
<1>3. CASE ResolveWrites(u)
  <2> USE DEF ResolveWrites, Answer
  <2>1. request[u].id \in Incidents
    BY <1>3 DEF IInv, TypeOK, Requests, NoRequest
  <2>2. TypeOK'
    <3>1. outbox' \subseteq Alert /\ revived' \subseteq Incidents
      BY <1>3, <2>1, SendsType DEF IInv, TypeOK, ForgetsResolved
    <3> QED
      BY <1>3, <2>1, <3>1
      DEF IInv, TypeOK, Timeline!TypeOK, Timeline!States, Requests
  <2>3. \A i \in Incidents : Active(i)' => Active(i)
    BY <1>3, <2>1 DEF Active, Timeline!IsActive, IInv, TypeOK, Timeline!TypeOK
  <2> QED
    BY <1>3, <2>2, <2>3, ClosingStep
<1>4. CASE AcknowledgeFails(u) \/ ResolveFails(u)
  <2>1. TypeOK'
    BY <1>4 DEF AcknowledgeFails, ResolveFails, Answer, IInv, TypeOK, Timeline!TypeOK, Requests
  <2> QED
    BY <1>4, <2>1, QuietStep DEF AcknowledgeFails, ResolveFails
<1> QED
  BY <1>1, <1>2, <1>3, <1>4 DEF UserStep

LEMMA PauseKeeps == ASSUME IInv, Pause \/ Resume PROVE IInv'
<1> USE DEF Pause, Resume
<1>1. TypeOK' /\ FaultIsBacked'
  BY DEF IInv, TypeOK, Timeline!TypeOK, Statuses, FaultIsBacked, Faulty
<1>2. AtMostOneActive' /\ SnapsBacked' /\ PlansSound'
  BY DEF IInv, AtMostOneActive, Timeline!OneActive, Timeline!IndexHolds, SnapsBacked, PlansSound
<1> QED
  BY <1>1, <1>2 DEF IInv

LEMMA DeleteKeeps == ASSUME IInv, Delete PROVE IInv'
<1> USE DEF Delete
<1>1. TypeOK'
  BY DEF IInv, TypeOK, Timeline!TypeOK, Timeline!States
<1>2. \A i \in Incidents : Active(i)' => Active(i)
  BY DEF Active, Timeline!IsActive
<1> QED
  BY <1>1, <1>2, ClosingStep DEF IInv, TypeOK

\* Every step of every process and user keeps the invariant.
LEMMA NextIInv == IInv /\ [Next]_vars => IInv'
<1> SUFFICES ASSUME IInv, [Next]_vars PROVE IInv'
  OBVIOUS
<1>1. ASSUME NEW p \in Procs, ProcStep(p) PROVE IInv'
  <2>1. CASE Loads(p)
    BY <2>1, LoadKeeps DEF Loads, ConsumerLoads, CheckNowLoads, HeartbeatLoads, SweepLoads
  <2>2. CASE PingOrStamp(p)
    BY <2>2, PingOrStampKeeps
  <2>3. CASE \E o \in Outcomes : Decide(p, o)
    BY <2>3, DecideKeeps
  <2>4. CASE Lands(p)
    BY <2>4, CommitKeeps, CommitOpeningKeeps DEF Lands
  <2>5. CASE CommitConflict(p)
    BY <2>5, CommitConflictKeeps
  <2>6. CASE Misses(p)
    <3>1. CASE MissHeld(p)
      BY <3>1, MissHeldKeeps
    <3>2. CASE MissConflict(p)
      BY <3>2, AbandonKeeps DEF MissConflict
    <3>3. CASE \E new \in Incidents : MissCommit(p, new)
      BY <3>3, MissCommitKeeps
    <3> QED
      BY <2>6, <3>1, <3>2, <3>3 DEF Misses
  <2>7. CASE Abandon(p)
    BY <2>7, AbandonKeeps DEF Abandon
  <2> QED
    BY <1>1, <2>1, <2>2, <2>3, <2>4, <2>5, <2>6, <2>7 DEF ProcStep
<1>2. CASE \E u \in Users : UserStep(u)
  BY <1>2, UserStepKeeps
<1>3. CASE HeartbeatDeadlinePasses
  <2>1. TypeOK'
    BY <1>3 DEF HeartbeatDeadlinePasses, IInv, TypeOK, Timeline!TypeOK
  <2> QED
    BY <1>3, <2>1, QuietStep DEF HeartbeatDeadlinePasses, IInv, TypeOK
<1>4. CASE Pause \/ Resume
  BY <1>4, PauseKeeps
<1>5. CASE Delete
  BY <1>5, DeleteKeeps
<1>6. CASE \E a \in Alert : Told(a)
  <2>1. TypeOK'
    BY <1>6 DEF Told, IInv, TypeOK, Timeline!TypeOK
  <2> QED
    BY <1>6, <2>1, QuietStep DEF Told
<1>7. CASE UNCHANGED vars
  BY <1>7, QuietStep DEF vars, IInv, TypeOK, Timeline!TypeOK
<1> QED
  BY <1>1, <1>2, <1>3, <1>4, <1>5, <1>6, <1>7 DEF Next

-------------------------------------------------------------------------------

\* The inductive invariant holds throughout: snapshots, plans and row stay sound
\* however applyCheckResult, the sweep and the users interleave.
THEOREM Inductive == Spec => []IInv
BY InitIInv, NextIInv, PTL DEF Spec

\* Every variable keeps its type, for any set of processes and any threshold.
THEOREM TypeCorrect == Spec => []TypeOK
<1>1. IInv => TypeOK
  BY DEF IInv
<1> QED
  BY Inductive, <1>1, PTL

\* At most one incident of the monitor is active (Incident_one_active_per_monitor,
\* the P2002 branch of applyCheckResult, the rollback of applyHeartbeatMiss).
THEOREM OneActiveIncident == Spec => []AtMostOneActive
<1>1. IInv => AtMostOneActive
  BY DEF IInv
<1> QED
  BY Inductive, <1>1, PTL

\* A monitor is never shown faulty below its threshold, although the writers of
\* its row act on stale snapshots.
THEOREM FaultsAreBacked == Spec => []FaultIsBacked
<1>1. IInv => FaultIsBacked
  BY DEF IInv
<1> QED
  BY Inductive, <1>1, PTL

-------------------------------------------------------------------------------

(***************************************************************************)
(* An alert about a resolution names rows that were listed before the      *)
(* transaction, which resolves what is active then, and goes out some time *)
(* after it.  A listed row cannot vanish while the monitor exists, so the  *)
(* commit leaves it resolved; from then on only an acknowledgement can     *)
(* make it active again.                                                   *)
(***************************************************************************)
FoundRowsExist ==
    monitor.exists => \A p \in Procs : \A i \in plan[p].found : incident[i] # "ABSENT"

LEMMA InitFound == Init => FoundRowsExist
BY DEF Init, FoundRowsExist, NoPlan

\* What keeps it: plans shrink or list active rows, rows stay, nothing is reborn.
LEMMA FoundStep ==
    ASSUME FoundRowsExist, TypeOK,
           monitor'.exists => monitor.exists,
           monitor'.exists => \A i \in Incidents : incident[i] # "ABSENT" => incident'[i] # "ABSENT",
           \A p \in Procs : plan'[p].found \subseteq plan[p].found \cup ActiveIncidents
    PROVE  FoundRowsExist'
<1> SUFFICES ASSUME monitor'.exists, NEW p \in Procs, NEW i \in plan'[p].found
             PROVE  incident'[i] # "ABSENT"
  BY DEF FoundRowsExist
<1>1. i \in plan[p].found \cup ActiveIncidents
  OBVIOUS
<1>2. i \in Incidents
  BY <1>1 DEF TypeOK, Plan, ActiveIncidents
<1>3. incident[i] # "ABSENT"
  BY <1>1 DEF FoundRowsExist, ActiveIncidents, Active, Timeline!IsActive
<1> QED
  BY <1>2, <1>3

LEMMA RestFound ==
    ASSUME TypeOK, NEW q \in Procs, Rest(q)
    PROVE  \A p \in Procs : plan'[p].found \subseteq plan[p].found \cup ActiveIncidents
BY DEF TypeOK, Rest, NoPlan

LEMMA NextFound == IInv /\ FoundRowsExist /\ [Next]_vars => FoundRowsExist'
<1> SUFFICES ASSUME IInv, FoundRowsExist, [Next]_vars PROVE FoundRowsExist'
  OBVIOUS
<1>0. TypeOK
  BY DEF IInv
<1> DEFINE Kept == \A p \in Procs : plan'[p].found \subseteq plan[p].found \cup ActiveIncidents
<1>1. ASSUME NEW p \in Procs, ProcStep(p) PROVE FoundRowsExist'
  <2>1. CASE Loads(p)
    BY <2>1, <1>0, FoundStep
    DEF Loads, ConsumerLoads, CheckNowLoads, HeartbeatLoads, SweepLoads, Load
  <2>2. CASE PingOrStamp(p)
    BY <2>2, <1>0, FoundStep DEF PingOrStamp, TypeOK
  <2>3. ASSUME NEW o \in Outcomes, Decide(p, o) PROVE FoundRowsExist'
    <3>1. PICK w \in SeesWindow : plan' = [plan EXCEPT ![p] = PlanFor(snap[p], o, w)]
      BY <2>3 DEF Decide
    <3>2. PlanFor(snap[p], o, w).found \subseteq ActiveIncidents
      BY DEF PlanFor, FoundToResolve
    <3>3. Kept
      BY <3>1, <3>2, <1>0 DEF TypeOK
    <3> QED
      BY <2>3, <3>3, <1>0, FoundStep DEF Decide
  <2>4. CASE Commit(p)
    <3>1. Kept
      BY <2>4, <1>0, RestFound DEF Commit
    <3>2. \A i \in Incidents : incident[i] # "ABSENT" => incident'[i] # "ABSENT"
      BY <2>4 DEF Commit, ResolveAll
    <3>3. monitor'.exists = monitor.exists
      BY <2>4, <1>0 DEF Commit, WriteRow, TypeOK
    <3> QED
      BY <3>1, <3>2, <3>3, <1>0, FoundStep
  <2>5. ASSUME NEW new \in Incidents, CommitOpening(p, new) \/ MissCommit(p, new)
        PROVE  FoundRowsExist'
    <3>1. Kept
      BY <2>5, <1>0, RestFound DEF CommitOpening, MissCommit
    <3>2. \A i \in Incidents : incident[i] # "ABSENT" => incident'[i] # "ABSENT"
      BY <2>5, <1>0 DEF CommitOpening, MissCommit, TypeOK, Timeline!TypeOK
    <3>3. monitor'.exists = monitor.exists
      BY <2>5, <1>0 DEF CommitOpening, MissCommit, WriteRow, TypeOK
    <3> QED
      BY <3>1, <3>2, <3>3, <1>0, FoundStep
  <2>6. CASE CommitConflict(p)
    <3>1. Kept
      BY <2>6, <1>0 DEF CommitConflict, TypeOK, Plan
    <3> QED
      BY <2>6, <3>1, <1>0, FoundStep DEF CommitConflict
  <2>7. CASE MissHeld(p)
    <3>1. Kept
      BY <2>7, <1>0, RestFound DEF MissHeld
    <3>2. monitor'.exists = monitor.exists
      BY <2>7, <1>0 DEF MissHeld, TypeOK
    <3> QED
      BY <2>7, <3>1, <3>2, <1>0, FoundStep DEF MissHeld
  <2>8. CASE MissConflict(p) \/ Abandon(p)
    <3>1. Kept
      BY <2>8, <1>0, RestFound DEF MissConflict, Abandon
    <3> QED
      BY <2>8, <3>1, <1>0, FoundStep DEF MissConflict, Abandon
  <2> QED
    BY <1>1, <2>1, <2>2, <2>3, <2>4, <2>5, <2>6, <2>7, <2>8 DEF ProcStep, Lands, Misses
<1>2. ASSUME NEW u \in Users, UserStep(u) PROVE FoundRowsExist'
  <2>1. \A i \in Incidents : incident[i] # "ABSENT" => incident'[i] # "ABSENT"
    BY <1>2, <1>0 DEF UserStep, ReadIncident, AcknowledgeWrites, AcknowledgeFails, ResolveWrites,
                      ResolveFails, TypeOK, Timeline!TypeOK
  <2>2. UNCHANGED <<monitor, plan>>
    BY <1>2 DEF UserStep, ReadIncident, AcknowledgeWrites, AcknowledgeFails, ResolveWrites,
                ResolveFails
  <2> QED
    BY <2>1, <2>2, <1>0, FoundStep
<1>3. CASE HeartbeatDeadlinePasses \/ Pause \/ Resume
  <2>1. monitor'.exists = monitor.exists /\ UNCHANGED <<plan, incident>>
    BY <1>3, <1>0 DEF HeartbeatDeadlinePasses, Pause, Resume, TypeOK
  <2> QED
    BY <2>1, <1>0, FoundStep
<1>4. CASE Delete
  BY <1>4, <1>0 DEF Delete, TypeOK, FoundRowsExist
<1>5. CASE UNCHANGED vars \/ \E a \in Alert : Told(a)
  BY <1>5, <1>0, FoundStep DEF vars, Told
<1> QED
  BY <1>1, <1>2, <1>3, <1>4, <1>5 DEF Next

\* What a step that announces no resolution has to show.
LEMMA AnnouncedStep ==
    ASSUME ResolvedPageIsTrue,
           \A i \in Incidents : Announcing(i)' => Announcing(i),
           \A i \in Incidents : Announcing(i)' /\ i \in revived => i \in revived',
           \A i \in Incidents :
               Announcing(i)' /\ incident[i] = "RESOLVED" =>
                   incident'[i] = "RESOLVED" \/ i \in revived' \/ ~monitor'.exists,
           ~monitor.exists => ~monitor'.exists
    PROVE  ResolvedPageIsTrue'
BY DEF ResolvedPageIsTrue

\* A commit announces only what it has just resolved.
LEMMA CommitAnnounces ==
    ASSUME TypeOK, FoundRowsExist, ResolvedPageIsTrue, NEW p \in Procs, Commit(p)
    PROVE  ResolvedPageIsTrue'
<1> SUFFICES ASSUME NEW i \in Incidents, Announcing(i)'
             PROVE  incident'[i] = "RESOLVED" \/ (i \in revived)' \/ ~monitor'.exists
  BY DEF ResolvedPageIsTrue
<1>1. CASE Announcing(i)
  <2>1. incident[i] = "RESOLVED" => incident'[i] = "RESOLVED"
    BY DEF Commit, ResolveAll
  <2>2. monitor.exists
    BY DEF Commit
  <2>3. i \in revived => i \in revived' \/ incident'[i] = "RESOLVED"
    BY DEF Commit, ForgetsResolved
  <2> QED
    BY <1>1, <2>1, <2>2, <2>3 DEF ResolvedPageIsTrue
<1>2. CASE i \in plan[p].found
  <2>1. incident[i] = "RESOLVED" \/ Active(i)
    BY <1>2 DEF Commit, FoundRowsExist, TypeOK, Timeline!TypeOK, Timeline!States, Active,
                Timeline!IsActive
  <2> QED
    BY <1>2, <2>1 DEF Commit, ResolveAll
<1> QED
  BY <1>1, <1>2 DEF Commit, Page, Sends, Announcing

LEMMA UserAnnounces ==
    ASSUME TypeOK, ResolvedPageIsTrue, NEW u \in Users, UserStep(u)
    PROVE  ResolvedPageIsTrue'
<1>1. CASE \E kind \in {"acknowledge", "resolve"}, i \in Incidents : ReadIncident(u, kind, i)
  BY <1>1 DEF ReadIncident, ResolvedPageIsTrue, Announcing
<1>2. CASE AcknowledgeFails(u) \/ ResolveFails(u)
  BY <1>2 DEF AcknowledgeFails, ResolveFails, ResolvedPageIsTrue, Announcing
<1>3. CASE AcknowledgeWrites(u)
  <2>1. request[u].id \in Incidents
    BY <1>3 DEF AcknowledgeWrites, TypeOK, Requests, NoRequest
  <2>2. \A i \in Incidents :
            i # request[u].id => incident'[i] = incident[i]
    BY <1>3, <2>1 DEF AcknowledgeWrites, TypeOK, Timeline!TypeOK
  <2> QED
    BY <1>3, <2>1, <2>2, AnnouncedStep DEF AcknowledgeWrites, Announcing
<1>4. CASE ResolveWrites(u)
  <2> DEFINE a == request[u].id
  <2>1. a \in Incidents
    BY <1>4 DEF ResolveWrites, TypeOK, Requests, NoRequest
  <2>2. incident'[a] = "RESOLVED" /\ \A i \in Incidents \ {a} : incident'[i] = incident[i]
    BY <1>4, <2>1 DEF ResolveWrites, TypeOK, Timeline!TypeOK
  <2>3. \A i \in Incidents \ {a} : Announcing(i)' => Announcing(i)
    BY <1>4, <2>1 DEF ResolveWrites, Sends, Announcing
  <2>4. \A i \in revived : i \in revived' \/ incident'[i] = "RESOLVED"
    BY <1>4 DEF ResolveWrites, ForgetsResolved
  <2>5. UNCHANGED monitor
    BY <1>4 DEF ResolveWrites
  <2> QED
    BY <2>1, <2>2, <2>3, <2>4, <2>5 DEF ResolvedPageIsTrue
<1> QED
  BY <1>1, <1>2, <1>3, <1>4 DEF UserStep

LEMMA NextAnnounces ==
    IInv /\ FoundRowsExist /\ ResolvedPageIsTrue /\ [Next]_vars => ResolvedPageIsTrue'
<1> SUFFICES ASSUME IInv, FoundRowsExist, ResolvedPageIsTrue, [Next]_vars
             PROVE  ResolvedPageIsTrue'
  OBVIOUS
<1>0. TypeOK
  BY DEF IInv
<1>1. ASSUME NEW p \in Procs, ProcStep(p) PROVE ResolvedPageIsTrue'
  <2>1. CASE Commit(p)
    BY <2>1, <1>0, CommitAnnounces
  <2>2. ASSUME NEW new \in Incidents, CommitOpening(p, new) \/ MissCommit(p, new)
        PROVE  ResolvedPageIsTrue'
    <3>1. \A i \in Incidents : Announcing(i)' => Announcing(i)
      BY <2>2 DEF CommitOpening, MissCommit, Page, Sends, Announcing
    <3>2. \A i \in Incidents : incident[i] = "RESOLVED" => incident'[i] = "RESOLVED"
      BY <2>2, <1>0 DEF CommitOpening, MissCommit, TypeOK, Timeline!TypeOK
    <3>3. monitor'.exists = monitor.exists /\ UNCHANGED revived
      BY <2>2, <1>0 DEF CommitOpening, MissCommit, WriteRow, TypeOK
    <3> QED
      BY <3>1, <3>2, <3>3, AnnouncedStep
  <2>3. ASSUME UNCHANGED <<incident, alertVars>>, monitor'.exists = monitor.exists
        PROVE  ResolvedPageIsTrue'
    BY <2>3 DEF ResolvedPageIsTrue, Announcing
  <2>4. CASE Loads(p) \/ CommitConflict(p) \/ MissConflict(p) \/ Abandon(p)
    BY <2>3, <2>4 DEF Loads, ConsumerLoads, CheckNowLoads, HeartbeatLoads, SweepLoads, Load,
                      CommitConflict, MissConflict, Abandon
  <2>5. CASE PingOrStamp(p) \/ MissHeld(p)
    BY <2>3, <2>5, <1>0 DEF PingOrStamp, MissHeld, TypeOK
  <2>6. CASE \E o \in Outcomes : Decide(p, o)
    BY <2>3, <2>6 DEF Decide
  <2> QED
    BY <1>1, <2>1, <2>2, <2>4, <2>5, <2>6 DEF ProcStep, Lands, Misses
<1>2. CASE \E u \in Users : UserStep(u)
  BY <1>2, <1>0, UserAnnounces
<1>3. CASE HeartbeatDeadlinePasses \/ Pause \/ Resume
  <2>1. monitor'.exists = monitor.exists
    BY <1>3, <1>0 DEF HeartbeatDeadlinePasses, Pause, Resume, TypeOK
  <2> QED
    BY <1>3, <2>1 DEF HeartbeatDeadlinePasses, Pause, Resume, ResolvedPageIsTrue, Announcing
<1>4. CASE Delete
  BY <1>4, <1>0 DEF Delete, TypeOK, ResolvedPageIsTrue
<1>5. ASSUME NEW a \in Alert, Told(a) PROVE ResolvedPageIsTrue'
  <2>1. \A i \in Incidents : Announcing(i)' => ~(a.event = "resolved" /\ a.id = i)
    BY <1>5 DEF Told, Announcing, Alert
  <2> QED
    BY <1>5, <2>1, AnnouncedStep DEF Told, Announcing
<1>6. CASE UNCHANGED vars
  BY <1>6 DEF vars, ResolvedPageIsTrue, Announcing
<1> QED
  BY <1>1, <1>2, <1>3, <1>4, <1>5, <1>6 DEF Next

\* As long as the news that an incident was resolved is under way it stays true, unless
\* the monitor is deleted or an acknowledgement that had read the incident before makes
\* it active again: nothing applyCheckResult, the sweep or another resolution does
\* between the commit and the announcement belies it.
THEOREM ResolvedPagesAreTrue == Spec => []ResolvedPageIsTrue
<1>1. Init => FoundRowsExist /\ ResolvedPageIsTrue
  BY InitFound DEF Init, ResolvedPageIsTrue, Announcing
<1> QED
  BY Inductive, NextFound, NextAnnounces, <1>1, PTL DEF Spec

-------------------------------------------------------------------------------

\* What one step may do to the incident table and what it may announce.
StepOpens == \A i \in Incidents :
    incident[i] = "ABSENT" /\ incident'[i] = "OPEN" =>
        monitor'.status \in Faulty /\ monitor'.failures = Grace

StepResolves == \A i \in Incidents :
    /\ Active(i)
    /\ incident'[i] = "RESOLVED"
    /\ request' = request
    => monitor'.status \in {"UP", "PAUSED"} /\ monitor'.failures = 0

StepAnnouncesOwn == \A i \in Incidents :
    [event |-> "opened", id |-> i] \in outbox' \ outbox =>
        incident[i] = "ABSENT" /\ incident'[i] = "OPEN"

GoodStep ==
    /\ StepOpens
    /\ StepResolves
    /\ StepAnnouncesOwn
    /\ [Timeline!Next]_incident

\* A step that announces nothing and leaves the table alone, or erases it.
LEMMA SilentStep ==
    ASSUME outbox' \subseteq outbox,
           \/ UNCHANGED incident
           \/ incident' = [i \in Incidents |-> "ABSENT"]
    PROVE  GoodStep
<1>1. [Timeline!Next]_incident
  BY DEF Timeline!Next, Timeline!Erase
<1> QED
  BY <1>1 DEF GoodStep, StepOpens, StepResolves, StepAnnouncesOwn, Active, Timeline!IsActive

\* A step that inserts one row and marks the monitor faulty at the threshold.
LEMMA OpeningStep ==
    ASSUME TypeOK, NEW new \in Incidents,
           incident[new] = "ABSENT", ActiveIncidents = {},
           incident' = [incident EXCEPT ![new] = "OPEN"],
           outbox' \subseteq outbox \cup [event : {"opened"}, id : {new}],
           monitor'.status \in Faulty, monitor'.failures = Grace
    PROVE  GoodStep
<1>1. StepOpens
  BY DEF StepOpens
<1>2. StepResolves
  BY DEF StepResolves, TypeOK, Timeline!TypeOK, Active, Timeline!IsActive
<1>3. incident'[new] = "OPEN"
  BY DEF TypeOK, Timeline!TypeOK
<1>4. StepAnnouncesOwn
  BY <1>3 DEF StepAnnouncesOwn
<1>6. Timeline!Open(new)
  BY DEF Timeline!Open, ActiveIncidents, Active
<1> QED
  BY <1>1, <1>2, <1>4, <1>6 DEF GoodStep, Timeline!Next

LEMMA CommitOpeningGood ==
    ASSUME IInv, NEW p \in Procs, NEW new \in Incidents, CommitOpening(p, new)
    PROVE  GoodStep
<1> USE DEF CommitOpening
<1>1. TypeOK /\ SoundPlan(plan[p]) /\ plan[p].opens
  BY DEF IInv, PlansSound
<1>2. monitor'.status \in Faulty /\ monitor'.failures = Grace
  BY <1>1 DEF SoundPlan, WriteRow, TypeOK
<1>3. outbox' \subseteq outbox \cup [event : {"opened"}, id : {new}]
  BY DEF Page, Sends
<1>4. ActiveIncidents = {}
  BY DEF InsertConflicts
<1> QED
  BY <1>1, <1>2, <1>3, <1>4, OpeningStep

LEMMA MissCommitGood ==
    ASSUME IInv, NEW p \in Procs, NEW new \in Incidents, MissCommit(p, new)
    PROVE  GoodStep
<1> USE DEF MissCommit
<1>1. TypeOK
  BY DEF IInv
<1>2. monitor' = [monitor EXCEPT !.status = "DOWN", !.failures = Grace]
  OBVIOUS
<1>3. monitor'.failures = Grace
  BY <1>1, <1>2 DEF TypeOK
<1>4. monitor'.status \in Faulty
  BY <1>1, <1>2 DEF TypeOK, Faulty
<1>5. outbox' \subseteq outbox \cup [event : {"opened"}, id : {new}]
  BY DEF Sends
<1> QED
  BY <1>1, <1>3, <1>4, <1>5, OpeningStep

LEMMA CommitGood ==
    ASSUME IInv, NEW p \in Procs, Commit(p)
    PROVE  GoodStep
<1> USE DEF Commit
<1> DEFINE S == {i \in Incidents : plan[p].found # {} /\ Active(i)}
<1>1. TypeOK /\ SoundPlan(plan[p]) /\ plan[p].found \subseteq Incidents
  BY DEF IInv, PlansSound, TypeOK, Plan
<1>2. incident' = [i \in Incidents |-> IF i \in S THEN "RESOLVED" ELSE incident[i]]
  BY DEF ResolveAll
<1>3. StepOpens
  BY <1>2 DEF StepOpens
<1>4. StepResolves
  <2> SUFFICES ASSUME NEW i \in Incidents, Active(i), incident'[i] = "RESOLVED"
               PROVE  monitor'.status \in {"UP", "PAUSED"} /\ monitor'.failures = 0
    BY DEF StepResolves
  <2>1. plan[p].found # {}
    BY <1>2 DEF Active, Timeline!IsActive
  <2> QED
    BY <2>1, <1>1 DEF SoundPlan, WriteRow, TypeOK
<1>5. outbox' \subseteq outbox \cup [event : {"resolved"}, id : plan[p].found]
  BY DEF Page, Sends
<1>6. StepAnnouncesOwn
  BY <1>5 DEF StepAnnouncesOwn
<1>7. [Timeline!Next]_incident
  <2>1. Timeline!Resolve(S)
    BY <1>2 DEF Timeline!Resolve, Active, Timeline!IsActive
  <2> QED
    BY <2>1 DEF Timeline!Next
<1> QED
  BY <1>3, <1>4, <1>6, <1>7 DEF GoodStep

LEMMA UserGood == ASSUME IInv, NEW u \in Users, UserStep(u) PROVE GoodStep
<1>0. TypeOK
  BY DEF IInv
<1>1. CASE \E kind \in {"acknowledge", "resolve"}, i \in Incidents : ReadIncident(u, kind, i)
  BY <1>1, SilentStep DEF ReadIncident
<1>2. CASE AcknowledgeFails(u) \/ ResolveFails(u)
  BY <1>2, SilentStep DEF AcknowledgeFails, ResolveFails
<1>3. CASE AcknowledgeWrites(u)
  <2> DEFINE a == request[u].id
  <2>1. a \in Incidents
    BY <1>3, <1>0 DEF AcknowledgeWrites, TypeOK, Requests, NoRequest
  <2>2. incident' = [incident EXCEPT ![a] = "ACKNOWLEDGED"]
    BY <1>3 DEF AcknowledgeWrites
  <2>3. StepOpens /\ StepResolves
    BY <2>1, <2>2, <1>0 DEF StepOpens, StepResolves, Active, Timeline!IsActive, TypeOK, Timeline!TypeOK
  <2>4. StepAnnouncesOwn
    BY <1>3 DEF AcknowledgeWrites, StepAnnouncesOwn
  <2>5. Timeline!Acknowledge(a)
    BY <1>3, <2>1, <2>2 DEF AcknowledgeWrites, Timeline!Acknowledge, ActiveIncidents, Active
  <2> QED
    BY <2>1, <2>3, <2>4, <2>5 DEF GoodStep, Timeline!Next
<1>4. CASE ResolveWrites(u)
  <2> DEFINE a == request[u].id
  <2>1. a \in Incidents
    BY <1>4, <1>0 DEF ResolveWrites, TypeOK, Requests, NoRequest
  <2>2. incident' = [incident EXCEPT ![a] = "RESOLVED"]
    BY <1>4 DEF ResolveWrites
  <2>4. request' # request
    BY <1>4, <1>0 DEF ResolveWrites, Answer, NoRequest, TypeOK
  <2>5. StepOpens /\ StepResolves
    BY <2>1, <2>2, <2>4, <1>0 DEF StepOpens, StepResolves, TypeOK, Timeline!TypeOK
  <2>6. StepAnnouncesOwn
    BY <1>4 DEF ResolveWrites, Sends, StepAnnouncesOwn
  <2>7. Timeline!Resolve({a})
    <3>1. incident' = [i \in Incidents |-> IF i \in {a} THEN "RESOLVED" ELSE incident[i]]
      BY <2>1, <2>2, <1>0 DEF TypeOK, Timeline!TypeOK
    <3> QED
      BY <1>4, <3>1 DEF ResolveWrites, Timeline!Resolve
  <2>8. {a} \in SUBSET Incidents
    BY <2>1
  <2> QED
    BY <2>5, <2>6, <2>7, <2>8 DEF GoodStep, Timeline!Next
<1> QED
  BY <1>1, <1>2, <1>3, <1>4 DEF UserStep

\* Every step of the system is a good one.
LEMMA NextGood == IInv /\ [Next]_vars => [GoodStep]_vars
<1> SUFFICES ASSUME IInv, Next PROVE GoodStep
  OBVIOUS
<1>1. ASSUME NEW p \in Procs, ProcStep(p) PROVE GoodStep
  <2>1. CASE Loads(p)
    BY <2>1, SilentStep DEF Loads, ConsumerLoads, CheckNowLoads, HeartbeatLoads, SweepLoads, Load
  <2>2. CASE PingOrStamp(p) \/ CommitConflict(p) \/ Abandon(p) \/ MissHeld(p) \/ MissConflict(p)
    BY <2>2, SilentStep DEF PingOrStamp, CommitConflict, Abandon, MissHeld, MissConflict
  <2>3. CASE \E o \in Outcomes : Decide(p, o)
    BY <2>3, SilentStep DEF Decide
  <2>4. CASE Lands(p)
    BY <2>4, CommitGood, CommitOpeningGood DEF Lands
  <2>5. CASE \E new \in Incidents : MissCommit(p, new)
    BY <2>5, MissCommitGood
  <2> QED
    BY <1>1, <2>1, <2>2, <2>3, <2>4, <2>5 DEF ProcStep, Misses
<1>2. CASE \E u \in Users : UserStep(u)
  BY <1>2, UserGood
<1>3. CASE HeartbeatDeadlinePasses \/ Pause \/ Resume \/ Delete \/ \E a \in Alert : Told(a)
  BY <1>3, SilentStep DEF HeartbeatDeadlinePasses, Pause, Resume, Delete, Told
<1> QED
  BY <1>1, <1>2, <1>3 DEF Next

LEMMA GoodSteps == Spec => [][GoodStep]_vars
BY Inductive, NextGood, PTL DEF Spec

-------------------------------------------------------------------------------

\* Whatever snapshot a result was judged from, an incident is opened only in the
\* transaction that shows the monitor faulty at exactly graceThreshold failures.
THEOREM OpeningIsDue == Spec => OpensAtThreshold
<1>1. [GoodStep]_vars => [StepOpens]_vars
  BY DEF GoodStep
<1> QED
  BY GoodSteps, <1>1, PTL DEF OpensAtThreshold, StepOpens

\* No failing result and no missed beat closes an incident: the transaction of
\* applyCheckResult that does also clears the counter.
THEOREM ResolutionIsRecovery == Spec => ResolvesOnRecovery
<1>1. [GoodStep]_vars => [StepResolves]_vars
  BY DEF GoodStep
<1> QED
  BY GoodSteps, <1>1, PTL DEF ResolvesOnRecovery, StepResolves

\* The loser of a race to open an incident (P2002) announces nothing.
THEOREM OpenedPagesAreOwn == Spec => OpenedPageIsOwn
<1>1. [GoodStep]_vars => [StepAnnouncesOwn]_vars
  BY DEF GoodStep
<1> QED
  BY GoodSteps, <1>1, PTL DEF OpenedPageIsOwn, StepAnnouncesOwn

\* The engine with all its writers implements the abstract incident table.
THEOREM ImplementsTimeline == Spec => TimelineSpec
<1>1. Init => Timeline!Init
  BY DEF Init, Timeline!Init
<1>2. [GoodStep]_vars => [Timeline!Next]_incident
  BY DEF GoodStep, vars
<1> QED
  BY GoodSteps, <1>1, <1>2, PTL DEF Spec, TimelineSpec, Timeline!Spec

-------------------------------------------------------------------------------
(* One applier, and nobody else who writes.                                *)

\* A single consumer, check-now or source of beats, no sweep, no user.
NobodyElse ==
    /\ \A p, q \in Appliers : p = q
    /\ Sweepers = {} /\ Users = {} /\ UserActions = {}

\* The row is faulty exactly from the threshold on.
FaultyFromGrace(status, failures) == status \in Faulty <=> failures >= Grace

\* What the applier has read is what the row still says.
SnapIsCurrent ==
    \A p \in Appliers : pc[p] \in {"loaded", "pinged"} => snap[p] = CurrentView

\* A plan that turns the row as it is faulty opens, and one that clears it resolves
\* everything that is active.
Turns(pl) ==
    /\ FaultyFromGrace(pl.target, pl.failures)
    /\ pl.opens <=> monitor.status \notin Faulty /\ pl.target \in Faulty
    /\ pl.found = IF monitor.status \in Faulty /\ pl.target \notin Faulty
                  THEN ActiveIncidents ELSE {}

PlanIsCurrent == \A p \in Appliers : pc[p] = "decided" => Turns(plan[p])

AloneInv ==
    /\ FaultyFromGrace(monitor.status, monitor.failures)
    /\ OutageHasIncident
    /\ SnapIsCurrent
    /\ PlanIsCurrent

LEMMA InitAlone == Init => AloneInv
<1> SUFFICES ASSUME Init PROVE AloneInv
  OBVIOUS
<1>1. FaultyFromGrace(monitor.status, monitor.failures)
  BY GraceAssumption DEF Init, FaultyFromGrace, Faulty
<1>2. ActiveIncidents = {}
  BY DEF Init, ActiveIncidents, Active, Timeline!IsActive
<1>3. monitor.status \notin Faulty
  BY DEF Init, Faulty
<1>4. \A p \in Appliers : pc[p] = "idle"
  BY DEF Init, Procs
<1> QED
  BY <1>1, <1>2, <1>3, <1>4 DEF AloneInv, OutageHasIncident, SnapIsCurrent, PlanIsCurrent

\* A plan from the row itself turns it as it should: counting one failure at a time,
\* an outage is met exactly at the threshold.
LEMMA PlanTurns ==
    ASSUME TypeOK, FaultyFromGrace(monitor.status, monitor.failures), NEW o \in Outcomes
    PROVE  Turns(PlanFor(CurrentView, o, FALSE))
<1> DEFINE pl == PlanFor(CurrentView, o, FALSE)
<1> SUFFICES Turns(pl)
  OBVIOUS
<1> DEFINE s == monitor.status
           n == monitor.failures
           counted == CountedFailures(CurrentView, o)
<1>0. /\ s \in Statuses /\ n \in 0 .. MaxFailures
      /\ CurrentView.status = s /\ CurrentView.failures = n
  BY DEF TypeOK, Failures, CurrentView
<1>1. /\ pl.target = StatusAfter(CurrentView, o)
      /\ pl.failures = counted
      /\ pl.opens = (CrossesThreshold(CurrentView, o) /\ ~FALSE)
      /\ pl.found = FoundToResolve(CurrentView, o)
  BY DEF PlanFor
<1>2. CASE o = "up"
  <2>1. pl.target = "UP" /\ pl.failures = 0 /\ ~pl.opens
    BY <1>1, <1>2 DEF StatusAfter, CountedFailures, CrossesThreshold
  <2>2. pl.found = IF s \in Faulty THEN ActiveIncidents ELSE {}
    BY <1>0, <1>1, <1>2 DEF FoundToResolve
  <2> HIDE DEF pl
  <2> QED
    BY <2>1, <2>2, GraceAssumption DEF Turns, FaultyFromGrace, Faulty
<1>3. CASE o # "up"
  <2>1. counted = IF n < MaxFailures THEN n + 1 ELSE MaxFailures
    BY <1>0, <1>3 DEF CountedFailures
  <2>2. pl.found = {}
    BY <1>1, <1>3 DEF FoundToResolve
  <2>3. pl.target = IF counted >= Grace THEN BreachStatus(o) ELSE s
    BY <1>0, <1>1, <1>3 DEF StatusAfter
  <2>4. BreachStatus(o) \in Faulty
    BY DEF BreachStatus, Faulty
  <2>5. counted >= Grace <=> n + 1 >= Grace
    BY <1>0, <2>1, GraceAssumption
  <2>6. counted = Grace <=> n + 1 = Grace
    BY <1>0, <2>1, GraceAssumption
  <2>7. s \in Faulty <=> n >= Grace
    BY DEF FaultyFromGrace
  <2>8. pl.target \in Faulty <=> n + 1 >= Grace
    <3>1. CASE n + 1 >= Grace
      BY <2>3, <2>4, <2>5, <3>1
    <3>2. CASE ~(n + 1 >= Grace)
      <4>1. ~(n >= Grace)
        BY <1>0, <3>2, GraceAssumption
      <4> QED
        BY <2>3, <2>5, <2>7, <3>2, <4>1
    <3> QED
      BY <3>1, <3>2
  <2>9. pl.opens <=> n + 1 = Grace
    <3>1. pl.opens <=> n + 1 = Grace /\ s # BreachStatus(o)
      BY <1>0, <1>1, <1>3, <2>6 DEF CrossesThreshold
    <3>2. n + 1 = Grace => s \notin Faulty
      BY <1>0, <2>7, GraceAssumption
    <3> QED
      BY <2>4, <3>1, <3>2
  <2> HIDE DEF pl, counted
  <2>10. FaultyFromGrace(pl.target, pl.failures)
    BY <1>1, <2>5, <2>8 DEF FaultyFromGrace
  <2>11. pl.opens <=> s \notin Faulty /\ pl.target \in Faulty
    BY <1>0, <2>7, <2>8, <2>9, GraceAssumption
  <2>12. ~(s \in Faulty /\ pl.target \notin Faulty)
    BY <1>0, <2>7, <2>8, GraceAssumption
  <2> QED
    BY <2>2, <2>10, <2>11, <2>12 DEF Turns
<1> QED
  BY <1>2, <1>3

\* The only applier comes to rest: nothing is carried any more.
LEMMA RestAlone ==
    ASSUME NobodyElse, TypeOK, NEW p \in Appliers, Rest(p)
    PROVE  SnapIsCurrent' /\ PlanIsCurrent'
<1>1. \A q \in Appliers : pc'[q] = "idle"
  BY DEF Rest, TypeOK, Procs, NobodyElse
<1> QED
  BY <1>1 DEF SnapIsCurrent, PlanIsCurrent

LEMMA ApplierAlone ==
    ASSUME NobodyElse, IInv, AloneInv, NEW p \in Appliers, ProcStep(p) PROVE AloneInv'
<1>0. /\ \A q \in Appliers : q = p
      /\ p \in Procs /\ p \notin Sweepers
      /\ pc \in [Procs -> {"idle", "loaded", "pinged", "decided"}]
      /\ snap \in [Procs -> View] /\ plan \in [Procs -> Plan]
  BY DEF NobodyElse, Procs, IInv, TypeOK
<1>1. CASE Loads(p)
  <2>1. Load(p)
    BY <1>1 DEF Loads, ConsumerLoads, CheckNowLoads, HeartbeatLoads, SweepLoads
  <2>2. /\ UNCHANGED <<monitor, incident>>
        /\ pc'[p] = "loaded" /\ snap'[p] = CurrentView
    BY <1>0, <2>1 DEF Load
  <2>3. SnapIsCurrent' /\ PlanIsCurrent'
    BY <1>0, <2>2 DEF SnapIsCurrent, PlanIsCurrent, CurrentView
  <2> QED
    BY <2>2, <2>3 DEF AloneInv, OutageHasIncident, ActiveIncidents, Active
<1>2. CASE PingOrStamp(p)
  <2>1. /\ monitor'.status = monitor.status /\ monitor'.failures = monitor.failures
        /\ incident' = incident /\ snap' = snap /\ pc[p] = "loaded" /\ pc'[p] = "pinged"
    BY <1>0, <1>2 DEF PingOrStamp, IInv, TypeOK
  <2>2. SnapIsCurrent' /\ PlanIsCurrent'
    BY <1>0, <2>1 DEF AloneInv, SnapIsCurrent, PlanIsCurrent, CurrentView
  <2> QED
    BY <2>1, <2>2 DEF AloneInv, OutageHasIncident, ActiveIncidents, Active
<1>3. ASSUME NEW o \in Outcomes, Decide(p, o) PROVE AloneInv'
  <2>1. /\ UNCHANGED <<monitor, incident>> /\ pc'[p] = "decided"
        /\ pc[p] \in {"loaded", "pinged"}
    BY <1>0, <1>3 DEF Decide, ReadyToDecide
  <2>2. plan'[p] = PlanFor(CurrentView, o, FALSE)
    <3>1. SeesWindow = {FALSE} /\ snap[p] = CurrentView
      BY <2>1 DEF SeesWindow, NobodyElse, AloneInv, SnapIsCurrent
    <3> QED
      BY <1>0, <1>3, <3>1 DEF Decide
  <2>3. Turns(PlanFor(CurrentView, o, FALSE))
    BY PlanTurns DEF IInv, AloneInv
  <2>4. Turns(plan[p])'
    BY <2>1, <2>2, <2>3 DEF Turns, ActiveIncidents, Active
  <2>5. SnapIsCurrent' /\ PlanIsCurrent'
    BY <1>0, <2>1, <2>4 DEF SnapIsCurrent, PlanIsCurrent
  <2> QED
    BY <2>1, <2>5 DEF AloneInv, OutageHasIncident, ActiveIncidents, Active
<1>4. CASE Commit(p)
  <2>1. /\ ~plan[p].opens /\ Turns(plan[p]) /\ incident' = ResolveAll(plan[p])
        /\ monitor'.status = plan[p].target /\ monitor'.failures = plan[p].failures
    BY <1>4 DEF Commit, WriteRow, AloneInv, PlanIsCurrent, IInv, TypeOK
  <2>2. SnapIsCurrent' /\ PlanIsCurrent'
    BY <1>4, RestAlone DEF Commit, IInv
  <2>3. ActiveIncidents' = IF plan[p].found # {} THEN {} ELSE ActiveIncidents
    BY <2>1 DEF ActiveIncidents, Active, Timeline!IsActive, ResolveAll
  <2>4. OutageHasIncident'
    BY <2>1, <2>3 DEF AloneInv, OutageHasIncident, Turns
  <2> QED
    BY <2>1, <2>2, <2>4 DEF AloneInv, Turns
<1>5. ASSUME NEW new \in Incidents, CommitOpening(p, new) PROVE AloneInv'
  <2>1. /\ plan[p].opens /\ Turns(plan[p]) /\ incident' = [incident EXCEPT ![new] = "OPEN"]
        /\ monitor'.status = plan[p].target /\ monitor'.failures = plan[p].failures
    BY <1>5 DEF CommitOpening, WriteRow, AloneInv, PlanIsCurrent, IInv, TypeOK
  <2>2. SnapIsCurrent' /\ PlanIsCurrent'
    BY <1>5, RestAlone DEF CommitOpening, IInv
  <2>3. new \in ActiveIncidents'
    BY <2>1 DEF ActiveIncidents, Active, Timeline!IsActive, IInv, TypeOK, Timeline!TypeOK
  <2> QED
    BY <2>1, <2>2, <2>3 DEF AloneInv, OutageHasIncident, Turns
<1>6. ~CommitConflict(p)
  BY DEF CommitConflict, InsertConflicts, AloneInv, PlanIsCurrent, Turns, OutageHasIncident
<1>7. ~Misses(p)
  BY <1>0 DEF Misses, MissHeld, MissCommit, MissConflict
<1>8. CASE Abandon(p)
  <2>1. SnapIsCurrent' /\ PlanIsCurrent' /\ UNCHANGED <<monitor, incident>>
    BY <1>8, RestAlone DEF Abandon, IInv
  <2> QED
    BY <2>1 DEF AloneInv, OutageHasIncident, ActiveIncidents, Active
<1> QED
  BY <1>1, <1>2, <1>3, <1>4, <1>5, <1>6, <1>7, <1>8 DEF ProcStep, Lands

LEMMA NextAlone ==
    ASSUME NobodyElse PROVE IInv /\ AloneInv /\ [Next]_vars => AloneInv'
<1> SUFFICES ASSUME IInv, AloneInv, [Next]_vars PROVE AloneInv'
  OBVIOUS
<1>1. CASE UNCHANGED vars \/ \E a \in Alert : Told(a)
  <2>1. UNCHANGED <<monitor, incident, pc, snap, plan>>
    BY <1>1 DEF vars, Told
  <2> QED
    BY <2>1 DEF AloneInv, OutageHasIncident, SnapIsCurrent, PlanIsCurrent, Turns, CurrentView,
                ActiveIncidents, Active
<1>2. ASSUME NEW p \in Procs, ProcStep(p) PROVE AloneInv'
  BY <1>2, ApplierAlone DEF Procs, NobodyElse
<1> QED
  BY <1>1, <1>2 DEF Next, NobodyElse, HeartbeatDeadlinePasses, Pause, Resume, Delete

\* applyCheckResult by itself, with nobody else writing, keeps row and incidents
\* together for any threshold: a monitor is shown faulty exactly while an incident is
\* active, although results on both sides of the threshold count one by one.
THEOREM AloneOutageHasIncident == ASSUME NobodyElse PROVE Spec => []OutageHasIncident
<1>1. AloneInv => OutageHasIncident
  BY DEF AloneInv
<1> QED
  BY InitIInv, NextIInv, InitAlone, NextAlone, <1>1, PTL DEF Spec

===============================================================================

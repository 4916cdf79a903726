--------------------------- MODULE IncidentTimeline ---------------------------
(***************************************************************************)
(* What the incident table of one monitor promises to everybody who reads  *)
(* it (the dashboard, the CLI, the reminder sweep, the public status page):*)
(* a row is opened, may be acknowledged, is resolved, and at no time are   *)
(* two rows of the monitor active.  Who writes the rows, from which        *)
(* snapshot and in which order, is the business of MonitorEngine, which    *)
(* implements this specification.                                          *)
(***************************************************************************)
EXTENDS Naturals

CONSTANT Incidents          \* identities of the monitor's incident rows

VARIABLE incident           \* incident[i]: the status column, or "ABSENT"

States == {"ABSENT", "OPEN", "ACKNOWLEDGED", "RESOLVED"}

\* The rows the partial unique index covers.
IsActive(state) == state \in {"OPEN", "ACKNOWLEDGED"}

\* The predicate of the partial unique index on a whole table: no two active rows.
IndexHolds(table) ==
    \A i, j \in Incidents : IsActive(table[i]) /\ IsActive(table[j]) => i = j

TypeOK == incident \in [Incidents -> States]

Init == incident = [i \in Incidents |-> "ABSENT"]

Open(i) ==
    /\ incident[i] = "ABSENT"
    /\ \A j \in Incidents : ~IsActive(incident[j])
    /\ incident' = [incident EXCEPT ![i] = "OPEN"]

\* Any existing row may become ACKNOWLEDGED, a resolved one included: the
\* handler's test for RESOLVED is made on an earlier read.
Acknowledge(i) ==
    /\ incident[i] # "ABSENT"
    /\ \A j \in Incidents \ {i} : ~IsActive(incident[j])
    /\ incident' = [incident EXCEPT ![i] = "ACKNOWLEDGED"]

Resolve(S) ==
    /\ \A i \in S : incident[i] # "ABSENT"
    /\ incident' = [i \in Incidents |-> IF i \in S THEN "RESOLVED" ELSE incident[i]]

\* Deleting the monitor cascades to its incidents.
Erase == incident' = [i \in Incidents |-> "ABSENT"]

Next ==
    \/ \E i \in Incidents : Open(i) \/ Acknowledge(i)
    \/ \E S \in SUBSET Incidents : Resolve(S)
    \/ Erase

Spec == Init /\ [][Next]_incident

-------------------------------------------------------------------------------

\* At most one incident of the monitor is OPEN or ACKNOWLEDGED at any time
\* (migration 20260726090000, index Incident_one_active_per_monitor).
OneActive == IndexHolds(incident)

===============================================================================

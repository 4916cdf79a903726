------------------------------ MODULE Retention -------------------------------
(***************************************************************************)
(* The retention job: under the leader lock, roll finished days up into    *)
(* one summary row each, then delete the raw checks older than the window, *)
(* batch after batch.                                                      *)
(*                                                                         *)
(* Rows are counted, not told apart, and a summary is the number of checks *)
(* it has counted.  A day stands for one day of one monitor.               *)
(***************************************************************************)
EXTENDS LeaderLock, Naturals, Functions

CONSTANTS
    MaxDay,          \* bound: the last day of the model
    MaxChecks,       \* bound: checks of one day
    RetentionDays,   \* RETENTION_DAYS
    BatchSize,       \* DELETE_BATCH_SIZE
    MaxBatches,      \* MAX_BATCHES_PER_RUN
    NoSummary

\* A late check belongs to the day before, so a window of one day would need a
\* clock finer than this one.
ASSUME RetentionAssumption ==
    /\ RetentionDays \in Nat /\ RetentionDays >= 2
    /\ BatchSize \in Nat \ {0}
    /\ MaxBatches \in Nat \ {0}
ASSUME BoundsAssumption == MaxDay \in Nat \ {0} /\ MaxChecks \in Nat \ {0}
ASSUME NoSummaryAssumption == NoSummary \notin Nat

VARIABLES
    today,
    raw,            \* raw[d]: rows of MonitorCheck of day d
    made,           \* made[d]: checks that were ever made on day d
    daily,          \* daily[d]: totalChecks of MonitorCheckDaily, if the row exists
    cut,            \* days that a cycle which ended early has left partly deleted
    cycle           \* cycle[t]: where a working tick is in runRetentionCycle

rowVars == <<raw, made, daily>>
vars == <<today, rowVars, cut, cycle, lockVars>>

Days == 1 .. MaxDay

Start == [stage |-> "rolling", batch |-> 0, day |-> 1]

TypeOK ==
    /\ today \in Days
    /\ made \in [Days -> 0 .. MaxChecks]
    /\ raw \in [Days -> 0 .. MaxChecks]
    /\ daily \in [Days -> 1 .. MaxChecks \cup {NoSummary}]
    /\ \A d \in Days : raw[d] <= made[d]
    /\ cut \subseteq Days
    /\ cycle \in [Ticks -> [stage : {"rolling", "pruning"},
                            batch : 0 .. MaxBatches - 1, day : Days]]
    /\ LockTypeOK

Init ==
    /\ today = 1
    /\ raw = [d \in Days |-> 0]
    /\ made = raw
    /\ daily = [d \in Days |-> NoSummary]
    /\ cut = {}
    /\ cycle = [t \in Ticks |-> Start]
    /\ LockInit

-------------------------------------------------------------------------------

\* A check of today, or one of yesterday whose transaction commits after midnight.
CheckLands(d) ==
    /\ d = today \/ d + 1 = today
    /\ made[d] < MaxChecks
    /\ raw' = [raw EXCEPT ![d] = @ + 1]
    /\ made' = [made EXCEPT ![d] = @ + 1]
    /\ UNCHANGED <<today, daily, cut, cycle, lockVars>>

\* A job that keeps within its TTL sees one midnight at most.
Midnight ==
    /\ today < MaxDay
    /\ MayOverrun \/ \A t \in Working : cycle[t].day = today
    /\ today' = today + 1
    /\ UNCHANGED <<rowVars, cut, cycle, lockVars>>

\* Mutant: the job runs without the lock.
TickBeginsUnlocked(t) ==
    /\ tick[t] = "idle"
    /\ tick' = [tick EXCEPT ![t] = "working"]
    /\ cycle' = [cycle EXCEPT ![t] = [Start EXCEPT !.day = today]]
    /\ UNCHANGED <<today, rowVars, cut, lock, granted>>

TickBegins(t) ==
    /\ Acquire(t)
    /\ cycle' = [cycle EXCEPT ![t] = [Start EXCEPT !.day = today]]
    /\ UNCHANGED <<today, rowVars, cut>>

At(t, stage) == tick[t] = "working" /\ cycle[t].stage = stage

\* Mutant: a day that has a summary is not counted again.
RecountedNew(d) == IF d < today /\ raw[d] > 0 /\ daily[d] = NoSummary THEN raw[d] ELSE daily[d]

\* Mutant: only yesterday is rolled up.
RecountedYesterday(d) == IF d + 1 = today /\ raw[d] > 0 THEN raw[d] ELSE daily[d]

\* Today is still accumulating checks; other days are counted again.
Recounted(d) == IF d < today /\ raw[d] > 0 THEN raw[d] ELSE daily[d]

RollUp(t) ==
    /\ At(t, "rolling")
    /\ daily' = [d \in Days |-> Recounted(d)]
    /\ cycle' = [cycle EXCEPT ![t].stage = "pruning"]
    /\ UNCHANGED <<today, raw, made, cut, lockVars>>

\* The rows the DELETE may take are those of days before the window that have a
\* summary.
Prunable == {d \in Days : d + RetentionDays < today /\ daily[d] # NoSummary}

Total(rows) == FoldFunction(LAMBDA a, b : a + b, 0, rows)

\* What may be left by a DELETE of at most BatchSize rows, which picks any.
Remains ==
    {left \in [Days -> 0 .. MaxChecks] :
        /\ \A d \in Days : left[d] <= raw[d] /\ (d \in Prunable \/ left[d] = raw[d])
        /\ \/ Total(raw) - Total(left) = BatchSize
           \/ /\ Total(raw) - Total(left) < BatchSize
              /\ \A d \in Prunable : left[d] = 0}

Ends(t) ==
    /\ Finish(t)
    /\ cycle' = [cycle EXCEPT ![t] = Start]

Partly(rows) == {d \in Days : rows[d] > 0 /\ rows[d] < made[d]}

\* A full batch may not be the last, unless it is the last one allowed.
PruneBatch(t) ==
    /\ At(t, "pruning")
    /\ raw' \in Remains
    /\ IF Total(raw) - Total(raw') < BatchSize \/ cycle[t].batch + 1 = MaxBatches
       THEN Ends(t) /\ cut' = cut \cup Partly(raw')
       ELSE cycle' = [cycle EXCEPT ![t].batch = @ + 1] /\ UNCHANGED <<cut, lockVars>>
    /\ UNCHANGED <<today, made, daily>>

\* A statement throws: the rest of the cycle is left out.
CycleFails(t) ==
    /\ Ends(t)
    /\ cut' = cut \cup Partly(raw)
    /\ UNCHANGED <<today, rowVars>>

InstanceCrashes(i) ==
    /\ Crash(i)
    /\ cycle' = [t \in Ticks |-> IF Owner[t] = i THEN Start ELSE cycle[t]]
    /\ cut' = IF \E t \in Working : Owner[t] = i THEN cut \cup Partly(raw) ELSE cut
    /\ UNCHANGED <<today, rowVars>>

TickLosesAnswer(t) == AcquireUnanswered(t) /\ UNCHANGED <<today, rowVars, cut, cycle>>

TickReleases(t) == Release(t) /\ UNCHANGED <<today, rowVars, cut, cycle>>

TickReleaseFails(t) == ReleaseFails(t) /\ UNCHANGED <<today, rowVars, cut, cycle>>

LockExpires == Expire /\ UNCHANGED <<today, rowVars, cut, cycle>>

Retain(t) ==
    \/ TickBegins(t)
    \/ TickLosesAnswer(t)
    \/ RollUp(t)
    \/ PruneBatch(t)
    \/ CycleFails(t)
    \/ TickReleases(t)
    \/ TickReleaseFails(t)

Next ==
    \/ \E d \in Days : CheckLands(d)
    \/ Midnight
    \/ \E t \in Ticks : Retain(t)
    \/ LockExpires
    \/ \E i \in Instances : InstanceCrashes(i)

Spec == Init /\ [][Next]_vars

\* Timers keep firing and locks expire; the database does not refuse, and no
\* crash hits, the same statement every time.
Fairness ==
    /\ SF_vars(\E t \in Ticks : TickBegins(t))
    /\ SF_vars(\E t \in Ticks : RollUp(t))
    /\ SF_vars(\E t \in Ticks : PruneBatch(t))
    /\ WF_vars(LockExpires)
    /\ \A t \in Ticks : WF_vars(TickReleases(t) \/ TickReleaseFails(t))

FairSpec == Spec /\ Fairness

-------------------------------------------------------------------------------

\* "Raw data is never dropped before its summary exists" (retention.ts:74-75), and
\* that summary counts all that is dropped: checks that came after the last
\* roll-up are not deleted uncounted.
SummarisedBeforeDropped ==
    [][\A d \in Days : raw'[d] < raw[d] => daily[d] # NoSummary /\ daily[d] >= raw[d]]_vars

\* "Dropping the raw rows loses only per-check granularity, not uptime history"
\* (retention.ts:10-11): a day that has lost rows has a summary of all of it, if
\* the cycle that began deleting them got to the end of the day.
HistoryKeptUnlessCut ==
    \A d \in Days \ cut : raw[d] < made[d] => daily[d] = made[d]

\* "This job keeps it finite" (retention.ts:5): what is older than the window goes,
\* however many cycles fail.
OldChecksGo ==
    \A d \in Days : []<>(raw[d] = 0 \/ d + RetentionDays >= today)

===============================================================================

----------------------------- MODULE AlertPolicy ------------------------------
(***************************************************************************)
(* When the channels of a monitor are paged: the mute, the cooldown and    *)
(* the reminders.                                                          *)
(*                                                                         *)
(* MonitorEngine says when incidents open and close; here a result simply  *)
(* may.  Time is kept as ages: how long ago something was, up to the bound *)
(* at which the code stops telling the difference.                         *)
(***************************************************************************)
EXTENDS LeaderLock, Naturals

CONSTANTS
    Appliers,       \* consumers and requests that apply results
    Incidents,      \* identities of incidents
    Cooldown,       \* alertCooldownSeconds, in ticks of the model's clock
    Interval        \* reminderIntervalSeconds, in ticks; > 0, so reminders are on

ASSUME NoneAssumption == None \notin Incidents
ASSUME AgesAssumption == Cooldown \in Nat \ {0} /\ Interval \in Nat \ {0}

VARIABLES
    incident,       \* the active incident of the monitor, or None
    since,          \* age of its lastReminderAt, or of its startedAt
    active, muted,  \* isActive; mutedUntil is in the future
    stamp,          \* age of lastAlertAt; Cooldown, if never or long ago
    stamping,       \* ages of the updates of lastAlertAt that are on their way
    hand,           \* hand[a]: the snapshot of the monitor that a applies a result to
    sweep,          \* sweep[t]: where a working tick is in sweepReminders
    paged,          \* age of the last "incident.opened" page
    blurred,        \* the row did not show the last page in time
    reminded,       \* age, at its sweep's start, of the last reminder of the incident
    unrecorded,     \* a sweep sent a reminder and ended before recording it
    stray           \* reminders sent since nobody should be reminded

alertVars == <<stamp, stamping, hand, paged, blurred>>
remindVars == <<sweep, lockVars, reminded, unrecorded, stray>>
policyVars == <<incident, since, active, muted, alertVars, remindVars>>

NoHand == [loaded |-> FALSE, muted |-> FALSE, stamp |-> 0]

NoSweep == [stage |-> "reading", age |-> 0, incident |-> None]

PolicyTypeOK ==
    /\ incident \in Incidents \cup {None}
    /\ since \in 0 .. Interval
    /\ active \in BOOLEAN
    /\ muted \in BOOLEAN
    /\ stamp \in 0 .. Cooldown
    /\ stamping \subseteq 0 .. Cooldown
    /\ hand \in [Appliers -> [loaded : BOOLEAN, muted : BOOLEAN, stamp : 0 .. Cooldown]]
    /\ sweep \in [Ticks -> [stage : {"reading", "sending", "recording"}, age : 0 .. Interval,
                            incident : Incidents \cup {None}]]
    /\ LockTypeOK
    /\ paged \in 0 .. Cooldown
    /\ blurred \in BOOLEAN
    /\ reminded \in 0 .. Interval
    /\ unrecorded \in BOOLEAN
    /\ stray \in 0 .. 2

PolicyInit ==
    /\ incident = None
    /\ since = Interval
    /\ active = TRUE
    /\ muted = FALSE
    /\ stamp = Cooldown
    /\ stamping = {}
    /\ hand = [a \in Appliers |-> NoHand]
    /\ sweep = [t \in Ticks |-> NoSweep]
    /\ LockInit
    /\ paged = Cooldown
    /\ blurred = FALSE
    /\ reminded = Interval
    /\ unrecorded = FALSE
    /\ stray = 0

\* What the sweep's query asks of an incident and its monitor.
Remindable == incident # None /\ active /\ ~muted

-------------------------------------------------------------------------------
(* Time and users.                                                         *)

Older(age, limit) == IF age < limit THEN age + 1 ELSE age

\* A sweep that keeps within its lock's TTL is much shorter than the interval.
TimePasses ==
    /\ MayOverrun \/ \A t \in Working : sweep[t].age = 0
    /\ since' = Older(since, Interval)
    /\ stamp' = Older(stamp, Cooldown)
    /\ stamping' = {Older(s, Cooldown) : s \in stamping}
    /\ hand' = [a \in Appliers |-> IF hand[a].loaded
                                    THEN [hand[a] EXCEPT !.stamp = Older(@, Cooldown)]
                                    ELSE hand[a]]
    /\ sweep' = [t \in Ticks |-> IF tick[t] = "working"
                                 THEN [sweep[t] EXCEPT !.age = Older(@, Interval)]
                                 ELSE sweep[t]]
    /\ paged' = Older(paged, Cooldown)
    /\ reminded' = Older(reminded, Interval)
    /\ UNCHANGED <<incident, active, muted, lockVars, blurred, unrecorded, stray>>

\* The user snoozes the monitor; the snooze is lifted or runs out.
MuteTurns ==
    /\ muted' = ~muted
    /\ stray' = 0
    /\ UNCHANGED <<incident, since, active, alertVars, sweep, lockVars, reminded, unrecorded>>

\* Pause and resume leave the incident as it is.
PauseTurns ==
    /\ active' = ~active
    /\ stray' = 0
    /\ UNCHANGED <<incident, since, muted, alertVars, sweep, lockVars, reminded, unrecorded>>

IncidentCloses ==
    /\ incident' = None
    /\ since' = Interval
    /\ stray' = 0

\* Told to everybody, whatever is muted; lastAlertAt is left alone.
ResolveByUser ==
    /\ incident # None
    /\ IncidentCloses
    /\ UNCHANGED <<active, muted, alertVars, sweep, lockVars, reminded, unrecorded>>

-------------------------------------------------------------------------------
(* Results.                                                                *)

\* The monitor is fetched, a paused one by "check now"; all that follows goes by
\* this snapshot.
Load(a) ==
    /\ ~hand[a].loaded
    /\ hand' = [hand EXCEPT ![a] = [loaded |-> TRUE, muted |-> muted, stamp |-> stamp]]
    /\ blurred' = (blurred \/ stamping # {})
    /\ UNCHANGED <<incident, since, active, muted, stamp, stamping, paged, remindVars>>

\* mutedUntil is compared with the time when the result is applied.
SnoozeRunsOut(a) ==
    /\ hand[a].muted
    /\ hand' = [hand EXCEPT ![a].muted = FALSE]
    /\ UNCHANGED <<incident, since, active, muted, stamp, stamping, paged, blurred, remindVars>>

Unused == {i \in Incidents \ {incident} : \A t \in Ticks : sweep[t].incident # i}

Opens ==
    /\ incident = None
    /\ incident' \in Unused
    /\ since' = 0
    /\ reminded' = Interval
    /\ unrecorded' = FALSE
    /\ stray' = 0

\* The update of lastAlertAt is not waited for.
Stamps(a) == stamping' = stamping \cup {0}

Page(a) ==
    /\ Stamps(a)
    /\ paged' = 0
    /\ blurred' = (stamping # {} \/ \E b \in Appliers \ {a} : hand[b].loaded)

\* Mutant: the cooldown is not looked at.
QuietWhenMuted(a) == hand[a].muted

\* isMuted || withinCooldown
Quiet(a) == hand[a].muted \/ hand[a].stamp < Cooldown

\* The failure that opens an incident; what is suppressed is not made up for later.
ApplyOpening(a) ==
    /\ hand[a].loaded
    /\ Opens
    /\ hand' = [hand EXCEPT ![a] = NoHand]
    /\ IF Quiet(a) THEN UNCHANGED <<stamping, paged, blurred>> ELSE Page(a)
    /\ UNCHANGED <<active, muted, stamp, sweep, lockVars>>

\* A recovery is told to everybody unless the monitor is muted; it is stamped, too.
ApplyRecovery(a) ==
    /\ hand[a].loaded
    /\ incident # None
    /\ IncidentCloses
    /\ hand' = [hand EXCEPT ![a] = NoHand]
    /\ IF hand[a].muted THEN UNCHANGED stamping ELSE Stamps(a)
    /\ UNCHANGED <<active, muted, stamp, paged, blurred, sweep, lockVars, reminded, unrecorded>>

\* Any other result.
ApplyQuietly(a) ==
    /\ hand[a].loaded
    /\ hand' = [hand EXCEPT ![a] = NoHand]
    /\ UNCHANGED <<incident, since, active, muted, stamp, stamping, paged, blurred, remindVars>>

\* A missed heartbeat opens an incident and pages no channel.
MissOpens ==
    /\ active
    /\ Opens
    /\ UNCHANGED <<active, muted, alertVars, sweep, lockVars>>

StampLands ==
    /\ \E s \in stamping : stamp' = s /\ stamping' = stamping \ {s}
    /\ UNCHANGED <<incident, since, active, muted, hand, paged, blurred, remindVars>>

\* Its error is swallowed.
StampFails ==
    /\ \E s \in stamping : stamping' = stamping \ {s}
    /\ blurred' = TRUE
    /\ UNCHANGED <<incident, since, active, muted, stamp, hand, paged, remindVars>>

-------------------------------------------------------------------------------
(* Reminders.                                                              *)

At(t, stage) == tick[t] = "working" /\ sweep[t].stage = stage

Ends(t) ==
    /\ Finish(t)
    /\ sweep' = [sweep EXCEPT ![t] = NoSweep]

TickBegins(t) ==
    /\ Acquire(t)
    /\ UNCHANGED <<incident, since, active, muted, alertVars, sweep, reminded, unrecorded, stray>>

\* Mutant: the sweep looks at neither mute nor pause.
DueAlways == incident # None /\ since = Interval

\* One query, and the arithmetic on what it returned.
Due == Remindable /\ since = Interval

ReadDue(t) ==
    /\ At(t, "reading")
    /\ Due
    /\ sweep' = [sweep EXCEPT ![t] = [stage |-> "sending", age |-> 0, incident |-> incident]]
    /\ UNCHANGED <<incident, since, active, muted, alertVars, lockVars, reminded, unrecorded, stray>>

ReadNothing(t) ==
    /\ At(t, "reading")
    /\ ~Due
    /\ Ends(t)
    /\ UNCHANGED <<incident, since, active, muted, alertVars, reminded, unrecorded, stray>>

IsOf(t) == sweep[t].incident = incident

\* Sent for what was read, not for what is.
Remind(t) ==
    /\ At(t, "sending")
    /\ sweep' = [sweep EXCEPT ![t].stage = "recording"]
    /\ reminded' = IF IsOf(t) THEN sweep[t].age ELSE reminded
    /\ stray' = IF Remindable THEN stray ELSE IF stray < 2 THEN stray + 1 ELSE stray
    /\ UNCHANGED <<incident, since, active, muted, alertVars, lockVars, unrecorded>>

\* Mutant: the reminder is not recorded.
RecordNothing(t) ==
    /\ At(t, "recording")
    /\ Ends(t)
    /\ UNCHANGED <<incident, since, active, muted, alertVars, reminded, unrecorded, stray>>

\* lastReminderAt is the time of the read.
Record(t) ==
    /\ At(t, "recording")
    /\ since' = IF IsOf(t) THEN sweep[t].age ELSE since
    /\ Ends(t)
    /\ UNCHANGED <<incident, active, muted, alertVars, reminded, unrecorded, stray>>

Unrecorded(t) == At(t, "recording") /\ IsOf(t)

\* A statement throws.
SweepFails(t) ==
    /\ Ends(t)
    /\ unrecorded' = (unrecorded \/ Unrecorded(t))
    /\ UNCHANGED <<incident, since, active, muted, alertVars, reminded, stray>>

InstanceCrashes(i) ==
    /\ Crash(i)
    /\ sweep' = [t \in Ticks |-> IF Owner[t] = i THEN NoSweep ELSE sweep[t]]
    /\ unrecorded' = (unrecorded \/ \E t \in Ticks : Owner[t] = i /\ Unrecorded(t))
    /\ UNCHANGED <<incident, since, active, muted, alertVars, reminded, stray>>

TickReleases(t) ==
    /\ Release(t)
    /\ UNCHANGED <<incident, since, active, muted, alertVars, sweep, reminded, unrecorded, stray>>

LockExpires ==
    /\ Expire
    /\ UNCHANGED <<incident, since, active, muted, alertVars, sweep, reminded, unrecorded, stray>>

-------------------------------------------------------------------------------

Apply(a) ==
    \/ Load(a)
    \/ SnoozeRunsOut(a)
    \/ ApplyOpening(a)
    \/ ApplyRecovery(a)
    \/ ApplyQuietly(a)

Sweep(t) ==
    \/ TickBegins(t)
    \/ ReadDue(t)
    \/ ReadNothing(t)
    \/ Remind(t)
    \/ Record(t)
    \/ SweepFails(t)
    \/ TickReleases(t)

PolicyNext ==
    \/ TimePasses
    \/ MuteTurns
    \/ PauseTurns
    \/ ResolveByUser
    \/ MissOpens
    \/ StampLands
    \/ StampFails
    \/ \E a \in Appliers : Apply(a)
    \/ \E t \in Ticks : Sweep(t)
    \/ LockExpires
    \/ \E i \in Instances : InstanceCrashes(i)

PolicySpec == PolicyInit /\ [][PolicyNext]_policyVars

\* Clocks and timers run, locks expire; a sweep is not always hit by a failure at
\* the same statement.
PolicyFairness ==
    /\ SF_policyVars(TimePasses)
    /\ WF_policyVars(LockExpires)
    /\ SF_policyVars(\E t \in Ticks : TickBegins(t))
    /\ SF_policyVars(\E t \in Ticks : ReadDue(t))
    /\ SF_policyVars(\E t \in Ticks : Remind(t))
    /\ SF_policyVars(\E t \in Ticks : Record(t))
    /\ \A t \in Ticks : WF_policyVars(ReadNothing(t)) /\ WF_policyVars(TickReleases(t))

PolicyFairSpec == PolicySpec /\ PolicyFairness

-------------------------------------------------------------------------------

\* "A flapping monitor shouldn't page on every flip" (monitor.engine.ts:343-344):
\* two pages are a cooldown apart, if lastAlertAt is written before the next
\* snapshot is read; nothing waits for that write, and nothing repeats it.
PagesAreSpaced ==
    [][\A a \in Appliers : ApplyOpening(a) /\ ~Quiet(a) => paged = Cooldown \/ blurred]_policyVars

\* "Re-alerts on the monitor's reminderIntervalSeconds cadence" (reminder.
\* scheduler.ts:6-7), from whichever replica: the sweeps that remind of an incident
\* start an interval apart, if the earlier one lived to record its reminder.
RemindersAreSpaced ==
    [][\A t \in Ticks :
          At(t, "sending") /\ sweep'[t].stage = "recording" /\ IsOf(t) /\ ~unrecorded =>
              reminded = Interval]_policyVars

\* A sweep reminds of what it has read: once the incident is over, the monitor
\* muted or paused, one reminder more may come, and no second one.
QuietSoon == stray <= 1

\* "An unnoticed page meant an unnoticed outage" (reminder.scheduler.ts:5-6): an
\* incident that stays open on an active, unmuted monitor is reminded of again and
\* again, also when its page was suppressed or never sent.
RemindersKeepComing ==
    \A i \in Incidents :
        <>[](incident = i /\ active /\ ~muted) => []<>(\E t \in Ticks : At(t, "recording"))

===============================================================================

# PulseOps in TLA+

PulseOps watches HTTP, TCP and push ("heartbeat") monitors, opens an incident when
one fails, and tells people about it. This directory models the parts of it where
the order of events decides whether that works: the state machine of a monitor
and its incidents, the round trip of a check through Kafka and the Go ping engine,
the Redis lock and the jobs under it, the way of an alert from the decision to its
receivers, membership of workspaces, and billing. Paths are relative to the
repository's root; `monitors/` stands for `backend/src/modules/monitors/`, and so for
the other modules of the backend.

## 1. The system

| Component | State | Operations |
| --- | --- | --- |
| Monitor state machine and incidents (`monitors/monitor.engine.ts`, `monitor.service.ts`, `incidents/incident.service.ts`) | columns of the `Monitor` row (`status`, `consecutiveFailures`, `isActive`, ...), the `Incident` table with its partial unique index | `applyCheckResult`, `checkMonitor`, `recordHeartbeat`, `applyHeartbeatMiss`, pause, resume, delete, acknowledge, resolve |
| Heartbeat sweep (`monitors/heartbeat.scheduler.ts`) | `lastHeartbeatAt` | find overdue monitors, apply a miss to each |
| Check scheduling (`monitors/monitor.scheduler.ts`) | `nextCheckAt`, `dispatchedAt` | claim due rows with SKIP LOCKED, publish to `monitor.targets`, give claims back when the send throws |
| Ping engine (`workers/ping-engine`, Go) | two bounded channels, worker pool, write batch | consume targets, probe, write to `monitor.metrics`, drain on a signal |
| Result consumption (`telemetry/metrics.consumer.ts`) | position in the partition, `check-applied:*` keys in Redis | deduplicate, fetch the monitor, apply, resolve the offset |
| Leader lock (`lib/leader-lock.ts`) | one Redis key per job | SET NX PX, run the job, delete if still ours |
| Alert policy and reminders (`monitor.engine.ts`, `notifications/reminder.scheduler.ts`) | `mutedUntil`, `lastAlertAt`, `lastReminderAt` | hold back, page, remind |
| Notification channels, webhook delivery (`notifications/`, `webhooks/`, `workers/webhook.worker.ts`) | `failureCount`, `disabledUntil`, delivery logs, a queue | send, note, trip and reset the breaker, retry |
| Retention (`telemetry/retention.ts`) | raw checks, one summary row per day and monitor | roll up, prune in batches |
| Workspaces and invites (`workspaces/`, account deletion) | members, invites, workspaces, accounts | invite, accept, revoke, change, remove, create, delete |
| Billing (`billing/`, the plan limit of `monitor.service.ts`) | plan, subscription, processed payments | checkout, events of the provider, verification; counting monitors |
| Sessions, magic links, device grants, MFA, API keys | one-time secrets | issue, redeem, rotate, revoke |
| HTTP surface, dashboard, CLI, MCP server, documentation, proxy | none of their own | requests and presentation |

How they interact. A scheduler tick that wins the leader lock claims the due
rows, which sets `dispatchedAt`, and publishes them. The ping engine turns
targets into results. The metrics consumer sets a dedup key for a result, fetches
the monitor, and calls `applyCheckResult`, whose transaction writes the row,
the check and possibly an incident, and clears `dispatchedAt`. "Check now"
bypasses Kafka and calls the same function within the request. A beat calls it
from its own route, while the sweep, under a lock of its own, calls
`applyHeartbeatMiss`. What opens or resolves an incident may page: unless muted
or cooling down, the alert fans out to webhooks and channels, and what fails goes
to a retry queue. Reminders and retention run under locks of their own. Users
change the same rows. All of this runs in any number of API replicas, and rows are
read, awaited upon and overwritten: nothing between a handler's first read and
its transaction is protected.

What is hard, and therefore what the properties are about:

* every applier of a result decides from a snapshot that may be old when it
  writes, and it overwrites the counter and the status it decided on;
* the insert of an incident may lose to another one, and the transaction is then
  run again without it;
* the list of incidents to resolve is read before the transaction that resolves
  whatever is active by then, and the alerts are sent from the list, while
  anybody may write again;
* results are stored twice, handled by two group members at once, or dropped with the
  batch they came in;
* instances die between claiming and publishing, marking and applying, sending and
  noting, recording and applying;
* an endpoint takes a message and its answer is lost, or nobody can note it;
* locks expire under their holders, answers of Redis are lost;
* bounded channels fill while a shutdown closes them one after the other;
* `lastAlertAt` is written in the background, and the breaker's counter from a
  snapshot;
* limits (uses of an invite, monitors of a plan) are tested before the statement
  that counts.

## 2. Modules

| Module | Models | Proofs |
| --- | --- | --- |
| `IncidentTimeline` | abstract: what the incident table of one monitor promises to its readers | |
| `MonitorEngine` | one monitor: row, incidents, all handlers that write them | `MonitorEngineProofs` |
| `LeaderLock` | `withLeaderLock` for one key | `LeaderLockProofs` |
| `CheckPipeline` | scheduler, topics, engine as the topics see it, consumer; extends `LeaderLock` | `CheckPipelineProofs` |
| `EngineContract` | abstract: what the topics may rely on of the ping engine | |
| `PingEngine` | the goroutines, channels and shutdown of the Go engine | `PingEngineProofs` |
| `AlertPolicy` | mute, cooldown, pages, reminders; extends `LeaderLock` | `AlertProofs` |
| `AlertDelivery` | fan-out, breaker, webhook log, retry queue | `AlertProofs` |
| `Retention` | the retention job; extends `LeaderLock` | `RetentionProofs` |
| `Membership` | invites, members, ownership, deletions | `MembershipProofs` |
| `Billing` | checkout, events, verification, limit of monitors | `BillingProofs` |
| `MC...` | constants and symmetry sets for TLC | |

Refinements: `MonitorEngine` implements `IncidentTimeline` (`TimelineSpec`), and
`PingEngine` implements `EngineContract` (`ImplementsContract`). TLC checks both, the
second with its fairness; both are proved for their safety part. Composition: the
three jobs extend `LeaderLock` and take its steps together with their own
(`TickBegins`, `Ends`, `TickReleases`, `LockExpires`, `InstanceCrashes`), and
`CheckPipeline` sees the engine as `EngineContract` describes it: a target taken is
answered or lost.

A definition whose comment begins with "Mutant:" or "A mutant:" is a plausible
mistake in the definition below it. None of them is part of a specification: each one
replaces its neighbour in a run that must then fail, which shows that the
property of that run depends on the code.

### MonitorEngine

A process is a handler that is executed again and again: a metrics consumer
(`Consumers`), a check-now request (`Manuals`), a beat (`Beats`), or a heartbeat
sweep (`Sweepers`). Its program counter runs through the awaits at which others may
get in:

| Action | Code |
| --- | --- |
| `ConsumerLoads`, `CheckNowLoads`, `HeartbeatLoads`, `SweepLoads` | the handler reads the monitor row (`snap[p]`), each with its own conditions |
| `PingOrStamp` | the probe of a check-now; `lastHeartbeatAt` of a beat |
| `Decide` | first half of `applyCheckResult`: counter, status, whether to open, and the lookup of incidents to resolve, all from the snapshot (`plan[p]`) |
| `CommitOpening`, `Commit` | the transaction, and the decision which alerts are sent on their way (`outbox`) |
| `Told` | all webhooks and channels have been told, or the teller is gone; `resolveIncidentService` awaits the webhooks before it pages the channels |
| `CommitConflict` | P2002: rolled back, to be run again without the insert |
| `MissCommit`, `MissHeld`, `MissConflict` | `applyHeartbeatMiss`: the transaction, the maintenance case, the rollback |
| `Abandon` | an exception or a dead process at any await |
| `Pause`, `Resume`, `Delete` | `monitor.service.ts` |
| `ReadIncident`, then `AcknowledgeWrites`/`Fails`, `ResolveWrites`/`Fails` | `incident.service.ts`: the test, and later the update by id |
| `HeartbeatDeadlinePasses` | the clock |

Abstractions. The counter is exact up to `MaxFailures` and saturates there: the
code compares it only with `graceThreshold`. A maintenance window is a free choice at
every test of it (`SeesWindow`), since the clock and the user can move it at any
time. Whether an alert is sent after all (mute, cooldown, type of channel) is a
free choice too (`Page`), which `AlertPolicy` decides; so the properties here say which
alerts may never be sent, not which must. `Alerted` says whether the workspace has
anybody to tell. An alert is in `outbox` from the commit until everybody has been told;
in between others write, and `revived` is the history of the acknowledgements that took
back a resolution while it was being announced. incident.acknowledged alerts are
not followed. Row identities are finite: there are
as many outages as `Incidents`. The sweep's lock is left out of this module, which
adds interleavings and removes none. The cached live status in Redis, check history
and latencies are data nobody decides on.

### LeaderLock

A process is one tick of one instance's timer; an instance may own several,
because `setInterval` does not wait for a tick to end. `lock` is the value of the
key, `granted` a ghost naming the tick whose SET created it. `Expire` is the TTL;
`MayOverrun` says whether it may run out under a working job. `Crash` turns the
process's key into one of a process that is gone, since `INSTANCE_ID` is drawn anew
at each start. Redis refusing a SET makes the tick skip its turn, which is no
step; losing the answer (`AcquireUnanswered`) is one.

### CheckPipeline

A monitor is what the claiming UPDATE's WHERE clause reads: `active`, `paused`
(status PAUSED), `due`, and `claim` (`dispatchedAt` NULL, recent, or older than five
minutes). The topic of targets is a count per monitor; the metrics topic is one
partition, and `log` holds the messages nobody has fetched. `todo[c]` is the rest of the
batch of consumer `c`, and `hand[c]` the message it is handling, with what its handler
will write. A result has an identity, the pair (target id, timestamp) of the dedup key;
identities are used again only when no message or handler has them. `marked` are the
keys in Redis. `outcome`, `subject` and `unguarded` (results whose key failed or
expired) are history.

Which messages come again is the client library's affair, external to the repository
(kafkajs 2.2.4). The consumer runs with `autoCommit: false` and neither interval nor
threshold, so `commitOffsetsIfNecessary()` commits nothing, and with
`eachBatchAutoResolve` at its default, so when `eachBatch` returns, after a `break`
too, the last offset of the batch is resolved: a batch once fetched is passed (`Fetch`,
`Fail`). The position is in the consumer's memory; whoever takes the partition over, or
comes back from a crash, finds no committed offset and starts at the end, because of
`fromBeginning: false` (`Rebalance`, `ConsumerCrashes`). Offsets that an earlier
deployment may have committed for the group are out of scope. What may be
handled twice is therefore what is stored twice, and what the old owner of a
partition still works at.

Each run says which faults may happen:

| Fault | Meaning |
| --- | --- |
| `slow` | a claim goes stale while its check is still under way |
| `send` | the send throws after the broker stored part of the batch |
| `engine`, `reprobe`, `rewrite` | the engine loses a target or result, receives a target twice, writes a result twice |
| `rebalance` | the partition moves while its old owner handles a message |
| `garbled` | a message does not parse and is parked |
| `redis` | the SET of the dedup key fails, and the message is handled anyway (the key set or not); or its answer is lost, ioredis sends it again, and the message is taken for a duplicate |
| `expiry` | the 900 seconds of a dedup key are over while a copy of its result is about |
| `db` | a database call throws |
| `crash` | a backend instance or a consumer dies |

Abstractions. What a result does to status, counter and incidents is left to
`MonitorEngine`. Empty messages are passed like those that do not parse. `MaxTargets`
and `MaxLog` bound the messages on their way.

### PingEngine

Every goroutine is a process and every channel operation a step: the consumer
(`main.go`) reads a target and hands it over, `Workers` range over the target
channel, probe and send the result, the publisher collects a batch until it is full,
the timer fires or the channel is closed, and writes it. `drain` is the shutdown
goroutine (cancel, wait for the consumer, close the targets, wait for the workers,
close the results, wait for the publisher); `main` waits for it or for its
deadline. `place[t]` follows each target; the refinement mapping reads it as offered,
taken, answered or lost. Probes and writes end by their own timeouts. After a failed
write any part of the batch may be stored.

### AlertPolicy

Time is kept as ages (how long ago a page, a stamp, a reminder was), each up to the
bound at which the code stops telling the difference. `hand[a]` is the snapshot a
result is applied to (check-now reads a paused monitor's, too), whose snooze may run out
before it is used (`SnoozeRunsOut`), `stamping` the updates of `lastAlertAt` that nothing waits
for: they land (`StampLands`), in any order, or are lost (`StampFails`). `sweep[t]`
is `sweepReminders` under its lock: one query (`ReadDue`), a reminder, and the record
of the time of the query. `paged`, `blurred`, `reminded`, `unrecorded` and `stray` are
history. Missed heartbeats open incidents without consulting mute or cooldown and page
no channel (`MissOpens`).

### AlertDelivery

A delivery is a pair of an alert and an endpoint. Channels have a breaker; legacy
webhooks have none, but all posts of an alert are logged by one statement
(`LogPosts`), and only then are the failed ones queued. `Select` reads the channel row
(`snap`), `NoteRejected` writes the count it computed from that, `Trips` decides
between bench and queue. The retry worker (`Try...`) fetches the endpoint anew, and its
failures do not count for the breaker. A send ends in one of three ways: the
endpoint takes the message, it does not, or it takes it and the answer is lost or comes
after the time-out (`AcceptsUnheard`), which its sender cannot tell from a refusal.
`Faults` are a database call that throws, a job Redis refuses, and the death of a
process: the dispatcher's, with which the fan-out's memory is gone, or the retry
worker's (`WorkerDies`), before the answer, the note, or the completion of the job.
BullMQ, which is external, requeues a stalled job once at no attempt's cost and fails it
the second time. What an adapter sends, signing and the address check are part of
`Send`, which may fail. `got` is the history of what the endpoint took and whether anybody
knows; `wrong` counts the first deliveries to a channel that failed in a row.

### Retention

Rows are counted, not told apart: `made`, `raw` and `daily` are the checks ever made,
still kept, and summarised, by day. A cycle rolls up every day before today in one
statement, then deletes, in batches that pick any rows, days that are outside the
window and have a summary. Checks may land after midnight for the day before; the
day may turn in the middle of a cycle. `cut` names the days which a cycle that ended
between two batches left partly deleted.

### Membership

A handler is a few awaits, and `req[r]` holds what it carries from one to the next.
Unique keys, foreign keys and transactions are the guards of the writing steps
(`CanJoin`). Roles other than OWNER are one: these handlers treat ADMIN, MEMBER and
VIEWER alike. The right of the caller to act is given, since middleware tests it
before. The invites by e-mail are for one address and belong to `Guest`; which
account accepts is a free choice, because `acceptInvite` does not compare the two.
`joins` is history. Listing, renaming and resending an e-mail change nothing here.

### Billing

The provider is external: it creates subscriptions, takes payments, and delivers an
event until it is answered with success, so again after an error, a lost answer or
a crash. A handler finds the workspace, inserts the reference into
`ProcessedPayment`, and then updates the plan, one step each. `applied` counts the
effects, `lost` names what failed between the two. The same module has the plan's
other reader, `createMonitorService`: read the plan, count, insert.

## 3. What the runs show

| Run | Question | Instance |
| --- | --- | --- |
| `EngineRaces` | Do row, incidents and alerts stay consistent when a consumed result and a check-now race with every user action? | 1 consumer, 1 check-now, 1 user, 2 incidents, threshold 2, counter up to 3, 1 alert under way |
| `EngineSequential` | With one applier, are outages and incidents the same thing, and are lasting failures and recoveries reported? | 1 consumer, threshold 3, counter up to 4, 2 incidents |
| `HeartbeatSilence` | Can beats, sweeps, pauses and windows leave a silent push monitor without an incident? | 1 beat, 2 replicas sweeping, 2 incidents, threshold 2 |
| `PipelineFlight` | Is at most one check of a monitor under way, with locks expiring under their holders, is it dispatched again and again, whatever is lost, and does no message block the partition? | 1 monitor, 2 replicas, 1 consumer, 2 identities, windows |
| `PipelineDelivery` | Is no result applied twice while its key lives, and none taken for a duplicate that has not had its turn? | 1 monitor, 2 consumers, 2 identities, 3 messages not fetched, pauses, check-now |
| `EngineShutdown` | Does the Go engine shut down in order and without a deadlock, and keep its contract? | 4 targets, 2 workers, channels of one slot, batches of two |
| `RetentionJob` | Does the lock exclude, is history kept, does what is old go? | 3 replicas, 4 days, 2 checks a day, window of 2 days, batches of one row, 2 batches a cycle |
| `AlertPolicy` | Are pages and reminders spaced, quiet when they should be, and is a lasting outage reminded of? | 1 applier, 2 replicas reminding, 2 incidents, cooldown of one tick, interval of two |
| `AlertDelivery` | When is something sent twice, when is a channel benched, does every alert come to rest? | 2 alerts for one channel, one of them for a webhook too, threshold 2, 2 attempts, all faults, 1 retry job at work |
| `Membership` | Are uses counted and limits and ownership kept under racing requests? | 3 accounts, 2 workspaces, 1 link with one use, 1 invite by e-mail, 2 requests |
| `Billing` | Is each payment applied once or known to be lost, and does a plan's limit hold? | 2 subscriptions, 2 requests, 1 failure, a limit of one monitor, at most 3 |
| `ResultLost` | see section 6: finds a counterexample | the smallest instance that has one |

The properties, by module:

* `MonitorEngine`: `AtMostOneActive`; `FaultIsBacked` (no torn pair of status and
  counter); `OpensAtThreshold`; `ResolvesOnRecovery` (no failing result and no miss
  closes an incident); `OpenedPageIsOwn` (only who inserts an incident announces it)
  and `ResolvedPageIsTrue` (what is being announced as resolved is resolved until
  everybody has been told, though it is sent from an older list, unless the monitor is
  deleted or a stale acknowledgement takes it back); `TimelineSpec`;
  `OutageHasIncident`, `FailureIsReported`, `RecoveryIsReported` (one applier);
  `SilenceHasIncident`.
* `CheckPipeline`: `SingleFlight`, `KeepsBeingDispatched`, `PartitionNeverBlocks`
  (whatever is stored is fetched and come to, or passed); `AppliedOnce`, which names a
  failed or expired key as its exception; `SkippedHadItsTurn` (a duplicate is one).
* `PingEngine`: `NoSendOnClosed`, `CompleteDrainLeavesNothing`, `ShutdownEnds`,
  `ImplementsContract`.
* `LeaderLock` within `Retention`: `AtMostOneWorks`, `ReleasesOwnGrant`.
* `Retention`: `SummarisedBeforeDropped` (what a DELETE takes is counted, late
  checks included), `HistoryKeptUnlessCut`, `OldChecksGo`.
* `AlertPolicy`: `PagesAreSpaced`, `RemindersAreSpaced`, `QuietSoon`,
  `RemindersKeepComing`. The first two name their exceptions: a stamp that was late
  or lost (`blurred`), a sweep that died before its record (`unrecorded`).
* `AlertDelivery`: `KnownIsNotResent` (what is sent again to an endpoint that took it,
  nobody knew to be taken: a lost answer, a failed note, a dead worker); `BenchIsEarned`
  (no count beyond the deliveries that failed in a row, no bench below the
  threshold); `EveryAlertSettles`.
* `Membership`: `JoinsAreCounted`, `OvershootIsBounded`, `AtMostOneOwner`,
  `OwnershipIsKept`.
* `Billing`: `PaidOnce`, `AckedOrLost`, `FreeIsLimited`, `EventsSettle`.

Every type invariant is proved; none is a property of a run.

Bounds, and why they suffice. Two processes with stale snapshots are what it takes
to race, one of each kind in `EngineRaces`; the proofs lift the safety part to
any number. Two incident identities allow a resolved outage to be followed by
another, and a racing insert to meet an existing row. A threshold of 2 separates
counting from crossing and `MaxFailures` above it gives the state past the
threshold. In the pipeline two targets let a second dispatch show next to the
first, three messages hold a duplicate behind another result, and
two identities let one be used again after its message is gone. A count of
targets that has reached `MaxTargets` is not raised further: with a bound of 2 that
can hide further violations of `SingleFlight`, never the first. `PipelineDelivery`
does not count targets. Channels of one slot make every send of the engine find
its channel full; four targets fill both channels and both workers. Batches of one
row and two batches a cycle let a retention cycle end between the rows of one day, and
four days with a window of two let a day be rolled up, pruned and late. Ages stop at
the cooldown and the interval, where the code stops telling them apart. With a
breaker's threshold of two, one stale count is enough to be wrong by a whole step. The
limit of one use, or one monitor, and two requests are the smallest overshoot. One
failure at any place is what the handlers of `Billing` could mask; two subscriptions
let a late event meet a newer one.

Two runs have a state constraint. `OneAlertUnderWay` (`EngineRaces`) follows
incident.resolved alerts one at a time and incident.opened ones no further than the
step that decides on them: nobody reads `outbox`, and every page may be held back, so
what is cut off is only a second alert at the same time, of which the property says
nothing. `OneJobAtWork` (`AlertDelivery`) gives the retry worker one job at a time, which is
BullMQ's default for one process, and lets one job at a time have outlived a worker.
The proofs need neither.

The two liveness runs of `MonitorEngine` have an action constraint,
`KeepsAnIdentity`: when no unused incident identity is left, the last one is not
resolved, because the model could not record the outage after it. Behaviours
in which that would be the only way on are not examined. `MaxMonitors` bounds the
monitors asked for, not those that requests already under way insert.

Deadlock is checked in `EngineShutdown` (`Exited` is the program's own end) and in
`Billing`. Elsewhere the system may stop: a deleted monitor, days and identities
used up, all alerts settled, everything removed.

## 4. Fairness

* `MonitorEngine`: consumers and sweeps keep starting, because the scheduler keeps
  dispatching and the timer keeps firing; beats, check-nows and users owe nothing.
  Once started, a handler's steps are strongly fair, as `Abandon` is always
  possible: a handler that is started again and again does not fail before the
  same statement every time. P2002 is no such failure; it has its own action.
* `CheckPipeline`: the clock, the staleness of claims, lock expiry and the engine are
  weakly fair, where the engine may lose a message instead of probing. Claiming and
  publishing are strongly fair per monitor, because the UPDATE may skip rows locked
  by others, crashes may hit any tick, and a send may throw, but not each time. The
  consumer fetches and handles what it has (weak); nothing is promised of the outcome,
  and a rebalance, an error or a crash takes the batch away at any step.
* `PingEngine`: a goroutine that can move does (weak). The broker need not deliver,
  no signal need come, and the deadline need not pass: `ShutdownEnds` holds
  without it.
* `Retention`, `AlertPolicy`: keys expire, releases are answered or refused (weak);
  ticks begin, and statements succeed, again and again (strong), for some replica and
  not for each. Time passes. Users and results owe nothing.
* `AlertDelivery`: fan-outs and worker go on with what they have (weak), since requests
  time out; either outcome will do. Nothing is promised of the receivers.
* `Billing`: handlers run to an end (weak, where dying is an end), and an event that the
  provider keeps delivering is received in the end (strong: the requests of the model
  are few, those of the server are not).

## 5. What is proved

The theorems hold for any constants that satisfy the assumptions of the modules.

`MonitorEngineProofs`: any sets of processes, users and incidents and any threshold.

* The safety properties are not inductive: whether a row is torn depends on what
  handlers carry in their hands. `IInv` adds that every snapshot is a pair some row
  once had (`SnapsBacked`) and that every plan is sound in itself (`PlansSound`): it
  shows a fault only at or past the threshold, opens only exactly at it,
  and has incidents to resolve only if it says UP with counter 0. A plan made
  from a sound snapshot is sound (`PlanForSound`), retrying without the insert keeps
  it sound, and the row only receives whole plans.
* From `IInv`: `TypeCorrect`, `OneActiveIncident`, `FaultsAreBacked`.
* `AloneOutageHasIncident` is about a single applier (`NobodyElse`: no sweep, no user;
  section 6 says why). Its invariant `AloneInv` says that what the applier carries is
  current: the snapshot is the row (`SnapIsCurrent`), and the plan opens exactly if it turns
  the row faulty and resolves exactly if it clears it (`PlanIsCurrent`). `PlanTurns` is the
  arithmetic: counting one failure at a time, no plan steps over the threshold.
* Every step is good (`GoodStep`) under `IInv`, which gives `OpeningIsDue`,
  `ResolutionIsRecovery`, `OpenedPagesAreOwn` and `ImplementsTimeline`.
* `ResolvedPagesAreTrue` needs `FoundRowsExist` as well: the rows a lookup found are still
  there unless the monitor was deleted, in which case the plan cannot commit. A transaction
  that resolves leaves no active row, so all it has found are resolved when the alerts
  set out, and of the writers that come before the last is told only an acknowledgement
  takes one back, which is what `revived` names.

`LeaderLockProofs`: `LockTypeCorrect` without assumptions; `OwnRelease` if an
instance has at most one tick under way; `Exclusive` if, in addition, no job outlives
its lock. The invariant is that the key names the owner of the tick it was granted to
(`KeyNamesGrantee`) and that who works holds the key (`WorkersHoldTheKey`). Both
assumptions are needed, and the code enforces neither: see section 6.

`PingEngineProofs`: any number of targets and workers, any capacity and batch size.
The invariant `Inv` ties the three places a target can be looked for together: the
queues list, without repetition, exactly the targets whose `place` says so
(`Placed`), the hands of the goroutines agree with it (`Held`, `Probed`, `Batched`),
and the order of the shutdown is what closed channels and finished goroutines show
(`Closing`, `Ends`). It gives `TypeCorrect`, `NeverSendsOnClosed`,
`CompleteDrainIsClean`, and `ImplementsContractSafety`, by one step per action.

`MembershipProofs`: any accounts, workspaces, invites, limits and requests. Handlers
act on what they read, so `HandsSound` says what of it remains true: the member
a request is about to change or remove was no owner, and cannot have become one, because
an owner is made only together with a workspace (`OwnersAreMadeFresh`).
`NextGoodMove` shows how ownership can move in a step, from which `OneOwner` and
`OwnershipKept` follow. `RowsCount` relates each invite to the joins through it
(`JoinsCounted`); `RoomAtTheTest` counts the requests between the test of the limit
and the transaction (`OvershootBounded`).

`BillingProofs`: any subscriptions, limit and number of requests and failures. A
reference is recorded before it is applied, so the invariant says of each one whether
it is new, in the hands of exactly one request, applied or lost; `TypeCorrect`,
`EffectsAreSingle` and `AcksAreAccounted` follow. `FreePlanIsLimited` counts the
requests between the count and the insert (`RoomWasFound`), as above.

`AlertProofs`, on `AlertDelivery`: any alerts, endpoints, threshold, attempts and faults.
What a delivery has read of a breaker's count never exceeds the failures in a row, as
long as it has not written it, because a success ends the row only when no other
delivery is out; so a count written late cannot bench a channel unearned
(`BenchesAreEarned`). A delivery that may be sent again was not accepted, as far as anybody
knows (`ResendsComeOfDoubt`). A job that waits has attempts left, which `TypeCorrect`
needs.

`AlertProofs`, on `AlertPolicy`: any cooldown, interval, appliers and replicas. While
`blurred` does not say otherwise, the row and every snapshot of it are at least as young
as the last page, or its stamp is on its way and no snapshot is taken
(`RowShowsLastPage`); `PagesKeepApart` follows, without any assumption. Reminders rest on
the lock, so their theorems assume one tick per instance and no overrun: then a sweep
about to remind found its incident due and nobody has reminded since (`SendersFoundItDue`),
and the row shows the last reminder but for a sweep about to record it
(`RowShowsLastReminder`), giving `RemindersKeepApart`. A stray reminder was about to be
sent when it became one, by the only tick at work (`StrayWasSending`, giving
`OneStrayAtMost`).

`CheckPipelineProofs`: any monitors, results, consumers, replicas and bounds.

* The consumers' invariant `ConsumerInv` relates messages, hands, keys and history. Of the
  results whose key neither failed nor expired: one in hand has its key, is untried, and is
  in no other hand (`HandsGuarded`), and one without a key is untried (`UnmarkedIsUntried`);
  and without the faults `redis` and `expiry` all results are such (`KeysHold`). It holds
  under every fault, and gives `TypeCorrect`, `ResultsLandOnce` and
  `SkippedResultsHadTheirTurn`.
* `ClaimsSeparateChecks` needs `FlightInv` as well: a check is in one place at a time, in a
  batch, in the topic of targets, or awaited as a result, and as long as it is anywhere
  its monitor's claim is held. No consumer brings a message back, so it can only make
  fewer results awaited (`ConsumeAwaits`).
  The theorem assumes `NothingSlips`, that is, none of `slow`, `send`, `reprobe`, `redis`
  and `expiry` and no check-now: a claim that goes stale under a check, a batch stored
  although the send threw, a target probed twice, a result handled again without its key,
  and a probe by hand each start or free a second check by design, and TLC finds it.
  Crashes, lost messages, rebalances, results stored twice, database errors and
  overrunning locks are all allowed.
* Both invariants were model-checked before they were proved: `ConsumerInv` on
  `PipelineDelivery`, and together with `FlightInv` on two consumers with every fault the
  theorem allows, pauses and windows.

`RetentionProofs`: any window from two days up, any sizes of batches, any replicas.
Every step is a step of the lock (`LockSteps`), so the lemmas of `LeaderLockProofs`
carry over (`OneCycleAtATime`). A cycle that ends before its lock is as old as one
midnight at most (`CyclesAreFresh`), and what it may delete its own roll-up has
counted (`PrunersHaveCounted`): `NothingDroppedUncounted`, even for cycles that
overlap. `HistoryIsKept` needs the lock: a roll-up beside a cycle that prunes would
count what is left. Between cycles only days in `cut` are partly deleted (`RestIsCut`),
and no check lands any more on a day that has lost rows (`OnlyOldLose`).

Every safety property of the passing runs is proved. Model-checked only: the liveness
properties and the fairness of the refinements (the proof system does not handle
fairness and ENABLED). The assumptions of `ClaimsSeparateChecks`, of the theorems about
reminders and history, and of `AloneOutageHasIncident` are met by the instance of the run
that checks the same property (`PipelineFlight`, `AlertPolicy`, `RetentionJob`,
`EngineSequential`).

## 6. Where the code does not do what it says

`ResultLost` is a run that TLC finds violated: a result whose application failed is not
"redelivered instead of lost" (`telemetry/metrics.consumer.ts:146-147`). `run()`
leaves `eachBatchAutoResolve` on, so the failed message and all behind it in its batch
are passed when the loop breaks; and the dedup key, set before the result is applied,
stays, so that a copy would be skipped as a duplicate.

Found while modelling. The properties above exclude these by name or by the
choice of processes and faults:

* An acknowledgement tests for RESOLVED (`incidents/incident.service.ts:93`) on a row it
  read earlier, then updates by id. If the incident is resolved in between, it becomes
  ACKNOWLEDGED again, with `resolvedAt` set. `IncidentTimeline` allows it.
* A beat that read the row before a miss writes UP over DOWN and, having seen no fault,
  leaves the miss's incident open. From then on each miss violates the unique index
  and is rolled back (`monitors/monitor.engine.ts:529`): the overdue monitor stays UP,
  and its old incident is the only trace. `SilenceHasIncident` does hold.
* A result applied inside a maintenance window leaves the status PAUSED. After the
  window the scheduler's WHERE clause (`monitors/monitor.scheduler.ts:70`) passes the
  monitor over until somebody resumes it or checks it by hand.
* `RecoveryIsReported` needs the single applier: with a check-now beside the consumer
  (`Manuals = {m1}` in `EngineSequential`), a stale UP hides an incident from
  every later recovery. `FailureIsReported` fails likewise.
* A pause and resume during an outage shows the monitor UP with its incident open and
  its counter kept, and neither the next success nor the next beat resolves it.
* `AtMostOneWorks` fails with `MayOverrun = TRUE` (the lock is not renewed), and with two
  ticks of one instance: the key names the process, so the late release of an
  earlier tick deletes the key of a later one. `SingleFlight` holds regardless,
  since the claims do not rely on the lock.
* `SingleFlight` fails with `"checkNow"` among the user actions: a check-now clears the
  claim of a check still in flight. So it does with `"slow"`, `"send"` and `"reprobe"`, by
  design, and with `"redis"` and `"expiry"`, where a result handled before is awaited again.
  A message that does not parse (`Park`) is awaited by nobody.
* A retention cycle that fails between two batches leaves days partly deleted; the next
  roll-up replaces their full summary by a count of the rest
  (`telemetry/retention.ts:25-29`). `HistoryKeptUnlessCut` excludes those days.
* A missed beat alerts only the legacy webhooks, and does so whatever is muted or cooling
  down; the channels hear of it by the first reminder.
* `resolveIncidentService` pages no channel if logging the webhooks' posts throws. Between
  the update, the awaited webhooks and the page, a stale acknowledgement can take the
  incident back: it is announced as resolved while it is ACKNOWLEDGED (`revived`).
* Offsets are committed nowhere, although `metrics.consumer.ts:78-81` means to do so
  explicitly: a rebalance or a restart loses what was not fetched by then.
* A dedup key lives 900 seconds; a copy of a result that is met later counts again, and so
  does one met while Redis does not answer (`unguarded`).
* A late failure that overlaps a success writes the count it computed before it: it can
  undo the success, or lift a bench. So "consecutive" (`notification.dispatch.ts:18-20`) holds
  of deliveries that do not overlap one; and a delivery that the endpoint accepted, but
  whose note failed (`:71`, `:87`), counts as a failure. `BenchIsEarned` says both.
* Two generations of an invite for one address that overlap make two; `acceptInvite`
  does not compare the address with the account's.
* A workspace created while its owner's account is being deleted is left without an owner
  (`auth/auth.service.ts:135`).
* Any error of the insert into `ProcessedPayment` is answered as "already processed", and a
  failure after it loses the event: the next delivery is answered in the same way, although
  nothing was applied (`billing/billing.controller.ts:20`, `:100`). `AckedOrLost`
  names both. A "charged" that arrives after a "cancelled" makes the plan PRO again; an
  event of a subscription that was replaced is answered 404, and so delivered until the
  provider gives up.
* A request that read PRO before a downgrade inserts past the limit of FREE.

## 7. Plan

The model covers what the plan began with: pipeline, engines, alerts, retention,
membership, billing; and the proofs cover the safety of all of it. What could follow:

1. Weaker assumptions: `RemindersKeepApart` and `OneStrayAtMost` for two ticks of one
   instance, if the key named the tick.
2. `CheckPipeline` as a refinement of a contract of its own, a check that is dispatched and
   then settled once, in the way `PingEngine` refines `EngineContract`.

## 8. Not modelled

* Probing and TLS inspection: network I/O. A probe is a nondeterministic outcome.
* Sessions, magic links, device grants, MFA, API keys: most redeem a one-time secret by
  one conditional update of one row, where the database leaves nothing to interleave.
  What reads first and writes later (two polls of a device code at
  `auth/device.service.ts:74`, recovery links) has no module; neither has the
  CLI's own credential file.
* The HTTP surface and the address guard: stateless decisions about one request.
* Status pages and analytics: aggregation that writes nothing.
* Dashboard, CLI and its terminal interface, MCP server, documentation and proxy:
  presentation, or clients of the HTTP interface. They are most of the repository's lines.

## 9. Running

`tlc -config <run>.cfg <module>.tla` with the pairs of `PROJECT.json`, and
`tlapm <module>.tla` for each `...Proofs` module.

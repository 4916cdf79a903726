---------------------------- MODULE CheckPipeline -----------------------------
(***************************************************************************)
(* The round trip of a check: a scheduler tick claims the due monitors     *)
(* under the leader lock and publishes them to the targets topic, the ping *)
(* engine probes them and writes results to the metrics topic, a consumer  *)
(* applies each result, which frees the claim.                             *)
(*                                                                         *)
(* What a result does to status, counter and incidents is MonitorEngine's  *)
(* business.  Here a monitor is only what the scheduler's query reads, and *)
(* the metrics topic is one partition, of which the model keeps the        *)
(* messages nobody has fetched yet.                                        *)
(*                                                                         *)
(* The consumer's offset is nowhere but in its memory: with autoCommit off *)
(* and no interval or threshold, commitOffsetsIfNecessary() commits        *)
(* nothing.  A batch once fetched is passed, however its handler leaves    *)
(* it, since eachBatchAutoResolve is on; and whoever takes the partition   *)
(* over finds no committed offset and starts at its end.                   *)
(***************************************************************************)
EXTENDS LeaderLock, Naturals, Sequences, FiniteSets, Functions

CONSTANTS
    Monitors,       \* monitors that are probed (not HEARTBEAT)
    Ids,            \* identities of results: a (target_id, timestamp) pair
    NoId,
    Consumers,      \* members of the consumer group
    Faults,         \* which of FaultNames happen
    UserActions,    \* which of UserActionNames happen
    MaxTargets,     \* bound: targets of one monitor waiting, more are not counted
    MaxLog          \* bound: messages of the metrics partition nobody has fetched

FaultNames == {
    "slow",         \* a check takes longer than DISPATCH_STALE_AFTER_MS
    "send",         \* a send throws although the broker stored messages
    "engine",       \* the engine loses a target or its result
    "reprobe",      \* a target is delivered to the engine again
    "rewrite",      \* the engine's writer stores a result twice
    "rebalance",    \* the partition moves, its old owner still at work
    "garbled",      \* a message of the metrics topic does not parse
    "redis",        \* the dedup marker cannot be set, or the answer is lost
    "expiry",       \* a dedup marker expires with a copy of its result still about
    "db",           \* a database call throws
    "crash"}        \* a backend instance or a consumer dies

UserActionNames == {"pause", "window", "checkNow"}

ASSUME FaultsAssumption == Faults \subseteq FaultNames
ASSUME UserActionsAssumption == UserActions \subseteq UserActionNames
ASSUME NoIdAssumption == NoId \notin Ids
ASSUME BoundsAssumption == MaxTargets \in Nat \ {0} /\ MaxLog \in Nat \ {0}

VARIABLES
    row,            \* row[m]: the columns the scheduler reads
    window,         \* window[m]: the clock is inside m's maintenance window
    stage,          \* stage[t]: where a working tick is in dispatchDueMonitors
    batch,          \* batch[t]: the monitors its UPDATE returned
    targets,        \* targets[m]: messages for m on their way to a probe
    log,            \* the messages of the metrics partition nobody has fetched
    assigned,       \* the consumer the partition is assigned to
    todo,           \* todo[c]: the messages of its batch c has not come to yet
    hand,           \* hand[c]: the message consumer c is handling
    marked,         \* results with a check-applied key in Redis
    unguarded,      \* history: results whose key failed or expired
    subject,        \* subject[id]: the monitor of a result
    outcome         \* what became of a result

rowVars == <<row, window>>
tickVars == <<lock, tick, granted, stage, batch>>
batchVars == <<log, assigned, todo>>
markVars == <<marked, unguarded>>
topicVars == <<batchVars, markVars, subject, outcome>>
vars == <<rowVars, tickVars, targets, topicVars, hand>>

-------------------------------------------------------------------------------

Row == [active : BOOLEAN, paused : BOOLEAN, due : BOOLEAN,
        claim : {"free", "inFlight", "stale"}]

EmptyHand == [stage |-> "idle", id |-> NoId, held |-> FALSE]

TypeOK ==
    /\ row \in [Monitors -> Row]
    /\ window \in [Monitors -> BOOLEAN]
    /\ LockTypeOK
    /\ stage \in [Ticks -> {"claiming", "publishing", "returning"}]
    /\ batch \in [Ticks -> SUBSET Monitors]
    /\ targets \in [Monitors -> 0 .. MaxTargets]
    /\ log \in Seq(Ids) /\ Len(log) <= MaxLog
    /\ assigned \in Consumers
    /\ todo \in [Consumers -> Seq(Ids)]
    /\ hand \in [Consumers -> [stage : {"idle", "marked", "loaded"},
                               id : Ids \cup {NoId}, held : BOOLEAN]]
    /\ marked \subseteq Ids
    /\ unguarded \subseteq Ids
    /\ subject \in [Ids -> Monitors]
    /\ outcome \in [Ids -> {"none", "garbled", "skipped", "failed", "landed", "twice"}]

\* Freshly created monitors: nextCheckAt and dispatchedAt are NULL.
Init ==
    /\ row = [m \in Monitors |->
                [active |-> TRUE, paused |-> FALSE, due |-> TRUE, claim |-> "free"]]
    /\ window = [m \in Monitors |-> FALSE]
    /\ LockInit
    /\ stage = [t \in Ticks |-> "claiming"]
    /\ batch = [t \in Ticks |-> {}]
    /\ targets = [m \in Monitors |-> 0]
    /\ log = <<>>
    /\ assigned \in Consumers
    /\ todo = [c \in Consumers |-> <<>>]
    /\ hand = [c \in Consumers |-> EmptyHand]
    /\ marked = {}
    /\ unguarded = {}
    /\ subject \in [Ids -> Monitors]
    /\ outcome = [id \in Ids |-> "none"]

InHand(id) == \E c \in Consumers : hand[c].id = id

\* Not fetched yet, or in a batch nobody has come to.
Waiting(id) == id \in Range(log) \/ \E c \in Consumers : id \in Range(todo[c])

\* A result that may still land.  One that does not parse, or is taken for a
\* duplicate, never will.
Awaited(id) ==
    \/ InHand(id)
    \/ Waiting(id) /\ id \notin marked /\ outcome[id] # "garbled"

Dispatching(m) == {t \in Ticks : m \in batch[t]}

Expected(m) == {id \in Ids : subject[id] = m /\ Awaited(id)}

\* The checks of m under way, wherever they are on the round trip.
UnderWay(m) == Cardinality(Dispatching(m)) + targets[m] + Cardinality(Expected(m))

-------------------------------------------------------------------------------
(* Time and users.                                                         *)

\* nextCheckAt passes.
BecomesDue(m) ==
    /\ ~row[m].due
    /\ row' = [row EXCEPT ![m].due = TRUE]
    /\ UNCHANGED <<window, tickVars, targets, topicVars, hand>>

\* dispatchedAt is older than five minutes.
ClaimGoesStale(m) ==
    /\ row[m].claim = "inFlight"
    /\ "slow" \in Faults \/ UnderWay(m) = 0
    /\ row' = [row EXCEPT ![m].claim = "stale"]
    /\ UNCHANGED <<window, tickVars, targets, topicVars, hand>>

WindowTurns(m) ==
    /\ "window" \in UserActions
    /\ window' = [window EXCEPT ![m] = ~window[m]]
    /\ UNCHANGED <<row, tickVars, targets, topicVars, hand>>

Pause(m) ==
    /\ "pause" \in UserActions
    /\ row' = [row EXCEPT ![m].active = FALSE, ![m].paused = TRUE]
    /\ UNCHANGED <<window, tickVars, targets, topicVars, hand>>

\* The claim is left as it is.
Resume(m) ==
    /\ "pause" \in UserActions
    /\ row' = [row EXCEPT ![m].active = TRUE, ![m].paused = FALSE]
    /\ UNCHANGED <<window, tickVars, targets, topicVars, hand>>

\* The status applyCheckResult decides on, as far as it is or is not PAUSED: inside a
\* window it is; outside, a failure below the threshold keeps what the row showed.
Shown(r, inWindow) == IF inWindow THEN {TRUE} ELSE {FALSE, r.paused}

\* What its transaction writes to the columns seen here.
Freed(r, held) == [r EXCEPT !.paused = held, !.claim = "free", !.due = FALSE]

\* "Check now" probes in the request and applies the result on the spot.
CheckNow(m) ==
    /\ "checkNow" \in UserActions
    /\ \E held \in Shown(row[m], window[m]) : row' = [row EXCEPT ![m] = Freed(@, held)]
    /\ UNCHANGED <<window, tickVars, targets, topicVars, hand>>

-------------------------------------------------------------------------------
(* The scheduler.                                                          *)

TickBegins(t) ==
    /\ Acquire(t)
    /\ UNCHANGED <<rowVars, stage, batch, targets, topicVars, hand>>

\* Mutant: a claim nobody freed is never taken again.
ClaimableWhenFree(m) ==
    /\ row[m].active
    /\ row[m].due
    /\ row[m].claim = "free"
    /\ ~row[m].paused \/ window[m]

\* Mutant: dispatchedAt is not looked at.
ClaimableWhenDue(m) ==
    /\ row[m].active
    /\ row[m].due
    /\ ~row[m].paused \/ window[m]

\* The WHERE clause of the claiming UPDATE.
Claimable(m) ==
    /\ row[m].active
    /\ row[m].due
    /\ row[m].claim # "inFlight"
    /\ ~row[m].paused \/ window[m]

\* Selected and claimed in one statement; rows locked by others are skipped.
Claim(t) ==
    /\ tick[t] = "working"
    /\ stage[t] = "claiming"
    /\ \E S \in SUBSET {m \in Monitors : Claimable(m)} :
          /\ S # {}
          /\ row' = [m \in Monitors |->
                       IF m \in S THEN [row[m] EXCEPT !.claim = "inFlight", !.due = FALSE]
                       ELSE row[m]]
          /\ batch' = [batch EXCEPT ![t] = S]
    /\ stage' = [stage EXCEPT ![t] = "publishing"]
    /\ UNCHANGED <<window, lockVars, targets, topicVars, hand>>

Ends(t) ==
    /\ Finish(t)
    /\ stage' = [stage EXCEPT ![t] = "claiming"]
    /\ batch' = [batch EXCEPT ![t] = {}]

\* No row qualifies, or the statement throws.
ClaimsNothing(t) ==
    /\ stage[t] = "claiming"
    /\ "db" \in Faults \/ \A m \in Monitors : ~Claimable(m)
    /\ Ends(t)
    /\ UNCHANGED <<rowVars, targets, topicVars, hand>>

\* The broker stores a message for each monitor of S, up to the bound.
Stored(S) ==
    targets' = [m \in Monitors |->
                  IF m \in S /\ targets[m] < MaxTargets THEN targets[m] + 1 ELSE targets[m]]

Publish(t) ==
    /\ stage[t] = "publishing"
    /\ Stored(batch[t])
    /\ Ends(t)
    /\ UNCHANGED <<rowVars, topicVars, hand>>

\* kafkaProducer.send throws; the broker may have stored part of the batch.
PublishFails(t) ==
    /\ stage[t] = "publishing"
    /\ \E S \in SUBSET batch[t] : (S = {} \/ "send" \in Faults) /\ Stored(S)
    /\ stage' = [stage EXCEPT ![t] = "returning"]
    /\ UNCHANGED <<rowVars, lockVars, batch, topicVars, hand>>

\* The claims of the batch are released, whoever holds them by now.
ReturnClaims(t) ==
    /\ stage[t] = "returning"
    /\ row' = [m \in Monitors |->
                 IF m \in batch[t] THEN [row[m] EXCEPT !.claim = "free", !.due = TRUE]
                 ELSE row[m]]
    /\ Ends(t)
    /\ UNCHANGED <<window, targets, topicVars, hand>>

\* That update throws as well, and its error is swallowed.
ReturnFails(t) ==
    /\ "db" \in Faults
    /\ stage[t] = "returning"
    /\ Ends(t)
    /\ UNCHANGED <<rowVars, targets, topicVars, hand>>

TickReleases(t) ==
    /\ Release(t)
    /\ UNCHANGED <<rowVars, stage, batch, targets, topicVars, hand>>

LockExpires ==
    /\ Expire
    /\ UNCHANGED <<rowVars, stage, batch, targets, topicVars, hand>>

\* A crash between claim and publish leaves the claims behind.
InstanceCrashes(i) ==
    /\ "crash" \in Faults
    /\ Crash(i)
    /\ stage' = [t \in Ticks |-> IF Owner[t] = i THEN "claiming" ELSE stage[t]]
    /\ batch' = [t \in Ticks |-> IF Owner[t] = i THEN {} ELSE batch[t]]
    /\ UNCHANGED <<rowVars, targets, topicVars, hand>>

-------------------------------------------------------------------------------
(* The ping engine, as the two topics see it.                              *)

\* A result gets an identity no message or handler uses any more.
Unused == {id \in Ids : ~InHand(id) /\ ~Waiting(id)}

Results(id) == {<<id>>} \cup IF "rewrite" \in Faults THEN {<<id, id>>} ELSE {}

Probe(m, id) ==
    /\ targets[m] > 0
    /\ id \in Unused
    /\ \/ targets' = [targets EXCEPT ![m] = @ - 1]
       \/ "reprobe" \in Faults /\ UNCHANGED targets
    /\ \E written \in Results(id) : log' = log \o written
    /\ Len(log') <= MaxLog
    /\ subject' = [subject EXCEPT ![id] = m]
    /\ \E parsed \in {"none"} \cup (IF "garbled" \in Faults THEN {"garbled"} ELSE {}) :
          outcome' = [outcome EXCEPT ![id] = parsed]
    /\ marked' = marked \ {id}
    /\ unguarded' = unguarded \ {id}
    /\ UNCHANGED <<rowVars, tickVars, assigned, todo, hand>>

EngineLoses(m) ==
    /\ "engine" \in Faults
    /\ targets[m] > 0
    /\ targets' = [targets EXCEPT ![m] = @ - 1]
    /\ UNCHANGED <<rowVars, tickVars, topicVars, hand>>

-------------------------------------------------------------------------------
(* The metrics consumer.                                                   *)

Idle(c) == hand[c].stage = "idle"
Drops(c) == hand' = [hand EXCEPT ![c] = EmptyHand]

\* The partition's owner gets a batch: whatever of the log one answer holds.
Fetch(c) ==
    /\ c = assigned
    /\ Idle(c) /\ todo[c] = <<>>
    /\ \E n \in 1 .. Len(log) :
          /\ todo' = [todo EXCEPT ![c] = SubSeq(log, 1, n)]
          /\ log' = SubSeq(log, n + 1, Len(log))
    /\ UNCHANGED <<rowVars, tickVars, targets, assigned, markVars, subject, outcome, hand>>

NextMessage(c) == Head(todo[c])

HasNext(c) == Idle(c) /\ todo[c] # <<>>

HasResult(c) == HasNext(c) /\ outcome[NextMessage(c)] # "garbled"

\* The handler leaves the message behind it, whatever comes of it.
ComesTo(c) == todo' = [todo EXCEPT ![c] = Tail(@)] /\ UNCHANGED <<log, assigned>>

Leaves(c) == todo' = [todo EXCEPT ![c] = <<>>]

Holds(c, id) == hand' = [hand EXCEPT ![c] = [stage |-> "marked", id |-> id, held |-> FALSE]]

\* Mutant: the dedup key is set without NX, and its answer ignored.
TakeAnyway(c) ==
    /\ HasResult(c)
    /\ marked' = marked \cup {NextMessage(c)}
    /\ Holds(c, NextMessage(c))
    /\ ComesTo(c)
    /\ UNCHANGED <<rowVars, tickVars, targets, unguarded, subject, outcome>>

\* Mutant: the dedup key names the monitor and not the moment of the check.
TakeByMonitor(c) ==
    /\ HasResult(c)
    /\ NextMessage(c) \notin marked
    /\ marked' = marked \cup {id \in Ids : subject[id] = subject[NextMessage(c)]}
    /\ Holds(c, NextMessage(c))
    /\ ComesTo(c)
    /\ UNCHANGED <<rowVars, tickVars, targets, unguarded, subject, outcome>>

\* Mutant: the parse is outside the try block, so the handler throws and the batch is
\* fetched again from the same message.
ParkThrows(c) ==
    /\ HasNext(c)
    /\ outcome[NextMessage(c)] = "garbled"
    /\ log' = todo[c] \o log
    /\ Leaves(c)
    /\ UNCHANGED <<rowVars, tickVars, targets, assigned, markVars, subject, outcome, hand>>

\* An unparseable message goes to the dead letter queue, if that works.
Park(c) ==
    /\ HasNext(c)
    /\ outcome[NextMessage(c)] = "garbled"
    /\ ComesTo(c)
    /\ UNCHANGED <<rowVars, tickVars, targets, markVars, subject, outcome, hand>>

\* SET NX wins.
Take(c) ==
    /\ HasResult(c)
    /\ NextMessage(c) \notin marked
    /\ marked' = marked \cup {NextMessage(c)}
    /\ Holds(c, NextMessage(c))
    /\ ComesTo(c)
    /\ UNCHANGED <<rowVars, tickVars, targets, unguarded, subject, outcome>>

\* The SET is refused, or fails with the key set or not: the message is handled.
TakeUnguarded(c) ==
    /\ "redis" \in Faults
    /\ HasResult(c)
    /\ Holds(c, NextMessage(c))
    /\ marked' \in {marked, marked \cup {NextMessage(c)}}
    /\ unguarded' = unguarded \cup {NextMessage(c)}
    /\ ComesTo(c)
    /\ UNCHANGED <<rowVars, tickVars, targets, subject, outcome>>

\* The key exists: the message is taken for a duplicate.
SkipDuplicate(c) ==
    /\ HasResult(c)
    /\ NextMessage(c) \in marked
    /\ ComesTo(c)
    /\ UNCHANGED <<rowVars, tickVars, targets, markVars, subject, outcome, hand>>

\* The answer of the SET is lost with the connection and ioredis sends it again, to find
\* the key it has set itself.
SkipUnheard(c) ==
    /\ "redis" \in Faults
    /\ HasResult(c)
    /\ marked' = marked \cup {NextMessage(c)}
    /\ unguarded' = unguarded \cup {NextMessage(c)}
    /\ ComesTo(c)
    /\ UNCHANGED <<rowVars, tickVars, targets, subject, outcome, hand>>

\* DEDUP_TTL_SECONDS are over.  Nobody asks for the key of a result that is gone.
MarkerExpires(id) ==
    /\ "expiry" \in Faults
    /\ id \in marked
    /\ Waiting(id)
    /\ marked' = marked \ {id}
    /\ unguarded' = unguarded \cup {id}
    /\ UNCHANGED <<rowVars, tickVars, targets, batchVars, subject, outcome, hand>>

Subject(c) == subject[hand[c].id]

\* The monitor is fetched again; a paused one's result is dropped.
SkipInactive(c) ==
    /\ hand[c].stage = "marked"
    /\ ~row[Subject(c)].active
    /\ outcome' = [outcome EXCEPT ![hand[c].id] = IF @ = "none" THEN "skipped" ELSE @]
    /\ Drops(c)
    /\ UNCHANGED <<rowVars, tickVars, targets, batchVars, markVars, subject>>

Load(c) ==
    /\ hand[c].stage = "marked"
    /\ row[Subject(c)].active
    /\ \E held \in Shown(row[Subject(c)], window[Subject(c)]) :
          hand' = [hand EXCEPT ![c].stage = "loaded", ![c].held = held]
    /\ UNCHANGED <<rowVars, tickVars, targets, topicVars>>

\* applyCheckResult commits.
Land(c) ==
    /\ hand[c].stage = "loaded"
    /\ row' = [row EXCEPT ![Subject(c)] = Freed(@, hand[c].held)]
    /\ outcome' = [outcome EXCEPT ![hand[c].id] =
                      IF @ \in {"landed", "twice"} THEN "twice" ELSE "landed"]
    /\ Drops(c)
    /\ UNCHANGED <<window, tickVars, targets, batchVars, markVars, subject>>

\* The result in c's hands is not applied; its marker stays.
Abandons(c) ==
    /\ Drops(c)
    /\ outcome' = [id \in Ids |-> IF id = hand[c].id /\ outcome[id] = "none" THEN "failed"
                                  ELSE outcome[id]]

\* A database call throws and the loop is left: the rest of the batch is passed with it.
Fail(c) ==
    /\ "db" \in Faults
    /\ ~Idle(c)
    /\ Abandons(c)
    /\ Leaves(c)
    /\ UNCHANGED <<rowVars, tickVars, targets, log, assigned, markVars, subject>>

\* The partition moves.  Its new owner starts at the end; the old one, if at work, does
\* not notice before a heartbeat between two messages tells it.
Rebalance(c) ==
    /\ "rebalance" \in Faults
    /\ Idle(c)
    /\ assigned' = c
    /\ log' = <<>>
    /\ Leaves(c)
    /\ UNCHANGED <<rowVars, tickVars, targets, markVars, subject, outcome, hand>>

Notices(c) ==
    /\ c # assigned
    /\ HasNext(c)
    /\ Leaves(c)
    /\ UNCHANGED <<rowVars, tickVars, targets, log, assigned, markVars, subject, outcome, hand>>

\* A consumer dies with a message in hand and comes back.
ConsumerCrashes(c) ==
    /\ "crash" \in Faults
    /\ Abandons(c)
    /\ Leaves(c)
    /\ log' = IF c = assigned THEN <<>> ELSE log
    /\ UNCHANGED <<rowVars, tickVars, targets, assigned, markVars, subject>>

-------------------------------------------------------------------------------

Outside(m) ==
    \/ BecomesDue(m)
    \/ ClaimGoesStale(m)
    \/ WindowTurns(m)
    \/ Pause(m)
    \/ Resume(m)
    \/ CheckNow(m)

Dispatch(t) ==
    \/ TickBegins(t)
    \/ Claim(t)
    \/ ClaimsNothing(t)
    \/ Publish(t)
    \/ PublishFails(t)
    \/ ReturnClaims(t)
    \/ ReturnFails(t)
    \/ TickReleases(t)

Engine(m) == EngineLoses(m) \/ \E id \in Ids : Probe(m, id)

Consume(c) ==
    \/ Fetch(c)
    \/ Park(c)
    \/ Take(c)
    \/ TakeUnguarded(c)
    \/ SkipDuplicate(c)
    \/ SkipUnheard(c)
    \/ SkipInactive(c)
    \/ Load(c)
    \/ Land(c)
    \/ Fail(c)
    \/ Rebalance(c)
    \/ Notices(c)
    \/ ConsumerCrashes(c)

Next ==
    \/ \E m \in Monitors : Outside(m) \/ Engine(m)
    \/ \E t \in Ticks : Dispatch(t)
    \/ \E c \in Consumers : Consume(c)
    \/ \E id \in Ids : MarkerExpires(id)
    \/ LockExpires
    \/ \E i \in Instances : InstanceCrashes(i)

Spec == Init /\ [][Next]_vars

\* Clocks advance, timers fire, locks expire, engine and consumer work on what
\* they have.  Crashes and errors do not hit the same statement every time.
Fairness ==
    /\ WF_vars(LockExpires)
    /\ SF_vars(\E t \in Ticks : TickBegins(t))
    /\ \A m \in Monitors : /\ WF_vars(BecomesDue(m))
                           /\ WF_vars(ClaimGoesStale(m))
                           /\ WF_vars(Engine(m))
                           /\ SF_vars(\E t \in Ticks : Claim(t) /\ m \in batch'[t])
                           /\ SF_vars(\E t \in Ticks : Publish(t) /\ m \in batch[t])
    /\ \A t \in Ticks : /\ WF_vars(Claim(t) \/ ClaimsNothing(t))
                        /\ WF_vars(Publish(t) \/ PublishFails(t))
                        /\ WF_vars(ReturnClaims(t) \/ ReturnFails(t))
                        /\ WF_vars(TickReleases(t))
    /\ \A c \in Consumers : /\ WF_vars(Fetch(c))
                            /\ WF_vars(Take(c) \/ SkipDuplicate(c) \/ Park(c))
                            /\ WF_vars(Load(c) \/ SkipInactive(c))
                            /\ WF_vars(Land(c))
                            /\ WF_vars(Notices(c))

FairSpec == Spec /\ Fairness

-------------------------------------------------------------------------------
(* Safety.                                                                 *)

\* "A monitor slower than the tick interval can no longer be dispatched twice, and
\* two replicas racing here cannot both claim the same row" (monitor.scheduler.ts:
\* 50-53): at any time one check of a monitor is under way at most.
SingleFlight == \A m \in Monitors : UnderWay(m) <= 1

\* No result is applied twice (metrics.consumer.ts:28-31), though it is stored twice and
\* handled by the old and the new owner of the partition at once, unless Redis did not
\* answer for it or the 900 seconds of its key were over (26, 36).
AppliedOnce == \A id \in Ids : outcome[id] = "twice" => id \in unguarded

\* What is skipped as "already applied" has had its turn: it was applied, dropped with
\* its paused monitor, is in somebody's hands, or its handling failed.  The exception is
\* a key whose answer was lost.
SkippedHadItsTurn ==
    \A id \in marked \ unguarded : outcome[id] # "none" \/ InHand(id)

\* A failed message "is redelivered instead of lost" (metrics.consumer.ts:146-147): it
\* waits for another delivery, and its key does not have that one skipped.
FailedIsRedelivered ==
    \A id \in Ids : outcome[id] = "failed" => Waiting(id) /\ id \notin marked

-------------------------------------------------------------------------------
(* Liveness.                                                               *)

\* A lost check is "retried rather than stall forever" (monitor.scheduler.ts:10):
\* a monitor that stays active is sent to the engine again and again, unless it
\* is shown PAUSED outside every window, when the scheduler passes it over.
KeepsBeingDispatched ==
    \A m \in Monitors :
        <>[](row[m].active /\ (~row[m].paused \/ window[m])) => []<>(targets[m] > 0)

\* No message blocks "the partition forever" (metrics.consumer.ts:103-104): whatever is
\* stored is fetched and come to, or passed, though it may not parse and its handling
\* may fail.
PartitionNeverBlocks == \A id \in Ids : Waiting(id) ~> ~Waiting(id)

===============================================================================

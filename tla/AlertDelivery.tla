---------------------------- MODULE AlertDelivery -----------------------------
(***************************************************************************)
(* What becomes of an alert once it is raised: the fan-out to notification *)
(* channels with their circuit breaker, the fan-out to legacy webhooks,    *)
(* and the retry queue that both fall back on.                             *)
(*                                                                         *)
(* A delivery is an alert on its way to one endpoint.  AlertPolicy says    *)
(* which alerts are raised.                                                *)
(***************************************************************************)
EXTENDS Naturals

CONSTANTS
    Alerts,
    Channels,       \* notification channels, which have a breaker
    Hooks,          \* legacy webhook endpoints, which have none
    Subscribed,     \* the deliveries asked for: pairs of an alert and an endpoint
    Threshold,      \* FAILURE_THRESHOLD; a larger count is not told apart
    Attempts,       \* attempts of a job of the retry queue
    Faults          \* which of FaultNames happen

Endpoints == Channels \cup Hooks

FaultNames == {
    "db",           \* a database call throws
    "queue",        \* Redis refuses a job
    "crash"}        \* the dispatching process or the retry worker dies

ASSUME SubscribedAssumption == Subscribed \subseteq Alerts \X Endpoints
ASSUME KindsAssumption == Channels \cap Hooks = {}
ASSUME FaultsAssumption == Faults \subseteq FaultNames
ASSUME BoundsAssumption == Threshold \in Nat \ {0} /\ Attempts \in Nat \ {0}

VARIABLES
    enabled,        \* isActive of each endpoint
    count, benched, \* failureCount; disabledUntil is in the future
    stage,          \* where each delivery is
    snap,           \* failureCount as the fan-out read it
    left,           \* attempts its job has left
    stalled,        \* its job has outlived a worker
    got,            \* history: what came of it at the endpoint, as far as one can tell
    wrong           \* history: failures in a row of the channel, up to Threshold

breakerVars == <<enabled, count, benched, wrong>>
jobVars == <<left, stalled>>
deliveryVars == <<stage, snap, jobVars, got>>
vars == <<breakerVars, deliveryVars>>

Stages == {
    "waiting",      \* not raised yet
    "sending", "accepted", "rejected", "queueing",         \* in the fan-out
    "queued", "trying", "noted",                           \* in the retry queue
    "settled"}

TypeOK ==
    /\ enabled \in [Endpoints -> BOOLEAN]
    /\ count \in [Channels -> 0 .. Threshold]
    /\ benched \in [Channels -> BOOLEAN]
    /\ stage \in [Subscribed -> Stages]
    /\ snap \in [Subscribed -> 0 .. Threshold]
    /\ left \in [Subscribed -> 0 .. Attempts]
    /\ stalled \in [Subscribed -> BOOLEAN]
    /\ got \in [Subscribed -> {"nothing", "accepted", "doubtful", "again"}]
    /\ wrong \in [Channels -> 0 .. Threshold]

Init ==
    /\ enabled = [e \in Endpoints |-> TRUE]
    /\ count = [c \in Channels |-> 0]
    /\ benched = [c \in Channels |-> FALSE]
    /\ stage = [d \in Subscribed |-> "waiting"]
    /\ snap = [d \in Subscribed |-> 0]
    /\ left = [d \in Subscribed |-> 0]
    /\ stalled = [d \in Subscribed |-> FALSE]
    /\ got = [d \in Subscribed |-> "nothing"]
    /\ wrong = [c \in Channels |-> 0]

Alert(d) == d[1]
Endpoint(d) == d[2]
IsHook(d) == Endpoint(d) \in Hooks

Up(n) == IF n < Threshold THEN n + 1 ELSE n

\* The delivery goes on to another stage, or ends.
Goes(d, where) == stage' = [stage EXCEPT ![d] = where]

Settles(d) == Goes(d, "settled")

\* The endpoint accepts it, for all the sender knows for the first time or not.
Accepts(d) ==
    got' = [got EXCEPT ![d] = IF @ \in {"accepted", "again"} THEN "again" ELSE "accepted"]

\* Nobody is left who knows that the endpoint has accepted it.
Forgotten(g) == IF g = "accepted" THEN "doubtful" ELSE g

Doubts(d) == got' = [got EXCEPT ![d] = Forgotten(@)]

\* It accepts, and its answer comes too late or not at all.
AcceptsUnheard(d) ==
    got' = [got EXCEPT ![d] = IF @ \in {"accepted", "again"} THEN "again" ELSE "doubtful"]

\* The first deliveries to e that have read its count and not yet written it.
Reading(e) ==
    {d \in Subscribed : Endpoint(d) = e /\ stage[d] \in {"sending", "accepted", "rejected"}}

\* "A success closes the breaker."  It ends the failures in a row, but for another
\* delivery that may still write what it read before.
Closes(e, own) ==
    /\ count' = [c \in Channels |-> IF c = e THEN 0 ELSE count[c]]
    /\ benched' = [c \in Channels |-> IF c = e THEN FALSE ELSE benched[c]]
    /\ wrong' = [c \in Channels |-> IF c = e /\ Reading(e) \subseteq own THEN 0 ELSE wrong[c]]

-------------------------------------------------------------------------------
(* Users and clocks.                                                       *)

\* Any edit clears the breaker, as a successful test message does.
Edit(e) ==
    /\ \E b \in BOOLEAN : enabled' = [enabled EXCEPT ![e] = b]
    /\ Closes(e, {})
    /\ UNCHANGED deliveryVars

BenchEnds(c) ==
    /\ benched[c]
    /\ benched' = [benched EXCEPT ![c] = FALSE]
    /\ UNCHANGED <<enabled, count, wrong, deliveryVars>>

-------------------------------------------------------------------------------
(* The fan-outs: what they hold dies with the process.                     *)

InFanOut(d) == stage[d] \in {"sending", "accepted", "rejected", "queueing"}

Usable(d) == enabled[Endpoint(d)] /\ (Endpoint(d) \in Channels => ~benched[Endpoint(d)])

Begins(d) == stage[d] = "waiting"

Select(d) ==
    /\ Begins(d)
    /\ Usable(d)
    /\ Goes(d, "sending")
    /\ snap' = IF IsHook(d) THEN snap ELSE [snap EXCEPT ![d] = count[Endpoint(d)]]
    /\ UNCHANGED <<breakerVars, jobVars, got>>

\* Not selected by the query.
Skip(d) ==
    /\ Begins(d)
    /\ ~Usable(d)
    /\ Settles(d)
    /\ UNCHANGED <<breakerVars, snap, jobVars, got>>

\* The endpoint takes the message, or does not, or takes it and its answer comes too late.
Send(d) ==
    /\ stage[d] = "sending"
    /\ \/ Goes(d, "accepted") /\ Accepts(d)
       \/ Goes(d, "rejected") /\ (UNCHANGED got \/ AcceptsUnheard(d))
    /\ UNCHANGED <<breakerVars, snap, jobVars>>

\* Mutant: after a delivery was noted it goes to the queue all the same.
NoteAcceptedAndQueue(d) ==
    /\ stage[d] = "accepted" /\ ~IsHook(d)
    /\ Closes(Endpoint(d), {d})
    /\ Goes(d, "queueing")
    /\ snap' = [snap EXCEPT ![d] = 0]
    /\ UNCHANGED <<enabled, jobVars, got>>

NoteAccepted(d) ==
    /\ stage[d] = "accepted" /\ ~IsHook(d)
    /\ Closes(Endpoint(d), {d})
    /\ Settles(d)
    /\ snap' = [snap EXCEPT ![d] = 0]
    /\ UNCHANGED <<enabled, jobVars, got>>

\* That transaction throws: the catch block treats the delivery as failed.
NoteAcceptedFails(d) ==
    /\ "db" \in Faults
    /\ stage[d] = "accepted" /\ ~IsHook(d)
    /\ Goes(d, "rejected")
    /\ Doubts(d)
    /\ UNCHANGED <<breakerVars, snap, jobVars>>

\* Mutant: the count is compared with half the threshold.
TripsEarly(d) == snap[d] + 2 >= Threshold

\* The failure is counted from the snapshot.
Trips(d) == snap[d] + 1 >= Threshold

\* The row is written whatever others have made of it; a tripped channel's delivery
\* is not queued.
NoteRejected(d) ==
    /\ stage[d] = "rejected" /\ ~IsHook(d)
    /\ \/ /\ count' = [count EXCEPT ![Endpoint(d)] = Up(snap[d])]
          /\ benched' = [benched EXCEPT ![Endpoint(d)] = Trips(d)]
       \/ "db" \in Faults /\ UNCHANGED <<count, benched>>
    /\ wrong' = [wrong EXCEPT ![Endpoint(d)] = Up(@)]
    /\ IF Trips(d) THEN Settles(d) ELSE Goes(d, "queueing")
    /\ snap' = [snap EXCEPT ![d] = 0]
    /\ UNCHANGED <<enabled, jobVars, got>>

HooksOf(a) == {d \in Subscribed : Alert(d) = a /\ IsHook(d)}

\* All posts of an alert are waited for, and logged by one statement.
Logged(a) ==
    /\ \A d \in HooksOf(a) : stage[d] \notin {"waiting", "sending"}
    /\ \E d \in HooksOf(a) : stage[d] \in {"accepted", "rejected"}

LogPosts(a) ==
    /\ Logged(a)
    /\ stage' = [d \in Subscribed |->
                   CASE d \in HooksOf(a) /\ stage[d] = "accepted" -> "settled"
                     [] d \in HooksOf(a) /\ stage[d] = "rejected" -> "queueing"
                     [] OTHER -> stage[d]]
    /\ UNCHANGED <<breakerVars, snap, jobVars, got>>

\* What the fan-out of a still holds is dropped, together with what of it is rejected.
Dropped(S) ==
    /\ stage' = [d \in Subscribed |-> IF d \in S THEN "settled" ELSE stage[d]]
    /\ snap' = [d \in Subscribed |-> IF d \in S THEN 0 ELSE snap[d]]

\* That statement throws: no rejected post is queued.
LogPostsFails(a) ==
    /\ "db" \in Faults
    /\ Logged(a)
    /\ Dropped({d \in HooksOf(a) : stage[d] \in {"accepted", "rejected"}})
    /\ UNCHANGED <<breakerVars, jobVars, got>>

Enqueue(d) ==
    /\ stage[d] = "queueing"
    /\ Goes(d, "queued")
    /\ left' = [left EXCEPT ![d] = Attempts]
    /\ UNCHANGED <<breakerVars, snap, stalled, got>>

\* A channel loses its own retry; a webhook also those that come after it.
EnqueueFails(d) ==
    /\ "queue" \in Faults
    /\ stage[d] = "queueing"
    /\ Dropped({d} \cup IF IsHook(d) THEN {x \in HooksOf(Alert(d)) : stage[x] = "queueing"}
                        ELSE {})
    /\ UNCHANGED <<breakerVars, jobVars, got>>

DispatcherDies(a) ==
    /\ "crash" \in Faults
    /\ \E d \in Subscribed : Alert(d) = a /\ InFanOut(d)
    /\ Dropped({d \in Subscribed : Alert(d) = a /\ InFanOut(d)})
    /\ UNCHANGED <<breakerVars, jobVars, got>>

-------------------------------------------------------------------------------
(* The retry worker.                                                       *)

Try(d) ==
    /\ stage[d] = "queued"
    /\ Usable(d)
    /\ Goes(d, "trying")
    /\ UNCHANGED <<breakerVars, snap, jobVars, got>>

JobEnds(d) ==
    /\ Settles(d)
    /\ left' = [left EXCEPT ![d] = 0]
    /\ stalled' = [stalled EXCEPT ![d] = FALSE]

\* Endpoint gone, inactive or benched: the job is done.
TrySkipped(d) ==
    /\ stage[d] = "queued"
    /\ ~Usable(d)
    /\ JobEnds(d)
    /\ UNCHANGED <<breakerVars, snap, got>>

TryAccepted(d) ==
    /\ stage[d] = "trying"
    /\ Goes(d, "noted")
    /\ Accepts(d)
    /\ UNCHANGED <<breakerVars, snap, jobVars>>

\* Mutant: the attempt is not counted.
ThrowsUncounted(d) == Goes(d, "queued") /\ UNCHANGED jobVars

\* The job throws: it is queued again while it has attempts left.
Throws(d) ==
    \/ /\ left[d] > 1
       /\ Goes(d, "queued")
       /\ left' = [left EXCEPT ![d] = @ - 1]
       /\ UNCHANGED stalled
    \/ left[d] <= 1 /\ JobEnds(d)

\* Refused, or the answer comes too late.  It does not count for the breaker.
TryRejected(d) ==
    /\ stage[d] = "trying"
    /\ Throws(d)
    /\ UNCHANGED got \/ AcceptsUnheard(d)
    /\ UNCHANGED <<breakerVars, snap>>

Clears(d) == IF IsHook(d) THEN UNCHANGED <<count, benched, wrong>> ELSE Closes(Endpoint(d), {})

\* It is noted, and the queue learns that the job is done.
TryNoted(d) ==
    /\ stage[d] = "noted"
    /\ Clears(d)
    /\ JobEnds(d)
    /\ UNCHANGED <<enabled, snap, got>>

TryNotedFails(d) ==
    /\ "db" \in Faults
    /\ stage[d] = "noted"
    /\ Throws(d)
    /\ Doubts(d)
    /\ UNCHANGED <<breakerVars, snap>>

\* The worker dies under its job: before the endpoint's answer, before the note, or before
\* the queue is told.  A stalled job is queued again, the first time, at no attempt's
\* cost; the second time it fails.
WorkerDies(d) ==
    /\ "crash" \in Faults
    /\ \/ stage[d] = "trying" /\ UNCHANGED <<count, benched, wrong>>
       \/ stage[d] = "noted" /\ (Clears(d) \/ UNCHANGED <<count, benched, wrong>>)
    /\ \/ /\ ~stalled[d]
          /\ Goes(d, "queued")
          /\ stalled' = [stalled EXCEPT ![d] = TRUE]
          /\ UNCHANGED left
       \/ stalled[d] /\ JobEnds(d)
    /\ Doubts(d)
    /\ UNCHANGED <<enabled, snap>>

-------------------------------------------------------------------------------

FanOut(d) ==
    \/ Select(d)
    \/ Skip(d)
    \/ Send(d)
    \/ NoteAccepted(d)
    \/ NoteAcceptedFails(d)
    \/ NoteRejected(d)
    \/ Enqueue(d)
    \/ EnqueueFails(d)

Retry(d) ==
    \/ Try(d)
    \/ TrySkipped(d)
    \/ TryAccepted(d)
    \/ TryRejected(d)
    \/ TryNoted(d)
    \/ TryNotedFails(d)

LogStep(a) == LogPosts(a) \/ LogPostsFails(a)

Next ==
    \/ \E a \in Alerts : LogStep(a) \/ DispatcherDies(a)
    \/ \E e \in Endpoints : Edit(e)
    \/ \E c \in Channels : BenchEnds(c)
    \/ \E d \in Subscribed : FanOut(d) \/ Retry(d) \/ WorkerDies(d)

Spec == Init /\ [][Next]_vars

\* The fan-outs and the worker go on with what they have; requests time out.
Fairness ==
    /\ \A d \in Subscribed : WF_vars(FanOut(d) \/ Retry(d))
    /\ \A a \in Alerts : WF_vars(LogStep(a))

FairSpec == Spec /\ Fairness

-------------------------------------------------------------------------------

\* An endpoint that has accepted an alert is sent it again only when nobody knew: the
\* answer came too late, the note of it failed, or the worker died before the queue was
\* told.  A delivery that was accepted and noted is over.
KnownIsNotResent == \A d \in Subscribed : got[d] # "again"

\* "After this many consecutive failures the channel is benched" (notification.
\* dispatch.ts:18-20): however deliveries overlap and overwrite each other's count, the
\* breaker counts no more than the first deliveries that failed in a row, and benches for
\* no less than the threshold.  A failure is a delivery that ended in the catch block;
\* a success ends the row unless another delivery was out with the count it had read.
BenchIsEarned ==
    \A c \in Channels : /\ count[c] <= wrong[c]
                        /\ benched[c] => wrong[c] = Threshold

\* "GIVING UP on job ... after ... attempts" (webhook.worker.ts:195): an alert is not
\* on its way for ever.
EveryAlertSettles ==
    \A d \in Subscribed : []<>(stage[d] \in {"waiting", "settled"})

===============================================================================

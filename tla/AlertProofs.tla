------------------------------ MODULE AlertProofs ------------------------------
(***************************************************************************)
(* What the two halves of alerting promise.  AlertDelivery: for any        *)
(* alerts, endpoints, thresholds and faults.  AlertPolicy: for any         *)
(* cooldown, interval, appliers and replicas; its reminders rest on the    *)
(* leader lock, and those theorems take the lock's assumptions.            *)
(***************************************************************************)
EXTENDS AlertDelivery, AlertPolicy, LeaderLockProofs

-------------------------------------------------------------------------------
(* AlertDelivery.                                                          *)

\* What one channel's breaker has counted, and each fan-out has read of it, are
\* wrong in a row.
CountsAreEarned ==
    /\ \A c \in Channels : count[c] <= wrong[c]
    /\ \A c \in Channels : benched[c] => wrong[c] = Threshold
    /\ \A d \in Subscribed : Endpoint(d) \in Channels => snap[d] <= wrong[Endpoint(d)]

\* Only a delivery that is out holds a count it has read.
Holds(s, n) == s \notin {"sending", "accepted", "rejected"} => n = 0

OnlyReadersHold == \A d \in Subscribed : ~IsHook(d) => Holds(stage[d], snap[d])

\* A delivery that may be sent (again) is not known to be accepted.
Clean(s, g) ==
    /\ s \in {"waiting", "sending"} => g = "nothing"
    /\ s \in {"rejected", "queueing", "queued", "trying"} => g \in {"nothing", "doubtful"}
    /\ g # "again"

ResendsAreInDoubt == \A d \in Subscribed : Clean(stage[d], got[d])

\* A job has attempts left.
JobsHaveAttempts ==
    \A d \in Subscribed : stage[d] \in {"queued", "trying", "noted"} => left[d] > 0

IInv == TypeOK /\ CountsAreEarned /\ OnlyReadersHold /\ ResendsAreInDoubt /\ JobsHaveAttempts

LEMMA Kinds ==
    ASSUME NEW d \in Subscribed
    PROVE  /\ Endpoint(d) \in Endpoints
           /\ IsHook(d) <=> Endpoint(d) \notin Channels
BY SubscribedAssumption, KindsAssumption DEF Endpoint, Endpoints, IsHook

LEMMA InitIInv == Init => IInv
<1> SUFFICES ASSUME Init PROVE IInv
  OBVIOUS
<1> USE BoundsAssumption DEF Init
<1>1. TypeOK
  BY DEF TypeOK, Stages
<1>2. CountsAreEarned
  BY Kinds DEF CountsAreEarned
<1>3. ResendsAreInDoubt /\ OnlyReadersHold
  BY DEF ResendsAreInDoubt, Clean, OnlyReadersHold, Holds
<1>4. JobsHaveAttempts
  BY DEF JobsHaveAttempts
<1> QED
  BY <1>1, <1>2, <1>3, <1>4 DEF IInv

-------------------------------------------------------------------------------
(* Types.                                                                  *)

LEMMA UpTyped == ASSUME NEW n \in 0 .. Threshold PROVE Up(n) \in 0 .. Threshold /\ n <= Up(n)
BY BoundsAssumption DEF Up

LEMMA GoesTyped ==
    ASSUME stage \in [Subscribed -> Stages], NEW d \in Subscribed, NEW s \in Stages, Goes(d, s)
    PROVE  stage' \in [Subscribed -> Stages]
BY DEF Goes

LEMMA ClosesTyped ==
    ASSUME TypeOK, NEW e, NEW own, Closes(e, own)
    PROVE  /\ count' \in [Channels -> 0 .. Threshold] /\ benched' \in [Channels -> BOOLEAN]
           /\ wrong' \in [Channels -> 0 .. Threshold]
<1>1. count' \in [Channels -> 0 .. Threshold]
  BY BoundsAssumption DEF TypeOK, Closes
<1>2. ASSUME NEW c \in Channels PROVE (IF c = e THEN FALSE ELSE benched[c]) \in BOOLEAN
  <2>1. benched[c] \in BOOLEAN
    BY DEF TypeOK
  <2> QED
    BY <2>1
<1>3. benched' = [c \in Channels |-> IF c = e THEN FALSE ELSE benched[c]]
  BY DEF Closes
<1>4. wrong' \in [Channels -> 0 .. Threshold]
  BY BoundsAssumption DEF TypeOK, Closes
<1> QED
  BY <1>1, <1>2, <1>3, <1>4

LEMMA GotTyped ==
    ASSUME TypeOK, NEW d \in Subscribed, Accepts(d) \/ Doubts(d) \/ AcceptsUnheard(d)
    PROVE  got' \in [Subscribed -> {"nothing", "accepted", "doubtful", "again"}]
BY DEF TypeOK, Accepts, Doubts, Forgotten, AcceptsUnheard

LEMMA DroppedTyped ==
    ASSUME TypeOK, NEW S, Dropped(S)
    PROVE  stage' \in [Subscribed -> Stages] /\ snap' \in [Subscribed -> 0 .. Threshold]
BY BoundsAssumption DEF TypeOK, Dropped, Stages

LEMMA FanOutTyped == ASSUME TypeOK, NEW d \in Subscribed, FanOut(d) PROVE TypeOK'
<1> USE BoundsAssumption DEF TypeOK, breakerVars, jobVars
<1>0. \A s \in {"sending", "accepted", "rejected", "queueing", "queued", "settled"} : s \in Stages
  BY DEF Stages
<1>1. CASE Select(d)
  <2>1. stage' \in [Subscribed -> Stages]
    BY <1>0, <1>1, GoesTyped DEF Select
  <2>2. snap' \in [Subscribed -> 0 .. Threshold]
    <3>1. CASE IsHook(d)
      BY <1>1, <3>1 DEF Select
    <3>2. CASE ~IsHook(d)
      BY <1>1, <3>2, Kinds DEF Select
    <3> QED
      BY <3>1, <3>2
  <2> QED
    BY <1>1, <2>1, <2>2 DEF Select
<1>2. CASE Skip(d)
  <2>1. stage' \in [Subscribed -> Stages]
    BY <1>0, <1>2, GoesTyped DEF Skip, Settles
  <2> QED
    BY <1>2, <2>1 DEF Skip
<1>3. CASE Send(d)
  <2>1. stage' \in [Subscribed -> Stages]
    BY <1>0, <1>3, GoesTyped DEF Send
  <2>2. got' \in [Subscribed -> {"nothing", "accepted", "doubtful", "again"}]
    BY <1>3, GotTyped DEF Send
  <2> QED
    BY <1>3, <2>1, <2>2 DEF Send
<1>4. CASE NoteAccepted(d)
  <2>1. stage' \in [Subscribed -> Stages]
    BY <1>0, <1>4, GoesTyped DEF NoteAccepted, Settles
  <2>2. /\ count' \in [Channels -> 0 .. Threshold] /\ benched' \in [Channels -> BOOLEAN]
        /\ wrong' \in [Channels -> 0 .. Threshold]
    BY <1>4, ClosesTyped DEF NoteAccepted
  <2>3. snap' \in [Subscribed -> 0 .. Threshold]
    BY <1>4 DEF NoteAccepted
  <2> QED
    BY <1>4, <2>1, <2>2, <2>3 DEF NoteAccepted
<1>5. CASE NoteAcceptedFails(d)
  <2>1. stage' \in [Subscribed -> Stages]
    BY <1>0, <1>5, GoesTyped DEF NoteAcceptedFails
  <2> QED
    BY <1>5, <2>1, GotTyped DEF NoteAcceptedFails
<1>6. CASE NoteRejected(d)
  <2>1. stage' \in [Subscribed -> Stages]
    BY <1>0, <1>6, GoesTyped DEF NoteRejected, Settles
  <2>2. count' \in [Channels -> 0 .. Threshold]
    BY <1>6, UpTyped DEF NoteRejected
  <2>3. benched' \in [Channels -> BOOLEAN]
    <3>1. CASE UNCHANGED benched
      BY <3>1
    <3>2. CASE benched' = [benched EXCEPT ![Endpoint(d)] = Trips(d)]
      <4>1. Trips(d) \in BOOLEAN
        BY DEF Trips
      <4> QED
        BY <3>2, <4>1
    <3> QED
      BY <1>6, <3>1, <3>2 DEF NoteRejected
  <2>4. wrong' \in [Channels -> 0 .. Threshold]
    <3>1. Endpoint(d) \in Channels
      BY <1>6, Kinds DEF NoteRejected
    <3>2. wrong' = [wrong EXCEPT ![Endpoint(d)] = Up(wrong[Endpoint(d)])]
      BY <1>6 DEF NoteRejected
    <3> QED
      BY <3>1, <3>2, UpTyped
  <2>5. snap' \in [Subscribed -> 0 .. Threshold]
    BY <1>6 DEF NoteRejected
  <2>6. UNCHANGED <<enabled, jobVars, got>>
    BY <1>6 DEF NoteRejected
  <2> QED
    BY <2>1, <2>2, <2>3, <2>4, <2>5, <2>6
<1>7. CASE Enqueue(d)
  <2>1. stage' \in [Subscribed -> Stages]
    BY <1>0, <1>7, GoesTyped DEF Enqueue
  <2>2. left' \in [Subscribed -> 0 .. Attempts]
    BY <1>7 DEF Enqueue
  <2> QED
    BY <1>7, <2>1, <2>2 DEF Enqueue
<1>8. CASE EnqueueFails(d)
  BY <1>8, DroppedTyped DEF EnqueueFails
<1> QED
  BY <1>1, <1>2, <1>3, <1>4, <1>5, <1>6, <1>7, <1>8 DEF FanOut

LEMMA JobEndsTyped ==
    ASSUME TypeOK, NEW d \in Subscribed, JobEnds(d)
    PROVE  /\ stage' \in [Subscribed -> Stages]
           /\ left' \in [Subscribed -> 0 .. Attempts] /\ stalled' \in [Subscribed -> BOOLEAN]
<1>1. stage' \in [Subscribed -> Stages]
  BY GoesTyped DEF JobEnds, Settles, Stages, TypeOK
<1>2. left' \in [Subscribed -> 0 .. Attempts]
  BY BoundsAssumption DEF JobEnds, TypeOK
<1>3. stalled' \in [Subscribed -> BOOLEAN]
  BY DEF JobEnds, TypeOK
<1> QED
  BY <1>1, <1>2, <1>3

LEMMA ThrowsTyped ==
    ASSUME TypeOK, NEW d \in Subscribed, Throws(d)
    PROVE  /\ stage' \in [Subscribed -> Stages]
           /\ left' \in [Subscribed -> 0 .. Attempts] /\ stalled' \in [Subscribed -> BOOLEAN]
<1>1. CASE JobEnds(d)
  BY <1>1, JobEndsTyped
<1>2. CASE left[d] > 1 /\ Goes(d, "queued") /\ left' = [left EXCEPT ![d] = @ - 1] /\ UNCHANGED stalled
  <2>1. stage' \in [Subscribed -> Stages]
    BY <1>2, GoesTyped DEF Stages, TypeOK
  <2>2. left[d] - 1 \in 0 .. Attempts
    BY <1>2, BoundsAssumption DEF TypeOK
  <2> QED
    BY <1>2, <2>1, <2>2 DEF TypeOK
<1> QED
  BY <1>1, <1>2 DEF Throws

LEMMA ClearsTyped ==
    ASSUME TypeOK, NEW d \in Subscribed, Clears(d) \/ UNCHANGED <<count, benched, wrong>>
    PROVE  /\ count' \in [Channels -> 0 .. Threshold] /\ benched' \in [Channels -> BOOLEAN]
           /\ wrong' \in [Channels -> 0 .. Threshold]
<1>1. CASE UNCHANGED <<count, benched, wrong>>
  BY <1>1 DEF TypeOK
<1>2. CASE Closes(Endpoint(d), {})
  BY <1>2, ClosesTyped
<1> QED
  BY <1>1, <1>2 DEF Clears

LEMMA RetryTyped ==
    ASSUME TypeOK, NEW d \in Subscribed, Retry(d) \/ WorkerDies(d) PROVE TypeOK'
<1> USE DEF breakerVars, jobVars
<1>1. CASE Try(d)
  <2>1. stage' \in [Subscribed -> Stages]
    BY <1>1, GoesTyped DEF Try, Stages, TypeOK
  <2> QED
    BY <1>1, <2>1 DEF Try, TypeOK
<1>2. CASE TrySkipped(d)
  BY <1>2, JobEndsTyped DEF TrySkipped, TypeOK
<1>3. CASE TryAccepted(d)
  <2>1. stage' \in [Subscribed -> Stages]
    BY <1>3, GoesTyped DEF TryAccepted, Stages, TypeOK
  <2> QED
    BY <1>3, <2>1, GotTyped DEF TryAccepted, TypeOK
<1>4. CASE TryRejected(d) \/ TryNotedFails(d)
  BY <1>4, ThrowsTyped, GotTyped DEF TryRejected, TryNotedFails, TypeOK
<1>5. CASE TryNoted(d)
  BY <1>5, JobEndsTyped, ClearsTyped DEF TryNoted, TypeOK
<1>6. CASE WorkerDies(d)
  <2>1. /\ stage' \in [Subscribed -> Stages]
        /\ left' \in [Subscribed -> 0 .. Attempts] /\ stalled' \in [Subscribed -> BOOLEAN]
    <3>1. CASE JobEnds(d)
      BY <3>1, JobEndsTyped
    <3>2. CASE Goes(d, "queued") /\ stalled' = [stalled EXCEPT ![d] = TRUE] /\ UNCHANGED left
      BY <3>2, GoesTyped DEF Stages, TypeOK
    <3> QED
      BY <1>6, <3>1, <3>2 DEF WorkerDies
  <2>2. /\ count' \in [Channels -> 0 .. Threshold] /\ benched' \in [Channels -> BOOLEAN]
        /\ wrong' \in [Channels -> 0 .. Threshold]
    BY <1>6, ClearsTyped DEF WorkerDies
  <2>3. Doubts(d) /\ UNCHANGED <<enabled, snap>>
    BY <1>6 DEF WorkerDies
  <2> QED
    BY <2>1, <2>2, <2>3, GotTyped DEF TypeOK
<1> QED
  BY <1>1, <1>2, <1>3, <1>4, <1>5, <1>6 DEF Retry

LEMMA NextTyped == TypeOK /\ [Next]_vars => TypeOK'
<1> SUFFICES ASSUME TypeOK, [Next]_vars PROVE TypeOK'
  OBVIOUS
<1> USE DEF breakerVars, jobVars
<1>1. ASSUME NEW a \in Alerts, LogPosts(a) PROVE TypeOK'
  <2>1. stage' \in [Subscribed -> Stages]
    BY <1>1 DEF LogPosts, TypeOK, Stages
  <2> QED
    BY <1>1, <2>1 DEF LogPosts, TypeOK
<1>2. ASSUME NEW a \in Alerts, LogPostsFails(a) \/ DispatcherDies(a) PROVE TypeOK'
  BY <1>2, DroppedTyped DEF LogPostsFails, DispatcherDies, TypeOK
<1>3. ASSUME NEW e \in Endpoints, Edit(e) PROVE TypeOK'
  BY <1>3, ClosesTyped DEF Edit, TypeOK, deliveryVars
<1>4. ASSUME NEW c \in Channels, BenchEnds(c) PROVE TypeOK'
  BY <1>4 DEF BenchEnds, TypeOK, deliveryVars
<1>5. ASSUME NEW d \in Subscribed, FanOut(d) \/ Retry(d) \/ WorkerDies(d) PROVE TypeOK'
  BY <1>5, FanOutTyped, RetryTyped
<1>6. CASE UNCHANGED vars
  BY <1>6 DEF vars, deliveryVars, TypeOK
<1> QED
  BY <1>1, <1>2, <1>3, <1>4, <1>5, <1>6 DEF Next, LogStep

-------------------------------------------------------------------------------
(* Each delivery.                                                          *)

\* The deliveries a step leaves where they are, or settles.
Rests(d) ==
    /\ got'[d] = got[d] /\ left'[d] = left[d]
    /\ \/ stage'[d] = stage[d] /\ snap'[d] = snap[d]
       \/ stage'[d] = "settled" /\ snap'[d] = 0

CleanNow(d) ==
    /\ Clean(stage[d], got[d])
    /\ ~IsHook(d) => Holds(stage[d], snap[d])
    /\ stage[d] \in {"queued", "trying", "noted"} => left[d] > 0

LEMMA RestsIsClean == ASSUME NEW d \in Subscribed, CleanNow(d), Rests(d) PROVE CleanNow(d)'
BY DEF CleanNow, Clean, Rests, Holds, IsHook, Endpoint

LEMMA FanOutClean ==
    ASSUME TypeOK, NEW d \in Subscribed, NEW x \in Subscribed, CleanNow(x), FanOut(d)
    PROVE  CleanNow(x)'
<1> USE BoundsAssumption DEF TypeOK, CleanNow, Clean, Holds, Goes, Settles, jobVars, IsHook, Endpoint
<1>1. CASE x # d /\ ~EnqueueFails(d)
  <2>1. Rests(x)
    BY <1>1 DEF FanOut, Rests, Select, Skip, Send, Accepts, AcceptsUnheard, Doubts, NoteAccepted,
                NoteAcceptedFails, NoteRejected, Enqueue
  <2> QED
    BY <2>1, RestsIsClean
<1>2. CASE EnqueueFails(d)
  <2>1. Rests(x)
    BY <1>2 DEF EnqueueFails, Dropped, Rests
  <2> QED
    BY <2>1, RestsIsClean
<1>3. CASE x = d /\ (Select(d) \/ Skip(d))
  BY <1>3 DEF Select, Skip, Begins
<1>4. CASE x = d /\ Send(d)
  BY <1>4 DEF Send, Accepts, AcceptsUnheard
<1>5. CASE x = d /\ (NoteAccepted(d) \/ NoteAcceptedFails(d))
  BY <1>5 DEF NoteAccepted, NoteAcceptedFails, Doubts, Forgotten
<1>6. CASE x = d /\ NoteRejected(d)
  BY <1>6 DEF NoteRejected
<1>7. CASE x = d /\ Enqueue(d)
  BY <1>7 DEF Enqueue
<1> QED
  BY <1>1, <1>2, <1>3, <1>4, <1>5, <1>6, <1>7 DEF FanOut

LEMMA RetryClean ==
    ASSUME TypeOK, NEW d \in Subscribed, NEW x \in Subscribed, CleanNow(x),
           Retry(d) \/ WorkerDies(d)
    PROVE  CleanNow(x)'
<1> USE DEF TypeOK, CleanNow, Clean, Holds, Goes, Settles, jobVars, IsHook, Endpoint
<1>1. CASE x # d
  <2>1. Rests(x)
    BY <1>1 DEF Retry, WorkerDies, Rests, Try, TrySkipped, TryAccepted, Accepts, AcceptsUnheard,
                Doubts, TryRejected, TryNoted, TryNotedFails, Throws, JobEnds
  <2> QED
    BY <2>1, RestsIsClean
<1>2. CASE x = d /\ (Try(d) \/ TrySkipped(d))
  BY <1>2 DEF Try, TrySkipped, JobEnds
<1>3. CASE x = d /\ TryAccepted(d)
  BY <1>3 DEF TryAccepted, Accepts
<1>4. CASE x = d /\ TryRejected(d)
  BY <1>4 DEF TryRejected, Throws, JobEnds, AcceptsUnheard
<1>5. CASE x = d /\ (TryNoted(d) \/ TryNotedFails(d))
  BY <1>5 DEF TryNoted, TryNotedFails, Throws, JobEnds, Doubts, Forgotten
<1>6. CASE x = d /\ WorkerDies(d)
  BY <1>6 DEF WorkerDies, JobEnds, Doubts, Forgotten
<1> QED
  BY <1>1, <1>2, <1>3, <1>4, <1>5, <1>6 DEF Retry

LEMMA NextClean ==
    ASSUME TypeOK, ResendsAreInDoubt, OnlyReadersHold, JobsHaveAttempts, [Next]_vars
    PROVE  ResendsAreInDoubt' /\ OnlyReadersHold' /\ JobsHaveAttempts'
<1>1. ASSUME NEW x \in Subscribed PROVE CleanNow(x)'
  <2>0. CleanNow(x)
    BY DEF ResendsAreInDoubt, OnlyReadersHold, JobsHaveAttempts, CleanNow
  <2>1. ASSUME NEW a \in Alerts, LogPosts(a) PROVE CleanNow(x)'
    BY <2>0, <2>1 DEF LogPosts, HooksOf, IsHook, Endpoint, CleanNow, Clean, Holds, TypeOK, jobVars
  <2>2. ASSUME NEW a \in Alerts, LogPostsFails(a) \/ DispatcherDies(a) PROVE Rests(x)
    BY <2>2 DEF LogPostsFails, DispatcherDies, Dropped, Rests, jobVars
  <2>3. CASE (\E e \in Endpoints : Edit(e)) \/ (\E c \in Channels : BenchEnds(c)) \/ UNCHANGED vars
    <3>1. Rests(x)
      BY <2>3 DEF Edit, BenchEnds, deliveryVars, jobVars, vars, Rests
    <3> QED
      BY <2>0, <3>1, RestsIsClean
  <2>4. ASSUME NEW d \in Subscribed, FanOut(d) \/ Retry(d) \/ WorkerDies(d) PROVE CleanNow(x)'
    BY <2>0, <2>4, FanOutClean, RetryClean
  <2> QED
    BY <2>0, <2>1, <2>2, <2>3, <2>4, RestsIsClean DEF Next, LogStep
<1> QED
  BY <1>1 DEF ResendsAreInDoubt, OnlyReadersHold, JobsHaveAttempts, CleanNow

-------------------------------------------------------------------------------
(* Each breaker.                                                           *)

\* A step that fails nothing: counts and what was read of them are kept, lowered to
\* zero, or, for what is read, taken from the count itself.
Harmless ==
    /\ wrong' = wrong
    /\ \A c \in Channels : count'[c] = count[c] \/ count'[c] = 0
    /\ \A c \in Channels : benched'[c] => benched[c]
    /\ \A d \in Subscribed : Endpoint(d) \in Channels =>
          snap'[d] \in {snap[d], 0, count[Endpoint(d)]}

LEMMA HarmlessIsEarned ==
    ASSUME TypeOK, CountsAreEarned, Harmless PROVE CountsAreEarned'
<1>1. \A c \in Channels : wrong[c] >= 0
  BY BoundsAssumption DEF TypeOK
<1> QED
  BY <1>1 DEF CountsAreEarned, Harmless

\* A success: the count goes with the failures in a row, and so has what was read of it.
LEMMA ClosesEarned ==
    ASSUME TypeOK, CountsAreEarned, OnlyReadersHold, NEW e, NEW own, Closes(e, own),
           \A d \in Subscribed : snap'[d] = snap[d] \/ snap'[d] = 0,
           \A d \in own : snap'[d] = 0
    PROVE  CountsAreEarned'
<1>1. \A c \in Channels : count'[c] = IF c = e THEN 0 ELSE count[c]
  BY DEF Closes
<1>2. \A c \in Channels : benched'[c] => benched[c] /\ c # e
  BY DEF Closes
<1>3. \A c \in Channels : /\ wrong'[c] \in Nat /\ (c # e => wrong'[c] = wrong[c])
                          /\ wrong'[c] = wrong[c] \/ (wrong'[c] = 0 /\ Reading(e) \subseteq own)
  BY BoundsAssumption DEF Closes, TypeOK
<1>4. ASSUME NEW d \in Subscribed, Endpoint(d) \in Channels PROVE snap'[d] <= wrong'[Endpoint(d)]
  <2>1. snap[d] \in Nat /\ snap[d] <= wrong[Endpoint(d)]
    BY <1>4, BoundsAssumption DEF TypeOK, CountsAreEarned
  <2>2. CASE wrong'[Endpoint(d)] = wrong[Endpoint(d)]
    BY <1>3, <1>4, <2>1, <2>2
  <2>3. CASE wrong'[Endpoint(d)] # wrong[Endpoint(d)]
    <3>1. Endpoint(d) = e /\ Reading(e) \subseteq own
      BY <1>3, <1>4, <2>3
    <3>2. CASE d \in Reading(e)
      BY <1>3, <1>4, <3>1, <3>2
    <3>3. CASE d \notin Reading(e)
      <4>1. snap[d] = 0
        BY <1>4, <3>1, <3>3, Kinds DEF Reading, OnlyReadersHold, Holds
      <4> QED
        BY <1>3, <1>4, <4>1
    <3> QED
      BY <3>2, <3>3
  <2> QED
    BY <2>2, <2>3
<1>5. \A c \in Channels : count'[c] <= wrong'[c]
  BY <1>1, <1>3, BoundsAssumption DEF CountsAreEarned
<1>6. \A c \in Channels : benched'[c] => wrong'[c] = Threshold
  BY <1>2, <1>3 DEF CountsAreEarned
<1> QED
  BY <1>4, <1>5, <1>6 DEF CountsAreEarned

LEMMA BreakerUntouched ==
    ASSUME UNCHANGED breakerVars, \A d \in Subscribed : snap'[d] = snap[d] \/ snap'[d] = 0
    PROVE  Harmless
BY DEF breakerVars, Harmless

\* The one step that counts: whatever others have made of the row since it was
\* read, what is written is what was read and this failure.
LEMMA NoteRejectedEarned ==
    ASSUME TypeOK, CountsAreEarned, NEW d \in Subscribed, NoteRejected(d)
    PROVE  CountsAreEarned'
<1> DEFINE e == Endpoint(d)
<1>0. e \in Channels /\ Threshold \in Nat \ {0}
  BY BoundsAssumption, Kinds DEF NoteRejected
<1>1. /\ \A c \in Channels : wrong[c] \in 0 .. Threshold /\ count[c] \in 0 .. Threshold
      /\ \A x \in Subscribed : snap[x] \in 0 .. Threshold
      /\ snap[d] <= wrong[e]
  BY <1>0 DEF TypeOK, CountsAreEarned
<1>2. wrong' = [wrong EXCEPT ![e] = Up(wrong[e])]
  BY DEF NoteRejected
<1>3. wrong \in [Channels -> 0 .. Threshold] /\ count \in [Channels -> 0 .. Threshold]
      /\ benched \in [Channels -> BOOLEAN] /\ snap \in [Subscribed -> 0 .. Threshold]
  BY DEF TypeOK
<1>4. wrong'[e] = Up(wrong[e]) /\ \A c \in Channels \ {e} : wrong'[c] = wrong[c]
  BY <1>0, <1>2, <1>3
<1>5. Up(snap[d]) <= Up(wrong[e]) /\ wrong[e] <= Up(wrong[e])
      /\ (wrong[e] = Threshold => Up(wrong[e]) = Threshold)
  BY <1>0, <1>1 DEF Up
<1>6. Trips(d) => Up(wrong[e]) = Threshold
  BY <1>0, <1>1 DEF Trips, Up
<1>7. \A c \in Channels : count'[c] <= wrong'[c]
  <2>1. CASE UNCHANGED count
    BY <1>0, <1>1, <1>4, <1>5, <2>1 DEF CountsAreEarned, Up
  <2>2. CASE count' = [count EXCEPT ![e] = Up(snap[d])]
    <3>1. count'[e] = Up(snap[d]) /\ \A c \in Channels \ {e} : count'[c] = count[c]
      BY <1>0, <1>3, <2>2
    <3> QED
      BY <1>4, <1>5, <3>1 DEF CountsAreEarned
  <2> QED
    BY <2>1, <2>2 DEF NoteRejected
<1>8. \A c \in Channels : benched'[c] => wrong'[c] = Threshold
  <2>1. CASE UNCHANGED benched
    BY <1>4, <1>5, <2>1 DEF CountsAreEarned
  <2>2. CASE benched' = [benched EXCEPT ![e] = Trips(d)]
    <3>1. benched'[e] = Trips(d) /\ \A c \in Channels \ {e} : benched'[c] = benched[c]
      BY <1>0, <1>3, <2>2
    <3> QED
      BY <1>4, <1>6, <3>1 DEF CountsAreEarned
  <2> QED
    BY <2>1, <2>2 DEF NoteRejected
<1>9. \A x \in Subscribed : Endpoint(x) \in Channels => snap'[x] <= wrong'[Endpoint(x)]
  <2> SUFFICES ASSUME NEW x \in Subscribed, Endpoint(x) \in Channels
               PROVE  snap'[x] <= wrong'[Endpoint(x)]
    OBVIOUS
  <2>1. snap'[x] \in {snap[x], 0}
    BY <1>3 DEF NoteRejected
  <2>2. wrong[Endpoint(x)] <= wrong'[Endpoint(x)]
    <3>1. CASE Endpoint(x) = e
      BY <1>4, <1>5, <3>1
    <3>2. CASE Endpoint(x) # e
      BY <1>1, <1>4, <3>2
    <3> QED
      BY <3>1, <3>2
  <2>3. /\ snap[x] <= wrong[Endpoint(x)]
        /\ snap[x] \in Nat /\ wrong[Endpoint(x)] \in Nat
        /\ wrong'[Endpoint(x)] \in Nat
    <3>1. wrong'[Endpoint(x)] \in {Up(wrong[e]), wrong[Endpoint(x)]}
      BY <1>4
    <3> QED
      BY <1>0, <1>1, <3>1 DEF CountsAreEarned, Up
  <2> QED
    BY <2>1, <2>2, <2>3
<1> QED
  BY <1>7, <1>8, <1>9 DEF CountsAreEarned

LEMMA FanOutEarned ==
    ASSUME TypeOK, CountsAreEarned, OnlyReadersHold, NEW d \in Subscribed, FanOut(d)
    PROVE  CountsAreEarned'
<1>1. CASE Select(d)
  <2>1. \A x \in Subscribed : Endpoint(x) \in Channels => snap'[x] \in {snap[x], count[Endpoint(x)]}
    BY <1>1 DEF Select, TypeOK
  <2> QED
    BY <1>1, <2>1, HarmlessIsEarned DEF Select, breakerVars, Harmless
<1>2. CASE Skip(d) \/ Send(d) \/ NoteAcceptedFails(d) \/ Enqueue(d)
  BY <1>2, BreakerUntouched, HarmlessIsEarned DEF Skip, Send, NoteAcceptedFails, Enqueue
<1>3. CASE EnqueueFails(d)
  BY <1>3, BreakerUntouched, HarmlessIsEarned DEF EnqueueFails, Dropped
<1>4. CASE NoteAccepted(d)
  <2>1. snap'[d] = 0 /\ \A x \in Subscribed : snap'[x] = snap[x] \/ snap'[x] = 0
    BY <1>4 DEF NoteAccepted, TypeOK
  <2> QED
    BY <1>4, <2>1, ClosesEarned DEF NoteAccepted
<1>5. CASE NoteRejected(d)
  BY <1>5, NoteRejectedEarned
<1> QED
  BY <1>1, <1>2, <1>3, <1>4, <1>5 DEF FanOut

LEMMA RetryEarned ==
    ASSUME TypeOK, CountsAreEarned, OnlyReadersHold, NEW d \in Subscribed,
           Retry(d) \/ WorkerDies(d)
    PROVE  CountsAreEarned'
<1>1. CASE Try(d) \/ TrySkipped(d) \/ TryAccepted(d) \/ TryRejected(d) \/ TryNotedFails(d)
  BY <1>1, BreakerUntouched, HarmlessIsEarned
     DEF Try, TrySkipped, TryAccepted, TryRejected, TryNotedFails
<1>2. CASE TryNoted(d) \/ WorkerDies(d)
  <2>1. UNCHANGED <<enabled, snap>> /\ (Clears(d) \/ UNCHANGED <<count, benched, wrong>>)
    BY <1>2 DEF TryNoted, WorkerDies
  <2>2. CASE Closes(Endpoint(d), {})
    BY <2>1, <2>2, ClosesEarned
  <2>3. CASE UNCHANGED <<count, benched, wrong>>
    BY <2>1, <2>3, BreakerUntouched, HarmlessIsEarned DEF breakerVars
  <2> QED
    BY <2>1, <2>2, <2>3 DEF Clears
<1> QED
  BY <1>1, <1>2 DEF Retry

LEMMA NextEarned ==
    ASSUME TypeOK, CountsAreEarned, OnlyReadersHold, [Next]_vars PROVE CountsAreEarned'
<1>1. ASSUME NEW a \in Alerts, LogPosts(a) \/ LogPostsFails(a) \/ DispatcherDies(a)
      PROVE  CountsAreEarned'
  BY <1>1, BreakerUntouched, HarmlessIsEarned DEF LogPosts, LogPostsFails, DispatcherDies, Dropped
<1>2. ASSUME NEW e \in Endpoints, Edit(e) PROVE CountsAreEarned'
  BY <1>2, ClosesEarned DEF Edit, deliveryVars
<1>3. ASSUME NEW c \in Channels, BenchEnds(c) PROVE CountsAreEarned'
  <2>1. \A x \in Channels : benched'[x] => benched[x]
    BY <1>3 DEF BenchEnds, TypeOK
  <2> QED
    BY <1>3, <2>1, HarmlessIsEarned DEF BenchEnds, Harmless, deliveryVars
<1>4. ASSUME NEW d \in Subscribed, FanOut(d) \/ Retry(d) \/ WorkerDies(d)
      PROVE  CountsAreEarned'
  BY <1>4, FanOutEarned, RetryEarned
<1>5. CASE UNCHANGED vars
  BY <1>5, BreakerUntouched, HarmlessIsEarned DEF vars, deliveryVars
<1> QED
  BY <1>1, <1>2, <1>3, <1>4, <1>5 DEF Next, LogStep

-------------------------------------------------------------------------------
LEMMA NextIInv == IInv /\ [Next]_vars => IInv'
BY NextTyped, NextEarned, NextClean DEF IInv

\* Every variable keeps its type; above all no job is tried more often than it may be.
THEOREM TypeCorrect == Spec => []TypeOK
<1>1. IInv => TypeOK
  BY DEF IInv
<1> QED
  BY InitIInv, NextIInv, <1>1, PTL DEF Spec

\* Whatever fails, dies or is retried in the fan-outs and in the retry worker, an
\* endpoint that has accepted an alert is sent it again only when its answer came too
\* late, the note of it failed, or the worker died before the queue was told.
THEOREM ResendsComeOfDoubt == Spec => []KnownIsNotResent
<1>1. IInv => KnownIsNotResent
  BY DEF IInv, ResendsAreInDoubt, Clean, KnownIsNotResent
<1> QED
  BY InitIInv, NextIInv, <1>1, PTL DEF Spec

\* The breaker (deliverToChannel) never counts more than the deliveries that failed in a
\* row, and never benches for fewer than the threshold, for any threshold and any number
\* of overlapping deliveries that overwrite each other's count.
THEOREM BenchesAreEarned == Spec => []BenchIsEarned
<1>1. IInv => BenchIsEarned
  BY DEF IInv, CountsAreEarned, BenchIsEarned
<1> QED
  BY InitIInv, NextIInv, <1>1, PTL DEF Spec

-------------------------------------------------------------------------------
(* AlertPolicy.  What each step is for the lock, for the types, for the    *)
(* pages and for the reminders.                                            *)

\* Reading the row while no stamp is on its way, or paging alone, blurs nothing: then
\* the row, and every snapshot of it, is at least as young as the last page.
RowShowsLastPage ==
    ~blurred =>
        /\ \A s \in stamping : s <= paged
        /\ stamping = {} => stamp <= paged
        /\ \A a \in Appliers : hand[a].loaded => hand[a].stamp <= paged

\* A tick that does not work holds no sweep, and what is sent is about an incident.
SweepsReset ==
    \A t \in Ticks : /\ tick[t] # "working" => sweep[t] = NoSweep
                     /\ sweep[t].stage # "reading" => sweep[t].incident \in Incidents

\* Who reminds of the incident found it due, and so it is until that is recorded.
SendersFoundItDue == \A t \in Ticks : At(t, "sending") /\ IsOf(t) => since = Interval

Recording(t) == At(t, "recording") /\ IsOf(t)

\* lastReminderAt tells the last reminder, but for the sweep about to record it.
RowShowsLastReminder ==
    ~unrecorded /\ incident # None =>
        /\ \A t \in Ticks : Recording(t) => reminded = sweep[t].age
        /\ (\A t \in Ticks : ~Recording(t)) => since <= reminded

\* A stray reminder is the one that was about to be sent.
StrayWasSending ==
    /\ Remindable => stray = 0
    /\ stray <= 1
    /\ stray = 1 => \A t \in Ticks : ~At(t, "sending")

PolicyInv == PolicyTypeOK /\ RowShowsLastPage /\ SweepsReset

SinceInv == SendersFoundItDue /\ RowShowsLastReminder

Hands == [loaded : BOOLEAN, muted : BOOLEAN, stamp : 0 .. Cooldown]

Sweeps == [stage : {"reading", "sending", "recording"}, age : 0 .. Interval,
           incident : Incidents \cup {None}]

-------------------------------------------------------------------------------
(* Ages.                                                                   *)

LEMMA OlderKeeps ==
    ASSUME NEW n \in Nat
    PROVE  /\ \A x \in 0 .. n : Older(x, n) \in 0 .. n
           /\ \A x, y \in 0 .. n : x <= y => Older(x, n) <= Older(y, n)
           /\ Older(n, n) = n
BY DEF Older

LEMMA HandAges ==
    ASSUME NEW h \in Hands
    PROVE  /\ [h EXCEPT !.stamp = Older(@, Cooldown)] \in Hands
           /\ [h EXCEPT !.stamp = Older(@, Cooldown)].loaded = h.loaded
           /\ [h EXCEPT !.stamp = Older(@, Cooldown)].stamp = Older(h.stamp, Cooldown)
<1>1. Older(h.stamp, Cooldown) \in 0 .. Cooldown
  BY AgesAssumption, OlderKeeps DEF Hands
<1> QED
  BY <1>1 DEF Hands

LEMMA SweepMoves ==
    ASSUME NEW s \in Sweeps
    PROVE  /\ [s EXCEPT !.stage = "recording"] \in Sweeps
           /\ [s EXCEPT !.stage = "recording"].stage = "recording"
           /\ [s EXCEPT !.stage = "recording"].age = s.age
           /\ [s EXCEPT !.stage = "recording"].incident = s.incident
BY DEF Sweeps

LEMMA SweepAges ==
    ASSUME NEW s \in Sweeps
    PROVE  /\ [s EXCEPT !.age = Older(@, Interval)] \in Sweeps
           /\ [s EXCEPT !.age = Older(@, Interval)].stage = s.stage
           /\ [s EXCEPT !.age = Older(@, Interval)].age = Older(s.age, Interval)
           /\ [s EXCEPT !.age = Older(@, Interval)].incident = s.incident
<1>1. Older(s.age, Interval) \in 0 .. Interval
  BY AgesAssumption, OlderKeeps DEF Sweeps
<1> QED
  BY <1>1 DEF Sweeps

\* What a tick of the clock does to snapshots and sweeps.
LEMMA TimeAges ==
    ASSUME PolicyTypeOK, TimePasses
    PROVE  /\ hand' \in [Appliers -> Hands]
           /\ \A a \in Appliers : /\ hand'[a].loaded = hand[a].loaded
                                  /\ hand[a].loaded =>
                                        hand'[a].stamp = Older(hand[a].stamp, Cooldown)
           /\ sweep' \in [Ticks -> Sweeps]
           /\ \A t \in Ticks :
                 /\ sweep'[t].stage = sweep[t].stage /\ sweep'[t].incident = sweep[t].incident
                 /\ tick[t] = "working" => sweep'[t].age = Older(sweep[t].age, Interval)
                 /\ tick[t] # "working" => sweep'[t] = sweep[t]
<1>1. hand \in [Appliers -> Hands] /\ sweep \in [Ticks -> Sweeps]
  BY DEF PolicyTypeOK, Hands, Sweeps
<1>2. /\ hand' = [a \in Appliers |-> IF hand[a].loaded
                                     THEN [hand[a] EXCEPT !.stamp = Older(@, Cooldown)]
                                     ELSE hand[a]]
      /\ sweep' = [t \in Ticks |-> IF tick[t] = "working"
                                   THEN [sweep[t] EXCEPT !.age = Older(@, Interval)]
                                   ELSE sweep[t]]
  BY DEF TimePasses
<1>3. ASSUME NEW a \in Appliers
      PROVE  /\ hand'[a] \in Hands /\ hand'[a].loaded = hand[a].loaded
             /\ hand[a].loaded => hand'[a].stamp = Older(hand[a].stamp, Cooldown)
  BY <1>1, <1>2, HandAges
<1>4. ASSUME NEW t \in Ticks
      PROVE  /\ sweep'[t] \in Sweeps
             /\ sweep'[t].stage = sweep[t].stage /\ sweep'[t].incident = sweep[t].incident
             /\ tick[t] = "working" => sweep'[t].age = Older(sweep[t].age, Interval)
             /\ tick[t] # "working" => sweep'[t] = sweep[t]
  BY <1>1, <1>2, SweepAges
<1>5. hand' \in [Appliers -> Hands] /\ sweep' \in [Ticks -> Sweeps]
  BY <1>2, <1>3, <1>4
<1> QED
  BY <1>3, <1>4, <1>5

\* What a reminder that is sent does to its sweep.
LEMMA RemindMoves ==
    ASSUME PolicyTypeOK, NEW t \in Ticks, Remind(t)
    PROVE  /\ sweep' \in [Ticks -> Sweeps]
           /\ sweep'[t].stage = "recording"
           /\ sweep'[t].age = sweep[t].age /\ sweep'[t].incident = sweep[t].incident
           /\ \A s \in Ticks \ {t} : sweep'[s] = sweep[s]
<1> DEFINE moved == [sweep[t] EXCEPT !.stage = "recording"]
<1>1. sweep \in [Ticks -> Sweeps]
  BY DEF PolicyTypeOK, Sweeps
<1>2. sweep' = [sweep EXCEPT ![t] = moved]
  BY <1>1 DEF Remind
<1>3. /\ moved \in Sweeps /\ moved.stage = "recording"
      /\ moved.age = sweep[t].age /\ moved.incident = sweep[t].incident
  BY <1>1, SweepMoves
<1> HIDE DEF moved
<1> QED
  BY <1>1, <1>2, <1>3

\* What a snapshot loses when its snooze runs out.
LEMMA SnoozeMoves ==
    ASSUME PolicyTypeOK, NEW a \in Appliers, SnoozeRunsOut(a)
    PROVE  /\ hand' \in [Appliers -> Hands]
           /\ \A b \in Appliers : /\ hand'[b].loaded = hand[b].loaded
                                  /\ hand'[b].stamp = hand[b].stamp
<1> DEFINE awake == [hand[a] EXCEPT !.muted = FALSE]
<1>1. hand \in [Appliers -> Hands]
  BY DEF PolicyTypeOK, Hands
<1>2. hand' = [hand EXCEPT ![a] = awake]
  BY <1>1 DEF SnoozeRunsOut
<1>3. awake \in Hands /\ awake.loaded = hand[a].loaded /\ awake.stamp = hand[a].stamp
  BY <1>1 DEF Hands
<1> HIDE DEF awake
<1> QED
  BY <1>1, <1>2, <1>3

-------------------------------------------------------------------------------
(* Types, and the lock.                                                    *)

LEMMA PolicyLockSteps == [PolicyNext]_policyVars => [LockNext]_lockVars
<1> SUFFICES ASSUME [PolicyNext]_policyVars PROVE [LockNext]_lockVars
  OBVIOUS
<1> USE DEF LockNext, remindVars
<1>1. CASE TimePasses \/ MuteTurns \/ PauseTurns \/ ResolveByUser \/ MissOpens \/ StampLands
           \/ StampFails
  BY <1>1 DEF TimePasses, MuteTurns, PauseTurns, ResolveByUser, MissOpens, StampLands, StampFails
<1>2. ASSUME NEW a \in Appliers, Apply(a) PROVE UNCHANGED lockVars
  BY <1>2 DEF Apply, Load, SnoozeRunsOut, ApplyOpening, ApplyRecovery, ApplyQuietly
<1>3. ASSUME NEW t \in Ticks, Sweep(t) PROVE [LockNext]_lockVars
  BY <1>3 DEF Sweep, TickBegins, ReadDue, ReadNothing, Remind, Record, SweepFails, TickReleases,
              Ends
<1>4. CASE LockExpires \/ \E i \in Instances : InstanceCrashes(i)
  BY <1>4 DEF LockExpires, InstanceCrashes
<1>5. CASE UNCHANGED policyVars
  BY <1>5 DEF policyVars
<1> QED
  BY <1>1, <1>2, <1>3, <1>4, <1>5 DEF PolicyNext

LEMMA PolicyLockTyped ==
    ASSUME LockTypeOK, [LockNext]_lockVars PROVE LockTypeOK'
BY OwnerAssumption
   DEF LockTypeOK, LockNext, Acquire, AcquireUnanswered, Finish, Release, ReleaseFails,
       Expire, Crash, lockVars

LEMMA OpensTyped ==
    ASSUME Opens
    PROVE  /\ incident' \in Incidents /\ since' = 0 /\ reminded' = Interval
           /\ unrecorded' = FALSE /\ stray' = 0
           /\ \A t \in Ticks : sweep[t].incident # incident'
BY DEF Opens, Unused

LEMMA PageTyped ==
    ASSUME PolicyTypeOK, NEW a \in Appliers, Page(a)
    PROVE  stamping' \subseteq 0 .. Cooldown /\ paged' \in 0 .. Cooldown /\ blurred' \in BOOLEAN
<1>1. stamping' \subseteq 0 .. Cooldown /\ paged' \in 0 .. Cooldown
  BY AgesAssumption DEF Page, Stamps, PolicyTypeOK
<1>2. blurred' \in BOOLEAN
  BY DEF Page
<1> QED
  BY <1>1, <1>2

LEMMA ApplyTyped ==
    ASSUME PolicyTypeOK, LockTypeOK', NEW a \in Appliers, Apply(a) PROVE PolicyTypeOK'
<1> USE DEF PolicyTypeOK
<1>1. NoHand \in [loaded : BOOLEAN, muted : BOOLEAN, stamp : 0 .. Cooldown]
  BY AgesAssumption DEF NoHand
<1>2. CASE Load(a)
  <2>1. blurred' \in BOOLEAN
    BY <1>2 DEF Load
  <2> QED
    BY <1>2, <2>1 DEF Load, remindVars
<1>3. CASE ApplyOpening(a)
  <2>1. stamping' \subseteq 0 .. Cooldown /\ paged' \in 0 .. Cooldown /\ blurred' \in BOOLEAN
    <3>1. CASE Quiet(a)
      BY <1>3, <3>1 DEF ApplyOpening
    <3>2. CASE ~Quiet(a)
      BY <1>3, <3>2, PageTyped DEF ApplyOpening
    <3> QED
      BY <3>1, <3>2
  <2>2. Opens /\ UNCHANGED <<active, muted, stamp, sweep>> /\ hand' = [hand EXCEPT ![a] = NoHand]
    BY <1>3 DEF ApplyOpening
  <2> HIDE DEF NoHand
  <2>3. hand' \in [Appliers -> [loaded : BOOLEAN, muted : BOOLEAN, stamp : 0 .. Cooldown]]
    BY <1>1, <2>2
  <2> QED
    BY <2>1, <2>2, <2>3, OpensTyped, AgesAssumption
<1>4. CASE ApplyRecovery(a)
  <2>1. stamping' \subseteq 0 .. Cooldown
    <3>1. stamping' = stamping \/ stamping' = stamping \cup {0}
      BY <1>4 DEF ApplyRecovery, Stamps
    <3>2. 0 \in 0 .. Cooldown /\ stamping \subseteq 0 .. Cooldown
      BY AgesAssumption
    <3> QED
      BY <3>1, <3>2
  <2> QED
    BY <1>1, <1>4, <2>1, AgesAssumption DEF ApplyRecovery, IncidentCloses
<1>5. CASE ApplyQuietly(a)
  BY <1>1, <1>5 DEF ApplyQuietly, remindVars
<1>6. CASE SnoozeRunsOut(a)
  <2>1. hand' \in [Appliers -> Hands]
    BY <1>6, SnoozeMoves
  <2> QED
    BY <1>6, <2>1 DEF SnoozeRunsOut, Hands, remindVars
<1> QED
  BY <1>2, <1>3, <1>4, <1>5, <1>6 DEF Apply

LEMMA SweepTyped ==
    ASSUME PolicyTypeOK, LockTypeOK', NEW t \in Ticks, Sweep(t) PROVE PolicyTypeOK'
<1> USE DEF PolicyTypeOK, alertVars
<1>1. NoSweep \in Sweeps
  BY AgesAssumption DEF NoSweep, Sweeps
<1>2. CASE TickBegins(t) \/ TickReleases(t)
  BY <1>2 DEF TickBegins, TickReleases
<1>3. CASE ReadDue(t)
  <2>1. [stage |-> "sending", age |-> 0, incident |-> incident] \in Sweeps
    BY AgesAssumption DEF Sweeps
  <2>2. sweep' \in [Ticks -> Sweeps]
    BY <1>3, <2>1 DEF ReadDue, Sweeps
  <2> QED
    BY <1>3, <2>2 DEF ReadDue, Sweeps
<1>4. CASE ReadNothing(t)
  BY <1>1, <1>4 DEF ReadNothing, Ends, Sweeps
<1>5. CASE Remind(t)
  <2>1. sweep' \in [Ticks -> Sweeps]
    BY <1>5, RemindMoves
  <2>2. sweep[t].age \in 0 .. Interval /\ stray \in 0 .. 2
    OBVIOUS
  <2>3. reminded' \in 0 .. Interval
    BY <1>5, <2>2 DEF Remind
  <2>4. stray' \in 0 .. 2
    BY <1>5, <2>2 DEF Remind
  <2> QED
    BY <1>5, <2>1, <2>3, <2>4 DEF Remind, Sweeps
<1>6. CASE Record(t)
  <2>1. sweep[t].age \in 0 .. Interval
    OBVIOUS
  <2>2. since' \in 0 .. Interval
    BY <1>6, <2>1 DEF Record
  <2>3. sweep' \in [Ticks -> Sweeps]
    BY <1>1, <1>6 DEF Record, Ends, Sweeps
  <2> QED
    BY <1>6, <2>2, <2>3 DEF Record, Sweeps
<1>7. CASE SweepFails(t)
  <2>1. unrecorded' \in BOOLEAN
    BY <1>7 DEF SweepFails
  <2>2. sweep' \in [Ticks -> Sweeps]
    BY <1>1, <1>7 DEF SweepFails, Ends, Sweeps
  <2> QED
    BY <1>7, <2>1, <2>2 DEF SweepFails, Sweeps
<1> QED
  BY <1>2, <1>3, <1>4, <1>5, <1>6, <1>7 DEF Sweep

LEMMA PolicyTyped ==
    ASSUME PolicyTypeOK, [PolicyNext]_policyVars PROVE PolicyTypeOK'
<1> USE DEF PolicyTypeOK, alertVars, remindVars
<1>0. LockTypeOK'
  BY PolicyLockSteps, PolicyLockTyped
<1>1. CASE TimePasses
  <2>1. hand' \in [Appliers -> Hands] /\ sweep' \in [Ticks -> Sweeps]
    BY <1>1, TimeAges
  <2>2. /\ \A x \in 0 .. Interval : Older(x, Interval) \in 0 .. Interval
        /\ \A x \in 0 .. Cooldown : Older(x, Cooldown) \in 0 .. Cooldown
    BY AgesAssumption, OlderKeeps
  <2>3. stamping' \subseteq 0 .. Cooldown
    BY <1>1, <2>2 DEF TimePasses
  <2> QED
    BY <1>0, <1>1, <2>1, <2>2, <2>3 DEF TimePasses, Hands, Sweeps
<1>2. CASE MuteTurns \/ PauseTurns
  <2>1. /\ muted' \in BOOLEAN /\ active' \in BOOLEAN
        /\ stray' = 0
        /\ UNCHANGED <<incident, since, alertVars, sweep, reminded, unrecorded>>
    BY <1>2 DEF MuteTurns, PauseTurns
  <2> QED
    BY <1>0, <2>1
<1>3. CASE ResolveByUser
  BY <1>0, <1>3, AgesAssumption DEF ResolveByUser, IncidentCloses
<1>4. CASE MissOpens
  BY <1>0, <1>4, OpensTyped, AgesAssumption DEF MissOpens
<1>5. CASE StampLands
  BY <1>0, <1>5 DEF StampLands
<1>6. CASE StampFails
  BY <1>0, <1>6 DEF StampFails
<1>7. CASE LockExpires
  BY <1>0, <1>7 DEF LockExpires
<1>8. ASSUME NEW i \in Instances, InstanceCrashes(i) PROVE PolicyTypeOK'
  <2>1. NoSweep \in Sweeps
    BY AgesAssumption DEF NoSweep, Sweeps
  <2>2. sweep' \in [Ticks -> Sweeps]
    BY <1>8, <2>1 DEF InstanceCrashes, Sweeps
  <2>3. unrecorded' \in BOOLEAN
    BY <1>8 DEF InstanceCrashes
  <2> QED
    BY <1>0, <1>8, <2>2, <2>3 DEF InstanceCrashes, Sweeps
<1>9. CASE UNCHANGED policyVars
  BY <1>9 DEF policyVars, LockTypeOK, lockVars
<1> QED
  BY <1>0, <1>1, <1>2, <1>3, <1>4, <1>5, <1>6, <1>7, <1>8, <1>9, ApplyTyped, SweepTyped
     DEF PolicyNext

-------------------------------------------------------------------------------
(* Pages.                                                                  *)

LEMMA ApplyShows ==
    ASSUME PolicyTypeOK, RowShowsLastPage, NEW a \in Appliers, Apply(a)
    PROVE  RowShowsLastPage'
<1> USE DEF RowShowsLastPage
<1>0. /\ hand \in [Appliers -> Hands] /\ paged \in 0 .. Cooldown /\ NoHand.loaded = FALSE
      /\ stamping \subseteq 0 .. Cooldown
  BY DEF PolicyTypeOK, Hands, NoHand
<1>1. CASE Load(a)
  <2>1. /\ hand' = [hand EXCEPT ![a] = [loaded |-> TRUE, muted |-> muted, stamp |-> stamp]]
        /\ ~blurred' => ~blurred /\ stamping = {}
        /\ UNCHANGED <<stamp, stamping, paged>>
    BY <1>1 DEF Load
  <2> QED
    BY <1>0, <2>1
<1>2. CASE ApplyOpening(a)
  <2>1. hand' = [hand EXCEPT ![a] = NoHand] /\ stamp' = stamp
    BY <1>2 DEF ApplyOpening
  <2>2. CASE Quiet(a)
    <3>1. UNCHANGED <<stamping, paged, blurred>>
      BY <1>2, <2>2 DEF ApplyOpening
    <3> QED
      BY <1>0, <2>1, <3>1
  <2>3. CASE ~Quiet(a)
    <3>1. /\ stamping' = stamping \cup {0} /\ paged' = 0
          /\ ~blurred' => stamping = {} /\ \A b \in Appliers \ {a} : ~hand[b].loaded
      BY <1>2, <2>3 DEF ApplyOpening, Page, Stamps
    <3> QED
      BY <1>0, <2>1, <3>1
  <2> QED
    BY <2>2, <2>3
<1>3. CASE ApplyRecovery(a)
  <2>1. /\ hand' = [hand EXCEPT ![a] = NoHand]
        /\ stamping' = stamping \/ stamping' = stamping \cup {0}
        /\ UNCHANGED <<stamp, paged, blurred>>
    BY <1>3 DEF ApplyRecovery, Stamps
  <2>2. 0 <= paged
    BY <1>0, AgesAssumption
  <2> QED
    BY <1>0, <2>1, <2>2
<1>4. CASE ApplyQuietly(a)
  BY <1>0, <1>4 DEF ApplyQuietly
<1>5. CASE SnoozeRunsOut(a)
  <2>1. UNCHANGED <<stamp, stamping, paged, blurred>>
    BY <1>5 DEF SnoozeRunsOut
  <2> QED
    BY <1>5, <2>1, SnoozeMoves
<1> QED
  BY <1>1, <1>2, <1>3, <1>4, <1>5 DEF Apply

LEMMA PagesShown ==
    ASSUME PolicyTypeOK, RowShowsLastPage, [PolicyNext]_policyVars PROVE RowShowsLastPage'
<1> USE DEF RowShowsLastPage
<1>1. CASE TimePasses
  <2>1. /\ paged' = Older(paged, Cooldown) /\ stamp' = Older(stamp, Cooldown)
        /\ stamping' = {Older(s, Cooldown) : s \in stamping} /\ blurred' = blurred
    BY <1>1 DEF TimePasses
  <2>2. \A x, y \in 0 .. Cooldown : x <= y => Older(x, Cooldown) <= Older(y, Cooldown)
    BY AgesAssumption, OlderKeeps
  <2>3. /\ paged \in 0 .. Cooldown /\ stamp \in 0 .. Cooldown /\ stamping \subseteq 0 .. Cooldown
        /\ \A a \in Appliers : hand[a].stamp \in 0 .. Cooldown
    BY DEF PolicyTypeOK
  <2>4. \A a \in Appliers : /\ hand'[a].loaded = hand[a].loaded
                            /\ hand[a].loaded => hand'[a].stamp = Older(hand[a].stamp, Cooldown)
    BY <1>1, TimeAges
  <2>5. ASSUME ~blurred PROVE \A s \in stamping' : s <= paged'
    <3>1. \A s \in stamping : Older(s, Cooldown) <= Older(paged, Cooldown)
      BY <2>2, <2>3, <2>5
    <3> QED
      BY <2>1, <3>1
  <2>6. ASSUME ~blurred, stamping' = {} PROVE stamp' <= paged'
    <3>1. stamping = {}
      BY <2>1, <2>6
    <3> QED
      BY <2>1, <2>2, <2>3, <2>6, <3>1
  <2>7. ASSUME ~blurred, NEW a \in Appliers, hand'[a].loaded PROVE hand'[a].stamp <= paged'
    <3>1. hand[a].loaded /\ hand[a].stamp <= paged
      BY <2>4, <2>7
    <3>2. Older(hand[a].stamp, Cooldown) <= Older(paged, Cooldown)
      BY <2>2, <2>3, <3>1
    <3> QED
      BY <2>1, <2>4, <3>1, <3>2
  <2> QED
    BY <2>1, <2>5, <2>6, <2>7
<1>2. CASE StampLands
  BY <1>2 DEF StampLands
<1>3. CASE StampFails
  BY <1>3 DEF StampFails
<1>4. CASE UNCHANGED alertVars
  BY <1>4 DEF alertVars
<1>5. CASE MuteTurns \/ PauseTurns \/ ResolveByUser \/ MissOpens \/ LockExpires
           \/ \E i \in Instances : InstanceCrashes(i)
  BY <1>4, <1>5 DEF MuteTurns, PauseTurns, ResolveByUser, MissOpens, LockExpires, InstanceCrashes
<1>6. ASSUME NEW t \in Ticks, Sweep(t) PROVE UNCHANGED alertVars
  BY <1>6 DEF Sweep, TickBegins, ReadDue, ReadNothing, Remind, Record, SweepFails, TickReleases
<1>7. CASE UNCHANGED policyVars
  BY <1>4, <1>7 DEF policyVars
<1> QED
  BY <1>1, <1>2, <1>3, <1>4, <1>5, <1>6, <1>7, ApplyShows DEF PolicyNext

-------------------------------------------------------------------------------
(* Sweeps.                                                                 *)

LEMMA SweepsKeepReset ==
    ASSUME PolicyTypeOK, SweepsReset, [PolicyNext]_policyVars PROVE SweepsReset'
<1> USE DEF SweepsReset
<1>0. NoSweep.stage = "reading"
  BY DEF NoSweep
<1>1. CASE TimePasses
  <2>1. \A t \in Ticks :
           /\ sweep'[t].stage = sweep[t].stage /\ sweep'[t].incident = sweep[t].incident
           /\ tick[t] # "working" => sweep'[t] = sweep[t]
    BY <1>1, TimeAges
  <2> QED
    BY <1>1, <2>1 DEF TimePasses, lockVars
<1>2. CASE UNCHANGED <<sweep, tick>>
  BY <1>2
<1>3. CASE MuteTurns \/ PauseTurns \/ ResolveByUser \/ MissOpens \/ StampLands \/ StampFails
           \/ LockExpires
  BY <1>2, <1>3 DEF MuteTurns, PauseTurns, ResolveByUser, MissOpens, StampLands, StampFails,
                    LockExpires, Expire, remindVars, lockVars
<1>4. ASSUME NEW a \in Appliers, Apply(a) PROVE UNCHANGED <<sweep, tick>>
  BY <1>4 DEF Apply, Load, SnoozeRunsOut, ApplyOpening, ApplyRecovery, ApplyQuietly, remindVars,
              lockVars
<1>5. ASSUME NEW t \in Ticks, Sweep(t) PROVE SweepsReset'
  <2>0. /\ sweep \in [Ticks -> Sweeps] /\ tick \in [Ticks -> {"idle", "working", "finished"}]
    BY DEF PolicyTypeOK, LockTypeOK, Sweeps
  <2>1. CASE TickBegins(t) \/ TickReleases(t)
    BY <2>0, <2>1 DEF TickBegins, TickReleases, Acquire, Release
  <2>2. CASE ReadDue(t)
    BY <2>0, <2>2 DEF ReadDue, Due, Remindable, PolicyTypeOK, At, lockVars
  <2>3. CASE ReadNothing(t) \/ Record(t) \/ SweepFails(t)
    <3>1. Finish(t) /\ sweep' = [sweep EXCEPT ![t] = NoSweep]
      BY <2>3 DEF ReadNothing, Record, SweepFails, Ends
    <3> QED
      BY <1>0, <2>0, <3>1 DEF Finish
  <2>4. CASE Remind(t)
    BY <2>0, <2>4, RemindMoves DEF Remind, At, lockVars
  <2> QED
    BY <1>5, <2>1, <2>2, <2>3, <2>4 DEF Sweep
<1>6. ASSUME NEW i \in Instances, InstanceCrashes(i) PROVE SweepsReset'
  BY <1>0, <1>6 DEF InstanceCrashes, Crash
<1>7. CASE UNCHANGED policyVars
  BY <1>2, <1>7 DEF policyVars, remindVars, lockVars
<1> QED
  BY <1>1, <1>3, <1>4, <1>5, <1>6, <1>7 DEF PolicyNext

LEMMA InitPolicy == PolicyInit => PolicyInv
<1> SUFFICES ASSUME PolicyInit PROVE PolicyInv
  OBVIOUS
<1>1. PolicyTypeOK
  <2>1. NoHand \in Hands /\ NoSweep \in Sweeps
    BY AgesAssumption DEF NoHand, NoSweep, Hands, Sweeps
  <2>2. LockTypeOK
    BY DEF PolicyInit, LockInit, LockTypeOK
  <2>3. hand \in [Appliers -> Hands] /\ sweep \in [Ticks -> Sweeps]
    BY <2>1 DEF PolicyInit
  <2>4. Interval \in 0 .. Interval /\ Cooldown \in 0 .. Cooldown
    BY AgesAssumption
  <2>5. /\ incident \in Incidents \cup {None} /\ since \in 0 .. Interval
        /\ stamp \in 0 .. Cooldown /\ stamping \subseteq 0 .. Cooldown
        /\ paged \in 0 .. Cooldown /\ reminded \in 0 .. Interval /\ stray \in 0 .. 2
    BY <2>4 DEF PolicyInit
  <2>6. active \in BOOLEAN /\ muted \in BOOLEAN /\ blurred \in BOOLEAN /\ unrecorded \in BOOLEAN
    BY DEF PolicyInit
  <2> QED
    BY <2>2, <2>3, <2>5, <2>6 DEF PolicyTypeOK, Hands, Sweeps
<1>2. RowShowsLastPage
  BY AgesAssumption DEF PolicyInit, RowShowsLastPage, NoHand
<1>3. SweepsReset
  BY DEF PolicyInit, SweepsReset, NoSweep
<1> QED
  BY <1>1, <1>2, <1>3 DEF PolicyInv

LEMMA NextPolicy == PolicyInv /\ [PolicyNext]_policyVars => PolicyInv'
BY PolicyTyped, PagesShown, SweepsKeepReset DEF PolicyInv

\* Every variable of the alert policy keeps its type; ages stay within their bounds.
THEOREM PolicyTypeCorrect == PolicySpec => []PolicyTypeOK
<1>1. PolicyInv => PolicyTypeOK
  BY DEF PolicyInv
<1> QED
  BY InitPolicy, NextPolicy, <1>1, PTL DEF PolicySpec

\* withinCooldown keeps two pages a cooldown apart, for any cooldown, appliers and
\* interleaving, whenever the background write of lastAlertAt was in the row before
\* the next snapshot was read.
THEOREM PagesKeepApart == PolicySpec => PagesAreSpaced
<1> DEFINE Spaced == \A a \in Appliers : ApplyOpening(a) /\ ~Quiet(a) => paged = Cooldown \/ blurred
<1>1. PolicyInv /\ [PolicyNext]_policyVars => [Spaced]_policyVars
  <2> SUFFICES ASSUME PolicyInv, NEW a \in Appliers, ApplyOpening(a), ~Quiet(a), ~blurred
               PROVE  paged = Cooldown
    OBVIOUS
  <2>1. hand[a].loaded /\ hand[a].stamp <= paged
    BY DEF ApplyOpening, PolicyInv, RowShowsLastPage
  <2>2. hand[a].stamp \in 0 .. Cooldown /\ paged \in 0 .. Cooldown /\ Cooldown \in Nat
    BY AgesAssumption DEF PolicyInv, PolicyTypeOK
  <2>3. ~(hand[a].stamp < Cooldown)
    BY DEF Quiet
  <2> QED
    BY <2>1, <2>2, <2>3
<1> QED
  BY InitPolicy, NextPolicy, <1>1, PTL DEF PolicySpec, PagesAreSpaced

-------------------------------------------------------------------------------
(* Reminders, of one tick at a time.                                       *)

LEMMA AloneAtWork ==
    ASSUME WorkersHoldTheKey, NEW s \in Ticks, NEW t \in Ticks,
           tick[s] = "working", tick[t] = "working"
    PROVE  s = t
BY DEF WorkersHoldTheKey, Working

\* Steps that send and record nothing, though they may end a sweep.
LEMMA SinceStays ==
    ASSUME SinceInv, UNCHANGED <<incident, since, reminded>>,
           \A t \in Ticks :
              /\ At(t, "sending")' => At(t, "sending") /\ sweep'[t] = sweep[t]
              /\ At(t, "recording")' => At(t, "recording") /\ sweep'[t] = sweep[t],
           ~unrecorded' => ~unrecorded /\ \A t \in Ticks : Unrecorded(t) => At(t, "recording")'
    PROVE  SinceInv'
<1>1. SendersFoundItDue'
  BY DEF SinceInv, SendersFoundItDue, IsOf
<1>2. \A t \in Ticks : Recording(t)' => Recording(t) /\ sweep'[t] = sweep[t]
  BY DEF Recording, IsOf
<1>3. ~unrecorded' => \A t \in Ticks : Recording(t) => Recording(t)'
  BY DEF Recording, IsOf, Unrecorded
<1> QED
  BY <1>1, <1>2, <1>3 DEF SinceInv, RowShowsLastReminder

\* An incident opens or closes: no sweep is about the one there is now.
LEMMA SinceStarts ==
    ASSUME PolicyInv, SinceInv, sweep' = sweep,
           \/ incident' = None
           \/ Opens
    PROVE  SinceInv'
<1>1. ASSUME NEW t \in Ticks, sweep[t].stage # "reading" PROVE ~IsOf(t)'
  <2>1. sweep[t].incident \in Incidents
    BY <1>1 DEF PolicyInv, SweepsReset
  <2> QED
    BY <2>1, NoneAssumption, OpensTyped DEF IsOf
<1>2. \A t \in Ticks : ~Recording(t)' /\ ~(At(t, "sending") /\ IsOf(t))'
  BY <1>1 DEF Recording, At
<1>3. SendersFoundItDue'
  BY <1>2 DEF SendersFoundItDue
<1>4. incident' # None => since' <= reminded'
  <2>1. ASSUME Opens PROVE since' <= reminded'
    <3>1. since' = 0 /\ reminded' = Interval
      BY <2>1 DEF Opens
    <3> QED
      BY <3>1, AgesAssumption
  <2> QED
    BY <2>1
<1> QED
  BY <1>2, <1>3, <1>4 DEF SinceInv, RowShowsLastReminder

LEMMA SweepSince ==
    ASSUME PolicyInv, WorkersHoldTheKey, SinceInv, NEW t \in Ticks, Sweep(t) PROVE SinceInv'
<1>0. /\ sweep \in [Ticks -> Sweeps] /\ tick \in [Ticks -> {"idle", "working", "finished"}]
      /\ since \in 0 .. Interval /\ reminded \in 0 .. Interval
  BY DEF PolicyInv, PolicyTypeOK, LockTypeOK, Sweeps
<1>1. CASE TickBegins(t)
  <2>1. /\ sweep' = sweep /\ tick' = [tick EXCEPT ![t] = "working"] /\ sweep[t].stage = "reading"
        /\ UNCHANGED <<incident, since, reminded, unrecorded>>
    BY <1>1 DEF TickBegins, Acquire, PolicyInv, SweepsReset, NoSweep
  <2> QED
    BY <1>0, <2>1, SinceStays DEF At, Unrecorded
<1>2. CASE TickReleases(t)
  <2>1. /\ sweep' = sweep /\ tick' = [tick EXCEPT ![t] = "idle"] /\ tick[t] = "finished"
        /\ UNCHANGED <<incident, since, reminded, unrecorded>>
    BY <1>2 DEF TickReleases, Release
  <2> QED
    BY <1>0, <2>1, SinceStays DEF At, Unrecorded
<1>3. CASE ReadNothing(t) \/ SweepFails(t) \/ (Record(t) /\ ~IsOf(t))
  <2>1. /\ sweep' = [sweep EXCEPT ![t] = NoSweep] /\ tick' = [tick EXCEPT ![t] = "finished"]
        /\ UNCHANGED <<incident, since, reminded>>
        /\ ~unrecorded' => ~unrecorded /\ ~Unrecorded(t)
    <3>1. Ends(t) /\ UNCHANGED <<incident, since, reminded>>
      BY <1>3 DEF ReadNothing, SweepFails, Record
    <3>2. ~unrecorded' => ~unrecorded /\ ~Unrecorded(t)
      <4>1. CASE SweepFails(t)
        BY <4>1 DEF SweepFails
      <4>2. CASE ReadNothing(t) \/ (Record(t) /\ ~IsOf(t))
        BY <4>2 DEF ReadNothing, Record, Unrecorded, At
      <4> QED
        BY <1>3, <4>1, <4>2
    <3> QED
      BY <3>1, <3>2 DEF Ends, Finish
  <2> QED
    BY <1>0, <2>1, SinceStays DEF At, Unrecorded
<1>4. CASE ReadDue(t)
  <2>1. /\ since = Interval /\ tick[t] = "working" /\ sweep[t].stage = "reading"
        /\ UNCHANGED <<incident, since, tick, reminded, unrecorded>>
        /\ sweep' = [sweep EXCEPT ![t] = [stage |-> "sending", age |-> 0, incident |-> incident]]
    BY <1>4 DEF ReadDue, Due, At, lockVars
  <2>2. SendersFoundItDue'
    BY <2>1 DEF SendersFoundItDue
  <2>3. \A s \in Ticks : /\ Recording(s)' <=> Recording(s)
                         /\ Recording(s) => sweep'[s] = sweep[s]
    BY <1>0, <2>1 DEF Recording, IsOf, At
  <2> QED
    BY <2>1, <2>2, <2>3 DEF SinceInv, RowShowsLastReminder
<1>5. CASE Remind(t)
  <2>1. /\ tick[t] = "working" /\ UNCHANGED <<incident, since, tick, unrecorded>>
        /\ reminded' = IF IsOf(t) THEN sweep[t].age ELSE reminded
    BY <1>5 DEF Remind, At, lockVars
  <2>2. /\ sweep'[t].stage = "recording" /\ sweep'[t].age = sweep[t].age
        /\ sweep'[t].incident = sweep[t].incident
        /\ \A s \in Ticks \ {t} : sweep'[s] = sweep[s]
    BY <1>5, RemindMoves DEF PolicyInv
  <2>3. \A s \in Ticks : tick[s] = "working" => s = t
    BY <2>1, AloneAtWork
  <2>4. SendersFoundItDue'
    BY <2>1, <2>2, <2>3 DEF SendersFoundItDue, At
  <2>5. \A s \in Ticks : /\ Recording(s)' <=> s = t /\ IsOf(t)
                         /\ ~Recording(s)
    BY <1>5, <2>1, <2>2, <2>3 DEF Recording, IsOf, At, Remind
  <2> QED
    BY <2>1, <2>2, <2>4, <2>5 DEF SinceInv, RowShowsLastReminder
<1>6. CASE Record(t) /\ IsOf(t)
  <2>1. /\ tick[t] = "working" /\ tick' = [tick EXCEPT ![t] = "finished"] /\ Recording(t)
        /\ since' = sweep[t].age /\ UNCHANGED <<incident, reminded, unrecorded>>
    BY <1>6 DEF Record, Ends, Finish, At, Recording
  <2>2. \A s \in Ticks : tick'[s] # "working"
    BY <1>0, <2>1, AloneAtWork
  <2>3. SendersFoundItDue' /\ \A s \in Ticks : ~Recording(s)'
    BY <2>2 DEF SendersFoundItDue, Recording, At
  <2>4. ~unrecorded /\ incident # None => since' <= reminded'
    BY <1>0, <2>1, AgesAssumption DEF SinceInv, RowShowsLastReminder
  <2> QED
    BY <2>1, <2>3, <2>4 DEF SinceInv, RowShowsLastReminder
<1> QED
  BY <1>1, <1>2, <1>3, <1>4, <1>5, <1>6 DEF Sweep

LEMMA SinceKept ==
    ASSUME PolicyInv, WorkersHoldTheKey, SinceInv, [PolicyNext]_policyVars PROVE SinceInv'
<1>1. CASE TimePasses
  <2>1. \A t \in Ticks :
           /\ sweep'[t].stage = sweep[t].stage /\ sweep'[t].incident = sweep[t].incident
           /\ tick[t] = "working" => sweep'[t].age = Older(sweep[t].age, Interval)
    BY <1>1, TimeAges DEF PolicyInv
  <2>2. /\ since' = Older(since, Interval) /\ reminded' = Older(reminded, Interval)
        /\ UNCHANGED <<incident, tick, unrecorded>>
    BY <1>1 DEF TimePasses, lockVars
  <2>3. /\ Older(Interval, Interval) = Interval
        /\ since <= reminded => Older(since, Interval) <= Older(reminded, Interval)
    BY AgesAssumption, OlderKeeps DEF PolicyInv, PolicyTypeOK
  <2>4. \A t \in Ticks : /\ At(t, "sending")' <=> At(t, "sending")
                         /\ IsOf(t)' <=> IsOf(t)
                         /\ Recording(t)' <=> Recording(t)
    BY <2>1, <2>2 DEF At, IsOf, Recording
  <2>5. SendersFoundItDue'
    BY <2>2, <2>3, <2>4 DEF SinceInv, SendersFoundItDue
  <2>6. RowShowsLastReminder'
    BY <2>1, <2>2, <2>3, <2>4 DEF SinceInv, RowShowsLastReminder, Recording, At
  <2> QED
    BY <2>5, <2>6 DEF SinceInv
<1>2. CASE UNCHANGED <<incident, since, reminded, unrecorded, sweep, tick>>
  BY <1>2, SinceStays DEF At, Unrecorded
<1>3. CASE MuteTurns \/ PauseTurns \/ StampLands \/ StampFails \/ LockExpires
  BY <1>2, <1>3 DEF MuteTurns, PauseTurns, StampLands, StampFails, LockExpires, Expire,
                    remindVars, lockVars
<1>4. CASE ResolveByUser \/ MissOpens
  BY <1>4, SinceStarts DEF ResolveByUser, MissOpens, IncidentCloses
<1>5. ASSUME NEW a \in Appliers, Apply(a) PROVE SinceInv'
  <2>1. CASE ApplyOpening(a) \/ ApplyRecovery(a)
    BY <2>1, SinceStarts DEF ApplyOpening, ApplyRecovery, IncidentCloses
  <2> QED
    BY <1>2, <1>5, <2>1 DEF Apply, Load, SnoozeRunsOut, ApplyQuietly, remindVars, lockVars
<1>6. ASSUME NEW i \in Instances, InstanceCrashes(i) PROVE SinceInv'
  <2>1. /\ sweep' = [t \in Ticks |-> IF Owner[t] = i THEN NoSweep ELSE sweep[t]]
        /\ tick' = [t \in Ticks |-> IF Owner[t] = i THEN "idle" ELSE tick[t]]
        /\ unrecorded' = (unrecorded \/ \E t \in Ticks : Owner[t] = i /\ Unrecorded(t))
        /\ UNCHANGED <<incident, since, reminded>>
    BY <1>6 DEF InstanceCrashes, Crash
  <2> QED
    BY <2>1, SinceStays DEF At, Unrecorded
<1>7. CASE UNCHANGED policyVars
  BY <1>2, <1>7 DEF policyVars, remindVars, lockVars
<1> QED
  BY <1>1, <1>3, <1>4, <1>5, <1>6, <1>7, SweepSince DEF PolicyNext

\* A reminder sent for nobody is the last: the tick that sent it was the only one.
LEMMA StrayKept ==
    ASSUME PolicyInv, WorkersHoldTheKey, StrayWasSending, [PolicyNext]_policyVars
    PROVE  StrayWasSending'
<1> USE DEF StrayWasSending
<1>0. /\ sweep \in [Ticks -> Sweeps] /\ tick \in [Ticks -> {"idle", "working", "finished"}]
      /\ stray \in 0 .. 2
  BY DEF PolicyInv, PolicyTypeOK, LockTypeOK, Sweeps
<1>1. CASE stray' = 0
  BY <1>1
<1>2. CASE /\ UNCHANGED <<incident, active, muted, stray>>
           /\ \A t \in Ticks : At(t, "sending")' => At(t, "sending")
  BY <1>2 DEF Remindable
<1>3. CASE TimePasses
  <2>1. \A t \in Ticks : sweep'[t].stage = sweep[t].stage
    BY <1>3, TimeAges DEF PolicyInv
  <2> QED
    BY <1>2, <1>3, <2>1 DEF TimePasses, At, lockVars
<1>4. CASE UNCHANGED <<incident, active, muted, stray, sweep, tick>>
  BY <1>2, <1>4 DEF At
<1>5. CASE MuteTurns \/ PauseTurns \/ ResolveByUser \/ MissOpens \/ StampLands \/ StampFails
           \/ LockExpires
  BY <1>1, <1>4, <1>5 DEF MuteTurns, PauseTurns, ResolveByUser, MissOpens, StampLands, StampFails,
                          LockExpires, Expire, IncidentCloses, Opens, remindVars, lockVars
<1>6. ASSUME NEW a \in Appliers, Apply(a) PROVE StrayWasSending'
  BY <1>1, <1>4, <1>6 DEF Apply, Load, SnoozeRunsOut, ApplyOpening, ApplyRecovery, ApplyQuietly,
                          IncidentCloses, Opens, remindVars, lockVars
<1>7. ASSUME NEW t \in Ticks, Sweep(t) PROVE StrayWasSending'
  <2>1. CASE TickBegins(t) \/ TickReleases(t)
    <3>1. sweep' = sweep /\ \A s \in Ticks : tick'[s] = "working" =>
                                tick[s] = "working" \/ sweep[s].stage = "reading"
      BY <1>0, <2>1 DEF TickBegins, TickReleases, Acquire, Release, PolicyInv, SweepsReset, NoSweep
    <3>2. UNCHANGED <<incident, active, muted, stray>>
      BY <2>1 DEF TickBegins, TickReleases
    <3> QED
      BY <1>2, <3>1, <3>2 DEF At
  <2>2. CASE ReadDue(t)
    BY <1>1, <2>2 DEF ReadDue, Due
  <2>3. CASE ReadNothing(t) \/ Record(t) \/ SweepFails(t)
    <3>1. /\ sweep' = [sweep EXCEPT ![t] = NoSweep] /\ tick' = [tick EXCEPT ![t] = "finished"]
          /\ UNCHANGED <<incident, active, muted, stray>>
      BY <2>3 DEF ReadNothing, Record, SweepFails, Ends, Finish
    <3> QED
      BY <1>0, <1>2, <3>1 DEF At
  <2>4. CASE Remind(t)
    <3>1. /\ At(t, "sending") /\ UNCHANGED <<incident, active, muted, tick>>
          /\ stray' = IF Remindable THEN stray ELSE IF stray < 2 THEN stray + 1 ELSE stray
      BY <2>4 DEF Remind, lockVars
    <3>2. \A s \in Ticks : ~At(s, "sending")'
      <4>1. \A s \in Ticks : tick'[s] = "working" => s = t
        BY <3>1, AloneAtWork DEF At
      <4>2. sweep'[t].stage = "recording"
        BY <2>4, RemindMoves DEF PolicyInv
      <4> QED
        BY <4>1, <4>2 DEF At
    <3>3. stray = 0
      BY <1>0, <3>1
    <3> QED
      BY <3>1, <3>2, <3>3 DEF Remindable
  <2> QED
    BY <1>7, <2>1, <2>2, <2>3, <2>4 DEF Sweep
<1>8. ASSUME NEW i \in Instances, InstanceCrashes(i) PROVE StrayWasSending'
  BY <1>2, <1>8 DEF InstanceCrashes, Crash, At
<1>9. CASE UNCHANGED policyVars
  BY <1>4, <1>9 DEF policyVars, remindVars, lockVars
<1> QED
  BY <1>3, <1>5, <1>6, <1>7, <1>8, <1>9 DEF PolicyNext

RemindInv == PolicyInv /\ KeyInv /\ WorkersHoldTheKey /\ SinceInv /\ StrayWasSending

LEMMA InitRemind == PolicyInit => RemindInv
<1> SUFFICES ASSUME PolicyInit PROVE RemindInv
  OBVIOUS
<1>1. PolicyInv /\ KeyInv /\ WorkersHoldTheKey
  BY InitPolicy, InitKeyInv DEF PolicyInit
<1>2. SinceInv
  BY DEF PolicyInit, LockInit, SinceInv, SendersFoundItDue, RowShowsLastReminder, At
<1>3. StrayWasSending
  BY DEF PolicyInit, StrayWasSending
<1> QED
  BY <1>1, <1>2, <1>3 DEF RemindInv

LEMMA NextRemind ==
    ASSUME OneTickPerInstance, ~MayOverrun
    PROVE  RemindInv /\ [PolicyNext]_policyVars => RemindInv'
<1> SUFFICES ASSUME RemindInv, [PolicyNext]_policyVars PROVE RemindInv'
  OBVIOUS
<1>1. KeyInv' /\ WorkersHoldTheKey'
  BY PolicyLockSteps, NextKeyInv, NextWorkers DEF RemindInv
<1> QED
  BY <1>1, NextPolicy, SinceKept, StrayKept DEF RemindInv

\* Sweeps that remind of an incident start an interval apart, for any interval and any
\* replicas, unless the earlier one did not live to record its reminder; it takes the
\* leader lock, held to one tick per instance and to jobs shorter than its TTL.
THEOREM RemindersKeepApart ==
    ASSUME OneTickPerInstance, ~MayOverrun PROVE PolicySpec => RemindersAreSpaced
<1> DEFINE Spaced ==
        \A t \in Ticks :
            At(t, "sending") /\ sweep'[t].stage = "recording" /\ IsOf(t) /\ ~unrecorded =>
                reminded = Interval
<1>1. RemindInv => Spaced
  <2> SUFFICES ASSUME RemindInv, NEW t \in Ticks, At(t, "sending"), IsOf(t), ~unrecorded
               PROVE  reminded = Interval
    OBVIOUS
  <2>1. incident # None
    BY NoneAssumption DEF RemindInv, PolicyInv, SweepsReset, At, IsOf
  <2>2. since = Interval
    BY DEF RemindInv, SinceInv, SendersFoundItDue
  <2>3. \A s \in Ticks : ~Recording(s)
    BY AloneAtWork DEF RemindInv, Recording, At
  <2>4. since <= reminded
    BY <2>1, <2>3 DEF RemindInv, SinceInv, RowShowsLastReminder
  <2>5. reminded \in 0 .. Interval /\ Interval \in Nat
    BY AgesAssumption DEF RemindInv, PolicyInv, PolicyTypeOK
  <2> QED
    BY <2>2, <2>4, <2>5
<1>2. RemindInv /\ [PolicyNext]_policyVars => [Spaced]_policyVars
  BY <1>1
<1> QED
  BY InitRemind, NextRemind, <1>2, PTL DEF PolicySpec, RemindersAreSpaced

\* Once an incident is over, or its monitor muted or paused, sweepReminders sends one
\* reminder more at most, for any replicas and incidents, under the same assumptions.
THEOREM OneStrayAtMost ==
    ASSUME OneTickPerInstance, ~MayOverrun PROVE PolicySpec => []QuietSoon
<1>1. RemindInv => QuietSoon
  BY DEF RemindInv, StrayWasSending, QuietSoon
<1> QED
  BY InitRemind, NextRemind, <1>1, PTL DEF PolicySpec

===============================================================================

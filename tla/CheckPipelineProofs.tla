-------------------------- MODULE CheckPipelineProofs --------------------------
(***************************************************************************)
(* What CheckPipeline promises for any monitors, consumers, replicas and   *)
(* results: no result is applied twice while its key holds, none is        *)
(* skipped that had no turn, and no check is dispatched next to another of *)
(* its monitor.                                                            *)
(***************************************************************************)
EXTENDS CheckPipeline, SequenceTheorems, FiniteSetTheorems, TLAPS

-------------------------------------------------------------------------------
(* The consumer.                                                           *)

\* Tuples of variables are read as their components throughout.
USE DEF rowVars, tickVars, batchVars, markVars, topicVars

\* The messages: the log and the batches.
MessagesOK ==
    /\ log \in Seq(Ids) /\ Len(log) <= MaxLog
    /\ assigned \in Consumers
    /\ todo \in [Consumers -> Seq(Ids)]

\* The results: who handles them, their keys, and what became of them.
ResultsOK ==
    /\ hand \in [Consumers -> [stage : {"idle", "marked", "loaded"},
                               id : Ids \cup {NoId}, held : BOOLEAN]]
    /\ marked \subseteq Ids
    /\ unguarded \subseteq Ids
    /\ subject \in [Ids -> Monitors]
    /\ outcome \in [Ids -> {"none", "garbled", "skipped", "failed", "landed", "twice"}]

Holding(c, id) == hand[c].id = id

\* A result in somebody's hands is marked, untried, and in nobody else's, as long as its
\* key can be relied on.
HandsGuarded ==
    /\ \A c \in Consumers : Idle(c) <=> hand[c].id = NoId
    /\ \A id \in Ids \ unguarded : \A c \in Consumers : Holding(c, id) =>
          /\ id \in marked
          /\ outcome[id] = "none"
          /\ \A d \in Consumers : Holding(d, id) => d = c

\* What was not taken has not been tried.
UnmarkedIsUntried ==
    \A id \in Ids \ unguarded : id \notin marked => outcome[id] \in {"none", "garbled"}

KeysHold == Faults \cap {"redis", "expiry"} = {} => unguarded = {}

ResultsInv ==
    /\ ResultsOK
    /\ HandsGuarded /\ UnmarkedIsUntried /\ KeysHold /\ AppliedOnce /\ SkippedHadItsTurn

ConsumerInv == MessagesOK /\ ResultsInv

-------------------------------------------------------------------------------
(* The round trip.                                                         *)

\* What the claims can be relied on without.
NothingSlips ==
    /\ Faults \cap {"slow", "send", "reprobe", "redis", "expiry"} = {}
    /\ "checkNow" \notin UserActions

AtMostOne(S) == \A x, y \in S : x = y

\* A check is in one place at a time, and one check of a monitor at most.
OnePlace(m) ==
    /\ AtMostOne(Dispatching(m))
    /\ targets[m] <= 1
    /\ AtMostOne(Expected(m))
    /\ Dispatching(m) # {} => targets[m] = 0 /\ Expected(m) = {}
    /\ targets[m] > 0 => Expected(m) = {}

Busy(m) == Dispatching(m) # {} \/ targets[m] > 0 \/ Expected(m) # {}

\* As long as a check is under way, its monitor is claimed.
FlightInv == \A m \in Monitors : OnePlace(m) /\ (Busy(m) => row[m].claim = "inFlight")

-------------------------------------------------------------------------------
(* Messages.                                                               *)

\* A probe appends its result, once or twice, and nothing else.
LEMMA Appended ==
    ASSUME NEW s \in Seq(Ids), NEW id \in Ids, NEW written \in Results(id)
    PROVE  s \o written \in Seq(Ids) /\ Range(s \o written) = Range(s) \cup {id}
<1>1. written \in Seq(Ids) /\ written # <<>> /\ Range(written) = {id}
  <2>1. written = <<id>> \/ written = <<id, id>>
    BY DEF Results
  <2>2. CASE written = <<id>>
    BY <2>2 DEF Range
  <2>3. CASE written = <<id, id>>
    <3>1. DOMAIN written = 1 .. 2 /\ \A k \in 1 .. 2 : written[k] = id
      BY <2>3
    <3> QED
      BY <2>3, <3>1 DEF Range
  <2> QED
    BY <2>1, <2>2, <2>3
<1>2. s \o written \in Seq(Ids)
  BY <1>1, ConcatProperties
<1>3. Len(s) \in Nat /\ Len(written) \in Nat
  BY <1>1, LenProperties
<1>4. /\ DOMAIN s = 1 .. Len(s) /\ DOMAIN written = 1 .. Len(written)
      /\ DOMAIN (s \o written) = 1 .. Len(s) + Len(written)
      /\ \A k \in 1 .. Len(s) + Len(written) :
            (s \o written)[k] = IF k <= Len(s) THEN s[k] ELSE written[k - Len(s)]
  BY <1>1, <1>2, ConcatProperties, LenProperties
<1>5. ASSUME NEW x \in Range(s \o written) PROVE x \in Range(s) \cup {id}
  <2>1. PICK k \in 1 .. Len(s) + Len(written) : x = (s \o written)[k]
    BY <1>4, <1>5 DEF Range
  <2>2. CASE k <= Len(s)
    BY <1>3, <1>4, <2>1, <2>2 DEF Range
  <2>3. CASE ~(k <= Len(s))
    <3>1. k - Len(s) \in 1 .. Len(written) /\ x = written[k - Len(s)]
      BY <1>3, <1>4, <2>1, <2>3
    <3> QED
      BY <1>1, <1>4, <3>1 DEF Range
  <2> QED
    BY <2>2, <2>3
<1>6. ASSUME NEW x \in Range(s) PROVE x \in Range(s \o written)
  <2>1. PICK k \in 1 .. Len(s) : x = s[k]
    BY <1>4, <1>6 DEF Range
  <2>2. k \in 1 .. Len(s) + Len(written) /\ k <= Len(s)
    BY <1>3
  <2>3. x = (s \o written)[k] /\ k \in DOMAIN (s \o written)
    BY <1>4, <2>1, <2>2
  <2> QED
    BY <2>3 DEF Range
<1>7. id \in Range(s \o written)
  <2>1. PICK k \in 1 .. Len(written) : written[k] = id
    BY <1>1, <1>4 DEF Range
  <2>2. /\ Len(s) + k \in 1 .. Len(s) + Len(written)
        /\ ~(Len(s) + k <= Len(s)) /\ (Len(s) + k) - Len(s) = k
    BY <1>3
  <2>3. id = (s \o written)[Len(s) + k] /\ Len(s) + k \in DOMAIN (s \o written)
    BY <1>4, <2>1, <2>2
  <2> QED
    BY <2>3 DEF Range
<1> QED
  BY <1>2, <1>5, <1>6, <1>7

\* Every stretch of a sequence holds messages of it and no others.
LEMMA Stretch ==
    ASSUME NEW s \in Seq(Ids), NEW a \in 1 .. Len(s) + 1, NEW b \in a - 1 .. Len(s)
    PROVE  /\ SubSeq(s, a, b) \in Seq(Ids)
           /\ Len(SubSeq(s, a, b)) = b - a + 1
           /\ Range(SubSeq(s, a, b)) \subseteq Range(s)
<1> DEFINE t == SubSeq(s, a, b)
<1>0. Len(s) \in Nat /\ DOMAIN s = 1 .. Len(s)
  BY LenProperties
<1>1. /\ t \in Seq(Ids) /\ Len(t) = b - a + 1
      /\ \A k \in 1 .. b - a + 1 : t[k] = s[a + k - 1]
  <2>1. a \in Int /\ b \in Int /\ \A k \in a .. b : s[k] \in Ids
    BY <1>0, ElementOfSeq
  <2> QED
    BY <1>0, <2>1, SubSeqProperties
<1>2. DOMAIN t = 1 .. b - a + 1
  BY <1>1, LenProperties
<1>3. \A k \in 1 .. b - a + 1 : a + k - 1 \in 1 .. Len(s)
  BY <1>0
<1> HIDE DEF t
<1>4. Range(t) \subseteq Range(s)
  BY <1>0, <1>1, <1>2, <1>3 DEF Range
<1> QED
  BY <1>1, <1>4 DEF t

LEMMA HeadAndTail ==
    ASSUME NEW s \in Seq(Ids), s # <<>>
    PROVE  /\ Head(s) \in Ids /\ Head(s) \in Range(s)
           /\ Tail(s) \in Seq(Ids) /\ Range(Tail(s)) \subseteq Range(s)
<1>0. Len(s) \in Nat /\ DOMAIN s = 1 .. Len(s) /\ Len(s) > 0
  BY LenProperties, EmptySeq
<1>1. Head(s) = s[1] /\ 1 \in DOMAIN s /\ Head(s) \in Ids
  BY <1>0, HeadTailProperties, ElementOfSeq
<1>2. /\ Tail(s) \in Seq(Ids) /\ Len(Tail(s)) = Len(s) - 1
      /\ \A k \in 1 .. Len(s) - 1 : Tail(s)[k] = s[k + 1]
  BY <1>0, HeadTailProperties
<1>3. DOMAIN Tail(s) = 1 .. Len(s) - 1 /\ \A k \in 1 .. Len(s) - 1 : k + 1 \in DOMAIN s
  BY <1>0, <1>2, LenProperties
<1>4. Range(Tail(s)) \subseteq Range(s)
  BY <1>2, <1>3 DEF Range
<1> QED
  BY <1>1, <1>2, <1>4 DEF Range

-------------------------------------------------------------------------------
(* Types.                                                                  *)

LEMMA LockTyped ==
    ASSUME LockTypeOK, [LockNext]_lockVars PROVE LockTypeOK'
BY OwnerAssumption
   DEF LockTypeOK, LockNext, Acquire, AcquireUnanswered, Finish, Release, ReleaseFails,
       Expire, Crash, lockVars

LEMMA LockSteps == [Next]_vars => [LockNext]_lockVars
<1> SUFFICES ASSUME [Next]_vars PROVE [LockNext]_lockVars
  OBVIOUS
<1> USE DEF LockNext, tickVars
<1>1. ASSUME NEW m \in Monitors, Outside(m) \/ Engine(m) PROVE UNCHANGED lockVars
  BY <1>1 DEF Outside, Engine, BecomesDue, ClaimGoesStale, WindowTurns, Pause, Resume, CheckNow,
              EngineLoses, Probe, lockVars
<1>2. ASSUME NEW t \in Ticks, Dispatch(t) PROVE [LockNext]_lockVars
  BY <1>2 DEF Dispatch, TickBegins, Claim, ClaimsNothing, Publish, PublishFails, ReturnClaims,
              ReturnFails, TickReleases, Ends
<1>3. ASSUME NEW c \in Consumers, Consume(c) PROVE UNCHANGED lockVars
  BY <1>3 DEF Consume, Fetch, Park, Take, TakeUnguarded, SkipDuplicate, SkipUnheard, SkipInactive,
              Load, Land, Fail, Rebalance, Notices, ConsumerCrashes, lockVars
<1>4. CASE LockExpires \/ \E id \in Ids : MarkerExpires(id)
  BY <1>4 DEF LockExpires, MarkerExpires, lockVars
<1>5. CASE \E i \in Instances : InstanceCrashes(i)
  BY <1>5 DEF InstanceCrashes
<1>6. CASE UNCHANGED vars
  BY <1>6 DEF vars, lockVars
<1> QED
  BY <1>1, <1>2, <1>3, <1>4, <1>5, <1>6 DEF Next

\* The scheduler's side of the state.
SchedulerOK ==
    /\ row \in [Monitors -> Row]
    /\ window \in [Monitors -> BOOLEAN]
    /\ stage \in [Ticks -> {"claiming", "publishing", "returning"}]
    /\ batch \in [Ticks -> SUBSET Monitors]
    /\ targets \in [Monitors -> 0 .. MaxTargets]

LEMMA Sides == TypeOK <=> SchedulerOK /\ LockTypeOK /\ MessagesOK /\ ResultsOK
BY DEF TypeOK, SchedulerOK, MessagesOK, ResultsOK

LEMMA StoredTyped ==
    ASSUME SchedulerOK, NEW S, Stored(S) PROVE targets' \in [Monitors -> 0 .. MaxTargets]
<1>1. \A m \in Monitors :
        (IF m \in S /\ targets[m] < MaxTargets THEN targets[m] + 1 ELSE targets[m])
            \in 0 .. MaxTargets
  BY BoundsAssumption DEF SchedulerOK
<1> QED
  BY <1>1 DEF Stored

\* Whatever column of a row is written.
LEMMA RowsTyped ==
    ASSUME NEW r \in Row, NEW b \in BOOLEAN, NEW x \in {"free", "inFlight", "stale"}
    PROVE  /\ [r EXCEPT !.due = b] \in Row
           /\ [r EXCEPT !.claim = x] \in Row
           /\ [r EXCEPT !.active = b] \in Row
           /\ [r EXCEPT !.paused = b] \in Row
BY DEF Row

LEMMA FreedTyped ==
    ASSUME NEW r \in Row, NEW b \in BOOLEAN
    PROVE  Freed(r, b) \in Row /\ Freed(r, b).claim = "free"
BY DEF Freed, Row

LEMMA SchedulerTyped ==
    ASSUME SchedulerOK, ResultsOK, [Next]_vars PROVE SchedulerOK'
<1> USE DEF SchedulerOK
<1>1. ASSUME NEW m \in Monitors, Outside(m) PROVE SchedulerOK'
  <2>0. row[m] \in Row
    OBVIOUS
  <2>1. CASE BecomesDue(m) \/ ClaimGoesStale(m)
    <3>1. \E r \in Row : row' = [row EXCEPT ![m] = r]
      BY <2>0, <2>1, RowsTyped DEF BecomesDue, ClaimGoesStale
    <3> QED
      BY <2>1, <3>1 DEF BecomesDue, ClaimGoesStale, tickVars
  <2>2. CASE WindowTurns(m)
    BY <2>2 DEF WindowTurns, tickVars
  <2>3. CASE Pause(m) \/ Resume(m)
    <3>1. \E r \in Row : row' = [row EXCEPT ![m] = r]
      <4> DEFINE with(a, p) == [row[m] EXCEPT !.active = a, !.paused = p]
      <4>1. with(TRUE, FALSE) \in Row /\ with(FALSE, TRUE) \in Row
        BY <2>0 DEF Row
      <4> QED
        BY <2>3, <4>1 DEF Pause, Resume
    <3>2. row' \in [Monitors -> Row]
      BY <3>1
    <3> QED
      BY <2>3, <3>2 DEF Pause, Resume, tickVars
  <2>4. CASE CheckNow(m)
    <3>1. PICK held \in Shown(row[m], window[m]) : row' = [row EXCEPT ![m] = Freed(@, held)]
      BY <2>4 DEF CheckNow
    <3>2. row' \in [Monitors -> Row]
      <4>1. held \in BOOLEAN
        BY <2>0, <3>1 DEF Shown, Row
      <4> QED
        BY <2>0, <3>1, <4>1, FreedTyped
    <3> QED
      BY <2>4, <3>2 DEF CheckNow, tickVars
  <2> QED
    BY <1>1, <2>1, <2>2, <2>3, <2>4 DEF Outside
<1>2. ASSUME NEW m \in Monitors, Engine(m) PROVE SchedulerOK'
  <2>1. targets' = targets \/ (targets[m] > 0 /\ targets' = [targets EXCEPT ![m] = @ - 1])
    <3>1. CASE EngineLoses(m)
      BY <3>1 DEF EngineLoses
    <3>2. ASSUME NEW id \in Ids, Probe(m, id)
          PROVE  targets' = targets \/ (targets[m] > 0 /\ targets' = [targets EXCEPT ![m] = @ - 1])
      BY <3>2 DEF Probe
    <3> QED
      BY <1>2, <3>1, <3>2 DEF Engine
  <2>2. targets' \in [Monitors -> 0 .. MaxTargets]
    BY <2>1, BoundsAssumption
  <2> QED
    BY <1>2, <2>2 DEF Engine, EngineLoses, Probe, rowVars, tickVars
<1>3. ASSUME NEW t \in Ticks, Dispatch(t) PROVE SchedulerOK'
  <2>1. CASE TickBegins(t) \/ TickReleases(t)
    BY <2>1 DEF TickBegins, TickReleases, rowVars
  <2>2. CASE Claim(t)
    <3>1. \A m \in Monitors : [row[m] EXCEPT !.claim = "inFlight", !.due = FALSE] \in Row
      BY DEF Row
    <3>2. row' \in [Monitors -> Row] /\ batch' \in [Ticks -> SUBSET Monitors]
      <4>1. PICK S \in SUBSET {m \in Monitors : Claimable(m)} :
                 /\ row' = [m \in Monitors |->
                             IF m \in S THEN [row[m] EXCEPT !.claim = "inFlight", !.due = FALSE]
                             ELSE row[m]]
                 /\ batch' = [batch EXCEPT ![t] = S]
        BY <2>2 DEF Claim
      <4>2. row' \in [Monitors -> Row]
        BY <3>1, <4>1
      <4> QED
        BY <4>1, <4>2
    <3> QED
      BY <2>2, <3>2 DEF Claim
  <2>3. CASE ClaimsNothing(t) \/ ReturnFails(t)
    BY <2>3 DEF ClaimsNothing, ReturnFails, Ends, rowVars
  <2>4. CASE Publish(t)
    BY <2>4, StoredTyped DEF Publish, Ends, rowVars
  <2>5. CASE PublishFails(t)
    BY <2>5, StoredTyped DEF PublishFails, rowVars
  <2>6. CASE ReturnClaims(t)
    <3>1. \A m \in Monitors : [row[m] EXCEPT !.claim = "free", !.due = TRUE] \in Row
      BY DEF Row
    <3>2. row' \in [Monitors -> Row]
      BY <2>6, <3>1 DEF ReturnClaims
    <3> QED
      BY <2>6, <3>2 DEF ReturnClaims, Ends
  <2> QED
    BY <1>3, <2>1, <2>2, <2>3, <2>4, <2>5, <2>6 DEF Dispatch
<1>4. ASSUME NEW c \in Consumers, Consume(c) PROVE SchedulerOK'
  <2>1. CASE Land(c)
    <3>1. row' = [row EXCEPT ![Subject(c)] = Freed(@, hand[c].held)]
      BY <2>1 DEF Land
    <3>2. \A m \in Monitors : Freed(row[m], hand[c].held) \in Row
      BY <1>4, FreedTyped DEF ResultsOK
    <3> QED
      BY <2>1, <3>1, <3>2 DEF Land, tickVars
  <2>2. CASE ~Land(c)
    BY <1>4, <2>2 DEF Consume, Fetch, Park, Take, TakeUnguarded, SkipDuplicate, SkipUnheard,
                      SkipInactive, Load, Fail, Rebalance, Notices, ConsumerCrashes
  <2> QED
    BY <2>1, <2>2
<1>5. CASE LockExpires \/ \E id \in Ids : MarkerExpires(id)
  BY <1>5 DEF LockExpires, MarkerExpires
<1>6. ASSUME NEW i \in Instances, InstanceCrashes(i) PROVE SchedulerOK'
  BY <1>6 DEF InstanceCrashes, rowVars
<1>7. CASE UNCHANGED vars
  BY <1>7 DEF vars, rowVars, tickVars
<1> QED
  BY <1>1, <1>2, <1>3, <1>4, <1>5, <1>6, <1>7 DEF Next

-------------------------------------------------------------------------------
(* Steps of the consumers.                                                 *)

LEMMA InitConsumer == Init => ConsumerInv
<1> SUFFICES ASSUME Init PROVE ConsumerInv
  OBVIOUS
<1> USE NoIdAssumption DEF Init, EmptyHand
<1>1. MessagesOK
  BY BoundsAssumption DEF MessagesOK
<1>2. ResultsOK
  BY DEF ResultsOK
<1>3. HandsGuarded /\ UnmarkedIsUntried /\ KeysHold /\ AppliedOnce /\ SkippedHadItsTurn
  BY DEF HandsGuarded, UnmarkedIsUntried, KeysHold, AppliedOnce, SkippedHadItsTurn, Holding, Idle
<1> QED
  BY <1>1, <1>2, <1>3 DEF ConsumerInv, ResultsInv

\* Messages only pass from the log to a batch, and out of both.
Passes ==
    /\ Range(log') \subseteq Range(log)
    /\ \A d \in Consumers : Range(todo'[d]) \subseteq Range(todo[d]) \cup Range(log)

LEMMA NothingInNothing == Range(<< >>) = {} /\ << >> \in Seq(Ids) /\ Len(<< >>) = 0
BY DEF Range

\* The handler comes to the next message of its batch, or leaves the batch.
LEMMA BatchShrinks ==
    ASSUME MessagesOK, NEW c \in Consumers, UNCHANGED assigned,
           log' \in {log, << >>},
           \/ todo[c] # << >> /\ todo' = [todo EXCEPT ![c] = Tail(@)]
           \/ todo' = [todo EXCEPT ![c] = << >>]
    PROVE  MessagesOK' /\ Passes
<1>1. log' \in Seq(Ids) /\ Len(log') <= MaxLog /\ Range(log') \subseteq Range(log)
  <2>1. CASE log' = log
    BY <2>1 DEF MessagesOK
  <2>2. CASE log' = << >>
    BY <2>2, NothingInNothing, BoundsAssumption
  <2> QED
    BY <2>1, <2>2
<1>2. \E s \in Seq(Ids) : Range(s) \subseteq Range(todo[c]) /\ todo' = [todo EXCEPT ![c] = s]
  BY NothingInNothing, HeadAndTail DEF MessagesOK
<1>3. todo' \in [Consumers -> Seq(Ids)]
      /\ \A d \in Consumers : Range(todo'[d]) \subseteq Range(todo[d])
  BY <1>2 DEF MessagesOK
<1> QED
  BY <1>1, <1>3 DEF MessagesOK, Passes

LEMMA ConsumeMoves ==
    ASSUME MessagesOK, NEW c \in Consumers, Consume(c) PROVE MessagesOK' /\ Passes
<1>1. CASE Fetch(c)
  <2>1. PICK n \in 1 .. Len(log) : /\ todo' = [todo EXCEPT ![c] = SubSeq(log, 1, n)]
                                   /\ log' = SubSeq(log, n + 1, Len(log))
    BY <1>1 DEF Fetch
  <2>2. Len(log) \in Nat /\ n \in 0 .. Len(log) /\ n + 1 \in 1 .. Len(log) + 1
        /\ Len(log) \in (n + 1) - 1 .. Len(log) /\ 1 \in 1 .. Len(log) + 1 /\ n \in 1 - 1 .. Len(log)
    BY LenProperties DEF MessagesOK
  <2>3. /\ SubSeq(log, 1, n) \in Seq(Ids) /\ Range(SubSeq(log, 1, n)) \subseteq Range(log)
        /\ log' \in Seq(Ids) /\ Range(log') \subseteq Range(log)
        /\ Len(log') = Len(log) - (n + 1) + 1
    BY <2>1, <2>2, Stretch DEF MessagesOK
  <2>4. Len(log') <= MaxLog
    BY <2>2, <2>3, BoundsAssumption DEF MessagesOK
  <2>5. assigned' = assigned
    BY <1>1 DEF Fetch
  <2> HIDE DEF Range
  <2> QED
    BY <2>1, <2>3, <2>4, <2>5 DEF MessagesOK, Passes
<1>2. CASE Park(c) \/ Take(c) \/ TakeUnguarded(c) \/ SkipDuplicate(c) \/ SkipUnheard(c)
  BY <1>2, BatchShrinks
     DEF Park, Take, TakeUnguarded, SkipDuplicate, SkipUnheard, HasResult, HasNext, ComesTo
<1>3. CASE Fail(c) \/ Notices(c) \/ ConsumerCrashes(c)
  BY <1>3, BatchShrinks DEF Fail, Notices, ConsumerCrashes, Leaves
<1>4. CASE Rebalance(c)
  <2>1. /\ todo' \in [Consumers -> Seq(Ids)]
        /\ \A d \in Consumers : Range(todo'[d]) \subseteq Range(todo[d])
    BY <1>4, NothingInNothing DEF Rebalance, Leaves, MessagesOK
  <2> QED
    BY <1>4, <2>1, NothingInNothing, BoundsAssumption DEF Rebalance, MessagesOK, Passes
<1>5. CASE SkipInactive(c) \/ Load(c) \/ Land(c)
  BY <1>5 DEF SkipInactive, Load, Land, MessagesOK, Passes
<1> QED
  BY <1>1, <1>2, <1>3, <1>4, <1>5 DEF Consume

\* Whose batch is not empty has a message before it.
LEMMA NextIsAResult ==
    ASSUME MessagesOK, NEW c \in Consumers, HasNext(c)
    PROVE  NextMessage(c) \in Ids /\ Waiting(NextMessage(c))
BY HeadAndTail DEF MessagesOK, HasNext, NextMessage, Waiting

\* Who is at work has a result in hand.
LEMMA HandHolds ==
    ASSUME ResultsInv, NEW c \in Consumers, ~Idle(c) PROVE hand[c].id \in Ids
BY DEF ResultsInv, ResultsOK, HandsGuarded

\* What becomes of the result in c's hands when c is done with it.
Tried(c, id) ==
    \/ outcome'[id] = outcome[id]
    \/ /\ hand[c].id = id
       /\ outcome'[id] \in {"skipped", "failed", "landed", "twice"}
       /\ outcome'[id] = "twice" => outcome[id] # "none"

\* c puts down its message.
LEMMA DropKeeps ==
    ASSUME ResultsInv, NEW c \in Consumers, Drops(c),
           UNCHANGED <<marked, unguarded, subject>>,
           outcome' \in [Ids -> {"none", "garbled", "skipped", "failed", "landed", "twice"}],
           \A id \in Ids : Tried(c, id),
           \A id \in Ids : hand[c].id = id => outcome'[id] # "none"
    PROVE  ResultsInv'
<1> USE DEF ResultsInv, Idle, Holding, InHand
<1>0. hand' = [hand EXCEPT ![c] = EmptyHand] /\ EmptyHand.id = NoId /\ EmptyHand.stage = "idle"
  BY DEF Drops, EmptyHand
<1>1. hand' \in [Consumers -> [stage : {"idle", "marked", "loaded"},
                               id : Ids \cup {NoId}, held : BOOLEAN]]
  BY DEF Drops, EmptyHand, ResultsOK
<1>2. /\ hand'[c].id = NoId /\ hand'[c].stage = "idle"
      /\ \A d \in Consumers : d # c => hand'[d] = hand[d]
  BY <1>0 DEF ResultsOK
<1>3. ResultsOK'
  BY <1>1 DEF ResultsOK
<1>4. HandsGuarded'
  <2>1. \A d \in Consumers : Idle(d)' <=> hand'[d].id = NoId
    BY <1>2 DEF HandsGuarded
  <2>2. ASSUME NEW id \in Ids \ unguarded, NEW d \in Consumers, hand'[d].id = id
        PROVE  /\ id \in marked'
               /\ outcome'[id] = "none"
               /\ \A e \in Consumers : hand'[e].id = id => e = d
    <3>1. d # c /\ hand[d].id = id
      BY <1>2, <2>2, NoIdAssumption
    <3>2. id \in marked /\ outcome[id] = "none" /\ \A e \in Consumers : hand[e].id = id => e = d
      BY <3>1 DEF HandsGuarded
    <3>3. outcome'[id] = outcome[id]
      BY <3>1, <3>2 DEF Tried
    <3> QED
      BY <1>2, <3>2, <3>3, NoIdAssumption
  <2> QED
    BY <2>1, <2>2 DEF HandsGuarded
<1>5. UnmarkedIsUntried'
  BY DEF UnmarkedIsUntried, HandsGuarded, Tried
<1>6. SkippedHadItsTurn'
  <2> SUFFICES ASSUME NEW id \in marked \ unguarded, outcome'[id] = "none"
               PROVE  \E d \in Consumers : hand'[d].id = id
    BY DEF SkippedHadItsTurn
  <2>1. id \in Ids
    BY DEF ResultsOK
  <2>2. outcome[id] = "none" /\ hand[c].id # id
    BY <2>1 DEF Tried
  <2>3. PICK d \in Consumers : hand[d].id = id
    BY <2>2 DEF SkippedHadItsTurn
  <2> QED
    BY <1>2, <2>2, <2>3
<1>7. AppliedOnce'
  <2> SUFFICES ASSUME NEW id \in Ids, outcome'[id] = "twice", id \notin unguarded PROVE FALSE
    BY DEF AppliedOnce
  <2>1. outcome[id] = "none" \/ outcome[id] = "twice"
    BY DEF HandsGuarded, Tried
  <2> QED
    BY <2>1 DEF Tried, AppliedOnce
<1> QED
  BY <1>3, <1>4, <1>5, <1>6, <1>7 DEF KeysHold

\* A handler is done with its result, whatever came of it.
LEMMA HandlerEnds ==
    ASSUME ResultsInv, NEW c \in Consumers,
           SkipInactive(c) \/ Land(c) \/ Fail(c) \/ ConsumerCrashes(c)
    PROVE  /\ Drops(c)
           /\ UNCHANGED <<marked, unguarded, subject>>
           /\ outcome' \in [Ids -> {"none", "garbled", "skipped", "failed", "landed", "twice"}]
           /\ \A id \in Ids : Tried(c, id)
           /\ \A id \in Ids : hand[c].id = id => outcome'[id] # "none"
<1> DEFINE Outcomes == {"none", "garbled", "skipped", "failed", "landed", "twice"}
<1>0. outcome \in [Ids -> Outcomes]
  BY DEF ResultsInv, ResultsOK
<1>1. CASE SkipInactive(c)
  <2>1. PICK n \in Ids : n = hand[c].id
    BY <1>1, HandHolds DEF SkipInactive, Idle
  <2>2. outcome' = [outcome EXCEPT ![n] = IF outcome[n] = "none" THEN "skipped" ELSE outcome[n]]
    BY <1>1, <2>1 DEF SkipInactive
  <2>3. outcome' \in [Ids -> Outcomes] /\ \A id \in Ids : Tried(c, id)
    BY <1>0, <2>1, <2>2 DEF Tried
  <2>4. outcome'[n] # "none"
    BY <1>0, <2>2
  <2> QED
    BY <1>1, <2>1, <2>3, <2>4 DEF SkipInactive
<1>2. CASE Land(c)
  <2>1. PICK n \in Ids : n = hand[c].id
    BY <1>2, HandHolds DEF Land, Idle
  <2>2. outcome' = [outcome EXCEPT ![n] = IF outcome[n] \in {"landed", "twice"} THEN "twice"
                                          ELSE "landed"]
    BY <1>2, <2>1 DEF Land
  <2>3. outcome' \in [Ids -> Outcomes] /\ \A id \in Ids : Tried(c, id)
    BY <1>0, <2>1, <2>2 DEF Tried
  <2>4. outcome'[n] # "none"
    BY <1>0, <2>2
  <2> QED
    BY <1>2, <2>1, <2>3, <2>4 DEF Land
<1>3. CASE Fail(c) \/ ConsumerCrashes(c)
  <2>1. Drops(c) /\ outcome' = [id \in Ids |-> IF id = hand[c].id /\ outcome[id] = "none"
                                               THEN "failed" ELSE outcome[id]]
    BY <1>3 DEF Fail, ConsumerCrashes, Abandons
  <2>2. outcome' \in [Ids -> Outcomes] /\ \A id \in Ids : Tried(c, id)
    BY <1>0, <2>1 DEF Tried
  <2>3. \A id \in Ids : hand[c].id = id => outcome'[id] # "none"
    BY <2>1
  <2> QED
    BY <1>3, <2>1, <2>2, <2>3 DEF Fail, ConsumerCrashes
<1> QED
  BY <1>1, <1>2, <1>3

\* A message is taken in hand, under its key or, without one that can be relied on, all
\* the same.
LEMMA TakeKeeps ==
    ASSUME MessagesOK, ResultsInv, NEW c \in Consumers, Take(c) \/ TakeUnguarded(c)
    PROVE  ResultsInv'
<1> USE DEF ResultsInv, Idle, Holding, InHand
<1> DEFINE n == NextMessage(c)
<1>0. /\ n \in Ids /\ hand[c].stage = "idle" /\ outcome[n] # "garbled"
      /\ hand' = [hand EXCEPT ![c] = [stage |-> "marked", id |-> n, held |-> FALSE]]
      /\ UNCHANGED <<subject, outcome>>
      /\ \/ n \notin marked /\ marked' = marked \cup {n} /\ unguarded' = unguarded
         \/ /\ "redis" \in Faults
            /\ marked' \in {marked, marked \cup {n}} /\ unguarded' = unguarded \cup {n}
  BY NextIsAResult DEF Take, TakeUnguarded, HasResult, HasNext, Holds
<1> HIDE DEF n
<1>1. /\ hand' \in [Consumers -> [stage : {"idle", "marked", "loaded"},
                                  id : Ids \cup {NoId}, held : BOOLEAN]]
      /\ hand'[c].stage = "marked" /\ hand'[c].id = n
      /\ \A d \in Consumers : d # c => hand'[d] = hand[d]
  BY <1>0 DEF ResultsOK
<1>2. ResultsOK'
  BY <1>0, <1>1 DEF ResultsOK
<1>3. HandsGuarded'
  <2>1. \A d \in Consumers : Idle(d)' <=> hand'[d].id = NoId
    BY <1>0, <1>1, NoIdAssumption DEF HandsGuarded
  <2>2. ASSUME NEW id \in Ids \ unguarded', NEW d \in Consumers, hand'[d].id = id
        PROVE  /\ id \in marked'
               /\ outcome'[id] = "none"
               /\ \A e \in Consumers : hand'[e].id = id => e = d
    <3>1. CASE d = c
      <4>1. id = n /\ n \notin marked /\ n \notin unguarded /\ n \in marked'
        BY <1>0, <1>1, <2>2, <3>1
      <4>2. outcome'[n] = "none"
        BY <1>0, <4>1 DEF UnmarkedIsUntried
      <4>3. \A e \in Consumers : hand[e].id # n
        BY <1>0, <4>1 DEF HandsGuarded
      <4> QED
        BY <1>1, <3>1, <4>1, <4>2, <4>3
    <3>2. CASE d # c
      <4>1. hand[d].id = id /\ id \notin unguarded
        BY <1>0, <1>1, <2>2, <3>2
      <4>2. id \in marked /\ outcome[id] = "none" /\ \A e \in Consumers : hand[e].id = id => e = d
        BY <4>1 DEF HandsGuarded
      <4>3. n # id
        BY <1>0, <2>2, <4>2
      <4> QED
        BY <1>0, <1>1, <4>2, <4>3
    <3> QED
      BY <3>1, <3>2
  <2> QED
    BY <2>1, <2>2 DEF HandsGuarded
<1>4. UnmarkedIsUntried' /\ KeysHold' /\ AppliedOnce'
  BY <1>0 DEF UnmarkedIsUntried, KeysHold, AppliedOnce
<1>5. SkippedHadItsTurn'
  <2> SUFFICES ASSUME NEW id \in marked' \ unguarded', outcome'[id] = "none"
               PROVE  \E d \in Consumers : hand'[d].id = id
    BY DEF SkippedHadItsTurn
  <2>1. CASE id = n
    BY <1>1, <2>1
  <2>2. CASE id # n
    <3>1. id \in Ids /\ id \in marked \ unguarded /\ outcome[id] = "none"
      BY <1>0, <2>2 DEF ResultsOK
    <3>2. PICK d \in Consumers : hand[d].id = id
      BY <3>1 DEF SkippedHadItsTurn
    <3>3. d # c
      BY <1>0, <3>1, <3>2, NoIdAssumption DEF HandsGuarded
    <3> QED
      BY <1>1, <3>2, <3>3
  <2> QED
    BY <2>1, <2>2
<1> QED
  BY <1>2, <1>3, <1>4, <1>5

\* A key that expires, or is set by a SET nobody heard the answer of.
LEMMA UnguardKeeps ==
    ASSUME ResultsInv, NEW n \in Ids, UNCHANGED <<subject, outcome, hand>>,
           Faults \cap {"redis", "expiry"} # {},
           marked' \in {marked \cup {n}, marked \ {n}}, unguarded' = unguarded \cup {n}
    PROVE  ResultsInv'
<1> USE DEF ResultsInv, Idle, Holding, InHand
<1>1. ResultsOK'
  BY DEF ResultsOK
<1>2. HandsGuarded' /\ UnmarkedIsUntried' /\ KeysHold'
  BY DEF HandsGuarded, UnmarkedIsUntried, KeysHold
<1>3. AppliedOnce' /\ SkippedHadItsTurn'
  BY DEF AppliedOnce, SkippedHadItsTurn
<1> QED
  BY <1>1, <1>2, <1>3

LEMMA LoadKeeps == ASSUME ResultsInv, SchedulerOK, NEW c \in Consumers, Load(c) PROVE ResultsInv'
<1> USE DEF ResultsInv, Idle, Holding, InHand
<1>1. hand[c].stage = "marked" /\ UNCHANGED <<marked, unguarded, subject, outcome>>
  BY DEF Load
<1>2. hand[c].id \in Ids
  BY <1>1, HandHolds
<1>3. PICK held \in Shown(row[Subject(c)], window[Subject(c)]) :
          hand' = [hand EXCEPT ![c].stage = "loaded", ![c].held = held]
  BY DEF Load
<1>4. held \in BOOLEAN
  <2>1. Subject(c) \in Monitors
    BY <1>2 DEF Subject, ResultsOK
  <2> QED
    BY <1>3, <2>1 DEF Shown, SchedulerOK, Row
<1>5. /\ hand' \in [Consumers -> [stage : {"idle", "marked", "loaded"},
                                  id : Ids \cup {NoId}, held : BOOLEAN]]
      /\ \A d \in Consumers : hand'[d].id = hand[d].id
      /\ \A d \in Consumers : hand'[d].stage = "idle" <=> hand[d].stage = "idle"
  BY <1>1, <1>3, <1>4 DEF ResultsOK
<1>6. ResultsOK'
  BY <1>1, <1>5 DEF ResultsOK
<1>7. HandsGuarded' /\ UnmarkedIsUntried' /\ KeysHold' /\ AppliedOnce' /\ SkippedHadItsTurn'
  BY <1>1, <1>5 DEF HandsGuarded, UnmarkedIsUntried, KeysHold, AppliedOnce, SkippedHadItsTurn
<1> QED
  BY <1>6, <1>7

LEMMA ResultsUntouched ==
    ASSUME ResultsInv, UNCHANGED <<markVars, subject, outcome, hand>> PROVE ResultsInv'
BY DEF ResultsInv, ResultsOK, HandsGuarded, UnmarkedIsUntried, KeysHold, AppliedOnce,
       SkippedHadItsTurn, Holding, InHand, Idle

\* A probe uses an identity that is nowhere any more.
LEMMA ProbeKeeps ==
    ASSUME ConsumerInv, NEW m \in Monitors, NEW n \in Ids, Probe(m, n) PROVE ConsumerInv'
<1> USE DEF ConsumerInv, ResultsInv, Idle, Holding, InHand
<1>1. PICK parsed \in {"none", "garbled"} : outcome' = [outcome EXCEPT ![n] = parsed]
  BY DEF Probe
<1>2. /\ marked' = marked \ {n} /\ unguarded' = unguarded \ {n}
      /\ subject' = [subject EXCEPT ![n] = m] /\ UNCHANGED <<assigned, todo, hand>>
      /\ \A c \in Consumers : hand[c].id # n
  BY DEF Probe, Unused
<1>3. MessagesOK'
  <2>1. PICK written \in Results(n) : log' = log \o written
    BY DEF Probe
  <2>2. log' \in Seq(Ids) /\ Len(log') <= MaxLog
    BY <2>1, Appended DEF Probe, MessagesOK
  <2> QED
    BY <1>2, <2>2 DEF MessagesOK
<1>4. ResultsOK'
  BY <1>1, <1>2 DEF ResultsOK
<1>5. \A id \in Ids : id # n => /\ outcome'[id] = outcome[id]
                                /\ id \in marked' <=> id \in marked
                                /\ id \in unguarded' <=> id \in unguarded
  BY <1>1, <1>2 DEF ResultsOK
<1>6. outcome'[n] \in {"none", "garbled"} /\ n \notin marked'
  BY <1>1, <1>2 DEF ResultsOK
<1>7. HandsGuarded' /\ UnmarkedIsUntried'
  BY <1>2, <1>5, <1>6 DEF HandsGuarded, UnmarkedIsUntried
<1>8. KeysHold' /\ AppliedOnce'
  BY <1>2, <1>5, <1>6 DEF KeysHold, AppliedOnce
<1>9. SkippedHadItsTurn'
  BY <1>2, <1>5, <1>6 DEF SkippedHadItsTurn, ResultsOK
<1> QED
  BY <1>3, <1>4, <1>7, <1>8, <1>9

\* What the scheduler, users, clocks and the lock do does not reach the topic.
LEMMA ElsewhereSteps ==
    ASSUME \/ \E m \in Monitors : Outside(m) \/ EngineLoses(m)
           \/ \E t \in Ticks : Dispatch(t)
           \/ LockExpires
           \/ \E i \in Instances : InstanceCrashes(i)
           \/ UNCHANGED vars
    PROVE  UNCHANGED <<topicVars, hand>>
<1>1. ASSUME NEW m \in Monitors, Outside(m) \/ EngineLoses(m) PROVE UNCHANGED <<topicVars, hand>>
  BY <1>1 DEF Outside, BecomesDue, ClaimGoesStale, WindowTurns, Pause, Resume, CheckNow, EngineLoses
<1>2. ASSUME NEW t \in Ticks, Dispatch(t) PROVE UNCHANGED <<topicVars, hand>>
  BY <1>2 DEF Dispatch, TickBegins, Claim, ClaimsNothing, Publish, PublishFails, ReturnClaims,
              ReturnFails, TickReleases
<1>3. CASE LockExpires \/ \E i \in Instances : InstanceCrashes(i)
  BY <1>3 DEF LockExpires, InstanceCrashes
<1>4. CASE UNCHANGED vars
  BY <1>4 DEF vars
<1> QED
  BY <1>1, <1>2, <1>3, <1>4

LEMMA MessagesUntouched ==
    ASSUME ConsumerInv, UNCHANGED <<topicVars, hand>> PROVE ConsumerInv'
BY ResultsUntouched DEF ConsumerInv, MessagesOK

LEMMA ExpiryKeeps ==
    ASSUME ConsumerInv, NEW id \in Ids, MarkerExpires(id) PROVE ConsumerInv'
<1>1. ResultsInv'
  BY UnguardKeeps DEF MarkerExpires, ConsumerInv
<1>2. MessagesOK'
  BY DEF MarkerExpires, ConsumerInv, MessagesOK
<1> QED
  BY <1>1, <1>2 DEF ConsumerInv

LEMMA ConsumeKeeps ==
    ASSUME ConsumerInv, SchedulerOK, NEW c \in Consumers, Consume(c) PROVE ConsumerInv'
<1> USE DEF ConsumerInv
<1>0. SUFFICES ResultsInv'
  BY ConsumeMoves
<1>1. CASE Fetch(c) \/ Park(c) \/ SkipDuplicate(c) \/ Rebalance(c) \/ Notices(c)
  BY <1>1, ResultsUntouched DEF Fetch, Park, SkipDuplicate, Rebalance, Notices
<1>2. CASE SkipUnheard(c)
  <2>1. NextMessage(c) \in Ids
    BY <1>2, NextIsAResult DEF SkipUnheard, HasResult
  <2> QED
    BY <1>2, <2>1, UnguardKeeps DEF SkipUnheard
<1>3. CASE SkipInactive(c) \/ Land(c) \/ Fail(c) \/ ConsumerCrashes(c)
  BY <1>3, HandlerEnds, DropKeeps
<1> QED
  BY <1>1, <1>2, <1>3, TakeKeeps, LoadKeeps DEF Consume

PipelineInv == SchedulerOK /\ LockTypeOK /\ ConsumerInv

LEMMA InitPipeline == Init => PipelineInv
<1> SUFFICES ASSUME Init PROVE PipelineInv
  OBVIOUS
<1>1. SchedulerOK
  BY BoundsAssumption DEF Init, SchedulerOK, Row
<1>2. LockTypeOK
  BY DEF Init, LockInit, LockTypeOK
<1> QED
  BY <1>1, <1>2, InitConsumer DEF PipelineInv

LEMMA NextPipeline == PipelineInv /\ [Next]_vars => PipelineInv'
<1> SUFFICES ASSUME PipelineInv, [Next]_vars PROVE PipelineInv'
  OBVIOUS
<1>1. SchedulerOK' /\ LockTypeOK'
  BY SchedulerTyped, LockSteps, LockTyped DEF PipelineInv, ConsumerInv, ResultsInv
<1>2. ConsumerInv'
  <2>1. ASSUME NEW m \in Monitors, Engine(m) PROVE ConsumerInv'
    BY <2>1, ProbeKeeps, MessagesUntouched, ElsewhereSteps DEF Engine, PipelineInv
  <2> QED
    BY <2>1, ConsumeKeeps, ExpiryKeeps, MessagesUntouched, ElsewhereSteps DEF Next, PipelineInv
<1> QED
  BY <1>1, <1>2 DEF PipelineInv

\* Every variable keeps its type, through crashes, rebalances and lost answers.
THEOREM TypeCorrect == Spec => []TypeOK
<1>1. PipelineInv => TypeOK
  BY Sides DEF PipelineInv, ConsumerInv, ResultsInv
<1> QED
  BY InitPipeline, NextPipeline, <1>1, PTL DEF Spec

\* The dedup key of metrics.consumer.ts keeps every result from being applied twice, for
\* any consumers, monitors and faults (stored twice, handled by two owners at once),
\* unless Redis did not answer for its key or the key expired before the last copy came.
THEOREM ResultsLandOnce == Spec => []AppliedOnce
<1>1. PipelineInv => AppliedOnce
  BY DEF PipelineInv, ConsumerInv, ResultsInv
<1> QED
  BY InitPipeline, NextPipeline, <1>1, PTL DEF Spec

\* Nor does the key take a result from anybody: what it has skipped was applied, dropped
\* with its paused monitor, is being handled, or its handling failed.
THEOREM SkippedResultsHadTheirTurn == Spec => []SkippedHadItsTurn
<1>1. PipelineInv => SkippedHadItsTurn
  BY DEF PipelineInv, ConsumerInv, ResultsInv
<1> QED
  BY InitPipeline, NextPipeline, <1>1, PTL DEF Spec

-------------------------------------------------------------------------------
(* One check at a time.                                                    *)

LEMMA CardAtMostOne ==
    ASSUME NEW S, AtMostOne(S) PROVE Cardinality(S) = IF S = {} THEN 0 ELSE 1
<1>1. CASE S = {}
  BY <1>1, FS_EmptySet
<1>2. CASE S # {}
  <2>1. PICK x : x \in S
    BY <1>2
  <2>2. S = {x}
    BY <2>1 DEF AtMostOne
  <2> QED
    BY <2>2, FS_Singleton
<1> QED
  BY <1>1, <1>2

\* What is under way, for a monitor with one check at most.
LEMMA Counted ==
    ASSUME NEW m \in Monitors, OnePlace(m), targets[m] \in Nat
    PROVE  UnderWay(m) <= 1 /\ (UnderWay(m) = 0 => ~Busy(m))
<1>1. /\ Cardinality(Dispatching(m)) = IF Dispatching(m) = {} THEN 0 ELSE 1
      /\ Cardinality(Expected(m)) = IF Expected(m) = {} THEN 0 ELSE 1
  BY CardAtMostOne DEF OnePlace
<1> QED
  BY <1>1 DEF OnePlace, UnderWay, Busy

\* With keys that hold, a result in hand is marked and in nobody else's hands.
LEMMA HeldIsMarked ==
    ASSUME ResultsInv, Faults \cap {"redis", "expiry"} = {},
           NEW c \in Consumers, NEW id \in Ids, hand[c].id = id
    PROVE  /\ id \in marked /\ outcome[id] = "none"
           /\ \A d \in Consumers : hand[d].id = id => d = c
BY DEF ResultsInv, HandsGuarded, KeysHold, Holding

\* A consumer makes no result awaited that was not.
LEMMA ConsumeAwaits ==
    ASSUME ConsumerInv, Faults \cap {"redis", "expiry"} = {}, NEW c \in Consumers, Consume(c),
           NEW id \in Ids, Awaited(id)'
    PROVE  Awaited(id)
<1> USE DEF ConsumerInv
<1>0. /\ hand \in [Consumers -> [stage : {"idle", "marked", "loaded"},
                                 id : Ids \cup {NoId}, held : BOOLEAN]]
      /\ Waiting(id)' => Waiting(id)
  BY ConsumeMoves DEF Passes, Waiting, ResultsInv, ResultsOK
<1>1. SUFFICES ASSUME ~InHand(id)
               PROVE  Waiting(id) /\ id \notin marked /\ outcome[id] # "garbled"
  BY DEF Awaited
<1>2. CASE Fetch(c) \/ Park(c) \/ SkipDuplicate(c) \/ Rebalance(c) \/ Notices(c)
  <2>1. UNCHANGED <<marked, outcome, hand>>
    BY <1>2 DEF Fetch, Park, SkipDuplicate, Rebalance, Notices
  <2> QED
    BY <1>0, <1>1, <2>1 DEF Awaited, InHand
<1>3. CASE Take(c)
  <2>1. /\ outcome' = outcome /\ marked \subseteq marked' /\ NextMessage(c) \notin marked
        /\ Waiting(NextMessage(c)) /\ outcome[NextMessage(c)] # "garbled"
        /\ hand' = [hand EXCEPT ![c] = [stage |-> "marked", id |-> NextMessage(c),
                                        held |-> FALSE]]
    BY <1>3, NextIsAResult DEF Take, HasResult, Holds
  <2>2. id # NextMessage(c) => ~InHand(id)'
    BY <1>0, <1>1, <2>1 DEF InHand
  <2> QED
    BY <1>0, <2>1, <2>2 DEF Awaited
<1>4. CASE SkipInactive(c) \/ Land(c) \/ Fail(c) \/ ConsumerCrashes(c)
  <2>1. UNCHANGED marked /\ Tried(c, id) /\ hand' = [hand EXCEPT ![c] = EmptyHand]
    BY <1>4, HandlerEnds DEF Drops
  <2>2. ~InHand(id)' /\ hand[c].id # id
    BY <1>0, <1>1, <2>1, NoIdAssumption DEF InHand, EmptyHand
  <2> QED
    BY <1>0, <2>1, <2>2 DEF Awaited, Tried
<1>5. CASE Load(c)
  <2>1. UNCHANGED <<marked, outcome>> /\ ~InHand(id)'
    BY <1>0, <1>1, <1>5 DEF Load, InHand
  <2> QED
    BY <1>0, <2>1 DEF Awaited
<1> QED
  BY <1>2, <1>3, <1>4, <1>5 DEF Consume, TakeUnguarded, SkipUnheard

\* A result that lands is awaited no longer, however many copies of it wait.
LEMMA LandedForGood ==
    ASSUME ConsumerInv, Faults \cap {"redis", "expiry"} = {}, NEW c \in Consumers, Land(c),
           NEW id \in Ids, hand[c].id = id
    PROVE  ~Awaited(id)'
<1> USE DEF ConsumerInv
<1>1. id \in marked /\ \A d \in Consumers : hand[d].id = id => d = c
  BY HeldIsMarked
<1>2. ~InHand(id)' /\ id \in marked'
  BY <1>1, NoIdAssumption DEF Land, Drops, EmptyHand, InHand, ResultsInv, ResultsOK
<1> QED
  BY <1>2 DEF Awaited

\* A probe makes its own result awaited and no other.
LEMMA ProbeAwaits ==
    ASSUME ConsumerInv, NEW m \in Monitors, NEW n \in Ids, Probe(m, n),
           NEW id \in Ids, id # n, Awaited(id)'
    PROVE  Awaited(id)
<1>1. PICK written \in Results(n) : log' = log \o written
  BY DEF Probe
<1>2. Range(log') = Range(log) \cup {n}
  BY <1>1, Appended DEF ConsumerInv, MessagesOK
<1>3. /\ UNCHANGED <<hand, todo>>
      /\ outcome'[id] = outcome[id] /\ (id \in marked' <=> id \in marked)
  BY DEF Probe, ConsumerInv, ResultsInv, ResultsOK
<1>4. Waiting(id)' => Waiting(id)
  BY <1>2, <1>3 DEF Waiting
<1> QED
  BY <1>3, <1>4 DEF Awaited, InHand

\* One monitor's part of FlightInv.
OneCheck(m) == OnePlace(m) /\ (Busy(m) => row[m].claim = "inFlight")

\* Steps that start no check keep the invariant, unless they free a claim too early.
LEMMA FewerChecks ==
    ASSUME NEW m \in Monitors, OneCheck(m), targets[m] \in Nat, targets'[m] \in Nat,
           Dispatching(m)' \subseteq Dispatching(m),
           targets'[m] <= targets[m],
           Expected(m)' \subseteq Expected(m),
           Busy(m)' => row'[m].claim = "inFlight" \/ row'[m].claim = row[m].claim
    PROVE  OneCheck(m)'
<1>1. OnePlace(m)'
  BY DEF OneCheck, OnePlace, AtMostOne
<1>2. Busy(m)' => Busy(m)
  BY DEF Busy
<1> QED
  BY <1>1, <1>2 DEF OneCheck

\* What leaves the topic and the consumers alone leaves the awaited results alone.
LEMMA SameAwaited ==
    ASSUME UNCHANGED <<topicVars, hand>>, NEW m \in Monitors
    PROVE  Expected(m)' = Expected(m)
BY DEF Expected, Awaited, Waiting, InHand

\* Users and clocks: only a claim with nothing under way becomes stale.
LEMMA OutsideFlight ==
    ASSUME NothingSlips, PipelineInv, FlightInv, NEW n \in Monitors, Outside(n),
           NEW m \in Monitors
    PROVE  OneCheck(m)'
<1>0. /\ row \in [Monitors -> Row] /\ targets[m] \in Nat /\ OneCheck(m)
      /\ \A x \in Monitors : targets[x] \in Nat /\ OneCheck(x)
  BY BoundsAssumption DEF PipelineInv, SchedulerOK, FlightInv, OneCheck
<1>1. UNCHANGED <<batch, targets, topicVars, hand>>
  BY DEF Outside, BecomesDue, ClaimGoesStale, WindowTurns, Pause, Resume, CheckNow
<1>2. /\ Dispatching(m)' = Dispatching(m) /\ targets'[m] = targets[m]
      /\ Expected(m)' = Expected(m)
  BY <1>1, SameAwaited DEF Dispatching
<1>3. row'[m].claim = row[m].claim \/ ~Busy(m)
  <2>1. CASE ClaimGoesStale(n)
    <3>1. ~Busy(n)
      BY <1>0, <2>1, Counted DEF ClaimGoesStale, NothingSlips, OneCheck
    <3>2. m # n => row'[m] = row[m]
      BY <1>0, <2>1 DEF ClaimGoesStale
    <3> QED
      BY <3>1, <3>2
  <2>2. CASE BecomesDue(n) \/ WindowTurns(n)
    <3>1. \A x \in Monitors : [row[x] EXCEPT !.due = TRUE].claim = row[x].claim
      BY <1>0 DEF Row
    <3> QED
      BY <1>0, <2>2, <3>1 DEF BecomesDue, WindowTurns
  <2>3. CASE Pause(n) \/ Resume(n)
    <3> DEFINE with(x, a, p) == [row[x] EXCEPT !.active = a, !.paused = p]
    <3>1. \A x \in Monitors : /\ with(x, TRUE, FALSE).claim = row[x].claim
                              /\ with(x, FALSE, TRUE).claim = row[x].claim
      BY <1>0 DEF Row
    <3>2. \/ row' = [row EXCEPT ![n] = with(n, TRUE, FALSE)]
          \/ row' = [row EXCEPT ![n] = with(n, FALSE, TRUE)]
      BY <2>3 DEF Pause, Resume
    <3> HIDE DEF with
    <3> QED
      BY <1>0, <3>1, <3>2
  <2>4. ~CheckNow(n)
    BY DEF CheckNow, NothingSlips
  <2> QED
    BY <2>1, <2>2, <2>3, <2>4 DEF Outside
<1>4. Busy(m)' = Busy(m)
  BY <1>2 DEF Busy
<1> QED
  BY <1>0, <1>2, <1>3, <1>4, FewerChecks

\* The scheduler: a claim starts a check of monitors with none under way, a publish
\* hands the check on, and claims are only given back with the batch they are for.
LEMMA DispatchFlight ==
    ASSUME NothingSlips, PipelineInv, FlightInv, NEW t \in Ticks, Dispatch(t),
           NEW m \in Monitors
    PROVE  OneCheck(m)'
<1>0. /\ row \in [Monitors -> Row] /\ targets[m] \in Nat /\ OneCheck(m)
      /\ batch \in [Ticks -> SUBSET Monitors] /\ targets \in [Monitors -> 0 .. MaxTargets]
      /\ targets'[m] \in Nat
  BY BoundsAssumption, SchedulerTyped
     DEF PipelineInv, ConsumerInv, ResultsInv, SchedulerOK, FlightInv, OneCheck, Next
<1>1. Expected(m)' = Expected(m)
  BY SameAwaited, ElsewhereSteps
<1>2. CASE TickBegins(t) \/ TickReleases(t)
  BY <1>0, <1>1, <1>2, FewerChecks DEF TickBegins, TickReleases, Dispatching
<1>3. CASE Claim(t)
  <2>1. PICK S \in SUBSET {x \in Monitors : Claimable(x)} :
             /\ row' = [x \in Monitors |->
                          IF x \in S THEN [row[x] EXCEPT !.claim = "inFlight", !.due = FALSE]
                          ELSE row[x]]
             /\ batch' = [batch EXCEPT ![t] = S]
    BY <1>3 DEF Claim
  <2>2. targets' = targets
    BY <1>3 DEF Claim
  <2>3. CASE m \in S
    <3>1. ~Busy(m)
      BY <1>0, <2>3 DEF OneCheck, Claimable
    <3>2. row'[m].claim = "inFlight"
      <4>1. [row[m] EXCEPT !.claim = "inFlight", !.due = FALSE].claim = "inFlight"
        BY <1>0 DEF Row
      <4> QED
        BY <2>1, <2>3, <4>1
    <3>3. Dispatching(m)' = {t}
      BY <1>0, <2>1, <2>3, <3>1 DEF Busy, Dispatching
    <3> QED
      BY <1>0, <1>1, <2>2, <3>1, <3>2, <3>3 DEF OneCheck, OnePlace, Busy, AtMostOne
  <2>4. CASE m \notin S
    <3>1. row'[m] = row[m] /\ Dispatching(m)' \subseteq Dispatching(m)
      BY <1>0, <2>1, <2>4 DEF Dispatching
    <3> QED
      BY <1>0, <1>1, <2>2, <3>1, FewerChecks
  <2> QED
    BY <2>3, <2>4
<1>4. CASE ClaimsNothing(t) \/ ReturnFails(t)
  BY <1>0, <1>1, <1>4, FewerChecks DEF ClaimsNothing, ReturnFails, Ends, Dispatching
<1>5. CASE Publish(t)
  <2>1. batch' = [batch EXCEPT ![t] = {}] /\ row' = row /\ Stored(batch[t])
    BY <1>5 DEF Publish, Ends
  <2>2. CASE m \in batch[t]
    <3>1. Dispatching(m) # {} /\ Dispatching(m)' = {}
      BY <1>0, <2>1, <2>2 DEF Dispatching, OneCheck, OnePlace, AtMostOne
    <3>2. targets[m] = 0 /\ Expected(m) = {} /\ row[m].claim = "inFlight"
      BY <1>0, <3>1 DEF OneCheck, OnePlace, Busy
    <3>3. targets'[m] = 1
      BY <2>1, <2>2, <3>2, BoundsAssumption DEF Stored
    <3> QED
      BY <1>1, <2>1, <3>1, <3>2, <3>3 DEF OneCheck, OnePlace, AtMostOne
  <2>3. CASE m \notin batch[t]
    <3>1. targets'[m] = targets[m] /\ Dispatching(m)' \subseteq Dispatching(m)
      BY <1>0, <2>1, <2>3 DEF Stored, Dispatching
    <3> QED
      BY <1>0, <1>1, <2>1, <3>1, FewerChecks
  <2> QED
    BY <2>2, <2>3
<1>6. CASE PublishFails(t)
  <2>1. targets'[m] = targets[m] /\ batch' = batch /\ row' = row
    BY <1>6 DEF PublishFails, Stored, NothingSlips
  <2> QED
    BY <1>0, <1>1, <2>1, FewerChecks DEF Dispatching
<1>7. CASE ReturnClaims(t)
  <2>1. batch' = [batch EXCEPT ![t] = {}] /\ targets' = targets
    BY <1>7 DEF ReturnClaims, Ends
  <2>2. CASE m \in batch[t]
    <3>1. Dispatching(m) # {} /\ Dispatching(m)' = {}
      BY <1>0, <2>1, <2>2 DEF Dispatching, OneCheck, OnePlace, AtMostOne
    <3> QED
      BY <1>0, <1>1, <2>1, <3>1 DEF OneCheck, OnePlace, Busy, AtMostOne
  <2>3. CASE m \notin batch[t]
    <3>1. row'[m] = row[m] /\ Dispatching(m)' \subseteq Dispatching(m)
      BY <1>0, <1>7, <2>1, <2>3 DEF ReturnClaims, Dispatching
    <3> QED
      BY <1>0, <1>1, <2>1, <3>1, FewerChecks
  <2> QED
    BY <2>2, <2>3
<1> QED
  BY <1>2, <1>3, <1>4, <1>5, <1>6, <1>7 DEF Dispatch

\* The engine: a target becomes a result, or is lost.
LEMMA EngineFlight ==
    ASSUME NothingSlips, PipelineInv, FlightInv, NEW n \in Monitors, Engine(n),
           NEW m \in Monitors
    PROVE  OneCheck(m)'
<1>0. /\ targets[m] \in Nat /\ OneCheck(m) /\ OneCheck(n) /\ targets[n] \in Nat
      /\ targets \in [Monitors -> 0 .. MaxTargets] /\ targets'[m] \in Nat
      /\ subject \in [Ids -> Monitors]
  BY BoundsAssumption, SchedulerTyped
     DEF PipelineInv, ConsumerInv, ResultsInv, ResultsOK, SchedulerOK, FlightInv, OneCheck,
         Next
<1>1. UNCHANGED <<row, batch>>
  BY DEF Engine, EngineLoses, Probe
<1>2. Dispatching(m)' = Dispatching(m)
  BY <1>1 DEF Dispatching
<1>3. CASE EngineLoses(n)
  <2>1. Expected(m)' = Expected(m)
    BY <1>3, SameAwaited DEF EngineLoses
  <2>2. targets'[m] <= targets[m]
    BY <1>0, <1>3 DEF EngineLoses
  <2> QED
    BY <1>0, <1>1, <1>2, <2>1, <2>2, FewerChecks
<1>4. ASSUME NEW id \in Ids, Probe(n, id) PROVE OneCheck(m)'
  <2>1. /\ targets[n] > 0 /\ targets' = [targets EXCEPT ![n] = @ - 1]
        /\ subject' = [subject EXCEPT ![id] = n]
    BY <1>4 DEF Probe, NothingSlips
  <2>2. ASSUME NEW x \in Expected(m)', x # id PROVE x \in Expected(m)
    <3>1. x \in Ids /\ subject'[x] = m /\ Awaited(x)'
      BY <2>2 DEF Expected
    <3>2. Awaited(x)
      BY <1>4, <2>2, <3>1, ProbeAwaits DEF PipelineInv
    <3> QED
      BY <1>0, <2>1, <2>2, <3>1, <3>2 DEF Expected
  <2>3. CASE m = n
    <3>1. targets[m] = 1 /\ Expected(m) = {} /\ Dispatching(m) = {}
          /\ row[m].claim = "inFlight"
      BY <1>0, <2>1, <2>3 DEF OneCheck, OnePlace, Busy
    <3>2. targets'[m] = 0
      BY <1>0, <2>1, <2>3, <3>1
    <3>3. \A x \in Expected(m)' : x = id
      BY <2>2, <3>1
    <3> QED
      BY <1>1, <1>2, <3>1, <3>2, <3>3 DEF OneCheck, OnePlace, AtMostOne
  <2>4. CASE m # n
    <3>1. targets'[m] = targets[m]
      BY <1>0, <2>1, <2>4
    <3>2. Expected(m)' \subseteq Expected(m)
      <4>1. id \notin Expected(m)'
        BY <1>0, <2>1, <2>4 DEF Expected
      <4> QED
        BY <2>2, <4>1
    <3> QED
      BY <1>0, <1>1, <1>2, <3>1, <3>2, FewerChecks
  <2> QED
    BY <2>3, <2>4
<1> QED
  BY <1>3, <1>4 DEF Engine

\* The consumers: a claim is freed by the result it waited for.
LEMMA ConsumeFlight ==
    ASSUME NothingSlips, PipelineInv, FlightInv, NEW c \in Consumers, Consume(c),
           NEW m \in Monitors
    PROVE  OneCheck(m)'
<1> USE DEF PipelineInv
<1>0. /\ row \in [Monitors -> Row] /\ targets[m] \in Nat /\ OneCheck(m)
      /\ Faults \cap {"redis", "expiry"} = {}
  BY BoundsAssumption DEF SchedulerOK, FlightInv, OneCheck, NothingSlips
<1>1. UNCHANGED <<batch, targets, subject>>
  BY DEF Consume, Fetch, Park, Take, TakeUnguarded, SkipDuplicate, SkipUnheard, SkipInactive,
         Load, Land, Fail, Rebalance, Notices, ConsumerCrashes
<1>2. Dispatching(m)' = Dispatching(m) /\ targets'[m] = targets[m]
  BY <1>1 DEF Dispatching
<1>3. Expected(m)' \subseteq Expected(m)
  BY <1>0, <1>1, ConsumeAwaits DEF Expected
<1>4. CASE Land(c)
  <2>1. PICK id \in Ids : id = hand[c].id
    BY <1>4, HandHolds DEF Land, Idle, ConsumerInv
  <2>2. row' = [row EXCEPT ![subject[id]] = Freed(row[subject[id]], hand[c].held)]
    BY <1>4, <2>1 DEF Land, Subject
  <2>3. CASE subject[id] = m
    <3>1. id \in Expected(m) /\ id \notin Expected(m)'
      BY <1>0, <1>4, <2>1, <2>3, LandedForGood DEF Expected, Awaited, InHand
    <3>2. Dispatching(m) = {} /\ targets[m] = 0 /\ Expected(m)' = {}
      BY <1>0, <1>3, <3>1 DEF OneCheck, OnePlace, AtMostOne
    <3> QED
      BY <1>2, <3>2 DEF OneCheck, OnePlace, Busy, AtMostOne
  <2>4. CASE subject[id] # m
    <3>1. row'[m] = row[m]
      BY <1>0, <2>2, <2>4
    <3> QED
      BY <1>0, <1>2, <1>3, <3>1, FewerChecks
  <2> QED
    BY <2>3, <2>4
<1>5. CASE ~Land(c)
  <2>1. row' = row
    BY <1>5 DEF Consume, Fetch, Park, Take, TakeUnguarded, SkipDuplicate, SkipUnheard,
                SkipInactive, Load, Fail, Rebalance, Notices, ConsumerCrashes
  <2> QED
    BY <1>0, <1>2, <1>3, <2>1, FewerChecks
<1> QED
  BY <1>4, <1>5

LEMMA InitFlight == Init => FlightInv
<1> SUFFICES ASSUME Init, NEW m \in Monitors PROVE OneCheck(m)
  BY DEF FlightInv, OneCheck
<1>1. Dispatching(m) = {} /\ targets[m] = 0
  BY DEF Init, Dispatching
<1>2. Expected(m) = {}
  <2>1. Range(log) = {} /\ \A c \in Consumers : Range(todo[c]) = {} /\ hand[c].id = NoId
    BY NothingInNothing DEF Init, EmptyHand
  <2> QED
    BY <2>1, NoIdAssumption DEF Expected, Awaited, Waiting, InHand
<1> QED
  BY <1>1, <1>2 DEF OneCheck, OnePlace, Busy, AtMostOne

LEMMA NextFlight ==
    ASSUME NothingSlips, PipelineInv, FlightInv, [Next]_vars PROVE FlightInv'
<1> SUFFICES ASSUME NEW m \in Monitors PROVE OneCheck(m)'
  BY DEF FlightInv, OneCheck
<1>1. CASE LockExpires \/ UNCHANGED vars
  <2>1. UNCHANGED <<row, batch, targets>> /\ Expected(m)' = Expected(m)
    BY <1>1, SameAwaited, ElsewhereSteps DEF LockExpires, vars
  <2> QED
    BY <2>1 DEF FlightInv, OneCheck, OnePlace, Busy, Dispatching
<1>2. ASSUME NEW i \in Instances, InstanceCrashes(i) PROVE OneCheck(m)'
  <2>1. /\ UNCHANGED <<row, targets>> /\ Expected(m)' = Expected(m)
        /\ batch' = [t \in Ticks |-> IF Owner[t] = i THEN {} ELSE batch[t]]
    BY <1>2, SameAwaited, ElsewhereSteps DEF InstanceCrashes
  <2>2. Dispatching(m)' \subseteq Dispatching(m)
    BY <2>1 DEF Dispatching
  <2>3. OneCheck(m) /\ targets[m] \in Nat
    BY BoundsAssumption DEF FlightInv, OneCheck, PipelineInv, SchedulerOK
  <2> QED
    BY <2>1, <2>2, <2>3, FewerChecks
<1> QED
  BY <1>1, <1>2, OutsideFlight, DispatchFlight, EngineFlight, ConsumeFlight
     DEF Next, MarkerExpires, NothingSlips

\* The claim of monitor.scheduler.ts keeps checks of one monitor apart, for any replicas,
\* consumers and monitors: through crashes, lost targets and results, rebalances, results
\* stored twice and database errors, as long as no check outlives its claim, Redis answers,
\* no copy of a result outlives its key, no send fails half done, no target is delivered
\* twice and nobody presses "check now".
THEOREM ClaimsSeparateChecks == ASSUME NothingSlips PROVE Spec => []SingleFlight
<1>1. PipelineInv /\ FlightInv => SingleFlight
  <2> SUFFICES ASSUME PipelineInv, FlightInv, NEW m \in Monitors PROVE UnderWay(m) <= 1
    BY DEF SingleFlight
  <2> QED
    BY Counted, BoundsAssumption DEF FlightInv, PipelineInv, SchedulerOK
<1>2. Init => PipelineInv /\ FlightInv
  BY InitPipeline, InitFlight
<1>3. PipelineInv /\ FlightInv /\ [Next]_vars => (PipelineInv /\ FlightInv)'
  BY NextPipeline, NextFlight
<1> QED
  BY <1>1, <1>2, <1>3, PTL DEF Spec

===============================================================================

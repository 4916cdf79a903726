---------------------------- MODULE RetentionProofs ----------------------------
(***************************************************************************)
(* What Retention promises for any window, batches and replicas.  That     *)
(* history is kept rests on the lock: the theorem needs its assumptions.   *)
(***************************************************************************)
EXTENDS Retention, LeaderLockProofs

\* A working cycle is as old as one midnight at most.
CyclesAreFresh ==
    \A t \in Working : cycle[t].day <= today /\ today <= cycle[t].day + 1

\* What the cycle in progress may delete, its roll-up has counted.
Counted(day) ==
    \A d \in Days :
        d + 1 < day /\ raw[d] > 0 =>
            /\ daily[d] # NoSummary
            /\ daily[d] >= raw[d]
            /\ raw[d] = made[d] => daily[d] = made[d]

PrunersHaveCounted == \A t \in Ticks : At(t, "pruning") => Counted(cycle[t].day)

RowsInv == TypeOK /\ KeyInv /\ CyclesAreFresh /\ PrunersHaveCounted

\* Only days that no check reaches any more lose rows.
OnlyOldLose == \A d \in Days : raw[d] < made[d] => d + RetentionDays < today

\* Between cycles, days that are partly deleted are those a cycle has left so.
RestIsCut == (\A t \in Ticks : ~At(t, "pruning")) => Partly(raw) \subseteq cut

HistoryInv == OnlyOldLose /\ RestIsCut /\ HistoryKeptUnlessCut

LEMMA InitRows == Init => RowsInv /\ HistoryInv /\ WorkersHoldTheKey
<1> SUFFICES ASSUME Init PROVE RowsInv /\ HistoryInv /\ WorkersHoldTheKey
  OBVIOUS
<1>1. KeyInv /\ WorkersHoldTheKey
  BY InitKeyInv DEF Init
<1>2. \A t \in Ticks : tick[t] = "idle"
  BY DEF Init, LockInit
<1>3. TypeOK
  BY <1>1, BoundsAssumption, RetentionAssumption DEF Init, TypeOK, KeyInv, Days, Start
<1>4. CyclesAreFresh /\ PrunersHaveCounted
  BY <1>2 DEF CyclesAreFresh, PrunersHaveCounted, At, Working
<1>5. HistoryInv
  BY DEF HistoryInv, OnlyOldLose, RestIsCut, HistoryKeptUnlessCut, Partly, Init
<1> QED
  BY <1>1, <1>3, <1>4, <1>5 DEF RowsInv

-------------------------------------------------------------------------------
(* Steps that leave the rows alone, and what a DELETE leaves.               *)

\* The rows stay, nobody begins to prune, and who begins to work does so today.
Quiet ==
    /\ UNCHANGED <<today, rowVars, cut>>
    /\ \A t \in Ticks : tick'[t] = "working" =>
          \/ tick[t] = "working" /\ cycle'[t] = cycle[t]
          \/ cycle'[t].day = today /\ cycle'[t].stage = "rolling"
    /\ \A t \in Ticks : At(t, "pruning") => At(t, "pruning")'

LEMMA QuietSteps ==
    ASSUME TypeOK,
           \/ \E t \in Ticks : TickBegins(t) \/ TickLosesAnswer(t) \/ TickReleases(t)
                               \/ TickReleaseFails(t)
           \/ LockExpires
           \/ UNCHANGED vars
    PROVE  Quiet
<1> USE DEF Quiet, At
<1>1. ASSUME NEW t \in Ticks, TickBegins(t) PROVE Quiet
  BY <1>1 DEF TickBegins, Acquire, TypeOK, LockTypeOK, Start
<1>2. ASSUME NEW t \in Ticks, TickLosesAnswer(t) PROVE Quiet
  BY <1>2 DEF TickLosesAnswer, AcquireUnanswered
<1>3. ASSUME NEW t \in Ticks, TickReleases(t) \/ TickReleaseFails(t) PROVE Quiet
  BY <1>3 DEF TickReleases, TickReleaseFails, Release, ReleaseFails, TypeOK, LockTypeOK
<1>4. CASE LockExpires
  BY <1>4 DEF LockExpires, Expire
<1>5. CASE UNCHANGED vars
  BY <1>5 DEF vars, lockVars
<1> QED
  BY <1>1, <1>2, <1>3, <1>4, <1>5

LEMMA Deleted ==
    ASSUME raw' \in Remains
    PROVE  /\ raw' \in [Days -> 0 .. MaxChecks]
           /\ \A d \in Days : raw'[d] <= raw[d] /\ (d \in Prunable \/ raw'[d] = raw[d])
BY DEF Remains

\* A batch either ends the cycle, which notes what it leaves, or goes on.
LEMMA PruneCases ==
    ASSUME NEW t \in Ticks, PruneBatch(t)
    PROVE  \/ Ends(t) /\ cut' = cut \cup Partly(raw')
           \/ /\ cycle[t].batch + 1 # MaxBatches
              /\ cycle' = [cycle EXCEPT ![t].batch = @ + 1]
              /\ UNCHANGED <<cut, lockVars>>
BY DEF PruneBatch

\* Each step is one of the lock's, or leaves it alone.
LEMMA LockSteps == [Next]_vars => [LockNext]_lockVars
<1> SUFFICES ASSUME [Next]_vars PROVE [LockNext]_lockVars
  OBVIOUS
<1>1. CASE \E d \in Days : CheckLands(d)
  BY <1>1 DEF CheckLands
<1>2. CASE Midnight
  BY <1>2 DEF Midnight
<1>3. ASSUME NEW t \in Ticks, Retain(t) PROVE [LockNext]_lockVars
  <2>1. CASE PruneBatch(t)
    BY <2>1, PruneCases DEF Ends, LockNext
  <2> QED
    BY <1>3, <2>1 DEF Retain, TickBegins, TickLosesAnswer, RollUp, CycleFails, Ends,
                      TickReleases, TickReleaseFails, LockNext
<1>4. CASE LockExpires
  BY <1>4 DEF LockExpires, LockNext
<1>5. CASE \E i \in Instances : InstanceCrashes(i)
  BY <1>5 DEF InstanceCrashes, LockNext
<1>6. CASE UNCHANGED vars
  BY <1>6 DEF vars
<1> QED
  BY <1>1, <1>2, <1>3, <1>4, <1>5, <1>6 DEF Next

-------------------------------------------------------------------------------
(* Types.                                                                  *)

CycleOK == cycle \in [Ticks -> [stage : {"rolling", "pruning"},
                                batch : 0 .. MaxBatches - 1, day : Days]]

LEMMA EndsTyped ==
    ASSUME TypeOK, NEW t \in Ticks, Ends(t) PROVE CycleOK'
BY RetentionAssumption, BoundsAssumption DEF Ends, TypeOK, CycleOK, Start, Days

LEMMA PruneTyped ==
    ASSUME TypeOK, NEW t \in Ticks, PruneBatch(t)
    PROVE  /\ raw' \in [Days -> 0 .. MaxChecks]
           /\ \A d \in Days : raw'[d] <= made[d]
           /\ cut' \subseteq Days
           /\ CycleOK'
<1>1. raw' \in [Days -> 0 .. MaxChecks] /\ \A d \in Days : raw'[d] <= raw[d]
  BY Deleted DEF PruneBatch
<1>2. \A d \in Days : raw'[d] <= made[d]
  BY <1>1 DEF TypeOK
<1>3. CASE Ends(t) /\ cut' = cut \cup Partly(raw')
  BY <1>1, <1>2, <1>3, EndsTyped DEF TypeOK, Partly
<1>4. CASE /\ cycle[t].batch + 1 # MaxBatches
           /\ cycle' = [cycle EXCEPT ![t].batch = @ + 1]
           /\ UNCHANGED <<cut, lockVars>>
  <2>1. cycle[t].batch + 1 \in 0 .. MaxBatches - 1
    BY <1>4, RetentionAssumption DEF TypeOK
  <2> QED
    BY <1>1, <1>2, <1>4, <2>1 DEF TypeOK, CycleOK
<1> QED
  BY <1>3, <1>4, PruneCases

LEMMA NextTyped == TypeOK /\ KeyInv /\ [Next]_vars => TypeOK' /\ KeyInv'
<1> SUFFICES ASSUME TypeOK, KeyInv, [Next]_vars PROVE TypeOK' /\ KeyInv'
  OBVIOUS
<1>1. KeyInv'
  BY LockSteps, NextKeyInv
<1>2. LockTypeOK'
  BY <1>1 DEF KeyInv
<1> USE BoundsAssumption, RetentionAssumption
<1>3. ASSUME NEW d \in Days, CheckLands(d) PROVE TypeOK'
  <2>1. made[d] + 1 \in 0 .. MaxChecks /\ raw[d] + 1 \in 0 .. MaxChecks
    BY <1>3 DEF CheckLands, TypeOK
  <2> QED
    BY <1>2, <1>3, <2>1 DEF CheckLands, TypeOK
<1>4. CASE Midnight
  <2>1. today' \in Days
    BY <1>4 DEF Midnight, TypeOK, Days
  <2>2. UNCHANGED <<raw, made, daily, cut, cycle>>
    BY <1>4 DEF Midnight, rowVars
  <2> QED
    BY <1>1, <1>2, <2>1, <2>2 DEF TypeOK
<1>5. ASSUME NEW t \in Ticks, TickBegins(t) PROVE TypeOK'
  BY <1>2, <1>5 DEF TickBegins, TypeOK, Start, rowVars
<1>6. ASSUME NEW t \in Ticks, RollUp(t) PROVE TypeOK'
  <2>1. \A d \in Days : Recounted(d) \in 1 .. MaxChecks \cup {NoSummary}
    BY DEF Recounted, TypeOK
  <2> QED
    BY <1>2, <1>6, <2>1 DEF RollUp, TypeOK
<1>7. ASSUME NEW t \in Ticks, PruneBatch(t) PROVE TypeOK'
  BY <1>2, <1>7, PruneTyped DEF PruneBatch, TypeOK, CycleOK
<1>8. ASSUME NEW t \in Ticks, CycleFails(t) PROVE TypeOK'
  BY <1>2, <1>8, EndsTyped DEF CycleFails, TypeOK, CycleOK, rowVars, Partly
<1>9. ASSUME NEW i \in Instances, InstanceCrashes(i) PROVE TypeOK'
  <2>1. Start \in [stage : {"rolling", "pruning"}, batch : 0 .. MaxBatches - 1, day : Days]
    BY DEF Start, Days
  <2>2. CycleOK'
    BY <1>9, <2>1 DEF InstanceCrashes, TypeOK, CycleOK
  <2>3. cut' \subseteq Days /\ UNCHANGED <<today, raw, made, daily>>
    BY <1>9 DEF InstanceCrashes, TypeOK, rowVars, Partly
  <2> QED
    BY <1>2, <2>2, <2>3 DEF TypeOK, CycleOK
<1>10. ASSUME NEW t \in Ticks,
              TickLosesAnswer(t) \/ TickReleases(t) \/ TickReleaseFails(t)
       PROVE  TypeOK'
  BY <1>2, <1>10 DEF TickLosesAnswer, TickReleases, TickReleaseFails, TypeOK, rowVars
<1>11. CASE LockExpires \/ UNCHANGED vars
  <2>1. UNCHANGED <<today, raw, made, daily, cut, cycle>>
    BY <1>11 DEF LockExpires, vars, rowVars
  <2> QED
    BY <1>1, <1>2, <2>1 DEF TypeOK
<1> QED
  BY <1>1, <1>3, <1>4, <1>5, <1>6, <1>7, <1>8, <1>9, <1>10, <1>11 DEF Next, Retain

-------------------------------------------------------------------------------
(* What is deleted was counted.                                            *)

\* A batch deletes only from days before those its cycle's roll-up has counted.
LEMMA PrunedAreCounted ==
    ASSUME RowsInv, NEW t \in Ticks, PruneBatch(t), NEW d \in Days, raw'[d] < raw[d]
    PROVE  /\ d + RetentionDays < today
           /\ daily[d] # NoSummary
           /\ daily[d] >= raw[d]
           /\ raw[d] = made[d] => daily[d] = made[d]
<1>1. d \in Prunable
  BY Deleted DEF PruneBatch, RowsInv, TypeOK
<1>2. d + RetentionDays < today
  BY <1>1 DEF Prunable
<1>3. t \in Working /\ At(t, "pruning")
  BY DEF PruneBatch, At, Working
<1>4. today <= cycle[t].day + 1 /\ cycle[t].day \in Nat /\ today \in Nat /\ d \in Nat
  BY <1>3, BoundsAssumption DEF RowsInv, CyclesAreFresh, TypeOK, Days
<1>5. d + 1 < cycle[t].day
  BY <1>2, <1>4, RetentionAssumption
<1>6. raw'[d] \in Nat /\ raw[d] \in Nat
  BY Deleted, BoundsAssumption DEF PruneBatch, RowsInv, TypeOK
<1>7. raw[d] > 0
  BY <1>6
<1> QED
  BY <1>2, <1>3, <1>5, <1>7 DEF RowsInv, PrunersHaveCounted, Counted

LEMMA NextFresh ==
    ASSUME ~MayOverrun, RowsInv, [Next]_vars PROVE CyclesAreFresh'
<1> USE DEF CyclesAreFresh, Working
<1>0. /\ CyclesAreFresh /\ today \in Int
      /\ \A t \in Ticks : cycle[t].day \in Int
      /\ tick \in [Ticks -> {"idle", "working", "finished"}]
      /\ cycle \in [Ticks -> [stage : {"rolling", "pruning"},
                              batch : 0 .. MaxBatches - 1, day : Days]]
  BY DEF RowsInv, TypeOK, LockTypeOK, Days
<1>1. ASSUME NEW d \in Days, CheckLands(d) PROVE CyclesAreFresh'
  BY <1>0, <1>1 DEF CheckLands, lockVars
<1>2. CASE Midnight
  BY <1>0, <1>2 DEF Midnight, lockVars
<1>3. ASSUME NEW t \in Ticks, RollUp(t) PROVE CyclesAreFresh'
  BY <1>0, <1>3 DEF RollUp, lockVars
<1>4. ASSUME NEW t \in Ticks, Ends(t), today' = today PROVE CyclesAreFresh'
  BY <1>0, <1>4 DEF Ends, Finish
<1>5. ASSUME NEW t \in Ticks, PruneBatch(t) PROVE CyclesAreFresh'
  <2>1. today' = today
    BY <1>5 DEF PruneBatch
  <2>2. CASE cycle' = [cycle EXCEPT ![t].batch = @ + 1] /\ UNCHANGED lockVars
    BY <1>0, <2>1, <2>2 DEF lockVars
  <2> QED
    BY <1>4, <1>5, <2>1, <2>2, PruneCases
<1>6. ASSUME NEW t \in Ticks, CycleFails(t) PROVE CyclesAreFresh'
  BY <1>4, <1>6 DEF CycleFails
<1>7. ASSUME NEW i \in Instances, InstanceCrashes(i) PROVE CyclesAreFresh'
  BY <1>0, <1>7 DEF InstanceCrashes, Crash
<1>8. CASE Quiet
  BY <1>0, <1>8 DEF Quiet
<1> QED
  BY <1>1, <1>2, <1>3, <1>5, <1>6, <1>7, <1>8, QuietSteps DEF Next, Retain, RowsInv

\* Fewer rows, and no check of a counted day, leave what was counted counted.
LEMMA StaysCounted ==
    ASSUME TypeOK, TypeOK', NEW D \in Days, Counted(D),
           daily' = daily,
           \A d \in Days : d + 1 < D => raw'[d] <= raw[d] /\ made'[d] = made[d]
    PROVE  Counted(D)'
BY BoundsAssumption DEF Counted, TypeOK

LEMMA NextCounted ==
    ASSUME RowsInv, TypeOK', [Next]_vars PROVE PrunersHaveCounted'
<1> SUFFICES ASSUME NEW t \in Ticks, At(t, "pruning")' PROVE Counted(cycle[t].day)'
  BY DEF PrunersHaveCounted, Counted
<1>01. cycle[t].day \in Days
  BY DEF RowsInv, TypeOK
<1>02. PICK D \in Days : D = cycle[t].day
  BY <1>01
<1>00. today \in Int /\ D \in Int /\ \A d \in Days : d \in Int
  BY BoundsAssumption DEF RowsInv, TypeOK, Days
<1>0. TypeOK /\ (At(t, "pruning") => Counted(D))
  BY <1>02 DEF RowsInv, PrunersHaveCounted
<1>1. ASSUME NEW d \in Days, CheckLands(d) PROVE Counted(cycle[t].day)'
  <2>1. At(t, "pruning") /\ cycle' = cycle /\ daily' = daily
    BY <1>1 DEF CheckLands, At, lockVars
  <2>2. D <= today /\ today <= d + 1
    BY <1>00, <1>02, <1>1, <2>1 DEF CheckLands, At, RowsInv, CyclesAreFresh, Working
  <2>3. \A x \in Days : x + 1 < D => raw'[x] <= raw[x] /\ made'[x] = made[x]
    <3> SUFFICES ASSUME NEW x \in Days, x + 1 < D
                 PROVE  raw'[x] <= raw[x] /\ made'[x] = made[x]
      OBVIOUS
    <3>1. x # d
      BY <1>0, <1>02, <2>2 DEF Days, TypeOK
    <3> QED
      BY <1>0, <1>02, <1>1, <3>1 DEF CheckLands, TypeOK
  <2> QED
    BY <1>0, <1>02, <2>1, <2>3, StaysCounted
<1>2. CASE Midnight
  BY <1>0, <1>02, <1>2 DEF Midnight, At, rowVars, lockVars, Counted
<1>3. ASSUME NEW s \in Ticks, RollUp(s) PROVE Counted(cycle[t].day)'
  <2>1. t \in Working /\ cycle'[t].day = D /\ raw' = raw /\ made' = made
    BY <1>0, <1>02, <1>3 DEF RollUp, At, Working, lockVars, TypeOK
  <2>2. D <= today
    BY <1>02, <2>1 DEF RowsInv, CyclesAreFresh
  <2>3. \A d \in Days : d + 1 < D /\ raw[d] > 0 => daily'[d] = raw[d]
    <3> SUFFICES ASSUME NEW d \in Days, d + 1 < D, raw[d] > 0 PROVE daily'[d] = raw[d]
      OBVIOUS
    <3>1. d < today
      BY <1>00, <2>2
    <3> QED
      BY <1>3, <3>1 DEF RollUp, Recounted
  <2>4. \A d \in Days : raw[d] \in Nat
    BY <1>0, <1>02, BoundsAssumption DEF TypeOK
  <2> QED
    BY <1>02, <2>1, <2>3, <2>4, NoSummaryAssumption DEF Counted
<1>4. ASSUME NEW s \in Ticks, PruneBatch(s) PROVE Counted(cycle[t].day)'
  <2>1. At(t, "pruning") /\ cycle'[t].day = D
    BY <1>0, <1>02, <1>4, PruneCases
       DEF Ends, Finish, At, Start, TypeOK, LockTypeOK, lockVars
  <2>2. \A d \in Days : raw'[d] <= raw[d]
    BY <1>4, Deleted DEF PruneBatch
  <2>3. daily' = daily /\ made' = made
    BY <1>4 DEF PruneBatch
  <2> QED
    BY <1>0, <1>02, <2>1, <2>2, <2>3, StaysCounted
<1>5. ASSUME NEW s \in Ticks, CycleFails(s) PROVE Counted(cycle[t].day)'
  BY <1>0, <1>02, <1>5 DEF CycleFails, Ends, Finish, At, Start, rowVars, TypeOK, LockTypeOK, Counted
<1>6. ASSUME NEW i \in Instances, InstanceCrashes(i) PROVE Counted(cycle[t].day)'
  BY <1>0, <1>02, <1>6 DEF InstanceCrashes, Crash, At, Start, rowVars, TypeOK, Counted
<1>7. CASE Quiet
  BY <1>0, <1>02, <1>7 DEF Quiet, At, rowVars, Counted
<1> QED
  BY <1>0, <1>02, <1>1, <1>2, <1>3, <1>4, <1>5, <1>6, <1>7, QuietSteps DEF Next, Retain

LEMMA NextRows ==
    ASSUME ~MayOverrun PROVE RowsInv /\ [Next]_vars => RowsInv'
BY NextTyped, NextFresh, NextCounted DEF RowsInv

-------------------------------------------------------------------------------
(* History is kept, as the lock lets one cycle run at a time.              *)

LEMMA NextOnlyOld ==
    ASSUME RowsInv, OnlyOldLose, [Next]_vars PROVE OnlyOldLose'
<1>0. TypeOK /\ today \in Int /\ RetentionDays \in Int /\ \A d \in Days : d \in Int
  BY RetentionAssumption, BoundsAssumption DEF RowsInv, TypeOK, Days
<1> USE DEF OnlyOldLose
<1>1. ASSUME NEW d \in Days, CheckLands(d) PROVE OnlyOldLose'
  BY <1>0, <1>1, BoundsAssumption DEF CheckLands, TypeOK
<1>2. CASE Midnight
  BY <1>0, <1>2 DEF Midnight, rowVars
<1>3. ASSUME NEW t \in Ticks, RollUp(t) PROVE OnlyOldLose'
  BY <1>3 DEF RollUp
<1>4. ASSUME NEW t \in Ticks, PruneBatch(t), NEW d \in Days, raw'[d] < made'[d]
      PROVE  d + RetentionDays < today'
  <2>1. today' = today /\ made' = made
    BY <1>4 DEF PruneBatch
  <2>2. raw'[d] = raw[d] \/ d \in Prunable
    BY <1>4, Deleted DEF PruneBatch
  <2> QED
    BY <1>4, <2>1, <2>2 DEF Prunable
<1>5. ASSUME NEW t \in Ticks, CycleFails(t) PROVE OnlyOldLose'
  BY <1>5 DEF CycleFails, rowVars
<1>6. ASSUME NEW i \in Instances, InstanceCrashes(i) PROVE OnlyOldLose'
  BY <1>6 DEF InstanceCrashes, rowVars
<1>7. CASE Quiet
  BY <1>7 DEF Quiet, rowVars
<1> QED
  BY <1>0, <1>1, <1>2, <1>3, <1>4, <1>5, <1>6, <1>7, QuietSteps DEF Next, Retain

\* A check lands on a day that has lost nothing, and loses nothing.
LEMMA LandsWhole ==
    ASSUME RowsInv, OnlyOldLose, NEW d \in Days, CheckLands(d)
    PROVE  /\ raw'[d] = made'[d] /\ made'[d] \in Int
           /\ \A x \in Days : x # d => raw'[x] = raw[x] /\ made'[x] = made[x]
<1>1. raw[d] \in Int /\ made[d] \in Int /\ raw[d] <= made[d]
  BY BoundsAssumption DEF RowsInv, TypeOK
<1>2. ~(d + RetentionDays < today)
  BY RetentionAssumption, BoundsAssumption DEF RowsInv, TypeOK, CheckLands, Days
<1>3. raw[d] = made[d]
  BY <1>1, <1>2 DEF OnlyOldLose
<1> QED
  BY <1>1, <1>3 DEF CheckLands, RowsInv, TypeOK

LEMMA NextRest ==
    ASSUME RowsInv, OnlyOldLose, RestIsCut, [Next]_vars PROVE RestIsCut'
<1> SUFFICES ASSUME \A t \in Ticks : ~At(t, "pruning")',
                    NEW d \in Days, raw'[d] > 0, raw'[d] < made'[d]
             PROVE  d \in cut'
  BY DEF RestIsCut, Partly
<1>0. /\ tick \in [Ticks -> {"idle", "working", "finished"}]
      /\ cycle \in [Ticks -> [stage : {"rolling", "pruning"},
                              batch : 0 .. MaxBatches - 1, day : Days]]
  BY DEF RowsInv, TypeOK, LockTypeOK
<1>1. ASSUME UNCHANGED rowVars, cut \subseteq cut', \A t \in Ticks : ~At(t, "pruning")
      PROVE  d \in cut'
  BY <1>1 DEF RestIsCut, Partly, rowVars
<1>2. ASSUME NEW x \in Days, CheckLands(x) PROVE d \in cut'
  <2>0. raw'[x] = made'[x] /\ raw'[x] \in Int
    BY <1>2, LandsWhole
  <2>1. d # x
    BY <2>0
  <2>2. raw'[d] = raw[d] /\ made'[d] = made[d] /\ cut' = cut
    BY <1>2, <2>1, LandsWhole DEF CheckLands
  <2>3. \A t \in Ticks : ~At(t, "pruning")
    BY <1>2 DEF CheckLands, At, lockVars
  <2> QED
    BY <2>2, <2>3 DEF RestIsCut, Partly
<1>3. CASE Midnight
  BY <1>1, <1>3 DEF Midnight, At, lockVars
<1>4. ASSUME NEW t \in Ticks, RollUp(t) PROVE FALSE
  BY <1>0, <1>4 DEF RollUp, At, lockVars
<1>5. ASSUME NEW t \in Ticks, PruneBatch(t) PROVE d \in cut'
  <2>1. CASE Ends(t) /\ cut' = cut \cup Partly(raw')
    BY <1>5, <2>1 DEF PruneBatch, Partly
  <2>2. CASE cycle' = [cycle EXCEPT ![t].batch = @ + 1] /\ UNCHANGED lockVars
    BY <1>0, <1>5, <2>2 DEF PruneBatch, At, lockVars
  <2> QED
    BY <1>5, <2>1, <2>2, PruneCases
<1>6. ASSUME NEW t \in Ticks, CycleFails(t) PROVE d \in cut'
  BY <1>6 DEF CycleFails, Partly, rowVars
<1>7. ASSUME NEW i \in Instances, InstanceCrashes(i) PROVE d \in cut'
  <2>1. CASE \E t \in Working : Owner[t] = i
    BY <1>7, <2>1 DEF InstanceCrashes, Partly, rowVars
  <2>2. CASE \A t \in Working : Owner[t] # i
    <3>1. \A t \in Ticks : ~At(t, "pruning")
      BY <1>0, <1>7, <2>2 DEF InstanceCrashes, Crash, At, Working
    <3> QED
      BY <1>1, <1>7, <3>1 DEF InstanceCrashes
  <2> QED
    BY <2>1, <2>2
<1>8. CASE Quiet
  BY <1>1, <1>8 DEF Quiet
<1> QED
  BY <1>2, <1>3, <1>4, <1>5, <1>6, <1>7, <1>8, QuietSteps DEF Next, Retain, RowsInv

LEMMA NextHistory ==
    ASSUME RowsInv, WorkersHoldTheKey, HistoryInv, [Next]_vars PROVE HistoryKeptUnlessCut'
<1> USE DEF HistoryInv, HistoryKeptUnlessCut
<1>1. ASSUME NEW x \in Days, CheckLands(x) PROVE HistoryKeptUnlessCut'
  <2>1. /\ raw'[x] = made'[x] /\ made'[x] \in Int
        /\ \A d \in Days : d # x => raw'[d] = raw[d] /\ made'[d] = made[d]
    BY <1>1, LandsWhole
  <2>2. daily' = daily /\ cut' = cut
    BY <1>1 DEF CheckLands
  <2> QED
    BY <2>1, <2>2
<1>2. CASE Midnight
  BY <1>2 DEF Midnight, rowVars
<1>3. ASSUME NEW t \in Ticks, RollUp(t), NEW d \in Days \ cut', raw'[d] < made'[d]
      PROVE  daily'[d] = made'[d]
  <2>1. \A s \in Ticks : ~At(s, "pruning")
    BY <1>3 DEF RollUp, At, WorkersHoldTheKey, Working
  <2>2. cut' = cut /\ raw' = raw /\ made' = made
    BY <1>3 DEF RollUp
  <2>3. ~(raw[d] > 0)
    BY <1>3, <2>1, <2>2 DEF RestIsCut, Partly
  <2> QED
    BY <1>3, <2>2, <2>3 DEF RollUp, Recounted
<1>4. ASSUME NEW t \in Ticks, PruneBatch(t), NEW d \in Days \ cut', raw'[d] < made'[d]
      PROVE  daily'[d] = made'[d]
  <2>1. made' = made /\ daily' = daily /\ cut \subseteq cut'
    BY <1>4, PruneCases DEF PruneBatch
  <2>2. raw'[d] \in Int /\ raw[d] \in Int /\ made[d] \in Int
        /\ raw'[d] <= raw[d] /\ raw[d] <= made[d]
    BY <1>4, Deleted, BoundsAssumption DEF PruneBatch, RowsInv, TypeOK
  <2>3. CASE raw[d] < made[d]
    BY <2>1, <2>3
  <2>4. CASE raw[d] = made[d]
    BY <1>4, <2>1, <2>2, <2>4, PrunedAreCounted
  <2> QED
    BY <2>2, <2>3, <2>4
<1>5. ASSUME NEW t \in Ticks, CycleFails(t) PROVE HistoryKeptUnlessCut'
  BY <1>5 DEF CycleFails, rowVars
<1>6. ASSUME NEW i \in Instances, InstanceCrashes(i) PROVE HistoryKeptUnlessCut'
  BY <1>6 DEF InstanceCrashes, rowVars
<1>7. CASE Quiet
  BY <1>7 DEF Quiet, rowVars
<1> QED
  BY <1>1, <1>2, <1>3, <1>4, <1>5, <1>6, <1>7, QuietSteps DEF Next, Retain, RowsInv

-------------------------------------------------------------------------------

\* Every variable keeps its type, overruns and overlapping cycles included: no day
\* ever has more rows than checks that were made.
THEOREM TypeCorrect == Spec => []TypeOK
<1>1. Init => TypeOK /\ KeyInv
  BY InitRows DEF RowsInv
<1> QED
  BY <1>1, NextTyped, PTL DEF Spec

\* Retention cycles run one at a time, by the lock, for any number of replicas that
\* tick once each and finish before the lock runs out.
THEOREM OneCycleAtATime ==
    ASSUME OneTickPerInstance, ~MayOverrun PROVE Spec => []AtMostOneWorks
<1>1. Init => KeyInv /\ WorkersHoldTheKey
  BY InitRows DEF RowsInv
<1>2. KeyInv /\ WorkersHoldTheKey /\ [Next]_vars => KeyInv' /\ WorkersHoldTheKey'
  BY LockSteps, NextKeyInv, NextWorkers
<1>3. WorkersHoldTheKey => AtMostOneWorks
  BY DEF WorkersHoldTheKey, AtMostOneWorks, Working
<1> QED
  BY <1>1, <1>2, <1>3, PTL DEF Spec

\* The DELETE of pruneRawChecks takes only checks that a roll-up has counted, late
\* checks included, for any window of two days or more, any sizes of batches and
\* any number of overlapping cycles, as long as none outlives the lock.
THEOREM NothingDroppedUncounted ==
    ASSUME ~MayOverrun PROVE Spec => SummarisedBeforeDropped
<1> DEFINE CountedStep ==
        \A d \in Days : raw'[d] < raw[d] => daily[d] # NoSummary /\ daily[d] >= raw[d]
<1>1. RowsInv /\ [Next]_vars => [CountedStep]_vars
  <2> SUFFICES ASSUME RowsInv, Next, NEW d \in Days, raw'[d] < raw[d]
               PROVE  daily[d] # NoSummary /\ daily[d] >= raw[d]
    OBVIOUS
  <2>0. raw \in [Days -> Int]
    BY BoundsAssumption DEF RowsInv, TypeOK
  <2>1. raw' # raw
    BY <2>0
  <2>2. CASE \E x \in Days : CheckLands(x)
    BY <2>0, <2>2 DEF CheckLands
  <2>3. CASE \E t \in Ticks : PruneBatch(t)
    BY <2>3, PrunedAreCounted
  <2> QED
    BY <2>1, <2>2, <2>3, QuietSteps
       DEF Next, Retain, RowsInv, Midnight, RollUp, CycleFails, InstanceCrashes, Quiet, rowVars
<1> QED
  BY <1>1, InitRows, NextRows, PTL DEF Spec, SummarisedBeforeDropped

\* runRetentionCycle loses no uptime history to any midnight, late check, failure or
\* crash, except on days that a cycle which ended early left partly deleted. It rests
\* on withLeaderLock: one tick per instance and no cycle that outlives the lock.
THEOREM HistoryIsKept ==
    ASSUME OneTickPerInstance, ~MayOverrun PROVE Spec => []HistoryKeptUnlessCut
<1> DEFINE Inv == RowsInv /\ HistoryInv /\ WorkersHoldTheKey
<1>1. Inv /\ [Next]_vars => Inv'
  <2> SUFFICES ASSUME Inv, [Next]_vars PROVE Inv'
    OBVIOUS
  <2>1. RowsInv'
    BY NextRows
  <2>2. WorkersHoldTheKey'
    BY LockSteps, NextWorkers DEF RowsInv
  <2>3. HistoryInv'
    BY NextOnlyOld, NextRest, NextHistory DEF HistoryInv
  <2> QED
    BY <2>1, <2>2, <2>3
<1>2. Inv => HistoryKeptUnlessCut
  BY DEF HistoryInv
<1> QED
  BY InitRows, <1>1, <1>2, PTL DEF Spec

===============================================================================

--------------------------- MODULE LeaderLockProofs ---------------------------
(***************************************************************************)
(* When the leader lock keeps its promise.  The key names a process, so    *)
(* everything rests on an instance having one tick under way at most.      *)
(***************************************************************************)
EXTENDS LeaderLock, TLAPS

OneTickPerInstance == \A s, t \in Ticks : Owner[s] = Owner[t] => s = t

\* The key holds the id of the instance whose tick was granted it.
KeyNamesGrantee ==
    IF granted \in Ticks THEN lock = Owner[granted] ELSE lock \in {None, Orphaned}

\* Whoever works was granted the key that exists now.
WorkersHoldTheKey == \A t \in Working : granted = t

KeyInv == LockTypeOK /\ KeyNamesGrantee

LEMMA InitKeyInv == LockInit => KeyInv /\ WorkersHoldTheKey
BY NoInstanceAssumption
   DEF LockInit, KeyInv, LockTypeOK, KeyNamesGrantee, WorkersHoldTheKey, Working

\* The key and its ghost stay together in every step, overruns included.
LEMMA NextKeyInv == KeyInv /\ [LockNext]_lockVars => KeyInv'
<1> SUFFICES ASSUME KeyInv, [LockNext]_lockVars PROVE KeyInv'
  OBVIOUS
<1> USE NoInstanceAssumption, OwnerAssumption DEF KeyInv, LockTypeOK, KeyNamesGrantee
<1>1. CASE \E t \in Ticks : Acquire(t) \/ AcquireUnanswered(t)
  BY <1>1 DEF Acquire, AcquireUnanswered
<1>2. CASE \E t \in Ticks : Finish(t) \/ ReleaseFails(t)
  BY <1>2 DEF Finish, ReleaseFails
<1>3. CASE \E t \in Ticks : Release(t)
  BY <1>3 DEF Release
<1>4. CASE Expire
  BY <1>4 DEF Expire
<1>5. ASSUME NEW i \in Instances, Crash(i) PROVE KeyInv'
  BY <1>5 DEF Crash
<1>6. CASE UNCHANGED lockVars
  BY <1>6 DEF lockVars
<1> QED
  BY <1>1, <1>2, <1>3, <1>4, <1>5, <1>6 DEF LockNext

\* A release that deletes the key deletes the one granted to its own tick.
LEMMA ReleaseIsOwn ==
    ASSUME OneTickPerInstance, KeyInv, NEW t \in Ticks, lock = Owner[t]
    PROVE  granted = t
BY NoInstanceAssumption, OwnerAssumption
   DEF OneTickPerInstance, KeyInv, KeyNamesGrantee, LockTypeOK

\* As long as no job outlives its lock, whoever works holds the key.
LEMMA NextWorkers ==
    ASSUME OneTickPerInstance, ~MayOverrun
    PROVE  KeyInv /\ WorkersHoldTheKey /\ [LockNext]_lockVars => WorkersHoldTheKey'
<1> SUFFICES ASSUME KeyInv, WorkersHoldTheKey, [LockNext]_lockVars PROVE WorkersHoldTheKey'
  OBVIOUS
<1> USE DEF WorkersHoldTheKey, Working
<1>1. ASSUME NEW t \in Ticks, Acquire(t) PROVE WorkersHoldTheKey'
  <2>1. granted \notin Ticks
    <3>1. lock = None
      BY <1>1 DEF Acquire
    <3>2. granted \in Ticks => lock = Owner[granted]
      BY DEF KeyInv, KeyNamesGrantee
    <3> QED
      BY <3>1, <3>2, NoInstanceAssumption, OwnerAssumption
  <2>2. Working = {}
    BY <2>1
  <2> QED
    BY <1>1, <2>2 DEF Acquire, KeyInv, LockTypeOK
<1>2. ASSUME NEW t \in Ticks, AcquireUnanswered(t) PROVE WorkersHoldTheKey'
  <2>1. granted \notin Ticks
    <3>1. lock = None
      BY <1>2 DEF AcquireUnanswered
    <3>2. granted \in Ticks => lock = Owner[granted]
      BY DEF KeyInv, KeyNamesGrantee
    <3> QED
      BY <3>1, <3>2, NoInstanceAssumption, OwnerAssumption
  <2>2. Working = {}
    BY <2>1
  <2> QED
    BY <1>2, <2>2 DEF AcquireUnanswered
<1>3. CASE \E t \in Ticks : Finish(t) \/ ReleaseFails(t)
  BY <1>3 DEF Finish, ReleaseFails, KeyInv, LockTypeOK
<1>4. ASSUME NEW t \in Ticks, Release(t) PROVE WorkersHoldTheKey'
  <2>1. CASE lock = Owner[t]
    <3>1. Working = {}
      BY <1>4, <2>1, ReleaseIsOwn DEF Release
    <3> QED
      BY <1>4, <3>1 DEF Release, KeyInv, LockTypeOK
  <2>2. CASE lock # Owner[t]
    BY <1>4, <2>2 DEF Release, KeyInv, LockTypeOK
  <2> QED
    BY <2>1, <2>2
<1>5. CASE Expire
  BY <1>5 DEF Expire
<1>6. ASSUME NEW i \in Instances, Crash(i) PROVE WorkersHoldTheKey'
  BY <1>6 DEF Crash, KeyInv, KeyNamesGrantee, LockTypeOK
<1>7. CASE UNCHANGED lockVars
  BY <1>7 DEF lockVars
<1> QED
  BY <1>1, <1>2, <1>3, <1>4, <1>5, <1>6, <1>7 DEF LockNext

-------------------------------------------------------------------------------

\* The key always belongs to the instance that set it, and every variable keeps
\* its type, even when jobs outlive their locks.
THEOREM LockTypeCorrect == LockSpec => []LockTypeOK
<1>1. KeyInv => LockTypeOK
  BY DEF KeyInv
<1> QED
  BY InitKeyInv, NextKeyInv, <1>1, PTL DEF LockSpec

\* withLeaderLock runs its job exclusively, for any number of instances, if each
\* has one tick under way at most and no job outlives the TTL.
THEOREM Exclusive ==
    ASSUME OneTickPerInstance, ~MayOverrun
    PROVE  LockSpec => []AtMostOneWorks
<1>1. WorkersHoldTheKey => AtMostOneWorks
  BY DEF WorkersHoldTheKey, AtMostOneWorks, Working
<1> QED
  BY InitKeyInv, NextKeyInv, NextWorkers, <1>1, PTL DEF LockSpec

\* A release never deletes a key its tick was not granted, even one that was set
\* after the tick's own had expired: the compare in the release script suffices.
THEOREM OwnRelease ==
    ASSUME OneTickPerInstance
    PROVE  LockSpec => ReleasesOwnGrant
<1> DEFINE OwnStep == \A t \in Ticks :
        tick[t] = "finished" /\ tick'[t] = "idle" /\ lock' = None /\ lock # None =>
            granted = t
<1>1. KeyInv /\ [LockNext]_lockVars => [OwnStep]_lockVars
  <2> SUFFICES ASSUME KeyInv, LockNext, NEW t \in Ticks,
                      tick[t] = "finished", tick'[t] = "idle", lock' = None, lock # None
               PROVE  granted = t
    OBVIOUS
  <2> USE NoInstanceAssumption, OwnerAssumption DEF KeyInv, LockTypeOK
  <2>1. CASE \E s \in Ticks : Acquire(s) \/ AcquireUnanswered(s)
    BY <2>1 DEF Acquire, AcquireUnanswered
  <2>2. CASE \E s \in Ticks : Finish(s) \/ ReleaseFails(s)
    BY <2>2 DEF Finish, ReleaseFails
  <2>3. ASSUME NEW s \in Ticks, Release(s) PROVE granted = t
    <3>1. s = t
      BY <2>3 DEF Release
    <3>2. lock = Owner[t]
      BY <2>3, <3>1 DEF Release
    <3> QED
      BY <3>2, ReleaseIsOwn
  <2>4. CASE Expire
    BY <2>4 DEF Expire
  <2>5. ASSUME NEW i \in Instances, Crash(i) PROVE granted = t
    BY <2>5 DEF Crash
  <2> QED
    BY <2>1, <2>2, <2>3, <2>4, <2>5 DEF LockNext
<1> QED
  BY InitKeyInv, NextKeyInv, <1>1, PTL DEF LockSpec, ReleasesOwnGrant

===============================================================================

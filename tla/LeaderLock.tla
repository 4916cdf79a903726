------------------------------ MODULE LeaderLock ------------------------------
(***************************************************************************)
(* withLeaderLock: the Redis key that lets one instance of the backend run *)
(* a periodic job.  Every tick of every instance's setInterval is a        *)
(* process of its own, since a tick that takes longer than the interval is *)
(* still running when the next one starts.                                 *)
(*                                                                         *)
(* The key expires on its own, so a job that outlives the TTL keeps        *)
(* working without the lock.  Whether jobs may do so is a constant: some   *)
(* promises of the lock need them not to.  The modules of the jobs extend   *)
(* this one.                                                               *)
(***************************************************************************)
CONSTANTS
    Ticks,        \* runs of the job under way at once, over all instances
    Instances,    \* backend processes
    Owner,        \* Owner[t]: the instance whose timer fired tick t
    None,         \* the key does not exist
    Orphaned,     \* the key names a process that is gone
    MayOverrun    \* whether a job may outlive the TTL of its lock

ASSUME OwnerAssumption == Owner \in [Ticks -> Instances]
ASSUME NoInstanceAssumption ==
    None \notin Instances \cup Ticks /\ Orphaned \notin Instances \cup {None}
ASSUME MayOverrunAssumption == MayOverrun \in BOOLEAN

VARIABLES
    lock,       \* value of the key: the INSTANCE_ID that set it
    tick,       \* where each tick is in withLeaderLock
    granted     \* the tick whose SET created the key that exists now

lockVars == <<lock, tick, granted>>

LockTypeOK ==
    /\ lock \in Instances \cup {None, Orphaned}
    /\ tick \in [Ticks -> {"idle", "working", "finished"}]
    /\ granted \in Ticks \cup {None}

LockInit ==
    /\ lock = None
    /\ tick = [t \in Ticks |-> "idle"]
    /\ granted = None

Working == {t \in Ticks : tick[t] = "working"}

\* SET NX PX.  A tick that finds the key, or no Redis, skips its turn.
Acquire(t) ==
    /\ tick[t] = "idle"
    /\ lock = None
    /\ lock' = Owner[t]
    /\ granted' = t
    /\ tick' = [tick EXCEPT ![t] = "working"]

\* The key is set and the answer lost: nobody works under it until it expires.
AcquireUnanswered(t) ==
    /\ tick[t] = "idle"
    /\ lock = None
    /\ lock' = Owner[t]
    /\ granted' = t
    /\ UNCHANGED tick

\* The job has resolved or thrown.
Finish(t) ==
    /\ tick[t] = "working"
    /\ tick' = [tick EXCEPT ![t] = "finished"]
    /\ UNCHANGED <<lock, granted>>

\* Mutant: a naive DEL.
ReleaseAnyones(t) ==
    /\ tick[t] = "finished"
    /\ tick' = [tick EXCEPT ![t] = "idle"]
    /\ lock' = None
    /\ granted' = None

\* The release script deletes the key only if it holds this instance's id.
Release(t) ==
    /\ tick[t] = "finished"
    /\ tick' = [tick EXCEPT ![t] = "idle"]
    /\ IF lock = Owner[t]
       THEN lock' = None /\ granted' = None
       ELSE UNCHANGED <<lock, granted>>

\* Redis does not answer the script; the error is swallowed.
ReleaseFails(t) ==
    /\ tick[t] = "finished"
    /\ tick' = [tick EXCEPT ![t] = "idle"]
    /\ UNCHANGED <<lock, granted>>

\* Mutant: the key of a dead process never expires (no PX).
ExpireLive ==
    /\ lock \in Instances
    /\ MayOverrun \/ granted \notin Working
    /\ lock' = None
    /\ granted' = None
    /\ UNCHANGED tick

\* The TTL runs out.
Expire ==
    /\ lock # None
    /\ MayOverrun \/ granted \notin Working
    /\ lock' = None
    /\ granted' = None
    /\ UNCHANGED tick

\* The process dies and is started again with a new INSTANCE_ID.
Crash(i) ==
    /\ tick' = [t \in Ticks |-> IF Owner[t] = i THEN "idle" ELSE tick[t]]
    /\ lock' = IF lock = i THEN Orphaned ELSE lock
    /\ granted' = IF lock = i THEN None ELSE granted

LockNext ==
    \/ \E t \in Ticks : \/ Acquire(t)
                        \/ AcquireUnanswered(t)
                        \/ Finish(t)
                        \/ Release(t)
                        \/ ReleaseFails(t)
    \/ Expire
    \/ \E i \in Instances : Crash(i)

LockSpec == LockInit /\ [][LockNext]_lockVars

-------------------------------------------------------------------------------

\* "Exactly one instance wins the lock and does the work" (leader-lock.ts:8): no
\* two runs of the job overlap.  It needs a job shorter than the TTL and, since
\* the key names the process and not the tick, at most one tick per instance.
AtMostOneWorks == \A s, t \in Working : s = t

\* "A holder can only release its own lock" (leader-lock.ts:15): a release that
\* deletes the key deletes the one its own tick was granted.
ReleasesOwnGrant ==
    [][\A t \in Ticks :
          tick[t] = "finished" /\ tick'[t] = "idle" /\ lock' = None /\ lock # None =>
              granted = t]_lockVars

===============================================================================

--------------------------- MODULE EngineContract ---------------------------
(***************************************************************************)
(* What the rest of PulseOps may rely on of the Go ping engine: a target   *)
(* message it takes off the topic is answered or lost, never both, never   *)
(* forgotten while the engine runs; and an engine that drained before it   *)
(* exited still holds nothing.  CheckPipeline uses the engine through this *)
(* contract; PingEngine implements it.                                     *)
(***************************************************************************)
EXTENDS Naturals

CONSTANT Targets    \* messages of the targets topic

VARIABLES
    state,      \* what became of each target
    engine      \* "running", "drained", or "cut" off by its deadline

contractVars == <<state, engine>>

Taken == {t \in Targets : state[t] = "taken"}

Init ==
    /\ state = [t \in Targets |-> "offered"]
    /\ engine = "running"

Take(t) ==
    /\ engine = "running"
    /\ state[t] = "offered"
    /\ state' = [state EXCEPT ![t] = "taken"]
    /\ UNCHANGED engine

\* A payload that is no target, or a read interrupted after its commit.
Refuse(t) ==
    /\ engine = "running"
    /\ state[t] = "offered"
    /\ state' = [state EXCEPT ![t] = "lost"]
    /\ UNCHANGED engine

\* Results leave in batches, of which the broker may store any part.
Settle(batch, stored) ==
    /\ engine = "running"
    /\ batch \subseteq Taken
    /\ stored \subseteq batch
    /\ state' = [t \in Targets |-> IF t \in stored THEN "answered"
                                   ELSE IF t \in batch THEN "lost"
                                   ELSE state[t]]
    /\ UNCHANGED engine

Drain ==
    /\ engine = "running"
    /\ Taken = {}
    /\ engine' = "drained"
    /\ UNCHANGED state

CutOff ==
    /\ engine = "running"
    /\ engine' = "cut"
    /\ UNCHANGED state

SettleSome(t) ==
    /\ t \in Taken
    /\ \E batch, stored \in SUBSET Taken : t \in batch /\ Settle(batch, stored)

Next ==
    \/ \E t \in Targets : Take(t) \/ Refuse(t)
    \/ \E batch, stored \in SUBSET Taken : Settle(batch, stored)
    \/ Drain
    \/ CutOff

Safety == Init /\ [][Next]_contractVars

\* Nothing taken is held for ever by an engine that runs.
Contract == Safety /\ \A t \in Targets : WF_contractVars(SettleSome(t))

=============================================================================

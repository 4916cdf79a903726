------------------------------ MODULE PingEngine ------------------------------
(***************************************************************************)
(* The Go ping engine (main.go, engine/dispatcher.go): a consumer that     *)
(* reads targets, a pool of workers that probe them, a publisher that      *)
(* writes the results in batches, two bounded channels between them, and   *)
(* the ordered shutdown that a signal starts.  Every goroutine is a        *)
(* process; a channel operation is one step of it.                         *)
(*                                                                         *)
(* Probes and writes are bounded by their own timeouts, so they always     *)
(* end.  What a probe finds is left out: a result is its target's name.    *)
(***************************************************************************)
EXTENDS Naturals, Sequences, FiniteSets

CONSTANTS
    Targets,      \* messages of the targets topic
    Workers,      \* the goroutines of the pool
    Capacity,     \* of each of the two channels
    BatchSize,    \* results per write, at most
    None          \* a worker that probes no target

ASSUME WorkersAssumption == Workers # {}
ASSUME CapacityAssumption == Capacity \in Nat \ {0}
ASSUME BatchSizeAssumption == BatchSize \in Nat \ {0}
ASSUME NoneAssumption == None \notin Targets

VARIABLES
    place,        \* where each target, or its result, is
    consumer,     \* the consumer: "reading", "handing" over, "done"
    targetChan, targetClosed,
    worker,       \* what each worker does: "ranging", "probing", "done"
    probed,       \* the target each worker probes
    resultChan, resultClosed,
    publisher,    \* "waiting", "collecting", "writing", "done"
    sawClosed,    \* channelClosed: the batch is the last one
    cancelled,    \* the consumer's context
    drain,        \* the shutdown goroutine, by the step it is about to take
    main          \* "running", "stopping", "closing", "exited"

workerVars == <<worker, probed>>
publisherVars == <<publisher, sawClosed>>
shutdownVars == <<cancelled, drain, main>>
vars == <<place, consumer, targetChan, targetClosed, workerVars,
          resultChan, resultClosed, publisherVars, shutdownVars>>

Places == {"topic", "held", "queued", "probed", "reported", "batched",
           "written", "unwritten", "dropped"}

At(p) == {t \in Targets : place[t] = p}
Batch == At("batched")
Moved(t, p) == [place EXCEPT ![t] = p]

TypeOK ==
    /\ place \in [Targets -> Places]
    /\ consumer \in {"reading", "handing", "done"}
    /\ targetChan \in Seq(Targets) /\ Len(targetChan) <= Capacity
    /\ resultChan \in Seq(Targets) /\ Len(resultChan) <= Capacity
    /\ worker \in [Workers -> {"ranging", "probing", "done"}]
    /\ probed \in [Workers -> Targets \cup {None}]
    /\ publisher \in {"waiting", "collecting", "writing", "done"}
    /\ drain \in {"unstarted", "cancel", "consumer", "workers", "publisher", "complete"}
    /\ main \in {"running", "stopping", "closing", "exited"}
    /\ targetClosed \in BOOLEAN /\ resultClosed \in BOOLEAN
    /\ sawClosed \in BOOLEAN /\ cancelled \in BOOLEAN

Init ==
    /\ place = [t \in Targets |-> "topic"]
    /\ consumer = "reading"
    /\ targetChan = <<>> /\ targetClosed = FALSE
    /\ worker = [w \in Workers |-> "ranging"]
    /\ probed = [w \in Workers |-> None]
    /\ resultChan = <<>> /\ resultClosed = FALSE
    /\ publisher = "waiting" /\ sawClosed = FALSE
    /\ cancelled = FALSE /\ drain = "unstarted" /\ main = "running"

\* Once main returns, no goroutine takes another step.
Alive == main # "exited"

-------------------------------------------------------------------------------
(* The consumer.                                                           *)

\* ReadMessage has committed the offset: the message will not come again.
Read(t) ==
    /\ Alive /\ consumer = "reading"
    /\ place[t] = "topic"
    /\ place' = Moved(t, "held")
    /\ consumer' = "handing"
    /\ UNCHANGED <<targetChan, targetClosed, workerVars, resultChan,
                   resultClosed, publisherVars, shutdownVars>>

ReadCorrupted(t) ==
    /\ Alive /\ consumer = "reading"
    /\ place[t] = "topic"
    /\ place' = Moved(t, "dropped")
    /\ UNCHANGED <<consumer, targetChan, targetClosed, workerVars, resultChan,
                   resultClosed, publisherVars, shutdownVars>>

\* The context ends a read, perhaps between fetching a message and learning
\* that its offset is committed.
ReadCancelled ==
    /\ Alive /\ consumer = "reading"
    /\ cancelled
    /\ consumer' = "done"
    /\ \/ UNCHANGED place
       \/ \E t \in At("topic") : place' = Moved(t, "dropped")
    /\ UNCHANGED <<targetChan, targetClosed, workerVars, resultChan,
                   resultClosed, publisherVars, shutdownVars>>

\* The send case of the select, which waits for room.
HandOver(t) ==
    /\ Alive /\ consumer = "handing"
    /\ place[t] = "held"
    /\ Len(targetChan) < Capacity
    /\ targetChan' = Append(targetChan, t)
    /\ place' = Moved(t, "queued")
    /\ consumer' = "reading"
    /\ UNCHANGED <<targetClosed, workerVars, resultChan, resultClosed,
                   publisherVars, shutdownVars>>

\* The ctx.Done case: the target was read and committed, and is not probed.
HandOverCancelled(t) ==
    /\ Alive /\ consumer = "handing"
    /\ place[t] = "held"
    /\ cancelled
    /\ place' = Moved(t, "dropped")
    /\ consumer' = "done"
    /\ UNCHANGED <<targetChan, targetClosed, workerVars, resultChan,
                   resultClosed, publisherVars, shutdownVars>>

-------------------------------------------------------------------------------
(* StartWorker: range over targetChan, send each result.                   *)

Receive(w) ==
    /\ Alive /\ worker[w] = "ranging"
    /\ targetChan # <<>>
    /\ probed' = [probed EXCEPT ![w] = Head(targetChan)]
    /\ worker' = [worker EXCEPT ![w] = "probing"]
    /\ targetChan' = Tail(targetChan)
    /\ place' = Moved(Head(targetChan), "probed")
    /\ UNCHANGED <<consumer, targetClosed, resultChan, resultClosed,
                   publisherVars, shutdownVars>>

Report(w) ==
    /\ Alive /\ worker[w] = "probing"
    /\ Len(resultChan) < Capacity
    /\ resultChan' = Append(resultChan, probed[w])
    /\ probed' = [probed EXCEPT ![w] = None]
    /\ worker' = [worker EXCEPT ![w] = "ranging"]
    /\ place' = Moved(probed[w], "reported")
    /\ UNCHANGED <<consumer, targetChan, targetClosed, resultClosed,
                   publisherVars, shutdownVars>>

WorkerEnds(w) ==
    /\ Alive /\ worker[w] = "ranging"
    /\ targetClosed /\ targetChan = <<>>
    /\ worker' = [worker EXCEPT ![w] = "done"]
    /\ UNCHANGED <<place, consumer, targetChan, targetClosed, probed,
                   resultChan, resultClosed, publisherVars, shutdownVars>>

-------------------------------------------------------------------------------
(* The publisher.                                                          *)

FirstResult ==
    /\ Alive /\ publisher = "waiting"
    /\ resultChan # <<>>
    /\ place' = Moved(Head(resultChan), "batched")
    /\ resultChan' = Tail(resultChan)
    /\ publisher' = "collecting"
    /\ UNCHANGED <<consumer, targetChan, targetClosed, workerVars,
                   resultClosed, sawClosed, shutdownVars>>

\* Mutant: the publisher stops with the consumer's context.
PublisherEndsOnCancel ==
    /\ Alive /\ publisher = "waiting"
    /\ cancelled
    /\ publisher' = "done"
    /\ UNCHANGED <<place, consumer, targetChan, targetClosed, workerVars,
                   resultChan, resultClosed, sawClosed, shutdownVars>>

PublisherEnds ==
    /\ Alive /\ publisher = "waiting"
    /\ resultClosed /\ resultChan = <<>>
    /\ publisher' = "done"
    /\ UNCHANGED <<place, consumer, targetChan, targetClosed, workerVars,
                   resultChan, resultClosed, sawClosed, shutdownVars>>

Collect ==
    /\ Alive /\ publisher = "collecting"
    /\ Cardinality(Batch) < BatchSize
    /\ resultChan # <<>>
    /\ place' = Moved(Head(resultChan), "batched")
    /\ resultChan' = Tail(resultChan)
    /\ UNCHANGED <<consumer, targetChan, targetClosed, workerVars,
                   resultClosed, publisher, sawClosed, shutdownVars>>

\* Mutant: the publisher returns at once, with a batch unwritten.
CollectClosedReturns ==
    /\ Alive /\ publisher = "collecting"
    /\ Cardinality(Batch) < BatchSize
    /\ resultClosed /\ resultChan = <<>>
    /\ sawClosed' = TRUE
    /\ publisher' = "done"
    /\ UNCHANGED <<place, consumer, targetChan, targetClosed, workerVars,
                   resultChan, resultClosed, shutdownVars>>

CollectClosed ==
    /\ Alive /\ publisher = "collecting"
    /\ Cardinality(Batch) < BatchSize
    /\ resultClosed /\ resultChan = <<>>
    /\ sawClosed' = TRUE
    /\ publisher' = "writing"
    /\ UNCHANGED <<place, consumer, targetChan, targetClosed, workerVars,
                   resultChan, resultClosed, shutdownVars>>

\* The batch is full, or metricsBatchTimeout has passed.
EndBatch ==
    /\ Alive /\ publisher = "collecting"
    /\ publisher' = "writing"
    /\ UNCHANGED <<place, consumer, targetChan, targetClosed, workerVars,
                   resultChan, resultClosed, sawClosed, shutdownVars>>

\* WriteMessages returns; after an error any part of the batch may be stored,
\* and the rest is only logged.
Write(stored) ==
    /\ Alive /\ publisher = "writing"
    /\ stored \subseteq Batch
    /\ place' = [t \in Targets |-> IF t \in stored THEN "written"
                                   ELSE IF t \in Batch THEN "unwritten"
                                   ELSE place[t]]
    /\ publisher' = IF sawClosed THEN "done" ELSE "waiting"
    /\ UNCHANGED <<consumer, targetChan, targetClosed, workerVars, resultChan,
                   resultClosed, sawClosed, shutdownVars>>

-------------------------------------------------------------------------------
(* The shutdown.                                                           *)

Signal ==
    /\ Alive /\ main = "running"
    /\ main' = "stopping"
    /\ drain' = "cancel"
    /\ UNCHANGED <<place, consumer, targetChan, targetClosed, workerVars,
                   resultChan, resultClosed, publisherVars, cancelled>>

Cancel ==
    /\ Alive /\ drain = "cancel"
    /\ cancelled' = TRUE
    /\ drain' = "consumer"
    /\ UNCHANGED <<place, consumer, targetChan, targetClosed, workerVars,
                   resultChan, resultClosed, publisherVars, main>>

\* Mutant: the channel is closed without waiting for the consumer.
CloseTargetsEarly ==
    /\ Alive /\ drain = "consumer"
    /\ targetClosed' = TRUE
    /\ drain' = "workers"
    /\ UNCHANGED <<place, consumer, targetChan, workerVars, resultChan,
                   resultClosed, publisherVars, cancelled, main>>

\* <-consumerDone, then Drain closes TargetChan.
CloseTargets ==
    /\ Alive /\ drain = "consumer"
    /\ consumer = "done"
    /\ targetClosed' = TRUE
    /\ drain' = "workers"
    /\ UNCHANGED <<place, consumer, targetChan, workerVars, resultChan,
                   resultClosed, publisherVars, cancelled, main>>

\* Mutant: the channel is closed without waiting for the workers.
CloseResultsEarly ==
    /\ Alive /\ drain = "workers"
    /\ resultClosed' = TRUE
    /\ drain' = "publisher"
    /\ UNCHANGED <<place, consumer, targetChan, targetClosed, workerVars,
                   resultChan, publisherVars, cancelled, main>>

\* wg.Wait, then Drain closes ResultChan.
CloseResults ==
    /\ Alive /\ drain = "workers"
    /\ \A w \in Workers : worker[w] = "done"
    /\ resultClosed' = TRUE
    /\ drain' = "publisher"
    /\ UNCHANGED <<place, consumer, targetChan, targetClosed, workerVars,
                   resultChan, publisherVars, cancelled, main>>

\* <-publisherDone.
Complete ==
    /\ Alive /\ drain = "publisher"
    /\ publisher = "done"
    /\ drain' = "complete"
    /\ UNCHANGED <<place, consumer, targetChan, targetClosed, workerVars,
                   resultChan, resultClosed, publisherVars, cancelled, main>>

\* main returns to its select: the drain is complete,
SeeComplete ==
    /\ Alive /\ main = "stopping"
    /\ drain = "complete"
    /\ main' = "closing"
    /\ UNCHANGED <<place, consumer, targetChan, targetClosed, workerVars,
                   resultChan, resultClosed, publisherVars, cancelled, drain>>

\* or shutdownTimeout has passed.
TimeOut ==
    /\ Alive /\ main = "stopping"
    /\ main' = "closing"
    /\ UNCHANGED <<place, consumer, targetChan, targetClosed, workerVars,
                   resultChan, resultClosed, publisherVars, cancelled, drain>>

\* The writer and the reader are closed and main returns.
Exit ==
    /\ Alive /\ main = "closing"
    /\ main' = "exited"
    /\ UNCHANGED <<place, consumer, targetChan, targetClosed, workerVars,
                   resultChan, resultClosed, publisherVars, cancelled, drain>>

Exited == ~Alive /\ UNCHANGED vars

Consumer ==
    \/ \E t \in Targets :
        \/ Read(t)
        \/ ReadCorrupted(t)
        \/ HandOver(t)
        \/ HandOverCancelled(t)
    \/ ReadCancelled

Worker(w) == Receive(w) \/ Report(w) \/ WorkerEnds(w)

Publisher ==
    \/ FirstResult
    \/ PublisherEnds
    \/ Collect
    \/ CollectClosed
    \/ EndBatch
    \/ \E stored \in SUBSET Batch : Write(stored)

Shutdown == Cancel \/ CloseTargets \/ CloseResults \/ Complete

Next ==
    \/ Consumer
    \/ \E w \in Workers : Worker(w)
    \/ Publisher
    \/ Signal
    \/ Shutdown
    \/ SeeComplete
    \/ TimeOut
    \/ Exit
    \/ Exited

Safety == Init /\ [][Next]_vars

\* A goroutine that can move does.  The broker need not deliver, nobody need
\* send a signal, and the deadline need not pass.
Fairness ==
    /\ WF_vars(ReadCancelled)
    /\ WF_vars(\E t \in Targets : HandOver(t) \/ HandOverCancelled(t))
    /\ \A w \in Workers : WF_vars(Worker(w))
    /\ WF_vars(Publisher)
    /\ WF_vars(Shutdown)
    /\ WF_vars(SeeComplete)
    /\ WF_vars(Exit)

Spec == Safety /\ Fairness

-------------------------------------------------------------------------------
(* Properties.                                                             *)

\* Sending on a closed channel panics.  Drain may close TargetChan only once
\* the consumer is done (main.go:193, 144-146), and ResultChan only once no
\* worker holds a result.
NoSendOnClosed ==
    /\ targetClosed => consumer = "done"
    /\ resultClosed => \A w \in Workers : worker[w] = "done"

\* Drain's promise (dispatcher.go:38-43): when the shutdown is complete, every
\* target the pool had accepted has been probed and its result offered to
\* Kafka; nothing waits in a channel, in a worker or in a batch.
CompleteDrainLeavesNothing ==
    drain = "complete" =>
        \A t \in Targets : place[t] \in {"topic", "dropped", "written", "unwritten"}

\* The shutdown needs no deadline to end, however full the channels are when
\* the signal comes: no goroutine waits for one that waits for it.
ShutdownEnds == drain = "cancel" ~> main = "exited"

\* What the place of a target means to the rest of the system.
stateAt(p) ==
    CASE p = "topic" -> "offered"
      [] p = "written" -> "answered"
      [] p \in {"unwritten", "dropped"} -> "lost"
      [] OTHER -> "taken"

C == INSTANCE EngineContract WITH
        state <- [t \in Targets |-> stateAt(place[t])],
        engine <- IF drain = "complete" THEN "drained"
                  ELSE IF main = "exited" THEN "cut"
                  ELSE "running"

\* The engine keeps its contract: each target it takes is settled once, is not
\* forgotten while the engine runs, and a drained engine holds none.
ImplementsContract == C!Contract

===============================================================================

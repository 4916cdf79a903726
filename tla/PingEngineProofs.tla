--------------------------- MODULE PingEngineProofs ---------------------------
(***************************************************************************)
(* The shutdown discipline of PingEngine, for every number of targets and  *)
(* workers and every capacity and batch size: no goroutine sends on a      *)
(* closed channel, a complete drain leaves nothing behind, and every step  *)
(* is one the engine's contract allows.                                    *)
(*                                                                         *)
(* The induction needs to know that a channel lists exactly the targets    *)
(* placed in it, each once, and that a worker that is done saw the channel *)
(* closed and empty.                                                       *)
(***************************************************************************)
EXTENDS PingEngine, TLAPS

Lists(s, f, p) ==
    /\ \A i \in 1..Len(s) : f[s[i]] = p
    /\ \A i, j \in 1..Len(s) : s[i] = s[j] => i = j
    /\ \A t \in Targets : f[t] = p => \E i \in 1..Len(s) : s[i] = t

\* Sending puts a target into a channel that did not list it.
LEMMA SendLists ==
    ASSUME NEW s \in Seq(Targets), NEW t \in Targets, NEW f \in [Targets -> Places],
           NEW p \in Places, f[t] # p, Lists(s, f, p)
    PROVE  Lists(Append(s, t), [f EXCEPT ![t] = p], p)
<1> DEFINE s2 == Append(s, t)
           f2 == [f EXCEPT ![t] = p]
<1>1. /\ Len(s2) = Len(s) + 1
      /\ \A i \in 1..Len(s) : s2[i] = s[i]
      /\ s2[Len(s) + 1] = t
      /\ Len(s) \in Nat
  OBVIOUS
<1>2. \A i \in 1..Len(s) : s[i] \in Targets /\ s[i] # t
  BY DEF Lists
<1> HIDE DEF s2
<1>3. \A i \in 1..Len(s2) : f2[s2[i]] = p
  BY <1>1, <1>2 DEF Lists
<1>4. \A i, j \in 1..Len(s2) : s2[i] = s2[j] => i = j
  BY <1>1, <1>2 DEF Lists
<1>5. \A u \in Targets : f2[u] = p => \E i \in 1..Len(s2) : s2[i] = u
  <2> SUFFICES ASSUME NEW u \in Targets, f2[u] = p
               PROVE  \E i \in 1..Len(s2) : s2[i] = u
    OBVIOUS
  <2>1. CASE u = t
    BY <2>1, <1>1
  <2>2. CASE u # t
    BY <2>2, <1>1 DEF Lists
  <2> QED BY <2>1, <2>2
<1> QED BY <1>3, <1>4, <1>5 DEF Lists, s2

\* Receiving takes out the one occurrence of the channel's head.
LEMMA ReceiveLists ==
    ASSUME NEW s \in Seq(Targets), s # <<>>, NEW f \in [Targets -> Places],
           NEW p \in Places, NEW q \in Places, q # p, Lists(s, f, p)
    PROVE  Lists(Tail(s), [f EXCEPT ![Head(s)] = q], p)
<1> DEFINE s2 == Tail(s)
           f2 == [f EXCEPT ![Head(s)] = q]
<1>1. /\ Len(s2) = Len(s) - 1
      /\ Len(s) \in Nat \ {0}
      /\ \A i \in 1..Len(s2) : s2[i] = s[i + 1]
      /\ Head(s) = s[1]
      /\ Head(s) \in Targets
  OBVIOUS
<1>2. \A i \in 1..Len(s) : s[i] \in Targets
  OBVIOUS
<1> HIDE DEF s2
<1>3. \A i \in 1..Len(s2) : s2[i] # s[1] /\ s2[i] \in Targets
  <2> SUFFICES ASSUME NEW i \in 1..Len(s2) PROVE s2[i] # s[1] /\ s2[i] \in Targets
    OBVIOUS
  <2>1. i + 1 \in 1..Len(s) /\ 1 \in 1..Len(s) /\ i + 1 # 1 /\ s2[i] = s[i + 1]
    BY <1>1
  <2> QED BY <2>1, <1>2 DEF Lists
<1>4. \A i \in 1..Len(s2) : f2[s2[i]] = p
  BY <1>1, <1>3 DEF Lists
<1>5. \A i, j \in 1..Len(s2) : s2[i] = s2[j] => i = j
  BY <1>1 DEF Lists
<1>6. \A u \in Targets : f2[u] = p => \E i \in 1..Len(s2) : s2[i] = u
  <2> SUFFICES ASSUME NEW u \in Targets, f2[u] = p
               PROVE  \E i \in 1..Len(s2) : s2[i] = u
    OBVIOUS
  <2>1. u # s[1] /\ f[u] = p
    BY <1>1
  <2>2. PICK i \in 1..Len(s) : s[i] = u
    BY <2>1 DEF Lists
  <2>3. i - 1 \in 1..Len(s2) /\ s2[i - 1] = u
    BY <2>1, <2>2, <1>1
  <2> QED BY <2>3
<1> QED BY <1>4, <1>5, <1>6 DEF Lists, s2

\* A move between two other places does not concern the channel.
LEMMA OthersList ==
    ASSUME NEW s \in Seq(Targets), NEW f \in [Targets -> Places], NEW t \in Targets,
           NEW p \in Places, NEW q \in Places, q # p, f[t] # p, Lists(s, f, p)
    PROVE  Lists(s, [f EXCEPT ![t] = q], p)
<1>1. \A i \in 1..Len(s) : s[i] \in Targets /\ s[i] # t
  BY DEF Lists
<1> QED BY <1>1 DEF Lists

-------------------------------------------------------------------------------
(* The inductive invariant.                                                *)

\* A closed channel has no sender left, and each step of the shutdown has
\* happened once the shutdown goroutine is past it.
Closing ==
    /\ main = "running" => drain = "unstarted"
    /\ targetClosed <=> drain \in {"workers", "publisher", "complete"}
    /\ resultClosed <=> drain \in {"publisher", "complete"}
    /\ drain = "complete" => publisher = "done"

\* Who is done saw its channel closed and empty.
Ends ==
    /\ \A w \in Workers : worker[w] = "done" => targetClosed /\ targetChan = <<>>
    /\ sawClosed \/ publisher = "done" => resultClosed /\ resultChan = <<>>

\* A target is where its place says it is, and nowhere else.
Held ==
    /\ consumer # "handing" => At("held") = {}
    /\ \A t, u \in At("held") : t = u

Probed ==
    /\ \A w \in Workers : worker[w] = "probing" =>
           probed[w] \in Targets /\ place[probed[w]] = "probed"
    /\ \A w, x \in Workers :
           worker[w] = "probing" /\ worker[x] = "probing" /\ probed[w] = probed[x] => w = x
    /\ \A t \in At("probed") : \E w \in Workers : worker[w] = "probing" /\ probed[w] = t

Batched == publisher \in {"waiting", "done"} => Batch = {}

Placed ==
    /\ Held
    /\ Lists(targetChan, place, "queued")
    /\ Probed
    /\ Lists(resultChan, place, "reported")
    /\ Batched

Inv == TypeOK /\ NoSendOnClosed /\ Closing /\ Ends /\ Placed

LEMMA InitInv == Init => Inv
<1> SUFFICES ASSUME Init PROVE Inv
  OBVIOUS
<1>1. TypeOK
  <2>1. <<>> \in Seq(Targets) /\ Len(<<>>) = 0 /\ 0 <= Capacity
    BY CapacityAssumption
  <2>2. place \in [Targets -> Places]
    BY DEF Init, Places
  <2> QED BY <2>1, <2>2 DEF Init, TypeOK
<1>2. \A p \in Places : p # "topic" => At(p) = {}
  BY DEF Init, At
<1>3. Lists(<<>>, place, "queued") /\ Lists(<<>>, place, "reported")
  BY <1>2 DEF Lists, Places, At
<1>4. Held /\ Probed /\ Batched
  BY <1>2 DEF Init, Held, Probed, Batched, Batch, Places
<1>5. NoSendOnClosed /\ Closing /\ Ends
  BY DEF Init, NoSendOnClosed, Closing, Ends
<1> QED BY <1>1, <1>3, <1>4, <1>5 DEF Inv, Placed, Init

LEMMA ConsumerInv == Inv /\ Consumer => Inv'
<1> SUFFICES ASSUME Inv, Consumer PROVE Inv'
  OBVIOUS
<1> USE CapacityAssumption DEF Inv, TypeOK, workerVars, publisherVars, shutdownVars, Moved
<1>0. {"topic", "held", "queued", "dropped", "reported"} \subseteq Places
  BY DEF Places
<1>1. ASSUME NEW t \in Targets, Read(t) PROVE Inv'
  <2>1. TypeOK' /\ NoSendOnClosed' /\ Closing' /\ Ends'
    BY <1>0, <1>1 DEF Read, NoSendOnClosed, Closing, Ends
  <2>2. Lists(targetChan, place', "queued") /\ Lists(resultChan, place', "reported")
    BY <1>0, <1>1, OthersList DEF Read, Placed
  <2>3. Held' /\ Probed' /\ Batched'
    BY <1>0, <1>1 DEF Read, Placed, Held, Probed, Batched, Batch, At
  <2> QED BY <1>1, <2>1, <2>2, <2>3 DEF Read, Placed
<1>2. ASSUME NEW t \in Targets, place[t] \in {"topic", "held"},
             place' = Moved(t, "dropped"),
             \/ consumer = "reading" /\ consumer' \in {"reading", "done"}
             \/ consumer = "handing" /\ place[t] = "held" /\ consumer' = "done",
             UNCHANGED <<targetChan, targetClosed, workerVars, resultChan,
                         resultClosed, publisherVars, shutdownVars>>,
             targetClosed => consumer' = "done"
      PROVE  Inv'
  <2>1. TypeOK' /\ NoSendOnClosed' /\ Closing' /\ Ends'
    BY <1>0, <1>2 DEF NoSendOnClosed, Closing, Ends
  <2>2. Lists(targetChan, place', "queued") /\ Lists(resultChan, place', "reported")
    BY <1>0, <1>2, OthersList DEF Placed
  <2>3. Held' /\ Probed' /\ Batched'
    BY <1>0, <1>2 DEF Placed, Held, Probed, Batched, Batch, At
  <2> QED BY <1>2, <2>1, <2>2, <2>3 DEF Placed
<1>3. ASSUME NEW t \in Targets, ReadCorrupted(t) PROVE Inv'
  BY <1>2, <1>3 DEF ReadCorrupted, NoSendOnClosed
<1>4. ASSUME NEW t \in Targets, HandOverCancelled(t) PROVE Inv'
  BY <1>2, <1>4 DEF HandOverCancelled, NoSendOnClosed
<1>5. CASE ReadCancelled
  <2>1. CASE \E t \in At("topic") : place' = Moved(t, "dropped")
    BY <1>2, <1>5, <2>1 DEF ReadCancelled, At
  <2>2. CASE UNCHANGED place
    BY <1>5, <2>2 DEF ReadCancelled, NoSendOnClosed, Closing, Ends, Placed, Held,
                      Probed, Batched, Batch, At, Lists
  <2> QED BY <1>5, <2>1, <2>2 DEF ReadCancelled
<1>6. ASSUME NEW t \in Targets, HandOver(t) PROVE Inv'
  <2>1. Lists(targetChan', place', "queued")
    BY <1>0, <1>6, SendLists DEF HandOver, Placed
  <2>2. Lists(resultChan, place', "reported")
    BY <1>0, <1>6, OthersList DEF HandOver, Placed
  <2>3. TypeOK'
    BY <1>0, <1>6 DEF HandOver
  <2>4. NoSendOnClosed' /\ Closing' /\ Ends'
    BY <1>6 DEF HandOver, NoSendOnClosed, Closing, Ends
  <2>5. Held' /\ Probed' /\ Batched'
    BY <1>0, <1>6 DEF HandOver, Placed, Held, Probed, Batched, Batch, At
  <2> QED BY <1>6, <2>1, <2>2, <2>3, <2>4, <2>5 DEF HandOver, Placed
<1> QED BY <1>1, <1>3, <1>4, <1>5, <1>6 DEF Consumer

LEMMA WorkerInv == ASSUME NEW w \in Workers PROVE Inv /\ Worker(w) => Inv'
<1> SUFFICES ASSUME Inv, Worker(w) PROVE Inv'
  OBVIOUS
<1> USE CapacityAssumption DEF Inv, TypeOK, publisherVars, shutdownVars, Moved
<1>0. {"queued", "probed", "reported"} \subseteq Places
  BY DEF Places
<1>1. CASE Receive(w)
  <2>1. Head(targetChan) \in Targets /\ place[Head(targetChan)] = "queued"
    <3>1. 1 \in 1..Len(targetChan) /\ Head(targetChan) = targetChan[1]
      BY <1>1 DEF Receive
    <3> QED BY <3>1 DEF Placed, Lists
  <2>2. Lists(targetChan', place', "queued")
    BY <1>0, <1>1, ReceiveLists DEF Receive, Placed
  <2>3. Lists(resultChan, place', "reported")
    BY <1>0, <1>1, <2>1, OthersList DEF Receive, Placed
  <2>4. TypeOK'
    BY <1>0, <1>1, <2>1 DEF Receive
  <2>5. NoSendOnClosed' /\ Closing' /\ Ends'
    BY <1>1 DEF Receive, NoSendOnClosed, Closing, Ends
  <2>6. Held' /\ Batched'
    BY <1>0, <1>1, <2>1 DEF Receive, Placed, Held, Batched, Batch, At
  <2>7. Probed'
    BY <1>0, <1>1, <2>1 DEF Receive, Placed, Probed, At
  <2> QED BY <1>1, <2>2, <2>3, <2>4, <2>5, <2>6, <2>7 DEF Receive, Placed
<1>2. CASE Report(w)
  <2>1. probed[w] \in Targets /\ place[probed[w]] = "probed"
    BY <1>2 DEF Report, Placed, Probed
  <2>2. Lists(targetChan, place', "queued")
    BY <1>0, <1>2, <2>1, OthersList DEF Report, Placed
  <2>3. Lists(resultChan', place', "reported")
    BY <1>0, <1>2, <2>1, SendLists DEF Report, Placed
  <2>4. TypeOK'
    BY <1>0, <1>2, <2>1 DEF Report
  <2>5. ~resultClosed
    BY <1>2 DEF Report, NoSendOnClosed
  <2>6. NoSendOnClosed' /\ Closing' /\ Ends'
    BY <1>2, <2>5 DEF Report, NoSendOnClosed, Closing, Ends
  <2>7. Held' /\ Batched'
    BY <1>0, <1>2, <2>1 DEF Report, Placed, Held, Batched, Batch, At
  <2>8. Probed'
    BY <1>0, <1>2, <2>1 DEF Report, Placed, Probed, At
  <2> QED BY <1>2, <2>2, <2>3, <2>4, <2>6, <2>7, <2>8 DEF Report, Placed
<1>3. CASE WorkerEnds(w)
  <2>1. TypeOK' /\ NoSendOnClosed' /\ Closing' /\ Ends'
    BY <1>3 DEF WorkerEnds, NoSendOnClosed, Closing, Ends
  <2>2. Probed'
    BY <1>3 DEF WorkerEnds, Placed, Probed, At
  <2> QED BY <1>3, <2>1, <2>2 DEF WorkerEnds, Placed, Held, Batched, Batch, At, Lists
<1> QED BY <1>1, <1>2, <1>3 DEF Worker

\* Taking a result into the batch, the first one or a later one.
LEMMA BatchGrows ==
    ASSUME Inv, resultChan # <<>>, publisher \in {"waiting", "collecting"},
           place' = Moved(Head(resultChan), "batched"),
           resultChan' = Tail(resultChan), publisher' = "collecting",
           UNCHANGED <<consumer, targetChan, targetClosed, workerVars, resultClosed,
                       sawClosed, shutdownVars>>
    PROVE  Inv'
<1> USE CapacityAssumption DEF Inv, TypeOK, workerVars, shutdownVars, Moved
<1>0. {"queued", "batched", "reported"} \subseteq Places
  BY DEF Places
<1>1. Head(resultChan) \in Targets /\ place[Head(resultChan)] = "reported"
  <2>1. 1 \in 1..Len(resultChan) /\ Head(resultChan) = resultChan[1]
    OBVIOUS
  <2> QED BY <2>1 DEF Placed, Lists
<1>2. Lists(resultChan', place', "reported")
  BY <1>0, ReceiveLists DEF Placed
<1>3. Lists(targetChan, place', "queued")
  BY <1>0, <1>1, OthersList DEF Placed
<1>4. TypeOK'
  BY <1>0, <1>1
<1>5. NoSendOnClosed' /\ Closing' /\ Ends'
  BY DEF NoSendOnClosed, Closing, Ends
<1>6. Held' /\ Probed' /\ Batched'
  BY <1>0, <1>1 DEF Placed, Held, Probed, Batched, At
<1> QED BY <1>2, <1>3, <1>4, <1>5, <1>6 DEF Placed

LEMMA PublisherInv == Inv /\ Publisher => Inv'
<1> SUFFICES ASSUME Inv, Publisher PROVE Inv'
  OBVIOUS
<1> USE CapacityAssumption DEF Inv, TypeOK, workerVars, shutdownVars
<1>1. CASE FirstResult
  BY <1>1, BatchGrows DEF FirstResult
<1>2. CASE Collect
  BY <1>2, BatchGrows DEF Collect
<1>3. CASE PublisherEnds
  <2> USE <1>3 DEF PublisherEnds
  <2>1. TypeOK'
    OBVIOUS
  <2>2. NoSendOnClosed' /\ Closing' /\ Ends'
    BY DEF NoSendOnClosed, Closing, Ends
  <2>3. Held' /\ Probed' /\ Batched'
    BY DEF Placed, Held, Probed, Batched, Batch, At
  <2> QED BY <2>1, <2>2, <2>3 DEF Placed, Lists
<1>4. CASE CollectClosed
  <2> USE <1>4 DEF CollectClosed
  <2>1. TypeOK'
    OBVIOUS
  <2>2. NoSendOnClosed' /\ Closing' /\ Ends'
    BY DEF NoSendOnClosed, Closing, Ends
  <2>3. Held' /\ Probed' /\ Batched'
    BY DEF Placed, Held, Probed, Batched, Batch, At
  <2> QED BY <2>1, <2>2, <2>3 DEF Placed, Lists
<1>5. CASE EndBatch
  <2> USE <1>5 DEF EndBatch
  <2>1. TypeOK'
    OBVIOUS
  <2>2. NoSendOnClosed' /\ Closing' /\ Ends'
    BY DEF NoSendOnClosed, Closing, Ends
  <2>3. Held' /\ Probed' /\ Batched'
    BY DEF Placed, Held, Probed, Batched, Batch, At
  <2> QED BY <2>1, <2>2, <2>3 DEF Placed, Lists
<1>6. ASSUME NEW stored \in SUBSET Batch, Write(stored) PROVE Inv'
  <2>1. place' \in [Targets -> Places]
    BY <1>6 DEF Write, Places
  <2>2. \A t \in Targets, p \in {"topic", "held", "queued", "probed", "reported"} :
            place'[t] = p <=> place[t] = p
    BY <1>6 DEF Write, Batch, At
  <2>3. Batch' = {}
    BY <1>6 DEF Write, Batch, At
  <2>4. Lists(targetChan, place', "queued")
    BY <1>6, <2>2 DEF Placed, Lists
  <2>5. Lists(resultChan, place', "reported")
    BY <1>6, <2>2 DEF Placed, Lists
  <2>6. TypeOK' /\ NoSendOnClosed' /\ Closing' /\ Ends'
    BY <1>6, <2>1 DEF Write, NoSendOnClosed, Closing, Ends
  <2>7. Held' /\ Probed' /\ Batched'
    BY <1>6, <2>2, <2>3 DEF Write, Placed, Held, Probed, Batched, At
  <2> QED BY <1>6, <2>4, <2>5, <2>6, <2>7 DEF Write, Placed
<1> QED BY <1>1, <1>2, <1>3, <1>4, <1>5, <1>6 DEF Publisher

LEMMA ShutdownInv ==
    Inv /\ (Signal \/ Shutdown \/ SeeComplete \/ TimeOut \/ Exit \/ UNCHANGED vars) => Inv'
<1> SUFFICES ASSUME Inv, Signal \/ Shutdown \/ SeeComplete \/ TimeOut \/ Exit \/ UNCHANGED vars
             PROVE  Inv'
  OBVIOUS
<1> USE DEF Inv, TypeOK, workerVars, publisherVars, shutdownVars
<1>1. UNCHANGED <<place, consumer, targetChan, resultChan, workerVars, publisherVars>>
  BY DEF Signal, Shutdown, Cancel, CloseTargets, CloseResults, Complete, SeeComplete,
         TimeOut, Exit, vars
<1>2. Placed'
  BY <1>1 DEF Placed, Held, Probed, Batched, Batch, At, Lists
<1>3. CASE Signal
  <2>1. TypeOK'
    BY <1>3 DEF Signal
  <2> QED BY <1>2, <1>3, <2>1 DEF Signal, NoSendOnClosed, Closing, Ends
<1>4. CASE Shutdown
  <2>1. TypeOK'
    BY <1>4 DEF Shutdown, Cancel, CloseTargets, CloseResults, Complete
  <2>2. NoSendOnClosed'
    BY <1>4 DEF Shutdown, Cancel, CloseTargets, CloseResults, Complete, NoSendOnClosed
  <2>3. Closing'
    BY <1>4 DEF Shutdown, Cancel, CloseTargets, CloseResults, Complete, Closing
  <2>4. Ends'
    BY <1>4 DEF Shutdown, Cancel, CloseTargets, CloseResults, Complete, Ends
  <2> QED BY <1>2, <2>1, <2>2, <2>3, <2>4
<1>5. CASE SeeComplete \/ TimeOut \/ Exit
  BY <1>2, <1>5 DEF SeeComplete, TimeOut, Exit, NoSendOnClosed, Closing, Ends
<1>6. CASE UNCHANGED vars
  BY <1>2, <1>6 DEF vars, NoSendOnClosed, Closing, Ends
<1> QED BY <1>3, <1>4, <1>5, <1>6

LEMMA NextInv == Inv /\ [Next]_vars => Inv'
BY ConsumerInv, WorkerInv, PublisherInv, ShutdownInv DEF Next, Exited

THEOREM Invariant == Safety => []Inv
<1>1. Init => Inv
  BY InitInv
<1>2. Inv /\ [Next]_vars => Inv'
  BY NextInv
<1> QED BY <1>1, <1>2, PTL DEF Safety

-------------------------------------------------------------------------------
(* What follows.                                                           *)

\* Every variable keeps to its values; the channels to their capacity.
THEOREM TypeCorrect == Safety => []TypeOK
BY Invariant, PTL DEF Inv

\* Neither channel is ever closed while a goroutine may still send on it.
THEOREM NeverSendsOnClosed == Safety => []NoSendOnClosed
BY Invariant, PTL DEF Inv

\* Once the results are closed and the publisher is done, nothing is held.
LEMMA EndedIsEmpty ==
    ASSUME Inv, resultClosed, publisher = "done", NEW t \in Targets
    PROVE  place[t] \in {"topic", "dropped", "written", "unwritten"}
<1> USE DEF Inv
<1>1. /\ targetClosed /\ consumer = "done" /\ resultChan = <<>>
      /\ \A w \in Workers : worker[w] = "done"
  BY DEF Closing, NoSendOnClosed, Ends
<1>2. targetChan = <<>>
  BY <1>1, WorkersAssumption DEF Ends
<1>3. place[t] # "queued" /\ place[t] # "reported"
  BY <1>1, <1>2 DEF Placed, Lists
<1>4. place[t] # "held" /\ place[t] # "probed" /\ place[t] # "batched"
  BY <1>1 DEF Placed, Held, Probed, Batched, Batch, At
<1> QED BY <1>3, <1>4 DEF TypeOK, Places

\* A shutdown that completes has put every accepted target through a probe and
\* a write.
THEOREM CompleteDrainIsClean == Safety => []CompleteDrainLeavesNothing
<1>1. Inv => CompleteDrainLeavesNothing
  BY EndedIsEmpty DEF CompleteDrainLeavesNothing, Inv, Closing
<1> QED BY <1>1, Invariant, PTL

-------------------------------------------------------------------------------
(* The engine implements its contract.                                     *)

LEMMA States ==
    /\ stateAt("topic") = "offered"
    /\ stateAt("written") = "answered"
    /\ stateAt("unwritten") = "lost" /\ stateAt("dropped") = "lost"
    /\ \A p \in {"held", "queued", "probed", "reported", "batched"} : stateAt(p) = "taken"
BY DEF stateAt

LEMMA InitContract == Init => C!Init
BY States DEF Init, C!Init

\* A step that moves a target between two of the places where it is "taken".
LEMMA MoveInside ==
    ASSUME TypeOK, NEW t \in Targets, NEW p \in Places, place' = Moved(t, p),
           stateAt(place[t]) = stateAt(p), UNCHANGED <<drain, main>>
    PROVE  UNCHANGED C!contractVars
<1>1. \A u \in Targets : stateAt(place'[u]) = stateAt(place[u])
  BY DEF Moved, TypeOK
<1> QED BY <1>1 DEF C!contractVars

LEMMA ConsumerContract == Inv /\ Consumer => [C!Next]_(C!contractVars)
<1> SUFFICES ASSUME Inv, Consumer PROVE C!Next \/ UNCHANGED C!contractVars
  OBVIOUS
<1> USE DEF Inv, TypeOK, workerVars, publisherVars, shutdownVars, Moved, Places, C!Next
<1>1. /\ main # "exited" /\ drain # "complete"
      /\ UNCHANGED <<drain, main>>
  BY DEF Consumer, Read, ReadCorrupted, ReadCancelled, HandOver, HandOverCancelled,
         Alive, NoSendOnClosed, Closing
<1>2. ASSUME NEW t \in Targets, Read(t) PROVE C!Take(t)
  BY <1>1, <1>2, States DEF Read, C!Take
<1>3. ASSUME NEW t \in Targets, place[t] = "topic", place' = Moved(t, "dropped")
      PROVE  C!Refuse(t)
  BY <1>1, <1>3, States DEF C!Refuse
<1>4. ASSUME NEW t \in Targets, HandOver(t) PROVE UNCHANGED C!contractVars
  BY <1>1, <1>4, States, MoveInside DEF HandOver
<1>5. ASSUME NEW t \in Targets, HandOverCancelled(t) PROVE C!Settle({t}, {})
  BY <1>1, <1>5, States DEF HandOverCancelled, C!Settle, C!Taken
<1>6. ASSUME NEW t \in Targets, HandOverCancelled(t) PROVE C!Next
  <2>1. {t} \subseteq C!Taken
    BY <1>5, <1>6 DEF C!Settle
  <2> QED BY <1>5, <1>6, <2>1
<1>7. CASE ReadCancelled
  BY <1>1, <1>3, <1>7 DEF ReadCancelled, At, C!contractVars
<1> QED BY <1>2, <1>3, <1>4, <1>6, <1>7 DEF Consumer, ReadCorrupted

LEMMA WorkerContract ==
    ASSUME NEW w \in Workers, Inv, Worker(w) PROVE UNCHANGED C!contractVars
<1> USE DEF Inv, workerVars, publisherVars, shutdownVars
<1>1. CASE Receive(w)
  <2>1. 1 \in 1..Len(targetChan) /\ Head(targetChan) = targetChan[1]
    BY <1>1 DEF Receive, TypeOK
  <2>2. Head(targetChan) \in Targets /\ place[Head(targetChan)] = "queued"
    BY <2>1 DEF Placed, Lists, TypeOK
  <2> QED BY <1>1, <2>2, States, MoveInside DEF Receive, Places
<1>2. CASE Report(w)
  <2>1. probed[w] \in Targets /\ place[probed[w]] = "probed"
    BY <1>2 DEF Report, Placed, Probed
  <2> QED BY <1>2, <2>1, States, MoveInside DEF Report, Places
<1>3. CASE WorkerEnds(w)
  BY <1>3 DEF WorkerEnds, C!contractVars
<1> QED BY <1>1, <1>2, <1>3 DEF Worker

LEMMA PublisherContract == Inv /\ Publisher => [C!Next]_(C!contractVars)
<1> SUFFICES ASSUME Inv, Publisher PROVE C!Next \/ UNCHANGED C!contractVars
  OBVIOUS
<1> USE DEF Inv, workerVars, shutdownVars
<1>1. CASE FirstResult \/ Collect
  <2>1. 1 \in 1..Len(resultChan) /\ Head(resultChan) = resultChan[1]
    BY <1>1 DEF FirstResult, Collect, TypeOK
  <2>2. Head(resultChan) \in Targets /\ place[Head(resultChan)] = "reported"
    BY <2>1 DEF Placed, Lists, TypeOK
  <2> QED BY <1>1, <2>2, States, MoveInside DEF FirstResult, Collect, Places
<1>2. CASE PublisherEnds \/ CollectClosed \/ EndBatch
  BY <1>2 DEF PublisherEnds, CollectClosed, EndBatch, C!contractVars
<1>3. ASSUME NEW stored \in SUBSET Batch, Write(stored) PROVE C!Next
  <2>1. main # "exited" /\ drain # "complete" /\ UNCHANGED <<drain, main>>
    BY <1>3 DEF Write, Alive, Closing
  <2>2. Batch \subseteq C!Taken
    BY States DEF Batch, At, C!Taken
  <2>3. \A t \in Targets :
          stateAt(place'[t]) = IF t \in stored THEN "answered"
                               ELSE IF t \in Batch THEN "lost"
                               ELSE stateAt(place[t])
    BY <1>3, States DEF Write
  <2>4. C!Settle(Batch, stored)
    BY <1>3, <2>1, <2>2, <2>3 DEF C!Settle
  <2> QED BY <2>2, <2>4 DEF C!Next
<1> QED BY <1>1, <1>2, <1>3 DEF Publisher

LEMMA ShutdownContract ==
    Inv /\ (Signal \/ Shutdown \/ SeeComplete \/ TimeOut \/ Exit \/ UNCHANGED vars)
        => [C!Next]_(C!contractVars)
<1> SUFFICES ASSUME Inv,
                    Signal \/ Shutdown \/ SeeComplete \/ TimeOut \/ Exit \/ UNCHANGED vars
             PROVE  C!Next \/ UNCHANGED C!contractVars
  OBVIOUS
<1>1. UNCHANGED place
  BY DEF Signal, Shutdown, Cancel, CloseTargets, CloseResults, Complete, SeeComplete,
         TimeOut, Exit, vars
<1>2. CASE Complete
  <2>1. C!Taken = {}
    <3>1. \A t \in Targets : place[t] \in {"topic", "dropped", "written", "unwritten"}
      BY <1>2, EndedIsEmpty DEF Complete, Inv, Closing
    <3> QED BY <3>1, States DEF C!Taken
  <2>2. C!Drain
    BY <1>1, <1>2, <2>1 DEF Complete, Alive, C!Drain
  <2> QED BY <2>2 DEF C!Next
<1>3. CASE Exit
  BY <1>1, <1>3 DEF Exit, Alive, C!CutOff, C!Next, C!contractVars
<1>4. CASE Signal \/ Cancel \/ CloseTargets \/ CloseResults \/ SeeComplete \/ TimeOut \/ UNCHANGED vars
  BY <1>1, <1>4 DEF Signal, Cancel, CloseTargets, CloseResults, SeeComplete, TimeOut,
                    vars, shutdownVars, Alive, Inv, Closing, C!contractVars
<1> QED BY <1>2, <1>3, <1>4 DEF Shutdown

\* Every step of the engine is a step its contract allows, or none.
THEOREM ImplementsContractSafety == Safety => C!Safety
<1>1. Init => C!Init
  BY InitContract
<1>2. Inv /\ [Next]_vars => [C!Next]_(C!contractVars)
  BY ConsumerContract, WorkerContract, PublisherContract, ShutdownContract DEF Next, Exited
<1> QED BY <1>1, <1>2, Invariant, PTL DEF Safety, C!Safety
===============================================================================

-------------------------- MODULE Lifecycle_proofs --------------------------
(***************************************************************************)
(* Proofs about the exporter's queue and Run's shutdown, for any number of *)
(* requests and any queue depth.                                           *)
(***************************************************************************)
EXTENDS Lifecycle, SequenceTheorems, TLAPS

\* A span is open only while its handler runs.
OpenRuns == \A r \in Requests : span[r] = "open" => handler[r] = "running"

Exporting == worker \in {"export", "drainexport"}

\* A queued span is in the queue or in the worker's hands.
QueuedSomewhere ==
    \A r \in Requests : span[r] = "queued" =>
        \/ \E i \in DOMAIN queue : queue[i] = r
        \/ Exporting /\ tried[Len(tried)] = r

\* data.Shutdown drained the handlers, and none has started since.
DrainedIdle == drained => \A r \in Requests : handler[r] # "running"

\* Within the budget Run only goes on once the handlers are drained ...
InBudget == run \in {"ops", "tracer", "returned"} /\ ~ expired => drained

\* ... the tracer is stopped last ...
StopLast ==
    /\ stop => run \in {"tracer", "returned"}
    /\ worker \in {"drain", "drainexport", "done"} => stop

\* ... and a worker that is done left nothing behind.
DoneEmpty == worker = "done" /\ drained => queue = <<>>

WaitedFor == run = "returned" /\ ~ expired => worker = "done"

IInv ==
    /\ TypeOK /\ ExportedInOrder
    /\ OpenRuns /\ QueuedSomewhere /\ DrainedIdle /\ InBudget /\ StopLast
    /\ DoneEmpty /\ WaitedFor

-----------------------------------------------------------------------------
(* The queue *)

\* What Append does to a sequence.
LEMMA AppendFacts ==
    ASSUME NEW S, NEW s \in Seq(S), NEW x \in S
    PROVE  /\ Append(s, x) \in Seq(S)
           /\ Len(Append(s, x)) = Len(s) + 1
           /\ \A i \in DOMAIN s : i \in DOMAIN Append(s, x) /\ Append(s, x)[i] = s[i]
           /\ Len(s) + 1 \in DOMAIN Append(s, x)
           /\ Append(s, x)[Len(s) + 1] = x
OBVIOUS

\* A span that enters the queue comes after all that entered before.
LEMMA EnqueueKeepsOrder ==
    ASSUME NEW S, NEW s \in Seq(S), NEW t \in Seq(S), NEW x \in S
    PROVE  s \o Append(t, x) = Append(s \o t, x)
OBVIOUS

\* The oldest span of the queue is the next to be exported.
LEMMA TakeKeepsOrder ==
    ASSUME NEW S, NEW s \in Seq(S), NEW t \in Seq(S), t # <<>>
    PROVE  /\ Head(t) \in S /\ Tail(t) \in Seq(S)
           /\ Len(Tail(t)) = Len(t) - 1
           /\ Append(s, Head(t)) \o Tail(t) = s \o t
           /\ \A i \in DOMAIN t : t[i] = Head(t) \/ \E j \in DOMAIN Tail(t) : Tail(t)[j] = t[i]
<1>1. Head(t) \in S /\ Tail(t) \in Seq(S) /\ Len(Tail(t)) = Len(t) - 1
  OBVIOUS
<1>2. Append(s, Head(t)) \o Tail(t) = s \o t
  OBVIOUS
<1>3. ASSUME NEW i \in DOMAIN t, i # 1
      PROVE  i - 1 \in DOMAIN Tail(t) /\ Tail(t)[i - 1] = t[i]
  BY <1>3
<1>4. t[1] = Head(t)
  OBVIOUS
<1> QED BY <1>1, <1>2, <1>3, <1>4

-----------------------------------------------------------------------------
(* Requests *)

\* The initial state satisfies the invariant.
LEMMA InitIInv == Init => IInv
<1> SUFFICES ASSUME Init PROVE IInv
  OBVIOUS
<1>1. TypeOK
  <2>1. <<>> \in Seq(Requests) /\ Len(<<>>) = 0
    OBVIOUS
  <2>2. 0 <= QueueDepth
    BY LifecycleAssumption
  <2> QED BY <2>1, <2>2 DEF Init, TypeOK
<1>2. ExportedInOrder
  BY DEF Init, ExportedInOrder
<1> QED
  BY <1>1, <1>2 DEF Init, IInv, OpenRuns, QueuedSomewhere, DrainedIdle, InBudget, StopLast,
                    DoneEmpty, WaitedFor

\* A request that starts runs, and its span with it.
LEMMA StartSpanStep ==
    ASSUME IInv, NEW r \in Requests, StartSpan(r)
    PROVE  IInv'
<1> USE DEF IInv
<1>1. TypeOK'
  BY DEF TypeOK, StartSpan, exporter
<1>2. ExportedInOrder' /\ InBudget' /\ StopLast' /\ WaitedFor' /\ DoneEmpty'
  BY DEF ExportedInOrder, InBudget, StopLast, WaitedFor, DoneEmpty, StartSpan, exporter
<1>3. OpenRuns'
  BY DEF OpenRuns, StartSpan, TypeOK
<1>4. QueuedSomewhere'
  BY DEF QueuedSomewhere, Exporting, StartSpan, exporter, TypeOK
<1>5. DrainedIdle'
  BY DEF DrainedIdle, StartSpan
<1> QED BY <1>1, <1>2, <1>3, <1>4, <1>5

\* A request that ends puts its span at the end of the queue or drops it; it
\* was running, so nothing had been drained.
LEMMA EndStep ==
    ASSUME IInv, NEW r \in Requests, End(r)
    PROVE  IInv'
<1> USE DEF IInv
<1>1. handler[r] = "running" /\ ~ drained
  BY DEF DrainedIdle, End
<1>2. /\ handler' = [handler EXCEPT ![r] = "returned"]
      /\ UNCHANGED <<stop, worker, tried, run, expired, drained>>
      /\ \/ span[r] = "none" /\ UNCHANGED <<span, queue, accepted>>
         \/ enqueue(r)
  BY DEF End
<1>3. CASE UNCHANGED <<span, queue, accepted>> /\ span[r] = "none"
  BY <1>1, <1>2, <1>3 DEF TypeOK, ExportedInOrder, OpenRuns, QueuedSomewhere, Exporting,
     DrainedIdle, InBudget, StopLast, DoneEmpty, WaitedFor
<1>4. CASE Len(queue) < QueueDepth /\ queue' = Append(queue, r)
           /\ accepted' = Append(accepted, r) /\ span' = [span EXCEPT ![r] = "queued"]
  <2> USE <1>1, <1>2, <1>4
  <2>1. /\ queue' \in Seq(Requests) /\ Len(queue') = Len(queue) + 1
        /\ \A i \in DOMAIN queue : i \in DOMAIN queue' /\ queue'[i] = queue[i]
        /\ Len(queue) + 1 \in DOMAIN queue' /\ queue'[Len(queue) + 1] = r
        /\ accepted' \in Seq(Requests)
    BY AppendFacts DEF TypeOK
  <2>2. TypeOK'
    <3>1. Len(queue') <= QueueDepth
      BY <2>1, LifecycleAssumption DEF TypeOK
    <3> QED BY <2>1, <3>1 DEF TypeOK
  <2>3. ExportedInOrder'
    BY EnqueueKeepsOrder DEF TypeOK, ExportedInOrder
  <2>4. OpenRuns' /\ DrainedIdle' /\ InBudget' /\ StopLast' /\ DoneEmpty' /\ WaitedFor'
    BY DEF TypeOK, OpenRuns, DrainedIdle, InBudget, StopLast, DoneEmpty, WaitedFor
  <2>5. QueuedSomewhere'
    <3> SUFFICES ASSUME NEW x \in Requests, span'[x] = "queued"
                 PROVE  \/ \E i \in DOMAIN queue' : queue'[i] = x
                        \/ Exporting' /\ tried'[Len(tried')] = x
      BY DEF QueuedSomewhere
    <3>1. CASE x = r
      BY <2>1, <3>1
    <3>2. CASE x # r
      BY <2>1, <3>2 DEF QueuedSomewhere, Exporting, TypeOK
    <3> QED BY <3>1, <3>2
  <2> QED BY <2>2, <2>3, <2>4, <2>5
<1>5. CASE span' = [span EXCEPT ![r] = "dropped"] /\ UNCHANGED <<queue, accepted>>
  BY <1>1, <1>2, <1>5 DEF TypeOK, ExportedInOrder, OpenRuns, QueuedSomewhere, Exporting,
     DrainedIdle, InBudget, StopLast, DoneEmpty, WaitedFor
<1> QED BY <1>2, <1>3, <1>4, <1>5 DEF enqueue, End

-----------------------------------------------------------------------------
(* The worker *)

\* Taking a span moves it from the queue into the worker's hands.
LEMMA TakeStep ==
    ASSUME IInv, Take
    PROVE  IInv'
<1> USE DEF IInv
<1> DEFINE h == Head(queue)
<1>1. /\ queue # <<>> /\ worker \in {"select", "drain"} /\ ~ Exited
      /\ queue' = Tail(queue) /\ tried' = Append(tried, h)
      /\ worker' = IF worker = "select" THEN "export" ELSE "drainexport"
      /\ UNCHANGED <<handler, span, stop, run, expired, drained, accepted>>
  BY DEF Take
<1>2. queue \in Seq(Requests) /\ tried \in Seq(Requests)
  BY DEF TypeOK
<1>3. /\ h \in Requests /\ queue' \in Seq(Requests) /\ Len(queue') = Len(queue) - 1
      /\ tried' \o queue' = tried \o queue
      /\ \A i \in DOMAIN queue : queue[i] = h \/ \E j \in DOMAIN queue' : queue'[j] = queue[i]
  BY <1>1, <1>2, TakeKeepsOrder
<1>4. /\ tried' \in Seq(Requests) /\ Len(tried') = Len(tried) + 1
      /\ tried'[Len(tried')] = h
  BY <1>1, <1>2, <1>3, AppendFacts
<1> HIDE DEF h
<1>5. TypeOK'
  <2>1. Len(queue') <= QueueDepth
    BY <1>2, <1>3, LifecycleAssumption DEF TypeOK
  <2> QED BY <1>1, <1>3, <1>4, <2>1 DEF TypeOK
<1>6. ExportedInOrder'
  BY <1>1, <1>3 DEF ExportedInOrder
<1>7. OpenRuns' /\ DrainedIdle' /\ InBudget' /\ StopLast' /\ DoneEmpty' /\ WaitedFor'
  BY <1>1 DEF OpenRuns, DrainedIdle, InBudget, StopLast, DoneEmpty, WaitedFor, Exited
<1>8. QueuedSomewhere'
  <2> SUFFICES ASSUME NEW x \in Requests, span[x] = "queued"
               PROVE  \/ \E i \in DOMAIN queue' : queue'[i] = x
                      \/ Exporting' /\ tried'[Len(tried')] = x
    BY <1>1 DEF QueuedSomewhere
  <2>1. PICK i \in DOMAIN queue : queue[i] = x
    BY <1>1 DEF QueuedSomewhere, Exporting
  <2>2. Exporting'
    BY <1>1 DEF Exporting
  <2> QED BY <1>3, <1>4, <2>1, <2>2
<1> QED BY <1>5, <1>6, <1>7, <1>8

\* The span in the worker's hands leaves, whatever the collector says.
LEMMA ExportStep ==
    ASSUME IInv, Export
    PROVE  IInv'
<1> USE DEF IInv
<1> DEFINE last == tried[Len(tried)]
<1>1. /\ Exporting /\ ~ Exited
      /\ worker' = IF worker = "export" THEN "select" ELSE "drain"
      /\ span' = [span EXCEPT ![last] = "exported"]
      /\ UNCHANGED <<handler, queue, stop, tried, run, expired, drained, accepted>>
  BY DEF Export, Exporting
<1>2. \A x \in Requests : span'[x] = IF x = last THEN "exported" ELSE span[x]
  BY <1>1 DEF TypeOK
<1>3. TypeOK'
  BY <1>1 DEF TypeOK
<1> HIDE DEF last
<1>4. ExportedInOrder' /\ OpenRuns'
  BY <1>1, <1>2 DEF ExportedInOrder, OpenRuns
<1>5. DrainedIdle' /\ InBudget' /\ StopLast' /\ DoneEmpty' /\ WaitedFor'
  BY <1>1 DEF DrainedIdle, InBudget, StopLast, DoneEmpty, WaitedFor, Exited, Exporting
<1>6. QueuedSomewhere'
  BY <1>1, <1>2 DEF QueuedSomewhere, last
<1> QED BY <1>3, <1>4, <1>5, <1>6

\* The worker turns to the drain, or finds it done.
LEMMA StopStep ==
    ASSUME IInv, StopSeen \/ DrainEnds
    PROVE  IInv'
<1> USE DEF IInv
<1>1. /\ ~ Exited /\ worker \in {"select", "drain"}
      /\ UNCHANGED <<handler, span, queue, stop, tried, run, expired, drained, accepted>>
      /\ \/ worker' = "drain" /\ stop
         \/ worker' = "done" /\ stop /\ queue = <<>>
  BY DEF StopSeen, DrainEnds, StopLast
<1>2. TypeOK' /\ ExportedInOrder'
  BY <1>1 DEF TypeOK, ExportedInOrder
<1>3. OpenRuns' /\ DrainedIdle' /\ InBudget' /\ StopLast' /\ DoneEmpty' /\ WaitedFor'
  BY <1>1 DEF OpenRuns, DrainedIdle, InBudget, StopLast, DoneEmpty, WaitedFor, Exited
<1>4. QueuedSomewhere'
  BY <1>1 DEF QueuedSomewhere, Exporting
<1> QED BY <1>2, <1>3, <1>4

-----------------------------------------------------------------------------
(* Run *)

\* Run's own steps leave handlers, spans and queue alone.
LEMMA RunStep ==
    ASSUME IInv,
           ListenerFails \/ Sigterm \/ BudgetExpires \/ DataShutdown \/ OpsShutdown
           \/ TracerShutdown
    PROVE  IInv'
<1> USE DEF IInv
<1>1. UNCHANGED <<handler, span, queue, worker, tried, accepted>>
  BY DEF ListenerFails, Sigterm, BudgetExpires, DataShutdown, OpsShutdown, TracerShutdown, exporter
<1>2. TypeOK'
  BY <1>1 DEF TypeOK, ListenerFails, Sigterm, BudgetExpires, DataShutdown, OpsShutdown,
              TracerShutdown, exporter
<1>3. ExportedInOrder' /\ OpenRuns' /\ QueuedSomewhere'
  BY <1>1 DEF ExportedInOrder, OpenRuns, QueuedSomewhere, Exporting
<1>4. DrainedIdle'
  BY <1>1 DEF DrainedIdle, ListenerFails, Sigterm, BudgetExpires, DataShutdown, OpsShutdown,
              TracerShutdown
<1>5. InBudget' /\ StopLast' /\ WaitedFor'
  BY <1>1 DEF TypeOK, InBudget, StopLast, WaitedFor, ListenerFails, Sigterm, BudgetExpires,
              DataShutdown, OpsShutdown, TracerShutdown, exporter
<1>6. DoneEmpty'
  BY <1>1 DEF DoneEmpty, StopLast, ListenerFails, Sigterm, BudgetExpires, DataShutdown,
              OpsShutdown, TracerShutdown
<1> QED BY <1>2, <1>3, <1>4, <1>5, <1>6

\* Every step keeps the invariant.
LEMMA NextIInv == IInv /\ [Next]_vars => IInv'
<1> SUFFICES ASSUME IInv, [Next]_vars PROVE IInv'
  OBVIOUS
<1>1. CASE \E r \in Requests : StartSpan(r) \/ End(r)
  BY <1>1, StartSpanStep, EndStep
<1>2. CASE Worker
  BY <1>2, TakeStep, ExportStep, StopStep DEF Worker
<1>3. CASE ListenerFails \/ Sigterm \/ BudgetExpires \/ DataShutdown \/ OpsShutdown
           \/ TracerShutdown
  BY <1>3, RunStep
<1>4. CASE UNCHANGED vars
  BY <1>4 DEF vars, IInv, TypeOK, ExportedInOrder, OpenRuns, QueuedSomewhere, Exporting,
              DrainedIdle, InBudget, StopLast, DoneEmpty, WaitedFor
<1> QED BY <1>1, <1>2, <1>3, <1>4 DEF Next

\* The invariant holds of every reachable state.
LEMMA Invariance == Spec => []IInv
BY InitIInv, NextIInv, PTL DEF Spec

-----------------------------------------------------------------------------
\* The exporter's and Run's state keep their types, and the queue never holds
\* more than queueDepth spans (exporter.go:184-191).
THEOREM TypeCorrect == Spec => []TypeOK
<1>1. IInv => TypeOK
  BY DEF IInv
<1> QED BY <1>1, Invariance, PTL

\* The spans that entered the queue are handed to export once each and in the
\* order their requests ended (exporter.go:186-210).
THEOREM ExportedInOrderHolds == Spec => []ExportedInOrder
<1>1. IInv => ExportedInOrder
  BY DEF IInv
<1> QED BY <1>1, Invariance, PTL

\* A shutdown that stays within its budget returns after every handler and
\* loses no span that entered the queue (server.go:222-229, exporter.go:169-182).
THEOREM GracefulFlushHolds == Spec => []GracefulFlush
<1>1. IInv => GracefulFlush
  <2> SUFFICES ASSUME IInv, run = "returned", ~ expired
               PROVE  \A r \in Requests :
                         handler[r] # "running" /\ span[r] \notin {"open", "queued"}
    BY DEF GracefulFlush
  <2>1. drained /\ worker = "done" /\ queue = <<>>
    BY DEF IInv, InBudget, WaitedFor, DoneEmpty
  <2>2. DOMAIN queue = {} /\ ~ Exporting
    BY <2>1 DEF Exporting
  <2> QED BY <2>1, <2>2 DEF IInv, DrainedIdle, OpenRuns, QueuedSomewhere
<1> QED BY <1>1, Invariance, PTL
=============================================================================

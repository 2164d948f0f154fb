------------------------------ MODULE Lifecycle ------------------------------
(***************************************************************************)
(* The life of the process around the requests: Run's graceful shutdown    *)
(* (internal/server/server.go), the span exporter's worker and bounded     *)
(* queue (internal/tracing/exporter.go), and the handlers that end spans.  *)
(* The three Shutdown calls run one after the other on one 10 s budget.    *)
(*                                                                         *)
(* A handler is here only what the exporter and Shutdown see of it: it     *)
(* starts, ends its span and returns.  Proxy has the rest.                 *)
(***************************************************************************)
EXTENDS Naturals, Sequences

CONSTANTS
    Requests,    \* request goroutines
    QueueDepth   \* queueDepth, 1024 in the code

ASSUME LifecycleAssumption == QueueDepth \in Nat \ {0}

VARIABLES
    handler,   \* what each request goroutine is doing
    span,      \* the fate of its span
    queue,     \* Exporter.queue
    stop,      \* stopCh is closed
    worker,    \* the goroutine of Exporter.run
    run,       \* where Run stands
    expired,   \* shutCtx is done
    drained,   \* data.Shutdown saw every connection gone
    accepted,  \* history: the spans that entered the queue, in order
    tried      \* history: the spans handed to export, in order

exporter == <<queue, stop, worker, tried>>

vars == <<handler, span, queue, stop, worker, run, expired, drained, accepted, tried>>

\* The process is gone once Run has returned.
Exited == run \in {"returned", "failed"}

-----------------------------------------------------------------------------
(* Requests and their spans *)

\* StartSpan: a malformed or absent traceparent starts a root span subject to
\* the sample ratio, a sampled one continues, an unsampled one records nothing.
\* A connection data.Shutdown still waits for may bring its request late.
StartSpan(r) ==
    /\ ~ Exited /\ ~ drained
    /\ handler[r] = "idle"
    /\ handler' = [handler EXCEPT ![r] = "running"]
    /\ \/ span' = [span EXCEPT ![r] = "open"]
       \/ UNCHANGED span
    /\ UNCHANGED <<exporter, run, expired, drained, accepted>>

\* Mutant: a full queue makes room by discarding its oldest span.
enqueueEvicts(r) ==
    /\ queue' = Append(IF Len(queue) < QueueDepth THEN queue ELSE Tail(queue), r)
    /\ accepted' = Append(accepted, r)
    /\ span' = [span EXCEPT ![r] = "queued"]

\* Mutant: the queue takes every span.
enqueueUnbounded(r) ==
    /\ queue' = Append(queue, r)
    /\ accepted' = Append(accepted, r)
    /\ span' = [span EXCEPT ![r] = "queued"]

\* A full queue drops the span; the request never waits.
enqueue(r) ==
    \/ /\ Len(queue) < QueueDepth
       /\ queue' = Append(queue, r)
       /\ accepted' = Append(accepted, r)
       /\ span' = [span EXCEPT ![r] = "queued"]
    \/ /\ Len(queue) = QueueDepth
       /\ span' = [span EXCEPT ![r] = "dropped"]
       /\ UNCHANGED <<queue, accepted>>

\* Span.End, as the handler returns: a nil span is a no-op.
End(r) ==
    /\ ~ Exited
    /\ handler[r] = "running"
    /\ handler' = [handler EXCEPT ![r] = "returned"]
    /\ \/ span[r] = "none" /\ UNCHANGED <<span, queue, accepted>>
       \/ span[r] = "open" /\ enqueue(r)
    /\ UNCHANGED <<stop, worker, tried, run, expired, drained>>

-----------------------------------------------------------------------------
(* Exporter.run *)

\* A span is taken from the queue, by the outer select or by the drain.
Take ==
    /\ ~ Exited
    /\ worker \in {"select", "drain"} /\ queue # <<>>
    /\ queue' = Tail(queue)
    /\ tried' = Append(tried, Head(queue))
    /\ worker' = IF worker = "select" THEN "export" ELSE "drainexport"
    /\ UNCHANGED <<handler, span, stop, run, expired, drained, accepted>>

\* Mutant: a failed POST ends the worker.
ExportQuits ==
    /\ ~ Exited
    /\ worker \in {"export", "drainexport"}
    /\ \/ worker' = IF worker = "export" THEN "select" ELSE "drain"
       \/ worker' = "done"
    /\ span' = [span EXCEPT ![tried[Len(tried)]] = "exported"]
    /\ UNCHANGED <<handler, queue, stop, tried, run, expired, drained, accepted>>

\* export returns within the client's 5 s; a failed POST is not retried.
Export ==
    /\ ~ Exited
    /\ worker \in {"export", "drainexport"}
    /\ worker' = IF worker = "export" THEN "select" ELSE "drain"
    /\ span' = [span EXCEPT ![tried[Len(tried)]] = "exported"]
    /\ UNCHANGED <<handler, queue, stop, tried, run, expired, drained, accepted>>

\* The outer select sees stopCh closed, whether or not spans are waiting.
StopSeen ==
    /\ ~ Exited
    /\ worker = "select" /\ stop
    /\ worker' = "drain"
    /\ UNCHANGED <<handler, span, queue, stop, tried, run, expired, drained, accepted>>

\* The drain finds the queue empty: the worker closes doneCh and is gone.
DrainEnds ==
    /\ ~ Exited
    /\ worker = "drain" /\ queue = <<>>
    /\ worker' = "done"
    /\ UNCHANGED <<handler, span, queue, stop, tried, run, expired, drained, accepted>>

-----------------------------------------------------------------------------
(* Run *)

\* A listener fails: Run returns the error and main exits at once.
ListenerFails ==
    /\ run = "serving"
    /\ run' = "failed"
    /\ UNCHANGED <<handler, span, exporter, expired, drained, accepted>>

\* Mutant: the tracer is told to stop before the handlers have drained.
SigtermStopsTracer ==
    /\ run = "serving"
    /\ run' = "data" /\ stop' = TRUE
    /\ UNCHANGED <<handler, span, queue, worker, tried, expired, drained, accepted>>

\* SIGINT or SIGTERM: ctx is done, the 10 s budget starts, data.Shutdown begins.
Sigterm ==
    /\ run = "serving"
    /\ run' = "data"
    /\ UNCHANGED <<handler, span, exporter, expired, drained, accepted>>

\* shutdownTimeout has passed.
BudgetExpires ==
    /\ run \in {"data", "ops", "tracer"} /\ ~ expired
    /\ expired' = TRUE
    /\ UNCHANGED <<handler, span, exporter, run, drained, accepted>>

\* Mutant: data.Shutdown is given a context without a deadline.
DataShutdownWaits ==
    /\ run = "data"
    /\ \A r \in Requests : handler[r] # "running"
    /\ run' = "ops" /\ drained' = TRUE
    /\ UNCHANGED <<handler, span, exporter, expired, accepted>>

\* data.Shutdown returns: every handler has, or the budget is gone.
DataShutdown ==
    /\ run = "data"
    /\ \/ (\A r \in Requests : handler[r] # "running") /\ drained' = TRUE
       \/ expired /\ UNCHANGED drained
    /\ run' = "ops"
    /\ UNCHANGED <<handler, span, exporter, expired, accepted>>

\* ops.Shutdown returns; Exporter.Shutdown closes stopCh.  A scrape or a
\* profile in flight may hold it up for as long as the budget lasts.
OpsShutdown ==
    /\ run = "ops"
    /\ run' = "tracer" /\ stop' = TRUE
    /\ UNCHANGED <<handler, span, queue, worker, tried, expired, drained, accepted>>

\* Exporter.Shutdown returns on doneCh or on the budget, and Run after it.
TracerShutdown ==
    /\ run = "tracer"
    /\ worker = "done" \/ expired
    /\ run' = "returned"
    /\ UNCHANGED <<handler, span, exporter, expired, drained, accepted>>

-----------------------------------------------------------------------------
Init ==
    /\ handler = [r \in Requests |-> "idle"]
    /\ span = [r \in Requests |-> "none"]
    /\ queue = <<>> /\ accepted = <<>> /\ tried = <<>>
    /\ stop = FALSE /\ worker = "select"
    /\ run = "serving" /\ expired = FALSE /\ drained = FALSE

Worker == Take \/ Export \/ StopSeen \/ DrainEnds

Next ==
    \/ \E r \in Requests : StartSpan(r) \/ End(r)
    \/ Worker
    \/ ListenerFails \/ Sigterm \/ BudgetExpires
    \/ DataShutdown \/ OpsShutdown \/ TracerShutdown

\* The worker goroutine runs and a POST ends (it has a timeout), the budget
\* runs out, and Run's calls return once they can; ops.Shutdown is only sure to
\* return when the budget is gone, and nothing is assumed of the handlers.
Fairness ==
    /\ WF_vars(Worker)
    /\ WF_vars(BudgetExpires)
    /\ WF_vars(DataShutdown)
    /\ WF_vars(expired /\ OpsShutdown)
    /\ WF_vars(TracerShutdown)

Spec == Init /\ [][Next]_vars

FairSpec == Spec /\ Fairness

-----------------------------------------------------------------------------
(* Properties *)

\* The types of the exporter's and Run's state; the queue holds at most
\* queueDepth spans.
TypeOK ==
    /\ handler \in [Requests -> {"idle", "running", "returned"}]
    /\ span \in [Requests -> {"none", "open", "queued", "dropped", "exported"}]
    /\ queue \in Seq(Requests) /\ Len(queue) <= QueueDepth
    /\ accepted \in Seq(Requests) /\ tried \in Seq(Requests)
    /\ stop \in BOOLEAN /\ expired \in BOOLEAN /\ drained \in BOOLEAN
    /\ worker \in {"select", "export", "drain", "drainexport", "done"}
    /\ run \in {"serving", "data", "ops", "tracer", "returned", "failed"}

\* exporter.go:186-210: the spans that entered the queue are exported once each
\* and in the order their requests ended, across the switch to the drain.
ExportedInOrder == tried \o queue = accepted

\* server.go:222-229, exporter.go:169-182: a shutdown that stays within its
\* budget loses no span: every request has returned and whatever its End put
\* in the queue has been exported.
GracefulFlush ==
    run = "returned" /\ ~ expired =>
        /\ \A r \in Requests : handler[r] # "running"
        /\ \A r \in Requests : span[r] \notin {"open", "queued"}

\* server.go:222-229: after the signal Run returns, even if a handler, a scrape
\* or the collector never lets go.
ShutdownEnds == run = "data" ~> run = "returned"

\* exporter.go:193-227: a queued span is exported if the process lives on,
\* whatever became of the spans before it.
SpansLeave == \A r \in Requests : span[r] = "queued" ~> (span[r] = "exported" \/ Exited)
=============================================================================

--------------------------- MODULE ServerLifecycle ---------------------------
(***************************************************************************)
(* One server process from start to exit: main connects to the stores,     *)
(* starts the two background workers and the HTTP server, waits for a      *)
(* signal, and then stops everything in order before a shared deadline.    *)
(*                                                                         *)
(* The goroutines are main (pc), the listener, the request handlers, the   *)
(* webhook worker and the analytics worker.  A goroutine that runs a SQL   *)
(* statement holds a connection; closing a store waits for the             *)
(* connections that are held.  What the workers do with a batch is in      *)
(* WebhookDelivery and ClickPipeline; here a batch is a span in which      *)
(* statements run.                                                         *)
(*                                                                         *)
(* Time is counted in ticks from the moment the signal is taken; main's    *)
(* own steps take none.                                                    *)
(***************************************************************************)
EXTENDS Naturals, Sequences, SequencesExt

CONSTANTS
    Requests,           \* HTTP requests
    ShutdownTimeout     \* SHUTDOWN_TIMEOUT, in ticks

ASSUME LifecycleAssumption ==
    /\ ShutdownTimeout \in Nat \ {0}
    /\ Requests \cap {"webhook-worker", "analytics-worker"} = {}

VARIABLES
    pc,         \* where main is
    code,       \* how the process ended
    open,       \* the stores that are open
    defers,     \* main's deferred Close calls
    signal,     \* a signal waits in the channel of Run
    listener,   \* the goroutine of ListenAndServe
    funcs,      \* shutdown functions still to call
    errs,       \* gracefulShutdown has collected an error
    elapsed,    \* ticks since gracefulShutdown began
    deadline,   \* the deadline of its context, on the same scale
    handler,    \* the handler of each request
    hooks,      \* the webhook worker
    stats,      \* the analytics worker
    draining,   \* Worker.draining of the analytics worker
    cancelled,  \* workers whose context is cancelled
    holds       \* the store on which each goroutine holds a connection

vars == <<pc, code, open, defers, signal, listener, funcs, errs, elapsed,
          deadline, handler, hooks, stats, draining, cancelled, holds>>

process == <<pc, code>>
stores  == <<open, defers>>
net     == <<signal, listener>>
plan    == <<funcs, errs, draining, cancelled>>
clock   == <<elapsed, deadline>>
others  == <<handler, hooks, stats, holds>>
-----------------------------------------------------------------------------
Workers    == {"webhook-worker", "analytics-worker"}
Goroutines == Requests \cup Workers
Stores     == {"repo", "webhookDB", "cache"}
Databases  == {"repo", "webhookDB"}

\* In the order of their registration.
Registered == <<"analytics-worker", "webhook-worker">>

Alive   == pc # "exited"
Expired == elapsed >= deadline

Serving(r) == handler[r] = "serving"
IsBusy     == \E r \in Requests : Serving(r)

Stopped(w) == IF w = "webhook-worker" THEN hooks = "stopped" ELSE stats = "stopped"

Init ==
    /\ pc = "config" /\ code = "none"
    /\ open = {} /\ defers = <<>>
    /\ signal = FALSE
    /\ listener = "off"
    /\ funcs = <<>> /\ errs = FALSE
    /\ elapsed = 0 /\ deadline = 0
    /\ handler = [r \in Requests |-> "idle"]
    /\ hooks = "off" /\ stats = "off"
    /\ draining = FALSE
    /\ cancelled = {}
    /\ holds = [g \in Goroutines |-> "none"]
-----------------------------------------------------------------------------
(* main, up to Run. *)

\* os.Exit, or the end of main: every goroutine ends with the process.
Exit(c) == pc' = "exited" /\ code' = c

\* os.Exit(1) without the deferred calls.
Fail ==
    /\ Exit("error")
    /\ UNCHANGED <<stores, net, plan, clock, others>>

LoadConfig ==
    /\ pc = "config"
    /\ \/ /\ pc' = "repo"
          /\ UNCHANGED <<code, stores, net, plan, clock, others>>
       \/ Fail

\* A mutant, used to test the properties: the Close of another store is
\* deferred.
ConnectDeferNext(s, next) ==
    /\ pc = s
    /\ open' = open \cup {s}
    /\ defers' = Append(defers, next)
    /\ pc' = next
    /\ UNCHANGED <<code, net, plan, clock, others>>

\* Each store is opened, pinged and its Close deferred.
Connect(s, next) ==
    /\ pc = s
    /\ \/ /\ open' = open \cup {s}
          /\ defers' = Append(defers, s)
          /\ pc' = next
          /\ UNCHANGED <<code, net, plan, clock, others>>
       \/ Fail

\* The workers are registered with OnShutdown and their goroutines started.
StartWorkers ==
    /\ pc = "start"
    /\ funcs' = Registered
    /\ hooks' = "spawned" /\ stats' = "spawned"
    /\ pc' = "run"
    /\ UNCHANGED <<code, stores, net, errs, draining, cancelled, clock,
                   handler, holds>>

\* Run: signal.Notify, and the goroutine of ListenAndServe.
RunServer ==
    /\ pc = "run"
    /\ listener' = "spawned"
    /\ pc' = "select"
    /\ UNCHANGED <<code, stores, signal, plan, clock, others>>

Start ==
    \/ LoadConfig
    \/ Connect("repo", "webhookDB")
    \/ Connect("webhookDB", "cache")
    \/ Connect("cache", "start")
    \/ StartWorkers
    \/ RunServer

\* SIGINT or SIGTERM: deadly before signal.Notify, afterwards kept in a
\* channel that holds one.
Signal ==
    /\ Alive
    /\ IF listener = "off"
       THEN Exit("killed") /\ UNCHANGED signal
       ELSE signal' = TRUE /\ UNCHANGED process
    /\ UNCHANGED <<stores, listener, plan, clock, others>>
-----------------------------------------------------------------------------
(* The select of Run, and gracefulShutdown. *)

ServerError == pc = "select" /\ listener = "failed" /\ Fail

\* The deadline of the whole shutdown starts here; httpServer.Shutdown closes
\* the listener first.
TakeSignal ==
    /\ pc = "select" /\ signal
    /\ signal' = FALSE
    /\ pc' = "http"
    /\ deadline' = elapsed + ShutdownTimeout
    /\ listener' = IF listener = "open" THEN "closed" ELSE listener
    /\ UNCHANGED <<code, stores, plan, elapsed, others>>

\* A mutant, used to test the properties: the HTTP server is closed without
\* waiting for its handlers.
CloseHTTP ==
    /\ pc = "http"
    /\ pc' = "stop"
    /\ UNCHANGED <<code, stores, net, plan, clock, others>>

\* httpServer.Shutdown returns when no handler is left or the deadline has
\* passed; its error is only logged.
ShutdownHTTP ==
    /\ pc = "http"
    /\ ~IsBusy \/ Expired
    /\ pc' = "stop"
    /\ UNCHANGED <<code, stores, net, plan, clock, others>>

\* A mutant, used to test the properties: first registered, first called.
NextFuncFIFO == Head(funcs)

\* Reverse order of registration.
NextFunc == Last(funcs)

\* A mutant, used to test the properties: each function gets a timeout of its
\* own.
CallWithOwnTimeout ==
    /\ pc = "stop" /\ funcs # <<>>
    /\ cancelled' = cancelled \cup {NextFunc}
    /\ pc' = "wait"
    /\ deadline' = elapsed + ShutdownTimeout
    /\ draining' = (draining \/ NextFunc = "analytics-worker")
    /\ UNCHANGED <<code, stores, net, funcs, errs, elapsed, others>>

\* The shutdown function cancels the worker.  Worker.Shutdown of the
\* analytics worker has nothing to do if Run has not been entered yet.
CallShutdown ==
    /\ pc = "stop" /\ funcs # <<>>
    /\ IF NextFunc = "analytics-worker" /\ stats = "spawned"
       THEN /\ funcs' = Front(funcs)
            /\ UNCHANGED <<pc, draining, cancelled>>
       ELSE /\ pc' = "wait"
            /\ cancelled' = cancelled \cup {NextFunc}
            /\ draining' = (draining \/ NextFunc = "analytics-worker")
            /\ UNCHANGED funcs
    /\ UNCHANGED <<code, stores, net, errs, clock, others>>

\* A mutant, used to test the properties: the worker is not waited for.
AwaitNobody ==
    /\ pc = "wait"
    /\ funcs' = SubSeq(funcs, 1, Len(funcs) - 1)
    /\ pc' = "stop"
    /\ UNCHANGED <<code, stores, net, errs, draining, cancelled, clock,
                   others>>

\* A mutant, used to test the properties: no case <-ctx.Done().
AwaitForEver ==
    /\ pc = "wait"
    /\ Stopped(NextFunc)
    /\ funcs' = Front(funcs)
    /\ pc' = "stop"
    /\ UNCHANGED <<code, stores, net, errs, draining, cancelled, clock,
                   others>>

\* select: the worker is done, or the deadline has passed; when both are
\* true, either.
AwaitWorker ==
    /\ pc = "wait"
    /\ \/ Stopped(NextFunc) /\ UNCHANGED errs
       \/ Expired /\ errs' = TRUE
    /\ funcs' = Front(funcs)
    /\ pc' = "stop"
    /\ UNCHANGED <<code, stores, net, draining, cancelled, clock, others>>

\* errs[0] makes main call os.Exit(1); otherwise main returns.
EndShutdown ==
    /\ pc = "stop" /\ funcs = <<>>
    /\ \/ errs /\ Fail
       \/ /\ ~errs
          /\ pc' = "return"
          /\ UNCHANGED <<code, stores, net, plan, clock, others>>

IsHeld(s) == \E g \in Goroutines : holds[g] = s

\* The deferred Close calls, last first.  The store refuses new statements ...
BeginClose ==
    /\ pc = "return" /\ defers # <<>>
    /\ Last(defers) \in open
    /\ open' = open \ {Last(defers)}
    /\ UNCHANGED <<process, defers, net, plan, clock, others>>

\* ... and, a database, waits for those that run.
EndClose ==
    /\ pc = "return" /\ defers # <<>>
    /\ Last(defers) \notin open
    /\ ~IsHeld(Last(defers))
    /\ defers' = Front(defers)
    /\ UNCHANGED <<process, open, net, plan, clock, others>>

Return ==
    /\ pc = "return" /\ defers = <<>>
    /\ Exit("ok")
    /\ UNCHANGED <<stores, net, plan, clock, others>>

Shutdown ==
    \/ ShutdownHTTP \/ CallShutdown \/ AwaitWorker \/ EndShutdown
    \/ BeginClose \/ EndClose \/ Return

\* Main waits for another goroutine.
IsWaiting ==
    \/ pc = "http" /\ IsBusy /\ ~Expired
    \/ pc = "wait" /\ ~Stopped(NextFunc) /\ ~Expired
    \/ /\ pc = "return" /\ defers # <<>>
       /\ Last(defers) \notin open /\ IsHeld(Last(defers))

\* Time passes while main waits; past the deadline it is no longer counted.
Tick ==
    /\ IsWaiting
    /\ elapsed <= ShutdownTimeout
    /\ elapsed' = elapsed + 1
    /\ UNCHANGED <<process, stores, net, plan, deadline, others>>
-----------------------------------------------------------------------------
(* net/http: the listener and the handlers. *)

\* ListenAndServe fails, or accepts connections; after Shutdown it does
\* neither.
Listen ==
    /\ Alive /\ listener = "spawned"
    /\ IF pc = "select" THEN listener' \in {"open", "failed"}
                        ELSE listener' = "closed"
    /\ UNCHANGED <<process, stores, signal, plan, clock, others>>

AcceptFails ==
    /\ Alive /\ listener = "open"
    /\ listener' = "failed"
    /\ UNCHANGED <<process, stores, signal, plan, clock, others>>

Accept(r) ==
    /\ Alive /\ listener = "open" /\ handler[r] = "idle"
    /\ handler' = [handler EXCEPT ![r] = "serving"]
    /\ UNCHANGED <<process, stores, net, plan, clock, hooks, stats, holds>>

Answer(r) ==
    /\ Alive /\ Serving(r) /\ holds[r] = "none"
    /\ handler' = [handler EXCEPT ![r] = "answered"]
    /\ UNCHANGED <<process, stores, net, plan, clock, hooks, stats, holds>>
-----------------------------------------------------------------------------
(* Statements. *)

\* Who runs statements where: a handler and the analytics worker (whose
\* events the webhook publisher queues) on both databases.
MayQuery(g, s) ==
    \/ g \in Requests /\ Serving(g)
    \/ g = "analytics-worker" /\ stats = "batch"
    \/ g = "webhook-worker" /\ hooks = "batch" /\ s = "webhookDB"

\* Nothing starts on a closed store or in a cancelled context.
Query(g, s) ==
    /\ Alive /\ holds[g] = "none"
    /\ MayQuery(g, s)
    /\ s \in open /\ g \notin cancelled
    /\ holds' = [holds EXCEPT ![g] = s]
    /\ UNCHANGED <<process, stores, net, plan, clock, handler, hooks, stats>>

\* The statement is over, or was cancelled.
Release(g) ==
    /\ Alive /\ holds[g] # "none"
    /\ holds' = [holds EXCEPT ![g] = "none"]
    /\ UNCHANGED <<process, stores, net, plan, clock, handler, hooks, stats>>
-----------------------------------------------------------------------------
(* webhook.Worker.Run *)

HookStep(from, to) ==
    /\ Alive /\ hooks = from /\ holds["webhook-worker"] = "none"
    /\ hooks' = to
    /\ UNCHANGED <<process, stores, net, plan, clock, handler, stats, holds>>

IsCancelled(w) == w \in cancelled

\* When the ticker and the cancelled context are both ready, either is taken.
RunHooks ==
    \/ HookStep("spawned", "idle")
    \/ HookStep("idle", "batch")
    \/ HookStep("batch", "idle")
    \/ IsCancelled("webhook-worker") /\ HookStep("idle", "stopped")
    \/ IsCancelled("webhook-worker") /\ HookStep("batch", "stopped")
-----------------------------------------------------------------------------
(* analytics.Worker.Run *)

StatsStep(from, to) ==
    /\ Alive /\ stats = from /\ holds["analytics-worker"] = "none"
    /\ stats' = to
    /\ UNCHANGED <<process, stores, net, plan, clock, handler, hooks, holds>>

\* Entered, it is started and has a context; ensureConsumerGroup ends it or
\* not; draining and the context are looked at before each batch; after an
\* error other than a cancellation it sleeps, deaf to its context.
RunStats ==
    \/ StatsStep("spawned", "group")
    \/ StatsStep("group", "stopped")
    \/ StatsStep("group", "loop")
    \/ (draining \/ IsCancelled("analytics-worker")) /\ StatsStep("loop", "stopped")
    \/ ~draining /\ ~IsCancelled("analytics-worker") /\ StatsStep("loop", "batch")
    \/ StatsStep("batch", "loop")
    \/ StatsStep("batch", "sleep")
    \/ IsCancelled("analytics-worker") /\ StatsStep("batch", "stopped")
    \/ StatsStep("sleep", "loop")
-----------------------------------------------------------------------------
Main == Start \/ ServerError \/ TakeSignal \/ Shutdown

Next ==
    \/ Main \/ Signal \/ Tick
    \/ Listen \/ AcceptFails
    \/ \E r \in Requests : Accept(r) \/ Answer(r)
    \/ \E g \in Goroutines : Release(g) \/ \E s \in Databases : Query(g, s)
    \/ RunHooks \/ RunStats

Spec == Init /\ [][Next]_vars

\* Main runs, time passes and the databases end every statement.  Nothing is
\* assumed of handlers and workers, which may hang for ever.
Fairness ==
    /\ WF_vars(Main)
    /\ WF_vars(Tick)
    /\ \A g \in Goroutines : WF_vars(Release(g))

FairSpec == Spec /\ Fairness
-----------------------------------------------------------------------------
(* Properties. *)

Starting == {"config", "repo", "webhookDB", "cache", "start", "run"}
Stopping == {"http", "stop", "wait"}

\* Every variable has its type.
TypeOK ==
    /\ pc \in Starting \cup Stopping \cup {"select", "return", "exited"}
    /\ code \in {"none", "ok", "error", "killed"}
    /\ open \subseteq Stores /\ defers \in Seq(Stores)
    /\ signal \in BOOLEAN /\ errs \in BOOLEAN /\ draining \in BOOLEAN
    /\ listener \in {"off", "spawned", "open", "failed", "closed"}
    /\ funcs \in Seq(Workers)
    /\ elapsed \in 0 .. ShutdownTimeout + 1
    /\ deadline \in Nat
    /\ handler \in [Requests -> {"idle", "serving", "answered"}]
    /\ hooks \in {"off", "spawned", "idle", "batch", "stopped"}
    /\ stats \in {"off", "spawned", "group", "loop", "batch", "sleep", "stopped"}
    /\ cancelled \subseteq Workers
    /\ holds \in [Goroutines -> Databases \cup {"none"}]

\* RUNBOOK.md, section 7, steps 1 to 3: a worker is told to stop only when
\* every accepted request has been answered, and the analytics worker, whose
\* events feed the other, only when the webhook worker has stopped, unless
\* the deadline has passed.
PhasesInOrder ==
    /\ cancelled # {} => ~IsBusy \/ Expired
    /\ "analytics-worker" \in cancelled => hooks = "stopped" \/ Expired

\* RUNBOOK.md, section 7, step 4: the stores are closed, and the process ends
\* with status 0, only after both workers have stopped.  The one exception is
\* an analytics worker that had not entered Run when Shutdown asked for it.
StoresOutliveWorkers ==
    pc = "return" \/ code = "ok" =>
        hooks = "stopped" /\ (draining => stats = "stopped")

\* SHUTDOWN_TIMEOUT covers all stages of gracefulShutdown together: whatever
\* hangs, main has left it when the timeout is over.  Only a Close that waits
\* for a running statement can take longer.
DeadlineKept == elapsed > ShutdownTimeout => pc \in {"return", "exited"}

\* A signal ends the process, even if handlers and workers hang.
EventuallyExits == pc = "http" ~> pc = "exited"
-----------------------------------------------------------------------------
(* Inductive invariants, for the proofs. *)

\* Ticks are counted from the signal on, and the deadline is set once.  Main
\* leaves the shutdown functions by the deadline, and an error comes after it.
ClockInv ==
    /\ pc \in Starting \cup {"select"} => elapsed = 0 /\ ~errs
    /\ pc \in Stopping \cup {"return"} => deadline = ShutdownTimeout
    /\ pc \in Stopping => elapsed <= ShutdownTimeout
    /\ errs => Expired

\* A connection is accepted only while Run is in its select.
ListenerInv ==
    /\ pc \in Starting => listener = "off"
    /\ listener = "open" => pc \in {"select", "exited"}

\* The handlers are done, or out of time, when the functions are called.
QuietInv ==
    /\ pc \in {"stop", "wait", "return"} => ~IsBusy \/ Expired
    /\ cancelled # {} => pc \in {"stop", "wait", "return", "exited"}

\* What is left of the shutdown functions tells which worker has stopped;
\* draining is set by the last of them.
PlanInv ==
    /\ pc \in {"run", "select", "http"} => funcs = Registered
    /\ pc \in {"stop", "wait"} =>
          \/ funcs = Registered /\ ~draining
          \/ /\ funcs = <<"analytics-worker">>
             /\ hooks = "stopped" \/ errs
             /\ draining => pc = "wait"
          \/ /\ funcs = <<>> /\ pc = "stop"
             /\ hooks = "stopped" \/ errs
             /\ draining => stats = "stopped" \/ errs
    /\ draining => pc \in {"stop", "wait", "return", "exited"}
    /\ code = "ok" => pc = "exited"
=============================================================================

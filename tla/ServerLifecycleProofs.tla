------------------------ MODULE ServerLifecycleProofs ------------------------
(***************************************************************************)
(* Proofs about ServerLifecycle: every variable has its type, the stages   *)
(* of a shutdown come in the order of the runbook, the stores outlive the  *)
(* workers, and one deadline covers all stages.                            *)
(***************************************************************************)
EXTENDS ServerLifecycle, SequenceTheorems, TLAPS

\* Main's first steps and the network, and the steps of the other goroutines.
LEMMA NextCases ==
    ASSUME [Next]_vars
    PROVE  \/ Start \/ ServerError \/ TakeSignal \/ Shutdown \/ Signal \/ Tick
           \/ Listen \/ AcceptFails
           \/ \E r \in Requests : Accept(r) \/ Answer(r)
           \/ \E g \in Goroutines : Release(g) \/ \E s \in Databases : Query(g, s)
           \/ RunHooks \/ RunStats
           \/ UNCHANGED vars
  BY DEF Next, Main

\* What the last shutdown function or deferred call is, and what is left.
LEMMA LastFront ==
    ASSUME NEW S, NEW s \in Seq(S), s # <<>>
    PROVE  Last(s) \in S /\ Front(s) \in Seq(S)
  BY DEF Last, Front

LEMMA FrontType == ASSUME NEW S, NEW s \in Seq(S) PROVE Front(s) \in Seq(S)
  BY DEF Front

\* The analytics worker is registered first, and so called last.
LEMMA RegisteredEnds ==
    /\ Registered \in Seq(Workers) /\ Registered # <<>>
    /\ Last(Registered) = "webhook-worker"
    /\ Front(Registered) = <<"analytics-worker">>
    /\ <<"analytics-worker">> # <<>> /\ <<"analytics-worker">> # Registered
    /\ Last(<<"analytics-worker">>) = "analytics-worker"
    /\ Front(<<"analytics-worker">>) = <<>>
<1>1. Registered \in Seq(Workers) /\ Len(Registered) = 2
  BY DEF Registered, Workers
<1>2. <<"analytics-worker">> \in Seq(Workers) /\ Len(<<"analytics-worker">>) = 1
  BY DEF Workers
<1>3. Registered[1] = "analytics-worker" /\ Registered[2] = "webhook-worker"
  BY DEF Registered
<1>4. Front(Registered) = <<"analytics-worker">>
  <2>1. SubSeq(Registered, 1, 1) \in Seq(Workers) /\ Len(SubSeq(Registered, 1, 1)) = 1
    BY <1>1
  <2>2. SubSeq(Registered, 1, 1)[1] = "analytics-worker"
    BY <1>1, <1>3
  <2>3. \A i \in 1 .. 1 : SubSeq(Registered, 1, 1)[i] = <<"analytics-worker">>[i]
    BY <2>2
  <2>4. SubSeq(Registered, 1, 1) = <<"analytics-worker">>
    BY <1>2, <2>1, <2>3, SeqEqual
  <2> QED
    BY <1>1, <2>4 DEF Front
<1>5. Front(<<"analytics-worker">>) = <<>>
  <2>1. SubSeq(<<"analytics-worker">>, 1, 0) = <<>>
    BY <1>2
  <2> QED
    BY <1>2, <2>1 DEF Front
<1>6. Registered # <<>> /\ <<"analytics-worker">> # <<>> /\ <<"analytics-worker">> # Registered
  BY <1>1, <1>2
<1> QED
  BY <1>1, <1>2, <1>3, <1>4, <1>5, <1>6 DEF Last
-----------------------------------------------------------------------------
(* Types. *)

\* The flags, and the other variables.
FlagsOK == signal \in BOOLEAN /\ errs \in BOOLEAN /\ draining \in BOOLEAN

RestOK ==
    /\ pc \in Starting \cup Stopping \cup {"select", "return", "exited"}
    /\ code \in {"none", "ok", "error", "killed"}
    /\ open \subseteq Stores /\ defers \in Seq(Stores)
    /\ listener \in {"off", "spawned", "open", "failed", "closed"}
    /\ funcs \in Seq(Workers)
    /\ elapsed \in 0 .. ShutdownTimeout + 1
    /\ deadline \in Nat
    /\ handler \in [Requests -> {"idle", "serving", "answered"}]
    /\ hooks \in {"off", "spawned", "idle", "batch", "stopped"}
    /\ stats \in {"off", "spawned", "group", "loop", "batch", "sleep", "stopped"}
    /\ cancelled \subseteq Workers
    /\ holds \in [Goroutines -> Databases \cup {"none"}]

LEMMA TypeParts == TypeOK <=> FlagsOK /\ RestOK
  BY DEF TypeOK, FlagsOK, RestOK

LEMMA FlagsNext == FlagsOK /\ [Next]_vars => FlagsOK'
<1> SUFFICES ASSUME FlagsOK, [Next]_vars PROVE FlagsOK'
  OBVIOUS
<1> USE DEF FlagsOK, process, stores, net, plan, clock, others
<1>1. CASE Start
  BY <1>1, Zenon DEF Start, LoadConfig, Connect, StartWorkers, RunServer, Fail
<1>2. CASE ServerError
  BY <1>2, Zenon DEF ServerError, Fail
<1>3. CASE Signal
  BY <1>3, Zenon DEF Signal
<1>4. CASE TakeSignal
  BY <1>4, Zenon DEF TakeSignal
<1>5. CASE Shutdown
  <2>1. CASE CallShutdown
    BY <2>1, Zenon DEF CallShutdown
  <2>2. CASE AwaitWorker
    BY <2>2, Zenon DEF AwaitWorker
  <2>3. CASE ShutdownHTTP \/ EndShutdown \/ BeginClose \/ EndClose \/ Return
    BY <2>3, Zenon DEF ShutdownHTTP, EndShutdown, BeginClose, EndClose, Return, Fail
  <2> QED
    BY <1>5, <2>1, <2>2, <2>3 DEF Shutdown
<1>6. CASE Tick \/ Listen \/ AcceptFails
  BY <1>6, Zenon DEF Tick, Listen, AcceptFails
<1>7. ASSUME NEW r \in Requests, Accept(r) \/ Answer(r) PROVE FlagsOK'
  BY <1>7, Zenon DEF Accept, Answer
<1>8. ASSUME NEW g \in Goroutines, Release(g) \/ \E s \in Databases : Query(g, s)
      PROVE  FlagsOK'
  BY <1>8, Zenon DEF Release, Query
<1>9. CASE RunHooks
  BY <1>9, Zenon DEF RunHooks, HookStep
<1>10. CASE RunStats
  BY <1>10, Zenon DEF RunStats, StatsStep
<1>11. CASE UNCHANGED vars
  BY <1>11, Zenon DEF vars
<1> HIDE DEF FlagsOK
<1> QED
  BY <1>1, <1>2, <1>3, <1>4, <1>5, <1>6, <1>7, <1>8, <1>9, <1>10, <1>11, NextCases

LEMMA RestNext == RestOK /\ [Next]_vars => RestOK'
<1> SUFFICES ASSUME RestOK, [Next]_vars PROVE RestOK'
  OBVIOUS
<1> USE DEF RestOK, Starting, Stopping, process, stores, net, plan, clock, others
<1>1. CASE Start
  <2>1. CASE LoadConfig
    BY <2>1 DEF LoadConfig, Fail, Exit
  <2>2. CASE StartWorkers
    BY <2>2, RegisteredEnds DEF StartWorkers
  <2>3. CASE RunServer
    BY <2>3 DEF RunServer
  <2>4. ASSUME NEW s \in Stores, NEW next \in {"webhookDB", "cache", "start"},
               Connect(s, next)
        PROVE  RestOK'
    <3>1. Append(defers, s) \in Seq(Stores) /\ open \cup {s} \subseteq Stores
      BY <2>4
    <3>2. CASE Fail
      BY <3>2 DEF Fail, Exit
    <3>3. CASE ~Fail
      <4>1. /\ open' = open \cup {s} /\ defers' = Append(defers, s) /\ pc' = next
            /\ UNCHANGED <<code, net, plan, clock, others>>
        BY <2>4, <3>3 DEF Connect
      <4>2. pc' \in Starting
        BY <4>1
      <4>3. open' \subseteq Stores /\ defers' \in Seq(Stores)
        BY <3>1, <4>1
      <4>4. UNCHANGED <<code, listener, funcs, elapsed, deadline, handler, hooks, stats,
                        cancelled, holds>>
        BY <4>1
      <4> QED
        BY <4>2, <4>3, <4>4
    <3> QED
      BY <3>2, <3>3
  <2> QED
    BY <1>1, <2>1, <2>2, <2>3, <2>4 DEF Start, Stores
<1>2. CASE ServerError \/ Signal
  BY <1>2 DEF ServerError, Signal, Fail, Exit
<1>3. CASE TakeSignal
  BY <1>3, LifecycleAssumption DEF TakeSignal
<1>4. CASE Shutdown
  <2>1. CASE ShutdownHTTP
    BY <2>1 DEF ShutdownHTTP
  <2>2. CASE CallShutdown
    <3>1. NextFunc \in Workers /\ Front(funcs) \in Seq(Workers)
      BY <2>2, LastFront DEF CallShutdown, NextFunc
    <3> QED
      BY <2>2, <3>1 DEF CallShutdown
  <2>3. CASE AwaitWorker
    <3>1. Front(funcs) \in Seq(Workers)
      BY FrontType
    <3> QED
      BY <2>3, <3>1 DEF AwaitWorker
  <2>4. CASE EndShutdown \/ Return
    BY <2>4 DEF EndShutdown, Return, Fail, Exit
  <2>5. CASE BeginClose \/ EndClose
    <3>1. Front(defers) \in Seq(Stores)
      BY FrontType
    <3> QED
      BY <2>5, <3>1 DEF BeginClose, EndClose
  <2> QED
    BY <1>4, <2>1, <2>2, <2>3, <2>4, <2>5 DEF Shutdown
<1>5. CASE Tick
  BY <1>5, LifecycleAssumption DEF Tick
<1>6. CASE Listen \/ AcceptFails
  BY <1>6 DEF Listen, AcceptFails
<1>7. ASSUME NEW r \in Requests, Accept(r) \/ Answer(r) PROVE RestOK'
  BY <1>7 DEF Accept, Answer
<1>8. ASSUME NEW g \in Goroutines, Release(g) PROVE RestOK'
  BY <1>8 DEF Release
<1>9. ASSUME NEW g \in Goroutines, NEW s \in Databases, Query(g, s) PROVE RestOK'
  BY <1>9 DEF Query
<1>10. CASE RunHooks
  BY <1>10 DEF RunHooks, HookStep
<1>11. CASE RunStats
  BY <1>11 DEF RunStats, StatsStep
<1>12. CASE UNCHANGED vars
  BY <1>12 DEF vars
<1> QED
  BY <1>1, <1>2, <1>3, <1>4, <1>5, <1>6, <1>7, <1>8, <1>9, <1>10, <1>11, <1>12, NextCases

\* Every variable has its type in every reachable state of the process.
THEOREM TypeCorrect == Spec => []TypeOK
<1>1. Init => FlagsOK /\ RestOK
  <2> SUFFICES ASSUME Init PROVE FlagsOK /\ RestOK
    OBVIOUS
  <2>1. FlagsOK
    BY DEF Init, FlagsOK
  <2>2. elapsed \in 0 .. ShutdownTimeout + 1
    BY LifecycleAssumption DEF Init
  <2>3. RestOK
    BY <2>2 DEF Init, RestOK, Starting
  <2> QED
    BY <2>1, <2>3
<1> QED
  BY <1>1, FlagsNext, RestNext, TypeParts, PTL DEF Spec
-----------------------------------------------------------------------------
(* The clock. *)

LEMMA ClockNext == TypeOK /\ ClockInv /\ [Next]_vars => ClockInv'
<1> SUFFICES ASSUME TypeOK, ClockInv, [Next]_vars PROVE ClockInv'
  OBVIOUS
<1>0. elapsed \in Nat /\ deadline \in Nat /\ ShutdownTimeout \in Nat
  BY LifecycleAssumption DEF TypeOK
<1> USE DEF ClockInv, Expired, Starting, Stopping, process, stores, net, plan, clock, others
<1>1. CASE Start
  BY <1>0, <1>1 DEF Start, LoadConfig, Connect, StartWorkers, RunServer, Fail, Exit
<1>2. CASE ServerError \/ Signal
  BY <1>0, <1>2 DEF ServerError, Signal, Fail, Exit
<1>3. CASE TakeSignal
  BY <1>0, <1>3 DEF TakeSignal
<1>4. CASE Shutdown
  BY <1>0, <1>4 DEF Shutdown, ShutdownHTTP, CallShutdown, AwaitWorker, EndShutdown,
     BeginClose, EndClose, Return, Fail, Exit
<1>5. CASE Tick
  <2>1. IsWaiting => pc = "return" \/ (pc \in {"http", "wait"} /\ elapsed < deadline)
    BY <1>0 DEF IsWaiting
  <2> QED
    BY <1>0, <1>5, <2>1 DEF Tick
<1>6. CASE Listen \/ AcceptFails
  BY <1>6 DEF Listen, AcceptFails
<1>7. ASSUME NEW r \in Requests, Accept(r) \/ Answer(r) PROVE ClockInv'
  BY <1>7 DEF Accept, Answer
<1>8. ASSUME NEW g \in Goroutines, Release(g) \/ \E s \in Databases : Query(g, s)
      PROVE  ClockInv'
  BY <1>8 DEF Release, Query
<1>9. CASE RunHooks \/ RunStats
  BY <1>9 DEF RunHooks, HookStep, RunStats, StatsStep
<1>10. CASE UNCHANGED vars
  BY <1>10 DEF vars
<1> QED
  BY <1>1, <1>2, <1>3, <1>4, <1>5, <1>6, <1>7, <1>8, <1>9, <1>10, NextCases

LEMMA ClockAlways == Spec => []ClockInv
<1>1. Init => ClockInv
  BY DEF Init, ClockInv, Starting, Stopping
<1> QED
  BY <1>1, TypeCorrect, ClockNext, PTL DEF Spec

\* SHUTDOWN_TIMEOUT covers all stages of gracefulShutdown together: whatever
\* hangs, main has left it when the timeout is over (server.gracefulShutdown).
THEOREM DeadlineCorrect == Spec => []DeadlineKept
<1>1. TypeOK /\ ClockInv => DeadlineKept
  BY LifecycleAssumption DEF TypeOK, ClockInv, DeadlineKept, Starting, Stopping
<1> QED
  BY <1>1, TypeCorrect, ClockAlways, PTL
-----------------------------------------------------------------------------
(* The handlers. *)

LEMMA QuietNext ==
    TypeOK /\ ClockInv /\ ListenerInv /\ QuietInv /\ [Next]_vars => ListenerInv' /\ QuietInv'
<1> SUFFICES ASSUME TypeOK, ClockInv, ListenerInv, QuietInv, [Next]_vars
             PROVE  ListenerInv' /\ QuietInv'
  OBVIOUS
<1>0. elapsed \in Nat /\ deadline \in Nat
  BY DEF TypeOK
<1> USE DEF ListenerInv, QuietInv, Expired, IsBusy, Serving, Starting,
            process, stores, net, plan, clock, others
<1>1. CASE Start
  BY <1>1 DEF Start, LoadConfig, Connect, StartWorkers, RunServer, Fail, Exit
<1>2. CASE ServerError \/ Signal
  BY <1>2 DEF ServerError, Signal, Fail, Exit
<1>3. CASE TakeSignal
  BY <1>3 DEF TakeSignal
<1>4. CASE Shutdown
  BY <1>4 DEF Shutdown, ShutdownHTTP, CallShutdown, AwaitWorker, EndShutdown,
     BeginClose, EndClose, Return, Fail, Exit
<1>5. CASE Tick
  BY <1>0, <1>5 DEF Tick
<1>6. CASE Listen \/ AcceptFails
  BY <1>6 DEF Listen, AcceptFails, Alive
<1>7. ASSUME NEW r \in Requests, Accept(r) \/ Answer(r)
      PROVE  ListenerInv' /\ QuietInv'
  <2>1. CASE Accept(r)
    <3>1. pc = "select" /\ pc' = pc /\ listener' = listener /\ cancelled' = cancelled
      BY <2>1 DEF Accept, Alive
    <3> QED
      BY <3>1
  <2>2. CASE Answer(r)
    <3>1. IsBusy' => IsBusy
      BY <2>2 DEF Answer, TypeOK
    <3>2. UNCHANGED <<process, net, plan, clock>>
      BY <2>2 DEF Answer
    <3> QED
      BY <3>1, <3>2
  <2> QED
    BY <1>7, <2>1, <2>2
<1>8. ASSUME NEW g \in Goroutines, Release(g) \/ \E s \in Databases : Query(g, s)
      PROVE  ListenerInv' /\ QuietInv'
  BY <1>8 DEF Release, Query
<1>9. CASE RunHooks \/ RunStats
  BY <1>9 DEF RunHooks, HookStep, RunStats, StatsStep
<1>10. CASE UNCHANGED vars
  BY <1>10 DEF vars
<1> QED
  BY <1>1, <1>2, <1>3, <1>4, <1>5, <1>6, <1>7, <1>8, <1>9, <1>10, NextCases

LEMMA QuietAlways == Spec => [](ListenerInv /\ QuietInv)
<1>1. Init => ListenerInv /\ QuietInv
  BY DEF Init, ListenerInv, QuietInv, Starting
<1> QED
  BY <1>1, TypeCorrect, ClockAlways, QuietNext, PTL DEF Spec
-----------------------------------------------------------------------------
(* The shutdown functions. *)

LEMMA PlanNext == TypeOK /\ ClockInv /\ PlanInv /\ [Next]_vars => PlanInv'
<1> SUFFICES ASSUME TypeOK, ClockInv, PlanInv, [Next]_vars PROVE PlanInv'
  OBVIOUS
<1> USE DEF PlanInv, process, stores, net, plan, clock, others
<1>1. CASE Start
  <2>1. CASE StartWorkers
    BY <2>1 DEF StartWorkers
  <2>2. CASE LoadConfig \/ RunServer
    BY <2>2 DEF LoadConfig, RunServer, Fail, Exit
  <2>3. CASE \/ Connect("repo", "webhookDB") \/ Connect("webhookDB", "cache")
             \/ Connect("cache", "start")
    BY <2>3 DEF Connect, Fail, Exit
  <2> QED
    BY <1>1, <2>1, <2>2, <2>3 DEF Start
<1>2. CASE ServerError \/ Signal
  BY <1>2 DEF ServerError, Signal, Fail, Exit
<1>3. CASE TakeSignal
  BY <1>3 DEF TakeSignal
<1>4. CASE ShutdownHTTP
  BY <1>4 DEF ShutdownHTTP
<1>5. CASE CallShutdown
  BY <1>5, RegisteredEnds DEF CallShutdown, NextFunc
<1>6. CASE AwaitWorker
  BY <1>6, RegisteredEnds DEF AwaitWorker, NextFunc, Stopped
<1>7. CASE EndShutdown \/ BeginClose \/ EndClose \/ Return
  BY <1>7 DEF EndShutdown, BeginClose, EndClose, Return, Fail, Exit
<1>8. CASE Tick \/ Listen \/ AcceptFails
  BY <1>8 DEF Tick, Listen, AcceptFails
<1>9. ASSUME NEW r \in Requests, Accept(r) \/ Answer(r) PROVE PlanInv'
  BY <1>9 DEF Accept, Answer
<1>10. ASSUME NEW g \in Goroutines, Release(g) \/ \E s \in Databases : Query(g, s)
       PROVE  PlanInv'
  BY <1>10 DEF Release, Query
<1>11. CASE RunHooks
  BY <1>11 DEF RunHooks, HookStep
<1>12. CASE RunStats
  BY <1>12 DEF RunStats, StatsStep
<1>13. CASE UNCHANGED vars
  BY <1>13 DEF vars
<1> QED
  BY <1>1, <1>2, <1>3, <1>4, <1>5, <1>6, <1>7, <1>8, <1>9, <1>10, <1>11, <1>12, <1>13,
     NextCases DEF Shutdown

LEMMA PlanAlways == Spec => []PlanInv
<1>1. Init => PlanInv
  BY DEF Init, PlanInv
<1> QED
  BY <1>1, TypeCorrect, ClockAlways, PlanNext, PTL DEF Spec

LEMMA PhasesNext ==
    /\ TypeOK /\ ClockInv /\ ListenerInv /\ QuietInv /\ PlanInv
    /\ PhasesInOrder /\ [Next]_vars
    => PhasesInOrder'
<1> SUFFICES ASSUME TypeOK, ClockInv, ListenerInv, QuietInv, PlanInv,
                    PhasesInOrder, [Next]_vars
             PROVE  PhasesInOrder'
  OBVIOUS
<1>0. elapsed \in Nat /\ deadline \in Nat
  BY DEF TypeOK
<1> USE DEF PhasesInOrder, Expired, IsBusy, Serving,
            process, stores, net, plan, clock, others
<1>1. CASE Start
  BY <1>1 DEF Start, LoadConfig, Connect, StartWorkers, RunServer, Fail, Exit,
     QuietInv
<1>2. CASE ServerError \/ Signal
  BY <1>2 DEF ServerError, Signal, Fail, Exit
<1>3. CASE TakeSignal
  BY <1>3 DEF TakeSignal, QuietInv
<1>4. CASE CallShutdown
  <2>1. ~IsBusy \/ Expired
    BY <1>4 DEF CallShutdown, QuietInv
  <2>2. NextFunc = "analytics-worker" => hooks = "stopped" \/ Expired
    BY <1>4, RegisteredEnds DEF CallShutdown, NextFunc, PlanInv, ClockInv
  <2> QED
    BY <1>4, <2>1, <2>2 DEF CallShutdown
<1>5. CASE ShutdownHTTP \/ AwaitWorker \/ EndShutdown \/ BeginClose \/ EndClose \/ Return
  BY <1>5 DEF ShutdownHTTP, AwaitWorker, EndShutdown, BeginClose, EndClose, Return,
     Fail, Exit
<1>6. CASE Tick
  BY <1>0, <1>6 DEF Tick
<1>7. CASE Listen \/ AcceptFails
  BY <1>7 DEF Listen, AcceptFails
<1>8. ASSUME NEW r \in Requests, Accept(r) \/ Answer(r) PROVE PhasesInOrder'
  <2>1. CASE Accept(r)
    <3>1. cancelled = {} /\ cancelled' = cancelled
      BY <2>1 DEF Accept, Alive, ListenerInv, QuietInv
    <3> QED
      BY <3>1
  <2>2. CASE Answer(r)
    <3>1. IsBusy' => IsBusy
      BY <2>2 DEF Answer, TypeOK
    <3>2. UNCHANGED <<plan, clock, hooks>>
      BY <2>2 DEF Answer
    <3> QED
      BY <3>1, <3>2
  <2> QED
    BY <1>8, <2>1, <2>2
<1>9. ASSUME NEW g \in Goroutines, Release(g) \/ \E s \in Databases : Query(g, s)
      PROVE  PhasesInOrder'
  BY <1>9 DEF Release, Query
<1>10. CASE RunHooks \/ RunStats
  BY <1>10 DEF RunHooks, HookStep, RunStats, StatsStep
<1>11. CASE UNCHANGED vars
  BY <1>11 DEF vars
<1> QED
  BY <1>1, <1>2, <1>3, <1>4, <1>5, <1>6, <1>7, <1>8, <1>9, <1>10, <1>11, NextCases
     DEF Shutdown

\* A worker is told to stop only when every accepted request has been
\* answered, and the analytics worker only when the webhook worker has
\* stopped, unless the deadline has passed (server.gracefulShutdown).
THEOREM PhasesCorrect == Spec => []PhasesInOrder
<1>1. Init => PhasesInOrder
  BY DEF Init, PhasesInOrder
<1> QED
  BY <1>1, TypeCorrect, ClockAlways, QuietAlways, PlanAlways, PhasesNext, PTL DEF Spec

LEMMA StoresNext ==
    TypeOK /\ PlanInv /\ StoresOutliveWorkers /\ [Next]_vars => StoresOutliveWorkers'
<1> SUFFICES ASSUME TypeOK, PlanInv, StoresOutliveWorkers, [Next]_vars
             PROVE  StoresOutliveWorkers'
  OBVIOUS
<1> USE DEF StoresOutliveWorkers, process, stores, net, plan, clock, others
<1>1. CASE Start
  BY <1>1 DEF Start, LoadConfig, Connect, StartWorkers, RunServer, Fail, Exit, PlanInv
<1>2. CASE ServerError \/ Signal \/ TakeSignal
  BY <1>2 DEF ServerError, Signal, TakeSignal, Fail, Exit, PlanInv
<1>3. CASE EndShutdown
  BY <1>3, RegisteredEnds DEF EndShutdown, Fail, Exit, PlanInv
<1>4. CASE ShutdownHTTP \/ CallShutdown \/ AwaitWorker
  BY <1>4 DEF ShutdownHTTP, CallShutdown, AwaitWorker, PlanInv
<1>5. CASE BeginClose \/ EndClose \/ Return
  BY <1>5 DEF BeginClose, EndClose, Return, Exit
<1>6. CASE Tick \/ Listen \/ AcceptFails
  BY <1>6 DEF Tick, Listen, AcceptFails
<1>7. ASSUME NEW r \in Requests, Accept(r) \/ Answer(r) PROVE StoresOutliveWorkers'
  BY <1>7 DEF Accept, Answer
<1>8. ASSUME NEW g \in Goroutines, Release(g) \/ \E s \in Databases : Query(g, s)
      PROVE  StoresOutliveWorkers'
  BY <1>8 DEF Release, Query
<1>9. CASE RunHooks \/ RunStats
  BY <1>9 DEF RunHooks, HookStep, RunStats, StatsStep
<1>10. CASE UNCHANGED vars
  BY <1>10 DEF vars
<1> QED
  BY <1>1, <1>2, <1>3, <1>4, <1>5, <1>6, <1>7, <1>8, <1>9, <1>10, NextCases DEF Shutdown

\* The stores are closed, and the process ends with status 0, only after the
\* webhook worker has stopped, and the analytics worker too if it was told to
\* drain (main, server.gracefulShutdown).
THEOREM StoresCorrect == Spec => []StoresOutliveWorkers
<1>1. Init => StoresOutliveWorkers
  BY DEF Init, StoresOutliveWorkers
<1> QED
  BY <1>1, TypeCorrect, PlanAlways, StoresNext, PTL DEF Spec
=============================================================================

--------------------------- MODULE WebhookDelivery ---------------------------
(***************************************************************************)
(* The webhook outbox: the endpoints and the deliveries in PostgreSQL, the *)
(* publisher that queues a delivery for every active endpoint of a click,  *)
(* the delivery workers (one in every instance of the server) and the      *)
(* management API.                                                         *)
(*                                                                         *)
(* Every SQL statement and every POST is one step.  next_retry_at is kept  *)
(* as the number of ticks until it, 0 once it has passed.  Endpoints have  *)
(* one user; which event types an endpoint subscribes to is data: the      *)
(* endpoints a click matches are any set of active ones.  A delivery is    *)
(* named by its (event_id, endpoint_id), the unique key of its row.        *)
(***************************************************************************)
EXTENDS Integers, Sequences, FiniteSets

CONSTANTS
    Events,         \* click ids
    Endpoints,      \* webhook_endpoints ids
    Workers,        \* the webhook worker of each running instance
    Callers,        \* concurrent API calls
    RetryDelays,    \* retryDelays, in ticks
    MaxAttempts,    \* DefaultMaxAttempts
    ScansNull,      \* whether database/sql puts a NULL into a Go string
    BatchSize,      \* DefaultBatchSize
    MaxFaults,      \* bound: failing SQL statements and stopped workers
    MaxResets       \* bound: manual retries

ASSUME WebhookAssumption ==
    /\ RetryDelays \in Seq(Nat \ {0}) /\ Len(RetryDelays) > 0
    /\ MaxAttempts \in Nat \ {0}
    /\ ScansNull \in BOOLEAN
    /\ BatchSize \in Nat \ {0}
    /\ MaxFaults \in Nat
    /\ MaxResets \in Nat
    /\ IsFiniteSet(Workers)

VARIABLES
    endpoint,   \* the table webhook_endpoints
    delivery,   \* the table webhook_deliveries
    pub,        \* deliveries that publishers have still to insert
    wpc,        \* where each worker is
    batch,      \* snapshots of the fetched deliveries a worker has not begun
    cur,        \* the snapshot a worker is delivering, as a set of at most one
    call,       \* API calls between their read and their write
    faults,     \* failures so far
    resets,     \* manual retries so far
    posts,      \* POSTs sent for each delivery
    accepted,   \* deliveries whose receiver has answered 2xx
    late        \* POSTs sent to each endpoint since it was disabled or deleted

vars == <<endpoint, delivery, pub, wpc, batch, cur, call, faults, resets,
          posts, accepted, late>>

worker   == <<wpc, batch, cur>>
receiver == <<posts, accepted, late>>
-----------------------------------------------------------------------------
Deliveries == Events \X Endpoints
EndpointOf(d) == d[2]

EndpointRow == [state : {"absent", "live", "deleted"}, enabled : BOOLEAN]
DeliveryRow == [status : {"absent", "pending", "success", "failed", "exhausted"},
                attempts : Nat, due : Nat, lastError : {"null", "text"}]
Snapshot    == [d : Deliveries, attempts : Nat]

NoEndpoint == [state |-> "absent", enabled |-> FALSE]
NoDelivery == [status |-> "absent", attempts |-> 0, due |-> 0, lastError |-> "null"]
NoCall     == [op |-> "none"]

IsLive(e)   == endpoint[e].state = "live"
IsActive(e) == IsLive(e) /\ endpoint[e].enabled

IsWaiting(d)  == delivery[d].status \in {"pending", "failed"}
IsTerminal(d) == delivery[d].status \in {"success", "exhausted"}

Fault   == faults < MaxFaults /\ faults' = faults + 1
NoFault == UNCHANGED faults
-----------------------------------------------------------------------------
(* retry.go *)

\* A mutant, used to test the properties: one attempt too many.
IsExhaustedLate(attemptCount) == attemptCount > MaxAttempts

IsExhausted(attemptCount) == attemptCount >= MaxAttempts

\* The base delay for a 0-indexed attempt, the last one for all beyond.
BaseDelay(attemptCount) ==
    LET last == Len(RetryDelays) - 1
    IN  RetryDelays[1 + (IF attemptCount > last THEN last ELSE attemptCount)]

\* The delay with its jitter of 20% either way.
NextRetryDelay(attemptCount) ==
    LET base == BaseDelay(attemptCount)
    IN  {t \in 1 .. (2 * base) : 5 * t >= 4 * base /\ 5 * t <= 6 * base}
-----------------------------------------------------------------------------
Init ==
    /\ endpoint = [e \in Endpoints |-> NoEndpoint]
    /\ delivery = [d \in Deliveries |-> NoDelivery]
    /\ pub = {}
    /\ wpc = [w \in Workers |-> "ready"]
    /\ batch = [w \in Workers |-> {}]
    /\ cur = [w \in Workers |-> {}]
    /\ call = [c \in Callers |-> NoCall]
    /\ faults = 0
    /\ resets = 0
    /\ posts = [d \in Deliveries |-> 0]
    /\ accepted = {}
    /\ late = [e \in Endpoints |-> 0]
-----------------------------------------------------------------------------
(* Publisher.PublishClickEvent. *)

\* The list of endpoints is read once, before the first insert.
PublishClickEvent(ev) ==
    /\ \E S \in SUBSET {e \in Endpoints : IsActive(e)} :
           pub' = pub \cup ({ev} \X S)
    /\ UNCHANGED <<endpoint, delivery, worker, call, faults, resets, receiver>>

\* A mutant, used to test the properties: ON CONFLICT DO UPDATE.
UpsertDelivery(d) ==
    [delivery EXCEPT ![d] = [NoDelivery EXCEPT !.status = "pending"]]

\* INSERT ... ON CONFLICT (event_id, endpoint_id) DO NOTHING.  It names no
\* last_error: the column of a new row is NULL.
InsertDelivery(d) ==
    IF delivery[d].status = "absent"
    THEN [delivery EXCEPT ![d].status = "pending"]
    ELSE delivery

\* An insert that fails is logged and skipped.
CreateDelivery(d) ==
    /\ d \in pub
    /\ \/ delivery' = InsertDelivery(d) /\ NoFault
       \/ UNCHANGED delivery /\ Fault
    /\ pub' = pub \ {d}
    /\ UNCHANGED <<endpoint, worker, call, resets, receiver>>
-----------------------------------------------------------------------------
(* Worker.processOnce and Worker.deliver. *)

Due == {d \in Deliveries :
           IsWaiting(d) /\ delivery[d].due = 0 /\ IsActive(EndpointOf(d))}

\* scanDeliveries reads last_error into a string, which database/sql refuses
\* for a NULL: one such row and the whole result is an error.
Scannable(S) == ScansNull \/ \A d \in S : delivery[d].lastError # "null"

\* SELECT ... FOR UPDATE OF d SKIP LOCKED outside a transaction: the locks end
\* with the statement, so another worker may fetch the same rows.  Among the
\* rows that are due the order (ORDER BY next_retry_at) is left open.  After an
\* error processOnce returns, Run logs it and polls again: nothing changes.
GetPendingDeliveries(w) ==
    /\ wpc[w] = "ready" /\ batch[w] = {}
    /\ \E S \in SUBSET Due :
           /\ S # {}
           /\ Cardinality(S) <= BatchSize
           /\ S = Due \/ Cardinality(S) = BatchSize
           /\ Scannable(S)
           /\ batch' = [batch EXCEPT ![w] =
                  {[d |-> d, attempts |-> delivery[d].attempts] : d \in S}]
    /\ UNCHANGED <<endpoint, delivery, pub, wpc, cur, call, faults, resets, receiver>>

\* A mutant, used to test the properties: the endpoint is not read again
\* before the POST.
SkipEndpointCheck(w) ==
    /\ wpc[w] = "ready"
    /\ \E s \in batch[w] :
          /\ batch' = [batch EXCEPT ![w] = @ \ {s}]
          /\ wpc' = [wpc EXCEPT ![w] = "post"]
          /\ cur' = [cur EXCEPT ![w] = {s}]
    /\ UNCHANGED <<endpoint, delivery, pub, call, faults, resets, receiver>>

\* The worker takes the next delivery of its batch and reads the endpoint.
GetEndpoint(w) ==
    /\ wpc[w] = "ready"
    /\ \E s \in batch[w] :
          /\ batch' = [batch EXCEPT ![w] = @ \ {s}]
          /\ \/ /\ wpc' = [wpc EXCEPT ![w] =
                      IF IsActive(EndpointOf(s.d)) THEN "post" ELSE "close"]
                /\ cur' = [cur EXCEPT ![w] = {s}]
                /\ NoFault
             \/ Fault /\ UNCHANGED <<wpc, cur>>
    /\ UNCHANGED <<endpoint, delivery, pub, call, resets, receiver>>

\* A mutant, used to test the properties: an answer other than 2xx counts as
\* a success.
PostAnyAnswer(w) ==
    /\ wpc[w] = "post"
    /\ \E s \in cur[w] :
          /\ posts' = [posts EXCEPT ![s.d] = @ + 1]
          /\ accepted' \in {accepted, accepted \cup {s.d}}
    /\ wpc' = [wpc EXCEPT ![w] = "success"]
    /\ UNCHANGED <<endpoint, delivery, pub, batch, cur, call, faults, resets, late>>

\* A 2xx answer, any other answer, or none: then the receiver may have
\* accepted the delivery all the same.
Post(w) ==
    /\ wpc[w] = "post"
    /\ \E s \in cur[w] :
          /\ posts' = [posts EXCEPT ![s.d] = @ + 1]
          /\ late' = IF IsActive(EndpointOf(s.d)) THEN late
                     ELSE [late EXCEPT ![EndpointOf(s.d)] = @ + 1]
          /\ \/ wpc' = [wpc EXCEPT ![w] = "success"] /\ accepted' = accepted \cup {s.d}
             \/ wpc' = [wpc EXCEPT ![w] = "failure"] /\ accepted' = accepted \cup {s.d}
             \/ wpc' = [wpc EXCEPT ![w] = "failure"] /\ UNCHANGED accepted
    /\ UNCHANGED <<endpoint, delivery, pub, batch, cur, call, faults, resets>>

\* A mutant, used to test the properties: only failures are counted.
SuccessRowUncounted(r) ==
    [status |-> "success", attempts |-> r.attempts, due |-> r.due,
     lastError |-> "null"]

\* The UPDATEs of a delivery name its id and nothing else.
SuccessRow(r) ==
    [status |-> "success", attempts |-> r.attempts + 1, due |-> r.due,
     lastError |-> "null"]

\* A mutant, used to test the properties: attempt_count is not incremented.
FailureRowUncounted(r, nextRetryAt, exhausted) ==
    [status |-> IF exhausted THEN "exhausted" ELSE "failed",
     attempts |-> r.attempts, due |-> nextRetryAt, lastError |-> "text"]

FailureRow(r, nextRetryAt, exhausted) ==
    [status |-> IF exhausted THEN "exhausted" ELSE "failed",
     attempts |-> r.attempts + 1, due |-> nextRetryAt, lastError |-> "text"]

\* The worker is done with its delivery; an UPDATE that fails is only logged.
EndDelivery(w) ==
    /\ wpc' = [wpc EXCEPT ![w] = "ready"]
    /\ cur' = [cur EXCEPT ![w] = {}]
    /\ UNCHANGED <<endpoint, pub, batch, call, resets, receiver>>

UpdateDeliverySuccess(w) ==
    /\ wpc[w] = "success"
    /\ \E s \in cur[w] :
          \/ delivery' = [delivery EXCEPT ![s.d] = SuccessRow(@)] /\ NoFault
          \/ UNCHANGED delivery /\ Fault
    /\ EndDelivery(w)

\* handleDeliveryError: the attempt number comes from the snapshot.
HandleDeliveryError(w) ==
    /\ wpc[w] = "failure"
    /\ \E s \in cur[w] :
          LET nextAttempt == s.attempts + 1
          IN  \/ /\ \E t \in NextRetryDelay(nextAttempt) :
                       delivery' = [delivery EXCEPT ![s.d] =
                           FailureRow(@, t, IsExhausted(nextAttempt))]
                 /\ NoFault
              \/ UNCHANGED delivery /\ Fault
    /\ EndDelivery(w)

\* The endpoint was deleted or disabled after the fetch.
CloseDelivery(w) ==
    /\ wpc[w] = "close"
    /\ \E s \in cur[w] :
          \/ delivery' = [delivery EXCEPT ![s.d] = FailureRow(@, 0, TRUE)] /\ NoFault
          \/ UNCHANGED delivery /\ Fault
    /\ EndDelivery(w)

\* The process dies, or its context is cancelled: the POST in flight and all
\* later statements fail.  A new worker starts with no batch.
Stop(w) ==
    /\ cur[w] # {} \/ batch[w] # {}
    /\ wpc' = [wpc EXCEPT ![w] = "ready"]
    /\ batch' = [batch EXCEPT ![w] = {}]
    /\ cur' = [cur EXCEPT ![w] = {}]
    /\ Fault
    /\ UNCHANGED <<endpoint, delivery, pub, call, resets, receiver>>
-----------------------------------------------------------------------------
(* The management API. *)

CreateEndpoint(e) ==
    /\ endpoint[e].state = "absent"
    /\ endpoint' = [endpoint EXCEPT ![e] = [state |-> "live", enabled |-> TRUE]]
    /\ UNCHANGED <<delivery, pub, worker, call, faults, resets, receiver>>

\* PATCH reads the endpoint and patches the copy ...
UpdateRead(c, e, en) ==
    /\ call[c] = NoCall
    /\ IsLive(e)
    /\ call' = [call EXCEPT ![c] = [op |-> "patch", e |-> e, enabled |-> en]]
    /\ UNCHANGED <<endpoint, delivery, pub, worker, faults, resets, receiver>>

\* ... and writes all of it back, unless the endpoint is deleted by now.
UpdateEndpoint(c) ==
    /\ call[c].op = "patch"
    /\ endpoint' = IF IsLive(call[c].e)
                   THEN [endpoint EXCEPT ![call[c].e].enabled = call[c].enabled]
                   ELSE endpoint
    /\ late' = IF IsLive(call[c].e) /\ call[c].enabled
               THEN [late EXCEPT ![call[c].e] = 0]
               ELSE late
    /\ call' = [call EXCEPT ![c] = NoCall]
    /\ UNCHANGED <<delivery, pub, worker, faults, resets, posts, accepted>>

DeleteEndpoint(e) ==
    /\ IsLive(e)
    /\ endpoint' = [endpoint EXCEPT ![e].state = "deleted"]
    /\ UNCHANGED <<delivery, pub, worker, call, faults, resets, receiver>>

\* POST /webhooks/{id}/deliveries/{deliveryId}/retry looks up the endpoint of
\* the path, which is not compared with the endpoint of the delivery ...
RetryRead(c, e, d) ==
    /\ call[c] = NoCall
    /\ IsLive(e)
    /\ call' = [call EXCEPT ![c] = [op |-> "retry", d |-> d]]
    /\ UNCHANGED <<endpoint, delivery, pub, worker, faults, resets, receiver>>

\* ... and resets the delivery, provided it is exhausted by now.
ResetDeliveryForRetry(c) ==
    /\ call[c].op = "retry"
    /\ LET d == call[c].d
       IN  \/ /\ delivery[d].status = "exhausted"
              /\ resets < MaxResets
              /\ delivery' = [delivery EXCEPT ![d].status = "pending", ![d].due = 0]
              /\ resets' = resets + 1
           \/ /\ delivery[d].status # "exhausted"
              /\ UNCHANGED <<delivery, resets>>
    /\ call' = [call EXCEPT ![c] = NoCall]
    /\ UNCHANGED <<endpoint, pub, worker, faults, receiver>>
-----------------------------------------------------------------------------
Tick ==
    /\ \E d \in Deliveries : delivery[d].due > 0
    /\ delivery' = [d \in Deliveries |->
           [delivery[d] EXCEPT !.due = IF @ > 0 THEN @ - 1 ELSE 0]]
    /\ UNCHANGED <<endpoint, pub, worker, call, faults, resets, receiver>>

\* What a worker does while it runs.
Work(w) ==
    \/ GetPendingDeliveries(w) \/ GetEndpoint(w) \/ Post(w)
    \/ UpdateDeliverySuccess(w) \/ HandleDeliveryError(w) \/ CloseDelivery(w)

Finish(c) == UpdateEndpoint(c) \/ ResetDeliveryForRetry(c)

Request ==
    \/ \E e \in Endpoints : CreateEndpoint(e) \/ DeleteEndpoint(e)
    \/ \E c \in Callers :
           \/ \E e \in Endpoints, en \in BOOLEAN : UpdateRead(c, e, en)
           \/ \E e \in Endpoints, d \in Deliveries : RetryRead(c, e, d)

Next ==
    \/ \E ev \in Events : PublishClickEvent(ev)
    \/ \E d \in Deliveries : CreateDelivery(d)
    \/ \E w \in Workers : Work(w) \/ Stop(w)
    \/ Request
    \/ \E c \in Callers : Finish(c)
    \/ Tick

Spec == Init /\ [][Next]_vars

\* Time passes; a publisher and an API call that have begun finish; a worker
\* polls again and again, and its POST ends within the client's timeout.
Fairness ==
    /\ WF_vars(Tick)
    /\ \A d \in Deliveries : WF_vars(CreateDelivery(d))
    /\ \A w \in Workers : WF_vars(Work(w))
    /\ \A c \in Callers : WF_vars(Finish(c))

FairSpec == Spec /\ Fairness
-----------------------------------------------------------------------------
(* Properties. *)

WorkerStep == {"ready", "post", "success", "failure", "close"}

Call == {NoCall} \cup [op : {"patch"}, e : Endpoints, enabled : BOOLEAN]
                 \cup [op : {"retry"}, d : Deliveries]

TablesOK ==
    /\ endpoint \in [Endpoints -> EndpointRow]
    /\ delivery \in [Deliveries -> DeliveryRow]

ProcessOK ==
    /\ pub \subseteq Deliveries
    /\ wpc \in [Workers -> WorkerStep]
    /\ batch \in [Workers -> SUBSET Snapshot]
    /\ cur \in [Workers -> SUBSET Snapshot]
    /\ call \in [Callers -> Call]

CountsOK ==
    /\ faults \in 0 .. MaxFaults
    /\ resets \in 0 .. MaxResets
    /\ posts \in [Deliveries -> Nat]
    /\ accepted \subseteq Deliveries
    /\ late \in [Endpoints -> Nat]

HandOK ==
    \A w \in Workers : IF wpc[w] = "ready" THEN cur[w] = {}
                       ELSE \E s \in cur[w] : cur[w] = {s}

\* Every variable has its type; a worker holds one delivery, or none when it
\* is ready for the next.
TypeOK == TablesOK /\ ProcessOK /\ CountsOK /\ HandOK

InHand(w) == batch[w] \cup cur[w]

\* A worker works on what is still true: as long as it holds a delivery, the
\* row waits, is due and has the attempt count of the snapshot.  Nothing but
\* the worker itself touches it: not a publisher that inserts the event again,
\* not a manual retry that races it, not the endpoint being switched off and
\* on.  (GetPendingDeliveries reads the row up to a whole batch of POSTs
\* before HandleDeliveryError uses its attempt_count.)  Holds for one worker.
SnapshotFresh ==
    \A w \in Workers : \A s \in InHand(w) :
        /\ IsWaiting(s.d)
        /\ delivery[s.d].due = 0
        /\ delivery[s.d].attempts = s.attempts

\* The delivery in hand is no longer in the batch.
FreshInv == SnapshotFresh /\ \A w \in Workers : cur[w] \cap batch[w] = {}

\* The delivery as the table shows it.
Status   == [d \in Deliveries |-> delivery[d].status]
Attempts == [d \in Deliveries |-> delivery[d].attempts]

Lifecycle == INSTANCE DeliveryLifecycle WITH status <- Status, attempts <- Attempts

\* The workers, the publishers and the API together implement the life cycle
\* of a delivery: success is final, the attempt that reaches max_attempts
\* exhausts, only a manual retry reopens, and no row is queued twice.  Holds
\* for one worker.
ImplementsLifecycle == Lifecycle!LSpec

\* A delivery is never POSTed more often than max_attempts, one more time for
\* a manual retry and one more time for a statement that failed or a worker
\* that stopped after the POST.  Holds for one worker.
PostsBounded == \A d \in Deliveries : posts[d] <= MaxAttempts + resets + faults

\* The induction behind it: what the row counts, what it lacks, and how far
\* manual retries can stretch the count.
Sent(d) == \E w \in Workers : wpc[w] \in {"success", "failure"}
                              /\ \E s \in cur[w] : s.d = d

CountInv ==
    \A d \in Deliveries :
        /\ delivery[d].attempts <= MaxAttempts + resets
        /\ ~IsTerminal(d) => delivery[d].attempts < MaxAttempts + resets
        /\ posts[d] <= delivery[d].attempts + faults + (IF Sent(d) THEN 1 ELSE 0)

\* Each POST is counted in attempt_count, also when several workers race on
\* one row (attempt_count = attempt_count + 1 in the UPDATE, and not the
\* count of the snapshot): uncounted are only the POSTs whose UPDATE is still
\* to come or failed.
InFlight(d) == {w \in Workers : wpc[w] \in {"success", "failure"}
                                /\ \E s \in cur[w] : s.d = d}

PostsAreCounted ==
    \A d \in Deliveries :
        posts[d] <= delivery[d].attempts + faults + Cardinality(InFlight(d))

\* status = 'success' is written only if the receiver has answered a POST of
\* this delivery with 2xx, whatever workers and retries have raced.
SuccessWasAccepted ==
    \A d \in Deliveries : delivery[d].status = "success" => d \in accepted

\* The part of the induction that is about workers: one that is to record a
\* success has seen the 2xx.
SuccessInv ==
    /\ SuccessWasAccepted
    /\ \A w \in Workers : wpc[w] = "success" => \A s \in cur[w] : s.d \in accepted

\* deliver() reads the endpoint again before each POST of a batch: once a
\* PATCH has switched an endpoint off or a DELETE has removed it, and as long
\* as it stays so, the receiver gets at most the one POST that each worker had
\* already looked up.
InactiveIsQuiet == \A e \in Endpoints : late[e] <= Cardinality(Workers)

\* The induction behind it: a worker that has looked the endpoint up before
\* has its POST still to send, and afterwards no other joins them.
LookedUp(e) == {w \in Workers : wpc[w] = "post"
                                /\ \E s \in cur[w] : EndpointOf(s.d) = e}

LateInv ==
    \A e \in Endpoints :
        /\ IsActive(e) => late[e] = 0
        /\ endpoint[e].state = "absent" => late[e] = 0 /\ LookedUp(e) = {}
        /\ ~IsActive(e) => late[e] + Cardinality(LookedUp(e)) <= Cardinality(Workers)

\* A delivery whose endpoint stays active does not wait for ever: it ends
\* in success or exhausted, in spite of lost UPDATEs, stopped workers and
\* PATCHes that switch the endpoint off and on before.  The code breaks this:
\* a row that was never attempted cannot be scanned (Scannable), and a batch
\* that holds one is not delivered.
EventuallySettled ==
    \A d \in Deliveries :
        <>[]IsActive(EndpointOf(d)) => (IsWaiting(d) ~> IsTerminal(d))
=============================================================================

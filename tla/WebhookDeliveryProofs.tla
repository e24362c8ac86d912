------------------------ MODULE WebhookDeliveryProofs ------------------------
(***************************************************************************)
(* Proofs about WebhookDelivery, for any numbers of events, endpoints and  *)
(* API calls, any retry delays and any bounds.                             *)
(***************************************************************************)
EXTENDS WebhookDelivery, FiniteSetTheorems, TLAPS

(***************************************************************************)
(* Types.                                                                  *)
(***************************************************************************)

\* A delay is a natural number of ticks, whatever the attempt (NextRetryDelay
\* clamps the attempt to the table).
LEMMA DelayType ==
    ASSUME NEW n \in Nat
    PROVE  NextRetryDelay(n) \subseteq Nat
<1> DEFINE i == IF n > Len(RetryDelays) - 1 THEN Len(RetryDelays) - 1 ELSE n
<1>1. Len(RetryDelays) \in Nat /\ Len(RetryDelays) > 0
  BY WebhookAssumption
<1>2. 1 + i \in 1 .. Len(RetryDelays)
  BY <1>1
<1>3. BaseDelay(n) = RetryDelays[1 + i]
  BY DEF BaseDelay
<1>4. RetryDelays[1 + i] \in Nat
  BY <1>2, WebhookAssumption
<1>5. BaseDelay(n) \in Nat
  BY <1>3, <1>4
<1> QED
  BY <1>5 DEF NextRetryDelay

\* The rows that the UPDATEs of a delivery write have the type of a row.
LEMMA RowType ==
    ASSUME NEW d \in Deliveries, TablesOK,
           NEW t \in Nat, NEW x \in BOOLEAN
    PROVE  /\ [delivery EXCEPT ![d] = SuccessRow(@)] \in [Deliveries -> DeliveryRow]
           /\ [delivery EXCEPT ![d] = FailureRow(@, t, x)] \in [Deliveries -> DeliveryRow]
<1>1. delivery[d] \in DeliveryRow /\ delivery \in [Deliveries -> DeliveryRow]
  BY DEF TablesOK
<1>2. SuccessRow(delivery[d]) \in DeliveryRow
  BY <1>1 DEF SuccessRow, DeliveryRow
<1>3. FailureRow(delivery[d], t, x) \in DeliveryRow
  BY <1>1 DEF FailureRow, DeliveryRow
<1> QED
  BY <1>1, <1>2, <1>3

\* The empty tables have their types.
LEMMA TypeInit == Init => TypeOK
<1> SUFFICES ASSUME Init PROVE TypeOK
  OBVIOUS
<1>1. TablesOK
  BY DEF Init, TablesOK, NoEndpoint, NoDelivery, EndpointRow, DeliveryRow
<1>2. ProcessOK
  BY DEF Init, ProcessOK, WorkerStep, Call
<1>3. CountsOK
  BY WebhookAssumption DEF Init, CountsOK
<1>4. HandOK
  BY DEF Init, HandOK
<1> QED
  BY <1>1, <1>2, <1>3, <1>4 DEF TypeOK

\* The steps of a worker keep the types.
LEMMA TypeWork ==
    ASSUME TypeOK, NEW w \in Workers, Work(w) \/ Stop(w)
    PROVE  TypeOK'
<1>0. TablesOK /\ ProcessOK /\ CountsOK /\ HandOK
  BY DEF TypeOK
<1>c. ASSUME faults' = faults \/ Fault, UNCHANGED <<resets, receiver>>
      PROVE  CountsOK'
  BY <1>0, <1>c, WebhookAssumption DEF CountsOK, Fault, receiver
<1>e. ASSUME EndDelivery(w) PROVE ProcessOK' /\ HandOK'
  BY <1>0, <1>e DEF ProcessOK, HandOK, EndDelivery, WorkerStep
<1>1. CASE GetPendingDeliveries(w)
  <2>1. TablesOK'
    BY <1>0, <1>1 DEF GetPendingDeliveries, TablesOK
  <2>2. ProcessOK'
    <3>1. PICK S \in SUBSET Due :
              batch' = [batch EXCEPT ![w] =
                  {[d |-> d, attempts |-> delivery[d].attempts] : d \in S}]
      BY <1>1 DEF GetPendingDeliveries
    <3>2. \A d \in S : d \in Deliveries /\ delivery[d].attempts \in Nat
      BY <1>0 DEF Due, TablesOK, DeliveryRow
    <3>3. {[d |-> d, attempts |-> delivery[d].attempts] : d \in S} \subseteq Snapshot
      BY <3>2 DEF Snapshot
    <3> QED
      BY <1>0, <1>1, <3>1, <3>3 DEF GetPendingDeliveries, ProcessOK
  <2>3. CountsOK'
    BY <1>1, <1>c DEF GetPendingDeliveries
  <2>4. HandOK'
    BY <1>0, <1>1 DEF GetPendingDeliveries, HandOK
  <2> QED
    BY <2>1, <2>2, <2>3, <2>4 DEF TypeOK
<1>2. CASE GetEndpoint(w)
  <2>1. TablesOK'
    BY <1>0, <1>2 DEF GetEndpoint, TablesOK
  <2>2. ProcessOK'
    BY <1>0, <1>2 DEF GetEndpoint, ProcessOK, WorkerStep
  <2>3. CountsOK'
    BY <1>2, <1>c DEF GetEndpoint, NoFault
  <2>4. HandOK'
    BY <1>0, <1>2 DEF GetEndpoint, HandOK, ProcessOK
  <2> QED
    BY <2>1, <2>2, <2>3, <2>4 DEF TypeOK
<1>3. CASE Post(w)
  <2>1. TablesOK'
    BY <1>0, <1>3 DEF Post, TablesOK
  <2>2. ProcessOK'
    BY <1>0, <1>3 DEF Post, ProcessOK, WorkerStep
  <2>3. CountsOK'
    <3>1. PICK s \in cur[w] :
              /\ posts' = [posts EXCEPT ![s.d] = @ + 1]
              /\ late' = IF IsActive(EndpointOf(s.d)) THEN late
                         ELSE [late EXCEPT ![EndpointOf(s.d)] = @ + 1]
              /\ accepted' = accepted \/ accepted' = accepted \cup {s.d}
      BY <1>3 DEF Post
    <3>2. s.d \in Deliveries /\ EndpointOf(s.d) \in Endpoints
      BY <1>0 DEF ProcessOK, Snapshot, Deliveries, EndpointOf
    <3>3. posts' \in [Deliveries -> Nat]
      BY <1>0, <3>1, <3>2 DEF CountsOK
    <3>4. late' \in [Endpoints -> Nat]
      BY <1>0, <3>1, <3>2 DEF CountsOK
    <3>5. accepted' \subseteq Deliveries
      BY <1>0, <3>1, <3>2 DEF CountsOK
    <3>6. faults' \in 0 .. MaxFaults /\ resets' \in 0 .. MaxResets
      BY <1>0, <1>3 DEF CountsOK, Post
    <3> QED
      BY <3>3, <3>4, <3>5, <3>6 DEF CountsOK
  <2>4. HandOK'
    BY <1>0, <1>3 DEF Post, HandOK, ProcessOK
  <2> QED
    BY <2>1, <2>2, <2>3, <2>4 DEF TypeOK
<1>4. CASE UpdateDeliverySuccess(w)
  <2>1. TablesOK'
    <3>1. PICK s \in cur[w] :
              \/ delivery' = [delivery EXCEPT ![s.d] = SuccessRow(@)]
              \/ delivery' = delivery
      BY <1>4 DEF UpdateDeliverySuccess
    <3>2. s.d \in Deliveries
      BY <1>0 DEF ProcessOK, Snapshot
    <3>3. endpoint' = endpoint
      BY <1>4 DEF UpdateDeliverySuccess, EndDelivery
    <3> QED
      BY <1>0, <3>1, <3>2, <3>3, RowType DEF TablesOK
  <2>2. CountsOK'
    BY <1>4, <1>c DEF UpdateDeliverySuccess, EndDelivery, NoFault
  <2> QED
    BY <1>4, <1>e, <2>1, <2>2 DEF TypeOK, UpdateDeliverySuccess
<1>5. CASE HandleDeliveryError(w)
  <2>1. TablesOK'
    <3>1. PICK s \in cur[w] :
              \/ \E t \in NextRetryDelay(s.attempts + 1) :
                     delivery' = [delivery EXCEPT ![s.d] =
                                     FailureRow(@, t, IsExhausted(s.attempts + 1))]
              \/ delivery' = delivery
      BY <1>5 DEF HandleDeliveryError
    <3>2. s.d \in Deliveries /\ s.attempts + 1 \in Nat
      BY <1>0 DEF ProcessOK, Snapshot
    <3>3. IsExhausted(s.attempts + 1) \in BOOLEAN
      BY DEF IsExhausted
    <3>4. endpoint' = endpoint
      BY <1>5 DEF HandleDeliveryError, EndDelivery
    <3> QED
      BY <1>0, <3>1, <3>2, <3>3, <3>4, RowType, DelayType DEF TablesOK
  <2>2. CountsOK'
    BY <1>5, <1>c DEF HandleDeliveryError, EndDelivery, NoFault
  <2> QED
    BY <1>5, <1>e, <2>1, <2>2 DEF TypeOK, HandleDeliveryError
<1>6. CASE CloseDelivery(w)
  <2>1. TablesOK'
    <3>1. PICK s \in cur[w] :
              \/ delivery' = [delivery EXCEPT ![s.d] = FailureRow(@, 0, TRUE)]
              \/ delivery' = delivery
      BY <1>6 DEF CloseDelivery
    <3>4. 0 \in Nat /\ TRUE \in BOOLEAN
      OBVIOUS
    <3>2. s.d \in Deliveries
      BY <1>0 DEF ProcessOK, Snapshot
    <3>3. endpoint' = endpoint
      BY <1>6 DEF CloseDelivery, EndDelivery
    <3>5. [delivery EXCEPT ![s.d] = FailureRow(@, 0, TRUE)] \in [Deliveries -> DeliveryRow]
      BY <1>0, <3>2, <3>4, RowType
    <3> QED
      BY <1>0, <3>1, <3>3, <3>5 DEF TablesOK
  <2>2. CountsOK'
    BY <1>6, <1>c DEF CloseDelivery, EndDelivery, NoFault
  <2> QED
    BY <1>6, <1>e, <2>1, <2>2 DEF TypeOK, CloseDelivery
<1>7. CASE Stop(w)
  <2>1. TablesOK' /\ ProcessOK' /\ HandOK'
    BY <1>0, <1>7 DEF Stop, TablesOK, ProcessOK, HandOK, WorkerStep
  <2>2. CountsOK'
    BY <1>7, <1>c DEF Stop
  <2> QED
    BY <2>1, <2>2 DEF TypeOK
<1> QED
  BY <1>1, <1>2, <1>3, <1>4, <1>5, <1>6, <1>7 DEF Work

\* The steps of the publisher, the API and the clock keep the types.
LEMMA TypeOther ==
    ASSUME TypeOK,
           \/ \E ev \in Events : PublishClickEvent(ev)
           \/ \E d \in Deliveries : CreateDelivery(d)
           \/ Request
           \/ \E c \in Callers : Finish(c)
           \/ Tick
    PROVE  TypeOK'
<1>0. TablesOK /\ ProcessOK /\ CountsOK /\ HandOK
  BY DEF TypeOK
<1>c. ASSUME faults' = faults \/ Fault, UNCHANGED <<resets, receiver>>
      PROVE  CountsOK'
  BY <1>0, <1>c, WebhookAssumption DEF CountsOK, Fault, receiver
<1>h. ASSUME UNCHANGED worker PROVE HandOK'
  BY <1>0, <1>h DEF HandOK, worker
<1>1. ASSUME NEW ev \in Events, PublishClickEvent(ev) PROVE TypeOK'
  <2>1. TablesOK' /\ CountsOK' /\ HandOK'
    BY <1>0, <1>1, <1>c, <1>h DEF PublishClickEvent, TablesOK
  <2>2. ProcessOK'
    BY <1>0, <1>1 DEF PublishClickEvent, ProcessOK, worker, Deliveries
  <2> QED
    BY <2>1, <2>2 DEF TypeOK
<1>2. ASSUME NEW d \in Deliveries, CreateDelivery(d) PROVE TypeOK'
  <2>1. InsertDelivery(d) \in [Deliveries -> DeliveryRow]
    BY <1>0 DEF InsertDelivery, TablesOK, DeliveryRow
  <2>2. TablesOK'
    BY <1>0, <1>2, <2>1 DEF CreateDelivery, TablesOK
  <2>3. CountsOK' /\ HandOK'
    BY <1>2, <1>c, <1>h DEF CreateDelivery, NoFault
  <2>4. ProcessOK'
    BY <1>0, <1>2 DEF CreateDelivery, ProcessOK, worker
  <2> QED
    BY <2>2, <2>3, <2>4 DEF TypeOK
<1>3. ASSUME NEW e \in Endpoints, CreateEndpoint(e) \/ DeleteEndpoint(e) PROVE TypeOK'
  <2>1. TablesOK'
    <3>1. CASE CreateEndpoint(e)
      BY <1>0, <3>1 DEF CreateEndpoint, TablesOK, EndpointRow
    <3>2. CASE DeleteEndpoint(e)
      BY <1>0, <3>2 DEF DeleteEndpoint, TablesOK, EndpointRow
    <3> QED
      BY <1>3, <3>1, <3>2
  <2>2. CountsOK' /\ HandOK'
    BY <1>3, <1>c, <1>h DEF CreateEndpoint, DeleteEndpoint
  <2>3. ProcessOK'
    BY <1>0, <1>3 DEF CreateEndpoint, DeleteEndpoint, ProcessOK, worker
  <2> QED
    BY <2>1, <2>2, <2>3 DEF TypeOK
<1>4. ASSUME NEW c \in Callers,
             \/ \E e \in Endpoints, en \in BOOLEAN : UpdateRead(c, e, en)
             \/ \E e \in Endpoints, d \in Deliveries : RetryRead(c, e, d)
      PROVE  TypeOK'
  <2>1. TablesOK'
    BY <1>0, <1>4 DEF UpdateRead, RetryRead, TablesOK
  <2>2. CountsOK' /\ HandOK'
    BY <1>4, <1>c, <1>h DEF UpdateRead, RetryRead
  <2>3. \E x \in Call : call' = [call EXCEPT ![c] = x]
    BY <1>4 DEF UpdateRead, RetryRead, Call
  <2>4. ProcessOK'
    BY <1>0, <1>4, <2>3 DEF UpdateRead, RetryRead, ProcessOK, worker
  <2> QED
    BY <2>1, <2>2, <2>4 DEF TypeOK
<1>5. ASSUME NEW c \in Callers, UpdateEndpoint(c) PROVE TypeOK'
  <2>1. call[c] \in [op : {"patch"}, e : Endpoints, enabled : BOOLEAN]
    BY <1>0, <1>5 DEF UpdateEndpoint, ProcessOK, Call, NoCall
  <2>2. endpoint' \in [Endpoints -> EndpointRow]
    BY <1>0, <1>5, <2>1 DEF UpdateEndpoint, TablesOK, EndpointRow
  <2>3. TablesOK'
    BY <1>0, <1>5, <2>2 DEF UpdateEndpoint, TablesOK
  <2>4. CountsOK'
    <3>1. late' \in [Endpoints -> Nat]
      BY <1>0, <1>5 DEF UpdateEndpoint, CountsOK
    <3> QED
      BY <1>0, <1>5, <3>1 DEF UpdateEndpoint, CountsOK
  <2>6. HandOK'
    BY <1>5, <1>h DEF UpdateEndpoint
  <2>5. ProcessOK'
    BY <1>0, <1>5 DEF UpdateEndpoint, ProcessOK, worker, Call
  <2> QED
    BY <2>3, <2>4, <2>5, <2>6 DEF TypeOK
<1>6. ASSUME NEW c \in Callers, ResetDeliveryForRetry(c) PROVE TypeOK'
  <2>1. call[c].d \in Deliveries
    BY <1>0, <1>6 DEF ResetDeliveryForRetry, ProcessOK, Call, NoCall
  <2>2. TablesOK'
    BY <1>0, <1>6, <2>1 DEF ResetDeliveryForRetry, TablesOK, DeliveryRow
  <2>3. CountsOK'
    BY <1>0, <1>6, WebhookAssumption DEF ResetDeliveryForRetry, CountsOK, receiver
  <2>4. HandOK'
    BY <1>6, <1>h DEF ResetDeliveryForRetry
  <2>5. ProcessOK'
    BY <1>0, <1>6 DEF ResetDeliveryForRetry, ProcessOK, worker, Call
  <2> QED
    BY <2>2, <2>3, <2>4, <2>5 DEF TypeOK
<1>7. CASE Tick
  <2>1. TablesOK'
    <3>1. ASSUME NEW d \in Deliveries
          PROVE  [delivery[d] EXCEPT !.due = IF @ > 0 THEN @ - 1 ELSE 0] \in DeliveryRow
      BY <1>0 DEF TablesOK, DeliveryRow
    <3>2. delivery' = [d \in Deliveries |->
                          [delivery[d] EXCEPT !.due = IF @ > 0 THEN @ - 1 ELSE 0]]
      BY <1>7 DEF Tick
    <3>3. delivery' \in [Deliveries -> DeliveryRow]
      BY <3>1, <3>2
    <3> QED
      BY <1>0, <1>7, <3>3 DEF Tick, TablesOK
  <2>2. CountsOK' /\ HandOK'
    BY <1>7, <1>c, <1>h DEF Tick
  <2>3. ProcessOK'
    BY <1>0, <1>7 DEF Tick, ProcessOK, worker
  <2> QED
    BY <2>1, <2>2, <2>3 DEF TypeOK
<1> QED
  BY <1>1, <1>2, <1>3, <1>4, <1>5, <1>6, <1>7 DEF Request, Finish

\* Every step keeps the types.
LEMMA TypeNext == TypeOK /\ [Next]_vars => TypeOK'
<1> SUFFICES ASSUME TypeOK, [Next]_vars PROVE TypeOK'
  OBVIOUS
<1>1. CASE UNCHANGED vars
  BY <1>1 DEF vars, TypeOK, TablesOK, ProcessOK, CountsOK, HandOK
<1>2. CASE Next
  BY <1>2, TypeWork, TypeOther DEF Next
<1> QED
  BY <1>1, <1>2

\* Every variable keeps its type, and a worker never has two deliveries in
\* hand (the tables, the workers, the publishers and the API calls).
THEOREM TypeCorrect == Spec => []TypeOK
BY TypeInit, TypeNext, PTL DEF Spec

(***************************************************************************)
(* A recorded success was accepted, for any number of workers.             *)
(***************************************************************************)

\* Every step keeps SuccessInv: a success is written by a worker that has seen
\* the 2xx, and no other step makes one.
LEMMA SuccessNext == TypeOK /\ SuccessInv /\ [Next]_vars => SuccessInv'
<1> SUFFICES ASSUME TypeOK, SuccessInv, [Next]_vars PROVE SuccessInv'
  OBVIOUS
<1>0. TablesOK /\ ProcessOK /\ CountsOK /\ HandOK
  BY DEF TypeOK
<1>1. ASSUME accepted \subseteq accepted', UNCHANGED worker,
             \A d \in Deliveries : delivery'[d].status = "success" =>
                                   delivery[d].status = "success"
      PROVE  SuccessInv'
  BY <1>1 DEF SuccessInv, SuccessWasAccepted, worker
<1>2. CASE UNCHANGED vars
  BY <1>1, <1>2 DEF vars, worker
<1>3. ASSUME NEW w \in Workers, Work(w) \/ Stop(w) PROVE SuccessInv'
  <2>1. CASE GetPendingDeliveries(w)
    BY <2>1 DEF GetPendingDeliveries, SuccessInv, SuccessWasAccepted, receiver
  <2>2. CASE GetEndpoint(w)
    BY <1>0, <2>2 DEF GetEndpoint, SuccessInv, SuccessWasAccepted, receiver, ProcessOK
  <2>3. CASE Post(w)
    BY <1>0, <2>3 DEF Post, SuccessInv, SuccessWasAccepted, ProcessOK, HandOK
  <2>4. CASE UpdateDeliverySuccess(w)
    <3>1. PICK s \in cur[w] :
              \/ delivery' = [delivery EXCEPT ![s.d] = SuccessRow(@)]
              \/ delivery' = delivery
      BY <2>4 DEF UpdateDeliverySuccess
    <3>2. s.d \in accepted
      BY <2>4 DEF UpdateDeliverySuccess, SuccessInv
    <3>3. SuccessWasAccepted'
      BY <1>0, <2>4, <3>1, <3>2
         DEF UpdateDeliverySuccess, EndDelivery, SuccessInv, SuccessWasAccepted,
             receiver, TablesOK
    <3> QED
      BY <1>0, <2>4, <3>3
         DEF UpdateDeliverySuccess, EndDelivery, SuccessInv, receiver, ProcessOK
  <2>5. CASE HandleDeliveryError(w) \/ CloseDelivery(w)
    <3>1. PICK s \in cur[w] :
              \/ \E t, x : delivery' = [delivery EXCEPT ![s.d] = FailureRow(@, t, x)]
              \/ delivery' = delivery
      BY <2>5 DEF HandleDeliveryError, CloseDelivery
    <3>2. \A d \in Deliveries : delivery'[d].status = "success" =>
                                delivery[d].status = "success"
      <4>1. CASE delivery' = delivery
        BY <4>1
      <4>2. ASSUME NEW t, NEW x,
                   delivery' = [delivery EXCEPT ![s.d] = FailureRow(@, t, x)]
            PROVE  \A d \in Deliveries : delivery'[d].status = "success" =>
                                         delivery[d].status = "success"
        BY <1>0, <4>2 DEF FailureRow, TablesOK
      <4> QED
        BY <3>1, <4>1, <4>2
    <3>3. SuccessWasAccepted'
      BY <2>5, <3>2
         DEF HandleDeliveryError, CloseDelivery, EndDelivery, SuccessInv,
             SuccessWasAccepted, receiver
    <3> QED
      BY <1>0, <2>5, <3>3
         DEF HandleDeliveryError, CloseDelivery, EndDelivery, SuccessInv,
             receiver, ProcessOK
  <2>6. CASE Stop(w)
    BY <1>0, <2>6 DEF Stop, SuccessInv, SuccessWasAccepted, receiver, ProcessOK
  <2> QED
    BY <1>3, <2>1, <2>2, <2>3, <2>4, <2>5, <2>6 DEF Work
<1>4. ASSUME NEW ev \in Events, PublishClickEvent(ev) PROVE SuccessInv'
  BY <1>1, <1>4 DEF PublishClickEvent, receiver
<1>5. ASSUME NEW d \in Deliveries, CreateDelivery(d) PROVE SuccessInv'
  <2>1. \A x \in Deliveries : delivery'[x].status = "success" =>
                              delivery[x].status = "success"
    BY <1>0, <1>5 DEF CreateDelivery, InsertDelivery, TablesOK, DeliveryRow
  <2> QED
    BY <1>1, <1>5, <2>1 DEF CreateDelivery, receiver
<1>6. CASE Request
  BY <1>1, <1>6 DEF Request, CreateEndpoint, DeleteEndpoint, UpdateRead, RetryRead, receiver
<1>7. ASSUME NEW c \in Callers, Finish(c) PROVE SuccessInv'
  <2>1. CASE UpdateEndpoint(c)
    BY <1>1, <2>1 DEF UpdateEndpoint, receiver
  <2>2. CASE ResetDeliveryForRetry(c)
    <3>1. \A x \in Deliveries : delivery'[x].status = "success" =>
                                delivery[x].status = "success"
      BY <1>0, <2>2 DEF ResetDeliveryForRetry, TablesOK, DeliveryRow
    <3> QED
      BY <1>1, <2>2, <3>1 DEF ResetDeliveryForRetry, receiver
  <2> QED
    BY <1>7, <2>1, <2>2 DEF Finish
<1>8. CASE Tick
  BY <1>0, <1>1, <1>8 DEF Tick, receiver, TablesOK, DeliveryRow
<1> QED
  BY <1>2, <1>3, <1>4, <1>5, <1>6, <1>7, <1>8 DEF Next

\* A delivery recorded as success was accepted by its receiver, for any number
\* of workers racing on it (UpdateDeliverySuccess).
THEOREM SuccessCorrect == Spec => []SuccessWasAccepted
<1>1. Init => SuccessInv
  BY DEF Init, SuccessInv, SuccessWasAccepted, NoDelivery
<1>2. SuccessInv => SuccessWasAccepted
  BY DEF SuccessInv
<1> QED
  BY <1>1, <1>2, TypeCorrect, SuccessNext, PTL DEF Spec

(***************************************************************************)
(* One worker: it works on fresh snapshots, hence implements the life      *)
(* cycle.                                                                  *)
(***************************************************************************)

OneWorker == \A v, w \in Workers : v = w

\* Two snapshots in one worker's hands are of different deliveries, so an
\* UPDATE for the one does not touch the row of the other.
LEMMA OneSnapshot ==
    ASSUME TypeOK, FreshInv, NEW w \in Workers,
           NEW s \in InHand(w), NEW t \in InHand(w), s.d = t.d
    PROVE  s = t
<1>1. s \in Snapshot /\ t \in Snapshot
  BY DEF TypeOK, ProcessOK, InHand
<1>2. s.attempts = t.attempts
  BY DEF FreshInv, SnapshotFresh
<1> QED
  BY <1>1, <1>2 DEF Snapshot

\* A worker that ends a delivery leaves its batch as fresh as it was.
LEMMA FreshEnd ==
    ASSUME OneWorker, TypeOK, FreshInv, NEW w \in Workers, EndDelivery(w),
           NEW s \in cur[w],
           \A d \in Deliveries : d # s.d => delivery'[d] = delivery[d]
    PROVE  FreshInv'
<1>1. cur'[w] = {} /\ batch' = batch
  BY DEF EndDelivery, TypeOK, ProcessOK
<1>2. ASSUME NEW t \in batch[w]
      PROVE  /\ t.d \in Deliveries
             /\ delivery'[t.d] = delivery[t.d]
  <2>1. t # s /\ t.d \in Deliveries
    BY <1>2 DEF FreshInv, TypeOK, ProcessOK, Snapshot
  <2>2. t.d # s.d
    BY <1>2, <2>1, OneSnapshot DEF InHand
  <2> QED
    BY <2>1, <2>2
<1>3. \A t \in batch[w] : /\ delivery'[t.d].status \in {"pending", "failed"}
                          /\ delivery'[t.d].due = 0
                          /\ delivery'[t.d].attempts = t.attempts
  BY <1>2 DEF FreshInv, SnapshotFresh, InHand, IsWaiting
<1> QED
  BY <1>1, <1>3 DEF FreshInv, SnapshotFresh, InHand, IsWaiting, OneWorker

\* A step that leaves the workers alone, and the rows that wait and are due,
\* leaves their snapshots fresh.
LEMMA FreshFrame ==
    ASSUME TypeOK, FreshInv, UNCHANGED worker,
           \A d \in Deliveries : IsWaiting(d) /\ delivery[d].due = 0 =>
                                     delivery'[d] = delivery[d]
    PROVE  FreshInv'
<1>1. \A w \in Workers : \A s \in InHand(w) : s.d \in Deliveries
  BY DEF TypeOK, ProcessOK, InHand, Snapshot
<1> QED
  BY <1>1 DEF FreshInv, SnapshotFresh, InHand, IsWaiting, worker

\* Every step keeps the snapshots fresh.
LEMMA FreshNext == OneWorker /\ TypeOK /\ FreshInv /\ [Next]_vars => FreshInv'
<1> SUFFICES ASSUME OneWorker, TypeOK, FreshInv, [Next]_vars PROVE FreshInv'
  OBVIOUS
<1>0. TablesOK /\ ProcessOK /\ CountsOK /\ HandOK
  BY DEF TypeOK
<1>2. CASE UNCHANGED vars
  BY <1>2, FreshFrame DEF vars, worker
<1>3. ASSUME NEW w \in Workers, Work(w) \/ Stop(w) PROVE FreshInv'
  <2>1. CASE GetPendingDeliveries(w)
    <3>1. PICK S \in SUBSET Due :
              batch' = [batch EXCEPT ![w] =
                  {[d |-> d, attempts |-> delivery[d].attempts] : d \in S}]
      BY <2>1 DEF GetPendingDeliveries
    <3>2. cur[w] = {} /\ cur' = cur /\ delivery' = delivery
      BY <1>0, <2>1 DEF GetPendingDeliveries, HandOK
    <3>3. \A s \in batch'[w] : /\ delivery[s.d].status \in {"pending", "failed"}
                               /\ delivery[s.d].due = 0
                               /\ delivery[s.d].attempts = s.attempts
      BY <1>0, <3>1 DEF Due, IsWaiting, ProcessOK
    <3> QED
      BY <3>2, <3>3 DEF FreshInv, SnapshotFresh, InHand, IsWaiting, OneWorker
  <2>2. CASE GetEndpoint(w)
    BY <1>0, <2>2 DEF GetEndpoint, FreshInv, SnapshotFresh, InHand, IsWaiting,
                      OneWorker, ProcessOK, HandOK
  <2>3. CASE Post(w)
    BY <1>0, <2>3 DEF Post, FreshInv, SnapshotFresh, InHand, IsWaiting
  <2>4. CASE UpdateDeliverySuccess(w)
    <3>1. PICK s \in cur[w] :
              \/ delivery' = [delivery EXCEPT ![s.d] = SuccessRow(@)]
              \/ delivery' = delivery
      BY <2>4 DEF UpdateDeliverySuccess
    <3>2. \A d \in Deliveries : d # s.d => delivery'[d] = delivery[d]
      BY <1>0, <3>1 DEF TablesOK
    <3> QED
      BY <2>4, <3>2, FreshEnd DEF UpdateDeliverySuccess
  <2>5. CASE HandleDeliveryError(w) \/ CloseDelivery(w)
    <3>1. PICK s \in cur[w] :
              \/ \E t, x : delivery' = [delivery EXCEPT ![s.d] = FailureRow(@, t, x)]
              \/ delivery' = delivery
      BY <2>5 DEF HandleDeliveryError, CloseDelivery
    <3>2. \A d \in Deliveries : d # s.d => delivery'[d] = delivery[d]
      BY <1>0, <3>1 DEF TablesOK
    <3>3. EndDelivery(w)
      BY <2>5 DEF HandleDeliveryError, CloseDelivery
    <3> QED
      BY <3>2, <3>3, FreshEnd
  <2>6. CASE Stop(w)
    BY <1>0, <2>6 DEF Stop, FreshInv, SnapshotFresh, InHand, IsWaiting, OneWorker, ProcessOK
  <2> QED
    BY <1>3, <2>1, <2>2, <2>3, <2>4, <2>5, <2>6 DEF Work
<1>4. ASSUME NEW ev \in Events, PublishClickEvent(ev) PROVE FreshInv'
  BY <1>4, FreshFrame DEF PublishClickEvent
<1>5. ASSUME NEW d \in Deliveries, CreateDelivery(d) PROVE FreshInv'
  <2>1. \A x \in Deliveries : IsWaiting(x) /\ delivery[x].due = 0 =>
                                  delivery'[x] = delivery[x]
    BY <1>0, <1>5 DEF CreateDelivery, InsertDelivery, IsWaiting, TablesOK
  <2> QED
    BY <1>5, <2>1, FreshFrame DEF CreateDelivery
<1>6. CASE Request
  BY <1>6, FreshFrame DEF Request, CreateEndpoint, DeleteEndpoint, UpdateRead, RetryRead
<1>7. ASSUME NEW c \in Callers, Finish(c) PROVE FreshInv'
  <2>1. CASE UpdateEndpoint(c)
    BY <2>1, FreshFrame DEF UpdateEndpoint
  <2>2. CASE ResetDeliveryForRetry(c)
    <3>1. \A x \in Deliveries : IsWaiting(x) /\ delivery[x].due = 0 =>
                                    delivery'[x] = delivery[x]
      BY <1>0, <2>2 DEF ResetDeliveryForRetry, IsWaiting, TablesOK
    <3> QED
      BY <2>2, <3>1, FreshFrame DEF ResetDeliveryForRetry
  <2> QED
    BY <1>7, <2>1, <2>2 DEF Finish
<1>8. CASE Tick
  <2>1. ASSUME NEW x \in Deliveries, delivery[x].due = 0
        PROVE  delivery'[x] = delivery[x]
    BY <1>0, <1>8, <2>1 DEF Tick, TablesOK, DeliveryRow
  <2> QED
    BY <1>8, <2>1, FreshFrame DEF Tick
<1> QED
  BY <1>2, <1>3, <1>4, <1>5, <1>6, <1>7, <1>8 DEF Next

\* With one worker, what it holds of a delivery is what the row says, from the
\* fetch to the UPDATE (GetPendingDeliveries, handleDeliveryError).
THEOREM SnapshotCorrect == OneWorker => (Spec => []SnapshotFresh)
<1> SUFFICES ASSUME OneWorker PROVE Spec => []SnapshotFresh
  OBVIOUS
<1>1. Init => FreshInv
  BY DEF Init, FreshInv, SnapshotFresh, InHand
<1>2. FreshInv => SnapshotFresh
  BY DEF FreshInv
<1>3. TypeOK /\ FreshInv /\ [Next]_vars => FreshInv'
  BY FreshNext
<1> QED
  BY <1>1, <1>2, <1>3, TypeCorrect, PTL DEF Spec

\* A step that changes no status and no count is a stutter of the life cycle.
LEMMA LifecycleFrame ==
    ASSUME TypeOK,
           \A d \in Deliveries : /\ delivery'[d].status = delivery[d].status
                                 /\ delivery'[d].attempts = delivery[d].attempts
    PROVE  UNCHANGED Lifecycle!lifecycle
BY DEF Lifecycle!lifecycle, Status, Attempts

\* An UPDATE of the delivery in hand is an attempt of the life cycle.
LEMMA LifecycleAttempt ==
    ASSUME TypeOK, NEW d \in Deliveries, IsWaiting(d),
           NEW r \in DeliveryRow, delivery' = [delivery EXCEPT ![d] = r],
           r.attempts = delivery[d].attempts + 1,
           r.status \in {"success", "failed", "exhausted"},
           r.status = "failed" => r.attempts < MaxAttempts
    PROVE  Lifecycle!LNext
<1>1. delivery \in [Deliveries -> DeliveryRow]
  BY DEF TypeOK, TablesOK
<1>2. Status' = [Status EXCEPT ![d] = r.status]
  BY <1>1 DEF Status
<1>3. Attempts' = [Attempts EXCEPT ![d] = @ + 1]
  BY <1>1 DEF Attempts
<1>4. Lifecycle!Attempt(d, r.status)
  BY <1>2, <1>3 DEF Lifecycle!Attempt, Lifecycle!IsWaiting, IsWaiting, Status, Attempts
<1> QED
  BY <1>4 DEF Lifecycle!LNext

\* Every step of the system is a step of the life cycle or a stutter.
LEMMA LifecycleNext ==
    ASSUME OneWorker, TypeOK, FreshInv, [Next]_vars
    PROVE  Lifecycle!LNext \/ UNCHANGED Lifecycle!lifecycle
<1>0. TablesOK /\ ProcessOK /\ CountsOK /\ HandOK
  BY DEF TypeOK
<1>1. ASSUME UNCHANGED delivery PROVE UNCHANGED Lifecycle!lifecycle
  BY <1>1, LifecycleFrame
<1>2. ASSUME NEW w \in Workers, Work(w) \/ Stop(w)
      PROVE  Lifecycle!LNext \/ UNCHANGED Lifecycle!lifecycle
  <2>0. ASSUME NEW s \in cur[w]
        PROVE  /\ s.d \in Deliveries /\ IsWaiting(s.d)
               /\ delivery[s.d].attempts = s.attempts /\ s.attempts \in Nat
               /\ delivery[s.d] \in DeliveryRow
    BY <1>0, <2>0 DEF FreshInv, SnapshotFresh, InHand, ProcessOK, Snapshot, TablesOK
  <2>1. CASE GetPendingDeliveries(w) \/ GetEndpoint(w) \/ Post(w) \/ Stop(w)
    BY <1>1, <2>1 DEF GetPendingDeliveries, GetEndpoint, Post, Stop
  <2>2. CASE UpdateDeliverySuccess(w)
    <3>1. PICK s \in cur[w] :
              \/ delivery' = [delivery EXCEPT ![s.d] = SuccessRow(delivery[s.d])]
              \/ delivery' = delivery
      BY <2>2 DEF UpdateDeliverySuccess
    <3>2. /\ SuccessRow(delivery[s.d]) \in DeliveryRow
          /\ SuccessRow(delivery[s.d]).attempts = delivery[s.d].attempts + 1
          /\ SuccessRow(delivery[s.d]).status = "success"
      BY <2>0 DEF SuccessRow, DeliveryRow
    <3> QED
      BY <1>1, <2>0, <3>1, <3>2, LifecycleAttempt
  <2>3. CASE HandleDeliveryError(w)
    <3>1. PICK s \in cur[w] :
              \/ \E t \in NextRetryDelay(s.attempts + 1) :
                     delivery' = [delivery EXCEPT ![s.d] =
                         FailureRow(delivery[s.d], t, IsExhausted(s.attempts + 1))]
              \/ delivery' = delivery
      BY <2>3 DEF HandleDeliveryError
    <3>2. ASSUME NEW t \in NextRetryDelay(s.attempts + 1),
                 delivery' = [delivery EXCEPT ![s.d] =
                         FailureRow(delivery[s.d], t, IsExhausted(s.attempts + 1))]
          PROVE  Lifecycle!LNext
      <4> DEFINE r == FailureRow(delivery[s.d], t, IsExhausted(s.attempts + 1))
      <4>1. t \in Nat
        BY <2>0, DelayType
      <4>2. r \in DeliveryRow
        BY <2>0, <4>1 DEF FailureRow, DeliveryRow
      <4>3. r.attempts = delivery[s.d].attempts + 1
        BY DEF FailureRow
      <4>4. r.status \in {"success", "failed", "exhausted"}
        BY DEF FailureRow
      <4>5. r.status = "failed" => r.attempts < MaxAttempts
        BY <2>0, WebhookAssumption DEF FailureRow, IsExhausted
      <4> HIDE DEF r
      <4> QED
        BY <2>0, <3>2, <4>2, <4>3, <4>4, <4>5, LifecycleAttempt DEF r
    <3> QED
      BY <1>1, <3>1, <3>2
  <2>4. CASE CloseDelivery(w)
    <3>1. PICK s \in cur[w] :
              \/ delivery' = [delivery EXCEPT ![s.d] = FailureRow(delivery[s.d], 0, TRUE)]
              \/ delivery' = delivery
      BY <2>4 DEF CloseDelivery
    <3>2. /\ FailureRow(delivery[s.d], 0, TRUE) \in DeliveryRow
          /\ FailureRow(delivery[s.d], 0, TRUE).attempts = delivery[s.d].attempts + 1
          /\ FailureRow(delivery[s.d], 0, TRUE).status = "exhausted"
      BY <2>0 DEF FailureRow, DeliveryRow
    <3> QED
      BY <1>1, <2>0, <3>1, <3>2, LifecycleAttempt
  <2> QED
    BY <1>2, <2>1, <2>2, <2>3, <2>4 DEF Work
<1>3. ASSUME NEW d \in Deliveries, CreateDelivery(d)
      PROVE  Lifecycle!LNext \/ UNCHANGED Lifecycle!lifecycle
  <2>1. CASE UNCHANGED delivery
    BY <1>1, <2>1
  <2>2. CASE /\ delivery[d].status = "absent"
             /\ delivery' = [delivery EXCEPT ![d].status = "pending"]
    <3>1. Status' = [Status EXCEPT ![d] = "pending"] /\ Attempts' = Attempts
      BY <1>0, <2>2 DEF Status, Attempts, TablesOK, DeliveryRow
    <3>2. Lifecycle!Enqueue(d)
      BY <2>2, <3>1 DEF Lifecycle!Enqueue, Status
    <3> QED
      BY <3>2 DEF Lifecycle!LNext
  <2> QED
    BY <1>3, <2>1, <2>2 DEF CreateDelivery, InsertDelivery
<1>4. ASSUME NEW c \in Callers, ResetDeliveryForRetry(c)
      PROVE  Lifecycle!LNext \/ UNCHANGED Lifecycle!lifecycle
  <2> DEFINE d == call[c].d
  <2>0. d \in Deliveries
    BY <1>0, <1>4 DEF ResetDeliveryForRetry, ProcessOK, Call, NoCall
  <2>1. CASE UNCHANGED delivery
    BY <1>1, <2>1
  <2>2. CASE /\ delivery[d].status = "exhausted"
             /\ delivery' = [delivery EXCEPT ![d].status = "pending", ![d].due = 0]
    <3>1. Status' = [Status EXCEPT ![d] = "pending"] /\ Attempts' = Attempts
      BY <1>0, <2>0, <2>2 DEF Status, Attempts, TablesOK, DeliveryRow
    <3>2. Lifecycle!Retry(d)
      BY <2>0, <2>2, <3>1 DEF Lifecycle!Retry, Status
    <3> QED
      BY <2>0, <3>2 DEF Lifecycle!LNext
  <2> QED
    BY <1>4, <2>1, <2>2 DEF ResetDeliveryForRetry
<1>5. CASE Tick
  BY <1>0, <1>5, LifecycleFrame DEF Tick, TablesOK, DeliveryRow
<1>6. ASSUME \/ \E ev \in Events : PublishClickEvent(ev)
             \/ Request
             \/ \E c \in Callers : UpdateEndpoint(c)
             \/ UNCHANGED vars
      PROVE  UNCHANGED Lifecycle!lifecycle
  BY <1>1, <1>6 DEF PublishClickEvent, Request, CreateEndpoint, DeleteEndpoint,
                    UpdateRead, RetryRead, UpdateEndpoint, vars
<1> QED
  BY <1>2, <1>3, <1>4, <1>5, <1>6 DEF Next, Finish

\* With one worker the system implements the life cycle of a delivery: success
\* is final, the attempt that reaches max_attempts exhausts, and only a manual
\* retry reopens (status and attempt_count of webhook_deliveries).
THEOREM LifecycleCorrect == OneWorker => (Spec => ImplementsLifecycle)
<1> SUFFICES ASSUME OneWorker PROVE Spec => ImplementsLifecycle
  OBVIOUS
<1>1. Init => Lifecycle!LInit
  BY DEF Init, Lifecycle!LInit, Status, Attempts, NoDelivery
<1>2. TypeOK /\ FreshInv /\ [Next]_vars => [Lifecycle!LNext]_(Lifecycle!lifecycle)
  BY LifecycleNext
<1>3. Init => FreshInv
  BY DEF Init, FreshInv, SnapshotFresh, InHand
<1>4. TypeOK /\ FreshInv /\ [Next]_vars => FreshInv'
  BY FreshNext
<1> QED
  BY <1>1, <1>2, <1>3, <1>4, TypeCorrect, PTL
     DEF Spec, ImplementsLifecycle, Lifecycle!LSpec

(***************************************************************************)
(* One worker: a bound on the POSTs of a delivery.                         *)
(***************************************************************************)

\* The step that ends a delivery counts its POST, or spends a fault on it.
LEMMA CountEnd ==
    ASSUME OneWorker, TypeOK, TypeOK', FreshInv, CountInv,
           NEW w \in Workers, EndDelivery(w), NEW s \in cur[w],
           \/ /\ faults' = faults
              /\ delivery'[s.d].attempts = delivery[s.d].attempts + 1
              /\ delivery'[s.d].status = "failed" =>
                     delivery'[s.d].attempts < MaxAttempts
              /\ delivery'[s.d].status \in {"success", "failed", "exhausted"}
           \/ faults' = faults + 1 /\ delivery'[s.d] = delivery[s.d],
           \A d \in Deliveries : d # s.d => delivery'[d] = delivery[d]
    PROVE  CountInv'
<1>0. /\ s.d \in Deliveries /\ IsWaiting(s.d)
      /\ faults \in Nat /\ faults' \in Nat /\ resets \in Nat
      /\ resets' = resets /\ posts' = posts
      /\ cur'[w] = {}
  BY WebhookAssumption
     DEF TypeOK, ProcessOK, CountsOK, FreshInv, SnapshotFresh, InHand, Snapshot,
         EndDelivery, receiver
<1>1. ~ \E d \in Deliveries : Sent(d)'
  BY <1>0 DEF Sent, OneWorker
<1>2. cur[w] = {s}
  BY DEF TypeOK, HandOK
<1>3. \A d \in Deliveries : d # s.d => ~Sent(d)
  BY <1>2 DEF Sent, OneWorker
<1> SUFFICES ASSUME NEW d \in Deliveries
             PROVE  /\ delivery'[d].attempts <= MaxAttempts + resets'
                    /\ ~IsTerminal(d)' => delivery'[d].attempts < MaxAttempts + resets'
                    /\ posts'[d] <= delivery'[d].attempts + faults'
                                      + (IF Sent(d)' THEN 1 ELSE 0)
  BY DEF CountInv
<1>4. /\ delivery[d].attempts \in Nat /\ delivery'[d].attempts \in Nat
      /\ posts[d] \in Nat /\ MaxAttempts \in Nat
  BY WebhookAssumption DEF TypeOK, TablesOK, CountsOK, DeliveryRow
<1>5. /\ delivery[d].attempts <= MaxAttempts + resets
      /\ ~IsTerminal(d) => delivery[d].attempts < MaxAttempts + resets
      /\ posts[d] <= delivery[d].attempts + faults + (IF Sent(d) THEN 1 ELSE 0)
  BY DEF CountInv
<1>6. CASE d # s.d
  <2>1. delivery'[d] = delivery[d] /\ ~Sent(d) /\ ~Sent(d)'
    BY <1>1, <1>3, <1>6
  <2>2. posts[d] <= delivery[d].attempts + faults
    BY <1>0, <1>4, <1>5, <2>1
  <2> QED
    BY <1>0, <1>4, <1>5, <2>1, <2>2 DEF IsTerminal
<1>7. CASE d = s.d
  <2>1. delivery[d].attempts < MaxAttempts + resets
    BY <1>0, <1>5, <1>7 DEF IsWaiting, IsTerminal
  <2>2. posts[d] <= delivery[d].attempts + faults + 1
    BY <1>0, <1>4, <1>5
  <2>3. ~Sent(d)'
    BY <1>1
  <2>4. posts[d] <= delivery'[d].attempts + faults'
    BY <1>0, <1>4, <1>7, <2>2
  <2>5. delivery'[d].attempts <= MaxAttempts + resets
    BY <1>0, <1>4, <1>7, <2>1
  <2>6. ~IsTerminal(d)' => delivery'[d].attempts < MaxAttempts + resets
    BY <1>0, <1>4, <1>7, <2>1 DEF IsTerminal
  <2> QED
    BY <1>0, <1>4, <2>3, <2>4, <2>5, <2>6
<1> QED
  BY <1>6, <1>7

\* A step that sends nothing and counts nothing keeps the counts.
LEMMA CountFrame ==
    ASSUME TypeOK, TypeOK', CountInv, posts' = posts, resets <= resets', faults <= faults',
           \A d \in Deliveries :
               /\ delivery'[d].attempts = delivery[d].attempts
               /\ IsTerminal(d) /\ ~IsTerminal(d)' => resets < resets'
               /\ Sent(d) /\ ~Sent(d)' => faults < faults'
    PROVE  CountInv'
<1> SUFFICES ASSUME NEW d \in Deliveries
             PROVE  /\ delivery'[d].attempts <= MaxAttempts + resets'
                    /\ ~IsTerminal(d)' => delivery'[d].attempts < MaxAttempts + resets'
                    /\ posts'[d] <= delivery'[d].attempts + faults'
                                      + (IF Sent(d)' THEN 1 ELSE 0)
  BY DEF CountInv
<1>1. /\ delivery[d].attempts \in Nat /\ posts[d] \in Nat /\ MaxAttempts \in Nat
      /\ faults \in Nat /\ faults' \in Nat /\ resets \in Nat /\ resets' \in Nat
  BY WebhookAssumption DEF TypeOK, TablesOK, CountsOK, DeliveryRow
<1>2. /\ delivery[d].attempts <= MaxAttempts + resets
      /\ ~IsTerminal(d) => delivery[d].attempts < MaxAttempts + resets
      /\ posts[d] <= delivery[d].attempts + faults + (IF Sent(d) THEN 1 ELSE 0)
  BY DEF CountInv
<1>3. posts[d] <= delivery[d].attempts + faults' + (IF Sent(d)' THEN 1 ELSE 0)
  <2>1. CASE Sent(d) /\ ~Sent(d)'
    BY <1>1, <1>2, <2>1
  <2>2. CASE Sent(d)'
    BY <1>1, <1>2, <2>2
  <2>3. CASE ~Sent(d) /\ ~Sent(d)'
    BY <1>1, <1>2, <2>3
  <2> QED
    BY <2>1, <2>2, <2>3
<1> QED
  BY <1>1, <1>2, <1>3

\* Every step keeps the counts.
LEMMA CountNext ==
    ASSUME OneWorker, TypeOK, TypeOK', FreshInv, CountInv, [Next]_vars
    PROVE  CountInv'
<1>0. TablesOK /\ ProcessOK /\ CountsOK /\ HandOK
  BY DEF TypeOK
<1>n. faults \in Nat /\ resets \in Nat
  BY <1>0, WebhookAssumption DEF CountsOK
<1>1. ASSUME UNCHANGED <<delivery, worker, faults, resets, posts>> PROVE CountInv'
  BY <1>n, <1>1, CountFrame DEF Sent, worker, IsTerminal
<1>2. ASSUME NEW w \in Workers, Work(w) \/ Stop(w) PROVE CountInv'
  <2>0. ASSUME NEW s \in cur[w]
        PROVE  /\ s.d \in Deliveries
               /\ delivery[s.d].attempts = s.attempts /\ s.attempts \in Nat
    BY <1>0, <2>0 DEF FreshInv, SnapshotFresh, InHand, ProcessOK, Snapshot
  <2>1. CASE GetPendingDeliveries(w)
    BY <1>n, <2>1, CountFrame DEF GetPendingDeliveries, Sent, IsTerminal, receiver
  <2>2. CASE GetEndpoint(w)
    <3>1. \A d \in Deliveries : ~Sent(d)
      BY <2>2 DEF GetEndpoint, Sent, OneWorker
    <3>2. posts' = posts /\ delivery' = delivery /\ resets' = resets /\ faults <= faults'
      BY <1>n, <2>2 DEF GetEndpoint, Fault, NoFault, receiver
    <3> QED
      BY <1>n, <3>1, <3>2, CountFrame DEF IsTerminal
  <2>3. CASE Post(w)
    <3>1. PICK s \in cur[w] :
              /\ posts' = [posts EXCEPT ![s.d] = @ + 1]
              /\ wpc' = [wpc EXCEPT ![w] = "success"] \/ wpc' = [wpc EXCEPT ![w] = "failure"]
      BY <2>3 DEF Post
    <3>2. /\ cur' = cur /\ delivery' = delivery /\ resets' = resets /\ faults' = faults
          /\ wpc[w] = "post"
      BY <2>3 DEF Post
    <3>3. \A d \in Deliveries : ~Sent(d)
      BY <3>2 DEF Sent, OneWorker
    <3>4. Sent(s.d)'
      BY <1>0, <3>1, <3>2 DEF Sent, ProcessOK
    <3> SUFFICES ASSUME NEW d \in Deliveries
                 PROVE  /\ delivery'[d].attempts <= MaxAttempts + resets'
                        /\ ~IsTerminal(d)' =>
                               delivery'[d].attempts < MaxAttempts + resets'
                        /\ posts'[d] <= delivery'[d].attempts + faults'
                                          + (IF Sent(d)' THEN 1 ELSE 0)
      BY DEF CountInv
    <3>5. /\ delivery[d].attempts <= MaxAttempts + resets
          /\ ~IsTerminal(d) => delivery[d].attempts < MaxAttempts + resets
          /\ posts[d] <= delivery[d].attempts + faults
      BY <1>0, <1>n, <3>3 DEF CountInv, TablesOK, DeliveryRow
    <3>6. posts[d] \in Nat /\ delivery[d].attempts \in Nat
      BY <1>0 DEF CountsOK, TablesOK, DeliveryRow
    <3>7. CASE d = s.d
      <4>1. posts'[d] = posts[d] + 1
        BY <1>0, <3>1, <3>7 DEF CountsOK
      <4> QED
        BY <1>n, <3>2, <3>4, <3>5, <3>6, <3>7, <4>1 DEF IsTerminal
    <3>8. CASE d # s.d
      <4>1. posts'[d] = posts[d]
        BY <1>0, <3>1, <3>8 DEF CountsOK
      <4>2. posts'[d] <= delivery'[d].attempts + faults' + (IF Sent(d)' THEN 1 ELSE 0)
        BY <1>n, <3>2, <3>5, <3>6, <4>1
      <4> QED
        BY <3>2, <3>5, <4>2 DEF IsTerminal
    <3> QED
      BY <3>7, <3>8
  <2>4. CASE UpdateDeliverySuccess(w)
    <3>1. PICK s \in cur[w] :
              \/ delivery' = [delivery EXCEPT ![s.d] = SuccessRow(@)] /\ faults' = faults
              \/ delivery' = delivery /\ faults' = faults + 1
      BY <2>4 DEF UpdateDeliverySuccess, Fault, NoFault
    <3>2. \A d \in Deliveries : d # s.d => delivery'[d] = delivery[d]
      BY <1>0, <3>1 DEF TablesOK
    <3>3. \/ delivery'[s.d] = SuccessRow(delivery[s.d]) /\ faults' = faults
          \/ delivery'[s.d] = delivery[s.d] /\ faults' = faults + 1
      BY <1>0, <2>0, <3>1 DEF TablesOK
    <3>4. EndDelivery(w)
      BY <2>4 DEF UpdateDeliverySuccess
    <3> QED
      BY <3>2, <3>3, <3>4, CountEnd DEF SuccessRow
  <2>5. CASE HandleDeliveryError(w)
    <3>1. PICK s \in cur[w] :
              \/ /\ \E t \in NextRetryDelay(s.attempts + 1) :
                       delivery' = [delivery EXCEPT ![s.d] =
                           FailureRow(@, t, IsExhausted(s.attempts + 1))]
                 /\ faults' = faults
              \/ delivery' = delivery /\ faults' = faults + 1
      BY <2>5 DEF HandleDeliveryError, Fault, NoFault
    <3>2. \A d \in Deliveries : d # s.d => delivery'[d] = delivery[d]
      BY <1>0, <3>1 DEF TablesOK
    <3>3. \/ /\ \E t : delivery'[s.d] =
                       FailureRow(delivery[s.d], t, IsExhausted(s.attempts + 1))
             /\ faults' = faults
          \/ delivery'[s.d] = delivery[s.d] /\ faults' = faults + 1
      BY <1>0, <2>0, <3>1 DEF TablesOK
    <3>4. EndDelivery(w)
      BY <2>5 DEF HandleDeliveryError
    <3>5. \/ /\ faults' = faults
             /\ delivery'[s.d].attempts = delivery[s.d].attempts + 1
             /\ delivery'[s.d].status = "failed" =>
                    delivery'[s.d].attempts < MaxAttempts
             /\ delivery'[s.d].status \in {"success", "failed", "exhausted"}
          \/ faults' = faults + 1 /\ delivery'[s.d] = delivery[s.d]
      <4>1. ASSUME NEW t,
                   delivery'[s.d] =
                       FailureRow(delivery[s.d], t, IsExhausted(s.attempts + 1))
            PROVE  /\ delivery'[s.d].attempts = delivery[s.d].attempts + 1
                   /\ delivery'[s.d].status = "failed" =>
                          delivery'[s.d].attempts < MaxAttempts
                   /\ delivery'[s.d].status \in {"success", "failed", "exhausted"}
        BY <2>0, <4>1, WebhookAssumption DEF FailureRow, IsExhausted
      <4> QED
        BY <3>3, <4>1
    <3> QED
      BY <3>2, <3>4, <3>5, CountEnd
  <2>6. CASE CloseDelivery(w)
    <3>1. PICK s \in cur[w] :
              \/ delivery' = [delivery EXCEPT ![s.d] = FailureRow(@, 0, TRUE)]
                    /\ faults' = faults
              \/ delivery' = delivery /\ faults' = faults + 1
      BY <2>6 DEF CloseDelivery, Fault, NoFault
    <3>2. \A d \in Deliveries : d # s.d => delivery'[d] = delivery[d]
      BY <1>0, <3>1 DEF TablesOK
    <3>3. \/ delivery'[s.d] = FailureRow(delivery[s.d], 0, TRUE) /\ faults' = faults
          \/ delivery'[s.d] = delivery[s.d] /\ faults' = faults + 1
      BY <1>0, <2>0, <3>1 DEF TablesOK
    <3>4. EndDelivery(w)
      BY <2>6 DEF CloseDelivery
    <3> QED
      BY <3>2, <3>3, <3>4, CountEnd DEF FailureRow
  <2>7. CASE Stop(w)
    <3>1. faults < faults' /\ resets' = resets /\ posts' = posts /\ delivery' = delivery
      BY <1>n, <2>7 DEF Stop, Fault, receiver
    <3>2. \A d \in Deliveries : IsTerminal(d)' = IsTerminal(d)
      BY <3>1 DEF IsTerminal
    <3>3. resets <= resets' /\ faults <= faults'
      BY <1>n, <3>1, TypeOK' DEF TypeOK, CountsOK
    <3> QED
      BY <3>1, <3>2, <3>3, CountFrame
  <2> QED
    BY <1>2, <2>1, <2>2, <2>3, <2>4, <2>5, <2>6, <2>7 DEF Work
<1>3. ASSUME NEW d \in Deliveries, CreateDelivery(d) PROVE CountInv'
  <2>1. \A x \in Deliveries : /\ delivery'[x].attempts = delivery[x].attempts
                              /\ IsTerminal(x) => IsTerminal(x)'
    BY <1>0, <1>3 DEF CreateDelivery, InsertDelivery, TablesOK, DeliveryRow, IsTerminal
  <2>2. posts' = posts /\ resets' = resets /\ faults <= faults' /\ UNCHANGED worker
    BY <1>n, <1>3 DEF CreateDelivery, Fault, NoFault, receiver
  <2>3. \A x \in Deliveries : Sent(x) = Sent(x)'
    BY <2>2 DEF Sent, worker
  <2> QED
    BY <1>n, <2>1, <2>2, <2>3, CountFrame
<1>4. ASSUME NEW c \in Callers, ResetDeliveryForRetry(c) PROVE CountInv'
  <2>0. call[c].d \in Deliveries
    BY <1>0, <1>4 DEF ResetDeliveryForRetry, ProcessOK, Call, NoCall
  <2>1. /\ posts' = posts /\ faults' = faults /\ UNCHANGED worker
        /\ \/ /\ resets < resets'
              /\ \A x \in Deliveries : delivery'[x].attempts = delivery[x].attempts
           \/ resets' = resets /\ delivery' = delivery
    BY <1>0, <1>n, <1>4, <2>0 DEF ResetDeliveryForRetry, receiver, TablesOK, DeliveryRow
  <2>3. \A x \in Deliveries : Sent(x) = Sent(x)'
    BY <2>1 DEF Sent, worker
  <2>4. resets' = resets => \A x \in Deliveries : IsTerminal(x) = IsTerminal(x)'
    BY <1>n, <2>1 DEF IsTerminal
  <2>5. resets <= resets' /\ faults <= faults'
    BY <1>n, <2>1, TypeOK' DEF TypeOK, CountsOK
  <2>6. \A x \in Deliveries : /\ delivery'[x].attempts = delivery[x].attempts
                              /\ IsTerminal(x) /\ ~IsTerminal(x)' => resets < resets'
    BY <2>1, <2>4
  <2> QED
    BY <2>1, <2>3, <2>5, <2>6, CountFrame
<1>5. CASE Tick
  <2>1. \A x \in Deliveries : /\ delivery'[x].attempts = delivery[x].attempts
                              /\ IsTerminal(x) => IsTerminal(x)'
    BY <1>0, <1>5 DEF Tick, TablesOK, DeliveryRow, IsTerminal
  <2>2. posts' = posts /\ resets' = resets /\ faults' = faults /\ UNCHANGED worker
    BY <1>5 DEF Tick, receiver
  <2>3. \A x \in Deliveries : Sent(x) = Sent(x)'
    BY <2>2 DEF Sent, worker
  <2> QED
    BY <1>n, <2>1, <2>2, <2>3, CountFrame
<1>6. ASSUME \/ \E ev \in Events : PublishClickEvent(ev)
             \/ Request
             \/ \E c \in Callers : UpdateEndpoint(c)
             \/ UNCHANGED vars
      PROVE  CountInv'
  BY <1>1, <1>6 DEF PublishClickEvent, Request, CreateEndpoint, DeleteEndpoint,
                    UpdateRead, RetryRead, UpdateEndpoint, vars, worker, receiver
<1> QED
  BY <1>2, <1>3, <1>4, <1>5, <1>6 DEF Next, Finish

\* With one worker a delivery is POSTed at most max_attempts times, once more
\* for each manual retry and once more for each failure (IsExhausted,
\* UpdateDeliveryFailure, ResetDeliveryForRetry).
THEOREM PostsCorrect == OneWorker => (Spec => []PostsBounded)
<1> SUFFICES ASSUME OneWorker PROVE Spec => []PostsBounded
  OBVIOUS
<1>1. Init => FreshInv
  BY DEF Init, FreshInv, SnapshotFresh, InHand
<1>2. Init => CountInv
  BY WebhookAssumption DEF Init, CountInv, NoDelivery, IsTerminal, Sent
<1>3. TypeOK /\ FreshInv /\ [Next]_vars => FreshInv'
  BY FreshNext
<1>4. TypeOK /\ TypeOK' /\ FreshInv /\ CountInv /\ [Next]_vars => CountInv'
  BY CountNext
<1>5. TypeOK /\ FreshInv /\ CountInv => PostsBounded
  <2> SUFFICES ASSUME TypeOK, FreshInv, CountInv, NEW d \in Deliveries
               PROVE  posts[d] <= MaxAttempts + resets + faults
    BY DEF PostsBounded
  <2>1. /\ delivery[d].attempts \in Nat /\ posts[d] \in Nat /\ MaxAttempts \in Nat
        /\ faults \in Nat /\ resets \in Nat
    BY WebhookAssumption DEF TypeOK, TablesOK, CountsOK, DeliveryRow
  <2>2. Sent(d) => ~IsTerminal(d)
    BY DEF Sent, FreshInv, SnapshotFresh, InHand, IsWaiting, IsTerminal
  <2>3. CASE Sent(d)
    BY <2>1, <2>2, <2>3 DEF CountInv
  <2>4. CASE ~Sent(d)
    BY <2>1, <2>4 DEF CountInv
  <2> QED
    BY <2>3, <2>4
<1> QED
  BY <1>1, <1>2, <1>3, <1>4, <1>5, TypeCorrect, PTL DEF Spec

(***************************************************************************)
(* Every POST is counted, for any number of workers.                       *)
(***************************************************************************)

\* The workers that have sent a delivery are finitely many.
LEMMA InFlightType ==
    ASSUME NEW d
    PROVE  /\ IsFiniteSet(InFlight(d)) /\ Cardinality(InFlight(d)) \in Nat
           /\ IsFiniteSet(InFlight(d)') /\ Cardinality(InFlight(d)') \in Nat
<1>1. InFlight(d) \subseteq Workers /\ InFlight(d)' \subseteq Workers
  BY DEF InFlight
<1> QED
  BY <1>1, WebhookAssumption, FS_Subset, FS_CardinalityType

\* A step that sends nothing keeps the count of a delivery, if it counts the
\* delivery that it takes from the hand of a worker.
LEMMA CountedFrame ==
    ASSUME TypeOK, TypeOK', PostsAreCounted, NEW d \in Deliveries, NEW w,
           posts' = posts, faults <= faults',
           delivery[d].attempts <= delivery'[d].attempts,
           InFlight(d) \ {w} \subseteq InFlight(d)',
           w \in InFlight(d) =>
               \/ w \in InFlight(d)'
               \/ delivery[d].attempts + faults < delivery'[d].attempts + faults'
    PROVE  posts'[d] <= delivery'[d].attempts + faults' + Cardinality(InFlight(d)')
<1>1. /\ delivery[d].attempts \in Nat /\ delivery'[d].attempts \in Nat
      /\ faults \in Nat /\ faults' \in Nat /\ posts[d] \in Nat
  BY WebhookAssumption DEF TypeOK, TablesOK, CountsOK, DeliveryRow
<1>2. posts[d] <= delivery[d].attempts + faults + Cardinality(InFlight(d))
  BY DEF PostsAreCounted
<1>3. CASE InFlight(d) \subseteq InFlight(d)'
  <2>1. Cardinality(InFlight(d)) <= Cardinality(InFlight(d)')
    BY <1>3, InFlightType, FS_Subset
  <2> QED
    BY <1>1, <1>2, <2>1, InFlightType
<1>4. CASE ~(InFlight(d) \subseteq InFlight(d)')
  <2>1. w \in InFlight(d) /\ w \notin InFlight(d)'
    BY <1>4
  <2>2. Cardinality(InFlight(d) \ {w}) = Cardinality(InFlight(d)) - 1
    BY <2>1, InFlightType, FS_RemoveElement
  <2>3. Cardinality(InFlight(d) \ {w}) <= Cardinality(InFlight(d)')
    BY InFlightType, FS_Subset
  <2> QED
    BY <1>1, <1>2, <2>1, <2>2, <2>3, InFlightType
<1> QED
  BY <1>3, <1>4

\* The step that ends a delivery of which a POST was sent counts it, or spends
\* a fault on it.
LEMMA CountedEnd ==
    ASSUME TypeOK, TypeOK', PostsAreCounted,
           NEW w \in Workers, EndDelivery(w), NEW s \in cur[w],
           \/ /\ faults' = faults
              /\ delivery'[s.d].attempts = delivery[s.d].attempts + 1
           \/ faults' = faults + 1 /\ delivery'[s.d] = delivery[s.d],
           \A d \in Deliveries : d # s.d => delivery'[d] = delivery[d]
    PROVE  PostsAreCounted'
<1> SUFFICES ASSUME NEW d \in Deliveries
             PROVE  posts'[d] <= delivery'[d].attempts + faults' + Cardinality(InFlight(d)')
  BY DEF PostsAreCounted
<1>1. /\ delivery[d].attempts \in Nat /\ delivery'[d].attempts \in Nat
      /\ faults \in Nat /\ faults' \in Nat
  BY WebhookAssumption DEF TypeOK, TablesOK, CountsOK, DeliveryRow
<1>2. posts' = posts
  BY DEF EndDelivery, receiver
<1>3. cur[w] = {s}
  BY DEF TypeOK, HandOK
<1>4. InFlight(d) \ {w} \subseteq InFlight(d)'
  BY DEF InFlight, EndDelivery, TypeOK, ProcessOK
<1>5. w \in InFlight(d) => d = s.d
  BY <1>3 DEF InFlight
<1>6. delivery[d].attempts <= delivery'[d].attempts /\ faults <= faults'
  BY <1>1
<1>7. d = s.d => delivery[d].attempts + faults < delivery'[d].attempts + faults'
  BY <1>1
<1> QED
  BY <1>2, <1>4, <1>5, <1>6, <1>7, CountedFrame

LEMMA CountedNext ==
    TypeOK /\ TypeOK' /\ PostsAreCounted /\ [Next]_vars => PostsAreCounted'
<1> SUFFICES ASSUME TypeOK, TypeOK', PostsAreCounted, [Next]_vars PROVE PostsAreCounted'
  OBVIOUS
<1>0. TablesOK /\ ProcessOK /\ CountsOK /\ HandOK
  BY DEF TypeOK
<1>n. faults \in Nat /\ faults' \in Nat
  BY WebhookAssumption DEF TypeOK, CountsOK
<1>a. \A d \in Deliveries : delivery[d].attempts \in Nat
  BY <1>0 DEF TablesOK, DeliveryRow
<1>1. ASSUME posts' = posts, faults <= faults',
             \A d \in Deliveries : /\ delivery'[d].attempts = delivery[d].attempts
                                   /\ InFlight(d) \subseteq InFlight(d)'
      PROVE  PostsAreCounted'
  <2> SUFFICES ASSUME NEW d \in Deliveries
               PROVE  posts'[d] <= delivery'[d].attempts + faults'
                                     + Cardinality(InFlight(d)')
    BY DEF PostsAreCounted
  <2>1. delivery[d].attempts <= delivery'[d].attempts
    BY <1>a, <1>1
  <2>2. \A w : /\ InFlight(d) \ {w} \subseteq InFlight(d)'
               /\ w \in InFlight(d) => w \in InFlight(d)'
    BY <1>1
  <2> QED
    BY <1>1, <2>1, <2>2, CountedFrame
<1>2. ASSUME UNCHANGED worker PROVE \A d \in Deliveries : InFlight(d) \subseteq InFlight(d)'
  BY <1>2 DEF InFlight, worker
<1>3. ASSUME NEW w \in Workers, Work(w) \/ Stop(w) PROVE PostsAreCounted'
  <2>0. ASSUME NEW s \in cur[w] PROVE s.d \in Deliveries
    BY <1>0, <2>0 DEF ProcessOK, Snapshot
  <2>1. CASE GetPendingDeliveries(w)
    BY <1>n, <1>1, <2>1 DEF GetPendingDeliveries, InFlight, receiver
  <2>2. CASE GetEndpoint(w)
    <3>1. posts' = posts /\ delivery' = delivery /\ faults <= faults'
      BY <1>n, <2>2 DEF GetEndpoint, Fault, NoFault, receiver
    <3>2. \A d \in Deliveries : InFlight(d) \subseteq InFlight(d)'
      BY <1>0, <2>2 DEF GetEndpoint, InFlight, ProcessOK
    <3> QED
      BY <1>1, <3>1, <3>2
  <2>3. CASE Post(w)
    <3>1. PICK s \in cur[w] :
              /\ posts' = [posts EXCEPT ![s.d] = @ + 1]
              /\ wpc' = [wpc EXCEPT ![w] = "success"] \/ wpc' = [wpc EXCEPT ![w] = "failure"]
      BY <2>3 DEF Post
    <3>2. cur' = cur /\ delivery' = delivery /\ faults' = faults /\ wpc[w] = "post"
      BY <2>3 DEF Post
    <3> SUFFICES ASSUME NEW d \in Deliveries
                 PROVE  posts'[d] <= delivery'[d].attempts + faults'
                                       + Cardinality(InFlight(d)')
      BY DEF PostsAreCounted
    <3>3. InFlight(d) \subseteq InFlight(d)' /\ w \notin InFlight(d)
      BY <1>0, <3>1, <3>2 DEF InFlight, ProcessOK
    <3>4. /\ posts[d] <= delivery[d].attempts + faults + Cardinality(InFlight(d))
          /\ posts[d] \in Nat /\ delivery[d].attempts \in Nat
      BY <1>0, <1>a DEF PostsAreCounted, CountsOK
    <3>5. CASE d = s.d
      <4>1. posts'[d] = posts[d] + 1
        BY <1>0, <3>1, <3>5 DEF CountsOK
      <4>2. InFlight(d) \cup {w} \subseteq InFlight(d)'
        BY <1>0, <3>1, <3>2, <3>3, <3>5 DEF InFlight, ProcessOK
      <4>3. /\ Cardinality(InFlight(d) \cup {w}) = Cardinality(InFlight(d)) + 1
            /\ Cardinality(InFlight(d) \cup {w}) <= Cardinality(InFlight(d)')
        BY <3>3, <4>2, InFlightType, FS_AddElement, FS_Subset
      <4> QED
        BY <1>n, <3>2, <3>4, <4>1, <4>3, InFlightType
    <3>6. CASE d # s.d
      <4>1. posts'[d] = posts[d]
        BY <1>0, <3>1, <3>6 DEF CountsOK
      <4>2. Cardinality(InFlight(d)) <= Cardinality(InFlight(d)')
        BY <3>3, InFlightType, FS_Subset
      <4> QED
        BY <1>n, <3>2, <3>4, <4>1, <4>2, InFlightType
    <3> QED
      BY <3>5, <3>6
  <2>4. CASE UpdateDeliverySuccess(w)
    <3>1. PICK s \in cur[w] :
              \/ delivery' = [delivery EXCEPT ![s.d] = SuccessRow(@)] /\ faults' = faults
              \/ delivery' = delivery /\ faults' = faults + 1
      BY <2>4 DEF UpdateDeliverySuccess, Fault, NoFault
    <3>2. \A d \in Deliveries : d # s.d => delivery'[d] = delivery[d]
      BY <1>0, <3>1 DEF TablesOK
    <3>3. \/ delivery'[s.d] = SuccessRow(delivery[s.d]) /\ faults' = faults
          \/ delivery'[s.d] = delivery[s.d] /\ faults' = faults + 1
      BY <1>0, <2>0, <3>1 DEF TablesOK
    <3>4. EndDelivery(w)
      BY <2>4 DEF UpdateDeliverySuccess
    <3> QED
      BY <3>2, <3>3, <3>4, CountedEnd DEF SuccessRow
  <2>5. CASE HandleDeliveryError(w) \/ CloseDelivery(w)
    <3>1. PICK s \in cur[w] :
              \/ /\ \E t, x : delivery' = [delivery EXCEPT ![s.d] = FailureRow(@, t, x)]
                 /\ faults' = faults
              \/ delivery' = delivery /\ faults' = faults + 1
      BY <2>5 DEF HandleDeliveryError, CloseDelivery, Fault, NoFault
    <3>2. \A d \in Deliveries : d # s.d => delivery'[d] = delivery[d]
      BY <1>0, <3>1 DEF TablesOK
    <3>3. \/ /\ \E t, x : delivery'[s.d] = FailureRow(delivery[s.d], t, x)
             /\ faults' = faults
          \/ delivery'[s.d] = delivery[s.d] /\ faults' = faults + 1
      BY <1>0, <2>0, <3>1 DEF TablesOK
    <3>4. EndDelivery(w)
      BY <2>5 DEF HandleDeliveryError, CloseDelivery
    <3>5. \A r, t, x : FailureRow(r, t, x).attempts = r.attempts + 1
      BY DEF FailureRow
    <3>6. \/ /\ faults' = faults
             /\ delivery'[s.d].attempts = delivery[s.d].attempts + 1
          \/ faults' = faults + 1 /\ delivery'[s.d] = delivery[s.d]
      BY <3>3, <3>5
    <3> QED
      BY <3>2, <3>4, <3>6, CountedEnd
  <2>6. CASE Stop(w)
    <3> SUFFICES ASSUME NEW d \in Deliveries
                 PROVE  posts'[d] <= delivery'[d].attempts + faults'
                                       + Cardinality(InFlight(d)')
      BY DEF PostsAreCounted
    <3>1. faults' = faults + 1 /\ posts' = posts /\ delivery' = delivery
      BY <2>6 DEF Stop, Fault, receiver
    <3>2. InFlight(d) \ {w} \subseteq InFlight(d)'
      BY <1>0, <2>6 DEF Stop, InFlight, ProcessOK
    <3>3. /\ faults <= faults' /\ delivery[d].attempts <= delivery'[d].attempts
          /\ delivery[d].attempts + faults < delivery'[d].attempts + faults'
      BY <1>n, <1>a, <3>1
    <3> QED
      BY <3>1, <3>2, <3>3, CountedFrame
  <2> QED
    BY <1>3, <2>1, <2>2, <2>3, <2>4, <2>5, <2>6 DEF Work
<1>4. ASSUME NEW d \in Deliveries, CreateDelivery(d) PROVE PostsAreCounted'
  <2>1. \A x \in Deliveries : delivery'[x].attempts = delivery[x].attempts
    BY <1>0, <1>4 DEF CreateDelivery, InsertDelivery, TablesOK, DeliveryRow
  <2>2. posts' = posts /\ faults <= faults' /\ UNCHANGED worker
    BY <1>n, <1>4 DEF CreateDelivery, Fault, NoFault, receiver
  <2> QED
    BY <1>1, <1>2, <2>1, <2>2
<1>5. ASSUME NEW c \in Callers, ResetDeliveryForRetry(c) PROVE PostsAreCounted'
  <2>1. \A x \in Deliveries : delivery'[x].attempts = delivery[x].attempts
    BY <1>0, <1>5 DEF ResetDeliveryForRetry, TablesOK, DeliveryRow
  <2>2. posts' = posts /\ faults <= faults' /\ UNCHANGED worker
    BY <1>n, <1>5 DEF ResetDeliveryForRetry, receiver
  <2> QED
    BY <1>1, <1>2, <2>1, <2>2
<1>6. CASE Tick
  <2>1. \A x \in Deliveries : delivery'[x].attempts = delivery[x].attempts
    BY <1>0, <1>6 DEF Tick, TablesOK, DeliveryRow
  <2>2. posts' = posts /\ faults <= faults' /\ UNCHANGED worker
    BY <1>n, <1>6 DEF Tick, receiver
  <2> QED
    BY <1>1, <1>2, <2>1, <2>2
<1>7. ASSUME \/ \E ev \in Events : PublishClickEvent(ev)
             \/ Request
             \/ \E c \in Callers : UpdateEndpoint(c)
             \/ UNCHANGED vars
      PROVE  PostsAreCounted'
  <2>1. UNCHANGED <<delivery, worker, faults, posts>>
    BY <1>7 DEF PublishClickEvent, Request, CreateEndpoint, DeleteEndpoint,
                UpdateRead, RetryRead, UpdateEndpoint, vars, worker, receiver
  <2> QED
    BY <1>n, <1>1, <1>2, <2>1
<1> QED
  BY <1>3, <1>4, <1>5, <1>6, <1>7 DEF Next, Finish

\* However many workers race on a row, attempt_count lacks only the POSTs
\* whose UPDATE is still to come or failed (attempt_count = attempt_count + 1
\* in UpdateDeliverySuccess and UpdateDeliveryFailure).
THEOREM CountedCorrect == Spec => []PostsAreCounted
<1>1. Init => PostsAreCounted
  <2> SUFFICES ASSUME Init, NEW d \in Deliveries
               PROVE  posts[d] <= delivery[d].attempts + faults + Cardinality(InFlight(d))
    BY DEF PostsAreCounted
  <2>1. posts[d] = 0 /\ delivery[d].attempts = 0 /\ faults = 0
    BY DEF Init, NoDelivery
  <2> QED
    BY <2>1, InFlightType
<1> QED
  BY <1>1, CountedNext, TypeCorrect, PTL DEF Spec

(***************************************************************************)
(* A deleted endpoint is left alone, for any number of workers.            *)
(***************************************************************************)

\* The workers that have looked an endpoint up are finitely many.
LEMMA LookedUpType ==
    ASSUME NEW e
    PROVE  /\ IsFiniteSet(LookedUp(e)) /\ Cardinality(LookedUp(e)) \in Nat
           /\ Cardinality(LookedUp(e)) <= Cardinality(Workers)
           /\ IsFiniteSet(LookedUp(e)') /\ Cardinality(LookedUp(e)') \in Nat
           /\ Cardinality(LookedUp(e)') <= Cardinality(Workers)
           /\ Cardinality(Workers) \in Nat
<1>1. LookedUp(e) \subseteq Workers /\ LookedUp(e)' \subseteq Workers
  BY DEF LookedUp
<1> QED
  BY <1>1, WebhookAssumption, FS_Subset, FS_CardinalityType

\* A step keeps the bound for an endpoint if it leaves the endpoint and the
\* count alone and lets no worker join, or if the count is zero after it.
LEMMA LateFrame ==
    ASSUME TypeOK, LateInv,
           \A e \in Endpoints :
               \/ /\ endpoint'[e] = endpoint[e] /\ late'[e] = late[e]
                  /\ LookedUp(e)' \subseteq LookedUp(e)
               \/ late'[e] = 0 /\ endpoint'[e].state # "absent"
    PROVE  LateInv'
<1> SUFFICES ASSUME NEW e \in Endpoints
             PROVE  /\ IsActive(e)' => late'[e] = 0
                    /\ endpoint'[e].state = "absent" => late'[e] = 0 /\ LookedUp(e)' = {}
                    /\ ~IsActive(e)' =>
                           late'[e] + Cardinality(LookedUp(e)') <= Cardinality(Workers)
  BY DEF LateInv
<1>0. late[e] \in Nat
  BY DEF TypeOK, CountsOK
<1>1. CASE /\ endpoint'[e] = endpoint[e] /\ late'[e] = late[e]
           /\ LookedUp(e)' \subseteq LookedUp(e)
  <2>1. Cardinality(LookedUp(e)') <= Cardinality(LookedUp(e))
    BY <1>1, LookedUpType, FS_Subset
  <2>2. IsActive(e)' <=> IsActive(e)
    BY <1>1 DEF IsActive, IsLive
  <2> QED
    BY <1>0, <1>1, <2>1, <2>2, LookedUpType DEF LateInv
<1>2. CASE late'[e] = 0 /\ endpoint'[e].state # "absent"
  BY <1>2, LookedUpType
<1> QED
  BY <1>1, <1>2

\* Switching an endpoint off, or leaving it as it is, keeps the bound.
LEMMA SwitchedOff ==
    ASSUME TypeOK, LateInv, late' = late,
           \A e \in Endpoints :
               /\ LookedUp(e)' = LookedUp(e)
               /\ ~IsActive(e)' \/ IsActive(e)
               /\ endpoint'[e].state = "absent" => endpoint[e].state = "absent"
    PROVE  LateInv'
<1> SUFFICES ASSUME NEW e \in Endpoints
             PROVE  /\ IsActive(e)' => late'[e] = 0
                    /\ endpoint'[e].state = "absent" => late'[e] = 0 /\ LookedUp(e)' = {}
                    /\ ~IsActive(e)' =>
                           late'[e] + Cardinality(LookedUp(e)') <= Cardinality(Workers)
  BY DEF LateInv
<1>1. IsActive(e) => late[e] + Cardinality(LookedUp(e)) <= Cardinality(Workers)
  BY LookedUpType DEF LateInv
<1> QED
  BY <1>1 DEF LateInv

LEMMA LateNext == TypeOK /\ LateInv /\ [Next]_vars => LateInv'
<1> SUFFICES ASSUME TypeOK, LateInv, [Next]_vars PROVE LateInv'
  OBVIOUS
<1>0. TablesOK /\ ProcessOK /\ CountsOK /\ HandOK
  BY DEF TypeOK
<1>1. ASSUME UNCHANGED <<endpoint, late>>,
             \A e \in Endpoints : LookedUp(e)' \subseteq LookedUp(e)
      PROVE  LateInv'
  BY <1>1, LateFrame
<1>2. ASSUME UNCHANGED worker PROVE \A e \in Endpoints : LookedUp(e)' \subseteq LookedUp(e)
  BY <1>2 DEF LookedUp, worker
<1>3. ASSUME NEW w \in Workers, Work(w) \/ Stop(w) PROVE LateInv'
  <2>1. CASE GetPendingDeliveries(w)
    BY <1>1, <2>1 DEF GetPendingDeliveries, LookedUp, receiver
  <2>2. CASE GetEndpoint(w)
    <3>1. endpoint' = endpoint /\ late' = late
      BY <2>2 DEF GetEndpoint, receiver
    <3>2. PICK s \in batch[w] :
              \/ /\ wpc' = [wpc EXCEPT ![w] =
                       IF IsActive(EndpointOf(s.d)) THEN "post" ELSE "close"]
                 /\ cur' = [cur EXCEPT ![w] = {s}]
              \/ UNCHANGED <<wpc, cur>>
      BY <2>2 DEF GetEndpoint
    <3>3. ASSUME NEW e \in Endpoints
          PROVE  \/ LookedUp(e)' \subseteq LookedUp(e)
                 \/ IsActive(e)
      BY <1>0, <3>2 DEF LookedUp, ProcessOK
    <3>4. \A e \in Endpoints : IsActive(e) => late[e] = 0 /\ endpoint[e].state # "absent"
      BY DEF LateInv, IsActive, IsLive
    <3> QED
      BY <3>1, <3>3, <3>4, LateFrame
  <2>3. CASE Post(w)
    <3>1. PICK s \in cur[w] :
              late' = IF IsActive(EndpointOf(s.d)) THEN late
                      ELSE [late EXCEPT ![EndpointOf(s.d)] = @ + 1]
      BY <2>3 DEF Post
    <3>2. /\ endpoint' = endpoint /\ cur' = cur /\ wpc[w] = "post"
          /\ wpc' = [wpc EXCEPT ![w] = "success"] \/ wpc' = [wpc EXCEPT ![w] = "failure"]
      BY <2>3 DEF Post
    <3>3. \A e \in Endpoints : LookedUp(e)' = LookedUp(e) \ {w}
      BY <1>0, <3>2 DEF LookedUp, ProcessOK
    <3>4. s.d \in Deliveries /\ EndpointOf(s.d) \in Endpoints
      BY <1>0 DEF ProcessOK, Snapshot, Deliveries, EndpointOf
    <3>5. w \in LookedUp(EndpointOf(s.d))
      BY <3>2 DEF LookedUp
    <3>6. CASE IsActive(EndpointOf(s.d))
      BY <1>1, <3>1, <3>2, <3>3, <3>6
    <3>7. CASE ~IsActive(EndpointOf(s.d))
      <4> DEFINE x == EndpointOf(s.d)
      <4>1. late' = [late EXCEPT ![x] = @ + 1] /\ late \in [Endpoints -> Nat]
        BY <1>0, <3>1, <3>7 DEF CountsOK
      <4>2. ~IsActive(x) /\ endpoint[x].state # "absent" /\ x \in Endpoints
        BY <3>4, <3>5, <3>7 DEF LateInv
      <4>5. \A e \in Endpoints : IsActive(e)' <=> IsActive(e)
        BY <3>2 DEF IsActive, IsLive
      <4> HIDE DEF x
      <4> SUFFICES ASSUME NEW e \in Endpoints
                   PROVE  /\ IsActive(e)' => late'[e] = 0
                          /\ endpoint'[e].state = "absent" =>
                                 late'[e] = 0 /\ LookedUp(e)' = {}
                          /\ ~IsActive(e)' =>
                                 late'[e] + Cardinality(LookedUp(e)') <= Cardinality(Workers)
        BY DEF LateInv
      <4>3. CASE e = x
        <5>1. late'[e] = late[e] + 1 /\ late[e] \in Nat
          BY <4>1, <4>3
        <5>2. Cardinality(LookedUp(e)') = Cardinality(LookedUp(e)) - 1
          BY <3>3, <3>5, <4>3, LookedUpType, FS_RemoveElement DEF x
        <5>3. late[e] + Cardinality(LookedUp(e)) <= Cardinality(Workers)
          BY <4>2, <4>3 DEF LateInv
        <5> QED
          BY <3>2, <4>2, <4>3, <4>5, <5>1, <5>2, <5>3, LookedUpType
      <4>4. CASE e # x
        <5>1. late'[e] = late[e] /\ late[e] \in Nat
          BY <4>1, <4>4
        <5>2. /\ LookedUp(e)' \subseteq LookedUp(e)
              /\ Cardinality(LookedUp(e)') <= Cardinality(LookedUp(e))
          BY <3>3, LookedUpType, FS_Subset
        <5> QED
          BY <3>2, <4>5, <5>1, <5>2, LookedUpType DEF LateInv
      <4> QED
        BY <4>3, <4>4
    <3> QED
      BY <3>6, <3>7
  <2>4. CASE UpdateDeliverySuccess(w) \/ HandleDeliveryError(w) \/ CloseDelivery(w)
    <3>1. EndDelivery(w)
      BY <2>4 DEF UpdateDeliverySuccess, HandleDeliveryError, CloseDelivery
    <3>2. \A e \in Endpoints : LookedUp(e)' \subseteq LookedUp(e)
      BY <1>0, <3>1 DEF EndDelivery, LookedUp, ProcessOK
    <3> QED
      BY <1>1, <3>1, <3>2 DEF EndDelivery, receiver
  <2>5. CASE Stop(w)
    <3>1. \A e \in Endpoints : LookedUp(e)' \subseteq LookedUp(e)
      BY <1>0, <2>5 DEF Stop, LookedUp, ProcessOK
    <3> QED
      BY <1>1, <2>5, <3>1 DEF Stop, receiver
  <2> QED
    BY <1>3, <2>1, <2>2, <2>3, <2>4, <2>5 DEF Work
<1>4. ASSUME NEW x \in Endpoints, CreateEndpoint(x) PROVE LateInv'
  <2>1. late' = late /\ UNCHANGED worker
    BY <1>4 DEF CreateEndpoint, receiver
  <2>2. \A e \in Endpoints :
            \/ endpoint'[e] = endpoint[e]
            \/ endpoint[e].state = "absent" /\ endpoint'[e].state = "live"
    BY <1>0, <1>4 DEF CreateEndpoint, TablesOK
  <2>3. \A e \in Endpoints : endpoint[e].state = "absent" => late[e] = 0
    BY DEF LateInv
  <2> QED
    BY <1>2, <2>1, <2>2, <2>3, LateFrame
<1>5. ASSUME NEW x \in Endpoints, DeleteEndpoint(x) PROVE LateInv'
  <2>1. late' = late /\ UNCHANGED worker
    BY <1>5 DEF DeleteEndpoint, receiver
  <2>2. \A e \in Endpoints : LookedUp(e)' = LookedUp(e)
    BY <2>1 DEF LookedUp, worker
  <2>3. ASSUME NEW e \in Endpoints
        PROVE  /\ ~IsActive(e)'  \/ IsActive(e)
               /\ endpoint'[e].state = "absent" => endpoint[e].state = "absent"
    BY <1>0, <1>5 DEF DeleteEndpoint, IsActive, IsLive, TablesOK, EndpointRow
  <2> QED
    BY <2>1, <2>2, <2>3, SwitchedOff
<1>7. ASSUME NEW c \in Callers, UpdateEndpoint(c) PROVE LateInv'
  <2>1. UNCHANGED worker
    BY <1>7 DEF UpdateEndpoint
  <2>2. \A e \in Endpoints : LookedUp(e)' = LookedUp(e)
    BY <2>1 DEF LookedUp, worker
  <2>3. call[c].e \in Endpoints
    BY <1>0, <1>7 DEF UpdateEndpoint, ProcessOK, Call, NoCall
  <2>4. CASE IsLive(call[c].e) /\ call[c].enabled
    <3>1. late' = [late EXCEPT ![call[c].e] = 0] /\ late \in [Endpoints -> Nat]
      BY <1>0, <1>7, <2>4 DEF UpdateEndpoint, CountsOK
    <3>2. endpoint' = [endpoint EXCEPT ![call[c].e].enabled = call[c].enabled]
      BY <1>7, <2>4 DEF UpdateEndpoint
    <3>3. /\ \A e \in Endpoints \ {call[c].e} : endpoint'[e] = endpoint[e]
          /\ endpoint'[call[c].e].state = "live"
      BY <1>0, <2>3, <2>4, <3>2 DEF IsLive, TablesOK, EndpointRow
    <3> QED
      BY <2>2, <3>1, <3>3, LateFrame
  <2>5. CASE ~(IsLive(call[c].e) /\ call[c].enabled)
    <3>1. late' = late
      BY <1>7, <2>5 DEF UpdateEndpoint
    <3>2. \/ endpoint' = endpoint
          \/ endpoint' = [endpoint EXCEPT ![call[c].e].enabled = call[c].enabled]
      BY <1>7 DEF UpdateEndpoint
    <3>3. ASSUME NEW e \in Endpoints
          PROVE  /\ ~IsActive(e)' \/ IsActive(e)
                 /\ endpoint'[e].state = "absent" => endpoint[e].state = "absent"
      BY <1>0, <2>3, <2>5, <3>2, <1>7 DEF UpdateEndpoint, IsActive, IsLive, TablesOK, EndpointRow
    <3> QED
      BY <2>2, <3>1, <3>3, SwitchedOff
  <2> QED
    BY <2>4, <2>5
<1>6. ASSUME \/ \E ev \in Events : PublishClickEvent(ev)
             \/ \E d \in Deliveries : CreateDelivery(d)
             \/ \E c \in Callers :
                    \/ \E e \in Endpoints, en \in BOOLEAN : UpdateRead(c, e, en)
                    \/ \E e \in Endpoints, d \in Deliveries : RetryRead(c, e, d)
                    \/ ResetDeliveryForRetry(c)
             \/ Tick
             \/ UNCHANGED vars
      PROVE  LateInv'
  <2>1. UNCHANGED <<endpoint, late, worker>>
    BY <1>6 DEF PublishClickEvent, CreateDelivery, UpdateRead, RetryRead,
                ResetDeliveryForRetry, Tick, vars, worker, receiver
  <2> QED
    BY <1>1, <1>2, <2>1
<1> QED
  BY <1>3, <1>4, <1>5, <1>6, <1>7 DEF Next, Finish, Request

\* After a PATCH has switched an endpoint off, or a DELETE has removed it, each
\* worker sends at most the one POST for which it had looked the endpoint up
\* (deliver reads it before each POST).
THEOREM QuietCorrect == Spec => []InactiveIsQuiet
<1>1. Init => LateInv
  <2> SUFFICES ASSUME Init, NEW e \in Endpoints
               PROVE  late[e] = 0 /\ LookedUp(e) = {}
    BY LookedUpType DEF LateInv
  <2> QED
    BY DEF Init, LookedUp
<1>2. TypeOK /\ LateInv => InactiveIsQuiet
  <2> SUFFICES ASSUME TypeOK, LateInv, NEW e \in Endpoints
               PROVE  late[e] <= Cardinality(Workers)
    BY DEF InactiveIsQuiet
  <2>1. late[e] \in Nat
    BY DEF TypeOK, CountsOK
  <2> QED
    BY <2>1, LookedUpType DEF LateInv
<1> QED
  BY <1>1, <1>2, LateNext, TypeCorrect, PTL DEF Spec
=============================================================================

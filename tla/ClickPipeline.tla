---------------------------- MODULE ClickPipeline ----------------------------
(***************************************************************************)
(* Click ingestion: redirects append clicks to a Redis stream; workers of  *)
(* one consumer group read them, store them in PostgreSQL, recompute the   *)
(* daily statistics of their links, queue their webhooks and acknowledge   *)
(* them.  What was read and not acknowledged is claimed again later.       *)
(*                                                                         *)
(* Every Redis command and every SQL statement is one step (the inserts of *)
(* a batch are one implicit transaction).  A daily statistic is named by   *)
(* its key, a link and a date.  A click is "poison" when                   *)
(* ValidateClickEventPayload refuses it; the owner of any other click is   *)
(* known (it was read with its link id).  Each link has one active webhook *)
(* endpoint.                                                               *)
(***************************************************************************)
EXTENDS Integers, Sequences, FiniteSets

CONSTANTS
    Clicks,         \* the clicks, and the stream ids they get
    Poison,         \* clicks whose payload does not validate
    StatKeys,       \* dailyStatsKey: a link and a date
    KeyOf,          \* the link and the date of each click
    Workers,        \* the analytics worker of each running instance
    BatchSize,      \* DefaultBatchSize
    MaxRetries,     \* DefaultMaxRetries
    MaxStreamLen,   \* MAXLEN of the stream
    MaxFaults       \* bound: failing commands, statements and processes

ASSUME PipelineAssumption ==
    /\ Poison \subseteq Clicks
    /\ KeyOf \in [Clicks -> StatKeys]
    /\ BatchSize \in Nat \ {0}
    /\ MaxRetries \in Nat \ {0}
    /\ MaxStreamLen \in Nat \ {0}
    /\ MaxFaults \in Nat

VARIABLES
    click,      \* what has become of each click before the stream
    stream,     \* the entries of the stream, oldest first
    unread,     \* entries not yet given to a consumer
    pel,        \* the pending entries list of the group
    acked,      \* entries acknowledged
    dlq,        \* clicks written to the dead-letter stream
    stored,     \* event_ids in click_events
    stats,      \* total_clicks in daily_link_stats
    hooks,      \* webhook deliveries queued for each click
    wpc,        \* where each worker is
    batch,      \* the messages a worker acknowledges at the end
    left,       \* keys to recompute, then events to publish
    acc,        \* the key a worker recomputes, with the count it has read
    published,  \* events whose delivery carries the click id of this parse
    attempt,    \* attempt of processBatchWithRetry
    faults

vars == <<click, stream, unread, pel, acked, dlq, stored, stats, hooks,
          wpc, batch, left, acc, published, attempt, faults>>

log    == <<click, stream, unread, pel, acked, dlq>>
tables == <<stored, stats, hooks>>
work   == <<batch, left, acc, published, attempt>>
-----------------------------------------------------------------------------
NoAcc == [key |-> "none", total |-> 0]

\* A mutant, used to test the properties: messages are not validated.
UnvalidatedEventsOf(w) == batch[w]

EventsOf(w) == batch[w] \ Poison

\* A count of webhook deliveries is kept up to one more than faults explain.
HookCap == MaxFaults + 2

Fault   == faults < MaxFaults /\ faults' = faults + 1
NoFault == UNCHANGED faults

Goto(w, pc) == wpc' = [wpc EXCEPT ![w] = pc]

Init ==
    /\ click = [m \in Clicks |-> "none"]
    /\ stream = <<>>
    /\ unread = {} /\ pel = {} /\ acked = {} /\ dlq = {}
    /\ stored = {}
    /\ stats = [k \in StatKeys |-> 0]
    /\ hooks = [m \in Clicks |-> 0]
    /\ wpc = [w \in Workers |-> "ready"]
    /\ batch = [w \in Workers |-> {}]
    /\ left = [w \in Workers |-> {}]
    /\ acc = [w \in Workers |-> NoAcc]
    /\ published = [w \in Workers |-> {}]
    /\ attempt = [w \in Workers |-> 0]
    /\ faults = 0
-----------------------------------------------------------------------------
(* Publisher.PublishAsync: XADD with MAXLEN ~. *)

InStream == {stream[i] : i \in 1 .. Len(stream)}

\* Trimming is approximate: any prefix may go, down to the last MaxStreamLen.
TrimTo(s) == {SubSeq(s, i, Len(s)) : i \in {j \in 1 .. Len(s) :
                  j = 1 \/ Len(s) - j + 1 >= MaxStreamLen}}

PublishAsync(m) ==
    /\ click[m] = "none"
    /\ \/ /\ click' = [click EXCEPT ![m] = "sent"]
          /\ stream' \in TrimTo(Append(stream, m))
          /\ unread' = (unread \cup {m}) \cap {stream'[i] : i \in 1 .. Len(stream')}
          /\ NoFault
       \/ /\ click' = [click EXCEPT ![m] = "dropped"]   \* timeout, logged
          /\ Fault /\ UNCHANGED <<stream, unread>>
    /\ UNCHANGED <<pel, acked, dlq, tables, wpc, work>>
-----------------------------------------------------------------------------
(* Worker.processOnce. *)

Take(w, S) == batch' = [batch EXCEPT ![w] = S] /\ Goto(w, "parse")

\* XREADGROUP gives the oldest entries that no consumer has seen.
NextBatch ==
    {stream[i] : i \in {j \in 1 .. Len(stream) :
        /\ stream[j] \in unread
        /\ Cardinality({h \in 1 .. j : stream[h] \in unread}) <= BatchSize}}

\* A mutant, used to test the properties: XREADGROUP with NOACK.
ReadBatchNoAck(w) ==
    /\ wpc[w] = "ready" /\ unread # {}
    /\ unread' = unread \ NextBatch
    /\ Take(w, NextBatch)
    /\ UNCHANGED <<click, stream, pel, acked, dlq, tables, left, acc, published,
                   attempt, faults>>

\* XREADGROUP ... >; the entries are pending even if the answer is lost.
ReadBatch(w) ==
    /\ wpc[w] = "ready" /\ unread # {}
    /\ unread' = unread \ NextBatch
    /\ pel' = pel \cup NextBatch
    /\ \/ Take(w, NextBatch) /\ NoFault
       \/ UNCHANGED <<batch, wpc>> /\ Fault
    /\ UNCHANGED <<click, stream, acked, dlq, tables, left, acc, published, attempt>>

\* A mutant, used to test the properties: pending entries are never claimed.
NeverClaimPending(w) == wpc[w] = "ready" /\ UNCHANGED vars

\* XAUTOCLAIM of entries that have been idle for claimIdle, another worker's
\* as well as one's own.  A batch may take longer than that, so an entry may
\* be claimed while it is being processed.  Entries trimmed from the stream
\* are dropped from the list.
MaybeClaimPending(w) ==
    /\ wpc[w] = "ready"
    /\ \E S \in SUBSET pel :
          /\ S # {} /\ Cardinality(S) <= BatchSize
          /\ pel' = pel \ (S \ InStream)
          /\ IF S \cap InStream = {} THEN UNCHANGED <<batch, wpc>>
                                     ELSE Take(w, S \cap InStream)
    /\ UNCHANGED <<click, stream, unread, acked, dlq, tables, left, acc,
                   published, attempt, faults>>

\* A mutant, used to test the properties: poison is skipped, and acknowledged
\* with its batch.
ParseSkipsPoison(w) ==
    /\ wpc[w] = "parse"
    /\ attempt' = [attempt EXCEPT ![w] = 1]
    /\ Goto(w, IF EventsOf(w) = {} THEN "ack" ELSE "insert")
    /\ UNCHANGED <<log, tables, batch, left, acc, published, faults>>

\* parseMessages: poison goes to the dead-letter stream, where a write that
\* fails is only logged; each other message becomes an event with a fresh
\* click id.  A batch without events is acknowledged at once.
ParseMessages(w) ==
    /\ wpc[w] = "parse"
    /\ \/ dlq' = dlq \cup (batch[w] \cap Poison) /\ NoFault
       \/ /\ \E F \in SUBSET (batch[w] \cap Poison) :
                F # {} /\ dlq' = dlq \cup ((batch[w] \cap Poison) \ F)
          /\ Fault
    /\ published' = [published EXCEPT ![w] = {}]
    /\ attempt' = [attempt EXCEPT ![w] = 1]
    /\ Goto(w, IF EventsOf(w) = {} THEN "ack" ELSE "insert")
    /\ UNCHANGED <<click, stream, unread, pel, acked, tables, batch, left, acc>>

\* INSERT ... ON CONFLICT (event_id) DO NOTHING, for all events or for none.
BulkInsert(w) ==
    /\ wpc[w] = "insert"
    /\ \/ /\ stored' = stored \cup EventsOf(w)
          /\ left' = [left EXCEPT ![w] = {KeyOf[m] : m \in EventsOf(w)}]
          /\ Goto(w, "recalculate")
          /\ NoFault
       \/ /\ stored' \in {stored, stored \cup EventsOf(w)}
          /\ Goto(w, "backoff")
          /\ Fault /\ UNCHANGED left
    /\ UNCHANGED <<log, stats, hooks, batch, acc, published, attempt>>

\* total_clicks of a link on a date, from the rows.
Total(k) == Cardinality({m \in stored : KeyOf[m] = k})

\* UpdateDailyStats, per key: SELECT the rows of the day ...
RecalculateDailyStat(w) ==
    /\ wpc[w] = "recalculate"
    /\ \/ /\ \E k \in left[w] :
                acc' = [acc EXCEPT ![w] = [key |-> k, total |-> Total(k)]]
          /\ Goto(w, "upsert")
          /\ NoFault
       \/ Goto(w, "backoff") /\ Fault /\ UNCHANGED acc
    /\ UNCHANGED <<log, tables, batch, left, published, attempt>>

\* A mutant, used to test the properties: total_clicks = total_clicks + the
\* clicks of the batch.
UpsertedIncrement(w) ==
    LET k == acc[w].key
    IN  [stats EXCEPT ![k] = @ + Cardinality({m \in EventsOf(w) : KeyOf[m] = k})]

\* ... and write what they add up to.
Upserted(w) == [stats EXCEPT ![acc[w].key] = acc[w].total]

\* A mutant, used to test the properties: an error of the upsert is dropped.
UpsertErrorDropped(w) ==
    /\ wpc[w] = "upsert"
    /\ \/ stats' = Upserted(w) /\ NoFault
       \/ UNCHANGED stats /\ Fault
    /\ left' = [left EXCEPT ![w] = EventsOf(w)]
    /\ Goto(w, "publish")
    /\ acc' = [acc EXCEPT ![w] = NoAcc]
    /\ UNCHANGED <<log, stored, hooks, batch, published, attempt>>

UpsertDailyStat(w) ==
    /\ wpc[w] = "upsert"
    /\ LET more == left[w] \ {acc[w].key}
       IN  \/ /\ stats' = Upserted(w)
              /\ IF more # {}
                 THEN left' = [left EXCEPT ![w] = more] /\ Goto(w, "recalculate")
                 ELSE left' = [left EXCEPT ![w] = EventsOf(w)] /\ Goto(w, "publish")
              /\ NoFault
           \/ /\ stats' \in {stats, Upserted(w)}
              /\ Goto(w, "backoff")
              /\ Fault /\ UNCHANGED left
    /\ acc' = [acc EXCEPT ![w] = NoAcc]
    /\ UNCHANGED <<log, stored, hooks, batch, published, attempt>>

\* ON CONFLICT (event_id, endpoint_id) DO NOTHING, where event_id is the click
\* id of this parse.
InsertHook(w, m) ==
    IF m \in published[w] \/ hooks[m] = HookCap THEN hooks
    ELSE [hooks EXCEPT ![m] = @ + 1]

\* A mutant, used to test the properties: the events are acknowledged
\* without being published.
PublishNothing(w) ==
    /\ wpc[w] = "publish"
    /\ left' = [left EXCEPT ![w] = {}]
    /\ Goto(w, "ack")
    /\ UNCHANGED <<log, tables, batch, acc, published, attempt, faults>>

\* publishWebhooks, one event: the delivery is inserted, or its insert fails
\* and is skipped, or the list of endpoints cannot be read.
PublishWebhook(w) ==
    /\ wpc[w] = "publish"
    /\ \E m \in left[w] :
          \/ /\ hooks' = InsertHook(w, m)
             /\ published' = [published EXCEPT ![w] = @ \cup {m}]
             /\ left' = [left EXCEPT ![w] = @ \ {m}]
             /\ Goto(w, IF left[w] = {m} THEN "ack" ELSE "publish")
             /\ NoFault
          \/ /\ left' = [left EXCEPT ![w] = @ \ {m}]
             /\ Goto(w, IF left[w] = {m} THEN "ack" ELSE "publish")
             /\ Fault /\ UNCHANGED <<hooks, published>>
          \/ Goto(w, "backoff") /\ Fault /\ UNCHANGED <<hooks, published, left>>
    /\ UNCHANGED <<log, stored, stats, batch, acc, attempt>>

Rest(w) ==
    /\ Goto(w, "ready")
    /\ batch' = [batch EXCEPT ![w] = {}]
    /\ left' = [left EXCEPT ![w] = {}]
    /\ acc' = [acc EXCEPT ![w] = NoAcc]
    /\ published' = [published EXCEPT ![w] = {}]
    /\ attempt' = [attempt EXCEPT ![w] = 0]

\* processBatchWithRetry: again from the insert, or leave the batch pending.
Backoff(w) ==
    /\ wpc[w] = "backoff"
    /\ \/ /\ attempt[w] < MaxRetries
          /\ attempt' = [attempt EXCEPT ![w] = @ + 1]
          /\ left' = [left EXCEPT ![w] = {}]
          /\ Goto(w, "insert")
          /\ UNCHANGED <<batch, acc, published>>
       \/ attempt[w] = MaxRetries /\ Rest(w)
    /\ UNCHANGED <<log, tables, faults>>

\* XACK of all messages of the batch, the poison included.
AckMessages(w) ==
    /\ wpc[w] = "ack"
    /\ \/ acked' = acked \cup batch[w] /\ pel' = pel \ batch[w] /\ NoFault
       \/ UNCHANGED <<acked, pel>> /\ Fault
    /\ Rest(w)
    /\ UNCHANGED <<click, stream, unread, dlq, tables>>

\* The process dies or its context is cancelled: nothing is acknowledged.
Stop(w) ==
    /\ wpc[w] # "ready"
    /\ Rest(w)
    /\ Fault
    /\ UNCHANGED <<log, tables>>
-----------------------------------------------------------------------------
\* What a worker does once it has a batch.
Process(w) ==
    \/ ParseMessages(w) \/ BulkInsert(w) \/ RecalculateDailyStat(w)
    \/ UpsertDailyStat(w) \/ PublishWebhook(w) \/ Backoff(w) \/ AckMessages(w)

Next ==
    \/ \E m \in Clicks : PublishAsync(m)
    \/ \E w \in Workers : ReadBatch(w) \/ MaybeClaimPending(w) \/ Process(w) \/ Stop(w)

Spec == Init /\ [][Next]_vars

Claims(w, m) == MaybeClaimPending(w) /\ m \in batch'[w]

\* A worker finishes the batch it has.  In its loop it reads what is new, in
\* stream order, and every claimInterval it claims what is idle, with a cursor
\* that goes round the list: no message is passed over for ever.
Fairness ==
    /\ \A w \in Workers : WF_vars(Process(w))
    /\ SF_vars(\E w \in Workers : ReadBatch(w))
    /\ \A m \in Clicks : SF_vars(\E w \in Workers : Claims(w, m))

FairSpec == Spec /\ Fairness
-----------------------------------------------------------------------------
(* Properties. *)

WorkerStep == {"ready", "parse", "insert", "recalculate", "upsert", "publish",
               "backoff", "ack"}

LogOK ==
    /\ click \in [Clicks -> {"none", "sent", "dropped"}]
    /\ stream \in Seq(Clicks)
    /\ unread \subseteq Clicks /\ pel \subseteq Clicks
    /\ acked \subseteq Clicks /\ dlq \subseteq Poison

TablesOK ==
    /\ stored \subseteq Clicks \ Poison
    /\ stats \in [StatKeys -> Nat]
    /\ hooks \in [Clicks -> 0 .. HookCap]

WorkOK ==
    /\ wpc \in [Workers -> WorkerStep]
    /\ batch \in [Workers -> SUBSET Clicks]
    /\ left \in [Workers -> SUBSET (StatKeys \cup Clicks)]
    /\ acc \in [Workers -> {NoAcc} \cup [key : StatKeys, total : Nat]]
    /\ published \in [Workers -> SUBSET Clicks]
    /\ attempt \in [Workers -> 0 .. MaxRetries]
    /\ faults \in 0 .. MaxFaults

\* Every variable has its type; poison is never stored and nothing else is
\* dead-lettered.
TypeOK == LogOK /\ TablesOK /\ WorkOK

\* ADR-0003: an entry is acknowledged only after its raw event is stored; the
\* pending list therefore covers every entry that a failure, a lost answer or
\* a stopped worker left half done.  Poison is in the dead-letter stream by
\* then, unless something failed: a dead letter that cannot be written is
\* logged and acknowledged.
AckedIsKept ==
    \A m \in acked : m \in stored \cup dlq \/ (m \in Poison /\ faults > 0)

\* An entry is never forgotten: as long as it is in the stream it is
\* unread, pending or acknowledged.
EntryIsTracked == \A m \in InStream : m \in unread \cup pel \cup acked

\* No retry, no reclaim and no two workers count a click twice:
\* total_clicks never exceeds the rows it is computed from.
NeverOvercounted == \A k \in StatKeys : stats[k] <= Total(k)

\* Nothing is pending, nothing is being processed, and nothing was trimmed.
IsIdle ==
    /\ pel = {}
    /\ \A w \in Workers : wpc[w] = "ready"
    /\ \A m \in Clicks : click[m] = "sent" => m \in InStream

\* ADR-0003: "Aggregation updates are idempotent to ensure accuracy across
\* retries and partial failures": with nothing pending and nothing running, the
\* daily statistics are what the stored rows add up to.  One worker keeps the
\* promise (UpdateDailyStats runs before XACK, and again for whatever was
\* reclaimed); two workers break it, since recalculateDailyStat and
\* upsertDailyStat are separate statements.
AggregatesAccurate == IsIdle => \A k \in StatKeys : stats[k] = Total(k)

\* A click has one webhook delivery; each failure costs at most one duplicate
\* (the batch is parsed again, with fresh click ids) and without failures none
\* is missing.  With one worker, which claims only what it is not processing.
HooksBounded ==
    \A m \in Clicks :
        /\ hooks[m] <= 1 + faults
        /\ m \in acked \ Poison => hooks[m] + faults >= 1

\* A click that has reached the stream, and is not trimmed from it, is stored
\* (or is poison) and acknowledged, whatever fails on the way.
EventuallyAcked ==
    \A m \in Clicks : (click[m] = "sent") ~> (m \in acked \/ m \notin InStream)
-----------------------------------------------------------------------------
(* Inductive invariants, for the proofs. *)

Sent == {m \in Clicks : click[m] = "sent"}

\* Everything behind the publisher is about clicks that were sent, which are
\* finitely many.
SentInv ==
    /\ IsFiniteSet(Sent)
    /\ InStream \subseteq Sent /\ unread \subseteq Sent /\ pel \subseteq Sent
    /\ stored \subseteq Sent
    /\ \A w \in Workers : batch[w] \subseteq Sent

HasStored == {"recalculate", "upsert", "publish", "ack"}

\* What a worker has done by the time it reaches a step.
StepOK(w) ==
    /\ wpc[w] \in {"recalculate", "upsert"} => left[w] \subseteq StatKeys
    /\ wpc[w] = "upsert" => acc[w] \in [key : left[w], total : Nat]
    /\ wpc[w] = "publish" => left[w] \subseteq EventsOf(w)
    /\ wpc[w] \in HasStored => EventsOf(w) \subseteq stored
    /\ wpc[w] \in {"ready", "parse"} => published[w] = {}
    /\ published[w] \subseteq EventsOf(w)

StepInv == \A w \in Workers : StepOK(w)

\* Behind parseMessages the poison of a batch is in the dead-letter stream,
\* unless something failed.
DeadLetterInv ==
    \A w \in Workers :
        wpc[w] \notin {"ready", "parse"} =>
            batch[w] \cap Poison \subseteq dlq \/ faults > 0

\* A total that was read is never more than what the rows add up to later.
TotalsInv ==
    /\ NeverOvercounted
    /\ \A w \in Workers : wpc[w] = "upsert" => acc[w].total <= Total(acc[w].key)

KeysOf(w) == {KeyOf[m] : m \in EventsOf(w)}

\* The keys of a batch that the pass over them has brought up to date.
Updated(w) ==
    CASE wpc[w] \in {"recalculate", "upsert"} -> KeysOf(w) \ left[w]
      [] wpc[w] \in {"publish", "ack"}        -> KeysOf(w)
      [] OTHER                                -> {}

IsTrimmed == \E m \in Clicks : click[m] = "sent" /\ m \notin InStream

\* One worker: an entry stays pending while it is processed.
HeldInv ==
    \A w \in Workers : batch[w] \subseteq pel /\ (wpc[w] = "ready" => batch[w] = {})

\* One worker: the statistics of the batch that have been written are right.
WrittenInv ==
    \A w \in Workers :
        /\ wpc[w] = "upsert" => acc[w].total = Total(acc[w].key)
        /\ \A k \in Updated(w) : stats[k] = Total(k)

\* One worker: a statistic that lags behind the rows is that of a click which
\* is still pending, or one was trimmed.
LagInv ==
    \A k \in StatKeys :
        \/ stats[k] = Total(k)
        \/ IsTrimmed
        \/ \E m \in pel \ Poison : KeyOf[m] = k

AccurateInv == HeldInv /\ WrittenInv /\ LagInv

\* One worker: a click that has been acknowledged is counted.
CountedInv ==
    \A k \in StatKeys : Cardinality({m \in acked \ Poison : KeyOf[m] = k}) <= stats[k]

\* The events of a batch that publishWebhooks has dealt with.
Handled(w) ==
    CASE wpc[w] = "publish" -> EventsOf(w) \ left[w]
      [] wpc[w] = "ack"     -> EventsOf(w)
      [] OTHER              -> {}

\* A delivery is missing only where something failed.
MissingInv ==
    /\ \A m \in acked \ Poison : hooks[m] + faults >= 1
    /\ \A w \in Workers : \A m \in published[w] : hooks[m] >= 1
    /\ \A w \in Workers : \A m \in Handled(w) : hooks[m] + faults >= 1

\* One worker: an entry is unread, pending or acknowledged, and never two of
\* them.
OnceInv ==
    /\ acked \subseteq Sent
    /\ acked \cap (pel \cup unread) = {}
    /\ pel \cap unread = {}

\* One worker: a click that may still be published has at most one delivery
\* for each failure, and so has one whose pass has failed.
DuplicateInv ==
    \A m \in Clicks :
        /\ hooks[m] <= 1 + faults
        /\ \/ m \in acked
           \/ \E w \in Workers : m \in published[w] /\ wpc[w] # "backoff"
           \/ hooks[m] <= faults
=============================================================================

------------------------- MODULE ClickPipelineProofs -------------------------
(***************************************************************************)
(* Proofs about ClickPipeline and AnalyticsReport, for any clicks, keys    *)
(* and workers, any batch size, stream length and bounds.                  *)
(***************************************************************************)
EXTENDS AnalyticsReport, FiniteSetTheorems, SequenceTheorems, TLAPS

(***************************************************************************)
(* The stream.                                                             *)
(***************************************************************************)

\* Trimming keeps a part of the sequence: it makes no entries up.
LEMMA TrimType ==
    ASSUME NEW s \in Seq(Clicks), NEW t \in TrimTo(s)
    PROVE  /\ t \in Seq(Clicks)
           /\ \A i \in 1 .. Len(t) : \E j \in 1 .. Len(s) : t[i] = s[j]
<1>1. PICK i \in 1 .. Len(s) : t = SubSeq(s, i, Len(s))
  BY DEF TrimTo
<1>2. Len(s) \in Nat /\ \A j \in i .. Len(s) : s[j] \in Clicks
  BY LenProperties, ElementOfSeq
<1>3. /\ t \in Seq(Clicks)
      /\ Len(t) = Len(s) - i + 1
      /\ \A j \in 1 .. Len(s) - i + 1 : t[j] = s[i + j - 1]
  BY <1>1, <1>2, SubSeqProperties
<1>4. ASSUME NEW j \in 1 .. Len(t) PROVE \E h \in 1 .. Len(s) : t[j] = s[h]
  <2>1. i + j - 1 \in 1 .. Len(s)
    BY <1>2, <1>3
  <2> QED
    BY <1>3, <2>1
<1> QED
  BY <1>3, <1>4

\* PublishAsync adds the click to the stream and nothing else.
LEMMA PublishStream ==
    ASSUME LogOK, NEW m \in Clicks, stream' \in TrimTo(Append(stream, m))
    PROVE  stream' \in Seq(Clicks) /\ InStream' \subseteq InStream \cup {m}
<1>1. /\ stream \in Seq(Clicks)
      /\ Append(stream, m) \in Seq(Clicks)
      /\ Len(Append(stream, m)) = Len(stream) + 1
      /\ \A i \in 1 .. Len(stream) : Append(stream, m)[i] = stream[i]
      /\ Append(stream, m)[Len(stream) + 1] = m
      /\ Len(stream) \in Nat
  BY AppendProperties, LenProperties DEF LogOK
<1>2. /\ stream' \in Seq(Clicks)
      /\ \A i \in 1 .. Len(stream') :
             \E j \in 1 .. Len(Append(stream, m)) : stream'[i] = Append(stream, m)[j]
  BY <1>1, TrimType
<1>3. ASSUME NEW x \in InStream' PROVE x \in InStream \cup {m}
  <2>1. PICK j \in 1 .. Len(stream) + 1 : x = Append(stream, m)[j]
    BY <1>1, <1>2 DEF InStream
  <2>2. CASE j = Len(stream) + 1
    BY <1>1, <2>1, <2>2
  <2>3. CASE j \in 1 .. Len(stream)
    BY <1>1, <2>1, <2>3 DEF InStream
  <2> QED
    BY <1>1, <2>2, <2>3
<1> QED
  BY <1>2, <1>3

\* XREADGROUP returns entries of the stream that were unread.
LEMMA BatchIsUnread == NextBatch \subseteq unread /\ NextBatch \subseteq InStream
BY DEF NextBatch, InStream

(***************************************************************************)
(* Types, and what a worker has done at each of its steps.                 *)
(***************************************************************************)

Basics == TypeOK /\ SentInv /\ StepInv

\* The rows of a key among the events S.
RowsOf(S, k) == Cardinality({m \in S : KeyOf[m] = k})

\* Their number is a natural number, and grows with the events.
LEMMA RowsGrow ==
    ASSUME NEW T, IsFiniteSet(T), NEW S, S \subseteq T, NEW k
    PROVE  RowsOf(S, k) \in Nat /\ RowsOf(T, k) \in Nat /\ RowsOf(S, k) <= RowsOf(T, k)
<1>1. /\ {m \in T : KeyOf[m] = k} \in SUBSET T
      /\ {m \in S : KeyOf[m] = k} \in SUBSET {m \in T : KeyOf[m] = k}
  OBVIOUS
<1>2. IsFiniteSet({m \in T : KeyOf[m] = k})
  BY <1>1, FS_Subset
<1>3. IsFiniteSet({m \in S : KeyOf[m] = k})
  BY <1>1, <1>2, FS_Subset
<1> QED
  BY <1>1, <1>2, <1>3, FS_Subset, FS_CardinalityType DEF RowsOf

LEMMA TotalType ==
    ASSUME SentInv, NEW k
    PROVE  Total(k) = RowsOf(stored, k) /\ Total(k) \in Nat
<1>1. Total(k) = RowsOf(stored, k)
  BY DEF Total, RowsOf
<1> QED
  BY <1>1, RowsGrow DEF SentInv

\* The empty pipeline.
LEMMA BasicsInit == Init => Basics
<1> SUFFICES ASSUME Init PROVE Basics
  OBVIOUS
<1>1. LogOK
  BY PipelineAssumption DEF Init, LogOK
<1>2. TablesOK
  BY PipelineAssumption DEF Init, TablesOK, HookCap
<1>3. WorkOK
  BY PipelineAssumption DEF Init, WorkOK, WorkerStep
<1>4. SentInv
  <2>1. Sent = {} /\ InStream = {}
    BY DEF Init, Sent, InStream
  <2> QED
    BY <2>1, FS_EmptySet DEF Init, SentInv
<1>5. StepInv
  BY DEF Init, StepInv, StepOK, HasStored
<1> QED
  BY <1>1, <1>2, <1>3, <1>4, <1>5 DEF Basics, TypeOK

\* A worker that does not move is where it was; the rows may grow.
LEMMA StepFrame ==
    ASSUME StepInv, NEW w \in Workers, stored \subseteq stored',
           wpc'[w] = wpc[w], batch'[w] = batch[w], left'[w] = left[w],
           acc'[w] = acc[w], published'[w] = published[w]
    PROVE  StepOK(w)'
BY DEF StepInv, StepOK, EventsOf

\* A step of one worker leaves the others where they are.
LEMMA StepOthers ==
    ASSUME Basics, NEW w \in Workers, NEW v \in Workers, v # w,
           Process(w) \/ ReadBatch(w) \/ MaybeClaimPending(w) \/ Stop(w)
    PROVE  /\ wpc'[v] = wpc[v] /\ batch'[v] = batch[v] /\ left'[v] = left[v]
           /\ acc'[v] = acc[v] /\ published'[v] = published[v]
           /\ stored \subseteq stored'
<1>0. WorkOK
  BY DEF Basics, TypeOK
<1>1. CASE ReadBatch(w) \/ MaybeClaimPending(w)
  BY <1>0, <1>1 DEF ReadBatch, MaybeClaimPending, Take, Goto, WorkOK, tables
<1>2. CASE ParseMessages(w) \/ BulkInsert(w)
  BY <1>0, <1>2 DEF ParseMessages, BulkInsert, Goto, WorkOK, tables
<1>3. CASE RecalculateDailyStat(w) \/ UpsertDailyStat(w)
  BY <1>0, <1>3 DEF RecalculateDailyStat, UpsertDailyStat, Goto, WorkOK, tables
<1>4. CASE PublishWebhook(w)
  BY <1>0, <1>4 DEF PublishWebhook, Goto, WorkOK
<1>5. CASE Backoff(w) \/ AckMessages(w) \/ Stop(w)
  BY <1>0, <1>5 DEF Backoff, AckMessages, Stop, Rest, Goto, WorkOK, tables
<1> QED
  BY <1>1, <1>2, <1>3, <1>4, <1>5 DEF Process

\* Rest empties the hands of a worker.
LEMMA RestOK ==
    ASSUME Basics, NEW w \in Workers, Rest(w),
           UNCHANGED stored, faults' = faults \/ Fault
    PROVE  WorkOK' /\ StepOK(w)' /\ \A v \in Workers : batch'[v] \subseteq batch[v]
<1>0. WorkOK
  BY DEF Basics, TypeOK
<1>1. WorkOK'
  BY <1>0, PipelineAssumption DEF WorkOK, Rest, Goto, Fault, WorkerStep
<1>2. /\ wpc'[w] = "ready" /\ published'[w] = {} /\ batch'[w] = {}
  BY <1>0 DEF WorkOK, Rest, Goto
<1>3. \A v \in Workers : batch'[v] \subseteq batch[v]
  BY <1>0 DEF WorkOK, Rest
<1>4. StepOK(w)'
  BY <1>2 DEF StepOK, HasStored, EventsOf
<1> QED
  BY <1>1, <1>3, <1>4

\* The steps that take a batch.
LEMMA BasicsTake ==
    ASSUME Basics, NEW w \in Workers, ReadBatch(w) \/ MaybeClaimPending(w)
    PROVE  Basics'
<1>0. LogOK /\ TablesOK /\ WorkOK /\ SentInv /\ StepInv
  BY DEF Basics, TypeOK
<1>1. UNCHANGED <<click, stream, acked, dlq, stored, stats, hooks, left, acc,
                  published, attempt>>
  BY DEF ReadBatch, MaybeClaimPending, tables
<1>2. /\ unread' \subseteq unread
      /\ pel' \subseteq pel \cup unread
      /\ \/ UNCHANGED <<batch, wpc>>
         \/ \E S : S \subseteq pel \cup unread /\ Take(w, S)
      /\ wpc[w] = "ready"
      /\ faults' = faults \/ Fault
  BY BatchIsUnread DEF ReadBatch, MaybeClaimPending, NoFault
<1>3. LogOK' /\ TablesOK'
  BY <1>0, <1>1, <1>2 DEF LogOK, TablesOK, HookCap
<1>4. WorkOK'
  <2>1. wpc' \in [Workers -> WorkerStep]
    BY <1>0, <1>2 DEF WorkOK, Take, Goto, WorkerStep
  <2>2. batch' \in [Workers -> SUBSET Clicks]
    BY <1>0, <1>2 DEF WorkOK, LogOK, Take
  <2>3. faults' \in 0 .. MaxFaults
    BY <1>0, <1>2, PipelineAssumption DEF WorkOK, Fault
  <2> QED
    BY <1>0, <1>1, <2>1, <2>2, <2>3 DEF WorkOK
<1>5. SentInv'
  <2>1. Sent' = Sent /\ InStream' = InStream
    BY <1>1 DEF Sent, InStream
  <2>2. \A v \in Workers : batch'[v] \subseteq Sent
    BY <1>0, <1>2 DEF SentInv, Take, WorkOK
  <2> QED
    BY <1>0, <1>1, <1>2, <2>1, <2>2 DEF SentInv
<1>6. StepOK(w)'
  <2>1. wpc'[w] \in {"ready", "parse"} /\ published'[w] = {}
    BY <1>0, <1>1, <1>2 DEF WorkOK, Take, Goto, StepInv, StepOK
  <2> QED
    BY <2>1 DEF StepOK, HasStored
<1>7. StepInv'
  BY <1>0, <1>6, StepFrame, StepOthers DEF StepInv
<1> QED
  BY <1>3, <1>4, <1>5, <1>7 DEF Basics, TypeOK

\* The publisher.
LEMMA BasicsPublish ==
    ASSUME Basics, NEW m \in Clicks, PublishAsync(m)
    PROVE  Basics'
<1>0. LogOK /\ TablesOK /\ WorkOK /\ SentInv /\ StepInv
  BY DEF Basics, TypeOK
<1>1. UNCHANGED <<pel, acked, dlq, stored, stats, hooks, wpc, batch, left, acc,
                  published, attempt>>
  BY DEF PublishAsync, tables, work
<1>2. /\ stream' \in Seq(Clicks)
      /\ \/ /\ click' = [click EXCEPT ![m] = "sent"]
            /\ InStream' \subseteq InStream \cup {m}
            /\ unread' \subseteq unread \cup {m}
         \/ /\ click' = [click EXCEPT ![m] = "dropped"]
            /\ UNCHANGED <<stream, unread>>
      /\ click[m] = "none"
      /\ faults' = faults \/ Fault
  <2>1. CASE stream' \in TrimTo(Append(stream, m))
    BY <1>0, <2>1, PublishStream DEF PublishAsync, NoFault, LogOK
  <2>2. CASE UNCHANGED stream
    BY <1>0, <2>2 DEF PublishAsync, NoFault, LogOK, InStream
  <2> QED
    BY <2>1, <2>2 DEF PublishAsync
<1>3. LogOK'
  BY <1>0, <1>1, <1>2 DEF LogOK
<1>4. TablesOK'
  BY <1>0, <1>1 DEF TablesOK, HookCap
<1>5. WorkOK'
  <2>1. faults' \in 0 .. MaxFaults
    BY <1>0, <1>2, PipelineAssumption DEF WorkOK, Fault
  <2> QED
    BY <1>0, <1>1, <2>1 DEF WorkOK
<1>6. SentInv'
  <2>1. CASE click' = [click EXCEPT ![m] = "sent"]
    <3>1. Sent' = Sent \cup {m}
      BY <1>0, <2>1 DEF LogOK, Sent
    <3>2. IsFiniteSet(Sent')
      BY <1>0, <3>1, FS_AddElement DEF SentInv
    <3>3. InStream' \subseteq Sent' /\ unread' \subseteq Sent'
      BY <1>0, <1>2, <2>1, <3>1 DEF SentInv, LogOK, InStream
    <3> QED
      BY <1>0, <1>1, <3>1, <3>2, <3>3 DEF SentInv
  <2>2. CASE click' = [click EXCEPT ![m] = "dropped"] /\ UNCHANGED <<stream, unread>>
    <3>1. Sent' = Sent /\ InStream' = InStream
      BY <1>0, <1>2, <2>2 DEF LogOK, Sent, InStream
    <3> QED
      BY <1>0, <1>1, <2>2, <3>1 DEF SentInv
  <2> QED
    BY <1>2, <2>1, <2>2
<1>7. StepInv'
  BY <1>0, <1>1, StepFrame DEF StepInv
<1> QED
  BY <1>3, <1>4, <1>5, <1>6, <1>7 DEF Basics, TypeOK

\* Where a step changes neither the log nor the set of rows, and no batch
\* grows, everything is still about clicks that were sent.
LEMMA SentFrame ==
    ASSUME SentInv, UNCHANGED <<click, stream>>,
           unread' \subseteq unread, pel' \subseteq pel,
           \A w \in Workers : batch'[w] \subseteq batch[w],
           stored' \subseteq stored \cup UNION {batch[w] : w \in Workers}
    PROVE  SentInv'
<1>1. Sent' = Sent /\ InStream' = InStream
  BY DEF Sent, InStream
<1>2. stored' \subseteq Sent
  BY DEF SentInv
<1> QED
  BY <1>1, <1>2 DEF SentInv

\* The steps that end the work on a batch, or begin it again.
LEMMA BasicsEnd ==
    ASSUME Basics, NEW w \in Workers, Backoff(w) \/ AckMessages(w) \/ Stop(w)
    PROVE  Basics'
<1>0. LogOK /\ TablesOK /\ WorkOK /\ SentInv /\ StepInv
  BY DEF Basics, TypeOK
<1>1. /\ UNCHANGED <<click, stream, unread, dlq, stored, stats, hooks>>
      /\ pel' \subseteq pel
      /\ acked' \subseteq acked \cup batch[w]
  BY DEF Backoff, AckMessages, Stop, log, tables
<1>2. LogOK' /\ TablesOK'
  BY <1>0, <1>1 DEF LogOK, TablesOK, WorkOK, HookCap
<1>3. WorkOK' /\ StepOK(w)' /\ \A v \in Workers : batch'[v] \subseteq batch[v]
  <2>1. CASE Rest(w)
    <3>1. faults' = faults \/ Fault
      BY DEF Backoff, AckMessages, Stop, NoFault
    <3> QED
      BY <1>1, <2>1, <3>1, RestOK
  <2>2. CASE ~Rest(w)
    <3>1. /\ wpc[w] = "backoff" /\ attempt[w] < MaxRetries
          /\ attempt' = [attempt EXCEPT ![w] = @ + 1]
          /\ left' = [left EXCEPT ![w] = {}]
          /\ wpc' = [wpc EXCEPT ![w] = "insert"]
          /\ UNCHANGED <<batch, acc, published, faults>>
      BY <2>2 DEF Backoff, AckMessages, Stop, Goto
    <3>2. attempt' \in [Workers -> 0 .. MaxRetries]
      BY <1>0, <3>1, PipelineAssumption DEF WorkOK
    <3>3. WorkOK'
      BY <1>0, <3>1, <3>2 DEF WorkOK, WorkerStep
    <3>4. wpc'[w] = "insert" /\ published'[w] \subseteq EventsOf(w)'
      BY <1>0, <3>1 DEF WorkOK, StepInv, StepOK, EventsOf
    <3>5. StepOK(w)'
      BY <3>4 DEF StepOK, HasStored
    <3> QED
      BY <3>1, <3>3, <3>5
  <2> QED
    BY <2>1, <2>2
<1>4. SentInv'
  BY <1>0, <1>1, <1>3, SentFrame
<1>5. StepInv'
  BY <1>0, <1>3, StepFrame, StepOthers DEF StepInv, Process
<1> QED
  BY <1>2, <1>3, <1>4, <1>5 DEF Basics, TypeOK

\* parseMessages.
LEMMA BasicsParse ==
    ASSUME Basics, NEW w \in Workers, ParseMessages(w)
    PROVE  Basics'
<1>0. LogOK /\ TablesOK /\ WorkOK /\ SentInv /\ StepInv
  BY DEF Basics, TypeOK
<1>1. /\ UNCHANGED <<click, stream, unread, pel, acked, stored, stats, hooks,
                     batch, left, acc>>
      /\ dlq' \subseteq dlq \cup (batch[w] \cap Poison)
      /\ published' = [published EXCEPT ![w] = {}]
      /\ attempt' = [attempt EXCEPT ![w] = 1]
      /\ wpc' = [wpc EXCEPT ![w] = IF EventsOf(w) = {} THEN "ack" ELSE "insert"]
      /\ faults' = faults \/ Fault
  BY DEF ParseMessages, tables, Goto, NoFault
<1>2. LogOK' /\ TablesOK'
  BY <1>0, <1>1 DEF LogOK, TablesOK, HookCap
<1>3. WorkOK'
  <2>1. faults' \in 0 .. MaxFaults
    BY <1>0, <1>1, PipelineAssumption DEF WorkOK, Fault
  <2>2. attempt' \in [Workers -> 0 .. MaxRetries]
    BY <1>0, <1>1, PipelineAssumption DEF WorkOK
  <2>3. wpc' \in [Workers -> WorkerStep]
    BY <1>0, <1>1 DEF WorkOK, WorkerStep
  <2> QED
    BY <1>0, <1>1, <2>1, <2>2, <2>3 DEF WorkOK
<1>4. SentInv'
  BY <1>0, <1>1, SentFrame
<1>5. StepOK(w)'
  <2>1. /\ wpc'[w] = IF EventsOf(w) = {} THEN "ack" ELSE "insert"
        /\ published'[w] = {} /\ EventsOf(w)' = EventsOf(w)
    BY <1>0, <1>1 DEF WorkOK, EventsOf
  <2> QED
    BY <2>1 DEF StepOK, HasStored
<1>6. StepInv'
  BY <1>0, <1>5, StepFrame, StepOthers DEF StepInv, Process
<1> QED
  BY <1>2, <1>3, <1>4, <1>6 DEF Basics, TypeOK

\* BulkInsert.
LEMMA BasicsInsert ==
    ASSUME Basics, NEW w \in Workers, BulkInsert(w)
    PROVE  Basics'
<1>0. LogOK /\ TablesOK /\ WorkOK /\ SentInv /\ StepInv
  BY DEF Basics, TypeOK
<1>1. /\ UNCHANGED <<click, stream, unread, pel, acked, dlq, stats, hooks,
                     batch, acc, published, attempt>>
      /\ stored' \in {stored, stored \cup EventsOf(w)}
      /\ \/ /\ stored' = stored \cup EventsOf(w)
            /\ left' = [left EXCEPT ![w] = {KeyOf[m] : m \in EventsOf(w)}]
            /\ wpc' = [wpc EXCEPT ![w] = "recalculate"]
         \/ /\ left' = left
            /\ wpc' = [wpc EXCEPT ![w] = "backoff"]
      /\ faults' = faults \/ Fault
  BY DEF BulkInsert, log, Goto, NoFault
<1>2. EventsOf(w) \subseteq Clicks \ Poison
  BY <1>0 DEF EventsOf, WorkOK
<1>3. {KeyOf[m] : m \in EventsOf(w)} \subseteq StatKeys
  BY <1>2, PipelineAssumption
<1>4. LogOK' /\ TablesOK'
  BY <1>0, <1>1, <1>2 DEF LogOK, TablesOK, HookCap
<1>5. WorkOK'
  <2>1. faults' \in 0 .. MaxFaults
    BY <1>0, <1>1, PipelineAssumption DEF WorkOK, Fault
  <2>2. left' \in [Workers -> SUBSET (StatKeys \cup Clicks)]
    BY <1>0, <1>1, <1>3 DEF WorkOK
  <2>3. wpc' \in [Workers -> WorkerStep]
    BY <1>0, <1>1 DEF WorkOK, WorkerStep
  <2> QED
    BY <1>0, <1>1, <2>1, <2>2, <2>3 DEF WorkOK
<1>6. SentInv'
  BY <1>0, <1>1, SentFrame DEF EventsOf
<1>7. StepOK(w)'
  <2>1. published'[w] \subseteq EventsOf(w)' /\ EventsOf(w)' = EventsOf(w)
    BY <1>0, <1>1 DEF StepInv, StepOK, EventsOf
  <2>2. \/ /\ wpc'[w] = "recalculate" /\ left'[w] \subseteq StatKeys
           /\ EventsOf(w) \subseteq stored'
        \/ wpc'[w] = "backoff"
    BY <1>0, <1>1, <1>3 DEF WorkOK
  <2> QED
    BY <2>1, <2>2 DEF StepOK, HasStored
<1>8. StepInv'
  BY <1>0, <1>7, StepFrame, StepOthers DEF StepInv, Process
<1> QED
  BY <1>4, <1>5, <1>6, <1>8 DEF Basics, TypeOK

\* recalculateDailyStat.
LEMMA BasicsRecalculate ==
    ASSUME Basics, NEW w \in Workers, RecalculateDailyStat(w)
    PROVE  Basics'
<1>0. LogOK /\ TablesOK /\ WorkOK /\ SentInv /\ StepInv
  BY DEF Basics, TypeOK
<1>1. /\ UNCHANGED <<click, stream, unread, pel, acked, dlq, stored, stats, hooks,
                     batch, left, published, attempt>>
      /\ wpc[w] = "recalculate"
      /\ \/ /\ \E k \in left[w] :
                  acc' = [acc EXCEPT ![w] = [key |-> k, total |-> Total(k)]]
            /\ wpc' = [wpc EXCEPT ![w] = "upsert"]
         \/ /\ acc' = acc
            /\ wpc' = [wpc EXCEPT ![w] = "backoff"]
      /\ faults' = faults \/ Fault
  BY DEF RecalculateDailyStat, log, tables, Goto, NoFault
<1>2. left[w] \subseteq StatKeys
  BY <1>0, <1>1 DEF StepInv, StepOK
<1>3. ASSUME NEW k \in left[w]
      PROVE  [key |-> k, total |-> Total(k)] \in [key : left[w], total : Nat]
  BY <1>0, <1>3, TotalType
<1>4. LogOK' /\ TablesOK'
  BY <1>0, <1>1 DEF LogOK, TablesOK, HookCap
<1>5. WorkOK'
  <2>1. faults' \in 0 .. MaxFaults
    BY <1>0, <1>1, PipelineAssumption DEF WorkOK, Fault
  <2>2. acc' \in [Workers -> {NoAcc} \cup [key : StatKeys, total : Nat]]
    <3>1. CASE acc' = acc
      BY <1>0, <3>1 DEF WorkOK
    <3>2. ASSUME NEW k \in left[w],
                 acc' = [acc EXCEPT ![w] = [key |-> k, total |-> Total(k)]]
          PROVE  acc' \in [Workers -> {NoAcc} \cup [key : StatKeys, total : Nat]]
      <4>1. Total(k) \in Nat /\ k \in StatKeys
        BY <1>0, <1>2, TotalType
      <4> QED
        BY <1>0, <3>2, <4>1 DEF WorkOK
    <3> QED
      BY <1>1, <3>1, <3>2
  <2>3. wpc' \in [Workers -> WorkerStep]
    BY <1>0, <1>1 DEF WorkOK, WorkerStep
  <2> QED
    BY <1>0, <1>1, <2>1, <2>2, <2>3 DEF WorkOK
<1>6. SentInv'
  BY <1>0, <1>1, SentFrame
<1>7. StepOK(w)'
  <2>1. /\ published'[w] \subseteq EventsOf(w)' /\ EventsOf(w)' = EventsOf(w)
        /\ EventsOf(w) \subseteq stored' /\ left'[w] \subseteq StatKeys
    BY <1>0, <1>1, <1>2 DEF StepInv, StepOK, EventsOf, HasStored
  <2>2. \/ wpc'[w] = "upsert" /\ acc'[w] \in [key : left'[w], total : Nat]
        \/ wpc'[w] = "backoff"
    <3>1. wpc'[w] \in {"upsert", "backoff"}
      BY <1>0, <1>1 DEF WorkOK
    <3>2. CASE wpc'[w] = "upsert"
      <4>1. PICK k \in left[w] :
                acc' = [acc EXCEPT ![w] = [key |-> k, total |-> Total(k)]]
        BY <1>0, <1>1, <3>2 DEF WorkOK
      <4>2. acc'[w] = [key |-> k, total |-> Total(k)]
        BY <1>0, <4>1 DEF WorkOK
      <4> QED
        BY <1>1, <1>3, <3>2, <4>2
    <3> QED
      BY <3>1, <3>2
  <2> QED
    BY <2>1, <2>2 DEF StepOK, HasStored
<1>8. StepInv'
  BY <1>0, <1>7, StepFrame, StepOthers DEF StepInv, Process
<1> QED
  BY <1>4, <1>5, <1>6, <1>8 DEF Basics, TypeOK

\* upsertDailyStat.
LEMMA BasicsUpsert ==
    ASSUME Basics, NEW w \in Workers, UpsertDailyStat(w)
    PROVE  Basics'
<1> DEFINE more == left[w] \ {acc[w].key}
<1>0. LogOK /\ TablesOK /\ WorkOK /\ SentInv /\ StepInv
  BY DEF Basics, TypeOK
<1>1. /\ UNCHANGED <<click, stream, unread, pel, acked, dlq, stored, hooks,
                     batch, published, attempt>>
      /\ wpc[w] = "upsert"
      /\ stats' \in {stats, Upserted(w)}
      /\ acc' = [acc EXCEPT ![w] = NoAcc]
      /\ \/ /\ left' = [left EXCEPT ![w] = more]
            /\ wpc' = [wpc EXCEPT ![w] = "recalculate"]
         \/ /\ left' = [left EXCEPT ![w] = EventsOf(w)]
            /\ wpc' = [wpc EXCEPT ![w] = "publish"]
         \/ /\ left' = left
            /\ wpc' = [wpc EXCEPT ![w] = "backoff"]
      /\ faults' = faults \/ Fault
  BY DEF UpsertDailyStat, log, Goto, NoFault
<1>2. /\ left[w] \subseteq StatKeys /\ acc[w] \in [key : left[w], total : Nat]
      /\ EventsOf(w) \subseteq Clicks
  BY <1>0, <1>1 DEF StepInv, StepOK, EventsOf, WorkOK
<1> HIDE DEF more
<1>3. more \subseteq StatKeys
  BY <1>2 DEF more
<1>4. LogOK' /\ TablesOK'
  <2>1. stats' \in [StatKeys -> Nat]
    BY <1>0, <1>1, <1>2 DEF TablesOK, Upserted
  <2> QED
    BY <1>0, <1>1, <2>1 DEF LogOK, TablesOK, HookCap
<1>5. WorkOK'
  <2>1. faults' \in 0 .. MaxFaults
    BY <1>0, <1>1, PipelineAssumption DEF WorkOK, Fault
  <2>2. left' \in [Workers -> SUBSET (StatKeys \cup Clicks)]
    BY <1>0, <1>1, <1>2, <1>3 DEF WorkOK
  <2>3. wpc' \in [Workers -> WorkerStep]
    BY <1>0, <1>1 DEF WorkOK, WorkerStep
  <2>4. acc' \in [Workers -> {NoAcc} \cup [key : StatKeys, total : Nat]]
    BY <1>0, <1>1 DEF WorkOK
  <2> QED
    BY <1>0, <1>1, <2>1, <2>2, <2>3, <2>4 DEF WorkOK
<1>6. SentInv'
  BY <1>0, <1>1, SentFrame
<1>7. StepOK(w)'
  <2>1. /\ published'[w] \subseteq EventsOf(w)' /\ EventsOf(w)' = EventsOf(w)
        /\ EventsOf(w) \subseteq stored'
    BY <1>0, <1>1 DEF StepInv, StepOK, EventsOf, HasStored
  <2>2. \/ wpc'[w] = "recalculate" /\ left'[w] = more
        \/ wpc'[w] = "publish" /\ left'[w] = EventsOf(w)
        \/ wpc'[w] = "backoff"
    BY <1>0, <1>1 DEF WorkOK
  <2> QED
    BY <1>3, <2>1, <2>2 DEF StepOK, HasStored
<1>8. StepInv'
  BY <1>0, <1>7, StepFrame, StepOthers DEF StepInv, Process
<1> QED
  BY <1>4, <1>5, <1>6, <1>8 DEF Basics, TypeOK

\* publishWebhooks.
LEMMA BasicsHooks ==
    ASSUME Basics, NEW w \in Workers, PublishWebhook(w)
    PROVE  Basics'
<1>0. LogOK /\ TablesOK /\ WorkOK /\ SentInv /\ StepInv
  BY DEF Basics, TypeOK
<1>1. PICK m \in left[w] :
        /\ hooks' \in {hooks, InsertHook(w, m)}
        /\ published' \in {published, [published EXCEPT ![w] = @ \cup {m}]}
        /\ \/ /\ left' = [left EXCEPT ![w] = @ \ {m}]
              /\ wpc' = [wpc EXCEPT ![w] = IF left[w] = {m} THEN "ack" ELSE "publish"]
           \/ /\ left' = left
              /\ wpc' = [wpc EXCEPT ![w] = "backoff"]
        /\ faults' = faults \/ Fault
  BY DEF PublishWebhook, Goto, NoFault
<1>2. /\ UNCHANGED <<click, stream, unread, pel, acked, dlq, stored, stats, batch,
                     acc, attempt>>
      /\ wpc[w] = "publish"
  BY DEF PublishWebhook, log
<1>3. /\ left[w] \subseteq EventsOf(w) /\ EventsOf(w) \subseteq Clicks
      /\ m \in EventsOf(w) /\ m \in Clicks
  BY <1>0, <1>2 DEF StepInv, StepOK, EventsOf, WorkOK
<1>4. LogOK' /\ TablesOK'
  <2>1. hooks' \in [Clicks -> 0 .. HookCap]
    <3>1. HookCap \in Nat
      BY PipelineAssumption DEF HookCap
    <3>2. hooks \in [Clicks -> 0 .. HookCap]
      BY <1>0 DEF TablesOK
    <3> QED
      BY <1>1, <1>3, <3>1, <3>2 DEF InsertHook
  <2> QED
    BY <1>0, <1>2, <2>1 DEF LogOK, TablesOK
<1>5. WorkOK'
  <2>1. faults' \in 0 .. MaxFaults
    BY <1>0, <1>1, PipelineAssumption DEF WorkOK, Fault
  <2>2. left' \in [Workers -> SUBSET (StatKeys \cup Clicks)]
    BY <1>0, <1>1 DEF WorkOK
  <2>3. wpc' \in [Workers -> WorkerStep]
    BY <1>0, <1>1 DEF WorkOK, WorkerStep
  <2>4. published' \in [Workers -> SUBSET Clicks]
    BY <1>0, <1>1, <1>3 DEF WorkOK
  <2> QED
    BY <1>0, <1>2, <2>1, <2>2, <2>3, <2>4 DEF WorkOK
<1>6. SentInv'
  BY <1>0, <1>2, SentFrame
<1>7. StepOK(w)'
  <2>1. /\ EventsOf(w)' = EventsOf(w) /\ EventsOf(w) \subseteq stored'
        /\ published[w] \subseteq EventsOf(w)
    BY <1>0, <1>2 DEF StepInv, StepOK, EventsOf, HasStored
  <2>2. published'[w] \subseteq EventsOf(w)
    BY <1>0, <1>1, <1>3, <2>1 DEF WorkOK
  <2>3. \/ wpc'[w] \in {"ack", "publish"} /\ left'[w] = left[w] \ {m}
        \/ wpc'[w] = "backoff"
    BY <1>0, <1>1 DEF WorkOK
  <2> QED
    BY <1>3, <2>1, <2>2, <2>3 DEF StepOK, HasStored
<1>8. StepInv'
  BY <1>0, <1>7, StepFrame, StepOthers DEF StepInv, Process
<1> QED
  BY <1>4, <1>5, <1>6, <1>8 DEF Basics, TypeOK

\* Every step.
LEMMA BasicsNext == Basics /\ [Next]_vars => Basics'
<1> SUFFICES ASSUME Basics, [Next]_vars PROVE Basics'
  OBVIOUS
<1>1. CASE UNCHANGED vars
  <2>1. LogOK' /\ TablesOK'
    BY <1>1 DEF vars, Basics, TypeOK, LogOK, TablesOK, HookCap
  <2>2. WorkOK'
    BY <1>1 DEF vars, Basics, TypeOK, WorkOK
  <2>3. SentInv'
    BY <1>1 DEF vars, Basics, SentInv, Sent, InStream
  <2>4. StepInv'
    BY <1>1 DEF vars, Basics, StepInv, StepOK, EventsOf
  <2> QED
    BY <2>1, <2>2, <2>3, <2>4 DEF Basics, TypeOK
<1>2. ASSUME NEW m \in Clicks, PublishAsync(m) PROVE Basics'
  BY <1>2, BasicsPublish
<1>3. ASSUME NEW w \in Workers,
             ReadBatch(w) \/ MaybeClaimPending(w) \/ Process(w) \/ Stop(w)
      PROVE  Basics'
  BY <1>3, BasicsTake, BasicsParse, BasicsInsert, BasicsRecalculate, BasicsUpsert,
     BasicsHooks, BasicsEnd DEF Process
<1> QED
  BY <1>1, <1>2, <1>3 DEF Next

LEMMA BasicsAlways == Spec => []Basics
BY BasicsInit, BasicsNext, PTL DEF Spec

\* Every variable keeps its type; poison is never stored and nothing but
\* poison is dead-lettered (parseMessages, BulkInsert).
THEOREM TypeCorrect == Spec => []TypeOK
<1>1. Basics => TypeOK
  BY DEF Basics
<1> QED
  BY <1>1, BasicsAlways, PTL

(***************************************************************************)
(* No entry is forgotten, and none is acknowledged before it is kept.      *)
(***************************************************************************)

LEMMA TrackedNext == Basics /\ EntryIsTracked /\ [Next]_vars => EntryIsTracked'
<1> SUFFICES ASSUME Basics, EntryIsTracked, [Next]_vars PROVE EntryIsTracked'
  OBVIOUS
<1>0. LogOK /\ WorkOK
  BY DEF Basics, TypeOK
<1>1. ASSUME UNCHANGED stream, unread \cup pel \cup acked \subseteq
                 unread' \cup pel' \cup acked' \cup (Clicks \ InStream)
      PROVE  EntryIsTracked'
  BY <1>1 DEF EntryIsTracked, InStream
<1>2. ASSUME NEW m \in Clicks, PublishAsync(m) PROVE EntryIsTracked'
  <2>1. CASE UNCHANGED <<stream, unread>>
    BY <1>1, <1>2, <2>1 DEF PublishAsync
  <2>2. CASE /\ stream' \in TrimTo(Append(stream, m))
             /\ unread' = (unread \cup {m}) \cap InStream'
    <3>1. InStream' \subseteq InStream \cup {m}
      BY <1>0, <2>2, PublishStream
    <3>2. pel' = pel /\ acked' = acked
      BY <1>2 DEF PublishAsync
    <3> QED
      BY <2>2, <3>1, <3>2 DEF EntryIsTracked
  <2> QED
    BY <1>2, <2>1, <2>2 DEF PublishAsync, InStream
<1>3. ASSUME NEW w \in Workers, ReadBatch(w) PROVE EntryIsTracked'
  BY <1>1, <1>3 DEF ReadBatch
<1>4. ASSUME NEW w \in Workers, MaybeClaimPending(w) PROVE EntryIsTracked'
  <2>1. PICK S \in SUBSET pel : pel' = pel \ (S \ InStream)
    BY <1>4 DEF MaybeClaimPending
  <2> QED
    BY <1>0, <1>1, <1>4, <2>1 DEF MaybeClaimPending, LogOK
<1>5. ASSUME NEW w \in Workers, Process(w) \/ Stop(w) PROVE EntryIsTracked'
  <2>1. UNCHANGED <<stream, unread>> /\ pel \cup acked \subseteq pel' \cup acked'
    BY <1>5 DEF Process, Stop, ParseMessages, BulkInsert, RecalculateDailyStat,
                UpsertDailyStat, PublishWebhook, Backoff, AckMessages, log
  <2> QED
    BY <1>1, <2>1
<1>6. CASE UNCHANGED vars
  BY <1>1, <1>6 DEF vars
<1> QED
  BY <1>2, <1>3, <1>4, <1>5, <1>6 DEF Next

\* An entry that is in the stream is unread, pending or acknowledged, whatever
\* fails: the consumer group never loses one (XREADGROUP, XAUTOCLAIM, XACK).
THEOREM EntryCorrect == Spec => []EntryIsTracked
<1>1. Init => EntryIsTracked
  BY DEF Init, EntryIsTracked, InStream
<1> QED
  BY <1>1, TrackedNext, BasicsAlways, PTL DEF Spec

KeptInv == AckedIsKept /\ DeadLetterInv

LEMMA KeptNext == Basics /\ Basics' /\ KeptInv /\ [Next]_vars => KeptInv'
<1> SUFFICES ASSUME Basics, Basics', KeptInv, [Next]_vars PROVE KeptInv'
  OBVIOUS
<1>0. LogOK /\ TablesOK /\ WorkOK /\ StepInv
  BY DEF Basics, TypeOK
<1>f. faults' \in Nat /\ faults \in Nat /\ (faults' = faults \/ faults' = faults + 1)
      => (faults > 0 => faults' > 0)
  OBVIOUS
\* A step that acknowledges nothing, and after which no worker is newly past
\* parseMessages.
<1>1. ASSUME acked' = acked, dlq \subseteq dlq', stored \subseteq stored',
             faults > 0 => faults' > 0,
             \A v \in Workers :
                 wpc'[v] \notin {"ready", "parse"} =>
                     wpc[v] \notin {"ready", "parse"} /\ batch'[v] = batch[v]
      PROVE  KeptInv'
  BY <1>1 DEF KeptInv, AckedIsKept, DeadLetterInv
<1>2. ASSUME NEW m \in Clicks, PublishAsync(m) PROVE KeptInv'
  BY <1>0, <1>1, <1>2 DEF PublishAsync, tables, work, WorkOK, NoFault, Fault
<1>3. ASSUME NEW w \in Workers, ReadBatch(w) \/ MaybeClaimPending(w) PROVE KeptInv'
  BY <1>0, <1>1, <1>3
     DEF ReadBatch, MaybeClaimPending, Take, Goto, tables, WorkOK, NoFault, Fault
<1>4. ASSUME NEW w \in Workers, ParseMessages(w) PROVE KeptInv'
  <2>1. /\ acked' = acked /\ stored' = stored /\ dlq \subseteq dlq'
        /\ batch' = batch /\ (faults > 0 => faults' > 0)
        /\ batch[w] \cap Poison \subseteq dlq' \/ faults' > 0
        /\ \A v \in Workers : v # w => wpc'[v] = wpc[v]
    BY <1>0, <1>4 DEF ParseMessages, tables, WorkOK, NoFault, Fault, Goto
  <2> QED
    BY <2>1 DEF KeptInv, AckedIsKept, DeadLetterInv
<1>5. ASSUME NEW w \in Workers,
             \/ BulkInsert(w) \/ RecalculateDailyStat(w) \/ UpsertDailyStat(w)
             \/ PublishWebhook(w)
      PROVE  KeptInv'
  <2>1. /\ acked' = acked /\ dlq' = dlq /\ stored \subseteq stored'
        /\ batch' = batch /\ wpc[w] \notin {"ready", "parse"}
        /\ faults' = faults \/ faults' = faults + 1
    BY <1>5 DEF BulkInsert, RecalculateDailyStat, UpsertDailyStat, PublishWebhook,
                log, tables, NoFault, Fault
  <2>2. \A v \in Workers : v # w => wpc'[v] = wpc[v]
    BY <1>5, StepOthers DEF Process
  <2>3. faults > 0 => faults' > 0
    BY <1>0, <2>1 DEF WorkOK
  <2> QED
    BY <1>1, <2>1, <2>2, <2>3
<1>6. ASSUME NEW w \in Workers, Backoff(w) \/ Stop(w) PROVE KeptInv'
  <2>1. /\ acked' = acked /\ dlq' = dlq /\ stored' = stored
        /\ wpc[w] # "ready"
        /\ faults' = faults \/ faults' = faults + 1
    BY <1>6 DEF Backoff, Stop, log, tables, NoFault, Fault
  <2>2. \/ wpc'[w] = "ready"
        \/ wpc[w] = "backoff" /\ batch' = batch
    BY <1>0, <1>6 DEF Backoff, Stop, Rest, Goto, WorkOK
  <2>3. \A v \in Workers : v # w => wpc'[v] = wpc[v] /\ batch'[v] = batch[v]
    BY <1>6, StepOthers DEF Process
  <2>4. faults > 0 => faults' > 0
    BY <1>0, <2>1 DEF WorkOK
  <2> QED
    BY <1>1, <2>1, <2>2, <2>3, <2>4
<1>7. ASSUME NEW w \in Workers, AckMessages(w) PROVE KeptInv'
  <2>1. /\ wpc[w] = "ack" /\ dlq' = dlq /\ stored' = stored
        /\ acked' \subseteq acked \cup batch[w]
        /\ faults' = faults \/ faults' = faults + 1
    BY <1>7 DEF AckMessages, tables, NoFault, Fault
  <2>2. wpc'[w] = "ready"
    BY <1>0, <1>7 DEF AckMessages, Rest, Goto, WorkOK
  <2>3. \A v \in Workers : v # w => wpc'[v] = wpc[v] /\ batch'[v] = batch[v]
    BY <1>7, StepOthers DEF Process
  <2>4. faults > 0 => faults' > 0
    BY <1>0, <2>1 DEF WorkOK
  <2>5. DeadLetterInv'
    BY <2>1, <2>2, <2>3, <2>4 DEF KeptInv, DeadLetterInv
  <2>6. \A m \in batch[w] : m \in stored \cup dlq \/ (m \in Poison /\ faults > 0)
    BY <1>0, <2>1 DEF KeptInv, DeadLetterInv, StepInv, StepOK, HasStored, EventsOf
  <2>7. AckedIsKept'
    BY <2>1, <2>4, <2>6 DEF KeptInv, AckedIsKept
  <2> QED
    BY <2>5, <2>7 DEF KeptInv
<1>8. CASE UNCHANGED vars
  BY <1>1, <1>8 DEF vars
<1> QED
  BY <1>2, <1>3, <1>4, <1>5, <1>6, <1>7, <1>8 DEF Next, Process

\* An entry is acknowledged only when its event is stored, or it is poison and
\* dead-lettered unless a write failed (XACK is the last step of a batch).
THEOREM AckedCorrect == Spec => []AckedIsKept
<1>1. Init => KeptInv
  BY DEF Init, KeptInv, AckedIsKept, DeadLetterInv
<1>2. KeptInv => AckedIsKept
  BY DEF KeptInv
<1> QED
  BY <1>1, <1>2, KeptNext, BasicsAlways, PTL DEF Spec

(***************************************************************************)
(* Statistics never run ahead of the rows.                                 *)
(***************************************************************************)

LEMMA TotalsNext == Basics /\ Basics' /\ TotalsInv /\ [Next]_vars => TotalsInv'
<1> SUFFICES ASSUME Basics, Basics', TotalsInv, [Next]_vars PROVE TotalsInv'
  OBVIOUS
<1>0. TablesOK /\ WorkOK /\ SentInv /\ StepInv /\ SentInv'
  BY DEF Basics, TypeOK
<1>t. ASSUME stored \subseteq stored', NEW k
      PROVE  /\ RowsOf(stored, k) \in Nat /\ RowsOf(stored', k) \in Nat
             /\ RowsOf(stored, k) <= RowsOf(stored', k)
             /\ Total(k) = RowsOf(stored, k)
  <2>1. IsFiniteSet(stored')
    BY <1>0, FS_Subset DEF SentInv
  <2> QED
    BY <1>0, <1>t, <2>1, RowsGrow, TotalType
<1>i. ASSUME \A k \in StatKeys : stats'[k] <= RowsOf(stored', k),
             \A v \in Workers :
                 wpc'[v] = "upsert" => acc'[v].total <= RowsOf(stored', acc'[v].key)
      PROVE  TotalsInv'
  BY <1>i DEF TotalsInv, NeverOvercounted, Total, RowsOf
\* A step that writes no statistic and reads no rows.
<1>1. ASSUME stats' = stats, stored \subseteq stored',
             \A v \in Workers : wpc'[v] = "upsert" => wpc[v] = "upsert" /\ acc'[v] = acc[v]
      PROVE  TotalsInv'
  <2>1. ASSUME NEW k \in StatKeys PROVE stats'[k] <= RowsOf(stored', k)
    <3>1. stats[k] \in Nat /\ stats[k] <= Total(k)
      BY <1>0 DEF TotalsInv, NeverOvercounted, TablesOK
    <3> QED
      BY <1>1, <1>t, <3>1
  <2>2. ASSUME NEW v \in Workers, wpc'[v] = "upsert"
        PROVE  acc'[v].total <= RowsOf(stored', acc'[v].key)
    <3>1. wpc[v] = "upsert" /\ acc'[v] = acc[v] /\ acc[v].total \in Nat
      BY <1>0, <1>1, <2>2 DEF StepInv, StepOK
    <3>2. acc[v].total <= Total(acc[v].key)
      BY <3>1 DEF TotalsInv
    <3> QED
      BY <1>1, <1>t, <3>1, <3>2
  <2> QED
    BY <1>i, <2>1, <2>2
<1>2. ASSUME NEW m \in Clicks, PublishAsync(m) PROVE TotalsInv'
  BY <1>1, <1>2 DEF PublishAsync, tables, work
<1>3. ASSUME NEW w \in Workers,
             \/ ReadBatch(w) \/ MaybeClaimPending(w) \/ ParseMessages(w)
             \/ BulkInsert(w) \/ PublishWebhook(w) \/ Backoff(w) \/ AckMessages(w)
             \/ Stop(w)
      PROVE  TotalsInv'
  <2>1. stats' = stats /\ stored \subseteq stored'
    BY <1>3 DEF ReadBatch, MaybeClaimPending, ParseMessages, BulkInsert, PublishWebhook,
                Backoff, AckMessages, Stop, tables
  <2>2. wpc'[w] = "upsert" => wpc[w] = "upsert" /\ acc'[w] = acc[w]
    BY <1>0, <1>3 DEF ReadBatch, MaybeClaimPending, ParseMessages, BulkInsert,
                PublishWebhook, Backoff, AckMessages, Stop, Rest, Take, Goto, WorkOK
  <2>3. \A v \in Workers : v # w => wpc'[v] = wpc[v] /\ acc'[v] = acc[v]
    BY <1>3, StepOthers DEF Process
  <2> QED
    BY <1>1, <2>1, <2>2, <2>3
<1>4. ASSUME NEW w \in Workers, RecalculateDailyStat(w) PROVE TotalsInv'
  <2>1. /\ stats' = stats /\ stored' = stored
        /\ \/ wpc'[w] = "backoff"
           \/ \E k \in left[w] : acc'[w] = [key |-> k, total |-> Total(k)]
    BY <1>0, <1>4 DEF RecalculateDailyStat, tables, Goto, WorkOK
  <2>2. \A v \in Workers : v # w => wpc'[v] = wpc[v] /\ acc'[v] = acc[v]
    BY <1>4, StepOthers DEF Process
  <2>3. ASSUME NEW k, acc'[w] = [key |-> k, total |-> Total(k)]
        PROVE  acc'[w].total <= RowsOf(stored', acc'[w].key)
    <3>1. acc'[w].total = Total(k) /\ acc'[w].key = k
      BY <2>3
    <3> QED
      BY <1>t, <2>1, <3>1
  <2> QED
    BY <1>i, <1>t, <2>1, <2>2, <2>3 DEF TotalsInv, NeverOvercounted
<1>5. ASSUME NEW w \in Workers, UpsertDailyStat(w) PROVE TotalsInv'
  <2>1. /\ stored' = stored /\ wpc[w] = "upsert" /\ wpc'[w] # "upsert"
        /\ stats' \in {stats, Upserted(w)}
    BY <1>0, <1>5 DEF UpsertDailyStat, Goto, WorkOK
  <2>2. \A v \in Workers : v # w => wpc'[v] = wpc[v] /\ acc'[v] = acc[v]
    BY <1>5, StepOthers DEF Process
  <2>3. acc[w].total <= Total(acc[w].key)
    BY <2>1 DEF TotalsInv
  <2>4. \A k \in StatKeys : stats'[k] <= Total(k)
    BY <1>0, <2>1, <2>3 DEF TotalsInv, NeverOvercounted, TablesOK, Upserted
  <2> QED
    BY <1>i, <1>t, <2>1, <2>2, <2>4 DEF TotalsInv
<1>6. CASE UNCHANGED vars
  BY <1>1, <1>6 DEF vars
<1> QED
  BY <1>2, <1>3, <1>4, <1>5, <1>6 DEF Next, Process

\* Whatever the number of workers, no retry, reclaim or race makes a daily
\* statistic larger than the rows of its link and date (recalculateDailyStat
\* recomputes from the rows, which are never deleted).
THEOREM CountCorrect == Spec => []NeverOvercounted
<1>1. Init => TotalsInv
  <2> SUFFICES ASSUME Init PROVE TotalsInv
    OBVIOUS
  <2>1. \A k \in StatKeys : Total(k) = 0
    BY FS_EmptySet DEF Init, Total
  <2> QED
    BY <2>1 DEF Init, TotalsInv, NeverOvercounted
<1>2. TotalsInv => NeverOvercounted
  BY DEF TotalsInv
<1> QED
  BY <1>1, <1>2, TotalsNext, BasicsAlways, PTL DEF Spec

(***************************************************************************)
(* One worker.                                                             *)
(***************************************************************************)

\* There is at most one worker.
OneWorker == \A v, w \in Workers : v = w

LEMMA HeldNext == OneWorker /\ Basics /\ HeldInv /\ [Next]_vars => HeldInv'
<1> SUFFICES ASSUME OneWorker, Basics, HeldInv, [Next]_vars PROVE HeldInv'
  OBVIOUS
<1>0. WorkOK
  BY DEF Basics, TypeOK
<1>1. ASSUME NEW m \in Clicks, PublishAsync(m) PROVE HeldInv'
  BY <1>1 DEF PublishAsync, work, HeldInv
<1>2. ASSUME NEW w \in Workers,
             ReadBatch(w) \/ MaybeClaimPending(w) \/ Process(w) \/ Stop(w)
      PROVE  HeldInv'
  <2> SUFFICES batch'[w] \subseteq pel' /\ (wpc'[w] = "ready" => batch'[w] = {})
    BY DEF OneWorker, HeldInv
  <2>0. batch[w] \subseteq pel /\ (wpc[w] = "ready" => batch[w] = {})
    BY DEF HeldInv
  <2>1. CASE ReadBatch(w)
    BY <1>0, <2>0, <2>1 DEF ReadBatch, Take, Goto, WorkOK
  <2>2. CASE MaybeClaimPending(w)
    <3>1. PICK S \in SUBSET pel :
              /\ pel' = pel \ (S \ InStream)
              /\ IF S \cap InStream = {} THEN UNCHANGED <<batch, wpc>>
                                         ELSE Take(w, S \cap InStream)
      BY <2>2 DEF MaybeClaimPending
    <3>2. batch[w] = {}
      BY <2>0, <2>2 DEF MaybeClaimPending
    <3> QED
      BY <1>0, <3>1, <3>2 DEF Take, Goto, WorkOK
  <2>3. CASE ParseMessages(w) \/ BulkInsert(w) \/ RecalculateDailyStat(w)
    BY <1>0, <2>0, <2>3
       DEF ParseMessages, BulkInsert, RecalculateDailyStat, Goto, WorkOK, log
  <2>4. CASE UpsertDailyStat(w) \/ PublishWebhook(w)
    BY <1>0, <2>0, <2>4 DEF UpsertDailyStat, PublishWebhook, Goto, WorkOK, log
  <2>5. CASE Backoff(w) \/ AckMessages(w) \/ Stop(w)
    BY <1>0, <2>0, <2>5 DEF Backoff, AckMessages, Stop, Rest, Goto, WorkOK, log
  <2> QED
    BY <1>2, <2>1, <2>2, <2>3, <2>4, <2>5 DEF Process
<1>3. CASE UNCHANGED vars
  BY <1>3 DEF vars, HeldInv
<1> QED
  BY <1>1, <1>2, <1>3 DEF Next

LEMMA WrittenNext ==
    OneWorker /\ Basics /\ WrittenInv /\ [Next]_vars => WrittenInv'
<1> SUFFICES ASSUME OneWorker, Basics, WrittenInv, [Next]_vars PROVE WrittenInv'
  OBVIOUS
<1>0. TablesOK /\ WorkOK /\ StepInv
  BY DEF Basics, TypeOK
\* Neither the rows nor the statistics change, and nobody moves.
<1>1. ASSUME UNCHANGED <<tables, wpc, work>> PROVE WrittenInv'
  BY <1>1 DEF tables, work, WrittenInv, Updated, KeysOf, EventsOf, Total
<1>2. ASSUME NEW w \in Workers,
             ReadBatch(w) \/ MaybeClaimPending(w) \/ Process(w) \/ Stop(w)
      PROVE  WrittenInv'
  <2> SUFFICES /\ wpc'[w] = "upsert" => acc'[w].total = RowsOf(stored', acc'[w].key)
               /\ \A k \in Updated(w)' : stats'[k] = RowsOf(stored', k)
    BY DEF OneWorker, WrittenInv, Total, RowsOf
  <2>0. /\ wpc[w] = "upsert" => acc[w].total = RowsOf(stored, acc[w].key)
        /\ \A k \in Updated(w) : stats[k] = RowsOf(stored, k)
    BY DEF WrittenInv, Total, RowsOf
  <2>e. ASSUME wpc'[w] \in {"ready", "parse", "insert", "backoff"} PROVE Updated(w)' = {}
    BY <2>e DEF Updated
  <2>1. CASE ReadBatch(w) \/ MaybeClaimPending(w)
    BY <1>0, <2>1, <2>e DEF ReadBatch, MaybeClaimPending, Take, Goto, WorkOK
  <2>2. CASE ParseMessages(w)
    <3>1. /\ wpc'[w] = IF EventsOf(w) = {} THEN "ack" ELSE "insert"
          /\ EventsOf(w)' = EventsOf(w)
      BY <1>0, <2>2 DEF ParseMessages, Goto, WorkOK, EventsOf
    <3>2. Updated(w)' = {}
      BY <2>e, <3>1 DEF Updated, KeysOf
    <3> QED
      BY <3>1, <3>2
  <2>3. CASE BulkInsert(w)
    <3>1. \/ wpc'[w] = "backoff"
          \/ wpc'[w] = "recalculate" /\ left'[w] = KeysOf(w) /\ EventsOf(w)' = EventsOf(w)
      BY <1>0, <2>3 DEF BulkInsert, Goto, WorkOK, KeysOf, EventsOf
    <3>2. Updated(w)' = {}
      BY <2>e, <3>1 DEF Updated, KeysOf
    <3> QED
      BY <3>1, <3>2
  <2>4. CASE RecalculateDailyStat(w)
    <3>1. /\ wpc[w] = "recalculate" /\ stats' = stats /\ stored' = stored
          /\ left' = left /\ EventsOf(w)' = EventsOf(w)
      BY <2>4 DEF RecalculateDailyStat, tables, EventsOf
    <3>2. CASE wpc'[w] = "backoff"
      BY <2>e, <3>2
    <3>3. CASE /\ wpc'[w] = "upsert"
               /\ \E k \in left[w] : acc'[w] = [key |-> k, total |-> Total(k)]
      <4>1. Updated(w)' = Updated(w)
        BY <3>1, <3>3 DEF Updated, KeysOf
      <4>2. acc'[w].total = RowsOf(stored', acc'[w].key)
        BY <3>1, <3>3 DEF Total, RowsOf
      <4> QED
        BY <2>0, <3>1, <4>1, <4>2
    <3> QED
      BY <1>0, <2>4, <3>2, <3>3 DEF RecalculateDailyStat, Goto, WorkOK
  <2>5. CASE UpsertDailyStat(w)
    <3>1. /\ wpc[w] = "upsert" /\ stored' = stored /\ EventsOf(w)' = EventsOf(w)
      BY <2>5 DEF UpsertDailyStat, EventsOf
    <3>2. CASE wpc'[w] = "backoff"
      BY <2>e, <3>2
    <3>3. CASE /\ stats' = Upserted(w)
               /\ \/ wpc'[w] = "recalculate" /\ left'[w] = left[w] \ {acc[w].key}
                  \/ wpc'[w] = "publish" /\ left[w] \subseteq {acc[w].key}
      <4>1. acc[w].key \in StatKeys /\ acc[w].total = RowsOf(stored, acc[w].key)
        BY <1>0, <2>0, <3>1 DEF StepInv, StepOK
      <4>2. Updated(w) = KeysOf(w) \ left[w]
        BY <3>1 DEF Updated
      <4>3. Updated(w)' \subseteq (KeysOf(w) \ left[w]) \cup {acc[w].key}
        BY <3>1, <3>3 DEF Updated, KeysOf
      <4>4. ASSUME NEW k \in Updated(w)' PROVE stats'[k] = RowsOf(stored, k)
        <5>1. CASE k = acc[w].key
          BY <1>0, <3>3, <4>1, <5>1 DEF Upserted, TablesOK
        <5>2. CASE k # acc[w].key
          <6>1. k \in Updated(w) /\ stats[k] = RowsOf(stored, k)
            BY <2>0, <4>2, <4>3, <5>2
          <6>2. k \in StatKeys
            BY <1>0, <4>3, <5>2, PipelineAssumption DEF KeysOf, EventsOf, WorkOK
          <6> QED
            BY <1>0, <3>3, <5>2, <6>1, <6>2 DEF Upserted, TablesOK
        <5> QED
          BY <5>1, <5>2
      <4> QED
        BY <3>1, <3>3, <4>4
    <3> QED
      BY <1>0, <2>5, <3>2, <3>3 DEF UpsertDailyStat, Goto, WorkOK
  <2>6. CASE PublishWebhook(w)
    <3>1. /\ wpc[w] = "publish" /\ stats' = stats /\ stored' = stored
          /\ EventsOf(w)' = EventsOf(w) /\ wpc'[w] \in {"publish", "ack", "backoff"}
      BY <1>0, <2>6 DEF PublishWebhook, EventsOf, Goto, WorkOK
    <3>2. Updated(w)' \subseteq Updated(w)
      BY <3>1 DEF Updated, KeysOf
    <3> QED
      BY <2>0, <3>1, <3>2
  <2>7. CASE Backoff(w) \/ AckMessages(w) \/ Stop(w)
    <3>1. wpc'[w] \in {"ready", "insert"}
      BY <1>0, <2>7 DEF Backoff, AckMessages, Stop, Rest, Goto, WorkOK
    <3> QED
      BY <2>e, <3>1
  <2> QED
    BY <1>2, <2>1, <2>2, <2>3, <2>4, <2>5, <2>6, <2>7 DEF Process
<1>3. ASSUME NEW m \in Clicks, PublishAsync(m) PROVE WrittenInv'
  BY <1>1, <1>3 DEF PublishAsync
<1>4. CASE UNCHANGED vars
  BY <1>1, <1>4 DEF vars, tables, work
<1> QED
  BY <1>2, <1>3, <1>4 DEF Next

\* A click that was trimmed does not come back.
LEMMA TrimmedStays ==
    ASSUME Basics, [Next]_vars, IsTrimmed
    PROVE  IsTrimmed'
<1>0. LogOK
  BY DEF Basics, TypeOK
<1>1. PICK m \in Clicks : click[m] = "sent" /\ m \notin InStream
  BY DEF IsTrimmed
<1>2. ASSUME NEW n \in Clicks, PublishAsync(n) PROVE IsTrimmed'
  <2>1. n # m /\ click'[m] = "sent"
    BY <1>0, <1>1, <1>2 DEF PublishAsync, LogOK
  <2>2. InStream' \subseteq InStream \cup {n}
    <3>1. CASE stream' \in TrimTo(Append(stream, n))
      BY <1>0, <3>1, PublishStream
    <3>2. CASE stream' = stream
      BY <3>2 DEF InStream
    <3> QED
      BY <1>2, <3>1, <3>2 DEF PublishAsync
  <2> QED
    BY <1>1, <2>1, <2>2 DEF IsTrimmed
<1>3. CASE UNCHANGED <<click, stream>>
  BY <1>1, <1>3 DEF IsTrimmed, InStream
<1>4. ASSUME NEW w \in Workers,
             ReadBatch(w) \/ MaybeClaimPending(w) \/ Process(w) \/ Stop(w)
      PROVE  UNCHANGED <<click, stream>>
  BY <1>4 DEF ReadBatch, MaybeClaimPending, Process, ParseMessages, BulkInsert,
     RecalculateDailyStat, UpsertDailyStat, PublishWebhook, Backoff, AckMessages, Stop, log
<1> QED
  BY <1>2, <1>3, <1>4 DEF Next, vars

LEMMA LagNext ==
    OneWorker /\ Basics /\ AccurateInv /\ [Next]_vars => LagInv'
<1> SUFFICES ASSUME OneWorker, Basics, AccurateInv, [Next]_vars,
                    NEW k \in StatKeys
             PROVE  \/ stats'[k] = RowsOf(stored', k)
                    \/ IsTrimmed'
                    \/ \E m \in pel' \ Poison : KeyOf[m] = k
  BY DEF LagInv, Total, RowsOf
<1>0. TablesOK /\ WorkOK /\ SentInv /\ StepInv /\ HeldInv /\ WrittenInv
  BY DEF Basics, TypeOK, AccurateInv
<1>1. \/ stats[k] = RowsOf(stored, k)
      \/ IsTrimmed
      \/ \E m \in pel \ Poison : KeyOf[m] = k
  BY DEF AccurateInv, LagInv, Total, RowsOf
<1>2. CASE stats' = stats /\ stored' = stored /\ pel \subseteq pel'
  BY <1>1, <1>2, TrimmedStays
<1>3. ASSUME NEW m \in Clicks, PublishAsync(m) PROVE pel' = pel /\ UNCHANGED tables
  BY <1>3 DEF PublishAsync
<1>4. ASSUME NEW w \in Workers,
             \/ ReadBatch(w) \/ ParseMessages(w) \/ RecalculateDailyStat(w)
             \/ PublishWebhook(w) \/ Backoff(w) \/ Stop(w)
      PROVE  stats' = stats /\ stored' = stored /\ pel \subseteq pel'
  BY <1>4 DEF ReadBatch, ParseMessages, RecalculateDailyStat, PublishWebhook, Backoff,
     Stop, log, tables
<1>5. ASSUME NEW w \in Workers, MaybeClaimPending(w)
      PROVE  \/ stats'[k] = RowsOf(stored', k)
             \/ IsTrimmed'
             \/ \E m \in pel' \ Poison : KeyOf[m] = k
  <2>1. PICK S \in SUBSET pel : pel' = pel \ (S \ InStream)
    BY <1>5 DEF MaybeClaimPending
  <2>2. stats' = stats /\ stored' = stored /\ click' = click /\ stream' = stream
    BY <1>5 DEF MaybeClaimPending, tables
  <2>3. ASSUME NEW m \in pel, m \notin pel' PROVE IsTrimmed'
    BY <1>0, <2>1, <2>2, <2>3 DEF SentInv, Sent, IsTrimmed, InStream
  <2> QED
    BY <1>1, <2>2, <2>3, TrimmedStays
<1>6. ASSUME NEW w \in Workers, BulkInsert(w)
      PROVE  \/ stats'[k] = RowsOf(stored', k)
             \/ IsTrimmed'
             \/ \E m \in pel' \ Poison : KeyOf[m] = k
  <2>1. /\ stats' = stats /\ pel' = pel
        /\ stored' \in {stored, stored \cup EventsOf(w)}
    BY <1>6 DEF BulkInsert, log
  <2>2. CASE \E m \in EventsOf(w) : KeyOf[m] = k
    <3>1. EventsOf(w) \subseteq pel \ Poison
      BY <1>0 DEF HeldInv, EventsOf
    <3> QED
      BY <2>1, <2>2, <3>1
  <2>3. CASE ~ \E m \in EventsOf(w) : KeyOf[m] = k
    <3>1. {m \in stored' : KeyOf[m] = k} = {m \in stored : KeyOf[m] = k}
      BY <2>1, <2>3
    <3>2. RowsOf(stored', k) = RowsOf(stored, k)
      BY <3>1 DEF RowsOf
    <3> QED
      BY <1>1, <2>1, <3>2, TrimmedStays
  <2> QED
    BY <2>2, <2>3
<1>7. ASSUME NEW w \in Workers, UpsertDailyStat(w)
      PROVE  \/ stats'[k] = RowsOf(stored', k)
             \/ IsTrimmed'
             \/ \E m \in pel' \ Poison : KeyOf[m] = k
  <2>1. /\ wpc[w] = "upsert" /\ stored' = stored /\ pel' = pel
        /\ stats' \in {stats, Upserted(w)}
    BY <1>7 DEF UpsertDailyStat, log
  <2>2. acc[w].total = RowsOf(stored, acc[w].key)
    BY <1>0, <2>1 DEF WrittenInv, Total, RowsOf
  <2>3. stats'[k] = stats[k] \/ stats'[k] = RowsOf(stored, k)
    BY <1>0, <2>1, <2>2 DEF Upserted, TablesOK
  <2> QED
    BY <1>1, <2>1, <2>3, TrimmedStays
<1>8. ASSUME NEW w \in Workers, AckMessages(w)
      PROVE  \/ stats'[k] = RowsOf(stored', k)
             \/ IsTrimmed'
             \/ \E m \in pel' \ Poison : KeyOf[m] = k
  <2>1. /\ wpc[w] = "ack" /\ stats' = stats /\ stored' = stored
        /\ pel \ batch[w] \subseteq pel'
    BY <1>8 DEF AckMessages, tables
  <2>2. ASSUME NEW m \in pel \ Poison, KeyOf[m] = k, m \in batch[w]
        PROVE  stats[k] = RowsOf(stored, k)
    <3>1. k \in Updated(w)
      BY <2>1, <2>2 DEF Updated, KeysOf, EventsOf
    <3> QED
      BY <1>0, <3>1 DEF WrittenInv, Total, RowsOf
  <2> QED
    BY <1>1, <2>1, <2>2, TrimmedStays
<1>9. CASE UNCHANGED vars
  BY <1>2, <1>9 DEF vars
<1> QED
  BY <1>2, <1>3, <1>4, <1>5, <1>6, <1>7, <1>8, <1>9 DEF Next, Process, tables

LEMMA AccurateAlways == OneWorker => (Spec => []AccurateInv)
<1> SUFFICES ASSUME OneWorker PROVE Spec => []AccurateInv
  OBVIOUS
<1>1. Init => AccurateInv
  <2> SUFFICES ASSUME Init PROVE AccurateInv
    OBVIOUS
  <2>1. \A k : Total(k) = 0
    BY FS_EmptySet DEF Init, Total
  <2>2. HeldInv
    BY DEF Init, HeldInv
  <2>3. WrittenInv
    BY DEF Init, WrittenInv, Updated
  <2>4. LagInv
    BY <2>1 DEF Init, LagInv
  <2> QED
    BY <2>2, <2>3, <2>4 DEF AccurateInv
<1>2. Basics /\ AccurateInv /\ [Next]_vars => AccurateInv'
  BY HeldNext, WrittenNext, LagNext DEF AccurateInv
<1> QED
  BY <1>1, <1>2, BasicsAlways, PTL DEF Spec

\* With one worker, when nothing is pending, running or trimmed, every daily
\* statistic is what the stored rows add up to, whatever failed before
\* (UpdateDailyStats runs before XACK and again for what is reclaimed).
THEOREM AggregatesCorrect == OneWorker => (Spec => []AggregatesAccurate)
<1> SUFFICES ASSUME OneWorker PROVE Spec => []AggregatesAccurate
  OBVIOUS
<1>1. AccurateInv => AggregatesAccurate
  BY DEF AccurateInv, LagInv, AggregatesAccurate, IsIdle, IsTrimmed
<1> QED
  BY <1>1, AccurateAlways, PTL

(***************************************************************************)
(* Webhook deliveries of a click.                                          *)
(***************************************************************************)

\* Deliveries are only added, and at most one for a click in a step.
LEMMA HooksGrow ==
    ASSUME Basics, [Next]_vars
    PROVE  /\ faults \in Nat /\ faults' \in Nat /\ faults <= faults'
           /\ \A m \in Clicks : /\ hooks[m] \in Nat /\ hooks'[m] \in Nat
                                /\ hooks[m] <= hooks'[m]
<1>0. TablesOK /\ WorkOK
  BY DEF Basics, TypeOK
<1>1. faults \in Nat /\ (faults' = faults \/ faults' = faults + 1)
  <2>1. ASSUME NEW m \in Clicks, PublishAsync(m)
        PROVE  faults' = faults \/ faults' = faults + 1
    BY <2>1 DEF PublishAsync, NoFault, Fault
  <2>2. ASSUME NEW w \in Workers,
               ReadBatch(w) \/ MaybeClaimPending(w) \/ Process(w) \/ Stop(w)
        PROVE  faults' = faults \/ faults' = faults + 1
    BY <2>2 DEF ReadBatch, MaybeClaimPending, Process, ParseMessages, BulkInsert,
       RecalculateDailyStat, UpsertDailyStat, PublishWebhook, Backoff, AckMessages,
       Stop, NoFault, Fault
  <2> QED
    BY <1>0, <2>1, <2>2 DEF Next, vars, WorkOK
<1>2. ASSUME hooks' = hooks
      PROVE  \A m \in Clicks : hooks[m] \in Nat /\ hooks'[m] \in Nat /\ hooks[m] <= hooks'[m]
  BY <1>0, <1>2 DEF TablesOK
<1>3. ASSUME NEW w \in Workers, PublishWebhook(w)
      PROVE  \A m \in Clicks : hooks[m] \in Nat /\ hooks'[m] \in Nat /\ hooks[m] <= hooks'[m]
  <2>1. PICK n \in left[w] : hooks' \in {hooks, InsertHook(w, n)}
    BY <1>3 DEF PublishWebhook
  <2>2. hooks' = hooks \/ hooks' = [hooks EXCEPT ![n] = @ + 1]
    BY <2>1 DEF InsertHook
  <2> QED
    BY <1>0, <2>2 DEF TablesOK
<1>4. ASSUME NEW m \in Clicks, PublishAsync(m) PROVE hooks' = hooks
  BY <1>4 DEF PublishAsync, tables
<1>5. ASSUME NEW w \in Workers,
             \/ ReadBatch(w) \/ MaybeClaimPending(w) \/ ParseMessages(w) \/ BulkInsert(w)
             \/ RecalculateDailyStat(w) \/ UpsertDailyStat(w) \/ Backoff(w)
             \/ AckMessages(w) \/ Stop(w)
      PROVE  hooks' = hooks
  BY <1>5 DEF ReadBatch, MaybeClaimPending, ParseMessages, BulkInsert,
     RecalculateDailyStat, UpsertDailyStat, Backoff, AckMessages, Stop, tables
<1>6. \A m \in Clicks : hooks[m] \in Nat /\ hooks'[m] \in Nat /\ hooks[m] <= hooks'[m]
  BY <1>2, <1>3, <1>4, <1>5 DEF Next, Process, vars
<1> QED
  BY <1>1, <1>6

LEMMA MissingNext == Basics /\ Basics' /\ MissingInv /\ [Next]_vars => MissingInv'
<1> SUFFICES ASSUME Basics, Basics', MissingInv, [Next]_vars PROVE MissingInv'
  OBVIOUS
<1>0. LogOK /\ LogOK' /\ TablesOK /\ WorkOK /\ StepInv
  BY DEF Basics, TypeOK
<1>g. /\ faults \in Nat /\ faults' \in Nat /\ faults <= faults'
      /\ \A m \in Clicks : hooks[m] \in Nat /\ hooks'[m] \in Nat /\ hooks[m] <= hooks'[m]
  BY HooksGrow
<1>h. ASSUME NEW w \in Workers PROVE Handled(w) \subseteq Clicks
  BY <1>0 DEF Handled, EventsOf, WorkOK
<1>a. ASSUME acked' = acked PROVE \A m \in acked' \ Poison : hooks'[m] + faults' >= 1
  <2>1. \A m \in acked \ Poison : m \in Clicks /\ hooks[m] + faults >= 1
    BY <1>0 DEF MissingInv, LogOK
  <2> QED
    BY <1>a, <1>g, <2>1
\* A worker whose published events and events dealt with are not more than
\* before.
<1>f. ASSUME NEW v \in Workers, published'[v] \subseteq published[v],
             Handled(v)' \subseteq Handled(v)
      PROVE  /\ \A m \in published'[v] : hooks'[m] >= 1
             /\ \A m \in Handled(v)' : hooks'[m] + faults' >= 1
  <2>1. ASSUME NEW m \in published'[v] PROVE hooks'[m] >= 1
    <3>1. m \in Clicks /\ hooks[m] >= 1
      BY <1>0, <1>f DEF MissingInv, WorkOK
    <3> QED
      BY <1>g, <3>1
  <2>2. ASSUME NEW m \in Handled(v)' PROVE hooks'[m] + faults' >= 1
    <3>1. m \in Clicks /\ hooks[m] + faults >= 1
      BY <1>f, <1>h DEF MissingInv
    <3> QED
      BY <1>g, <3>1
  <2> QED
    BY <2>1, <2>2
<1>s. ASSUME NEW v \in Workers, UNCHANGED <<wpc, batch, left, published>>
      PROVE  Handled(v)' = Handled(v)
  BY <1>s DEF Handled, EventsOf
<1>1. ASSUME NEW m \in Clicks, PublishAsync(m) PROVE MissingInv'
  <2>1. acked' = acked /\ UNCHANGED <<wpc, batch, left, published>>
    BY <1>1 DEF PublishAsync, work
  <2> QED
    BY <1>a, <1>f, <1>s, <2>1 DEF MissingInv
<1>2. CASE UNCHANGED vars
  <2>1. acked' = acked /\ UNCHANGED <<wpc, batch, left, published>>
    BY <1>2 DEF vars
  <2> QED
    BY <1>a, <1>f, <1>s, <2>1 DEF MissingInv
<1>3. ASSUME NEW w \in Workers,
             ReadBatch(w) \/ MaybeClaimPending(w) \/ Process(w) \/ Stop(w)
      PROVE  MissingInv'
  <2>1. ASSUME NEW v \in Workers, v # w
        PROVE  /\ \A m \in published'[v] : hooks'[m] >= 1
               /\ \A m \in Handled(v)' : hooks'[m] + faults' >= 1
    <3>1. published'[v] = published[v] /\ Handled(v)' = Handled(v)
      BY <1>3, <2>1, StepOthers DEF Handled, EventsOf
    <3> QED
      BY <1>f, <3>1
  <2>2. ASSUME \A m \in acked' \ Poison : hooks'[m] + faults' >= 1,
               \A m \in published'[w] : hooks'[m] >= 1,
               \A m \in Handled(w)' : hooks'[m] + faults' >= 1
        PROVE  MissingInv'
    BY <2>1, <2>2 DEF MissingInv
  <2>e. ASSUME acked' = acked, published'[w] \subseteq published[w], Handled(w)' = {}
        PROVE  MissingInv'
    BY <1>a, <1>f, <2>2, <2>e
  <2>3. CASE \/ ReadBatch(w) \/ MaybeClaimPending(w) \/ ParseMessages(w)
             \/ BulkInsert(w) \/ RecalculateDailyStat(w) \/ UpsertDailyStat(w)
             \/ Backoff(w) \/ Stop(w)
    <3>1. acked' = acked
      BY <2>3 DEF ReadBatch, MaybeClaimPending, ParseMessages, BulkInsert,
         RecalculateDailyStat, UpsertDailyStat, Backoff, Stop, log
    <3>2. published'[w] \subseteq published[w]
      BY <1>0, <2>3 DEF ReadBatch, MaybeClaimPending, ParseMessages, BulkInsert,
         RecalculateDailyStat, UpsertDailyStat, Backoff, Stop, Rest, WorkOK
    <3>3. Handled(w)' = {}
      <4>1. CASE wpc'[w] \notin {"publish", "ack"}
        BY <4>1 DEF Handled
      <4>2. CASE wpc'[w] \in {"publish", "ack"}
        <5>1. \/ wpc'[w] = "ack" /\ EventsOf(w)' = {}
              \/ wpc'[w] = "publish" /\ left'[w] = EventsOf(w)'
          BY <1>0, <2>3, <4>2 DEF ReadBatch, MaybeClaimPending, ParseMessages, BulkInsert,
             RecalculateDailyStat, UpsertDailyStat, Backoff, Stop, Rest, Take, Goto,
             WorkOK, EventsOf
        <5> QED
          BY <5>1 DEF Handled
      <4> QED
        BY <4>1, <4>2
    <3> QED
      BY <2>e, <3>1, <3>2, <3>3
  <2>4. CASE PublishWebhook(w)
    <3>1. PICK n \in left[w] :
            \/ /\ hooks' = InsertHook(w, n)
               /\ published' = [published EXCEPT ![w] = @ \cup {n}]
               /\ left' = [left EXCEPT ![w] = @ \ {n}]
               /\ wpc' = [wpc EXCEPT ![w] = IF left[w] = {n} THEN "ack" ELSE "publish"]
            \/ faults' = faults + 1 /\ published' = published
      BY <2>4 DEF PublishWebhook, Goto, Fault
    <3>2. /\ wpc[w] = "publish" /\ acked' = acked /\ EventsOf(w)' = EventsOf(w)
          /\ batch' = batch /\ left[w] \subseteq EventsOf(w)
          /\ n \in Clicks
      BY <1>0, <2>4 DEF PublishWebhook, log, EventsOf, StepInv, StepOK, WorkOK
    <3>3. CASE faults' = faults + 1 /\ published' = published
      <4>1. Handled(w)' \subseteq Clicks
        BY <1>0, <3>2 DEF Handled, EventsOf, WorkOK
      <4>2. \A m \in Handled(w)' : hooks'[m] + faults' >= 1
        BY <1>g, <3>3, <4>1
      <4>3. \A m \in published'[w] : hooks'[m] >= 1
        <5>1. \A m \in published[w] : m \in Clicks /\ hooks[m] >= 1
          BY <1>0 DEF MissingInv, WorkOK
        <5> QED
          BY <1>g, <3>3, <5>1
      <4> QED
        BY <1>a, <2>2, <3>2, <4>2, <4>3
    <3>4. CASE /\ hooks' = InsertHook(w, n)
               /\ published' = [published EXCEPT ![w] = @ \cup {n}]
               /\ left' = [left EXCEPT ![w] = @ \ {n}]
               /\ wpc' = [wpc EXCEPT ![w] = IF left[w] = {n} THEN "ack" ELSE "publish"]
      <4>1. hooks'[n] >= 1
        <5>1. CASE n \in published[w]
          BY <1>g, <3>2, <5>1 DEF MissingInv
        <5>2. CASE n \notin published[w] /\ hooks[n] = HookCap
          BY <1>g, <3>2, <5>2, PipelineAssumption DEF HookCap
        <5>3. CASE n \notin published[w] /\ hooks[n] # HookCap
          BY <1>0, <1>g, <3>2, <3>4, <5>3 DEF InsertHook, TablesOK
        <5> QED
          BY <5>1, <5>2, <5>3
      <4>2. published'[w] = published[w] \cup {n}
        BY <1>0, <3>4 DEF WorkOK
      <4>3. \A m \in published'[w] : hooks'[m] >= 1
        <5>1. \A m \in published[w] : m \in Clicks /\ hooks[m] >= 1
          BY <1>0 DEF MissingInv, WorkOK
        <5> QED
          BY <1>g, <4>1, <4>2, <5>1
      <4>4. Handled(w)' \subseteq Handled(w) \cup {n}
        <5>1. Handled(w) = EventsOf(w) \ left[w]
          BY <3>2 DEF Handled
        <5>2. \/ wpc'[w] = "ack" /\ left[w] = {n}
              \/ wpc'[w] = "publish" /\ left'[w] = left[w] \ {n}
          BY <1>0, <3>4 DEF WorkOK
        <5> QED
          BY <3>2, <5>1, <5>2 DEF Handled
      <4>5. \A m \in Handled(w)' : hooks'[m] + faults' >= 1
        <5>1. \A m \in Handled(w) : m \in Clicks /\ hooks[m] + faults >= 1
          BY <1>h DEF MissingInv
        <5> QED
          BY <1>g, <3>2, <4>1, <4>4, <5>1
      <4> QED
        BY <1>a, <2>2, <3>2, <4>3, <4>5
    <3> QED
      BY <3>1, <3>3, <3>4
  <2>5. CASE AckMessages(w)
    <3>1. /\ wpc[w] = "ack" /\ acked' \subseteq acked \cup batch[w]
      BY <2>5 DEF AckMessages
    <3>2. wpc'[w] = "ready" /\ published'[w] = {}
      BY <1>0, <2>5 DEF AckMessages, Rest, Goto, WorkOK
    <3>3. \A m \in acked' \ Poison : m \in Clicks /\ hooks[m] + faults >= 1
      BY <1>0, <3>1 DEF MissingInv, Handled, EventsOf, LogOK, WorkOK
    <3>4. \A m \in acked' \ Poison : hooks'[m] + faults' >= 1
      BY <1>g, <3>3
    <3> QED
      BY <2>2, <3>2, <3>4 DEF Handled
  <2> QED
    BY <1>3, <2>3, <2>4, <2>5 DEF Process
<1> QED
  BY <1>1, <1>2, <1>3 DEF Next

LEMMA OnceNext ==
    OneWorker /\ Basics /\ HeldInv /\ OnceInv /\ [Next]_vars => OnceInv'
<1> SUFFICES ASSUME OneWorker, Basics, HeldInv, OnceInv, [Next]_vars PROVE OnceInv'
  OBVIOUS
<1>0. LogOK /\ SentInv
  BY DEF Basics, TypeOK
<1>1. ASSUME NEW m \in Clicks, PublishAsync(m) PROVE OnceInv'
  <2>1. /\ m \notin Sent /\ Sent \subseteq Sent'
        /\ unread' \subseteq unread \cup {m} /\ pel' = pel /\ acked' = acked
    BY <1>0, <1>1 DEF PublishAsync, Sent, LogOK
  <2> QED
    BY <1>0, <2>1 DEF OnceInv, SentInv
<1>2. ASSUME NEW w \in Workers,
             ReadBatch(w) \/ MaybeClaimPending(w) \/ Process(w) \/ Stop(w)
      PROVE  OnceInv'
  <2>1. Sent' = Sent
    BY <1>2 DEF ReadBatch, MaybeClaimPending, Process, ParseMessages, BulkInsert,
       RecalculateDailyStat, UpsertDailyStat, PublishWebhook, Backoff, AckMessages,
       Stop, log, Sent
  <2>2. CASE ReadBatch(w)
    BY <2>1, <2>2, BatchIsUnread DEF ReadBatch, OnceInv
  <2>3. CASE MaybeClaimPending(w)
    BY <2>1, <2>3 DEF MaybeClaimPending, OnceInv
  <2>4. CASE AckMessages(w)
    BY <1>0, <2>1, <2>4 DEF AckMessages, OnceInv, SentInv, HeldInv
  <2>5. CASE UNCHANGED <<unread, pel, acked>>
    BY <2>1, <2>5 DEF OnceInv
  <2>6. ASSUME \/ ParseMessages(w) \/ BulkInsert(w) \/ RecalculateDailyStat(w)
               \/ UpsertDailyStat(w) \/ PublishWebhook(w) \/ Backoff(w) \/ Stop(w)
        PROVE  UNCHANGED <<unread, pel, acked>>
    BY <2>6 DEF ParseMessages, BulkInsert, RecalculateDailyStat, UpsertDailyStat,
       PublishWebhook, Backoff, Stop, log
  <2> QED
    BY <1>2, <2>2, <2>3, <2>4, <2>5, <2>6 DEF Process
<1>3. CASE UNCHANGED vars
  BY <1>3 DEF vars, OnceInv, Sent
<1> QED
  BY <1>1, <1>2, <1>3 DEF Next

LEMMA DuplicateNext ==
    OneWorker /\ Basics /\ HeldInv /\ OnceInv /\ DuplicateInv /\ [Next]_vars => DuplicateInv'
<1> SUFFICES ASSUME OneWorker, Basics, HeldInv, OnceInv, DuplicateInv, [Next]_vars,
                    NEW m \in Clicks
             PROVE  /\ hooks'[m] <= 1 + faults'
                    /\ \/ m \in acked'
                       \/ \E w \in Workers : m \in published'[w] /\ wpc'[w] # "backoff"
                       \/ hooks'[m] <= faults'
  BY DEF DuplicateInv
<1>0. LogOK /\ TablesOK /\ WorkOK /\ StepInv
  BY DEF Basics, TypeOK
<1>g. faults \in Nat /\ faults' \in Nat /\ faults <= faults' /\ hooks[m] \in Nat
  BY HooksGrow
<1>d. /\ hooks[m] <= 1 + faults
      /\ \/ m \in acked
         \/ \E w \in Workers : m \in published[w] /\ wpc[w] # "backoff"
         \/ hooks[m] <= faults
  BY DEF DuplicateInv
\* A failure pays for a delivery.
<1>p. CASE hooks'[m] = hooks[m] /\ faults' = faults + 1
  BY <1>d, <1>g, <1>p
<1>1. ASSUME NEW n \in Clicks, PublishAsync(n), faults' = faults
      PROVE  UNCHANGED <<hooks, acked, published, wpc>>
  BY <1>1 DEF PublishAsync, tables, work
<1>2. ASSUME NEW n \in Clicks, PublishAsync(n)
      PROVE  hooks' = hooks /\ (faults' = faults \/ faults' = faults + 1)
  BY <1>2 DEF PublishAsync, tables, NoFault, Fault
<1>s. CASE UNCHANGED <<hooks, acked, published, wpc, faults>>
  BY <1>d, <1>s
<1>3. ASSUME NEW w \in Workers,
             ReadBatch(w) \/ MaybeClaimPending(w) \/ Process(w) \/ Stop(w)
      PROVE  /\ hooks'[m] <= 1 + faults'
             /\ \/ m \in acked'
                \/ \E v \in Workers : m \in published'[v] /\ wpc'[v] # "backoff"
                \/ hooks'[m] <= faults'
  <2>0. \/ m \in acked
        \/ m \in published[w] /\ wpc[w] # "backoff"
        \/ hooks[m] <= faults
    BY <1>d DEF OneWorker
  <2>q. ASSUME hooks' = hooks, acked \subseteq acked', faults' = faults,
               m \in published[w] /\ wpc[w] # "backoff" =>
                   (m \in published'[w] /\ wpc'[w] # "backoff") \/ m \in acked'
        PROVE  /\ hooks'[m] <= 1 + faults'
               /\ \/ m \in acked'
                  \/ \E v \in Workers : m \in published'[v] /\ wpc'[v] # "backoff"
                  \/ hooks'[m] <= faults'
    BY <1>d, <2>0, <2>q
  <2>1. CASE ReadBatch(w) \/ MaybeClaimPending(w) \/ ParseMessages(w)
    <3>1. /\ hooks' = hooks /\ acked' = acked
          /\ faults' = faults \/ faults' = faults + 1
          /\ wpc[w] \in {"ready", "parse"}
      BY <2>1 DEF ReadBatch, MaybeClaimPending, ParseMessages, tables, NoFault, Fault
    <3>2. m \notin published[w]
      BY <1>0, <3>1 DEF StepInv, StepOK
    <3> QED
      BY <1>p, <2>q, <3>1, <3>2
  <2>2. CASE BulkInsert(w) \/ RecalculateDailyStat(w) \/ UpsertDailyStat(w)
    <3>1. /\ hooks' = hooks /\ acked' = acked /\ published' = published
          /\ \/ faults' = faults + 1
             \/ faults' = faults /\ wpc'[w] # "backoff"
      BY <1>0, <2>2 DEF BulkInsert, RecalculateDailyStat, UpsertDailyStat, log, tables,
         NoFault, Fault, Goto, WorkOK
    <3> QED
      BY <1>p, <2>q, <3>1
  <2>3. CASE PublishWebhook(w)
    <3>1. CASE hooks' = hooks /\ faults' = faults + 1
      BY <1>p, <3>1
    <3>2. CASE ~(hooks' = hooks /\ faults' = faults + 1)
      <4>1. PICK n \in left[w] :
              /\ hooks' = InsertHook(w, n)
              /\ published' = [published EXCEPT ![w] = @ \cup {n}]
              /\ wpc' = [wpc EXCEPT ![w] = IF left[w] = {n} THEN "ack" ELSE "publish"]
              /\ faults' = faults
        BY <2>3, <3>2 DEF PublishWebhook, Goto, NoFault, Fault
      <4>2. /\ wpc[w] = "publish" /\ acked' = acked /\ n \in batch[w]
        BY <1>0, <2>3 DEF PublishWebhook, log, StepInv, StepOK, EventsOf
      <4>3. n \in Clicks /\ n \notin acked
        BY <1>0, <4>2 DEF HeldInv, OnceInv, WorkOK
      <4>4. published'[w] = published[w] \cup {n} /\ wpc'[w] # "backoff"
        BY <1>0, <4>1 DEF WorkOK
      <4>5. CASE m = n /\ hooks' # hooks
        <5>1. m \notin published[w] /\ hooks' = [hooks EXCEPT ![n] = @ + 1]
          BY <4>1, <4>5 DEF InsertHook
        <5>2. hooks[m] <= faults
          BY <2>0, <4>3, <4>5, <5>1
        <5>3. hooks'[m] = hooks[m] + 1
          BY <1>0, <4>5, <5>1 DEF TablesOK
        <5> QED
          BY <1>g, <4>1, <4>4, <4>5, <5>2, <5>3
      <4>6. CASE m # n \/ hooks' = hooks
        <5>1. hooks'[m] = hooks[m]
          BY <1>0, <4>1, <4>6 DEF InsertHook, TablesOK
        <5> QED
          BY <1>d, <2>0, <4>1, <4>2, <4>4, <5>1
      <4> QED
        BY <4>5, <4>6
    <3> QED
      BY <3>1, <3>2
  <2>4. CASE Backoff(w)
    <3>1. hooks' = hooks /\ acked' = acked /\ faults' = faults /\ wpc[w] = "backoff"
      BY <2>4 DEF Backoff, log, tables
    <3> QED
      BY <2>q, <3>1
  <2>5. CASE AckMessages(w)
    <3>1. CASE faults' = faults + 1
      BY <1>p, <2>5, <3>1 DEF AckMessages, tables
    <3>2. CASE faults' # faults + 1
      <4>1. hooks' = hooks /\ acked' = acked \cup batch[w] /\ faults' = faults
        BY <2>5, <3>2 DEF AckMessages, tables, NoFault, Fault
      <4>2. published[w] \subseteq batch[w]
        BY <1>0 DEF StepInv, StepOK, EventsOf
      <4> QED
        BY <2>q, <4>1, <4>2
    <3> QED
      BY <3>1, <3>2
  <2>6. CASE Stop(w)
    BY <1>p, <2>6 DEF Stop, tables, Fault
  <2> QED
    BY <1>3, <2>1, <2>2, <2>3, <2>4, <2>5, <2>6 DEF Process
<1>4. CASE UNCHANGED vars
  BY <1>s, <1>4 DEF vars
<1> QED
  BY <1>p, <1>s, <1>1, <1>2, <1>3, <1>4 DEF Next

\* With one worker a click has at most one webhook delivery more than
\* failures happened, and one that is acknowledged has a delivery unless
\* something failed (publishWebhooks, processBatchWithRetry, XACK).
THEOREM HooksCorrect == OneWorker => (Spec => []HooksBounded)
<1> SUFFICES ASSUME OneWorker PROVE Spec => []HooksBounded
  OBVIOUS
<1>1. Init => MissingInv /\ OnceInv /\ DuplicateInv
  BY DEF Init, MissingInv, Handled, OnceInv, DuplicateInv
<1>2. Basics /\ HeldInv /\ OnceInv /\ DuplicateInv /\ [Next]_vars
      => OnceInv' /\ DuplicateInv'
  BY OnceNext, DuplicateNext
<1>3. Basics /\ MissingInv /\ DuplicateInv => HooksBounded
  BY DEF Basics, TypeOK, LogOK, MissingInv, DuplicateInv, HooksBounded
<1>4. AccurateInv => HeldInv
  BY DEF AccurateInv
<1> QED
  BY <1>1, <1>2, <1>3, <1>4, MissingNext, AccurateAlways, BasicsAlways, PTL DEF Spec

(***************************************************************************)
(* Sums over finite sets.  The library's induction theorems take operators *)
(* as parameters; what follows rests on its theorems about well-founded    *)
(* relations, which speak of sets.                                         *)
(***************************************************************************)

\* Induction over the natural numbers, with a set for the predicate: a least
\* counterexample would have a predecessor.
LEMMA NatSets ==
    ASSUME NEW P, 0 \in P, \A n \in Nat : n \in P => n + 1 \in P
    PROVE  Nat \subseteq P
<1> DEFINE T == Nat \ P
<1> SUFFICES ASSUME T # {} PROVE FALSE
  OBVIOUS
<1>1. T \subseteq Nat
  OBVIOUS
<1> HIDE DEF T
<1>2. PICK n \in T : \A k \in T : ~ (<<k, n>> \in OpToRel(<, Nat))
  BY <1>1, WFMin, NatLessThanWellFounded
<1>3. n \in Nat \ {0} /\ n \notin P
  BY DEF T
<1>4. n - 1 \in Nat /\ n - 1 < n
  BY <1>3
<1>5. <<n - 1, n>> \in OpToRel(<, Nat)
  BY <1>3, <1>4 DEF OpToRel
<1>6. n - 1 \notin T
  BY <1>2, <1>5
<1>7. n - 1 \in P
  BY <1>4, <1>6 DEF T
<1>8. n - 1 + 1 = n
  BY <1>3
<1> QED
  BY <1>3, <1>4, <1>7, <1>8

\* The element a sum over s takes first.
Pick(s) == CHOOSE x \in s : TRUE

\* Induction over the subsets of a finite set, one element at a time.
LEMMA SubsetSets ==
    ASSUME NEW S, IsFiniteSet(S), NEW P, {} \in P,
           \A s \in SUBSET S : s # {} /\ s \ {Pick(s)} \in P => s \in P
    PROVE  SUBSET S \subseteq P
<1> DEFINE T == (SUBSET S) \ P
<1> SUFFICES ASSUME T # {} PROVE FALSE
  OBVIOUS
<1>0. IsWellFoundedOn(StrictSubsetOrdering(S), SUBSET S)
  BY FS_StrictSubsetOrderingWellFounded, FS_FiniteSubsetsOfFinite
<1>1. T \subseteq SUBSET S
  OBVIOUS
<1> HIDE DEF T
<1>2. PICK s \in T : \A t \in T : ~ (<<t, s>> \in StrictSubsetOrdering(S))
  BY <1>0, <1>1, WFMin
<1>3. s \in SUBSET S /\ s \notin P /\ s # {}
  BY DEF T
<1>4. Pick(s) \in s
  BY <1>3 DEF Pick
<1>5. <<s \ {Pick(s)}, s>> \in StrictSubsetOrdering(S)
  BY <1>3, <1>4 DEF StrictSubsetOrdering
<1>6. s \ {Pick(s)} \notin T
  BY <1>2, <1>5
<1>7. s \ {Pick(s)} \in P
  BY <1>3, <1>6 DEF T
<1> QED
  BY <1>3, <1>7

\* The sum of f over S, as SumOfRows computes it.
SumOver(f, S) == MapThenSumSet(LAMBDA x : f[x], S)

\* g is the function that MapThenFoldSet defines by recursion.
IsSum(g, f, S) ==
    g = [s \in SUBSET S |-> IF s = {} THEN 0 ELSE f[Pick(s)] + g[s \ {Pick(s)}]]

SumOf(f, S) == CHOOSE g : IsSum(g, f, S)

\* MapThenSumSet is the value of that function at the whole set.
LEMMA Unfold == ASSUME NEW f, NEW S PROVE SumOver(f, S) = SumOf(f,S)[S]
BY DEF SumOver, MapThenSumSet, MapThenFoldSet, SumOf, IsSum, Pick

Small(S, n) == {s \in SUBSET S : Cardinality(s) <= n}

SumsTo(g, f, S, n) ==
    \A s \in Small(S, n) : g[s] = IF s = {} THEN 0 ELSE f[Pick(s)] + g[s \ {Pick(s)}]

\* A chosen element is an element.
LEMMA PickIn == ASSUME NEW s, s # {} PROVE Pick(s) \in s
BY DEF Pick

\* The sizes of the subsets of a finite set.
LEMMA SmallCard ==
    ASSUME NEW S, IsFiniteSet(S), NEW s \in SUBSET S
    PROVE  /\ Cardinality(s) \in Nat
           /\ s # {} => Cardinality(s \ {Pick(s)}) = Cardinality(s) - 1
           /\ Cardinality(s) = 0 <=> s = {}
           /\ Cardinality(s) <= Cardinality(S)
<1>1. IsFiniteSet(s) /\ Cardinality(s) <= Cardinality(S)
  BY FS_Subset
<1>2. Cardinality(s) \in Nat
  BY <1>1, FS_CardinalityType
<1>3. s # {} => Cardinality(s \ {Pick(s)}) = Cardinality(s) - 1
  BY <1>1, FS_RemoveElement, PickIn
<1>4. Cardinality(s) = 0 <=> s = {}
  BY <1>1, FS_EmptySet
<1> QED
  BY <1>1, <1>2, <1>3, <1>4

\* The recursion that defines a sum has a solution: the solutions for the
\* subsets of at most n elements extend to those of n + 1.
LEMMA SumExists ==
    ASSUME NEW S, IsFiniteSet(S), NEW f
    PROVE  \E g : IsSum(g, f, S)
<1> DEFINE P == {n \in Nat : \E g : SumsTo(g, f, S, n)}
<1>1. 0 \in P
  <2> DEFINE g == [s \in SUBSET S |-> 0]
  <2>1. ASSUME NEW s \in Small(S, 0) PROVE s = {}
    <3>1. Cardinality(s) \in Nat /\ Cardinality(s) <= 0 /\ (Cardinality(s) = 0 => s = {})
      BY SmallCard DEF Small
    <3> QED
      BY <3>1
  <2>2. SumsTo(g, f, S, 0)
    BY <2>1 DEF SumsTo
  <2> QED
    BY <2>2
<1>2. ASSUME NEW n \in Nat, n \in P PROVE n + 1 \in P
  <2>1. PICK g : SumsTo(g, f, S, n)
    BY <1>2
  <2> DEFINE h == [s \in SUBSET S |-> IF Cardinality(s) <= n THEN g[s]
                                      ELSE f[Pick(s)] + g[s \ {Pick(s)}]]
  <2>2. ASSUME NEW s \in Small(S, n + 1)
        PROVE  h[s] = IF s = {} THEN 0 ELSE f[Pick(s)] + h[s \ {Pick(s)}]
    <3>1. /\ s \in SUBSET S /\ Cardinality(s) \in Nat /\ Cardinality(s) <= n + 1
          /\ Cardinality(s) = 0 <=> s = {}
          /\ s # {} => Cardinality(s \ {Pick(s)}) = Cardinality(s) - 1
      BY SmallCard DEF Small
    <3>2. CASE s = {}
      <4>1. s \in Small(S, n) /\ Cardinality(s) <= n
        BY <3>1, <3>2 DEF Small
      <4>2. h[s] = g[s]
        BY <3>1, <4>1
      <4> QED
        BY <2>1, <3>2, <4>1, <4>2 DEF SumsTo
    <3>3. CASE s # {}
      <4>1. s \ {Pick(s)} \in SUBSET S /\ Cardinality(s \ {Pick(s)}) <= n
        BY <3>1, <3>3
      <4>2. h[s \ {Pick(s)}] = g[s \ {Pick(s)}]
        BY <4>1
      <4>3. h[s] = f[Pick(s)] + g[s \ {Pick(s)}]
        <5>1. CASE Cardinality(s) <= n
          <6>1. s \in Small(S, n) /\ h[s] = g[s]
            BY <3>1, <5>1 DEF Small
          <6> QED
            BY <2>1, <3>3, <6>1 DEF SumsTo
        <5>2. CASE ~(Cardinality(s) <= n)
          BY <3>1, <5>2
        <5> QED
          BY <5>1, <5>2
      <4> QED
        BY <3>3, <4>2, <4>3
    <3> QED
      BY <3>2, <3>3
  <2> HIDE DEF h
  <2>3. SumsTo(h, f, S, n + 1)
    BY <2>2 DEF SumsTo
  <2> QED
    BY <2>3
<1> HIDE DEF P
<1>3. Nat \subseteq P
  BY <1>1, <1>2, NatSets
<1>4. Cardinality(S) \in Nat
  BY FS_CardinalityType
<1>5. PICK g : SumsTo(g, f, S, Cardinality(S))
  BY <1>3, <1>4 DEF P
<1> DEFINE h == [s \in SUBSET S |-> g[s]]
<1>6. \A s \in SUBSET S : s \in Small(S, Cardinality(S))
  BY SmallCard DEF Small
<1>7. ASSUME NEW s \in SUBSET S
      PROVE  h[s] = IF s = {} THEN 0 ELSE f[Pick(s)] + h[s \ {Pick(s)}]
  <2>1. g[s] = IF s = {} THEN 0 ELSE f[Pick(s)] + g[s \ {Pick(s)}]
    BY <1>5, <1>6 DEF SumsTo
  <2>2. s \ {Pick(s)} \in SUBSET S
    OBVIOUS
  <2> QED
    BY <2>1, <2>2
<1>8. h = [s \in SUBSET S |-> h[s]]
  OBVIOUS
<1> HIDE DEF h
<1>9. IsSum(h, f, S)
  BY <1>7, <1>8 DEF IsSum
<1> QED
  BY <1>9

\* So a sum may be computed element by element.
LEMMA SumDef ==
    ASSUME NEW S, IsFiniteSet(S), NEW f
    PROVE  \A s \in SUBSET S : SumOf(f, S)[s] =
              IF s = {} THEN 0 ELSE f[Pick(s)] + SumOf(f, S)[s \ {Pick(s)}]
<1>1. IsSum(SumOf(f, S), f, S)
  BY SumExists DEF SumOf
<1> HIDE DEF SumOf
<1> QED
  BY <1>1 DEF IsSum

\* Sums are monotone in their terms.
LEMMA SumMono ==
    ASSUME NEW S, IsFiniteSet(S), NEW f, NEW h,
           \A x \in S : f[x] \in Nat /\ h[x] \in Nat /\ f[x] <= h[x]
    PROVE  SumOver(f, S) \in Nat /\ SumOver(h, S) \in Nat /\ SumOver(f, S) <= SumOver(h, S)
<1> DEFINE F == SumOf(f, S)
           H == SumOf(h, S)
           P == {s \in SUBSET S : F[s] \in Nat /\ H[s] \in Nat /\ F[s] <= H[s]}
<1>0. \A s \in SUBSET S :
         /\ F[s] = IF s = {} THEN 0 ELSE f[Pick(s)] + F[s \ {Pick(s)}]
         /\ H[s] = IF s = {} THEN 0 ELSE h[Pick(s)] + H[s \ {Pick(s)}]
  BY SumDef
<1> HIDE DEF F, H
<1>1. {} \in P
  <2>1. {} \in SUBSET S /\ F[{}] = 0 /\ H[{}] = 0
    BY <1>0
  <2> QED
    BY <2>1
<1>2. ASSUME NEW s \in SUBSET S, s # {}, s \ {Pick(s)} \in P PROVE s \in P
  <2>1. Pick(s) \in S
    BY <1>2, PickIn
  <2>2. F[s] = f[Pick(s)] + F[s \ {Pick(s)}] /\ H[s] = h[Pick(s)] + H[s \ {Pick(s)}]
    BY <1>0, <1>2
  <2> QED
    BY <1>2, <2>1, <2>2
<1> HIDE DEF P
<1>3. SUBSET S \subseteq P
  BY <1>1, <1>2, SubsetSets
<1>4. S \in P
  BY <1>3
<1> QED
  BY <1>4, Unfold DEF P, F, H

\* Counting a set by classes: the sizes of the classes add up to the size.
LEMMA SumCount ==
    ASSUME NEW S, IsFiniteSet(S), NEW C, IsFiniteSet(C), NEW K
    PROVE  SumOver([x \in S |-> Cardinality({m \in C : K[m] = x})], S)
           = Cardinality({m \in C : K[m] \in S})
<1> DEFINE f == [x \in S |-> Cardinality({m \in C : K[m] = x})]
           F == SumOf(f, S)
           P == {s \in SUBSET S : F[s] = Cardinality({m \in C : K[m] \in s})}
<1>0. \A s \in SUBSET S : F[s] = IF s = {} THEN 0 ELSE f[Pick(s)] + F[s \ {Pick(s)}]
  BY SumDef
<1> HIDE DEF F
<1>1. {} \in P
  <2>1. {} \in SUBSET S /\ F[{}] = 0
    BY <1>0
  <2>2. {m \in C : K[m] \in {}} = {}
    OBVIOUS
  <2>3. Cardinality({m \in C : K[m] \in {}}) = 0
    BY <2>2, FS_EmptySet
  <2> QED
    BY <2>1, <2>3
<1>2. ASSUME NEW s \in SUBSET S, s # {}, s \ {Pick(s)} \in P PROVE s \in P
  <2> DEFINE A == {m \in C : K[m] \in s \ {Pick(s)}}
             B == {m \in C : K[m] = Pick(s)}
  <2>1. Pick(s) \in s /\ Pick(s) \in S
    BY <1>2, PickIn
  <2>2. F[s] = f[Pick(s)] + F[s \ {Pick(s)}] /\ F[s \ {Pick(s)}] = Cardinality(A)
    BY <1>0, <1>2
  <2>3. f[Pick(s)] = Cardinality(B)
    BY <2>1
  <2>4. {m \in C : K[m] \in s} = A \cup B /\ A \cap B = {}
    BY <2>1
  <2>5. A \in SUBSET C /\ B \in SUBSET C
    OBVIOUS
  <2> HIDE DEF A, B, f
  <2>6. IsFiniteSet(A) /\ IsFiniteSet(B)
    BY <2>5, FS_Subset
  <2>7. Cardinality(A) \in Nat /\ Cardinality(B) \in Nat
    BY <2>6, FS_CardinalityType
  <2>8. Cardinality(A \cup B) = Cardinality(A) + Cardinality(B) - Cardinality(A \cap B)
    BY <2>6, FS_Union
  <2>9. Cardinality(A \cap B) = 0
    BY <2>4, FS_EmptySet
  <2>10. F[s] = Cardinality(A \cup B)
    BY <2>2, <2>3, <2>7, <2>8, <2>9
  <2> QED
    BY <2>4, <2>10
<1> HIDE DEF P
<1>3. SUBSET S \subseteq P
  BY <1>1, <1>2, SubsetSets
<1>4. S \in P
  BY <1>3
<1>5. SumOver(f, S) = F[S]
  BY Unfold DEF F
<1> QED
  BY <1>4, <1>5 DEF P

(***************************************************************************)
(* Reports.                                                                *)
(***************************************************************************)

\* The pipeline goes on beside the reports as it does without them.
LEMMA ReportIsSpec == ReportSpec => Spec
<1>1. ReportInit => Init
  BY DEF ReportInit
<1>2. [ReportNext]_reportVars => [Next]_vars
  BY DEF ReportNext, reportVars
<1> QED
  BY <1>1, <1>2, PTL DEF ReportSpec, Spec

\* The steps of a report.
LEMMA ReportStep ==
    ASSUME [ReportNext]_reportVars
    PROVE  \/ report' = report /\ [Next]_vars
           \/ /\ UNCHANGED vars
              /\ \E k \in StatKeys, q \in Queries : GetAnalyticsSummary(LinkOfKey[k], q)
           \/ UNCHANGED vars /\ GetDailyStats
           \/ UNCHANGED vars /\ report' = NoReport
BY DEF ReportNext, reportVars, Report, EndReport

LEMMA AskedNext == AskedInv /\ [ReportNext]_reportVars => AskedInv'
<1> SUFFICES ASSUME AskedInv, [ReportNext]_reportVars PROVE AskedInv'
  OBVIOUS
<1>1. CASE report' = report
  BY <1>1 DEF AskedInv
<1>2. ASSUME NEW k \in StatKeys, NEW q \in Queries, GetAnalyticsSummary(LinkOfKey[k], q)
      PROVE  AskedInv'
  <2>1. report'.query = q /\ report'.period = ParseTimeRange(q)
    BY <1>2 DEF GetAnalyticsSummary
  <2> QED
    BY <2>1 DEF AskedInv
<1>3. CASE GetDailyStats
  <2>1. report # NoReport
    BY <1>3 DEF GetDailyStats, NoReport
  <2>2. report'.query = report.query /\ report'.period = report.period
    BY <1>3 DEF GetDailyStats
  <2> QED
    BY <2>1, <2>2 DEF AskedInv
<1>4. CASE report' = NoReport
  BY <1>4 DEF AskedInv
<1> QED
  BY <1>1, <1>2, <1>3, <1>4, ReportStep

\* The period of every report is at most MaxRange long, ends today at the
\* latest, and has the last days of a period that ends in the past, for every
\* query (parseTimeRange).
THEOREM PeriodCorrect == ReportSpec => []PeriodHonoured
<1>1. ReportInit => AskedInv
  BY DEF ReportInit, AskedInv
<1>2. AskedInv => PeriodHonoured
  <2> SUFFICES ASSUME AskedInv, report # NoReport
               PROVE  LET p == report.period
                          a == Asked(report.query)
                      IN  /\ p.to <= Today
                          /\ p.to - p.from <= MaxRange
                          /\ a.to <= Today => \A d \in a.from .. a.to :
                                 d >= a.to - MaxRange => d >= p.from /\ d <= p.to
    BY DEF PeriodHonoured
  <2> DEFINE q == report.query
             a == Asked(q)
  <2>1. q \in Queries /\ report.period = ParseTimeRange(q)
    BY DEF AskedInv
  <2>2. q.from \in Int \cup {Unset} /\ q.to \in Int \cup {Unset}
    BY <2>1, ReportAssumption
  <2>3. a.from \in Int /\ a.to \in Int
    BY <2>2, ReportAssumption DEF Asked
  <2>4. /\ report.period.from = IF a.to - a.from > MaxRange THEN a.to - MaxRange ELSE a.from
        /\ report.period.to = IF a.to > Today THEN Today ELSE a.to
    BY <2>1 DEF ParseTimeRange
  <2>5. Today \in Int /\ MaxRange \in Nat
    BY ReportAssumption
  <2> HIDE DEF a
  <2> QED
    BY <2>3, <2>4, <2>5 DEF a
<1> QED
  BY <1>1, <1>2, AskedNext, PTL DEF ReportSpec

\* The keys of a link in a period.
KeysIn(l, p) == {k \in StatKeys : InPeriod(k, l, p)}

LEMMA SumInKeys ==
    ASSUME NEW rows, NEW l, NEW p PROVE SumIn(rows, l, p) = SumOver(rows, KeysIn(l, p))
  BY DEF SumIn, SumOver, KeysIn

\* A report sums up what the statistics say of the keys of its period: if they
\* cover S it covers the clicks of S, and if S covers them, conversely.
LEMMA PeriodSum ==
    ASSUME TypeOK, NEW S \in SUBSET Clicks, IsFiniteSet(S), NEW l, NEW p
    PROVE  /\ SumOfRows(l, p) \in Nat /\ ClicksIn(S, l, p) \in Nat
           /\ (\A k \in StatKeys : RowsOf(S, k) <= stats[k]) =>
                  ClicksIn(S, l, p) <= SumOfRows(l, p)
           /\ (\A k \in StatKeys : stats[k] <= RowsOf(S, k)) =>
                  SumOfRows(l, p) <= ClicksIn(S, l, p)
<1> DEFINE T == KeysIn(l, p)
           rows == [k \in T |-> Cardinality({m \in S : KeyOf[m] = k})]
<1>0. stats \in [StatKeys -> Nat]
  BY DEF TypeOK, TablesOK
<1>1. T \subseteq StatKeys /\ IsFiniteSet(T)
  BY ReportAssumption, FS_Subset DEF KeysIn
<1>2. SumOfRows(l, p) = SumOver(stats, T)
  BY SumInKeys DEF SumOfRows
<1>3. \A m \in S : InPeriod(KeyOf[m], l, p) <=> KeyOf[m] \in T
  BY PipelineAssumption DEF KeysIn
<1>4. {m \in S : InPeriod(KeyOf[m], l, p)} = {m \in S : KeyOf[m] \in T}
  BY <1>3
<1>5. ClicksIn(S, l, p) = Cardinality({m \in S : KeyOf[m] \in T})
  BY <1>4 DEF ClicksIn
<1>6. \A k \in T : rows[k] = RowsOf(S, k)
  BY DEF RowsOf
<1>7. SumOver(rows, T) = Cardinality({m \in S : KeyOf[m] \in T})
  BY <1>1, SumCount
<1> HIDE DEF rows, T
<1>8. \A k \in T : rows[k] \in Nat /\ stats[k] \in Nat
  BY <1>0, <1>1, <1>6, RowsGrow
<1>9. SumOver(stats, T) \in Nat /\ SumOver(rows, T) \in Nat
  <2>1. \A k \in T : stats[k] <= stats[k] /\ rows[k] <= rows[k]
    BY <1>8
  <2>2. SumOver(stats, T) \in Nat
    BY <1>1, <1>8, <2>1, SumMono
  <2>3. SumOver(rows, T) \in Nat
    BY <1>1, <1>8, <2>1, SumMono
  <2> QED
    BY <2>2, <2>3
<1>10. ASSUME \A k \in StatKeys : RowsOf(S, k) <= stats[k]
       PROVE  SumOver(rows, T) <= SumOver(stats, T)
  <2>1. \A k \in T : rows[k] <= stats[k]
    BY <1>1, <1>6, <1>10
  <2> QED
    BY <1>1, <1>8, <2>1, SumMono
<1>11. ASSUME \A k \in StatKeys : stats[k] <= RowsOf(S, k)
       PROVE  SumOver(stats, T) <= SumOver(rows, T)
  <2>1. \A k \in T : stats[k] <= rows[k]
    BY <1>1, <1>6, <1>11
  <2> QED
    BY <1>1, <1>8, <2>1, SumMono
<1> QED
  BY <1>2, <1>5, <1>7, <1>9, <1>10, <1>11

\* What a report of one worker's statistics rests on.
CountBasis ==
    /\ Basics /\ KeptInv /\ TotalsInv /\ AccurateInv

\* What is acknowledged and not poison is stored.
LEMMA AckedStored ==
    ASSUME Basics, KeptInv
    PROVE  /\ acked \ Poison \subseteq stored /\ IsFiniteSet(stored)
           /\ stored \subseteq Clicks
<1>1. IsFiniteSet(stored)
  BY FS_Subset DEF Basics, SentInv
<1> QED
  BY <1>1 DEF Basics, TypeOK, LogOK, TablesOK, KeptInv, AckedIsKept

\* With one worker a statistic never goes down: it is replaced by the number
\* of rows, which it has not exceeded.
LEMMA StatsGrow ==
    ASSUME OneWorker, CountBasis, [Next]_vars, NEW k \in StatKeys
    PROVE  stats[k] \in Nat /\ stats'[k] \in Nat /\ stats[k] <= stats'[k]
<1>0. TablesOK /\ WorkOK /\ SentInv /\ StepInv /\ WrittenInv /\ NeverOvercounted
  BY DEF CountBasis, Basics, TypeOK, AccurateInv, TotalsInv
<1>1. stats[k] \in Nat /\ Total(k) \in Nat /\ stats[k] <= Total(k)
  BY <1>0, TotalType DEF NeverOvercounted, TablesOK
<1>2. ASSUME NEW w \in Workers, UpsertDailyStat(w)
      PROVE  stats'[k] = stats[k] \/ stats'[k] = Total(k)
  <2>1. wpc[w] = "upsert" /\ stats' \in {stats, Upserted(w)}
    BY <1>2 DEF UpsertDailyStat
  <2>2. acc[w].total = Total(acc[w].key)
    BY <1>0, <2>1 DEF WrittenInv
  <2> QED
    BY <1>0, <2>1, <2>2 DEF Upserted, TablesOK
<1>3. ASSUME NEW w \in Workers,
             \/ ReadBatch(w) \/ MaybeClaimPending(w) \/ ParseMessages(w) \/ BulkInsert(w)
             \/ RecalculateDailyStat(w) \/ PublishWebhook(w) \/ Backoff(w)
             \/ AckMessages(w) \/ Stop(w)
      PROVE  stats' = stats
  BY <1>3 DEF ReadBatch, MaybeClaimPending, ParseMessages, BulkInsert,
     RecalculateDailyStat, PublishWebhook, Backoff, AckMessages, Stop, tables
<1>4. ASSUME NEW m \in Clicks, PublishAsync(m) PROVE stats' = stats
  BY <1>4 DEF PublishAsync, tables
<1> QED
  BY <1>1, <1>2, <1>3, <1>4 DEF Next, Process, vars

LEMMA CountedNext ==
    OneWorker /\ CountBasis /\ CountBasis' /\ CountedInv /\ [Next]_vars => CountedInv'
<1> SUFFICES ASSUME OneWorker, CountBasis, CountBasis', CountedInv, [Next]_vars,
                    NEW k \in StatKeys
             PROVE  RowsOf(acked' \ Poison, k) <= stats'[k]
  BY DEF CountedInv, RowsOf
<1>0. /\ TablesOK /\ WorkOK /\ SentInv /\ WrittenInv
      /\ RowsOf(acked \ Poison, k) <= stats[k]
  BY DEF CountBasis, Basics, TypeOK, AccurateInv, CountedInv, RowsOf
<1>1. /\ stats[k] \in Nat /\ stats'[k] \in Nat /\ stats[k] <= stats'[k]
  BY StatsGrow
<1>2. /\ IsFiniteSet(stored) /\ acked \ Poison \subseteq stored
      /\ IsFiniteSet(stored') /\ acked' \ Poison \subseteq stored'
  <2>1. IsFiniteSet(stored) /\ acked \ Poison \subseteq stored
    BY AckedStored DEF CountBasis
  <2>2. IsFiniteSet(stored')
    BY FS_Subset DEF CountBasis, Basics, SentInv
  <2>3. acked' \ Poison \subseteq stored'
    BY DEF CountBasis, Basics, TypeOK, LogOK, KeptInv, AckedIsKept
  <2> QED
    BY <2>1, <2>2, <2>3
<1>3. RowsOf(acked \ Poison, k) \in Nat /\ RowsOf(acked' \ Poison, k) \in Nat
  BY <1>2, RowsGrow
<1>4. CASE acked' = acked
  BY <1>0, <1>1, <1>3, <1>4
<1>5. ASSUME NEW w \in Workers, AckMessages(w)
      PROVE  RowsOf(acked' \ Poison, k) <= stats'[k]
  <2>1. /\ wpc[w] = "ack" /\ stored' = stored /\ stats' = stats
        /\ acked' \subseteq acked \cup batch[w]
        /\ acked \subseteq acked'
    BY <1>5 DEF AckMessages, tables
  <2>2. CASE k \in KeysOf(w)
    <3>1. stats[k] = RowsOf(stored, k)
      BY <1>0, <2>1, <2>2 DEF WrittenInv, Updated, Total, RowsOf
    <3>2. RowsOf(acked' \ Poison, k) <= RowsOf(stored', k)
      BY <1>2, RowsGrow
    <3> QED
      BY <2>1, <3>1, <3>2
  <2>3. CASE k \notin KeysOf(w)
    <3>1. {m \in acked' \ Poison : KeyOf[m] = k} = {m \in acked \ Poison : KeyOf[m] = k}
      BY <2>1, <2>3 DEF KeysOf, EventsOf
    <3>2. RowsOf(acked' \ Poison, k) = RowsOf(acked \ Poison, k)
      BY <3>1 DEF RowsOf
    <3> QED
      BY <1>0, <2>1, <3>2
  <2> QED
    BY <2>2, <2>3
<1>6. ASSUME NEW w \in Workers,
             \/ ReadBatch(w) \/ MaybeClaimPending(w) \/ ParseMessages(w) \/ BulkInsert(w)
             \/ RecalculateDailyStat(w) \/ UpsertDailyStat(w) \/ PublishWebhook(w)
             \/ Backoff(w) \/ Stop(w)
      PROVE  acked' = acked
  BY <1>6 DEF ReadBatch, MaybeClaimPending, ParseMessages, BulkInsert,
     RecalculateDailyStat, UpsertDailyStat, PublishWebhook, Backoff, Stop, log
<1>7. ASSUME NEW m \in Clicks, PublishAsync(m) PROVE acked' = acked
  BY <1>7 DEF PublishAsync
<1> QED
  BY <1>4, <1>5, <1>6, <1>7 DEF Next, Process, vars

\* The rows only grow.
LEMMA StoredGrows == [Next]_vars => stored \subseteq stored'
<1> SUFFICES ASSUME [Next]_vars PROVE stored \subseteq stored'
  OBVIOUS
<1>1. ASSUME NEW m \in Clicks, PublishAsync(m) PROVE stored' = stored
  BY <1>1 DEF PublishAsync, tables
<1>2. ASSUME NEW w \in Workers,
             ReadBatch(w) \/ MaybeClaimPending(w) \/ Process(w) \/ Stop(w)
      PROVE  stored \subseteq stored'
  BY <1>2 DEF ReadBatch, MaybeClaimPending, Process, ParseMessages, BulkInsert,
     RecalculateDailyStat, UpsertDailyStat, PublishWebhook, Backoff, AckMessages,
     Stop, tables
<1> QED
  BY <1>1, <1>2 DEF Next, vars

LEMMA SummaryNext ==
    OneWorker /\ CountBasis /\ CountBasis' /\ CountedInv /\ SummaryInv /\ [ReportNext]_reportVars
    => SummaryInv'
<1> SUFFICES ASSUME OneWorker, CountBasis, CountBasis', CountedInv, SummaryInv,
                    [ReportNext]_reportVars
             PROVE  SummaryInv'
  OBVIOUS
<1>0. /\ TypeOK /\ TypeOK' /\ NeverOvercounted
      /\ stats \in [StatKeys -> Nat] /\ stats' \in [StatKeys -> Nat]
  BY DEF CountBasis, Basics, TypeOK, TablesOK, TotalsInv
<1>1. /\ IsFiniteSet(stored) /\ acked \ Poison \subseteq stored /\ stored \subseteq Clicks
      /\ IsFiniteSet(acked \ Poison)
  BY AckedStored, FS_Subset DEF CountBasis
<1>2. ASSUME NEW l, NEW p
      PROVE  /\ SumOfRows(l, p) \in Nat
             /\ ClicksIn(acked \ Poison, l, p) \in Nat
             /\ ClicksIn(acked \ Poison, l, p) <= SumOfRows(l, p)
             /\ SumOfRows(l, p) <= ClicksIn(stored, l, p)
  <2>1. \A k \in StatKeys : RowsOf(acked \ Poison, k) <= stats[k]
    BY DEF CountedInv, RowsOf
  <2>2. \A k \in StatKeys : stats[k] <= RowsOf(stored, k)
    BY <1>0 DEF NeverOvercounted, Total, RowsOf
  <2> QED
    BY <1>0, <1>1, <2>1, <2>2, PeriodSum
<1>3. CASE report' = report /\ [Next]_vars
  <2> DEFINE l == report.link
             p == report.period
             T == KeysIn(l, p)
  <2>1. IsFiniteSet(T) /\ T \subseteq StatKeys
    BY ReportAssumption, FS_Subset DEF KeysIn
  <2>2. \A k \in StatKeys : stats[k] \in Nat /\ stats'[k] \in Nat /\ stats[k] <= stats'[k]
    BY <1>3, StatsGrow
  <2>3. /\ SumOver(stats, T) \in Nat /\ SumOver(stats', T) \in Nat
        /\ SumOver(stats, T) <= SumOver(stats', T)
    BY <2>1, <2>2, SumMono
  <2>4. /\ SumOfRows(report.link, report.period) = SumOver(stats, T)
        /\ SumOfRows(report.link, report.period)' = SumOver(stats', T)
    BY <1>3, SumInKeys DEF SumOfRows
  <2>5. /\ ClicksIn(stored, l, p) \in Nat /\ ClicksIn(stored', l, p) \in Nat
        /\ ClicksIn(stored, l, p) <= ClicksIn(stored', l, p)
    <3> DEFINE A == {m \in stored : InPeriod(KeyOf[m], l, p)}
               B == {m \in stored' : InPeriod(KeyOf[m], l, p)}
    <3>1. IsFiniteSet(stored')
      BY FS_Subset DEF CountBasis, Basics, SentInv
    <3>2. B \in SUBSET stored' /\ A \in SUBSET B
      BY <1>3, StoredGrows
    <3>3. IsFiniteSet(B)
      BY <3>1, <3>2, FS_Subset
    <3>4. IsFiniteSet(A) /\ Cardinality(A) <= Cardinality(B)
      BY <3>2, <3>3, FS_Subset
    <3> QED
      BY <3>3, <3>4, FS_CardinalityType DEF ClicksIn
  <2> HIDE DEF l, p, T
  <2>6. CASE report.step = "summary"
    <3>1. report.total \in Nat /\ report.total <= SumOver(stats, T)
      BY <2>4, <2>6 DEF SummaryInv, NoReport
    <3>2. report.total <= SumOver(stats', T)
      BY <2>3, <3>1
    <3> QED
      BY <1>3, <2>4, <2>6, <3>2 DEF SummaryInv, ReportAgrees, NoReport
  <2>7. CASE report.step = "built"
    <3>1. report.daily \in Nat /\ report.daily <= ClicksIn(stored, l, p)
      BY <2>7 DEF SummaryInv, ReportAgrees, l, p
    <3>2. report.daily <= ClicksIn(stored', l, p)
      BY <2>5, <3>1
    <3> QED
      BY <1>3, <2>7, <3>2 DEF SummaryInv, ReportAgrees, l, p
  <2>8. CASE report.step \notin {"summary", "built"}
    BY <1>3, <2>8 DEF SummaryInv, ReportAgrees
  <2> QED
    BY <2>6, <2>7, <2>8
<1>4. ASSUME UNCHANGED vars,
             NEW j \in StatKeys, NEW q \in Queries, GetAnalyticsSummary(LinkOfKey[j], q)
      PROVE  SummaryInv'
  <2>1. /\ report'.step = "summary"
        /\ report'.link = LinkOfKey[j] /\ report'.period = ParseTimeRange(q)
        /\ report'.total = SumOfRows(LinkOfKey[j], ParseTimeRange(q))
        /\ report'.done = ClicksIn(acked \ Poison, LinkOfKey[j], ParseTimeRange(q))
    BY <1>4 DEF GetAnalyticsSummary
  <2>2. report'.total \in Nat /\ report'.done \in Nat /\ report'.done <= report'.total
    BY <1>2, <2>1
  <2>3. SumOfRows(report.link, report.period)' = SumOfRows(LinkOfKey[j], ParseTimeRange(q))
    BY <1>4, <2>1 DEF SumOfRows, vars
  <2>4. report'.total <= SumOfRows(report.link, report.period)'
    BY <2>1, <2>2, <2>3
  <2> QED
    BY <2>1, <2>2, <2>4 DEF SummaryInv, ReportAgrees
<1>5. ASSUME UNCHANGED vars, GetDailyStats PROVE SummaryInv'
  <2>1. /\ report.step = "summary" /\ report'.step = "built"
        /\ report'.link = report.link /\ report'.period = report.period
        /\ report'.total = report.total /\ report'.done = report.done
        /\ report'.daily = SumOfRows(report.link, report.period)
    BY <1>5 DEF GetDailyStats
  <2>2. /\ report.total \in Nat /\ report.done \in Nat /\ report.done <= report.total
        /\ report.total <= SumOfRows(report.link, report.period)
    BY <2>1 DEF SummaryInv, ReportAgrees, NoReport
  <2>3. /\ SumOfRows(report.link, report.period) \in Nat
        /\ SumOfRows(report.link, report.period) <= ClicksIn(stored, report.link, report.period)
    BY <1>2
  <2>4. stored' = stored
    BY <1>5 DEF vars
  <2>5. report'.daily <= ClicksIn(stored', report'.link, report'.period)
    BY <2>1, <2>3, <2>4
  <2> QED
    BY <2>1, <2>2, <2>3, <2>5 DEF SummaryInv, ReportAgrees, ClicksIn
<1>6. CASE report' = NoReport
  <2>1. report'.step = "none"
    BY <1>6 DEF NoReport
  <2> QED
    BY <1>6, <2>1 DEF SummaryInv, ReportAgrees
<1> QED
  BY <1>3, <1>4, <1>5, <1>6, ReportStep

\* With one worker a report counts every click that had been acknowledged when
\* it was begun, its daily rows are not behind its summary, and neither counts
\* more than the rows of click_events (GetAnalyticsSummary, GetDailyStats).
THEOREM ReportCorrect == OneWorker => (ReportSpec => []ReportAgrees)
<1> SUFFICES ASSUME OneWorker PROVE ReportSpec => []ReportAgrees
  OBVIOUS
<1>1. Spec => []CountBasis
  <2>1. Init => KeptInv /\ TotalsInv
    <3> SUFFICES ASSUME Init PROVE KeptInv /\ TotalsInv
      OBVIOUS
    <3>1. \A k \in StatKeys : Total(k) = 0
      BY FS_EmptySet DEF Init, Total
    <3> QED
      BY <3>1 DEF Init, KeptInv, AckedIsKept, DeadLetterInv, TotalsInv, NeverOvercounted
  <2>2. Basics /\ KeptInv /\ TotalsInv /\ AccurateInv => CountBasis
    BY DEF CountBasis
  <2> QED
    BY <2>1, <2>2, KeptNext, TotalsNext, BasicsAlways, AccurateAlways, PTL DEF Spec
<1>2. Init => CountedInv
  <2> SUFFICES ASSUME Init PROVE CountedInv
    OBVIOUS
  <2>1. \A k \in StatKeys : {m \in acked \ Poison : KeyOf[m] = k} = {} /\ stats[k] = 0
    BY DEF Init
  <2> QED
    BY <2>1, FS_EmptySet DEF CountedInv
<1>3. CountBasis /\ CountBasis' /\ CountedInv /\ [Next]_vars => CountedInv'
  BY CountedNext
<1>4. Spec => []CountedInv
  BY <1>1, <1>2, <1>3, PTL DEF Spec
<1>5. ReportInit => SummaryInv
  BY DEF ReportInit, SummaryInv, ReportAgrees, NoReport
<1>6. CountBasis /\ CountBasis' /\ CountedInv /\ SummaryInv /\ [ReportNext]_reportVars
      => SummaryInv'
  BY SummaryNext
<1>7. SummaryInv => ReportAgrees
  BY DEF SummaryInv
<1> QED
  BY <1>1, <1>4, <1>5, <1>6, <1>7, ReportIsSpec, PTL DEF ReportSpec
=============================================================================
